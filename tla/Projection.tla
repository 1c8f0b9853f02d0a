----------------------------- MODULE Projection -----------------------------
(***************************************************************************)
(* A read model fed from the service's own event store                     *)
(* (projection/catchup.go): runners tail the store, hand the events one by *)
(* one to the projection's handlers and advance the checkpoint once the    *)
(* whole batch is applied.  Clients that have just written wait for the    *)
(* checkpoint before they query (projection/wait.go), and an operator      *)
(* rebuilds the read model the documented way: stop the runners, truncate, *)
(* Reset, restart.                                                         *)
(*                                                                         *)
(* The read table is abstracted to the set of events whose effect it       *)
(* holds: handlers are idempotent upserts, applying twice adds nothing.    *)
(***************************************************************************)
EXTENDS Faults, EventStore

CONSTANTS Runners,    \* replicas of CatchUp, sharing the checkpoint
          Clients,    \* HTTP requests that write and wait
          Handled,    \* payloads with a registered handler
          BatchSize,  \* Config.BatchSize
          MaxRebuilds \* bound on rebuilds

ASSUME ProjectionAssumption == /\ Handled \subseteq Payloads
                               /\ BatchSize \in Nat \ {0}
                               /\ MaxRebuilds \in Nat

VARIABLES applied,    \* events whose effect is in the read table
          checkpoint, \* StoreCheckpoint
          pc, seq, batch,
          pending,    \* events of the batch not yet handed to a handler
          waiting,    \* position a client waits for, 0 if it does not wait
          caughtUp,   \* positions whose wait returned without error
          rebuild,    \* how far the operator's rebuild is
          rebuilds

local == <<pc, seq, batch, pending>>
clients == <<waiting, caughtUp>>
operator == <<rebuild, rebuilds>>
vars == <<events, applied, checkpoint, local, clients, operator, faults>>

Init == /\ StoreInit
        /\ applied = {}
        /\ checkpoint = 0
        /\ pc = [r \in Runners |-> "down"]
        /\ seq = [r \in Runners |-> 0]
        /\ batch = [r \in Runners |-> {}]
        /\ pending = [r \in Runners |-> {}]
        /\ waiting = [c \in Clients |-> 0]
        /\ caughtUp = {}
        /\ rebuild = "no"
        /\ rebuilds = 0
        /\ faults = 0

\* The projection has a handler for the event.
Handles(e) == e.data \in Handled

Stop(r) == /\ pc' = [pc EXCEPT ![r] = "down"]
           /\ seq' = [seq EXCEPT ![r] = 0]
           /\ batch' = [batch EXCEPT ![r] = {}]
           /\ pending' = [pending EXCEPT ![r] = {}]

-----------------------------------------------------------------------------
\* Someone else's command appends to the store.  So does a client's own
\* whose answer is lost: the retry finds it done and saves nothing, the
\* captured position stays 0, and WaitForCheckpoint does not wait.
Write == /\ StoreNext
         /\ UNCHANGED <<applied, checkpoint, local, clients, operator, faults>>

\* A client's command appends; CapturePosition hands it the position of
\* its last event, and it starts to wait.
WriteAndWait(c) ==
    /\ waiting[c] = 0
    /\ rebuild = "no"
    /\ StoreNext
    /\ \E last \in events' \ events :
          /\ \A e \in events' : e.seq <= last.seq
          /\ waiting' = [waiting EXCEPT ![c] = last.seq]
    /\ UNCHANGED <<applied, checkpoint, local, caughtUp, operator, faults>>

\* Mutant: one position short.
WaitReturnsEarly(c) ==
    /\ waiting[c] # 0
    /\ checkpoint + 1 >= waiting[c]
    /\ caughtUp' = caughtUp \cup {waiting[c]}
    /\ waiting' = [waiting EXCEPT ![c] = 0]
    /\ UNCHANGED <<events, applied, checkpoint, local, operator, faults>>

\* WaitForCheckpoint sees the checkpoint at or past the position.
WaitReturns(c) ==
    /\ waiting[c] # 0
    /\ checkpoint >= waiting[c]
    /\ caughtUp' = caughtUp \cup {waiting[c]}
    /\ waiting' = [waiting EXCEPT ![c] = 0]
    /\ UNCHANGED <<events, applied, checkpoint, local, operator, faults>>

\* The deadline passes first, or Get fails: the edge answers 202.
WaitTimesOut(c) ==
    /\ waiting[c] # 0
    /\ Fault
    /\ waiting' = [waiting EXCEPT ![c] = 0]
    /\ UNCHANGED <<events, applied, checkpoint, local, caughtUp, operator>>

Start(r) ==
    /\ pc[r] = "down"
    /\ rebuild = "no"
    /\ pc' = [pc EXCEPT ![r] = "read"]
    /\ seq' = [seq EXCEPT ![r] = checkpoint]
    /\ UNCHANGED <<events, applied, checkpoint, batch, pending, clients,
                   operator, faults>>

Read(r) ==
    LET recs == ReadAll(seq[r], BatchSize)
    IN /\ pc[r] = "read"
       /\ recs # {}
       /\ pc' = [pc EXCEPT ![r] = "handle"]
       /\ batch' = [batch EXCEPT ![r] = recs]
       /\ pending' = [pending EXCEPT ![r] = recs]
       /\ UNCHANGED <<events, applied, checkpoint, seq, clients, operator,
                      faults>>

\* Nothing new: sleep for the poll interval and try again.
Idle(r) ==
    /\ pc[r] = "read"
    /\ ReadAll(seq[r], BatchSize) = {}
    /\ UNCHANGED vars

\* The next event of the batch, in order; without a handler it is skipped.
Handle(r) ==
    /\ pc[r] = "handle"
    /\ \E e \in pending[r] :
          /\ \A f \in pending[r] : e.seq <= f.seq
          /\ applied' = IF Handles(e) THEN applied \cup {e} ELSE applied
          /\ pending' = [pending EXCEPT ![r] = @ \ {e}]
    /\ UNCHANGED <<events, checkpoint, pc, seq, batch, clients, operator,
                   faults>>

\* Mutant: a batch without handled events is not checkpointed.
AdvanceHandledOnly(r) ==
    /\ pc[r] = "handle"
    /\ pending[r] = {}
    /\ \E last \in batch[r] :
          /\ \A e \in batch[r] : e.seq <= last.seq
          /\ checkpoint' = IF \E e \in batch[r] : Handles(e)
                         THEN last.seq ELSE checkpoint
          /\ pc' = [pc EXCEPT ![r] = "read"]
          /\ seq' = [seq EXCEPT ![r] = last.seq]
          /\ batch' = [batch EXCEPT ![r] = {}]
    /\ UNCHANGED <<events, applied, pending, clients, operator, faults>>

\* The batch is applied: advance.  A failed Set, applied or not, ends Run.
Advance(r) ==
    /\ pc[r] = "handle"
    /\ pending[r] = {}
    /\ \E last \in batch[r] :
          /\ \A e \in batch[r] : e.seq <= last.seq
          /\ \/ /\ checkpoint' = last.seq
                /\ pc' = [pc EXCEPT ![r] = "read"]
                /\ seq' = [seq EXCEPT ![r] = last.seq]
                /\ batch' = [batch EXCEPT ![r] = {}]
                /\ UNCHANGED <<pending, faults>>
             \/ /\ checkpoint' \in {checkpoint, last.seq}
                /\ Stop(r)
                /\ Fault
    /\ UNCHANGED <<events, applied, clients, operator>>

\* A handler, a decode or a read fails, or the process dies.  The handler
\* may have written its row before it failed.
Crash(r) ==
    /\ pc[r] # "down"
    /\ \/ UNCHANGED applied
       \/ \E e \in pending[r] :
             /\ \A f \in pending[r] : e.seq <= f.seq
             /\ Handles(e)
             /\ applied' = applied \cup {e}
    /\ Stop(r)
    /\ Fault
    /\ UNCHANGED <<events, checkpoint, clients, operator>>

\* Mutant: the runners keep running during the rebuild.
KeepRunners ==
    /\ rebuild = "no"
    /\ rebuilds < MaxRebuilds
    /\ rebuild' = "stopped"
    /\ rebuilds' = rebuilds + 1
    /\ waiting' = [c \in Clients |-> 0]
    /\ caughtUp' = {}
    /\ UNCHANGED <<events, applied, checkpoint, local, faults>>

(***************************************************************************)
(* The rebuild.  The runners live in the service's process, so stopping    *)
(* them takes the clients' requests with it.                               *)
(***************************************************************************)
StopRunners ==
    /\ rebuild = "no"
    /\ rebuilds < MaxRebuilds
    /\ rebuild' = "stopped"
    /\ rebuilds' = rebuilds + 1
    /\ pc' = [r \in Runners |-> "down"]
    /\ seq' = [r \in Runners |-> 0]
    /\ batch' = [r \in Runners |-> {}]
    /\ pending' = [r \in Runners |-> {}]
    /\ waiting' = [c \in Clients |-> 0]
    /\ caughtUp' = {}
    /\ UNCHANGED <<events, applied, checkpoint, faults>>

Truncate ==
    /\ rebuild = "stopped"
    /\ rebuild' = "truncated"
    /\ applied' = {}
    /\ UNCHANGED <<events, checkpoint, local, clients, rebuilds, faults>>

\* Mutant: the checkpoint survives the reset.
ResetForgotten ==
    /\ rebuild = "truncated"
    /\ rebuild' = "no"
    /\ UNCHANGED <<events, applied, checkpoint, local, clients, rebuilds,
                   faults>>

\* Reset zeroes the checkpoint and the restart may follow; a Reset that
\* fails, its write applied or not, is run again.
Reset ==
    /\ rebuild = "truncated"
    /\ \/ /\ rebuild' = "no"
          /\ checkpoint' = 0
          /\ UNCHANGED faults
       \/ /\ checkpoint' \in {checkpoint, 0}
          /\ Fault
          /\ UNCHANGED rebuild
    /\ UNCHANGED <<events, applied, local, clients, rebuilds>>

RunnerNext(r) == \/ Start(r)
                 \/ Read(r)
                 \/ Idle(r)
                 \/ Handle(r)
                 \/ Advance(r)
                 \/ Crash(r)

Next == \/ Write
        \/ \E c \in Clients : \/ WriteAndWait(c)
                              \/ WaitReturns(c)
                              \/ WaitTimesOut(c)
        \/ \E r \in Runners : RunnerNext(r)
        \/ StopRunners
        \/ Truncate
        \/ Reset

Spec == Init /\ [][Next]_vars

(***************************************************************************)
(* Fairness: the supervisor restarts runners, runners keep running, a wait *)
(* keeps polling, and an operator who started a rebuild completes it.      *)
(* Faults are finite.                                                      *)
(***************************************************************************)
Fairness == /\ \A r \in Runners : /\ WF_vars(Start(r))
                                  /\ WF_vars(Read(r))
                                  /\ WF_vars(Handle(r))
                                  /\ WF_vars(Advance(r))
            /\ \A c \in Clients : WF_vars(WaitReturns(c))
            /\ WF_vars(Truncate)
            /\ WF_vars(Reset)

FairSpec == Spec /\ Fairness

-----------------------------------------------------------------------------
\* The read table holds everything up to a position.
Holds(p) == \A e \in events : e.seq <= p /\ Handles(e) => e \in applied

(***************************************************************************)
(* At-least-once application: outside a rebuild, everything the checkpoint *)
(* has passed is in the read model, after crashes, failed saves, a second  *)
(* runner writing the same checkpoint, and rebuilds.                       *)
(***************************************************************************)
AppliedToCheckpoint == rebuild = "no" => Holds(checkpoint)

(***************************************************************************)
(* Read-your-writes: once WaitForCheckpoint has returned for a captured    *)
(* position, a query sees the client's write and everything committed      *)
(* before it, even if the shared checkpoint moves back afterwards.         *)
(***************************************************************************)
ReadYourWrites == rebuild = "no" => \A p \in caughtUp : Holds(p)

\* Every event with a handler ends up in the read model, for good, through
\* crashes and rebuilds.
EventuallyApplied ==
    \A p \in 1..MaxSeq :
        (\E e \in events : e.seq = p /\ Handles(e)) ~>
            [](\E e \in applied : e.seq = p)

\* A wait ends: no client hangs once its write is committed.
EveryWaitEnds == \A c \in Clients : waiting[c] # 0 ~> waiting[c] = 0

-----------------------------------------------------------------------------
\* The types of the variables.
TypeOK == /\ events \subseteq Event
          /\ applied \subseteq Event
          /\ checkpoint \in 0..MaxSeq
          /\ pc \in [Runners -> {"down", "read", "handle"}]
          /\ seq \in [Runners -> 0..MaxSeq]
          /\ batch \in [Runners -> SUBSET Event]
          /\ pending \in [Runners -> SUBSET Event]
          /\ waiting \in [Clients -> 0..MaxSeq]
          /\ caughtUp \subseteq 0..MaxSeq
          /\ rebuild \in {"no", "stopped", "truncated"}
          /\ rebuilds \in 0..MaxRebuilds
          /\ faults \in 0..MaxFaults

(***************************************************************************)
(* The inductive invariant.  Every position anyone holds is 0 or that of a *)
(* visible event, so that an append can only add events above it.  The     *)
(* read table holds everything up to a runner's position and up to every   *)
(* position a wait returned for; while the table is being rebuilt there is *)
(* no such runner and no such wait.                                        *)
(***************************************************************************)
Reached(p) == p = 0 \/ \E e \in events : e.seq = p

CheckpointInv == Reached(checkpoint) /\ AppliedToCheckpoint

ClientInv == /\ \A c \in Clients : Reached(waiting[c])
             /\ \A p \in caughtUp : Reached(p) /\ Holds(p)

\* A runner's batch continues its position without a hole, and what is no
\* longer pending in it has been applied.
RunnerInv(r) ==
    /\ Reached(seq[r])
    /\ Holds(seq[r])
    /\ batch[r] \subseteq events
    /\ \A e \in batch[r] : e.seq > seq[r]
    /\ \A e \in batch[r], f \in events :
          seq[r] < f.seq /\ f.seq <= e.seq => f \in batch[r]
    /\ pending[r] \subseteq batch[r]
    /\ \A e \in batch[r] : Handles(e) => e \in pending[r] \/ e \in applied
    /\ pc[r] # "handle" => batch[r] = {}
    /\ pc[r] = "down" => seq[r] = 0

RebuildInv == rebuild # "no" => /\ \A r \in Runners : pc[r] = "down"
                                /\ \A c \in Clients : waiting[c] = 0
                                /\ caughtUp = {}

Inv == /\ TypeOK
       /\ StoreInv
       /\ CheckpointInv
       /\ ClientInv
       /\ \A r \in Runners : RunnerInv(r)
       /\ RebuildInv
=============================================================================
