-------------------------- MODULE ProjectionProofs --------------------------
(***************************************************************************)
(* What the checkpoint of a projection has passed is in the read model,    *)
(* and a wait that returned keeps its promise, for any number of runners   *)
(* and clients, through crashes, failed saves and rebuilds, over any store *)
(* that implements the port.                                               *)
(***************************************************************************)
EXTENDS Projection, EventStoreProofs

\* Types of the quantities that are compared.
LEMMA Types ==
    ASSUME Inv
    PROVE  /\ checkpoint \in Nat
           /\ \A r \in Runners : seq[r] \in Nat
           /\ \A c \in Clients : waiting[c] \in Nat
           /\ \A p \in caughtUp : p \in Nat
           /\ \A e \in events : e.seq \in Nat \ {0}
<1>1. MaxSeq \in Nat
  BY StoreAssumption
<1>2. \A e \in Event : e.seq \in Nat \ {0}
  BY <1>1 DEF Event
<1> QED
  BY <1>1, <1>2 DEF Inv, TypeOK

\* Nothing is at or below position 0.
LEMMA NothingBelowZero ==
    ASSUME Inv
    PROVE  Reached(0) /\ Holds(0)
BY Types DEF Reached, Holds

\* A step that leaves the store alone and takes nothing from the table.
LEMMA TableGrows ==
    ASSUME UNCHANGED events, applied \subseteq applied'
    PROVE  \A p : (Reached(p) <=> Reached(p)') /\ (Holds(p) => Holds(p)')
BY DEF Reached, Holds, Handles

\* The store's own invariant does not depend on the projection.
LEMMA StoreUnchanged ==
    ASSUME StoreInv, UNCHANGED events
    PROVE  StoreInv'
BY DEF StoreInv, WellFormed, Versions

\* A runner that takes no part in the step keeps its invariant.
LEMMA OtherRunner ==
    ASSUME NEW q \in Runners, RunnerInv(q),
           UNCHANGED events, applied \subseteq applied',
           pc'[q] = pc[q], seq'[q] = seq[q], batch'[q] = batch[q],
           pending'[q] = pending[q]
    PROVE  RunnerInv(q)'
<1>1. Reached(seq[q])' /\ Holds(seq[q])'
  BY DEF RunnerInv, Reached, Holds, Handles
<1> QED
  BY <1>1 DEF RunnerInv, Handles

\* A step of a runner leaves the clients' positions covered.
LEMMA ClientsKept ==
    ASSUME Inv, UNCHANGED <<events, waiting, caughtUp>>,
           applied \subseteq applied'
    PROVE  ClientInv'
<1>1. \A c \in Clients : Reached(waiting[c])'
  BY DEF Inv, ClientInv, Reached
<1>2. \A p \in caughtUp : Reached(p)' /\ Holds(p)'
  BY TableGrows DEF Inv, ClientInv
<1> QED
  BY <1>1, <1>2 DEF ClientInv

\* An empty read model over an empty store satisfies the invariant.
LEMMA InitInv == Init => Inv
<1> SUFFICES ASSUME Init PROVE Inv
  OBVIOUS
<1> USE DEF Init, StoreInit
<1>1. StoreInv
  BY EmptyStore
<1>2. TypeOK
  BY StoreAssumption, ProjectionAssumption, FaultsAssumption DEF TypeOK
<1>3. CheckpointInv /\ ClientInv /\ RebuildInv
  BY DEF CheckpointInv, AppliedToCheckpoint, ClientInv, RebuildInv, Reached,
         Holds
<1>4. \A r \in Runners : RunnerInv(r)
  BY DEF RunnerInv, Reached, Holds
<1> QED
  BY <1>1, <1>2, <1>3, <1>4 DEF Inv

-----------------------------------------------------------------------------
\* An append puts its events above every position anyone holds.
LEMMA AppendAbove ==
    ASSUME Inv, StoreNext
    PROVE  /\ StoreInv'
           /\ events \subseteq events'
           /\ \A e \in events, f \in events' \ events : e.seq < f.seq
           /\ \A f \in events' \ events : f.seq \in Nat \ {0}
           /\ \A p \in Nat : Reached(p) =>
                 \A f \in events' \ events : p < f.seq
<1>1. PICK s \in Streams, expected \in 0..MaxSeq, data \in Batches,
           base \in 0..MaxSeq : AppendEvents(s, expected, data, base)
  BY DEF StoreNext
<1>2. StoreInv'
  BY <1>1, AppendStep DEF Inv
<1>3. base \in Nat
  BY StoreAssumption
<1> DEFINE new == Recorded(s, expected, data, Len(data), base)
<1>4. events' = events \cup new /\ \A e \in events : e.seq <= base
  BY <1>1 DEF AppendEvents
<1>5. \A e \in new : e.seq > base /\ e.seq \in Nat
  BY <1>3, StoreAssumption DEF Recorded
<1> HIDE DEF new
<1>6. \A e \in events, f \in events' \ events : e.seq < f.seq
  BY <1>3, <1>4, <1>5, Types
<1>7. \A f \in events' \ events : f.seq \in Nat \ {0}
  BY <1>3, <1>4, <1>5
<1> QED
  BY <1>2, <1>4, <1>6, <1>7 DEF Reached

\* What an append leaves of the invariant, whoever waits for it.
LEMMA AppendInv ==
    ASSUME Inv, StoreNext,
           UNCHANGED <<applied, checkpoint, pc, seq, batch, pending,
                       caughtUp, rebuild, rebuilds, faults>>
    PROVE  /\ StoreInv' /\ CheckpointInv'
           /\ \A p \in caughtUp : Reached(p)' /\ Holds(p)'
           /\ \A r \in Runners : RunnerInv(r)'
           /\ \A p \in Nat : Reached(p) => Reached(p)'
<1>1. ASSUME NEW p \in Nat, Reached(p)
      PROVE  Reached(p)' /\ (Holds(p) => Holds(p)')
  <2>1. \A f \in events' \ events : ~(f.seq <= p)
    BY <1>1, AppendAbove
  <2> QED
    BY <1>1, <2>1, AppendAbove DEF Reached, Holds, Handles
<1>2. CheckpointInv'
  <2>1. Reached(checkpoint)' /\ (Holds(checkpoint) => Holds(checkpoint)')
    <3>1. checkpoint \in Nat /\ Reached(checkpoint)
      BY Types DEF Inv, CheckpointInv
    <3>2. PICK p \in Nat : p = checkpoint
      BY <3>1
    <3>3. Reached(p)' /\ (Holds(p) => Holds(p)')
      BY <1>1, <3>1, <3>2
    <3> QED
      BY <3>2, <3>3 DEF Reached, Holds, Handles
  <2> QED
    BY <2>1 DEF Inv, CheckpointInv, AppliedToCheckpoint
<1>3. \A p \in caughtUp : Reached(p)' /\ Holds(p)'
  BY <1>1, Types DEF Inv, ClientInv
<1>4. ASSUME NEW r \in Runners PROVE RunnerInv(r)'
  <2>1. Reached(seq[r])' /\ Holds(seq[r])'
    <3>1. seq[r] \in Nat /\ RunnerInv(r)
      BY Types DEF Inv
    <3>2. PICK p \in Nat : p = seq[r]
      BY <3>1
    <3>3. Reached(p)' /\ Holds(p)'
      BY <1>1, <3>1, <3>2 DEF RunnerInv
    <3> QED
      BY <3>2, <3>3 DEF Reached, Holds, Handles
  <2>2. batch[r] \subseteq events
    BY DEF Inv, RunnerInv
  <2>3. ASSUME NEW e \in batch[r], NEW f \in events', f.seq <= e.seq
        PROVE  f \in events
    BY <2>2, <2>3, AppendAbove, Types
  <2> QED
    BY <2>1, <2>2, <2>3, AppendAbove DEF Inv, RunnerInv, Handles
<1> QED
  BY <1>1, <1>2, <1>3, <1>4, AppendAbove

\* An append by someone who does not wait.
LEMMA WriteInv ==
    ASSUME Inv, Write
    PROVE  Inv'
<1>1. /\ StoreNext
      /\ UNCHANGED <<applied, checkpoint, pc, seq, batch, pending, waiting,
                     caughtUp, rebuild, rebuilds, faults>>
  BY DEF Write, local, clients, operator
<1>2. /\ StoreInv' /\ CheckpointInv'
      /\ \A p \in caughtUp : Reached(p)' /\ Holds(p)'
      /\ \A r \in Runners : RunnerInv(r)'
      /\ \A p \in Nat : Reached(p) => Reached(p)'
  BY <1>1, AppendInv
<1>3. TypeOK'
  BY <1>1, <1>2 DEF Inv, TypeOK, StoreInv
<1>4. ClientInv'
  <2>1. \A c \in Clients : Reached(waiting[c])'
    <3> SUFFICES ASSUME NEW c \in Clients PROVE Reached(waiting[c])'
      OBVIOUS
    <3>1. PICK p \in Nat : p = waiting[c]
      BY Types
    <3>2. Reached(p)'
      BY <1>2, <3>1 DEF Inv, ClientInv
    <3> QED
      BY <1>1, <3>1, <3>2 DEF Reached
  <2> QED
    BY <1>1, <1>2, <2>1 DEF ClientInv
<1>5. RebuildInv'
  BY <1>1 DEF Inv, RebuildInv
<1> QED
  BY <1>2, <1>3, <1>4, <1>5 DEF Inv

\* A client's own append: the position it waits for is that of an event.
LEMMA WriteAndWaitInv ==
    ASSUME Inv, NEW c \in Clients, WriteAndWait(c)
    PROVE  Inv'
<1>1. /\ StoreNext /\ rebuild = "no"
      /\ UNCHANGED <<applied, checkpoint, pc, seq, batch, pending,
                     caughtUp, rebuild, rebuilds, faults>>
  BY DEF WriteAndWait, local, operator
<1>2. PICK last \in events' : waiting' = [waiting EXCEPT ![c] = last.seq]
  BY DEF WriteAndWait
<1>3. /\ StoreInv' /\ CheckpointInv'
      /\ \A p \in caughtUp : Reached(p)' /\ Holds(p)'
      /\ \A r \in Runners : RunnerInv(r)'
      /\ \A p \in Nat : Reached(p) => Reached(p)'
  BY <1>1, AppendInv
<1>4. last.seq \in 0..MaxSeq
  BY <1>3, StoreAssumption DEF StoreInv, Event
<1>5. TypeOK'
  BY <1>1, <1>2, <1>3, <1>4 DEF Inv, TypeOK, StoreInv
<1>6. ClientInv'
  <2>1. \A d \in Clients : Reached(waiting[d])'
    <3> SUFFICES ASSUME NEW d \in Clients PROVE Reached(waiting[d])'
      OBVIOUS
    <3>1. waiting'[d] = IF d = c THEN last.seq ELSE waiting[d]
      BY <1>2 DEF Inv, TypeOK
    <3>2. PICK p \in Nat : p = waiting[d]
      BY Types
    <3>3. Reached(p)'
      BY <1>3, <3>2 DEF Inv, ClientInv
    <3> QED
      BY <3>1, <3>2, <3>3 DEF Reached
  <2> QED
    BY <1>1, <1>3, <2>1 DEF ClientInv
<1>7. RebuildInv'
  BY <1>1 DEF RebuildInv
<1> QED
  BY <1>3, <1>5, <1>6, <1>7 DEF Inv

-----------------------------------------------------------------------------
\* A step of a client that leaves the store, the table, the checkpoint and
\* the runners alone.
LEMMA ClientStep ==
    ASSUME Inv, ClientInv', TypeOK', RebuildInv',
           UNCHANGED <<events, applied, checkpoint, pc, seq, batch, pending,
                       rebuild>>
    PROVE  Inv'
<1>1. StoreInv'
  BY StoreUnchanged DEF Inv
<1>2. CheckpointInv'
  BY DEF Inv, CheckpointInv, AppliedToCheckpoint, Reached, Holds, Handles
<1>3. \A r \in Runners : RunnerInv(r)'
  BY OtherRunner DEF Inv
<1> QED
  BY <1>1, <1>2, <1>3 DEF Inv

\* A wait returns: everything up to its position has been applied.
LEMMA WaitReturnsInv ==
    ASSUME Inv, NEW c \in Clients, WaitReturns(c)
    PROVE  Inv'
<1>1. /\ waiting[c] # 0 /\ checkpoint >= waiting[c]
      /\ caughtUp' = caughtUp \cup {waiting[c]}
      /\ waiting' = [waiting EXCEPT ![c] = 0]
      /\ UNCHANGED <<events, applied, checkpoint, pc, seq, batch, pending,
                     rebuild, rebuilds, faults>>
  BY DEF WaitReturns, local, operator
<1>2. rebuild = "no"
  BY <1>1 DEF Inv, RebuildInv
<1>3. TypeOK'
  <2>1. waiting[c] \in 0..MaxSeq /\ 0 \in 0..MaxSeq
    BY StoreAssumption DEF Inv, TypeOK
  <2> QED
    BY <1>1, <2>1 DEF Inv, TypeOK
<1>4. Holds(waiting[c])
  BY <1>1, <1>2, Types DEF Inv, CheckpointInv, AppliedToCheckpoint, Holds
<1>5. ClientInv'
  <2>1. \A d \in Clients : waiting'[d] = IF d = c THEN 0 ELSE waiting[d]
    BY <1>1 DEF Inv, TypeOK
  <2>2. \A d \in Clients : Reached(waiting[d])'
    BY <1>1, <2>1 DEF Inv, ClientInv, Reached
  <2>3. \A p \in caughtUp' : Reached(p) /\ Holds(p)
    BY <1>1, <1>4 DEF Inv, ClientInv
  <2> QED
    BY <1>1, <2>2, <2>3 DEF ClientInv, Reached, Holds, Handles
<1>6. RebuildInv'
  BY <1>1, <1>2 DEF RebuildInv
<1> QED
  BY <1>1, <1>3, <1>5, <1>6, ClientStep

\* A wait that gives up promises nothing.
LEMMA WaitTimesOutInv ==
    ASSUME Inv, NEW c \in Clients, WaitTimesOut(c)
    PROVE  Inv'
<1>1. /\ waiting[c] # 0 /\ faults' = faults + 1 /\ faults < MaxFaults
      /\ waiting' = [waiting EXCEPT ![c] = 0]
      /\ UNCHANGED <<events, applied, checkpoint, pc, seq, batch, pending,
                     caughtUp, rebuild, rebuilds>>
  BY DEF WaitTimesOut, Fault, local, operator
<1>2. TypeOK'
  BY <1>1, StoreAssumption, ProjectionAssumption, FaultsAssumption DEF Inv, TypeOK
<1>3. \A d \in Clients : waiting'[d] = IF d = c THEN 0 ELSE waiting[d]
  BY <1>1 DEF Inv, TypeOK
<1>4. ClientInv'
  BY <1>1, <1>3 DEF Inv, ClientInv, Reached, Holds, Handles
<1>5. RebuildInv'
  BY <1>1, <1>3 DEF Inv, RebuildInv
<1> QED
  BY <1>1, <1>2, <1>4, <1>5, ClientStep

-----------------------------------------------------------------------------
\* A step of one runner: the others, the clients and the store keep their
\* parts of the invariant, so only the runner's own and the checkpoint's
\* are left to show.
LEMMA RunnerStep ==
    ASSUME Inv, NEW r \in Runners, TypeOK', RunnerInv(r)', CheckpointInv',
           UNCHANGED <<events, waiting, caughtUp, rebuild>>,
           rebuild = "no", applied \subseteq applied',
           \A q \in Runners \ {r} :
              /\ pc'[q] = pc[q] /\ seq'[q] = seq[q]
              /\ batch'[q] = batch[q] /\ pending'[q] = pending[q]
    PROVE  Inv'
<1>1. StoreInv'
  BY StoreUnchanged DEF Inv
<1>2. ClientInv'
  BY ClientsKept
<1>3. \A q \in Runners : RunnerInv(q)'
  BY OtherRunner DEF Inv
<1>4. RebuildInv'
  BY DEF RebuildInv
<1> QED
  BY <1>1, <1>2, <1>3, <1>4 DEF Inv

\* A running runner means that no rebuild is under way.
LEMMA RunningNoRebuild ==
    ASSUME Inv, NEW r \in Runners, pc[r] # "down"
    PROVE  rebuild = "no"
BY DEF Inv, RebuildInv

\* A runner starts at the checkpoint.
LEMMA StartInv ==
    ASSUME Inv, NEW r \in Runners, Start(r)
    PROVE  Inv'
<1>1. /\ pc[r] = "down" /\ rebuild = "no"
      /\ pc' = [pc EXCEPT ![r] = "read"]
      /\ seq' = [seq EXCEPT ![r] = checkpoint]
      /\ UNCHANGED <<events, applied, checkpoint, batch, pending, waiting,
                     caughtUp, rebuild, rebuilds, faults>>
  BY DEF Start, clients, operator
<1>2. TypeOK'
  BY <1>1 DEF Inv, TypeOK
<1>3. /\ pc'[r] = "read" /\ seq'[r] = checkpoint
      /\ \A q \in Runners \ {r} : pc'[q] = pc[q] /\ seq'[q] = seq[q]
  BY <1>1 DEF Inv, TypeOK
<1>4. CheckpointInv'
  BY <1>1 DEF Inv, CheckpointInv, AppliedToCheckpoint, Reached, Holds, Handles
<1>5. RunnerInv(r)'
  <2>1. batch[r] = {} /\ pending[r] = {}
    BY <1>1 DEF Inv, RunnerInv
  <2>2. Reached(seq[r])' /\ Holds(seq[r])'
    BY <1>1, <1>3, <1>4
       DEF CheckpointInv, AppliedToCheckpoint, Reached, Holds, Handles
  <2> QED
    BY <1>1, <1>3, <2>1, <2>2 DEF RunnerInv
<1> QED
  BY <1>1, <1>2, <1>3, <1>4, <1>5, RunnerStep

\* A batch continues the runner's position without a hole.
LEMMA ReadInv ==
    ASSUME Inv, NEW r \in Runners, Read(r)
    PROVE  Inv'
<1> DEFINE recs == ReadAll(seq[r], BatchSize)
<1>1. /\ pc[r] = "read"
      /\ pc' = [pc EXCEPT ![r] = "handle"]
      /\ batch' = [batch EXCEPT ![r] = recs]
      /\ pending' = [pending EXCEPT ![r] = recs]
      /\ UNCHANGED <<events, applied, checkpoint, seq, waiting, caughtUp,
                     rebuild, rebuilds, faults>>
  BY DEF Read, clients, operator
<1>2. recs \subseteq events /\ \A e \in recs : e.seq > seq[r]
  BY DEF ReadAll
<1>3. ASSUME NEW e \in recs, NEW f \in events, seq[r] < f.seq,
             f.seq <= e.seq
      PROVE  f \in recs
  <2>1. seq[r] \in Nat /\ BatchSize \in Nat /\ StoreInv
    BY Types, ProjectionAssumption DEF Inv
  <2> QED
    BY <1>3, <2>1, ReadAllClosed
<1> HIDE DEF recs
<1>4. TypeOK'
  BY <1>1, <1>2 DEF Inv, TypeOK
<1>5. /\ pc'[r] = "handle" /\ batch'[r] = recs /\ pending'[r] = recs
      /\ \A q \in Runners \ {r} : /\ pc'[q] = pc[q]
                                   /\ batch'[q] = batch[q]
                                   /\ pending'[q] = pending[q]
  BY <1>1 DEF Inv, TypeOK
<1>6. CheckpointInv'
  BY <1>1 DEF Inv, CheckpointInv, AppliedToCheckpoint, Reached, Holds, Handles
<1>7. RunnerInv(r)'
  <2>1. Reached(seq[r])' /\ Holds(seq[r])'
    BY <1>1 DEF Inv, RunnerInv, Reached, Holds, Handles
  <2> QED
    BY <1>1, <1>2, <1>3, <1>5, <2>1 DEF RunnerInv
<1> QED
  BY <1>1, <1>4, <1>5, <1>6, <1>7, RunningNoRebuild, RunnerStep

\* An event leaves the pending ones as its effect enters the table, or
\* because it has none.
LEMMA HandleInv ==
    ASSUME Inv, NEW r \in Runners, Handle(r)
    PROVE  Inv'
<1>1. /\ pc[r] = "handle"
      /\ UNCHANGED <<events, checkpoint, pc, seq, batch, waiting, caughtUp,
                     rebuild, rebuilds, faults>>
  BY DEF Handle, clients, operator
<1>2. PICK e \in pending[r] :
         /\ applied' = IF Handles(e) THEN applied \cup {e} ELSE applied
         /\ pending' = [pending EXCEPT ![r] = @ \ {e}]
  BY DEF Handle
<1>3. /\ pending'[r] = pending[r] \ {e}
      /\ \A q \in Runners \ {r} : pending'[q] = pending[q]
  BY <1>2 DEF Inv, TypeOK
<1>4. e \in Event
  BY DEF Inv, TypeOK
<1>5. TypeOK'
  BY <1>1, <1>2, <1>4 DEF Inv, TypeOK
<1>6. CheckpointInv'
  BY <1>1, <1>2 DEF Inv, CheckpointInv, AppliedToCheckpoint, Reached, Holds,
                    Handles
<1>7. RunnerInv(r)'
  <2>1. Reached(seq[r])' /\ Holds(seq[r])'
    BY <1>1, <1>2 DEF Inv, RunnerInv, Reached, Holds, Handles
  <2> QED
    BY <1>1, <1>2, <1>3, <2>1 DEF Inv, RunnerInv, Handles
<1> QED
  BY <1>1, <1>2, <1>3, <1>5, <1>6, <1>7, RunningNoRebuild, RunnerStep

\* Run ends, by an error or with the process: the runner holds nothing.
LEMMA StopInv ==
    ASSUME Inv, NEW r \in Runners, Stop(r), rebuild = "no", CheckpointInv',
           applied' \subseteq Event, applied \subseteq applied',
           checkpoint' \in 0..MaxSeq, faults' \in 0..MaxFaults,
           UNCHANGED <<events, waiting, caughtUp, rebuild, rebuilds>>
    PROVE  Inv'
<1>1. TypeOK'
  BY StoreAssumption DEF Inv, TypeOK, Stop
<1>2. /\ pc'[r] = "down" /\ seq'[r] = 0
      /\ batch'[r] = {} /\ pending'[r] = {}
      /\ \A q \in Runners \ {r} :
            /\ pc'[q] = pc[q] /\ seq'[q] = seq[q]
            /\ batch'[q] = batch[q] /\ pending'[q] = pending[q]
  BY DEF Inv, TypeOK, Stop
<1>3. RunnerInv(r)'
  <2>1. Reached(seq[r])' /\ Holds(seq[r])'
    BY <1>2, NothingBelowZero DEF Reached, Holds, Handles
  <2> QED
    BY <1>2, <2>1 DEF RunnerInv
<1> QED
  BY <1>1, <1>2, <1>3, RunnerStep

\* A whole batch is applied: everything up to its last event is in the
\* table, what lies below the batch because it lay below the position.
LEMMA BatchApplied ==
    ASSUME Inv, NEW r \in Runners, pending[r] = {}, NEW last \in batch[r],
           \A e \in batch[r] : e.seq <= last.seq
    PROVE  /\ last \in events /\ last.seq \in 0..MaxSeq
           /\ Reached(last.seq) /\ Holds(last.seq)
<1>1. RunnerInv(r) /\ seq[r] \in Nat /\ \A e \in events : e.seq \in Nat
  BY Types DEF Inv
<1>2. last \in events
  BY <1>1 DEF RunnerInv
<1>3. last.seq \in 0..MaxSeq
  BY <1>2, StoreAssumption DEF Inv, TypeOK, Event
<1>4. ASSUME NEW e \in events, e.seq <= last.seq, Handles(e)
      PROVE  e \in applied
  <2>1. CASE e.seq <= seq[r]
    BY <1>1, <1>4, <2>1 DEF RunnerInv, Holds
  <2>2. CASE seq[r] < e.seq
    BY <1>1, <1>4, <2>2 DEF RunnerInv
  <2> QED
    BY <1>1, <2>1, <2>2
<1> QED
  BY <1>2, <1>3, <1>4 DEF Reached, Holds

\* The checkpoint moves to the end of an applied batch, even if the answer
\* of Set is lost.
LEMMA AdvanceInv ==
    ASSUME Inv, NEW r \in Runners, Advance(r)
    PROVE  Inv'
<1>1. /\ pc[r] = "handle" /\ pending[r] = {}
      /\ UNCHANGED <<events, applied, waiting, caughtUp, rebuild, rebuilds>>
  BY DEF Advance, clients, operator
<1>2. PICK last \in batch[r] :
         /\ \A e \in batch[r] : e.seq <= last.seq
         /\ \/ /\ checkpoint' = last.seq
               /\ pc' = [pc EXCEPT ![r] = "read"]
               /\ seq' = [seq EXCEPT ![r] = last.seq]
               /\ batch' = [batch EXCEPT ![r] = {}]
               /\ UNCHANGED <<pending, faults>>
            \/ /\ checkpoint' \in {checkpoint, last.seq}
               /\ Stop(r)
               /\ Fault
  BY DEF Advance
<1>3. last.seq \in 0..MaxSeq /\ Reached(last.seq) /\ Holds(last.seq)
  BY <1>1, <1>2, BatchApplied
<1>4. rebuild = "no"
  BY <1>1, RunningNoRebuild
<1>5. checkpoint' \in {checkpoint, last.seq}
  BY <1>2
<1>6. CheckpointInv'
  BY <1>1, <1>3, <1>5 DEF Inv, CheckpointInv, AppliedToCheckpoint, Reached,
                          Holds, Handles
<1>7. CASE /\ pc' = [pc EXCEPT ![r] = "read"]
           /\ seq' = [seq EXCEPT ![r] = last.seq]
           /\ batch' = [batch EXCEPT ![r] = {}]
           /\ UNCHANGED <<pending, faults>>
  <2>1. TypeOK'
    BY <1>1, <1>3, <1>5, <1>7 DEF Inv, TypeOK
  <2>2. /\ pc'[r] = "read" /\ seq'[r] = last.seq /\ batch'[r] = {}
        /\ \A q \in Runners \ {r} : /\ pc'[q] = pc[q] /\ seq'[q] = seq[q]
                                     /\ batch'[q] = batch[q]
    BY <1>7 DEF Inv, TypeOK
  <2>3. RunnerInv(r)'
    <3>1. Reached(seq[r])' /\ Holds(seq[r])'
      BY <1>1, <1>3, <2>2 DEF Reached, Holds, Handles
    <3> QED
      BY <1>1, <1>7, <2>2, <3>1 DEF RunnerInv
  <2> QED
    BY <1>1, <1>4, <1>6, <1>7, <2>1, <2>2, <2>3, RunnerStep
<1>8. CASE Stop(r) /\ Fault
  <2>1. faults' \in 0..MaxFaults
    BY <1>8, FaultsAssumption DEF Fault, Inv, TypeOK
  <2>2. checkpoint' \in 0..MaxSeq /\ applied' \subseteq Event
    BY <1>1, <1>3, <1>5 DEF Inv, TypeOK
  <2> QED
    BY <1>1, <1>4, <1>6, <1>8, <2>1, <2>2, StopInv
<1> QED
  BY <1>2, <1>7, <1>8

\* A crash loses the batch, never the table.
LEMMA CrashInv ==
    ASSUME Inv, NEW r \in Runners, Crash(r)
    PROVE  Inv'
<1>1. /\ pc[r] # "down" /\ Stop(r) /\ Fault
      /\ UNCHANGED <<events, checkpoint, waiting, caughtUp, rebuild, rebuilds>>
  BY DEF Crash, clients, operator
<1>2. applied \subseteq applied' /\ applied' \subseteq Event
  <2>1. applied' = applied \/ \E e \in pending[r] : applied' = applied \cup {e}
    BY DEF Crash
  <2>2. pending[r] \subseteq Event /\ applied \subseteq Event
    BY DEF Inv, TypeOK
  <2> QED
    BY <2>1, <2>2
<1>3. rebuild = "no"
  BY <1>1, RunningNoRebuild
<1>4. faults' \in 0..MaxFaults
  BY <1>1, FaultsAssumption DEF Fault, Inv, TypeOK
<1>5. CheckpointInv'
  BY <1>1, <1>2 DEF Inv, CheckpointInv, AppliedToCheckpoint, Reached, Holds,
                    Handles
<1>6. checkpoint' \in 0..MaxSeq
  BY <1>1 DEF Inv, TypeOK
<1> QED
  BY <1>1, <1>2, <1>3, <1>4, <1>5, <1>6, StopInv

-----------------------------------------------------------------------------
\* The rebuild begins by taking runners and waiting clients away.
LEMMA StopRunnersInv ==
    ASSUME Inv, StopRunners
    PROVE  Inv'
<1> USE DEF StopRunners
<1>1. StoreInv'
  BY StoreUnchanged DEF Inv
<1>2. TypeOK'
  BY StoreAssumption, ProjectionAssumption DEF Inv, TypeOK
<1>3. CheckpointInv'
  BY DEF Inv, CheckpointInv, AppliedToCheckpoint, Reached
<1>4. ClientInv' /\ RebuildInv'
  BY DEF ClientInv, RebuildInv, Reached
<1>5. ASSUME NEW r \in Runners PROVE RunnerInv(r)'
  <2>1. seq'[r] = 0 /\ batch'[r] = {} /\ pending'[r] = {}
    OBVIOUS
  <2>2. Reached(seq[r])' /\ Holds(seq[r])'
    BY <2>1, NothingBelowZero DEF Reached, Holds, Handles
  <2> QED
    BY <2>1, <2>2 DEF RunnerInv
<1> QED
  BY <1>1, <1>2, <1>3, <1>4, <1>5 DEF Inv

\* Steps of the operator while no runner holds a position.
LEMMA OperatorStep ==
    ASSUME Inv, rebuild # "no", TypeOK', CheckpointInv',
           UNCHANGED <<events, pc, seq, batch, pending, waiting, caughtUp>>
    PROVE  Inv'
<1>1. /\ \A r \in Runners : /\ pc[r] = "down" /\ seq[r] = 0
                            /\ batch[r] = {} /\ pending[r] = {}
      /\ \A c \in Clients : waiting[c] = 0
      /\ caughtUp = {}
  BY DEF Inv, RebuildInv, RunnerInv
<1>2. StoreInv'
  BY StoreUnchanged DEF Inv
<1>3. ClientInv' /\ RebuildInv'
  BY <1>1 DEF ClientInv, RebuildInv, Reached
<1>4. ASSUME NEW r \in Runners PROVE RunnerInv(r)'
  <2>1. Reached(seq[r])' /\ Holds(seq[r])'
    BY <1>1, NothingBelowZero, Types DEF Reached, Holds, Handles
  <2> QED
    BY <1>1, <2>1 DEF RunnerInv
<1> QED
  BY <1>2, <1>3, <1>4 DEF Inv

\* The table is emptied; the checkpoint is stale until Reset.
LEMMA TruncateInv ==
    ASSUME Inv, Truncate
    PROVE  Inv'
<1>1. /\ rebuild = "stopped" /\ rebuild' = "truncated" /\ applied' = {}
      /\ UNCHANGED <<events, checkpoint, pc, seq, batch, pending, waiting,
                     caughtUp, rebuilds, faults>>
  BY DEF Truncate, local, clients
<1>2. TypeOK'
  BY <1>1 DEF Inv, TypeOK
<1>3. CheckpointInv'
  BY <1>1 DEF Inv, CheckpointInv, AppliedToCheckpoint, Reached
<1> QED
  BY <1>1, <1>2, <1>3, OperatorStep

\* Only with the checkpoint at 0 does the rebuild let runners start again.
LEMMA ResetInv ==
    ASSUME Inv, Reset
    PROVE  Inv'
<1>1. /\ rebuild = "truncated"
      /\ \/ rebuild' = "no" /\ checkpoint' = 0 /\ UNCHANGED faults
         \/ /\ checkpoint' \in {checkpoint, 0} /\ UNCHANGED rebuild
            /\ faults < MaxFaults /\ faults' = faults + 1
      /\ UNCHANGED <<events, applied, pc, seq, batch, pending, waiting,
                     caughtUp, rebuilds>>
  BY DEF Reset, Fault, local, clients
<1>2. TypeOK'
  <2>1. faults' \in 0..MaxFaults
    BY <1>1, ProjectionAssumption, FaultsAssumption DEF Inv, TypeOK
  <2>2. checkpoint' \in 0..MaxSeq /\ rebuild' \in {"no", "truncated"}
    BY <1>1, StoreAssumption DEF Inv, TypeOK
  <2> QED
    BY <1>1, <2>1, <2>2 DEF Inv, TypeOK
<1>3. CheckpointInv'
  BY <1>1, NothingBelowZero
     DEF Inv, CheckpointInv, AppliedToCheckpoint, Reached, Holds, Handles
<1> QED
  BY <1>1, <1>2, <1>3, OperatorStep

-----------------------------------------------------------------------------
\* A stuttering step, Idle's included.
LEMMA StutterInv ==
    ASSUME Inv, UNCHANGED vars
    PROVE  Inv'
<1>1. UNCHANGED <<events, applied, checkpoint, pc, seq, batch, pending,
                  waiting, caughtUp, rebuild, rebuilds, faults>>
  BY DEF vars, local, clients, operator
<1>2. TypeOK' /\ ClientInv' /\ RebuildInv'
  BY <1>1 DEF Inv, TypeOK, ClientInv, RebuildInv, Reached, Holds, Handles
<1> QED
  BY <1>1, <1>2, ClientStep

\* Every step keeps the invariant.
LEMMA NextInv == Inv /\ [Next]_vars => Inv'
<1> SUFFICES ASSUME Inv, [Next]_vars PROVE Inv'
  OBVIOUS
<1>1. CASE Write
  BY <1>1, WriteInv
<1>2. ASSUME NEW c \in Clients, WriteAndWait(c) PROVE Inv'
  BY <1>2, WriteAndWaitInv
<1>3. ASSUME NEW c \in Clients, WaitReturns(c) PROVE Inv'
  BY <1>3, WaitReturnsInv
<1>4. ASSUME NEW c \in Clients, WaitTimesOut(c) PROVE Inv'
  BY <1>4, WaitTimesOutInv
<1>5. ASSUME NEW r \in Runners, RunnerNext(r) PROVE Inv'
  <2>1. CASE Start(r)
    BY <2>1, StartInv
  <2>2. CASE Read(r)
    BY <2>2, ReadInv
  <2>3. CASE Idle(r)
    BY <2>3, StutterInv DEF Idle
  <2>4. CASE Handle(r)
    BY <2>4, HandleInv
  <2>5. CASE Advance(r)
    BY <2>5, AdvanceInv
  <2>6. CASE Crash(r)
    BY <2>6, CrashInv
  <2> QED
    BY <1>5, <2>1, <2>2, <2>3, <2>4, <2>5, <2>6 DEF RunnerNext
<1>6. CASE StopRunners
  BY <1>6, StopRunnersInv
<1>7. CASE Truncate
  BY <1>7, TruncateInv
<1>8. CASE Reset
  BY <1>8, ResetInv
<1>9. CASE UNCHANGED vars
  BY <1>9, StutterInv
<1> QED
  BY <1>1, <1>2, <1>3, <1>4, <1>5, <1>6, <1>7, <1>8, <1>9 DEF Next

\* The invariant holds throughout.
THEOREM Invariance == Spec => []Inv
BY InitInv, NextInv, PTL DEF Spec

(***************************************************************************)
(* At-least-once application: outside a rebuild, everything the checkpoint *)
(* of projection/catchup.go has passed is in the read model.               *)
(***************************************************************************)
THEOREM CheckpointApplied == Spec => []AppliedToCheckpoint
<1>1. Inv => AppliedToCheckpoint
  BY DEF Inv, CheckpointInv
<1> QED
  BY <1>1, Invariance, PTL

(***************************************************************************)
(* Read-your-writes: once WaitForCheckpoint (projection/wait.go) returned  *)
(* for a position, everything committed up to it stays in the read model   *)
(* until a rebuild, even when the shared checkpoint moves back.            *)
(***************************************************************************)
THEOREM WaitKeepsItsPromise == Spec => []ReadYourWrites
<1>1. Inv => ReadYourWrites
  BY DEF Inv, ClientInv, ReadYourWrites
<1> QED
  BY <1>1, Invariance, PTL
=============================================================================
