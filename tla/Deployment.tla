----------------------------- MODULE Deployment -----------------------------
(***************************************************************************)
(* The processes of a service (main.go of ordering, billing, inventory and *)
(* shipping) while releases are rolled out, and back, under load.  A       *)
(* process runs its workers in one errgroup and ends when a signal or the  *)
(* first failing worker cancels the group's context; the supervisor starts *)
(* it again, perhaps with another release.                                 *)
(*                                                                         *)
(* A worker stands for all of its kind.  "tail" reads the service's own    *)
(* store by position (relay, catch-up projection).  "consumer" takes one   *)
(* item at a time from the broker or a table and handles it under the      *)
(* group's context (command consumer, saga, inbox writers and reader,      *)
(* notifier).  "http" is the server, whose requests have a context of      *)
(* their own.  The tailing workers of all processes share one checkpoint.  *)
(***************************************************************************)
EXTENDS Faults, Repository

CONSTANTS Rollout,    \* the releases that are being exchanged
          Arriving    \* the commands that arrive, any number of times

ASSUME DeploymentAssumption == /\ Rollout \subseteq Releases /\ Rollout # {}
                               /\ Arriving \subseteq Commands

VARIABLES life,       \* process -> where its run() is
          rel,        \* process -> the release it was last started with
          workers,    \* process -> the workers that have not returned
          seq,        \* process -> position of its tailing worker, or 0
          checkpoint, \* the persisted position
          applied     \* what the tailing workers handed to their handlers

process == <<life, rel, workers>>
tail == <<seq, checkpoint, applied>>
deploymentVars == <<events, req, process, tail, faults>>

\* The errgroup of a service, by kind of worker; the last two dispatch
\* commands.
Workers == {"tail", "consumer", "http"}
Edges == {"consumer", "http"}

DeploymentInit ==
    /\ RepositoryInit
    /\ life = [p \in Procs |-> "down"]
    /\ rel = [p \in Procs |-> Min(Rollout)]
    /\ workers = [p \in Procs |-> {}]
    /\ seq = [p \in Procs |-> 0]
    /\ checkpoint = 0
    /\ applied = {}
    /\ faults = 0

\* The process is gone, with everything that was only in its memory.
Gone(p) == /\ life' = [life EXCEPT ![p] = "down"]
           /\ workers' = [workers EXCEPT ![p] = {}]
           /\ seq' = [seq EXCEPT ![p] = 0]
           /\ req' = [req EXCEPT ![p] = NoRequest]
           /\ UNCHANGED <<events, rel, checkpoint, applied>>

-----------------------------------------------------------------------------
(***************************************************************************)
(* The supervisor has started the image of release r and run() has got     *)
(* through its start-up: telemetry, a pinged connection pool, idempotent   *)
(* migrations, broker client, registry and buses.  All workers start       *)
(* together; the tailing one begins by reading the checkpoint.  A start-up *)
(* that fails at any step ends the process as it was, down.                *)
(***************************************************************************)
Start(p, r) ==
    /\ life[p] = "down"
    /\ life' = [life EXCEPT ![p] = "up"]
    /\ rel' = [rel EXCEPT ![p] = r]
    /\ workers' = [workers EXCEPT ![p] = Workers]
    /\ seq' = [seq EXCEPT ![p] = checkpoint]
    /\ UNCHANGED <<events, req, checkpoint, applied, faults>>

\* The process is killed, or panics.
Kill(p) == life[p] # "down" /\ Gone(p) /\ Fault

-----------------------------------------------------------------------------
\* The context of the errgroup is cancelled; the workers W have returned.
CancelGroup(p, W) ==
    /\ life' = [life EXCEPT ![p] = "stopping"]
    /\ workers' = [workers EXCEPT ![p] = @ \ W]
    /\ seq' = IF "tail" \in W THEN [seq EXCEPT ![p] = 0] ELSE seq
    /\ UNCHANGED <<events, rel, checkpoint, applied>>

\* SIGINT or SIGTERM.
Signal(p) == life[p] = "up" /\ CancelGroup(p, {}) /\ Fault /\ UNCHANGED req

\* A request of worker w is under way: w is inside its handler.
Busy(p, w) == req[p] # NoRequest /\ req[p].via = w

\* Mutant: a failing worker takes nobody with it.
WorkerFailsAlone(p, w) ==
    /\ life[p] = "up"
    /\ w \in workers[p]
    /\ ~Busy(p, w)
    /\ workers' = [workers EXCEPT ![p] = @ \ {w}]
    /\ Fault
    /\ UNCHANGED <<events, req, life, rel, tail>>

\* A worker returns an error: a read or a checkpoint failed, the broker
\* refused, the port is taken.
WorkerFails(p, w) ==
    /\ life[p] = "up"
    /\ w \in workers[p]
    /\ ~Busy(p, w)
    /\ CancelGroup(p, {w})
    /\ Fault
    /\ UNCHANGED req

(***************************************************************************)
(* A worker sees the cancelled context and returns, after the message or   *)
(* row it is handling.  ListenAndServe returns as soon as Shutdown has     *)
(* closed the listener: requests under way are not waited for.             *)
(***************************************************************************)
WorkerReturns(p, w) ==
    /\ life[p] = "stopping"
    /\ w \in workers[p]
    /\ w = "http" \/ ~Busy(p, w)
    /\ CancelGroup(p, {w})
    /\ UNCHANGED <<req, faults>>

\* g.Wait has returned: the deferred closes run and main ends.
Exit(p) == /\ life[p] = "stopping"
           /\ workers[p] = {}
           /\ Gone(p)
           /\ UNCHANGED faults

-----------------------------------------------------------------------------
\* A command arrives.  The listener takes connections until it is closed,
\* the other edges look at the context first.
Accept(p, via, c) ==
    /\ via \in Edges \cap workers[p]
    /\ via = "http" \/ life[p] = "up"
    /\ Dispatch(p, via, c)
    /\ UNCHANGED <<process, tail, faults>>

\* The request goes on, also while the process is stopping.
Execute(p) ==
    /\ Load(p, rel[p]) \/ Save(p, rel[p]) \/ Conflict(p)
    /\ UNCHANGED <<process, tail, faults>>

ExecuteFails(p) ==
    /\ SaveFails(p, rel[p])
    /\ Fault
    /\ UNCHANGED <<process, tail>>

\* A handler under the cancelled context fails its next statement, and the
\* bus does not retry.
Abort(p) ==
    /\ life[p] = "stopping"
    /\ req[p] # NoRequest
    /\ req[p].via # "http"
    /\ Answer(p)
    /\ UNCHANGED <<events, process, tail, faults>>

-----------------------------------------------------------------------------
\* The event after the tailing worker's position.
NextEvent(p, e) ==
    /\ "tail" \in workers[p]
    /\ e.seq > seq[p]
    /\ \A f \in events : f.seq > seq[p] => e.seq <= f.seq

\* The worker goes past the event, having applied the facts given, and
\* saves its position over whatever the checkpoint is.
Pass(p, e, facts) ==
    /\ seq' = [seq EXCEPT ![p] = e.seq]
    /\ checkpoint' = e.seq
    /\ applied' = applied \cup facts
    /\ UNCHANGED <<events, req, process, faults>>

(***************************************************************************)
(* A batch of one event.  A name this release has no handler or translator *)
(* for is passed over; any other is decoded and handled.                   *)
(***************************************************************************)
HandleNext(p) ==
    \E e \in events :
        /\ NextEvent(p, e)
        /\ IF e.data.name \notin Known(rel[p])
           THEN Pass(p, e, {})
           ELSE LET fact == Decode(rel[p], e.data)
                IN fact # DecodeError /\ Pass(p, e, {<<e.seq, fact>>})

\* The next event was written by a later release: Run returns the error.
Undecodable(p, e) ==
    /\ NextEvent(p, e)
    /\ e.data.name \in Known(rel[p])
    /\ Decode(rel[p], e.data) = DecodeError

\* Mutant: what cannot be decoded is skipped.
UnreadableSkipped(p) == \E e \in events : Undecodable(p, e) /\ Pass(p, e, {})

Unreadable(p) ==
    /\ \E e \in events : Undecodable(p, e)
    /\ CancelGroup(p, {"tail"})
    /\ UNCHANGED <<req, faults>>

-----------------------------------------------------------------------------
StartUp(p) == \E r \in Rollout : Start(p, r)

ShutDown(p) == \/ Kill(p)
               \/ Signal(p)
               \/ \E w \in Workers : WorkerFails(p, w) \/ WorkerReturns(p, w)
               \/ Exit(p)

Request(p) == \/ \E via \in Edges, c \in Arriving :
                    Accept(p, via, c)
              \/ Execute(p)
              \/ ExecuteFails(p)
              \/ Abort(p)

TailNext(p) == HandleNext(p) \/ Unreadable(p)

DeploymentNext ==
    \E p \in Procs : StartUp(p) \/ ShutDown(p) \/ Request(p) \/ TailNext(p)

DeploymentSpec == DeploymentInit /\ [][DeploymentNext]_deploymentVars

(***************************************************************************)
(* Fairness: the supervisor restarts a process that has ended, and the     *)
(* goroutines of a process keep running.  Faults are finite; restarts of a *)
(* release that cannot read the store are not.                             *)
(***************************************************************************)
DeploymentFairness ==
    \A p \in Procs :
        /\ WF_deploymentVars(\/ StartUp(p)
                             \/ \E w \in Workers : WorkerReturns(p, w)
                             \/ Exit(p))
        /\ WF_deploymentVars(Execute(p) \/ Abort(p))
        /\ WF_deploymentVars(TailNext(p))

DeploymentFairSpec == DeploymentSpec /\ DeploymentFairness

-----------------------------------------------------------------------------
Handled(e) == \E a \in applied : a[1] = e.seq

\* The names every release in use knows: these are never passed over.
Common == {n \in Names : \A r \in Rollout : n \in Known(r)}

(***************************************************************************)
(* What is read is what was written: whichever release wrote an event and  *)
(* whichever one handed it to a handler, the handler got the fact that was *)
(* raised.                                                                 *)
(***************************************************************************)
ReadExactly ==
    \A a \in applied : \E e \in events : a = <<e.seq, e.data.fact>>

(***************************************************************************)
(* A worker stops at what it cannot read: every event the shared           *)
(* checkpoint has passed was handled, if all releases know its name, even  *)
(* when old releases meet payloads of a later schema version.  Events      *)
(* under a name that only a later release knows are passed over.           *)
(***************************************************************************)
PassedIsHandled ==
    \A e \in events :
        e.seq <= checkpoint /\ e.data.name \in Common
            => Handled(e)

AllHandled == \A e \in events : e.data.name \in Common => Handled(e)

(***************************************************************************)
(* One process that stays on the newest release is enough: every event     *)
(* under a common name is handled in the end, although older processes     *)
(* crash and restart on it for ever.  This needs every failing worker to   *)
(* take its process down, and every process that goes down to get there.   *)
(***************************************************************************)
EventuallyAllHandled ==
    (\E p \in Procs : <>[](rel[p] = LastRelease)) => <>[]AllHandled

-----------------------------------------------------------------------------
\* The requests of the processes: one that is about to load, one that has
\* decided.
LoadRequest == [pc : {"load"}, via : Edges, cmd : Arriving,
                attempt : 1..Attempts]
SaveRequest == [pc : {"save"}, via : Edges, cmd : Arriving,
                attempt : 1..Attempts, version : Nat,
                pending : Seq([cmd : Arriving, name : Names])]

\* The types of the variables; the store is that of the port.
DeploymentTypeOK ==
    /\ Store!StoreInv
    /\ req \in [Procs -> {NoRequest} \cup LoadRequest \cup SaveRequest]
    /\ life \in [Procs -> {"down", "up", "stopping"}]
    /\ rel \in [Procs -> Rollout]
    /\ workers \in [Procs -> SUBSET Workers]
    /\ seq \in [Procs -> 0..MaxSeq]
    /\ checkpoint \in 0..MaxSeq
    /\ faults \in 0..MaxFaults

(***************************************************************************)
(* A process that is down executes nothing.  A decided request: its events *)
(* are an outcome of its command under the release of its process, and the *)
(* command has not been executed in the part of the stream it was decided  *)
(* on.                                                                     *)
(***************************************************************************)
RequestInv(p) ==
    /\ life[p] = "down" => req[p] = NoRequest /\ workers[p] = {}
    /\ req[p].pc = "save" =>
          /\ \E names \in Raises[rel[p]] :
                req[p].pending = Raised(req[p].cmd, names)
          /\ req[p].version <= Cardinality(events)
          /\ \A e \in events :
                e.version <= req[p].version => e.data.fact.cmd # req[p].cmd

(***************************************************************************)
(* A position that is held or persisted is one a worker got to, and the    *)
(* events up to it are handled; later appends land above it.               *)
(***************************************************************************)
TailedTo(s) ==
    /\ s = 0 \/ \E e \in events : e.seq = s
    /\ \A e \in events : e.seq <= s /\ e.data.name \in Common => Handled(e)

\* The inductive invariant.
DeploymentInv ==
    /\ DeploymentTypeOK
    /\ \A p \in Procs : RequestInv(p)
    /\ TailedTo(checkpoint)
    /\ \A p \in Procs : TailedTo(seq[p])
    /\ ReadExactly
=============================================================================
