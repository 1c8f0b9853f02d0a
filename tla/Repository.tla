----------------------------- MODULE Repository -----------------------------
(***************************************************************************)
(* Commands on an event-sourced aggregate: Repository.Load, the decision,  *)
(* Repository.Save (eventstore/repository.go, kernel/aggregate.go) and the *)
(* command bus that retries them (cqrs/command.go), over any store that    *)
(* implements EventStore.  Several processes, each running a release of    *)
(* its own, work on the same store.  One aggregate is enough: a command    *)
(* touches a single stream.                                                *)
(*                                                                         *)
(* A request is one Dispatch.  The aggregate object it works on is its     *)
(* own: the version it was loaded at and the events raised on it.  The     *)
(* domain is the smallest one in which a decision depends on the history:  *)
(* a command that has taken effect is refused.                             *)
(***************************************************************************)
EXTENDS Registry, Sequences, Functions, FiniteSetsExt

CONSTANTS Procs,      \* processes of the service
          Aggregate,  \* the identity of the stream
          History,    \* what is stored at first: [cmd, name, rel] each
          Raises,     \* release -> the sequences of names a command may raise
          Attempts,   \* RetryPolicy.Attempts
          MaxBatch,   \* most events one command raises
          MaxSeq      \* last value of the global sequence

ASSUME RepositoryAssumption ==
    /\ Attempts \in Nat \ {0}
    /\ MaxBatch \in Nat \ {0}
    /\ MaxSeq \in Nat
    /\ DOMAIN Raises = Releases
    /\ \A r \in Releases : \A names \in Raises[r] :
          names \in Seq(Known(r)) /\ Len(names) \in 1..MaxBatch
    /\ History \in Seq([cmd : Commands, name : Names, rel : Releases])
    /\ \A i \in DOMAIN History : History[i].name \in Known(History[i].rel)
    /\ Len(History) <= MaxSeq

VARIABLES events,     \* the store, see EventStore
          req         \* process -> the request it executes

Store == INSTANCE EventStore WITH Payloads <- Encoded,
                                  Streams <- {Aggregate}

\* Raise: the facts command c records under the given names.
Raised(c, names) == [i \in DOMAIN names |-> [cmd |-> c, name |-> names[i]]]

\* The facts History has left, and their records.
Initial == [i \in DOMAIN History |->
               [cmd |-> History[i].cmd, name |-> History[i].name]]

InitialEvents ==
    Store!Recorded(Aggregate, 0,
                   [i \in DOMAIN History |->
                       Encode(History[i].rel, Initial[i])],
                   Len(History), 0)

NoRequest == [pc |-> "none"]

RepositoryInit == /\ events = InitialEvents
                  /\ req = [p \in Procs |-> NoRequest]

\* Store.Load: the stream in version order.
Stream == [v \in 1..Cardinality(events) |->
              CHOOSE e \in events : e.version = v]

\* The decoding and Rehydrate of Repository.Load, by release r.
Rehydrate(r) == [v \in DOMAIN Stream |-> Decode(r, Stream[v].data)]

\* Store.Head: GlobalSeq of the last event, 0 when there is none.
HeadSeq == Max({0} \cup {e.seq : e \in events})

-----------------------------------------------------------------------------
\* Bus.Dispatch: a command reaches its handler, by HTTP or from the broker.
Dispatch(p, via, c) ==
    /\ req[p] = NoRequest
    /\ req' = [req EXCEPT ![p] = [pc |-> "load", via |-> via, cmd |-> c,
                                  attempt |-> 1]]
    /\ UNCHANGED events

\* Dispatch returns: the client has its answer.
Answer(p) == req' = [req EXCEPT ![p] = NoRequest]

\* Bus.withRetry after an error that is not a DomainError.
AttemptFails(p) ==
    IF req[p].attempt < Attempts
    THEN req' = [req EXCEPT ![p] = [pc |-> "load", via |-> @.via,
                                    cmd |-> @.cmd,
                                    attempt |-> @.attempt + 1]]
    ELSE Answer(p)

(***************************************************************************)
(* Repository.Load and the handler's decision.  One event that cannot be   *)
(* decoded fails the attempt.  A stream without events is a new aggregate. *)
(* A command that finds itself done is refused with a DomainError, any     *)
(* other raises its events.                                                *)
(***************************************************************************)
Load(p, r) ==
    LET history == Range(Rehydrate(r))
    IN /\ req[p].pc = "load"
       /\ IF DecodeError \in history THEN AttemptFails(p)
          ELSE IF \E f \in history : f.cmd = req[p].cmd THEN Answer(p)
          ELSE \E names \in Raises[r] :
                   req' = [req EXCEPT ![p] =
                              [pc |-> "save", via |-> @.via, cmd |-> @.cmd,
                               attempt |-> @.attempt,
                               version |-> Len(Stream),
                               pending |-> Raised(@.cmd, names)]]
       /\ UNCHANGED events

\* Append of the uncommitted events of p's aggregate, at a version.
AppendPending(p, r, version) ==
    Store!AppendEvents(Aggregate, version,
                       [i \in DOMAIN req[p].pending |->
                           Encode(r, req[p].pending[i])], HeadSeq)

\* Repository.Save: the pending events go in at the loaded version.
Save(p, r) ==
    /\ req[p].pc = "save"
    /\ AppendPending(p, r, req[p].version)
    /\ Answer(p)

\* ErrVersionConflict: somebody else has written to the stream.
Conflict(p) ==
    /\ req[p].pc = "save"
    /\ Len(Stream) # req[p].version
    /\ AttemptFails(p)
    /\ UNCHANGED events

\* Append reports an error, after the events were recorded or without.
SaveFails(p, r) ==
    /\ req[p].pc = "save"
    /\ UNCHANGED events \/ AppendPending(p, r, req[p].version)
    /\ AttemptFails(p)

-----------------------------------------------------------------------------
Outcomes(c) == {Raised(c, names) : names \in UNION Range(Raises)}

\* The aggregate as the newest release sees it.
Atomic == INSTANCE AtomicCommands WITH state <- Rehydrate(LastRelease)

(***************************************************************************)
(* Commands are atomic: across releases, races, retries and appends whose  *)
(* answer is lost, every step on the store is one command that decided on  *)
(* the current state of its aggregate and recorded all of its facts.  A    *)
(* reader of the newest release finds exactly the facts that were raised.  *)
(***************************************************************************)
CommandsAreAtomic == Atomic!Spec
=============================================================================
