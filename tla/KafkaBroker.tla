---------------------------- MODULE KafkaBroker ----------------------------
(***************************************************************************)
(* The Kafka subscription loop (broker-kafka/broker.go) of one consumer    *)
(* group on one partition: poll a fetch, hand its records to the handler   *)
(* one by one, retry the one that fails, commit each one that succeeds.    *)
(*                                                                         *)
(* A record is its offset, counting from 1; all records of a key share the *)
(* partition.  A member goes on with the fetch it has after the partition  *)
(* moved to another member, and after its context was cancelled: the       *)
(* closure given to EachRecord returns for the record it was retrying, and *)
(* is called for the ones behind it all the same.                          *)
(***************************************************************************)
EXTENDS Faults, Sequences, FiniteSets, Functions

CONSTANTS Members,    \* processes subscribed as the same group
          MaxLog      \* last record considered

ASSUME BrokerAssumption == MaxLog \in Nat

VARIABLES log,        \* number of records the partition holds
          committed,  \* the group's committed offset
          owner,      \* the member the partition is assigned to: a set of at most one
          pc,         \* where a member's Subscribe call is
          position,   \* the client's own fetch position
          fetch,      \* records of the current fetch still to visit
          cancelled,  \* ctx.Err() # nil
          handled     \* records some handler call of the group succeeded on

vars == <<log, committed, owner, pc, position, fetch, cancelled, handled, faults>>

Init == /\ log = 0
        /\ committed = 0
        /\ owner = {}
        /\ pc = [m \in Members |-> "down"]
        /\ position = [m \in Members |-> 0]
        /\ fetch = [m \in Members |-> <<>>]
        /\ cancelled = [m \in Members |-> FALSE]
        /\ handled = {}
        /\ faults = 0

-----------------------------------------------------------------------------
\* A producer's record is accepted.
Publish ==
    /\ log < MaxLog
    /\ log' = log + 1
    /\ UNCHANGED <<committed, owner, pc, position, fetch, cancelled, handled, faults>>

\* Subscribe makes a client of its own, which joins the group.
Subscribe(m) ==
    /\ pc[m] = "down"
    /\ pc' = [pc EXCEPT ![m] = "poll"]
    /\ cancelled' = [cancelled EXCEPT ![m] = FALSE]
    /\ UNCHANGED <<log, committed, owner, position, fetch, handled, faults>>

\* Mutant: a group without a commit starts at the end of the log.
AssignAtEnd(m) ==
    /\ pc[m] # "down"
    /\ owner = {}
    /\ owner' = {m}
    /\ position' = [position EXCEPT ![m] = IF committed = 0 THEN log ELSE committed]
    /\ UNCHANGED <<log, committed, pc, fetch, cancelled, handled, faults>>

\* The group gives the free partition to a member, which fetches from the
\* committed offset on, or from the start (ConsumeResetOffset).
Assign(m) ==
    /\ pc[m] # "down"
    /\ owner = {}
    /\ owner' = {m}
    /\ position' = [position EXCEPT ![m] = committed]
    /\ UNCHANGED <<log, committed, pc, fetch, cancelled, handled, faults>>

\* A rebalance takes the partition from a member; nothing stops the member
\* from visiting the rest of its fetch.
Revoke ==
    /\ owner # {}
    /\ Fault
    /\ owner' = {}
    /\ UNCHANGED <<log, committed, pc, position, fetch, cancelled, handled>>

\* The process is told to stop.
Cancel(m) ==
    /\ pc[m] # "down"
    /\ ~cancelled[m]
    /\ Fault
    /\ cancelled' = [cancelled EXCEPT ![m] = TRUE]
    /\ UNCHANGED <<log, committed, owner, pc, position, fetch, handled>>

-----------------------------------------------------------------------------
\* Subscribe is over: the deferred Close leaves the group.
Leave(m) ==
    /\ pc' = [pc EXCEPT ![m] = "down"]
    /\ fetch' = [fetch EXCEPT ![m] = <<>>]
    /\ owner' = owner \ {m}

\* PollFetches returns a non-empty run of records.
Poll(m) ==
    /\ pc[m] = "poll"
    /\ ~cancelled[m]
    /\ owner = {m}
    /\ \E last \in (position[m] + 1)..log :
          /\ fetch' = [fetch EXCEPT ![m] =
                          [i \in 1..(last - position[m]) |-> position[m] + i]]
          /\ position' = [position EXCEPT ![m] = last]
    /\ pc' = [pc EXCEPT ![m] = "handle"]
    /\ UNCHANGED <<log, committed, owner, cancelled, handled, faults>>

\* PollFetches blocks.
Idle(m) ==
    /\ pc[m] = "poll"
    /\ ~cancelled[m]
    /\ owner # {m} \/ position[m] = log
    /\ UNCHANGED vars

\* Mutant: the context is only looked at once the partition has records.
ReturnAfterRecords(m) ==
    /\ pc[m] = "poll"
    /\ cancelled[m]
    /\ position[m] < log
    /\ Leave(m)
    /\ UNCHANGED <<log, committed, position, cancelled, handled, faults>>

\* The context ended: Subscribe returns nil.
Return(m) ==
    /\ pc[m] = "poll"
    /\ cancelled[m]
    /\ Leave(m)
    /\ UNCHANGED <<log, committed, position, cancelled, handled, faults>>

\* The fetch reports an error, which Subscribe returns.
FetchFails(m) ==
    /\ pc[m] = "poll"
    /\ ~cancelled[m]
    /\ Fault
    /\ Leave(m)
    /\ UNCHANGED <<log, committed, position, cancelled, handled>>

-----------------------------------------------------------------------------
\* EachRecord goes on to the next record of the fetch, or the fetch is done.
NextRecord(m) ==
    /\ fetch' = [fetch EXCEPT ![m] = Tail(@)]
    /\ pc' = [pc EXCEPT ![m] = IF Len(fetch[m]) = 1 THEN "poll" ELSE "handle"]

\* The handler returns nil; it may, whatever became of its context.
Handle(m) ==
    /\ pc[m] = "handle"
    /\ handled' = handled \cup {Head(fetch[m])}
    /\ pc' = [pc EXCEPT ![m] = "commit"]
    /\ UNCHANGED <<log, committed, owner, position, fetch, cancelled, faults>>

\* Mutant: a failed record is left behind instead of being retried.
HandlerFailureSkipped(m) ==
    /\ pc[m] = "handle"
    /\ Fault
    /\ NextRecord(m)
    /\ UNCHANGED <<log, committed, owner, position, cancelled, handled>>

\* The handler returns an error.
HandlerFails(m) ==
    /\ pc[m] = "handle"
    /\ Fault
    /\ pc' = [pc EXCEPT ![m] = "backoff"]
    /\ UNCHANGED <<log, committed, owner, position, fetch, cancelled, handled>>

\* The backoff is over; select may see the timer although the context ended.
Retry(m) ==
    /\ pc[m] = "backoff"
    /\ pc' = [pc EXCEPT ![m] = "handle"]
    /\ UNCHANGED <<log, committed, owner, position, fetch, cancelled, handled, faults>>

\* The context ended during the backoff: the closure returns for this record.
GiveUp(m) ==
    /\ pc[m] = "backoff"
    /\ cancelled[m]
    /\ NextRecord(m)
    /\ UNCHANGED <<log, committed, owner, position, cancelled, handled, faults>>

\* CommitRecords moves the group's offset past the record.  A member that has
\* lost the partition may still be heard, and then may move it back.
Commit(m) ==
    /\ pc[m] = "commit"
    /\ ~cancelled[m]
    /\ committed' = Head(fetch[m])
    /\ NextRecord(m)
    /\ UNCHANGED <<log, owner, position, cancelled, handled, faults>>

\* CommitRecords fails: `failed` skips the rest of the fetch and Subscribe
\* returns.  With an ended context nothing is sent; otherwise the commit may
\* have been applied although its answer was lost.
CommitFails(m) ==
    /\ pc[m] = "commit"
    /\ \/ /\ cancelled[m]
          /\ UNCHANGED <<committed, faults>>
       \/ /\ ~cancelled[m]
          /\ Fault
          /\ committed' \in {committed, Head(fetch[m])}
    /\ Leave(m)
    /\ UNCHANGED <<log, position, cancelled, handled>>

\* The process dies; the group notices and frees its partition.
Crash(m) ==
    /\ pc[m] # "down"
    /\ Fault
    /\ Leave(m)
    /\ UNCHANGED <<log, committed, position, cancelled, handled>>

Member(m) == \/ Subscribe(m) \/ Assign(m)
             \/ Poll(m) \/ Return(m) \/ Handle(m)
             \/ Retry(m) \/ GiveUp(m) \/ Commit(m)
             \/ CommitFails(m)

Next == \/ Publish \/ Revoke
        \/ \E m \in Members :
              \/ Member(m) \/ Idle(m) \/ Cancel(m) \/ FetchFails(m)
              \/ HandlerFails(m) \/ Crash(m)

Spec == Init /\ [][Next]_vars

(***************************************************************************)
(* A supervisor restarts a process whose Subscribe returned, and the group *)
(* assigns a free partition to one of its members.  Handlers return, and   *)
(* fail only finitely often (MaxFaults): the loop never gives up.          *)
(***************************************************************************)
Fairness == /\ \A m \in Members : WF_vars(Member(m))
            /\ WF_vars(\E m \in Members : Assign(m))

FairSpec == Spec /\ Fairness

-----------------------------------------------------------------------------
(***************************************************************************)
(* At-least-once: the committed offset, from which the next owner starts,  *)
(* never lies past a record no handler call succeeded on, although a       *)
(* commit covers every record before it, a stopping member walks past the  *)
(* record it was retrying, and a member without the partition commits.     *)
(***************************************************************************)
NothingSkipped == 1..committed \subseteq handled

(***************************************************************************)
(* The order the Subscriber port promises (broker/broker.go): a record     *)
(* first succeeds when those before it have.                               *)
(***************************************************************************)
DeliveredInOrder == handled = 1..Cardinality(handled)

(***************************************************************************)
(* What the loop guarantees: a record succeeds ahead of an earlier one     *)
(* only on a member whose context has ended.                               *)
(***************************************************************************)
DisorderOnlyAtShutdown ==
    [][\A n \in handled' \ handled :
          \/ 1..(n - 1) \subseteq handled
          \/ \E m \in Members : cancelled[m] /\ pc[m] = "handle"
                                /\ Head(fetch[m]) = n]_vars

\* A published record is eventually handled, whoever fails or leaves.
EventuallyHandled == \A n \in 1..MaxLog : (log >= n) ~> (n \in handled)

\* Subscribe returns after its context is cancelled, even inside a fetch.
CancelReturns == \A m \in Members : cancelled[m] ~> (pc[m] = "down")

----------------------------------------------------------------------------
\* The types of the variables; at most one member owns the partition.
TypeOK == /\ log \in 0..MaxLog
          /\ committed \in Nat
          /\ owner = {} \/ \E m \in Members : owner = {m}
          /\ pc \in [Members -> {"down", "poll", "handle", "backoff", "commit"}]
          /\ position \in [Members -> Nat]
          /\ fetch \in [Members -> Seq(Nat \ {0})]
          /\ cancelled \in [Members -> BOOLEAN]
          /\ handled \subseteq Nat
          /\ faults \in 0..MaxFaults

(***************************************************************************)
(* The inductive invariant.  A fetch is a run of consecutive records, held *)
(* exactly while they are visited, and a record is committed only once it  *)
(* is handled.  For a member whose context has not ended, whatever lies    *)
(* before the record it visits is handled; if it owns the partition, so is *)
(* everything its client will not fetch again, but for the fetch itself.   *)
(***************************************************************************)
FetchInv(m) ==
    /\ \A i \in 1..Len(fetch[m]) : fetch[m][i] = fetch[m][1] + i - 1
    /\ fetch[m] # <<>> <=> pc[m] \in {"handle", "backoff", "commit"}
    /\ pc[m] = "commit" => fetch[m][1] \in handled
    /\ pc[m] = "down" => m \notin owner

ProgressInv(m) ==
    ~cancelled[m] =>
        /\ fetch[m] # <<>> => 1..(fetch[m][1] - 1) \subseteq handled
        /\ m \in owner => 1..position[m] \subseteq handled \cup Range(fetch[m])

Inv == /\ TypeOK
       /\ NothingSkipped
       /\ \A m \in Members : FetchInv(m) /\ ProgressInv(m)
============================================================================
