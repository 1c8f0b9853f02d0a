-------------------------------- MODULE Saga --------------------------------
(***************************************************************************)
(* One saga instance (saga/runner.go, saga/saga.go).  Several consumers    *)
(* (a goroutine per topic, in every replica) feed it; each delivery loads  *)
(* the instance by replaying its stream, decides, and appends the received *)
(* envelope, the requested commands and the end marker in one optimistic   *)
(* append at the version it loaded.                                        *)
(*                                                                         *)
(* What a handler decides depends on the state it decides from.  The model *)
(* keeps, with every entry, the set of messages the deciding replay had    *)
(* seen.                                                                   *)
(***************************************************************************)
EXTENDS Faults, Sequences, FiniteSets

CONSTANTS Consumers,       \* subscriptions: topic goroutines of all replicas
          Feed,            \* consumer -> sequence of message IDs it is given
          Commands,        \* message -> number of commands its handler issues
          Ends,            \* messages whose handler ends the saga
          Ignored,         \* messages that are not this saga's, or undecodable
          ConflictRetries  \* Runner.conflictRetries

Msgs == UNION {{Feed[c][i] : i \in DOMAIN Feed[c]} : c \in Consumers}

ASSUME SagaAssumption == /\ Feed \in [Consumers -> Seq(Msgs)]
                         /\ Commands \in [Msgs -> Nat]
                         /\ ConflictRetries \in Nat

VARIABLES stream,   \* the instance's recorded events
          offset,   \* per consumer, position of the message to deliver
          pc,       \* what a consumer's handler is doing
          loaded,   \* version the handler loaded: the replayed prefix
          attempt   \* conflict retries used for this delivery

vars == <<stream, offset, pc, loaded, attempt, faults>>

Current(c) == Feed[c][offset[c]]

\* The definition has a handler for the message, which decodes.
Handles(m) == m \notin Ignored

\* The state a replay of the first n entries rebuilds.
Seen(n) == {stream[i].msg : i \in {j \in 1..n : stream[j].kind = "received"}}
Ended(n) == \E i \in 1..n : stream[i].kind = "ended"

\* The stream's events: eventReceived, commandRequested and ended.
Entry(kind, m, basis) == [kind |-> kind, msg |-> m, basis |-> basis]

\* What one delivery appends: the envelope, every decision, the end marker.
Decided(m, basis) ==
    <<Entry("received", m, basis)>>
    \o [i \in 1..Commands[m] |-> Entry("command", m, basis)]
    \o IF m \in Ends THEN <<Entry("ended", m, basis)>> ELSE <<>>

Init == /\ stream = <<>>
        /\ offset = [c \in Consumers |-> 1]
        /\ pc = [c \in Consumers |-> "idle"]
        /\ loaded = [c \in Consumers |-> 0]
        /\ attempt = [c \in Consumers |-> 0]
        /\ faults = 0

\* The handler returns nil: the broker moves on to the next message.
Ack(c) == /\ offset' = [offset EXCEPT ![c] = @ + 1]
          /\ pc' = [pc EXCEPT ![c] = "idle"]
          /\ loaded' = [loaded EXCEPT ![c] = 0]
          /\ attempt' = [attempt EXCEPT ![c] = 0]

\* The handler returns an error or dies: the message will come again.
Nack(c) == /\ pc' = [pc EXCEPT ![c] = "idle"]
           /\ loaded' = [loaded EXCEPT ![c] = 0]
           /\ attempt' = [attempt EXCEPT ![c] = 0]
           /\ UNCHANGED offset

-----------------------------------------------------------------------------
\* A delivery: messages the saga has no handler for, or cannot correlate,
\* are acknowledged at once.
Deliver(c) ==
    /\ pc[c] = "idle"
    /\ offset[c] <= Len(Feed[c])
    /\ \/ /\ ~Handles(Current(c))
          /\ Ack(c)
       \/ /\ Handles(Current(c))
          /\ pc' = [pc EXCEPT ![c] = "process"]
          /\ UNCHANGED <<offset, loaded, attempt>>
    /\ UNCHANGED <<stream, faults>>

\* Mutants of Load: the seen set is not consulted; a duplicate is returned
\* as an error instead of being acknowledged.
LoadForgetsSeen(c) ==
    /\ pc[c] = "process"
    /\ \/ Ended(Len(stream)) /\ Ack(c)
       \/ /\ ~Ended(Len(stream))
          /\ pc' = [pc EXCEPT ![c] = "decided"]
          /\ loaded' = [loaded EXCEPT ![c] = Len(stream)]
          /\ UNCHANGED <<offset, attempt>>
    /\ UNCHANGED <<stream, faults>>

LoadRejectsDuplicate(c) ==
    /\ pc[c] = "process"
    /\ \/ /\ Ended(Len(stream)) \/ Current(c) \in Seen(Len(stream))
          /\ Nack(c)
       \/ /\ ~Ended(Len(stream))
          /\ Current(c) \notin Seen(Len(stream))
          /\ pc' = [pc EXCEPT ![c] = "decided"]
          /\ loaded' = [loaded EXCEPT ![c] = Len(stream)]
          /\ UNCHANGED <<offset, attempt>>
    /\ UNCHANGED <<stream, faults>>

\* process loads the instance (a missing stream is a new instance).  A
\* duplicate, or anything for an ended instance, is acknowledged.
Load(c) ==
    /\ pc[c] = "process"
    /\ \/ /\ Ended(Len(stream)) \/ Current(c) \in Seen(Len(stream))
          /\ Ack(c)
       \/ /\ ~Ended(Len(stream))
          /\ Current(c) \notin Seen(Len(stream))
          /\ pc' = [pc EXCEPT ![c] = "decided"]
          /\ loaded' = [loaded EXCEPT ![c] = Len(stream)]
          /\ UNCHANGED <<offset, attempt>>
    /\ UNCHANGED <<stream, faults>>

\* Mutant of Save: the expected version is not checked.
SaveUnchecked(c) ==
    /\ pc[c] = "decided"
    /\ stream' = stream \o Decided(Current(c), Seen(loaded[c]))
    /\ \/ Ack(c) /\ UNCHANGED faults
       \/ Nack(c) /\ Fault

\* The stream is still at the loaded version: the append succeeds, and
\* either its answer arrives or it is lost and the message is redelivered.
Save(c) ==
    /\ pc[c] = "decided"
    /\ Len(stream) = loaded[c]
    /\ stream' = stream \o Decided(Current(c), Seen(loaded[c]))
    /\ \/ Ack(c) /\ UNCHANGED faults
       \/ Nack(c) /\ Fault

\* Mutant of Conflict: the message is acknowledged when the retries are used
\* up.
ConflictDropped(c) ==
    /\ pc[c] = "decided"
    /\ Len(stream) # loaded[c]
    /\ \/ /\ attempt[c] < ConflictRetries
          /\ attempt' = [attempt EXCEPT ![c] = @ + 1]
          /\ pc' = [pc EXCEPT ![c] = "process"]
          /\ loaded' = [loaded EXCEPT ![c] = 0]
          /\ UNCHANGED offset
       \/ /\ attempt[c] = ConflictRetries
          /\ Ack(c)
    /\ UNCHANGED <<stream, faults>>

\* ErrVersionConflict: reload and decide again, a bounded number of times,
\* then hand the message back to the broker.
Conflict(c) ==
    /\ pc[c] = "decided"
    /\ Len(stream) # loaded[c]
    /\ \/ /\ attempt[c] < ConflictRetries
          /\ attempt' = [attempt EXCEPT ![c] = @ + 1]
          /\ pc' = [pc EXCEPT ![c] = "process"]
          /\ loaded' = [loaded EXCEPT ![c] = 0]
          /\ UNCHANGED offset
       \/ /\ attempt[c] = ConflictRetries
          /\ Nack(c)
    /\ UNCHANGED <<stream, faults>>

\* A storage error, a handler error, or the process dies.
Fail(c) ==
    /\ pc[c] # "idle"
    /\ Nack(c)
    /\ Fault
    /\ UNCHANGED stream

\* Every topic is drained.
Drained == /\ \A c \in Consumers : offset[c] > Len(Feed[c])
           /\ UNCHANGED vars

ConsumerNext(c) == Deliver(c) \/ Load(c) \/ Save(c) \/ Conflict(c) \/ Fail(c)

Next == Drained \/ \E c \in Consumers : ConsumerNext(c)

Spec == Init /\ [][Next]_vars

\* Every consumer's goroutine keeps running and the broker redelivers.
\* Faults are finite.
Fairness == \A c \in Consumers : WF_vars(Deliver(c) \/ Load(c) \/ Save(c)
                                         \/ Conflict(c))

FairSpec == Spec /\ Fairness

-----------------------------------------------------------------------------
Entries(kind, m) == {i \in DOMAIN stream : stream[i].kind = kind
                                           /\ stream[i].msg = m}

(***************************************************************************)
(* Effectively once: however often and through however many consumers a    *)
(* message is delivered, it is received at most once, and the commands it  *)
(* causes are requested exactly once, all of them or none.                 *)
(***************************************************************************)
DecidedOnce ==
    \A m \in Msgs :
        /\ Cardinality(Entries("received", m)) <= 1
        /\ Cardinality(Entries("command", m)) =
              IF Entries("received", m) = {} THEN 0 ELSE Commands[m]

(***************************************************************************)
(* No stale decision: what is recorded was decided from exactly the state  *)
(* that precedes it in the stream, so a replay decides the same.           *)
(***************************************************************************)
NoStaleDecision ==
    \A i \in DOMAIN stream :
        stream[i].kind = "received" => stream[i].basis = Seen(i - 1)

\* Nothing is recorded after the end marker, whichever consumers were in
\* the middle of a decision when another one ended the saga.
EndIsFinal ==
    \A i \in DOMAIN stream : stream[i].kind = "ended" => i = Len(stream)

\* No fact is lost: an acknowledged message of this saga was received, or
\* came to a saga that had ended.
NothingLost ==
    \A c \in Consumers : \A i \in 1..(offset[c] - 1) :
        \/ Feed[c][i] \in Ignored
        \/ Feed[c][i] \in Seen(Len(stream))
        \/ Ended(Len(stream))

\* Every message is eventually acknowledged: retries after conflicts and
\* redeliveries end.
EveryMessageAcked == \A c \in Consumers : <>(offset[c] > Len(Feed[c]))

-----------------------------------------------------------------------------
Recordable == [kind : {"received", "command", "ended"}, msg : Msgs,
               basis : SUBSET Msgs]

\* The types of the variables.
TypeOK == /\ stream \in Seq(Recordable)
          /\ offset \in [Consumers -> Nat \ {0}]
          /\ pc \in [Consumers -> {"idle", "process", "decided"}]
          /\ loaded \in [Consumers -> Nat]
          /\ attempt \in [Consumers -> 0..ConflictRetries]
          /\ faults \in 0..MaxFaults

(***************************************************************************)
(* The inductive invariant.  The stream is a sequence of blocks: whatever  *)
(* is recorded about a message comes with its only envelope, its commands  *)
(* right behind it.  A consumer that has decided did so from a prefix of   *)
(* the stream in which its message and the end marker did not occur.       *)
(***************************************************************************)
Received(i) == stream[i].kind = "received"

StreamInv ==
    /\ \A i \in DOMAIN stream : \E r \in DOMAIN stream :
          Received(r) /\ stream[r].msg = stream[i].msg
    /\ \A r, i \in DOMAIN stream :
          Received(r) /\ Received(i) /\ stream[r].msg = stream[i].msg => r = i
    /\ \A r \in DOMAIN stream :
          Received(r) => Entries("command", stream[r].msg) =
                            (r + 1)..(r + Commands[stream[r].msg])

ConsumerInv(c) ==
    /\ pc[c] # "idle" => /\ offset[c] <= Len(Feed[c])
                         /\ Current(c) \notin Ignored
    /\ pc[c] = "decided" => /\ loaded[c] <= Len(stream)
                            /\ ~Ended(loaded[c])
                            /\ Current(c) \notin Seen(loaded[c])

Inv == /\ TypeOK
       /\ StreamInv
       /\ NoStaleDecision
       /\ EndIsFinal
       /\ NothingLost
       /\ \A c \in Consumers : ConsumerInv(c)
=============================================================================
