---------------------------- MODULE ProcessProofs ----------------------------
(***************************************************************************)
(* First, the Kafka subscription never commits past a record no handler    *)
(* call succeeded on, and lets a record overtake an earlier one only on a  *)
(* member that is stopping: for any number of members and records.  Then,  *)
(* the processes of a service while releases are exchanged: commands are   *)
(* atomic, a handler gets the fact that was raised, and the checkpoint the *)
(* processes share passes nothing that was not handled: for any number of  *)
(* processes and releases and upcaster chains of any length.               *)
(***************************************************************************)
EXTENDS KafkaBroker, Deployment, FiniteSetTheorems, SequenceTheorems,
        WellFoundedInduction, TLAPS

\* What is behind the head of a run of consecutive records.
LEMMA TailOfRun ==
    ASSUME NEW s \in Seq(Nat \ {0}), s # <<>>,
           \A i \in 1..Len(s) : s[i] = s[1] + i - 1
    PROVE  /\ Tail(s) \in Seq(Nat \ {0})
           /\ s[1] \in Nat \ {0}
           /\ Head(s) = s[1]
           /\ Tail(s) # <<>> <=> Len(s) # 1
           /\ Tail(s) # <<>> => Tail(s)[1] = s[1] + 1
           /\ \A i \in 1..Len(Tail(s)) : Tail(s)[i] = Tail(s)[1] + i - 1
           /\ Range(s) \subseteq Range(Tail(s)) \cup {s[1]}
<1>1. Len(s) \in Nat \ {0} /\ Len(Tail(s)) = Len(s) - 1
  OBVIOUS
<1>2. Tail(s) \in Seq(Nat \ {0}) /\ s[1] \in Nat \ {0} /\ Head(s) = s[1]
  BY <1>1
<1>3. \A i \in 1..Len(Tail(s)) : Tail(s)[i] = s[i + 1] /\ i + 1 \in 1..Len(s)
  BY <1>1
<1>4. Tail(s) # <<>> <=> Len(s) # 1
  <2> DEFINE t == Tail(s)
  <2>1. t \in Seq(Nat \ {0}) /\ Len(t) = Len(s) - 1
    BY <1>1, <1>2
  <2> HIDE DEF t
  <2>2. t = <<>> <=> Len(t) = 0
    BY <2>1, EmptySeq
  <2>3. t # <<>> <=> Len(s) # 1
    BY <1>1, <2>1, <2>2
  <2> QED
    BY <2>3 DEF t
<1>5. \A i \in 1..Len(Tail(s)) : Tail(s)[i] = s[1] + i
  BY <1>1, <1>2, <1>3
<1>6. Tail(s) # <<>> => Tail(s)[1] = s[1] + 1
  BY <1>1, <1>4, <1>5
<1>7. ASSUME NEW i \in 1..Len(Tail(s))
      PROVE  Tail(s)[i] = Tail(s)[1] + i - 1
  <2>1. 1 \in 1..Len(Tail(s)) /\ i \in Nat
    BY <1>1
  <2> QED
    BY <1>2, <1>5, <2>1
<1>8. Range(s) \subseteq Range(Tail(s)) \cup {s[1]}
  <2> SUFFICES ASSUME NEW i \in 1..Len(s), i # 1
               PROVE  s[i] \in Range(Tail(s))
    BY <1>1 DEF Range
  <2>1. i - 1 \in 1..Len(Tail(s)) /\ Tail(s)[i - 1] = s[i]
    BY <1>1, <1>3
  <2>2. DOMAIN Tail(s) = 1..Len(Tail(s))
    BY <1>2
  <2> QED
    BY <2>1, <2>2 DEF Range
<1> QED
  BY <1>2, <1>4, <1>6, <1>7, <1>8

\* A group without a commit, with no member, satisfies the invariant.
LEMMA InitInv == Init => Inv
<1> SUFFICES ASSUME Init PROVE Inv
  OBVIOUS
<1> USE DEF Init
<1>1. TypeOK
  <2>1. <<>> \in Seq(Nat \ {0})
    OBVIOUS
  <2> QED
    BY <2>1, BrokerAssumption, FaultsAssumption DEF TypeOK
<1>2. NothingSkipped
  BY DEF NothingSkipped
<1>3. \A m \in Members : FetchInv(m) /\ ProgressInv(m)
  BY DEF FetchInv, ProgressInv
<1> QED
  BY <1>1, <1>2, <1>3 DEF Inv

\* A member that takes no part in a step: nothing it relies on is undone.
LEMMA OtherMember ==
    ASSUME NEW q \in Members, FetchInv(q), ProgressInv(q),
           pc'[q] = pc[q], position'[q] = position[q],
           fetch'[q] = fetch[q], cancelled'[q] = cancelled[q],
           q \in owner' => q \in owner, handled \subseteq handled'
    PROVE  FetchInv(q)' /\ ProgressInv(q)'
BY DEF FetchInv, ProgressInv

\* A new record touches no member.
LEMMA PublishInv ==
    ASSUME Inv, Publish
    PROVE  Inv'
<1> USE DEF Publish
<1>1. TypeOK'
  BY BrokerAssumption DEF Inv, TypeOK
<1>2. NothingSkipped'
  BY DEF Inv, NothingSkipped
<1>3. \A m \in Members : FetchInv(m)' /\ ProgressInv(m)'
  BY OtherMember DEF Inv
<1> QED
  BY <1>1, <1>2, <1>3 DEF Inv

\* A rebalance takes the partition: its owner keeps only its fetch.
LEMMA RevokeInv ==
    ASSUME Inv, Revoke
    PROVE  Inv'
<1> USE DEF Revoke, Fault
<1>1. TypeOK'
  BY BrokerAssumption, FaultsAssumption DEF Inv, TypeOK
<1>2. NothingSkipped'
  BY DEF Inv, NothingSkipped
<1>3. \A m \in Members : FetchInv(m)' /\ ProgressInv(m)'
  BY OtherMember DEF Inv
<1> QED
  BY <1>1, <1>2, <1>3 DEF Inv

\* A step of one member: the others keep their parts of the invariant.
LEMMA MemberStep ==
    ASSUME Inv, NEW m \in Members, TypeOK', NothingSkipped',
           FetchInv(m)', ProgressInv(m)',
           handled \subseteq handled',
           \A q \in Members \ {m} :
              /\ pc'[q] = pc[q] /\ position'[q] = position[q]
              /\ fetch'[q] = fetch[q] /\ cancelled'[q] = cancelled[q]
              /\ q \in owner' => q \in owner
    PROVE  Inv'
BY OtherMember DEF Inv

\* A new client has no partition and no fetch.
LEMMA SubscribeInv ==
    ASSUME Inv, NEW m \in Members, Subscribe(m)
    PROVE  Inv'
<1> USE DEF Subscribe
<1>1. TypeOK'
  BY DEF Inv, TypeOK
<1>2. NothingSkipped'
  BY DEF Inv, NothingSkipped
<1>3. /\ pc'[m] = "poll"
      /\ \A q \in Members \ {m} : pc'[q] = pc[q] /\ cancelled'[q] = cancelled[q]
  BY DEF Inv, TypeOK
<1>4. FetchInv(m)' /\ ProgressInv(m)'
  BY <1>3 DEF Inv, FetchInv, ProgressInv
<1> QED
  BY <1>1, <1>2, <1>3, <1>4, MemberStep

\* The new owner starts behind the committed records, all of them handled.
LEMMA AssignInv ==
    ASSUME Inv, NEW m \in Members, Assign(m)
    PROVE  Inv'
<1> USE DEF Assign
<1>1. TypeOK'
  BY DEF Inv, TypeOK
<1>2. NothingSkipped'
  BY DEF Inv, NothingSkipped
<1>3. /\ position'[m] = committed
      /\ \A q \in Members \ {m} : position'[q] = position[q]
  BY DEF Inv, TypeOK
<1>4. FetchInv(m)' /\ ProgressInv(m)'
  BY <1>3 DEF Inv, FetchInv, ProgressInv, NothingSkipped
<1> QED
  BY <1>1, <1>2, <1>3, <1>4, MemberStep

\* Of a member that is stopping the invariant asks less.
LEMMA CancelInv ==
    ASSUME Inv, NEW m \in Members, Cancel(m)
    PROVE  Inv'
<1> USE DEF Cancel, Fault
<1>1. TypeOK'
  BY BrokerAssumption, FaultsAssumption DEF Inv, TypeOK
<1>2. NothingSkipped'
  BY DEF Inv, NothingSkipped
<1>3. /\ cancelled'[m] = TRUE
      /\ \A q \in Members \ {m} : cancelled'[q] = cancelled[q]
  BY DEF Inv, TypeOK
<1>4. FetchInv(m)' /\ ProgressInv(m)'
  BY <1>3 DEF Inv, FetchInv, ProgressInv
<1> QED
  BY <1>1, <1>2, <1>3, <1>4, MemberStep

\* A member leaves the group: it holds no fetch and no partition.
LEMMA LeaveInv ==
    ASSUME Inv, NEW m \in Members, Leave(m), NothingSkipped',
           committed' \in Nat, faults' \in 0..MaxFaults,
           UNCHANGED <<log, position, cancelled, handled>>
    PROVE  Inv'
<1> USE DEF Leave
<1>1. TypeOK'
  <2>1. <<>> \in Seq(Nat \ {0})
    OBVIOUS
  <2>2. owner' = {} \/ \E q \in Members : owner' = {q}
    BY DEF Inv, TypeOK
  <2> QED
    BY <2>1, <2>2 DEF Inv, TypeOK
<1>2. /\ pc'[m] = "down" /\ fetch'[m] = <<>> /\ m \notin owner'
      /\ \A q \in Members \ {m} : pc'[q] = pc[q] /\ fetch'[q] = fetch[q]
  BY DEF Inv, TypeOK
<1>3. FetchInv(m)' /\ ProgressInv(m)'
  BY <1>2 DEF FetchInv, ProgressInv
<1> QED
  BY <1>1, <1>2, <1>3, MemberStep

\* A fetch begins right behind the position, below which all is handled.
LEMMA PollInv ==
    ASSUME Inv, NEW m \in Members, Poll(m)
    PROVE  Inv'
<1>1. /\ pc[m] = "poll" /\ ~cancelled[m] /\ owner = {m}
      /\ pc' = [pc EXCEPT ![m] = "handle"]
      /\ UNCHANGED <<log, committed, owner, cancelled, handled, faults>>
  BY DEF Poll
<1>2. PICK last \in (position[m] + 1)..log :
         /\ fetch' = [fetch EXCEPT ![m] =
                         [i \in 1..(last - position[m]) |-> position[m] + i]]
         /\ position' = [position EXCEPT ![m] = last]
  BY DEF Poll
<1> DEFINE p == position[m]
           n == last - p
           run == [i \in 1..n |-> p + i]
<1>3. p \in Nat /\ last \in Nat /\ last > p /\ n \in Nat \ {0}
  BY <1>2, BrokerAssumption DEF Inv, TypeOK
<1> HIDE DEF n
<1>4. run \in Seq(Nat \ {0}) /\ Len(run) = n
  BY <1>3
<1>5. /\ pc'[m] = "handle" /\ fetch'[m] = run /\ position'[m] = last
      /\ \A q \in Members \ {m} : /\ pc'[q] = pc[q]
                                  /\ fetch'[q] = fetch[q]
                                  /\ position'[q] = position[q]
  BY <1>1, <1>2 DEF Inv, TypeOK, n
<1>6. TypeOK'
  BY <1>1, <1>2, <1>3, <1>4 DEF Inv, TypeOK, n
<1>7. NothingSkipped'
  BY <1>1 DEF Inv, NothingSkipped
<1>8. run # <<>> /\ run[1] = p + 1 /\ \A i \in 1..n : run[i] = run[1] + i - 1
  BY <1>3, <1>4
<1>9. 1..p \subseteq handled
  <2>1. fetch[m] = <<>>
    BY <1>1 DEF Inv, FetchInv
  <2>2. Range(fetch[m]) = {}
    BY <2>1 DEF Range
  <2> QED
    BY <1>1, <2>2 DEF Inv, ProgressInv
<1>10. 1..last \subseteq 1..p \cup Range(run)
  <2> SUFFICES ASSUME NEW k \in 1..last, k > p PROVE k \in Range(run)
    BY <1>3
  <2>1. k - p \in 1..n /\ run[k - p] = k
    BY <1>3 DEF n
  <2> QED
    BY <2>1 DEF Range
<1> HIDE DEF run, p
<1>11. FetchInv(m)'
  BY <1>1, <1>4, <1>5, <1>8 DEF FetchInv
<1>12. ProgressInv(m)'
  <2>1. (p + 1) - 1 = p
    BY <1>3
  <2> QED
    BY <1>1, <1>5, <1>8, <1>9, <1>10, <2>1 DEF ProgressInv
<1> QED
  BY <1>1, <1>5, <1>6, <1>7, <1>11, <1>12, MemberStep

\* A record succeeds.
LEMMA HandleInv ==
    ASSUME Inv, NEW m \in Members, Handle(m)
    PROVE  Inv'
<1> USE DEF Handle
<1>1. /\ fetch[m] \in Seq(Nat \ {0}) /\ fetch[m] # <<>>
      /\ \A i \in 1..Len(fetch[m]) : fetch[m][i] = fetch[m][1] + i - 1
  BY DEF Inv, TypeOK, FetchInv
<1>2. Head(fetch[m]) = fetch[m][1] /\ fetch[m][1] \in Nat \ {0}
  BY <1>1, TailOfRun
<1>3. TypeOK'
  BY <1>2 DEF Inv, TypeOK
<1>4. NothingSkipped'
  BY DEF Inv, NothingSkipped
<1>5. /\ pc'[m] = "commit"
      /\ \A q \in Members \ {m} : pc'[q] = pc[q]
  BY DEF Inv, TypeOK
<1>6. FetchInv(m)' /\ ProgressInv(m)'
  BY <1>1, <1>2, <1>5 DEF Inv, FetchInv, ProgressInv
<1> QED
  BY <1>3, <1>4, <1>5, <1>6, MemberStep

\* A record fails and is retried: the fetch stays.
LEMMA RetryingInv ==
    ASSUME Inv, NEW m \in Members, NEW step \in {"handle", "backoff"},
           pc[m] \in {"handle", "backoff"},
           pc' = [pc EXCEPT ![m] = step], faults' \in 0..MaxFaults,
           UNCHANGED <<log, committed, owner, position, fetch, cancelled,
                       handled>>
    PROVE  Inv'
<1>1. TypeOK'
  BY DEF Inv, TypeOK
<1>2. NothingSkipped'
  BY DEF Inv, NothingSkipped
<1>3. pc'[m] = step /\ \A q \in Members \ {m} : pc'[q] = pc[q]
  BY DEF Inv, TypeOK
<1>4. FetchInv(m)' /\ ProgressInv(m)'
  BY <1>3 DEF Inv, FetchInv, ProgressInv
<1> QED
  BY <1>1, <1>2, <1>3, <1>4, MemberStep

\* EachRecord goes on: behind a handled record, or on a stopping member.
LEMMA NextRecordInv ==
    ASSUME Inv, NEW m \in Members, NextRecord(m),
           pc[m] \in {"backoff", "commit"},
           cancelled[m] \/ Head(fetch[m]) \in handled,
           NothingSkipped', committed' \in Nat,
           UNCHANGED <<log, owner, position, cancelled, handled, faults>>
    PROVE  Inv'
<1> DEFINE s == fetch[m]
<1>1. /\ s \in Seq(Nat \ {0}) /\ s # <<>>
      /\ \A i \in 1..Len(s) : s[i] = s[1] + i - 1
  BY DEF Inv, TypeOK, FetchInv
<1>2. /\ Tail(s) \in Seq(Nat \ {0}) /\ s[1] \in Nat \ {0} /\ Head(s) = s[1]
      /\ Tail(s) # <<>> <=> Len(s) # 1
      /\ Tail(s) # <<>> => Tail(s)[1] = s[1] + 1
      /\ \A i \in 1..Len(Tail(s)) : Tail(s)[i] = Tail(s)[1] + i - 1
      /\ Range(s) \subseteq Range(Tail(s)) \cup {s[1]}
  BY <1>1, TailOfRun
<1>3. /\ fetch'[m] = Tail(s)
      /\ pc'[m] = IF Tail(s) = <<>> THEN "poll" ELSE "handle"
      /\ \A q \in Members \ {m} : pc'[q] = pc[q] /\ fetch'[q] = fetch[q]
  BY <1>2 DEF NextRecord, Inv, TypeOK
<1>4. TypeOK'
  BY <1>2 DEF NextRecord, Inv, TypeOK
<1>5. FetchInv(m)'
  BY <1>2, <1>3 DEF Inv, FetchInv
<1>6. ProgressInv(m)'
  <2> SUFFICES ASSUME ~cancelled[m] PROVE ProgressInv(m)'
    BY DEF ProgressInv
  <2>1. s[1] \in handled /\ 1..(s[1] - 1) \subseteq handled
    BY <1>1, <1>2 DEF Inv, ProgressInv
  <2>2. 1..s[1] \subseteq handled
    BY <1>2, <2>1
  <2>3. Tail(s) # <<>> => 1..(Tail(s)[1] - 1) \subseteq handled
    <3>1. (s[1] + 1) - 1 = s[1]
      BY <1>2
    <3> QED
      BY <1>2, <2>2, <3>1
  <2>4. m \in owner => 1..position[m] \subseteq handled \cup Range(Tail(s))
    BY <1>2, <2>1 DEF Inv, ProgressInv
  <2> QED
    BY <1>3, <2>3, <2>4 DEF ProgressInv
<1> QED
  BY <1>3, <1>4, <1>5, <1>6, MemberStep

\* The records a member that is not stopping may commit are all handled.
LEMMA CommitCovers ==
    ASSUME Inv, NEW m \in Members, pc[m] = "commit", ~cancelled[m]
    PROVE  /\ Head(fetch[m]) \in Nat /\ Head(fetch[m]) \in handled
           /\ 1..Head(fetch[m]) \subseteq handled
<1>1. /\ fetch[m] \in Seq(Nat \ {0}) /\ fetch[m] # <<>>
      /\ \A i \in 1..Len(fetch[m]) : fetch[m][i] = fetch[m][1] + i - 1
  BY DEF Inv, TypeOK, FetchInv
<1>2. Head(fetch[m]) = fetch[m][1] /\ fetch[m][1] \in Nat \ {0}
  BY <1>1, TailOfRun
<1>3. fetch[m][1] \in handled /\ 1..(fetch[m][1] - 1) \subseteq handled
  BY <1>1 DEF Inv, FetchInv, ProgressInv
<1> QED
  BY <1>2, <1>3

\* A commit moves the offset to a handled record, all before it handled.
LEMMA CommitInv ==
    ASSUME Inv, NEW m \in Members, Commit(m)
    PROVE  Inv'
<1> USE DEF Commit
<1>1. /\ Head(fetch[m]) \in Nat /\ Head(fetch[m]) \in handled
      /\ 1..Head(fetch[m]) \subseteq handled
  BY CommitCovers
<1>2. NothingSkipped'
  BY <1>1 DEF NothingSkipped
<1> QED
  BY <1>1, <1>2, NextRecordInv

\* So does a commit whose answer is lost; a refused one moves nothing.
LEMMA CommitFailsInv ==
    ASSUME Inv, NEW m \in Members, CommitFails(m)
    PROVE  Inv'
<1>1. committed' \in Nat /\ NothingSkipped' /\ faults' \in 0..MaxFaults
  <2>1. CASE cancelled[m] /\ UNCHANGED <<committed, faults>>
    BY <2>1 DEF CommitFails, Inv, TypeOK, NothingSkipped
  <2>2. CASE ~cancelled[m] /\ Fault
             /\ committed' \in {committed, Head(fetch[m])}
    <3>1. Head(fetch[m]) \in Nat /\ 1..Head(fetch[m]) \subseteq handled
      BY <2>2, CommitCovers DEF CommitFails
    <3>2. faults' \in 0..MaxFaults
      BY <2>2, FaultsAssumption DEF Fault, Inv, TypeOK
    <3> QED
      BY <2>2, <3>1, <3>2 DEF CommitFails, Inv, TypeOK, NothingSkipped
  <2> QED
    BY <2>1, <2>2 DEF CommitFails
<1> QED
  BY <1>1, LeaveInv DEF CommitFails

\* A stopping member walks past the record it was retrying.
LEMMA GiveUpInv ==
    ASSUME Inv, NEW m \in Members, GiveUp(m)
    PROVE  Inv'
<1>1. NothingSkipped' /\ committed' \in Nat
  BY DEF GiveUp, Inv, TypeOK, NothingSkipped
<1> QED
  BY <1>1, NextRecordInv DEF GiveUp

\* Nothing moves.
LEMMA StutterInv ==
    ASSUME Inv, UNCHANGED vars
    PROVE  Inv'
<1> USE DEF vars
<1>1. TypeOK' /\ NothingSkipped'
  BY DEF Inv, TypeOK, NothingSkipped
<1>2. \A m \in Members : FetchInv(m)' /\ ProgressInv(m)'
  BY OtherMember DEF Inv
<1> QED
  BY <1>1, <1>2 DEF Inv

\* Every step keeps the invariant.
LEMMA NextInv == Inv /\ [Next]_vars => Inv'
<1> SUFFICES ASSUME Inv, [Next]_vars PROVE Inv'
  OBVIOUS
<1>1. Fault => faults' \in 0..MaxFaults
  BY FaultsAssumption DEF Inv, TypeOK, Fault
<1>2. faults \in 0..MaxFaults /\ committed \in Nat
  BY DEF Inv, TypeOK
<1>3. UNCHANGED <<committed, handled>> => NothingSkipped'
  BY DEF Inv, NothingSkipped
<1>4. CASE Publish
  BY <1>4, PublishInv
<1>5. CASE Revoke
  BY <1>5, RevokeInv
<1>6. ASSUME NEW m \in Members, Member(m) PROVE Inv'
  <2>1. CASE Subscribe(m)
    BY <2>1, SubscribeInv
  <2>2. CASE Assign(m)
    BY <2>2, AssignInv
  <2>3. CASE Poll(m)
    BY <2>3, PollInv
  <2>4. CASE Return(m)
    BY <1>2, <1>3, <2>4, LeaveInv DEF Return
  <2>5. CASE Handle(m)
    BY <2>5, HandleInv
  <2>6. CASE Retry(m)
    BY <1>2, <2>6, RetryingInv DEF Retry
  <2>7. CASE GiveUp(m)
    BY <2>7, GiveUpInv
  <2>8. CASE Commit(m)
    BY <2>8, CommitInv
  <2>9. CASE CommitFails(m)
    BY <2>9, CommitFailsInv
  <2> QED
    BY <1>6, <2>1, <2>2, <2>3, <2>4, <2>5, <2>6, <2>7, <2>8, <2>9 DEF Member
<1>7. ASSUME NEW m \in Members, Idle(m) PROVE Inv'
  BY <1>7, StutterInv DEF Idle
<1>8. ASSUME NEW m \in Members, Cancel(m) PROVE Inv'
  BY <1>8, CancelInv
<1>9. ASSUME NEW m \in Members, FetchFails(m) PROVE Inv'
  BY <1>1, <1>2, <1>3, <1>9, LeaveInv DEF FetchFails
<1>10. ASSUME NEW m \in Members, HandlerFails(m) PROVE Inv'
  BY <1>1, <1>10, RetryingInv DEF HandlerFails
<1>11. ASSUME NEW m \in Members, Crash(m) PROVE Inv'
  BY <1>1, <1>2, <1>3, <1>11, LeaveInv DEF Crash
<1>12. CASE UNCHANGED vars
  BY <1>12, StutterInv
<1> QED
  BY <1>4, <1>5, <1>6, <1>7, <1>8, <1>9, <1>10, <1>11, <1>12 DEF Next

\* The invariant holds throughout.
THEOREM Invariance == Spec => []Inv
BY InitInv, NextInv, PTL DEF Spec

(***************************************************************************)
(* At-least-once: the committed offset never lies past a record that no    *)
(* handler call of broker-kafka/broker.go succeeded on.                    *)
(***************************************************************************)
THEOREM CommitsOnlyHandled == Spec => []NothingSkipped
<1>1. Inv => NothingSkipped
  BY DEF Inv
<1> QED
  BY <1>1, Invariance, PTL

(***************************************************************************)
(* The order of the loop in broker-kafka/broker.go: a record succeeds      *)
(* ahead of an earlier one only on a member whose context has ended.       *)
(***************************************************************************)
THEOREM OrderUntilShutdown == Spec => DisorderOnlyAtShutdown
<1> DEFINE InOrder ==
      \A n \in handled' \ handled :
          \/ 1..(n - 1) \subseteq handled
          \/ \E m \in Members : cancelled[m] /\ pc[m] = "handle"
                                /\ Head(fetch[m]) = n
<1>1. Inv /\ [Next]_vars => [InOrder]_vars
  <2> SUFFICES ASSUME Inv, Next PROVE InOrder
    OBVIOUS
  <2>1. ASSUME NEW m \in Members, Handle(m) PROVE InOrder
    <3>1. /\ fetch[m] \in Seq(Nat \ {0}) /\ fetch[m] # <<>>
          /\ \A i \in 1..Len(fetch[m]) : fetch[m][i] = fetch[m][1] + i - 1
      BY <2>1 DEF Handle, Inv, TypeOK, FetchInv
    <3>2. Head(fetch[m]) = fetch[m][1]
      BY <3>1, TailOfRun
    <3>3. CASE cancelled[m]
      BY <2>1, <3>3 DEF Handle
    <3>4. CASE ~cancelled[m]
      BY <2>1, <3>1, <3>2, <3>4 DEF Handle, Inv, ProgressInv
    <3> QED
      BY <3>3, <3>4
  <2>2. CASE UNCHANGED handled
    BY <2>2
  <2> QED
    BY <2>1, <2>2
       DEF Next, Publish, Revoke, Member, Subscribe, Assign, Poll, Return,
           Retry, GiveUp, Commit, CommitFails, Idle, vars, Cancel, FetchFails,
           HandlerFails, Crash
<1> QED
  BY <1>1, Invariance, PTL DEF Spec, DisorderOnlyAtShutdown

-----------------------------------------------------------------------------
\* A set of natural numbers that is not empty has a least element.
LEMMA Least ==
    ASSUME NEW S, S \subseteq Nat, S # {}
    PROVE  \E m \in S : \A k \in S : m <= k
<1>1. PICK x \in S : \A y \in S : ~(<<y, x>> \in OpToRel(<, Nat))
  BY NatLessThanWellFounded, WFMin
<1>2. \A y \in S : ~(y < x)
  BY <1>1 DEF OpToRel
<1> QED
  BY <1>2

\* A stored payload is some release's encoding of a fact.
LEMMA PayloadType ==
    ASSUME NEW p \in Encoded
    PROVE  /\ \E r \in Releases : /\ p.name \in Known(r)
                                   /\ p.schema = SchemaVersion(r, p.name)
           /\ p.name \in Names /\ p.fact \in [cmd : Commands, name : Names]
           /\ p.fact.name = p.name
           /\ p.schema \in Nat \ {0}
           /\ p = [name |-> p.name, schema |-> p.schema,
                   shape |-> p.schema, fact |-> p.fact]
<1>1. PICK r \in Releases :
         \E f \in [cmd : Commands, name : Known(r)] : p = Encode(r, f)
  BY DEF Encoded
<1>2. PICK f \in [cmd : Commands, name : Known(r)] : p = Encode(r, f)
  BY <1>1
<1>3. /\ f.name \in Known(r) /\ f.name \in Names
      /\ f \in [cmd : Commands, name : Names]
  BY RegistryAssumption DEF Known
<1>4. SchemaVersion(r, f.name) \in Nat \ {0}
  BY <1>3, RegistryAssumption DEF SchemaVersion, Known
<1>5. /\ p.name = f.name /\ p.fact = f
      /\ p.schema = SchemaVersion(r, f.name) /\ p.shape = p.schema
  BY <1>2 DEF Encode
<1> QED
  BY <1>2, <1>3, <1>4, <1>5 DEF Encode

(***************************************************************************)
(* Upcasters, one after the other, keep the fact: a payload is lifted to   *)
(* any later shape through a chain of any length.                          *)
(***************************************************************************)
LEMMA LiftKeepsFact ==
    ASSUME NEW p \in Encoded, NEW current \in Nat, p.schema <= current
    PROVE  Lift(p, current) = [name |-> p.name, schema |-> p.schema,
                               shape |-> current, fact |-> p.fact]
<1> DEFINE s == p.schema
           at(v) == [name |-> p.name, schema |-> s, shape |-> v,
                     fact |-> p.fact]
           step(f) == [v \in s..current |->
                          IF v = s THEN p ELSE Upcast(v - 1, f[v - 1])]
           g == [v \in s..current |-> at(v)]
           h == CHOOSE f : f = step(f)
<1>1. s \in Nat \ {0} /\ current \in s..current /\ s \in s..current
  BY PayloadType
<1>2. p = at(s)
  BY PayloadType
<1>3. ASSUME NEW v \in Nat PROVE Upcast(v, at(v)) = at(v + 1)
  <2>1. at(v).shape = v
    OBVIOUS
  <2>2. [at(v) EXCEPT !.shape = v + 1] = at(v + 1)
    OBVIOUS
  <2> QED
    BY <2>1, <2>2 DEF Upcast
<1>4. ASSUME NEW v \in s..current, v # s
      PROVE  v - 1 \in s..current /\ v - 1 \in Nat /\ (v - 1) + 1 = v
  BY <1>1, <1>4
<1> HIDE DEF at
<1>5. g = step(g)
  <2>1. ASSUME NEW v \in s..current
        PROVE  at(v) = IF v = s THEN p ELSE Upcast(v - 1, g[v - 1])
    <3>1. CASE v = s
      BY <3>1, <1>2
    <3>2. CASE v # s
      <4>1. g[v - 1] = at(v - 1)
        BY <1>4, <3>2
      <4> QED
        BY <4>1, <3>2, <1>3, <1>4
    <3> QED
      BY <3>1, <3>2
  <2> QED
    BY <2>1
<1>6. h = step(h)
  BY <1>5
<1>7. Lift(p, current) = h[current]
  BY DEF Lift
<1> HIDE DEF h
<1>8. /\ h[s] = p
      /\ \A v \in s..current : v # s => h[v] = Upcast(v - 1, h[v - 1])
  BY <1>1, <1>6
<1> DEFINE wrong == {v \in s..current : h[v] # at(v)}
<1>9. ASSUME wrong # {} PROVE FALSE
  <2>1. wrong \subseteq Nat
    BY <1>1
  <2>2. PICK v \in wrong : \A k \in wrong : v <= k
    BY <1>9, <2>1, Least
  <2>3. v # s
    BY <1>2, <1>8
  <2>4. v - 1 \in s..current /\ ~(v <= v - 1)
    BY <1>4, <2>1, <2>3
  <2>5. h[v - 1] = at(v - 1)
    BY <2>2, <2>4
  <2>6. h[v] = at(v)
    BY <1>3, <1>4, <1>8, <2>3, <2>5
  <2> QED
    BY <2>6
<1>10. h[current] = at(current)
  BY <1>1, <1>9
<1> QED
  BY <1>7, <1>10 DEF at

\* What a release decodes is the fact, or it refuses.
LEMMA DecodeExact ==
    ASSUME NEW r \in Releases, NEW p \in Encoded
    PROVE  /\ Decode(r, p) = DecodeError \/ Decode(r, p) = p.fact
           /\ Decode(LastRelease, p) = p.fact
<1>1. ASSUME NEW q \in Releases, p.name \in Known(q),
             p.schema \in 1..SchemaVersion(q, p.name)
      PROVE  Decode(q, p) = p.fact
  <2> DEFINE c == SchemaVersion(q, p.name)
  <2>1. c \in Nat
    BY <1>1, RegistryAssumption DEF SchemaVersion, Known
  <2> HIDE DEF c
  <2>2. Lift(p, c) = [name |-> p.name, schema |-> p.schema, shape |-> c,
                      fact |-> p.fact]
    BY <1>1, <2>1, LiftKeepsFact DEF c
  <2>3. Unmarshal(Lift(p, c), c) = p.fact
    BY <2>2 DEF Unmarshal
  <2>4. Decode(q, p) = Unmarshal(Lift(p, c), c)
    BY <1>1 DEF Decode, c
  <2> QED
    BY <2>3, <2>4
<1>2. Decode(r, p) = DecodeError \/ Decode(r, p) = p.fact
  <2>1. CASE p.name \in Known(r) /\ p.schema \in 1..SchemaVersion(r, p.name)
    BY <1>1, <2>1
  <2>2. CASE ~(p.name \in Known(r) /\ p.schema \in 1..SchemaVersion(r, p.name))
    BY <2>2 DEF Decode
  <2> QED
    BY <2>1, <2>2
<1>3. /\ LastRelease \in Releases
      /\ \A q \in Releases : q \in Int /\ q <= LastRelease
  BY RegistryAssumption DEF Releases
<1>4. PICK q \in Releases : /\ p.name \in Known(q)
                            /\ p.schema = SchemaVersion(q, p.name)
  BY PayloadType
<1>5. /\ p.name \in Known(LastRelease)
      /\ Chain[q][p.name] <= Chain[LastRelease][p.name]
  <2>1. CASE q = LastRelease
    BY <2>1, <1>4, RegistryAssumption DEF Known
  <2>2. CASE q # LastRelease
    BY <2>2, <1>3, <1>4, RegistryAssumption DEF Known
  <2> QED
    BY <2>1, <2>2
<1>6. p.schema \in 1..SchemaVersion(LastRelease, p.name)
  <2>1. Chain[q][p.name] \in Nat /\ Chain[LastRelease][p.name] \in Nat
    BY <1>3, <1>4, <1>5, RegistryAssumption DEF Known
  <2> QED
    BY <2>1, <1>4, <1>5 DEF SchemaVersion
<1> QED
  BY <1>1, <1>2, <1>3, <1>5, <1>6

-----------------------------------------------------------------------------
Port == INSTANCE EventStoreProofs WITH Payloads <- Encoded,
                                       Streams <- {Aggregate}

\* The store is one that the port's theorems are about.
LEMMA StoreIsPort ==
    /\ Store!StoreInv <=> Port!StoreInv
    /\ Store!StoreInv' <=> Port!StoreInv'
    /\ \A s, v, data, base : Store!AppendEvents(s, v, data, base)
          => Port!AppendEvents(s, v, data, base)
BY DEF Store!StoreInv, Port!StoreInv, Store!IsFiniteSet, Port!IsFiniteSet,
       Store!WellFormed, Port!WellFormed, Store!Event, Port!Event,
       Store!Versions, Port!Versions, Store!AppendEvents, Port!AppendEvents,
       Store!Recorded, Port!Recorded

\* The stream holds the versions from 1 to its length, each once.
InVersionOrder ==
    /\ Cardinality(events) \in 0..MaxSeq
    /\ Store!Versions(Aggregate) = 1..Cardinality(events)
    /\ DOMAIN Stream = 1..Cardinality(events)
    /\ Len(Stream) = Cardinality(events)
    /\ \A e \in events : e.version \in DOMAIN Stream /\ Stream[e.version] = e
    /\ \A v \in DOMAIN Stream : Stream[v] \in events /\ Stream[v].version = v

LEMMA StreamShape == Store!StoreInv => InVersionOrder
<1> SUFFICES ASSUME Store!StoreInv PROVE InVersionOrder
  OBVIOUS
<1> USE DEF Store!StoreInv, Store!WellFormed, Store!Event
<1>1. PICK n \in 0..MaxSeq : Store!Versions(Aggregate) = 1..n
  OBVIOUS
<1>2. n \in Nat /\ n \in 0..MaxSeq
  BY RepositoryAssumption
<1>3. \A e \in events : e.stream = Aggregate
  OBVIOUS
<1>4. \A e \in events : e.version \in 1..n
  BY <1>1, <1>3 DEF Store!Versions
<1>5. \A v \in 1..n : \E e \in events : e.version = v
  BY <1>1 DEF Store!Versions
<1>6. \A e, f \in events : e.version = f.version => e = f
  BY <1>3
<1> DEFINE b == [e \in events |-> e.version]
<1>7. b \in Bijection(events, 1..n)
  <2>1. b \in Injection(events, 1..n)
    <3>1. b \in [events -> 1..n]
      BY <1>4
    <3>2. \A e, f \in events : b[e] = b[f] => e = f
      BY <1>6
    <3> QED
      BY <3>1, <3>2 DEF Injection, IsInjective
  <2>2. b \in Surjection(events, 1..n)
    <3>1. b \in [events -> 1..n]
      BY <1>4
    <3>2. \A v \in 1..n : \E e \in events : b[e] = v
      BY <1>5
    <3> QED
      BY <3>1, <3>2 DEF Surjection
  <2> QED
    BY <2>1, <2>2 DEF Bijection
<1>8. Cardinality(events) = n
  <2>1. IsFiniteSet(events)
    BY DEF IsFiniteSet, Store!IsFiniteSet
  <2>2. Cardinality(1..n) = n
    BY <1>2, FS_Interval
  <2>3. ExistsBijection(events, 1..n)
    BY <1>7 DEF ExistsBijection
  <2> QED
    BY <2>1, <2>2, <2>3, FS_Bijection
<1>9. DOMAIN Stream = 1..n /\ Len(Stream) = n
  BY <1>2, <1>8 DEF Stream
<1>10. ASSUME NEW v \in 1..n PROVE Stream[v] \in events /\ Stream[v].version = v
  BY <1>5, <1>8 DEF Stream
<1> QED
  BY <1>1, <1>2, <1>4, <1>6, <1>8, <1>9, <1>10 DEF InVersionOrder

\* The head of the store is the position of its last event.
LEMMA HeadIsTop ==
    ASSUME Store!StoreInv
    PROVE  HeadSeq \in 0..MaxSeq /\ \A e \in events : e.seq <= HeadSeq
<1> DEFINE S == {0} \cup {e.seq : e \in events}
           D == {MaxSeq - x : x \in S}
<1>1. MaxSeq \in Nat
  BY RepositoryAssumption
<1>2. S \subseteq 0..MaxSeq /\ 0 \in S
  BY <1>1 DEF Store!StoreInv, Store!Event
<1>3. D \subseteq Nat /\ D # {}
  BY <1>1, <1>2
<1>4. PICK d \in D : \A k \in D : d <= k
  BY <1>3, Least
<1>5. PICK x \in S : d = MaxSeq - x
  BY <1>4
<1>6. \A y \in S : x >= y
  <2> SUFFICES ASSUME NEW y \in S PROVE x >= y
    OBVIOUS
  <2>1. MaxSeq - x <= MaxSeq - y
    BY <1>4, <1>5
  <2> QED
    BY <2>1, <1>1, <1>2
<1>7. HeadSeq \in S /\ \A y \in S : HeadSeq >= y
  BY <1>6 DEF HeadSeq, Max
<1> QED
  BY <1>1, <1>2, <1>7

\* The facts of the aggregate, as its newest release and as any release
\* replays them.
Facts == [cmd : Commands, name : Names]

Replayed ==
    /\ Rehydrate(LastRelease) \in Seq(Facts)
    /\ Len(Rehydrate(LastRelease)) = Cardinality(events)
    /\ \A v \in 1..Cardinality(events) :
          Rehydrate(LastRelease)[v] = Stream[v].data.fact
    /\ \A r \in Releases, v \in 1..Cardinality(events) :
          /\ v \in DOMAIN Rehydrate(r)
          /\ Rehydrate(r)[v] \in {DecodeError, Stream[v].data.fact}

LEMMA ReplaysFacts == Store!StoreInv => Replayed
<1> SUFFICES ASSUME Store!StoreInv PROVE Replayed
  OBVIOUS
<1> DEFINE n == Cardinality(events)
<1>1. InVersionOrder
  BY StreamShape
<1>2. n \in Nat /\ DOMAIN Stream = 1..n
  BY <1>1, RepositoryAssumption DEF InVersionOrder
<1>3. ASSUME NEW v \in 1..n PROVE Stream[v].data \in Encoded
  BY <1>1, <1>2 DEF InVersionOrder, Store!StoreInv, Store!Event
<1>4. LastRelease \in Releases
  BY RegistryAssumption DEF Releases
<1>5. ASSUME NEW r \in Releases, NEW v \in 1..n
      PROVE  /\ v \in DOMAIN Rehydrate(r)
             /\ Rehydrate(r)[v] \in {DecodeError, Stream[v].data.fact}
             /\ Rehydrate(LastRelease)[v] = Stream[v].data.fact
             /\ Rehydrate(LastRelease)[v] \in Facts
  <2>1. /\ v \in DOMAIN Rehydrate(r)
        /\ \A q : Rehydrate(q)[v] = Decode(q, Stream[v].data)
    BY <1>2 DEF Rehydrate
  <2>2. /\ Decode(r, Stream[v].data) \in {DecodeError, Stream[v].data.fact}
        /\ Decode(LastRelease, Stream[v].data) = Stream[v].data.fact
    BY <1>3, DecodeExact
  <2>3. Stream[v].data.fact \in Facts
    BY <1>3, PayloadType DEF Facts
  <2> QED
    BY <2>1, <2>2, <2>3
<1>6. DOMAIN Rehydrate(LastRelease) = 1..n
  BY <1>2 DEF Rehydrate
<1>7. Rehydrate(LastRelease) = [v \in 1..n |-> Rehydrate(LastRelease)[v]]
  BY <1>6 DEF Rehydrate
<1>8. Rehydrate(LastRelease) \in [1..n -> Facts]
  BY <1>4, <1>5, <1>7
<1> HIDE DEF n
<1>9. Rehydrate(LastRelease) \in Seq(Facts) /\ Len(Rehydrate(LastRelease)) = n
  BY <1>2, <1>6, <1>8
<1> QED
  BY <1>4, <1>5, <1>9 DEF Replayed, n

\* The same of the state a step leads to.
LEMMA NextStream == Store!StoreInv' => InVersionOrder' /\ Replayed'
BY StreamShape, ReplaysFacts, PTL

-----------------------------------------------------------------------------
\* Intervals from 1 that are equal end alike.
LEMMA SameLength ==
    ASSUME NEW a \in Nat, NEW b \in Nat, 1..a = 1..b
    PROVE  a = b
<1>1. a # 0 => a \in 1..b
  <2>1. a # 0 => a \in 1..a
    OBVIOUS
  <2> QED
    BY <2>1, Zenon
<1>2. b # 0 => b \in 1..a
  <2>1. b # 0 => b \in 1..b
    OBVIOUS
  <2> QED
    BY <2>1, Zenon
<1> QED
  BY <1>1, <1>2

\* What History has left is a store of the port, and its facts are Initial.
LEMMA InitialStore ==
    ASSUME events = InitialEvents
    PROVE  /\ Store!StoreInv
           /\ Rehydrate(LastRelease) = Initial
<1> DEFINE n == Len(History)
           d(i) == Encode(History[i].rel, Initial[i])
           row(i) == [seq |-> i, stream |-> Aggregate, version |-> i,
                      data |-> d(i)]
<1>1. n \in Nat /\ n <= MaxSeq /\ DOMAIN History = 1..n /\ MaxSeq \in Nat
  BY RepositoryAssumption
<1>2. events = {row(i) : i \in 1..n}
  <2>1. ASSUME NEW i \in 1..n
        PROVE  /\ [j \in DOMAIN History |->
                      Encode(History[j].rel, Initial[j])][i] = d(i)
               /\ 0 + i = i
    BY <1>1
  <2> QED
    BY <2>1 DEF InitialEvents, Store!Recorded
<1>3. ASSUME NEW i \in 1..n
      PROVE  /\ Initial[i] \in [cmd : Commands, name : Known(History[i].rel)]
             /\ d(i) \in Encoded /\ d(i).fact = Initial[i]
  <2>1. /\ History[i] \in [cmd : Commands, name : Names, rel : Releases]
        /\ History[i].name \in Known(History[i].rel)
    <3> DEFINE T == [cmd : Commands, name : Names, rel : Releases]
    <3>1. History \in Seq(T) /\ i \in DOMAIN History
      BY <1>1, RepositoryAssumption
    <3> HIDE DEF T
    <3>2. History[i] \in T
      BY <3>1
    <3> QED
      BY <3>1, <3>2, RepositoryAssumption DEF T
  <2>2. Initial[i] = [cmd |-> History[i].cmd, name |-> History[i].name]
    BY <1>1 DEF Initial
  <2>3. Initial[i] \in [cmd : Commands, name : Known(History[i].rel)]
    BY <2>1, <2>2
  <2> QED
    BY <2>1, <2>3 DEF Encoded, Encode
<1> HIDE DEF d
<1>4. \A i \in 1..n : row(i) \in Store!Event
  BY <1>1, <1>3 DEF Store!Event
<1>5. \A e \in events : /\ e.seq = e.version /\ e.seq \in 1..n
                        /\ e.stream = Aggregate /\ e = row(e.seq)
  BY <1>2
<1>6. Store!Versions(Aggregate) = 1..n
  <2>1. ASSUME NEW i \in 1..n PROVE i \in Store!Versions(Aggregate)
    <3>1. row(i) \in events /\ row(i).stream = Aggregate /\ row(i).version = i
      BY <1>2
    <3> QED
      BY <3>1 DEF Store!Versions
  <2>2. Store!Versions(Aggregate) \subseteq 1..n
    BY <1>5 DEF Store!Versions
  <2> QED
    BY <2>1, <2>2
<1>7. IsFiniteSet(events)
  <2>1. [i \in 1..n |-> row(i)] \in Surjection(1..n, events)
    BY <1>2 DEF Surjection
  <2>2. IsFiniteSet(1..n)
    BY <1>1, FS_Interval
  <2> QED
    BY <2>1, <2>2, FS_Surjection
<1> HIDE DEF row
<1>8. Store!WellFormed
  <2>1. \A s \in {Aggregate} : \E m \in 0..MaxSeq : Store!Versions(s) = 1..m
    <3>1. n \in 0..MaxSeq
      BY <1>1
    <3> QED
      BY <3>1, <1>6
  <2>2. \A e, f \in events :
          /\ e.seq = f.seq => e = f
          /\ e.stream = f.stream /\ e.version < f.version => e.seq < f.seq
          /\ e.stream = f.stream /\ e.version = f.version => e = f
    BY <1>5
  <2> QED
    BY <2>1, <2>2 DEF Store!WellFormed
<1>9. Store!StoreInv
  <2>1. events \subseteq Store!Event
    BY <1>2, <1>4
  <2>2. \A e \in events : e.version <= e.seq
    BY <1>1, <1>5
  <2>3. Store!IsFiniteSet(events)
    BY <1>7 DEF IsFiniteSet, Store!IsFiniteSet
  <2> QED
    BY <2>1, <2>2, <2>3, <1>8 DEF Store!StoreInv
<1>10. InVersionOrder /\ Replayed
  BY <1>9, StreamShape, ReplaysFacts
<1>11. Cardinality(events) = n
  BY <1>1, <1>6, <1>10, SameLength DEF InVersionOrder
<1>12. ASSUME NEW i \in 1..n PROVE Rehydrate(LastRelease)[i] = Initial[i]
  <2>1. row(i) \in events /\ row(i).version = i /\ row(i).data = d(i)
    BY <1>2 DEF row
  <2>2. Stream[i] = row(i)
    BY <1>10, <2>1 DEF InVersionOrder
  <2> QED
    BY <1>3, <1>10, <1>11, <2>1, <2>2 DEF Replayed
<1>13. /\ Rehydrate(LastRelease) = [i \in 1..n |-> Rehydrate(LastRelease)[i]]
       /\ Initial = [i \in 1..n |-> Initial[i]]
  <2>1. DOMAIN Stream = 1..n
    BY <1>10, <1>11 DEF InVersionOrder
  <2> QED
    BY <2>1, <1>1 DEF Rehydrate, Initial
<1> QED
  BY <1>9, <1>12, <1>13

-----------------------------------------------------------------------------
\* A request that has decided.
LEMMA SaveRequestType ==
    ASSUME DeploymentInv, NEW p \in Procs, req[p].pc = "save"
    PROVE  /\ req[p] \in SaveRequest
           /\ rel[p] \in Rollout /\ rel[p] \in Releases
<1>1. req[p] \in {NoRequest} \cup LoadRequest \cup SaveRequest
  BY DEF DeploymentInv, DeploymentTypeOK
<1>2. req[p] # NoRequest
  BY DEF NoRequest
<1>3. req[p] \notin LoadRequest
  BY DEF LoadRequest
<1> QED
  BY <1>1, <1>2, <1>3, DeploymentAssumption DEF DeploymentInv, DeploymentTypeOK

\* What it appends is a batch of the port; each payload states its fact.
LEMMA PendingBatch ==
    ASSUME DeploymentInv, NEW p \in Procs, req[p].pc = "save",
           NEW data, data = [i \in DOMAIN req[p].pending |->
                                Encode(rel[p], req[p].pending[i])]
    PROVE  /\ req[p].pending \in Seq(Facts)
           /\ Len(req[p].pending) \in 1..MaxBatch
           /\ \E names \in UNION Range(Raises) :
                 req[p].pending = Raised(req[p].cmd, names)
           /\ data \in Port!Batches
           /\ Len(data) = Len(req[p].pending)
           /\ \A i \in 1..Len(data) :
                 /\ data[i].fact = req[p].pending[i]
                 /\ data[i].fact.cmd = req[p].cmd
<1> DEFINE r == rel[p]
           c == req[p].cmd
<1>1. PICK names \in Raises[r] : req[p].pending = Raised(c, names)
  BY DEF DeploymentInv, RequestInv
<1>2. r \in Releases /\ c \in Commands
  BY SaveRequestType, DeploymentAssumption DEF SaveRequest
<1> DEFINE k == Len(names)
<1>3. names \in Seq(Known(r)) /\ k \in 1..MaxBatch /\ k \in Nat
      /\ DOMAIN names = 1..k
  BY <1>1, <1>2, RepositoryAssumption
<1>4. ASSUME NEW i \in 1..k
      PROVE  /\ names[i] \in Known(r) /\ names[i] \in Names
             /\ req[p].pending[i] = [cmd |-> c, name |-> names[i]]
  <2>1. names[i] \in Known(r)
    BY <1>3
  <2> QED
    BY <2>1, <1>1, <1>2, <1>3, RegistryAssumption DEF Raised, Known
<1>5. /\ DOMAIN req[p].pending = 1..k
      /\ req[p].pending = [i \in 1..k |-> [cmd |-> c, name |-> names[i]]]
      /\ data = [i \in 1..k |-> Encode(r, req[p].pending[i])]
  BY <1>1, <1>3 DEF Raised
<1> HIDE DEF k, r, c
<1>6. req[p].pending \in Seq(Facts) /\ Len(req[p].pending) = k
  <2>1. \A i \in 1..k : [cmd |-> c, name |-> names[i]] \in Facts
    BY <1>2, <1>4 DEF Facts
  <2> QED
    BY <2>1, <1>3, <1>5
<1>7. ASSUME NEW i \in 1..k
      PROVE  /\ Encode(r, req[p].pending[i]) \in Encoded
             /\ Encode(r, req[p].pending[i]).fact = req[p].pending[i]
             /\ req[p].pending[i].cmd = c
  <2> DEFINE f == [cmd |-> c, name |-> names[i]]
  <2>1. req[p].pending[i] \in [cmd : Commands, name : Known(r)]
        /\ req[p].pending[i].cmd = c
    <3>1. f \in [cmd : Commands, name : Known(r)] /\ f.cmd = c
      BY <1>2, <1>4
    <3>2. req[p].pending[i] = f
      BY <1>4
    <3> QED
      BY <3>1, <3>2
  <2>2. Encode(r, req[p].pending[i]) \in Encoded
    BY <2>1, <1>2 DEF Encoded
  <2>3. Encode(r, req[p].pending[i]).fact = req[p].pending[i]
    BY DEF Encode
  <2> QED
    BY <2>1, <2>2, <2>3
<1>8. data \in [1..k -> Encoded] /\ Len(data) = k
  <2>1. data \in [1..k -> Encoded]
    BY <1>5, <1>7
  <2> QED
    BY <2>1, <1>3
<1>9. data \in Port!Batches
  BY <1>3, <1>8 DEF Port!Batches
<1>10. names \in UNION Range(Raises)
  <2>1. Raises[r] \in Range(Raises)
    BY <1>2, RepositoryAssumption DEF Range
  <2> QED
    BY <1>1, <2>1 DEF r
<1>11. \A i \in 1..k : data[i] = Encode(r, req[p].pending[i])
  BY <1>5
<1> QED
  BY <1>1, <1>3, <1>6, <1>7, <1>8, <1>9, <1>10, <1>11 DEF c

(***************************************************************************)
(* An append: the stream had not moved since it was loaded, the store is   *)
(* again one of the port, and what is new lies behind everything old and   *)
(* states the pending facts in their order.                                *)
(***************************************************************************)
LEMMA Appended ==
    ASSUME DeploymentInv, NEW p \in Procs, req[p].pc = "save",
           AppendPending(p, rel[p], req[p].version)
    PROVE  /\ req[p].version = Cardinality(events)
           /\ Store!StoreInv'
           /\ events \subseteq events'
           /\ \A e \in events' \ events :
                 /\ \A f \in events : f.seq < e.seq /\ f.version < e.version
                 /\ e.seq > 0 /\ e.version > Cardinality(events)
                 /\ e.version \in Nat /\ e.seq \in Nat
                 /\ e.version <= Cardinality(events) + Len(req[p].pending)
                 /\ e.data.fact.cmd = req[p].cmd
           /\ \A i \in 1..Len(req[p].pending) :
                 \E e \in events' : /\ e.version = Cardinality(events) + i
                                    /\ e.data.fact = req[p].pending[i]
<1> DEFINE data == [i \in DOMAIN req[p].pending |->
                       Encode(rel[p], req[p].pending[i])]
           n == Cardinality(events)
           k == Len(req[p].pending)
           head == HeadSeq
           new == Store!Recorded(Aggregate, req[p].version, data, Len(data),
                                 head)
<1>1. /\ data \in Port!Batches /\ Len(data) = k /\ k \in Nat \ {0}
      /\ \A i \in 1..k : /\ data[i].fact = req[p].pending[i]
                          /\ data[i].fact.cmd = req[p].cmd
  BY PendingBatch, RepositoryAssumption
<1>2. Store!AppendEvents(Aggregate, req[p].version, data, head)
  BY DEF AppendPending
<1>3. Store!StoreInv /\ InVersionOrder
  BY StreamShape DEF DeploymentInv, DeploymentTypeOK
<1>4. head \in 0..MaxSeq /\ head \in Nat /\ \A e \in events : e.seq <= head
  BY <1>3, HeadIsTop, RepositoryAssumption
<1>5. n \in Nat /\ n \in 0..MaxSeq /\ Store!Versions(Aggregate) = 1..n
  BY <1>3, RepositoryAssumption DEF InVersionOrder
<1>6. req[p].version = n
  <2>1. req[p].version \in Nat
    BY SaveRequestType DEF SaveRequest
  <2>2. 1..req[p].version = 1..n
    BY <1>2, <1>5 DEF Store!AppendEvents
  <2> QED
    BY <2>1, <2>2, <1>5, SameLength
<1> HIDE DEF data, n, k, head
<1>7. Store!StoreInv'
  <2>1. Port!AppendEvents(Aggregate, n, data, head)
    BY <1>2, <1>6, StoreIsPort
  <2>2. Port!StoreInv
    BY <1>3, StoreIsPort
  <2>3. /\ Aggregate \in {Aggregate} /\ data \in Port!Batches
        /\ n \in 0..MaxSeq /\ head \in 0..MaxSeq
        /\ MaxBatch \in Nat \ {0} /\ MaxSeq \in Nat
    BY <1>1, <1>4, <1>5, RepositoryAssumption
  <2>4. Port!StoreInv'
    BY <2>1, <2>2, <2>3, Port!AppendStep
  <2> QED
    BY <2>4, StoreIsPort
<1>8. events' = events \cup new
  BY <1>2 DEF Store!AppendEvents
<1>9. \A e \in new : \E i \in 1..k : /\ e.seq = head + i /\ e.version = n + i
                                      /\ e.data = data[i]
  BY <1>1, <1>6 DEF Store!Recorded
<1>10. ASSUME NEW i \in 1..k
       PROVE  \E e \in new : e.version = n + i /\ e.data = data[i]
  <2> DEFINE row == [seq |-> head + i, stream |-> Aggregate,
                     version |-> n + i, data |-> data[i]]
  <2>1. row \in new /\ row.version = n + i /\ row.data = data[i]
    BY <1>1, <1>6 DEF Store!Recorded
  <2> QED
    BY <2>1
<1> HIDE DEF new
<1>11. \A f \in events : f.seq \in Nat /\ f.version \in 1..n
  BY <1>3, <1>5, RepositoryAssumption
     DEF Store!StoreInv, Store!Event, InVersionOrder, n
<1>12. ASSUME NEW e \in events' \ events
       PROVE  /\ \A f \in events : f.seq < e.seq /\ f.version < e.version
              /\ e.seq > 0 /\ e.version > n
              /\ e.version \in Nat /\ e.seq \in Nat
              /\ e.version <= n + k
              /\ e.data.fact.cmd = req[p].cmd
  <2>1. PICK i \in 1..k : /\ e.seq = head + i /\ e.version = n + i
                          /\ e.data = data[i]
    BY <1>8, <1>9
  <2> QED
    BY <2>1, <1>1, <1>4, <1>5, <1>11
<1>13. ASSUME NEW i \in 1..k
       PROVE  \E e \in events' : /\ e.version = n + i
                                 /\ e.data.fact = req[p].pending[i]
  BY <1>1, <1>8, <1>10
<1> QED
  BY <1>6, <1>7, <1>8, <1>12, <1>13 DEF n, k

-----------------------------------------------------------------------------
\* The first release of a rollout is one of it.
LEMMA FirstRelease == Min(Rollout) \in Rollout
<1>1. Rollout \subseteq Nat /\ Rollout # {}
  BY RegistryAssumption, DeploymentAssumption DEF Releases
<1>2. PICK m \in Rollout : \A k \in Rollout : m <= k
  BY <1>1, Least
<1> QED
  BY <1>2 DEF Min

\* All processes are down, and nothing has been tailed.
LEMMA DeploymentStarts == DeploymentInit => DeploymentInv
<1> SUFFICES ASSUME DeploymentInit PROVE DeploymentInv
  OBVIOUS
<1> USE DEF DeploymentInit, RepositoryInit
<1>1. Store!StoreInv
  BY InitialStore
<1>2. DeploymentTypeOK
  BY <1>1, FirstRelease, RepositoryAssumption, FaultsAssumption
     DEF DeploymentTypeOK
<1>3. \A p \in Procs : RequestInv(p)
  BY DEF RequestInv, NoRequest
<1>4. TailedTo(0)
  BY <1>1, RepositoryAssumption DEF TailedTo, Store!StoreInv, Store!Event
<1> QED
  BY <1>2, <1>3, <1>4 DEF DeploymentInv, ReadExactly

\* A process is started, stopped or killed, or its tailing worker begins
\* anew from the checkpoint.
LEMMA ProcessStep ==
    ASSUME DeploymentInv, NEW p \in Procs,
           UNCHANGED <<events, applied, checkpoint>>,
           faults' \in 0..MaxFaults,
           life' \in [Procs -> {"down", "up", "stopping"}],
           rel' \in [Procs -> Rollout],
           workers' \in [Procs -> SUBSET Workers],
           \A q \in Procs \ {p} : /\ life'[q] = life[q] /\ rel'[q] = rel[q]
                                  /\ workers'[q] = workers[q],
           seq' \in {seq, [seq EXCEPT ![p] = 0],
                      [seq EXCEPT ![p] = checkpoint]},
           req' \in {req, [req EXCEPT ![p] = NoRequest]},
           life'[p] = "down" => req'[p] = NoRequest /\ workers'[p] = {},
           rel'[p] = rel[p] \/ req'[p] = NoRequest
    PROVE  DeploymentInv'
<1>1. /\ req \in [Procs -> {NoRequest} \cup LoadRequest \cup SaveRequest]
      /\ seq \in [Procs -> 0..MaxSeq] /\ checkpoint \in 0..MaxSeq
      /\ 0 \in 0..MaxSeq
  BY RepositoryAssumption DEF DeploymentInv, DeploymentTypeOK
<1>2. /\ req' \in [Procs -> {NoRequest} \cup LoadRequest \cup SaveRequest]
      /\ seq' \in [Procs -> 0..MaxSeq]
      /\ \A q \in Procs : /\ req'[q] = req[q] \/ (q = p /\ req'[q] = NoRequest)
                          /\ seq'[q] \in {seq[q], 0, checkpoint}
  <2> DEFINE R == {NoRequest} \cup LoadRequest \cup SaveRequest
  <2>1. req \in [Procs -> R] /\ NoRequest \in R
    BY <1>1
  <2> HIDE DEF R
  <2>2. /\ req' \in [Procs -> R]
        /\ \A q \in Procs : req'[q] = req[q] \/ (q = p /\ req'[q] = NoRequest)
    <3>1. CASE req' = req
      BY <3>1, <2>1
    <3>2. CASE req' = [req EXCEPT ![p] = NoRequest]
      BY <3>2, <2>1
    <3> QED
      BY <3>1, <3>2
  <2>3. /\ seq' \in [Procs -> 0..MaxSeq]
        /\ \A q \in Procs : seq'[q] \in {seq[q], 0, checkpoint}
    <3>1. CASE seq' = seq
      BY <3>1, <1>1
    <3>2. CASE seq' = [seq EXCEPT ![p] = 0]
      BY <3>2, <1>1
    <3>3. CASE seq' = [seq EXCEPT ![p] = checkpoint]
      BY <3>3, <1>1
    <3> QED
      BY <3>1, <3>2, <3>3
  <2> QED
    BY <2>2, <2>3 DEF R
<1>3. Store!StoreInv'
  BY DEF DeploymentInv, DeploymentTypeOK, Store!StoreInv, Store!WellFormed,
         Store!Versions
<1>4. DeploymentTypeOK'
  BY <1>1, <1>2, <1>3 DEF DeploymentTypeOK
<1>5. \A s : TailedTo(s)' <=> TailedTo(s)
  BY DEF TailedTo, Handled
<1>6. TailedTo(0)
  BY RepositoryAssumption
     DEF DeploymentInv, DeploymentTypeOK, TailedTo, Store!StoreInv, Store!Event
<1>7. \A q \in Procs : TailedTo(seq'[q])
  BY <1>2, <1>6 DEF DeploymentInv
<1>8. TailedTo(checkpoint)' /\ \A q \in Procs : TailedTo(seq[q])'
  BY <1>5, <1>7 DEF DeploymentInv, TailedTo, Handled
<1>9. NoRequest.pc # "save"
  BY DEF NoRequest
<1>10. ASSUME NEW q \in Procs PROVE RequestInv(q)'
  <2>1. RequestInv(q)
    BY DEF DeploymentInv
  <2>2. CASE req'[q] = NoRequest
    BY <2>1, <2>2, <1>9 DEF RequestInv
  <2>3. CASE req'[q] # NoRequest
    BY <2>1, <2>3, <1>2 DEF RequestInv
  <2> QED
    BY <2>2, <2>3
<1>11. ReadExactly'
  BY DEF DeploymentInv, ReadExactly
<1> QED
  BY <1>4, <1>8, <1>10, <1>11 DEF DeploymentInv

\* Starts, ends and failures of processes and their workers.
LEMMA LifeKeepsInv ==
    ASSUME DeploymentInv, NEW p \in Procs,
           StartUp(p) \/ ShutDown(p) \/ Unreadable(p)
    PROVE  DeploymentInv'
<1>1. /\ life \in [Procs -> {"down", "up", "stopping"}]
      /\ rel \in [Procs -> Rollout]
      /\ workers \in [Procs -> SUBSET Workers]
      /\ req \in [Procs -> {NoRequest} \cup LoadRequest \cup SaveRequest]
      /\ faults \in 0..MaxFaults
      /\ life[p] = "down" => req[p] = NoRequest /\ workers[p] = {}
  BY DEF DeploymentInv, DeploymentTypeOK, RequestInv
<1>2. Fault => faults' \in 0..MaxFaults
  BY <1>1, FaultsAssumption DEF Fault
<1>3. ASSUME NEW r \in Rollout, Start(p, r) PROVE DeploymentInv'
  <2>1. /\ life' = [life EXCEPT ![p] = "up"]
        /\ rel' = [rel EXCEPT ![p] = r]
        /\ workers' = [workers EXCEPT ![p] = Workers]
        /\ seq' = [seq EXCEPT ![p] = checkpoint]
        /\ UNCHANGED <<events, req, checkpoint, applied, faults>>
        /\ req[p] = NoRequest
    BY <1>1, <1>3 DEF Start
  <2>2. /\ life' \in [Procs -> {"down", "up", "stopping"}]
        /\ rel' \in [Procs -> Rollout] /\ life'[p] = "up"
        /\ workers' \in [Procs -> SUBSET Workers]
        /\ \A q \in Procs \ {p} : /\ life'[q] = life[q] /\ rel'[q] = rel[q]
                                   /\ workers'[q] = workers[q]
    BY <1>1, <2>1
  <2> QED
    BY <1>1, <2>1, <2>2, ProcessStep
<1>4. ASSUME Gone(p), faults' \in 0..MaxFaults PROVE DeploymentInv'
  <2>1. /\ life' = [life EXCEPT ![p] = "down"]
        /\ workers' = [workers EXCEPT ![p] = {}]
        /\ seq' = [seq EXCEPT ![p] = 0]
        /\ req' = [req EXCEPT ![p] = NoRequest]
        /\ UNCHANGED <<events, rel, checkpoint, applied>>
    BY <1>4 DEF Gone
  <2>2. /\ life' \in [Procs -> {"down", "up", "stopping"}]
        /\ workers' \in [Procs -> SUBSET Workers] /\ workers'[p] = {}
        /\ \A q \in Procs \ {p} : life'[q] = life[q] /\ workers'[q] = workers[q]
    BY <1>1, <2>1
  <2>3. req'[p] = NoRequest
    <3> DEFINE R == {NoRequest} \cup LoadRequest \cup SaveRequest
    <3>1. req \in [Procs -> R]
      BY <1>1
    <3> HIDE DEF R
    <3> QED
      BY <2>1, <3>1
  <2> QED
    BY <1>1, <1>4, <2>1, <2>2, <2>3, ProcessStep
<1>5. ASSUME NEW W, CancelGroup(p, W), UNCHANGED req, faults' \in 0..MaxFaults
      PROVE  DeploymentInv'
  <2>1. /\ life' = [life EXCEPT ![p] = "stopping"]
        /\ workers' = [workers EXCEPT ![p] = @ \ W]
        /\ seq' \in {seq, [seq EXCEPT ![p] = 0]}
        /\ UNCHANGED <<events, rel, checkpoint, applied>>
    BY <1>5 DEF CancelGroup
  <2>2. /\ life' \in [Procs -> {"down", "up", "stopping"}]
        /\ life'[p] = "stopping"
        /\ workers' \in [Procs -> SUBSET Workers]
        /\ \A q \in Procs \ {p} : life'[q] = life[q] /\ workers'[q] = workers[q]
    BY <1>1, <2>1
  <2> QED
    BY <1>1, <1>5, <2>1, <2>2, ProcessStep
<1>6. ASSUME NEW w, WorkerFails(p, w) \/ WorkerReturns(p, w)
      PROVE  DeploymentInv'
  BY <1>1, <1>2, <1>5, <1>6 DEF WorkerFails, WorkerReturns
<1>7. CASE StartUp(p)
  BY <1>3, <1>7 DEF StartUp
<1>8. CASE Kill(p) \/ Exit(p)
  BY <1>1, <1>2, <1>4, <1>8 DEF Kill, Exit
<1>9. CASE Signal(p) \/ Unreadable(p)
  BY <1>1, <1>2, <1>5, <1>9 DEF Signal, Unreadable
<1> QED
  BY <1>6, <1>7, <1>8, <1>9 DEF ShutDown

-----------------------------------------------------------------------------
(***************************************************************************)
(* A request moves on without writing: whoever has decided by the step     *)
(* has done so on the current stream.                                      *)
(***************************************************************************)
LEMMA RequestStep ==
    ASSUME DeploymentInv, NEW p \in Procs,
           UNCHANGED <<events, process, tail>>, faults' \in 0..MaxFaults,
           life[p] # "down",
           NEW x \in {NoRequest} \cup LoadRequest \cup SaveRequest,
           req' = [req EXCEPT ![p] = x],
           x.pc = "save" =>
              /\ \E names \in Raises[rel[p]] : x.pending = Raised(x.cmd, names)
              /\ x.version <= Cardinality(events)
              /\ \A e \in events :
                    e.version <= x.version => e.data.fact.cmd # x.cmd
    PROVE  DeploymentInv'
<1> DEFINE R == {NoRequest} \cup LoadRequest \cup SaveRequest
<1>1. req \in [Procs -> R] /\ x \in R
  BY DEF DeploymentInv, DeploymentTypeOK
<1> HIDE DEF R
<1>2. req' \in [Procs -> R] /\ req'[p] = x
      /\ \A q \in Procs \ {p} : req'[q] = req[q]
  BY <1>1
<1>3. Store!StoreInv'
  BY DEF DeploymentInv, DeploymentTypeOK, Store!StoreInv, Store!WellFormed,
         Store!Versions
<1>4. DeploymentTypeOK'
  BY <1>2, <1>3 DEF DeploymentInv, DeploymentTypeOK, process, tail, R
<1>5. ASSUME NEW q \in Procs PROVE RequestInv(q)'
  <2>1. RequestInv(q)
    BY DEF DeploymentInv
  <2>2. CASE q = p
    BY <2>2, <1>2 DEF RequestInv, process
  <2>3. CASE q # p
    BY <2>1, <2>3, <1>2 DEF RequestInv, process
  <2> QED
    BY <2>2, <2>3
<1>6. TailedTo(checkpoint)' /\ \A q \in Procs : TailedTo(seq[q])'
  BY DEF DeploymentInv, TailedTo, Handled, tail
<1>7. ReadExactly'
  BY DEF DeploymentInv, ReadExactly, tail
<1> QED
  BY <1>4, <1>5, <1>6, <1>7 DEF DeploymentInv

\* A request under way is one of a process that is not down.
LEMMA RequestType ==
    ASSUME DeploymentInv, NEW p \in Procs, req[p].pc \in {"load", "save"}
    PROVE  /\ req[p] \in LoadRequest \cup SaveRequest
           /\ req[p].pc = "load" => req[p] \in LoadRequest
           /\ life[p] # "down"
<1>1. req[p] \in {NoRequest} \cup LoadRequest \cup SaveRequest
  BY DEF DeploymentInv, DeploymentTypeOK
<1>2. req[p] # NoRequest
  BY DEF NoRequest
<1>3. req[p].pc = "load" => req[p] \notin SaveRequest
  BY DEF SaveRequest
<1>4. life[p] # "down"
  BY <1>2 DEF DeploymentInv, RequestInv
<1> QED
  BY <1>1, <1>2, <1>3, <1>4

\* The bus tries again, or gives up.
LEMMA RetryType ==
    ASSUME NEW p \in Procs, req[p] \in LoadRequest \cup SaveRequest,
           AttemptFails(p) \/ Answer(p)
    PROVE  \E x \in {NoRequest} \cup LoadRequest : req' = [req EXCEPT ![p] = x]
<1>1. /\ req[p].via \in Edges /\ req[p].cmd \in Arriving
      /\ req[p].attempt \in 1..Attempts /\ Attempts \in Nat
  BY RepositoryAssumption DEF LoadRequest, SaveRequest
<1>2. CASE Answer(p)
  BY <1>2 DEF Answer
<1>3. CASE AttemptFails(p) /\ req[p].attempt < Attempts
  <2> DEFINE x == [pc |-> "load", via |-> req[p].via, cmd |-> req[p].cmd,
                   attempt |-> req[p].attempt + 1]
  <2>1. req' = [req EXCEPT ![p] = x]
    BY <1>3 DEF AttemptFails
  <2>2. x \in LoadRequest
    BY <1>1, <1>3 DEF LoadRequest
  <2> QED
    BY <2>1, <2>2
<1>4. CASE AttemptFails(p) /\ ~(req[p].attempt < Attempts)
  BY <1>4 DEF AttemptFails, Answer
<1> QED
  BY <1>2, <1>3, <1>4

\* A release that can replay the whole stream and does not find a command
\* in it replays a stream without that command.
LEMMA NotExecuted ==
    ASSUME Store!StoreInv, NEW r \in Releases, NEW c,
           DecodeError \notin Range(Rehydrate(r)),
           \A f \in Range(Rehydrate(r)) : f.cmd # c
    PROVE  \A e \in events : e.data.fact.cmd # c
<1> SUFFICES ASSUME NEW e \in events PROVE e.data.fact.cmd # c
  OBVIOUS
<1>1. InVersionOrder /\ Replayed
  BY StreamShape, ReplaysFacts
<1>2. e.version \in 1..Cardinality(events) /\ Stream[e.version] = e
  BY <1>1 DEF InVersionOrder
<1>3. /\ e.version \in DOMAIN Rehydrate(r)
      /\ Rehydrate(r)[e.version] \in {DecodeError, e.data.fact}
  BY <1>1, <1>2 DEF Replayed
<1>4. Rehydrate(r)[e.version] \in Range(Rehydrate(r))
  BY <1>3 DEF Range
<1> QED
  BY <1>3, <1>4

\* The steps of a request that do not write: it is accepted, loads and
\* decides, meets a conflict, fails or is given up.
LEMMA RequestKeepsInv ==
    ASSUME DeploymentInv, NEW p \in Procs, UNCHANGED <<events, process, tail>>,
           faults' \in 0..MaxFaults,
           \/ \E via \in Edges, c \in Arriving : Accept(p, via, c)
           \/ Load(p, rel[p])
           \/ /\ req[p].pc \in {"load", "save"}
              /\ AttemptFails(p) \/ Answer(p)
    PROVE  DeploymentInv'
<1>1. NoRequest.pc # "save" /\ \A x \in LoadRequest : x.pc # "save"
  BY DEF NoRequest, LoadRequest
<1>2. ASSUME req[p].pc \in {"load", "save"}, AttemptFails(p) \/ Answer(p)
      PROVE  DeploymentInv'
  <2>1. req[p] \in LoadRequest \cup SaveRequest /\ life[p] # "down"
    BY <1>2, RequestType
  <2>2. PICK x \in {NoRequest} \cup LoadRequest : req' = [req EXCEPT ![p] = x]
    BY <1>2, <2>1, RetryType
  <2>3. x.pc # "save"
    BY <1>1
  <2> QED
    BY <2>1, <2>2, <2>3, RequestStep
<1>3. ASSUME NEW via \in Edges, NEW c \in Arriving, Accept(p, via, c)
      PROVE  DeploymentInv'
  <2> DEFINE x == [pc |-> "load", via |-> via, cmd |-> c, attempt |-> 1]
  <2>1. req' = [req EXCEPT ![p] = x] /\ via \in workers[p]
    BY <1>3 DEF Accept, Dispatch
  <2>2. x \in LoadRequest /\ x.pc # "save"
    BY RepositoryAssumption DEF LoadRequest
  <2>3. life[p] # "down"
    BY <2>1 DEF DeploymentInv, RequestInv
  <2> HIDE DEF x
  <2> QED
    BY <2>1, <2>2, <2>3, RequestStep
<1>4. ASSUME Load(p, rel[p]) PROVE DeploymentInv'
  <2> DEFINE r == rel[p]
             history == Range(Rehydrate(r))
  <2>1. req[p].pc = "load" /\ r \in Releases /\ Store!StoreInv
    BY <1>4, DeploymentAssumption DEF Load, DeploymentInv, DeploymentTypeOK
  <2>2. req[p] \in LoadRequest /\ life[p] # "down"
    BY <2>1, RequestType
  <2>3. CASE AttemptFails(p) \/ Answer(p)
    BY <1>2, <2>1, <2>3
  <2>4. CASE ~(AttemptFails(p) \/ Answer(p))
    <3>1. DecodeError \notin history /\ \A f \in history : f.cmd # req[p].cmd
      BY <1>4, <2>4 DEF Load
    <3>2. PICK names \in Raises[r] :
             req' = [req EXCEPT ![p] =
                        [pc |-> "save", via |-> req[p].via, cmd |-> req[p].cmd,
                         attempt |-> req[p].attempt, version |-> Len(Stream),
                         pending |-> Raised(req[p].cmd, names)]]
      BY <1>4, <2>4, <3>1 DEF Load
    <3> DEFINE x == [pc |-> "save", via |-> req[p].via, cmd |-> req[p].cmd,
                     attempt |-> req[p].attempt, version |-> Len(Stream),
                     pending |-> Raised(req[p].cmd, names)]
    <3>3. /\ Len(Stream) = Cardinality(events) /\ Cardinality(events) \in Nat
      BY <2>1, StreamShape, RepositoryAssumption DEF InVersionOrder
    <3>4. /\ req[p].via \in Edges /\ req[p].cmd \in Arriving
          /\ req[p].attempt \in 1..Attempts
      BY <2>2 DEF LoadRequest
    <3>5. Raised(req[p].cmd, names) \in Seq([cmd : Arriving, name : Names])
      <4> DEFINE k == Len(names)
                 T == [cmd : Arriving, name : Names]
      <4>1. names \in Seq(Known(r)) /\ k \in Nat /\ DOMAIN names = 1..k
        BY <2>1, RepositoryAssumption
      <4>2. \A i \in 1..k : [cmd |-> req[p].cmd, name |-> names[i]] \in T
        <5> SUFFICES ASSUME NEW i \in 1..k PROVE names[i] \in Names
          BY <3>4
        <5>1. names[i] \in Known(r)
          BY <4>1
        <5> QED
          BY <5>1, <2>1, RegistryAssumption DEF Known
      <4> HIDE DEF T, k
      <4>3. Raised(req[p].cmd, names) \in [1..k -> T]
        BY <4>1, <4>2 DEF Raised
      <4>4. Raised(req[p].cmd, names) \in Seq(T)
        BY <4>1, <4>3
      <4> QED
        BY <4>4 DEF T
    <3>6. x \in SaveRequest
      BY <3>3, <3>4, <3>5 DEF SaveRequest
    <3>7. /\ x.pending = Raised(x.cmd, names)
          /\ x.version <= Cardinality(events)
          /\ x.cmd = req[p].cmd
      BY <3>3
    <3>8. \A e \in events : e.data.fact.cmd # req[p].cmd
      BY <2>1, <3>1, NotExecuted
    <3>9. req' = [req EXCEPT ![p] = x]
      BY <3>2
    <3> HIDE DEF x
    <3> QED
      BY <2>2, <3>6, <3>7, <3>8, <3>9, RequestStep
  <2> QED
    BY <2>3, <2>4
<1> QED
  BY <1>2, <1>3, <1>4

(***************************************************************************)
(* A request writes.  The other decided requests rest on a part of the     *)
(* stream that does not change, and all positions that are held lie below  *)
(* the new events.                                                         *)
(***************************************************************************)
LEMMA AppendKeepsInv ==
    ASSUME DeploymentInv, NEW p \in Procs, req[p].pc = "save",
           AppendPending(p, rel[p], req[p].version),
           UNCHANGED <<process, tail>>, faults' \in 0..MaxFaults,
           NEW x \in {NoRequest} \cup LoadRequest,
           req' = [req EXCEPT ![p] = x]
    PROVE  DeploymentInv'
<1> DEFINE n == Cardinality(events)
<1>1. /\ Store!StoreInv /\ Store!StoreInv' /\ events \subseteq events'
      /\ n \in Nat /\ n' \in Nat
      /\ InVersionOrder'
  BY Appended, StreamShape, NextStream, RepositoryAssumption
     DEF DeploymentInv, DeploymentTypeOK, InVersionOrder
<1>2. \A e \in events' \ events :
         /\ \A f \in events : f.seq < e.seq
         /\ e.seq > 0 /\ e.version > n
         /\ e.version \in Nat /\ e.seq \in Nat
  BY Appended
<1>3. n <= n'
  <2>1. Len(req[p].pending) \in 1..MaxBatch
    BY PendingBatch
  <2>2. 1 \in 1..Len(req[p].pending)
    BY <2>1, RepositoryAssumption
  <2>3. PICK e \in events' : e.version = n + 1
    BY <2>2, Appended
  <2>4. e.version \in 1..n'
    BY <1>1 DEF InVersionOrder
  <2> QED
    BY <1>1, <2>3, <2>4
<1> DEFINE R == {NoRequest} \cup LoadRequest \cup SaveRequest
<1>4. req \in [Procs -> R] /\ x \in R
  BY DEF DeploymentInv, DeploymentTypeOK
<1> HIDE DEF R, n
<1>5. req' \in [Procs -> R] /\ req'[p] = x
      /\ \A q \in Procs \ {p} : req'[q] = req[q]
  BY <1>4
<1>6. DeploymentTypeOK'
  BY <1>1, <1>5 DEF DeploymentInv, DeploymentTypeOK, process, tail, R
<1>7. x.pc # "save" /\ life[p] # "down"
  BY RequestType DEF NoRequest, LoadRequest
<1>8. ASSUME NEW q \in Procs PROVE RequestInv(q)'
  <2>1. RequestInv(q)
    BY DEF DeploymentInv
  <2>2. CASE q = p
    BY <2>2, <1>5, <1>7 DEF RequestInv, process
  <2>3. CASE q # p /\ req[q].pc # "save"
    BY <2>1, <2>3, <1>5 DEF RequestInv, process
  <2>4. CASE q # p /\ req[q].pc = "save"
    <3>1. req[q].version \in Nat /\ req'[q] = req[q]
      BY <2>4, <1>5, SaveRequestType DEF SaveRequest
    <3>2. req[q].version <= n
      BY <2>1, <2>4 DEF RequestInv, n
    <3>3. req[q].version <= n'
      BY <1>1, <1>3, <3>1, <3>2
    <3>4. \A e \in events' : e.version <= req[q].version => e \in events
      BY <1>1, <1>2, <3>1, <3>2
    <3> QED
      BY <2>1, <2>4, <3>1, <3>3, <3>4 DEF RequestInv, process, n
  <2> QED
    BY <2>2, <2>3, <2>4
<1>9. ASSUME NEW s, TailedTo(s) PROVE TailedTo(s)'
  <2>1. \A e \in events : e.seq \in Nat
    BY <1>1, RepositoryAssumption DEF Store!StoreInv, Store!Event
  <2>2. \A e \in events' : e.seq <= s => e \in events
    BY <1>2, <1>9, <2>1 DEF TailedTo
  <2>3. \A e : Handled(e)' <=> Handled(e)
    BY DEF Handled, tail
  <2> QED
    BY <1>1, <1>9, <2>2, <2>3 DEF TailedTo
<1>10. TailedTo(checkpoint)' /\ \A q \in Procs : TailedTo(seq[q])'
  <2>1. checkpoint' = checkpoint /\ seq' = seq
    BY DEF tail
  <2>2. \A s : TailedTo(s) => TailedTo(s)'
    BY <1>9
  <2> QED
    BY <2>1, <2>2 DEF DeploymentInv, TailedTo, Handled
<1>11. ReadExactly'
  BY <1>1 DEF DeploymentInv, ReadExactly, tail
<1> QED
  BY <1>6, <1>8, <1>10, <1>11 DEF DeploymentInv

(***************************************************************************)
(* The tailing worker moves on by one event: it was the next one, and if   *)
(* every release knows its name the release of this process does.          *)
(***************************************************************************)
LEMMA TailKeepsInv ==
    ASSUME DeploymentInv, NEW p \in Procs, HandleNext(p)
    PROVE  DeploymentInv'
<1>1. PICK e \in events :
         /\ NextEvent(p, e)
         /\ IF e.data.name \notin Known(rel[p])
            THEN Pass(p, e, {})
            ELSE LET fact == Decode(rel[p], e.data)
                 IN fact # DecodeError /\ Pass(p, e, {<<e.seq, fact>>})
  BY DEF HandleNext
<1>2. /\ Store!StoreInv /\ rel[p] \in Rollout /\ rel[p] \in Releases
      /\ seq \in [Procs -> 0..MaxSeq] /\ MaxSeq \in Nat
      /\ e.data \in Encoded
      /\ \A f \in events : f.seq \in 1..MaxSeq
      /\ \A f \in events : f.seq = e.seq => f = e
  BY DeploymentAssumption, RepositoryAssumption
     DEF DeploymentInv, DeploymentTypeOK, Store!StoreInv, Store!Event,
         Store!WellFormed
<1>3. \E facts : /\ Pass(p, e, facts)
                 /\ facts \subseteq {<<e.seq, e.data.fact>>}
                 /\ e.data.name \in Known(rel[p])
                       => facts = {<<e.seq, e.data.fact>>}
  <2>1. CASE e.data.name \notin Known(rel[p])
    BY <1>1, <2>1
  <2>2. CASE e.data.name \in Known(rel[p])
    <3>1. Decode(rel[p], e.data) = e.data.fact
      BY <1>1, <1>2, <2>2, DecodeExact
    <3> QED
      BY <1>1, <2>2, <3>1
  <2> QED
    BY <2>1, <2>2
<1>4. PICK facts : /\ Pass(p, e, facts)
                   /\ facts \subseteq {<<e.seq, e.data.fact>>}
                   /\ e.data.name \in Known(rel[p])
                         => facts = {<<e.seq, e.data.fact>>}
  BY <1>3
<1>5. /\ seq' = [seq EXCEPT ![p] = e.seq] /\ checkpoint' = e.seq
      /\ applied' = applied \cup facts
      /\ UNCHANGED <<events, req, life, rel, workers, faults>>
  BY <1>4 DEF Pass, process
<1>6. Store!StoreInv'
  BY <1>2, <1>5 DEF Store!StoreInv, Store!WellFormed, Store!Versions
<1>7. e.seq \in 0..MaxSeq
  BY <1>2
<1>8. DeploymentTypeOK'
  BY <1>2, <1>5, <1>6, <1>7 DEF DeploymentInv, DeploymentTypeOK
<1>9. \A q \in Procs : RequestInv(q)'
  BY <1>5 DEF DeploymentInv, RequestInv
<1>10. \A f : Handled(f) => Handled(f)'
  BY <1>5 DEF Handled
<1>11. ASSUME NEW s, TailedTo(s) PROVE TailedTo(s)'
  BY <1>5, <1>10, <1>11 DEF TailedTo
<1>12. e.data.name \in Common => Handled(e)'
  <2> SUFFICES ASSUME e.data.name \in Common PROVE Handled(e)'
    OBVIOUS
  <2>1. <<e.seq, e.data.fact>> \in applied'
    BY <1>2, <1>4, <1>5 DEF Common
  <2> QED
    BY <2>1, <1>5 DEF Handled
<1>13. TailedTo(e.seq)'
  <2>1. ASSUME NEW f \in events, f.seq <= e.seq, f.data.name \in Common
        PROVE  Handled(f)'
    <3>1. CASE f.seq <= seq[p]
      BY <1>10, <2>1, <3>1 DEF DeploymentInv, TailedTo
    <3>2. CASE ~(f.seq <= seq[p])
      <4>1. f.seq > seq[p] /\ f.seq \in Int /\ e.seq \in Int
        BY <1>2, <3>2
      <4>2. e.seq <= f.seq
        BY <1>1, <4>1 DEF NextEvent
      <4>3. f = e
        BY <1>2, <2>1, <4>1, <4>2
      <4> QED
        BY <1>12, <2>1, <4>3
    <3> QED
      BY <3>1, <3>2
  <2> QED
    BY <1>5, <2>1 DEF TailedTo
<1>14. TailedTo(checkpoint)' /\ \A q \in Procs : TailedTo(seq[q])'
  <2>1. \A s : TailedTo(s) => TailedTo(s)'
    BY <1>11
  <2>2. \A q \in Procs : seq'[q] = e.seq \/ seq'[q] = seq[q]
    BY <1>2, <1>5
  <2> QED
    BY <1>5, <1>13, <2>1, <2>2 DEF DeploymentInv, TailedTo, Handled
<1>15. ReadExactly'
  <2> SUFFICES ASSUME NEW a \in applied'
               PROVE  \E f \in events : a = <<f.seq, f.data.fact>>
    BY <1>5 DEF ReadExactly
  <2>1. CASE a \in applied
    BY <2>1 DEF DeploymentInv, ReadExactly
  <2>2. CASE a \notin applied
    BY <1>4, <1>5, <2>2
  <2> QED
    BY <2>1, <2>2
<1> QED
  BY <1>8, <1>9, <1>14, <1>15 DEF DeploymentInv

\* Every step keeps the invariant.
LEMMA DeploymentStep ==
    DeploymentInv /\ [DeploymentNext]_deploymentVars => DeploymentInv'
<1> SUFFICES ASSUME DeploymentInv, [DeploymentNext]_deploymentVars
             PROVE  DeploymentInv'
  OBVIOUS
<1>1. faults \in 0..MaxFaults /\ (Fault => faults' \in 0..MaxFaults)
  BY FaultsAssumption DEF DeploymentInv, DeploymentTypeOK, Fault
<1>2. ASSUME NEW p \in Procs, Request(p) PROVE DeploymentInv'
  <2>1. ASSUME req[p].pc = "save", AppendPending(p, rel[p], req[p].version),
               AttemptFails(p) \/ Answer(p),
               UNCHANGED <<process, tail>>, faults' \in 0..MaxFaults
        PROVE  DeploymentInv'
    <3>1. req[p] \in LoadRequest \cup SaveRequest
      BY <2>1, RequestType
    <3>2. PICK x \in {NoRequest} \cup LoadRequest : req' = [req EXCEPT ![p] = x]
      BY <2>1, <3>1, RetryType
    <3> QED
      BY <2>1, <3>2, AppendKeepsInv
  <2>2. CASE \E via \in Edges, c \in Arriving : Accept(p, via, c)
    BY <1>1, <2>2, RequestKeepsInv DEF Accept, Dispatch
  <2>3. CASE Execute(p)
    <3>1. UNCHANGED <<process, tail>> /\ faults' \in 0..MaxFaults
      BY <1>1, <2>3 DEF Execute
    <3>2. CASE Load(p, rel[p])
      BY <3>1, <3>2, RequestKeepsInv DEF Load
    <3>3. CASE Save(p, rel[p])
      BY <2>1, <3>1, <3>3 DEF Save
    <3>4. CASE Conflict(p)
      BY <3>1, <3>4, RequestKeepsInv DEF Conflict
    <3> QED
      BY <2>3, <3>2, <3>3, <3>4 DEF Execute
  <2>4. CASE ExecuteFails(p)
    <3>1. UNCHANGED <<process, tail>> /\ faults' \in 0..MaxFaults
      BY <1>1, <2>4 DEF ExecuteFails
    <3>2. req[p].pc = "save" /\ AttemptFails(p)
      BY <2>4 DEF ExecuteFails, SaveFails
    <3>3. CASE UNCHANGED events
      BY <3>1, <3>2, <3>3, RequestKeepsInv
    <3>4. CASE AppendPending(p, rel[p], req[p].version)
      BY <2>1, <3>1, <3>2, <3>4
    <3> QED
      BY <2>4, <3>3, <3>4 DEF ExecuteFails, SaveFails
  <2>5. CASE Abort(p)
    <3>1. /\ UNCHANGED <<events, process, tail, faults>>
          /\ req[p] # NoRequest /\ Answer(p)
      BY <2>5 DEF Abort
    <3>2. req[p].pc \in {"load", "save"}
      BY <3>1 DEF DeploymentInv, DeploymentTypeOK, LoadRequest, SaveRequest
    <3> QED
      BY <1>1, <3>1, <3>2, RequestKeepsInv
  <2> QED
    BY <1>2, <2>2, <2>3, <2>4, <2>5 DEF Request
<1>3. CASE UNCHANGED deploymentVars
  BY <1>3 DEF deploymentVars, process, tail, DeploymentInv, DeploymentTypeOK,
              RequestInv, TailedTo, Handled, ReadExactly, Store!StoreInv,
              Store!WellFormed, Store!Versions
<1>4. CASE DeploymentNext
  <2>1. PICK p \in Procs :
           StartUp(p) \/ ShutDown(p) \/ Request(p) \/ TailNext(p)
    BY <1>4 DEF DeploymentNext
  <2>2. CASE TailNext(p)
    BY <2>2, LifeKeepsInv, TailKeepsInv DEF TailNext
  <2> QED
    BY <1>2, <2>1, <2>2, LifeKeepsInv
<1> QED
  BY <1>3, <1>4

(***************************************************************************)
(* The inductive invariant: the store is one of the port, every decided    *)
(* request has decided on a prefix of the stream without its command, and  *)
(* every position that is held or persisted has been tailed to.            *)
(***************************************************************************)
THEOREM DeploymentInvariance == DeploymentSpec => []DeploymentInv
BY DeploymentStarts, DeploymentStep, PTL DEF DeploymentSpec

(***************************************************************************)
(* Registry.Decode with its upcasters: for any releases, chains of any     *)
(* length and any order of roll-outs, a handler gets the fact that was     *)
(* raised.                                                                 *)
(***************************************************************************)
THEOREM ReadsExactly == DeploymentSpec => []ReadExactly
<1>1. DeploymentInv => ReadExactly
  BY DEF DeploymentInv
<1> QED
  BY <1>1, DeploymentInvariance, PTL

\* Relay and projection stop at what they cannot decode: the checkpoint
\* that all processes share has passed nothing that was not handled.
THEOREM CheckpointPassesOnlyHandled == DeploymentSpec => []PassedIsHandled
<1>1. DeploymentInv => PassedIsHandled
  BY DEF DeploymentInv, TailedTo, PassedIsHandled
<1> QED
  BY <1>1, DeploymentInvariance, PTL

-----------------------------------------------------------------------------
(***************************************************************************)
(* An append is one command, executed on the current state: the stream has *)
(* the version the request decided on, so the command is not in it.        *)
(***************************************************************************)
LEMMA AppendIsExecution ==
    ASSUME DeploymentInv, NEW p \in Procs, req[p].pc = "save",
           AppendPending(p, rel[p], req[p].version)
    PROVE  Atomic!Next
<1> DEFINE n == Cardinality(events)
           c == req[p].cmd
           facts == req[p].pending
           k == Len(facts)
           old == Rehydrate(LastRelease)
           new == Rehydrate(LastRelease)'
<1>1. /\ InVersionOrder /\ Replayed /\ InVersionOrder' /\ Replayed'
      /\ n \in Nat /\ n' \in Nat /\ events \subseteq events'
  BY Appended, StreamShape, ReplaysFacts, NextStream, RepositoryAssumption
     DEF DeploymentInv, DeploymentTypeOK, InVersionOrder
<1>2. /\ facts \in Seq(Facts) /\ k \in 1..MaxBatch /\ k \in Nat
      /\ \E names \in UNION Range(Raises) : facts = Raised(c, names)
  <2>1. /\ facts \in Seq(Facts) /\ k \in 1..MaxBatch
        /\ \E names \in UNION Range(Raises) : facts = Raised(c, names)
    BY PendingBatch
  <2>2. k \in Nat
    BY <2>1, RepositoryAssumption
  <2> QED
    BY <2>1, <2>2
<1>3. c \in Commands
  BY SaveRequestType, DeploymentAssumption DEF SaveRequest
<1>4. req[p].version = n
  BY Appended
<1>5. \A f \in Range(old) : f.cmd # c
  <2>1. \A v \in 1..n : old[v].cmd # c
    <3> SUFFICES ASSUME NEW v \in 1..n PROVE old[v].cmd # c
      OBVIOUS
    <3>1. /\ Stream[v] \in events /\ Stream[v].version = v
          /\ old[v] = Stream[v].data.fact
      BY <1>1 DEF InVersionOrder, Replayed
    <3> QED
      BY <3>1, <1>1, <1>4 DEF DeploymentInv, RequestInv
  <2>2. DOMAIN old = 1..n
    BY <1>1 DEF Replayed
  <2> QED
    BY <2>1, <2>2 DEF Range
<1>6. n' = n + k
  <2>1. n' <= n + k
    <3>1. CASE n' = 0
      BY <1>1, <1>2, <3>1
    <3>2. CASE n' # 0
      <4>1. PICK e \in events' : e.version = n'
        BY <1>1, <3>2 DEF InVersionOrder
      <4>2. CASE e \in events
        BY <1>1, <1>2, <4>1, <4>2 DEF InVersionOrder
      <4>3. CASE e \notin events
        BY <4>1, <4>3, Appended
      <4> QED
        BY <4>2, <4>3
    <3> QED
      BY <3>1, <3>2
  <2>2. n + k \in 1..n'
    <3>1. PICK e \in events' : e.version = n + k
      BY <1>2, Appended
    <3> QED
      BY <3>1, <1>1 DEF InVersionOrder
  <2> QED
    BY <1>1, <1>2, <2>1, <2>2
<1>7. ASSUME NEW v \in 1..n PROVE new[v] = old[v]
  <2>1. /\ Stream[v] \in events /\ Stream[v].version = v
        /\ old[v] = Stream[v].data.fact
    BY <1>1 DEF InVersionOrder, Replayed
  <2>2. Stream[v] \in events' /\ v \in 1..n'
    BY <1>1, <1>2, <1>6, <2>1
  <2>3. Stream'[v] = Stream[v]
    BY <1>1, <2>1, <2>2 DEF InVersionOrder
  <2> QED
    BY <1>1, <2>1, <2>2, <2>3 DEF Replayed
<1>8. ASSUME NEW i \in 1..k PROVE new[n + i] = facts[i]
  <2>1. PICK e \in events' : e.version = n + i /\ e.data.fact = facts[i]
    BY Appended
  <2>2. Stream'[n + i] = e /\ n + i \in 1..n'
    BY <1>1, <2>1 DEF InVersionOrder
  <2> QED
    BY <1>1, <2>1, <2>2 DEF Replayed
<1>9. /\ old \in Seq(Facts) /\ Len(old) = n
      /\ new \in Seq(Facts) /\ Len(new) = n + k
  BY <1>1, <1>6 DEF Replayed
<1> HIDE DEF n, facts, k, old, new
<1>10. new = old \o facts
  <2>1. Len(old \o facts) = n + k /\ old \o facts \in Seq(Facts)
    BY <1>2, <1>9 DEF k
  <2>2. ASSUME NEW v \in 1..(n + k) PROVE new[v] = (old \o facts)[v]
    <3>1. CASE v \in 1..n
      BY <1>2, <1>7, <1>9, <3>1 DEF k
    <3>2. CASE v \notin 1..n
      <4>1. v - n \in 1..k /\ n + (v - n) = v
        BY <1>1, <1>2, <3>2
      <4>2. (old \o facts)[v] = facts[v - n]
        BY <1>1, <1>2, <1>9, <3>2 DEF k
      <4> QED
        BY <1>8, <4>1, <4>2
    <3> QED
      BY <3>1, <3>2
  <2>3. /\ new = [v \in 1..(n + k) |-> new[v]]
        /\ old \o facts = [v \in 1..(n + k) |-> (old \o facts)[v]]
    <3> HIDE DEF Facts
    <3> QED
      BY <2>1, <1>1, <1>2, <1>9
  <2> QED
    BY <2>2, <2>3
<1>11. facts \in Outcomes(c)
  BY <1>2 DEF Outcomes
<1> QED
  BY <1>3, <1>5, <1>10, <1>11
     DEF Atomic!Next, Atomic!Execute, old, new, Range, Atomic!Range

\* Every other step leaves the store alone.
LEMMA StepIsAtomic ==
    DeploymentInv /\ [DeploymentNext]_deploymentVars
        => [Atomic!Next]_(Rehydrate(LastRelease))
<1> SUFFICES ASSUME DeploymentInv, [DeploymentNext]_deploymentVars
             PROVE  Atomic!Next \/ UNCHANGED Rehydrate(LastRelease)
  OBVIOUS
<1>1. ASSUME UNCHANGED events PROVE UNCHANGED Rehydrate(LastRelease)
  BY <1>1 DEF Rehydrate, Stream
<1>2. CASE UNCHANGED deploymentVars
  BY <1>1, <1>2 DEF deploymentVars
<1>3. ASSUME NEW p \in Procs, StartUp(p) \/ ShutDown(p) \/ TailNext(p)
      PROVE  UNCHANGED events
  BY <1>3 DEF StartUp, Start, ShutDown, Kill, Signal, WorkerFails,
              WorkerReturns, Exit, Gone, CancelGroup, TailNext, HandleNext,
              Pass, Unreadable
<1>4. ASSUME NEW p \in Procs, Request(p)
      PROVE  \/ UNCHANGED events
             \/ req[p].pc = "save" /\ AppendPending(p, rel[p], req[p].version)
  BY <1>4 DEF Request, Accept, Dispatch, Execute, Load, Save, Conflict,
              ExecuteFails, SaveFails, Abort
<1> QED
  BY <1>1, <1>2, <1>3, <1>4, AppendIsExecution DEF DeploymentNext

(***************************************************************************)
(* Repository.Load and Save under the retrying bus, over any store of the  *)
(* port and across releases, implement commands that execute one at a      *)
(* time on the current state of the aggregate.                             *)
(***************************************************************************)
THEOREM CommandsExecuteAtomically == DeploymentSpec => CommandsAreAtomic
<1>1. DeploymentInit => Atomic!Init
  BY InitialStore DEF DeploymentInit, RepositoryInit, Atomic!Init
<1> QED
  BY <1>1, StepIsAtomic, DeploymentInvariance, PTL
     DEF DeploymentSpec, CommandsAreAtomic, Atomic!Spec
=============================================================================
