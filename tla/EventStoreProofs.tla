-------------------------- MODULE EventStoreProofs --------------------------
(***************************************************************************)
(* What every implementation of the event-store port guarantees, and the   *)
(* facts about appends and tailing reads that the proofs about its users   *)
(* rest on.                                                                *)
(***************************************************************************)
EXTENDS EventStore, FiniteSetTheorems, TLAPS

\* The argument of an append is a non-empty sequence of payloads.
LEMMA BatchType ==
    ASSUME NEW data \in Batches
    PROVE  /\ Len(data) \in 1..MaxBatch
           /\ Len(data) \in Nat \ {0}
           /\ \A i \in 1..Len(data) : data[i] \in Payloads
<1>1. PICK n \in 1..MaxBatch : data \in [1..n -> Payloads]
  BY DEF Batches
<1>2. n \in Nat /\ n > 0
  BY StoreAssumption
<1>3. data \in Seq(Payloads) /\ Len(data) = n
  BY <1>1, <1>2
<1> QED
  BY <1>1, <1>2, <1>3

\* The rows of an append are recorded events, one per argument.
LEMMA RecordedType ==
    ASSUME NEW s \in Streams, NEW expected \in Nat, NEW data \in Batches,
           NEW k \in 0..Len(data), NEW base \in Nat,
           expected <= base, base + k <= MaxSeq
    PROVE  /\ Recorded(s, expected, data, k, base) \subseteq Event
           /\ IsFiniteSet(Recorded(s, expected, data, k, base))
<1> DEFINE row(i) == [seq |-> base + i, stream |-> s,
                      version |-> expected + i, data |-> data[i]]
<1>1. k \in Nat /\ MaxSeq \in Nat
  BY BatchType, StoreAssumption
<1>2. ASSUME NEW i \in 1..k PROVE row(i) \in Event
  <2>1. base + i \in 1..MaxSeq /\ expected + i \in 1..MaxSeq
    BY <1>1, StoreAssumption
  <2>2. data[i] \in Payloads
    BY <1>1, BatchType
  <2> QED
    BY <2>1, <2>2 DEF Event
<1>3. IsFiniteSet(1..k)
  BY <1>1, FS_Interval
<1>4. IsFiniteSet({row(i) : i \in 1..k})
  <2>1. [i \in 1..k |-> row(i)] \in Surjection(1..k, {row(i) : i \in 1..k})
    BY DEF Surjection
  <2> QED
    BY <1>3, <2>1, FS_Surjection
<1> QED
  BY <1>2, <1>4 DEF Recorded

\* An append leaves every stream with consecutive versions, unique
\* positions, and versions that grow with the global sequence.
LEMMA AppendStep ==
    ASSUME StoreInv, NEW s \in Streams, NEW expected \in 0..MaxSeq,
           NEW data \in Batches, NEW base \in 0..MaxSeq,
           AppendEvents(s, expected, data, base)
    PROVE  StoreInv'
<1> DEFINE n == Len(data)
           new == Recorded(s, expected, data, n, base)
<1>1. n \in Nat \ {0} /\ MaxSeq \in Nat /\ base \in Nat /\ expected \in Nat
  BY BatchType, StoreAssumption
<1>2. events' = events \cup new /\ base + n <= MaxSeq
      /\ \A e \in events : e.seq <= base
  BY DEF AppendEvents
<1>3. Versions(s) = 1..expected
  BY DEF AppendEvents
<1>4. expected <= base
  <2>1. CASE expected = 0
    BY <2>1, <1>1
  <2>2. CASE expected # 0
    <3>1. expected \in Versions(s)
      BY <1>1, <1>3, <2>2
    <3>2. PICK e \in events : e.version = expected
      BY <3>1 DEF Versions
    <3> QED
      BY <3>2, <1>1, <1>2 DEF StoreInv, Event
  <2> QED
    BY <2>1, <2>2
<1>5. new \subseteq Event /\ IsFiniteSet(new)
  BY <1>1, <1>2, <1>4, RecordedType
<1>6. events' \subseteq Event /\ IsFiniteSet(events')
  BY <1>2, <1>5, FS_Union DEF StoreInv
<1>7. ASSUME NEW e \in new
      PROVE  \E i \in 1..n : /\ e.seq = base + i
                             /\ e.version = expected + i
                             /\ e.stream = s
                             /\ e.data = data[i]
  BY DEF Recorded
<1>8. ASSUME NEW i \in 1..n PROVE \E e \in new : e.version = expected + i
  <2> DEFINE row == [seq |-> base + i, stream |-> s,
                     version |-> expected + i, data |-> data[i]]
  <2>1. row \in new
    BY DEF Recorded
  <2>2. row.version = expected + i
    OBVIOUS
  <2> QED
    BY <2>1, <2>2
<1>9. \A e \in events' : e.version <= e.seq
  BY <1>1, <1>2, <1>4, <1>7 DEF StoreInv
<1>10. ASSUME NEW t \in Streams
       PROVE  \E m \in 0..MaxSeq : Versions(t)' = 1..m
  <2>1. CASE t # s
    <3>1. Versions(t)' = Versions(t)
      BY <2>1, <1>2, <1>7 DEF Versions
    <3> QED
      BY <3>1 DEF StoreInv, WellFormed
  <2>2. CASE t = s
    <3>1. Versions(s)' = Versions(s) \cup {e.version : e \in new}
      BY <1>2, <1>7 DEF Versions
    <3>2. {e.version : e \in new} = (expected + 1)..(expected + n)
      <4>1. ASSUME NEW v \in (expected + 1)..(expected + n)
            PROVE  v \in {e.version : e \in new}
        <5>1. v - expected \in 1..n /\ v = expected + (v - expected)
          BY <1>1
        <5> QED
          BY <5>1, <1>8
      <4>2. ASSUME NEW e \in new
            PROVE  e.version \in (expected + 1)..(expected + n)
        BY <1>1, <1>7
      <4> QED
        BY <4>1, <4>2
    <3>3. Versions(s)' = 1..(expected + n)
      BY <1>1, <1>3, <3>1, <3>2
    <3>4. expected + n \in 0..MaxSeq
      BY <1>1, <1>2, <1>4
    <3> QED
      BY <2>2, <3>3, <3>4
  <2> QED
    BY <2>1, <2>2
<1>11. ASSUME NEW e \in events, NEW f \in new
       PROVE  /\ e.seq < f.seq
              /\ e.stream = f.stream => e.version < f.version
  <2>1. e.seq < f.seq
    BY <1>1, <1>2, <1>7 DEF StoreInv, Event
  <2>2. e.stream = s => e.version \in 1..expected
    BY <1>3 DEF Versions
  <2> QED
    BY <2>1, <2>2, <1>1, <1>7
<1>12. ASSUME NEW e \in new, NEW f \in new
       PROVE  /\ e.seq = f.seq => e = f
              /\ e.version < f.version => e.seq < f.seq
              /\ e.version = f.version => e = f
  <2>1. PICK i \in 1..n : e = [seq |-> base + i, stream |-> s,
                               version |-> expected + i, data |-> data[i]]
    BY DEF Recorded
  <2>2. PICK j \in 1..n : f = [seq |-> base + j, stream |-> s,
                               version |-> expected + j, data |-> data[j]]
    BY DEF Recorded
  <2>3. CASE i = j
    BY <2>1, <2>2, <2>3, <1>1
  <2>4. CASE i # j
    BY <2>1, <2>2, <2>4, <1>1
  <2> QED
    BY <2>3, <2>4
<1>13. ASSUME NEW e \in events', NEW f \in events'
       PROVE  /\ e.seq = f.seq => e = f
              /\ e.stream = f.stream /\ e.version < f.version
                    => e.seq < f.seq
              /\ e.stream = f.stream /\ e.version = f.version => e = f
  <2>1. \A g \in events \cup new : g.seq \in Int /\ g.version \in Int
    BY <1>5 DEF StoreInv, Event
  <2>2. CASE e \in events /\ f \in events
    BY <2>2 DEF StoreInv, WellFormed
  <2>3. CASE e \in events /\ f \in new
    BY <2>1, <2>3, <1>11
  <2>4. CASE e \in new /\ f \in events
    BY <2>1, <2>4, <1>11
  <2>5. CASE e \in new /\ f \in new
    BY <2>5, <1>12
  <2> QED
    BY <1>2, <2>2, <2>3, <2>4, <2>5
<1>14. WellFormed'
  BY <1>10, <1>13 DEF WellFormed
<1> QED
  BY <1>6, <1>9, <1>14 DEF StoreInv

\* The empty store is well formed.
LEMMA EmptyStore ==
    ASSUME StoreInit PROVE StoreInv
<1>1. \A s \in Streams : Versions(s) = 1..0
  BY DEF StoreInit, Versions
<1>2. 0 \in 0..MaxSeq
  BY StoreAssumption
<1> QED
  BY <1>1, <1>2, FS_EmptySet DEF StoreInit, StoreInv, WellFormed

(***************************************************************************)
(* A tailing read returns visible events above the position it was asked   *)
(* for, and leaves out none that lies below one it returns.                *)
(***************************************************************************)
LEMMA ReadAllClosed ==
    ASSUME StoreInv, NEW afterSeq \in Nat, NEW limit \in Nat,
           NEW e \in ReadAll(afterSeq, limit), NEW f \in events,
           afterSeq < f.seq, f.seq <= e.seq
    PROVE  f \in ReadAll(afterSeq, limit)
<1> DEFINE upTo(g) == {h \in events : afterSeq < h.seq /\ h.seq <= g.seq}
<1>1. e \in events /\ Cardinality(upTo(e)) <= limit
  BY DEF ReadAll
<1>2. IsFiniteSet(upTo(e))
  BY FS_Subset DEF StoreInv
<1>3. upTo(f) \subseteq upTo(e)
  BY <1>1 DEF StoreInv, Event
<1>4. Cardinality(upTo(f)) <= Cardinality(upTo(e))
      /\ Cardinality(upTo(e)) \in Nat /\ Cardinality(upTo(f)) \in Nat
  BY <1>2, <1>3, FS_Subset, FS_CardinalityType
<1>5. Cardinality(upTo(f)) <= limit
  BY <1>1, <1>4
<1> QED
  BY <1>5 DEF ReadAll

-----------------------------------------------------------------------------
(***************************************************************************)
(* Whatever implements the port keeps every stream's versions consecutive  *)
(* and unique, and growing with the global sequence.                       *)
(***************************************************************************)
THEOREM StoreWellFormed == StoreSpec => []WellFormed
<1>1. StoreInit => StoreInv
  BY EmptyStore
<1>2. StoreInv /\ [StoreNext]_events => StoreInv'
  <2> SUFFICES ASSUME StoreInv, [StoreNext]_events PROVE StoreInv'
    OBVIOUS
  <2>1. CASE StoreNext
    BY <2>1, AppendStep DEF StoreNext
  <2>2. CASE UNCHANGED events
    BY <2>2 DEF StoreInv, WellFormed, Versions
  <2> QED
    BY <2>1, <2>2
<1>3. StoreInv => WellFormed
  BY DEF StoreInv
<1> QED
  BY <1>1, <1>2, <1>3, PTL DEF StoreSpec
=============================================================================
