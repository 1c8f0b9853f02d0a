------------------------- MODULE PgEventStoreProofs -------------------------
(***************************************************************************)
(* The Postgres event store implements the port and its tailing reader     *)
(* never skips, for any number of writers, streams, payloads, batch sizes  *)
(* and length of the sequence.                                             *)
(***************************************************************************)
EXTENDS PgEventStore, EventStoreProofs

\* coalesce(max(version), 0) is the length of a stream without holes.
LEMMA CurrentIsLength ==
    ASSUME NEW s, NEW n \in Nat, Versions(s) = 1..n
    PROVE  Current(s) = n
<1> DEFINE S == {0} \cup Versions(s)
<1>1. n \in S /\ \A y \in S : n >= y
  OBVIOUS
<1>2. S \subseteq Nat
  OBVIOUS
<1>3. Max(S) \in S /\ \A y \in S : Max(S) >= y
  <2>1. \E x \in S : \A y \in S : x >= y
    BY <1>1
  <2> QED
    BY <2>1 DEF Max
<1>4. Max(S) = n
  BY <1>1, <1>2, <1>3
<1> QED
  BY <1>4 DEF Current

\* The version a caller loaded and its batch fit the sequence range.
LEMMA ExpectedType ==
    ASSUME Inv, NEW w \in Writers, pc[w] # "idle"
    PROVE  /\ call[w] \in Call
           /\ call[w].stream \in Streams
           /\ call[w].expected \in Nat
           /\ call[w].data \in Batches
           /\ Len(call[w].data) \in Nat \ {0}
<1>1. call[w] \in Call
  BY DEF Inv, CallInv
<1> QED
  BY <1>1, BatchType, StoreAssumption DEF Call

\* A stream is never longer than what lies at or below a bound of the
\* positions in use.
LEMMA VersionBelowSeq ==
    ASSUME StoreInv, NEW s \in Streams, NEW n \in Nat, Versions(s) = 1..n,
           NEW base \in Nat, \A e \in events : e.seq <= base
    PROVE  n <= base
<1>1. CASE n = 0
  BY <1>1
<1>2. CASE n # 0
  <2>1. n \in Versions(s)
    BY <1>2
  <2>2. PICK e \in events : e.version = n
    BY <2>1 DEF Versions
  <2> QED
    BY <2>2 DEF StoreInv, Event
<1> QED
  BY <1>1, <1>2

\* Versions are never withdrawn.
LEMMA VersionsGrow ==
    ASSUME events \subseteq events', NEW s
    PROVE  Versions(s) \subseteq Versions(s)'
BY DEF Versions

\* Steps that leave the store alone keep what speaks of the store only.
LEMMA StoreUnchanged ==
    ASSUME StoreInv, UNCHANGED events
    PROVE  StoreInv' /\ \A s : Versions(s)' = Versions(s)
BY DEF StoreInv, WellFormed, Versions

\* The empty schema satisfies the invariant.
LEMMA InitInv == Init => Inv
<1> SUFFICES ASSUME Init PROVE Inv
  OBVIOUS
<1>1. StoreInv
  BY EmptyStore DEF Init
<1>2. TypeOK
  BY StoreAssumption, PgAssumption
     DEF Init, TypeOK, StoreInit, Result, NoResult
<1>3. LockInv
  BY PgAssumption DEF Init, LockInv
<1>4. CallInv /\ InsertInv /\ ReaderInv /\ NoSkip
  BY DEF Init, StoreInit, CallInv, InsertInv, ReaderInv, NoSkip
<1>5. Acknowledged /\ ConflictIsReal
  BY DEF Init, Acknowledged, ConflictIsReal, NoResult
<1> QED
  BY <1>1, <1>2, <1>3, <1>4, <1>5 DEF Inv

\* Opening a transaction keeps the invariant: nothing shared changes.
LEMMA BeginInv ==
    ASSUME Inv, NEW w \in Writers, NEW s \in Streams,
           NEW expected \in 0..MaxSeq, NEW data \in Batches,
           Begin(w, s, expected, data)
    PROVE  Inv'
<1> USE DEF Inv, Begin, reader
<1>1. StoreInv' /\ \A t : Versions(t)' = Versions(t)
  BY StoreUnchanged
<1>2. TypeOK'
  BY StoreAssumption DEF TypeOK, Call, Result, NoResult
<1>3. LockInv'
  BY DEF LockInv, TypeOK
<1>4. expected \in {0} \cup Versions(s)
  <2>1. PICK n \in 0..MaxSeq : Versions(s) = 1..n
    BY DEF StoreInv, WellFormed
  <2>2. n \in Nat /\ Cardinality(1..n) = n
    <3>1. n \in Nat
      BY StoreAssumption
    <3> QED
      BY <3>1, FS_Interval
  <2> QED
    BY <2>1, <2>2
<1>5. CallInv'
  BY <1>1, <1>4 DEF CallInv, TypeOK, Call
<1>6. InsertInv'
  BY <1>1 DEF InsertInv, TypeOK
<1>7. ReaderInv' /\ NoSkip'
  BY DEF ReaderInv, NoSkip
<1>8. Acknowledged' /\ ConflictIsReal'
  BY <1>1 DEF Acknowledged, ConflictIsReal, TypeOK, NoResult
<1> QED
  BY <1>1, <1>2, <1>3, <1>5, <1>6, <1>7, <1>8

\* Taking the advisory lock keeps the invariant: only one holder.
LEMMA LockStepInv ==
    ASSUME Inv, NEW w \in Writers, Lock(w)
    PROVE  Inv'
<1> USE DEF Inv, Lock, reader
<1>1. StoreInv' /\ \A t : Versions(t)' = Versions(t)
  BY StoreUnchanged
<1>2. TypeOK'
  BY DEF TypeOK
<1>3. LockInv'
  BY PgAssumption DEF LockInv, TypeOK
<1>4. CallInv'
  BY <1>1 DEF CallInv, TypeOK
<1>5. InsertInv'
  BY <1>1 DEF InsertInv, TypeOK
<1>6. ReaderInv' /\ NoSkip'
  BY DEF ReaderInv, NoSkip
<1>7. Acknowledged' /\ ConflictIsReal'
  BY <1>1 DEF Acknowledged, ConflictIsReal, TypeOK
<1> QED
  BY <1>1, <1>2, <1>3, <1>4, <1>5, <1>6, <1>7

\* Leaving the transaction keeps the lock with its holder only.
LEMMA EndTxLock ==
    ASSUME Inv, NEW w \in Writers, NEW status, NEW lastSeq,
           EndTx(w, status, lastSeq)
    PROVE  LockInv'
<1>1. pc \in [Writers -> {"idle", "begun", "locked", "insert"}]
      /\ lock \in Writers \cup {NoWriter} /\ LockInv
  BY DEF Inv, TypeOK
<1>2. pc' = [pc EXCEPT ![w] = "idle"]
      /\ lock' = IF lock = w THEN NoWriter ELSE lock
  BY DEF EndTx
<1>3. ASSUME NEW v \in Writers
      PROVE  pc'[v] \in {"locked", "insert"} <=> lock' = v
  <2>1. CASE v = w
    BY <1>1, <1>2, <2>1, PgAssumption
  <2>2. CASE v # w
    BY <1>1, <1>2, <2>2, PgAssumption DEF LockInv
  <2> QED
    BY <2>1, <2>2
<1> QED
  BY <1>3 DEF LockInv

\* Leaving a transaction that did not commit.
LEMMA AbortInv ==
    ASSUME Inv, NEW w \in Writers, NEW status \in {"conflict", "error"},
           EndTx(w, status, 0), UNCHANGED <<events, seqGen, reader>>,
           pc[w] # "idle",
           status = "conflict" =>
              call[w].expected + 1 \in Versions(call[w].stream)
    PROVE  Inv'
<1> USE DEF Inv, EndTx, reader
<1>1. StoreInv' /\ \A t : Versions(t)' = Versions(t)
  BY StoreUnchanged
<1>2. TypeOK'
  <2>1. result' \in [Writers -> Result]
    <3>1. [status |-> status, lastSeq |-> 0] \in Result
      BY StoreAssumption DEF Result
    <3> QED
      BY <3>1 DEF TypeOK
  <2>2. call' \in [Writers -> Call \cup {NoCall}]
    BY DEF TypeOK
  <2> QED
    BY <2>1, <2>2 DEF TypeOK
<1>3. LockInv'
  BY EndTxLock
<1>4. CallInv'
  BY <1>1 DEF CallInv, TypeOK
<1>5. InsertInv'
  <2>1. ASSUME NEW v \in Writers, v # w
        PROVE  call'[v] = call[v] /\ pc'[v] = pc[v] /\ rows'[v] = rows[v]
    BY <2>1 DEF TypeOK
  <2>2. pc'[w] = "idle" /\ rows'[w] = {}
    BY DEF TypeOK
  <2> QED
    BY <1>1, <2>1, <2>2 DEF InsertInv
<1>6. ReaderInv' /\ NoSkip'
  BY DEF ReaderInv, NoSkip
<1>7. Acknowledged'
  BY DEF Acknowledged, TypeOK
<1>8. ConflictIsReal'
  BY <1>1 DEF ConflictIsReal, TypeOK
<1> QED
  BY <1>1, <1>2, <1>3, <1>4, <1>5, <1>6, <1>7, <1>8

\* Aborting a transaction keeps the invariant: its rows never show.
LEMMA RollbackInv ==
    ASSUME Inv, NEW w \in Writers, Rollback(w)
    PROVE  Inv'
BY AbortInv DEF Rollback

\* The version check keeps the invariant: a match pins the stream's version
\* for as long as the lock is held, a mismatch is a real conflict.
LEMMA CheckVersionInv ==
    ASSUME Inv, NEW w \in Writers, CheckVersion(w)
    PROVE  Inv'
<1> DEFINE c == call[w]
<1>1. pc[w] = "locked" /\ UNCHANGED <<events, seqGen, reader>>
  BY DEF CheckVersion
<1>2. c \in Call /\ c.stream \in Streams /\ c.expected \in Nat
      /\ c.data \in Batches /\ Len(c.data) \in Nat \ {0}
  BY <1>1, ExpectedType
<1>3. PICK n \in 0..MaxSeq : Versions(c.stream) = 1..n
  BY <1>2 DEF Inv, StoreInv, WellFormed
<1>4. n \in Nat /\ Current(c.stream) = n
  BY <1>3, CurrentIsLength, StoreAssumption
<1>5. CASE c.expected = n /\ pc' = [pc EXCEPT ![w] = "insert"]
           /\ UNCHANGED <<lock, call, rows, result>>
  <2> USE DEF Inv, reader
  <2>1. StoreInv' /\ \A t : Versions(t)' = Versions(t)
    BY <1>1, StoreUnchanged
  <2>2. TypeOK'
    BY <1>1, <1>5 DEF TypeOK
  <2>3. LockInv'
    BY <1>1, <1>5 DEF LockInv, TypeOK
  <2>4. CallInv'
    BY <1>1, <1>5, <2>1 DEF CallInv, TypeOK
  <2>5. InsertInv'
    <3>1. ASSUME NEW v \in Writers, v # w
          PROVE  call'[v] = call[v] /\ pc'[v] = pc[v] /\ rows'[v] = rows[v]
      BY <3>1, <1>5 DEF TypeOK
    <3>2. rows'[w] = {} /\ pc'[w] = "insert" /\ call'[w] = c
      BY <1>1, <1>5 DEF InsertInv, TypeOK
    <3>3. Recorded(c.stream, c.expected, c.data, 0, seqGen - 0) = {}
      BY DEF Recorded
    <3>4. Cardinality({}) = 0
      BY FS_EmptySet
    <3>5. 0 \in 0..Len(c.data) /\ 0 <= seqGen
          /\ \A e \in events : e.seq <= seqGen - 0
      BY <1>2, StoreAssumption DEF ReaderInv, TypeOK
    <3>6. Versions(c.stream)' = 1..c.expected
      BY <1>3, <1>5, <2>1
    <3>7. \E k \in 0..Len(c.data) :
             /\ k <= seqGen
             /\ rows'[w] = Recorded(c.stream, c.expected, c.data, k,
                                    seqGen - k)
             /\ Cardinality(rows'[w]) = k
             /\ \A e \in events : e.seq <= seqGen - k
      BY <3>2, <3>3, <3>4, <3>5
    <3> QED
      BY <1>1, <2>1, <3>1, <3>2, <3>6, <3>7 DEF InsertInv
  <2>6. ReaderInv' /\ NoSkip'
    BY <1>1 DEF ReaderInv, NoSkip
  <2>7. Acknowledged' /\ ConflictIsReal'
    BY <1>1, <1>5, <2>1 DEF Acknowledged, ConflictIsReal, TypeOK
  <2> QED
    BY <2>1, <2>2, <2>3, <2>4, <2>5, <2>6, <2>7
<1>6. CASE c.expected # n /\ EndTx(w, "conflict", 0)
  <2>1. c.expected \in {0} \cup Versions(c.stream)
    BY <1>1 DEF Inv, CallInv
  <2>2. c.expected + 1 \in Versions(c.stream)
    BY <1>2, <1>3, <1>4, <1>6, <2>1
  <2> QED
    BY <1>1, <1>6, <2>2, AbortInv
<1> QED
  BY <1>4, <1>5, <1>6 DEF CheckVersion

\* Inserting a row keeps the invariant: the row takes the next position,
\* above everything visible and everything this call has inserted.
LEMMA InsertStepInv ==
    ASSUME Inv, NEW w \in Writers, Insert(w)
    PROVE  Inv'
<1> DEFINE c == call[w]
<1>1. pc[w] = "insert" /\ seqGen < MaxSeq /\ seqGen' = seqGen + 1
      /\ UNCHANGED <<events, lock, pc, call, result, reader>>
  BY DEF Insert
<1>2. c \in Call /\ c.stream \in Streams /\ c.expected \in Nat
      /\ c.data \in Batches /\ Len(c.data) \in Nat \ {0}
  BY <1>1, ExpectedType
<1>3. seqGen \in Nat /\ MaxSeq \in Nat /\ events \subseteq Event
  BY StoreAssumption DEF Inv, TypeOK
<1>4. PICK k \in 0..Len(c.data) :
         /\ k <= seqGen
         /\ rows[w] = Recorded(c.stream, c.expected, c.data, k, seqGen - k)
         /\ Cardinality(rows[w]) = k
         /\ \A e \in events : e.seq <= seqGen - k
  BY <1>1 DEF Inv, InsertInv
<1> DEFINE base == seqGen - k
           row == [seq |-> base + (k + 1), stream |-> c.stream,
                   version |-> c.expected + (k + 1), data |-> c.data[k + 1]]
<1>5. k \in Nat /\ base \in Nat /\ base + (k + 1) = seqGen + 1
      /\ k + 1 <= seqGen' /\ seqGen' - (k + 1) = base
  BY <1>1, <1>2, <1>3, <1>4
<1>6. rows' = [rows EXCEPT ![w] = @ \cup {row}] /\ k + 1 <= Len(c.data)
  BY <1>4, <1>5 DEF Insert
<1>7. c.expected <= base
  BY <1>1, <1>2, <1>4, <1>5, VersionBelowSeq DEF Inv, InsertInv
<1>8. rows'[w] = rows[w] \cup {row} /\ \A v \in Writers \ {w} : rows'[v] = rows[v]
  BY <1>6 DEF Inv, TypeOK
<1>9. rows'[w] = Recorded(c.stream, c.expected, c.data, k + 1, base)
      /\ row \notin rows[w]
  <2> DEFINE r(i) == [seq |-> base + i, stream |-> c.stream,
                      version |-> c.expected + i, data |-> c.data[i]]
  <2>1. {r(i) : i \in 1..(k + 1)} = {r(i) : i \in 1..k} \cup {r(k + 1)}
    <3>1. 1..(k + 1) = 1..k \cup {k + 1}
      BY <1>5
    <3> QED
      BY <3>1
  <2>2. ASSUME NEW i \in 1..k PROVE r(i) # r(k + 1)
    <3>1. base + i # base + (k + 1)
      BY <1>5
    <3>2. r(i).seq = base + i /\ r(k + 1).seq = base + (k + 1)
      OBVIOUS
    <3> QED
      BY <3>1, <3>2
  <2>3. r(k + 1) \notin {r(i) : i \in 1..k}
    BY <2>2
  <2>4. rows[w] = {r(i) : i \in 1..k}
    BY <1>4 DEF Recorded
  <2> QED
    BY <1>8, <2>1, <2>3, <2>4 DEF Recorded
<1>10. k + 1 \in 0..Len(c.data)
  BY <1>2, <1>5, <1>6
<1>11. base + (k + 1) <= MaxSeq
  BY <1>1, <1>3, <1>5
<1>12. rows'[w] \subseteq Event
  BY <1>2, <1>5, <1>7, <1>9, <1>10, <1>11, RecordedType
<1>13. Cardinality(rows'[w]) = k + 1
  <2>1. base + k <= MaxSeq
    BY <1>3, <1>5, <1>11
  <2>2. IsFiniteSet(rows[w])
    BY <1>2, <1>4, <1>5, <1>7, <2>1, RecordedType
  <2>3. Cardinality(rows[w] \cup {row}) = Cardinality(rows[w]) + 1
    <3> HIDE DEF row
    <3> QED
      BY <1>9, <2>2, FS_AddElement
  <2> QED
    BY <1>4, <1>8, <2>3
<1>14. \A e \in events : e.seq <= base
  BY <1>4
<1> USE DEF Inv, reader
<1>15. StoreInv' /\ \A t : Versions(t)' = Versions(t)
  BY <1>1, StoreUnchanged
<1>16. TypeOK'
  <2>1. seqGen' \in 0..MaxSeq
    BY <1>1, <1>3
  <2>2. rows' \in [Writers -> SUBSET Event]
    BY <1>6, <1>8, <1>12 DEF TypeOK
  <2> QED
    BY <1>1, <2>1, <2>2 DEF TypeOK
<1>17. LockInv' /\ CallInv'
  BY <1>1, <1>15 DEF LockInv, CallInv
<1>18. InsertInv'
  <2>1. ASSUME NEW v \in Writers \ {w} PROVE pc'[v] # "insert" /\ rows'[v] = {}
    BY <1>1, <1>8 DEF LockInv, InsertInv
  <2>2. Versions(c.stream)' = 1..c.expected
    BY <1>1, <1>15 DEF InsertInv
  <2>3. \E m \in 0..Len(c.data) :
           /\ m <= seqGen'
           /\ rows'[w] = Recorded(c.stream, c.expected, c.data, m,
                                  seqGen' - m)
           /\ Cardinality(rows'[w]) = m
           /\ \A e \in events : e.seq <= seqGen' - m
    BY <1>5, <1>9, <1>10, <1>13, <1>14
  <2>4. pc'[w] = "insert" /\ call'[w] = c /\ events' = events
    BY <1>1
  <2> QED
    BY <2>1, <2>2, <2>3, <2>4 DEF InsertInv
<1>19. ReaderInv' /\ NoSkip'
  BY <1>1, <1>3 DEF ReaderInv, NoSkip, Event
<1>20. Acknowledged' /\ ConflictIsReal'
  BY <1>1, <1>15 DEF Acknowledged, ConflictIsReal
<1> QED
  BY <1>15, <1>16, <1>17, <1>18, <1>19, <1>20

\* A commit is an append of the port: everything at once, on top.
LEMMA CommitAppends ==
    ASSUME Inv, NEW w \in Writers, Commit(w)
    PROVE  LET c == call[w]
               base == seqGen - Len(c.data)
           IN /\ c \in Call
              /\ base \in 0..MaxSeq
              /\ rows[w] = Recorded(c.stream, c.expected, c.data,
                                    Len(c.data), base)
              /\ AppendEvents(c.stream, c.expected, c.data, base)
<1> DEFINE c == call[w]
<1>1. pc[w] = "insert" /\ events' = events \cup rows[w]
      /\ Cardinality(rows[w]) = Len(c.data)
  BY DEF Commit
<1>2. c \in Call /\ c.stream \in Streams /\ c.expected \in Nat
      /\ c.data \in Batches /\ Len(c.data) \in Nat \ {0}
  BY <1>1, ExpectedType
<1>3. /\ Len(c.data) <= seqGen
      /\ rows[w] = Recorded(c.stream, c.expected, c.data, Len(c.data),
                            seqGen - Len(c.data))
      /\ \A e \in events : e.seq <= seqGen - Len(c.data)
  BY <1>1 DEF Inv, InsertInv
<1>4. Versions(c.stream) = 1..c.expected
  BY <1>1 DEF Inv, InsertInv
<1>5. seqGen \in 0..MaxSeq /\ MaxSeq \in Nat
  BY StoreAssumption DEF Inv, TypeOK
<1>6. seqGen - Len(c.data) \in 0..MaxSeq
      /\ (seqGen - Len(c.data)) + Len(c.data) <= MaxSeq
  BY <1>2, <1>3, <1>5
<1> QED
  BY <1>1, <1>2, <1>3, <1>4, <1>6 DEF AppendEvents

\* Committing keeps the invariant: the rows become visible above the
\* reader, so the reader has skipped nothing.
LEMMA CommitInv ==
    ASSUME Inv, NEW w \in Writers, Commit(w)
    PROVE  Inv'
<1> DEFINE c == call[w]
           n == Len(c.data)
           base == seqGen - n
<1>1. pc[w] = "insert" /\ events' = events \cup rows[w]
      /\ UNCHANGED <<seqGen, reader>>
  BY DEF Commit
<1>2. PICK status \in {"ok", "error"}, lastSeq \in 0..MaxSeq :
         /\ EndTx(w, status, lastSeq)
         /\ status = "ok" => \E last \in rows[w] :
               last.seq = lastSeq /\ \A r \in rows[w] : r.seq <= last.seq
  <2>1. rows[w] \subseteq Event /\ 0 \in 0..MaxSeq
    BY StoreAssumption DEF Inv, TypeOK
  <2>2. \A r \in rows[w] : r.seq \in 0..MaxSeq
    BY <2>1 DEF Event
  <2> QED
    BY <2>1, <2>2 DEF Commit
<1>3. c \in Call /\ c.stream \in Streams /\ c.expected \in Nat
      /\ c.data \in Batches /\ n \in Nat \ {0}
  BY <1>1, ExpectedType
<1>4. /\ base \in 0..MaxSeq
      /\ rows[w] = Recorded(c.stream, c.expected, c.data, n, base)
      /\ AppendEvents(c.stream, c.expected, c.data, base)
  BY CommitAppends
<1>5. c.expected \in 0..MaxSeq
  BY <1>3 DEF Call
<1>6. StoreInv'
  BY <1>3, <1>4, <1>5, AppendStep DEF Inv
<1>7. seqGen \in Nat /\ seqGen = base + n /\ base \in Nat
  BY <1>3, <1>4, StoreAssumption DEF Inv, TypeOK
<1>8. \A e \in events : e.seq <= base
  BY <1>4 DEF AppendEvents
<1>9. ASSUME NEW r \in rows[w] PROVE base < r.seq /\ r.seq <= seqGen
  <2>1. PICK i \in 1..n : r = [seq |-> base + i, stream |-> c.stream,
                               version |-> c.expected + i, data |-> c.data[i]]
    BY <1>4 DEF Recorded
  <2>2. r.seq = base + i /\ i \in 1..n
    BY <2>1
  <2>3. n \in Nat
    BY <1>3
  <2> HIDE DEF base, n
  <2> QED
    BY <1>7, <2>2, <2>3
<1>10. ASSUME NEW v \in Writers, v # w
       PROVE  /\ pc'[v] = pc[v] /\ call'[v] = call[v] /\ rows'[v] = rows[v]
              /\ result'[v] = result[v]
              /\ pc[v] # "insert" /\ rows[v] = {}
  <2>1. pc'[v] = pc[v] /\ call'[v] = call[v] /\ rows'[v] = rows[v]
        /\ result'[v] = result[v]
    BY <1>2, <1>10 DEF EndTx, Inv, TypeOK
  <2>2. pc[v] # "insert"
    BY <1>1, <1>10 DEF Inv, LockInv
  <2> QED
    BY <2>1, <2>2 DEF Inv, InsertInv
<1>11. /\ pc'[w] = "idle" /\ rows'[w] = {}
       /\ result'[w] = [status |-> status, lastSeq |-> lastSeq]
       /\ status = "ok" => call'[w] = c
  BY <1>2 DEF EndTx, Inv, TypeOK
<1> USE DEF Inv, reader
<1>12. TypeOK'
  <2>1. [status |-> status, lastSeq |-> lastSeq] \in Result
    BY DEF Result
  <2>2. result' \in [Writers -> Result]
    BY <1>2, <2>1 DEF EndTx, TypeOK
  <2>3. call' \in [Writers -> Call \cup {NoCall}]
    BY <1>2 DEF EndTx, TypeOK
  <2> QED
    BY <1>1, <1>2, <2>2, <2>3 DEF EndTx, TypeOK
<1>13. LockInv'
  BY <1>2, EndTxLock
<1>14. \A s : Versions(s) \subseteq Versions(s)'
  BY <1>1, VersionsGrow
<1>15. CallInv'
  BY <1>10, <1>11, <1>14 DEF CallInv
<1>16. InsertInv'
  BY <1>10, <1>11 DEF InsertInv
<1>17. ReaderInv'
  BY <1>1, <1>9 DEF ReaderInv
<1>18. NoSkip'
  <2>1. cursor <= base
    BY <1>7, <1>8 DEF ReaderInv
  <2>2. \A r \in rows[w] : ~(r.seq <= cursor)
    <3>1. \A r \in rows[w] : r.seq \in Int
      BY DEF TypeOK, Event
    <3> QED
      BY <1>7, <1>9, <2>1, <3>1 DEF TypeOK
  <2> QED
    BY <1>1, <2>2 DEF NoSkip
<1>19. Acknowledged'
  <2>1. ASSUME NEW v \in Writers, v # w, pc'[v] = "idle",
               result'[v].status = "ok"
        PROVE  LET d == call'[v] IN
               Recorded(d.stream, d.expected, d.data, Len(d.data),
                        result'[v].lastSeq - Len(d.data)) \subseteq events'
    BY <1>1, <1>10, <2>1 DEF Acknowledged
  <2>2. ASSUME status = "ok"
        PROVE  Recorded(c.stream, c.expected, c.data, n, lastSeq - n)
                  \subseteq events'
    <3>1. lastSeq = base + n
      <4>1. PICK last \in rows[w] :
               last.seq = lastSeq /\ \A r \in rows[w] : r.seq <= last.seq
        BY <1>2, <2>2
      <4> DEFINE top == [seq |-> base + n, stream |-> c.stream,
                         version |-> c.expected + n, data |-> c.data[n]]
      <4>2. top \in rows[w] /\ top.seq = base + n
        <5>1. n \in 1..n
          BY <1>3
        <5>2. top \in Recorded(c.stream, c.expected, c.data, n, base)
          BY <5>1 DEF Recorded
        <5> QED
          BY <1>4, <5>2
      <4>3. base + n <= lastSeq
        BY <4>1, <4>2
      <4>4. lastSeq <= base + n
        BY <4>1, <1>7, <1>9
      <4> QED
        BY <4>3, <4>4, <1>3, <1>7, StoreAssumption
    <3>2. lastSeq - n = base
      BY <3>1, <1>3, <1>7
    <3> QED
      BY <1>1, <1>4, <3>2
  <2> QED
    BY <1>11, <2>1, <2>2 DEF Acknowledged
<1>20. ConflictIsReal'
  BY <1>10, <1>11, <1>14 DEF ConflictIsReal
<1> QED
  BY <1>6, <1>12, <1>13, <1>15, <1>16, <1>17, <1>18, <1>19, <1>20

\* A poll keeps the invariant: the reader moves to the last event of a
\* batch that has no hole.
LEMMA PollInv ==
    ASSUME Inv, Poll
    PROVE  Inv'
<1> DEFINE batch == ReadAll(cursor, Limit)
<1>1. PICK last \in batch : /\ \A e \in batch : e.seq <= last.seq
                            /\ cursor' = last.seq
                            /\ seen' = seen \cup batch
                            /\ UNCHANGED <<events, tx>>
  BY DEF Poll
<1>2. batch \subseteq events /\ events \subseteq Event /\ last.seq > cursor
  BY DEF ReadAll, Inv, TypeOK
<1>3. cursor \in Nat /\ Limit \in Nat
  BY StoreAssumption, PgAssumption DEF Inv, TypeOK
<1>4. NoSkip'
  <2>1. ASSUME NEW e \in events, e.seq <= last.seq, ~(e.seq <= cursor)
        PROVE  e \in batch
    <3>1. cursor < e.seq
      BY <1>2, <1>3, <2>1 DEF Event
    <3> QED
      BY <1>3, <2>1, <3>1, ReadAllClosed DEF Inv
  <2> QED
    BY <1>1, <2>1 DEF Inv, NoSkip
<1> USE DEF Inv, tx
<1>5. StoreInv' /\ \A t : Versions(t)' = Versions(t)
  BY <1>1, StoreUnchanged
<1>6. TypeOK'
  <2>1. last.seq \in 0..MaxSeq
    BY <1>2, StoreAssumption DEF Event
  <2> QED
    BY <1>1, <1>2, <2>1 DEF TypeOK
<1>7. LockInv' /\ CallInv' /\ InsertInv'
  BY <1>1, <1>5 DEF LockInv, CallInv, InsertInv
<1>8. ReaderInv'
  BY <1>1, <1>2 DEF ReaderInv
<1>9. Acknowledged' /\ ConflictIsReal'
  BY <1>1, <1>5 DEF Acknowledged, ConflictIsReal
<1> QED
  BY <1>4, <1>5, <1>6, <1>7, <1>8, <1>9

-----------------------------------------------------------------------------
\* Every step keeps the inductive invariant.
LEMMA NextInv == Inv /\ [Next]_vars => Inv'
<1> SUFFICES ASSUME Inv, [Next]_vars PROVE Inv'
  OBVIOUS
<1>1. CASE Poll
  BY <1>1, PollInv
<1>2. ASSUME NEW w \in Writers, WriterNext(w) PROVE Inv'
  <2>1. CASE \E s \in Streams, expected \in 0..MaxSeq, data \in Batches :
                Begin(w, s, expected, data)
    BY <2>1, BeginInv
  <2>2. CASE Lock(w)
    BY <2>2, LockStepInv
  <2>3. CASE CheckVersion(w)
    BY <2>3, CheckVersionInv
  <2>4. CASE Insert(w)
    BY <2>4, InsertStepInv
  <2>5. CASE Commit(w)
    BY <2>5, CommitInv
  <2>6. CASE Rollback(w)
    BY <2>6, RollbackInv
  <2>7. CASE Exhausted(w)
    BY <2>7, RollbackInv DEF Exhausted
  <2> QED
    BY <1>2, <2>1, <2>2, <2>3, <2>4, <2>5, <2>6, <2>7 DEF WriterNext
<1>3. CASE UNCHANGED vars
  <2> USE <1>3 DEF Inv, vars, tx, reader
  <2>1. StoreInv' /\ \A t : Versions(t)' = Versions(t)
    BY StoreUnchanged
  <2>2. TypeOK' /\ LockInv' /\ CallInv' /\ InsertInv'
    BY <2>1 DEF TypeOK, LockInv, CallInv, InsertInv
  <2>3. ReaderInv' /\ NoSkip' /\ Acknowledged' /\ ConflictIsReal'
    BY <2>1 DEF ReaderInv, NoSkip, Acknowledged, ConflictIsReal
  <2> QED
    BY <2>1, <2>2, <2>3
<1> QED
  BY <1>1, <1>2, <1>3 DEF Next

\* The inductive invariant of the Postgres adapter: every step of Append
\* and of a tailing reader keeps it.
THEOREM Invariance == Spec => []Inv
  BY InitInv, NextInv, PTL DEF Spec

\* Type correctness of the Postgres store.
THEOREM TypeCorrect == Spec => []TypeOK
<1>1. Inv => TypeOK
  BY DEF Inv
<1> QED
  BY <1>1, Invariance, PTL

(***************************************************************************)
(* Tailing by GlobalSeq never skips an event, however writers interleave,  *)
(* roll back, die or lose the answer to their commit.                      *)
(***************************************************************************)
THEOREM TailingNeverSkips == Spec => []NoSkip
<1>1. Inv => NoSkip
  BY DEF Inv
<1> QED
  BY <1>1, Invariance, PTL

\* An acknowledged append is visible, whole, at the returned position.
THEOREM AcknowledgedIsVisible == Spec => []Acknowledged
<1>1. Inv => Acknowledged
  BY DEF Inv
<1> QED
  BY <1>1, Invariance, PTL

\* A version conflict is reported only if the stream moved on.
THEOREM ConflictsAreReal == Spec => []ConflictIsReal
<1>1. Inv => ConflictIsReal
  BY DEF Inv
<1> QED
  BY <1>1, Invariance, PTL

(***************************************************************************)
(* The Postgres store implements the event-store port: a commit is an      *)
(* append on top of everything visible, any other step changes nothing a   *)
(* reader can see.                                                         *)
(***************************************************************************)
THEOREM ImplementsPort == Spec => PortSpec
<1>1. Init => StoreInit
  BY DEF Init
<1>2. Inv /\ [Next]_vars => [StoreNext]_events
  <2> SUFFICES ASSUME Inv, [Next]_vars PROVE [StoreNext]_events
    OBVIOUS
  <2>1. ASSUME NEW w \in Writers, Commit(w) PROVE StoreNext
    <3>1. LET c == call[w] IN
          /\ c \in Call
          /\ seqGen - Len(c.data) \in 0..MaxSeq
          /\ AppendEvents(c.stream, c.expected, c.data,
                          seqGen - Len(c.data))
      BY <2>1, CommitAppends
    <3> QED
      BY <3>1 DEF StoreNext, Call
  <2>2. ASSUME NEW w \in Writers, WriterNext(w), ~Commit(w)
        PROVE  UNCHANGED events
    BY <2>2 DEF WriterNext, Begin, Lock, CheckVersion, Insert, Rollback,
                Exhausted
  <2>3. CASE Poll
    BY <2>3 DEF Poll
  <2>4. CASE UNCHANGED vars
    BY <2>4 DEF vars
  <2> QED
    BY <2>1, <2>2, <2>3, <2>4 DEF Next
<1> QED
  BY <1>1, <1>2, Invariance, PTL DEF Spec, StoreSpec, PortSpec
=============================================================================
