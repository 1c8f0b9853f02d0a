--------------------------- MODULE ReadSideProofs ---------------------------
(***************************************************************************)
(* The read side of a service.  First, the inbox keeps each acknowledged   *)
(* message exactly once, and, when something serializes its writers, its   *)
(* reader passes nothing it has not handed to a handler: for any number of *)
(* topics and any feeds.  Then, the order summary that is fed from it      *)
(* shows the highest fact applied, and the notifications it leads to are   *)
(* recorded once: for any histories of the inbox and any notifiers.        *)
(***************************************************************************)
EXTENDS Inbox, OrderSummary, FiniteSetTheorems, TLAPS

\* Types of the quantities that are compared.
LEMMA Types ==
    ASSUME Inv
    PROVE  /\ seqGen \in Nat /\ seq \in Nat /\ checkpoint \in Nat
           /\ \A r \in Row : r.seq \in Nat \ {0} /\ r.id \in Ids
           /\ rows \subseteq Row
           /\ \A t \in Topics : open[t] \subseteq Row
<1>1. MaxSeq \in Nat
  BY InboxAssumption
<1>2. \A r \in Row : r.seq \in Nat \ {0} /\ r.id \in Ids
  BY <1>1 DEF Row
<1> QED
  BY <1>1, <1>2 DEF Inv, TypeOK

\* Nothing has been passed at position 0.
LEMMA NothingBelowZero ==
    ASSUME Inv
    PROVE  Passed(0)
BY Types DEF Passed

\* A read returns visible rows above the position, and leaves out none that
\* lies below one it returns.
LEMMA ReadAllClosed ==
    ASSUME Inv
    PROVE  /\ ReadAll(seq) \subseteq rows
           /\ \A r \in ReadAll(seq) : r.seq > seq
           /\ \A r \in ReadAll(seq), q \in rows :
                 seq < q.seq /\ q.seq <= r.seq => q \in ReadAll(seq)
<1>1. ReadAll(seq) \subseteq rows /\ \A r \in ReadAll(seq) : r.seq > seq
  BY DEF ReadAll
<1>2. ASSUME NEW r \in ReadAll(seq), NEW q \in rows, seq < q.seq,
             q.seq <= r.seq
      PROVE  q \in ReadAll(seq)
  <2> DEFINE upTo(g) == {h \in rows : seq < h.seq /\ h.seq <= g.seq}
  <2>1. r \in rows /\ Cardinality(upTo(r)) <= BatchSize
    BY DEF ReadAll
  <2>2. IsFiniteSet(upTo(r))
    BY FS_Subset DEF Inv, TypeOK
  <2>3. upTo(q) \subseteq upTo(r)
    BY <1>2, <2>1, Types
  <2>4. /\ Cardinality(upTo(q)) <= Cardinality(upTo(r))
        /\ Cardinality(upTo(q)) \in Nat /\ Cardinality(upTo(r)) \in Nat
    BY <2>2, <2>3, FS_Subset, FS_CardinalityType
  <2>5. Cardinality(upTo(q)) <= BatchSize
    BY <2>1, <2>4, InboxAssumption
  <2> QED
    BY <1>2, <2>5 DEF ReadAll
<1> QED
  BY <1>1, <1>2

\* An empty inbox satisfies the invariant.
LEMMA InitInv == Init => Inv
<1> SUFFICES ASSUME Init PROVE Inv
  OBVIOUS
<1> USE DEF Init
<1>1. IsFiniteSet({})
  BY FS_EmptySet
<1>2. TypeOK
  BY <1>1, InboxAssumption, FaultsAssumption DEF TypeOK
<1>3. WriterInv /\ StoredOnce
  BY <1>1 DEF WriterInv, StoredOnce
<1>4. OrderInv /\ ReaderInv
  BY DEF OrderInv, ReaderInv, Passed
<1> QED
  BY <1>2, <1>3, <1>4 DEF Inv

-----------------------------------------------------------------------------
\* A writer's step that makes nothing visible leaves the reader alone.
LEMMA WriterStep ==
    ASSUME Inv, UNCHANGED <<rows, reader>>, TypeOK', WriterInv', StoredOnce',
           Serialized => OrderInv'
    PROVE  Inv'
<1>1. ReaderInv => ReaderInv'
  BY DEF ReaderInv, Passed, reader
<1> QED
  BY <1>1 DEF Inv

\* A statement inserts a row with a number and an ID of its own, or finds
\* the message stored.
LEMMA InsertInv ==
    ASSUME Inv, NEW t \in Topics, Insert(t)
    PROVE  Inv'
<1> DEFINE id == Feed[t][offset[t]]
           new == [seq |-> seqGen + 1, id |-> id]
<1>1. /\ writer[t] = "idle" /\ offset[t] <= Len(Feed[t])
      /\ Serialized => \A u \in Topics : writer[u] # "inserted"
      /\ seqGen < MaxSeq
      /\ \A u \in Topics : \A r \in open[u] : r.id # id
      /\ seqGen' \in {seqGen, seqGen + 1}
      /\ ~Known(id) => seqGen' = seqGen + 1
      /\ open' = [open EXCEPT ![t] = IF Known(id) THEN {} ELSE {new}]
      /\ writer' = [writer EXCEPT ![t] = "inserted"]
      /\ UNCHANGED <<rows, offset, reader, faults>>
  BY DEF Insert, Deliverable, Exclusive
<1>2. id \in Ids
  <2>1. offset[t] \in Nat \ {0} /\ Feed[t] \in Seq(Ids)
    BY InboxAssumption DEF Inv, TypeOK
  <2> QED
    BY <1>1, <2>1
<1>3. seqGen \in Nat /\ MaxSeq \in Nat
  BY Types, InboxAssumption
<1>4. new \in Row /\ new.seq = seqGen + 1 /\ new.id = id
  BY <1>1, <1>2, <1>3 DEF Row
<1> HIDE DEF id, new
<1>5. /\ open'[t] = IF Known(id) THEN {} ELSE {new}
      /\ \A u \in Topics \ {t} : open'[u] = open[u] /\ writer'[u] = writer[u]
      /\ writer'[t] = "inserted"
  BY <1>1 DEF Inv, TypeOK
<1>6. TypeOK'
  <2>1. seqGen' \in 0..MaxSeq
    BY <1>1, <1>3
  <2> QED
    BY <1>1, <1>4, <2>1 DEF Inv, TypeOK, reader
<1>7. WriterInv'
  <2>1. ASSUME NEW u \in Topics
        PROVE  /\ IsFiniteSet(open'[u])
               /\ writer'[u] # "inserted" => open'[u] = {}
               /\ writer'[u] # "idle" =>
                     \E r \in rows \cup open'[u] : r.id = Feed[u][offset[u]]
               /\ \A r \in open'[u] : r.seq <= seqGen' /\ ~Known(r.id)
    <3>1. CASE u = t /\ Known(id)
      BY <1>5, <3>1, FS_EmptySet DEF Known, id
    <3>2. CASE u = t /\ ~Known(id)
      <4>1. open'[u] = {new} /\ new.id = id /\ seqGen' = seqGen + 1
        BY <1>1, <1>4, <1>5, <3>2
      <4>2. IsFiniteSet({new})
        BY FS_Singleton
      <4>3. new.seq <= seqGen'
        BY <1>3, <1>4, <4>1
      <4> QED
        BY <1>5, <3>2, <4>1, <4>2, <4>3 DEF id
    <3>3. CASE u # t
      <4>1. \A r \in open[u] : r.seq <= seqGen /\ r.seq \in Nat
        BY Types DEF Inv, WriterInv
      <4>2. \A r \in open[u] : r.seq <= seqGen'
        BY <1>1, <1>3, <4>1
      <4> QED
        BY <1>5, <3>3, <4>2 DEF Inv, WriterInv
    <3> QED
      BY <3>1, <3>2, <3>3
  <2>2. ASSUME NEW u \in Topics, NEW v \in Topics, NEW r \in open'[u],
               NEW q \in open'[v], r.id = q.id
        PROVE  u = v /\ r = q
    <3>1. \A w \in Topics : \A h \in open'[w] :
             \/ w # t /\ h \in open[w] /\ h.id # id
             \/ w = t /\ h = new /\ h.id = id
      BY <1>1, <1>4, <1>5
    <3> QED
      BY <2>2, <3>1 DEF Inv, WriterInv
  <2>3. \A r \in rows : r.seq <= seqGen'
    <3>1. \A r \in rows : r.seq <= seqGen /\ r.seq \in Nat
      BY Types DEF Inv, WriterInv
    <3> QED
      BY <1>1, <1>3, <3>1
  <2> QED
    BY <1>1, <2>1, <2>2, <2>3 DEF WriterInv, Known
<1>8. StoredOnce'
  BY <1>1 DEF Inv, StoredOnce
<1>9. ASSUME Serialized PROVE OrderInv'
  <2>1. \A u \in Topics : open[u] = {}
    BY <1>1, <1>9 DEF Inv, WriterInv
  <2>2. \A r \in rows : r.seq < new.seq
    <3>1. \A r \in rows : r.seq <= seqGen /\ r.seq \in Nat
      BY Types DEF Inv, WriterInv
    <3> QED
      BY <1>3, <1>4, <3>1
  <2> QED
    BY <1>1, <1>5, <1>9, <2>1, <2>2 DEF OrderInv
<1> QED
  BY <1>1, <1>6, <1>7, <1>8, <1>9, WriterStep

\* The inserted row becomes visible, above all visible ones if the writers
\* are serialized.
LEMMA CommitInv ==
    ASSUME Inv, NEW t \in Topics, Commit(t)
    PROVE  Inv'
<1>1. /\ writer[t] = "inserted"
      /\ rows' = rows \cup open[t]
      /\ open' = [open EXCEPT ![t] = {}]
      /\ writer' = [writer EXCEPT ![t] = "stored"]
      /\ UNCHANGED <<seqGen, offset, pc, seq, batch, pending, checkpoint,
                     handled, faults>>
  BY DEF Commit, reader
<1>2. /\ open'[t] = {} /\ writer'[t] = "stored"
      /\ \A u \in Topics \ {t} : open'[u] = open[u] /\ writer'[u] = writer[u]
  BY <1>1 DEF Inv, TypeOK
<1>3. TypeOK'
  <2>1. IsFiniteSet(rows')
    BY <1>1, FS_Union DEF Inv, TypeOK, WriterInv
  <2> QED
    BY <1>1, <2>1 DEF Inv, TypeOK
<1>4. WriterInv'
  <2>1. ASSUME NEW u \in Topics
        PROVE  /\ IsFiniteSet(open'[u])
               /\ writer'[u] # "inserted" => open'[u] = {}
               /\ writer'[u] # "idle" =>
                     \E r \in rows' \cup open'[u] : r.id = Feed[u][offset[u]]
               /\ \A r \in open'[u] : r.seq <= seqGen
                                      /\ \A q \in rows' : q.id # r.id
    <3>1. CASE u = t
      BY <1>1, <1>2, <3>1, FS_EmptySet DEF Inv, WriterInv
    <3>2. CASE u # t
      BY <1>1, <1>2, <3>2 DEF Inv, WriterInv, Known
    <3> QED
      BY <3>1, <3>2
  <2>2. \A r \in rows' : r.seq <= seqGen
    BY <1>1 DEF Inv, WriterInv
  <2>3. \A u, v \in Topics : \A r \in open'[u], q \in open'[v] :
           r.id = q.id => u = v /\ r = q
    BY <1>2 DEF Inv, WriterInv
  <2> QED
    BY <1>1, <2>1, <2>2, <2>3 DEF WriterInv, Known
<1>5. StoredOnce'
  <2>1. \A r, q \in rows' : r.id = q.id => r = q
    BY <1>1 DEF Inv, WriterInv, StoredOnce, Known
  <2> QED
    BY <1>1, <2>1 DEF Inv, StoredOnce
<1>6. ASSUME Serialized PROVE OrderInv' /\ ReaderInv'
  <2>1. OrderInv /\ ReaderInv
    BY <1>6 DEF Inv
  <2>2. \A u \in Topics : open'[u] = {}
    BY <1>1, <1>2, <2>1 DEF OrderInv, Inv, WriterInv
  <2>3. OrderInv'
    BY <1>1, <1>2, <2>1, <2>2 DEF OrderInv
  <2>4. \A r \in open[t], q \in rows : q.seq < r.seq
    BY <2>1 DEF OrderInv
  <2>5. ASSUME NEW p \in Nat, Passed(p)
        PROVE  /\ p = 0 \/ \E r \in rows' : r.seq = p
               /\ \A r \in rows' : r.seq <= p => r.id \in handled
    <3>1. \A r \in open[t] : ~(r.seq <= p)
      BY <2>4, <2>5, Types DEF Passed
    <3> QED
      BY <1>1, <2>5, <3>1 DEF Passed
  <2>6. Passed(checkpoint)' /\ Passed(seq)'
    BY <1>1, <2>1, <2>5, Types DEF ReaderInv, Passed
  <2>7. \A r \in batch, q \in rows' :
           seq < q.seq /\ q.seq <= r.seq => q \in batch
    <3>1. \A r \in batch, q \in open[t] : ~(q.seq <= r.seq)
      BY <2>1, <2>4, Types DEF ReaderInv
    <3> QED
      BY <1>1, <2>1, <3>1 DEF ReaderInv
  <2> QED
    BY <1>1, <2>1, <2>3, <2>6, <2>7 DEF ReaderInv
<1> QED
  BY <1>3, <1>4, <1>5, <1>6 DEF Inv

\* An acknowledged message is stored.
LEMMA AckInv ==
    ASSUME Inv, NEW t \in Topics, Ack(t)
    PROVE  Inv'
<1>1. /\ writer[t] = "stored"
      /\ offset' = [offset EXCEPT ![t] = @ + 1]
      /\ writer' = [writer EXCEPT ![t] = "idle"]
      /\ UNCHANGED <<rows, seqGen, open, reader, faults>>
  BY DEF Ack
<1>2. /\ offset'[t] = offset[t] + 1 /\ writer'[t] = "idle"
      /\ \A u \in Topics \ {t} : /\ offset'[u] = offset[u]
                                 /\ writer'[u] = writer[u]
      /\ offset[t] \in Nat \ {0}
  BY <1>1 DEF Inv, TypeOK
<1>3. TypeOK'
  BY <1>1, <1>2 DEF Inv, TypeOK, reader
<1>4. open[t] = {} /\ \E r \in rows : r.id = Feed[t][offset[t]]
  BY <1>1 DEF Inv, WriterInv
<1>5. WriterInv'
  BY <1>1, <1>2, <1>4 DEF Inv, WriterInv, Known
<1>6. StoredOnce'
  <2> SUFFICES ASSUME NEW u \in Topics, NEW i \in 1..(offset'[u] - 1)
               PROVE  \E r \in rows : r.id = Feed[u][i]
    BY <1>1 DEF Inv, StoredOnce
  <2>1. CASE u = t /\ i = offset[t]
    BY <1>4, <2>1
  <2>2. CASE ~(u = t /\ i = offset[t])
    <3>1. i \in 1..(offset[u] - 1)
      BY <1>2, <2>2
    <3> QED
      BY <3>1 DEF Inv, StoredOnce
  <2> QED
    BY <2>1, <2>2
<1>7. OrderInv => OrderInv'
  BY <1>1, <1>2 DEF OrderInv
<1> QED
  BY <1>1, <1>3, <1>5, <1>6, <1>7, WriterStep DEF Inv

\* A writer that fails takes its uncommitted row with it.
LEMMA WriterFailsInv ==
    ASSUME Inv, NEW t \in Topics, WriterFails(t)
    PROVE  Inv'
<1>1. /\ faults < MaxFaults /\ faults' = faults + 1
      /\ open' = [open EXCEPT ![t] = {}]
      /\ writer' = [writer EXCEPT ![t] = "idle"]
      /\ UNCHANGED <<rows, seqGen, offset, reader>>
  BY DEF WriterFails, Fault
<1>2. /\ open'[t] = {} /\ writer'[t] = "idle"
      /\ \A u \in Topics \ {t} : open'[u] = open[u] /\ writer'[u] = writer[u]
  BY <1>1 DEF Inv, TypeOK
<1>3. TypeOK'
  BY <1>1, InboxAssumption, FaultsAssumption DEF Inv, TypeOK, reader
<1>4. WriterInv'
  BY <1>1, <1>2, FS_EmptySet DEF Inv, WriterInv, Known
<1>5. StoredOnce'
  BY <1>1 DEF Inv, StoredOnce
<1>6. OrderInv => OrderInv'
  BY <1>1, <1>2 DEF OrderInv
<1> QED
  BY <1>1, <1>3, <1>4, <1>5, <1>6, WriterStep DEF Inv

-----------------------------------------------------------------------------
\* A step of the reader leaves the writers alone.
LEMMA ReaderStep ==
    ASSUME Inv, UNCHANGED writers, TypeOK', Serialized => ReaderInv'
    PROVE  Inv'
<1> USE DEF writers
<1>1. WriterInv'
  BY DEF Inv, WriterInv, Known
<1>2. StoredOnce' /\ (OrderInv => OrderInv')
  BY DEF Inv, StoredOnce, OrderInv
<1> QED
  BY <1>1, <1>2 DEF Inv

\* The reader starts at the checkpoint.
LEMMA StartInv ==
    ASSUME Inv, Start
    PROVE  Inv'
<1> USE DEF Start
<1>1. TypeOK'
  BY DEF Inv, TypeOK, writers
<1>2. ASSUME Serialized PROVE ReaderInv'
  BY <1>2 DEF Inv, ReaderInv, Passed, writers
<1> QED
  BY <1>1, <1>2, ReaderStep

\* A batch continues the position without a hole.
LEMMA ReadInv ==
    ASSUME Inv, Read
    PROVE  Inv'
<1>1. /\ pc' = "handle" /\ batch' = ReadAll(seq) /\ pending' = ReadAll(seq)
      /\ UNCHANGED <<rows, seqGen, offset, writer, open, seq, checkpoint,
                     handled, faults>>
  BY DEF Read, writers
<1>2. /\ ReadAll(seq) \subseteq rows
      /\ \A r \in ReadAll(seq) : r.seq > seq
      /\ \A r \in ReadAll(seq), q \in rows :
            seq < q.seq /\ q.seq <= r.seq => q \in ReadAll(seq)
  BY ReadAllClosed
<1>3. TypeOK'
  BY <1>1, <1>2 DEF Inv, TypeOK
<1>4. ASSUME Serialized PROVE ReaderInv'
  <2>1. Passed(checkpoint)' /\ Passed(seq)'
    BY <1>1, <1>4 DEF Inv, ReaderInv, Passed
  <2> QED
    BY <1>1, <1>2, <2>1 DEF ReaderInv
<1> QED
  BY <1>1, <1>3, <1>4, ReaderStep DEF writers

\* A message leaves the pending ones as it is handed to its handler.
LEMMA HandleInv ==
    ASSUME Inv, Handle
    PROVE  Inv'
<1>1. UNCHANGED <<rows, seqGen, offset, writer, open, pc, seq, batch,
                  checkpoint, faults>>
  BY DEF Handle, writers
<1>2. PICK r \in pending : /\ handled' = handled \cup {r.id}
                           /\ pending' = pending \ {r}
  BY DEF Handle
<1>3. TypeOK'
  <2>1. r.id \in Ids
    BY Types DEF Inv, TypeOK
  <2> QED
    BY <1>1, <1>2, <2>1 DEF Inv, TypeOK
<1>4. ASSUME Serialized PROVE ReaderInv'
  BY <1>1, <1>2, <1>4 DEF Inv, ReaderInv, Passed
<1> QED
  BY <1>1, <1>3, <1>4, ReaderStep DEF writers

\* Run ends: the reader holds nothing.
LEMMA StopInv ==
    ASSUME Inv, StopReader, UNCHANGED <<writers, handled>>,
           faults' \in 0..MaxFaults, checkpoint' \in 0..MaxSeq,
           Serialized => Passed(checkpoint)'
    PROVE  Inv'
<1>1. TypeOK'
  BY InboxAssumption DEF Inv, TypeOK, StopReader, writers
<1>2. Passed(seq)'
  BY NothingBelowZero DEF StopReader, Passed, writers
<1>3. ASSUME Serialized PROVE ReaderInv'
  BY <1>2, <1>3 DEF ReaderInv, StopReader
<1> QED
  BY <1>1, <1>3, ReaderStep

\* A whole batch is handled: everything up to its last row has been passed.
LEMMA BatchPassed ==
    ASSUME Inv, ReaderInv, pending = {}, NEW last \in batch,
           \A r \in batch : r.seq <= last.seq
    PROVE  Passed(last.seq)
<1>1. seq \in Nat /\ last \in rows /\ \A r \in rows : r.seq \in Nat
  BY Types DEF ReaderInv
<1>2. ASSUME NEW r \in rows, r.seq <= last.seq PROVE r.id \in handled
  <2>1. CASE r.seq <= seq
    BY <2>1 DEF ReaderInv, Passed
  <2>2. CASE seq < r.seq
    BY <1>2, <2>2 DEF ReaderInv
  <2> QED
    BY <1>1, <2>1, <2>2
<1> QED
  BY <1>1, <1>2 DEF Passed

\* The checkpoint moves to the end of a handled batch, even if the answer
\* of Set is lost.
LEMMA AdvanceInv ==
    ASSUME Inv, Advance
    PROVE  Inv'
<1>1. pending = {} /\ UNCHANGED <<rows, seqGen, offset, writer, open, handled>>
  BY DEF Advance, writers
<1>2. PICK last \in batch :
         /\ \A r \in batch : r.seq <= last.seq
         /\ \/ /\ checkpoint' = last.seq
               /\ pc' = "read" /\ seq' = last.seq /\ batch' = {}
               /\ UNCHANGED <<pending, faults>>
            \/ /\ checkpoint' \in {checkpoint, last.seq}
               /\ StopReader
               /\ Fault
  BY DEF Advance
<1>3. last.seq \in 0..MaxSeq
  BY InboxAssumption DEF Inv, TypeOK, Row
<1>4. Serialized => Passed(last.seq) /\ Passed(checkpoint)
  BY <1>1, <1>2, BatchPassed DEF Inv, ReaderInv
<1>5. checkpoint' \in {checkpoint, last.seq}
  BY <1>2
<1>6. checkpoint' \in 0..MaxSeq /\ (Serialized => Passed(checkpoint)')
  BY <1>1, <1>3, <1>4, <1>5 DEF Inv, TypeOK, Passed
<1>7. CASE /\ pc' = "read" /\ seq' = last.seq /\ batch' = {}
           /\ UNCHANGED <<pending, faults>>
  <2>1. TypeOK'
    BY <1>1, <1>3, <1>6, <1>7 DEF Inv, TypeOK
  <2>2. ASSUME Serialized PROVE ReaderInv'
    <3>1. Passed(seq)'
      BY <1>1, <1>4, <1>7, <2>2 DEF Passed
    <3> QED
      BY <1>1, <1>6, <1>7, <2>2, <3>1 DEF ReaderInv
  <2> QED
    BY <1>1, <2>1, <2>2, ReaderStep DEF writers
<1>8. CASE StopReader /\ Fault
  <2>1. faults' \in 0..MaxFaults
    BY <1>8, FaultsAssumption DEF Fault, Inv, TypeOK
  <2> QED
    BY <1>1, <1>6, <1>8, <2>1, StopInv DEF writers
<1> QED
  BY <1>2, <1>7, <1>8

\* A crash moves no position forward.
LEMMA CrashInv ==
    ASSUME Inv, Crash
    PROVE  Inv'
<1> USE DEF Crash
<1>1. faults' \in 0..MaxFaults
  BY FaultsAssumption DEF Fault, Inv, TypeOK
<1>2. checkpoint' \in 0..MaxSeq /\ (Serialized => Passed(checkpoint)')
  BY DEF Inv, TypeOK, ReaderInv, Passed, writers
<1> QED
  BY <1>1, <1>2, StopInv

\* Nothing moves.
LEMMA StutterInv ==
    ASSUME Inv, UNCHANGED vars
    PROVE  Inv'
<1> USE DEF vars, writers, reader
<1>1. TypeOK'
  BY DEF Inv, TypeOK
<1>2. ReaderInv => ReaderInv'
  BY DEF ReaderInv, Passed
<1> QED
  BY <1>1, <1>2, ReaderStep DEF Inv

-----------------------------------------------------------------------------
\* Every step keeps the invariant.
LEMMA NextInv == Inv /\ [Next]_vars => Inv'
<1> SUFFICES ASSUME Inv, [Next]_vars PROVE Inv'
  OBVIOUS
<1>1. ASSUME NEW t \in Topics, WriterNext(t) PROVE Inv'
  BY <1>1, InsertInv, CommitInv, AckInv, WriterFailsInv DEF WriterNext
<1>2. CASE ReaderNext
  <2>1. CASE Start
    BY <2>1, StartInv
  <2>2. CASE Read
    BY <2>2, ReadInv
  <2>3. CASE Idle
    BY <2>3, StutterInv DEF Idle
  <2>4. CASE Handle
    BY <2>4, HandleInv
  <2>5. CASE Advance
    BY <2>5, AdvanceInv
  <2>6. CASE Crash
    BY <2>6, CrashInv
  <2> QED
    BY <1>2, <2>1, <2>2, <2>3, <2>4, <2>5, <2>6 DEF ReaderNext
<1>3. CASE UNCHANGED vars
  BY <1>3, StutterInv
<1> QED
  BY <1>1, <1>2, <1>3 DEF Next

\* The invariant holds throughout.
THEOREM Invariance == Spec => []Inv
BY InitInv, NextInv, PTL DEF Spec

(***************************************************************************)
(* The inbox misses nothing and keeps nothing twice: ON CONFLICT DO        *)
(* NOTHING, or the memory inbox's map, leaves one row per acknowledged     *)
(* message, serialized or not.                                             *)
(***************************************************************************)
THEOREM InboxStoresOnce == Spec => []StoredOnce
<1>1. Inv => StoredOnce
  BY DEF Inv
<1> QED
  BY <1>1, Invariance, PTL

(***************************************************************************)
(* Behind serialized writers the reader (projection/inbox.go) passes no    *)
(* row it has not handed over.  Without Serialized this is false: the run  *)
(* over the Postgres inbox with two writers violates it.                   *)
(***************************************************************************)
THEOREM ReaderPassesOnlyHandled ==
    Serialized => (Spec => []DeliveredAtLeastOnce)
<1> SUFFICES ASSUME Serialized PROVE Spec => []DeliveredAtLeastOnce
  OBVIOUS
<1>1. Inv => DeliveredAtLeastOnce
  BY DEF Inv, ReaderInv, Passed, DeliveredAtLeastOnce
<1> QED
  BY <1>1, Invariance, PTL

-----------------------------------------------------------------------------
(***************************************************************************)
(* The summary of an order, which is fed from the inbox and from the       *)
(* order's own events, and the notifications it leads to.                  *)
(***************************************************************************)
\* Ranks are numbers, and the lowest is that of no status.
LEMMA RankType ==
    ASSUME NEW status
    PROVE  Rank(status) \in Nat
BY DEF Rank

\* An order's row before anything is applied.
LEMMA SummaryStarts ==
    ASSUME SummaryInit
    PROVE  SummaryInv
<1> USE DEF SummaryInit, NoRow, NoEntry, NoJob
<1>1. inbox \in Seq(Facts) /\ Len(inbox) \in Nat
  BY SummaryAssumption
<1>2. SummaryTypeOK
  BY <1>1 DEF SummaryTypeOK
<1>3. StatusIsHighest
  <2>1. Applied = {"none"}
    BY DEF Applied
  <2> QED
    BY <2>1, RankType DEF StatusIsHighest
<1>4. NotifiedOnce /\ SentIsRecorded
  BY DEF NotifiedOnce, SentIsRecorded
<1>5. \A n \in Notifiers : NotifierInv(n)
  BY DEF NotifierInv
<1> QED
  BY <1>2, <1>3, <1>4, <1>5 DEF SummaryInv

\* The projection leaves the notifiers, and what the order records, alone.
LEMMA ProjectionStep ==
    ASSUME SummaryInv, UNCHANGED <<order, notifier, job, version>>,
           SummaryTypeOK', StatusIsHighest', SentIsRecorded'
    PROVE  SummaryInv'
<1>1. NotifiedOnce'
  BY DEF SummaryInv, NotifiedOnce
<1>2. \A n \in Notifiers : NotifierInv(n)'
  BY DEF SummaryInv, NotifierInv, Told
<1> QED
  BY <1>1, <1>2 DEF SummaryInv

\* The stored status gives way only to a higher one: the result ranks as
\* high as both.
LEMMA RaiseIsUpper ==
    ASSUME NEW status
    PROVE  /\ Raise(status) \in {row.status, status}
           /\ Rank(Raise(status)) >= Rank(status)
           /\ Rank(Raise(status)) >= Rank(row.status)
<1>1. Rank(status) \in Nat /\ Rank(row.status) \in Nat
  BY RankType
<1>2. CASE Rank(row.status) >= Rank(status)
  <2>1. Raise(status) = row.status
    BY <1>2 DEF Raise
  <2> QED
    BY <1>1, <1>2, <2>1
<1>3. CASE ~(Rank(row.status) >= Rank(status))
  <2>1. Raise(status) = status
    BY <1>3 DEF Raise
  <2> QED
    BY <1>1, <1>3, <2>1
<1> QED
  BY <1>2, <1>3

\* A row that is raised stays above everything that was applied, whichever
\* log the fact came from and however often it comes.
LEMMA RaiseKeeps ==
    ASSUME SummaryInv, NEW status, row'.status = Raise(status),
           NEW applied, applied \subseteq Applied \cup {status}
    PROVE  \A s \in applied : Rank(row'.status) >= Rank(s)
<1> SUFFICES ASSUME NEW s \in applied
             PROVE  Rank(row'.status) >= Rank(s)
  OBVIOUS
<1>1. /\ Rank(row'.status) >= Rank(status)
      /\ Rank(row'.status) >= Rank(row.status)
  BY RaiseIsUpper
<1>2. /\ Rank(row'.status) \in Nat /\ Rank(row.status) \in Nat
      /\ Rank(s) \in Nat
  BY RankType
<1>3. CASE s = status
  BY <1>1, <1>3
<1>4. CASE s \in Applied
  <2>1. Rank(row.status) >= Rank(s)
    BY <1>4 DEF SummaryInv, StatusIsHighest
  <2> QED
    BY <1>1, <1>2, <2>1
<1> QED
  BY <1>3, <1>4

\* UpsertPlaced.
LEMMA ApplyPlacedInv ==
    ASSUME SummaryInv, ApplyPlaced
    PROVE  SummaryInv'
<1>1. /\ row' = [status |-> Raise("placed"), base |-> TRUE]
      /\ placed' \in {0, 1} /\ faults' \in Nat
      /\ UNCHANGED <<inbox, read, queue, order, notifier, job, version, rebuilds>>
  BY DEF ApplyPlaced, Fault, SummaryInv, SummaryTypeOK,
         workers
<1>2. row'.status \in {row.status, "placed"} /\ row'.base
  BY <1>1, RaiseIsUpper
<1>3. row' \in [status : Facts \cup {"placed", "none"}, base : BOOLEAN]
  <2>1. Raise("placed") \in Facts \cup {"placed", "none"}
    BY RaiseIsUpper DEF SummaryInv, SummaryTypeOK
  <2> QED
    BY <1>1, <2>1
<1>4. SummaryTypeOK'
  BY <1>1, <1>3 DEF SummaryInv, SummaryTypeOK
<1>5. StatusIsHighest'
  <2>1. Applied' \subseteq Applied \cup {"placed"}
    <3>1. placed = 0
      BY DEF ApplyPlaced
    <3> QED
      BY <1>1, <3>1 DEF Applied
  <2>2. row'.status = Raise("placed")
    BY <1>1
  <2>3. \A s \in Applied' : Rank(row'.status) >= Rank(s)
    BY <2>1, <2>2, RaiseKeeps
  <2>4. row.status \in {inbox[i] : i \in DOMAIN inbox} \cup {"placed", "none"}
    BY DEF SummaryInv, StatusIsHighest
  <2>5. row'.status \in {inbox'[i] : i \in DOMAIN inbox'} \cup {"placed", "none"}
    BY <1>1, <1>2, <2>4
  <2> QED
    BY <1>2, <2>3, <2>5 DEF StatusIsHighest, Rank
<1>6. SentIsRecorded'
  BY <1>1 DEF SummaryInv, SentIsRecorded, Told
<1> QED
  BY <1>1, <1>4, <1>5, <1>6, ProjectionStep

\* SetStatus and Enqueue: a row that is enqueued is due, never sent.
LEMMA ApplyForeignInv ==
    ASSUME SummaryInv,
           ApplyForeign
    PROVE  SummaryInv'
<1> DEFINE fact == inbox[read + 1]
<1>1. /\ read \in Nat /\ read < Len(inbox) /\ Len(inbox) \in Nat
      /\ read' \in {read, read + 1} /\ faults' \in Nat
      /\ row' = [row EXCEPT !.status = Raise(fact)]
      /\ UNCHANGED <<inbox, placed, order, notifier, job, version, rebuilds>>
      /\ row \in [status : Facts \cup {"placed", "none"}, base : BOOLEAN]
  BY DEF ApplyForeign, Fault, SummaryInv, SummaryTypeOK,
         workers
<1>2. inbox \in Seq(Facts) /\ DOMAIN inbox = 1..Len(inbox)
  BY SummaryAssumption DEF SummaryInv, SummaryTypeOK
<1>3. read + 1 \in DOMAIN inbox /\ fact \in Facts
  BY <1>1, <1>2
<1>4. row'.status = Raise(fact) /\ row'.base = row.base
  BY <1>1
<1>5. row'.status \in {row.status, fact}
  BY <1>4, RaiseIsUpper
<1>6. row' \in [status : Facts \cup {"placed", "none"}, base : BOOLEAN]
  <2>1. Raise(fact) \in Facts \cup {"placed", "none"}
    BY <1>1, <1>3, <1>4, <1>5
  <2> QED
    BY <1>1, <2>1
<1>7. /\ queue' \in [Notified -> [state : {"absent", "due", "sent"}, id : Nat]]
      /\ \A r \in Notified :
            queue'[r].state = "sent" => queue[r].state = "sent"
  <2> DEFINE Entry == [state : {"absent", "due", "sent"}, id : Nat]
             new == IF queue[fact] = NoEntry
                    THEN [state |-> "due", id |-> rebuilds + 1] ELSE queue[fact]
  <2>1. queue \in [Notified -> Entry] /\ rebuilds \in Nat
    BY DEF SummaryInv, SummaryTypeOK
  <2>2. CASE queue' = queue
    BY <2>1, <2>2
  <2>3. CASE fact \in Notified /\ queue' = [queue EXCEPT ![fact] = new]
    <3>1. [state |-> "due", id |-> rebuilds + 1] \in Entry
      BY <2>1
    <3>2. queue[fact] \in Entry
      BY <2>1, <2>3
    <3>3. new \in Entry /\ (new.state = "sent" => new = queue[fact])
      BY <3>1, <3>2
    <3> HIDE DEF new, Entry
    <3>4. queue' \in [Notified -> Entry]
      BY <2>1, <2>3, <3>3
    <3> HIDE DEF fact
    <3>5. \A r \in Notified \ {fact} : queue'[r] = queue[r]
      BY <2>1, <2>3
    <3>6. queue'[fact] = new
      BY <2>1, <2>3
    <3> QED
      BY <3>3, <3>4, <3>5, <3>6 DEF Entry
  <2> QED
    BY <2>2, <2>3 DEF ApplyForeign, Enqueue
<1>8. SummaryTypeOK'
  <2>1. read' \in 0..Len(inbox)
    BY <1>1
  <2> QED
    BY <1>1, <1>6, <1>7, <2>1 DEF SummaryInv, SummaryTypeOK
<1>9. StatusIsHighest'
  <2>1. Applied' \subseteq Applied \cup {fact}
    <3>1. \A i \in 1..read' : i \in 1..read \/ i = read + 1
      BY <1>1
    <3> QED
      BY <1>1, <3>1 DEF Applied
  <2>2. \A s \in Applied' : Rank(row'.status) >= Rank(s)
    BY <1>4, <2>1, RaiseKeeps
  <2>3. /\ row.status \in {inbox[i] : i \in DOMAIN inbox} \cup {"placed", "none"}
        /\ placed = 1 => row.base
    BY DEF SummaryInv, StatusIsHighest
  <2>4. row'.status \in {inbox'[i] : i \in DOMAIN inbox'} \cup {"placed", "none"}
    BY <1>1, <1>3, <1>5, <2>3
  <2>5. placed' = 1 => row'.base
    BY <1>1, <1>4, <2>3
  <2> QED
    BY <2>2, <2>4, <2>5 DEF StatusIsHighest, Rank
<1>10. SentIsRecorded'
  <2> SUFFICES ASSUME NEW r \in Notified, queue'[r].state = "sent"
               PROVE  Told(r)
    BY <1>1 DEF SentIsRecorded, Told
  <2>1. queue[r].state = "sent"
    BY <1>7
  <2> QED
    BY <2>1 DEF SummaryInv, SentIsRecorded
<1> QED
  BY <1>1, <1>8, <1>9, <1>10, ProjectionStep

\* A rebuild forgets what was applied together with the row.
LEMMA RebuildInv ==
    ASSUME SummaryInv, Rebuild
    PROVE  SummaryInv'
<1> USE DEF Rebuild, NoRow, NoEntry, workers
<1>1. SummaryTypeOK'
  <2>1. queue' \in [Notified -> [state : {"absent", "due", "sent"}, id : Nat]]
    BY DEF SummaryInv, SummaryTypeOK
  <2>2. 0 \in 0..Len(inbox')
    BY DEF SummaryInv, SummaryTypeOK
  <2> QED
    BY <2>1, <2>2 DEF SummaryInv, SummaryTypeOK
<1>2. StatusIsHighest'
  <2>1. Applied' = {"none"}
    BY DEF Applied
  <2>2. Rank("none") >= Rank("none")
    BY RankType
  <2> QED
    BY <2>1, <2>2 DEF StatusIsHighest, Rank
<1>3. SentIsRecorded'
  BY DEF SummaryInv, SentIsRecorded, Told
<1> QED
  BY <1>1, <1>2, <1>3, ProjectionStep

\* What has been told stays told, and the notifications a version stands
\* for stay what they were.
LEMMA OrderGrows ==
    ASSUME SummaryInv,
           \/ order' = order
           \/ \E r \in Notified : order' = Append(order, r)
    PROVE  /\ order' \in Seq(Notified)
           /\ Len(order) <= Len(order')
           /\ \A i \in 1..Len(order) : order'[i] = order[i]
           /\ \A reason : Told(reason) => Told(reason)'
<1>1. order \in Seq(Notified)
  BY DEF SummaryInv, SummaryTypeOK
<1>2. CASE order' = order
  BY <1>1, <1>2 DEF Told
<1>3. CASE \E r \in Notified : order' = Append(order, r)
  BY <1>1, <1>3 DEF Told
<1> QED
  BY <1>2, <1>3

\* A notifier that stands still keeps its part of the invariant.
LEMMA NotifierKept ==
    ASSUME SummaryInv, NEW n \in Notifiers,
           \/ order' = order
           \/ \E r \in Notified : order' = Append(order, r),
           notifier'[n] = notifier[n], job'[n] = job[n], version'[n] = version[n]
    PROVE  NotifierInv(n)'
<1>1. NotifierInv(n) /\ version[n] \in Nat /\ Len(order) \in Nat
  BY DEF SummaryInv, SummaryTypeOK
<1>2. /\ Len(order') \in Nat
      /\ Len(order) <= Len(order')
      /\ \A i \in 1..Len(order) : order'[i] = order[i]
      /\ \A reason : Told(reason) => Told(reason)'
  BY OrderGrows
<1>3. notifier[n] = "mark" => Told(job[n].reason)'
  <2>1. PICK reason : reason = job[n].reason
    OBVIOUS
  <2>2. notifier[n] = "mark" => Told(reason)'
    BY <1>1, <1>2, <2>1 DEF NotifierInv
  <2> QED
    BY <2>1, <2>2 DEF Told
<1>4. notifier[n] = "save" =>
          /\ version[n] <= Len(order')
          /\ \A i \in 1..version[n] : order'[i] # job[n].reason
  BY <1>1, <1>2 DEF NotifierInv
<1> QED
  BY <1>1, <1>3, <1>4 DEF NotifierInv

\* A step of notifier n only.
LEMMA NotifierStep ==
    ASSUME SummaryInv, NEW n \in Notifiers,
           \/ order' = order
           \/ \E r \in Notified : order' = Append(order, r),
           UNCHANGED <<inbox, placed, read, row>>,
           SummaryTypeOK', NotifiedOnce', SentIsRecorded',
           NotifierInv(n)',
           \A o \in Notifiers \ {n} : /\ notifier'[o] = notifier[o]
                                      /\ job'[o] = job[o]
                                      /\ version'[o] = version[o]
    PROVE  SummaryInv'
<1>1. StatusIsHighest'
  BY DEF SummaryInv, StatusIsHighest, Applied, Rank
<1>2. ASSUME NEW o \in Notifiers PROVE NotifierInv(o)'
  <2>1. CASE o = n
    BY <2>1
  <2>2. CASE o # n
    BY <2>2, NotifierKept
  <2> QED
    BY <2>1, <2>2
<1> QED
  BY <1>1, <1>2 DEF SummaryInv

\* A tick claims a row that is due.
LEMMA TickInv ==
    ASSUME SummaryInv, NEW n \in Notifiers, Tick(n)
    PROVE  SummaryInv'
<1>1. PICK r \in Notified :
          job' = [job EXCEPT ![n] = [reason |-> r, id |-> queue[r].id]]
  BY DEF Tick
<1>2. /\ notifier' = [notifier EXCEPT ![n] = "load"]
      /\ UNCHANGED <<inbox, placed, read, row, queue, order, version, rebuilds, faults>>
  BY DEF Tick, readSide
<1>3. [reason |-> r, id |-> queue[r].id] \in [reason : Notified \cup {"none"}, id : Nat]
  BY DEF SummaryInv, SummaryTypeOK
<1>4. job' \in [Notifiers -> [reason : Notified \cup {"none"}, id : Nat]]
  BY <1>1, <1>3 DEF SummaryInv, SummaryTypeOK
<1>5. SummaryTypeOK'
  BY <1>2, <1>4 DEF SummaryInv, SummaryTypeOK
<1>6. NotifiedOnce' /\ SentIsRecorded'
  BY <1>2 DEF SummaryInv, NotifiedOnce, SentIsRecorded, Told
<1>7. notifier'[n] = "load" /\ job'[n].reason = r
  BY <1>1, <1>2 DEF SummaryInv, SummaryTypeOK
<1>8. NotifierInv(n)'
  BY <1>7 DEF NotifierInv
<1>9. \A o \in Notifiers \ {n} : /\ notifier'[o] = notifier[o] /\ job'[o] = job[o]
                                 /\ version'[o] = version[o]
  BY <1>1, <1>2 DEF SummaryInv, SummaryTypeOK
<1> QED
  BY <1>2, <1>5, <1>6, <1>8, <1>9, NotifierStep

\* The order as loaded tells whether the customer has been told.
LEMMA LoadInv ==
    ASSUME SummaryInv, NEW n \in Notifiers, Load(n)
    PROVE  SummaryInv'
<1> DEFINE place == IF Told(job[n].reason) THEN "mark" ELSE "save"
<1>1. /\ notifier[n] = "load"
      /\ notifier' = [notifier EXCEPT ![n] = place]
      /\ version' = [version EXCEPT ![n] = Len(order)]
      /\ UNCHANGED <<inbox, placed, read, row, queue, order, job, rebuilds, faults>>
  BY DEF Load, readSide
<1>2. order \in Seq(Notified) /\ Len(order) \in Nat
  BY DEF SummaryInv, SummaryTypeOK
<1>3. SummaryTypeOK'
  <2>1. place \in {"idle", "load", "save", "mark"}
    OBVIOUS
  <2> QED
    BY <1>1, <1>2, <2>1 DEF SummaryInv, SummaryTypeOK
<1>4. NotifiedOnce' /\ SentIsRecorded'
  BY <1>1 DEF SummaryInv, NotifiedOnce, SentIsRecorded, Told
<1>5. notifier'[n] = place /\ version'[n] = Len(order) /\ job'[n] = job[n]
  BY <1>1 DEF SummaryInv, SummaryTypeOK
<1>6. job[n].reason \in Notified
  BY <1>1 DEF SummaryInv, NotifierInv
<1>7. NotifierInv(n)'
  <2>1. CASE Told(job[n].reason)
    <3>1. Told(job[n].reason)'
      BY <1>1, <2>1 DEF Told
    <3> QED
      BY <1>5, <1>6, <2>1, <3>1 DEF NotifierInv
  <2>2. CASE ~Told(job[n].reason)
    <3>1. \A i \in 1..Len(order) : order[i] # job[n].reason
      BY <1>2, <2>2 DEF Told
    <3> QED
      BY <1>1, <1>2, <1>5, <1>6, <2>2, <3>1 DEF NotifierInv
  <2> QED
    BY <2>1, <2>2
<1>8. \A o \in Notifiers \ {n} : /\ notifier'[o] = notifier[o] /\ job'[o] = job[o]
                                 /\ version'[o] = version[o]
  BY <1>1 DEF SummaryInv, SummaryTypeOK
<1> QED
  BY <1>1, <1>3, <1>4, <1>7, <1>8, NotifierStep

\* The version check: the reason is new up to the end of the order.
LEMMA SaveInv ==
    ASSUME SummaryInv, NEW n \in Notifiers, Save(n)
    PROVE  SummaryInv'
<1> DEFINE reason == job[n].reason
<1>1. /\ notifier[n] = "save"
      /\ UNCHANGED <<inbox, placed, read, row, queue, job, version, rebuilds>>
      /\ \/ /\ Len(order) = version[n] /\ order' = Append(order, reason)
            /\ \/ notifier' = [notifier EXCEPT ![n] = "mark"]
               \/ notifier' = [notifier EXCEPT ![n] = "load"]
         \/ order' = order /\ notifier' = [notifier EXCEPT ![n] = "load"]
  BY DEF Save, readSide
<1>2. /\ order \in Seq(Notified) /\ Len(order) \in Nat
      /\ reason \in Notified
      /\ \A i \in 1..version[n] : order[i] # reason
  BY <1>1 DEF SummaryInv, SummaryTypeOK, NotifierInv
<1>3. order' = order \/ \E r \in Notified : order' = Append(order, r)
  BY <1>1, <1>2
<1>4. /\ order' \in Seq(Notified)
      /\ Len(order) <= Len(order')
      /\ \A i \in 1..Len(order) : order'[i] = order[i]
      /\ \A r : Told(r) => Told(r)'
  BY <1>3, OrderGrows
<1>5. faults' \in Nat
  BY DEF Save, Fault, SummaryInv, SummaryTypeOK
<1>6. SummaryTypeOK'
  BY <1>1, <1>4, <1>5 DEF SummaryInv, SummaryTypeOK
<1>7. NotifiedOnce'
  <2>1. CASE order' = order
    BY <2>1 DEF SummaryInv, NotifiedOnce
  <2>2. CASE Len(order) = version[n] /\ order' = Append(order, reason)
    <3>1. /\ DOMAIN order' = 1..(Len(order) + 1) /\ DOMAIN order = 1..Len(order)
          /\ order'[Len(order) + 1] = reason
      BY <1>2, <2>2
    <3>2. \A i \in 1..Len(order) : order'[i] # reason
      BY <1>2, <1>4, <2>2
    <3>3. \A i, j \in 1..Len(order) : order[i] = order[j] => i = j
      BY <3>1 DEF SummaryInv, NotifiedOnce
    <3>4. ASSUME NEW i \in DOMAIN order', NEW j \in DOMAIN order',
                 order'[i] = order'[j]
          PROVE  i = j
      <4>1. i \in 1..Len(order) \/ i = Len(order) + 1
        BY <1>2, <3>1
      <4>2. j \in 1..Len(order) \/ j = Len(order) + 1
        BY <1>2, <3>1
      <4> QED
        BY <1>4, <3>1, <3>2, <3>3, <3>4, <4>1, <4>2
    <3> QED
      BY <3>4 DEF NotifiedOnce
  <2> QED
    BY <1>1, <2>1, <2>2
<1>8. SentIsRecorded'
  BY <1>1, <1>4 DEF SummaryInv, SentIsRecorded
<1>9. NotifierInv(n)'
  <2>1. job'[n] = job[n]
    BY <1>1
  <2>2. CASE order' = Append(order, reason) /\ notifier' = [notifier EXCEPT ![n] = "mark"]
    <3>1. Len(order) + 1 \in DOMAIN order' /\ order'[Len(order) + 1] = reason
      BY <1>2, <2>2
    <3>2. notifier'[n] = "mark"
      BY <2>2 DEF SummaryInv, SummaryTypeOK
    <3> QED
      BY <1>2, <2>1, <3>1, <3>2 DEF NotifierInv, Told
  <2>3. CASE notifier' = [notifier EXCEPT ![n] = "load"]
    <3>1. notifier'[n] = "load"
      BY <2>3 DEF SummaryInv, SummaryTypeOK
    <3> QED
      BY <1>2, <2>1, <3>1 DEF NotifierInv
  <2> QED
    BY <1>1, <2>2, <2>3
<1>10. \A o \in Notifiers \ {n} : /\ notifier'[o] = notifier[o] /\ job'[o] = job[o]
                                  /\ version'[o] = version[o]
  BY <1>1 DEF SummaryInv, SummaryTypeOK
<1> QED
  BY <1>1, <1>3, <1>6, <1>7, <1>8, <1>9, <1>10, NotifierStep

\* A row is retired only by a notifier that knows its notification is
\* recorded.
LEMMA MarkSentInv ==
    ASSUME SummaryInv, NEW n \in Notifiers, MarkSent(n)
    PROVE  SummaryInv'
<1> DEFINE r == job[n].reason
<1>1. /\ notifier[n] = "mark"
      /\ notifier' = [notifier EXCEPT ![n] = "idle"]
      /\ job' = [job EXCEPT ![n] = NoJob]
      /\ UNCHANGED <<inbox, placed, read, row, order, version, rebuilds>>
      /\ faults' \in Nat
      /\ \/ queue' = queue
         \/ queue' = [queue EXCEPT ![r].state = "sent"]
  BY DEF MarkSent, EndTick, Retire, Fault,
         SummaryInv, SummaryTypeOK
<1>2. r \in Notified /\ Told(r)
  BY <1>1 DEF SummaryInv, NotifierInv
<1>3. /\ queue' \in [Notified -> [state : {"absent", "due", "sent"}, id : Nat]]
      /\ \A q \in Notified \ {r} : queue'[q] = queue[q]
  <2>1. queue \in [Notified -> [state : {"absent", "due", "sent"}, id : Nat]]
    BY DEF SummaryInv, SummaryTypeOK
  <2>2. [queue[r] EXCEPT !.state = "sent"] \in [state : {"absent", "due", "sent"}, id : Nat]
    BY <1>2, <2>1
  <2> HIDE DEF r
  <2> QED
    BY <1>1, <2>1, <2>2
<1>4. NoJob \in [reason : Notified \cup {"none"}, id : Nat]
  BY DEF NoJob
<1>5. job' \in [Notifiers -> [reason : Notified \cup {"none"}, id : Nat]]
  BY <1>1, <1>4 DEF SummaryInv, SummaryTypeOK
<1>6. SummaryTypeOK'
  BY <1>1, <1>3, <1>5 DEF SummaryInv, SummaryTypeOK
<1>7. NotifiedOnce'
  BY <1>1 DEF SummaryInv, NotifiedOnce
<1>8. SentIsRecorded'
  <2> SUFFICES ASSUME NEW q \in Notified, queue'[q].state = "sent"
               PROVE  Told(q)
    BY <1>1 DEF SentIsRecorded, Told
  <2>1. CASE q = r
    BY <1>2, <2>1
  <2>2. CASE q # r
    BY <1>3, <2>2 DEF SummaryInv, SentIsRecorded
  <2> QED
    BY <2>1, <2>2
<1>9. NotifierInv(n)'
  <2>1. notifier'[n] = "idle"
    BY <1>1 DEF SummaryInv, SummaryTypeOK
  <2> QED
    BY <2>1 DEF NotifierInv
<1>10. \A o \in Notifiers \ {n} : /\ notifier'[o] = notifier[o] /\ job'[o] = job[o]
                                  /\ version'[o] = version[o]
  BY <1>1 DEF SummaryInv, SummaryTypeOK
<1> QED
  BY <1>1, <1>6, <1>7, <1>8, <1>9, <1>10, NotifierStep

\* A notifier that gives up or dies leaves its row as it is.
LEMMA EndTickInv ==
    ASSUME SummaryInv, NEW n \in Notifiers, EndTick(n), Fault,
           UNCHANGED <<inbox, readSide, order, version, rebuilds>>
    PROVE  SummaryInv'
<1>1. /\ notifier' = [notifier EXCEPT ![n] = "idle"]
      /\ job' = [job EXCEPT ![n] = NoJob]
      /\ UNCHANGED <<inbox, placed, read, row, queue, order, version, rebuilds>>
      /\ faults' \in Nat
  BY DEF EndTick, Fault, readSide, SummaryInv,
         SummaryTypeOK
<1>2. NoJob \in [reason : Notified \cup {"none"}, id : Nat]
  BY DEF NoJob
<1>3. job' \in [Notifiers -> [reason : Notified \cup {"none"}, id : Nat]]
  BY <1>1, <1>2 DEF SummaryInv, SummaryTypeOK
<1>4. SummaryTypeOK'
  BY <1>1, <1>3 DEF SummaryInv, SummaryTypeOK
<1>5. NotifiedOnce' /\ SentIsRecorded'
  BY <1>1 DEF SummaryInv, NotifiedOnce, SentIsRecorded, Told
<1>6. NotifierInv(n)'
  <2>1. notifier'[n] = "idle"
    BY <1>1 DEF SummaryInv, SummaryTypeOK
  <2> QED
    BY <2>1 DEF NotifierInv
<1>7. \A o \in Notifiers \ {n} : /\ notifier'[o] = notifier[o] /\ job'[o] = job[o]
                                 /\ version'[o] = version[o]
  BY <1>1 DEF SummaryInv, SummaryTypeOK
<1> QED
  BY <1>1, <1>4, <1>5, <1>6, <1>7, NotifierStep

\* A step that changes nothing.
LEMMA SummaryStutter ==
    ASSUME SummaryInv, UNCHANGED summaryVars
    PROVE  SummaryInv'
<1>1. UNCHANGED <<inbox, placed, read, row, queue, order, notifier, job,
                  version, rebuilds, faults>>
  BY DEF summaryVars, readSide, workers
<1>2. SummaryTypeOK'
  BY <1>1 DEF SummaryInv, SummaryTypeOK
<1>3. StatusIsHighest'
  BY <1>1 DEF SummaryInv, StatusIsHighest, Applied, Rank
<1>4. SentIsRecorded'
  BY <1>1 DEF SummaryInv, SentIsRecorded, Told
<1> QED
  BY <1>1, <1>2, <1>3, <1>4, ProjectionStep

\* Every step of the read side keeps its invariant.
LEMMA SummarySteps ==
    ASSUME SummaryInv,
           [SummaryNext]_summaryVars
    PROVE  SummaryInv'
<1>1. ASSUME NEW n \in Notifiers,
             Work(n) \/ DispatchFails(n) \/ NotifierCrash(n)
      PROVE  SummaryInv'
  <2>1. CASE Work(n)
    BY <2>1, TickInv, LoadInv, SaveInv, MarkSentInv DEF Work
  <2>2. CASE DispatchFails(n)
    BY <2>2, EndTickInv DEF DispatchFails
  <2>3. CASE NotifierCrash(n)
    BY <2>3, EndTickInv DEF NotifierCrash
  <2> QED
    BY <1>1, <2>1, <2>2, <2>3
<1>2. CASE ApplyPlaced \/ ApplyForeign \/ Rebuild
  BY <1>2, ApplyPlacedInv, ApplyForeignInv, RebuildInv
<1>3. CASE Quiet
  BY <1>3, SummaryStutter DEF Quiet
<1>4. CASE UNCHANGED summaryVars
  BY <1>4, SummaryStutter
<1> QED
  BY <1>1, <1>2, <1>3, <1>4 DEF SummaryNext

(***************************************************************************)
(* The inductive invariant of the read side holds in every reachable       *)
(* state, for any set of histories of the inbox.                           *)
(***************************************************************************)
THEOREM SummaryInvariance == SummarySpec => []SummaryInv
<1>1. SummaryInit => SummaryInv
  BY SummaryStarts
<1>2. SummaryInv /\ [SummaryNext]_summaryVars => SummaryInv'
  BY SummarySteps
<1> QED
  BY <1>1, <1>2, PTL DEF SummarySpec

(***************************************************************************)
(* The order's row shows at least the highest ranked fact that was         *)
(* applied, whichever log is ahead, whatever comes twice and however often *)
(* the read side is rebuilt, and nothing that did not happen.              *)
(***************************************************************************)
THEOREM SummaryShowsHighest == SummarySpec => []StatusIsHighest
<1>1. SummaryInv => StatusIsHighest
  BY DEF SummaryInv
<1>2. SummarySpec => []SummaryInv
  BY SummaryInvariance
<1> QED
  BY <1>1, <1>2, PTL

(***************************************************************************)
(* A customer is told once per reason, by any number of notifiers that     *)
(* crash, race each other and are handed rebuilt rows.                     *)
(***************************************************************************)
THEOREM CustomerToldOnce == SummarySpec => []NotifiedOnce
<1>1. SummaryInv => NotifiedOnce
  BY DEF SummaryInv
<1>2. SummarySpec => []SummaryInv
  BY SummaryInvariance
<1> QED
  BY <1>1, <1>2, PTL

(***************************************************************************)
(* No row of the worklist is retired before its notification is on the     *)
(* order's stream.                                                         *)
(***************************************************************************)
THEOREM RetiredIsRecorded == SummarySpec => []SentIsRecorded
<1>1. SummaryInv => SentIsRecorded
  BY DEF SummaryInv
<1>2. SummarySpec => []SummaryInv
  BY SummaryInvariance
<1> QED
  BY <1>1, <1>2, PTL
=============================================================================
