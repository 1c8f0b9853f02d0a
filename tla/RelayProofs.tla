----------------------------- MODULE RelayProofs -----------------------------
(***************************************************************************)
(* The relay delivers at least once and in commit order per key, for any   *)
(* number of replicas sharing a checkpoint, over any store that implements *)
(* the port.                                                               *)
(***************************************************************************)
EXTENDS Relay, EventStoreProofs

\* Types of the quantities the relay compares.
LEMMA Types ==
    ASSUME Inv
    PROVE  /\ checkpoint \in Nat
           /\ \A r \in Replicas : seq[r] \in Nat
           /\ \A e \in events : /\ e.seq \in Nat \ {0}
                                /\ e.stream \in Streams
                                /\ e.data \in Payloads
                                /\ Key(e) \in Keys
           /\ events \subseteq Event
           /\ \A t \in Topics, k \in Keys : log[t][k] \in Seq(Event)
<1>1. checkpoint \in Nat /\ (\A r \in Replicas : seq[r] \in Nat)
  BY StoreAssumption DEF Inv, TypeOK
<1>2. events \subseteq Event
  BY DEF Inv, TypeOK
<1>3. \A e \in Event : /\ e.seq \in Nat \ {0} /\ e.stream \in Streams
                       /\ e.data \in Payloads
  BY DEF Event
<1>4. \A e \in Event : Key(e) \in Keys
  BY <1>3, RelayAssumption DEF Key
<1>5. \A t \in Topics, k \in Keys : log[t][k] \in Seq(Event)
  BY DEF Inv, TypeOK
<1> QED
  BY <1>1, <1>2, <1>3, <1>4, <1>5

\* A step that touches neither the store nor the broker.
LEMMA StoreUnchanged ==
    ASSUME UNCHANGED <<events, log>>
    PROVE  /\ StoreInv => StoreInv'
           /\ LogInv => LogInv'
           /\ KeyOrder => KeyOrder'
           /\ \A p : (Reached(p)' <=> Reached(p)) /\ (Done(p)' <=> Done(p))
           /\ \A e : Published(e)' <=> Published(e)
<1>1. \A e : Published(e)' <=> Published(e)
  BY DEF Published, Range, Public, Topic, Key
<1>2. \A p : (Reached(p)' <=> Reached(p)) /\ (Done(p)' <=> Done(p))
  BY <1>1 DEF Reached, Done, Topic
<1>3. StoreInv => StoreInv'
  BY DEF StoreInv, WellFormed, Versions
<1>4. LogInv => LogInv'
  BY DEF LogInv, Range
<1>5. KeyOrder => KeyOrder'
  BY DEF KeyOrder, Topic, Key
<1> QED
  BY <1>1, <1>2, <1>3, <1>4, <1>5

\* A fresh service satisfies the invariant.
LEMMA InitInv == Init => Inv
<1> SUFFICES ASSUME Init PROVE Inv
  OBVIOUS
<1> USE DEF Init, StoreInit
<1>1. StoreInv
  BY EmptyStore
<1>2. TypeOK
  <2>1. log \in [Topics -> [Keys -> Seq(Event)]]
    <3>1. <<>> \in Seq(Event)
      OBVIOUS
    <3> QED
      BY <3>1
  <2> QED
    BY <2>1, StoreAssumption, RelayAssumption, FaultsAssumption DEF TypeOK
<1>3. PositionInv /\ BatchInv
  BY DEF PositionInv, BatchInv, Reached, Done
<1>4. LogInv /\ KeyOrder
  BY DEF LogInv, KeyOrder, Range
<1> QED
  BY <1>1, <1>2, <1>3, <1>4 DEF Inv

\* Appends keep the invariant: new events are above every position held.
LEMMA WriteInv ==
    ASSUME Inv, Write
    PROVE  Inv'
<1>1. UNCHANGED <<log, checkpoint, pc, seq, batch, todo, unsent, faults>>
  BY DEF Write, local
<1>2. PICK s \in Streams, expected \in 0..MaxSeq, data \in Batches,
           base \in 0..MaxSeq : AppendEvents(s, expected, data, base)
  BY DEF Write, StoreNext
<1>3. StoreInv'
  BY <1>2, AppendStep DEF Inv
<1> DEFINE new == Recorded(s, expected, data, Len(data), base)
<1>4. events' = events \cup new /\ \A e \in events : e.seq <= base
  BY <1>2 DEF AppendEvents
<1>5. \A e \in new : e.seq > base /\ e.seq \in Nat
  BY StoreAssumption DEF Recorded
<1>6. base \in Nat
  BY StoreAssumption
<1>7. ASSUME NEW p \in Nat, Reached(p), Done(p)
      PROVE  Reached(p)' /\ Done(p)'
  <2>1. p <= base
    BY <1>4, <1>6, <1>7 DEF Reached
  <2>2. \A e \in new : ~(e.seq <= p)
    BY <1>5, <1>6, <2>1
  <2> QED
    BY <1>1, <1>4, <1>7, <2>2
       DEF Reached, Done, Published, Public, Topic, Key, Range
<1>8. PositionInv'
  BY <1>1, <1>7, Types DEF Inv, PositionInv
<1>9. BatchInv'
  <2> SUFFICES ASSUME NEW r \in Replicas
               PROVE  /\ batch[r] \subseteq events'
                      /\ \A e \in batch[r], f \in events' :
                            seq[r] < f.seq /\ f.seq <= e.seq => f \in batch[r]
    BY <1>1 DEF Inv, BatchInv, Published, Public, Topic, Key, Range
  <2>1. batch[r] \subseteq events
    BY DEF Inv, BatchInv
  <2>2. ASSUME NEW e \in batch[r], NEW f \in new PROVE ~(f.seq <= e.seq)
    BY <1>4, <1>5, <1>6, <2>1, Types
  <2> QED
    BY <1>4, <2>1, <2>2 DEF Inv, BatchInv
<1>10. TypeOK'
  BY <1>1, <1>3 DEF Inv, TypeOK, StoreInv
<1>11. LogInv'
  BY <1>1, <1>4 DEF Inv, LogInv, Range
<1>12. KeyOrder'
  <2> SUFFICES ASSUME NEW t \in Topics, NEW k \in Keys,
                      NEW i \in 1..Len(log[t][k]), NEW e \in new,
                      e.seq < log[t][k][i].seq
               PROVE  FALSE
    BY <1>1, <1>4 DEF Inv, KeyOrder, Topic, Key
  <2>1. log[t][k] \in Seq(Event) /\ Range(log[t][k]) \subseteq events
    BY Types DEF Inv, LogInv
  <2>2. log[t][k][i] \in events
    BY <2>1 DEF Range
  <2> QED
    BY <1>4, <1>5, <1>6, <2>2, Types
<1> QED
  BY <1>3, <1>8, <1>9, <1>10, <1>11, <1>12 DEF Inv

\* Nothing is at or below position 0.
LEMMA DoneZero ==
    ASSUME Inv
    PROVE  Reached(0) /\ Done(0)
BY Types DEF Reached, Done

\* Run returns or dies, having moved the checkpoint to a done position or
\* left it alone.
LEMMA StopInv ==
    ASSUME Inv, NEW r \in Replicas, Stop(r), UNCHANGED <<events, log>>,
           faults' \in 0..MaxFaults, checkpoint' \in 0..MaxSeq,
           Reached(checkpoint'), Done(checkpoint')
    PROVE  Inv'
<1>1. \A p : (Reached(p)' <=> Reached(p)) /\ (Done(p)' <=> Done(p))
  BY StoreUnchanged
<1>2. StoreInv' /\ LogInv' /\ KeyOrder'
  BY StoreUnchanged DEF Inv
<1>3. TypeOK'
  BY StoreAssumption DEF Inv, TypeOK, Stop
<1>4. /\ seq'[r] = 0 /\ batch'[r] = {} /\ unsent'[r] = {}
      /\ \A q \in Replicas \ {r} :
            /\ seq'[q] = seq[q] /\ batch'[q] = batch[q]
            /\ unsent'[q] = unsent[q] /\ todo'[q] = todo[q]
            /\ pc'[q] = pc[q]
  BY DEF Stop, Inv, TypeOK
<1>5. PositionInv'
  <2>1. Reached(checkpoint)' /\ Done(checkpoint)'
    BY DEF Reached, Done, Published, Public, Topic, Key, Range
  <2>2. ASSUME NEW q \in Replicas PROVE Reached(seq'[q]) /\ Done(seq'[q])
    BY <1>4, DoneZero DEF Inv, PositionInv
  <2>3. ASSUME NEW q \in Replicas PROVE Reached(seq[q])' /\ Done(seq[q])'
    BY <2>2 DEF Reached, Done, Published, Public, Topic, Key, Range
  <2> QED
    BY <2>1, <2>3 DEF PositionInv
<1>6. BatchInv'
  <2>1. \A e : Published(e)' <=> Published(e)
    BY StoreUnchanged
  <2> QED
    BY <1>4, <2>1 DEF Inv, BatchInv, Topic, Public
<1> QED
  BY <1>2, <1>3, <1>5, <1>6 DEF Inv

\* Starting Run keeps the invariant: the checkpoint is a done position.
LEMMA StartInv ==
    ASSUME Inv, NEW r \in Replicas, Start(r)
    PROVE  Inv'
<1> USE DEF Start
<1>1. StoreInv' /\ LogInv' /\ KeyOrder'
  BY StoreUnchanged DEF Inv
<1>2. TypeOK'
  BY DEF Inv, TypeOK
<1>3. /\ seq'[r] = checkpoint
      /\ \A q \in Replicas \ {r} : seq'[q] = seq[q] /\ pc'[q] = pc[q]
  BY DEF Inv, TypeOK
<1>4. PositionInv'
  <2>1. Reached(checkpoint)' /\ Done(checkpoint)'
    BY DEF Inv, PositionInv, Reached, Done, Published, Public, Topic, Key,
           Range
  <2>2. ASSUME NEW q \in Replicas PROVE Reached(seq'[q]) /\ Done(seq'[q])
    BY <1>3 DEF Inv, PositionInv
  <2>3. ASSUME NEW q \in Replicas PROVE Reached(seq[q])' /\ Done(seq[q])'
    BY <2>2 DEF Reached, Done, Published, Public, Topic, Key, Range
  <2> QED
    BY <2>1, <2>3 DEF PositionInv
<1>5. BatchInv'
  \* A replica that is down holds no batch.
  <2>1. \A e : Published(e)' <=> Published(e)
    BY StoreUnchanged
  <2>2. batch[r] = {}
    BY DEF Inv, BatchInv
  <2> QED
    BY <1>3, <2>1, <2>2 DEF Inv, BatchInv, Topic, Public
<1> QED
  BY <1>1, <1>2, <1>4, <1>5 DEF Inv

\* Reading a batch keeps the invariant: it continues the position without
\* a hole.
LEMMA ReadInv ==
    ASSUME Inv, NEW r \in Replicas, Read(r)
    PROVE  Inv'
<1> DEFINE recs == ReadAll(seq[r], BatchSize)
           public == {e \in recs : Public(e)}
<1>1. UNCHANGED <<events, log, checkpoint, seq, faults>>
      /\ \A e \in recs : Topic(e) # Poison
  BY DEF Read
<1>2. StoreInv' /\ LogInv' /\ KeyOrder'
  BY <1>1, StoreUnchanged DEF Inv
<1>3. recs \subseteq events /\ \A e \in recs : e.seq > seq[r]
  BY DEF ReadAll
<1>4. {Topic(e) : e \in public} \subseteq Topics
  BY DEF Public
<1>5. /\ batch' = [batch EXCEPT ![r] = recs]
      /\ todo' = [todo EXCEPT ![r] = {Topic(e) : e \in public}]
      /\ unsent' = [unsent EXCEPT ![r] = public]
      /\ pc' = [pc EXCEPT ![r] = "publish"]
  BY DEF Read
<1> HIDE DEF recs
<1>6. TypeOK'
  BY <1>1, <1>3, <1>4, <1>5 DEF Inv, TypeOK
<1>7. PositionInv'
  BY <1>1 DEF Inv, PositionInv, Reached, Done, Published, Public, Topic,
              Key, Range
<1>8. BatchInv'
  <2>1. \A e : Published(e)' <=> Published(e)
    BY <1>1, StoreUnchanged
  <2>2. ASSUME NEW e \in recs, NEW f \in events, seq[r] < f.seq,
               f.seq <= e.seq
        PROVE  f \in recs
    <3>1. seq[r] \in Nat /\ BatchSize \in Nat /\ StoreInv
      BY Types, RelayAssumption DEF Inv
    <3> QED
      BY <2>2, <3>1, ReadAllClosed DEF recs
  <2>3. /\ batch'[r] = recs /\ unsent'[r] = public
        /\ todo'[r] = {Topic(e) : e \in public}
        /\ \A q \in Replicas \ {r} :
              /\ batch'[q] = batch[q] /\ unsent'[q] = unsent[q]
              /\ todo'[q] = todo[q] /\ pc'[q] = pc[q]
        /\ pc'[r] = "publish"
    BY <1>5 DEF Inv, TypeOK
  <2>4. ASSUME NEW q \in Replicas \ {r}
        PROVE  /\ pc'[q] # "publish" => batch'[q] = {}
               /\ batch'[q] \subseteq events
               /\ \A e \in batch'[q] : e.seq > seq[q] /\ Topic(e) # Poison
               /\ \A e \in batch'[q], f \in events :
                     seq[q] < f.seq /\ f.seq <= e.seq => f \in batch'[q]
               /\ unsent'[q] \subseteq batch'[q]
               /\ \A e \in unsent'[q] : Topic(e) \in todo'[q]
               /\ \A e \in batch'[q] :
                     Public(e) => e \in unsent'[q] \/ Published(e)
    BY <2>3 DEF Inv, BatchInv
  <2>5. /\ batch'[r] \subseteq events
        /\ \A e \in batch'[r] : e.seq > seq[r] /\ Topic(e) # Poison
        /\ \A e \in batch'[r], f \in events :
              seq[r] < f.seq /\ f.seq <= e.seq => f \in batch'[r]
        /\ unsent'[r] \subseteq batch'[r]
        /\ \A e \in unsent'[r] : Topic(e) \in todo'[r]
        /\ \A e \in batch'[r] :
              Public(e) => e \in unsent'[r] \/ Published(e)
    BY <1>1, <1>3, <2>2, <2>3 DEF recs
  <2> QED
    BY <1>1, <2>1, <2>3, <2>4, <2>5 DEF BatchInv, Topic, Public
<1> QED
  BY <1>2, <1>6, <1>7, <1>8 DEF Inv

\* A replica that sends part of its batch or retries it: the batch itself,
\* the position and the store stay, nothing published is withdrawn.
LEMMA SendingInv ==
    ASSUME Inv, NEW r \in Replicas, UNCHANGED <<events, pc, seq, batch>>,
           \A e \in events : Published(e) => Published(e)',
           NEW newTodo, NEW newUnsent,
           todo' = [todo EXCEPT ![r] = newTodo],
           unsent' = [unsent EXCEPT ![r] = newUnsent],
           newUnsent \subseteq batch[r],
           \A e \in newUnsent : Topic(e) \in newTodo,
           \A e \in batch[r] :
              Public(e) => e \in newUnsent \/ Published(e)',
           UNCHANGED checkpoint
    PROVE  PositionInv' /\ BatchInv'
<1>1. PositionInv'
  BY DEF Inv, PositionInv, Reached, Done, Topic
<1>2. BatchInv'
  <2>1. /\ todo'[r] = newTodo /\ unsent'[r] = newUnsent
        /\ \A q \in Replicas \ {r} : todo'[q] = todo[q]
                                     /\ unsent'[q] = unsent[q]
    BY DEF Inv, TypeOK
  <2>2. \A q \in Replicas : batch[q] \subseteq events
    BY DEF Inv, BatchInv
  <2> SUFFICES ASSUME NEW q \in Replicas
               PROVE  /\ unsent'[q] \subseteq batch[q]
                      /\ \A e \in unsent'[q] : Topic(e) \in todo'[q]
                      /\ \A e \in batch[q] :
                            Public(e) => e \in unsent'[q] \/ Published(e)'
    BY DEF Inv, BatchInv, Topic, Public
  <2>3. CASE q = r
    BY <2>1, <2>3
  <2>4. CASE q # r
    BY <2>1, <2>2, <2>4 DEF Inv, BatchInv
  <2> QED
    BY <2>3, <2>4
<1> QED
  BY <1>1, <1>2

\* Accepting a message keeps the invariant, the order per key included.
LEMMA AcceptInv ==
    ASSUME Inv, NEW r \in Replicas, Accept(r)
    PROVE  Inv'
<1>1. UNCHANGED <<events, checkpoint, pc, seq, batch, todo, faults>>
  BY DEF Accept
<1>2. PICK t \in todo[r], m \in unsent[r] :
         /\ Topic(m) = t
         /\ \A n \in unsent[r] :
               Topic(n) = t /\ Key(n) = Key(m) => m.seq <= n.seq
         /\ log' = [log EXCEPT ![t][Key(m)] = Append(@, m)]
         /\ unsent' = [unsent EXCEPT ![r] = @ \ {m}]
  BY DEF Accept
<1> DEFINE k == Key(m)
           old == log[t][k]
<1>3. m \in batch[r] /\ m \in events /\ t \in Topics
  BY DEF Inv, BatchInv, TypeOK
<1>4. k \in Keys /\ m \in Event /\ old \in Seq(Event)
  BY <1>3, Types
<1>5. /\ log'[t][k] = Append(old, m)
      /\ \A u \in Topics, j \in Keys :
            u # t \/ j # k => log'[u][j] = log[u][j]
  BY <1>2, <1>3, <1>4 DEF Inv, TypeOK
<1>6. Range(Append(old, m)) = Range(old) \cup {m}
  <2>1. Len(Append(old, m)) = Len(old) + 1 /\ Len(old) \in Nat
        /\ \A i \in 1..Len(old) : Append(old, m)[i] = old[i]
        /\ Append(old, m)[Len(old) + 1] = m
    BY <1>4
  <2>2. DOMAIN Append(old, m) = 1..(Len(old) + 1)
        /\ DOMAIN old = 1..Len(old)
    BY <1>4, <2>1
  <2> QED
    BY <2>1, <2>2 DEF Range
<1>7. \A e \in events : Published(e) => Published(e)'
  <2> SUFFICES ASSUME NEW e \in events, Published(e) PROVE Published(e)'
    OBVIOUS
  <2>1. Topic(e) \in Topics /\ Key(e) \in Keys
        /\ e \in Range(log[Topic(e)][Key(e)])
    BY Types DEF Published, Public
  <2>2. e \in Range(log'[Topic(e)][Key(e)])
    BY <1>5, <1>6, <2>1
  <2> QED
    BY <2>1, <2>2 DEF Published, Public, Topic, Key, Range
<1>8. Published(m)'
  <2>1. m \in Range(log'[t][k])
    BY <1>5, <1>6
  <2> QED
    BY <1>2, <1>3, <2>1 DEF Published, Public, Topic, Key, Range
<1>9. PositionInv' /\ BatchInv'
  <2>1. unsent[r] \ {m} \subseteq batch[r]
        /\ \A e \in unsent[r] \ {m} : Topic(e) \in todo[r]
    BY DEF Inv, BatchInv
  <2>2. \A e \in batch[r] :
           Public(e) => e \in unsent[r] \ {m} \/ Published(e)'
    BY <1>7, <1>8 DEF Inv, BatchInv
  <2>3. todo' = [todo EXCEPT ![r] = todo[r]]
    BY <1>1 DEF Inv, TypeOK
  <2>4. unsent' = [unsent EXCEPT ![r] = unsent[r] \ {m}]
    BY <1>2
  <2> QED
    BY <1>1, <1>7, <2>1, <2>2, <2>3, <2>4, SendingInv
<1>10. StoreInv'
  BY <1>1 DEF Inv, StoreInv, WellFormed, Versions
<1>11. TypeOK'
  <2>1. Append(old, m) \in Seq(Event)
    BY <1>4
  <2>2. log' \in [Topics -> [Keys -> Seq(Event)]]
    BY <1>2, <1>3, <1>4, <2>1 DEF Inv, TypeOK
  <2> QED
    BY <1>1, <1>2, <2>2 DEF Inv, TypeOK
<1>12. LogInv'
  <2> SUFFICES ASSUME NEW u \in Topics, NEW j \in Keys
               PROVE  Range(log'[u][j]) \subseteq events
    BY <1>1 DEF LogInv, Range
  <2> QED
    BY <1>3, <1>5, <1>6 DEF Inv, LogInv
<1>13. ASSUME NEW e \in events, Topic(e) = t, Key(e) = k, e.seq < m.seq
       PROVE  \E j \in 1..Len(old) : old[j] = e
  <2>1. Published(e)
    <3>1. CASE e.seq <= seq[r]
      <4>1. Topic(e) # Private
        BY <1>3, <1>13, RelayAssumption
      <4> QED
        BY <3>1, <4>1 DEF Inv, PositionInv, Done
    <3>2. CASE ~(e.seq <= seq[r])
      <4>1. seq[r] < e.seq /\ e.seq <= m.seq
        BY <1>3, <1>13, <3>2, Types
      <4>2. e \in batch[r]
        BY <1>3, <4>1 DEF Inv, BatchInv
      <4>3. e \notin unsent[r]
        BY <1>2, <1>3, <1>13, Types
      <4> QED
        BY <1>3, <1>13, <4>2, <4>3 DEF Inv, BatchInv, Public
    <3> QED
      BY <3>1, <3>2
  <2>2. e \in Range(old)
    BY <2>1, <1>13 DEF Published
  <2> QED
    BY <1>4, <2>2 DEF Range
<1>14. KeyOrder'
  <2> SUFFICES ASSUME NEW u \in Topics, NEW j \in Keys,
                      NEW i \in 1..Len(log'[u][j]), NEW e \in events,
                      Topic(e) = u, Key(e) = j, e.seq < log'[u][j][i].seq
               PROVE  \E h \in 1..(i - 1) : log'[u][j][h] = e
    BY <1>1 DEF KeyOrder, Topic, Key
  <2>1. CASE u # t \/ j # k
    BY <1>5, <2>1 DEF Inv, KeyOrder
  <2>2. CASE u = t /\ j = k
    <3>1. /\ Len(log'[u][j]) = Len(old) + 1 /\ Len(old) \in Nat
          /\ \A h \in 1..Len(old) : log'[u][j][h] = old[h]
          /\ log'[u][j][Len(old) + 1] = m
      BY <1>4, <1>5, <2>2
    <3>2. CASE i \in 1..Len(old)
      <4>1. \E h \in 1..(i - 1) : old[h] = e
        <5>1. Topic(e) = t /\ Key(e) = k /\ e.seq < old[i].seq
          BY <2>2, <3>1, <3>2
        <5>2. \A g \in 1..Len(log[t][k]) : \A f \in events :
                 Topic(f) = t /\ Key(f) = k /\ f.seq < log[t][k][g].seq
                    => \E h \in 1..(g - 1) : log[t][k][h] = f
          BY <1>3, <1>4 DEF Inv, KeyOrder
        <5> QED
          BY <3>2, <5>1, <5>2
      <4> QED
        BY <3>1, <3>2, <4>1
    <3>3. CASE i = Len(old) + 1
      <4>1. \E h \in 1..Len(old) : old[h] = e
        BY <1>13, <2>2, <3>1, <3>3
      <4> QED
        BY <3>1, <3>3, <4>1
    <3> QED
      BY <3>1, <3>2, <3>3
  <2> QED
    BY <2>1, <2>2
<1> QED
  BY <1>9, <1>10, <1>11, <1>12, <1>14 DEF Inv

\* Finishing a topic keeps the invariant: nothing of it was unsent.
LEMMA PublishReturnsInv ==
    ASSUME Inv, NEW r \in Replicas, PublishReturns(r)
    PROVE  Inv'
<1>1. UNCHANGED <<events, log, checkpoint, pc, seq, batch, unsent, faults>>
  BY DEF PublishReturns
<1>2. PICK t \in todo[r] : /\ Messages(unsent[r], t) = {}
                           /\ todo' = [todo EXCEPT ![r] = @ \ {t}]
  BY DEF PublishReturns
<1>3. StoreInv' /\ LogInv' /\ KeyOrder'
      /\ \A e : Published(e)' <=> Published(e)
  BY <1>1, StoreUnchanged DEF Inv
<1>4. TypeOK'
  BY <1>1, <1>2 DEF Inv, TypeOK
<1>5. PositionInv' /\ BatchInv'
  <2>1. \A e \in unsent[r] : Topic(e) \in todo[r] \ {t}
    BY <1>2 DEF Inv, BatchInv, Messages
  <2>2. unsent[r] \subseteq batch[r]
        /\ \A e \in batch[r] : Public(e) => e \in unsent[r] \/ Published(e)'
    BY <1>3 DEF Inv, BatchInv
  <2>3. unsent' = [unsent EXCEPT ![r] = unsent[r]]
    BY <1>1 DEF Inv, TypeOK
  <2> QED
    BY <1>1, <1>2, <1>3, <2>1, <2>2, <2>3, SendingInv
<1> QED
  BY <1>3, <1>4, <1>5 DEF Inv

\* A failed publish keeps the invariant: the whole topic is unsent again.
LEMMA PublishFailsInv ==
    ASSUME Inv, NEW r \in Replicas, PublishFails(r)
    PROVE  Inv'
<1>1. UNCHANGED <<events, log, checkpoint, pc, seq, batch, todo>>
      /\ faults' \in 0..MaxFaults
  BY FaultsAssumption DEF PublishFails, Fault, Inv, TypeOK
<1>2. PICK t \in todo[r] :
         unsent' = [unsent EXCEPT ![r] = @ \cup Messages(batch[r], t)]
  BY DEF PublishFails
<1>3. StoreInv' /\ LogInv' /\ KeyOrder'
      /\ \A e : Published(e)' <=> Published(e)
  BY <1>1, StoreUnchanged DEF Inv
<1>4. TypeOK'
  BY <1>1, <1>2 DEF Inv, TypeOK, Messages
<1>5. PositionInv' /\ BatchInv'
  <2> DEFINE again == unsent[r] \cup Messages(batch[r], t)
  <2>1. again \subseteq batch[r] /\ \A e \in again : Topic(e) \in todo[r]
    BY DEF Inv, BatchInv, Messages
  <2>2. \A e \in batch[r] : Public(e) => e \in again \/ Published(e)'
    BY <1>3 DEF Inv, BatchInv
  <2>3. todo' = [todo EXCEPT ![r] = todo[r]]
        /\ unsent' = [unsent EXCEPT ![r] = again]
    BY <1>1, <1>2 DEF Inv, TypeOK
  <2>4. \A e \in events : Published(e) => Published(e)'
    BY <1>3
  <2> HIDE DEF again
  <2> QED
    BY <1>1, <2>1, <2>2, <2>3, <2>4, SendingInv
<1> QED
  BY <1>3, <1>4, <1>5 DEF Inv

\* Advancing keeps the invariant: the batch is published or private, so its
\* last position is done.
LEMMA AdvanceInv ==
    ASSUME Inv, NEW r \in Replicas, Advance(r)
    PROVE  Inv'
<1>1. UNCHANGED <<events, log>> /\ todo[r] = {}
  BY DEF Advance
<1>2. PICK last \in batch[r] :
         /\ \A e \in batch[r] : e.seq <= last.seq
         /\ \/ /\ checkpoint' = last.seq
               /\ pc' = [pc EXCEPT ![r] = "read"]
               /\ seq' = [seq EXCEPT ![r] = last.seq]
               /\ batch' = [batch EXCEPT ![r] = {}]
               /\ UNCHANGED <<todo, unsent, faults>>
            \/ /\ checkpoint' \in {checkpoint, last.seq}
               /\ Stop(r)
               /\ Fault
  BY DEF Advance
<1>3. last \in events /\ unsent[r] = {} /\ batch[r] \subseteq events
  BY <1>1 DEF Inv, BatchInv
<1>4. Reached(last.seq)
  BY <1>3 DEF Reached
\* Everything up to the last event of the batch is done: below the old
\* position by the invariant, above it because it is in the batch.
<1>5. Done(last.seq)
  <2> SUFFICES ASSUME NEW e \in events, e.seq <= last.seq
               PROVE  Topic(e) = Private \/ Published(e)
    BY DEF Done
  <2>1. CASE e.seq <= seq[r]
    BY <2>1 DEF Inv, PositionInv, Done
  <2>2. CASE ~(e.seq <= seq[r])
    <3>1. seq[r] < e.seq
      BY <2>2, Types
    <3>2. e \in batch[r]
      BY <1>2, <3>1 DEF Inv, BatchInv
    <3>3. Public(e) => Published(e)
      BY <1>3, <3>2 DEF Inv, BatchInv
    <3>4. Topic(e) # Poison /\ Topic(e) \in Topics \cup {Private, Poison}
      BY <3>2, Types, RelayAssumption DEF Inv, BatchInv, Topic
    <3> QED
      BY <3>3, <3>4 DEF Public
  <2> QED
    BY <2>1, <2>2
<1>6. last.seq \in 0..MaxSeq
  BY <1>3, StoreAssumption DEF Inv, TypeOK, Event
<1>7. CASE checkpoint' \in {checkpoint, last.seq} /\ Stop(r) /\ Fault
  <2>1. faults' \in 0..MaxFaults
    BY <1>7, FaultsAssumption DEF Fault, Inv, TypeOK
  <2>2. checkpoint' \in 0..MaxSeq /\ Reached(checkpoint')
        /\ Done(checkpoint')
    BY <1>4, <1>5, <1>6, <1>7 DEF Inv, TypeOK, PositionInv
  <2> QED
    BY <1>1, <1>7, <2>1, <2>2, StopInv
<1>8. CASE /\ checkpoint' = last.seq
           /\ pc' = [pc EXCEPT ![r] = "read"]
           /\ seq' = [seq EXCEPT ![r] = last.seq]
           /\ batch' = [batch EXCEPT ![r] = {}]
           /\ UNCHANGED <<todo, unsent, faults>>
  <2>1. StoreInv' /\ LogInv' /\ KeyOrder'
        /\ \A e : Published(e)' <=> Published(e)
    BY <1>1, StoreUnchanged DEF Inv
  <2>2. TypeOK'
    BY <1>1, <1>6, <1>8 DEF Inv, TypeOK
  <2>3. /\ seq'[r] = last.seq /\ batch'[r] = {} /\ unsent'[r] = {}
        /\ \A q \in Replicas \ {r} :
              seq'[q] = seq[q] /\ batch'[q] = batch[q] /\ pc'[q] = pc[q]
    BY <1>3, <1>8 DEF Inv, TypeOK
  <2>4. PositionInv'
    <3>1. Reached(checkpoint)' /\ Done(checkpoint)'
      BY <1>1, <1>4, <1>5, <1>8
         DEF Reached, Done, Published, Public, Topic, Key, Range
    <3>2. ASSUME NEW q \in Replicas PROVE Reached(seq'[q]) /\ Done(seq'[q])
      BY <1>4, <1>5, <2>3 DEF Inv, PositionInv
    <3>3. ASSUME NEW q \in Replicas PROVE Reached(seq[q])' /\ Done(seq[q])'
      BY <1>1, <3>2
         DEF Reached, Done, Published, Public, Topic, Key, Range
    <3> QED
      BY <3>1, <3>3 DEF PositionInv
  <2>5. BatchInv'
    BY <1>1, <1>8, <2>1, <2>3 DEF Inv, BatchInv, Topic, Public
  <2> QED
    BY <2>1, <2>2, <2>4, <2>5 DEF Inv
<1> QED
  BY <1>2, <1>7, <1>8

\* Losing a replica keeps the invariant: only local state is lost.
LEMMA CrashInv ==
    ASSUME Inv, NEW r \in Replicas, Crash(r) \/ ReadPoison(r)
    PROVE  Inv'
<1>1. Stop(r) /\ UNCHANGED <<events, log, checkpoint>>
      /\ faults' \in 0..MaxFaults
  BY FaultsAssumption DEF Crash, ReadPoison, Fault, Inv, TypeOK
<1>2. checkpoint' \in 0..MaxSeq /\ Reached(checkpoint') /\ Done(checkpoint')
  BY <1>1 DEF Inv, TypeOK, PositionInv
<1> QED
  BY <1>1, <1>2, StopInv

-----------------------------------------------------------------------------
\* Every step keeps the inductive invariant.
LEMMA NextInv == Inv /\ [Next]_vars => Inv'
<1> SUFFICES ASSUME Inv, [Next]_vars PROVE Inv'
  OBVIOUS
<1>1. CASE UNCHANGED vars
  <2> USE <1>1 DEF vars, local
  <2>1. StoreInv' /\ LogInv' /\ KeyOrder'
        /\ \A e : Published(e)' <=> Published(e)
    BY StoreUnchanged DEF Inv
  <2>2. TypeOK'
    BY DEF Inv, TypeOK
  <2>3. PositionInv'
    BY DEF Inv, PositionInv, Reached, Done, Published, Public, Topic, Key,
           Range
  <2>4. BatchInv'
    BY <2>1 DEF Inv, BatchInv, Topic, Public
  <2> QED
    BY <2>1, <2>2, <2>3, <2>4 DEF Inv
<1>2. CASE Write
  BY <1>2, WriteInv
<1>3. ASSUME NEW r \in Replicas, ReplicaNext(r) PROVE Inv'
  <2>1. CASE Start(r)
    BY <2>1, StartInv
  <2>2. CASE Read(r)
    BY <2>2, ReadInv
  <2>3. CASE Idle(r)
    BY <2>3, <1>1 DEF Idle
  <2>4. CASE ReadPoison(r) \/ Crash(r)
    BY <2>4, CrashInv
  <2>5. CASE Accept(r)
    BY <2>5, AcceptInv
  <2>6. CASE PublishReturns(r)
    BY <2>6, PublishReturnsInv
  <2>7. CASE PublishFails(r)
    BY <2>7, PublishFailsInv
  <2>8. CASE Advance(r)
    BY <2>8, AdvanceInv
  <2> QED
    BY <1>3, <2>1, <2>2, <2>3, <2>4, <2>5, <2>6, <2>7, <2>8 DEF ReplicaNext
<1> QED
  BY <1>1, <1>2, <1>3 DEF Next

\* The inductive invariant of the relay: every step of every replica, and
\* every append, keeps it.
THEOREM Invariance == Spec => []Inv
  BY InitInv, NextInv, PTL DEF Spec

\* Type correctness of the relay.
THEOREM TypeCorrect == Spec => []TypeOK
<1>1. Inv => TypeOK
  BY DEF Inv
<1> QED
  BY <1>1, Invariance, PTL

(***************************************************************************)
(* At-least-once delivery: the checkpoint never passes an event that       *)
(* should be in the broker and is not, with any number of replicas, after  *)
(* any crash, failed publish or failed or ambiguous checkpoint save.       *)
(***************************************************************************)
THEOREM DeliversAtLeastOnce == Spec => []AtLeastOnce
<1>1. Inv => AtLeastOnce
  BY DEF Inv, PositionInv, Done, AtLeastOnce
<1> QED
  BY <1>1, Invariance, PTL

\* Delivery in commit order per topic and key, duplicates aside.
THEOREM DeliversInOrder == Spec => []KeyOrder
<1>1. Inv => KeyOrder
  BY DEF Inv
<1> QED
  BY <1>1, Invariance, PTL
==============================================================================
