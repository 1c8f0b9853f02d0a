----------------------------- MODULE SagaProofs -----------------------------
(***************************************************************************)
(* First, the saga runner decides each message once, from the state it is  *)
(* recorded after, records nothing behind the end marker and acknowledges  *)
(* nothing it has not recorded: for any number of consumers, any feeds and *)
(* any handlers.  Then, the example's fulfillment saga ships only what is  *)
(* paid for and asks for nothing a service refuses: for any totals and     *)
(* quantities.                                                             *)
(***************************************************************************)
EXTENDS Saga, Fulfillment, FiniteSetTheorems, SequenceTheorems, TLAPS

\* One sequence behind another.
LEMMA Behind ==
    ASSUME NEW S, NEW s \in Seq(S), NEW t \in Seq(S), NEW c, c = s \o t
    PROVE  /\ c \in Seq(S) /\ Len(c) = Len(s) + Len(t)
           /\ \A i \in 1..Len(s) : c[i] = s[i]
           /\ \A j \in 1..Len(t) : c[Len(s) + j] = t[j]
<1>1. Len(s) \in Nat /\ Len(t) \in Nat
  BY LenProperties
<1>2. /\ c \in Seq(S) /\ Len(c) = Len(s) + Len(t)
      /\ \A i \in 1..Len(s) + Len(t) :
            c[i] = IF i <= Len(s) THEN s[i] ELSE t[i - Len(s)]
  BY ConcatProperties
<1>3. \A i \in 1..Len(s) : c[i] = s[i]
  BY <1>1, <1>2
<1>4. ASSUME NEW j \in 1..Len(t) PROVE c[Len(s) + j] = t[j]
  <2>1. /\ Len(s) + j \in 1..Len(s) + Len(t) /\ ~(Len(s) + j <= Len(s))
        /\ (Len(s) + j) - Len(s) = j
    BY <1>1
  <2> QED
    BY <1>2, <2>1
<1> QED
  BY <1>1, <1>2, <1>3, <1>4

\* The message a consumer is given while it works is one of the feed's.
LEMMA CurrentType ==
    ASSUME Inv, NEW c \in Consumers, offset[c] <= Len(Feed[c])
    PROVE  Current(c) \in Msgs
<1>1. offset[c] \in Nat \ {0} /\ Feed[c] \in Seq(Msgs)
  BY SagaAssumption DEF Inv, TypeOK
<1> QED
  BY <1>1 DEF Current

\* What one delivery appends: an envelope, its commands, an end marker or
\* none.
LEMMA DecidedShape ==
    ASSUME NEW m \in Msgs, NEW basis \in SUBSET Msgs
    PROVE  LET d == Decided(m, basis)
               k == Commands[m]
           IN /\ k \in Nat
              /\ d \in Seq(Recordable)
              /\ Len(d) = k + 1 + (IF m \in Ends THEN 1 ELSE 0)
              /\ d[1] = Entry("received", m, basis)
              /\ \A i \in 2..(k + 1) : d[i] = Entry("command", m, basis)
              /\ m \in Ends => d[k + 2] = Entry("ended", m, basis)
<1> DEFINE k == Commands[m]
           a == <<Entry("received", m, basis)>>
           b == [i \in 1..k |-> Entry("command", m, basis)]
           e == IF m \in Ends THEN <<Entry("ended", m, basis)>> ELSE <<>>
<1>1. k \in Nat
  BY SagaAssumption
<1>2. \A kind \in {"received", "command", "ended"} :
         Entry(kind, m, basis) \in Recordable
  BY DEF Entry, Recordable
<1>3. a \in Seq(Recordable) /\ Len(a) = 1
      /\ a[1] = Entry("received", m, basis)
  BY <1>2
<1>4. b \in Seq(Recordable) /\ Len(b) = k
      /\ \A i \in 1..k : b[i] = Entry("command", m, basis)
  BY <1>1, <1>2
<1>5. /\ e \in Seq(Recordable) /\ Len(e) = IF m \in Ends THEN 1 ELSE 0
      /\ m \in Ends => e[1] = Entry("ended", m, basis)
  BY <1>2
<1>6. Decided(m, basis) = (a \o b) \o e
  BY DEF Decided
<1> HIDE DEF a, b, e, k
<1> DEFINE ab == a \o b
<1>7. /\ ab \in Seq(Recordable) /\ Len(ab) = k + 1
      /\ ab[1] = Entry("received", m, basis)
      /\ \A i \in 2..(k + 1) : ab[i] = Entry("command", m, basis)
  <2>1. ab = a \o b
    OBVIOUS
  <2>2. a \in Seq(Recordable) /\ b \in Seq(Recordable)
    BY <1>3, <1>4
  <2> HIDE DEF ab
  <2>3. /\ ab \in Seq(Recordable) /\ Len(ab) = Len(a) + Len(b)
        /\ \A i \in 1..Len(a) : ab[i] = a[i]
        /\ \A j \in 1..Len(b) : ab[Len(a) + j] = b[j]
    BY <2>1, <2>2, Behind
  <2>4. /\ ab \in Seq(Recordable) /\ Len(ab) = 1 + k
        /\ \A i \in 1..1 : ab[i] = a[i]
        /\ \A j \in 1..k : ab[1 + j] = b[j]
    BY <1>3, <1>4, <2>3
  <2>5. ab[1] = a[1] /\ Len(ab) = k + 1
    BY <1>1, <2>4
  <2>6. ASSUME NEW i \in 2..(k + 1)
        PROVE  ab[i] = Entry("command", m, basis)
    <3>1. i - 1 \in 1..k /\ 1 + (i - 1) = i
      BY <1>1
    <3>2. ab[1 + (i - 1)] = b[i - 1]
      BY <2>4, <3>1
    <3> QED
      BY <1>4, <3>1, <3>2
  <2> QED
    BY <1>3, <2>4, <2>5, <2>6
<1> HIDE DEF ab
<1>8. Decided(m, basis) = ab \o e
  BY <1>6 DEF ab
<1> DEFINE d == ab \o e
<1>9. d = ab \o e
  OBVIOUS
<1> HIDE DEF d
<1>10. /\ d \in Seq(Recordable) /\ Len(d) = Len(ab) + Len(e)
       /\ \A i \in 1..Len(ab) : d[i] = ab[i]
       /\ \A j \in 1..Len(e) : d[Len(ab) + j] = e[j]
  BY <1>5, <1>7, <1>9, Behind
<1>11. (k + 1) + 1 = k + 2
  BY <1>1
<1>12. m \in Ends => d[k + 2] = e[1]
  BY <1>5, <1>7, <1>10, <1>11
<1>13. 1 \in 1..(k + 1) /\ \A i \in 2..(k + 1) : i \in 1..(k + 1)
  BY <1>1
<1>14. Decided(m, basis) = d
  BY <1>8 DEF d
<1> QED
  BY <1>1, <1>5, <1>7, <1>10, <1>11, <1>12, <1>13, <1>14 DEF k

\* The stream after a save: the old one with a block behind it.
LEMMA SavedStream ==
    ASSUME Inv, NEW m \in Msgs, NEW basis \in SUBSET Msgs,
           stream' = stream \o Decided(m, basis)
    PROVE  LET n == Len(stream)
               k == Commands[m]
           IN /\ n \in Nat /\ k \in Nat
              /\ stream' \in Seq(Recordable)
              /\ Len(stream') = n + k + 1 + (IF m \in Ends THEN 1 ELSE 0)
              /\ \A i \in 1..n : stream'[i] = stream[i]
              /\ stream'[n + 1] = Entry("received", m, basis)
              /\ \A i \in (n + 2)..(n + k + 1) :
                    stream'[i] = Entry("command", m, basis)
              /\ m \in Ends => stream'[n + k + 2] = Entry("ended", m, basis)
<1> DEFINE n == Len(stream)
           k == Commands[m]
           d == Decided(m, basis)
<1>1. /\ k \in Nat
      /\ d \in Seq(Recordable)
      /\ Len(d) = k + 1 + (IF m \in Ends THEN 1 ELSE 0)
      /\ d[1] = Entry("received", m, basis)
      /\ \A i \in 2..(k + 1) : d[i] = Entry("command", m, basis)
      /\ m \in Ends => d[k + 2] = Entry("ended", m, basis)
  BY DecidedShape
<1>2. stream \in Seq(Recordable) /\ n \in Nat
  BY DEF Inv, TypeOK
<1>3. stream' = stream \o d
  OBVIOUS
<1> HIDE DEF d, k
<1>4. /\ stream' \in Seq(Recordable) /\ Len(stream') = n + Len(d)
      /\ \A i \in 1..n : stream'[i] = stream[i]
      /\ \A j \in 1..Len(d) : stream'[n + j] = d[j]
  <2>1. d \in Seq(Recordable)
    BY <1>1
  <2> QED
    BY <1>2, <1>3, <2>1, Behind
<1> HIDE DEF n
<1>5. stream'[n + 1] = d[1]
  BY <1>1, <1>2, <1>4
<1>6. ASSUME NEW i \in (n + 2)..(n + k + 1)
      PROVE  stream'[i] = Entry("command", m, basis)
  <2>1. i - n \in 2..(k + 1) /\ i - n \in 1..Len(d) /\ n + (i - n) = i
    BY <1>1, <1>2
  <2> QED
    BY <1>1, <1>4, <2>1
<1>7. ASSUME m \in Ends
      PROVE  stream'[n + k + 2] = Entry("ended", m, basis)
  <2>1. k + 2 \in 1..Len(d) /\ n + (k + 2) = n + k + 2
    BY <1>1, <1>2, <1>7
  <2> QED
    BY <1>1, <1>4, <1>7, <2>1
<1>8. Len(stream') = n + k + 1 + (IF m \in Ends THEN 1 ELSE 0)
  BY <1>1, <1>2, <1>4
<1> QED
  BY <1>1, <1>2, <1>4, <1>5, <1>6, <1>7, <1>8 DEF n, k

-----------------------------------------------------------------------------
\* An instance nobody has written to satisfies the invariant.
LEMMA InitInv == Init => Inv
<1> SUFFICES ASSUME Init PROVE Inv
  OBVIOUS
<1> USE DEF Init
<1>1. stream \in Seq(Recordable) /\ DOMAIN stream = {} /\ Len(stream) = 0
  OBVIOUS
<1>2. TypeOK
  BY <1>1, SagaAssumption, FaultsAssumption DEF TypeOK
<1>3. StreamInv /\ NoStaleDecision /\ EndIsFinal
  BY <1>1 DEF StreamInv, NoStaleDecision, EndIsFinal
<1>4. NothingLost /\ \A c \in Consumers : ConsumerInv(c)
  BY DEF NothingLost, ConsumerInv
<1> QED
  BY <1>2, <1>3, <1>4 DEF Inv

\* A step of one consumer that records nothing.
LEMMA ConsumerStep ==
    ASSUME Inv, NEW c \in Consumers, UNCHANGED stream, TypeOK', NothingLost',
           ConsumerInv(c)',
           \A q \in Consumers \ {c} : /\ offset'[q] = offset[q]
                                      /\ pc'[q] = pc[q]
                                      /\ loaded'[q] = loaded[q]
    PROVE  Inv'
<1>1. StreamInv' /\ NoStaleDecision' /\ EndIsFinal'
  BY DEF Inv, StreamInv, NoStaleDecision, EndIsFinal, Entries, Received, Seen
<1>2. ASSUME NEW q \in Consumers, q # c PROVE ConsumerInv(q)'
  BY <1>2 DEF Inv, ConsumerInv, Current, Seen, Ended
<1> QED
  BY <1>1, <1>2 DEF Inv

\* A message is acknowledged without a record: it was not this saga's, it
\* was received before, or the saga had ended.
LEMMA AckInv ==
    ASSUME Inv, NEW c \in Consumers, Ack(c), UNCHANGED <<stream, faults>>,
           offset[c] <= Len(Feed[c]),
           \/ Current(c) \in Ignored
           \/ Current(c) \in Seen(Len(stream))
           \/ Ended(Len(stream))
    PROVE  Inv'
<1>1. TypeOK'
  BY SagaAssumption DEF Inv, TypeOK, Ack
<1>2. /\ offset'[c] = offset[c] + 1 /\ pc'[c] = "idle"
      /\ \A q \in Consumers \ {c} : /\ offset'[q] = offset[q]
                                    /\ pc'[q] = pc[q]
                                    /\ loaded'[q] = loaded[q]
  BY DEF Inv, TypeOK, Ack
<1>3. offset[c] \in Nat \ {0}
  BY DEF Inv, TypeOK
<1>4. NothingLost'
  <2> SUFFICES ASSUME NEW q \in Consumers, NEW i \in 1..(offset'[q] - 1)
               PROVE  \/ Feed[q][i] \in Ignored
                      \/ Feed[q][i] \in Seen(Len(stream))
                      \/ Ended(Len(stream))
    BY DEF NothingLost, Seen, Ended
  <2>1. CASE q = c /\ i = offset[c]
    BY <2>1 DEF Current
  <2>2. CASE ~(q = c /\ i = offset[c])
    <3>1. i \in 1..(offset[q] - 1)
      BY <1>2, <1>3, <2>2
    <3> QED
      BY <3>1 DEF Inv, NothingLost
  <2> QED
    BY <2>1, <2>2
<1>5. ConsumerInv(c)'
  BY <1>2 DEF ConsumerInv
<1> QED
  BY <1>1, <1>2, <1>4, <1>5, ConsumerStep

\* A message is handed back to the broker.
LEMMA NackInv ==
    ASSUME Inv, NEW c \in Consumers, Nack(c), UNCHANGED stream,
           faults' \in 0..MaxFaults
    PROVE  Inv'
<1>1. TypeOK'
  BY SagaAssumption DEF Inv, TypeOK, Nack
<1>2. /\ offset' = offset /\ pc'[c] = "idle"
      /\ \A q \in Consumers \ {c} : pc'[q] = pc[q] /\ loaded'[q] = loaded[q]
  BY DEF Inv, TypeOK, Nack
<1>3. NothingLost'
  BY <1>2 DEF Inv, NothingLost, Seen, Ended
<1>4. ConsumerInv(c)'
  BY <1>2 DEF ConsumerInv
<1> QED
  BY <1>1, <1>2, <1>3, <1>4, ConsumerStep

\* A consumer goes on with its message: to the next step of the handler.
LEMMA GoOnInv ==
    ASSUME Inv, NEW c \in Consumers, UNCHANGED <<stream, offset, faults>>,
           TypeOK', ConsumerInv(c)',
           \A q \in Consumers \ {c} : pc'[q] = pc[q] /\ loaded'[q] = loaded[q]
    PROVE  Inv'
<1>1. NothingLost'
  BY DEF Inv, NothingLost, Seen, Ended
<1> QED
  BY <1>1, ConsumerStep

\* A delivery.
LEMMA DeliverInv ==
    ASSUME Inv, NEW c \in Consumers, Deliver(c)
    PROVE  Inv'
<1>1. pc[c] = "idle" /\ offset[c] <= Len(Feed[c]) /\ UNCHANGED <<stream, faults>>
  BY DEF Deliver
<1>2. CASE ~Handles(Current(c)) /\ Ack(c)
  BY <1>1, <1>2, AckInv DEF Handles
<1>3. CASE /\ Handles(Current(c))
           /\ pc' = [pc EXCEPT ![c] = "process"]
           /\ UNCHANGED <<offset, loaded, attempt>>
  <2>1. TypeOK'
    BY <1>1, <1>3 DEF Inv, TypeOK
  <2>2. pc'[c] = "process" /\ \A q \in Consumers \ {c} : pc'[q] = pc[q]
    BY <1>3 DEF Inv, TypeOK
  <2>3. ConsumerInv(c)'
    BY <1>1, <1>3, <2>2 DEF ConsumerInv, Current, Handles
  <2> QED
    BY <1>1, <1>3, <2>1, <2>2, <2>3, GoOnInv
<1> QED
  BY <1>2, <1>3 DEF Deliver

\* A replay: of a message not seen in an instance not ended, or of one that
\* may be acknowledged.
LEMMA LoadInv ==
    ASSUME Inv, NEW c \in Consumers, Load(c)
    PROVE  Inv'
<1>1. /\ pc[c] = "process" /\ UNCHANGED <<stream, faults>>
      /\ offset[c] <= Len(Feed[c]) /\ Current(c) \notin Ignored
      /\ Len(stream) \in Nat
  BY DEF Load, Inv, ConsumerInv, TypeOK
<1>2. CASE /\ Ended(Len(stream)) \/ Current(c) \in Seen(Len(stream))
           /\ Ack(c)
  BY <1>1, <1>2, AckInv
<1>3. CASE /\ ~Ended(Len(stream)) /\ Current(c) \notin Seen(Len(stream))
           /\ pc' = [pc EXCEPT ![c] = "decided"]
           /\ loaded' = [loaded EXCEPT ![c] = Len(stream)]
           /\ UNCHANGED <<offset, attempt>>
  <2>1. TypeOK'
    BY <1>1, <1>3 DEF Inv, TypeOK
  <2>2. /\ pc'[c] = "decided" /\ loaded'[c] = Len(stream)
        /\ \A q \in Consumers \ {c} : pc'[q] = pc[q] /\ loaded'[q] = loaded[q]
    BY <1>3 DEF Inv, TypeOK
  <2>3. ConsumerInv(c)'
    BY <1>1, <1>3, <2>2 DEF ConsumerInv, Current, Seen, Ended
  <2> QED
    BY <1>1, <1>3, <2>1, <2>2, <2>3, GoOnInv
<1> QED
  BY <1>2, <1>3 DEF Load

\* A conflict: decide again, or hand the message back.
LEMMA ConflictInv ==
    ASSUME Inv, NEW c \in Consumers, Conflict(c)
    PROVE  Inv'
<1>1. pc[c] = "decided" /\ UNCHANGED <<stream, faults>>
  BY DEF Conflict
<1>2. CASE Nack(c)
  BY <1>1, <1>2, NackInv DEF Inv, TypeOK
<1>3. CASE /\ attempt[c] < ConflictRetries
           /\ attempt' = [attempt EXCEPT ![c] = @ + 1]
           /\ pc' = [pc EXCEPT ![c] = "process"]
           /\ loaded' = [loaded EXCEPT ![c] = 0]
           /\ UNCHANGED offset
  <2>1. TypeOK'
    <3>1. attempt[c] + 1 \in 0..ConflictRetries
      BY <1>3, SagaAssumption DEF Inv, TypeOK
    <3> QED
      BY <1>1, <1>3, <3>1 DEF Inv, TypeOK
  <2>2. /\ pc'[c] = "process"
        /\ \A q \in Consumers \ {c} : pc'[q] = pc[q] /\ loaded'[q] = loaded[q]
    BY <1>3 DEF Inv, TypeOK
  <2>3. ConsumerInv(c)'
    BY <1>1, <1>3, <2>2 DEF Inv, ConsumerInv, Current
  <2> QED
    BY <1>1, <1>3, <2>1, <2>2, <2>3, GoOnInv
<1> QED
  BY <1>2, <1>3 DEF Conflict

\* A failure hands the message back.
LEMMA FailInv ==
    ASSUME Inv, NEW c \in Consumers, Fail(c)
    PROVE  Inv'
<1>1. faults' \in 0..MaxFaults
  BY FaultsAssumption DEF Fail, Fault, Inv, TypeOK
<1> QED
  BY <1>1, NackInv DEF Fail

-----------------------------------------------------------------------------
\* Appending changes no prefix of the stream.
LEMMA PrefixKept ==
    ASSUME \A i \in 1..Len(stream) : stream'[i] = stream[i],
           Len(stream) \in Nat, NEW n \in 0..Len(stream)
    PROVE  Seen(n)' = Seen(n) /\ (Ended(n)' <=> Ended(n))
<1>1. \A i \in 1..n : stream'[i] = stream[i]
  OBVIOUS
<1> QED
  BY <1>1 DEF Seen, Ended

\* An optimistic append adds one block for a message the stream does not
\* mention, to a stream without an end marker.
LEMMA SaveInv ==
    ASSUME Inv, NEW c \in Consumers, Save(c)
    PROVE  Inv'
<1>1. PICK n \in Nat : n = Len(stream)
  BY DEF Inv, TypeOK
<1>2. PICK m, basis : m = Current(c) /\ basis = Seen(n)
  OBVIOUS
<1> DEFINE k == Commands[m]
           e == IF m \in Ends THEN 1 ELSE 0
<1>3. /\ pc[c] = "decided" /\ n = loaded[c]
      /\ stream' = stream \o Decided(m, basis)
      /\ (Ack(c) /\ UNCHANGED faults) \/ (Nack(c) /\ Fault)
  BY <1>1, <1>2 DEF Save
<1>4. /\ offset[c] <= Len(Feed[c]) /\ m \notin basis /\ ~Ended(n)
      /\ offset[c] \in Nat \ {0}
  BY <1>3, <1>1, <1>2 DEF Inv, ConsumerInv, TypeOK
<1>5. stream \in Seq(Recordable) /\ DOMAIN stream = 1..n
  BY <1>1, <1>2 DEF Inv, TypeOK
<1>6. m \in Msgs /\ basis \in SUBSET Msgs
  <2>1. \A r \in Recordable : r.msg \in Msgs
    BY DEF Recordable
  <2>2. \A i \in 1..n : stream[i].msg \in Msgs
    BY <1>5, <2>1
  <2>3. Seen(n) \subseteq Msgs
    BY <2>2 DEF Seen
  <2>4. Current(c) \in Msgs
    BY <1>4, CurrentType
  <2> QED
    BY <1>1, <1>2, <2>3, <2>4
<1>7. /\ n \in Nat /\ k \in Nat
      /\ stream' \in Seq(Recordable)
      /\ Len(stream') = n + k + 1 + e
      /\ \A i \in 1..n : stream'[i] = stream[i]
      /\ stream'[n + 1] = Entry("received", m, basis)
      /\ \A i \in (n + 2)..(n + k + 1) :
            stream'[i] = Entry("command", m, basis)
      /\ m \in Ends => stream'[n + k + 2] = Entry("ended", m, basis)
  BY <1>3, <1>6, <1>1, <1>2, SavedStream
<1>8. \A i \in 1..n : stream[i].msg # m
  BY <1>4, <1>5, <1>1, <1>2 DEF Inv, StreamInv, Received, Seen
<1>9. \A j \in 0..n : Seen(j)' = Seen(j) /\ (Ended(j)' <=> Ended(j))
  BY <1>7, <1>1, <1>2, PrefixKept
<1> HIDE DEF k, e
<1>10. DOMAIN stream' = 1..(n + k + 1 + e)
       /\ e = IF m \in Ends THEN 1 ELSE 0
  BY <1>7 DEF e
\* Each entry is an old one or a part of the new block.
<1>11. ASSUME NEW i \in DOMAIN stream'
       PROVE  \/ i \in 1..n /\ stream'[i] = stream[i]
              \/ i = n + 1 /\ stream'[i] = Entry("received", m, basis)
              \/ /\ i \in (n + 2)..(n + k + 1)
                 /\ stream'[i] = Entry("command", m, basis)
              \/ /\ i = n + k + 2 /\ i = Len(stream')
                 /\ stream'[i] = Entry("ended", m, basis)
  BY <1>7, <1>10
<1>12. \A i \in 1..n : i \in DOMAIN stream'
  BY <1>7, <1>10
<1>13. n + 1 \in DOMAIN stream' /\ n + 1 \notin 1..n
  BY <1>7, <1>10
<1>14. StreamInv'
  <2>1. ASSUME NEW i \in DOMAIN stream'
        PROVE  \E r \in DOMAIN stream' : /\ stream'[r].kind = "received"
                                         /\ stream'[r].msg = stream'[i].msg
    <3>1. CASE i \in 1..n /\ stream'[i] = stream[i]
      BY <1>5, <1>7, <1>12, <3>1 DEF Inv, StreamInv, Received
    <3>2. CASE stream'[i].msg = m
      BY <1>7, <1>13, <3>2 DEF Entry
    <3> QED
      BY <1>11, <3>1, <3>2 DEF Entry
  <2>2. ASSUME NEW r \in DOMAIN stream', NEW i \in DOMAIN stream',
               stream'[r].kind = "received", stream'[i].kind = "received",
               stream'[r].msg = stream'[i].msg
        PROVE  r = i
    <3>1. \A j \in {r, i} : \/ j \in 1..n /\ stream'[j] = stream[j]
                                         /\ stream'[j].msg # m
                            \/ j = n + 1 /\ stream'[j].msg = m
      BY <1>8, <1>11, <2>2 DEF Entry
    <3>2. CASE r \in 1..n /\ i \in 1..n
      BY <1>5, <1>7, <2>2, <3>2 DEF Inv, StreamInv, Received
    <3> QED
      BY <1>13, <2>2, <3>1, <3>2
  <2> DEFINE cmds(x) == {i \in DOMAIN stream' : /\ stream'[i].kind = "command"
                                                /\ stream'[i].msg = x}
  <2>3. ASSUME NEW r \in DOMAIN stream', stream'[r].kind = "received"
        PROVE  cmds(stream'[r].msg) = (r + 1)..(r + Commands[stream'[r].msg])
    <3>1. CASE r \in 1..n /\ stream'[r] = stream[r]
      <4>1. stream[r].msg # m
        BY <1>8, <3>1
      <4>2. cmds(stream[r].msg) = Entries("command", stream[r].msg)
        <5>1. \A i \in DOMAIN stream' : stream'[i].msg = stream[r].msg =>
                 i \in 1..n /\ stream'[i] = stream[i]
          BY <1>11, <4>1 DEF Entry
        <5> QED
          BY <1>5, <1>7, <1>12, <5>1 DEF Entries
      <4>3. Entries("command", stream[r].msg) =
               (r + 1)..(r + Commands[stream[r].msg])
        BY <1>5, <2>3, <3>1 DEF Inv, StreamInv, Received
      <4> QED
        BY <3>1, <4>2, <4>3
    <3>2. CASE r = n + 1
      <4>1. stream'[r].msg = m
        BY <1>7, <3>2 DEF Entry
      <4>2. ASSUME NEW i \in DOMAIN stream'
            PROVE  stream'[i].kind = "command" /\ stream'[i].msg = m
                      <=> i \in (n + 2)..(n + k + 1)
        <5>1. \A j \in 1..n : j \notin (n + 2)..(n + k + 1)
          BY <1>7
        <5>2. n + 1 \notin (n + 2)..(n + k + 1)
              /\ n + k + 2 \notin (n + 2)..(n + k + 1)
          BY <1>7
        <5> QED
          BY <1>8, <1>11, <5>1, <5>2 DEF Entry
      <4>3. (n + 2)..(n + k + 1) \subseteq DOMAIN stream'
        BY <1>7, <1>10
      <4>4. cmds(m) = (n + 2)..(n + k + 1)
        BY <4>2, <4>3
      <4>5. r + 1 = n + 2 /\ r + k = n + k + 1
        BY <1>7, <3>2
      <4> QED
        BY <4>1, <4>4, <4>5 DEF k
    <3> QED
      BY <1>11, <2>3, <3>1, <3>2 DEF Entry
  <2> QED
    BY <2>1, <2>2, <2>3 DEF StreamInv, Received, Entries
<1>15. NoStaleDecision'
  <2> SUFFICES ASSUME NEW i \in DOMAIN stream', stream'[i].kind = "received"
               PROVE  stream'[i].basis = Seen(i - 1)'
    BY DEF NoStaleDecision
  <2>1. ASSUME i \in 1..n, stream'[i] = stream[i]
        PROVE  stream'[i].basis = Seen(i - 1)'
    <3>1. i - 1 \in 0..n
      BY <1>7, <2>1
    <3>2. Seen(i - 1)' = Seen(i - 1)
      BY <1>9, <3>1
    <3>3. stream[i].basis = Seen(i - 1)
      BY <1>5, <2>1 DEF Inv, NoStaleDecision
    <3> QED
      BY <2>1, <3>2, <3>3
  <2>2. ASSUME i = n + 1, stream'[i] = Entry("received", m, basis)
        PROVE  stream'[i].basis = Seen(i - 1)'
    <3>1. i - 1 = n /\ n \in 0..n
      BY <1>7, <2>2
    <3>2. Seen(n)' = basis
      BY <1>9, <1>1, <1>2, <3>1
    <3> QED
      BY <2>2, <3>1, <3>2 DEF Entry
  <2> QED
    BY <1>11, <2>1, <2>2 DEF Entry
<1>16. EndIsFinal'
  <2> SUFFICES ASSUME NEW i \in DOMAIN stream', stream'[i].kind = "ended"
               PROVE  i = Len(stream')
    BY DEF EndIsFinal
  <2>1. ~(i \in 1..n /\ stream'[i] = stream[i])
    BY <1>4 DEF Ended
  <2> QED
    BY <1>11, <2>1 DEF Entry
<1>17. Seen(n) \cup {m} \subseteq Seen(Len(stream))'
  <2>1. \A i \in DOMAIN stream' : stream'[i].kind = "received" =>
           stream'[i].msg \in {stream'[j].msg :
              j \in {h \in DOMAIN stream' : stream'[h].kind = "received"}}
    OBVIOUS
  <2>2. DOMAIN stream' = 1..Len(stream')
    BY <1>7, <1>10
  <2>3. Seen(Len(stream))' = {stream'[j].msg :
              j \in {h \in DOMAIN stream' : stream'[h].kind = "received"}}
    BY <2>2 DEF Seen
  <2>4. m \in Seen(Len(stream))'
    BY <1>7, <1>13, <2>1, <2>3 DEF Entry
  <2>5. Seen(n) \subseteq Seen(Len(stream))'
    BY <1>7, <1>12, <2>1, <2>3 DEF Seen
  <2> QED
    BY <2>4, <2>5
<1>18. /\ TypeOK'
       /\ offset'[c] \in {offset[c], offset[c] + 1} /\ pc'[c] = "idle"
       /\ \A q \in Consumers \ {c} : /\ offset'[q] = offset[q]
                                     /\ pc'[q] = pc[q]
                                     /\ loaded'[q] = loaded[q]
  <2>1. faults' \in 0..MaxFaults
    BY <1>3, FaultsAssumption DEF Fault, Inv, TypeOK
  <2>2. CASE Ack(c)
    BY <1>7, <2>1, <2>2, SagaAssumption DEF Ack, Inv, TypeOK
  <2>3. CASE Nack(c)
    BY <1>7, <2>1, <2>3, SagaAssumption DEF Nack, Inv, TypeOK
  <2> QED
    BY <1>3, <2>2, <2>3
<1>19. NothingLost'
  <2> SUFFICES ASSUME NEW q \in Consumers, NEW i \in 1..(offset'[q] - 1)
               PROVE  Feed[q][i] \in Ignored \/ Feed[q][i] \in Seen(n) \cup {m}
    BY <1>17 DEF NothingLost
  <2>1. CASE q = c /\ i = offset[c]
    BY <1>1, <1>2, <2>1 DEF Current
  <2>2. CASE ~(q = c /\ i = offset[c])
    <3>1. i \in 1..(offset[q] - 1)
      BY <1>4, <1>18, <2>2
    <3> QED
      BY <1>4, <1>1, <1>2, <3>1 DEF Inv, NothingLost
  <2> QED
    BY <2>1, <2>2
<1>20. ASSUME NEW q \in Consumers PROVE ConsumerInv(q)'
  <2>1. CASE q = c
    BY <1>18, <2>1 DEF ConsumerInv
  <2>2. CASE q # c
    <3>1. pc[q] # "idle" => /\ offset[q] <= Len(Feed[q])
                            /\ Current(q) \notin Ignored
      BY DEF Inv, ConsumerInv
    <3>2. ASSUME pc[q] = "decided"
          PROVE  /\ loaded[q] <= Len(stream') /\ ~Ended(loaded[q])'
                 /\ Current(q) \notin Seen(loaded[q])'
      <4>1. PICK l \in Nat : l = loaded[q]
        BY DEF Inv, TypeOK
      <4>2. l \in 0..n /\ ~Ended(l) /\ Current(q) \notin Seen(l)
        BY <1>1, <1>2, <3>2, <4>1 DEF Inv, ConsumerInv
      <4>3. ~Ended(l)' /\ Current(q) \notin Seen(l)'
        BY <1>9, <4>2
      <4>4. l <= Len(stream')
        BY <1>7, <1>10, <4>2
      <4> QED
        BY <1>18, <2>2, <4>1, <4>3, <4>4 DEF Ended, Seen
    <3> QED
      BY <1>18, <2>2, <3>1, <3>2 DEF ConsumerInv, Current, Seen, Ended
  <2> QED
    BY <2>1, <2>2
<1> QED
  BY <1>14, <1>15, <1>16, <1>18, <1>19, <1>20 DEF Inv

-----------------------------------------------------------------------------
\* Nothing moves.
LEMMA StutterInv ==
    ASSUME Inv, UNCHANGED vars
    PROVE  Inv'
<1> USE DEF vars
<1>1. TypeOK' /\ NothingLost'
  BY DEF Inv, TypeOK, NothingLost, Seen, Ended
<1>2. StreamInv' /\ NoStaleDecision' /\ EndIsFinal'
  BY DEF Inv, StreamInv, NoStaleDecision, EndIsFinal, Entries, Received, Seen
<1>3. \A c \in Consumers : ConsumerInv(c)'
  BY DEF Inv, ConsumerInv, Current, Seen, Ended
<1> QED
  BY <1>1, <1>2, <1>3 DEF Inv

\* Every step keeps the invariant.
LEMMA NextInv == Inv /\ [Next]_vars => Inv'
<1> SUFFICES ASSUME Inv, [Next]_vars PROVE Inv'
  OBVIOUS
<1>1. ASSUME NEW c \in Consumers, ConsumerNext(c) PROVE Inv'
  <2>1. CASE Deliver(c)
    BY <2>1, DeliverInv
  <2>2. CASE Load(c)
    BY <2>2, LoadInv
  <2>3. CASE Save(c)
    BY <2>3, SaveInv
  <2>4. CASE Conflict(c)
    BY <2>4, ConflictInv
  <2>5. CASE Fail(c)
    BY <2>5, FailInv
  <2> QED
    BY <1>1, <2>1, <2>2, <2>3, <2>4, <2>5 DEF ConsumerNext
<1>2. CASE UNCHANGED vars
  BY <1>2, StutterInv
<1> QED
  BY <1>1, <1>2 DEF Next, Drained

\* The invariant holds throughout.
THEOREM Invariance == Spec => []Inv
BY InitInv, NextInv, PTL DEF Spec

(***************************************************************************)
(* Effectively once: saga/runner.go receives a message at most once and    *)
(* requests all of its commands with it or none.                           *)
(***************************************************************************)
THEOREM EffectivelyOnce == Spec => []DecidedOnce
<1>1. Inv => DecidedOnce
  <2> SUFFICES ASSUME Inv, NEW m \in Msgs
               PROVE  /\ Cardinality(Entries("received", m)) <= 1
                      /\ Cardinality(Entries("command", m)) =
                            IF Entries("received", m) = {} THEN 0
                                                         ELSE Commands[m]
    BY DEF DecidedOnce
  <2>1. CASE Entries("received", m) = {}
    <3>1. Entries("command", m) = {}
      BY <2>1 DEF Inv, StreamInv, Entries, Received
    <3> QED
      BY <2>1, <3>1, FS_EmptySet
  <2>2. ASSUME NEW r \in Entries("received", m)
        PROVE  /\ Cardinality(Entries("received", m)) <= 1
               /\ Cardinality(Entries("command", m)) = Commands[m]
    <3>1. r \in DOMAIN stream /\ Received(r) /\ stream[r].msg = m
      BY DEF Entries, Received
    <3>2. Entries("received", m) = {r}
      BY <3>1 DEF Entries, Received, Inv, StreamInv
    <3>3. Cardinality(Entries("received", m)) = 1
      BY <3>2, FS_Singleton
    <3>4. Entries("command", m) = (r + 1)..(r + Commands[m])
      BY <3>1 DEF Inv, StreamInv
    <3>5. r \in Nat /\ Commands[m] \in Nat
      BY <3>1, SagaAssumption DEF Inv, TypeOK
    <3>6. r + 1 \in Int /\ r + Commands[m] \in Int
      BY <3>5
    <3>7. Cardinality((r + 1)..(r + Commands[m])) =
             IF r + 1 > r + Commands[m] THEN 0
             ELSE (r + Commands[m]) - (r + 1) + 1
      BY <3>6, FS_Interval, Zenon
    <3> QED
      BY <3>3, <3>4, <3>5, <3>7
  <2> QED
    BY <2>1, <2>2
<1> QED
  BY <1>1, Invariance, PTL

(***************************************************************************)
(* No stale decision: what saga/runner.go appends was decided from exactly *)
(* the state that precedes it in the stream.                               *)
(***************************************************************************)
THEOREM DecisionsAreFresh == Spec => []NoStaleDecision
<1>1. Inv => NoStaleDecision
  BY DEF Inv
<1> QED
  BY <1>1, Invariance, PTL

\* Nothing follows the end marker, whichever consumers were deciding.
THEOREM NothingAfterEnd == Spec => []EndIsFinal
<1>1. Inv => EndIsFinal
  BY DEF Inv
<1> QED
  BY <1>1, Invariance, PTL

\* An acknowledged message of the saga was received, or came after its end.
THEOREM AcknowledgedIsRecorded == Spec => []NothingLost
<1>1. Inv => NothingLost
  BY DEF Inv
<1> QED
  BY <1>1, Invariance, PTL

-----------------------------------------------------------------------------
(***************************************************************************)
(* The fulfillment saga of the example and the services it drives.         *)
(***************************************************************************)
\* The services and topics, by name.
LEMMA OrderNames ==
    /\ Services = {"ordering", "billing", "inventory", "shipping"}
    /\ \A t \in Topics : t \in EventTopics \/ t \in CommandTopics
    /\ \A type \in Types :
          /\ TopicOf(type) \in Topics
          /\ TopicOf(type) = "billing.commands" =>
                type \in {"capture_payment", "refund_payment"}
          /\ TopicOf(type) = "inventory.commands" => type = "reserve_stock"
          /\ TopicOf(type) = "shipping.commands" => type = "create_shipment"
<1>1. /\ Services = {"ordering", "billing", "inventory", "shipping"}
      /\ \A t \in Topics : t \in EventTopics \/ t \in CommandTopics
  BY DEF Services, Topics
<1>2. ASSUME NEW type \in Types
      PROVE  /\ TopicOf(type) \in Topics
             /\ TopicOf(type) = "billing.commands" =>
                   type \in {"capture_payment", "refund_payment"}
             /\ TopicOf(type) = "inventory.commands" => type = "reserve_stock"
             /\ TopicOf(type) = "shipping.commands" => type = "create_shipment"
  BY DEF Types, TopicOf, Topics, EventTopics,
         CommandTopics
<1> QED
  BY <1>1, <1>2

\* Before the customer's order nothing is recorded.
LEMMA OrderStarts == OrderInit => OrderInv
<1> SUFFICES ASSUME OrderInit PROVE OrderInv
  OBVIOUS
<1> USE DEF OrderInit
<1>1. OrderTypeOK
  BY DEF OrderTypeOK
<1>2. CausalInv /\ TopicInv
  BY DEF CausalInv, TopicInv
<1>3. Len(store["inventory"]) <= 1 /\ NoCommandRejected
  BY OrderNames DEF NoCommandRejected
<1> QED
  BY <1>1, <1>2, <1>3 DEF OrderInv

-----------------------------------------------------------------------------
\* What a service appends is added to what it has recorded.
LEMMA StoreGrows ==
    ASSUME OrderInv, NEW s \in Services, NEW e \in Record,
           store' = [store EXCEPT ![s] = Append(@, e)]
    PROVE  /\ store' \in [Services -> Seq(Record)]
           /\ \A u \in Services :
                 /\ Len(store[u]) <= Len(store'[u])
                 /\ \A k \in DOMAIN store[u] :
                       k \in DOMAIN store'[u] /\ store'[u][k] = store[u][k]
                 /\ \A k \in DOMAIN store'[u] :
                       k \in DOMAIN store[u] \/ (u = s /\ store'[u][k] = e)
           /\ \A u \in Services \ {s} : store'[u] = store[u]
           /\ Len(store'[s]) = Len(store[s]) + 1
<1>1. store \in [Services -> Seq(Record)]
  BY DEF OrderInv, OrderTypeOK
<1>2. /\ store' \in [Services -> Seq(Record)]
      /\ store'[s] = Append(store[s], e)
      /\ \A u \in Services \ {s} : store'[u] = store[u]
  BY <1>1
<1>3. store[s] \in Seq(Record)
  BY <1>1
<1>4. /\ Len(store[s]) \in Nat /\ DOMAIN store[s] = 1..Len(store[s])
      /\ Len(Append(store[s], e)) = Len(store[s]) + 1
      /\ DOMAIN Append(store[s], e) = 1..(Len(store[s]) + 1)
      /\ \A k \in 1..Len(store[s]) : Append(store[s], e)[k] = store[s][k]
      /\ Append(store[s], e)[Len(store[s]) + 1] = e
  BY <1>3
<1>5. ASSUME NEW u \in Services
      PROVE  /\ Len(store[u]) <= Len(store'[u])
             /\ \A k \in DOMAIN store[u] :
                   k \in DOMAIN store'[u] /\ store'[u][k] = store[u][k]
             /\ \A k \in DOMAIN store'[u] :
                   k \in DOMAIN store[u] \/ (u = s /\ store'[u][k] = e)
  <2>1. CASE u = s
    BY <1>2, <1>4, <2>1
  <2>2. CASE u # s
    <3>1. store'[u] = store[u] /\ Len(store[u]) \in Nat
      BY <1>1, <1>2, <2>2
    <3> QED
      BY <3>1
  <2> QED
    BY <2>1, <2>2
<1> QED
  BY <1>2, <1>4, <1>5

\* Nothing that is recorded goes away.
LEMMA RecordedStays ==
    ASSUME \A u \in Services : \A k \in DOMAIN store[u] :
               k \in DOMAIN store'[u] /\ store'[u][k] = store[u][k],
           NEW u \in Services, NEW type, Recorded(u, type)
    PROVE  Recorded(u, type)'
BY DEF Recorded

\* A cause stays a cause.
LEMMA CausedStays ==
    ASSUME \A u \in Services : \A k \in DOMAIN store[u] :
               k \in DOMAIN store'[u] /\ store'[u][k] = store[u][k],
           saga.qty > 0 => saga'.qty > 0,
           NEW u, NEW e, Caused(u, e)
    PROVE  Caused(u, e)'
<1>1. \A v \in Services : \A type :
          Recorded(v, type) => Recorded(v, type)'
  BY RecordedStays
<1>2. \A v \in {"ordering", "billing", "inventory", "shipping"} : v \in Services
  BY OrderNames
<1> QED
  BY <1>1, <1>2 DEF Caused

\* A copy of what is recorded stays one.
LEMMA TopicKept ==
    ASSUME OrderInv, topics' = topics,
           \A u \in Services : \A k \in DOMAIN store[u] :
               k \in DOMAIN store'[u] /\ store'[u][k] = store[u][k]
    PROVE  TopicInv'
<1> SUFFICES ASSUME NEW t \in Topics, NEW i \in DOMAIN topics[t]
             PROVE  Genuine(t, topics[t][i])'
  BY DEF TopicInv
<1>1. Genuine(t, topics[t][i])
  BY DEF OrderInv, TopicInv
<1>2. PICK s \in Services : \E k \in DOMAIN store[s] :
          topics[t][i] = Envelope(s, k)
  BY <1>1 DEF Genuine
<1>3. PICK k \in DOMAIN store[s] : topics[t][i] = Envelope(s, k)
  BY <1>2
<1>4. k \in DOMAIN store'[s] /\ Envelope(s, k)' = Envelope(s, k)
  BY DEF Envelope
<1>5. TopicOf(topics[t][i].type) = t
  BY <1>1 DEF Genuine
<1> QED
  BY <1>3, <1>4, <1>5 DEF Genuine, TopicOf

\* A record with its cause keeps everything caused.
LEMMA CausalStep ==
    ASSUME OrderInv, NEW s \in Services, NEW e \in Record,
           store' = [store EXCEPT ![s] = Append(@, e)],
           Caused(s, e)', saga.qty > 0 => saga'.qty > 0
    PROVE  CausalInv'
<1>1. /\ \A u \in Services : \A k \in DOMAIN store[u] :
            k \in DOMAIN store'[u] /\ store'[u][k] = store[u][k]
      /\ \A u \in Services : \A k \in DOMAIN store'[u] :
            k \in DOMAIN store[u] \/ (u = s /\ store'[u][k] = e)
  BY StoreGrows
<1>2. ASSUME NEW u \in Services, NEW k \in DOMAIN store'[u]
      PROVE  Caused(u, store[u][k])'
  <2>1. PICK x : x = store'[u][k]
    OBVIOUS
  <2>2. ASSUME k \in DOMAIN store[u] PROVE Caused(u, x)'
    <3>1. Caused(u, x)
      BY <1>1, <2>1, <2>2 DEF OrderInv, CausalInv
    <3> QED
      BY <1>1, <3>1, CausedStays
  <2>3. ASSUME u = s, x = e PROVE Caused(u, x)'
    BY <2>3
  <2>4. Caused(u, x)'
    BY <1>1, <2>1, <2>2, <2>3
  <2> QED
    BY <2>1, <2>4 DEF Caused
<1> QED
  BY <1>2 DEF CausalInv

\* What a message is a copy of, and its cause.
LEMMA MessageCause ==
    ASSUME OrderInv, NEW t \in Topics, NEW m,
           position[t] <= Len(topics[t]), m = topics[t][position[t]]
    PROVE  /\ m \in Message /\ TopicOf(m.type) = t
           /\ \E s \in Services : /\ Recorded(s, m.type)
                                        /\ Caused(s, m)
<1>1. /\ topics[t] \in Seq(Message) /\ position[t] \in Nat \ {0}
  BY DEF OrderInv, OrderTypeOK
<1>2. position[t] \in DOMAIN topics[t]
  BY <1>1
<1>3. m \in Message
  BY <1>1, <1>2
<1>4. Genuine(t, m)
  BY <1>2 DEF OrderInv, TopicInv
<1>5. PICK s \in Services : \E k \in DOMAIN store[s] : m = Envelope(s, k)
  BY <1>4 DEF Genuine
<1>6. PICK k \in DOMAIN store[s] : m = Envelope(s, k)
  BY <1>5
<1>7. /\ m.type = store[s][k].type /\ m.cents = store[s][k].cents
      /\ m.qty = store[s][k].qty
  BY <1>6 DEF Envelope
<1>8. Caused(s, store[s][k])
  BY DEF OrderInv, CausalInv
<1>9. Caused(s, m)
  BY <1>7, <1>8 DEF Caused
<1>10. Recorded(s, m.type)
  BY <1>7 DEF Recorded
<1> QED
  BY <1>3, <1>4, <1>9, <1>10 DEF Genuine

\* The cause of what is recorded under a type.
LEMMA RecordedCause ==
    ASSUME OrderInv, NEW s \in Services, NEW type, Recorded(s, type)
    PROVE  \E e : e.type = type /\ Caused(s, e)
<1>1. PICK k \in DOMAIN store[s] : store[s][k].type = type
  BY DEF Recorded
<1>2. Caused(s, store[s][k])
  BY DEF OrderInv, CausalInv
<1> QED
  BY <1>1, <1>2

\* How the facts of one order follow from each other.
LEMMA Chain ==
    ASSUME OrderInv
    PROVE  /\ Recorded("billing", "payment_captured") => saga.qty > 0
           /\ \A type \in {"stock_reserved", "stock_rejected"} :
                 Recorded("inventory", type) =>
                     Recorded("billing", "payment_captured")
           /\ Recorded("shipping", "shipment_dispatched") =>
                 Recorded("inventory", "stock_reserved")
           /\ Recorded("billing", "payment_refunded") =>
                 Recorded("ordering", "refund_payment")
           /\ Recorded("ordering", "refund_payment") =>
                 Recorded("inventory", "stock_rejected")
<1>1. \A s \in {"ordering", "billing", "inventory", "shipping"} : s \in Services
  BY OrderNames
<1>2. Recorded("ordering", "capture_payment") => saga.qty > 0
  BY <1>1, RecordedCause DEF Caused
<1>3. Recorded("billing", "payment_captured") =>
          Recorded("ordering", "capture_payment")
  BY <1>1, RecordedCause DEF Caused
<1>4. ASSUME NEW type \in {"stock_reserved", "stock_rejected"},
             Recorded("inventory", type)
      PROVE  Recorded("ordering", "reserve_stock")
  BY <1>1, <1>4, RecordedCause DEF Caused
<1>5. Recorded("ordering", "reserve_stock") =>
          Recorded("billing", "payment_captured")
  BY <1>1, RecordedCause DEF Caused
<1>6. Recorded("shipping", "shipment_dispatched") =>
          Recorded("ordering", "create_shipment")
  BY <1>1, RecordedCause DEF Caused
<1>7. Recorded("ordering", "create_shipment") =>
          Recorded("inventory", "stock_reserved")
  BY <1>1, RecordedCause DEF Caused
<1>8. Recorded("billing", "payment_refunded") =>
          Recorded("ordering", "refund_payment")
  BY <1>1, RecordedCause DEF Caused
<1>9. Recorded("ordering", "refund_payment") =>
          Recorded("inventory", "stock_rejected")
  BY <1>1, RecordedCause DEF Caused
<1> QED
  BY <1>2, <1>3, <1>4, <1>5, <1>6, <1>7, <1>8, <1>9

\* A step that records nothing leaves the causes as they are.
LEMMA CausalKept ==
    ASSUME OrderInv, store' = store, saga.qty > 0 => saga'.qty > 0
    PROVE  CausalInv' /\ (Len(store["inventory"]) <= 1)'
<1>1. ASSUME NEW u \in Services, NEW k \in DOMAIN store'[u]
      PROVE  Caused(u, store[u][k])'
  <2>1. PICK x : x = store[u][k]
    OBVIOUS
  <2>2. Caused(u, x)
    BY <2>1 DEF OrderInv, CausalInv
  <2>3. Caused(u, x)'
    BY <2>2, CausedStays
  <2> QED
    BY <2>1, <2>3 DEF Caused
<1> QED
  BY <1>1 DEF CausalInv, OrderInv

\* The customer's order has a total and a quantity.
LEMMA PlaceOrderInv ==
    ASSUME OrderInv, PlaceOrder
    PROVE  OrderInv'
<1>1. PICK cents \in Amounts, qty \in Quantities :
          /\ cents > 0 /\ qty > 0
          /\ store' = [store EXCEPT !["ordering"] =
                          Append(@, Event("order_placed", cents, qty))]
  BY DEF PlaceOrder, NewMoney, NewQuantity, Place
<1>2. UNCHANGED <<relayed, topics, position, saga, processed, rejected, faults>>
  BY DEF PlaceOrder, consumed
<1> DEFINE e == Event("order_placed", cents, qty)
<1>3. e \in Record /\ "ordering" \in Services
  BY OrderNames DEF Event, Record, Types
<1>4. Caused("ordering", e)'
  BY <1>1 DEF Caused, Event
<1>5. store' = [store EXCEPT !["ordering"] = Append(@, e)]
  BY <1>1
<1> HIDE DEF e
<1>6. CausalInv'
  BY <1>2, <1>3, <1>4, <1>5, CausalStep
<1>7. /\ store' \in [Services -> Seq(Record)]
      /\ \A u \in Services :
            /\ Len(store[u]) <= Len(store'[u])
            /\ \A k \in DOMAIN store[u] :
                  k \in DOMAIN store'[u] /\ store'[u][k] = store[u][k]
      /\ \A u \in Services \ {"ordering"} : store'[u] = store[u]
  BY <1>3, <1>5, StoreGrows
<1>8. store'["inventory"] = store["inventory"]
  BY <1>7, OrderNames
<1>9. OrderTypeOK'
  <2>1. \A u \in Services : relayed[u] <= Len(store'[u])
    <3> SUFFICES ASSUME NEW u \in Services PROVE relayed[u] <= Len(store'[u])
      OBVIOUS
    <3>1. /\ relayed[u] \in Nat /\ Len(store[u]) \in Nat /\ Len(store'[u]) \in Nat
          /\ relayed[u] <= Len(store[u])
      BY <1>7 DEF OrderInv, OrderTypeOK
    <3> QED
      BY <1>7, <3>1
  <2> QED
    BY <1>2, <1>7, <2>1 DEF OrderInv, OrderTypeOK
<1>10. TopicInv'
  BY <1>2, <1>7, TopicKept
<1> QED
  BY <1>2, <1>6, <1>8, <1>9, <1>10 DEF OrderInv, NoCommandRejected

\* A relay puts copies of what its service recorded on the topic of its type.
LEMMA PublishInv ==
    ASSUME OrderInv, NEW s \in Services, Publish(s)
    PROVE  OrderInv'
<1> DEFINE k == relayed[s] + 1
           m == Envelope(s, k)
           t == TopicOf(m.type)
<1>1. /\ relayed[s] < Len(store[s])
      /\ topics' = [topics EXCEPT ![t] = Append(@, m)]
      /\ relayed' = [relayed EXCEPT ![s] = @ + 1]
      /\ UNCHANGED <<store, position, saga, processed, rejected, faults>>
  BY DEF Publish, consumed
<1>2. /\ relayed \in [Services -> Nat] /\ Len(store[s]) \in Nat
      /\ store[s] \in Seq(Record)
      /\ topics \in [Topics -> Seq(Message)]
  BY DEF OrderInv, OrderTypeOK
<1>3. k \in DOMAIN store[s] /\ k \in Nat
  BY <1>1, <1>2
<1>4. store[s][k] \in Record
  BY <1>2, <1>3
<1>5. m \in Message /\ m.type \in Types
  BY <1>3, <1>4 DEF Envelope, Record, Message
<1>6. t \in Topics
  BY <1>5, OrderNames
<1>7. CausalInv' /\ (Len(store["inventory"]) <= 1)'
  BY <1>1, CausalKept
<1>8. topics' \in [Topics -> Seq(Message)]
  <2>1. Append(topics[t], m) \in Seq(Message)
    BY <1>2, <1>5, <1>6
  <2> HIDE DEF m, t
  <2> QED
    BY <1>1, <1>2, <2>1
<1>9. OrderTypeOK'
  <2>1. \A u \in Services : relayed'[u] <= Len(store[u])
    BY <1>1, <1>2, <1>3 DEF OrderInv, OrderTypeOK
  <2>2. relayed' \in [Services -> Nat]
    BY <1>1, <1>2
  <2> QED
    BY <1>1, <1>8, <2>1, <2>2 DEF OrderInv, OrderTypeOK
<1>10. TopicInv'
  <2> SUFFICES ASSUME NEW u \in Topics, NEW i \in DOMAIN topics'[u]
               PROVE  Genuine(u, topics'[u][i])
    <3>1. ASSUME NEW u \in Topics, NEW i \in DOMAIN topics'[u],
                 Genuine(u, topics'[u][i])
          PROVE  Genuine(u, topics[u][i])'
      <4>1. PICK x : x = topics'[u][i]
        OBVIOUS
      <4>2. TopicOf(x.type) = u
        BY <3>1, <4>1 DEF Genuine
      <4>3. PICK v \in Services : \E j \in DOMAIN store[v] : x = Envelope(v, j)
        BY <3>1, <4>1 DEF Genuine
      <4>4. PICK j \in DOMAIN store[v] : x = Envelope(v, j)
        BY <4>3
      <4>5. j \in DOMAIN store'[v] /\ x = Envelope(v, j)'
        BY <1>1, <4>4 DEF Envelope
      <4> QED
        BY <4>1, <4>2, <4>5 DEF Genuine, TopicOf
    <3> QED
      BY <3>1 DEF TopicInv
  <2>1. Genuine(t, m)
    BY <1>3 DEF Genuine
  <2>2. ASSUME u = t PROVE \/ i \in DOMAIN topics[u] /\ topics'[u][i] = topics[u][i]
                           \/ topics'[u][i] = m
    <3>1. topics[t] \in Seq(Message) /\ topics'[t] = Append(topics[t], m)
      BY <1>1, <1>2, <1>6
    <3> HIDE DEF m, t
    <3> QED
      BY <1>5, <2>2, <3>1
  <2>3. ASSUME u # t PROVE topics'[u] = topics[u]
    <3> HIDE DEF m, t
    <3> QED
      BY <1>1, <1>2, <2>3
  <2>4. ASSUME i \in DOMAIN topics[u], topics'[u][i] = topics[u][i]
        PROVE  Genuine(u, topics'[u][i])
    BY <2>4 DEF OrderInv, TopicInv
  <2> HIDE DEF m, t
  <2> QED
    BY <2>1, <2>2, <2>3, <2>4
<1> QED
  BY <1>1, <1>7, <1>9, <1>10 DEF OrderInv, NoCommandRejected

\* A relay that starts again repeats itself.
LEMMA RepublishInv ==
    ASSUME OrderInv, NEW s \in Services, Republish(s)
    PROVE  OrderInv'
<1>1. /\ relayed[s] > 0 /\ relayed' = [relayed EXCEPT ![s] = @ - 1]
      /\ UNCHANGED <<store, topics, position, saga, processed, rejected>>
      /\ faults' \in Nat
  BY DEF Republish, consumed, Fault, OrderInv, OrderTypeOK
<1>2. CausalInv' /\ (Len(store["inventory"]) <= 1)'
  BY <1>1, CausalKept
<1>3. TopicInv'
  BY <1>1, TopicKept
<1>4. /\ relayed' \in [Services -> Nat]
      /\ \A u \in Services : relayed'[u] <= Len(store[u])
  <2>1. /\ relayed \in [Services -> Nat]
        /\ \A u \in Services : Len(store[u]) \in Nat /\ relayed[u] <= Len(store[u])
    BY DEF OrderInv, OrderTypeOK
  <2> QED
    BY <1>1, <2>1
<1>5. OrderTypeOK'
  BY <1>1, <1>4 DEF OrderInv, OrderTypeOK
<1> QED
  BY <1>1, <1>2, <1>3, <1>5 DEF OrderInv, NoCommandRejected

-----------------------------------------------------------------------------
\* A service that records one event with its cause, or none.
LEMMA RecordStep ==
    ASSUME OrderInv, NEW s \in Services,
           \/ store' = store
           \/ \E e \in Record : /\ store' = [store EXCEPT ![s] = Append(@, e)]
                                /\ Caused(s, e)'
                                /\ s = "inventory" => store[s] = <<>>,
           saga.qty > 0 => saga'.qty > 0,
           UNCHANGED <<relayed, topics, rejected>>,
           position' \in [Topics -> Nat \ {0}],
           saga' \in [seen : SUBSET (Services \X Nat),
                      qty : Quantities \cup {0}, ended : BOOLEAN],
           processed' \subseteq Services \X Nat, faults' \in Nat
    PROVE  OrderInv'
<1>1. /\ relayed \in [Services -> Nat]
      /\ \A u \in Services : relayed[u] <= Len(store[u]) /\ Len(store[u]) \in Nat
      /\ topics \in [Topics -> Seq(Message)]
      /\ store \in [Services -> Seq(Record)]
  BY DEF OrderInv, OrderTypeOK
<1>2. CASE store' = store
  <2>1. CausalInv' /\ (Len(store["inventory"]) <= 1)'
    BY <1>2, CausalKept
  <2>2. TopicInv'
    BY <1>2, TopicKept
  <2>3. OrderTypeOK'
    BY <1>1, <1>2 DEF OrderTypeOK
  <2> QED
    BY <2>1, <2>2, <2>3 DEF OrderInv, NoCommandRejected
<1>3. ASSUME NEW e \in Record, store' = [store EXCEPT ![s] = Append(@, e)],
             Caused(s, e)', s = "inventory" => store[s] = <<>>
      PROVE  OrderInv'
  <2>1. /\ store' \in [Services -> Seq(Record)]
        /\ \A u \in Services :
              /\ Len(store[u]) <= Len(store'[u])
              /\ \A k \in DOMAIN store[u] :
                    k \in DOMAIN store'[u] /\ store'[u][k] = store[u][k]
        /\ \A u \in Services \ {s} : store'[u] = store[u]
        /\ Len(store'[s]) = Len(store[s]) + 1
    BY <1>3, StoreGrows
  <2>2. CausalInv'
    BY <1>3, CausalStep
  <2>3. TopicInv'
    BY <2>1, TopicKept
  <2>4. (Len(store["inventory"]) <= 1)'
    <3>1. CASE s = "inventory"
      BY <1>3, <2>1, <3>1
    <3>2. CASE s # "inventory"
      BY <2>1, <3>2, OrderNames DEF OrderInv
    <3> QED
      BY <3>1, <3>2
  <2>5. ASSUME NEW u \in Services PROVE relayed[u] <= Len(store'[u])
    <3>1. Len(store'[u]) \in Nat /\ relayed[u] \in Nat
      BY <1>1, <2>1
    <3> QED
      BY <1>1, <2>1, <3>1
  <2>6. OrderTypeOK'
    BY <1>1, <2>1, <2>5 DEF OrderTypeOK
  <2> QED
    BY <2>2, <2>3, <2>4, <2>6 DEF OrderInv, NoCommandRejected
<1> QED
  BY <1>2, <1>3

\* The saga answers a fact with at most one command, whose cause the fact
\* is; a capture comes with the quantity the saga learns.
LEMMA DecisionCaused ==
    ASSUME OrderInv, NEW t \in Topics, NEW m, NEW next,
           position[t] <= Len(topics[t]), m = topics[t][position[t]],
           next = IF m.type = "order_placed" THEN m.qty ELSE saga.qty
    PROVE  /\ m.id \in Services \X Nat
           /\ next \in Quantities \cup {0} /\ (saga.qty > 0 => next > 0)
           /\ \/ Decisions(m, next) = <<>>
              \/ \E e \in Record :
                    /\ Decisions(m, next) = <<e>>
                    /\ \/ Caused("ordering", e)
                       \/ e.type = "capture_payment" /\ e.cents > 0 /\ next > 0
<1>1. /\ m \in Message
      /\ \E s \in Services : Recorded(s, m.type) /\ Caused(s, m)
  BY MessageCause
<1>2. PICK s \in Services : Recorded(s, m.type) /\ Caused(s, m)
  BY <1>1
<1>3. /\ m.id \in Services \X Nat /\ m.type \in Types
      /\ m.cents \in Amounts \cup {0} /\ m.qty \in Quantities \cup {0}
  BY <1>1 DEF Message
<1>4. saga.qty \in Quantities \cup {0}
  BY DEF OrderInv, OrderTypeOK
<1>5. next \in Quantities \cup {0}
  BY <1>3, <1>4
<1>6. CASE m.type = "order_placed"
  <2> DEFINE e == Event("capture_payment", m.cents, 0)
  <2>1. m.cents > 0 /\ m.qty > 0
    BY <1>2, <1>6 DEF Caused
  <2>2. Decisions(m, next) = <<e>>
    BY <1>6 DEF Decisions
  <2>3. e \in Record /\ e.type = "capture_payment" /\ e.cents > 0
    BY <1>3, <2>1 DEF Event, Record, Types
  <2> HIDE DEF e
  <2> QED
    BY <1>3, <1>5, <1>6, <2>1, <2>2, <2>3
<1>7. CASE m.type = "payment_captured"
  <2> DEFINE e == Event("reserve_stock", 0, next)
  <2>1. Recorded("billing", "payment_captured")
    BY <1>2, <1>7 DEF Caused
  <2>2. next = saga.qty /\ saga.qty > 0
    BY <1>7, <2>1, Chain
  <2>3. Decisions(m, next) = <<e>>
    BY <1>7 DEF Decisions
  <2>4. e \in Record /\ e.type = "reserve_stock" /\ e.qty = next
    BY <1>5 DEF Event, Record, Types
  <2> HIDE DEF e
  <2>5. Caused("ordering", e)
    BY <2>1, <2>2, <2>4 DEF Caused
  <2> QED
    BY <1>3, <1>5, <2>2, <2>3, <2>4, <2>5
<1>8. CASE m.type = "stock_reserved"
  <2> DEFINE e == Event("create_shipment", 0, 0)
  <2>1. Recorded("inventory", "stock_reserved")
    BY <1>2, <1>8 DEF Caused
  <2>2. next = saga.qty
    BY <1>8
  <2>3. Decisions(m, next) = <<e>>
    BY <1>8 DEF Decisions
  <2>4. e \in Record /\ e.type = "create_shipment"
    BY DEF Event, Record, Types
  <2> HIDE DEF e
  <2>5. Caused("ordering", e)
    BY <2>1, <2>4 DEF Caused
  <2> QED
    BY <1>3, <1>5, <2>2, <2>3, <2>4, <2>5
<1>9. CASE m.type = "stock_rejected"
  <2> DEFINE e == Event("refund_payment", 0, 0)
  <2>1. Recorded("inventory", "stock_rejected")
    BY <1>2, <1>9 DEF Caused
  <2>2. next = saga.qty
    BY <1>9
  <2>3. Decisions(m, next) = <<e>>
    BY <1>9 DEF Decisions
  <2>4. e \in Record /\ e.type = "refund_payment"
    BY DEF Event, Record, Types
  <2> HIDE DEF e
  <2>5. Caused("ordering", e)
    BY <2>1, <2>4 DEF Caused
  <2> QED
    BY <1>3, <1>5, <2>2, <2>3, <2>4, <2>5
<1>10. CASE m.type \notin {"order_placed", "payment_captured", "stock_reserved",
                           "stock_rejected"}
  <2>1. Decisions(m, next) = <<>> /\ next = saga.qty
    BY <1>10 DEF Decisions
  <2> QED
    BY <1>3, <1>5, <2>1
<1> QED
  BY <1>6, <1>7, <1>8, <1>9, <1>10

\* A fact reaches the saga, for the first time, again, or too late.
LEMMA SagaReceivesInv ==
    ASSUME OrderInv, NEW t \in EventTopics, SagaReceives(t)
    PROVE  OrderInv'
<1> DEFINE m == topics[t][position[t]]
           next == IF m.type = "order_placed" THEN m.qty ELSE saga.qty
<1>1. /\ position[t] <= Len(topics[t])
      /\ UNCHANGED <<relayed, topics, processed, rejected>>
      /\ faults' \in Nat
  BY DEF SagaReceives, Fault, OrderInv, OrderTypeOK
<1>2. t \in Topics
  BY DEF Topics
<1>3. position' \in [Topics -> Nat \ {0}]
  <2>1. position \in [Topics -> Nat \ {0}]
    BY DEF OrderInv, OrderTypeOK
  <2>2. position' = position \/ position' = [position EXCEPT ![t] = @ + 1]
    BY DEF SagaReceives
  <2> QED
    BY <1>2, <2>1, <2>2
<1>4. /\ processed \subseteq Services \X Nat
      /\ store \in [Services -> Seq(Record)]
      /\ saga \in [seen : SUBSET (Services \X Nat),
                    qty : Quantities \cup {0}, ended : BOOLEAN]
  BY DEF OrderInv, OrderTypeOK
<1>5. CASE UNCHANGED <<store, saga>>
  BY <1>1, <1>3, <1>4, <1>5, OrderNames, RecordStep
<1>6. CASE /\ saga' = [seen |-> saga.seen \cup {m.id}, qty |-> next,
                       ended |-> m.type \in Ending]
           /\ store' = [store EXCEPT !["ordering"] = @ \o Decisions(m, next)]
  <2>1. /\ m.id \in Services \X Nat
        /\ next \in Quantities \cup {0} /\ (saga.qty > 0 => next > 0)
        /\ \/ Decisions(m, next) = <<>>
           \/ \E e \in Record :
                 /\ Decisions(m, next) = <<e>>
                 /\ \/ Caused("ordering", e)
                    \/ e.type = "capture_payment" /\ e.cents > 0 /\ next > 0
    BY <1>1, <1>2, DecisionCaused
  <2>2. saga'.qty = next
    BY <1>6
  <2>3. saga' \in [seen : SUBSET (Services \X Nat),
                   qty : Quantities \cup {0}, ended : BOOLEAN]
    BY <1>4, <1>6, <2>1
  <2> HIDE DEF m, next
  <2>4. "ordering" \in Services /\ store["ordering"] \in Seq(Record)
    BY <1>4, OrderNames
  <2>5. CASE Decisions(m, next) = <<>>
    <3>1. store["ordering"] \o Decisions(m, next) = store["ordering"]
      BY <2>4, <2>5
    <3>2. store' = store
      BY <1>4, <1>6, <3>1
    <3> QED
      BY <1>1, <1>3, <1>4, <2>1, <2>2, <2>3, <2>4, <3>2, RecordStep
  <2>6. ASSUME NEW e \in Record, Decisions(m, next) = <<e>>,
               \/ Caused("ordering", e)
               \/ e.type = "capture_payment" /\ e.cents > 0 /\ next > 0
        PROVE  OrderInv'
    <3>1. store["ordering"] \o <<e>> = Append(store["ordering"], e)
      BY <2>4, AppendIsConcat
    <3>2. store' = [store EXCEPT !["ordering"] = Append(@, e)]
      BY <1>6, <2>6, <3>1
    <3>3. \A u \in Services : \A k \in DOMAIN store[u] :
              k \in DOMAIN store'[u] /\ store'[u][k] = store[u][k]
      BY <2>4, <3>2, StoreGrows
    <3>4. Caused("ordering", e)'
      <4>1. CASE Caused("ordering", e)
        BY <2>1, <2>2, <3>3, <4>1, CausedStays
      <4>2. CASE e.type = "capture_payment" /\ e.cents > 0 /\ next > 0
        BY <2>2, <4>2 DEF Caused
      <4> QED
        BY <2>6, <4>1, <4>2
    <3> QED
      BY <1>1, <1>3, <1>4, <2>1, <2>2, <2>3, <2>4, <3>2, <3>4, RecordStep
  <2> QED
    BY <2>1, <2>5, <2>6
<1> QED
  BY <1>5, <1>6 DEF SagaReceives

\* What a service makes of a command: it has nothing left to do, or records
\* the fact whose cause the command is.  Nothing the saga sends is refused.
LEMMA OutcomeCaused ==
    ASSUME OrderInv, NEW t \in CommandTopics, NEW c,
           position[t] <= Len(topics[t]), c = topics[t][position[t]],
           Outcome(c) # "done"
    PROVE  LET e == Event(Outcome(c), c.cents, c.qty)
           IN /\ ServiceOf(t) \in Services
              /\ Outcome(c) # "rejected"
              /\ e \in Record
              /\ Caused(ServiceOf(t), e)
              /\ ServiceOf(t) = "inventory" => store["inventory"] = <<>>
<1> DEFINE out == Outcome(c)
           e == Event(out, c.cents, c.qty)
<1>1. t \in Topics /\ t \in {"billing.commands", "inventory.commands", "shipping.commands"}
  BY DEF Topics, CommandTopics
<1>2. /\ c \in Message /\ TopicOf(c.type) = t
      /\ \E s \in Services : Recorded(s, c.type) /\ Caused(s, c)
  BY <1>1, MessageCause
<1>3. PICK s \in Services : Recorded(s, c.type) /\ Caused(s, c)
  BY <1>2
<1>4. /\ c.type \in Types
      /\ c.cents \in Amounts \cup {0} /\ c.qty \in Quantities \cup {0}
  BY <1>2 DEF Message
<1>5. /\ t = "billing.commands" => c.type \in {"capture_payment", "refund_payment"}
      /\ t = "inventory.commands" => c.type = "reserve_stock"
      /\ t = "shipping.commands" => c.type = "create_shipment"
  BY <1>2, <1>4, OrderNames
<1>6. /\ t = "billing.commands" => ServiceOf(t) = "billing"
      /\ t = "inventory.commands" => ServiceOf(t) = "inventory"
      /\ t = "shipping.commands" => ServiceOf(t) = "shipping"
  BY DEF ServiceOf
<1>7. ServiceOf(t) \in Services
  BY <1>1, <1>6, OrderNames
<1>8. ASSUME out \in Types
      PROVE  e \in Record /\ e.type = out
  BY <1>4, <1>8 DEF Event, Record
<1>9. CASE c.type = "capture_payment"
  <2>1. s = "ordering" /\ c.cents > 0
    BY <1>3, <1>9 DEF Caused
  <2>2. out = CapturePayment(c.cents)
    BY <1>9 DEF Outcome
  <2>3. out \in {"payment_failed", "payment_captured"}
    BY <2>1, <2>2 DEF CapturePayment, NewAmount, Capture
  <2>4. t = "billing.commands"
    BY <1>1, <1>5, <1>9
  <2>5. e \in Record /\ e.type = out
    BY <1>8, <2>3 DEF Types
  <2> HIDE DEF e, out
  <2>6. Caused("billing", e)
    BY <1>3, <1>9, <2>1, <2>3, <2>5 DEF Caused
  <2> QED
    BY <1>6, <1>7, <2>3, <2>4, <2>5, <2>6 DEF e, out
<1>10. CASE c.type = "refund_payment"
  <2>1. s = "ordering" /\ Recorded("inventory", "stock_rejected")
    BY <1>3, <1>10 DEF Caused
  <2>2. Recorded("billing", "payment_captured")
    BY <2>1, Chain
  <2>3. out = RefundPayment
    BY <1>10 DEF Outcome
  <2>4. out = "payment_refunded"
    BY <2>2, <2>3 DEF RefundPayment, Refund
  <2>5. t = "billing.commands"
    BY <1>1, <1>5, <1>10
  <2>6. e \in Record /\ e.type = out
    BY <1>8, <2>4 DEF Types
  <2> HIDE DEF e, out
  <2>7. Caused("billing", e)
    BY <1>3, <1>10, <2>1, <2>4, <2>6 DEF Caused
  <2> QED
    BY <1>6, <1>7, <2>4, <2>5, <2>6, <2>7 DEF e, out
<1>11. CASE c.type = "reserve_stock"
  <2>1. s = "ordering" /\ c.qty > 0
    BY <1>3, <1>11 DEF Caused
  <2>2. out = ReserveStock(c.qty)
    BY <1>11 DEF Outcome
  <2>3. out \in {"stock_rejected", "stock_reserved"} /\ store["inventory"] = <<>>
    BY <2>1, <2>2 DEF ReserveStock, NewReservedQuantity, Reserve
  <2>4. t = "inventory.commands"
    BY <1>1, <1>5, <1>11
  <2>5. e \in Record /\ e.type = out
    BY <1>8, <2>3 DEF Types
  <2> HIDE DEF e, out
  <2>6. Caused("inventory", e)
    BY <1>3, <1>11, <2>1, <2>3, <2>5 DEF Caused
  <2> QED
    BY <1>6, <1>7, <2>3, <2>4, <2>5, <2>6 DEF e, out
<1>12. CASE c.type = "create_shipment"
  <2>1. s = "ordering"
    BY <1>3, <1>12 DEF Caused
  <2>2. out = CreateShipment
    BY <1>12 DEF Outcome
  <2>3. out = "shipment_dispatched"
    BY <2>2 DEF CreateShipment, Create
  <2>4. t = "shipping.commands"
    BY <1>1, <1>5, <1>12
  <2>5. e \in Record /\ e.type = out
    BY <1>8, <2>3 DEF Types
  <2> HIDE DEF e, out
  <2>6. Caused("shipping", e)
    BY <1>3, <1>12, <2>1, <2>3, <2>5 DEF Caused
  <2> QED
    BY <1>6, <1>7, <2>3, <2>4, <2>5, <2>6 DEF e, out
<1> QED
  BY <1>1, <1>5, <1>9, <1>10, <1>11, <1>12

\* A service consumes a command, for the first time or again.
LEMMA ConsumeInv ==
    ASSUME OrderInv, NEW t \in CommandTopics, Consume(t)
    PROVE  OrderInv'
<1> DEFINE c == topics[t][position[t]]
           s == ServiceOf(t)
           out == Outcome(c)
           e == Event(out, c.cents, c.qty)
<1>1. /\ position[t] <= Len(topics[t])
      /\ UNCHANGED <<relayed, topics, saga>>
      /\ faults' \in Nat
  BY DEF Consume, Fault, OrderInv, OrderTypeOK
<1>2. t \in Topics
  BY DEF Topics
<1>3. position' \in [Topics -> Nat \ {0}]
  <2>1. position \in [Topics -> Nat \ {0}]
    BY DEF OrderInv, OrderTypeOK
  <2>2. position' = position \/ position' = [position EXCEPT ![t] = @ + 1]
    BY DEF Consume
  <2> QED
    BY <1>2, <2>1, <2>2
<1>4. processed' \subseteq Services \X Nat
  <2>1. c \in Message
    BY <1>1, <1>2, MessageCause
  <2>2. c.id \in Services \X Nat
    BY <2>1 DEF Message
  <2>3. processed' = processed \/ processed' = processed \cup {c.id}
    BY DEF Consume
  <2> QED
    BY <2>2, <2>3 DEF OrderInv, OrderTypeOK
<1>5. saga \in [seen : SUBSET (Services \X Nat),
                qty : Quantities \cup {0}, ended : BOOLEAN]
  BY DEF OrderInv, OrderTypeOK
<1>6. CASE UNCHANGED <<store, rejected>>
  BY <1>1, <1>3, <1>4, <1>5, <1>6, OrderNames, RecordStep
<1>7. CASE /\ out # "done"
           /\ rejected' = IF out = "rejected" THEN rejected \cup {c.id} ELSE rejected
           /\ store' = IF out = "rejected" THEN store
                       ELSE [store EXCEPT ![s] = Append(@, e)]
  <2>1. /\ s \in Services /\ out # "rejected" /\ e \in Record
        /\ Caused(s, e)
        /\ s = "inventory" => store["inventory"] = <<>>
    BY <1>1, <1>7, OutcomeCaused
  <2>2. rejected' = rejected /\ store' = [store EXCEPT ![s] = Append(@, e)]
    BY <1>7, <2>1
  <2>3. PICK service, record : service = s /\ record = e
    OBVIOUS
  <2> HIDE DEF s, e, out, c
  <2>4. /\ service \in Services /\ record \in Record
        /\ Caused(service, record)
        /\ service = "inventory" => store[service] = <<>>
        /\ store' = [store EXCEPT ![service] = Append(@, record)]
    BY <2>1, <2>2, <2>3
  <2>5. \A u \in Services : \A k \in DOMAIN store[u] :
            k \in DOMAIN store'[u] /\ store'[u][k] = store[u][k]
    BY <2>4, StoreGrows
  <2>6. Caused(service, record)'
    BY <1>1, <2>4, <2>5, CausedStays
  <2> QED
    BY <1>1, <1>3, <1>4, <1>5, <2>2, <2>4, <2>6, RecordStep
<1> QED
  BY <1>6, <1>7 DEF Consume

\* A step that changes nothing.
LEMMA OrderStutter ==
    ASSUME OrderInv, UNCHANGED orderVars
    PROVE  OrderInv'
<1>1. UNCHANGED <<store, relayed, topics, position, saga, processed, rejected,
                  faults>>
  BY DEF orderVars, consumed
<1>2. CausalInv' /\ (Len(store["inventory"]) <= 1)'
  BY <1>1, CausalKept
<1>3. TopicInv'
  BY <1>1, TopicKept
<1>4. OrderTypeOK'
  BY <1>1 DEF OrderInv, OrderTypeOK
<1> QED
  BY <1>1, <1>2, <1>3, <1>4 DEF OrderInv, NoCommandRejected

\* Every step of the order's services keeps their invariant.
LEMMA OrderSteps ==
    ASSUME OrderInv, [OrderNext]_orderVars
    PROVE  OrderInv'
<1>1. CASE PlaceOrder
  BY <1>1, PlaceOrderInv
<1>2. ASSUME NEW s \in Services, Publish(s) \/ Republish(s)
      PROVE  OrderInv'
  BY <1>2, PublishInv, RepublishInv
<1>3. ASSUME NEW t \in EventTopics, SagaReceives(t)
      PROVE  OrderInv'
  BY <1>3, SagaReceivesInv
<1>4. ASSUME NEW t \in CommandTopics, Consume(t)
      PROVE  OrderInv'
  BY <1>4, ConsumeInv
<1>5. CASE Quiet
  BY <1>5, OrderStutter DEF Quiet
<1>6. CASE UNCHANGED orderVars
  BY <1>6, OrderStutter
<1> QED
  BY <1>1, <1>2, <1>3, <1>4, <1>5, <1>6 DEF OrderNext

(***************************************************************************)
(* Everything the four services record has its cause, in every reachable   *)
(* state, for any totals and quantities.                                   *)
(***************************************************************************)
THEOREM EverythingHasItsCause == OrderSpec => []OrderInv
<1>1. OrderInit => OrderInv
  BY OrderStarts
<1>2. OrderInv /\ [OrderNext]_orderVars => OrderInv'
  BY OrderSteps
<1> QED
  BY <1>1, <1>2, PTL DEF OrderSpec

(***************************************************************************)
(* Goods leave only for money that stays, although the facts and commands  *)
(* of an order travel on seven topics that are not ordered against each    *)
(* other, are published and consumed more than once, and are found again   *)
(* after restarts.                                                         *)
(***************************************************************************)
THEOREM GoodsForMoney == OrderSpec => []ShippedIsPaid
<1>1. OrderInv => ShippedIsPaid
  <2> SUFFICES ASSUME OrderInv, Recorded("shipping", "shipment_dispatched")
               PROVE  /\ Recorded("billing", "payment_captured")
                      /\ Recorded("inventory", "stock_reserved")
                      /\ ~Recorded("ordering", "refund_payment")
                      /\ ~Recorded("billing", "payment_refunded")
    BY DEF ShippedIsPaid
  <2>1. /\ Recorded("inventory", "stock_reserved")
        /\ Recorded("billing", "payment_captured")
    BY Chain
  <2>2. ~Recorded("inventory", "stock_rejected")
    <3>1. /\ store["inventory"] \in Seq(Record) /\ Len(store["inventory"]) <= 1
      BY OrderNames DEF OrderInv, OrderTypeOK
    <3>2. \A i, j \in DOMAIN store["inventory"] : i = j
      BY <3>1
    <3> QED
      BY <2>1, <3>2 DEF Recorded
  <2> QED
    BY <2>1, <2>2, Chain
<1> QED
  BY <1>1, EverythingHasItsCause, PTL

(***************************************************************************)
(* The saga never asks for what a service must refuse.                     *)
(***************************************************************************)
THEOREM SagaAsksForWhatIsPossible == OrderSpec => []NoCommandRejected
<1>1. OrderInv => NoCommandRejected
  BY DEF OrderInv
<1> QED
  BY <1>1, EverythingHasItsCause, PTL
=============================================================================
