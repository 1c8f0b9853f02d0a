----------------------- MODULE CommandConsumerProofs -----------------------
(***************************************************************************)
(* However often commands are delivered, retried or executed by several    *)
(* members at a time, a payment is decided once and refunded at most once, *)
(* and nothing is acknowledged without its effect: for any topic the       *)
(* fulfillment saga can produce, any number of members and any faults.     *)
(***************************************************************************)
EXTENDS CommandConsumer, FiniteSetTheorems, SequenceTheorems, TLAPS

\* What a step may do to the payments and to the record of rejections: a
\* payment is decided, or a captured one refunded; nothing is taken back.
Onward ==
    /\ rejected \subseteq rejected'
    /\ \A o \in Orders :
          \/ payments'[o] = payments[o]
          \/ payments[o] = <<>> /\ payments'[o] \in {<<"failed">>, <<"captured">>}
          \/ payments[o] = <<"captured">> /\ payments'[o] = <<"captured", "refunded">>

\* The four histories of a payment differ, and their lengths tell.
LEMMA HistoriesDiffer ==
    /\ Len(<<>>) = 0 /\ Len(<<"failed">>) = 1 /\ Len(<<"captured">>) = 1
    /\ Len(<<"captured", "refunded">>) = 2
    /\ <<"failed">> # <<"captured">>
    /\ <<>> # <<"failed">> /\ <<>> # <<"captured">>
    /\ <<"captured", "refunded">> \notin {<<>>, <<"failed">>, <<"captured">>}
    /\ Append(<<>>, "failed") = <<"failed">>
    /\ Append(<<>>, "captured") = <<"captured">>
    /\ Append(<<"captured">>, "refunded") = <<"captured", "refunded">>
<1>1. /\ Len(<<>>) = 0 /\ Len(<<"failed">>) = 1 /\ Len(<<"captured">>) = 1
      /\ Len(<<"captured", "refunded">>) = 2
  OBVIOUS
<1>2. <<"failed">> # <<"captured">>
  <2>1. <<"failed">>[1] = "failed" /\ <<"captured">>[1] = "captured"
    OBVIOUS
  <2> QED
    BY <2>1
<1>3. /\ Append(<<>>, "failed") = <<"failed">>
      /\ Append(<<>>, "captured") = <<"captured">>
      /\ Append(<<"captured">>, "refunded") = <<"captured", "refunded">>
  <2> DEFINE Fact == {"failed", "captured", "refunded"}
  <2>1. ASSUME NEW f \in Fact
        PROVE  Append(<<>>, f) = <<f>>
    <3>1. /\ Append(<<>>, f) \in Seq(Fact) /\ <<f>> \in Seq(Fact)
          /\ Len(Append(<<>>, f)) = 1 /\ Len(<<f>>) = 1
          /\ Append(<<>>, f)[1] = f /\ <<f>>[1] = f
      OBVIOUS
    <3> QED
      BY <3>1, SeqEqual
  <2>2. Append(<<"captured">>, "refunded") = <<"captured", "refunded">>
    <3> DEFINE s == Append(<<"captured">>, "refunded")
               t == <<"captured", "refunded">>
    <3>1. /\ s \in Seq(Fact) /\ t \in Seq(Fact) /\ Len(s) = 2 /\ Len(t) = 2
          /\ s[1] = "captured" /\ s[2] = "refunded"
          /\ t[1] = "captured" /\ t[2] = "refunded"
      OBVIOUS
    <3> HIDE DEF s, t
    <3>2. \A i \in 1..Len(s) : s[i] = t[i]
      BY <3>1
    <3>3. s = t
      BY <3>1, <3>2, SeqEqual
    <3> QED
      BY <3>3 DEF s, t
  <2> QED
    BY <2>1, <2>2
<1>4. /\ <<>> # <<"failed">> /\ <<>> # <<"captured">>
      /\ <<"captured", "refunded">> # <<>>
      /\ <<"captured", "refunded">> # <<"failed">>
      /\ <<"captured", "refunded">> # <<"captured">>
  BY <1>1
<1> QED
  BY <1>1, <1>2, <1>3, <1>4, Zenon

\* What the billing handlers make of each command and each history.
LEMMA OutcomeValues ==
    ASSUME NEW kind \in Kinds, kind # "garbage", NEW p \in Histories
    PROVE  /\ Outcome(kind, p) = "done" <=>
                 (IF kind = "refund" THEN p = <<"captured", "refunded">>
                                     ELSE p # <<>>)
           /\ Outcome(kind, p) = "rejected" <=>
                 \/ kind = "refund" /\ p \in {<<>>, <<"failed">>}
                 \/ kind = "invalid" /\ p = <<>>
           /\ kind = "refund" /\ p = <<"captured">> => Outcome(kind, p) = "refunded"
           /\ kind = "excessive" /\ p = <<>> => Outcome(kind, p) = "failed"
           /\ kind = "capture" /\ p = <<>> => Outcome(kind, p) = "captured"
<1>1. CASE kind = "refund"
  <2>1. CASE p \in {<<>>, <<"failed">>}
    BY <1>1, <2>1, HistoriesDiffer DEF Outcome
  <2>2. CASE p = <<"captured">>
    <3>1. p # <<>> /\ p # <<"failed">> /\ p # <<"captured", "refunded">>
      BY <2>2, HistoriesDiffer
    <3>2. Outcome("refund", p) = "refunded"
      BY <2>2, <3>1 DEF Outcome
    <3> QED
      BY <1>1, <3>1, <3>2
  <2>3. CASE p = <<"captured", "refunded">>
    <3>1. p # <<>> /\ p # <<"failed">> /\ p # <<"captured">>
      BY <2>3, HistoriesDiffer
    <3>2. Outcome("refund", p) = "done"
      BY <3>1 DEF Outcome
    <3> QED
      BY <1>1, <2>3, <3>1, <3>2
  <2> QED
    BY <2>1, <2>2, <2>3 DEF Histories
<1>2. CASE kind # "refund" /\ p # <<>>
  BY <1>2 DEF Outcome
<1>3. CASE kind # "refund" /\ p = <<>>
  <2>1. kind \in {"capture", "excessive", "invalid"}
    BY <1>3 DEF Kinds
  <2>2. /\ kind = "capture" => Outcome(kind, p) = "captured"
        /\ kind = "excessive" => Outcome(kind, p) = "failed"
        /\ kind = "invalid" => Outcome(kind, p) = "rejected"
    BY <1>3 DEF Outcome
  <2> QED
    BY <1>3, <2>1, <2>2
<1> QED
  BY <1>1, <1>2, <1>3

\* How often a fact is recorded in each history.
LEMMA CountValues ==
    ASSUME NEW o \in Orders, payments[o] \in Histories
    PROVE  /\ Count(o, "captured") =
                 (IF payments[o] \in {<<>>, <<"failed">>} THEN 0 ELSE 1)
           /\ Count(o, "failed") = (IF payments[o] = <<"failed">> THEN 1 ELSE 0)
           /\ Count(o, "refunded") =
                 (IF payments[o] = <<"captured", "refunded">> THEN 1 ELSE 0)
<1> DEFINE places(fact) == {i \in DOMAIN payments[o] : payments[o][i] = fact}
<1>1. Cardinality({}) = 0 /\ Cardinality({1}) = 1 /\ Cardinality({2}) = 1
  BY FS_EmptySet, FS_Singleton
<1>2. CASE payments[o] = <<>>
  <2>1. places("captured") = {} /\ places("failed") = {} /\ places("refunded") = {}
    BY <1>2
  <2> QED
    BY <1>1, <1>2, <2>1, HistoriesDiffer DEF Count
<1>3. CASE payments[o] = <<"failed">>
  <2>1. places("captured") = {} /\ places("failed") = {1} /\ places("refunded") = {}
    BY <1>3
  <2> QED
    BY <1>1, <1>3, <2>1, HistoriesDiffer DEF Count
<1>4. CASE payments[o] = <<"captured">>
  <2>1. places("captured") = {1} /\ places("failed") = {} /\ places("refunded") = {}
    BY <1>4
  <2> QED
    BY <1>1, <1>4, <2>1, HistoriesDiffer DEF Count
<1>5. CASE payments[o] = <<"captured", "refunded">>
  <2>1. places("captured") = {1} /\ places("failed") = {} /\ places("refunded") = {2}
    BY <1>5
  <2> QED
    BY <1>1, <1>5, <2>1, HistoriesDiffer DEF Count
<1> QED
  BY <1>2, <1>3, <1>4, <1>5 DEF Histories

\* What the topic holds at each position.
LEMMA TopicTypes ==
    /\ Len(Commands) \in Nat /\ DOMAIN Commands = 1..Len(Commands)
    /\ \A i \in DOMAIN Commands :
          /\ Commands[i] \in Wire
          /\ Commands[i].id \in Ids /\ Commands[i].order \in Orders
          /\ Commands[i].kind \in Kinds
<1>1. Len(Commands) \in Nat /\ DOMAIN Commands = 1..Len(Commands)
  BY ConsumerAssumption
<1>2. \A i \in DOMAIN Commands : Commands[i] \in Wire
  BY ConsumerAssumption
<1> QED
  BY <1>1, <1>2 DEF Wire

\* Resolved is stable: no later fact takes back the effect of a command.
LEMMA ResolvedStable ==
    ASSUME Onward, NEW i \in DOMAIN Commands, Resolved(Commands[i])
    PROVE  Resolved(Commands[i])'
<1> DEFINE o == Commands[i].order
<1>1. o \in Orders
  BY TopicTypes
<1>2. \/ payments'[o] = payments[o]
      \/ payments[o] = <<>> /\ payments'[o] \in {<<"failed">>, <<"captured">>}
      \/ payments[o] = <<"captured">> /\ payments'[o] = <<"captured", "refunded">>
  BY <1>1 DEF Onward
<1>3. rejected \subseteq rejected'
  BY DEF Onward
<1> QED
  BY <1>2, <1>3, HistoriesDiffer DEF Resolved

\* What is resolved is settled.
LEMMA ResolvedIsSettled ==
    ASSUME TypeOK, NEW i \in DOMAIN Commands, Resolved(Commands[i])
    PROVE  Settled(Commands[i])
<1>1. Commands[i].order \in Orders
  BY TopicTypes
<1>2. payments[Commands[i].order] \in Histories
  BY <1>1 DEF TypeOK
<1> QED
  BY <1>1, <1>2, CountValues, HistoriesDiffer DEF Resolved, Settled

\* An empty consumer satisfies the invariant.
LEMMA InitInv == Init => Inv
<1> SUFFICES ASSUME Init PROVE Inv
  OBVIOUS
<1> USE DEF Init
<1>1. TypeOK
  BY ConsumerAssumption, FaultsAssumption DEF TypeOK, Histories
<1>2. TopicInv
  BY TopicTypes DEF TopicInv
<1>3. \A m \in Members : MemberInv(m)
  BY DEF MemberInv
<1> QED
  BY <1>1, <1>2, <1>3 DEF Inv

-----------------------------------------------------------------------------
\* A step that marks and commits nothing leaves the topic resolved.
LEMMA TopicKept ==
    ASSUME Inv, Onward, UNCHANGED <<processed, offset>>
    PROVE  TopicInv'
BY ResolvedStable DEF Inv, TopicInv

\* A member whose own state is left alone keeps its part of the invariant.
LEMMA MemberKept ==
    ASSUME Inv, Onward, NEW n \in Members,
           pc'[n] = pc[n], current'[n] = current[n], loaded'[n] = loaded[n]
    PROVE  MemberInv(n)'
<1> SUFFICES ASSUME pc[n] # "idle"
             PROVE  MemberInv(n)'
  BY DEF MemberInv
<1>1. /\ current[n] \in DOMAIN Commands
      /\ \A i \in 1..(current[n] - 1) : Resolved(Commands[i])
      /\ pc[n] \in {"mark", "ack"} => Resolved(Commands[current[n]])
      /\ pc[n] \in {"execute", "save"} => Decodes(Commands[current[n]])
  BY DEF Inv, MemberInv, Cmd
<1>2. \A i \in 1..(current[n] - 1) : i \in DOMAIN Commands
  BY <1>1, TopicTypes
<1>3. \A i \in 1..(current[n] - 1) : Resolved(Commands[i])'
  BY <1>1, <1>2, ResolvedStable
<1>4. pc[n] \in {"mark", "ack"} => Resolved(Commands[current[n]])'
  BY <1>1, ResolvedStable
<1>5. Cmd(n)' = Cmd(n) /\ Cmd(n) = Commands[current[n]]
  BY DEF Cmd
<1>6. ASSUME pc[n] = "save"
      PROVE  \/ loaded[n] = <<>> /\ Cmd(n).kind \in {"capture", "excessive"}
             \/ /\ loaded[n] = <<"captured">> /\ Cmd(n).kind = "refund"
                /\ payments'[Cmd(n).order] \notin {<<>>, <<"failed">>}
  <2>1. \/ loaded[n] = <<>> /\ Cmd(n).kind \in {"capture", "excessive"}
        \/ /\ loaded[n] = <<"captured">> /\ Cmd(n).kind = "refund"
           /\ payments[Cmd(n).order] \notin {<<>>, <<"failed">>}
    BY <1>6 DEF Inv, MemberInv
  <2>2. Cmd(n).order \in Orders
    BY <1>1, <1>5, TopicTypes
  <2> QED
    BY <2>1, <2>2, HistoriesDiffer DEF Onward
<1>7. /\ \A i \in 1..(current'[n] - 1) : Resolved(Commands[i])'
      /\ pc'[n] \in {"mark", "ack"} => Resolved(Commands[current[n]])'
  BY <1>3, <1>4
<1>8. pc'[n] \in {"mark", "ack"} => Resolved(Cmd(n))'
  BY <1>4, <1>5 DEF Resolved
<1> QED
  BY <1>1, <1>5, <1>6, <1>7, <1>8 DEF MemberInv, Decodes

\* A step of member m only: the topic and m's own part are left to show.
LEMMA MemberStep ==
    ASSUME Inv, NEW m \in Members, Onward, TypeOK', TopicInv', MemberInv(m)',
           \A n \in Members \ {m} : /\ pc'[n] = pc[n]
                                    /\ current'[n] = current[n]
                                    /\ loaded'[n] = loaded[n]
    PROVE  Inv'
<1>1. ASSUME NEW n \in Members PROVE MemberInv(n)'
  <2>1. CASE n = m
    BY <2>1
  <2>2. CASE n # m
    BY <2>2, MemberKept
  <2> QED
    BY <2>1, <2>2
<1> QED
  BY <1>1 DEF Inv

\* Leaving the payments and the rejections alone is a step onward.
LEMMA StoreKept ==
    ASSUME UNCHANGED <<payments, rejected>>
    PROVE  Onward
BY DEF Onward

\* A member that goes to a place with no promise of its own, on the same
\* command, keeps what it has behind it.
LEMMA SameCommand ==
    ASSUME Inv, Onward, NEW m \in Members, pc[m] # "idle",
           current'[m] = current[m]
    PROVE  /\ current[m] \in DOMAIN Commands
           /\ Cmd(m)' = Cmd(m) /\ Cmd(m) = Commands[current[m]]
           /\ Cmd(m).order \in Orders /\ Cmd(m).id \in Ids
           /\ Cmd(m).kind \in Kinds
           /\ \A i \in 1..(current'[m] - 1) : Resolved(Commands[i])'
<1>1. /\ current[m] \in DOMAIN Commands
      /\ \A i \in 1..(current[m] - 1) : Resolved(Commands[i])
  BY DEF Inv, MemberInv
<1>2. \A i \in 1..(current[m] - 1) : i \in DOMAIN Commands
  BY <1>1, TopicTypes
<1>3. \A i \in 1..(current[m] - 1) : Resolved(Commands[i])'
  BY <1>1, <1>2, ResolvedStable
<1>4. Cmd(m)' = Cmd(m) /\ Cmd(m) = Commands[current[m]]
  BY DEF Cmd
<1> QED
  BY <1>1, <1>3, <1>4, TopicTypes

-----------------------------------------------------------------------------
\* A delivered command stands where the group has committed all before it.
LEMMA DeliverInv ==
    ASSUME Inv, NEW m \in Members, Deliver(m)
    PROVE  Inv' /\ Onward
<1> USE DEF Deliver, Goto, store
<1>1. Onward
  BY StoreKept
<1>2. TypeOK'
  BY TopicTypes DEF Inv, TypeOK
<1>3. TopicInv'
  BY <1>1, TopicKept
<1>4. MemberInv(m)'
  <2>1. offset \in Nat \ {0} /\ offset \in DOMAIN Commands
    BY TopicTypes DEF Inv, TypeOK
  <2>2. pc'[m] = "check" /\ current'[m] = offset
    BY DEF Inv, TypeOK
  <2>3. \A i \in 1..(offset - 1) : i \in DOMAIN Commands /\ i < offset
    BY <2>1, TopicTypes
  <2>4. \A i \in 1..(offset - 1) : Resolved(Commands[i])
    BY <2>3 DEF Inv, TopicInv
  <2>5. \A i \in 1..(offset - 1) : Resolved(Commands[i])'
    BY <1>1, <2>3, <2>4, ResolvedStable
  <2> QED
    BY <2>1, <2>2, <2>5 DEF MemberInv
<1> QED
  BY <1>1, <1>2, <1>3, <1>4, MemberStep DEF Inv, TypeOK

\* What is known is resolved, what does not decode has just been rejected.
LEMMA CheckInv ==
    ASSUME Inv, NEW m \in Members, Check(m)
    PROVE  Inv' /\ Onward
<1> USE DEF Goto
<1>1. Onward
  BY DEF Check, Onward
<1>2. /\ current[m] \in DOMAIN Commands
      /\ Cmd(m)' = Cmd(m) /\ Cmd(m) = Commands[current[m]]
      /\ Cmd(m).id \in Ids
      /\ \A i \in 1..(current'[m] - 1) : Resolved(Commands[i])'
  BY <1>1, SameCommand DEF Check
<1>3. TypeOK'
  <2>1. rejected' \subseteq Ids
    BY <1>2 DEF Check, Inv, TypeOK
  <2>2. pc' \in [Members -> {"idle", "check", "execute", "save", "mark", "ack"}]
    BY DEF Check, Inv, TypeOK
  <2>3. attempt' \in [Members -> 0..Attempts]
    BY ConsumerAssumption, FaultsAssumption DEF Check, Inv, TypeOK
  <2> QED
    BY <2>1, <2>2, <2>3 DEF Check, Inv, TypeOK
<1>4. TopicInv'
  BY <1>1, TopicKept DEF Check
<1>5. current'[m] = current[m]
  BY DEF Check
<1>6. MemberInv(m)'
  <2>1. CASE Known(Cmd(m)) /\ pc' = [pc EXCEPT ![m] = "ack"]
    <3>1. Resolved(Commands[current[m]])
      BY <1>2, <2>1 DEF Inv, TopicInv, Known
    <3>2. Resolved(Commands[current[m]])'
      BY <1>1, <1>2, <1>5, <3>1, ResolvedStable
    <3>3. Resolved(Cmd(m))'
      BY <1>2, <1>5, <3>2 DEF Resolved
    <3>4. pc'[m] = "ack"
      BY <2>1 DEF Inv, TypeOK
    <3> QED
      BY <1>2, <1>5, <3>3, <3>4 DEF MemberInv
  <2>2. CASE /\ ~Decodes(Cmd(m)) /\ rejected' = rejected \cup {Cmd(m).id}
             /\ pc' = [pc EXCEPT ![m] = "mark"]
    <3>1. Resolved(Cmd(m))'
      BY <1>2, <2>2 DEF Resolved, Decodes
    <3>2. pc'[m] = "mark"
      BY <2>2 DEF Inv, TypeOK
    <3> QED
      BY <1>2, <1>5, <3>1, <3>2 DEF MemberInv
  <2>3. CASE Decodes(Cmd(m)) /\ pc' = [pc EXCEPT ![m] = "execute"]
    <3>1. Decodes(Cmd(m))'
      BY <1>2, <2>3 DEF Decodes
    <3>2. pc'[m] = "execute"
      BY <2>3 DEF Inv, TypeOK
    <3> QED
      BY <1>2, <1>5, <3>1, <3>2 DEF MemberInv
  <2> QED
    BY <2>1, <2>2, <2>3 DEF Check
<1>7. \A n \in Members \ {m} : /\ pc'[n] = pc[n] /\ current'[n] = current[n]
                               /\ loaded'[n] = loaded[n]
  BY DEF Check, Inv, TypeOK
<1> QED
  BY <1>1, <1>3, <1>4, <1>6, <1>7, MemberStep

\* A refund finds a payment that is decided: the capture the saga sent
\* before it is behind it on the partition.
LEMMA RefundFindsDecision ==
    ASSUME Inv, NEW m \in Members, pc[m] # "idle", Cmd(m).kind = "refund"
    PROVE  payments[Cmd(m).order] # <<>>
<1>1. current[m] \in DOMAIN Commands /\ Cmd(m) = Commands[current[m]]
  BY DEF Inv, MemberInv, Cmd
<1>2. PICK k \in 1..(current[m] - 1) :
          /\ Commands[k].order = Cmd(m).order
          /\ Commands[k].kind \in {"capture", "excessive"}
  BY <1>1, TopicAssumption
<1>3. Resolved(Commands[k])
  BY DEF Inv, MemberInv
<1> QED
  BY <1>2, <1>3 DEF Resolved

\* The bus either has nothing to do, rejects, or loads what it will save.
LEMMA ExecuteInv ==
    ASSUME Inv, NEW m \in Members, Execute(m)
    PROVE  Inv' /\ Onward
<1> DEFINE p == payments[Cmd(m).order]
           out == Outcome(Cmd(m).kind, p)
<1>1. Onward
  BY DEF Execute, Onward
<1>2. /\ current[m] \in DOMAIN Commands
      /\ Cmd(m)' = Cmd(m) /\ Cmd(m) = Commands[current[m]]
      /\ Cmd(m).order \in Orders /\ Cmd(m).id \in Ids /\ Cmd(m).kind \in Kinds
      /\ \A i \in 1..(current'[m] - 1) : Resolved(Commands[i])'
  BY <1>1, SameCommand DEF Execute
<1>3. /\ p \in Histories /\ Cmd(m).kind # "garbage"
      /\ Cmd(m).kind = "refund" => p # <<>>
  <2>1. pc[m] = "execute"
    BY DEF Execute
  <2>2. Decodes(Cmd(m))
    BY <2>1 DEF Inv, MemberInv
  <2> QED
    BY <1>2, <2>1, <2>2, RefundFindsDecision DEF Decodes, Inv, TypeOK
<1>4. /\ payments' = payments /\ current'[m] = current[m]
      /\ UNCHANGED <<processed, offset, owner, current, faults>>
  BY DEF Execute
<1>5. TypeOK'
  <2> USE DEF Execute, Forget, Goto
  <2>1. rejected' \subseteq Ids
    BY <1>2 DEF Inv, TypeOK
  <2>2. pc' \in [Members -> {"idle", "check", "execute", "save", "mark", "ack"}]
    BY DEF Inv, TypeOK
  <2>3. attempt' \in [Members -> 0..Attempts]
    <3>1. 0 \in 0..Attempts
      BY ConsumerAssumption
    <3> QED
      BY <3>1 DEF Inv, TypeOK
  <2>4. <<>> \in Histories
    BY DEF Histories
  <2>5. loaded' \in [Members -> Histories]
    BY <1>3, <2>4 DEF Inv, TypeOK
  <2> QED
    BY <1>4, <2>1, <2>2, <2>3, <2>5 DEF Inv, TypeOK
<1>6. TopicInv'
  BY <1>1, <1>4, TopicKept
<1>7. MemberInv(m)'
  <2>1. CASE out = "done" /\ pc' = [pc EXCEPT ![m] = "mark"]
    <3>1. Resolved(Cmd(m))'
      BY <1>2, <1>3, <1>4, <2>1, OutcomeValues, HistoriesDiffer DEF Resolved
    <3>2. pc'[m] = "mark"
      BY <2>1 DEF Inv, TypeOK
    <3> QED
      BY <1>2, <1>4, <3>1, <3>2 DEF MemberInv
  <2>2. CASE /\ out = "rejected" /\ rejected' = rejected \cup {Cmd(m).id}
             /\ pc' = [pc EXCEPT ![m] = "mark"]
    <3>1. Resolved(Cmd(m))'
      BY <1>2, <1>3, <1>4, <2>2, OutcomeValues, HistoriesDiffer DEF Resolved
    <3>2. pc'[m] = "mark"
      BY <2>2 DEF Inv, TypeOK
    <3> QED
      BY <1>2, <1>4, <3>1, <3>2 DEF MemberInv
  <2>3. CASE /\ out # "done" /\ out # "rejected"
             /\ loaded' = [loaded EXCEPT ![m] = p]
             /\ pc' = [pc EXCEPT ![m] = "save"]
    <3>1. \/ p = <<>> /\ Cmd(m).kind \in {"capture", "excessive"}
          \/ p = <<"captured">> /\ Cmd(m).kind = "refund"
      BY <1>2, <1>3, <2>3, OutcomeValues DEF Kinds, Histories
    <3>2. pc'[m] = "save" /\ loaded'[m] = p
      BY <2>3 DEF Inv, TypeOK
    <3>3. Decodes(Cmd(m))'
      BY <1>2, <1>3 DEF Decodes
    <3> QED
      BY <1>2, <1>4, <3>1, <3>2, <3>3, HistoriesDiffer DEF MemberInv
  <2> QED
    BY <2>1, <2>2, <2>3 DEF Execute, Definitive, Goto
<1>8. \A n \in Members \ {m} : /\ pc'[n] = pc[n] /\ current'[n] = current[n]
                               /\ loaded'[n] = loaded[n]
  BY DEF Execute, Forget, Goto, Inv, TypeOK
<1> QED
  BY <1>1, <1>5, <1>6, <1>7, <1>8, MemberStep

\* A dispatch that is tried again, or given back to the subscription, is
\* still about a command that decodes.
LEMMA RetryMember ==
    ASSUME Inv, NEW m \in Members, pc[m] \in {"execute", "save"}, Onward,
           Retry(m), current' = current
    PROVE  /\ MemberInv(m)'
           /\ pc' \in [Members -> {"idle", "check", "execute", "save", "mark", "ack"}]
           /\ attempt' \in [Members -> 0..Attempts]
           /\ loaded' \in [Members -> Histories]
           /\ \A n \in Members \ {m} : pc'[n] = pc[n] /\ loaded'[n] = loaded[n]
<1> USE DEF Retry, Goto
<1>1. /\ current[m] \in DOMAIN Commands
      /\ Cmd(m)' = Cmd(m) /\ current'[m] = current[m]
      /\ \A i \in 1..(current'[m] - 1) : Resolved(Commands[i])'
  BY SameCommand
<1>2. Decodes(Cmd(m))'
  BY <1>1 DEF Inv, MemberInv, Decodes
<1>3. pc'[m] \in {"execute", "check"}
  BY DEF Inv, TypeOK
<1>4. MemberInv(m)'
  BY <1>1, <1>2, <1>3 DEF MemberInv
<1>5. pc' \in [Members -> {"idle", "check", "execute", "save", "mark", "ack"}]
  BY DEF Inv, TypeOK
<1>6. attempt' \in [Members -> 0..Attempts]
  <2>1. attempt \in [Members -> 0..Attempts] /\ Attempts \in Nat
    BY ConsumerAssumption DEF Inv, TypeOK
  <2>2. attempt[m] < Attempts => attempt[m] + 1 \in 0..Attempts
    BY <2>1
  <2>3. 0 \in 0..Attempts
    BY <2>1
  <2> QED
    BY <2>1, <2>2, <2>3
<1>7. <<>> \in Histories
  BY DEF Histories
<1>8. loaded' \in [Members -> Histories]
  BY <1>7 DEF Inv, TypeOK
<1> QED
  BY <1>4, <1>5, <1>6, <1>8 DEF Inv, TypeOK

\* The version check: the fact is recorded on the history it was decided
\* from, whatever another member did in between.
LEMMA SaveDecides ==
    ASSUME Inv, NEW m \in Members, pc[m] = "save",
           Len(payments[Cmd(m).order]) = Len(loaded[m]), Cmd(m).order \in Orders
    PROVE  LET p == payments[Cmd(m).order]
               q == Append(p, Outcome(Cmd(m).kind, loaded[m]))
           IN \/ /\ p = <<>> /\ q \in {<<"failed">>, <<"captured">>}
                 /\ Cmd(m).kind \in {"capture", "excessive"}
              \/ /\ p = <<"captured">> /\ q = <<"captured", "refunded">>
                 /\ Cmd(m).kind = "refund"
<1> DEFINE p == payments[Cmd(m).order]
<1>1. p \in Histories
  BY DEF Inv, TypeOK
<1>2. CASE loaded[m] = <<>> /\ Cmd(m).kind \in {"capture", "excessive"}
  <2>1. p = <<>>
    BY <1>1, <1>2, HistoriesDiffer DEF Histories
  <2>2. Outcome(Cmd(m).kind, loaded[m]) \in {"captured", "failed"}
    BY <1>2, OutcomeValues DEF Kinds, Histories
  <2> QED
    BY <1>2, <2>1, <2>2, HistoriesDiffer
<1>3. CASE /\ loaded[m] = <<"captured">> /\ Cmd(m).kind = "refund"
           /\ p \notin {<<>>, <<"failed">>}
  <2>1. p = <<"captured">>
    BY <1>1, <1>3, HistoriesDiffer DEF Histories
  <2>2. Outcome(Cmd(m).kind, loaded[m]) = "refunded"
    BY <1>3, OutcomeValues DEF Kinds, Histories
  <2> QED
    BY <1>3, <2>1, <2>2, HistoriesDiffer
<1> QED
  BY <1>2, <1>3 DEF Inv, MemberInv

\* A save decides or refunds a payment, or finds a conflict and retries.
LEMMA SaveInv ==
    ASSUME Inv, NEW m \in Members, Save(m)
    PROVE  Inv' /\ Onward
<1> DEFINE o == Cmd(m).order
           q == Append(payments[o], Outcome(Cmd(m).kind, loaded[m]))
<1>1. /\ pc[m] = "save" /\ current' = current /\ rejected' = rejected
      /\ processed' = processed /\ offset' = offset /\ owner' = owner
  BY DEF Save
<1>2. o \in Orders /\ o = Commands[current[m]].order
  BY <1>1, TopicTypes DEF Inv, MemberInv, Cmd
<1>3. payments \in [Orders -> Histories]
  BY DEF Inv, TypeOK
<1>4. ASSUME Len(payments[o]) = Len(loaded[m]),
             payments' = [payments EXCEPT ![o] = q]
      PROVE  /\ Onward /\ payments' \in [Orders -> Histories]
             /\ Resolved(Commands[current[m]])'
  <2>1. \/ /\ payments[o] = <<>> /\ q \in {<<"failed">>, <<"captured">>}
           /\ Cmd(m).kind \in {"capture", "excessive"}
        \/ /\ payments[o] = <<"captured">> /\ q = <<"captured", "refunded">>
           /\ Cmd(m).kind = "refund"
    BY <1>1, <1>2, <1>4, SaveDecides
  <2> HIDE DEF q
  <2>2. q \in Histories
    BY <2>1 DEF Histories
  <2>3. payments' \in [Orders -> Histories] /\ payments'[o] = q
    BY <1>2, <1>3, <1>4, <2>2
  <2>4. \A u \in Orders \ {o} : payments'[u] = payments[u]
    BY <1>2, <1>3, <1>4
  <2>5. Onward
    <3> SUFFICES ASSUME NEW u \in Orders
                 PROVE  \/ payments'[u] = payments[u]
                        \/ /\ payments[u] = <<>>
                           /\ payments'[u] \in {<<"failed">>, <<"captured">>}
                        \/ /\ payments[u] = <<"captured">>
                           /\ payments'[u] = <<"captured", "refunded">>
      BY <1>1 DEF Onward
    <3>1. CASE u = o
      BY <2>1, <2>3, <3>1
    <3>2. CASE u # o
      BY <2>4, <3>2
    <3> QED
      BY <3>1, <3>2
  <2>6. Cmd(m) = Commands[current[m]]
    BY DEF Cmd
  <2>7. CASE q \in {<<"failed">>, <<"captured">>} /\ Cmd(m).kind \in {"capture", "excessive"}
    <3>1. payments'[Commands[current[m]].order] # <<>>
      BY <1>2, <2>3, <2>7, HistoriesDiffer
    <3>2. Commands[current[m]].kind \in {"capture", "excessive"}
      BY <2>6, <2>7
    <3>3. Resolved(Commands[current[m]])'
      BY <1>1, <3>1, <3>2 DEF Resolved
    <3> QED
      BY <2>3, <2>5, <3>3
  <2>8. CASE q = <<"captured", "refunded">> /\ Cmd(m).kind = "refund"
    <3>1. payments'[Commands[current[m]].order] = <<"captured", "refunded">>
      BY <1>2, <2>3, <2>8
    <3>2. Commands[current[m]].kind = "refund"
      BY <2>6, <2>8
    <3>3. Resolved(Commands[current[m]])'
      BY <1>1, <3>1, <3>2 DEF Resolved
    <3> QED
      BY <2>3, <2>5, <3>3
  <2> QED
    BY <2>1, <2>7, <2>8
<1>5. Onward /\ payments' \in [Orders -> Histories]
  <2>1. CASE UNCHANGED payments
    BY <1>1, <1>3, <2>1, StoreKept
  <2> QED
    BY <1>4, <2>1 DEF Save
<1>6. TopicInv'
  BY <1>1, <1>5, TopicKept
<1>7. faults' \in 0..MaxFaults
  BY FaultsAssumption DEF Save, Fault, Inv, TypeOK
<1>8. CASE Retry(m)
  <2>1. /\ MemberInv(m)'
        /\ pc' \in [Members -> {"idle", "check", "execute", "save", "mark", "ack"}]
        /\ attempt' \in [Members -> 0..Attempts]
        /\ loaded' \in [Members -> Histories]
        /\ \A n \in Members \ {m} : pc'[n] = pc[n] /\ loaded'[n] = loaded[n]
    BY <1>1, <1>5, <1>8, RetryMember
  <2>2. TypeOK'
    BY <1>1, <1>5, <1>7, <2>1 DEF Inv, TypeOK
  <2> QED
    BY <1>1, <1>5, <1>6, <2>1, <2>2, MemberStep
<1>9. CASE /\ Len(payments[o]) = Len(loaded[m])
           /\ payments' = [payments EXCEPT ![o] = q]
           /\ Goto(m, "mark") /\ Forget(m)
  <2>1. pc' = [pc EXCEPT ![m] = "mark"]
    BY <1>9 DEF Goto
  <2>2. 0 \in 0..Attempts /\ <<>> \in Histories
    BY ConsumerAssumption DEF Histories
  <2>3. /\ attempt' \in [Members -> 0..Attempts]
        /\ loaded' \in [Members -> Histories]
    BY <1>9, <2>2 DEF Forget, Inv, TypeOK
  <2>4. /\ pc' \in [Members -> {"idle", "check", "execute", "save", "mark", "ack"}]
        /\ pc'[m] = "mark"
    BY <2>1 DEF Inv, TypeOK
  <2>5. TypeOK'
    BY <1>1, <1>5, <1>7, <2>3, <2>4 DEF Inv, TypeOK
  <2>6. /\ current[m] \in DOMAIN Commands /\ current'[m] = current[m]
        /\ Cmd(m)' = Cmd(m) /\ Cmd(m) = Commands[current[m]]
        /\ \A i \in 1..(current'[m] - 1) : Resolved(Commands[i])'
    BY <1>1, <1>5, SameCommand
  <2>7. Resolved(Commands[current[m]])'
    BY <1>4, <1>9
  <2>8. Resolved(Cmd(m))'
    BY <2>6, <2>7 DEF Resolved
  <2>9. MemberInv(m)'
    BY <2>4, <2>6, <2>8 DEF MemberInv
  <2>10. \A n \in Members \ {m} : /\ pc'[n] = pc[n] /\ current'[n] = current[n]
                                  /\ loaded'[n] = loaded[n]
    BY <1>1, <1>9, <2>1 DEF Forget, Inv, TypeOK
  <2> QED
    BY <1>5, <1>6, <2>5, <2>9, <2>10, MemberStep
<1> QED
  BY <1>5, <1>8, <1>9 DEF Save

\* A marked command is resolved, and so are its copies, which are alike.
LEMMA MarkInv ==
    ASSUME Inv, NEW m \in Members, Mark(m)
    PROVE  Inv' /\ Onward
<1> USE DEF Mark, Goto
<1>1. Onward
  BY StoreKept
<1>2. /\ current[m] \in DOMAIN Commands /\ current'[m] = current[m]
      /\ Cmd(m)' = Cmd(m) /\ Cmd(m) = Commands[current[m]]
      /\ Cmd(m).id \in Ids
      /\ \A i \in 1..(current'[m] - 1) : Resolved(Commands[i])'
  BY <1>1, SameCommand
<1>3. TypeOK'
  BY <1>2 DEF Inv, TypeOK
<1>4. Resolved(Commands[current[m]])
  BY <1>2 DEF Inv, MemberInv
<1>5. TopicInv'
  <2> SUFFICES ASSUME NEW i \in DOMAIN Commands,
                      i < offset \/ Commands[i].id \in processed'
               PROVE  Resolved(Commands[i])'
    BY DEF TopicInv
  <2>1. CASE i < offset \/ Commands[i].id \in processed
    <3>1. Resolved(Commands[i])
      BY <2>1 DEF Inv, TopicInv
    <3> QED
      BY <1>1, <3>1, ResolvedStable
  <2>2. CASE Commands[i].id = Cmd(m).id
    <3>1. Commands[i] = Commands[current[m]]
      BY <1>2, <2>2, TopicAssumption
    <3>2. Resolved(Commands[i])
      BY <1>4, <3>1 DEF Resolved
    <3> QED
      BY <1>1, <3>2, ResolvedStable
  <2> QED
    BY <2>1, <2>2
<1>6. MemberInv(m)'
  <2>1. Resolved(Cmd(m))'
    BY <1>2, <1>4 DEF Resolved
  <2>2. pc'[m] = "ack"
    BY DEF Inv, TypeOK
  <2> QED
    BY <1>2, <2>1, <2>2 DEF MemberInv
<1>7. \A n \in Members \ {m} : /\ pc'[n] = pc[n] /\ current'[n] = current[n]
                               /\ loaded'[n] = loaded[n]
  BY DEF Inv, TypeOK
<1> QED
  BY <1>1, <1>3, <1>5, <1>6, <1>7, MemberStep

\* The offset only passes what its member has behind it, and the command it
\* has just marked: also when it moves back.
LEMMA AckInv ==
    ASSUME Inv, NEW m \in Members, Ack(m)
    PROVE  Inv' /\ Onward
<1> USE DEF Ack, Goto, store
<1>1. Onward
  BY StoreKept
<1>2. /\ current[m] \in DOMAIN Commands
      /\ \A i \in 1..(current[m] - 1) : Resolved(Commands[i])
      /\ Resolved(Commands[current[m]])
  BY DEF Inv, MemberInv, Cmd
<1>3. TypeOK'
  <2>1. offset' \in Nat \ {0}
    BY <1>2, TopicTypes DEF Inv, TypeOK
  <2> QED
    BY <2>1 DEF Inv, TypeOK
<1>4. TopicInv'
  <2> SUFFICES ASSUME NEW i \in DOMAIN Commands,
                      i < offset' \/ Commands[i].id \in processed
               PROVE  Resolved(Commands[i])
    BY <1>1, ResolvedStable DEF TopicInv
  <2>1. CASE i < offset \/ Commands[i].id \in processed
    BY <2>1 DEF Inv, TopicInv
  <2>2. CASE i < current[m] + 1
    <3>1. i \in 1..(current[m] - 1) \/ i = current[m]
      BY <1>2, <2>2, TopicTypes
    <3>2. CASE i = current[m]
      BY <1>2, <3>2
    <3>3. CASE i \in 1..(current[m] - 1)
      BY <1>2, <3>3
    <3> QED
      BY <3>1, <3>2, <3>3
  <2> QED
    BY <2>1, <2>2
<1>5. MemberInv(m)'
  <2>1. pc'[m] = "idle"
    BY DEF Inv, TypeOK
  <2> QED
    BY <2>1 DEF MemberInv
<1>6. \A n \in Members \ {m} : /\ pc'[n] = pc[n] /\ current'[n] = current[n]
                               /\ loaded'[n] = loaded[n]
  BY DEF Inv, TypeOK
<1> QED
  BY <1>1, <1>3, <1>4, <1>5, <1>6, MemberStep

\* What fails is tried again, by the bus or by the subscription.
LEMMA FailInv ==
    ASSUME Inv, NEW m \in Members, Fail(m)
    PROVE  Inv' /\ Onward
<1> USE DEF Fail, store
<1>1. Onward /\ current' = current
  BY StoreKept
<1>2. TopicInv'
  BY <1>1, TopicKept
<1>3. faults' \in 0..MaxFaults
  BY FaultsAssumption DEF Fault, Inv, TypeOK
<1>4. CASE pc[m] \in {"execute", "save"} /\ Retry(m)
  <2>1. /\ MemberInv(m)'
        /\ pc' \in [Members -> {"idle", "check", "execute", "save", "mark", "ack"}]
        /\ attempt' \in [Members -> 0..Attempts]
        /\ loaded' \in [Members -> Histories]
        /\ \A n \in Members \ {m} : pc'[n] = pc[n] /\ loaded'[n] = loaded[n]
    BY <1>1, <1>4, RetryMember
  <2>2. TypeOK'
    BY <1>3, <2>1 DEF Inv, TypeOK
  <2> QED
    BY <1>1, <1>2, <2>1, <2>2, MemberStep
<1>5. CASE pc[m] \in {"check", "mark"} /\ Goto(m, "check") /\ Forget(m)
  <2> USE DEF Goto, Forget
  <2>1. 0 \in 0..Attempts /\ <<>> \in Histories
    BY ConsumerAssumption DEF Histories
  <2>2. /\ attempt' \in [Members -> 0..Attempts]
        /\ loaded' \in [Members -> Histories]
    BY <1>5, <2>1 DEF Inv, TypeOK
  <2>3. /\ pc' \in [Members -> {"idle", "check", "execute", "save", "mark", "ack"}]
        /\ pc'[m] = "check"
    BY <1>5 DEF Inv, TypeOK
  <2>4. TypeOK'
    BY <1>3, <2>2, <2>3 DEF Inv, TypeOK
  <2>5. /\ current[m] \in DOMAIN Commands /\ current'[m] = current[m]
        /\ \A i \in 1..(current'[m] - 1) : Resolved(Commands[i])'
    BY <1>1, <1>5, SameCommand
  <2>6. MemberInv(m)'
    BY <2>3, <2>5 DEF MemberInv
  <2>7. \A n \in Members \ {m} : /\ pc'[n] = pc[n] /\ current'[n] = current[n]
                                 /\ loaded'[n] = loaded[n]
    BY <1>1, <1>5 DEF Inv, TypeOK
  <2> QED
    BY <1>1, <1>2, <2>4, <2>6, <2>7, MemberStep
<1> QED
  BY <1>4, <1>5

\* A crashed member promises nothing.
LEMMA CrashInv ==
    ASSUME Inv, NEW m \in Members, Crash(m)
    PROVE  Inv' /\ Onward
<1> USE DEF Crash, store, Goto, Forget
<1>1. Onward
  BY StoreKept
<1>2. TopicInv'
  BY <1>1, TopicKept
<1>3. faults' \in 0..MaxFaults
  BY FaultsAssumption DEF Fault, Inv, TypeOK
<1>4. 0 \in 0..Attempts /\ <<>> \in Histories
  BY ConsumerAssumption DEF Histories
<1>5. /\ attempt' \in [Members -> 0..Attempts]
      /\ loaded' \in [Members -> Histories]
  BY <1>4 DEF Inv, TypeOK
<1>6. TypeOK' /\ pc'[m] = "idle"
  BY <1>3, <1>5 DEF Inv, TypeOK
<1>7. MemberInv(m)'
  BY <1>6 DEF MemberInv
<1>8. \A n \in Members \ {m} : /\ pc'[n] = pc[n] /\ current'[n] = current[n]
                               /\ loaded'[n] = loaded[n]
  BY DEF Inv, TypeOK
<1> QED
  BY <1>1, <1>2, <1>6, <1>7, <1>8, MemberStep

\* A rebalance changes the owner only; the old one goes on.
LEMMA RebalanceInv ==
    ASSUME Inv, Rebalance
    PROVE  Inv' /\ Onward
<1> USE DEF Rebalance, store
<1>1. Onward
  BY StoreKept
<1>2. TopicInv'
  BY <1>1, TopicKept
<1>3. faults' \in 0..MaxFaults
  BY FaultsAssumption DEF Fault, Inv, TypeOK
<1>4. TypeOK'
  BY <1>3 DEF Inv, TypeOK
<1>5. \A n \in Members : MemberInv(n)'
  BY <1>1, MemberKept
<1> QED
  BY <1>1, <1>2, <1>4, <1>5 DEF Inv

\* A step that changes nothing.
LEMMA StutterInv ==
    ASSUME Inv, UNCHANGED vars
    PROVE  Inv' /\ Onward
<1>1. UNCHANGED <<payments, processed, rejected, offset, owner, pc, current,
                  attempt, loaded, faults>>
  BY DEF vars, store
<1>2. Onward
  BY <1>1, StoreKept
<1>3. TopicInv'
  BY <1>1, <1>2, TopicKept
<1>4. TypeOK'
  BY <1>1 DEF Inv, TypeOK
<1>5. \A n \in Members : MemberInv(n)'
  BY <1>1, <1>2, MemberKept
<1> QED
  BY <1>2, <1>3, <1>4, <1>5 DEF Inv

-----------------------------------------------------------------------------
\* Every step keeps the invariant and takes no fact back.
LEMMA NextInv ==
    ASSUME Inv, [Next]_vars
    PROVE  Inv' /\ Onward
<1>1. ASSUME NEW m \in Members, Step(m) \/ Fail(m) \/ Crash(m)
      PROVE  Inv' /\ Onward
  <2>1. CASE Step(m)
    BY <2>1, DeliverInv, CheckInv, ExecuteInv, SaveInv, MarkInv, AckInv DEF Step
  <2>2. CASE Fail(m)
    BY <2>2, FailInv
  <2>3. CASE Crash(m)
    BY <2>3, CrashInv
  <2> QED
    BY <1>1, <2>1, <2>2, <2>3
<1>2. CASE Rebalance
  BY <1>2, RebalanceInv
<1>3. CASE Drained
  BY <1>3, StutterInv DEF Drained
<1>4. CASE UNCHANGED vars
  BY <1>4, StutterInv
<1> QED
  BY <1>1, <1>2, <1>3, <1>4 DEF Next

(***************************************************************************)
(* The inductive invariant holds in every reachable state.                 *)
(***************************************************************************)
THEOREM Invariance == Spec => []Inv
<1>1. Init => Inv
  BY InitInv
<1>2. Inv /\ [Next]_vars => Inv'
  BY NextInv
<1> QED
  BY <1>1, <1>2, PTL DEF Spec

(***************************************************************************)
(* Money moves once.  A payment is decided once, refunded at most once and *)
(* only after its capture, although members execute the same command       *)
(* concurrently, retry commits whose answer was lost, and forget what they *)
(* had executed before they marked it.                                     *)
(***************************************************************************)
THEOREM PaymentsMoveOnce == Spec => []MoneyMovesOnce
<1>1. Inv => MoneyMovesOnce
  <2> SUFFICES ASSUME Inv, NEW o \in Orders
               PROVE  /\ Count(o, "captured") + Count(o, "failed") <= 1
                      /\ Count(o, "refunded") <= Count(o, "captured")
    BY DEF MoneyMovesOnce
  <2>1. payments[o] \in Histories
    BY DEF Inv, TypeOK
  <2> QED
    BY <2>1, CountValues, HistoriesDiffer
<1> QED
  BY <1>1, Invariance, PTL

(***************************************************************************)
(* Nothing is acknowledged without its effect.  A command that is marked   *)
(* or behind the group's offset took effect or was rejected for good, even *)
(* where a member that lost the partition and got it back moves the offset *)
(* from under another.                                                     *)
(***************************************************************************)
THEOREM AcknowledgedHasEffect == Spec => []AcknowledgedIsSettled
<1>1. Inv => AcknowledgedIsSettled
  BY ResolvedIsSettled DEF Inv, TopicInv, AcknowledgedIsSettled
<1> QED
  BY <1>1, Invariance, PTL

(***************************************************************************)
(* No step takes a fact back: an undecided payment is decided, a captured  *)
(* one is refunded, and nothing else ever happens to a payment.            *)
(***************************************************************************)
THEOREM PaymentsOnlyMoveOn == Spec => [][Onward]_vars
<1>1. Inv /\ [Next]_vars => [Onward]_vars
  BY NextInv
<1> QED
  BY <1>1, Invariance, PTL DEF Spec
=============================================================================
