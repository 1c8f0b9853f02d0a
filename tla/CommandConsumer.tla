-------------------------- MODULE CommandConsumer --------------------------
(***************************************************************************)
(* Commands on the wire (cqrs/wire.go): a consumer group takes commands    *)
(* from a topic, skips the ones the deduplicator knows, dispatches the     *)
(* rest through the bus, which retries transient errors (cqrs/command.go), *)
(* marks them and acknowledges.  The handlers are those of the example's   *)
(* billing service: they load a payment, decide, and save at the version   *)
(* they loaded.                                                            *)
(*                                                                         *)
(* Check, execution, mark and acknowledgement are four separate steps, and *)
(* a member that has lost its partition finishes what it was doing.        *)
(***************************************************************************)
EXTENDS Faults, Sequences, FiniteSets

CONSTANTS Members,    \* processes of the consumer group
          Orders,     \* one payment stream per order
          Commands,   \* the topic, with the relay's duplicates: a sequence
                      \* of [id, order, kind]
          Attempts    \* RetryPolicy.Attempts

Kinds == {"capture",   \* CapturePayment within the limit
          "excessive", \* CapturePayment above it: declined, a fact too
          "invalid",   \* CapturePayment of an amount that is not positive
          "refund",    \* RefundPayment
          "garbage"}   \* unknown name or payload: does not decode

Ids == {Commands[i].id : i \in DOMAIN Commands}
Wire == [id : Ids, order : Orders, kind : Kinds]

ASSUME ConsumerAssumption == /\ Attempts \in Nat \ {0}
                             /\ Commands \in Seq(Wire)

(***************************************************************************)
(* What the sender, the fulfillment saga of the ordering service, puts on  *)
(* the topic: copies of a message are alike, and a refund is only asked    *)
(* for after the capture of a proper amount, on the same partition.        *)
(***************************************************************************)
ASSUME TopicAssumption ==
    \A i, j \in DOMAIN Commands :
        /\ Commands[i].id = Commands[j].id => Commands[i] = Commands[j]
        /\ Commands[i].kind = "refund" =>
              \E k \in 1..(i - 1) : /\ Commands[k].order = Commands[i].order
                                    /\ Commands[k].kind \in {"capture", "excessive"}

VARIABLES payments,   \* order -> the facts of its payment stream
          processed,  \* the deduplicator's table of message IDs
          rejected,   \* message IDs reported to OnRejected
          offset,     \* the group's committed offset
          owner,      \* the member the partition is assigned to
          pc,         \* where a member's handler is
          current,    \* the position in the topic it handles
          attempt,    \* the bus's attempt
          loaded      \* the payment as its handler loaded it

store == <<payments, processed, rejected>>
vars == <<store, offset, owner, pc, current, attempt, loaded, faults>>

Cmd(m) == Commands[current[m]]

Init == /\ payments = [o \in Orders |-> <<>>]
        /\ processed = {}
        /\ rejected = {}
        /\ offset = 1
        /\ owner \in Members
        /\ pc = [m \in Members |-> "idle"]
        /\ current = [m \in Members |-> 0]
        /\ attempt = [m \in Members |-> 0]
        /\ loaded = [m \in Members |-> <<>>]
        /\ faults = 0

\* Processed: the deduplicator knows the message.
Known(c) == c.id \in processed

\* The registry has the command's name, and its payload unmarshals.
Decodes(c) == c.kind # "garbage"

\* A DomainError, which neither the bus nor the broker retries.
Definitive(out) == out = "rejected"

Goto(m, place) == pc' = [pc EXCEPT ![m] = place]

\* The handler's locals once it is not inside a dispatch.
Forget(m) == /\ attempt' = [attempt EXCEPT ![m] = 0]
             /\ loaded' = [loaded EXCEPT ![m] = <<>>]

-----------------------------------------------------------------------------
\* The partition's owner is given the message at the committed offset.
Deliver(m) ==
    /\ pc[m] = "idle"
    /\ owner = m
    /\ offset <= Len(Commands)
    /\ Goto(m, "check")
    /\ current' = [current EXCEPT ![m] = offset]
    /\ UNCHANGED <<store, offset, owner, attempt, loaded, faults>>

(***************************************************************************)
(* Processed, then Decode: a known ID is acknowledged, what does not       *)
(* decode is rejected for good, the rest goes to the bus.                  *)
(***************************************************************************)
Check(m) ==
    /\ pc[m] = "check"
    /\ \/ /\ Known(Cmd(m))
          /\ Goto(m, "ack")
          /\ UNCHANGED <<rejected, attempt>>
       \/ /\ ~Known(Cmd(m))
          /\ ~Decodes(Cmd(m))
          /\ rejected' = rejected \cup {Cmd(m).id}
          /\ Goto(m, "mark")
          /\ UNCHANGED attempt
       \/ /\ ~Known(Cmd(m))
          /\ Decodes(Cmd(m))
          /\ attempt' = [attempt EXCEPT ![m] = 1]
          /\ Goto(m, "execute")
          /\ UNCHANGED rejected
    /\ UNCHANGED <<payments, processed, offset, owner, current, loaded, faults>>

\* What a handler makes of the payment it loaded: done already, the fact to
\* record, or a DomainError.
Outcome(kind, payment) ==
    IF kind = "refund"
    THEN CASE payment \in {<<>>, <<"failed">>} -> "rejected"
           [] payment = <<"captured">> -> "refunded"
           [] OTHER -> "done"
    ELSE IF payment # <<>>
    THEN "done"
    ELSE CASE kind = "invalid" -> "rejected"
           [] kind = "excessive" -> "failed"
           [] OTHER -> "captured"

\* Mutant: a definitive rejection is returned to the broker.
ExecuteReturnsRejection(m) ==
    LET out == Outcome(Cmd(m).kind, payments[Cmd(m).order])
    IN /\ pc[m] = "execute"
       /\ \/ /\ out = "done"
             /\ Goto(m, "mark") /\ Forget(m)
             /\ UNCHANGED rejected
          \/ /\ out = "rejected"
             /\ rejected' = rejected \cup {Cmd(m).id}
             /\ Goto(m, "check") /\ Forget(m)
          \/ /\ out \notin {"done", "rejected"}
             /\ loaded' = [loaded EXCEPT ![m] = payments[Cmd(m).order]]
             /\ Goto(m, "save")
             /\ UNCHANGED <<attempt, rejected>>
       /\ UNCHANGED <<payments, processed, offset, owner, current, faults>>

(***************************************************************************)
(* One attempt of the bus: the handler loads the payment and decides.  A   *)
(* DomainError is final: OnRejected, then the mark.                        *)
(***************************************************************************)
Execute(m) ==
    LET out == Outcome(Cmd(m).kind, payments[Cmd(m).order])
    IN /\ pc[m] = "execute"
       /\ \/ /\ out = "done"
             /\ Goto(m, "mark") /\ Forget(m)
             /\ UNCHANGED rejected
          \/ /\ Definitive(out)
             /\ rejected' = rejected \cup {Cmd(m).id}
             /\ Goto(m, "mark") /\ Forget(m)
          \/ /\ out # "done" /\ ~Definitive(out)
             /\ loaded' = [loaded EXCEPT ![m] = payments[Cmd(m).order]]
             /\ Goto(m, "save")
             /\ UNCHANGED <<attempt, rejected>>
       /\ UNCHANGED <<payments, processed, offset, owner, current, faults>>

\* A transient error: the bus tries again until its attempts are used up;
\* then the subscription delivers the same message again.
Retry(m) ==
    /\ loaded' = [loaded EXCEPT ![m] = <<>>]
    /\ \/ /\ attempt[m] < Attempts
          /\ attempt' = [attempt EXCEPT ![m] = @ + 1]
          /\ Goto(m, "execute")
       \/ /\ attempt[m] >= Attempts
          /\ attempt' = [attempt EXCEPT ![m] = 0]
          /\ Goto(m, "check")

\* Mutant: the expected version is not compared.
SaveUnchecked(m) ==
    LET o == Cmd(m).order
        fact == Outcome(Cmd(m).kind, loaded[m])
    IN /\ pc[m] = "save"
       /\ payments' = [payments EXCEPT ![o] = Append(@, fact)]
       /\ Goto(m, "mark") /\ Forget(m)
       /\ UNCHANGED <<processed, rejected, offset, owner, current, faults>>

(***************************************************************************)
(* Save appends at the loaded version: it succeeds, its answer is lost     *)
(* after the commit, or it finds a version conflict.                       *)
(***************************************************************************)
Save(m) ==
    LET o == Cmd(m).order
        fact == Outcome(Cmd(m).kind, loaded[m])
    IN /\ pc[m] = "save"
       /\ \/ /\ Len(payments[o]) = Len(loaded[m])
             /\ payments' = [payments EXCEPT ![o] = Append(@, fact)]
             /\ \/ Goto(m, "mark") /\ Forget(m) /\ UNCHANGED faults
                \/ Retry(m) /\ Fault
          \/ /\ Len(payments[o]) # Len(loaded[m])
             /\ Retry(m)
             /\ UNCHANGED <<payments, faults>>
       /\ UNCHANGED <<processed, rejected, offset, owner, current>>

\* MarkProcessed, then the acknowledgement.
Mark(m) ==
    /\ pc[m] = "mark"
    /\ processed' = processed \cup {Cmd(m).id}
    /\ Goto(m, "ack")
    /\ UNCHANGED <<payments, rejected, offset, owner, current, attempt, loaded,
                   faults>>

\* The offset commit: refused to a member that has lost the partition,
\* whose subscription then ends.  A member that lost it and got it back may
\* even move the offset back.
Ack(m) ==
    /\ pc[m] = "ack"
    /\ offset' = IF owner = m THEN current[m] + 1 ELSE offset
    /\ Goto(m, "idle")
    /\ current' = [current EXCEPT ![m] = 0]
    /\ UNCHANGED <<store, owner, attempt, loaded, faults>>

\* Mutant: what fails is marked and acknowledged all the same.
FailMarks(m) ==
    /\ pc[m] \in {"check", "execute", "save", "mark"}
    /\ Fault
    /\ processed' = processed \cup {Cmd(m).id}
    /\ Goto(m, "ack") /\ Forget(m)
    /\ UNCHANGED <<payments, rejected, offset, owner, current>>

\* Processed, a load, a save that did not commit, or MarkProcessed fails.
Fail(m) ==
    /\ pc[m] \in {"check", "execute", "save", "mark"}
    /\ Fault
    /\ \/ pc[m] \in {"execute", "save"} /\ Retry(m)
       \/ pc[m] \in {"check", "mark"} /\ Goto(m, "check") /\ Forget(m)
    /\ UNCHANGED <<store, offset, owner, current>>

\* The process dies anywhere.
Crash(m) ==
    /\ pc[m] # "idle"
    /\ Fault
    /\ Goto(m, "idle") /\ Forget(m)
    /\ current' = [current EXCEPT ![m] = 0]
    /\ UNCHANGED <<store, offset, owner>>

\* The group gives the partition to another member; the old one goes on.
Rebalance ==
    /\ owner' \in Members \ {owner}
    /\ Fault
    /\ UNCHANGED <<store, offset, pc, current, attempt, loaded>>

\* The topic is drained and everyone is idle.
Drained == /\ offset > Len(Commands)
           /\ \A m \in Members : pc[m] = "idle"
           /\ UNCHANGED vars

Step(m) == Deliver(m) \/ Check(m) \/ Execute(m) \/ Save(m) \/ Mark(m) \/ Ack(m)

Next == \/ \E m \in Members : Step(m) \/ Fail(m) \/ Crash(m)
        \/ Rebalance
        \/ Drained

Spec == Init /\ [][Next]_vars

\* Members keep running and the broker keeps delivering.  Faults are finite.
FairSpec == Spec /\ \A m \in Members : WF_vars(Step(m))

-----------------------------------------------------------------------------
\* What a fact in a payment stream counts.
Count(o, fact) == Cardinality({i \in DOMAIN payments[o] : payments[o][i] = fact})

(***************************************************************************)
(* Money moves once: however often a command is delivered, retried, or     *)
(* executed by two members at a time, a payment is decided once, refunded  *)
(* at most once, and refunded only after it was captured.                  *)
(***************************************************************************)
MoneyMovesOnce ==
    \A o \in Orders :
        /\ Count(o, "captured") + Count(o, "failed") <= 1
        /\ Count(o, "refunded") <= Count(o, "captured")

(***************************************************************************)
(* Nothing is acknowledged unsettled: a command that is marked or behind   *)
(* the offset took effect, or was definitively rejected and had to be; in  *)
(* particular a captured payment whose refund is settled is refunded.      *)
(***************************************************************************)
Settled(c) ==
    LET p == payments[c.order]
    IN CASE c.kind = "refund" -> \/ Count(c.order, "refunded") = 1
                                 \/ /\ c.id \in rejected
                                    /\ Count(c.order, "captured") = 0
         [] c.kind = "garbage" -> c.id \in rejected
         [] c.kind = "invalid" -> c.id \in rejected \/ p # <<>>
         [] OTHER -> p # <<>>

AcknowledgedIsSettled ==
    \A i \in DOMAIN Commands :
        i < offset \/ Commands[i].id \in processed => Settled(Commands[i])

\* No command is redelivered forever: definitive rejections are
\* acknowledged, transient failures and conflicts get through.
EveryCommandAcked == <>[](offset = Len(Commands) + 1)

-----------------------------------------------------------------------------
\* The histories a payment can have.
Histories == {<<>>, <<"failed">>, <<"captured">>, <<"captured", "refunded">>}

\* The types of the variables; a payment has one of its four histories.
TypeOK == /\ payments \in [Orders -> Histories]
          /\ processed \subseteq Ids /\ rejected \subseteq Ids
          /\ offset \in Nat \ {0}
          /\ owner \in Members
          /\ pc \in [Members -> {"idle", "check", "execute", "save", "mark", "ack"}]
          /\ current \in [Members -> Nat]
          /\ attempt \in [Members -> 0..Attempts]
          /\ loaded \in [Members -> Histories]
          /\ faults \in 0..MaxFaults

(***************************************************************************)
(* The inductive invariant.  Resolved is Settled in terms that no later    *)
(* step can undo: a refused refund met a declined payment.  Everything a   *)
(* member has behind it on the topic is resolved, and so is the command it *)
(* is about to mark or acknowledge; what it is about to save was decided   *)
(* from a prefix of the payment as it now is.                              *)
(***************************************************************************)
Resolved(c) ==
    LET p == payments[c.order]
    IN CASE c.kind = "refund" -> \/ p = <<"captured", "refunded">>
                                 \/ c.id \in rejected /\ p = <<"failed">>
         [] c.kind = "garbage" -> c.id \in rejected
         [] c.kind = "invalid" -> c.id \in rejected \/ p # <<>>
         [] OTHER -> p # <<>>

TopicInv ==
    \A i \in DOMAIN Commands :
        i < offset \/ Commands[i].id \in processed => Resolved(Commands[i])

MemberInv(m) ==
    pc[m] # "idle" =>
        /\ current[m] \in DOMAIN Commands
        /\ \A i \in 1..(current[m] - 1) : Resolved(Commands[i])
        /\ pc[m] \in {"mark", "ack"} => Resolved(Cmd(m))
        /\ pc[m] \in {"execute", "save"} => Decodes(Cmd(m))
        /\ pc[m] = "save" =>
              \/ loaded[m] = <<>> /\ Cmd(m).kind \in {"capture", "excessive"}
              \/ /\ loaded[m] = <<"captured">> /\ Cmd(m).kind = "refund"
                 /\ payments[Cmd(m).order] \notin {<<>>, <<"failed">>}

Inv == /\ TypeOK
       /\ TopicInv
       /\ \A m \in Members : MemberInv(m)
=============================================================================
