---------------------------- MODULE PgEventStore ----------------------------
(***************************************************************************)
(* The Postgres event store (eventstore-postgres/store.go).  Append is a   *)
(* transaction of several statements, so calls of several writers          *)
(* interleave between them; rows become visible only at commit, while the  *)
(* identity column draws its value at insert and never gives it back.      *)
(*                                                                         *)
(* A writer stands for one command handler going through a Repository: it  *)
(* loads an aggregate (or builds a fresh one), and saves it later, when    *)
(* the version it saw may be stale.  A tailing reader polls ReadAll.       *)
(***************************************************************************)
EXTENDS EventStore, FiniteSetsExt

CONSTANTS Writers,    \* concurrent callers of Append
          NoWriter,   \* owner of the free advisory lock
          Limit       \* batch size of the tailing reader

ASSUME PgAssumption == /\ NoWriter \notin Writers
                       /\ Limit \in Nat \ {0}

VARIABLES seqGen,     \* last value drawn from the identity sequence
          lock,       \* holder of the advisory transaction lock
          pc,         \* how far a writer's transaction is
          call,       \* arguments of the call in progress or last answered
          rows,       \* rows inserted but not committed
          result,     \* what the writer's last finished call returned
          cursor,     \* the tailing reader's position
          seen        \* what the tailing reader was handed

tx == <<seqGen, lock, pc, call, rows, result>>
reader == <<cursor, seen>>
vars == <<events, tx, reader>>

Call == [stream : Streams, expected : 0..MaxSeq, data : Batches]
NoCall == <<>>   \* a writer that has not called yet
NoResult == [status |-> "none", lastSeq |-> 0]
Result == [status : {"none", "ok", "conflict", "error"}, lastSeq : 0..MaxSeq]

Init == /\ StoreInit
        /\ seqGen = 0
        /\ lock = NoWriter
        /\ pc = [w \in Writers |-> "idle"]
        /\ call = [w \in Writers |-> NoCall]
        /\ rows = [w \in Writers |-> {}]
        /\ result = [w \in Writers |-> NoResult]
        /\ cursor = 0
        /\ seen = {}

\* Mutant: the query forgets its WHERE clause.
CurrentOfAnyStream(s) == Max({0} \cup {e.version : e \in events})

\* SELECT coalesce(max(version), 0): what a statement sees is committed.
Current(s) == Max({0} \cup Versions(s))

\* Mutant: a session-level lock outlives the transaction.
EndTxKeepsLock(w, status, lastSeq) ==
    /\ pc' = [pc EXCEPT ![w] = "idle"]
    /\ rows' = [rows EXCEPT ![w] = {}]
    /\ result' = [result EXCEPT ![w] = [status |-> status,
                                        lastSeq |-> lastSeq]]
    /\ call' = IF status = "error" THEN [call EXCEPT ![w] = NoCall] ELSE call
    /\ UNCHANGED lock

\* Leaving the transaction releases its lock and drops what it had not
\* committed.
EndTx(w, status, lastSeq) ==
    /\ pc' = [pc EXCEPT ![w] = "idle"]
    /\ rows' = [rows EXCEPT ![w] = {}]
    /\ lock' = IF lock = w THEN NoWriter ELSE lock
    /\ result' = [result EXCEPT ![w] = [status |-> status,
                                        lastSeq |-> lastSeq]]
    /\ call' = IF status = "error" THEN [call EXCEPT ![w] = NoCall] ELSE call

-----------------------------------------------------------------------------
(***************************************************************************)
(* A command handler loads its aggregate, or builds a new one at version   *)
(* 0, raises events and saves; the transaction begins.                     *)
(***************************************************************************)
Begin(w, s, expected, data) ==
    /\ pc[w] = "idle"
    /\ expected \in {0, Cardinality(Versions(s))}
    /\ pc' = [pc EXCEPT ![w] = "begun"]
    /\ call' = [call EXCEPT ![w] = [stream |-> s, expected |-> expected,
                                    data |-> data]]
    /\ result' = [result EXCEPT ![w] = NoResult]
    /\ UNCHANGED <<events, seqGen, lock, rows, reader>>

\* Mutant: appends are not serialized.
LockNotTaken(w) ==
    /\ pc[w] = "begun"
    /\ pc' = [pc EXCEPT ![w] = "locked"]
    /\ UNCHANGED <<events, seqGen, lock, call, rows, result, reader>>

\* SELECT pg_advisory_xact_lock(appendLockKey) blocks until it is free.
Lock(w) ==
    /\ pc[w] = "begun"
    /\ lock = NoWriter
    /\ lock' = w
    /\ pc' = [pc EXCEPT ![w] = "locked"]
    /\ UNCHANGED <<events, seqGen, call, rows, result, reader>>

\* The version comparison: conflict ends the call, or the inserts start.
CheckVersion(w) ==
    /\ pc[w] = "locked"
    /\ \/ /\ Current(call[w].stream) = call[w].expected
          /\ pc' = [pc EXCEPT ![w] = "insert"]
          /\ UNCHANGED <<lock, call, rows, result>>
       \/ /\ Current(call[w].stream) # call[w].expected
          /\ EndTx(w, "conflict", 0)
    /\ UNCHANGED <<events, seqGen, reader>>

\* Mutant: versions counted from the expected one, not after it.
InsertFromExpected(w) ==
    LET c == call[w]
        i == Cardinality(rows[w]) + 1
        row == [seq |-> seqGen + 1, stream |-> c.stream,
                version |-> c.expected + i - 1, data |-> c.data[i]]
    IN /\ pc[w] = "insert"
       /\ i <= Len(c.data)
       /\ seqGen < MaxSeq
       /\ rows' = [rows EXCEPT ![w] = @ \cup {row}]
       /\ seqGen' = seqGen + 1
       /\ UNCHANGED <<events, lock, pc, call, result, reader>>

(***************************************************************************)
(* INSERT of the next event.  The position is drawn from the sequence now. *)
(* The unique (category, stream_id, version) index refuses a version that  *)
(* is taken, and makes the insert wait for one that another open           *)
(* transaction has inserted.                                               *)
(***************************************************************************)
Insert(w) ==
    LET c == call[w]
        i == Cardinality(rows[w]) + 1
        row == [seq |-> seqGen + 1, stream |-> c.stream,
                version |-> c.expected + i, data |-> c.data[i]]
        taken == events \cup UNION {rows[v] : v \in Writers}
    IN /\ pc[w] = "insert"
       /\ i <= Len(c.data)
       /\ seqGen < MaxSeq
       /\ \A e \in taken : e.stream = c.stream => e.version # c.expected + i
       /\ rows' = [rows EXCEPT ![w] = @ \cup {row}]
       /\ seqGen' = seqGen + 1
       /\ UNCHANGED <<events, lock, pc, call, result, reader>>

\* Mutant: the position of the first row is returned.
CommitFirstSeq(w) ==
    /\ pc[w] = "insert"
    /\ Cardinality(rows[w]) = Len(call[w].data)
    /\ events' = events \cup rows[w]
    /\ \/ \E last \in rows[w] :
             /\ \A r \in rows[w] : r.seq >= last.seq
             /\ EndTx(w, "ok", last.seq)
       \/ EndTx(w, "error", 0)
    /\ UNCHANGED <<seqGen, reader>>

(***************************************************************************)
(* COMMIT makes every row visible at once.  The answer may be lost: the    *)
(* caller then gets an error for an append that happened.                  *)
(***************************************************************************)
Commit(w) ==
    /\ pc[w] = "insert"
    /\ Cardinality(rows[w]) = Len(call[w].data)
    /\ events' = events \cup rows[w]
    /\ \/ \E last \in rows[w] :
             /\ \A r \in rows[w] : r.seq <= last.seq
             /\ EndTx(w, "ok", last.seq)
       \/ EndTx(w, "error", 0)
    /\ UNCHANGED <<seqGen, reader>>

(***************************************************************************)
(* Every other way out: a statement fails, the context is cancelled, the   *)
(* caller or its connection dies.  The deferred Rollback, or the server,   *)
(* aborts the transaction.  The values drawn from the sequence are lost.   *)
(***************************************************************************)
Rollback(w) ==
    /\ pc[w] # "idle"
    /\ EndTx(w, "error", 0)
    /\ UNCHANGED <<events, seqGen, reader>>

\* The identity sequence is used up: the INSERT itself fails.
Exhausted(w) ==
    /\ pc[w] = "insert"
    /\ Cardinality(rows[w]) < Len(call[w].data)
    /\ seqGen = MaxSeq
    /\ Rollback(w)

\* Mutant: the reader moves one past the last event.
PollPastLast ==
    LET batch == ReadAll(cursor, Limit)
    IN \E last \in batch :
          /\ \A e \in batch : e.seq <= last.seq
          /\ cursor' = last.seq + 1
          /\ seen' = seen \cup batch
          /\ UNCHANGED <<events, tx>>

\* One poll of the tailing reader: the batch, and on to its last event.
Poll ==
    LET batch == ReadAll(cursor, Limit)
    IN \E last \in batch :
          /\ \A e \in batch : e.seq <= last.seq
          /\ cursor' = last.seq
          /\ seen' = seen \cup batch
          /\ UNCHANGED <<events, tx>>

WriterNext(w) ==
    \/ \E s \in Streams, expected \in 0..MaxSeq, data \in Batches :
          Begin(w, s, expected, data)
    \/ Lock(w)
    \/ CheckVersion(w)
    \/ Insert(w)
    \/ Commit(w)
    \/ Rollback(w)
    \/ Exhausted(w)

Next == Poll \/ \E w \in Writers : WriterNext(w)

Spec == Init /\ [][Next]_vars

(***************************************************************************)
(* Fairness.  A writer's goroutine and the server keep executing the       *)
(* statements of an open transaction; Postgres queues lock waiters first   *)
(* come, first served, so a waiter is not overtaken forever; the reader    *)
(* keeps polling.  Nobody is obliged to call, and nothing to fail.         *)
(***************************************************************************)
Fairness == /\ \A w \in Writers : /\ SF_vars(Lock(w))
                                  /\ WF_vars(CheckVersion(w))
                                  /\ WF_vars(Insert(w))
                                  /\ WF_vars(Commit(w))
                                  /\ WF_vars(Exhausted(w))
            /\ WF_vars(Poll)

FairSpec == Spec /\ Fairness

-----------------------------------------------------------------------------
\* The table, the open transactions and the reader's state have their types.
TypeOK == /\ events \subseteq Event
          /\ seqGen \in 0..MaxSeq
          /\ lock \in Writers \cup {NoWriter}
          /\ pc \in [Writers -> {"idle", "begun", "locked", "insert"}]
          /\ call \in [Writers -> Call \cup {NoCall}]
          /\ rows \in [Writers -> SUBSET Event]
          /\ result \in [Writers -> Result]
          /\ cursor \in 0..MaxSeq
          /\ seen \subseteq Event

(***************************************************************************)
(* Tailing by GlobalSeq never skips events: whatever is visible below the  *)
(* reader's position was handed to the reader.                             *)
(***************************************************************************)
NoSkip == \A e \in events : e.seq <= cursor => e \in seen

(***************************************************************************)
(* An Append that returned without error has made all its events visible,  *)
(* at the versions the caller expected, and the position it returned is    *)
(* the position of the last of them (what read-your-writes waits for).     *)
(***************************************************************************)
Acknowledged ==
    \A w \in Writers : (pc[w] = "idle" /\ result[w].status = "ok") =>
        LET c == call[w]
            n == Len(c.data)
        IN Recorded(c.stream, c.expected, c.data, n, result[w].lastSeq - n)
              \subseteq events

(***************************************************************************)
(* ErrVersionConflict is never spurious: the stream really holds more      *)
(* events than the caller had seen.                                        *)
(***************************************************************************)
ConflictIsReal ==
    \A w \in Writers : (pc[w] = "idle" /\ result[w].status = "conflict") =>
        call[w].expected + 1 \in Versions(call[w].stream)

\* Postgres implements the event-store port.
PortSpec == StoreSpec

\* Every call of Append returns.
EveryCallReturns ==
    \A w \in Writers : pc[w] # "idle" ~> pc[w] = "idle"

\* Every visible event reaches the tailing reader.
EventuallySeen ==
    \A p \in 1..MaxSeq :
        (\E e \in events : e.seq = p) ~> (\E e \in seen : e.seq = p)

-----------------------------------------------------------------------------
(***************************************************************************)
(* The inductive invariant behind the safety properties: the lock belongs  *)
(* to the one transaction past Lock; what that transaction has inserted    *)
(* are the first k events of its call, at the top of the sequence, above   *)
(* everything visible; and the reader stands on a visible event.           *)
(***************************************************************************)
LockInv == \A w \in Writers : pc[w] \in {"locked", "insert"} <=> lock = w

CallInv == \A w \in Writers : pc[w] # "idle" =>
              /\ call[w] \in Call
              /\ call[w].expected \in {0} \cup Versions(call[w].stream)

InsertInv ==
    \A w \in Writers :
        /\ pc[w] # "insert" => rows[w] = {}
        /\ pc[w] = "insert" =>
              LET c == call[w] IN
              /\ Versions(c.stream) = 1..c.expected
              /\ \E k \in 0..Len(c.data) :
                    /\ k <= seqGen
                    /\ rows[w] = Recorded(c.stream, c.expected, c.data, k,
                                          seqGen - k)
                    /\ Cardinality(rows[w]) = k
                    /\ \A e \in events : e.seq <= seqGen - k

ReaderInv == /\ \A e \in events : e.seq <= seqGen
             /\ cursor = 0 \/ \E e \in events : e.seq = cursor

Inv == /\ TypeOK
       /\ StoreInv
       /\ LockInv
       /\ CallInv
       /\ InsertInv
       /\ ReaderInv
       /\ NoSkip
       /\ Acknowledged
       /\ ConflictIsReal
=============================================================================
