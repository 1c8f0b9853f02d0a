# A TLA+ model of gohex

gohex is a Go framework for event-driven services (event store, relay, CQRS,
projections, sagas, brokers) with an example system of four services built on
it. This directory holds TLA+ modules for the parts of it whose correctness
depends on interleavings, failures and order, TLC instances that check them,
and TLAPS proofs of their safety properties.

`PROJECT.json` maps every modelling definition to the lines it stands for and
lists components, runs, mutants, hazards and theorems.

## 1. Inventory

| Component | State | Operations | Talks to |
|---|---|---|---|
| event-store port (`eventstore/store.go`) | append-only events with global position, stream, version | Append at an expected version, Load, ReadAll, Head | repositories write, tailing workers read |
| Postgres store (`eventstore-postgres`) | table, identity sequence, advisory lock | Append as a transaction: lock, version check, inserts, commit | as above |
| memory store (`eventstore/memory.go`) | slice and per-stream index under a mutex | the same operations, atomically | tests, single-process wiring |
| checkpoints (`eventstore-postgres/checkpoints.go`) | name -> position | Get, Set (blind upsert) | relay, projections |
| repository and aggregates (`eventstore/repository.go`, `kernel`) | an aggregate's uncommitted events | Load, Raise, Save; position capture | command handlers, saga runner |
| registry (`eventstore/registry.go`) | decoders and upcaster chains, fixed per release | Encode, Decode | everything that reads events |
| relay (`relay/relay.go`) | local position, batch; checkpoint | poll, translate, publish by topic with retry, advance | store -> broker |
| brokers (`broker`, `broker-kafka`) | topics, group offsets | Publish, Subscribe with redelivery | relay -> consumers |
| command bus and consumer (`cqrs`, `cqrs-postgres`) | processed message IDs | deduplicate, decode, dispatch with retries, reject, mark, acknowledge | broker -> handlers |
| projection (`projection/catchup.go`, `wait.go`) | read tables, checkpoint | poll, apply, advance; WaitForCheckpoint; Reset | store -> read model, HTTP edge |
| inbox (`projection/inbox.go`, `projection-postgres`) | inbox table, checkpoint | InboxWriter per foreign topic, InboxReader | broker -> read model |
| saga runner (`saga`) | one event stream per instance | load, deduplicate, decide, append atomically, retry conflicts | broker -> store -> relay |
| example services (`gohex-example`) | payments, reservations, shipments, orders, summary row, notification worklist | command handlers, fulfillment saga, summary projection, notifier | each other, through topics only |
| service processes (`cmd/*/main.go`) | which workers run, on which release | start-up, errgroup, signals, shutdown, restart by compose | own all of the above |
| o11y | spans, logs, gauges | observation | none |

What is hard about it, and therefore modelled: positions are drawn before they
become visible; every hand-over (append, publish, handle, acknowledge,
checkpoint) may be done and then fail or be forgotten; checkpoints are shared
by replicas and overwritten blindly; several goroutines and replicas decide on
the same stream; facts travel on topics that have no order between them;
rebuilds run against workers; processes of two releases share streams and
checkpoints while one replaces the other. The full list, line by line, is `hazards` in
`PROJECT.json`. What makes each part correct:

* store: the port's contract, and that tailing by position never skips;
* relay: nothing behind the checkpoint is unpublished, per-key commit order;
* projection and inbox: nothing behind the checkpoint is unapplied; a client
  that waited sees its write; everything is applied in the end;
* saga: each message decided once, from the state it is recorded after;
* commands: effects at most once, nothing acknowledged that is not settled;
* repository, registry and processes: a command decides on the current state and
  takes effect whole or not at all, whichever release executes it; a reader gets
  the facts that were raised, or stops;
* the example: paid orders ship, others are refunded; the summary row does not
  depend on arrival order; a customer is told once.

## 2. Modules

| Module | Models | Builds on |
|---|---|---|
| `EventStore` | the port: an abstract store, and the environment of every worker that tails one | |
| `PgEventStore` | Append, statement by statement, and a tailing reader | implements `EventStore` |
| `Relay` | Relay.Run in several replicas, broker that accepts message by message | extends `EventStore` |
| `Projection` | CatchUp.Run, WaitForCheckpoint, the rebuild procedure | extends `EventStore` |
| `Inbox` | InboxWriter, the Postgres and the memory inbox, InboxReader, under the memory broker's delivery loop | |
| `Saga` | Runner.Handler and process on one instance | |
| `CommandConsumer` | Consumer.Handler, Bus retries, deduplicator, billing's handlers | |
| `KafkaBroker` | the Kafka subscription loop of a consumer group on one partition | |
| `Fulfillment` | one order through saga, relays and services | uses the parts at the level the other modules establish |
| `OrderSummary` | summary projection, worklist, notifiers | likewise |
| `Registry` | Encode, Decode and upcaster chains of several releases | |
| `Repository` | Dispatch, Load, decide, Save, conflict and retry on one aggregate | extends `Registry`, instantiates `EventStore`, implements `AtomicCommands` |
| `AtomicCommands` | abstract: an aggregate is a state that commands change one at a time | |
| `Deployment` | the processes of a service and their workers, during rollout and rollback | extends `Repository` |
| `Faults` | the budget of failures most modules share | |
| `EventStoreProofs`, `PgEventStoreProofs`, `RelayProofs`, `ProjectionProofs`, `CommandConsumerProofs` | theorems about the module of that name | |
| `ReadSideProofs` | theorems about `Inbox` and `OrderSummary` | |
| `SagaProofs` | theorems about `Saga` and `Fulfillment` | |
| `ProcessProofs` | theorems about `KafkaBroker`, `Registry`, `Repository` and `Deployment` | instantiates `EventStoreProofs` |
| `MC*` | values of structured constants for TLC | |

`EventStore.AppendEvents` is the hinge. `PgEventStore` is proved to implement
`StoreSpec`, whose append only adds positions above everything visible.
`Relay` and `Projection` take `StoreNext` as their environment, so their
results hold over any store that implements the port. `Repository` instantiates
it with encoded payloads and one stream.

The second abstract specification is `AtomicCommands`: `Execute` reads the
aggregate's current facts and appends all facts of one outcome. `Repository`
implements it under `state <- Rehydrate(LastRelease)`, the stream as the newest
release decodes it: load, decision, version check and append, spread over
several steps of competing processes, map to one `Execute` at the append and to
stuttering everywhere else. It fails as soon as a payload is decoded wrongly, a
decision is recorded on a stream that has moved, or half of a batch is visible.

How state and actions correspond to the code:

* `PgEventStore`: `events` are the committed rows, `rows` the inserted ones,
  `seqGen` the identity sequence, `lock` the advisory lock. `Begin`, `Lock`,
  `CheckVersion`, `Insert`, `Commit` are the statements of `Append`; `Rollback`
  is its deferred rollback, from every point; `Commit` may lose its answer.
  The unique index is a guard of `Insert`; its error branch, which the lock makes
  unreachable, is covered by `Rollback`. The expected version is what
  `Repository.Load` saw, or 0 for a new aggregate.
* `Relay`: `Start` reads the checkpoint; `Read` is ReadAll and the translation of
  the batch; `Accept` and `PublishReturns` are one Publish; `PublishFails` is an
  error after any part was accepted; `Advance` is the Set, which may fail before
  or after it took effect; `ReadPoison` is an event that does not translate.
* `Projection`: `Handle` applies one event, `Advance` the checkpoint after the
  batch. The read table is the set of events whose effect it holds. `StopRunners`,
  `Truncate`, `Reset` are the documented rebuild; truncation is the operator's.
* `Inbox`: `Insert` draws the number, `Commit` makes the row visible, `Ack` moves
  the offset, `WriterFails` redelivers. `Serialized` (constant) adds the guard
  `Exclusive`: no number is drawn while a drawn one is not visible. That is the
  memory inbox, whose mutex spans both, and the Postgres inbox with one writer; a
  known ID then may or may not use up a number. The memory broker's group has one
  member, and its topics are given in full.
* `Registry`: a payload is its fact and the shape of its JSON. Upcaster number v
  fits shape v; anything it is not written for, and any decode of a shape that is
  not the release's own, loses the fact (`Garbled`), as a tolerant json.Unmarshal
  does. A release keeps the names and upcasters of its predecessor
  (`RegistryAssumption`).
* `Repository`: a request is one Dispatch with its own aggregate object. `Load` is
  Repository.Load with the decision of the handler, `Save` the append at the loaded
  version, `SaveFails` an error before or after it took effect, `Conflict` and
  `AttemptFails` the retry. The domain is the smallest one in which decisions depend
  on history: a command that is done is refused.
* `Deployment`: `workers` is the errgroup. A worker stands for all of its kind, by
  what the context means to it: tailing, consuming, serving HTTP. `WorkerFails` and
  `Unreadable` cancel the group, `WorkerReturns` is a worker that sees it, `Exit` is
  g.Wait; serveHTTP returns when the listener is closed, so `Exit` may come while a
  request is under way. Tailing goes in batches of one event. A start-up that fails
  leaves the process down and is a stutter.
* `Saga`: `Load` replays the stream and sorts out duplicates and ended instances;
  `Save` is the one append of envelope, commands and end marker; `Conflict` the
  bounded retry. An entry keeps the set of messages its decision had seen, which
  stands for the state the handler decided from.
* `CommandConsumer`: `Check`, `Execute`, `Save`, `Mark`, `Ack` are the separate
  calls of the handler, with `Retry` inside the bus. `Rebalance` lets a member
  that lost its partition go on.
* `KafkaBroker`: a record is its offset. `Poll` is a fetch, `Handle`, `HandlerFails`,
  `Retry`, `GiveUp` are the inner loop for its first unvisited record, `Commit` and
  `CommitFails` are CommitRecords, `NextRecord` is EachRecord. `Assign` and `Revoke`
  are the consumer group, which is external: a member that lost the partition
  goes on with its fetch, and its commit may still be accepted, even behind the
  new owner's. That a commit with an ended context is not sent is franz-go's part;
  `NothingSkipped` rests on it.
* `Fulfillment`: `PlaceOrder` is the HTTP request, which becomes an order only if its
  value objects exist. An append, a saga delivery and a command execution are each one
  step, as the modules above establish; duplication by relays (`Republish`) and
  by lost marks or acknowledgements stays. Services hold an order's public
  events. The relay's grouping of a batch by topic is not repeated here: an
  order's messages on one topic are causally ordered.
* `OrderSummary`: `ApplyPlaced` and `ApplyForeign` are the projection's handlers
  over two logs; `Raise` is the rank guard of both upserts; `Tick`, `Load`, `Save`,
  `MarkSent` are a notifier's work on one row. Worklist ids change when the
  worklist is truncated.

## 3. Runs

| Run | Shows |
|---|---|
| `pg_store` | Two transactions and a reader in every interleaving: the port is implemented (`PortSpec`), nothing is skipped (`NoSkip`), streams have no holes (`WellFormed`), what was acknowledged is visible at the returned position (`Acknowledged`), conflicts are real (`ConflictIsReal`); no Append waits forever for the lock (`EveryCallReturns`) and every event reaches the reader (`EventuallySeen`). |
| `relay` | Two replicas overwriting one checkpoint, with private events and one that cannot be translated: `AtLeastOnce`, `KeyOrder`; unless stopped by such an event, everything public is published (`EventuallyPublished`). |
| `projection` | Two runners, a waiting client, a rebuild: `AppliedToCheckpoint`, `ReadYourWrites` although a slow runner may move the checkpoint back; every handled event stays applied in the end, no client waits forever. |
| `inbox_serialized` | Two writers, serialized, with duplicates: every message stored once, handed over at least once, eventually. |
| `inbox_postgres` | The Postgres inbox with two writers: `DeliveredAtLeastOnce` is violated (section 6). |
| `saga` | Three consumers race on an instance: `DecidedOnce`, `NoStaleDecision`, `EndIsFinal`, `NothingLost`, and every message is acknowledged in the end. |
| `consumer` | Two members, rebalance, retries, crashes: `MoneyMovesOnce`, `AcknowledgedIsSettled`; no command is redelivered forever. |
| `kafka` | Two members, rebalances inside a fetch, stops, failing handlers, lost commits: no offset is committed over an unhandled record (`NothingSkipped`), records overtake each other only on a member that is stopping (`DisorderOnlyAtShutdown`), everything is handled in the end, a cancelled Subscribe returns. |
| `kafka_shutdown` | One member: `DeliveredInOrder` is violated (section 6). |
| `fulfillment` | One order on both sides of both limits: `ShippedIsPaid`, `NoCommandRejected`; every order settles, shipped, declined or refunded. |
| `order_summary` | `StatusIsHighest`, `NotifiedOnce`, `SentIsRecorded`; the row and the notification settle. |
| `deployment` | Two processes exchange release 2 for 3 and back over an event of release 1: commands are atomic (`CommandsAreAtomic`, the refinement); handlers get exactly the facts raised (`ReadExactly`); nothing known to both releases is passed unhandled (`PassedIsHandled`); a process that stays on the newest release gets everything handled although the other one crash-loops on what it cannot read (`EventuallyAllHandled`). |

Every property has a mutant: a definition changed the way a plausible bug would
change the code, under which TLC finds the property violated.

### Bounds

* `MaxSeq` (positions), `MaxBatch` (events per append): 3 to 4 positions give an
  append of two, a rolled-back one that leaves a hole, and one behind it; a batch
  size of 2 makes batches end in the middle of appends.
* `Writers`, `Replicas`, `Runners`, `Members`, `Notifiers` = 2, saga consumers = 3:
  races are between two parties; three saga consumers let one end the instance
  between another's load and save while a third holds a duplicate.
* `MaxFaults` (1 to 3) bounds crashes, failed calls and lost answers per behaviour
  where they could go on forever; two are enough for a failure during recovery.
  `PgEventStore` has no such bound.
* `MaxRebuilds` = 1: a second rebuild starts from the states of the first.
* `Attempts` = 2 and `ConflictRetries` = 1 instead of 3, so that they run out.
* `MaxLog` = 3 records: a fetch of two with one behind it.
* `deployment`: three releases, of which the first only left history and two are in
  `Rollout`, so that a payload is lifted twice, once, not at all and refused; one
  arriving command, delivered any number of times to either process, so that two
  executions race; its outcome has one event or two, of which only release 3 knows
  the second. One fault (signal, crash, failed call or lost answer): the choice of
  release at every start, and restarts after an unreadable event, are not bounded.
* inbox feeds of three and two messages, with duplicates that arrive before or after
  the reader has passed the original.
* `Amounts` and `Quantities` are the last allowed and first refused values, and 0.
* `Histories` are all orders in which three independent topics reach the inbox, for
  the three outcomes of an order.

No run uses symmetry, since nearly all check liveness. Deadlock is
checked in every run; workers that only sleep stutter (`Idle`, `Drained`, `Quiet`).

### Fairness

Weak fairness of the steps of goroutines that the code keeps running, of
statements in an open transaction, and of restarts: errors make `main`'s errgroup
return and the supervisor (compose) restarts the process. Strong fairness only of
`Lock`: Postgres queues lock waiters. Faults are finite per behaviour (or, in
`PgEventStore`, not obliged to happen). Never assumed: that anybody writes,
orders, starts a rebuild, fails, or rolls out the newest release: `EventuallyAllHandled`
of `Deployment` takes that as its hypothesis. An operator who began a rebuild completes it.

## 4. Proofs

Every safety property of every passing run is also a theorem, for all values of the
constants that satisfy the named assumptions. These are weak: batch sizes and attempts
are positive, bounds natural, functions well-typed, model values distinct
(`StoreAssumption`, `PgAssumption`, `RelayAssumption`, `ProjectionAssumption`,
`FaultsAssumption`, `BrokerAssumption`, `SagaAssumption`, `OrderAssumption`,
`InboxAssumption`, `SummaryAssumption`, `ConsumerAssumption`, `DeploymentAssumption`).
Three say something about the code's surroundings:
`TopicAssumption` (billing's topic: copies of a message are alike, a refund is asked
for after the capture of a proper amount, as the fulfillment saga does),
`RegistryAssumption` (a release keeps the names and upcasters of the one before) and
`RepositoryAssumption` (a release raises only events it registers, and what is stored
at first was written by some release). TLC evaluates all of them on the instances.

Each module ends with its inductive invariant (`Inv`, `OrderInv`, `SummaryInv`,
`DeploymentInv`), a conjunction of named parts, and its proof has one lemma
per action or group of actions. None of the properties is inductive by itself; what
had to be added, and why:

* `EventStoreProofs`: `StoreWellFormed`. The append keeps `StoreInv`: unique
  positions and versions, no holes, versions in position order. `ReadAllClosed`
  says a batch is gapless after its start, the fact every tailing worker needs.
* `PgEventStoreProofs`: `TypeCorrect`, `TailingNeverSkips`, `AcknowledgedIsVisible`,
  `ConflictsAreReal`, and `ImplementsPort`, the refinement. That
  commit adds positions above the reader's needs to know that the committing
  transaction's rows are the top of the sequence (`InsertInv`), which needs that
  no other transaction inserts (`LockInv`), that the stream still ends where the
  version check found it, and that the reader stands on a visible event
  (`ReaderInv`). `CallInv` bounds stale expected versions.
* `RelayProofs`: `TypeCorrect`, `DeliversAtLeastOnce`, `DeliversInOrder`.
  `PositionInv`: every position held or persisted is 0 or that of a visible event,
  and everything up to it is
  done; this is what makes blind overwriting harmless, since every value a replica
  can write is a done one, and later appends land above all of them. `BatchInv`:
  a batch continues the replica's position without a gap, and what is neither
  unsent nor published in it is private. `KeyOrder` is carried along, because the
  next accepted message needs everything before the batch to be in the log.
* `ProjectionProofs`: `CheckpointApplied`, `WaitKeepsItsPromise`. The relay's
  argument, with "published" read as "applied" (`RunnerInv`), for positions that
  clients hold as well (`ClientInv`). Truncation is the one step that takes
  something out of the table, so `RebuildInv` says nobody holds a position then.
* `ReadSideProofs`, inbox: `InboxStoresOnce` for any writers, `ReaderPassesOnlyHandled`
  for serialized ones. `WriterInv` says an inserted row is the only one with its ID,
  visible or not. With `Serialized`, `OrderInv` says that an open row lies above all
  visible ones and that at most one writer has one; this is exactly what the Postgres
  inbox with several writers lacks. `ReaderInv` is the relay's argument again.
* `ReadSideProofs`, summary: `SummaryShowsHighest`, `CustomerToldOnce`,
  `RetiredIsRecorded`. `NotifierInv` relates a notifier's loaded version to the order:
  its reason is not among the notifications up to that version, so an append at that
  version cannot repeat one.
* `SagaProofs`, runner: `EffectivelyOnce`, `DecisionsAreFresh`, `NothingAfterEnd`,
  `AcknowledgedIsRecorded`. `StreamInv` describes the stream as blocks, each an
  envelope with its commands right behind it; `ConsumerInv` says that a consumer that
  has decided did so from a prefix without its message and without an end.
* `SagaProofs`, fulfillment: `GoodsForMoney`, `SagaAsksForWhatIsPossible`, for all
  amounts and quantities. `CausalInv` gives every recorded fact and command its cause
  in another service, `TopicInv` makes every message a copy of something recorded; a
  shipment then leads back, cause by cause, to a capture, and a refund to a rejection
  that excludes it.
* `CommandConsumerProofs`: `PaymentsMoveOnce`, `AcknowledgedHasEffect`,
  `PaymentsOnlyMoveOn`. "Settled" is not stable, since a payment moves on after a
  command was refused; `Resolved` says the same in terms no later step undoes.
  Everything a member has behind it on the topic is resolved (`MemberInv`).
* `ProcessProofs`, Kafka: `CommitsOnlyHandled`, and `OrderUntilShutdown`, an action
  property. `FetchInv`: a fetch is a run of consecutive records. `ProgressInv`: for a
  member whose context has not ended, everything before the record it visits is
  handled, and everything its client will not fetch again is handled or in the fetch.
* `ProcessProofs`, registry and processes: `ReadsExactly`,
  `CheckpointPassesOnlyHandled`, and `CommandsExecuteAtomically`, the refinement of
  `AtomicCommands`. `LiftKeepsFact` goes through upcaster chains of any length: among
  the versions at which the lifted payload would be wrong there is a least one, and
  the upcaster before it leads to a contradiction. With it, what a release decodes is
  the fact or an error (`DecodeExact`), and the newest release decodes everything.
  `RequestInv`: a decided request has an outcome of its command, and the prefix of
  the stream up to the version it loaded does not have that command; since the append
  only succeeds at that version, the prefix is then the whole stream, which is the
  guard of `Execute`. The stream as a sequence (`InVersionOrder`) comes from the
  store's invariant, and the append keeps that by the port's own lemma, instantiated.
  `TailedTo` is the relay's argument once more, over names all releases know.

Two components share a proof module where they are neighbours; their
names are disjoint, so the theorems speak of each specification as it stands.

Only model-checked: liveness, in every module, since fairness and ENABLED are beyond
the prover.

## 5. Not modelled

* query bus, HTTP routing, JSON, identifiers: stateless;
* o11y: observes only; trace metadata is left out of every module;
* start-up as single steps: until its workers run, a process only connects and
  applies idempotent migrations;
* Kafka itself: its log, group and commits are the environment of `KafkaBroker`;
  record headers are left out;
* of the memory broker, the growth of topics by Publish and the refusal of a second
  member; of the memory store, its slice and index;
* the conformance suites (`storetest`, `brokertest`): they are tests of the ports.

## 6. What the code does otherwise than it says

`projection/projection.go` promises that delivery to handlers is at-least-once.
With more than one InboxWriter on a Postgres inbox it is not: `Inbox.Append` draws
its position when the INSERT runs and nothing keeps a later position from
committing first; the reader then checkpoints past a row it has not seen. The
ordering service runs three writers on one inbox. The event store protects itself
against exactly this with an advisory lock, and says why in a comment. Run
`inbox_postgres` exhibits the trace; `inbox_serialized` shows that serialized writers
are safe.

`broker/broker.go` promises that messages sharing a key are delivered in order
within the group. When the context ends while the Kafka loop retries a record, the
closure returns for that record only: EachRecord calls it for the records behind,
and a handler that does not look at its context succeeds on them first. Run
`kafka_shutdown` exhibits the trace. Nothing is lost, since the commit fails; both
records are delivered again after the restart, in order.

Two limits were met that no run states, because nothing the code could check would
rule them out. `relay.translate` and CatchUp pass over an event whose name they do
not know. During a rollout an old process does so with events that only the new
release knows, and moves the shared checkpoint past them: the new process never
translates or applies them. `PassedIsHandled` therefore speaks of the names all
releases in use know; a new event name is safe once the last old process is gone.
And `WaitForCheckpoint` takes position 0 for "nothing was written": an append whose
answer was lost, found done by the retry, leaves the captured position at 0 and the
client does not wait. `ReadYourWrites` speaks of captured positions.

## 7. Plan

Done: sections 2 to 4. Next, in this order:

1. More action properties, as theorems: the offset of a Kafka group that only moves
   back through a late commit, the append-only streams of `Saga` and `OrderSummary`.
2. `Fulfillment`'s atomic steps as refinements of `Saga` and `CommandConsumer`.
