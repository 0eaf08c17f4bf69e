# A TLA+ verification of Aseman

Aseman is a node for hosting programs ("creatures", workloads) together with
the services around it: a virtual machine manager, a storage layer,
metering, federation, consensus and a finance ledger. This directory holds
TLA+ modules translated from its Rust sources, TLC configurations that check
them on small instances, and TLAPS proofs for every size. Paths below are
relative to the repository root, where the sources are.

Run everything from this directory; `PROJECT.json` names the module and the
configuration of every run:

    tlc -config MCFederation.cfg MCFederation
    tlapm FederationProofs.tla

## 1. Inventory

| Component | State it keeps | Operations | Hard behaviour | What makes it correct |
|---|---|---|---|---|
| Lease coordination (`aseman-domain/coordination.rs`, `aseman-capsule/coordination.rs`, `aseman-application/singleton.rs`) | one lease row and one fence row per name in the store; `Singleton.held` in every replica | acquire, renew, release, accept, run, resign | optimistic transactions of several replicas, time passing inside them, lost answers, crashes | one unexpired lease at a time, tokens never shared, fenced effects in token order, an abandoned lease is taken |
| VMM lifecycle service (`aseman-application/vmm.rs`, `aseman-domain/vmm.rs`, `aseman-capsule/vmm.rs`, `apps/aseman-vmm`) | workload rows, operation rows, an event log | create, command, update_spec, cancel; a worker tick: execute_pending, observe, reconcile | handlers and workers compare and write the same rows, backend calls in between, retries, restarts | accepted commands are not undone, observations do not go back, verdicts are final and true, everything converges |
| Native VMM backend (`modules/vmm-backend/native`) | an in-memory registry of instances and a sequence counter | step (start, stop, restart, delete), observe_all, run, logs, files | a call may fail halfway, outlive its caller, and a restart forgets everything | every answer is ordered after the ones before it |
| VMM backend gRPC (`modules/vmm-backend-grpc`) | none | forwards calls with a deadline | a timed out call goes on at the server | failure answers do not claim anything |
| VMM HTTP idempotency keys (`modules/vmm-http/server.rs`, `aseman-capsule/vmm.rs`) | a claim with its age and its recorded answer per key | claim, take over, complete, release, purge | a handler that outlives its claim, panics, fails or loses its commit | one handler at a time, replays are the first answer, an abandoned key is answered again |
| Public action mutations (`aseman-application/public_action.rs`, `aseman-capsule/auto.rs`) | a claim with its outcome per key | claim in two transactions, execute, complete, release | the effect happened and its record failed; the node ends in between | one reported effect per key, replays are its outcome |
| VMM event log (`aseman-capsule/vmm.rs`, `event_stream` of `modules/vmm-http/server.rs`) | events, the last sequence and the truncation mark; the batch of every stream | append, events_after, truncate_before, stream, resume, resync | concurrent writers, readers behind the truncation point, broken streams | unique sequences, no gap is read silently, every event arrives |
| VMM HTTP API and client, Nomad backend | none / Nomad's jobs | forwarding | network | - |
| Node desired state (`aseman-application/lib.rs`, `aseman-capsule/workload.rs`) | the node's copy of each workload's desired state and generation | SetDesiredWorkloadState | record first, send later | the VMM eventually learns the last generation |
| Metering and settlement (`aseman-application/meter.rs`, `aseman-capsule/metering.rs`, `aseman-domain/finance.rs`, `apps/aseman-meter`) | samples, intervals, price lists, a journal | a pass: read, record sample, record interval, settle; publish | an end of the process between any two transactions, counters that are reset, prices that change meanwhile | no span is charged twice, no more than was used, every record can be recomputed, the backlog is settled |
| Federation (`*/federation.rs`, `modules/federation/http`) | proof nonces, envelope nonces and recorded answers at the destination; a circuit breaker per peer at the source | send with retries, authenticate, serve | lost and repeated messages, late answers, store errors around the effect, restarts of either node | one effect per request, answers are durable, every call returns |
| Hashgraph ordering (`modules/consensus/hashgraph`) and hand-over (`*/consensus.rs`) | per validator: pending and finalized records, a transaction pool, events, committed blocks | submit, self event, commit, restart and sync; epoch, pending, checkpoint, may_switch | a record is ordered several times; memory is lost; the readiness reads are not one step | validators agree on one place per record, nothing accepted is lost, a switch inherits the order |
| Finance actions (`aseman-application/finance`) | wallets with seven counters, holds, pools, reservations, live debits, payouts, token locks, project budgets, markers, a journal | 18 actions that move money, and a reconciliation | long sequences of legal calls over shared counters, actions that overlap | money is conserved, the books add up, budgets are kept |
| Module supervisor (`aseman-module-runtime`) | a record and a process per module, a routing table with the active and the previous module per kind | install, validate, configure, stage, activate, drain, stop, rollback | a process refuses, loses an answer or dies between the steps | one active module per kind, only fit ones are routed to |
| Capability grants, identity and sessions | grants, keys, epochs | decide, rotate, revoke | revocation against use | deny by default |
| Realtime streams, storage providers, migration, RocksDB cluster | streams, rows, a cutover journal | append, transactions, cut over | crash between steps | resumable steps |
| Node shell, transports, runtimes, command line | wiring | I/O | - | - |

How they interact: the node records a desired generation and sends it as a
command to the VMM's HTTP API. The API handler saves the workload row and opens
an operation row. In one replica at a time, chosen by the lease, a worker ticks:
it executes unfinished operations by calling the backend over gRPC, records what
the backend observes, and opens operations for workloads that drifted. All rows
live in the storage provider, which gives transactions that may fail with a
conflict (next section). Usage is sampled from the VMM by the meter and settled by
the finance ledger, whose actions run one transaction each, several at a time; its
journal records
are submitted to the consensus provider, which gives them their order. An action
on a creature of another node goes there through federation and runs in that
node's transaction. The module supervisor decides which process serves each kind
of module, the storage and VMM providers among them.

### What a commit protects

Most components read a row, decide on it, and write it in one transaction that is
retried on a conflict. Decision 0038 (line 41) says that "every update carries the
revision it read". The engine does not do this
(`crates/aseman-storage/src/engine.rs:264-366`): the decision's `find_unique` is one
read, `update`, `upsert` and `delete` find the row again, and `rewrite` puts the
given fields over what was found and expects the revision of still another read. No
provider keeps the first read stable: Postgres opens a plain `BEGIN`, RocksDB and
memory read committed state at every get, and `conformance.rs:320-321` says "read
committed". So only a commit that lands after the last of these reads is a conflict;
one that lands between the decision and the update is overwritten. A row that is
created is safe: its key refuses the second one.

Every module that writes rows models this in the same way. The reads of an update and
its commit are one step; when the row is as the decision read it, the step writes;
when it is not, both outcomes are possible, the conflict and the overwriting. A
history variable that the code does not have remembers the overwriting: `blind` in
`Coordination`, `overwritten` in `VmmService`, `overtaken` in `Idempotency`, `raced`
in `EventLog` and `FinanceNode`. Properties that an overwritten row breaks say so: they
hold in every state until then, which is what the code's own checks are worth. That
they break afterwards is shown by the run `coordination_overwritten` and by
configurations of the other modules (section 4). Properties without such an exception
hold whatever is overwritten.

`PROJECT.json` lists every hazard of this code that a test would hardly reach,
at its line, with the properties that cover it or the reason none does yet.

## 2. Modules

| Module | What it is |
|---|---|
| `FencedLease` | abstract: one term at a time, each with an owner and an end, and effects in the order of terms |
| `Coordination` | the lease rules, the storage transactions and the worker loop of every replica; implements `FencedLease` |
| `MCCoordination` | two replicas for TLC |
| `VmmRules` | the pure lifecycle rules of `aseman-domain/src/vmm.rs` |
| `VmmService` | API handlers, worker ticks, stores and backend around one workload |
| `MCVmm` | one or two handlers and one worker for TLC |
| `VmmProofs` | safety of the VMM service for any handlers, overlapping workers, generations and faults |
| `FederatedCall` | abstract: what federation promises the caller of a cross-node action |
| `Federation` | the client, the handlers, the durable guards and both nodes' restarts; implements `FederatedCall` |
| `MCFederation` | callers, handlers and requests for TLC |
| `FederationProofs` | safety and the refinement for any callers, handlers, requests, attempts and times |
| `Finance` | what each money action of a node does to the rows it read, and the sums its reconciliation reconstructs |
| `FinanceNode` | those actions in one storage: an action that decides, is overtaken, and commits on top or is refused |
| `MCFinance` | a payer and a worker for TLC |
| `FinanceProofs` | the books, the money and the budget for any users, documents, amounts and overlaps |
| `Ordering` | the hashgraph provider on every validator and the hand-over check |
| `MCOrdering` | two validators, two records for TLC |
| `OrderingProofs` | agreement and the hand-over for any validators, records, restarts and checks |
| `Supervisor` | the module supervisor and the processes it starts |
| `MCSupervisor` | four modules of two kinds for TLC |
| `Meter` | the meter's pass over samples, intervals and journal, the backends' counters and the price lists |
| `MCMeter` | one workload for TLC |
| `MeterProofs` | charged spans, reconciliation and charges for any workloads, lists, batch and bounds |
| `EventLog` | appends, truncation and the streams that follow the VMM's event log |
| `MCEventLog` | two writers and a follower for TLC |
| `Idempotency` | `mutate` and the VMM's idempotency keys, for one key |
| `MCIdempotency` | two repeated requests and one with another body for TLC |
| `VmmHttpProofs` | of `EventLog`: sequences, gaps and order for any writers, topics, nodes and limits; of `Idempotency`: one handler and faithful replays for any requests, times and faults |
| `PublicAction` | `execute_mutation` and its claims, for one key |
| `MCPublicAction` | the same requests for TLC |
| `HolderProofs` | of `Coordination`, `PublicAction` and `Supervisor`: one holder at a time, of the lease, of a key and of a module kind's work, for any replicas, requests, modules and bounds |
| `Sums` | induction over finite sets, and what the proofs use of the sums of `Functions` |

Operators whose name begins with `Mutant_` are plausible slips in the operator
that follows them. Nothing uses them; replacing the operator by its mutant must
break the property named in `PROJECT.json`, which shows that the property looks
at that code.

### Coordination and the code

`row` and `fence` are the two rows of the store, `clock` is the provider's
clock, the only time the code decides by. Of each replica the model keeps
`held` (`Singleton.held`), where its thread is (`pc`), the provider call it is
in (`op`, with its argument `arg`) and what that call's transaction read
(`txNow`, `txRow`, and `txFence` of `accept`). `owner` is history: the replica each
token was granted to; so is `blind`: the rows that were ever overwritten unread.

A provider call is one `AutoCommit::decide`: `TxNow` reads the clock, `TxRead`
the row, and the commit writes, or finds the row changed and is refused
(`TxConflict`, decide again). `UpdateRow` writes over a changed row too, and since
`renew` and `release` give the expiry alone, the other fields are those of the row as
it is or as it was (`Found`); `CreateRow` needs the row to be missing still. Its
outcomes are `AcquireGranted`, `AcquireStandby`,
`RenewGranted`, `RenewRefused`, `ReleaseDone` and `ReleaseNothing`. `TxFail` is a
call that fails with nothing written, `TxLost` one that commits and whose answer
is lost. `Standing*` is `Singleton::standing`; `AcceptRead`, then `Accept` or
`AcceptFails`, is `FencedDestination::accept` as an effect of the work; `Resign` and
`ResignNothing` are the shutdown, `Crash` and `Restart` lose the memory only.

`FencedLease` is the promise: the present term (`row.token`) has one owner and ends
by `row.expires`, never more than `Ttl` away; acquire begins the next one, once the
present one has run out or as its own owner's, renew makes it longer, release ends
it, and an accepted effect belongs to a term no earlier than the last effect's and
comes from that term's owner. A commit is one step of it, whether or not the replica
learns of it; everything else a replica does is none. The refinement
(`ImplementsFencedLease`) is stated up to the first overwritten row.

Abstractions: one lease name; rows are compared by their value where
the provider compares its revision (two writes that leave the same row leave the
same decision); the repeat count of `decide` is nondeterministic (`TxFail`
covers giving up); `now + ttl` does not reach the ends of `i64`, and the token
counter ends at `MaxToken` where the code's ends at `u64::MAX`.

### VmmService and the code

`wl` is the workload row (desired state and generation, observation, resource
version), `ops` the operation rows in creation order, `deleted` whether a
Deleted event was appended. `call` is the handler each API thread is in. A
worker is a program counter `pc` and the local variables of `tick`,
`execute_pending`, `execute`, `converge`, `record_observation`, `observe` and
`reconcile`: the operation it works on and the ones after it (`cur`, `todo`),
the desired state it read and the action it planned (`plan`), the observation
to record (`got`), the record to save (`snap`) and the verdict to write
(`outcome`). `be` is the backend's registry entry and sequence counter, `late` a
call that outlived its deadline, `cancelling` the cancellations that have read their
operation and not written it. `overwritten`, `want`, `satisfied` and `started` are
history variables for the properties; `sent` fixes one command per generation, as the
node's own compare-and-set on its generation does.

Every store call and every backend call is a step of its own. `Command` is the
part of `command()` and `update_spec()` up to the save, `CommandSave` or
`CommandRefused` the save, `CommandInsert` the second transaction that opens the
operation. `replace_workload` compares the version on one read (`replaces`) and
writes after another: `Replace` takes either the row it compared or, counted by
`Overwrites`, one that has changed since. `replace_operation` is `ReplaceState` in the
same way, with the state it expects; `cancel` and `finish` read the operation in a step
of their own (`CancelRead`, `FinishCheck`), and `ExecuteLost` and `FinishDiscarded` are
the refusals. `ExecuteLoad` to `Finish` follow `execute` line by line;
`ConvergeSuperseded`, `ConvergeNothingToDo` and `ConvergePlan` are the three ways
through the head of `converge`; `StepAnswered`, `StepRunFails`, `StepFails`,
`StepRefused` and `StepTimeout` are the outcomes of the backend call, and
`LateLands` and `LateFails` what becomes of it after its deadline;
`RecordLoad`, `RecordRefused`, `RecordRetry`, `RecordSave` and `RecordFails` are
`record_observation`, used by `converge` and by `observe`. `TickFails`,
`WorkerCrash`, `CallerCrash` and `BackendRestart` can happen at any point.
A request that is refused changes nothing and is not a step.

Abstractions: one workload, owner and runtime; rows written over count among the
faults, whose number is bounded; at most one call is late at a time; a
deadline may pass at any time after the operation is opened; `Pause`,
`Resume` and `Restore` commands end at the capability check, because no backend
in the repository offers them (`docs/decisions/0029`), so they are not among
`AllCommands` although `VmmRules` has their rules; the event log is reduced to
its Deleted event; a lifecycle operation's kind does not matter to `execute`
and is left out.

### Federation and the code

Of each caller the model keeps where `HttpFederationClient::send` is, the
request, the time its envelope was issued and the attempt (`caller`); the callers
of a destination share its `circuit`. A handler is a server thread of the
destination in `FederationService::invoke`: `Authenticate` is
`AuthenticateProof::execute` with its store of used proof nonces (`proofs`),
`Lookup` to `RecordAnswer` are the store accesses of `ServeFederatedRequest::serve`
in their order over `nonces` and `answers`, `Execute` is the action's own
transaction. `effects` and `doubtful` are what really happened: how often a
request took effect, and the requests with an effect that serve was told had
failed, because the store could not report the commit. `Post`, `TransportFails`,
`Receive` and `Discard` are the network: a request or response may be lost and a
client may give up on a handler that goes on working.

`FederatedCall` is the promise: an asked request takes effect once, again only
after an unreported effect, an answer is given only after an effect, and a failed
call says nothing. The refinement mapping takes a caller that posts or waits to a
pending call and leaves the rest as it is.

Abstractions: one source, one destination, one key, one clock (the skew the code
allows is in `Skew`); the nonce is the request id, as `send` makes it; the answer
of an action is JSON, so the check that it is UTF-8 does not fail; nothing purges
the federation rows, because no production code calls `purge_expired`.

### Finance, FinanceNode and the code

`wallets` are the balance and counters of every creature, the other variables
the documents of each kind. Every action of `finance/actions.rs` that moves
money, and `lock_token` and `consume_lock` of the node, is one operation of
`Finance`: what it does to the rows it read. Its guard collects the refusals, its
updates the writes; a refusal is no step, because an error rolls the node's
transaction back. `SetAside`, `GiveBack`, `Earn`, `TopUp` and `Reverse` are the five
things that happen to a wallet. `DebitPortion` keeps the code's signed subtraction.
`LockToken` lowers the balance alone, as the code does. The project's metadata changes
at any time (`ConfigureProject`), and a reservation takes the larger of what the budget
document and the metadata say is spent (`ProjectSpent`). The `*Expected` operators are
what `reconcile_financial_system` reconstructs from the documents, and `BooksAddUp`
says it reports no difference.

A rollback is not isolation. `FinanceNode` has what the actions do to each other. One
that no other overtakes is a step (`Alone`). One at a time may be slow: it reads and
decides (`Decide`), others commit before it (`Overtaken`, then their steps), and it
commits what it decided over what it finds (`Commit`, `Merged`) or is refused by a
conflict (`Refused`). A document is written whole and a wallet field by field
(`Overlay`): `set_balance` writes an absolute balance, `put_account_field` one counter.
What only one of the two changed is kept; `raced` records that a row was written over
that the other had changed, a lost update, and the properties of `FinanceNode` are those
of `Finance` until then.

Abstractions: one slow action at a time, which is enough for an update to be lost; the
view that `Decide` shows belongs to the slow action until `Overtaken` puts the stored
rows back, so it is a state the action sees and not one others act on; a token lock has one step
of its schedule; a quote is
whatever beneficiaries and caps it may hold, with one
role per beneficiary; amounts stay far from the width of `i64`; one project,
whose metadata holds the budget; markers whose key also names the document they
made are that document's status.

### Ordering and the code

`pending` and `finalized` are `ProviderState`, `pool` the submit channel with the
transaction pool, `events` a validator's own events that no block holds, `blocks`
the blocks of decided rounds, of which each validator has `committed` a prefix.
`Submit` and `Repeat` are `submit`, `AddSelfEvent` is `add_self_event`,
`DecideRound` is `process_decided_rounds`, `Commit` is `process_commit` with
`commit_handler`, `Restart` and `Sync` are a node that comes back without its log
and asks a peer. `ReadEpoch`, `ReadPending` and `TakeCheckpoint` are the three
provider calls of the hand-over check, each a step.

Abstractions: the sequence of blocks is decided once and for all, which is what
the hashgraph's voting is for and is assumed of it (external to the model); a
block holds at most two events; a restarted validator syncs before it makes an
event; a check ends with the validator it asks; governance and chain packets are
left out, and so is `adopt` by the incoming provider. A digest is computed from
the record alone, so the refusal of a key with another digest cannot happen.

### Supervisor and the code

`state`, `conformant`, `configuration` and `process` are the fields of
`ModuleRecord`, `active`, `previous` and `generation` those of
`RoutingGeneration`; `runs` is the configuration a process was launched with.
Each operation is one step because the administration service holds one lock
for it. The `*Fails` actions are the error paths: a process that does not get
ready, a drain or restore whose answer is lost after it was obeyed, a stop that
fails after the process was taken out of the record. A process may die at any
time and nobody tells the supervisor.

### Meter and the code

`usage` is the counter a backend keeps for a workload, `used` what the workload
really consumed; `samples`, `intervals`, `prices` and `journal` are the tables of
`aseman-capsule/src/metering.rs`. The pass of `RunMeterPass::execute` is a program
counter with its local variables: `Read`, `PreviousSample`, `RecordSample` or
`SampleConflict`, and `RecordInterval` for each workload, then `PriceLists`,
`Unsettled` and `Settle` for each interval of the batch. Every store access is a
transaction of its own, and after every one of them the process may end
(`Crash`), which `Restart` repairs; an error ends the process too, because `main`
returns it. `interval_between`, `price`, `price_list_at` and `settle` are the pure
rules of `aseman-domain/src/finance.rs`. `Readings` is what a backend answers: the
native one its counter, Nomad also a zero with a fresh sequence when its client
cannot be reached.

Abstractions: one billable dimension stands for all of them, which are priced alike;
pricing is a rate and a rounding; one page of workloads; the ledger's journal entry
is the record of the interval it settles.

### EventLog and the code

`last` and `truncated` are the two counters, `events` the rows, `history` every event
that was ever committed. `Make` stamps the event, `AppendRead` reads the counter, and
`Append` writes it with the event, also over a counter that changed since, unless the
event's key is taken; `AppendConflict` is the other outcome. A truncation finds the
highest expired event (`TruncateFind`), reads the counters (`TruncateRead`) and writes
both back (`Truncate`): `last` as it read it. A stream compares its position with the
mark (`Check`) and reads a batch in another transaction (`Batch`), hands it over with
`Deliver`, polls or ends with `EndOfLog` when there is nothing, is told `TooOld`, or
breaks. A node connects with the last identifier it received. After a resync it has no
other: neither the resync event nor a listing carries a sequence, so `ListAgain` leaves
its position alone. `seen` and `got` are what the node knows.

`raced` collects three races that the code may lose: the counter was written over
(`"rewound"`), a truncation dropped an event above the mark it wrote (`"dropped"`), the
mark moved between the comparison and the batch (`"moved"`).

Abstractions: the owner and the workload of an event are its topic; the operation
a stream attaches to an event is left out; a truncation that meets a conflict
counts as failed, because the next tick repeats it.

### Idempotency and the code

`row` is the row of one key with its age in place of its time, `request` where each
request's `mutate` is. `Claim*` are the answers of `claim`, with the time that
passed since the clock was read as `late`; a takeover reads the abandoned claim
(`ClaimAbandoned`) and writes it in another step (`ClaimTakeOver`, or `ClaimConflict`
when it was written meanwhile). `Handle` and `HandleError` are the handler;
`Complete`, `CompleteLost` and `CompleteNotFound` what may follow; `release` and
`purge_before` check the row on one read and delete it by another (`ReleaseReads`,
then `Release` or `ReleaseConflict`; `PurgePicks`, then `Purge` or `PurgeConflict`).
`asRead` and `purge` tell whose read is still true, `overtaken` that a row was written
or deleted that was not as read. `first` is the first final answer a client got, and
`overrun` remembers that a handler worked for longer than the ttl.

Abstractions: the handler is its answer; ages above the retention are one age.

### PublicAction and the code

`claim` is the row of one key, `effects` the executions that reported what they did,
`unreported` those that failed after their effect was committed, `first` the
first outcome a client got, `lost` that a claim was left behind. `Create`,
`CreateConflict`, `Refuse`, `Replay` and `ClassifyNotFound` are the two transactions
of `AutoCommit::claim`; then come `Execute` or `ExecuteFails`, and `complete` or
`release`. An execution fails with or without its effect: the commit of the node's
transaction may land and its answer be lost (`core_storage.rs:39-41`), and the
request releases its claim in both cases (`public_action.rs:212-216`). `complete` and
`release` may fail too, and the node may end at any point.

Abstractions: one key; authentication, policy and audit come before and are left out.

## 3. Runs

| Run | Checks | Shows |
|---|---|---|
| `coordination` | `UnexpiredLeaseIsCurrent`, `EffectsInTokenOrder`, `ImplementsFencedLease`, `AbandonedLeaseIsTaken` | until a row is overwritten unread, no interleaving of lease transactions, clock ticks, errors, lost answers, crashes and restarts lets a second replica in early or lets an old holder's fenced effect land behind a newer one; the transactions implement the abstract lease; a lease whose holder is gone is granted again |
| `coordination_overwritten` | `TokensAreNotShared` (violated) | finding 2 below |
| `vmm` | `SuccessWasObserved`, `DesiredMovesForward`, `ObservationsMoveForward`, `VerdictsAreFinal`, `EveryOperationFinishes`, `RecordConverges` | until a row is written over, stale writers, cancellations, retries, timeouts and restarts never undo a command, take an observation back, change a verdict or report an unobserved success; in any case every operation gets a verdict and the record reaches the desired state |
| `vmm_invented_success` | `SuccessIsNotInvented` (violated) | finding 1 below |
| `federation` | `NonceGuardsEffect`, `AnsweredIsDurable`, `ImplementsFederatedCall`, `EveryCallReturns` | an effect serve knows of is never repeated, an answer is on record before it is given, the protocol implements the abstract call, and every call ends |
| `finance` | `WithdrawableStaysCovered`, `BooksStayInOrder`, `MoneyStaysConserved`, `BudgetStaysKept` | until a slow action writes over a row that another one changed, no sequence and no overlap of actions makes or loses money, lets a counter differ from the documents, leaves a withdrawable amount uncovered, or overruns the budgets |
| `ordering` | `FinalizedIsTheOrder`, `SwitchInheritsTheOrder`, `PendingDrains` | validators agree on every record's one place through repeats and a restart, pending records leave, an allowed hand-over inherits every accepted record |
| `supervisor` | `RoutingIsSound`, `ProcessRunsItsConfiguration`, `NeverRoutesToDrained` | no order of operations and failures routes to an unfit module, lets a process run another configuration, or routes new work to a process told to drain |
| `meter` | `ChargedSpansDoNotOverlap`, `ReconciliationIsClean`, `ChargesWithinUse`, `EveryIntervalSettles` | through resets of the counter, ends of the meter and price lists published at any time no span is charged twice, no more than was used is charged, every record can be recomputed, and the backlog is settled once it can be priced |
| `event_log` | `SequencesAreUnique`, `NoEventIsMissed`, `EventsComeInOrder`, `EveryEventArrives` | until a race is lost, a slow, broken and resumed stream beside concurrent writers and truncation misses nothing its node is not told of, and every event arrives or the node is told; whatever is lost, events come in order and once |
| `idempotency` | `KeyTypeOK`, `OneHandlerAtATime`, `ReplaysAreFaithful`, `KeyIsAnswered` | while handlers finish within the ttl and no decision is overtaken, one works at a time and replays are the first answer, through server errors, panics, lost commits, crashes and purges; an abandoned key is answered again, overtaken or not |
| `public_action` | `PublicTypeOK`, `EffectIsNotRepeated`, `OutcomeOfTheEffect`, `OutcomeComes` | after a reported effect retries, failed stores and ends of the node never cause another or answer with anything else than its outcome, and a failed execution leaves the key usable |

The type invariants of the other modules, `ActiveIsRouted`, `PendingIsInFlight` and,
until a row is overwritten, `TokensAreNotShared` are proved for every instance (section 5)
and not checked again here.

### Bounds

`coordination`: two replicas are enough for a race; `Ttl = 3`, `Margin = 1`,
`MaxClock = 3` and `MaxToken = 2` give a grant that is held, renewed and given up
inside the margin, its end and a takeover. The constraint `UpToOverwritten` leaves out
what follows the first overwritten lease row: every property of the run excepts it, the
liveness property too, so nothing that could refute one is left out.

`vmm`: two generations (one supersedes the other), two handlers racing beside the
worker, one fault or one row written over (what a timed out call does later belongs to
its timeout). All four commands are in every run. Two workers whose ticks
overlap, which item 3 of section 4 shows to be possible, are beyond TLC's reach at these
bounds; `VmmProofs` proves the safety properties for any number of them.

`federation`: one caller that asks again with the same request after its call
ended, two handlers (a late one and the one of the retry), two attempts, a breaker
that opens after two failures, and a clock that passes the lifetime, the skew and
the retention of a proof nonce, so that a repeated request gets through
authentication again. Several callers and requests are the subject of the proof.

`finance`: a payer and a worker who is also the settlement authority, two holds of the
project and one document of each other kind, three requests, amounts that use up a
wallet, and a clock that passes every expiry. The budget is opened for two holds
and may be lowered to one while they are open, so that a hold is refused both for the
budget and for what the metadata says is spent. One action may be overtaken by one
other. `UpToRaced` leaves out what follows a row written over, of which no property says
anything; the two holds are symmetric (`HoldSymmetry`).
Every action but the plain ones needs at most two documents to interfere.

`ordering`: two validators and two records give every pair of copies of a record
(two validators, or one before and after its restart) and two blocks in every
order; one restart and one check may happen anywhere in between.

`supervisor`: three modules of one kind, so that the active, the previous and a
third one differ, and one of another kind; the three are symmetric.
Four routing changes are two activations with a rollback and its return.

`meter`: one workload whose counter is read, reset and read again; three units of
use over four instants make several intervals, a batch of one leaves a backlog, two
lists may take effect before or after an interval starts, and the process ends
once, anywhere. Workloads share no row, so more of them only interleave.

`event_log`: two writers race for a sequence beside a truncation; three events of two
topics with a batch of one leave a stream that is behind, and one stream
may break. All three races are lost in the run, and what follows is explored.

`idempotency` and `public_action`: a request, its repetition and one that reuses the
key for another body; the ttl, the retention and the delay before a claim are as
small as they can be while every order of ages happens; two or three faults.

### Fairness

`Coordination!Fairness`: the provider's clock runs; each replica's thread keeps
looping, as `while running` with a sleep does, and its calls return, with an
answer or an error; a dead process is started again by whoever operates it.
Errors, crashes and shutdowns may be many but stop at some time: without this
assumption they could prevent every acquisition.

`VmmService!FairSpec`: a handler that started finishes, each worker keeps
ticking, a late backend call ends. Nothing is assumed about the node sending
commands, and faults are bounded by `MaxFaults` and never forced. Each worker's
tick is one weakly fair action because the thread is sequential: once there is a
workload some step of it is always enabled.

`Federation!FairSpec`: only the client's own thread is fair. `reqwest` gives every
attempt a deadline, so waiting ends by an answer or as a failed attempt, and
nothing is assumed of the network or the destination.

`Ordering!Fairness`: a validator with transactions makes an event and a validator
commits the blocks it computed, because `do_background_work` runs on a timer; a
restarted validator syncs with its peers on the same timer. That a round with an
undecided event is decided is assumed of the hashgraph, as long as
enough validators gossip.

`Meter!FairSpec`: the loop of `main` goes on, and the process is started again after
it ended, as its service definition does (`restart: unless-stopped`). Nothing is
assumed of who publishes prices: `EveryIntervalSettles` begins with prices that come
to cover every interval.

`EventLog!FairSpec`: the server polls an open stream and a node keeps following, also
one that was told to list again and comes back with its old position.
Writers, the clock and truncation are not fair, breaks are bounded.

`KeyFairSpec` of `Idempotency`: time passes, the service's threads run and clients try again.
`KeyIsAnswered` has as its premise that handlers come to finish within the ttl.

`PublicFairSpec` of `PublicAction`: the node's threads run and clients try again.

Deadlock checking is on in every run.

## 4. Findings

Two of the disagreements between the code and what the repository says of it have a
run, which ends with a counterexample:

1. A start whose build or launch plan failed leaves the instance registered as
   pending; `observe` records it, `reconcile` counts a pending instance of the
   right generation as done (`aseman-domain/src/vmm.rs:298`), and the next
   attempt reports the operation succeeded although nothing ran. The failure
   model says "never invent success or failure" (`vmm_invented_success`).
2. Two replicas that read the same expired lease are both granted it under one token:
   the update of the second finds the first one's grant and overwrites it
   (`aseman-storage/src/engine.rs:270`). Decision 0038 says "every update carries the
   revision it read, and a commit another writer won is retried", decision 0006
   (line 21) requires "Serializable transactions, compare-and-swap revision" for
   coordination, and `aseman-capsule/src/coordination.rs:5-6` says "of two replicas
   racing for a lease exactly one commits" (`coordination_overwritten`).

The others were met in the same models; each has a configuration that leads to it
and is not among the runs (`MCFinanceFindings.cfg` lists three invariants, of which TLC
reports the first it violates: keep one at a time). Four are finding 2 in other rows:

- a command that was accepted between a worker's comparison of the version and its
  write is overwritten (`aseman-capsule/src/vmm.rs:202-222`, `MCVmmOverwritten.cfg`);
- `truncate_before` writes back the `LAST_SEQUENCE` it read
  (`aseman-capsule/src/vmm.rs:507`), so a sequence is used again
  (`MCEventLogRewound.cfg`);
- two requests that read one abandoned claim both take it over
  (`aseman-capsule/src/vmm.rs:355-384`, `MCIdempotencyTwoTakers.cfg`);
- `set_balance` writes a balance computed from an older read
  (`aseman-capsule/src/creature.rs:474`): of two actions on one wallet one update is
  lost, and money is made or lost (`MCFinanceFindings.cfg`).

The rest:

3. The VMM's worker ignores its fencing token and its pass is not bounded by the
   margin (`apps/aseman-vmm/src/main.rs:160`): a pass longer than the lease runs
   beside the next holder's, against the comment at lines 141-143 and the
   promise of `SafetyMargin` (`MCCoordinationOneWorker.cfg`). What overlapping
   workers can break is the subject of `VmmProofs`: none of the proved properties,
   until a row is written over.
4. The command's row is saved and its operation inserted in two transactions
   (`aseman-application/src/vmm.rs:354`). After a failure between them the
   generation is applied and its replay is answered `not_found`, where
   `contracts/vmm/states.json:120` promises the same operation
   (`MCVmmReplay.cfg`). `reconcile` still brings the workload to its state.
5. A start that outlives the client's deadline goes on in the backend. If a newer
   stop is executed in between, the start lands last, and since its observations
   carry the older generation they are refused as stale: the record says stopped
   for ever while the instance runs (`MCVmmLateStep.cfg`).
6. `contracts/federation/http-v1.md:27-30` says that a retry reuses the exact proof
   "so the destination replays a durable answer". `invoke` authenticates the proof
   first, and its replay guard refuses the reused nonce with 401 while it is
   retained (`modules/federation/http/src/http.rs:196`); 401 is not retryable
   (`MCFederationRetry.cfg`). The answer on record can be had only by a new call
   after the retention.
7. `withdrawable_debit_portion` (`finance/mod.rs:102`) goes below zero when the
   part of a balance that may not be paid out exceeds the amount, and the callers
   then add to the withdrawable counter: a small hold, pool or transfer makes minted
   balance withdrawable, where decision 0017 says that total withdrawable must
   not exceed total earnings (`MCFinanceFindings.cfg`). `WithdrawableStaysCovered`
   and `MoneyStaysConserved` hold beside it. A unit test
   (`transfer_moves_withdrawable_and_repays_debt`) accepts the rule for transfers.
8. A sample and its interval are recorded in two transactions
   (`aseman-application/src/meter.rs:70`). After an end of the process between
   them the sample is refused as a conflict when it is read again, or is the start
   of the next interval: what was used before it is never charged, where
   `contracts/metering/metering-v1.md:47-49` promises that an outage backfills
   (`MCMeterLostInterval.cfg`).
9. `complete` and `release` name the key and not the claim
   (`aseman-capsule/src/vmm.rs:397`). A handler that works for longer than the ttl
   is taken over, and when it ends it overwrites the answer that was given
   meanwhile, where `modules/vmm-http/src/server.rs:274-275` says that "a replay
   returns the first response" (`MCIdempotencyTakeOver.cfg`). After a release and a
   claim for another body it even stores an answer to another request. The
   properties of `idempotency` are therefore about handlers that finish in time.
10. A public action's claim whose node ended, or whose outcome could not be recorded,
   is neither taken over nor purged (`aseman-capsule/src/auto.rs:285`): every retry
   is told that the key is in progress, where `docs/generated/public-api.md:20-21`
   promises the first outcome (`MCPublicActionOrphan.cfg`).
11. An execution whose commit landed and was not reported has its claim released
   (`public_action.rs:212-216`): the retry executes again, where
   `docs/generated/public-api.md:20-21` says that it does so "instead of repeating the
   effect" (`MCPublicActionRepeated.cfg`).
12. Nomad's `usage` answers zero counters when its client cannot be reached
   (`modules/vmm-backend/nomad/src/backend.rs:485`); `interval_between` reads the
   fall as a reset, and the next good reading charges the whole counter again.
   `contracts/metering/metering-v1.md:38` says that a counter that went backwards
   means a restart (`MCMeterNomad.cfg`).
13. A node that is told to list again has no position to follow from: the resync event
   (`modules/vmm-http/src/server.rs:1080`) and the listing carry no sequence, and
   `events_after` refuses every position below the mark, 0 included
   (`aseman-capsule/src/vmm.rs:463`). It is told again for ever, where decision 0029
   has it list and go on (`MCEventLogResync.cfg`).
14. `lock_token` lowers the balance and leaves the withdrawable counter
   (`apps/aseman-node/src/actions/finance.rs:134-138`), where decision 0017 (line 73)
   says that "every withdrawable amount must be within its creature balance"
   (`MCFinanceFindings.cfg`). What is locked still covers it.

Two readings of a native workload within one millisecond have the same instant: both
intervals then start at the same sample and both are charged, which is why
`ChargesWithinUse` is about readings at different instants. And one interval that
cannot be priced ends every pass before the younger ones, for every workload, until
a list prices it.

Four more disagreements need no configuration. `Singleton::run` promises that a
replica which cannot reach the provider has given up its lease
(`singleton.rs:72-74`); when `renew` fails it keeps the lease
(`singleton.rs:117`), which is harmless for exclusion. `serve` forgets the nonce of
an action whose commit could not be reported (`federation.rs:243`), so a later
delivery executes it again, where `contracts/federation/envelope-v1.md:61-63`
says that the request is not executed twice; the variable `doubtful` marks
exactly these requests, and nothing else is ever repeated. A supervisor
`stop` that fails leaves the record in its state without a process
(`aseman-module-runtime/src/lib.rs:865`), so that a ready module without a
process can be activated. And `converge` (`aseman-application/src/vmm.rs:750`) compares the
goal it read before the step with a record that may have been deleted since: the
Deleted event can be appended while the instance runs.

## 5. Proofs

`HolderProofs` holds the proofs of three specifications that are about one thing, who
holds what: it extends `Coordination`, `PublicAction` and `Supervisor`. `VmmHttpProofs`
extends the two that the VMM's HTTP service serves, `EventLog` and `Idempotency`. No
formula mixes the variables of two specifications; the second and third of a proofs
module carry their own name in `Init`, `Next`, `Spec` and the type invariant
(`KeySpec`, `PublicSpec`, `SupervisorSpec`), so that the names stay apart.

The section on the lease (assumptions: `None` is no replica, `Ttl` and `Margin` are
positive, the bounds are naturals) proves each safety property of
`coordination` for any set of replicas. All but the types and the order of the fence
rests on rows that were decided on as they are, so the invariant that holds of every
reachable state is `UpToOverwriting`: `TypeOK`, that the fence an effect was compared with
is not ahead of its token (`AcceptInv`), and `IInv` as long as `blind` has no lease row.
A step that overwrites ends `IInv` for good, and a step that does not must preserve it
although the fence may have been overwritten. `UnexpiredLeaseIsCurrent` is not
inductive: a renewal that is about to write must be known to count from a time
that is not older than the one its lease was last extended from, or it could
shorten the row below what its holder believes (`RenewInv`); a lease with an
older token must be known to have expired (`HeldInv`), because a takeover was
decided with a clock reading that is itself in the past (`PhaseInv`:
`txNow <= clock`); and the fence must not be ahead of the row (`FenceInv`). With
`TypeOK` and `TokensAreNotShared` these make `IInv`. The token order of effects
(`FencedEffects`) needs only `AcceptInv`, so it survives an overwritten lease.

The refinement of `FencedLease` (`LeaseRefines`) needs `TermInv`: the row is the present
term, was not granted in the future and does not last longer than `Ttl` from now
(`RowIsTerm`), a replica believes in terms of its own, and a renewal that is about to
write does not find the row extended further than it will extend it
(`ReplicaHasTerm`). The last is what a renewal whose answer was lost could break: the
row is then ahead of what its replica believes. It holds up to overwriting
(`TermsUpToOverwriting`). `Visible` leaves three kinds of steps
that the abstract lease can see, and one lemma each (`AcquireBegins`, `RenewExtends`,
`ReleaseEnds`, `AcceptIsEffect`) says which step of it they are.

The section on the public keys (assumptions: every request has a digest, the fault
bound is a natural, `Nothing` is no claim and no outcome) proves `EffectIsNotRepeated`
(`ReportedEffectIsTheLast`) and `OutcomeOfTheEffect`. `PublicInv` adds that the request
that executes is alone, holds the claim, which has no outcome, and that an effect was
reported exactly if its execution succeeded (`HolderInv`), and that without a claim none
was reported: a claim is released only after an execution that failed. Executions that
failed with their effect are outside it, and finding 11 is what they do.

The section on the supervisor (assumptions: every module has a kind, `NoModule` is no
module, the generation is bounded) proves all five properties. `RoutesInv` adds that
a process is held only in the states in which `configure` refuses (`ProcessesAreHeld`)
and that a ready module is conformant and its process was never drained (`ReadyIsFit`).

`VmmProofs` (assumptions: `Commands` is a subset of the four commands, `MaxGen` is
positive, `MaxFaults` a natural) proves the five safety properties of `vmm`
for any sets of handlers and workers, each until a workload row, or for
`VerdictsAreFinal` an operation row, is written over. The inductive invariant `IInv` is
`TypeOK`, `SuccessWasObserved` and, each in the part that is about the row under
`RowKept`,

- `CallInv`, `WorkerInv` (part `SnapOK`): a record somebody is about to save
  either was read at the version the row still has, and then it differs from the
  row only as its writer intends, or its version is used up, and the store refuses
  it or writes the row over, which ends `RowKept`;
- `WorkerInv` (parts `PhaseOK`, `PlanOK`, `VerdictOK`): a plan's goal stays the
  goal of its generation, the operation it belongs to has that generation, and a
  success about to be written was observed;
- `RowInv`: no operation is ahead of the row, and the row's own goal is counted
  as satisfied once its observation satisfies it;
- `CancelInv`: a cancellation in flight read a state that may be cancelled;
- `BackendInv`: the backend knows issued generations only.

The proof first shows what any step can do to the two rows (`RowStep`,
`OpsStep`; lemmas `RowShape`, `OpsShape`), then derives from these shapes that
nothing is lost (`Growth`) and that an actor who does not move keeps its
invariant (`CallFrame`, `WorkerFrame`), so that only an actor's own steps remain
(`CallStep`, `WorkerStep`). The action properties follow from the shapes.

`FederationProofs` (assumptions: `None` is no caller or request, at least one
attempt, a positive threshold and lifetime) proves the safety properties and the
refinement. Its `IInv` is `TypeOK`, `NonceGuardsEffect`, `AnsweredIsDurable` and

- `AnswersTellEffects`: a recorded answer, and a handler about to record one,
  belong to an effect, and a reply that carries an answer finds it recorded;
- `Connections`: a busy handler works on a request somebody asked for, and the
  caller that waits for it asked for that request and waits for no other handler.

`NonceGuardsEffect` alone is not enough for the refinement: that an answer implies
an effect needs the first, that it is the answer to the caller's own request the
second. `StepRefines` maps every step to a step of `FederatedCall` or a stutter.

`Sums` proves what the next two need of `SumFunctionOnSet` and `SumFunction`: a sum is
an integer, splits at any element, follows the change of one value, distributes over
addition, is monotone in its values and, of naturals, in its set. The community
modules define a sum by a `CHOOSE` of a recursive function: `FoldExists` shows that there is
one over the subsets of a finite set and `FoldsAgree` that two agree. Induction takes a
set of what is good in place of a predicate (`UpFromZero`, `UpFromEmpty`); it rests on
the least element of a set of naturals, which the library's well-foundedness of `<`
gives without an operator as a parameter.

`FinanceProofs` (assumptions: the parties and amounts are what their comments say, the
documents finitely many) proves the type and the four properties of `finance`, until a
row is written over. It has two halves.

The first is about actions that come one after the other. `IInv` says that every document
is sound: a wallet's withdrawable part is covered by its balance and what it locked, a
hold drew no more than it holds from the withdrawable counter, a pool's amounts add up to
its maximum, each document names its payer, pool or owner until it ends, and the budget is
kept. `AInv` is the audit made inductive, one part per counter (`PoolBooks`, `HeldBooks`,
`PayoutBooks`, `EarnedBooks`, `MoneyBooks`, `BudgetBooks`). The audit alone is not enough:
it must be known that a document that was not settled has paid nobody, and that a
reservation's payer is its pool's and the pool exists (`DocumentsInv`), or a settlement
could credit a wallet for a document that already counts, or give a pool's money back to
somebody else. For every action the proof first says which wallets and documents change
and by what, and then lets each sum follow.

The second is about a slow action that is merged with what overtook it (`NodeInv`): the
rows it read, those it decided and those it finds are each sound and in order. When it
writes over no row that another one changed, every row of the merged state is the
decided one where the action moved it and the found one elsewhere (`Joined`), so every
total is the found one plus what the action moved (`Combined`), and each part of `AInv`,
a relation between totals, carries over. A wallet is where this is not obvious: the
counters of one creature are merged field by field only if nobody else wrote any of
them, which is what `Clash` compares.

`OrderingProofs` (assumptions: `None` is no validator, the asked ones are
validators, the bounds are naturals) proves the four safety properties. `IInv`
adds to them that pending sets are finite, so that a count of zero means none
(`PendingFinite`), and what a check in progress knows (`CheckSound`): the epoch
of an allowed switch is one of the blocks', and what was accepted when the pending
count was zero is finalized. The lemmas show that the order of a prefix of the
blocks never changes (`OrderStable`), only grows (`OrderGrows`), has exactly the
records of the prefix (`OrderKeys`, from the existence of a first copy), and is
determined by its last epoch (`EpochOfOrder`), which is why equal epochs of two
reads at different times mean equal orders.

`MeterProofs` (assumptions: finitely many workloads; `Scale`, `Batch` and the
rates are positive, the other bounds and times naturals) proves the type,
`ChargedSpansDoNotOverlap`, `ReconciliationIsClean` and `ChargesWithinUse`. That
spans do not overlap is not inductive by itself: a
reading that waits to be recorded must be at least as new as every sample of its
workload (`ReadingIsNewest`, which follows from `UsageIsNewest`: the backend's clock
does not go back), and the sample it follows must be the newest before it
(`PreviousIsNewest`), or a new interval could begin inside an old one.
`IntervalsAreSound` says that every interval lies between two samples with none
between them, and `PassIsSound` that the lists and the batch a pass remembers were
published and stored.

For `ChargesWithinUse` the invariant `UseInv` compares sums. What the records of a
workload charge for is what its settled intervals add up to (`ChargesAreSettled`), a
part of what all its intervals do (`Metered`). That this is within the use is kept only
together with what is still to come (`MeteredWithinUse`): the counter's advance since
the newest sample is not metered yet, nor is the reading a pass carries against that
sample, nor its advance since. A unit of use adds at most one to each and a reset
makes each zero (`DeltaUse`), although after a reset the code takes for the advance
what is less than it. Two samples of one instant would break the step from the newest
sample to the reading, which is why the property excepts them.

`VmmHttpProofs`, on the event log (assumptions: the batch limit is positive, nodes follow sets of
topics) proves the type, `SequencesAreUnique`, `NoEventIsMissed` and
`EventsComeInOrder`. Its `Inv` has three layers, by the races each survives. Whatever
is lost, what is stored is in the history and what a stream holds is in order and above
what its node received (`EventsAreSound`, `StreamsAreOrdered`), which gives
`EventsComeInOrder`. Until the counter is written over, it bounds every sequence
(`Counted`), so an append that is not outdated takes a new one; until an event above
the mark is dropped, all that is missing lies below it (`Marked`). Until any race is
lost, what a stream holds and what its node received are together everything the node
selects up to the stream's position (`StreamsAreComplete`). The last is what a truncation
beside a slow stream could break: it moves the mark past the position only if the position
is refused afterwards.

Its section on the keys (assumptions: every request has a digest, the delay
before a claim is shorter than the ttl and the ttl no longer than the retention,
`None` is no row and no answer) proves `OneHandlerAtATime` and `ReplaysAreFaithful`
for any requests, times and faults, while nothing has overrun and no decision was
overtaken. Neither is inductive. `KeyInv` adds that the claim
of a worker is younger than the ttl and has no response (`WorkerInv`), so that a
takeover, which needs an older one, a purge, which needs a still older one, and a new
claim find nobody at work; and that the first answer a client got is the one stored
(`FirstInv`), so that completing a claim without a response is giving the first answer.
A request about to take over, and a purge about to delete, whose read is still true find
the row as they decided on it (`TakerInv`, `PurgeInv`). `KeyAges` shows that a worker
loses its claim in no other way than by an overrun or an overtaken decision.

Every safety property and action property of the passing runs is proved, with the same
exceptions as in the runs, and so are the refinements of `FederatedCall` and
`FencedLease`. Only model-checked: the liveness properties
(`AbandonedLeaseIsTaken`, `EveryOperationFinishes`, `RecordConverges`,
`EveryCallReturns`, `PendingDrains`, `EveryIntervalSettles`, `EveryEventArrives`,
`KeyIsAnswered`, `OutcomeComes`), because they are under fairness and the prover does
not reason about `ENABLED`; and the violated properties, which are refuted by one
behaviour.

## 6. Not modelled, and the plan

Left out of the modelled components: data-plane operations (`submit`, `run`,
files, logs, HTTP forwarding; one that was running when the worker died is run
again), `If-Match` refusals, paging over many workloads and operations (the
open-operation check reads one page of 200), the runtime plugins behind `run_vm`, all of
the Nomad backend but `usage`; peer descriptors and key rotation in federation;
quotes, catalogue and node registration in finance, and two slow actions at once; voting, fast
sync, membership and governance in the hashgraph, and `adopt` on the incoming
provider; artifact verification and permission receipts in the supervisor. The
realtime outbox and retention have no caller in the repository besides the tests,
and storage migration runs alone on a stopped node and starts over from an empty
target. Below the engine's `update`, `upsert` and `delete` (section 1) the storage
provider is assumed to be a transactional store that may answer with a conflict or an
error, before or after it committed; RocksDB, Raft, Postgres,
TLS, JSON, the WASM, JavaScript, Docker and Firecracker engines are I/O or
third-party, and the storage client is generated. These make up most of the
repository's lines.

In this order:

1. `NodeDesired`: the node's side of desired state, composed with `VmmService` in
   place of `sent`.
2. `adopt` and `accept_finalized` on the incoming provider beside `Ordering`.
3. An abstract specification of the workload row (a sequence of commands), with
   refinement.
4. `Meter` composed with `Finance`: a settlement as a payment.
5. Capability grants and identity epochs as operators with a reference definition.
