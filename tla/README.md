# Verification of the Canton TypeScript SDK

TLA+ modules, TLC configurations and TLAPS proofs kept beside
`canton-typescript-sdk`. Paths of the form `src/...` below are relative to the
repository root.

## 1. The system

The SDK is a client library. Most of it is request mapping around single calls
to a Canton participant; the parts that keep state across calls, and that can
therefore go wrong in ways a unit test hardly reaches, are listed here.

| Component | State | Operations | Interacts with | What makes it correct |
|---|---|---|---|---|
| `GrpcContractCache` (`src/query/grpc/grpc-contract-cache.ts`) | `inflight` map of populate promises; per call the base snapshot, pruning and end offsets, page position, collected entries | `cacheContracts`, `readSnapshotAsync`, `inspectContractsCacheAsync`, `invalidateContractsCache` | the store, `StateService`, `UpdateService` | stored rows are the ACS at their offset; one populate per key; a populate is as fresh as its start; an invalidation is not undone; reads are unexpired; calls return |
| `MemoryQueryCache` (`src/query/cache`) | key to value and expiry | `getAsync` (deletes expired entries), `setAsync`, `deleteAsync` | the contract cache | an expired value is never returned |
| `GrpcQuerySnapshotReader` (`src/query/grpc/grpc-query-snapshot-reader.ts`) | `historyCache` window; per call the range, page position, budget | `readHistoryAsync`, `readActiveContractsAsync` | `StateService`, `UpdateService` | a history answer is complete or the read rejects; the window only grows and stays in budget |
| `GrpcQueryClient` (`src/query/grpc/grpc-query-client.ts`) and the in-memory evaluator | warned relations | `readDatasetAsync`, `execute` | cache, snapshot reader, package reader | the plan never changes the answer; no query falls between the sources; a dataset's parts belong to one offset |
| `PqsQueryClient`, `PqsPool`, `CantonManager` (`src/query`) | readiness promise; disposed flags | queries, `disposeAsync` | PostgreSQL, `CantonClient` | the schema is validated once, a failed check is not pinned; the channel closes after the pool; everything settles |
| `ExternalPartyActivationClient`, `waitForPartyHostingAsync`, `pollUntilAsync` | none between calls; per call start time and last state | `activateAsync`, polling | topology services of several participants | success means active or hosted; every co-signer has signed before the second wait; a timeout is only reported when it is one; ends in time |
| Decentralized party lifecycle (`src/services/party-management`) | prepared transactions, signing requests | prepare, sign, finalize | topology write service, signers | a submission carries exactly the signatures the thresholds ask for, each made for its role |
| Command submission (`src/services/commands`, `src/transports`) | disposed flag; per call command and submission ids, signatures | submit, submit for a transaction, prepare, execute, dispose | participant, signers | committed once under a command id; signed by every acting party; calls settle |
| Active contracts traversal (`src/services/state`), `OperationDeadline` | per generator the pinned offset, tokens, counts; the least remaining budget | `next`, `return` | `StateService`, consumer | one whole snapshot or an error; one budget for all requests |
| Replay loading (`src/debugger/replay`) | per load the pending and hydrated contracts; per resolution the pending packages and known DARs | load, resolve | update, event, contract and package services | the environment is exactly what the update reaches; the packages are closed under imports but for entries passed over, and their sources agree |
| Replay session (`src/debugger/session`, trace of the loader) | the trace; current step | step into/over/out/back, continue, jump, dispose | evaluator, loader | the displayed stack is the running one; stepping over or out skips exactly the callee |
| Campaign runner and scheduler (`src/testing/campaign`) | executed actions, failures, verdict | one candidate's lifecycle; slots from rolls | user hooks | cleanup exactly after a successful setup; the verdict and its reason survive whatever throws; nothing runs after a failure; targets get their share |
| Other transport methods, service clients, DTOs, mappers, generated code, Daml-LF semantics, interface generator | none, or a disposed flag | one call each | participant | field-by-field mapping |

The hard behaviour is at the awaits: each lets other calls, the ledger, pruning,
the clock and disposal move. `PROJECT.json` lists the hazards one by
one at their source lines, with the properties that cover them.

## 2. Modules

| Module | Models | Notes |
|---|---|---|
| `Participant` | the Canton participant as the read path uses it (external) | the ledger is the residence of each contract, `enter` and `leave` offsets, so the ACS at an offset and the events of a window are set expressions; transactions, reassignments and pruning are actions |
| `QueryCacheStore` | `MemoryQueryCache`, or a store that keeps expired values | one key |
| `DeltaPatch` | outcome of the delta fold, as sets | shared by the two modules below |
| `DeltaFold` | the fold loop of `tryDeltaRefreshAsync`, entry by entry | `live` is a plain replay, carried along for comparison |
| `GrpcContractCache` | the cache, all operations, any number of callers and instances on one key | extends the three modules above |
| `ContractSnapshots` | abstract specification: one published snapshot, absent or a complete ACS, never going back | refined by `GrpcContractCache`, which states the mapping (`Abstract`) |
| `MCGrpcContractCache`, `MCQueryPlanner` | instances for TLC: cache assignment, the queries tried, symmetry | |
| `MCReads`, `MCCampaign`, `MCParties`, `MCClient`, `MCReplay` | instances that hold two or three components side by side | section 3 |
| `HistoryReader` | `readHistoryAsync` with the incremental window, any number of concurrent reads | extends `Participant` |
| `QueryPlanner` | `readDatasetAsync`: which rows a query is answered from, and the evaluator that runs on them | predicates and includes are trees of any depth, the recursions over them functions |
| `CampaignRunner`, `CampaignScheduler` | `runCampaignCandidateAsync`, hook by hook; `scheduleCampaignSlots` | stand alone |
| `PartyHostingWait` | `waitForPartyHostingAsync` over `pollUntilAsync` | |
| `ExternalPartyActivation` | `activateAsync`, several calls over one topology | |
| `DecentralizedParty` | request, preparation, online and offline signing, finalization | |
| `PqsManager` | readiness and execution of PQS queries, disposal of the manager | |
| `CommandSubmission` | the pipeline over a gRPC or JSON transport, with deduplication at the participant | |
| `ActiveContractsTraversal` | `getActiveContractsPagesAsync`, several generators on one `OperationDeadline` | |
| `ReplayHydration` | loading an update and the contracts it reaches | |
| `ReplayArtifacts` | `ReplayArtifactResolver.resolveAsync` | |
| `ReplaySession` | the trace the evaluator emits, the loader's fold of it, the session store | |
| `ParticipantProofs`, `GrpcContractCacheProofs` | theorems about the cache and what they use of the ledger | section 5 |
| `ReadsProofs` | theorems about `HistoryReader`, `DeltaFold`, `ActiveContractsTraversal` | |
| `QueryPlannerProofs` | theorems about the query plan | |
| `ClientProofs`, `ReplayProofs`, `PartyProofs`, `CampaignProofs` | theorems about `PqsManager` and `CommandSubmission`; `ReplayHydration`, `ReplayArtifacts` and `ReplaySession`; `PartyHostingWait`, `ExternalPartyActivation` and `DecentralizedParty`; `CampaignRunner` and `CampaignScheduler` | |

### How GrpcContractCache corresponds to the code

An action runs from one `await` to the next. `pc[p]` is the await caller `p` is
suspended at, and the other per-caller variables are the locals of the async
functions. The promise of a populate is named by the caller that started it:
`inflight[c] = p` is the map entry, `awaiting[q] = p` is a pending
`await promise`, and `Settle` hands the outcome to every waiter.

| Code | Actions |
|---|---|
| `cacheContracts` | `StartPopulate`, `JoinPopulate`, `ReturnJoined`, `ClearInflight` |
| `populateAsync` | `ReadBase`, `FallBack` |
| `tryDeltaRefreshAsync`, `readDeltaWindowAsync` | `ReadPruned`, `ReadEnd` (refuse, noop, window), `DeltaPage`, `DeltaLastPage`, `DeltaFails` |
| `fullRefreshAsync`, `writeSnapshotAsync` | `FullFirstPage`, `FullNextPage`, `FullFails`, `WriteSnapshot`, `StoreFails` |
| `readSnapshotAsync` | `ReadEntry`, `ReturnRead` (`ReadResult`) |
| `inspectContractsCacheAsync` | `InspectEntry`; the ledger end it awaits afterwards is only reported, so the one step stands for both |
| `invalidateContractsCache` | `StartInvalidate`, `DeleteEntry` |

`startEnd` and `floor` are history variables: the ledger end when a call (or
the populate it joined) began, and the highest ledger end at which a completed
invalidation had begun. They are read by properties only.

Operators commented as a *slip* are mistakes the code could plausibly contain;
no specification uses them. They exist to show that each property notices.

### How QueryPlanner and CampaignRunner correspond to the code

`readDatasetAsync` is one step per outcome: `ServeCached` (the cached branch),
`RefuseReplay` and `Replay` (the history branch), `ServeCatalog`, and
`RequireCache` (the error at its end). `RequiresHistory`, `RelationClosure` and
the definitions under them follow the functions of the same names. `Matching`,
`Shape` and `Filtered` follow the evaluator, as a set of rows per predicate and
a shaped row per include list. The code hands the relation a predicate or include
is about down its recursion; here both carry it (`relation`, `from`). The state is
the ledger the query meets (which types the contracts have, which are active, exercised, and meet a
scalar condition), the cache being warm and the `walkHistory` option.

`CampaignRunner` suspends at every hook; `at` names the hook, and each action
has a disjunct for the hook resolving and one for it throwing. `opened`,
`closed` and `trouble` are history variables for the properties.

### How the other modules correspond to the code

* `PartyHostingWait`, `ExternalPartyActivation`: an action per await. A listing
  is evaluated at a moment between request and answer (`Listing`, `AnswerActive`,
  `AnswerProposal`), timers fire late up to a bound, and topology changes are
  actions of their own. Because the two requests of a look are evaluated
  separately, a look that straddles an activation reports neither a proposal nor
  an active mapping although one of them existed throughout;
  `ActivationTruthful` therefore speaks of what each request was told.
* `DecentralizedParty`: `Construct`, `Prepare`, then online a `Sign` per signing
  request and `AllSigned`, offline any collection of signatures; finalization is
  `Accept`, `Complete`, `Allocate`. A key stands for its fingerprint.
* `PqsManager`: a check is named by the query that started it. `Begin` joins or
  starts one, `Clear` is the rejection handler, `Resume` continues after the
  await, `Dispose`, `PoolEnds` and `DisposeResumes` are the three parts of
  `disposeAsync`.
* `CommandSubmission`: `BeginCall` takes a call to its first await, `Prepare`,
  `Prepared`, `Sign` and `Send` through the interactive path; `Deliver` is the
  participant, `Abandon` a deadline or a broken connection, after which the
  submission is still on its way.
* `ActiveContractsTraversal`: the consumer's `next()` is one of `Completes`,
  `RefusesToken` and `Asks`, up to the request; the answer is `Receives`, up to
  the yield. A page token is the number of the page it leads to.
* `ReplayHydration`, `ReplayArtifacts`: the two worklists, an action per request
  and per turn. Neither shares state with another call. `ReplayArtifacts` takes a
  DAR as what the participant lists it for (`holds`) and, apart from that, what
  reading it yields: the packages the SDK can decode, which of those are debug
  locations, the imports of the source map and of the decoded packages, the
  package described, a fingerprint. An entry that cannot be decoded is passed
  over, as `readPackageGraph` does (line 315); only a request, the container or
  the source bundle can fail (`Fails`).
* `ReplaySession`: `open` is the evaluator's recursion, the activations of frames
  under way with the expressions open in each; `Emit` is the loader's fold of one
  trace step, and the actions after `Load` are the session store's.
  `plain` is false once a closure was applied above its own open frame or an
  exception was caught; the stack properties are stated for the other traces,
  and section 4 says what happens in the former.

### Abstractions

* One cache key. Keys are independent: `inflight`, the store and the endpoint
  scope are per key.
* A row is its contract id. `mapGrpcQueryRelationFragment`, sorting and the
  creation metadata follow the id. Row and page validation is abstracted to its
  verdict: at any request the attempt may fail (`DeltaFails`, `FullFails`),
  which covers malformed offsets, wrong boundaries, repeated tokens, exercised
  events and `DELTA_MAX_PAGES`.
* A contract resides in the ACS at most once. A contract that is unassigned and
  assigned again counts as another contract.
* The store write and the settlement of the populate are one step. Between the
  two a caller can only join or wait for the promise, as it can in the state
  where the populate has settled and is still registered.
* In `QueryPlanner` a contract stands for its row, its creation and its
  exercise, if any; scalar conditions are named sets of rows. Ordering, paging,
  party filters and the transactions and events relations are left out (they
  always need history), and the ledger does not move within one query.
* In `CampaignRunner` a setup hook that resolves yields a context (one that
  resolves to `undefined` is not modelled), the optional hooks are present, and
  the five outcomes that always fail a candidate are one.
* In `PqsManager` the pool never has more queries than connections: `pg` drops
  queries still queued for a connection when it ends. Its `end()` does not fail,
  which it does only on a second call that `PqsPool`'s flag prevents.
* In `ReplaySession` an expression is what steps it emits; source positions are
  the decision whether a step is retained.
* In `CampaignScheduler` weights are integers and rolls stay small; slots do not
  depend on each other.
* Values under the key that this cache did not write (another version, another
  scope, corrupted rows) read as absent in the code and are not modelled.

## 3. Runs

| Run | Instance | Checks |
|---|---|---|
| `cache_exact` | 2 callers, 1 cache on a store that may fail, 2 contracts, offsets to 3, gap budget 2, update budget 1 | `TypeOK`, `SnapshotConsistent`, `FreshResult`, `SingleFlight`, `InvalidationHolds`, `ImplementsSnapshots` |
| `cache_shared` | 2 callers with a cache each, one store, 2 contracts, reassignments | `WrongOnlyAboutMoves` |
| `cache_returns` | 2 callers, a failing store that keeps expired entries, a clock that reaches the expiry, fairness | `ServedReads`, `CallsReturn` |
| `query_plan` | 2 contracts, 2 types, 2042 queries with conditions up to three levels deep, cold or warm cache, history allowed or not | `PlanSound`, `AnsweredWhenEnabled` |
| `reads` | history: 2 reads, 2 contracts, offsets to 3, 2 pages, 2 updates | `HistoryComplete`, `WindowInBudget`, `WindowOnlyGrows` |
| | fold: 3 ids, every base, every window of up to 4 entries | `PatchIsReplay`, `FoldMatchesSets` |
| | traversal: 2 generators, 4 snapshots of up to 4 pages, limits of 3 pages and 3 contracts, a budget of 3 | `WholeSnapshot`, `RequestsInBudget` |
| `campaign` | runner: depth 3, candidates of up to 4 actions | `VerdictExact`, `CleanupPaired`, `NothingAfterTrouble` |
| | scheduler: up to 3 targets, weights to 2, two rounds of rolls | `WeightsShared` |
| `parties` | hosting: timeouts 1, 2, 4, intervals 0, 1, 3, timers up to 1 late, fairness | `WaitTruthful`, `OperationsEnd` |
| | activation: 2 calls, 2 co-signers, 2 topology transactions, timeouts 0 and 1, fairness | `ActivationTruthful`, `AllSignedBeforeWait`, `OperationsEnd` |
| | decentralized party: 3 keys, up to 2 owners and 2 party keys, every threshold | `FinalizationExact` |
| `client` | manager: 3 queries, 2 disposals, fairness | `ValidatedOnce`, `FailureNotPinned`, `PoolFirst`, `AllSettle` |
| | submission: 3 calls for one request, 2 parties, fairness | `CommitsOnce`, `SignedByAll`, `AllSettle` |
| `replay` | hydration: 3 contracts, every reference graph, fairness | `EnvironmentExact`, `AskedOnce`, `LoadingEnds` |
| | artifacts: 3 packages, every pair of DARs, 1 or 2 required packages; or one package held and not shown, and 1 required; fairness | `ClosureComplete`, `SourcesAgree`, `LoadingEnds` |
| | session: 3 frames; 15 steps, or 9 of which any is retained or not | `StackIsControl`, `SkipsExactlyTheCallee` |
| `cache_reassignment` (violation) | 1 caller, reassignments | `SnapshotConsistent` fails: section 4 |
| `cache_expired` (violation) | 1 caller, `MemoryQueryCache`, a clock | `ExpiredBaseIsUsed` fails: section 4 |
| `query_plan_nested` (violation) | conditions on exercises below a step to active contracts | `PlanSound` fails: section 4 |

**Instances side by side.** The last five passing runs hold components that
share no variable: `MCParties`, for example, extends three modules, and a
constant-valued variable says which of the three runs while the others rest in
one fixed initial state. Nothing a resting component does could change what is
true of the running one, so each is explored completely, without a product of
state spaces that would say no more. `EXTENDS` keeps the components' own
definitions; the fairness of each component's specification is restated for its
steps.

**Bounds.** Three offsets let a refresh meet an update before its base, inside
its window and after its end offset, with a page boundary inside the window;
gap budget 2 and update budget 1 make every refusal reachable. Two contracts
let one be created and another archived in one window, and let a download be
split over pages. Two callers give every pair of calls; a caller whose call has
returned makes the next, so an invalidation also meets the populate after the
one it waits for. `cache_shared` keeps offsets at 2 because two independent
populates multiply the states. Each bound is a constant, and the theorems of
section 5 hold for all values. In the fold four entries hold every pair of
creation and archival of two ids in every order. In `query_plan` two contracts give an active and an
archived one of the same type or of different types, which is all a quantifier
can tell apart; the queries combine every connective with every scalar condition
and follow relations in both directions. In `campaign` three actions give a
first, a middle and a last one.

The timeouts and intervals of the two waits give an interval below, at and above
the timeout, and late timers a wake-up on either side of the deadline. Two calls
of `activateAsync` let the second meet what the first left half signed. Three
keys give a key in both roles and one in neither. Three queries give one that
starts a check, one that joins it and one that begins after it failed; two
disposals are the second that returns early. Three calls give a submission that
is abandoned, its retry, and the retry's retry overtaking both. The four
snapshots of the traversal are one that fits both limits, one with a contract too
many, one with a page too many, and one short enough for a page to be read
twice. Two DARs that share a package suffice for every order in which one is
met through the other, and one package that is not shown for the result to miss
it. In a session a call whose callee applies a closure of its
caller takes 15 steps to open and close; `Room` keeps enough steps to close what
is open, so that no trace is cut off. Deadlock is checked for the cache and the
query planner, which never stop; what the five composite runs hold ends.

**Symmetry.** In the cache, contracts and callers are interchangeable: no
definition tells them apart, and `OneCache` and `CacheEach` commute with renaming
callers. In `reads` contracts, concurrent reads and generators are. The liveness
runs declare no symmetry; where their components have one, initial states that
differ by a renaming are left out instead: the keys of a party are numbered as
the request names them (`KeysNumbered`), one fingerprint is fixed and a package
that is not shown belongs to the first DAR (`ArtifactsStart`), the first party
acts (`SubmissionStart`), and calls are numbered in the order in which they begin
(`IsNext`). `ImplementsSnapshots`,
`WindowOnlyGrows` and `RequestsInBudget` have no fairness conjunct, so symmetry
is sound for them.

**Fairness** (`FairSpec`). Weak fairness of `Progress(p)` for every caller: a
request is answered or fails (gRPC calls carry deadlines), the event loop runs
every ready continuation, and a participant does not hand out page tokens with
empty pages forever. Calls (`Call(p)`), the ledger and the clock are not fair.
`WaitSpec` and `ActivationSpec`: requests are answered or fail, timers fire and
time passes; nothing makes a hosting or a mapping appear. `FairManagerSpec`,
`FairSubmissionSpec`: statements, requests and signers answer or fail, the event
loop runs what is due, and the pool ends once its statements have; nobody has to
query, submit or dispose. `FairHydrationSpec`, `ArtifactSpec`: the one activity
under way goes on.

## 4. What the runs show

* Without reassignments the cache implements `ContractSnapshots`.
* **Reassignments** (`cache_reassignment`). `readDeltaWindowAsync` asks for
  `includeTransactions` only, so reassignments never arrive and the documented
  fall-back on them cannot trigger; the patched rows then miss or keep moved
  contracts. `WrongOnlyAboutMoves` shows the damage is confined to them.
* **Expired bases** (`cache_expired`). `MemoryQueryCache` deletes an expired
  entry on the very read that would use it as a delta base, so with the SDK's
  own store every refresh after expiry is a full download, against the option's
  documentation.
* **Nested conditions** (`query_plan_nested`). Once a step to `contracts` is
  proven active, `predicateRequiresHistory` and `includesRequireHistory` look no
  further down. A `contractTypes` query with `contracts: { some: { active: true,
  exercises: ... } }` is then answered from a dataset without exercises and
  without incomplete edges, so it is silently wrong. For the queries of
  `query_plan`, whose conditions below such a step stay on the contract and its
  type, the plan is right.
* A submission is committed once per command id, but only a caller who sets the
  id gets one commit for all repetitions: without it each direct attempt is a
  command of its own (`CommitsOnce` says which).
* Across cache instances that share a store, monotonicity and
  `InvalidationHolds` are not promised and not checked: the last writer wins.

Modelling met further places where the code and a document of the repository
differ. The models follow the code, and each is left as the code has it:

* Owner and party keys are each checked for uniqueness, not against each other
  (`create-decentralized-party-request.ts:75`), and the online method asks the
  first key with the fingerprint, owners first. The design requires fingerprints
  to be unique across both sets
  (`docs/superpowers/specs/2026-07-23-decentralized-party-lifecycle-design.md:104`). Both requests are
  still signed and told apart (`FinalizationExact`).
* The confirmation threshold defaults to 0 and is not compared with the
  confirming hosts (line 86); the design (line 107) says it is positive and no
  greater than their number.
* `prepareCommandAsync` and `executePreparedCommandAndWaitAsync`
  (`grpc-transport.ts:1619`) lack the disposed guard of the other methods. They
  fail on the closed channel.
* One signer signs for any number of acting parties (`grpc-transport.ts:1544`),
  where `DOCUMENTATION.md:1448` says "exactly one `actAs` party"; a unit test
  agrees with the code.
* Stepping out stops inside a callback the callee runs, because the displayed
  stack loses the callee's frame there (`ledger-replay-session-loader.ts:748`);
  stepping over anything but a call is stepping into. The debugger's design
  describes both otherwise.
* A resolution may succeed without a required package or an import. The
  participant lists a DAR for it, but its archive entry cannot be decoded (or is
  a debug-locations package), is skipped in silence
  (`replay-artifact-resolver.ts:315`, and 243 to 247), and the source map speaks
  of another package or the DAR was analysed for another one; the skipped entry's
  own imports are not followed either. The implementation plan has the resolver
  walk the imports "until the package closure is complete"
  (`docs/superpowers/plans/2026-07-10-daml-debugger-implementation-plan.md:326`).
  `ClosureComplete` states what remains: nothing is missing for another reason.
* A JSON call that the participant rejects with an error status resolves like an
  accepted one when the body is JSON: `json-http-client.ts:58` does not look at
  `response.ok` (`Rejection`). No property relies on the outcome of a call.
* A package met inside a DAR chosen for another package is not looked up
  (`replay-artifact-resolver.ts:78`), so a DAR that contradicts it stays unread;
  with the required packages in another order the same participant is refused.
  What was looked up does agree (`SourcesAgree`).

## 5. Proofs

Each theorem holds for every value of the constants its module's named
assumptions allow: `ParticipantAssumption`, `StoreAssumption` and
`CacheAssumption` for the cache, and one assumption in each other module, named
after it (`ReaderAssumption`, `TraversalAssumption`, `SubmissionAssumption` and so on). They say
of which type the constants are and that the placeholders (`NoCall`,
`NoPackage`, `Stranger`) are none of the values they stand beside. Three say more:
every snapshot a participant holds has a page, if an empty one
(`TraversalAssumption`), packages and DARs are finitely many
(`ArtifactAssumption`), and the predicates and include lists of a query are trees
of finite depth that follow edges of the schema between contracts, contract types
and exercises, each part about the relation its parent leads to
(`PlannerAssumption`); the normalizer rejects whatever is no edge of the schema. A run of section 3 checks the same definition on
a small instance, apart from the four type invariants `HistoryTypeOK`,
`FoldTypeOK`, `ManagerTypeOK` and `HydrationTypeOK`, which only the proofs use.
TLC evaluates the assumptions on those runs.

| Theorem | States | Further assumption |
|---|---|---|
| `TypeCorrect` | `TypeOK` | |
| `RowsCorrectUpToMoves` | `WrongOnlyAboutMoves` | |
| `RowsAreTheAcs` | `SnapshotConsistent` | no reassignments (`~MultiSynchronizer`) |
| `ReadsServeGoodRows` | `ServedReads` | |
| `PopulatesAreShared` | `SingleFlight` | |
| `ResultsAreFresh` | `FreshResult` | |
| `InvalidationsHold` | `InvalidationHolds` | one cache instance on the store (`OneInstance`) |
| `CacheImplementsSnapshots` | `ImplementsSnapshots` | both of the above |
| `FoldTyping` | `FoldTypeOK` | |
| `FoldIsReplay` | `PatchIsReplay` | |
| `FoldComputesSets` | `FoldMatchesSets` | |
| `ReaderTypeCorrect` | `HistoryTypeOK` | |
| `HistoriesAreComplete` | `HistoryComplete` | |
| `WindowsGrow` | `WindowOnlyGrows` | |
| `WindowsStayInBudget` | `WindowInBudget` | |
| `ManagerTypes` | `ManagerTypeOK` | |
| `ReadinessValidatedOnce` | `ValidatedOnce` | |
| `ReadinessNotPinned` | `FailureNotPinned` | |
| `PoolClosedFirst` | `PoolFirst` | |
| `HydrationTypes` | `HydrationTypeOK` | |
| `EnvironmentIsExact` | `EnvironmentExact` | |
| `ContractsAskedOnce` | `AskedOnce` | |
| `TraversalsAreWhole` | `WholeSnapshot` | |
| `RequestsStayInBudget` | `RequestsInBudget` | |
| `SubmissionsCommitOnce` | `CommitsOnce` | |
| `SubmissionsAreSigned` | `SignedByAll` | |
| `ResultsAreClosed` | `ClosureComplete` | |
| `ResultsAgree` | `SourcesAgree` | |
| `StacksAreControl` | `StackIsControl` | |
| `StepsSkipTheCallee` | `SkipsExactlyTheCallee` | |
| `WaitsTellTheTruth` | `WaitTruthful` | |
| `ActivationsTellTheTruth` | `ActivationTruthful` | |
| `AllSignBeforeTheWait` | `AllSignedBeforeWait` | |
| `FinalizationIsExact` | `FinalizationExact` | |
| `VerdictsAreExact` | `VerdictExact` | |
| `CleanupsArePaired` | `CleanupPaired` | |
| `NothingRunsAfterTrouble` | `NothingAfterTrouble` | |
| `WeightsAreShared` | `WeightsShared` | |
| `PlanIsSound` | `PlanSound` | nothing below a step to active contracts asks for history (`StepsStayFlat`) |
| `QueriesAreAnswered` | `AnsweredWhenEnabled` | the same |

The further assumptions are needed: `cache_reassignment` violates the first one's
property without it, with two instances the last writer wins, and
`query_plan_nested` violates `PlanSound` without `StepsStayFlat`. That the queries
of `query_plan` meet it and those of `query_plan_nested` do not is an assumption
of `MCQueryPlanner`, so TLC evaluates it in both.

**Rows** (`GrpcContractCacheProofs`). `TypeOK` is inductive together with `BasePresent`: a delta
attempt always has a base. `RowsInv` strengthens `WrongOnlyAboutMoves` to all
the places a snapshot passes through: the entry, the bases held by callers
(`BaseInv`), the drafts about to be written (`DraftInv`), a download in progress
(`DownloadInv`: a part of the ACS at the pinned offset) and a delta window
(`WindowInv`: the entries collected so far are exactly the events of
`(base.at, low]`, with `low` below an end the ledger has reached). Without
`WindowInv` the last page could not be shown to complete the window. Ledger
steps keep all of it because the past does not change (`LedgerStable`,
`AnswersStable`), pages because adjoining windows join (`WindowsJoin`), and the
patch because of `PatchIsRight`. `RowsInv` was checked by TLC on the bounds of
`cache_shared` before it was proved.

**Concurrency** (`GrpcContractCacheProofs`). `FlightInv` ties the inflight map to
the calls: a populate under way or settled but not cleared is the registered one
of its cache, what is registered is such a populate, and only it is waited for.
`SingleFlight` follows at once, but is not inductive: nothing in it stops a late
`clearInflight` from unregistering a successor. `FreshInv` adds that every
offset a populate works towards is at least the ledger end at its start, and
that a caller who joins takes over the start of the populate it joined.
`OrderInv`, for one instance, adds that a running populate started after the
last completed invalidation or is being waited for by it, and that the stored
entry is no newer than the start of any running populate; without the latter a
populate's write could not be shown to move forward.

**Refinement** (`GrpcContractCacheProofs`). `CallSteps` reduces every step of a call
to three cases: the entry is kept, removed, or written from a draft.
`WritesPublish` shows from the invariants above that a written draft is the ACS
of a reached offset no older than the entry, a `Publish` of `ContractSnapshots`.

**Fold** (`ReadsProofs`). Added ids are not in the base, removed ones are
(`FoldInv`), so the accepted rows are the replay's. `SetsInv` says what the two
collections hold in terms of the entries seen so far; `FirstOfItsKind` uses that
a ledger creates and archives an id at most once.

**History** (`ReadsProofs`). `HistoryInv` says of every place updates pass
through (the shared window, the window a call holds, the pages it has read, its
answer) that they are all visible updates of their range; `Ahead` keeps the
ranges adjoining. `HistoryComplete` alone says nothing about a read under way.
`BudgetInv` bounds the held window together with the pages read on top of it,
as `RoomFor` does, because the union is what is retained.

**Manager** (`ClientProofs`). `MemoInv`: the memo is exactly the one check
that runs, has failed unhandled or has succeeded; `ValidatedOnce` does not say
that the memo survives success, which is what keeps a later query from checking
again. `WaitInv` says a query waits for a check that had not failed when it
began, `GateInv` that statements follow a success. `CloseInv` ties the flag, the
pool, the statements under way and the channel together, and keeps the disposal
that will close the channel in sight.

**Hydration** (`ReplayProofs`). `Found` is what is hydrated, pending or
being hydrated. `CoverInv`: it contains whatever the update and the hydrated
payloads name; `LeastInv`: it is contained in every self-contained set. When
nothing is pending, both together are `EnvironmentExact`. `AskInv` says that a
contract that was asked for is hydrated or being hydrated unless the load
failed, so it is never taken up again.

**Traversal** (`ReadsProofs`). `WholeSnapshot` speaks of the end only. `WalkOK`
says where a generator is: it has seen the tokens of the pages `2..pageAt` and
no other, the offset is pinned once a page has arrived and is the caller's if
one was given, and what was handed out is the prefix of that snapshot that ends
before the page under request. The exact set of tokens is what makes the check
for a repeated one refuse every page but the next: a token the set missed could
be followed a second time. `DeadlineInv` bounds the remaining budget
together with the latest reading of the clock by the timeout, or the budget is
used up: this survives a clock that is set back.

**Submission** (`ClientProofs`). `CallOK` says of each await which request and
transaction the call carries and how far its signatures are; `RecordOK` says the
same of whatever is on the wire or committed, which no call may remember any
more, and that its command id is the one `CommandId` gives. Committed ids are
distinct because the participant deduplicates, and `CommitsOnce` follows because
two commits of a named request, or of one transaction, would have one id. A call
that has begun never changes its request, so records of abandoned calls stay in
order (`RecordKept`).

**Artifacts** (`ReplayProofs`). `NeedsInv`: whatever is required or imported by a
chosen DAR has been seen or waits in the worklist, and whatever was seen, apart
from the package under way, is in the result or was passed over inside a DAR of
the result (`PassedOver`), which no later turn undoes (`PassedOverKept`).
`KnownInv` says what the maps of DARs may claim: a DAR counts as analysed only
with everything it shows, and the DAR selected for a package is one the
participant listed for it. A turn that settles on a DAR therefore adds its package
to the result, or the package is one the DAR holds and does not show
(`AdoptKeeps`). `Compared(d)` says that the fingerprint
remembered for the package `d` describes is that of `d`; `PrintInv`, that every
DAR listed for a package that was looked up has been compared or is still in the
listing. `SourcesAgree` is about pairs of DARs and follows because both were
compared with one entry, which is never overwritten (`PrintsKept`). The lemmas
on `ToSet` (`SeqsHaveTheirSet`, `SetOfTail`, `SetOfConcat`) carry the worklist
through its turns.

**Session** (`ReplayProofs`). Both properties are about plain traces (`plain`), and
`SessionInv` says nothing of the others. The loader sees frames, not activations;
`DepthInv` says why frames are enough: none is under way twice, and the loader's
counts for a frame are the expressions open in its activation and whether it is a
call, so `ExitPops` takes a frame off exactly when its activation ends. `ShownInv`
allows for an applied closure or a choice that has emitted nothing yet: the
loader's stack may lack it, at the top only, and the next step pushes it
(`PushTop`). `RecordsInv` is then `StackIsControl`. Stepping compares depths
only, while `SkipsExactlyTheCallee` speaks of activations: `PlacedInv` says that
an activation is at one place of the recursion in every step that shows it, so a
shallower step cannot show the one that was left, and a step as deep or deeper
cannot be a caller's. `CursorInv` has a loaded session stand on a retained step;
it needs that an effect is always retained.

**Waits** (`PartyProofs`). `WaitKnows` follows a read: while it is unanswered,
`hostedSeen` and `missing` already hold what is true now, so that the answer,
given at any moment, was true during the read; a sleep follows a look without a
match and ends at most one interval and one timer's lateness after it, and the
last sleep is cut at the deadline. `LookInv` is the same for the two requests of an
activation's look, each with a moment of its own. `SigningInv` says that the
clients before the one being asked have signed the hash the call works with;
the last of them makes it `AllSignedBeforeWait`.

**Decentralized party** (`PartyProofs`). The step needs little
(`FinalizationInv`: the request was valid, and an online call finalizes with its
own signatures); the argument is in `CompleteIsAuthorized`, which compares the
two ways of counting. The code counts signing requests per transaction and role
against a threshold, the topology counts distinct keys; they agree because a role
has one request per transaction and key (`OneRequestPerOwner`, a bijection), and in
the converse direction only where no key has both roles, which is the condition
`FinalizationExact` states.

**Campaign** (`CampaignProofs`). `JudgeInv` carries the verdict from hook to hook:
`passed` is the absence of trouble everywhere, not only at the end, a failure is
always on record, and no hook that leads to an action is reached without
`passed`. `PairInv` says at each hook whether the context is open.
`NothingAfterTrouble` follows from `JudgeInv` alone. `WeightsShared` says something
of every roll, so its invariant is only the type of what the scheduler is given
(`SchedulerTypeOK`); the work is in the operators. The weights and the roll counted
down are recursive functions of the position (`SumDefined`, `CountDownIs`: the
roll's remainder less the weights passed), so a roll falls on the target whose
stretch of `0..TotalWeight - 1` its remainder lies in (`SelectIs`, with the least
position from a well-founded order), and consecutive rolls pass through each
stretch once, wherever they start (`Window`, a bijection). Induction over the
positions is by `UpTo`: a least position where the claim fails cannot exist.

**Plan** (`QueryPlannerProofs`). A query takes one step, so `PlanInv` adds only the
types of the ledger and the query (`PlanTypes`); the work is to show that two
datasets answer alike. From rows *near* to a dataset, `Followed` asks that each
relation predicate lead to near rows again and that the full dataset add no
related row, or, for `some` and `one`, none that matches. Then both datasets match
the same near rows (`MatchesAgree`) and shape them alike (`ShapesAgree`). For the
snapshot and the packages, near are the active contracts and every type
(`ActiveFollowed`, `ActiveIncludes`): an archived contract cannot match what
proves active (`OnlyActiveMatch`), so leaving it out changes no `some`, and
`predicateRequiresHistory` rejects the quantifiers it would change. For a replay
and for packages alone, near is everything: the dataset is complete on each
relation of the closure (`CompleteSteps`), so the exercises and types a replay
drops are never looked up. `NoExercises` bounds the closure of a query that needs
no history, which is why no active query falls through to the error at the end.
The recursive functions are known to meet their equations only once some function
does; `TreeRecursion` builds one by depth for any recursion over finite trees, and
`TreeInduction` argues by a tree of least depth that fails. Shapes lie in no set
given in advance, so `ShapeIs` builds theirs itself.

`ParticipantProofs` holds what the theorems on the cache and the history reader
use of the ledger: its past never
changes (`LedgerStable`, `UpdatesStable`) and adjoining ranges join
(`UpdatesJoin`).

Model-checked only: liveness (`CallsReturn`, `OperationsEnd`, `AllSettle`,
`LoadingEnds`), because fairness is out of the prover's reach. Every invariant and
every action property the passing runs check is stated by a theorem.

## 6. Not modelled

* The awaits of `readDatasetAsync` over a moving participant. Its history range
  and its cached rows end at the same offset by construction (line 162 of
  `grpc-query-client.ts`); the catalog is not bound to an offset, and package
  contents never change.
* `GrpcPackageRelationReader`: its memo is keyed by the digest of the content, so
  concurrent duplicates write equal values.
* The comparison of recorded and replayed effects (`ReplayDeterminismValidator`)
  and the scopes of a step: recursive comparison of values whose interesting
  cases are their encodings.
* The Daml-LF decoder and evaluator beyond the trace they emit, the SQL
  compilers and the interface generator: languages in, text or values out, with
  no state between calls.
* Generated protobuf code, DTOs, mappers, the service registry and the transport
  methods that map one request onto one call: nearly all of the repository's
  lines, and nothing in them to interleave.
* Topology, command deduplication and the ledger itself are external: they are
  modelled as far as the SDK's calls can tell.
