# A TLA+ model of the Flash Flood server

The repository runs *personas* (synthetic website users) against target sites. A
request becomes a run with one attempt per persona; each attempt needs one paid
remote browser (Browserbase). Several worker processes share one SQLite file and
nothing else, so what keeps money and outcomes right is a protocol of rows,
leases, generations and fences. This directory models that protocol, checks it
with TLC on small instances and proves its safety with TLAPS for every instance.

Paths below are relative to `src/` of the repository's own tree (`server/...` is
`src/server/...`).

## 1. The system

| Component | State it keeps | Operations | What is hard about it |
|---|---|---|---|
| Run repository, `server/repository.ts` | owners, runs, attempts, jobs, events | create (idempotent), rerun, cancel, reconcile, read models | one transaction per operation; SQLite allows no nested one |
| Worker lease store, `server/worker/repository.ts` | launches, usage reservations, observations, session bindings, lease columns of jobs | claim, claimQuarantined, heartbeat, sessionReference, finish, recover, observeCharge, settle, deferRecovery, end | crashes anywhere, stalled lease holders, slots and money counted across rows |
| Worker runtime, `server/worker/runtime.ts` | the execution in memory | run, executeClaim | awaits between transactions; exception paths that write |
| Cloud execution and recovery, `server/execution/cloud.ts`, `server/worker/cloud-recovery.ts` | remote session, usage | create once, close, list and release by correlation token | lost replies, metadata that lags |
| Human takeover, `server/workflows/takeover.ts` with `components/run-wall.tsx` | control row, intervals, viewer grants | request, hand back, status, quiesce, acknowledge, resume, finish | two tabs, in-flight agent operations, four clocks |
| Persona loop, `server/execution/loop.ts` | observation, history, checks, budget | observe, evaluate, decide, act, drain | abort of an operation that may still act; takeover at any await |
| Managed attempts, `server/managed/{store,runner,worker}.ts` | managed runs and attempts, provider run and session identity | create, cancel, claim, dispatch, identity, progress, finish; observe, discover, cleanup | hosted agent with a life of its own; run and session end separately |
| Saved browser contexts, `server/workflows/contexts.ts` | context rows, holds, operations | assign, claim, prepare, settle, revoke, retireOne | remote creation and deletion that are never retried |
| Reproduction, `server/workflows/reproduction*.ts` | reproductions, candidates, child jobs | dispatchNext, pendingCandidates, completeCandidate, recoverExpired, cancel | outbox redelivered after crashes, deadlines |
| Native resources, `execution/native-resources.ts`, `worker/native-journal.ts` | journal of an uploaded extension | upload, allocate, quarantine, delete, merge | delayed answers after another process quarantined |
| Browsers, `execution/cloud.ts`, `native-browser.ts`, `native-sdk*.ts`, `native-worker-control.ts` | connections, handles, timers | start, drain, close | every wait may time out and still be answered later; cleanup begins in the middle of the startup |
| Page driver, `execution/driver.ts` | observation, candidates, telemetry | observe, act, close | the page navigates and reports on its own |
| Public network and transport, `execution/public-{network,transport,policy}.ts`, `gateway-transport.ts`, `target-policy.ts` | handlers, permits, counters | admit, resolve, authorize, dial, redirect, fulfil, close | leases lost in every await; name servers that change their answers |
| Evidence, `execution/artifacts.ts`, `reports/artifacts.ts` | files, lock, budget, rows | write, register, load | processes that die between file and row |
| Model gateway and budget, `execution/gateway.ts`, `budget.ts`, `evaluator.ts` | call counts, pending calls | charge, extract, quiesce, drain | hidden retries, calls that outlive their abort |
| Event stream and live wall, `server/event-stream.ts`, `lib/live-wall.ts` | cursors; a client's projection | pull, reconcile | order of two reads; four parallel reads and a stream |
| Launch forms, `components/{launch,managed-launch}.tsx`, `run-report.tsx`, with `server/api.ts` | one pending request in the browser | submit, reconcile, discard | lost and late answers, reloads, replaced sessions |
| Owner's pages, `components/{managed-wall,run-report,recording-evidence,owner-session}.tsx` | what is shown, requests under way | read, cancel, show, hide | answers in any order |
| Replay, `reports/replay.ts` | cache of promises, counters | pages, playlists, segments | calls that share a promise and outlive each other |
| Reruns and comparison, `workflows/{rerun,comparison}.ts`, `reports/aggregate.ts` | none: a function of the rows | compare | read while both runs still move |
| Schema, `server/migrations.ts` and the constructors | the file's version, tables and policy | open, migrate, agree | several releases at once, killed anywhere |
| Deployment supervisor, `server/deployment/supervisor.ts` | two child processes | start, probe, shut down | exits and signals while starting or stopping |

How they meet: the API and the workers only through SQLite transactions
(`BEGIN IMMEDIATE`); a worker and Browserbase through requests that may be lost,
answered late or never; a worker and the takeover service through the control
row, read before and after every agent operation; a tab and the server by polling.

What makes each right: a paid browser that may be running always has its slot and
its reservation, at most one is asked for per job, outcomes are decided once and
fenced, charges are never lowered, agent and human never share a browser, every
launch ends or reaches an operator; a cleanup that is called complete left nothing
open, a success rests on evidence that still stands, and what the owner sees and
compares follows the rows. `PROJECT.json` lists the hazards behind these at their
lines, each with the properties that would catch it.

## 2. The modules

| Module | Models | Checked by | Proofs |
|---|---|---|---|
| `PaidSlot` | abstract promise: reserve, ask, retire, release one slot and at most one browser per job | property `ImplementsPaidSlot` of two modules | `WorkerLeaseProofs`, `ManagedProofs` |
| `WorkerLease` | lease store, runtime, cloud execution and recovery, cancelRun and reconcile | `leases_crash`, `ceilings` | `WorkerLeaseProofs` |
| `WorkerFallback` | extends it with failing database writes in a recovery claim | `fallback`, `fallback_slot` | `WorkerLeaseProofs` |
| `ManagedAttempts` | managed store, runner and worker, hosted agent, shared ceilings | `managed_recovery`, `managed_cancel` | `ManagedProofs` |
| `Takeover` | control row, persona loop control points, tabs, lease, time | `attended`, `takeover_timeout` | `AttendedProofs` |
| `PersonaLoop` | the whole loop with verdicts, budget and gateway | `attended`, `loop_milestone` | `AttendedProofs` |
| `BrowserContexts` | context store, the queue and settlement where they touch it, provider | `browsers` | `BrowserContextsProofs` |
| `NativeResource` | the extension's manager, journal, settlement and recovery | `browsers` | `PaidBrowserProofs` |
| `NativeBrowser` | start and cleanup of the browser of a public run, the SDK's thread | `browsers` | `PaidBrowserProofs` |
| `ControlledBrowser` | start and cleanup of the browser of a controlled site | `browsers` | `PaidBrowserProofs` |
| `PageDriver` | observe, act and close against a page of its own mind | `browsers` | `BrowserPagesProofs` |
| `PublicNetwork` | the handler of a paused request, the transports' operations, close | `browsers` | `BrowserPagesProofs` |
| `Destinations` | admission, policy, resolution, pinning, redirects | `browsers` | `BrowserPagesProofs` |
| `Evidence` | files, lock, budget, rows, reports | `browsers` | `BrowserPagesProofs` |
| `Reproduction` | the search, its outbox and its child jobs | `reproduction` | `ReproductionProofs` |
| `LiveView` | rows and events of a run, the stream, the wall's controller | `watching` | `WatchingProofs` |
| `Launch` | the forms' pending request, the API's insertion | `watching` | `WatchingProofs` |
| `OwnerPages` | wall of a managed run, report, screenshot, recording | `watching` | `WatchingProofs` |
| `Comparison` | reports of parent and rerun, the state of a finding | `watching` | `WatchingProofs` |
| `Replay` | the replay adapter's cache and limits | `watching` | `WatchingProofs` |
| `DataStore` | migrations and policy of the shared file | `watching` | `WatchingProofs` |
| `Supervisor` | start and shutdown of application and worker | `watching` | `WatchingProofs` |

Which modules meet where:

* `WorkerFallback` extends `WorkerLease`; `WorkerLease` and `ManagedAttempts`
  implement `PaidSlot`, and `ManagedAttempts` counts the ordinary jobs that
  `WorkerLease` runs.
* `ControlledBrowser` and `NativeBrowser` refine, for one job, what `WorkerLease` has as
  `RequestBrowser` to `CloseBrowser`; `NativeResource` is the journal that
  `NativeBrowser` leaves out, and `PageDriver` the driver that both return.
* `PersonaLoop` runs on `PageDriver`; the row of its control is `Takeover`'s.
* `PublicNetwork` has a destination as one step that may fail; `Destinations` has
  that step.
* `MCAttended`, `MCBrowsers` and `MCWatching` put modules side by side
  that share no variable: a behaviour follows the one in `focus`. They check many
  parts in one run; they do not claim that the parts interact.

Definitions named in a `Faulty variant` comment are what a plausible bug would make
of the definition below them; no behaviour uses them.

### WorkerLease

One action per transaction or per step of a worker between two awaits.

* `ClaimExpired`, `ClaimQueued` and `ClaimQuarantined` are `claim()` and
  `claimQuarantined()`. `ClaimQueued` is the whole loop over queued rows: it
  refuses unsupported rows, stops at the global ceiling, skips owners at theirs,
  ends rows the budget cannot hold, and launches the first that fits. The `LIMIT
  100` of the query is left out: no instance has as many rows.
* The first claim's execution is `launcher[j]`: claimed, requested (the creation
  has left), allocated (its id is known), running, closed (a report exists), gone.
  The provider's own view is `remote[j]`; replies are separate steps, so they may
  be lost, late, or follow a crash.
* A recovery claim is a record in `recoveries` and may see the session or, while
  the listing lags or the id was never stored, nothing.
* `Settle`, `Observe`, `SettleLaunch`, `End` and `Reconcile` are the helpers of the
  same names (or `deferRecovery` inside `SettleLaunch`), used by both `finish()`
  and `recover()`; every `saveAttempt`, event and run update that belongs to a
  transaction is in its action.
* Time is the two comparisons the code makes: `leaseLive` and `backingOff`. A lease
  expires when its holder's execution is gone, since a live one renews it three
  times per lease; `HolderStalls` is the exception, a process paused past its
  lease that wakes up and goes on.
* Scope: controlled-fixture jobs without a saved context (`BrowserContexts`),
  reproduction candidate (`Reproduction`) or native resource (`NativeResource`). The
  managed attempts its ceilings also count are in `ManagedAttempts`, which models
  both sides of the count.

### WorkerFallback

`executeClaim()` has one outer `catch` for first claims and recoveries. This module
adds the writes that can fail inside a recovery (`SQLITE_BUSY` after the busy
timeout, a full disk) and the path through that `catch`.

### Takeover

Every deadline is kept as the time left, lowered by `Tick`. Grants are delivered
at once: a client counts a grant from before its request, so delay only shortens
it. A tab acts on the version it last saw; a tab that falls silent simply takes
no more steps. `Aborted` operations stay `late` until their adapter drains. A
pair of calls without an await in between (`read` then `quiesce`, `read` then
`resume`) is one action. The job's session reference is there from the start:
before it no command is accepted. The last recovery the bound allows renews its
lease, so that the bound on recoveries adds no deadlock of its own.

### ManagedAttempts

Each variable maps an attempt to a record: its `row`, what the provider has
(`remote`: hosted run, browser session, billed seconds, creation requests), and
the set of `tasks`, one per lease generation, with the local variables of
`executeManagedAgent()`. Assumptions and abstractions:

* a reply is handled in the synchronous turn that first fences; a POST leaves in
  the turn of its fence;
* the deadline, a cancellation, a shutdown and a failed heartbeat are
  `Interrupted`, at any await;
* cleanup's polls may stop at any of them (`GiveUpCleanup`);
* provider states move one way only, so a read is taken when it is delivered;
* a terminal run record names the session the run had. `runner.ts:409` closes an
  attempt whose run is terminal and names none; the model can say nothing about a
  provider that hides one;
* ordinary jobs are counts of open and settled launches, charged in full;
* `createFailure`, progress texts and view journals are diagnostics no decision
  reads, except the replay view, whose refusal changes an outcome (finding 3).

### BrowserContexts

The columns of `browser_contexts` and `context_selections` are one function each;
`held`, `known`, `waits` and `dispatched` stand for `held_job`, `remote_id`,
`available_after` and the dispatched `create` of the operation log.

* `AssignSave` and `AssignReturning` are `assign()`; `Claim` and
  `ContextUnavailable` are `claim()` with the queue's own test of the context
  (`Eligible`), which alone keeps a job waiting.
* `prepare()` is cut at its two awaits: `Prepare`, then `ContextCreated` or
  `CreationUnconfirmed`, then `Inspected` or `InspectionFailed`; `Launch` is the
  request for the browser in the turn of its guard. A reply may be an error, be
  lost, or arrive after the lease, with its identity kept for the deletion.
* `Settle` and `Quarantine` are the two branches of `settle()`, reached from
  `finish()` (`FinishUnused`, `FinishClosed`, `FinishUnconfirmed`) and `recover()`
  (`RecoverClosed`, `RecoverUnconfirmed`).
* `RetireOne` is the transaction of `retireOne()`; `DeleteConfirmed` and
  `DeleteFailed` follow its request. Which deletions are thirty seconds old is a
  free choice among those under way, so an answer may be late or never come.

Abstractions. Leases, slots and money are `WorkerLease`'s: a job here has its first
lease or has lost it, and a recovery's claim and outcome are one action, since a
recovery changes a context only in `settle()`. A dead process is one whose next
action never happens. Each job is the only one of its run, so `Cancel` is
`cancelRun()` for it. One owner and one target scope; other ones are refused
without effect. `persistence`, `operation_token` and the limit of 100 rows are left
out. A supported controlled job is assumed: a refused one ends before its context
is looked at. One assumption is the code's own (`CONTEXT_PERSIST_DELAY_MS`): the
provider has saved a context ten seconds after the settlement (`DelayElapses`).

### PersonaLoop

`at` is the place in `executePersona()`; an operation is asked for, may be raced by
its abort, and answers or is left behind. `view`, `kept`, `entry` and `emitted` are
the verdicts of the last observation, the merged checks, the checks of the start of
the iteration, and what the last observation event said. A page relevant to a
criterion, its deterministic evidence and a model's answer are free choices at each
observation. The gateway is its `closed` flag, the operation its wire belongs to, and
the SDK's own retry (`SendRequest`); the budget is the count of model calls.

### BrowserContexts' companions: NativeResource, NativeBrowser, ControlledBrowser

`NativeResource` follows the first lease's task and every recovering one through the
journal: a write of the journal may fail (`MaxWriteFaults`), an upload, a session and
a deletion may take effect after their caller gave up. There is one extension and one
session, since only generation 1 asks for them and never twice.

`NativeBrowser` and `ControlledBrowser` follow one startup with its cleanup. A bounded
wait has three ends: an answer, a failure, a timeout after which what was waited for
goes on. The cleanup is the code's own sequence (`Drain` to `CloseResources`; `Drain`
to `CloseHandles`), each of whose waits may fail, and its report is what
`finish()` of the lease store will believe.

### PageDriver, PublicNetwork, Destinations

A document is a number, so that an address may come back with another document
behind it, and a mark is known by the document it was made in. A handler of
`PublicNetwork` is a sequence of awaits with the checks between them; the lease, the
network and its closing change in any of them. `Destinations` makes the two name
queries of a request two steps, the dialled address a third, and lets the name
servers change their minds in between.

### Evidence, Reproduction

A save's steps (lock, count, open, write, release, row, step) are actions of their
own and its process may die at each. `Reproduction` has each transaction of the store
and each step of the pumps as an action; a child may be reclaimed, cancelled, starve
or report anything.

### LiveView, Launch, OwnerPages, Comparison, Replay, DataStore, Supervisor

`LiveView` keeps the history of rows as versions: a read is a version chosen when the
server answers, and its arrival is another step. `Launch` has one action per handler
of the forms and per transaction of the API; a key is the launch it was drawn for.
`OwnerPages` is four pages, one of them open, with requests that the server answers
and the page receives separately. `Comparison` derives both reports from the rows at
every state, as the code does at every request. `Replay` identifies a promise with
its place in `work`. In `DataStore` a transaction of SQLite is a lock and a draft that
is lost with its process. `Supervisor` has one thread of control in which a signal or
an exit runs `shutdown()` between two awaits.

## 3. The runs

| Run | Question | Bounds |
|---|---|---|
| `leases_crash` | Are slots and charges right in every interleaving of two workers, an operator and a canceller, and is this an implementation of `PaidSlot`? | 2 jobs of one run, 1 slot, budget for both, 1 crash or stall, recoveryLimit 2, 1 operator claim, sessions of 1 or 3 s on a 2 s reservation |
| `ceilings` | Ceilings, budgets and refusals under several jobs; a worker that reclaims its own lease | 4 jobs of 2 owners (one unsupported), 2 slots, 1 per owner, money for 2 reservations, one worker, 1 fault |
| `fallback`, `fallback_slot` | Does every launch settle or reach the operator, also when a recovery's write fails? What does that failure free? | 1 job, 2 workers, 1 crash or stall, 1 failing write, recoveryLimit 2 |
| `attended` | Exclusive use, fresh decisions, proven success; does control come back, and does the loop end? | 2 tabs, 2 takeovers, 1 recovery, timeout 3, grant 2, lease 3, back-off 2 ticks; 2 criteria (one milestone, one semantic), 2 steps, 3 model calls, 1 takeover |
| `takeover_timeout` | Is a timeout of the human reported as one? | 1 tab, 1 takeover, timeout 2, grant 1, lease 2 |
| `loop_milestone` | Does a contradiction invalidate a milestone? | as in `attended`, 4 model calls |
| `managed_recovery` | One agent run, verified completion, shared slots and money, and an end, through crash and two recoveries | 1 attempt, 1 ordinary job of each of 2 owners, 2 slots, 1 per owner, money for 2 reservations, recoveryLimit 2, 1 fault |
| `managed_cancel` | Is a cancelled execution reported as cancelled? | 1 attempt, 1 fault |
| `browsers` | Contexts, extension, browsers, page, network, destinations and evidence of one paid browser | 1 context and 3 jobs; 3 leases of an extension, 1 failing write; 2 extractions; 2 documents, 4 records, 2 kept; 2 page and 2 gateway requests; 2 operations, 5 links, 2 changed answers, 1 redirect; 3 saves on a budget of 2 files and 3 units |
| `reproduction` | Is what the search calls found minimal and proven, with one child per candidate, and does it end? | a recipe of 3 steps, 2 pumps, 5 candidates, 14 steps, 1 fault |
| `watching` | Store, supervisor, launch, wall, owner's pages, comparison, replay | 1 attempt, pages of 3 events, 1 fault; 2 owners, 2 keys, 3 requests; 2 mishaps; 2 pairs; 2 recordings, 2 calls, 4 promises, 3 requests a minute, 1 at a time; 2 processes of releases 12 and 16, 2 policies; 3 versions, 4 requests |

Why the bounds are enough. The protocol treats jobs independently except for the
ceilings, the budget and the status of their run: two jobs on one slot make every
conflict over a slot and a run, and four jobs of two owners make the owner
ceiling, the global ceiling and the budget bind each on its own. A job's life has
one first claim and then recoveries that are all alike; recoveryLimit 2 has a
first, a repeated and a forbidden one. One crash or stall per behaviour already
yields every pair of an old holder with a new one; a lost reply, lease expiry
after a crash, lagging metadata, and cancellations cost no fault. Durations
below and above the reservation make both branches of the refund and the
overrun. The clocks of `Takeover` differ so that each can run out first. Bounds
are `Max*` constants and guard only the environment: faults, operator claims,
failing writes, requests, documents, records, changed answers (`MaxReclaims` bounds
recovery claims in `Takeover`, `MaxGeneration` in `NativeResource`).
The other limits are the code's own (`PageLimit`, `TelemetryLimit`, `FlightLimit`,
`AttemptFiles` and so on), lowered until each of them is reached.

In `browsers`, one job creates the context, a second reuses it and a third competes
or comes after the second's unclean end; two contexts meet only in the choice of the
oldest one due in `retireOne()`, which the proofs cover for any number. Three leases of
the extension are a launch, a recovery and a recovery that meets a late answer of
both. Two requests of each transport are one that waits while the other holds the
permit. Two documents are the observed one and the one that replaced it. Three saves
are two that compete for the last place of the budget and one of the cleanup. In
`watching`, two launches, two owners and three requests have a request that is still
under way when the session and the launch are other ones; releases 12 and 16 are one
that does not know the last four migrations and one that does.

`leases_crash` uses the symmetry of workers; the operator is not part of it, and no
liveness is checked there. Several managed attempts meet each other only in
the count of slots and money, which the theorem `LimitsAreShared` covers for any number;
the ordinary jobs of `managed_recovery` fill the same slots and spend the same money.

`CHECK_DEADLOCK FALSE` is set where the system ends: all jobs terminal, nothing left
to claim, the page closed. `takeover_timeout` lets time pass for ever and checks
deadlock.

Every property has a mutant of a modelled definition in `PROJECT.json` that breaks
it under the run's own bounds: a slot not counted, a fence dropped, a page read
before the status, a mark found in another document, a lock taken over.

### Fairness

`fallback`: workers keep polling (`run()` sleeps and claims again), a lease
nobody renews runs out, back-offs end, and an execution or a recovery takes its
next step because every await in it is bounded (`bounded()`, `api_timeout`, the
persona's duration limit, 5 s for `onSession`). Nothing is assumed of creation
replies, provider, operator or cancellations.

`attended`: while control is in focus, the loop polls every 50 ms, workers claim, and
time passes; tabs are under no fairness: a tab may never answer. While the loop is in
focus: its deadline is a timer, an extraction has a timeout of its own, and the
cleanup returns. No observation, model, action, event sink or human ever has to
answer.

`managed_recovery`: claims, lease expiry, back-offs, and for a task that some step
of it happens, that it is eventually interrupted (its deadline) and gives up
cleaning (`CLEANUP_POLLS`). Nothing is assumed of the provider.

`reproduction`: each worker keeps pumping and the deadline passes. Nothing is assumed
of the children.

The other runs check safety only.

## 4. What is proved

Every invariant and every action property that a passing run checks is also a
theorem: for any sets of jobs, attempts, tabs, promises and so on, any limits and any
number of faults, from the named `ASSUME`s of the modules. These say that the sets a
module counts are finite, that numbers are numbers, that markers such as `NULL` are
not members of what they stand beside, and what the constructors and schemas of the
code check of its policy. Both refinements of `PaidSlot` are theorems too.

The pattern is the same everywhere. A safety property speaks of something no row can
see (a browser, a late answer, another process), so it is not inductive; the
*inductive invariant* says what each part of the state lets its holder conclude about
the rest, has a lemma that the initial states satisfy it, lemmas (one step per
action) that every step keeps it, and implies the property. TLC checked each of these
invariants, or the property it had to imply, on an instance before its proof.

Some properties are stated and proved, but no run repeats them: `EndsOnce`,
`RunsFollowAttempts`, `OutcomesStand`, `NobodyIsStranded`, `LedgerOnlyGrows`
(`WorkerLease`), `EvidenceHolds` (`WorkerFallback`), `ChargedAsBilled` and
`SettledIsFinal` (`ManagedAttempts`). Before their proofs TLC found no state of the
instances of `ceilings`, `leases_crash`, `fallback`, `managed_cancel` and
`managed_recovery` against them.

### The lease store: `WorkerLeaseProofs`

| Theorem | Says |
|---|---|
| `TypeCorrect` | rows and memory are well typed; in particular `released >= 0` after an overrun |
| `AlwaysConsistent` | the inductive invariant `Consistent` below |
| `BrowserKeepsSlot` | a browser that may be running keeps its job's slot |
| `NoSecondLaunch` | no job asks for a second browser |
| `FencedOut` | once a second lease was granted, the attempt can end only as an infrastructure failure |
| `LedgerCovers` | an open launch keeps its reservation; a settled one has consumed what was billed, or the reservation when nobody learned the bill |
| `WorkersImplementSlots` | `WorkerLease!Spec => PaidSlot!Spec` under the refinement mapping |
| `BrowsersWithinCeilings` | browsers that may run stay within the global and the owner ceilings |
| `StoredSessionKeepsSlot` | failing writes never free the slot of a browser whose session id was stored |
| `NoSecondLaunchEver` | nor do they make a job ask for a second browser |
| `OutcomesReportedOnce` | an attempt or run that ended has exactly one event that says so |
| `RunsEndWithAttempts` | a run ends with its last attempt, with the outcome its attempts give |
| `OutcomesNeverChange` | no step changes an outcome that was reported |
| `NobodyLeftBehind` | an open launch is leased, backing off or claimable; the operator gets only what was recovered as often as allowed |
| `LedgerNeverShrinks` | charges only grow, and the accounts of a settled launch are final |
| `RecordedJobsAreCovered` | failing writes never cost a job its slot or its account once anything was recorded of it |
| `FailingWritesKeepRecords` | the five theorems above `RecordedJobsAreCovered` hold with failing writes too |

That a launch may be settled depends on what an execution in memory *believes*.
`Consistent` joins the two: `RowConsistent` ties the columns of a row to each other (a
leased row has an open launch, a first-generation lease a running attempt, a
quarantined launch a failed one); `LauncherConsistent` says only generation 1
launches, nothing has been asked for before its request, and a report is true ("not
attempted" means nothing was asked for, "terminal" means it is over);
`RecoveryConsistent` says the same of a recovery's proof. With these, `finish()` and
`recover()` free a slot only of a browser that never was or is over.

`LedgerBut` adds what the columns of the reservation say of the bill
(`LedgerRow`), and that a recovery which has read a terminal session carries its
seconds (`LedgerClaim`): an observation that arrives late, twice or in another order
can then only raise the charge. For the refinement, each step moves the slot and
browser of at most one job and in one of `PaidSlot`'s ways (`StepMovesSlots`), which
`SlotStepRefines` maps to its actions. `Ceilings` counts occupied rows, total and per
owner: only `ClaimQueued` adds one, after having counted.

`Lasting` is what holds whatever a step lets go of: one event per outcome, runs that
follow their attempts, and rows that the next claim finds (`OpenRow`). An execution, a
recovery and a cancellation all reach `end()` and `reconcile()`, in any order; the
proof follows one attempt that ends (`Kept` says what the step leaves of all others)
and, for the run, whether it was the last one.

The steps keep `Consistent` also if it does not hold of all jobs: `ConsistentBut(L)`
exempts the jobs of `L`, whose launch is settled and whose session id nobody stored.
`WorkerLease` has an empty `L`; each failing write of `WorkerFallback` adds at most its
own job (`WriteFailsLetsGo`), and only if nothing was recorded of it: `LetGo(L)` says
so of `L`, and that all other jobs are consistent and their accounts as in
`LedgerBut(L)`. This bounds the damage of finding 1. What is lost is a browser nobody
wrote a word about; every job with a session id, an attempted launch, a charge or an
observation keeps slot and account, and what the owner is told stays right, since the
steps keep `Lasting` for any `L`.

### Managed attempts: `ManagedProofs`

| Theorem | Says |
|---|---|
| `AttemptsHold` | the inductive invariant `AttemptInvariant` |
| `CompletedMeansVerified` | a completed attempt has the verified result of its own run |
| `AttemptsImplementSlots` | `ManagedAttempts!Spec => PaidSlot!Spec`: a slot outlives every run and session it pays for |
| `LimitsAreShared` | attempts and ordinary jobs together keep the ceilings and the budget |
| `AttemptsAreChargedAsBilled` | an open attempt keeps its reservation; a settled one is charged the provider's bill, or the reservation if nobody read it |
| `SettledAttemptsStand` | nothing of a settled attempt changes, neither its row nor anything at the provider |

`AttemptInvariant` has a part for the row against the provider (`RowsFit`: what was
dispatched, learned and charged), one for each execution against both (`TasksFit`:
what a task of an old lease may still believe, and what it can no longer write), and
`OneTaskPerLease`. A step of a task is split into the reply it takes, what it then
knows, and the write that is fenced.

`LimitsInvariant` adds the money. It is about sums over rows, which change in one
summand at a time. `Sums` characterises a sum by its recursion over finite sets,
`SumsExist` and `TotalIsSums` connect it with `Total`, and `TotalMonotone` and
`TotalChanged` are what the steps cite. The induction is over subsets ordered by
their number of elements, with the least element of a set of numbers taken from
`WFMin`, because the induction rules themselves take an operator.

`BillInvariant` follows one bill from the provider to the row. `BillFits`: an open
attempt has consumed and released nothing, and a bill exists only of a session that has
ended. `TaskBilled`: what an execution has learned of the bill is the bill, so that it
does not matter which of several executions settles. Only the holder of the lease
writes a row and only `finish()` settles it, which leaves nobody who could write again.

### Saved contexts: `BrowserContextsProofs`

| Theorem | Says |
|---|---|
| `ContextsTypeCorrect` | rows, executions and the provider's side are well typed |
| `ContextsConsistent` | the inductive invariant below |
| `BrowserKeepsContext` | a browser that may be running holds its context, and no request deletes it |
| `SavesComplete` | while the provider saves a context no browser is asked for on it and no request deletes it |
| `UncleanIsFinal` | no browser starts from what an unclean or recovered session left |

`Unsettled` says that a lease, an execution and a browser exist only for a job not yet
settled; `Holds` that such a job holds its context and nobody else does, so that
`Quarantine` and `Settle` never touch another job's context; `Retirement` that a
context on its way out is held by nobody; `Saving` that a save under way is covered
by the hold of the job that caused it or by the delay after its settlement; `Unclean`
that an unclean end leaves a status from which no claim takes the context.
`RetireOneEffect` and `SettleEffect` say once what the two largest operations change.

### Agent and human: `AttendedProofs`

| Theorem | Says |
|---|---|
| `BrowserIsExclusive` | while an operation of the agent may reach the browser no tab is interactive |
| `AgentDecidesAfresh` | what the agent does after an interval rests on an observation made since |
| `SuccessRestsOnObservations` | a persona succeeds only on criteria its observations support |

`ExclusionInvariant`: every grant of a tab is covered by the deadline the row keeps,
grants exist only with control, and the loop works only in phases in which no tab is
interactive (`GrantsCovered`, `GrantsComeWithControl`, `WorkKeepsHumansOut`).
`GrantTime` is the least of three clocks (`LeastOfThree`), which is why a grant never
outlives the deadline. `ObservationInvariant` follows an observation from its end to
the action it led to. `LoopInvariant` says of each point of the loop which checks its
observations support, also after an interruption restored the checks of the start.

### The paid browser: `PaidBrowserProofs`

| Theorem | Says |
|---|---|
| `PaidBrowserIsAccounted` | a cleanup of a controlled site's browser without an error leaves nothing open, and a learned session was reported |
| `CleanCloseLeavesNothing` | the same of the native browser with its thread, ports and attachments |
| `JournalIsTruthful` | the inductive invariant `NativeInvariant` |
| `SettledLeavesNothing` | a settled job leaves neither extension nor session, and none can appear |
| `DeletedStaysDeleted` | a row that says deleted is right and stays so |

`ControlledInvariant` and `NativeBrowserInvariant` state, for each stage of the
cleanup, what has been let go of if no error was recorded so far, together with what
the startup, still running, may yet open. `NativeInvariant` says that rows never claim
less than the provider has (`RowsAreHonest`, `AllocationIsRecorded`), that a late answer
tells of something asked for (`NothingIsInvented`), and that a deletion names all there
can be (`DeletionNamesAll`); `MergeEffect` is what a merge may do to a row.

### Page, network and evidence: `BrowserPagesProofs`

| Theorem | Says |
|---|---|
| `ActionsHitWhatWasObserved` | an action's element is in the document its candidates were found in |
| `TelemetryIsAccounted` | every kept record is held, being written, written, or its write failed |
| `EndedNetworkIsInert` | after the end no handler starts an operation or answers |
| `ConnectionsArePublic` | the transport is connected to public addresses only |
| `EvidenceStaysWhole` | rows stand for whole files, steps for rows, and no report finds one missing |
| `BudgetIsKept` | the files of an attempt stay within its count and bytes |

`AccountInvariant` counts the records as a partition into disjoint sets, each taken by
at most one writer. `WholeInvariant` orders file, row and step. `BudgetInvariant` is
the lock's: who has counted and not yet opened holds the lock (`LockHeld`), and the
room it counted is still there (`RoomStays`), also when a process dies with it.

### Reproduction: `ReproductionProofs`

`ReproductionInvariant` (`SearchesAreConsistent`) gives `OneChildForEach` (a candidate
becomes at most one child job), `TheShortestIsMinimal` (of a path called the shortest,
every path with one step less was tried in vain) and `TheBestIsProven` (a path becomes
the best only by its own candidate's settled browser, in time). `ChildInvariant` ties a
candidate, its job, its session and the result that a pump carries in memory;
`SearchInvariant` says what each position of the scan has already tried
(`ScannedInVain`), for recipes of any length.

### The service around the workers: `WatchingProofs`

| Theorem | Invariant | Says |
|---|---|---|
| `LaunchesOnce`, `LaunchesAreNotLost` | `LaunchInvariant` | a launch becomes at most one run, and the browser forgets it only when it can |
| `WorkerIsGoneFirst` | `SupervisorInvariant` | the application is told to stop only when the worker is gone |
| `ConfirmedFixesStay` | `ComparisonInvariant` | a confirmed fix is not taken back once the parent has settled |
| `HiddenPixelsStayHidden`, `TheWallMovesForward` | `OwnerPagesInvariant` | private pixels follow the user's last word; the wall never goes back |
| `TheStoreStaysWhole` | `DataStoreInvariant` | the file has the tables of its version, for releases killed at any statement |
| `FlightsStayCounted` | `ReplayInvariant` | the counter is the number of requests in flight, within its limit |
| `TheStreamEndsComplete`, `TheWallRestsOnTheEnd` | `LiveInvariant` | a complete stream has sent every event; a wall at rest shows the end |

`LiveInvariant` dates what was read: rows only move forward (`RowsMoveForward`), a
status read before a page of events is no newer than it (`StreamContinues`,
`ReadsAreDated`), so four parallel reads and a stream can bring the wall to rest only on
rows that no longer change (`RestIsRest`).

### Left to TLC

Liveness and everything that needs ENABLED: `LaunchesResolve`, `AttendedControlReturns`,
`AttendedLoopEnds`, `AttemptsResolve` and `SearchesEnd`. The properties of the four runs
that expect a violation are false: `BrowserKeepsSlot` is a theorem of `WorkerLease`, and
`fallback_slot` shows that it does not survive the failing writes of `WorkerFallback`;
`StoredSessionKeepsSlot` is what does.

## 5. Where code and documents disagree

1. **`fallback_slot`, `server/worker/runtime.ts:397`.** If the writes of a recovery
   claim fail, the outer `catch` takes `launchInvoked = false`, which only says that
   *this* process launched nothing, as proof that nothing was allocated, and
   `finish()` settles the launch of a browser whose id was never stored.
   `docs/WORKER.md:345` calls that case unknown.
2. **`takeover_timeout`, `server/workflows/takeover.ts:189`.** `read()` closes an
   expired control in a transaction of its own, and three callers call it inside
   one. A deadline that passes while the adapters drain ends the attempt as an
   infrastructure failure rather than as the limit `read()` names.
3. **`managed_cancel`, `server/managed/runner.ts:279`.** Publishing the replay of a
   cancelled attempt is refused by the journal, and the refusal overwrites
   `managed_cancelled` by a provider failure in the stored error.
4. **`loop_milestone`, `server/execution/loop.ts:348`.** A human who interrupts an
   iteration that has already reported a contradiction brings the milestone back: the
   checks of the iteration's start are restored, and the persona may succeed on a
   criterion whose last event says it is not met. `docs/EXECUTION.md:659` says that a
   relevant contradiction invalidates the milestone.

## 6. Plan

Written so far, in this order because the rest of the system hangs on them: the
paid slot and the worker leases with their proofs, the takeover, the managed
attempts, the saved contexts with theirs; then the search for a reproduction, the
wall and its stream, the extension, the persona loop, the network, the browsers, the
evidence, and the service around the workers.

The safety of all of these is proved as well (section 4).

Proofs still worth having: the types of the smaller modules as theorems of their own. Models still worth having: the persona
store's revisions, rate limits.

## 7. Not modelled, and why

Parsing, validation, redaction, prompts and the judgement of evidence are data, and
so are the bytes of the extension, of attestations, playlists and exports. The
limits on owners, contexts and connections are refusals without effect. The keyboard
of a persona types into whatever has the focus, which is the page's choice at every
key: nothing the code could promise. Of the user interface, rendering; of the
deployment tools, the building and packing of images, which are sequential I/O. The
acceptance scripts drive the components above and add none.

An execution that is shut down, or whose heartbeat fails, is stored as `cancelled`
although no user asked for it (`runtime.ts:142-149`, `:395`); `WorkerLease` allows
the outcome, and no property excludes it, since `docs/WORKER.md` describes a
shutdown as an abort of active loops.

A comparison may take a confirmed fix back while attempts of the *parent* are still
unsettled (`comparison.ts:185`): `FixIsFinal` is conditional on them.
