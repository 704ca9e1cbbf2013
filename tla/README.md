# The Last Meal: a verification project

*The Last Meal* is a deterministic simulation of three people (Mara, Jonas, Rin) who
share one workbench, one meal, one injury and one promise for 2,700 ticks of one
second each. Every change of its world is an event in a ledger; a run can be
replayed and must reproduce the same hashes. A language model may decide for Mara:
the browser sends her requests to a local gateway and the answers back, and an
unattended orchestrator runs whole sequences of such experiments, finalises and
packages their evidence, under studies registered beforehand.

This directory holds TLA+ modules that model the parts of the program whose order
of events matters, TLC configurations that check them on small instances, and proofs
checked by TLAPS. `PROJECT.json` lists components, runs, mutants, the lines every
definition models, findings, hazards and theorems.

## 1. The system

Paths are relative to the repository; `m2/` is `scripts/experiments/m2/`.

| part | source | state | operations | talks to |
|---|---|---|---|---|
| decision lifecycle | `src/sim/runtime/engine.ts` | pending request per NPC, registry of resolved requests, queued answers, fallbacks | issue, accept, reject, expire, supersede, fail, provisional action | providers (in the call or later), the host |
| world and actions | `engine.ts`, `src/sim/events/reduce.ts`, `src/sim/actions/*` | places, actions, reservations, meal, injury, promise | tick steps 1-8, launch, interrupt, complete, end | decision lifecycle, ledger |
| providers, constraints, memory | `src/sim/decisions/*`, `src/sim/cognition/*` | none (pure), memory lists | scoring, hard filters, provider plan | decision lifecycle |
| ledger, replay, validation | `src/sim/events/{ledger,reduce}.ts`, `src/sim/runtime/ledgerFileBuilder.ts`, `src/sim/replay/*` | event list, hashes | append, fold, export, validate, replay | worker, scripts |
| worker and host | `src/worker/*`, `src/sim/runtime/host.ts` | command gate, session, pacing, run, imported ledger | hello, load, start, pause, resume, step, reset, complete, export, import, replay, answers | page by two FIFO channels |
| page | `src/app/*`, `src/ui/controls.ts` | view store, run number, request queue, client trace, archive | load, select, dispatch, handshake, export | worker, gateway by HTTP |
| gateway | `gateway/*` | books of runs, budgets, in-flight count, trace files | provider-config, decision, stop | page, model |
| attempt execution | `m2/orchestrate.ts` (executeAttempt and runPlannedExecutions), `m2/{browserDriver,gatewayDriver,viteDriver,processManager,failureTaxonomy,runFinalizer}.ts` | child processes, a browser page, attempt directory | start, drive, watch, collect, judge, seal, stop | page, gateway, orchestrator |
| sequence orchestrator | `m2/{orchestrate,packageEvidence,processManager}.ts` | control state, writer lock, evidence root, inventory, archives (all files) | launch, resume, attempt loop, package, recover | itself across processes and crashes |
| run finalisation | `scripts/model/{prepareRun,finalize,summarize}.ts`, `scripts/evaluation/{evidence,runMetrics}.ts` | the run directory | prepare, join, judge, commit, summarise, load | what engine, page and gateway wrote |
| registration and launch preflight | `m2/{register,registrationPreflight,stageAPrerequisite,planSchema,orchestrate,sequenceVerification,reporting}.ts` | registration directories, evidence roots, repository HEAD | register, launch, record Stage A, verify | the operator's hands, git |
| evaluation, rehearsal, batch | `scripts/evaluation/*`, `m2/rehearse.ts`, `scripts/model/rehearse.ts`, `src/sim/{evaluation,audit}/*` | files in, files out | report | the artifacts of a run |
| contracts and schemas | `src/shared/*` | none | parsing and pinning | everybody |

What is hard in each, and so what the properties are about:

* **Decisions** may be answered ticks after they were asked. The answer, the time to
  live, the next decision opportunity and the scenario's end all race to settle a
  request; each must settle exactly once, with the reason that is true, and nobody may
  wait in vain.
* **The world** has resources that several people reserve, hand over and abandon while
  they travel, are interrupted or injured. Bookkeeping split over two records
  (bench and action, marker and treatment, commitment and bench session) must agree
  after every order of events.
* **Ledger and session.** Two implementations, the engine that writes a ledger and the
  validator that reads one anybody may have edited, must agree on what is legal, and the
  worker's controls must not leave a trace in what a run becomes.
* **The exchange with the gateway** crosses three event loops. A load or reset starts a
  new run while messages, handshakes and POSTs of the old one are still under way, and
  request ids repeat from run to run.
* **An attempt** drives children that die, hang or ignore their signals and a page that
  stalls, reloads or crashes; whatever happens it must end, and tell the truth of it.
* **The orchestrator** is killed, resumed and started twice by mistake; its promises are
  about files that survive it.
* **Finalisation** joins three accounts of every request, any of which may be late,
  missing, foreign or edited, and its commit may be cut at any file operation.
* **Registration** is a chain of comparisons between files that the operator may touch
  between any two of them.

## 2. Modules

| module | models | composed of |
|---|---|---|
| `RequestBook` | what the decision lifecycle promises, abstractly | |
| `DecisionLifecycle` | steps 9-12 of a tick, the host between ticks | refines `RequestBook` |
| `DecisionLifecycleProofs` | proofs | extends `DecisionLifecycle` |
| `World` | steps 1-8, every action mode, launches, the end | |
| `WorldProofs` | proofs | extends `World` |
| `EventLedger` | the ledger as a value: writer, reducer, hashes | |
| `LedgerValidation` | export and the ten passes of `validateLedger` | extends `EventLedger` |
| `WorkerSession` | page and worker, pacing, import, replay, hand-made edits | extends `LedgerValidation` |
| `WorkerSessionProofs` | proofs | extends `WorkerSession` |
| `GatewayClient`, `ModelGateway` | the page's model client, the gateway process | |
| `ModelExchange` | worker's answer inbox, and the composition | instantiates both |
| `ModelExchangeProofs` | proofs | extends `ModelExchange` |
| `AttemptExecution` | one invocation's children, page, monitor loop and stages | |
| `AttemptExecutionProofs` | proofs | extends `AttemptExecution` |
| `AttemptHistory` | what the orchestrator promises about executions, abstractly | |
| `SequenceOrchestrator` | invocations over shared files | refines `AttemptHistory` |
| `SequenceOrchestratorProofs` | proofs | extends `SequenceOrchestrator` |
| `RunEvidence` | the run directory, the joiner and the loader, as operators | |
| `RunFinalization` | three accounts written in any order, export, commit, crash | extends `RunEvidence` |
| `RunFinalizationProofs` | proofs | extends `RunFinalization` |
| `SequenceEvidence` | an evidence root, what seals it, how a reader proves it | |
| `Registration` | registrars, launcher, Stage A, the operator's hand | extends `SequenceEvidence` |
| `RegistrationProofs` | proofs | extends `Registration` |
| `MC*` | values of constants for TLC | extend the above |

### Decision lifecycle

`stepTick` is a synchronous call. `pc` is the step it has come to and `turn` the
position of a loop over the NPCs; each transition is one loop body. Only between ticks
(`pc = "idle"`) may the host queue a response or a failure (`SubmitResponse`,
`SubmitFailure`), as the worker never runs a command inside a tick. Steps 1-8 are one
abstract step per NPC (`World`) that may end, start or interrupt actions, incapacitate or
cure, and change the part of the world the request's fingerprint looks at (`hard`).
`ledger` is the list of decision events in the order the engine emits them, from which
most properties are stated.

### World

Events in the code are pure functions of the canonical state, so an event, and a handler
that emits several, is an operator from world to world; handlers compose in the engine's
order, over the NPCs in the order of `NPC_IDS`. A tick is one step (`Tick`), followed by
the late answers (`LateAnswer`), the scenario's end, and one decision per NPC
(`Decide`/`Continue`). Which offered affordance is chosen is open. What an NPC does while
it waits for the answer to a late request is interruptible whatever its mode (`Bridge`):
the answer, or the next decision, may take a healer away from a treatment or an eater from
the meal (`Occupied`). `thrown` collects the guards on which the reducer would throw.

Deliberately left out: needs, relationships, memories, beliefs and signals, which decide
only *which* offer is preferred. Constraints on identity and survival are not applied
either: every affordance offered may be chosen. A late answer is checked against the offers
of a moment within the time to live, because only the terms of a proposed renegotiation
depend on it; the fingerprint of the request covers the rest (except the place an
incapacitated patient in transit is treated at). Requests and proposals are identified by
their tick. `eaters` and `violators` are history.

### Ledger, validation, worker session

A run is a record (`EventLedger`): the log, the state the reducer folds it into, the
counters identifiers come from, the terminal hashes. Every event the decision machinery
emits is there, with its causes and identifiers; the rest of the world is one commitment
that the scenario's end breaks. `LedgerValidation` states each check of the ten passes
over positions of the log, since a file is accepted only when every one holds. The
*edits* of `WorkerSession` are every single change of an exported file's log: an event
dropped, repeated, swapped with its neighbour, or with one field altered (actor, cause,
tick or what it carries); raw, or as a tool that rewrites files would leave it, with the
events renumbered and the hashes and the summary computed again. An accepted file is judged
by a reference (`Traceable`) written without the validator's passes.

Page and worker exchange numbered commands and responses over two FIFO channels;
`Execute` is the whole of a worker turn (gate, handler, ack, pushes), `Refuse` a turn the
gate ends, `Pump` one firing of the pacing timer; each kind of response has its action on
the page (`ShowSnapshot`, `appendEvents`, `StampCompletion`, ...). A command may be
delivered again. The run's answers come from outside and cross everything else. Speed,
batch runs and configuration validation are left out. Reset is never disabled: pressed
before the first load it is refused, and the page has counted a run nevertheless. Neither
`events` nor `run-complete` carries a run number, so a stale one pollutes the page's event
list, or stamps the run the page waits for; a stale replay result may arrive after an
import cleared the previous one. All of it is in the model. `StampedAfterLastEvent`
therefore speaks of the page's first run only, and `PageCatchesUp` of a quiet page,
whatever it counts; what the miscounting and the stale stamp lead to is told by
`ModelExchange` (`MirrorAgrees`, `BundleIsTheRuns`). The validator accepts a second `ActionProposed` for one acceptance and a lost
`DecisionRequestExpired` in a file whose hashes were computed again; `Traceable` does not
ask for more, since such files still attribute every action to its decider.

### Model exchange

The page is one event loop whose handlers run up to the next `await`; each such stretch
is one action (`HandleMessage`, `DispatchNext`, `Connected`, `HandshakeEnds`, `Settle`,
and the operator's `SelectCondition`, `LoadScenario`, `Reset`, `Export`). The same holds
for the gateway: `Receive` is everything up to the adapter call, `AdapterReturns`
everything after it. `commands` and `messages` are the two FIFO `postMessage` channels.
`wire` holds the POSTs: sent, held by the gateway while it waits for the model, or
carrying the reply back; a POST may be lost, late, resent by the transport, or answered
when the page no longer waits. `run` stands for both the client's run id and
`expectedRunSeq`, which every code path changes together. A handshake's request and
answer are one moment. Snapshots in the middle of a run are left out, having the same
effect as the one a load sends. Stopping the gateway cuts what is in flight.
The poisoned archive and the cap of 512 failed ids are not modelled.

### Attempt execution

`pc` walks through the invocation: preflight, Vite, browser, and per execution the
gateway child, the page's opening, configuration and start, the monitor loop, evidence
collection, judgement, the finalisation stages, the seal, or the catch block; then
`stopAll`. Beside it children start listening, exit, obey or ignore TERM and KILL, their
exit events arrive later; the page ticks, stalls, reloads, crashes; the clock passes. A
drill plans to stop its gateway at a tick. Each stage may throw.

A page answers every call, nothing but the closing of its context, or nothing at all, and may
recover (`PageHangs`, `PageRecovers`, `page.answers`). A call with a timeout then fails
(`Answered`); one without (`page.evaluate`, `page.content`, the trace, `context.close`) is
waited for (`Awaited`), and no watchdog looks at the clock meanwhile. So the invocation ends
when its page does not hang for good; `HangsEnd`, that it always does, fails. What the code does and
a reader may not expect: a page that dies or hangs when its diagnostics are captured loses
the open trace, and the
diagnostics manifest still lists `failure-trace.zip`; the trigger of a planned stop
precedes the completion break, so a slow poll can fire it after completion; a kill from
outside in the event-loop turn of a planned stop is taken for the plan's; a stop that
stays unconfirmed in a drill counts as fired. `ServedByUs` states that the page is always
ours: it is not, when the Vite child has died and a server the port probe cannot see
answers a reload; no run checks it.

### Sequence orchestrator

Invocations share only files: `control` (sequence-state.json), `lock`, `root` and
`inventory`, `archives`. A step is what lies between two moments at which another process,
a crash or a drift of the repository can be noticed; the writer lock is modelled one file
operation at a time. `mem` is each invocation's own copy of the control state: much of
what can go wrong is a stale copy written back. `root = inventory` is a Boolean
(`inventory.intact`), a report's content is the executions it tells and a turn that
changes with every rewrite. What `executeAttempt` does inside is a choice of outcomes
(`AttemptExecution` shows which are possible).
In `Spec` an invocation may start at any time. `SerialSpec` adds the operator's discipline
(`Serially`): none starts beside another, unless the root is inventoried and the lock is not
a dead process's (the packaging recovery is meant for that). The code enforces nothing of
the kind, and its lock does not replace it: in `Spec` two invocations can both be past the
lock (`OneWriter`), and one refused the lock writes (`WritesUnderLock`).
What rests on there being one writer is therefore claimed of `SerialSpec` only.
Torn inventory writes and keep-awake are not modelled.

### Run finalisation

`RunEvidence` holds what decides: `joinRequest` and the criteria of
`finalizeRunDirectory`, dispositions, refusals, and the loader's checks, as operators on a
directory, which is a record of files; a hash is the thing hashed. `RunFinalization` lets
engine, page and gateway write their accounts in any order (answers, timeouts, late rows,
a dying gateway), then the operator's export, and the finaliser one file operation at a
time with a crash at any, run again by hand, beside faults: a refused write, a handoff
without hashes, another run's ledger, and three kinds of damage: a file lost, cut short or a
sidecar, a client entry or what the ledger says of a request edited (`"damage"`); the rows
of a request in the trace rewritten to any story (`"row"`); the handoff given the hashes of
the ledger that is there (`"rebound"`). `Repeated` bounds them in the runs: each kind
happens to a directory once. An *honest run* has no fault
and at least one POST that reached the gateway. Abstracted: identities and schemas,
timestamps, the pinned provider and model names, entries of other runs (so
`stale-run-discard` cannot arise), token counts; file reads are atomic except the
summary's second read of the trace. With a disk fault inside the routing write two rows
of one request exist; if its client had timed out, the run is called completed and the
loader refuses it (`run-evidence-conflict`): `CompletedLoads` is stated without such runs.
Nothing binds the content of a trace row to the run, nor the handoff to anything: an edited
row that tells a likely story, and a forged ledger whose handoff was forged with it, do
load, and `WhatLoadsIsTheRun` says so. Not modelled: the criterion `exact-envelope-coverage`
(`finalize.ts` 984-991), since the model's client archives every envelope it sees, and an
edit made alike in both copies of one envelope.

### Registration and launch

A registrar reads HEAD, authenticates the templates committed there, takes Stage A's
record if its registration asks for one, stages three files and renames the staging
directory; each file operation is a step. The launcher opens a plan, derives its
registration, proves records, templates and Stage A, takes the lock, archives plan, study
and records, and runs. Between any two steps the operator commits, edits, copies or
removes files, runs Stage A again or damages its root; `upsets` counts it. HEAD may move between
`rev-parse`, each `git show` and the `git diff` after it; the blob id is read with the text. Two registrars
that share one `.staging` can commit a mixed or partial directory (the header of
`register.ts` calls the output transactional); launch refuses it, which is what the
properties promise. Registration itself never reconciles plan with study; launch does. If
HEAD moves between `rev-parse` and `git show HEAD:` and the template changed, launch
refuses. A crash after the plan was archived and before the control state leaves a root
that fresh start and resume both refuse. In `SequenceEvidence` all executions of a
sequence are one, `Complete` writes a finished root in one step (the order of its files is
`SequenceOrchestrator`'s), seals are contents. The edits by hand are those of `Alterations`;
the manifest's seals and the control state's files, artifacts and times are not among
them: a consistent rewriting of everything would pass, as hashes are not signatures. The operator does not move a root away
under a running orchestrator.

## 3. Runs

| run | asks | instance |
|---|---|---|
| `decision_safety` | one fate per request; registry and reasons agree; nobody locked out, overdue or forgotten; refinement of `RequestBook` | Mara answered from outside, Jonas in the call; time to live 1, cadence 2, 3 ticks, registry of 2, one message between ticks |
| `decision_races` | at most one launch per request; every request settles | Mara only, time to live 2, two messages between ticks, fairness |
| `world_rules` | bench, treatment, meal, promise and repair stay consistent; changes are earned | three NPCs, three scenarios times two profiles of habits; 10 ticks with durations scaled so that every pair of deadlines can meet |
| `worker_session` | round trip through export, import and replay; pausing changes nothing; accepted files are traceable; the page catches up | one deciding NPC, 4 ticks, three clicks, one repeated command, every single edit of five files |
| `exchange_faults` | budgets, one model call per request, every request answered | one run of two requests, two conditions, gateway started and stopped, disk faults |
| `exchange_reruns` | nothing of an old run reaches the new one; a request is called once across them; evidence joins | two runs, a Reset at any moment, two conditions, gateway started twice, disk faults, memory of one run |
| `attempt_ends` | completion is earned, health and failure tell the truth, the invocation whose page does not hang for good ends | one execution of each of three kinds, two loads of the page, both foreign servers, pages that hang and recover |
| `sequence_serial` | the evidence is final, complete, within capacity and accounted for; refinement of `AttemptHistory` | `SerialSpec`, two attempts of capacity 2, two invocations, one crash |
| `sequence_ends` | every invocation ends and frees its lock | `SerialSpec`, one attempt, fairness |
| `finalization` | honest runs complete; dispositions are true; what loads is the run; what is completed loads, and stays | two requests and one fault or one and two (`MaxStory`), each kind of damage once, two finalisations |
| `finalization_live` | a sentence of the code that the code does not keep | two requests known, one told so far, the gateway still running |
| `registration` | what is launched is one registration, on a genuine Stage A; an untouched one launches; a registration is final | two registrars, three directories, two commits, two launches, two upsets |

Some properties are conjunctions of named parts: `RegistryTellsTheTruth`
(`RegistryIsProjection`, `LateReasonIsTrue`), `NobodyIsForgotten` (`PendingNeverLockedOut`,
`NoOverdueRequest`, `CadenceHeld`), `EvidenceIsFinal` (`RootIsFinal`, `HaltedStaysHalted`,
`DriftStopsEvidence`), `BooksAgree`, `ChangesAreEarned`, `LimitsHold`, `RunsKeptApart`
(`MirrorNotBehind`, `AnswersItsOwnRun`), `PageShowsTheRun`, `LoaderIsRight`,
`EvidenceIsGenuine`: each is one promise, told in parts.

**Why the bounds are enough.** The decision lifecycle's rules compare a request's tick
with the clock through two constants; time to live 1 and 2 against cadence 2 and three
ticks gives every order of answer, expiry, supersession and end, and a registry of 2 with
three or more requests forces pruning. In `World` travel, actions, cooldowns
and the promise's terms take one to a few ticks each, so that any two of them can overlap
within ten; the competition for care and the one for the meal are separate profiles of
habits. In the session every handler reads what at most two commands before it left, three
clicks with one repeated reach every pair in either channel; an edited file is tried first
thing, and once a click precedes it repeats are off. In the exchange two runs suffice,
since newRun leaves only a POST or handshake of the run before, and queues, budgets and
books of one or two entries overflow. An execution meets each of its deadlines (stall,
grace, wall clock, planned stop) within three ticks of the clock, in every order. In the
orchestrator two processes, one crash and two executions per attempt cover the code paths
that read what another process wrote; `ArchiveLimit` 2 stands for 999. The join treats
requests one by one and compares only sets and counts, two requests give every count that
can disagree. A launch compares at most two registrations (its own and Stage A's), so two
registrars and two interferences reach every mixed pair. Symmetry is used only in safety
runs, on values no constant distinguishes.

**Fairness.** `decision_races`: the engine's steps, the next tick included, which the
worker's pacing loop or a run-to-completion keeps producing; never an answer.
`sequence_ends`: each process takes its next step. `exchange_faults`: the worker handles
its queued commands and the page its tasks, timers included (every fetch has one); the
gateway need not run, the worker need not finish, the operator need not act. A request is
promised an answer as long as page and worker count the same runs (`MirrorAgrees`).
`attempt_ends`: the executor's own next step, its timers included; no child need obey, no
page need move, and a page may stop answering: `EveryExecutionEnds` is claimed of the
behaviours in which it answers in the end, for the code has calls without a timeout.

**Finding.** `finalization_live`: `finalizeRunDirectory` reads `model-trace.jsonl` once
and `buildModelSummary` again; a row appended between the two leaves a sealed bundle whose
two accounts disagree, which `summarize.ts` says must never be.

**Statements the code does not keep, without a run.** Each is stated in its module, is
claimed by no run and no theorem, and is refuted by TLC when it is the only property of the
configuration named:

* `OneWriter` (`SequenceOrchestrator_ends.cfg` with
  `SPECIFICATION Spec`): a dead holder's
  lock is removed and created again in two operations (`m2/orchestrate.ts:351`); two
  invocations that both found it dead are then both past it, where line 348 says that a
  sequence has exactly one writer.
* `WritesUnderLock` (the same, `MaxCrashes = 0`): the control state is read before the lock
  is asked for, and the invocation refused it writes that copy, marked failed, over the
  state of the one that holds it (1404, 1995, against 328).
* `ForbiddenNeverRevived` (`SequenceOrchestrator_ends.cfg`): an invocation that ends between
  persisting a failed execution (1777) and its disposition (1797) lets the resume execute it
  again, against 123-125.
* `RootIsFinal` (with `Evidentiary = FALSE`): a late child appends to the inventoried root
  (`m2/processManager.ts:206`, against `orchestrate.ts:140-141`).
* `HangsEnd` (`AttemptExecution_ends.cfg`): a hang in a call without a timeout is not
  converted into a failed attempt (`m2/browserDriver.ts:379`, against 22-23).
* `FailureIsTraced` (`AttemptExecution_ends.cfg`): a page that gives no screenshot leaves no
  trace (`browserDriver.ts:284`, against 23-25).
* `MirrorAgrees` (`ModelExchange_reruns.cfg`): a Reset before the first load makes the page
  drop every later decision request (`src/app/workerClient.ts:120`, against its line 43).
* `BundleIsTheRuns` (`ModelExchange_reruns.cfg`): a run-complete message of the old run,
  arriving between a load and its first snapshot, stamps the new run (`workerClient.ts:236`,
  against `runBundle.ts:28`).

## 4. Proofs

All proofs are for every value of the constants that meets the named assumptions of the
module they extend. They assume nothing else, but for the hypotheses some theorems state
themselves, each explained below: `TemplatesAgree` (`HonestLaunch`), `Paired` and
`Evidentiary` (sequence orchestrator), `StopFirst` (run finalisation), `MinRun > 1`
(`JudgedFairly`).

`DecisionLifecycleProofs`:

* `TypeCorrect`: `Spec => []TypeOK`. The inductive invariant `TypeInv` adds to the type
  that nobody is asked at the last tick.
* `OneFate`: `Spec => []OneFatePerRequest`: each request issued is pending at exactly one
  NPC or settled by exactly one event. It is not inductive by itself: a step must not
  settle a request that nobody issued, or issue one with a number already used. The
  invariant is `FateInv == TypeInv /\ Issued /\ OneFatePerRequest`, where `Issued` says
  that ids in the ledger and in the pending slots are at most the counter. The argument
  is by the shape of a step: every step is *quiet* (no decision event settles or opens),
  *closes* one request, or *opens* one after closing the NPC's previous one
  (`StepShape`), and each shape keeps the invariant (`QuietKeeps`, `ClosesKeeps`,
  `OpensKeeps`).
* `OneLaunch`: `Spec => []OneLaunchPerRequest`. A provisional launch must precede the
  acceptance, and nothing in the ledger alone says it does, so `AskedInv` adds that a request
  about to be bridged is still pending and not bridged yet. The argument is again by shape:
  a step adds to the ledger nothing that launches, an acceptance with its launch, or one
  provisional launch.
* `Refinement`: `Spec => Book!Spec`. `FatesAreRead` says that under `OneFatePerRequest` a
  request's fate is the type of the one event that settled it; `FateStays` and `FateIsMet`
  what a step does to fates. With them a quiet step is a stutter of the book
  (`QuietStutters`), a closing one `Book!Settle` (`ClosesSettles`), an opening one
  `Book!Open` (`OpensOpens`). The book has no fairness, so nothing of it is left to TLC.
* `TheTruthIsTold`: `Spec => []RegistryTellsTheTruth`, for every retention: the registry,
  pruned at each settlement, is what `rebuildResolvedRequests` makes of the whole ledger, and
  a late answer is told the fate its request has met. The two are pruned at different times,
  so the proof compares them with a registry that forgets nothing, the history of
  settlements, which grows by one entry when a request settles and by none otherwise
  (`HistoryGrows`): to prune at each step is to prune once at the end (`KeepOnce`), and what
  a step appends does not change what was rebuilt of the past (`PastStays`). That the reason
  is true is not inductive: a registry that remembered a pending request, or one request
  twice, would give the wrong reason later. `Memory` adds that it holds settled requests
  only, each once, which rests on `OneFatePerRequest`. The n-th settlement of a ledger is
  defined by counting positions and not by a recursion or a filter, so the whole argument is
  by cardinalities.

In the same module, `EveryoneIsAttended` (`NobodyIsForgotten`) and `OnlyTheAbleAct`
(`IncapacitatedNeverActs`), from one invariant `CareInv`. Neither is inductive, because the
promises hold only at the end of a loop over the NPCs: `InTimeInv` and `HeldInv` speak of
the NPCs the loop has visited (`Before`), and `AbleInv` adds that the fingerprint of a
pending request was taken while its NPC could act, which is why a late answer to an
incapacitated NPC is refused. `BeginBody`, `LaunchBody` and `GateBody` say once what an
action that begins does to the others (`Bystanders`).

`WorldProofs`: `NeverThrows` (`ReducerNeverThrows`), `BooksKept` (`BooksAgree`),
`EarnedChanges` (`ChangesAreEarned`) and, when the promised run takes more than one tick
(it takes 300), `JudgedFairly` (`PromiseIsJudgedFairly`). A handler is an operator from world to world and
a tick composes some twenty of them, so the invariant is stated of a world and its script:

* `Sound` holds between any two handlers. `BenchBook` ties the reservation, the worker, the
  session and the run of the promise to one NPC; `CareBook` says that an injury marked as
  treated is treated, and that only the owner is hurt, after the scripted tick; `MealBook`
  that who owns the meal, eats it or gives it away still may; `ActsFit` that what an NPC
  does was offered, and that the ask it answers is older than its end; `AsksBook` that no
  ask is of the future. Under them no guard that throws is met.
* `CareMarked` (a treatment has its marker, and ends when the marker says) is kept by every
  handler that neither begins a treatment nor hurts; `Ahead` (nothing is due on the current
  tick), no NPC `Stranded`, and `Judged` (past its grace the promise waits only for a session
  begun in time) hold between ticks, not within one. `NothingIsOverdue` needs all of them:
  an arrival or an end that is compared by equality must never be passed over.
* Each handler then has a lemma of one form, `Keeps(c, s, t)`: `t` is `Sound`, strands
  nobody, and is `Onward` of `s`, that is, whatever it adds is not due yet and it fulfils
  the promise only for a session `Earned` in `s`; and either it is `Settled` (no cure, no
  new owner, no new terms) or, for completions, `Concluded` (each such change comes from an
  action whose end is now). The relations are transitive (`OnwardTrans`, `ConcludedTrans`),
  which carries them through the loops over the NPCs and through a tick (`TickCourse`).
* An action property then looks at two worlds, before the tick and before its completions:
  what ends with a tick was under way before it (`EndsAsBegun`), so the treatment, the
  transfer or the acceptance that a change rests on is found in the state before the step.

That there are three NPCs is an assumption (`RolesAssumption`): the three roles are theirs,
and the loops over them are unrolled.

`RegistrationProofs`: `CreateOnce` (`RegistrationIsFinal`: a directory that holds a
registration is changed by no registrar) and `LaunchSound` (`LaunchIsSound`: what is
launched is one registration, stamped from the templates of the commit it runs at). The
invariant `LaunchInv == Counters /\ FilesInv /\ RootsInv /\ LauncherInv` says what the
launcher has established at each point of its walk (`AtOpen`, `AtDerived`, ...) and that a
root with a control state is `Kept`, whatever else is edited; `Like` carries it over to
roots that differ only in what it does not look at.
`GenuineEvidence` (`EvidenceIsGenuine`) needs `EvidenceInv`, on top of it: a completed root
is `LeftBy` a run of the history, because no alteration of one file reaches the archive
hash in the control state, and that hash is over the `Story` of the run; from it and the
checks of `verifyCompletedSequence` every other file follows (`VerifiedIsPacked`). `Rests`
says at each point of the launcher's walk what the prerequisite of a calibration rests on.
`HonestLaunch` (`HonestRegistrationLaunches`) assumes `TemplatesAgree`: the study and plan
templates of the first commit agree. `HonestInv` holds as long as nobody interferes and no
two registrars share a directory: it says what a registrar `Holds` and `Stages` at each
point, that every registered directory is `Whole` and its Stage A record still `Accepted`,
and that a root is empty, completed or the one the launcher is filling (`RootSoFar`). A
launch only writes a root no record was accepted of, so it never takes one away.

`SequenceOrchestratorProofs`:

* `SequenceTypeCorrect` (`TypeOK`) and `CapacityKept` (`CapacityHeld`) need no hypothesis.
* `HistoryIsKept` (`KeepsHistory`, the refinement of `AttemptHistory`) is proved of
  `SerialSpec` when it is `Paired`: there are two invocations, or none crashes. The code
  cannot do without either: side by side two invocations both write (`WritesUnderLock`), and
  after the inventory, where they may start side by side, one killed lets two others take its
  lock over.
* `EvidenceStaysFinal` (`EvidenceIsFinal`) and `CompletionIsWhole` (`CompletedIsWhole`) need
  `Paired` too, and `Evidentiary`: the plan asks for the provenance gate, without which a
  child that would not die can write into a root already inventoried.
* The invariant `SerialInv == TypeInv /\ LockedInv /\ CopyInv /\ RunningInv /\ ClosedInv
  /\ HaltInv` ties each process to what it has read: past the lock it owns it, its copy of
  the control state is the file's except between its own assignment and save, and what a
  halted or closed control state admits. `StragglerInv` says what a late child may still
  reach, `ShelfInv` and `WholeInv` what an execution that counts as completed left on disk.

`ModelExchangeProofs`: `LimitsKept` (`LimitsHold`), `EvidenceAlwaysJoins`
(`EvidenceJoins`) and `RunsStayApart` (`RunsKeptApart`), for a Reset at any moment. One
pressed before the first load leaves the page's counter ahead for good, so the runs are kept
apart not because the counters agree but because the page's is never behind. The invariant `ExchangeInv == PageInv /\ ServedInv /\
ChannelInv /\ ArchiveInv /\ AnswersInv /\ Witnessed(trace, rows)` follows a request
through its five places: the page's queue, a POST, the server, the answer on its way and the
worker's inbox. `Witnessed` is the joint: every gateway outcome in the client trace has its
row, also when the row was refused by the disk, because the page then traces a failure of
its own. That the page's run number is at least the worker's plus the restarts on their way
is a clause of `ChannelInv`.

`AttemptExecutionProofs`: `CompletionEarned` (`CompletionIsEarned`), `HealthIsTold`
(`HealthTellsTheTruth`) and `FailureKept` (`FailureKeepsEvidence`), with no hypothesis
beyond the ranges of the constants. `AttemptInv` says at each station of the executor what
it may rely on, with a stop under way counted as the station it will resume (`where`):

* `GateInv`, the gateway: a treatment answered by another process implies that the own
  gateway is known dead and was not asked to be, which is what the judgement of the child
  refuses; without this clause the property is not inductive, as the port may change hands
  between launch and verification.
* `WindowInv`, the page: up to the last look at its navigations the page may have been
  reloaded, and then hands out a ledger of no run; past it the ledger is the run's.
* `FileInv`, the files written so far, by station; `StopInv` and `ControlInv`, stops under
  way and the children `stopAll` has been to; `PastInv`, the executions that ended, each
  with what its verdict rests on; `KidsInv`, what the event loop knows of a child did happen.

A step that leaves the executor where it is (a child that listens or dies, an exit event)
is `Steady`: it only ages the children, and one lemma shows that ageing keeps everything.
`GatewayKnown` is a second invariant, on top of the first.

`RunFinalizationProofs`: any number of requests and faults, and of invocations of the
finaliser. `RunInv == TypeInv /\ StoryInv /\ StageInv /\ EmptyInv /\ UpwardInv`:

* `StoryInv` tells one request three times, `AtGateway`, `AtPage` and `AtEngine`: what the
  gateway's files can hold at each place of its POST, what an entry of the client promises
  of them, and that the engine judged nothing the client did not see. A clause that holds
  only of undamaged files or of honest runs says so, and faults only grow.
* `StageInv` says what the export and the staged directory keep of the three accounts,
  `UpwardInv` that a running finalisation of a completed run has itself a completed verdict
  in hand; it gives `CompletedIsKept` (`CompletedStays`).
* `HonestCompletes` (`HonestRunCompletes`) follows because when the page is idle each
  request of an honest run is `Asked`, resolved by the engine and explained, or `NotAsked`
  and without a trace: then no refusal and no criterion applies. It does not need the
  gateway stopped: what a gateway still writes is of requests given up for a reason.

The other four assume `StopFirst`, that the gateway is stopped before anything is staged, as
the M2 orchestrator does: `DispositionsAreTrue` (`DispositionTellsTruth`),
`LoadsOnlyTheRun` (`LoaderIsRight`: for every damage and however often repeated, including
rows rewritten and handoffs forged, with what these two get past the loader stated as the
exceptions they are), `SummaryIsTheTrace` (`SummaryAgrees`; the run
`finalization_live` is its counterexample without the hypothesis) and its converse, so to
speak, `CompletedBundlesLoad` (`CompletedLoads`): what the finaliser sealed as completed the
loader does accept. With the gateway gone the
evidence changes only by damage, and never under a running finalisation, so `FinalInv` can
say that each station of the commit has renamed what was derived from the directory as it
is, that the finalised trace tells of it until it is damaged, and that a manifest sealed by
the finaliser covers a `Whole` finalisation and has its verdict (`TrueSeal`). What `DerivedAlike` adds is that two
directories with the same evidence are judged and joined alike, and so a loader that
compares bytes with the manifest (`Loaded`) has the finaliser's own verdict of what it reads.
That both count the same calls needs no sum: where no request has two rows, the rows the
loader sees are the rows the finaliser counted, the same set (`JoinedCounts`).

`WorkerSessionProofs`: `ControlsTellNoStory` (`PausingChangesNothing`) and
`ThePageCatchesUp` (`PageShowsTheRun`), for any conduct of
the provider, any clicks in any order, commands delivered twice, any answers crossing them
and batches of any size; both rest on `NpcAssumption`, `TickAssumption` and
`WorkerAssumption` only.

* Two runs are `Alike` when state, counters and final hash are the same and the ledgers have
  the same canonical projection. Each operator of the engine, from `emit` to `stepTick`,
  has a lemma that it keeps two runs alike; the point is that it reads of the ledger at most
  the id of the event just written, which no marker renames (`Twins`).
* `Story(run)` says that a run is `Alike` to the uninterrupted one that was fed the same
  answers at the same ticks (`Primed`: with what still waits in the inbox added). A tick
  keeps it, because both take the same answers in (`StoryTicks`); markers, answers queued and requests sent keep it, because they
  touch neither the projection nor the state.
* `SessionInv == Faithful(session, host) /\ Fitting(toWorker)` carries this through the
  commands: whenever a run is loaded, or the session runs, the host's run has its `Story`;
  and what waits in the worker's inbox is a command the page can send.
* The uninterrupted run is a fold over ticks, and the projection a fold over events. There is
  no induction over them: `LeastNat` and `UpTo` get the least number a fact fails at from the
  well-foundedness of `<` on the naturals, and five lemmas (`CanonicalSteps`, ...,
  `UninterruptedSteps`) say of each recursive function what it is, step by step.
* What the page shows is stale at nearly every moment, so `PageInv` speaks of what it will
  show. `View` says of each field that the last message on its way to set it (`LastOf`)
  carries what the worker has now, or that there is none and the page has it already; and
  of the completion of the run the worker is in, that no events follow it. Every message
  keeps this when it is posted (`HandledShows`, `PumpShows`: each command by its own case)
  and when it is read (`ReadShows`).
* `Engine` is what the worker keeps between two commands: it has posted every event of its
  run, its status is complete exactly when the run is over, and then the completion is
  announced. The start of a new run is the place where this could break, for the page still
  has messages of the run before to read.
* `Commands` counts: the run the worker will have come to (`Awaited`: its own, and as many
  more as there are different commands on their way that start one and that the gate will
  let pass, `Starts`) is none the page does not count (`NotBehind`); the page may count more,
  after an early reset, so `View` is stated of a page that counts like the worker
  (`Counted`). A repeated command has a number the gate has seen or will have seen
  (`InSequence`), so it counts for nothing (`AgainRest`, `RefusedRest`); and a ready page has
  a run, or one is on its way (`Promised`).

`PageShowsTheRun` says of the stamp only what the code keeps: that it comes after the last
event of the first run. A later run can be stamped by the message of the one before, which
bears no number.

Only model-checked:

* liveness (`EveryRequestSettles`, `EveryInvocationEnds`, `EveryRequestAnswered`,
  `EveryExecutionEnds`): fairness and ENABLED are outside the prover's reach;
* of `WorkerSession`, `RoundTrip` and `ImportedIsTraceable`. The first is
  about all ten passes of the validator over a whole ledger, each a statement about every
  prefix of it; the second about files the program wrote and one edit of them, and no theorem
  of every file: the validator compares a bridging action with its offer only `if (offer)`
  (`validateLedger.ts:813`), so what an accepted file is worth depends on the edits
  considered.

## 5. Not modelled, and why

* **Providers, constraints, memory influence**: deterministic scoring; their choice is left
  open, which covers every weight. The lattice of hard constraints is a candidate for a
  pure module checked against a reference.
* **Evaluation, rehearsal, batch and audit scripts**: functions from finished files to
  tables, and rehearsals that drive the modelled code with a fake model; they keep no
  state of their own.
* **Batch runs and configuration in the worker, keep-awake, visual checkpoints, trace
  chunks on disk**: they change nothing another component reads back.
* **Torn writes** of the inventory and **identities, schemas and formats** of evidence
  files: parsers and pins.
* **Adapters, prompts, rendering, layout**: I/O and formatting. **Contracts**: schemas.
* One hazard is listed without a property: the one `BundleIsTheRuns` states, which does not
  hold (above); five others have a property that says less than the sentence of the code.
* **The gateway's forgetting** of the first of sixty-five runs (`gateway/server.ts:226`)
  breaks no promise of the code and is no hazard of a run.

## 6. Plan

Done: the modules of section 2, in the order decision lifecycle, orchestrator, world,
exchange, attempt, session, finalisation, registration.

Next:

1. Hard constraints of decisions (`src/sim/decisions/constraints.ts`) as a pure module
   against a reference definition, and then `World` with them applied.
2. Batch runs in the worker, and torn writes of the inventory in `SequenceOrchestrator`.
3. Theorems: `RoundTrip` of the session.
