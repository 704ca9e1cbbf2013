--------------------------- MODULE AttemptExecution ---------------------------
(***************************************************************************)
(* The executor of an unattended sequence at work on its attempts: it      *)
(* starts the Vite server once, and for each execution a fresh gateway     *)
(* child, drives the page through a run, watches it, collects its evidence,*)
(* judges it and seals the directory.  Beside it, in any order, the        *)
(* children listen, die or ignore their signals, the page ticks, hangs,    *)
(* reloads or crashes, and exit events arrive after the deaths they report.*)
(***************************************************************************)
EXTENDS Integers, Sequences

CONSTANTS
  Kinds,          \* kinds of execution: subset of {"baseline", "model", "drill"}
  Squatters,      \* servers that may already answer on the Vite port: "visible" to
                  \* the probe of 127.0.0.1, or "hidden" from it
  MaxExecutions,  \* executions that are followed from there
  MaxLoads,       \* windows the page of one execution goes through
  MaxTick,        \* the tick at which a run completes
  StopTick,       \* gatewayStopAtTick of a drill
  RunTimeout, StallTimeout, StallGrace  \* in polls of the monitor

ASSUME AttemptAssumption ==
  /\ Kinds \subseteq {"baseline", "model", "drill"}
  /\ Squatters \subseteq {"visible", "hidden"}
  /\ {MaxExecutions, StopTick, RunTimeout, StallTimeout, StallGrace} \subseteq Nat
  /\ {MaxLoads, MaxTick} \subseteq Nat \ {0}

VARIABLES
  children,     \* ProcessManager.managed, in spawn order; the first is Vite
  stopFailures, \* whether a stop went unconfirmed
  squatter,     \* the foreign server on the Vite port
  page,         \* the browser page of the current execution
  pc,           \* what the executor does next
  mon,          \* its local state in the current execution
  execution,    \* the AttemptExecution record being filled
  past          \* the executions that ended, in order

vars == <<children, stopFailures, squatter, page, pc, mon, execution, past>>

-----------------------------------------------------------------------------
(* Child processes.  cause and early are what happened; the code knows    *)
(* seen and asked only.                                                    *)

Child(name) ==
  [name |-> name, os |-> "starting", seen |-> FALSE, asked |-> FALSE,
   logged |-> FALSE, cause |-> "none", early |-> FALSE]

\* Every exit the event loop has delivered by the executor's next turn.
Delivered == [c \in DOMAIN children |-> [children[c] EXCEPT !.seen = @ \/ children[c].os = "dead"]]

\* stop() marks its intent before it acts.
Ask(c) == [Delivered EXCEPT ![c].asked = TRUE, ![c].early = @ \/ (children[c].seen /\ ~children[c].asked)]

Spawned(name) == Append(Delivered, Child(name))

GatewayPortHolder == {c \in 2..Len(children) : children[c].os = "listening"}

classifyChildTerminalState(c) ==
  IF ~children[c].seen THEN "still-running"
  ELSE IF mon.plannedStopIssued THEN "planned-stop-completed"
  ELSE IF children[c].asked THEN "orchestrator-stop-completed"
  ELSE "unexpected-terminal-exit"

Listen(c) ==
  /\ children[c].os = "starting"
  /\ LET free == IF c = 1 THEN squatter = "none" ELSE GatewayPortHolder = {} IN
     children' = IF free
       THEN [children EXCEPT ![c].os = "listening", ![c].logged = TRUE]
       ELSE [children EXCEPT ![c].os = "dead", ![c].cause = "self"]
  /\ UNCHANGED <<stopFailures, squatter, page, pc, mon, execution, past>>

\* A child ends on its own, or because it was asked.
Die(c) ==
  /\ children[c].os \in {"starting", "listening"}
  /\ children' = [children EXCEPT ![c].os = "dead",
                                  ![c].cause = IF children[c].asked THEN "asked" ELSE "self"]
  /\ UNCHANGED <<stopFailures, squatter, page, pc, mon, execution, past>>

ExitEvent(c) ==
  /\ children[c].os = "dead" /\ ~children[c].seen
  /\ children' = [children EXCEPT ![c].seen = TRUE]
  /\ UNCHANGED <<stopFailures, squatter, page, pc, mon, execution, past>>

\* A live gateway goes on writing traces into the directory of its execution.
GatewayWrites(c) ==
  /\ c > 1 /\ children[c].os = "listening"
  /\ \E x \in DOMAIN past :
       /\ past[x].gateway = c /\ ~past[x].dirty
       /\ past' = [past EXCEPT ![x].dirty = TRUE]
  /\ UNCHANGED <<children, stopFailures, squatter, page, pc, mon, execution>>

SquatterVanishes ==
  /\ squatter # "none"
  /\ squatter' = "none"
  /\ UNCHANGED <<children, stopFailures, page, pc, mon, execution, past>>

-----------------------------------------------------------------------------
(* The page.  load numbers the windows it went through, served is who      *)
(* served the current one, answers what it still answers: everything, only *)
(* the closing of its context, or nothing.                                 *)

NoPage == [open |-> FALSE, alive |-> FALSE, load |-> 0, served |-> "none",
           run |-> "idle", tick |-> 0, answers |-> "all"]

PageStep(p) ==
  /\ page.alive
  /\ page' = p
  /\ UNCHANGED <<children, stopFailures, squatter, pc, mon, execution, past>>

Server == IF children[1].os = "listening" THEN "ours"
          ELSE IF squatter = "hidden" THEN "squatter" ELSE "none"

PageTicks ==
  /\ page.run = "running" /\ page.answers = "all"
  /\ PageStep(IF page.tick + 1 = MaxTick
              THEN [page EXCEPT !.tick = MaxTick, !.run = "complete"]
              ELSE [page EXCEPT !.tick = @ + 1])

PageReloads ==
  /\ page.load < MaxLoads
  /\ PageStep([NoPage EXCEPT !.open = TRUE, !.alive = Server # "none", !.load = page.load + 1, !.served = Server])

\* A busy or hung page answers again when it likes, or never.
PageHangs ==
  /\ page.answers = "all"
  /\ \E still \in {"closing", "nothing"} : PageStep([page EXCEPT !.answers = still])

PageRecovers == page.answers # "all" /\ PageStep([page EXCEPT !.answers = "all"])

\* Calls to a crashed page throw, those under way too.
PageCrashes == PageStep([page EXCEPT !.alive = FALSE, !.answers = "all"])

-----------------------------------------------------------------------------
(* Steps of the executor.  Every step delivers the exits that came before. *)

Monitor == [load |-> 0, ran |-> 0, quiet |-> 0, graced |-> FALSE, lastTick |-> -1,
            status |-> "idle", fired |-> FALSE,
            plannedStopIssued |-> FALSE, gateway |-> 0, stopping |-> 0, then |-> "none",
            traceClosed |-> FALSE, stopped |-> {}]

NewExecution(kind) ==
  [kind |-> kind, status |-> "in-progress", reason |-> "none", stage |-> "none",
   artifact |-> "none", study |-> "none", verified |-> 0, ledger |-> NoPage,
   replay |-> "none", load |-> 0, served |-> "none", gateway |-> 0, files |-> {},
   seal |-> {}, dirty |-> FALSE]

Goto(next) == pc' = next /\ children' = Delivered /\ UNCHANGED <<stopFailures, squatter, past>>

With(files) == [execution EXCEPT !.files = @ \cup files]

\* captureDiagnostics in terminal mode, then context.close: the screenshot comes
\* first, so a page that does not answer loses the trace with everything else.
captureDiagnostics(captured) ==
  With({"diagnostics"} \cup (IF captured THEN {"failure"} ELSE {})
       \cup (IF captured /\ ~mon.traceClosed THEN {"failure-trace"} ELSE {}))

\* A failure outside the browser: straight to executeAttempt's catch.
Fail(reason, stage) ==
  /\ execution' = [execution EXCEPT !.reason = reason, !.stage = stage]
  /\ Goto("caught")
  /\ UNCHANGED <<page, mon>>

Answering == page.alive /\ page.answers = "all"

\* fail(), or a raw throw on its way through runBrowserAttempt's catch.  The context is
\* closed at the end, without a timeout: a page that answers nothing is waited for.
FailInBrowser(reason) ==
  /\ page.answers # "nothing"
  /\ \E captured \in {FALSE, Answering} :
       execution' = [captureDiagnostics(captured) EXCEPT !.reason = reason, !.stage = "browser"]
  /\ page' = NoPage
  /\ Goto("caught")
  /\ UNCHANGED mon

\* Mutated form of Answered: a raw throw leaves the browser phase without diagnostics.
AnsweredBare(step) == IF Answering THEN step ELSE Fail("browser-error", "browser")

\* A call with a timeout (locators, goto, downloads): it throws when the page has crashed,
\* or has not answered in time.
Answered(step) == IF Answering THEN step ELSE FailInBrowser("browser-error")

\* A call without one (evaluate, content, the trace): a page that hangs is waited for.
Awaited(step) == IF page.alive THEN page.answers = "all" /\ step ELSE FailInBrowser("browser-error")

\* The first half of stop(): the intent, and nothing more for a child known dead.
Stop(c, then) ==
  /\ children' = Ask(c)
  /\ pc' = IF children[c].seen THEN then ELSE "terminating"
  /\ UNCHANGED <<stopFailures, squatter, past>>

Stopping(c, then) == [mon EXCEPT !.stopping = c, !.then = then]

-----------------------------------------------------------------------------
(* Before the first execution: the port probe, Vite, the browser.          *)

Preflight ==
  /\ pc = "preflight"
  /\ IF squatter = "visible"
     THEN pc' = "closing" /\ UNCHANGED children
     ELSE pc' = "vite" /\ children' = Spawned("vite")
  /\ UNCHANGED <<stopFailures, squatter, page, mon, execution, past>>

\* startVite looks whether the child has exited, then takes any answer on the port.
ViteReady ==
  /\ pc = "vite"
  /\ ~children[1].seen /\ Server # "none"
  /\ Goto("next")
  /\ UNCHANGED <<page, mon, execution>>

\* The child exited before readiness, or the deadline passed.
ViteFails ==
  /\ pc = "vite"
  /\ children[1].seen \/ Server = "none"
  /\ Goto("closing")
  /\ UNCHANGED <<page, mon, execution>>

StartExecution ==
  /\ pc = "next"
  /\ IF Len(past) = MaxExecutions
     THEN Goto("closing") /\ UNCHANGED execution
     ELSE /\ \E kind \in Kinds : execution' = NewExecution(kind)
          /\ Goto("setup")
  /\ mon' = Monitor
  /\ page' = NoPage

-----------------------------------------------------------------------------
(* The gateway of an execution.                                            *)

Setup ==
  /\ pc = "setup"
  /\ \/ Fail("attempt-setup-failed", "attempt-setup")
     \/ /\ execution.kind = "baseline"
        /\ Goto("open")
        /\ UNCHANGED <<page, mon, execution>>
     \/ /\ execution.kind # "baseline"
        /\ GatewayPortHolder # {}
        /\ Fail("gateway-launch-failed", "gateway-launch")
     \/ /\ execution.kind # "baseline"
        /\ GatewayPortHolder = {}
        /\ children' = Spawned("gateway")
        /\ execution' = [execution EXCEPT !.gateway = Len(children) + 1]
        /\ pc' = "gateway-ready"
        /\ UNCHANGED <<stopFailures, squatter, past, page, mon>>

\* Readiness is a line in the child's own log, so a child that died after it counts.
GatewayReady ==
  /\ pc = "gateway-ready"
  /\ children[execution.gateway].logged
  /\ mon' = [mon EXCEPT !.gateway = execution.gateway]
  /\ Goto("verify")
  /\ UNCHANGED <<page, execution>>

\* startGateway stops the child that missed its deadline and throws.
GatewayTimesOut ==
  /\ pc = "gateway-ready"
  /\ ~children[execution.gateway].logged
  /\ execution' = [execution EXCEPT !.reason = "gateway-launch-failed", !.stage = "gateway-launch"]
  /\ mon' = Stopping(execution.gateway, "caught")
  /\ Stop(execution.gateway, "caught")
  /\ UNCHANGED page

\* Whoever holds the port answers with its configuration, which may be another.
verifyGatewayTreatment ==
  /\ pc = "verify"
  /\ \/ /\ GatewayPortHolder = {}
        /\ Fail("treatment-verification-failed", "treatment-verification")
     \/ /\ GatewayPortHolder # {}
        /\ Fail("treatment-mismatch", "treatment-verification")
     \/ \E c \in GatewayPortHolder :
          /\ execution' = [execution EXCEPT !.verified = c]
          /\ Goto("open")
          /\ UNCHANGED <<page, mon>>

-----------------------------------------------------------------------------
(* The browser phase up to Start.                                          *)

\* A fresh context and page, the initial load, and the token planted in its window.
Open ==
  /\ pc = "open"
  /\ IF Server = "none"
     THEN FailInBrowser("browser-error")
     ELSE /\ page' = [NoPage EXCEPT !.open = TRUE, !.alive = TRUE, !.load = 1, !.served = Server]
          /\ mon' = [mon EXCEPT !.load = 1]
          /\ Goto("configure")
          /\ UNCHANGED execution

\* Scenario first, then condition, then speed, each read back; a model page then waits
\* for its client's handshake.  The gateway that answered it may be gone by now.
Configure ==
  /\ pc = "configure"
  /\ Answered(\/ FailInBrowser("condition-not-applied")
              \/ FailInBrowser("speed-not-applied")
              \/ execution.kind # "baseline" /\ FailInBrowser("gateway-not-connected")
              \/ Goto("start") /\ UNCHANGED <<page, mon, execution>>)

ClickStart ==
  /\ pc = "start"
  /\ Answered(/\ page' = [page EXCEPT !.run = "running"]
              /\ execution' = [execution EXCEPT !.load = page.load, !.served = page.served]
              /\ Goto("poll")
              /\ UNCHANGED mon)

-----------------------------------------------------------------------------
(* The monitor loop.                                                       *)

\* assertNoNavigation: the navigation counter and the token tell the same.
Navigated == page.load # mon.load

Poll ==
  /\ pc = "poll"
  /\ IF mon.ran > RunTimeout THEN FailInBrowser("run-timeout")
     ELSE IF Navigated THEN FailInBrowser("unexpected-navigation")
     ELSE Awaited(Goto("status") /\ UNCHANGED <<page, mon, execution>>)

ReadStatus ==
  /\ pc = "status"
  /\ Answered(/\ mon' = [mon EXCEPT !.status = page.run]
              /\ Goto("tick")
              /\ UNCHANGED <<page, execution>>)

\* The tick is read after the status; a new one restarts the stall watch.  A trace
\* chunk that is due is kept here, and the evidence of the whole attempt forecast.
ReadTick ==
  /\ pc = "tick"
  /\ Answered(\/ /\ mon' = IF page.tick # mon.lastTick
                           THEN [mon EXCEPT !.lastTick = page.tick, !.quiet = 0, !.graced = FALSE]
                           ELSE mon
                 /\ Goto("trigger")
                 /\ UNCHANGED <<page, execution>>
              \/ FailInBrowser("evidence-budget-exceeded"))

StopDue == execution.kind = "drill" /\ ~mon.fired /\ mon.lastTick >= StopTick

\* Mutated form of issuePlannedGatewayStop: the trigger does not look whether the gateway is still there.
StopUnlooked ==
  /\ pc = "trigger" /\ StopDue
  /\ Answered(/\ mon' = [Stopping(mon.gateway, "watch") EXCEPT !.fired = TRUE, !.plannedStopIssued = TRUE]
              /\ Stop(mon.gateway, "watch")
              /\ UNCHANGED <<page, execution>>)

\* The planned stop refuses a gateway that is already known dead.
issuePlannedGatewayStop ==
  /\ pc = "trigger" /\ StopDue
  /\ Answered(IF children[mon.gateway].seen
              THEN FailInBrowser("gateway-died-unexpectedly")
              ELSE /\ mon' = [Stopping(mon.gateway, "watch") EXCEPT !.fired = TRUE, !.plannedStopIssued = TRUE]
                   /\ Stop(mon.gateway, "watch")
                   /\ UNCHANGED <<page, execution>>)

NoStopDue ==
  /\ pc = "trigger" /\ ~StopDue
  /\ Goto("watch")
  /\ UNCHANGED <<page, mon, execution>>

\* Time passes in polls; the grace period of a stall is a longer sleep.
Elapse(m, polls) == [m EXCEPT !.ran = @ + polls, !.quiet = @ + polls]

Watch ==
  /\ pc = "watch"
  /\ \/ /\ mon.status = "complete"
        /\ Goto("ledger")
        /\ UNCHANGED <<page, mon, execution>>
     \/ /\ mon.status = "running" /\ mon.quiet > StallTimeout /\ mon.graced
        /\ FailInBrowser("simulation-stall")
     \/ /\ mon.status = "running" /\ mon.quiet > StallTimeout /\ ~mon.graced
        /\ mon' = Elapse([mon EXCEPT !.graced = TRUE], StallGrace)
        /\ Goto("poll")
        /\ UNCHANGED <<page, execution>>
     \/ /\ mon.status # "complete" /\ ~(mon.status = "running" /\ mon.quiet > StallTimeout)
        /\ mon' = Elapse(mon, 1)
        /\ Goto("poll")
        /\ UNCHANGED <<page, execution>>

-----------------------------------------------------------------------------
(* The evidence of a run, taken from the page it left behind.              *)

DownloadLedger ==
  /\ pc = "ledger"
  /\ Answered(\/ FailInBrowser("browser-error")
              \/ /\ execution' = [With({"ledger"}) EXCEPT !.ledger = page]
                 /\ Goto(IF execution.kind = "baseline" THEN "replay" ELSE "bundle")
                 /\ UNCHANGED <<page, mon>>)

\* The export enables once the run is complete and the gateway client settled, within
\* its deadline or not.
DownloadBundle ==
  /\ pc = "bundle"
  /\ Answered(\/ FailInBrowser("bundle-export-not-enabled")
              \/ /\ page.run = "complete"
                 /\ execution' = With({"bundle"})
                 /\ Goto("replay")
                 /\ UNCHANGED <<page, mon>>)

\* 'Replay latest' knows the last run of this window, and renders no verdict without one.
ReplayLatest ==
  /\ pc = "replay"
  /\ Answered(\/ FailInBrowser("replay-verdict-timeout")
              \/ page.run = "complete" /\ FailInBrowser("replay-mismatch")
              \/ /\ page.run = "complete"
                 /\ execution' = [execution EXCEPT !.replay = "match"]
                 /\ Goto("leave")
                 /\ UNCHANGED <<page, mon>>)

Leave ==
  /\ pc = "leave"
  /\ IF Navigated THEN FailInBrowser("unexpected-navigation")
     ELSE Awaited(Goto("artifacts") /\ UNCHANGED <<page, mon, execution>>)

\* Each capture records its own failure, and then the context is closed; a capture of a
\* page that hangs returns when the page does.
Artifacts ==
  /\ pc = "artifacts"
  /\ page.answers = "all"
  /\ execution' = With({"diagnostics"} \cup (IF page.alive THEN {"attempt-trace"} ELSE {}))
  /\ mon' = [mon EXCEPT !.traceClosed = TRUE]
  /\ page' = NoPage
  /\ Goto("evidence")

-----------------------------------------------------------------------------
(* Judgement, finalisation and the seal.                                   *)

\* Mutated form of JudgeChild: the gateway runs on while its evidence is finalised and sealed.
JudgeOnly ==
  /\ pc = "evidence"
  /\ Goto("finalize")
  /\ UNCHANGED <<page, mon, execution>>

JudgeChild ==
  /\ pc = "evidence"
  /\ \/ /\ execution.kind = "drill" /\ ~mon.fired
        /\ Fail("gateway-stop-not-fired", "browser")
     \/ /\ ~(execution.kind = "drill" /\ ~mon.fired)
        /\ mon.gateway # 0
        /\ classifyChildTerminalState(mon.gateway) = "unexpected-terminal-exit"
        /\ Fail("gateway-died-unexpectedly", "browser")
     \/ /\ ~(execution.kind = "drill" /\ ~mon.fired)
        /\ IF mon.gateway = 0
           THEN Goto("finalize") /\ UNCHANGED mon
           ELSE /\ classifyChildTerminalState(mon.gateway) # "unexpected-terminal-exit"
                /\ mon' = Stopping(mon.gateway, "finalize")
                /\ Stop(mon.gateway, "finalize")
        /\ UNCHANGED <<page, execution>>

\* Every stage that throws names its class and itself.
FailureClass(stage) == stage \o "-failed"

StageFailures ==
  LET Typed(stages) == {<<FailureClass(s), s>> : s \in stages} IN
  IF execution.kind = "baseline"
  THEN Typed({"deterministic-validation", "fingerprint"})
  ELSE Typed({"prepare-run", "strict-finalize", "evidence-enrichment", "fingerprint",
              "final-treatment-verification"})
       \cup {<<"model-evidence-incomplete", "browser">>,
             <<"treatment-mismatch", "final-treatment-verification">>}

StageFails ==
  /\ pc = "finalize"
  /\ \E failure \in StageFailures : Fail(failure[1], failure[2])

\* Artifact-valid, but below the registered thresholds or (never asked of a drill)
\* with upstream calls that exhausted the budget.
BelowThresholds ==
  /\ pc = "finalize" /\ execution.kind # "baseline"
  /\ execution' = [With({"fingerprint"}) EXCEPT !.artifact = "artifact-valid", !.study = "invalid-treatment",
                     !.reason = "invalid-treatment", !.stage = "treatment-thresholds"]
  /\ Goto("caught")
  /\ UNCHANGED <<page, mon>>

\* The completed record is sealed; a seal that throws leaves its verdicts behind.
Complete ==
  /\ pc = "finalize"
  /\ LET valid == [With({"fingerprint"}) EXCEPT !.artifact = "artifact-valid", !.study = "study-valid"] IN
     \/ /\ past' = Append(past, [valid EXCEPT !.status = "completed", !.seal = valid.files])
        /\ execution' = valid
        /\ pc' = "next" /\ children' = Delivered
        /\ UNCHANGED <<stopFailures, squatter>>
     \/ /\ execution' = [valid EXCEPT !.reason = "execution-seal-failed", !.stage = "execution-seal"]
        /\ Goto("caught")
  /\ UNCHANGED <<page, mon>>

-----------------------------------------------------------------------------
(* The catch block.                                                        *)

Caught ==
  /\ pc = "caught"
  /\ IF mon.gateway = 0
     THEN Goto("record") /\ UNCHANGED mon
     ELSE mon' = Stopping(mon.gateway, "record") /\ Stop(mon.gateway, "record")
  /\ UNCHANGED <<page, execution>>

\* Statuses already given stay; a seal that throws here escapes to the sequence.
RecordFailure ==
  /\ pc = "record"
  /\ LET Default(now, otherwise) == IF now = "none" THEN otherwise ELSE now
         failed == [With({"failure-message", "failure-manifest", "context-logs"}) EXCEPT
                      !.status = "failed",
                      !.artifact = Default(@, "artifact-invalid"),
                      !.study = Default(@, "not-evaluated")] IN
     /\ execution' = failed
     /\ \/ past' = Append(past, [failed EXCEPT !.seal = failed.files]) /\ pc' = "next"
        \/ past' = Append(past, failed) /\ pc' = "closing"
  /\ children' = Delivered
  /\ UNCHANGED <<stopFailures, squatter, page, mon>>

-----------------------------------------------------------------------------
(* stop(): the graceful wait, the forced wait, and giving up.              *)

Exits ==
  /\ pc \in {"terminating", "killing"}
  /\ children[mon.stopping].os = "dead"
  /\ Goto(mon.then)
  /\ UNCHANGED <<page, mon, execution>>

\* Mutated form of Kill: the graceful wait has no bound.
WaitForExit == pc = "terminating" /\ children[mon.stopping].os = "dead" /\ Goto("killing") /\ UNCHANGED <<page, mon, execution>>

Kill ==
  /\ pc = "terminating"
  /\ children[mon.stopping].os # "dead"
  /\ Goto("killing")
  /\ UNCHANGED <<page, mon, execution>>

StopUnconfirmed ==
  /\ pc = "killing"
  /\ children[mon.stopping].os # "dead"
  /\ pc' = mon.then /\ children' = Delivered /\ stopFailures' = TRUE
  /\ UNCHANGED <<squatter, page, mon, execution, past>>

\* stopAll takes the children last to first.
stopAll ==
  /\ pc = "closing"
  /\ LET left == DOMAIN children \ mon.stopped IN
     IF left = {}
     THEN Goto("done") /\ UNCHANGED mon
     ELSE \E c \in left :
            /\ \A d \in left : d <= c
            /\ mon' = [Stopping(c, "closing") EXCEPT !.stopped = @ \cup {c}]
            /\ Stop(c, "closing")
  /\ page' = NoPage
  /\ UNCHANGED execution

Done == pc = "done" /\ UNCHANGED vars

-----------------------------------------------------------------------------
\* A fresh invocation, or one whose last execution left a gateway behind that would
\* not die: the stop went unconfirmed, and the child still holds the port.
Init ==
  /\ page = NoPage /\ mon = Monitor /\ execution = NewExecution("baseline") /\ past = <<>>
  /\ \/ /\ children = <<>> /\ stopFailures = FALSE /\ pc = "preflight"
        /\ squatter \in {"none"} \cup Squatters
     \/ /\ children = <<[Child("vite") EXCEPT !.os = "listening", !.logged = TRUE],
                        [Child("gateway") EXCEPT !.os = "listening", !.logged = TRUE, !.asked = TRUE]>>
        /\ stopFailures = TRUE /\ pc = "next" /\ squatter = "none"

Executor ==
  \/ Preflight \/ ViteReady \/ ViteFails \/ StartExecution
  \/ Setup \/ GatewayReady \/ GatewayTimesOut \/ verifyGatewayTreatment
  \/ Open \/ Configure \/ ClickStart
  \/ Poll \/ ReadStatus \/ ReadTick
  \/ issuePlannedGatewayStop \/ NoStopDue \/ Watch
  \/ DownloadLedger \/ DownloadBundle \/ ReplayLatest \/ Leave \/ Artifacts
  \/ JudgeChild \/ StageFails \/ BelowThresholds \/ Complete
  \/ Caught \/ RecordFailure
  \/ Exits \/ Kill \/ StopUnconfirmed \/ stopAll

Page == PageTicks \/ PageReloads \/ PageHangs \/ PageRecovers \/ PageCrashes

Processes ==
  \/ \E c \in DOMAIN children : Listen(c) \/ Die(c) \/ ExitEvent(c) \/ GatewayWrites(c)
  \/ SquatterVanishes

Next == Executor \/ Page \/ Processes \/ Done

Spec == Init /\ [][Next]_vars /\ WF_vars(Executor)

-----------------------------------------------------------------------------
Ended(status) == {x \in DOMAIN past : past[x].status = status}

TypeOK ==
  /\ \A c \in DOMAIN children :
       /\ children[c].name \in {"vite", "gateway"}
       /\ children[c].os \in {"starting", "listening", "dead"}
       /\ children[c].cause \in {"none", "self", "asked"}
       /\ children[c].seen => children[c].os = "dead"
  /\ stopFailures \in BOOLEAN
  /\ squatter \in {"none"} \cup Squatters
  /\ page.load \in 0..MaxLoads /\ page.tick \in 0..MaxTick
  /\ page.run \in {"idle", "running", "complete"}
  /\ mon.ran \in 0..(RunTimeout + StallGrace + 1)
  /\ mon.gateway \in {0} \cup DOMAIN children /\ mon.lastTick \in -1..MaxTick
  /\ execution.status \in {"in-progress", "completed", "failed"}
  /\ Len(past) <= MaxExecutions

\* A completed execution exported its ledger at the end of the very run it started,
\* from the same window, replayed it to a match, and verified its own gateway child.
CompletedIsSound ==
  \A x \in Ended("completed") :
    /\ past[x].ledger.run = "complete"
    /\ past[x].ledger.load = past[x].load
    /\ past[x].replay = "match"
    /\ past[x].kind # "baseline" => past[x].verified = past[x].gateway

\* No completed execution, drill or not, hides a gateway that ended on its own in
\* time for the event loop to know before the executor asked it to stop.
NoDeathAbsorbed ==
  \A x \in Ended("completed") : past[x].gateway # 0 => ~children[past[x].gateway].early

\* What completes was produced whole, by processes the executor knew the fate of
\* (orchestrate.ts executeAttempt, browserDriver.ts).
CompletionIsEarned == TypeOK /\ CompletedIsSound /\ NoDeathAbsorbed

\* If evidence changed after its seal, or a child outlives the invocation, a stop
\* went unconfirmed and the provenance gate knows.
HealthTellsTheTruth ==
  \/ stopFailures
  \/ /\ \A x \in DOMAIN past : past[x].dirty => past[x].seal = {}
     /\ pc = "done" => \A c \in DOMAIN children : children[c].seen

\* A failed execution keeps its record, and its diagnostics once it had a page; a
\* completed one carries nothing named after a failure; study-valid work that did
\* not complete is work that could not be sealed.
FailureKeepsEvidence ==
  /\ \A x \in Ended("failed") :
       /\ {"failure-message", "failure-manifest", "context-logs"} \subseteq past[x].files
       /\ past[x].load # 0 => "diagnostics" \in past[x].files
       /\ past[x].study = "study-valid" => past[x].reason = "execution-seal-failed"
  /\ \A x \in Ended("completed") : past[x].files \cap {"failure", "failure-trace", "failure-message"} = {}
  /\ \A x \in DOMAIN past : ~({"attempt-trace", "failure-trace"} \subseteq past[x].files)

\* Every invocation whose page does not hang for good ends, whatever its children, its
\* page and its clocks do: each bounded wait of the executor ends.
EveryExecutionEnds == <>[](page.answers = "all") => <>(pc = "done")

\* "A stall watchdog and a wall-clock timeout convert hangs into preserved failed
\* attempts": an invocation whose page hangs for good ends too.  A hang in a call that has
\* no timeout is not converted: the clocks are looked at between calls only
\* (browserDriver.ts 22, 379, 455).
HangsEnd == <>[](page.answers # "all") => <>(pc = "done")

\* "Every failure captures ... a Playwright trace": a run that was started and failed has
\* one.  The screenshot is taken first, and the page that does not give it loses the trace
\* (browserDriver.ts 284).
FailureIsTraced ==
  \A x \in Ended("failed") :
    past[x].load # 0 => past[x].files \cap {"attempt-trace", "failure-trace"} # {}

\* The page of an execution is served by the Vite child of the invocation.  No run
\* checks it, as it does not hold: after the child has died a server the probe of
\* 127.0.0.1 cannot see answers a reload on localhost (viteDriver.ts startVite).
ServedByUs == \A x \in DOMAIN past : past[x].served # "squatter"
=============================================================================
