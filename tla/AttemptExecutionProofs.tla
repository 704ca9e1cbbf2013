------------------------- MODULE AttemptExecutionProofs -------------------------
(***************************************************************************)
(* What an execution that ended tells of itself, proved for any number of  *)
(* executions, loads, ticks and polls.  The invariant follows the executor *)
(* from station to station: what it knows of its gateway there, which      *)
(* window the evidence comes from, and which files it has written.         *)
(***************************************************************************)
EXTENDS AttemptExecution, TLAPS

-----------------------------------------------------------------------------
(* Types                                                                   *)

Kids == [name : {"vite", "gateway"}, os : {"starting", "listening", "dead"}, seen : BOOLEAN,
         asked : BOOLEAN, logged : BOOLEAN, cause : {"none", "self", "asked"}, early : BOOLEAN]

Pages == [open : BOOLEAN, alive : BOOLEAN, load : 0..MaxLoads, served : {"none", "ours", "squatter"},
          run : {"idle", "running", "complete"}, tick : 0..MaxTick,
          answers : {"all", "closing", "nothing"}]

Resumptions == {"caught", "watch", "finalize", "record", "closing"}

Monitors == [load : 0..1, ran : 0..(RunTimeout + StallGrace + 1), quiet : Nat, graced : BOOLEAN,
             lastTick : -1..MaxTick, status : {"idle", "running", "complete"}, fired : BOOLEAN,
             plannedStopIssued : BOOLEAN, gateway : Nat, stopping : Nat,
             then : {"none"} \cup Resumptions, traceClosed : BOOLEAN, stopped : SUBSET Nat]

Stages == {"deterministic-validation", "fingerprint", "prepare-run", "strict-finalize",
           "evidence-enrichment", "final-treatment-verification"}

Reasons == {"none", "attempt-setup-failed", "gateway-launch-failed", "treatment-verification-failed",
            "treatment-mismatch", "browser-error", "condition-not-applied", "speed-not-applied",
            "gateway-not-connected", "run-timeout", "unexpected-navigation",
            "evidence-budget-exceeded", "gateway-died-unexpectedly", "simulation-stall",
            "bundle-export-not-enabled", "replay-verdict-timeout", "replay-mismatch",
            "gateway-stop-not-fired", "model-evidence-incomplete", "invalid-treatment",
            "execution-seal-failed"} \cup {FailureClass(s) : s \in Stages}

Places == {"none", "attempt-setup", "gateway-launch", "treatment-verification", "browser",
           "treatment-thresholds", "execution-seal"} \cup Stages

Files == {"ledger", "bundle", "diagnostics", "attempt-trace", "failure", "failure-trace",
          "fingerprint", "failure-message", "failure-manifest", "context-logs"}

Executions == [kind : {"baseline", "model", "drill"}, status : {"in-progress", "completed", "failed"},
               reason : Reasons, stage : Places,
               artifact : {"none", "artifact-valid", "artifact-invalid"},
               study : {"none", "study-valid", "invalid-treatment", "not-evaluated"},
               verified : Nat, ledger : Pages, replay : {"none", "match"}, load : 0..MaxLoads,
               served : {"none", "ours", "squatter"}, gateway : Nat, files : SUBSET Files,
               seal : SUBSET Files, dirty : BOOLEAN]

\* The stations of one execution, in order, and those outside any.
BeforeBrowser == {"setup", "gateway-ready", "verify"}
Configuring   == {"configure", "start"}
Monitoring    == {"poll", "status", "tick", "trigger", "watch"}
Collecting    == {"ledger", "bundle", "replay", "leave"}
Judging       == {"evidence", "finalize"}
Ending        == {"caught", "record"}
OnPage        == Configuring \cup Monitoring \cup Collecting
UpToFinalize  == BeforeBrowser \cup {"open"} \cup OnPage \cup {"artifacts"} \cup Judging
Working       == UpToFinalize \cup Ending
Outside       == {"preflight", "vite", "next", "closing", "done"}
Stations      == Working \cup Outside \cup {"terminating", "killing"}

\* Where the executor is once the stop under way is over.
where == IF pc \in {"terminating", "killing"} THEN mon.then ELSE pc

Typed ==
  /\ children \in Seq(Kids) /\ stopFailures \in BOOLEAN /\ squatter \in {"none"} \cup Squatters
  /\ page \in Pages /\ pc \in Stations /\ mon \in Monitors
  /\ execution \in Executions /\ past \in Seq(Executions)

-----------------------------------------------------------------------------
(* The invariant                                                           *)

\* What the code knows of a child did happen, one gateway holds the port, and a death
\* is early only when the stop found it already seen.
KidsInv ==
  /\ \A c \in DOMAIN children :
       /\ children[c].seen => children[c].os = "dead"
       /\ children[c].logged => children[c].os # "starting"
       /\ children[c].early => children[c].asked
  /\ \A c, d \in GatewayPortHolder : c = d

\* A stop under way, the children stopAll has been to, and the Vite child before them.
ControlInv ==
  /\ where \in Working \cup Outside
  /\ pc \in {"terminating", "killing"} =>
       /\ mon.then \in Resumptions /\ mon.stopping \in DOMAIN children
       /\ children[mon.stopping].asked
       /\ mon.then # "closing" => mon.stopping = execution.gateway
  /\ where \notin {"preflight", "closing", "done"} => children # <<>>
  /\ where \notin {"closing", "done"} => mon.stopped = {}
  /\ \A c \in mon.stopped :
       /\ c \in DOMAIN children
       /\ stopFailures \/ children[c].seen \/ (c = mon.stopping /\ pc \in {"terminating", "killing"})
  /\ pc = "done" => DOMAIN children \subseteq mon.stopped
  /\ where \in Working => Len(past) < MaxExecutions
  /\ Len(past) <= MaxExecutions

\* Whose gateway the execution runs with.  A treatment answered by another is answered
\* for a child that is known dead and was not asked to be.
GateInv ==
  LET g == execution.gateway IN
  where \in Working =>
    /\ g \in {0} \cup 2..Len(children) /\ mon.gateway \in {0, g}
    /\ where = "setup" => g = 0
    /\ where \in {"setup", "gateway-ready"} => mon.gateway = 0 /\ ~mon.plannedStopIssued
    /\ where = "gateway-ready" => g # 0 /\ execution.kind # "baseline" /\ ~children[g].asked
    /\ where = "verify" => g # 0 /\ children[g].logged /\ ~children[g].asked /\ ~mon.plannedStopIssued
    /\ where \in UpToFinalize \ {"setup", "gateway-ready"} =>
         mon.gateway = g /\ (execution.kind = "baseline" <=> g = 0)
    /\ mon.plannedStopIssued => g # 0 /\ children[g].asked
    /\ where \in UpToFinalize /\ g # 0 => ~children[g].early
    /\ where \in {"open"} \cup OnPage \cup {"artifacts", "evidence"} /\ g # 0 =>
         execution.verified = g \/ (children[g].seen /\ ~children[g].asked)
    /\ where = "finalize" /\ g # 0 => children[g].asked /\ execution.verified = g

\* A gateway whose stop is over is dead, or the stop is known to have failed.
StopInv ==
  LET g == execution.gateway IN
  ~stopFailures /\ g # 0 /\ (pc \in {"finalize", "record"} \/ (pc = "caught" /\ mon.gateway = 0))
    => children[g].os = "dead"

\* The window the evidence is taken from.  A page that was reloaded may hand out the
\* ledger of no run, but does not get past the last look at its navigations.
WindowInv ==
  /\ page.run = "idle" => page.tick = 0
  /\ page.run = "running" => page.tick < MaxTick
  /\ where \in BeforeBrowser \cup {"open"} \cup Configuring => execution.load = 0
  /\ where \in Configuring => page.run = "idle"
  /\ where \in OnPage => mon.load = 1 /\ page.load >= 1
  /\ where \in Monitoring \cup Collecting => execution.load \in 1..page.load
  /\ where \in {"tick", "trigger", "watch", "ledger"} /\ mon.status = "complete" /\ page.load = 1 =>
       page.run = "complete"
  /\ where = "ledger" => mon.status = "complete"
  /\ where \in {"bundle", "replay", "leave"} =>
       /\ execution.ledger.load \in 1..page.load
       /\ execution.ledger.load = 1 => execution.ledger.run = "complete"
  /\ where \in {"leave", "artifacts"} \cup Judging => execution.replay = "match"
  /\ where \in {"artifacts"} \cup Judging =>
       execution.load = 1 /\ execution.ledger.load = 1 /\ execution.ledger.run = "complete"
  /\ where \in {"status", "tick", "trigger", "watch"} => mon.ran <= RunTimeout

\* What an execution on its way to a failed record has kept.
FailureOf(e) ==
  /\ ~({"attempt-trace", "failure-trace"} \subseteq e.files)
  /\ e.load # 0 => "diagnostics" \in e.files
  /\ e.study = "study-valid" => e.reason = "execution-seal-failed"

\* What is in the directory at each station.
FileInv ==
  /\ where \in UpToFinalize => execution.study = "none"
  /\ where \in UpToFinalize \ Judging => execution.files \subseteq {"ledger", "bundle"}
  /\ where \in Judging =>
       /\ execution.files \subseteq {"ledger", "bundle", "diagnostics", "attempt-trace"}
       /\ "diagnostics" \in execution.files
  /\ where \in Ending => FailureOf(execution)
  /\ where \in Working => ~execution.dirty

\* What holds of an execution that ended, whatever its gateway does afterwards.
EndedWell(e) ==
  /\ e.gateway \in {0} \cup 2..Len(children)
  /\ e.status \in {"completed", "failed"}
  /\ e.status = "completed" =>
       /\ e.ledger.run = "complete" /\ e.ledger.load = e.load /\ e.replay = "match"
       /\ e.kind # "baseline" => e.verified = e.gateway
       /\ e.gateway # 0 => children[e.gateway].asked /\ ~children[e.gateway].early
       /\ e.files \cap {"failure", "failure-trace", "failure-message"} = {}
  /\ e.status = "failed" =>
       /\ FailureOf(e)
       /\ {"failure-message", "failure-manifest", "context-logs"} \subseteq e.files
  /\ ~stopFailures =>
       /\ e.gateway # 0 => children[e.gateway].os = "dead"
       /\ ~e.dirty

PastInv == \A x \in DOMAIN past : EndedWell(past[x])

AttemptInv ==
  /\ Typed /\ KidsInv /\ ControlInv /\ GateInv /\ StopInv /\ WindowInv /\ FileInv /\ PastInv

-----------------------------------------------------------------------------
(* Children only get older                                                 *)

\* What a step leaves of every child: a death, its news, a request and a readiness stay.
Ages ==
  /\ Len(children) <= Len(children')
  /\ \A c \in DOMAIN children :
       /\ children[c].os = "dead" => children'[c].os = "dead"
       /\ children[c].seen => children'[c].seen
       /\ children[c].logged => children'[c].logged
       /\ children[c].asked => children'[c].asked
       /\ children[c].asked /\ ~children[c].early => ~children'[c].early

\* A step that asks no child to stop and starts none.
Steady ==
  /\ Ages /\ Len(children') = Len(children)
  /\ \A c \in DOMAIN children :
       children'[c].asked = children[c].asked /\ children'[c].early = children[c].early

\* A child after the news of its death, if any, and after a request to stop.
Told(k) == [k EXCEPT !.seen = @ \/ k.os = "dead"]

Asked(k, b) == [k EXCEPT !.asked = TRUE, !.early = b]

LEMMA ToldKid ==
  ASSUME NEW k \in Kids, k.seen => k.os = "dead"
  PROVE  /\ Told(k) \in Kids /\ Told(k).os = k.os /\ Told(k).asked = k.asked
         /\ Told(k).logged = k.logged /\ Told(k).early = k.early
         /\ Told(k).seen <=> k.os = "dead"
BY DEF Kids, Told

LEMMA AskedKid ==
  ASSUME NEW k \in Kids, NEW b, b \in BOOLEAN
  PROVE  /\ Asked(k, b) \in Kids /\ Asked(k, b).asked /\ Asked(k, b).early = b
         /\ Asked(k, b).os = k.os /\ Asked(k, b).seen = k.seen /\ Asked(k, b).logged = k.logged
BY DEF Kids, Asked

\* Delivering the exits that came changes what is known, and nothing else.
LEMMA DeliveredKids ==
  ASSUME Typed, KidsInv
  PROVE  /\ Delivered \in Seq(Kids) /\ Len(Delivered) = Len(children) /\ DOMAIN Delivered = DOMAIN children
         /\ \A c \in DOMAIN children :
              /\ Delivered[c].os = children[c].os /\ Delivered[c].asked = children[c].asked
              /\ Delivered[c].logged = children[c].logged /\ Delivered[c].early = children[c].early
              /\ Delivered[c].seen <=> children[c].os = "dead"
<1>1. /\ children \in Seq(Kids) /\ Len(children) \in Nat /\ DOMAIN children = 1..Len(children)
      /\ \A c \in DOMAIN children : children[c] \in Kids
  BY DEF Typed
<1>2. Delivered = [c \in 1..Len(children) |-> Told(children[c])]
  BY <1>1 DEF Delivered, Told
<1>3. \A c \in DOMAIN children : Delivered[c] = Told(children[c])
  BY <1>1, <1>2
<1>4. ASSUME NEW c \in DOMAIN children
      PROVE  /\ Delivered[c] \in Kids
             /\ Delivered[c].os = children[c].os /\ Delivered[c].asked = children[c].asked
             /\ Delivered[c].logged = children[c].logged /\ Delivered[c].early = children[c].early
             /\ Delivered[c].seen <=> children[c].os = "dead"
  <2>1. children[c] \in Kids /\ (children[c].seen => children[c].os = "dead")
    BY <1>1 DEF KidsInv
  <2>2. QED
    BY <1>3, <2>1, ToldKid
<1>5. Delivered \in Seq(Kids) /\ Len(Delivered) = Len(children) /\ DOMAIN Delivered = DOMAIN children
  BY <1>1, <1>2, <1>4
<1>6. QED
  BY <1>4, <1>5

LEMMA DeliveredSteady ==
  ASSUME Typed, KidsInv, children' = Delivered
  PROVE  /\ children' \in Seq(Kids) /\ KidsInv' /\ Steady
         /\ \A c \in DOMAIN children : children[c].os = "dead" => children'[c].seen
<1>1. /\ children' \in Seq(Kids) /\ Len(children') = Len(children) /\ DOMAIN children' = DOMAIN children
      /\ \A c \in DOMAIN children :
           /\ children'[c].os = children[c].os /\ children'[c].asked = children[c].asked
           /\ children'[c].logged = children[c].logged /\ children'[c].early = children[c].early
           /\ children'[c].seen <=> children[c].os = "dead"
  BY DeliveredKids
<1>2. DOMAIN children = 1..Len(children) /\ Len(children) \in Nat
  BY DEF Typed
<1>3. GatewayPortHolder' = GatewayPortHolder
  BY <1>1, <1>2 DEF GatewayPortHolder
<1>4. KidsInv'
  BY <1>1, <1>3 DEF KidsInv
<1>5. Steady
  BY <1>1, <1>2 DEF Steady, Ages, KidsInv
<1>6. QED
  BY <1>1, <1>4, <1>5

\* Asking a child to stop marks it, and as early if its death was known before.
LEMMA AskedKids ==
  ASSUME Typed, KidsInv, NEW c \in DOMAIN children, children' = Ask(c)
  PROVE  /\ children' \in Seq(Kids) /\ KidsInv' /\ Ages /\ Len(children') = Len(children)
         /\ children'[c].asked
         /\ children'[c].early <=> children[c].early \/ (children[c].seen /\ ~children[c].asked)
         /\ \A d \in DOMAIN children : children[d].os = "dead" => children'[d].seen
<1>1. /\ Delivered \in Seq(Kids) /\ Len(Delivered) = Len(children) /\ DOMAIN Delivered = DOMAIN children
      /\ \A d \in DOMAIN children :
           /\ Delivered[d].os = children[d].os /\ Delivered[d].asked = children[d].asked
           /\ Delivered[d].logged = children[d].logged /\ Delivered[d].early = children[d].early
           /\ Delivered[d].seen <=> children[d].os = "dead"
  BY DeliveredKids
<1>2. /\ DOMAIN children = 1..Len(children) /\ Len(children) \in Nat
      /\ children[c] \in Kids /\ Delivered[c] \in Kids
  BY <1>1 DEF Typed
<1> DEFINE b == children[c].early \/ (children[c].seen /\ ~children[c].asked)
<1> DEFINE k == Asked(Delivered[c], b)
<1>3. children' = [Delivered EXCEPT ![c] = k] /\ b \in BOOLEAN
  BY <1>1, <1>2 DEF Ask, Asked, Kids
<1>4. b => children[c].os = "dead" \/ children[c].early
  BY DEF KidsInv
<1>5. children[c].asked /\ ~children[c].early => ~b
  OBVIOUS
<1>6. b <=> children[c].early \/ (children[c].seen /\ ~children[c].asked)
  OBVIOUS
<1> HIDE DEF b
<1>7. /\ k \in Kids /\ k.asked = TRUE /\ k.early = b /\ k.os = children[c].os
      /\ k.logged = children[c].logged /\ (k.seen <=> children[c].os = "dead")
  <2>1. /\ k.asked = TRUE /\ k \in Kids /\ k.early = b /\ k.os = Delivered[c].os
        /\ k.logged = Delivered[c].logged /\ k.seen = Delivered[c].seen
    BY <1>2, <1>3, AskedKid DEF Kids
  <2>2. QED
    BY <1>1, <2>1
<1> HIDE DEF k
<1>8. /\ children' \in Seq(Kids) /\ Len(children') = Len(children) /\ DOMAIN children' = DOMAIN children
      /\ children'[c] = k /\ \A d \in DOMAIN children \ {c} : children'[d] = Delivered[d]
  BY <1>1, <1>3, <1>7
<1>9. /\ \A d \in DOMAIN children :
           /\ children'[d].os = children[d].os /\ children'[d].logged = children[d].logged
           /\ children'[d].seen <=> children[d].os = "dead"
           /\ d # c => children'[d].asked = children[d].asked /\ children'[d].early = children[d].early
      /\ children'[c].asked = TRUE /\ children'[c].early = b
  BY <1>1, <1>7, <1>8
<1>10. GatewayPortHolder' = GatewayPortHolder
  BY <1>2, <1>8, <1>9 DEF GatewayPortHolder
<1>11. KidsInv'
  BY <1>8, <1>9, <1>10 DEF KidsInv
<1>12. Ages
  BY <1>2, <1>5, <1>8, <1>9 DEF Ages, KidsInv
<1>13. QED
  BY <1>6, <1>8, <1>9, <1>11, <1>12

\* A child just started holds no port, and nobody knows anything of it.
LEMMA SpawnedKids ==
  ASSUME Typed, KidsInv, NEW name \in {"vite", "gateway"}, children' = Spawned(name)
  PROVE  /\ children' \in Seq(Kids) /\ KidsInv' /\ Ages /\ Len(children') = Len(children) + 1
         /\ children'[Len(children) + 1] = Child(name)
<1>1. /\ Delivered \in Seq(Kids) /\ Len(Delivered) = Len(children) /\ DOMAIN Delivered = DOMAIN children
      /\ \A d \in DOMAIN children :
           /\ Delivered[d].os = children[d].os /\ Delivered[d].asked = children[d].asked
           /\ Delivered[d].logged = children[d].logged /\ Delivered[d].early = children[d].early
           /\ Delivered[d].seen <=> children[d].os = "dead"
  BY DeliveredKids
<1>2. DOMAIN children = 1..Len(children) /\ Len(children) \in Nat
  BY DEF Typed
<1>3. /\ Child(name) \in Kids /\ Child(name).os = "starting" /\ ~Child(name).seen
      /\ ~Child(name).logged /\ ~Child(name).early
  BY DEF Child, Kids
<1> DEFINE n == Len(children) + 1
<1>4. /\ children' \in Seq(Kids) /\ Len(children') = n /\ DOMAIN children' = 1..n
      /\ children'[n] = Child(name) /\ \A d \in DOMAIN children : children'[d] = Delivered[d]
  BY <1>1, <1>2, <1>3 DEF Spawned
<1>5. DOMAIN children' = DOMAIN children \cup {n} /\ n \notin DOMAIN children
  BY <1>2, <1>4
<1>6. GatewayPortHolder' = GatewayPortHolder
  BY <1>1, <1>2, <1>3, <1>4 DEF GatewayPortHolder
<1>7. KidsInv'
  BY <1>1, <1>3, <1>4, <1>5, <1>6 DEF KidsInv
<1>8. Ages
  BY <1>1, <1>2, <1>4 DEF Ages, KidsInv
<1>9. QED
  BY <1>4, <1>7, <1>8

\* A steady step keeps what the invariant says of the gateway of an execution, and of
\* every execution that ended.
LEMMA EndedStays ==
  ASSUME Typed, PastInv, Ages, past' = past, stopFailures => stopFailures'
  PROVE  PastInv'
<1>1. past \in Seq(Executions) /\ Len(children) \in Nat /\ DOMAIN children = 1..Len(children)
  BY DEF Typed
<1>2. ASSUME NEW x \in DOMAIN past
      PROVE  EndedWell(past[x])'
  <2> DEFINE e == past[x]
  <2>1. past[x]' = e /\ EndedWell(e) /\ e.gateway \in {0} \cup 2..Len(children)
    BY <1>2 DEF PastInv, EndedWell
  <2> HIDE DEF e
  <2>2. e.gateway \in {0} \cup 2..Len(children')
    BY <1>1, <2>1 DEF Ages
  <2>3. e.gateway # 0 => e.gateway \in DOMAIN children
    BY <1>1, <2>1
  <2>4. QED
    BY <2>1, <2>2, <2>3 DEF EndedWell, Ages
<1>3. QED
  BY <1>2 DEF PastInv

-----------------------------------------------------------------------------
(* The processes and the page                                              *)

LEMMA ListenSteady ==
  ASSUME Typed, KidsInv, NEW c \in DOMAIN children, Listen(c)
  PROVE  children' \in Seq(Kids) /\ KidsInv' /\ Steady
<1> DEFINE free == IF c = 1 THEN squatter = "none" ELSE GatewayPortHolder = {}
<1>1. /\ children \in Seq(Kids) /\ children[c] \in Kids /\ children[c].os = "starting"
      /\ DOMAIN children = 1..Len(children) /\ Len(children) \in Nat /\ ~children[c].seen
  BY DEF Typed, Listen, KidsInv
<1>2. \/ free /\ children' = [children EXCEPT ![c] = [children[c] EXCEPT !.os = "listening", !.logged = TRUE]]
      \/ children' = [children EXCEPT ![c] = [children[c] EXCEPT !.os = "dead", !.cause = "self"]]
  BY <1>1 DEF Listen
<1> DEFINE k == children'[c]
<1>3. /\ k \in Kids /\ k.seen = children[c].seen /\ k.asked = children[c].asked
      /\ k.early = children[c].early /\ k.os # "starting"
      /\ children[c].logged => k.logged
      /\ k.os = "listening" => free
  <2> DEFINE k0 == children[c]
  <2>1. /\ k0 \in Kids
        /\ \/ free /\ k = [k0 EXCEPT !.os = "listening", !.logged = TRUE]
           \/ k = [k0 EXCEPT !.os = "dead", !.cause = "self"]
    BY <1>1, <1>2
  <2> HIDE DEF k0, k, free
  <2>2. /\ k \in Kids /\ k.seen = k0.seen /\ k.asked = k0.asked
        /\ k.early = k0.early /\ k.os # "starting" /\ (k0.logged => k.logged)
        /\ k.os = "listening" => free
    BY <2>1 DEF Kids
  <2>3. QED
    BY <2>2 DEF k0
<1>4. /\ children' \in Seq(Kids) /\ Len(children') = Len(children) /\ DOMAIN children' = DOMAIN children
      /\ \A d \in DOMAIN children \ {c} : children'[d] = children[d]
  BY <1>1, <1>2, <1>3
<1> HIDE DEF k
<1>5. GatewayPortHolder' \subseteq GatewayPortHolder \cup {c}
  BY <1>1, <1>4 DEF GatewayPortHolder
<1>6. c \in GatewayPortHolder' => GatewayPortHolder = {}
  BY <1>1, <1>3, <1>4 DEF GatewayPortHolder, k
<1>7. \A d, e \in GatewayPortHolder' : d = e
  BY <1>5, <1>6 DEF KidsInv
<1>8. KidsInv'
  BY <1>1, <1>3, <1>4, <1>7 DEF KidsInv, k
<1>9. Steady
  BY <1>1, <1>3, <1>4 DEF Steady, Ages, k
<1>10. QED
  BY <1>4, <1>8, <1>9

LEMMA EndsSteady ==
  ASSUME Typed, KidsInv, NEW c \in DOMAIN children, Die(c) \/ ExitEvent(c)
  PROVE  children' \in Seq(Kids) /\ KidsInv' /\ Steady
<1>1. /\ children \in Seq(Kids) /\ children[c] \in Kids
      /\ DOMAIN children = 1..Len(children) /\ Len(children) \in Nat
  BY DEF Typed
<1>2. \/ children' = [children EXCEPT ![c] = [children[c] EXCEPT !.os = "dead", !.cause = "asked"]]
      \/ children' = [children EXCEPT ![c] = [children[c] EXCEPT !.os = "dead", !.cause = "self"]]
      \/ children[c].os = "dead" /\ children' = [children EXCEPT ![c] = [children[c] EXCEPT !.seen = TRUE]]
  BY <1>1 DEF Die, ExitEvent
<1> DEFINE k == children'[c]
<1>3. /\ k \in Kids /\ k.asked = children[c].asked
      /\ k.early = children[c].early /\ k.os = "dead" /\ k.logged = children[c].logged
      /\ children[c].seen => k.seen
  <2> DEFINE k0 == children[c]
  <2>1. /\ k0 \in Kids
        /\ \/ k = [k0 EXCEPT !.os = "dead", !.cause = "asked"]
           \/ k = [k0 EXCEPT !.os = "dead", !.cause = "self"]
           \/ k0.os = "dead" /\ k = [k0 EXCEPT !.seen = TRUE]
    BY <1>1, <1>2
  <2> HIDE DEF k0, k
  <2>2. /\ k \in Kids /\ k.asked = k0.asked /\ k.early = k0.early /\ k.os = "dead"
        /\ k.logged = k0.logged /\ (k0.seen => k.seen)
    BY <2>1 DEF Kids
  <2>3. QED
    BY <2>2 DEF k0
<1>4. /\ children' \in Seq(Kids) /\ Len(children') = Len(children) /\ DOMAIN children' = DOMAIN children
      /\ \A d \in DOMAIN children \ {c} : children'[d] = children[d]
  BY <1>1, <1>2, <1>3
<1> HIDE DEF k
<1>5. GatewayPortHolder' \subseteq GatewayPortHolder
  BY <1>1, <1>3, <1>4 DEF GatewayPortHolder, k
<1>6. KidsInv'
  BY <1>1, <1>3, <1>4, <1>5 DEF KidsInv, k
<1>7. Steady
  BY <1>1, <1>3, <1>4 DEF Steady, Ages, k
<1>8. QED
  BY <1>4, <1>6, <1>7

\* A step of the children that leaves the executor where it was.
LEMMA SteadyStep ==
  ASSUME AttemptInv, children' \in Seq(Kids), KidsInv', Steady,
         UNCHANGED <<stopFailures, page, pc, mon, execution, past>>, squatter' \in {"none"} \cup Squatters
  PROVE  AttemptInv'
<1>1. /\ Len(children') = Len(children) /\ Len(children) \in Nat
      /\ DOMAIN children = 1..Len(children) /\ DOMAIN children' = DOMAIN children
      /\ mon \in Monitors
  BY DEF AttemptInv, Typed, Steady
<1>2. where' = where
  BY DEF where
<1>3. Typed'
  BY DEF AttemptInv, Typed
<1>4. PastInv'
  BY EndedStays DEF AttemptInv, Steady
<1>5. ControlInv'
  <2>1. children # <<>> => children' # <<>>
    BY <1>1
  <2> HIDE DEF where
  <2>2. QED
    BY <1>1, <1>2, <2>1 DEF AttemptInv, ControlInv, Steady, Ages
<1>6. GateInv' /\ StopInv'
  <2>1. execution.gateway \in {0} \cup 2..Len(children) \/ where \notin Working
    BY DEF AttemptInv, GateInv
  <2>2. StopInv'
    <3>1. SUFFICES ASSUME ~stopFailures, execution.gateway # 0,
                          pc \in {"finalize", "record"} \/ (pc = "caught" /\ mon.gateway = 0)
                   PROVE  children'[execution.gateway].os = "dead"
      BY DEF StopInv
    <3>2. where \in Working
      BY <3>1 DEF where, Working, UpToFinalize, Judging, Ending
    <3>3. execution.gateway \in DOMAIN children /\ children[execution.gateway].os = "dead"
      BY <1>1, <2>1, <3>1, <3>2 DEF AttemptInv, StopInv
    <3>4. QED
      BY <3>3 DEF Steady, Ages
  <2> HIDE DEF where
  <2>3. GateInv'
    BY <1>1, <1>2, <2>1 DEF AttemptInv, GateInv, Steady, Ages
  <2>4. QED
    BY <2>2, <2>3
<1>7. WindowInv' /\ FileInv'
  <2> HIDE DEF where
  <2>1. QED
    BY <1>2 DEF AttemptInv, WindowInv, FileInv, FailureOf
<1>8. QED
  BY <1>3, <1>4, <1>5, <1>6, <1>7 DEF AttemptInv

\* What the page does of its own accord disturbs only what is said of its window.
LEMMA PageStepKeeps ==
  ASSUME AttemptInv, Page
  PROVE  AttemptInv'
<1>1. page \in Pages /\ MaxLoads \in Nat \ {0} /\ MaxTick \in Nat \ {0}
  BY AttemptAssumption DEF AttemptInv, Typed
<1>2. PICK p : /\ page' = p /\ UNCHANGED <<children, stopFailures, squatter, pc, mon, execution, past>>
               /\ \/ /\ page.run = "running"
                     /\ p = IF page.tick + 1 = MaxTick
                              THEN [page EXCEPT !.tick = MaxTick, !.run = "complete"]
                              ELSE [page EXCEPT !.tick = page.tick + 1]
                  \/ /\ page.load < MaxLoads
                     /\ p = [NoPage EXCEPT !.open = TRUE, !.alive = Server # "none",
                                           !.load = page.load + 1, !.served = Server]
                  \/ \E still \in {"all", "closing", "nothing"} : p = [page EXCEPT !.answers = still]
                  \/ p = [page EXCEPT !.alive = FALSE, !.answers = "all"]
  BY DEF Page, PageTicks, PageReloads, PageHangs, PageRecovers, PageCrashes, PageStep
<1>3. Server \in {"none", "ours", "squatter"}
  BY DEF Server
<1>4. /\ page' \in Pages
      /\ page'.run = "idle" => page'.tick = 0 \/ (page'.tick = page.tick /\ page.run = "idle")
      /\ page'.run = "running" => page.run = "running" /\ (page'.tick < MaxTick \/ page'.tick = page.tick)
      /\ page.run = "idle" => page'.run = "idle"
      /\ page'.load = page.load \/ page'.load = page.load + 1
      /\ page'.load = page.load /\ page.run = "complete" => page'.run = "complete"
  <2>1. CASE page.run = "running" /\ page.tick + 1 = MaxTick
                 /\ page' = [page EXCEPT !.tick = MaxTick, !.run = "complete"]
    <3>1. MaxTick \in 0..MaxTick
      BY <1>1
    <3>2. /\ page' \in Pages /\ page'.run = "complete" /\ page'.load = page.load
      BY <1>1, <2>1, <3>1 DEF Pages
    <3>3. QED
      BY <2>1, <3>2
  <2>2. CASE page.run = "running" /\ page.tick + 1 # MaxTick /\ page' = [page EXCEPT !.tick = page.tick + 1]
    <3>1. page.tick < MaxTick /\ page.tick \in Nat
      BY <1>1, <2>2 DEF AttemptInv, WindowInv, Pages
    <3>2. page.tick + 1 \in 0..MaxTick /\ page.tick + 1 < MaxTick
      BY <1>1, <2>2, <3>1
    <3>3. QED
      BY <1>1, <2>2, <3>2 DEF Pages
  <2>3. CASE /\ page.load < MaxLoads
             /\ page' = [NoPage EXCEPT !.open = TRUE, !.alive = Server # "none",
                                       !.load = page.load + 1, !.served = Server]
    <3>1. page.load \in Nat /\ page.load + 1 \in 0..MaxLoads /\ 0 \in 0..MaxTick
      BY <1>1, <2>3 DEF Pages
    <3>2. page' = [open |-> TRUE, alive |-> Server # "none", load |-> page.load + 1,
                   served |-> Server, run |-> "idle", tick |-> 0, answers |-> "all"]
      BY <2>3 DEF NoPage
    <3>3. page' \in Pages /\ page'.run = "idle" /\ page'.tick = 0 /\ page'.load = page.load + 1
      BY <1>3, <3>1, <3>2 DEF Pages
    <3>4. QED
      BY <3>1, <3>3
  <2>4. CASE \/ \E still \in {"all", "closing", "nothing"} : page' = [page EXCEPT !.answers = still]
             \/ page' = [page EXCEPT !.alive = FALSE, !.answers = "all"]
    BY <1>1, <2>4 DEF Pages
  <2>5. QED
    BY <1>2, <2>1, <2>2, <2>3, <2>4
<1>5. where' = where /\ page.load \in Nat /\ page'.load \in Nat
  BY <1>1, <1>2, <1>4 DEF where, Pages
<1> HIDE DEF where
<1>6. WindowInv'
  <2>1. execution.load \in Nat /\ execution.ledger.load \in Nat
    BY <1>1 DEF AttemptInv, Typed, Executions, Pages
  <2>2. page'.load \in {page.load, page.load + 1}
    BY <1>4
  <2>3. \A n \in Nat : n \in 1..page.load => n \in 1..page'.load
    BY <1>5, <2>2
  <2>4. (page'.run = "idle" => page'.tick = 0) /\ (page'.run = "running" => page'.tick < MaxTick)
    BY <1>4 DEF AttemptInv, WindowInv
  <2>5. where \in OnPage => page.load >= 1 /\ page'.load >= 1 /\ (page'.load = 1 => page'.load = page.load)
    BY <1>5, <2>2 DEF AttemptInv, WindowInv
  <2>6. where \in {"tick", "trigger", "watch", "ledger"} => where \in OnPage
    BY DEF OnPage, Monitoring, Collecting
  <2>7. QED
    BY <1>2, <1>4, <1>5, <2>1, <2>3, <2>4, <2>5, <2>6 DEF AttemptInv, WindowInv
<1>7. Typed' /\ KidsInv' /\ StopInv'
  BY <1>2, <1>4 DEF AttemptInv, Typed, KidsInv, StopInv, GatewayPortHolder
<1>8. ControlInv' /\ GateInv'
  BY <1>2, <1>5 DEF AttemptInv, ControlInv, GateInv
<1>9. FileInv' /\ PastInv'
  BY <1>2, <1>5 DEF AttemptInv, FileInv, FailureOf, PastInv, EndedWell
<1>10. QED
  BY <1>6, <1>7, <1>8, <1>9 DEF AttemptInv

\* A gateway that still writes into a directory is one whose stop went unconfirmed.
LEMMA GatewayWritesKeeps ==
  ASSUME AttemptInv, NEW c \in DOMAIN children, GatewayWrites(c)
  PROVE  AttemptInv'
<1>1. past \in Seq(Executions) /\ DOMAIN past = 1..Len(past)
  BY DEF AttemptInv, Typed
<1>2. PICK x \in DOMAIN past :
        /\ past[x].gateway = c /\ past' = [past EXCEPT ![x] = [past[x] EXCEPT !.dirty = TRUE]]
        /\ c > 1 /\ children[c].os = "listening"
        /\ UNCHANGED <<children, stopFailures, squatter, page, pc, mon, execution>>
  BY <1>1 DEF GatewayWrites
<1> DEFINE e == past[x]
<1> DEFINE f == [e EXCEPT !.dirty = TRUE]
<1>3. /\ e \in Executions /\ EndedWell(e) /\ e.gateway = c /\ past' = [past EXCEPT ![x] = f]
  BY <1>1, <1>2 DEF AttemptInv, PastInv
<1> HIDE DEF e
<1>4. stopFailures
  BY <1>2, <1>3 DEF EndedWell
<1>5. /\ f \in Executions /\ f.gateway = e.gateway /\ f.status = e.status /\ f.ledger = e.ledger
      /\ f.load = e.load /\ f.replay = e.replay /\ f.kind = e.kind /\ f.verified = e.verified
      /\ f.files = e.files /\ f.study = e.study /\ f.reason = e.reason
  BY <1>3 DEF Executions
<1> HIDE DEF f
<1>6. EndedWell(f)
  BY <1>3, <1>4, <1>5 DEF EndedWell, FailureOf
<1>7. /\ past' \in Seq(Executions) /\ Len(past') = Len(past) /\ DOMAIN past' = DOMAIN past
      /\ past'[x] = f /\ \A y \in DOMAIN past \ {x} : past'[y] = past[y]
  BY <1>1, <1>3, <1>5
<1>8. PastInv'
  BY <1>2, <1>6, <1>7 DEF AttemptInv, PastInv, EndedWell, FailureOf
<1>9. where' = where
  BY <1>2 DEF where
<1> HIDE DEF where
<1>10. Typed' /\ KidsInv' /\ StopInv'
  BY <1>2, <1>7 DEF AttemptInv, Typed, KidsInv, StopInv, GatewayPortHolder
<1>11. ControlInv' /\ GateInv'
  BY <1>2, <1>7, <1>9 DEF AttemptInv, ControlInv, GateInv
<1>12. WindowInv' /\ FileInv'
  BY <1>2, <1>9 DEF AttemptInv, WindowInv, FileInv, FailureOf
<1>13. QED
  BY <1>8, <1>10, <1>11, <1>12 DEF AttemptInv

LEMMA ProcessesKeep ==
  ASSUME AttemptInv, Processes
  PROVE  AttemptInv'
<1>1. Typed /\ KidsInv
  BY DEF AttemptInv
<1>2. ASSUME NEW c \in DOMAIN children, Listen(c)
      PROVE  AttemptInv'
  BY <1>1, <1>2, ListenSteady, SteadyStep DEF Listen, Typed
<1>3. ASSUME NEW c \in DOMAIN children, Die(c) \/ ExitEvent(c)
      PROVE  AttemptInv'
  BY <1>1, <1>3, EndsSteady, SteadyStep DEF Die, ExitEvent, Typed
<1>4. CASE SquatterVanishes
  <2>1. /\ children' = children /\ squatter' = "none"
        /\ UNCHANGED <<stopFailures, page, pc, mon, execution, past>>
    BY <1>4 DEF SquatterVanishes
  <2>2. children' \in Seq(Kids) /\ KidsInv' /\ Len(children) = Len(children') /\ Len(children) \in Nat
    BY <1>1, <2>1 DEF Typed, KidsInv, GatewayPortHolder
  <2>3. Steady
    BY <2>1, <2>2 DEF Steady, Ages
  <2>4. QED
    BY <2>1, <2>2, <2>3, SteadyStep
<1>5. QED
  BY <1>2, <1>3, <1>4, GatewayWritesKeeps DEF Processes

-----------------------------------------------------------------------------
(* The executor: failures                                                  *)

\* What Goto(next) does to the children and to the executions that ended.
LEMMA GotoSteady ==
  ASSUME AttemptInv, NEW next \in Stations, Goto(next)
  PROVE  /\ pc' = next /\ UNCHANGED <<stopFailures, squatter, past>>
         /\ children' \in Seq(Kids) /\ KidsInv' /\ Steady /\ PastInv'
         /\ DOMAIN children' = DOMAIN children /\ DOMAIN children = 1..Len(children)
         /\ Len(children) \in Nat /\ Len(children') = Len(children)
         /\ \A c \in DOMAIN children : children[c].os = "dead" => children'[c].seen
         /\ \A c \in DOMAIN children :
              /\ children[c].os = "dead" => children'[c].os = "dead"
              /\ children[c].seen => children'[c].seen
              /\ children[c].logged => children'[c].logged
              /\ children'[c].asked = children[c].asked /\ children'[c].early = children[c].early
<1>1. /\ Typed /\ KidsInv /\ PastInv /\ children' = Delivered /\ pc' = next
      /\ UNCHANGED <<stopFailures, squatter, past>>
  BY DEF AttemptInv, Goto
<1>2. children \in Seq(Kids)
  BY <1>1 DEF Typed
<1>3. /\ children' \in Seq(Kids) /\ KidsInv' /\ Steady
      /\ \A c \in DOMAIN children : children[c].os = "dead" => children'[c].seen
  BY <1>1, DeliveredSteady
<1>4. PastInv'
  BY <1>1, <1>3, EndedStays DEF Steady
<1>5. QED
  BY <1>1, <1>2, <1>3, <1>4 DEF Steady, Ages

\* An execution that is about to be recorded as failed.
LEMMA CaughtKeeps ==
  ASSUME AttemptInv, Goto("caught"), pc \in UpToFinalize, page' \in {page, NoPage}, mon' = mon,
         execution' \in Executions, FailureOf(execution'), ~execution'.dirty,
         execution'.gateway = execution.gateway,
         mon.gateway = 0 => execution.gateway = 0
  PROVE  AttemptInv'
<1>1. /\ where = pc /\ where' = "caught" /\ pc' = "caught" /\ where \in Working
      /\ pc \notin {"terminating", "killing"}
  BY DEF Goto, where, Working, UpToFinalize, BeforeBrowser, OnPage, Configuring, Monitoring,
     Collecting, Judging
<1>2. "caught" \in Stations
  BY DEF Stations, Working, Ending
<1>3. /\ UNCHANGED <<stopFailures, squatter, past>>
      /\ children' \in Seq(Kids) /\ KidsInv' /\ PastInv'
      /\ DOMAIN children' = DOMAIN children /\ DOMAIN children = 1..Len(children)
      /\ Len(children) \in Nat /\ Len(children') = Len(children)
      /\ \A c \in DOMAIN children :
           /\ children[c].seen => children'[c].seen
           /\ children'[c].asked = children[c].asked
  BY <1>2, GotoSteady
<1>4. NoPage \in Pages /\ NoPage.run = "idle" /\ NoPage.tick = 0
  BY AttemptAssumption DEF NoPage, Pages
<1>5. Typed'
  BY <1>1, <1>2, <1>3, <1>4 DEF AttemptInv, Typed
<1> HIDE DEF where
<1>6. ControlInv'
  <2>1. children # <<>> => children' # <<>>
    BY <1>3
  <2>2. "caught" \in Working /\ where \notin Outside
    BY <1>1 DEF Working, Ending, Outside, UpToFinalize, BeforeBrowser, OnPage, Configuring, Monitoring,
       Collecting, Judging
  <2>3. where \notin {"preflight", "closing", "done"}
    BY <2>2 DEF Outside
  <2>4. QED
    BY <1>1, <1>3, <2>1, <2>2, <2>3 DEF AttemptInv, ControlInv
<1>7. GateInv'
  <2>1. "caught" \notin UpToFinalize
    BY DEF UpToFinalize, BeforeBrowser, OnPage, Configuring, Monitoring, Collecting, Judging
  <2>2. /\ execution.gateway \in {0} \cup 2..Len(children) /\ mon.gateway \in {0, execution.gateway}
        /\ mon.plannedStopIssued => execution.gateway # 0 /\ children[execution.gateway].asked
    BY <1>1 DEF AttemptInv, GateInv
  <2>3. \A c \in {"open"} \cup OnPage \cup {"artifacts", "evidence", "setup", "gateway-ready", "verify", "finalize"} :
          c \in UpToFinalize
    BY DEF UpToFinalize, BeforeBrowser, Judging
  <2>4. QED
    BY <1>1, <1>3, <2>1, <2>2, <2>3 DEF GateInv
<1>8. StopInv'
  BY <1>1 DEF StopInv
<1>9. WindowInv'
  <2>1. "caught" \notin BeforeBrowser \cup {"open"} \cup OnPage \cup {"artifacts"} \cup Judging
    BY DEF BeforeBrowser, OnPage, Configuring, Monitoring, Collecting, Judging
  <2>2. (page'.run = "idle" => page'.tick = 0) /\ (page'.run = "running" => page'.tick < MaxTick)
    BY <1>4 DEF AttemptInv, WindowInv
  <2>3. QED
    BY <1>1, <2>1, <2>2 DEF WindowInv, OnPage, Monitoring, Collecting, Judging
<1>10. FileInv'
  BY <1>1 DEF FileInv, UpToFinalize, BeforeBrowser, OnPage, Configuring, Monitoring, Collecting, Judging, FailureOf
<1>11. QED
  BY <1>3, <1>5, <1>6, <1>7, <1>8, <1>9, <1>10 DEF AttemptInv

\* The stations where a throw leaves through runBrowserAttempt's catch.
Browsing == {"open"} \cup OnPage

LEMMA FailInBrowserKeeps ==
  ASSUME AttemptInv, pc \in Browsing, NEW reason \in Reasons, FailInBrowser(reason)
  PROVE  AttemptInv'
<1>1. pc \in UpToFinalize /\ where = pc /\ pc \notin Judging \cup {"setup", "gateway-ready"}
  BY DEF Browsing, UpToFinalize, where, BeforeBrowser, OnPage, Configuring, Monitoring, Collecting, Judging
<1>2. PICK captured \in {FALSE, Answering} :
        execution' = [captureDiagnostics(captured) EXCEPT !.reason = reason, !.stage = "browser"]
  BY DEF FailInBrowser
<1>3. Goto("caught") /\ page' = NoPage /\ mon' = mon
  BY DEF FailInBrowser
<1> DEFINE added == {"diagnostics"} \cup (IF captured THEN {"failure"} ELSE {})
                       \cup (IF captured /\ ~mon.traceClosed THEN {"failure-trace"} ELSE {})
<1>4. /\ execution \in Executions /\ execution.files \subseteq {"ledger", "bundle"}
      /\ execution.study = "none" /\ ~execution.dirty
  BY <1>1 DEF AttemptInv, Typed, FileInv, Working
<1>5. /\ execution' = [execution EXCEPT !.files = execution.files \cup added,
                                       !.reason = reason, !.stage = "browser"]
      /\ added \subseteq {"diagnostics", "failure", "failure-trace"} /\ "diagnostics" \in added
  BY <1>2, <1>4 DEF captureDiagnostics, With, Executions
<1> HIDE DEF added
<1>6. execution.files \cup added \in SUBSET Files
  BY <1>4, <1>5 DEF Files
<1>7. /\ execution' \in Executions /\ execution'.files = execution.files \cup added
      /\ execution'.study = execution.study /\ execution'.dirty = execution.dirty
      /\ execution'.gateway = execution.gateway
  BY <1>4, <1>5, <1>6 DEF Executions, Places
<1>8. FailureOf(execution')
  BY <1>4, <1>5, <1>7 DEF FailureOf
<1>9. mon.gateway = 0 => execution.gateway = 0
  BY <1>1 DEF AttemptInv, GateInv, Working
<1>10. QED
  BY <1>1, <1>3, <1>4, <1>7, <1>8, <1>9, CaughtKeeps

LEMMA FailKeeps ==
  ASSUME AttemptInv, pc \in {"setup", "verify"} \cup Judging, NEW reason \in Reasons,
         NEW stage \in Places, Fail(reason, stage)
  PROVE  AttemptInv'
<1>1. pc \in UpToFinalize /\ where = pc
  BY DEF UpToFinalize, where, BeforeBrowser, Judging
<1>2. /\ execution' = [execution EXCEPT !.reason = reason, !.stage = stage]
      /\ Goto("caught") /\ page' = page /\ mon' = mon
  BY DEF Fail
<1>3. /\ execution \in Executions /\ execution.study = "none" /\ ~execution.dirty
      /\ pc \in Judging => "diagnostics" \in execution.files
      /\ ~({"attempt-trace", "failure-trace"} \subseteq execution.files)
  BY <1>1 DEF AttemptInv, Typed, FileInv, Working, UpToFinalize, BeforeBrowser, Judging
<1>4. pc \notin Judging => execution.load = 0
  BY <1>1 DEF AttemptInv, WindowInv, BeforeBrowser
<1>5. /\ execution' \in Executions /\ execution'.files = execution.files
      /\ execution'.study = execution.study /\ execution'.dirty = execution.dirty
      /\ execution'.gateway = execution.gateway /\ execution'.load = execution.load
  BY <1>2, <1>3 DEF Executions
<1>6. FailureOf(execution')
  BY <1>3, <1>4, <1>5 DEF FailureOf
<1>7. mon.gateway = 0 => execution.gateway = 0
  BY <1>1 DEF AttemptInv, GateInv, Working, UpToFinalize, BeforeBrowser, Judging
<1>8. QED
  BY <1>1, <1>2, <1>3, <1>5, <1>6, <1>7, CaughtKeeps

-----------------------------------------------------------------------------
(* The executor: the browser phase                                         *)

\* A step of the browser phase leaves the gateway of the execution alone: what remains
\* to be shown of it is the window and the files.
LEMMA OnwardKeeps ==
  ASSUME AttemptInv, pc \in Browsing \cup {"artifacts"},
         NEW next \in OnPage \cup {"artifacts", "evidence"}, Goto(next),
         page' \in Pages, mon' \in Monitors, execution' \in Executions,
         UNCHANGED <<mon.gateway, mon.plannedStopIssued, mon.stopped>>,
         UNCHANGED <<execution.gateway, execution.verified, execution.kind, execution.study, execution.dirty>>,
         next # "evidence" => execution'.files \subseteq {"ledger", "bundle"},
         next = "evidence" => /\ execution'.files \subseteq {"ledger", "bundle", "diagnostics", "attempt-trace"}
                              /\ "diagnostics" \in execution'.files,
         WindowInv'
  PROVE  AttemptInv'
<1>1. /\ pc \in Working /\ pc \in UpToFinalize /\ pc \notin {"setup", "gateway-ready", "verify", "finalize"}
      /\ pc \in {"open"} \cup OnPage \cup {"artifacts", "evidence"} /\ pc \notin {"terminating", "killing"} \cup Outside
  BY DEF Browsing, Working, UpToFinalize, BeforeBrowser, OnPage, Configuring, Monitoring, Collecting, Judging, Outside
<1>2. /\ next \in Working /\ next \in UpToFinalize /\ next \notin {"setup", "gateway-ready", "verify", "finalize"}
      /\ next \in {"open"} \cup OnPage \cup {"artifacts", "evidence"} /\ next \notin Ending \cup Outside
      /\ next \in Stations /\ next \notin {"terminating", "killing"}
      /\ next \in Judging <=> next = "evidence"
  BY DEF Working, UpToFinalize, BeforeBrowser, OnPage, Configuring, Monitoring, Collecting, Judging, Ending,
     Stations, Outside
<1>3. /\ UNCHANGED <<stopFailures, squatter, past>> /\ pc' = next
      /\ children' \in Seq(Kids) /\ KidsInv' /\ PastInv'
      /\ DOMAIN children' = DOMAIN children /\ DOMAIN children = 1..Len(children)
      /\ Len(children) \in Nat /\ Len(children') = Len(children)
      /\ \A c \in DOMAIN children :
              /\ children[c].seen => children'[c].seen
              /\ children'[c].asked = children[c].asked /\ children'[c].early = children[c].early
  BY <1>2, GotoSteady
<1>4. where = pc /\ where' = next
  BY <1>1, <1>2, <1>3 DEF where
<1>5. Typed'
  BY <1>2, <1>3 DEF AttemptInv, Typed
<1> HIDE DEF where
<1>6. ControlInv'
  <2>1. children # <<>> => children' # <<>>
    BY <1>3
  <2>2. where \notin {"preflight", "closing", "done"} /\ next \notin {"preflight", "closing", "done"}
    BY <1>1, <1>2, <1>4 DEF Outside
  <2>3. QED
    BY <1>1, <1>2, <1>3, <1>4, <2>1, <2>2 DEF AttemptInv, ControlInv
<1>7. GateInv'
  <2> DEFINE g == execution.gateway
  <2>1. /\ g \in {0} \cup 2..Len(children) /\ mon.gateway = g
        /\ execution.kind = "baseline" <=> g = 0
        /\ mon.plannedStopIssued => g # 0 /\ children[g].asked
        /\ g # 0 => ~children[g].early
        /\ g # 0 => execution.verified = g \/ (children[g].seen /\ ~children[g].asked)
    BY <1>1, <1>4 DEF AttemptInv, GateInv
  <2> HIDE DEF g
  <2>2. execution'.gateway = g
    BY DEF g
  <2>3. g # 0 => g \in DOMAIN children
    BY <1>3, <2>1
  <2>4. QED
    BY <1>2, <1>3, <1>4, <2>1, <2>2, <2>3 DEF GateInv
<1>8. StopInv'
  BY <1>2, <1>3 DEF StopInv, Ending
<1>9. FileInv'
  BY <1>1, <1>2, <1>4 DEF AttemptInv, FileInv
<1>10. QED
  BY <1>3, <1>5, <1>6, <1>7, <1>8, <1>9 DEF AttemptInv

\* Where the executor is while no stop is under way.
LEMMA AtStation ==
  ASSUME NEW next, pc' = next
  PROVE  /\ pc \notin {"terminating", "killing"} => where = pc
         /\ next \notin {"terminating", "killing"} => where' = next
BY DEF where

\* The types of what an execution at work reads.
LEMMA Fields ==
  ASSUME AttemptInv
  PROVE  /\ page \in Pages /\ mon \in Monitors /\ execution \in Executions
         /\ page.load \in Nat /\ page.load <= MaxLoads /\ page.tick \in 0..MaxTick
         /\ execution.load \in Nat /\ execution.ledger.load \in Nat
         /\ mon.ran \in Nat /\ mon.quiet \in Nat /\ mon.gateway \in Nat
         /\ {MaxExecutions, StopTick, RunTimeout, StallTimeout, StallGrace} \subseteq Nat
         /\ {MaxLoads, MaxTick} \subseteq Nat \ {0}
<1>1. page \in Pages /\ mon \in Monitors /\ execution \in Executions
  BY DEF AttemptInv, Typed
<1>2. execution.ledger \in Pages /\ execution.load \in 0..MaxLoads
  BY <1>1 DEF Executions
<1>3. \A p \in Pages : p.load \in 0..MaxLoads /\ p.tick \in 0..MaxTick
  BY DEF Pages
<1>4. mon.ran \in 0..(RunTimeout + StallGrace + 1) /\ mon.quiet \in Nat /\ mon.gateway \in Nat
  BY <1>1 DEF Monitors
<1>5. QED
  BY <1>1, <1>2, <1>3, <1>4, AttemptAssumption

LEMMA OpenKeeps ==
  ASSUME AttemptInv, Open
  PROVE  AttemptInv'
<1>1. pc = "open" /\ pc \in Browsing /\ "browser-error" \in Reasons
  BY DEF Open, Browsing, Reasons
<1>2. CASE FailInBrowser("browser-error")
  BY <1>1, <1>2, FailInBrowserKeeps
<1>3. CASE /\ page' = [NoPage EXCEPT !.open = TRUE, !.alive = TRUE, !.load = 1, !.served = Server]
           /\ mon' = [mon EXCEPT !.load = 1] /\ Goto("configure") /\ execution' = execution
  <2>1. /\ page' = [open |-> TRUE, alive |-> TRUE, load |-> 1, served |-> Server,
                    run |-> "idle", tick |-> 0, answers |-> "all"]
        /\ Server \in {"none", "ours", "squatter"}
    BY <1>3 DEF NoPage, Server
  <2>2. 1 \in 0..MaxLoads /\ 0 \in 0..MaxTick
    BY Fields
  <2>3. page' \in Pages /\ page'.load = 1 /\ page'.run = "idle" /\ page'.tick = 0
    BY <2>1, <2>2 DEF Pages
  <2>4. /\ mon' \in Monitors /\ mon'.load = 1
        /\ UNCHANGED <<mon.gateway, mon.plannedStopIssued, mon.stopped>>
    BY <1>3, Fields DEF Monitors
  <2>5. where = "open" /\ where' = "configure"
    BY <1>1, <1>3, AtStation DEF Goto
  <2>6. execution.load = 0 /\ execution.files \subseteq {"ledger", "bundle"}
    BY <2>5 DEF AttemptInv, WindowInv, FileInv, UpToFinalize, Judging
  <2>7. WindowInv'
    BY <1>3, <2>3, <2>4, <2>5, <2>6 DEF WindowInv, BeforeBrowser, OnPage, Configuring, Monitoring, Collecting, Judging
  <2>8. QED
    BY <1>1, <1>3, <2>3, <2>4, <2>6, <2>7, Fields, OnwardKeeps DEF OnPage, Configuring
<1>4. QED
  BY <1>2, <1>3 DEF Open

\* What the invariant says at a station of the browser phase.
LEMMA BrowsingFacts ==
  ASSUME AttemptInv, pc \in Browsing \cup {"artifacts"}
  PROVE  /\ where = pc /\ execution.files \subseteq {"ledger", "bundle"}
         /\ page.run = "idle" => page.tick = 0
         /\ page.run = "running" => page.tick < MaxTick
         /\ pc \in Configuring => page.run = "idle" /\ execution.load = 0
         /\ pc \in OnPage => mon.load = 1 /\ page.load >= 1
         /\ pc \in Monitoring \cup Collecting => execution.load \in 1..page.load
         /\ pc \in {"tick", "trigger", "watch", "ledger"} /\ mon.status = "complete" /\ page.load = 1 =>
              page.run = "complete"
         /\ pc = "ledger" => mon.status = "complete"
         /\ pc \in {"bundle", "replay", "leave"} =>
              /\ execution.ledger.load \in 1..page.load
              /\ execution.ledger.load = 1 => execution.ledger.run = "complete"
         /\ pc \in {"leave", "artifacts"} => execution.replay = "match"
         /\ pc = "artifacts" =>
              execution.load = 1 /\ execution.ledger.load = 1 /\ execution.ledger.run = "complete"
         /\ pc \in {"status", "tick", "trigger", "watch"} => mon.ran <= RunTimeout
<1>1. /\ pc \notin {"terminating", "killing"} /\ pc \in UpToFinalize \ Judging
  BY DEF Browsing, OnPage, Configuring, Monitoring, Collecting, UpToFinalize, Judging, BeforeBrowser
<1>2. where = pc
  BY <1>1 DEF where
<1> HIDE DEF where
<1>3. QED
  BY <1>1, <1>2 DEF AttemptInv, WindowInv, FileInv

\* A step from one station of the page to another that writes no more than the monitor.
LEMMA MonitorKeeps ==
  ASSUME AttemptInv, pc \in OnPage, NEW next \in OnPage, Goto(next), mon' \in Monitors,
         UNCHANGED <<page, execution>>,
         UNCHANGED <<mon.load, mon.gateway, mon.plannedStopIssued, mon.stopped>>,
         WindowInv'
  PROVE  AttemptInv'
<1>1. pc \in Browsing \cup {"artifacts"} /\ next \in OnPage \cup {"artifacts", "evidence"}
      /\ next # "evidence"
  BY DEF Browsing, OnPage, Configuring, Monitoring, Collecting
<1>2. execution.files \subseteq {"ledger", "bundle"}
  BY <1>1, BrowsingFacts
<1>3. QED
  BY <1>1, <1>2, Fields, OnwardKeeps

LEMMA ConfigureKeeps ==
  ASSUME AttemptInv, Configure
  PROVE  AttemptInv'
<1>1. /\ pc = "configure" /\ pc \in Browsing /\ pc \in OnPage /\ "start" \in OnPage
      /\ {"browser-error", "condition-not-applied", "speed-not-applied", "gateway-not-connected"} \subseteq Reasons
  BY DEF Configure, Browsing, OnPage, Configuring, Reasons
<1>2. CASE \E reason \in Reasons : FailInBrowser(reason)
  BY <1>1, <1>2, FailInBrowserKeeps
<1>3. CASE Goto("start") /\ UNCHANGED <<page, mon, execution>>
  <2>1. where' = "start"
    BY <1>3, AtStation DEF Goto
  <2>2. WindowInv'
    BY <1>1, <1>3, <2>1, BrowsingFacts
    DEF WindowInv, BeforeBrowser, OnPage, Configuring, Monitoring, Collecting, Judging
  <2>3. QED
    BY <1>1, <1>3, <2>2, Fields, MonitorKeeps
<1>4. QED
  BY <1>1, <1>2, <1>3 DEF Configure, Answered

LEMMA ClickStartKeeps ==
  ASSUME AttemptInv, ClickStart
  PROVE  AttemptInv'
<1>1. /\ pc = "start" /\ pc \in Browsing /\ pc \in OnPage /\ pc \in Configuring /\ "poll" \in OnPage
      /\ "browser-error" \in Reasons
  BY DEF ClickStart, Browsing, OnPage, Configuring, Monitoring, Reasons
<1>2. CASE FailInBrowser("browser-error")
  BY <1>1, <1>2, FailInBrowserKeeps
<1>3. CASE /\ page' = [page EXCEPT !.run = "running"]
           /\ execution' = [execution EXCEPT !.load = page.load, !.served = page.served]
           /\ Goto("poll") /\ mon' = mon
  <2>1. /\ page.run = "idle" /\ page.tick = 0 /\ mon.load = 1 /\ page.load >= 1
        /\ execution.files \subseteq {"ledger", "bundle"}
    BY <1>1, BrowsingFacts
  <2>2. page' \in Pages /\ page'.run = "running" /\ page'.load = page.load /\ page'.tick = 0
    BY <1>3, <2>1, Fields DEF Pages
  <2>3. page.load \in 0..MaxLoads /\ page.served \in {"none", "ours", "squatter"}
    BY Fields DEF Pages
  <2>4. /\ execution' \in Executions /\ execution'.load = page.load
        /\ UNCHANGED <<execution.gateway, execution.verified, execution.kind, execution.study,
                       execution.dirty, execution.files>>
    BY <1>3, <2>3, Fields DEF Executions
  <2>5. where' = "poll" /\ 0 < MaxTick /\ page.load \in 1..page.load
    BY <1>3, <2>1, AtStation, Fields DEF Goto
  <2>6. WindowInv'
    BY <1>3, <2>1, <2>2, <2>4, <2>5
    DEF WindowInv, BeforeBrowser, OnPage, Configuring, Monitoring, Collecting, Judging
  <2>7. QED
    BY <1>1, <1>3, <2>1, <2>2, <2>4, <2>6, Fields, OnwardKeeps
<1>4. QED
  BY <1>1, <1>2, <1>3 DEF ClickStart, Answered

LEMMA PollKeeps ==
  ASSUME AttemptInv, Poll
  PROVE  AttemptInv'
<1>1. /\ pc = "poll" /\ pc \in Browsing /\ pc \in OnPage /\ "status" \in OnPage
      /\ {"browser-error", "run-timeout", "unexpected-navigation"} \subseteq Reasons
  BY DEF Poll, Browsing, OnPage, Monitoring, Reasons
<1>2. CASE \E reason \in Reasons : FailInBrowser(reason)
  BY <1>1, <1>2, FailInBrowserKeeps
<1>3. CASE ~(mon.ran > RunTimeout) /\ Goto("status") /\ UNCHANGED <<page, mon, execution>>
  <2>1. where' = "status" /\ mon.ran <= RunTimeout
    BY <1>3, AtStation, Fields DEF Goto
  <2>2. WindowInv'
    BY <1>1, <1>3, <2>1, BrowsingFacts
    DEF WindowInv, BeforeBrowser, OnPage, Configuring, Monitoring, Collecting, Judging
  <2>3. QED
    BY <1>1, <1>3, <2>2, Fields, MonitorKeeps
<1>4. QED
  BY <1>1, <1>2, <1>3 DEF Poll, Awaited

LEMMA ReadStatusKeeps ==
  ASSUME AttemptInv, ReadStatus
  PROVE  AttemptInv'
<1>1. /\ pc = "status" /\ pc \in Browsing /\ pc \in OnPage /\ "tick" \in OnPage
      /\ "browser-error" \in Reasons
  BY DEF ReadStatus, Browsing, OnPage, Monitoring, Reasons
<1>2. CASE FailInBrowser("browser-error")
  BY <1>1, <1>2, FailInBrowserKeeps
<1>3. CASE mon' = [mon EXCEPT !.status = page.run] /\ Goto("tick") /\ UNCHANGED <<page, execution>>
  <2>1. page.run \in {"idle", "running", "complete"}
    BY Fields DEF Pages
  <2>2. /\ mon' \in Monitors /\ mon'.status = page.run
        /\ UNCHANGED <<mon.load, mon.gateway, mon.plannedStopIssued, mon.stopped, mon.ran>>
    BY <1>3, <2>1, Fields DEF Monitors
  <2>3. where' = "tick"
    BY <1>3, AtStation DEF Goto
  <2>4. WindowInv'
    BY <1>1, <1>3, <2>2, <2>3, BrowsingFacts
    DEF WindowInv, BeforeBrowser, OnPage, Configuring, Monitoring, Collecting, Judging
  <2>5. QED
    BY <1>1, <1>3, <2>2, <2>4, MonitorKeeps
<1>4. QED
  BY <1>1, <1>2, <1>3 DEF ReadStatus, Answered

LEMMA ReadTickKeeps ==
  ASSUME AttemptInv, ReadTick
  PROVE  AttemptInv'
<1>1. /\ pc = "tick" /\ pc \in Browsing /\ pc \in OnPage /\ "trigger" \in OnPage
      /\ {"browser-error", "evidence-budget-exceeded"} \subseteq Reasons
  BY DEF ReadTick, Browsing, OnPage, Monitoring, Reasons
<1>2. CASE \E reason \in Reasons : FailInBrowser(reason)
  BY <1>1, <1>2, FailInBrowserKeeps
<1>3. CASE /\ \/ mon' = [mon EXCEPT !.lastTick = page.tick, !.quiet = 0, !.graced = FALSE]
              \/ mon' = mon
           /\ Goto("trigger") /\ UNCHANGED <<page, execution>>
  <2>1. page.tick \in -1..MaxTick
    BY Fields
  <2>2. /\ mon' \in Monitors
        /\ UNCHANGED <<mon.load, mon.gateway, mon.plannedStopIssued, mon.stopped, mon.ran, mon.status>>
    <3>1. mon \in Monitors
      BY Fields
    <3> DEFINE tick == page.tick
    <3>2. \/ mon' = [mon EXCEPT !.lastTick = tick, !.quiet = 0, !.graced = FALSE]
          \/ mon' = mon
      BY <1>3
    <3>3. tick \in -1..MaxTick
      BY <2>1
    <3> HIDE DEF tick
    <3>4. CASE mon' = [mon EXCEPT !.lastTick = tick, !.quiet = 0, !.graced = FALSE]
      BY <3>1, <3>3, <3>4 DEF Monitors
    <3>5. QED
      BY <3>1, <3>2, <3>4
  <2>3. where' = "trigger"
    BY <1>3, AtStation DEF Goto
  <2>4. WindowInv'
    BY <1>1, <1>3, <2>2, <2>3, BrowsingFacts
    DEF WindowInv, BeforeBrowser, OnPage, Configuring, Monitoring, Collecting, Judging
  <2>5. QED
    BY <1>1, <1>3, <2>2, <2>4, MonitorKeeps
<1>4. QED
  BY <1>1, <1>2, <1>3 DEF ReadTick, Answered

LEMMA NoStopDueKeeps ==
  ASSUME AttemptInv, NoStopDue
  PROVE  AttemptInv'
<1>1. /\ pc = "trigger" /\ pc \in Browsing /\ pc \in OnPage /\ "watch" \in OnPage
      /\ Goto("watch") /\ UNCHANGED <<page, mon, execution>>
  BY DEF NoStopDue, Browsing, OnPage, Monitoring
<1>2. where' = "watch"
  BY <1>1, AtStation DEF Goto
<1>3. WindowInv'
  BY <1>1, <1>2, BrowsingFacts
  DEF WindowInv, BeforeBrowser, OnPage, Configuring, Monitoring, Collecting, Judging
<1>4. QED
  BY <1>1, <1>3, Fields, MonitorKeeps

LEMMA WatchKeeps ==
  ASSUME AttemptInv, Watch
  PROVE  AttemptInv'
<1>1. /\ pc = "watch" /\ pc \in Browsing /\ pc \in OnPage /\ {"poll", "ledger"} \subseteq OnPage
      /\ "simulation-stall" \in Reasons
  BY DEF Watch, Browsing, OnPage, Monitoring, Collecting, Reasons
<1>2. CASE FailInBrowser("simulation-stall")
  BY <1>1, <1>2, FailInBrowserKeeps
<1>3. CASE mon.status = "complete" /\ Goto("ledger") /\ UNCHANGED <<page, mon, execution>>
  <2>1. where' = "ledger"
    BY <1>3, AtStation DEF Goto
  <2>2. WindowInv'
    BY <1>1, <1>3, <2>1, BrowsingFacts
    DEF WindowInv, BeforeBrowser, OnPage, Configuring, Monitoring, Collecting, Judging
  <2>3. QED
    BY <1>1, <1>3, <2>2, Fields, MonitorKeeps
<1>4. CASE /\ \/ mon' = Elapse([mon EXCEPT !.graced = TRUE], StallGrace)
              \/ mon' = Elapse(mon, 1)
           /\ Goto("poll") /\ UNCHANGED <<page, execution>>
  <2>1. mon.ran <= RunTimeout
    BY <1>1, BrowsingFacts
  <2>2. PICK polls \in {StallGrace, 1}, m \in {mon, [mon EXCEPT !.graced = TRUE]} : mon' = Elapse(m, polls)
    BY <1>4
  <2>3. /\ m \in Monitors /\ m.ran = mon.ran /\ m.quiet = mon.quiet
        /\ m.load = mon.load /\ m.gateway = mon.gateway /\ m.stopped = mon.stopped
        /\ m.plannedStopIssued = mon.plannedStopIssued
    BY Fields DEF Monitors
  <2>4. m.ran + polls \in 0..(RunTimeout + StallGrace + 1) /\ m.quiet + polls \in Nat
    BY <2>1, <2>3, Fields
  <2>5. /\ mon' \in Monitors
        /\ mon'.load = m.load /\ mon'.gateway = m.gateway /\ mon'.stopped = m.stopped
        /\ mon'.plannedStopIssued = m.plannedStopIssued
    BY <2>2, <2>3, <2>4 DEF Monitors, Elapse
  <2>6. where' = "poll"
    BY <1>4, AtStation DEF Goto
  <2>7. WindowInv'
    BY <1>1, <1>4, <2>3, <2>5, <2>6, BrowsingFacts
    DEF WindowInv, BeforeBrowser, OnPage, Configuring, Monitoring, Collecting, Judging
  <2>8. QED
    BY <1>1, <1>4, <2>3, <2>5, <2>7, MonitorKeeps
<1>5. QED
  BY <1>2, <1>3, <1>4 DEF Watch

LEMMA DownloadLedgerKeeps ==
  ASSUME AttemptInv, DownloadLedger
  PROVE  AttemptInv'
<1>1. /\ pc = "ledger" /\ pc \in Browsing /\ pc \in OnPage /\ pc \in Collecting
      /\ {"replay", "bundle"} \subseteq OnPage
      /\ "browser-error" \in Reasons
  BY DEF DownloadLedger, Browsing, OnPage, Collecting, Reasons
<1>2. CASE FailInBrowser("browser-error")
  BY <1>1, <1>2, FailInBrowserKeeps
<1>3. CASE /\ execution' = [With({"ledger"}) EXCEPT !.ledger = page]
           /\ Goto(IF execution.kind = "baseline" THEN "replay" ELSE "bundle")
           /\ UNCHANGED <<page, mon>>
  <2>1. /\ mon.status = "complete" /\ execution.load \in 1..page.load /\ page.load >= 1
        /\ page.load = 1 => page.run = "complete"
        /\ execution.files \subseteq {"ledger", "bundle"}
        /\ mon.load = 1
        /\ page.run = "idle" => page.tick = 0
        /\ page.run = "running" => page.tick < MaxTick
    BY <1>1, BrowsingFacts
  <2>2. execution.files \cup {"ledger"} \in SUBSET Files
    BY <2>1 DEF Files
  <2>3. execution' = [execution EXCEPT !.files = execution.files \cup {"ledger"}, !.ledger = page]
    BY <1>3, Fields DEF With, Executions
  <2>4. /\ execution' \in Executions /\ execution'.ledger = page
        /\ execution'.files = execution.files \cup {"ledger"} /\ execution'.load = execution.load
        /\ UNCHANGED <<execution.gateway, execution.verified, execution.kind, execution.study, execution.dirty>>
    BY <2>2, <2>3, Fields DEF Executions
  <2>5. PICK next \in {"replay", "bundle"} : Goto(next)
    BY <1>3
  <2>6. where' = next
    BY <2>5, AtStation DEF Goto
  <2>7. WindowInv'
    BY <1>3, <2>1, <2>4, <2>5, <2>6, Fields
    DEF WindowInv, BeforeBrowser, OnPage, Configuring, Monitoring, Collecting, Judging
  <2>8. next \in OnPage /\ next # "evidence"
    BY <1>1, <2>5
  <2>9. QED
    BY <1>1, <1>3, <2>1, <2>4, <2>5, <2>7, <2>8, Fields, OnwardKeeps
<1>4. QED
  BY <1>1, <1>2, <1>3 DEF DownloadLedger, Answered

LEMMA DownloadBundleKeeps ==
  ASSUME AttemptInv, DownloadBundle
  PROVE  AttemptInv'
<1>1. /\ pc = "bundle" /\ pc \in Browsing /\ pc \in OnPage /\ pc \in Collecting /\ "replay" \in OnPage
      /\ {"browser-error", "bundle-export-not-enabled"} \subseteq Reasons
  BY DEF DownloadBundle, Browsing, OnPage, Collecting, Reasons
<1>2. CASE \E reason \in Reasons : FailInBrowser(reason)
  BY <1>1, <1>2, FailInBrowserKeeps
<1>3. CASE execution' = With({"bundle"}) /\ Goto("replay") /\ UNCHANGED <<page, mon>>
  <2>1. execution.files \subseteq {"ledger", "bundle"}
    BY <1>1, BrowsingFacts
  <2>2. execution.files \cup {"bundle"} \in SUBSET Files
    BY <2>1 DEF Files
  <2>3. /\ execution' \in Executions /\ execution'.ledger = execution.ledger
        /\ execution'.files = execution.files \cup {"bundle"} /\ execution'.load = execution.load
        /\ UNCHANGED <<execution.gateway, execution.verified, execution.kind, execution.study, execution.dirty>>
    BY <1>3, <2>2, Fields DEF Executions, With
  <2>4. where' = "replay"
    BY <1>3, AtStation DEF Goto
  <2>5. WindowInv'
    BY <1>1, <1>3, <2>3, <2>4, BrowsingFacts
    DEF WindowInv, BeforeBrowser, OnPage, Configuring, Monitoring, Collecting, Judging
  <2>6. QED
    BY <1>1, <1>3, <2>1, <2>3, <2>5, Fields, OnwardKeeps
<1>4. QED
  BY <1>1, <1>2, <1>3 DEF DownloadBundle, Answered

LEMMA ReplayLatestKeeps ==
  ASSUME AttemptInv, ReplayLatest
  PROVE  AttemptInv'
<1>1. /\ pc = "replay" /\ pc \in Browsing /\ pc \in OnPage /\ pc \in Collecting /\ "leave" \in OnPage
      /\ {"browser-error", "replay-verdict-timeout", "replay-mismatch"} \subseteq Reasons
  BY DEF ReplayLatest, Browsing, OnPage, Collecting, Reasons
<1>2. CASE \E reason \in Reasons : FailInBrowser(reason)
  BY <1>1, <1>2, FailInBrowserKeeps
<1>3. CASE execution' = [execution EXCEPT !.replay = "match"] /\ Goto("leave") /\ UNCHANGED <<page, mon>>
  <2>1. execution.files \subseteq {"ledger", "bundle"}
    BY <1>1, BrowsingFacts
  <2>2. /\ execution' \in Executions /\ execution'.ledger = execution.ledger /\ execution'.replay = "match"
        /\ execution'.files = execution.files /\ execution'.load = execution.load
        /\ UNCHANGED <<execution.gateway, execution.verified, execution.kind, execution.study, execution.dirty>>
    BY <1>3, Fields DEF Executions
  <2>3. where' = "leave"
    BY <1>3, AtStation DEF Goto
  <2>4. WindowInv'
    BY <1>1, <1>3, <2>2, <2>3, BrowsingFacts
    DEF WindowInv, BeforeBrowser, OnPage, Configuring, Monitoring, Collecting, Judging
  <2>5. QED
    BY <1>1, <1>3, <2>1, <2>2, <2>4, Fields, OnwardKeeps
<1>4. QED
  BY <1>1, <1>2, <1>3 DEF ReplayLatest, Answered

\* The last look at the navigations: what was collected comes from the first window.
LEMMA LeaveKeeps ==
  ASSUME AttemptInv, Leave
  PROVE  AttemptInv'
<1>1. /\ pc = "leave" /\ pc \in Browsing /\ pc \in OnPage /\ pc \in Collecting
      /\ {"browser-error", "unexpected-navigation"} \subseteq Reasons
  BY DEF Leave, Browsing, OnPage, Collecting, Reasons
<1>2. CASE \E reason \in Reasons : FailInBrowser(reason)
  BY <1>1, <1>2, FailInBrowserKeeps
<1>3. CASE ~Navigated /\ Goto("artifacts") /\ UNCHANGED <<page, mon, execution>>
  <2>1. /\ execution.files \subseteq {"ledger", "bundle"} /\ page.load = 1 /\ execution.replay = "match"
        /\ execution.load \in 1..page.load /\ execution.ledger.load \in 1..page.load
        /\ execution.ledger.load = 1 => execution.ledger.run = "complete"
        /\ page.run = "idle" => page.tick = 0
        /\ page.run = "running" => page.tick < MaxTick
    BY <1>1, <1>3, BrowsingFacts DEF Navigated
  <2>2. execution.load = 1 /\ execution.ledger.load = 1 /\ execution.ledger.run = "complete"
    BY <2>1, Fields
  <2>3. where' = "artifacts"
    BY <1>3, AtStation DEF Goto
  <2>4. WindowInv'
    BY <1>3, <2>1, <2>2, <2>3
    DEF WindowInv, BeforeBrowser, OnPage, Configuring, Monitoring, Collecting, Judging
  <2>5. QED
    BY <1>1, <1>3, <2>1, <2>4, Fields, OnwardKeeps
<1>4. QED
  BY <1>1, <1>2, <1>3 DEF Leave, Awaited

LEMMA ArtifactsKeeps ==
  ASSUME AttemptInv, Artifacts
  PROVE  AttemptInv'
<1>1. pc = "artifacts" /\ Goto("evidence") /\ page' = NoPage /\ mon' = [mon EXCEPT !.traceClosed = TRUE]
  BY DEF Artifacts
<1> DEFINE added == {"diagnostics"} \cup (IF page.alive THEN {"attempt-trace"} ELSE {})
<1>2. /\ execution.files \subseteq {"ledger", "bundle"} /\ execution.replay = "match"
      /\ execution.load = 1 /\ execution.ledger.load = 1 /\ execution.ledger.run = "complete"
  BY <1>1, BrowsingFacts
<1>3. added \subseteq {"diagnostics", "attempt-trace"} /\ "diagnostics" \in added
  OBVIOUS
<1>4. execution' = [execution EXCEPT !.files = execution.files \cup added]
  BY DEF Artifacts, With
<1> HIDE DEF added
<1>5. execution.files \cup added \in SUBSET Files
  BY <1>2, <1>3 DEF Files
<1>6. /\ execution' \in Executions /\ execution'.files = execution.files \cup added
      /\ UNCHANGED <<execution.ledger, execution.load, execution.replay>>
      /\ UNCHANGED <<execution.gateway, execution.verified, execution.kind, execution.study, execution.dirty>>
  BY <1>4, <1>5, Fields DEF Executions
<1>7. mon' \in Monitors /\ UNCHANGED <<mon.gateway, mon.plannedStopIssued, mon.stopped>>
  BY <1>1, Fields DEF Monitors
<1>8. NoPage \in Pages /\ NoPage.run = "idle" /\ NoPage.tick = 0
  BY AttemptAssumption DEF NoPage, Pages
<1>9. where' = "evidence"
  BY <1>1, AtStation DEF Goto
<1>10. WindowInv'
  BY <1>1, <1>2, <1>6, <1>8, <1>9
  DEF WindowInv, BeforeBrowser, OnPage, Configuring, Monitoring, Collecting, Judging
<1>11. QED
  BY <1>1, <1>2, <1>3, <1>6, <1>7, <1>8, <1>10, OnwardKeeps

-----------------------------------------------------------------------------
(* The executor: stops                                                     *)

\* The first half of a stop: the child is asked, and waited for unless it is known dead.
LEMMA StopEffect ==
  ASSUME AttemptInv, NEW c \in DOMAIN children, NEW then \in Resumptions, Stop(c, then),
         mon'.then = then
  PROVE  /\ children' \in Seq(Kids) /\ KidsInv' /\ PastInv' /\ UNCHANGED <<stopFailures, squatter, past>>
         /\ DOMAIN children' = DOMAIN children /\ DOMAIN children = 1..Len(children)
         /\ Len(children) \in Nat /\ Len(children') = Len(children)
         /\ pc' \in {then, "terminating"} /\ where' = then
         /\ pc' # "terminating" => children'[c].os = "dead" /\ children'[c].seen
         /\ children'[c].asked
         /\ children'[c].early <=> children[c].early \/ (children[c].seen /\ ~children[c].asked)
         /\ \A d \in DOMAIN children :
              /\ children[d].os = "dead" => children'[d].os = "dead"
              /\ children[d].seen => children'[d].seen
<1>1. /\ Typed /\ KidsInv /\ PastInv /\ children' = Ask(c)
      /\ pc' = (IF children[c].seen THEN then ELSE "terminating")
      /\ UNCHANGED <<stopFailures, squatter, past>>
  BY DEF AttemptInv, Stop
<1>2. children \in Seq(Kids) /\ (children[c].seen => children[c].os = "dead")
  BY <1>1 DEF Typed, KidsInv
<1>3. /\ children' \in Seq(Kids) /\ KidsInv' /\ Ages /\ Len(children') = Len(children)
      /\ children'[c].asked
      /\ children'[c].early <=> children[c].early \/ (children[c].seen /\ ~children[c].asked)
  BY <1>1, AskedKids
<1>4. PastInv'
  BY <1>1, <1>3, EndedStays
<1>5. where' = then
  BY <1>1 DEF where, Resumptions
<1>6. pc' # "terminating" => children'[c].os = "dead" /\ children'[c].seen
  BY <1>1, <1>2, <1>3 DEF Ages
<1>7. QED
  BY <1>1, <1>2, <1>3, <1>4, <1>5, <1>6 DEF Ages

\* A stop of the gateway of the execution, whatever comes after it.
LEMMA StopKeeps ==
  ASSUME AttemptInv, pc \in Working, NEW then \in {"caught", "watch", "finalize", "record"},
         execution.gateway # 0, Stop(execution.gateway, then),
         mon' \in Monitors, mon'.then = then, mon'.stopping = execution.gateway,
         mon'.stopped = mon.stopped,
         execution' \in Executions, execution'.gateway = execution.gateway, page' = page,
         GateInv', WindowInv', FileInv'
  PROVE  AttemptInv'
<1>1. /\ where = pc /\ then \in Working /\ then \in Resumptions /\ then \notin {"terminating", "killing"}
      /\ then \in Stations /\ "terminating" \in Stations
      /\ pc \notin Outside \cup {"terminating", "killing"} /\ then \notin Outside
  BY DEF where, Working, UpToFinalize, BeforeBrowser, OnPage, Configuring, Monitoring, Collecting, Judging,
     Ending, Resumptions, Stations, Outside
<1>2. execution.gateway \in DOMAIN children
  BY <1>1 DEF AttemptInv, GateInv, Typed
<1> DEFINE g == execution.gateway
<1>3. /\ children' \in Seq(Kids) /\ KidsInv' /\ PastInv' /\ UNCHANGED <<stopFailures, squatter, past>>
      /\ DOMAIN children' = DOMAIN children /\ DOMAIN children = 1..Len(children)
      /\ Len(children) \in Nat /\ Len(children') = Len(children)
      /\ pc' \in {then, "terminating"} /\ where' = then
      /\ pc' # "terminating" => children'[g].os = "dead"
      /\ children'[g].asked
      /\ \A d \in DOMAIN children : children[d].seen => children'[d].seen
  BY <1>1, <1>2, StopEffect
<1>4. Typed'
  BY <1>1, <1>3 DEF AttemptInv, Typed
<1> HIDE DEF where
<1>5. ControlInv'
  <2>1. children # <<>> => children' # <<>>
    BY <1>3
  <2>2. where \notin {"preflight", "closing", "done"} /\ then \notin {"preflight", "closing", "done"}
    BY <1>1 DEF Outside
  <2>3. Len(past) < MaxExecutions /\ mon.stopped = {} /\ children # <<>>
    BY <1>1, <2>2 DEF AttemptInv, ControlInv
  <2>4. Len(past) <= MaxExecutions
    BY DEF AttemptInv, ControlInv
  <2>5. pc' # "done" /\ pc' # "killing"
    BY <1>3, <2>2
  <2>6. QED
    BY <1>1, <1>2, <1>3, <2>1, <2>2, <2>3, <2>4, <2>5 DEF ControlInv
<1>6. StopInv'
  BY <1>3 DEF StopInv
<1>7. QED
  BY <1>3, <1>4, <1>5, <1>6 DEF AttemptInv

LEMMA StoppingTyped ==
  ASSUME mon \in Monitors, NEW c \in Nat, NEW then \in Resumptions
  PROVE  /\ Stopping(c, then) \in Monitors
         /\ Stopping(c, then).then = then /\ Stopping(c, then).stopping = c
         /\ Stopping(c, then).stopped = mon.stopped /\ Stopping(c, then).gateway = mon.gateway
         /\ Stopping(c, then).plannedStopIssued = mon.plannedStopIssued
         /\ Stopping(c, then).load = mon.load /\ Stopping(c, then).status = mon.status
         /\ Stopping(c, then).ran = mon.ran
BY DEF Monitors, Stopping

\* The planned stop of a drill: the gateway was not known dead, so its end is not early.
LEMMA PlannedStopKeeps ==
  ASSUME AttemptInv, issuePlannedGatewayStop
  PROVE  AttemptInv'
<1>1. /\ pc = "trigger" /\ pc \in Browsing /\ pc \in OnPage /\ pc \in Monitoring
      /\ pc \in Working /\ pc \in UpToFinalize /\ pc \notin {"setup", "gateway-ready"}
      /\ {"browser-error", "gateway-died-unexpectedly"} \subseteq Reasons
  BY DEF issuePlannedGatewayStop, Browsing, OnPage, Monitoring, Reasons, Working, UpToFinalize
<1>2. CASE \E reason \in Reasons : FailInBrowser(reason)
  BY <1>1, <1>2, FailInBrowserKeeps
<1>3. CASE /\ execution.kind = "drill" /\ ~children[mon.gateway].seen
           /\ mon' = [Stopping(mon.gateway, "watch") EXCEPT !.fired = TRUE, !.plannedStopIssued = TRUE]
           /\ Stop(mon.gateway, "watch") /\ UNCHANGED <<page, execution>>
  <2> DEFINE g == execution.gateway
  <2>1. where = "trigger"
    BY <1>1, BrowsingFacts
  <2>2. /\ g \in {0} \cup 2..Len(children) /\ mon.gateway = g /\ (execution.kind = "baseline" <=> g = 0)
        /\ g # 0 => ~children[g].early
        /\ g # 0 => execution.verified = g \/ (children[g].seen /\ ~children[g].asked)
    BY <1>1, <2>1 DEF AttemptInv, GateInv
  <2>3. g # 0 /\ g \in DOMAIN children /\ execution.verified = g /\ ~children[g].early
    BY <1>3, <2>2 DEF AttemptInv, Typed
  <2> HIDE DEF g
  <2>4. "watch" \in Resumptions /\ g \in Nat /\ mon \in Monitors
    BY Fields DEF Resumptions, g, Executions
  <2>5. /\ mon' \in Monitors /\ mon'.then = "watch" /\ mon'.stopping = g /\ mon'.plannedStopIssued
        /\ UNCHANGED <<mon.stopped, mon.gateway, mon.load, mon.status, mon.ran>>
    <3> DEFINE m == Stopping(g, "watch")
    <3>1. /\ m \in Monitors /\ m.then = "watch" /\ m.stopping = g
          /\ m.stopped = mon.stopped /\ m.gateway = mon.gateway
          /\ m.load = mon.load /\ m.status = mon.status /\ m.ran = mon.ran
      BY <2>4, StoppingTyped
    <3>2. mon' = [m EXCEPT !.fired = TRUE, !.plannedStopIssued = TRUE]
      BY <1>3, <2>2 DEF g
    <3> HIDE DEF m
    <3>3. QED
      BY <3>1, <3>2 DEF Monitors
  <2>6. /\ Stop(g, "watch") /\ execution'.gateway = g /\ execution' = execution
    BY <1>3, <2>2 DEF g
  <2>7. /\ where' = "watch" /\ children'[g].asked /\ ~children'[g].early
        /\ Len(children') = Len(children)
    BY <1>3, <2>2, <2>3, <2>4, <2>5, <2>6, StopEffect DEF g
  <2>8. GateInv'
    <3>1. "watch" \in Working /\ "watch" \in UpToFinalize /\ "watch" \in OnPage
      BY DEF Working, UpToFinalize, OnPage, Monitoring
    <3>2. mon'.gateway = g /\ execution'.kind # "baseline" /\ execution'.verified = g
      BY <1>3, <2>2, <2>3, <2>5, <2>6 DEF g
    <3>3. g \in 2..Len(children')
      BY <2>2, <2>3, <2>7 DEF g
    <3>4. QED
      BY <2>3, <2>5, <2>6, <2>7, <3>1, <3>2, <3>3 DEF GateInv
  <2>9. WindowInv'
    <3> HIDE DEF where
    <3>1. QED
      BY <1>1, <1>3, <2>5, <2>7, BrowsingFacts
      DEF WindowInv, BeforeBrowser, OnPage, Configuring, Monitoring, Collecting, Judging
  <2>10. FileInv'
    <3>1. "watch" \in UpToFinalize \ Judging /\ pc \in UpToFinalize \ Judging /\ "watch" \notin Ending
      BY <1>1 DEF UpToFinalize, OnPage, Monitoring, Judging, Ending
    <3> HIDE DEF where
    <3>2. QED
      BY <1>1, <2>1, <2>6, <2>7, <3>1 DEF AttemptInv, FileInv
  <2>11. QED
    BY <1>1, <1>3, <2>3, <2>5, <2>6, <2>8, <2>9, <2>10, Fields, StopKeeps DEF g
<1>4. QED
  BY <1>1, <1>2, <1>3 DEF issuePlannedGatewayStop, Answered, StopDue

\* What the invariant says of an execution that is judged.
LEMMA JudgingFacts ==
  ASSUME AttemptInv, pc \in Judging
  PROVE  /\ where = pc
         /\ execution.files \subseteq {"ledger", "bundle", "diagnostics", "attempt-trace"}
         /\ "diagnostics" \in execution.files /\ execution.study = "none" /\ ~execution.dirty
         /\ execution.replay = "match" /\ execution.load = 1 /\ execution.ledger.load = 1
         /\ execution.ledger.run = "complete"
         /\ page.run = "idle" => page.tick = 0
         /\ page.run = "running" => page.tick < MaxTick
         /\ execution.gateway \in {0} \cup 2..Len(children) /\ mon.gateway = execution.gateway
         /\ execution.kind = "baseline" <=> execution.gateway = 0
         /\ execution.gateway # 0 => ~children[execution.gateway].early
         /\ mon.plannedStopIssued => execution.gateway # 0 /\ children[execution.gateway].asked
         /\ pc = "evidence" /\ execution.gateway # 0 =>
              \/ execution.verified = execution.gateway
              \/ children[execution.gateway].seen /\ ~children[execution.gateway].asked
         /\ pc = "finalize" /\ execution.gateway # 0 =>
              children[execution.gateway].asked /\ execution.verified = execution.gateway
<1>1. /\ pc \notin {"terminating", "killing"} /\ pc \in UpToFinalize /\ pc \in Working
      /\ pc \notin {"setup", "gateway-ready", "verify"}
  BY DEF UpToFinalize, Judging, Working
<1>2. where = pc
  BY <1>1 DEF where
<1> HIDE DEF where
<1>3. QED
  BY <1>1, <1>2 DEF AttemptInv, WindowInv, FileInv, GateInv

\* The windows and the files of an execution at a later station of its judgement.
LEMMA JudgingOn ==
  ASSUME AttemptInv, pc = "evidence", where' = "finalize", UNCHANGED <<page, execution>>
  PROVE  WindowInv' /\ FileInv'
<1>1. pc \in Judging
  BY DEF Judging
<1> HIDE DEF where
<1>2. WindowInv'
  BY <1>1, JudgingFacts DEF WindowInv, BeforeBrowser, OnPage, Configuring, Monitoring, Collecting, Judging
<1>3. FileInv'
  BY <1>1, JudgingFacts DEF FileInv, UpToFinalize, Ending, Judging
<1>4. QED
  BY <1>2, <1>3

\* Nothing is finalised but with its own gateway, asked to stop before it was known to
\* be gone.
LEMMA JudgeChildKeeps ==
  ASSUME AttemptInv, JudgeChild
  PROVE  AttemptInv'
<1>1. /\ pc = "evidence" /\ pc \in Judging /\ pc \in Working /\ "browser" \in Places
      /\ {"gateway-stop-not-fired", "gateway-died-unexpectedly"} \subseteq Reasons
      /\ "finalize" \in Stations
  BY DEF JudgeChild, Judging, Working, UpToFinalize, Reasons, Places, Stations
<1> DEFINE g == execution.gateway
<1>2. CASE \E reason \in Reasons : Fail(reason, "browser")
  BY <1>1, <1>2, FailKeeps
<1>3. CASE mon.gateway = 0 /\ Goto("finalize") /\ UNCHANGED <<page, mon, execution>>
  <2>1. /\ UNCHANGED <<stopFailures, squatter, past>> /\ pc' = "finalize"
        /\ children' \in Seq(Kids) /\ KidsInv' /\ PastInv'
        /\ DOMAIN children' = DOMAIN children /\ DOMAIN children = 1..Len(children)
        /\ Len(children) \in Nat /\ Len(children') = Len(children)
        /\ \A c \in DOMAIN children : children[c].seen => children'[c].seen
    BY <1>1, <1>3, GotoSteady
  <2>2. where = "evidence" /\ where' = "finalize" /\ g = 0 /\ execution.kind = "baseline"
        /\ ~mon.plannedStopIssued
    BY <1>1, <1>3, <2>1, AtStation, JudgingFacts
  <2>3. Typed'
    BY <1>1, <1>3, <2>1 DEF AttemptInv, Typed
  <2> HIDE DEF where
  <2>4. ControlInv'
    <3>1. children # <<>> => children' # <<>>
      BY <2>1
    <3>2. "finalize" \in Working /\ pc \notin {"terminating", "killing"}
      BY <1>1 DEF Working, UpToFinalize, Judging
    <3>3. QED
      BY <1>1, <1>3, <2>1, <2>2, <3>1, <3>2 DEF AttemptInv, ControlInv
  <2>5. GateInv' /\ StopInv'
    BY <1>3, <2>1, <2>2 DEF GateInv, StopInv
  <2>6. WindowInv' /\ FileInv'
    BY <1>1, <1>3, <2>2, JudgingOn
  <2>7. QED
    BY <2>1, <2>3, <2>4, <2>5, <2>6 DEF AttemptInv
<1>4. CASE /\ mon.gateway # 0
           /\ classifyChildTerminalState(mon.gateway) # "unexpected-terminal-exit"
           /\ mon' = Stopping(mon.gateway, "finalize") /\ Stop(mon.gateway, "finalize")
           /\ UNCHANGED <<page, execution>>
  <2>1. /\ mon.gateway = g /\ g # 0 /\ g \in 2..Len(children) /\ g \in DOMAIN children /\ g \in Nat
        /\ execution.kind # "baseline" /\ ~children[g].early
        /\ execution.verified = g \/ (children[g].seen /\ ~children[g].asked)
        /\ mon.plannedStopIssued => children[g].asked
    BY <1>1, <1>4, JudgingFacts DEF AttemptInv, Typed
  <2>2. ~children[g].seen \/ children[g].asked
    BY <1>4, <2>1 DEF classifyChildTerminalState
  <2>3. execution.verified = g
    BY <2>1, <2>2
  <2> HIDE DEF g
  <2>4. /\ mon' \in Monitors /\ mon'.then = "finalize" /\ mon'.stopping = g
        /\ mon'.stopped = mon.stopped /\ mon'.gateway = g
    <3>1. mon' = Stopping(g, "finalize") /\ g \in Nat /\ mon.gateway = g
      BY <1>4, <2>1
    <3>2. "finalize" \in Resumptions /\ mon \in Monitors
      BY Fields DEF Resumptions
    <3>3. QED
      BY <3>1, <3>2, StoppingTyped
  <2>5. Stop(g, "finalize") /\ execution'.gateway = g /\ execution'.verified = g
        /\ execution'.kind = execution.kind
    BY <1>4, <2>1, <2>3 DEF g
  <2>6. /\ where' = "finalize" /\ children'[g].asked /\ ~children'[g].early
        /\ Len(children') = Len(children)
    BY <2>1, <2>2, <2>4, <2>5, StopEffect DEF Resumptions
  <2>7. GateInv'
    <3>1. g \in {0} \cup 2..Len(children') /\ g # 0
      BY <2>1, <2>6
    <3>2. mon'.plannedStopIssued => children'[g].asked
      BY <2>6
    <3> HIDE DEF where
    <3>3. QED
      BY <2>1, <2>4, <2>5, <2>6, <3>1, <3>2 DEF GateInv
  <2>8. WindowInv' /\ FileInv'
    BY <1>1, <1>4, <2>6, JudgingOn
  <2>9. QED
    BY <1>1, <1>4, <2>1, <2>4, <2>5, <2>7, <2>8, Fields, StopKeeps DEF g
<1>5. QED
  BY <1>1, <1>2, <1>3, <1>4 DEF JudgeChild

\* startGateway gives up: there is no page yet, and nothing but the gateway to stop.
LEMMA GatewayTimesOutKeeps ==
  ASSUME AttemptInv, GatewayTimesOut
  PROVE  AttemptInv'
<1>1. /\ pc = "gateway-ready" /\ where = "gateway-ready" /\ page' = page
      /\ execution' = [execution EXCEPT !.reason = "gateway-launch-failed", !.stage = "gateway-launch"]
      /\ mon' = Stopping(execution.gateway, "caught") /\ Stop(execution.gateway, "caught")
  BY DEF GatewayTimesOut, where
<1>2. /\ pc \in Working /\ "gateway-ready" \in UpToFinalize \ Judging /\ "gateway-ready" \in BeforeBrowser
      /\ "gateway-ready" \in Working
      /\ "gateway-launch" \in Places /\ "gateway-launch-failed" \in Reasons /\ "caught" \in Resumptions
  BY <1>1 DEF Working, UpToFinalize, BeforeBrowser, Judging, Places, Reasons, Resumptions
<1> DEFINE g == execution.gateway
<1>3. /\ g \in 2..Len(children) /\ g # 0 /\ mon.gateway = 0 /\ ~mon.plannedStopIssued
      /\ execution.load = 0 /\ execution.study = "none" /\ execution.files \subseteq {"ledger", "bundle"}
      /\ ~execution.dirty
      /\ page.run = "idle" => page.tick = 0
      /\ page.run = "running" => page.tick < MaxTick
  BY <1>1, <1>2 DEF AttemptInv, GateInv, WindowInv, FileInv
<1>4. g \in DOMAIN children /\ g \in Nat
  BY <1>3 DEF AttemptInv, Typed
<1>5. /\ execution' \in Executions /\ execution'.gateway = g
      /\ UNCHANGED <<execution.load, execution.study, execution.files, execution.dirty>>
  BY <1>1, <1>2, Fields DEF Executions
<1> HIDE DEF g
<1>6. /\ mon' \in Monitors /\ mon'.then = "caught" /\ mon'.stopping = g
      /\ mon'.stopped = mon.stopped /\ mon'.gateway = 0 /\ ~mon'.plannedStopIssued
  BY <1>1, <1>2, <1>3, <1>4, Fields, StoppingTyped DEF g
<1>7. Stop(g, "caught")
  BY <1>1 DEF g
<1>8. where' = "caught" /\ Len(children') = Len(children)
  BY <1>2, <1>4, <1>6, <1>7, StopEffect
<1> HIDE DEF where
<1>9. GateInv'
  <2>1. "caught" \notin UpToFinalize \cup OnPage
    BY DEF UpToFinalize, BeforeBrowser, OnPage, Configuring, Monitoring, Collecting, Judging
  <2>2. g \in {0} \cup 2..Len(children')
    BY <1>3, <1>8
  <2>3. QED
    BY <1>5, <1>6, <1>8, <2>1, <2>2 DEF GateInv
<1>10. WindowInv'
  BY <1>1, <1>3, <1>8 DEF WindowInv, BeforeBrowser, OnPage, Configuring, Monitoring, Collecting, Judging
<1>11. FileInv'
  BY <1>3, <1>5, <1>8
  DEF FileInv, FailureOf, UpToFinalize, BeforeBrowser, OnPage, Configuring, Monitoring, Collecting, Judging
<1>12. QED
  BY <1>1, <1>2, <1>3, <1>5, <1>6, <1>7, <1>9, <1>10, <1>11, StopKeeps DEF g

-----------------------------------------------------------------------------
(* The executor: the gateway of an execution                               *)

\* From one station of an execution to another, with no stop and no new child.
LEMMA WorkingOn ==
  ASSUME AttemptInv, pc \in Working, NEW next \in Working, Goto(next),
         page' \in Pages, mon' \in Monitors, execution' \in Executions, mon'.stopped = mon.stopped,
         GateInv', StopInv', WindowInv', FileInv'
  PROVE  AttemptInv'
<1>1. /\ next \in Stations /\ next \notin Outside /\ pc \notin Outside
      /\ pc \notin {"terminating", "killing"} /\ next \notin {"terminating", "killing"}
  BY DEF Stations, Outside, Working, UpToFinalize, BeforeBrowser, OnPage, Configuring, Monitoring,
     Collecting, Judging, Ending
<1>2. /\ UNCHANGED <<stopFailures, squatter, past>> /\ pc' = next
      /\ children' \in Seq(Kids) /\ KidsInv' /\ PastInv'
      /\ DOMAIN children' = DOMAIN children /\ DOMAIN children = 1..Len(children)
      /\ Len(children') = Len(children)
      /\ \A c \in DOMAIN children : children[c].seen => children'[c].seen
  BY <1>1, GotoSteady
<1>3. where = pc /\ where' = next
  BY <1>1, <1>2, AtStation
<1> HIDE DEF where
<1>4. Typed'
  BY <1>1, <1>2 DEF AttemptInv, Typed
<1>5. ControlInv'
  <2>1. children # <<>> => children' # <<>>
    BY <1>2
  <2>2. /\ pc \notin {"preflight", "closing", "done"} /\ next \notin {"preflight", "closing", "done"}
    BY <1>1 DEF Outside
  <2>3. /\ Len(past) < MaxExecutions /\ mon.stopped = {} /\ children # <<>>
        /\ Len(past) <= MaxExecutions
    BY <1>3, <2>2 DEF AttemptInv, ControlInv
  <2>4. QED
    BY <1>1, <1>2, <1>3, <2>1, <2>2, <2>3 DEF ControlInv
<1>6. QED
  BY <1>2, <1>4, <1>5 DEF AttemptInv

\* What the invariant says before there is a page.
LEMMA BeforeFacts ==
  ASSUME AttemptInv, pc \in BeforeBrowser
  PROVE  /\ where = pc /\ pc \in Working
         /\ execution.study = "none" /\ execution.files \subseteq {"ledger", "bundle"} /\ ~execution.dirty
         /\ execution.load = 0
         /\ page.run = "idle" => page.tick = 0
         /\ page.run = "running" => page.tick < MaxTick
         /\ execution.gateway \in {0} \cup 2..Len(children) /\ mon.gateway \in {0, execution.gateway}
         /\ ~mon.plannedStopIssued
         /\ pc = "setup" => execution.gateway = 0
         /\ pc \in {"setup", "gateway-ready"} => mon.gateway = 0
         /\ pc = "gateway-ready" => execution.gateway # 0 /\ execution.kind # "baseline"
                                      /\ ~children[execution.gateway].asked
         /\ execution.gateway # 0 => ~children[execution.gateway].early
         /\ pc = "verify" => /\ mon.gateway = execution.gateway /\ execution.gateway # 0
                             /\ execution.kind # "baseline"
                             /\ children[execution.gateway].logged /\ ~children[execution.gateway].asked
<1>1. /\ pc \notin {"terminating", "killing"} /\ pc \in UpToFinalize \ Judging /\ pc \in Working
      /\ pc = "verify" => pc \in UpToFinalize \ {"setup", "gateway-ready"}
  BY DEF UpToFinalize, Judging, Working, BeforeBrowser
<1>2. where = pc
  BY <1>1 DEF where
<1> HIDE DEF where
<1>3. pc \in {"setup", "gateway-ready", "verify"}
  BY DEF BeforeBrowser
<1>4. QED
  BY <1>1, <1>2, <1>3 DEF AttemptInv, WindowInv, FileInv, GateInv

\* Before the page is there only the gateway is to be watched.
LEMMA BeforeOn ==
  ASSUME AttemptInv, pc \in BeforeBrowser, where' \in BeforeBrowser \cup {"open"}, page' = page,
         UNCHANGED <<execution.study, execution.files, execution.dirty, execution.load>>
  PROVE  WindowInv' /\ FileInv'
<1>1. /\ BeforeBrowser \cup {"open"} \subseteq UpToFinalize \ Judging
      /\ (BeforeBrowser \cup {"open"}) \cap (OnPage \cup {"artifacts"} \cup Judging \cup Ending) = {}
      /\ OnPage = Configuring \cup Monitoring \cup Collecting
      /\ {"tick", "trigger", "watch", "status"} \subseteq OnPage /\ {"ledger", "bundle", "replay", "leave"} \subseteq OnPage
  BY DEF UpToFinalize, BeforeBrowser, OnPage, Configuring, Monitoring, Collecting, Judging, Ending
<1> HIDE DEF where
<1>2. WindowInv'
  BY <1>1, BeforeFacts DEF WindowInv
<1>3. FileInv'
  BY <1>1, BeforeFacts DEF FileInv
<1>4. QED
  BY <1>2, <1>3

LEMMA SetupKeeps ==
  ASSUME AttemptInv, Setup
  PROVE  AttemptInv'
<1>1. /\ pc = "setup" /\ pc \in BeforeBrowser /\ pc \in Working
      /\ {"attempt-setup-failed", "gateway-launch-failed"} \subseteq Reasons
      /\ {"attempt-setup", "gateway-launch"} \subseteq Places
      /\ {"open", "gateway-ready"} \subseteq Working /\ {"open", "gateway-ready"} \subseteq UpToFinalize
  BY DEF Setup, BeforeBrowser, Working, UpToFinalize, Reasons, Places
<1>2. CASE \E reason \in Reasons, stage \in Places : Fail(reason, stage)
  BY <1>1, <1>2, FailKeeps
<1>3. CASE execution.kind = "baseline" /\ Goto("open") /\ UNCHANGED <<page, mon, execution>>
  <2>1. where' = "open" /\ pc' = "open"
    BY <1>3, AtStation DEF Goto
  <2>2. execution.gateway = 0 /\ mon.gateway = 0 /\ ~mon.plannedStopIssued
    BY <1>1, BeforeFacts
  <2> HIDE DEF where
  <2>3. GateInv' /\ StopInv'
    BY <1>3, <2>1, <2>2 DEF GateInv, StopInv
  <2>4. WindowInv' /\ FileInv'
    BY <1>1, <1>3, <2>1, BeforeOn
  <2>5. QED
    BY <1>1, <1>3, <2>3, <2>4, Fields, WorkingOn
<1>4. CASE /\ execution.kind # "baseline" /\ children' = Spawned("gateway")
           /\ execution' = [execution EXCEPT !.gateway = Len(children) + 1]
           /\ pc' = "gateway-ready" /\ UNCHANGED <<stopFailures, squatter, past, page, mon>>
  <2> DEFINE g == Len(children) + 1
  <2>1. /\ children' \in Seq(Kids) /\ KidsInv' /\ Ages /\ Len(children') = g
        /\ children'[g] = Child("gateway") /\ Len(children) \in Nat /\ Typed /\ KidsInv
    BY <1>4, SpawnedKids DEF AttemptInv, Typed
  <2>2. where' = "gateway-ready" /\ where = "setup"
    BY <1>1, <1>4 DEF where
  <2> HIDE DEF where
  <2>3. /\ execution.gateway = 0 /\ mon.gateway = 0 /\ ~mon.plannedStopIssued
        /\ children # <<>> /\ mon.stopped = {} /\ Len(past) < MaxExecutions
    BY <1>1, <2>2, BeforeFacts DEF AttemptInv, ControlInv
  <2>4. g \in 2..Len(children') /\ g # 0 /\ g \in Nat /\ children' # <<>>
    BY <2>1, <2>3 DEF Typed
  <2>5. ~Child("gateway").asked /\ ~Child("gateway").early
    BY DEF Child
  <2>6. /\ execution' \in Executions /\ execution'.gateway = g /\ execution'.kind = execution.kind
        /\ UNCHANGED <<execution.study, execution.files, execution.dirty, execution.load>>
    BY <1>4, <2>4, Fields DEF Executions
  <2> HIDE DEF g
  <2>7. Typed'
    BY <1>1, <1>4, <2>1, <2>6 DEF Typed, Stations
  <2>8. ControlInv'
    <3>1. Len(past) <= MaxExecutions
      BY DEF AttemptInv, ControlInv
    <3>2. QED
      BY <1>1, <1>4, <2>2, <2>3, <2>4, <3>1 DEF ControlInv
  <2>9. GateInv' /\ StopInv'
    BY <1>1, <1>4, <2>1, <2>2, <2>3, <2>4, <2>5, <2>6
    DEF GateInv, StopInv, UpToFinalize, BeforeBrowser, OnPage, Configuring, Monitoring, Collecting, Judging
  <2>10. WindowInv' /\ FileInv'
    BY <1>1, <1>4, <2>2, <2>6, BeforeOn DEF BeforeBrowser
  <2>11. PastInv'
    BY <1>4, <2>1, EndedStays DEF AttemptInv
  <2>12. QED
    BY <2>1, <2>7, <2>8, <2>9, <2>10, <2>11 DEF AttemptInv
<1>5. QED
  BY <1>1, <1>2, <1>3, <1>4 DEF Setup

LEMMA GatewayReadyKeeps ==
  ASSUME AttemptInv, GatewayReady
  PROVE  AttemptInv'
<1> DEFINE g == execution.gateway
<1>1. /\ pc = "gateway-ready" /\ pc \in BeforeBrowser /\ pc \in Working /\ children[g].logged
      /\ mon' = [mon EXCEPT !.gateway = g] /\ Goto("verify") /\ UNCHANGED <<page, execution>>
      /\ "verify" \in Working /\ "verify" \in BeforeBrowser /\ "verify" \in Stations
  BY DEF GatewayReady, BeforeBrowser, Working, UpToFinalize, Stations
<1>2. /\ g \in 2..Len(children) /\ g # 0 /\ ~mon.plannedStopIssued /\ execution.kind # "baseline"
      /\ ~children[g].asked /\ ~children[g].early
  BY <1>1, BeforeFacts
<1>3. g \in DOMAIN children /\ g \in Nat
  BY <1>2 DEF AttemptInv, Typed
<1>4. /\ mon' \in Monitors /\ mon'.gateway = g /\ mon'.stopped = mon.stopped /\ ~mon'.plannedStopIssued
  BY <1>1, <1>2, <1>3, Fields DEF Monitors
<1>5. /\ children'[g].logged /\ ~children'[g].asked /\ ~children'[g].early
      /\ Len(children') = Len(children) /\ pc' = "verify"
  BY <1>1, <1>2, <1>3, GotoSteady
<1>6. where' = "verify"
  BY <1>5, AtStation
<1> HIDE DEF where
<1>7. GateInv' /\ StopInv'
  BY <1>1, <1>2, <1>4, <1>5, <1>6
  DEF GateInv, StopInv, UpToFinalize, BeforeBrowser, OnPage, Configuring, Monitoring, Collecting, Judging
<1>8. WindowInv' /\ FileInv'
  BY <1>1, <1>6, BeforeOn
<1>9. QED
  BY <1>1, <1>4, <1>7, <1>8, Fields, WorkingOn

\* Who answers the verification is the own gateway, unless that has died after its line.
LEMMA VerifyKeeps ==
  ASSUME AttemptInv, verifyGatewayTreatment
  PROVE  AttemptInv'
<1> DEFINE g == execution.gateway
<1>1. /\ pc = "verify" /\ pc \in BeforeBrowser /\ pc \in Working
      /\ {"treatment-verification-failed", "treatment-mismatch"} \subseteq Reasons
      /\ "treatment-verification" \in Places
      /\ "open" \in Working /\ "open" \in UpToFinalize /\ "open" \in Stations
  BY DEF verifyGatewayTreatment, BeforeBrowser, Working, UpToFinalize, Reasons, Places, Stations
<1>2. CASE \E reason \in Reasons, stage \in Places : Fail(reason, stage)
  BY <1>1, <1>2, FailKeeps
<1>3. ASSUME NEW c \in GatewayPortHolder, execution' = [execution EXCEPT !.verified = c],
             Goto("open"), UNCHANGED <<page, mon>>
      PROVE  AttemptInv'
  <2>1. /\ g \in 2..Len(children) /\ g # 0 /\ mon.gateway = g /\ ~mon.plannedStopIssued
        /\ execution.kind # "baseline"
        /\ children[g].logged /\ ~children[g].asked /\ ~children[g].early
    BY <1>1, BeforeFacts
  <2>2. /\ g \in DOMAIN children /\ c \in DOMAIN children /\ c \in Nat
        /\ children[g] \in Kids
    BY <1>3, <2>1 DEF AttemptInv, Typed, GatewayPortHolder
  <2>3. c = g \/ children[g].os = "dead"
    <3>1. children[g].os \in {"listening", "dead"}
      BY <2>1, <2>2 DEF AttemptInv, KidsInv, Kids
    <3>2. CASE children[g].os = "listening"
      <4>1. g \in GatewayPortHolder
        BY <2>1, <3>2 DEF GatewayPortHolder
      <4>2. QED
        BY <1>3, <4>1 DEF AttemptInv, KidsInv
    <3>3. QED
      BY <3>1, <3>2
  <2>4. /\ execution' \in Executions /\ execution'.verified = c
        /\ UNCHANGED <<execution.gateway, execution.kind, execution.study, execution.files,
                       execution.dirty, execution.load>>
    BY <1>3, <2>2, Fields DEF Executions
  <2>5. /\ children[g].os = "dead" => children'[g].seen
        /\ ~children'[g].asked /\ ~children'[g].early
        /\ Len(children') = Len(children) /\ pc' = "open"
    BY <1>1, <1>3, <2>1, <2>2, GotoSteady
  <2>6. where' = "open"
    BY <2>5, AtStation
  <2> HIDE DEF where
  <2>7. GateInv' /\ StopInv'
    BY <1>3, <2>1, <2>3, <2>4, <2>5, <2>6 DEF GateInv, StopInv
  <2>8. WindowInv' /\ FileInv'
    BY <1>1, <1>3, <2>4, <2>6, BeforeOn
  <2>9. QED
    BY <1>1, <1>3, <2>4, <2>7, <2>8, Fields, WorkingOn
<1>4. QED
  BY <1>1, <1>2, <1>3 DEF verifyGatewayTreatment

-----------------------------------------------------------------------------
(* The executor: finalisation, the seal and the record                     *)

LEMMA StageFailsKeeps ==
  ASSUME AttemptInv, StageFails
  PROVE  AttemptInv'
<1>1. PICK failure \in StageFailures : Fail(failure[1], failure[2])
  BY DEF StageFails
<1>2. pc \in Judging
  BY DEF StageFails, Judging
<1>3. \A s \in Stages : FailureClass(s) \in Reasons /\ s \in Places
  BY DEF Reasons, Places
<1>4. {"model-evidence-incomplete", "treatment-mismatch"} \subseteq Reasons /\ "browser" \in Places
  BY DEF Reasons, Places
<1>5. \A f \in StageFailures : f[1] \in Reasons /\ f[2] \in Places
  <2>1. {"deterministic-validation", "fingerprint", "prepare-run", "strict-finalize",
         "evidence-enrichment", "final-treatment-verification"} \subseteq Stages
    BY DEF Stages
  <2>2. QED
    BY <1>3, <1>4, <2>1 DEF StageFailures
<1>6. QED
  BY <1>1, <1>2, <1>5, FailKeeps

\* At the catch block, with what an execution has kept by then.
LEMMA FinalizedCaught ==
  ASSUME AttemptInv, pc = "finalize", Goto("caught"), UNCHANGED <<page, mon>>,
         execution' \in Executions, execution'.gateway = execution.gateway, ~execution'.dirty,
         execution'.files = execution.files \cup {"fingerprint"},
         execution'.study = "study-valid" => execution'.reason = "execution-seal-failed"
  PROVE  AttemptInv'
<1>1. pc \in Judging /\ pc \in UpToFinalize
  BY DEF Judging, UpToFinalize
<1>2. /\ "diagnostics" \in execution.files /\ "failure-trace" \notin execution.files
      /\ mon.gateway = execution.gateway
  BY <1>1, JudgingFacts
<1>3. FailureOf(execution')
  BY <1>2 DEF FailureOf
<1>4. QED
  BY <1>1, <1>2, <1>3, CaughtKeeps

LEMMA BelowThresholdsKeeps ==
  ASSUME AttemptInv, BelowThresholds
  PROVE  AttemptInv'
<1>1. /\ pc = "finalize" /\ pc \in Judging /\ Goto("caught") /\ UNCHANGED <<page, mon>>
      /\ "invalid-treatment" \in Reasons /\ "treatment-thresholds" \in Places
  BY DEF BelowThresholds, Judging, Reasons, Places
<1>2. execution.files \cup {"fingerprint"} \in SUBSET Files /\ ~execution.dirty
  BY <1>1, JudgingFacts DEF Files
<1>3. execution' = [execution EXCEPT !.files = execution.files \cup {"fingerprint"},
                      !.artifact = "artifact-valid", !.study = "invalid-treatment",
                      !.reason = "invalid-treatment", !.stage = "treatment-thresholds"]
  BY Fields DEF BelowThresholds, With, Executions
<1>4. /\ execution' \in Executions /\ execution'.study = "invalid-treatment"
      /\ execution'.files = execution.files \cup {"fingerprint"}
      /\ execution'.gateway = execution.gateway /\ execution'.dirty = execution.dirty
  BY <1>1, <1>2, <1>3, Fields DEF Executions
<1>5. QED
  BY <1>1, <1>2, <1>4, FinalizedCaught

\* One more record, of an execution that ended well.
LEMMA RecordKeeps ==
  ASSUME AttemptInv, pc \in Working, NEW next \in {"next", "closing"}, pc' = next,
         children' = Delivered, NEW e \in Executions, past' = Append(past, e), EndedWell(e)',
         execution' \in Executions, UNCHANGED <<stopFailures, squatter, page, mon>>
  PROVE  AttemptInv'
<1>1. /\ next \in Stations /\ next \in Outside /\ next \notin Working
      /\ pc \notin Outside \cup {"terminating", "killing"} /\ next \notin {"terminating", "killing"}
  BY DEF Stations, Outside, Working, UpToFinalize, BeforeBrowser, OnPage, Configuring, Monitoring,
     Collecting, Judging, Ending
<1>2. where = pc /\ where' = next
  BY <1>1, AtStation
<1> HIDE DEF where
<1>3. Typed /\ KidsInv /\ PastInv
  BY DEF AttemptInv
<1>4. /\ children' \in Seq(Kids) /\ KidsInv' /\ Ages /\ Len(children') = Len(children)
      /\ DOMAIN children' = DOMAIN children
  BY <1>3, DeliveredSteady DEF Steady, Typed
<1>5. past \in Seq(Executions) /\ Len(past) \in Nat /\ MaxExecutions \in Nat
  BY <1>3, AttemptAssumption DEF Typed
<1>6. /\ past' \in Seq(Executions) /\ Len(past') = Len(past) + 1
      /\ DOMAIN past' = DOMAIN past \cup {Len(past) + 1}
      /\ past'[Len(past) + 1] = e /\ \A x \in DOMAIN past : past'[x] = past[x]
  BY <1>5
<1>7. PastInv'
  <2>1. ASSUME NEW x \in DOMAIN past
        PROVE  EndedWell(past[x])'
    <3> DEFINE d == past[x]
    <3>1. EndedWell(d) /\ past[x]' = d /\ d.gateway \in {0} \cup 2..Len(children)
      BY <1>3, <1>6, <2>1 DEF PastInv, EndedWell
    <3> HIDE DEF d
    <3>2. /\ d.gateway \in {0} \cup 2..Len(children')
          /\ d.gateway # 0 => d.gateway \in DOMAIN children
      BY <1>3, <1>4, <3>1 DEF Typed
    <3>3. QED
      BY <3>1, <3>2, <1>4 DEF EndedWell, Ages
  <2>2. QED
    BY <1>6, <2>1 DEF PastInv, EndedWell, FailureOf
<1>8. Typed'
  BY <1>1, <1>3, <1>4, <1>6 DEF Typed
<1>9. ControlInv'
  <2>1. /\ Len(past) < MaxExecutions /\ mon.stopped = {} /\ children # <<>>
    BY <1>1, <1>2 DEF AttemptInv, ControlInv, Outside
  <2>2. children' # <<>> /\ Len(past') <= MaxExecutions
    BY <1>3, <1>4, <1>5, <1>6, <2>1 DEF Typed
  <2>3. QED
    BY <1>1, <1>2, <2>1, <2>2 DEF ControlInv
<1>10. GateInv' /\ StopInv' /\ FileInv'
  <2>1. next \notin UpToFinalize \cup Ending \cup Judging
    BY <1>1 DEF Working, UpToFinalize
  <2>2. next \notin {"finalize", "record", "caught"}
    OBVIOUS
  <2>3. QED
    BY <1>1, <1>2, <2>1, <2>2 DEF GateInv, StopInv, FileInv
<1>11. WindowInv'
  <2>1. /\ page.run = "idle" => page.tick = 0
        /\ page.run = "running" => page.tick < MaxTick
    BY DEF AttemptInv, WindowInv
  <2>2. QED
    BY <1>2, <2>1 DEF WindowInv, BeforeBrowser, OnPage, Configuring, Monitoring, Collecting, Judging
<1>12. QED
  BY <1>4, <1>7, <1>8, <1>9, <1>10, <1>11 DEF AttemptInv

\* What is sealed as completed was judged, finalised and stopped.
LEMMA CompleteKeeps ==
  ASSUME AttemptInv, Complete
  PROVE  AttemptInv'
<1> DEFINE valid == [With({"fingerprint"}) EXCEPT !.artifact = "artifact-valid", !.study = "study-valid"]
<1>1. pc = "finalize" /\ pc \in Judging /\ pc \in Working /\ UNCHANGED <<page, mon>>
      /\ "execution-seal-failed" \in Reasons /\ "execution-seal" \in Places
  BY DEF Complete, Judging, Working, UpToFinalize, Reasons, Places
<1>2. execution.files \cup {"fingerprint"} \in SUBSET Files /\ ~execution.dirty
  BY <1>1, JudgingFacts DEF Files
<1>3. valid = [execution EXCEPT !.files = execution.files \cup {"fingerprint"},
                 !.artifact = "artifact-valid", !.study = "study-valid"]
  BY Fields DEF With, Executions
<1>4. CASE /\ past' = Append(past, [valid EXCEPT !.status = "completed", !.seal = valid.files])
           /\ execution' = valid /\ pc' = "next" /\ children' = Delivered
           /\ UNCHANGED <<stopFailures, squatter>>
  <2>1. valid \in Executions /\ valid.files = execution.files \cup {"fingerprint"}
    <3> DEFINE files == execution.files \cup {"fingerprint"}
    <3>1. files \in SUBSET Files /\ execution \in Executions
      BY <1>2, Fields
    <3>2. valid = [execution EXCEPT !.files = files, !.artifact = "artifact-valid", !.study = "study-valid"]
      BY <1>3
    <3> HIDE DEF valid, files
    <3>3. valid \in Executions /\ valid.files = files
      BY <3>1, <3>2 DEF Executions
    <3>4. QED
      BY <3>3 DEF files
  <2> DEFINE sealed == [execution EXCEPT !.files = execution.files \cup {"fingerprint"},
                 !.artifact = "artifact-valid", !.study = "study-valid",
                 !.status = "completed", !.seal = execution.files \cup {"fingerprint"}]
  <2>2. PICK e : e = sealed
    OBVIOUS
  <2>3. execution' \in Executions /\ past' = Append(past, e)
    <3>1. sealed = [valid EXCEPT !.status = "completed", !.seal = valid.files]
      BY <1>3, <2>1, Fields DEF Executions
    <3>2. QED
      BY <1>4, <2>1, <2>2, <3>1
  <2> HIDE DEF valid
  <2>4. /\ e \in Executions /\ e.status = "completed"
        /\ e.files = execution.files \cup {"fingerprint"}
        /\ e.ledger = execution.ledger /\ e.load = execution.load /\ e.replay = execution.replay
        /\ e.kind = execution.kind /\ e.verified = execution.verified
        /\ e.gateway = execution.gateway /\ e.dirty = execution.dirty
    BY <1>2, <2>2, Fields DEF Executions
  <2>5. Typed /\ KidsInv
    BY DEF AttemptInv
  <2>6. /\ Ages /\ Len(children') = Len(children) /\ stopFailures' = stopFailures
        /\ DOMAIN children = 1..Len(children) /\ Len(children) \in Nat
    BY <1>4, <2>5, DeliveredSteady DEF Steady, Typed
  <2> DEFINE g == execution.gateway
  <2>7. /\ g \in {0} \cup 2..Len(children) /\ (g # 0 => g \in DOMAIN children)
        /\ g # 0 => children[g].asked /\ ~children[g].early
        /\ ~stopFailures /\ g # 0 => children[g].os = "dead"
    BY <1>1, <2>6, JudgingFacts DEF AttemptInv, StopInv
  <2> HIDE DEF g
  <2>8. /\ g \in {0} \cup 2..Len(children')
        /\ g # 0 => children'[g].asked /\ ~children'[g].early
        /\ ~stopFailures /\ g # 0 => children'[g].os = "dead"
    BY <2>6, <2>7 DEF Ages
  <2>9. /\ e.ledger.run = "complete" /\ e.ledger.load = e.load /\ e.replay = "match"
        /\ e.kind # "baseline" => e.verified = e.gateway
        /\ e.files \cap {"failure", "failure-trace", "failure-message"} = {}
        /\ ~e.dirty /\ e.gateway = g
    BY <1>1, <2>4, JudgingFacts DEF g
  <2>10. EndedWell(e)'
    BY <2>4, <2>6, <2>8, <2>9 DEF EndedWell
  <2>11. QED
    BY <1>1, <1>4, <2>3, <2>4, <2>10, RecordKeeps
<1>5. CASE /\ execution' = [valid EXCEPT !.reason = "execution-seal-failed", !.stage = "execution-seal"]
           /\ Goto("caught")
  <2>1. execution' = [execution EXCEPT !.files = execution.files \cup {"fingerprint"},
                 !.artifact = "artifact-valid", !.study = "study-valid",
                 !.reason = "execution-seal-failed", !.stage = "execution-seal"]
    BY <1>3, <1>5, Fields DEF Executions
  <2>2. /\ execution' \in Executions /\ execution'.reason = "execution-seal-failed"
        /\ execution'.files = execution.files \cup {"fingerprint"}
        /\ execution'.gateway = execution.gateway /\ execution'.dirty = execution.dirty
    BY <1>1, <1>2, <2>1, Fields DEF Executions
  <2>3. QED
    BY <1>1, <1>2, <1>5, <2>2, FinalizedCaught
<1>6. QED
  BY <1>4, <1>5 DEF Complete

\* The catch block stops the gateway, if it is ever known to run.
LEMMA CatchKeeps ==
  ASSUME AttemptInv, Caught
  PROVE  AttemptInv'
<1> DEFINE g == execution.gateway
<1>1. /\ pc = "caught" /\ pc \in Working /\ "record" \in Working /\ "record" \in Resumptions
      /\ UNCHANGED <<page, execution>> /\ "record" \in Stations /\ {"caught", "record"} \subseteq Ending
  BY DEF Caught, Working, Ending, Resumptions, Stations
<1>2. where = "caught"
  BY <1>1 DEF where
<1> HIDE DEF where
<1>3. /\ g \in {0} \cup 2..Len(children) /\ mon.gateway \in {0, g}
      /\ mon.plannedStopIssued => g # 0 /\ children[g].asked
      /\ FailureOf(execution) /\ ~execution.dirty
      /\ page.run = "idle" => page.tick = 0
      /\ page.run = "running" => page.tick < MaxTick
  BY <1>1, <1>2 DEF AttemptInv, GateInv, FileInv, WindowInv
<1>4. /\ "record" \notin UpToFinalize \cup Judging \cup BeforeBrowser \cup {"open"} \cup OnPage \cup {"artifacts"}
      /\ OnPage = Configuring \cup Monitoring \cup Collecting
  BY DEF UpToFinalize, Judging, BeforeBrowser, OnPage, Configuring, Monitoring, Collecting
<1>5. ASSUME where' = "record"
      PROVE  WindowInv' /\ FileInv'
  <2>1. "record" \notin {"tick", "trigger", "watch", "ledger", "bundle", "replay", "leave", "status", "artifacts", "open"}
    OBVIOUS
  <2>2. WindowInv'
    BY <1>1, <1>3, <1>4, <1>5, <2>1 DEF WindowInv
  <2>3. FileInv'
    BY <1>1, <1>3, <1>4, <1>5 DEF FileInv, FailureOf
  <2>4. QED
    BY <2>2, <2>3
<1>6. ASSUME where' = "record", Len(children') = Len(children),
             mon'.gateway = mon.gateway, mon'.plannedStopIssued = mon.plannedStopIssued,
             g # 0 /\ children[g].asked => children'[g].asked
      PROVE  GateInv'
  <2>1. "record" \notin {"setup", "gateway-ready", "verify", "open", "artifacts", "evidence", "finalize"}
    OBVIOUS
  <2>2. execution'.gateway = g
    BY <1>1
  <2> HIDE DEF g
  <2>3. QED
    BY <1>3, <1>4, <1>6, <2>1, <2>2 DEF GateInv
<1>7. CASE mon.gateway = 0 /\ Goto("record") /\ mon' = mon
  <2>1. /\ UNCHANGED stopFailures /\ pc' = "record" /\ Len(children') = Len(children)
        /\ g # 0 => /\ children[g].os = "dead" => children'[g].os = "dead"
                    /\ children[g].asked => children'[g].asked
    BY <1>1, <1>3, <1>7, GotoSteady
  <2>2. where' = "record"
    BY <2>1, AtStation
  <2>3. StopInv'
    <3>1. ~stopFailures /\ g # 0 => children[g].os = "dead"
      BY <1>1, <1>7 DEF AttemptInv, StopInv
    <3>2. QED
      BY <1>1, <2>1, <3>1 DEF StopInv
  <2>4. QED
    BY <1>1, <1>5, <1>6, <1>7, <2>1, <2>2, <2>3, Fields, WorkingOn
<1>8. CASE mon.gateway # 0 /\ mon' = Stopping(mon.gateway, "record") /\ Stop(mon.gateway, "record")
  <2>1. mon.gateway = g /\ g # 0 /\ g \in DOMAIN children /\ g \in Nat
    BY <1>3, <1>8 DEF AttemptInv, Typed
  <2>2. /\ mon' \in Monitors /\ mon'.then = "record" /\ mon'.stopping = g
        /\ mon'.stopped = mon.stopped /\ mon'.gateway = mon.gateway
        /\ mon'.plannedStopIssued = mon.plannedStopIssued
    BY <1>1, <1>8, <2>1, Fields, StoppingTyped
  <2>3. where' = "record" /\ Len(children') = Len(children) /\ children'[g].asked
    BY <1>1, <1>8, <2>1, <2>2, StopEffect
  <2>4. QED
    BY <1>1, <1>5, <1>6, <1>8, <2>1, <2>2, <2>3, Fields, StopKeeps
<1>9. QED
  BY <1>7, <1>8 DEF Caught

\* The record of a failure, sealed or not.
LEMMA RecordFailureKeeps ==
  ASSUME AttemptInv, RecordFailure
  PROVE  AttemptInv'
<1> DEFINE Default(now, otherwise) == IF now = "none" THEN otherwise ELSE now
<1> DEFINE kept == execution.files \cup {"failure-message", "failure-manifest", "context-logs"}
<1> DEFINE g == execution.gateway
<1>1. /\ pc = "record" /\ pc \in Working /\ "record" \in Ending
      /\ children' = Delivered /\ UNCHANGED <<stopFailures, squatter, page, mon>>
  BY DEF RecordFailure, Working, Ending
<1>2. where = "record"
  BY <1>1 DEF where
<1>3. /\ FailureOf(execution) /\ ~execution.dirty /\ g \in {0} \cup 2..Len(children)
      /\ ~stopFailures /\ g # 0 => children[g].os = "dead"
  BY <1>1, <1>2 DEF AttemptInv, GateInv, FileInv, StopInv
<1>4. kept \in SUBSET Files /\ execution \in Executions
  BY Fields DEF Files, Executions
<1>5. PICK failed : failed = [execution EXCEPT !.files = kept, !.status = "failed",
                                !.artifact = Default(execution.artifact, "artifact-invalid"),
                                !.study = Default(execution.study, "not-evaluated")]
  OBVIOUS
<1>6. /\ Default(execution.artifact, "artifact-invalid") \in {"artifact-valid", "artifact-invalid"}
      /\ Default(execution.study, "not-evaluated") \in {"study-valid", "invalid-treatment", "not-evaluated"}
      /\ Default(execution.study, "not-evaluated") = "study-valid" => execution.study = "study-valid"
  BY <1>4 DEF Executions
<1>7. failed = [With({"failure-message", "failure-manifest", "context-logs"}) EXCEPT
                      !.status = "failed",
                      !.artifact = Default(@, "artifact-invalid"),
                      !.study = Default(@, "not-evaluated")]
  BY <1>4, <1>5 DEF With, Executions
<1>8. PICK next \in {"next", "closing"}, e \in {failed, [failed EXCEPT !.seal = failed.files]} :
        pc' = next /\ past' = Append(past, e) /\ execution' = failed
  BY <1>7 DEF RecordFailure
<1> HIDE DEF Default, kept
<1>9. /\ failed \in Executions /\ failed.files = kept /\ failed.status = "failed"
      /\ failed.study = Default(execution.study, "not-evaluated")
      /\ failed.reason = execution.reason /\ failed.load = execution.load
      /\ failed.gateway = execution.gateway /\ failed.dirty = execution.dirty
  <2> DEFINE artifact == Default(execution.artifact, "artifact-invalid")
             study == Default(execution.study, "not-evaluated")
  <2>1. /\ artifact \in {"artifact-valid", "artifact-invalid"}
        /\ study \in {"study-valid", "invalid-treatment", "not-evaluated"}
    BY <1>6
  <2>2. failed = [execution EXCEPT !.files = kept, !.status = "failed", !.artifact = artifact,
                                   !.study = study]
    BY <1>5
  <2> HIDE DEF artifact, study
  <2>3. /\ failed.files = kept /\ failed.status = "failed" /\ failed.study = study
        /\ failed.reason = execution.reason /\ failed.load = execution.load
        /\ failed.gateway = execution.gateway /\ failed.dirty = execution.dirty
    BY <1>4, <2>2 DEF Executions
  <2>4. failed \in Executions
    BY <1>4, <2>1, <2>2 DEF Executions
  <2>5. QED
    BY <2>3, <2>4 DEF study
<1>10. /\ e \in Executions /\ e.files = kept /\ e.status = "failed"
       /\ e.study = failed.study /\ e.reason = failed.reason /\ e.load = failed.load
       /\ e.gateway = failed.gateway /\ e.dirty = failed.dirty
  <2>1. CASE e = failed
    BY <1>9, <2>1
  <2>2. CASE e = [failed EXCEPT !.seal = failed.files]
    BY <1>4, <1>9, <2>2 DEF Executions
  <2>3. QED
    BY <1>8, <2>1, <2>2
<1>11. FailureOf(e) /\ {"failure-message", "failure-manifest", "context-logs"} \subseteq e.files
  BY <1>3, <1>6, <1>9, <1>10 DEF FailureOf, kept
<1>12. Typed /\ KidsInv
  BY DEF AttemptInv
<1>13. /\ Ages /\ Len(children') = Len(children) /\ stopFailures' = stopFailures
       /\ DOMAIN children = 1..Len(children) /\ Len(children) \in Nat
  BY <1>1, <1>12, DeliveredSteady DEF Steady, Typed
<1>14. e.gateway = g /\ ~e.dirty
  BY <1>3, <1>9, <1>10
<1> HIDE DEF g
<1>15. /\ g \in {0} \cup 2..Len(children')
       /\ ~stopFailures /\ g # 0 => children'[g].os = "dead"
  BY <1>3, <1>13 DEF Ages
<1>16. EndedWell(e)'
  BY <1>10, <1>11, <1>13, <1>14, <1>15 DEF EndedWell, FailureOf
<1>17. QED
  BY <1>1, <1>8, <1>9, <1>10, <1>16, RecordKeeps

-----------------------------------------------------------------------------
(* The executor: the end of a stop, and what is around the executions      *)

\* Outside an execution nothing is said of a gateway, a window or a file.
LEMMA OutsideEasy ==
  ASSUME NEW st \in Outside
  PROVE  /\ st \notin Working \cup UpToFinalize \cup Ending \cup Judging \cup BeforeBrowser \cup {"open"}
         /\ st \notin OnPage \cup Configuring \cup Monitoring \cup Collecting
         /\ st \notin {"status", "tick", "trigger", "watch", "ledger", "bundle", "replay", "leave", "artifacts"}
         /\ st \notin {"terminating", "killing", "caught", "record", "finalize"} /\ st \in Stations
BY DEF Outside, Stations, Working, UpToFinalize, BeforeBrowser, OnPage, Configuring, Monitoring,
   Collecting, Judging, Ending

LEMMA OutsideHolds ==
  ASSUME NEW st \in Outside, pc' = st, page'.run = "idle" => page'.tick = 0,
         page'.run = "running" => page'.tick < MaxTick
  PROVE  where' = st /\ GateInv' /\ StopInv' /\ WindowInv' /\ FileInv'
<1>1. where' = st
  BY OutsideEasy, AtStation
<1> HIDE DEF where
<1>2. GateInv' /\ StopInv' /\ FileInv'
  BY <1>1, OutsideEasy DEF GateInv, StopInv, FileInv
<1>3. WindowInv'
  BY <1>1, OutsideEasy DEF WindowInv
<1>4. QED
  BY <1>1, <1>2, <1>3

\* The wait is over: the child is dead, or its stop is known to have failed.
LEMMA ResumeKeeps ==
  ASSUME AttemptInv, pc \in {"terminating", "killing"}, pc' = mon.then, children' = Delivered,
         UNCHANGED <<squatter, page, mon, execution, past>>,
         \/ stopFailures' = TRUE
         \/ stopFailures' = stopFailures /\ children[mon.stopping].os = "dead"
  PROVE  AttemptInv'
<1> DEFINE c == mon.stopping
<1> DEFINE g == execution.gateway
<1>1. /\ Typed /\ KidsInv /\ PastInv /\ mon.then \in Resumptions /\ c \in DOMAIN children
      /\ mon.then # "closing" => c = g
      /\ stopFailures \in BOOLEAN
  BY DEF AttemptInv, ControlInv, Typed
<1>2. where = mon.then /\ mon.then \in Stations /\ mon.then \notin {"terminating", "killing", "done"}
  BY <1>1 DEF where, Resumptions, Stations, Working, UpToFinalize, OnPage, Monitoring, Judging, Ending, Outside
<1>3. where' = where
  BY <1>2 DEF where
<1>4. /\ children' \in Seq(Kids) /\ KidsInv' /\ Steady /\ Ages /\ DOMAIN children' = DOMAIN children
      /\ \A d \in DOMAIN children : children[d].os = "dead" => children'[d].seen
      /\ Len(children') = Len(children) /\ DOMAIN children = 1..Len(children) /\ Len(children) \in Nat
  BY <1>1, DeliveredSteady DEF Steady, Typed
<1>5. stopFailures => stopFailures'
  BY <1>1
<1>6. PastInv'
  BY <1>1, <1>4, <1>5, EndedStays
<1>7. Typed'
  BY <1>1, <1>2, <1>4 DEF Typed
<1> HIDE DEF where
<1>8. ControlInv'
  <2>1. children # <<>> => children' # <<>>
    BY <1>4
  <2>2. ASSUME NEW d \in mon.stopped
        PROVE  d \in DOMAIN children /\ (stopFailures' \/ children'[d].seen)
    <3>1. d \in DOMAIN children /\ (stopFailures \/ children[d].seen \/ d = c)
      BY <2>2 DEF AttemptInv, ControlInv
    <3>2. QED
      BY <1>4, <1>5, <3>1 DEF Ages
  <2>3. QED
    BY <1>2, <1>3, <1>4, <2>1, <2>2 DEF AttemptInv, ControlInv
<1>9. GateInv'
  <2>1. where \in Working => g \in {0} \cup 2..Len(children) /\ (g # 0 => g \in DOMAIN children)
    BY <1>4 DEF AttemptInv, GateInv
  <2>2. execution'.gateway = g /\ execution' = execution /\ mon' = mon
    OBVIOUS
  <2> HIDE DEF g
  <2>3. QED
    BY <1>3, <1>4, <2>1, <2>2 DEF AttemptInv, GateInv, Steady, Ages, g
<1>10. StopInv'
  <2>1. SUFFICES ASSUME ~stopFailures', g # 0, mon.then \in {"finalize", "record", "caught"}
                 PROVE  children'[g].os = "dead"
    BY DEF StopInv
  <2>2. children[g].os = "dead" /\ g \in DOMAIN children
    BY <1>1, <2>1
  <2>3. QED
    BY <1>4, <2>2 DEF Ages
<1>11. WindowInv' /\ FileInv'
  BY <1>3 DEF AttemptInv, WindowInv, FileInv, FailureOf
<1>12. QED
  BY <1>4, <1>6, <1>7, <1>8, <1>9, <1>10, <1>11 DEF AttemptInv

LEMMA KillKeeps ==
  ASSUME AttemptInv, Kill
  PROVE  AttemptInv'
<1>1. /\ pc = "terminating" /\ Goto("killing") /\ UNCHANGED <<page, mon, execution>>
      /\ "killing" \in Stations
  BY DEF Kill, Stations
<1>2. /\ pc' = "killing" /\ UNCHANGED <<stopFailures, squatter, past>>
      /\ children' \in Seq(Kids) /\ KidsInv' /\ Steady /\ PastInv'
      /\ DOMAIN children' = DOMAIN children /\ DOMAIN children = 1..Len(children)
      /\ Len(children) \in Nat /\ Len(children') = Len(children)
  BY <1>1, GotoSteady
<1>3. where' = where
  BY <1>1, <1>2 DEF where
<1> HIDE DEF where
<1>4. Typed'
  BY <1>1, <1>2 DEF AttemptInv, Typed
<1>5. ControlInv'
  <2>1. children # <<>> => children' # <<>>
    BY <1>2
  <2>2. QED
    BY <1>1, <1>2, <1>3, <2>1 DEF AttemptInv, ControlInv, Steady, Ages
<1>6. GateInv'
  <2> DEFINE g == execution.gateway
  <2>1. where \in Working => g \in {0} \cup 2..Len(children) /\ (g # 0 => g \in DOMAIN children)
    BY <1>2 DEF AttemptInv, GateInv
  <2> HIDE DEF g
  <2>2. QED
    BY <1>1, <1>2, <1>3, <2>1 DEF AttemptInv, GateInv, Steady, Ages, g
<1>7. StopInv'
  BY <1>2 DEF StopInv
<1>8. WindowInv' /\ FileInv'
  BY <1>1, <1>3 DEF AttemptInv, WindowInv, FileInv, FailureOf
<1>9. QED
  BY <1>2, <1>4, <1>5, <1>6, <1>7, <1>8 DEF AttemptInv

\* stopAll counts a child as stopped only once it is seen dead or known to resist.
LEMMA StopAllKeeps ==
  ASSUME AttemptInv, stopAll
  PROVE  AttemptInv'
<1>1. pc = "closing" /\ where = "closing" /\ page' = NoPage /\ execution' = execution
      /\ {"closing", "done"} \subseteq Outside /\ "closing" \in Resumptions
  BY DEF stopAll, where, Outside, Resumptions
<1>2. NoPage \in Pages /\ NoPage.run = "idle" /\ NoPage.tick = 0
  BY AttemptAssumption DEF NoPage, Pages
<1>3. /\ Typed /\ \A c \in mon.stopped : c \in DOMAIN children /\ (stopFailures \/ children[c].seen)
      /\ DOMAIN children = 1..Len(children) /\ Len(children) \in Nat
      /\ Len(past) <= MaxExecutions
  BY <1>1 DEF AttemptInv, ControlInv, Typed
<1>4. CASE DOMAIN children \ mon.stopped = {} /\ Goto("done") /\ mon' = mon
  <2>1. /\ pc' = "done" /\ UNCHANGED <<stopFailures, squatter, past>>
        /\ children' \in Seq(Kids) /\ KidsInv' /\ PastInv'
        /\ DOMAIN children' = DOMAIN children
        /\ \A c \in DOMAIN children : children[c].seen => children'[c].seen
    BY <1>1, <1>4, OutsideEasy, GotoSteady
  <2>2. where' = "done" /\ GateInv' /\ StopInv' /\ WindowInv' /\ FileInv'
    BY <1>1, <1>2, <2>1, OutsideHolds
  <2>3. Typed'
    BY <1>1, <1>2, <1>3, <1>4, <2>1, OutsideEasy DEF Typed
  <2> HIDE DEF where
  <2>4. ControlInv'
    BY <1>1, <1>3, <1>4, <2>1, <2>2, OutsideEasy DEF ControlInv
  <2>5. QED
    BY <2>1, <2>2, <2>3, <2>4 DEF AttemptInv
<1>5. ASSUME NEW c \in DOMAIN children \ mon.stopped,
             mon' = [Stopping(c, "closing") EXCEPT !.stopped = @ \cup {c}], Stop(c, "closing")
      PROVE  AttemptInv'
  <2>1. c \in DOMAIN children /\ c \in Nat /\ mon \in Monitors /\ mon.stopped \cup {c} \in SUBSET Nat
    BY <1>3, <1>5 DEF Typed, Monitors
  <2>2. /\ mon' \in Monitors /\ mon'.then = "closing" /\ mon'.stopping = c
        /\ mon'.stopped = mon.stopped \cup {c}
    <3> DEFINE m == Stopping(c, "closing")
    <3>1. m \in Monitors /\ m.then = "closing" /\ m.stopping = c /\ m.stopped = mon.stopped
      BY <1>1, <2>1, StoppingTyped
    <3>2. mon' = [m EXCEPT !.stopped = mon.stopped \cup {c}]
      BY <1>5, <3>1
    <3> HIDE DEF m
    <3>3. QED
      BY <2>1, <3>1, <3>2 DEF Monitors
  <2>3. /\ children' \in Seq(Kids) /\ KidsInv' /\ PastInv' /\ UNCHANGED <<stopFailures, squatter, past>>
        /\ DOMAIN children' = DOMAIN children
        /\ pc' \in {"closing", "terminating"} /\ where' = "closing"
        /\ pc' # "terminating" => children'[c].seen
        /\ children'[c].asked
        /\ \A d \in DOMAIN children : children[d].seen => children'[d].seen
    BY <1>1, <1>5, <2>1, <2>2, StopEffect
  <2>4. Typed'
    BY <1>1, <1>2, <1>3, <2>2, <2>3 DEF Typed, Stations, Outside
  <2> HIDE DEF where
  <2>5. ControlInv'
    <3>1. \A d \in mon'.stopped :
            d \in DOMAIN children' /\ (stopFailures' \/ children'[d].seen
                                       \/ (d = mon'.stopping /\ pc' \in {"terminating", "killing"}))
      BY <1>3, <2>1, <2>2, <2>3
    <3>2. QED
      BY <1>1, <1>3, <2>1, <2>2, <2>3, <3>1, OutsideEasy DEF ControlInv
  <2>6. GateInv' /\ StopInv' /\ FileInv' /\ WindowInv'
    <3>1. pc' \notin {"finalize", "record", "caught"}
      BY <2>3
    <3>2. GateInv' /\ StopInv' /\ FileInv'
      BY <1>1, <2>3, <3>1, OutsideEasy DEF GateInv, StopInv, FileInv
    <3>3. WindowInv'
      BY <1>1, <1>2, <2>3, OutsideEasy DEF WindowInv
    <3>4. QED
      BY <3>2, <3>3
  <2>7. QED
    BY <2>3, <2>4, <2>5, <2>6 DEF AttemptInv
<1>6. QED
  BY <1>4, <1>5 DEF stopAll

\* Before the first execution and between two of them.
LEMMA OutsideKeeps ==
  ASSUME AttemptInv, Preflight \/ ViteReady \/ ViteFails \/ StartExecution
  PROVE  AttemptInv'
<1>1. /\ pc \in {"preflight", "vite", "next"} /\ where = pc
      /\ {"preflight", "vite", "next", "closing"} \subseteq Outside /\ squatter' = squatter
  BY DEF Preflight, ViteReady, ViteFails, StartExecution, where, Outside, Goto
<1>2. /\ Typed /\ KidsInv /\ PastInv /\ mon.stopped = {} /\ (pc # "preflight" => children # <<>>)
      /\ Len(past) <= MaxExecutions /\ Len(past) \in Nat /\ MaxExecutions \in Nat
      /\ page.run = "idle" => page.tick = 0
      /\ page.run = "running" => page.tick < MaxTick
  BY <1>1, AttemptAssumption DEF AttemptInv, ControlInv, WindowInv, Typed
<1>3. NoPage \in Pages /\ NoPage.run = "idle" /\ NoPage.tick = 0 /\ NoPage.load = 0
  BY AttemptAssumption DEF NoPage, Pages
<1>4. /\ Monitor \in Monitors /\ Monitor.stopped = {} /\ Monitor.gateway = 0 /\ ~Monitor.plannedStopIssued
  BY AttemptAssumption DEF Monitor, Monitors
<1>5. \* To a station outside any execution.
      ASSUME NEW st \in {"vite", "next", "closing"}, pc' = st, children' \in Seq(Kids), KidsInv', Ages,
             st # "closing" => children' # <<>>,
             page' \in {page, NoPage}, mon' \in {mon, Monitor}, execution' = execution,
             UNCHANGED <<stopFailures, past>>
      PROVE  AttemptInv'
  <2>1. st \in Outside
    BY DEF Outside
  <2>2. where' = st /\ GateInv' /\ StopInv' /\ WindowInv' /\ FileInv'
    BY <1>2, <1>3, <1>5, <2>1, OutsideHolds
  <2>3. Typed'
    BY <1>1, <1>2, <1>3, <1>4, <1>5, <2>1, OutsideEasy DEF Typed
  <2>4. PastInv'
    BY <1>2, <1>5, EndedStays
  <2> HIDE DEF where
  <2>5. ControlInv'
    BY <1>2, <1>4, <1>5, <2>1, <2>2, OutsideEasy DEF ControlInv
  <2>6. QED
    BY <1>5, <2>2, <2>3, <2>4, <2>5 DEF AttemptInv
<1>6. ASSUME children' = Delivered
      PROVE  children' \in Seq(Kids) /\ KidsInv' /\ Ages /\ (children # <<>> => children' # <<>>)
  <2>1. children' \in Seq(Kids) /\ KidsInv' /\ Steady
    BY <1>2, <1>6, DeliveredSteady
  <2>2. Len(children') = Len(children) /\ children \in Seq(Kids)
    BY <1>2, <2>1 DEF Steady, Typed
  <2>3. QED
    BY <2>1, <2>2 DEF Steady
<1>7. CASE Preflight
  <2>1. CASE pc' = "closing" /\ children' = children
    <3>1. children' \in Seq(Kids) /\ KidsInv' /\ Ages
      BY <1>2, <2>1 DEF Typed, KidsInv, GatewayPortHolder, Ages
    <3>2. QED
      BY <1>5, <1>7, <2>1, <3>1 DEF Preflight
  <2>2. CASE pc' = "vite" /\ children' = Spawned("vite")
    <3>1. children' \in Seq(Kids) /\ KidsInv' /\ Ages /\ Len(children') = Len(children) + 1
      BY <1>2, <2>2, SpawnedKids
    <3>2. children' # <<>>
      BY <1>2, <3>1 DEF Typed
    <3>3. QED
      BY <1>5, <1>7, <2>2, <3>1, <3>2 DEF Preflight
  <2>3. QED
    BY <1>7, <2>1, <2>2 DEF Preflight
<1>8. CASE ViteReady
  BY <1>2, <1>5, <1>6, <1>8 DEF ViteReady, Goto
<1>9. CASE ViteFails
  BY <1>2, <1>5, <1>6, <1>9 DEF ViteFails, Goto
<1>10. CASE StartExecution
  <2>1. CASE Len(past) = MaxExecutions
    BY <1>2, <1>5, <1>6, <1>10, <2>1 DEF StartExecution, Goto
  <2>2. CASE Len(past) # MaxExecutions
    <3>1. PICK kind \in Kinds : execution' = NewExecution(kind)
      BY <1>10, <2>2 DEF StartExecution
    <3>2. /\ pc' = "setup" /\ children' = Delivered /\ mon' = Monitor /\ page' = NoPage
          /\ UNCHANGED <<stopFailures, squatter, past>> /\ pc = "next"
      BY <1>10, <2>2 DEF StartExecution, Goto
    <3>3. /\ execution' \in Executions /\ execution'.gateway = 0 /\ execution'.load = 0
          /\ execution'.study = "none" /\ execution'.files = {} /\ ~execution'.dirty
      BY <1>3, <3>1, AttemptAssumption DEF NewExecution, Executions, Reasons, Places
    <3>4. where' = "setup"
      BY <3>2 DEF where
    <3>5. /\ "setup" \in Working /\ "setup" \in Stations /\ "setup" \in UpToFinalize \ Judging
          /\ "setup" \notin Ending /\ "setup" \in BeforeBrowser
          /\ "setup" \notin {"open"} \cup OnPage \cup {"artifacts", "evidence"} \cup Judging
          /\ OnPage = Configuring \cup Monitoring \cup Collecting
      BY DEF Working, Stations, UpToFinalize, BeforeBrowser, OnPage, Configuring, Monitoring, Collecting,
         Judging, Ending
    <3>6. Typed'
      BY <1>2, <1>3, <1>4, <1>6, <3>2, <3>3, <3>5 DEF Typed
    <3>7. PastInv'
      BY <1>2, <1>6, <3>2, EndedStays
    <3> HIDE DEF where
    <3>8. ControlInv'
      <4>1. Len(past) < MaxExecutions /\ children # <<>>
        BY <1>2, <2>2, <3>2
      <4>2. QED
        BY <1>2, <1>4, <1>6, <3>2, <3>4, <3>5, <4>1 DEF ControlInv
    <3>9. GateInv' /\ StopInv'
      BY <1>4, <3>2, <3>3, <3>4, <3>5 DEF GateInv, StopInv
    <3>10. FileInv'
      BY <3>3, <3>4, <3>5 DEF FileInv
    <3>11. WindowInv'
      BY <1>3, <3>2, <3>3, <3>4, <3>5 DEF WindowInv
    <3>12. QED
      BY <1>6, <3>2, <3>6, <3>7, <3>8, <3>9, <3>10, <3>11 DEF AttemptInv
  <2>3. QED
    BY <2>1, <2>2
<1>11. QED
  BY <1>7, <1>8, <1>9, <1>10

-----------------------------------------------------------------------------
(* The invariant holds                                                     *)

LEMMA AttemptInit == Init => AttemptInv
<1> SUFFICES ASSUME Init
             PROVE  AttemptInv
  OBVIOUS
<1>1. page = NoPage /\ mon = Monitor /\ execution = NewExecution("baseline") /\ past = <<>>
  BY DEF Init
<1>2. NoPage \in Pages /\ NoPage.run = "idle" /\ NoPage.tick = 0
  BY AttemptAssumption DEF NoPage, Pages
<1>3. Monitor \in Monitors /\ Monitor.stopped = {}
  BY AttemptAssumption DEF Monitor, Monitors
<1>4. NewExecution("baseline") \in Executions
  BY <1>2, AttemptAssumption DEF NewExecution, Executions, Reasons, Places
<1>5. /\ \/ children = <<>> /\ stopFailures = FALSE /\ pc = "preflight"
            /\ squatter \in {"none"} \cup Squatters
         \/ /\ children = <<[Child("vite") EXCEPT !.os = "listening", !.logged = TRUE],
                        [Child("gateway") EXCEPT !.os = "listening", !.logged = TRUE, !.asked = TRUE]>>
            /\ stopFailures = TRUE /\ pc = "next" /\ squatter = "none"
  BY DEF Init
<1>6. /\ children \in Seq(Kids) /\ KidsInv /\ (pc # "preflight" => children # <<>>)
  <2>1. CASE children = <<>> /\ pc = "preflight"
    BY <2>1 DEF KidsInv, GatewayPortHolder
  <2>2. CASE children = <<[Child("vite") EXCEPT !.os = "listening", !.logged = TRUE],
                          [Child("gateway") EXCEPT !.os = "listening", !.logged = TRUE, !.asked = TRUE]>>
    <3> DEFINE a == [Child("vite") EXCEPT !.os = "listening", !.logged = TRUE]
    <3> DEFINE b == [Child("gateway") EXCEPT !.os = "listening", !.logged = TRUE, !.asked = TRUE]
    <3>1. /\ a \in Kids /\ a.os = "listening" /\ ~a.seen /\ ~a.early
          /\ b \in Kids /\ b.os = "listening" /\ ~b.seen /\ ~b.early
      BY DEF Child, Kids
    <3>2. children = <<a, b>>
      BY <2>2
    <3> HIDE DEF a, b
    <3>3. children \in Seq(Kids) /\ Len(children) = 2 /\ DOMAIN children = {1, 2}
          /\ children[1] = a /\ children[2] = b
      BY <3>1, <3>2
    <3>4. GatewayPortHolder \subseteq {2}
      BY <3>3 DEF GatewayPortHolder
    <3>5. \A c \in DOMAIN children : children[c] = a \/ children[c] = b
      BY <3>3
    <3>6. \A c \in DOMAIN children :
            children[c].os = "listening" /\ ~children[c].seen /\ ~children[c].early
      BY <3>1, <3>5
    <3>7. \A c, d \in GatewayPortHolder : c = d
      BY <3>4
    <3>8. children # <<>>
      BY <3>3
    <3>9. QED
      BY <3>3, <3>6, <3>7, <3>8 DEF KidsInv
  <2>3. QED
    BY <1>5, <2>1, <2>2
<1>7. pc \in Outside /\ where = pc /\ pc \notin {"closing", "done"}
  BY <1>5 DEF Outside, where
<1> HIDE DEF where
<1>8. Typed
  <2>1. pc \in Stations
    BY <1>7, OutsideEasy
  <2>2. past \in Seq(Executions)
    BY <1>1
  <2>3. page \in Pages /\ mon \in Monitors /\ execution \in Executions
    BY <1>1, <1>2, <1>3, <1>4
  <2>4. stopFailures \in BOOLEAN /\ squatter \in {"none"} \cup Squatters
    BY <1>5
  <2>5. QED
    BY <1>6, <2>1, <2>2, <2>3, <2>4 DEF Typed
<1>9. ControlInv
  BY <1>1, <1>3, <1>6, <1>7, OutsideEasy, AttemptAssumption DEF ControlInv
<1>10. GateInv /\ StopInv /\ FileInv
  <2>1. GateInv
    BY <1>7, OutsideEasy DEF GateInv
  <2>2. StopInv
    BY <1>7, OutsideEasy DEF StopInv
  <2>3. FileInv
    BY <1>7, OutsideEasy DEF FileInv
  <2>4. QED
    BY <2>1, <2>2, <2>3
<1>11. WindowInv
  BY <1>1, <1>2, <1>7, OutsideEasy DEF WindowInv
<1>12. PastInv
  BY <1>1 DEF PastInv
<1>13. QED
  BY <1>6, <1>8, <1>9, <1>10, <1>11, <1>12 DEF AttemptInv

LEMMA ExecutorKeeps ==
  ASSUME AttemptInv, Executor
  PROVE  AttemptInv'
<1>1. CASE Preflight \/ ViteReady \/ ViteFails \/ StartExecution
  BY <1>1, OutsideKeeps
<1>2. CASE Setup \/ GatewayReady \/ GatewayTimesOut \/ verifyGatewayTreatment
  BY <1>2, SetupKeeps, GatewayReadyKeeps, GatewayTimesOutKeeps, VerifyKeeps
<1>3. CASE Open \/ Configure \/ ClickStart \/ Poll \/ ReadStatus \/ ReadTick
  BY <1>3, OpenKeeps, ConfigureKeeps, ClickStartKeeps, PollKeeps, ReadStatusKeeps, ReadTickKeeps
<1>4. CASE issuePlannedGatewayStop \/ NoStopDue \/ Watch
  BY <1>4, PlannedStopKeeps, NoStopDueKeeps, WatchKeeps
<1>5. CASE DownloadLedger \/ DownloadBundle \/ ReplayLatest \/ Leave \/ Artifacts
  BY <1>5, DownloadLedgerKeeps, DownloadBundleKeeps, ReplayLatestKeeps, LeaveKeeps, ArtifactsKeeps
<1>6. CASE JudgeChild \/ StageFails \/ BelowThresholds \/ Complete
  BY <1>6, JudgeChildKeeps, StageFailsKeeps, BelowThresholdsKeeps, CompleteKeeps
<1>7. CASE Caught \/ RecordFailure
  BY <1>7, CatchKeeps, RecordFailureKeeps
<1>8. CASE Exits \/ StopUnconfirmed
  BY <1>8, ResumeKeeps DEF Exits, StopUnconfirmed, Goto
<1>9. CASE Kill \/ stopAll
  BY <1>9, KillKeeps, StopAllKeeps
<1>10. QED
  BY <1>1, <1>2, <1>3, <1>4, <1>5, <1>6, <1>7, <1>8, <1>9 DEF Executor

LEMMA AttemptStutters ==
  ASSUME AttemptInv, UNCHANGED vars
  PROVE  AttemptInv'
<1>1. where' = where
  BY DEF vars, where
<1> HIDE DEF where
<1>2. Typed' /\ KidsInv' /\ StopInv'
  BY DEF vars, AttemptInv, Typed, KidsInv, StopInv, GatewayPortHolder
<1>3. ControlInv' /\ GateInv'
  BY <1>1 DEF vars, AttemptInv, ControlInv, GateInv
<1>4. WindowInv' /\ FileInv'
  BY <1>1 DEF vars, AttemptInv, WindowInv, FileInv, FailureOf
<1>5. PastInv'
  BY DEF vars, AttemptInv, PastInv, EndedWell, FailureOf
<1>6. QED
  BY <1>2, <1>3, <1>4, <1>5 DEF AttemptInv

LEMMA AttemptKept == AttemptInv /\ [Next]_vars => AttemptInv'
BY ExecutorKeeps, PageStepKeeps, ProcessesKeep, AttemptStutters DEF Next, Done

LEMMA AttemptHolds == Spec => []AttemptInv
<1>1. QED
  BY AttemptKept, AttemptInit, PTL DEF Spec

-----------------------------------------------------------------------------
(* The monitor's gateway outlives the execution it served                  *)

GatewayKnown == mon.gateway \in {0} \cup DOMAIN children

\* A step leaves the children there, and the executor's gateway with them.
LEMMA ProcessesForgetNone ==
  ASSUME Typed, Page \/ Processes \/ UNCHANGED vars
  PROVE  mon' = mon /\ DOMAIN children' = DOMAIN children
BY DEF Page, PageTicks, PageReloads, PageHangs, PageRecovers, PageCrashes, PageStep, Processes,
   Listen, Die, ExitEvent, GatewayWrites, SquatterVanishes, vars

LEMMA ChildrenStay ==
  ASSUME AttemptInv, \/ children' = children \/ children' = Delivered
                     \/ \E c : children' = Ask(c)
                     \/ \E name \in {"vite", "gateway"} : children' = Spawned(name)
  PROVE  DOMAIN children \subseteq DOMAIN children'
<1>1. /\ Typed /\ KidsInv /\ DOMAIN children = 1..Len(children) /\ Len(children) \in Nat
      /\ DOMAIN Delivered = DOMAIN children
  BY DeliveredKids DEF AttemptInv, Typed
<1>2. CASE children' = children \/ children' = Delivered
  BY <1>1, <1>2
<1>3. CASE \E c : children' = Ask(c)
  BY <1>1, <1>3 DEF Ask
<1>4. CASE \E name \in {"vite", "gateway"} : children' = Spawned(name)
  <2>1. PICK name \in {"vite", "gateway"} : children' = Spawned(name)
    BY <1>4
  <2>2. children' \in Seq(Kids) /\ Len(children') = Len(children) + 1
    BY <1>1, <2>1, SpawnedKids
  <2>3. DOMAIN children' = 1..Len(children')
    BY <2>2
  <2>4. QED
    BY <1>1, <2>2, <2>3
<1>5. QED
  BY <1>1, <1>2, <1>3, <1>4

\* Past the monitor, only a gateway that became ready is remembered.
LEMMA ExecutorRemembers ==
  ASSUME AttemptInv, Executor
  PROVE  /\ mon'.gateway = mon.gateway \/ mon'.gateway = 0 \/ pc' = "verify"
         /\ DOMAIN children \subseteq DOMAIN children'
<1>1. mon \in Monitors
  BY DEF AttemptInv, Typed
<1>2. CASE Preflight \/ ViteReady \/ ViteFails \/ StartExecution
  <2>1. mon' = mon \/ mon' = Monitor
    BY <1>2 DEF Preflight, ViteReady, ViteFails, StartExecution
  <2>2. children' = children \/ children' = Delivered \/ children' = Spawned("vite")
    BY <1>2 DEF Preflight, ViteReady, ViteFails, StartExecution, Goto
  <2>3. QED
    BY <2>1, <2>2, ChildrenStay DEF Monitor
<1>3. CASE Setup \/ GatewayReady \/ verifyGatewayTreatment
  <2>1. mon' = mon \/ pc' = "verify"
    BY <1>3 DEF Setup, GatewayReady, verifyGatewayTreatment, Fail, Goto
  <2>2. children' = Delivered \/ children' = Spawned("gateway")
    BY <1>3 DEF Setup, GatewayReady, verifyGatewayTreatment, Fail, Goto
  <2>3. QED
    BY <2>1, <2>2, ChildrenStay
<1>4. CASE Open \/ Configure \/ ClickStart \/ Poll \/ ReadStatus \/ ReadTick \/ Leave
  <2>1. children' = Delivered
    BY <1>4 DEF Open, Configure, ClickStart, Poll, ReadStatus, ReadTick, Leave, Answered, Awaited,
                FailInBrowser, Goto
  <2>2. mon'.gateway = mon.gateway
    BY <1>1, <1>4 DEF Open, Configure, ClickStart, Poll, ReadStatus, ReadTick, Leave, Answered,
                      Awaited, FailInBrowser, Goto, Monitors
  <2>3. QED
    BY <2>1, <2>2, ChildrenStay
<1>5. CASE NoStopDue \/ Watch \/ DownloadLedger \/ DownloadBundle \/ ReplayLatest \/ Artifacts
  <2>1. children' = Delivered
    BY <1>5 DEF NoStopDue, Watch, DownloadLedger, DownloadBundle, ReplayLatest, Artifacts, Answered,
                FailInBrowser, Goto
  <2>2. mon'.gateway = mon.gateway
    BY <1>1, <1>5 DEF NoStopDue, Watch, Elapse, DownloadLedger, DownloadBundle, ReplayLatest, Artifacts,
                      Answered, FailInBrowser, Goto, Monitors
  <2>3. QED
    BY <2>1, <2>2, ChildrenStay
<1>6. CASE issuePlannedGatewayStop \/ GatewayTimesOut \/ JudgeChild \/ Caught \/ stopAll
  <2>1. \/ children' = Delivered
        \/ \E c : children' = Ask(c)
    BY <1>6 DEF issuePlannedGatewayStop, GatewayTimesOut, JudgeChild, Caught, stopAll, Answered,
                Stop, Fail, FailInBrowser, Goto
  <2>2. mon'.gateway = mon.gateway
    BY <1>1, <1>6 DEF issuePlannedGatewayStop, GatewayTimesOut, JudgeChild, Caught, stopAll, Answered,
                      Stopping, Stop, Fail, FailInBrowser, Goto, Monitors
  <2>3. QED
    BY <2>1, <2>2, ChildrenStay
<1>7. CASE StageFails \/ BelowThresholds \/ Complete \/ RecordFailure \/ Exits \/ Kill \/ StopUnconfirmed
  <2>1. children' = Delivered /\ mon' = mon
    BY <1>7 DEF StageFails, BelowThresholds, Complete, RecordFailure, Exits, Kill, StopUnconfirmed, Fail, Goto
  <2>2. QED
    BY <2>1, ChildrenStay
<1>8. QED
  BY <1>2, <1>3, <1>4, <1>5, <1>6, <1>7 DEF Executor

LEMMA GatewayStaysKnown ==
  ASSUME AttemptInv, GatewayKnown, [Next]_vars
  PROVE  GatewayKnown'
<1>1. AttemptInv'
  BY AttemptKept
<1>2. CASE Page \/ Processes \/ UNCHANGED vars
  BY <1>2, ProcessesForgetNone DEF GatewayKnown, AttemptInv
<1>3. CASE Executor /\ pc' # "verify"
  BY <1>3, ExecutorRemembers DEF GatewayKnown
<1>4. CASE pc' = "verify"
  <2>1. where' = "verify" /\ "verify" \in Working
    BY <1>4 DEF where, Working, UpToFinalize, BeforeBrowser
  <2> HIDE DEF where
  <2>2. /\ execution'.gateway \in {0} \cup 2..Len(children')
        /\ mon'.gateway \in {0, execution'.gateway}
    BY <1>1, <2>1 DEF AttemptInv, GateInv
  <2>3. children' \in Seq(Kids)
    BY <1>1 DEF AttemptInv, Typed
  <2>4. DOMAIN children' = 1..Len(children') /\ Len(children') \in Nat
    BY <2>3
  <2>5. QED
    BY <2>2, <2>4 DEF GatewayKnown
<1>5. QED
  BY <1>2, <1>3, <1>4 DEF Next, Done

LEMMA GatewayHolds == Spec => [](AttemptInv /\ GatewayKnown)
<1>1. Init => GatewayKnown
  BY DEF Init, GatewayKnown, Monitor
<1>2. QED
  BY <1>1, AttemptInit, AttemptKept, GatewayStaysKnown, PTL DEF Spec

-----------------------------------------------------------------------------
(* The properties                                                          *)

\* What completes was produced whole: its ledger is that of the run it started, taken in
\* the same window and replayed to a match; its own gateway answered for the treatment,
\* and was asked to stop before anybody knew it dead (orchestrate.ts executeAttempt,
\* browserDriver.ts runBrowserAttempt).
THEOREM CompletionEarned == Spec => []CompletionIsEarned
<1>1. AttemptInv /\ GatewayKnown => CompletionIsEarned
  <2> SUFFICES ASSUME AttemptInv, GatewayKnown
               PROVE  CompletionIsEarned
    OBVIOUS
  <2>1. /\ \A c \in DOMAIN children : children[c] \in Kids
        /\ DOMAIN children = 1..Len(children) /\ Len(children) \in Nat /\ page \in Pages /\ mon \in Monitors
    BY DEF AttemptInv, Typed
  <2>2. mon.gateway \in {0} \cup DOMAIN children
    BY DEF GatewayKnown
  <2>3. TypeOK
    BY <2>1, <2>2, Fields DEF AttemptInv, Typed, KidsInv, ControlInv, TypeOK, Kids, Pages, Monitors, Executions
  <2>4. CompletedIsSound /\ NoDeathAbsorbed
    BY DEF AttemptInv, PastInv, EndedWell, CompletedIsSound, NoDeathAbsorbed, Ended
  <2>5. QED
    BY <2>3, <2>4 DEF CompletionIsEarned
<1>2. QED
  BY <1>1, GatewayHolds, PTL

\* Evidence that changed after its seal, and a child that outlives the invocation, are
\* the work of a stop that went unconfirmed, which the provenance gate knows of
\* (processManager.ts stop and stopAll).
THEOREM HealthIsTold == Spec => []HealthTellsTheTruth
<1>1. AttemptInv => HealthTellsTheTruth
  <2> SUFFICES ASSUME AttemptInv, ~stopFailures
               PROVE  /\ \A x \in DOMAIN past : past[x].dirty => past[x].seal = {}
                      /\ pc = "done" => \A c \in DOMAIN children : children[c].seen
    BY DEF HealthTellsTheTruth
  <2>1. \A x \in DOMAIN past : ~past[x].dirty
    BY DEF AttemptInv, PastInv, EndedWell
  <2>2. pc = "done" => \A c \in DOMAIN children : children[c].seen
    BY DEF AttemptInv, ControlInv
  <2>3. QED
    BY <2>1, <2>2
<1>2. QED
  BY <1>1, AttemptHolds, PTL

\* A failed execution keeps its record, and its diagnostics once it had a page; what
\* completed carries nothing named after a failure (orchestrate.ts executeAttempt's
\* catch block, browserDriver.ts captureDiagnostics).
THEOREM FailureKept == Spec => []FailureKeepsEvidence
<1>1. AttemptInv => FailureKeepsEvidence
  <2> SUFFICES ASSUME AttemptInv
               PROVE  FailureKeepsEvidence
    OBVIOUS
  <2>1. ASSUME NEW x \in DOMAIN past
        PROVE  EndedWell(past[x])
    BY <2>1 DEF AttemptInv, PastInv
  <2>2. \A x \in Ended("failed") :
          /\ {"failure-message", "failure-manifest", "context-logs"} \subseteq past[x].files
          /\ past[x].load # 0 => "diagnostics" \in past[x].files
          /\ past[x].study = "study-valid" => past[x].reason = "execution-seal-failed"
    BY <2>1 DEF EndedWell, FailureOf, Ended
  <2>3. \A x \in Ended("completed") : past[x].files \cap {"failure", "failure-trace", "failure-message"} = {}
    BY <2>1 DEF EndedWell, Ended
  <2>4. \A x \in DOMAIN past : ~({"attempt-trace", "failure-trace"} \subseteq past[x].files)
    BY <2>1 DEF EndedWell, FailureOf
  <2>5. QED
    BY <2>2, <2>3, <2>4 DEF FailureKeepsEvidence
<1>2. QED
  BY <1>1, AttemptHolds, PTL

=============================================================================
