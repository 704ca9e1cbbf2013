--------------------------- MODULE DecisionLifecycle ---------------------------
(***************************************************************************)
(* The decision lifecycle of the simulation engine                         *)
(* (src/src/sim/runtime/engine.ts): how one logical tick asks the NPCs for *)
(* decisions, and how an answer that may come ticks later is admitted,     *)
(* rejected, outlived or overtaken.                                        *)
(*                                                                         *)
(* stepTick is one synchronous call.  It is modelled as a program that runs*)
(* its steps in a fixed order: pc names the step, turn is the position in  *)
(* NPC_IDS of the loop a step runs, and every transition is the body of one*)
(* iteration (or one response, or one failure).  Only between two ticks    *)
(* (pc = "idle") can the host queue a response or a failure, as the worker *)
(* never interleaves a command with a tick.                                *)
(*                                                                         *)
(* Steps 1-8 of the tick (needs, scripted events, arrivals, completions,   *)
(* commitments) are one abstract step per NPC: they may end, start or      *)
(* interrupt an action and move the world's hard state.                    *)
(***************************************************************************)
EXTENDS Integers, Sequences, FiniteSets

CONSTANTS
  Order,      \* NPC_IDS: the NPCs in the order every loop visits them
  StartsFirm, \* NPCs whose scripted first action is not interruptible
  External,   \* the NPCs the host sends responses and failures for
  Plan,       \* Plan[n]: the provider the run's plan names for NPC n
  Conduct,    \* Conduct[n]: what that provider may do, among Conducts
  Fallback,   \* the id of the engine-owned fallback provider
  Offer,      \* what an NPC can be offered besides continuing
  Forms,      \* the forms an external response can take, apart from its addressee
  Injurable,  \* the NPCs an injury may incapacitate (the scripted one: the meal owner)
  Hard,       \* values of the hard world state the fingerprint projects
  Ttl,        \* DECISION_REQUEST_TTL_TICKS
  Cadence,    \* MAX_REEVALUATION_INTERVAL_TICKS
  EndTick,    \* the scenario's last tick
  Retention,  \* RESOLVED_REQUEST_RETENTION
  MaxQueued,  \* bound: responses and failures queued before one tick
  Continue,   \* the continue-current pseudo-affordance
  Here,       \* the scenario id of this run
  None

Npcs == {Order[i] : i \in DOMAIN Order}
Conducts == {"answers", "fails", "defers"}

(***************************************************************************)
(* An affordance, apart from Continue, is known by whether it needs travel *)
(* and whether the action it launches is firm (not interruptible).  `wait` *)
(* (no travel, interruptible) is always offered.                           *)
(***************************************************************************)
Affordances == [travels : BOOLEAN, firm : BOOLEAN]
Wait == [travels |-> FALSE, firm |-> FALSE]

ASSUME OrderAssumption ==
  /\ Order \in Seq(Npcs) /\ Len(Order) > 0
  /\ \A i, j \in DOMAIN Order : Order[i] = Order[j] => i = j
ASSUME NumberAssumption ==
  /\ Ttl \in Nat \ {0} /\ Cadence \in Nat \ {0} /\ EndTick \in Nat \ {0}
  /\ Retention \in Nat \ {0} /\ MaxQueued \in Nat
ASSUME PlanAssumption ==
  /\ DOMAIN Plan = Npcs
  /\ Conduct \in [Npcs -> SUBSET Conducts] /\ StartsFirm \subseteq Npcs /\ External \subseteq Npcs /\ Injurable \subseteq Npcs
  /\ Offer \subseteq Affordances /\ Wait \in Offer
  /\ Continue \notin Affordances
  /\ Hard # {}

VARIABLES
  pc,           \* the step of stepTick to run next, or "idle", or "sealed"
  turn,         \* the loop position in Order
  tick,         \* state.tick
  counter,      \* run.counters.decision
  pending,      \* npcs[n].pendingDecision
  body,         \* npcs[n]: current action, transit, incapacitated
  reeval,       \* the NPCs flagged needsReevaluation
  lastDecision, \* npcs[n].lastDecisionTick
  hard,         \* the hard world state besides incapacity
  registry,     \* run.resolvedRequests, in insertion order
  ledger,       \* of run.ledger: settlements, proposals and late rejections
  inbox,        \* run.responseInbox (and the due scheduled responses)
  failbox       \* run.failureInbox

vars == <<pc, turn, tick, counter, pending, body, reeval, lastDecision, hard,
          registry, ledger, inbox, failbox>>

Npc == Order[turn]

-----------------------------------------------------------------------------
(* Events, the resolved-request registry and the fingerprint               *)

Event(type, req, note) == [type |-> type, req |-> req, note |-> note]
Settlements == {"Accepted", "Expired", "Superseded"}

\* Mutated form of Keep: the registry is never pruned.
KeepAll(s) == s

\* Oldest-first pruning in insertion order.
Keep(s) == IF Len(s) > Retention THEN SubSeq(s, Len(s) - Retention + 1, Len(s)) ELSE s

Record(req, how) == Keep(Append(registry, [req |-> req, how |-> how]))

\* Mutated form of RecordFailure: the external-failure path forgets the registry.
ForgetFailure(req) == registry
RecordFailure(req) == Record(req, "Expired")

Incapacitated == {n \in Npcs : body[n].incap}

\* Mutated form of HardFingerprint: incapacity left out of the projection.
HardWithoutInjury == <<hard, {}>>
HardFingerprint == <<hard, Incapacitated>>

-----------------------------------------------------------------------------
(* Actions of the NPCs, as far as the lifecycle sees them                  *)

\* An action is identified by the request that caused it (0: scripted) and by
\* whether it was launched provisionally, as each of the two happens once.
Key(a) == <<a.req, a.prov>>

Active(a) == a # None /\ a.phase = "active"
Preemptible(a) == Active(a) /\ ~a.firm
Busy(n) ==
  \/ body[n].action # None /\ ~Preemptible(body[n].action)
  \/ body[n].transit

Started(req, prov, c) == [req |-> req, prov |-> prov, phase |-> "active", firm |-> c.firm]
Departed(req, prov, c) == [Started(req, prov, c) EXCEPT !.phase = "moving"]

\* Besides the NPCs an event names, every NPC is flagged if it is perceivable.
Perceived(marked) == {reeval \cup marked, Npcs}
\* An interruption may also flag a patient whose treatment it aborts.
Interrupted(marked) == Perceived(marked) \cup {reeval \cup marked \cup {n} : n \in Npcs}

\* Beginning an action can take the bench over from its occupant, whose work
\* is interrupted with it.
Begin(n, b, marked) ==
  \/ /\ body' = [body EXCEPT ![n] = b]
     /\ reeval' \in IF marked = {} THEN Perceived({}) ELSE Interrupted(marked)
  \/ \E m \in Npcs \ {n} :
       /\ Preemptible(body[m].action)
       /\ body' = [body EXCEPT ![n] = b, ![m].action = None]
       /\ reeval' \in Interrupted(marked \cup {m})

\* proposeAndLaunch: rejected by the start validation, or the NPC departs, or
\* the action begins at once.  A preempted action is gone in every case, and
\* its interruption flags the NPC.
Launch(n, req, prov, c) ==
  LET preempted == IF body[n].action = None THEN {} ELSE {n}
  IN
  /\ hard' \in Hard
  /\ \/ /\ body' = [body EXCEPT ![n].action = None]
        /\ reeval' \in Interrupted({n})
     \/ /\ c.travels
        /\ body' = [body EXCEPT ![n].action = Departed(req, prov, c), ![n].transit = TRUE]
        /\ reeval' \in IF preempted = {} THEN {reeval} ELSE Interrupted(preempted)
     \/ /\ ~c.travels
        /\ Begin(n, [body[n] EXCEPT !.action = Started(req, prov, c)], preempted)

-----------------------------------------------------------------------------
(* The acceptance gate                                                     *)

Response(n, req, form) ==
  [npc |-> n, req |-> req, provider |-> form.provider, rid |-> form.rid,
   choice |-> form.choice, scenario |-> form.scenario]

Current(r) == pending[r.npc] # None /\ pending[r.npc].req = r.req

Resolutions(req) == {registry[i].how : i \in {j \in DOMAIN registry : registry[j].req = req}}

LateReason(req) ==
  IF "Superseded" \in Resolutions(req) THEN "superseded-request"
  ELSE IF "Expired" \in Resolutions(req) THEN "response-expired"
  ELSE "unknown-request"

Authorised(r, usedFallback) ==
  r.provider = IF usedFallback THEN Fallback ELSE pending[r.npc].provider

Offered(r) ==
  r.choice \in Offer \cup (IF pending[r.npc].continues = None THEN {} ELSE {Continue})

\* What the two data checks say, which the model leaves open: the constraints
\* may forbid the choice, its start validation may fail.
Findings == {"fine", "forbidden", "invalid"}

\* The gate's checks in the code's order; `found` is the data checks' finding.
Verdict(r, usedFallback, found) ==
  LET p == pending[r.npc]
      a == body[r.npc].action
  IN IF ~Current(r) THEN LateReason(r.req)
     ELSE IF r.scenario # Here THEN "unknown-request"
     ELSE IF ~Authorised(r, usedFallback) THEN "provider-mismatch"
     ELSE IF r.rid \in p.seen THEN "duplicate-response"
     ELSE IF tick > p.expires THEN "response-expired"
     ELSE IF ~Offered(r) THEN "unoffered-affordance"
     ELSE IF HardFingerprint # p.fingerprint THEN "stale-dependencies"
     ELSE IF found = "forbidden" THEN "constraint-violation"
     ELSE IF r.choice = Continue
     THEN IF a = None \/ Key(a) # p.continues THEN "action-no-longer-valid" ELSE "accepted"
     ELSE IF Busy(r.npc) THEN "actor-busy-noninterruptible"
     ELSE IF found = "invalid" THEN "action-no-longer-valid"
     ELSE "accepted"

\* The ledger keeps the rejections of late answers only: the reasons found
\* against a pending request are not looked at again.
Reject(r, reason) ==
  /\ pending' = IF Current(r)
                THEN [pending EXCEPT ![r.npc].seen = @ \cup {r.rid}]
                ELSE pending
  /\ ledger' = IF Current(r) THEN ledger ELSE Append(ledger, Event("Rejected", r.req, reason))
  /\ UNCHANGED <<body, reeval, hard, registry>>

\* Mutated form of Answered: acceptance leaves the request pending.
StillPending(n) == pending
Answered(n) == [pending EXCEPT ![n] = None]

Accept(r) ==
  /\ pending' = Answered(r.npc)
  /\ registry' = Record(r.req, "Accepted")
  /\ IF r.choice = Continue
     THEN /\ ledger' = Append(ledger, Event("Accepted", r.req, "continue"))
          /\ UNCHANGED <<body, reeval, hard>>
     ELSE /\ ledger' = ledger \o <<Event("Accepted", r.req, "launch"),
                                   Event("Proposed", r.req, "decided")>>
          /\ Launch(r.npc, r.req, FALSE, r.choice)

\* processDecisionResponse, for one finding of the data checks
Gate(r, usedFallback, found) ==
  LET verdict == Verdict(r, usedFallback, found)
  IN IF verdict = "accepted" THEN Accept(r) ELSE Reject(r, verdict)

Accepts(r, usedFallback, found) == Verdict(r, usedFallback, found) = "accepted"

-----------------------------------------------------------------------------
(* Between two ticks: the host                                             *)

Host == pc = "idle"

SubmitResponse(n, req, form) ==
  /\ Host /\ Len(inbox) + Len(failbox) < MaxQueued
  /\ inbox' = Append(inbox, Response(n, req, form))
  /\ UNCHANGED <<pc, turn, tick, counter, pending, body, reeval, lastDecision, hard,
                 registry, ledger, failbox>>

SubmitFailure(n, req, provider) ==
  /\ Host /\ Len(inbox) + Len(failbox) < MaxQueued
  /\ failbox' = Append(failbox, [npc |-> n, req |-> req, provider |-> provider])
  /\ UNCHANGED <<pc, turn, tick, counter, pending, body, reeval, lastDecision, hard,
                 registry, ledger, inbox>>

BeginTick ==
  /\ Host
  /\ tick' = tick + 1 /\ pc' = "world" /\ turn' = 1
  /\ UNCHANGED <<counter, pending, body, reeval, lastDecision, hard, registry, ledger,
                 inbox, failbox>>

\* A sealed run's stepTick returns at once.
StepSealed == pc = "sealed" /\ UNCHANGED vars

-----------------------------------------------------------------------------
(* Within a tick                                                           *)

\* The loop over NPC_IDS goes on, or the next step of the tick begins.
LoopOr(next) ==
  IF turn < Len(Order)
  THEN pc' = pc /\ turn' = turn + 1
  ELSE pc' = next /\ turn' = 1

\* Steps 1-8 for one NPC; what they do to the world as a whole is the first
\* iteration's.
World ==
  LET b == body[Npc]
      a == b.action
  IN
  /\ pc = "world"
  /\ LoopOr("drain")
  /\ hard' \in IF turn = 1 THEN Hard ELSE {hard}
  /\ \/ UNCHANGED body /\ reeval' \in Perceived({})
     \/ /\ b.transit /\ ~Active(a)              \* arrival
        /\ \/ /\ a # None
              /\ Begin(Npc, [b EXCEPT !.transit = FALSE, !.action.phase = "active"], {})
           \/ /\ body' = [body EXCEPT ![Npc].transit = FALSE, ![Npc].action = None]
              /\ reeval' \in Perceived({Npc})
     \/ /\ Active(a)                            \* completed, or its sustained check failed
        /\ body' = [body EXCEPT ![Npc].action = None]
        /\ reeval' \in Interrupted({})
     \/ /\ Npc \in Injurable /\ ~b.incap         \* an untreated injury worsens
        /\ body' = [body EXCEPT ![Npc].action = None, ![Npc].incap = TRUE]
        /\ reeval' = Npcs
     \/ /\ b.incap                              \* a treatment completes
        /\ body' = [body EXCEPT ![Npc].incap = FALSE]
        /\ reeval' = Npcs
  /\ UNCHANGED <<tick, counter, pending, lastDecision, registry, ledger, inbox, failbox>>

\* Step 9: the responses, one after the other, then the failures.
DrainResponse ==
  /\ pc = "drain" /\ inbox # <<>>
  /\ \E found \in Findings : Gate(Head(inbox), FALSE, found)
  /\ inbox' = Tail(inbox)
  /\ UNCHANGED <<pc, turn, tick, counter, lastDecision, failbox>>

Matches(f) ==
  /\ pending[f.npc] # None /\ pending[f.npc].req = f.req
  /\ f.provider = pending[f.npc].provider

DrainFailure ==
  LET f == Head(failbox)
  IN
  /\ pc = "drain" /\ inbox = <<>> /\ failbox # <<>>
  /\ failbox' = Tail(failbox)
  /\ IF Matches(f)
     THEN /\ pending' = [pending EXCEPT ![f.npc] = None]
          /\ registry' = RecordFailure(f.req)
          /\ ledger' = Append(ledger, Event("Expired", f.req, "external-failure"))
     ELSE UNCHANGED <<pending, registry, ledger>>
  /\ UNCHANGED <<pc, turn, tick, counter, body, reeval, lastDecision, hard, inbox>>

Drained ==
  /\ pc = "drain" /\ inbox = <<>> /\ failbox = <<>>
  /\ pc' = "expire" /\ turn' = 1
  /\ UNCHANGED <<tick, counter, pending, body, reeval, lastDecision, hard, registry,
                 ledger, inbox, failbox>>

Overdue(n) == pending[n] # None /\ tick > pending[n].expires

\* Mutated form of Settle: the event is recorded, the request stays pending.
SettleOnPaper(n, note) ==
  /\ pending' = pending
  /\ registry' = Record(pending[n].req, "Expired")
  /\ ledger' = Append(ledger, Event("Expired", pending[n].req, note))
\* A request is settled by the clock or by the end of the scenario.
Settle(n, note) ==
  /\ pending' = [pending EXCEPT ![n] = None]
  /\ registry' = Record(pending[n].req, "Expired")
  /\ ledger' = Append(ledger, Event("Expired", pending[n].req, note))

\* Step 10, then step 11's choice of what follows.
Expire ==
  /\ pc = "expire"
  /\ LoopOr(IF tick >= EndTick THEN "end" ELSE "decide")
  /\ IF Overdue(Npc)
     THEN Settle(Npc, "ttl-expired") /\ reeval' = reeval \cup {Npc}
     ELSE UNCHANGED <<pending, registry, ledger, reeval>>
  /\ UNCHANGED <<tick, counter, body, lastDecision, hard, inbox, failbox>>

\* Step 11: endScenario force-expires what is pending, then interrupts what
\* is running; the last iteration seals the ledger.
End ==
  /\ pc = "end"
  /\ LoopOr("sealed")
  /\ IF pending[Npc] # None
     THEN Settle(Npc, "scenario-ended")
     ELSE UNCHANGED <<pending, registry, ledger>>
  /\ body' = [body EXCEPT ![Npc].action = None]
  /\ reeval' = IF body[Npc].action = None THEN reeval ELSE reeval \cup {Npc}
  /\ UNCHANGED <<tick, counter, lastDecision, hard, inbox, failbox>>

\* Mutated form of CadenceDue: the interval is exceeded, not reached.
CadencePassed(n) == tick - lastDecision[n] > Cadence
CadenceDue(n) == tick - lastDecision[n] >= Cadence

ShouldDecide(n) ==
  /\ ~body[n].incap /\ ~body[n].transit
  /\ \/ body[n].action = None
     \/ Preemptible(body[n].action) /\ (n \in reeval \/ CadenceDue(n))

\* Step 12 for an NPC that is not asked.
SkipDecision ==
  /\ pc = "decide" /\ ~ShouldDecide(Npc)
  /\ LoopOr("idle")
  /\ UNCHANGED <<tick, counter, pending, body, reeval, lastDecision, hard, registry,
                 ledger, inbox, failbox>>

\* Mutated form of Supersedes: an outstanding request is overwritten silently.
NeverSupersedes(n) == FALSE
Supersedes(n) == pending[n] # None

Request(n) ==
  [req |-> counter + 1, provider |-> Plan[n], expires |-> tick + Ttl,
   fingerprint |-> HardFingerprint,
   continues |-> IF Preemptible(body[n].action) THEN Key(body[n].action) ELSE None,
   seen |-> {}]

\* decideForNpc up to the provider's call: the outstanding request is
\* superseded, the new one recorded.
RequestDecision ==
  /\ pc = "decide" /\ ShouldDecide(Npc)
  /\ counter' = counter + 1
  /\ IF Supersedes(Npc)
     THEN /\ ledger' = Append(ledger, Event("Superseded", pending[Npc].req, ""))
          /\ registry' = Record(pending[Npc].req, "Superseded")
     ELSE UNCHANGED <<ledger, registry>>
  /\ pending' = [pending EXCEPT ![Npc] = Request(Npc)]
  /\ lastDecision' = [lastDecision EXCEPT ![Npc] = tick]
  /\ reeval' = reeval \ {Npc}
  /\ pc' = "ask"
  /\ UNCHANGED <<turn, tick, body, hard, inbox, failbox>>

Local(rid, provider, choice) ==
  [npc |-> Npc, req |-> counter, provider |-> provider, rid |-> rid, choice |-> choice,
   scenario |-> Here]

\* After an NPC has decided: the loop over NPC_IDS goes on.
NextNpc == IF turn < Len(Order) THEN pc' = "decide" /\ turn' = turn + 1
                                ELSE pc' = "idle" /\ turn' = 1

\* The provider answers in the call: its answer goes through the gate, and a
\* rejected one through the fallback.
ProviderAnswers(choice, found) ==
  LET r == Local("res", Plan[Npc], choice)
  IN
  /\ pc = "ask" /\ "answers" \in Conduct[Npc]
  /\ Gate(r, FALSE, found)
  /\ IF Accepts(r, FALSE, found) THEN NextNpc ELSE pc' = "fallback" /\ turn' = turn
  /\ UNCHANGED <<tick, counter, lastDecision, inbox, failbox>>

\* The provider throws.
ProviderFails ==
  /\ pc = "ask" /\ "fails" \in Conduct[Npc]
  /\ pc' = "fallback"
  /\ UNCHANGED <<turn, tick, counter, pending, body, reeval, lastDecision, hard, registry,
                 ledger, inbox, failbox>>

\* The fallback's choice is offered and allowed by the constraints; it can
\* only fail its start validation.
FallbackAnswers(choice, found) ==
  /\ pc = "fallback"
  /\ choice \in Offer \cup (IF pending[Npc].continues = None THEN {} ELSE {Continue})
  /\ found # "forbidden"
  /\ Gate(Local("res-fb", Fallback, choice), TRUE, found)
  /\ NextNpc
  /\ UNCHANGED <<tick, counter, lastDecision, inbox, failbox>>

\* A provisional action can be preempted whatever the affordance says.
Bridging(c) == [c EXCEPT !.firm = FALSE]

\* The provider defers: the request stays pending, and an idle NPC acts on
\* the fallback's choice meanwhile.
ProviderDefers(choice) ==
  /\ pc = "ask" /\ "defers" \in Conduct[Npc]
  /\ IF body[Npc].action # None
     THEN UNCHANGED <<body, reeval, hard, ledger>>
     ELSE /\ ledger' = Append(ledger, Event("Proposed", counter, "provisional"))
          /\ Launch(Npc, counter, TRUE, Bridging(choice))
  /\ NextNpc
  /\ UNCHANGED <<tick, counter, pending, lastDecision, registry, inbox, failbox>>

-----------------------------------------------------------------------------
Init ==
  /\ pc = "idle" /\ turn = 1 /\ tick = 0 /\ counter = 0
  /\ pending = [n \in Npcs |-> None]
  /\ body = [n \in Npcs |->
               [action |-> [req |-> 0, prov |-> FALSE, phase |-> "active",
                            firm |-> n \in StartsFirm],
                transit |-> FALSE, incap |-> FALSE]]
  /\ reeval = {}
  /\ lastDecision = [n \in Npcs |-> 0]
  /\ hard \in Hard
  /\ registry = <<>> /\ ledger = <<>> /\ inbox = <<>> /\ failbox = <<>>

Engine ==
  \/ BeginTick \/ World \/ DrainResponse \/ DrainFailure \/ Drained \/ Expire \/ End
  \/ SkipDecision \/ RequestDecision \/ ProviderFails
  \/ \E choice \in Offer \cup {Continue, None}, found \in Findings :
       ProviderAnswers(choice, found)
  \/ \E choice \in Offer \cup {Continue}, found \in Findings :
       FallbackAnswers(choice, found)
  \/ \E choice \in Offer : ProviderDefers(choice)

\* External responses and failures name any request issued so far, also one
\* of another NPC.
HostQueues ==
  \/ \E n \in External, req \in 1..counter, form \in Forms : SubmitResponse(n, req, form)
  \/ \E n \in External, req \in 1..counter :
       \E provider \in {Plan[m] : m \in Npcs} : SubmitFailure(n, req, provider)

Next == Engine \/ HostQueues \/ StepSealed

Spec == Init /\ [][Next]_vars

\* The pacing loop (or a run-to-completion command) keeps stepping ticks.
FairSpec == Spec /\ WF_vars(Engine)

-----------------------------------------------------------------------------
(* Properties                                                              *)

Actions == [req : Nat, prov : BOOLEAN, phase : {"moving", "active"}, firm : BOOLEAN]
Requests ==
  [req : Nat, provider : {Plan[n] : n \in Npcs}, expires : Nat,
   fingerprint : Hard \X SUBSET Npcs, continues : (Nat \X BOOLEAN) \cup {None},
   seen : SUBSET ({f.rid : f \in Forms} \cup {"res", "res-fb"})]
\* None is neither a request nor the number of one, nor an action.
ASSUME NoneAssumption == None \notin Requests /\ None \notin Nat /\ None \notin Actions

Events ==
  [type : Settlements \cup {"Rejected", "Proposed"}, req : Nat,
   note : {"", "continue", "launch", "decided", "provisional", "external-failure",
           "ttl-expired", "scenario-ended", "superseded-request", "response-expired",
           "unknown-request"}]
Messages ==
  [npc : Npcs, req : Nat, provider : {f.provider : f \in Forms},
   rid : {f.rid : f \in Forms}, choice : {f.choice : f \in Forms},
   scenario : {f.scenario : f \in Forms}]
Failures == [npc : Npcs, req : Nat, provider : {Plan[n] : n \in Npcs}]

\* The type invariant: among the rest, the registry never outgrows its
\* retention, and no queue its bound.
TypeOK ==
  /\ pc \in {"idle", "world", "drain", "expire", "end", "decide", "ask", "fallback", "sealed"}
  /\ turn \in DOMAIN Order
  /\ tick \in 0..EndTick
  /\ counter \in Nat
  /\ pending \in [Npcs -> Requests \cup {None}]
  /\ body \in [Npcs -> [action : Actions \cup {None}, transit : BOOLEAN, incap : BOOLEAN]]
  /\ reeval \subseteq Npcs
  /\ lastDecision \in [Npcs -> 0..EndTick]
  /\ hard \in Hard
  /\ registry \in Seq([req : Nat, how : Settlements]) /\ Len(registry) <= Retention
  /\ ledger \in Seq(Events)
  /\ inbox \in Seq(Messages) /\ failbox \in Seq(Failures)
  /\ Len(inbox) + Len(failbox) <= MaxQueued

SettledAt(i) == ledger[i].type \in Settlements
Settled(req) == \E i \in DOMAIN ledger : SettledAt(i) /\ ledger[i].req = req
Pends(req) == \E n \in Npcs : pending[n] # None /\ pending[n].req = req

\* Every request ever issued is either pending at exactly one NPC or has
\* exactly one settling event (accepted, expired, superseded) in the ledger:
\* none is lost by an overlap and none is settled twice, however late answers,
\* duplicates, failures, the clock and the scenario's end race
\* (engine.ts processDecisionResponse, processDecisionFailure,
\* expireDecisionRequests, endScenario; the reducer's overlap guards).
OneFatePerRequest ==
  /\ \A i, j \in DOMAIN ledger :
       SettledAt(i) /\ SettledAt(j) /\ ledger[i].req = ledger[j].req => i = j
  /\ \A m, n \in Npcs :
       pending[m] # None /\ pending[n] # None /\ pending[m].req = pending[n].req => m = n
  /\ \A req \in 1..counter : Pends(req) <=> ~Settled(req)

Resolution(e) == [req |-> e.req, how |-> e.type]
TheOne(S) == CHOOSE x \in S : TRUE

\* The settlements among the first k events, by position; the n-th of them.
SettledBy(k) == {i \in 1..k : SettledAt(i)}
NthSettlement(k, n) ==
  TheOne({ledger[i] : i \in {j \in SettledBy(k) : Cardinality(SettledBy(j)) = n}})

\* rebuildResolvedRequests over the first k events
Rebuilt(k) == Keep([n \in 1..Cardinality(SettledBy(k)) |-> Resolution(NthSettlement(k, n))])

\* The registry the engine keeps while it runs is the projection of the event
\* stream that a resume would rebuild (engine.ts rebuildResolvedRequests):
\* no settling path forgets to record, and the pruning agrees.
RegistryIsProjection == registry = Rebuilt(Len(ledger))

\* A rejected late response is told the true reason: it says superseded (or
\* expired) exactly when the retained history says so of its request, and a
\* request it calls unknown was neither (engine.ts resolved-request registry).
LateReasonIsTrue ==
  \A i \in DOMAIN ledger :
    ledger[i].type = "Rejected" =>
      LET known == Rebuilt(i - 1)
          how == {known[j].how : j \in {k \in DOMAIN known : known[k].req = ledger[i].req}}
      IN /\ ledger[i].note = "superseded-request" <=> "Superseded" \in how
         /\ ledger[i].note = "unknown-request" => "Expired" \notin how
         /\ "Expired" \in how => ledger[i].note = "response-expired"

\* What a late answer is told is what happened to its request: the registry forgets
\* nothing it retains, and the reasons are read from it (engine.ts resolvedRequests).
RegistryTellsTheTruth == RegistryIsProjection /\ LateReasonIsTrue

\* An NPC with a pending request is never locked into an action a valid late
\* response could not displace: whatever it does, once any travel is over the
\* action is interruptible (engine.ts provisionalFallback: "a valid late
\* response must be able to displace it").
PendingNeverLockedOut ==
  \A n \in Npcs : pending[n] # None /\ body[n].action # None => ~body[n].action.firm

\* An incapacitated NPC never acts, although it may be incapacitated between a
\* request and its answer and nothing cancels the request then
\* (engine.ts injuryWorseningMonitor; dependencyFingerprint.ts).
IncapacitatedNeverActs == \A n \in Incapacitated : body[n].action = None

\* From the expiry step on no request is older than its time to live, whatever its NPC
\* was doing when it ran out (engine.ts expireDecisionRequests).
NoOverdueRequest ==
  pc \in {"idle", "decide", "end"} =>
    \A n \in Npcs : pending[n] # None => tick <= pending[n].expires

\* No capable NPC is forgotten: between ticks one that acts interruptibly has
\* decided within the re-evaluation interval, and one that does not act was
\* asked in this tick or is flagged for the next (engine.ts decisionPhase).
CadenceHeld ==
  pc = "idle" /\ tick > 0 =>
    \A n \in Npcs \ Incapacitated :
      ~body[n].transit =>
        /\ Preemptible(body[n].action) => tick - lastDecision[n] < Cadence
        /\ body[n].action = None => lastDecision[n] = tick \/ n \in reeval

\* Nobody waits in vain: not on a request that can no longer displace the NPC's action,
\* not on one past its time, and not for a question nobody asks (engine.ts
\* provisionalFallback, expireDecisionRequests, decisionPhase).
NobodyIsForgotten == PendingNeverLockedOut /\ NoOverdueRequest /\ CadenceHeld

ProposedAt(i, note) == ledger[i].type = "Proposed" /\ ledger[i].note = note

\* A request launches at most one decided action, only after its acceptance,
\* and at most one provisional one, only before it: a duplicate or late
\* response never acts twice (engine.ts processDecisionResponse,
\* provisionalFallback).
OneLaunchPerRequest ==
  /\ \A i, j \in DOMAIN ledger, note \in {"decided", "provisional"} :
       ProposedAt(i, note) /\ ProposedAt(j, note) /\ ledger[i].req = ledger[j].req => i = j
  /\ \A i, j \in DOMAIN ledger :
       ledger[j] = Event("Accepted", ledger[i].req, "launch") =>
         /\ ProposedAt(i, "decided") => j < i
         /\ ProposedAt(i, "provisional") => i < j
  /\ \A i \in DOMAIN ledger :
       ProposedAt(i, "decided") =>
         \E j \in DOMAIN ledger : ledger[j] = Event("Accepted", ledger[i].req, "launch")

\* Every request is settled in the end, whether or not an answer ever comes
\* (engine.ts: time to live, supersession, failures, scenario end).
EveryRequestSettles ==
  \A req \in 1..(EndTick * Len(Order)) : [](Pends(req) => <>~Pends(req))

-----------------------------------------------------------------------------
(* What the lifecycle promises: the abstract book of requests.             *)

FateOf(req) ==
  LET settled == {i \in DOMAIN ledger : SettledAt(i) /\ ledger[i].req = req}
  IN IF settled = {} THEN "Open"
     ELSE IF Cardinality(settled) = 1 THEN ledger[CHOOSE i \in settled : TRUE].type
     ELSE "Contradictory"

Book == INSTANCE RequestBook WITH
  None <- None,
  open <- [n \in Npcs |-> IF pending[n] = None THEN None ELSE pending[n].req],
  fate <- [req \in 1..counter |-> FateOf(req)]

\* The engine implements the book (RequestBook.tla): every step opens a
\* request, possibly overtaking the NPC's previous one, or settles one, and
\* nothing ever reopens or changes a settled one.
ImplementsRequestBook == Book!Spec

=============================================================================
