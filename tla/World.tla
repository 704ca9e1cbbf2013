--------------------------------- MODULE World ---------------------------------
(***************************************************************************)
(* The world of the simulation: one workbench, one meal, one injury, one   *)
(* promise, and the actions the NPCs take over them.  Events are pure      *)
(* functions of the state in the code (src/src/sim/events/reduce.ts); here *)
(* an event, and a handler that emits several, is an operator from world   *)
(* to world, and the handlers compose as in the engine.                    *)
(*                                                                         *)
(* A tick is steps 1-8 of stepTick, which leave nothing to chance, then    *)
(* the late answers, then the decisions, one NPC after the other.  Which   *)
(* of the offered affordances an NPC takes is open; who is asked, by which *)
(* provider, and which answers are admitted is module DecisionLifecycle.   *)
(***************************************************************************)
EXTENDS Integers, Sequences, FiniteSets

CONSTANTS
  Order,       \* NPC_IDS
  Deferring,   \* the NPCs whose decisions may be answered ticks later
  Scripts,     \* the scenarios: tick of the injury and of the meal's removal, and who
               \* has which role
  Habits,      \* for each run, the modes an NPC chooses from (bounds TLC's search)
  Treating,    \* TREATMENT_BY_HEALER: durations, for the NPCs who can treat
  Rate,        \* REPAIR_RATE_PER_TICK
  Total,       \* REPAIR_TOTAL_UNITS, counted from REPAIR_INITIAL_UNITS
  Travel, Eating, Social, Waiting, Block,  \* durations
  WorsenDelay, Cooldown, Ttl,
  Start, Grace, MinRun,                    \* the promise's terms
  Buffer, GraceSpan, Minute,               \* how a renegotiation is proposed
  EndTick, None

Npcs == {Order[i] : i \in DOMAIN Order}

BenchModes == {"work", "relieve"}
EatModes == {"eat", "eat-violation"}
OwnerModes == {"transfer", "refuse-request", "release"}
AnswerModes == {"accept-renegotiation", "reject-renegotiation"}
Interruptible == BenchModes \cup {"stay-at-cot", "rest", "routine-work", "wait"}
Modes == Interruptible \cup EatModes \cup OwnerModes \cup AnswerModes \cup
  {"treat", "request-transfer", "ask-help", "request-break", "propose-renegotiation",
   "deliver-materials"}
Places == {"bench", "cot", "shelf", "duty"}

ASSUME RolesAssumption ==
  /\ Order \in Seq(Npcs) /\ Len(Order) = 3 /\ \A i, j \in DOMAIN Order : Order[i] = Order[j] => i = j
  /\ Deferring \subseteq Npcs
  /\ DOMAIN Treating \subseteq Npcs
  /\ \A h \in DOMAIN Treating : Treating[h] \in Nat \ {0}
  /\ Rate \in [Npcs -> Nat \ {0}]
  /\ \A habit \in Habits : habit \in [Npcs -> SUBSET Modes] /\ \A n \in Npcs : "wait" \in habit[n]
ASSUME TimesAssumption ==
  /\ \A d \in {Total, Travel, Eating, Social, Waiting, Block, Minute, MinRun, EndTick} : d \in Nat \ {0}
  /\ \A d \in {WorsenDelay, Cooldown, Ttl, Start, Grace, Buffer, GraceSpan} : d \in Nat
  /\ \A s \in Scripts :
       /\ {s.injury, s.removal} \subseteq (1..EndTick) \cup {None}
       /\ {s.creditor, s.debtor, s.owner} = Npcs

VARIABLES
  w,         \* CanonicalState
  step,      \* where in stepTick: "idle", "drain", "decide", "ended"
  turn,      \* the decision phase's position in Order
  answered,  \* the NPCs whose late answer this tick's drain accepted
  script,    \* the scenario
  habit      \* the modes each NPC chooses from in this run

\* RoleAssignment: the bench worker is owed relief by the debtor; the meal
\* owner is also the one the scripted injury hits.
Creditor == script.creditor
Debtor == script.debtor
Owner == script.owner

vars == <<w, step, turn, answered, script, habit>>

-----------------------------------------------------------------------------
(* What the state says                                                     *)

Down(s, n) == s.npc[n].sev = "grave"
Injured(s, n) == s.npc[n].sev \in {"serious", "grave"}
Untreated(s, n) == Injured(s, n) /\ s.npc[n].since = None
Capable(s, n) == ~Injured(s, n)

Holder(s) == IF s.bench = None THEN None ELSE s.bench.holder

Active(s, n) == s.npc[n].act # None /\ s.npc[n].act.phase = "active"
AtBench(s, n) == Active(s, n) /\ s.npc[n].act.mode \in BenchModes

Throw(s, guard) == [s EXCEPT !.thrown = @ \cup {guard}]

Idle(s, n) == [s EXCEPT !.npc[n].act = None]

\* the loops over the three NPC_IDS, each iteration on the state the last one left
ForEachNpc(Handle(_, _), s) == Handle(Handle(Handle(s, Order[1]), Order[2]), Order[3])

-----------------------------------------------------------------------------
(* Affordances                                                             *)

When(condition, offers) == IF condition THEN offers ELSE {}

Offer(mode, long) ==
  [mode |-> mode, target |-> None, place |-> None, long |-> long, ask |-> None, terms |-> None,
   interruptible |-> mode \in Interruptible]

BenchOffers(s, n) ==
  LET at == [Offer("work", EndTick) EXCEPT !.place = "bench"] IN
  When(Capable(s, n) /\ s.progress < Total,
       When(Holder(s) = None, {at}) \cup
       When(Holder(s) \notin {None, n}, {[at EXCEPT !.mode = "relieve", !.target = Holder(s)]}))

TreatOffers(s, n) ==
  {[Offer("treat", Treating[n]) EXCEPT
      !.target = p, !.place = IF Down(s, p) THEN s.npc[p].loc ELSE "cot"] :
     p \in {q \in Npcs \ {n} : n \in DOMAIN Treating /\ Untreated(s, q)}}

\* transfer or refuse, for each pending request
HandoverOffers(s, n) ==
  {[Offer(m, Social) EXCEPT !.target = r.from, !.ask = r] :
     m \in {"transfer", "refuse-request"}, r \in s.requests}

MealOffers(s, n) ==
  LET owner == s.meal.owner
      others == owner \notin {None, n}
  IN
  When(s.meal.exists,
       {[Offer(IF others THEN "eat-violation" ELSE "eat", Eating) EXCEPT !.place = "shelf"]} \cup
       When(others /\ s.tick >= s.npc[n].cooled /\ \A r \in s.requests : r.from # n,
            {Offer("request-transfer", Social)}) \cup
       When(owner = n, {Offer("release", Social)} \cup HandoverOffers(s, n)))

\* proposeTerms, for a request made at tick `asked`
ProposedTerms(n, asked) ==
  LET earliest == asked + Social + Travel + Treating[n] + Travel + Buffer
      start == ((earliest + Minute - 1) \div Minute) * Minute
  IN [start |-> start, grace |-> start + GraceSpan]

Conflicted(s, n) == n \in DOMAIN Treating /\ \E p \in Npcs \ {n} : Untreated(s, p)

PromiseOffers(s, n, asked) ==
  LET c == s.promise IN
  When(c.status = "active",
       When(n = Debtor /\ c.proposal = None /\ asked < c.terms.grace /\ Conflicted(s, n),
            {[Offer("propose-renegotiation", Social) EXCEPT !.terms = ProposedTerms(n, asked)]}) \cup
       When(n = Creditor /\ c.proposal # None,
            {[Offer(m, Social) EXCEPT !.ask = c.proposal] : m \in AnswerModes}))

Doing(s, n, mode) == s.npc[n].act # None /\ s.npc[n].act.mode = mode

\* Recency of help and relief requests is not kept: asking again is offered.
OtherOffers(s, n) ==
  {Offer("wait", Waiting), Offer("rest", Block)} \cup
  When(~Doing(s, n, "routine-work"),
       {[Offer("routine-work", Block) EXCEPT !.place = "duty"]}) \cup
  When(Untreated(s, n) /\ ~Doing(s, n, "stay-at-cot"),
       {[Offer("stay-at-cot", Block) EXCEPT !.place = "cot"]}) \cup
  When(Untreated(s, n) /\ DOMAIN Treating \ {n} # {}, {Offer("ask-help", Social)}) \cup
  When(AtBench(s, n), {Offer("request-break", Social)})

Offers(s, n, asked) ==
  When(~Down(s, n),
       BenchOffers(s, n) \cup TreatOffers(s, n) \cup MealOffers(s, n) \cup
       PromiseOffers(s, n, asked) \cup OtherOffers(s, n))

-----------------------------------------------------------------------------
(* Validation                                                              *)

\* Mutated form of BenchFits: the handover is not bound to its target.
BenchFitsAnyone(s, n, a) == TRUE

\* A relief is bound to the occupant it was proposed for.
BenchFits(s, n, a) ==
  IF a.mode = "work" THEN Holder(s) \in {None, n} ELSE Holder(s) = a.target

Together(s, n, p) == s.npc[p].loc = s.npc[n].loc /\ s.npc[p].transit = None

\* validateStart; `here` once the NPC should be where the action takes place
Startable(s, n, a, here) ==
  /\ ~Down(s, n)
  /\ s.outcome = "pending"
  /\ here /\ a.place # None => s.npc[n].loc = a.place
  /\ a.mode \in BenchModes =>
       /\ Capable(s, n) /\ s.progress < Total
       /\ a.mode = "work" \/ here => BenchFits(s, n, a)
  /\ a.mode = "treat" =>
       /\ n \in DOMAIN Treating /\ Untreated(s, a.target)
       /\ here => Together(s, n, a.target)
  /\ a.mode \in EatModes \cup OwnerModes \cup {"request-transfer"} => s.meal.exists
  /\ a.mode = "eat" => s.meal.owner \in {None, n}
  /\ a.mode \in {"eat-violation", "request-transfer"} => s.meal.owner \notin {None, n}
  /\ a.mode \in OwnerModes => s.meal.owner = n /\ a.ask \in s.requests \cup {None}
  /\ a.mode = "propose-renegotiation" =>
       s.promise.status = "active" /\ s.promise.proposal = None /\ s.tick < s.promise.terms.grace
  /\ a.mode \in AnswerModes => s.promise.status = "active" /\ s.promise.proposal = a.ask
  /\ a.mode = "stay-at-cot" => s.npc[n].sev # "none"

\* Mutated form of PatientStays: the patient may leave during the treatment.
PatientLeaves(s, n, a) == TRUE
PatientStays(s, n, a) == Together(s, n, a.target)

\* validateSustained
Sustained(s, n, a) ==
  /\ ~Down(s, n)
  /\ a.mode \in BenchModes => Capable(s, n) /\ Holder(s) = n
  /\ a.mode \in EatModes => s.meal.exists
  /\ a.mode = "treat" => PatientStays(s, n, a)

\* validateCompletion: an outcome the world has overtaken is moot.
Completable(s, n, a) ==
  /\ a.mode \in EatModes => s.meal.exists
  /\ a.mode = "treat" => Sustained(s, n, a)
  /\ a.mode \in OwnerModes \cup AnswerModes \cup {"request-transfer", "propose-renegotiation"} =>
       Startable(s, n, a, FALSE)

-----------------------------------------------------------------------------
(* The promise                                                             *)

Kept(s) ==
  LET c == s.promise IN
  /\ c.run # None
  /\ s.tick - c.run >= MinRun /\ c.run <= c.terms.grace /\ s.tick >= c.terms.start

Fulfil(s) ==
  IF s.promise.status = "broken" THEN Throw(s, "commitment-fulfilled-after-broken")
  ELSE [s EXCEPT !.promise.status = "fulfilled"]

Break(s) ==
  IF s.promise.status # "active" THEN Throw(s, "commitment-broken-after-settled")
  ELSE [s EXCEPT !.promise.status = "broken", !.promise.proposal = None]

\* maybeFulfillBeforeRunEnd
FulfilBeforeRunEnd(s, n) ==
  IF s.promise.status = "active" /\ n = Debtor /\ Kept(s) THEN Fulfil(s) ELSE s

CommitmentMonitor(s) ==
  LET c == s.promise IN
  IF c.status # "active" THEN s
  ELSE IF Kept(s) THEN Fulfil(s)
  ELSE IF s.tick > c.terms.grace /\ ~(c.run # None /\ c.run <= c.terms.grace) THEN Break(s)
  ELSE s

-----------------------------------------------------------------------------
(* The end of an action                                                    *)

\* Mutated form of ClearBenchWork: the marker of the run survives its end.
KeepRunMarker(s, n) == [s EXCEPT !.worker = IF @ = n THEN None ELSE @]

\* clearBenchWorkEffects
ClearBenchWork(s, n) ==
  IF s.npc[n].act.mode \notin BenchModes THEN s
  ELSE [s EXCEPT !.worker = IF @ = n THEN None ELSE @,
                 !.promise.run = IF n = Debtor THEN None ELSE @]

ReleaseBench(s, n) == IF Holder(s) = n THEN [s EXCEPT !.bench = None] ELSE s

\* Mutated form of AbortTreatment: the patient stays marked as being treated.
LeaveMarker(s, a) == s

\* An aborted treatment gives its marker back, so the injury counts again.
AbortTreatment(s, a) ==
  IF a.mode = "treat" /\ Injured(s, a.target)
  THEN [s EXCEPT !.npc[a.target].since = None, !.npc[a.target].by = None]
  ELSE s

\* interruptAction: the promise first, as the end of the run clears its marker
Interrupt(s, n) ==
  LET a == s.npc[n].act
      session == AtBench(s, n)
      before == IF session THEN FulfilBeforeRunEnd(s, n) ELSE s
      ended == Idle(ClearBenchWork(AbortTreatment(before, a), n), n)
  IN IF a = None THEN s ELSE IF session THEN ReleaseBench(ended, n) ELSE ended

CompleteBenchSession(s, n) ==
  ReleaseBench(Idle(ClearBenchWork(FulfilBeforeRunEnd(s, n), n), n), n)

ConsumeMeal(s) ==
  IF ~s.meal.exists THEN Throw(s, "meal-double-consumption")
  ELSE [s EXCEPT !.meal = [exists |-> FALSE, owner |-> None], !.requests = {}]

\* The outcome completeAction records before it finishes the action.
Outcome(s, n, a) ==
  CASE a.mode \in EatModes ->
         [ConsumeMeal(s) EXCEPT !.eaters = @ \cup {[by |-> n, owner |-> s.meal.owner]}]
    [] a.mode = "treat" -> [s EXCEPT !.npc[a.target].sev = "eased"]
    [] a.mode = "request-transfer" ->
         IF s.meal.owner \in {None, n} THEN s
         ELSE [s EXCEPT !.requests = @ \cup {[from |-> n, at |-> s.tick]}]
    [] a.mode = "transfer" ->
         IF s.meal.owner # n THEN Throw(s, "transfer-without-reservation")
         ELSE [s EXCEPT !.meal.owner = a.target, !.requests = {}]
    [] a.mode = "refuse-request" ->
         [s EXCEPT !.requests = @ \ {a.ask}, !.npc[a.target].cooled = s.tick + Cooldown]
    [] a.mode = "release" -> [s EXCEPT !.meal.owner = None]
    [] a.mode = "propose-renegotiation" ->
         [s EXCEPT !.promise.proposal = [at |-> s.tick, terms |-> a.terms]]
    [] a.mode = "accept-renegotiation" ->
         IF s.promise.status # "active" THEN Throw(s, "renegotiation-on-settled-commitment")
         ELSE [s EXCEPT !.promise.terms = s.promise.proposal.terms, !.promise.proposal = None]
    [] a.mode = "reject-renegotiation" -> [s EXCEPT !.promise.proposal = None]
    [] OTHER -> s

-----------------------------------------------------------------------------
(* The beginning of an action                                              *)

Reserve(s, n) ==
  IF s.bench # None THEN Throw(s, "duplicate-exclusive-reservation")
  ELSE [s EXCEPT !.bench = [holder |-> n, since |-> s.tick]]

\* The handover of an occupied bench ends the occupant's session.
Relieve(s, n) ==
  LET occupant == Holder(s) IN
  IF occupant \in {None, n} THEN s
  ELSE IF s.npc[occupant].act # None THEN Interrupt(s, occupant)
  ELSE [s EXCEPT !.bench = None]

\* The effects of beginActivePhase that come before ActionStarted.
Entry(s, n, a) ==
  CASE a.mode = "work" -> Reserve(s, n)
    [] a.mode = "relieve" -> Reserve(Relieve(s, n), n)
    [] a.mode = "eat-violation" ->
         IF s.meal.owner \in {None, n} THEN s ELSE [s EXCEPT !.violators = @ \cup {n}]
    [] a.mode = "treat" -> [s EXCEPT !.npc[a.target].since = s.tick, !.npc[a.target].by = n]
    [] OTHER -> s

Phase(a, phase, ends) ==
  [mode |-> a.mode, target |-> a.target, place |-> a.place, long |-> a.long, ask |-> a.ask,
   terms |-> a.terms, interruptible |-> a.interruptible, phase |-> phase, ends |-> ends]

\* ActionStarted: a bench session of the debtor starts a run for the promise.
Started(s, n, a) ==
  LET session == a.mode \in BenchModes
      ends == IF session THEN EndTick ELSE s.tick + a.long
      running == session /\ n = Debtor /\ s.promise.status = "active"
  IN [s EXCEPT !.npc[n].act = Phase(a, "active", ends),
               !.worker = IF session THEN n ELSE @,
               !.promise.run = IF running THEN s.tick ELSE @]

BeginActivePhase(s, n, a) == Started(Entry(s, n, a), n, a)

Depart(s, n, a) ==
  [s EXCEPT !.npc[n].transit = [to |-> a.place, arrives |-> s.tick + Travel],
            !.npc[n].act = Phase(a, "moving", s.tick + Travel)]

\* proposeAndLaunch after the acceptance preempted the current action; a
\* rejected start leaves the NPC idle.
Launch(s, n, a) ==
  LET free == Interrupt(s, n) IN
  IF ~Startable(free, n, a, FALSE) THEN free
  ELSE IF a.place \notin {None, s.npc[n].loc} THEN Depart(free, n, a)
  ELSE IF Startable(free, n, a, TRUE) THEN BeginActivePhase(free, n, a) ELSE free

-----------------------------------------------------------------------------
(* Steps 1-8 of a tick                                                     *)

AdvanceTime(s) == [s EXCEPT !.tick = @ + 1]

ApplyScriptedEvents(s) ==
  LET hurt == IF script.injury # s.tick THEN s
              ELSE [s EXCEPT !.npc[Owner].sev = "serious", !.npc[Owner].since = None,
                             !.npc[Owner].by = None, !.npc[Owner].hurt = s.tick]
  IN IF script.removal = s.tick /\ s.meal.exists
     THEN [hurt EXCEPT !.meal = [exists |-> FALSE, owner |-> None], !.requests = {}]
     ELSE hurt

\* injuryWorseningMonitor: at or after the deadline, whenever untreated
Worsen(s, n) ==
  LET m == s.npc[n] IN
  IF m.sev \in {"eased", "serious"} /\ m.since = None /\ s.tick >= m.hurt + WorsenDelay
  THEN Interrupt([s EXCEPT !.npc[n].sev = "grave"], n)
  ELSE s

\* processArrivals: the NPC arrives even if the action is gone.
Arrive(s, n) ==
  LET m == s.npc[n]
      there == [s EXCEPT !.npc[n].loc = m.transit.to, !.npc[n].transit = None]
  IN IF m.transit = None \/ m.transit.arrives # s.tick THEN s
     ELSE IF m.act = None \/ m.act.phase # "moving" THEN there
     ELSE IF Startable(there, n, m.act, TRUE) THEN BeginActivePhase(there, n, m.act)
     ELSE Idle(there, n)

Sustain(s, n) ==
  IF Active(s, n) /\ ~Sustained(s, n, s.npc[n].act) THEN Interrupt(s, n) ELSE s

RepairDelta(s, n) == IF Rate[n] <= Total - s.progress THEN Rate[n] ELSE Total - s.progress

ProgressRepair(s) ==
  LET n == s.worker
      done == [s EXCEPT !.progress = @ + RepairDelta(s, n)]
  IN IF n = None \/ s.progress >= Total THEN s
     ELSE IF ~AtBench(s, n) THEN s
     ELSE IF done.progress >= Total THEN CompleteBenchSession(done, n) ELSE done

Complete(s, n) ==
  LET a == s.npc[n].act IN
  IF ~Active(s, n) \/ a.ends # s.tick THEN s
  ELSE IF a.mode \in BenchModes THEN CompleteBenchSession(s, n)
  ELSE IF Completable(s, n, a) THEN Idle(Outcome(s, n, a), n)
  ELSE Interrupt(s, n)

\* Sustained checks, repair, completions.
Upkeep(s) == ForEachNpc(Complete, ProgressRepair(ForEachNpc(Sustain, s)))

WorldSteps(s) ==
  CommitmentMonitor(Upkeep(ForEachNpc(Arrive, ForEachNpc(Worsen,
    ApplyScriptedEvents(AdvanceTime(s))))))

\* endScenario: everything still running is interrupted, then the outcome.
EndScenario(s) ==
  LET still == ForEachNpc(Interrupt, s) IN
  [still EXCEPT !.outcome = IF still.progress >= Total THEN "completed" ELSE "deadline-missed"]

-----------------------------------------------------------------------------
(* The specification                                                       *)

Standing(n) ==
  [loc |-> IF n = Debtor THEN "duty" ELSE "bench", transit |-> None, sev |-> "none",
   hurt |-> None, since |-> None, by |-> None, cooled |-> 0,
   act |-> LET mode == IF n = Creditor THEN "work"
                       ELSE IF n = Debtor THEN "routine-work" ELSE "deliver-materials"
               long == IF n = Creditor THEN EndTick ELSE Block
           IN Phase([Offer(mode, long) EXCEPT !.place = IF n = Debtor THEN "duty" ELSE "bench"],
                    "active", long)]

\* emitScenarioStart and the scripted first actions
Init ==
  /\ script \in Scripts /\ habit \in Habits
  /\ w = [tick |-> 0, npc |-> [n \in Npcs |-> Standing(n)],
          meal |-> [exists |-> TRUE, owner |-> Owner],
          bench |-> [holder |-> Creditor, since |-> 0], worker |-> Creditor, progress |-> 0,
          promise |-> [status |-> "active", terms |-> [start |-> Start, grace |-> Grace],
                       proposal |-> None, run |-> None],
          requests |-> {}, outcome |-> "pending", thrown |-> {}, violators |-> {}, eaters |-> {}]
  /\ step = "idle" /\ turn = 1 /\ answered = {}

Tick ==
  /\ step = "idle" /\ w.thrown = {}
  /\ w' = WorldSteps(w)
  /\ step' = "drain"
  /\ UNCHANGED <<turn, answered, script, habit>>

Occupied(n) ==
  \/ w.npc[n].transit # None
  \/ w.npc[n].act # None /\ ~(Active(w, n) /\ w.npc[n].act.interruptible)

\* The acceptance gate revalidates what is chosen before anything changes.
Choices(n, asked) ==
  {a \in Offers(w, n, asked) : a.mode \in habit[n] /\ Startable(w, n, a, FALSE)}

\* Step 9: an answer to a request of an earlier tick, whose hard dependencies
\* have not changed since.
LateAnswer(n) ==
  /\ step = "drain" /\ n \in Deferring \ answered
  /\ ~Occupied(n)
  /\ \E asked \in {t \in 1..(w.tick - 1) : t >= w.tick - Ttl} :
       \E a \in Choices(n, asked) : w' = Launch(w, n, a)
  /\ answered' = answered \cup {n}
  /\ UNCHANGED <<step, turn, script, habit>>

EndDrain ==
  /\ step = "drain"
  /\ IF w.tick >= EndTick THEN w' = EndScenario(w) /\ step' = "ended"
                          ELSE UNCHANGED w /\ step' = "decide"
  /\ answered' = {}
  /\ UNCHANGED <<turn, script, habit>>

NextTurn ==
  IF turn < Len(Order) THEN turn' = turn + 1 /\ UNCHANGED step
                       ELSE turn' = 1 /\ step' = "idle"

\* Step 12: an idle NPC decides, one with an interruptible action may.
Decide ==
  LET n == Order[turn] IN
  /\ step = "decide"
  /\ ~Occupied(n) /\ ~Down(w, n)
  /\ \E a \in Choices(n, w.tick) : w' = Launch(w, n, a)
  /\ NextTurn
  /\ UNCHANGED <<answered, script, habit>>

\* The bridging action is preemptible whatever its mode: the answer to the request it
\* bridges, or the next opportunity to decide, may displace it.
Bridging(a) == [a EXCEPT !.interruptible = TRUE]

\* provisionalFallback: the idle NPC whose provider will answer later acts at once, and
\* past the gate.
Bridge ==
  LET n == Order[turn] IN
  /\ step = "decide" /\ n \in Deferring
  /\ ~Occupied(n) /\ ~Down(w, n) /\ w.npc[n].act = None
  /\ \E a \in Offers(w, n, w.tick) : a.mode \in habit[n] /\ w' = Launch(w, n, Bridging(a))
  /\ NextTurn
  /\ UNCHANGED <<answered, script, habit>>

Continue ==
  LET n == Order[turn] IN
  /\ step = "decide"
  /\ Occupied(n) \/ Down(w, n) \/ w.npc[n].act # None
  /\ NextTurn
  /\ UNCHANGED <<w, answered, script, habit>>

\* A terminal run's stepTick returns at once.
Over == step = "ended" /\ UNCHANGED vars

Next ==
  \/ Tick
  \/ \E n \in Npcs : LateAnswer(n)
  \/ EndDrain
  \/ Decide
  \/ Bridge
  \/ Continue
  \/ Over

Spec == Init /\ [][Next]_vars

-----------------------------------------------------------------------------
(* Properties                                                              *)

Terms == [start : Nat, grace : Nat]
Ticks == 0..EndTick
Requests == [from : Npcs, at : Ticks]
Proposals == [at : Ticks, terms : Terms]
Actions ==
  [mode : Modes, target : Npcs \cup {None}, place : Places \cup {None}, long : Nat,
   ask : Requests \cup Proposals \cup {None}, terms : Terms \cup {None},
   interruptible : BOOLEAN, phase : {"moving", "active"}, ends : Nat]
Transits == [to : Places, arrives : Nat]
Benches == [holder : Npcs, since : Ticks]

ASSUME NoneIsNothing ==
  /\ None \notin Npcs /\ None \notin Nat /\ None \notin Places /\ None \notin Terms
  /\ None \notin Requests /\ None \notin Proposals /\ None \notin Actions
  /\ None \notin Transits /\ None \notin Benches

\* The types of the world's parts.
TypeOK ==
  /\ w.tick \in Ticks /\ w.progress \in 0..Total
  /\ \A n \in Npcs : LET m == w.npc[n] IN
       /\ m.loc \in Places
       /\ m.transit \in Transits \cup {None}
       /\ m.act \in Actions \cup {None}
       /\ m.sev \in {"none", "eased", "serious", "grave"}
       /\ m.hurt \in Ticks \cup {None} /\ m.since \in Ticks \cup {None}
       /\ m.by \in Npcs \cup {None} /\ m.cooled \in Nat
  /\ w.meal \in [exists : BOOLEAN, owner : Npcs \cup {None}]
  /\ w.bench \in Benches \cup {None}
  /\ w.worker \in Npcs \cup {None}
  /\ w.promise.status \in {"active", "fulfilled", "broken"}
  /\ w.promise.terms \in Terms /\ w.promise.run \in Ticks \cup {None}
  /\ w.promise.proposal \in Proposals \cup {None}
  /\ w.requests \subseteq Requests
  /\ w.outcome \in {"pending", "completed", "deadline-missed"}
  /\ step \in {"idle", "drain", "decide", "ended"} /\ turn \in DOMAIN Order
  /\ answered \subseteq Npcs

\* "Transitions that the engine must never produce" throw in the reducer: no
\* sequence of handlers reaches one.
ReducerNeverThrows == w.thrown = {}

\* The bench reservation, purifier.activeWorkerId and the one bench session
\* that is active always name the same NPC, and that NPC is at the bench.
BenchIsWorked ==
  \A n \in Npcs :
    /\ Holder(w) = n <=> AtBench(w, n)
    /\ w.worker = n <=> AtBench(w, n)
    /\ AtBench(w, n) => w.npc[n].loc = "bench" /\ w.npc[n].transit = None

TreatedBy(h, p) == Active(w, h) /\ w.npc[h].act.mode = "treat" /\ w.npc[h].act.target = p

\* An injury is marked as being treated exactly while one healer, the one it
\* names, treats it: an aborted treatment never leaves the injury disarmed.
TreatmentIsMarked ==
  \A p \in Npcs : Injured(w, p) =>
    {h \in Npcs : TreatedBy(h, p)} = IF w.npc[p].since = None THEN {} ELSE {w.npc[p].by}

\* An injury is eased only by a treatment that has lasted its full duration
\* since it was last begun, and by the healer who began it.
CureIsEarned ==
  [][\A p \in Npcs : Injured(w, p) /\ w'.npc[p].sev = "eased" =>
       \E h \in DOMAIN Treating :
         /\ TreatedBy(h, p) /\ w.npc[p].by = h
         /\ w'.tick = w.npc[p].since + Treating[h]
         /\ Together(w', h, p)]_vars

OnTime(s) == Holder(s) = Debtor /\ s.bench.since <= s.promise.terms.grace

\* The promise is fulfilled only by a bench session of the debtor that began
\* in time and lasted, uninterrupted, the promised duration; it is broken only
\* past its grace and never while such a session goes on; neither is undone.
PromiseIsJudgedFairly ==
  [][/\ w.promise.status # "active" => w'.promise.status = w.promise.status
     /\ w.promise.status = "active" /\ w'.promise.status = "fulfilled" =>
          OnTime(w) /\ w'.tick - w.bench.since >= MinRun /\ w'.tick >= w'.promise.terms.start
     /\ w.promise.status = "active" /\ w'.promise.status = "broken" =>
          w'.tick > w'.promise.terms.grace /\ ~OnTime(w')]_vars

Does(n, mode) == Active(w, n) /\ w.npc[n].act.mode = mode

\* What belongs to two is changed by both: the terms become the ones the
\* debtor proposed and the creditor accepts, the meal's reservation passes
\* only from its owner, who gives it, to one whose request is pending.
ChangesByConsent ==
  [][/\ w'.promise.terms # w.promise.terms =>
          /\ Does(Creditor, "accept-renegotiation")
          /\ w.promise.proposal = w.npc[Creditor].act.ask
          /\ w'.promise.terms = w.promise.proposal.terms
     /\ w'.meal.owner \notin {w.meal.owner, None} =>
          /\ Does(w.meal.owner, "transfer")
          /\ \E r \in w.requests : r.from = w'.meal.owner]_vars

\* The meal is eaten once, and whoever ate it while it was reserved for
\* another NPC has an ownership violation on record.
TakingIsRecorded ==
  /\ Cardinality(w.eaters) <= 1 /\ (w.eaters # {} => ~w.meal.exists)
  /\ \A e \in w.eaters : e.owner \notin {None, e.by} => e.by \in w.violators

\* What belongs to two is given by both and what takes time takes all of it (engine.ts
\* completeAction, validation.ts).
ChangesAreEarned == CureIsEarned /\ ChangesByConsent

\* Arrivals and completions are due on one tick only: nothing outlives it, or
\* the NPC would be stuck in it; and nothing outlives the scenario.
NothingIsOverdue ==
  /\ w.tick < EndTick => \A n \in Npcs : LET m == w.npc[n] IN
       /\ m.transit # None => m.transit.arrives > w.tick
       /\ m.act # None => m.act.ends > w.tick
       /\ m.act # None /\ m.act.phase = "moving" => m.transit # None
  /\ step = "ended" =>
       /\ \A n \in Npcs : w.npc[n].act = None
       /\ w.bench = None /\ w.worker = None /\ w.promise.run = None

\* The world's several records of one fact stay in their ranges and agree, whoever was
\* interrupted, replaced or eaten past: who works the bench, who treats whom, who ate what
\* was whose, and what is under way (reduce.ts; engine.ts interruptAction, completeAction).
BooksAgree ==
  TypeOK /\ BenchIsWorked /\ TreatmentIsMarked /\ TakingIsRecorded /\ NothingIsOverdue
===============================================================================
