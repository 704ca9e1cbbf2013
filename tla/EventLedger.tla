------------------------------ MODULE EventLedger ------------------------------
(***************************************************************************)
(* The authoritative event ledger of a run, as a value: how the engine     *)
(* appends to it (src/src/sim/events/ledger.ts), the reducer that folds it *)
(* (src/src/sim/events/reduce.ts) and a small writer that emits the events *)
(* the engine does (src/src/sim/runtime/engine.ts), one NPC deciding.      *)
(*                                                                         *)
(* A run is a record; every operator maps a run to the run after it.  What *)
(* the decisions are about is left out: an affordance is its mode, and the *)
(* only commitment is the scripted one, broken when the scenario ends.     *)
(***************************************************************************)
EXTENDS Integers, Sequences, SequencesExt, FiniteSets

CONSTANTS
  Npc,       \* the NPC that decides
  Peer,      \* the NPC it owes the commitment to
  EndTick,   \* the scenario's last tick
  Ttl,       \* DECISION_REQUEST_TTL_TICKS
  Travel,    \* TRAVEL_TICKS
  Shock,     \* the tick at which a scripted event flags the NPC
  None

ASSUME NpcAssumption == Npc # Peer /\ None \notin {Npc, Peer}
ASSUME TickAssumption == /\ EndTick \in Nat \ {0} /\ Ttl \in Nat \ {0}
                         /\ Travel \in Nat \ {0} /\ Shock \in 1..EndTick

\* What the run's provider does when it is asked: the registered conditions.
Conducts == {"answers", "fails", "defers"}
FallbackId == "fallback"
Modes == {"work", "walk"}
CategoryOf == [work |-> "repair", walk |-> "rest"]

Markers == {"SimulationPaused", "SimulationResumed"}
Settlements == {"DecisionResponseAccepted", "DecisionRequestExpired",
                "DecisionRequestSuperseded"}

\* No record yet: an open request, a run, its hashes.  Unlike None it differs
\* from every record by its shape.
Absent == <<>>

\* The fields of a payload; an event uses those of its type.
Blank == [npc |-> None, peer |-> None, req |-> None, provider |-> None, rid |-> None,
          choice |-> None, fallback |-> FALSE, reason |-> None, act |-> None,
          desc |-> None, offers |-> {}, tick |-> None, hash |-> None]

-----------------------------------------------------------------------------
(* The ledger                                                              *)

\* What is left of a ledger without its markers.
Canonical(log) ==
  LET upTo[i \in 0..Len(log)] ==
        IF i = 0 THEN <<>>
        ELSE IF log[i].type \in Markers THEN upTo[i - 1] ELSE Append(upTo[i - 1], log[i])
  IN upTo[Len(log)]

Canonicals(log) == Cardinality({i \in DOMAIN log : log[i].type \notin Markers})

\* Mutated form of NextId: one counter for all the events.
NextIdShared(log, type) == <<"evt", Len(log)>>
\* Markers count apart, so that pausing never renames a canonical event.
NextId(log, type) ==
  IF type \in Markers THEN <<"evt-op", Len(log) - Canonicals(log)>>
                      ELSE <<"evt", Canonicals(log)>>

Stamped(log, draft) ==
  [seq |-> Len(log), id |-> NextId(log, draft.type), type |-> draft.type,
   tick |-> draft.tick, actor |-> draft.actor, target |-> draft.target,
   cause |-> draft.cause, corr |-> draft.load.act, load |-> draft.load]

\* canonicalLedgerHash: the hash stands for what it is taken of.
Projection(log) ==
  LET canonical == Canonical(log)
  IN [i \in DOMAIN canonical |-> [canonical[i] EXCEPT !.seq = 0]]

-----------------------------------------------------------------------------
(* The reducer                                                             *)

InitialState ==
  [tick |-> 0, version |-> 0, plan |-> None, open |-> Absent, action |-> None,
   flagged |-> FALSE, transit |-> None, promise |-> "none", outcome |-> "pending",
   terminal |-> FALSE, aborted |-> FALSE]

Throws(s, e) ==
  \/ e.type = "DecisionRequested" /\ s.open # Absent
  \/ e.type \in Settlements /\ (s.open = Absent \/ s.open.req # e.load.req)
  \/ e.type = "CommitmentBroken" /\ s.promise # "active"
  \/ e.type \in {"TaskCompleted", "TaskDeadlineMissed"} /\ s.outcome # "pending"

Ends(s, p) == s.action # None /\ s.action.act = p.act

Effect(s, e) ==
  LET p == e.load
  IN CASE e.type = "ScenarioStarted" -> [s EXCEPT !.plan = p.provider]
       [] e.type = "TimeAdvanced" -> [s EXCEPT !.tick = p.tick]
       [] e.type = "DecisionRequested" ->
            [s EXCEPT !.flagged = FALSE,
                      !.open = [req |-> p.req, provider |-> p.provider, offers |-> p.offers,
                                expires |-> e.tick + Ttl, seen |-> {}]]
       [] e.type = "DecisionResponseReceived" ->
            IF s.open # Absent /\ s.open.req = p.req
            THEN [s EXCEPT !.open.seen = @ \cup {p.rid}] ELSE s
       [] e.type = "DecisionRequestExpired" ->
            [s EXCEPT !.open = Absent, !.flagged = @ \/ p.reason = "ttl-expired"]
       [] e.type \in Settlements \ {"DecisionRequestExpired"} -> [s EXCEPT !.open = Absent]
       [] e.type = "MovementStarted" ->
            [s EXCEPT !.transit = p.tick,
                      !.action = [act |-> p.act, desc |-> p.desc, moving |-> TRUE]]
       [] e.type = "MovementCompleted" -> [s EXCEPT !.transit = None]
       [] e.type = "ActionStarted" ->
            [s EXCEPT !.action = [act |-> p.act, desc |-> p.desc, moving |-> FALSE]]
       [] e.type = "ActionCompleted" -> [s EXCEPT !.action = None]
       [] e.type = "ActionInterrupted" ->
            [s EXCEPT !.action = IF Ends(s, p) THEN None ELSE @, !.flagged = TRUE]
       [] e.type = "PerceptionRecorded" -> [s EXCEPT !.flagged = TRUE]
       [] e.type = "CommitmentCreated" -> [s EXCEPT !.promise = "active"]
       [] e.type = "CommitmentBroken" -> [s EXCEPT !.promise = "broken"]
       [] e.type = "TaskDeadlineMissed" -> [s EXCEPT !.outcome = "deadline-missed"]
       [] e.type = "ScenarioEnded" -> [s EXCEPT !.terminal = TRUE]
       [] OTHER -> s

\* The markers leave the state version alone.
Counts(e) == e.type \notin Markers

applyEvent(s, e) ==
  IF s.aborted THEN s
  ELSE IF Throws(s, e) THEN [s EXCEPT !.aborted = TRUE]
  ELSE [Effect(s, e) EXCEPT !.version = IF Counts(e) THEN @ + 1 ELSE @]

\* worldStateHash leaves out the version and every minted id.
Faceless(desc) == IF desc = None THEN None ELSE [desc EXCEPT !.version = 0]
WorldHash(s) ==
  [s EXCEPT !.version = 0,
            !.open = IF @ = Absent THEN Absent
                     ELSE [expires |-> @.expires, offers |-> {Faceless(o) : o \in @.offers}],
            !.action = IF @ = None THEN None
                       ELSE [desc |-> Faceless(@.desc), moving |-> @.moving]]

\* replayLedger
replayLedger(log) == FoldLeft(applyEvent, InitialState, log)

-----------------------------------------------------------------------------
(* What the engine emits                                                   *)

Applied(run, event) == [run EXCEPT !.log = Append(@, event), !.state = applyEvent(@, event)]

emit(run, type, cause, load) ==
  Applied(run, Stamped(run.log,
    [type |-> type, cause |-> cause, load |-> load,
     tick |-> IF type = "TimeAdvanced" THEN load.tick ELSE run.state.tick,
     actor |-> load.npc, target |-> load.peer]))

LastId(run) == Last(run.log).id

\* What can be offered now: every descriptor carries the version it was made at.
Offers(s) == {[mode |-> m, category |-> CategoryOf[m], firm |-> m = "work",
               version |-> s.version] : m \in Modes}
OfferOf(open, mode) == CHOOSE o \in open.offers : o.mode = mode

\* createRun: emitScenarioStart, without the reservations.
createRun(conduct) ==
  LET fresh == [conduct |-> conduct, log |-> <<>>, state |-> InitialState, inbox |-> <<>>,
                outbox |-> <<>>, reqs |-> 0, acts |-> 1, fed |-> <<>>, hashes |-> Absent]
      scripted == [mode |-> "work", category |-> CategoryOf["work"], firm |-> FALSE,
                   version |-> 2]
      started == emit(fresh, "ScenarioStarted", None, [Blank EXCEPT !.provider = conduct])
      owing == emit(started, "CommitmentCreated", None,
                    [Blank EXCEPT !.npc = Npc, !.peer = Peer])
  IN emit(owing, "ActionStarted", None,
          [Blank EXCEPT !.npc = Npc, !.act = 1, !.desc = scripted, !.choice = "scripted"])

\* interruptAction
interruptAction(run, cause) ==
  IF run.state.action = None THEN run
  ELSE emit(run, "ActionInterrupted", cause,
            [Blank EXCEPT !.npc = Npc, !.act = run.state.action.act,
                          !.desc = run.state.action.desc])

\* proposeAndLaunch: the action sets out, or begins at once.
Proposed(run, load, cause) ==
  emit([run EXCEPT !.acts = load.act], "ActionProposed", cause, load)

Launched(run, load, cause) ==
  IF load.choice = "walk"
  THEN emit(run, "MovementStarted", None, [load EXCEPT !.tick = run.state.tick + Travel])
  ELSE emit(run, "ActionStarted", cause, load)

proposeAndLaunch(run, desc, cause) ==
  LET load == [Blank EXCEPT !.npc = Npc, !.act = run.acts + 1, !.desc = desc,
                            !.choice = desc.mode]
  IN Launched(Proposed(run, load, cause), load, cause)

Idle(s) == s.action = None /\ s.transit = None
Preemptible(s) == s.action # None /\ ~s.action.moving /\ ~s.action.desc.firm

\* The acceptance gate, the checks the ledger shows.
Admissible(s, m, usedFallback) ==
  /\ s.open # Absent /\ s.open.req = m.req
  /\ m.provider = IF usedFallback THEN FallbackId ELSE s.open.provider
  /\ m.rid \notin s.open.seen
  /\ s.tick <= s.open.expires
  /\ m.choice \in {o.mode : o \in s.open.offers}
  /\ Idle(s) \/ Preemptible(s)

\* processDecisionResponse: received, then judged, and what is accepted launched
Response(m) == [Blank EXCEPT !.npc = Npc, !.req = m.req, !.rid = m.rid, !.choice = m.choice]

Received(run, m) ==
  emit(run, "DecisionResponseReceived", None, [Response(m) EXCEPT !.provider = m.provider])

Accepted(received, m, usedFallback) ==
  emit(received, "DecisionResponseAccepted", LastId(received),
       [Response(m) EXCEPT !.fallback = usedFallback])

Rejected(received, m) ==
  emit(received, "DecisionResponseRejected", LastId(received), Response(m))

Selected(accepted, offer) ==
  proposeAndLaunch(interruptAction(accepted, LastId(accepted)), offer, LastId(accepted))

processDecisionResponse(run, m, usedFallback) ==
  IF Admissible(run.state, m, usedFallback)
  THEN Selected(Accepted(Received(run, m), m, usedFallback), OfferOf(run.state.open, m.choice))
  ELSE Rejected(Received(run, m), m)

\* Step 4: the arrival and the start it was waiting for.
Arrived(run) ==
  emit(run, "MovementCompleted", None, [Blank EXCEPT !.npc = Npc, !.act = run.state.action.act])

Begun(run, a) ==
  emit(run, "ActionStarted", LastId(run),
       [Blank EXCEPT !.npc = Npc, !.act = a.act, !.desc = a.desc, !.choice = a.desc.mode])

Arrive(run) ==
  IF run.state.transit # run.state.tick THEN run ELSE Begun(Arrived(run), run.state.action)

\* Steps 2, 4, 7 and 8: the scripted event is perceived, who was on the way arrives, the
\* scripted action is over at the first tick, the commitment is broken at its grace tick.
Perceive(run) ==
  IF run.state.tick # Shock THEN run
  ELSE emit(run, "PerceptionRecorded", None, [Blank EXCEPT !.npc = Npc])

CompleteScripted(run) ==
  IF run.state.tick # 1 THEN run
  ELSE emit(run, "ActionCompleted", None,
            [Blank EXCEPT !.npc = Npc, !.act = run.state.action.act,
                          !.desc = run.state.action.desc])

BreakCommitment(run) ==
  IF run.state.tick # EndTick THEN run
  ELSE emit(run, "CommitmentBroken", None, [Blank EXCEPT !.npc = Npc])

Happen(run) == BreakCommitment(CompleteScripted(Arrive(Perceive(run))))

Expired(run, reason) ==
  emit(run, "DecisionRequestExpired", None,
       [Blank EXCEPT !.npc = Npc, !.req = run.state.open.req, !.reason = reason])

\* A failure that matches the open request settles it; another is dropped.
processDecisionFailure(run, m) ==
  IF run.state.open # Absent /\ run.state.open.req = m.req
  THEN Expired(emit(run, "DecisionProviderFailed", None,
                    [Blank EXCEPT !.npc = Npc, !.req = m.req, !.provider = m.provider]),
               "external-failure")
  ELSE run

\* drainDecisionResponses: the queued responses, then the queued failures.
Cleared(run) == [run EXCEPT !.inbox = <<>>, !.fed = Append(@, run.inbox)]

DrainResponses(run, queue) ==
  LET after[i \in 0..Len(queue)] ==
        IF i = 0 THEN run
        ELSE IF queue[i].choice = None THEN after[i - 1]
        ELSE processDecisionResponse(after[i - 1], queue[i], FALSE)
  IN after[Len(queue)]

DrainFailures(run, queue) ==
  LET after[i \in 0..Len(queue)] ==
        IF i = 0 THEN run
        ELSE IF queue[i].choice # None THEN after[i - 1]
        ELSE processDecisionFailure(after[i - 1], queue[i])
  IN after[Len(queue)]

Drain(run) == DrainFailures(DrainResponses(Cleared(run), run.inbox), run.inbox)

Expire(run) ==
  IF run.state.open # Absent /\ run.state.tick > run.state.open.expires
  THEN Expired(run, "ttl-expired") ELSE run

\* runFallbackThroughGate
Fallback(run, req) ==
  LET m == [req |-> req, provider |-> FallbackId, rid |-> <<req, "fb">>, choice |-> "work"]
      used == emit(run, "FallbackDecisionUsed", None,
                   [Blank EXCEPT !.npc = Npc, !.req = req, !.choice = "work",
                                 !.reason = "fallback"])
  IN processDecisionResponse(used, m, TRUE)

\* provisionalFallback: the bridging action is never firm.
Bridged(run, offer) == proposeAndLaunch(run, [offer EXCEPT !.firm = FALSE], LastId(run))

Bridge(run, req, cause) ==
  Bridged(emit(run, "FallbackDecisionUsed", cause,
               [Blank EXCEPT !.npc = Npc, !.req = req, !.choice = "work",
                             !.reason = "provisional"]),
          OfferOf(run.state.open, "work"))

\* decideForNpc up to the provider's call
Requested(run) ==
  LET req == run.reqs + 1
      offers == Offers(run.state)
      superseded == IF run.state.open = Absent THEN run
                    ELSE emit(run, "DecisionRequestSuperseded", None,
                              [Blank EXCEPT !.npc = Npc, !.req = run.state.open.req])
  IN emit([superseded EXCEPT !.reqs = req], "DecisionRequested", None,
          [Blank EXCEPT !.npc = Npc, !.req = req, !.provider = run.conduct, !.offers = offers])

\* decideForNpc from the provider's call
Decided(run) ==
  LET req == run.reqs
      failed == emit(run, "DecisionProviderFailed", LastId(run),
                     [Blank EXCEPT !.npc = Npc, !.req = req, !.provider = run.conduct])
      forwarded == [run EXCEPT !.outbox = Append(@, req)]
  IN CASE run.conduct = "answers" ->
            processDecisionResponse(run, [req |-> req, provider |-> run.conduct,
                                          rid |-> <<req, "res">>, choice |-> "walk"], FALSE)
       [] run.conduct = "fails" -> Fallback(failed, req)
       [] run.conduct = "defers" ->
            IF Idle(run.state) THEN Bridge(forwarded, req, LastId(run)) ELSE forwarded

ShouldDecide(s) ==
  /\ s.transit = None
  /\ \/ Idle(s)
     \/ Preemptible(s) /\ s.flagged

Decide(run) == IF ShouldDecide(run.state) THEN Decided(Requested(run)) ELSE run

\* endScenario: what is open is closed, the outcome judged, the world hashed
Closed(run) ==
  interruptAction(IF run.state.open = Absent THEN run ELSE Expired(run, "scenario-ended"), None)

Missed(run) == emit(run, "TaskDeadlineMissed", None, Blank)

Hashed(run, hash) == [run EXCEPT !.hashes = [world |-> hash, ledger |-> Projection(run.log)]]

Sealed(run, hash) ==
  Hashed(emit(run, "ScenarioEnded", None,
              [Blank EXCEPT !.hash = hash, !.reason = run.state.outcome]), hash)

Final(run) == WorldHash([run.state EXCEPT !.terminal = TRUE])

\* Mutated form of EndedWith: the world is hashed before the outcome is known.
EndedEarly(run) == Sealed(Missed(run), Final(run))
EndedWith(run) == LET missed == Missed(run) IN Sealed(missed, Final(missed))

endScenario(run) == EndedWith(Closed(run))

\* stepTick
Advanced(run) == emit(run, "TimeAdvanced", None, [Blank EXCEPT !.tick = run.state.tick + 1])

EndOrDecide(run) == IF run.state.tick >= EndTick THEN endScenario(run) ELSE Decide(run)

stepTick(run) ==
  IF run.state.terminal THEN run
  ELSE EndOrDecide(Expire(Drain(Happen(Advanced(run)))))

\* host.stepTicks and engine.runToCompletion, by at most n ticks
stepTicks(run, n) ==
  LET after[i \in 0..n] == IF i = 0 THEN run ELSE stepTick(after[i - 1]) IN after[n]

\* appendMarker: a sealed ledger takes none.
appendMarker(run, type) == IF run.state.terminal THEN run ELSE emit(run, type, None, Blank)

\* The run the same answers give when nobody ever pauses it and every tick is
\* a batch of its own.
Uninterrupted(run) ==
  LET after[i \in 0..Len(run.fed)] ==
        IF i = 0 THEN createRun(run.conduct)
        ELSE stepTick([after[i - 1] EXCEPT !.inbox = run.fed[i]])
  IN after[Len(run.fed)]

=============================================================================
