--------------------------- MODULE LedgerValidation ---------------------------
(***************************************************************************)
(* Exporting a ledger file (src/src/sim/runtime/ledgerFileBuilder.ts) and  *)
(* validating one that is imported (src/src/sim/replay/validateLedger.ts). *)
(* The code walks the events once per pass and keeps sets of what it has   *)
(* seen; here each check is a statement about positions of the log.  A file*)
(* is accepted only when every check of every pass holds, so their order   *)
(* decides no more than which error is reported.                           *)
(***************************************************************************)
EXTENDS EventLedger, FiniteSets

-----------------------------------------------------------------------------
(* Export                                                                  *)

\* buildFinalSummary
Summary(state, log) ==
  [tick |-> state.tick, outcome |-> state.outcome, promise |-> state.promise,
   count |-> Len(log)]

Exportable(run) == run.state.terminal /\ run.hashes # Absent

\* buildLedgerFile
buildLedgerFile(run) ==
  [plan |-> run.conduct, events |-> run.log, summary |-> Summary(run.state, run.log),
   world |-> run.hashes.world, ledger |-> run.hashes.ledger]

-----------------------------------------------------------------------------
(* Positions                                                               *)

At(log, types) == {i \in DOMAIN log : log[i].type \in types}
Before(log, types, i) == {j \in At(log, types) : j < i}
Load(log, i) == log[i].load

\* The event of these types that caused event i: ids are unique by then.
Cause(log, types, i) == {j \in Before(log, types, i) : log[j].id = log[i].cause}

-----------------------------------------------------------------------------
(* Pass 3: every event carries the fields of its type.                     *)

RequestOwned == {"DecisionRequested", "DecisionResponseReceived", "DecisionResponseAccepted",
                 "DecisionResponseRejected", "DecisionRequestExpired",
                 "DecisionRequestSuperseded", "DecisionProviderFailed", "FallbackDecisionUsed"}
ActionOwned == {"ActionProposed", "ActionStarted", "ActionCompleted", "ActionInterrupted",
                "MovementStarted", "MovementCompleted"}
Described == {"ActionProposed", "ActionStarted", "ActionCompleted", "ActionInterrupted"}

validateEventExact(e) ==
  /\ e.type \in RequestOwned \cup ActionOwned => e.load.npc # None
  /\ e.type \in RequestOwned => e.load.req # None
  /\ e.type \in ActionOwned => e.load.act # None
  /\ e.type \in Described => e.load.desc # None
  /\ e.type \in {"DecisionRequested", "DecisionResponseReceived"} => e.load.provider # None

-----------------------------------------------------------------------------
(* Pass 4: order and references.                                           *)

Numbered(log) ==
  \A i \in DOMAIN log :
    /\ log[i].seq = i - 1
    /\ log[i].id = NextId(SubSeq(log, 1, i - 1), log[i].type)

Ordered(log) ==
  \A i \in DOMAIN log \ {1} :
    /\ log[i].tick >= log[i - 1].tick
    /\ log[i - 1].type # "ScenarioEnded"
    /\ log[i].type # "ScenarioStarted"

Referring(log) ==
  \A i \in DOMAIN log :
    LET e == log[i]
    IN /\ e.cause # None => \E j \in 1..(i - 1) : log[j].id = e.cause
       /\ e.corr # None /\ e.load.act # None => e.corr = e.load.act
       /\ e.actor # None /\ e.load.npc # None => e.actor = e.load.npc

\* A start follows its proposal, but for the scripted ones of tick 0; an end
\* follows a start, or an interruption a departure.
ActionsAccounted(log) ==
  LET Known(types, i) ==
        \E j \in Before(log, types, i) : Load(log, j).act = Load(log, i).act
  IN /\ \A i \in At(log, {"ActionStarted"}) :
          \/ Known({"ActionProposed"}, i)
          \/ log[i].tick = 0 /\ Load(log, i).choice = "scripted"
     /\ \A i \in At(log, {"ActionCompleted", "ActionInterrupted"}) :
          \/ Known({"ActionStarted"}, i)
          \/ log[i].type = "ActionInterrupted" /\ Known({"MovementStarted"}, i)

RequestedBefore(log, i) ==
  \E j \in Before(log, {"DecisionRequested"}, i) : Load(log, j).req = Load(log, i).req

RequestsAccounted(log) ==
  /\ \A i \in At(log, Settlements \cup {"DecisionProviderFailed", "FallbackDecisionUsed"}) :
       RequestedBefore(log, i)
  /\ \A i \in At(log, {"DecisionRequested"}) : ~RequestedBefore(log, i)
  /\ \A i \in At(log, Settlements) :
       \A j \in Before(log, Settlements, i) : Load(log, j).req # Load(log, i).req

CommitmentsAccounted(log) ==
  \A i \in At(log, {"CommitmentBroken"}) : Before(log, {"CommitmentCreated"}, i) # {}

Framed(f) ==
  /\ f.events # <<>> /\ f.events[1].type = "ScenarioStarted"
  /\ At(f.events, {"ScenarioEnded"}) # {}
  /\ f.summary.count = Len(f.events)

\* validateOrderingAndReferences
validateOrderingAndReferences(f) ==
  /\ Numbered(f.events) /\ Ordered(f.events) /\ Referring(f.events)
  /\ ActionsAccounted(f.events) /\ RequestsAccounted(f.events)
  /\ CommitmentsAccounted(f.events) /\ Framed(f)

-----------------------------------------------------------------------------
(* Pass 5: what the events say of each other.                              *)

MetadataAgrees(f) == Load(f.events, 1).provider = f.plan

\* The envelope's target is the payload's identity, where there is one.
EnvelopeAgrees(log) ==
  \A i \in At(log, {"CommitmentCreated"}) :
    log[i].target # None => log[i].target = Load(log, i).peer

\* checkModeCategory, for the offers of a request too
ModesAgree(log) ==
  /\ \A i \in At(log, Described) :
       Load(log, i).desc.category = CategoryOf[Load(log, i).desc.mode]
  /\ \A i \in At(log, {"DecisionRequested"}) :
       \A o \in Load(log, i).offers : o.category = CategoryOf[o.mode]

\* The request an event names, by position.
RequestOf(log, i) ==
  CHOOSE j \in Before(log, {"DecisionRequested"}, i) : Load(log, j).req = Load(log, i).req

AnsweredAlike(log, i, j) ==
  /\ Load(log, i).rid = Load(log, j).rid /\ Load(log, i).req = Load(log, j).req
  /\ Load(log, i).npc = Load(log, j).npc

\* Mutated form of AcceptancesJoin: any provider's answer may be accepted.
AcceptancesMatch(log) ==
  \A i \in At(log, {"DecisionResponseAccepted"}) :
    \E j \in Cause(log, {"DecisionResponseReceived"}, i) : AnsweredAlike(log, i, j)
\* An acceptance repeats what was received, selects what its request offered,
\* and comes from the provider the request named, or from the fallback when
\* the engine has said that it uses it.
AcceptancesJoin(log) ==
  \A i \in At(log, {"DecisionResponseAccepted"}) :
    \E j \in Cause(log, {"DecisionResponseReceived"}, i) :
      LET a == Load(log, i)
          r == Load(log, RequestOf(log, i))
      IN /\ AnsweredAlike(log, i, j) /\ a.choice = Load(log, j).choice
         /\ a.npc = r.npc
         /\ a.choice \in {o.mode : o \in r.offers}
         /\ Load(log, j).provider = IF a.fallback THEN FallbackId ELSE r.provider
         /\ a.fallback => \E k \in Before(log, {"FallbackDecisionUsed"}, i) :
                            Load(log, k).req = a.req

RejectionsJoin(log) ==
  \A i \in At(log, {"DecisionResponseRejected"}) :
    \E j \in Cause(log, {"DecisionResponseReceived"}, i) : AnsweredAlike(log, i, j)

\* A proposal launches what its acceptance selected, exactly as offered, or
\* what a provisional fallback of the same NPC did, made interruptible.
ProposalsJoin(log) ==
  \A i \in At(log, {"ActionProposed"}) :
    \E j \in Cause(log, {"DecisionResponseAccepted", "FallbackDecisionUsed"}, i) :
      LET p == Load(log, i)
          offered == {o \in Load(log, RequestOf(log, j)).offers : o.mode = Load(log, j).choice}
      IN /\ p.choice = Load(log, j).choice
         /\ IF log[j].type = "DecisionResponseAccepted"
            THEN offered \subseteq {p.desc}
            ELSE /\ Load(log, j).reason = "provisional" /\ Load(log, j).npc = p.npc
                 /\ {[o EXCEPT !.firm = FALSE] : o \in offered} \subseteq {p.desc}

\* A start repeats the descriptor proposed for its action.
StartsJoin(log) ==
  \A i \in At(log, {"ActionStarted"}) :
    \A j \in Before(log, {"ActionProposed"}, i) :
      Load(log, j).act = Load(log, i).act =>
        Load(log, j).desc = Load(log, i).desc /\ Load(log, j).choice = Load(log, i).choice

OutcomeAgrees(f) ==
  \A i \in At(f.events, {"ScenarioEnded"}) : Load(f.events, i).reason = f.summary.outcome

\* validateSemanticConsistency
validateSemanticConsistency(f) ==
  /\ MetadataAgrees(f) /\ EnvelopeAgrees(f.events) /\ ModesAgree(f.events)
  /\ AcceptancesJoin(f.events) /\ RejectionsJoin(f.events)
  /\ ProposalsJoin(f.events) /\ StartsJoin(f.events) /\ OutcomeAgrees(f)

-----------------------------------------------------------------------------
(* Passes 6 to 10: the replay, its invariants, the hashes and the summary. *)

\* checkStructuralInvariants
checkStructuralInvariants(log, state) ==
  /\ Cardinality(At(log, {"TaskCompleted", "TaskDeadlineMissed"})) = 1
  /\ state.terminal /\ Cardinality(At(log, {"ScenarioEnded"})) = 1
  /\ Cardinality(At(log, {"CommitmentBroken"})) <= 1

Reproduced(f, state) ==
  /\ WorldHash(state) = f.world
  /\ \A i \in At(f.events, {"ScenarioEnded"}) : Load(f.events, i).hash = f.world
  /\ Projection(f.events) = f.ledger
  /\ Summary(state, f.events) = f.summary

\* Each pass runs only when the one before found nothing.
validateLedgerFile(f) ==
  LET state == replayLedger(f.events)
  IN /\ \A i \in DOMAIN f.events : validateEventExact(f.events[i])
     /\ validateOrderingAndReferences(f)
     /\ validateSemanticConsistency(f)
     /\ ~state.aborted
     /\ checkStructuralInvariants(f.events, state)
     /\ Reproduced(f, state)

\* host.replay: both hashes are recomputed and compared.
ReplayMatches(log, hashes) ==
  LET state == replayLedger(log)
  IN ~state.aborted /\ WorldHash(state) = hashes.world /\ Projection(log) = hashes.ledger

-----------------------------------------------------------------------------
(* External: a file changes between its export and its import.             *)

\* What a record of the file can be changed to, one field at a time.
Altered(log, e) ==
  {[e EXCEPT !.actor = x] : x \in IF e.actor = None THEN {} ELSE {Peer}}
  \cup {[e EXCEPT !.tick = @ + 1]}
  \cup {[e EXCEPT !.cause = log[j].id] :
          j \in IF e.cause = None THEN {}
                ELSE At(log, {"FallbackDecisionUsed", "DecisionResponseReceived"})}
  \cup {[e EXCEPT !.load.req = 3 - @] : x \in IF e.load.req = None THEN {} ELSE {1}}
  \cup {[e EXCEPT !.load.provider = FallbackId] : x \in IF e.load.provider = None THEN {} ELSE {1}}
  \cup {[e EXCEPT !.load.fallback = ~@] : x \in IF e.type = "DecisionResponseAccepted" THEN {1} ELSE {}}
  \cup {[e EXCEPT !.load.choice = m] : m \in IF e.load.choice = None THEN {} ELSE Modes}
  \cup {[e EXCEPT !.load.desc.firm = ~@] : x \in IF e.load.desc = None THEN {} ELSE {1}}
  \cup {[e EXCEPT !.load.act = @ + 1] : x \in IF e.load.act = None THEN {} ELSE {1}}

\* One event is altered, lost, repeated, or changes places with the next.
EditedLogs(log) ==
  UNION {{[log EXCEPT ![i] = e] : e \in Altered(log, log[i]) \ {log[i]}} : i \in DOMAIN log}
  \cup {RemoveAt(log, i) : i \in DOMAIN log}
  \cup {InsertAt(log, i, log[i]) : i \in DOMAIN log}
  \cup {[log EXCEPT ![i] = log[i + 1], ![i + 1] = log[i]] : i \in 1..(Len(log) - 1)}

\* A tool that rewrites a file numbers the events again and recomputes
\* whatever can be recomputed.
Renumbered(log) ==
  LET At2(i) == Stamped(SubSeq(log, 1, i - 1), log[i])
      NewId(id) == LET same == {i \in DOMAIN log : log[i].id = id}
                   IN IF same = {} THEN id
                      ELSE LET i == CHOOSE j \in same : \A k \in same : j <= k
                           IN NextId(SubSeq(log, 1, i - 1), log[i].type)
  IN [i \in DOMAIN log |->
        [log[i] EXCEPT !.seq = i - 1, !.id = NextId(SubSeq(log, 1, i - 1), log[i].type),
                       !.cause = IF @ = None THEN None ELSE NewId(@)]]

Rehashed(f, log) ==
  LET state == replayLedger(log)
      world == WorldHash(state)
      hashed == [i \in DOMAIN log |->
                   IF log[i].type = "ScenarioEnded" THEN [log[i] EXCEPT !.load.hash = world]
                   ELSE log[i]]
  IN [f EXCEPT !.events = hashed, !.world = world, !.ledger = Projection(hashed),
               !.summary = Summary(state, log)]

Edited(f) ==
  {[f EXCEPT !.events = log] : log \in EditedLogs(f.events)}
  \cup {Rehashed(f, Renumbered(log)) : log \in EditedLogs(f.events)}

-----------------------------------------------------------------------------
(* What an accepted ledger is worth                                        *)

\* Someone entitled to decide chose the action that starts at i: from the
\* start back to its proposal, to the answer that was accepted or the bridge
\* that was built, and to a request that had offered it to this NPC.
Licensed(log, i) ==
  LET s == Load(log, i)
      Offering(q, mode) == /\ Load(log, q).npc = s.npc
                           /\ mode \in {o.mode : o \in Load(log, q).offers}
      Asked(k) == {q \in Before(log, {"DecisionRequested"}, k) :
                     Load(log, q).req = Load(log, k).req /\ Offering(q, s.desc.mode)}
      Answered(k) == \E r \in Cause(log, {"DecisionResponseReceived"}, k), q \in Asked(k) :
                       \/ Load(log, r).provider = Load(log, q).provider
                       \/ /\ Load(log, r).provider = FallbackId
                          /\ \E u \in Before(log, {"FallbackDecisionUsed"}, k) :
                               Load(log, u).req = Load(log, k).req
  IN \E p \in Before(log, {"ActionProposed"}, i) :
       /\ Load(log, p).act = s.act /\ Load(log, p).desc = s.desc
       /\ \/ \E k \in Cause(log, {"DecisionResponseAccepted"}, p) :
               Load(log, k).choice = s.desc.mode /\ Answered(k)
          \/ \E k \in Cause(log, {"FallbackDecisionUsed"}, p) :
               Load(log, k).reason = "provisional" /\ Asked(k) # {} /\ ~s.desc.firm

Traceable(log) ==
  /\ \A i \in At(log, {"ActionStarted"}) : log[i].tick > 0 => Licensed(log, i)
  /\ \A i, j \in At(log, Settlements) : Load(log, i).req = Load(log, j).req => i = j

=============================================================================
