----------------------- MODULE DecisionLifecycleProofs -----------------------
(***************************************************************************)
(* TLAPS proofs about DecisionLifecycle, for any number of NPCs, any plan, *)
(* any time to live, cadence, scenario length and retention; then, that it *)
(* implements the request book: a quiet step leaves the book alone, a      *)
(* closing one is Book!Settle and an opening one Book!Open; that its       *)
(* registry is what a resume would rebuild from the ledger; last, that it  *)
(* attends to everybody, and that nobody acts who cannot.                  *)
(***************************************************************************)
EXTENDS DecisionLifecycle, SequenceTheorems, FiniteSetTheorems, TLAPS

-----------------------------------------------------------------------------
(* Sequences                                                               *)

\* Keep never leaves more than Retention entries and keeps their type.
LEMMA KeepType ==
  ASSUME NEW S, NEW s \in Seq(S)
  PROVE  Keep(s) \in Seq(S) /\ Len(Keep(s)) <= Retention
<1>1. CASE Len(s) <= Retention
  BY <1>1, NumberAssumption DEF Keep
<1>2. CASE Len(s) > Retention
  <2> DEFINE m == Len(s) - Retention + 1
  <2>1. m \in 1..Len(s) + 1 /\ m \in Int /\ Len(s) \in Nat
    BY <1>2, NumberAssumption
  <2>2. Keep(s) = SubSeq(s, m, Len(s))
    BY <1>2 DEF Keep
  <2>3. \A i \in m..Len(s) : s[i] \in S
    BY <2>1
  <2>4. /\ SubSeq(s, m, Len(s)) \in Seq(S)
        /\ Len(SubSeq(s, m, Len(s))) = IF m <= Len(s) THEN Len(s) - m + 1 ELSE 0
    BY <2>1, <2>3, SubSeqProperties
  <2>5. QED
    BY <2>1, <2>2, <2>4, NumberAssumption
<1>3. QED
  BY <1>1, <1>2, NumberAssumption

LEMMA AppendType ==
  ASSUME NEW S, NEW s \in Seq(S), NEW e \in S
  PROVE  Append(s, e) \in Seq(S)
  OBVIOUS

\* What the registry becomes when one resolution is recorded.
LEMMA RecordType ==
  ASSUME TypeOK, NEW req \in Nat, NEW how \in Settlements
  PROVE  /\ Record(req, how) \in Seq([req : Nat, how : Settlements])
         /\ Len(Record(req, how)) <= Retention
<1>1. Append(registry, [req |-> req, how |-> how]) \in Seq([req : Nat, how : Settlements])
  BY DEF TypeOK
<1>2. QED
  BY <1>1, KeepType DEF Record
-----------------------------------------------------------------------------
(* Types                                                                   *)

\* The decision phase belongs to ticks before the last one.
StageOK == pc \in {"idle", "decide", "ask", "fallback"} => tick < EndTick

TypeInv == TypeOK /\ StageOK

Bodies == [action : Actions \cup {None}, transit : BOOLEAN, incap : BOOLEAN]
Rids == {f.rid : f \in Forms} \cup {"res", "res-fb"}

LEMMA TurnType ==
  ASSUME TypeOK
  PROVE  /\ Npc \in Npcs
         /\ turn < Len(Order) => turn + 1 \in DOMAIN Order
         /\ 1 \in DOMAIN Order
  BY OrderAssumption DEF TypeOK, Npc, Npcs

LEMMA InitType == Init => TypeInv
<1> SUFFICES ASSUME Init PROVE TypeInv
  OBVIOUS
<1>1. 1 \in DOMAIN Order
  BY OrderAssumption
<1>2. body \in [Npcs -> Bodies]
  BY PlanAssumption DEF Init, Bodies, Actions
<1>3. QED
  BY <1>1, <1>2, NumberAssumption DEF Init, TypeInv, TypeOK, StageOK, Bodies

LEMMA FlagType ==
  ASSUME TypeOK, NEW marked \in SUBSET Npcs, NEW s
  PROVE  /\ s \in Perceived(marked) => s \subseteq Npcs
         /\ s \in Interrupted(marked) => s \subseteq Npcs
  BY DEF TypeOK, Perceived, Interrupted

LEMMA BeginType ==
  ASSUME TypeOK, NEW n \in Npcs, NEW b \in Bodies, NEW marked \in SUBSET Npcs,
         Begin(n, b, marked)
  PROVE  body' \in [Npcs -> Bodies] /\ reeval' \subseteq Npcs
<1>1. body \in [Npcs -> Bodies]
  BY DEF TypeOK, Bodies
<1>2. CASE /\ body' = [body EXCEPT ![n] = b]
           /\ reeval' \in IF marked = {} THEN Perceived({}) ELSE Interrupted(marked)
  <2>1. reeval' \subseteq Npcs
    BY <1>2, FlagType
  <2>2. QED
    BY <1>1, <1>2, <2>1
<1>3. CASE \E m \in Npcs \ {n} :
             /\ body' = [body EXCEPT ![n] = b, ![m].action = None]
             /\ reeval' \in Interrupted(marked \cup {m})
  <2>1. PICK m \in Npcs \ {n} :
          /\ body' = [body EXCEPT ![n] = b, ![m].action = None]
          /\ reeval' \in Interrupted(marked \cup {m})
    BY <1>3
  <2>2. marked \cup {m} \in SUBSET Npcs
    OBVIOUS
  <2>3. reeval' \subseteq Npcs
    BY <2>1, <2>2, FlagType
  <2>4. QED
    BY <1>1, <2>1, <2>3 DEF Bodies
<1>4. QED
  BY <1>2, <1>3 DEF Begin

LEMMA LaunchType ==
  ASSUME TypeOK, NEW n \in Npcs, NEW req \in Nat, NEW prov \in BOOLEAN,
         NEW c \in Affordances, Launch(n, req, prov, c)
  PROVE  body' \in [Npcs -> Bodies] /\ reeval' \subseteq Npcs /\ hard' \in Hard
<1> DEFINE preempted == IF body[n].action = None THEN {} ELSE {n}
<1>1. body \in [Npcs -> Bodies] /\ preempted \in SUBSET Npcs /\ hard' \in Hard
  BY DEF TypeOK, Bodies, Launch
<1>2. /\ Started(req, prov, c) \in Actions
      /\ Departed(req, prov, c) \in Actions
  BY DEF Started, Departed, Actions, Affordances
<1>3. CASE /\ body' = [body EXCEPT ![n].action = None]
           /\ reeval' \in Interrupted({n})
  <2>1. reeval' \subseteq Npcs
    BY <1>3, FlagType
  <2>2. QED
    BY <1>1, <1>3, <2>1 DEF Bodies
<1>4. CASE /\ body' = [body EXCEPT ![n].action = Departed(req, prov, c),
                                   ![n].transit = TRUE]
           /\ reeval' \in IF preempted = {} THEN {reeval} ELSE Interrupted(preempted)
  <2>1. reeval' \subseteq Npcs
    BY <1>1, <1>4, FlagType DEF TypeOK
  <2>2. QED
    BY <1>1, <1>2, <1>4, <2>1 DEF Bodies
<1>5. CASE Begin(n, [body[n] EXCEPT !.action = Started(req, prov, c)], preempted)
  <2>1. [body[n] EXCEPT !.action = Started(req, prov, c)] \in Bodies
    BY <1>1, <1>2 DEF Bodies
  <2>2. QED
    BY <1>1, <1>5, <2>1, BeginType
<1>6. QED
  BY <1>3, <1>4, <1>5 DEF Launch


\* What the gate may be handed: an answer from the inbox, or a provider's.
IsAnswer(r) == r.npc \in Npcs /\ r.req \in Nat /\ r.rid \in Rids

LEMMA AcceptedIsOffered ==
  ASSUME NEW r, NEW usedFallback, NEW found, Accepts(r, usedFallback, found)
  PROVE  /\ Current(r)
         /\ r.choice \in Offer \cup {Continue}
         /\ ~(tick > pending[r.npc].expires)
  BY DEF Accepts, Verdict, Offered, LateReason

LEMMA RejectReason ==
  ASSUME NEW r, NEW usedFallback, NEW found, ~Current(r)
  PROVE  /\ Verdict(r, usedFallback, found) = LateReason(r.req)
         /\ LateReason(r.req) \in {"superseded-request", "response-expired", "unknown-request"}
  BY DEF Verdict, LateReason

GateTyped ==
  /\ pending' \in [Npcs -> Requests \cup {None}]
  /\ body' \in [Npcs -> Bodies]
  /\ reeval' \subseteq Npcs
  /\ hard' \in Hard
  /\ registry' \in Seq([req : Nat, how : Settlements]) /\ Len(registry') <= Retention
  /\ ledger' \in Seq(Events)

LEMMA GateType ==
  ASSUME TypeOK, NEW r, IsAnswer(r), NEW usedFallback, NEW found,
         Gate(r, usedFallback, found)
  PROVE  GateTyped
<1> DEFINE v == Verdict(r, usedFallback, found)
<1>1. CASE v = "accepted"
  <2>1. Accept(r) /\ r.choice \in Offer \cup {Continue}
    BY <1>1, AcceptedIsOffered DEF Gate, Accepts
  <2>2. pending' \in [Npcs -> Requests \cup {None}]
    BY <2>1 DEF Accept, Answered, TypeOK
  <2>3. registry' \in Seq([req : Nat, how : Settlements]) /\ Len(registry') <= Retention
    BY <2>1, RecordType DEF Accept, IsAnswer, Settlements
  <2>4. CASE r.choice = Continue
    <3>1. Event("Accepted", r.req, "continue") \in Events
      BY DEF Event, Events, Settlements, IsAnswer
    <3>2. /\ ledger' = Append(ledger, Event("Accepted", r.req, "continue"))
          /\ UNCHANGED <<body, reeval, hard>>
      BY <2>1, <2>4 DEF Accept
    <3>3. ledger' \in Seq(Events)
      BY <3>1, <3>2 DEF TypeOK
    <3>4. QED
      BY <2>2, <2>3, <3>2, <3>3 DEF GateTyped, TypeOK, Bodies
  <2>5. CASE r.choice # Continue
    <3>1. /\ Event("Accepted", r.req, "launch") \in Events
          /\ Event("Proposed", r.req, "decided") \in Events
      BY DEF Event, Events, Settlements, IsAnswer
    <3>2. <<Event("Accepted", r.req, "launch"), Event("Proposed", r.req, "decided")>>
            \in Seq(Events)
      BY <3>1
    <3>3. /\ ledger' = ledger \o <<Event("Accepted", r.req, "launch"),
                                   Event("Proposed", r.req, "decided")>>
          /\ Launch(r.npc, r.req, FALSE, r.choice)
      BY <2>1, <2>5 DEF Accept
    <3>4. ledger' \in Seq(Events)
      BY <3>2, <3>3 DEF TypeOK
    <3>5. r.choice \in Affordances
      BY <2>1, <2>5, PlanAssumption
    <3>6. body' \in [Npcs -> Bodies] /\ reeval' \subseteq Npcs /\ hard' \in Hard
      BY <3>3, <3>5, LaunchType DEF IsAnswer
    <3>7. QED
      BY <2>2, <2>3, <3>4, <3>6 DEF GateTyped
  <2>6. QED
    BY <2>4, <2>5
<1>2. CASE v # "accepted"
  <2>1. Reject(r, v)
    BY <1>2 DEF Gate
  <2>2. UNCHANGED <<body, reeval, hard, registry>>
    BY <2>1 DEF Reject
  <2>3. CASE Current(r)
    <3>1. /\ pending' = [pending EXCEPT ![r.npc].seen = @ \cup {r.rid}]
          /\ ledger' = ledger
      BY <2>1, <2>3 DEF Reject
    <3>2. pending[r.npc] \in Requests
      BY <2>3 DEF Current, TypeOK, IsAnswer
    <3>3. [pending[r.npc] EXCEPT !.seen = @ \cup {r.rid}] \in Requests
      BY <3>2 DEF Requests, IsAnswer, Rids
    <3>4. pending' \in [Npcs -> Requests \cup {None}]
      BY <3>1, <3>3 DEF TypeOK, IsAnswer
    <3>5. QED
      BY <2>2, <3>1, <3>4 DEF GateTyped, TypeOK, Bodies
  <2>4. CASE ~Current(r)
    <3>1. pending' = pending /\ ledger' = Append(ledger, Event("Rejected", r.req, v))
      BY <2>1, <2>4 DEF Reject
    <3>2. Event("Rejected", r.req, v) \in Events
      BY <2>4, RejectReason DEF Event, Events, IsAnswer
    <3>3. ledger' \in Seq(Events)
      BY <3>1, <3>2 DEF TypeOK
    <3>4. QED
      BY <2>2, <3>1, <3>3 DEF GateTyped, TypeOK, Bodies
  <2>5. QED
    BY <2>3, <2>4
<1>3. QED
  BY <1>1, <1>2


Steps == {"idle", "world", "drain", "expire", "end", "decide", "ask", "fallback", "sealed"}

LEMMA LoopType ==
  ASSUME TypeOK, NEW next \in Steps, LoopOr(next)
  PROVE  turn' \in DOMAIN Order /\ pc' \in {pc, next}
  BY TurnType DEF LoopOr

LEMMA NextNpcType ==
  ASSUME TypeOK, NextNpc
  PROVE  turn' \in DOMAIN Order /\ pc' \in {"decide", "idle"}
  BY TurnType DEF NextNpc

LEMMA RequestType ==
  ASSUME TypeOK, NEW n \in Npcs
  PROVE  Request(n) \in Requests
<1>1. HardFingerprint \in Hard \X SUBSET Npcs
  BY DEF HardFingerprint, Incapacitated, TypeOK
<1>2. body[n].action \in Actions \cup {None}
  BY DEF TypeOK
<1>3. Preemptible(body[n].action) => Key(body[n].action) \in Nat \X BOOLEAN
  BY <1>2 DEF Preemptible, Active, Key, Actions
<1>4. counter + 1 \in Nat /\ tick + Ttl \in Nat
  BY NumberAssumption DEF TypeOK
<1>5. QED
  BY <1>1, <1>3, <1>4 DEF Request, Requests

LEMMA LocalAnswer ==
  ASSUME TypeOK, NEW rid \in {"res", "res-fb"}, NEW provider, NEW choice
  PROVE  IsAnswer(Local(rid, provider, choice))
  BY TurnType DEF IsAnswer, Local, Rids, TypeOK

LEMMA InboxAnswer ==
  ASSUME TypeOK, inbox # <<>>
  PROVE  /\ IsAnswer(Head(inbox))
         /\ Tail(inbox) \in Seq(Messages)
         /\ Len(Tail(inbox)) = Len(inbox) - 1
<1>1. Head(inbox) \in Messages
  BY DEF TypeOK
<1>2. IsAnswer(Head(inbox))
  BY <1>1 DEF IsAnswer, Messages, Rids
<1>3. QED
  BY <1>2 DEF TypeOK

\* A request given up by a failure, the clock or the end of the scenario.
LEMMA SettleType ==
  ASSUME TypeOK, NEW n \in Npcs, pending[n] # None,
         NEW note \in {"external-failure", "ttl-expired", "scenario-ended"}, Settle(n, note)
  PROVE  /\ pending' \in [Npcs -> Requests \cup {None}]
         /\ registry' \in Seq([req : Nat, how : Settlements]) /\ Len(registry') <= Retention
         /\ ledger' \in Seq(Events)
<1>1. pending[n] \in Requests
  BY DEF TypeOK
<1>2. pending[n].req \in Nat /\ "Expired" \in Settlements
  BY <1>1 DEF Requests, Settlements
<1>3. registry' \in Seq([req : Nat, how : Settlements]) /\ Len(registry') <= Retention
  BY <1>2, RecordType DEF Settle
<1>4. Event("Expired", pending[n].req, note) \in Events
  BY <1>2 DEF Event, Events
<1>5. ledger' \in Seq(Events)
  BY <1>4 DEF Settle, TypeOK
<1>6. pending' \in [Npcs -> Requests \cup {None}]
  BY DEF Settle, TypeOK
<1>7. QED
  BY <1>3, <1>5, <1>6


LEMMA WorldType == TypeInv /\ World => TypeInv'
<1> SUFFICES ASSUME TypeInv, World PROVE TypeInv'
  OBVIOUS
<1> USE DEF TypeInv
<1> DEFINE b == body[Npc]
           a == b.action
<1>1. Npc \in Npcs /\ body \in [Npcs -> Bodies] /\ b \in Bodies
  BY TurnType DEF TypeOK, Bodies
<1>2. turn' \in DOMAIN Order /\ pc' \in {"world", "drain"}
  BY LoopType DEF World, Steps
<1>3. hard' \in Hard
  BY DEF World, TypeOK
<1>4. /\ UNCHANGED <<tick, counter, pending, lastDecision, registry, ledger, inbox, failbox>>
      /\ \/ UNCHANGED body /\ reeval' \in Perceived({})
         \/ /\ a # None
            /\ Begin(Npc, [b EXCEPT !.transit = FALSE, !.action.phase = "active"], {})
         \/ /\ body' = [body EXCEPT ![Npc].transit = FALSE, ![Npc].action = None]
            /\ reeval' \in Perceived({Npc})
         \/ /\ body' = [body EXCEPT ![Npc].action = None]
            /\ reeval' \in Interrupted({})
         \/ /\ body' = [body EXCEPT ![Npc].action = None, ![Npc].incap = TRUE]
            /\ reeval' = Npcs
         \/ /\ body' = [body EXCEPT ![Npc].incap = FALSE]
            /\ reeval' = Npcs
  BY DEF World
<1>5. body' \in [Npcs -> Bodies] /\ reeval' \subseteq Npcs
  <2>1. CASE UNCHANGED body /\ reeval' \in Perceived({})
    BY <1>1, <2>1, FlagType
  <2>2. CASE /\ a # None
             /\ Begin(Npc, [b EXCEPT !.transit = FALSE, !.action.phase = "active"], {})
    <3>1. a \in Actions
      BY <1>1, <2>2 DEF Bodies
    <3>2. [b EXCEPT !.transit = FALSE, !.action.phase = "active"] \in Bodies
      BY <1>1, <3>1 DEF Bodies, Actions
    <3>3. QED
      BY <1>1, <2>2, <3>2, BeginType
  <2>3. CASE /\ body' = [body EXCEPT ![Npc].transit = FALSE, ![Npc].action = None]
             /\ reeval' \in Perceived({Npc})
    BY <1>1, <2>3, FlagType DEF Bodies
  <2>4. CASE /\ body' = [body EXCEPT ![Npc].action = None]
             /\ reeval' \in Interrupted({})
    BY <1>1, <2>4, FlagType DEF Bodies
  <2>5. CASE /\ body' = [body EXCEPT ![Npc].action = None, ![Npc].incap = TRUE]
             /\ reeval' = Npcs
    BY <1>1, <2>5 DEF Bodies
  <2>6. CASE /\ body' = [body EXCEPT ![Npc].incap = FALSE]
             /\ reeval' = Npcs
    BY <1>1, <2>6 DEF Bodies
  <2>7. QED
    BY <1>4, <2>1, <2>2, <2>3, <2>4, <2>5, <2>6
<1>6. QED
  BY <1>2, <1>3, <1>4, <1>5 DEF TypeOK, StageOK, Bodies

LEMMA ExpireType == TypeInv /\ Expire => TypeInv'
<1> SUFFICES ASSUME TypeInv, Expire PROVE TypeInv'
  OBVIOUS
<1> USE DEF TypeInv
<1>1. /\ pc = "expire"
      /\ LoopOr(IF tick >= EndTick THEN "end" ELSE "decide")
      /\ UNCHANGED <<tick, counter, body, lastDecision, hard, inbox, failbox>>
  BY DEF Expire
<1>2. /\ turn' \in DOMAIN Order
      /\ pc' \in {"expire", IF tick >= EndTick THEN "end" ELSE "decide"}
  BY <1>1, LoopType DEF Steps
<1>3. /\ pending' \in [Npcs -> Requests \cup {None}]
      /\ registry' \in Seq([req : Nat, how : Settlements]) /\ Len(registry') <= Retention
      /\ ledger' \in Seq(Events)
      /\ reeval' \subseteq Npcs
  BY TurnType, SettleType DEF Expire, Overdue, TypeOK
<1>4. StageOK'
  BY <1>1, <1>2, NumberAssumption DEF StageOK, TypeOK
<1>5. QED
  BY <1>1, <1>2, <1>3, <1>4 DEF TypeOK

LEMMA EndType == TypeInv /\ End => TypeInv'
<1> SUFFICES ASSUME TypeInv, End PROVE TypeInv'
  OBVIOUS
<1> USE DEF TypeInv
<1>1. turn' \in DOMAIN Order /\ pc' \in {"end", "sealed"}
  BY LoopType DEF End, Steps
<1>2. /\ pending' \in [Npcs -> Requests \cup {None}]
      /\ registry' \in Seq([req : Nat, how : Settlements]) /\ Len(registry') <= Retention
      /\ ledger' \in Seq(Events)
  BY TurnType, SettleType DEF End, TypeOK
<1>3. body' \in [Npcs -> Bodies] /\ reeval' \subseteq Npcs
  BY TurnType DEF End, TypeOK, Bodies
<1>4. UNCHANGED <<tick, counter, lastDecision, hard, inbox, failbox>>
  BY DEF End
<1>5. QED
  BY <1>1, <1>2, <1>3, <1>4 DEF TypeOK, StageOK, Bodies

LEMMA DrainType ==
  TypeInv /\ (DrainResponse \/ DrainFailure \/ Drained) => TypeInv'
<1> SUFFICES ASSUME TypeInv, DrainResponse \/ DrainFailure \/ Drained PROVE TypeInv'
  OBVIOUS
<1> USE DEF TypeInv
<1>1. CASE DrainResponse
  <2>1. /\ pc = "drain" /\ inbox # <<>> /\ inbox' = Tail(inbox)
        /\ UNCHANGED <<pc, turn, tick, counter, lastDecision, failbox>>
    BY <1>1 DEF DrainResponse
  <2>2. PICK found \in Findings : Gate(Head(inbox), FALSE, found)
    BY <1>1 DEF DrainResponse
  <2>3. GateTyped
    BY <2>1, <2>2, InboxAnswer, GateType
  <2>4. /\ inbox' \in Seq(Messages) /\ Len(inbox') = Len(inbox) - 1
    BY <2>1, InboxAnswer
  <2>5. Len(inbox') + Len(failbox') <= MaxQueued
    BY <2>1, <2>4, NumberAssumption DEF TypeOK
  <2>6. QED
    BY <2>1, <2>3, <2>4, <2>5 DEF TypeOK, StageOK, GateTyped, Bodies
<1>2. CASE DrainFailure
  <2> DEFINE f == Head(failbox)
  <2>1. /\ pc = "drain" /\ failbox # <<>> /\ failbox' = Tail(failbox)
        /\ UNCHANGED <<pc, turn, tick, counter, body, reeval, lastDecision, hard, inbox>>
    BY <1>2 DEF DrainFailure
  <2>2. f \in Failures /\ failbox' \in Seq(Failures) /\ Len(failbox') = Len(failbox) - 1
    BY <2>1 DEF TypeOK
  <2>3. Len(inbox') + Len(failbox') <= MaxQueued
    BY <2>1, <2>2, NumberAssumption DEF TypeOK
  <2>4. /\ pending' \in [Npcs -> Requests \cup {None}]
        /\ registry' \in Seq([req : Nat, how : Settlements]) /\ Len(registry') <= Retention
        /\ ledger' \in Seq(Events)
    <3>1. CASE Matches(f)
      <4>1. f.npc \in Npcs /\ pending[f.npc] # None /\ f.req = pending[f.npc].req
        BY <2>2, <3>1 DEF Matches, Failures
      <4>2. Settle(f.npc, "external-failure")
        BY <1>2, <3>1, <4>1 DEF DrainFailure, Settle, RecordFailure
      <4>3. QED
        BY <4>1, <4>2, SettleType
    <3>2. CASE ~Matches(f)
      BY <1>2, <3>2 DEF DrainFailure, TypeOK
    <3>3. QED
      BY <3>1, <3>2
  <2>5. QED
    BY <2>1, <2>2, <2>3, <2>4 DEF TypeOK, StageOK
<1>3. CASE Drained
  BY <1>3, TurnType DEF Drained, TypeOK, StageOK
<1>4. QED
  BY <1>1, <1>2, <1>3


LEMMA RequestDecisionType == TypeInv /\ RequestDecision => TypeInv'
<1> SUFFICES ASSUME TypeInv, RequestDecision PROVE TypeInv'
  OBVIOUS
<1> USE DEF TypeInv
<1>1. Npc \in Npcs
  BY TurnType
<1>2. /\ pc = "decide" /\ pc' = "ask"
      /\ counter' = counter + 1
      /\ pending' = [pending EXCEPT ![Npc] = Request(Npc)]
      /\ lastDecision' = [lastDecision EXCEPT ![Npc] = tick]
      /\ reeval' = reeval \ {Npc}
      /\ UNCHANGED <<turn, tick, body, hard, inbox, failbox>>
  BY DEF RequestDecision
<1>3. /\ registry' \in Seq([req : Nat, how : Settlements]) /\ Len(registry') <= Retention
      /\ ledger' \in Seq(Events)
  <2>1. CASE Supersedes(Npc)
    <3>1. pending[Npc] \in Requests
      BY <1>1, <2>1 DEF Supersedes, TypeOK
    <3>2. pending[Npc].req \in Nat /\ "Superseded" \in Settlements
      BY <3>1 DEF Requests, Settlements
    <3>3. Event("Superseded", pending[Npc].req, "") \in Events
      BY <3>2 DEF Event, Events
    <3>4. /\ ledger' = Append(ledger, Event("Superseded", pending[Npc].req, ""))
          /\ registry' = Record(pending[Npc].req, "Superseded")
      BY <2>1 DEF RequestDecision
    <3>5. ledger \in Seq(Events)
      BY DEF TypeOK
    <3>6. ledger' \in Seq(Events)
      BY <3>3, <3>4, <3>5, AppendType
    <3>7. QED
      BY <3>2, <3>4, <3>6, RecordType
  <2>2. CASE ~Supersedes(Npc)
    BY <2>2 DEF RequestDecision, TypeOK
  <2>3. QED
    BY <2>1, <2>2
<1>4. pending' \in [Npcs -> Requests \cup {None}]
  BY <1>2, RequestType, TurnType DEF TypeOK
<1>5. lastDecision' \in [Npcs -> 0..EndTick]
  BY <1>2 DEF TypeOK
<1>6. QED
  BY <1>2, <1>3, <1>4, <1>5 DEF TypeOK, StageOK

LEMMA ProviderAnswersType ==
  ASSUME TypeInv, NEW choice, NEW found, ProviderAnswers(choice, found)
  PROVE  TypeInv'
<1> USE DEF TypeInv
<1>1. /\ pc = "ask"
      /\ Gate(Local("res", Plan[Npc], choice), FALSE, found)
      /\ NextNpc \/ (pc' = "fallback" /\ turn' = turn)
      /\ UNCHANGED <<tick, counter, lastDecision, inbox, failbox>>
  BY DEF ProviderAnswers
<1>2. GateTyped
  BY <1>1, LocalAnswer, GateType
<1>3. turn' \in DOMAIN Order /\ pc' \in {"decide", "idle", "fallback"}
  BY <1>1, NextNpcType DEF TypeOK
<1>4. QED
  BY <1>1, <1>2, <1>3 DEF TypeOK, StageOK, GateTyped, Bodies

LEMMA FallbackAnswersType ==
  ASSUME TypeInv, NEW choice, NEW found, FallbackAnswers(choice, found)
  PROVE  TypeInv'
<1> USE DEF TypeInv
<1>1. /\ pc = "fallback"
      /\ Gate(Local("res-fb", Fallback, choice), TRUE, found)
      /\ NextNpc
      /\ UNCHANGED <<tick, counter, lastDecision, inbox, failbox>>
  BY DEF FallbackAnswers
<1>2. GateTyped
  BY <1>1, LocalAnswer, GateType
<1>3. turn' \in DOMAIN Order /\ pc' \in {"decide", "idle"}
  BY <1>1, NextNpcType
<1>4. QED
  BY <1>1, <1>2, <1>3 DEF TypeOK, StageOK, GateTyped, Bodies

LEMMA ProviderDefersType ==
  ASSUME TypeInv, NEW choice \in Offer, ProviderDefers(choice)
  PROVE  TypeInv'
<1> USE DEF TypeInv
<1>1. /\ pc = "ask" /\ NextNpc
      /\ UNCHANGED <<tick, counter, pending, lastDecision, registry, inbox, failbox>>
  BY DEF ProviderDefers
<1>2. turn' \in DOMAIN Order /\ pc' \in {"decide", "idle"}
  BY <1>1, NextNpcType
<1>3. /\ body' \in [Npcs -> Bodies] /\ reeval' \subseteq Npcs /\ hard' \in Hard
      /\ ledger' \in Seq(Events)
  <2>1. CASE body[Npc].action # None
    BY <2>1 DEF ProviderDefers, TypeOK, Bodies
  <2>2. CASE body[Npc].action = None
    <3>1. /\ ledger' = Append(ledger, Event("Proposed", counter, "provisional"))
          /\ Launch(Npc, counter, TRUE, Bridging(choice))
      BY <2>2 DEF ProviderDefers
    <3>2. Bridging(choice) \in Affordances
      BY PlanAssumption DEF Bridging, Affordances
    <3>3. Npc \in Npcs /\ counter \in Nat
      BY TurnType DEF TypeOK
    <3>4. body' \in [Npcs -> Bodies] /\ reeval' \subseteq Npcs /\ hard' \in Hard
      BY <3>1, <3>2, <3>3, LaunchType
    <3>5. Event("Proposed", counter, "provisional") \in Events
      BY <3>3 DEF Event, Events
    <3>6. ledger' = Append(ledger, Event("Proposed", counter, "provisional"))
      BY <3>1
    <3>7. ledger' \in Seq(Events)
      BY <3>5, <3>6 DEF TypeOK
    <3>8. QED
      BY <3>4, <3>7
  <2>3. QED
    BY <2>1, <2>2
<1>4. QED
  BY <1>1, <1>2, <1>3 DEF TypeOK, StageOK, Bodies

LEMMA SubmitType ==
  ASSUME TypeInv, HostQueues
  PROVE  TypeInv'
<1> USE DEF TypeInv
<1>1. ASSUME NEW n \in External, NEW req \in 1..counter, NEW form \in Forms,
             SubmitResponse(n, req, form)
      PROVE  TypeInv'
  <2>1. n \in Npcs /\ req \in Nat
    BY PlanAssumption DEF TypeOK
  <2>2. Response(n, req, form) \in Messages
    BY <2>1 DEF Response, Messages
  <2>3. /\ inbox' \in Seq(Messages) /\ Len(inbox') = Len(inbox) + 1
        /\ Len(inbox) + Len(failbox) < MaxQueued
    BY <1>1, <2>2 DEF SubmitResponse, TypeOK
  <2>4. UNCHANGED <<pc, turn, tick, counter, pending, body, reeval, lastDecision, hard,
                    registry, ledger, failbox>>
    BY <1>1 DEF SubmitResponse
  <2>5. Len(inbox') + Len(failbox') <= MaxQueued
    BY <2>3, <2>4, NumberAssumption DEF TypeOK
  <2>6. QED
    BY <2>3, <2>4, <2>5 DEF TypeOK, StageOK
<1>2. ASSUME NEW n \in External, NEW req \in 1..counter,
             NEW provider \in {Plan[m] : m \in Npcs}, SubmitFailure(n, req, provider)
      PROVE  TypeInv'
  <2>1. n \in Npcs /\ req \in Nat
    BY PlanAssumption DEF TypeOK
  <2>2. [npc |-> n, req |-> req, provider |-> provider] \in Failures
    BY <2>1 DEF Failures
  <2>3. /\ failbox' \in Seq(Failures) /\ Len(failbox') = Len(failbox) + 1
        /\ Len(inbox) + Len(failbox) < MaxQueued
    BY <1>2, <2>2 DEF SubmitFailure, TypeOK
  <2>4. UNCHANGED <<pc, turn, tick, counter, pending, body, reeval, lastDecision, hard,
                    registry, ledger, inbox>>
    BY <1>2 DEF SubmitFailure
  <2>5. Len(inbox') + Len(failbox') <= MaxQueued
    BY <2>3, <2>4, NumberAssumption DEF TypeOK
  <2>6. QED
    BY <2>3, <2>4, <2>5 DEF TypeOK, StageOK
<1>3. QED
  BY <1>1, <1>2 DEF HostQueues

\* Every step keeps the types, and no request is made in the last tick.
LEMMA StepType == TypeInv /\ [Next]_vars => TypeInv'
<1> SUFFICES ASSUME TypeInv, [Next]_vars PROVE TypeInv'
  OBVIOUS
<1>1. CASE UNCHANGED vars
  BY <1>1 DEF vars, TypeInv, TypeOK, StageOK
<1>2. CASE BeginTick
  BY <1>2, TurnType, NumberAssumption DEF BeginTick, Host, TypeInv, TypeOK, StageOK
<1>3. CASE SkipDecision
  <2>1. turn' \in DOMAIN Order /\ pc' \in {"decide", "idle"}
    BY <1>3, LoopType DEF SkipDecision, Steps, TypeInv
  <2>2. QED
    BY <1>3, <2>1 DEF SkipDecision, TypeInv, TypeOK, StageOK
<1>4. CASE ProviderFails
  BY <1>4 DEF ProviderFails, TypeInv, TypeOK, StageOK
<1>5. CASE StepSealed
  BY <1>1, <1>5 DEF StepSealed
<1>6. QED
  BY <1>1, <1>2, <1>3, <1>4, <1>5, WorldType, DrainType, ExpireType, EndType,
     RequestDecisionType, ProviderAnswersType, FallbackAnswersType, ProviderDefersType,
     SubmitType
  DEF Next, Engine

\* The types hold in every reachable state, for every number of NPCs, plan and
\* timing constants: in particular the resolved-request registry never outgrows
\* RESOLVED_REQUEST_RETENTION and the clock stops at the scenario's end
\* (engine.ts stepTick, recordResolvedRequest).
THEOREM TypeCorrect == Spec => []TypeOK
<1>1. Init => TypeInv
  BY InitType
<1>2. TypeInv /\ [Next]_vars => TypeInv'
  BY StepType
<1>3. TypeInv => TypeOK
  BY DEF TypeInv
<1>4. QED
  BY <1>1, <1>2, <1>3, PTL DEF Spec


-----------------------------------------------------------------------------
(* One fate per request.  OneFatePerRequest is not inductive: it does not  *)
(* say that the requests it speaks of are among those issued, so a new     *)
(* request could be one that is already settled.  Issued says so.          *)

Issued ==
  /\ \A n \in Npcs : pending[n] # None => pending[n].req \in 1..counter
  /\ \A i \in DOMAIN ledger : SettledAt(i) => ledger[i].req \in 1..counter

FateInv == TypeInv /\ Issued /\ OneFatePerRequest

\* Every step has one of three shapes: it settles nothing and opens nothing,
\* it settles the pending request of one NPC, or it opens a request for one
\* NPC, settling the one that NPC had.
SameRequest(n) ==
  /\ pending'[n] = None <=> pending[n] = None
  /\ pending[n] # None => pending'[n].req = pending[n].req

Extends ==
  /\ Len(ledger) \in Nat /\ DOMAIN ledger = 1..Len(ledger)
  /\ Len(ledger') \in Nat /\ DOMAIN ledger' = 1..Len(ledger')
  /\ Len(ledger) <= Len(ledger')
  /\ \A i \in DOMAIN ledger : ledger'[i] = ledger[i]

SettlesNothing ==
  /\ Extends
  /\ \A i \in DOMAIN ledger' : i > Len(ledger) => ledger'[i].type \notin Settlements

SettlesOne(req, fates) ==
  /\ Extends
  /\ Len(ledger) < Len(ledger')
  /\ ledger'[Len(ledger) + 1].type \in Settlements \cap fates
  /\ ledger'[Len(ledger) + 1].req = req
  /\ \A i \in DOMAIN ledger' : i > Len(ledger) + 1 => ledger'[i].type \notin Settlements

Quiet ==
  /\ counter' = counter
  /\ \A n \in Npcs : SameRequest(n)
  /\ SettlesNothing

Closes(n) ==
  /\ counter' = counter
  /\ pending[n] # None /\ pending'[n] = None
  /\ \A m \in Npcs \ {n} : SameRequest(m)
  /\ SettlesOne(pending[n].req, {"Accepted", "Expired"})

Opens(n) ==
  /\ counter' = counter + 1
  /\ pending'[n] # None /\ pending'[n].req = counter + 1
  /\ \A m \in Npcs \ {n} : SameRequest(m)
  /\ pending[n] = None => SettlesNothing
  /\ pending[n] # None => SettlesOne(pending[n].req, {"Superseded"})

LEMMA QuietKeeps ==
  ASSUME FateInv, Quiet
  PROVE  Issued' /\ OneFatePerRequest'
<1>1. \A i \in DOMAIN ledger' : ledger'[i].type \in Settlements =>
        i \in DOMAIN ledger /\ ledger'[i] = ledger[i]
  BY DEF Quiet, SettlesNothing, Extends
<1>2. \A req : Settled(req)' <=> Settled(req)
  BY <1>1 DEF Quiet, SettlesNothing, Extends, Settled, SettledAt
<1>3. \A req : Pends(req)' <=> Pends(req)
  BY DEF Quiet, SameRequest, Pends
<1>4. Issued'
  BY <1>1 DEF FateInv, Issued, Quiet, SameRequest, SettledAt
<1>5. \A i, j \in DOMAIN ledger' :
        ledger'[i].type \in Settlements /\ ledger'[j].type \in Settlements
          /\ ledger'[i].req = ledger'[j].req => i = j
  BY <1>1 DEF FateInv, OneFatePerRequest, SettledAt
<1>6. \A m, n \in Npcs :
        pending'[m] # None /\ pending'[n] # None /\ pending'[m].req = pending'[n].req => m = n
  BY DEF FateInv, OneFatePerRequest, Quiet, SameRequest
<1>7. \A req \in 1..counter' : Pends(req)' <=> ~Settled(req)'
  BY <1>2, <1>3 DEF FateInv, OneFatePerRequest, Quiet
<1>8. QED
  BY <1>4, <1>5, <1>6, <1>7 DEF OneFatePerRequest, SettledAt

LEMMA ClosesKeeps ==
  ASSUME FateInv, NEW n \in Npcs, Closes(n)
  PROVE  Issued' /\ OneFatePerRequest'
<1> DEFINE q == pending[n].req
           last == Len(ledger) + 1
<1>1. q \in 1..counter /\ Pends(q) /\ ~Settled(q)
  BY DEF FateInv, Issued, OneFatePerRequest, Closes, Pends
<1>2. last \in DOMAIN ledger' /\ ledger'[last].type \in Settlements /\ ledger'[last].req = q
  BY DEF Closes, SettlesOne, Extends
<1>3. \A i \in DOMAIN ledger' : ledger'[i].type \in Settlements =>
        i = last \/ (i \in DOMAIN ledger /\ ledger'[i] = ledger[i] /\ ledger[i].req # q)
  <2> SUFFICES ASSUME NEW i \in DOMAIN ledger', ledger'[i].type \in Settlements, i # last
               PROVE  i \in DOMAIN ledger /\ ledger'[i] = ledger[i] /\ ledger[i].req # q
    OBVIOUS
  <2>1. i \in DOMAIN ledger /\ ledger'[i] = ledger[i]
    BY DEF Closes, SettlesOne, Extends
  <2>2. QED
    BY <1>1, <2>1 DEF Settled, SettledAt
<1>4. \A req : Settled(req)' <=> Settled(req) \/ req = q
  BY <1>2, <1>3 DEF Closes, SettlesOne, Extends, Settled, SettledAt
<1>5. \A req : Pends(req)' <=> Pends(req) /\ req # q
  BY DEF FateInv, OneFatePerRequest, Closes, SameRequest, Pends
<1>6. Issued'
  BY <1>1, <1>2, <1>3 DEF FateInv, Issued, Closes, SameRequest, SettledAt
<1>7. \A i, j \in DOMAIN ledger' :
        ledger'[i].type \in Settlements /\ ledger'[j].type \in Settlements
          /\ ledger'[i].req = ledger'[j].req => i = j
  BY <1>2, <1>3 DEF FateInv, OneFatePerRequest, SettledAt
<1>8. \A k, m \in Npcs :
        pending'[k] # None /\ pending'[m] # None /\ pending'[k].req = pending'[m].req => k = m
  BY DEF FateInv, OneFatePerRequest, Closes, SameRequest
<1>9. \A req \in 1..counter' : Pends(req)' <=> ~Settled(req)'
  BY <1>4, <1>5 DEF FateInv, OneFatePerRequest, Closes
<1>10. QED
  BY <1>6, <1>7, <1>8, <1>9 DEF OneFatePerRequest, SettledAt


LEMMA OpensKeeps ==
  ASSUME FateInv, NEW n \in Npcs, Opens(n)
  PROVE  Issued' /\ OneFatePerRequest'
<1> DEFINE new == counter + 1
           Old(req) == pending[n] # None /\ pending[n].req = req
<1>1. counter \in Nat /\ new \notin 1..counter /\ new \in 1..counter'
  BY DEF FateInv, TypeInv, TypeOK, Opens
<1>2. \A req : Pends(req) \/ Settled(req) => req \in 1..counter
  BY DEF FateInv, Issued, Pends, Settled
<1>3. \A req : Old(req) => Pends(req) /\ ~Settled(req)
  BY <1>2 DEF FateInv, OneFatePerRequest, Pends
<1>4. \A i \in DOMAIN ledger' : ledger'[i].type \in Settlements =>
        \/ i = Len(ledger) + 1 /\ Old(ledger'[i].req)
        \/ i \in DOMAIN ledger /\ ledger'[i] = ledger[i] /\ ~Old(ledger[i].req)
  <2>1. CASE pending[n] = None
    BY <2>1 DEF Opens, SettlesNothing, Extends
  <2>2. CASE pending[n] # None
    <3> SUFFICES ASSUME NEW i \in DOMAIN ledger', ledger'[i].type \in Settlements,
                        i # Len(ledger) + 1
                 PROVE  i \in DOMAIN ledger /\ ledger'[i] = ledger[i] /\ ~Old(ledger[i].req)
      BY <2>2 DEF Opens, SettlesOne
    <3>1. i \in DOMAIN ledger /\ ledger'[i] = ledger[i]
      BY <2>2 DEF Opens, SettlesOne, Extends
    <3>2. QED
      BY <1>3, <3>1 DEF Settled, SettledAt
  <2>3. QED
    BY <2>1, <2>2
<1>5. \A req : Settled(req)' <=> Settled(req) \/ Old(req)
  <2>1. CASE pending[n] = None
    BY <2>1 DEF Opens, SettlesNothing, Extends, Settled, SettledAt
  <2>2. CASE pending[n] # None
    <3>1. /\ Len(ledger) + 1 \in DOMAIN ledger'
          /\ ledger'[Len(ledger) + 1].type \in Settlements
          /\ ledger'[Len(ledger) + 1].req = pending[n].req
          /\ Extends
      BY <2>2 DEF Opens, SettlesOne, Extends
    <3>2. ASSUME NEW req PROVE Settled(req)' => Settled(req) \/ Old(req)
      BY <1>4 DEF Settled, SettledAt
    <3>3. ASSUME NEW req, Settled(req) PROVE Settled(req)'
      BY <3>1, <3>3 DEF Extends, Settled, SettledAt
    <3>4. ASSUME NEW req, Old(req) PROVE Settled(req)'
      BY <3>1, <3>4 DEF Settled, SettledAt
    <3>5. QED
      BY <3>2, <3>3, <3>4
  <2>3. QED
    BY <2>1, <2>2
<1>6. \A req : Pends(req)' <=> (Pends(req) /\ ~Old(req)) \/ req = new
  BY DEF FateInv, OneFatePerRequest, Opens, SameRequest, Pends
<1>7. \A k, m \in Npcs :
        pending'[k] # None /\ pending'[m] # None /\ pending'[k].req = pending'[m].req => k = m
  <2>1. \A k \in Npcs \ {n} : pending'[k] # None => pending'[k].req \in 1..counter
    BY DEF FateInv, Issued, Opens, SameRequest
  <2>2. QED
    BY <1>1, <2>1 DEF FateInv, OneFatePerRequest, Opens, SameRequest
<1>8. \A i, j \in DOMAIN ledger' :
        ledger'[i].type \in Settlements /\ ledger'[j].type \in Settlements
          /\ ledger'[i].req = ledger'[j].req => i = j
  BY <1>4 DEF FateInv, OneFatePerRequest, SettledAt
<1>9. Issued'
  <2>1. \A k \in Npcs : pending'[k] # None => pending'[k].req \in 1..counter'
    BY <1>1 DEF FateInv, Issued, Opens, SameRequest
  <2>2. \A i \in DOMAIN ledger' :
          ledger'[i].type \in Settlements => ledger'[i].req \in 1..counter'
    BY <1>1, <1>4 DEF FateInv, Issued, Opens, SettledAt
  <2>3. QED
    BY <2>1, <2>2 DEF Issued, SettledAt
<1>10. \A req \in 1..counter' : Pends(req)' <=> ~Settled(req)'
  <2>1. \A req \in 1..counter' : req = new \/ req \in 1..counter
    BY <1>1 DEF Opens
  <2>2. QED
    BY <1>1, <1>2, <1>3, <1>5, <1>6, <2>1 DEF FateInv, OneFatePerRequest
<1>11. QED
  BY <1>7, <1>8, <1>9, <1>10 DEF OneFatePerRequest, SettledAt


LEMMA StillQuiet ==
  ASSUME TypeOK, UNCHANGED <<counter, pending, ledger>>
  PROVE  Quiet
  BY DEF TypeOK, Quiet, SameRequest, SettlesNothing, Extends

LEMMA AppendNothing ==
  ASSUME TypeOK, NEW e, e.type \notin Settlements, ledger' = Append(ledger, e)
  PROVE  SettlesNothing
  BY DEF TypeOK, SettlesNothing, Extends

LEMMA AppendOne ==
  ASSUME TypeOK, NEW e, NEW fates, e.type \in Settlements \cap fates,
         ledger' = Append(ledger, e)
  PROVE  SettlesOne(e.req, fates)
  BY DEF TypeOK, SettlesOne, Extends

LEMMA AppendTwo ==
  ASSUME TypeOK, NEW d, NEW e, NEW fates, d.type \in Settlements \cap fates,
         e.type \notin Settlements, ledger' = ledger \o <<d, e>>
  PROVE  SettlesOne(d.req, fates)
<1>1. /\ ledger \in Seq(Events) /\ Len(ledger) \in Nat
      /\ DOMAIN ledger = 1..Len(ledger)
  BY DEF TypeOK
<1>2. /\ Len(ledger') = Len(ledger) + 2
      /\ DOMAIN ledger' = 1..Len(ledger) + 2
      /\ \A i \in DOMAIN ledger : ledger'[i] = ledger[i]
      /\ ledger'[Len(ledger) + 1] = d /\ ledger'[Len(ledger) + 2] = e
  BY <1>1
<1>3. QED
  BY <1>1, <1>2 DEF SettlesOne, Extends

LEMMA SettleCloses ==
  ASSUME TypeOK, NEW n \in Npcs, pending[n] # None, NEW note, Settle(n, note),
         counter' = counter
  PROVE  Closes(n)
<1> DEFINE e == Event("Expired", pending[n].req, note)
           fates == {"Accepted", "Expired"}
<1>1. e.type \in Settlements \cap fates /\ e.req = pending[n].req
  BY DEF Event, Settlements
<1>2. ledger' = Append(ledger, e) /\ pending' = [pending EXCEPT ![n] = None]
  BY DEF Settle
<1>3. SettlesOne(pending[n].req, fates)
  BY <1>1, <1>2, AppendOne
<1>4. QED
  BY <1>2, <1>3 DEF Closes, SameRequest, TypeOK

\* The gate settles the request it accepts an answer to, and nothing else.
LEMMA GateShape ==
  ASSUME TypeOK, NEW r, IsAnswer(r), NEW usedFallback, NEW found,
         Gate(r, usedFallback, found), counter' = counter
  PROVE  Quiet \/ Closes(r.npc)
<1> DEFINE n == r.npc
           v == Verdict(r, usedFallback, found)
           fates == {"Accepted", "Expired"}
<1>1. n \in Npcs
  BY DEF IsAnswer
<1>2. CASE v = "accepted"
  <2>1. Accept(r) /\ Current(r)
    BY <1>2, AcceptedIsOffered DEF Gate, Accepts
  <2>2. pending[n] # None /\ pending[n].req = r.req /\ pending' = [pending EXCEPT ![n] = None]
    BY <2>1 DEF Current, Accept, Answered
  <2>3. SettlesOne(r.req, fates)
    <3>1. CASE r.choice = Continue
      <4> DEFINE e == Event("Accepted", r.req, "continue")
      <4>1. e.type \in Settlements \cap fates /\ e.req = r.req
        BY DEF Event, Settlements
      <4>2. ledger' = Append(ledger, e)
        BY <2>1, <3>1 DEF Accept
      <4>3. QED
        BY <4>1, <4>2, AppendOne
    <3>2. CASE r.choice # Continue
      <4> DEFINE d == Event("Accepted", r.req, "launch")
                 e == Event("Proposed", r.req, "decided")
      <4>1. d.type \in Settlements \cap fates /\ d.req = r.req /\ e.type \notin Settlements
        BY DEF Event, Settlements
      <4>2. ledger' = ledger \o <<d, e>>
        BY <2>1, <3>2 DEF Accept
      <4>3. QED
        BY <4>1, <4>2, AppendTwo
    <3>3. QED
      BY <3>1, <3>2
  <2>4. QED
    BY <1>1, <2>2, <2>3 DEF Closes, SameRequest, TypeOK
<1>3. CASE v # "accepted"
  <2>1. Reject(r, v)
    BY <1>3 DEF Gate
  <2>2. CASE Current(r)
    <3> DEFINE p == [pending[n] EXCEPT !.seen = @ \cup {r.rid}]
    <3>1. pending[n] \in Requests
      BY <1>1, <2>2 DEF Current, TypeOK
    <3>2. pending' = [pending EXCEPT ![n].seen = @ \cup {r.rid}] /\ ledger' = ledger
      BY <2>1, <2>2 DEF Reject
    <3>3. pending' = [pending EXCEPT ![n] = p]
      BY <1>1, <3>2 DEF TypeOK
    <3>4. p \in Requests /\ p.req = pending[n].req
      BY <3>1 DEF Requests, IsAnswer, Rids
    <3>5. p # None
      BY <3>4, NoneAssumption
    <3>6. \A m \in Npcs : SameRequest(m)
      BY <1>1, <2>2, <3>3, <3>4, <3>5 DEF SameRequest, Current, TypeOK
    <3>7. SettlesNothing
      BY <3>2 DEF SettlesNothing, Extends, TypeOK
    <3>8. QED
      BY <3>6, <3>7 DEF Quiet
  <2>3. CASE ~Current(r)
    <3>1. pending' = pending /\ ledger' = Append(ledger, Event("Rejected", r.req, v))
      BY <2>1, <2>3 DEF Reject
    <3>2. Event("Rejected", r.req, v).type \notin Settlements
      BY DEF Event, Settlements
    <3>3. SettlesNothing
      BY <3>1, <3>2, AppendNothing
    <3>4. QED
      BY <3>1, <3>3 DEF Quiet, SameRequest
  <2>4. QED
    BY <2>2, <2>3
<1>4. QED
  BY <1>2, <1>3

LEMMA RequestShape ==
  ASSUME TypeOK, RequestDecision
  PROVE  Opens(Npc)
<1> DEFINE n == Npc
           e == Event("Superseded", pending[n].req, "")
<1>1. n \in Npcs /\ Request(n) \in Requests
  BY TurnType, RequestType
<1>2. Request(n) # None /\ Request(n).req = counter + 1
  BY <1>1, NoneAssumption DEF Request
<1>3. counter' = counter + 1 /\ pending' = [pending EXCEPT ![n] = Request(n)]
  BY DEF RequestDecision
<1>4. pending[n] = None => SettlesNothing
  BY DEF RequestDecision, Supersedes, SettlesNothing, Extends, TypeOK
<1>5. pending[n] # None => SettlesOne(pending[n].req, {"Superseded"})
  <2>1. e.type \in Settlements \cap {"Superseded"} /\ e.req = pending[n].req
    BY DEF Event, Settlements
  <2>2. pending[n] # None => ledger' = Append(ledger, e)
    BY DEF RequestDecision, Supersedes
  <2>3. QED
    BY <2>1, <2>2, AppendOne
<1>6. QED
  BY <1>1, <1>2, <1>3, <1>4, <1>5 DEF Opens, SameRequest, TypeOK

LEMMA DefersShape ==
  ASSUME TypeOK, NEW choice, ProviderDefers(choice)
  PROVE  Quiet
<1>1. UNCHANGED <<counter, pending>>
  BY DEF ProviderDefers
<1>2. SettlesNothing
  <2>1. CASE body[Npc].action # None
    BY <2>1 DEF ProviderDefers, SettlesNothing, Extends, TypeOK
  <2>2. CASE body[Npc].action = None
    <3>1. ledger' = Append(ledger, Event("Proposed", counter, "provisional"))
      BY <2>2 DEF ProviderDefers
    <3>2. Event("Proposed", counter, "provisional").type \notin Settlements
      BY DEF Event, Settlements
    <3>3. QED
      BY <3>1, <3>2, AppendNothing
  <2>3. QED
    BY <2>1, <2>2
<1>3. QED
  BY <1>1, <1>2 DEF Quiet, SameRequest

\* Every step of the engine has one of the three shapes.
LEMMA StepShape ==
  ASSUME TypeOK, [Next]_vars
  PROVE  Quiet \/ \E n \in Npcs : Closes(n) \/ Opens(n)
<1>1. CASE UNCHANGED vars
  BY <1>1, StillQuiet DEF vars
<1>2. CASE BeginTick \/ World \/ Drained \/ SkipDecision \/ ProviderFails
  BY <1>2, StillQuiet DEF BeginTick, World, Drained, SkipDecision, ProviderFails
<1>3. CASE HostQueues
  BY <1>3, StillQuiet DEF HostQueues, SubmitResponse, SubmitFailure
<1>4. CASE DrainResponse
  <2>1. PICK found \in Findings : Gate(Head(inbox), FALSE, found)
    BY <1>4 DEF DrainResponse
  <2>2. counter' = counter /\ IsAnswer(Head(inbox))
    BY <1>4, InboxAnswer DEF DrainResponse
  <2>3. QED
    BY <2>1, <2>2, GateShape DEF IsAnswer
<1>5. CASE DrainFailure
  <2> DEFINE f == Head(failbox)
  <2>1. counter' = counter /\ f \in Failures
    BY <1>5 DEF DrainFailure, TypeOK
  <2>2. CASE Matches(f)
    <3>1. f.npc \in Npcs /\ pending[f.npc] # None /\ f.req = pending[f.npc].req
      BY <2>1, <2>2 DEF Matches, Failures
    <3>2. Settle(f.npc, "external-failure")
      BY <1>5, <2>2, <3>1 DEF DrainFailure, Settle, RecordFailure
    <3>3. QED
      BY <2>1, <3>1, <3>2, SettleCloses
  <2>3. CASE ~Matches(f)
    BY <1>5, <2>1, <2>3, StillQuiet DEF DrainFailure
  <2>4. QED
    BY <2>2, <2>3
<1>6. CASE Expire
  <2>1. counter' = counter /\ Npc \in Npcs
    BY <1>6, TurnType DEF Expire
  <2>2. CASE Overdue(Npc)
    <3>1. Settle(Npc, "ttl-expired") /\ pending[Npc] # None
      BY <1>6, <2>2 DEF Expire, Overdue
    <3>2. QED
      BY <2>1, <3>1, SettleCloses
  <2>3. CASE ~Overdue(Npc)
    BY <1>6, <2>1, <2>3, StillQuiet DEF Expire
  <2>4. QED
    BY <2>2, <2>3
<1>7. CASE End
  <2>1. counter' = counter /\ Npc \in Npcs
    BY <1>7, TurnType DEF End
  <2>2. CASE pending[Npc] # None
    <3>1. Settle(Npc, "scenario-ended")
      BY <1>7, <2>2 DEF End
    <3>2. QED
      BY <2>1, <2>2, <3>1, SettleCloses
  <2>3. CASE pending[Npc] = None
    BY <1>7, <2>1, <2>3, StillQuiet DEF End
  <2>4. QED
    BY <2>2, <2>3
<1>8. CASE RequestDecision
  BY <1>8, RequestShape, TurnType
<1>9. ASSUME NEW choice, NEW found, ProviderAnswers(choice, found)
      PROVE  Quiet \/ \E n \in Npcs : Closes(n) \/ Opens(n)
  <2> DEFINE r == Local("res", Plan[Npc], choice)
  <2>1. Gate(r, FALSE, found) /\ counter' = counter
    BY <1>9 DEF ProviderAnswers
  <2>2. QED
    BY <2>1, LocalAnswer, GateShape DEF IsAnswer
<1>10. ASSUME NEW choice, NEW found, FallbackAnswers(choice, found)
       PROVE  Quiet \/ \E n \in Npcs : Closes(n) \/ Opens(n)
  <2> DEFINE r == Local("res-fb", Fallback, choice)
  <2>1. Gate(r, TRUE, found) /\ counter' = counter
    BY <1>10 DEF FallbackAnswers
  <2>2. QED
    BY <2>1, LocalAnswer, GateShape DEF IsAnswer
<1>11. ASSUME NEW choice \in Offer, ProviderDefers(choice) PROVE Quiet
  BY <1>11, DefersShape
<1>12. CASE StepSealed
  BY <1>1, <1>12 DEF StepSealed
<1>13. QED
  BY <1>1, <1>2, <1>3, <1>4, <1>5, <1>6, <1>7, <1>8, <1>9, <1>10, <1>11, <1>12
  DEF Next, Engine

LEMMA FateInvariant == Spec => []FateInv
<1>1. Init => FateInv
  <2> SUFFICES ASSUME Init PROVE FateInv
    OBVIOUS
  <2>1. /\ \A n \in Npcs : pending[n] = None
        /\ ledger = <<>> /\ counter = 0
    BY DEF Init
  <2>2. 1..counter = {} /\ DOMAIN ledger = {}
    BY <2>1
  <2>3. QED
    BY <2>1, <2>2, InitType DEF FateInv, Issued, OneFatePerRequest
<1>2. FateInv /\ [Next]_vars => FateInv'
  <2> SUFFICES ASSUME FateInv, [Next]_vars PROVE FateInv'
    OBVIOUS
  <2>1. TypeInv'
    BY StepType DEF FateInv
  <2>2. Issued' /\ OneFatePerRequest'
    BY StepShape, QuietKeeps, ClosesKeeps, OpensKeeps DEF FateInv, TypeInv
  <2>3. QED
    BY <2>1, <2>2 DEF FateInv
<1>3. QED
  BY <1>1, <1>2, PTL DEF Spec

\* Every request ever issued is either pending at exactly one NPC or settled by
\* exactly one event, however late answers, duplicates, failures, the clock and
\* the scenario's end race (engine.ts, the decision lifecycle).
THEOREM OneFate == Spec => []OneFatePerRequest
<1>1. FateInv => OneFatePerRequest
  BY DEF FateInv
<1>2. QED
  BY <1>1, FateInvariant, PTL

-----------------------------------------------------------------------------
(* One launch per request.  What a step adds to the ledger is nothing that *)
(* launches, an acceptance with its launch, or a provisional launch.       *)

\* The request being asked about is pending, and nothing has bridged it yet.
AskedInv ==
  /\ pc \in {"ask", "fallback"} => pending[Npc] # None /\ pending[Npc].req = counter
  /\ pc = "ask" => \A i \in DOMAIN ledger : ProposedAt(i, "provisional") => ledger[i].req # counter
  /\ \A i \in DOMAIN ledger : ProposedAt(i, "provisional") => ledger[i].req <= counter

LaunchInv == FateInv /\ AskedInv /\ OneLaunchPerRequest

LaunchesNothing ==
  /\ Extends
  /\ \A i \in DOMAIN ledger' : i > Len(ledger) =>
       ledger'[i].type # "Proposed" /\ ledger'[i].note # "launch"

Decides(n) ==
  /\ pending[n] # None
  /\ Extends /\ Len(ledger') = Len(ledger) + 2
  /\ ledger'[Len(ledger) + 1] = Event("Accepted", pending[n].req, "launch")
  /\ ledger'[Len(ledger) + 2] = Event("Proposed", pending[n].req, "decided")

Bridges ==
  /\ pc = "ask" /\ pc' \in {"decide", "idle"}
  /\ Extends /\ Len(ledger') = Len(ledger) + 1
  /\ ledger'[Len(ledger) + 1] = Event("Proposed", counter, "provisional")

\* What is pending has not been accepted, so it has launched no decision.
LEMMA PendingIsUndecided ==
  ASSUME LaunchInv, NEW n \in Npcs, pending[n] # None, NEW i \in DOMAIN ledger,
         ledger[i].req = pending[n].req
  PROVE  /\ ledger[i].type # "Accepted"
         /\ ~ProposedAt(i, "decided")
<1>1. ASSUME NEW j \in DOMAIN ledger, ledger[j].req = pending[n].req PROVE ledger[j].type # "Accepted"
  <2>1. pending[n].req \in 1..counter
    BY DEF LaunchInv, FateInv, Issued
  <2>2. ~Settled(pending[n].req)
    BY <2>1 DEF LaunchInv, FateInv, OneFatePerRequest, Pends
  <2>3. QED
    BY <1>1, <2>2 DEF Settled, SettledAt, Settlements
<1>2. ASSUME ProposedAt(i, "decided") PROVE FALSE
  <2>1. PICK j \in DOMAIN ledger : ledger[j] = Event("Accepted", ledger[i].req, "launch")
    BY <1>2 DEF LaunchInv, OneLaunchPerRequest
  <2>2. ledger[j].type = "Accepted" /\ ledger[j].req = pending[n].req
    BY <2>1 DEF Event
  <2>3. QED
    BY <1>1, <2>2
<1>3. QED
  BY <1>1, <1>2

LEMMA LaunchesNothingKeeps ==
  ASSUME OneLaunchPerRequest, LaunchesNothing
  PROVE  OneLaunchPerRequest'
<1>1. /\ DOMAIN ledger \subseteq DOMAIN ledger'
      /\ \A i \in DOMAIN ledger : ledger'[i] = ledger[i]
  BY DEF LaunchesNothing, Extends
<1>2. ASSUME NEW i \in DOMAIN ledger', NEW note, ProposedAt(i, note)'
      PROVE  i \in DOMAIN ledger /\ ledger'[i] = ledger[i] /\ ProposedAt(i, note)
  BY <1>1, <1>2 DEF LaunchesNothing, Extends, ProposedAt
<1>3. ASSUME NEW i \in DOMAIN ledger', NEW req, ledger'[i] = Event("Accepted", req, "launch")
      PROVE  i \in DOMAIN ledger /\ ledger[i] = Event("Accepted", req, "launch")
  <2>1. ledger'[i].note = "launch"
    BY <1>3 DEF Event
  <2>2. QED
    BY <1>1, <1>3, <2>1 DEF LaunchesNothing, Extends
<1>4. \A i, j \in DOMAIN ledger', note \in {"decided", "provisional"} :
        ProposedAt(i, note)' /\ ProposedAt(j, note)' /\ ledger'[i].req = ledger'[j].req => i = j
  BY <1>2 DEF OneLaunchPerRequest
<1>5. ASSUME NEW i \in DOMAIN ledger', NEW j \in DOMAIN ledger',
             ledger'[j] = Event("Accepted", ledger'[i].req, "launch")
      PROVE  /\ ProposedAt(i, "decided")' => j < i
             /\ ProposedAt(i, "provisional")' => i < j
  BY <1>2, <1>3, <1>5 DEF OneLaunchPerRequest
<1>6. ASSUME NEW i \in DOMAIN ledger', ProposedAt(i, "decided")'
      PROVE  \E j \in DOMAIN ledger' : ledger'[j] = Event("Accepted", ledger'[i].req, "launch")
  <2>1. i \in DOMAIN ledger /\ ledger'[i] = ledger[i] /\ ProposedAt(i, "decided")
    BY <1>2, <1>6
  <2>2. PICK j \in DOMAIN ledger : ledger[j] = Event("Accepted", ledger[i].req, "launch")
    BY <2>1 DEF OneLaunchPerRequest
  <2>3. QED
    BY <1>1, <2>1, <2>2
<1>7. QED
  BY <1>4, <1>5, <1>6 DEF OneLaunchPerRequest, ProposedAt

LEMMA DecidesKeeps ==
  ASSUME LaunchInv, NEW n \in Npcs, Decides(n)
  PROVE  OneLaunchPerRequest'
<1> DEFINE req == pending[n].req
           last == Len(ledger) + 2
<1>1. /\ Len(ledger) \in Nat /\ DOMAIN ledger = 1..Len(ledger)
      /\ DOMAIN ledger' = 1..last /\ DOMAIN ledger' = DOMAIN ledger \cup {last - 1, last}
      /\ \A i \in DOMAIN ledger : ledger'[i] = ledger[i]
      /\ ledger'[last - 1] = Event("Accepted", req, "launch")
      /\ ledger'[last] = Event("Proposed", req, "decided")
  BY DEF Decides, Extends
<1>2. \A i \in DOMAIN ledger : ledger[i].req = req => ledger[i].type # "Accepted" /\ ~ProposedAt(i, "decided")
  BY PendingIsUndecided DEF Decides
<1>3. \A i \in DOMAIN ledger : i < last - 1
  BY <1>1
<1>4. OneLaunchPerRequest
  BY DEF LaunchInv
<1>5. /\ ledger'[last - 1].type = "Accepted" /\ ledger'[last - 1].req = req
      /\ ledger'[last].type = "Proposed" /\ ledger'[last].req = req /\ ledger'[last].note = "decided"
  BY <1>1 DEF Event
<1> HIDE DEF req, last
<1>6. ASSUME NEW i \in DOMAIN ledger', NEW note, ProposedAt(i, note)'
      PROVE  \/ i \in DOMAIN ledger /\ ProposedAt(i, note) /\ ledger'[i] = ledger[i]
             \/ i = last /\ note = "decided" /\ ledger'[i].req = req
  BY <1>1, <1>5, <1>6 DEF ProposedAt
<1>7. \A i, j \in DOMAIN ledger', note \in {"decided", "provisional"} :
        ProposedAt(i, note)' /\ ProposedAt(j, note)' /\ ledger'[i].req = ledger'[j].req => i = j
  BY <1>2, <1>4, <1>6 DEF OneLaunchPerRequest
<1>8. ASSUME NEW i \in DOMAIN ledger', NEW j \in DOMAIN ledger',
             ledger'[j] = Event("Accepted", ledger'[i].req, "launch")
      PROVE  /\ ProposedAt(i, "decided")' => j < i
             /\ ProposedAt(i, "provisional")' => i < j
  <2>1. ledger'[j].type = "Accepted" /\ ledger'[j].req = ledger'[i].req
    BY <1>8 DEF Event
  <2>2. CASE j \in DOMAIN ledger
    <3>1. ledger[j].req # req
      BY <1>1, <1>2, <2>1, <2>2
    <3>2. ledger'[i].req # req
      BY <1>1, <2>1, <2>2, <3>1
    <3>3. ASSUME NEW note, ProposedAt(i, note)'
          PROVE  i \in DOMAIN ledger /\ ProposedAt(i, note) /\ ledger'[i] = ledger[i]
      BY <1>6, <3>2, <3>3
    <3>4. QED
      BY <1>1, <1>4, <1>8, <2>2, <3>3 DEF OneLaunchPerRequest
  <2>3. CASE j = last - 1
    <3>1. ledger'[i].req = req
      BY <1>5, <2>1, <2>3
    <3>2. ProposedAt(i, "decided")' => i = last
      BY <1>2, <1>6, <3>1
    <3>3. ProposedAt(i, "provisional")' => i \in DOMAIN ledger
      BY <1>6
    <3>4. QED
      BY <1>1, <1>3, <2>3, <3>2, <3>3 DEF last
  <2>4. QED
    BY <1>1, <1>5, <2>1, <2>2, <2>3
<1>9. ASSUME NEW i \in DOMAIN ledger', ProposedAt(i, "decided")'
      PROVE  \E j \in DOMAIN ledger' : ledger'[j] = Event("Accepted", ledger'[i].req, "launch")
  <2>1. CASE i \in DOMAIN ledger /\ ProposedAt(i, "decided") /\ ledger'[i] = ledger[i]
    <3>1. PICK j \in DOMAIN ledger : ledger[j] = Event("Accepted", ledger[i].req, "launch")
      BY <1>4, <2>1 DEF OneLaunchPerRequest
    <3>2. QED
      BY <1>1, <2>1, <3>1
  <2>2. CASE i = last /\ ledger'[i].req = req
    BY <1>1, <2>2
  <2>3. QED
    BY <1>6, <1>9, <2>1, <2>2
<1>10. QED
  BY <1>7, <1>8, <1>9 DEF OneLaunchPerRequest, ProposedAt

LEMMA BridgesKeeps ==
  ASSUME LaunchInv, Bridges
  PROVE  OneLaunchPerRequest'
<1> DEFINE last == Len(ledger) + 1
<1>1. /\ Len(ledger) \in Nat /\ DOMAIN ledger = 1..Len(ledger)
      /\ DOMAIN ledger' = 1..last /\ DOMAIN ledger' = DOMAIN ledger \cup {last}
      /\ \A i \in DOMAIN ledger : ledger'[i] = ledger[i]
      /\ ledger'[last] = Event("Proposed", counter, "provisional")
  BY DEF Bridges, Extends
<1>2. /\ pending[Npc] # None /\ pending[Npc].req = counter
      /\ \A i \in DOMAIN ledger : ProposedAt(i, "provisional") => ledger[i].req # counter
  BY DEF LaunchInv, AskedInv, Bridges
<1>3. \A i \in DOMAIN ledger : ledger[i].req = counter => ledger[i].type # "Accepted"
  <2>1. Npc \in Npcs
    BY TurnType DEF LaunchInv, FateInv, TypeInv
  <2>2. QED
    BY <1>2, <2>1, PendingIsUndecided
<1>4. OneLaunchPerRequest
  BY DEF LaunchInv
<1>5. ledger'[last].type = "Proposed" /\ ledger'[last].req = counter /\ ledger'[last].note = "provisional"
  BY <1>1 DEF Event
<1> HIDE DEF last
<1>6. ASSUME NEW i \in DOMAIN ledger', NEW note, ProposedAt(i, note)'
      PROVE  \/ i \in DOMAIN ledger /\ ProposedAt(i, note) /\ ledger'[i] = ledger[i]
             \/ i = last /\ note = "provisional" /\ ledger'[i].req = counter
  BY <1>1, <1>5, <1>6 DEF ProposedAt
<1>7. \A i, j \in DOMAIN ledger', note \in {"decided", "provisional"} :
        ProposedAt(i, note)' /\ ProposedAt(j, note)' /\ ledger'[i].req = ledger'[j].req => i = j
  BY <1>2, <1>4, <1>6 DEF OneLaunchPerRequest
<1>8. ASSUME NEW i \in DOMAIN ledger', NEW j \in DOMAIN ledger',
             ledger'[j] = Event("Accepted", ledger'[i].req, "launch")
      PROVE  /\ ProposedAt(i, "decided")' => j < i
             /\ ProposedAt(i, "provisional")' => i < j
  <2>1. ledger'[j].type = "Accepted" /\ ledger'[j].req = ledger'[i].req
    BY <1>8 DEF Event
  <2>2. j \in DOMAIN ledger /\ ledger'[j] = ledger[j]
    BY <1>1, <1>5, <2>1
  <2>3. ledger'[i].req # counter
    BY <1>3, <2>1, <2>2
  <2>4. ASSUME NEW note, ProposedAt(i, note)'
        PROVE  i \in DOMAIN ledger /\ ProposedAt(i, note) /\ ledger'[i] = ledger[i]
    BY <1>6, <2>3, <2>4
  <2>5. QED
    BY <1>4, <1>8, <2>2, <2>4 DEF OneLaunchPerRequest
<1>9. ASSUME NEW i \in DOMAIN ledger', ProposedAt(i, "decided")'
      PROVE  \E j \in DOMAIN ledger' : ledger'[j] = Event("Accepted", ledger'[i].req, "launch")
  <2>1. i \in DOMAIN ledger /\ ProposedAt(i, "decided") /\ ledger'[i] = ledger[i]
    BY <1>6, <1>9
  <2>2. PICK j \in DOMAIN ledger : ledger[j] = Event("Accepted", ledger[i].req, "launch")
    BY <1>4, <2>1 DEF OneLaunchPerRequest
  <2>3. QED
    BY <1>1, <2>1, <2>2
<1>10. QED
  BY <1>7, <1>8, <1>9 DEF OneLaunchPerRequest, ProposedAt

LEMMA AddsNothing ==
  ASSUME TypeOK, ledger' = ledger
  PROVE  LaunchesNothing
BY DEF TypeOK, LaunchesNothing, Extends

LEMMA AddsOne ==
  ASSUME TypeOK, NEW type \in Settlements \cup {"Rejected"}, NEW req, NEW note, note # "launch",
         ledger' = Append(ledger, Event(type, req, note))
  PROVE  LaunchesNothing
<1> DEFINE e == Event(type, req, note)
<1>1. e.type # "Proposed" /\ e.note # "launch"
  BY DEF Event, Settlements
<1>2. /\ ledger \in Seq(Events) /\ Len(ledger) \in Nat /\ DOMAIN ledger = 1..Len(ledger)
  BY DEF TypeOK
<1> HIDE DEF e
<1>3. /\ Len(ledger') = Len(ledger) + 1 /\ DOMAIN ledger' = 1..Len(ledger')
      /\ ledger'[Len(ledger) + 1] = e /\ \A i \in DOMAIN ledger : ledger'[i] = ledger[i]
  BY <1>2 DEF e
<1>4. QED
  BY <1>1, <1>2, <1>3 DEF LaunchesNothing, Extends

LEMMA GateLaunches ==
  ASSUME TypeOK, NEW r, NEW usedFallback, NEW found, Gate(r, usedFallback, found)
  PROVE  LaunchesNothing \/ Decides(r.npc)
<1> DEFINE v == Verdict(r, usedFallback, found)
<1>1. CASE v = "accepted" /\ r.choice # Continue
  <2>1. Accept(r) /\ Current(r)
    BY <1>1, AcceptedIsOffered DEF Gate, Accepts
  <2>2. pending[r.npc] # None /\ pending[r.npc].req = r.req
    BY <2>1 DEF Current
  <2> DEFINE d == Event("Accepted", r.req, "launch")
             e == Event("Proposed", r.req, "decided")
  <2>3. ledger' = ledger \o <<d, e>>
    BY <1>1, <2>1 DEF Accept
  <2>4. ledger \in Seq(Events) /\ Len(ledger) \in Nat /\ DOMAIN ledger = 1..Len(ledger)
    BY DEF TypeOK
  <2> HIDE DEF d, e
  <2>5. /\ Len(ledger') = Len(ledger) + 2 /\ DOMAIN ledger' = 1..Len(ledger')
        /\ ledger'[Len(ledger) + 1] = d /\ ledger'[Len(ledger) + 2] = e
        /\ \A i \in DOMAIN ledger : ledger'[i] = ledger[i]
    BY <2>3, <2>4
  <2>6. QED
    BY <2>2, <2>4, <2>5 DEF Decides, Extends, d, e
<1>2. CASE v = "accepted" /\ r.choice = Continue
  <2>1. ledger' = Append(ledger, Event("Accepted", r.req, "continue"))
    BY <1>2 DEF Gate, Accept
  <2>2. QED
    BY <2>1, AddsOne DEF Settlements
<1>3. CASE v # "accepted"
  <2>1. Reject(r, v)
    BY <1>3 DEF Gate
  <2>2. CASE Current(r)
    BY <2>1, <2>2, AddsNothing DEF Reject
  <2>3. CASE ~Current(r)
    <3>1. ledger' = Append(ledger, Event("Rejected", r.req, v)) /\ v # "launch"
      BY <2>1, <2>3, RejectReason DEF Reject
    <3>2. QED
      BY <3>1, AddsOne
  <2>4. QED
    BY <2>2, <2>3
<1>4. QED
  BY <1>1, <1>2, <1>3

LEMMA DefersLaunches ==
  ASSUME TypeOK, NEW choice, ProviderDefers(choice)
  PROVE  LaunchesNothing \/ Bridges
<1>1. CASE body[Npc].action # None
  BY <1>1, AddsNothing DEF ProviderDefers
<1>2. CASE body[Npc].action = None
  <2> DEFINE e == Event("Proposed", counter, "provisional")
  <2>1. ledger' = Append(ledger, e) /\ pc = "ask" /\ NextNpc
    BY <1>2 DEF ProviderDefers
  <2>2. ledger \in Seq(Events) /\ Len(ledger) \in Nat /\ DOMAIN ledger = 1..Len(ledger)
    BY DEF TypeOK
  <2> HIDE DEF e
  <2>3. /\ Len(ledger') = Len(ledger) + 1 /\ DOMAIN ledger' = 1..Len(ledger')
        /\ ledger'[Len(ledger) + 1] = e /\ \A i \in DOMAIN ledger : ledger'[i] = ledger[i]
    BY <2>1, <2>2
  <2>4. QED
    BY <2>1, <2>2, <2>3, NextNpcType DEF Bridges, Extends, e
<1>3. QED
  BY <1>1, <1>2

\* What a step adds to the ledger launches at most one action, and says of which request.
LEMMA StepLaunches ==
  ASSUME TypeOK, [Next]_vars
  PROVE  LaunchesNothing \/ Bridges \/ \E n \in Npcs : Decides(n)
<1>1. CASE BeginTick \/ World \/ Drained \/ SkipDecision \/ ProviderFails \/ HostQueues \/ StepSealed \/ UNCHANGED vars
  BY <1>1, AddsNothing DEF BeginTick, World, Drained, SkipDecision, ProviderFails, HostQueues,
                           SubmitResponse, SubmitFailure, StepSealed, vars
<1>2. CASE DrainResponse
  <2>1. PICK found \in Findings : Gate(Head(inbox), FALSE, found)
    BY <1>2 DEF DrainResponse
  <2>2. IsAnswer(Head(inbox))
    BY <1>2, InboxAnswer DEF DrainResponse
  <2>3. QED
    BY <2>1, <2>2, GateLaunches DEF IsAnswer
<1>3. CASE DrainFailure
  <2>1. ledger' = ledger \/ \E req : ledger' = Append(ledger, Event("Expired", req, "external-failure"))
    BY <1>3 DEF DrainFailure
  <2>2. QED
    BY <2>1, AddsNothing, AddsOne DEF Settlements
<1>4. CASE Expire \/ End
  <2>1. \/ ledger' = ledger
        \/ \E req : ledger' = Append(ledger, Event("Expired", req, "ttl-expired"))
        \/ \E req : ledger' = Append(ledger, Event("Expired", req, "scenario-ended"))
    BY <1>4 DEF Expire, End, Settle
  <2>2. QED
    BY <2>1, AddsNothing, AddsOne DEF Settlements
<1>5. CASE RequestDecision
  <2>1. ledger' = ledger \/ \E req : ledger' = Append(ledger, Event("Superseded", req, ""))
    BY <1>5 DEF RequestDecision
  <2>2. QED
    BY <2>1, AddsNothing, AddsOne DEF Settlements
<1>6. ASSUME NEW choice, NEW found, ProviderAnswers(choice, found)
      PROVE  LaunchesNothing \/ \E n \in Npcs : Decides(n)
  <2> DEFINE r == Local("res", Plan[Npc], choice)
  <2>1. Gate(r, FALSE, found)
    BY <1>6 DEF ProviderAnswers
  <2>2. QED
    BY <2>1, LocalAnswer, GateLaunches DEF IsAnswer
<1>7. ASSUME NEW choice, NEW found, FallbackAnswers(choice, found)
      PROVE  LaunchesNothing \/ \E n \in Npcs : Decides(n)
  <2> DEFINE r == Local("res-fb", Fallback, choice)
  <2>1. Gate(r, TRUE, found)
    BY <1>7 DEF FallbackAnswers
  <2>2. QED
    BY <2>1, LocalAnswer, GateLaunches DEF IsAnswer
<1>8. ASSUME NEW choice \in Offer, ProviderDefers(choice) PROVE LaunchesNothing \/ Bridges
  BY <1>8, DefersLaunches
<1>9. QED
  BY <1>1, <1>2, <1>3, <1>4, <1>5, <1>6, <1>7, <1>8 DEF Next, Engine

\* A provider is asked, and its fallback after it, about the request just opened.
LEMMA StaysAsked ==
  ASSUME TypeOK, AskedInv, [Next]_vars, pc' \in {"ask", "fallback"}
  PROVE  /\ pending'[Npc'] # None /\ pending'[Npc'].req = counter'
         /\ pc' = "ask" => RequestDecision \/ UNCHANGED vars
<1>1. CASE UNCHANGED vars
  <2>1. Npc' = Npc
    BY <1>1 DEF vars, Npc
  <2>2. QED
    BY <1>1, <2>1 DEF vars, AskedInv
<1>2. CASE RequestDecision
  <2>1. Npc' = Npc /\ Npc \in Npcs
    BY <1>2, TurnType DEF RequestDecision, Npc
  <2>2. pending'[Npc] = Request(Npc) /\ Request(Npc) \in Requests
    BY <1>2, <2>1, RequestType DEF RequestDecision, TypeOK
  <2>3. pending'[Npc].req = counter'
    <3>1. Request(Npc).req = counter + 1
      BY DEF Request
    <3>2. QED
      BY <1>2, <2>2, <3>1 DEF RequestDecision
  <2>4. QED
    BY <1>2, <2>1, <2>2, <2>3, NoneAssumption
<1>3. CASE pc = "ask" /\ ProviderFails
  <2>1. Npc' = Npc /\ pc' = "fallback"
    BY <1>3 DEF ProviderFails, Npc
  <2>2. QED
    BY <1>3, <2>1 DEF ProviderFails, AskedInv
<1>4. ASSUME NEW choice, NEW found, ProviderAnswers(choice, found)
      PROVE  pending'[Npc'] # None /\ pending'[Npc'].req = counter' /\ pc' = "fallback"
  <2> DEFINE r == Local("res", Plan[Npc], choice)
  <2>1. Gate(r, FALSE, found) /\ counter' = counter /\ pc = "ask"
    BY <1>4 DEF ProviderAnswers
  <2>2. ~Accepts(r, FALSE, found) /\ pc' = "fallback" /\ turn' = turn
    BY <1>4, NextNpcType DEF ProviderAnswers
  <2>3. Reject(r, Verdict(r, FALSE, found)) /\ r.npc = Npc /\ Npc' = Npc /\ Npc \in Npcs
    BY <2>1, <2>2, TurnType DEF Gate, Accepts, Local, Npc
  <2>4. /\ pending[Npc] # None /\ pending[Npc].req = counter
        /\ \A n \in Npcs : pending[n] # None => pending[n] \in Requests
    BY <2>1 DEF AskedInv, TypeOK
  <2>5. \/ pending' = pending
        \/ pending' = [pending EXCEPT ![Npc].seen = @ \cup {r.rid}]
    BY <2>3 DEF Reject
  <2>6. pending'[Npc].req = pending[Npc].req /\ pending'[Npc] # None
    <3> DEFINE p == [pending[Npc] EXCEPT !.seen = @ \cup {r.rid}]
    <3>1. IsAnswer(r)
      BY LocalAnswer
    <3>2. p \in Requests /\ p.req = pending[Npc].req
      BY <2>3, <2>4, <3>1 DEF Requests, IsAnswer, Rids
    <3>3. pending'[Npc] = pending[Npc] \/ pending'[Npc] = p
      BY <2>3, <2>5 DEF TypeOK
    <3> HIDE DEF p, r
    <3>4. QED
      BY <2>4, <3>2, <3>3, NoneAssumption
  <2>7. QED
    BY <2>1, <2>2, <2>3, <2>4, <2>6
<1>5. ASSUME \/ BeginTick \/ World \/ DrainResponse \/ DrainFailure \/ Drained
             \/ Expire \/ End \/ SkipDecision \/ HostQueues \/ StepSealed
      PROVE  FALSE
  BY <1>5 DEF BeginTick, World, DrainResponse, DrainFailure, Drained, Expire, End, SkipDecision,
              HostQueues, SubmitResponse, SubmitFailure, StepSealed, Host, LoopOr, vars
<1>6. ASSUME NEW choice, NEW found, FallbackAnswers(choice, found) \/ ProviderDefers(choice)
      PROVE  FALSE
  BY <1>6, NextNpcType DEF FallbackAnswers, ProviderDefers
<1>7. QED
  BY <1>1, <1>2, <1>3, <1>4, <1>5, <1>6 DEF Next, Engine, ProviderFails

LEMMA AskedKeeps ==
  ASSUME LaunchInv, FateInv', [Next]_vars
  PROVE  AskedInv'
<1>1. TypeOK /\ counter \in Nat /\ counter' \in Nat /\ AskedInv
  BY DEF LaunchInv, FateInv, TypeInv, TypeOK
<1>2. /\ counter' \in {counter, counter + 1}
      /\ RequestDecision => counter' = counter + 1
  BY <1>1, StepShape DEF Quiet, Closes, Opens, RequestDecision
<1>3. ASSUME NEW i \in DOMAIN ledger', ProposedAt(i, "provisional")'
      PROVE  /\ ledger'[i].req <= counter
             /\ RequestDecision => ledger'[i].req \in Nat /\ ledger'[i].req <= counter
  <2>1. CASE i \in DOMAIN ledger /\ ledger'[i] = ledger[i]
    <3>1. ProposedAt(i, "provisional") /\ ledger[i] \in Events
      BY <1>1, <1>3, <2>1 DEF ProposedAt, TypeOK
    <3>2. QED
      BY <1>1, <2>1, <3>1 DEF AskedInv, Events
  <2>2. CASE i \notin DOMAIN ledger
    <3>1. CASE LaunchesNothing
      BY <1>3, <2>2, <3>1 DEF LaunchesNothing, Extends, ProposedAt
    <3>2. CASE Bridges
      <4>1. i = Len(ledger) + 1
        BY <2>2, <3>2 DEF Bridges, Extends
      <4>2. ledger'[i].req = counter
        BY <3>2, <4>1 DEF Bridges, Event
      <4>3. QED
        BY <1>1, <4>2
    <3>3. ASSUME NEW n \in Npcs, Decides(n) PROVE FALSE
      <4>1. i = Len(ledger) + 1 \/ i = Len(ledger) + 2
        BY <2>2, <3>3 DEF Decides, Extends
      <4>2. QED
        BY <1>3, <3>3, <4>1 DEF Decides, Event, ProposedAt
    <3>4. QED
      BY <1>1, <3>1, <3>2, <3>3, StepLaunches
  <2>3. i \in DOMAIN ledger => ledger'[i] = ledger[i]
    BY <1>1, StepLaunches DEF LaunchesNothing, Bridges, Decides, Extends
  <2>4. QED
    BY <2>1, <2>2, <2>3
<1>4. \A i \in DOMAIN ledger' : ProposedAt(i, "provisional")' => ledger'[i].req <= counter'
  <2>1. \A i \in DOMAIN ledger' : ledger'[i].req \in Nat
    <3>1. ledger' \in Seq(Events)
      BY DEF FateInv, TypeInv, TypeOK
    <3>2. \A e \in Events : e.req \in Nat
      BY DEF Events
    <3>3. QED
      BY <3>1, <3>2
  <2>2. QED
    BY <1>1, <1>2, <1>3, <2>1
<1>5. ASSUME pc' = "ask"
      PROVE  \A i \in DOMAIN ledger' : ProposedAt(i, "provisional")' => ledger'[i].req # counter'
  <2>1. CASE RequestDecision
    BY <1>1, <1>2, <1>3, <2>1
  <2>2. CASE UNCHANGED vars
    BY <1>1, <1>5, <2>2 DEF vars, AskedInv, ProposedAt
  <2>3. QED
    BY <1>1, <1>5, <2>1, <2>2, StaysAsked
<1>6. pc' \in {"ask", "fallback"} => pending'[Npc'] # None /\ pending'[Npc'].req = counter'
  BY <1>1, StaysAsked
<1>7. QED
  BY <1>4, <1>5, <1>6 DEF AskedInv, ProposedAt

\* A request launches at most one decided action, right after its acceptance, and at
\* most one provisional one, before any: a duplicate or late response never acts twice
\* (engine.ts processDecisionResponse, provisionalFallback).
THEOREM OneLaunch == Spec => []OneLaunchPerRequest
<1>1. Init => AskedInv /\ OneLaunchPerRequest
  <2> SUFFICES ASSUME Init PROVE AskedInv /\ OneLaunchPerRequest
    OBVIOUS
  <2>1. pc = "idle" /\ DOMAIN ledger = {}
    BY DEF Init
  <2>2. QED
    BY <2>1 DEF AskedInv, OneLaunchPerRequest
<1>2. LaunchInv /\ FateInv' /\ [Next]_vars => (AskedInv /\ OneLaunchPerRequest)'
  <2> SUFFICES ASSUME LaunchInv, FateInv', [Next]_vars
               PROVE  AskedInv' /\ OneLaunchPerRequest'
    OBVIOUS
  <2>1. TypeOK /\ OneLaunchPerRequest
    BY DEF LaunchInv, FateInv, TypeInv
  <2>2. OneLaunchPerRequest'
    BY <2>1, StepLaunches, LaunchesNothingKeeps, DecidesKeeps, BridgesKeeps
  <2>3. QED
    BY <2>2, AskedKeeps
<1>3. Spec => [](AskedInv /\ OneLaunchPerRequest)
  BY <1>1, <1>2, FateInvariant, PTL DEF Spec, LaunchInv
<1>4. QED
  BY <1>3, PTL

-----------------------------------------------------------------------------
(* The book that the engine's state stands for                             *)

openBar == [n \in Npcs |-> IF pending[n] = None THEN None ELSE pending[n].req]
fateBar == [req \in 1..counter |-> FateOf(req)]

\* A request's fate is the type of the event that settled it.
FatesRead ==
  /\ \A i \in DOMAIN ledger : SettledAt(i) => FateOf(ledger[i].req) = ledger[i].type
  /\ \A req : ~Settled(req) => FateOf(req) = "Open"

LEMMA FatesAreRead == OneFatePerRequest => FatesRead
<1> SUFFICES ASSUME OneFatePerRequest PROVE FatesRead
  OBVIOUS
<1>1. ASSUME NEW i \in DOMAIN ledger, SettledAt(i)
      PROVE  FateOf(ledger[i].req) = ledger[i].type
  <2> DEFINE settled == {j \in DOMAIN ledger : SettledAt(j) /\ ledger[j].req = ledger[i].req}
  <2>1. settled = {i}
    BY <1>1 DEF OneFatePerRequest
  <2>2. Cardinality(settled) = 1 /\ settled # {}
    BY <2>1, FS_Singleton
  <2>3. (CHOOSE j \in settled : TRUE) = i
    BY <2>1
  <2>4. FateOf(ledger[i].req) =
          IF settled = {} THEN "Open"
          ELSE IF Cardinality(settled) = 1 THEN ledger[CHOOSE j \in settled : TRUE].type
          ELSE "Contradictory"
    BY DEF FateOf
  <2> HIDE DEF settled
  <2>5. QED
    BY <2>2, <2>3, <2>4
<1>2. ASSUME NEW req, ~Settled(req) PROVE FateOf(req) = "Open"
  BY <1>2 DEF Settled, FateOf
<1>3. QED
  BY <1>1, <1>2 DEF FatesRead

\* What the proof of a step may use: the invariant before and after it.
Between == FateInv /\ FateInv' /\ FatesRead /\ FatesRead'

\* A fate once met is kept, and a request still open stays so.
LEMMA FateStays ==
  ASSUME Between, Extends, NEW req, Settled(req) \/ ~Settled(req)'
  PROVE  FateOf(req)' = FateOf(req)
<1>1. CASE Settled(req)
  <2>1. PICK i \in DOMAIN ledger : SettledAt(i) /\ ledger[i].req = req
    BY <1>1 DEF Settled
  <2>2. i \in DOMAIN ledger' /\ ledger'[i] = ledger[i]
    BY <2>1 DEF Extends
  <2>3. FateOf(ledger[i].req) = ledger[i].type
    BY <2>1 DEF Between, FatesRead
  <2>4. ledger'[i].type \in Settlements
    BY <2>1, <2>2 DEF SettledAt
  <2>5. FateOf(ledger[i].req)' = ledger'[i].type
    BY <2>2, <2>4 DEF Between, FatesRead, SettledAt
  <2>6. QED
    BY <2>1, <2>2, <2>3, <2>5
<1>2. CASE ~Settled(req) /\ ~Settled(req)'
  BY <1>2 DEF Between, FatesRead
<1>3. QED
  BY <1>1, <1>2

\* The step settles request q, with one of the fates, and no other.
LEMMA FateIsMet ==
  ASSUME Between, NEW q, NEW fates, SettlesOne(q, fates)
  PROVE  \E how \in fates :
           /\ FateOf(q)' = how
           /\ \A req : req # q => FateOf(req)' = FateOf(req)
<1>1. PICK last \in DOMAIN ledger' :
        /\ last = Len(ledger) + 1
        /\ ledger'[last].req = q /\ ledger'[last].type \in Settlements \cap fates
        /\ \A i \in DOMAIN ledger' : i > last => ledger'[i].type \notin Settlements
  BY DEF SettlesOne, Extends
<1>2. Extends
  BY DEF SettlesOne
<1>3. FateOf(q)' = ledger'[last].type
  BY <1>1 DEF Between, FatesRead, SettledAt
<1>4. ASSUME NEW req, req # q PROVE FateOf(req)' = FateOf(req)
  <2>1. Settled(req)' => Settled(req)
    BY <1>1, <1>2, <1>4 DEF Extends, Settled, SettledAt
  <2>2. QED
    BY <1>2, <2>1, FateStays
<1>5. QED
  BY <1>1, <1>3, <1>4

LEMMA QuietStutters ==
  ASSUME Between, Quiet
  PROVE  UNCHANGED <<openBar, fateBar>>
<1>1. openBar' = openBar
  BY DEF Quiet, SameRequest, openBar
<1>2. ASSUME NEW req \in 1..counter PROVE FateOf(req)' = FateOf(req)
  <2>1. Settled(req)' => Settled(req)
    BY DEF Quiet, SettlesNothing, Extends, Settled, SettledAt
  <2>2. QED
    BY <2>1, FateStays DEF Quiet, SettlesNothing
<1>3. fateBar' = fateBar
  BY <1>2 DEF Quiet, fateBar
<1>4. QED
  BY <1>1, <1>3

\* What the pending request of an NPC looks like in the book.
LEMMA PendingIsOpen ==
  ASSUME FateInv, NEW n \in Npcs
  PROVE  /\ openBar[n] = None <=> pending[n] = None
         /\ pending[n] # None => openBar[n] = pending[n].req /\ openBar[n] \in 1..counter
  BY NoneAssumption DEF FateInv, Issued, openBar, TypeInv, TypeOK

LEMMA ClosesSettles ==
  ASSUME Between, NEW n \in Npcs, Closes(n)
  PROVE  \E how \in {"Accepted", "Expired"} : Book!Settle(n, how)
<1>1. PICK q : q = pending[n].req
  OBVIOUS
<1>2. PICK how \in {"Accepted", "Expired"} :
        /\ FateOf(q)' = how
        /\ \A req : req # q => FateOf(req)' = FateOf(req)
  BY <1>1, FateIsMet DEF Closes
<1>3. openBar[n] = q /\ openBar[n] # None /\ q \in 1..counter
  BY <1>1, PendingIsOpen DEF Between, Closes
<1>4. fateBar' = [fateBar EXCEPT ![openBar[n]] = how]
  BY <1>2, <1>3 DEF Closes, fateBar
<1>5. openBar' = [openBar EXCEPT ![n] = None]
  BY DEF Closes, SameRequest, openBar
<1>6. Book!Settle(n, how)
  BY <1>3, <1>4, <1>5 DEF Book!Settle, openBar, fateBar
<1>7. QED
  BY <1>6

LEMMA FunctionIsSeq ==
  ASSUME NEW S, NEW n \in Nat, NEW f \in [1..n -> S]
  PROVE  f \in Seq(S) /\ Len(f) = n
<1>1. f \in Seq(S)
  OBVIOUS
<1>2. Len(f) \in Nat /\ DOMAIN f = 1..Len(f)
  BY <1>1, LenProperties
<1>3. QED
  BY <1>1, <1>2

LEMMA SeqIsFunction ==
  ASSUME NEW S, NEW s \in Seq(S)
  PROVE  s = [i \in 1..Len(s) |-> s[i]]
  BY LenProperties

FateNames == {"Open", "Contradictory"} \cup Settlements

\* The fates are a sequence as long as the number of requests made.
LEMMA FatesAreASequence ==
  ASSUME FateInv, FatesRead
  PROVE  /\ fateBar \in [1..counter -> FateNames]
         /\ fateBar \in Seq(FateNames) /\ Len(fateBar) = counter
<1>1. counter \in Nat
  BY DEF FateInv, TypeInv, TypeOK
<1>2. ASSUME NEW req \in 1..counter PROVE FateOf(req) \in FateNames
  BY DEF FatesRead, Settled, SettledAt, FateNames
<1>3. fateBar \in [1..counter -> FateNames]
  BY <1>2 DEF fateBar
<1>4. QED
  BY <1>1, <1>3, FunctionIsSeq

LEMMA OpensOpens ==
  ASSUME Between, NEW n \in Npcs, Opens(n)
  PROVE  Book!Open(n)
<1>1. PICK new : new = counter + 1
  OBVIOUS
<1>2. counter \in Nat /\ new \in Nat /\ counter' = new
  BY <1>1 DEF Between, FateInv, TypeInv, TypeOK, Opens
<1>3. /\ fateBar \in [1..counter -> FateNames]
      /\ fateBar \in Seq(FateNames) /\ Len(fateBar) = counter
  BY FatesAreASequence DEF Between
<1>4. openBar' = [openBar EXCEPT ![n] = new]
  BY <1>1 DEF Opens, SameRequest, openBar
<1>5. FateOf(new)' = "Open"
  <2>1. Pends(new)'
    BY <1>1 DEF Opens, Pends
  <2>2. \A req \in 1..counter' : Pends(req)' <=> ~Settled(req)'
    BY DEF Between, FateInv, OneFatePerRequest
  <2>3. ~Settled(new)'
    BY <1>1, <1>2, <2>1, <2>2
  <2>4. QED
    BY <2>3 DEF Between, FatesRead
<1>6. CASE pending[n] = None
  <2>1. ASSUME NEW req \in 1..counter PROVE FateOf(req)' = fateBar[req]
    <3>1. Settled(req)' => Settled(req)
      BY <1>6 DEF Opens, SettlesNothing, Extends, Settled, SettledAt
    <3>2. FateOf(req)' = FateOf(req)
      BY <1>6, <3>1, FateStays DEF Opens, SettlesNothing
    <3>3. QED
      BY <3>2 DEF fateBar
  <2>2. fateBar' = Append(fateBar, "Open")
    BY <1>1, <1>2, <1>3, <1>5, <2>1 DEF fateBar
  <2>3. openBar[n] = None
    BY <1>6 DEF openBar
  <2>4. QED
    BY <1>1, <1>3, <1>4, <2>2, <2>3 DEF Book!Open, openBar, fateBar
<1>7. CASE pending[n] # None
  <2>1. PICK q : q = pending[n].req
    OBVIOUS
  <2>2. openBar[n] = q /\ openBar[n] # None /\ q \in 1..counter
    BY <1>7, <2>1, PendingIsOpen DEF Between
  <2> DEFINE overtaken == [fateBar EXCEPT ![openBar[n]] = "Superseded"]
  <2>3. /\ FateOf(q)' = "Superseded"
        /\ \A req : req # q => FateOf(req)' = FateOf(req)
    BY <1>7, <2>1, FateIsMet DEF Opens
  <2>4. overtaken \in [1..counter -> FateNames]
    BY <1>3, <2>2 DEF FateNames, Settlements
  <2>5. overtaken \in Seq(FateNames) /\ Len(overtaken) = counter
    BY <1>2, <2>4, FunctionIsSeq
  <2>6. ASSUME NEW req \in 1..counter PROVE FateOf(req)' = overtaken[req]
    BY <1>3, <2>2, <2>3 DEF fateBar
  <2>7. fateBar' = Append(overtaken, "Open")
    <3>1. "Open" \in FateNames
      BY DEF FateNames
    <3>2. /\ Append(overtaken, "Open") \in Seq(FateNames)
          /\ Len(Append(overtaken, "Open")) = new
          /\ \A req \in 1..counter : Append(overtaken, "Open")[req] = overtaken[req]
          /\ Append(overtaken, "Open")[new] = "Open"
      BY <1>1, <2>5, <3>1, AppendProperties
    <3> HIDE DEF overtaken
    <3>3. \A req \in 1..new : req \in 1..counter \/ req = new
      BY <1>1, <1>2
    <3>4. \A req \in 1..new : FateOf(req)' = Append(overtaken, "Open")[req]
      BY <1>5, <2>6, <3>2, <3>3
    <3>5. Append(overtaken, "Open") = [req \in 1..new |-> Append(overtaken, "Open")[req]]
      BY <3>2, SeqIsFunction
    <3>6. QED
      BY <1>2, <3>4, <3>5 DEF fateBar
  <2>8. QED
    BY <1>1, <1>3, <1>4, <2>2, <2>7 DEF Book!Open, openBar, fateBar
<1>8. QED
  BY <1>6, <1>7

-----------------------------------------------------------------------------
\* The lifecycle implements the book: at most one request of an NPC is open at
\* any time, a new one overtakes it, and what has met its fate is never opened
\* again or told another one, for any NPCs, providers, answers and timing
\* constants (engine.ts, the decision lifecycle).
THEOREM Refinement == Spec => ImplementsRequestBook
<1>1. Init => Book!Init
  <2> SUFFICES ASSUME Init PROVE Book!Init
    OBVIOUS
  <2>1. pending = [n \in Npcs |-> None] /\ counter = 0
    BY DEF Init
  <2>2. openBar = [n \in Npcs |-> None]
    BY <2>1 DEF openBar
  <2>3. 1..counter = {}
    BY <2>1
  <2>4. fateBar = <<>>
    BY <2>3 DEF fateBar
  <2>5. QED
    BY <2>2, <2>4 DEF Book!Init, openBar, fateBar
<1>2. Between /\ [Next]_vars => [Book!Next]_(Book!book)
  <2> SUFFICES ASSUME Between, [Next]_vars PROVE [Book!Next]_(Book!book)
    OBVIOUS
  <2>1. CASE Quiet
    BY <2>1, QuietStutters DEF Book!book, openBar, fateBar
  <2>2. ASSUME NEW n \in Npcs, Closes(n) PROVE Book!Next
    BY <2>2, ClosesSettles DEF Book!Next
  <2>3. ASSUME NEW n \in Npcs, Opens(n) PROVE Book!Next
    BY <2>3, OpensOpens DEF Book!Next
  <2>4. QED
    BY <2>1, <2>2, <2>3, StepShape DEF Between, FateInv, TypeInv
<1>3. FateInv => FatesRead
  BY FatesAreRead DEF FateInv
<1>4. FateInv /\ FateInv' /\ FatesRead /\ FatesRead' => Between
  BY DEF Between
<1>5. QED
  BY <1>1, <1>2, <1>3, <1>4, FateInvariant, PTL DEF Spec, ImplementsRequestBook, Book!Spec

-----------------------------------------------------------------------------
(* What a late answer is told.  The registry is pruned as it grows, the    *)
(* projection once at its end; both come to the same, and a settlement     *)
(* adds one entry to both.                                                 *)

SettledIn(l, k) == {i \in 1..k : l[i].type \in Settlements}
NthIn(l, k, n) == TheOne({l[i] : i \in {j \in SettledIn(l, k) : Cardinality(SettledIn(l, j)) = n}})
History(l, k) == [n \in 1..Cardinality(SettledIn(l, k)) |-> Resolution(NthIn(l, k, n))]

LEMMA RebuiltIs ==
  ASSUME NEW k
  PROVE  /\ Rebuilt(k) = Keep(History(ledger, k))
         /\ Rebuilt(k)' = Keep(History(ledger', k))
BY DEF Rebuilt, History, NthSettlement, NthIn, SettledBy, SettledIn, SettledAt

LEMMA SettledIsFinite ==
  ASSUME NEW l, NEW k \in Nat
  PROVE  /\ IsFiniteSet(SettledIn(l, k)) /\ Cardinality(SettledIn(l, k)) \in Nat
         /\ \A j \in 0..k : /\ SettledIn(l, j) \subseteq SettledIn(l, k)
                            /\ Cardinality(SettledIn(l, j)) <= Cardinality(SettledIn(l, k))
<1>1. IsFiniteSet(1..k) /\ SettledIn(l, k) \in SUBSET (1..k)
  BY FS_Interval DEF SettledIn
<1>2. IsFiniteSet(SettledIn(l, k)) /\ Cardinality(SettledIn(l, k)) \in Nat
  BY <1>1, FS_Subset, FS_CardinalityType
<1>3. ASSUME NEW j \in 0..k PROVE SettledIn(l, j) \in SUBSET SettledIn(l, k)
  BY DEF SettledIn
<1>4. QED
  BY <1>2, <1>3, FS_Subset

\* What is not a settlement leaves no trace in the history.
LEMMA SameHistory ==
  ASSUME NEW l, NEW m, NEW k \in Nat, NEW j \in Nat, k <= j,
         \A i \in 1..k : m[i] = l[i],
         \A i \in 1..j : i > k => m[i].type \notin Settlements
  PROVE  History(m, j) = History(l, k)
<1>1. ASSUME NEW i \in 0..k PROVE SettledIn(m, i) = SettledIn(l, i)
  BY DEF SettledIn
<1>2. SettledIn(m, j) = SettledIn(l, k)
  BY DEF SettledIn
<1>3. ASSUME NEW n PROVE NthIn(m, j, n) = NthIn(l, k, n)
  <2> DEFINE A == {i \in SettledIn(m, j) : Cardinality(SettledIn(m, i)) = n}
             B == {i \in SettledIn(l, k) : Cardinality(SettledIn(l, i)) = n}
  <2>1. SettledIn(l, k) \subseteq 1..k
    BY DEF SettledIn
  <2>2. A = B /\ B \subseteq 1..k
    BY <1>1, <1>2, <2>1
  <2>3. NthIn(m, j, n) = TheOne({m[i] : i \in A}) /\ NthIn(l, k, n) = TheOne({l[i] : i \in B})
    BY DEF NthIn
  <2> HIDE DEF A, B
  <2>4. {m[i] : i \in A} = {l[i] : i \in B}
    BY <2>2
  <2>5. QED
    BY <2>3, <2>4
<1>4. QED
  BY <1>2, <1>3 DEF History

LEMMA FunctionAppends ==
  ASSUME NEW n \in Nat, NEW f, NEW g,
         f = [i \in 1..n |-> f[i]], g = [i \in 1..(n + 1) |-> g[i]],
         \A i \in 1..n : g[i] = f[i]
  PROVE  \E S : f \in Seq(S) /\ Len(f) = n /\ g[n + 1] \in S /\ g = Append(f, g[n + 1])
<1> DEFINE S == {g[i] : i \in 1..(n + 1)}
           x == g[n + 1]
<1>1. x \in S /\ g \in [1..(n + 1) -> S] /\ f \in [1..n -> S]
  <2>1. n + 1 \in 1..(n + 1) /\ 1..n \subseteq 1..(n + 1)
    OBVIOUS
  <2>2. \A i \in 1..(n + 1) : g[i] \in S
    OBVIOUS
  <2> HIDE DEF S
  <2>3. QED
    BY <2>1, <2>2
<1> HIDE DEF S, x
<1>2. f \in Seq(S) /\ Len(f) = n /\ g \in Seq(S) /\ Len(g) = n + 1
  BY <1>1, FunctionIsSeq
<1>3. /\ Append(f, x) \in Seq(S) /\ Len(Append(f, x)) = n + 1
      /\ \A i \in 1..n : Append(f, x)[i] = f[i]
      /\ Append(f, x)[n + 1] = x
  BY <1>1, <1>2
<1> DEFINE h == Append(f, x)
<1>4. \A i \in 1..(n + 1) : g[i] = h[i]
  <2> SUFFICES ASSUME NEW i \in 1..(n + 1) PROVE g[i] = h[i]
    OBVIOUS
  <2>1. h[n + 1] = x /\ x = g[n + 1]
    BY <1>3 DEF x
  <2>2. (i \in 1..n) => h[i] = f[i] /\ g[i] = f[i]
    BY <1>3
  <2>3. i \in 1..n \/ i = n + 1
    OBVIOUS
  <2> HIDE DEF h
  <2>4. QED
    BY <2>1, <2>2, <2>3
<1> HIDE DEF h
<1>5. g = h
  BY <1>2, <1>3, <1>4, SeqEqual DEF h
<1>6. QED
  BY <1>1, <1>2, <1>5 DEF h, x

\* A settlement is the next entry of the history.
LEMMA HistoryGrows ==
  ASSUME NEW l, NEW k \in Nat, l[k + 1].type \in Settlements
  PROVE  \E S : /\ History(l, k) \in Seq(S) /\ Resolution(l[k + 1]) \in S
                /\ History(l, k + 1) = Append(History(l, k), Resolution(l[k + 1]))
<1> DEFINE N == Cardinality(SettledIn(l, k))
           f == History(l, k)
           g == History(l, k + 1)
<1>1. /\ IsFiniteSet(SettledIn(l, k)) /\ N \in Nat
      /\ \A j \in 0..k : Cardinality(SettledIn(l, j)) <= N
  BY SettledIsFinite
<1>2. SettledIn(l, k + 1) = SettledIn(l, k) \cup {k + 1} /\ k + 1 \notin SettledIn(l, k)
      /\ SettledIn(l, k) \subseteq 1..k
  BY DEF SettledIn
<1>3. Cardinality(SettledIn(l, k + 1)) = N + 1
  BY <1>1, <1>2, FS_AddElement
<1>4. f = [n \in 1..N |-> f[n]] /\ g = [n \in 1..(N + 1) |-> g[n]]
  BY <1>3 DEF History
<1>5. ASSUME NEW n \in 1..N PROVE g[n] = f[n]
  <2>1. {j \in SettledIn(l, k + 1) : Cardinality(SettledIn(l, j)) = n}
          = {j \in SettledIn(l, k) : Cardinality(SettledIn(l, j)) = n}
    BY <1>1, <1>2, <1>3
  <2>2. NthIn(l, k + 1, n) = NthIn(l, k, n)
    BY <2>1 DEF NthIn
  <2>3. n \in 1..(N + 1)
    BY <1>1
  <2>4. QED
    BY <1>3, <2>2, <2>3 DEF History
<1>6. g[N + 1] = Resolution(l[k + 1])
  <2> DEFINE A == {j \in SettledIn(l, k + 1) : Cardinality(SettledIn(l, j)) = N + 1}
  <2>1. A = {k + 1}
    BY <1>1, <1>2, <1>3
  <2>2. NthIn(l, k + 1, N + 1) = TheOne({l[i] : i \in A})
    BY DEF NthIn
  <2> HIDE DEF A
  <2>3. {l[i] : i \in A} = {l[k + 1]}
    BY <2>1
  <2>4. NthIn(l, k + 1, N + 1) = l[k + 1]
    BY <2>2, <2>3 DEF TheOne
  <2>5. N + 1 \in 1..(N + 1)
    BY <1>1
  <2>6. QED
    BY <1>3, <2>4, <2>5 DEF History
<1> HIDE DEF N, f, g
<1>7. PICK S : f \in Seq(S) /\ Len(f) = N /\ g[N + 1] \in S /\ g = Append(f, g[N + 1])
  BY <1>1, <1>4, <1>5, FunctionAppends
<1>8. QED
  BY <1>6, <1>7 DEF f, g

-----------------------------------------------------------------------------
(* Pruning                                                                 *)

\* What is kept is what was there last, in its order.
LEMMA KeptEntries ==
  ASSUME NEW S, NEW s \in Seq(S)
  PROVE  \E d \in Nat : \A i \in DOMAIN Keep(s) : i + d \in DOMAIN s /\ Keep(s)[i] = s[i + d]
<1>1. CASE Len(s) <= Retention
  <2>1. Keep(s) = s
    BY <1>1, NumberAssumption DEF Keep
  <2>2. \A i \in DOMAIN s : i + 0 = i
    OBVIOUS
  <2>3. QED
    BY <2>1, <2>2
<1>2. CASE Len(s) > Retention
  <2> DEFINE d == Len(s) - Retention
  <2>1. d \in Nat /\ Len(s) \in Nat /\ d + 1 \in 1..Len(s)
    BY <1>2, NumberAssumption
  <2>2. Keep(s) = SubSeq(s, d + 1, Len(s))
    BY <1>2 DEF Keep
  <2>3. /\ Len(SubSeq(s, d + 1, Len(s))) = Retention
        /\ DOMAIN SubSeq(s, d + 1, Len(s)) = 1..Retention
        /\ \A i \in 1..Retention : SubSeq(s, d + 1, Len(s))[i] = s[d + i]
    BY <2>1, NumberAssumption
  <2>4. \A i \in 1..Retention : i + d \in DOMAIN s /\ i + d = d + i
    BY <2>1, NumberAssumption
  <2>5. QED
    BY <2>1, <2>2, <2>3, <2>4
<1>3. Len(s) \in Nat /\ Retention \in Nat
  BY NumberAssumption
<1>4. QED
  BY <1>1, <1>2, <1>3

\* Pruning at every step comes to the same as pruning at the end.
LEMMA KeepOnce ==
  ASSUME NEW S, NEW s \in Seq(S), NEW x \in S
  PROVE  Keep(Append(Keep(s), x)) = Keep(Append(s, x))
<1>1. Len(s) \in Nat /\ Retention \in Nat /\ Retention > 0
  BY NumberAssumption
<1>2. CASE Len(s) <= Retention
  BY <1>1, <1>2 DEF Keep
<1>3. CASE Len(s) > Retention
  <2> DEFINE d == Len(s) - Retention
             t == SubSeq(s, d + 1, Len(s))
             u == SubSeq(Append(t, x), 2, Retention + 1)
             v == SubSeq(Append(s, x), d + 2, Len(s) + 1)
  <2>1. d \in Nat /\ d + Retention = Len(s) /\ d + 1 \in 1..Len(s)
    BY <1>1, <1>3
  <2>2. Keep(s) = t
    BY <1>3 DEF Keep
  <2>3. /\ t \in Seq(S) /\ Len(t) = Retention
        /\ \A i \in 1..Retention : t[i] = s[d + i]
    BY <1>1, <2>1
  <2> HIDE DEF t
  <2>4. /\ Append(t, x) \in Seq(S) /\ Len(Append(t, x)) = Retention + 1
        /\ \A i \in 1..Retention : Append(t, x)[i] = s[d + i]
        /\ Append(t, x)[Retention + 1] = x
    BY <1>1, <2>3
  <2>5. /\ Append(s, x) \in Seq(S) /\ Len(Append(s, x)) = Len(s) + 1
        /\ \A i \in 1..Len(s) : Append(s, x)[i] = s[i]
        /\ Append(s, x)[Len(s) + 1] = x
    BY <1>1
  <2>6. Keep(Append(t, x)) = u
    BY <1>1, <2>4 DEF Keep
  <2>7. Keep(Append(s, x)) = v
    <3>1. Len(s) + 1 > Retention /\ Len(s) + 1 - Retention + 1 = d + 2
      BY <1>1, <1>3
    <3>2. PICK z : z = Append(s, x)
      OBVIOUS
    <3>3. Len(z) = Len(s) + 1 /\ Len(z) > Retention
      BY <2>5, <3>1, <3>2
    <3>4. Keep(z) = SubSeq(z, Len(z) - Retention + 1, Len(z))
      BY <3>3 DEF Keep
    <3>5. Len(z) - Retention + 1 = d + 2
      BY <1>1, <3>3
    <3>6. QED
      BY <3>2, <3>3, <3>4, <3>5
  <2>8. /\ u \in Seq(S) /\ Len(u) = Retention
        /\ \A i \in 1..Retention : u[i] = Append(t, x)[i + 1]
    BY <1>1, <2>4
  <2>9. /\ v \in Seq(S) /\ Len(v) = Retention
        /\ \A i \in 1..Retention : v[i] = Append(s, x)[d + i + 1]
    BY <1>1, <2>1, <2>5
  <2>10. ASSUME NEW i \in 1..Retention PROVE u[i] = v[i]
    <3>1. CASE i < Retention
      <4>1. i + 1 \in 1..Retention /\ d + i + 1 \in 1..Len(s) /\ d + (i + 1) = d + i + 1
        BY <1>1, <2>1, <3>1
      <4>2. Append(t, x)[i + 1] = s[d + (i + 1)] /\ Append(s, x)[d + i + 1] = s[d + i + 1]
        BY <2>4, <2>5, <4>1
      <4>3. u[i] = Append(t, x)[i + 1] /\ v[i] = Append(s, x)[d + i + 1]
        BY <2>8, <2>9
      <4>4. QED
        BY <4>1, <4>2, <4>3
    <3>2. CASE i = Retention
      <4>1. d + i + 1 = Len(s) + 1
        BY <1>1, <2>1, <3>2
      <4>2. QED
        BY <2>4, <2>5, <2>8, <2>9, <3>2, <4>1
    <3>3. i < Retention \/ i = Retention
      BY <1>1
    <3>4. QED
      BY <3>1, <3>2, <3>3
  <2> HIDE DEF u, v
  <2>11. u = v
    BY <1>1, <2>8, <2>9, <2>10, SeqEqual
  <2>12. QED
    BY <2>2, <2>6, <2>7, <2>11
<1>4. QED
  BY <1>1, <1>2, <1>3

-----------------------------------------------------------------------------
(* What a step does to the registry.  The invariant says besides that the  *)
(* registry holds settled requests only, each once: otherwise a request    *)
(* might be there as expired and as superseded, and the answer would tell  *)
(* only one of the two.                                                    *)

Memory ==
  /\ \A i \in DOMAIN registry : Settled(registry[i].req)
  /\ \A i, j \in DOMAIN registry : registry[i].req = registry[j].req => i = j

MemoryInv == Memory /\ RegistryTellsTheTruth

\* A step that settles nothing leaves the registry alone, and whom it turns
\* away it tells what the registry says.
ForgetsNothing ==
  /\ SettlesNothing /\ registry' = registry
  /\ \A i \in DOMAIN ledger' : i > Len(ledger) /\ ledger'[i].type = "Rejected" =>
       i = Len(ledger) + 1 /\ ledger'[i].note = LateReason(ledger'[i].req)

\* One that settles a pending request records how.
Records(n, how) ==
  /\ pending[n] # None /\ SettlesOne(pending[n].req, {how})
  /\ registry' = Record(pending[n].req, how)
  /\ \A i \in DOMAIN ledger' : i > Len(ledger) => ledger'[i].type # "Rejected"

LEMMA SilenceForgetsNothing ==
  ASSUME TypeOK, ledger' = ledger, registry' = registry
  PROVE  ForgetsNothing
<1>1. \A i \in DOMAIN ledger' : ~(i > Len(ledger))
  BY DEF TypeOK
<1>2. SettlesNothing
  BY DEF TypeOK, SettlesNothing, Extends
<1>3. QED
  BY <1>1, <1>2 DEF ForgetsNothing

LEMMA OneMoreEvent ==
  ASSUME TypeOK, NEW e, ledger' = Append(ledger, e)
  PROVE  /\ Len(ledger) \in Nat
         /\ DOMAIN ledger' = 1..(Len(ledger) + 1) /\ ledger'[Len(ledger) + 1] = e
BY DEF TypeOK

LEMMA SettleRecords ==
  ASSUME TypeOK, NEW n \in Npcs, pending[n] # None, NEW how \in Settlements, NEW note,
         registry' = Record(pending[n].req, how),
         ledger' = Append(ledger, Event(how, pending[n].req, note))
  PROVE  Records(n, how)
<1> DEFINE e == Event(how, pending[n].req, note)
<1>1. e.type \in Settlements \cap {how} /\ e.req = pending[n].req /\ e.type # "Rejected"
  BY DEF Event, Settlements
<1> HIDE DEF e
<1>2. SettlesOne(pending[n].req, {how})
  BY <1>1, AppendOne DEF e
<1>3. \A i \in DOMAIN ledger' : i > Len(ledger) => ledger'[i] = e
  BY OneMoreEvent DEF e
<1>4. QED
  BY <1>1, <1>2, <1>3 DEF Records

LEMMA GateRecords ==
  ASSUME TypeOK, NEW r, IsAnswer(r), NEW usedFallback, NEW found,
         Gate(r, usedFallback, found)
  PROVE  ForgetsNothing \/ Records(r.npc, "Accepted")
<1> DEFINE n == r.npc
           v == Verdict(r, usedFallback, found)
<1>1. n \in Npcs /\ "Accepted" \in Settlements
  BY DEF IsAnswer, Settlements
<1>2. CASE v = "accepted"
  <2>1. Accept(r) /\ Current(r)
    BY <1>2, AcceptedIsOffered DEF Gate, Accepts
  <2>2. pending[n] # None /\ pending[n].req = r.req /\ registry' = Record(r.req, "Accepted")
    BY <2>1 DEF Current, Accept
  <2>3. CASE r.choice = Continue
    <3>1. ledger' = Append(ledger, Event("Accepted", pending[n].req, "continue"))
      BY <2>1, <2>2, <2>3 DEF Accept
    <3>2. QED
      BY <1>1, <2>2, <3>1, SettleRecords
  <2>4. CASE r.choice # Continue
    <3> DEFINE d == Event("Accepted", r.req, "launch")
               e == Event("Proposed", r.req, "decided")
    <3>1. /\ d.type \in Settlements \cap {"Accepted"} /\ d.req = r.req /\ d.type # "Rejected"
          /\ e.type \notin Settlements /\ e.type # "Rejected"
      BY DEF Event, Settlements
    <3>2. ledger' = ledger \o <<d, e>>
      BY <2>1, <2>4 DEF Accept
    <3>3. ledger \in Seq(Events) /\ Len(ledger) \in Nat
      BY DEF TypeOK
    <3> HIDE DEF d, e
    <3>4. SettlesOne(r.req, {"Accepted"})
      BY <3>1, <3>2, AppendTwo
    <3>5. \A i \in DOMAIN ledger' : i > Len(ledger) => ledger'[i] = d \/ ledger'[i] = e
      <4>1. /\ DOMAIN ledger' = 1..(Len(ledger) + 2)
            /\ ledger'[Len(ledger) + 1] = d /\ ledger'[Len(ledger) + 2] = e
        BY <3>2, <3>3
      <4>2. QED
        BY <3>3, <4>1
    <3>6. QED
      BY <2>2, <3>1, <3>4, <3>5 DEF Records
  <2>5. QED
    BY <2>3, <2>4
<1>3. CASE v # "accepted"
  <2>1. Reject(r, v)
    BY <1>3 DEF Gate
  <2>2. CASE Current(r)
    BY <2>1, <2>2, SilenceForgetsNothing DEF Reject
  <2>3. CASE ~Current(r)
    <3> DEFINE e == Event("Rejected", r.req, v)
    <3>1. registry' = registry /\ ledger' = Append(ledger, e)
      BY <2>1, <2>3 DEF Reject
    <3>2. e.type \notin Settlements /\ e.note = LateReason(e.req)
      BY <2>3, RejectReason DEF Event, Settlements
    <3> HIDE DEF e
    <3>3. SettlesNothing
      BY <3>1, <3>2, AppendNothing
    <3>4. \A i \in DOMAIN ledger' : i > Len(ledger) => i = Len(ledger) + 1 /\ ledger'[i] = e
      BY <3>1, OneMoreEvent
    <3>5. QED
      BY <3>1, <3>2, <3>3, <3>4 DEF ForgetsNothing
  <2>4. QED
    BY <2>2, <2>3
<1>4. QED
  BY <1>2, <1>3

\* Every step either settles nothing, and tells the truth, or records what it settles.
LEMMA StepRecords ==
  ASSUME TypeOK, [Next]_vars
  PROVE  ForgetsNothing \/ \E n \in Npcs, how \in Settlements : Records(n, how)
<1>0. {"Accepted", "Expired", "Superseded"} \subseteq Settlements
  BY DEF Settlements
<1>1. CASE BeginTick \/ World \/ Drained \/ SkipDecision \/ ProviderFails \/ HostQueues
           \/ StepSealed \/ UNCHANGED vars
  BY <1>1, SilenceForgetsNothing
  DEF BeginTick, World, Drained, SkipDecision, ProviderFails, HostQueues, SubmitResponse,
      SubmitFailure, StepSealed, vars
<1>2. CASE DrainResponse
  <2>1. PICK found \in Findings : Gate(Head(inbox), FALSE, found)
    BY <1>2 DEF DrainResponse
  <2>2. IsAnswer(Head(inbox))
    BY <1>2, InboxAnswer DEF DrainResponse
  <2>3. QED
    BY <1>0, <2>1, <2>2, GateRecords DEF IsAnswer
<1>3. CASE DrainFailure
  <2> DEFINE f == Head(failbox)
  <2>1. f \in Failures
    BY <1>3 DEF DrainFailure, TypeOK
  <2>2. CASE Matches(f)
    <3>1. f.npc \in Npcs /\ pending[f.npc] # None /\ f.req = pending[f.npc].req
      BY <2>1, <2>2 DEF Matches, Failures
    <3>2. /\ registry' = Record(pending[f.npc].req, "Expired")
          /\ ledger' = Append(ledger, Event("Expired", pending[f.npc].req, "external-failure"))
      BY <1>3, <2>2, <3>1 DEF DrainFailure, RecordFailure
    <3>3. QED
      BY <1>0, <3>1, <3>2, SettleRecords
  <2>3. CASE ~Matches(f)
    BY <1>3, <2>3, SilenceForgetsNothing DEF DrainFailure
  <2>4. QED
    BY <2>2, <2>3
<1>4. CASE Expire \/ End
  <2>1. Npc \in Npcs
    BY TurnType
  <2>2. \/ registry' = registry /\ ledger' = ledger
        \/ /\ pending[Npc] # None
           /\ \E note : Settle(Npc, note)
    BY <1>4 DEF Expire, End, Overdue
  <2>3. QED
    BY <1>0, <2>1, <2>2, SilenceForgetsNothing, SettleRecords DEF Settle
<1>5. CASE RequestDecision
  <2>1. Npc \in Npcs
    BY TurnType
  <2>2. \/ registry' = registry /\ ledger' = ledger
        \/ /\ pending[Npc] # None
           /\ registry' = Record(pending[Npc].req, "Superseded")
           /\ ledger' = Append(ledger, Event("Superseded", pending[Npc].req, ""))
    BY <1>5 DEF RequestDecision, Supersedes
  <2>3. QED
    BY <1>0, <2>1, <2>2, SilenceForgetsNothing, SettleRecords
<1>6. ASSUME NEW choice, NEW found, ProviderAnswers(choice, found)
      PROVE  ForgetsNothing \/ \E n \in Npcs, how \in Settlements : Records(n, how)
  <2> DEFINE r == Local("res", Plan[Npc], choice)
  <2>1. Gate(r, FALSE, found)
    BY <1>6 DEF ProviderAnswers
  <2>2. QED
    BY <1>0, <2>1, LocalAnswer, GateRecords DEF IsAnswer
<1>7. ASSUME NEW choice, NEW found, FallbackAnswers(choice, found)
      PROVE  ForgetsNothing \/ \E n \in Npcs, how \in Settlements : Records(n, how)
  <2> DEFINE r == Local("res-fb", Fallback, choice)
  <2>1. Gate(r, TRUE, found)
    BY <1>7 DEF FallbackAnswers
  <2>2. QED
    BY <1>0, <2>1, LocalAnswer, GateRecords DEF IsAnswer
<1>8. ASSUME NEW choice \in Offer, ProviderDefers(choice) PROVE ForgetsNothing
  <2> DEFINE e == Event("Proposed", counter, "provisional")
  <2>1. registry' = registry /\ (ledger' = ledger \/ ledger' = Append(ledger, e))
    BY <1>8 DEF ProviderDefers
  <2>2. e.type \notin Settlements /\ e.type # "Rejected"
    BY DEF Event, Settlements
  <2> HIDE DEF e
  <2>3. CASE ledger' = Append(ledger, e)
    <3>1. \A i \in DOMAIN ledger' : i > Len(ledger) => ledger'[i] = e
      BY <2>3, OneMoreEvent
    <3>2. QED
      BY <2>1, <2>2, <2>3, <3>1, AppendNothing DEF ForgetsNothing
  <2>4. QED
    BY <2>1, <2>3, SilenceForgetsNothing
<1>9. QED
  BY <1>1, <1>2, <1>3, <1>4, <1>5, <1>6, <1>7, <1>8 DEF Next, Engine

-----------------------------------------------------------------------------
(* The registry is the projection, and the reasons given are true.         *)

\* What was the projection before an event is still so after it.
LEMMA PastStays ==
  ASSUME Extends, NEW k \in 0..Len(ledger)
  PROVE  History(ledger', k) = History(ledger, k) /\ Rebuilt(k)' = Rebuilt(k)
<1>1. k \in Nat /\ k <= k /\ \A i \in 1..k : ledger'[i] = ledger[i] /\ ~(i > k)
  BY DEF Extends
<1>2. History(ledger', k) = History(ledger, k)
  BY <1>1, SameHistory
<1>3. QED
  BY <1>2, RebuiltIs

LEMMA ProjectionKept ==
  ASSUME TypeOK, RegistryIsProjection, [Next]_vars
  PROVE  RegistryIsProjection'
<1> DEFINE L == Len(ledger)
           M == Len(ledger')
<1>1. registry = Keep(History(ledger, L))
  BY RebuiltIs DEF RegistryIsProjection
<1>2. CASE ForgetsNothing
  <2>1. /\ L \in Nat /\ M \in Nat /\ L <= M
        /\ \A i \in 1..L : ledger'[i] = ledger[i]
        /\ \A i \in 1..M : i > L => ledger'[i].type \notin Settlements
    BY <1>2 DEF ForgetsNothing, SettlesNothing, Extends
  <2>2. History(ledger', M) = History(ledger, L)
    BY <2>1, SameHistory
  <2>3. registry' = Keep(History(ledger', M))
    BY <1>1, <1>2, <2>2 DEF ForgetsNothing
  <2>4. QED
    BY <2>3, RebuiltIs DEF RegistryIsProjection
<1>3. ASSUME NEW n \in Npcs, NEW how \in Settlements, Records(n, how)
      PROVE  RegistryIsProjection'
  <2> DEFINE x == [req |-> pending[n].req, how |-> how]
  <2>1. /\ L \in Nat /\ M \in Nat /\ L + 1 <= M
        /\ \A i \in 1..L : ledger'[i] = ledger[i]
        /\ ledger'[L + 1].type \in Settlements
        /\ \A i \in 1..M : i > L + 1 => ledger'[i].type \notin Settlements
    BY <1>3 DEF Records, SettlesOne, Extends
  <2>2. Resolution(ledger'[L + 1]) = x
    BY <1>3 DEF Records, SettlesOne, Resolution
  <2>3. registry' = Keep(Append(registry, x))
    BY <1>3 DEF Records, Record
  <2> HIDE DEF x
  <2>4. History(ledger', M) = History(ledger', L + 1)
    BY <2>1, SameHistory
  <2>5. PICK S : /\ History(ledger', L) \in Seq(S) /\ x \in S
                 /\ History(ledger', L + 1) = Append(History(ledger', L), x)
    BY <2>1, <2>2, HistoryGrows
  <2>6. History(ledger', L) = History(ledger, L)
    BY <1>3, <2>1, PastStays DEF Records, SettlesOne
  <2>7. Keep(Append(Keep(History(ledger, L)), x)) = Keep(Append(History(ledger, L), x))
    BY <2>5, <2>6, KeepOnce
  <2>8. registry' = Keep(History(ledger', M))
    BY <1>1, <2>3, <2>4, <2>5, <2>6, <2>7
  <2>9. QED
    BY <2>8, RebuiltIs DEF RegistryIsProjection
<1>4. QED
  BY <1>2, <1>3, StepRecords

LEMMA SameOffset ==
  ASSUME NEW d \in Nat, NEW i \in Int, NEW j \in Int, i + d = j + d
  PROVE  i = j
OBVIOUS

LEMMA MemoryKept ==
  ASSUME FateInv, Memory, [Next]_vars
  PROVE  Memory'
<1>1. TypeOK
  BY DEF FateInv, TypeInv
<1> DEFINE Over(req) == \E i \in DOMAIN ledger' : ledger'[i].type \in Settlements /\ ledger'[i].req = req
<1>2. ASSUME Extends, NEW req, Settled(req) PROVE Over(req)
  BY <1>2 DEF Extends, Settled, SettledAt
<1>3. CASE ForgetsNothing
  <2>1. Extends /\ registry' = registry
    BY <1>3 DEF ForgetsNothing, SettlesNothing
  <2>2. \A i \in DOMAIN registry : Over(registry[i].req)
    BY <1>2, <2>1 DEF Memory
  <2>3. QED
    BY <2>1, <2>2 DEF Memory, Settled, SettledAt
<1>4. ASSUME NEW n \in Npcs, NEW how \in Settlements, Records(n, how) PROVE Memory'
  <2> DEFINE q == pending[n].req
             x == [req |-> q, how |-> how]
             s == Append(registry, x)
             Entries == [req : Nat, how : Settlements]
  <2>1. Extends /\ Over(q)
    <3>1. /\ Extends /\ Len(ledger) + 1 \in DOMAIN ledger'
          /\ ledger'[Len(ledger) + 1].type \in Settlements
          /\ ledger'[Len(ledger) + 1].req = q
      BY <1>4 DEF Records, SettlesOne, Extends
    <3>2. QED
      BY <3>1
  <2>2. ~Settled(q) /\ q \in Nat
    <3>1. q \in 1..counter /\ Pends(q)
      BY <1>4 DEF FateInv, Issued, Records, Pends
    <3>2. QED
      BY <1>1, <3>1 DEF FateInv, OneFatePerRequest, TypeOK
  <2>3. registry \in Seq(Entries) /\ x \in Entries
    BY <1>1, <2>2 DEF TypeOK
  <2>4. x.req = q
    OBVIOUS
  <2> HIDE DEF x, Entries
  <2>5. /\ s \in Seq(Entries) /\ DOMAIN s = 1..(Len(registry) + 1) /\ Len(registry) \in Nat
        /\ DOMAIN registry = 1..Len(registry)
        /\ \A i \in DOMAIN registry : s[i] = registry[i]
        /\ s[Len(registry) + 1] = x
    BY <2>3
  <2> HIDE DEF s, q, Over
  <2>6. \A i \in DOMAIN s : Over(s[i].req)
    BY <1>2, <2>1, <2>4, <2>5 DEF Memory
  <2>7. \A i, j \in DOMAIN s : s[i].req = s[j].req => i = j
    <3> SUFFICES ASSUME NEW i \in DOMAIN s, NEW j \in DOMAIN s, s[i].req = s[j].req PROVE i = j
      OBVIOUS
    <3>1. ASSUME NEW k \in DOMAIN registry PROVE s[k].req = registry[k].req /\ s[k].req # q
      BY <2>2, <2>5 DEF Memory
    <3>2. \A k \in DOMAIN s : k \in DOMAIN registry \/ (k = Len(registry) + 1 /\ s[k].req = q)
      BY <2>4, <2>5
    <3>3. QED
      BY <3>1, <3>2 DEF Memory
  <2>8. registry' = Keep(s)
    BY <1>4 DEF Records, Record, s, x, q
  <2>9. PICK d \in Nat : \A i \in DOMAIN Keep(s) : i + d \in DOMAIN s /\ Keep(s)[i] = s[i + d]
    BY <2>5, KeptEntries
  <2>10. Keep(s) \in Seq(Entries)
    BY <2>5, KeepType
  <2>11. DOMAIN Keep(s) \subseteq Int
    BY <2>10
  <2>12. \A i \in DOMAIN registry' : Over(registry'[i].req)
    BY <2>6, <2>8, <2>9
  <2>13. ASSUME NEW i \in DOMAIN registry', NEW j \in DOMAIN registry',
                registry'[i].req = registry'[j].req
         PROVE  i = j
    <3>1. i \in Int /\ j \in Int
      BY <2>8, <2>11
    <3>2. i + d = j + d
      BY <2>7, <2>8, <2>9, <2>13
    <3>3. QED
      BY <3>1, <3>2, SameOffset
  <2>14. QED
    BY <2>12, <2>13 DEF Memory, Settled, SettledAt, Over
<1>5. QED
  BY <1>1, <1>3, <1>4, StepRecords

\* What a request came to, as the registry tells it, is one thing.
LEMMA OneResolution ==
  ASSUME Memory, NEW req, NEW a \in Resolutions(req), NEW b \in Resolutions(req)
  PROVE  a = b
BY DEF Memory, Resolutions

LEMMA TruthKept ==
  ASSUME TypeOK, Memory, RegistryTellsTheTruth, [Next]_vars
  PROVE  LateReasonIsTrue'
<1> DEFINE How(s, req) == {s[j].how : j \in {k \in DOMAIN s : s[k].req = req}}
           True(note, how) == /\ note = "superseded-request" <=> "Superseded" \in how
                              /\ note = "unknown-request" => "Expired" \notin how
                              /\ "Expired" \in how => note = "response-expired"
<1>1. ASSUME NEW i \in DOMAIN ledger, ledger[i].type = "Rejected"
      PROVE  True(ledger[i].note, How(Rebuilt(i - 1), ledger[i].req))
  BY <1>1 DEF RegistryTellsTheTruth, LateReasonIsTrue
<1>2. ASSUME NEW req PROVE True(LateReason(req), How(registry, req))
  <2>1. How(registry, req) = Resolutions(req)
    BY DEF Resolutions
  <2> HIDE DEF How
  <2>2. "Superseded" \in Resolutions(req) => "Expired" \notin Resolutions(req)
    BY OneResolution
  <2>3. QED
    BY <2>1, <2>2 DEF LateReason
<1>3. Extends
  BY StepRecords DEF ForgetsNothing, SettlesNothing, Records, SettlesOne
<1>4. ASSUME NEW i \in DOMAIN ledger', ledger'[i].type = "Rejected"
      PROVE  True(ledger'[i].note, How(Rebuilt(i - 1)', ledger'[i].req))
  <2>1. CASE i \in DOMAIN ledger
    <3>1. ledger'[i] = ledger[i] /\ i - 1 \in 0..Len(ledger)
      BY <1>3, <2>1 DEF Extends
    <3>2. Rebuilt(i - 1)' = Rebuilt(i - 1)
      BY <1>3, <3>1, PastStays
    <3>3. QED
      BY <1>1, <1>4, <2>1, <3>1, <3>2
  <2>2. CASE i \notin DOMAIN ledger
    <3>1. i > Len(ledger) /\ Len(ledger) \in 0..Len(ledger)
      BY <1>3, <2>2 DEF Extends
    <3>2. i = Len(ledger) + 1 /\ ledger'[i].note = LateReason(ledger'[i].req)
      BY <1>4, <3>1, StepRecords DEF ForgetsNothing, Records
    <3>3. i - 1 = Len(ledger) /\ i - 1 \in 0..Len(ledger)
      BY <1>3, <3>2 DEF Extends
    <3>4. Rebuilt(i - 1) = registry
      BY <3>3 DEF RegistryTellsTheTruth, RegistryIsProjection
    <3> HIDE DEF How, True
    <3>5. Rebuilt(i - 1)' = registry
      BY <1>3, <3>3, <3>4, PastStays
    <3>6. QED
      BY <1>2, <3>2, <3>5
  <2>3. QED
    BY <2>1, <2>2
<1>5. QED
  BY <1>4 DEF LateReasonIsTrue

\* A late answer is told what happened to its request, and the registry it is told from
\* is what a resume would rebuild from the ledger (engine.ts rebuildResolvedRequests),
\* for every retention and however settlements and late answers interleave.
THEOREM TheTruthIsTold == Spec => []RegistryTellsTheTruth
<1>1. Init => MemoryInv
  <2> SUFFICES ASSUME Init PROVE MemoryInv
    OBVIOUS
  <2>1. registry = <<>> /\ ledger = <<>> /\ DOMAIN ledger = {} /\ DOMAIN registry = {}
        /\ Len(ledger) = 0
    BY DEF Init
  <2>2. Rebuilt(0) = <<>>
    <3>1. SettledIn(ledger, 0) = {}
      BY DEF SettledIn
    <3>2. Cardinality(SettledIn(ledger, 0)) = 0
      BY <3>1, FS_EmptySet
    <3>3. History(ledger, 0) = <<>>
      BY <3>2 DEF History
    <3>4. Keep(<<>>) = <<>>
      BY NumberAssumption DEF Keep
    <3>5. QED
      BY <3>3, <3>4, RebuiltIs
  <2>3. QED
    BY <2>1, <2>2 DEF MemoryInv, Memory, RegistryTellsTheTruth, RegistryIsProjection, LateReasonIsTrue
<1>2. FateInv /\ MemoryInv /\ [Next]_vars => MemoryInv'
  <2> SUFFICES ASSUME FateInv, MemoryInv, [Next]_vars PROVE MemoryInv'
    OBVIOUS
  <2>1. TypeOK /\ Memory /\ RegistryTellsTheTruth /\ RegistryIsProjection
    BY DEF FateInv, TypeInv, MemoryInv, RegistryTellsTheTruth
  <2>2. Memory' /\ RegistryIsProjection' /\ LateReasonIsTrue'
    BY <2>1, MemoryKept, ProjectionKept, TruthKept
  <2>3. QED
    BY <2>2 DEF MemoryInv, RegistryTellsTheTruth
<1>3. MemoryInv => RegistryTellsTheTruth
  BY DEF MemoryInv
<1>4. QED
  BY <1>1, <1>2, <1>3, FateInvariant, PTL DEF Spec

-----------------------------------------------------------------------------
(* Attention: the inductive invariant                                      *)

\* A request's fingerprint was taken while its NPC could act, and an NPC is
\* asked only while it can.
AbleInv ==
  /\ IncapacitatedNeverActs
  /\ \A n \in Npcs : pending[n] # None => n \notin pending[n].fingerprint[2]
  /\ pc \in {"ask", "fallback"} => ~body[Npc].incap

\* The NPCs the loop of a step has already visited.
Before == {Order[i] : i \in {j \in DOMAIN Order : j < turn}}

InTime(n) == pending[n] # None => tick <= pending[n].expires

\* The expiry loop has come to `turn`; after it nothing is overdue.
InTimeInv ==
  /\ pc = "expire" => \A n \in Before : InTime(n)
  /\ pc \in {"idle", "decide", "ask", "fallback", "end"} => \A n \in Npcs : InTime(n)

Held(n) ==
  ~body[n].incap /\ ~body[n].transit =>
    /\ Preemptible(body[n].action) => tick - lastDecision[n] < Cadence
    /\ body[n].action = None => lastDecision[n] = tick \/ n \in reeval

\* The decision loop has come to `turn`; the NPC being asked has decided now.
HeldInv ==
  /\ pc \in {"decide", "ask", "fallback"} => \A n \in Before : Held(n)
  /\ pc \in {"ask", "fallback"} => lastDecision[Npc] = tick
  /\ pc = "idle" /\ tick > 0 => \A n \in Npcs : Held(n)

CareInv == TypeInv /\ PendingNeverLockedOut /\ AbleInv /\ InTimeInv /\ HeldInv

LEMMA InitCare == Init => CareInv
<1> SUFFICES ASSUME Init PROVE CareInv
  OBVIOUS
<1>1. /\ pc = "idle" /\ tick = 0
      /\ \A n \in Npcs : pending[n] = None /\ ~body[n].incap
  BY DEF Init
<1>2. QED
  BY <1>1, InitType
  DEF CareInv, PendingNeverLockedOut, AbleInv, IncapacitatedNeverActs, Incapacitated,
      InTimeInv, InTime, HeldInv

-----------------------------------------------------------------------------
(* What a step may do to an NPC                                            *)

\* An outstanding request goes, or stays what it was.
NothingAsked ==
  \A n \in Npcs :
    pending'[n] = None \/ /\ pending[n] # None
                          /\ pending'[n].expires = pending[n].expires
                          /\ pending'[n].fingerprint = pending[n].fingerprint

\* The NPC goes on, or its action is taken from it and it is flagged.
LeftAlone(m) ==
  \/ body'[m] = body[m]
  \/ body'[m] = [body[m] EXCEPT !.action = None] /\ m \in reeval'

\* n acts, and the others are left alone.
Bystanders(n) ==
  /\ reeval \subseteq reeval'
  /\ \A m \in Npcs \ {n} : LeftAlone(m)

LEMMA BeginBody ==
  ASSUME TypeOK, NEW n \in Npcs, NEW b \in Bodies, NEW marked \in SUBSET Npcs,
         Begin(n, b, marked)
  PROVE  body'[n] = b /\ Bystanders(n)
<1>1. body \in [Npcs -> Bodies] /\ reeval \subseteq Npcs
  BY DEF TypeOK, Bodies
<1>2. CASE /\ body' = [body EXCEPT ![n] = b]
           /\ reeval' \in IF marked = {} THEN Perceived({}) ELSE Interrupted(marked)
  BY <1>1, <1>2 DEF Bystanders, LeftAlone, Perceived, Interrupted
<1>3. CASE \E m \in Npcs \ {n} :
             /\ body' = [body EXCEPT ![n] = b, ![m].action = None]
             /\ reeval' \in Interrupted(marked \cup {m})
  <2>1. PICK m \in Npcs \ {n} :
          /\ body' = [body EXCEPT ![n] = b, ![m].action = None]
          /\ reeval' \in Interrupted(marked \cup {m})
    BY <1>3
  <2>2. reeval \subseteq reeval' /\ m \in reeval'
    BY <1>1, <2>1 DEF Perceived, Interrupted
  <2>3. /\ body'[n] = b
        /\ body'[m] = [body[m] EXCEPT !.action = None]
        /\ \A k \in Npcs \ {m, n} : body'[k] = body[k]
    BY <1>1, <2>1
  <2>4. QED
    BY <2>2, <2>3 DEF Bystanders, LeftAlone
<1>4. QED
  BY <1>2, <1>3 DEF Begin

\* A launched action is as firm as its affordance.
LEMMA LaunchBody ==
  ASSUME TypeOK, NEW n \in Npcs, NEW req \in Nat, NEW prov \in BOOLEAN,
         NEW c \in Affordances, Launch(n, req, prov, c)
  PROVE  /\ Bystanders(n)
         /\ body'[n].incap = body[n].incap
         /\ body'[n].action # None => body'[n].action.firm = c.firm
<1> DEFINE preempted == IF body[n].action = None THEN {} ELSE {n}
<1>1. body \in [Npcs -> Bodies] /\ preempted \in SUBSET Npcs /\ reeval \subseteq Npcs
  BY DEF TypeOK, Bodies
<1>2. /\ Started(req, prov, c) \in Actions /\ Started(req, prov, c).firm = c.firm
      /\ Departed(req, prov, c) \in Actions /\ Departed(req, prov, c).firm = c.firm
  BY DEF Started, Departed, Actions, Affordances
<1>3. CASE /\ body' = [body EXCEPT ![n].action = None]
           /\ reeval' \in Interrupted({n})
  BY <1>1, <1>3 DEF Bystanders, LeftAlone, Perceived, Interrupted, Bodies
<1>4. CASE /\ body' = [body EXCEPT ![n].action = Departed(req, prov, c),
                                   ![n].transit = TRUE]
           /\ reeval' \in IF preempted = {} THEN {reeval} ELSE Interrupted(preempted)
  BY <1>1, <1>2, <1>4 DEF Bystanders, LeftAlone, Perceived, Interrupted, Bodies
<1>5. CASE Begin(n, [body[n] EXCEPT !.action = Started(req, prov, c)], preempted)
  <2>1. [body[n] EXCEPT !.action = Started(req, prov, c)] \in Bodies
    BY <1>1, <1>2 DEF Bodies
  <2>2. Bystanders(n) /\ body'[n] = [body[n] EXCEPT !.action = Started(req, prov, c)]
    BY <1>1, <1>5, <2>1, BeginBody
  <2>3. QED
    BY <1>1, <1>2, <2>2 DEF Bodies
<1>6. QED
  BY <1>3, <1>4, <1>5 DEF Launch

\* Through the gate an NPC acts only once its request is answered, and only
\* while its dependencies are those the request was made under.
LEMMA GateBody ==
  ASSUME TypeOK, NEW r, IsAnswer(r), NEW usedFallback, NEW found,
         Gate(r, usedFallback, found)
  PROVE  /\ NothingAsked /\ Bystanders(r.npc)
         /\ body'[r.npc] # body[r.npc] =>
              /\ pending[r.npc] # None /\ pending'[r.npc] = None
              /\ pending[r.npc].fingerprint = HardFingerprint
              /\ body'[r.npc].incap = body[r.npc].incap
<1> DEFINE n == r.npc
           v == Verdict(r, usedFallback, found)
<1>1. n \in Npcs /\ r.req \in Nat /\ reeval \subseteq Npcs
  BY DEF IsAnswer, TypeOK
<1>2. CASE v = "accepted"
  <2>1. Accept(r) /\ Current(r) /\ r.choice \in Offer \cup {Continue}
    BY <1>2, AcceptedIsOffered DEF Gate, Accepts
  <2>2. pending[n] # None /\ pending' = [pending EXCEPT ![n] = None]
    BY <2>1 DEF Current, Accept, Answered
  <2>3. pending[n].fingerprint = HardFingerprint
    BY <1>2, <2>1 DEF Verdict, LateReason
  <2>4. NothingAsked /\ pending'[n] = None
    BY <1>1, <2>2 DEF NothingAsked, TypeOK
  <2>5. CASE r.choice = Continue
    BY <2>1, <2>4, <2>5 DEF Accept, Bystanders, LeftAlone
  <2>6. CASE r.choice # Continue
    <3>1. Launch(n, r.req, FALSE, r.choice) /\ r.choice \in Affordances
      BY <2>1, <2>6, PlanAssumption DEF Accept
    <3>2. Bystanders(n) /\ body'[n].incap = body[n].incap
      BY <1>1, <3>1, LaunchBody
    <3>3. QED
      BY <2>2, <2>3, <2>4, <3>2
  <2>7. QED
    BY <2>5, <2>6
<1>3. CASE v # "accepted"
  <2>1. Reject(r, v)
    BY <1>3 DEF Gate
  <2>2. body' = body /\ reeval' = reeval
    BY <2>1 DEF Reject
  <2>3. NothingAsked
    <3>1. CASE Current(r)
      <4>1. /\ pending' = [pending EXCEPT ![n].seen = @ \cup {r.rid}]
            /\ pending[n] # None
        BY <2>1, <3>1 DEF Reject, Current
      <4>2. pending[n] \in Requests
        BY <1>1, <4>1 DEF TypeOK
      <4>3. /\ pending'[n].expires = pending[n].expires
            /\ pending'[n].fingerprint = pending[n].fingerprint
        BY <1>1, <4>1, <4>2 DEF Requests, TypeOK
      <4>4. \A m \in Npcs \ {n} : pending'[m] = pending[m]
        BY <1>1, <4>1 DEF TypeOK
      <4>5. QED
        BY <4>1, <4>3, <4>4 DEF NothingAsked
    <3>2. CASE ~Current(r)
      BY <2>1, <3>2 DEF Reject, NothingAsked
    <3>3. QED
      BY <3>1, <3>2
  <2>4. QED
    BY <2>2, <2>3 DEF Bystanders, LeftAlone
<1>4. QED
  BY <1>2, <1>3

-----------------------------------------------------------------------------
(* The loops over the NPCs                                                 *)

LEMMA Places ==
  ASSUME TypeOK
  PROVE  /\ turn \in 1..Len(Order) /\ DOMAIN Order = 1..Len(Order) /\ Len(Order) \in Nat
         /\ \A i, j \in 1..Len(Order) : Order[i] = Order[j] => i = j
<1>1. DOMAIN Order = 1..Len(Order) /\ Len(Order) \in Nat
  BY OrderAssumption, LenProperties
<1>2. QED
  BY <1>1, OrderAssumption DEF TypeOK

LEMMA Visited ==
  ASSUME TypeOK
  PROVE  /\ Npc \in Npcs /\ Npc \notin Before /\ Before \subseteq Npcs
         /\ turn = Len(Order) => Npcs = Before \cup {Npc}
         /\ turn = 1 => Before = {}
<1>1. Before = {Order[i] : i \in {j \in 1..Len(Order) : j < turn}}
  BY Places DEF Before
<1>2. Npcs = {Order[i] : i \in 1..Len(Order)}
  BY Places DEF Npcs
<1>3. Npc \notin Before
  BY <1>1, Places DEF Npc
<1>4. turn = Len(Order) => Npcs = Before \cup {Npc}
  BY <1>1, <1>2, Places DEF Npc
<1>5. turn = 1 => Before = {}
  BY <1>1
<1>6. QED
  BY <1>1, <1>2, <1>3, <1>4, <1>5, Places DEF Npc

LEMMA VisitsNext ==
  ASSUME TypeOK, turn < Len(Order), turn' = turn + 1
  PROVE  Before' = Before \cup {Npc}
  BY Places DEF Before, Npc

\* A loop goes on to the next NPC, or has visited everybody.
Goes(next) ==
  \/ pc' = pc /\ Before' = Before \cup {Npc}
  \/ pc' = next /\ turn' = 1 /\ Before' = {} /\ Npcs = Before \cup {Npc}

LEMMA LoopGoes ==
  ASSUME TypeOK, TypeOK', NEW next, LoopOr(next)
  PROVE  Goes(next)
<1>1. turn' = 1 => Before' = {}
  BY Places DEF Before
<1>2. QED
  BY <1>1, Places, Visited, VisitsNext DEF LoopOr, Goes

LEMMA NextGoes ==
  ASSUME TypeOK, TypeOK', NextNpc
  PROVE  \/ pc' = "decide" /\ Before' = Before \cup {Npc}
         \/ pc' = "idle" /\ Npcs = Before \cup {Npc}
  BY Places, Visited, VisitsNext DEF NextNpc

-----------------------------------------------------------------------------
(* What every step keeps                                                   *)

LEMMA KeepsFree ==
  ASSUME CareInv, NothingAsked, NEW n \in Npcs, Bystanders(n),
         pending'[n] = None \/ body'[n] = body[n]
  PROVE  PendingNeverLockedOut'
<1>1. \A m \in Npcs \ {n} : body'[m] = body[m] \/ body'[m].action = None
  BY DEF Bystanders, LeftAlone, CareInv, TypeInv, TypeOK
<1>2. QED
  BY <1>1 DEF NothingAsked, CareInv, PendingNeverLockedOut

LEMMA KeepsAble ==
  ASSUME CareInv, NothingAsked, NEW n \in Npcs, Bystanders(n),
         \/ body'[n] = body[n]
         \/ ~body[n].incap /\ body'[n].incap = body[n].incap
  PROVE  /\ IncapacitatedNeverActs'
         /\ \A m \in Npcs : pending'[m] # None => m \notin pending'[m].fingerprint[2]
<1>1. ASSUME NEW m \in Npcs \ {n}
      PROVE  body'[m] = body[m] \/ (body'[m].action = None /\ body'[m].incap = body[m].incap)
  <2>1. body \in [Npcs -> Bodies]
    BY DEF CareInv, TypeInv, TypeOK, Bodies
  <2>2. body'[m] = body[m] \/ body'[m] = [body[m] EXCEPT !.action = None]
    BY DEF Bystanders, LeftAlone
  <2>3. CASE body'[m] = [body[m] EXCEPT !.action = None]
    BY <2>1, <2>3 DEF Bodies
  <2>4. QED
    BY <2>2, <2>3
<1>2. IncapacitatedNeverActs'
  BY <1>1 DEF CareInv, AbleInv, IncapacitatedNeverActs, Incapacitated
<1>3. \A m \in Npcs : pending'[m] # None => m \notin pending'[m].fingerprint[2]
  BY DEF NothingAsked, CareInv, AbleInv
<1>4. QED
  BY <1>2, <1>3

LEMMA KeepsInTime ==
  ASSUME NothingAsked, tick' = tick, NEW n \in Npcs, InTime(n)
  PROVE  InTime(n)'
  BY DEF NothingAsked, InTime

LEMMA KeepsHeld ==
  ASSUME CareInv, NEW n \in Npcs, Bystanders(n), NEW m \in Npcs \ {n}, Held(m),
         UNCHANGED <<tick, lastDecision>>
  PROVE  Held(m)'
<1>1. body[m] \in Bodies
  BY DEF CareInv, TypeInv, TypeOK, Bodies
<1>2. CASE body'[m] = body[m]
  BY <1>2 DEF Bystanders, Held, Preemptible, Active
<1>3. CASE body'[m] = [body[m] EXCEPT !.action = None] /\ m \in reeval'
  BY <1>1, <1>3 DEF Held, Preemptible, Active, Bodies
<1>4. QED
  BY <1>2, <1>3 DEF Bystanders, LeftAlone

\* Who has decided in this tick is held, whatever became of it.
LEMMA DecidedIsHeld ==
  ASSUME TypeInv, NEW n \in Npcs, lastDecision[n] = tick,
         UNCHANGED <<tick, lastDecision>>
  PROVE  Held(n)'
<1>1. tick \in Nat /\ tick - tick = 0 /\ 0 < Cadence
  BY NumberAssumption DEF TypeInv, TypeOK
<1>2. QED
  BY <1>1 DEF Held

LEMMA Untouched ==
  ASSUME UNCHANGED <<pending, body, reeval>>
  PROVE  NothingAsked /\ \A n \in Npcs : Bystanders(n)
  BY DEF NothingAsked, Bystanders, LeftAlone

-----------------------------------------------------------------------------
(* The steps of a tick                                                     *)

LEMMA WorldCare == CareInv /\ World => CareInv'
<1> SUFFICES ASSUME CareInv, World PROVE CareInv'
  OBVIOUS
<1> DEFINE b == body[Npc]
           a == b.action
<1>1. TypeInv' /\ Npc \in Npcs /\ b \in Bodies /\ body \in [Npcs -> Bodies]
  BY WorldType, TurnType DEF CareInv, TypeInv, TypeOK, Bodies
<1>2. pc' \in {"world", "drain"} /\ UNCHANGED <<tick, pending>>
  BY DEF World, LoopOr
<1>3. \A n \in Npcs :
        /\ body'[n].action # None =>
             body[n].action # None /\ body'[n].action.firm = body[n].action.firm
        /\ body'[n].incap => body'[n].action = None
  <2>1. \A n \in Npcs : body[n].incap => body[n].action = None
    BY DEF CareInv, AbleInv, IncapacitatedNeverActs, Incapacitated
  <2>2. CASE UNCHANGED body
    BY <2>1, <2>2
  <2>3. CASE /\ a # None
             /\ Begin(Npc, [b EXCEPT !.transit = FALSE, !.action.phase = "active"], {})
    <3> DEFINE c == [b EXCEPT !.transit = FALSE, !.action.phase = "active"]
    <3>1. a \in Actions
      BY <1>1, <2>3 DEF Bodies
    <3>2. /\ c \in Bodies /\ c.action # None
          /\ c.action.firm = a.firm /\ c.incap = b.incap
      BY <1>1, <3>1, NoneAssumption DEF Bodies, Actions
    <3>3. body'[Npc] = c /\ Bystanders(Npc)
      BY <1>1, <2>3, <3>2, BeginBody DEF CareInv, TypeInv
    <3>4. ASSUME NEW n \in Npcs \ {Npc}
          PROVE  /\ body'[n].action # None => body'[n] = body[n]
                 /\ body'[n].incap => body'[n].action = None
      <4>1. body[n] \in Bodies /\ (body[n].incap => body[n].action = None)
        BY <1>1, <2>1
      <4>2. body'[n] = body[n] \/ body'[n] = [body[n] EXCEPT !.action = None]
        BY <3>3 DEF Bystanders, LeftAlone
      <4>3. [body[n] EXCEPT !.action = None].action = None
        BY <4>1 DEF Bodies
      <4>4. QED
        BY <4>1, <4>2, <4>3
    <3>5. ~b.incap
      BY <1>1, <2>1, <2>3
    <3>6. QED
      BY <2>3, <3>2, <3>3, <3>4, <3>5
  <2>4. CASE \/ body' = [body EXCEPT ![Npc].transit = FALSE, ![Npc].action = None]
             \/ body' = [body EXCEPT ![Npc].action = None]
             \/ body' = [body EXCEPT ![Npc].action = None, ![Npc].incap = TRUE]
             \/ body' = [body EXCEPT ![Npc].incap = FALSE] /\ b.incap
    BY <1>1, <2>1, <2>4 DEF Bodies
  <2>5. QED
    BY <2>2, <2>3, <2>4 DEF World
<1>4. PendingNeverLockedOut'
  BY <1>2, <1>3 DEF CareInv, PendingNeverLockedOut
<1>5. AbleInv'
  BY <1>2, <1>3 DEF CareInv, AbleInv, IncapacitatedNeverActs, Incapacitated
<1>6. QED
  BY <1>1, <1>2, <1>4, <1>5 DEF CareInv, InTimeInv, HeldInv

LEMMA DrainCare ==
  CareInv /\ (DrainResponse \/ DrainFailure \/ Drained) => CareInv'
<1> SUFFICES ASSUME CareInv, DrainResponse \/ DrainFailure \/ Drained PROVE CareInv'
  OBVIOUS
<1>1. TypeInv'
  BY DrainType DEF CareInv
<1>2. /\ pc' \in {"drain", "expire"}
      /\ pc' = "expire" => turn' = 1 /\ UNCHANGED pending
  BY DEF DrainResponse, DrainFailure, Drained
<1>3. pc' = "expire" => Before' = {}
  BY <1>2, Places DEF CareInv, TypeInv, Before
<1>4. CASE DrainResponse
  <2> DEFINE r == Head(inbox)
  <2>1. IsAnswer(r) /\ r.npc \in Npcs
    BY <1>4, InboxAnswer DEF DrainResponse, CareInv, TypeInv, IsAnswer
  <2>2. PICK found \in Findings : Gate(r, FALSE, found)
    BY <1>4 DEF DrainResponse
  <2>3. /\ NothingAsked /\ Bystanders(r.npc)
        /\ body'[r.npc] # body[r.npc] =>
             /\ pending[r.npc] # None /\ pending'[r.npc] = None
             /\ pending[r.npc].fingerprint = HardFingerprint
             /\ body'[r.npc].incap = body[r.npc].incap
    BY <2>1, <2>2, GateBody DEF CareInv, TypeInv
  <2>4. body'[r.npc] # body[r.npc] => ~body[r.npc].incap
    BY <2>1, <2>3 DEF CareInv, AbleInv, HardFingerprint, Incapacitated
  <2>5. /\ PendingNeverLockedOut' /\ IncapacitatedNeverActs'
        /\ \A m \in Npcs : pending'[m] # None => m \notin pending'[m].fingerprint[2]
    BY <2>1, <2>3, <2>4, KeepsFree, KeepsAble
  <2>6. QED
    BY <1>1, <1>2, <1>3, <2>5 DEF CareInv, AbleInv, InTimeInv, HeldInv
<1>5. CASE DrainFailure \/ Drained
  <2>1. UNCHANGED <<body, reeval>>
    BY <1>5 DEF DrainFailure, Drained
  <2>2. NothingAsked
    BY <1>5 DEF DrainFailure, Drained, NothingAsked, CareInv, TypeInv, TypeOK
  <2>3. Npc \in Npcs /\ Bystanders(Npc)
    BY <2>1, TurnType DEF Bystanders, LeftAlone, CareInv, TypeInv
  <2>4. /\ PendingNeverLockedOut' /\ IncapacitatedNeverActs'
        /\ \A m \in Npcs : pending'[m] # None => m \notin pending'[m].fingerprint[2]
    BY <2>1, <2>2, <2>3, KeepsFree, KeepsAble
  <2>5. QED
    BY <1>1, <1>2, <1>3, <2>4 DEF CareInv, AbleInv, InTimeInv, HeldInv
<1>6. QED
  BY <1>4, <1>5

LEMMA ExpireCare == CareInv /\ Expire => CareInv'
<1> SUFFICES ASSUME CareInv, Expire PROVE CareInv'
  OBVIOUS
<1>1. TypeInv' /\ Npc \in Npcs /\ TypeOK /\ TypeOK'
  BY ExpireType, TurnType DEF CareInv, TypeInv
<1>2. /\ pc = "expire" /\ UNCHANGED <<tick, body>> /\ reeval \subseteq reeval'
      /\ NothingAsked
  BY <1>1 DEF Expire, Settle, NothingAsked, TypeOK
<1>3. Goes(IF tick >= EndTick THEN "end" ELSE "decide")
  BY <1>1, LoopGoes DEF Expire
<1>4. Bystanders(Npc)
  BY <1>2 DEF Bystanders, LeftAlone
<1>5. /\ PendingNeverLockedOut' /\ IncapacitatedNeverActs'
      /\ \A m \in Npcs : pending'[m] # None => m \notin pending'[m].fingerprint[2]
  BY <1>1, <1>2, <1>4, KeepsFree, KeepsAble
<1>6. AbleInv'
  BY <1>2, <1>3, <1>5 DEF AbleInv, Goes
<1>7. \A n \in Before \cup {Npc} : InTime(n)'
  <2>1. ASSUME NEW n \in Before PROVE InTime(n)'
    BY <1>1, <1>2, Visited, KeepsInTime DEF CareInv, InTimeInv
  <2>2. ASSUME NEW n, n = Npc PROVE InTime(n)'
    <3>1. CASE Overdue(n)
      BY <1>1, <2>2, <3>1 DEF Expire, Settle, InTime, TypeOK
    <3>2. CASE ~Overdue(n)
      <4>1. pending' = pending /\ tick \in Int
        BY <1>1, <2>2, <3>2 DEF Expire, TypeOK
      <4>2. pending[n] # None => pending[n].expires \in Int
        BY <1>1, <2>2 DEF TypeOK, Requests
      <4>3. QED
        BY <1>2, <3>2, <4>1, <4>2 DEF Overdue, InTime
    <3>3. QED
      BY <3>1, <3>2
  <2>3. QED
    BY <2>1, <2>2
<1>8. InTimeInv'
  BY <1>2, <1>3, <1>7 DEF Goes, InTimeInv
<1>9. HeldInv'
  BY <1>2, <1>3 DEF Goes, HeldInv
<1>10. QED
  BY <1>1, <1>5, <1>6, <1>8, <1>9 DEF CareInv

LEMMA EndCare == CareInv /\ End => CareInv'
<1> SUFFICES ASSUME CareInv, End PROVE CareInv'
  OBVIOUS
<1>1. TypeInv' /\ Npc \in Npcs /\ body[Npc] \in Bodies
  BY EndType, TurnType DEF CareInv, TypeInv, TypeOK, Bodies
<1>2. /\ pc = "end" /\ pc' \in {"end", "sealed"} /\ UNCHANGED tick
      /\ body' = [body EXCEPT ![Npc].action = None] /\ reeval \subseteq reeval'
  BY DEF End, LoopOr
<1>3. NothingAsked
  <2>1. pending' = pending \/ pending' = [pending EXCEPT ![Npc] = None]
    BY DEF End, Settle
  <2>2. pending = [n \in Npcs |-> pending[n]]
    BY DEF CareInv, TypeInv, TypeOK
  <2>3. \A n \in Npcs : pending'[n] = None \/ pending'[n] = pending[n]
    BY <2>1, <2>2
  <2>4. QED
    BY <2>3 DEF NothingAsked
<1>4. \A n \in Npcs : body'[n] = body[n] \/ body'[n] = [body[n] EXCEPT !.action = None]
  <2>1. body = [n \in Npcs |-> body[n]]
    BY DEF CareInv, TypeInv, TypeOK
  <2>2. QED
    BY <1>2, <2>1
<1>kept. \A n \in Npcs : /\ body'[n].action \in {body[n].action, None}
                         /\ body'[n].incap = body[n].incap
  <2>1. body \in [Npcs -> Bodies]
    BY DEF CareInv, TypeInv, TypeOK, Bodies
  <2>2. QED
    BY <1>4, <2>1 DEF Bodies
<1>5. PendingNeverLockedOut'
  BY <1>3, <1>kept DEF CareInv, PendingNeverLockedOut, NothingAsked
<1>6. IncapacitatedNeverActs'
  BY <1>kept DEF CareInv, AbleInv, IncapacitatedNeverActs, Incapacitated
<1>7. AbleInv'
  BY <1>2, <1>3, <1>6 DEF AbleInv, CareInv, NothingAsked
<1>8. \A n \in Npcs : InTime(n)'
  BY <1>2, <1>3, KeepsInTime DEF CareInv, InTimeInv
<1>9. QED
  BY <1>1, <1>2, <1>5, <1>7, <1>8 DEF CareInv, InTimeInv, HeldInv

LEMMA SkipCare == CareInv /\ SkipDecision => CareInv'
<1> SUFFICES ASSUME CareInv, SkipDecision PROVE CareInv'
  OBVIOUS
<1>1. TypeInv' /\ TypeOK /\ TypeOK' /\ Npc \in Npcs
  <2>1. [Next]_vars
    BY DEF Next, Engine
  <2>2. QED
    BY <2>1, StepType, TurnType DEF CareInv, TypeInv
<1>2. /\ pc = "decide" /\ ~ShouldDecide(Npc)
      /\ UNCHANGED <<tick, counter, pending, body, reeval, lastDecision>>
  BY DEF SkipDecision
<1>3. Goes("idle")
  BY <1>1, LoopGoes DEF SkipDecision
<1>4. /\ PendingNeverLockedOut' /\ AbleInv'
  BY <1>2, <1>3
  DEF CareInv, PendingNeverLockedOut, AbleInv, IncapacitatedNeverActs, Incapacitated, Goes
<1>5. InTimeInv'
  BY <1>2, <1>3 DEF CareInv, InTimeInv, InTime, Goes
<1>6. \A n \in Before \cup {Npc} : Held(n)'
  <2>1. ASSUME NEW n \in Before PROVE Held(n)'
    BY <1>2 DEF CareInv, HeldInv, Held, Preemptible, Active
  <2>2. ASSUME NEW n, n = Npc PROVE Held(n)'
    <3>1. tick \in Int /\ lastDecision[n] \in Int /\ Cadence \in Int
      BY <1>1, <2>2, NumberAssumption DEF TypeOK
    <3>2. QED
      BY <1>2, <2>2, <3>1 DEF ShouldDecide, CadenceDue, Held, Preemptible, Active
  <2>3. QED
    BY <2>1, <2>2
<1>7. HeldInv'
  BY <1>2, <1>3, <1>6 DEF Goes, HeldInv
<1>8. QED
  BY <1>1, <1>4, <1>5, <1>7 DEF CareInv

LEMMA RequestCare == CareInv /\ RequestDecision => CareInv'
<1> SUFFICES ASSUME CareInv, RequestDecision PROVE CareInv'
  OBVIOUS
<1>1. PICK n \in Npcs : n = Npc
  BY TurnType DEF CareInv, TypeInv
<1>2. TypeInv' /\ TypeOK
  BY RequestDecisionType DEF CareInv, TypeInv
<1>3. /\ pc = "decide" /\ pc' = "ask" /\ ShouldDecide(n)
      /\ UNCHANGED <<turn, tick, body, hard>>
      /\ pending' = [pending EXCEPT ![n] = Request(n)]
      /\ lastDecision' = [lastDecision EXCEPT ![n] = tick]
      /\ reeval' = reeval \ {n}
  BY <1>1 DEF RequestDecision
<1>4. Npc' = Npc /\ Before' = Before
  BY <1>3 DEF Npc, Before
<1>5. /\ ~body[n].incap
      /\ body[n].action # None => ~body[n].action.firm
  BY <1>3 DEF ShouldDecide, Preemptible, Active
<1>6. /\ pending'[n] = Request(n)
      /\ \A m \in Npcs \ {n} : pending'[m] = pending[m]
  BY <1>2, <1>3 DEF TypeOK
<1>7. PendingNeverLockedOut'
  BY <1>3, <1>5, <1>6 DEF CareInv, PendingNeverLockedOut
<1>8. n \notin Request(n).fingerprint[2]
  BY <1>5 DEF Request, HardFingerprint, Incapacitated
<1>9. AbleInv'
  BY <1>1, <1>3, <1>4, <1>5, <1>6, <1>8
  DEF CareInv, AbleInv, IncapacitatedNeverActs, Incapacitated
<1>10. \A m \in Npcs : InTime(m)'
  <2>1. tick <= Request(n).expires
    BY <1>2, NumberAssumption DEF Request, TypeOK
  <2>2. QED
    BY <1>3, <1>6, <2>1 DEF CareInv, InTimeInv, InTime
<1>11. \A m \in Before : Held(m)'
  <2>1. ASSUME NEW m \in Before PROVE m \in Npcs /\ m # n
    BY <1>1, <1>2, Visited
  <2>2. ASSUME NEW m \in Before PROVE Held(m)'
    BY <1>2, <1>3, <2>1 DEF CareInv, HeldInv, Held, Preemptible, Active, TypeOK
  <2>3. QED
    BY <2>2
<1>12. lastDecision'[n] = tick
  BY <1>2, <1>3 DEF TypeOK
<1>13. HeldInv'
  BY <1>1, <1>3, <1>4, <1>11, <1>12 DEF HeldInv
<1>14. QED
  BY <1>2, <1>3, <1>7, <1>9, <1>10, <1>13 DEF CareInv, InTimeInv

\* The NPC being asked acts or not; the loop goes on, or its fallback is asked.
LEMMA AskedCare ==
  ASSUME CareInv, TypeInv', pc \in {"ask", "fallback"}, NothingAsked, Bystanders(Npc),
         NextNpc \/ (pc' = "fallback" /\ turn' = turn /\ body' = body),
         UNCHANGED <<tick, lastDecision>>, body'[Npc].incap = body[Npc].incap,
         PendingNeverLockedOut'
  PROVE  CareInv'
<1>1. PICK n \in Npcs : n = Npc
  BY TurnType DEF CareInv, TypeInv
<1>2. ~body[n].incap
  BY <1>1 DEF CareInv, AbleInv
<1>3. /\ IncapacitatedNeverActs'
      /\ \A m \in Npcs : pending'[m] # None => m \notin pending'[m].fingerprint[2]
  BY <1>1, <1>2, KeepsAble
<1>4. \A m \in Npcs : InTime(m)'
  BY KeepsInTime DEF CareInv, InTimeInv
<1>5. \A m \in Before \cup {n} : Held(m)'
  <2>1. ASSUME NEW m \in Before PROVE Held(m)'
    <3>1. m \in Npcs \ {n} /\ Held(m)
      BY <1>1, Visited DEF CareInv, TypeInv, HeldInv
    <3>2. QED
      BY <1>1, <3>1, KeepsHeld
  <2>2. Held(n)'
    BY <1>1, DecidedIsHeld DEF CareInv, HeldInv
  <2>3. QED
    BY <2>1, <2>2
<1>6. CASE NextNpc
  <2>1. \/ pc' = "decide" /\ Before' = Before \cup {n}
        \/ pc' = "idle" /\ Npcs = Before \cup {n}
    BY <1>1, <1>6, NextGoes DEF CareInv, TypeInv
  <2>2. AbleInv'
    BY <1>3, <2>1 DEF AbleInv
  <2>3. InTimeInv'
    BY <1>4, <2>1 DEF InTimeInv
  <2>4. HeldInv'
    BY <1>5, <2>1 DEF HeldInv
  <2>5. QED
    BY <2>2, <2>3, <2>4 DEF CareInv
<1>7. CASE pc' = "fallback" /\ turn' = turn /\ body' = body
  <2>1. Npc' = Npc /\ Before' = Before
    BY <1>7 DEF Npc, Before
  <2>2. AbleInv'
    BY <1>1, <1>2, <1>3, <1>7, <2>1 DEF AbleInv
  <2>3. InTimeInv'
    BY <1>4, <1>7 DEF InTimeInv
  <2>4. HeldInv'
    BY <1>5, <1>7, <2>1 DEF HeldInv, CareInv
  <2>5. QED
    BY <2>2, <2>3, <2>4 DEF CareInv
<1>8. QED
  BY <1>6, <1>7

LEMMA AnswersCare ==
  ASSUME CareInv, TypeInv', NEW r, r.npc = Npc, IsAnswer(r), NEW usedFallback, NEW found,
         Gate(r, usedFallback, found), pc \in {"ask", "fallback"},
         NextNpc \/ (pc' = "fallback" /\ turn' = turn /\ ~Accepts(r, usedFallback, found)),
         UNCHANGED <<tick, lastDecision>>
  PROVE  CareInv'
<1>1. /\ NothingAsked /\ Bystanders(Npc)
      /\ body'[Npc] # body[Npc] => pending'[Npc] = None /\ body'[Npc].incap = body[Npc].incap
  BY GateBody DEF CareInv, TypeInv
<1>2. PendingNeverLockedOut'
  BY <1>1, TurnType, KeepsFree DEF CareInv, TypeInv
<1>3. ~Accepts(r, usedFallback, found) => body' = body
  BY DEF Gate, Accepts, Reject
<1>4. QED
  BY <1>1, <1>2, <1>3, AskedCare

LEMMA ProviderAnswersCare ==
  ASSUME CareInv, TypeInv', NEW choice, NEW found, ProviderAnswers(choice, found)
  PROVE  CareInv'
<1> DEFINE r == Local("res", Plan[Npc], choice)
<1>1. r.npc = Npc /\ IsAnswer(r)
  BY LocalAnswer DEF Local, CareInv, TypeInv
<1>2. /\ Gate(r, FALSE, found) /\ pc = "ask" /\ UNCHANGED <<tick, lastDecision>>
      /\ NextNpc \/ (pc' = "fallback" /\ turn' = turn /\ ~Accepts(r, FALSE, found))
  BY DEF ProviderAnswers
<1> HIDE DEF r
<1>3. QED
  BY <1>1, <1>2, AnswersCare

LEMMA FallbackAnswersCare ==
  ASSUME CareInv, TypeInv', NEW choice, NEW found, FallbackAnswers(choice, found)
  PROVE  CareInv'
<1> DEFINE r == Local("res-fb", Fallback, choice)
<1>1. r.npc = Npc /\ IsAnswer(r)
  BY LocalAnswer DEF Local, CareInv, TypeInv
<1>2. Gate(r, TRUE, found) /\ pc = "fallback" /\ UNCHANGED <<tick, lastDecision>> /\ NextNpc
  BY DEF FallbackAnswers
<1> HIDE DEF r
<1>3. QED
  BY <1>1, <1>2, AnswersCare

LEMMA ProviderDefersCare ==
  ASSUME CareInv, TypeInv', NEW choice \in Offer, ProviderDefers(choice)
  PROVE  CareInv'
<1>1. PICK n \in Npcs : n = Npc
  BY TurnType DEF CareInv, TypeInv
<1>2. /\ pc = "ask" /\ NextNpc /\ UNCHANGED <<tick, pending, lastDecision>>
      /\ NothingAsked
  BY DEF ProviderDefers, NothingAsked
<1>3. CASE body[n].action # None
  <2>1. UNCHANGED <<body, reeval>>
    BY <1>1, <1>3 DEF ProviderDefers
  <2>2. Bystanders(n) /\ PendingNeverLockedOut'
    BY <1>2, <2>1 DEF Bystanders, LeftAlone, CareInv, PendingNeverLockedOut
  <2>3. QED
    BY <1>1, <1>2, <2>1, <2>2, AskedCare
<1>4. CASE body[n].action = None
  <2>1. Launch(n, counter, TRUE, Bridging(choice))
    BY <1>1, <1>4 DEF ProviderDefers
  <2>2. Bridging(choice) \in Affordances /\ Bridging(choice).firm = FALSE
    BY PlanAssumption DEF Bridging, Affordances
  <2>3. counter \in Nat
    BY DEF CareInv, TypeInv, TypeOK
  <2>4. /\ Bystanders(n) /\ body'[n].incap = body[n].incap
        /\ body'[n].action # None => ~body'[n].action.firm
    BY <2>1, <2>2, <2>3, LaunchBody DEF CareInv, TypeInv
  <2>5. \A m \in Npcs \ {n} : body'[m] = body[m] \/ body'[m].action = None
    BY <2>4 DEF Bystanders, LeftAlone, CareInv, TypeInv, TypeOK
  <2>6. PendingNeverLockedOut'
    BY <1>2, <2>4, <2>5 DEF CareInv, PendingNeverLockedOut
  <2>7. QED
    BY <1>1, <1>2, <2>4, <2>6, AskedCare
<1>5. QED
  BY <1>3, <1>4

\* The host's messages and a sealed run touch nothing the invariant speaks of,
\* nor does a provider that throws; a tick that begins owes nothing yet.
LEMMA OthersCare ==
  ASSUME CareInv, TypeInv',
         HostQueues \/ StepSealed \/ ProviderFails \/ BeginTick \/ UNCHANGED vars
  PROVE  CareInv'
<1>1. UNCHANGED <<pending, body, reeval, lastDecision>>
  BY DEF HostQueues, SubmitResponse, SubmitFailure, StepSealed, ProviderFails, BeginTick, vars
<1>2. PendingNeverLockedOut' /\ IncapacitatedNeverActs'
  BY <1>1 DEF CareInv, PendingNeverLockedOut, AbleInv, IncapacitatedNeverActs, Incapacitated
<1>3. CASE BeginTick
  BY <1>1, <1>2, <1>3 DEF BeginTick, CareInv, AbleInv, InTimeInv, HeldInv
<1>4. CASE HostQueues \/ StepSealed \/ ProviderFails \/ UNCHANGED vars
  <2>1. /\ UNCHANGED <<turn, tick>>
        /\ pc' = pc \/ (pc = "ask" /\ pc' = "fallback")
    BY <1>4 DEF HostQueues, SubmitResponse, SubmitFailure, StepSealed, ProviderFails, vars
  <2>2. Npc' = Npc /\ Before' = Before
    BY <2>1 DEF Npc, Before
  <2>3. \A n \in Npcs : InTime(n)' = InTime(n) /\ Held(n)' = Held(n)
    BY <1>1, <2>1 DEF InTime, Held, Preemptible, Active
  <2>4. Before \subseteq Npcs
    BY Visited DEF CareInv, TypeInv
  <2>5. AbleInv'
    BY <1>1, <1>2, <2>1, <2>2 DEF CareInv, AbleInv
  <2>6. InTimeInv'
    BY <2>1, <2>2, <2>3, <2>4 DEF CareInv, InTimeInv
  <2>7. HeldInv'
    BY <1>1, <2>1, <2>2, <2>3, <2>4 DEF CareInv, HeldInv
  <2>8. QED
    BY <1>2, <2>5, <2>6, <2>7 DEF CareInv
<1>5. QED
  BY <1>3, <1>4

LEMMA StepCare == CareInv /\ [Next]_vars => CareInv'
<1> SUFFICES ASSUME CareInv, [Next]_vars PROVE CareInv'
  OBVIOUS
<1>1. TypeInv'
  BY StepType DEF CareInv
<1>2. QED
  BY <1>1, WorldCare, DrainCare, ExpireCare, EndCare, SkipCare, RequestCare,
     ProviderAnswersCare, FallbackAnswersCare, ProviderDefersCare, OthersCare
  DEF Next, Engine

LEMMA CareInvariant == Spec => []CareInv
  BY InitCare, StepCare, PTL DEF Spec

-----------------------------------------------------------------------------
\* No NPC waits in vain, for any NPCs, plan, answers and timing constants: the
\* action of one with a pending request can always be displaced, no request
\* outlives its time, and an NPC that can decide has done so within the
\* re-evaluation interval or is flagged for the next tick (engine.ts
\* provisionalFallback, expireDecisionRequests, decisionPhase).
THEOREM EveryoneIsAttended == Spec => []NobodyIsForgotten
<1>1. CareInv => NobodyIsForgotten
  BY DEF CareInv, InTimeInv, InTime, HeldInv, Held, Incapacitated, NobodyIsForgotten,
         NoOverdueRequest, CadenceHeld
<1>2. QED
  BY <1>1, CareInvariant, PTL

\* An incapacitated NPC never acts, although nothing cancels the request it had
\* pending: the fingerprint the request was made under refuses the answer
\* (engine.ts injuryWorseningMonitor; dependencyFingerprint.ts).
THEOREM OnlyTheAbleAct == Spec => []IncapacitatedNeverActs
<1>1. CareInv => IncapacitatedNeverActs
  BY DEF CareInv, AbleInv
<1>2. QED
  BY <1>1, CareInvariant, PTL

=============================================================================
