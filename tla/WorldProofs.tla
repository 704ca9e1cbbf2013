------------------------------ MODULE WorldProofs ------------------------------
(***************************************************************************)
(* TLAPS proofs about World, for any script, roles, durations, rates,      *)
(* habits and scenario length.  A handler is an operator from world to     *)
(* world, so the invariant is stated of a world s and its script c; it     *)
(* holds between any two handlers of a tick, not only between ticks.       *)
(***************************************************************************)
EXTENDS World, FiniteSetTheorems, TLAPS

-----------------------------------------------------------------------------
(* The invariant                                                           *)

Severities == {"none", "eased", "serious", "grave"}
Bodies ==
  [loc : Places, transit : Transits \cup {None}, sev : Severities,
   hurt : Ticks \cup {None}, since : Ticks \cup {None}, by : Npcs \cup {None}, cooled : Nat,
   act : Actions \cup {None}]
Meals == [exists : BOOLEAN, owner : Npcs \cup {None}]
Promises ==
  [status : {"active", "fulfilled", "broken"}, terms : Terms, proposal : Proposals \cup {None},
   run : Ticks \cup {None}]
Bites == [by : Npcs, owner : Npcs \cup {None}]

\* A world in which nothing was thrown.
Worlds ==
  [tick : Ticks, npc : [Npcs -> Bodies], meal : Meals, bench : Benches \cup {None},
   worker : Npcs \cup {None}, progress : 0..Total, promise : Promises,
   requests : SUBSET Requests, outcome : {"pending", "completed", "deadline-missed"},
   thrown : {{}}, violators : SUBSET Npcs, eaters : SUBSET Bites]

\* What an action that was offered may be.
Fit(c, n, a) ==
  /\ a.long > 0
  /\ a.mode \in BenchModes => a.place = "bench" /\ a.ask = None
  /\ a.mode = "relieve" => a.target \in Npcs \ {n}
  /\ a.mode = "treat" =>
       n \in DOMAIN Treating /\ a.target \in Npcs \ {n} /\ a.long = Treating[n]
  /\ a.mode \in {"transfer", "refuse-request"} =>
       a.ask \in Requests /\ a.target = a.ask.from
  /\ a.mode \in AnswerModes => n = c.creditor /\ a.ask \in Proposals
  /\ a.mode = "propose-renegotiation" => a.terms \in Terms

\* What an NPC does was offered, and its journey and its end agree.
ActsFit(s, c) ==
  \A n \in Npcs : LET a == s.npc[n].act IN a # None =>
    /\ Fit(c, n, a)
    /\ a.ask # None => a.ask.at < a.ends
    /\ a.phase = "moving" /\ s.npc[n].transit # None => s.npc[n].transit.arrives = a.ends
    /\ a.phase = "active" /\ a.mode \in BenchModes => a.ends = EndTick

\* Who holds the bench works it and is there, and the promise's run is the
\* session of the debtor.
BenchBook(s, c) ==
  /\ \A n \in Npcs :
       /\ Holder(s) = n <=> AtBench(s, n)
       /\ s.worker = n <=> AtBench(s, n)
       /\ AtBench(s, n) => s.npc[n].loc = "bench" /\ s.npc[n].transit = None
  /\ s.bench # None => s.bench.since <= s.tick
  /\ s.promise.run # None => Holder(s) = c.debtor
  /\ s.promise.status = "active" /\ Holder(s) = c.debtor => s.promise.run # None
  /\ s.promise.run # None => s.promise.run = s.bench.since

Treats(s, h, p) == Active(s, h) /\ s.npc[h].act.mode = "treat" /\ s.npc[h].act.target = p

\* Only the owner is hurt, and an injury marked as treated is treated.
CareBook(s, c) ==
  /\ \A p \in Npcs : s.npc[p].sev # "none" =>
       p = c.owner /\ c.injury \in Nat /\ c.injury <= s.tick
  /\ \A p \in Npcs : Injured(s, p) /\ s.npc[p].since # None =>
       s.npc[p].by \in Npcs /\ Treats(s, s.npc[p].by, p)

\* A treatment has its marker.
CareMarked(s) ==
  \A h, p \in Npcs : Treats(s, h, p) =>
    /\ Injured(s, p) /\ s.npc[p].since # None /\ s.npc[p].by = h
    /\ s.npc[h].act.ends = s.npc[p].since + Treating[h]

MealBook(s) ==
  /\ \A e, f \in s.eaters : e = f
  /\ s.eaters # {} => ~s.meal.exists
  /\ \A e \in s.eaters : e.owner \notin {None, e.by} => e.by \in s.violators
  /\ \A n \in Npcs : Active(s, n) =>
       /\ s.npc[n].act.mode \in OwnerModes \cup {"eat"} => s.meal.owner \in {None, n}
       /\ s.npc[n].act.mode = "eat-violation" => n \in s.violators

AsksBook(s) ==
  /\ \A r \in s.requests : r.at <= s.tick
  /\ s.promise.proposal # None => s.promise.proposal.at <= s.tick

\* What holds of the world between any two handlers.
Sound(s, c) ==
  /\ s \in Worlds
  /\ ActsFit(s, c) /\ BenchBook(s, c) /\ CareBook(s, c) /\ MealBook(s) /\ AsksBook(s)

\* On the way to an action, but not on the way.
Stranded(s, n) ==
  s.npc[n].act # None /\ s.npc[n].act.phase = "moving" /\ s.npc[n].transit = None

\* Nothing is due at or before the current tick.
Ahead(s) ==
  \A n \in Npcs :
    /\ s.npc[n].transit # None => s.npc[n].transit.arrives > s.tick
    /\ s.npc[n].act # None => s.npc[n].act.ends > s.tick

\* The promise is judged at every tick: past its grace it waits only for a
\* session begun in time, or for the tick to judge one begun since.
Judged(s) ==
  s.promise.status = "active" =>
    \/ s.tick <= s.promise.terms.grace
    \/ s.promise.run = None
    \/ s.promise.run \in {s.tick} \cup 0..s.promise.terms.grace

Scripted(c) ==
  /\ {c.creditor, c.debtor, c.owner} = Npcs
  /\ c.injury \in (1..EndTick) \cup {None}

WorldInv ==
  /\ script \in Scripts
  /\ Sound(w, script) /\ CareMarked(w) /\ Judged(w)
  /\ \A n \in Npcs : ~Stranded(w, n)
  /\ w.tick < EndTick => Ahead(w)
  /\ step \in {"idle", "decide"} => w.tick < EndTick
  /\ step \in {"idle", "drain", "decide", "ended"} /\ turn \in DOMAIN Order
  /\ answered \subseteq Npcs
  /\ step = "ended" => \A n \in Npcs : w.npc[n].act = None

-----------------------------------------------------------------------------
(* The end of an action                                                    *)

\* What the end of an action leaves alone.
Untouched(s, t) ==
  /\ t.tick = s.tick /\ t.meal = s.meal /\ t.progress = s.progress /\ t.requests = s.requests
  /\ t.outcome = s.outcome /\ t.violators = s.violators /\ t.eaters = s.eaters
  /\ t.promise.terms = s.promise.terms /\ t.promise.proposal = s.promise.proposal
  /\ \A m \in Npcs :
       /\ t.npc[m].loc = s.npc[m].loc /\ t.npc[m].transit = s.npc[m].transit
       /\ t.npc[m].sev = s.npc[m].sev /\ t.npc[m].hurt = s.npc[m].hurt
       /\ t.npc[m].cooled = s.npc[m].cooled

BenchSame(s, t) == t.bench = s.bench /\ t.worker = s.worker
RunSame(s, t) == t.promise.run = s.promise.run /\ t.promise.status = s.promise.status
MarksSame(s, t) ==
  \A m \in Npcs : t.npc[m].since = s.npc[m].since /\ t.npc[m].by = s.npc[m].by
ActsSame(s, t) == \A m \in Npcs : t.npc[m].act = s.npc[m].act

LEMMA UntouchedTrans ==
  ASSUME NEW s, NEW t, NEW u, Untouched(s, t), Untouched(t, u)
  PROVE  Untouched(s, u)
BY DEF Untouched

\* What is under way and who is hurt are all that these parts look at.
LEMMA SameBooks ==
  ASSUME NEW c, NEW s, NEW t, t.tick = s.tick, t.npc = s.npc
  PROVE  /\ ActsFit(s, c) => ActsFit(t, c)
         /\ CareBook(s, c) => CareBook(t, c)
         /\ CareMarked(s) => CareMarked(t)
         /\ \A n \in Npcs : (Active(t, n) <=> Active(s, n)) /\ (AtBench(t, n) <=> AtBench(s, n))
<1>1. ActsFit(s, c) => ActsFit(t, c)
  BY DEF ActsFit
<1>2. \A n \in Npcs : (Active(t, n) <=> Active(s, n)) /\ (AtBench(t, n) <=> AtBench(s, n))
  BY DEF Active, AtBench
<1>3. \A h, p : (Treats(t, h, p) <=> Treats(s, h, p)) /\ (Injured(t, p) <=> Injured(s, p))
  BY DEF Treats, Injured, Active
<1>4. CareBook(s, c) => CareBook(t, c)
  BY <1>3 DEF CareBook
<1>5. CareMarked(s) => CareMarked(t)
  BY <1>3 DEF CareMarked
<1>6. QED
  BY <1>1, <1>2, <1>4, <1>5

LEMMA SameBench ==
  ASSUME NEW c, NEW s, NEW t, t.tick = s.tick, t.npc = s.npc, t.bench = s.bench,
         t.worker = s.worker, t.promise.run = s.promise.run,
         t.promise.status = "active" => s.promise.status = "active", BenchBook(s, c)
  PROVE  BenchBook(t, c)
<1>1. Holder(t) = Holder(s) /\ \A n \in Npcs : AtBench(t, n) <=> AtBench(s, n)
  BY SameBooks DEF Holder
<1>2. QED
  BY <1>1 DEF BenchBook

LEMMA IdleIs ==
  ASSUME NEW s \in Worlds, NEW n \in Npcs
  PROVE  /\ Idle(s, n) \in Worlds
         /\ Untouched(s, Idle(s, n)) /\ BenchSame(s, Idle(s, n)) /\ RunSame(s, Idle(s, n))
         /\ MarksSame(s, Idle(s, n))
         /\ Idle(s, n).npc[n].act = None
         /\ \A m \in Npcs \ {n} : Idle(s, n).npc[m].act = s.npc[m].act
  BY DEF Idle, Worlds, Bodies, Untouched, BenchSame, RunSame, MarksSame

LEMMA FulfilBeforeIs ==
  ASSUME NEW s \in Worlds, NEW n \in Npcs
  PROVE  LET t == FulfilBeforeRunEnd(s, n) IN
         /\ t \in Worlds
         /\ Untouched(s, t) /\ BenchSame(s, t) /\ MarksSame(s, t) /\ ActsSame(s, t)
         /\ t.promise.run = s.promise.run
         /\ t.promise.status = IF s.promise.status = "active" /\ n = Debtor /\ Kept(s)
                               THEN "fulfilled" ELSE s.promise.status
<1> DEFINE kept == Kept(s)
<1> HIDE DEF kept
<1>1. FulfilBeforeRunEnd(s, n) =
        IF s.promise.status = "active" /\ n = Debtor /\ kept
        THEN [s EXCEPT !.promise.status = "fulfilled"] ELSE s
  BY DEF FulfilBeforeRunEnd, Fulfil, kept
<1>2. QED
  BY <1>1 DEF Worlds, Promises, Untouched, BenchSame, RunSame, MarksSame, ActsSame, kept

\* The marker of an injury, set and taken back.
Marked(s, p, since, by) == [s EXCEPT !.npc[p].since = since, !.npc[p].by = by]

LEMMA MarkedIs ==
  ASSUME NEW s \in Worlds, NEW p \in Npcs,
         NEW since \in Ticks \cup {None}, NEW by \in Npcs \cup {None}
  PROVE  LET t == Marked(s, p, since, by) IN
         /\ t \in Worlds
         /\ Untouched(s, t) /\ BenchSame(s, t) /\ RunSame(s, t) /\ ActsSame(s, t)
         /\ t.npc[p].since = since /\ t.npc[p].by = by
         /\ \A m \in Npcs \ {p} : t.npc[m].since = s.npc[m].since /\ t.npc[m].by = s.npc[m].by
<1> DEFINE b == [s.npc[p] EXCEPT !.since = since, !.by = by]
<1>1. Marked(s, p, since, by) = [s EXCEPT !.npc = [@ EXCEPT ![p] = b]]
  BY DEF Marked, Worlds, Bodies
<1>2. /\ b \in Bodies /\ b.since = since /\ b.by = by /\ b.loc = s.npc[p].loc
      /\ b.transit = s.npc[p].transit /\ b.sev = s.npc[p].sev /\ b.hurt = s.npc[p].hurt
      /\ b.cooled = s.npc[p].cooled /\ b.act = s.npc[p].act
  <2>1. s.npc[p] \in Bodies
    BY DEF Worlds
  <2> DEFINE m == s.npc[p]
  <2> HIDE DEF m
  <2>2. m \in Bodies /\ b = [m EXCEPT !.since = since, !.by = by]
    BY <2>1 DEF m
  <2>3. /\ b \in Bodies /\ b.since = since /\ b.by = by /\ b.loc = m.loc
        /\ b.transit = m.transit /\ b.sev = m.sev /\ b.hurt = m.hurt
        /\ b.cooled = m.cooled /\ b.act = m.act
    BY <2>2 DEF Bodies
  <2>4. QED
    BY <2>3 DEF m
<1> HIDE DEF b
<1>3. QED
  BY <1>1, <1>2 DEF Worlds, Untouched, BenchSame, RunSame, ActsSame

LEMMA AbortIs ==
  ASSUME NEW s \in Worlds, NEW a \in Actions, a.mode = "treat" => a.target \in Npcs
  PROVE  LET t == AbortTreatment(s, a) IN
         /\ t \in Worlds
         /\ Untouched(s, t) /\ BenchSame(s, t) /\ RunSame(s, t) /\ ActsSame(s, t)
         /\ \A m \in Npcs :
              IF a.mode = "treat" /\ a.target = m /\ Injured(s, m)
              THEN t.npc[m].since = None /\ t.npc[m].by = None
              ELSE t.npc[m].since = s.npc[m].since /\ t.npc[m].by = s.npc[m].by
<1> DEFINE p == a.target
           t == AbortTreatment(s, a)
<1>1. CASE a.mode = "treat" /\ Injured(s, p)
  <2>1. t = Marked(s, p, None, None) /\ p \in Npcs
    BY <1>1 DEF AbortTreatment, Marked
  <2>2. QED
    BY <1>1, <2>1, MarkedIs
<1>2. CASE ~(a.mode = "treat" /\ Injured(s, p))
  <2>1. t = s
    BY <1>2 DEF AbortTreatment
  <2>2. QED
    BY <1>2, <2>1 DEF Untouched, BenchSame, RunSame, ActsSame
<1>3. QED
  BY <1>1, <1>2

LEMMA ClearIs ==
  ASSUME NEW s \in Worlds, NEW n \in Npcs
  PROVE  LET t == ClearBenchWork(s, n)
             session == s.npc[n].act.mode \in BenchModes
         IN
         /\ t \in Worlds
         /\ Untouched(s, t) /\ MarksSame(s, t) /\ ActsSame(s, t)
         /\ t.bench = s.bench /\ t.promise.status = s.promise.status
         /\ t.worker = IF session /\ s.worker = n THEN None ELSE s.worker
         /\ t.promise.run = IF session /\ n = Debtor THEN None ELSE s.promise.run
<1> DEFINE session == s.npc[n].act.mode \in BenchModes
           t == ClearBenchWork(s, n)
           worker == IF s.worker = n THEN None ELSE s.worker
           run == IF n = Debtor THEN None ELSE s.promise.run
           promise == [s.promise EXCEPT !.run = run]
           v == [s EXCEPT !.worker = worker, !.promise = promise]
<1>1. CASE ~session
  <2>1. t = s
    BY <1>1 DEF ClearBenchWork
  <2>2. QED
    BY <1>1, <2>1 DEF Untouched, MarksSame, ActsSame
<1>2. CASE session
  <2>1. t = v
    BY <1>2 DEF ClearBenchWork, Worlds
  <2>2. worker \in Npcs \cup {None} /\ s.promise \in Promises
    BY DEF Worlds
  <2>3. run \in Ticks \cup {None}
    BY <2>2 DEF Promises
  <2> HIDE DEF run
  <2>4. /\ promise \in Promises /\ promise.status = s.promise.status /\ promise.run = run
        /\ promise.terms = s.promise.terms /\ promise.proposal = s.promise.proposal
    BY <2>2, <2>3 DEF Promises
  <2> HIDE DEF worker, promise
  <2>5. /\ v \in Worlds
        /\ v.tick = s.tick /\ v.npc = s.npc /\ v.meal = s.meal /\ v.bench = s.bench
        /\ v.progress = s.progress /\ v.requests = s.requests /\ v.outcome = s.outcome
        /\ v.violators = s.violators /\ v.eaters = s.eaters
        /\ v.worker = worker /\ v.promise = promise
    BY <2>2, <2>4 DEF Worlds
  <2> HIDE DEF t, v, session
  <2>6. Untouched(s, t) /\ MarksSame(s, t) /\ ActsSame(s, t)
    BY <2>1, <2>4, <2>5 DEF Untouched, MarksSame, ActsSame
  <2>7. QED
    BY <1>2, <2>1, <2>4, <2>5, <2>6 DEF worker, run, t, session
<1>3. QED
  BY <1>1, <1>2

LEMMA ReleaseIs ==
  ASSUME NEW s \in Worlds, NEW n \in Npcs
  PROVE  LET t == ReleaseBench(s, n) IN
         /\ t \in Worlds
         /\ Untouched(s, t) /\ RunSame(s, t) /\ MarksSame(s, t) /\ ActsSame(s, t)
         /\ t.worker = s.worker
         /\ t.bench = IF Holder(s) = n THEN None ELSE s.bench
  BY DEF ReleaseBench, Worlds, Untouched, RunSame, MarksSame, ActsSame

\* Who is treated is an NPC.
Targeted(s) ==
  \A n \in Npcs : s.npc[n].act # None /\ s.npc[n].act.mode = "treat" => s.npc[n].act.target \in Npcs

\* What interruptAction and completeAction's bench branch leave, field by field.
LEMMA InterruptIs ==
  ASSUME NEW s \in Worlds, NEW n \in Npcs, Targeted(s), s.npc[n].act # None
  PROVE  LET t == Interrupt(s, n)
             a == s.npc[n].act
             session == AtBench(s, n)
         IN
         /\ t \in Worlds /\ Untouched(s, t)
         /\ t.npc[n].act = None
         /\ \A m \in Npcs \ {n} : t.npc[m].act = s.npc[m].act
         /\ \A m \in Npcs :
              IF a.mode = "treat" /\ a.target = m /\ Injured(s, m)
              THEN t.npc[m].since = None /\ t.npc[m].by = None
              ELSE t.npc[m].since = s.npc[m].since /\ t.npc[m].by = s.npc[m].by
         /\ t.bench = IF session /\ Holder(s) = n THEN None ELSE s.bench
         /\ t.worker = IF a.mode \in BenchModes /\ s.worker = n THEN None ELSE s.worker
         /\ t.promise.run =
              IF a.mode \in BenchModes /\ n = Debtor THEN None ELSE s.promise.run
         /\ t.promise.status =
              IF session /\ s.promise.status = "active" /\ n = Debtor /\ Kept(s)
              THEN "fulfilled" ELSE s.promise.status
<1> DEFINE a == s.npc[n].act
           session == AtBench(s, n)
           kept == s.promise.status = "active" /\ n = Debtor /\ Kept(s)
           before == IF session THEN FulfilBeforeRunEnd(s, n) ELSE s
           aborted == AbortTreatment(before, a)
           cleared == ClearBenchWork(aborted, n)
           ended == Idle(cleared, n)
           t == Interrupt(s, n)
<1>1. /\ before \in Worlds
      /\ Untouched(s, before) /\ BenchSame(s, before) /\ MarksSame(s, before)
      /\ ActsSame(s, before)
      /\ before.promise.run = s.promise.run
      /\ before.promise.status = IF session /\ kept THEN "fulfilled" ELSE s.promise.status
  BY FulfilBeforeIs DEF Untouched, BenchSame, MarksSame, ActsSame
<1>2. a \in Actions /\ (a.mode = "treat" => a.target \in Npcs)
  BY DEF Targeted, Worlds, Bodies
<1>3. t = IF session THEN ReleaseBench(ended, n) ELSE ended
  BY DEF Interrupt
<1> HIDE DEF before
<1>4. /\ aborted \in Worlds
      /\ Untouched(before, aborted) /\ BenchSame(before, aborted) /\ RunSame(before, aborted)
      /\ ActsSame(before, aborted)
      /\ \A m \in Npcs :
           IF a.mode = "treat" /\ a.target = m /\ Injured(before, m)
           THEN aborted.npc[m].since = None /\ aborted.npc[m].by = None
           ELSE aborted.npc[m].since = before.npc[m].since /\ aborted.npc[m].by = before.npc[m].by
  BY <1>1, <1>2, AbortIs
<1> HIDE DEF aborted
<1>5. /\ cleared \in Worlds
      /\ Untouched(aborted, cleared) /\ MarksSame(aborted, cleared) /\ ActsSame(aborted, cleared)
      /\ cleared.bench = aborted.bench /\ cleared.promise.status = aborted.promise.status
      /\ cleared.worker = IF aborted.npc[n].act.mode \in BenchModes /\ aborted.worker = n
                          THEN None ELSE aborted.worker
      /\ cleared.promise.run = IF aborted.npc[n].act.mode \in BenchModes /\ n = Debtor
                               THEN None ELSE aborted.promise.run
  BY <1>4, ClearIs
<1> HIDE DEF cleared
<1>6. /\ ended \in Worlds
      /\ Untouched(cleared, ended) /\ BenchSame(cleared, ended) /\ RunSame(cleared, ended)
      /\ MarksSame(cleared, ended)
      /\ ended.npc[n].act = None
      /\ \A m \in Npcs \ {n} : ended.npc[m].act = cleared.npc[m].act
  BY <1>5, IdleIs
<1> HIDE DEF ended
<1>7. /\ t \in Worlds
      /\ Untouched(ended, t) /\ RunSame(ended, t) /\ MarksSame(ended, t) /\ ActsSame(ended, t)
      /\ t.worker = ended.worker
      /\ t.bench = IF session /\ Holder(ended) = n THEN None ELSE ended.bench
  BY <1>3, <1>6, ReleaseIs DEF Untouched, RunSame, MarksSame, ActsSame
<1> HIDE DEF t, session, kept
<1>8. Untouched(s, t)
  <2>1. /\ Untouched(s, before) /\ Untouched(before, aborted) /\ Untouched(aborted, cleared)
        /\ Untouched(cleared, ended) /\ Untouched(ended, t)
    BY <1>1, <1>4, <1>5, <1>6, <1>7
  <2>2. Untouched(s, aborted)
    BY <2>1, UntouchedTrans
  <2>3. Untouched(s, cleared)
    BY <2>1, <2>2, UntouchedTrans
  <2>4. Untouched(s, ended)
    BY <2>1, <2>3, UntouchedTrans
  <2>5. QED
    BY <2>1, <2>4, UntouchedTrans
<1>9. aborted.npc[n].act.mode = a.mode
  BY <1>1, <1>4 DEF ActsSame
<1>10. /\ t.npc[n].act = None
       /\ \A m \in Npcs \ {n} : t.npc[m].act = s.npc[m].act
  <2>1. \A m \in Npcs : cleared.npc[m].act = s.npc[m].act
    <3>1. ActsSame(s, before) /\ ActsSame(before, aborted) /\ ActsSame(aborted, cleared)
      BY <1>1, <1>4, <1>5
    <3>2. QED
      BY <3>1 DEF ActsSame
  <2>2. \A m \in Npcs : t.npc[m].act = ended.npc[m].act
    BY <1>7 DEF ActsSame
  <2>3. QED
    BY <1>6, <2>1, <2>2
<1>11. ASSUME NEW m \in Npcs
       PROVE  IF a.mode = "treat" /\ a.target = m /\ Injured(s, m)
              THEN t.npc[m].since = None /\ t.npc[m].by = None
              ELSE t.npc[m].since = s.npc[m].since /\ t.npc[m].by = s.npc[m].by
  <2>1. /\ before.npc[m].since = s.npc[m].since /\ before.npc[m].by = s.npc[m].by
        /\ before.npc[m].sev = s.npc[m].sev
    BY <1>1 DEF MarksSame, Untouched
  <2>2. Injured(before, m) <=> Injured(s, m)
    BY <2>1 DEF Injured
  <2>3. t.npc[m].since = aborted.npc[m].since /\ t.npc[m].by = aborted.npc[m].by
    <3>1. MarksSame(aborted, cleared) /\ MarksSame(cleared, ended) /\ MarksSame(ended, t)
      BY <1>5, <1>6, <1>7
    <3>2. QED
      BY <3>1 DEF MarksSame
  <2>4. IF a.mode = "treat" /\ a.target = m /\ Injured(before, m)
        THEN aborted.npc[m].since = None /\ aborted.npc[m].by = None
        ELSE aborted.npc[m].since = before.npc[m].since /\ aborted.npc[m].by = before.npc[m].by
    BY <1>4
  <2>5. QED
    BY <2>1, <2>2, <2>3, <2>4
<1>12. /\ t.bench = IF session /\ Holder(s) = n THEN None ELSE s.bench
       /\ t.worker = IF a.mode \in BenchModes /\ s.worker = n THEN None ELSE s.worker
  BY <1>1, <1>4, <1>5, <1>6, <1>7, <1>9 DEF BenchSame, Holder
<1>13. /\ t.promise.run = IF a.mode \in BenchModes /\ n = Debtor THEN None ELSE s.promise.run
       /\ t.promise.status = IF session /\ kept THEN "fulfilled" ELSE s.promise.status
  BY <1>1, <1>4, <1>5, <1>6, <1>7, <1>9 DEF RunSame
<1>14. QED
  BY <1>7, <1>8, <1>10, <1>11, <1>12, <1>13 DEF t, session, kept

-----------------------------------------------------------------------------
(* What a handler may do to what others have under way                      *)

\* A bench session of the debtor that the promise, as it stands in t, honours.
Earned(c, s, t) ==
  /\ Holder(s) = c.debtor
  /\ s.bench.since <= t.promise.terms.grace
  /\ t.tick - s.bench.since >= MinRun /\ t.tick >= t.promise.terms.start

\* One handler, or several: what they begin is not due yet, the asks they add
\* are of this tick, and they fulfil the promise only for a session they found.
Onward(c, s, t) ==
  /\ t.tick = s.tick
  /\ \A n \in Npcs :
       /\ \/ t.npc[n].act \in {s.npc[n].act, None}
          \/ t.npc[n].act.ends > t.tick
          \/ t.npc[n].act.mode \in BenchModes
       /\ t.npc[n].transit \in {s.npc[n].transit, None} \/ t.npc[n].transit.arrives > t.tick
  /\ \A r \in t.requests : r \in s.requests \/ r.at = t.tick
  /\ t.promise.proposal \in {s.promise.proposal, None} \/ t.promise.proposal.at = t.tick
  /\ t.bench \in {s.bench, None} \/ t.bench.since = t.tick
  /\ s.promise.status # "active" =>
       t.promise.status = s.promise.status /\ t.promise.terms = s.promise.terms
  /\ s.promise.status = "active" =>
       t.promise.status = "active" \/ (t.promise.status = "fulfilled" /\ Earned(c, s, t))

\* No cure, no new owner and no new terms.
Settled(s, t) ==
  /\ \A p \in Npcs : t.npc[p].sev = "eased" => s.npc[p].sev = "eased"
  /\ t.meal.owner \in {s.meal.owner, None}
  /\ t.promise.terms = s.promise.terms

LEMMA OnwardRefl == ASSUME NEW c, NEW s PROVE Onward(c, s, s) /\ Settled(s, s)
  BY DEF Onward, Settled

LEMMA OnwardTrans ==
  ASSUME NEW c, NEW s \in Worlds, NEW t \in Worlds, NEW u \in Worlds,
         c.debtor \in Npcs, Onward(c, s, t), Onward(c, t, u)
  PROVE  Onward(c, s, u)
<1>1. u.tick = s.tick /\ t.tick = s.tick
  BY DEF Onward
<1>2. ASSUME NEW n \in Npcs
      PROVE /\ \/ u.npc[n].act \in {s.npc[n].act, None}
               \/ u.npc[n].act.ends > u.tick
               \/ u.npc[n].act.mode \in BenchModes
            /\ u.npc[n].transit \in {s.npc[n].transit, None} \/ u.npc[n].transit.arrives > u.tick
  BY <1>1 DEF Onward
<1>3. \A r \in u.requests : r \in s.requests \/ r.at = u.tick
  BY <1>1 DEF Onward
<1>4. u.promise.proposal \in {s.promise.proposal, None} \/ u.promise.proposal.at = u.tick
  BY <1>1 DEF Onward
<1>5. u.bench \in {s.bench, None} \/ u.bench.since = u.tick
  BY <1>1 DEF Onward
<1>6. s.promise.status # "active" =>
        u.promise.status = s.promise.status /\ u.promise.terms = s.promise.terms
  BY DEF Onward
<1>7. ASSUME s.promise.status = "active"
      PROVE  u.promise.status = "active" \/ (u.promise.status = "fulfilled" /\ Earned(c, s, u))
  <2>1. CASE t.promise.status = "active" /\ u.promise.status # "active"
    <3>1. u.promise.status = "fulfilled" /\ Earned(c, t, u)
      BY <2>1 DEF Onward
    <3>2. t.bench # None /\ t.bench \in Benches /\ u.tick - t.bench.since >= MinRun
      BY <3>1, NoneIsNothing DEF Earned, Holder, Worlds
    <3>3. t.bench.since # t.tick
      BY <1>1, <3>2, TimesAssumption DEF Benches, Worlds, Ticks
    <3>4. t.bench = s.bench
      BY <3>2, <3>3 DEF Onward
    <3>5. QED
      BY <3>1, <3>4 DEF Earned, Holder
  <2>2. CASE t.promise.status # "active"
    <3>1. /\ t.promise.status = "fulfilled" /\ Earned(c, s, t)
          /\ u.promise.status = t.promise.status /\ u.promise.terms = t.promise.terms
      BY <1>7, <2>2 DEF Onward
    <3>2. QED
      BY <1>1, <3>1 DEF Earned
  <2>3. QED
    BY <2>1, <2>2
<1>8. QED
  BY <1>1, <1>2, <1>3, <1>4, <1>5, <1>6, <1>7 DEF Onward

LEMMA SettledTrans ==
  ASSUME NEW s, NEW t, NEW u, Settled(s, t), Settled(t, u)
  PROVE  Settled(s, u)
  BY DEF Settled

\* A handler that keeps the world's books and the course of the promise.
Keeps(c, s, t) ==
  /\ Sound(t, c) /\ Onward(c, s, t)
  /\ \A n \in Npcs : Stranded(t, n) => Stranded(s, n)

LEMMA KeepsTrans ==
  ASSUME NEW c, NEW s, NEW t, NEW u, c.debtor \in Npcs, Sound(s, c), Keeps(c, s, t), Keeps(c, t, u)
  PROVE  Keeps(c, s, u)
  BY OnwardTrans DEF Keeps, Sound

-----------------------------------------------------------------------------
(* Interrupting                                                            *)

LEMMA RolesAre ==
  ASSUME NEW c \in Scripts
  PROVE  /\ c.creditor \in Npcs /\ c.debtor \in Npcs /\ c.owner \in Npcs
         /\ c.injury \in (1..EndTick) \cup {None} /\ c.removal \in (1..EndTick) \cup {None}
  BY TimesAssumption

LEMMA SoundTargets == ASSUME NEW s, NEW c, Sound(s, c) PROVE s \in Worlds /\ Targeted(s)
  BY DEF Sound, ActsFit, Fit, Targeted

LEMMA BenchOfOne ==
  ASSUME NEW s, NEW c, s \in Worlds, BenchBook(s, c)
  PROVE  /\ \A n \in Npcs : AtBench(s, n) => Holder(s) = n /\ s.worker = n
         /\ \A n, m \in Npcs : AtBench(s, n) /\ AtBench(s, m) => n = m
         /\ s.bench = None <=> Holder(s) = None
         /\ Holder(s) = None => s.promise.run = None \/ c.debtor = None
  BY NoneIsNothing DEF BenchBook, Holder, Worlds, Benches

\* Interrupting an action keeps every book; a treatment still on its way may
\* take another healer's marker with it.
LEMMA InterruptKeeps ==
  ASSUME script \in Scripts, NEW s, NEW n \in Npcs, Sound(s, script)
  PROVE  LET t == Interrupt(s, n) IN
         /\ Keeps(script, s, t) /\ Settled(s, t)
         /\ t.npc[n].act = None
         /\ \A m \in Npcs \ {n} : t.npc[m].act = s.npc[m].act
         /\ Untouched(s, t)
         /\ t.bench = IF AtBench(s, n) THEN None ELSE s.bench
<1> DEFINE t == Interrupt(s, n)
           a == s.npc[n].act
           c == script
<1> USE DEF Debtor
<1>1. CASE a = None
  <2>1. t = s
    BY <1>1 DEF Interrupt
  <2>2. ~AtBench(s, n)
    BY <1>1 DEF AtBench, Active
  <2>3. QED
    BY <1>1, <2>1, <2>2, OnwardRefl DEF Keeps, Untouched
<1>2. CASE a # None
  <2> DEFINE session == AtBench(s, n)
             kept == s.promise.status = "active" /\ n = c.debtor /\ Kept(s)
  <2>0. s \in Worlds /\ Targeted(s) /\ a \in Actions /\ c.debtor \in Npcs
    BY <1>2, SoundTargets, RolesAre DEF Worlds, Bodies
  <2>1. /\ t \in Worlds /\ Untouched(s, t)
        /\ t.npc[n].act = None
        /\ \A m \in Npcs \ {n} : t.npc[m].act = s.npc[m].act
        /\ \A m \in Npcs :
             IF a.mode = "treat" /\ a.target = m /\ Injured(s, m)
             THEN t.npc[m].since = None /\ t.npc[m].by = None
             ELSE t.npc[m].since = s.npc[m].since /\ t.npc[m].by = s.npc[m].by
        /\ t.bench = IF session /\ Holder(s) = n THEN None ELSE s.bench
        /\ t.worker = IF a.mode \in BenchModes /\ s.worker = n THEN None ELSE s.worker
        /\ t.promise.run = IF a.mode \in BenchModes /\ n = c.debtor THEN None ELSE s.promise.run
        /\ t.promise.status = IF session /\ kept THEN "fulfilled" ELSE s.promise.status
    BY <1>2, <2>0, InterruptIs
  <2> HIDE DEF t
  <2>2. /\ session <=> Holder(s) = n
        /\ session <=> s.worker = n
        /\ session => a.mode \in BenchModes
        /\ s.promise.run # None => Holder(s) = c.debtor
    BY DEF Sound, BenchBook, AtBench
  <2> HIDE DEF session, kept
  <2>3. /\ t.bench = IF session THEN None ELSE s.bench
        /\ t.worker = IF session THEN None ELSE s.worker
        /\ t.promise.run = IF session /\ n = c.debtor THEN None ELSE s.promise.run
    BY <2>1, <2>2, <2>0
  <2>4. ActsFit(t, c)
    <3>1. ActsFit(s, c)
      BY DEF Sound
    <3>2. \A m \in Npcs : t.npc[m].transit = s.npc[m].transit
      BY <2>1 DEF Untouched
    <3>3. t.npc[n].act = None /\ \A m \in Npcs \ {n} : t.npc[m].act = s.npc[m].act
      BY <2>1
    <3>4. QED
      BY <3>1, <3>2, <3>3 DEF ActsFit
  <2>5. \A m \in Npcs : AtBench(t, m) <=> m # n /\ AtBench(s, m)
    BY <2>1 DEF AtBench, Active
  <2>6. BenchBook(t, c)
    <3>1. ASSUME NEW m \in Npcs
          PROVE  /\ Holder(t) = m <=> AtBench(t, m)
                 /\ t.worker = m <=> AtBench(t, m)
                 /\ AtBench(t, m) => t.npc[m].loc = "bench" /\ t.npc[m].transit = None
      <4>1. /\ Holder(s) = m <=> AtBench(s, m)
            /\ s.worker = m <=> AtBench(s, m)
            /\ AtBench(s, m) => s.npc[m].loc = "bench" /\ s.npc[m].transit = None
        BY DEF Sound, BenchBook
      <4>2. AtBench(t, m) <=> m # n /\ AtBench(s, m)
        BY <2>5
      <4>3. /\ Holder(t) = IF session THEN None ELSE Holder(s)
            /\ t.worker = IF session THEN None ELSE s.worker
        BY <2>3 DEF Holder
      <4>4. t.npc[m].loc = s.npc[m].loc /\ t.npc[m].transit = s.npc[m].transit
        BY <2>1 DEF Untouched
      <4>5. None # m
        BY NoneIsNothing
      <4>6. Holder(t) = m <=> AtBench(t, m)
        BY <2>2, <4>1, <4>2, <4>3, <4>5
      <4>7. t.worker = m <=> AtBench(t, m)
        BY <2>2, <4>1, <4>2, <4>3, <4>5
      <4>8. QED
        BY <4>1, <4>2, <4>4, <4>6, <4>7
    <3>2. /\ t.bench # None => t.bench.since <= t.tick
          /\ t.promise.run # None => Holder(t) = c.debtor
          /\ t.promise.status = "active" /\ Holder(t) = c.debtor => t.promise.run # None
          /\ t.promise.run # None => t.promise.run = t.bench.since
      BY <2>0, <2>1, <2>2, <2>3, NoneIsNothing DEF Sound, BenchBook, Holder, Untouched
    <3>3. QED
      BY <3>1, <3>2 DEF BenchBook
  <2>7. CareBook(t, c)
    <3>1. \A p \in Npcs : t.npc[p].sev # "none" =>
            p = c.owner /\ c.injury \in Nat /\ c.injury <= t.tick
      BY <2>1 DEF Sound, CareBook, Untouched
    <3>2. ASSUME NEW p \in Npcs, Injured(t, p), t.npc[p].since # None
          PROVE  t.npc[p].by \in Npcs /\ Treats(t, t.npc[p].by, p)
      <4>1. Injured(s, p) /\ ~(a.mode = "treat" /\ a.target = p)
        BY <2>1, <3>2 DEF Injured, Untouched
      <4>2. t.npc[p].since = s.npc[p].since /\ t.npc[p].by = s.npc[p].by
        BY <2>1, <4>1
      <4>3. s.npc[p].by \in Npcs /\ Treats(s, s.npc[p].by, p)
        BY <3>2, <4>1, <4>2 DEF Sound, CareBook
      <4>4. QED
        BY <2>1, <4>1, <4>2, <4>3 DEF Treats, Active
    <3>3. QED
      BY <3>1, <3>2 DEF CareBook
  <2>8. MealBook(t) /\ AsksBook(t)
    BY <2>1 DEF Sound, MealBook, AsksBook, Untouched, Active
  <2>9. Onward(c, s, t)
    <3>1. ASSUME session, kept PROVE Earned(c, s, t)
      BY <2>0, <2>1, <2>2, <3>1, NoneIsNothing
         DEF kept, Kept, Earned, Sound, BenchBook, Untouched, Holder
    <3>2. /\ s.promise.status # "active" => t.promise.status = s.promise.status
          /\ s.promise.status = "active" =>
               t.promise.status = "active" \/ (t.promise.status = "fulfilled" /\ Earned(c, s, t))
      <4>1. CASE session /\ kept
        BY <2>1, <3>1, <4>1 DEF kept
      <4>2. CASE ~(session /\ kept)
        BY <2>1, <4>2
      <4>3. QED
        BY <4>1, <4>2
    <3>3. t.bench \in {s.bench, None}
      BY <2>3
    <3>4. QED
      BY <2>1, <3>2, <3>3 DEF Onward, Untouched
  <2>10. Settled(s, t)
    BY <2>1 DEF Settled, Untouched
  <2>11. \A m \in Npcs : Stranded(t, m) => Stranded(s, m)
    BY <2>1 DEF Stranded, Untouched
  <2>12. QED
    BY <2>1, <2>3, <2>4, <2>6, <2>7, <2>8, <2>9, <2>10, <2>11
       DEF Keeps, Sound, session, t
<1>3. QED
  BY <1>1, <1>2

\* Unless it was a treatment on its way, the markers stay true.
LEMMA InterruptMarks ==
  ASSUME script \in Scripts, NEW s, NEW n \in Npcs, Sound(s, script), CareMarked(s),
         Active(s, n) \/ ~(s.npc[n].act # None /\ s.npc[n].act.mode = "treat"
                           /\ Injured(s, s.npc[n].act.target))
  PROVE  CareMarked(Interrupt(s, n))
<1> DEFINE t == Interrupt(s, n)
           a == s.npc[n].act
<1>1. CASE a = None
  BY <1>1 DEF Interrupt
<1>2. CASE a # None
  <2>1. s \in Worlds /\ Targeted(s)
    BY SoundTargets
  <2>2. /\ Untouched(s, t)
        /\ t.npc[n].act = None
        /\ \A m \in Npcs \ {n} : t.npc[m].act = s.npc[m].act
        /\ \A m \in Npcs :
             IF a.mode = "treat" /\ a.target = m /\ Injured(s, m)
             THEN t.npc[m].since = None /\ t.npc[m].by = None
             ELSE t.npc[m].since = s.npc[m].since /\ t.npc[m].by = s.npc[m].by
    BY <1>2, <2>1, InterruptIs
  <2> HIDE DEF t
  <2>3. SUFFICES ASSUME NEW h \in Npcs, NEW p \in Npcs, Treats(t, h, p)
                 PROVE  /\ Injured(t, p) /\ t.npc[p].since # None /\ t.npc[p].by = h
                        /\ t.npc[h].act.ends = t.npc[p].since + Treating[h]
    BY DEF CareMarked, t
  <2>4. h # n /\ t.npc[h].act = s.npc[h].act /\ Treats(s, h, p)
    BY <2>2, <2>3 DEF Treats, Active
  <2>5. /\ Injured(s, p) /\ s.npc[p].since # None /\ s.npc[p].by = h
        /\ s.npc[h].act.ends = s.npc[p].since + Treating[h]
    BY <2>4 DEF CareMarked
  <2>6. ~(a.mode = "treat" /\ a.target = p)
    <3>1. CASE Active(s, n)
      BY <2>4, <2>5, <3>1 DEF CareMarked, Treats
    <3>2. CASE ~Active(s, n)
      BY <1>2, <2>5, <3>2
    <3>3. QED
      BY <3>1, <3>2
  <2>7. QED
    BY <2>2, <2>4, <2>5, <2>6 DEF Injured, Untouched
<1>3. QED
  BY <1>1, <1>2

\* A bench session ends in one way, whether completed or interrupted.
LEMMA CompletesAsInterrupted ==
  ASSUME NEW s \in Worlds, NEW n \in Npcs, AtBench(s, n)
  PROVE  CompleteBenchSession(s, n) = Interrupt(s, n)
<1> DEFINE before == FulfilBeforeRunEnd(s, n)
<1>1. s.npc[n].act # None /\ s.npc[n].act.mode # "treat"
  BY DEF AtBench, Active, BenchModes
<1>2. AbortTreatment(before, s.npc[n].act) = before
  BY <1>1 DEF AbortTreatment
<1>3. QED
  BY <1>1, <1>2 DEF CompleteBenchSession, Interrupt

-----------------------------------------------------------------------------
(* Steps 1-4: time, script, worsening                                      *)

LEMMA WorsenedIs ==
  ASSUME script \in Scripts, NEW s, NEW n \in Npcs, Sound(s, script), CareMarked(s),
         s.npc[n].sev \in {"eased", "serious"}, s.npc[n].since = None
  PROVE  LET t == [s EXCEPT !.npc[n].sev = "grave"] IN
         Keeps(script, s, t) /\ Settled(s, t) /\ CareMarked(t)
<1> DEFINE t == [s EXCEPT !.npc[n].sev = "grave"]
           c == script
<1>0. s \in Worlds
  BY DEF Sound
<1>1. /\ t \in Worlds
      /\ \A m \in Npcs : /\ t.npc[m].act = s.npc[m].act /\ t.npc[m].loc = s.npc[m].loc
                         /\ t.npc[m].transit = s.npc[m].transit
                         /\ t.npc[m].since = s.npc[m].since /\ t.npc[m].by = s.npc[m].by
                         /\ t.npc[m].sev = IF m = n THEN "grave" ELSE s.npc[m].sev
      /\ t.bench = s.bench /\ t.worker = s.worker /\ t.promise = s.promise /\ t.tick = s.tick
      /\ t.meal = s.meal /\ t.eaters = s.eaters /\ t.violators = s.violators
      /\ t.requests = s.requests
  BY <1>0 DEF Worlds, Bodies, Severities
<1> HIDE DEF t
<1>2. ActsFit(t, c) /\ MealBook(t) /\ AsksBook(t)
  <2>1. ActsFit(s, c) /\ MealBook(s) /\ AsksBook(s)
    BY DEF Sound
  <2>2. ActsFit(t, c)
    BY <1>1, <2>1 DEF ActsFit
  <2>3. MealBook(t)
    BY <1>1, <2>1 DEF MealBook, Active
  <2>4. AsksBook(t)
    BY <1>1, <2>1 DEF AsksBook, Active
  <2>5. QED
    BY <2>2, <2>3, <2>4
<1>3. BenchBook(t, c)
  BY <1>1 DEF Sound, BenchBook, Holder, AtBench, Active
<1>4. \A h, p \in Npcs : Treats(t, h, p) <=> Treats(s, h, p)
  BY <1>1 DEF Treats, Active
<1>5. CareBook(t, c)
  BY <1>1, <1>4 DEF Sound, CareBook, Injured
<1>6. CareMarked(t)
  BY <1>1, <1>4 DEF CareMarked, Injured
<1>7. Onward(c, s, t) /\ Settled(s, t) /\ \A m \in Npcs : Stranded(t, m) => Stranded(s, m)
  BY <1>1 DEF Onward, Settled, Stranded
<1>8. QED
  BY <1>1, <1>2, <1>3, <1>5, <1>6, <1>7 DEF Keeps, Sound, t

LEMMA WorsenKeeps ==
  ASSUME script \in Scripts, NEW s, NEW n \in Npcs, Sound(s, script), CareMarked(s)
  PROVE  LET t == Worsen(s, n) IN Keeps(script, s, t) /\ Settled(s, t) /\ CareMarked(t)
<1> DEFINE t == Worsen(s, n)
           u == [s EXCEPT !.npc[n].sev = "grave"]
<1>1. CASE t = s
  BY <1>1, OnwardRefl DEF Keeps
<1>2. CASE t # s
  <2>1. /\ s.npc[n].sev \in {"eased", "serious"} /\ s.npc[n].since = None
        /\ t = Interrupt(u, n)
    BY <1>2 DEF Worsen
  <2>2. Keeps(script, s, u) /\ Settled(s, u) /\ CareMarked(u)
    BY <2>1, WorsenedIs
  <2>3. s.npc[n].sev # "none" /\ s \in Worlds
    BY <2>1 DEF Sound
  <2>4. n = script.owner /\ script.owner \in Npcs /\ script.debtor \in Npcs
    BY <2>3, RolesAre DEF Sound, CareBook
  <2>5. \A p \in Npcs \ {n} : ~Injured(u, p)
    BY <2>2, <2>4 DEF Keeps, Sound, CareBook, Injured
  <2> HIDE DEF u
  <2>6. \/ u.npc[n].act = None
        \/ u.npc[n].act.mode # "treat"
        \/ ~Injured(u, u.npc[n].act.target)
    BY <2>2, <2>5 DEF Keeps, Sound, ActsFit, Fit
  <2>7. Keeps(script, u, t) /\ Settled(u, t)
    BY <2>1, <2>2, InterruptKeeps DEF Keeps
  <2>8. CareMarked(t)
    BY <2>1, <2>2, <2>6, InterruptMarks DEF Keeps
  <2>9. QED
    BY <2>2, <2>4, <2>7, <2>8, KeepsTrans, SettledTrans
<1>3. QED
  BY <1>1, <1>2

-----------------------------------------------------------------------------
(* Beginning                                                               *)

\* What may be begun: an offer, or an action that was one.
Planned(c, n, a) ==
  /\ a.mode \in Modes /\ a.target \in Npcs \cup {None} /\ a.place \in Places \cup {None}
  /\ a.long \in Nat /\ a.ask \in Requests \cup Proposals \cup {None}
  /\ a.terms \in Terms \cup {None} /\ a.interruptible \in BOOLEAN
  /\ Fit(c, n, a)

LEMMA PhaseIs ==
  ASSUME NEW c, NEW n, NEW a, Planned(c, n, a), NEW ends \in Nat,
         NEW phase \in {"moving", "active"}
  PROVE  LET b == Phase(a, phase, ends) IN
         /\ b \in Actions /\ Fit(c, n, b)
         /\ b.mode = a.mode /\ b.target = a.target /\ b.place = a.place /\ b.long = a.long
         /\ b.ask = a.ask /\ b.phase = phase /\ b.ends = ends
  BY DEF Phase, Actions, Planned, Fit

LEMMA StartedIs ==
  ASSUME NEW s \in Worlds, NEW n \in Npcs, NEW a, Planned(script, n, a)
  PROVE  LET t == Started(s, n, a)
             session == a.mode \in BenchModes
         IN
         /\ t \in Worlds /\ Untouched(s, t) /\ MarksSame(s, t)
         /\ t.bench = s.bench /\ t.promise.status = s.promise.status
         /\ t.worker = IF session THEN n ELSE s.worker
         /\ t.promise.run = IF session /\ n = Debtor /\ s.promise.status = "active"
                            THEN s.tick ELSE s.promise.run
         /\ t.npc[n].act = Phase(a, "active", IF session THEN EndTick ELSE s.tick + a.long)
         /\ \A m \in Npcs \ {n} : t.npc[m].act = s.npc[m].act
<1> DEFINE session == a.mode \in BenchModes
           ends == IF session THEN EndTick ELSE s.tick + a.long
           b == Phase(a, "active", ends)
           t == Started(s, n, a)
           body == [s.npc[n] EXCEPT !.act = b]
           running == session /\ n = Debtor /\ s.promise.status = "active"
           owed == [s.promise EXCEPT !.run = IF running THEN s.tick ELSE @]
<1>1. ends \in Nat
  BY TimesAssumption DEF Worlds, Ticks, Planned
<1>2. b \in Actions
  BY <1>1, PhaseIs
<1>3. t = [s EXCEPT !.npc = [@ EXCEPT ![n] = body], !.worker = IF session THEN n ELSE @,
                    !.promise = owed]
  BY DEF Started, Worlds, Bodies, Promises
<1> HIDE DEF b
<1>4. /\ body \in Bodies /\ body.act = b /\ body.loc = s.npc[n].loc
      /\ body.transit = s.npc[n].transit /\ body.sev = s.npc[n].sev
      /\ body.hurt = s.npc[n].hurt /\ body.since = s.npc[n].since
      /\ body.by = s.npc[n].by /\ body.cooled = s.npc[n].cooled
  BY <1>2 DEF Worlds, Bodies
<1>5. /\ owed \in Promises /\ owed.status = s.promise.status /\ owed.terms = s.promise.terms
      /\ owed.proposal = s.promise.proposal
      /\ owed.run = IF running THEN s.tick ELSE s.promise.run
  BY DEF Worlds, Promises
<1> HIDE DEF body, owed, t, ends
<1>6. /\ t \in Worlds
      /\ t.npc[n] = body /\ \A m \in Npcs \ {n} : t.npc[m] = s.npc[m]
      /\ t.worker = IF session THEN n ELSE s.worker
      /\ t.promise = owed /\ t.bench = s.bench
      /\ t.tick = s.tick /\ t.meal = s.meal /\ t.progress = s.progress
      /\ t.requests = s.requests /\ t.outcome = s.outcome /\ t.violators = s.violators
      /\ t.eaters = s.eaters
  BY <1>3, <1>4, <1>5 DEF Worlds
<1>7. Untouched(s, t) /\ MarksSame(s, t)
  BY <1>4, <1>5, <1>6 DEF Untouched, MarksSame
<1>8. QED
  BY <1>4, <1>5, <1>6, <1>7 DEF t, b, ends

LEMMA ReserveIs ==
  ASSUME NEW s \in Worlds, NEW n \in Npcs, s.bench = None
  PROVE  LET t == Reserve(s, n) IN
         /\ t \in Worlds /\ Untouched(s, t) /\ MarksSame(s, t) /\ RunSame(s, t) /\ ActsSame(s, t)
         /\ t.worker = s.worker
         /\ t.bench = [holder |-> n, since |-> s.tick]
  BY DEF Reserve, Worlds, Benches, Untouched, MarksSame, RunSame, ActsSame

LEMMA RelieveKeeps ==
  ASSUME script \in Scripts, NEW s, NEW n \in Npcs, Sound(s, script), CareMarked(s),
         Holder(s) # n
  PROVE  LET t == Relieve(s, n) IN
         /\ Keeps(script, s, t) /\ Settled(s, t) /\ CareMarked(t) /\ Untouched(s, t)
         /\ t.npc[n].act = s.npc[n].act
         /\ t.bench = None
<1> DEFINE t == Relieve(s, n)
           occupant == Holder(s)
<1>0. s \in Worlds /\ BenchBook(s, script)
  BY DEF Sound
<1>1. CASE occupant = None
  <2>1. t = s /\ s.bench = None
    BY <1>0, <1>1, BenchOfOne DEF Relieve
  <2>2. QED
    BY <2>1, OnwardRefl DEF Keeps, Untouched
<1>2. CASE occupant # None
  <2>1. occupant \in Npcs /\ AtBench(s, occupant)
    BY <1>0, <1>2 DEF BenchBook, Holder, Worlds, Benches
  <2>2. s.npc[occupant].act # None /\ Active(s, occupant)
    BY <2>1 DEF AtBench, Active
  <2>3. t = Interrupt(s, occupant)
    BY <1>2, <2>2 DEF Relieve
  <2>4. QED
    BY <2>1, <2>2, <2>3, InterruptKeeps, InterruptMarks
<1>3. QED
  BY <1>1, <1>2

\* The asks an action answers are not newer than it.
Asked(s, a) == a.ask # None => a.ask.at <= s.tick

LEMMA BenchBegins ==
  ASSUME script \in Scripts, NEW s, NEW n \in Npcs, NEW a, Sound(s, script), CareMarked(s),
         Planned(script, n, a), a.mode \in BenchModes, s.bench = None,
         s.npc[n].loc = "bench", s.npc[n].transit = None, ~Active(s, n)
  PROVE  LET t == Started(Reserve(s, n), n, a) IN
         Keeps(script, s, t) /\ Settled(s, t) /\ CareMarked(t) /\ ~Stranded(t, n)
<1> DEFINE r == Reserve(s, n)
           t == Started(r, n, a)
           b == Phase(a, "active", EndTick)
           c == script
<1> USE DEF Debtor
<1>0. /\ s \in Worlds /\ BenchBook(s, c) /\ c.debtor \in Npcs /\ EndTick \in Nat
      /\ s.tick \in Ticks
  BY RolesAre, TimesAssumption DEF Sound, Worlds
<1>1. /\ r \in Worlds /\ Untouched(s, r) /\ MarksSame(s, r) /\ RunSame(s, r) /\ ActsSame(s, r)
      /\ r.worker = s.worker
      /\ r.bench = [holder |-> n, since |-> s.tick]
  BY <1>0, ReserveIs
<1> HIDE DEF r
<1>2. /\ t \in Worlds /\ Untouched(r, t) /\ MarksSame(r, t)
      /\ t.bench = r.bench /\ t.promise.status = r.promise.status
      /\ t.worker = n
      /\ t.promise.run = IF n = c.debtor /\ r.promise.status = "active"
                         THEN r.tick ELSE r.promise.run
      /\ t.npc[n].act = b
      /\ \A m \in Npcs \ {n} : t.npc[m].act = r.npc[m].act
  BY <1>1, StartedIs
<1>3. /\ b \in Actions /\ Fit(c, n, b) /\ b.mode = a.mode /\ b.phase = "active"
      /\ b.ends = EndTick /\ b # None /\ b.ask = a.ask
  BY <1>0, PhaseIs, NoneIsNothing
<1> HIDE DEF t, b
<1>4. Untouched(s, t) /\ MarksSame(s, t)
  BY <1>1, <1>2 DEF Untouched, MarksSame
<1>5. \A m \in Npcs \ {n} : t.npc[m].act = s.npc[m].act
  BY <1>1, <1>2 DEF ActsSame
<1>6. /\ Holder(t) = n /\ t.bench # None /\ t.bench.since = s.tick /\ t.bench.holder = n
      /\ t.promise.status = s.promise.status
      /\ t.promise.run = IF n = c.debtor /\ s.promise.status = "active"
                         THEN s.tick ELSE s.promise.run
  <2>1. [holder |-> n, since |-> s.tick] \in Benches
    BY <1>0 DEF Benches
  <2>2. t.bench # None /\ t.bench.since = s.tick /\ t.bench.holder = n
    BY <1>1, <1>2, <2>1, NoneIsNothing
  <2>3. QED
    BY <1>1, <1>2, <2>2 DEF RunSame, Untouched, Holder
<1>7. /\ AtBench(t, n)
      /\ \A m \in Npcs \ {n} : AtBench(t, m) <=> AtBench(s, m)
  BY <1>2, <1>3, <1>5 DEF AtBench, Active
<1>8. /\ \A m \in Npcs : ~AtBench(s, m)
      /\ s.promise.run = None
  BY <1>0, NoneIsNothing DEF BenchBook, Holder
<1>9. BenchBook(t, c)
  <2>1. ASSUME NEW m \in Npcs
        PROVE  /\ Holder(t) = m <=> AtBench(t, m)
               /\ t.worker = m <=> AtBench(t, m)
               /\ AtBench(t, m) => t.npc[m].loc = "bench" /\ t.npc[m].transit = None
    BY <1>2, <1>4, <1>6, <1>7, <1>8 DEF Untouched
  <2>2. /\ t.bench.since <= t.tick
        /\ t.promise.run # None => Holder(t) = c.debtor
        /\ t.promise.status = "active" /\ Holder(t) = c.debtor => t.promise.run # None
        /\ t.promise.run # None => t.promise.run = t.bench.since
    BY <1>0, <1>4, <1>6, <1>8, NoneIsNothing DEF Untouched, Ticks
  <2>3. QED
    BY <2>1, <2>2 DEF BenchBook
<1>10. ActsFit(t, c)
  <2>1. SUFFICES ASSUME NEW m \in Npcs, t.npc[m].act # None
                 PROVE  LET x == t.npc[m].act IN
                        /\ Fit(c, m, x)
                        /\ x.ask # None => x.ask.at < x.ends
                        /\ x.phase = "moving" /\ t.npc[m].transit # None =>
                             t.npc[m].transit.arrives = x.ends
                        /\ x.phase = "active" /\ x.mode \in BenchModes => x.ends = EndTick
    BY DEF ActsFit
  <2>2. CASE m = n
    <3>1. b.ask = None
      BY <1>3 DEF Fit
    <3>2. QED
      BY <1>2, <1>3, <2>2, <3>1
  <2>3. CASE m # n
    <3>1. t.npc[m].act = s.npc[m].act /\ t.npc[m].transit = s.npc[m].transit
      BY <1>4, <1>5, <2>3 DEF Untouched
    <3>2. QED
      BY <2>1, <3>1 DEF Sound, ActsFit
  <2>4. QED
    BY <2>2, <2>3
<1>11. \A h, p \in Npcs : Treats(t, h, p) <=> Treats(s, h, p)
  BY <1>2, <1>3, <1>5 DEF Treats, Active, BenchModes
<1>12. CareBook(t, c) /\ CareMarked(t)
  <2>1. CareBook(t, c)
    BY <1>4, <1>11 DEF Sound, CareBook, Injured, Untouched, MarksSame
  <2>2. ASSUME NEW h \in Npcs, NEW p \in Npcs, Treats(t, h, p)
        PROVE  /\ Injured(t, p) /\ t.npc[p].since # None /\ t.npc[p].by = h
               /\ t.npc[h].act.ends = t.npc[p].since + Treating[h]
    BY <1>4, <1>5, <1>11, <2>2 DEF CareMarked, Injured, Untouched, MarksSame, Treats
  <2>3. QED
    BY <2>1, <2>2 DEF CareMarked
<1>13. MealBook(t) /\ AsksBook(t)
  <2>1. AsksBook(t)
    BY <1>4 DEF Sound, AsksBook, Untouched
  <2>2. \A m \in Npcs : Active(t, m) =>
          /\ t.npc[m].act.mode \in OwnerModes \cup {"eat"} => t.meal.owner \in {None, m}
          /\ t.npc[m].act.mode = "eat-violation" => m \in t.violators
    BY <1>2, <1>3, <1>4, <1>5
       DEF Sound, MealBook, Untouched, Active, BenchModes, OwnerModes
  <2>3. QED
    BY <1>4, <2>1, <2>2 DEF Sound, MealBook, Untouched
<1>14. Onward(c, s, t) /\ Settled(s, t)
  BY <1>2, <1>3, <1>4, <1>5, <1>6 DEF Onward, Settled, Untouched
<1>15. ~Stranded(t, n) /\ \A m \in Npcs : Stranded(t, m) => Stranded(s, m)
  BY <1>2, <1>3, <1>4, <1>5 DEF Stranded, Untouched
<1>16. QED
  BY <1>2, <1>9, <1>10, <1>12, <1>13, <1>14, <1>15 DEF Keeps, Sound, t, r

\* What the beginning of any other action leaves.
LEMMA OtherBeginsIs ==
  ASSUME NEW s \in Worlds, NEW n \in Npcs, NEW a, Planned(script, n, a),
         a.mode \notin BenchModes, a.mode = "eat-violation" => s.meal.owner \notin {None, n}
  PROVE  LET t == BeginActivePhase(s, n, a) IN
         /\ t \in Worlds
         /\ t.tick = s.tick /\ t.meal = s.meal /\ t.progress = s.progress
         /\ t.requests = s.requests /\ t.outcome = s.outcome /\ t.eaters = s.eaters
         /\ t.promise = s.promise
         /\ t.violators = IF a.mode = "eat-violation" THEN s.violators \cup {n} ELSE s.violators
         /\ t.bench = s.bench /\ t.worker = s.worker
         /\ \A m \in Npcs :
              /\ t.npc[m].loc = s.npc[m].loc /\ t.npc[m].transit = s.npc[m].transit
              /\ t.npc[m].sev = s.npc[m].sev /\ t.npc[m].hurt = s.npc[m].hurt
              /\ t.npc[m].cooled = s.npc[m].cooled
              /\ IF a.mode = "treat" /\ m = a.target
                 THEN t.npc[m].since = s.tick /\ t.npc[m].by = n
                 ELSE t.npc[m].since = s.npc[m].since /\ t.npc[m].by = s.npc[m].by
         /\ t.npc[n].act = Phase(a, "active", s.tick + a.long)
         /\ \A m \in Npcs \ {n} : t.npc[m].act = s.npc[m].act
<1> DEFINE e == Entry(s, n, a)
           t == BeginActivePhase(s, n, a)
           b == Phase(a, "active", s.tick + a.long)
<1>1. /\ e \in Worlds
      /\ e.tick = s.tick /\ e.meal = s.meal /\ e.progress = s.progress
      /\ e.requests = s.requests /\ e.outcome = s.outcome /\ e.eaters = s.eaters
      /\ e.promise = s.promise
      /\ e.violators = IF a.mode = "eat-violation" THEN s.violators \cup {n} ELSE s.violators
      /\ e.bench = s.bench /\ e.worker = s.worker
      /\ \A m \in Npcs :
           /\ e.npc[m].loc = s.npc[m].loc /\ e.npc[m].transit = s.npc[m].transit
           /\ e.npc[m].sev = s.npc[m].sev /\ e.npc[m].hurt = s.npc[m].hurt
           /\ e.npc[m].cooled = s.npc[m].cooled /\ e.npc[m].act = s.npc[m].act
           /\ IF a.mode = "treat" /\ m = a.target
              THEN e.npc[m].since = s.tick /\ e.npc[m].by = n
              ELSE e.npc[m].since = s.npc[m].since /\ e.npc[m].by = s.npc[m].by
  <2>1. CASE a.mode = "eat-violation"
    <3>1. e = [s EXCEPT !.violators = @ \cup {n}]
      BY <2>1 DEF Entry
    <3>2. QED
      BY <2>1, <3>1 DEF Worlds
  <2>2. CASE a.mode = "treat"
    <3>1. a.target \in Npcs /\ s.tick \in Ticks
      BY <2>2 DEF Planned, Fit, Worlds
    <3>2. e = Marked(s, a.target, s.tick, n)
      BY <2>2 DEF Entry, Marked
    <3>3. e.promise = s.promise /\ e.bench = s.bench /\ e.worker = s.worker
      BY <3>1, <3>2 DEF Marked, Worlds
    <3> HIDE DEF e
    <3>4. /\ e \in Worlds /\ Untouched(s, e) /\ ActsSame(s, e)
          /\ e.npc[a.target].since = s.tick /\ e.npc[a.target].by = n
          /\ \A m \in Npcs \ {a.target} :
               e.npc[m].since = s.npc[m].since /\ e.npc[m].by = s.npc[m].by
      <4> DEFINE p == a.target
                 since == s.tick
                 v == Marked(s, p, since, n)
      <4>1. p \in Npcs /\ since \in Ticks \cup {None} /\ n \in Npcs \cup {None}
        BY <3>1
      <4> HIDE DEF p, since
      <4>2. /\ v \in Worlds /\ Untouched(s, v) /\ ActsSame(s, v)
            /\ v.npc[p].since = since /\ v.npc[p].by = n
            /\ \A m \in Npcs \ {p} : v.npc[m].since = s.npc[m].since /\ v.npc[m].by = s.npc[m].by
        BY <4>1, MarkedIs DEF BenchSame, RunSame
      <4> HIDE DEF v
      <4>3. e = v
        BY <3>2 DEF v, p, since
      <4>4. QED
        BY <4>2, <4>3 DEF p, since
    <3>5. QED
      BY <2>2, <3>1, <3>3, <3>4 DEF Untouched, ActsSame
  <2>3. CASE a.mode \notin {"eat-violation", "treat"}
    <3>1. e = s
      BY <2>3 DEF Entry, BenchModes
    <3>2. QED
      BY <2>3, <3>1
  <2>4. QED
    BY <2>1, <2>2, <2>3
<1>2. t = Started(e, n, a)
  BY DEF BeginActivePhase
<1> HIDE DEF e
<1>3. /\ t \in Worlds /\ Untouched(e, t) /\ MarksSame(e, t)
      /\ t.bench = e.bench /\ t.promise.status = e.promise.status
      /\ t.worker = e.worker /\ t.promise.run = e.promise.run
      /\ t.npc[n].act = Phase(a, "active", e.tick + a.long)
      /\ \A m \in Npcs \ {n} : t.npc[m].act = e.npc[m].act
  BY <1>1, <1>2, StartedIs
<1> HIDE DEF t
<1>4. t.promise = e.promise
  BY <1>1, <1>3 DEF Worlds, Promises, Untouched
<1>5. t.npc[n].act = b
  BY <1>1, <1>3
<1> HIDE DEF b
<1>6. QED
  BY <1>1, <1>3, <1>4, <1>5 DEF Untouched, MarksSame, t, b

LEMMA OtherBegins ==
  ASSUME script \in Scripts, NEW s, NEW n \in Npcs, NEW a, Sound(s, script), CareMarked(s),
         Planned(script, n, a), Asked(s, a), a.mode \notin BenchModes, Startable(s, n, a, TRUE),
         ~Active(s, n)
  PROVE  LET t == BeginActivePhase(s, n, a) IN
         Keeps(script, s, t) /\ Settled(s, t) /\ CareMarked(t) /\ ~Stranded(t, n)
<1> DEFINE t == BeginActivePhase(s, n, a)
           b == Phase(a, "active", s.tick + a.long)
           c == script
<1>0. /\ s \in Worlds /\ s.tick \in Nat /\ a.long \in Nat /\ a.long > 0
  BY TimesAssumption DEF Sound, Worlds, Ticks, Planned, Fit
<1>1. /\ a.mode = "treat" =>
           /\ Injured(s, a.target) /\ s.npc[a.target].since = None
           /\ a.target \in Npcs /\ a.target # n /\ a.long = Treating[n]
      /\ a.mode = "eat" => s.meal.owner \in {None, n}
      /\ a.mode = "eat-violation" => s.meal.owner \notin {None, n}
      /\ a.mode \in OwnerModes => s.meal.owner = n
  BY DEF Startable, Untreated, Planned, Fit
<1>2. /\ t \in Worlds
      /\ t.tick = s.tick /\ t.meal = s.meal
      /\ t.requests = s.requests /\ t.eaters = s.eaters
      /\ t.promise = s.promise
      /\ t.violators = IF a.mode = "eat-violation" THEN s.violators \cup {n} ELSE s.violators
      /\ t.bench = s.bench /\ t.worker = s.worker
      /\ \A m \in Npcs :
           /\ t.npc[m].loc = s.npc[m].loc /\ t.npc[m].transit = s.npc[m].transit
           /\ t.npc[m].sev = s.npc[m].sev
           /\ IF a.mode = "treat" /\ m = a.target
              THEN t.npc[m].since = s.tick /\ t.npc[m].by = n
              ELSE t.npc[m].since = s.npc[m].since /\ t.npc[m].by = s.npc[m].by
      /\ t.npc[n].act = b
      /\ \A m \in Npcs \ {n} : t.npc[m].act = s.npc[m].act
  <2>1. a.mode = "eat-violation" => s.meal.owner \notin {None, n}
    BY <1>1
  <2>2. QED
    BY <1>0, <2>1, OtherBeginsIs
<1>3. /\ b \in Actions /\ Fit(c, n, b) /\ b.mode = a.mode /\ b.phase = "active"
      /\ b.ends = s.tick + a.long /\ b # None /\ b.ask = a.ask /\ b.target = a.target
  BY <1>0, PhaseIs, NoneIsNothing
<1> HIDE DEF t, b
<1>4. \A m \in Npcs : AtBench(t, m) <=> AtBench(s, m)
  BY <1>2, <1>3 DEF AtBench, Active
<1>5. BenchBook(t, c)
  BY <1>2, <1>4 DEF Sound, BenchBook, Holder
<1>6. ActsFit(t, c)
  <2>1. b.ask # None => b.ask.at < b.ends
    <3>1. ASSUME a.ask # None PROVE a.ask.at \in Nat /\ a.ask.at <= s.tick
      BY <3>1, TimesAssumption DEF Asked, Planned, Requests, Proposals, Ticks
    <3>2. QED
      BY <1>0, <1>3, <3>1
  <2>2. /\ t.npc[n].act = b /\ Fit(c, n, b) /\ b.phase = "active" /\ b.mode \notin BenchModes
    BY <1>2, <1>3
  <2>3. \A m \in Npcs \ {n} : t.npc[m].act = s.npc[m].act /\ t.npc[m].transit = s.npc[m].transit
    BY <1>2
  <2>4. ActsFit(s, c)
    BY DEF Sound
  <2>5. QED
    BY <2>1, <2>2, <2>3, <2>4 DEF ActsFit
<1>7. /\ \A h \in Npcs \ {n} : \A p \in Npcs : Treats(t, h, p) <=> Treats(s, h, p)
      /\ \A p \in Npcs : Treats(t, n, p) <=> a.mode = "treat" /\ p = a.target
      /\ \A p \in Npcs : ~Treats(s, n, p)
  <2>1. ~Active(s, n) /\ Active(t, n)
    BY <1>2, <1>3 DEF Active
  <2>2. ASSUME NEW h \in Npcs \ {n}, NEW p \in Npcs PROVE Treats(t, h, p) <=> Treats(s, h, p)
    BY <1>2 DEF Treats, Active
  <2>3. ASSUME NEW p \in Npcs PROVE Treats(t, n, p) <=> a.mode = "treat" /\ p = a.target
    BY <1>2, <1>3, <2>1 DEF Treats
  <2>4. ASSUME NEW p \in Npcs PROVE ~Treats(s, n, p)
    BY <2>1 DEF Treats
  <2>5. QED
    BY <2>2, <2>3, <2>4
<1>8. CareBook(t, c)
  <2>1. \A p \in Npcs : t.npc[p].sev # "none" =>
          p = c.owner /\ c.injury \in Nat /\ c.injury <= t.tick
    BY <1>2 DEF Sound, CareBook
  <2>2. ASSUME NEW p \in Npcs, Injured(t, p), t.npc[p].since # None
        PROVE  t.npc[p].by \in Npcs /\ Treats(t, t.npc[p].by, p)
    <3>1. CASE a.mode = "treat" /\ p = a.target
      BY <1>2, <1>7, <3>1
    <3>2. CASE ~(a.mode = "treat" /\ p = a.target)
      <4>1. t.npc[p].since = s.npc[p].since /\ t.npc[p].by = s.npc[p].by /\ Injured(s, p)
        BY <1>2, <2>2, <3>2 DEF Injured
      <4>2. s.npc[p].by \in Npcs /\ Treats(s, s.npc[p].by, p)
        BY <2>2, <4>1 DEF Sound, CareBook
      <4>3. QED
        BY <1>7, <4>1, <4>2
    <3>3. QED
      BY <3>1, <3>2
  <2>3. QED
    BY <2>1, <2>2 DEF CareBook
<1>9. CareMarked(t)
  <2>1. SUFFICES ASSUME NEW h \in Npcs, NEW p \in Npcs, Treats(t, h, p)
                 PROVE  /\ Injured(t, p) /\ t.npc[p].since # None /\ t.npc[p].by = h
                        /\ t.npc[h].act.ends = t.npc[p].since + Treating[h]
    BY DEF CareMarked
  <2>2. CASE h = n
    BY <1>0, <1>1, <1>2, <1>3, <1>7, <2>1, <2>2, NoneIsNothing DEF Injured
  <2>3. CASE h # n
    <3>1. /\ Injured(s, p) /\ s.npc[p].since # None /\ s.npc[p].by = h
          /\ s.npc[h].act.ends = s.npc[p].since + Treating[h]
      BY <1>7, <2>1, <2>3 DEF CareMarked
    <3>2. ~(a.mode = "treat" /\ p = a.target)
      BY <1>1, <3>1
    <3>3. QED
      BY <1>2, <2>3, <3>1, <3>2 DEF Injured
  <2>4. QED
    BY <2>2, <2>3
<1>10. MealBook(t) /\ AsksBook(t)
  <2>1. AsksBook(t)
    BY <1>2 DEF Sound, AsksBook
  <2>2. ASSUME NEW m \in Npcs, Active(t, m)
        PROVE  /\ t.npc[m].act.mode \in OwnerModes \cup {"eat"} => t.meal.owner \in {None, m}
               /\ t.npc[m].act.mode = "eat-violation" => m \in t.violators
    BY <1>1, <1>2, <1>3, <2>2 DEF Sound, MealBook, Active
  <2>3. s.violators \subseteq t.violators
    BY <1>2
  <2>4. QED
    BY <1>2, <2>1, <2>2, <2>3 DEF Sound, MealBook
<1>11. Onward(c, s, t) /\ Settled(s, t)
  BY <1>0, <1>2, <1>3 DEF Onward, Settled
<1>12. ~Stranded(t, n) /\ \A m \in Npcs : Stranded(t, m) => Stranded(s, m)
  BY <1>2, <1>3 DEF Stranded
<1>13. QED
  BY <1>2, <1>5, <1>6, <1>8, <1>9, <1>10, <1>11, <1>12 DEF Keeps, Sound, t

\* Beginning where the action takes place, once it may.
LEMMA BeginKeeps ==
  ASSUME script \in Scripts, NEW s, NEW n \in Npcs, NEW a, Sound(s, script), CareMarked(s),
         Planned(script, n, a), Asked(s, a), Startable(s, n, a, TRUE),
         ~Active(s, n), s.npc[n].transit = None
  PROVE  LET t == BeginActivePhase(s, n, a) IN
         Keeps(script, s, t) /\ Settled(s, t) /\ CareMarked(t) /\ ~Stranded(t, n)
<1>1. CASE a.mode \notin BenchModes
  BY <1>1, OtherBegins
<1>2. CASE a.mode \in BenchModes
  <2> DEFINE u == IF a.mode = "work" THEN s ELSE Relieve(s, n)
             t == BeginActivePhase(s, n, a)
  <2>1. s \in Worlds /\ BenchBook(s, script) /\ script.debtor \in Npcs
    BY RolesAre DEF Sound
  <2>2. Holder(s) # n
    BY <2>1 DEF BenchBook, AtBench
  <2>3. a.mode = "work" => s.bench = None
    <3>1. a.mode = "work" => Holder(s) = None
      BY <1>2, <2>2 DEF Startable, BenchFits
    <3>2. QED
      BY <2>1, <3>1, BenchOfOne
  <2>4. /\ Keeps(script, s, u) /\ Settled(s, u) /\ CareMarked(u) /\ Untouched(s, u)
        /\ u.npc[n].act = s.npc[n].act
        /\ u.bench = None
    <3>1. CASE a.mode = "work"
      BY <2>3, <3>1, OnwardRefl DEF Keeps, Untouched
    <3>2. CASE a.mode # "work"
      BY <2>2, <3>2, RelieveKeeps
    <3>3. QED
      BY <3>1, <3>2
  <2>5. u.npc[n].loc = "bench" /\ u.npc[n].transit = None
    BY <1>2, <2>4, NoneIsNothing DEF Startable, Planned, Fit, Untouched, Places
  <2>6. t = Started(Reserve(u, n), n, a)
    BY <1>2 DEF BeginActivePhase, Entry, BenchModes
  <2> HIDE DEF u
  <2>7. ~Active(u, n)
    BY <2>4 DEF Active
  <2>8. Keeps(script, u, t) /\ Settled(u, t) /\ CareMarked(t) /\ ~Stranded(t, n)
    BY <1>2, <2>4, <2>5, <2>6, <2>7, BenchBegins DEF Keeps
  <2>9. QED
    BY <2>1, <2>4, <2>8, KeepsTrans, SettledTrans
<1>3. QED
  BY <1>1, <1>2

-----------------------------------------------------------------------------
(* Launching                                                               *)

LEMMA DepartKeeps ==
  ASSUME script \in Scripts, NEW s, NEW n \in Npcs, NEW a, Sound(s, script), CareMarked(s),
         Planned(script, n, a), Asked(s, a), a.place \in Places,
         s.npc[n].act = None, s.npc[n].transit = None
  PROVE  LET t == Depart(s, n, a) IN
         Keeps(script, s, t) /\ Settled(s, t) /\ CareMarked(t) /\ ~Stranded(t, n)
<1> DEFINE t == Depart(s, n, a)
           b == Phase(a, "moving", s.tick + Travel)
           road == [to |-> a.place, arrives |-> s.tick + Travel]
           body == [s.npc[n] EXCEPT !.transit = road, !.act = b]
           c == script
<1>0. /\ s \in Worlds /\ s.tick \in Nat /\ Travel \in Nat /\ Travel > 0
      /\ s.tick + Travel \in Nat
  BY TimesAssumption DEF Sound, Worlds, Ticks
<1>1. /\ b \in Actions /\ Fit(c, n, b) /\ b.mode = a.mode /\ b.phase = "moving"
      /\ b.ends = s.tick + Travel /\ b # None /\ b.ask = a.ask /\ b.target = a.target
  BY <1>0, PhaseIs, NoneIsNothing
<1>2. road \in Transits /\ road # None /\ road.arrives = s.tick + Travel
  BY <1>0, NoneIsNothing DEF Transits
<1>3. t = [s EXCEPT !.npc = [@ EXCEPT ![n] = body]]
  BY <1>0 DEF Depart, Worlds, Bodies
<1> HIDE DEF b, road
<1>4. /\ body \in Bodies /\ body.act = b /\ body.loc = s.npc[n].loc
      /\ body.transit = road /\ body.sev = s.npc[n].sev
      /\ body.since = s.npc[n].since /\ body.by = s.npc[n].by
  <2>1. s.npc[n] \in Bodies
    BY <1>0 DEF Worlds
  <2>2. b \in Actions \cup {None} /\ road \in Transits \cup {None}
    BY <1>1, <1>2
  <2>3. QED
    BY <2>1, <2>2 DEF Bodies
<1> HIDE DEF body, t
<1>5. /\ t \in Worlds
      /\ t.tick = s.tick /\ t.meal = s.meal /\ t.requests = s.requests /\ t.eaters = s.eaters
      /\ t.promise = s.promise /\ t.violators = s.violators
      /\ t.bench = s.bench /\ t.worker = s.worker
      /\ t.npc[n] = body /\ \A m \in Npcs \ {n} : t.npc[m] = s.npc[m]
  BY <1>0, <1>3, <1>4 DEF Worlds
<1>6. /\ \A m \in Npcs : Active(t, m) <=> Active(s, m)
      /\ \A m \in Npcs : Active(t, m) => m # n
  BY <1>1, <1>4, <1>5 DEF Active
<1>7. BenchBook(t, c)
  BY <1>5, <1>6 DEF Sound, BenchBook, Holder, AtBench
<1>8. ActsFit(t, c)
  <2>1. b.ask # None => b.ask.at < b.ends
    <3>1. ASSUME a.ask # None PROVE a.ask.at \in Nat /\ a.ask.at <= s.tick
      BY <3>1, TimesAssumption DEF Asked, Planned, Requests, Proposals, Ticks
    <3>2. QED
      BY <1>0, <1>1, <3>1
  <2>2. QED
    BY <1>1, <1>2, <1>4, <1>5, <2>1 DEF Sound, ActsFit
<1>9. \A h, p \in Npcs : Treats(t, h, p) <=> Treats(s, h, p)
  BY <1>5, <1>6 DEF Treats
<1>10. \A m \in Npcs : /\ t.npc[m].sev = s.npc[m].sev /\ t.npc[m].since = s.npc[m].since
                       /\ t.npc[m].by = s.npc[m].by
  BY <1>4, <1>5
<1>11. CareBook(t, c) /\ CareMarked(t)
  <2>1. CareBook(t, c)
    BY <1>5, <1>9, <1>10 DEF Sound, CareBook, Injured
  <2>2. CareMarked(t)
    BY <1>5, <1>6, <1>9, <1>10 DEF CareMarked, Injured, Treats
  <2>3. QED
    BY <2>1, <2>2
<1>12. MealBook(t) /\ AsksBook(t)
  BY <1>5, <1>6 DEF Sound, MealBook, AsksBook
<1>13. Onward(c, s, t) /\ Settled(s, t)
  BY <1>0, <1>1, <1>2, <1>4, <1>5, <1>10 DEF Onward, Settled
<1>14. ~Stranded(t, n) /\ \A m \in Npcs : Stranded(t, m) => Stranded(s, m)
  BY <1>2, <1>4, <1>5 DEF Stranded
<1>15. QED
  BY <1>5, <1>7, <1>8, <1>11, <1>12, <1>13, <1>14 DEF Keeps, Sound, t

\* proposeAndLaunch, for an NPC that is free to launch.
LEMMA LaunchKeeps ==
  ASSUME script \in Scripts, NEW s, NEW n \in Npcs, NEW a, Sound(s, script), CareMarked(s),
         Planned(script, n, a), Asked(s, a),
         s.npc[n].transit = None, s.npc[n].act # None => Active(s, n)
  PROVE  LET t == Launch(s, n, a) IN
         Keeps(script, s, t) /\ Settled(s, t) /\ CareMarked(t)
<1> DEFINE free == Interrupt(s, n)
           t == Launch(s, n, a)
<1>1. /\ Keeps(script, s, free) /\ Settled(s, free) /\ CareMarked(free)
      /\ free.npc[n].act = None /\ Untouched(s, free)
  BY InterruptKeeps, InterruptMarks
<1>2. /\ Sound(free, script) /\ free.npc[n].transit = None /\ Asked(free, a)
      /\ ~Active(free, n)
  BY <1>1 DEF Keeps, Untouched, Asked, Active
<1>3. t = IF ~Startable(free, n, a, FALSE) THEN free
          ELSE IF a.place \notin {None, s.npc[n].loc} THEN Depart(free, n, a)
          ELSE IF Startable(free, n, a, TRUE) THEN BeginActivePhase(free, n, a) ELSE free
  BY DEF Launch
<1> HIDE DEF free, t
<1>4. Keeps(script, free, t) /\ Settled(free, t) /\ CareMarked(t)
  <2>1. CASE t = free
    BY <1>1, <1>2, <2>1, OnwardRefl DEF Keeps
  <2>2. CASE a.place \notin {None, s.npc[n].loc} /\ t = Depart(free, n, a)
    <3>1. a.place \in Places
      BY <2>2 DEF Planned
    <3>2. QED
      BY <1>1, <1>2, <2>2, <3>1, DepartKeeps
  <2>3. CASE Startable(free, n, a, TRUE) /\ t = BeginActivePhase(free, n, a)
    BY <1>1, <1>2, <2>3, BeginKeeps
  <2>4. QED
    BY <1>3, <2>1, <2>2, <2>3
<1>5. script.debtor \in Npcs
  BY RolesAre
<1>6. QED
  BY <1>1, <1>4, <1>5, KeepsTrans, SettledTrans DEF t

-----------------------------------------------------------------------------
(* Steps 5-7 of a tick: arrivals, sustained checks, repair                 *)

\* An NPC whose action is not active may drop it.
LEMMA IdleKeeps ==
  ASSUME script \in Scripts, NEW s, NEW n \in Npcs, Sound(s, script), CareMarked(s), ~Active(s, n)
  PROVE  LET t == Idle(s, n) IN
         Keeps(script, s, t) /\ Settled(s, t) /\ CareMarked(t) /\ ~Stranded(t, n)
<1> DEFINE t == Idle(s, n)
           c == script
<1>0. s \in Worlds
  BY DEF Sound
<1>1. /\ t \in Worlds
      /\ Untouched(s, t) /\ BenchSame(s, t) /\ RunSame(s, t) /\ MarksSame(s, t)
      /\ t.npc[n].act = None
      /\ \A m \in Npcs \ {n} : t.npc[m].act = s.npc[m].act
  BY <1>0, IdleIs
<1> HIDE DEF t
<1>2. \A m \in Npcs : Active(t, m) <=> Active(s, m)
  BY <1>1 DEF Active
<1>3. \A m \in Npcs : Active(t, m) => t.npc[m].act = s.npc[m].act /\ m # n
  BY <1>1 DEF Active
<1>4. BenchBook(t, c)
  <2>1. \A m \in Npcs : AtBench(t, m) <=> AtBench(s, m)
    BY <1>2, <1>3 DEF AtBench
  <2>2. QED
    BY <1>1, <2>1 DEF Sound, BenchBook, Holder, Untouched, BenchSame, RunSame
<1>5. ActsFit(t, c)
  BY <1>1 DEF Sound, ActsFit, Untouched
<1>6. \A h, p \in Npcs : Treats(t, h, p) <=> Treats(s, h, p)
  BY <1>2, <1>3 DEF Treats
<1>7. CareBook(t, c)
  BY <1>1, <1>6 DEF Sound, CareBook, Injured, Untouched, MarksSame
<1>8. CareMarked(t)
  BY <1>1, <1>3, <1>6 DEF CareMarked, Injured, Untouched, MarksSame, Treats
<1>9. MealBook(t) /\ AsksBook(t)
  BY <1>1, <1>2, <1>3 DEF Sound, MealBook, AsksBook, Untouched
<1>10. Onward(c, s, t) /\ Settled(s, t)
  BY <1>1 DEF Onward, Settled, Untouched, BenchSame, RunSame
<1>11. ~Stranded(t, n) /\ \A m \in Npcs : Stranded(t, m) => Stranded(s, m)
  BY <1>1 DEF Stranded, Untouched
<1>12. QED
  BY <1>1, <1>4, <1>5, <1>7, <1>8, <1>9, <1>10, <1>11 DEF Keeps, Sound, t

\* The NPC is where it went; its action, if it has one, begins after that.
LEMMA ThereIs ==
  ASSUME script \in Scripts, NEW s, NEW n \in Npcs, Sound(s, script), CareMarked(s),
         s.npc[n].transit # None
  PROVE  LET t == [s EXCEPT !.npc[n].loc = s.npc[n].transit.to, !.npc[n].transit = None] IN
         /\ Sound(t, script) /\ Onward(script, s, t) /\ Settled(s, t) /\ CareMarked(t)
         /\ t.npc[n].transit = None /\ t.npc[n].act = s.npc[n].act /\ t.tick = s.tick
         /\ \A m \in Npcs \ {n} : t.npc[m] = s.npc[m]
<1> DEFINE c == script
           body == [s.npc[n] EXCEPT !.loc = s.npc[n].transit.to, !.transit = None]
           t == [s EXCEPT !.npc[n].loc = s.npc[n].transit.to, !.npc[n].transit = None]
<1>0. s \in Worlds /\ s.npc[n] \in Bodies /\ s.npc[n].transit.to \in Places
  BY DEF Sound, Worlds, Bodies, Transits
<1>1. t = [s EXCEPT !.npc = [@ EXCEPT ![n] = body]]
  BY <1>0 DEF Worlds
<1>2. /\ body \in Bodies /\ body.act = s.npc[n].act /\ body.transit = None
      /\ body.sev = s.npc[n].sev /\ body.since = s.npc[n].since /\ body.by = s.npc[n].by
  BY <1>0 DEF Bodies
<1> HIDE DEF body, t
<1>3. /\ t \in Worlds
      /\ t.tick = s.tick /\ t.meal = s.meal /\ t.requests = s.requests /\ t.eaters = s.eaters
      /\ t.promise = s.promise /\ t.violators = s.violators
      /\ t.bench = s.bench /\ t.worker = s.worker
      /\ t.npc[n] = body /\ \A m \in Npcs \ {n} : t.npc[m] = s.npc[m]
  BY <1>0, <1>1, <1>2 DEF Worlds
<1>4. \A m \in Npcs : /\ t.npc[m].act = s.npc[m].act /\ t.npc[m].sev = s.npc[m].sev
                      /\ t.npc[m].since = s.npc[m].since /\ t.npc[m].by = s.npc[m].by
                      /\ t.npc[m].transit = IF m = n THEN None ELSE s.npc[m].transit
  BY <1>2, <1>3
<1>5. BenchBook(t, c)
  <2>1. \A m \in Npcs : AtBench(t, m) <=> AtBench(s, m)
    BY <1>4 DEF AtBench, Active
  <2>2. ~AtBench(s, n)
    BY DEF Sound, BenchBook
  <2>3. QED
    BY <1>3, <1>4, <2>1, <2>2 DEF Sound, BenchBook, Holder
<1>6. ActsFit(t, c)
  BY <1>3, <1>4 DEF Sound, ActsFit
<1>7. \A h, p \in Npcs : Treats(t, h, p) <=> Treats(s, h, p)
  BY <1>4 DEF Treats, Active
<1>8. CareBook(t, c)
  BY <1>3, <1>4, <1>7 DEF Sound, CareBook, Injured
<1>9. CareMarked(t)
  BY <1>4, <1>7 DEF CareMarked, Injured
<1>10. MealBook(t) /\ AsksBook(t)
  BY <1>3, <1>4 DEF Sound, MealBook, AsksBook, Active
<1>11. Onward(c, s, t) /\ Settled(s, t)
  BY <1>3, <1>4 DEF Onward, Settled
<1>12. QED
  BY <1>2, <1>3, <1>4, <1>5, <1>6, <1>8, <1>9, <1>10, <1>11 DEF Sound, t

\* Whatever became of the action, nobody is left on the way past an arrival.
LEMMA ArriveKeeps ==
  ASSUME script \in Scripts, NEW s, NEW n \in Npcs, Sound(s, script), CareMarked(s)
  PROVE  LET t == Arrive(s, n) IN
         /\ Keeps(script, s, t) /\ Settled(s, t) /\ CareMarked(t)
         /\ s.npc[n].transit # None /\ s.npc[n].transit.arrives = s.tick =>
              t.npc[n].transit = None \/ t.npc[n].transit.arrives > t.tick
<1> DEFINE m == s.npc[n]
           there == [s EXCEPT !.npc[n].loc = m.transit.to, !.npc[n].transit = None]
           t == Arrive(s, n)
<1>1. CASE m.transit = None \/ m.transit.arrives # s.tick
  <2>1. t = s
    BY <1>1 DEF Arrive
  <2>2. QED
    BY <1>1, <2>1, OnwardRefl DEF Keeps
<1>2. CASE ~(m.transit = None \/ m.transit.arrives # s.tick)
  <2>1. /\ Sound(there, script) /\ Onward(script, s, there) /\ Settled(s, there)
        /\ CareMarked(there)
        /\ there.npc[n].transit = None /\ there.npc[n].act = m.act /\ there.tick = s.tick
        /\ \A k \in Npcs \ {n} : there.npc[k] = s.npc[k]
    BY <1>2, ThereIs
  <2>2. t = IF m.act = None \/ m.act.phase # "moving" THEN there
            ELSE IF Startable(there, n, m.act, TRUE) THEN BeginActivePhase(there, n, m.act)
            ELSE Idle(there, n)
    BY <1>2 DEF Arrive
  <2> HIDE DEF there, t
  <2>3. /\ Keeps(script, there, t) /\ Settled(there, t) /\ CareMarked(t) /\ ~Stranded(t, n)
    <3>1. CASE m.act = None \/ m.act.phase # "moving"
      BY <2>1, <2>2, <3>1, OnwardRefl DEF Keeps, Stranded
    <3>2. CASE ~(m.act = None \/ m.act.phase # "moving")
      <4>1. ~Active(there, n)
        BY <2>1, <3>2 DEF Active
      <4>2. Planned(script, n, m.act) /\ Asked(there, m.act)
        <5>1. m.act \in Actions
          BY <3>2 DEF Sound, Worlds, Bodies
        <5>2. Fit(script, n, m.act) /\ (m.act.ask # None => m.act.ask.at < s.tick)
          BY <1>2, <3>2 DEF Sound, ActsFit
        <5>3. m.act.ask # None => m.act.ask.at \in Nat
          BY <5>1, TimesAssumption DEF Actions, Requests, Proposals, Ticks
        <5>4. s.tick \in Nat
          BY TimesAssumption DEF Sound, Worlds, Ticks
        <5>5. QED
          BY <2>1, <5>1, <5>2, <5>3, <5>4 DEF Planned, Actions, Asked
      <4>3. CASE Startable(there, n, m.act, TRUE)
        BY <2>1, <2>2, <3>2, <4>1, <4>2, <4>3, BeginKeeps
      <4>4. CASE ~Startable(there, n, m.act, TRUE)
        BY <2>1, <2>2, <3>2, <4>1, <4>4, IdleKeeps
      <4>5. QED
        BY <4>3, <4>4
    <3>3. QED
      BY <3>1, <3>2
  <2>4. script.debtor \in Npcs /\ s \in Worlds /\ there \in Worlds /\ t \in Worlds
    BY <2>1, <2>3, RolesAre DEF Sound, Keeps
  <2>5. Onward(script, s, t) /\ Settled(s, t)
    BY <2>1, <2>3, <2>4, OnwardTrans, SettledTrans DEF Keeps
  <2>6. \A k \in Npcs : Stranded(t, k) => Stranded(s, k)
    BY <2>1, <2>3 DEF Keeps, Stranded
  <2>7. t.npc[n].transit = None \/ t.npc[n].transit.arrives > t.tick
    BY <2>1, <2>3 DEF Keeps, Onward
  <2>8. QED
    BY <2>3, <2>5, <2>6, <2>7 DEF Keeps, t
<1>3. QED
  BY <1>1, <1>2

LEMMA SustainKeeps ==
  ASSUME script \in Scripts, NEW s, NEW n \in Npcs, Sound(s, script), CareMarked(s)
  PROVE  LET t == Sustain(s, n) IN
         /\ Keeps(script, s, t) /\ Settled(s, t) /\ CareMarked(t)
<1> DEFINE t == Sustain(s, n)
<1>1. CASE t = s
  BY <1>1, OnwardRefl DEF Keeps
<1>2. CASE t # s
  <2>1. Active(s, n) /\ t = Interrupt(s, n)
    BY <1>2 DEF Sustain
  <2>2. QED
    BY <2>1, InterruptKeeps, InterruptMarks
<1>3. QED
  BY <1>1, <1>2

LEMMA RepairKeeps ==
  ASSUME script \in Scripts, NEW s, Sound(s, script), CareMarked(s)
  PROVE  LET t == ProgressRepair(s) IN
         /\ Keeps(script, s, t) /\ Settled(s, t) /\ CareMarked(t)
<1> DEFINE n == s.worker
           done == [s EXCEPT !.progress = @ + RepairDelta(s, n)]
           t == ProgressRepair(s)
<1>0. s \in Worlds /\ script.debtor \in Npcs
  BY RolesAre DEF Sound
<1>1. CASE t = s
  BY <1>1, OnwardRefl DEF Keeps
<1>2. CASE t # s
  <2>1. n # None /\ s.progress < Total /\ AtBench(s, n)
    <3>1. n # None /\ ~(s.progress >= Total) /\ AtBench(s, n)
      BY <1>2 DEF ProgressRepair
    <3>2. s.progress \in Nat /\ Total \in Nat
      BY <1>0, TimesAssumption DEF Worlds
    <3>3. QED
      BY <3>1, <3>2
  <2>2. n \in Npcs
    BY <1>0, <2>1 DEF Worlds
  <2>3. s.progress + RepairDelta(s, n) \in 0..Total
    <3>1. s.progress \in Nat /\ Total \in Nat /\ Rate[n] \in Nat
      BY <1>0, <2>2, TimesAssumption, RolesAssumption DEF Worlds
    <3>2. QED
      BY <2>1, <3>1 DEF RepairDelta
  <2> DEFINE progress == s.progress + RepairDelta(s, n)
             made == [s EXCEPT !.progress = progress]
  <2>4. done = made
    BY <1>0 DEF Worlds
  <2> HIDE DEF progress, done
  <2>5. /\ done \in Worlds
        /\ done.tick = s.tick /\ done.npc = s.npc /\ done.meal = s.meal
        /\ done.bench = s.bench /\ done.worker = s.worker /\ done.promise = s.promise
        /\ done.requests = s.requests /\ done.violators = s.violators /\ done.eaters = s.eaters
    BY <1>0, <2>3, <2>4 DEF Worlds, progress
  <2> HIDE DEF made
  <2>6. Keeps(script, s, done) /\ Settled(s, done) /\ CareMarked(done)
    <3>1. ActsFit(done, script) /\ BenchBook(done, script) /\ CareBook(done, script)
      BY <2>5, SameBooks, SameBench DEF Sound
    <3>2. MealBook(done) /\ AsksBook(done) /\ CareMarked(done)
      <4>1. MealBook(done)
        BY <2>5, SameBooks DEF Sound, MealBook
      <4>2. AsksBook(done)
        BY <2>5 DEF Sound, AsksBook
      <4>3. CareMarked(done)
        BY <2>5, SameBooks
      <4>4. QED
        BY <4>1, <4>2, <4>3
    <3>3. Onward(script, s, done) /\ Settled(s, done)
      BY <2>5 DEF Onward, Settled
    <3>4. QED
      BY <2>5, <3>1, <3>2, <3>3 DEF Keeps, Sound, Stranded
  <2>7. AtBench(done, n) /\ Active(done, n)
    BY <2>1, <2>5 DEF AtBench, Active
  <2>8. t = IF done.progress >= Total THEN CompleteBenchSession(done, n) ELSE done
    BY <2>1, <1>2 DEF ProgressRepair, done
  <2>9. CASE t = done
    BY <2>6, <2>9
  <2>10. CASE t = Interrupt(done, n)
    <3>1. Keeps(script, done, t) /\ Settled(done, t) /\ CareMarked(t)
      BY <2>2, <2>6, <2>7, <2>10, InterruptKeeps, InterruptMarks DEF Keeps
    <3>2. QED
      BY <1>0, <2>6, <3>1, KeepsTrans, SettledTrans
  <2>11. QED
    BY <2>2, <2>5, <2>7, <2>8, <2>9, <2>10, CompletesAsInterrupted
<1>3. QED
  BY <1>1, <1>2

-----------------------------------------------------------------------------
(* Step 8 of a tick: completions                                           *)

\* n's action is over, and nothing else about places, the bench and the run
\* of the promise has changed.
Ended(s, t, n) ==
  /\ t \in Worlds
  /\ t.tick = s.tick /\ t.bench = s.bench /\ t.worker = s.worker
  /\ t.promise.run = s.promise.run /\ t.promise.status = s.promise.status
  /\ t.violators = s.violators
  /\ t.npc[n].act = None /\ \A m \in Npcs \ {n} : t.npc[m].act = s.npc[m].act
  /\ \A m \in Npcs : t.npc[m].loc = s.npc[m].loc /\ t.npc[m].transit = s.npc[m].transit

CareSame(s, t) ==
  \A m \in Npcs : /\ t.npc[m].sev = s.npc[m].sev /\ t.npc[m].since = s.npc[m].since
                  /\ t.npc[m].by = s.npc[m].by
MealSame(s, t) == t.meal = s.meal /\ t.eaters = s.eaters
AsksSame(s, t) ==
  /\ t.requests = s.requests /\ t.promise.terms = s.promise.terms
  /\ t.promise.proposal = s.promise.proposal

LEMMA EndedKeeps ==
  ASSUME script \in Scripts, NEW s, NEW t, NEW n \in Npcs, Sound(s, script), Ended(s, t, n),
         ~AtBench(s, n)
  PROVE  /\ ActsFit(t, script) /\ BenchBook(t, script)
         /\ \A m \in Npcs : Stranded(t, m) => Stranded(s, m)
         /\ \A m \in Npcs : Active(t, m) <=> m # n /\ Active(s, m)
         /\ \A m \in Npcs : Active(t, m) => t.npc[m].act = s.npc[m].act
         /\ MealSame(s, t) => MealBook(t)
         /\ AsksSame(s, t) => AsksBook(t)
<1>1. /\ \A m \in Npcs : Active(t, m) <=> m # n /\ Active(s, m)
      /\ \A m \in Npcs : Active(t, m) => t.npc[m].act = s.npc[m].act
  BY DEF Ended, Active
<1>2. \A m \in Npcs : AtBench(t, m) <=> AtBench(s, m)
  BY <1>1 DEF AtBench
<1>3. BenchBook(t, script)
  BY <1>2 DEF Sound, BenchBook, Holder, Ended
<1>4. ActsFit(t, script) /\ \A m \in Npcs : Stranded(t, m) => Stranded(s, m)
  BY DEF Sound, ActsFit, Ended, Stranded
<1>5. MealSame(s, t) => MealBook(t)
  BY <1>1 DEF Sound, MealBook, MealSame, Ended
<1>6. AsksSame(s, t) => AsksBook(t)
  BY DEF Sound, AsksBook, AsksSame, Ended
<1>7. QED
  BY <1>1, <1>3, <1>4, <1>5, <1>6

\* An action that is no treatment ends without a trace in the injuries.
LEMMA EndedCares ==
  ASSUME script \in Scripts, NEW s, NEW t, NEW n \in Npcs, Sound(s, script), Ended(s, t, n),
         CareMarked(s), CareSame(s, t), \A p \in Npcs : ~Treats(s, n, p)
  PROVE  CareBook(t, script) /\ CareMarked(t)
<1>1. \A h, p \in Npcs : Treats(t, h, p) <=> Treats(s, h, p)
  BY DEF Ended, Active, Treats
<1>2. CareBook(t, script)
  BY <1>1 DEF Sound, CareBook, Injured, Ended, CareSame
<1>3. CareMarked(t)
  BY <1>1 DEF CareMarked, Injured, Ended, CareSame, Treats
<1>4. QED
  BY <1>2, <1>3

\* What the completions of a tick may do: each is due, and cures, hands over
\* or renegotiates only what its own action was about.
Concluded(c, s, t) ==
  /\ \A m \in Npcs :
       /\ t.npc[m].loc = s.npc[m].loc /\ t.npc[m].transit = s.npc[m].transit
       /\ t.npc[m].act \in {s.npc[m].act, None}
       /\ t.npc[m].sev = "eased" /\ s.npc[m].sev # "eased" =>
            \E h \in Npcs :
              Treats(s, h, m) /\ s.npc[h].act.ends = s.tick /\ Together(s, h, m)
  /\ t.promise.terms # s.promise.terms =>
       LET a == s.npc[c.creditor].act IN
       /\ Active(s, c.creditor) /\ a.mode = "accept-renegotiation" /\ a.ends = s.tick
       /\ s.promise.proposal = a.ask /\ a.ask # None /\ t.promise.terms = a.ask.terms
       /\ t.npc[c.creditor].act = None
  /\ t.meal.owner \notin {s.meal.owner, None} =>
       LET a == s.npc[s.meal.owner].act IN
       /\ s.meal.owner \in Npcs /\ Active(s, s.meal.owner)
       /\ a.mode = "transfer" /\ a.ends = s.tick
       /\ a.ask \in s.requests /\ t.meal.owner = a.ask.from

LEMMA ConcludedRefl == ASSUME NEW c, NEW s PROVE Concluded(c, s, s)
  BY DEF Concluded

LEMMA ConcludedTrans ==
  ASSUME NEW c, NEW s, NEW t, NEW u, c.creditor \in Npcs, Sound(s, c), Sound(t, c),
         Onward(c, s, t), Concluded(c, s, t), Concluded(c, t, u)
  PROVE  Concluded(c, s, u)
<1>0. s \in Worlds /\ t \in Worlds /\ t.tick = s.tick /\ s.tick \in Nat
  BY TimesAssumption DEF Sound, Onward, Worlds, Ticks
<1>1. \A m \in Npcs : Active(t, m) => Active(s, m) /\ t.npc[m].act = s.npc[m].act
  BY DEF Concluded, Active
<1>2. ASSUME NEW m \in Npcs
      PROVE  /\ u.npc[m].loc = s.npc[m].loc /\ u.npc[m].transit = s.npc[m].transit
             /\ u.npc[m].act \in {s.npc[m].act, None}
             /\ u.npc[m].sev = "eased" /\ s.npc[m].sev # "eased" =>
                  \E h \in Npcs :
                    Treats(s, h, m) /\ s.npc[h].act.ends = s.tick /\ Together(s, h, m)
  <2>1. /\ u.npc[m].loc = s.npc[m].loc /\ u.npc[m].transit = s.npc[m].transit
        /\ u.npc[m].act \in {s.npc[m].act, None}
    BY DEF Concluded
  <2>2. ASSUME u.npc[m].sev = "eased", t.npc[m].sev # "eased"
        PROVE  \E h \in Npcs :
                 Treats(s, h, m) /\ s.npc[h].act.ends = s.tick /\ Together(s, h, m)
    <3>1. PICK h \in Npcs : Treats(t, h, m) /\ t.npc[h].act.ends = t.tick /\ Together(t, h, m)
      BY <2>2 DEF Concluded
    <3>2. Treats(s, h, m) /\ s.npc[h].act.ends = s.tick
      BY <1>0, <1>1, <3>1 DEF Treats
    <3>3. Together(s, h, m)
      BY <3>1 DEF Concluded, Together
    <3>4. QED
      BY <3>2, <3>3
  <2>3. QED
    BY <2>1, <2>2 DEF Concluded
<1>3. ASSUME u.promise.terms # s.promise.terms
      PROVE  LET a == s.npc[c.creditor].act IN
             /\ Active(s, c.creditor) /\ a.mode = "accept-renegotiation" /\ a.ends = s.tick
             /\ s.promise.proposal = a.ask /\ a.ask # None /\ u.promise.terms = a.ask.terms
             /\ u.npc[c.creditor].act = None
  <2> DEFINE a == s.npc[c.creditor].act
  <2>1. CASE u.promise.terms = t.promise.terms
    <3>1. t.promise.terms # s.promise.terms
      BY <1>3, <2>1
    <3>2. u.npc[c.creditor].act = None
      BY <3>1 DEF Concluded
    <3>3. QED
      BY <2>1, <3>1, <3>2 DEF Concluded
  <2>2. CASE u.promise.terms # t.promise.terms
    <3>1. /\ Active(t, c.creditor) /\ t.npc[c.creditor].act.mode = "accept-renegotiation"
          /\ t.npc[c.creditor].act.ends = t.tick
          /\ t.promise.proposal = t.npc[c.creditor].act.ask /\ t.npc[c.creditor].act.ask # None
          /\ u.promise.terms = t.npc[c.creditor].act.ask.terms
          /\ u.npc[c.creditor].act = None
      BY <2>2 DEF Concluded
    <3>2. t.npc[c.creditor].act = a /\ Active(s, c.creditor) /\ a # None
      BY <1>1, <3>1 DEF Active
    <3>3. a.ask.at < s.tick
      BY <1>0, <3>1, <3>2 DEF Sound, ActsFit
    <3>4. a.ask \in Proposals
      BY <3>1, <3>2, <1>0 DEF Sound, ActsFit, Fit, AnswerModes
    <3>5. s.promise.proposal = a.ask
      <4>1. a.ask.at # s.tick
        <5>1. a.ask.at \in Nat
          BY <3>4, TimesAssumption DEF Proposals, Ticks
        <5>2. QED
          BY <1>0, <3>3, <5>1
      <4>2. t.promise.proposal = a.ask /\ a.ask # None /\ t.tick = s.tick
        BY <1>0, <3>1, <3>2
      <4>3. QED
        BY <4>1, <4>2 DEF Onward
    <3>6. QED
      BY <1>0, <3>1, <3>2, <3>5
  <2>3. QED
    BY <2>1, <2>2
<1>4. ASSUME u.meal.owner \notin {s.meal.owner, None}
      PROVE  LET a == s.npc[s.meal.owner].act IN
             /\ s.meal.owner \in Npcs /\ Active(s, s.meal.owner)
             /\ a.mode = "transfer" /\ a.ends = s.tick
             /\ a.ask \in s.requests /\ u.meal.owner = a.ask.from
  <2>1. CASE u.meal.owner = t.meal.owner
    BY <1>4, <2>1 DEF Concluded
  <2>2. CASE u.meal.owner # t.meal.owner
    <3> DEFINE o == t.meal.owner
    <3>1. /\ o \in Npcs /\ Active(t, o)
          /\ t.npc[o].act.mode = "transfer" /\ t.npc[o].act.ends = t.tick
          /\ t.npc[o].act.ask \in t.requests /\ u.meal.owner = t.npc[o].act.ask.from
      BY <1>4, <2>2 DEF Concluded
    <3>2. t.npc[o].act = s.npc[o].act /\ Active(s, o) /\ s.npc[o].act # None
      BY <1>1, <3>1 DEF Active
    <3>3. s.meal.owner \in {None, o}
      BY <3>1, <3>2 DEF Sound, MealBook, OwnerModes
    <3>4. o # None
      BY <3>1, NoneIsNothing
    <3>5. s.meal.owner = o
      BY <3>3, <3>4, NoneIsNothing DEF Concluded
    <3>6. s.npc[o].act.ask \in Requests /\ s.npc[o].act.ask # None
      <4>1. Fit(c, o, s.npc[o].act) /\ s.npc[o].act.mode = "transfer"
        BY <3>1, <3>2 DEF Sound, ActsFit
      <4>2. s.npc[o].act.ask \in Requests
        BY <4>1 DEF Fit
      <4>3. QED
        BY <4>2, NoneIsNothing
    <3>7. s.npc[o].act.ask.at < s.tick
      BY <1>0, <3>1, <3>2, <3>6 DEF Sound, ActsFit
    <3>8. s.npc[o].act.ask \in s.requests
      <4>1. s.npc[o].act.ask.at # s.tick
        <5>1. s.npc[o].act.ask.at \in Nat
          BY <3>6, TimesAssumption DEF Requests, Ticks
        <5>2. QED
          BY <1>0, <3>7, <5>1
      <4>2. s.npc[o].act.ask \in t.requests /\ t.tick = s.tick
        BY <1>0, <3>1, <3>2
      <4>3. QED
        BY <4>1, <4>2 DEF Onward
    <3>9. QED
      BY <1>0, <3>1, <3>2, <3>5, <3>8
  <2>3. QED
    BY <2>1, <2>2
<1>5. QED
  BY <1>2, <1>3, <1>4 DEF Concluded

\* An outcome leaves alone what is under way.
Aside(s, u) ==
  /\ u \in Worlds
  /\ u.tick = s.tick /\ u.bench = s.bench /\ u.worker = s.worker
  /\ u.promise.run = s.promise.run /\ u.promise.status = s.promise.status
  /\ u.violators = s.violators
  /\ \A m \in Npcs : /\ u.npc[m].act = s.npc[m].act
                     /\ u.npc[m].loc = s.npc[m].loc /\ u.npc[m].transit = s.npc[m].transit

LEMMA ThenIdle ==
  ASSUME NEW s, NEW u, NEW n \in Npcs, Aside(s, u)
  PROVE  LET t == Idle(u, n) IN
         Ended(s, t, n) /\ MealSame(u, t) /\ AsksSame(u, t) /\ CareSame(u, t)
<1> DEFINE t == Idle(u, n)
<1>1. /\ t \in Worlds
      /\ Untouched(u, t) /\ BenchSame(u, t) /\ RunSame(u, t) /\ MarksSame(u, t)
      /\ t.npc[n].act = None
      /\ \A m \in Npcs \ {n} : t.npc[m].act = u.npc[m].act
  BY IdleIs DEF Aside
<1> HIDE DEF t
<1>2. Ended(s, t, n)
  BY <1>1 DEF Ended, Aside, Untouched, BenchSame, RunSame
<1>3. MealSame(u, t) /\ AsksSame(u, t) /\ CareSame(u, t)
  BY <1>1 DEF MealSame, AsksSame, CareSame, Untouched, MarksSame
<1>4. QED
  BY <1>2, <1>3 DEF t

\* A completion that comes to nothing but its end, or to a request.
LEMMA EatingEnds ==
  ASSUME script \in Scripts, NEW s, NEW n \in Npcs, Sound(s, script), CareMarked(s), Active(s, n),
         s.npc[n].act.mode \in EatModes, s.meal.exists
  PROVE  LET t == Idle(Outcome(s, n, s.npc[n].act), n) IN
         /\ Keeps(script, s, t) /\ CareMarked(t) /\ Concluded(script, s, t)
         /\ t.npc[n].act = None
<1> DEFINE a == s.npc[n].act
           v == ConsumeMeal(s)
           u == Outcome(s, n, a)
           t == Idle(u, n)
           bite == [by |-> n, owner |-> s.meal.owner]
<1>0. s \in Worlds /\ bite \in Bites
  BY DEF Sound, Worlds, Meals, Bites
<1>1. /\ Aside(s, v) /\ CareSame(s, v) /\ v.promise = s.promise /\ v.eaters = s.eaters
      /\ v.meal = [exists |-> FALSE, owner |-> None] /\ v.requests = {}
  BY <1>0 DEF Worlds, Meals, Aside, CareSame, ConsumeMeal
<1> HIDE DEF v, bite
<1>2. /\ Aside(s, u) /\ CareSame(s, u) /\ u.promise = s.promise
      /\ u.meal = [exists |-> FALSE, owner |-> None] /\ u.requests = {}
      /\ u.eaters = s.eaters \cup {bite}
  <2>1. u = [v EXCEPT !.eaters = @ \cup {bite}]
    BY DEF Outcome, EatModes, v, bite
  <2> HIDE DEF u
  <2>2. /\ u.npc = v.npc /\ u.promise = v.promise /\ u.meal = v.meal /\ u.tick = v.tick
        /\ u.requests = v.requests /\ u.bench = v.bench /\ u.worker = v.worker
        /\ u.violators = v.violators /\ u.eaters = v.eaters \cup {bite} /\ u \in Worlds
    BY <1>0, <1>1, <2>1 DEF Worlds, Aside
  <2>3. QED
    BY <1>1, <2>2 DEF Aside, CareSame
<1> HIDE DEF u
<1>3. Ended(s, t, n) /\ MealSame(u, t) /\ AsksSame(u, t) /\ CareSame(u, t)
  BY <1>2, ThenIdle
<1> HIDE DEF t
<1>4. ~AtBench(s, n) /\ (\A p \in Npcs : ~Treats(s, n, p)) /\ CareSame(s, t)
  BY <1>2, <1>3 DEF AtBench, Treats, BenchModes, EatModes, CareSame
<1>5. /\ ActsFit(t, script) /\ BenchBook(t, script)
      /\ \A m \in Npcs : Stranded(t, m) => Stranded(s, m)
      /\ \A m \in Npcs : Active(t, m) <=> m # n /\ Active(s, m)
      /\ \A m \in Npcs : Active(t, m) => t.npc[m].act = s.npc[m].act
  BY <1>3, <1>4, EndedKeeps
<1>6. CareBook(t, script) /\ CareMarked(t)
  BY <1>3, <1>4, EndedCares
<1>7. MealBook(t)
  <2>1. t.eaters = {bite} /\ t.meal.exists = FALSE /\ t.meal.owner = None
    BY <1>2, <1>3 DEF MealSame, Sound, MealBook
  <2>2. bite.owner \notin {None, bite.by} => bite.by \in t.violators
    <3>1. bite.by = n /\ bite.owner = s.meal.owner
      BY DEF bite
    <3>2. t.violators = s.violators
      BY <1>3 DEF Ended
    <3>3. QED
      BY <3>1, <3>2 DEF Sound, MealBook, EatModes
  <2>3. \A m \in Npcs : Active(t, m) =>
          /\ t.npc[m].act.mode \in OwnerModes \cup {"eat"} => t.meal.owner \in {None, m}
          /\ t.npc[m].act.mode = "eat-violation" => m \in t.violators
    BY <1>3, <1>5, <2>1 DEF Sound, MealBook, Ended
  <2>4. QED
    BY <2>1, <2>2, <2>3 DEF MealBook
<1>8. AsksBook(t)
  BY <1>2, <1>3 DEF AsksSame, AsksBook, Sound, Ended
<1>9. Onward(script, s, t)
  BY <1>2, <1>3 DEF Onward, Ended, AsksSame
<1>10. Concluded(script, s, t)
  BY <1>2, <1>3, <1>4 DEF Concluded, Ended, CareSame, AsksSame, MealSame
<1>11. QED
  BY <1>3, <1>5, <1>6, <1>7, <1>8, <1>9, <1>10 DEF Keeps, Sound, Ended, t, u

LEMMA TreatmentEnds ==
  ASSUME script \in Scripts, NEW s, NEW n \in Npcs, Sound(s, script), CareMarked(s), Active(s, n),
         s.npc[n].act.mode = "treat", s.npc[n].act.ends = s.tick,
         Together(s, n, s.npc[n].act.target)
  PROVE  LET t == Idle(Outcome(s, n, s.npc[n].act), n) IN
         /\ Keeps(script, s, t) /\ CareMarked(t) /\ Concluded(script, s, t)
         /\ t.npc[n].act = None
<1> DEFINE a == s.npc[n].act
           p == a.target
           u == Outcome(s, n, a)
           t == Idle(u, n)
<1>0. s \in Worlds /\ p \in Npcs /\ p # n /\ Treats(s, n, p)
  BY DEF Sound, ActsFit, Fit, Active, Treats
<1>1. u = [s EXCEPT !.npc[p].sev = "eased"]
  BY DEF Outcome, EatModes
<1>2. /\ Aside(s, u) /\ u.promise = s.promise /\ u.meal = s.meal /\ u.requests = s.requests
      /\ u.eaters = s.eaters
      /\ \A m \in Npcs : /\ u.npc[m].sev = IF m = p THEN "eased" ELSE s.npc[m].sev
                         /\ u.npc[m].since = s.npc[m].since /\ u.npc[m].by = s.npc[m].by
  <2> DEFINE v == [s EXCEPT !.npc[p].sev = "eased"]
  <2>1. /\ Aside(s, v) /\ v.promise = s.promise /\ v.meal = s.meal /\ v.requests = s.requests
        /\ v.eaters = s.eaters
        /\ \A m \in Npcs : /\ v.npc[m].sev = IF m = p THEN "eased" ELSE s.npc[m].sev
                           /\ v.npc[m].since = s.npc[m].since /\ v.npc[m].by = s.npc[m].by
    <3> DEFINE m == s.npc[p]
               body == [m EXCEPT !.sev = "eased"]
    <3>1. v = [s EXCEPT !.npc = [@ EXCEPT ![p] = body]]
      BY <1>0 DEF Worlds, Bodies
    <3>2. m \in Bodies
      BY <1>0 DEF Worlds
    <3> HIDE DEF m
    <3>3. /\ body \in Bodies /\ body.sev = "eased" /\ body.act = m.act /\ body.loc = m.loc
          /\ body.transit = m.transit /\ body.since = m.since /\ body.by = m.by
      BY <3>2 DEF Bodies, Severities
    <3> HIDE DEF body, v
    <3>4. /\ v \in Worlds
          /\ v.tick = s.tick /\ v.bench = s.bench /\ v.worker = s.worker
          /\ v.promise = s.promise /\ v.meal = s.meal /\ v.requests = s.requests
          /\ v.eaters = s.eaters /\ v.violators = s.violators
          /\ v.npc[p] = body /\ \A x \in Npcs \ {p} : v.npc[x] = s.npc[x]
      BY <1>0, <3>1, <3>3 DEF Worlds
    <3>5. QED
      BY <3>3, <3>4 DEF Aside, m
  <2> HIDE DEF u, v
  <2>2. QED
    BY <1>1, <2>1 DEF v
<1> HIDE DEF u
<1>3. Ended(s, t, n) /\ MealSame(u, t) /\ AsksSame(u, t) /\ CareSame(u, t)
  BY <1>2, ThenIdle
<1> HIDE DEF t
<1>4. ~AtBench(s, n) /\ MealSame(s, t) /\ AsksSame(s, t)
  BY <1>2, <1>3 DEF AtBench, BenchModes, MealSame, AsksSame
<1>5. /\ ActsFit(t, script) /\ BenchBook(t, script)
      /\ \A m \in Npcs : Stranded(t, m) => Stranded(s, m)
      /\ \A m \in Npcs : Active(t, m) <=> m # n /\ Active(s, m)
      /\ \A m \in Npcs : Active(t, m) => t.npc[m].act = s.npc[m].act
      /\ MealBook(t) /\ AsksBook(t)
  BY <1>3, <1>4, EndedKeeps
<1>6. \A m \in Npcs : /\ t.npc[m].sev = IF m = p THEN "eased" ELSE s.npc[m].sev
                      /\ t.npc[m].since = s.npc[m].since /\ t.npc[m].by = s.npc[m].by
  BY <1>2, <1>3 DEF CareSame
<1>7. \A h, q \in Npcs : Treats(t, h, q) <=> h # n /\ Treats(s, h, q)
  BY <1>5 DEF Treats
<1>8. /\ Injured(s, p) /\ s.npc[p].by = n
      /\ \A h \in Npcs : Treats(s, h, p) => h = n
  BY <1>0 DEF CareMarked
<1>9. CareBook(t, script)
  <2>1. \A q \in Npcs : t.npc[q].sev # "none" =>
          q = script.owner /\ script.injury \in Nat /\ script.injury <= t.tick
    BY <1>3, <1>6, <1>8 DEF Sound, CareBook, Ended, Injured
  <2>2. ASSUME NEW q \in Npcs, Injured(t, q), t.npc[q].since # None
        PROVE  t.npc[q].by \in Npcs /\ Treats(t, t.npc[q].by, q)
    <3>1. q # p /\ Injured(s, q)
      BY <1>6, <2>2 DEF Injured
    <3>2. t.npc[q].by = s.npc[q].by /\ s.npc[q].by \in Npcs /\ Treats(s, s.npc[q].by, q)
      BY <1>6, <2>2, <3>1 DEF Sound, CareBook
    <3>3. s.npc[q].by # n
      BY <3>1, <3>2, <1>0 DEF Treats
    <3>4. QED
      BY <1>7, <3>2, <3>3
  <2>3. QED
    BY <2>1, <2>2 DEF CareBook
<1>10. CareMarked(t)
  <2>1. ASSUME NEW h \in Npcs, NEW q \in Npcs, Treats(t, h, q)
        PROVE  /\ Injured(t, q) /\ t.npc[q].since # None /\ t.npc[q].by = h
               /\ t.npc[h].act.ends = t.npc[q].since + Treating[h]
    <3>1. h # n /\ Treats(s, h, q) /\ q # p
      BY <1>7, <1>8, <2>1
    <3>2. t.npc[h].act = s.npc[h].act
      BY <1>3, <3>1 DEF Ended
    <3>3. QED
      BY <1>6, <3>1, <3>2 DEF CareMarked, Injured
  <2>2. QED
    BY <2>1 DEF CareMarked
<1>11. Onward(script, s, t)
  BY <1>3, <1>4 DEF Onward, Ended, AsksSame
<1>12. Concluded(script, s, t)
  <2>1. ASSUME NEW m \in Npcs, t.npc[m].sev = "eased", s.npc[m].sev # "eased"
        PROVE  \E h \in Npcs :
                 Treats(s, h, m) /\ s.npc[h].act.ends = s.tick /\ Together(s, h, m)
    BY <1>0, <1>6, <2>1
  <2>2. QED
    BY <1>3, <1>4, <2>1 DEF Concluded, Ended, AsksSame, MealSame
<1>13. QED
  BY <1>3, <1>5, <1>9, <1>10, <1>11, <1>12 DEF Keeps, Sound, Ended, t, u

\* What the other outcomes change: the reservation, the requests, the terms.
Quiet(c, s, u, n) ==
  LET a == s.npc[n].act IN
  /\ Aside(s, u) /\ CareSame(s, u)
  /\ u.eaters = s.eaters /\ u.meal.exists = s.meal.exists
  /\ u.meal.owner \notin {s.meal.owner, None} =>
       a.mode = "transfer" /\ s.meal.owner = n /\ a.ask \in s.requests /\ u.meal.owner = a.ask.from
  /\ \A r \in u.requests : r \in s.requests \/ r.at = s.tick
  /\ u.promise.proposal \in {s.promise.proposal, None} \/ u.promise.proposal.at = s.tick
  /\ u.promise.terms # s.promise.terms =>
       /\ a.mode = "accept-renegotiation" /\ s.promise.status = "active"
       /\ s.promise.proposal = a.ask /\ a.ask # None /\ u.promise.terms = a.ask.terms

LEMMA QuietEnds ==
  ASSUME script \in Scripts, NEW s, NEW n \in Npcs, NEW u, Sound(s, script), CareMarked(s),
         Active(s, n), s.npc[n].act.mode \notin BenchModes \cup {"treat"},
         s.npc[n].act.ends = s.tick, Quiet(script, s, u, n)
  PROVE  LET t == Idle(u, n) IN
         /\ Keeps(script, s, t) /\ CareMarked(t) /\ Concluded(script, s, t)
         /\ t.npc[n].act = None
<1> DEFINE a == s.npc[n].act
           t == Idle(u, n)
<1>0. s \in Worlds /\ a # None
  BY DEF Sound, Active
<1>3. Ended(s, t, n) /\ MealSame(u, t) /\ AsksSame(u, t) /\ CareSame(u, t)
  BY ThenIdle DEF Quiet
<1> HIDE DEF t
<1>4. ~AtBench(s, n) /\ (\A p \in Npcs : ~Treats(s, n, p)) /\ CareSame(s, t)
  BY <1>3 DEF AtBench, Treats, CareSame, Quiet
<1>5. /\ ActsFit(t, script) /\ BenchBook(t, script)
      /\ \A m \in Npcs : Stranded(t, m) => Stranded(s, m)
      /\ \A m \in Npcs : Active(t, m) <=> m # n /\ Active(s, m)
      /\ \A m \in Npcs : Active(t, m) => t.npc[m].act = s.npc[m].act
  BY <1>3, <1>4, EndedKeeps
<1>6. CareBook(t, script) /\ CareMarked(t)
  BY <1>3, <1>4, EndedCares
<1>7. /\ t.eaters = s.eaters /\ t.meal.exists = s.meal.exists
      /\ t.meal.owner = u.meal.owner /\ t.requests = u.requests
      /\ t.promise.terms = u.promise.terms /\ t.promise.proposal = u.promise.proposal
  BY <1>3 DEF MealSame, AsksSame, Quiet
<1>8. MealBook(t)
  <2>1. ASSUME NEW m \in Npcs, Active(t, m)
        PROVE  /\ t.npc[m].act.mode \in OwnerModes \cup {"eat"} => t.meal.owner \in {None, m}
               /\ t.npc[m].act.mode = "eat-violation" => m \in t.violators
    <3>1. m # n /\ Active(s, m) /\ t.npc[m].act = s.npc[m].act /\ t.violators = s.violators
      BY <1>3, <1>5, <2>1 DEF Ended
    <3>2. t.meal.owner \in {s.meal.owner, None} \/ s.meal.owner = n
      BY <1>7 DEF Quiet
    <3>3. n # None
      BY NoneIsNothing
    <3>4. QED
      BY <3>1, <3>2, <3>3 DEF Sound, MealBook
  <2>2. QED
    BY <1>3, <1>7, <2>1 DEF Sound, MealBook, Ended
<1>9. AsksBook(t)
  <2>1. s.tick <= s.tick
    BY <1>0, TimesAssumption DEF Worlds, Ticks
  <2>2. QED
    BY <1>3, <1>7, <2>1 DEF Quiet, AsksBook, Sound, Ended
<1>10. Onward(script, s, t)
  BY <1>3, <1>7 DEF Onward, Ended, Quiet
<1>11. Concluded(script, s, t)
  <2>1. t.promise.terms # s.promise.terms =>
          /\ n = script.creditor /\ a.mode = "accept-renegotiation"
          /\ s.promise.proposal = a.ask /\ a.ask # None /\ t.promise.terms = a.ask.terms
    BY <1>0, <1>7 DEF Quiet, Sound, ActsFit, Fit, AnswerModes
  <2>2. t.npc[n].act = None
    BY <1>3 DEF Ended
  <2>3. QED
    BY <1>3, <1>4, <1>7, <2>1, <2>2 DEF Concluded, Ended, CareSame, Quiet
<1>12. QED
  BY <1>3, <1>5, <1>6, <1>8, <1>9, <1>10, <1>11 DEF Keeps, Sound, Ended, t

LEMMA OutcomeIsQuiet ==
  ASSUME script \in Scripts, NEW s, NEW n \in Npcs, Sound(s, script), Active(s, n),
         s.npc[n].act.mode \notin BenchModes \cup EatModes \cup {"treat"},
         Completable(s, n, s.npc[n].act)
  PROVE  Quiet(script, s, Outcome(s, n, s.npc[n].act), n)
<1> DEFINE a == s.npc[n].act
           mode == a.mode
           u == Outcome(s, n, a)
<1>0. s \in Worlds /\ a # None /\ a \in Actions /\ Fit(script, n, a) /\ s.tick \in Ticks
  BY DEF Sound, Active, Worlds, Bodies, ActsFit
<1>1. /\ mode \in OwnerModes \cup AnswerModes \cup {"request-transfer", "propose-renegotiation"}
           => Startable(s, n, a, FALSE)
      /\ mode \in OwnerModes =>
           s.meal.exists /\ s.meal.owner = n /\ a.ask \in s.requests \cup {None}
      /\ mode \in AnswerModes => s.promise.status = "active" /\ s.promise.proposal = a.ask
  BY DEF Completable, Startable
<1>2. CASE u = s
  BY <1>0, <1>2 DEF Quiet, Aside, CareSame
<1>3. CASE mode = "request-transfer" /\ u # s
  <2> DEFINE r == [from |-> n, at |-> s.tick]
  <2>1. u = [s EXCEPT !.requests = @ \cup {r}]
    BY <1>3 DEF Outcome, EatModes
  <2>2. r \in Requests /\ r.at = s.tick
    BY <1>0 DEF Requests
  <2> HIDE DEF u, r
  <2>3. /\ Aside(s, u) /\ CareSame(s, u) /\ u.promise = s.promise /\ u.eaters = s.eaters
        /\ u.meal = s.meal /\ u.requests = s.requests \cup {r}
    BY <1>0, <2>1, <2>2 DEF Worlds, Aside, CareSame
  <2>4. QED
    BY <2>2, <2>3 DEF Quiet, u
<1>4. CASE mode = "transfer"
  <2>1. a.target \in Npcs /\ a.target = a.ask.from /\ a.ask \in s.requests
    BY <1>0, <1>1, <1>4, NoneIsNothing DEF Fit, OwnerModes, Requests
  <2>2. u = [s EXCEPT !.meal.owner = a.target, !.requests = {}]
    BY <1>1, <1>4 DEF Outcome, EatModes, OwnerModes
  <2> HIDE DEF u
  <2>3. /\ Aside(s, u) /\ CareSame(s, u) /\ u.promise = s.promise /\ u.eaters = s.eaters
        /\ u.meal.exists = s.meal.exists /\ u.meal.owner = a.target /\ u.requests = {}
    BY <1>0, <2>1, <2>2 DEF Worlds, Meals, Aside, CareSame
  <2>4. QED
    BY <1>1, <1>4, <2>1, <2>3 DEF Quiet, OwnerModes, u
<1>5. CASE mode = "refuse-request"
  <2> DEFINE p == a.target
             cooled == s.tick + Cooldown
             body == [s.npc[p] EXCEPT !.cooled = cooled]
  <2>1. p \in Npcs /\ cooled \in Nat
    BY <1>0, <1>5, TimesAssumption DEF Fit, Requests, Ticks
  <2>2. u = [s EXCEPT !.requests = @ \ {a.ask}, !.npc = [@ EXCEPT ![p] = body]]
    BY <1>0, <1>5, <2>1 DEF Outcome, EatModes, Worlds
  <2> HIDE DEF u, cooled
  <2>3. /\ body \in Bodies /\ body.act = s.npc[p].act /\ body.loc = s.npc[p].loc
        /\ body.transit = s.npc[p].transit /\ body.sev = s.npc[p].sev
        /\ body.since = s.npc[p].since /\ body.by = s.npc[p].by
    BY <1>0, <2>1 DEF Worlds, Bodies
  <2> HIDE DEF body
  <2>4. /\ Aside(s, u) /\ CareSame(s, u) /\ u.promise = s.promise /\ u.eaters = s.eaters
        /\ u.meal = s.meal /\ u.requests = s.requests \ {a.ask}
    BY <1>0, <2>1, <2>2, <2>3 DEF Worlds, Aside, CareSame
  <2>5. QED
    BY <2>4 DEF Quiet, u
<1>6. CASE mode = "release"
  <2>1. u = [s EXCEPT !.meal.owner = None]
    BY <1>6 DEF Outcome, EatModes
  <2> HIDE DEF u
  <2>2. /\ Aside(s, u) /\ CareSame(s, u) /\ u.promise = s.promise /\ u.eaters = s.eaters
        /\ u.meal.exists = s.meal.exists /\ u.meal.owner = None /\ u.requests = s.requests
    BY <1>0, <2>1 DEF Worlds, Meals, Aside, CareSame
  <2>3. QED
    BY <2>2 DEF Quiet, u
<1>7. CASE mode = "propose-renegotiation"
  <2> DEFINE proposal == [at |-> s.tick, terms |-> a.terms]
  <2>1. proposal \in Proposals /\ proposal.at = s.tick
    BY <1>0, <1>7 DEF Fit, Proposals
  <2>2. u = [s EXCEPT !.promise.proposal = proposal]
    BY <1>7 DEF Outcome, EatModes
  <2> HIDE DEF u, proposal
  <2>3. /\ Aside(s, u) /\ CareSame(s, u) /\ u.promise.proposal = proposal
        /\ u.promise.terms = s.promise.terms
        /\ u.eaters = s.eaters /\ u.meal = s.meal /\ u.requests = s.requests
    BY <1>0, <2>1, <2>2 DEF Worlds, Promises, Aside, CareSame
  <2>4. QED
    BY <2>1, <2>3 DEF Quiet, u
<1>8. CASE mode = "accept-renegotiation"
  <2> DEFINE terms == s.promise.proposal.terms
  <2>1. /\ s.promise.status = "active" /\ s.promise.proposal = a.ask /\ a.ask \in Proposals
        /\ a.ask # None /\ terms \in Terms /\ terms = a.ask.terms
    BY <1>0, <1>1, <1>8, NoneIsNothing DEF Fit, AnswerModes, Proposals
  <2>2. u = [s EXCEPT !.promise.terms = terms, !.promise.proposal = None]
    BY <1>8, <2>1 DEF Outcome, EatModes
  <2> HIDE DEF u, terms
  <2>3. /\ Aside(s, u) /\ CareSame(s, u) /\ u.promise.proposal = None
        /\ u.promise.terms = terms
        /\ u.eaters = s.eaters /\ u.meal = s.meal /\ u.requests = s.requests
    BY <1>0, <2>1, <2>2 DEF Worlds, Promises, Aside, CareSame
  <2>4. QED
    BY <1>8, <2>1, <2>3 DEF Quiet, u
<1>9. CASE mode = "reject-renegotiation"
  <2>1. u = [s EXCEPT !.promise.proposal = None]
    BY <1>9 DEF Outcome, EatModes
  <2> HIDE DEF u
  <2>2. /\ Aside(s, u) /\ CareSame(s, u) /\ u.promise.proposal = None
        /\ u.promise.terms = s.promise.terms
        /\ u.eaters = s.eaters /\ u.meal = s.meal /\ u.requests = s.requests
    BY <1>0, <2>1 DEF Worlds, Promises, Aside, CareSame
  <2>3. QED
    BY <2>2 DEF Quiet, u
<1>10. QED
  <2>1. ASSUME mode \notin {"request-transfer", "transfer", "refuse-request", "release",
                            "propose-renegotiation", "accept-renegotiation",
                            "reject-renegotiation"}
        PROVE  u = s
    BY <2>1 DEF Outcome, EatModes
  <2> HIDE DEF u
  <2>2. QED
    BY <1>2, <1>3, <1>4, <1>5, <1>6, <1>7, <1>8, <1>9, <2>1 DEF u

\* A completion, or the bench session it ends, or the interruption of what the
\* world has overtaken.
LEMMA CompleteKeeps ==
  ASSUME script \in Scripts, NEW s, NEW n \in Npcs, Sound(s, script), CareMarked(s)
  PROVE  LET t == Complete(s, n) IN
         /\ Keeps(script, s, t) /\ CareMarked(t) /\ Concluded(script, s, t)
         /\ Active(s, n) /\ s.npc[n].act.ends = s.tick => t.npc[n].act = None
<1> DEFINE a == s.npc[n].act
           t == Complete(s, n)
           u == Outcome(s, n, a)
<1>0. s \in Worlds
  BY DEF Sound
<1>1. CASE ~Active(s, n) \/ a.ends # s.tick
  <2>1. t = s
    BY <1>1 DEF Complete
  <2>2. QED
    BY <1>1, <2>1, OnwardRefl, ConcludedRefl DEF Keeps
<1>2. CASE Active(s, n) /\ a.ends = s.tick /\ t = Interrupt(s, n)
  <2>1. /\ Keeps(script, s, t) /\ Settled(s, t)
        /\ t.npc[n].act = None
        /\ \A m \in Npcs \ {n} : t.npc[m].act = s.npc[m].act
        /\ Untouched(s, t)
    BY <1>2, InterruptKeeps
  <2>2. CareMarked(t)
    BY <1>2, InterruptMarks
  <2> HIDE DEF t
  <2>3. Concluded(script, s, t)
    BY <2>1 DEF Concluded, Settled, Untouched
  <2>4. QED
    BY <2>1, <2>2, <2>3 DEF t
<1>3. CASE /\ Active(s, n) /\ a.ends = s.tick /\ a.mode \notin BenchModes
           /\ Completable(s, n, a) /\ t = Idle(u, n)
  <2>1. /\ Keeps(script, s, t) /\ CareMarked(t) /\ Concluded(script, s, t)
        /\ t.npc[n].act = None
    <3>1. CASE a.mode \in EatModes
      BY <1>3, <3>1, EatingEnds DEF Completable
    <3>2. CASE a.mode = "treat"
      <4>1. Together(s, n, a.target)
        BY <1>3, <3>2 DEF Completable, Sustained, PatientStays
      <4>2. QED
        BY <1>3, <3>2, <4>1, TreatmentEnds
    <3>3. CASE a.mode \notin EatModes \cup {"treat"}
      <4>1. Quiet(script, s, u, n)
        BY <1>3, <3>3, OutcomeIsQuiet
      <4> HIDE DEF u
      <4>2. QED
        BY <1>3, <3>3, <4>1, QuietEnds
    <3>4. QED
      BY <3>1, <3>2, <3>3
  <2>2. QED
    BY <2>1
<1>4. QED
  <2>1. AtBench(s, n) <=> Active(s, n) /\ a.mode \in BenchModes
    BY DEF AtBench
  <2>2. AtBench(s, n) => CompleteBenchSession(s, n) = Interrupt(s, n)
    BY <1>0, CompletesAsInterrupted
  <2>3. QED
    BY <1>1, <1>2, <1>3, <2>1, <2>2 DEF Complete

-----------------------------------------------------------------------------
(* The loops over the three NPCs                                           *)

LEMMA OrderIs ==
  /\ Order[1] \in Npcs /\ Order[2] \in Npcs /\ Order[3] \in Npcs
  /\ Npcs = {Order[1], Order[2], Order[3]}
<1>1. DOMAIN Order = 1..3
  BY RolesAssumption
<1>2. QED
  BY <1>1 DEF Npcs

LEMMA EveryoneWorsens ==
  ASSUME script \in Scripts, NEW s, Sound(s, script), CareMarked(s)
  PROVE  LET t == ForEachNpc(Worsen, s) IN
         Keeps(script, s, t) /\ Settled(s, t) /\ CareMarked(t)
<1> DEFINE x == Worsen(s, Order[1])
           y == Worsen(x, Order[2])
           z == Worsen(y, Order[3])
<1>0. script.debtor \in Npcs
  BY RolesAre
<1>1. Keeps(script, s, x) /\ Settled(s, x) /\ CareMarked(x)
  BY OrderIs, WorsenKeeps
<1> HIDE DEF x
<1>2. Keeps(script, x, y) /\ Settled(x, y) /\ CareMarked(y)
  BY <1>1, OrderIs, WorsenKeeps DEF Keeps
<1> HIDE DEF y
<1>3. Keeps(script, y, z) /\ Settled(y, z) /\ CareMarked(z)
  BY <1>2, OrderIs, WorsenKeeps DEF Keeps
<1> HIDE DEF z
<1>4. Keeps(script, s, y) /\ Settled(s, y)
  BY <1>0, <1>1, <1>2, KeepsTrans, SettledTrans
<1>5. Keeps(script, s, z) /\ Settled(s, z)
  BY <1>0, <1>3, <1>4, KeepsTrans, SettledTrans
<1>6. QED
  BY <1>3, <1>5 DEF ForEachNpc, x, y, z

LEMMA EveryoneSustains ==
  ASSUME script \in Scripts, NEW s, Sound(s, script), CareMarked(s)
  PROVE  LET t == ForEachNpc(Sustain, s) IN
         Keeps(script, s, t) /\ Settled(s, t) /\ CareMarked(t)
<1> DEFINE x == Sustain(s, Order[1])
           y == Sustain(x, Order[2])
           z == Sustain(y, Order[3])
<1>0. script.debtor \in Npcs
  BY RolesAre
<1>1. Keeps(script, s, x) /\ Settled(s, x) /\ CareMarked(x)
  BY OrderIs, SustainKeeps
<1> HIDE DEF x
<1>2. Keeps(script, x, y) /\ Settled(x, y) /\ CareMarked(y)
  BY <1>1, OrderIs, SustainKeeps DEF Keeps
<1> HIDE DEF y
<1>3. Keeps(script, y, z) /\ Settled(y, z) /\ CareMarked(z)
  BY <1>2, OrderIs, SustainKeeps DEF Keeps
<1> HIDE DEF z
<1>4. Keeps(script, s, y) /\ Settled(s, y)
  BY <1>0, <1>1, <1>2, KeepsTrans, SettledTrans
<1>5. Keeps(script, s, z) /\ Settled(s, z)
  BY <1>0, <1>3, <1>4, KeepsTrans, SettledTrans
<1>6. QED
  BY <1>3, <1>5 DEF ForEachNpc, x, y, z

\* n is not due to arrive.
OnItsWay(s, n) == s.npc[n].transit # None => s.npc[n].transit.arrives > s.tick
MayArrive(s) ==
  \A n \in Npcs : s.npc[n].transit # None => s.npc[n].transit.arrives >= s.tick

LEMMA OnItsWayStays ==
  ASSUME NEW c, NEW s, NEW t, Onward(c, s, t)
  PROVE  \A n \in Npcs : OnItsWay(s, n) => OnItsWay(t, n)
  BY DEF Onward, OnItsWay

LEMMA MayArriveStays ==
  ASSUME NEW c, NEW s, NEW t \in Worlds, s.tick \in Nat, Onward(c, s, t), MayArrive(s)
  PROVE  MayArrive(t)
<1>1. \A n \in Npcs : t.npc[n].transit # None => t.npc[n].transit.arrives \in Nat
  BY DEF Worlds, Bodies, Transits
<1>2. QED
  BY <1>1 DEF Onward, MayArrive

LEMMA EveryoneArrives ==
  ASSUME script \in Scripts, NEW s, Sound(s, script), CareMarked(s), MayArrive(s)
  PROVE  LET t == ForEachNpc(Arrive, s) IN
         /\ Keeps(script, s, t) /\ Settled(s, t) /\ CareMarked(t)
         /\ \A n \in Npcs : OnItsWay(t, n)
<1> DEFINE x == Arrive(s, Order[1])
           y == Arrive(x, Order[2])
           z == Arrive(y, Order[3])
<1>0. script.debtor \in Npcs
  BY RolesAre
<1>1. ASSUME NEW u, NEW n \in Npcs, Sound(u, script), CareMarked(u), MayArrive(u)
      PROVE  /\ Keeps(script, u, Arrive(u, n)) /\ Settled(u, Arrive(u, n))
             /\ CareMarked(Arrive(u, n)) /\ MayArrive(Arrive(u, n))
             /\ OnItsWay(Arrive(u, n), n)
  <2> DEFINE v == Arrive(u, n)
  <2>1. /\ Keeps(script, u, v) /\ Settled(u, v) /\ CareMarked(v)
        /\ u.npc[n].transit # None /\ u.npc[n].transit.arrives = u.tick =>
             v.npc[n].transit = None \/ v.npc[n].transit.arrives > v.tick
    BY <1>1, ArriveKeeps
  <2> HIDE DEF v
  <2>2. u.tick \in Nat /\ v \in Worlds /\ u \in Worlds
    BY <1>1, <2>1, TimesAssumption DEF Keeps, Sound, Worlds, Ticks
  <2>3. MayArrive(v)
    BY <1>1, <2>1, <2>2, MayArriveStays DEF Keeps
  <2>4. OnItsWay(v, n)
    <3>1. CASE u.npc[n].transit # None /\ u.npc[n].transit.arrives = u.tick
      BY <2>1, <3>1 DEF OnItsWay
    <3>2. CASE ~(u.npc[n].transit # None /\ u.npc[n].transit.arrives = u.tick)
      <4>1. u.npc[n].transit # None => u.npc[n].transit.arrives \in Nat
        BY <2>2 DEF Worlds, Bodies, Transits
      <4>2. OnItsWay(u, n)
        BY <1>1, <2>2, <3>2, <4>1 DEF MayArrive, OnItsWay
      <4>3. QED
        BY <2>1, <4>2, OnItsWayStays DEF Keeps
    <3>3. QED
      BY <3>1, <3>2
  <2>5. QED
    BY <2>1, <2>3, <2>4 DEF v
<1>2. Keeps(script, s, x) /\ Settled(s, x) /\ CareMarked(x) /\ MayArrive(x)
      /\ OnItsWay(x, Order[1])
  BY <1>1, OrderIs
<1> HIDE DEF x
<1>3. Keeps(script, x, y) /\ Settled(x, y) /\ CareMarked(y) /\ MayArrive(y)
      /\ OnItsWay(y, Order[2])
  BY <1>1, <1>2, OrderIs DEF Keeps
<1> HIDE DEF y
<1>4. Keeps(script, y, z) /\ Settled(y, z) /\ CareMarked(z) /\ OnItsWay(z, Order[3])
  BY <1>1, <1>3, OrderIs DEF Keeps
<1> HIDE DEF z
<1>5. Keeps(script, s, y) /\ Settled(s, y)
  BY <1>0, <1>2, <1>3, KeepsTrans, SettledTrans
<1>6. Keeps(script, s, z) /\ Settled(s, z)
  BY <1>0, <1>4, <1>5, KeepsTrans, SettledTrans
<1>7. OnItsWay(z, Order[1]) /\ OnItsWay(z, Order[2])
  <2>1. OnItsWay(y, Order[1])
    BY <1>2, <1>3, OnItsWayStays, OrderIs DEF Keeps
  <2>2. QED
    BY <1>3, <1>4, <2>1, OnItsWayStays, OrderIs DEF Keeps
<1>8. \A n \in Npcs : OnItsWay(z, n)
  BY <1>4, <1>7, OrderIs
<1>9. QED
  BY <1>4, <1>6, <1>8 DEF ForEachNpc, x, y, z

\* n has nothing to complete.
NothingDue(s, n) == ~(Active(s, n) /\ s.npc[n].act.ends = s.tick)

LEMMA EveryoneCompletes ==
  ASSUME script \in Scripts, NEW s, Sound(s, script), CareMarked(s)
  PROVE  LET t == ForEachNpc(Complete, s) IN
         /\ Keeps(script, s, t) /\ CareMarked(t) /\ Concluded(script, s, t)
         /\ \A n \in Npcs : NothingDue(t, n)
<1> DEFINE x == Complete(s, Order[1])
           y == Complete(x, Order[2])
           z == Complete(y, Order[3])
<1>0. script.debtor \in Npcs /\ script.creditor \in Npcs
  BY RolesAre
<1>1. ASSUME NEW u, NEW n \in Npcs, Sound(u, script), CareMarked(u)
      PROVE  LET v == Complete(u, n) IN
             /\ Keeps(script, u, v) /\ CareMarked(v) /\ Concluded(script, u, v)
             /\ NothingDue(v, n)
             /\ \A m \in Npcs : NothingDue(u, m) => NothingDue(v, m)
  <2> DEFINE v == Complete(u, n)
  <2>1. /\ Keeps(script, u, v) /\ CareMarked(v) /\ Concluded(script, u, v)
        /\ Active(u, n) /\ u.npc[n].act.ends = u.tick => v.npc[n].act = None
    BY <1>1, CompleteKeeps
  <2> HIDE DEF v
  <2>2. v.tick = u.tick
    BY <2>1 DEF Keeps, Onward
  <2>3. \A m \in Npcs : NothingDue(u, m) => NothingDue(v, m)
    BY <2>1, <2>2 DEF Concluded, NothingDue, Active
  <2>4. NothingDue(v, n)
    BY <2>1, <2>3 DEF NothingDue, Active
  <2>5. QED
    BY <2>1, <2>3, <2>4 DEF v
<1>2. /\ Keeps(script, s, x) /\ CareMarked(x) /\ Concluded(script, s, x)
      /\ NothingDue(x, Order[1])
  BY <1>1, OrderIs
<1> HIDE DEF x
<1>3. /\ Keeps(script, x, y) /\ CareMarked(y) /\ Concluded(script, x, y)
      /\ NothingDue(y, Order[1]) /\ NothingDue(y, Order[2])
  BY <1>1, <1>2, OrderIs DEF Keeps
<1> HIDE DEF y
<1>4. /\ Keeps(script, y, z) /\ CareMarked(z) /\ Concluded(script, y, z)
      /\ NothingDue(z, Order[1]) /\ NothingDue(z, Order[2]) /\ NothingDue(z, Order[3])
  BY <1>1, <1>3, OrderIs DEF Keeps
<1> HIDE DEF z
<1>5. Keeps(script, s, y) /\ Concluded(script, s, y)
  BY <1>0, <1>2, <1>3, KeepsTrans, ConcludedTrans DEF Keeps
<1>6. Keeps(script, s, z) /\ Concluded(script, s, z)
  BY <1>0, <1>4, <1>5, KeepsTrans, ConcludedTrans DEF Keeps
<1>7. \A n \in Npcs : NothingDue(z, n)
  BY <1>4, OrderIs
<1>8. QED
  BY <1>4, <1>6, <1>7 DEF ForEachNpc, x, y, z

\* endScenario's loop; what is on its way is interrupted too.
LEMMA EveryoneStops ==
  ASSUME script \in Scripts, NEW s, Sound(s, script)
  PROVE  LET t == ForEachNpc(Interrupt, s) IN
         /\ Keeps(script, s, t) /\ Settled(s, t)
         /\ \A n \in Npcs : t.npc[n].act = None
<1> DEFINE x == Interrupt(s, Order[1])
           y == Interrupt(x, Order[2])
           z == Interrupt(y, Order[3])
<1>0. script.debtor \in Npcs
  BY RolesAre
<1>1. /\ Keeps(script, s, x) /\ Settled(s, x) /\ x.npc[Order[1]].act = None
  BY OrderIs, InterruptKeeps
<1> HIDE DEF x
<1>2. /\ Keeps(script, x, y) /\ Settled(x, y) /\ y.npc[Order[2]].act = None
      /\ \A m \in Npcs \ {Order[2]} : y.npc[m].act = x.npc[m].act
  BY <1>1, OrderIs, InterruptKeeps DEF Keeps
<1> HIDE DEF y
<1>3. /\ Keeps(script, y, z) /\ Settled(y, z) /\ z.npc[Order[3]].act = None
      /\ \A m \in Npcs \ {Order[3]} : z.npc[m].act = y.npc[m].act
  BY <1>2, OrderIs, InterruptKeeps DEF Keeps
<1> HIDE DEF z
<1>4. Keeps(script, s, y) /\ Settled(s, y)
  BY <1>0, <1>1, <1>2, KeepsTrans, SettledTrans
<1>5. Keeps(script, s, z) /\ Settled(s, z)
  BY <1>0, <1>3, <1>4, KeepsTrans, SettledTrans
<1>6. \A n \in Npcs : z.npc[n].act = None
  BY <1>1, <1>2, <1>3, OrderIs
<1>7. QED
  BY <1>5, <1>6 DEF ForEachNpc, x, y, z

-----------------------------------------------------------------------------
(* A tick                                                                  *)

\* stepTick's first steps: the clock, and the scripted events of the tick.
LEMMA TimeAdvances ==
  ASSUME script \in Scripts, NEW s, Sound(s, script), CareMarked(s), s.tick < EndTick
  PROVE  LET t == AdvanceTime(s) IN
         /\ Sound(t, script) /\ CareMarked(t) /\ t.tick = s.tick + 1
         /\ t.npc = s.npc /\ t.meal = s.meal /\ t.bench = s.bench /\ t.promise = s.promise
         /\ t.requests = s.requests
         /\ \A p \in Npcs : t.npc[p].sev # "none" =>
              script.injury \in Nat /\ script.injury < t.tick
<1> DEFINE t == AdvanceTime(s)
           c == script
<1>0. /\ s \in Worlds /\ s.tick \in Nat /\ EndTick \in Nat
      /\ s.bench # None => s.bench.since \in Nat
      /\ \A r \in s.requests : r.at \in Nat
      /\ s.promise.proposal # None => s.promise.proposal.at \in Nat
  BY TimesAssumption DEF Sound, Worlds, Ticks, Benches, Requests, Promises, Proposals
<1>1. /\ t \in Worlds /\ t.tick = s.tick + 1
      /\ t.npc = s.npc /\ t.meal = s.meal /\ t.bench = s.bench /\ t.promise = s.promise
      /\ t.requests = s.requests /\ t.worker = s.worker
      /\ t.eaters = s.eaters /\ t.violators = s.violators
  BY <1>0 DEF AdvanceTime, Worlds, Ticks
<1> HIDE DEF t
<1>2. BenchBook(t, c)
  <2>1. \A n \in Npcs : AtBench(t, n) <=> AtBench(s, n)
    BY <1>1 DEF AtBench, Active
  <2>2. t.bench # None => t.bench.since <= t.tick
    BY <1>0, <1>1 DEF Sound, BenchBook
  <2>3. QED
    BY <1>1, <2>1, <2>2 DEF Sound, BenchBook, Holder
<1>3. ActsFit(t, c) /\ MealBook(t)
  BY <1>1 DEF Sound, ActsFit, MealBook, Active
<1>4. AsksBook(t)
  BY <1>0, <1>1 DEF Sound, AsksBook
<1>5. \A p \in Npcs : t.npc[p].sev # "none" =>
        p = c.owner /\ c.injury \in Nat /\ c.injury < t.tick
  BY <1>0, <1>1 DEF Sound, CareBook
<1>6. CareBook(t, c) /\ CareMarked(t)
  <2>1. \A p \in Npcs : t.npc[p].sev # "none" =>
          p = c.owner /\ c.injury \in Nat /\ c.injury <= t.tick
    BY <1>0, <1>1, <1>5
  <2>2. QED
    BY <1>1, <2>1 DEF Sound, CareBook, CareMarked, Injured, Treats, Active
<1>7. QED
  BY <1>1, <1>2, <1>3, <1>4, <1>5, <1>6 DEF Sound, t

LEMMA ScriptedKeeps ==
  ASSUME script \in Scripts, NEW s, Sound(s, script), CareMarked(s),
         \A p \in Npcs : s.npc[p].sev # "none" => script.injury \in Nat /\ script.injury < s.tick
  PROVE  LET t == ApplyScriptedEvents(s) IN
         Keeps(script, s, t) /\ Settled(s, t) /\ CareMarked(t)
<1> DEFINE c == script
           hurt == IF script.injury # s.tick THEN s
                   ELSE [s EXCEPT !.npc[Owner].sev = "serious", !.npc[Owner].since = None,
                                  !.npc[Owner].by = None, !.npc[Owner].hurt = s.tick]
           t == ApplyScriptedEvents(s)
<1>0. s \in Worlds /\ s.tick \in Nat /\ s.tick \in Ticks /\ c.owner \in Npcs /\ c.debtor \in Npcs
  BY RolesAre, TimesAssumption DEF Sound, Worlds, Ticks
<1>1. Keeps(c, s, hurt) /\ Settled(s, hurt) /\ CareMarked(hurt)
  <2>1. CASE c.injury # s.tick
    BY <2>1, OnwardRefl DEF Keeps
  <2>2. CASE c.injury = s.tick
    <3> DEFINE o == c.owner
               body == [s.npc[o] EXCEPT !.sev = "serious", !.since = None, !.by = None,
                                        !.hurt = s.tick]
               v == [s EXCEPT !.npc = [@ EXCEPT ![o] = body]]
    <3>1. hurt = v
      <4> DEFINE npc == [s.npc EXCEPT ![o].sev = "serious", ![o].since = None, ![o].by = None,
                                      ![o].hurt = s.tick]
      <4>1. hurt = [s EXCEPT !.npc = npc]
        BY <1>0, <2>2 DEF Owner, Worlds
      <4>2. npc = [s.npc EXCEPT ![o] = body]
        BY <1>0 DEF Worlds, Bodies
      <4> HIDE DEF npc, hurt, body
      <4>3. QED
        BY <4>1, <4>2
    <3>2. /\ body \in Bodies /\ body.act = s.npc[o].act /\ body.loc = s.npc[o].loc
          /\ body.transit = s.npc[o].transit /\ body.sev = "serious" /\ body.since = None
      <4>1. s.npc[o] \in Bodies
        BY <1>0 DEF Worlds
      <4> HIDE DEF hurt, v
      <4>2. QED
        BY <1>0, <4>1 DEF Bodies, Severities
    <3> HIDE DEF body
    <3>3. /\ v \in Worlds
          /\ v.tick = s.tick /\ v.meal = s.meal /\ v.bench = s.bench /\ v.worker = s.worker
          /\ v.promise = s.promise /\ v.requests = s.requests /\ v.eaters = s.eaters
          /\ v.violators = s.violators
          /\ v.npc[o] = body /\ \A m \in Npcs \ {o} : v.npc[m] = s.npc[m]
      BY <1>0, <3>2 DEF Worlds
    <3> HIDE DEF v, hurt
    <3>4. \A p \in Npcs : s.npc[p].sev = "none"
      BY <1>0, <2>2
    <3>5. \A m \in Npcs : /\ v.npc[m].act = s.npc[m].act /\ v.npc[m].loc = s.npc[m].loc
                          /\ v.npc[m].transit = s.npc[m].transit
      BY <3>2, <3>3
    <3>6. \A h, p \in Npcs : ~Treats(s, h, p) /\ ~Treats(v, h, p)
      BY <3>4, <3>5 DEF CareMarked, Injured, Treats, Active
    <3>7. BenchBook(v, c) /\ ActsFit(v, c) /\ MealBook(v) /\ AsksBook(v)
      <4>1. BenchBook(v, c)
        BY <3>3, <3>5 DEF Sound, BenchBook, Holder, AtBench, Active
      <4>2. ActsFit(v, c)
        BY <3>5 DEF Sound, ActsFit
      <4>3. MealBook(v)
        BY <3>3, <3>5 DEF Sound, MealBook, Active
      <4>4. AsksBook(v)
        BY <3>3 DEF Sound, AsksBook
      <4>5. QED
        BY <4>1, <4>2, <4>3, <4>4
    <3>8. CareBook(v, c) /\ CareMarked(v)
      <4>1. \A p \in Npcs : v.npc[p].sev # "none" =>
              p = o /\ c.injury \in Nat /\ c.injury <= v.tick
        BY <1>0, <2>2, <3>3, <3>4
      <4>2. \A p \in Npcs : ~(Injured(v, p) /\ v.npc[p].since # None)
        BY <3>2, <3>3, <3>4 DEF Injured
      <4>3. QED
        BY <3>6, <4>1, <4>2 DEF CareBook, CareMarked
    <3>9. Onward(c, s, v) /\ Settled(s, v) /\ \A m \in Npcs : Stranded(v, m) => Stranded(s, m)
      BY <3>2, <3>3, <3>5 DEF Onward, Settled, Stranded
    <3>10. QED
      BY <3>1, <3>3, <3>7, <3>8, <3>9 DEF Keeps, Sound
  <2>3. QED
    BY <2>1, <2>2
<1> HIDE DEF hurt
<1>2. t = IF script.removal = s.tick /\ s.meal.exists
          THEN [hurt EXCEPT !.meal = [exists |-> FALSE, owner |-> None], !.requests = {}]
          ELSE hurt
  BY DEF ApplyScriptedEvents, hurt
<1>3. CASE t = hurt
  BY <1>1, <1>3
<1>4. CASE s.meal.exists /\ t # hurt
  <2>1. t = [hurt EXCEPT !.meal = [exists |-> FALSE, owner |-> None], !.requests = {}]
    BY <1>2, <1>4
  <2>2. hurt \in Worlds
    BY <1>1 DEF Keeps, Sound
  <2> HIDE DEF t
  <2>3. /\ t \in Worlds
        /\ t.tick = hurt.tick /\ t.npc = hurt.npc /\ t.bench = hurt.bench
        /\ t.worker = hurt.worker /\ t.promise = hurt.promise /\ t.eaters = hurt.eaters
        /\ t.violators = hurt.violators
        /\ t.meal.exists = FALSE /\ t.meal.owner = None /\ t.requests = {}
    BY <2>1, <2>2 DEF Worlds, Meals
  <2>4. ActsFit(t, c) /\ BenchBook(t, c) /\ CareBook(t, c) /\ CareMarked(t) /\ AsksBook(t)
    <3>1. BenchBook(t, c) /\ ActsFit(t, c)
      BY <1>1, <2>3, SameBooks, SameBench DEF Keeps, Sound
    <3>2. CareBook(t, c) /\ CareMarked(t) /\ AsksBook(t)
      <4>1. CareBook(t, c) /\ CareMarked(t)
        BY <1>1, <2>3, SameBooks DEF Keeps, Sound
      <4>2. AsksBook(t)
        BY <1>1, <2>3 DEF Keeps, Sound, AsksBook
      <4>3. QED
        BY <4>1, <4>2
    <3>3. QED
      BY <3>1, <3>2
  <2>5. MealBook(t)
    BY <1>1, <2>3 DEF Keeps, Sound, MealBook, Active
  <2>6. Onward(c, hurt, t) /\ Settled(hurt, t) /\ \A m \in Npcs : Stranded(t, m) => Stranded(hurt, m)
    BY <2>3 DEF Onward, Settled, Stranded
  <2>7. Keeps(c, hurt, t)
    BY <2>3, <2>4, <2>5, <2>6 DEF Keeps, Sound
  <2>8. QED
    BY <1>0, <1>1, <2>4, <2>6, <2>7, KeepsTrans, SettledTrans DEF t
<1>5. QED
  BY <1>2, <1>3, <1>4

\* The commitment monitor, which has the last word of a tick.
LEMMA MonitorIs ==
  ASSUME script \in Scripts, NEW s, Sound(s, script), CareMarked(s)
  PROVE  LET t == CommitmentMonitor(s)
             inTime == s.promise.run # None /\ s.promise.run <= s.promise.terms.grace
         IN
         /\ Sound(t, script) /\ CareMarked(t)
         /\ t.tick = s.tick /\ t.npc = s.npc /\ t.bench = s.bench /\ t.meal = s.meal
         /\ t.promise.terms = s.promise.terms /\ t.promise.run = s.promise.run
         /\ s.promise.status # "active" => t.promise.status = s.promise.status
         /\ s.promise.status = "active" /\ t.promise.status = "fulfilled" => Kept(s)
         /\ s.promise.status = "active" /\ t.promise.status = "broken" =>
              s.tick > s.promise.terms.grace /\ ~inTime
         /\ t.promise.status = "active" => ~(s.tick > s.promise.terms.grace) \/ inTime
<1> DEFINE t == CommitmentMonitor(s)
           c == script
           kept == Kept(s)
           inTime == s.promise.run # None /\ s.promise.run <= s.promise.terms.grace
           late == s.tick > s.promise.terms.grace
<1>0. s \in Worlds /\ s.promise \in Promises
  BY DEF Sound, Worlds
<1>1. t = IF s.promise.status # "active" THEN s
          ELSE IF kept THEN [s EXCEPT !.promise.status = "fulfilled"]
          ELSE IF late /\ ~inTime
               THEN [s EXCEPT !.promise.status = "broken", !.promise.proposal = None]
          ELSE s
  BY DEF CommitmentMonitor, Fulfil, Break
<1> HIDE DEF t, kept
<1>2. /\ t \in Worlds
      /\ t.tick = s.tick /\ t.npc = s.npc /\ t.bench = s.bench /\ t.meal = s.meal
      /\ t.worker = s.worker /\ t.eaters = s.eaters /\ t.violators = s.violators
      /\ t.requests = s.requests
      /\ t.promise.terms = s.promise.terms /\ t.promise.run = s.promise.run
      /\ t.promise.proposal \in {s.promise.proposal, None}
      /\ t.promise.status = "active" => s.promise.status = "active"
  <2>1. CASE t = s
    BY <1>0, <2>1
  <2>2. CASE t = [s EXCEPT !.promise.status = "fulfilled"] /\ s.promise.status = "active"
    BY <1>0, <2>2 DEF Worlds, Promises
  <2>3. CASE /\ t = [s EXCEPT !.promise.status = "broken", !.promise.proposal = None]
             /\ s.promise.status = "active"
    BY <1>0, <2>3 DEF Worlds, Promises
  <2> HIDE DEF late, inTime
  <2>4. QED
    BY <1>1, <2>1, <2>2, <2>3
<1>3. BenchBook(t, c)
  BY <1>2, SameBench DEF Sound
<1>4. ActsFit(t, c) /\ MealBook(t) /\ AsksBook(t)
  <2>1. MealBook(t)
    BY <1>2, SameBooks DEF Sound, MealBook
  <2>2. AsksBook(t)
    BY <1>2 DEF Sound, AsksBook
  <2>3. QED
    BY <1>2, <2>1, <2>2, SameBooks DEF Sound
<1>5. CareBook(t, c) /\ CareMarked(t)
  BY <1>2, SameBooks DEF Sound
<1>6. /\ s.promise.status # "active" => t.promise.status = s.promise.status
      /\ s.promise.status = "active" /\ t.promise.status = "fulfilled" => kept
      /\ s.promise.status = "active" /\ t.promise.status = "broken" => late /\ ~inTime
      /\ t.promise.status = "active" => ~late \/ inTime
  <2>1. CASE s.promise.status # "active"
    BY <1>1, <2>1
  <2>2. CASE s.promise.status = "active" /\ kept
    <3>1. t.promise.status = "fulfilled"
      BY <1>0, <1>1, <2>2 DEF Worlds, Promises
    <3>2. QED
      BY <2>2, <3>1
  <2>3. CASE s.promise.status = "active" /\ ~kept /\ late /\ ~inTime
    <3>1. t.promise.status = "broken"
      BY <1>0, <1>1, <2>3 DEF Worlds, Promises
    <3>2. QED
      BY <2>3, <3>1
  <2>4. CASE s.promise.status = "active" /\ ~kept /\ ~(late /\ ~inTime)
    <3>1. t = s
      BY <1>1, <2>4
    <3>2. QED
      BY <2>4, <3>1
  <2>5. QED
    BY <2>1, <2>2, <2>3, <2>4
<1>7. QED
  BY <1>2, <1>3, <1>4, <1>5, <1>6 DEF Sound, t, kept

\* The world when a tick's completions begin, and when they are over.
Upkept(s) ==
  ProgressRepair(ForEachNpc(Sustain, ForEachNpc(Arrive, ForEachNpc(Worsen,
    ApplyScriptedEvents(AdvanceTime(s))))))
Completed(s) == ForEachNpc(Complete, Upkept(s))

LEMMA TickCourse ==
  ASSUME script \in Scripts, NEW s, Sound(s, script), CareMarked(s), s.tick < EndTick, Ahead(s)
  PROVE  LET now == AdvanceTime(s)
             u == Upkept(s)
             v == Completed(s)
         IN
         /\ Keeps(script, now, u) /\ Settled(now, u) /\ CareMarked(u)
         /\ Keeps(script, u, v) /\ Concluded(script, u, v) /\ CareMarked(v)
         /\ Keeps(script, now, v)
         /\ \A n \in Npcs : OnItsWay(v, n) /\ NothingDue(v, n)
<1> DEFINE now == AdvanceTime(s)
           a == ApplyScriptedEvents(now)
           b == ForEachNpc(Worsen, a)
           d == ForEachNpc(Arrive, b)
           e == ForEachNpc(Sustain, d)
           u == ProgressRepair(e)
           v == ForEachNpc(Complete, u)
           c == script
<1>0. c.debtor \in Npcs /\ s \in Worlds /\ s.tick \in Nat
  BY RolesAre, TimesAssumption DEF Sound, Worlds, Ticks
<1>1. /\ Sound(now, c) /\ CareMarked(now) /\ now.tick = s.tick + 1 /\ now.npc = s.npc
      /\ \A p \in Npcs : now.npc[p].sev # "none" => c.injury \in Nat /\ c.injury < now.tick
  BY TimeAdvances
<1> HIDE DEF now
<1>2. MayArrive(now)
  <2>1. \A n \in Npcs : s.npc[n].transit # None => s.npc[n].transit.arrives \in Nat
    BY <1>0 DEF Worlds, Bodies, Transits
  <2>2. QED
    BY <1>0, <1>1, <2>1 DEF MayArrive, Ahead
<1>3. Keeps(c, now, a) /\ Settled(now, a) /\ CareMarked(a)
  BY <1>1, ScriptedKeeps
<1> HIDE DEF a
<1>4. Keeps(c, a, b) /\ Settled(a, b) /\ CareMarked(b)
  BY <1>3, EveryoneWorsens DEF Keeps
<1> HIDE DEF b
<1>5. Keeps(c, now, b) /\ Settled(now, b)
  BY <1>0, <1>1, <1>3, <1>4, KeepsTrans, SettledTrans
<1>6. MayArrive(b)
  <2>1. now.tick \in Nat /\ b \in Worlds
    BY <1>0, <1>1, <1>5 DEF Keeps, Sound
  <2>2. QED
    BY <1>2, <1>5, <2>1, MayArriveStays DEF Keeps
<1>7. Keeps(c, b, d) /\ Settled(b, d) /\ CareMarked(d) /\ \A n \in Npcs : OnItsWay(d, n)
  BY <1>4, <1>6, EveryoneArrives DEF Keeps
<1> HIDE DEF d
<1>8. Keeps(c, now, d) /\ Settled(now, d)
  BY <1>0, <1>1, <1>5, <1>7, KeepsTrans, SettledTrans
<1>9. Keeps(c, d, e) /\ Settled(d, e) /\ CareMarked(e)
  BY <1>7, EveryoneSustains DEF Keeps
<1> HIDE DEF e
<1>10. Keeps(c, now, e) /\ Settled(now, e)
  BY <1>0, <1>1, <1>8, <1>9, KeepsTrans, SettledTrans
<1>11. Keeps(c, e, u) /\ Settled(e, u) /\ CareMarked(u)
  BY <1>9, RepairKeeps DEF Keeps
<1> HIDE DEF u
<1>12. Keeps(c, now, u) /\ Settled(now, u)
  BY <1>0, <1>1, <1>10, <1>11, KeepsTrans, SettledTrans
<1>13. /\ Keeps(c, u, v) /\ CareMarked(v) /\ Concluded(c, u, v)
       /\ \A n \in Npcs : NothingDue(v, n)
  BY <1>11, EveryoneCompletes DEF Keeps
<1> HIDE DEF v
<1>14. Keeps(c, now, v)
  BY <1>0, <1>1, <1>12, <1>13, KeepsTrans
<1>15. \A n \in Npcs : OnItsWay(v, n)
  <2>1. \A n \in Npcs : OnItsWay(e, n)
    BY <1>7, <1>9, OnItsWayStays DEF Keeps
  <2>2. \A n \in Npcs : OnItsWay(u, n)
    BY <1>11, <2>1, OnItsWayStays DEF Keeps
  <2>3. QED
    BY <1>13, <2>2, OnItsWayStays DEF Keeps
<1>16. u = Upkept(s) /\ v = Completed(s)
  BY DEF u, v, e, d, b, a, now, Upkept, Completed
<1>17. QED
  BY <1>11, <1>12, <1>13, <1>14, <1>15, <1>16 DEF now

-----------------------------------------------------------------------------
(* Offers                                                                  *)

LEMMA RoundedUp ==
  ASSUME NEW earliest \in Nat, NEW unit \in Nat \ {0}
  PROVE  ((earliest + unit - 1) \div unit) * unit \in Nat
<1>1. earliest + unit - 1 \in Nat
  OBVIOUS
<1>2. (earliest + unit - 1) \div unit \in Nat
  BY <1>1
<1> DEFINE k == (earliest + unit - 1) \div unit
<1> HIDE DEF k
<1>3. k \in Nat => k * unit \in Nat
  OBVIOUS
<1>4. QED
  BY <1>2, <1>3 DEF k

LEMMA ProposedIsTerms ==
  ASSUME NEW n \in DOMAIN Treating, NEW asked \in Nat
  PROVE  ProposedTerms(n, asked) \in Terms
<1> DEFINE earliest == asked + Social + Travel + Treating[n] + Travel + Buffer
           start == ((earliest + Minute - 1) \div Minute) * Minute
<1>1. earliest \in Nat /\ Minute \in Nat \ {0} /\ GraceSpan \in Nat
  <2>1. Treating[n] \in Nat
    BY RolesAssumption
  <2>2. /\ Social \in Nat /\ Travel \in Nat /\ Buffer \in Nat
        /\ Minute \in Nat \ {0} /\ GraceSpan \in Nat
    BY TimesAssumption
  <2>3. QED
    BY <2>1, <2>2
<1> HIDE DEF earliest
<1>2. start \in Nat
  BY <1>1, RoundedUp
<1> HIDE DEF start
<1>3. ProposedTerms(n, asked) = [start |-> start, grace |-> start + GraceSpan]
  BY DEF ProposedTerms, start, earliest
<1>4. QED
  BY <1>1, <1>2, <1>3 DEF Terms

\* An affordance is a record of these fields.
Shaped(a) ==
  a = [mode |-> a.mode, target |-> a.target, place |-> a.place, long |-> a.long, ask |-> a.ask,
       terms |-> a.terms, interruptible |-> a.interruptible]

LEMMA OfferIs ==
  ASSUME NEW mode, NEW long
  PROVE  LET a == Offer(mode, long) IN
         /\ a.mode = mode /\ a.target = None /\ a.place = None /\ a.long = long
         /\ a.ask = None /\ a.terms = None /\ a.interruptible \in BOOLEAN
         /\ Shaped(a)
  BY DEF Offer, Shaped

LEMMA Reshaped ==
  ASSUME NEW a, Shaped(a), NEW v
  PROVE  /\ Shaped([a EXCEPT !.target = v]) /\ Shaped([a EXCEPT !.place = v])
         /\ Shaped([a EXCEPT !.ask = v]) /\ Shaped([a EXCEPT !.terms = v])
         /\ Shaped([a EXCEPT !.mode = v])
<1>1. Shaped([a EXCEPT !.target = v])
  BY DEF Shaped
<1>2. Shaped([a EXCEPT !.place = v])
  BY DEF Shaped
<1>3. Shaped([a EXCEPT !.ask = v])
  BY DEF Shaped
<1>4. Shaped([a EXCEPT !.terms = v])
  BY DEF Shaped
<1>5. Shaped([a EXCEPT !.mode = v])
  BY DEF Shaped
<1>6. QED
  BY <1>1, <1>2, <1>3, <1>4, <1>5

\* Every affordance may be begun: it fits its NPC, and what it answers is there.
LEMMA OffersFit ==
  ASSUME script \in Scripts, NEW s, NEW n \in Npcs, NEW asked \in Nat, Sound(s, script),
         NEW a \in Offers(s, n, asked)
  PROVE  Planned(script, n, a) /\ Asked(s, a) /\ Shaped(a)
<1> DEFINE c == script
<1>0. /\ s \in Worlds /\ Social \in Nat \ {0} /\ Eating \in Nat \ {0} /\ Waiting \in Nat \ {0}
      /\ Block \in Nat \ {0} /\ EndTick \in Nat \ {0}
  BY TimesAssumption DEF Sound
<1>1. a \in BenchOffers(s, n) \cup TreatOffers(s, n) \cup MealOffers(s, n)
            \cup PromiseOffers(s, n, asked) \cup OtherOffers(s, n)
  BY DEF Offers, When
<1>2. CASE a \in BenchOffers(s, n)
  <2> DEFINE at == [Offer("work", EndTick) EXCEPT !.place = "bench"]
             on == [at EXCEPT !.mode = "relieve", !.target = Holder(s)]
  <2>1. a = at \/ (a = on /\ Holder(s) \notin {None, n})
    BY <1>2 DEF BenchOffers, When
  <2>2. Holder(s) \in Npcs \cup {None}
    BY <1>0 DEF Holder, Worlds, Benches
  <2>3. /\ at.mode = "work" /\ at.target = None /\ at.place = "bench" /\ at.long = EndTick
        /\ at.ask = None /\ at.terms = None /\ at.interruptible \in BOOLEAN
    BY DEF Offer
  <2>4. /\ on.mode = "relieve" /\ on.target = Holder(s) /\ on.place = "bench"
        /\ on.long = EndTick /\ on.ask = None /\ on.terms = None
        /\ on.interruptible \in BOOLEAN
    BY DEF Offer
  <2>5. Shaped(at) /\ Shaped(on)
    BY OfferIs, Reshaped
  <2> HIDE DEF at, on
  <2>6. QED
    BY <1>0, <2>1, <2>2, <2>3, <2>4, <2>5
       DEF Planned, Fit, Asked, Modes, BenchModes, Interruptible, OwnerModes, AnswerModes,
           EatModes, Places
<1>3. CASE a \in TreatOffers(s, n)
  <2>1. PICK p \in Npcs \ {n} :
          /\ n \in DOMAIN Treating
          /\ a = [Offer("treat", Treating[n]) EXCEPT
                    !.target = p, !.place = IF Down(s, p) THEN s.npc[p].loc ELSE "cot"]
    BY <1>3 DEF TreatOffers
  <2> DEFINE place == IF Down(s, p) THEN s.npc[p].loc ELSE "cot"
  <2>2. place \in Places
    BY <1>0 DEF Worlds, Bodies, Places
  <2>3. /\ a.mode = "treat" /\ a.target = p /\ a.place = place /\ a.long = Treating[n]
        /\ a.ask = None /\ a.terms = None /\ a.interruptible \in BOOLEAN
    BY <2>1 DEF Offer
  <2> HIDE DEF place
  <2>4. Treating[n] \in Nat \ {0}
    BY <2>1, RolesAssumption
  <2>5. Shaped(a)
    <3> DEFINE o == [Offer("treat", Treating[n]) EXCEPT !.target = p]
               there == IF Down(s, p) THEN s.npc[p].loc ELSE "cot"
    <3>1. Shaped(o)
      BY OfferIs, Reshaped
    <3>2. a = [o EXCEPT !.place = there]
      BY <2>1
    <3> HIDE DEF o, there
    <3>3. QED
      BY <3>1, <3>2, Reshaped
  <2>6. QED
    BY <2>1, <2>2, <2>3, <2>4, <2>5
       DEF Planned, Fit, Asked, Modes, BenchModes, Interruptible, OwnerModes, AnswerModes,
           EatModes
<1>4. CASE a \in MealOffers(s, n)
  <2>1. \/ \E mode \in EatModes : a = [Offer(mode, Eating) EXCEPT !.place = "shelf"]
        \/ \E mode \in {"request-transfer", "release"} : a = Offer(mode, Social)
        \/ a \in HandoverOffers(s, n)
    BY <1>4 DEF MealOffers, When, EatModes
  <2>2. CASE \E mode \in EatModes : a = [Offer(mode, Eating) EXCEPT !.place = "shelf"]
    <3>1. PICK mode \in EatModes : a = [Offer(mode, Eating) EXCEPT !.place = "shelf"]
      BY <2>2
    <3>2. /\ a.mode = mode /\ a.target = None /\ a.place = "shelf" /\ a.long = Eating
          /\ a.ask = None /\ a.terms = None /\ a.interruptible \in BOOLEAN
      BY <3>1 DEF Offer
    <3>3. Shaped(a)
      BY <3>1, OfferIs, Reshaped
    <3>4. QED
      BY <1>0, <3>2, <3>3
         DEF Planned, Fit, Asked, Modes, BenchModes, Interruptible, OwnerModes, AnswerModes,
             EatModes, Places
  <2>3. CASE \E mode \in {"request-transfer", "release"} : a = Offer(mode, Social)
    BY <1>0, <2>3, OfferIs
       DEF Planned, Fit, Asked, Modes, BenchModes, Interruptible, OwnerModes, AnswerModes,
           EatModes
  <2>4. CASE a \in HandoverOffers(s, n)
    <3> DEFINE answer(mode, r) == [Offer(mode, Social) EXCEPT !.target = r.from, !.ask = r]
    <3>0. HandoverOffers(s, n) =
            {answer(mode, r) : mode \in {"transfer", "refuse-request"}, r \in s.requests}
      BY DEF HandoverOffers
    <3>a. \A mode, r : Shaped(answer(mode, r))
      <4> SUFFICES ASSUME NEW mode, NEW r PROVE Shaped(answer(mode, r))
        OBVIOUS
      <4> DEFINE o == [Offer(mode, Social) EXCEPT !.target = r.from]
      <4>1. Shaped(o)
        BY OfferIs, Reshaped
      <4>2. answer(mode, r) = [o EXCEPT !.ask = r]
        OBVIOUS
      <4> HIDE DEF o
      <4>3. Shaped([o EXCEPT !.ask = r])
        BY <4>1, Reshaped
      <4> HIDE DEF answer
      <4>4. QED
        BY <4>2, <4>3
    <3> HIDE DEF answer
    <3>1. PICK mode \in {"transfer", "refuse-request"}, r \in s.requests : a = answer(mode, r)
      BY <2>4, <3>0
    <3>2. r \in Requests /\ r.from \in Npcs /\ r.at <= s.tick
      BY <1>0, <3>1 DEF Worlds, Requests, Sound, AsksBook
    <3>3. /\ a.mode = mode /\ a.target = r.from /\ a.place = None /\ a.long = Social
          /\ a.ask = r /\ a.terms = None /\ a.interruptible \in BOOLEAN
      BY <3>1 DEF Offer, answer
    <3>4. QED
      BY <1>0, <3>a, <3>1, <3>2, <3>3
         DEF Planned, Fit, Asked, Modes, BenchModes, Interruptible, OwnerModes, AnswerModes,
             EatModes
  <2>5. QED
    BY <2>1, <2>2, <2>3, <2>4
<1>5. CASE a \in PromiseOffers(s, n, asked)
  <2> DEFINE terms == ProposedTerms(n, asked)
  <2>1. \/ n \in DOMAIN Treating /\ a = [Offer("propose-renegotiation", Social) EXCEPT !.terms = terms]
        \/ /\ n = c.creditor /\ s.promise.proposal # None
           /\ \E mode \in AnswerModes : a = [Offer(mode, Social) EXCEPT !.ask = s.promise.proposal]
    BY <1>5 DEF PromiseOffers, When, Conflicted, Creditor
  <2>2. CASE /\ n \in DOMAIN Treating
             /\ a = [Offer("propose-renegotiation", Social) EXCEPT !.terms = terms]
    <3>1. terms \in Terms
      BY <2>2, ProposedIsTerms
    <3> HIDE DEF terms
    <3>2. /\ a.mode = "propose-renegotiation" /\ a.target = None /\ a.place = None
          /\ a.long = Social /\ a.ask = None /\ a.terms = terms /\ a.interruptible \in BOOLEAN
      BY <2>2 DEF Offer
    <3>3. Shaped(a)
      BY <2>2, OfferIs, Reshaped
    <3>4. QED
      BY <1>0, <3>1, <3>2, <3>3
         DEF Planned, Fit, Asked, Modes, BenchModes, Interruptible, OwnerModes, AnswerModes,
             EatModes
  <2>3. CASE /\ n = c.creditor /\ s.promise.proposal # None
             /\ \E mode \in AnswerModes : a = [Offer(mode, Social) EXCEPT !.ask = s.promise.proposal]
    <3>1. PICK mode \in AnswerModes : a = [Offer(mode, Social) EXCEPT !.ask = s.promise.proposal]
      BY <2>3
    <3>2. s.promise.proposal \in Proposals /\ s.promise.proposal.at <= s.tick
      BY <1>0, <2>3 DEF Worlds, Promises, Sound, AsksBook
    <3>3. /\ a.mode = mode /\ a.target = None /\ a.place = None /\ a.long = Social
          /\ a.ask = s.promise.proposal /\ a.terms = None /\ a.interruptible \in BOOLEAN
      BY <3>1 DEF Offer
    <3>4. Shaped(a)
      BY <3>1, OfferIs, Reshaped
    <3>5. QED
      BY <1>0, <2>3, <3>1, <3>2, <3>3, <3>4
         DEF Planned, Fit, Asked, Modes, BenchModes, Interruptible, OwnerModes, AnswerModes,
             EatModes
  <2>4. QED
    BY <2>1, <2>2, <2>3
<1>6. CASE a \in OtherOffers(s, n)
  <2>1. \/ a = Offer("wait", Waiting) \/ a = Offer("rest", Block)
        \/ a = [Offer("routine-work", Block) EXCEPT !.place = "duty"]
        \/ a = [Offer("stay-at-cot", Block) EXCEPT !.place = "cot"]
        \/ a = Offer("ask-help", Social) \/ a = Offer("request-break", Social)
    BY <1>6 DEF OtherOffers, When
  <2>2. /\ a.mode \in {"wait", "rest", "routine-work", "stay-at-cot", "ask-help", "request-break"}
        /\ a.target = None /\ a.place \in Places \cup {None}
        /\ a.long \in {Waiting, Block, Social} /\ a.ask = None /\ a.terms = None
        /\ a.interruptible \in BOOLEAN
    <3>1. CASE \/ a = Offer("wait", Waiting) \/ a = Offer("rest", Block)
               \/ a = Offer("ask-help", Social) \/ a = Offer("request-break", Social)
      BY <3>1, OfferIs
    <3>2. CASE a = [Offer("routine-work", Block) EXCEPT !.place = "duty"]
      BY <3>2 DEF Offer, Places
    <3>3. CASE a = [Offer("stay-at-cot", Block) EXCEPT !.place = "cot"]
      BY <3>3 DEF Offer, Places
    <3>4. QED
      BY <2>1, <3>1, <3>2, <3>3
  <2>3. Shaped(a)
    <3> DEFINE work == Offer("routine-work", Block)
               stay == Offer("stay-at-cot", Block)
    <3>1. /\ Shaped(work) /\ Shaped(stay) /\ Shaped(Offer("wait", Waiting))
          /\ Shaped(Offer("rest", Block)) /\ Shaped(Offer("ask-help", Social))
          /\ Shaped(Offer("request-break", Social))
      BY OfferIs
    <3>2. /\ a = Offer("wait", Waiting) \/ a = Offer("rest", Block)
             \/ a = Offer("ask-help", Social) \/ a = Offer("request-break", Social)
             \/ a = [work EXCEPT !.place = "duty"] \/ a = [stay EXCEPT !.place = "cot"]
      BY <2>1
    <3> HIDE DEF work, stay
    <3>3. Shaped([work EXCEPT !.place = "duty"]) /\ Shaped([stay EXCEPT !.place = "cot"])
      BY <3>1, Reshaped
    <3>4. QED
      BY <3>1, <3>2, <3>3
  <2>4. Planned(script, n, a)
    <3>1. /\ a.mode \in Modes /\ a.mode \notin BenchModes \cup AnswerModes
          /\ a.mode \notin {"relieve", "treat", "transfer", "refuse-request",
                            "propose-renegotiation"}
      BY <2>2 DEF Modes, Interruptible, BenchModes, AnswerModes
    <3>2. a.long \in Nat /\ a.long > 0
      BY <1>0, <2>2
    <3>3. QED
      BY <2>2, <3>1, <3>2 DEF Planned, Fit
  <2>5. QED
    BY <2>2, <2>3, <2>4 DEF Asked
<1>7. QED
  BY <1>1, <1>2, <1>3, <1>4, <1>5, <1>6

-----------------------------------------------------------------------------
(* A tick                                                                  *)

\* After the completions nothing is due but later, before the end.
LEMMA AheadOnceCompleted ==
  ASSUME NEW c, NEW now, NEW v, Sound(now, c), Sound(v, c), Onward(c, now, v), v.tick < EndTick,
         \A n \in Npcs : now.npc[n].act # None => now.npc[n].act.ends >= now.tick,
         \A n \in Npcs : OnItsWay(v, n) /\ NothingDue(v, n) /\ ~Stranded(v, n)
  PROVE  Ahead(v)
<1> SUFFICES ASSUME NEW n \in Npcs, v.npc[n].act # None
             PROVE  v.npc[n].act.ends > v.tick
  BY DEF Ahead, OnItsWay
<1> DEFINE a == v.npc[n].act
<1>1. /\ v.tick \in Nat /\ v.tick = now.tick /\ a.ends \in Nat
      /\ a.phase \in {"moving", "active"} /\ EndTick \in Nat
  BY TimesAssumption DEF Sound, Worlds, Bodies, Actions, Ticks, Onward
<1>2. CASE a.phase = "moving"
  <2>1. v.npc[n].transit # None /\ v.npc[n].transit.arrives = a.ends
    BY <1>2 DEF Stranded, Sound, ActsFit
  <2>2. QED
    BY <2>1 DEF OnItsWay
<1>3. CASE a.phase = "active"
  <2>1. CASE a = now.npc[n].act
    <3>1. a.ends >= v.tick /\ a.ends # v.tick
      BY <1>1, <1>3, <2>1 DEF NothingDue, Active
    <3>2. QED
      BY <1>1, <3>1
  <2>2. CASE a.mode \in BenchModes
    <3>1. a.ends = EndTick
      BY <1>3, <2>2 DEF Sound, ActsFit
    <3>2. QED
      BY <1>1, <3>1
  <2>3. QED
    BY <2>1, <2>2 DEF Onward
<1>4. QED
  BY <1>1, <1>2, <1>3

LEMMA TickKeeps ==
  ASSUME script \in Scripts, NEW s, Sound(s, script), CareMarked(s), s.tick < EndTick, Ahead(s),
         \A n \in Npcs : ~Stranded(s, n)
  PROVE  LET t == WorldSteps(s) IN
         /\ Sound(t, script) /\ CareMarked(t) /\ Judged(t) /\ t.tick = s.tick + 1
         /\ \A n \in Npcs : ~Stranded(t, n)
         /\ t.tick < EndTick => Ahead(t)
<1> DEFINE now == AdvanceTime(s)
           v == Completed(s)
           t == CommitmentMonitor(v)
<1>1. /\ Keeps(script, now, v) /\ CareMarked(v)
      /\ \A n \in Npcs : OnItsWay(v, n) /\ NothingDue(v, n)
  BY TickCourse
<1>2. Sound(now, script) /\ now.tick = s.tick + 1 /\ now.npc = s.npc
  BY TimeAdvances
<1>3. WorldSteps(s) = t
  BY DEF WorldSteps, Upkeep, Completed, Upkept
<1> HIDE DEF now, v
<1>4. /\ Sound(t, script) /\ CareMarked(t) /\ t.tick = v.tick /\ t.npc = v.npc
      /\ t.promise.terms = v.promise.terms /\ t.promise.run = v.promise.run
      /\ t.promise.status = "active" =>
           \/ ~(v.tick > v.promise.terms.grace)
           \/ v.promise.run # None /\ v.promise.run <= v.promise.terms.grace
  BY <1>1, MonitorIs DEF Keeps
<1> HIDE DEF t
<1>5. v.tick = s.tick + 1
  BY <1>1, <1>2 DEF Keeps, Onward
<1>6. \A n \in Npcs : ~Stranded(v, n)
  <2>1. \A n \in Npcs : ~Stranded(now, n)
    BY <1>2 DEF Stranded
  <2>2. QED
    BY <1>1, <2>1 DEF Keeps
<1>7. Judged(t)
  <2>1. /\ t.tick \in Nat /\ t.promise.terms.grace \in Nat
        /\ t.promise.run # None => t.promise.run \in Nat
    BY <1>4, TimesAssumption DEF Sound, Worlds, Promises, Terms, Ticks
  <2>2. QED
    BY <1>4, <2>1 DEF Judged
<1>8. ASSUME v.tick < EndTick PROVE Ahead(v)
  <2>1. \A n \in Npcs : now.npc[n].act # None => now.npc[n].act.ends >= now.tick
    <3>1. s.tick \in Nat /\ \A n \in Npcs : s.npc[n].act # None => s.npc[n].act.ends \in Nat
      BY TimesAssumption DEF Sound, Worlds, Bodies, Actions, Ticks
    <3>2. QED
      BY <1>2, <3>1 DEF Ahead
  <2>2. QED
    BY <1>1, <1>2, <1>6, <1>8, <2>1, AheadOnceCompleted DEF Keeps
<1>9. QED
  BY <1>3, <1>4, <1>5, <1>6, <1>7, <1>8 DEF Ahead, Stranded

-----------------------------------------------------------------------------
(* Decisions and the end                                                   *)

LEMMA AheadKept ==
  ASSUME NEW c, NEW s, NEW t, Sound(s, c), Keeps(c, s, t), Ahead(s), t.tick < EndTick,
         \A n \in Npcs : ~Stranded(t, n)
  PROVE  Ahead(t)
<1>1. \A n \in Npcs : OnItsWay(t, n)
  <2>1. \A n \in Npcs : OnItsWay(s, n)
    BY DEF Ahead, OnItsWay
  <2>2. QED
    BY <2>1, OnItsWayStays DEF Keeps
<1> SUFFICES ASSUME NEW n \in Npcs, t.npc[n].act # None
             PROVE  t.npc[n].act.ends > t.tick
  BY <1>1 DEF Ahead, OnItsWay
<1> DEFINE a == t.npc[n].act
<1>2. Sound(t, c) /\ Onward(c, s, t) /\ t.tick = s.tick
  BY DEF Keeps, Onward
<1>3. a.phase \in {"moving", "active"}
  BY <1>2 DEF Sound, Worlds, Bodies, Actions
<1>4. CASE a.phase = "moving"
  <2>1. t.npc[n].transit # None /\ t.npc[n].transit.arrives = a.ends
    BY <1>2, <1>4 DEF Stranded, Sound, ActsFit
  <2>2. QED
    BY <1>1, <2>1 DEF OnItsWay
<1>5. CASE a.phase = "active" /\ a.mode \in BenchModes
  <2>1. a.ends = EndTick /\ t.tick \in Nat /\ EndTick \in Nat
    BY <1>2, <1>5, TimesAssumption DEF Sound, ActsFit, Worlds, Ticks
  <2>2. QED
    BY <2>1
<1>6. CASE a = s.npc[n].act
  BY <1>2, <1>6 DEF Ahead
<1>7. QED
  BY <1>2, <1>3, <1>4, <1>5, <1>6 DEF Onward

\* A session found and the one a run counts are the same.
LEMMA JudgedKept ==
  ASSUME NEW c, NEW s, NEW t, c.debtor \in Npcs, Sound(s, c), Keeps(c, s, t), Settled(s, t),
         Judged(s)
  PROVE  Judged(t)
<1> SUFFICES ASSUME t.promise.status = "active", t.promise.run # None,
                    ~(t.tick <= t.promise.terms.grace)
             PROVE  t.promise.run \in {t.tick} \cup 0..t.promise.terms.grace
  BY DEF Judged
<1>1. /\ Sound(t, c) /\ t.tick = s.tick /\ t.promise.terms = s.promise.terms
      /\ s.promise.status = "active"
  BY DEF Keeps, Onward, Settled
<1>2. /\ Holder(t) = c.debtor /\ t.promise.run = t.bench.since /\ t.bench # None
  BY <1>1, NoneIsNothing DEF Sound, BenchBook, Holder
<1>3. CASE t.bench = s.bench
  <2>1. Holder(s) = c.debtor
    BY <1>2, <1>3 DEF Holder
  <2>2. s.promise.run # None /\ s.promise.run = t.promise.run
    BY <1>1, <1>2, <1>3, <2>1 DEF Sound, BenchBook
  <2>3. QED
    BY <1>1, <2>2 DEF Judged
<1>4. CASE t.bench.since = t.tick
  BY <1>2, <1>4
<1>5. QED
  BY <1>2, <1>3, <1>4 DEF Keeps, Onward

LEMMA LaunchStep ==
  ASSUME script \in Scripts, NEW s, NEW n \in Npcs, Sound(s, script),
         CareMarked(s), Judged(s), \A m \in Npcs : ~Stranded(s, m), s.tick < EndTick => Ahead(s),
         s.npc[n].transit = None, s.npc[n].act # None => Active(s, n),
         NEW a, Planned(script, n, a), Asked(s, a)
  PROVE  LET t == Launch(s, n, a) IN
         /\ Keeps(script, s, t) /\ Settled(s, t) /\ CareMarked(t) /\ Judged(t)
         /\ \A m \in Npcs : ~Stranded(t, m)
         /\ t.tick < EndTick => Ahead(t)
<1> DEFINE t == Launch(s, n, a)
<1>0. script.debtor \in Npcs
  BY RolesAre
<1>2. Keeps(script, s, t) /\ Settled(s, t) /\ CareMarked(t)
  BY LaunchKeeps
<1> HIDE DEF t
<1>3. Judged(t)
  BY <1>0, <1>2, JudgedKept
<1>4. \A m \in Npcs : ~Stranded(t, m)
  BY <1>2 DEF Keeps
<1>5. ASSUME t.tick < EndTick PROVE Ahead(t)
  <2>1. t.tick = s.tick
    BY <1>2 DEF Keeps, Onward
  <2>2. QED
    BY <1>2, <1>4, <1>5, <2>1, AheadKept
<1>6. QED
  BY <1>2, <1>3, <1>4, <1>5 DEF t

\* endScenario.
LEMMA EndStep ==
  ASSUME script \in Scripts, NEW s, Sound(s, script), Judged(s), EndTick <= s.tick
  PROVE  LET t == EndScenario(s) IN
         /\ Keeps(script, s, t) /\ Settled(s, t) /\ CareMarked(t) /\ Judged(t)
         /\ \A m \in Npcs : t.npc[m].act = None
         /\ ~(t.tick < EndTick)
<1> DEFINE u == ForEachNpc(Interrupt, s)
           how == IF u.progress >= Total THEN "completed" ELSE "deadline-missed"
           t == EndScenario(s)
<1>0. script.debtor \in Npcs
  BY RolesAre
<1>1. Keeps(script, s, u) /\ Settled(s, u) /\ \A n \in Npcs : u.npc[n].act = None
  BY EveryoneStops
<1>2. t = [u EXCEPT !.outcome = how]
  BY DEF EndScenario
<1> HIDE DEF u
<1>3. how \in {"completed", "deadline-missed"}
  OBVIOUS
<1> HIDE DEF how, t
<1>4. /\ t \in Worlds
      /\ t.tick = u.tick /\ t.npc = u.npc /\ t.meal = u.meal /\ t.bench = u.bench
      /\ t.worker = u.worker /\ t.promise = u.promise /\ t.requests = u.requests
      /\ t.violators = u.violators /\ t.eaters = u.eaters
  BY <1>1, <1>2, <1>3 DEF Keeps, Sound, Worlds
<1>5. Sound(t, script)
  <2>1. ActsFit(t, script)
    BY <1>1, <1>4 DEF ActsFit
  <2>2. BenchBook(t, script)
    BY <1>1, <1>4 DEF Keeps, Sound, BenchBook, Holder, AtBench, Active
  <2>3. CareBook(t, script)
    <3>1. CareBook(u, script)
      BY <1>1 DEF Keeps, Sound
    <3>2. QED
      BY <1>4, <3>1, SameBooks
  <2>4. MealBook(t)
    <3>1. MealBook(u)
      BY <1>1 DEF Keeps, Sound
    <3>2. QED
      BY <1>4, <3>1 DEF MealBook, Active
  <2>5. AsksBook(t)
    BY <1>1, <1>4 DEF Keeps, Sound, AsksBook
  <2>6. QED
    BY <1>4, <2>1, <2>2, <2>3, <2>4, <2>5 DEF Sound
<1>6. Onward(script, s, t)
  BY <1>1, <1>4 DEF Keeps, Onward, Earned
<1>7. Keeps(script, s, t) /\ Settled(s, t)
  <2>1. Settled(s, t)
    BY <1>1, <1>4 DEF Settled
  <2>2. \A n \in Npcs : ~Stranded(t, n)
    BY <1>1, <1>4 DEF Stranded
  <2>3. QED
    BY <1>5, <1>6, <2>1, <2>2 DEF Keeps
<1>8. CareMarked(t)
  BY <1>1, <1>4 DEF CareMarked, Treats, Active
<1>9. Judged(t)
  BY <1>0, <1>7, JudgedKept
<1>10. ~(t.tick < EndTick)
  BY <1>7, TimesAssumption DEF Keeps, Onward, Sound, Worlds, Ticks
<1>11. QED
  BY <1>1, <1>4, <1>7, <1>8, <1>9, <1>10 DEF t

-----------------------------------------------------------------------------
(* The beginning                                                           *)

LEMMA RolesDiffer ==
  ASSUME NEW c \in Scripts
  PROVE  c.creditor # c.debtor
<1>1. {c.creditor, c.debtor, c.owner} = Npcs
  BY TimesAssumption
<1>2. /\ Npcs = {Order[1], Order[2], Order[3]}
      /\ Order[1] # Order[2] /\ Order[1] # Order[3] /\ Order[2] # Order[3]
  <2>1. DOMAIN Order = 1..3
    BY RolesAssumption
  <2>2. 1 \in DOMAIN Order /\ 2 \in DOMAIN Order /\ 3 \in DOMAIN Order
    BY <2>1
  <2>3. QED
    BY <2>2, OrderIs, RolesAssumption
<1>3. QED
  BY <1>1, <1>2

LEMMA StandingIs ==
  ASSUME script \in Scripts, NEW n \in Npcs
  PROVE  LET m == Standing(n) IN
         /\ m \in Bodies /\ Fit(script, n, m.act)
         /\ n = Creditor => m.loc = "bench"
         /\ m.transit = None /\ m.sev = "none" /\ m.act # None
         /\ m.act.mode \in {"work", "routine-work", "deliver-materials"}
         /\ m.act.mode = "work" <=> n = Creditor
         /\ m.act.phase = "active" /\ m.act.ask = None
         /\ m.act.ends \in {EndTick, Block} /\ (n = Creditor => m.act.ends = EndTick)
<1> DEFINE mode == IF n = Creditor THEN "work"
                   ELSE IF n = Debtor THEN "routine-work" ELSE "deliver-materials"
           long == IF n = Creditor THEN EndTick ELSE Block
           place == IF n = Debtor THEN "duty" ELSE "bench"
           act == Phase([Offer(mode, long) EXCEPT !.place = place], "active", long)
           m == Standing(n)
<1>1. Creditor # Debtor
  BY RolesDiffer DEF Creditor, Debtor
<1>2. EndTick \in Nat \ {0} /\ Block \in Nat \ {0} /\ 0 \in Nat
  BY TimesAssumption
<1>3. /\ mode \in {"work", "routine-work", "deliver-materials"}
      /\ mode = "work" <=> n = Creditor
      /\ long \in {EndTick, Block} /\ (n = Creditor => long = EndTick)
      /\ place \in {"duty", "bench"} /\ (n = Creditor => place = "bench")
  BY <1>1
<1>4. m = [loc |-> place, transit |-> None, sev |-> "none", hurt |-> None, since |-> None,
           by |-> None, cooled |-> 0, act |-> act]
  BY DEF Standing
<1> HIDE DEF mode, long, place, m
<1>5. act = [mode |-> mode, target |-> None, place |-> place, long |-> long, ask |-> None,
             terms |-> None, interruptible |-> mode \in Interruptible, phase |-> "active",
             ends |-> long]
  BY DEF Phase, Offer
<1> HIDE DEF act
<1>6. mode \in Modes /\ place \in Places
  BY <1>3 DEF Modes, Interruptible, BenchModes, Places
<1>7. act \in Actions
  BY <1>2, <1>3, <1>5, <1>6 DEF Actions
<1>8. m \in Bodies
  BY <1>2, <1>4, <1>6, <1>7 DEF Bodies, Severities
<1>9. act # None
  BY <1>7, NoneIsNothing
<1>10. Fit(script, n, act)
  BY <1>2, <1>3, <1>5 DEF Fit, BenchModes, AnswerModes, Creditor
<1>11. QED
  BY <1>3, <1>4, <1>5, <1>8, <1>9, <1>10 DEF m

LEMMA InitInv == Init => WorldInv
<1> SUFFICES ASSUME Init PROVE WorldInv
  OBVIOUS
<1>0. /\ script \in Scripts /\ Creditor \in Npcs /\ Debtor \in Npcs /\ Owner \in Npcs
      /\ Creditor # Debtor /\ Creditor = script.creditor /\ Debtor = script.debtor
  BY RolesAre, RolesDiffer DEF Init, Creditor, Debtor, Owner
<1>1. /\ EndTick \in Nat \ {0} /\ Block \in Nat \ {0} /\ Total \in Nat
      /\ Start \in Nat /\ Grace \in Nat
  BY TimesAssumption
<1>2. /\ w.tick = 0 /\ w.npc = [n \in Npcs |-> Standing(n)]
      /\ w.meal = [exists |-> TRUE, owner |-> Owner]
      /\ w.bench = [holder |-> Creditor, since |-> 0] /\ w.worker = Creditor /\ w.progress = 0
      /\ w.promise = [status |-> "active", terms |-> [start |-> Start, grace |-> Grace],
                      proposal |-> None, run |-> None]
      /\ w.requests = {} /\ w.outcome = "pending" /\ w.thrown = {}
      /\ w.violators = {} /\ w.eaters = {}
  BY DEF Init
<1>3. w.bench \in Benches /\ w.bench # None /\ Holder(w) = Creditor
  <2>1. w.bench \in Benches
    BY <1>0, <1>1, <1>2 DEF Benches, Ticks
  <2>2. QED
    BY <1>2, <2>1, NoneIsNothing DEF Holder
<1>4. \A n \in Npcs :
        /\ w.npc[n] \in Bodies /\ Fit(script, n, w.npc[n].act)
        /\ n = Creditor => w.npc[n].loc = "bench"
        /\ w.npc[n].transit = None /\ w.npc[n].sev = "none" /\ w.npc[n].act # None
        /\ w.npc[n].act.mode \in {"work", "routine-work", "deliver-materials"}
        /\ w.npc[n].act.mode = "work" <=> n = Creditor
        /\ w.npc[n].act.phase = "active" /\ w.npc[n].act.ask = None
        /\ w.npc[n].act.ends \in {EndTick, Block}
        /\ n = Creditor => w.npc[n].act.ends = EndTick
  BY <1>0, <1>2, StandingIs
<1>5. \A n \in Npcs : AtBench(w, n) <=> n = Creditor
  BY <1>4 DEF AtBench, Active, BenchModes
<1>6. w \in Worlds
  <2>1. w.npc \in [Npcs -> Bodies]
    BY <1>2, <1>4
  <2>2. w.promise \in Promises /\ w.meal \in Meals /\ w.tick \in Ticks /\ w.progress \in 0..Total
    BY <1>0, <1>1, <1>2 DEF Promises, Terms, Meals, Ticks
  <2>3. QED
    BY <1>0, <1>2, <1>3, <2>1, <2>2 DEF Worlds, Init
<1>7. ActsFit(w, script)
  BY <1>4 DEF ActsFit, BenchModes
<1>8. BenchBook(w, script)
  <2>1. w.promise.run = None /\ w.bench.since <= w.tick
    BY <1>2
  <2>2. \A n \in Npcs : (Holder(w) = n <=> AtBench(w, n)) /\ (w.worker = n <=> AtBench(w, n))
    BY <1>2, <1>3, <1>5
  <2>3. QED
    BY <1>0, <1>3, <1>4, <1>5, <2>1, <2>2 DEF BenchBook
<1>9. CareBook(w, script)
  BY <1>4 DEF CareBook, Injured
<1>10. MealBook(w)
  BY <1>2, <1>4 DEF MealBook, OwnerModes
<1>11. AsksBook(w)
  BY <1>2 DEF AsksBook
<1>12. CareMarked(w) /\ \A n \in Npcs : ~Stranded(w, n)
  BY <1>4 DEF CareMarked, Treats, Stranded
<1>13. Judged(w) /\ Ahead(w)
  BY <1>1, <1>2, <1>4 DEF Judged, Ahead
<1>14. step = "idle" /\ turn \in DOMAIN Order /\ answered = {}
  BY RolesAssumption DEF Init
<1>15. QED
  BY <1>0, <1>1, <1>2, <1>6, <1>7, <1>8, <1>9, <1>10, <1>11, <1>12, <1>13, <1>14
     DEF WorldInv, Sound

-----------------------------------------------------------------------------
(* The invariant is inductive                                              *)

\* What WorldInv says of a world.
Fair(s, c) ==
  /\ Sound(s, c) /\ CareMarked(s) /\ Judged(s)
  /\ \A n \in Npcs : ~Stranded(s, n)
  /\ s.tick < EndTick => Ahead(s)

\* A step that is no tick starts actions or ends them, and settles nothing.
Still(c, s, t) == Keeps(c, s, t) /\ Settled(s, t)

LEMMA FreeToDecide ==
  ASSUME NEW n \in Npcs, ~Occupied(n)
  PROVE  w.npc[n].transit = None /\ (w.npc[n].act # None => Active(w, n))
  BY DEF Occupied

LEMMA LaunchedStep ==
  ASSUME script \in Scripts, Fair(w, script), NEW n \in Npcs, NEW a, ~Occupied(n),
         Planned(script, n, a), Asked(w, a)
  PROVE  Fair(Launch(w, n, a), script) /\ Still(script, w, Launch(w, n, a))
<1>1. w.npc[n].transit = None /\ (w.npc[n].act # None => Active(w, n))
  BY FreeToDecide
<1> DEFINE t == Launch(w, n, a)
<1>2. /\ Keeps(script, w, t) /\ Settled(w, t) /\ CareMarked(t) /\ Judged(t)
      /\ \A m \in Npcs : ~Stranded(t, m)
      /\ t.tick < EndTick => Ahead(t)
  BY <1>1, LaunchStep DEF Fair
<1> HIDE DEF t
<1>3. QED
  BY <1>2 DEF Fair, Still, Keeps, t

\* An offer is planned, and the bridging action made of it is too.
LEMMA OfferedIsPlanned ==
  ASSUME script \in Scripts, Fair(w, script), NEW n \in Npcs, NEW asked \in Nat,
         NEW a \in Offers(w, n, asked)
  PROVE  /\ Planned(script, n, a) /\ Asked(w, a)
         /\ Planned(script, n, Bridging(a)) /\ Asked(w, Bridging(a))
<1>1. Planned(script, n, a) /\ Asked(w, a) /\ Shaped(a)
  BY OffersFit DEF Fair
<1> DEFINE b == Bridging(a)
<1>2. /\ b.mode = a.mode /\ b.target = a.target /\ b.place = a.place /\ b.long = a.long
      /\ b.ask = a.ask /\ b.terms = a.terms /\ b.interruptible = TRUE
  BY <1>1 DEF Shaped, Bridging
<1> HIDE DEF b
<1>3. Planned(script, n, b) /\ Asked(w, b)
  BY <1>1, <1>2 DEF Planned, Asked, Fit
<1>4. QED
  BY <1>1, <1>3 DEF b

\* The steps, seen from the world.
LEMMA StepKeeps ==
  ASSUME WorldInv, [Next]_vars
  PROVE  /\ script' = script /\ Fair(w', script)
         /\ \/ step = "idle" /\ w' = WorldSteps(w) /\ w.tick < EndTick /\ w'.tick = w.tick + 1
            \/ Still(script, w, w')
         /\ step' \in {"idle", "decide"} => w'.tick < EndTick
         /\ step' \in {"idle", "drain", "decide", "ended"} /\ turn' \in DOMAIN Order
         /\ answered' \subseteq Npcs
         /\ step' = "ended" => \A n \in Npcs : w'.npc[n].act = None
<1>0. /\ script \in Scripts /\ Fair(w, script) /\ turn \in DOMAIN Order /\ answered \subseteq Npcs
      /\ step \in {"idle", "drain", "decide", "ended"}
      /\ step \in {"idle", "decide"} => w.tick < EndTick
      /\ step = "ended" => \A n \in Npcs : w.npc[n].act = None
      /\ w.tick \in Nat /\ EndTick \in Nat
  BY TimesAssumption DEF WorldInv, Fair, Sound, Worlds, Ticks
<1>1. Still(script, w, w)
  BY <1>0, OnwardRefl DEF Still, Keeps, Fair
<1>2. /\ Len(Order) = 3 /\ DOMAIN Order = 1..3 /\ Order[turn] \in Npcs
  BY <1>0, RolesAssumption DEF Npcs
<1>3. CASE Tick
  <2>1. /\ Sound(w', script) /\ CareMarked(w') /\ Judged(w') /\ w'.tick = w.tick + 1
        /\ \A n \in Npcs : ~Stranded(w', n)
        /\ w'.tick < EndTick => Ahead(w')
    BY <1>0, <1>3, TickKeeps DEF Tick, Fair
  <2>2. QED
    BY <1>0, <1>3, <2>1 DEF Tick, Fair
<1>4. ASSUME NEW n \in Npcs, LateAnswer(n)
      PROVE  /\ script' = script /\ Fair(w', script) /\ Still(script, w, w')
             /\ step' = step /\ turn' = turn /\ answered' \subseteq Npcs /\ step = "drain"
  <2>1. PICK asked \in {t \in 1..(w.tick - 1) : t >= w.tick - Ttl} :
          \E a \in Choices(n, asked) : w' = Launch(w, n, a)
    BY <1>4 DEF LateAnswer
  <2>2. PICK a \in Choices(n, asked) : w' = Launch(w, n, a)
    BY <2>1
  <2>3. asked \in Nat /\ a \in Offers(w, n, asked)
    BY <2>1, <2>2 DEF Choices
  <2>4. Fair(w', script) /\ Still(script, w, w')
    <3>1. Planned(script, n, a) /\ Asked(w, a)
      BY <1>0, <2>3, OfferedIsPlanned
    <3>2. QED
      BY <1>0, <1>4, <2>2, <3>1, LaunchedStep DEF LateAnswer
  <2>5. QED
    BY <1>0, <1>4, <2>4 DEF LateAnswer
<1>5. CASE EndDrain
  <2>1. CASE w.tick >= EndTick
    <3>1. w' = EndScenario(w) /\ step' = "ended"
      BY <1>5, <2>1 DEF EndDrain
    <3>2. /\ Keeps(script, w, w') /\ Settled(w, w') /\ CareMarked(w') /\ Judged(w')
          /\ \A m \in Npcs : w'.npc[m].act = None
          /\ ~(w'.tick < EndTick)
      BY <1>0, <2>1, <3>1, EndStep DEF Fair
    <3>3. Fair(w', script) /\ Still(script, w, w')
      BY <3>2 DEF Fair, Still, Keeps, Stranded
    <3>4. QED
      BY <1>0, <1>5, <3>1, <3>2, <3>3 DEF EndDrain
  <2>2. CASE ~(w.tick >= EndTick)
    <3>1. w' = w /\ step' = "decide" /\ w.tick < EndTick
      BY <1>0, <1>5, <2>2 DEF EndDrain
    <3>2. QED
      BY <1>0, <1>1, <1>5, <3>1 DEF EndDrain
  <2>3. QED
    BY <2>1, <2>2
<1>6. ASSUME NextTurn, step = "decide"
      PROVE  turn' \in DOMAIN Order /\ step' \in {"idle", "decide"}
  BY <1>0, <1>2, <1>6 DEF NextTurn
<1>7. CASE Decide \/ Bridge
  <2>1. PICK a \in Offers(w, Order[turn], w.tick) :
          w' = Launch(w, Order[turn], a) \/ w' = Launch(w, Order[turn], Bridging(a))
    BY <1>7 DEF Decide, Bridge, Choices
  <2>2. Fair(w', script) /\ Still(script, w, w')
    <3>1. ~Occupied(Order[turn])
      BY <1>7 DEF Decide, Bridge
    <3>2. /\ Planned(script, Order[turn], a) /\ Asked(w, a)
          /\ Planned(script, Order[turn], Bridging(a)) /\ Asked(w, Bridging(a))
      BY <1>0, <1>2, OfferedIsPlanned
    <3>3. QED
      BY <1>0, <1>2, <2>1, <3>1, <3>2, LaunchedStep
  <2>3. w'.tick = w.tick
    BY <2>2 DEF Still, Keeps, Onward
  <2>4. turn' \in DOMAIN Order /\ step' \in {"idle", "decide"}
    BY <1>6, <1>7 DEF Decide, Bridge
  <2>5. step = "decide" /\ UNCHANGED <<answered, script, habit>>
    BY <1>7 DEF Decide, Bridge
  <2>6. QED
    BY <1>0, <2>2, <2>3, <2>4, <2>5
<1>8. CASE Continue
  <2>1. turn' \in DOMAIN Order /\ step' \in {"idle", "decide"}
    BY <1>6, <1>8 DEF Continue
  <2>2. QED
    BY <1>0, <1>1, <1>8, <2>1 DEF Continue
<1>9. CASE Over \/ UNCHANGED vars
  BY <1>0, <1>1, <1>9 DEF Over, vars
<1>10. CASE \E n \in Npcs : LateAnswer(n)
  BY <1>0, <1>4, <1>10
<1>11. QED
  BY <1>3, <1>5, <1>7, <1>8, <1>9, <1>10 DEF Next

LEMMA NextInv == WorldInv /\ [Next]_vars => WorldInv'
<1> SUFFICES ASSUME WorldInv, [Next]_vars PROVE WorldInv'
  OBVIOUS
<1>1. script \in Scripts
  BY DEF WorldInv
<1>2. QED
  BY <1>1, StepKeeps DEF WorldInv, Fair

LEMMA AlwaysInv == Spec => []WorldInv
  BY InitInv, NextInv, PTL DEF Spec

-----------------------------------------------------------------------------
(* The theorems                                                            *)

LEMMA TypesHold == WorldInv => TypeOK
  BY DEF WorldInv, Sound, Worlds, Bodies, Severities, Meals, Promises, TypeOK

LEMMA CareHolds == WorldInv => TreatmentIsMarked
<1> SUFFICES ASSUME WorldInv, NEW p \in Npcs, Injured(w, p)
             PROVE  {h \in Npcs : TreatedBy(h, p)} =
                      IF w.npc[p].since = None THEN {} ELSE {w.npc[p].by}
  BY DEF TreatmentIsMarked
<1>1. \A h \in Npcs : Treats(w, h, p) => w.npc[p].since # None /\ w.npc[p].by = h
  BY DEF WorldInv, CareMarked
<1>2. w.npc[p].since # None => w.npc[p].by \in Npcs /\ Treats(w, w.npc[p].by, p)
  BY DEF WorldInv, Sound, CareBook
<1>3. \A h \in Npcs : TreatedBy(h, p) <=> Treats(w, h, p)
  BY DEF TreatedBy, Treats
<1>4. QED
  BY <1>1, <1>2, <1>3

LEMMA TakingHolds == WorldInv => TakingIsRecorded
<1> SUFFICES ASSUME WorldInv PROVE TakingIsRecorded
  OBVIOUS
<1>1. MealBook(w)
  BY DEF WorldInv, Sound
<1>2. Cardinality(w.eaters) <= 1
  <2>1. CASE w.eaters = {}
    BY <2>1, FS_EmptySet
  <2>2. CASE w.eaters # {}
    <3>1. PICK e : e \in w.eaters
      BY <2>2
    <3>2. \A f \in w.eaters : f = e
      BY <1>1, <3>1 DEF MealBook
    <3>3. w.eaters = {e}
      BY <3>1, <3>2
    <3>4. Cardinality(w.eaters) = 1
      BY <3>3, FS_Singleton
    <3>5. QED
      BY <3>4
  <2>3. QED
    BY <2>1, <2>2
<1>3. QED
  BY <1>1, <1>2 DEF MealBook, TakingIsRecorded

LEMMA NothingHangs == WorldInv => NothingIsOverdue
<1> SUFFICES ASSUME WorldInv PROVE NothingIsOverdue
  OBVIOUS
<1>0. script.debtor \in Npcs
  BY RolesAre DEF WorldInv
<1>1. ASSUME w.tick < EndTick, NEW n \in Npcs
      PROVE  /\ w.npc[n].transit # None => w.npc[n].transit.arrives > w.tick
             /\ w.npc[n].act # None => w.npc[n].act.ends > w.tick
             /\ w.npc[n].act # None /\ w.npc[n].act.phase = "moving" => w.npc[n].transit # None
  BY <1>1 DEF WorldInv, Ahead, Stranded
<1>2. ASSUME step = "ended"
      PROVE  /\ \A n \in Npcs : w.npc[n].act = None
             /\ w.bench = None /\ w.worker = None /\ w.promise.run = None
  <2>1. \A n \in Npcs : w.npc[n].act = None
    BY <1>2 DEF WorldInv
  <2>2. BenchBook(w, script) /\ w \in Worlds
    BY DEF WorldInv, Sound
  <2>3. \A n \in Npcs : Holder(w) # n /\ w.worker # n
    BY <2>1, <2>2 DEF BenchBook, AtBench, Active
  <2>4. w.bench = None
    BY <2>2, <2>3 DEF Holder, Worlds, Benches
  <2>5. w.worker = None
    BY <2>2, <2>3 DEF Worlds
  <2>6. w.promise.run = None
    BY <1>0, <2>2, <2>3 DEF BenchBook
  <2>7. QED
    BY <2>1, <2>4, <2>5, <2>6
<1>3. QED
  BY <1>1, <1>2 DEF NothingIsOverdue

LEMMA BooksHold == WorldInv => BooksAgree
<1>1. WorldInv => BenchIsWorked
  BY DEF WorldInv, Sound, BenchBook, BenchIsWorked
<1>2. QED
  BY <1>1, TypesHold, CareHolds, TakingHolds, NothingHangs DEF BooksAgree

\* What an injury, the promise's terms and the meal's reservation owe to the
\* NPCs, in one step.
CureEarned ==
  \A p \in Npcs : Injured(w, p) /\ w'.npc[p].sev = "eased" =>
    \E h \in DOMAIN Treating :
      /\ TreatedBy(h, p) /\ w.npc[p].by = h
      /\ w'.tick = w.npc[p].since + Treating[h]
      /\ Together(w', h, p)
Consented ==
  /\ w'.promise.terms # w.promise.terms =>
       /\ Does(Creditor, "accept-renegotiation")
       /\ w.promise.proposal = w.npc[Creditor].act.ask
       /\ w'.promise.terms = w.promise.proposal.terms
  /\ w'.meal.owner \notin {w.meal.owner, None} =>
       /\ Does(w.meal.owner, "transfer")
       /\ \E r \in w.requests : r.from = w'.meal.owner

\* A tick, with the world its completions find and the one they leave.
LEMMA TickParts ==
  ASSUME WorldInv, w' = WorldSteps(w), w.tick < EndTick
  PROVE  LET now == AdvanceTime(w)
             u == Upkept(w)
             v == Completed(w)
         IN
         /\ script \in Scripts /\ Sound(w, script) /\ CareMarked(w) /\ Judged(w)
         /\ Sound(now, script) /\ now.tick = w.tick + 1 /\ now.npc = w.npc
         /\ now.meal = w.meal /\ now.bench = w.bench /\ now.promise = w.promise
         /\ now.requests = w.requests
         /\ Keeps(script, now, u) /\ Settled(now, u)
         /\ Keeps(script, u, v) /\ Concluded(script, u, v) /\ CareMarked(v)
         /\ Keeps(script, now, v)
         /\ w' = CommitmentMonitor(v)
         /\ w'.tick = v.tick /\ w'.npc = v.npc /\ w'.meal = v.meal /\ w'.bench = v.bench
         /\ w'.promise.terms = v.promise.terms /\ w'.promise.run = v.promise.run
<1>1. script \in Scripts /\ Sound(w, script) /\ CareMarked(w) /\ Judged(w) /\ Ahead(w)
  BY DEF WorldInv
<1> DEFINE now == AdvanceTime(w)
           u == Upkept(w)
           v == Completed(w)
<1>2. /\ Sound(now, script) /\ now.tick = w.tick + 1 /\ now.npc = w.npc
      /\ now.meal = w.meal /\ now.bench = w.bench /\ now.promise = w.promise
      /\ now.requests = w.requests
  BY <1>1, TimeAdvances
<1>3. /\ Keeps(script, now, u) /\ Settled(now, u)
      /\ Keeps(script, u, v) /\ Concluded(script, u, v) /\ CareMarked(v)
      /\ Keeps(script, now, v)
  BY <1>1, TickCourse
<1>4. w' = CommitmentMonitor(v)
  BY DEF WorldSteps, Upkeep, Completed, Upkept
<1> HIDE DEF now, u, v
<1>5. /\ w'.tick = v.tick /\ w'.npc = v.npc /\ w'.meal = v.meal /\ w'.bench = v.bench
      /\ w'.promise.terms = v.promise.terms /\ w'.promise.run = v.promise.run
  BY <1>1, <1>3, <1>4, MonitorIs DEF Keeps
<1>6. QED
  BY <1>1, <1>2, <1>3, <1>4, <1>5 DEF now, u, v

\* An action that ends with a tick was under way before it.
LEMMA EndsAsBegun ==
  ASSUME NEW c, NEW now, NEW u, NEW n \in Npcs, Sound(u, c), Onward(c, now, u), Active(u, n),
         u.npc[n].act.ends = u.tick, u.npc[n].act.mode \notin BenchModes
  PROVE  now.npc[n].act = u.npc[n].act /\ Active(now, n)
<1>1. u.tick \in Nat /\ u.npc[n].act # None
  BY TimesAssumption DEF Sound, Worlds, Ticks, Active
<1>2. now.npc[n].act = u.npc[n].act
  BY <1>1 DEF Onward
<1>3. QED
  BY <1>2 DEF Active

LEMMA CureStep ==
  ASSUME WorldInv, w' = WorldSteps(w), w.tick < EndTick
  PROVE  CureEarned
<1> DEFINE now == AdvanceTime(w)
           u == Upkept(w)
           v == Completed(w)
<1>1. /\ script \in Scripts /\ Sound(w, script) /\ CareMarked(w)
      /\ now.npc = w.npc
      /\ Keeps(script, now, u) /\ Settled(now, u) /\ Keeps(script, u, v)
      /\ Concluded(script, u, v)
      /\ w'.tick = v.tick /\ w'.npc = v.npc
  BY TickParts
<1> HIDE DEF now, u, v
<1> SUFFICES ASSUME NEW p \in Npcs, Injured(w, p), w'.npc[p].sev = "eased"
             PROVE  \E h \in DOMAIN Treating :
                      /\ TreatedBy(h, p) /\ w.npc[p].by = h
                      /\ w'.tick = w.npc[p].since + Treating[h]
                      /\ Together(w', h, p)
  BY DEF CureEarned
<1>2. u.npc[p].sev # "eased"
  BY <1>1 DEF Settled, Injured
<1>3. PICK h \in Npcs :
        Treats(u, h, p) /\ u.npc[h].act.ends = u.tick /\ Together(u, h, p)
  BY <1>1, <1>2 DEF Concluded
<1>4. Active(u, h) /\ u.npc[h].act.mode = "treat" /\ u.npc[h].act.target = p
  BY <1>3 DEF Treats
<1>5. w.npc[h].act = u.npc[h].act /\ Active(w, h)
  <2>1. "treat" \notin BenchModes
    BY DEF BenchModes
  <2>2. now.npc[h].act = u.npc[h].act /\ Active(now, h)
    BY <1>1, <1>3, <1>4, <2>1, EndsAsBegun DEF Keeps
  <2>3. QED
    BY <1>1, <2>2 DEF Active
<1>6. Treats(w, h, p)
  BY <1>4, <1>5 DEF Treats
<1>7. /\ w.npc[p].by = h /\ w.npc[h].act.ends = w.npc[p].since + Treating[h]
  BY <1>1, <1>6 DEF CareMarked
<1>8. h \in DOMAIN Treating
  BY <1>1, <1>4, <1>5 DEF Sound, ActsFit, Fit, Active
<1>9. w'.tick = u.tick
  BY <1>1 DEF Keeps, Onward
<1>10. Together(w', h, p)
  BY <1>1, <1>3 DEF Together, Concluded
<1>11. QED
  BY <1>3, <1>5, <1>6, <1>7, <1>8, <1>9, <1>10 DEF TreatedBy, Treats

LEMMA ConsentStep ==
  ASSUME WorldInv, w' = WorldSteps(w), w.tick < EndTick
  PROVE  Consented
<1> DEFINE now == AdvanceTime(w)
           u == Upkept(w)
           v == Completed(w)
<1>1. /\ script \in Scripts /\ Sound(w, script)
      /\ now.npc = w.npc /\ now.meal = w.meal /\ now.promise = w.promise
      /\ now.requests = w.requests
      /\ Keeps(script, now, u) /\ Settled(now, u) /\ Keeps(script, u, v)
      /\ Concluded(script, u, v)
      /\ w'.meal = v.meal /\ w'.promise.terms = v.promise.terms
  BY TickParts
<1> HIDE DEF now, u, v
<1>2. /\ Sound(u, script) /\ Onward(script, now, u) /\ u.tick \in Nat
      /\ script.creditor \in Npcs
  BY <1>1, RolesAre, TimesAssumption DEF Keeps, Sound, Worlds, Ticks
<1>3. \A n \in Npcs : u.npc[n].act # None /\ u.npc[n].act.ask # None =>
        u.npc[n].act.ask.at < u.npc[n].act.ends
  BY <1>2 DEF Sound, ActsFit
<1>4. ASSUME w'.promise.terms # w.promise.terms
      PROVE  /\ Does(Creditor, "accept-renegotiation")
             /\ w.promise.proposal = w.npc[Creditor].act.ask
             /\ w'.promise.terms = w.promise.proposal.terms
  <2> DEFINE n == script.creditor
             a == u.npc[n].act
  <2>1. /\ Active(u, n) /\ a.mode = "accept-renegotiation" /\ a.ends = u.tick
        /\ u.promise.proposal = a.ask /\ a.ask # None /\ v.promise.terms = a.ask.terms
    BY <1>1, <1>4 DEF Concluded, Settled
  <2>2. now.npc[n].act = a /\ Active(now, n)
    BY <1>2, <2>1, EndsAsBegun DEF BenchModes
  <2>3. a.ask.at < u.tick
    BY <1>2, <1>3, <2>1 DEF Active
  <2>4. a.ask.at # u.tick
    <3>1. a.ask.at \in Nat
      BY <1>2, <2>1, TimesAssumption DEF Sound, Worlds, Bodies, Actions, Requests, Proposals,
           Ticks, Active
    <3>2. QED
      BY <1>2, <2>3, <3>1
  <2>5. now.promise.proposal = a.ask
    BY <1>2, <2>1, <2>4 DEF Onward
  <2>6. QED
    BY <1>1, <2>1, <2>2, <2>5 DEF Does, Creditor, Active
<1>5. ASSUME w'.meal.owner \notin {w.meal.owner, None}
      PROVE  /\ Does(w.meal.owner, "transfer")
             /\ \E r \in w.requests : r.from = w'.meal.owner
  <2> DEFINE n == u.meal.owner
             a == u.npc[n].act
  <2>1. v.meal.owner \notin {n, None}
    BY <1>1, <1>5 DEF Settled
  <2>2. /\ n \in Npcs /\ Active(u, n) /\ a.mode = "transfer" /\ a.ends = u.tick
        /\ a.ask \in u.requests /\ v.meal.owner = a.ask.from
    BY <1>1, <2>1 DEF Concluded
  <2>3. n = w.meal.owner
    BY <1>1, <2>2, NoneIsNothing DEF Settled
  <2>4. now.npc[n].act = a /\ Active(now, n)
    BY <1>2, <2>2, EndsAsBegun DEF BenchModes
  <2>5. a.ask \in Requests /\ a.ask # None
    BY <1>2, <2>2, NoneIsNothing DEF Sound, Worlds
  <2>6. a.ask.at # u.tick
    <3>1. a.ask.at < u.tick
      BY <1>3, <2>2, <2>5 DEF Active
    <3>2. a.ask.at \in Nat
      BY <2>5, TimesAssumption DEF Requests, Ticks
    <3>3. QED
      BY <1>2, <3>1, <3>2
  <2>7. a.ask \in now.requests
    BY <1>2, <2>2, <2>6 DEF Onward
  <2>8. QED
    BY <1>1, <2>2, <2>3, <2>4, <2>7 DEF Does, Active
<1>6. QED
  BY <1>4, <1>5 DEF Consented

LEMMA EarnedStep == WorldInv /\ [Next]_vars => CureEarned /\ Consented
<1> SUFFICES ASSUME WorldInv, [Next]_vars PROVE CureEarned /\ Consented
  OBVIOUS
<1>1. CASE w' = WorldSteps(w) /\ w.tick < EndTick
  BY <1>1, CureStep, ConsentStep
<1>2. CASE Still(script, w, w')
  <2>1. Settled(w, w')
    BY <1>2 DEF Still
  <2>2. QED
    BY <2>1 DEF Settled, CureEarned, Consented, Injured
<1>3. QED
  BY <1>1, <1>2, StepKeeps

\* The promise, in one step.
FairlyJudged ==
  /\ w.promise.status # "active" => w'.promise.status = w.promise.status
  /\ w.promise.status = "active" /\ w'.promise.status = "fulfilled" =>
       OnTime(w) /\ w'.tick - w.bench.since >= MinRun /\ w'.tick >= w'.promise.terms.start
  /\ w.promise.status = "active" /\ w'.promise.status = "broken" =>
       w'.tick > w'.promise.terms.grace /\ ~OnTime(w')

\* A session that counts under the terms of the end of a tick counted already
\* under those of its beginning: it is no new one, and it waited to be judged.
LEMMA OnTimeBefore ==
  ASSUME NEW c, NEW s, c.debtor \in Npcs, Sound(s, c), Judged(s), MinRun > 1, Holder(s) = c.debtor,
         s.promise.status = "active", s.tick + 1 - s.bench.since >= MinRun
  PROVE  s.bench.since <= s.promise.terms.grace
<1>1. s.bench # None /\ s.bench \in Benches
  BY NoneIsNothing DEF Sound, Worlds, Holder
<1>2. /\ s.promise.run # None /\ s.promise.run = s.bench.since /\ s.bench.since <= s.tick
  BY <1>1 DEF Sound, BenchBook
<1>3. /\ s.tick \in Nat /\ s.bench.since \in Nat /\ s.promise.terms.grace \in Nat /\ MinRun \in Nat
  BY <1>1, TimesAssumption DEF Sound, Worlds, Ticks, Promises, Terms, Benches
<1>4. \/ s.tick <= s.promise.terms.grace
      \/ s.bench.since \in {s.tick} \cup 0..s.promise.terms.grace
  BY <1>2 DEF Judged
<1>5. s.bench.since # s.tick
  BY <1>3
<1>6. QED
  BY <1>2, <1>3, <1>4, <1>5

LEMMA JudgedStep ==
  ASSUME MinRun > 1, WorldInv, w' = WorldSteps(w), w.tick < EndTick
  PROVE  FairlyJudged
<1> DEFINE now == AdvanceTime(w)
           v == Completed(w)
<1>1. /\ script \in Scripts /\ Sound(w, script) /\ Judged(w) /\ Sound(now, script)
      /\ now.tick = w.tick + 1 /\ now.bench = w.bench /\ now.promise = w.promise
      /\ Keeps(script, now, v) /\ CareMarked(v)
      /\ w' = CommitmentMonitor(v)
      /\ w'.tick = v.tick /\ w'.bench = v.bench
      /\ w'.promise.terms = v.promise.terms
  BY TickParts
<1> HIDE DEF now, v
<1>2. /\ v.promise.status # "active" => w'.promise.status = v.promise.status
      /\ v.promise.status = "active" /\ w'.promise.status = "fulfilled" => Kept(v)
      /\ v.promise.status = "active" /\ w'.promise.status = "broken" =>
           /\ v.tick > v.promise.terms.grace
           /\ ~(v.promise.run # None /\ v.promise.run <= v.promise.terms.grace)
  BY <1>1, MonitorIs DEF Keeps
<1>3. /\ Sound(v, script) /\ Onward(script, now, v) /\ v.tick = w.tick + 1
      /\ script.debtor \in Npcs /\ Debtor = script.debtor
  BY <1>1, RolesAre DEF Keeps, Onward, Debtor
<1>4. ASSUME w.promise.status # "active"
      PROVE  w'.promise.status = w.promise.status
  BY <1>1, <1>2, <1>3, <1>4 DEF Onward
<1>5. ASSUME w.promise.status = "active", w'.promise.status = "fulfilled"
      PROVE  /\ OnTime(w) /\ w'.tick - w.bench.since >= MinRun
             /\ w'.tick >= w'.promise.terms.start
  <2>1. /\ Holder(w) = Debtor /\ v.tick - w.bench.since >= MinRun
        /\ v.tick >= v.promise.terms.start
    <3>1. CASE v.promise.status = "active"
      <4>1. /\ v.promise.run # None /\ v.tick - v.promise.run >= MinRun
            /\ v.tick >= v.promise.terms.start
        BY <1>2, <1>5, <3>1 DEF Kept
      <4>2. Holder(v) = Debtor /\ v.promise.run = v.bench.since /\ v.bench # None
        BY <1>3, <4>1, NoneIsNothing DEF Sound, BenchBook, Holder
      <4>3. v.tick \in Nat /\ MinRun \in Nat \ {0}
        BY <1>3, TimesAssumption DEF Sound, Worlds, Ticks
      <4>4. v.bench.since # v.tick
        BY <4>1, <4>2, <4>3
      <4>5. v.bench = w.bench
        BY <1>1, <1>3, <4>2, <4>4 DEF Onward
      <4>6. QED
        BY <4>1, <4>2, <4>5 DEF Holder
    <3>2. CASE v.promise.status # "active"
      <4>1. Earned(script, now, v)
        BY <1>1, <1>2, <1>3, <1>5, <3>2 DEF Onward
      <4>2. QED
        BY <1>1, <1>3, <4>1 DEF Earned, Holder
    <3>3. QED
      BY <3>1, <3>2
  <2>2. w.bench.since <= w.promise.terms.grace
    <3>1. w.tick + 1 - w.bench.since >= MinRun /\ Holder(w) = script.debtor
      <4>1. v.tick = w.tick + 1 /\ Debtor = script.debtor
        BY <1>3
      <4>2. v.tick - w.bench.since >= MinRun /\ Holder(w) = Debtor
        BY <2>1
      <4>3. w.tick \in Nat /\ w.bench.since \in Nat /\ MinRun \in Nat
        BY <1>1, <1>3, <4>1, <4>2, NoneIsNothing, TimesAssumption
           DEF Sound, Worlds, Ticks, Benches, Holder
      <4>4. QED
        BY <4>1, <4>2, <4>3
    <3>2. script.debtor \in Npcs /\ Sound(w, script) /\ Judged(w)
      BY <1>1, <1>3
    <3>3. QED
      BY <1>5, <3>1, <3>2, OnTimeBefore
  <2>3. QED
    BY <1>1, <2>1, <2>2 DEF OnTime
<1>6. ASSUME w.promise.status = "active", w'.promise.status = "broken"
      PROVE  w'.tick > w'.promise.terms.grace /\ ~OnTime(w')
  <2>1. v.promise.status = "active"
    BY <1>1, <1>2, <1>3, <1>6 DEF Onward
  <2>2. /\ v.tick > v.promise.terms.grace
        /\ ~(v.promise.run # None /\ v.promise.run <= v.promise.terms.grace)
    BY <1>2, <1>6, <2>1
  <2>3. ~OnTime(v)
    <3>1. SUFFICES ASSUME Holder(v) = Debtor, v.bench.since <= v.promise.terms.grace
                   PROVE  FALSE
      BY DEF OnTime
    <3>2. v.promise.run # None /\ v.promise.run = v.bench.since
      BY <1>3, <2>1, <3>1 DEF Sound, BenchBook
    <3>3. QED
      BY <2>2, <3>1, <3>2
  <2>4. QED
    BY <1>1, <2>2, <2>3 DEF OnTime, Holder, Debtor
<1>7. QED
  BY <1>4, <1>5, <1>6 DEF FairlyJudged

LEMMA FairStep == ASSUME MinRun > 1 PROVE WorldInv /\ [Next]_vars => FairlyJudged
<1> SUFFICES ASSUME WorldInv, [Next]_vars PROVE FairlyJudged
  OBVIOUS
<1>1. CASE w' = WorldSteps(w) /\ w.tick < EndTick
  BY <1>1, JudgedStep
<1>2. CASE Still(script, w, w')
  <2>1. Onward(script, w, w') /\ Settled(w, w') /\ Debtor = script.debtor
    BY <1>2 DEF Still, Keeps, Debtor
  <2>2. QED
    BY <2>1 DEF Onward, Settled, Earned, OnTime, FairlyJudged
<1>3. QED
  BY <1>1, <1>2, StepKeeps

\* The guards that throw in reduce.ts are out of reach: no sequence of ticks, late answers and
\* decisions makes a handler record an event the reducer refuses.
THEOREM NeverThrows == Spec => []ReducerNeverThrows
<1>1. WorldInv => ReducerNeverThrows
  BY DEF WorldInv, Sound, Worlds, ReducerNeverThrows
<1>2. QED
  BY <1>1, AlwaysInv, PTL

\* The reservation of the bench, the worker and the one session at it, the injury's marker and
\* its treatment, the meal and its record agree after every step, whoever was interrupted,
\* relieved or hurt (engine.ts interruptAction, completeAction, endScenario).
THEOREM BooksKept == Spec => []BooksAgree
  BY AlwaysInv, BooksHold, PTL

\* An injury is eased only by a treatment that lasted its duration, terms change only to those
\* proposed and accepted, and the meal passes only from its owner to one who asked.
THEOREM EarnedChanges == Spec => ChangesAreEarned
<1>1. WorldInv /\ [Next]_vars => [CureEarned]_vars /\ [Consented]_vars
  BY EarnedStep
<1>2. Spec => [][CureEarned]_vars /\ [][Consented]_vars
  BY <1>1, AlwaysInv, PTL DEF Spec
<1>3. QED
  BY <1>2, PTL DEF ChangesAreEarned, CureIsEarned, ChangesByConsent, CureEarned, Consented

\* The promise is fulfilled only for a session of the debtor that began in time and lasted, is
\* broken only past its grace while no such session goes on, and neither is undone
\* (commitmentMonitor, maybeFulfillBeforeRunEnd).  The hypothesis keeps a session begun past the
\* grace from being judged, one tick later, under terms accepted meanwhile; the code's run takes
\* 300 ticks (config.ts).
THEOREM JudgedFairly == ASSUME MinRun > 1 PROVE Spec => PromiseIsJudgedFairly
<1>1. WorldInv /\ [Next]_vars => [FairlyJudged]_vars
  BY FairStep
<1>2. Spec => [][FairlyJudged]_vars
  BY <1>1, AlwaysInv, PTL DEF Spec
<1>3. QED
  BY <1>2, PTL DEF PromiseIsJudgedFairly, FairlyJudged

=============================================================================
