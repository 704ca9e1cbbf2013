------------------------- MODULE WorkerSessionProofs -------------------------
(***************************************************************************)
(* What is proved of the page and the worker: whatever the controls did,   *)
(* the run of the worker is the one the same answers give when nobody      *)
(* touches them, and when nothing is on its way the page shows that run.   *)
(*                                                                         *)
(* Two runs are alike when they differ in their markers and in what waits  *)
(* to be sent.  Every operator of the engine keeps two runs alike, since   *)
(* it reads of a run its state and its counters and of the ledger at most  *)
(* the id of the event just written, which no marker renames.  So a run    *)
(* stays alike to the uninterrupted one, tick by tick, and what the worker *)
(* does between two ticks writes markers, queues answers or sends requests.*)
(*                                                                         *)
(* Of the page it is said what it will show once it has read its queue,    *)
(* and of the worker's queue how many runs it will still start: that is    *)
(* how far the run the page waits for is ahead.  Both hold at every moment,*)
(* and with empty queues they are what the theorem says.                   *)
(***************************************************************************)
EXTENDS WorkerSession, SequenceTheorems, FiniteSetTheorems, WellFoundedInduction, TLAPS

-----------------------------------------------------------------------------
(* Recursion along a sequence: induction over data is beyond the provers,  *)
(* the least number that is not reached is not.                            *)

LEMMA LeastNat ==
  ASSUME NEW T \in SUBSET Nat, T # {}
  PROVE  \E x \in T : \A y \in T : x <= y
<1>1. PICK x \in T : \A y \in T : ~(<<y, x>> \in OpToRel(<, Nat))
  BY NatLessThanWellFounded, WFMin
<1>2. ASSUME NEW y \in T PROVE x <= y
  <2>1. ~(y < x)
    BY <1>1 DEF OpToRel
  <2>2. QED
    BY <2>1
<1>3. QED
  BY <1>2

\* What holds of 0 and passes from i to i + 1 holds up to n.
LEMMA UpTo ==
  ASSUME NEW n \in Nat, NEW T, 0 \in T, \A i \in 0..(n - 1) : i \in T => i + 1 \in T
  PROVE  \A i \in 0..n : i \in T
<1> SUFFICES ASSUME NEW k \in 0..n, k \notin T PROVE FALSE
  OBVIOUS
<1> DEFINE Missing == (0..n) \ T
<1>1. Missing \in SUBSET Nat /\ Missing # {}
  OBVIOUS
<1>2. PICK x \in Missing : \A y \in Missing : x <= y
  <2> HIDE DEF Missing
  <2>1. QED
    BY <1>1, LeastNat
<1>3. x # 0 /\ x - 1 \in 0..(n - 1) /\ x - 1 + 1 = x
  BY <1>2
<1>4. x - 1 \in T
  BY <1>2, <1>3
<1>5. QED
  BY <1>2, <1>3, <1>4

\* What became of an answer from outside.
Judged(run, m) == processDecisionResponse(run, m, FALSE)

\* Canonical, event by event.
LEMMA CanonicalSteps ==
  ASSUME NEW log, Len(log) \in Nat
  PROVE  \E f : /\ f[0] = <<>>
                /\ \A i \in 1..Len(log) :
                     f[i] = IF log[i].type \in Markers THEN f[i - 1] ELSE Append(f[i - 1], log[i])
                /\ Canonical(log) = f[Len(log)]
<1> DEFINE Base == <<>>
           After(i, before) ==
             IF log[i].type \in Markers THEN before ELSE Append(before, log[i])
           Is(f, k) == f = [i \in 0..k |-> IF i = 0 THEN Base ELSE After(i, f[i - 1])]
           T == {k \in 0..Len(log) : \E f : Is(f, k)}
           result == CHOOSE f : Is(f, Len(log))
<1>1. Canonical(log) = result[Len(log)]
  BY DEF Canonical
<1> HIDE DEF Base, After, result
<1>2. 0 \in T
  <2> DEFINE f == [i \in 0..0 |-> Base]
  <2>1. Is(f, 0)
    OBVIOUS
  <2> HIDE DEF f, Is
  <2>2. QED
    BY <2>1
<1>3. ASSUME NEW k \in 0..(Len(log) - 1), k \in T PROVE k + 1 \in T
  <2>1. k \in Nat /\ k + 1 \in 0..Len(log)
    OBVIOUS
  <2>2. PICK f : Is(f, k)
    BY <1>3
  <2> DEFINE g == [i \in 0..(k + 1) |-> IF i <= k THEN f[i] ELSE After(i, f[i - 1])]
  <2>3. ASSUME NEW i \in 0..(k + 1) PROVE g[i] = IF i = 0 THEN Base ELSE After(i, g[i - 1])
    <3>1. CASE i = 0
      BY <2>1, <2>2, <3>1
    <3>2. CASE i \in 1..k
      <4>1. g[i] = f[i] /\ g[i - 1] = f[i - 1] /\ i \in 0..k /\ i # 0
        BY <2>1, <3>2
      <4>2. f[i] = After(i, f[i - 1])
        BY <2>2, <4>1
      <4>3. QED
        BY <4>1, <4>2
    <3>3. CASE i = k + 1
      <4>1. ~(i <= k) /\ i - 1 <= k /\ i - 1 \in 0..(k + 1) /\ i # 0
        BY <2>1, <3>3
      <4>2. g[i - 1] = f[i - 1] /\ g[i] = After(i, f[i - 1])
        BY <4>1
      <4>3. QED
        BY <4>1, <4>2
    <3>4. QED
      BY <2>1, <3>1, <3>2, <3>3
  <2>4. Is(g, k + 1)
    <3> HIDE DEF g
    <3>1. g = [i \in 0..(k + 1) |-> g[i]]
      BY DEF g
    <3>2. QED
      BY <2>3, <3>1
  <2> HIDE DEF Is, g
  <2>5. QED
    BY <2>1, <2>4
<1>4. Len(log) \in T
  <2>1. Len(log) \in Nat /\ Len(log) \in 0..Len(log)
    OBVIOUS
  <2> HIDE DEF T, Is
  <2>2. QED
    BY <1>2, <1>3, <2>1, UpTo
<1>5. Is(result, Len(log))
  <2>1. \E f : Is(f, Len(log))
    BY <1>4
  <2> HIDE DEF Is
  <2>2. QED
    BY <2>1 DEF result
<1>6. result[0] = Base /\ \A i \in 1..Len(log) : result[i] = After(i, result[i - 1])
  <2>1. 0 \in 0..Len(log)
    OBVIOUS
  <2>2. ASSUME NEW i \in 1..Len(log) PROVE i \in 0..Len(log) /\ i # 0
    OBVIOUS
  <2>3. QED
    BY <1>5, <2>1, <2>2
<1>7. QED
  <2> HIDE DEF Is
  <2>1. result[0] = <<>>
    BY <1>6 DEF Base
  <2>2. \A i \in 1..Len(log) :
          result[i] = IF log[i].type \in Markers THEN result[i - 1] ELSE Append(result[i - 1], log[i])
    BY <1>6 DEF After
  <2>3. QED
    BY <1>1, <2>1, <2>2

\* DrainResponses, answer by answer.
DrainsResponses(run, queue, f) ==
  /\ f[0] = run
  /\ \A i \in 1..Len(queue) :
       f[i] = IF queue[i].choice = None THEN f[i - 1] ELSE Judged(f[i - 1], queue[i])
  /\ DrainResponses(run, queue) = f[Len(queue)]

LEMMA ResponsesSteps ==
  ASSUME NEW run, NEW queue, Len(queue) \in Nat
  PROVE  \E f : DrainsResponses(run, queue, f)
<1> DEFINE Base == run
           After(i, before) ==
             IF queue[i].choice = None THEN before ELSE Judged(before, queue[i])
           Is(f, k) == f = [i \in 0..k |-> IF i = 0 THEN Base ELSE After(i, f[i - 1])]
           T == {k \in 0..Len(queue) : \E f : Is(f, k)}
           result == CHOOSE f : Is(f, Len(queue))
<1>1. DrainResponses(run, queue) = result[Len(queue)]
  BY DEF DrainResponses, Judged
<1> HIDE DEF Base, After, result
<1>2. 0 \in T
  <2> DEFINE f == [i \in 0..0 |-> Base]
  <2>1. Is(f, 0)
    OBVIOUS
  <2> HIDE DEF f, Is
  <2>2. QED
    BY <2>1
<1>3. ASSUME NEW k \in 0..(Len(queue) - 1), k \in T PROVE k + 1 \in T
  <2>1. k \in Nat /\ k + 1 \in 0..Len(queue)
    OBVIOUS
  <2>2. PICK f : Is(f, k)
    BY <1>3
  <2> DEFINE g == [i \in 0..(k + 1) |-> IF i <= k THEN f[i] ELSE After(i, f[i - 1])]
  <2>3. ASSUME NEW i \in 0..(k + 1) PROVE g[i] = IF i = 0 THEN Base ELSE After(i, g[i - 1])
    <3>1. CASE i = 0
      BY <2>1, <2>2, <3>1
    <3>2. CASE i \in 1..k
      <4>1. g[i] = f[i] /\ g[i - 1] = f[i - 1] /\ i \in 0..k /\ i # 0
        BY <2>1, <3>2
      <4>2. f[i] = After(i, f[i - 1])
        BY <2>2, <4>1
      <4>3. QED
        BY <4>1, <4>2
    <3>3. CASE i = k + 1
      <4>1. ~(i <= k) /\ i - 1 <= k /\ i - 1 \in 0..(k + 1) /\ i # 0
        BY <2>1, <3>3
      <4>2. g[i - 1] = f[i - 1] /\ g[i] = After(i, f[i - 1])
        BY <4>1
      <4>3. QED
        BY <4>1, <4>2
    <3>4. QED
      BY <2>1, <3>1, <3>2, <3>3
  <2>4. Is(g, k + 1)
    <3> HIDE DEF g
    <3>1. g = [i \in 0..(k + 1) |-> g[i]]
      BY DEF g
    <3>2. QED
      BY <2>3, <3>1
  <2> HIDE DEF Is, g
  <2>5. QED
    BY <2>1, <2>4
<1>4. Len(queue) \in T
  <2>1. Len(queue) \in Nat /\ Len(queue) \in 0..Len(queue)
    OBVIOUS
  <2> HIDE DEF T, Is
  <2>2. QED
    BY <1>2, <1>3, <2>1, UpTo
<1>5. Is(result, Len(queue))
  <2>1. \E f : Is(f, Len(queue))
    BY <1>4
  <2> HIDE DEF Is
  <2>2. QED
    BY <2>1 DEF result
<1>6. result[0] = Base /\ \A i \in 1..Len(queue) : result[i] = After(i, result[i - 1])
  <2>1. 0 \in 0..Len(queue)
    OBVIOUS
  <2>2. ASSUME NEW i \in 1..Len(queue) PROVE i \in 0..Len(queue) /\ i # 0
    OBVIOUS
  <2>3. QED
    BY <1>5, <2>1, <2>2
<1>7. QED
  <2> HIDE DEF Is
  <2>1. result[0] = run
    BY <1>6 DEF Base
  <2>2. \A i \in 1..Len(queue) :
          result[i] = IF queue[i].choice = None THEN result[i - 1] ELSE Judged(result[i - 1], queue[i])
    BY <1>6 DEF After
  <2>3. DrainsResponses(run, queue, result)
    BY <1>1, <2>1, <2>2 DEF DrainsResponses
  <2>4. QED
    BY <2>3

\* DrainFailures, answer by answer.
DrainsFailures(run, queue, f) ==
  /\ f[0] = run
  /\ \A i \in 1..Len(queue) :
       f[i] = IF queue[i].choice # None THEN f[i - 1] ELSE processDecisionFailure(f[i - 1], queue[i])
  /\ DrainFailures(run, queue) = f[Len(queue)]

LEMMA FailuresSteps ==
  ASSUME NEW run, NEW queue, Len(queue) \in Nat
  PROVE  \E f : DrainsFailures(run, queue, f)
<1> DEFINE Base == run
           After(i, before) ==
             IF queue[i].choice # None THEN before ELSE processDecisionFailure(before, queue[i])
           Is(f, k) == f = [i \in 0..k |-> IF i = 0 THEN Base ELSE After(i, f[i - 1])]
           T == {k \in 0..Len(queue) : \E f : Is(f, k)}
           result == CHOOSE f : Is(f, Len(queue))
<1>1. DrainFailures(run, queue) = result[Len(queue)]
  BY DEF DrainFailures
<1> HIDE DEF Base, After, result
<1>2. 0 \in T
  <2> DEFINE f == [i \in 0..0 |-> Base]
  <2>1. Is(f, 0)
    OBVIOUS
  <2> HIDE DEF f, Is
  <2>2. QED
    BY <2>1
<1>3. ASSUME NEW k \in 0..(Len(queue) - 1), k \in T PROVE k + 1 \in T
  <2>1. k \in Nat /\ k + 1 \in 0..Len(queue)
    OBVIOUS
  <2>2. PICK f : Is(f, k)
    BY <1>3
  <2> DEFINE g == [i \in 0..(k + 1) |-> IF i <= k THEN f[i] ELSE After(i, f[i - 1])]
  <2>3. ASSUME NEW i \in 0..(k + 1) PROVE g[i] = IF i = 0 THEN Base ELSE After(i, g[i - 1])
    <3>1. CASE i = 0
      BY <2>1, <2>2, <3>1
    <3>2. CASE i \in 1..k
      <4>1. g[i] = f[i] /\ g[i - 1] = f[i - 1] /\ i \in 0..k /\ i # 0
        BY <2>1, <3>2
      <4>2. f[i] = After(i, f[i - 1])
        BY <2>2, <4>1
      <4>3. QED
        BY <4>1, <4>2
    <3>3. CASE i = k + 1
      <4>1. ~(i <= k) /\ i - 1 <= k /\ i - 1 \in 0..(k + 1) /\ i # 0
        BY <2>1, <3>3
      <4>2. g[i - 1] = f[i - 1] /\ g[i] = After(i, f[i - 1])
        BY <4>1
      <4>3. QED
        BY <4>1, <4>2
    <3>4. QED
      BY <2>1, <3>1, <3>2, <3>3
  <2>4. Is(g, k + 1)
    <3> HIDE DEF g
    <3>1. g = [i \in 0..(k + 1) |-> g[i]]
      BY DEF g
    <3>2. QED
      BY <2>3, <3>1
  <2> HIDE DEF Is, g
  <2>5. QED
    BY <2>1, <2>4
<1>4. Len(queue) \in T
  <2>1. Len(queue) \in Nat /\ Len(queue) \in 0..Len(queue)
    OBVIOUS
  <2> HIDE DEF T, Is
  <2>2. QED
    BY <1>2, <1>3, <2>1, UpTo
<1>5. Is(result, Len(queue))
  <2>1. \E f : Is(f, Len(queue))
    BY <1>4
  <2> HIDE DEF Is
  <2>2. QED
    BY <2>1 DEF result
<1>6. result[0] = Base /\ \A i \in 1..Len(queue) : result[i] = After(i, result[i - 1])
  <2>1. 0 \in 0..Len(queue)
    OBVIOUS
  <2>2. ASSUME NEW i \in 1..Len(queue) PROVE i \in 0..Len(queue) /\ i # 0
    OBVIOUS
  <2>3. QED
    BY <1>5, <2>1, <2>2
<1>7. QED
  <2> HIDE DEF Is
  <2>1. result[0] = run
    BY <1>6 DEF Base
  <2>2. \A i \in 1..Len(queue) :
          result[i] = IF queue[i].choice # None THEN result[i - 1] ELSE processDecisionFailure(result[i - 1], queue[i])
    BY <1>6 DEF After
  <2>3. DrainsFailures(run, queue, result)
    BY <1>1, <2>1, <2>2 DEF DrainsFailures
  <2>4. QED
    BY <2>3

\* stepTicks, tick by tick.
LEMMA TicksSteps ==
  ASSUME NEW run, NEW n \in Nat
  PROVE  \E f : /\ f[0] = run
                /\ \A i \in 1..n :
                     f[i] = stepTick(f[i - 1])
                /\ stepTicks(run, n) = f[n]
<1> DEFINE Base == run
           After(i, before) ==
             stepTick(before)
           Is(f, k) == f = [i \in 0..k |-> IF i = 0 THEN Base ELSE After(i, f[i - 1])]
           T == {k \in 0..n : \E f : Is(f, k)}
           result == CHOOSE f : Is(f, n)
<1>1. stepTicks(run, n) = result[n]
  BY DEF stepTicks
<1> HIDE DEF Base, After, result
<1>2. 0 \in T
  <2> DEFINE f == [i \in 0..0 |-> Base]
  <2>1. Is(f, 0)
    OBVIOUS
  <2> HIDE DEF f, Is
  <2>2. QED
    BY <2>1
<1>3. ASSUME NEW k \in 0..(n - 1), k \in T PROVE k + 1 \in T
  <2>1. k \in Nat /\ k + 1 \in 0..n
    OBVIOUS
  <2>2. PICK f : Is(f, k)
    BY <1>3
  <2> DEFINE g == [i \in 0..(k + 1) |-> IF i <= k THEN f[i] ELSE After(i, f[i - 1])]
  <2>3. ASSUME NEW i \in 0..(k + 1) PROVE g[i] = IF i = 0 THEN Base ELSE After(i, g[i - 1])
    <3>1. CASE i = 0
      BY <2>1, <2>2, <3>1
    <3>2. CASE i \in 1..k
      <4>1. g[i] = f[i] /\ g[i - 1] = f[i - 1] /\ i \in 0..k /\ i # 0
        BY <2>1, <3>2
      <4>2. f[i] = After(i, f[i - 1])
        BY <2>2, <4>1
      <4>3. QED
        BY <4>1, <4>2
    <3>3. CASE i = k + 1
      <4>1. ~(i <= k) /\ i - 1 <= k /\ i - 1 \in 0..(k + 1) /\ i # 0
        BY <2>1, <3>3
      <4>2. g[i - 1] = f[i - 1] /\ g[i] = After(i, f[i - 1])
        BY <4>1
      <4>3. QED
        BY <4>1, <4>2
    <3>4. QED
      BY <2>1, <3>1, <3>2, <3>3
  <2>4. Is(g, k + 1)
    <3> HIDE DEF g
    <3>1. g = [i \in 0..(k + 1) |-> g[i]]
      BY DEF g
    <3>2. QED
      BY <2>3, <3>1
  <2> HIDE DEF Is, g
  <2>5. QED
    BY <2>1, <2>4
<1>4. n \in T
  <2>1. n \in Nat /\ n \in 0..n
    OBVIOUS
  <2> HIDE DEF T, Is
  <2>2. QED
    BY <1>2, <1>3, <2>1, UpTo
<1>5. Is(result, n)
  <2>1. \E f : Is(f, n)
    BY <1>4
  <2> HIDE DEF Is
  <2>2. QED
    BY <2>1 DEF result
<1>6. result[0] = Base /\ \A i \in 1..n : result[i] = After(i, result[i - 1])
  <2>1. 0 \in 0..n
    OBVIOUS
  <2>2. ASSUME NEW i \in 1..n PROVE i \in 0..n /\ i # 0
    OBVIOUS
  <2>3. QED
    BY <1>5, <2>1, <2>2
<1>7. QED
  <2> HIDE DEF Is
  <2>1. result[0] = run
    BY <1>6 DEF Base
  <2>2. \A i \in 1..n :
          result[i] = stepTick(result[i - 1])
    BY <1>6 DEF After
  <2>3. QED
    BY <1>1, <2>1, <2>2

\* A tick with these answers waiting.
Fed(run, queue) == stepTick([run EXCEPT !.inbox = queue])

\* Uninterrupted, tick by tick.
LEMMA UninterruptedSteps ==
  ASSUME NEW run, Len(run.fed) \in Nat
  PROVE  \E f : /\ f[0] = createRun(run.conduct)
                /\ \A i \in 1..Len(run.fed) :
                     f[i] = Fed(f[i - 1], run.fed[i])
                /\ Uninterrupted(run) = f[Len(run.fed)]
<1> DEFINE Base == createRun(run.conduct)
           After(i, before) ==
             Fed(before, run.fed[i])
           Is(f, k) == f = [i \in 0..k |-> IF i = 0 THEN Base ELSE After(i, f[i - 1])]
           T == {k \in 0..Len(run.fed) : \E f : Is(f, k)}
           result == CHOOSE f : Is(f, Len(run.fed))
<1>1. Uninterrupted(run) = result[Len(run.fed)]
  BY DEF Uninterrupted, Fed
<1> HIDE DEF Base, After, result
<1>2. 0 \in T
  <2> DEFINE f == [i \in 0..0 |-> Base]
  <2>1. Is(f, 0)
    OBVIOUS
  <2> HIDE DEF f, Is
  <2>2. QED
    BY <2>1
<1>3. ASSUME NEW k \in 0..(Len(run.fed) - 1), k \in T PROVE k + 1 \in T
  <2>1. k \in Nat /\ k + 1 \in 0..Len(run.fed)
    OBVIOUS
  <2>2. PICK f : Is(f, k)
    BY <1>3
  <2> DEFINE g == [i \in 0..(k + 1) |-> IF i <= k THEN f[i] ELSE After(i, f[i - 1])]
  <2>3. ASSUME NEW i \in 0..(k + 1) PROVE g[i] = IF i = 0 THEN Base ELSE After(i, g[i - 1])
    <3>1. CASE i = 0
      BY <2>1, <2>2, <3>1
    <3>2. CASE i \in 1..k
      <4>1. g[i] = f[i] /\ g[i - 1] = f[i - 1] /\ i \in 0..k /\ i # 0
        BY <2>1, <3>2
      <4>2. f[i] = After(i, f[i - 1])
        BY <2>2, <4>1
      <4>3. QED
        BY <4>1, <4>2
    <3>3. CASE i = k + 1
      <4>1. ~(i <= k) /\ i - 1 <= k /\ i - 1 \in 0..(k + 1) /\ i # 0
        BY <2>1, <3>3
      <4>2. g[i - 1] = f[i - 1] /\ g[i] = After(i, f[i - 1])
        BY <4>1
      <4>3. QED
        BY <4>1, <4>2
    <3>4. QED
      BY <2>1, <3>1, <3>2, <3>3
  <2>4. Is(g, k + 1)
    <3> HIDE DEF g
    <3>1. g = [i \in 0..(k + 1) |-> g[i]]
      BY DEF g
    <3>2. QED
      BY <2>3, <3>1
  <2> HIDE DEF Is, g
  <2>5. QED
    BY <2>1, <2>4
<1>4. Len(run.fed) \in T
  <2>1. Len(run.fed) \in Nat /\ Len(run.fed) \in 0..Len(run.fed)
    OBVIOUS
  <2> HIDE DEF T, Is
  <2>2. QED
    BY <1>2, <1>3, <2>1, UpTo
<1>5. Is(result, Len(run.fed))
  <2>1. \E f : Is(f, Len(run.fed))
    BY <1>4
  <2> HIDE DEF Is
  <2>2. QED
    BY <2>1 DEF result
<1>6. result[0] = Base /\ \A i \in 1..Len(run.fed) : result[i] = After(i, result[i - 1])
  <2>1. 0 \in 0..Len(run.fed)
    OBVIOUS
  <2>2. ASSUME NEW i \in 1..Len(run.fed) PROVE i \in 0..Len(run.fed) /\ i # 0
    OBVIOUS
  <2>3. QED
    BY <1>5, <2>1, <2>2
<1>7. QED
  <2> HIDE DEF Is
  <2>1. result[0] = createRun(run.conduct)
    BY <1>6 DEF Base
  <2>2. \A i \in 1..Len(run.fed) :
          result[i] = Fed(result[i - 1], run.fed[i])
    BY <1>6 DEF After
  <2>3. QED
    BY <1>1, <2>1, <2>2

-----------------------------------------------------------------------------
(* Sequences of anything.                                                  *)

IsSeq(l) == \E S : l \in Seq(S)

LEMMA SeqFacts ==
  ASSUME NEW l, IsSeq(l)
  PROVE  /\ Len(l) \in Nat /\ DOMAIN l = 1..Len(l)
         /\ l = [i \in 1..Len(l) |-> l[i]]
<1>1. PICK S : l \in Seq(S)
  BY DEF IsSeq
<1>2. QED
  BY <1>1

LEMMA Appended ==
  ASSUME NEW l, IsSeq(l), NEW x
  PROVE  /\ IsSeq(Append(l, x)) /\ Len(Append(l, x)) = Len(l) + 1
         /\ \A i \in 1..Len(l) : Append(l, x)[i] = l[i]
         /\ Append(l, x)[Len(l) + 1] = x
         /\ Last(Append(l, x)) = x
<1>1. PICK S : l \in Seq(S)
  BY DEF IsSeq
<1> DEFINE Wider == S \cup {x}
           more == Append(l, x)
<1>2. l \in Seq(Wider) /\ x \in Wider
  BY <1>1
<1> HIDE DEF Wider
<1>3. more \in Seq(Wider) /\ Len(more) = Len(l) + 1 /\ more[Len(l) + 1] = x
  BY <1>2
<1>4. \A i \in 1..Len(l) : more[i] = l[i]
  BY <1>2
<1>5. IsSeq(more)
  BY <1>3 DEF IsSeq
<1>6. Last(more) = x
  <2> HIDE DEF more
  <2>1. QED
    BY <1>3 DEF Last
<1>7. QED
  BY <1>3, <1>4, <1>5, <1>6

LEMMA EmptyIsSeq == IsSeq(<<>>)
<1>1. <<>> \in Seq({})
  OBVIOUS
<1>2. QED
  BY <1>1 DEF IsSeq

-----------------------------------------------------------------------------
(* What a marker leaves alone, and what equal events add to two ledgers.   *)

LEMMA CanonicalIsSeq ==
  ASSUME NEW log, IsSeq(log)
  PROVE  IsSeq(Canonical(log))
<1>1. PICK S : log \in Seq(S)
  BY DEF IsSeq
<1>2. Len(log) \in Nat
  BY <1>1
<1>3. PICK f : /\ f[0] = <<>>
               /\ \A i \in 1..Len(log) :
                    f[i] = IF log[i].type \in Markers THEN f[i - 1]
                                                      ELSE Append(f[i - 1], log[i])
               /\ Canonical(log) = f[Len(log)]
  BY <1>2, CanonicalSteps
<1> DEFINE T == {i \in 0..Len(log) : f[i] \in Seq(S)}
<1>4. 0 \in T
  <2>1. <<>> \in Seq(S)
    OBVIOUS
  <2>2. 0 \in 0..Len(log)
    BY <1>2
  <2>3. f[0] \in Seq(S)
    BY <1>3, <2>1
  <2>4. QED
    BY <2>2, <2>3
<1>5. ASSUME NEW i \in 0..(Len(log) - 1), i \in T PROVE i + 1 \in T
  <2>1. i + 1 \in 1..Len(log) /\ i + 1 \in 0..Len(log) /\ i + 1 - 1 = i
    BY <1>2
  <2>2. log[i + 1] \in S /\ f[i] \in Seq(S)
    BY <1>1, <1>5, <2>1
  <2>3. f[i + 1] = IF log[i + 1].type \in Markers THEN f[i + 1 - 1]
                                                 ELSE Append(f[i + 1 - 1], log[i + 1])
    BY <1>3, <2>1
  <2>4. f[i + 1] = f[i] \/ f[i + 1] = Append(f[i], log[i + 1])
    BY <2>3, <2>1
  <2>5. Append(f[i], log[i + 1]) \in Seq(S)
    BY <2>2
  <2>6. QED
    BY <2>1, <2>2, <2>4, <2>5
<1>6. Len(log) \in T
  <2> HIDE DEF T
  <2>1. Len(log) \in 0..Len(log)
    BY <1>2
  <2>2. QED
    BY <1>2, <1>4, <1>5, <2>1, UpTo
<1>7. QED
  BY <1>3, <1>6 DEF IsSeq

LEMMA CanonicalGrows ==
  ASSUME NEW log, IsSeq(log), NEW e
  PROVE  Canonical(Append(log, e)) =
           IF e.type \in Markers THEN Canonical(log) ELSE Append(Canonical(log), e)
<1> DEFINE more == Append(log, e)
           n == Len(log)
<1>1. /\ IsSeq(more) /\ Len(more) = n + 1 /\ more[n + 1] = e
      /\ \A i \in 1..n : more[i] = log[i]
  BY Appended
<1>2. n \in Nat /\ n + 1 \in Nat
  BY SeqFacts
<1> HIDE DEF more
<1>3. PICK f : /\ f[0] = <<>>
               /\ \A i \in 1..n : f[i] = IF log[i].type \in Markers THEN f[i - 1]
                                         ELSE Append(f[i - 1], log[i])
               /\ Canonical(log) = f[n]
  BY <1>2, CanonicalSteps
<1>4. PICK g : /\ g[0] = <<>>
               /\ \A i \in 1..(n + 1) : g[i] = IF more[i].type \in Markers THEN g[i - 1]
                                               ELSE Append(g[i - 1], more[i])
               /\ Canonical(more) = g[n + 1]
  <2>1. Len(more) \in Nat
    BY <1>1, <1>2
  <2>2. QED
    BY <1>1, <2>1, CanonicalSteps
<1> HIDE DEF n
<1> DEFINE T == {i \in 0..n : g[i] = f[i]}
<1>5. 0 \in T
  <2>1. 0 \in 0..n
    BY <1>2
  <2>2. QED
    BY <1>3, <1>4, <2>1
<1>6. ASSUME NEW i \in 0..(n - 1), i \in T PROVE i + 1 \in T
  <2>1. i + 1 \in 1..n /\ i + 1 \in 1..(n + 1) /\ i + 1 \in 0..n /\ i + 1 - 1 = i
    BY <1>2
  <2>2. f[i] = g[i] /\ more[i + 1] = log[i + 1]
    BY <1>1, <1>6, <2>1
  <2>3. g[i + 1] = IF more[i + 1].type \in Markers THEN g[i + 1 - 1]
                                                  ELSE Append(g[i + 1 - 1], more[i + 1])
    BY <1>4, <2>1
  <2>4. g[i + 1] = IF log[i + 1].type \in Markers THEN f[i] ELSE Append(f[i], log[i + 1])
    BY <2>3, <2>1, <2>2
  <2>5. f[i + 1] = IF log[i + 1].type \in Markers THEN f[i + 1 - 1]
                                                 ELSE Append(f[i + 1 - 1], log[i + 1])
    BY <1>3, <2>1
  <2>6. f[i + 1] = IF log[i + 1].type \in Markers THEN f[i] ELSE Append(f[i], log[i + 1])
    BY <2>5, <2>1
  <2>7. QED
    BY <2>1, <2>4, <2>6
<1>7. n \in T
  <2> HIDE DEF T
  <2>1. n \in 0..n
    BY <1>2
  <2>2. QED
    BY <1>2, <1>5, <1>6, <2>1, UpTo
<1>8. g[n + 1] = IF e.type \in Markers THEN g[n] ELSE Append(g[n], e)
  <2>1. n + 1 \in 1..(n + 1) /\ n + 1 - 1 = n
    BY <1>2
  <2>2. g[n + 1] = IF more[n + 1].type \in Markers THEN g[n + 1 - 1]
                                                  ELSE Append(g[n + 1 - 1], more[n + 1])
    BY <1>2, <1>4, <2>1
  <2>3. QED
    BY <1>1, <2>1, <2>2
<1>9. QED
  BY <1>3, <1>4, <1>7, <1>8 DEF more

LEMMA MarkerLeavesProjection ==
  ASSUME NEW log, IsSeq(log), NEW e, e.type \in Markers
  PROVE  Projection(Append(log, e)) = Projection(log)
BY CanonicalGrows DEF Projection

\* Two events that differ in their place at most.
SameEvent(e, d) == [e EXCEPT !.seq = 0] = [d EXCEPT !.seq = 0]

LEMMA ProjectionsGrow ==
  ASSUME NEW l1, NEW l2, IsSeq(l1), IsSeq(l2), Projection(l1) = Projection(l2),
         NEW e1, NEW e2, SameEvent(e1, e2), e1.type \notin Markers, e2.type \notin Markers
  PROVE  Projection(Append(l1, e1)) = Projection(Append(l2, e2))
<1> DEFINE c1 == Canonical(l1)
           c2 == Canonical(l2)
           d1 == Canonical(Append(l1, e1))
           d2 == Canonical(Append(l2, e2))
<1>1. d1 = Append(c1, e1) /\ d2 = Append(c2, e2)
  BY CanonicalGrows
<1>2. IsSeq(c1) /\ IsSeq(c2)
  BY CanonicalIsSeq
<1>3. [i \in DOMAIN c1 |-> [c1[i] EXCEPT !.seq = 0]]
        = [i \in DOMAIN c2 |-> [c2[i] EXCEPT !.seq = 0]]
  BY DEF Projection
<1> HIDE DEF c1, c2, d1, d2
<1>4. DOMAIN c1 = 1..Len(c1) /\ DOMAIN c2 = 1..Len(c2) /\ Len(c1) \in Nat /\ Len(c2) \in Nat
  BY <1>2, SeqFacts
<1>5. DOMAIN c1 = DOMAIN c2
  BY <1>3
<1>6. Len(c1) = Len(c2)
  <2>1. \A m \in Nat, k \in Nat : 1..m = 1..k => ~(m < k)
    <3> SUFFICES ASSUME NEW m \in Nat, NEW k \in Nat, 1..m = 1..k, m < k PROVE FALSE
      OBVIOUS
    <3>1. k \in 1..k /\ k \notin 1..m
      OBVIOUS
    <3>2. QED
      BY <3>1
  <2>2. 1..Len(c1) = 1..Len(c2)
    BY <1>4, <1>5
  <2>3. ~(Len(c1) < Len(c2)) /\ ~(Len(c2) < Len(c1))
    BY <1>4, <2>1, <2>2
  <2>4. Len(c1) \in Nat /\ Len(c2) \in Nat
    BY <1>4
  <2>5. QED
    BY ONLY <2>3, <2>4
<1> DEFINE n == Len(c1)
<1>7. \A i \in 1..n : [c1[i] EXCEPT !.seq = 0] = [c2[i] EXCEPT !.seq = 0]
  <2> SUFFICES ASSUME NEW i \in 1..n PROVE [c1[i] EXCEPT !.seq = 0] = [c2[i] EXCEPT !.seq = 0]
    OBVIOUS
  <2> DEFINE p1 == [j \in DOMAIN c1 |-> [c1[j] EXCEPT !.seq = 0]]
             p2 == [j \in DOMAIN c2 |-> [c2[j] EXCEPT !.seq = 0]]
  <2>1. p1[i] = [c1[i] EXCEPT !.seq = 0] /\ p2[i] = [c2[i] EXCEPT !.seq = 0]
    BY <1>4, <1>5, <1>6
  <2>2. p1 = p2
    BY <1>3
  <2> HIDE DEF p1, p2
  <2>3. QED
    BY <2>1, <2>2
<1>8. /\ DOMAIN d1 = 1..(n + 1) /\ d1[n + 1] = e1 /\ \A i \in 1..n : d1[i] = c1[i]
      /\ DOMAIN d2 = 1..(n + 1) /\ d2[n + 1] = e2 /\ \A i \in 1..n : d2[i] = c2[i]
  BY <1>1, <1>2, <1>6, Appended, SeqFacts
<1>9. ASSUME NEW i \in 1..(n + 1) PROVE [d1[i] EXCEPT !.seq = 0] = [d2[i] EXCEPT !.seq = 0]
  <2>1. CASE i \in 1..n
    <3>1. d1[i] = c1[i] /\ d2[i] = c2[i] /\ [c1[i] EXCEPT !.seq = 0] = [c2[i] EXCEPT !.seq = 0]
      BY <1>7, <1>8, <2>1
    <3>2. QED
      BY <3>1
  <2>2. CASE i = n + 1
    <3>1. d1[i] = e1 /\ d2[i] = e2
      BY <1>8, <2>2
    <3>2. QED
      BY <3>1 DEF SameEvent
  <2>3. i \in 1..n \/ i = n + 1
    BY <1>4
  <2>4. QED
    BY <2>1, <2>2, <2>3
<1>10. [i \in DOMAIN d1 |-> [d1[i] EXCEPT !.seq = 0]]
         = [i \in DOMAIN d2 |-> [d2[i] EXCEPT !.seq = 0]]
  <2>1. DOMAIN d1 = 1..(n + 1) /\ DOMAIN d2 = 1..(n + 1)
    BY <1>8
  <2> HIDE DEF n
  <2>2. QED
    BY <1>9, <2>1
<1>11. QED
  BY <1>10 DEF Projection, d1, d2

LEMMA CanonicalsGrow ==
  ASSUME NEW log, IsSeq(log), NEW e
  PROVE  /\ e.type \in Markers => Canonicals(Append(log, e)) = Canonicals(log)
         /\ e.type \notin Markers => Canonicals(Append(log, e)) = Canonicals(log) + 1
<1> DEFINE more == Append(log, e)
           Old == {i \in DOMAIN log : log[i].type \notin Markers}
           New == {i \in DOMAIN more : more[i].type \notin Markers}
<1>1. /\ DOMAIN log = 1..Len(log) /\ Len(log) \in Nat
      /\ DOMAIN more = 1..(Len(log) + 1) /\ more[Len(log) + 1] = e
      /\ \A i \in 1..Len(log) : more[i] = log[i]
  BY Appended, SeqFacts
<1> HIDE DEF more
<1>2. e.type \in Markers => New = Old
  BY <1>1
<1>3. e.type \notin Markers => New = Old \cup {Len(log) + 1}
  BY <1>1
<1>4. Len(log) + 1 \notin Old
  BY <1>1
<1>5. IsFiniteSet(Old)
  <2>1. IsFiniteSet(1..Len(log))
    BY <1>1, FS_Interval
  <2>2. Old \in SUBSET (1..Len(log))
    BY <1>1
  <2> HIDE DEF Old
  <2>3. QED
    BY <2>1, <2>2, FS_Subset
<1>6. Canonicals(log) = Cardinality(Old) /\ Canonicals(more) = Cardinality(New)
  BY DEF Canonicals
<1> HIDE DEF Old, New
<1>7. Cardinality(Old \cup {Len(log) + 1}) = Cardinality(Old) + 1
  BY <1>4, <1>5, FS_AddElement
<1>8. QED
  BY <1>2, <1>3, <1>6, <1>7 DEF more

-----------------------------------------------------------------------------
(* Two runs that differ in their markers and in what is waiting to be sent.*)

IsRun(r) ==
  r = [conduct |-> r.conduct, log |-> r.log, state |-> r.state, inbox |-> r.inbox,
       outbox |-> r.outbox, reqs |-> r.reqs, acts |-> r.acts, fed |-> r.fed,
       hashes |-> r.hashes]

IsFun(s) == s = [x \in DOMAIN s |-> s[x]]

\* What the engine never touches within a tick, but where it drains its inbox.
Rest(r) == <<r.conduct, r.fed, r.inbox>>

Alike(r, q, k) ==
  /\ IsRun(r) /\ IsRun(q) /\ IsSeq(r.log) /\ IsSeq(q.log) /\ IsFun(r.state)
  /\ r.conduct \in Conducts
  /\ r.state = q.state /\ r.reqs = q.reqs /\ r.acts = q.acts /\ r.hashes = q.hashes
  /\ Projection(r.log) = Projection(q.log) /\ Canonicals(r.log) = Canonicals(q.log)
  /\ Rest(r) = k /\ Rest(q) = k

\* Just after an event that is no marker.
Twins(r, q, k) == Alike(r, q, k) /\ LastId(r) = LastId(q)

EventOf(r, type, cause, load) ==
  Stamped(r.log, [type |-> type, cause |-> cause, load |-> load,
                  tick |-> IF type = "TimeAdvanced" THEN load.tick ELSE r.state.tick,
                  actor |-> load.npc, target |-> load.peer])

LEMMA Emitted ==
  ASSUME NEW r, IsRun(r), NEW type, NEW cause, NEW load
  PROVE  LET e == EventOf(r, type, cause, load)
             d == emit(r, type, cause, load)
         IN /\ IsRun(d) /\ d.log = Append(r.log, e) /\ d.state = applyEvent(r.state, e)
            /\ d.conduct = r.conduct /\ d.inbox = r.inbox /\ d.outbox = r.outbox
            /\ d.reqs = r.reqs /\ d.acts = r.acts /\ d.fed = r.fed /\ d.hashes = r.hashes
<1> DEFINE e == EventOf(r, type, cause, load)
           d == emit(r, type, cause, load)
<1>1. d = [r EXCEPT !.log = Append(r.log, e), !.state = applyEvent(r.state, e)]
  BY DEF emit, Applied, EventOf
<1>2. r = [conduct |-> r.conduct, log |-> r.log, state |-> r.state, inbox |-> r.inbox,
           outbox |-> r.outbox, reqs |-> r.reqs, acts |-> r.acts, fed |-> r.fed,
           hashes |-> r.hashes]
  BY DEF IsRun
<1> HIDE DEF d, e
<1>3. d = [conduct |-> r.conduct, log |-> Append(r.log, e), state |-> applyEvent(r.state, e),
           inbox |-> r.inbox, outbox |-> r.outbox, reqs |-> r.reqs, acts |-> r.acts,
           fed |-> r.fed, hashes |-> r.hashes]
  BY <1>1, <1>2
<1>4. QED
  BY <1>3 DEF IsRun, d, e

LEMMA EventFields ==
  ASSUME NEW r, NEW type, NEW cause, NEW load
  PROVE  LET e == EventOf(r, type, cause, load)
         IN /\ e.type = type /\ e.load = load /\ e.id = NextId(r.log, type)
            /\ e.tick = IF type = "TimeAdvanced" THEN load.tick ELSE r.state.tick
            /\ [e EXCEPT !.seq = 0] =
                 [seq |-> 0, id |-> NextId(r.log, type), type |-> type, tick |-> e.tick,
                  actor |-> load.npc, target |-> load.peer, cause |-> cause,
                  corr |-> load.act, load |-> load]
BY DEF EventOf, Stamped

LEMMA SameEffect ==
  ASSUME NEW s, NEW e, NEW d, e.type = d.type, e.load = d.load, e.tick = d.tick
  PROVE  applyEvent(s, e) = applyEvent(s, d)
<1>1. Throws(s, e) = Throws(s, d)
  BY DEF Throws
<1>2. Effect(s, e) = Effect(s, d)
  BY DEF Effect
<1>3. Counts(e) = Counts(d)
  BY DEF Counts
<1>4. QED
  BY <1>1, <1>2, <1>3 DEF applyEvent

LEMMA EffectIsFun ==
  ASSUME NEW s, IsFun(s), NEW e
  PROVE  IsFun(applyEvent(s, e))
<1>1. CASE s.aborted
  BY <1>1 DEF applyEvent
<1>2. CASE ~s.aborted /\ Throws(s, e)
  <2>1. applyEvent(s, e) = [s EXCEPT !.aborted = TRUE]
    BY <1>2 DEF applyEvent
  <2>2. QED
    BY <2>1 DEF IsFun
<1>3. CASE ~s.aborted /\ ~Throws(s, e)
  <2> DEFINE t == Effect(s, e)
  <2>1. applyEvent(s, e) = [t EXCEPT !.version = IF Counts(e) THEN @ + 1 ELSE @]
    BY <1>3 DEF applyEvent
  <2> HIDE DEF t
  <2>2. QED
    BY <2>1 DEF IsFun
<1>4. QED
  BY <1>1, <1>2, <1>3

LEMMA MarkerEffect ==
  ASSUME NEW s, IsFun(s), NEW e, e.type \in Markers
  PROVE  applyEvent(s, e) = s
<1>1. ~Throws(s, e)
  BY DEF Throws, Markers, Settlements
<1>2. Effect(s, e) = s
  <2>1. e.type = "SimulationPaused" \/ e.type = "SimulationResumed"
    BY DEF Markers
  <2>2. e.type \notin Settlements
    BY <2>1 DEF Settlements
  <2>3. QED
    BY <2>1, <2>2 DEF Effect
<1>3. ~Counts(e)
  BY DEF Counts
<1>4. [s EXCEPT !.version = s.version] = s
  BY DEF IsFun
<1>5. QED
  BY <1>1, <1>2, <1>3, <1>4 DEF applyEvent

-----------------------------------------------------------------------------
(* Each operation keeps two runs alike.                                    *)

LEMMA AlikeFacts ==
  ASSUME NEW r, NEW q, NEW k, Alike(r, q, k)
  PROVE  /\ r.state = q.state /\ r.reqs = q.reqs /\ r.acts = q.acts /\ r.hashes = q.hashes
         /\ r.conduct = q.conduct /\ r.inbox = q.inbox /\ r.fed = q.fed
         /\ Projection(r.log) = Projection(q.log) /\ k = <<r.conduct, r.fed, r.inbox>>
BY DEF Alike, Rest

LEMMA TwinsAreAlike ==
  ASSUME NEW r, NEW q, NEW k, Twins(r, q, k)
  PROVE  Alike(r, q, k) /\ LastId(r) = LastId(q)
BY DEF Twins

LEMMA EmitTwins ==
  ASSUME NEW r, NEW q, NEW k, Alike(r, q, k),
         NEW type, type \notin Markers, NEW cause, NEW load
  PROVE  Twins(emit(r, type, cause, load), emit(q, type, cause, load), k)
<1> DEFINE e == EventOf(r, type, cause, load)
           c == EventOf(q, type, cause, load)
           d == emit(r, type, cause, load)
           p == emit(q, type, cause, load)
<1>1. /\ IsRun(d) /\ d.log = Append(r.log, e) /\ d.state = applyEvent(r.state, e)
      /\ d.conduct = r.conduct /\ d.inbox = r.inbox
      /\ d.reqs = r.reqs /\ d.acts = r.acts /\ d.fed = r.fed /\ d.hashes = r.hashes
  BY Emitted DEF Alike
<1>2. /\ IsRun(p) /\ p.log = Append(q.log, c) /\ p.state = applyEvent(q.state, c)
      /\ p.conduct = q.conduct /\ p.inbox = q.inbox
      /\ p.reqs = q.reqs /\ p.acts = q.acts /\ p.fed = q.fed /\ p.hashes = q.hashes
  BY Emitted DEF Alike
<1>3. NextId(r.log, type) = NextId(q.log, type)
  BY DEF Alike, NextId
<1>4. /\ e.type = type /\ c.type = type /\ e.load = load /\ c.load = load /\ e.tick = c.tick
      /\ e.id = c.id /\ SameEvent(e, c)
  <2>1. /\ e.type = type /\ e.load = load /\ e.id = NextId(r.log, type)
        /\ e.tick = IF type = "TimeAdvanced" THEN load.tick ELSE r.state.tick
        /\ [e EXCEPT !.seq = 0] =
             [seq |-> 0, id |-> NextId(r.log, type), type |-> type, tick |-> e.tick,
              actor |-> load.npc, target |-> load.peer, cause |-> cause,
              corr |-> load.act, load |-> load]
    BY EventFields
  <2>2. /\ c.type = type /\ c.load = load /\ c.id = NextId(q.log, type)
        /\ c.tick = IF type = "TimeAdvanced" THEN load.tick ELSE q.state.tick
        /\ [c EXCEPT !.seq = 0] =
             [seq |-> 0, id |-> NextId(q.log, type), type |-> type, tick |-> c.tick,
              actor |-> load.npc, target |-> load.peer, cause |-> cause,
              corr |-> load.act, load |-> load]
    BY EventFields
  <2> HIDE DEF e, c
  <2>3. e.tick = c.tick
    BY <2>1, <2>2 DEF Alike
  <2>4. SameEvent(e, c)
    BY <1>3, <2>1, <2>2, <2>3 DEF SameEvent
  <2>5. QED
    BY <1>3, <2>1, <2>2, <2>3, <2>4
<1> HIDE DEF e, c, d, p
<1>5. d.state = p.state /\ IsFun(d.state)
  <2>1. applyEvent(r.state, e) = applyEvent(r.state, c)
    BY <1>4, SameEffect
  <2>2. IsFun(applyEvent(r.state, e))
    BY EffectIsFun DEF Alike
  <2>3. QED
    BY <1>1, <1>2, <2>1, <2>2 DEF Alike
<1>6. IsSeq(r.log) /\ IsSeq(q.log)
  BY DEF Alike
<1>7. IsSeq(d.log) /\ IsSeq(p.log) /\ Last(d.log) = e /\ Last(p.log) = c
  BY <1>1, <1>2, <1>6, Appended
<1>8. Projection(d.log) = Projection(p.log)
  <2>1. Projection(r.log) = Projection(q.log)
    BY DEF Alike
  <2>2. QED
    BY <1>1, <1>2, <1>4, <1>6, <2>1, ProjectionsGrow
<1>9. Canonicals(d.log) = Canonicals(p.log)
  <2>1. Canonicals(r.log) = Canonicals(q.log)
    BY DEF Alike
  <2>2. QED
    BY <1>1, <1>2, <1>4, <1>6, <2>1, CanonicalsGrow
<1>10. LastId(d) = LastId(p)
  BY <1>4, <1>7 DEF LastId
<1>11. Rest(d) = k /\ Rest(p) = k
  BY <1>1, <1>2 DEF Alike, Rest
<1>12. d.reqs = p.reqs /\ d.acts = p.acts /\ d.hashes = p.hashes
  BY <1>1, <1>2, AlikeFacts
<1>13. Twins(d, p, k)
  <2>1. d.conduct \in Conducts
    BY <1>1 DEF Alike
  <2>2. QED
    BY <1>1, <1>2, <1>5, <1>7, <1>8, <1>9, <1>10, <1>11, <1>12, <2>1 DEF Twins, Alike
<1>14. QED
  BY <1>13 DEF d, p

\* A marker in one of them only.
LEMMA MarkerAlike ==
  ASSUME NEW r, NEW q, NEW k, Alike(r, q, k), NEW type \in Markers, NEW cause, NEW load
  PROVE  Alike(emit(r, type, cause, load), q, k)
<1> DEFINE e == EventOf(r, type, cause, load)
           d == emit(r, type, cause, load)
<1>1. /\ IsRun(d) /\ d.log = Append(r.log, e) /\ d.state = applyEvent(r.state, e)
      /\ d.conduct = r.conduct /\ d.inbox = r.inbox
      /\ d.reqs = r.reqs /\ d.acts = r.acts /\ d.fed = r.fed /\ d.hashes = r.hashes
  BY Emitted DEF Alike
<1>2. e.type \in Markers
  <2>1. e.type = type
    BY DEF EventOf, Stamped
  <2>2. QED
    BY <2>1
<1> HIDE DEF e, d
<1>3. d.state = r.state
  BY <1>1, <1>2, MarkerEffect DEF Alike
<1>4. IsSeq(r.log)
  BY DEF Alike
<1>5. /\ IsSeq(d.log) /\ Projection(d.log) = Projection(r.log)
      /\ Canonicals(d.log) = Canonicals(r.log)
  BY <1>1, <1>2, <1>4, Appended, MarkerLeavesProjection, CanonicalsGrow
<1>6. Rest(d) = Rest(r)
  BY <1>1 DEF Rest
<1>7. Alike(d, q, k)
  BY <1>1, <1>3, <1>5, <1>6 DEF Alike
<1>8. QED
  BY <1>7 DEF d

\* The fields that are set outside of emit.
LEMMA ActsAlike ==
  ASSUME NEW r, NEW q, NEW k, Alike(r, q, k), NEW x
  PROVE  Alike([r EXCEPT !.acts = x], [q EXCEPT !.acts = x], k)
BY DEF Alike, IsRun, Rest

LEMMA ReqsAlike ==
  ASSUME NEW r, NEW q, NEW k, Alike(r, q, k), NEW x
  PROVE  Alike([r EXCEPT !.reqs = x], [q EXCEPT !.reqs = x], k)
BY DEF Alike, IsRun, Rest

LEMMA HashesAlike ==
  ASSUME NEW r, NEW q, NEW k, Alike(r, q, k), NEW x
  PROVE  Alike([r EXCEPT !.hashes = x], [q EXCEPT !.hashes = x], k)
BY DEF Alike, IsRun, Rest

LEMMA OutboxAlike ==
  ASSUME NEW r, NEW q, NEW k, Alike(r, q, k), NEW x, NEW y
  PROVE  Alike([r EXCEPT !.outbox = x], [q EXCEPT !.outbox = y], k)
BY DEF Alike, IsRun, Rest

LEMMA InboxAlike ==
  ASSUME NEW r, NEW q, NEW k, Alike(r, q, k), NEW x
  PROVE  Alike([r EXCEPT !.inbox = x], [q EXCEPT !.inbox = x], <<k[1], k[2], x>>)
BY DEF Alike, IsRun, Rest

LEMMA ClearedAlike ==
  ASSUME NEW r, NEW q, NEW k, Alike(r, q, k)
  PROVE  Alike(Cleared(r), Cleared(q), <<r.conduct, Append(r.fed, r.inbox), <<>>>>)
<1>1. ASSUME NEW d, IsRun(d)
      PROVE  Cleared(d) = [conduct |-> d.conduct, log |-> d.log, state |-> d.state, inbox |-> <<>>,
                           outbox |-> d.outbox, reqs |-> d.reqs, acts |-> d.acts,
                           fed |-> Append(d.fed, d.inbox), hashes |-> d.hashes]
  <2> DEFINE x == Append(d.fed, d.inbox)
  <2>1. Cleared(d) = [d EXCEPT !.inbox = <<>>, !.fed = x]
    BY DEF Cleared
  <2> HIDE DEF x
  <2>2. Cleared(d) = [conduct |-> d.conduct, log |-> d.log, state |-> d.state, inbox |-> <<>>,
                      outbox |-> d.outbox, reqs |-> d.reqs, acts |-> d.acts,
                      fed |-> x, hashes |-> d.hashes]
    BY <1>1, <2>1 DEF IsRun
  <2>3. QED
    BY <2>2 DEF x
<1>2. IsRun(r) /\ IsRun(q)
  BY DEF Alike
<1> DEFINE x == Append(r.fed, r.inbox)
           d == Cleared(r)
           p == Cleared(q)
<1>3. r.fed = q.fed /\ r.inbox = q.inbox
  BY AlikeFacts
<1>4. /\ d = [conduct |-> r.conduct, log |-> r.log, state |-> r.state, inbox |-> <<>>,
             outbox |-> r.outbox, reqs |-> r.reqs, acts |-> r.acts,
             fed |-> x, hashes |-> r.hashes]
      /\ p = [conduct |-> q.conduct, log |-> q.log, state |-> q.state, inbox |-> <<>>,
             outbox |-> q.outbox, reqs |-> q.reqs, acts |-> q.acts,
             fed |-> x, hashes |-> q.hashes]
  BY <1>1, <1>2, <1>3
<1> HIDE DEF x, d, p
<1>5. IsRun(d) /\ IsRun(p)
  BY <1>4 DEF IsRun
<1>6. Rest(d) = <<r.conduct, x, <<>>>> /\ Rest(p) = <<r.conduct, x, <<>>>>
  BY <1>4, AlikeFacts DEF Rest
<1>7. Alike(d, p, <<r.conduct, x, <<>>>>)
  BY <1>4, <1>5, <1>6 DEF Alike
<1>8. QED
  BY <1>7 DEF x, d, p

LEMMA InterruptAlike ==
  ASSUME NEW r, NEW q, NEW k, Alike(r, q, k), NEW cause
  PROVE  Alike(interruptAction(r, cause), interruptAction(q, cause), k)
<1>1. r.state = q.state
  BY AlikeFacts
<1>2. ASSUME NEW load PROVE Alike(emit(r, "ActionInterrupted", cause, load),
                                  emit(q, "ActionInterrupted", cause, load), k)
  BY EmitTwins, TwinsAreAlike DEF Markers
<1>3. QED
  BY <1>1, <1>2 DEF interruptAction

LEMMA ProposedTwins ==
  ASSUME NEW r, NEW q, NEW k, Alike(r, q, k), NEW load, NEW cause
  PROVE  Twins(Proposed(r, load, cause), Proposed(q, load, cause), k)
BY ActsAlike, EmitTwins DEF Proposed, Markers

LEMMA LaunchedAlike ==
  ASSUME NEW r, NEW q, NEW k, Alike(r, q, k), NEW load, NEW cause
  PROVE  Alike(Launched(r, load, cause), Launched(q, load, cause), k)
<1>1. r.state = q.state
  BY AlikeFacts
<1>2. ASSUME NEW x PROVE Alike(emit(r, "MovementStarted", None, x),
                               emit(q, "MovementStarted", None, x), k)
  BY EmitTwins, TwinsAreAlike DEF Markers
<1>3. ASSUME NEW x PROVE Alike(emit(r, "ActionStarted", cause, x),
                               emit(q, "ActionStarted", cause, x), k)
  BY EmitTwins, TwinsAreAlike DEF Markers
<1>4. QED
  BY <1>1, <1>2, <1>3 DEF Launched

LEMMA ProposeAlike ==
  ASSUME NEW r, NEW q, NEW k, Alike(r, q, k), NEW desc, NEW cause
  PROVE  Alike(proposeAndLaunch(r, desc, cause), proposeAndLaunch(q, desc, cause), k)
<1>1. r.acts = q.acts
  BY AlikeFacts
<1>2. ASSUME NEW load PROVE Alike(Launched(Proposed(r, load, cause), load, cause),
                                  Launched(Proposed(q, load, cause), load, cause), k)
  BY ProposedTwins, TwinsAreAlike, LaunchedAlike
<1>3. QED
  BY <1>1, <1>2 DEF proposeAndLaunch

LEMMA ReceivedTwins ==
  ASSUME NEW r, NEW q, NEW k, Alike(r, q, k), NEW m
  PROVE  Twins(Received(r, m), Received(q, m), k)
BY EmitTwins DEF Received, Markers

LEMMA AcceptedTwins ==
  ASSUME NEW r, NEW q, NEW k, Twins(r, q, k), NEW m, NEW used
  PROVE  Twins(Accepted(r, m, used), Accepted(q, m, used), k)
BY TwinsAreAlike, EmitTwins DEF Accepted, Markers

LEMMA RejectedTwins ==
  ASSUME NEW r, NEW q, NEW k, Twins(r, q, k), NEW m
  PROVE  Twins(Rejected(r, m), Rejected(q, m), k)
BY TwinsAreAlike, EmitTwins DEF Rejected, Markers

LEMMA SelectedAlike ==
  ASSUME NEW r, NEW q, NEW k, Twins(r, q, k), NEW offer
  PROVE  Alike(Selected(r, offer), Selected(q, offer), k)
<1>1. Alike(r, q, k) /\ LastId(r) = LastId(q)
  BY TwinsAreAlike
<1>2. Alike(interruptAction(r, LastId(r)), interruptAction(q, LastId(r)), k)
  BY <1>1, InterruptAlike
<1>3. Alike(proposeAndLaunch(interruptAction(r, LastId(r)), offer, LastId(r)),
            proposeAndLaunch(interruptAction(q, LastId(r)), offer, LastId(r)), k)
  BY <1>2, ProposeAlike
<1>4. QED
  BY <1>1, <1>3 DEF Selected

LEMMA ResponseAlike ==
  ASSUME NEW r, NEW q, NEW k, Alike(r, q, k), NEW m, NEW used
  PROVE  Alike(processDecisionResponse(r, m, used), processDecisionResponse(q, m, used), k)
<1>1. r.state = q.state
  BY AlikeFacts
<1>2. Twins(Received(r, m), Received(q, m), k)
  BY ReceivedTwins
<1>3. ASSUME NEW offer
      PROVE  Alike(Selected(Accepted(Received(r, m), m, used), offer),
                   Selected(Accepted(Received(q, m), m, used), offer), k)
  BY <1>2, AcceptedTwins, SelectedAlike
<1>4. Alike(Rejected(Received(r, m), m), Rejected(Received(q, m), m), k)
  BY <1>2, RejectedTwins, TwinsAreAlike
<1>5. QED
  BY <1>1, <1>3, <1>4 DEF processDecisionResponse

LEMMA ArriveAlike ==
  ASSUME NEW r, NEW q, NEW k, Alike(r, q, k)
  PROVE  Alike(Arrive(r), Arrive(q), k)
<1>1. r.state = q.state
  BY AlikeFacts
<1>2. Twins(Arrived(r), Arrived(q), k)
  BY <1>1, EmitTwins DEF Arrived, Markers
<1>3. LastId(Arrived(r)) = LastId(Arrived(q))
  BY <1>2, TwinsAreAlike
<1>4. ASSUME NEW a PROVE Alike(Begun(Arrived(r), a), Begun(Arrived(q), a), k)
  <2>1. Alike(Arrived(r), Arrived(q), k)
    BY <1>2, TwinsAreAlike
  <2>2. ASSUME NEW load, NEW cause
        PROVE  Alike(emit(Arrived(r), "ActionStarted", cause, load),
                     emit(Arrived(q), "ActionStarted", cause, load), k)
    BY <2>1, EmitTwins, TwinsAreAlike DEF Markers
  <2>3. QED
    BY <1>3, <2>2 DEF Begun
<1>5. QED
  BY <1>1, <1>4 DEF Arrive

LEMMA PerceiveAlike ==
  ASSUME NEW r, NEW q, NEW k, Alike(r, q, k)
  PROVE  Alike(Perceive(r), Perceive(q), k)
<1>1. r.state = q.state
  BY AlikeFacts
<1>2. ASSUME NEW load PROVE Alike(emit(r, "PerceptionRecorded", None, load),
                                  emit(q, "PerceptionRecorded", None, load), k)
  BY EmitTwins, TwinsAreAlike DEF Markers
<1>3. QED
  BY <1>1, <1>2 DEF Perceive

LEMMA CompleteAlike ==
  ASSUME NEW r, NEW q, NEW k, Alike(r, q, k)
  PROVE  Alike(CompleteScripted(r), CompleteScripted(q), k)
<1>1. r.state = q.state
  BY AlikeFacts
<1>2. ASSUME NEW load PROVE Alike(emit(r, "ActionCompleted", None, load),
                                  emit(q, "ActionCompleted", None, load), k)
  BY EmitTwins, TwinsAreAlike DEF Markers
<1>3. QED
  BY <1>1, <1>2 DEF CompleteScripted

LEMMA BreakAlike ==
  ASSUME NEW r, NEW q, NEW k, Alike(r, q, k)
  PROVE  Alike(BreakCommitment(r), BreakCommitment(q), k)
<1>1. r.state = q.state
  BY AlikeFacts
<1>2. ASSUME NEW load PROVE Alike(emit(r, "CommitmentBroken", None, load),
                                  emit(q, "CommitmentBroken", None, load), k)
  BY EmitTwins, TwinsAreAlike DEF Markers
<1>3. QED
  BY <1>1, <1>2 DEF BreakCommitment

LEMMA HappenAlike ==
  ASSUME NEW r, NEW q, NEW k, Alike(r, q, k)
  PROVE  Alike(Happen(r), Happen(q), k)
BY PerceiveAlike, ArriveAlike, CompleteAlike, BreakAlike DEF Happen

LEMMA ExpiredAlike ==
  ASSUME NEW r, NEW q, NEW k, Alike(r, q, k), NEW reason
  PROVE  Alike(Expired(r, reason), Expired(q, reason), k)
<1>1. r.state = q.state
  BY AlikeFacts
<1>2. ASSUME NEW load PROVE Alike(emit(r, "DecisionRequestExpired", None, load),
                                  emit(q, "DecisionRequestExpired", None, load), k)
  BY EmitTwins, TwinsAreAlike DEF Markers
<1>3. QED
  BY <1>1, <1>2 DEF Expired

LEMMA FailureAlike ==
  ASSUME NEW r, NEW q, NEW k, Alike(r, q, k), NEW m
  PROVE  Alike(processDecisionFailure(r, m), processDecisionFailure(q, m), k)
<1>1. r.state = q.state
  BY AlikeFacts
<1>2. ASSUME NEW load
      PROVE  Alike(Expired(emit(r, "DecisionProviderFailed", None, load), "external-failure"),
                   Expired(emit(q, "DecisionProviderFailed", None, load), "external-failure"), k)
  <2>1. Alike(emit(r, "DecisionProviderFailed", None, load),
              emit(q, "DecisionProviderFailed", None, load), k)
    BY EmitTwins, TwinsAreAlike DEF Markers
  <2>2. QED
    BY <2>1, ExpiredAlike
<1>3. QED
  BY <1>1, <1>2 DEF processDecisionFailure

LEMMA ExpireAlike ==
  ASSUME NEW r, NEW q, NEW k, Alike(r, q, k)
  PROVE  Alike(Expire(r), Expire(q), k)
<1>1. r.state = q.state
  BY AlikeFacts
<1>2. QED
  BY <1>1, ExpiredAlike DEF Expire

LEMMA ResponsesAlike ==
  ASSUME NEW r, NEW q, NEW k, Alike(r, q, k), NEW queue, IsSeq(queue)
  PROVE  Alike(DrainResponses(r, queue), DrainResponses(q, queue), k)
<1> DEFINE n == Len(queue)
<1>1. n \in Nat
  BY SeqFacts
<1>8. PICK f : DrainsResponses(r, queue, f)
  BY <1>1, ResponsesSteps
<1>2. /\ f[0] = r
      /\ \A i \in 1..n : f[i] = IF queue[i].choice = None THEN f[i - 1]
                                ELSE Judged(f[i - 1], queue[i])
      /\ DrainResponses(r, queue) = f[n]
  BY <1>8 DEF DrainsResponses
<1>9. PICK g : DrainsResponses(q, queue, g)
  BY <1>1, ResponsesSteps
<1>3. /\ g[0] = q
      /\ \A i \in 1..n : g[i] = IF queue[i].choice = None THEN g[i - 1]
                                ELSE Judged(g[i - 1], queue[i])
      /\ DrainResponses(q, queue) = g[n]
  BY <1>9 DEF DrainsResponses
<1> HIDE DEF n
<1> DEFINE T == {i \in 0..n : Alike(f[i], g[i], k)}
<1>4. 0 \in T
  <2>1. 0 \in 0..n
    BY <1>1
  <2>2. QED
    BY <1>2, <1>3, <2>1
<1>5. ASSUME NEW i \in 0..(n - 1), i \in T PROVE i + 1 \in T
  <2>1. i + 1 \in 1..n /\ i + 1 \in 0..n /\ i + 1 - 1 = i
    BY <1>1
  <2>2. Alike(f[i], g[i], k)
    BY <1>5
  <2>3. f[i + 1] = IF queue[i + 1].choice = None THEN f[i + 1 - 1]
                   ELSE Judged(f[i + 1 - 1], queue[i + 1])
    BY <1>1, <1>2, <2>1
  <2>4. g[i + 1] = IF queue[i + 1].choice = None THEN g[i + 1 - 1]
                   ELSE Judged(g[i + 1 - 1], queue[i + 1])
    BY <1>1, <1>3, <2>1
  <2>5. Alike(Judged(f[i], queue[i + 1]), Judged(g[i], queue[i + 1]), k)
    BY <2>2, ResponseAlike DEF Judged
  <2>6. Alike(f[i + 1], g[i + 1], k)
    BY <2>1, <2>2, <2>3, <2>4, <2>5
  <2>7. QED
    BY <2>1, <2>6
<1>6. n \in T
  <2> HIDE DEF T
  <2>1. n \in 0..n
    BY <1>1
  <2>2. QED
    BY <1>1, <1>4, <1>5, <2>1, UpTo
<1>7. QED
  BY <1>2, <1>3, <1>6

LEMMA FailuresAlike ==
  ASSUME NEW r, NEW q, NEW k, Alike(r, q, k), NEW queue, IsSeq(queue)
  PROVE  Alike(DrainFailures(r, queue), DrainFailures(q, queue), k)
<1> DEFINE n == Len(queue)
<1>1. n \in Nat
  BY SeqFacts
<1>8. PICK f : DrainsFailures(r, queue, f)
  BY <1>1, FailuresSteps
<1>2. /\ f[0] = r
      /\ \A i \in 1..n : f[i] = IF queue[i].choice # None THEN f[i - 1]
                                ELSE processDecisionFailure(f[i - 1], queue[i])
      /\ DrainFailures(r, queue) = f[n]
  BY <1>8 DEF DrainsFailures
<1>9. PICK g : DrainsFailures(q, queue, g)
  BY <1>1, FailuresSteps
<1>3. /\ g[0] = q
      /\ \A i \in 1..n : g[i] = IF queue[i].choice # None THEN g[i - 1]
                                ELSE processDecisionFailure(g[i - 1], queue[i])
      /\ DrainFailures(q, queue) = g[n]
  BY <1>9 DEF DrainsFailures
<1> HIDE DEF n
<1> DEFINE T == {i \in 0..n : Alike(f[i], g[i], k)}
<1>4. 0 \in T
  <2>1. 0 \in 0..n
    BY <1>1
  <2>2. QED
    BY <1>2, <1>3, <2>1
<1>5. ASSUME NEW i \in 0..(n - 1), i \in T PROVE i + 1 \in T
  <2>1. i + 1 \in 1..n /\ i + 1 \in 0..n /\ i + 1 - 1 = i
    BY <1>1
  <2>2. Alike(f[i], g[i], k)
    BY <1>5
  <2>3. f[i + 1] = IF queue[i + 1].choice # None THEN f[i + 1 - 1]
                   ELSE processDecisionFailure(f[i + 1 - 1], queue[i + 1])
    BY <1>1, <1>2, <2>1
  <2>4. g[i + 1] = IF queue[i + 1].choice # None THEN g[i + 1 - 1]
                   ELSE processDecisionFailure(g[i + 1 - 1], queue[i + 1])
    BY <1>1, <1>3, <2>1
  <2>5. Alike(processDecisionFailure(f[i], queue[i + 1]),
              processDecisionFailure(g[i], queue[i + 1]), k)
    BY <2>2, FailureAlike
  <2>6. Alike(f[i + 1], g[i + 1], k)
    BY <2>1, <2>2, <2>3, <2>4, <2>5
  <2>7. QED
    BY <2>1, <2>6
<1>6. n \in T
  <2> HIDE DEF T
  <2>1. n \in 0..n
    BY <1>1
  <2>2. QED
    BY <1>1, <1>4, <1>5, <2>1, UpTo
<1>7. QED
  BY <1>2, <1>3, <1>6

LEMMA DrainAlike ==
  ASSUME NEW r, NEW q, NEW k, Alike(r, q, k), IsSeq(r.inbox)
  PROVE  Alike(Drain(r), Drain(q), <<r.conduct, Append(r.fed, r.inbox), <<>>>>)
<1> DEFINE j == <<r.conduct, Append(r.fed, r.inbox), <<>>>>
<1>1. r.inbox = q.inbox
  BY AlikeFacts
<1>2. Alike(Cleared(r), Cleared(q), j)
  BY ClearedAlike
<1> HIDE DEF j
<1>3. Alike(DrainResponses(Cleared(r), r.inbox), DrainResponses(Cleared(q), r.inbox), j)
  BY <1>2, ResponsesAlike
<1>4. Alike(DrainFailures(DrainResponses(Cleared(r), r.inbox), r.inbox),
            DrainFailures(DrainResponses(Cleared(q), r.inbox), r.inbox), j)
  BY <1>3, FailuresAlike
<1>5. QED
  BY <1>1, <1>4 DEF Drain, j

LEMMA FallbackAlike ==
  ASSUME NEW r, NEW q, NEW k, Alike(r, q, k), NEW req
  PROVE  Alike(Fallback(r, req), Fallback(q, req), k)
<1>1. ASSUME NEW load, NEW m
      PROVE  Alike(processDecisionResponse(emit(r, "FallbackDecisionUsed", None, load), m, TRUE),
                   processDecisionResponse(emit(q, "FallbackDecisionUsed", None, load), m, TRUE), k)
  <2>1. Alike(emit(r, "FallbackDecisionUsed", None, load),
              emit(q, "FallbackDecisionUsed", None, load), k)
    BY EmitTwins, TwinsAreAlike DEF Markers
  <2>2. QED
    BY <2>1, ResponseAlike
<1>2. QED
  BY <1>1 DEF Fallback

LEMMA BridgedAlike ==
  ASSUME NEW r, NEW q, NEW k, Twins(r, q, k), NEW offer
  PROVE  Alike(Bridged(r, offer), Bridged(q, offer), k)
BY TwinsAreAlike, ProposeAlike DEF Bridged

LEMMA BridgeAlike ==
  ASSUME NEW r, NEW q, NEW k, Alike(r, q, k), NEW req, NEW cause
  PROVE  Alike(Bridge(r, req, cause), Bridge(q, req, cause), k)
<1>1. r.state = q.state
  BY AlikeFacts
<1>2. ASSUME NEW load, NEW offer
      PROVE  Alike(Bridged(emit(r, "FallbackDecisionUsed", cause, load), offer),
                   Bridged(emit(q, "FallbackDecisionUsed", cause, load), offer), k)
  <2>1. Twins(emit(r, "FallbackDecisionUsed", cause, load),
              emit(q, "FallbackDecisionUsed", cause, load), k)
    BY EmitTwins DEF Markers
  <2>2. QED
    BY <2>1, BridgedAlike
<1>3. QED
  BY <1>1, <1>2 DEF Bridge

LEMMA RequestedTwins ==
  ASSUME NEW r, NEW q, NEW k, Alike(r, q, k)
  PROVE  Twins(Requested(r), Requested(q), k)
<1>1. r.state = q.state /\ r.reqs = q.reqs /\ r.conduct = q.conduct
  BY AlikeFacts
<1>2. ASSUME NEW load PROVE Alike(emit(r, "DecisionRequestSuperseded", None, load),
                                  emit(q, "DecisionRequestSuperseded", None, load), k)
  BY EmitTwins, TwinsAreAlike DEF Markers
<1>3. ASSUME NEW a, NEW b, Alike(a, b, k), NEW x, NEW load
      PROVE  Twins(emit([a EXCEPT !.reqs = x], "DecisionRequested", None, load),
                   emit([b EXCEPT !.reqs = x], "DecisionRequested", None, load), k)
  <2>1. Alike([a EXCEPT !.reqs = x], [b EXCEPT !.reqs = x], k)
    BY <1>3, ReqsAlike
  <2>2. QED
    BY <2>1, EmitTwins DEF Markers
<1> DEFINE Left(d) == IF d.state.open = Absent THEN d
                      ELSE emit(d, "DecisionRequestSuperseded", None,
                                [Blank EXCEPT !.npc = Npc, !.req = d.state.open.req])
           load(d) == [Blank EXCEPT !.npc = Npc, !.req = d.reqs + 1, !.provider = d.conduct,
                                    !.offers = Offers(d.state)]
<1>4. Alike(Left(r), Left(q), k)
  BY <1>1, <1>2
<1>5. load(r) = load(q)
  BY <1>1
<1>6. /\ Requested(r) =
           emit([Left(r) EXCEPT !.reqs = r.reqs + 1], "DecisionRequested", None, load(r))
      /\ Requested(q) =
           emit([Left(q) EXCEPT !.reqs = q.reqs + 1], "DecisionRequested", None, load(q))
  BY DEF Requested
<1> HIDE DEF Left, load
<1>7. QED
  BY <1>1, <1>3, <1>4, <1>5, <1>6

LEMMA DecidedAlike ==
  ASSUME NEW r, NEW q, NEW k, Twins(r, q, k)
  PROVE  Alike(Decided(r), Decided(q), k)
<1>1. Alike(r, q, k) /\ LastId(r) = LastId(q)
  BY TwinsAreAlike
<1>2. r.state = q.state /\ r.reqs = q.reqs /\ r.conduct = q.conduct
  BY <1>1, AlikeFacts
<1>3. CASE r.conduct = "answers"
  <2>1. ASSUME NEW m PROVE Alike(processDecisionResponse(r, m, FALSE),
                                 processDecisionResponse(q, m, FALSE), k)
    BY <1>1, ResponseAlike
  <2>2. QED
    BY <1>2, <1>3, <2>1 DEF Decided
<1>4. CASE r.conduct = "fails"
  <2>1. ASSUME NEW cause, NEW load, NEW req
        PROVE  Alike(Fallback(emit(r, "DecisionProviderFailed", cause, load), req),
                     Fallback(emit(q, "DecisionProviderFailed", cause, load), req), k)
    <3>1. Alike(emit(r, "DecisionProviderFailed", cause, load),
                emit(q, "DecisionProviderFailed", cause, load), k)
      BY <1>1, EmitTwins, TwinsAreAlike DEF Markers
    <3>2. QED
      BY <3>1, FallbackAlike
  <2>2. QED
    BY <1>1, <1>2, <1>4, <2>1 DEF Decided
<1>5. CASE r.conduct = "defers"
  <2> DEFINE a == [r EXCEPT !.outbox = Append(r.outbox, r.reqs)]
             b == [q EXCEPT !.outbox = Append(q.outbox, q.reqs)]
  <2>1. Alike(a, b, k)
    BY <1>1, OutboxAlike
  <2>2. ASSUME NEW req, NEW cause PROVE Alike(Bridge(a, req, cause), Bridge(b, req, cause), k)
    BY <2>1, BridgeAlike
  <2>3. /\ Decided(r) = IF Idle(r.state) THEN Bridge(a, r.reqs, LastId(r)) ELSE a
        /\ Decided(q) = IF Idle(q.state) THEN Bridge(b, q.reqs, LastId(q)) ELSE b
    BY <1>2, <1>5 DEF Decided
  <2> HIDE DEF a, b
  <2>4. QED
    BY <1>1, <1>2, <2>1, <2>2, <2>3
<1>6. r.conduct \in {"answers", "fails", "defers"}
  BY <1>1 DEF Alike, Conducts
<1>7. QED
  BY <1>3, <1>4, <1>5, <1>6

LEMMA DecideAlike ==
  ASSUME NEW r, NEW q, NEW k, Alike(r, q, k)
  PROVE  Alike(Decide(r), Decide(q), k)
<1>1. r.state = q.state
  BY AlikeFacts
<1>2. Alike(Decided(Requested(r)), Decided(Requested(q)), k)
  BY RequestedTwins, DecidedAlike
<1>3. QED
  BY <1>1, <1>2 DEF Decide

LEMMA ClosedAlike ==
  ASSUME NEW r, NEW q, NEW k, Alike(r, q, k)
  PROVE  Alike(Closed(r), Closed(q), k)
<1>1. r.state = q.state
  BY AlikeFacts
<1>2. Alike(Expired(r, "scenario-ended"), Expired(q, "scenario-ended"), k)
  BY ExpiredAlike
<1>3. Alike(IF r.state.open = Absent THEN r ELSE Expired(r, "scenario-ended"),
            IF q.state.open = Absent THEN q ELSE Expired(q, "scenario-ended"), k)
  BY <1>1, <1>2
<1>4. QED
  BY <1>3, InterruptAlike DEF Closed

LEMMA MissedAlike ==
  ASSUME NEW r, NEW q, NEW k, Alike(r, q, k)
  PROVE  Alike(Missed(r), Missed(q), k)
BY EmitTwins, TwinsAreAlike DEF Missed, Markers

LEMMA SealedAlike ==
  ASSUME NEW r, NEW q, NEW k, Alike(r, q, k), NEW hash
  PROVE  Alike(Sealed(r, hash), Sealed(q, hash), k)
<1>1. r.state = q.state
  BY AlikeFacts
<1>2. ASSUME NEW a, NEW b, Alike(a, b, k) PROVE Alike(Hashed(a, hash), Hashed(b, hash), k)
  <2>1. Projection(a.log) = Projection(b.log)
    BY <1>2, AlikeFacts
  <2>2. ASSUME NEW x PROVE Alike([a EXCEPT !.hashes = x], [b EXCEPT !.hashes = x], k)
    BY <1>2, HashesAlike
  <2>3. QED
    BY <2>1, <2>2 DEF Hashed
<1>3. ASSUME NEW load PROVE Alike(emit(r, "ScenarioEnded", None, load),
                                  emit(q, "ScenarioEnded", None, load), k)
  BY EmitTwins, TwinsAreAlike DEF Markers
<1>4. QED
  BY <1>1, <1>2, <1>3 DEF Sealed

LEMMA EndAlike ==
  ASSUME NEW r, NEW q, NEW k, Alike(r, q, k)
  PROVE  Alike(endScenario(r), endScenario(q), k)
<1>1. ASSUME NEW a, NEW b, Alike(a, b, k) PROVE Alike(EndedWith(a), EndedWith(b), k)
  <2>1. Alike(Missed(a), Missed(b), k)
    BY <1>1, MissedAlike
  <2>2. Final(Missed(a)) = Final(Missed(b))
    BY <2>1, AlikeFacts DEF Final
  <2>3. Alike(Sealed(Missed(a), Final(Missed(a))), Sealed(Missed(b), Final(Missed(a))), k)
    BY <2>1, SealedAlike
  <2>4. QED
    BY <2>2, <2>3 DEF EndedWith
<1>2. QED
  BY <1>1, ClosedAlike DEF endScenario

LEMMA AdvancedAlike ==
  ASSUME NEW r, NEW q, NEW k, Alike(r, q, k)
  PROVE  Alike(Advanced(r), Advanced(q), k)
<1>1. r.state = q.state
  BY AlikeFacts
<1>2. ASSUME NEW load PROVE Alike(emit(r, "TimeAdvanced", None, load),
                                  emit(q, "TimeAdvanced", None, load), k)
  BY EmitTwins, TwinsAreAlike DEF Markers
<1>3. QED
  BY <1>1, <1>2 DEF Advanced

LEMMA EndOrDecideAlike ==
  ASSUME NEW r, NEW q, NEW k, Alike(r, q, k)
  PROVE  Alike(EndOrDecide(r), EndOrDecide(q), k)
<1>1. r.state = q.state
  BY AlikeFacts
<1>2. QED
  BY <1>1, EndAlike, DecideAlike DEF EndOrDecide

\* A tick drains the inbox and remembers what it held.
LEMMA TickAlike ==
  ASSUME NEW r, NEW q, NEW k, Alike(r, q, k), IsSeq(r.inbox), ~r.state.terminal
  PROVE  Alike(stepTick(r), stepTick(q), <<r.conduct, Append(r.fed, r.inbox), <<>>>>)
<1> DEFINE a == Happen(Advanced(r))
           b == Happen(Advanced(q))
           j == <<r.conduct, Append(r.fed, r.inbox), <<>>>>
<1>1. Alike(a, b, k)
  BY AdvancedAlike, HappenAlike
<1>2. a.conduct = r.conduct /\ a.fed = r.fed /\ a.inbox = r.inbox
  <2> HIDE DEF a, b
  <2>1. k = <<a.conduct, a.fed, a.inbox>> /\ k = <<r.conduct, r.fed, r.inbox>>
    BY <1>1, AlikeFacts
  <2>2. QED
    BY <2>1
<1> HIDE DEF a, b
<1>3. Alike(Drain(a), Drain(b), j)
  BY <1>1, <1>2, DrainAlike
<1>4. Alike(EndOrDecide(Expire(Drain(a))), EndOrDecide(Expire(Drain(b))), j)
  <2> HIDE DEF j
  <2>1. QED
    BY <1>3, ExpireAlike, EndOrDecideAlike
<1>5. ~q.state.terminal
  BY AlikeFacts
<1>6. /\ stepTick(r) = EndOrDecide(Expire(Drain(a)))
      /\ stepTick(q) = EndOrDecide(Expire(Drain(b)))
  BY <1>5 DEF stepTick, a, b
<1>7. QED
  BY <1>4, <1>6

-----------------------------------------------------------------------------
(* A run and the one nobody interrupted.                                   *)

Primed(run) == [Uninterrupted(run) EXCEPT !.inbox = run.inbox]

Story(run) ==
  /\ IsRun(Uninterrupted(run)) /\ Alike(run, Primed(run), Rest(run))
  /\ IsSeq(run.fed) /\ IsSeq(run.inbox)

\* Two folds over inboxes that agree so far.
LEMMA FoldsAgree ==
  ASSUME NEW n \in Nat, NEW f, NEW g, NEW a, NEW b, f[0] = g[0],
         \A i \in 1..n : f[i] = Fed(f[i - 1], a[i]),
         \A i \in 1..n : g[i] = Fed(g[i - 1], b[i]),
         \A i \in 1..n : a[i] = b[i]
  PROVE  f[n] = g[n]
<1> DEFINE T == {i \in 0..n : f[i] = g[i]}
<1>1. 0 \in T
  OBVIOUS
<1>2. ASSUME NEW i \in 0..(n - 1), i \in T PROVE i + 1 \in T
  <2>1. i + 1 \in 1..n /\ i + 1 \in 0..n /\ i + 1 - 1 = i
    OBVIOUS
  <2>2. f[i] = g[i] /\ a[i + 1] = b[i + 1]
    BY <1>2, <2>1
  <2>3. f[i + 1] = Fed(f[i + 1 - 1], a[i + 1])
    BY <2>1
  <2>4. g[i + 1] = Fed(g[i + 1 - 1], b[i + 1])
    BY <2>1
  <2>5. f[i + 1] = g[i + 1]
    BY <2>1, <2>2, <2>3, <2>4
  <2>6. QED
    BY <2>1, <2>5
<1>3. n \in T
  <2> HIDE DEF T
  <2>1. n \in 0..n
    OBVIOUS
  <2>2. QED
    BY <1>1, <1>2, <2>1, UpTo
<1>4. QED
  BY <1>3

\* The uninterrupted run depends on the conduct and on what was fed.
LEMMA UninterruptedSame ==
  ASSUME NEW r, NEW q, IsSeq(r.fed), q.conduct = r.conduct, q.fed = r.fed
  PROVE  Uninterrupted(q) = Uninterrupted(r)
<1> DEFINE n == Len(r.fed)
<1>1. n \in Nat
  BY SeqFacts
<1>2. PICK f : /\ f[0] = createRun(r.conduct)
               /\ \A i \in 1..n : f[i] = Fed(f[i - 1], r.fed[i])
               /\ Uninterrupted(r) = f[n]
  BY <1>1, UninterruptedSteps
<1>3. PICK g : /\ g[0] = createRun(q.conduct)
               /\ \A i \in 1..Len(q.fed) : g[i] = Fed(g[i - 1], q.fed[i])
               /\ Uninterrupted(q) = g[Len(q.fed)]
  <2>1. Len(q.fed) \in Nat
    BY <1>1
  <2>2. QED
    BY <2>1, UninterruptedSteps
<1>4. Len(q.fed) = n
  OBVIOUS
<1> HIDE DEF n
<1>5. f[n] = g[n]
  <2>1. f[0] = g[0]
    BY <1>2, <1>3
  <2> DEFINE a == r.fed
  <2>2. \A i \in 1..n : f[i] = Fed(f[i - 1], a[i])
    BY <1>2
  <2>3. \A i \in 1..n : g[i] = Fed(g[i - 1], a[i])
    BY <1>3, <1>4
  <2>4. \A i \in 1..n : a[i] = a[i]
    OBVIOUS
  <2> HIDE DEF a
  <2>5. QED
    BY <1>1, <2>1, <2>2, <2>3, <2>4, FoldsAgree
<1>6. QED
  BY <1>2, <1>3, <1>4, <1>5

LEMMA OneMoreTick ==
  ASSUME NEW r, NEW q, NEW n \in Nat, Len(r.fed) = n, NEW x, q.conduct = r.conduct,
         Len(q.fed) = n + 1, q.fed[n + 1] = x, \A i \in 1..n : q.fed[i] = r.fed[i]
  PROVE  Uninterrupted(q) = Fed(Uninterrupted(r), x)
<1>1. n \in Nat /\ n + 1 \in Nat
  OBVIOUS
<1>2. PICK f : /\ f[0] = createRun(r.conduct)
               /\ \A i \in 1..n : f[i] = Fed(f[i - 1], r.fed[i])
               /\ Uninterrupted(r) = f[n]
  BY <1>1, UninterruptedSteps
<1>4. PICK g : /\ g[0] = createRun(q.conduct)
               /\ \A i \in 1..(n + 1) : g[i] = Fed(g[i - 1], q.fed[i])
               /\ Uninterrupted(q) = g[n + 1]
  <2>1. Len(q.fed) \in Nat
    BY <1>1
  <2>2. \E g : /\ g[0] = createRun(q.conduct)
               /\ \A i \in 1..Len(q.fed) : g[i] = Fed(g[i - 1], q.fed[i])
               /\ Uninterrupted(q) = g[Len(q.fed)]
    BY <2>1, UninterruptedSteps
  <2>3. QED
    BY <2>2
<1>5. f[n] = g[n]
  <2>1. f[0] = g[0]
    BY <1>2, <1>4
  <2> DEFINE a == r.fed
             b == q.fed
  <2>2. \A i \in 1..n : f[i] = Fed(f[i - 1], a[i])
    BY <1>2
  <2>3. ASSUME NEW i \in 1..n PROVE g[i] = Fed(g[i - 1], b[i])
    <3>1. i \in 1..(n + 1)
      BY <1>1
    <3>2. QED
      BY <1>4, <3>1
  <2>4. \A i \in 1..n : a[i] = b[i]
    OBVIOUS
  <2>5. \A i \in 1..n : g[i] = Fed(g[i - 1], b[i])
    BY <2>3
  <2> HIDE DEF a, b
  <2>6. QED
    BY ONLY n \in Nat, <2>1, <2>2, <2>4, <2>5, FoldsAgree
<1>6. g[n + 1] = Fed(g[n], x)
  <2>1. n + 1 \in 1..(n + 1) /\ n + 1 - 1 = n
    BY <1>1
  <2>2. g[n + 1] = Fed(g[n + 1 - 1], q.fed[n + 1])
    BY <1>1, <1>4, <2>1
  <2>3. QED
    BY <2>1, <2>2
<1>7. QED
  BY <1>2, <1>4, <1>5, <1>6

LEMMA UninterruptedGrows ==
  ASSUME NEW r, NEW q, IsSeq(r.fed), NEW x, q.conduct = r.conduct, q.fed = Append(r.fed, x)
  PROVE  Uninterrupted(q) = Fed(Uninterrupted(r), x)
<1> DEFINE n == Len(r.fed)
<1>1. n \in Nat
  BY SeqFacts
<1>2. /\ Len(q.fed) = n + 1 /\ q.fed[n + 1] = x
      /\ \A i \in 1..n : q.fed[i] = r.fed[i]
  BY Appended
<1>3. QED
  BY <1>1, <1>2, OneMoreTick

LEMMA InboxOwn ==
  ASSUME NEW r, IsRun(r)
  PROVE  [r EXCEPT !.inbox = r.inbox] = r
BY DEF IsRun

LEMMA StoryOfCreate ==
  ASSUME NEW c \in Conducts
  PROVE  Story(createRun(c))
<1> DEFINE fresh == [conduct |-> c, log |-> <<>>, state |-> InitialState, inbox |-> <<>>,
                     outbox |-> <<>>, reqs |-> 0, acts |-> 1, fed |-> <<>>, hashes |-> Absent]
           k == <<c, <<>>, <<>>>>
           made == createRun(c)
<1>1. Alike(fresh, fresh, k)
  <2>1. IsRun(fresh) /\ fresh.log = <<>> /\ fresh.state = InitialState
    BY DEF IsRun
  <2>2. IsFun(InitialState)
    BY DEF IsFun, InitialState
  <2>3. Rest(fresh) = k /\ fresh.conduct \in Conducts
    BY DEF Rest
  <2> HIDE DEF fresh, k
  <2>4. QED
    BY <2>1, <2>2, <2>3, EmptyIsSeq DEF Alike
<1>2. ASSUME NEW l1, NEW l2, NEW l3
      PROVE  LET one == emit(fresh, "ScenarioStarted", None, l1)
                 two == emit(one, "CommitmentCreated", None, l2)
                 three == emit(two, "ActionStarted", None, l3)
             IN Alike(three, three, k)
  <2> DEFINE one == emit(fresh, "ScenarioStarted", None, l1)
             two == emit(one, "CommitmentCreated", None, l2)
             three == emit(two, "ActionStarted", None, l3)
  <2> HIDE DEF fresh, k
  <2>1. Alike(one, one, k)
    BY <1>1, EmitTwins, TwinsAreAlike DEF Markers
  <2> HIDE DEF one
  <2>2. Alike(two, two, k)
    BY <2>1, EmitTwins, TwinsAreAlike DEF Markers
  <2> HIDE DEF two
  <2>3. Alike(three, three, k)
    BY <2>2, EmitTwins, TwinsAreAlike DEF Markers
  <2>4. QED
    BY <2>3 DEF one, two
<1>3. Alike(made, made, k)
  <2> DEFINE s == [mode |-> "work", category |-> CategoryOf["work"], firm |-> FALSE,
                   version |-> 2]
             l1 == [Blank EXCEPT !.provider = c]
             l2 == [Blank EXCEPT !.npc = Npc, !.peer = Peer]
             l3 == [Blank EXCEPT !.npc = Npc, !.act = 1, !.desc = s, !.choice = "scripted"]
  <2>1. made = emit(emit(emit(fresh, "ScenarioStarted", None, l1),
                         "CommitmentCreated", None, l2), "ActionStarted", None, l3)
    BY DEF createRun
  <2> HIDE DEF fresh, l1, l2, l3, made, k
  <2>2. QED
    BY <1>2, <2>1
<1> HIDE DEF fresh, made
<1>4. made.conduct = c /\ made.fed = <<>> /\ made.inbox = <<>> /\ Rest(made) = k
  BY <1>3, AlikeFacts DEF Rest
<1>5. Uninterrupted(made) = made
  <2>1. Len(made.fed) = 0
    BY <1>4
  <2>2. PICK f : f[0] = createRun(made.conduct) /\ Uninterrupted(made) = f[0]
    <3>1. Len(made.fed) \in Nat
      BY <2>1
    <3>2. QED
      BY <2>1, <3>1, UninterruptedSteps
  <2>3. QED
    BY <1>4, <2>2 DEF made
<1>6. IsRun(made)
  BY <1>3 DEF Alike
<1>7. Primed(made) = made
  BY <1>5, <1>6, InboxOwn DEF Primed
<1>8. Story(made)
  BY <1>3, <1>4, <1>5, <1>6, <1>7, EmptyIsSeq DEF Story
<1>9. QED
  BY <1>8 DEF made

LEMMA StoryTicks ==
  ASSUME NEW r, Story(r)
  PROVE  Story(stepTick(r))
<1>1. CASE r.state.terminal
  BY <1>1 DEF stepTick
<1>2. CASE ~r.state.terminal
  <2> DEFINE d == stepTick(r)
             p == stepTick(Primed(r))
             j == <<r.conduct, Append(r.fed, r.inbox), <<>>>>
  <2>1. Alike(r, Primed(r), Rest(r)) /\ IsSeq(r.inbox) /\ IsSeq(r.fed)
    BY DEF Story
  <2>2. Alike(d, p, j)
    BY <1>2, <2>1, TickAlike
  <2>3. p = Fed(Uninterrupted(r), r.inbox)
    BY DEF Primed, Fed
  <2> HIDE DEF d, p
  <2>4. d.conduct = r.conduct /\ d.fed = Append(r.fed, r.inbox) /\ d.inbox = <<>> /\ p.inbox = <<>>
    <3>1. j = <<d.conduct, d.fed, d.inbox>> /\ d.inbox = p.inbox
      BY <2>2, AlikeFacts
    <3>2. QED
      BY <3>1
  <2>5. Uninterrupted(d) = p
    BY <2>1, <2>3, <2>4, UninterruptedGrows
  <2>6. IsRun(p)
    BY <2>2 DEF Alike
  <2>7. Primed(d) = p
    BY <2>4, <2>5, <2>6, InboxOwn DEF Primed
  <2>8. Rest(d) = j
    BY <2>4 DEF Rest
  <2>9. IsSeq(d.fed) /\ IsSeq(d.inbox)
    BY <2>1, <2>4, Appended, EmptyIsSeq
  <2>10. Story(d)
    <3> HIDE DEF j
    <3>1. QED
      BY <2>2, <2>5, <2>6, <2>7, <2>8, <2>9 DEF Story
  <2>11. QED
    BY <2>10 DEF d
<1>3. QED
  BY <1>1, <1>2

LEMMA StoryOfBatch ==
  ASSUME NEW r, Story(r), NEW n \in Nat
  PROVE  Story(stepTicks(r, n))
<1>1. PICK f : /\ f[0] = r
               /\ \A i \in 1..n : f[i] = stepTick(f[i - 1])
               /\ stepTicks(r, n) = f[n]
  BY TicksSteps
<1> DEFINE T == {i \in 0..n : Story(f[i])}
<1>2. 0 \in T
  BY <1>1
<1>3. ASSUME NEW i \in 0..(n - 1), i \in T PROVE i + 1 \in T
  <2>1. i + 1 \in 1..n /\ i + 1 \in 0..n /\ i + 1 - 1 = i
    OBVIOUS
  <2>2. f[i + 1] = stepTick(f[i + 1 - 1])
    BY <1>1, <2>1
  <2>3. Story(f[i + 1])
    BY <1>3, <2>1, <2>2, StoryTicks
  <2>4. QED
    BY <2>1, <2>3
<1>4. n \in T
  <2> HIDE DEF T
  <2>1. n \in 0..n
    OBVIOUS
  <2>2. QED
    BY <1>2, <1>3, <2>1, UpTo
<1>5. QED
  BY <1>1, <1>4

\* Whatever keeps the run alike, its conduct, what was fed and the inbox.
LEMMA StoryKept ==
  ASSUME NEW r, Story(r), NEW d, Rest(d) = Rest(r), Alike(d, Primed(r), Rest(r))
  PROVE  Story(d)
<1>1. d.conduct = r.conduct /\ d.fed = r.fed /\ d.inbox = r.inbox
  BY DEF Rest
<1>2. Uninterrupted(d) = Uninterrupted(r)
  BY <1>1, UninterruptedSame DEF Story
<1>3. Primed(d) = Primed(r)
  BY <1>1, <1>2 DEF Primed
<1>4. QED
  BY <1>1, <1>2, <1>3 DEF Story

LEMMA StoryOfMarker ==
  ASSUME NEW r, Story(r), NEW type \in Markers
  PROVE  Story(appendMarker(r, type))
<1>1. CASE r.state.terminal
  BY <1>1 DEF appendMarker
<1>2. CASE ~r.state.terminal
  <2> DEFINE d == emit(r, type, None, Blank)
  <2>1. appendMarker(r, type) = d
    BY <1>2 DEF appendMarker
  <2>2. Alike(d, Primed(r), Rest(r))
    BY MarkerAlike DEF Story
  <2> HIDE DEF d
  <2>3. Rest(d) = Rest(r)
    BY <2>2 DEF Alike
  <2>4. QED
    BY <2>1, <2>2, <2>3, StoryKept
<1>3. QED
  BY <1>1, <1>2

LEMMA StoryOfSending ==
  ASSUME NEW r, Story(r)
  PROVE  Story([r EXCEPT !.outbox = <<>>])
<1> DEFINE d == [r EXCEPT !.outbox = <<>>]
<1>1. IsRun(r) /\ Alike(r, Primed(r), Rest(r))
  BY DEF Story, Alike
<1>2. Alike(d, Primed(r), Rest(r))
  BY <1>1 DEF Alike, IsRun, Rest
<1> HIDE DEF d
<1>3. Rest(d) = Rest(r)
  BY <1>2 DEF Alike
<1>4. Story(d)
  BY <1>2, <1>3, StoryKept
<1>5. QED
  BY <1>4 DEF d

\* An answer that is queued waits for the next tick, in both.
LEMMA StoryOfAnswer ==
  ASSUME NEW r, Story(r), NEW answer
  PROVE  Story([r EXCEPT !.inbox = Append(r.inbox, answer)])
<1> DEFINE x == Append(r.inbox, answer)
           d == [r EXCEPT !.inbox = x]
           u == Uninterrupted(r)
           p == [Primed(r) EXCEPT !.inbox = x]
<1>1. IsRun(r) /\ IsRun(u) /\ IsSeq(r.fed) /\ IsSeq(x)
  BY Appended DEF Story, Alike
<1> HIDE DEF x
<1>2. d.conduct = r.conduct /\ d.fed = r.fed /\ d.inbox = x
  BY <1>1 DEF IsRun
<1>3. p = [u EXCEPT !.inbox = x]
  BY <1>1 DEF IsRun, Primed
<1>4. Alike(d, p, <<r.conduct, r.fed, x>>)
  <2>1. Alike(r, Primed(r), <<r.conduct, r.fed, r.inbox>>)
    BY DEF Story, Rest
  <2>2. QED
    BY <2>1, InboxAlike
<1> HIDE DEF d, p, u
<1>5. Uninterrupted(d) = u
  BY <1>1, <1>2, UninterruptedSame DEF u
<1>6. Primed(d) = p
  BY <1>2, <1>3, <1>5 DEF Primed
<1>7. Rest(d) = <<r.conduct, r.fed, x>>
  BY <1>2 DEF Rest
<1>8. Story(d)
  BY <1>1, <1>2, <1>4, <1>5, <1>6, <1>7 DEF Story
<1>9. QED
  BY <1>8 DEF d, x

LEMMA StoryIsSame ==
  ASSUME NEW r, Story(r)
  PROVE  SameStory(r, Uninterrupted(r))
<1> DEFINE u == Uninterrupted(r)
<1>1. IsRun(u) /\ Primed(r) = [u EXCEPT !.inbox = r.inbox]
  BY DEF Story, Primed
<1> HIDE DEF u
<1>2. Primed(r).log = u.log /\ Primed(r).state = u.state
  BY <1>1 DEF IsRun
<1>3. r.state = Primed(r).state /\ Projection(r.log) = Projection(Primed(r).log)
  BY DEF Story, Alike
<1>4. QED
  BY <1>2, <1>3 DEF SameStory, u

-----------------------------------------------------------------------------
(* The worker: whatever it handles, its run stays the uninterrupted one.   *)

IsHost(h) == h = [run |-> h.run, imported |-> h.imported]
IsSession(s) == s = [status |-> s.status, sent |-> s.sent, announced |-> s.announced,
                     runSeq |-> s.runSeq]
IsOutcome(o) == o = [session |-> o.session, host |-> o.host, out |-> o.out]

\* A running session has a run.
Faithful(s, h) ==
  /\ IsSession(s) /\ IsHost(h)
  /\ Loaded(h) \/ s.status = "running" => Story(h.run)

Sound(o) == IsOutcome(o) /\ Faithful(o.session, o.host)
Running(o) == IsOutcome(o) /\ IsSession(o.session) /\ IsHost(o.host) /\ Story(o.host.run)

LEMMA RunningIsSound ==
  ASSUME NEW o, Running(o)
  PROVE  Sound(o)
BY DEF Running, Sound, Faithful

LEMMA OutcomeFields ==
  ASSUME NEW s, NEW h, NEW out
  PROVE  LET o == Outcome(s, h, out)
         IN IsOutcome(o) /\ o.session = s /\ o.host = h /\ o.out = out
BY DEF Outcome, IsOutcome

LEMMA SyncRuns ==
  ASSUME NEW o, Running(o)
  PROVE  Running(syncTerminalStatus(o))
<1> DEFINE d == [o EXCEPT !.session.status = "complete"]
<1>1. Running(d)
  <2>1. d.session = [o.session EXCEPT !.status = "complete"] /\ d.host = o.host /\ d.out = o.out
    BY DEF Running, IsOutcome
  <2>2. IsOutcome(d)
    BY DEF Running, IsOutcome
  <2>3. IsSession(d.session)
    BY <2>1 DEF Running, IsSession
  <2> HIDE DEF d
  <2>4. QED
    BY <2>1, <2>2, <2>3 DEF Running
<1>2. QED
  BY <1>1 DEF syncTerminalStatus

LEMMA SnapshotRuns ==
  ASSUME NEW o, Running(o)
  PROVE  Running(pushSnapshot(o))
<1>1. ASSUME NEW x PROVE Running([o EXCEPT !.out = x])
  BY DEF Running, IsOutcome
<1>2. QED
  BY <1>1 DEF pushSnapshot

LEMMA EventsRun ==
  ASSUME NEW o, Running(o)
  PROVE  Running(pushNewEvents(o))
<1>1. ASSUME NEW x, NEW y PROVE Running([o EXCEPT !.session.sent = x, !.out = y])
  <2> DEFINE next == [o.session EXCEPT !.sent = x]
             d == [o EXCEPT !.session.sent = x, !.out = y]
  <2>1. d = [o EXCEPT !.session = next, !.out = y]
    OBVIOUS
  <2> HIDE DEF d, next
  <2>2. d.session = next /\ d.host = o.host /\ d.out = y
    BY <2>1 DEF Running, IsOutcome
  <2>3. IsOutcome(d)
    BY <2>1 DEF Running, IsOutcome
  <2>4. IsSession(d.session)
    BY <2>2 DEF Running, IsSession, next
  <2>5. Running(d)
    BY <2>2, <2>3, <2>4 DEF Running
  <2>6. QED
    BY <2>5 DEF d
<1>2. QED
  BY <1>1 DEF pushNewEvents

LEMMA RequestsRun ==
  ASSUME NEW o, Running(o)
  PROVE  Running(pushExternalDecisionRequests(o))
<1>1. ASSUME NEW x PROVE Running([o EXCEPT !.host.run.outbox = <<>>, !.out = x])
  <2> DEFINE d == [o EXCEPT !.host.run.outbox = <<>>, !.out = x]
             left == [o.host.run EXCEPT !.outbox = <<>>]
             next == [o.host EXCEPT !.run = left]
  <2>1. d = [o EXCEPT !.host = next, !.out = x]
    OBVIOUS
  <2>2. Story(left)
    BY StoryOfSending DEF Running
  <2> HIDE DEF d, left, next
  <2>3. d.session = o.session /\ d.host = next /\ d.out = x
    BY <2>1 DEF Running, IsOutcome
  <2>4. IsOutcome(d)
    BY <2>1 DEF Running, IsOutcome
  <2>5. IsHost(d.host) /\ d.host.run = left
    BY <2>3 DEF Running, IsHost, next
  <2>6. Running(d)
    BY <2>3, <2>4, <2>2, <2>5 DEF Running
  <2>7. QED
    BY <2>6 DEF d
<1>2. QED
  BY <1>1 DEF pushExternalDecisionRequests

LEMMA AnnounceRuns ==
  ASSUME NEW o, Running(o)
  PROVE  Running(maybeAnnounceCompletion(o))
<1>1. ASSUME NEW x PROVE Running([o EXCEPT !.session.announced = TRUE, !.out = x])
  <2> DEFINE next == [o.session EXCEPT !.announced = TRUE]
             d == [o EXCEPT !.session.announced = TRUE, !.out = x]
  <2>1. d = [o EXCEPT !.session = next, !.out = x]
    OBVIOUS
  <2> HIDE DEF d, next
  <2>2. d.session = next /\ d.host = o.host /\ d.out = x
    BY <2>1 DEF Running, IsOutcome
  <2>3. IsOutcome(d)
    BY <2>1 DEF Running, IsOutcome
  <2>4. IsSession(d.session)
    BY <2>2 DEF Running, IsSession, next
  <2>5. Running(d)
    BY <2>2, <2>3, <2>4 DEF Running
  <2>6. QED
    BY <2>5 DEF d
<1>2. QED
  BY <1>1 DEF maybeAnnounceCompletion

LEMMA RefreshRuns ==
  ASSUME NEW o, Running(o)
  PROVE  Running(refreshAfterMutation(o))
BY SyncRuns, SnapshotRuns, EventsRun, RequestsRun DEF refreshAfterMutation

LEMMA BatchRuns ==
  ASSUME NEW o, Running(o)
  PROVE  Running(afterTickBatch(o))
BY RefreshRuns, AnnounceRuns DEF afterTickBatch

LEMMA OnRunFields ==
  ASSUME NEW h, IsHost(h), NEW run
  PROVE  IsHost(OnRun(h, run)) /\ OnRun(h, run).run = run
BY DEF IsHost, OnRun

LEMMA OutcomeRuns ==
  ASSUME NEW s, IsSession(s), NEW h, IsHost(h), Story(h.run), NEW out
  PROVE  Running(Outcome(s, h, out))
BY OutcomeFields DEF Running

LEMMA SteppedRuns ==
  ASSUME NEW s, IsSession(s), NEW h, IsHost(h), Story(h.run), NEW n \in Nat
  PROVE  Running(Stepped(s, h, stepTicks(h.run, n)))
<1> DEFINE run == stepTicks(h.run, n)
<1>1. Story(run)
  BY StoryOfBatch
<1> HIDE DEF run
<1>2. Running(Outcome(s, OnRun(h, run), <<>>))
  BY <1>1, OnRunFields, OutcomeRuns
<1>3. QED
  BY <1>2, BatchRuns DEF Stepped, run

LEMMA RefreshedRuns ==
  ASSUME NEW s, IsSession(s), NEW h, IsHost(h), Story(h.run)
  PROVE  Running(Refreshed(s, h))
BY OutcomeRuns, RefreshRuns DEF Refreshed

LEMMA NewRunRuns ==
  ASSUME NEW s, NEW h, IsHost(h), NEW c \in Conducts
  PROVE  Running(NewRun(s, h, c))
<1> DEFINE run == createRun(c)
<1>1. Story(run)
  BY StoryOfCreate
<1> HIDE DEF run
<1>2. IsSession(Fresh(s))
  BY DEF IsSession, Fresh
<1>3. Running(Outcome(Fresh(s), OnRun(h, run), <<>>))
  BY <1>1, <1>2, OnRunFields, OutcomeRuns
<1>4. QED
  BY <1>3, RefreshRuns DEF NewRun, run

LEMMA StatusFields ==
  ASSUME NEW s, IsSession(s), NEW x
  PROVE  IsSession([s EXCEPT !.status = x]) /\ [s EXCEPT !.status = x].status = x
BY DEF IsSession

LEMMA DuringFields ==
  ASSUME NEW s, NEW h, NEW status, NEW done, Faithful(s, h)
  PROVE  Sound(During(Outcome(s, h, <<>>), status, done))
<1>1. ASSUME NEW x, NEW o, Sound(o) PROVE Sound([o EXCEPT !.out = x])
  BY <1>1 DEF Sound, IsOutcome
<1>2. Sound(Outcome(s, h, <<>>))
  BY OutcomeFields DEF Sound
<1>3. ASSUME NEW o, Sound(o) PROVE Sound(pushSnapshot(o))
  BY <1>1, <1>3 DEF pushSnapshot
<1>4. QED
  BY <1>1, <1>2, <1>3 DEF During

-----------------------------------------------------------------------------
(* The commands.                                                           *)

Fits(c) ==
  /\ c.type \in NeedsRun \cup {"hello", "load-scenario", "import-ledger", "replay"}
  /\ c.type = "load-scenario" => c.conduct \in Conducts
  /\ c.type = "step" => c.ticks \in Nat

Fitting(queue) == IsSeq(queue) /\ \A i \in 1..Len(queue) : Fits(queue[i])

LEMMA HandledSoundly ==
  ASSUME NEW s, NEW h, Faithful(s, h), NEW c, Fits(c)
  PROVE  Sound(handleCommand(s, h, c))
<1> DEFINE o == handleCommand(s, h, c)
<1>1. /\ IsSession(s) /\ IsHost(h)
      /\ Loaded(h) => Story(h.run)
  BY DEF Faithful
<1>2. ASSUME NEW out PROVE Sound(Outcome(s, h, out))
  BY OutcomeFields DEF Sound
<1>3. CASE c.type = "hello"
  <2>1. o = Outcome(s, h, <<[type |-> "ready"]>>)
    BY <1>3 DEF handleCommand, NeedsRun
  <2>2. QED
    BY <1>2, <2>1
<1>4. CASE c.type = "load-scenario"
  <2>1. o = NewRun(s, h, c.conduct)
    BY <1>4 DEF handleCommand, NeedsRun
  <2>2. c.conduct \in Conducts
    BY <1>4 DEF Fits
  <2>3. QED
    BY <1>1, <2>1, <2>2, NewRunRuns, RunningIsSound
<1>5. CASE c.type \in NeedsRun /\ ~Loaded(h)
  <2>1. o = Outcome(s, h, <<>>)
    BY <1>5 DEF handleCommand, NeedsRun
  <2>2. QED
    BY <1>2, <2>1
<1>6. CASE c.type = "reset" /\ Loaded(h)
  <2>1. o = NewRun(s, h, h.run.conduct)
    BY <1>6 DEF handleCommand, NeedsRun
  <2>2. h.run.conduct \in Conducts
    BY <1>1, <1>6 DEF Story, Alike
  <2>3. QED
    BY <1>1, <2>1, <2>2, NewRunRuns, RunningIsSound
<1>7. CASE c.type = "start" /\ Loaded(h)
  <2> DEFINE t == [s EXCEPT !.status = "running"]
  <2>1. o = IF Terminal(h) THEN Outcome(s, h, <<>>) ELSE pushSnapshot(Outcome(t, h, <<>>))
    BY <1>7 DEF handleCommand, NeedsRun
  <2>2. IsSession(t)
    BY <1>1, StatusFields
  <2> HIDE DEF t
  <2>3. Sound(pushSnapshot(Outcome(t, h, <<>>)))
    BY <1>1, <1>7, <2>2, OutcomeRuns, SnapshotRuns, RunningIsSound
  <2>4. QED
    BY <1>2, <2>1, <2>3
<1>8. ASSUME Loaded(h), NEW x, NEW type \in Markers
      PROVE  Sound(Refreshed([s EXCEPT !.status = x], OnRun(h, appendMarker(h.run, type))))
  <2> DEFINE run == appendMarker(h.run, type)
             t == [s EXCEPT !.status = x]
  <2>1. Story(run)
    BY <1>1, <1>8, StoryOfMarker
  <2>2. IsSession(t)
    BY <1>1, StatusFields
  <2> HIDE DEF run, t
  <2>3. IsHost(OnRun(h, run)) /\ OnRun(h, run).run = run
    BY <1>1, OnRunFields
  <2>4. Sound(Refreshed(t, OnRun(h, run)))
    BY <2>1, <2>2, <2>3, RefreshedRuns, RunningIsSound
  <2>5. QED
    BY <2>4 DEF run, t
<1>9. ASSUME Loaded(h) PROVE Sound(Refreshed(s, h))
  BY <1>1, <1>9, RefreshedRuns, RunningIsSound
<1>10. CASE c.type = "pause" /\ Loaded(h)
  <2>1. o = IF s.status # "running" THEN Refreshed(s, h)
            ELSE Refreshed([s EXCEPT !.status = "paused"],
                           OnRun(h, appendMarker(h.run, "SimulationPaused")))
    BY <1>10 DEF handleCommand, NeedsRun
  <2>2. "SimulationPaused" \in Markers
    BY DEF Markers
  <2>3. QED
    BY <1>8, <1>9, <1>10, <2>1, <2>2
<1>11. CASE c.type = "resume" /\ Loaded(h)
  <2>1. o = IF s.status # "paused" THEN Refreshed(s, h)
            ELSE Refreshed([s EXCEPT !.status = "running"],
                           OnRun(h, appendMarker(h.run, "SimulationResumed")))
    BY <1>11 DEF handleCommand, NeedsRun
  <2>2. "SimulationResumed" \in Markers
    BY DEF Markers
  <2>3. QED
    BY <1>8, <1>9, <1>11, <2>1, <2>2
<1>12. CASE c.type = "step" /\ Loaded(h)
  <2>1. o = IF s.status = "running" THEN Outcome(s, h, <<>>)
            ELSE Stepped(s, h, stepTicks(h.run, c.ticks))
    BY <1>12 DEF handleCommand, NeedsRun
  <2>2. c.ticks \in Nat
    BY <1>12 DEF Fits
  <2>3. QED
    BY <1>1, <1>2, <1>12, <2>1, <2>2, SteppedRuns, RunningIsSound
<1>13. CASE c.type = "run-to-completion" /\ Loaded(h)
  <2> DEFINE t == [s EXCEPT !.status = "complete"]
  <2>1. o = Stepped(t, h, stepTicks(h.run, EndTick + 1))
    BY <1>13 DEF handleCommand, NeedsRun
  <2>2. IsSession(t)
    BY <1>1, StatusFields
  <2>3. EndTick + 1 \in Nat
    BY TickAssumption
  <2> HIDE DEF t
  <2>4. QED
    BY <1>1, <1>13, <2>1, <2>2, <2>3, SteppedRuns, RunningIsSound
<1>14. CASE c.type = "export-ledger" /\ Loaded(h)
  <2>1. \E out : o = Outcome(s, h, out)
    BY <1>14 DEF handleCommand, NeedsRun
  <2>2. QED
    BY <1>2, <2>1
<1>15. CASE c.type = "import-ledger"
  <2> DEFINE after == importLedger(h, c.file)
  <2>1. \E done : o = During(Outcome(s, after, <<>>), "importing", done)
    BY <1>15 DEF handleCommand, NeedsRun
  <2>2. IsHost(after) /\ after.run = h.run
    BY <1>1 DEF importLedger, IsHost
  <2> HIDE DEF after
  <2>3. Faithful(s, after)
    BY <2>2 DEF Faithful, Loaded
  <2>4. QED
    BY <2>1, <2>3, DuringFields
<1>16. CASE c.type = "replay"
  <2>1. \E done : o = During(Outcome(s, h, <<>>), "replaying", done)
    BY <1>16 DEF handleCommand, NeedsRun
  <2>2. QED
    BY <2>1, DuringFields
<1>17. CASE c.type \in {"submit-decision-response", "submit-decision-failure"} /\ Loaded(h)
  <2> DEFINE run == [h.run EXCEPT !.inbox = Append(h.run.inbox, c.answer)]
             after == [h EXCEPT !.run = run]
  <2>1. o = IF Terminal(h) THEN Outcome(s, h, <<>>) ELSE Outcome(s, after, <<>>)
    BY <1>17 DEF handleCommand, NeedsRun
  <2>2. Story(run)
    BY <1>1, <1>17, StoryOfAnswer
  <2> HIDE DEF run
  <2>3. IsHost(after) /\ after.run = run
    BY <1>1 DEF IsHost
  <2> HIDE DEF after
  <2>4. Sound(Outcome(s, after, <<>>))
    BY <1>1, <2>2, <2>3, OutcomeRuns, RunningIsSound
  <2>5. QED
    BY <1>2, <2>1, <2>4
<1>18. \/ c.type \in {"hello", "load-scenario", "import-ledger", "replay"}
       \/ c.type \in NeedsRun /\ ~Loaded(h)
       \/ c.type \in {"start", "pause", "resume", "step", "run-to-completion", "reset",
                      "export-ledger", "submit-decision-response",
                      "submit-decision-failure"} /\ Loaded(h)
  BY DEF Fits, NeedsRun
<1>19. QED
  BY <1>3, <1>4, <1>5, <1>6, <1>7, <1>10, <1>11, <1>12, <1>13, <1>14, <1>15, <1>16, <1>17, <1>18

\* A command keeps its fields when it is numbered.
LEMMA SequencedFits ==
  ASSUME NEW c, NEW n, Fits(c), "type" \in DOMAIN c,
         c.type = "load-scenario" => "conduct" \in DOMAIN c,
         c.type = "step" => "ticks" \in DOMAIN c
  PROVE  Fits(Sequenced(c, n))
<1> DEFINE d == Sequenced(c, n)
<1>1. ASSUME NEW x \in DOMAIN c, x # "seq" PROVE d[x] = c[x]
  BY <1>1 DEF Sequenced
<1> HIDE DEF d
<1>2. d.type = c.type
  BY <1>1
<1>3. c.type = "load-scenario" => d.conduct = c.conduct
  BY <1>1
<1>4. c.type = "step" => d.ticks = c.ticks
  BY <1>1
<1>5. Fits(d)
  BY <1>2, <1>3, <1>4 DEF Fits
<1>6. QED
  BY <1>5 DEF d

LEMMA FittingGrows ==
  ASSUME NEW queue, Fitting(queue), NEW c, Fits(c)
  PROVE  Fitting(Append(queue, c))
<1>1. IsSeq(queue) /\ Len(queue) \in Nat
  BY SeqFacts DEF Fitting
<1> DEFINE more == Append(queue, c)
<1>2. /\ IsSeq(more) /\ Len(more) = Len(queue) + 1 /\ more[Len(queue) + 1] = c
      /\ \A i \in 1..Len(queue) : more[i] = queue[i]
  BY <1>1, Appended
<1> HIDE DEF more
<1>3. ASSUME NEW i \in 1..Len(more) PROVE Fits(more[i])
  <2>1. i \in 1..Len(queue) \/ i = Len(queue) + 1
    BY <1>1, <1>2
  <2>2. QED
    BY <1>2, <2>1 DEF Fitting
<1>4. Fitting(more)
  BY <1>2, <1>3 DEF Fitting
<1>5. QED
  BY <1>4 DEF more

LEMMA FittingShrinks ==
  ASSUME NEW queue, Fitting(queue), queue # <<>>
  PROVE  Fits(Head(queue)) /\ Fitting(Tail(queue))
<1>1. PICK S : queue \in Seq(S)
  BY DEF Fitting, IsSeq
<1>2. Len(queue) \in Nat /\ Len(queue) # 0
  BY <1>1
<1>3. Head(queue) = queue[1]
  BY <1>1
<1>4. /\ Tail(queue) \in Seq(S) /\ Len(Tail(queue)) = Len(queue) - 1
      /\ \A i \in 1..(Len(queue) - 1) : Tail(queue)[i] = queue[i + 1]
  BY <1>1, <1>2
<1>5. Fits(Head(queue))
  <2>1. 1 \in 1..Len(queue)
    BY <1>2
  <2>2. QED
    BY <1>3, <2>1 DEF Fitting
<1>6. ASSUME NEW i \in 1..Len(Tail(queue)) PROVE Fits(Tail(queue)[i])
  <2>1. i \in 1..(Len(queue) - 1) /\ i + 1 \in 1..Len(queue)
    BY <1>2, <1>4
  <2>2. QED
    BY <1>4, <2>1 DEF Fitting
<1>7. QED
  BY <1>4, <1>5, <1>6 DEF Fitting, IsSeq

LEMMA PostFits ==
  ASSUME NEW p, NEW c, Post(p, c), Fitting(toWorker), Fits(c), "type" \in DOMAIN c,
         c.type = "load-scenario" => "conduct" \in DOMAIN c,
         c.type = "step" => "ticks" \in DOMAIN c
  PROVE  Fitting(toWorker')
<1>1. Fits(Sequenced(c, p.sent + 1))
  BY SequencedFits
<1>2. QED
  BY <1>1, FittingGrows DEF Post

-----------------------------------------------------------------------------
(* The theorem.                                                            *)

SessionInv == Faithful(session, host) /\ Fitting(toWorker)

LEMMA SessionInit == Init => SessionInv
<1> SUFFICES ASSUME Init PROVE SessionInv
  OBVIOUS
<1> DEFINE hello == [type |-> "hello", seq |-> 1]
<1>1. Faithful(session, host)
  BY DEF Init, Faithful, IsSession, IsHost, Loaded
<1>2. Fits(hello)
  BY DEF Fits
<1>3. toWorker = Append(<<>>, hello)
  BY DEF Init
<1>4. Fitting(<<>>)
  <2>1. Len(<<>>) = 0
    OBVIOUS
  <2>2. QED
    BY <2>1, EmptyIsSeq DEF Fitting
<1> HIDE DEF hello
<1>5. Fitting(toWorker)
  BY <1>2, <1>3, <1>4, FittingGrows
<1>6. QED
  BY <1>1, <1>5 DEF SessionInv

LEMMA SessionStep == SessionInv /\ [Next]_vars => SessionInv'
<1> SUFFICES ASSUME SessionInv, [Next]_vars PROVE SessionInv'
  OBVIOUS
<1>1. Faithful(session, host) /\ Fitting(toWorker)
  BY DEF SessionInv
<1>2. ASSUME UNCHANGED <<session, host>>, Fitting(toWorker') PROVE SessionInv'
  BY <1>1, <1>2 DEF SessionInv
<1>3. ASSUME NEW o, Sound(o), Becomes(o), Fitting(toWorker') PROVE SessionInv'
  BY <1>3 DEF Sound, Becomes, SessionInv
<1>4. ASSUME UNCHANGED <<session, host, toWorker>> PROVE SessionInv'
  BY <1>1, <1>4 DEF SessionInv
<1>5. CASE Execute
  <2>1. Fits(Head(toWorker)) /\ Fitting(Tail(toWorker))
    BY <1>1, <1>5, FittingShrinks DEF Execute
  <2>2. Sound(handleCommand(session, host, Head(toWorker)))
    BY <1>1, <2>1, HandledSoundly
  <2>3. Becomes(handleCommand(session, host, Head(toWorker))) /\ toWorker' = Tail(toWorker)
    BY <1>5 DEF Execute
  <2>4. QED
    BY <1>3, <2>1, <2>2, <2>3
<1>6. CASE Refuse
  <2>1. Fitting(Tail(toWorker))
    BY <1>1, <1>6, FittingShrinks DEF Refuse
  <2>2. QED
    BY <1>2, <1>6, <2>1 DEF Refuse
<1>7. CASE Pump
  <2>1. PICK n \in 1..MaxBatch : Becomes(Stepped(session, host, stepTicks(host.run, n)))
    BY <1>7 DEF Pump
  <2>2. n \in Nat
    BY WorkerAssumption
  <2>3. IsSession(session) /\ IsHost(host) /\ Story(host.run)
    BY <1>1, <1>7 DEF Pump, Faithful
  <2>4. Sound(Stepped(session, host, stepTicks(host.run, n)))
    BY <2>2, <2>3, SteppedRuns, RunningIsSound
  <2>5. Fitting(toWorker')
    BY <1>1, <1>7 DEF Pump
  <2>6. QED
    BY <1>3, <2>1, <2>4, <2>5
<1>8. CASE LoadScenario
  <2>1. PICK c \in Loads : Post(NewView(page), [type |-> "load-scenario", conduct |-> c])
    BY <1>8 DEF LoadScenario
  <2>2. Fits([type |-> "load-scenario", conduct |-> c])
    BY WorkerAssumption DEF Fits
  <2>3. Fitting(toWorker')
    BY <1>1, <2>1, <2>2, PostFits
  <2>4. QED
    BY <1>2, <1>8, <2>3 DEF LoadScenario, Click
<1>9. ASSUME NEW p, NEW type \in NeedsRun \ {"step"}, Post(p, [type |-> type])
      PROVE  Fitting(toWorker')
  <2>1. Fits([type |-> type])
    BY DEF Fits, NeedsRun
  <2>2. type # "load-scenario" /\ type # "step"
    BY DEF NeedsRun
  <2>3. QED
    BY <1>1, <1>9, <2>1, <2>2, PostFits
<1>10. CASE Reset
  <2>1. "reset" \in NeedsRun \ {"step"}
    BY DEF NeedsRun
  <2>2. QED
    BY <1>2, <1>9, <1>10, <2>1 DEF Reset, Click
<1>11. CASE Start
  <2>1. "start" \in NeedsRun \ {"step"}
    BY DEF NeedsRun
  <2>2. QED
    BY <1>2, <1>9, <1>11, <2>1 DEF Start, Click
<1>12. CASE Step
  <2>1. PICK n \in 1..MaxBatch : Post(page, [type |-> "step", ticks |-> n])
    BY <1>12 DEF Step
  <2>2. Fits([type |-> "step", ticks |-> n])
    BY WorkerAssumption DEF Fits, NeedsRun
  <2>3. Fitting(toWorker')
    BY <1>1, <2>1, <2>2, PostFits
  <2>4. QED
    BY <1>2, <1>12, <2>3 DEF Step, Click
<1>13. CASE Pause
  <2>1. "pause" \in NeedsRun \ {"step"}
    BY DEF NeedsRun
  <2>2. QED
    BY <1>2, <1>9, <1>13, <2>1 DEF Pause, Click
<1>14. CASE Resume
  <2>1. "resume" \in NeedsRun \ {"step"}
    BY DEF NeedsRun
  <2>2. QED
    BY <1>2, <1>9, <1>14, <2>1 DEF Resume, Click
<1>15. CASE RunToCompletion
  <2>1. "run-to-completion" \in NeedsRun \ {"step"}
    BY DEF NeedsRun
  <2>2. QED
    BY <1>2, <1>9, <1>15, <2>1 DEF RunToCompletion, Click
<1>16. CASE Export
  <2>1. "export-ledger" \in NeedsRun \ {"step"}
    BY DEF NeedsRun
  <2>2. QED
    BY <1>2, <1>9, <1>16, <2>1 DEF Export, Click
<1>17. CASE Replay
  <2>1. PICK p, source : Post(p, [type |-> "replay", source |-> source])
    BY <1>17 DEF Replay
  <2>2. Fits([type |-> "replay", source |-> source])
    BY DEF Fits
  <2>3. Fitting(toWorker')
    BY <1>1, <2>1, <2>2, PostFits
  <2>4. QED
    BY <1>2, <1>17, <2>3 DEF Replay, Click
<1>18. CASE Import
  <2>1. PICK p, file : Post(p, [type |-> "import-ledger", file |-> file])
    BY <1>18 DEF Import
  <2>2. Fits([type |-> "import-ledger", file |-> file])
    BY DEF Fits
  <2>3. Fitting(toWorker')
    BY <1>1, <2>1, <2>2, PostFits
  <2>4. QED
    BY <1>2, <1>18, <2>3 DEF Import, Click
<1>19. CASE Answer
  <2>1. PICK p, type, answer :
          /\ type \in {"submit-decision-failure", "submit-decision-response"}
          /\ Post(p, [type |-> type, answer |-> answer])
    <3>1. PICK req \in page.asked, choice \in {"walk", None} :
            Post([page EXCEPT !.asked = @ \ {req}],
                 [type |-> IF choice = None THEN "submit-decision-failure"
                                            ELSE "submit-decision-response",
                  answer |-> [req |-> req, provider |-> "defers", rid |-> <<req, "gw">>,
                              choice |-> choice]])
      BY <1>19 DEF Answer
    <3> DEFINE asking == [page EXCEPT !.asked = @ \ {req}]
               said == [req |-> req, provider |-> "defers", rid |-> <<req, "gw">>,
                        choice |-> choice]
    <3>2. Post(asking, [type |-> IF choice = None THEN "submit-decision-failure"
                                                  ELSE "submit-decision-response",
                        answer |-> said])
      BY <3>1
    <3> HIDE DEF asking, said
    <3>3. CASE choice = None
      BY <3>2, <3>3
    <3>4. CASE choice # None
      <4>1. Post(asking, [type |-> "submit-decision-response", answer |-> said])
        BY <3>2, <3>4
      <4>2. QED
        BY <4>1
    <3>5. QED
      BY <3>3, <3>4
  <2>2. Fits([type |-> type, answer |-> answer]) /\ type # "load-scenario" /\ type # "step"
    BY <2>1 DEF Fits, NeedsRun
  <2>3. Fitting(toWorker')
    BY <1>1, <2>1, <2>2, PostFits
  <2>4. QED
    BY <1>2, <1>19, <2>3 DEF Answer
<1>20. CASE Ready
  <2>1. Fits([type |-> "load-scenario", conduct |-> "answers"])
    BY DEF Fits, Conducts
  <2>2. Fitting(toWorker')
    BY <1>1, <1>20, <2>1, PostFits DEF Ready
  <2>3. QED
    BY <1>2, <1>20, <2>2 DEF Ready, Told
<1>21. CASE ShowSnapshot \/ appendEvents \/ ForwardRequest \/ StampCompletion
            \/ Download \/ ShowImport \/ ShowReplay
  BY <1>4, <1>21 DEF ShowSnapshot, appendEvents, ForwardRequest, StampCompletion, Download,
                     ShowImport, ShowReplay, Told
<1>22. CASE Redeliver
  <2>1. Fitting(toWorker')
    BY <1>1, <1>22, FittingShrinks, FittingGrows DEF Redeliver
  <2>2. QED
    BY <1>2, <1>22, <2>1 DEF Redeliver
<1>23. CASE UNCHANGED vars
  BY <1>4, <1>23 DEF vars
<1>24. QED
  BY <1>5, <1>6, <1>7, <1>8, <1>10, <1>11, <1>12, <1>13, <1>14, <1>15, <1>16, <1>17, <1>18,
     <1>19, <1>20, <1>21, <1>22, <1>23 DEF Next

\* Pausing, resuming, the size of a batch, a reset, an import or a command delivered
\* twice: at every moment the run is the one the same answers give when nobody touches
\* the controls (host.ts, simWorker.ts).
THEOREM ControlsTellNoStory == Spec => []PausingChangesNothing
<1>1. SessionInv => PausingChangesNothing
  BY StoryIsSame DEF SessionInv, Faithful, PausingChangesNothing
<1>2. QED
  BY <1>1, SessionInit, SessionStep, PTL DEF Spec

-----------------------------------------------------------------------------
(* What a page shows.  First the engine: a run is never refused by its     *)
(* reducer, and every tick takes it on by one until it is over.            *)

IsState(s) ==
  s = [tick |-> s.tick, version |-> s.version, plan |-> s.plan, open |-> s.open,
       action |-> s.action, flagged |-> s.flagged, transit |-> s.transit,
       promise |-> s.promise, outcome |-> s.outcome, terminal |-> s.terminal,
       aborted |-> s.aborted]

IsOpen(o) ==
  o = [req |-> o.req, provider |-> o.provider, offers |-> o.offers, expires |-> o.expires,
       seen |-> o.seen]

\* A state at tick t, not at the end of the scenario.
Alive(s, t, promise) ==
  /\ IsState(s) /\ (s.open # Absent => IsOpen(s.open))
  /\ s.tick = t /\ s.promise = promise /\ s.outcome = "pending"
  /\ s.terminal = FALSE /\ s.aborted = FALSE

SameAsk(s, t) ==
  /\ s.open = Absent <=> t.open = Absent
  /\ s.open # Absent => t.open.req = s.open.req

\* All but the flag, the action and the transit.
Untouched(s, u) ==
  /\ IsState(u) /\ u.open = s.open /\ u.tick = s.tick /\ u.promise = s.promise
  /\ u.outcome = s.outcome /\ u.terminal = s.terminal /\ u.aborted = s.aborted

\* The events no guard of the reducer looks at.
Calm == {"DecisionResponseReceived", "DecisionResponseRejected", "DecisionProviderFailed",
         "FallbackDecisionUsed", "ActionProposed", "ActionStarted", "ActionCompleted",
         "ActionInterrupted", "MovementStarted", "MovementCompleted", "PerceptionRecorded",
         "SimulationPaused", "SimulationResumed"}

LEMMA OpensAreRecords ==
  ASSUME NEW o, IsOpen(o)
  PROVE  o # Absent
BY DEF IsOpen, Absent

LEMMA VersionAside ==
  ASSUME NEW s, IsState(s), NEW v
  PROVE  LET u == [s EXCEPT !.version = v]
         IN /\ IsState(u) /\ u.open = s.open /\ u.tick = s.tick /\ u.promise = s.promise
            /\ u.outcome = s.outcome /\ u.terminal = s.terminal /\ u.aborted = s.aborted
BY DEF IsState

\* An event that does not throw has its effect.
LEMMA Accounted ==
  ASSUME NEW s, NEW e, s.aborted = FALSE, ~Throws(s, e), IsState(Effect(s, e))
  PROVE  LET u == applyEvent(s, e)
             d == Effect(s, e)
         IN /\ IsState(u) /\ u.open = d.open /\ u.tick = d.tick /\ u.promise = d.promise
            /\ u.outcome = d.outcome /\ u.terminal = d.terminal /\ u.aborted = d.aborted
<1> DEFINE d == Effect(s, e)
           v == IF Counts(e) THEN d.version + 1 ELSE d.version
<1>1. applyEvent(s, e) = [d EXCEPT !.version = v]
  BY DEF applyEvent
<1> HIDE DEF d, v
<1>2. IsState(d)
  BY DEF d
<1>3. QED
  BY <1>1, <1>2, VersionAside DEF d

LEMMA AliveAfter ==
  ASSUME NEW s, NEW e, s.aborted = FALSE, ~Throws(s, e),
         NEW t, NEW promise, Alive(Effect(s, e), t, promise)
  PROVE  /\ Alive(applyEvent(s, e), t, promise)
         /\ applyEvent(s, e).open = Effect(s, e).open
<1>1. IsState(Effect(s, e))
  BY DEF Alive
<1>2. QED
  BY <1>1, Accounted DEF Alive

LEMMA CalmEffect ==
  ASSUME NEW s, NEW t, NEW promise, Alive(s, t, promise), NEW e, e.type \in Calm
  PROVE  Alive(applyEvent(s, e), t, promise) /\ SameAsk(s, applyEvent(s, e))
<1> DEFINE u == Effect(s, e)
<1>1. ~Throws(s, e) /\ s.aborted = FALSE
  BY DEF Throws, Calm, Settlements, Alive
<1>2. Alive(u, t, promise) /\ SameAsk(s, u)
  <2>1. IsState(s)
    BY DEF Alive
  <2>2. CASE e.type = "DecisionResponseReceived"
    <3>1. CASE s.open # Absent /\ s.open.req = e.load.req
      <4> DEFINE o == [s.open EXCEPT !.seen = s.open.seen \cup {e.load.rid}]
      <4>1. u = [s EXCEPT !.open = o]
        BY <2>2, <3>1 DEF Effect, Settlements
      <4>2. IsOpen(o) /\ o.req = s.open.req
        BY <3>1 DEF Alive, IsOpen
      <4>3. o # Absent
        BY <4>2, OpensAreRecords
      <4> HIDE DEF o, u
      <4>4. IsState(u) /\ u.open = o /\ u.tick = s.tick /\ u.promise = s.promise
            /\ u.outcome = s.outcome /\ u.terminal = s.terminal /\ u.aborted = s.aborted
        BY <2>1, <4>1 DEF IsState
      <4>5. QED
        BY <3>1, <4>2, <4>3, <4>4 DEF Alive, SameAsk
    <3>2. CASE ~(s.open # Absent /\ s.open.req = e.load.req)
      <4>1. u = s
        BY <2>2, <3>2 DEF Effect, Settlements
      <4>2. QED
        BY <4>1 DEF SameAsk
    <3>3. QED
      BY <3>1, <3>2
  <2>3. CASE e.type \in {"DecisionResponseRejected", "DecisionProviderFailed",
                         "FallbackDecisionUsed", "ActionProposed", "SimulationPaused",
                         "SimulationResumed"}
    <3>1. u = s
      BY <2>3 DEF Effect, Settlements
    <3>2. QED
      BY <3>1 DEF SameAsk
  <2>4. CASE e.type \in {"ActionStarted", "ActionCompleted", "ActionInterrupted",
                         "MovementStarted", "MovementCompleted", "PerceptionRecorded"}
    <3>1. Untouched(s, u)
      <4>1. CASE e.type = "ActionStarted"
        <5>1. PICK a : u = [s EXCEPT !.action = a]
          BY <4>1 DEF Effect, Settlements
        <5> HIDE DEF u
        <5>2. QED
          BY <2>1, <5>1 DEF IsState, Untouched
      <4>2. CASE e.type = "ActionCompleted"
        <5>1. u = [s EXCEPT !.action = None]
          BY <4>2 DEF Effect, Settlements
        <5> HIDE DEF u
        <5>2. QED
          BY <2>1, <5>1 DEF IsState, Untouched
      <4>3. CASE e.type = "ActionInterrupted"
        <5>1. PICK a : u = [s EXCEPT !.action = a, !.flagged = TRUE]
          BY <4>3 DEF Effect, Settlements
        <5> HIDE DEF u
        <5>2. QED
          BY <2>1, <5>1 DEF IsState, Untouched
      <4>4. CASE e.type = "MovementStarted"
        <5>1. PICK a, x : u = [s EXCEPT !.transit = x, !.action = a]
          BY <4>4 DEF Effect, Settlements
        <5> HIDE DEF u
        <5>2. QED
          BY <2>1, <5>1 DEF IsState, Untouched
      <4>5. CASE e.type = "MovementCompleted"
        <5>1. u = [s EXCEPT !.transit = None]
          BY <4>5 DEF Effect, Settlements
        <5> HIDE DEF u
        <5>2. QED
          BY <2>1, <5>1 DEF IsState, Untouched
      <4>6. CASE e.type = "PerceptionRecorded"
        <5>1. u = [s EXCEPT !.flagged = TRUE]
          BY <4>6 DEF Effect, Settlements
        <5> HIDE DEF u
        <5>2. QED
          BY <2>1, <5>1 DEF IsState, Untouched
      <4>7. QED
        BY <2>4, <4>1, <4>2, <4>3, <4>4, <4>5, <4>6
    <3>2. QED
      BY <3>1 DEF Untouched, Alive, SameAsk
  <2>5. QED
    BY <2>2, <2>3, <2>4 DEF Calm
<1> HIDE DEF u
<1>3. Alive(applyEvent(s, e), t, promise) /\ applyEvent(s, e).open = u.open
  BY <1>1, <1>2, AliveAfter DEF u
<1>4. QED
  BY <1>2, <1>3 DEF SameAsk

\* A settlement of what is open.
LEMMA SettlingEffect ==
  ASSUME NEW s, NEW t, NEW promise, Alive(s, t, promise), NEW e, e.type \in Settlements,
         s.open # Absent, s.open.req = e.load.req
  PROVE  Alive(applyEvent(s, e), t, promise) /\ applyEvent(s, e).open = Absent
<1> DEFINE u == Effect(s, e)
<1>1. ~Throws(s, e) /\ s.aborted = FALSE
  BY DEF Throws, Settlements, Alive
<1>2. IsState(s)
  BY DEF Alive
<1>3. \E f : u = [s EXCEPT !.open = Absent, !.flagged = f]
  <2>1. CASE e.type = "DecisionRequestExpired"
    <3>1. u = [s EXCEPT !.open = Absent, !.flagged = s.flagged \/ e.load.reason = "ttl-expired"]
      BY <2>1 DEF Effect, Settlements
    <3>2. QED
      BY <3>1
  <2>2. CASE e.type # "DecisionRequestExpired"
    <3>1. u = [s EXCEPT !.open = Absent]
      BY <2>2 DEF Effect, Settlements
    <3>2. [s EXCEPT !.open = Absent] = [s EXCEPT !.open = Absent, !.flagged = s.flagged]
      BY <1>2 DEF IsState
    <3>3. QED
      BY <3>1, <3>2
  <2>3. QED
    BY <2>1, <2>2
<1>4. PICK f : u = [s EXCEPT !.open = Absent, !.flagged = f]
  BY <1>3
<1> HIDE DEF u
<1>5. IsState(u) /\ u.open = Absent /\ u.tick = s.tick /\ u.promise = s.promise
      /\ u.outcome = s.outcome /\ u.terminal = s.terminal /\ u.aborted = s.aborted
  BY <1>2, <1>4 DEF IsState
<1>6. Alive(u, t, promise)
  BY <1>5 DEF Alive
<1>7. QED
  BY <1>1, <1>5, <1>6, AliveAfter DEF u

LEMMA RequestEffect ==
  ASSUME NEW s, NEW t, NEW promise, Alive(s, t, promise), NEW e,
         e.type = "DecisionRequested", s.open = Absent
  PROVE  Alive(applyEvent(s, e), t, promise)
<1> DEFINE u == Effect(s, e)
           o == [req |-> e.load.req, provider |-> e.load.provider, offers |-> e.load.offers,
                 expires |-> e.tick + Ttl, seen |-> {}]
<1>1. ~Throws(s, e) /\ s.aborted = FALSE
  BY DEF Throws, Settlements, Alive
<1>2. IsState(s)
  BY DEF Alive
<1>3. u = [s EXCEPT !.flagged = FALSE, !.open = o]
  BY DEF Effect, Settlements
<1>4. IsOpen(o)
  BY DEF IsOpen
<1> HIDE DEF u, o
<1>5. IsState(u) /\ u.open = o /\ u.tick = s.tick /\ u.promise = s.promise
      /\ u.outcome = s.outcome /\ u.terminal = s.terminal /\ u.aborted = s.aborted
  BY <1>2, <1>3 DEF IsState
<1>6. Alive(u, t, promise)
  BY <1>4, <1>5 DEF Alive
<1>7. QED
  BY <1>1, <1>6, AliveAfter DEF u

LEMMA AdvanceEffect ==
  ASSUME NEW s, NEW t, NEW promise, Alive(s, t, promise), NEW e, e.type = "TimeAdvanced"
  PROVE  Alive(applyEvent(s, e), e.load.tick, promise)
<1> DEFINE u == Effect(s, e)
<1>1. ~Throws(s, e) /\ s.aborted = FALSE
  BY DEF Throws, Settlements, Alive
<1>2. IsState(s)
  BY DEF Alive
<1>3. u = [s EXCEPT !.tick = e.load.tick]
  BY DEF Effect, Settlements
<1> HIDE DEF u
<1>4. IsState(u) /\ u.open = s.open /\ u.tick = e.load.tick /\ u.promise = s.promise
      /\ u.outcome = s.outcome /\ u.terminal = s.terminal /\ u.aborted = s.aborted
  BY <1>2, <1>3 DEF IsState
<1>5. Alive(u, e.load.tick, promise)
  BY <1>4 DEF Alive
<1>6. QED
  BY <1>1, <1>5, AliveAfter DEF u

LEMMA BreakEffect ==
  ASSUME NEW s, NEW t, Alive(s, t, "active"), NEW e, e.type = "CommitmentBroken"
  PROVE  Alive(applyEvent(s, e), t, "broken")
<1> DEFINE u == Effect(s, e)
<1>1. ~Throws(s, e) /\ s.aborted = FALSE
  BY DEF Throws, Settlements, Alive
<1>2. IsState(s)
  BY DEF Alive
<1>3. u = [s EXCEPT !.promise = "broken"]
  BY DEF Effect, Settlements
<1> HIDE DEF u
<1>4. IsState(u) /\ u.open = s.open /\ u.tick = s.tick /\ u.promise = "broken"
      /\ u.outcome = s.outcome /\ u.terminal = s.terminal /\ u.aborted = s.aborted
  BY <1>2, <1>3 DEF IsState
<1>5. Alive(u, t, "broken")
  BY <1>4 DEF Alive
<1>6. QED
  BY <1>1, <1>5, AliveAfter DEF u

\* The two events of the end, with what is left to say of the state.
LEMMA MissEffect ==
  ASSUME NEW s, NEW t, NEW promise, Alive(s, t, promise), NEW e,
         e.type = "TaskDeadlineMissed"
  PROVE  /\ IsState(applyEvent(s, e))
         /\ applyEvent(s, e).tick = t /\ applyEvent(s, e).aborted = FALSE
<1> DEFINE u == Effect(s, e)
<1>1. ~Throws(s, e) /\ s.aborted = FALSE
  BY DEF Throws, Settlements, Alive
<1>2. IsState(s)
  BY DEF Alive
<1>3. u = [s EXCEPT !.outcome = "deadline-missed"]
  BY DEF Effect, Settlements
<1> HIDE DEF u
<1>4. IsState(u) /\ u.tick = s.tick /\ u.aborted = s.aborted
  BY <1>2, <1>3 DEF IsState
<1>5. QED
  BY <1>1, <1>4, Accounted DEF u, Alive

LEMMA EndEffect ==
  ASSUME NEW s, IsState(s), s.aborted = FALSE, NEW e, e.type = "ScenarioEnded"
  PROVE  /\ IsState(applyEvent(s, e))
         /\ applyEvent(s, e).tick = s.tick /\ applyEvent(s, e).terminal = TRUE
<1> DEFINE u == Effect(s, e)
<1>1. ~Throws(s, e)
  BY DEF Throws, Settlements
<1>2. u = [s EXCEPT !.terminal = TRUE]
  BY DEF Effect, Settlements
<1> HIDE DEF u
<1>3. IsState(u) /\ u.tick = s.tick /\ u.terminal = TRUE
  BY <1>2 DEF IsState
<1>4. QED
  BY <1>1, <1>3, Accounted DEF u

\* What an engine operator keeps of a run, next to its state.
Shaped(r) ==
  /\ IsRun(r) /\ IsSeq(r.log) /\ r.conduct \in Conducts /\ r.reqs \in Nat
  /\ IsSeq(r.inbox) /\ IsSeq(r.outbox) /\ \A i \in 1..Len(r.outbox) : r.outbox[i] \in Nat

Kept(r) == Shaped(r) /\ Len(r.log) > 0

Live(r, t, promise) == Kept(r) /\ r.hashes = Absent /\ Alive(r.state, t, promise)

LEMMA EmitShapes ==
  ASSUME NEW r, Shaped(r), NEW type, NEW cause, NEW load
  PROVE  LET d == emit(r, type, cause, load)
             e == EventOf(r, type, cause, load)
         IN /\ Kept(d) /\ d.hashes = r.hashes /\ d.reqs = r.reqs /\ d.conduct = r.conduct
            /\ d.state = applyEvent(r.state, e) /\ e.type = type /\ e.load = load
            /\ d.outbox = r.outbox /\ d.log = Append(r.log, e)
<1> DEFINE d == emit(r, type, cause, load)
           e == EventOf(r, type, cause, load)
<1>1. /\ IsRun(d) /\ d.log = Append(r.log, e) /\ d.state = applyEvent(r.state, e)
      /\ d.conduct = r.conduct /\ d.outbox = r.outbox /\ d.reqs = r.reqs
      /\ d.hashes = r.hashes /\ d.inbox = r.inbox
  BY Emitted DEF Shaped
<1>2. e.type = type /\ e.load = load
  BY DEF EventOf, Stamped
<1> HIDE DEF d, e
<1>3. IsSeq(r.log) /\ Len(r.log) \in Nat
  BY SeqFacts DEF Shaped
<1>4. IsSeq(d.log) /\ Len(d.log) = Len(r.log) + 1
  BY <1>1, <1>3, Appended
<1>5. Len(d.log) > 0
  BY <1>3, <1>4
<1>6. Kept(d)
  BY <1>1, <1>4, <1>5 DEF Kept, Shaped
<1>7. QED
  BY <1>1, <1>2, <1>6 DEF d, e

LEMMA EmitCalm ==
  ASSUME NEW r, NEW t, NEW promise, Live(r, t, promise), NEW type \in Calm, NEW cause, NEW load
  PROVE  LET d == emit(r, type, cause, load)
         IN Live(d, t, promise) /\ SameAsk(r.state, d.state)
<1> DEFINE d == emit(r, type, cause, load)
           e == EventOf(r, type, cause, load)
<1>1. Kept(d) /\ d.hashes = r.hashes /\ d.state = applyEvent(r.state, e) /\ e.type = type
  BY EmitShapes DEF Live, Kept
<1> HIDE DEF d, e
<1>2. Alive(r.state, t, promise) /\ r.hashes = Absent
  BY DEF Live
<1>3. Alive(d.state, t, promise) /\ SameAsk(r.state, d.state)
  BY <1>1, <1>2, CalmEffect
<1>4. QED
  BY <1>1, <1>2, <1>3 DEF Live, d

LEMMA EmitSettles ==
  ASSUME NEW r, NEW t, NEW promise, Live(r, t, promise), NEW type \in Settlements,
         NEW cause, NEW load, r.state.open # Absent, r.state.open.req = load.req
  PROVE  LET d == emit(r, type, cause, load)
         IN Live(d, t, promise) /\ d.state.open = Absent
<1> DEFINE d == emit(r, type, cause, load)
           e == EventOf(r, type, cause, load)
<1>1. /\ Kept(d) /\ d.hashes = r.hashes /\ d.state = applyEvent(r.state, e)
      /\ e.type = type /\ e.load = load
  BY EmitShapes DEF Live, Kept
<1> HIDE DEF d, e
<1>2. Alive(r.state, t, promise) /\ r.hashes = Absent
  BY DEF Live
<1>3. Alive(d.state, t, promise) /\ d.state.open = Absent
  BY <1>1, <1>2, SettlingEffect
<1>4. QED
  BY <1>1, <1>2, <1>3 DEF Live, d

\* The fields the engine sets itself.
LEMMA ActsLive ==
  ASSUME NEW r, NEW t, NEW promise, Live(r, t, promise), NEW x
  PROVE  Live([r EXCEPT !.acts = x], t, promise) /\ [r EXCEPT !.acts = x].state = r.state
BY DEF Live, Kept, Shaped, IsRun

LEMMA ReqsLive ==
  ASSUME NEW r, NEW t, NEW promise, Live(r, t, promise), NEW x \in Nat
  PROVE  Live([r EXCEPT !.reqs = x], t, promise) /\ [r EXCEPT !.reqs = x].state = r.state
BY DEF Live, Kept, Shaped, IsRun

LEMMA InboxLive ==
  ASSUME NEW r, NEW t, NEW promise, Live(r, t, promise), NEW x, IsSeq(x)
  PROVE  Live([r EXCEPT !.inbox = x], t, promise) /\ [r EXCEPT !.inbox = x].state = r.state
BY DEF Live, Kept, Shaped, IsRun

LEMMA ClearedLive ==
  ASSUME NEW r, NEW t, NEW promise, Live(r, t, promise)
  PROVE  Live(Cleared(r), t, promise)
<1> DEFINE x == Append(r.fed, r.inbox)
           d == Cleared(r)
<1>1. d = [r EXCEPT !.inbox = <<>>, !.fed = x]
  BY DEF Cleared
<1> HIDE DEF x, d
<1>2. Live(d, t, promise)
  BY <1>1, EmptyIsSeq DEF Live, Kept, Shaped, IsRun
<1>3. QED
  BY <1>2 DEF d

LEMMA OutboxLive ==
  ASSUME NEW r, NEW t, NEW promise, Live(r, t, promise), NEW x \in Nat
  PROVE  LET d == [r EXCEPT !.outbox = Append(@, x)]
         IN Live(d, t, promise) /\ d.state = r.state
<1> DEFINE o == Append(r.outbox, x)
           d == [r EXCEPT !.outbox = o]
<1>1. IsSeq(r.outbox) /\ Len(r.outbox) \in Nat /\ \A i \in 1..Len(r.outbox) : r.outbox[i] \in Nat
  BY SeqFacts DEF Live, Kept, Shaped
<1>2. /\ IsSeq(o) /\ Len(o) = Len(r.outbox) + 1 /\ o[Len(r.outbox) + 1] = x
      /\ \A i \in 1..Len(r.outbox) : o[i] = r.outbox[i]
  BY <1>1, Appended
<1> HIDE DEF o
<1>3. \A i \in 1..Len(o) : o[i] \in Nat
  BY <1>1, <1>2
<1>4. Live(d, t, promise) /\ d.state = r.state
  BY <1>2, <1>3 DEF Live, Kept, Shaped, IsRun
<1>5. QED
  BY <1>4 DEF o

-----------------------------------------------------------------------------
(* Each operation of the engine keeps a run alive.                         *)

LEMMA InterruptLive ==
  ASSUME NEW r, NEW t, NEW promise, Live(r, t, promise), NEW cause
  PROVE  LET d == interruptAction(r, cause)
         IN Live(d, t, promise) /\ SameAsk(r.state, d.state)
<1>1. ASSUME NEW load
      PROVE  LET d == emit(r, "ActionInterrupted", cause, load)
             IN Live(d, t, promise) /\ SameAsk(r.state, d.state)
  BY EmitCalm DEF Calm
<1>2. SameAsk(r.state, r.state)
  BY DEF SameAsk
<1>3. QED
  BY <1>1, <1>2 DEF interruptAction

LEMMA ProposedLive ==
  ASSUME NEW r, NEW t, NEW promise, Live(r, t, promise), NEW load, NEW cause
  PROVE  Live(Proposed(r, load, cause), t, promise)
BY ActsLive, EmitCalm DEF Proposed, Calm

LEMMA LaunchedLive ==
  ASSUME NEW r, NEW t, NEW promise, Live(r, t, promise), NEW load, NEW cause
  PROVE  Live(Launched(r, load, cause), t, promise)
<1>1. ASSUME NEW x PROVE Live(emit(r, "MovementStarted", None, x), t, promise)
  BY EmitCalm DEF Calm
<1>2. ASSUME NEW x PROVE Live(emit(r, "ActionStarted", cause, x), t, promise)
  BY EmitCalm DEF Calm
<1>3. QED
  BY <1>1, <1>2 DEF Launched

LEMMA ProposeLive ==
  ASSUME NEW r, NEW t, NEW promise, Live(r, t, promise), NEW desc, NEW cause
  PROVE  Live(proposeAndLaunch(r, desc, cause), t, promise)
<1>1. ASSUME NEW load PROVE Live(Launched(Proposed(r, load, cause), load, cause), t, promise)
  BY ProposedLive, LaunchedLive
<1>2. QED
  BY <1>1 DEF proposeAndLaunch

LEMMA ReceivedLive ==
  ASSUME NEW r, NEW t, NEW promise, Live(r, t, promise), NEW m
  PROVE  Live(Received(r, m), t, promise) /\ SameAsk(r.state, Received(r, m).state)
BY EmitCalm DEF Received, Calm

LEMMA AcceptedLive ==
  ASSUME NEW r, NEW t, NEW promise, Live(r, t, promise), NEW m, NEW used,
         r.state.open # Absent, r.state.open.req = m.req
  PROVE  Live(Accepted(r, m, used), t, promise)
<1> DEFINE load == [Response(m) EXCEPT !.fallback = used]
<1>1. load.req = m.req
  BY DEF Response, Blank
<1>2. Accepted(r, m, used) = emit(r, "DecisionResponseAccepted", LastId(r), load)
  BY DEF Accepted
<1> HIDE DEF load
<1>3. QED
  BY <1>1, <1>2, EmitSettles DEF Settlements

LEMMA RejectedLive ==
  ASSUME NEW r, NEW t, NEW promise, Live(r, t, promise), NEW m
  PROVE  Live(Rejected(r, m), t, promise)
BY EmitCalm DEF Rejected, Calm

LEMMA SelectedLive ==
  ASSUME NEW r, NEW t, NEW promise, Live(r, t, promise), NEW offer
  PROVE  Live(Selected(r, offer), t, promise)
<1>1. Live(interruptAction(r, LastId(r)), t, promise)
  BY InterruptLive
<1>2. QED
  BY <1>1, ProposeLive DEF Selected

LEMMA ResponseLive ==
  ASSUME NEW r, NEW t, NEW promise, Live(r, t, promise), NEW m, NEW used
  PROVE  Live(processDecisionResponse(r, m, used), t, promise)
<1> DEFINE d == Received(r, m)
<1>1. Live(d, t, promise) /\ SameAsk(r.state, d.state)
  BY ReceivedLive
<1>2. Live(Rejected(d, m), t, promise)
  BY <1>1, RejectedLive
<1>3. ASSUME Admissible(r.state, m, used), NEW offer
      PROVE  Live(Selected(Accepted(d, m, used), offer), t, promise)
  <2>1. r.state.open # Absent /\ r.state.open.req = m.req
    BY <1>3 DEF Admissible
  <2>2. d.state.open # Absent /\ d.state.open.req = m.req
    BY <1>1, <2>1 DEF SameAsk
  <2> HIDE DEF d
  <2>3. Live(Accepted(d, m, used), t, promise)
    BY <1>1, <2>2, AcceptedLive
  <2>4. QED
    BY <2>3, SelectedLive
<1>4. QED
  BY <1>2, <1>3 DEF processDecisionResponse

LEMMA ArriveLive ==
  ASSUME NEW r, NEW t, NEW promise, Live(r, t, promise)
  PROVE  Live(Arrive(r), t, promise)
<1>1. Live(Arrived(r), t, promise)
  BY EmitCalm DEF Arrived, Calm
<1>2. ASSUME NEW a PROVE Live(Begun(Arrived(r), a), t, promise)
  BY <1>1, EmitCalm DEF Begun, Calm
<1>3. QED
  BY <1>2 DEF Arrive

LEMMA PerceiveLive ==
  ASSUME NEW r, NEW t, NEW promise, Live(r, t, promise)
  PROVE  Live(Perceive(r), t, promise)
BY EmitCalm DEF Perceive, Calm

LEMMA CompleteLive ==
  ASSUME NEW r, NEW t, NEW promise, Live(r, t, promise)
  PROVE  Live(CompleteScripted(r), t, promise)
BY EmitCalm DEF CompleteScripted, Calm

LEMMA BreakLive ==
  ASSUME NEW r, NEW t, Live(r, t, "active")
  PROVE  Live(BreakCommitment(r), t, IF t = EndTick THEN "broken" ELSE "active")
<1>1. r.state.tick = t
  BY DEF Live, Alive
<1>2. CASE t # EndTick
  BY <1>1, <1>2 DEF BreakCommitment
<1>3. CASE t = EndTick
  <2> DEFINE load == [Blank EXCEPT !.npc = Npc]
             d == emit(r, "CommitmentBroken", None, load)
             e == EventOf(r, "CommitmentBroken", None, load)
  <2>1. /\ Kept(d) /\ d.hashes = r.hashes /\ d.state = applyEvent(r.state, e)
        /\ e.type = "CommitmentBroken"
    BY EmitShapes DEF Live, Kept
  <2>2. BreakCommitment(r) = d
    BY <1>1, <1>3 DEF BreakCommitment
  <2> HIDE DEF d, e
  <2>3. Alive(d.state, t, "broken")
    BY <2>1, BreakEffect DEF Live
  <2>4. QED
    BY <1>3, <2>1, <2>2, <2>3 DEF Live
<1>4. QED
  BY <1>2, <1>3

LEMMA HappenLive ==
  ASSUME NEW r, NEW t, Live(r, t, "active")
  PROVE  Live(Happen(r), t, IF t = EndTick THEN "broken" ELSE "active")
BY PerceiveLive, ArriveLive, CompleteLive, BreakLive DEF Happen

LEMMA ExpiredLive ==
  ASSUME NEW r, NEW t, NEW promise, Live(r, t, promise), r.state.open # Absent, NEW reason
  PROVE  Live(Expired(r, reason), t, promise)
<1> DEFINE load == [Blank EXCEPT !.npc = Npc, !.req = r.state.open.req, !.reason = reason]
<1>1. load.req = r.state.open.req
  BY DEF Blank
<1>2. Expired(r, reason) = emit(r, "DecisionRequestExpired", None, load)
  BY DEF Expired
<1> HIDE DEF load
<1>3. QED
  BY <1>1, <1>2, EmitSettles DEF Settlements

LEMMA FailureLive ==
  ASSUME NEW r, NEW t, NEW promise, Live(r, t, promise), NEW m
  PROVE  Live(processDecisionFailure(r, m), t, promise)
<1>1. ASSUME NEW load, r.state.open # Absent
      PROVE  Live(Expired(emit(r, "DecisionProviderFailed", None, load), "external-failure"),
                  t, promise)
  <2> DEFINE d == emit(r, "DecisionProviderFailed", None, load)
  <2>1. Live(d, t, promise) /\ SameAsk(r.state, d.state)
    BY EmitCalm DEF Calm
  <2> HIDE DEF d
  <2>2. d.state.open # Absent
    BY <1>1, <2>1 DEF SameAsk
  <2>3. Live(Expired(d, "external-failure"), t, promise)
    BY <2>1, <2>2, ExpiredLive
  <2>4. QED
    BY <2>3 DEF d
<1>2. QED
  BY <1>1 DEF processDecisionFailure

LEMMA ExpireLive ==
  ASSUME NEW r, NEW t, NEW promise, Live(r, t, promise)
  PROVE  Live(Expire(r), t, promise)
BY ExpiredLive DEF Expire

LEMMA ResponsesLive ==
  ASSUME NEW r, NEW t, NEW promise, Live(r, t, promise), NEW queue, IsSeq(queue)
  PROVE  Live(DrainResponses(r, queue), t, promise)
<1> DEFINE n == Len(queue)
<1>1. n \in Nat
  BY SeqFacts
<1>2. PICK f : DrainsResponses(r, queue, f)
  BY <1>1, ResponsesSteps
<1>3. /\ f[0] = r
      /\ \A i \in 1..n : f[i] = IF queue[i].choice = None THEN f[i - 1]
                                ELSE Judged(f[i - 1], queue[i])
      /\ DrainResponses(r, queue) = f[n]
  BY <1>2 DEF DrainsResponses
<1> HIDE DEF n
<1> DEFINE T == {i \in 0..n : Live(f[i], t, promise)}
<1>4. 0 \in T
  BY <1>1, <1>3
<1>5. ASSUME NEW i \in 0..(n - 1), i \in T PROVE i + 1 \in T
  <2>1. i + 1 \in 1..n /\ i + 1 \in 0..n /\ i + 1 - 1 = i
    BY <1>1
  <2>2. Live(f[i], t, promise)
    BY <1>5
  <2>3. f[i + 1] = IF queue[i + 1].choice = None THEN f[i] ELSE Judged(f[i], queue[i + 1])
    BY <1>3, <2>1
  <2>4. Live(Judged(f[i], queue[i + 1]), t, promise)
    BY <2>2, ResponseLive DEF Judged
  <2>5. QED
    BY <2>1, <2>2, <2>3, <2>4
<1>6. n \in T
  <2> HIDE DEF T
  <2>1. n \in 0..n
    BY <1>1
  <2>2. QED
    BY <1>1, <1>4, <1>5, <2>1, UpTo
<1>7. QED
  BY <1>3, <1>6

LEMMA FailuresLive ==
  ASSUME NEW r, NEW t, NEW promise, Live(r, t, promise), NEW queue, IsSeq(queue)
  PROVE  Live(DrainFailures(r, queue), t, promise)
<1> DEFINE n == Len(queue)
<1>1. n \in Nat
  BY SeqFacts
<1>2. PICK f : DrainsFailures(r, queue, f)
  BY <1>1, FailuresSteps
<1>3. /\ f[0] = r
      /\ \A i \in 1..n : f[i] = IF queue[i].choice # None THEN f[i - 1]
                                ELSE processDecisionFailure(f[i - 1], queue[i])
      /\ DrainFailures(r, queue) = f[n]
  BY <1>2 DEF DrainsFailures
<1> HIDE DEF n
<1> DEFINE T == {i \in 0..n : Live(f[i], t, promise)}
<1>4. 0 \in T
  BY <1>1, <1>3
<1>5. ASSUME NEW i \in 0..(n - 1), i \in T PROVE i + 1 \in T
  <2>1. i + 1 \in 1..n /\ i + 1 \in 0..n /\ i + 1 - 1 = i
    BY <1>1
  <2>2. Live(f[i], t, promise)
    BY <1>5
  <2>3. f[i + 1] = IF queue[i + 1].choice # None THEN f[i]
                   ELSE processDecisionFailure(f[i], queue[i + 1])
    BY <1>3, <2>1
  <2>4. Live(processDecisionFailure(f[i], queue[i + 1]), t, promise)
    BY <2>2, FailureLive
  <2>5. QED
    BY <2>1, <2>2, <2>3, <2>4
<1>6. n \in T
  <2> HIDE DEF T
  <2>1. n \in 0..n
    BY <1>1
  <2>2. QED
    BY <1>1, <1>4, <1>5, <2>1, UpTo
<1>7. QED
  BY <1>3, <1>6

LEMMA DrainLive ==
  ASSUME NEW r, NEW t, NEW promise, Live(r, t, promise)
  PROVE  Live(Drain(r), t, promise)
<1>1. IsSeq(r.inbox)
  BY DEF Live, Kept, Shaped
<1>2. QED
  BY <1>1, ClearedLive, ResponsesLive, FailuresLive DEF Drain

LEMMA FallbackLive ==
  ASSUME NEW r, NEW t, NEW promise, Live(r, t, promise), NEW req
  PROVE  Live(Fallback(r, req), t, promise)
<1>1. ASSUME NEW load, NEW m
      PROVE  Live(processDecisionResponse(emit(r, "FallbackDecisionUsed", None, load), m, TRUE),
                  t, promise)
  <2>1. Live(emit(r, "FallbackDecisionUsed", None, load), t, promise)
    BY EmitCalm DEF Calm
  <2>2. QED
    BY <2>1, ResponseLive
<1>2. QED
  BY <1>1 DEF Fallback

LEMMA BridgeLive ==
  ASSUME NEW r, NEW t, NEW promise, Live(r, t, promise), NEW req, NEW cause
  PROVE  Live(Bridge(r, req, cause), t, promise)
<1>1. ASSUME NEW load, NEW offer
      PROVE  Live(Bridged(emit(r, "FallbackDecisionUsed", cause, load), offer), t, promise)
  <2>1. Live(emit(r, "FallbackDecisionUsed", cause, load), t, promise)
    BY EmitCalm DEF Calm
  <2>2. QED
    BY <2>1, ProposeLive DEF Bridged
<1>2. QED
  BY <1>1 DEF Bridge

LEMMA RequestedLive ==
  ASSUME NEW r, NEW t, NEW promise, Live(r, t, promise)
  PROVE  Live(Requested(r), t, promise) /\ Requested(r).reqs \in Nat
<1> DEFINE req == r.reqs + 1
           left == IF r.state.open = Absent THEN r
                   ELSE emit(r, "DecisionRequestSuperseded", None,
                             [Blank EXCEPT !.npc = Npc, !.req = r.state.open.req])
           asked == [left EXCEPT !.reqs = req]
           load == [Blank EXCEPT !.npc = Npc, !.req = req, !.provider = r.conduct,
                                 !.offers = Offers(r.state)]
           d == emit(asked, "DecisionRequested", None, load)
           e == EventOf(asked, "DecisionRequested", None, load)
<1>1. Requested(r) = d
  BY DEF Requested
<1>2. req \in Nat
  BY DEF Live, Kept, Shaped
<1>3. Live(left, t, promise) /\ left.state.open = Absent
  <2>1. CASE r.state.open = Absent
    BY <2>1
  <2>2. CASE r.state.open # Absent
    <3> DEFINE gone == [Blank EXCEPT !.npc = Npc, !.req = r.state.open.req]
    <3>1. gone.req = r.state.open.req
      BY DEF Blank
    <3>2. left = emit(r, "DecisionRequestSuperseded", None, gone)
      BY <2>2
    <3> HIDE DEF gone, left
    <3>3. QED
      BY <2>2, <3>1, <3>2, EmitSettles DEF Settlements
  <2>3. QED
    BY <2>1, <2>2
<1> HIDE DEF req, left
<1>4. Live(asked, t, promise) /\ asked.state.open = Absent
  BY <1>2, <1>3, ReqsLive
<1>5. asked.reqs = req
  BY <1>3 DEF Live, Kept, Shaped, IsRun
<1> HIDE DEF asked, load
<1>6. /\ Kept(d) /\ d.hashes = asked.hashes /\ d.state = applyEvent(asked.state, e)
      /\ e.type = "DecisionRequested" /\ d.reqs = asked.reqs
  BY <1>4, EmitShapes DEF Live, Kept
<1> HIDE DEF d, e
<1>7. Alive(d.state, t, promise)
  BY <1>4, <1>6, RequestEffect DEF Live
<1>8. Live(d, t, promise)
  BY <1>4, <1>6, <1>7 DEF Live
<1>9. QED
  BY <1>1, <1>2, <1>5, <1>6, <1>8

LEMMA DecidedLive ==
  ASSUME NEW r, NEW t, NEW promise, Live(r, t, promise)
  PROVE  Live(Decided(r), t, promise)
<1>1. r.conduct \in Conducts /\ r.reqs \in Nat
  BY DEF Live, Kept, Shaped
<1>2. CASE r.conduct = "answers"
  <2>1. \A m : Live(processDecisionResponse(r, m, FALSE), t, promise)
    BY ResponseLive
  <2>2. QED
    BY <1>2, <2>1 DEF Decided
<1>3. CASE r.conduct = "fails"
  <2>1. ASSUME NEW cause, NEW load, NEW req
        PROVE  Live(Fallback(emit(r, "DecisionProviderFailed", cause, load), req), t, promise)
    <3>1. Live(emit(r, "DecisionProviderFailed", cause, load), t, promise)
      BY EmitCalm DEF Calm
    <3>2. QED
      BY <3>1, FallbackLive
  <2>2. QED
    BY <1>3, <2>1 DEF Decided
<1>4. CASE r.conduct = "defers"
  <2> DEFINE sent == [r EXCEPT !.outbox = Append(@, r.reqs)]
  <2>1. Live(sent, t, promise)
    BY <1>1, OutboxLive
  <2>2. Decided(r) = IF Idle(r.state) THEN Bridge(sent, r.reqs, LastId(r)) ELSE sent
    BY <1>4 DEF Decided
  <2> HIDE DEF sent
  <2>3. Live(Bridge(sent, r.reqs, LastId(r)), t, promise)
    BY <2>1, BridgeLive
  <2>4. QED
    BY <2>1, <2>2, <2>3
<1>5. QED
  BY <1>1, <1>2, <1>3, <1>4 DEF Conducts

LEMMA DecideLive ==
  ASSUME NEW r, NEW t, NEW promise, Live(r, t, promise)
  PROVE  Live(Decide(r), t, promise)
BY RequestedLive, DecidedLive DEF Decide

LEMMA ClosedLive ==
  ASSUME NEW r, NEW t, NEW promise, Live(r, t, promise)
  PROVE  Live(Closed(r), t, promise)
<1>1. Live(IF r.state.open = Absent THEN r ELSE Expired(r, "scenario-ended"), t, promise)
  BY ExpiredLive
<1>2. QED
  BY <1>1, InterruptLive DEF Closed

-----------------------------------------------------------------------------
(* The end of a run, and a tick.                                           *)

\* A run that is over at tick t.
Over(r, t) ==
  /\ Kept(r) /\ r.hashes # Absent
  /\ r.state.tick = t /\ r.state.terminal = TRUE

LEMMA EndOver ==
  ASSUME NEW r, NEW t, NEW promise, Live(r, t, promise)
  PROVE  Over(endScenario(r), t)
<1> DEFINE c == Closed(r)
           m == emit(c, "TaskDeadlineMissed", None, Blank)
           me == EventOf(c, "TaskDeadlineMissed", None, Blank)
           hash == Final(m)
           load == [Blank EXCEPT !.hash = hash, !.reason = m.state.outcome]
           s == emit(m, "ScenarioEnded", None, load)
           se == EventOf(m, "ScenarioEnded", None, load)
           h == [world |-> hash, ledger |-> Projection(s.log)]
           d == [s EXCEPT !.hashes = h]
<1>1. endScenario(r) = d
  <2>1. Missed(c) = m
    BY DEF Missed
  <2>2. EndedWith(c) = Sealed(m, hash)
    BY <2>1 DEF EndedWith
  <2>3. Sealed(m, hash) = Hashed(s, hash)
    BY DEF Sealed
  <2>4. Hashed(s, hash) = d
    BY DEF Hashed
  <2>5. QED
    BY <2>2, <2>3, <2>4 DEF endScenario
<1>2. Live(c, t, promise)
  BY ClosedLive
<1> HIDE DEF c
<1>3. Kept(m) /\ m.state = applyEvent(c.state, me) /\ me.type = "TaskDeadlineMissed"
  BY <1>2, EmitShapes DEF Live, Kept
<1> HIDE DEF m, me
<1>4. IsState(m.state) /\ m.state.tick = t /\ m.state.aborted = FALSE
  <2>1. Alive(c.state, t, promise)
    BY <1>2 DEF Live
  <2>2. LET u == applyEvent(c.state, me) IN IsState(u) /\ u.tick = t /\ u.aborted = FALSE
    BY <1>3, <2>1, MissEffect
  <2>3. QED
    BY <1>3, <2>2
<1> HIDE DEF load
<1>5. Kept(s) /\ s.state = applyEvent(m.state, se) /\ se.type = "ScenarioEnded"
  BY <1>3, EmitShapes DEF Kept
<1> HIDE DEF s, se
<1>6. IsState(s.state) /\ s.state.tick = t /\ s.state.terminal = TRUE
  <2>1. LET u == applyEvent(m.state, se)
        IN IsState(u) /\ u.tick = m.state.tick /\ u.terminal = TRUE
    BY <1>4, <1>5, EndEffect
  <2>2. QED
    BY <1>4, <1>5, <2>1
<1>7. h # Absent
  BY DEF Absent
<1> HIDE DEF h
<1>8. Kept(d) /\ d.hashes = h /\ d.state = s.state
  BY <1>5 DEF Kept, Shaped, IsRun
<1>9. QED
  BY <1>1, <1>6, <1>7, <1>8 DEF Over

LEMMA AdvancedLive ==
  ASSUME NEW r, NEW t, NEW promise, Live(r, t, promise)
  PROVE  Live(Advanced(r), t + 1, promise)
<1> DEFINE load == [Blank EXCEPT !.tick = r.state.tick + 1]
           d == emit(r, "TimeAdvanced", None, load)
           e == EventOf(r, "TimeAdvanced", None, load)
<1>1. load.tick = t + 1
  BY DEF Blank, Live, Alive
<1>2. Advanced(r) = d
  BY DEF Advanced
<1> HIDE DEF load
<1>3. /\ Kept(d) /\ d.hashes = r.hashes /\ d.state = applyEvent(r.state, e)
      /\ e.type = "TimeAdvanced" /\ e.load = load
  BY EmitShapes DEF Live, Kept
<1> HIDE DEF d, e
<1>4. Alive(d.state, e.load.tick, promise)
  BY <1>3, AdvanceEffect DEF Live
<1>5. QED
  BY <1>1, <1>2, <1>3, <1>4 DEF Live

\* A run between two ticks, and where a tick takes it.
Going(r, t) == t \in 0..(EndTick - 1) /\ Live(r, t, "active")

LEMMA TickGoes ==
  ASSUME NEW r, NEW t, Going(r, t)
  PROVE  IF t + 1 < EndTick THEN Going(stepTick(r), t + 1) ELSE Over(stepTick(r), t + 1)
<1> DEFINE a == Advanced(r)
           promise == IF t + 1 = EndTick THEN "broken" ELSE "active"
           d == Expire(Drain(Happen(a)))
<1>1. t \in 0..(EndTick - 1) /\ Live(r, t, "active") /\ EndTick \in Nat
  BY TickAssumption DEF Going
<1>2. Live(a, t + 1, "active")
  BY <1>1, AdvancedLive
<1> HIDE DEF a
<1>3. Live(Happen(a), t + 1, promise)
  BY <1>2, HappenLive
<1> HIDE DEF promise
<1>4. Live(d, t + 1, promise)
  BY <1>3, DrainLive, ExpireLive
<1>5. stepTick(r) = EndOrDecide(d)
  BY <1>1 DEF stepTick, Live, Alive, a
<1> HIDE DEF d
<1>6. d.state.tick = t + 1
  BY <1>4 DEF Live, Alive
<1>7. CASE t + 1 < EndTick
  <2>1. promise = "active" /\ t + 1 \in 0..(EndTick - 1) /\ ~(t + 1 >= EndTick)
    BY <1>1, <1>7 DEF promise
  <2>2. stepTick(r) = Decide(d)
    BY <1>5, <1>6, <2>1 DEF EndOrDecide
  <2>3. Live(stepTick(r), t + 1, "active")
    BY <1>4, <2>1, <2>2, DecideLive
  <2>4. QED
    BY <1>7, <2>1, <2>3 DEF Going
<1>8. CASE ~(t + 1 < EndTick)
  <2>1. t + 1 >= EndTick
    BY <1>1, <1>8
  <2>2. stepTick(r) = endScenario(d)
    BY <1>5, <1>6, <2>1 DEF EndOrDecide
  <2>3. QED
    BY <1>4, <1>8, <2>2, EndOver
<1>9. QED
  BY <1>7, <1>8

\* A run the worker can have: it goes on, or it is over.
Sane(r) ==
  \/ Going(r, r.state.tick) /\ r.state.terminal = FALSE
  \/ Over(r, r.state.tick) /\ r.state.tick \in Nat

LEMMA TickIsSane ==
  ASSUME NEW r, Sane(r)
  PROVE  /\ Sane(stepTick(r))
         /\ r.state.terminal => stepTick(r) = r
         /\ stepTick(r).state.terminal \/ stepTick(r).state.tick = r.state.tick + 1
<1>1. CASE r.state.terminal
  BY <1>1 DEF stepTick
<1>2. CASE ~r.state.terminal
  <2> DEFINE t == r.state.tick
             d == stepTick(r)
  <2>1. Going(r, t) /\ t \in Nat
    BY <1>2 DEF Sane, Over, Going
  <2>2. CASE t + 1 < EndTick
    <3>1. Going(d, t + 1)
      BY <2>1, <2>2, TickGoes
    <3> HIDE DEF d, t
    <3>2. d.state.tick = t + 1 /\ d.state.terminal = FALSE
      BY <3>1 DEF Going, Live, Alive
    <3>3. QED
      BY <1>2, <3>1, <3>2 DEF Sane, d, t
  <2>3. CASE ~(t + 1 < EndTick)
    <3>1. Over(d, t + 1)
      BY <2>1, <2>3, TickGoes
    <3> HIDE DEF d
    <3>2. d.state.tick = t + 1 /\ d.state.terminal = TRUE /\ t + 1 \in Nat
      BY <2>1, <3>1 DEF Over
    <3>3. QED
      BY <1>2, <3>1, <3>2 DEF Sane, d
  <2>4. QED
    BY <2>2, <2>3
<1>3. QED
  BY <1>1, <1>2

LEMMA TicksAreSane ==
  ASSUME NEW r, Sane(r), NEW n \in Nat
  PROVE  /\ Sane(stepTicks(r, n))
         /\ r.state.terminal => stepTicks(r, n) = r
         /\ n > EndTick => stepTicks(r, n).state.terminal
<1>1. PICK f : /\ f[0] = r
               /\ \A i \in 1..n : f[i] = stepTick(f[i - 1])
               /\ stepTicks(r, n) = f[n]
  BY TicksSteps
<1> DEFINE T == {i \in 0..n : /\ Sane(f[i])
                              /\ r.state.terminal => f[i] = r
                              /\ f[i].state.terminal \/ f[i].state.tick = r.state.tick + i}
<1>2. r.state.tick \in Nat
  BY DEF Sane, Going
<1>3. 0 \in T
  BY <1>1, <1>2
<1>4. ASSUME NEW i \in 0..(n - 1), i \in T PROVE i + 1 \in T
  <2>1. i + 1 \in 1..n /\ i + 1 \in 0..n /\ i + 1 - 1 = i /\ i \in Nat
    OBVIOUS
  <2>2. f[i + 1] = stepTick(f[i])
    BY <1>1, <2>1
  <2>3. Sane(f[i]) /\ (r.state.terminal => f[i] = r)
    BY <1>4
  <2>4. f[i].state.terminal \/ f[i].state.tick = r.state.tick + i
    BY <1>4
  <2> DEFINE d == f[i]
             g == f[i + 1]
  <2> HIDE DEF d, g
  <2>5. /\ Sane(g) /\ (d.state.terminal => g = d)
        /\ g.state.terminal \/ g.state.tick = d.state.tick + 1
    BY <2>2, <2>3, TickIsSane DEF d, g
  <2>6. g.state.terminal \/ g.state.tick = r.state.tick + (i + 1)
    <3>1. CASE d.state.terminal
      BY <2>5, <3>1
    <3>2. CASE ~d.state.terminal
      <4>1. d.state.tick = r.state.tick + i
        BY <2>4, <3>2 DEF d
      <4>2. QED
        BY <1>2, <2>1, <2>5, <4>1
    <3>3. QED
      BY <3>1, <3>2
  <2>7. r.state.terminal => g = r
    BY <2>3, <2>5 DEF d
  <2>8. QED
    BY <2>1, <2>5, <2>6, <2>7 DEF g
<1>5. n \in T
  <2> HIDE DEF T
  <2>1. n \in 0..n
    OBVIOUS
  <2>2. QED
    BY <1>3, <1>4, <2>1, UpTo
<1>6. ASSUME n > EndTick PROVE f[n].state.terminal
  <2>1. SUFFICES ASSUME ~f[n].state.terminal PROVE FALSE
    OBVIOUS
  <2>2. f[n].state.tick = r.state.tick + n /\ Sane(f[n])
    BY <1>5, <2>1
  <2>3. f[n].state.tick \in 0..(EndTick - 1)
    BY <2>1, <2>2 DEF Sane, Over, Going
  <2>4. QED
    BY <1>2, <1>6, <2>2, <2>3, TickAssumption
<1>7. QED
  BY <1>1, <1>5, <1>6

LEMMA MarkerIsSane ==
  ASSUME NEW r, Sane(r), NEW type \in Markers
  PROVE  LET d == appendMarker(r, type)
         IN /\ Sane(d) /\ d.state.terminal = r.state.terminal
            /\ r.state.terminal => d = r
<1>1. CASE r.state.terminal
  BY <1>1 DEF appendMarker
<1>2. CASE ~r.state.terminal
  <2> DEFINE d == emit(r, type, None, Blank)
             t == r.state.tick
  <2>1. Going(r, t)
    BY <1>2 DEF Sane, Over
  <2>2. Live(d, t, "active")
    BY <2>1, EmitCalm DEF Going, Markers, Calm
  <2>3. appendMarker(r, type) = d
    BY <1>2 DEF appendMarker
  <2> HIDE DEF d
  <2>4. d.state.tick = t /\ d.state.terminal = FALSE /\ r.state.terminal = FALSE
    BY <2>1, <2>2 DEF Live, Alive, Going
  <2>5. QED
    BY <2>1, <2>2, <2>3, <2>4 DEF Going, Sane
<1>3. QED
  BY <1>1, <1>2

LEMMA StartEffect ==
  ASSUME NEW s, NEW t, NEW promise, Alive(s, t, promise), NEW e, e.type = "ScenarioStarted"
  PROVE  Alive(applyEvent(s, e), t, promise)
<1> DEFINE u == Effect(s, e)
<1>1. ~Throws(s, e) /\ s.aborted = FALSE
  BY DEF Throws, Settlements, Alive
<1>2. IsState(s)
  BY DEF Alive
<1>3. u = [s EXCEPT !.plan = e.load.provider]
  BY DEF Effect, Settlements
<1> HIDE DEF u
<1>4. IsState(u) /\ u.open = s.open /\ u.tick = s.tick /\ u.promise = s.promise
      /\ u.outcome = s.outcome /\ u.terminal = s.terminal /\ u.aborted = s.aborted
  BY <1>2, <1>3 DEF IsState
<1>5. Alive(u, t, promise)
  BY <1>4 DEF Alive
<1>6. QED
  BY <1>1, <1>5, AliveAfter DEF u

LEMMA OweEffect ==
  ASSUME NEW s, NEW t, NEW promise, Alive(s, t, promise), NEW e, e.type = "CommitmentCreated"
  PROVE  Alive(applyEvent(s, e), t, "active")
<1> DEFINE u == Effect(s, e)
<1>1. ~Throws(s, e) /\ s.aborted = FALSE
  BY DEF Throws, Settlements, Alive
<1>2. IsState(s)
  BY DEF Alive
<1>3. u = [s EXCEPT !.promise = "active"]
  BY DEF Effect, Settlements
<1> HIDE DEF u
<1>4. IsState(u) /\ u.open = s.open /\ u.tick = s.tick /\ u.promise = "active"
      /\ u.outcome = s.outcome /\ u.terminal = s.terminal /\ u.aborted = s.aborted
  BY <1>2, <1>3 DEF IsState
<1>5. Alive(u, t, "active")
  BY <1>4 DEF Alive
<1>6. QED
  BY <1>1, <1>5, AliveAfter DEF u

LEMMA CreateIsSane ==
  ASSUME NEW conduct \in Conducts
  PROVE  Sane(createRun(conduct)) /\ createRun(conduct).state.terminal = FALSE
<1> DEFINE fresh == [conduct |-> conduct, log |-> <<>>, state |-> InitialState, inbox |-> <<>>,
                     outbox |-> <<>>, reqs |-> 0, acts |-> 1, fed |-> <<>>, hashes |-> Absent]
           load1 == [Blank EXCEPT !.provider = conduct]
           r1 == emit(fresh, "ScenarioStarted", None, load1)
           e1 == EventOf(fresh, "ScenarioStarted", None, load1)
           load2 == [Blank EXCEPT !.npc = Npc, !.peer = Peer]
           r2 == emit(r1, "CommitmentCreated", None, load2)
           e2 == EventOf(r1, "CommitmentCreated", None, load2)
           scripted == [mode |-> "work", category |-> CategoryOf["work"], firm |-> FALSE,
                        version |-> 2]
           load3 == [Blank EXCEPT !.npc = Npc, !.act = 1, !.desc = scripted,
                                  !.choice = "scripted"]
           r3 == emit(r2, "ActionStarted", None, load3)
<1>1. createRun(conduct) = r3
  BY DEF createRun
<1>2. Shaped(fresh) /\ fresh.state = InitialState /\ fresh.hashes = Absent
  <2>1. IsSeq(<<>>) /\ Len(<<>>) = 0
    BY EmptyIsSeq
  <2>2. QED
    BY <2>1 DEF Shaped, IsRun
<1>3. Alive(fresh.state, 0, "none")
  BY DEF Alive, InitialState, IsState
<1> HIDE DEF fresh, load1, load2, load3, scripted
<1>4. Kept(r1) /\ r1.hashes = Absent /\ r1.state = applyEvent(fresh.state, e1)
      /\ e1.type = "ScenarioStarted"
  BY <1>2, EmitShapes
<1> HIDE DEF r1, e1
<1>5. Alive(r1.state, 0, "none")
  BY <1>3, <1>4, StartEffect
<1>6. Kept(r2) /\ r2.hashes = Absent /\ r2.state = applyEvent(r1.state, e2)
      /\ e2.type = "CommitmentCreated"
  BY <1>4, EmitShapes DEF Kept
<1> HIDE DEF r2, e2
<1>7. Live(r2, 0, "active")
  BY <1>5, <1>6, OweEffect DEF Live
<1>8. Live(r3, 0, "active")
  BY <1>7, EmitCalm DEF Calm
<1> HIDE DEF r3
<1>9. 0 \in 0..(EndTick - 1)
  BY TickAssumption
<1>10. r3.state.tick = 0 /\ r3.state.terminal = FALSE
  BY <1>8 DEF Live, Alive
<1>11. QED
  BY <1>1, <1>8, <1>9, <1>10 DEF Sane, Going

-----------------------------------------------------------------------------
(* Queues of messages                                                      *)

LEMMA Joined ==
  ASSUME NEW a, IsSeq(a), NEW b, IsSeq(b)
  PROVE  /\ IsSeq(a \o b) /\ Len(a \o b) = Len(a) + Len(b)
         /\ \A i \in 1..Len(a) : (a \o b)[i] = a[i]
         /\ \A i \in 1..Len(b) : (a \o b)[Len(a) + i] = b[i]
<1>1. PICK S : a \in Seq(S)
  BY DEF IsSeq
<1>2. PICK T : b \in Seq(T)
  BY DEF IsSeq
<1> DEFINE U == S \cup T
<1>3. a \in Seq(U) /\ b \in Seq(U)
  BY <1>1, <1>2
<1> HIDE DEF U
<1>4. a \o b \in Seq(U) /\ Len(a \o b) = Len(a) + Len(b)
  BY <1>3
<1>5. \A i \in 1..Len(a) : (a \o b)[i] = a[i]
  BY <1>3
<1>6. \A i \in 1..Len(b) : (a \o b)[Len(a) + i] = b[i]
  BY <1>3
<1>7. QED
  BY <1>4, <1>5, <1>6 DEF IsSeq

LEMMA Taken ==
  ASSUME NEW q, IsSeq(q), q # <<>>
  PROVE  /\ Len(q) \in Nat /\ Len(q) >= 1 /\ Head(q) = q[1]
         /\ IsSeq(Tail(q)) /\ Len(Tail(q)) = Len(q) - 1
         /\ \A i \in 1..(Len(q) - 1) : Tail(q)[i] = q[i + 1]
<1>1. PICK S : q \in Seq(S)
  BY DEF IsSeq
<1>2. Tail(q) \in Seq(S) /\ Len(Tail(q)) = Len(q) - 1 /\ Len(q) \in Nat /\ Len(q) >= 1
  BY <1>1
<1>3. \A i \in 1..(Len(q) - 1) : Tail(q)[i] = q[i + 1]
  BY <1>1, <1>2
<1>4. Head(q) = q[1]
  BY <1>1
<1>5. QED
  BY <1>2, <1>3, <1>4 DEF IsSeq

\* To post one message more.
LEMMA PostedLast ==
  ASSUME NEW b, IsSeq(b), NEW l, IsSeq(l), NEW m
  PROVE  b \o Append(l, m) = Append(b \o l, m)
<1>1. PICK S : b \in Seq(S)
  BY DEF IsSeq
<1>2. PICK T : l \in Seq(T)
  BY DEF IsSeq
<1> DEFINE U == (S \cup T) \cup {m}
<1>3. b \in Seq(U) /\ l \in Seq(U) /\ m \in U
  BY <1>1, <1>2
<1> HIDE DEF U
<1>4. Append(l, m) = l \o <<m>> /\ Append(b \o l, m) = (b \o l) \o <<m>>
  <2>1. b \o l \in Seq(U)
    BY <1>3
  <2>2. QED
    BY <1>3, <2>1, AppendIsConcat
<1>5. <<m>> \in Seq(U)
  BY <1>3
<1>6. QED
  BY <1>3, <1>4, <1>5, ConcatAssociative

LEMMA PostedNothing ==
  ASSUME NEW b, IsSeq(b)
  PROVE  b \o <<>> = b
<1>1. PICK S : b \in Seq(S)
  BY DEF IsSeq
<1>2. QED
  BY <1>1, ConcatEmptySeq

LEMMA PostedThen ==
  ASSUME NEW b, IsSeq(b), NEW l, IsSeq(l), NEW m, IsSeq(m)
  PROVE  b \o (l \o m) = (b \o l) \o m
<1>1. PICK S : b \in Seq(S)
  BY DEF IsSeq
<1>2. PICK T : l \in Seq(T)
  BY DEF IsSeq
<1>3. PICK R : m \in Seq(R)
  BY DEF IsSeq
<1> DEFINE U == (S \cup T) \cup R
<1>4. b \in Seq(U) /\ l \in Seq(U) /\ m \in Seq(U)
  BY <1>1, <1>2, <1>3
<1> HIDE DEF U
<1>5. QED
  BY <1>4, ConcatAssociative

-----------------------------------------------------------------------------
(* The last message of some kinds                                          *)

Free(q, kinds) == \A i \in 1..Len(q) : q[i].type \notin kinds

LastOf(q, kinds, i) ==
  q[i].type \in kinds /\ \A j \in (i + 1)..Len(q) : q[j].type \notin kinds

\* r ends like q, for these kinds.
EndsLike(r, q, kinds) ==
  /\ Free(r, kinds) => Free(q, kinds)
  /\ \A i \in 1..Len(r) : LastOf(r, kinds, i) =>
       \E j \in 1..Len(q) : LastOf(q, kinds, j) /\ q[j] = r[i]

\* m is the last of these kinds.
EndsWith(r, m, kinds) ==
  /\ ~Free(r, kinds)
  /\ \A i \in 1..Len(r) : LastOf(r, kinds, i) => r[i] = m

LEMMA EndsLikeItself ==
  ASSUME NEW q, NEW kinds
  PROVE  EndsLike(q, q, kinds)
BY DEF EndsLike

LEMMA AppendedOther ==
  ASSUME NEW q, IsSeq(q), NEW m, NEW kinds, m.type \notin kinds
  PROVE  EndsLike(Append(q, m), q, kinds) /\ (Free(q, kinds) => Free(Append(q, m), kinds))
<1> DEFINE r == Append(q, m)
           n == Len(q)
<1>1. /\ n \in Nat /\ Len(r) = n + 1 /\ r[n + 1] = m /\ \A i \in 1..n : r[i] = q[i]
  BY SeqFacts, Appended
<1> HIDE DEF r
<1>2. Free(r, kinds) => Free(q, kinds)
  BY <1>1 DEF Free
<1>3. Free(q, kinds) => Free(r, kinds)
  BY <1>1 DEF Free
<1>4. ASSUME NEW i \in 1..Len(r), LastOf(r, kinds, i)
      PROVE  \E j \in 1..Len(q) : LastOf(q, kinds, j) /\ q[j] = r[i]
  <2>1. i \in 1..n /\ r[i] = q[i]
    BY <1>1, <1>4 DEF LastOf
  <2>2. LastOf(q, kinds, i)
    BY <1>1, <1>4, <2>1 DEF LastOf
  <2>3. QED
    BY <2>1, <2>2
<1>5. QED
  BY <1>2, <1>3, <1>4 DEF EndsLike, r

LEMMA AppendedSuch ==
  ASSUME NEW q, IsSeq(q), NEW m, NEW kinds, m.type \in kinds
  PROVE  EndsWith(Append(q, m), m, kinds)
<1> DEFINE r == Append(q, m)
           n == Len(q)
<1>1. n \in Nat /\ Len(r) = n + 1 /\ r[n + 1] = m
  BY SeqFacts, Appended
<1> HIDE DEF r
<1>2. n + 1 \in 1..Len(r)
  BY <1>1
<1>3. ~Free(r, kinds)
  BY <1>1, <1>2 DEF Free
<1>4. ASSUME NEW i \in 1..Len(r), LastOf(r, kinds, i) PROVE r[i] = m
  <2>1. CASE i = n + 1
    BY <1>1, <2>1
  <2>2. CASE i # n + 1
    <3>1. n + 1 \in (i + 1)..Len(r)
      BY <1>1, <2>2
    <3>2. QED
      BY <1>1, <1>4, <3>1 DEF LastOf
  <2>3. QED
    BY <2>1, <2>2
<1>5. QED
  BY <1>3, <1>4 DEF EndsWith, r

LEMMA JoinedOther ==
  ASSUME NEW q, IsSeq(q), NEW l, IsSeq(l), NEW kinds, Free(l, kinds)
  PROVE  EndsLike(q \o l, q, kinds) /\ (Free(q, kinds) => Free(q \o l, kinds))
<1> DEFINE r == q \o l
           n == Len(q)
           k == Len(l)
<1>1. /\ n \in Nat /\ k \in Nat /\ Len(r) = n + k
      /\ \A i \in 1..n : r[i] = q[i]
      /\ \A i \in 1..k : r[n + i] = l[i]
  <2>1. n \in Nat /\ k \in Nat
    BY SeqFacts
  <2>2. QED
    BY ONLY IsSeq(q), IsSeq(l), <2>1, Joined
<1> HIDE DEF r
<1>2. \A i \in 1..Len(r) : i \in 1..n \/ (i - n \in 1..k /\ n + (i - n) = i)
  BY <1>1
<1>3. \A i \in 1..Len(r) : i \notin 1..n => r[i].type \notin kinds
  <2> SUFFICES ASSUME NEW i \in 1..Len(r), i \notin 1..n PROVE r[i].type \notin kinds
    OBVIOUS
  <2>1. i - n \in 1..k /\ n + (i - n) = i
    BY <1>2
  <2>2. r[i] = l[i - n]
    BY <1>1, <2>1
  <2>3. QED
    BY <2>1, <2>2 DEF Free
<1>4. Free(r, kinds) => Free(q, kinds)
  BY <1>1 DEF Free
<1>5. Free(q, kinds) => Free(r, kinds)
  BY <1>1, <1>3 DEF Free
<1>6. ASSUME NEW i \in 1..Len(r), LastOf(r, kinds, i)
      PROVE  \E j \in 1..Len(q) : LastOf(q, kinds, j) /\ q[j] = r[i]
  <2>1. i \in 1..n /\ r[i] = q[i]
    BY <1>1, <1>3, <1>6 DEF LastOf
  <2>2. LastOf(q, kinds, i)
    BY <1>1, <1>6, <2>1 DEF LastOf
  <2>3. QED
    BY <2>1, <2>2
<1>7. QED
  BY <1>4, <1>5, <1>6 DEF EndsLike, r

\* To take the first message: either it was the last of its kinds, or the end
\* is the same without it.
LEMMA TakenOther ==
  ASSUME NEW q, IsSeq(q), q # <<>>, NEW kinds,
         Head(q).type \notin kinds \/ ~Free(Tail(q), kinds)
  PROVE  EndsLike(Tail(q), q, kinds)
<1> DEFINE r == Tail(q)
           n == Len(q)
<1>1. /\ n \in Nat /\ n >= 1 /\ Head(q) = q[1] /\ Len(r) = n - 1
      /\ \A i \in 1..(n - 1) : r[i] = q[i + 1]
  BY Taken
<1> HIDE DEF r
<1>2. Free(r, kinds) => Free(q, kinds)
  <2> SUFFICES ASSUME Free(r, kinds), NEW i \in 1..n PROVE q[i].type \notin kinds
    BY DEF Free
  <2>1. CASE i = 1
    BY <1>1, <2>1 DEF r
  <2>2. CASE i # 1
    <3>1. i - 1 \in 1..(n - 1) /\ i - 1 + 1 = i
      BY <1>1, <2>2
    <3>2. r[i - 1] = q[i]
      BY <1>1, <3>1
    <3>3. QED
      BY <1>1, <3>1, <3>2 DEF Free
  <2>3. QED
    BY <2>1, <2>2
<1>3. ASSUME NEW i \in 1..Len(r), LastOf(r, kinds, i)
      PROVE  \E j \in 1..Len(q) : LastOf(q, kinds, j) /\ q[j] = r[i]
  <2>1. i + 1 \in 1..n /\ q[i + 1] = r[i]
    BY <1>1
  <2>2. ASSUME NEW j \in (i + 2)..n PROVE q[j].type \notin kinds
    <3>1. j - 1 \in 1..(n - 1) /\ j - 1 \in (i + 1)..Len(r) /\ j - 1 + 1 = j
      BY <1>1
    <3>2. r[j - 1] = q[j]
      BY <1>1, <3>1
    <3>3. QED
      BY <1>3, <3>1, <3>2 DEF LastOf
  <2>3. LastOf(q, kinds, i + 1)
    <3>1. i + 1 + 1 = i + 2
      BY <1>1
    <3>2. QED
      BY <1>3, <2>1, <2>2, <3>1 DEF LastOf
  <2>4. QED
    BY <2>1, <2>3
<1>4. QED
  BY <1>2, <1>3 DEF EndsLike, r

LEMMA TakenSuch ==
  ASSUME NEW q, IsSeq(q), q # <<>>, NEW kinds, Head(q).type \in kinds, Free(Tail(q), kinds)
  PROVE  1 \in 1..Len(q) /\ LastOf(q, kinds, 1)
<1> DEFINE r == Tail(q)
           n == Len(q)
<1>1. /\ n \in Nat /\ n >= 1 /\ Head(q) = q[1] /\ Len(r) = n - 1
      /\ \A i \in 1..(n - 1) : r[i] = q[i + 1]
  BY Taken
<1> HIDE DEF r
<1>2. ASSUME NEW j \in 2..n PROVE q[j].type \notin kinds
  <2>1. j - 1 \in 1..(n - 1) /\ j - 1 + 1 = j
    BY <1>1
  <2>2. r[j - 1] = q[j]
    BY <1>1, <2>1
  <2>3. QED
    BY <1>1, <2>1, <2>2 DEF Free, r
<1>3. QED
  BY <1>1, <1>2 DEF LastOf

-----------------------------------------------------------------------------
(* What the page will show when it has read its queue q.                   *)

StatusKinds == {"snapshot", "run-complete"}

ShowsStatus(q, p, status) ==
  /\ Free(q, StatusKinds) => p.status = status
  /\ \A i \in 1..Len(q) : LastOf(q, StatusKinds, i) =>
       status = IF q[i].type = "snapshot" THEN q[i].status ELSE "complete"

ShowsTick(q, p, tick) ==
  /\ Free(q, {"snapshot"}) => p.tick = tick
  /\ \A i \in 1..Len(q) : LastOf(q, {"snapshot"}, i) => q[i].tick = tick

ShowsTotal(q, p, total) ==
  /\ Free(q, {"events"}) => p.total = total
  /\ \A i \in 1..Len(q) : LastOf(q, {"events"}, i) => q[i].total = total

Stamps(q, p, run) ==
  Free(q, {"run-complete"}) => p.stamped \/ p.expected # run

MessageOf(m) ==
  /\ m.type = "snapshot" => m.status \in PageStatuses /\ m.tick \in Nat
  /\ m.type = "events" => m.total \in Nat
  /\ m.type = "decision-request" => m.req \in Nat
  /\ m.type = "replay-result" => m.verdict \in {"match", "mismatch", "error"}

Messages(q) == \A i \in 1..Len(q) : MessageOf(q[i])

\* Nothing is told of a run that is announced after its announcement; and an announcement
\* does not say of which run it is, but before the second run it is of the first.
Settled(q, p, s, h) ==
  /\ s.announced => Terminal(h) /\ s.sent = Len(h.run.log) /\ Stamps(q, p, s.runSeq)
  /\ \A i \in 1..Len(q) : q[i].type = "run-complete" /\ s.runSeq <= 1 =>
       s.announced /\ \A j \in (i + 1)..Len(q) : q[j].type # "events"
  /\ p.stamped /\ s.runSeq <= 1 => s.announced /\ Free(q, {"events"})

UpToDate(q, p, s, h) ==
  Loaded(h) /\ s.sent = Len(h.run.log) /\ p.expected = s.runSeq => ShowsTotal(q, p, s.sent)

Base(q, p, s, h) ==
  Messages(q) /\ UpToDate(q, p, s, h) /\ Settled(q, p, s, h)

Shown(q, p, s, h) ==
  ShowsStatus(q, p, s.status) /\ (Loaded(h) => ShowsTick(q, p, h.run.state.tick))

View(q, p, s, h) == Base(q, p, s, h) /\ Shown(q, p, s, h)

LEMMA LikeStatus ==
  ASSUME NEW q, NEW r, NEW p, NEW v, EndsLike(r, q, StatusKinds), ShowsStatus(q, p, v)
  PROVE  ShowsStatus(r, p, v)
BY DEF EndsLike, ShowsStatus

LEMMA LikeTick ==
  ASSUME NEW q, NEW r, NEW p, NEW v, EndsLike(r, q, {"snapshot"}), ShowsTick(q, p, v)
  PROVE  ShowsTick(r, p, v)
BY DEF EndsLike, ShowsTick

LEMMA LikeTotal ==
  ASSUME NEW q, NEW r, NEW p, NEW v, EndsLike(r, q, {"events"}), ShowsTotal(q, p, v)
  PROVE  ShowsTotal(r, p, v)
BY DEF EndsLike, ShowsTotal

LEMMA LikeStamps ==
  ASSUME NEW q, NEW r, NEW p, NEW v, EndsLike(r, q, {"run-complete"}), Stamps(q, p, v)
  PROVE  Stamps(r, p, v)
BY DEF EndsLike, Stamps

-----------------------------------------------------------------------------
(* What is posted.                                                         *)

LEMMA JoinedMessages ==
  ASSUME NEW q, IsSeq(q), NEW l, IsSeq(l), Messages(q), Messages(l)
  PROVE  Messages(q \o l)
<1> DEFINE r == q \o l
           n == Len(q)
           k == Len(l)
<1>1. /\ n \in Nat /\ k \in Nat /\ Len(r) = n + k
      /\ \A i \in 1..n : r[i] = q[i]
      /\ \A i \in 1..k : r[n + i] = l[i]
  <2>1. n \in Nat /\ k \in Nat
    BY SeqFacts
  <2>2. QED
    BY ONLY IsSeq(q), IsSeq(l), <2>1, Joined
<1> HIDE DEF r
<1> SUFFICES ASSUME NEW i \in 1..Len(r) PROVE MessageOf(r[i])
  BY DEF Messages, r
<1>2. CASE i \in 1..n
  BY <1>1, <1>2 DEF Messages
<1>3. CASE i \notin 1..n
  <2>1. i - n \in 1..k /\ n + (i - n) = i
    BY <1>1, <1>3
  <2>2. r[i] = l[i - n]
    BY <1>1, <2>1
  <2>3. QED
    BY <2>1, <2>2 DEF Messages
<1>4. QED
  BY <1>2, <1>3

\* What stands in a joined queue of some kinds that the second part is free of.
LEMMA JoinedFree ==
  ASSUME NEW q, IsSeq(q), NEW l, IsSeq(l), NEW kinds, Free(l, kinds),
         NEW i \in 1..Len(q \o l), (q \o l)[i].type \in kinds
  PROVE  i \in 1..Len(q) /\ (q \o l)[i] = q[i]
<1> DEFINE r == q \o l
           n == Len(q)
           k == Len(l)
<1>1. /\ n \in Nat /\ k \in Nat /\ Len(r) = n + k
      /\ \A j \in 1..n : r[j] = q[j]
      /\ \A j \in 1..k : r[n + j] = l[j]
  <2>1. n \in Nat /\ k \in Nat
    BY SeqFacts
  <2>2. QED
    BY ONLY IsSeq(q), IsSeq(l), <2>1, Joined
<1> HIDE DEF r
<1>2. i \in 1..n
  <2> SUFFICES ASSUME i \notin 1..n PROVE FALSE
    OBVIOUS
  <2>1. i - n \in 1..k /\ n + (i - n) = i
    BY <1>1 DEF r
  <2>2. r[i] = l[i - n]
    BY <1>1, <2>1
  <2>3. QED
    BY <2>1, <2>2 DEF Free, r
<1>3. QED
  BY <1>1, <1>2 DEF r

Aside == {"events", "run-complete"}

LEMMA BaseJoined ==
  ASSUME NEW q, IsSeq(q), NEW l, IsSeq(l), NEW p, NEW s, NEW h, Base(q, p, s, h),
         Messages(l), Free(l, Aside)
  PROVE  Base(q \o l, p, s, h)
<1> DEFINE r == q \o l
<1>1. Free(l, {"events"}) /\ Free(l, {"run-complete"})
  BY DEF Free, Aside
<1>2. Messages(r)
  BY JoinedMessages DEF Base
<1>3. /\ EndsLike(r, q, {"events"}) /\ EndsLike(r, q, {"run-complete"})
      /\ Free(q, {"events"}) => Free(r, {"events"})
  BY <1>1, JoinedOther
<1>4. /\ \A i \in 1..Len(r) : r[i].type = "events" => i \in 1..Len(q) /\ r[i] = q[i]
      /\ \A i \in 1..Len(r) : r[i].type = "run-complete" => i \in 1..Len(q) /\ r[i] = q[i]
  BY <1>1, JoinedFree
<1>5. Len(q) \in Nat /\ Len(r) \in Nat
  <2>1. IsSeq(r)
    BY Joined
  <2>2. QED
    BY <2>1, SeqFacts
<1> HIDE DEF r
<1>6. UpToDate(r, p, s, h)
  BY <1>3, LikeTotal DEF Base, UpToDate
<1>7. ASSUME NEW i \in 1..Len(r), r[i].type = "run-complete", s.runSeq <= 1
      PROVE  s.announced /\ \A j \in (i + 1)..Len(r) : r[j].type # "events"
  <2>1. i \in 1..Len(q) /\ r[i] = q[i]
    BY <1>4, <1>7
  <2>2. s.announced /\ \A j \in (i + 1)..Len(q) : q[j].type # "events"
    BY <1>7, <2>1 DEF Base, Settled
  <2>3. ASSUME NEW j \in (i + 1)..Len(r), r[j].type = "events" PROVE FALSE
    <3>1. j \in 1..Len(r)
      BY <1>5
    <3>2. j \in 1..Len(q) /\ r[j] = q[j]
      BY <1>4, <2>3, <3>1
    <3>3. j \in (i + 1)..Len(q)
      BY <1>5, <3>2
    <3>4. QED
      BY <2>2, <2>3, <3>2, <3>3
  <2>4. QED
    BY <2>2, <2>3
<1>8. s.announced => Stamps(r, p, s.runSeq)
  BY <1>3, LikeStamps DEF Base, Settled
<1>9. Settled(r, p, s, h)
  BY <1>3, <1>7, <1>8 DEF Base, Settled
<1>10. QED
  BY <1>2, <1>6, <1>9 DEF Base, r

\* The total of a run whose log has grown.
LEMMA BaseEvents ==
  ASSUME NEW q, IsSeq(q), NEW p, NEW s, NEW t, NEW h, Base(q, p, s, h), ~s.announced,
         t.runSeq = s.runSeq, t.announced = s.announced, t.sent = Len(h.run.log),
         t.sent \in Nat, NEW m, m.type = "events", m.total = t.sent
  PROVE  Base(Append(q, m), p, t, h)
<1> DEFINE r == Append(q, m)
           n == Len(q)
<1>1. n \in Nat /\ Len(r) = n + 1 /\ r[n + 1] = m /\ \A i \in 1..n : r[i] = q[i]
  BY SeqFacts, Appended
<1>2. EndsWith(r, m, {"events"})
  BY AppendedSuch
<1> HIDE DEF r
<1>3. MessageOf(m)
  BY DEF MessageOf
<1>4. Messages(r)
  BY <1>1, <1>3 DEF Messages, Base
<1>5. ShowsTotal(r, p, t.sent)
  BY <1>2 DEF EndsWith, ShowsTotal
<1>6. ASSUME NEW i \in 1..Len(r), r[i].type = "run-complete", s.runSeq <= 1
      PROVE  FALSE
  <2>1. i \in 1..n /\ r[i] = q[i]
    BY <1>1, <1>6
  <2>2. QED
    BY <1>6, <2>1 DEF Base, Settled
<1>7. Settled(r, p, t, h)
  BY <1>6 DEF Base, Settled
<1>8. QED
  BY <1>4, <1>5, <1>7 DEF Base, UpToDate, r

LEMMA BaseComplete ==
  ASSUME NEW q, IsSeq(q), NEW p, NEW s, NEW t, NEW h, Base(q, p, s, h), ~s.announced,
         t.runSeq = s.runSeq, t.runSeq \in Nat, t.runSeq # 0, t.announced, t.sent = s.sent,
         Terminal(h), s.sent = Len(h.run.log),
         NEW m, m.type = "run-complete"
  PROVE  Base(Append(q, m), p, t, h)
<1> DEFINE r == Append(q, m)
           n == Len(q)
<1>1. n \in Nat /\ Len(r) = n + 1 /\ r[n + 1] = m /\ \A i \in 1..n : r[i] = q[i]
  BY SeqFacts, Appended
<1>2. EndsWith(r, m, {"run-complete"})
  BY AppendedSuch
<1>3. EndsLike(r, q, {"events"})
  BY AppendedOther
<1> HIDE DEF r
<1>4. MessageOf(m)
  BY DEF MessageOf
<1>5. Messages(r)
  BY <1>1, <1>4 DEF Messages, Base
<1>6. UpToDate(r, p, t, h)
  BY <1>3, LikeTotal DEF UpToDate, Base
<1>7. Stamps(r, p, t.runSeq)
  BY <1>2 DEF EndsWith, Stamps
<1>8. ASSUME NEW i \in 1..Len(r), r[i].type = "run-complete", s.runSeq <= 1,
             NEW j \in (i + 1)..Len(r)
      PROVE  FALSE
  <2>1. i \in 1..n
    BY <1>1
  <2>2. r[i] = q[i]
    BY <1>1, <2>1
  <2>3. QED
    BY <1>8, <2>1, <2>2 DEF Base, Settled
<1>9. ~(p.stamped /\ s.runSeq <= 1)
  BY DEF Base, Settled
<1>10. Settled(r, p, t, h)
  BY <1>7, <1>8, <1>9 DEF Settled
<1>11. QED
  BY <1>5, <1>6, <1>10 DEF Base, r

\* What the host did since, with nothing posted.
LEMMA BaseRan ==
  ASSUME NEW q, NEW p, NEW s, NEW t, NEW h, NEW g, Base(q, p, s, h),
         t.runSeq = s.runSeq, t.sent = s.sent, t.announced = s.announced,
         Loaded(g) => Loaded(h) /\ s.sent = Len(h.run.log),
         Terminal(h) => Terminal(g) /\ Len(g.run.log) = Len(h.run.log)
  PROVE  Base(q, p, t, g)
<1>1. UpToDate(q, p, t, g)
  BY DEF Base, UpToDate
<1>2. Settled(q, p, t, g)
  BY DEF Base, Settled
<1>3. QED
  BY <1>1, <1>2 DEF Base

LEMMA BaseRestarts ==
  ASSUME NEW q, NEW p, NEW s, NEW h, Base(q, p, s, h), s.runSeq \in Nat,
         s.runSeq = 0 => ~s.announced, NEW g, Len(g.run.log) > 0
  PROVE  Base(q, p, Fresh(s), g)
<1> DEFINE t == Fresh(s)
<1>1. t.sent = 0 /\ t.runSeq = s.runSeq + 1 /\ t.announced = FALSE
  BY DEF Fresh
<1> HIDE DEF t
<1>2. t.runSeq <= 1 => s.runSeq = 0 /\ s.runSeq <= 1 /\ ~s.announced
  BY <1>1
<1>3. ~(p.stamped /\ t.runSeq <= 1)
  BY <1>2 DEF Base, Settled
<1>4. UpToDate(q, p, t, g)
  BY <1>1 DEF UpToDate
<1>5. ASSUME NEW i \in 1..Len(q), q[i].type = "run-complete", t.runSeq <= 1 PROVE FALSE
  BY <1>2, <1>5 DEF Base, Settled
<1>6. Settled(q, p, t, g)
  BY <1>1, <1>3, <1>5 DEF Settled
<1>7. QED
  BY <1>4, <1>6 DEF Base, t

-----------------------------------------------------------------------------
(* The worker's pushes, field by field.                                    *)

Packed(o) == IsOutcome(o) /\ IsSession(o.session) /\ IsHost(o.host) /\ IsSeq(o.out)

LEMMA Packs ==
  ASSUME NEW s, IsSession(s), NEW h, IsHost(h), NEW out, IsSeq(out)
  PROVE  LET o == Outcome(s, h, out)
         IN Packed(o) /\ o.session = s /\ o.host = h /\ o.out = out
BY OutcomeFields DEF Packed

LEMMA OutFields ==
  ASSUME NEW o, Packed(o), NEW x, IsSeq(x)
  PROVE  LET d == [o EXCEPT !.out = x]
         IN Packed(d) /\ d.session = o.session /\ d.host = o.host /\ d.out = x
BY DEF Packed, IsOutcome

LEMMA SessionFields ==
  ASSUME NEW o, Packed(o), NEW t, IsSession(t)
  PROVE  LET d == [o EXCEPT !.session = t]
         IN Packed(d) /\ d.session = t /\ d.host = o.host /\ d.out = o.out
BY DEF Packed, IsOutcome

WithSession(o, t, x) == [o EXCEPT !.session = t, !.out = x]
WithHost(o, g, x) == [o EXCEPT !.host = g, !.out = x]

LEMMA SessionOutFields ==
  ASSUME NEW o, Packed(o), NEW t, IsSession(t), NEW x, IsSeq(x)
  PROVE  LET d == WithSession(o, t, x)
         IN Packed(d) /\ d.session = t /\ d.host = o.host /\ d.out = x
<1> DEFINE d == WithSession(o, t, x)
<1>0. d = [o EXCEPT !.session = t, !.out = x]
  BY DEF WithSession
<1> HIDE DEF d
<1>1. IsOutcome(o) /\ IsHost(o.host)
  BY DEF Packed
<1>2. d.session = t /\ d.host = o.host /\ d.out = x
  BY <1>0, <1>1 DEF IsOutcome
<1>3. IsOutcome(d)
  BY <1>0, <1>1 DEF IsOutcome
<1>4. QED
  BY <1>1, <1>2, <1>3 DEF Packed, d

LEMMA HostOutFields ==
  ASSUME NEW o, Packed(o), NEW g, IsHost(g), NEW x, IsSeq(x)
  PROVE  LET d == WithHost(o, g, x)
         IN Packed(d) /\ d.session = o.session /\ d.host = g /\ d.out = x
<1> DEFINE d == WithHost(o, g, x)
<1>0. d = [o EXCEPT !.host = g, !.out = x]
  BY DEF WithHost
<1> HIDE DEF d
<1>1. IsOutcome(o) /\ IsSession(o.session)
  BY DEF Packed
<1>2. d.session = o.session /\ d.host = g /\ d.out = x
  BY <1>0, <1>1 DEF IsOutcome
<1>3. IsOutcome(d)
  BY <1>0, <1>1 DEF IsOutcome
<1>4. QED
  BY <1>1, <1>2, <1>3 DEF Packed, d

LEMMA AnnouncedFields ==
  ASSUME NEW s, IsSession(s)
  PROVE  LET t == [s EXCEPT !.announced = TRUE]
         IN IsSession(t) /\ t.announced /\ t.announced \in BOOLEAN /\ t.status = s.status
            /\ t.sent = s.sent /\ t.runSeq = s.runSeq
<1> DEFINE t == [s EXCEPT !.announced = TRUE]
<1>1. t = [s EXCEPT !.announced = TRUE]
  OBVIOUS
<1> HIDE DEF t
<1>2. t.announced /\ t.announced \in BOOLEAN /\ t.status = s.status /\ t.sent = s.sent
      /\ t.runSeq = s.runSeq
  BY <1>1 DEF IsSession
<1>3. IsSession(t)
  BY <1>1 DEF IsSession
<1>4. QED
  BY <1>2, <1>3 DEF t

LEMMA SentFields ==
  ASSUME NEW s, IsSession(s), NEW n
  PROVE  LET t == [s EXCEPT !.sent = n]
         IN IsSession(t) /\ t.sent = n /\ t.status = s.status /\ t.announced = s.announced
            /\ t.runSeq = s.runSeq
BY DEF IsSession

LEMMA SyncFields ==
  ASSUME NEW o, Packed(o)
  PROVE  LET d == syncTerminalStatus(o)
         IN /\ Packed(d) /\ d.host = o.host /\ d.out = o.out
            /\ d.session = IF Terminal(o.host) THEN [o.session EXCEPT !.status = "complete"]
                           ELSE o.session
<1> DEFINE t == [o.session EXCEPT !.status = "complete"]
           d == [o EXCEPT !.session = t]
<1>1. IsSession(t)
  BY StatusFields DEF Packed
<1> HIDE DEF t
<1>2. Packed(d) /\ d.session = t /\ d.host = o.host /\ d.out = o.out
  BY <1>1, SessionFields
<1> HIDE DEF d
<1>3. syncTerminalStatus(o) = IF Terminal(o.host) THEN d ELSE o
  BY DEF syncTerminalStatus, d, t
<1>4. QED
  BY <1>2, <1>3 DEF t

LEMMA SnapshotFields ==
  ASSUME NEW o, Packed(o), Loaded(o.host)
  PROVE  LET d == pushSnapshot(o)
             m == [type |-> "snapshot", status |-> o.session.status,
                   tick |-> o.host.run.state.tick]
         IN /\ Packed(d) /\ d.session = o.session /\ d.host = o.host
            /\ d.out = Append(o.out, m)
<1> DEFINE m == [type |-> "snapshot", status |-> o.session.status,
                 tick |-> o.host.run.state.tick]
           x == Append(o.out, m)
<1>1. pushSnapshot(o) = [o EXCEPT !.out = x]
  BY DEF pushSnapshot
<1>2. IsSeq(x)
  BY Appended DEF Packed
<1> HIDE DEF x, m
<1> DEFINE d == [o EXCEPT !.out = x]
<1>3. Packed(d) /\ d.session = o.session /\ d.host = o.host /\ d.out = x
  BY <1>2, OutFields
<1> HIDE DEF d
<1>4. pushSnapshot(o) = d
  BY <1>1 DEF d
<1>5. d.out = Append(o.out, m)
  BY <1>3 DEF x
<1>6. QED
  BY <1>3, <1>4, <1>5 DEF m

LEMMA EventsFields ==
  ASSUME NEW o, Packed(o), Len(o.host.run.log) # o.session.sent
  PROVE  LET d == pushNewEvents(o)
             n == Len(o.host.run.log)
             m == [type |-> "events", total |-> n]
         IN /\ Packed(d) /\ d.host = o.host /\ d.out = Append(o.out, m)
            /\ d.session = [o.session EXCEPT !.sent = n]
<1> DEFINE n == Len(o.host.run.log)
           m == [type |-> "events", total |-> n]
           x == Append(o.out, m)
           t == [o.session EXCEPT !.sent = n]
<1>1. pushNewEvents(o) = [o EXCEPT !.session = t, !.out = x]
  <2>1. pushNewEvents(o) = [o EXCEPT !.session.sent = n, !.out = x]
    BY DEF pushNewEvents
  <2>2. [o EXCEPT !.session.sent = n, !.out = x] = [o EXCEPT !.session = t, !.out = x]
    OBVIOUS
  <2>3. QED
    BY <2>1, <2>2
<1>2. IsSeq(x)
  BY Appended DEF Packed
<1>3. IsSession(t)
  BY SentFields DEF Packed
<1> HIDE DEF x, t
<1> DEFINE d == pushNewEvents(o)
<1> HIDE DEF d
<1>4. Packed(d) /\ d.session = t /\ d.host = o.host /\ d.out = x
  <2>1. d = WithSession(o, t, x)
    BY <1>1 DEF d, WithSession
  <2>2. QED
    BY <1>2, <1>3, <2>1, SessionOutFields
<1>5. QED
  BY <1>4 DEF x, t, d

Forwards(l, outbox) ==
  /\ IsSeq(l) /\ Len(l) = Len(outbox)
  /\ \A i \in 1..Len(l) : l[i].type = "decision-request" /\ l[i].req = outbox[i]

LEMMA RequestsFields ==
  ASSUME NEW o, Packed(o), IsSeq(o.host.run.outbox)
  PROVE  LET d == pushExternalDecisionRequests(o)
         IN /\ Packed(d) /\ d.session = o.session
            /\ d.host = OnRun(o.host, [o.host.run EXCEPT !.outbox = <<>>])
            /\ \E l : Forwards(l, o.host.run.outbox) /\ d.out = o.out \o l
<1> DEFINE box == o.host.run.outbox
           l == [i \in DOMAIN box |-> [type |-> "decision-request", req |-> box[i],
                                       runSeq |-> o.session.runSeq]]
           x == o.out \o l
           left == [o.host.run EXCEPT !.outbox = <<>>]
           g == OnRun(o.host, left)
           d == pushExternalDecisionRequests(o)
<1>1. d = WithHost(o, g, x)
  BY DEF pushExternalDecisionRequests, OnRun, WithHost
<1>2. DOMAIN box = 1..Len(box) /\ Len(box) \in Nat
  BY SeqFacts
<1>3. Forwards(l, box)
  <2> HIDE DEF box
  <2>1. l \in Seq({l[i] : i \in 1..Len(box)})
    BY <1>2
  <2>2. IsSeq(l)
    <3> HIDE DEF l
    <3>1. QED
      BY <2>1 DEF IsSeq
  <2>3. Len(l) = Len(box)
    BY <1>2
  <2>4. \A i \in 1..Len(box) : l[i].type = "decision-request" /\ l[i].req = box[i]
    BY <1>2
  <2> HIDE DEF l
  <2>5. QED
    BY <2>2, <2>3, <2>4 DEF Forwards
<1> HIDE DEF l
<1>4. IsSeq(x)
  BY <1>3, Joined DEF Packed, Forwards
<1> HIDE DEF left
<1>5. IsHost(g)
  BY OnRunFields DEF Packed
<1> HIDE DEF g, x, d
<1>6. Packed(d) /\ d.session = o.session /\ d.host = g /\ d.out = x
  BY <1>1, <1>4, <1>5, HostOutFields
<1>7. QED
  BY <1>3, <1>6 DEF x, g, left, d

LEMMA AnnounceFields ==
  ASSUME NEW o, Packed(o), Terminal(o.host), o.host.run.hashes # Absent, ~o.session.announced
  PROVE  LET d == maybeAnnounceCompletion(o)
             m == [type |-> "run-complete"]
         IN /\ Packed(d) /\ d.host = o.host /\ d.out = Append(o.out, m)
            /\ d.session = [o.session EXCEPT !.announced = TRUE]
<1> DEFINE m == [type |-> "run-complete"]
           x == Append(o.out, m)
           t == [o.session EXCEPT !.announced = TRUE]
           d == maybeAnnounceCompletion(o)
<1>1. d = WithSession(o, t, x)
  <2>1. maybeAnnounceCompletion(o) = [o EXCEPT !.session.announced = TRUE, !.out = x]
    BY DEF maybeAnnounceCompletion
  <2>2. [o EXCEPT !.session.announced = TRUE, !.out = x] = [o EXCEPT !.session = t, !.out = x]
    OBVIOUS
  <2>3. QED
    BY <2>1, <2>2 DEF WithSession
<1>2. IsSeq(x)
  BY Appended DEF Packed
<1>3. IsSession(t)
  BY AnnouncedFields DEF Packed
<1> HIDE DEF x, t, d
<1>4. Packed(d) /\ d.session = t /\ d.host = o.host /\ d.out = x
  BY <1>1, <1>2, <1>3, SessionOutFields
<1>5. QED
  BY <1>4 DEF x, t, d

-----------------------------------------------------------------------------
(* A batch of pushes shows the run.                                        *)

SessionStatuses == PageStatuses \ {"importing", "replaying"}

Numbers(s) ==
  s.status \in SessionStatuses /\ s.sent \in Nat /\ s.runSeq \in Nat /\ s.announced \in BOOLEAN

LEMMA SaneFacts ==
  ASSUME NEW r, Sane(r)
  PROVE  /\ Kept(r) /\ r # Absent /\ r.state.tick \in Nat /\ r.state.terminal \in BOOLEAN
         /\ Len(r.log) \in Nat /\ Len(r.log) > 0 /\ r.conduct \in Conducts
         /\ r.state.terminal => r.hashes # Absent
<1>1. Kept(r)
  BY DEF Sane, Going, Live, Over
<1>2. r # Absent
  BY <1>1 DEF Kept, Shaped, IsRun, Absent
<1>3. r.state.tick \in Nat /\ r.state.terminal \in BOOLEAN
  <2>1. r.state.terminal = FALSE \/ r.state.terminal = TRUE
    BY DEF Sane, Over
  <2>2. r.state.tick \in Nat
    BY DEF Sane, Going
  <2>3. QED
    BY <2>1, <2>2
<1>4. Len(r.log) \in Nat /\ Len(r.log) > 0 /\ r.conduct \in Conducts
  BY <1>1, SeqFacts DEF Kept, Shaped
<1>5. r.state.terminal => r.hashes # Absent
  BY DEF Sane, Over
<1>6. QED
  BY <1>1, <1>2, <1>3, <1>4, <1>5

LEMMA SentIsSane ==
  ASSUME NEW r, Sane(r)
  PROVE  LET d == [r EXCEPT !.outbox = <<>>]
         IN Sane(d) /\ d.state = r.state /\ d.log = r.log /\ d.hashes = r.hashes
<1> DEFINE d == [r EXCEPT !.outbox = <<>>]
<1>1. Kept(r) /\ d = [r EXCEPT !.outbox = <<>>]
  BY SaneFacts
<1>2. IsSeq(<<>>) /\ Len(<<>>) = 0
  BY EmptyIsSeq
<1> HIDE DEF d
<1>3. IsRun(d) /\ d.state = r.state /\ d.log = r.log /\ d.hashes = r.hashes
      /\ d.conduct = r.conduct /\ d.reqs = r.reqs /\ d.inbox = r.inbox /\ d.outbox = <<>>
  BY <1>1 DEF Kept, Shaped, IsRun
<1>4. Kept(d)
  BY <1>1, <1>2, <1>3 DEF Kept, Shaped
<1>5. Sane(d)
  BY <1>3, <1>4 DEF Sane, Going, Live, Over
<1>6. QED
  BY <1>3, <1>5 DEF d

LEMMA AnsweredIsSane ==
  ASSUME NEW r, Sane(r), NEW x
  PROVE  LET d == [r EXCEPT !.inbox = Append(r.inbox, x)]
         IN Sane(d) /\ d.state = r.state /\ d.log = r.log /\ d.hashes = r.hashes
<1> DEFINE l == Append(r.inbox, x)
           d == [r EXCEPT !.inbox = l]
<1>1. Kept(r)
  BY SaneFacts
<1>2. IsSeq(l)
  BY <1>1, Appended DEF Kept, Shaped
<1> HIDE DEF l
<1>0. d = [r EXCEPT !.inbox = l]
  OBVIOUS
<1> HIDE DEF d
<1>3. IsRun(d) /\ d.state = r.state /\ d.log = r.log /\ d.hashes = r.hashes
      /\ d.conduct = r.conduct /\ d.reqs = r.reqs /\ d.inbox = l /\ d.outbox = r.outbox
  BY <1>0, <1>1 DEF Kept, Shaped, IsRun
<1>4. Kept(d)
  BY <1>1, <1>2, <1>3 DEF Kept, Shaped
<1>5. Sane(d)
  BY <1>3, <1>4 DEF Sane, Going, Live, Over
<1>6. QED
  BY <1>3, <1>5 DEF d, l

LEMMA OneMessage ==
  ASSUME NEW q, IsSeq(q), NEW m
  PROVE  IsSeq(<<m>>) /\ Append(q, m) = q \o <<m>>
<1>1. PICK S : q \in Seq(S)
  BY DEF IsSeq
<1> DEFINE U == S \cup {m}
<1>2. q \in Seq(U) /\ m \in U
  BY <1>1
<1> HIDE DEF U
<1>3. Append(q, m) = q \o <<m>>
  BY <1>2, AppendIsConcat
<1>4. <<m>> \in Seq(U)
  BY <1>2
<1>5. QED
  BY <1>3, <1>4 DEF IsSeq

LEMMA BaseAppended ==
  ASSUME NEW q, IsSeq(q), NEW p, NEW s, NEW h, Base(q, p, s, h),
         NEW m, MessageOf(m), m.type \notin Aside
  PROVE  Base(Append(q, m), p, s, h)
<1> DEFINE l == <<m>>
<1>1. IsSeq(l) /\ Append(q, m) = q \o l
  BY OneMessage
<1>2. Len(l) = 1 /\ l[1] = m
  OBVIOUS
<1> HIDE DEF l
<1>3. \A i \in 1..Len(l) : i = 1
  BY <1>2
<1>4. Messages(l) /\ Free(l, Aside)
  BY <1>2, <1>3 DEF Messages, Free
<1>5. Base(q \o l, p, s, h)
  BY <1>1, <1>4, BaseJoined
<1>6. QED
  BY <1>1, <1>5

LEMMA ViewSnapshot ==
  ASSUME NEW q, IsSeq(q), NEW p, NEW s, NEW h, Base(q, p, s, h), Loaded(h), Sane(h.run),
         NEW status \in PageStatuses
  PROVE  LET m == [type |-> "snapshot", status |-> status, tick |-> h.run.state.tick]
         IN /\ Base(Append(q, m), p, s, h)
            /\ status = s.status => Shown(Append(q, m), p, s, h)
<1> DEFINE m == [type |-> "snapshot", status |-> status, tick |-> h.run.state.tick]
<1>1. h.run.state.tick \in Nat
  BY SaneFacts
<1>2. m.type = "snapshot" /\ m.status = status /\ m.tick = h.run.state.tick
  OBVIOUS
<1> HIDE DEF m
<1>3. MessageOf(m) /\ m.type \notin Aside
  BY <1>1, <1>2 DEF MessageOf, Aside
<1>4. Base(Append(q, m), p, s, h)
  BY <1>3, BaseAppended
<1>5. EndsWith(Append(q, m), m, StatusKinds) /\ EndsWith(Append(q, m), m, {"snapshot"})
  BY <1>2, AppendedSuch DEF StatusKinds
<1>6. status = s.status => ShowsStatus(Append(q, m), p, s.status)
  BY <1>2, <1>5 DEF EndsWith, ShowsStatus
<1>7. ShowsTick(Append(q, m), p, h.run.state.tick)
  BY <1>2, <1>5 DEF EndsWith, ShowsTick
<1>8. QED
  BY <1>4, <1>6, <1>7 DEF Shown, m

LEMMA ViewOther ==
  ASSUME NEW q, IsSeq(q), NEW p, NEW s, NEW h, NEW m, MessageOf(m),
         m.type \notin Aside \cup {"snapshot"}
  PROVE  /\ Base(q, p, s, h) => Base(Append(q, m), p, s, h)
         /\ Shown(q, p, s, h) => Shown(Append(q, m), p, s, h)
<1>1. Base(q, p, s, h) => Base(Append(q, m), p, s, h)
  BY BaseAppended
<1>2. EndsLike(Append(q, m), q, StatusKinds) /\ EndsLike(Append(q, m), q, {"snapshot"})
  BY AppendedOther DEF StatusKinds, Aside
<1>3. QED
  BY <1>1, <1>2, LikeStatus, LikeTick DEF Shown

-----------------------------------------------------------------------------
\* What is on its way to the page, with what the worker is about to post.
Whole(b, o) == b \o o.out

\* A worker with a run, between two pushes.
Pushing(b, p, o) ==
  /\ Packed(o) /\ Numbers(o.session) /\ o.session.runSeq # 0
  /\ Loaded(o.host) /\ Sane(o.host.run)
  /\ Base(Whole(b, o), p, o.session, o.host)

Synced(o) == o.session.status = "complete" <=> o.host.run.state.terminal

Informed(b, p, o) ==
  Pushing(b, p, o) /\ Synced(o) /\ Shown(Whole(b, o), p, o.session, o.host)

Caught(b, p, o) == Informed(b, p, o) /\ o.session.sent = Len(o.host.run.log)

SameEnd(o, d) ==
  /\ d.session.announced = o.session.announced /\ d.session.runSeq = o.session.runSeq
  /\ d.host.run.state.terminal = o.host.run.state.terminal

\* One message more is posted.
Posts(o, d, m) == d.out = Append(o.out, m)

LEMMA PostedOne ==
  ASSUME NEW b, IsSeq(b), NEW o, Packed(o), NEW d, NEW m, Posts(o, d, m)
  PROVE  Whole(b, d) = Append(Whole(b, o), m) /\ IsSeq(Whole(b, o))
<1>1. IsSeq(o.out)
  BY DEF Packed
<1>2. b \o Append(o.out, m) = Append(b \o o.out, m)
  BY <1>1, PostedLast
<1>3. IsSeq(b \o o.out)
  BY <1>1, Joined
<1>4. QED
  BY <1>2, <1>3 DEF Posts, Whole

LEMMA PostedMore ==
  ASSUME NEW b, IsSeq(b), NEW o, Packed(o), NEW l, IsSeq(l), NEW d, d.out = o.out \o l
  PROVE  Whole(b, d) = Whole(b, o) \o l
<1> DEFINE x == o.out
           y == d.out
<1>1. IsSeq(x) /\ y = x \o l
  BY DEF Packed
<1>2. Whole(b, d) = b \o y /\ Whole(b, o) = b \o x
  BY DEF Whole
<1> HIDE DEF x, y
<1>3. b \o (x \o l) = (b \o x) \o l
  BY <1>1, PostedThen
<1>4. QED
  BY <1>1, <1>2, <1>3

LEMMA SyncShows ==
  ASSUME NEW b, NEW p, NEW o, Pushing(b, p, o),
         o.session.status = "complete" => o.host.run.state.terminal
  PROVE  LET d == syncTerminalStatus(o)
         IN Pushing(b, p, d) /\ Synced(d) /\ SameEnd(o, d)
<1> DEFINE d == syncTerminalStatus(o)
           s == o.session
           t == [s EXCEPT !.status = "complete"]
<1>1. Packed(o) /\ Numbers(s) /\ IsSession(s)
  BY DEF Pushing, Packed
<1>2. /\ Packed(d) /\ d.host = o.host /\ d.out = o.out
      /\ d.session = IF Terminal(o.host) THEN t ELSE s
  BY <1>1, SyncFields
<1>3. t.status = "complete" /\ t.sent = s.sent /\ t.announced = s.announced
      /\ t.runSeq = s.runSeq
  BY <1>1 DEF IsSession
<1> HIDE DEF d, t
<1>4. d.session.sent = s.sent /\ d.session.announced = s.announced
      /\ d.session.runSeq = s.runSeq
      /\ d.session.status = IF Terminal(o.host) THEN "complete" ELSE s.status
  BY <1>2, <1>3
<1>5. "complete" \in SessionStatuses
  BY DEF SessionStatuses, PageStatuses
<1>6. Numbers(d.session)
  BY <1>1, <1>4, <1>5 DEF Numbers
<1>7. Whole(b, d) = Whole(b, o)
  BY <1>2 DEF Whole
<1>8. Base(Whole(b, d), p, d.session, d.host)
  BY <1>2, <1>4, <1>7 DEF Pushing, Base, UpToDate, Settled
<1>9. Pushing(b, p, d)
  BY <1>2, <1>4, <1>6, <1>8 DEF Pushing
<1>10. Synced(d)
  BY <1>2, <1>4 DEF Synced, Terminal, Pushing
<1>11. QED
  BY <1>2, <1>4, <1>9, <1>10 DEF SameEnd, d

LEMMA SnapshotShows ==
  ASSUME NEW b, IsSeq(b), NEW p, NEW o, Pushing(b, p, o), Synced(o)
  PROVE  LET d == pushSnapshot(o)
         IN Informed(b, p, d) /\ SameEnd(o, d) /\ d.session = o.session /\ d.host = o.host
<1> DEFINE d == pushSnapshot(o)
           m == [type |-> "snapshot", status |-> o.session.status,
                 tick |-> o.host.run.state.tick]
<1>1. Packed(o) /\ Loaded(o.host)
  BY DEF Pushing
<1>2. /\ Packed(d) /\ d.session = o.session /\ d.host = o.host
      /\ d.out = Append(o.out, m)
  BY <1>1, SnapshotFields
<1> HIDE DEF d, m
<1>3. Whole(b, d) = Append(Whole(b, o), m) /\ IsSeq(Whole(b, o))
  <2>1. Packed(o)
    BY <1>1
  <2>2. Posts(o, d, m)
    BY <1>2 DEF Posts
  <2>3. QED
    BY <2>1, <2>2, PostedOne
<1>4. o.session.status \in PageStatuses
  BY DEF Pushing, Numbers, SessionStatuses
<1>5. /\ Base(Append(Whole(b, o), m), p, o.session, o.host)
      /\ Shown(Append(Whole(b, o), m), p, o.session, o.host)
  BY <1>3, <1>4, ViewSnapshot DEF Pushing, m
<1>6. QED
  BY <1>2, <1>3, <1>5 DEF Informed, Pushing, Synced, SameEnd, d

LEMMA EventsShow ==
  ASSUME NEW b, IsSeq(b), NEW p, NEW o, Informed(b, p, o)
  PROVE  LET d == pushNewEvents(o) IN Caught(b, p, d) /\ SameEnd(o, d)
<1> DEFINE d == pushNewEvents(o)
           s == o.session
           n == Len(o.host.run.log)
           m == [type |-> "events", total |-> n]
           t == [s EXCEPT !.sent = n]
<1>1. Packed(o) /\ Loaded(o.host) /\ Sane(o.host.run) /\ Numbers(s) /\ IsSession(s)
      /\ Base(Whole(b, o), p, s, o.host) /\ Shown(Whole(b, o), p, s, o.host) /\ s.runSeq # 0
  BY DEF Pushing, Informed, Packed
<1>2. n \in Nat
  BY <1>1, SaneFacts
<1>3. CASE n = s.sent
  <2>1. d = o
    BY <1>3 DEF pushNewEvents
  <2>2. QED
    BY <1>3, <2>1 DEF Caught, SameEnd
<1>4. CASE n # s.sent
  <2>1. /\ Packed(d) /\ d.host = o.host /\ d.out = Append(o.out, m) /\ d.session = t
    BY <1>1, <1>4, EventsFields
  <2>2. t.status = s.status /\ t.sent = n /\ t.announced = s.announced /\ t.runSeq = s.runSeq
    BY <1>1, SentFields
  <2>3. m.type = "events" /\ m.total = n
    OBVIOUS
  <2> HIDE DEF d, t, m
  <2>4. Whole(b, d) = Append(Whole(b, o), m) /\ IsSeq(Whole(b, o))
    <3>1. Posts(o, d, m)
      BY <2>1 DEF Posts
    <3>2. QED
      BY <1>1, <3>1, PostedOne
  <2>5. ~s.announced
    BY <1>1, <1>4 DEF Base, Settled
  <2>6. Base(Append(Whole(b, o), m), p, t, o.host)
    BY <1>1, <1>2, <2>2, <2>3, <2>4, <2>5, BaseEvents
  <2>7. /\ EndsLike(Append(Whole(b, o), m), Whole(b, o), StatusKinds)
        /\ EndsLike(Append(Whole(b, o), m), Whole(b, o), {"snapshot"})
    BY <2>3, <2>4, AppendedOther DEF StatusKinds
  <2>8. Shown(Append(Whole(b, o), m), p, t, o.host)
    BY <1>1, <2>2, <2>7, LikeStatus, LikeTick DEF Shown
  <2>9. Numbers(t)
    BY <1>1, <1>2, <2>2 DEF Numbers
  <2>10. Pushing(b, p, d)
    BY <1>1, <2>1, <2>2, <2>4, <2>6, <2>9 DEF Pushing
  <2>11. Synced(d)
    BY <2>1, <2>2 DEF Informed, Synced
  <2>12. QED
    BY <2>1, <2>2, <2>4, <2>8, <2>10, <2>11 DEF Caught, Informed, SameEnd, d
<1>5. QED
  BY <1>3, <1>4

LEMMA RequestsShow ==
  ASSUME NEW b, IsSeq(b), NEW p, NEW o, Caught(b, p, o)
  PROVE  LET d == pushExternalDecisionRequests(o) IN Caught(b, p, d) /\ SameEnd(o, d)
<1> DEFINE d == pushExternalDecisionRequests(o)
           r == o.host.run
           left == [r EXCEPT !.outbox = <<>>]
           g == OnRun(o.host, left)
           s == o.session
           q == Whole(b, o)
<1>1. Packed(o) /\ Loaded(o.host) /\ Sane(r) /\ Numbers(s) /\ IsHost(o.host)
      /\ Base(q, p, s, o.host) /\ Shown(q, p, s, o.host) /\ s.sent = Len(r.log)
  BY DEF Pushing, Informed, Packed, Caught
<1>2. IsSeq(r.outbox) /\ \A i \in 1..Len(r.outbox) : r.outbox[i] \in Nat
  BY <1>1, SaneFacts DEF Kept, Shaped
<1>3. /\ Packed(d) /\ d.session = s /\ d.host = g
      /\ \E l : Forwards(l, r.outbox) /\ d.out = o.out \o l
  BY <1>1, <1>2, RequestsFields
<1>4. Sane(left) /\ left.state = r.state /\ left.log = r.log /\ left.hashes = r.hashes
  BY <1>1, SentIsSane
<1> HIDE DEF left, d
<1>5. g.run = left /\ IsHost(g)
  BY <1>1, OnRunFields
<1> HIDE DEF g
<1>6. PICK l : Forwards(l, r.outbox) /\ d.out = o.out \o l
  BY <1>3
<1>7. IsSeq(q) /\ IsSeq(l) /\ IsSeq(o.out)
  BY <1>1, <1>6, Joined DEF Whole, Packed, Forwards
<1>8. Whole(b, d) = q \o l
  <2>1. d.out = o.out \o l /\ Packed(o) /\ IsSeq(l)
    BY <1>1, <1>6, <1>7
  <2>2. Whole(b, d) = Whole(b, o) \o l
    BY ONLY IsSeq(b), <2>1, PostedMore
  <2>3. QED
    BY <2>2
<1> HIDE DEF q
<1>9. Messages(l) /\ Free(l, Aside)
  BY <1>2, <1>6 DEF Forwards, Messages, MessageOf, Free, Aside
<1>10. Free(l, StatusKinds) /\ Free(l, {"snapshot"})
  BY <1>6 DEF Forwards, Free, StatusKinds
<1>11. Base(q \o l, p, s, o.host)
  BY <1>1, <1>7, <1>9, BaseJoined
<1>12. EndsLike(q \o l, q, StatusKinds) /\ EndsLike(q \o l, q, {"snapshot"})
  BY <1>7, <1>10, JoinedOther
<1>13. Shown(q \o l, p, s, o.host)
  BY <1>1, <1>12, LikeStatus, LikeTick DEF Shown
<1>14. Loaded(g)
  BY <1>4, <1>5, SaneFacts DEF Loaded
<1>15. Base(q \o l, p, s, g)
  BY <1>1, <1>4, <1>5, <1>11, <1>14 DEF Base, UpToDate, Settled, Terminal
<1>16. Shown(q \o l, p, s, g)
  BY <1>1, <1>4, <1>5, <1>13 DEF Shown
<1>17. Pushing(b, p, d)
  BY <1>3, <1>4, <1>5, <1>8, <1>14, <1>15 DEF Caught, Informed, Pushing
<1>18. Synced(d)
  BY <1>3, <1>4, <1>5 DEF Caught, Informed, Synced
<1>19. QED
  BY <1>3, <1>4, <1>5, <1>8, <1>16, <1>17, <1>18 DEF Caught, Informed, SameEnd, d

LEMMA AnnounceShows ==
  ASSUME NEW b, IsSeq(b), NEW p, NEW o, Caught(b, p, o)
  PROVE  LET d == maybeAnnounceCompletion(o)
         IN /\ Caught(b, p, d) /\ (Terminal(d.host) => d.session.announced)
            /\ d.session.runSeq = o.session.runSeq
<1> DEFINE d == maybeAnnounceCompletion(o)
           s == o.session
           q == Whole(b, o)
           m == [type |-> "run-complete"]
           t == [s EXCEPT !.announced = TRUE]
<1>1. Packed(o) /\ Loaded(o.host) /\ Sane(o.host.run) /\ Numbers(s) /\ IsSession(s)
      /\ Base(q, p, s, o.host) /\ Shown(q, p, s, o.host) /\ s.sent = Len(o.host.run.log)
      /\ s.runSeq # 0 /\ Synced(o)
  BY DEF Pushing, Informed, Packed, Caught
<1>2. Terminal(o.host) => o.host.run.hashes # Absent
  BY <1>1, SaneFacts DEF Terminal
<1>3. CASE ~Terminal(o.host) \/ s.announced
  <2>1. d = o
    BY <1>3 DEF maybeAnnounceCompletion
  <2>2. QED
    BY <1>3, <2>1
<1>4. CASE Terminal(o.host) /\ ~s.announced
  <2>1. /\ Packed(d) /\ d.host = o.host /\ d.out = Append(o.out, m) /\ d.session = t
    BY <1>1, <1>2, <1>4, AnnounceFields
  <2>2. t.status = s.status /\ t.sent = s.sent /\ t.announced /\ t.announced \in BOOLEAN
        /\ t.runSeq = s.runSeq
    BY <1>1, AnnouncedFields
  <2>3. m.type = "run-complete"
    OBVIOUS
  <2> HIDE DEF d, t, m
  <2>4. Whole(b, d) = Append(q, m) /\ IsSeq(q)
    <3>1. Posts(o, d, m)
      BY <2>1 DEF Posts
    <3>2. QED
      BY <1>1, <3>1, PostedOne
  <2>5. Base(Append(q, m), p, t, o.host)
    <3>1. s.runSeq \in Nat
      BY <1>1 DEF Numbers
    <3>2. QED
      BY <1>1, <1>4, <2>2, <2>3, <2>4, <3>1, BaseComplete
  <2>6. EndsWith(Append(q, m), m, StatusKinds) /\ EndsLike(Append(q, m), q, {"snapshot"})
    BY <2>3, <2>4, AppendedSuch, AppendedOther DEF StatusKinds
  <2>7. s.status = "complete"
    BY <1>1, <1>4 DEF Synced, Terminal
  <2>8. ShowsStatus(Append(q, m), p, t.status)
    BY <2>2, <2>3, <2>6, <2>7 DEF EndsWith, ShowsStatus
  <2>9. Shown(Append(q, m), p, t, o.host)
    BY <1>1, <2>6, <2>8, LikeTick DEF Shown
  <2>10. Numbers(t)
    BY <1>1, <2>2 DEF Numbers
  <2>11. Pushing(b, p, d)
    BY <1>1, <2>1, <2>2, <2>4, <2>5, <2>10 DEF Pushing
  <2>12. Synced(d)
    BY <1>1, <2>1, <2>2 DEF Synced
  <2>13. QED
    BY <1>1, <2>1, <2>2, <2>4, <2>9, <2>11, <2>12 DEF Caught, Informed, d
<1>5. QED
  BY <1>3, <1>4

LEMMA RefreshShows ==
  ASSUME NEW b, IsSeq(b), NEW p, NEW o, Pushing(b, p, o),
         o.session.status = "complete" => o.host.run.state.terminal
  PROVE  LET d == refreshAfterMutation(o) IN Caught(b, p, d) /\ SameEnd(o, d)
<1> DEFINE o1 == syncTerminalStatus(o)
           o2 == pushSnapshot(o1)
           o3 == pushNewEvents(o2)
           o4 == pushExternalDecisionRequests(o3)
<1>1. Pushing(b, p, o1) /\ Synced(o1) /\ SameEnd(o, o1)
  BY SyncShows
<1> HIDE DEF o1
<1>2. Informed(b, p, o2) /\ SameEnd(o1, o2)
  BY <1>1, SnapshotShows
<1> HIDE DEF o2
<1>3. Caught(b, p, o3) /\ SameEnd(o2, o3)
  BY <1>2, EventsShow
<1> HIDE DEF o3
<1>4. Caught(b, p, o4) /\ SameEnd(o3, o4)
  BY <1>3, RequestsShow
<1> HIDE DEF o4
<1>5. SameEnd(o, o4)
  BY <1>1, <1>2, <1>3, <1>4 DEF SameEnd
<1>6. QED
  BY <1>4, <1>5 DEF refreshAfterMutation, o1, o2, o3, o4

LEMMA BatchShows ==
  ASSUME NEW b, IsSeq(b), NEW p, NEW o, Pushing(b, p, o),
         o.session.status = "complete" => o.host.run.state.terminal
  PROVE  LET d == afterTickBatch(o)
         IN /\ Caught(b, p, d) /\ (Terminal(d.host) => d.session.announced)
            /\ d.session.runSeq = o.session.runSeq
BY RefreshShows, AnnounceShows DEF afterTickBatch, SameEnd

-----------------------------------------------------------------------------
(* Every command, and the pump, leave a worker that has told what it is.   *)

Engine(s, h) ==
  /\ IsSession(s) /\ IsHost(h) /\ Numbers(s) /\ (Loaded(h) <=> s.runSeq # 0)
  /\ ~Loaded(h) => s.status = "idle" /\ ~s.announced
  /\ Loaded(h) => /\ Sane(h.run) /\ s.sent = Len(h.run.log)
                  /\ s.status = "complete" <=> h.run.state.terminal
                  /\ h.run.state.terminal => s.announced

Good(b, p, o) ==
  Packed(o) /\ Engine(o.session, o.host) /\ View(Whole(b, o), p, o.session, o.host)

LEMMA CaughtIsGood ==
  ASSUME NEW b, NEW p, NEW o, Caught(b, p, o), Terminal(o.host) => o.session.announced
  PROVE  Good(b, p, o)
BY DEF Caught, Informed, Pushing, Synced, Good, Engine, View, Packed, Terminal

LEMMA NothingPosted ==
  ASSUME NEW b, IsSeq(b), NEW s, NEW h
  PROVE  Whole(b, Outcome(s, h, <<>>)) = b
<1>1. Outcome(s, h, <<>>).out = <<>>
  BY OutcomeFields
<1>2. b \o <<>> = b
  BY PostedNothing
<1>3. QED
  BY <1>1, <1>2 DEF Whole

LEMMA GoodNothing ==
  ASSUME NEW b, IsSeq(b), NEW p, NEW s, NEW h, Engine(s, h), View(b, p, s, h)
  PROVE  Good(b, p, Outcome(s, h, <<>>))
<1> DEFINE o == Outcome(s, h, <<>>)
<1>1. Packed(o) /\ o.session = s /\ o.host = h
  BY EmptyIsSeq, Packs DEF Engine
<1>2. Whole(b, o) = b
  BY NothingPosted
<1> HIDE DEF o
<1>3. QED
  BY <1>1, <1>2 DEF Good, o

LEMMA GoodMessage ==
  ASSUME NEW b, IsSeq(b), NEW p, NEW s, NEW h, Engine(s, h), View(b, p, s, h),
         NEW m, MessageOf(m), m.type \notin Aside \cup {"snapshot"}
  PROVE  Good(b, p, Outcome(s, h, <<m>>))
<1> DEFINE x == <<m>>
           o == Outcome(s, h, x)
<1>1. IsSeq(x) /\ Append(b, m) = b \o x
  BY OneMessage
<1> HIDE DEF x
<1>2. Packed(o) /\ o.session = s /\ o.host = h /\ o.out = x
  BY <1>1, Packs DEF Engine
<1>3. Whole(b, o) = Append(b, m)
  BY <1>1, <1>2 DEF Whole
<1> HIDE DEF o
<1>4. View(Append(b, m), p, s, h)
  BY ViewOther DEF View
<1>5. QED
  BY <1>2, <1>3, <1>4 DEF Good, o, x

\* Before a batch of pushes.
LEMMA StartsPushing ==
  ASSUME NEW b, IsSeq(b), NEW p, NEW s, IsSession(s), Numbers(s), s.runSeq # 0,
         NEW h, IsHost(h), NEW run, Sane(run), Base(b, p, s, OnRun(h, run))
  PROVE  LET o == Outcome(s, OnRun(h, run), <<>>)
         IN /\ Pushing(b, p, o) /\ o.session = s /\ o.host = OnRun(h, run)
            /\ o.host.run = run
<1> DEFINE g == OnRun(h, run)
           o == Outcome(s, g, <<>>)
<1>1. IsHost(g) /\ g.run = run
  BY OnRunFields
<1>2. Loaded(g)
  BY <1>1, SaneFacts DEF Loaded
<1> HIDE DEF g
<1>3. Packed(o) /\ o.session = s /\ o.host = g
  BY <1>1, EmptyIsSeq, Packs
<1>4. Whole(b, o) = b
  BY NothingPosted
<1> HIDE DEF o
<1>5. Base(b, p, s, g)
  BY DEF g
<1>6. Pushing(b, p, o)
  BY <1>1, <1>2, <1>3, <1>4, <1>5 DEF Pushing
<1>7. QED
  BY <1>1, <1>3, <1>6 DEF g, o

LEMMA OwnRun ==
  ASSUME NEW h, IsHost(h)
  PROVE  OnRun(h, h.run) = h
BY DEF OnRun, IsHost

LEMMA SteppedShows ==
  ASSUME NEW b, IsSeq(b), NEW p, NEW s, NEW t, NEW h, Engine(s, h), View(b, p, s, h), Loaded(h),
         IsSession(t), Numbers(t), t.sent = s.sent, t.announced = s.announced,
         t.runSeq = s.runSeq, NEW n \in Nat,
         t.status = "complete" => stepTicks(h.run, n).state.terminal
  PROVE  LET d == Stepped(t, h, stepTicks(h.run, n))
         IN Good(b, p, d) /\ d.session.runSeq = s.runSeq
<1> DEFINE run == stepTicks(h.run, n)
           g == OnRun(h, run)
           o == Outcome(t, g, <<>>)
<1>1. Sane(h.run) /\ IsHost(h) /\ s.runSeq # 0 /\ s.sent = Len(h.run.log)
  BY DEF Engine
<1>2. Sane(run) /\ (h.run.state.terminal => run = h.run)
  BY <1>1, TicksAreSane
<1>3. t.status = "complete" => run.state.terminal
  OBVIOUS
<1> HIDE DEF run
<1>4. g.run = run
  BY <1>1, OnRunFields
<1> HIDE DEF g
<1>5. Base(b, p, t, g)
  <2>1. Terminal(h) => Terminal(g) /\ Len(g.run.log) = Len(h.run.log)
    BY <1>2, <1>4 DEF Terminal, Loaded
  <2>2. Base(b, p, s, h)
    BY DEF View
  <2>3. QED
    BY <1>1, <2>1, <2>2, BaseRan
<1>6. /\ Pushing(b, p, o) /\ o.session = t /\ o.host.run = run
  BY <1>1, <1>2, <1>5, StartsPushing DEF g
<1> HIDE DEF o
<1> DEFINE d == afterTickBatch(o)
<1>7. /\ Caught(b, p, d) /\ (Terminal(d.host) => d.session.announced)
      /\ d.session.runSeq = o.session.runSeq
  BY <1>3, <1>6, BatchShows
<1> HIDE DEF d
<1>8. Good(b, p, d)
  BY <1>7, CaughtIsGood
<1>9. QED
  BY <1>6, <1>7, <1>8 DEF Stepped, d, o, g, run

LEMMA RefreshedShows ==
  ASSUME NEW b, IsSeq(b), NEW p, NEW s, NEW t, NEW h, Engine(s, h), View(b, p, s, h), Loaded(h),
         IsSession(t), Numbers(t), t.sent = s.sent, t.announced = s.announced,
         t.runSeq = s.runSeq, NEW run, Sane(run),
         run.state.terminal = h.run.state.terminal, run.state.terminal => run = h.run,
         t.status = "complete" => run.state.terminal
  PROVE  LET d == Refreshed(t, OnRun(h, run))
         IN Good(b, p, d) /\ d.session.runSeq = s.runSeq
<1> DEFINE g == OnRun(h, run)
           o == Outcome(t, g, <<>>)
<1>1. /\ IsHost(h) /\ s.runSeq # 0 /\ s.sent = Len(h.run.log)
      /\ h.run.state.terminal => s.announced
  BY DEF Engine
<1>2. g.run = run
  BY <1>1, OnRunFields
<1> HIDE DEF g
<1>3. Base(b, p, t, g)
  <2>1. Terminal(h) => Terminal(g) /\ Len(g.run.log) = Len(h.run.log)
    BY <1>2 DEF Terminal, Loaded
  <2>2. Base(b, p, s, h)
    BY DEF View
  <2>3. QED
    BY <1>1, <2>1, <2>2, BaseRan
<1>4. Pushing(b, p, o) /\ o.session = t /\ o.host.run = run
  BY <1>1, <1>3, StartsPushing DEF g
<1> HIDE DEF o
<1> DEFINE d == refreshAfterMutation(o)
<1>5. Caught(b, p, d) /\ SameEnd(o, d)
  BY <1>4, RefreshShows
<1> HIDE DEF d
<1>6. Terminal(d.host) => d.session.announced
  BY <1>1, <1>4, <1>5 DEF SameEnd, Terminal
<1>7. Good(b, p, d)
  BY <1>5, <1>6, CaughtIsGood
<1>8. QED
  BY <1>4, <1>5, <1>7 DEF SameEnd, Refreshed, d, o, g

LEMMA NewRunShows ==
  ASSUME NEW b, IsSeq(b), NEW p, NEW s, NEW h, Engine(s, h), View(b, p, s, h),
         NEW conduct \in Conducts
  PROVE  LET d == NewRun(s, h, conduct)
         IN Good(b, p, d) /\ d.session.runSeq = s.runSeq + 1
<1> DEFINE run == createRun(conduct)
           g == OnRun(h, run)
           t == Fresh(s)
           o == Outcome(t, g, <<>>)
<1>1. Sane(run) /\ run.state.terminal = FALSE
  BY CreateIsSane
<1>2. IsHost(h) /\ s.runSeq \in Nat /\ Base(b, p, s, h) /\ (s.runSeq = 0 => ~s.announced)
  BY DEF Engine, Numbers, View
<1> HIDE DEF run
<1>3. g.run = run
  BY <1>2, OnRunFields
<1>4. Len(run.log) > 0
  BY <1>1, SaneFacts
<1> HIDE DEF g
<1>5. Base(b, p, t, g)
  BY <1>2, <1>3, <1>4, BaseRestarts
<1>6. IsSession(t) /\ t.runSeq = s.runSeq + 1 /\ t.status = "idle" /\ t.sent = 0
      /\ t.announced = FALSE
  <2>1. t.runSeq = s.runSeq + 1 /\ t.status = "idle" /\ t.sent = 0 /\ t.announced = FALSE
    BY DEF Fresh
  <2>2. IsSession(t)
    BY DEF IsSession, Fresh
  <2>3. QED
    BY <2>1, <2>2
<1> HIDE DEF t
<1>7. Numbers(t) /\ t.runSeq # 0
  <2>1. t.announced \in BOOLEAN
    BY <1>6
  <2>2. t.runSeq \in Nat /\ t.runSeq # 0 /\ t.sent \in Nat
    BY <1>2, <1>6
  <2>3. t.status \in SessionStatuses
    BY <1>6 DEF SessionStatuses, PageStatuses
  <2>4. QED
    BY <2>1, <2>2, <2>3 DEF Numbers
<1>8. Pushing(b, p, o) /\ o.session = t /\ o.host.run = run
  BY <1>1, <1>2, <1>5, <1>6, <1>7, StartsPushing DEF g
<1> HIDE DEF o
<1> DEFINE d == refreshAfterMutation(o)
<1>9. Caught(b, p, d) /\ SameEnd(o, d)
  BY <1>6, <1>8, RefreshShows
<1> HIDE DEF d
<1>10. Terminal(d.host) => d.session.announced
  BY <1>1, <1>8, <1>9 DEF SameEnd, Terminal
<1>11. Good(b, p, d)
  BY <1>9, <1>10, CaughtIsGood
<1>12. QED
  BY <1>6, <1>8, <1>9, <1>11 DEF SameEnd, NewRun, d, o, g, t, run

WithStatus(s, status) == [s EXCEPT !.status = status]

LEMMA StartShows ==
  ASSUME NEW b, IsSeq(b), NEW p, NEW s, NEW h, Engine(s, h), View(b, p, s, h), Loaded(h),
         ~Terminal(h)
  PROVE  LET d == pushSnapshot(Outcome(WithStatus(s, "running"), h, <<>>))
         IN Good(b, p, d) /\ d.session.runSeq = s.runSeq
<1> DEFINE t == WithStatus(s, "running")
           o == Outcome(t, h, <<>>)
           d == pushSnapshot(o)
<1>1. IsHost(h) /\ s.runSeq # 0 /\ s.sent = Len(h.run.log) /\ Sane(h.run) /\ Base(b, p, s, h)
      /\ IsSession(s) /\ Numbers(s) /\ ~h.run.state.terminal
  BY DEF Engine, View, Terminal
<1>2. IsSession(t) /\ t.status = "running" /\ t.sent = s.sent /\ t.announced = s.announced
      /\ t.runSeq = s.runSeq
  BY <1>1 DEF IsSession, WithStatus
<1> HIDE DEF t
<1>3. Numbers(t)
  BY <1>1, <1>2 DEF Numbers, SessionStatuses, PageStatuses
<1>4. Base(b, p, t, h)
  BY <1>1, <1>2, BaseRan
<1>5. OnRun(h, h.run) = h
  BY <1>1, OwnRun
<1>6. Pushing(b, p, o) /\ o.session = t /\ o.host = h
  <2>1. Base(b, p, t, OnRun(h, h.run))
    BY <1>4, <1>5
  <2> DEFINE u == Outcome(t, OnRun(h, h.run), <<>>)
  <2>2. Pushing(b, p, u) /\ u.session = t /\ u.host = OnRun(h, h.run)
    BY <1>1, <1>2, <1>3, <2>1, StartsPushing
  <2>3. QED
    BY <1>5, <2>2
<1> HIDE DEF o
<1>7. Synced(o)
  BY <1>1, <1>2, <1>6 DEF Synced
<1>8. Informed(b, p, d) /\ d.session = o.session /\ d.host = o.host
  BY <1>6, <1>7, SnapshotShows
<1> HIDE DEF d
<1>9. Caught(b, p, d) /\ ~Terminal(d.host)
  BY <1>1, <1>2, <1>6, <1>8 DEF Caught
<1>10. Good(b, p, d)
  BY <1>9, CaughtIsGood
<1>11. QED
  BY <1>2, <1>6, <1>8, <1>10 DEF d, o, t

LEMMA DuringShows ==
  ASSUME NEW b, IsSeq(b), NEW p, NEW s, NEW h, Engine(s, h), View(b, p, s, h),
         NEW status \in PageStatuses,
         NEW m, MessageOf(m), m.type \notin Aside \cup {"snapshot"}
  PROVE  LET d == During(Outcome(s, h, <<>>), status, m)
         IN Good(b, p, d) /\ d.session.runSeq = s.runSeq
<1> DEFINE o == Outcome(s, h, <<>>)
           shown == pushSnapshot([o EXCEPT !.session.status = status])
           x == shown.out \o <<m>>
           more == [o EXCEPT !.out = x]
           d == pushSnapshot(more)
<1>0. During(o, status, m) = d
  BY DEF During
<1>1. Packed(o) /\ o.session = s /\ o.host = h /\ o.out = <<>> /\ Whole(b, o) = b
  BY EmptyIsSeq, Packs, NothingPosted DEF Engine
<1> HIDE DEF o
<1>2. CASE ~Loaded(h)
  <2>1. shown.out = <<>> /\ IsSeq(<<>>)
    <3> DEFINE u == [o EXCEPT !.session.status = status]
    <3>1. u.host = o.host /\ u.out = o.out
      BY <1>1 DEF Packed, IsOutcome
    <3> HIDE DEF u
    <3>2. pushSnapshot(u) = u
      BY <1>1, <1>2, <3>1 DEF pushSnapshot
    <3>3. QED
      BY <1>1, <3>1, <3>2, EmptyIsSeq DEF u
  <2> HIDE DEF shown
  <2>2. x = Append(<<>>, m) /\ IsSeq(x)
    BY <2>1, OneMessage, Appended
  <2> HIDE DEF x
  <2>3. Packed(more) /\ more.session = s /\ more.host = h /\ more.out = x
    BY <1>1, <2>2, OutFields
  <2> HIDE DEF more
  <2>4. d = more
    BY <1>2, <2>3 DEF pushSnapshot
  <2>5. Whole(b, more) = Append(b, m)
    <3>1. Packed(o) /\ Posts(o, more, m)
      BY <1>1, <2>2, <2>3 DEF Posts
    <3>2. Whole(b, more) = Append(Whole(b, o), m)
      BY <3>1, PostedOne
    <3>3. QED
      BY <1>1, <3>2
  <2>6. View(Append(b, m), p, s, h)
    BY ViewOther DEF View
  <2>7. QED
    BY <1>0, <2>3, <2>4, <2>5, <2>6 DEF Good, o
<1>3. CASE Loaded(h)
  <2> DEFINE u == [o EXCEPT !.session.status = status]
             t == [s EXCEPT !.status = status]
             first == [type |-> "snapshot", status |-> status, tick |-> h.run.state.tick]
             y == Append(<<>>, first)
             one == [o EXCEPT !.out = y]
  <2>1. Sane(h.run) /\ IsSession(s) /\ IsHost(h) /\ Base(b, p, s, h) /\ s.status \in PageStatuses
    BY <1>3 DEF Engine, View, Numbers, SessionStatuses
  <2>2. IsSession(t) /\ t.status = status
    BY <2>1, StatusFields
  <2>3. u = [o EXCEPT !.session = t]
    BY <1>1
  <2> HIDE DEF t
  <2>4. Packed(u) /\ u.session = t /\ u.host = h /\ u.out = <<>>
    <3> DEFINE v == [o EXCEPT !.session = t]
    <3>1. Packed(v) /\ v.session = t /\ v.host = o.host /\ v.out = o.out
      BY <1>1, <2>2, SessionFields
    <3>2. QED
      BY <1>1, <2>3, <3>1
  <2> HIDE DEF u
  <2>5. pushSnapshot(u).out = y
    <3>1. pushSnapshot(u).out = Append(u.out, [type |-> "snapshot", status |-> u.session.status,
                                               tick |-> u.host.run.state.tick])
      BY <1>3, <2>4, SnapshotFields
    <3>2. QED
      BY <2>2, <2>4, <3>1
  <2>6. shown.out = y /\ IsSeq(y)
    BY <2>5, EmptyIsSeq, Appended DEF u
  <2> HIDE DEF shown
  <2>7. Packed(one) /\ one.session = s /\ one.host = h /\ one.out = y
    <3> HIDE DEF y
    <3>1. QED
      BY <1>1, <2>6, OutFields
  <2> HIDE DEF one
  <2>8. Whole(b, one) = Append(b, first) /\ IsSeq(Append(b, first))
    <3>1. Packed(o) /\ Posts(o, one, first)
      BY <1>1, <2>7 DEF Posts
    <3> HIDE DEF first
    <3>2. Whole(b, one) = Append(Whole(b, o), first)
      BY <3>1, PostedOne
    <3>3. IsSeq(Append(b, first))
      BY Appended
    <3>4. QED
      BY <1>1, <3>2, <3>3
  <2>9. Base(Append(b, first), p, s, h)
    BY <1>3, <2>1, ViewSnapshot
  <2> HIDE DEF first
  <2>10. x = Append(y, m) /\ IsSeq(x)
    <3> HIDE DEF y
    <3>1. Append(y, m) = y \o <<m>> /\ IsSeq(Append(y, m))
      BY <2>6, OneMessage, Appended
    <3>2. QED
      BY <2>6, <3>1
  <2> HIDE DEF x, y
  <2>11. Packed(more) /\ more.session = s /\ more.host = h /\ more.out = x
    <3>1. Packed(o) /\ IsSeq(x)
      BY <1>1, <2>10
    <3>2. Packed(more) /\ more.session = o.session /\ more.host = o.host /\ more.out = x
      BY ONLY <3>1, OutFields
    <3>3. QED
      BY <1>1, <3>2
  <2> HIDE DEF more
  <2>12. Whole(b, more) = Append(Append(b, first), m)
    <3>1. Packed(one) /\ Posts(one, more, m)
      BY <2>7, <2>10, <2>11 DEF Posts
    <3>2. Whole(b, more) = Append(Whole(b, one), m)
      BY <3>1, PostedOne
    <3>3. QED
      BY <2>8, <3>2
  <2>13. Base(Append(Append(b, first), m), p, s, h)
    BY <2>8, <2>9, ViewOther
  <2>14. s.runSeq # 0
    BY <1>3 DEF Engine
  <2>15. Pushing(b, p, more) /\ Synced(more)
    BY <1>3, <2>1, <2>11, <2>12, <2>13, <2>14 DEF Pushing, Synced, Engine
  <2>16. Informed(b, p, d) /\ d.session = more.session /\ d.host = more.host
    BY <2>15, SnapshotShows
  <2> HIDE DEF d
  <2>17. Caught(b, p, d) /\ (Terminal(d.host) => d.session.announced)
    BY <1>3, <2>11, <2>16 DEF Caught, Engine, Terminal
  <2>18. Good(b, p, d)
    BY <2>17, CaughtIsGood
  <2>19. QED
    BY <1>0, <2>11, <2>16, <2>18 DEF o
<1>4. QED
  BY <1>2, <1>3

LEMMA VerdictOfReplay ==
  ASSUME NEW h, NEW source
  PROVE  replay(h, source) \in {"match", "mismatch", "error"}
BY DEF replay

Restart == {"load-scenario", "reset"}

Restarts(c, h) ==
  \/ c.type = "load-scenario"
  \/ c.type = "reset" /\ Loaded(h)

LEMMA HandledShows ==
  ASSUME NEW b, IsSeq(b), NEW p, NEW s, NEW h, Engine(s, h), View(b, p, s, h),
         NEW c, Fits(c)
  PROVE  LET d == handleCommand(s, h, c)
         IN /\ Good(b, p, d)
            /\ d.session.runSeq = IF Restarts(c, h) THEN s.runSeq + 1 ELSE s.runSeq
<1> DEFINE o == handleCommand(s, h, c)
           Right(d, n) == Good(b, p, d) /\ d.session.runSeq = n
<1>1. /\ IsSession(s) /\ IsHost(h) /\ Numbers(s)
      /\ Loaded(h) => /\ Sane(h.run) /\ (s.status = "complete" <=> h.run.state.terminal)
                      /\ s.sent = Len(h.run.log)
  BY DEF Engine
<1>2. Right(Outcome(s, h, <<>>), s.runSeq)
  <2>1. Outcome(s, h, <<>>).session = s
    BY OutcomeFields
  <2>2. QED
    BY <2>1, GoodNothing
<1>3. ASSUME NEW m, MessageOf(m), m.type \notin Aside \cup {"snapshot"}
      PROVE  Right(Outcome(s, h, <<m>>), s.runSeq)
  <2>1. Outcome(s, h, <<m>>).session = s
    BY OutcomeFields
  <2>2. QED
    BY <1>3, <2>1, GoodMessage
<1>4. CASE c.type = "hello"
  <2> DEFINE m == [type |-> "ready"]
  <2>1. o = Outcome(s, h, <<m>>)
    BY <1>4 DEF handleCommand, NeedsRun
  <2>2. MessageOf(m) /\ m.type \notin Aside \cup {"snapshot"}
    BY DEF MessageOf, Aside
  <2> HIDE DEF m
  <2>3. Right(o, s.runSeq)
    BY <1>3, <2>1, <2>2
  <2>4. QED
    BY <1>4, <2>3 DEF Restarts
<1>5. CASE c.type = "load-scenario"
  <2>1. o = NewRun(s, h, c.conduct)
    BY <1>5 DEF handleCommand, NeedsRun
  <2>2. c.conduct \in Conducts
    BY <1>5 DEF Fits
  <2>3. Right(o, s.runSeq + 1)
    BY <2>1, <2>2, NewRunShows
  <2>4. Restarts(c, h)
    BY <1>5 DEF Restarts
  <2>5. QED
    BY <2>3, <2>4
<1>6. CASE c.type \in NeedsRun /\ ~Loaded(h)
  <2>1. o = Outcome(s, h, <<>>)
    BY <1>6 DEF handleCommand, NeedsRun
  <2>2. ~Restarts(c, h)
    BY <1>6 DEF Restarts, NeedsRun
  <2>3. QED
    BY <1>2, <2>1, <2>2
<1>7. CASE c.type = "reset" /\ Loaded(h)
  <2>1. o = NewRun(s, h, h.run.conduct)
    BY <1>7 DEF handleCommand, NeedsRun
  <2>2. h.run.conduct \in Conducts
    BY <1>1, <1>7, SaneFacts
  <2>3. Right(o, s.runSeq + 1)
    BY <2>1, <2>2, NewRunShows
  <2>4. QED
    BY <1>7, <2>3 DEF Restarts
<1>8. CASE c.type = "start" /\ Loaded(h)
  <2>1. o = IF Terminal(h) THEN Outcome(s, h, <<>>)
            ELSE pushSnapshot(Outcome(WithStatus(s, "running"), h, <<>>))
    BY <1>8 DEF handleCommand, NeedsRun, WithStatus
  <2>2. Right(o, s.runSeq)
    <3>1. CASE Terminal(h)
      BY <1>2, <2>1, <3>1
    <3>2. CASE ~Terminal(h)
      <4> DEFINE d == pushSnapshot(Outcome(WithStatus(s, "running"), h, <<>>))
      <4>1. Good(b, p, d) /\ d.session.runSeq = s.runSeq
        BY <1>8, <3>2, StartShows
      <4>2. QED
        BY <2>1, <3>2, <4>1
    <3>3. QED
      BY <3>1, <3>2
  <2>3. QED
    BY <1>8, <2>2 DEF Restarts
<1>9. ASSUME Loaded(h), NEW status \in {"paused", "running"}, NEW type \in Markers,
             s.status # "complete"
      PROVE  Right(Refreshed([s EXCEPT !.status = status], OnRun(h, appendMarker(h.run, type))),
                   s.runSeq)
  <2> DEFINE t == [s EXCEPT !.status = status]
             run == appendMarker(h.run, type)
  <2>1. Sane(run) /\ run.state.terminal = h.run.state.terminal
        /\ (h.run.state.terminal => run = h.run)
    BY <1>1, <1>9, MarkerIsSane
  <2> HIDE DEF run
  <2>2. IsSession(t) /\ t.status = status /\ t.sent = s.sent /\ t.announced = s.announced
        /\ t.runSeq = s.runSeq
    BY <1>1 DEF IsSession
  <2> HIDE DEF t
  <2>3. Numbers(t) /\ t.status # "complete"
    BY <1>1, <2>2 DEF Numbers, SessionStatuses, PageStatuses
  <2>4. run.state.terminal => run = h.run
    BY <2>1
  <2>5. Right(Refreshed(t, OnRun(h, run)), s.runSeq)
    BY <1>9, <2>1, <2>2, <2>3, <2>4, RefreshedShows
  <2>6. QED
    BY <2>5 DEF t, run
<1>10. ASSUME Loaded(h) PROVE Right(Refreshed(s, h), s.runSeq)
  <2>1. OnRun(h, h.run) = h
    BY <1>1, OwnRun
  <2>2. Right(Refreshed(s, OnRun(h, h.run)), s.runSeq)
    BY <1>1, <1>10, RefreshedShows
  <2>3. QED
    BY <2>1, <2>2
<1>11. CASE c.type = "pause" /\ Loaded(h)
  <2> DEFINE d == Refreshed([s EXCEPT !.status = "paused"],
                            OnRun(h, appendMarker(h.run, "SimulationPaused")))
  <2>1. o = IF s.status # "running" THEN Refreshed(s, h) ELSE d
    BY <1>11 DEF handleCommand, NeedsRun
  <2>2. "SimulationPaused" \in Markers
    BY DEF Markers
  <2>3. s.status = "running" => Right(d, s.runSeq)
    BY <1>9, <1>11, <2>2
  <2> HIDE DEF d
  <2>4. Right(o, s.runSeq)
    BY <1>10, <1>11, <2>1, <2>3
  <2>5. QED
    BY <1>11, <2>4 DEF Restarts
<1>12. CASE c.type = "resume" /\ Loaded(h)
  <2> DEFINE d == Refreshed([s EXCEPT !.status = "running"],
                            OnRun(h, appendMarker(h.run, "SimulationResumed")))
  <2>1. o = IF s.status # "paused" THEN Refreshed(s, h) ELSE d
    BY <1>12 DEF handleCommand, NeedsRun
  <2>2. "SimulationResumed" \in Markers
    BY DEF Markers
  <2>3. s.status = "paused" => Right(d, s.runSeq)
    BY <1>9, <1>12, <2>2
  <2> HIDE DEF d
  <2>4. Right(o, s.runSeq)
    BY <1>10, <1>12, <2>1, <2>3
  <2>5. QED
    BY <1>12, <2>4 DEF Restarts
<1>13. CASE c.type = "step" /\ Loaded(h)
  <2> DEFINE d == Stepped(s, h, stepTicks(h.run, c.ticks))
  <2>1. o = IF s.status = "running" THEN Outcome(s, h, <<>>) ELSE d
    BY <1>13 DEF handleCommand, NeedsRun
  <2>2. c.ticks \in Nat
    BY <1>13 DEF Fits
  <2>3. s.status = "complete" => stepTicks(h.run, c.ticks).state.terminal
    BY <1>1, <1>13, <2>2, TicksAreSane
  <2>4. Good(b, p, d) /\ d.session.runSeq = s.runSeq
    BY <1>1, <1>13, <2>2, <2>3, SteppedShows
  <2> HIDE DEF d
  <2>5. Right(o, s.runSeq)
    BY <1>2, <2>1, <2>4
  <2>6. QED
    BY <1>13, <2>5 DEF Restarts
<1>14. CASE c.type = "run-to-completion" /\ Loaded(h)
  <2> DEFINE t == [s EXCEPT !.status = "complete"]
             n == EndTick + 1
             d == Stepped(t, h, stepTicks(h.run, n))
  <2>1. o = d
    BY <1>14 DEF handleCommand, NeedsRun
  <2>2. n \in Nat /\ n > EndTick
    BY TickAssumption
  <2>3. IsSession(t) /\ t.status = "complete" /\ t.sent = s.sent /\ t.announced = s.announced
        /\ t.runSeq = s.runSeq
    BY <1>1 DEF IsSession
  <2> HIDE DEF t, n
  <2>4. Numbers(t)
    BY <1>1, <2>3 DEF Numbers, SessionStatuses, PageStatuses
  <2>5. stepTicks(h.run, n).state.terminal
    BY <1>1, <1>14, <2>2, TicksAreSane
  <2>6. Good(b, p, d) /\ d.session.runSeq = s.runSeq
    BY <1>14, <2>2, <2>3, <2>4, <2>5, SteppedShows
  <2>7. QED
    BY <1>14, <2>1, <2>6 DEF Restarts
<1>15. CASE c.type = "export-ledger" /\ Loaded(h)
  <2> DEFINE m == [type |-> "ledger-export", file |-> buildLedgerFile(h.run)]
  <2>1. o = Outcome(s, h, IF Exportable(h.run) THEN <<m>> ELSE <<>>)
    BY <1>15 DEF handleCommand, NeedsRun
  <2>2. MessageOf(m) /\ m.type \notin Aside \cup {"snapshot"}
    BY DEF MessageOf, Aside
  <2> HIDE DEF m
  <2>3. Right(o, s.runSeq)
    <3>1. CASE Exportable(h.run)
      BY <1>3, <2>1, <2>2, <3>1
    <3>2. CASE ~Exportable(h.run)
      BY <1>2, <2>1, <3>2
    <3>3. QED
      BY <3>1, <3>2
  <2>4. QED
    BY <1>15, <2>3 DEF Restarts
<1>16. CASE c.type = "import-ledger"
  <2> DEFINE after == importLedger(h, c.file)
             m == [type |-> "import-result",
                   ok |-> after.imported = c.file /\ validateLedgerFile(c.file)]
             d == During(Outcome(s, after, <<>>), "importing", m)
  <2>1. o = d
    BY <1>16 DEF handleCommand, NeedsRun
  <2>2. IsHost(after) /\ after.run = h.run
    BY <1>1 DEF importLedger, IsHost
  <2>3. MessageOf(m) /\ m.type \notin Aside \cup {"snapshot"}
    BY DEF MessageOf, Aside
  <2> HIDE DEF m, after
  <2>4. Engine(s, after) /\ View(b, p, s, after)
    BY <2>2 DEF Engine, View, Base, UpToDate, Settled, Shown, Terminal, Loaded
  <2>5. "importing" \in PageStatuses
    BY DEF PageStatuses
  <2>6. Good(b, p, d) /\ d.session.runSeq = s.runSeq
    BY <2>3, <2>4, <2>5, DuringShows
  <2>7. QED
    BY <1>16, <2>1, <2>6 DEF Restarts
<1>17. CASE c.type = "replay"
  <2> DEFINE m == [type |-> "replay-result", verdict |-> replay(h, c.source)]
             d == During(Outcome(s, h, <<>>), "replaying", m)
  <2>1. o = d
    BY <1>17 DEF handleCommand, NeedsRun
  <2>2. MessageOf(m) /\ m.type \notin Aside \cup {"snapshot"}
    BY VerdictOfReplay DEF MessageOf, Aside
  <2>3. "replaying" \in PageStatuses
    BY DEF PageStatuses
  <2> HIDE DEF m
  <2>4. Good(b, p, d) /\ d.session.runSeq = s.runSeq
    BY <2>2, <2>3, DuringShows
  <2>5. QED
    BY <1>17, <2>1, <2>4 DEF Restarts
<1>18. CASE c.type \in {"submit-decision-response", "submit-decision-failure"} /\ Loaded(h)
  <2> DEFINE run == [h.run EXCEPT !.inbox = Append(h.run.inbox, c.answer)]
             after == [h EXCEPT !.run = run]
  <2>1. o = IF Terminal(h) THEN Outcome(s, h, <<>>) ELSE Outcome(s, after, <<>>)
    BY <1>18 DEF handleCommand, NeedsRun
  <2>2. Sane(run) /\ run.state = h.run.state /\ run.log = h.run.log
    BY <1>1, <1>18, AnsweredIsSane
  <2> HIDE DEF run
  <2>3. IsHost(after) /\ after.run = run
    BY <1>1 DEF IsHost
  <2> HIDE DEF after
  <2>4. Loaded(after)
    BY <2>2, <2>3, SaneFacts DEF Loaded
  <2>5. Engine(s, after)
    BY <1>18, <2>2, <2>3, <2>4 DEF Engine
  <2>6. View(b, p, s, after)
    BY <1>18, <2>2, <2>3, <2>4 DEF View, Base, UpToDate, Settled, Shown, Terminal
  <2>7. Right(Outcome(s, after, <<>>), s.runSeq)
    <3>1. Outcome(s, after, <<>>).session = s
      BY OutcomeFields
    <3>2. QED
      BY <2>5, <2>6, <3>1, GoodNothing
  <2>8. Right(o, s.runSeq)
    BY <1>2, <2>1, <2>7
  <2>9. QED
    BY <1>18, <2>8 DEF Restarts
<1>19. \/ c.type \in {"hello", "load-scenario", "import-ledger", "replay"}
       \/ c.type \in NeedsRun /\ ~Loaded(h)
       \/ c.type \in {"start", "pause", "resume", "step", "run-to-completion", "reset",
                      "export-ledger", "submit-decision-response",
                      "submit-decision-failure"} /\ Loaded(h)
  BY DEF Fits, NeedsRun
<1>20. QED
  BY <1>4, <1>5, <1>6, <1>7, <1>8, <1>11, <1>12, <1>13, <1>14, <1>15, <1>16, <1>17, <1>18, <1>19

LEMMA PumpShows ==
  ASSUME NEW b, IsSeq(b), NEW p, NEW s, NEW h, Engine(s, h), View(b, p, s, h),
         s.status = "running", NEW n \in Nat
  PROVE  LET d == Stepped(s, h, stepTicks(h.run, n))
         IN Good(b, p, d) /\ d.session.runSeq = s.runSeq
<1>1. Loaded(h) /\ IsSession(s) /\ Numbers(s) /\ s.status # "complete"
  BY DEF Engine
<1>2. QED
  BY <1>1, SteppedShows

-----------------------------------------------------------------------------
(* The page reads a message, or asks for a new run.                        *)

IsPage(p) ==
  p = [sent |-> p.sent, expected |-> p.expected, ready |-> p.ready, shown |-> p.shown,
       status |-> p.status, tick |-> p.tick, total |-> p.total, stamped |-> p.stamped,
       asked |-> p.asked, imported |-> p.imported, verdict |-> p.verdict]

SameShow(p, t) ==
  /\ t.status = p.status /\ t.tick = p.tick /\ t.total = p.total
  /\ t.stamped = p.stamped /\ t.expected = p.expected

\* What p shows, waiting for the run that has number a where the worker counts.
Counted(p, a) ==
  [status |-> p.status, tick |-> p.tick, total |-> p.total, stamped |-> p.stamped,
   expected |-> a]

LEMMA ViewOfSame ==
  ASSUME NEW q, NEW p, NEW t, NEW a, NEW s, NEW h, View(q, Counted(p, a), s, h), SameShow(p, t)
  PROVE  View(q, Counted(t, a), s, h)
<1>1. Counted(t, a) = Counted(p, a)
  BY DEF Counted, SameShow
<1>2. QED
  BY <1>1

\* Without a run it does not matter which one is waited for.
LEMMA ViewUnloaded ==
  ASSUME NEW q, NEW p, NEW a, NEW b, NEW s, NEW h, View(q, Counted(p, a), s, h),
         ~Loaded(h), ~s.announced
  PROVE  View(q, Counted(p, b), s, h)
<1> DEFINE x == Counted(p, a)
           y == Counted(p, b)
<1>1. y.status = x.status /\ y.tick = x.tick /\ y.stamped = x.stamped
  BY DEF Counted
<1>2. View(q, x, s, h)
  OBVIOUS
<1> HIDE DEF x, y
<1>3. Base(q, y, s, h)
  BY <1>1, <1>2 DEF View, Base, UpToDate, Settled
<1>4. Shown(q, y, s, h)
  BY <1>1, <1>2 DEF View, Shown, ShowsStatus
<1>5. QED
  BY <1>3, <1>4 DEF View, y

LEMMA NewViewShows ==
  ASSUME NEW q, NEW p, IsPage(p), NEW a \in Nat, NEW s, NEW h, View(q, Counted(p, a), s, h),
         s.runSeq \in Nat, a >= s.runSeq
  PROVE  /\ View(q, Counted(NewView(p), a + 1), s, h)
         /\ NewView(p).expected = p.expected + 1 /\ IsPage(NewView(p))
<1> DEFINE t == NewView(p)
           x == Counted(p, a)
           y == Counted(t, a + 1)
<1>0. t = [p EXCEPT !.expected = p.expected + 1, !.total = 0, !.stamped = FALSE, !.asked = {},
                    !.verdict = "none"]
  BY DEF NewView
<1> HIDE DEF t
<1>1. t.expected = p.expected + 1 /\ t.stamped = FALSE /\ t.status = p.status /\ t.tick = p.tick
  BY <1>0 DEF IsPage
<1>2. IsPage(t)
  BY <1>0 DEF IsPage
<1>3. y.expected # s.runSeq /\ ~y.stamped /\ y.status = x.status /\ y.tick = x.tick
  BY <1>1 DEF Counted
<1>4. View(q, x, s, h)
  OBVIOUS
<1> HIDE DEF x, y
<1>5. UpToDate(q, y, s, h)
  BY <1>3 DEF UpToDate
<1>6. Settled(q, y, s, h)
  <2>1. Settled(q, x, s, h)
    BY <1>4 DEF View, Base
  <2>2. Stamps(q, y, s.runSeq)
    BY <1>3 DEF Stamps
  <2>3. QED
    BY <1>3, <2>1, <2>2 DEF Settled
<1>7. Base(q, y, s, h)
  BY <1>4, <1>5, <1>6 DEF View, Base
<1>8. Shown(q, y, s, h)
  BY <1>3, <1>4 DEF View, Shown, ShowsStatus, ShowsTick
<1>9. QED
  BY <1>1, <1>2, <1>7, <1>8 DEF View, t, y

LEMMA ReadFirst ==
  ASSUME NEW q, IsSeq(q), q # <<>>, NEW kinds
  PROVE  \/ /\ Head(q).type \in kinds /\ Free(Tail(q), kinds)
            /\ 1 \in 1..Len(q) /\ LastOf(q, kinds, 1) /\ q[1] = Head(q)
            /\ \A i \in 1..Len(Tail(q)) : ~LastOf(Tail(q), kinds, i)
         \/ /\ Head(q).type \notin kinds \/ ~Free(Tail(q), kinds)
            /\ EndsLike(Tail(q), q, kinds)
<1>1. CASE Head(q).type \in kinds /\ Free(Tail(q), kinds)
  <2>1. 1 \in 1..Len(q) /\ LastOf(q, kinds, 1)
    BY <1>1, TakenSuch
  <2>2. q[1] = Head(q)
    BY Taken
  <2>3. \A i \in 1..Len(Tail(q)) : ~LastOf(Tail(q), kinds, i)
    BY <1>1 DEF Free, LastOf
  <2>4. QED
    BY <1>1, <2>1, <2>2, <2>3
<1>2. CASE ~(Head(q).type \in kinds /\ Free(Tail(q), kinds))
  BY <1>2, TakenOther
<1>3. QED
  BY <1>1, <1>2

\* t is p after it has read m.
Read(p, m, t) ==
  /\ t.expected = p.expected
  /\ t.status = IF m.type = "snapshot" THEN m.status
                ELSE IF m.type = "run-complete" THEN "complete" ELSE p.status
  /\ t.tick = IF m.type = "snapshot" THEN m.tick ELSE p.tick
  /\ t.total = IF m.type = "events" THEN m.total ELSE p.total
  /\ t.stamped <=> m.type = "run-complete" \/ p.stamped

LEMMA ReadStatus ==
  ASSUME NEW q, IsSeq(q), q # <<>>, NEW p, NEW t, Read(p, Head(q), t), NEW v,
         ShowsStatus(q, p, v)
  PROVE  ShowsStatus(Tail(q), t, v)
<1> DEFINE m == Head(q)
           r == Tail(q)
<1>1. CASE /\ m.type \in StatusKinds /\ Free(r, StatusKinds)
           /\ 1 \in 1..Len(q) /\ LastOf(q, StatusKinds, 1) /\ q[1] = m
           /\ \A i \in 1..Len(r) : ~LastOf(r, StatusKinds, i)
  <2>1. v = IF m.type = "snapshot" THEN m.status ELSE "complete"
    BY <1>1 DEF ShowsStatus
  <2> HIDE DEF m, r
  <2>2. t.status = v
    BY <1>1, <2>1 DEF Read, StatusKinds, m
  <2>3. ShowsStatus(r, t, v)
    BY <1>1, <2>2 DEF ShowsStatus
  <2>4. QED
    BY <2>3 DEF r
<1>2. CASE (m.type \notin StatusKinds \/ ~Free(r, StatusKinds)) /\ EndsLike(r, q, StatusKinds)
  <2> HIDE DEF m, r
  <2>1. ShowsStatus(r, p, v)
    BY <1>2, LikeStatus
  <2>2. m.type \notin StatusKinds => t.status = p.status
    BY DEF Read, StatusKinds, m
  <2>3. ShowsStatus(r, t, v)
    BY <1>2, <2>1, <2>2 DEF ShowsStatus
  <2>4. QED
    BY <2>3 DEF r
<1>3. QED
  BY <1>1, <1>2, ReadFirst

LEMMA ReadTick ==
  ASSUME NEW q, IsSeq(q), q # <<>>, NEW p, NEW t, Read(p, Head(q), t), NEW v,
         ShowsTick(q, p, v)
  PROVE  ShowsTick(Tail(q), t, v)
<1> DEFINE m == Head(q)
           r == Tail(q)
           K == {"snapshot"}
<1>1. CASE /\ m.type \in K /\ Free(r, K)
           /\ 1 \in 1..Len(q) /\ LastOf(q, K, 1) /\ q[1] = m
           /\ \A i \in 1..Len(r) : ~LastOf(r, K, i)
  <2>1. v = m.tick
    BY <1>1 DEF ShowsTick
  <2> HIDE DEF m, r
  <2>2. t.tick = v
    BY <1>1, <2>1 DEF Read, m
  <2>3. ShowsTick(r, t, v)
    BY <1>1, <2>2 DEF ShowsTick
  <2>4. QED
    BY <2>3 DEF r
<1>2. CASE (m.type \notin K \/ ~Free(r, K)) /\ EndsLike(r, q, K)
  <2> HIDE DEF m, r
  <2>1. ShowsTick(r, p, v)
    BY <1>2, LikeTick
  <2>2. m.type \notin K => t.tick = p.tick
    BY DEF Read, m
  <2>3. ShowsTick(r, t, v)
    BY <1>2, <2>1, <2>2 DEF ShowsTick
  <2>4. QED
    BY <2>3 DEF r
<1>3. QED
  BY <1>1, <1>2, ReadFirst

LEMMA ReadTotal ==
  ASSUME NEW q, IsSeq(q), q # <<>>, NEW p, NEW t, Read(p, Head(q), t), NEW v,
         ShowsTotal(q, p, v)
  PROVE  ShowsTotal(Tail(q), t, v)
<1> DEFINE m == Head(q)
           r == Tail(q)
           K == {"events"}
<1>1. CASE /\ m.type \in K /\ Free(r, K)
           /\ 1 \in 1..Len(q) /\ LastOf(q, K, 1) /\ q[1] = m
           /\ \A i \in 1..Len(r) : ~LastOf(r, K, i)
  <2>1. v = m.total
    BY <1>1 DEF ShowsTotal
  <2> HIDE DEF m, r
  <2>2. t.total = v
    BY <1>1, <2>1 DEF Read, m
  <2>3. ShowsTotal(r, t, v)
    BY <1>1, <2>2 DEF ShowsTotal
  <2>4. QED
    BY <2>3 DEF r
<1>2. CASE (m.type \notin K \/ ~Free(r, K)) /\ EndsLike(r, q, K)
  <2> HIDE DEF m, r
  <2>1. ShowsTotal(r, p, v)
    BY <1>2, LikeTotal
  <2>2. m.type \notin K => t.total = p.total
    BY DEF Read, m
  <2>3. ShowsTotal(r, t, v)
    BY <1>2, <2>1, <2>2 DEF ShowsTotal
  <2>4. QED
    BY <2>3 DEF r
<1>3. QED
  BY <1>1, <1>2, ReadFirst

LEMMA ReadStamp ==
  ASSUME NEW q, IsSeq(q), q # <<>>, NEW p, NEW t, Read(p, Head(q), t), NEW v,
         Stamps(q, p, v)
  PROVE  Stamps(Tail(q), t, v)
<1> DEFINE m == Head(q)
           r == Tail(q)
           K == {"run-complete"}
<1>1. CASE /\ m.type \in K /\ Free(r, K)
           /\ 1 \in 1..Len(q) /\ LastOf(q, K, 1) /\ q[1] = m
           /\ \A i \in 1..Len(r) : ~LastOf(r, K, i)
  <2>1. t.stamped
    BY <1>1 DEF Read
  <2>2. QED
    BY <2>1 DEF Stamps
<1>2. CASE (m.type \notin K \/ ~Free(r, K)) /\ EndsLike(r, q, K)
  <2> HIDE DEF m, r
  <2>1. Stamps(r, p, v)
    BY <1>2, LikeStamps
  <2>2. (t.stamped <=> m.type \in K \/ p.stamped) /\ t.expected = p.expected
    BY DEF Read, m
  <2>3. Stamps(r, t, v)
    BY <1>2, <2>1, <2>2 DEF Stamps
  <2>4. QED
    BY <2>3 DEF r
<1>3. QED
  BY <1>1, <1>2, ReadFirst

LEMMA ReadShows ==
  ASSUME NEW q, IsSeq(q), q # <<>>, NEW p, NEW t, Read(p, Head(q), t), NEW s, NEW h,
         s.runSeq \in Nat, View(q, p, s, h)
  PROVE  View(Tail(q), t, s, h) /\ MessageOf(Head(q))
<1> DEFINE m == Head(q)
           r == Tail(q)
           n == Len(q)
<1>1. /\ n \in Nat /\ n >= 1 /\ m = q[1] /\ IsSeq(r) /\ Len(r) = n - 1
      /\ \A i \in 1..(n - 1) : r[i] = q[i + 1]
  BY Taken
<1>2. Base(q, p, s, h) /\ Shown(q, p, s, h)
  BY DEF View
<1>3. Shown(r, t, s, h)
  BY <1>2, ReadStatus, ReadTick DEF Shown
<1>4. UpToDate(r, t, s, h)
  <2>1. t.expected = p.expected
    BY DEF Read
  <2>2. QED
    BY <1>2, <2>1, ReadTotal DEF Base, UpToDate
<1>5. s.announced => Stamps(r, t, s.runSeq)
  BY <1>2, ReadStamp DEF Base, Settled
<1>6. t.stamped <=> m.type = "run-complete" \/ p.stamped
  BY DEF Read
<1> HIDE DEF m, r
<1>7. MessageOf(m)
  BY <1>1, <1>2 DEF Base, Messages
<1>8. ASSUME NEW i \in 1..Len(r) PROVE i + 1 \in 1..n /\ r[i] = q[i + 1]
  BY <1>1
<1>9. Messages(r)
  BY <1>2, <1>8 DEF Base, Messages
<1>11. ASSUME NEW i \in 1..Len(r), r[i].type = "run-complete", s.runSeq <= 1
       PROVE  s.announced /\ \A j \in (i + 1)..Len(r) : r[j].type # "events"
  <2>1. i + 1 \in 1..n /\ r[i] = q[i + 1]
    BY <1>8
  <2>2. s.announced /\ \A j \in (i + 1 + 1)..n : q[j].type # "events"
    BY <1>2, <1>11, <2>1 DEF Base, Settled
  <2>3. ASSUME NEW j \in (i + 1)..Len(r) PROVE r[j].type # "events"
    <3>1. j \in 1..Len(r) /\ j + 1 \in (i + 1 + 1)..n
      BY <1>1
    <3>2. r[j] = q[j + 1]
      BY <1>8, <3>1
    <3>3. QED
      BY <2>2, <3>1, <3>2
  <2>4. QED
    BY <2>2, <2>3
<1>12. ASSUME t.stamped, s.runSeq <= 1
       PROVE  s.announced /\ Free(r, {"events"})
  <2>1. CASE m.type = "run-complete"
    <3>1. 1 \in 1..n /\ q[1].type = "run-complete" /\ s.runSeq <= 1
      BY <1>1, <1>12, <2>1
    <3>2. s.announced /\ \A j \in (1 + 1)..n : q[j].type # "events"
      BY <1>2, <3>1 DEF Base, Settled
    <3>3. ASSUME NEW i \in 1..Len(r) PROVE r[i].type # "events"
      <4>1. i + 1 \in (1 + 1)..n /\ r[i] = q[i + 1]
        BY <1>1, <1>8
      <4>2. QED
        BY <3>2, <4>1
    <3>4. QED
      BY <3>2, <3>3 DEF Free
  <2>2. CASE m.type # "run-complete"
    <3>1. s.announced /\ Free(q, {"events"})
      BY <1>2, <1>6, <1>12, <2>2 DEF Base, Settled
    <3>2. Free(r, {"events"})
      BY <1>8, <3>1 DEF Free
    <3>3. QED
      BY <3>1, <3>2
  <2>3. QED
    BY <2>1, <2>2
<1>13. Settled(r, t, s, h)
  BY <1>2, <1>5, <1>11, <1>12 DEF Base, Settled
<1>14. QED
  BY <1>3, <1>4, <1>7, <1>9, <1>13 DEF View, Base, m, r

-----------------------------------------------------------------------------
(* The commands on their way: their numbers, and the runs they will start. *)

\* Number k is there, or the gate has passed it.
Accounts(q, last, k) == k <= last \/ \E i \in 1..Len(q) : q[i].seq = k

\* The commands numbered up to n, of which the gate has passed those up to last.
InSequence(q, n, last) ==
  /\ IsSeq(q) /\ n \in Nat /\ last \in -1..n
  /\ \A i \in 1..Len(q) : q[i].seq \in 1..n
  /\ \A i, j \in 1..Len(q) : q[i].seq = q[j].seq => q[i].type = q[j].type
  /\ \A k \in 1..n : Accounts(q, last, k)
  /\ \A j \in 1..Len(q) : \A k \in 1..(q[j].seq - 1) :
       k <= last \/ \E i \in 1..(j - 1) : q[i].seq = k

\* The numbers of the commands that will start a run.
Starts(q, n, last) ==
  {k \in 1..n : k > last /\ \E i \in 1..Len(q) : q[i].seq = k /\ q[i].type \in Restart}

\* The worker has a run, or a command that makes one is on its way.
Promised(q, last, loaded) ==
  loaded \/ \E i \in 1..Len(q) : q[i].type = "load-scenario" /\ q[i].seq > last

LEMMA StartsFinite ==
  ASSUME NEW q, NEW n \in Nat, NEW last
  PROVE  IsFiniteSet(Starts(q, n, last)) /\ Cardinality(Starts(q, n, last)) \in Nat
<1>1. IsFiniteSet(1..n)
  BY FS_Interval
<1>2. Starts(q, n, last) \in SUBSET (1..n)
  BY DEF Starts
<1>3. IsFiniteSet(Starts(q, n, last))
  BY <1>1, <1>2, FS_Subset
<1>4. QED
  BY <1>3, FS_CardinalityType

LEMMA SentOrdered ==
  ASSUME NEW q, NEW n, NEW last, InSequence(q, n, last), NEW c, c.seq = n + 1
  PROVE  InSequence(Append(q, c), n + 1, last)
<1> DEFINE r == Append(q, c)
           l == Len(q)
<1>1. /\ IsSeq(q) /\ n \in Nat /\ last \in -1..n /\ l \in Nat
  BY SeqFacts DEF InSequence
<1>2. /\ IsSeq(r) /\ Len(r) = l + 1 /\ r[l + 1] = c /\ \A i \in 1..l : r[i] = q[i]
  BY <1>1, Appended
<1> HIDE DEF r
<1>3. \A i \in 1..l : q[i].seq \in 1..n
  BY DEF InSequence
<1>4. \A i \in 1..Len(r) : i \in 1..l \/ i = l + 1
  BY <1>1, <1>2
<1>5. \A i \in 1..Len(r) : r[i].seq \in 1..(n + 1)
  BY <1>1, <1>2, <1>3, <1>4
<1>6. ASSUME NEW i \in 1..Len(r), NEW j \in 1..Len(r), r[i].seq = r[j].seq
      PROVE  r[i].type = r[j].type
  <2>1. CASE i \in 1..l /\ j \in 1..l
    BY <1>2, <1>6, <2>1 DEF InSequence
  <2>2. CASE i = l + 1 /\ j = l + 1
    BY <2>2
  <2>3. CASE i = l + 1 /\ j \in 1..l
    <3>1. r[j].seq \in 1..n /\ r[i].seq = n + 1
      BY <1>2, <1>3, <2>3
    <3>2. QED
      BY <1>1, <1>6, <3>1
  <2>4. CASE i \in 1..l /\ j = l + 1
    <3>1. r[i].seq \in 1..n /\ r[j].seq = n + 1
      BY <1>2, <1>3, <2>4
    <3>2. QED
      BY <1>1, <1>6, <3>1
  <2>5. QED
    BY <1>4, <2>1, <2>2, <2>3, <2>4
<1>7. ASSUME NEW k \in 1..(n + 1) PROVE Accounts(r, last, k)
  <2>1. CASE k = n + 1
    <3>1. l + 1 \in 1..Len(r) /\ r[l + 1].seq = k
      BY <1>1, <1>2, <2>1
    <3>2. QED
      BY <3>1 DEF Accounts
  <2>2. CASE k # n + 1
    <3>1. k \in 1..n
      BY <1>1, <2>2
    <3>2. k <= last \/ \E i \in 1..l : q[i].seq = k
      BY <3>1 DEF InSequence, Accounts
    <3>3. CASE k <= last
      BY <3>3 DEF Accounts
    <3>4. ASSUME NEW i \in 1..l, q[i].seq = k PROVE Accounts(r, last, k)
      <4>1. i \in 1..Len(r) /\ r[i].seq = k
        BY <1>1, <1>2, <3>4
      <4>2. QED
        BY <4>1 DEF Accounts
    <3>5. QED
      BY <3>2, <3>3, <3>4
  <2>3. QED
    BY <2>1, <2>2
<1>8. ASSUME NEW j \in 1..Len(r), NEW k \in 1..(r[j].seq - 1)
      PROVE  k <= last \/ \E i \in 1..(j - 1) : r[i].seq = k
  <2>1. CASE j \in 1..l
    <3>1. r[j] = q[j]
      BY <1>2, <2>1
    <3>2. k <= last \/ \E i \in 1..(j - 1) : q[i].seq = k
      BY <1>8, <2>1, <3>1 DEF InSequence
    <3>3. \A i \in 1..(j - 1) : r[i] = q[i]
      BY <1>1, <1>2, <2>1
    <3>4. QED
      BY <3>2, <3>3
  <2>2. CASE j = l + 1
    <3>0. r[j] = c
      BY <1>2, <2>2
    <3>1. r[j].seq - 1 = n
      <4>1. r[j].seq = n + 1
        BY <3>0
      <4>2. r[j].seq - 1 = (n + 1) - 1
        BY <4>1
      <4>3. (n + 1) - 1 = n
        BY <1>1
      <4>4. QED
        BY <4>2, <4>3
    <3>2. k \in 1..n
      BY <3>1
    <3>3. k <= last \/ \E i \in 1..l : q[i].seq = k
      BY <3>2 DEF InSequence, Accounts
    <3>4. j - 1 = l
      BY <1>1, <2>2
    <3>5. QED
      BY <1>2, <3>3, <3>4
  <2>3. QED
    BY <1>4, <2>1, <2>2
<1>9. n + 1 \in Nat /\ last \in -1..(n + 1)
  BY <1>1
<1>10. QED
  BY <1>2, <1>5, <1>6, <1>7, <1>8, <1>9 DEF InSequence, r

LEMMA SentStarts ==
  ASSUME NEW q, NEW n, NEW last, InSequence(q, n, last), NEW c, c.seq = n + 1
  PROVE  /\ c.type \notin Restart => Starts(Append(q, c), n + 1, last) = Starts(q, n, last)
         /\ c.type \in Restart =>
              Cardinality(Starts(Append(q, c), n + 1, last)) = Cardinality(Starts(q, n, last)) + 1
<1> DEFINE r == Append(q, c)
           l == Len(q)
           R == Starts(r, n + 1, last)
           Q == Starts(q, n, last)
<1>1. /\ IsSeq(q) /\ n \in Nat /\ last \in -1..n /\ l \in Nat
      /\ \A i \in 1..l : q[i].seq \in 1..n
  BY SeqFacts DEF InSequence
<1>2. /\ Len(r) = l + 1 /\ r[l + 1] = c /\ \A i \in 1..l : r[i] = q[i]
  BY <1>1, Appended
<1> HIDE DEF r
<1>3. ASSUME NEW k \in Q PROVE k \in R /\ k # n + 1
  <2>1. k \in 1..n /\ k > last
    BY DEF Starts
  <2>2. PICK i \in 1..l : q[i].seq = k /\ q[i].type \in Restart
    BY DEF Starts
  <2>3. i \in 1..Len(r) /\ r[i] = q[i]
    BY <1>1, <1>2
  <2>4. k \in 1..(n + 1) /\ k # n + 1
    BY <1>1, <2>1
  <2>5. QED
    BY <2>1, <2>2, <2>3, <2>4 DEF Starts
<1>4. ASSUME NEW k \in R, k # n + 1 PROVE k \in Q
  <2>1. k \in 1..n /\ k > last
    BY <1>1, <1>4 DEF Starts
  <2>2. PICK i \in 1..Len(r) : r[i].seq = k /\ r[i].type \in Restart
    BY DEF Starts
  <2>3. i \in 1..l
    BY <1>1, <1>2, <1>4, <2>2
  <2>4. QED
    BY <1>2, <2>1, <2>2, <2>3 DEF Starts
<1>5. n + 1 \in R <=> c.type \in Restart
  <2>1. ASSUME c.type \in Restart PROVE n + 1 \in R
    <3>1. l + 1 \in 1..Len(r) /\ n + 1 \in 1..(n + 1) /\ n + 1 > last
      BY <1>1, <1>2
    <3>2. r[l + 1].seq = n + 1 /\ r[l + 1].type \in Restart
      BY <1>2, <2>1
    <3>3. QED
      BY <3>1, <3>2 DEF Starts
  <2>2. ASSUME n + 1 \in R PROVE c.type \in Restart
    <3>1. PICK i \in 1..Len(r) : r[i].seq = n + 1 /\ r[i].type \in Restart
      BY <2>2 DEF Starts
    <3>2. i = l + 1
      <4>1. SUFFICES ASSUME i \in 1..l PROVE FALSE
        BY <1>1, <1>2
      <4>2. q[i].seq \in 1..n /\ q[i].seq = n + 1
        BY <1>1, <1>2, <3>1, <4>1
      <4>3. QED
        BY <1>1, <4>2
    <3>3. QED
      BY <1>2, <3>1, <3>2
  <2>3. QED
    BY <2>1, <2>2
<1> HIDE DEF R, Q
<1>6. CASE c.type \notin Restart
  <2>1. R = Q
    BY <1>3, <1>4, <1>5, <1>6
  <2>2. QED
    BY <1>6, <2>1 DEF R, Q, r
<1>7. CASE c.type \in Restart
  <2>1. R = Q \cup {n + 1} /\ n + 1 \notin Q
    BY <1>3, <1>4, <1>5, <1>7
  <2>2. IsFiniteSet(Q)
    BY <1>1, StartsFinite DEF Q
  <2>3. Cardinality(R) = Cardinality(Q) + 1
    BY <2>1, <2>2, FS_AddElement
  <2>4. QED
    BY <1>7, <2>3 DEF R, Q, r
<1>8. QED
  BY <1>6, <1>7

LEMMA SentPromised ==
  ASSUME NEW q, NEW n, NEW last, InSequence(q, n, last), NEW loaded, NEW c, c.seq = n + 1,
         Promised(q, last, loaded) \/ c.type = "load-scenario"
  PROVE  Promised(Append(q, c), last, loaded)
<1> DEFINE r == Append(q, c)
           l == Len(q)
<1>1. /\ IsSeq(q) /\ n \in Nat /\ last \in -1..n /\ l \in Nat
  BY SeqFacts DEF InSequence
<1>2. /\ Len(r) = l + 1 /\ r[l + 1] = c /\ \A i \in 1..l : r[i] = q[i]
  BY <1>1, Appended
<1> HIDE DEF r
<1>3. CASE loaded
  BY <1>3 DEF Promised
<1>4. ASSUME NEW i \in 1..l, q[i].type = "load-scenario", q[i].seq > last
      PROVE  Promised(r, last, loaded)
  <2>1. i \in 1..Len(r) /\ r[i] = q[i]
    BY <1>1, <1>2
  <2>2. QED
    BY <1>4, <2>1 DEF Promised
<1>5. ASSUME c.type = "load-scenario" PROVE Promised(r, last, loaded)
  <2>1. l + 1 \in 1..Len(r) /\ r[l + 1].type = "load-scenario" /\ r[l + 1].seq > last
    BY <1>1, <1>2, <1>5
  <2>2. QED
    BY <2>1 DEF Promised
<1>6. QED
  BY <1>3, <1>4, <1>5 DEF Promised, r

LEMMA HeadIsNext ==
  ASSUME NEW q, NEW n, NEW last, InSequence(q, n, last), q # <<>>
  PROVE  /\ n \in Nat /\ last \in -1..n /\ IsSeq(q) /\ Len(q) \in Nat /\ 1 \in 1..Len(q)
         /\ Head(q) = q[1] /\ Head(q).seq \in 1..n
         /\ \A k \in 1..(Head(q).seq - 1) : k <= last
<1>1. IsSeq(q) /\ n \in Nat /\ last \in -1..n
  BY DEF InSequence
<1>2. Len(q) \in Nat /\ Len(q) >= 1 /\ Head(q) = q[1]
  BY <1>1, Taken
<1>3. 1 \in 1..Len(q)
  BY <1>2
<1>4. q[1].seq \in 1..n
  BY <1>3 DEF InSequence
<1>5. ASSUME NEW k \in 1..(q[1].seq - 1) PROVE k <= last
  <2>1. k <= last \/ \E i \in 1..(1 - 1) : q[i].seq = k
    BY <1>3 DEF InSequence
  <2>2. QED
    BY <2>1
<1>6. QED
  BY <1>1, <1>2, <1>3, <1>4, <1>5

\* The rest of the queue, when the gate is at m.
LEMMA RestOrdered ==
  ASSUME NEW q, NEW n, NEW last, InSequence(q, n, last), q # <<>>,
         NEW m \in -1..n, last <= m, Head(q).seq <= m
  PROVE  InSequence(Tail(q), n, m)
<1> DEFINE r == Tail(q)
           l == Len(q)
<1>1. /\ n \in Nat /\ last \in -1..n /\ IsSeq(q) /\ l \in Nat
      /\ Head(q) = q[1] /\ q[1].seq \in 1..n /\ q[1].seq <= m
  BY HeadIsNext
<1>2. /\ IsSeq(r) /\ Len(r) = l - 1 /\ \A i \in 1..(l - 1) : r[i] = q[i + 1]
  BY <1>1, Taken
<1> HIDE DEF r
<1>3. ASSUME NEW i \in 1..Len(r) PROVE i + 1 \in 1..l /\ r[i] = q[i + 1]
  BY <1>1, <1>2
<1>4. ASSUME NEW i \in 1..l, i # 1 PROVE i - 1 \in 1..Len(r) /\ r[i - 1] = q[i]
  <2>1. i - 1 \in 1..Len(r) /\ i - 1 + 1 = i
    BY <1>1, <1>2, <1>4
  <2>2. QED
    BY <1>3, <2>1
<1>5. \A i \in 1..Len(r) : r[i].seq \in 1..n
  BY <1>3 DEF InSequence
<1>6. \A i, j \in 1..Len(r) : r[i].seq = r[j].seq => r[i].type = r[j].type
  BY <1>3 DEF InSequence
<1>7. ASSUME NEW k \in 1..n PROVE Accounts(r, m, k)
  <2>1. k <= last \/ \E i \in 1..l : q[i].seq = k
    BY DEF InSequence, Accounts
  <2>2. CASE k <= last
    BY <1>1, <2>2 DEF Accounts
  <2>3. ASSUME NEW i \in 1..l, q[i].seq = k PROVE Accounts(r, m, k)
    <3>1. CASE i = 1
      BY <1>1, <2>3, <3>1 DEF Accounts
    <3>2. CASE i # 1
      BY <1>4, <2>3, <3>2 DEF Accounts
    <3>3. QED
      BY <3>1, <3>2
  <2>4. QED
    BY <2>1, <2>2, <2>3
<1>8. ASSUME NEW j \in 1..Len(r), NEW k \in 1..(r[j].seq - 1)
      PROVE  k <= m \/ \E i \in 1..(j - 1) : r[i].seq = k
  <2>1. j + 1 \in 1..l /\ r[j] = q[j + 1]
    BY <1>3
  <2>2. k \in 1..(q[j + 1].seq - 1)
    BY <2>1
  <2>3. k <= last \/ \E i \in 1..(j + 1 - 1) : q[i].seq = k
    BY <2>1, <2>2 DEF InSequence
  <2>4. CASE k <= last
    BY <1>1, <2>4
  <2>5. ASSUME NEW i \in 1..j, q[i].seq = k
        PROVE  k <= m \/ \E x \in 1..(j - 1) : r[x].seq = k
    <3>1. i \in 1..l
      BY <1>1, <2>1
    <3>2. CASE i = 1
      BY <1>1, <2>5, <3>2
    <3>3. CASE i # 1
      <4>1. r[i - 1].seq = k
        BY <1>4, <2>5, <3>1, <3>3
      <4>2. i - 1 \in 1..(j - 1)
        BY <3>3
      <4>3. QED
        BY <4>1, <4>2
    <3>4. QED
      BY <3>2, <3>3
  <2>6. j + 1 - 1 = j
    OBVIOUS
  <2>7. QED
    BY <2>3, <2>4, <2>5, <2>6
<1>9. QED
  BY <1>1, <1>2, <1>5, <1>6, <1>7, <1>8 DEF InSequence, r

LEMMA RestStarts ==
  ASSUME NEW q, NEW n, NEW last, InSequence(q, n, last), q # <<>>,
         NEW m \in -1..n, last <= m, Head(q).seq <= m, NEW k
  PROVE  k \in Starts(Tail(q), n, m) <=> k \in Starts(q, n, last) /\ k > m
<1> DEFINE r == Tail(q)
           l == Len(q)
<1>1. /\ n \in Nat /\ last \in -1..n /\ IsSeq(q) /\ l \in Nat
      /\ Head(q) = q[1] /\ q[1].seq \in 1..n /\ q[1].seq <= m
  BY HeadIsNext
<1>2. /\ IsSeq(r) /\ Len(r) = l - 1 /\ \A i \in 1..(l - 1) : r[i] = q[i + 1]
  BY <1>1, Taken
<1> HIDE DEF r
<1>3. ASSUME NEW i \in 1..Len(r) PROVE i + 1 \in 1..l /\ r[i] = q[i + 1]
  BY <1>1, <1>2
<1>4. ASSUME NEW i \in 1..l, i # 1 PROVE i - 1 \in 1..Len(r) /\ r[i - 1] = q[i]
  <2>1. i - 1 \in 1..Len(r) /\ i - 1 + 1 = i
    BY <1>1, <1>2, <1>4
  <2>2. QED
    BY <1>3, <2>1
<1>5. ASSUME k \in Starts(r, n, m) PROVE k \in Starts(q, n, last) /\ k > m
  <2>1. k \in 1..n /\ k > m
    BY <1>5 DEF Starts
  <2>2. PICK i \in 1..Len(r) : r[i].seq = k /\ r[i].type \in Restart
    BY <1>5 DEF Starts
  <2>3. k > last
    BY <1>1, <2>1
  <2>4. i + 1 \in 1..l /\ q[i + 1].seq = k /\ q[i + 1].type \in Restart
    BY <1>3, <2>2
  <2>5. QED
    BY <2>1, <2>3, <2>4 DEF Starts
<1>6. ASSUME k \in Starts(q, n, last), k > m PROVE k \in Starts(r, n, m)
  <2>1. k \in 1..n
    BY <1>6 DEF Starts
  <2>2. PICK i \in 1..l : q[i].seq = k /\ q[i].type \in Restart
    BY <1>6 DEF Starts
  <2>3. i # 1
    <3>1. SUFFICES ASSUME i = 1 PROVE FALSE
      OBVIOUS
    <3>2. k <= m
      BY <1>1, <2>2, <3>1
    <3>3. QED
      BY <1>6, <2>1, <3>2
  <2>4. i - 1 \in 1..Len(r) /\ r[i - 1].seq = k /\ r[i - 1].type \in Restart
    BY <1>4, <2>2, <2>3
  <2>5. QED
    BY <1>6, <2>1, <2>4 DEF Starts
<1>7. QED
  BY <1>5, <1>6 DEF r

\* A command the gate refuses counted for nothing any more.
LEMMA RefusedRest ==
  ASSUME NEW q, NEW n, NEW last, InSequence(q, n, last), q # <<>>, Head(q).seq <= last
  PROVE  /\ InSequence(Tail(q), n, last) /\ Starts(Tail(q), n, last) = Starts(q, n, last)
         /\ \A loaded : Promised(q, last, loaded) => Promised(Tail(q), last, loaded)
<1> DEFINE r == Tail(q)
           l == Len(q)
<1>1. /\ n \in Nat /\ last \in -1..n /\ IsSeq(q) /\ l \in Nat
      /\ Head(q) = q[1] /\ q[1].seq \in 1..n /\ q[1].seq <= last
      /\ \A i \in 1..l : q[i].seq \in 1..n
  BY HeadIsNext DEF InSequence
<1>2. last <= last
  BY <1>1
<1>3. InSequence(r, n, last)
  BY <1>1, <1>2, RestOrdered
<1>4. Starts(r, n, last) = Starts(q, n, last)
  <2>1. ASSUME NEW k PROVE k \in Starts(r, n, last) <=> k \in Starts(q, n, last) /\ k > last
    BY <1>1, <1>2, RestStarts
  <2>2. \A k \in Starts(q, n, last) : k > last
    BY DEF Starts
  <2>3. QED
    BY <2>1, <2>2
<1>5. /\ IsSeq(r) /\ Len(r) = l - 1 /\ \A i \in 1..(l - 1) : r[i] = q[i + 1]
  BY <1>1, Taken
<1> HIDE DEF r
<1>6. ASSUME NEW loaded, Promised(q, last, loaded), ~loaded
      PROVE  \E i \in 1..Len(r) : r[i].type = "load-scenario" /\ r[i].seq > last
  <2>1. PICK j \in 1..l : q[j].type = "load-scenario" /\ q[j].seq > last
    BY <1>6 DEF Promised
  <2>2. j # 1
    <3>1. SUFFICES ASSUME j = 1 PROVE FALSE
      OBVIOUS
    <3>2. QED
      BY <1>1, <2>1, <3>1
  <2>3. j - 1 \in 1..Len(r) /\ r[j - 1] = q[j]
    <3>1. j - 1 \in 1..(l - 1) /\ j - 1 + 1 = j
      BY <1>1, <2>2
    <3>2. QED
      BY <1>5, <3>1
  <2>4. QED
    BY <2>1, <2>3
<1>7. QED
  BY <1>3, <1>4, <1>6 DEF Promised, r

\* One it lets pass is the next, and starts what it was counted for.
LEMMA PassedRest ==
  ASSUME NEW q, NEW n, NEW last, InSequence(q, n, last), q # <<>>, Head(q).seq > last,
         NEW loaded, NEW ready, ready => Promised(q, last, loaded)
  PROVE  LET c == Head(q)
             after == Cardinality(Starts(Tail(q), n, c.seq))
             before == Cardinality(Starts(q, n, last))
         IN /\ InSequence(Tail(q), n, c.seq)
            /\ after = IF c.type \in Restart THEN before - 1 ELSE before
            /\ \A now : (loaded => now) /\ (c.type = "load-scenario" => now) /\ ready =>
                          Promised(Tail(q), c.seq, now)
<1> DEFINE c == Head(q)
           r == Tail(q)
           l == Len(q)
           m == c.seq
           S == Starts(q, n, last)
           T == Starts(r, n, m)
<1>1. /\ n \in Nat /\ last \in -1..n /\ IsSeq(q) /\ l \in Nat /\ 1 \in 1..l
      /\ c = q[1] /\ m \in 1..n /\ m > last
      /\ \A k \in 1..(m - 1) : k <= last
      /\ \A i \in 1..l : q[i].seq \in 1..n
      /\ \A i \in 1..l : q[i].seq = m => q[i].type = c.type
  BY HeadIsNext DEF InSequence
<1>2. m \in -1..n /\ last <= m /\ m <= m
  BY <1>1
<1>3. InSequence(r, n, m)
  BY <1>2, RestOrdered
<1>4. ASSUME NEW k PROVE k \in T <=> k \in S /\ k > m
  BY <1>2, RestStarts
<1>5. /\ IsSeq(r) /\ Len(r) = l - 1 /\ \A i \in 1..(l - 1) : r[i] = q[i + 1]
  BY <1>1, Taken
<1> HIDE DEF r, c, m
<1>6. m = c.seq
  BY DEF m
<1>7. ASSUME NEW k \in 1..n, k > last, k # m PROVE k > m
  <2>1. k \notin 1..(m - 1)
    <3>1. SUFFICES ASSUME k \in 1..(m - 1) PROVE FALSE
      OBVIOUS
    <3>2. k <= last
      BY <1>1, <3>1
    <3>3. QED
      BY <1>1, <1>7, <3>2
  <2>2. k \in Int /\ m \in Int /\ k >= 1
    BY <1>1
  <2>3. QED
    BY <1>7, <2>1, <2>2
<1>8. m \in S <=> c.type \in Restart
  <2>1. ASSUME c.type \in Restart PROVE m \in S
    BY <1>1, <1>6, <2>1 DEF Starts
  <2>2. ASSUME m \in S PROVE c.type \in Restart
    BY <1>1, <2>2 DEF Starts
  <2>3. QED
    BY <2>1, <2>2
<1>9. T = S \ {m}
  <2>1. ASSUME NEW k \in S, k # m PROVE k > m
    BY <1>7, <2>1 DEF Starts
  <2>2. ~(m > m)
    BY <1>1
  <2> HIDE DEF S, T
  <2>3. QED
    BY <1>4, <2>1, <2>2
<1>10. IsFiniteSet(S) /\ Cardinality(S) \in Nat
  BY <1>1, StartsFinite
<1> HIDE DEF S, T
<1>11. Cardinality(T) = IF c.type \in Restart THEN Cardinality(S) - 1 ELSE Cardinality(S)
  <2>1. CASE m \in S
    BY <1>8, <1>9, <1>10, <2>1, FS_RemoveElement
  <2>2. CASE m \notin S
    <3>1. T = S
      BY <1>9, <2>2
    <3>2. QED
      BY <1>8, <2>2, <3>1
  <2>3. QED
    BY <2>1, <2>2
<1>12. ASSUME NEW now, loaded => now, c.type = "load-scenario" => now, ready, ~now
       PROVE  \E i \in 1..Len(r) : r[i].type = "load-scenario" /\ r[i].seq > m
  <2>1. PICK j \in 1..l : q[j].type = "load-scenario" /\ q[j].seq > last
    BY <1>12 DEF Promised
  <2>2. q[j].seq # m
    BY <1>1, <1>12, <2>1
  <2>3. j # 1
    BY <1>1, <1>6, <2>2
  <2>4. q[j].seq > m
    BY <1>1, <1>7, <2>1, <2>2
  <2>5. j - 1 \in 1..Len(r) /\ r[j - 1] = q[j]
    <3>1. j - 1 \in 1..(l - 1) /\ j - 1 + 1 = j
      BY <1>1, <2>3
    <3>2. QED
      BY <1>5, <3>1
  <2>6. QED
    BY <2>1, <2>4, <2>5
<1>13. \A now : (loaded => now) /\ (c.type = "load-scenario" => now) /\ ready =>
         Promised(r, m, now)
  BY <1>12 DEF Promised
<1>14. QED
  BY <1>3, <1>11, <1>13 DEF S, T, m, c, r

\* A command that is delivered again changes nothing of this.
LEMMA AgainRest ==
  ASSUME NEW q, NEW n, NEW last, InSequence(q, n, last), q # <<>>
  PROVE  LET r == Append(q, Head(q))
         IN /\ InSequence(r, n, last) /\ Starts(r, n, last) = Starts(q, n, last)
            /\ \A loaded : Promised(q, last, loaded) => Promised(r, last, loaded)
<1> DEFINE c == Head(q)
           r == Append(q, c)
           l == Len(q)
<1>1. /\ n \in Nat /\ last \in -1..n /\ IsSeq(q) /\ l \in Nat /\ 1 \in 1..l
      /\ c = q[1] /\ c.seq \in 1..n
      /\ \A k \in 1..(c.seq - 1) : k <= last
  BY HeadIsNext
<1> HIDE DEF c
<1>2. /\ IsSeq(r) /\ Len(r) = l + 1 /\ r[l + 1] = c /\ \A i \in 1..l : r[i] = q[i]
  BY <1>1, Appended
<1> HIDE DEF r
\* Every place of r holds what an earlier or equal place of q does.
<1>3. ASSUME NEW i \in 1..Len(r)
      PROVE  \E x \in 1..l : r[i] = q[x] /\ (i \in 1..l \/ i = l + 1)
  <2>1. i \in 1..l \/ i = l + 1
    BY <1>1, <1>2
  <2>2. QED
    BY <1>1, <1>2, <2>1
<1>4. ASSUME NEW i \in 1..l PROVE i \in 1..Len(r) /\ r[i] = q[i]
  BY <1>1, <1>2
<1>5. \A i \in 1..Len(r) : r[i].seq \in 1..n
  BY <1>3 DEF InSequence
<1>6. ASSUME NEW i \in 1..Len(r), NEW j \in 1..Len(r), r[i].seq = r[j].seq
      PROVE  r[i].type = r[j].type
  <2>1. PICK x \in 1..l : r[i] = q[x]
    BY <1>3
  <2>2. PICK y \in 1..l : r[j] = q[y]
    BY <1>3
  <2>3. QED
    BY <1>6, <2>1, <2>2 DEF InSequence
<1>7. ASSUME NEW k \in 1..n PROVE Accounts(r, last, k)
  <2>1. k <= last \/ \E i \in 1..l : q[i].seq = k
    BY DEF InSequence, Accounts
  <2>2. QED
    BY <1>4, <2>1 DEF Accounts
<1>8. ASSUME NEW j \in 1..Len(r), NEW k \in 1..(r[j].seq - 1)
      PROVE  k <= last \/ \E i \in 1..(j - 1) : r[i].seq = k
  <2>1. CASE j \in 1..l
    <3>1. r[j] = q[j]
      BY <1>4, <2>1
    <3>2. k <= last \/ \E i \in 1..(j - 1) : q[i].seq = k
      BY <1>8, <2>1, <3>1 DEF InSequence
    <3>3. \A i \in 1..(j - 1) : r[i] = q[i]
      BY <1>1, <1>4, <2>1
    <3>4. QED
      BY <3>2, <3>3
  <2>2. CASE j = l + 1
    <3>1. r[j] = c
      BY <1>2, <2>2
    <3>2. QED
      BY <1>1, <1>8, <3>1
  <2>3. QED
    BY <1>3, <2>1, <2>2
<1>9. InSequence(r, n, last)
  BY <1>1, <1>2, <1>5, <1>6, <1>7, <1>8 DEF InSequence
<1>10. ASSUME NEW k
       PROVE  (\E i \in 1..Len(r) : r[i].seq = k /\ r[i].type \in Restart)
                <=> \E i \in 1..l : q[i].seq = k /\ q[i].type \in Restart
  BY <1>3, <1>4
<1>11. Starts(r, n, last) = Starts(q, n, last)
  BY <1>10 DEF Starts
<1>12. ASSUME NEW loaded, Promised(q, last, loaded), ~loaded
       PROVE  \E j \in 1..Len(r) : r[j].type = "load-scenario" /\ r[j].seq > last
  BY <1>4, <1>12 DEF Promised
<1>13. QED
  BY <1>9, <1>11, <1>12 DEF Promised, r, c

-----------------------------------------------------------------------------
(* Page, queues and worker together.                                       *)

\* The number, where the worker counts, of the run the last command posted will start.
Awaited(q, n, last, s) == s.runSeq + Cardinality(Starts(q, n, last))

\* The page counts every run the worker will start, and those it refuses too; once it is
\* ready one will be started.
Commands(q, p, g, s, h) ==
  /\ g.seen \subseteq 1..p.sent /\ \A k \in g.seen : k <= g.last
  /\ InSequence(q, p.sent, g.last)
  /\ Awaited(q, p.sent, g.last, s) <= p.expected
  /\ p.ready => Promised(q, g.last, Loaded(h))

Looks(p) ==
  /\ IsPage(p) /\ {p.sent, p.expected, p.tick, p.total} \subseteq Nat
  /\ p.ready \in BOOLEAN /\ p.stamped \in BOOLEAN
  /\ p.status \in PageStatuses /\ p.asked \subseteq Nat
  /\ p.imported \in {"none", "ok", "refused"}
  /\ p.verdict \in {"none", "match", "mismatch", "error"}

Linked(q, b, p, g, s, h) ==
  /\ IsSeq(b) /\ Engine(s, h) /\ Commands(q, p, g, s, h) /\ Looks(p)
  /\ View(b, Counted(p, Awaited(q, p.sent, g.last, s)), s, h)

LEMMA NotBehind ==
  ASSUME NEW q, NEW b, NEW p, NEW g, NEW s, NEW h, Linked(q, b, p, g, s, h)
  PROVE  LET a == Awaited(q, p.sent, g.last, s)
         IN /\ p.expected \in Nat /\ s.runSeq \in Nat /\ p.sent \in Nat
            /\ a \in Nat /\ s.runSeq <= a /\ a <= p.expected
            /\ Cardinality(Starts(q, p.sent, g.last)) \in Nat
            /\ a = s.runSeq + Cardinality(Starts(q, p.sent, g.last))
<1> DEFINE S == Starts(q, p.sent, g.last)
           a == Awaited(q, p.sent, g.last, s)
<1>1. /\ p.expected \in Nat /\ s.runSeq \in Nat /\ p.sent \in Nat /\ a <= p.expected
  BY DEF Linked, Engine, Numbers, Commands, Looks
<1>2. Cardinality(S) \in Nat
  BY <1>1, StartsFinite
<1>3. a = s.runSeq + Cardinality(S)
  BY DEF Awaited
<1> HIDE DEF S, a
<1>4. a \in Nat /\ s.runSeq <= a
  BY <1>1, <1>2, <1>3
<1>5. QED
  BY <1>1, <1>2, <1>3, <1>4 DEF S, a

LEMMA PostedShows ==
  ASSUME NEW q, NEW b, NEW p, NEW g, NEW s, NEW h, Linked(q, b, p, g, s, h),
         NEW c, "type" \in DOMAIN c, NEW more \in {0, 1},
         more = IF c.type \in Restart THEN 1 ELSE 0,
         NEW x, Looks(x), x.sent = p.sent, x.expected = p.expected + more,
         View(b, Counted(x, Awaited(q, p.sent, g.last, s) + more), s, h),
         x.ready => p.ready \/ c.type = "load-scenario"
  PROVE  Linked(Append(q, Sequenced(c, x.sent + 1)), b, [x EXCEPT !.sent = @ + 1], g, s, h)
<1> DEFINE n == p.sent
           d == Sequenced(c, x.sent + 1)
           r == Append(q, d)
           t == [x EXCEPT !.sent = x.sent + 1]
           S == Starts(q, n, g.last)
           T == Starts(r, n + 1, g.last)
           a == Awaited(q, n, g.last, s)
           z == Awaited(r, n + 1, g.last, s)
<1>1. d.seq = n + 1 /\ d.type = c.type
  BY DEF Sequenced
<1> HIDE DEF d
<1>2. /\ n \in Nat /\ Cardinality(S) \in Nat /\ s.runSeq \in Nat
      /\ a \in Nat /\ a <= p.expected /\ a = s.runSeq + Cardinality(S) /\ p.expected \in Nat
  BY NotBehind
<1>3. InSequence(q, n, g.last) /\ (p.ready => Promised(q, g.last, Loaded(h)))
      /\ g.seen \subseteq 1..n /\ \A k \in g.seen : k <= g.last
  BY DEF Linked, Commands
<1>4. /\ t.sent = n + 1 /\ t.expected = x.expected /\ t.ready = x.ready /\ IsPage(t)
      /\ t.tick = x.tick /\ t.total = x.total /\ t.status = x.status /\ t.asked = x.asked
      /\ t.imported = x.imported /\ t.verdict = x.verdict /\ t.stamped = x.stamped
  BY DEF Looks, IsPage
<1> HIDE DEF t
<1>5. InSequence(r, n + 1, g.last)
  BY <1>1, <1>3, SentOrdered
<1>6. /\ c.type \notin Restart => T = S
      /\ c.type \in Restart => Cardinality(T) = Cardinality(S) + 1
  BY <1>1, <1>3, SentStarts
<1>7. t.ready => Promised(r, g.last, Loaded(h))
  <2> SUFFICES ASSUME t.ready PROVE Promised(r, g.last, Loaded(h))
    OBVIOUS
  <2>1. Promised(q, g.last, Loaded(h)) \/ d.type = "load-scenario"
    BY <1>1, <1>3, <1>4
  <2>2. QED
    BY <1>1, <1>3, <2>1, SentPromised
<1>8. z = s.runSeq + Cardinality(T)
  BY DEF Awaited
<1> HIDE DEF r, S, T, a, z
<1>9. z = a + more
  BY <1>2, <1>6, <1>8
<1>10. z <= t.expected
  BY <1>2, <1>4, <1>9
<1>11. g.seen \subseteq 1..(n + 1)
  BY <1>2, <1>3
<1>12. Commands(r, t, g, s, h)
  BY <1>3, <1>4, <1>5, <1>7, <1>10, <1>11 DEF Commands, z
<1>13. Looks(t)
  BY <1>2, <1>4 DEF Looks
<1>14. View(b, Counted(t, z), s, h)
  <2>1. SameShow(x, t)
    BY <1>4 DEF SameShow
  <2>2. View(b, Counted(x, z), s, h)
    BY <1>9 DEF a
  <2>3. QED
    BY <2>1, <2>2, ViewOfSame
<1>15. Linked(r, b, t, g, s, h)
  BY <1>4, <1>12, <1>13, <1>14 DEF Linked, z
<1>16. QED
  BY <1>15 DEF r, t, d

LEMMA ReadKeeps ==
  ASSUME NEW q, NEW b, NEW p, NEW g, NEW s, NEW h, Linked(q, b, p, g, s, h), b # <<>>,
         NEW t, Read(p, Head(b), t), t.sent = p.sent, t.ready = p.ready,
         MessageOf(Head(b)) => Looks(t)
  PROVE  Linked(q, Tail(b), t, g, s, h)
<1> DEFINE a == Awaited(q, p.sent, g.last, s)
           x == Counted(p, a)
           y == Counted(t, a)
<1>1. IsSeq(b) /\ View(b, x, s, h) /\ s.runSeq \in Nat
  BY DEF Linked, Engine, Numbers
<1>2. Read(x, Head(b), y)
  BY DEF Read, Counted
<1> HIDE DEF x, y
<1>3. View(Tail(b), y, s, h) /\ MessageOf(Head(b))
  BY <1>1, <1>2, ReadShows
<1>4. IsSeq(Tail(b))
  BY <1>1, Taken
<1>5. t.expected = p.expected
  BY DEF Read
<1>6. Commands(q, t, g, s, h)
  BY <1>5 DEF Linked, Commands
<1>7. QED
  BY <1>3, <1>4, <1>6 DEF Linked, y

LEMMA RefusedShows ==
  ASSUME NEW q, NEW b, NEW p, NEW g, NEW s, NEW h, Linked(q, b, p, g, s, h), q # <<>>,
         Head(q).seq \in g.seen \/ ~(Head(q).seq > g.last)
  PROVE  Linked(Tail(q), b, p, g, s, h)
<1>1. Commands(q, p, g, s, h) /\ InSequence(q, p.sent, g.last)
  BY DEF Linked, Commands
<1>2. Head(q).seq <= g.last
  <2>1. Head(q).seq \in 1..p.sent /\ g.last \in -1..p.sent /\ p.sent \in Nat
    BY <1>1, HeadIsNext
  <2>2. CASE Head(q).seq \in g.seen
    BY <1>1, <2>2 DEF Commands
  <2>3. CASE ~(Head(q).seq > g.last)
    BY <2>1, <2>3
  <2>4. QED
    BY <2>2, <2>3
<1>3. /\ InSequence(Tail(q), p.sent, g.last)
      /\ Starts(Tail(q), p.sent, g.last) = Starts(q, p.sent, g.last)
      /\ \A loaded : Promised(q, g.last, loaded) => Promised(Tail(q), g.last, loaded)
  BY <1>1, <1>2, RefusedRest
<1>4. Awaited(Tail(q), p.sent, g.last, s) = Awaited(q, p.sent, g.last, s)
  BY <1>3 DEF Awaited
<1>5. QED
  BY <1>3, <1>4 DEF Linked, Commands

LEMMA RedeliveredShows ==
  ASSUME NEW q, NEW b, NEW p, NEW g, NEW s, NEW h, Linked(q, b, p, g, s, h), q # <<>>
  PROVE  Linked(Append(q, Head(q)), b, p, g, s, h)
<1> DEFINE r == Append(q, Head(q))
<1>1. InSequence(q, p.sent, g.last)
  BY DEF Linked, Commands
<1>2. /\ InSequence(r, p.sent, g.last)
      /\ Starts(r, p.sent, g.last) = Starts(q, p.sent, g.last)
      /\ \A loaded : Promised(q, g.last, loaded) => Promised(r, g.last, loaded)
  BY <1>1, AgainRest
<1> HIDE DEF r
<1>3. Awaited(r, p.sent, g.last, s) = Awaited(q, p.sent, g.last, s)
  BY <1>2 DEF Awaited
<1>4. Linked(r, b, p, g, s, h)
  BY <1>2, <1>3 DEF Linked, Commands
<1>5. QED
  BY <1>4 DEF r

LEMMA PassedShows ==
  ASSUME NEW q, NEW b, NEW p, NEW g, NEW s, NEW h, Linked(q, b, p, g, s, h), q # <<>>,
         Fits(Head(q)), Head(q).seq > g.last,
         NEW k, k.last = Head(q).seq, k.seen = g.seen \cup {Head(q).seq}
  PROVE  LET d == handleCommand(s, h, Head(q))
         IN Linked(Tail(q), b \o d.out, p, k, d.session, d.host)
<1> DEFINE c == Head(q)
           r == Tail(q)
           d == handleCommand(s, h, c)
           n == p.sent
           m == c.seq
           before == Cardinality(Starts(q, n, g.last))
           after == Cardinality(Starts(r, n, m))
           runs == d.session.runSeq
           a == Awaited(q, n, g.last, s)
           z == Awaited(r, n, m, d.session)
<1>1. /\ IsSeq(b) /\ Engine(s, h) /\ View(b, Counted(p, a), s, h) /\ Looks(p)
      /\ g.seen \subseteq 1..n /\ \A i \in g.seen : i <= g.last
      /\ InSequence(q, n, g.last) /\ (p.ready => Promised(q, g.last, Loaded(h)))
  BY DEF Linked, Commands
<1>2. /\ s.runSeq \in Nat /\ before \in Nat /\ a = s.runSeq + before /\ a <= p.expected
      /\ p.expected \in Nat
  BY NotBehind
<1>3. m \in 1..n /\ n \in Nat /\ g.last \in -1..n
  BY <1>1, HeadIsNext
<1>4. /\ InSequence(r, n, m)
      /\ after = IF c.type \in Restart THEN before - 1 ELSE before
      /\ \A now : (Loaded(h) => now) /\ (c.type = "load-scenario" => now) /\ p.ready =>
           Promised(r, m, now)
  <2> DEFINE loaded == Loaded(h)
             last == g.last
             ready == p.ready
  <2>1. InSequence(q, n, last) /\ (ready => Promised(q, last, loaded)) /\ c.seq > last
    BY <1>1
  <2>2. before = Cardinality(Starts(q, n, last))
    OBVIOUS
  <2> HIDE DEF loaded, last, before, ready
  <2>3. InSequence(r, n, m)
    BY <2>1, PassedRest
  <2>4. after = IF c.type \in Restart THEN Cardinality(Starts(q, n, last)) - 1
                ELSE Cardinality(Starts(q, n, last))
    BY <2>1, PassedRest
  <2>5. \A now : (loaded => now) /\ (c.type = "load-scenario" => now) /\ ready =>
          Promised(r, m, now)
    BY <2>1, PassedRest
  <2>6. QED
    BY <2>2, <2>3, <2>4, <2>5 DEF loaded, ready
<1>5. Good(b, Counted(p, a), d) /\ runs = IF Restarts(c, h) THEN s.runSeq + 1 ELSE s.runSeq
  BY <1>1, HandledShows
<1>6. z = runs + after
  BY DEF Awaited
<1> HIDE DEF c, r, d
<1>7. Engine(d.session, d.host) /\ View(b \o d.out, Counted(p, a), d.session, d.host)
      /\ Packed(d)
  BY <1>5 DEF Good, Whole
<1>8. IsSeq(b \o d.out)
  <2> DEFINE out == d.out
  <2>1. IsSeq(out) /\ IsSeq(b)
    BY <1>1, <1>7 DEF Packed
  <2> HIDE DEF out
  <2>2. IsSeq(b \o out)
    BY ONLY <2>1, Joined
  <2>3. QED
    BY <2>2 DEF out
<1>9. /\ Loaded(h) <=> s.runSeq # 0
      /\ Loaded(d.host) <=> runs # 0
      /\ ~Loaded(d.host) => ~d.session.announced
  BY <1>1, <1>7 DEF Engine
<1> HIDE DEF before, after, runs, a, z
\* A reset without a run is refused: the page waits for one run fewer than it counts.
<1>10. z = a \/ (z <= a /\ ~Loaded(d.host))
  <2>1. CASE c.type \notin Restart
    <3>1. ~Restarts(c, h)
      BY <2>1 DEF Restarts, Restart
    <3>2. QED
      BY <1>2, <1>4, <1>5, <1>6, <2>1, <3>1
  <2>2. CASE Restarts(c, h)
    <3>1. c.type \in Restart
      BY <2>2 DEF Restarts, Restart
    <3>2. QED
      BY <1>2, <1>4, <1>5, <1>6, <2>2, <3>1
  <2>3. CASE c.type \in Restart /\ ~Restarts(c, h)
    <3>1. ~Loaded(h)
      BY <2>3 DEF Restarts, Restart
    <3>2. runs = s.runSeq /\ ~Loaded(d.host)
      BY <1>5, <1>9, <2>3, <3>1
    <3>3. after = before - 1
      BY <1>4, <2>3
    <3>4. z <= a
      BY <1>2, <1>6, <3>2, <3>3
    <3>5. QED
      BY <3>2, <3>4
  <2>4. QED
    BY <2>1, <2>2, <2>3
<1>11. View(b \o d.out, Counted(p, z), d.session, d.host)
  <2>1. CASE z = a
    BY <1>7, <2>1
  <2>2. CASE ~Loaded(d.host)
    BY <1>7, <1>9, <2>2, ViewUnloaded
  <2>3. QED
    BY <1>10, <2>1, <2>2
<1>12. p.ready => Promised(r, m, Loaded(d.host))
  <2>1. c.type = "load-scenario" => runs = s.runSeq + 1
    BY <1>5 DEF Restarts
  <2>2. runs = s.runSeq \/ runs = s.runSeq + 1
    BY <1>5
  <2>3. c.type = "load-scenario" => Loaded(d.host)
    BY <1>2, <1>9, <2>1
  <2>4. Loaded(h) => Loaded(d.host)
    BY <1>2, <1>9, <2>2
  <2>5. QED
    BY <1>4, <2>3, <2>4
<1>13. k.seen \subseteq 1..n /\ \A i \in k.seen : i <= k.last
  <2>1. k.last = m /\ k.seen = g.seen \cup {m} /\ m > g.last
    BY DEF c
  <2>2. ASSUME NEW i \in g.seen PROVE i \in 1..n /\ i <= m
    <3>1. i \in 1..n /\ i <= g.last
      BY <1>1
    <3>2. QED
      BY <1>3, <2>1, <3>1
  <2>3. m <= m
    BY <1>3
  <2> HIDE DEF m
  <2>4. QED
    BY <1>3, <2>1, <2>2, <2>3
<1>14. k.last = m
  BY DEF c
<1>15. z \in Int /\ z <= p.expected
  <2>1. runs \in Nat
    BY <1>2, <1>5
  <2>2. after \in Int
    BY <1>2, <1>4
  <2>3. QED
    BY <1>2, <1>6, <1>10, <2>1, <2>2
<1>16. Awaited(r, n, k.last, d.session) = z
  BY <1>14 DEF z
<1>17. Commands(r, p, k, d.session, d.host)
  BY <1>4, <1>12, <1>13, <1>14, <1>15, <1>16 DEF Commands
<1>18. Linked(r, b \o d.out, p, k, d.session, d.host)
  BY <1>1, <1>7, <1>8, <1>11, <1>16, <1>17 DEF Linked
<1>19. QED
  BY <1>18 DEF c, r, d

LEMMA PumpedShows ==
  ASSUME NEW q, NEW b, NEW p, NEW g, NEW s, NEW h, Linked(q, b, p, g, s, h),
         s.status = "running", NEW n \in Nat
  PROVE  LET d == Stepped(s, h, stepTicks(h.run, n))
         IN Linked(q, b \o d.out, p, g, d.session, d.host)
<1> DEFINE d == Stepped(s, h, stepTicks(h.run, n))
           a == Awaited(q, p.sent, g.last, s)
<1>1. /\ IsSeq(b) /\ Engine(s, h) /\ View(b, Counted(p, a), s, h) /\ Looks(p)
      /\ Commands(q, p, g, s, h)
  BY DEF Linked
<1>2. Good(b, Counted(p, a), d) /\ d.session.runSeq = s.runSeq
  BY <1>1, PumpShows
<1> HIDE DEF d
<1>3. Engine(d.session, d.host) /\ View(b \o d.out, Counted(p, a), d.session, d.host)
      /\ Packed(d)
  BY <1>2 DEF Good, Whole
<1>4. IsSeq(b \o d.out)
  <2> DEFINE out == d.out
  <2>1. IsSeq(out) /\ IsSeq(b)
    BY <1>1, <1>3 DEF Packed
  <2> HIDE DEF out
  <2>2. IsSeq(b \o out)
    BY ONLY <2>1, Joined
  <2>3. QED
    BY <2>2 DEF out
<1>5. Loaded(h) <=> Loaded(d.host)
  BY <1>1, <1>2, <1>3 DEF Engine
<1>6. p.ready => Promised(q, g.last, Loaded(d.host))
  <2>1. p.ready => Promised(q, g.last, Loaded(h))
    BY <1>1 DEF Commands
  <2>2. QED
    BY <1>5, <2>1 DEF Promised
<1>7. Awaited(q, p.sent, g.last, d.session) = a
  BY <1>2 DEF Awaited
<1>8. Commands(q, p, g, d.session, d.host)
  BY <1>1, <1>6, <1>7 DEF Commands
<1>9. Linked(q, b \o d.out, p, g, d.session, d.host)
  BY <1>1, <1>3, <1>4, <1>7, <1>8 DEF Linked
<1>10. QED
  BY <1>9 DEF d

Bounded == clicks \in 0..MaxCommands /\ repeats \in 0..MaxRepeats

PageInv ==
  SessionInv /\ Linked(toWorker, toPage, page, gate, session, host) /\ Bounded

LEMMA StartsLinked ==
  ASSUME NEW p, Looks(p), p.sent = 1, p.expected = 0, p.ready = FALSE, p.status = "idle",
         p.stamped = FALSE,
         NEW s, IsSession(s), s.status = "idle", s.sent = 0, s.announced = FALSE, s.runSeq = 0,
         NEW h, IsHost(h), ~Loaded(h), NEW g, g.last = -1, g.seen = {},
         NEW c, c.type = "hello", c.seq = 1
  PROVE  Linked(Append(<<>>, c), <<>>, p, g, s, h)
<1> DEFINE none == <<>>
           q == Append(none, c)
<1>1. Len(none) = 0 /\ IsSeq(none)
  BY EmptyIsSeq
<1> HIDE DEF none
<1>2. Engine(s, h)
  <2>1. s.announced \in BOOLEAN
    OBVIOUS
  <2>2. s.status \in SessionStatuses
    BY DEF SessionStatuses, PageStatuses
  <2>3. Numbers(s)
    BY <2>1, <2>2 DEF Numbers
  <2>4. ~s.announced
    OBVIOUS
  <2>5. QED
    BY <2>3, <2>4 DEF Engine
<1>3. View(none, Counted(p, 0), s, h)
  <2> DEFINE x == Counted(p, 0)
  <2>1. x.status = s.status /\ ~x.stamped
    BY DEF Counted
  <2> HIDE DEF x
  <2>2. ~s.announced
    OBVIOUS
  <2>3. Base(none, x, s, h)
    BY <1>1, <2>1, <2>2 DEF Base, Messages, UpToDate, Settled
  <2>4. ShowsStatus(none, x, s.status)
    BY <1>1, <2>1 DEF ShowsStatus
  <2>5. QED
    BY <2>3, <2>4 DEF View, Shown, x
<1>4. InSequence(none, 0, -1)
  BY <1>1 DEF InSequence
<1>5. Starts(none, 0, -1) = {} /\ Cardinality(Starts(none, 0, -1)) = 0
  <2>1. Starts(none, 0, -1) = {}
    BY DEF Starts
  <2>2. QED
    BY <2>1, FS_EmptySet
<1>6. c.seq = 0 + 1 /\ c.type \notin Restart
  BY DEF Restart
<1>7. InSequence(q, 0 + 1, -1)
  BY <1>4, <1>6, SentOrdered
<1>8. Starts(q, 0 + 1, -1) = Starts(none, 0, -1)
  BY <1>4, <1>6, SentStarts
<1>9. 0 + 1 = 1
  OBVIOUS
<1> HIDE DEF q
<1>10. Awaited(q, p.sent, g.last, s) = 0
  BY <1>5, <1>8, <1>9 DEF Awaited
<1>11. Commands(q, p, g, s, h)
  BY <1>7, <1>9, <1>10 DEF Commands
<1>12. Linked(q, none, p, g, s, h)
  BY <1>1, <1>2, <1>3, <1>10, <1>11 DEF Linked
<1>13. QED
  BY <1>12 DEF q, none

LEMMA PageInit == Init => PageInv
<1> SUFFICES ASSUME Init PROVE PageInv
  OBVIOUS
<1> DEFINE hello == [type |-> "hello", seq |-> 1]
<1>1. /\ toWorker = Append(<<>>, hello) /\ toPage = <<>>
      /\ gate = [last |-> -1, seen |-> {}]
      /\ session = [status |-> "idle", sent |-> 0, announced |-> FALSE, runSeq |-> 0]
      /\ host = [run |-> Absent, imported |-> None]
  BY DEF Init
<1>2. page = [sent |-> 1, expected |-> 0, ready |-> FALSE, shown |-> FALSE, status |-> "idle",
              tick |-> 0, total |-> 0, stamped |-> FALSE, asked |-> {}, imported |-> "none",
              verdict |-> "none"]
  BY DEF Init
<1>3. hello.type = "hello" /\ hello.seq = 1
  OBVIOUS
<1> HIDE DEF hello
<1>4. IsPage(page)
  BY <1>2 DEF IsPage
<1>5. /\ page.sent = 1 /\ page.expected = 0 /\ page.ready = FALSE /\ page.status = "idle"
      /\ page.stamped = FALSE /\ page.tick = 0 /\ page.total = 0 /\ page.asked = {}
      /\ page.imported = "none" /\ page.verdict = "none"
  BY <1>2
<1>6. Looks(page)
  <2>1. page.ready \in BOOLEAN /\ page.stamped \in BOOLEAN
    BY <1>5
  <2>2. page.status \in PageStatuses
    BY <1>5 DEF PageStatuses
  <2>3. {page.sent, page.expected, page.tick, page.total} \subseteq Nat /\ page.asked \subseteq Nat
    BY <1>5
  <2>4. /\ page.imported \in {"none", "ok", "refused"}
        /\ page.verdict \in {"none", "match", "mismatch", "error"}
    BY <1>5
  <2>5. QED
    BY <1>4, <2>1, <2>2, <2>3, <2>4 DEF Looks
<1>7. /\ session.status = "idle" /\ session.sent = 0 /\ session.announced = FALSE
      /\ session.runSeq = 0 /\ IsSession(session)
  <2>1. session.status = "idle" /\ session.sent = 0 /\ session.runSeq = 0
    BY <1>1
  <2>2. session.announced = FALSE
    BY <1>1
  <2>3. IsSession(session)
    BY <1>1 DEF IsSession
  <2>4. QED
    BY <2>1, <2>2, <2>3
<1>8. IsHost(host) /\ ~Loaded(host)
  <2>1. host.run = Absent
    BY <1>1
  <2>2. ~Loaded(host)
    BY <2>1 DEF Loaded
  <2>3. IsHost(host)
    BY <1>1 DEF IsHost
  <2>4. QED
    BY <2>2, <2>3
<1>9. gate.last = -1 /\ gate.seen = {}
  BY <1>1
<1>10. Linked(Append(<<>>, hello), <<>>, page, gate, session, host)
  BY <1>3, <1>5, <1>6, <1>7, <1>8, <1>9, StartsLinked
<1>11. Bounded
  <2>1. clicks \in {0, MaxCommands - 2, MaxCommands - 1} /\ repeats \in {0, MaxRepeats}
    BY DEF Init
  <2>2. MaxCommands \in Nat \ {0, 1} /\ MaxRepeats \in Nat
    BY WorkerAssumption
  <2>3. QED
    BY <2>1, <2>2 DEF Bounded
<1>12. QED
  BY <1>1, <1>10, <1>11, SessionInit DEF PageInv

\* A page that shows as p does and looks like one.
Alter(p, t) ==
  Looks(t) /\ SameShow(p, t) /\ t.sent = p.sent /\ t.ready = p.ready

LEMMA Unaltered ==
  ASSUME NEW p, Looks(p)
  PROVE  Alter(p, p)
BY DEF Alter, SameShow

LEMMA AlteredFields ==
  ASSUME NEW p, Looks(p), NEW asked, asked \subseteq Nat,
         NEW imported \in {"none", "ok", "refused"},
         NEW verdict \in {"none", "match", "mismatch", "error"}
  PROVE  /\ Alter(p, [p EXCEPT !.asked = asked])
         /\ Alter(p, [p EXCEPT !.verdict = verdict])
         /\ Alter(p, [p EXCEPT !.imported = imported])
         /\ Alter(p, [p EXCEPT !.verdict = verdict, !.imported = imported])
<1>1. IsPage(p) /\ Looks(p)
  BY DEF Looks
<1>2. ASSUME NEW t, t = [p EXCEPT !.asked = asked] PROVE Alter(p, t)
  <2>1. /\ IsPage(t) /\ t.status = p.status /\ t.imported = p.imported /\ t.verdict = p.verdict
        /\ t.asked = asked /\ t.sent = p.sent /\ t.expected = p.expected /\ t.ready = p.ready
        /\ t.tick = p.tick /\ t.total = p.total /\ t.stamped = p.stamped
    BY <1>1, <1>2 DEF IsPage
  <2>2. QED
    BY <1>1, <2>1 DEF Alter, Looks, SameShow
<1>3. ASSUME NEW t, t = [p EXCEPT !.verdict = verdict] PROVE Alter(p, t)
  <2>1. /\ IsPage(t) /\ t.status = p.status /\ t.imported = p.imported /\ t.verdict = verdict
        /\ t.asked = p.asked /\ t.sent = p.sent /\ t.expected = p.expected /\ t.ready = p.ready
        /\ t.tick = p.tick /\ t.total = p.total /\ t.stamped = p.stamped
    BY <1>1, <1>3 DEF IsPage
  <2>2. QED
    BY <1>1, <2>1 DEF Alter, Looks, SameShow
<1>4. ASSUME NEW t, t = [p EXCEPT !.imported = imported] PROVE Alter(p, t)
  <2>1. /\ IsPage(t) /\ t.status = p.status /\ t.imported = imported /\ t.verdict = p.verdict
        /\ t.asked = p.asked /\ t.sent = p.sent /\ t.expected = p.expected /\ t.ready = p.ready
        /\ t.tick = p.tick /\ t.total = p.total /\ t.stamped = p.stamped
    BY <1>1, <1>4 DEF IsPage
  <2>2. QED
    BY <1>1, <2>1 DEF Alter, Looks, SameShow
<1>5. ASSUME NEW t, t = [p EXCEPT !.verdict = verdict, !.imported = imported]
      PROVE  Alter(p, t)
  <2>1. /\ IsPage(t) /\ t.status = p.status /\ t.imported = imported /\ t.verdict = verdict
        /\ t.asked = p.asked /\ t.sent = p.sent /\ t.expected = p.expected /\ t.ready = p.ready
        /\ t.tick = p.tick /\ t.total = p.total /\ t.stamped = p.stamped
    BY <1>1, <1>5 DEF IsPage
  <2>2. QED
    BY <1>1, <2>1 DEF Alter, Looks, SameShow
<1>6. QED
  BY <1>2, <1>3, <1>4, <1>5

\* What a message makes of a page.
LEMMA ToldSnapshot ==
  ASSUME NEW p, Looks(p), NEW m, MessageOf(m), m.type = "snapshot",
         NEW t, t = [p EXCEPT !.shown = TRUE, !.status = m.status, !.tick = m.tick]
  PROVE  Read(p, m, t) /\ t.sent = p.sent /\ t.ready = p.ready /\ Looks(t)
<1>1. IsPage(p) /\ Looks(p)
  BY DEF Looks
<1>2. /\ IsPage(t) /\ t.status = m.status /\ t.imported = p.imported /\ t.verdict = p.verdict
      /\ t.asked = p.asked /\ t.sent = p.sent /\ t.expected = p.expected /\ t.ready = p.ready
      /\ t.tick = m.tick /\ t.total = p.total /\ t.stamped = p.stamped
  BY <1>1 DEF IsPage
<1>3. m.status \in PageStatuses /\ m.tick \in Nat
  BY DEF MessageOf
<1>4. Read(p, m, t)
  BY <1>2 DEF Read
<1>5. Looks(t)
  BY <1>1, <1>2, <1>3 DEF Looks
<1>6. QED
  BY <1>2, <1>4, <1>5

LEMMA ToldEvents ==
  ASSUME NEW p, Looks(p), NEW m, MessageOf(m), m.type = "events",
         NEW t, t = [p EXCEPT !.total = m.total]
  PROVE  Read(p, m, t) /\ t.sent = p.sent /\ t.ready = p.ready /\ Looks(t)
<1>1. IsPage(p) /\ Looks(p)
  BY DEF Looks
<1>2. /\ IsPage(t) /\ t.status = p.status /\ t.imported = p.imported /\ t.verdict = p.verdict
      /\ t.asked = p.asked /\ t.sent = p.sent /\ t.expected = p.expected /\ t.ready = p.ready
      /\ t.tick = p.tick /\ t.total = m.total /\ t.stamped = p.stamped
  BY <1>1 DEF IsPage
<1>3. m.total \in Nat
  BY DEF MessageOf
<1>4. Read(p, m, t)
  BY <1>2 DEF Read
<1>5. Looks(t)
  BY <1>1, <1>2, <1>3 DEF Looks
<1>6. QED
  BY <1>2, <1>4, <1>5

LEMMA ToldComplete ==
  ASSUME NEW p, Looks(p), NEW m, m.type = "run-complete",
         NEW t, t = [p EXCEPT !.stamped = TRUE, !.status = "complete"]
  PROVE  Read(p, m, t) /\ t.sent = p.sent /\ t.ready = p.ready /\ Looks(t)
<1>1. IsPage(p) /\ Looks(p)
  BY DEF Looks
<1>2. /\ IsPage(t) /\ t.status = "complete" /\ t.imported = p.imported
      /\ t.verdict = p.verdict /\ t.ready = p.ready
      /\ t.asked = p.asked /\ t.sent = p.sent /\ t.expected = p.expected
      /\ t.tick = p.tick /\ t.total = p.total /\ t.stamped = TRUE
  BY <1>1 DEF IsPage
<1>3. "complete" \in PageStatuses
  BY DEF PageStatuses
<1>4. Read(p, m, t)
  BY <1>2 DEF Read
<1>5. Looks(t)
  BY <1>1, <1>2, <1>3 DEF Looks
<1>6. QED
  BY <1>2, <1>4, <1>5

LEMMA ToldOther ==
  ASSUME NEW p, NEW m, m.type \notin {"snapshot", "events", "run-complete"},
         NEW t, Alter(p, t)
  PROVE  Read(p, m, t) /\ t.sent = p.sent /\ t.ready = p.ready /\ Looks(t)
BY DEF Alter, SameShow, Read

LEMMA NewViewLooks ==
  ASSUME NEW p, Looks(p)
  PROVE  Looks(NewView(p)) /\ NewView(p).sent = p.sent /\ NewView(p).ready = p.ready
<1> DEFINE t == NewView(p)
<1>1. IsPage(p) /\ Looks(p) /\ p.expected \in Nat
  BY DEF Looks
<1>2. t = [p EXCEPT !.expected = p.expected + 1, !.total = 0, !.stamped = FALSE, !.asked = {},
                    !.verdict = "none"]
  BY DEF NewView
<1> HIDE DEF t
<1>3. /\ IsPage(t) /\ t.status = p.status /\ t.imported = p.imported /\ t.verdict = "none"
      /\ t.asked = {} /\ t.sent = p.sent /\ t.expected = p.expected + 1 /\ t.ready = p.ready
      /\ t.tick = p.tick /\ t.total = 0
  BY <1>1, <1>2 DEF IsPage
<1>4. t.stamped = FALSE
  BY <1>1, <1>2 DEF IsPage
<1>5. t.stamped \in BOOLEAN
  BY <1>4
<1>6. Looks(t)
  BY <1>1, <1>3, <1>5 DEF Looks
<1>7. QED
  BY <1>3, <1>6 DEF t

LEMMA ReadyLooks ==
  ASSUME NEW p, Looks(p), NEW t, t = [p EXCEPT !.ready = TRUE]
  PROVE  Looks(t) /\ SameShow(p, t) /\ t.sent = p.sent
<1>1. IsPage(p) /\ Looks(p)
  BY DEF Looks
<1>2. /\ IsPage(t) /\ t.status = p.status /\ t.imported = p.imported /\ t.verdict = p.verdict
      /\ t.asked = p.asked /\ t.sent = p.sent /\ t.expected = p.expected
      /\ t.tick = p.tick /\ t.total = p.total /\ t.stamped = p.stamped
  BY <1>1 DEF IsPage
<1>3. t.ready = TRUE
  BY <1>1 DEF IsPage
<1>4. t.ready \in BOOLEAN
  BY <1>3
<1>5. QED
  BY <1>1, <1>2, <1>4 DEF Looks, SameShow

\* The page asks for a run: of the pages it may be, p is the one it was.
LEMMA AskedShows ==
  ASSUME NEW q, NEW b, NEW p, NEW g, NEW s, NEW h, Linked(q, b, p, g, s, h),
         NEW x, Looks(x), SameShow(p, x), x.sent = p.sent,
         NEW c, "type" \in DOMAIN c, c.type \in Restart,
         x.ready => p.ready \/ c.type = "load-scenario"
  PROVE  Linked(Append(q, Sequenced(c, NewView(x).sent + 1)), b,
                [NewView(x) EXCEPT !.sent = @ + 1], g, s, h)
<1> DEFINE t == NewView(x)
           a == Awaited(q, p.sent, g.last, s)
<1>1. s.runSeq \in Nat /\ a \in Nat /\ a >= s.runSeq
  BY NotBehind
<1>2. View(b, Counted(x, a), s, h) /\ x.expected = p.expected /\ IsPage(x)
  BY ViewOfSame DEF Linked, SameShow, Looks
<1>3. View(b, Counted(t, a + 1), s, h) /\ t.expected = x.expected + 1
  <2> HIDE DEF a
  <2>1. QED
    BY <1>1, <1>2, NewViewShows
<1>4. Looks(t) /\ t.sent = p.sent /\ t.ready = x.ready
  BY NewViewLooks
<1> HIDE DEF t
<1>5. t.expected = p.expected + 1
  BY <1>2, <1>3
<1> DEFINE more == 1
<1>6. more \in {0, 1} /\ more = IF c.type \in Restart THEN 1 ELSE 0
  OBVIOUS
<1>7. View(b, Counted(t, a + more), s, h) /\ t.expected = p.expected + more
  BY <1>3, <1>5
<1>8. t.ready => p.ready \/ c.type = "load-scenario"
  BY <1>4
<1> HIDE DEF more
<1>9. Linked(Append(q, Sequenced(c, t.sent + 1)), b, [t EXCEPT !.sent = @ + 1], g, s, h)
  BY <1>4, <1>6, <1>7, <1>8, PostedShows
<1>10. QED
  BY <1>9 DEF t

LEMMA AlteredShows ==
  ASSUME NEW q, NEW b, NEW p, NEW g, NEW s, NEW h, Linked(q, b, p, g, s, h),
         NEW x, Alter(p, x), NEW c, "type" \in DOMAIN c, c.type \notin Restart
  PROVE  Linked(Append(q, Sequenced(c, x.sent + 1)), b, [x EXCEPT !.sent = @ + 1], g, s, h)
<1> DEFINE a == Awaited(q, p.sent, g.last, s)
           more == 0
<1>1. View(b, Counted(x, a), s, h) /\ Looks(x) /\ x.sent = p.sent /\ x.expected = p.expected
      /\ x.ready = p.ready
  BY ViewOfSame DEF Linked, Alter, SameShow
<1>2. a \in Nat /\ p.expected \in Nat
  BY NotBehind
<1>3. a + more = a /\ p.expected + more = p.expected
  <2> HIDE DEF a
  <2>1. QED
    BY <1>2
<1>4. more \in {0, 1} /\ more = IF c.type \in Restart THEN 1 ELSE 0
  OBVIOUS
<1>5. View(b, Counted(x, a + more), s, h) /\ x.expected = p.expected + more
  BY <1>1, <1>3
<1> HIDE DEF more
<1>6. QED
  BY <1>1, <1>4, <1>5, PostedShows

LEMMA PageStep == PageInv /\ [Next]_vars => PageInv'
<1> SUFFICES ASSUME PageInv, [Next]_vars PROVE PageInv'
  OBVIOUS
<1> USE DEF PageInv
<1>1. SessionInv'
  BY SessionStep
<1>2. Linked(toWorker, toPage, page, gate, session, host) /\ Bounded /\ Fitting(toWorker)
  BY DEF SessionInv
<1> DEFINE After == Linked(toWorker', toPage', page', gate', session', host')
<1>3. Looks(page) /\ page.sent \in Nat /\ page.asked \subseteq Nat
  BY <1>2 DEF Linked, Looks
<1>4. ASSUME After, UNCHANGED <<clicks, repeats>> PROVE PageInv'
  BY <1>1, <1>2, <1>4 DEF Bounded
<1>5. ASSUME After, Click PROVE PageInv'
  <2>1. clicks' \in 0..MaxCommands
    BY <1>2, <1>5, WorkerAssumption DEF Bounded, Click
  <2>2. repeats' = repeats
    BY <1>5 DEF Click
  <2>3. QED
    BY <1>1, <1>2, <1>5, <2>1, <2>2 DEF Bounded
<1> DEFINE PostsOnly == UNCHANGED <<toPage, gate, session, host>>
<1>6. ASSUME NEW x, Alter(page, x), NEW c, "type" \in DOMAIN c, c.type \notin Restart,
             Post(x, c), PostsOnly
      PROVE  After
  <2>1. Linked(Append(toWorker, Sequenced(c, x.sent + 1)), toPage, [x EXCEPT !.sent = @ + 1],
               gate, session, host)
    BY <1>2, <1>6, AlteredShows
  <2>2. QED
    BY <1>6, <2>1 DEF Post
<1>7. ASSUME NEW type, type \notin Restart, Post(page, [type |-> type]), PostsOnly PROVE After
  <2>1. Alter(page, page)
    BY <1>3, Unaltered
  <2> DEFINE c == [type |-> type]
  <2>2. "type" \in DOMAIN c /\ c.type \notin Restart
    BY <1>7
  <2>3. Post(page, c)
    BY <1>7
  <2> HIDE DEF c
  <2>4. QED
    BY <1>6, <1>7, <2>1, <2>2, <2>3
<1>8. ASSUME NEW t, toPage # <<>>, Read(page, Head(toPage), t), t.sent = page.sent,
             t.ready = page.ready, MessageOf(Head(toPage)) => Looks(t)
      PROVE  Linked(toWorker, Tail(toPage), t, gate, session, host)
  BY <1>2, <1>8, ReadKeeps
<1>9. toPage # <<>> => MessageOf(Head(toPage))
  <2> SUFFICES ASSUME toPage # <<>> PROVE MessageOf(Head(toPage))
    OBVIOUS
  <2>1. IsSeq(toPage) /\ Messages(toPage)
    BY <1>2 DEF Linked, View, Base
  <2>2. Head(toPage) = toPage[1] /\ 1 \in 1..Len(toPage)
    BY <2>1, Taken
  <2>3. QED
    BY <2>1, <2>2 DEF Messages
<1>10. ASSUME NEW t, toPage # <<>>, Alter(page, t),
              Head(toPage).type \notin {"snapshot", "events", "run-complete"}
       PROVE  Linked(toWorker, Tail(toPage), t, gate, session, host)
  <2> DEFINE m == Head(toPage)
  <2>1. MessageOf(m)
    BY <1>9, <1>10
  <2>2. Read(page, m, t) /\ t.sent = page.sent /\ t.ready = page.ready /\ Looks(t)
    BY <1>3, <1>10, <2>1, ToldOther
  <2>3. QED
    BY <1>8, <1>10, <2>2
<1>11. ASSUME NEW type, Told(type)
       PROVE  /\ toPage # <<>> /\ Head(toPage).type = type /\ toPage' = Tail(toPage)
              /\ UNCHANGED <<gate, session, host, clicks, repeats>>
  BY <1>11 DEF Told
<1>12. ASSUME NEW type, Told(type), type \notin {"snapshot", "events", "run-complete"},
              Alter(page, page'), UNCHANGED toWorker
       PROVE  PageInv'
  <2>1. Linked(toWorker, Tail(toPage), page', gate, session, host)
    BY <1>10, <1>11, <1>12
  <2>2. After
    BY <1>11, <1>12, <2>1
  <2>3. QED
    BY <1>4, <1>11, <1>12, <2>2
<1> HIDE DEF After, PageInv
<1>13. CASE Execute
  <2> DEFINE c == Head(toWorker)
             d == handleCommand(session, host, c)
  <2>1. /\ toWorker # <<>> /\ Passes(c) /\ toWorker' = Tail(toWorker)
        /\ gate' = [last |-> c.seq, seen |-> gate.seen \cup {c.seq}]
        /\ session' = d.session /\ host' = d.host /\ toPage' = toPage \o d.out
        /\ UNCHANGED <<page, clicks, repeats>>
    BY <1>13 DEF Execute, Becomes
  <2>2. Fits(c) /\ c.seq > gate.last
    BY <1>2, <2>1, FittingShrinks DEF Passes
  <2>3. gate'.last = c.seq /\ gate'.seen = gate.seen \cup {c.seq}
    BY <2>1
  <2>4. Linked(Tail(toWorker), toPage \o d.out, page, gate', d.session, d.host)
    BY <1>2, <2>1, <2>2, <2>3, PassedShows
  <2> HIDE DEF c, d
  <2>5. After
    BY <2>1, <2>4 DEF After
  <2>6. QED
    BY <1>4, <2>1, <2>5
<1>14. CASE Refuse
  <2>1. /\ toWorker # <<>> /\ ~Passes(Head(toWorker)) /\ toWorker' = Tail(toWorker)
        /\ UNCHANGED <<page, toPage, gate, session, host, clicks, repeats>>
    BY <1>14 DEF Refuse
  <2>2. Head(toWorker).seq \in gate.seen \/ ~(Head(toWorker).seq > gate.last)
    BY <2>1 DEF Passes
  <2>3. Linked(Tail(toWorker), toPage, page, gate, session, host)
    BY <1>2, <2>1, <2>2, RefusedShows
  <2>4. After
    BY <2>1, <2>3 DEF After
  <2>5. QED
    BY <1>4, <2>1, <2>4
<1>15. CASE Pump
  <2>1. /\ session.status = "running" /\ UNCHANGED <<page, toWorker, gate, clicks, repeats>>
        /\ \E n \in 1..MaxBatch : Becomes(Stepped(session, host, stepTicks(host.run, n)))
    BY <1>15 DEF Pump
  <2>2. PICK n \in 1..MaxBatch : Becomes(Stepped(session, host, stepTicks(host.run, n)))
    BY <2>1
  <2> DEFINE d == Stepped(session, host, stepTicks(host.run, n))
  <2>3. session' = d.session /\ host' = d.host /\ toPage' = toPage \o d.out
    BY <2>2 DEF Becomes
  <2>4. n \in Nat
    BY WorkerAssumption
  <2>5. Linked(toWorker, toPage \o d.out, page, gate, d.session, d.host)
    BY <1>2, <2>1, <2>4, PumpedShows
  <2> HIDE DEF d
  <2>6. After
    BY <2>1, <2>3, <2>5 DEF After
  <2>7. QED
    BY <1>4, <2>1, <2>6
<1>16. ASSUME NEW x, Looks(x), SameShow(page, x), x.sent = page.sent,
              NEW c, "type" \in DOMAIN c, c.type \in Restart,
              x.ready => page.ready \/ c.type = "load-scenario", Post(NewView(x), c), PostsOnly
       PROVE  After
  <2>1. Linked(Append(toWorker, Sequenced(c, NewView(x).sent + 1)), toPage,
               [NewView(x) EXCEPT !.sent = @ + 1], gate, session, host)
    BY <1>2, <1>16, AskedShows
  <2>2. QED
    BY <1>16, <2>1 DEF Post, After
<1>17. Looks(page) /\ SameShow(page, page) /\ page.sent = page.sent
  BY <1>3 DEF SameShow
<1>18. CASE LoadScenario
  <2>1. PICK conduct \in Loads :
          Post(NewView(page), [type |-> "load-scenario", conduct |-> conduct])
    BY <1>18 DEF LoadScenario
  <2> DEFINE c == [type |-> "load-scenario", conduct |-> conduct]
  <2>2. "type" \in DOMAIN c /\ c.type = "load-scenario"
    OBVIOUS
  <2>3. Post(NewView(page), c) /\ Click /\ PostsOnly
    BY <1>18, <2>1 DEF LoadScenario, Click
  <2> HIDE DEF c
  <2>4. After
    BY <1>16, <1>17, <2>2, <2>3 DEF Restart
  <2>5. QED
    BY <1>5, <2>3, <2>4
<1>19. CASE Reset
  <2> DEFINE c == [type |-> "reset"]
  <2>1. "type" \in DOMAIN c /\ c.type = "reset"
    OBVIOUS
  <2>2. Post(NewView(page), c) /\ Click /\ PostsOnly
    BY <1>19 DEF Reset, Click
  <2> HIDE DEF c
  <2>3. After
    BY <1>16, <1>17, <2>1, <2>2 DEF Restart
  <2>4. QED
    BY <1>5, <2>2, <2>3
<1>20. CASE Step
  <2>1. PICK n \in 1..MaxBatch : Post(page, [type |-> "step", ticks |-> n])
    BY <1>20 DEF Step
  <2> DEFINE c == [type |-> "step", ticks |-> n]
  <2>2. "type" \in DOMAIN c /\ c.type \notin Restart
    BY DEF Restart
  <2>3. Post(page, c) /\ Click /\ PostsOnly
    BY <1>20, <2>1 DEF Step, Click
  <2> HIDE DEF c
  <2>4. Alter(page, page)
    BY <1>3, Unaltered
  <2>5. After
    BY <1>6, <2>2, <2>3, <2>4
  <2>6. QED
    BY <1>5, <2>3, <2>5
<1>21. CASE Start \/ Pause \/ Resume \/ RunToCompletion \/ Export
  <2>1. Click /\ PostsOnly
    BY <1>21 DEF Start, Pause, Resume, RunToCompletion, Export, Click
  <2>2. PICK type \in {"start", "pause", "resume", "run-to-completion", "export-ledger"} :
          Post(page, [type |-> type])
    BY <1>21 DEF Start, Pause, Resume, RunToCompletion, Export
  <2>3. type \notin Restart
    BY DEF Restart
  <2>4. After
    BY <1>7, <2>1, <2>2, <2>3
  <2>5. QED
    BY <1>5, <2>1, <2>4
<1>22. CASE Replay
  <2>1. PICK source : Post([page EXCEPT !.verdict = "none"],
                           [type |-> "replay", source |-> source])
    BY <1>22 DEF Replay
  <2> DEFINE x == [page EXCEPT !.verdict = "none"]
             c == [type |-> "replay", source |-> source]
  <2>2. Alter(page, x)
    BY <1>3, AlteredFields
  <2>3. "type" \in DOMAIN c /\ c.type \notin Restart
    BY DEF Restart
  <2>4. Post(x, c) /\ Click /\ PostsOnly
    BY <1>22, <2>1 DEF Replay, Click
  <2> HIDE DEF c, x
  <2>5. After
    BY <1>6, <2>2, <2>3, <2>4
  <2>6. QED
    BY <1>5, <2>4, <2>5
<1>23. CASE Import
  <2>1. PICK file : Post([page EXCEPT !.verdict = "none", !.imported = "none"],
                         [type |-> "import-ledger", file |-> file])
    BY <1>23 DEF Import
  <2> DEFINE x == [page EXCEPT !.verdict = "none", !.imported = "none"]
             c == [type |-> "import-ledger", file |-> file]
  <2>2. Alter(page, x)
    BY <1>3, AlteredFields
  <2>3. "type" \in DOMAIN c /\ c.type \notin Restart
    BY DEF Restart
  <2>4. Post(x, c) /\ Click /\ PostsOnly
    BY <1>23, <2>1 DEF Import, Click
  <2> HIDE DEF c, x
  <2>5. After
    BY <1>6, <2>2, <2>3, <2>4
  <2>6. QED
    BY <1>5, <2>4, <2>5
<1>24. CASE Answer
  <2>1. PICK req \in page.asked, choice \in {"walk", None} :
          Post([page EXCEPT !.asked = @ \ {req}],
               [type |-> IF choice = None THEN "submit-decision-failure"
                                          ELSE "submit-decision-response",
                answer |-> [req |-> req, provider |-> "defers", rid |-> <<req, "gw">>,
                            choice |-> choice]])
    BY <1>24 DEF Answer
  <2> DEFINE asked == page.asked \ {req}
             x == [page EXCEPT !.asked = asked]
             type == IF choice = None THEN "submit-decision-failure"
                                      ELSE "submit-decision-response"
             c == [type |-> type,
                   answer |-> [req |-> req, provider |-> "defers", rid |-> <<req, "gw">>,
                               choice |-> choice]]
  <2>2. asked \subseteq Nat
    BY <1>3
  <2>3. type \notin Restart
    BY DEF Restart
  <2>4. Post(x, c)
    BY <2>1
  <2>5. UNCHANGED <<clicks, repeats>> /\ PostsOnly
    BY <1>24 DEF Answer
  <2> HIDE DEF asked, type
  <2>6. "type" \in DOMAIN c /\ c.type \notin Restart
    BY <2>3
  <2>7. Alter(page, x)
    BY <1>3, <2>2, AlteredFields
  <2> HIDE DEF c, x
  <2>8. After
    BY <1>6, <2>4, <2>5, <2>6, <2>7
  <2>9. QED
    BY <1>4, <2>5, <2>8
<1>25. CASE Ready
  <2>1. Told("ready")
    BY <1>25 DEF Ready
  <2>2. Alter(page, page)
    BY <1>3, Unaltered
  <2>3. CASE page.ready = TRUE
    <3>1. UNCHANGED <<page, toWorker>>
      BY <1>25, <2>3 DEF Ready
    <3>2. QED
      BY <1>12, <2>1, <2>2, <3>1
  <2>4. CASE page.ready = FALSE
    <3> DEFINE x == [page EXCEPT !.ready = TRUE]
               c == [type |-> "load-scenario", conduct |-> "answers"]
               b == Tail(toPage)
    <3>1. Post(NewView(x), c)
      BY <1>25, <2>4 DEF Ready
    <3>2. /\ toPage # <<>> /\ Head(toPage).type = "ready" /\ toPage' = b
          /\ UNCHANGED <<gate, session, host, clicks, repeats>>
      BY <1>11, <2>1
    <3>3. Linked(toWorker, b, page, gate, session, host)
      BY <1>10, <2>2, <3>2
    <3>4. Looks(x) /\ SameShow(page, x) /\ x.sent = page.sent
      <4>1. x = [page EXCEPT !.ready = TRUE]
        OBVIOUS
      <4> HIDE DEF x
      <4>2. QED
        BY <1>3, <4>1, ReadyLooks
    <3>5. "type" \in DOMAIN c /\ c.type \in Restart /\ c.type = "load-scenario"
      BY DEF Restart
    <3> HIDE DEF x, c, b
    <3>6. Linked(Append(toWorker, Sequenced(c, NewView(x).sent + 1)), b,
                 [NewView(x) EXCEPT !.sent = @ + 1], gate, session, host)
      BY <3>3, <3>4, <3>5, AskedShows
    <3>7. After
      BY <3>1, <3>2, <3>6 DEF Post, After
    <3>8. QED
      BY <1>4, <3>2, <3>7
  <2>5. QED
    BY <1>3, <2>3, <2>4 DEF Looks
<1>26. ASSUME NEW type, Told(type), UNCHANGED toWorker,
              \A m : MessageOf(m) /\ m.type = type /\ m = Head(toPage) =>
                Read(page, m, page') /\ page'.sent = page.sent /\ page'.ready = page.ready
                /\ Looks(page')
       PROVE  PageInv'
  <2> DEFINE m == Head(toPage)
  <2>1. /\ toPage # <<>> /\ m.type = type /\ toPage' = Tail(toPage)
        /\ UNCHANGED <<gate, session, host, clicks, repeats>>
    BY <1>11, <1>26
  <2>2. MessageOf(m)
    BY <1>9, <2>1
  <2>3. Read(page, m, page') /\ page'.sent = page.sent /\ page'.ready = page.ready
        /\ Looks(page')
    BY <1>26, <2>1, <2>2
  <2>4. Linked(toWorker, Tail(toPage), page', gate, session, host)
    BY <1>8, <2>1, <2>3
  <2>5. After
    BY <1>26, <2>1, <2>4 DEF After
  <2>6. QED
    BY <1>4, <2>1, <2>5
<1>27. CASE ShowSnapshot
  <2>1. /\ Told("snapshot") /\ UNCHANGED toWorker
        /\ page' = [page EXCEPT !.shown = TRUE, !.status = Head(toPage).status,
                                !.tick = Head(toPage).tick]
    BY <1>27 DEF ShowSnapshot
  <2>2. ASSUME NEW m, MessageOf(m), m.type = "snapshot", m = Head(toPage)
        PROVE  Read(page, m, page') /\ page'.sent = page.sent /\ page'.ready = page.ready
               /\ Looks(page')
    <3>1. page' = [page EXCEPT !.shown = TRUE, !.status = m.status, !.tick = m.tick]
      BY <2>1, <2>2
    <3> DEFINE t == page'
    <3>2. Looks(page) /\ MessageOf(m)
      BY <1>3, <2>2
    <3>3. Read(page, m, t) /\ t.sent = page.sent /\ t.ready = page.ready /\ Looks(t)
      BY ONLY <2>2, <3>1, <3>2, ToldSnapshot
    <3>4. QED
      BY <3>3
  <2>3. QED
    BY <1>26, <2>1, <2>2
<1>28. CASE appendEvents
  <2>1. /\ Told("events") /\ UNCHANGED toWorker
        /\ page' = [page EXCEPT !.total = Head(toPage).total]
    BY <1>28 DEF appendEvents
  <2>2. ASSUME NEW m, MessageOf(m), m.type = "events", m = Head(toPage)
        PROVE  Read(page, m, page') /\ page'.sent = page.sent /\ page'.ready = page.ready
               /\ Looks(page')
    <3>1. page' = [page EXCEPT !.total = m.total]
      BY <2>1, <2>2
    <3> DEFINE t == page'
    <3>2. Looks(page) /\ MessageOf(m)
      BY <1>3, <2>2
    <3>3. Read(page, m, t) /\ t.sent = page.sent /\ t.ready = page.ready /\ Looks(t)
      BY ONLY <2>2, <3>1, <3>2, ToldEvents
    <3>4. QED
      BY <3>3
  <2>3. QED
    BY <1>26, <2>1, <2>2
<1>29. CASE StampCompletion
  <2>1. /\ Told("run-complete") /\ UNCHANGED toWorker
        /\ page' = [page EXCEPT !.stamped = TRUE, !.status = "complete"]
    BY <1>29 DEF StampCompletion
  <2>2. ASSUME NEW m, MessageOf(m), m.type = "run-complete", m = Head(toPage)
        PROVE  Read(page, m, page') /\ page'.sent = page.sent /\ page'.ready = page.ready
               /\ Looks(page')
    <3>1. page' = [page EXCEPT !.stamped = TRUE, !.status = "complete"]
      BY <2>1, <2>2
    <3>2. QED
      BY <1>3, <2>2, <3>1, ToldComplete
  <2>3. QED
    BY <1>26, <2>1, <2>2
<1>30. CASE ForwardRequest
  <2> DEFINE m == Head(toPage)
             asked == IF m.runSeq = page.expected THEN page.asked \cup {m.req} ELSE page.asked
  <2>1. Told("decision-request") /\ UNCHANGED toWorker
        /\ page' = [page EXCEPT !.asked = asked]
    BY <1>30 DEF ForwardRequest
  <2>2. toPage # <<>> /\ m.type = "decision-request"
    BY <1>11, <2>1
  <2>3. m.req \in Nat
    BY <1>9, <2>2 DEF MessageOf
  <2>4. asked \subseteq Nat
    BY <1>3, <2>3
  <2> HIDE DEF asked
  <2>5. Alter(page, page')
    BY <1>3, <2>1, <2>4, AlteredFields
  <2>6. QED
    BY <1>12, <2>1, <2>5
<1>31. CASE Download
  <2>1. Told("ledger-export") /\ UNCHANGED <<page, toWorker>>
    BY <1>31 DEF Download
  <2>2. Alter(page, page')
    BY <1>3, <2>1, Unaltered
  <2>3. QED
    BY <1>12, <2>1, <2>2
<1>32. CASE ShowImport
  <2> DEFINE imported == IF Head(toPage).ok THEN "ok" ELSE "refused"
  <2>1. Told("import-result") /\ UNCHANGED toWorker
        /\ page' = [page EXCEPT !.imported = imported]
    BY <1>32 DEF ShowImport
  <2>2. imported \in {"none", "ok", "refused"}
    OBVIOUS
  <2> HIDE DEF imported
  <2>3. Alter(page, page')
    BY <1>3, <2>1, <2>2, AlteredFields
  <2>4. QED
    BY <1>12, <2>1, <2>3
<1>33. CASE ShowReplay
  <2> DEFINE verdict == Head(toPage).verdict
  <2>1. Told("replay-result") /\ UNCHANGED toWorker
        /\ page' = [page EXCEPT !.verdict = verdict]
    BY <1>33 DEF ShowReplay
  <2>2. verdict \in {"none", "match", "mismatch", "error"}
    <3>1. toPage # <<>> /\ Head(toPage).type = "replay-result"
      BY <1>11, <2>1
    <3>2. QED
      BY <1>9, <3>1 DEF MessageOf
  <2> HIDE DEF verdict
  <2>3. Alter(page, page')
    BY <1>3, <2>1, <2>2, AlteredFields
  <2>4. QED
    BY <1>12, <2>1, <2>3
<1>34. CASE Redeliver
  <2>1. /\ toWorker # <<>> /\ repeats < MaxRepeats
        /\ toWorker' = Append(toWorker, Head(toWorker)) /\ repeats' = repeats + 1
        /\ UNCHANGED <<page, toPage, gate, session, host, clicks>>
    BY <1>34 DEF Redeliver
  <2>2. Linked(Append(toWorker, Head(toWorker)), toPage, page, gate, session, host)
    BY <1>2, <2>1, RedeliveredShows
  <2>3. After
    BY <2>1, <2>2 DEF After
  <2>4. repeats' \in 0..MaxRepeats /\ clicks' = clicks
    BY <1>2, <2>1, WorkerAssumption DEF Bounded
  <2>5. QED
    BY <1>1, <1>2, <2>3, <2>4 DEF PageInv, Bounded, After
<1>35. CASE UNCHANGED vars
  <2>1. UNCHANGED <<page, toWorker, toPage, gate, session, host, clicks, repeats>>
    BY <1>35 DEF vars
  <2>2. After
    BY <1>2, <2>1 DEF After
  <2>3. QED
    BY <1>4, <2>1, <2>2
<1>36. QED
  BY <1>13, <1>14, <1>15, <1>18, <1>19, <1>20, <1>21, <1>22, <1>23, <1>24, <1>25, <1>27, <1>28,
     <1>29, <1>30, <1>31, <1>32, <1>33, <1>34, <1>35 DEF Next

LEMMA PageIsRight == PageInv => PageShowsTheRun
<1> SUFFICES ASSUME PageInv PROVE PageShowsTheRun
  OBVIOUS
<1>1. /\ Linked(toWorker, toPage, page, gate, session, host) /\ Bounded
  BY DEF PageInv
<1> DEFINE a == Awaited(toWorker, page.sent, gate.last, session)
           seen == Counted(page, a)
<1>2. /\ Engine(session, host) /\ View(toPage, seen, session, host)
      /\ Commands(toWorker, page, gate, session, host) /\ Looks(page)
      /\ session.runSeq \in Nat /\ session.runSeq <= a /\ a <= page.expected /\ a \in Nat
      /\ page.expected \in Nat
  BY <1>1, NotBehind DEF Linked
<1>3. /\ Numbers(session) /\ (Loaded(host) <=> session.runSeq # 0)
      /\ Loaded(host) => /\ session.sent = Len(host.run.log)
                         /\ session.status = "complete" <=> host.run.state.terminal
                         /\ host.run.state.terminal => session.announced
  BY <1>2 DEF Engine
<1>4. /\ UpToDate(toPage, seen, session, host) /\ Settled(toPage, seen, session, host)
      /\ ShowsStatus(toPage, seen, session.status)
      /\ Loaded(host) => ShowsTick(toPage, seen, host.run.state.tick)
  BY <1>2 DEF View, Base, Shown
<1>0. /\ seen.status = page.status /\ seen.tick = page.tick /\ seen.total = page.total
      /\ seen.stamped = page.stamped /\ seen.expected = a
  BY DEF Counted
<1> HIDE DEF seen
<1>5. TypeOK
  <2>1. /\ page.status \in PageStatuses /\ page.verdict \in {"none", "match", "mismatch", "error"}
        /\ page.imported \in {"none", "ok", "refused"} /\ page.asked \subseteq Nat
    BY <1>2 DEF Looks
  <2>2. {page.sent, page.expected, page.tick, page.total} \subseteq Nat /\ page.stamped \in BOOLEAN
    BY <1>2 DEF Looks
  <2>3. /\ session.status \in PageStatuses \ {"importing", "replaying"}
        /\ {session.sent, session.runSeq} \subseteq Nat
    BY <1>3 DEF Numbers, SessionStatuses
  <2>4. session.announced \in BOOLEAN
    BY <1>3 DEF Numbers
  <2>5. gate.last \in -1..page.sent /\ gate.seen \subseteq 1..page.sent
    BY <1>2 DEF Commands, InSequence
  <2>6. clicks \in 0..MaxCommands /\ repeats \in 0..MaxRepeats
    BY <1>1 DEF Bounded
  <2>7. QED
    BY <2>1, <2>2, <2>3, <2>4, <2>5, <2>6 DEF TypeOK
<1>6. ASSUME Quiet, page.ready
      PROVE  /\ page.status = session.status /\ page.tick = host.run.state.tick
             /\ page.total = session.sent /\ session.sent = Len(host.run.log)
             /\ page.status = "complete" <=> Terminal(host)
             /\ Terminal(host) => page.stamped
  <2>1. toWorker = <<>> /\ toPage = <<>> /\ Len(<<>>) = 0
    BY <1>6 DEF Quiet
  <2>2. \A kinds : Free(toPage, kinds)
    BY <2>1 DEF Free
  <2>3. Starts(toWorker, page.sent, gate.last) = {}
    BY <2>1 DEF Starts
  <2>4. a = session.runSeq
    <3>1. Cardinality(Starts(toWorker, page.sent, gate.last)) = 0
      BY <2>3, FS_EmptySet
    <3>2. QED
      BY <1>2, <3>1 DEF Awaited
  <2>5. Loaded(host) /\ session.sent = Len(host.run.log)
    <3>1. Promised(toWorker, gate.last, Loaded(host))
      BY <1>2, <1>6 DEF Commands
    <3>2. Loaded(host)
      BY <2>1, <3>1 DEF Promised
    <3>3. QED
      BY <1>3, <3>2
  <2>6. page.status = session.status
    BY <1>0, <1>4, <2>2 DEF ShowsStatus
  <2>7. page.tick = host.run.state.tick
    BY <1>0, <1>4, <2>2, <2>5 DEF ShowsTick
  <2>8. page.total = session.sent
    BY <1>0, <1>4, <2>2, <2>4, <2>5 DEF UpToDate, ShowsTotal
  <2>9. page.status = "complete" <=> Terminal(host)
    BY <1>3, <2>5, <2>6 DEF Terminal
  <2>10. Terminal(host) => page.stamped
    <3>1. ASSUME Terminal(host) PROVE session.announced
      BY <1>3, <3>1 DEF Terminal
    <3>2. session.announced => Stamps(toPage, seen, session.runSeq)
      BY <1>4 DEF Settled
    <3>3. Stamps(toPage, seen, session.runSeq) => page.stamped
      BY <1>0, <2>2, <2>4 DEF Stamps
    <3>4. QED
      BY <3>1, <3>2, <3>3
  <2>11. QED
    BY <2>5, <2>6, <2>7, <2>8, <2>9, <2>10
<1>7. ASSUME page.stamped, page.expected <= 1
      PROVE  Terminal(host) /\ page.total = Len(host.run.log)
  <2>1. session.runSeq <= 1
    BY <1>2, <1>7
  <2>2. session.announced /\ Free(toPage, {"events"})
    BY <1>0, <1>4, <1>7, <2>1 DEF Settled
  <2>3. Terminal(host)
    BY <1>4, <2>2 DEF Settled
  <2>4. Loaded(host) /\ session.sent = Len(host.run.log) /\ session.runSeq # 0
    BY <1>3, <2>3 DEF Terminal
  <2>5. a = session.runSeq
    BY <1>2, <1>7, <2>1, <2>4
  <2>6. page.total = session.sent
    BY <1>0, <1>4, <2>2, <2>4, <2>5 DEF UpToDate, ShowsTotal
  <2>7. QED
    BY <2>3, <2>4, <2>6
<1>8. PageCatchesUp
  BY <1>6 DEF PageCatchesUp
<1>9. StampedAfterLastEvent
  BY <1>7 DEF StampedAfterLastEvent
<1>10. QED
  BY <1>5, <1>8, <1>9 DEF PageShowsTheRun

\* Whatever the operator clicks, however the two channels interleave, whatever is delivered
\* twice and however often the run is started anew, before there is one too: when nothing
\* is on its way the page shows the worker's run as it is, and the first run it waited for,
\* once stamped as complete, it has had whole (workerClient.ts, commandProcessor.ts).
THEOREM ThePageCatchesUp == Spec => []PageShowsTheRun
BY PageInit, PageStep, PageIsRight, PTL DEF Spec
=============================================================================
