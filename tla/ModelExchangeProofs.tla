-------------------------- MODULE ModelExchangeProofs --------------------------
(***************************************************************************)
(* TLAPS proofs about ModelExchange, for any number of runs, requests and  *)
(* conditions, any queue, book and call limits, and a gateway that stops,  *)
(* starts and fails to write whenever it likes.                            *)
(***************************************************************************)
EXTENDS ModelExchange, TLAPS, FiniteSetTheorems, SequenceTheorems

-----------------------------------------------------------------------------
(* The inductive invariants                                                *)

Ids == 1..Requests

Commands == [type : {"load"}, run : {None}, req : {None}, cond : Conditions \cup {Baseline}]
       \cup [type : {"reset"}, run : {None}, req : {None}, cond : {None}]
       \cup [type : {"answer"}, run : Runs, req : Ids, cond : {None}]

Messages == [type : {"request"}, run : Runs, req : Ids, complete : {FALSE}]
       \cup [type : {"snapshot", "run-complete"}, run : Runs, req : {None}, complete : BOOLEAN]

Workers == [runSeq : Runs, cond : Conditions \cup {Baseline, None}, issued : 0..Requests,
            done : BOOLEAN, inbox : Seq([run : Runs, req : Ids])]

Posts == [run : Runs, req : Ids, cond : Conditions, live : BOOLEAN, again : BOOLEAN,
          state : {"sent", "held", "response", "failure", "unusable"}]

Dispatches == [run : Runs, req : Ids, kept : BOOLEAN]

WorkerTyped == worker \in Workers /\ commands \in Seq(Commands) /\ messages \in Seq(Messages)

\* What the page has taken on for the run and not yet given up on.
Queued   == {queue[i] : i \in DOMAIN queue}
Underway == IF current # None /\ current.run = run THEN {current.req} ELSE {}
Traced   == {e.req : e \in {x \in trace : x.run = run}}

Shaking == current # None /\ current.run = run /\ current.stage = "handshake"

PageTyped ==
  /\ cond \in Conditions \cup {Baseline} /\ run \in Runs
  /\ config \in Conditions \cup {None} /\ latch \in BOOLEAN /\ handshakes \in 0..MaxHandshakes
  /\ queue \in Seq(Ids) /\ calls \in Nat
  /\ current \in Busies \cup {None} /\ (current # None => current.run <= run)
  /\ failed \subseteq Ids /\ archive \subseteq Ids
  /\ trace \subseteq [run : Runs, req : Ids,
                      outcome : {"response", "failure", "discarded"}, observed : BOOLEAN]
  /\ view \in [final : MaybeRun, complete : BOOLEAN]

\* What is queued while the calls allow it may still be called.
PageLimits ==
  /\ Len(queue) <= MaxQueued
  /\ calls + Len(queue) + (IF Shaking THEN 1 ELSE 0) <= MaxCalls + MaxQueued

BookSet == [calls : 0..MaxCallsPerRun,
            results : [Ids -> {None, "open", "response", "failure", "unusable"}]]

GatewayTyped ==
  /\ up \in BOOLEAN /\ served \in Conditions
  /\ remembered \in Seq(Runs) /\ Len(remembered) <= MaxBooks
  /\ books \in [Runs -> BookSet]
  /\ total \in 0..MaxTotalCalls
  /\ adapter \subseteq Dispatches /\ IsFiniteSet(adapter) /\ Cardinality(adapter) <= MaxConcurrency
  /\ rows \subseteq [run : Runs, req : Ids, outcome : {"response", "failure"}]
  /\ spent \in [Runs -> Seq(Ids)]
  /\ wire \subseteq Posts

\* A book counts the calls made in it, and knows each of their requests.
Accounts(book, made) ==
  /\ Len(made) = book.calls
  /\ \A i \in DOMAIN made :
       /\ book.results[made[i]] # None
       /\ \A j \in 1..i - 1 : made[j] # made[i]

BooksInv == \A r \in Runs : Accounts(books[r], spent[r])

\* The loads and resets on their way to the worker.
Restarts(cs) == {i \in DOMAIN cs : cs[i].type \in {"load", "reset"}}

\* Answers go ahead of every load and reset, for the page asks nothing of a run the worker
\* has not begun; messages come in the order of runs and, within a run, of requests.
AnswersFirst(cs, r) ==
  \A i \in DOMAIN cs : cs[i].type = "answer" =>
    cs[i].run = r /\ \A j \in 1..i - 1 : cs[j].type = "answer"

InOrder(ms, r, issued) ==
  \A i \in DOMAIN ms :
    /\ ms[i].run <= r
    /\ ms[i].type = "request" =>
         /\ ms[i].run = r => ms[i].req <= issued
         /\ \A j \in 1..i - 1 :
              ms[j].type = "request" /\ ms[j].run = ms[i].run => ms[j].req < ms[i].req

ChannelInv ==
  /\ worker.runSeq + Cardinality(Restarts(commands)) <= run
  /\ AnswersFirst(commands, worker.runSeq)
  /\ InOrder(messages, worker.runSeq, worker.issued)

\* The archive of the page's run: what it still waits for and what it has traced.
ArchiveInv ==
  /\ archive # {} => run = worker.runSeq
  /\ \A q \in archive : q <= worker.issued
  /\ \A i \in DOMAIN messages : messages[i].type = "request" /\ messages[i].run = run =>
       \A q \in archive : q < messages[i].req
  /\ archive = Traced \cup Queued \cup Underway
  /\ failed \subseteq Traced
  /\ \A i, j \in DOMAIN queue : i # j => queue[i] # queue[j]
  /\ Underway \cap Queued = {}

\* The answers of a run, on their way and arrived: each once, none still waited for.
AnswersInv ==
  /\ \A i \in DOMAIN worker.inbox :
       /\ worker.inbox[i].run = worker.runSeq /\ worker.inbox[i].req <= worker.issued
       /\ \A j \in 1..i - 1 : worker.inbox[j].req # worker.inbox[i].req
       /\ run = worker.runSeq => worker.inbox[i].req \in archive \ (Queued \cup Underway)
  /\ \A i \in DOMAIN commands : commands[i].type = "answer" =>
       /\ commands[i].req <= worker.issued
       /\ \A j \in 1..i - 1 : commands[j].req # commands[i].req
       /\ \A j \in DOMAIN worker.inbox : worker.inbox[j].req # commands[i].req
       /\ run = worker.runSeq => commands[i].req \in archive \ (Queued \cup Underway)

\* What is told of the model's outcome is on disk.
Told(rs, m) == m.state \in {"response", "failure"} => Server!Row(m.run, m.req, m.state) \in rs

Known(rs, r, book) ==
  \A q \in Ids : book.results[q] \in {"response", "failure"} => Server!Row(r, q, book.results[q]) \in rs

\* A trace entry that carries an outcome carries the gateway's.
Witnessed(t, rs) == \A e \in t : e.observed => Server!Row(e.run, e.req, e.outcome) \in rs

-----------------------------------------------------------------------------
(* Commands on their way                                                   *)

LEMMA RestartsFinite ==
  ASSUME NEW cs \in Seq(Commands)
  PROVE  IsFiniteSet(Restarts(cs)) /\ Cardinality(Restarts(cs)) \in Nat
<1>1. Restarts(cs) \in SUBSET (1..Len(cs)) /\ Len(cs) \in Nat
  BY DEF Restarts
<1>2. IsFiniteSet(1..Len(cs))
  BY <1>1, FS_Interval
<1>3. IsFiniteSet(Restarts(cs))
  BY <1>1, <1>2, FS_Subset
<1>4. QED
  BY <1>3, FS_CardinalityType

LEMMA RestartsAppended ==
  ASSUME NEW cs \in Seq(Commands), NEW c \in Commands
  PROVE  /\ Append(cs, c) \in Seq(Commands)
         /\ Cardinality(Restarts(Append(cs, c))) =
              IF c.type = "answer" THEN Cardinality(Restarts(cs)) ELSE Cardinality(Restarts(cs)) + 1
<1>1. c.type \in {"load", "reset", "answer"}
  BY DEF Commands
<1>2. Append(cs, c) \in Seq(Commands)
  OBVIOUS
<1>3. CASE c.type = "answer"
  <2>1. Restarts(Append(cs, c)) = Restarts(cs)
    BY <1>3 DEF Restarts
  <2>2. QED
    BY <1>2, <1>3, <2>1
<1>4. CASE c.type # "answer"
  <2>1. Restarts(Append(cs, c)) = Restarts(cs) \cup {Len(cs) + 1} /\ Len(cs) + 1 \notin Restarts(cs)
    BY <1>1, <1>4 DEF Restarts
  <2>2. IsFiniteSet(Restarts(cs))
    BY RestartsFinite
  <2>3. Cardinality(Restarts(cs) \cup {Len(cs) + 1}) = Cardinality(Restarts(cs)) + 1
    BY <2>1, <2>2, FS_AddElement
  <2>4. QED
    BY <1>2, <1>4, <2>1, <2>3
<1>5. QED
  BY <1>3, <1>4

LEMMA RestartsHandled ==
  ASSUME NEW cs \in Seq(Commands), cs # <<>>
  PROVE  /\ Tail(cs) \in Seq(Commands) /\ Head(cs) \in Commands
         /\ Cardinality(Restarts(cs)) =
              IF Head(cs).type = "answer" THEN Cardinality(Restarts(Tail(cs)))
                                          ELSE Cardinality(Restarts(Tail(cs))) + 1
<1>1. Head(cs) \in Commands /\ Head(cs) = cs[1] /\ Head(cs).type \in {"load", "reset", "answer"}
      /\ Tail(cs) \in Seq(Commands)
  BY HeadTailProperties DEF Commands
<1> DEFINE T == Restarts(Tail(cs))
<1> DEFINE U == Restarts(cs) \ {1}
<1> DEFINE f == [i \in T |-> i + 1]
<1>2. f \in Bijection(T, U)
  <2>1. /\ \A i \in T : i \in Nat /\ i + 1 \in U
        /\ \A k \in U : k - 1 \in T /\ k \in Nat
    BY <1>1 DEF Restarts
  <2>2. f \in [T -> U] /\ (\A a, b \in T : f[a] = f[b] => a = b)
    BY <2>1
  <2>3. \A k \in U : \E a \in T : f[a] = k
    <3>1. TAKE k \in U
    <3>2. f[k - 1] = k
      BY <2>1, <3>1
    <3>3. QED
      BY <2>1, <3>1, <3>2
  <2>4. QED
    BY <2>2, <2>3 DEF Bijection, Injection, Surjection, IsInjective
<1>3. ExistsBijection(T, U)
  BY <1>2 DEF ExistsBijection
<1>4. Cardinality(U) = Cardinality(T)
  BY <1>1, <1>3, RestartsFinite, FS_Bijection
<1>5. Cardinality(U) = IF 1 \in Restarts(cs) THEN Cardinality(Restarts(cs)) - 1 ELSE Cardinality(Restarts(cs))
  BY RestartsFinite, FS_RemoveElement
<1>6. 1 \in Restarts(cs) <=> Head(cs).type # "answer"
  BY <1>1 DEF Restarts
<1>7. Cardinality(Restarts(cs)) \in Nat /\ Cardinality(T) \in Nat
  BY <1>1, RestartsFinite
<1>8. QED
  BY <1>1, <1>4, <1>5, <1>6, <1>7

LEMMA NoRestarts ==
  ASSUME NEW cs \in Seq(Commands), Cardinality(Restarts(cs)) = 0
  PROVE  \A i \in DOMAIN cs : cs[i].type = "answer"
<1>1. Restarts(cs) = {}
  BY RestartsFinite, FS_EmptySet
<1>2. \A i \in DOMAIN cs : cs[i].type \in {"load", "reset", "answer"}
  BY DEF Commands
<1>3. QED
  BY <1>1, <1>2 DEF Restarts

-----------------------------------------------------------------------------
(* What a step of the worker does                                          *)

\* A new run begins, an answer is put into the inbox, a command comes to nothing.
Begins ==
  /\ commands # <<>> /\ commands' = Tail(commands) /\ Head(commands).type # "answer"
  /\ worker'.runSeq = worker.runSeq + 1 /\ worker'.inbox = <<>> /\ worker'.cond # None

Hears ==
  /\ commands # <<>> /\ commands' = Tail(commands) /\ Head(commands).type = "answer"
  /\ worker'.runSeq = worker.runSeq /\ worker'.issued = worker.issued /\ worker'.cond = worker.cond
  /\ worker'.inbox = Append(worker.inbox, [run |-> Head(commands).run, req |-> Head(commands).req])

Drops ==
  /\ commands # <<>> /\ commands' = Tail(commands) /\ worker' = worker
  /\ Head(commands).type # "answer" => Head(commands).type = "reset" /\ worker.cond = None

\* Ticks of the run, which may ask for a decision.
Proceeds ==
  /\ UNCHANGED commands
  /\ worker'.runSeq = worker.runSeq /\ worker'.inbox = worker.inbox /\ worker'.cond = worker.cond
  /\ worker'.issued \in {worker.issued, worker.issued + 1}
  /\ worker.cond # None

\* What a step sends belongs to the run the worker is in then; it asks for one decision at most.
Pushes(ms) ==
  /\ ms \in Seq(Messages) /\ messages' = messages \o ms
  /\ \A i \in DOMAIN ms :
       /\ ms[i].run = worker'.runSeq
       /\ ms[i].type = "request" =>
            /\ worker'.runSeq = worker.runSeq /\ ms[i].req = worker.issued + 1
            /\ worker'.issued = worker.issued + 1
            /\ \A j \in 1..i - 1 : ms[j].type # "request"

WorkerActs == HandleCommand \/ Ask \/ Finish

LEMMA WorkerWith ==
  ASSUME worker \in Workers, NEW n \in 0..Requests, NEW b \in BOOLEAN, worker.cond # None,
         \/ worker' = [worker EXCEPT !.issued = n]
         \/ worker' = [worker EXCEPT !.done = b, !.issued = n]
  PROVE  /\ worker' \in Workers /\ worker'.issued = n /\ worker'.runSeq = worker.runSeq
         /\ worker'.inbox = worker.inbox /\ worker'.cond = worker.cond
BY DEF Workers

LEMMA MessagesInARow ==
  ASSUME NEW a \in Messages, NEW b \in Messages, NEW c \in Messages
  PROVE  /\ <<a>> \o <<>> \o <<c>> = <<a, c>> /\ <<a>> \o <<b>> \o <<c>> = <<a, b, c>>
         /\ {<<a>>, <<a, c>>, <<a, b, c>>} \subseteq Seq(Messages)
<1>1. {<<a>>, <<b>>, <<c>>, <<a, b>>, <<a, c>>, <<a, b, c>>} \subseteq Seq(Messages)
  OBVIOUS
<1>2. <<a>> \o <<>> = <<a>>
  BY <1>1, ConcatEmptySeq
<1>3. ASSUME NEW x \in Messages, NEW y \in Messages PROVE <<x>> \o <<y>> = <<x, y>>
  <2>1. <<x>> \in Seq(Messages) /\ <<y>> \in Seq(Messages) /\ <<x, y>> \in Seq(Messages)
    OBVIOUS
  <2>2. /\ <<x>> \o <<y>> \in Seq(Messages) /\ Len(<<x>> \o <<y>>) = 2
        /\ (<<x>> \o <<y>>)[1] = x /\ (<<x>> \o <<y>>)[2] = y
    BY <2>1, ConcatProperties
  <2> DEFINE s == <<x>> \o <<y>>
  <2> DEFINE t == <<x, y>>
  <2>3. Len(t) = 2 /\ t[1] = x /\ t[2] = y
    OBVIOUS
  <2> HIDE DEF s, t
  <2>4. \A i \in 1..2 : s[i] = t[i]
    BY <2>2, <2>3 DEF s
  <2>5. s \in Seq(Messages) /\ t \in Seq(Messages) /\ Len(s) = 2
    BY <2>1, <2>2 DEF s, t
  <2>6. s = t
    BY <2>3, <2>4, <2>5, SeqEqual
  <2>7. QED
    BY <2>6 DEF s, t
<1>4. <<a, b>> \o <<c>> = <<a, b, c>>
  <2>1. /\ <<a, b>> \o <<c>> \in Seq(Messages) /\ Len(<<a, b>> \o <<c>>) = 3
        /\ (<<a, b>> \o <<c>>)[1] = a /\ (<<a, b>> \o <<c>>)[2] = b /\ (<<a, b>> \o <<c>>)[3] = c
    BY <1>1, ConcatProperties
  <2> DEFINE s == <<a, b>> \o <<c>>
  <2> DEFINE t == <<a, b, c>>
  <2>2. Len(t) = 3 /\ t[1] = a /\ t[2] = b /\ t[3] = c
    OBVIOUS
  <2> HIDE DEF s, t
  <2>3. \A i \in 1..3 : s[i] = t[i]
    <3>1. s[1] = t[1] /\ s[2] = t[2] /\ s[3] = t[3]
      BY <2>1, <2>2 DEF s
    <3>2. QED
      BY <3>1
  <2>4. s \in Seq(Messages) /\ t \in Seq(Messages) /\ Len(s) = 3
    BY <1>1, <2>1 DEF s, t
  <2>5. s = t
    BY <2>2, <2>3, <2>4, SeqEqual
  <2>6. QED
    BY <2>5 DEF s, t
<1>5. QED
  BY <1>1, <1>2, <1>3, <1>4

LEMMA FreshWorker ==
  ASSUME WorkerTyped, run \in Runs, ChannelInv, commands # <<>>, Head(commands).type # "answer",
         NEW c \in Conditions \cup {Baseline}
  PROVE  /\ Fresh(c) \in Workers /\ Fresh(c).runSeq = worker.runSeq + 1
         /\ Fresh(c).inbox = <<>> /\ Fresh(c).cond = c
<1>1. worker.runSeq \in Nat /\ run \in Nat /\ run <= MaxRuns /\ MaxRuns \in Nat /\ Requests \in Nat
  BY NumberAssumption DEF WorkerTyped, Workers, Runs
<1>2. Cardinality(Restarts(commands)) >= 1
  <2>1. Tail(commands) \in Seq(Commands)
        /\ Cardinality(Restarts(commands)) = Cardinality(Restarts(Tail(commands))) + 1
    BY RestartsHandled DEF WorkerTyped
  <2>2. Cardinality(Restarts(Tail(commands))) \in Nat
    BY <2>1, RestartsFinite
  <2>3. QED
    BY <2>1, <2>2
<1>3. worker.runSeq + 1 \in Runs
  BY <1>1, <1>2, RestartsFinite DEF ChannelInv, Runs, WorkerTyped
<1>4. QED
  BY <1>1, <1>3 DEF Fresh, Workers

LEMMA HandleEffect ==
  ASSUME WorkerTyped, run \in Runs, ChannelInv, HandleCommand
  PROVE  /\ WorkerTyped' /\ (Begins \/ Hears \/ Drops)
         /\ \E ms \in Seq(Messages) : Pushes(ms)
<1> DEFINE c == Head(commands)
<1>1. /\ commands # <<>> /\ commands' = Tail(commands) /\ c \in Commands
      /\ Tail(commands) \in Seq(Commands)
      /\ worker \in Workers /\ messages \in Seq(Messages)
  BY RestartsHandled DEF HandleCommand, WorkerTyped
<1>2. <<>> \in Seq(Messages) /\ messages \o <<>> = messages
  BY <1>1, ConcatEmptySeq
<1>3. ASSUME UNCHANGED messages PROVE Pushes(<<>>)
  BY <1>2, <1>3 DEF Pushes
<1>4. ASSUME NEW x \in Conditions \cup {Baseline}, Restart(x), c.type # "answer"
      PROVE  WorkerTyped' /\ Begins /\ \E ms \in Seq(Messages) : Pushes(ms)
  <2>1. worker' \in Workers /\ worker'.runSeq = worker.runSeq + 1 /\ worker'.inbox = <<>> /\ worker'.cond = x
    BY <1>1, <1>4, FreshWorker DEF Restart
  <2> DEFINE ms == <<SnapshotOf(worker'.runSeq, FALSE)>>
  <2>2. worker'.runSeq \in Runs /\ x # None
    BY <2>1, NoneAssumption DEF Workers
  <2>3. /\ ms \in Seq(Messages) /\ DOMAIN ms = {1} /\ ms[1].run = worker'.runSeq
        /\ ms[1].type = "snapshot"
    <3>1. SnapshotOf(worker'.runSeq, FALSE) \in Messages
      BY <2>2 DEF SnapshotOf, Messages
    <3>2. QED
      BY <3>1 DEF SnapshotOf
  <2>4. messages' = messages \o ms
    BY <1>4 DEF Restart, Push
  <2>5. Pushes(ms)
    BY <2>3, <2>4 DEF Pushes
  <2>6. WorkerTyped'
    BY <1>1, <2>1, <2>3, <2>4, ConcatProperties DEF WorkerTyped
  <2>7. QED
    BY <1>1, <1>4, <2>1, <2>2, <2>3, <2>5, <2>6 DEF Begins
<1>5. CASE c.type = "load" /\ Restart(c.cond)
  BY <1>1, <1>4, <1>5 DEF Commands
<1>6. CASE c.type = "reset" /\ Loaded /\ Restart(worker.cond)
  <2>1. worker.cond \in Conditions \cup {Baseline}
    BY <1>1, <1>6 DEF Loaded, Workers
  <2>2. QED
    BY <1>4, <1>6, <2>1
<1>7. CASE /\ c.type = "answer" /\ Running
           /\ worker' = [worker EXCEPT !.inbox = Append(@, [run |-> c.run, req |-> c.req])]
           /\ UNCHANGED messages
  <2> DEFINE e == [run |-> c.run, req |-> c.req]
  <2>1. e \in [run : Runs, req : Ids]
    BY <1>1, <1>7 DEF Commands
  <2>2. Append(worker.inbox, e) \in Seq([run : Runs, req : Ids])
    BY <1>1, <2>1 DEF Workers
  <2>3. /\ worker' \in Workers /\ worker'.inbox = Append(worker.inbox, e)
        /\ worker'.runSeq = worker.runSeq /\ worker'.issued = worker.issued /\ worker'.cond = worker.cond
    BY <1>1, <1>7, <2>2 DEF Workers
  <2>4. QED
    BY <1>1, <1>2, <1>3, <1>7, <2>3 DEF WorkerTyped, Hears
<1>8. CASE /\ UNCHANGED <<worker, messages>>
           /\ (c.type = "answer" /\ ~Running) \/ (c.type = "reset" /\ ~Loaded)
  BY <1>1, <1>2, <1>3, <1>8 DEF WorkerTyped, Drops, Loaded
<1>9. \/ c.type = "load" /\ Restart(c.cond)
      \/ c.type = "reset" /\ Loaded /\ Restart(worker.cond)
      \/ /\ c.type = "answer" /\ Running
         /\ worker' = [worker EXCEPT !.inbox = Append(@, [run |-> c.run, req |-> c.req])]
         /\ UNCHANGED messages
      \/ /\ UNCHANGED <<worker, messages>>
         /\ (c.type = "answer" /\ ~Running) \/ (c.type = "reset" /\ ~Loaded)
  BY DEF HandleCommand
<1>10. QED
  BY <1>5, <1>6, <1>7, <1>8, <1>9

LEMMA AskEffect ==
  ASSUME WorkerTyped, Ask
  PROVE  WorkerTyped' /\ Proceeds /\ \E ms \in Seq(Messages) : Pushes(ms)
<1>1. /\ worker \in Workers /\ worker.issued \in Nat /\ worker.issued + 1 \in Ids /\ worker.cond # None
      /\ worker.runSeq \in Runs
  BY NumberAssumption DEF WorkerTyped, Workers, Ids, Ask, MayAsk, Running, Loaded
<1>2. /\ worker' \in Workers /\ worker'.issued = worker.issued + 1
      /\ worker'.runSeq = worker.runSeq /\ worker'.inbox = worker.inbox /\ worker'.cond = worker.cond
  <2>1. worker.issued + 1 \in 0..Requests /\ worker' = [worker EXCEPT !.issued = worker.issued + 1]
    BY <1>1, NumberAssumption DEF Ask, Ids, Workers
  <2>2. QED
    BY <1>1, <2>1, WorkerWith
<1> DEFINE ms == <<RequestOf(worker.issued + 1)>>
<1>3. /\ ms \in Seq(Messages) /\ DOMAIN ms = {1} /\ ms[1].run = worker.runSeq
      /\ ms[1].req = worker.issued + 1
  <2>1. RequestOf(worker.issued + 1) \in Messages
    BY <1>1 DEF RequestOf, Messages
  <2>2. QED
    BY <2>1 DEF RequestOf
<1>4. messages' = messages \o ms /\ UNCHANGED commands
  BY DEF Ask, Push
<1>5. Pushes(ms)
  BY <1>1, <1>2, <1>3, <1>4 DEF Pushes
<1>6. WorkerTyped'
  BY <1>2, <1>3, <1>4, ConcatProperties DEF WorkerTyped
<1>7. QED
  BY <1>1, <1>2, <1>3, <1>4, <1>5, <1>6 DEF Proceeds

LEMMA FinishEffect ==
  ASSUME WorkerTyped, Finish
  PROVE  WorkerTyped' /\ Proceeds /\ \E ms \in Seq(Messages) : Pushes(ms)
<1> DEFINE r == worker.runSeq
<1> DEFINE first == SnapshotOf(r, TRUE)
<1> DEFINE final == [type |-> "run-complete", run |-> r, req |-> None, complete |-> TRUE]
<1> DEFINE request == RequestOf(worker.issued + 1)
<1>1. /\ worker \in Workers /\ worker.issued \in Nat /\ worker.cond # None /\ r \in Runs
      /\ messages \in Seq(Messages) /\ commands \in Seq(Commands) /\ UNCHANGED commands
  BY DEF WorkerTyped, Workers, Finish, Running, Loaded
<1>2. PICK late \in {<<>>} \cup IF MayAsk THEN {<<request>>} ELSE {} :
        /\ worker' = [worker EXCEPT !.done = TRUE, !.issued = @ + Len(late)]
        /\ messages' = messages \o (<<first>> \o late \o <<final>>)
  BY DEF Finish, Push
<1>3. /\ first \in Messages /\ first.run = r /\ first.type = "snapshot"
      /\ final \in Messages /\ final.run = r /\ final.type = "run-complete"
      /\ request.run = r /\ request.type = "request" /\ request.req = worker.issued + 1
  BY <1>1 DEF SnapshotOf, Messages, RequestOf
<1> DEFINE ms == <<first>> \o late \o <<final>>
<1>4. CASE late = <<>>
  <2>1. /\ worker' \in Workers /\ worker'.issued = worker.issued
        /\ worker'.runSeq = worker.runSeq /\ worker'.inbox = worker.inbox /\ worker'.cond = worker.cond
    <3>1. worker' = [worker EXCEPT !.done = TRUE, !.issued = worker.issued]
      <4>1. worker' = [worker EXCEPT !.done = TRUE, !.issued = worker.issued + Len(late)]
        BY <1>1, <1>2 DEF Workers
      <4>2. worker.issued + Len(late) = worker.issued
        BY <1>1, <1>4
      <4>3. QED
        BY <4>1, <4>2
    <3>2. worker.issued \in 0..Requests
      BY <1>1 DEF Workers
    <3>3. QED
      BY <1>1, <3>1, <3>2, WorkerWith
  <2>2. ms = <<first, final>>
    BY <1>3, <1>4, MessagesInARow
  <2> HIDE DEF first, final, request, ms
  <2>3. ms \in Seq(Messages) /\ DOMAIN ms = {1, 2} /\ ms[1] = first /\ ms[2] = final
    BY <1>3, <2>2, MessagesInARow
  <2>4. Pushes(ms)
    BY <1>2, <1>3, <2>1, <2>3 DEF Pushes, ms
  <2>5. WorkerTyped'
    BY <1>1, <1>2, <2>1, <2>3, ConcatProperties DEF WorkerTyped, ms
  <2>6. QED
    BY <1>1, <2>1, <2>3, <2>4, <2>5 DEF Proceeds
<1>5. CASE late = <<request>> /\ MayAsk
  <2>1. worker.issued + 1 \in Ids /\ Len(late) = 1
    BY <1>1, <1>5, NumberAssumption DEF Ids, MayAsk, Workers
  <2>2. /\ worker' \in Workers /\ worker'.issued = worker.issued + 1
        /\ worker'.runSeq = worker.runSeq /\ worker'.inbox = worker.inbox /\ worker'.cond = worker.cond
    <3>1. worker' = [worker EXCEPT !.done = TRUE, !.issued = worker.issued + 1]
      BY <1>1, <1>2, <2>1 DEF Workers
    <3>2. worker.issued + 1 \in 0..Requests
      BY <1>1, <2>1, NumberAssumption DEF Ids
    <3>3. QED
      BY <1>1, <3>1, <3>2, WorkerWith
  <2>3. request \in Messages
    BY <1>1, <2>1 DEF RequestOf, Messages
  <2>4. ms = <<first, request, final>>
    BY <1>3, <1>5, <2>3, MessagesInARow
  <2> HIDE DEF first, final, request, ms
  <2>5. /\ ms \in Seq(Messages) /\ DOMAIN ms = {1, 2, 3}
        /\ ms[1] = first /\ ms[2] = request /\ ms[3] = final
    BY <1>3, <2>3, <2>4, MessagesInARow
  <2>6. Pushes(ms)
    <3>1. messages' = messages \o ms
      BY <1>2 DEF ms
    <3>2. \A k \in DOMAIN ms : \A j \in 1..k - 1 : ms[k].type = "request" => ms[j].type # "request"
      BY <1>3, <2>5
    <3>3. \A k \in DOMAIN ms :
            /\ ms[k].run = worker'.runSeq
            /\ ms[k].type = "request" => ms[k].req = worker.issued + 1
      BY <1>3, <2>2, <2>5
    <3>4. QED
      BY <2>2, <2>5, <3>1, <3>2, <3>3 DEF Pushes
  <2>7. WorkerTyped'
    BY <1>1, <1>2, <2>2, <2>5, ConcatProperties DEF WorkerTyped, ms
  <2>8. QED
    BY <1>1, <2>2, <2>5, <2>6, <2>7 DEF Proceeds
<1>6. QED
  BY <1>2, <1>4, <1>5

-----------------------------------------------------------------------------
(* What a step of the page does to the requests it has taken on            *)

Waiting == Queued \cup Underway

Single ==
  /\ \A i, j \in DOMAIN queue : i # j => queue[i] # queue[j]
  /\ Underway \cap Queued = {}

\* A request the page has, or is just told of.
Arrives(q) ==
  /\ messages # <<>> /\ messages' = Tail(messages)
  /\ Head(messages).type = "request" /\ Head(messages).run = run /\ Head(messages).req = q

\* Nothing changes between the page and the worker.
Keeps ==
  /\ UNCHANGED <<archive, failed, commands>>
  /\ Waiting' = Waiting /\ Traced' = Traced

Takes(q) ==
  /\ Arrives(q)
  /\ archive' = archive \cup {q} /\ Waiting' = Waiting \cup {q}
  /\ UNCHANGED <<failed, commands>> /\ Traced' = Traced

\* The request gets its outcome: it is traced, and the worker is answered.
Gives(q) ==
  /\ \/ q \in Waiting /\ archive' = archive /\ messages' = messages
     \/ Arrives(q) /\ archive' = archive \cup {q}
  /\ Waiting' = Waiting \ {q} /\ q \in Ids
  /\ Traced' = Traced \cup {q} /\ failed' \subseteq failed \cup {q}
  /\ commands' \in {commands, Append(commands, Client!Answer(run, q))}

PageInv == WorkerTyped /\ PageTyped /\ PageLimits /\ wire \subseteq Posts

LEMMA QueueGrows ==
  ASSUME queue \in Seq(Ids), NEW q \in Ids, queue' = Append(queue, q)
  PROVE  /\ queue' \in Seq(Ids) /\ Len(queue') = Len(queue) + 1
         /\ Queued' = Queued \cup {q}
         /\ (\A i, j \in DOMAIN queue : i # j => queue[i] # queue[j]) /\ q \notin Queued =>
              \A i, j \in DOMAIN queue' : i # j => queue'[i] # queue'[j]
<1>1. /\ queue' \in Seq(Ids) /\ Len(queue') = Len(queue) + 1
      /\ DOMAIN queue = 1..Len(queue) /\ DOMAIN queue' = 1..Len(queue) + 1
      /\ queue'[Len(queue) + 1] = q /\ \A i \in DOMAIN queue : queue'[i] = queue[i]
  OBVIOUS
<1>2. Queued' = Queued \cup {q}
  BY <1>1 DEF Queued
<1>3. QED
  BY <1>1, <1>2 DEF Queued

LEMMA QueueShrinks ==
  ASSUME queue \in Seq(Ids), queue # <<>>, queue' = Tail(queue)
  PROVE  /\ queue' \in Seq(Ids) /\ Len(queue') = Len(queue) - 1 /\ Len(queue) \in Nat
         /\ Head(queue) \in Ids /\ Queued = Queued' \cup {Head(queue)}
         /\ (\A i, j \in DOMAIN queue : i # j => queue[i] # queue[j]) =>
              /\ Head(queue) \notin Queued'
              /\ \A i, j \in DOMAIN queue' : i # j => queue'[i] # queue'[j]
<1>1. /\ queue' \in Seq(Ids) /\ Len(queue') = Len(queue) - 1 /\ Len(queue) \in Nat \ {0}
      /\ DOMAIN queue = 1..Len(queue) /\ DOMAIN queue' = 1..Len(queue) - 1
      /\ Head(queue) = queue[1] /\ \A i \in DOMAIN queue' : queue'[i] = queue[i + 1]
      /\ Head(queue) \in Ids
  OBVIOUS
<1>2. \A i \in DOMAIN queue' : i + 1 \in DOMAIN queue /\ i + 1 # 1 /\ i \in Nat
  BY <1>1
<1>3. Queued = Queued' \cup {Head(queue)}
  <2>1. \A i \in DOMAIN queue : i = 1 \/ (i - 1 \in DOMAIN queue' /\ queue[i] = queue'[i - 1])
    BY <1>1
  <2>2. 1 \in DOMAIN queue
    BY <1>1
  <2>3. Queued' \cup {Head(queue)} \subseteq Queued
    BY <1>1, <1>2, <2>2 DEF Queued
  <2>4. ASSUME NEW i \in DOMAIN queue PROVE queue[i] \in Queued' \cup {Head(queue)}
    BY <1>1, <2>1 DEF Queued
  <2>5. QED
    BY <2>3, <2>4 DEF Queued
<1>4. ASSUME \A i, j \in DOMAIN queue : i # j => queue[i] # queue[j]
      PROVE  /\ Head(queue) \notin Queued'
             /\ \A i, j \in DOMAIN queue' : i # j => queue'[i] # queue'[j]
  <2>1. \A i \in DOMAIN queue' : queue'[i] # Head(queue)
    BY <1>1, <1>2, <1>4
  <2>2. ASSUME NEW i \in DOMAIN queue', NEW j \in DOMAIN queue', i # j PROVE queue'[i] # queue'[j]
    <3>1. i + 1 # j + 1
      BY <1>2, <2>2
    <3>2. QED
      BY <1>1, <1>2, <1>4, <3>1
  <2>3. QED
    BY <2>1, <2>2 DEF Queued
<1>5. QED
  BY <1>1, <1>3, <1>4

LEMMA Recording ==
  ASSUME PageTyped, run' = run, NEW r \in Runs, NEW q \in Ids,
         NEW o \in {"response", "failure", "discarded"}, NEW b \in BOOLEAN,
         trace' = Client!Recorded(trace, Client!Entry(r, q, o, b))
  PROVE  /\ trace' \subseteq [run : Runs, req : Ids,
                              outcome : {"response", "failure", "discarded"}, observed : BOOLEAN]
         /\ trace' \subseteq trace \cup {Client!Entry(r, q, o, b)}
         /\ Traced' = IF r = run THEN Traced \cup {q} ELSE Traced
<1> DEFINE e == Client!Entry(r, q, o, b)
<1>1. /\ e \in [run : Runs, req : Ids, outcome : {"response", "failure", "discarded"}, observed : BOOLEAN]
      /\ e.run = r /\ e.req = q
  BY DEF Client!Entry
<1> HIDE DEF e
<1>2. \/ trace' = trace /\ \E x \in trace : x.run = r /\ x.req = q
      \/ trace' = trace \cup {e}
  BY <1>1 DEF Client!Recorded, e
<1>3. QED
  BY <1>1, <1>2 DEF PageTyped, Traced, e

LEMMA Failing ==
  ASSUME PageTyped, WorkerTyped, failed \subseteq Traced, run' = run, NEW q \in Ids, Client!Fail(run, q)
  PROVE  /\ trace' \subseteq [run : Runs, req : Ids,
                              outcome : {"response", "failure", "discarded"}, observed : BOOLEAN]
         /\ \A e \in trace' : e \in trace \/ ~e.observed
         /\ Traced' = Traced \cup {q} /\ failed' \subseteq failed \cup {q} /\ failed' \subseteq Ids
         /\ commands' \in {commands, Append(commands, Client!Answer(run, q))}
         /\ commands' \in Seq(Commands)
<1>1. run \in Runs /\ commands \in Seq(Commands) /\ failed \subseteq Ids
      /\ trace \subseteq [run : Runs, req : Ids,
                          outcome : {"response", "failure", "discarded"}, observed : BOOLEAN]
  BY DEF PageTyped, WorkerTyped
<1>2. Client!Answer(run, q) \in Commands
  BY <1>1 DEF Client!Answer, Commands
<1>3. /\ commands' \in {commands, Append(commands, Client!Answer(run, q))}
      /\ failed' = failed \cup {q}
  BY DEF Client!Fail
<1>4. commands' \in Seq(Commands)
  BY <1>1, <1>2, <1>3
<1>5. CASE q \in failed
  <2>1. trace' = trace
    BY <1>5 DEF Client!Fail
  <2>2. QED
    BY <1>1, <1>3, <1>4, <1>5, <2>1 DEF Traced
<1>6. CASE q \notin failed
  <2>1. trace' = Client!Recorded(trace, Client!Entry(run, q, "failure", FALSE))
    BY <1>6 DEF Client!Fail
  <2>2. /\ trace' \subseteq [run : Runs, req : Ids,
                              outcome : {"response", "failure", "discarded"}, observed : BOOLEAN]
        /\ trace' \subseteq trace \cup {Client!Entry(run, q, "failure", FALSE)}
        /\ Traced' = Traced \cup {q}
    BY <1>1, <2>1, Recording
  <2>3. ~Client!Entry(run, q, "failure", FALSE).observed
    BY DEF Client!Entry
  <2>4. QED
    BY <1>1, <1>3, <1>4, <2>2, <2>3
<1>7. QED
  BY <1>5, <1>6

LEMMA HandleMessageEffect ==
  ASSUME PageInv, ArchiveInv, Client!HandleMessage, UNCHANGED worker
  PROVE  /\ PageInv' /\ Single' /\ UNCHANGED run /\ messages # <<>> /\ messages' = Tail(messages)
         /\ Keeps \/ \E q \in Ids : Takes(q) \/ Gives(q)
<1> DEFINE m == Head(messages)
<1>1. /\ messages # <<>> /\ messages' = Tail(messages) /\ m \in Messages /\ messages' \in Seq(Messages)
      /\ m = messages[1] /\ 1 \in DOMAIN messages
      /\ UNCHANGED <<cond, run, config, latch, handshakes, current, calls, wire>>
  BY DEF Client!HandleMessage, PageInv, WorkerTyped
<1>2. /\ queue \in Seq(Ids) /\ Len(queue) \in Nat /\ archive \subseteq Ids /\ failed \subseteq Traced
      /\ run \in Runs /\ current \in Busies \cup {None} /\ commands \in Seq(Commands)
      /\ Single /\ archive = Traced \cup Waiting
      /\ failed \subseteq Ids
  BY DEF PageInv, PageTyped, WorkerTyped, ArchiveInv, Single, Waiting
<1>3. Underway' = Underway /\ Shaking' = Shaking
  BY <1>1 DEF Underway, Shaking
<1>4. CASE UNCHANGED <<archive, queue, failed, trace, commands>> /\ view' \in [final : MaybeRun, complete : BOOLEAN]
  <2>1. Queued' = Queued /\ Traced' = Traced
    BY <1>1, <1>4 DEF Queued, Traced
  <2>2. Single' /\ Waiting' = Waiting
    BY <1>2, <1>3, <1>4, <2>1 DEF Single, Waiting
  <2>3. PageInv'
    BY <1>1, <1>3, <1>4 DEF PageInv, WorkerTyped, PageTyped, PageLimits
  <2>4. QED
    BY <1>1, <1>4, <2>1, <2>2, <2>3 DEF Keeps
<1>5. CASE Client!DecisionRequest(m) /\ Client!Forwarded(m)
  <2> DEFINE q == m.req
  <2>1. /\ m.type = "request" /\ m.run = run /\ q \in Ids /\ Arrives(q)
        /\ archive' = archive \cup {q} /\ view' = view
        /\ \/ Client!Fail(run, q) /\ UNCHANGED queue
           \/ ~Client!Full /\ queue' = Append(queue, q) /\ UNCHANGED <<failed, trace, commands>>
    BY <1>1, <1>5 DEF Client!DecisionRequest, Client!Forwarded, Client!HandleDecisionRequest, Messages, Arrives
  <2>2. q \notin archive
    <3>1. \A x \in archive : x < q
      BY <1>1, <2>1 DEF ArchiveInv
    <3>2. QED
      BY <2>1, <3>1 DEF Ids
  <2>3. q \notin Queued /\ q \notin Underway /\ q \notin Waiting
    BY <1>2, <2>2 DEF Waiting
  <2>4. CASE Client!Fail(run, q) /\ UNCHANGED queue
    <3>1. /\ trace' \subseteq [run : Runs, req : Ids,
                              outcome : {"response", "failure", "discarded"}, observed : BOOLEAN]
          /\ Traced' = Traced \cup {q} /\ failed' \subseteq failed \cup {q} /\ failed' \subseteq Ids
          /\ commands' \in {commands, Append(commands, Client!Answer(run, q))}
          /\ commands' \in Seq(Commands)
      BY <1>1, <1>2, <2>1, <2>4, Failing DEF PageInv
    <3>2. Queued' = Queued
      BY <2>4 DEF Queued
    <3>3. Waiting' = Waiting \ {q} /\ Single'
      BY <1>2, <1>3, <2>3, <2>4, <3>2 DEF Single, Waiting
    <3>4. Gives(q)
      BY <2>1, <3>1, <3>3 DEF Gives
    <3>5. PageInv'
      BY <1>1, <1>2, <1>3, <2>1, <2>4, <3>1 DEF PageInv, WorkerTyped, PageTyped, PageLimits
    <3>6. QED
      BY <1>1, <2>1, <3>3, <3>4, <3>5
  <2>5. CASE ~Client!Full /\ queue' = Append(queue, q) /\ UNCHANGED <<failed, trace, commands>>
    <3>1. /\ queue' \in Seq(Ids) /\ Len(queue') = Len(queue) + 1 /\ Queued' = Queued \cup {q}
          /\ \A i, j \in DOMAIN queue' : i # j => queue'[i] # queue'[j]
      BY <1>2, <2>1, <2>3, <2>5, QueueGrows DEF Single
    <3>2. Waiting' = Waiting \cup {q} /\ Single'
      BY <1>2, <1>3, <2>3, <3>1 DEF Single, Waiting
    <3>3. Traced' = Traced
      BY <1>1, <2>5 DEF Traced
    <3>4. Takes(q)
      BY <2>1, <2>5, <3>2, <3>3 DEF Takes
    <3>5. PageLimits'
      <4>1. ~(calls >= MaxCalls) /\ ~(Len(queue) >= MaxQueued) /\ calls \in Nat
        BY <2>5 DEF Client!Full, PageInv, PageTyped
      <4>2. MaxCalls \in Nat /\ MaxQueued \in Nat
        BY NumberAssumption
      <4>3. QED
        BY <1>1, <1>2, <1>3, <3>1, <4>1, <4>2 DEF PageLimits
    <3>6. PageInv'
      BY <1>1, <1>2, <2>1, <2>5, <3>1, <3>5 DEF PageInv, WorkerTyped, PageTyped
    <3>7. QED
      BY <1>1, <2>1, <3>2, <3>4, <3>6
  <2>6. QED
    BY <2>1, <2>4, <2>5
<1>6. CASE Client!DecisionRequest(m) /\ ~Client!Forwarded(m)
  <2>1. UNCHANGED <<archive, queue, failed, trace, commands, view>>
    BY <1>6 DEF Client!DecisionRequest
  <2>2. QED
    BY <1>4, <2>1 DEF PageInv, PageTyped
<1>7. CASE Client!Snapshot(m) \/ Client!RunComplete(m)
  <2>1. view \in [final : MaybeRun, complete : BOOLEAN] /\ m.run \in MaybeRun /\ m.complete \in BOOLEAN
    BY <1>1 DEF PageInv, PageTyped, Messages, MaybeRun
  <2>2. view' \in [final : MaybeRun, complete : BOOLEAN]
    BY <1>7, <2>1 DEF Client!Snapshot, Client!RunComplete
  <2>3. QED
    BY <1>4, <1>7, <2>2 DEF Client!Snapshot, Client!RunComplete
<1>8. QED
  BY <1>5, <1>6, <1>7 DEF Client!HandleMessage

LEMMA DispatchNextEffect ==
  ASSUME PageInv, ArchiveInv, Client!DispatchNext, UNCHANGED worker
  PROVE  /\ PageInv' /\ Single' /\ UNCHANGED <<run, messages>>
         /\ Keeps \/ \E q \in Ids : Gives(q)
<1> DEFINE q == Head(queue)
<1>1. /\ current = None /\ queue # <<>> /\ queue' = Tail(queue)
      /\ UNCHANGED <<cond, run, config, latch, handshakes, archive, view, messages>>
      /\ \/ Client!Post(q) /\ UNCHANGED <<failed, trace, commands>>
         \/ Client!Fail(run, q) /\ UNCHANGED <<calls, current, wire>>
         \/ /\ current' = Client!Busy(q, "handshake")
            /\ UNCHANGED <<calls, wire, failed, trace, commands>>
  BY DEF Client!DispatchNext
<1>2. /\ queue \in Seq(Ids) /\ archive \subseteq Ids /\ failed \subseteq Traced /\ calls \in Nat
      /\ run \in Runs /\ commands \in Seq(Commands) /\ cond \in Conditions \cup {Baseline}
      /\ Single /\ wire \subseteq Posts
  BY DEF PageInv, PageTyped, WorkerTyped, ArchiveInv, Single
<1>3. /\ queue' \in Seq(Ids) /\ Len(queue') = Len(queue) - 1 /\ Len(queue) \in Nat
      /\ q \in Ids /\ Queued = Queued' \cup {q} /\ q \notin Queued'
      /\ \A i, j \in DOMAIN queue' : i # j => queue'[i] # queue'[j]
  BY <1>1, <1>2, QueueShrinks DEF Single
<1>4. Underway = {} /\ ~Shaking /\ Waiting = Queued
  BY <1>1 DEF Underway, Shaking, Waiting
<1>5. ASSUME NEW stage \in {"handshake", "posted"}, current' = Client!Busy(q, stage)
      PROVE  /\ current' \in Busies \cup {None} /\ Waiting' = Waiting /\ Single'
             /\ current'.run = run /\ (Shaking' <=> stage = "handshake")
  <2>1. current' \in Busies /\ current'.run = run /\ current'.req = q /\ current'.stage = stage
    BY <1>2, <1>3, <1>5 DEF Client!Busy, Busies, Ids
  <2>2. Underway' = {q} /\ (Shaking' <=> stage = "handshake")
    <3>1. current' # None /\ current'.run = run'
      BY <1>1, <2>1, NoneAssumption
    <3>2. Underway' = {q}
      BY <2>1, <3>1 DEF Underway
    <3>3. Shaking' <=> stage = "handshake"
      BY <2>1, <3>1 DEF Shaking
    <3>4. QED
      BY <3>2, <3>3
  <2>3. Waiting' = Waiting
    BY <1>3, <1>4, <2>2 DEF Waiting
  <2>4. Single'
    BY <1>3, <2>2 DEF Single
  <2>5. QED
    BY <2>1, <2>2, <2>3, <2>4
<1>6. CASE Client!Fail(run, q) /\ UNCHANGED <<calls, current, wire>>
  <2>1. /\ trace' \subseteq [run : Runs, req : Ids,
                            outcome : {"response", "failure", "discarded"}, observed : BOOLEAN]
        /\ Traced' = Traced \cup {q} /\ failed' \subseteq failed \cup {q} /\ failed' \subseteq Ids
        /\ commands' \in {commands, Append(commands, Client!Answer(run, q))}
        /\ commands' \in Seq(Commands)
    BY <1>1, <1>2, <1>3, <1>6, Failing DEF PageInv
  <2>2. Underway' = {} /\ ~Shaking'
    BY <1>1, <1>6 DEF Underway, Shaking
  <2>3. Waiting' = Waiting \ {q} /\ Single' /\ q \in Waiting
    BY <1>3, <1>4, <2>2 DEF Single, Waiting
  <2>4. Gives(q)
    BY <1>1, <1>3, <2>1, <2>3 DEF Gives
  <2>5. PageLimits'
    BY <1>1, <1>2, <1>3, <1>4, <1>6, <2>2, NumberAssumption DEF PageInv, PageLimits
  <2>6. PageInv'
    BY <1>1, <1>2, <1>3, <1>6, <2>1, <2>5 DEF PageInv, WorkerTyped, PageTyped
  <2>7. QED
    BY <1>1, <1>3, <2>3, <2>4, <2>6
<1>7. CASE Client!Post(q) /\ UNCHANGED <<failed, trace, commands>>
  <2>1. /\ calls' = calls + 1 /\ current' = Client!Busy(q, "posted") /\ wire' \subseteq Posts
    <3>1. Client!Contract(cond) \in Conditions
      BY <1>2, ConditionAssumption DEF Client!Contract, Client!ModelBacked
    <3>2. [run |-> run, req |-> q, cond |-> Client!Contract(cond), state |-> "sent",
           live |-> TRUE, again |-> FALSE] \in Posts
      BY <1>2, <1>3, <3>1 DEF Posts
    <3>3. QED
      BY <1>2, <1>7, <3>2 DEF Client!Post
  <2>2. /\ current' \in Busies \cup {None} /\ Waiting' = Waiting /\ Single' /\ ~Shaking'
        /\ current'.run <= run
    BY <1>2, <1>5, <2>1 DEF Runs
  <2>3. Traced' = Traced
    BY <1>1, <1>7 DEF Traced
  <2>4. PageLimits'
    BY <1>1, <1>2, <1>3, <1>4, <2>1, <2>2, NumberAssumption DEF PageInv, PageLimits
  <2>5. PageInv'
    BY <1>1, <1>2, <1>3, <1>7, <2>1, <2>2, <2>4 DEF PageInv, WorkerTyped, PageTyped
  <2>6. QED
    BY <1>1, <1>7, <2>2, <2>3, <2>5 DEF Keeps
<1>8. CASE /\ current' = Client!Busy(q, "handshake")
           /\ UNCHANGED <<calls, wire, failed, trace, commands>>
  <2>1. /\ current' \in Busies \cup {None} /\ Waiting' = Waiting /\ Single' /\ Shaking'
        /\ current'.run <= run
    BY <1>2, <1>5, <1>8 DEF Runs
  <2>2. Traced' = Traced
    BY <1>1, <1>8 DEF Traced
  <2>3. PageLimits'
    BY <1>1, <1>2, <1>3, <1>4, <1>8, <2>1, NumberAssumption DEF PageInv, PageLimits
  <2>4. PageInv'
    BY <1>1, <1>2, <1>3, <1>8, <2>1, <2>3 DEF PageInv, WorkerTyped, PageTyped
  <2>5. QED
    BY <1>1, <1>8, <2>1, <2>2, <2>4 DEF Keeps
<1>9. QED
  BY <1>1, <1>6, <1>7, <1>8

\* What a handshake hears moves the configuration alone.
LEMMA Verifying ==
  ASSUME PageTyped, NEW answer \in Advertised, served \in Conditions, Client!Verified(answer)
  PROVE  config' \in Conditions \cup {None} /\ latch' \in BOOLEAN
<1>1. answer \in Conditions \cup {None} /\ latch \in BOOLEAN
  BY DEF Advertised, PageTyped
<1>2. QED
  BY <1>1 DEF Client!Verified

LEMMA HandshakeEndsEffect ==
  ASSUME PageInv, ArchiveInv, served \in Conditions, NEW answer \in Advertised,
         Client!HandshakeEnds(answer), UNCHANGED worker
  PROVE  PageInv' /\ Single' /\ UNCHANGED <<run, messages>> /\ Keeps
<1>1. /\ UNCHANGED <<cond, run, queue, current, calls, failed, trace, archive, view,
                     commands, messages, wire>>
      /\ handshakes > 0 /\ handshakes' = handshakes - 1
  BY DEF Client!HandshakeEnds
<1>2. config' \in Conditions \cup {None} /\ latch' \in BOOLEAN
  BY Verifying DEF PageInv, Client!HandshakeEnds
<1>3. handshakes' \in 0..MaxHandshakes
  BY <1>1, NumberAssumption DEF PageInv, PageTyped
<1>4. /\ Queued' = Queued /\ Underway' = Underway /\ Traced' = Traced /\ Shaking' = Shaking
      /\ Waiting' = Waiting
  BY <1>1 DEF Queued, Underway, Traced, Shaking, Waiting
<1>5. Single'
  BY <1>1, <1>4 DEF ArchiveInv, Single
<1>6. PageInv'
  BY <1>1, <1>2, <1>3, <1>4 DEF PageInv, WorkerTyped, PageTyped, PageLimits
<1>7. QED
  BY <1>1, <1>4, <1>5, <1>6 DEF Keeps

LEMMA ConnectedEffect ==
  ASSUME PageInv, ArchiveInv, served \in Conditions, NEW answer \in Advertised,
         Client!Connected(answer), UNCHANGED worker
  PROVE  /\ PageInv' /\ Single' /\ UNCHANGED <<run, messages>>
         /\ Keeps \/ \E q \in Ids : Gives(q)
<1> DEFINE q == current.req
<1>1. /\ current # None /\ current.stage = "handshake"
      /\ UNCHANGED <<cond, run, handshakes, queue, archive, view, messages>>
      /\ \/ current.run # run /\ Client!Discard /\ current' = None /\ UNCHANGED <<calls, wire>>
         \/ /\ current.run = run
            /\ Client!Fail(run, q) /\ current' = None /\ UNCHANGED <<calls, wire>>
         \/ current.run = run /\ Client!Post(q) /\ UNCHANGED <<failed, trace, commands>>
  BY DEF Client!Connected
<1>2. /\ queue \in Seq(Ids) /\ archive \subseteq Ids /\ failed \subseteq Traced /\ calls \in Nat
      /\ run \in Runs /\ commands \in Seq(Commands) /\ cond \in Conditions \cup {Baseline}
      /\ Single /\ wire \subseteq Posts /\ current \in Busies /\ q \in Ids /\ current.run \in Runs
      /\ Len(queue) \in Nat
  BY <1>1 DEF PageInv, PageTyped, WorkerTyped, ArchiveInv, Single, Busies, Ids
<1>3. config' \in Conditions \cup {None} /\ latch' \in BOOLEAN
  BY Verifying DEF PageInv, Client!Connected
<1>4. Queued' = Queued
  BY <1>1 DEF Queued
<1>5. ASSUME current' = None PROVE Underway' = {} /\ Waiting' = Queued /\ Single' /\ ~Shaking'
  BY <1>1, <1>2, <1>4, <1>5 DEF Underway, Waiting, Single, Shaking
<1>6. CASE current.run # run /\ Client!Discard /\ current' = None /\ UNCHANGED <<calls, wire>>
  <2>1. /\ trace' = Client!Recorded(trace, Client!Entry(current.run, q, "discarded", FALSE))
        /\ UNCHANGED <<failed, commands>>
    BY <1>6 DEF Client!Discard
  <2>2. /\ trace' \subseteq [run : Runs, req : Ids,
                            outcome : {"response", "failure", "discarded"}, observed : BOOLEAN]
        /\ Traced' = Traced
    BY <1>1, <1>2, <1>6, <2>1, Recording DEF PageInv
  <2>3. Waiting = Queued
    BY <1>6 DEF Waiting, Underway
  <2>4. PageLimits'
    BY <1>1, <1>2, <1>5, <1>6, NumberAssumption DEF PageInv, PageLimits, Shaking
  <2>5. PageInv'
    BY <1>1, <1>2, <1>3, <1>6, <2>1, <2>2, <2>4 DEF PageInv, WorkerTyped, PageTyped
  <2>6. QED
    BY <1>1, <1>5, <1>6, <2>1, <2>2, <2>3, <2>5 DEF Keeps
<1>7. CASE /\ current.run = run
           /\ Client!Fail(run, q) /\ current' = None /\ UNCHANGED <<calls, wire>>
  <2>1. /\ trace' \subseteq [run : Runs, req : Ids,
                            outcome : {"response", "failure", "discarded"}, observed : BOOLEAN]
        /\ Traced' = Traced \cup {q} /\ failed' \subseteq failed \cup {q} /\ failed' \subseteq Ids
        /\ commands' \in {commands, Append(commands, Client!Answer(run, q))}
        /\ commands' \in Seq(Commands)
    BY <1>1, <1>2, <1>7, Failing DEF PageInv
  <2>2. Underway = {q} /\ Shaking
    BY <1>1, <1>7 DEF Underway, Shaking
  <2>3. Waiting' = Waiting \ {q} /\ q \in Waiting
    BY <1>2, <1>5, <1>7, <2>2 DEF Single, Waiting
  <2>4. Gives(q)
    BY <1>1, <1>2, <2>1, <2>3 DEF Gives
  <2>5. PageLimits'
    BY <1>1, <1>2, <1>5, <1>7, <2>2, NumberAssumption DEF PageInv, PageLimits
  <2>6. PageInv'
    BY <1>1, <1>2, <1>3, <1>7, <2>1, <2>5 DEF PageInv, WorkerTyped, PageTyped
  <2>7. QED
    BY <1>1, <1>2, <1>5, <1>7, <2>4, <2>6
<1>8. CASE current.run = run /\ Client!Post(q) /\ UNCHANGED <<failed, trace, commands>>
  <2>1. calls' = calls + 1 /\ current' = Client!Busy(q, "posted")
    BY <1>8 DEF Client!Post
  <2>2. wire' \subseteq Posts
    <3>1. Client!Contract(cond) \in Conditions
      BY <1>2, ConditionAssumption DEF Client!Contract, Client!ModelBacked
    <3>2. [run |-> run, req |-> q, cond |-> Client!Contract(cond), state |-> "sent",
           live |-> TRUE, again |-> FALSE] \in Posts
      BY <1>2, <3>1 DEF Posts
    <3>3. QED
      BY <1>2, <1>8, <3>2 DEF Client!Post
  <2>3. current' \in Busies /\ current'.run = run /\ current'.req = q /\ current'.stage = "posted"
    BY <1>2, <2>1 DEF Client!Busy, Busies, Ids
  <2>4. Underway' = {q} /\ ~Shaking' /\ Underway = {q} /\ Shaking
    BY <1>1, <1>8, <2>3, NoneAssumption DEF Underway, Shaking
  <2>5. Waiting' = Waiting /\ Single' /\ Traced' = Traced
    BY <1>1, <1>2, <1>4, <1>8, <2>4 DEF Waiting, Single, Traced
  <2>6. PageLimits'
    BY <1>1, <1>2, <2>1, <2>4, NumberAssumption DEF PageInv, PageLimits
  <2>7. PageInv'
    BY <1>1, <1>2, <1>3, <1>8, <2>1, <2>2, <2>3, <2>6 DEF PageInv, WorkerTyped, PageTyped
  <2>8. QED
    BY <1>1, <1>8, <2>5, <2>7 DEF Keeps
<1>9. QED
  BY <1>1, <1>6, <1>7, <1>8

LEMMA SettleEffect ==
  ASSUME PageInv, ArchiveInv, NEW outcome \in {"response", "failure", "unusable", "none"},
         Client!Settle(outcome), UNCHANGED worker
  PROVE  /\ PageInv' /\ Single' /\ UNCHANGED <<run, messages>>
         /\ Keeps \/ \E q \in Ids : Gives(q)
<1> DEFINE q == current.req
<1>1. /\ current # None /\ current.stage = "posted" /\ current' = None
      /\ UNCHANGED <<cond, run, config, latch, handshakes, queue, calls, archive, view, messages>>
      /\ wire' = (wire \ Client!Mine) \cup
                 {[x EXCEPT !.live = FALSE] : x \in {y \in Client!Mine : y.state = "sent"}}
      /\ \/ current.run # run /\ Client!Discard
         \/ /\ current.run = run /\ outcome \in {"response", "failure"}
            /\ trace' = Client!Recorded(trace, Client!Entry(run, q, outcome, TRUE))
            /\ commands' = Append(commands, Client!Answer(run, q))
            /\ UNCHANGED failed
         \/ current.run = run /\ Client!Fail(run, q)
  BY DEF Client!Settle, Client!Stale
<1>2. /\ queue \in Seq(Ids) /\ archive \subseteq Ids /\ failed \subseteq Traced /\ calls \in Nat
      /\ run \in Runs /\ commands \in Seq(Commands) /\ cond \in Conditions \cup {Baseline}
      /\ Single /\ wire \subseteq Posts /\ current \in Busies /\ q \in Ids /\ current.run \in Runs
      /\ Len(queue) \in Nat
  BY <1>1 DEF PageInv, PageTyped, WorkerTyped, ArchiveInv, Single, Busies, Ids
<1>3. wire' \subseteq Posts
  <2>1. \A x \in Posts : [x EXCEPT !.live = FALSE] \in Posts
    BY DEF Posts
  <2>2. QED
    BY <1>1, <1>2, <2>1 DEF Client!Mine
<1>4. Queued' = Queued
  BY <1>1 DEF Queued
<1>5. /\ Underway' = {} /\ Waiting' = Queued /\ Single' /\ ~Shaking'
      /\ Waiting = IF current.run = run THEN Queued \cup {q} ELSE Queued
      /\ q \notin Queued \/ current.run # run
  BY <1>1, <1>2, <1>4 DEF Underway, Waiting, Single, Shaking
<1>6. PageLimits'
  BY <1>1, <1>2, <1>5, NumberAssumption DEF PageInv, PageLimits, Shaking
<1>7. ASSUME trace' \subseteq [run : Runs, req : Ids,
                               outcome : {"response", "failure", "discarded"}, observed : BOOLEAN],
             failed' \subseteq Ids, commands' \in Seq(Commands)
      PROVE  PageInv'
  BY <1>1, <1>2, <1>3, <1>6, <1>7 DEF PageInv, WorkerTyped, PageTyped
<1>8. CASE current.run # run /\ Client!Discard
  <2>1. /\ trace' = Client!Recorded(trace, Client!Entry(current.run, q, "discarded", FALSE))
        /\ UNCHANGED <<failed, commands>>
    BY <1>8 DEF Client!Discard
  <2>2. /\ trace' \subseteq [run : Runs, req : Ids,
                            outcome : {"response", "failure", "discarded"}, observed : BOOLEAN]
        /\ Traced' = Traced
    BY <1>1, <1>2, <1>8, <2>1, Recording DEF PageInv
  <2>3. failed' \subseteq Ids /\ commands' \in Seq(Commands)
    BY <1>2, <2>1 DEF PageInv, PageTyped
  <2>4. QED
    BY <1>1, <1>5, <1>7, <1>8, <2>1, <2>2, <2>3 DEF Keeps
<1>9. ASSUME current.run = run, Traced' = Traced \cup {q}, failed' \subseteq failed \cup {q},
             commands' \in {commands, Append(commands, Client!Answer(run, q))}
      PROVE  Gives(q)
  BY <1>1, <1>2, <1>5, <1>9 DEF Gives
<1>10. CASE /\ current.run = run /\ outcome \in {"response", "failure"}
            /\ trace' = Client!Recorded(trace, Client!Entry(run, q, outcome, TRUE))
            /\ commands' = Append(commands, Client!Answer(run, q))
            /\ UNCHANGED failed
  <2>1. /\ trace' \subseteq [run : Runs, req : Ids,
                            outcome : {"response", "failure", "discarded"}, observed : BOOLEAN]
        /\ Traced' = Traced \cup {q}
    BY <1>1, <1>2, <1>10, Recording DEF PageInv
  <2>2. Client!Answer(run, q) \in Commands
    BY <1>2 DEF Client!Answer, Commands
  <2>3. failed' \subseteq Ids /\ commands' \in Seq(Commands)
    BY <1>2, <1>10, <2>2 DEF PageInv, PageTyped
  <2>4. QED
    BY <1>1, <1>2, <1>5, <1>7, <1>9, <1>10, <2>1, <2>3
<1>11. CASE current.run = run /\ Client!Fail(run, q)
  <2>1. /\ trace' \subseteq [run : Runs, req : Ids,
                            outcome : {"response", "failure", "discarded"}, observed : BOOLEAN]
        /\ Traced' = Traced \cup {q} /\ failed' \subseteq failed \cup {q} /\ failed' \subseteq Ids
        /\ commands' \in {commands, Append(commands, Client!Answer(run, q))}
        /\ commands' \in Seq(Commands)
    BY <1>1, <1>2, <1>11, Failing DEF PageInv
  <2>2. QED
    BY <1>1, <1>2, <1>5, <1>7, <1>9, <1>11, <2>1
<1>12. QED
  BY <1>1, <1>8, <1>10, <1>11

-----------------------------------------------------------------------------
(* What the operator does                                                  *)

\* A load or a reset: a new run, of which nothing is known yet.
Renews(c) ==
  /\ run' = run + 1 /\ commands' = Append(commands, c) /\ c.type # "answer"
  /\ queue' = <<>> /\ archive' = {} /\ failed' = {} /\ trace' = {}
  /\ UNCHANGED <<current, messages, wire>>

LEMMA RenewsTyped ==
  ASSUME PageInv, ArchiveInv, UNCHANGED worker, NEW c \in Commands, c.type # "answer",
         Client!NewRun, cond' \in Conditions \cup {Baseline}, handshakes' \in 0..MaxHandshakes,
         commands' = Append(commands, c)
  PROVE  PageInv' /\ Renews(c) /\ Waiting' = {} /\ Single' /\ Traced' = {}
<1>1. /\ run' = run + 1 /\ run < MaxRuns /\ queue' = <<>> /\ calls' = 0
      /\ failed' = {} /\ latch' = FALSE /\ trace' = {} /\ archive' = {}
      /\ view' = [view EXCEPT !.final = None]
      /\ UNCHANGED <<config, current, messages, wire>>
  BY DEF Client!NewRun
<1>2. /\ run \in Nat /\ run' \in Runs /\ view' \in [final : MaybeRun, complete : BOOLEAN]
      /\ current \in Busies \cup {None} /\ config \in Conditions \cup {None}
      /\ commands \in Seq(Commands) /\ wire \subseteq Posts /\ worker \in Workers
      /\ messages \in Seq(Messages) /\ (current # None => current.run <= run)
  <2>1. run \in 0..MaxRuns /\ view \in [final : MaybeRun, complete : BOOLEAN]
    BY DEF PageInv, PageTyped, Runs
  <2>2. run \in Nat /\ run + 1 \in Runs
    BY <1>1, <2>1, NumberAssumption DEF Runs
  <2>3. view' \in [final : MaybeRun, complete : BOOLEAN]
    BY <1>1, <2>1 DEF MaybeRun
  <2>4. QED
    BY <1>1, <2>2, <2>3 DEF PageInv, PageTyped, WorkerTyped
<1>3. commands' \in Seq(Commands)
  BY <1>2
<1>4. Underway' = {} /\ ~Shaking' /\ Queued' = {} /\ Traced' = {} /\ (current # None => current.run <= run + 1)
  <2>1. current # None => current.run # run + 1 /\ current.run <= run + 1
    BY <1>2 DEF Busies, Runs
  <2>2. QED
    BY <1>1, <2>1 DEF Underway, Shaking, Queued, Traced
<1>5. Waiting' = {} /\ Single'
  BY <1>1, <1>4 DEF Waiting, Single
<1>6. queue' \in Seq(Ids) /\ Len(queue') = 0
  BY <1>1
<1>7. PageLimits'
  BY <1>1, <1>4, <1>6, NumberAssumption DEF PageLimits
<1>8. PageInv'
  BY <1>1, <1>2, <1>3, <1>4, <1>6, <1>7 DEF PageInv, PageTyped, WorkerTyped
<1>9. QED
  BY <1>1, <1>4, <1>5, <1>8 DEF Renews

LEMMA OperatorEffect ==
  ASSUME PageInv, ArchiveInv, Client!Operator, UNCHANGED worker
  PROVE  \/ /\ UNCHANGED <<cond, run, view, queue, current, failed, trace, archive, commands, messages, wire,
                           config, latch, handshakes, calls>>
         \/ /\ PageInv' /\ Waiting' = {} /\ Single' /\ Traced' = {}
            /\ \E c \in Commands : Renews(c)
<1>1. /\ cond \in Conditions \cup {Baseline} /\ handshakes \in 0..MaxHandshakes
  BY DEF PageInv, PageTyped
<1>2. ASSUME NEW n \in Nat, Client!Connecting(n) PROVE handshakes' \in 0..MaxHandshakes
  BY <1>1, <1>2, NumberAssumption DEF Client!Connecting
<1>3. ASSUME NEW x \in Conditions \cup {Baseline}, NEW supported \in BOOLEAN, NEW n \in {1, 2},
             Client!Load(x, supported, n)
      PROVE  /\ PageInv' /\ Waiting' = {} /\ Single' /\ Traced' = {}
             /\ \E c \in Commands : Renews(c) /\ c.type = "load"
  <2> DEFINE c == Client!Order("load", cond')
  <2>1. /\ cond' \in Conditions \cup {Baseline} /\ Client!NewRun /\ commands' = Append(commands, c)
        /\ \E k \in {0, 1, 2} : Client!Connecting(k)
    BY <1>3 DEF Client!Load
  <2>2. c \in Commands /\ c.type = "load"
    BY <2>1 DEF Client!Order, Commands
  <2>3. handshakes' \in 0..MaxHandshakes
    BY <1>2, <2>1
  <2> HIDE DEF c
  <2>4. QED
    BY <2>1, <2>2, <2>3, RenewsTyped
<1>4. ASSUME Client!Reset
      PROVE  /\ PageInv' /\ Waiting' = {} /\ Single' /\ Traced' = {}
             /\ \E c \in Commands : Renews(c)
  <2> DEFINE c == Client!Order("reset", None)
  <2>1. /\ cond' = cond /\ Client!NewRun /\ commands' = Append(commands, c)
        /\ \E k \in {0, 1} : Client!Connecting(k)
    BY <1>4 DEF Client!Reset
  <2>2. c \in Commands /\ c.type = "reset"
    BY DEF Client!Order, Commands
  <2>3. handshakes' \in 0..MaxHandshakes
    BY <1>2, <2>1
  <2> HIDE DEF c
  <2>4. QED
    BY <1>1, <2>1, <2>2, <2>3, RenewsTyped
<1>5. CASE Client!Export
  BY <1>5 DEF Client!Export, Client!GatewaySideIdle
<1>6. CASE \E x \in Conditions \cup {Baseline}, supported \in BOOLEAN :
             (x = Baseline => supported) /\ Client!SelectCondition(x, supported)
  BY <1>3, <1>6 DEF Client!SelectCondition
<1>7. CASE \E supported \in BOOLEAN : (cond = Baseline => supported) /\ Client!LoadScenario(supported)
  BY <1>1, <1>3, <1>7 DEF Client!LoadScenario
<1>8. CASE Client!Reset
  BY <1>4, <1>8
<1>9. QED
  BY <1>5, <1>6, <1>7, <1>8 DEF Client!Operator

-----------------------------------------------------------------------------
(* What the gateway does                                                   *)

LEMMA BookMade ==
  /\ Server!NewBook \in BookSet /\ Accounts(Server!NewBook, <<>>)
  /\ \A q \in Ids : Server!NewBook.results[q] = None
BY NumberAssumption DEF Server!NewBook, BookSet, Accounts, Ids

Replies == {"response", "failure", "unusable"}

\* What a book says once a request got its reply.
Answering(book, q, reply) == [book EXCEPT !.results[q] = reply]

LEMMA BookAnswers ==
  ASSUME NEW b \in BookSet, NEW s \in Seq(Ids), Accounts(b, s), NEW q \in Ids, NEW reply,
         reply \in Replies
  PROVE  /\ Answering(b, q, reply) \in BookSet
         /\ Answering(b, q, reply).results[q] = reply
         /\ \A x \in Ids \ {q} : Answering(b, q, reply).results[x] = b.results[x]
         /\ Accounts(Answering(b, q, reply), s)
<1> DEFINE c == Answering(b, q, reply)
<1>1. /\ c \in BookSet /\ c.calls = b.calls /\ c.results[q] = reply
      /\ \A x \in Ids \ {q} : c.results[x] = b.results[x]
  BY DEF BookSet, Answering, Replies
<1>2. /\ \A i \in DOMAIN s : s[i] \in Ids
      /\ reply # None
  BY NoneAssumption DEF Replies
<1> HIDE DEF c
<1>3. Accounts(c, s)
  BY <1>1, <1>2 DEF Accounts
<1>4. QED
  BY <1>1, <1>3 DEF c

LEMMA BookOpens ==
  ASSUME NEW b \in BookSet, NEW s \in Seq(Ids), Accounts(b, s), NEW q \in Ids,
         b.results[q] = None, b.calls < MaxCallsPerRun
  PROVE  /\ Server!Opened(b, q) \in BookSet
         /\ Server!Opened(b, q).results[q] = "open"
         /\ \A x \in Ids \ {q} : Server!Opened(b, q).results[x] = b.results[x]
         /\ Accounts(Server!Opened(b, q), Append(s, q)) /\ Append(s, q) \in Seq(Ids)
<1> DEFINE c == Server!Opened(b, q)
<1>1. /\ c = [b EXCEPT !.calls = @ + 1, !.results[q] = "open"]
      /\ b.calls \in Nat /\ b.calls + 1 \in 0..MaxCallsPerRun
  BY NumberAssumption DEF Server!Opened, BookSet
<1>2. /\ c \in BookSet /\ c.calls = b.calls + 1 /\ c.results[q] = "open"
      /\ \A x \in Ids \ {q} : c.results[x] = b.results[x]
  <2> DEFINE n == b.calls + 1
  <2> DEFINE f == [b.results EXCEPT ![q] = "open"]
  <2>1. f \in [Ids -> {None, "open", "response", "failure", "unusable"}]
        /\ f[q] = "open" /\ \A x \in Ids \ {q} : f[x] = b.results[x]
    BY DEF BookSet
  <2>2. c = [calls |-> n, results |-> f]
    BY <1>1 DEF BookSet
  <2> HIDE DEF n, f, c
  <2>3. c \in BookSet /\ c.calls = n /\ c.results = f
    BY <1>1, <2>1, <2>2 DEF BookSet, n
  <2>4. QED
    BY <2>1, <2>3 DEF n
<1>3. /\ \A i \in DOMAIN s : s[i] \in Ids /\ s[i] # q
      /\ "open" # None
  BY NoneAssumption DEF Accounts
<1> DEFINE t == Append(s, q)
<1>4. /\ t \in Seq(Ids) /\ Len(t) = Len(s) + 1 /\ DOMAIN t = 1..Len(s) + 1 /\ DOMAIN s = 1..Len(s)
      /\ t[Len(s) + 1] = q /\ \A i \in DOMAIN s : t[i] = s[i]
      /\ Len(s) \in Nat
  OBVIOUS
<1> HIDE DEF c, t
<1>5. Accounts(c, t)
  <2>1. Len(t) = c.calls
    BY <1>2, <1>4 DEF Accounts
  <2>2. \A i \in DOMAIN t : c.results[t[i]] # None
    BY <1>2, <1>3, <1>4 DEF Accounts
  <2>3. \A i \in DOMAIN t : \A j \in 1..i - 1 : t[j] # t[i]
    BY <1>3, <1>4 DEF Accounts
  <2>4. QED
    BY <2>1, <2>2, <2>3 DEF Accounts
<1>6. QED
  BY <1>2, <1>4, <1>5 DEF c, t

LEMMA Remembering ==
  ASSUME GatewayTyped, NEW r \in Runs, Server!Remember(r)
  PROVE  remembered' \in Seq(Runs) /\ Len(remembered') <= MaxBooks
<1> DEFINE keys == Server!Keys(r)
<1>1. remembered \in Seq(Runs) /\ Len(remembered) <= MaxBooks /\ Len(remembered) \in Nat
      /\ MaxBooks \in Nat \ {0}
  BY NumberAssumption DEF GatewayTyped
<1>2. CASE keys = remembered
  <2>1. remembered' = remembered
    BY <1>1, <1>2 DEF Server!Remember, Server!Evicted
  <2>2. QED
    BY <1>1, <2>1
<1>3. CASE keys # remembered
  <2>1. keys = Append(remembered, r) /\ \A i \in DOMAIN remembered : remembered[i] # r
    BY <1>3 DEF Server!Keys
  <2>2. /\ keys \in Seq(Runs) /\ Len(keys) = Len(remembered) + 1 /\ keys # <<>>
        /\ Len(remembered) > 0 => Head(keys) = remembered[1] /\ 1 \in DOMAIN remembered
    BY <1>1, <2>1
  <2> HIDE DEF keys
  <2>3. CASE Len(keys) <= MaxBooks
    <3>1. remembered' = keys
      BY <1>1, <2>2, <2>3 DEF Server!Remember, Server!Evicted, keys
    <3>2. QED
      BY <2>2, <2>3, <3>1
  <2>4. CASE Len(keys) > MaxBooks
    <3>1. Head(keys) # r
      BY <1>1, <2>1, <2>2, <2>4
    <3>2. remembered' = Tail(keys)
      BY <2>4, <3>1 DEF Server!Remember, Server!Evicted, keys
    <3>3. QED
      BY <1>1, <2>2, <3>2
  <2>5. QED
    BY <1>1, <2>2, <2>3, <2>4
<1>4. QED
  BY <1>2, <1>3

LEMMA EvictsOthers ==
  ASSUME NEW r
  PROVE  r \notin Server!Evicted(r)
BY DEF Server!Evicted

\* Dispatches that lose their book are no more than there were.
LEMMA Orphaning ==
  ASSUME GatewayTyped, NEW r \in Runs
  PROVE  /\ Server!Orphaned(r) \subseteq Dispatches /\ IsFiniteSet(Server!Orphaned(r))
         /\ Cardinality(Server!Orphaned(r)) <= Cardinality(adapter)
         /\ Cardinality(Server!Orphaned(r)) \in Nat /\ Cardinality(adapter) \in Nat
<1> DEFINE T == Server!Orphaned(r)
<1> DEFINE f == [d \in adapter |-> [d EXCEPT !.kept = @ /\ d.run \notin Server!Evicted(r)]]
<1>1. adapter \subseteq Dispatches /\ IsFiniteSet(adapter)
  BY DEF GatewayTyped
<1>2. T = {f[d] : d \in adapter}
  BY DEF Server!Orphaned
<1>3. f \in Surjection(adapter, T)
  BY <1>2 DEF Surjection
<1>4. IsFiniteSet(T) /\ Cardinality(T) <= Cardinality(adapter)
  BY <1>1, <1>3, FS_Surjection
<1>5. T \subseteq Dispatches
  BY <1>1 DEF Server!Orphaned, Dispatches
<1>6. QED
  BY <1>1, <1>4, <1>5, FS_CardinalityType

ServedInv == GatewayTyped /\ BooksInv /\ (\A m \in wire : Told(rows, m)) /\ \A r \in Runs : Known(rows, r, books[r])

RowSet == [run : Runs, req : Ids, outcome : {"response", "failure"}]

LEMMA WireChanges ==
  ASSUME wire \subseteq Posts, \A x \in wire : Told(rows, x), NEW m \in wire, rows \subseteq rows',
         NEW s \in {"sent", "held", "response", "failure", "unusable"}, NEW again \in BOOLEAN,
         s \in {"response", "failure"} => Server!Row(m.run, m.req, s) \in rows',
         wire' \subseteq (wire \ {m}) \cup {[m EXCEPT !.state = s], [m EXCEPT !.state = s, !.again = again]}
  PROVE  wire' \subseteq Posts /\ \A x \in wire' : Told(rows', x)
<1> DEFINE a == [m EXCEPT !.state = s]
<1> DEFINE b == [m EXCEPT !.state = s, !.again = again]
<1>1. /\ a \in Posts /\ a.run = m.run /\ a.req = m.req /\ a.state = s
      /\ b \in Posts /\ b.run = m.run /\ b.req = m.req /\ b.state = s
  BY DEF Posts
<1> HIDE DEF a, b
<1>2. wire' \subseteq (wire \ {m}) \cup {a, b}
  BY DEF a, b
<1>3. \A x \in wire : Told(rows', x)
  BY DEF Told
<1>4. Told(rows', a) /\ Told(rows', b)
  BY <1>1 DEF Told, Server!Row
<1>5. QED
  BY <1>1, <1>2, <1>3, <1>4

LEMMA Replying ==
  ASSUME wire \subseteq Posts, \A x \in wire : Told(rows, x), NEW m \in wire, rows \subseteq rows',
         NEW s \in {"response", "failure", "unusable"},
         s \in {"response", "failure"} => Server!Row(m.run, m.req, s) \in rows',
         wire' = Server!Reply(m, s)
  PROVE  wire' \subseteq Posts /\ \A x \in wire' : Told(rows', x)
<1>1. wire' \subseteq (wire \ {m}) \cup {[m EXCEPT !.state = s], [m EXCEPT !.state = s, !.again = TRUE]}
  BY DEF Server!Reply
<1>2. QED
  BY <1>1, WireChanges

LEMMA HoldingOn ==
  ASSUME wire \subseteq Posts, \A x \in wire : Told(rows, x), NEW m \in wire, rows \subseteq rows',
         wire' = Server!Hold(m)
  PROVE  wire' \subseteq Posts /\ \A x \in wire' : Told(rows', x)
<1>1. wire' \subseteq (wire \ {m}) \cup {[m EXCEPT !.state = "held"], [m EXCEPT !.state = "held", !.again = TRUE]}
  BY DEF Server!Hold
<1>2. QED
  BY <1>1, WireChanges

\* Books of one step: one of them is written, some are forgotten.
LEMMA BooksWritten ==
  ASSUME GatewayTyped, BooksInv, \A x \in Runs : Known(rows, x, books[x]), rows \subseteq rows',
         NEW r \in Runs, NEW gone, r \notin gone, NEW b \in BookSet, NEW s \in Seq(Ids),
         Accounts(b, s), Known(rows', r, b),
         books' = Server!Forget([books EXCEPT ![r] = b], gone, Server!NewBook),
         spent' = Server!Forget([spent EXCEPT ![r] = s], gone, <<>>)
  PROVE  /\ books' \in [Runs -> BookSet] /\ spent' \in [Runs -> Seq(Ids)]
         /\ BooksInv' /\ \A x \in Runs : Known(rows', x, books'[x])
<1>1. books \in [Runs -> BookSet] /\ spent \in [Runs -> Seq(Ids)]
  BY DEF GatewayTyped
<1>2. /\ DOMAIN books' = Runs /\ DOMAIN spent' = Runs
      /\ books' = [x \in Runs |-> books'[x]] /\ spent' = [x \in Runs |-> spent'[x]]
      /\ \A x \in Runs :
           /\ books'[x] = IF x \in gone THEN Server!NewBook ELSE IF x = r THEN b ELSE books[x]
           /\ spent'[x] = IF x \in gone THEN <<>> ELSE IF x = r THEN s ELSE spent[x]
  BY <1>1 DEF Server!Forget
<1>3. ASSUME NEW x \in Runs
      PROVE  /\ books'[x] \in BookSet /\ spent'[x] \in Seq(Ids)
             /\ Accounts(books'[x], spent'[x]) /\ Known(rows', x, books'[x])
  <2>1. CASE x \in gone
    <3>1. books'[x] = Server!NewBook /\ spent'[x] = <<>>
      BY <1>2, <2>1
    <3>2. Known(rows', x, Server!NewBook)
      BY BookMade, NoneAssumption DEF Known
    <3>3. <<>> \in Seq(Ids)
      OBVIOUS
    <3>4. QED
      BY <3>1, <3>2, <3>3, BookMade
  <2>2. CASE x \notin gone /\ x = r
    BY <1>2, <2>2 DEF Known
  <2>3. CASE x \notin gone /\ x # r
    <3>1. books'[x] = books[x] /\ spent'[x] = spent[x]
      BY <1>2, <2>3
    <3>2. Known(rows, x, books[x]) /\ books[x] \in BookSet /\ spent[x] \in Seq(Ids) /\ Accounts(books[x], spent[x])
      BY <1>1 DEF BooksInv
    <3>3. QED
      BY <3>1, <3>2 DEF Known
  <2>4. QED
    BY <2>1, <2>2, <2>3
<1>4. QED
  BY <1>2, <1>3 DEF BooksInv

LEMMA RefuseStep ==
  ASSUME ServedInv, NEW m \in wire, NEW reply \in {"failure", "unusable"}, Server!Refuse(m, reply),
         rows' \subseteq RowSet, rows \subseteq rows', adapter' = Server!Orphaned(m.run),
         UNCHANGED <<up, served>>, Server!Remember(m.run),
         reply = "failure" => Server!Row(m.run, m.req, reply) \in rows'
  PROVE  ServedInv'
<1>1. /\ GatewayTyped /\ BooksInv /\ wire \subseteq Posts
      /\ books \in [Runs -> BookSet] /\ spent \in [Runs -> Seq(Ids)]
      /\ m.run \in Runs /\ m.req \in Ids
  BY DEF ServedInv, GatewayTyped, Posts
<1> DEFINE b == Answering(books[m.run], m.req, reply)
<1>2. /\ books' = Server!Forget([books EXCEPT ![m.run] = b], Server!Evicted(m.run), Server!NewBook)
      /\ spent' = Server!Forget([spent EXCEPT ![m.run] = spent[m.run]], Server!Evicted(m.run), <<>>)
      /\ wire' = Server!Reply(m, reply) /\ total' = total
  BY <1>1 DEF Server!Refuse, Answering
<1>3. /\ b \in BookSet /\ Accounts(b, spent[m.run]) /\ b.results[m.req] = reply
      /\ \A x \in Ids \ {m.req} : b.results[x] = books[m.run].results[x]
  <2>1. books[m.run] \in BookSet /\ spent[m.run] \in Seq(Ids) /\ Accounts(books[m.run], spent[m.run])
    BY <1>1 DEF BooksInv
  <2>2. m.req \in Ids /\ reply \in Replies
    BY <1>1 DEF Replies
  <2> HIDE DEF b
  <2>3. /\ Answering(books[m.run], m.req, reply) \in BookSet
        /\ Answering(books[m.run], m.req, reply).results[m.req] = reply
        /\ \A x \in Ids \ {m.req} :
             Answering(books[m.run], m.req, reply).results[x] = books[m.run].results[x]
        /\ Accounts(Answering(books[m.run], m.req, reply), spent[m.run])
    <3> DEFINE k == books[m.run]
    <3> DEFINE s == spent[m.run]
    <3> DEFINE q == m.req
    <3>1. k \in BookSet /\ s \in Seq(Ids) /\ Accounts(k, s) /\ q \in Ids
      BY <2>1, <2>2
    <3> HIDE DEF k, s, q
    <3>2. /\ Answering(k, q, reply) \in BookSet
          /\ Answering(k, q, reply).results[q] = reply
          /\ \A x \in Ids \ {q} : Answering(k, q, reply).results[x] = k.results[x]
          /\ Accounts(Answering(k, q, reply), s)
      BY <2>2, <3>1, BookAnswers
    <3>3. QED
      BY <3>2 DEF k, s, q
  <2>4. QED
    BY <2>3 DEF b
<1> HIDE DEF b
<1>4. Known(rows', m.run, b)
  BY <1>1, <1>3 DEF Known, ServedInv
<1>5. /\ books' \in [Runs -> BookSet] /\ spent' \in [Runs -> Seq(Ids)]
      /\ BooksInv' /\ \A x \in Runs : Known(rows', x, books'[x])
  BY <1>1, <1>2, <1>3, <1>4, EvictsOthers, BooksWritten DEF ServedInv
<1>6. wire' \subseteq Posts /\ \A x \in wire' : Told(rows', x)
  BY <1>1, <1>2, Replying DEF ServedInv
<1>7. /\ remembered' \in Seq(Runs) /\ Len(remembered') <= MaxBooks
      /\ adapter' \subseteq Dispatches /\ IsFiniteSet(adapter') /\ Cardinality(adapter') <= MaxConcurrency
  <2>1. Cardinality(adapter) <= MaxConcurrency /\ MaxConcurrency \in Nat
    BY <1>1, NumberAssumption DEF GatewayTyped
  <2>2. QED
    BY <1>1, <2>1, Remembering, Orphaning
<1>8. QED
  BY <1>1, <1>2, <1>5, <1>6, <1>7 DEF ServedInv, GatewayTyped, RowSet

LEMMA CallStep ==
  ASSUME ServedInv, NEW m \in wire, Server!Call(m), ~Server!Exhausted(m.run),
         UNCHANGED <<up, served>>, Server!Remember(m.run), books[m.run].results[m.req] = None
  PROVE  ServedInv'
<1>1. /\ GatewayTyped /\ BooksInv /\ wire \subseteq Posts
      /\ books \in [Runs -> BookSet] /\ spent \in [Runs -> Seq(Ids)]
      /\ m.run \in Runs /\ m.req \in Ids
  BY DEF ServedInv, GatewayTyped, Posts
<1>2. /\ books[m.run].calls < MaxCallsPerRun /\ total + 1 \in 0..MaxTotalCalls
      /\ Cardinality(adapter) < MaxConcurrency
  <2>1. ~(books[m.run].calls >= MaxCallsPerRun) /\ ~(total >= MaxTotalCalls)
        /\ ~(Cardinality(adapter) >= MaxConcurrency)
    BY DEF Server!Exhausted, Server!Cardinality, Cardinality
  <2>2. books[m.run].calls \in Nat /\ total \in 0..MaxTotalCalls /\ Cardinality(adapter) \in Nat
    BY <1>1, Orphaning DEF BookSet, GatewayTyped
  <2>3. QED
    BY <2>1, <2>2, NumberAssumption
<1> DEFINE b == Server!Opened(books[m.run], m.req)
<1> DEFINE s == Append(spent[m.run], m.req)
<1>3. /\ books' = Server!Forget([books EXCEPT ![m.run] = b], Server!Evicted(m.run), Server!NewBook)
      /\ spent' = Server!Forget([spent EXCEPT ![m.run] = s], Server!Evicted(m.run), <<>>)
      /\ wire' = Server!Hold(m) /\ total' = total + 1 /\ rows' = rows
      /\ adapter' = Server!Orphaned(m.run) \cup {[run |-> m.run, req |-> m.req, kept |-> TRUE]}
  BY DEF Server!Call
<1>4. /\ b \in BookSet /\ Accounts(b, s) /\ b.results[m.req] = "open" /\ s \in Seq(Ids)
      /\ \A x \in Ids \ {m.req} : b.results[x] = books[m.run].results[x]
  <2>1. books[m.run] \in BookSet /\ spent[m.run] \in Seq(Ids) /\ Accounts(books[m.run], spent[m.run])
    BY <1>1 DEF BooksInv
  <2>2. QED
    BY <1>1, <1>2, <2>1, BookOpens
<1> HIDE DEF b, s
<1>5. Known(rows', m.run, b)
  <2>1. Known(rows, m.run, books[m.run])
    BY <1>1 DEF ServedInv
  <2>2. QED
    BY <1>3, <1>4, <2>1 DEF Known
<1>6. /\ books' \in [Runs -> BookSet] /\ spent' \in [Runs -> Seq(Ids)]
      /\ BooksInv' /\ \A x \in Runs : Known(rows', x, books'[x])
  BY <1>1, <1>3, <1>4, <1>5, EvictsOthers, BooksWritten DEF ServedInv
<1>7. wire' \subseteq Posts /\ \A x \in wire' : Told(rows', x)
  BY <1>1, <1>3, HoldingOn DEF ServedInv
<1>8. adapter' \subseteq Dispatches /\ IsFiniteSet(adapter') /\ Cardinality(adapter') <= MaxConcurrency
  <2> DEFINE d == [run |-> m.run, req |-> m.req, kept |-> TRUE]
  <2>1. d \in Dispatches
    BY <1>1 DEF Dispatches
  <2> HIDE DEF d
  <2>2. /\ Server!Orphaned(m.run) \subseteq Dispatches /\ IsFiniteSet(Server!Orphaned(m.run))
        /\ Cardinality(Server!Orphaned(m.run)) <= Cardinality(adapter)
        /\ Cardinality(Server!Orphaned(m.run)) \in Nat /\ Cardinality(adapter) \in Nat
    BY <1>1, Orphaning
  <2>3. /\ IsFiniteSet(Server!Orphaned(m.run) \cup {d})
        /\ Cardinality(Server!Orphaned(m.run) \cup {d}) <= Cardinality(Server!Orphaned(m.run)) + 1
    <3> DEFINE S == Server!Orphaned(m.run)
    <3>1. IsFiniteSet(S) /\ Cardinality(S) \in Nat
      BY <2>2
    <3> HIDE DEF S
    <3>2. /\ IsFiniteSet(S \cup {d})
          /\ Cardinality(S \cup {d}) = IF d \in S THEN Cardinality(S) ELSE Cardinality(S) + 1
      BY <3>1, FS_AddElement
    <3>3. Cardinality(S \cup {d}) <= Cardinality(S) + 1
      BY <3>1, <3>2
    <3>4. QED
      BY <3>2, <3>3 DEF S
  <2>4. adapter' = Server!Orphaned(m.run) \cup {d}
    BY <1>3 DEF d
  <2>5. Cardinality(adapter') \in Nat
    BY <2>3, <2>4, FS_CardinalityType
  <2>6. QED
    BY <1>2, <2>1, <2>2, <2>3, <2>4, <2>5, NumberAssumption
<1>9. remembered' \in Seq(Runs) /\ Len(remembered') <= MaxBooks
  BY <1>1, Remembering
<1>10. QED
  BY <1>1, <1>2, <1>3, <1>6, <1>7, <1>8, <1>9 DEF ServedInv, GatewayTyped

LEMMA ReceiveStep ==
  ASSUME ServedInv, NEW m \in wire, Server!Receive(m)
  PROVE  ServedInv' /\ rows \subseteq rows'
<1>1. /\ GatewayTyped /\ BooksInv /\ wire \subseteq Posts
      /\ books \in [Runs -> BookSet] /\ m.run \in Runs /\ m.req \in Ids /\ rows \subseteq RowSet
      /\ \A x \in wire : Told(rows, x)
  BY DEF ServedInv, GatewayTyped, Posts, RowSet
<1>2. UNCHANGED <<up, served>>
  BY DEF Server!Receive
<1>3. ASSUME NEW s \in {"response", "failure", "unusable"}, wire' = Server!Reply(m, s),
             s \in {"response", "failure"} => Server!Row(m.run, m.req, s) \in rows,
             UNCHANGED <<books, total, adapter, rows, spent>>,
             Server!Remember(m.run) \/ UNCHANGED remembered
      PROVE  ServedInv' /\ rows \subseteq rows'
  <2>1. wire' \subseteq Posts /\ \A x \in wire' : Told(rows', x)
    BY <1>1, <1>3, Replying
  <2>2. remembered' \in Seq(Runs) /\ Len(remembered') <= MaxBooks
    BY <1>1, <1>3, Remembering DEF GatewayTyped
  <2>3. QED
    BY <1>1, <1>2, <1>3, <2>1, <2>2 DEF ServedInv, GatewayTyped, BooksInv
<1>4. CASE m.cond # served
  <2>1. wire' = Server!Reply(m, "unusable") /\ UNCHANGED <<remembered, books, total, adapter, rows, spent>>
    BY <1>4 DEF Server!Receive
  <2>2. QED
    BY <1>3, <2>1
<1>5. CASE m.cond = served /\ books[m.run].results[m.req] # None
  <2> DEFINE prior == books[m.run].results[m.req]
  <2>1. /\ Server!Remember(m.run) /\ UNCHANGED <<books, total, adapter, rows, spent>>
        /\ wire' = IF prior = "open" THEN Server!Hold(m) ELSE Server!Reply(m, prior)
    BY <1>5 DEF Server!Receive
  <2>2. prior \in {"open", "response", "failure", "unusable"}
    BY <1>1, <1>5 DEF BookSet
  <2>3. CASE prior = "open"
    <3>1. wire' \subseteq Posts /\ \A x \in wire' : Told(rows', x)
      BY <1>1, <2>1, <2>3, HoldingOn
    <3>2. remembered' \in Seq(Runs) /\ Len(remembered') <= MaxBooks
      BY <1>1, <2>1, Remembering
    <3>3. QED
      BY <1>1, <1>2, <2>1, <3>1, <3>2 DEF ServedInv, GatewayTyped, BooksInv
  <2>4. CASE prior # "open"
    <3>1. prior \in {"response", "failure"} => Server!Row(m.run, m.req, prior) \in rows
      BY <1>1 DEF ServedInv, Known
    <3>2. prior \in {"response", "failure", "unusable"} /\ wire' = Server!Reply(m, prior)
      BY <2>1, <2>2, <2>4
    <3> HIDE DEF prior
    <3>3. QED
      BY <1>3, <2>1, <3>1, <3>2
  <2>5. QED
    BY <2>3, <2>4
<1>6. CASE m.cond = served /\ books[m.run].results[m.req] = None
  <2>1. Server!Remember(m.run) /\ Server!Dispatch(m)
    BY <1>6 DEF Server!Receive
  <2>2. CASE ~Server!Exhausted(m.run) /\ Server!Call(m)
    BY <1>2, <1>6, <2>1, <2>2, CallStep DEF Server!Call
  <2>3. CASE /\ Server!Refuse(m, "failure") /\ adapter' = Server!Orphaned(m.run)
             /\ rows' = rows \cup {Server!Row(m.run, m.req, "failure")}
    <3>1. Server!Row(m.run, m.req, "failure") \in RowSet
      BY <1>1 DEF Server!Row, RowSet
    <3>2. rows' \subseteq RowSet /\ rows \subseteq rows' /\ Server!Row(m.run, m.req, "failure") \in rows'
      BY <1>1, <2>3, <3>1
    <3>3. QED
      BY <1>2, <2>1, <2>3, <3>2, RefuseStep
  <2>4. CASE Server!Refuse(m, "unusable") /\ adapter' = Server!Orphaned(m.run) /\ UNCHANGED rows
    <3>1. rows' \subseteq RowSet /\ rows \subseteq rows'
      BY <1>1, <2>4
    <3>2. QED
      BY <1>2, <2>1, <2>4, <3>1, RefuseStep
  <2>5. QED
    BY <2>1, <2>2, <2>3, <2>4 DEF Server!Dispatch
<1>7. QED
  BY <1>4, <1>5, <1>6

LEMMA ResendStep ==
  ASSUME ServedInv, NEW m \in wire, Server!Resend(m)
  PROVE  ServedInv' /\ rows \subseteq rows'
<1>1. /\ UNCHANGED <<up, served, remembered, books, total, adapter, rows, starts, spent>>
      /\ wire' = (wire \ {m}) \cup {[m EXCEPT !.state = "sent", !.again = TRUE]}
  BY DEF Server!Resend, Server!Idle
<1>2. wire' \subseteq Posts /\ \A x \in wire' : Told(rows', x)
  BY <1>1, WireChanges DEF ServedInv, GatewayTyped
<1>3. QED
  BY <1>1, <1>2 DEF ServedInv, GatewayTyped, BooksInv

LEMMA ReturnStep ==
  ASSUME ServedInv, NEW d \in adapter, NEW a \in Server!Answers, Server!AdapterReturns(d, a)
  PROVE  ServedInv' /\ rows \subseteq rows'
<1>1. /\ a.reply \in {"response", "failure", "unusable"} /\ a.rows \subseteq {"response", "failure"}
      /\ a.reply # "unusable" => a.reply \in a.rows
  BY DEF Server!Answers, Server!Faults, Server!Results
<1>2. /\ GatewayTyped /\ BooksInv /\ wire \subseteq Posts /\ IsFiniteSet(adapter)
      /\ books \in [Runs -> BookSet] /\ spent \in [Runs -> Seq(Ids)]
      /\ d.run \in Runs /\ d.req \in Ids /\ adapter \subseteq Dispatches /\ rows \subseteq RowSet
      /\ \A x \in wire : Told(rows, x)
  BY DEF ServedInv, GatewayTyped, Dispatches, RowSet
<1>3. /\ adapter' = adapter \ {d} /\ books' = Server!Closed(d, a.reply)
      /\ rows' = rows \cup {Server!Row(d.run, d.req, o) : o \in a.rows}
      /\ UNCHANGED <<up, served, remembered, total, spent>>
  BY DEF Server!AdapterReturns
<1>4. /\ rows \subseteq rows' /\ rows' \subseteq RowSet
      /\ a.reply \in {"response", "failure"} => Server!Row(d.run, d.req, a.reply) \in rows'
  BY <1>1, <1>2, <1>3 DEF Server!Row, RowSet
<1>5. adapter' \subseteq Dispatches /\ IsFiniteSet(adapter') /\ Cardinality(adapter') <= MaxConcurrency
  <2>1. /\ IsFiniteSet(adapter') /\ Cardinality(adapter') <= Cardinality(adapter)
        /\ Cardinality(adapter') \in Nat /\ Cardinality(adapter) \in Nat
    BY <1>2, <1>3, FS_Subset, FS_CardinalityType
  <2>2. Cardinality(adapter) <= MaxConcurrency
    BY <1>2 DEF GatewayTyped
  <2>3. QED
    BY <1>2, <1>3, <2>1, <2>2, NumberAssumption
<1>6. /\ books' \in [Runs -> BookSet] /\ BooksInv' /\ \A x \in Runs : Known(rows', x, books'[x])
  <2>1. CASE ~d.kept
    BY <1>2, <1>3, <1>4, <2>1 DEF Server!Closed, BooksInv, Known, ServedInv
  <2>2. CASE d.kept
    <3> DEFINE b == Answering(books[d.run], d.req, a.reply)
    <3>1. /\ books[d.run] \in BookSet /\ spent[d.run] \in Seq(Ids)
          /\ Accounts(books[d.run], spent[d.run]) /\ Known(rows, d.run, books[d.run])
      BY <1>2 DEF BooksInv, ServedInv
    <3>2. /\ b \in BookSet /\ Accounts(b, spent[d.run]) /\ b.results[d.req] = a.reply
          /\ \A x \in Ids \ {d.req} : b.results[x] = books[d.run].results[x]
      <4> DEFINE k == books[d.run]
      <4> DEFINE s == spent[d.run]
      <4> DEFINE q == d.req
      <4> DEFINE reply == a.reply
      <4>1. /\ k \in BookSet /\ s \in Seq(Ids) /\ Accounts(k, s) /\ q \in Ids
            /\ reply \in Replies
        BY <1>1, <1>2, <3>1 DEF Replies
      <4> HIDE DEF k, s, q, reply
      <4>2. /\ Answering(k, q, reply) \in BookSet
            /\ Answering(k, q, reply).results[q] = reply
            /\ \A x \in Ids \ {q} : Answering(k, q, reply).results[x] = k.results[x]
            /\ Accounts(Answering(k, q, reply), s)
        BY <4>1, BookAnswers
      <4>3. QED
        BY <4>2 DEF k, s, q, reply
    <3>3. books' = [books EXCEPT ![d.run] = b]
      BY <1>2, <1>3, <2>2 DEF Server!Closed, Answering
    <3> HIDE DEF b
    <3>4. Known(rows', d.run, b)
      BY <1>4, <3>1, <3>2 DEF Known
    <3>5. books' \in [Runs -> BookSet]
      BY <1>2, <3>2, <3>3
    <3>6. ASSUME NEW x \in Runs PROVE Accounts(books'[x], spent'[x]) /\ Known(rows', x, books'[x])
      <4>1. CASE x = d.run
        BY <1>2, <1>3, <3>2, <3>3, <3>4, <4>1
      <4>2. CASE x # d.run
        BY <1>2, <1>3, <1>4, <3>3, <4>2 DEF BooksInv, ServedInv, Known
      <4>3. QED
        BY <4>1, <4>2
    <3>7. QED
      BY <3>5, <3>6 DEF BooksInv
  <2>3. QED
    BY <2>1, <2>2
<1>7. wire' \subseteq Posts /\ \A x \in wire' : Told(rows', x)
  <2> DEFINE Waits(x) == x.run = d.run /\ x.req = d.req /\ x.state = "held"
  <2>1. ASSUME NEW y \in wire'
        PROVE  \E x \in wire : y = IF Waits(x) THEN [x EXCEPT !.state = a.reply] ELSE x
    BY <2>1 DEF Server!AdapterReturns
  <2>2. ASSUME NEW y \in wire' PROVE y \in Posts /\ Told(rows', y)
    <3>1. PICK x \in wire : y = IF Waits(x) THEN [x EXCEPT !.state = a.reply] ELSE x
      BY <2>1, <2>2
    <3>2. x \in Posts /\ Told(rows, x)
      BY <1>2
    <3>3. CASE Waits(x)
      <4>1. /\ y \in Posts /\ y.run = d.run /\ y.req = d.req /\ y.state = a.reply
        BY <1>1, <3>1, <3>2, <3>3 DEF Posts
      <4>2. QED
        BY <1>4, <4>1 DEF Told
    <3>4. CASE ~Waits(x)
      <4>1. y = x
        BY <3>1, <3>4
      <4>2. QED
        BY <1>4, <3>2, <4>1 DEF Told
    <3>5. QED
      BY <3>3, <3>4
  <2>3. QED
    BY <2>2
<1>8. QED
  BY <1>2, <1>3, <1>4, <1>5, <1>6, <1>7 DEF ServedInv, GatewayTyped, RowSet

LEMMA StopStep ==
  ASSUME ServedInv, Server!Stop
  PROVE  ServedInv' /\ rows \subseteq rows'
<1>1. /\ up' = FALSE /\ remembered' = <<>> /\ books' = [r \in Runs |-> Server!NewBook] /\ total' = 0
      /\ adapter' = {} /\ spent' = [r \in Runs |-> <<>>] /\ wire' = {} /\ UNCHANGED <<served, rows>>
  BY DEF Server!Stop
<1>2. /\ remembered' \in Seq(Runs) /\ Len(remembered') = 0 /\ <<>> \in Seq(Ids)
  BY <1>1
<1>3. IsFiniteSet(adapter') /\ Cardinality(adapter') = 0
  BY <1>1, FS_EmptySet
<1>4. books' \in [Runs -> BookSet] /\ spent' \in [Runs -> Seq(Ids)]
  BY <1>1, <1>2, BookMade
<1>5. BooksInv' /\ \A r \in Runs : Known(rows', r, books'[r])
  BY <1>1, BookMade, NoneAssumption DEF BooksInv, Known
<1>6. /\ up' \in BOOLEAN /\ served' \in Conditions
      /\ total' \in 0..MaxTotalCalls /\ adapter' \subseteq Dispatches
      /\ wire' \subseteq Posts /\ \A m \in wire' : Told(rows', m)
  <2>1. served \in Conditions /\ MaxTotalCalls \in Nat
    BY NumberAssumption DEF ServedInv, GatewayTyped
  <2>2. QED
    <3>1. total' \in 0..MaxTotalCalls
      BY <1>1, <2>1
    <3>2. adapter' \subseteq Dispatches /\ wire' \subseteq Posts /\ \A m \in wire' : Told(rows', m)
      BY <1>1
    <3>3. QED
      BY <1>1, <2>1, <3>1, <3>2
<1>7. Len(remembered') <= MaxBooks /\ Cardinality(adapter') <= MaxConcurrency
  <2>1. MaxBooks \in Nat /\ MaxConcurrency \in Nat
    BY NumberAssumption
  <2>2. QED
    BY <1>2, <1>3, <2>1
<1>8. GatewayTyped'
  BY <1>1, <1>2, <1>3, <1>4, <1>6, <1>7 DEF ServedInv, GatewayTyped
<1>9. QED
  BY <1>1, <1>5, <1>6, <1>8 DEF ServedInv

LEMMA ServedStep ==
  ASSUME ServedInv, Server!Gateway
  PROVE  ServedInv' /\ rows \subseteq rows'
<1>1. ASSUME NEW c \in Conditions, Server!Start(c) PROVE ServedInv' /\ rows \subseteq rows'
  <2>1. /\ up' = TRUE /\ served' = c /\ wire' = {}
        /\ UNCHANGED <<remembered, books, total, adapter, rows, spent>>
    BY <1>1 DEF Server!Start
  <2>2. QED
    BY <1>1, <2>1 DEF ServedInv, GatewayTyped, BooksInv
<1>2. QED
  BY <1>1, ReceiveStep, ResendStep, ReturnStep, StopStep DEF Server!Gateway

-----------------------------------------------------------------------------
(* The two channels keep their order                                       *)

LEMMA CommandHandled ==
  ASSUME NEW cs \in Seq(Commands), NEW r, AnswersFirst(cs, r), cs # <<>>
  PROVE  /\ AnswersFirst(Tail(cs), r)
         /\ Head(cs).type # "answer" => \A i \in DOMAIN cs : cs[i].type # "answer"
         /\ Head(cs).type # "answer" => \A i \in DOMAIN Tail(cs) : Tail(cs)[i].type # "answer"
         /\ \A i \in DOMAIN Tail(cs) : i + 1 \in DOMAIN cs /\ Tail(cs)[i] = cs[i + 1]
         /\ 1 \in DOMAIN cs /\ Head(cs) = cs[1]
<1>1. /\ Head(cs) = cs[1] /\ 1 \in DOMAIN cs /\ Len(cs) \in Nat /\ DOMAIN cs = 1..Len(cs)
      /\ DOMAIN Tail(cs) = 1..Len(cs) - 1 /\ Tail(cs) \in Seq(Commands)
      /\ \A i \in DOMAIN Tail(cs) : Tail(cs)[i] = cs[i + 1] /\ i + 1 \in DOMAIN cs
  BY HeadTailProperties
<1> DEFINE t == Tail(cs)
<1> HIDE DEF t
<1>2. /\ DOMAIN t = 1..Len(cs) - 1
      /\ \A i \in DOMAIN t : t[i] = cs[i + 1] /\ i + 1 \in DOMAIN cs
  BY <1>1 DEF t
<1>3. AnswersFirst(t, r)
  <2> SUFFICES ASSUME NEW i \in DOMAIN t, t[i].type = "answer"
               PROVE  t[i].run = r /\ \A j \in 1..i - 1 : t[j].type = "answer"
    BY DEF AnswersFirst
  <2>1. cs[i + 1].run = r /\ \A j \in 1..i : cs[j].type = "answer"
    BY <1>1, <1>2 DEF AnswersFirst
  <2>2. QED
    BY <1>1, <1>2, <2>1
<1>4. ASSUME cs[1].type # "answer", NEW i \in DOMAIN cs PROVE cs[i].type # "answer"
  <2>1. i = 1 \/ 1 \in 1..i - 1
    BY <1>1
  <2>2. QED
    BY <1>4, <2>1 DEF AnswersFirst
<1>5. QED
  BY <1>1, <1>2, <1>3, <1>4 DEF t

LEMMA CommandAppended ==
  ASSUME NEW cs \in Seq(Commands), NEW r, AnswersFirst(cs, r), NEW c \in Commands,
         \/ c.type # "answer"
         \/ c.run = r /\ Cardinality(Restarts(cs)) = 0
  PROVE  AnswersFirst(Append(cs, c), r)
<1>1. /\ Len(cs) \in Nat /\ DOMAIN cs = 1..Len(cs) /\ DOMAIN Append(cs, c) = 1..Len(cs) + 1
      /\ Append(cs, c)[Len(cs) + 1] = c /\ \A i \in DOMAIN cs : Append(cs, c)[i] = cs[i]
  OBVIOUS
<1>2. c.type = "answer" => c.run = r /\ \A i \in DOMAIN cs : cs[i].type = "answer"
  BY NoRestarts
<1>3. QED
  BY <1>1, <1>2 DEF AnswersFirst

LEMMA MessageHandled ==
  ASSUME NEW ms \in Seq(Messages), NEW r \in Nat, NEW n \in Nat, InOrder(ms, r, n), ms # <<>>
  PROVE  /\ InOrder(Tail(ms), r, n) /\ Tail(ms) \in Seq(Messages)
         /\ Head(ms).run <= r
         /\ Head(ms).type = "request" /\ Head(ms).run = r => Head(ms).req <= n
         /\ Head(ms).type = "request" => \A i \in DOMAIN Tail(ms) :
              Tail(ms)[i].type = "request" /\ Tail(ms)[i].run = Head(ms).run =>
                Head(ms).req < Tail(ms)[i].req
         /\ \A i \in DOMAIN Tail(ms) : i + 1 \in DOMAIN ms /\ Tail(ms)[i] = ms[i + 1]
         /\ 1 \in DOMAIN ms /\ Head(ms) = ms[1] /\ Head(ms) \in Messages
<1>1. /\ Head(ms) = ms[1] /\ 1 \in DOMAIN ms /\ Len(ms) \in Nat /\ DOMAIN ms = 1..Len(ms)
      /\ DOMAIN Tail(ms) = 1..Len(ms) - 1 /\ Tail(ms) \in Seq(Messages)
      /\ \A i \in DOMAIN Tail(ms) : Tail(ms)[i] = ms[i + 1] /\ i + 1 \in DOMAIN ms
      /\ Head(ms) \in Messages
  BY HeadTailProperties
<1> DEFINE t == Tail(ms)
<1> HIDE DEF t
<1>2. /\ DOMAIN t = 1..Len(ms) - 1
      /\ \A i \in DOMAIN t : t[i] = ms[i + 1] /\ i + 1 \in DOMAIN ms
  BY <1>1 DEF t
<1>3. InOrder(t, r, n)
  <2> SUFFICES ASSUME NEW i \in DOMAIN t
               PROVE  /\ t[i].run <= r
                      /\ t[i].type = "request" =>
                           /\ t[i].run = r => t[i].req <= n
                           /\ \A j \in 1..i - 1 :
                                t[j].type = "request" /\ t[j].run = t[i].run => t[j].req < t[i].req
    BY DEF InOrder
  <2>1. /\ ms[i + 1].run <= r
        /\ ms[i + 1].type = "request" =>
             /\ ms[i + 1].run = r => ms[i + 1].req <= n
             /\ \A j \in 1..i :
                  ms[j].type = "request" /\ ms[j].run = ms[i + 1].run => ms[j].req < ms[i + 1].req
    BY <1>1, <1>2 DEF InOrder
  <2>2. t[i] = ms[i + 1] /\ \A j \in 1..i - 1 : t[j] = ms[j + 1] /\ j + 1 \in 1..i
    BY <1>1, <1>2
  <2>3. QED
    BY <2>1, <2>2
<1>4. ms[1].type = "request" => \A i \in DOMAIN t :
              t[i].type = "request" /\ t[i].run = ms[1].run => ms[1].req < t[i].req
  BY <1>1, <1>2 DEF InOrder
<1>5. /\ ms[1].run <= r
      /\ ms[1].type = "request" /\ ms[1].run = r => ms[1].req <= n
  BY <1>1 DEF InOrder
<1>6. QED
  BY <1>1, <1>2, <1>3, <1>4, <1>5 DEF t

LEMMA MessagesPushed ==
  ASSUME WorkerTyped, WorkerTyped', NEW ms \in Seq(Messages), Pushes(ms),
         InOrder(messages, worker.runSeq, worker.issued),
         \/ worker'.runSeq = worker.runSeq + 1
         \/ worker'.runSeq = worker.runSeq /\ worker.issued <= worker'.issued
  PROVE  InOrder(messages', worker'.runSeq, worker'.issued)
<1> DEFINE k == Len(messages)
<1>1. /\ messages \in Seq(Messages) /\ k \in Nat /\ DOMAIN messages = 1..k
      /\ Len(ms) \in Nat /\ DOMAIN ms = 1..Len(ms)
      /\ DOMAIN messages' = 1..k + Len(ms)
      /\ \A i \in DOMAIN messages : messages'[i] = messages[i]
      /\ \A i \in DOMAIN messages' : i \in DOMAIN messages \/ (i - k \in DOMAIN ms /\ messages'[i] = ms[i - k])
  <2>1. messages \in Seq(Messages) /\ messages' = messages \o ms
    BY DEF WorkerTyped, Pushes
  <2>2. QED
    BY <2>1, ConcatProperties
<1>2. /\ worker.runSeq \in Nat /\ worker'.runSeq \in Nat /\ worker.issued \in Nat /\ worker'.issued \in Nat
  BY DEF WorkerTyped, Workers, Runs
<1>3. ASSUME NEW i \in DOMAIN messages
      PROVE  /\ messages[i].run \in Nat
             /\ messages[i].type = "request" => messages[i].req \in Nat
  <2>1. messages[i] \in Messages
    BY <1>1
  <2>2. \/ messages[i] \in [type : {"request"}, run : Runs, req : Ids, complete : {FALSE}]
        \/ messages[i] \in [type : {"snapshot", "run-complete"}, run : Runs, req : {None}, complete : BOOLEAN]
    BY <2>1 DEF Messages
  <2>3. messages[i].run \in Runs /\ (messages[i].type = "request" => messages[i].req \in Ids)
    BY <2>2
  <2>4. QED
    BY <2>3 DEF Runs, Ids
<1>4. \A i \in DOMAIN messages : messages[i].type = "request" => messages[i].req \in Nat
  BY <1>3
<1> HIDE DEF k
<1>5. ASSUME NEW i \in DOMAIN messages
      PROVE  /\ messages'[i].run <= worker'.runSeq
             /\ messages'[i].type = "request" =>
                  /\ messages'[i].run = worker'.runSeq => messages'[i].req <= worker'.issued
                  /\ \A j \in 1..i - 1 :
                       messages'[j].type = "request" /\ messages'[j].run = messages'[i].run =>
                         messages'[j].req < messages'[i].req
  <2>1. messages'[i] = messages[i] /\ \A j \in 1..i - 1 : messages'[j] = messages[j]
    BY <1>1
  <2>2. /\ messages[i].run <= worker.runSeq
        /\ messages[i].type = "request" =>
             /\ messages[i].run = worker.runSeq => messages[i].req <= worker.issued
             /\ \A j \in 1..i - 1 :
                  messages[j].type = "request" /\ messages[j].run = messages[i].run =>
                    messages[j].req < messages[i].req
    BY DEF InOrder
  <2>3. messages[i].run \in Nat /\ (messages[i].type = "request" => messages[i].req \in Nat)
    BY <1>3
  <2>4. messages[i].run <= worker'.runSeq
    BY <1>2, <2>2, <2>3
  <2>5. messages[i].type = "request" /\ messages[i].run = worker'.runSeq => messages[i].req <= worker'.issued
    BY <1>2, <2>2, <2>3
  <2>6. QED
    BY <2>1, <2>2, <2>4, <2>5
<1>6. ASSUME NEW i \in DOMAIN messages', i \notin DOMAIN messages
      PROVE  /\ messages'[i].run <= worker'.runSeq
             /\ messages'[i].type = "request" =>
                  /\ messages'[i].run = worker'.runSeq => messages'[i].req <= worker'.issued
                  /\ \A j \in 1..i - 1 :
                       messages'[j].type = "request" /\ messages'[j].run = messages'[i].run =>
                         messages'[j].req < messages'[i].req
  <2>1. /\ i - k \in DOMAIN ms /\ messages'[i] = ms[i - k] /\ messages'[i].run = worker'.runSeq
        /\ messages'[i].type = "request" =>
            /\ worker'.runSeq = worker.runSeq /\ messages'[i].req = worker.issued + 1
            /\ worker'.issued = worker.issued + 1
            /\ \A j \in 1..i - k - 1 : ms[j].type # "request"
    BY <1>1, <1>6 DEF Pushes
  <2>2. ASSUME messages'[i].type = "request", NEW j \in 1..i - 1, messages'[j].type = "request",
               messages'[j].run = messages'[i].run
        PROVE  messages'[j].req < messages'[i].req
    <3>1. j \in DOMAIN messages
      <4>1. j \in DOMAIN messages' /\ j \notin DOMAIN messages => j - k \in 1..i - k - 1 /\ messages'[j] = ms[j - k]
        BY <1>1, <1>6
      <4>2. QED
        BY <1>1, <1>6, <2>1, <2>2, <4>1
    <3>2. messages[j].req <= worker.issued /\ messages'[j] = messages[j] /\ messages[j].req \in Nat
      BY <1>1, <1>4, <2>1, <2>2, <3>1 DEF InOrder
    <3>3. QED
      BY <1>2, <2>1, <2>2, <3>2
  <2>3. QED
    BY <1>2, <2>1, <2>2
<1>7. QED
  BY <1>5, <1>6 DEF InOrder

-----------------------------------------------------------------------------
(* The worker's steps                                                      *)

WorkerMoves == Begins \/ Hears \/ Drops \/ Proceeds

LEMMA MovesOn ==
  ASSUME WorkerTyped, WorkerTyped', WorkerMoves
  PROVE  /\ worker.runSeq \in Nat /\ worker'.runSeq \in Nat
         /\ worker.issued \in Nat /\ worker'.issued \in Nat
         /\ \/ worker'.runSeq = worker.runSeq + 1
            \/ worker'.runSeq = worker.runSeq /\ worker.issued <= worker'.issued
<1>1. /\ worker.runSeq \in Nat /\ worker'.runSeq \in Nat
      /\ worker.issued \in Nat /\ worker'.issued \in Nat
  BY DEF WorkerTyped, Workers, Runs
<1>2. QED
  BY <1>1 DEF WorkerMoves, Begins, Hears, Drops, Proceeds

LEMMA WorkerChannel ==
  ASSUME WorkerTyped, WorkerTyped', run \in Runs, run' = run, ChannelInv,
         WorkerMoves, NEW ms \in Seq(Messages), Pushes(ms)
  PROVE  ChannelInv'
<1>1. /\ commands \in Seq(Commands) /\ commands' \in Seq(Commands) /\ run \in Nat
      /\ worker.runSeq + Cardinality(Restarts(commands)) <= run
      /\ AnswersFirst(commands, worker.runSeq) /\ worker.runSeq \in Nat
      /\ Cardinality(Restarts(commands)) \in Nat /\ Cardinality(Restarts(commands')) \in Nat
  BY RestartsFinite, MovesOn DEF WorkerTyped, ChannelInv, Runs
<1>2. InOrder(messages', worker'.runSeq, worker'.issued)
  BY MovesOn, MessagesPushed DEF ChannelInv
<1>3. ASSUME commands # <<>>, commands' = Tail(commands)
      PROVE  /\ AnswersFirst(commands', worker.runSeq)
             /\ Head(commands).type # "answer" => AnswersFirst(commands', worker'.runSeq)
             /\ Cardinality(Restarts(commands)) =
                  IF Head(commands).type = "answer" THEN Cardinality(Restarts(commands'))
                                                    ELSE Cardinality(Restarts(commands')) + 1
  <2>1. /\ AnswersFirst(Tail(commands), worker.runSeq)
        /\ Head(commands).type # "answer" =>
             \A i \in DOMAIN Tail(commands) : Tail(commands)[i].type # "answer"
    BY <1>1, <1>3, CommandHandled
  <2>2. Cardinality(Restarts(commands)) =
          IF Head(commands).type = "answer" THEN Cardinality(Restarts(Tail(commands)))
                                            ELSE Cardinality(Restarts(Tail(commands))) + 1
    BY <1>1, <1>3, RestartsHandled
  <2>3. Head(commands).type # "answer" => AnswersFirst(Tail(commands), worker'.runSeq)
    BY <2>1 DEF AnswersFirst
  <2>4. QED
    BY <1>3, <2>1, <2>2, <2>3
<1>4. CASE Begins
  BY <1>1, <1>2, <1>3, <1>4 DEF Begins, ChannelInv
<1>5. CASE Hears
  BY <1>1, <1>2, <1>3, <1>5 DEF Hears, ChannelInv
<1>6. CASE Drops
  BY <1>1, <1>2, <1>3, <1>6 DEF Drops, ChannelInv
<1>7. CASE Proceeds
  BY <1>1, <1>2, <1>7 DEF Proceeds, ChannelInv
<1>8. QED
  BY <1>4, <1>5, <1>6, <1>7 DEF WorkerMoves

LEMMA WorkerArchive ==
  ASSUME WorkerTyped, WorkerTyped', run \in Runs, ChannelInv, ArchiveInv, archive \subseteq Ids,
         UNCHANGED <<run, archive, failed, trace, queue, current>>,
         WorkerMoves, NEW ms \in Seq(Messages), Pushes(ms)
  PROVE  ArchiveInv'
<1>1. /\ worker.runSeq \in Nat /\ worker'.runSeq \in Nat /\ run \in Nat
      /\ worker.issued \in Nat /\ worker'.issued \in Nat
      /\ \/ worker'.runSeq = worker.runSeq + 1
         \/ worker'.runSeq = worker.runSeq /\ worker.issued <= worker'.issued
  BY MovesOn DEF Runs
<1>2. worker'.runSeq # worker.runSeq => archive = {}
  <2>1. ASSUME worker'.runSeq # worker.runSeq PROVE run # worker.runSeq
    <3>1. Begins
      BY <2>1 DEF WorkerMoves, Hears, Drops, Proceeds
    <3>2. Cardinality(Restarts(commands)) # 0
      <4>1. commands \in Seq(Commands) /\ 1 \in DOMAIN commands /\ commands[1].type # "answer"
        BY <3>1 DEF WorkerTyped, Begins
      <4>2. QED
        BY <4>1, NoRestarts
    <3>3. Cardinality(Restarts(commands)) \in Nat
      BY RestartsFinite DEF WorkerTyped
    <3>4. QED
      BY <1>1, <3>2, <3>3 DEF ChannelInv
  <2>2. QED
    BY <2>1 DEF ArchiveInv
<1>3. archive # {} => worker'.runSeq = worker.runSeq /\ worker.issued <= worker'.issued
  BY <1>1, <1>2
<1>4. \A q \in archive : q <= worker'.issued
  <2>1. \A q \in archive : q \in Nat /\ q <= worker.issued
    BY DEF ArchiveInv, Ids
  <2>2. QED
    BY <1>1, <1>3, <2>1
<1>5. ASSUME NEW i \in DOMAIN messages', messages'[i].type = "request", messages'[i].run = run,
             NEW q \in archive
      PROVE  q < messages'[i].req
  <2>1. /\ messages \in Seq(Messages) /\ Len(messages) \in Nat
        /\ messages' = messages \o ms /\ q \in Nat /\ q <= worker.issued
    BY <1>5 DEF WorkerTyped, Pushes, ArchiveInv, Ids
  <2>2. CASE i \in DOMAIN messages
    <3>1. messages'[i] = messages[i]
      BY <2>1, <2>2, ConcatProperties
    <3>2. QED
      BY <1>5, <2>2, <3>1 DEF ArchiveInv
  <2>3. CASE i \notin DOMAIN messages
    <3>1. i - Len(messages) \in DOMAIN ms /\ messages'[i] = ms[i - Len(messages)]
      BY <2>1, <2>3, <1>5, ConcatProperties
    <3>2. messages'[i].req = worker.issued + 1
      BY <1>5, <3>1 DEF Pushes
    <3>3. QED
      BY <1>1, <2>1, <3>2
  <2>4. QED
    BY <2>2, <2>3
<1>6. archive' # {} => run' = worker'.runSeq
  BY <1>3 DEF ArchiveInv
<1>7. Traced' = Traced /\ Queued' = Queued /\ Underway' = Underway
  BY DEF Traced, Queued, Underway
<1>8. QED
  BY <1>4, <1>5, <1>6, <1>7 DEF ArchiveInv

LEMMA WorkerAnswers ==
  ASSUME WorkerTyped, WorkerTyped', ChannelInv, AnswersInv,
         UNCHANGED <<run, archive, queue, current>>, WorkerMoves
  PROVE  AnswersInv'
<1>1. /\ commands \in Seq(Commands) /\ worker.inbox \in Seq([run : Runs, req : Ids])
      /\ AnswersFirst(commands, worker.runSeq)
  BY DEF WorkerTyped, Workers, ChannelInv
<1>2. Queued' = Queued /\ Underway' = Underway
  BY DEF Queued, Underway
<1> DEFINE Free(q, n) == q <= n /\ (run = worker.runSeq => q \in archive \ (Queued \cup Underway))
<1>3. /\ \A i \in DOMAIN worker.inbox :
           /\ worker.inbox[i].run = worker.runSeq /\ Free(worker.inbox[i].req, worker.issued)
           /\ \A j \in 1..i - 1 : worker.inbox[j].req # worker.inbox[i].req
      /\ \A i \in DOMAIN commands : commands[i].type = "answer" =>
           /\ Free(commands[i].req, worker.issued) /\ commands[i].run = worker.runSeq
           /\ \A j \in 1..i - 1 : commands[j].type = "answer" /\ commands[j].req # commands[i].req
           /\ \A j \in DOMAIN worker.inbox : worker.inbox[j].req # commands[i].req
  BY <1>1 DEF AnswersInv, AnswersFirst
<1>4. SUFFICES
      /\ \A i \in DOMAIN worker'.inbox :
           /\ worker'.inbox[i].run = worker'.runSeq /\ worker'.inbox[i].req <= worker'.issued
           /\ \A j \in 1..i - 1 : worker'.inbox[j].req # worker'.inbox[i].req
           /\ run = worker'.runSeq => worker'.inbox[i].req \in archive \ (Queued \cup Underway)
      /\ \A i \in DOMAIN commands' : commands'[i].type = "answer" =>
           /\ commands'[i].req <= worker'.issued
           /\ \A j \in 1..i - 1 : commands'[j].req # commands'[i].req
           /\ \A j \in DOMAIN worker'.inbox : worker'.inbox[j].req # commands'[i].req
           /\ run = worker'.runSeq => commands'[i].req \in archive \ (Queued \cup Underway)
  BY <1>2 DEF AnswersInv
<1>5. ASSUME commands # <<>>, commands' = Tail(commands)
      PROVE  /\ Head(commands).type # "answer" => \A i \in DOMAIN commands' : commands'[i].type # "answer"
             /\ \A i \in DOMAIN commands' : commands'[i].type = "answer" =>
                  /\ Free(commands'[i].req, worker.issued)
                  /\ \A j \in 1..i - 1 : commands'[j].req # commands'[i].req
                  /\ \A j \in DOMAIN worker.inbox : worker.inbox[j].req # commands'[i].req
                  /\ commands'[i].req # Head(commands).req
             /\ Head(commands).type = "answer" =>
                  /\ Free(Head(commands).req, worker.issued) /\ Head(commands).run = worker.runSeq
                  /\ \A j \in DOMAIN worker.inbox : worker.inbox[j].req # Head(commands).req
  <2>1. /\ Head(commands).type # "answer" => \A i \in DOMAIN Tail(commands) : Tail(commands)[i].type # "answer"
        /\ \A i \in DOMAIN Tail(commands) :
             i + 1 \in DOMAIN commands /\ Tail(commands)[i] = commands[i + 1]
        /\ 1 \in DOMAIN commands /\ Head(commands) = commands[1]
    BY <1>1, <1>5, CommandHandled
  <2>2. DOMAIN commands = 1..Len(commands) /\ DOMAIN Tail(commands) = 1..Len(commands) - 1 /\ Len(commands) \in Nat
    BY <1>1, <1>5, HeadTailProperties
  <2> DEFINE t == Tail(commands)
  <2> HIDE DEF t, Free
  <2>3. /\ DOMAIN t = 1..Len(commands) - 1
        /\ \A i \in DOMAIN t : i + 1 \in DOMAIN commands /\ t[i] = commands[i + 1]
        /\ commands' = t
    BY <1>5, <2>1, <2>2 DEF t
  <2>4. ASSUME NEW i \in DOMAIN t, t[i].type = "answer"
        PROVE  /\ Free(t[i].req, worker.issued)
               /\ \A j \in 1..i - 1 : t[j].req # t[i].req
               /\ \A j \in DOMAIN worker.inbox : worker.inbox[j].req # t[i].req
               /\ t[i].req # Head(commands).req
    <3>1. /\ Free(commands[i + 1].req, worker.issued)
          /\ \A j \in 1..i : commands[j].req # commands[i + 1].req
          /\ \A j \in DOMAIN worker.inbox : worker.inbox[j].req # commands[i + 1].req
      BY <1>3, <2>2, <2>3, <2>4
    <3>2. \A j \in 1..i - 1 : j \in DOMAIN t /\ j + 1 \in 1..i
      BY <2>2, <2>3
    <3>3. 1 \in 1..i
      BY <2>2, <2>3
    <3>4. QED
      BY <2>1, <2>3, <3>1, <3>2, <3>3
  <2>5. QED
    BY <1>3, <2>1, <2>3, <2>4 DEF t
<1>6. CASE Begins
  <2>1. \A i \in DOMAIN commands' : commands'[i].type # "answer"
    BY <1>5, <1>6 DEF Begins
  <2>2. DOMAIN worker'.inbox = {}
    BY <1>6 DEF Begins
  <2>3. QED
    BY <2>1, <2>2
<1>7. CASE Hears
  <2> DEFINE e == [run |-> Head(commands).run, req |-> Head(commands).req]
  <2> DEFINE box == worker'.inbox
  <2> DEFINE n == Len(worker.inbox)
  <2>1. /\ n \in Nat /\ DOMAIN worker.inbox = 1..n /\ box = Append(worker.inbox, e)
        /\ Append(worker.inbox, e) \in Seq([run : Runs, req : Ids])
    <3>1. worker' \in Workers
      BY DEF WorkerTyped
    <3>2. worker'.inbox \in Seq([run : Runs, req : Ids])
      BY <3>1 DEF Workers
    <3>3. box = Append(worker.inbox, e)
      BY <1>7 DEF Hears
    <3>4. QED
      BY <1>1, <3>2, <3>3
  <2>2. DOMAIN box = 1..n + 1 /\ box[n + 1] = e /\ \A i \in DOMAIN worker.inbox : box[i] = worker.inbox[i]
    BY <1>1, <2>1
  <2>3. /\ worker'.runSeq = worker.runSeq /\ worker'.issued = worker.issued
        /\ e.req = Head(commands).req /\ e.run = Head(commands).run
    BY <1>7 DEF Hears
  <2>4. /\ \A i \in DOMAIN commands' : commands'[i].type = "answer" =>
             /\ Free(commands'[i].req, worker.issued)
             /\ \A j \in 1..i - 1 : commands'[j].req # commands'[i].req
             /\ \A j \in DOMAIN worker.inbox : worker.inbox[j].req # commands'[i].req
             /\ commands'[i].req # e.req
        /\ Free(e.req, worker.issued) /\ e.run = worker.runSeq
        /\ \A j \in DOMAIN worker.inbox : worker.inbox[j].req # e.req
    BY <1>5, <1>7, <2>3 DEF Hears
  <2> HIDE DEF e, box, n
  <2>5. \A i \in DOMAIN box :
           /\ box[i].run = worker.runSeq /\ Free(box[i].req, worker.issued)
           /\ \A j \in 1..i - 1 : box[j].req # box[i].req
    <3>1. TAKE i \in DOMAIN box
    <3>2. CASE i \in DOMAIN worker.inbox
      BY <1>3, <2>1, <2>2, <3>2
    <3>3. CASE i = n + 1
      BY <2>1, <2>2, <2>4, <3>3
    <3>4. QED
      BY <2>1, <2>2, <3>2, <3>3
  <2>6. \A i \in DOMAIN commands' : commands'[i].type = "answer" =>
          \A j \in DOMAIN box : box[j].req # commands'[i].req
    BY <2>1, <2>2, <2>4
  <2>7. QED
    BY <2>3, <2>4, <2>5, <2>6 DEF box
<1>8. CASE Drops
  BY <1>3, <1>5, <1>8 DEF Drops
<1>9. CASE Proceeds
  <2>1. /\ worker'.runSeq = worker.runSeq /\ worker'.inbox = worker.inbox /\ commands' = commands
        /\ worker.issued \in Nat /\ worker'.issued \in {worker.issued, worker.issued + 1}
    BY <1>9, MovesOn DEF Proceeds
  <2>2. ASSUME NEW i \in DOMAIN worker.inbox PROVE worker.inbox[i].req \in Nat
    <3> DEFINE Answers == [run : Runs, req : Ids]
    <3>1. worker.inbox \in Seq(Answers)
      BY <1>1
    <3> HIDE DEF Answers
    <3>2. worker.inbox[i] \in Answers
      BY <2>2, <3>1
    <3>3. QED
      BY <3>2 DEF Answers, Ids
  <2>3. ASSUME NEW i \in DOMAIN commands, commands[i].type = "answer" PROVE commands[i].req \in Nat
    <3>1. commands[i] \in Commands
      BY <1>1
    <3>2. commands[i] \in [type : {"answer"}, run : Runs, req : Ids, cond : {None}]
      BY <2>3, <3>1 DEF Commands
    <3>3. QED
      BY <3>2 DEF Ids
  <2>4. QED
    BY <1>3, <2>1, <2>2, <2>3
<1>10. QED
  BY <1>6, <1>7, <1>8, <1>9 DEF WorkerMoves

-----------------------------------------------------------------------------
(* The page's steps                                                        *)

PageMoves ==
  /\ PageInv' /\ Single' /\ UNCHANGED <<run, worker>>
  /\ messages' = messages \/ (messages # <<>> /\ messages' = Tail(messages))
  /\ Keeps \/ \E q \in Ids : Takes(q) \/ Gives(q)

LEMMA PageEffect ==
  ASSUME PageInv, ArchiveInv, served \in Conditions, Client!Page(Advertised), UNCHANGED worker
  PROVE  PageMoves
<1>1. CASE Client!HandleMessage
  BY <1>1, HandleMessageEffect DEF PageMoves
<1>2. CASE Client!DispatchNext
  BY <1>2, DispatchNextEffect DEF PageMoves
<1>3. CASE \E a \in Advertised : Client!HandshakeEnds(a)
  BY <1>3, HandshakeEndsEffect DEF PageMoves
<1>4. CASE \E a \in Advertised : Client!Connected(a)
  BY <1>4, ConnectedEffect DEF PageMoves
<1>5. CASE \E o \in {"response", "failure", "unusable", "none"} : Client!Settle(o)
  BY <1>5, SettleEffect DEF PageMoves
<1>6. QED
  BY <1>1, <1>2, <1>3, <1>4, <1>5 DEF Client!Page

\* A request is given its outcome only while the worker is in the page's own run.
LEMMA GivenInItsRun ==
  ASSUME PageInv, ChannelInv, ArchiveInv, NEW q \in Ids, Takes(q) \/ Gives(q)
  PROVE  /\ run = worker.runSeq /\ Cardinality(Restarts(commands)) = 0
         /\ q <= worker.issued
         /\ Arrives(q) => q \notin archive
<1>1. /\ run \in Nat /\ worker.runSeq \in Nat /\ worker.issued \in Nat
      /\ Cardinality(Restarts(commands)) \in Nat /\ messages \in Seq(Messages)
  BY RestartsFinite DEF PageInv, PageTyped, WorkerTyped, Workers, Runs
<1>2. ASSUME Arrives(q) PROVE run <= worker.runSeq /\ (run = worker.runSeq => q <= worker.issued) /\ q \notin archive
  <2>1. /\ messages # <<>> /\ Head(messages).type = "request"
        /\ Head(messages).run = run /\ Head(messages).req = q
    BY <1>2 DEF Arrives
  <2>2. /\ Head(messages).run <= worker.runSeq /\ 1 \in DOMAIN messages /\ Head(messages) = messages[1]
        /\ Head(messages).run = worker.runSeq => Head(messages).req <= worker.issued
    BY <1>1, <2>1, MessageHandled DEF ChannelInv
  <2>3. \A x \in archive : x < q
    BY <2>1, <2>2 DEF ArchiveInv
  <2>4. QED
    BY <2>1, <2>2, <2>3 DEF Ids
<1>3. run = worker.runSeq /\ q <= worker.issued
  <2>1. CASE Arrives(q)
    <3>1. run <= worker.runSeq
      BY <1>2, <2>1
    <3>2. run = worker.runSeq
      BY <1>1, <3>1 DEF ChannelInv
    <3>3. QED
      BY <1>2, <2>1, <3>2
  <2>2. CASE ~Arrives(q)
    <3>1. q \in Waiting /\ Waiting \subseteq archive
      BY <2>2 DEF Takes, Gives, ArchiveInv, Waiting
    <3>2. QED
      BY <3>1 DEF ArchiveInv
  <2>3. QED
    BY <2>1, <2>2
<1>4. QED
  BY <1>1, <1>2, <1>3 DEF ChannelInv

LEMMA PageChannel ==
  ASSUME PageInv, ChannelInv, ArchiveInv, PageMoves
  PROVE  ChannelInv'
<1>1. /\ commands \in Seq(Commands) /\ worker.runSeq \in Nat /\ worker.issued \in Nat
      /\ messages \in Seq(Messages) /\ UNCHANGED <<worker, run>> /\ run \in Runs
  BY DEF PageInv, PageTyped, WorkerTyped, Workers, Runs, PageMoves
<1>2. InOrder(messages', worker.runSeq, worker.issued)
  BY <1>1, MessageHandled DEF PageMoves, ChannelInv
<1>3. CASE commands' = commands
  BY <1>1, <1>2, <1>3 DEF ChannelInv
<1>4. CASE \E q \in Ids : Gives(q) /\ commands' = Append(commands, Client!Answer(run, q))
  <2>1. PICK q \in Ids : Gives(q) /\ commands' = Append(commands, Client!Answer(run, q))
    BY <1>4
  <2>2. run = worker.runSeq /\ Cardinality(Restarts(commands)) = 0
    BY <2>1, GivenInItsRun
  <2> DEFINE c == Client!Answer(run, q)
  <2>3. c \in Commands /\ c.type = "answer" /\ c.run = worker.runSeq /\ commands' = Append(commands, c)
    BY <1>1, <2>1, <2>2 DEF Client!Answer, Commands
  <2> HIDE DEF c
  <2>4. /\ Cardinality(Restarts(commands')) = Cardinality(Restarts(commands))
        /\ AnswersFirst(commands', worker.runSeq)
    BY <1>1, <2>2, <2>3, RestartsAppended, CommandAppended DEF ChannelInv
  <2>5. QED
    BY <1>1, <1>2, <2>4 DEF ChannelInv
<1>5. QED
  BY <1>3, <1>4 DEF PageMoves, Keeps, Takes, Gives

LEMMA PageArchive ==
  ASSUME PageInv, ChannelInv, ArchiveInv, PageMoves
  PROVE  ArchiveInv'
<1>1. /\ worker.runSeq \in Nat /\ worker.issued \in Nat /\ run \in Nat
      /\ messages \in Seq(Messages) /\ UNCHANGED <<worker, run>> /\ archive \subseteq Ids
  BY DEF PageInv, PageTyped, WorkerTyped, Workers, Runs, PageMoves
<1>2. Single' /\ archive = Traced \cup Waiting /\ failed \subseteq Traced
  BY DEF PageMoves, ArchiveInv, Waiting
<1>3. SUFFICES /\ archive' # {} => run = worker.runSeq
               /\ \A x \in archive' : x <= worker.issued
               /\ \A i \in DOMAIN messages' : messages'[i].type = "request" /\ messages'[i].run = run =>
                    \A x \in archive' : x < messages'[i].req
               /\ archive' = Traced' \cup Waiting' /\ failed' \subseteq Traced'
  BY <1>1, <1>2 DEF ArchiveInv, Waiting, Single
<1>4. \A i \in DOMAIN messages' : messages'[i].type = "request" /\ messages'[i].run = run =>
        \A x \in archive : x < messages'[i].req
  <2>1. CASE messages' = messages
    BY <2>1 DEF ArchiveInv
  <2>2. CASE messages # <<>> /\ messages' = Tail(messages)
    <3>1. \A i \in DOMAIN Tail(messages) : i + 1 \in DOMAIN messages /\ Tail(messages)[i] = messages[i + 1]
      BY <1>1, <2>2, MessageHandled DEF ChannelInv
    <3>2. QED
      BY <2>2, <3>1 DEF ArchiveInv
  <2>3. QED
    BY <2>1, <2>2 DEF PageMoves
<1>5. CASE Keeps
  BY <1>2, <1>4, <1>5 DEF Keeps, ArchiveInv
<1>6. ASSUME NEW q \in Ids, Arrives(q)
      PROVE  \A i \in DOMAIN messages' : messages'[i].type = "request" /\ messages'[i].run = run =>
               q < messages'[i].req
  BY <1>1, <1>6, MessageHandled DEF ChannelInv, Arrives
<1>7. CASE \E q \in Ids : Takes(q)
  <2>1. PICK q \in Ids : Takes(q)
    BY <1>7
  <2>2. run = worker.runSeq /\ q <= worker.issued
    BY <2>1, GivenInItsRun
  <2>3. QED
    BY <1>2, <1>4, <1>6, <2>1, <2>2 DEF Takes, ArchiveInv
<1>8. CASE \E q \in Ids : Gives(q)
  <2>1. PICK q \in Ids : Gives(q)
    BY <1>8
  <2>2. run = worker.runSeq /\ q <= worker.issued
    BY <2>1, GivenInItsRun
  <2>3. archive' = archive \cup {q} /\ (Arrives(q) \/ q \in archive)
    BY <1>2, <2>1 DEF Gives
  <2>4. \A i \in DOMAIN messages' : messages'[i].type = "request" /\ messages'[i].run = run =>
          \A x \in archive' : x < messages'[i].req
    BY <1>4, <1>6, <2>3
  <2>5. archive' = Traced' \cup Waiting' /\ failed' \subseteq Traced'
    BY <1>2, <2>1, <2>3 DEF Gives
  <2>6. QED
    BY <2>2, <2>3, <2>4, <2>5 DEF ArchiveInv
<1>9. QED
  BY <1>5, <1>7, <1>8 DEF PageMoves

LEMMA PageAnswers ==
  ASSUME PageInv, ChannelInv, ArchiveInv, AnswersInv, PageMoves
  PROVE  AnswersInv'
<1>1. /\ commands \in Seq(Commands) /\ UNCHANGED <<worker, run>> /\ run \in Runs
      /\ Len(commands) \in Nat /\ DOMAIN commands = 1..Len(commands)
  BY DEF PageInv, PageTyped, WorkerTyped, PageMoves
<1> DEFINE Free(q) == q <= worker.issued /\ (run = worker.runSeq => q \in archive \ Waiting)
<1> DEFINE Freed(q) == q <= worker.issued /\ (run = worker.runSeq => q \in archive' \ Waiting')
<1>2. /\ \A i \in DOMAIN worker.inbox :
           /\ worker.inbox[i].run = worker.runSeq /\ Free(worker.inbox[i].req)
           /\ \A j \in 1..i - 1 : worker.inbox[j].req # worker.inbox[i].req
      /\ \A i \in DOMAIN commands : commands[i].type = "answer" =>
           /\ Free(commands[i].req)
           /\ \A j \in 1..i - 1 : commands[j].req # commands[i].req
           /\ \A j \in DOMAIN worker.inbox : worker.inbox[j].req # commands[i].req
  BY DEF AnswersInv, Waiting
<1>3. SUFFICES
      /\ \A i \in DOMAIN worker.inbox :
           /\ worker.inbox[i].run = worker.runSeq /\ Freed(worker.inbox[i].req)
           /\ \A j \in 1..i - 1 : worker.inbox[j].req # worker.inbox[i].req
      /\ \A i \in DOMAIN commands' : commands'[i].type = "answer" =>
           /\ Freed(commands'[i].req)
           /\ \A j \in 1..i - 1 : commands'[j].req # commands'[i].req
           /\ \A j \in DOMAIN worker.inbox : worker.inbox[j].req # commands'[i].req
  BY <1>1 DEF AnswersInv, Waiting
<1>4. CASE Keeps
  BY <1>2, <1>4 DEF Keeps
<1>5. CASE \E q \in Ids : Takes(q)
  <2>1. PICK q \in Ids : Takes(q)
    BY <1>5
  <2>2. q \notin archive
    BY <2>1, GivenInItsRun DEF Takes
  <2>3. \A x : Free(x) => Freed(x)
    BY <2>1, <2>2 DEF Takes
  <2> HIDE DEF Free, Freed
  <2>4. QED
    BY <1>2, <2>1, <2>3 DEF Takes
<1>6. CASE \E q \in Ids : Gives(q)
  <2>1. PICK q \in Ids : Gives(q)
    BY <1>6
  <2>2. /\ run = worker.runSeq /\ q <= worker.issued /\ q \notin archive \ Waiting
        /\ Cardinality(Restarts(commands)) = 0
    BY <2>1, GivenInItsRun DEF Gives
  <2>3. /\ \A x : Free(x) => Freed(x) /\ x # q
        /\ Freed(q)
    <3>1. archive \subseteq archive' /\ q \in archive' /\ Waiting' = Waiting \ {q}
      BY <2>1 DEF Gives, ArchiveInv, Waiting
    <3>2. QED
      BY <2>2, <3>1
  <2> HIDE DEF Free, Freed
  <2>4. CASE commands' = commands
    BY <1>2, <2>3, <2>4
  <2>5. CASE commands' = Append(commands, Client!Answer(run, q))
    <3> DEFINE n == Len(commands)
    <3>1. /\ DOMAIN commands' = 1..n + 1 /\ commands'[n + 1].req = q
          /\ \A i \in DOMAIN commands : commands'[i] = commands[i]
      BY <1>1, <2>5 DEF Client!Answer
    <3>2. \A i \in DOMAIN commands : commands[i].type = "answer" /\ commands[i].req # q
      BY <1>1, <1>2, <2>2, <2>3, NoRestarts
    <3>3. \A i \in DOMAIN worker.inbox : worker.inbox[i].req # q
      BY <1>2, <2>3
    <3> HIDE DEF n
    <3>4. ASSUME NEW i \in DOMAIN commands', commands'[i].type = "answer"
          PROVE  /\ Freed(commands'[i].req)
                 /\ \A j \in 1..i - 1 : commands'[j].req # commands'[i].req
                 /\ \A j \in DOMAIN worker.inbox : worker.inbox[j].req # commands'[i].req
      <4>1. CASE i \in DOMAIN commands
        <5>1. commands'[i] = commands[i] /\ \A j \in 1..i - 1 : commands'[j] = commands[j]
          BY <1>1, <3>1, <4>1
        <5>2. QED
          BY <1>2, <2>3, <3>2, <4>1, <5>1
      <4>2. CASE i \notin DOMAIN commands
        <5>1. i = n + 1 /\ \A j \in 1..i - 1 : j \in DOMAIN commands
          BY <1>1, <3>1, <4>2 DEF n
        <5>2. QED
          BY <2>3, <3>1, <3>2, <3>3, <5>1
      <4>3. QED
        BY <4>1, <4>2
    <3>5. QED
      BY <1>2, <2>3, <3>4
  <2>6. QED
    BY <2>1, <2>4, <2>5 DEF Gives
<1>7. QED
  BY <1>4, <1>5, <1>6 DEF PageMoves

LEMMA FailUnobserved ==
  ASSUME NEW r, NEW q, Client!Fail(r, q)
  PROVE  \A e \in trace' : e \in trace \/ ~e.observed
<1>1. trace' \subseteq trace \cup {Client!Entry(run, q, "failure", FALSE)}
  BY DEF Client!Fail, Client!Recorded
<1>2. ~Client!Entry(run, q, "failure", FALSE).observed
  BY DEF Client!Entry
<1>3. QED
  BY <1>1, <1>2

LEMMA DiscardUnobserved ==
  ASSUME Client!Discard
  PROVE  \A e \in trace' : e \in trace \/ ~e.observed
<1> DEFINE d == Client!Entry(current.run, current.req, "discarded", FALSE)
<1>1. trace' \subseteq trace \cup {d}
  BY DEF Client!Discard, Client!Recorded
<1>2. ~d.observed
  BY DEF Client!Entry
<1>3. QED
  BY <1>1, <1>2

LEMMA PostTold ==
  ASSUME NEW q, Client!Post(q), NEW rs, \A m \in wire : Told(rs, m)
  PROVE  \A m \in wire' : Told(rs, m)
<1> DEFINE p == [run |-> run, req |-> q, cond |-> Client!Contract(cond), state |-> "sent",
                 live |-> TRUE, again |-> FALSE]
<1>1. wire' = wire \cup {p} /\ p.state = "sent"
  BY DEF Client!Post
<1> HIDE DEF p
<1>2. Told(rs, p)
  BY <1>1 DEF Told
<1>3. QED
  BY <1>1, <1>2

LEMMA SettleTold ==
  ASSUME wire \subseteq Posts, \A m \in wire : Told(rows, m), Witnessed(trace, rows),
         NEW outcome \in {"response", "failure", "unusable", "none"}, Client!Settle(outcome)
  PROVE  (\A m \in wire' : Told(rows, m)) /\ Witnessed(trace', rows)
<1>1. ASSUME NEW m \in wire' PROVE Told(rows, m)
  <2>1. m \in wire \/ \E x \in wire : x.state = "sent" /\ m = [x EXCEPT !.live = FALSE]
    BY <1>1 DEF Client!Settle, Client!Mine
  <2>2. ASSUME NEW x \in wire, x.state = "sent", m = [x EXCEPT !.live = FALSE] PROVE m.state = "sent"
    BY <2>2 DEF Posts
  <2>3. QED
    BY <2>1, <2>2 DEF Told
<1>2. CASE Client!Discard \/ Client!Fail(current.run, current.req)
  <2>1. \A e \in trace' : e \in trace \/ ~e.observed
    BY <1>2, DiscardUnobserved, FailUnobserved
  <2>2. (\A m \in wire' : Told(rows, m)) /\ Witnessed(trace', rows)
    BY <1>1, <2>1 DEF Witnessed
  <2>3. QED
    BY <2>2
<1>3. CASE /\ ~Client!Stale /\ outcome \in {"response", "failure"}
           /\ trace' = Client!Recorded(trace, Client!Entry(run, current.req, outcome, TRUE))
  <2> DEFINE e == Client!Entry(run, current.req, outcome, TRUE)
  <2>1. trace' \subseteq trace \cup {e}
    BY <1>3 DEF Client!Recorded
  <2>2. PICK x \in wire : x.run = current.run /\ x.req = current.req /\ x.state = outcome
    BY <1>3 DEF Client!Settle, Client!Mine
  <2>3. Server!Row(run, current.req, outcome) \in rows
    BY <1>3, <2>2 DEF Told, Client!Stale
  <2>4. Server!Row(e.run, e.req, e.outcome) \in rows
    BY <2>3 DEF Client!Entry
  <2> HIDE DEF e
  <2>5. Witnessed(trace', rows)
    BY <2>1, <2>4 DEF Witnessed
  <2>6. QED
    BY <1>1, <2>5
<1>4. QED
  BY <1>1, <1>2, <1>3 DEF Client!Settle

LEMMA PageTells ==
  ASSUME PageInv, \A m \in wire : Told(rows, m), Witnessed(trace, rows), Client!Page(Advertised)
  PROVE  (\A m \in wire' : Told(rows, m)) /\ Witnessed(trace', rows)
<1>1. ASSUME \A e \in trace' : e \in trace \/ ~e.observed PROVE Witnessed(trace', rows)
  BY <1>1 DEF Witnessed
<1>2. CASE Client!HandleMessage
  <2>1. wire' = wire
    BY <1>2 DEF Client!HandleMessage
  <2>2. trace' = trace \/ \E r, q : Client!Fail(r, q)
    BY <1>2 DEF Client!HandleMessage, Client!DecisionRequest, Client!Snapshot, Client!RunComplete,
                Client!HandleDecisionRequest
  <2>3. QED
    BY <1>1, <2>1, <2>2, FailUnobserved
<1>3. CASE Client!DispatchNext
  <2>1. \/ UNCHANGED <<trace, wire>>
        \/ \E q : Client!Post(q) /\ UNCHANGED trace
        \/ \E r, q : Client!Fail(r, q) /\ UNCHANGED wire
    BY <1>3 DEF Client!DispatchNext
  <2>2. CASE \E q : Client!Post(q) /\ UNCHANGED trace
    <3>1. PICK q : Client!Post(q) /\ UNCHANGED trace
      BY <2>2
    <3>2. QED
      BY <3>1, PostTold
  <2>3. QED
    BY <1>1, <2>1, <2>2, FailUnobserved
<1>4. CASE \E a \in Advertised : Client!HandshakeEnds(a)
  BY <1>4 DEF Client!HandshakeEnds
<1>5. CASE \E a \in Advertised : Client!Connected(a)
  <2>1. \/ Client!Discard /\ UNCHANGED wire
        \/ Client!Fail(current.run, current.req) /\ UNCHANGED wire
        \/ Client!Post(current.req) /\ UNCHANGED trace
    BY <1>5 DEF Client!Connected
  <2>2. QED
    BY <1>1, <2>1, DiscardUnobserved, FailUnobserved, PostTold
<1>6. CASE \E o \in {"response", "failure", "unusable", "none"} : Client!Settle(o)
  BY <1>6, SettleTold DEF PageInv
<1>7. QED
  BY <1>2, <1>3, <1>4, <1>5, <1>6 DEF Client!Page

-----------------------------------------------------------------------------
(* The whole                                                               *)

LEMMA RenewsStep ==
  ASSUME PageInv, ChannelInv, AnswersInv, PageInv', Waiting' = {}, Single', Traced' = {},
         worker' = worker, NEW c \in Commands, Renews(c)
  PROVE  ChannelInv' /\ ArchiveInv' /\ AnswersInv'
<1>1. /\ commands \in Seq(Commands) /\ worker.runSeq \in Nat /\ run \in Nat /\ run' = run + 1
      /\ commands' = Append(commands, c) /\ c.type # "answer" /\ archive' = {} /\ failed' = {}
      /\ UNCHANGED <<worker, messages>> /\ Cardinality(Restarts(commands)) \in Nat
      /\ worker.runSeq + Cardinality(Restarts(commands)) <= run
  BY RestartsFinite DEF PageInv, PageTyped, WorkerTyped, Workers, Runs, Renews, ChannelInv
<1>2. /\ Cardinality(Restarts(commands')) = Cardinality(Restarts(commands)) + 1
      /\ AnswersFirst(commands', worker.runSeq)
  BY <1>1, RestartsAppended, CommandAppended DEF ChannelInv
<1>3. ChannelInv'
  BY <1>1, <1>2 DEF ChannelInv
<1>4. ArchiveInv'
  BY <1>1 DEF ArchiveInv, Single, Waiting
<1>5. AnswersInv'
  <2>1. /\ DOMAIN commands = 1..Len(commands) /\ Len(commands) \in Nat
        /\ DOMAIN commands' = 1..Len(commands) + 1 /\ commands'[Len(commands) + 1] = c
        /\ \A i \in DOMAIN commands : commands'[i] = commands[i]
        /\ run' # worker.runSeq
    BY <1>1
  <2>2. \A i \in DOMAIN commands' : commands'[i].type = "answer" =>
          i \in DOMAIN commands /\ \A j \in 1..i - 1 : j \in DOMAIN commands
    BY <1>1, <2>1
  <2>3. QED
    BY <1>1, <2>1, <2>2 DEF AnswersInv
<1>6. QED
  BY <1>3, <1>4, <1>5

ExchangeInv ==
  /\ PageInv /\ ServedInv /\ ChannelInv /\ ArchiveInv /\ AnswersInv
  /\ Witnessed(trace, rows)

ServerStays == UNCHANGED <<up, served, remembered, books, total, adapter, rows, starts, spent>>

LEMMA ServedStays ==
  ASSUME ServedInv, ServerStays, wire' \subseteq Posts, \A m \in wire' : Told(rows, m)
  PROVE  ServedInv'
BY DEF ServedInv, GatewayTyped, BooksInv, ServerStays

LEMMA WorkerStep ==
  ASSUME ExchangeInv, WorkerActs
  PROVE  ExchangeInv' /\ WorkerMoves
<1>1. /\ UNCHANGED <<cond, run, view, config, latch, handshakes, queue, current, calls, failed, trace,
                     archive, wire>>
      /\ ServerStays
  BY DEF WorkerActs, HandleCommand, Ask, Finish, Client!Idle, Client!GatewaySideIdle, Server!Idle,
         ServerStays
<1>2. /\ WorkerTyped /\ run \in Runs /\ archive \subseteq Ids /\ ChannelInv /\ ArchiveInv /\ AnswersInv
  BY DEF ExchangeInv, PageInv, PageTyped
<1>3. /\ WorkerTyped' /\ WorkerMoves
      /\ \E ms \in Seq(Messages) : Pushes(ms)
  BY <1>2, HandleEffect, AskEffect, FinishEffect DEF WorkerActs, WorkerMoves
<1>4. PICK ms \in Seq(Messages) : Pushes(ms)
  BY <1>3
<1>5. ChannelInv' /\ ArchiveInv' /\ AnswersInv'
  BY <1>1, <1>2, <1>3, <1>4, WorkerChannel, WorkerArchive, WorkerAnswers
<1>6. PageInv'
  BY <1>1, <1>3 DEF ExchangeInv, PageInv, PageTyped, PageLimits, Shaking
<1>7. ServedInv'
  BY <1>1, ServedStays DEF ExchangeInv, ServedInv, GatewayTyped
<1>8. Witnessed(trace', rows')
  BY <1>1 DEF ExchangeInv, ServerStays
<1>9. QED
  BY <1>3, <1>5, <1>6, <1>7, <1>8 DEF ExchangeInv

LEMMA PageStep ==
  ASSUME ExchangeInv, PageActs
  PROVE  ExchangeInv' /\ PageMoves
<1>1. Client!Page(Advertised) /\ UNCHANGED worker /\ ServerStays
  BY DEF PageActs, Server!Idle, ServerStays
<1>2. /\ PageInv /\ ChannelInv /\ ArchiveInv /\ AnswersInv /\ ServedInv /\ served \in Conditions
      /\ (\A m \in wire : Told(rows, m)) /\ Witnessed(trace, rows)
  BY DEF ExchangeInv, ServedInv, GatewayTyped
<1>3. PageMoves
  BY <1>1, <1>2, PageEffect
<1>4. ChannelInv' /\ ArchiveInv' /\ AnswersInv'
  BY <1>2, <1>3, PageChannel, PageArchive, PageAnswers
<1>5. (\A m \in wire' : Told(rows, m)) /\ Witnessed(trace', rows)
  BY <1>1, <1>2, PageTells
<1>6. PageInv' /\ wire' \subseteq Posts
  BY <1>3 DEF PageMoves, PageInv
<1>7. ServedInv'
  BY <1>1, <1>2, <1>5, <1>6, ServedStays
<1>8. Witnessed(trace', rows')
  BY <1>1, <1>5 DEF ServerStays
<1>9. QED
  BY <1>3, <1>4, <1>6, <1>7, <1>8 DEF ExchangeInv

LEMMA OperatorStep ==
  ASSUME ExchangeInv, OperatorActs
  PROVE  /\ ExchangeInv' /\ UNCHANGED worker
         /\ \/ UNCHANGED <<run, commands>>
            \/ \E c \in Commands : Renews(c)
<1>1. Client!Operator /\ UNCHANGED worker /\ ServerStays
  BY DEF OperatorActs, Server!Idle, ServerStays
<1>2. /\ PageInv /\ ChannelInv /\ ArchiveInv /\ AnswersInv /\ ServedInv
      /\ (\A m \in wire : Told(rows, m)) /\ Witnessed(trace, rows)
  BY DEF ExchangeInv, ServedInv
<1>3. CASE UNCHANGED <<cond, run, view, queue, current, failed, trace, archive, commands, messages, wire,
                       config, latch, handshakes, calls>>
  <2>1. PageInv'
    BY <1>1, <1>2, <1>3 DEF PageInv, PageTyped, PageLimits, Shaking, WorkerTyped
  <2>2. Traced' = Traced /\ Queued' = Queued /\ Underway' = Underway
    BY <1>3 DEF Traced, Queued, Underway
  <2>3. ChannelInv' /\ ArchiveInv' /\ AnswersInv'
    BY <1>1, <1>2, <1>3, <2>2 DEF ChannelInv, ArchiveInv, AnswersInv
  <2>4. ServedInv'
    BY <1>1, <1>2, <1>3, ServedStays DEF PageInv
  <2>5. Witnessed(trace', rows')
    BY <1>1, <1>2, <1>3 DEF ServerStays
  <2>6. QED
    BY <1>1, <1>3, <2>1, <2>3, <2>4, <2>5 DEF ExchangeInv
<1>4. CASE /\ PageInv' /\ Waiting' = {} /\ Single' /\ Traced' = {}
           /\ \E c \in Commands : Renews(c)
  <2>1. PICK c \in Commands : Renews(c)
    BY <1>4
  <2>2. ChannelInv' /\ ArchiveInv' /\ AnswersInv'
    BY <1>1, <1>2, <1>4, <2>1, RenewsStep
  <2>3. ServedInv'
    BY <1>1, <1>2, <2>1, ServedStays DEF PageInv, Renews
  <2>4. Witnessed(trace', rows')
    BY <2>1 DEF Renews, Witnessed
  <2>5. QED
    BY <1>1, <1>4, <2>1, <2>2, <2>3, <2>4 DEF ExchangeInv
<1>5. QED
  BY <1>1, <1>2, <1>3, <1>4, OperatorEffect

LEMMA GatewayStep ==
  ASSUME ExchangeInv, GatewayActs
  PROVE  ExchangeInv' /\ UNCHANGED <<worker, run, commands>>
<1>1. /\ Server!Gateway
      /\ UNCHANGED <<worker, cond, run, view, queue, current, failed, trace, archive, commands, messages,
                     config, latch, handshakes, calls>>
  BY DEF GatewayActs, Client!Idle, Client!GatewaySideIdle
<1>2. ServedInv' /\ rows \subseteq rows'
  BY <1>1, ServedStep DEF ExchangeInv
<1>3. PageInv'
  BY <1>1, <1>2 DEF ExchangeInv, PageInv, PageTyped, PageLimits, Shaking, WorkerTyped, ServedInv, GatewayTyped
<1>4. Traced' = Traced /\ Queued' = Queued /\ Underway' = Underway
  BY <1>1 DEF Traced, Queued, Underway
<1>5. ChannelInv' /\ ArchiveInv' /\ AnswersInv'
  BY <1>1, <1>4 DEF ExchangeInv, ChannelInv, ArchiveInv, AnswersInv
<1>6. Witnessed(trace', rows')
  BY <1>1, <1>2 DEF ExchangeInv, Witnessed
<1>7. QED
  BY <1>1, <1>2, <1>3, <1>5, <1>6 DEF ExchangeInv

LEMMA ExchangeInit ==
  Init => ExchangeInv
<1> SUFFICES ASSUME Init PROVE ExchangeInv
  OBVIOUS
<1>1. /\ worker = [runSeq |-> 0, cond |-> None, issued |-> 0, done |-> FALSE, inbox |-> <<>>]
      /\ cond = Baseline /\ run = 0 /\ config = None /\ latch = FALSE /\ handshakes = 0
      /\ queue = <<>> /\ current = None /\ calls = 0 /\ failed = {} /\ trace = {} /\ archive = {}
      /\ view = [final |-> None, complete |-> FALSE] /\ commands = <<>> /\ messages = <<>>
      /\ up = FALSE /\ served \in Conditions /\ remembered = <<>>
      /\ books = [r \in Runs |-> Server!NewBook] /\ total = 0 /\ adapter = {} /\ rows = {} /\ wire = {}
      /\ spent = [r \in Runs |-> <<>>]
  BY DEF Init, Client!ClientInit, Server!GatewayInit
<1>2. 0 \in Runs /\ 0 \in 0..Requests /\ 0 \in 0..MaxHandshakes /\ 0 \in 0..MaxTotalCalls
  BY NumberAssumption DEF Runs
<1>3. WorkerTyped
  <2>1. worker \in Workers
    BY <1>1, <1>2 DEF Workers
  <2>2. QED
    BY <1>1, <2>1 DEF WorkerTyped
<1>4. PageTyped
  <2>1. view \in [final : MaybeRun, complete : BOOLEAN]
    BY <1>1 DEF MaybeRun
  <2>2. QED
    BY <1>1, <1>2, <2>1 DEF PageTyped
<1>5. PageInv
  <2>1. ~Shaking /\ Len(queue) = 0
    BY <1>1 DEF Shaking
  <2>2. PageLimits
    BY <1>1, <2>1, NumberAssumption DEF PageLimits
  <2>3. QED
    BY <1>1, <1>3, <1>4, <2>2 DEF PageInv
<1>6. ServedInv
  <2>1. IsFiniteSet(adapter) /\ Cardinality(adapter) = 0
    BY <1>1, FS_EmptySet
  <2>2. remembered \in Seq(Runs) /\ Len(remembered) = 0 /\ <<>> \in Seq(Ids)
    BY <1>1
  <2>3. books \in [Runs -> BookSet] /\ spent \in [Runs -> Seq(Ids)]
    BY <1>1, <2>2, BookMade
  <2>4. Len(remembered) <= MaxBooks /\ Cardinality(adapter) <= MaxConcurrency
    BY <2>1, <2>2, NumberAssumption
  <2>5. GatewayTyped
    BY <1>1, <1>2, <2>1, <2>2, <2>3, <2>4 DEF GatewayTyped
  <2>6. BooksInv /\ \A r \in Runs : Known(rows, r, books[r])
    BY <1>1, BookMade, NoneAssumption DEF BooksInv, Known
  <2>7. QED
    BY <1>1, <2>5, <2>6 DEF ServedInv
<1>7. ChannelInv
  <2>1. Restarts(commands) = {} /\ Cardinality(Restarts(commands)) = 0
    BY <1>1, FS_EmptySet DEF Restarts
  <2>2. AnswersFirst(commands, worker.runSeq) /\ InOrder(messages, worker.runSeq, worker.issued)
    BY <1>1 DEF AnswersFirst, InOrder
  <2>3. QED
    BY <1>1, <2>1, <2>2 DEF ChannelInv
<1>8. ArchiveInv
  BY <1>1 DEF ArchiveInv, Traced, Queued, Underway
<1>9. AnswersInv
  BY <1>1 DEF AnswersInv
<1>10. Witnessed(trace, rows)
  BY <1>1 DEF Witnessed
<1>11. QED
  BY <1>5, <1>6, <1>7, <1>8, <1>9, <1>10 DEF ExchangeInv

LEMMA ExchangeStep ==
  ExchangeInv /\ [Next]_vars => ExchangeInv'
<1> SUFFICES ASSUME ExchangeInv, [Next]_vars PROVE ExchangeInv'
  OBVIOUS
<1>1. CASE WorkerActs
  BY <1>1, WorkerStep
<1>2. CASE OperatorActs
  BY <1>2, OperatorStep
<1>3. CASE PageActs
  BY <1>3, PageStep
<1>4. CASE GatewayActs
  BY <1>4, GatewayStep
<1>5. CASE UNCHANGED vars
  <2>1. /\ UNCHANGED <<worker, cond, run, config, latch, handshakes, queue, current, calls, failed, trace,
                       archive, view, commands, messages, wire>>
        /\ UNCHANGED <<up, served, remembered, books, total, adapter, rows, spent>>
    BY <1>5 DEF vars
  <2>2. PageInv'
    BY <2>1 DEF ExchangeInv, PageInv, PageTyped, PageLimits, Shaking, WorkerTyped
  <2>3. Traced' = Traced /\ Queued' = Queued /\ Underway' = Underway
    BY <2>1 DEF Traced, Queued, Underway
  <2>4. ChannelInv' /\ ArchiveInv' /\ AnswersInv'
    BY <2>1, <2>3 DEF ExchangeInv, ChannelInv, ArchiveInv, AnswersInv
  <2>5. ServedInv'
    BY <2>1 DEF ExchangeInv, ServedInv, GatewayTyped, BooksInv
  <2>6. QED
    BY <2>1, <2>2, <2>4, <2>5 DEF ExchangeInv, Witnessed
<1>6. QED
  BY <1>1, <1>2, <1>3, <1>4, <1>5 DEF Next, WorkerActs

LEMMA ExchangeHolds ==
  Spec => []ExchangeInv
BY ExchangeInit, ExchangeStep, PTL DEF Spec

-----------------------------------------------------------------------------
(* What follows                                                            *)

\* A sequence without repetitions is as long as its range is large.
LEMMA NoneTwice ==
  ASSUME NEW s \in Seq(Ids), \A i \in DOMAIN s : \A j \in 1..i - 1 : s[j] # s[i]
  PROVE  Len(s) = Cardinality({s[i] : i \in DOMAIN s})
<1> DEFINE S == {s[i] : i \in DOMAIN s}
<1>1. Len(s) \in Nat /\ DOMAIN s = 1..Len(s) /\ s \in [1..Len(s) -> S]
  OBVIOUS
<1>2. ASSUME NEW a \in 1..Len(s), NEW b \in 1..Len(s), s[a] = s[b] PROVE a = b
  <2>1. ~(a < b) /\ ~(b < a)
    <3>1. a < b => a \in 1..b - 1
      BY <1>1
    <3>2. b < a => b \in 1..a - 1
      BY <1>1
    <3>3. QED
      BY <1>1, <1>2, <3>1, <3>2
  <2>2. QED
    BY <1>1, <2>1
<1>3. \A x \in S : \E a \in 1..Len(s) : s[a] = x
  BY <1>1
<1>4. s \in Bijection(1..Len(s), S)
  BY <1>1, <1>2, <1>3 DEF Bijection, Injection, Surjection, IsInjective
<1>5. ExistsBijection(1..Len(s), S)
  BY <1>4 DEF ExistsBijection
<1>6. QED
  BY <1>1, <1>5, FS_CountingElements

\* Every queue, book and budget stays within its limit and no upstream call is spent
\* twice on one request, in every run of page, worker and gateway (modelGatewayClient.ts
\* MAX_QUEUED_REQUESTS and MAX_CALLS_PER_RUN, server.ts budgets and handleDecision).
THEOREM LimitsKept ==
  Spec => []LimitsHold
<1>1. ASSUME ExchangeInv PROVE TypeOK
  <2>1. PageInv /\ ServedInv /\ ArchiveInv
    BY <1>1 DEF ExchangeInv
  <2>2. /\ worker.runSeq \in Runs /\ worker.cond \in Conditions \cup {Baseline, None}
        /\ worker.issued \in 0..Requests
    BY <2>1 DEF PageInv, WorkerTyped, Workers
  <2>3. calls \in 0..MaxCalls + MaxQueued /\ Len(queue) <= MaxQueued
    BY <2>1, NumberAssumption DEF PageInv, PageTyped, PageLimits
  <2>4. failed \subseteq archive
    BY <2>1 DEF ArchiveInv
  <2>5. /\ cond \in Conditions \cup {Baseline} /\ run \in Runs
        /\ config \in Conditions \cup {None} /\ latch \in BOOLEAN /\ handshakes \in 0..MaxHandshakes
        /\ queue \in Seq(1..Requests) /\ current \in Busies \cup {None} /\ archive \subseteq 1..Requests
        /\ trace \subseteq [run : Runs, req : 1..Requests,
                            outcome : {"response", "failure", "discarded"}, observed : BOOLEAN]
        /\ view \in [final : MaybeRun, complete : BOOLEAN]
    BY <2>1 DEF PageInv, PageTyped, Ids
  <2>6. /\ up \in BOOLEAN /\ served \in Conditions
        /\ remembered \in Seq(Runs) /\ Len(remembered) <= MaxBooks
        /\ books \in [Runs -> [calls : 0..MaxCallsPerRun,
                               results : [1..Requests -> {None, "open", "response", "failure", "unusable"}]]]
        /\ total \in 0..MaxTotalCalls /\ Cardinality(adapter) <= MaxConcurrency
        /\ rows \subseteq [run : Runs, req : 1..Requests, outcome : {"response", "failure"}]
    BY <2>1 DEF ServedInv, GatewayTyped, BookSet, Ids
  <2>7. QED
    BY <2>2, <2>3, <2>4, <2>5, <2>6 DEF TypeOK
<1>2. ASSUME ExchangeInv PROVE OneCallPerRequest
  <2>1. Cardinality(adapter) <= MaxConcurrency
    BY <1>2 DEF ExchangeInv, ServedInv, GatewayTyped
  <2>2. ASSUME NEW r \in Runs
        PROVE  /\ Len(spent[r]) = Cardinality({spent[r][i] : i \in DOMAIN spent[r]})
               /\ Len(spent[r]) <= MaxCallsPerRun
    <3>1. spent[r] \in Seq(Ids) /\ books[r] \in BookSet /\ Accounts(books[r], spent[r])
      BY <1>2 DEF ExchangeInv, ServedInv, GatewayTyped, BooksInv
    <3>2. Len(spent[r]) <= MaxCallsPerRun
      BY <3>1, NumberAssumption DEF Accounts, BookSet
    <3>3. \A i \in DOMAIN spent[r] : \A j \in 1..i - 1 : spent[r][j] # spent[r][i]
      BY <3>1 DEF Accounts
    <3>4. QED
      BY <3>1, <3>2, <3>3, NoneTwice
  <2>3. QED
    BY <2>1, <2>2 DEF OneCallPerRequest
<1>3. ExchangeInv => LimitsHold
  BY <1>1, <1>2 DEF LimitsHold
<1>4. QED
  BY <1>3, ExchangeHolds, PTL

\* The evidence of a run joins, whatever is pressed, lost or refused: every archived request
\* of it is traced, queued or in dispatch, and every outcome the trace claims to come from the
\* gateway has its row on disk (runBundle.ts validateRunBundle, modelTraceWriter.ts).
THEOREM EvidenceAlwaysJoins ==
  Spec => []EvidenceJoins
<1>1. ExchangeInv => EvidenceJoins
  BY DEF ExchangeInv, ArchiveInv, EvidenceJoins, Traced, Queued, Underway, Witnessed
<1>2. QED
  BY <1>1, ExchangeHolds, PTL

\* However early a Reset is pressed, the page never counts behind the worker, so no request
\* of an older run passes for one of the page's, and what the worker hands to a run's tick
\* answers a request of that very run, each request once (workerClient.ts expectedRunSeq,
\* commandProcessor.ts runSeq, modelGatewayClient.ts recordDiscardedStaleRun).
THEOREM RunsStayApart ==
  Spec => []RunsKeptApart
<1>1. ExchangeInv => MirrorNotBehind
  BY DEF ExchangeInv, ChannelInv, MirrorNotBehind, Restarts, Restarting
<1>2. ExchangeInv => AnswersItsOwnRun
  BY DEF ExchangeInv, AnswersInv, AnswersItsOwnRun
<1>3. QED
  BY <1>1, <1>2, ExchangeHolds, PTL DEF RunsKeptApart

=============================================================================
