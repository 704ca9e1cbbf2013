------------------------------ MODULE ModelGateway ------------------------------
(***************************************************************************)
(* The model gateway (src/gateway/server.ts): a local HTTP server between  *)
(* the browser and the model.  It answers one registered condition,        *)
(* remembers what it answered each run's requests, and spends upstream     *)
(* calls within a budget per run, per process and at a time.               *)
(*                                                                         *)
(* Node runs a handler up to its next await at one go.  Receive is         *)
(* handleDecision up to the adapter call; AdapterReturns is what follows.  *)
(***************************************************************************)
EXTENDS Integers, Sequences, FiniteSets

CONSTANTS
  Conditions,       \* the model-backed conditions a gateway can be started for
  Runs, Requests,   \* run ids and request ids (ids repeat from run to run)
  MaxBooks,         \* runs remembered (64 in the code)
  MaxCallsPerRun, MaxTotalCalls, MaxConcurrency,
  MaxStarts,        \* bound: how often the operator starts the process
  DiskFaults,       \* may the trace directory refuse a write?
  None

VARIABLES
  up, served,       \* is a gateway process running, and for which condition
  remembered,       \* the keys of runBudgets, oldest first
  books,            \* runBudgets[run]: calls spent, and what each request got
  total,            \* totalCalls
  adapter,          \* the dispatches awaiting the model
  rows,             \* the model-trace.jsonl rows of all runs (on disk)
  wire,             \* the POST exchanges the browser or the network still holds
  starts,
  spent             \* history: the upstream calls made in each book, in order

Idle == UNCHANGED <<up, served, remembered, books, total, adapter, rows, starts, spent>>

\* An exchange is "sent", then perhaps "held" while the model is asked, then
\* carries back a parsed result, or "unusable": a non-OK status.
Results == {"response", "failure"}
NewBook == [calls |-> 0, results |-> [q \in Requests |-> None]]

Row(run, req, outcome) == [run |-> run, req |-> req, outcome |-> outcome]

-----------------------------------------------------------------------------
\* The response is written; nobody reads it if the browser hung up.
Reply(m, what) ==
  (wire \ {m}) \cup (IF m.live THEN {[m EXCEPT !.state = what]} ELSE {})

Hold(m) == (wire \ {m}) \cup {[m EXCEPT !.state = "held"]}

\* runBudgets.set, then the eviction of the oldest run beyond the limit.
Keys(run) ==
  IF \E i \in DOMAIN remembered : remembered[i] = run THEN remembered
  ELSE Append(remembered, run)
Evicted(run) ==
  IF Len(Keys(run)) > MaxBooks /\ Head(Keys(run)) # run THEN {Head(Keys(run))} ELSE {}

Remember(run) == remembered' = IF Evicted(run) = {} THEN Keys(run) ELSE Tail(Keys(run))

Forget(f, runs, blank) == [r \in Runs |-> IF r \in runs THEN blank ELSE f[r]]

\* budget-exhausted, on any of the three limits
Exhausted(run) ==
  \/ books[run].calls >= MaxCallsPerRun
  \/ total >= MaxTotalCalls
  \/ Cardinality(adapter) >= MaxConcurrency

\* Mutated form of Opened: remembered only when the answer is there.
Counted(book, req) == [book EXCEPT !.calls = @ + 1]

\* What the run's book says of a request whose dispatch has begun.
Opened(book, req) == [book EXCEPT !.calls = @ + 1, !.results[req] = "open"]

\* A dispatch keeps the book it was opened in, which may be nobody's by now.
Orphaned(run) == {[d EXCEPT !.kept = @ /\ d.run \notin Evicted(run)] : d \in adapter}

\* dispatchDecision, up to the call of the model
Refuse(m, reply) ==
  /\ books' = Forget([books EXCEPT ![m.run].results[m.req] = reply], Evicted(m.run), NewBook)
  /\ spent' = Forget(spent, Evicted(m.run), <<>>)
  /\ wire' = Reply(m, reply)
  /\ UNCHANGED total

Call(m) ==
  /\ books' = Forget([books EXCEPT ![m.run] = Opened(@, m.req)], Evicted(m.run), NewBook)
  /\ total' = total + 1
  /\ adapter' = Orphaned(m.run) \cup {[run |-> m.run, req |-> m.req, kept |-> TRUE]}
  /\ spent' = Forget([spent EXCEPT ![m.run] = Append(@, m.req)], Evicted(m.run), <<>>)
  /\ wire' = Hold(m)
  /\ UNCHANGED rows

Dispatch(m) ==
  \/ ~Exhausted(m.run) /\ Call(m)
  \/ /\ Exhausted(m.run) /\ Refuse(m, "failure") /\ adapter' = Orphaned(m.run)
     /\ rows' = rows \cup {Row(m.run, m.req, "failure")}
  \/ /\ DiskFaults /\ Refuse(m, "unusable") /\ adapter' = Orphaned(m.run)
     /\ UNCHANGED rows

\* handleDecision: another condition's envelope is refused unread; a request
\* seen before gets the same answer, or joins the wait for it.
Receive(m) ==
  /\ up /\ m \in wire /\ m.state = "sent"
  /\ UNCHANGED <<up, served, starts>>
  /\ IF m.cond # served THEN
       /\ wire' = Reply(m, "unusable")
       /\ UNCHANGED <<remembered, books, total, adapter, rows, spent>>
     ELSE
       /\ Remember(m.run)
       /\ LET prior == books[m.run].results[m.req] IN
          IF prior = None THEN Dispatch(m) ELSE
          /\ wire' = IF prior = "open" THEN Hold(m) ELSE Reply(m, prior)
          /\ UNCHANGED <<books, total, adapter, rows, spent>>

\* The adapter's answer, refusal, error or timeout.  When the trace directory
\* cannot be written the row may or may not be there, or be there twice over.
Faults ==
  {[reply |-> "unusable", rows |-> rs] : rs \in {{}, {"response"}, {"failure"}}}
  \cup {[reply |-> "failure", rows |-> Results]}

Answers ==
  {[reply |-> r, rows |-> {r}] : r \in Results} \cup IF DiskFaults THEN Faults ELSE {}

\* Only the book the dispatch was opened in remembers the result.
Closed(d, reply) ==
  IF d.kept THEN [books EXCEPT ![d.run].results[d.req] = reply] ELSE books

AdapterReturns(d, answer) ==
  /\ d \in adapter
  /\ adapter' = adapter \ {d}
  /\ books' = Closed(d, answer.reply)
  /\ rows' = rows \cup {Row(d.run, d.req, o) : o \in answer.rows}
  /\ wire' = {IF x.run = d.run /\ x.req = d.req /\ x.state = "held"
              THEN [x EXCEPT !.state = answer.reply] ELSE x :
                x \in {y \in wire : y.run = d.run /\ y.req = d.req /\ y.state = "held" => y.live}}
  /\ UNCHANGED <<up, served, remembered, total, starts, spent>>

\* The process exits: after the grace period whatever is in flight is cut.
Stop ==
  /\ up
  /\ up' = FALSE
  /\ remembered' = <<>> /\ books' = [r \in Runs |-> NewBook] /\ total' = 0 /\ adapter' = {}
  /\ spent' = [r \in Runs |-> <<>>] /\ wire' = {}
  /\ UNCHANGED <<served, rows, starts>>

\* Connections tried while nothing listened were refused.
Start(c) ==
  /\ ~up /\ starts < MaxStarts
  /\ up' = TRUE /\ served' = c /\ starts' = starts + 1 /\ wire' = {}
  /\ UNCHANGED <<remembered, books, total, adapter, rows, spent>>

\* The transport resends a POST whose connection died before any reply.
Resend(m) ==
  /\ m \in wire /\ m.state = "held" /\ m.live /\ ~m.again
  /\ wire' = (wire \ {m}) \cup {[m EXCEPT !.state = "sent", !.again = TRUE]}
  /\ Idle

GatewayInit ==
  /\ up = FALSE /\ served \in Conditions /\ remembered = <<>> /\ books = [r \in Runs |-> NewBook]
  /\ total = 0 /\ adapter = {} /\ rows = {} /\ wire = {} /\ starts = 0
  /\ spent = [r \in Runs |-> <<>>]

Gateway ==
  \/ \E m \in wire : Receive(m) \/ Resend(m)
  \/ \E d \in adapter, a \in Answers : AdapterReturns(d, a)
  \/ Stop \/ \E c \in Conditions : Start(c)
=============================================================================
