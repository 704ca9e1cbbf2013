---------------------------- MODULE RunFinalization ----------------------------
(***************************************************************************)
(* The life of a model run's evidence.  Engine, page and gateway each keep *)
(* their own account of every external request while the run goes on; the  *)
(* page exports ledger and bundle; the files are staged beside the         *)
(* gateway's, joined and sealed by the finalizer, which can crash between  *)
(* any two file operations and be run again, and read back by the loader.  *)
(*                                                                         *)
(* Faults are counted: a write the gateway's disk refuses, a handoff       *)
(* without hashes, the ledger of another run, a file lost or edited by     *)
(* hand, a crash of the finalizer.  A gateway that dies is not a fault: a  *)
(* drill plans it.                                                         *)
(***************************************************************************)
EXTENDS RunEvidence

CONSTANTS
  StopFirst,    \* is the gateway stopped before finalization, as M2 does?
  MaxStory,     \* bound: requests and faults in one story
  MaxFinalizes, \* bound: invocations of the finalizer
  Repeated      \* bound: may the directory be damaged twice in the same way?

ASSUME FinalizesAreCounted == MaxFinalizes \in Nat

VARIABLES
  run,       \* "running", "ended"
  engine,    \* its account of each request: fate, verdict, failed
  inbox,     \* results on their way from the page to the engine
  flight,    \* the request the page's client has posted, 0 for none
  entries,   \* the client trace: one entry per request it settled
  gateway,   \* alive, and where each POST is
  dir,       \* the run directory (module RunEvidence)
  exported,  \* the files the operator downloaded: a ledger and a bundle
  fin,       \* the finalizer: what it does next, and what it computed
  count,     \* invocations of the finalizer
  faults,    \* the faults that happened
  called     \* history: the requests the model was asked for

vars == <<run, engine, inbox, flight, entries, gateway, dir, exported, fin, count, faults, called>>

page == <<flight, entries>>
disk == <<exported, fin, count>>

Other == [run |-> "other", of |-> [r \in Requests |-> [Unsent EXCEPT !.fate = "expired"]]]
Ledger == [run |-> "own", of |-> engine]

\* A request or a fault may be added while the bound allows.
Room == Cardinality(faults) + Cardinality(Requested(Ledger)) < MaxStory
Fault(kind) == Room /\ faults' = faults \cup {kind}

-----------------------------------------------------------------------------
(* The engine.                                                             *)

\* A new opportunity supersedes the request that is still pending.
Request(r) ==
  /\ run = "running" /\ engine[r].fate = "unsent" /\ Room
  /\ \A q \in Requests : q < r => engine[q].fate # "unsent"
  /\ engine' = [q \in Requests |-> IF q = r THEN [engine[q] EXCEPT !.fate = "pending"]
                                   ELSE IF engine[q].fate = "pending" THEN [engine[q] EXCEPT !.fate = "superseded"]
                                   ELSE engine[q]]
  /\ UNCHANGED <<run, inbox, page, gateway, dir, disk, faults, called>>

Expire(r) ==
  /\ run = "running" /\ engine[r].fate = "pending"
  /\ engine' = [engine EXCEPT ![r].fate = "expired"]
  /\ UNCHANGED <<run, inbox, page, gateway, dir, disk, faults, called>>

\* A rejected response leaves its request pending; what comes for a request
\* already resolved is rejected, or, a failure, dropped without an event.
Drained(r, kind) ==
  IF kind = "response"
  THEN IF engine[r].fate = "pending"
       THEN {[engine EXCEPT ![r].fate = "accepted", ![r].verdict = "accepted"],
             [engine EXCEPT ![r].verdict = "rejected"]}
       ELSE {[engine EXCEPT ![r].verdict = "rejected"]}
  ELSE IF engine[r].fate = "pending" THEN {[engine EXCEPT ![r].fate = "expired", ![r].failed = TRUE]}
       ELSE {engine}

Drain ==
  /\ run = "running"
  /\ \E m \in inbox :
       /\ inbox' = inbox \ {m}
       /\ engine' \in Drained(m.req, m.kind)
  /\ UNCHANGED <<run, page, gateway, dir, disk, faults, called>>

\* endScenario expires what is pending; nothing is drained any more.
EndScenario ==
  /\ run = "running"
  /\ run' = "ended"
  /\ engine' = [r \in Requests |-> IF engine[r].fate = "pending" THEN [engine[r] EXCEPT !.fate = "expired"]
                                   ELSE engine[r]]
  /\ inbox' = {}
  /\ UNCHANGED <<page, gateway, dir, disk, faults, called>>

-----------------------------------------------------------------------------
(* The page's gateway client: one POST at a time.                          *)

Waiting(r) == engine[r].fate # "unsent" /\ entries[r] = None /\ flight # r

\* submitResponse or submitFailure; the engine of a finished run hears nothing.
Submit(r, kind) == inbox' = IF run = "running" THEN inbox \cup {[req |-> r, kind |-> kind]} ELSE inbox

Settle(r, outcome, code, observed) ==
  /\ entries' = [entries EXCEPT ![r] = [outcome |-> outcome, code |-> code, observed |-> observed]]
  /\ Submit(r, outcome)

\* Out of budget, latched, or no gateway to connect to: no POST is made.
FailUndispatched(r) ==
  /\ Waiting(r)
  /\ \E code \in {"budget-exhausted", "invalid-gateway-response", "gateway-unavailable"} :
       Settle(r, "failure", code, FALSE)
  /\ UNCHANGED <<run, engine, flight, gateway, dir, disk, faults, called>>

Dispatch(r) ==
  /\ flight = 0 /\ Waiting(r)
  /\ \A q \in Requests : Waiting(q) => r <= q
  /\ flight' = r
  /\ gateway' = [gateway EXCEPT !.at[r] = IF gateway.alive THEN "sent" ELSE "gone"]
  /\ UNCHANGED <<run, engine, inbox, entries, dir, disk, faults, called>>

\* The exchange is over, or the client's timer fires.
Hear(r) ==
  /\ flight = r
  /\ LET at == gateway.at[r] IN
     CASE at = "response" -> Settle(r, "response", "none", TRUE)
       [] at = "failure" -> Settle(r, "failure", "gateway", TRUE)
       [] at = "error" -> Settle(r, "failure", "invalid-gateway-response", FALSE)
       [] at = "gone" -> Settle(r, "failure", "gateway-unavailable", FALSE)
       [] OTHER -> FALSE
  /\ flight' = 0
  /\ UNCHANGED <<run, engine, gateway, dir, disk, faults, called>>

TimeOut(r) ==
  /\ flight = r
  /\ Settle(r, "failure", "request-timeout", FALSE)
  /\ flight' = 0
  /\ UNCHANGED <<run, engine, gateway, dir, disk, faults, called>>

-----------------------------------------------------------------------------
(* The gateway.  It does not notice that a client gave up.                 *)

\* Mutated form of Receive: the model is asked before the request is on disk.
ReceiveUnrecorded(r) ==
  /\ gateway.alive /\ gateway.at[r] = "sent"
  /\ gateway' = [gateway EXCEPT !.at[r] = "upstream"]
  /\ called' = called \cup {r}
  /\ dir' = [dir EXCEPT !.seed = TRUE]
  /\ UNCHANGED <<run, engine, inbox, page, disk, faults>>

\* seedRunManifest and writeRequest come before the budget and the adapter.
Receive(r) ==
  /\ gateway.alive /\ gateway.at[r] = "sent"
  /\ \/ /\ dir' = [dir EXCEPT !.seed = TRUE, !.sidecars[r] = "own"]
        /\ gateway' = [gateway EXCEPT !.at[r] = "upstream"]
        /\ called' = called \cup {r}
        /\ UNCHANGED faults
     \/ /\ dir' = [dir EXCEPT !.seed = TRUE, !.sidecars[r] = "own", !.rows[r] = <<"budget-exhausted">>]
        /\ gateway' = [gateway EXCEPT !.at[r] = "failure"]
        /\ UNCHANGED <<called, faults>>
     \/ /\ Fault("sidecar")
        /\ dir' = [dir EXCEPT !.seed = TRUE]
        /\ gateway' = [gateway EXCEPT !.at[r] = "error"]
        /\ UNCHANGED called
  /\ UNCHANGED <<run, engine, inbox, page, disk>>

\* The model answered usably, unusably, or the adapter threw.  The first two are
\* written inside the try: what refuses the write ends in a second failure row.
Written(r, outcome, rows, at) ==
  /\ dir' = [dir EXCEPT !.rows[r] = rows,
                        !.routing = IF Routed /\ outcome = "ok" THEN @ \cup {r} ELSE @]
  /\ gateway' = [gateway EXCEPT !.at[r] = at]

AdapterReturns(r) ==
  /\ gateway.alive /\ gateway.at[r] = "upstream"
  /\ \/ /\ \/ Written(r, "ok", <<"response">>, "response")
           \/ \E o \in {"invalid-model-output", "upstream-error"} : Written(r, "ok", <<o>>, "failure")
        /\ UNCHANGED faults
     \/ /\ Fault("append")
        /\ \/ Written(r, "append", <<"upstream-error">>, "failure")
           \/ Written(r, "append", <<>>, "error")
     \/ /\ Routed /\ Fault("routing")
        /\ \/ \E o \in {"response", "invalid-model-output"} :
                Written(r, "routing", <<o, "upstream-error">>, "failure")
           \/ Written(r, "routing", <<"upstream-error">>, "error")
  /\ UNCHANGED <<run, engine, inbox, page, disk, called>>

\* Killed, stopped or crashed: every open exchange breaks.
GatewayEnds ==
  /\ gateway.alive
  /\ gateway' = [alive |-> FALSE,
                 at |-> [r \in Requests |-> IF gateway.at[r] = "none" THEN "none" ELSE "gone"]]
  /\ UNCHANGED <<run, engine, inbox, page, dir, disk, faults, called>>

-----------------------------------------------------------------------------
(* Export and staging.                                                     *)

Idle == flight = 0 /\ \A r \in Requests : ~Waiting(r)

\* The export waits for the client to be idle; the handoff may lack its hashes.
Export ==
  /\ run = "ended" /\ exported = None /\ Idle
  /\ \/ exported' = [ledger |-> Ledger, bundle |-> [entries |-> entries, binds |-> Ledger]] /\ UNCHANGED faults
     \/ /\ Fault("unbound")
        /\ exported' = [ledger |-> Ledger, bundle |-> [entries |-> entries, binds |-> None]]
  /\ UNCHANGED <<run, engine, inbox, page, gateway, dir, fin, count, called>>

\* prepareRunDirectory: everything is compared before anything is copied.
Stage(ledger, bundle) ==
  /\ bundle # None => bundle.binds \in {None, ledger}
  /\ dir' = [dir EXCEPT !.ledger = ledger, !.bundle = IF bundle # None THEN bundle ELSE @]

prepareRunDirectory ==
  /\ exported # None /\ dir.ledger = None /\ dir.seed
  /\ StopFirst => ~gateway.alive
  /\ \/ Stage(exported.ledger, exported.bundle) /\ UNCHANGED faults
     \/ Fault("bundle") /\ Stage(exported.ledger, None)
     \/ Fault("ledger") /\ \E bundle \in {None, exported.bundle} : Stage(Other, bundle)
  /\ UNCHANGED <<run, engine, inbox, page, gateway, disk, called>>

\* What a client writes of a request, and what a valid ledger can say of one.
Told == [outcome : {"response"}, code : {"none"}, observed : {TRUE}]
        \cup [outcome : {"failure"}, code : {"gateway"}, observed : {TRUE}]
        \cup [outcome : {"failure"}, code : {"budget-exhausted", "request-timeout"}, observed : {FALSE}]
Lived == {a \in [fate : {"accepted", "expired", "superseded"}, verdict : {"none", "accepted", "rejected"}, failed : BOOLEAN] :
            (a.fate = "accepted" <=> a.verdict = "accepted") /\ (a.failed => a.fate = "expired")} \cup {Unsent}

\* A file is lost or cut.
Lost ==
  {[dir EXCEPT !.rows = [r \in Requests |-> <<>>]], [dir EXCEPT !.bundle = None], [dir EXCEPT !.routing = {}]}
  \cup {[dir EXCEPT !.rows[r] = Front(@)] : r \in {q \in Requests : HasRow(dir, q)}}
  \cup {[dir EXCEPT !.sidecars[r] = "none"] : r \in Requests}

\* An envelope, an entry of the client trace or an account of the ledger is edited,
\* and every hash the file itself holds is recomputed.
Edited ==
  {[dir EXCEPT !.sidecars[r] = "edited"] : r \in {q \in Requests : HasSidecar(dir, q)}}
  \cup {[dir EXCEPT !.bundle.entries[r] = e] : r \in {q \in Requests : dir.bundle # None}, e \in Told \cup {None}}
  \cup {[dir EXCEPT !.ledger.of[r] = a] : r \in Requests, a \in Lived}

\* By hand, between finalizations.  Two edits are told apart: the gateway's rows of a
\* request rewritten, and the handoff given the hashes of the ledger that is there.
Damaged(kind) == Fault(kind) /\ (kind \in faults => Repeated)

Damage ==
  /\ dir.ledger # None /\ fin.pc = "idle"
  /\ \/ Damaged("damage") /\ dir' \in Lost \cup Edited
     \/ Damaged("row") /\ \E r \in Requests, story \in Stories : dir' = [dir EXCEPT !.rows[r] = story]
     \/ Damaged("rebound") /\ dir.bundle # None /\ dir' = [dir EXCEPT !.bundle.binds = dir.ledger]
  /\ dir' # dir
  /\ UNCHANGED <<run, engine, inbox, page, gateway, disk, called>>

-----------------------------------------------------------------------------
(* The finalizer.                                                          *)

NoFin == [pc |-> "idle", staged |-> None]

\* Mutated form of Downgrades: it looks at the bundle manifest.
DowngradesSealed == dir.manifest # None /\ dir.manifest.status = "completed" /\ status(dir) = "degraded"

\* A completed run is never downgraded.
Downgrades == dir.final # None /\ dir.final.status = "completed" /\ status(dir) = "degraded"

\* Everything is read and judged first; a refusal writes nothing.
Finalize(allowDegraded) ==
  /\ fin.pc = "idle" /\ count < MaxFinalizes /\ dir.ledger # None
  /\ ~Fatal(dir)
  /\ status(dir) = "completed" \/ allowDegraded
  /\ ~Downgrades
  /\ count' = count + 1
  /\ fin' = [pc |-> "summary",
             staged |-> [trace |-> finalizedTrace(dir, count'), final |-> finalManifest(dir, count'), summary |-> None]]
  /\ UNCHANGED <<run, engine, inbox, page, gateway, dir, exported, faults, called>>

Step(from, to) == fin.pc = from /\ fin' = [fin EXCEPT !.pc = to]
Elsewhere == UNCHANGED <<run, engine, inbox, page, gateway, exported, count, faults, called>>

Summarized ==
  /\ fin.pc = "summary"
  /\ fin' = [pc |-> "unsealing", staged |-> [fin.staged EXCEPT !.summary = buildModelSummary(dir, count)]]
  /\ UNCHANGED dir /\ Elsewhere

Unseal == Step("unsealing", "trace") /\ dir' = [dir EXCEPT !.manifest = None] /\ Elsewhere
RenameTrace == Step("trace", "final") /\ dir' = [dir EXCEPT !.trace = fin.staged.trace] /\ Elsewhere
RenameFinal == Step("final", "derived") /\ dir' = [dir EXCEPT !.final = fin.staged.final] /\ Elsewhere
RenameSummary == Step("derived", "sealing") /\ dir' = [dir EXCEPT !.summary = fin.staged.summary] /\ Elsewhere

Seal ==
  /\ fin.pc = "sealing" /\ fin' = NoFin
  /\ dir' = [dir EXCEPT !.manifest = bundleManifest(dir, "model:finalize", fin.staged.final.status)]
  /\ Elsewhere

\* The process ends between two file operations, or a rename keeps failing.
Crash ==
  /\ fin.pc # "idle"
  /\ Fault("crash")
  /\ fin' = NoFin
  /\ UNCHANGED <<run, engine, inbox, page, gateway, dir, exported, count, called>>

\* The informal summarizer keeps off a directory that has a final manifest.
summarizeRunDirectory ==
  /\ fin.pc = "idle" /\ dir.ledger # None /\ dir.final = None
  /\ LET summarized == [dir EXCEPT !.summary = buildModelSummary(dir, 0)] IN
     dir' = [summarized EXCEPT !.manifest = bundleManifest(summarized, "model:summarize", None)]
  /\ dir' # dir
  /\ UNCHANGED fin /\ Elsewhere

-----------------------------------------------------------------------------
Init ==
  /\ run = "running" /\ inbox = {} /\ flight = 0
  /\ engine = [r \in Requests |-> Unsent]
  /\ entries = [r \in Requests |-> None]
  /\ gateway = [alive |-> TRUE, at |-> [r \in Requests |-> "none"]]
  /\ dir = [seed |-> FALSE, rows |-> [r \in Requests |-> <<>>], sidecars |-> [r \in Requests |-> "none"],
            routing |-> {}, ledger |-> None, bundle |-> None,
            trace |-> None, final |-> None, summary |-> None, manifest |-> None]
  /\ exported = None /\ fin = NoFin /\ count = 0 /\ faults = {} /\ called = {}

Commit == Summarized \/ Unseal \/ RenameTrace \/ RenameFinal \/ RenameSummary \/ Seal

Next ==
  \/ Drain \/ EndScenario
  \/ \E r \in Requests : Request(r) \/ Expire(r)
  \/ \E r \in Requests : FailUndispatched(r) \/ Dispatch(r) \/ Hear(r) \/ TimeOut(r)
  \/ GatewayEnds
  \/ \E r \in Requests : Receive(r) \/ AdapterReturns(r)
  \/ Export \/ prepareRunDirectory \/ Damage
  \/ \E allowDegraded \in BOOLEAN : Finalize(allowDegraded)
  \/ Commit \/ Crash \/ summarizeRunDirectory

Spec == Init /\ [][Next]_vars

-----------------------------------------------------------------------------
(* Properties.                                                             *)

\* Every variable stays in its range: the accounts of the three parties, the
\* files of the run directory and the finalizer's local state.
TypeOK ==
  /\ run \in {"running", "ended"}
  /\ engine \in Accounts
  /\ inbox \subseteq [req : Requests, kind : {"response", "failure"}]
  /\ flight \in {0} \cup Requests
  /\ \A r \in Requests : entries[r] # None => entries[r].outcome \in {"response", "failure"}
  /\ gateway.alive \in BOOLEAN
  /\ gateway.at \in [Requests -> {"none", "sent", "upstream", "response", "failure", "error", "gone"}]
  /\ dir.seed \in BOOLEAN /\ dir.routing \subseteq Requests
  /\ \A r \in Requests : Range(dir.rows[r]) \subseteq Outcomes /\ Len(dir.rows[r]) <= 2
  /\ dir.sidecars \in [Requests -> {"none", "own", "edited"}]
  /\ dir.ledger # None => dir.ledger \in Ledgers
  /\ fin.pc \in {"idle", "summary", "unsealing", "trace", "final", "derived", "sealing"}
  /\ fin.pc = "idle" <=> fin.staged = None
  /\ count \in 0..MaxFinalizes /\ called \subseteq Requests

\* finalize.ts, strict mode: whatever the order of timeouts, late rows, a dying
\* gateway, answers after the end and crashes of the finalizer, the evidence of a
\* run that nothing damaged is never refused and never judged incomplete.
HonestRunCompletes ==
  dir.ledger # None /\ faults \subseteq {"crash"} =>
    ~Fatal(dir) /\ failedCriteria(dir) = {} /\ ~Downgrades

\* classifyDisposition (finalize.ts): the disposition written for a request of an
\* undamaged run is what happened to it.  A never-dispatched request did not reach
\* the model; one the engine judged was answered in the sight of the client.
DispositionTellsTruth ==
  dir.trace # None /\ faults \cap {"damage", "row", "rebound", "ledger"} = {} =>
    \A r \in DOMAIN dir.trace.rows :
      LET row == dir.trace.rows[r] IN
      /\ row.disposition = "never-dispatched" => r \notin called
      /\ row.disposition = "gateway-answered" /\ row.gateway = "response" =>
           r \in called /\ entries[r].outcome = "response"
      /\ row.engine \in {"accepted", "rejected"} =>
           row.disposition \in {"gateway-answered", "none"}

\* summarize.ts: the two files of one sealed bundle that tell of a request agree.
SummaryAgrees ==
  loadStrictFinalizedRun(dir) =>
    \A r \in DOMAIN dir.trace.rows : dir.trace.rows[r].gateway = Row([rows |-> dir.summary.rows], r)

\* loadStrictFinalizedRun (evidence.ts): whatever was lost, swapped or edited in a
\* directory before or after it was finalized, and wherever the finalizer crashed, what
\* it accepts holds derived files of one and the same finalization; the ledger of this
\* run, unless the handoff was given the hashes of another; and for every response that
\* ledger judges the client's word that it saw it, the envelope they share and exactly
\* one row of the gateway - the row the gateway wrote, unless the trace was edited:
\* nothing binds the content of a row, as the handoff binds the ledger.
WhatLoadsIsTheRun ==
  loadStrictFinalizedRun(dir) =>
    /\ dir.trace.by = dir.final.by /\ dir.summary.by = dir.final.by
    /\ dir.summary.rows = dir.rows
    /\ "rebound" \notin faults => dir.ledger = Ledger
    /\ \A r \in Requested(dir.ledger) : dir.ledger.of[r].verdict # "none" =>
         /\ Observed(dir, r) /\ dir.sidecars[r] = "own" /\ Len(dir.rows[r]) = 1
         /\ faults \cap {"row", "rebound"} = {} => dir.rows[r] = <<"response">>

\* A bundle sealed as completed, and left alone, loads.  (A request with two rows
\* is counted twice by the final manifest and once by the loader.)
CompletedLoads ==
  /\ verifyBundleIntegrity(dir) /\ dir.manifest.status = "completed"
  /\ \A r \in Requests : Len(dir.rows[r]) <= 1
  => loadStrictFinalizedRun(dir)

\* The loader accepts only the evidence of this run, out of variables that stay in their
\* ranges (evidence.ts loadStrictFinalizedRun, finalize.ts).
LoaderIsRight == TypeOK /\ WhatLoadsIsTheRun

\* finalize.ts refuses to replace a completed final manifest by a degraded one,
\* across crashes and repeated invocations.
CompletedStays ==
  [][dir.final # None /\ dir.final.status = "completed" =>
       dir'.final # None /\ dir'.final.status = "completed"]_vars

=============================================================================
