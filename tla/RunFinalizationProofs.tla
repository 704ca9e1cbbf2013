------------------------- MODULE RunFinalizationProofs -------------------------
(***************************************************************************)
(* What the evidence of a run is worth, proved for any number of requests  *)
(* and faults and of invocations of the finalizer.  The invariant tells    *)
(* the story of one request three times, as the gateway, the page and the  *)
(* engine know it, and then what staging, the finalizer and its sealed     *)
(* bundle make of the three.                                               *)
(***************************************************************************)
EXTENDS RunFinalization, TLAPS

-----------------------------------------------------------------------------
(* Types                                                                   *)

Places == {"none", "sent", "upstream", "response", "failure", "error", "gone"}
Stations == {"idle", "summary", "unsealing", "trace", "final", "derived", "sealing"}

Directory(d) ==
  /\ d = [seed |-> d.seed, rows |-> d.rows, sidecars |-> d.sidecars, routing |-> d.routing,
          ledger |-> d.ledger, bundle |-> d.bundle, trace |-> d.trace, final |-> d.final,
          summary |-> d.summary, manifest |-> d.manifest]
  /\ d.seed \in BOOLEAN
  /\ d.rows \in Histories
  /\ d.sidecars \in [Requests -> {"none", "own", "edited"}]
  /\ d.routing \in SUBSET Requests
  /\ d.ledger \in Ledgers \cup {None}
  /\ d.bundle \in Bundles \cup {None}

TypeInv ==
  /\ run \in {"running", "ended"}
  /\ engine \in Accounts
  /\ inbox \in SUBSET [req : Requests, kind : {"response", "failure"}]
  /\ flight \in {0} \cup Requests
  /\ entries \in [Requests -> Entries \cup {None}]
  /\ gateway \in [alive : BOOLEAN, at : [Requests -> Places]]
  /\ Directory(dir)
  /\ exported \in [ledger : Ledgers, bundle : Bundles] \cup {None}
  /\ fin \in [pc : Stations, staged : Stagings \cup {None}]
  /\ fin.pc = "idle" <=> fin.staged = None
  /\ count \in 0..MaxFinalizes
  /\ called \in SUBSET Requests

-----------------------------------------------------------------------------
(* One request, told three times                                           *)

Undamaged == {"damage", "row", "rebound"} \cap faults = {}
Unwritten == "row" \notin faults
Honest == faults \subseteq {"crash"}

\* The gateway's files follow its POST from place to place; damage only takes rows away,
\* unless somebody writes them.
AtGateway(r) ==
  /\ gateway.at[r] \in {"none", "sent"} =>
       dir.sidecars[r] = "none" /\ r \notin dir.routing /\ r \notin called
  /\ gateway.at[r] \in {"none", "sent", "upstream"} /\ Unwritten => dir.rows[r] = <<>>
  /\ gateway.at[r] \in {"upstream", "response"} => r \in called
  /\ gateway.at[r] = "response" /\ Unwritten => dir.rows[r] \in {<<>>, <<"response">>}
  /\ gateway.at[r] \in {"response", "failure"} /\ Undamaged => dir.rows[r] # <<>>
  /\ gateway.at[r] = "failure" /\ Undamaged => Last(dir.rows[r]) # "response"
  /\ gateway.at[r] = "error" => ~Honest
  /\ Undamaged => dir.sidecars[r] # "edited"
  /\ Undamaged /\ (dir.rows[r] # <<>> \/ r \in dir.routing \/ r \in called) => dir.sidecars[r] = "own"
  /\ Honest /\ dir.rows[r] # <<>> => Len(dir.rows[r]) = 1
  /\ Honest /\ Routed /\ dir.rows[r] = <<"response">> => r \in dir.routing

\* The client's entry: at most one, of a request it was asked for.
AtPage(r) ==
  /\ flight = r => entries[r] = None /\ gateway.at[r] # "none"
  /\ gateway.at[r] # "none" => flight = r \/ entries[r] # None
  /\ flight = r \/ entries[r] # None => engine[r].fate # "unsent"
  /\ entries[r] # None /\ entries[r].outcome = "response" =>
       /\ entries[r].observed /\ r \in called
       /\ Unwritten => dir.rows[r] \in {<<>>, <<"response">>}
  /\ entries[r] # None /\ entries[r].observed =>
       /\ gateway.at[r] \in {"response", "failure", "gone"}
       /\ Undamaged => dir.rows[r] # <<>>
       /\ Undamaged /\ entries[r].outcome = "failure" => Last(dir.rows[r]) # "response"
  /\ entries[r] # None /\ ~entries[r].observed /\ Honest =>
       \/ entries[r].code \in {"request-timeout", "gateway-unavailable"}
       \/ gateway.at[r] = "none"

\* The engine hears of a request what the client settled, and nothing else.
AtEngine(r) ==
  /\ \A m \in inbox : m.req = r => entries[r] # None /\ entries[r].outcome = m.kind
  /\ engine[r].verdict # "none" => entries[r] # None /\ entries[r].outcome = "response"
  /\ engine[r].failed => entries[r] # None /\ entries[r].outcome = "failure"
  /\ engine[r].fate = "accepted" => engine[r].verdict # "none"
  /\ run = "ended" => engine[r].fate # "pending"

StoryInv == \A r \in Requests : AtGateway(r) /\ AtPage(r) /\ AtEngine(r)

-----------------------------------------------------------------------------
(* Export, staging and the finalizer                                       *)

Exported(x) ==
  /\ run = "ended" /\ Idle
  /\ x.ledger = Ledger /\ x.bundle.entries = entries
  /\ x.bundle.binds \in {None, Ledger}
  /\ Honest => x.bundle.binds = Ledger

Staged(d) ==
  /\ d.seed /\ exported # None
  /\ d.ledger = Ledger \/ (d.ledger = Other /\ "ledger" \in faults) \/ ~Undamaged
  /\ Undamaged => d.bundle \in {None, exported.bundle}
  /\ d.bundle # None /\ "rebound" \notin faults => d.bundle.binds \in {None, Ledger}
  /\ Honest => d.bundle = exported.bundle
  /\ StopFirst => ~gateway.alive

StageInv ==
  /\ exported # None => Exported(exported)
  /\ dir.ledger # None => Staged(dir)
  /\ dir.ledger = None => dir.bundle = None

\* Nothing is derived before the ledger is there.
EmptyInv == dir.ledger = None => fin.pc = "idle" /\ dir.trace = None /\ dir.manifest = None

\* A finalization that runs does not downgrade.
UpwardInv ==
  fin.pc # "idle" /\ dir.final # None /\ dir.final.status = "completed" =>
    fin.staged.final.status = "completed"

\* What a finalization derives from a directory it can judge.
Derived(d, n, trace, final) ==
  trace = finalizedTrace(d, n) /\ final = finalManifest(d, n) /\ ~Fatal(d)

Whole(d) ==
  \E n \in 0..MaxFinalizes :
    Derived(d, n, d.trace, d.final) /\ d.summary = buildModelSummary(d, n)

\* A manifest of the finalizer covers one finalization, and has its verdict.
TrueSeal(m) == Whole(m.covers) /\ m.status = m.covers.final.status

\* The commit is a walk: each station has renamed what the ones before it staged.
AtWork ==
  /\ dir.ledger # None
  /\ Derived(dir, count, fin.staged.trace, fin.staged.final)
  /\ fin.pc # "summary" => fin.staged.summary = buildModelSummary(dir, count)
  /\ fin.pc \in {"final", "derived", "sealing"} => dir.trace = fin.staged.trace
  /\ fin.pc \in {"derived", "sealing"} => dir.final = fin.staged.final
  /\ fin.pc = "sealing" => dir.summary = fin.staged.summary

FinalInv ==
  /\ fin.pc # "idle" => AtWork
  /\ dir.trace # None /\ Undamaged => \E n \in 0..MaxFinalizes : dir.trace = finalizedTrace(dir, n)
  /\ dir.manifest # None /\ dir.manifest.producer = "model:finalize" => TrueSeal(dir.manifest)

-----------------------------------------------------------------------------
(* The rows of a request                                                   *)

\* The sequences the gateway can write for a request, and what is read of them.
LEMMA StoriesOpen ==
  /\ <<>> \in Stories
  /\ \A o \in Outcomes : <<o>> \in Stories
  /\ \A o, p \in Outcomes : <<o, p>> \in Stories
<1>1. <<>> \in [1..0 -> Outcomes]
  OBVIOUS
<1>2. \A o \in Outcomes : <<o>> \in [1..1 -> Outcomes]
  OBVIOUS
<1>3. \A o, p \in Outcomes : <<o, p>> \in [1..2 -> Outcomes]
  OBVIOUS
<1>4. QED
  BY <1>1, <1>2, <1>3 DEF Stories

LEMMA OneRow == \A o : <<o>> # <<>> /\ Len(<<o>>) = 1 /\ Last(<<o>>) = o
BY DEF Last

LEMMA StoriesRead ==
  ASSUME NEW s \in Stories
  PROVE  /\ s \in Seq(Outcomes) /\ Len(s) <= 2 /\ Range(s) \subseteq Outcomes
         /\ s # <<>> => Last(s) \in Outcomes /\ Front(s) \in Stories
<1>1. PICK n \in 0..2 : s \in [1..n -> Outcomes]
  BY DEF Stories
<1>2. s \in Seq(Outcomes) /\ Len(s) = n
  BY <1>1
<1>3. Range(s) \subseteq Outcomes
  BY <1>1 DEF Range
<1>4. ASSUME s # <<>> PROVE Last(s) \in Outcomes /\ Front(s) \in Stories
  <2>1. n \in 1..2
    BY <1>1, <1>2, <1>4
  <2>2. Last(s) \in Outcomes
    BY <1>1, <1>2, <2>1 DEF Last
  <2>3. Front(s) \in Seq(Outcomes) /\ Len(Front(s)) = n - 1
    BY <1>2, <2>1 DEF Front
  <2>4. Front(s) \in [1..(n - 1) -> Outcomes]
    BY <2>1, <2>3
  <2>5. QED
    BY <2>1, <2>2, <2>4 DEF Stories
<1>5. QED
  BY <1>1, <1>2, <1>3, <1>4

-----------------------------------------------------------------------------
(* Types are kept                                                          *)

LEMMA InitType == ASSUME Init PROVE TypeInv
<1>1. Directory(dir)
  <2>1. dir.rows \in Histories
    BY StoriesOpen DEF Init, Histories
  <2>2. QED
    BY <2>1 DEF Init, Directory
<1>2. engine \in Accounts
  BY DEF Init, Accounts, Unsent, Fates
<1>3. QED
  BY <1>1, <1>2, FinalizesAreCounted DEF Init, TypeInv, NoFin, Places, Stations

\* The files that the gateway does not touch.
Untouched(d, e) ==
  /\ e.ledger = d.ledger /\ e.bundle = d.bundle
  /\ e.trace = d.trace /\ e.final = d.final /\ e.summary = d.summary /\ e.manifest = d.manifest

LEMMA GatewayTyped == TypeInv => gateway = [alive |-> gateway.alive, at |-> gateway.at]
BY DEF TypeInv

\* The three ways to receive a POST: ask the model, refuse for the budget, fail to write.
Received(r) ==
  /\ gateway.alive /\ gateway.at[r] = "sent"
  /\ gateway' = [alive |-> gateway.alive, at |-> gateway'.at]
  /\ Directory(dir') /\ dir'.seed = TRUE /\ Untouched(dir, dir') /\ dir'.routing = dir.routing
  /\ \/ /\ dir'.sidecars = [dir.sidecars EXCEPT ![r] = "own"] /\ dir'.rows = dir.rows
        /\ gateway'.at = [gateway.at EXCEPT ![r] = "upstream"]
        /\ called' = called \cup {r} /\ faults' = faults
     \/ /\ dir'.sidecars = [dir.sidecars EXCEPT ![r] = "own"]
        /\ dir'.rows = [dir.rows EXCEPT ![r] = <<"budget-exhausted">>]
        /\ gateway'.at = [gateway.at EXCEPT ![r] = "failure"]
        /\ called' = called /\ faults' = faults
     \/ /\ dir'.sidecars = dir.sidecars /\ dir'.rows = dir.rows
        /\ gateway'.at = [gateway.at EXCEPT ![r] = "error"]
        /\ called' = called /\ faults' = faults \cup {"sidecar"}

LEMMA ReceiveWrites ==
  ASSUME TypeInv, NEW r \in Requests, Receive(r)
  PROVE  Received(r)
<1> DEFINE own == [dir.sidecars EXCEPT ![r] = "own"]
           refused == [dir.rows EXCEPT ![r] = <<"budget-exhausted">>]
<1>1. Directory(dir) /\ gateway = [alive |-> gateway.alive, at |-> gateway.at]
  BY GatewayTyped DEF TypeInv
<1>2. own \in [Requests -> {"none", "own", "edited"}] /\ refused \in Histories
  BY <1>1, StoriesOpen DEF Directory, Histories, Outcomes
<1>3. gateway.alive /\ gateway.at[r] = "sent"
  BY DEF Receive
<1> HIDE DEF own, refused
<1>4. CASE /\ dir' = [dir EXCEPT !.seed = TRUE, !.sidecars[r] = "own"]
           /\ gateway' = [gateway EXCEPT !.at[r] = "upstream"]
           /\ called' = called \cup {r} /\ UNCHANGED faults
  <2>1. dir' = [dir EXCEPT !.seed = TRUE, !.sidecars = own]
    BY <1>1, <1>4, Zenon DEF Directory, own
  <2>2. /\ Directory(dir') /\ Untouched(dir, dir') /\ dir'.routing = dir.routing
        /\ dir'.seed = TRUE /\ dir'.rows = dir.rows /\ dir'.sidecars = own
    BY <1>1, <1>2, <2>1 DEF Directory, Untouched
  <2>3. QED
    BY <1>1, <1>2, <1>3, <1>4, <2>2 DEF own, Received
<1>5. CASE /\ dir' = [dir EXCEPT !.seed = TRUE, !.sidecars[r] = "own", !.rows[r] = <<"budget-exhausted">>]
           /\ gateway' = [gateway EXCEPT !.at[r] = "failure"]
           /\ UNCHANGED <<called, faults>>
  <2>1. dir' = [dir EXCEPT !.seed = TRUE, !.sidecars = own, !.rows = refused]
    BY <1>1, <1>5, Zenon DEF Directory, own, refused
  <2>2. /\ Directory(dir') /\ Untouched(dir, dir') /\ dir'.routing = dir.routing
        /\ dir'.seed = TRUE /\ dir'.rows = refused /\ dir'.sidecars = own
    BY <1>1, <1>2, <2>1 DEF Directory, Untouched
  <2>3. QED
    BY <1>1, <1>2, <1>3, <1>5, <2>2 DEF own, refused, Received
<1>6. CASE /\ dir' = [dir EXCEPT !.seed = TRUE]
           /\ gateway' = [gateway EXCEPT !.at[r] = "error"]
           /\ faults' = faults \cup {"sidecar"} /\ UNCHANGED called
  <2>1. dir' = [dir EXCEPT !.seed = TRUE]
    BY <1>1, <1>6, Zenon DEF Directory
  <2>2. /\ Directory(dir') /\ Untouched(dir, dir') /\ dir'.routing = dir.routing
        /\ dir'.seed = TRUE /\ dir'.rows = dir.rows /\ dir'.sidecars = dir.sidecars
    BY <1>1, <1>2, <2>1 DEF Directory, Untouched
  <2>3. QED
    BY <1>1, <1>2, <1>3, <1>6, <2>2 DEF Received
<1>7. QED
  BY <1>4, <1>5, <1>6 DEF Receive, Fault

\* The exchange with the model ends: what Written leaves of it, whatever is written.
Left(r, outcome, rows, at) ==
  /\ gateway' = [alive |-> gateway.alive, at |-> gateway'.at]
  /\ gateway'.at = [gateway.at EXCEPT ![r] = at]
  /\ Directory(dir') /\ dir'.seed = dir.seed /\ Untouched(dir, dir')
  /\ dir'.rows = [dir.rows EXCEPT ![r] = rows] /\ dir'.sidecars = dir.sidecars
  /\ dir'.routing = IF Routed /\ outcome = "ok" THEN dir.routing \cup {r} ELSE dir.routing

LEMMA WrittenLeaves ==
  ASSUME TypeInv, NEW r \in Requests, NEW outcome, NEW rows \in Stories, NEW at,
         Written(r, outcome, rows, at)
  PROVE  Left(r, outcome, rows, at)
<1> DEFINE story == [dir.rows EXCEPT ![r] = rows]
           routes == IF Routed /\ outcome = "ok" THEN dir.routing \cup {r} ELSE dir.routing
<1>1. Directory(dir) /\ gateway = [alive |-> gateway.alive, at |-> gateway.at]
  BY GatewayTyped DEF TypeInv
<1>2. story \in Histories /\ routes \in SUBSET Requests
  BY <1>1 DEF Directory, Histories
<1>3. dir' = [dir EXCEPT !.rows = story, !.routing = routes]
  BY <1>1, Zenon DEF Written, Directory
<1>4. /\ gateway' = [alive |-> gateway.alive, at |-> gateway'.at]
      /\ gateway'.at = [gateway.at EXCEPT ![r] = at]
  BY <1>1 DEF Written
<1> HIDE DEF story, routes
<1>5. /\ Directory(dir') /\ dir'.seed = dir.seed /\ Untouched(dir, dir')
      /\ dir'.rows = story /\ dir'.sidecars = dir.sidecars /\ dir'.routing = routes
  BY <1>1, <1>2, <1>3 DEF Directory, Untouched
<1>6. QED
  BY <1>4, <1>5 DEF story, routes, Left

\* An answer is written with its router evidence, a failure with a row of its own, and
\* what fits neither is one of the faults.
Wrote(r, rows, at, written, fault) ==
  /\ gateway' = [alive |-> gateway.alive, at |-> gateway'.at]
  /\ gateway'.at = [gateway.at EXCEPT ![r] = at]
  /\ Directory(dir') /\ dir'.seed = dir.seed /\ Untouched(dir, dir')
  /\ dir'.rows = [dir.rows EXCEPT ![r] = rows] /\ dir'.sidecars = dir.sidecars
  /\ dir'.routing = dir.routing \cup written
  /\ faults' = faults \cup fault
  /\ at = "response" => rows = <<"response">> /\ (Routed => written = {r})
  /\ at = "failure" => rows # <<>> /\ Last(rows) # "response"
  /\ at = "error" => fault # {}
  /\ fault = {} => Len(rows) = 1

LEMMA AdapterWrites ==
  ASSUME TypeInv, NEW r \in Requests, AdapterReturns(r)
  PROVE  /\ gateway.alive /\ gateway.at[r] = "upstream"
         /\ \E rows \in Stories, at \in {"response", "failure", "error"}, written \in SUBSET {r},
               fault \in {{}, {"append"}, {"routing"}} : Wrote(r, rows, at, written, fault)
<1>1. gateway.alive /\ gateway.at[r] = "upstream" /\ dir.routing \in SUBSET Requests
  BY DEF AdapterReturns, TypeInv, Directory
<1> DEFINE written == IF Routed THEN {r} ELSE {}
<1>2. written \in SUBSET {r} /\ {} \in SUBSET {r}
  OBVIOUS
<1>3. ASSUME Written(r, "ok", <<"response">>, "response"), UNCHANGED faults
      PROVE  Wrote(r, <<"response">>, "response", written, {})
  <2>1. <<"response">> \in Stories /\ Len(<<"response">>) = 1
    BY StoriesOpen DEF Outcomes
  <2>2. Left(r, "ok", <<"response">>, "response")
    BY <1>3, <2>1, WrittenLeaves
  <2>3. dir'.routing = dir.routing \cup written /\ (Routed => written = {r}) /\ faults' = faults \cup {}
    BY <1>3, <2>2 DEF Left
  <2> HIDE DEF written
  <2>4. QED
    BY <2>1, <2>2, <2>3 DEF Wrote, Left
<1>4. ASSUME NEW o \in {"invalid-model-output", "upstream-error"}, Written(r, "ok", <<o>>, "failure"),
             UNCHANGED faults
      PROVE  Wrote(r, <<o>>, "failure", written, {})
  <2>1. <<o>> \in Stories /\ Len(<<o>>) = 1 /\ <<o>> # <<>> /\ Last(<<o>>) # "response"
    BY StoriesOpen DEF Outcomes, Last
  <2>2. Left(r, "ok", <<o>>, "failure")
    BY <1>4, <2>1, WrittenLeaves
  <2>3. dir'.routing = dir.routing \cup written /\ faults' = faults \cup {}
    BY <1>4, <2>2 DEF Left
  <2> HIDE DEF written
  <2>4. QED
    BY <2>1, <2>2, <2>3 DEF Wrote, Left
<1>5. ASSUME NEW rows \in Stories, NEW at \in {"failure", "error"}, NEW fault \in {"append", "routing"},
             NEW o \in {"append", "routing"}, Written(r, o, rows, at), faults' = faults \cup {fault},
             at = "failure" => rows # <<>> /\ Last(rows) # "response"
      PROVE  Wrote(r, rows, at, {}, {fault})
  <2> DEFINE none == {}  some == {fault}
  <2>1. Left(r, o, rows, at)
    BY <1>5, WrittenLeaves
  <2>2. dir'.routing = dir.routing \cup none /\ some # {} /\ at # "response" /\ faults' = faults \cup some
    BY <1>5, <2>1 DEF Left
  <2> HIDE DEF none, some
  <2>3. Wrote(r, rows, at, none, some)
    BY <1>5, <2>1, <2>2 DEF Wrote, Left
  <2>4. QED
    BY <2>3 DEF none, some
<1>6. /\ <<"upstream-error">> \in Stories /\ <<"upstream-error">> # <<>>
      /\ Last(<<"upstream-error">>) # "response" /\ <<>> \in Stories
  BY StoriesOpen DEF Outcomes, Last
<1>7. ASSUME NEW o \in {"response", "invalid-model-output"}
      PROVE  /\ <<o, "upstream-error">> \in Stories /\ <<o, "upstream-error">> # <<>>
             /\ Last(<<o, "upstream-error">>) # "response"
  BY StoriesOpen DEF Outcomes, Last
<1>8. \/ Written(r, "ok", <<"response">>, "response") /\ UNCHANGED faults
      \/ \E o \in {"invalid-model-output", "upstream-error"} :
           Written(r, "ok", <<o>>, "failure") /\ UNCHANGED faults
      \/ \E rows \in Stories, at \in {"failure", "error"}, fault \in {"append", "routing"},
            o \in {"append", "routing"} :
           /\ Written(r, o, rows, at) /\ faults' = faults \cup {fault}
           /\ at = "failure" => rows # <<>> /\ Last(rows) # "response"
  BY <1>6, <1>7 DEF AdapterReturns, Fault
<1>9. <<"response">> \in Stories /\ \A o \in {"invalid-model-output", "upstream-error"} : <<o>> \in Stories
  BY StoriesOpen DEF Outcomes
<1> HIDE DEF written
<1>10. QED
  BY <1>1, <1>2, <1>3, <1>4, <1>5, <1>8, <1>9

-----------------------------------------------------------------------------
(* The engine's steps                                                      *)

Account == [fate : Fates, verdict : {"none", "accepted", "rejected"}, failed : BOOLEAN]

\* What a result does to the account of its request.
Judged(a, b, kind) ==
  /\ a.fate # "unsent" => b.fate # "unsent"
  /\ b.fate \in {a.fate, "accepted", "expired"}
  /\ b.fate = "accepted" => a.fate = "accepted" \/ b.verdict # "none"
  /\ b.verdict = a.verdict \/ (b.verdict # "none" /\ kind = "response")
  /\ b.failed = a.failed \/ kind = "failure"

\* Two fields of one account are written as one account.
LEMMA FieldsOfOne ==
  ASSUME NEW f \in [Requests -> Account], NEW r \in Requests, NEW x, NEW y
  PROVE  /\ [f EXCEPT ![r].fate = x, ![r].verdict = y] = [f EXCEPT ![r] = [f[r] EXCEPT !.fate = x, !.verdict = y]]
         /\ [f EXCEPT ![r].fate = x, ![r].failed = y] = [f EXCEPT ![r] = [f[r] EXCEPT !.fate = x, !.failed = y]]
<1> DEFINE a == [f[r] EXCEPT !.fate = x]
           g == [f EXCEPT ![r] = a]
<1>1. g[r] = a
  OBVIOUS
<1>2. /\ [f EXCEPT ![r].fate = x, ![r].verdict = y] = [g EXCEPT ![r] = [g[r] EXCEPT !.verdict = y]]
      /\ [f EXCEPT ![r].fate = x, ![r].failed = y] = [g EXCEPT ![r] = [g[r] EXCEPT !.failed = y]]
  OBVIOUS
<1> HIDE DEF a
<1>3. \A b : [g EXCEPT ![r] = b] = [f EXCEPT ![r] = b]
  OBVIOUS
<1>4. /\ [f EXCEPT ![r].fate = x, ![r].verdict = y] = [f EXCEPT ![r] = [a EXCEPT !.verdict = y]]
      /\ [f EXCEPT ![r].fate = x, ![r].failed = y] = [f EXCEPT ![r] = [a EXCEPT !.failed = y]]
  <2> DEFINE b == [a EXCEPT !.verdict = y]  c == [a EXCEPT !.failed = y]
  <2>1. /\ [f EXCEPT ![r].fate = x, ![r].verdict = y] = [g EXCEPT ![r] = b]
        /\ [f EXCEPT ![r].fate = x, ![r].failed = y] = [g EXCEPT ![r] = c]
    BY <1>1, <1>2
  <2> HIDE DEF b, c, g
  <2>2. [g EXCEPT ![r] = b] = [f EXCEPT ![r] = b] /\ [g EXCEPT ![r] = c] = [f EXCEPT ![r] = c]
    BY <1>3 DEF g
  <2>3. QED
    BY <2>1, <2>2 DEF b, c
<1>5. QED
  BY <1>4 DEF a

LEMMA DrainedJudges ==
  ASSUME NEW r \in Requests, NEW kind \in {"response", "failure"}, engine \in Accounts,
         NEW e \in Drained(r, kind)
  PROVE  /\ e \in Accounts
         /\ Judged(engine[r], e[r], kind)
         /\ \A q \in Requests : q # r => e[q] = engine[q]
<1>1. engine \in [Requests -> Account] /\ Accounts = [Requests -> Account]
  BY DEF Accounts, Account
<1>2. engine[r] \in Account
  BY <1>1
<1> DEFINE a == engine[r]
<1>3. ASSUME NEW b \in Account, Judged(a, b, kind), e = [engine EXCEPT ![r] = b]
      PROVE  /\ e \in Accounts
             /\ Judged(engine[r], e[r], kind)
             /\ \A q \in Requests : q # r => e[q] = engine[q]
  BY <1>1, <1>3
<1>4. \/ /\ kind = "response"
         /\ e = [engine EXCEPT ![r].fate = "accepted", ![r].verdict = "accepted"]
      \/ kind = "response" /\ e = [engine EXCEPT ![r].verdict = "rejected"]
      \/ kind = "failure" /\ e = [engine EXCEPT ![r].fate = "expired", ![r].failed = TRUE]
      \/ e = engine
  BY DEF Drained
<1>5. CASE kind = "response" /\ e = [engine EXCEPT ![r].fate = "accepted", ![r].verdict = "accepted"]
  <2> DEFINE b == [a EXCEPT !.fate = "accepted", !.verdict = "accepted"]
  <2>1. e = [engine EXCEPT ![r] = b]
    BY <1>1, <1>5, FieldsOfOne
  <2>2. b \in Account /\ Judged(a, b, kind)
    BY <1>2, <1>5 DEF Account, Fates, Judged
  <2>3. QED
    BY <1>3, <2>1, <2>2
<1>6. CASE kind = "response" /\ e = [engine EXCEPT ![r].verdict = "rejected"]
  <2> DEFINE b == [a EXCEPT !.verdict = "rejected"]
  <2>1. e = [engine EXCEPT ![r] = b]
    BY <1>6
  <2>2. b \in Account /\ Judged(a, b, kind)
    BY <1>2, <1>6 DEF Account, Fates, Judged
  <2>3. QED
    BY <1>3, <2>1, <2>2
<1>7. CASE kind = "failure" /\ e = [engine EXCEPT ![r].fate = "expired", ![r].failed = TRUE]
  <2> DEFINE b == [a EXCEPT !.fate = "expired", !.failed = TRUE]
  <2>1. e = [engine EXCEPT ![r] = b]
    BY <1>1, <1>7, FieldsOfOne
  <2>2. b \in Account /\ Judged(a, b, kind)
    BY <1>2, <1>7 DEF Account, Fates, Judged
  <2>3. QED
    BY <1>3, <2>1, <2>2
<1>8. CASE e = engine
  BY <1>1, <1>8 DEF Judged
<1>9. QED
  BY <1>4, <1>5, <1>6, <1>7, <1>8

EngineActs == Drain \/ EndScenario \/ \E r \in Requests : Request(r) \/ Expire(r)

\* A step of the engine: nothing becomes unsent or, once the run ended, pending again, and
\* only a result that came changes a verdict or a failure.
EngineMoves ==
  /\ run = "running" /\ run' \in {"running", "ended"}
  /\ engine' \in Accounts /\ inbox' \subseteq inbox
  /\ UNCHANGED <<flight, entries, gateway, dir, exported, fin, count, faults, called>>
  /\ \A r \in Requests :
       /\ engine[r].fate # "unsent" => engine'[r].fate # "unsent"
       /\ engine'[r].fate = "accepted" => engine[r].fate = "accepted" \/ engine'[r].verdict # "none"
       /\ \/ engine'[r].verdict = engine[r].verdict
          \/ engine'[r].verdict # "none" /\ \E m \in inbox : m.req = r /\ m.kind = "response"
       /\ engine'[r].failed = engine[r].failed \/ \E m \in inbox : m.req = r /\ m.kind = "failure"
       /\ run' = "ended" => engine'[r].fate # "pending"

LEMMA EngineShape == ASSUME TypeInv, EngineActs PROVE EngineMoves
<1>1. /\ engine \in Accounts /\ engine \in [Requests -> Account] /\ Accounts = [Requests -> Account]
      /\ inbox \in SUBSET [req : Requests, kind : {"response", "failure"}]
  BY DEF TypeInv, Accounts, Account
<1>2. CASE Drain
  <2>1. PICK m \in inbox : inbox' = inbox \ {m} /\ engine' \in Drained(m.req, m.kind)
    BY <1>2 DEF Drain
  <2>2. m.req \in Requests /\ m.kind \in {"response", "failure"}
    BY <1>1
  <2>3. /\ engine' \in Accounts
        /\ Judged(engine[m.req], engine'[m.req], m.kind)
        /\ \A q \in Requests : q # m.req => engine'[q] = engine[q]
    BY <1>1, <2>1, <2>2, DrainedJudges
  <2>4. ASSUME NEW r \in Requests
        PROVE  /\ engine[r].fate # "unsent" => engine'[r].fate # "unsent"
               /\ engine'[r].fate = "accepted" => engine[r].fate = "accepted" \/ engine'[r].verdict # "none"
               /\ \/ engine'[r].verdict = engine[r].verdict
                  \/ engine'[r].verdict # "none" /\ \E n \in inbox : n.req = r /\ n.kind = "response"
               /\ \/ engine'[r].failed = engine[r].failed
                  \/ \E n \in inbox : n.req = r /\ n.kind = "failure"
    BY <2>1, <2>3 DEF Judged
  <2>5. QED
    BY <1>2, <2>1, <2>3, <2>4 DEF Drain, EngineMoves, page, disk
<1>3. CASE EndScenario
  <2> DEFINE next == [r \in Requests |-> IF engine[r].fate = "pending" THEN [engine[r] EXCEPT !.fate = "expired"]
                                         ELSE engine[r]]
  <2>1. ASSUME NEW r \in Requests
        PROVE  /\ next[r] \in Account
               /\ next[r].fate \in {engine[r].fate, "expired"} /\ next[r].fate # "pending"
               /\ engine[r].fate # "unsent" => next[r].fate # "unsent"
               /\ next[r].verdict = engine[r].verdict /\ next[r].failed = engine[r].failed
    BY <1>1 DEF Account, Fates
  <2>2. next \in Accounts
    BY <1>1, <2>1
  <2> HIDE DEF next
  <2>3. engine' = next
    BY <1>3 DEF EndScenario, next
  <2>4. QED
    BY <1>3, <2>1, <2>2, <2>3 DEF EndScenario, EngineMoves, page, disk
<1>4. ASSUME NEW r \in Requests, Request(r) PROVE EngineMoves
  <2> DEFINE next == [q \in Requests |-> IF q = r THEN [engine[q] EXCEPT !.fate = "pending"]
                                   ELSE IF engine[q].fate = "pending" THEN [engine[q] EXCEPT !.fate = "superseded"]
                                   ELSE engine[q]]
  <2>1. ASSUME NEW q \in Requests
        PROVE  /\ next[q] \in Account
               /\ next[q].fate \in {engine[q].fate, "superseded", "pending"}
               /\ engine[q].fate # "unsent" => next[q].fate # "unsent"
               /\ next[q].verdict = engine[q].verdict /\ next[q].failed = engine[q].failed
    BY <1>1 DEF Account, Fates
  <2>2. next \in Accounts
    BY <1>1, <2>1
  <2> HIDE DEF next
  <2>3. engine' = next
    BY <1>4 DEF Request, next
  <2>4. QED
    BY <1>4, <2>1, <2>2, <2>3 DEF Request, EngineMoves, page, disk
<1>5. ASSUME NEW r \in Requests, Expire(r) PROVE EngineMoves
  <2> DEFINE next == [engine EXCEPT ![r].fate = "expired"]
  <2>1. ASSUME NEW q \in Requests
        PROVE  /\ next[q] \in Account
               /\ next[q].fate \in {engine[q].fate, "expired"}
               /\ engine[q].fate # "unsent" => next[q].fate # "unsent"
               /\ next[q].verdict = engine[q].verdict /\ next[q].failed = engine[q].failed
    BY <1>1 DEF Account, Fates
  <2>2. next \in Accounts
    BY <1>1, <2>1
  <2> HIDE DEF next
  <2>3. engine' = next
    BY <1>5 DEF Expire, next
  <2>4. QED
    BY <1>5, <2>1, <2>2, <2>3 DEF Expire, EngineMoves, page, disk
<1>6. QED
  BY <1>2, <1>3, <1>4, <1>5 DEF EngineActs

\* Until its export a run is not staged.
LEMMA NotYet ==
  ASSUME StageInv, run = "running"
  PROVE  exported = None /\ dir.ledger = None
BY DEF StageInv, Exported, Staged

LEMMA EngineKeeps ==
  ASSUME TypeInv, StoryInv, StageInv, EngineActs
  PROVE  TypeInv' /\ StoryInv' /\ StageInv'
<1>1. EngineMoves
  BY EngineShape
<1>2. exported = None /\ dir.ledger = None
  BY <1>1, NotYet DEF EngineMoves
<1>3. TypeInv'
  BY <1>1 DEF TypeInv, EngineMoves
<1>4. ASSUME NEW r \in Requests PROVE AtGateway(r)' /\ AtPage(r)' /\ AtEngine(r)'
  <2>1. AtGateway(r) /\ AtPage(r) /\ AtEngine(r)
    BY DEF StoryInv
  <2>2. AtGateway(r)'
    BY <1>1, <2>1 DEF EngineMoves, AtGateway, Undamaged, Unwritten, Honest
  <2>3. AtPage(r)'
    BY <1>1, <2>1 DEF EngineMoves, AtPage, Undamaged, Unwritten, Honest
  <2>4. AtEngine(r)'
    <3>1. /\ entries' = entries /\ inbox' \subseteq inbox
          /\ engine'[r].fate = "accepted" => engine[r].fate = "accepted" \/ engine'[r].verdict # "none"
          /\ \/ engine'[r].verdict = engine[r].verdict
             \/ engine'[r].verdict # "none" /\ \E m \in inbox : m.req = r /\ m.kind = "response"
          /\ engine'[r].failed = engine[r].failed \/ \E m \in inbox : m.req = r /\ m.kind = "failure"
          /\ run' = "ended" => engine'[r].fate # "pending"
      BY <1>1 DEF EngineMoves
    <3>2. \A m \in inbox' : m.req = r => entries[r] # None /\ entries[r].outcome = m.kind
      BY <2>1, <3>1 DEF AtEngine
    <3>3. engine'[r].verdict # "none" => entries[r] # None /\ entries[r].outcome = "response"
      BY <2>1, <3>1 DEF AtEngine
    <3>4. engine'[r].failed => entries[r] # None /\ entries[r].outcome = "failure"
      BY <2>1, <3>1 DEF AtEngine
    <3>5. engine'[r].fate = "accepted" => engine'[r].verdict # "none"
      BY <2>1, <3>1 DEF AtEngine
    <3>6. QED
      BY <3>1, <3>2, <3>3, <3>4, <3>5 DEF AtEngine
  <2>5. QED
    BY <2>2, <2>3, <2>4
<1>5. StageInv'
  BY <1>1, <1>2 DEF StageInv, EngineMoves
<1>6. QED
  BY <1>3, <1>4, <1>5 DEF StoryInv

-----------------------------------------------------------------------------
(* The page's steps                                                        *)

PageActs == \E r \in Requests : FailUndispatched(r) \/ Dispatch(r) \/ Hear(r) \/ TimeOut(r)

\* An entry is what the gateway said, or tells why there is no word of the gateway.
Fits(outcome, code, observed, at) ==
  /\ observed => at = outcome
  /\ ~observed => outcome = "failure"
  /\ observed \/ code \in {"request-timeout", "gateway-unavailable"} \/ at \in {"none", "error"}

\* A request is settled once.
Ends(r) ==
  /\ entries[r] = None /\ engine[r].fate # "unsent"
  /\ flight' = IF flight = r THEN 0 ELSE flight
  /\ UNCHANGED <<run, engine, gateway, dir, exported, fin, count, faults, called>>

Settles(r, e) ==
  /\ Ends(r) /\ Fits(e.outcome, e.code, e.observed, gateway.at[r])
  /\ entries' = [entries EXCEPT ![r] = e]
  /\ inbox' \subseteq inbox \cup {[req |-> r, kind |-> e.outcome]}

Dispatches(r) ==
  /\ flight = 0 /\ flight' = r /\ entries[r] = None /\ engine[r].fate # "unsent" /\ gateway.at[r] = "none"
  /\ gateway'.alive = gateway.alive
  /\ \E at \in {"sent", "gone"} : gateway'.at = [gateway.at EXCEPT ![r] = at]
  /\ gateway' \in [alive : BOOLEAN, at : [Requests -> Places]]
  /\ UNCHANGED <<run, engine, inbox, entries, dir, exported, fin, count, faults, called>>

LEMMA PageShape ==
  ASSUME TypeInv, StoryInv, StageInv, PageActs
  PROVE  /\ exported = None /\ dir.ledger = None
         /\ \E r \in Requests : Dispatches(r) \/ \E e \in Entries : Settles(r, e)
<1>1. PICK r \in Requests : FailUndispatched(r) \/ Dispatch(r) \/ Hear(r) \/ TimeOut(r)
  BY DEF PageActs
<1>2. exported = None
  <2>1. r # 0
    BY RequestsAreNumbered
  <2>2. Waiting(r) \/ flight = r
    BY <1>1 DEF FailUndispatched, Dispatch, Hear, TimeOut
  <2>3. ~Idle
    BY <2>1, <2>2 DEF Idle
  <2>4. QED
    BY <2>3 DEF StageInv, Exported
<1>3. dir.ledger = None
  BY <1>2 DEF StageInv, Staged
<1>4. AtPage(r) /\ AtGateway(r) /\ flight \in {0} \cup Requests
  BY DEF StoryInv, TypeInv
<1>5. ASSUME NEW outcome \in {"response", "failure"}, NEW observed \in BOOLEAN,
             NEW code \in {"none", "gateway", "budget-exhausted", "invalid-gateway-response",
                           "gateway-unavailable", "request-timeout"},
             Settle(r, outcome, code, observed), Ends(r), Fits(outcome, code, observed, gateway.at[r])
      PROVE  \E e \in Entries : Settles(r, e)
  <2> DEFINE e == [outcome |-> outcome, code |-> code, observed |-> observed]
  <2>1. e \in Entries
    BY <1>5 DEF Entries
  <2>2. Settles(r, e)
    BY <1>5, <2>1 DEF Settles, Settle, Submit
  <2>3. QED
    BY <2>1, <2>2
<1>6. CASE FailUndispatched(r)
  <2>1. PICK code \in {"budget-exhausted", "invalid-gateway-response", "gateway-unavailable"} :
          Settle(r, "failure", code, FALSE)
    BY <1>6 DEF FailUndispatched
  <2>2. gateway.at[r] = "none" /\ entries[r] = None /\ engine[r].fate # "unsent" /\ flight # r
    BY <1>4, <1>6 DEF FailUndispatched, Waiting, AtPage
  <2>3. Ends(r) /\ Fits("failure", code, FALSE, gateway.at[r])
    BY <1>6, <2>2 DEF FailUndispatched, disk, Ends, Fits
  <2>4. QED
    BY <1>2, <1>3, <1>5, <2>1, <2>3
<1>7. ASSUME flight = r, flight' = 0, UNCHANGED <<run, engine, gateway, dir, exported, fin, count, faults, called>>
      PROVE  Ends(r)
  BY <1>4, <1>7 DEF AtPage, Ends
<1>8. CASE TimeOut(r)
  <2>1. Settle(r, "failure", "request-timeout", FALSE) /\ Ends(r)
    BY <1>7, <1>8 DEF TimeOut, disk
  <2>2. Fits("failure", "request-timeout", FALSE, gateway.at[r])
    BY DEF Fits
  <2>3. QED
    BY <1>2, <1>3, <1>5, <2>1, <2>2
<1>9. CASE Hear(r)
  <2>1. Ends(r)
    BY <1>7, <1>9 DEF Hear, disk
  <2>2. \/ gateway.at[r] = "response" /\ Settle(r, "response", "none", TRUE)
        \/ gateway.at[r] = "failure" /\ Settle(r, "failure", "gateway", TRUE)
        \/ gateway.at[r] = "error" /\ Settle(r, "failure", "invalid-gateway-response", FALSE)
        \/ gateway.at[r] = "gone" /\ Settle(r, "failure", "gateway-unavailable", FALSE)
    BY <1>9 DEF Hear
  <2>3. /\ gateway.at[r] = "response" => Fits("response", "none", TRUE, gateway.at[r])
        /\ gateway.at[r] = "failure" => Fits("failure", "gateway", TRUE, gateway.at[r])
        /\ gateway.at[r] = "error" => Fits("failure", "invalid-gateway-response", FALSE, gateway.at[r])
        /\ gateway.at[r] = "gone" => Fits("failure", "gateway-unavailable", FALSE, gateway.at[r])
    BY DEF Fits
  <2>4. QED
    BY <1>2, <1>3, <1>5, <2>1, <2>2, <2>3
<1>10. CASE Dispatch(r)
  <2>1. gateway.at[r] = "none" /\ entries[r] = None /\ engine[r].fate # "unsent"
    BY <1>4, <1>10 DEF Dispatch, Waiting, AtPage
  <2> DEFINE at == IF gateway.alive THEN "sent" ELSE "gone"
  <2>2. gateway' = [gateway EXCEPT !.at[r] = at] /\ at \in {"sent", "gone"}
    BY <1>10 DEF Dispatch
  <2> HIDE DEF at
  <2>3. /\ gateway'.alive = gateway.alive /\ gateway'.at = [gateway.at EXCEPT ![r] = at]
        /\ gateway' \in [alive : BOOLEAN, at : [Requests -> Places]]
    BY <2>2 DEF TypeInv, Places
  <2>4. Dispatches(r)
    BY <1>10, <2>1, <2>2, <2>3 DEF Dispatch, Dispatches, disk
  <2>5. QED
    BY <1>2, <1>3, <2>4
<1>11. QED
  BY <1>1, <1>2, <1>3, <1>6, <1>8, <1>9, <1>10

LEMMA SettlesKeeps ==
  ASSUME TypeInv, StoryInv, NEW r \in Requests, NEW e \in Entries, Settles(r, e)
  PROVE  TypeInv' /\ StoryInv'
<1>1. /\ entries[r] = None /\ engine[r].fate # "unsent"
      /\ flight' = IF flight = r THEN 0 ELSE flight
      /\ UNCHANGED <<run, engine, gateway, dir, exported, fin, count, faults, called>>
      /\ entries' = [entries EXCEPT ![r] = e]
      /\ inbox' \subseteq inbox \cup {[req |-> r, kind |-> e.outcome]}
      /\ Fits(e.outcome, e.code, e.observed, gateway.at[r])
  BY DEF Settles, Ends
<1>2. /\ e # None /\ e.outcome \in {"response", "failure"} /\ e.observed \in BOOLEAN
      /\ entries \in [Requests -> Entries \cup {None}] /\ flight \in {0} \cup Requests
      /\ inbox \in SUBSET [req : Requests, kind : {"response", "failure"}]
  BY NoneIsNothing DEF Entries, TypeInv
<1>3. TypeInv'
  <2>1. /\ entries' \in [Requests -> Entries \cup {None}] /\ flight' \in {0} \cup Requests
        /\ inbox' \in SUBSET [req : Requests, kind : {"response", "failure"}]
    BY <1>1, <1>2
  <2>2. QED
    BY <1>1, <2>1 DEF TypeInv
<1>4. ASSUME NEW q \in Requests PROVE AtGateway(q)' /\ AtPage(q)' /\ AtEngine(q)'
  <2>1. AtGateway(q) /\ AtPage(q) /\ AtEngine(q)
    BY DEF StoryInv
  <2>2. AtGateway(q)'
    BY <1>1, <2>1 DEF AtGateway, Undamaged, Unwritten, Honest
  <2>3. /\ q # r => entries'[q] = entries[q]
        /\ q = r => entries'[q] = e
        /\ q # 0
    BY <1>1, <1>2, RequestsAreNumbered
  <2>4. CASE q # r
    <3>1. AtPage(q)'
      BY <1>1, <2>1, <2>3, <2>4 DEF AtPage, Undamaged, Unwritten, Honest
    <3>2. \A m \in inbox' : m.req = q => m \in inbox
      BY <1>1, <2>4
    <3>3. AtEngine(q)'
      BY <1>1, <2>1, <2>3, <2>4, <3>2 DEF AtEngine
    <3>4. QED
      BY <2>2, <3>1, <3>3
  <2>5. CASE q = r
    <3>1. gateway.at[r] \in {"response", "failure"} /\ e.observed => gateway.at[r] = e.outcome
      BY <1>1 DEF Fits
    <3>2. AtPage(q)'
      <4>1. /\ flight' # q /\ entries'[q] = e /\ engine'[q].fate # "unsent"
            /\ gateway'.at = gateway.at /\ dir' = dir /\ faults' = faults /\ called' = called
        BY <1>1, <2>3, <2>5
      <4>2. e.observed => gateway.at[q] = e.outcome
        BY <1>1, <2>5 DEF Fits
      <4>3. ~e.observed => /\ e.outcome = "failure"
                           /\ e.code \in {"request-timeout", "gateway-unavailable"} \/ gateway.at[q] \in {"none", "error"}
        BY <1>1, <2>5 DEF Fits
      <4>4. e.outcome = "response" => /\ e.observed /\ q \in called
                                      /\ Unwritten => dir.rows[q] \in {<<>>, <<"response">>}
        BY <1>2, <2>1, <4>2, <4>3 DEF AtGateway
      <4>5. e.observed => /\ gateway.at[q] \in {"response", "failure", "gone"}
                          /\ Undamaged => dir.rows[q] # <<>>
                          /\ Undamaged /\ e.outcome = "failure" => Last(dir.rows[q]) # "response"
        BY <1>2, <2>1, <4>2 DEF AtGateway
      <4>6. ~e.observed /\ Honest => \/ e.code \in {"request-timeout", "gateway-unavailable"}
                                     \/ gateway.at[q] = "none"
        BY <2>1, <4>3 DEF AtGateway
      <4>7. QED
        BY <1>2, <4>1, <4>4, <4>5, <4>6 DEF AtPage, Undamaged, Unwritten, Honest
    <3>3. AtEngine(q)'
      <4>1. \A m \in inbox : m.req # q
        BY <1>1, <2>1, <2>5 DEF AtEngine
      <4>2. \A m \in inbox' : m.req = q => m.kind = e.outcome
        BY <1>1, <4>1
      <4>3. engine[q].verdict = "none" /\ ~engine[q].failed
        BY <1>1, <2>1, <2>5 DEF AtEngine
      <4>4. QED
        BY <1>1, <1>2, <2>1, <2>3, <2>5, <4>2, <4>3 DEF AtEngine
    <3>4. QED
      BY <2>2, <3>2, <3>3
  <2>6. QED
    BY <2>4, <2>5
<1>5. QED
  BY <1>3, <1>4 DEF StoryInv

LEMMA DispatchesKeeps ==
  ASSUME TypeInv, StoryInv, NEW r \in Requests, Dispatches(r)
  PROVE  TypeInv' /\ StoryInv'
<1>1. PICK at \in {"sent", "gone"} : gateway'.at = [gateway.at EXCEPT ![r] = at]
  BY DEF Dispatches
<1>2. /\ flight = 0 /\ flight' = r /\ entries[r] = None /\ engine[r].fate # "unsent" /\ gateway.at[r] = "none"
      /\ gateway' \in [alive : BOOLEAN, at : [Requests -> Places]]
      /\ UNCHANGED <<run, engine, inbox, entries, dir, exported, fin, count, faults, called>>
  BY DEF Dispatches
<1>3. TypeInv'
  BY <1>2 DEF TypeInv
<1>4. ASSUME NEW q \in Requests PROVE AtGateway(q)' /\ AtPage(q)' /\ AtEngine(q)'
  <2>1. AtGateway(q) /\ AtPage(q) /\ AtEngine(q)
    BY DEF StoryInv
  <2>2. gateway'.at[q] = IF q = r THEN at ELSE gateway.at[q]
    BY <1>1 DEF TypeInv
  <2>3. AtGateway(q)'
    BY <1>2, <2>1, <2>2 DEF AtGateway, Undamaged, Unwritten, Honest
  <2>4. AtPage(q)'
    BY <1>2, <2>1, <2>2, RequestsAreNumbered DEF AtPage, Undamaged, Unwritten, Honest
  <2>5. AtEngine(q)'
    BY <1>2, <2>1 DEF AtEngine
  <2>6. QED
    BY <2>3, <2>4, <2>5
<1>5. QED
  BY <1>3, <1>4 DEF StoryInv

LEMMA PageKeeps ==
  ASSUME TypeInv, StoryInv, StageInv, PageActs
  PROVE  TypeInv' /\ StoryInv' /\ StageInv'
<1>1. PICK r \in Requests : Dispatches(r) \/ \E e \in Entries : Settles(r, e)
  BY PageShape
<1>2. UNCHANGED <<exported, dir>>
  BY <1>1 DEF Dispatches, Settles, Ends
<1>3. StageInv'
  BY <1>2, PageShape DEF StageInv
<1>4. QED
  BY <1>1, <1>3, DispatchesKeeps, SettlesKeeps

-----------------------------------------------------------------------------
(* The gateway's steps                                                     *)

GatewayActs == GatewayEnds \/ \E r \in Requests : Receive(r) \/ AdapterReturns(r)

\* Faults only add up.
LEMMA FaultsStay ==
  ASSUME faults \subseteq faults'
  PROVE  /\ Honest' => Honest
         /\ Undamaged' => Undamaged
         /\ Unwritten' => Unwritten
         /\ "ledger" \in faults => "ledger" \in faults'
         /\ "rebound" \in faults => "rebound" \in faults'
BY DEF Honest, Undamaged, Unwritten

\* What the gateway does with one request leaves the others' files and places alone.
LEMMA OthersStories ==
  ASSUME StoryInv, NEW q \in Requests, faults \subseteq faults',
         gateway'.at[q] = gateway.at[q], dir'.rows[q] = dir.rows[q], dir'.sidecars[q] = dir.sidecars[q],
         q \in dir'.routing <=> q \in dir.routing, q \in called' <=> q \in called,
         UNCHANGED <<run, engine, inbox, flight, entries>>
  PROVE  AtGateway(q)' /\ AtPage(q)' /\ AtEngine(q)'
<1>1. AtGateway(q) /\ AtPage(q) /\ AtEngine(q)
  BY DEF StoryInv
<1>2. AtGateway(q)'
  BY <1>1, FaultsStay DEF AtGateway
<1>3. AtPage(q)'
  BY <1>1, FaultsStay DEF AtPage
<1>4. AtEngine(q)'
  BY <1>1 DEF AtEngine
<1>5. QED
  BY <1>2, <1>3, <1>4

\* A request at work at the gateway has no entry that heard of its end.
LEMMA StillOut ==
  ASSUME StoryInv, NEW r \in Requests, gateway.at[r] \in {"sent", "upstream"}, gateway'.at[r] # "none",
         faults \subseteq faults', UNCHANGED <<run, engine, inbox, flight, entries>>
  PROVE  AtPage(r)' /\ AtEngine(r)'
<1>1. AtPage(r) /\ AtEngine(r)
  BY DEF StoryInv
<1>2. entries[r] # None => ~entries[r].observed /\ entries[r].outcome # "response"
  BY <1>1 DEF AtPage
<1>3. AtPage(r)'
  BY <1>1, <1>2, FaultsStay DEF AtPage
<1>4. QED
  BY <1>1, <1>3 DEF AtEngine

LEMMA GatewayEndsKeeps ==
  ASSUME TypeInv, StoryInv, GatewayEnds
  PROVE  TypeInv' /\ StoryInv'
<1> DEFINE next == [r \in Requests |-> IF gateway.at[r] = "none" THEN "none" ELSE "gone"]
<1>1. /\ gateway' = [alive |-> FALSE, at |-> next]
      /\ UNCHANGED <<run, engine, inbox, flight, entries, dir, exported, fin, count, faults, called>>
  BY DEF GatewayEnds, page, disk
<1>2. next \in [Requests -> Places]
  BY DEF Places
<1>3. TypeInv'
  BY <1>1, <1>2 DEF TypeInv
<1>4. ASSUME NEW q \in Requests PROVE AtGateway(q)' /\ AtPage(q)' /\ AtEngine(q)'
  <2>1. AtGateway(q) /\ AtPage(q) /\ AtEngine(q)
    BY DEF StoryInv
  <2>2. gateway'.at[q] = IF gateway.at[q] = "none" THEN "none" ELSE "gone"
    BY <1>1
  <2>3. AtGateway(q)'
    BY <1>1, <2>1, <2>2 DEF AtGateway, Undamaged, Unwritten, Honest
  <2>4. AtPage(q)'
    BY <1>1, <2>1, <2>2 DEF AtPage, Undamaged, Unwritten, Honest
  <2>5. AtEngine(q)'
    BY <1>1, <2>1 DEF AtEngine
  <2>6. QED
    BY <2>3, <2>4, <2>5
<1>5. QED
  BY <1>3, <1>4 DEF StoryInv

LEMMA ReceiveKeeps ==
  ASSUME TypeInv, StoryInv, NEW r \in Requests, Receive(r)
  PROVE  TypeInv' /\ StoryInv'
<1>0. Received(r)
  BY ReceiveWrites
<1>1. /\ gateway.at[r] = "sent" /\ AtGateway(r)
      /\ UNCHANGED <<run, engine, inbox, flight, entries, exported, fin, count>>
      /\ Directory(dir') /\ dir'.routing = dir.routing
      /\ gateway' \in [alive : BOOLEAN, at : [Requests -> Places]] /\ called' \in SUBSET Requests
      /\ faults \subseteq faults'
      /\ gateway.at \in [Requests -> Places] /\ dir.rows \in [Requests -> Stories]
      /\ dir.sidecars \in [Requests -> {"none", "own", "edited"}]
  <2>1. /\ gateway.alive \in BOOLEAN /\ gateway.at \in [Requests -> Places] /\ called \in SUBSET Requests
        /\ dir.rows \in [Requests -> Stories] /\ dir.sidecars \in [Requests -> {"none", "own", "edited"}]
    BY DEF TypeInv, Directory, Histories
  <2>2. gateway'.at \in [Requests -> Places] /\ called' \in SUBSET Requests /\ faults \subseteq faults'
    BY <1>0, <2>1 DEF Received, Places
  <2>3. gateway.at[r] = "sent" /\ AtGateway(r)
    BY DEF Receive, StoryInv
  <2>4. UNCHANGED <<run, engine, inbox, flight, entries, exported, fin, count>>
    BY DEF Receive, page, disk
  <2>5. Directory(dir') /\ dir'.routing = dir.routing
    BY <1>0 DEF Received
  <2>6. gateway' \in [alive : BOOLEAN, at : [Requests -> Places]]
    <3>1. gateway' = [alive |-> gateway.alive, at |-> gateway'.at]
      BY <1>0 DEF Received
    <3>2. QED
      BY <2>1, <2>2, <3>1
  <2>7. QED
    BY <2>1, <2>2, <2>3, <2>4, <2>5, <2>6
<1>2. TypeInv'
  BY <1>1 DEF TypeInv
<1>3. ASSUME NEW q \in Requests PROVE AtGateway(q)' /\ AtPage(q)' /\ AtEngine(q)'
  <2>1. CASE q # r
    <3>1. /\ gateway'.at[q] = gateway.at[q] /\ dir'.rows[q] = dir.rows[q]
          /\ dir'.sidecars[q] = dir.sidecars[q] /\ (q \in called' <=> q \in called)
      BY <1>0, <1>1, <2>1 DEF Received
    <3>2. QED
      BY <1>1, <3>1, OthersStories
  <2>2. CASE q = r
    <3>1. /\ dir.sidecars[r] = "none" /\ r \notin dir'.routing /\ r \notin called
          /\ Unwritten' => dir.rows[r] = <<>>
          /\ Undamaged' \/ Honest' => Unwritten'
      BY <1>1, FaultsStay DEF AtGateway, Undamaged, Unwritten, Honest
    <3>2. \/ /\ gateway'.at[r] = "upstream" /\ dir'.sidecars[r] = "own" /\ dir'.rows[r] = dir.rows[r] /\ r \in called'
          \/ /\ gateway'.at[r] = "failure" /\ dir'.sidecars[r] = "own"
             /\ dir'.rows[r] = <<"budget-exhausted">> /\ r \notin called'
          \/ /\ gateway'.at[r] = "error" /\ dir'.sidecars[r] = "none" /\ dir'.rows[r] = dir.rows[r]
             /\ r \notin called' /\ "sidecar" \in faults'
      BY <1>0, <1>1, <3>1 DEF Received
    <3>3. AtGateway(r)'
      <4>1. "sidecar" \in faults' => ~Honest'
        BY DEF Honest
      <4>2. <<"budget-exhausted">> # <<"response">> /\ <<>> # <<"response">>
        OBVIOUS
      <4>3. QED
        BY <3>1, <3>2, <4>1, <4>2, OneRow DEF AtGateway
    <3>4. AtPage(r)' /\ AtEngine(r)'
      BY <1>1, <3>2, StillOut
    <3>5. QED
      BY <2>2, <3>3, <3>4
  <2>3. QED
    BY <2>1, <2>2
<1>4. QED
  BY <1>2, <1>3 DEF StoryInv

LEMMA AdapterKeeps ==
  ASSUME TypeInv, StoryInv, NEW r \in Requests, AdapterReturns(r)
  PROVE  TypeInv' /\ StoryInv'
<1>1. PICK rows \in Stories, at \in {"response", "failure", "error"}, written \in SUBSET {r},
           fault \in {{}, {"append"}, {"routing"}} : Wrote(r, rows, at, written, fault)
  BY AdapterWrites
<1>2. /\ gateway.at[r] = "upstream" /\ AtGateway(r) /\ Directory(dir)
      /\ UNCHANGED <<run, engine, inbox, flight, entries, exported, fin, count, called>>
      /\ gateway'.at = [gateway.at EXCEPT ![r] = at] /\ dir'.rows = [dir.rows EXCEPT ![r] = rows]
      /\ faults \subseteq faults'
  BY <1>1, AdapterWrites DEF AdapterReturns, page, disk, StoryInv, TypeInv, Wrote
<1>3. TypeInv'
  <2>1. gateway' \in [alive : BOOLEAN, at : [Requests -> Places]]
    <3>1. gateway' = [alive |-> gateway.alive, at |-> gateway'.at]
      BY <1>1 DEF Wrote
    <3>2. gateway'.at \in [Requests -> Places] /\ gateway.alive \in BOOLEAN
      BY <1>1, <1>2 DEF TypeInv, Places, Wrote
    <3>3. QED
      BY <3>1, <3>2
  <2>2. QED
    BY <1>1, <1>2, <2>1 DEF TypeInv, Wrote
<1>4. ASSUME NEW q \in Requests PROVE AtGateway(q)' /\ AtPage(q)' /\ AtEngine(q)'
  <2>1. CASE q # r
    <3>1. /\ gateway'.at[q] = gateway.at[q] /\ dir'.rows[q] = dir.rows[q]
          /\ dir'.sidecars[q] = dir.sidecars[q] /\ (q \in dir'.routing <=> q \in dir.routing)
      BY <1>1, <1>2, <2>1 DEF TypeInv, Directory, Histories, Wrote
    <3>2. QED
      BY <1>2, <3>1, OthersStories
  <2>2. CASE q = r
    <3>1. /\ gateway'.at[r] = at /\ dir'.rows[r] = rows /\ dir'.sidecars[r] = dir.sidecars[r]
          /\ r \in dir'.routing <=> (r \in dir.routing \/ r \in written)
      BY <1>1, <1>2 DEF TypeInv, Directory, Histories, Wrote
    <3>2. /\ at = "response" => rows = <<"response">> /\ (Routed => written = {r})
          /\ at = "failure" => rows # <<>> /\ Last(rows) # "response"
          /\ at = "error" => fault # {}
          /\ fault = {} => Len(rows) = 1
          /\ fault # {} => ~Honest'
      BY <1>1 DEF Wrote, Honest
    <3>3. r \in called' /\ (Undamaged' => dir.sidecars[r] = "own")
      <4>1. Undamaged' => Undamaged
        BY <1>2, FaultsStay
      <4>2. r \in called' /\ (Undamaged => dir.sidecars[r] = "own")
        BY <1>2 DEF AtGateway
      <4>3. QED
        BY <4>1, <4>2
    <3>4. fault = {} => at # "error" /\ (rows = <<"response">> /\ at = "failure" => FALSE)
      BY <3>2, OneRow
    <3>5. AtGateway(r)'
      BY <3>1, <3>2, <3>3, <3>4 DEF AtGateway
    <3>6. AtPage(r)' /\ AtEngine(r)'
      BY <1>2, <3>1, StillOut
    <3>7. QED
      BY <2>2, <3>5, <3>6
  <2>3. QED
    BY <2>1, <2>2
<1>5. QED
  BY <1>3, <1>4 DEF StoryInv

LEMMA GatewayKeeps ==
  ASSUME TypeInv, StoryInv, StageInv, GatewayActs
  PROVE  TypeInv' /\ StoryInv' /\ StageInv'
<1>1. /\ gateway.alive /\ faults \subseteq faults'
      /\ UNCHANGED <<run, engine, flight, entries, exported, fin, count>>
      /\ dir'.ledger = dir.ledger /\ dir'.bundle = dir.bundle /\ (dir.seed => dir'.seed)
  <2>1. CASE GatewayEnds
    BY <2>1 DEF GatewayEnds, page, disk
  <2>2. ASSUME NEW r \in Requests, Receive(r), Received(r)
      PROVE  /\ gateway.alive /\ faults \subseteq faults'
             /\ UNCHANGED <<run, engine, flight, entries, exported, fin, count>>
             /\ dir'.ledger = dir.ledger /\ dir'.bundle = dir.bundle /\ (dir.seed => dir'.seed)
    BY <2>2 DEF Received, Receive, page, disk, Untouched
  <2>3. ASSUME NEW r \in Requests, AdapterReturns(r)
      PROVE  /\ gateway.alive /\ faults \subseteq faults'
             /\ UNCHANGED <<run, engine, flight, entries, exported, fin, count>>
             /\ dir'.ledger = dir.ledger /\ dir'.bundle = dir.bundle /\ (dir.seed => dir'.seed)
    <3>1. gateway.alive /\ UNCHANGED <<run, engine, flight, entries, exported, fin, count>>
      BY <2>3 DEF AdapterReturns, page, disk
    <3>2. PICK rows, at, written, fault : Wrote(r, rows, at, written, fault)
      BY <2>3, AdapterWrites
    <3>3. /\ faults \subseteq faults' /\ dir'.ledger = dir.ledger /\ dir'.bundle = dir.bundle
          /\ dir'.seed = dir.seed
      BY <3>2 DEF Wrote, Untouched
    <3>4. QED
      BY <3>1, <3>3
  <2>4. QED
    BY <2>1, <2>2, <2>3, ReceiveWrites DEF GatewayActs
<1>2. StageInv'
  BY <1>1, FaultsStay DEF StageInv, Exported, Staged, Idle, Waiting, Ledger, Other
<1>3. QED
  BY <1>2, GatewayEndsKeeps, ReceiveKeeps, AdapterKeeps DEF GatewayActs

-----------------------------------------------------------------------------
(* The operator's steps                                                    *)

OperatorActs == Export \/ prepareRunDirectory \/ Damage

LEMMA LedgersTyped ==
  ASSUME TypeInv
  PROVE  Ledger \in Ledgers /\ Other \in Ledgers /\ Ledger # None /\ Ledger # Other
<1>1. [r \in Requests |-> [Unsent EXCEPT !.fate = "expired"]] \in Accounts
  BY DEF Accounts, Unsent, Fates
<1>2. Ledger \in Ledgers /\ Other \in Ledgers
  BY <1>1 DEF Ledger, Other, Ledgers, TypeInv
<1>3. QED
  BY <1>2, NoneIsNothing DEF Ledger, Other

LEMMA ExportKeeps ==
  ASSUME TypeInv, StoryInv, StageInv, Export
  PROVE  TypeInv' /\ StoryInv' /\ StageInv'
<1>1. /\ UNCHANGED <<run, engine, inbox, flight, entries, gateway, dir, fin, count, called>>
      /\ run = "ended" /\ exported = None /\ Idle /\ faults \subseteq faults'
  BY DEF Export, page, Fault
<1>2. PICK binds \in {Ledger, None} :
        /\ exported' = [ledger |-> Ledger, bundle |-> [entries |-> entries, binds |-> binds]]
        /\ binds = None => ~Honest'
  <2>1. CASE exported' = [ledger |-> Ledger, bundle |-> [entries |-> entries, binds |-> Ledger]]
    BY <2>1, LedgersTyped
  <2>2. CASE /\ faults' = faults \cup {"unbound"}
             /\ exported' = [ledger |-> Ledger, bundle |-> [entries |-> entries, binds |-> None]]
    <3>1. ~Honest'
      BY <2>2 DEF Honest
    <3>2. QED
      BY <2>2, <3>1
  <2>3. QED
    BY <2>1, <2>2 DEF Export, Fault
<1>3. exported' \in [ledger : Ledgers, bundle : Bundles]
  BY <1>2, LedgersTyped DEF TypeInv, Bundles
<1>4. TypeInv'
  BY <1>1, <1>3 DEF TypeInv
<1>5. StoryInv'
  BY <1>1, OthersStories DEF StoryInv
<1>6. dir.ledger = None /\ dir.bundle = None
  BY <1>1 DEF StageInv, Staged
<1>7. Exported(exported)'
  <2>1. Idle' /\ Ledger' = Ledger
    BY <1>1 DEF Idle, Waiting, Ledger
  <2>2. /\ exported'.ledger = Ledger /\ exported'.bundle.entries = entries
        /\ exported'.bundle.binds = binds /\ binds \in {None, Ledger} /\ (Honest' => binds = Ledger)
    BY <1>2
  <2>3. QED
    BY <1>1, <2>1, <2>2 DEF Exported
<1>8. QED
  BY <1>1, <1>4, <1>5, <1>6, <1>7 DEF StageInv

LEMMA PrepareStages ==
  ASSUME TypeInv, StageInv, prepareRunDirectory
  PROVE  /\ UNCHANGED <<run, engine, inbox, flight, entries, gateway, exported, fin, count, called>>
         /\ faults \subseteq faults' /\ exported # None /\ dir.ledger = None /\ dir.seed
         /\ StopFirst => ~gateway.alive
         /\ \E ledger \in Ledgers, bundle \in {None, exported.bundle} :
              /\ dir' = [dir EXCEPT !.ledger = ledger, !.bundle = bundle]
              /\ ledger = Ledger \/ (ledger = Other /\ "ledger" \in faults')
              /\ Honest' => bundle = exported.bundle
<1>1. /\ UNCHANGED <<run, engine, inbox, flight, entries, gateway, exported, fin, count, called>>
      /\ faults \subseteq faults' /\ exported # None /\ dir.ledger = None /\ dir.seed
      /\ StopFirst => ~gateway.alive
  BY DEF prepareRunDirectory, page, disk, Fault
<1>2. exported.ledger = Ledger /\ exported.bundle \in Bundles /\ exported.bundle # None /\ dir.bundle = None
  BY <1>1, NoneIsNothing DEF StageInv, Exported, TypeInv
<1>3. \E ledger \in {Ledger, Other}, bundle \in {None, exported.bundle} :
        /\ Stage(ledger, bundle)
        /\ ledger = Ledger \/ "ledger" \in faults'
        /\ Honest' => bundle = exported.bundle
  <2>1. CASE Stage(exported.ledger, exported.bundle)
    BY <1>2, <2>1
  <2>2. CASE Fault("bundle") /\ Stage(exported.ledger, None)
    BY <1>2, <2>2 DEF Fault, Honest
  <2>3. CASE Fault("ledger") /\ \E bundle \in {None, exported.bundle} : Stage(Other, bundle)
    BY <2>3 DEF Fault, Honest
  <2>4. QED
    BY <2>1, <2>2, <2>3 DEF prepareRunDirectory
<1>4. ASSUME NEW ledger, NEW bundle, Stage(ledger, bundle)
      PROVE  dir' = [dir EXCEPT !.ledger = ledger, !.bundle = bundle]
  <2>1. dir' = [dir EXCEPT !.ledger = ledger, !.bundle = IF bundle # None THEN bundle ELSE dir.bundle]
    BY <1>4, Zenon DEF Stage, TypeInv, Directory
  <2>2. QED
    BY <1>2, <2>1
<1>5. QED
  BY <1>1, <1>3, <1>4, LedgersTyped

LEMMA PrepareKeeps ==
  ASSUME TypeInv, StoryInv, StageInv, prepareRunDirectory
  PROVE  TypeInv' /\ StoryInv' /\ StageInv'
<1>1. /\ UNCHANGED <<run, engine, inbox, flight, entries, gateway, exported, fin, count, called>>
      /\ faults \subseteq faults' /\ exported # None /\ dir.seed
      /\ StopFirst => ~gateway.alive
  BY PrepareStages
<1>2. PICK ledger \in Ledgers, bundle \in {None, exported.bundle} :
        /\ dir' = [dir EXCEPT !.ledger = ledger, !.bundle = bundle]
        /\ ledger = Ledger \/ (ledger = Other /\ "ledger" \in faults')
        /\ Honest' => bundle = exported.bundle
  BY PrepareStages
<1>3. /\ Directory(dir) /\ Exported(exported) /\ bundle \in Bundles \cup {None} /\ ledger # None
  BY <1>1, <1>2, NoneIsNothing DEF TypeInv, StageInv
<1>4. /\ Directory(dir') /\ dir'.seed = dir.seed /\ dir'.rows = dir.rows /\ dir'.sidecars = dir.sidecars
      /\ dir'.routing = dir.routing /\ dir'.ledger = ledger /\ dir'.bundle = bundle
  BY <1>2, <1>3 DEF Directory
<1>5. TypeInv'
  BY <1>1, <1>4 DEF TypeInv
<1>6. StoryInv'
  BY <1>1, <1>4, OthersStories DEF StoryInv
<1>7. Exported(exported)'
  BY <1>1, <1>3, FaultsStay DEF Exported, Idle, Waiting, Ledger
<1>8. Staged(dir)'
  <2>1. bundle # None => bundle.binds \in {None, Ledger}
    BY <1>2, <1>3 DEF Exported
  <2>2. QED
    BY <1>1, <1>2, <1>4, <2>1 DEF Staged, Ledger, Other
<1>9. QED
  BY <1>1, <1>3, <1>4, <1>5, <1>6, <1>7, <1>8 DEF StageInv

\* Damage takes rows, router evidence, the bundle or a sidecar away, or edits what is there;
\* only rewritten rows are more than they were, and only a rebound handoff binds anew.
Taken(d, e, kind) ==
  /\ Directory(e) /\ e.seed = d.seed /\ e.ledger # None
  /\ e.trace = d.trace /\ e.final = d.final /\ e.summary = d.summary /\ e.manifest = d.manifest
  /\ e.routing \subseteq d.routing
  /\ \A r \in Requests :
       /\ kind # "row" => \/ e.rows[r] \in {d.rows[r], <<>>}
                          \/ d.rows[r] # <<>> /\ e.rows[r] = Front(d.rows[r])
       /\ d.sidecars[r] = "none" => e.sidecars[r] = "none"
  /\ kind # "rebound" /\ e.bundle # None => d.bundle # None /\ e.bundle.binds = d.bundle.binds

LEMMA LostTakes == ASSUME TypeInv, dir.ledger # None, dir' \in Lost PROVE Taken(dir, dir', "damage")
<1>1. /\ Directory(dir) /\ dir.rows \in [Requests -> Stories]
      /\ dir.sidecars \in [Requests -> {"none", "own", "edited"}]
  BY DEF TypeInv, Directory, Histories
<1>2. ASSUME NEW rows \in Histories, dir' = [dir EXCEPT !.rows = rows],
             \A r \in Requests : \/ rows[r] \in {dir.rows[r], <<>>}
                                 \/ dir.rows[r] # <<>> /\ rows[r] = Front(dir.rows[r])
      PROVE  Taken(dir, dir', "damage")
  BY <1>1, <1>2 DEF Taken, Directory
<1>3. ASSUME dir' = [dir EXCEPT !.rows = [r \in Requests |-> <<>>]] PROVE Taken(dir, dir', "damage")
  <2> DEFINE rows == [r \in Requests |-> <<>>]
  <2>1. rows \in Histories /\ \A r \in Requests : rows[r] = <<>>
    BY StoriesOpen DEF Histories
  <2> HIDE DEF rows
  <2>2. dir' = [dir EXCEPT !.rows = rows]
    BY <1>3 DEF rows
  <2>3. QED
    BY <1>2, <2>1, <2>2
<1>4. ASSUME NEW q \in Requests, HasRow(dir, q), dir' = [dir EXCEPT !.rows[q] = Front(dir.rows[q])]
      PROVE  Taken(dir, dir', "damage")
  <2> DEFINE rows == [dir.rows EXCEPT ![q] = Front(dir.rows[q])]
  <2>1. /\ rows \in Histories
        /\ \A r \in Requests : \/ rows[r] = dir.rows[r]
                               \/ dir.rows[r] # <<>> /\ rows[r] = Front(dir.rows[r])
    BY <1>1, <1>4, StoriesRead DEF Histories, HasRow
  <2>2. dir' = [dir EXCEPT !.rows = rows]
    BY <1>4
  <2> HIDE DEF rows
  <2>3. QED
    BY <1>2, <2>1, <2>2
<1>5. ASSUME NEW q \in Requests, dir' = [dir EXCEPT !.sidecars[q] = "none"]
      PROVE  Taken(dir, dir', "damage")
  <2> DEFINE sidecars == [dir.sidecars EXCEPT ![q] = "none"]
  <2>1. /\ sidecars \in [Requests -> {"none", "own", "edited"}]
        /\ \A r \in Requests : dir.sidecars[r] = "none" => sidecars[r] = "none"
    BY <1>1
  <2>2. dir' = [dir EXCEPT !.sidecars = sidecars]
    BY <1>5
  <2> HIDE DEF sidecars
  <2>3. QED
    BY <1>1, <2>1, <2>2 DEF Taken, Directory
<1>6. CASE dir' = [dir EXCEPT !.bundle = None]
  BY <1>1, <1>6 DEF Taken, Directory
<1>7. CASE dir' = [dir EXCEPT !.routing = {}]
  BY <1>1, <1>7 DEF Taken, Directory
<1>8. QED
  BY <1>3, <1>4, <1>5, <1>6, <1>7 DEF Lost

LEMMA EditedTakes == ASSUME TypeInv, dir.ledger # None, dir' \in Edited PROVE Taken(dir, dir', "damage")
<1>1. /\ Directory(dir) /\ dir.ledger \in Ledgers /\ dir.ledger # None
      /\ dir.sidecars \in [Requests -> {"none", "own", "edited"}]
      /\ dir.bundle # None => dir.bundle \in Bundles
  BY DEF TypeInv, Directory
<1>2. ASSUME NEW q \in Requests, HasSidecar(dir, q), dir' = [dir EXCEPT !.sidecars[q] = "edited"]
      PROVE  Taken(dir, dir', "damage")
  <2> DEFINE sidecars == [dir.sidecars EXCEPT ![q] = "edited"]
  <2>1. /\ sidecars \in [Requests -> {"none", "own", "edited"}]
        /\ \A r \in Requests : dir.sidecars[r] = "none" => sidecars[r] = "none"
    BY <1>1, <1>2 DEF HasSidecar
  <2>2. dir' = [dir EXCEPT !.sidecars = sidecars]
    BY <1>2
  <2> HIDE DEF sidecars
  <2>3. QED
    BY <1>1, <2>1, <2>2 DEF Taken, Directory
<1>3. ASSUME NEW q \in Requests, NEW e \in Told \cup {None}, dir.bundle # None,
             dir' = [dir EXCEPT !.bundle.entries[q] = e]
      PROVE  Taken(dir, dir', "damage")
  <2> DEFINE bundle == [dir.bundle EXCEPT !.entries[q] = e]
  <2>1. e \in Entries \cup {None}
    BY DEF Told, Entries
  <2>2. bundle \in Bundles /\ bundle.binds = dir.bundle.binds
    BY <1>1, <1>3, <2>1 DEF Bundles
  <2>3. dir' = [dir EXCEPT !.bundle = bundle]
    BY <1>3
  <2> HIDE DEF bundle
  <2>4. QED
    BY <1>1, <1>3, <2>2, <2>3 DEF Taken, Directory
<1>4. ASSUME NEW q \in Requests, NEW a \in Lived, dir' = [dir EXCEPT !.ledger.of[q] = a]
      PROVE  Taken(dir, dir', "damage")
  <2> DEFINE ledger == [dir.ledger EXCEPT !.of[q] = a]
  <2>1. a \in [fate : Fates, verdict : {"none", "accepted", "rejected"}, failed : BOOLEAN]
    <3>1. Unsent \in [fate : Fates, verdict : {"none", "accepted", "rejected"}, failed : BOOLEAN]
      BY DEF Unsent, Fates
    <3>2. a \in [fate : {"accepted", "expired", "superseded"}, verdict : {"none", "accepted", "rejected"},
                failed : BOOLEAN] \/ a = Unsent
      BY DEF Lived
    <3>3. QED
      BY <3>1, <3>2 DEF Fates
  <2>2. ledger \in Ledgers
    BY <1>1, <2>1 DEF Ledgers, Accounts
  <2>3. dir' = [dir EXCEPT !.ledger = ledger]
    BY <1>4
  <2> HIDE DEF ledger
  <2>4. QED
    BY <1>1, <2>2, <2>3, NoneIsNothing DEF Taken, Directory
<1>5. QED
  BY <1>2, <1>3, <1>4 DEF Edited

LEMMA DamageTakes ==
  ASSUME TypeInv, Damage
  PROVE  \E kind \in {"damage", "row", "rebound"} : faults' = faults \cup {kind} /\ Taken(dir, dir', kind)
<1>1. /\ Directory(dir) /\ dir.rows \in [Requests -> Stories] /\ dir.ledger # None
      /\ dir.ledger \in Ledgers
      /\ dir.bundle # None => dir.bundle \in Bundles
  BY DEF TypeInv, Directory, Histories, Damage
<1>2. ASSUME Damaged("damage"), dir' \in Lost \cup Edited
      PROVE  faults' = faults \cup {"damage"} /\ Taken(dir, dir', "damage")
  BY <1>1, <1>2, LostTakes, EditedTakes DEF Damaged, Fault
<1>3. ASSUME Damaged("row"), NEW q \in Requests, NEW story \in Stories, dir' = [dir EXCEPT !.rows[q] = story]
      PROVE  faults' = faults \cup {"row"} /\ Taken(dir, dir', "row")
  <2> DEFINE rows == [dir.rows EXCEPT ![q] = story]
  <2>1. rows \in Histories
    BY <1>1 DEF Histories
  <2>2. dir' = [dir EXCEPT !.rows = rows]
    BY <1>3
  <2> HIDE DEF rows
  <2>3. QED
    BY <1>1, <1>3, <2>1, <2>2 DEF Taken, Directory, Damaged, Fault
<1>4. ASSUME Damaged("rebound"), dir.bundle # None, dir' = [dir EXCEPT !.bundle.binds = dir.ledger]
      PROVE  faults' = faults \cup {"rebound"} /\ Taken(dir, dir', "rebound")
  <2> DEFINE bundle == [dir.bundle EXCEPT !.binds = dir.ledger]
  <2>1. bundle \in Bundles
    BY <1>1, <1>4 DEF Bundles
  <2>2. dir' = [dir EXCEPT !.bundle = bundle]
    BY <1>4
  <2> HIDE DEF bundle
  <2>3. QED
    BY <1>1, <1>4, <2>1, <2>2 DEF Taken, Directory, Damaged, Fault
<1>5. QED
  BY <1>2, <1>3, <1>4 DEF Damage

LEMMA DamageKeeps ==
  ASSUME TypeInv, StoryInv, StageInv, Damage
  PROVE  TypeInv' /\ StoryInv' /\ StageInv'
<1>1. /\ UNCHANGED <<run, engine, inbox, flight, entries, gateway, exported, fin, count, called>>
      /\ dir.ledger # None
  BY DEF Damage, page, disk
<1>2. PICK kind \in {"damage", "row", "rebound"} :
        faults' = faults \cup {kind} /\ Taken(dir, dir', kind)
  BY DamageTakes
<1>3. /\ Directory(dir) /\ ~Undamaged' /\ ~Honest' /\ (Unwritten' => Unwritten /\ kind # "row")
      /\ "rebound" \notin faults' => "rebound" \notin faults /\ kind # "rebound"
  BY <1>2 DEF TypeInv, Undamaged, Unwritten, Honest
<1>4. TypeInv'
  BY <1>1, <1>2 DEF TypeInv, Taken
<1>5. ASSUME NEW r \in Requests PROVE AtGateway(r)' /\ AtPage(r)' /\ AtEngine(r)'
  <2>1. AtGateway(r) /\ AtPage(r) /\ AtEngine(r)
    BY DEF StoryInv
  <2>2. /\ kind # "row" => \/ dir'.rows[r] \in {dir.rows[r], <<>>}
                           \/ dir.rows[r] # <<>> /\ dir'.rows[r] = Front(dir.rows[r])
        /\ dir.sidecars[r] = "none" => dir'.sidecars[r] = "none"
        /\ r \in dir'.routing => r \in dir.routing
    BY <1>2 DEF Taken
  <2>3. Front(<<"response">>) = <<>>
    BY DEF Front
  <2>4. Unwritten' /\ dir.rows[r] \in {<<>>, <<"response">>} => dir'.rows[r] \in {<<>>, <<"response">>}
    BY <1>3, <2>2, <2>3
  <2>5. Unwritten' /\ dir.rows[r] = <<>> => dir'.rows[r] = <<>>
    BY <1>3, <2>2
  <2>6. AtGateway(r)'
    BY <1>1, <1>3, <2>1, <2>2, <2>4, <2>5 DEF AtGateway
  <2>7. AtPage(r)'
    BY <1>1, <1>3, <2>1, <2>4 DEF AtPage
  <2>8. AtEngine(r)'
    BY <1>1, <2>1 DEF AtEngine
  <2>9. QED
    BY <2>6, <2>7, <2>8
<1>6. Exported(exported)' /\ Staged(dir)'
  <2>1. Exported(exported) /\ Staged(dir)
    BY <1>1 DEF StageInv, Staged
  <2>2. Exported(exported)'
    BY <1>1, <1>3, <2>1 DEF Exported, Idle, Waiting, Ledger
  <2>3. /\ dir'.seed = dir.seed /\ dir'.ledger # None
        /\ kind # "rebound" /\ dir'.bundle # None =>
             dir.bundle # None /\ dir'.bundle.binds = dir.bundle.binds
    BY <1>2 DEF Taken
  <2>4. QED
    BY <1>1, <1>3, <2>1, <2>2, <2>3 DEF Staged, Ledger
<1>7. dir'.ledger # None
  BY <1>2 DEF Taken
<1>8. QED
  BY <1>1, <1>4, <1>5, <1>6, <1>7 DEF StageInv, StoryInv

-----------------------------------------------------------------------------
(* The finalizer's steps                                                   *)

\* What is derived from a directory depends on what was not derived.
SameEvidence(d, e) ==
  /\ e.seed = d.seed /\ e.rows = d.rows /\ e.sidecars = d.sidecars /\ e.routing = d.routing
  /\ e.ledger = d.ledger /\ e.bundle = d.bundle

LEMMA ReadAlike ==
  ASSUME NEW d, NEW e, SameEvidence(d, e), NEW r
  PROVE  /\ clientOf(d, r) = clientOf(e, r) /\ Observed(d, r) = Observed(e, r)
         /\ HasRow(d, r) = HasRow(e, r) /\ HasSidecar(d, r) = HasSidecar(e, r)
         /\ Orphan(d, r) = Orphan(e, r) /\ Disagree(d, r) = Disagree(e, r)
         /\ classifyDisposition(d, r) = classifyDisposition(e, r)
         /\ Row(d, r) = Row(e, r) /\ FinalRow(d, r) = FinalRow(e, r)
         /\ Unexplained(d, r) = Unexplained(e, r) /\ ResultUnproven(d, r) = ResultUnproven(e, r)
<1>1. /\ clientOf(d, r) = clientOf(e, r) /\ HasRow(d, r) = HasRow(e, r)
      /\ HasSidecar(d, r) = HasSidecar(e, r) /\ Row(d, r) = Row(e, r)
      /\ d.ledger = e.ledger /\ d.rows = e.rows /\ d.sidecars = e.sidecars /\ d.routing = e.routing
  BY DEF SameEvidence, clientOf, HasRow, HasSidecar, Row
<1>2. Observed(d, r) = Observed(e, r)
  BY <1>1 DEF Observed
<1>3. Interrupted(d, r) = Interrupted(e, r)
  BY <1>1 DEF Interrupted
<1>4. classifyDisposition(d, r) = classifyDisposition(e, r)
  BY <1>1, <1>2, <1>3, Zenon DEF classifyDisposition
<1>5. Orphan(d, r) = Orphan(e, r) /\ Disagree(d, r) = Disagree(e, r)
  BY <1>1, <1>2 DEF Orphan, Disagree
<1>6. FinalRow(d, r) = FinalRow(e, r)
  BY <1>1, <1>4 DEF FinalRow
<1>7. Unexplained(d, r) = Unexplained(e, r) /\ ResultUnproven(d, r) = ResultUnproven(e, r)
  BY <1>1, <1>2 DEF Unexplained, ResultUnproven
<1>8. QED
  BY <1>1, <1>2, <1>4, <1>5, <1>6, <1>7

LEMMA DerivedAlike ==
  ASSUME NEW d, NEW e, SameEvidence(d, e), NEW n
  PROVE  /\ Joined(d) = Joined(e) /\ Fatal(d) = Fatal(e)
         /\ failedCriteria(d) = failedCriteria(e) /\ status(d) = status(e)
         /\ finalizedTrace(d, n) = finalizedTrace(e, n) /\ finalManifest(d, n) = finalManifest(e, n)
         /\ buildModelSummary(d, n) = buildModelSummary(e, n)
<1>1. /\ d.ledger = e.ledger /\ d.rows = e.rows /\ d.routing = e.routing /\ d.bundle = e.bundle
      /\ d.seed = e.seed
  BY DEF SameEvidence
<1>2. Joined(d) = Joined(e)
  BY ReadAlike DEF Joined
<1>3. Contradicted(d) = Contradicted(e)
  BY <1>1, ReadAlike DEF Contradicted
<1>4. Fatal(d) = Fatal(e)
  BY <1>1, <1>2, <1>3, ReadAlike DEF Fatal
<1>5. ASSUME NEW c \in Criteria PROVE Fails(d, c) = Fails(e, c)
  BY <1>1, <1>2, ReadAlike DEF Criteria, Fails
<1>6. failedCriteria(d) = failedCriteria(e) /\ status(d) = status(e)
  BY <1>5 DEF failedCriteria, status
<1>7. finalizedTrace(d, n) = finalizedTrace(e, n)
  BY <1>2, ReadAlike DEF finalizedTrace
<1>8. finalManifest(d, n) = finalManifest(e, n)
  BY <1>1, <1>6 DEF finalManifest
<1>9. buildModelSummary(d, n) = buildModelSummary(e, n)
  BY <1>1 DEF buildModelSummary
<1>10. QED
  BY <1>2, <1>4, <1>6, <1>7, <1>8, <1>9

\* What a finalization stages has its type.
LEMMA DerivedTyped ==
  ASSUME NEW d, Directory(d), d.ledger # None, NEW n \in Nat
  PROVE  finalizedTrace(d, n) \in Traces /\ finalManifest(d, n) \in Finals
<1>1. /\ d.ledger \in Ledgers /\ d.rows \in [Requests -> Stories] /\ d.ledger.of \in Accounts
  BY DEF Directory, Histories, Ledgers
<1>2. ASSUME NEW r \in Requests PROVE FinalRow(d, r) \in FinalRows
  <2>1. d.ledger.of[r] \in Account
    BY <1>1 DEF Accounts, Account
  <2>2. Row(d, r) \in Outcomes \cup {"none"}
    BY <1>1, StoriesRead DEF Row, HasRow
  <2>3. resolveEngineOutcome(d.ledger.of[r]) \in {"accepted", "rejected", "expired", "superseded", "none"}
    BY <2>1 DEF resolveEngineOutcome, resolutionCount, ledgerProvenGatewayResult, Account, Fates
  <2>4. classifyDisposition(d, r) \in {"none", "gateway-answered", "gateway-interrupted",
                                       "never-dispatched", "moot-after-resolution"}
    BY DEF classifyDisposition
  <2>5. QED
    BY <2>2, <2>3, <2>4 DEF FinalRow, FinalRows
<1>3. finalizedTrace(d, n) \in Traces
  <2>1. Joined(d) \in SUBSET Requests
    BY DEF Joined
  <2>2. [r \in Joined(d) |-> FinalRow(d, r)] \in [Joined(d) -> FinalRows]
    BY <1>2, <2>1
  <2>3. QED
    BY <2>1, <2>2 DEF finalizedTrace, Traces
<1>4. finalManifest(d, n) \in Finals
  <2>1. Requested(d.ledger) \in SUBSET Requests
    BY DEF Requested
  <2>2. Cardinality(Requested(d.ledger)) \in {Cardinality(known) : known \in SUBSET Requests}
    BY <2>1
  <2>3. /\ Attempted(d.rows) \in {Attempted(rows) : rows \in Histories}
        /\ Answered(d.rows) \in {Answered(rows) : rows \in Histories}
    BY DEF Directory
  <2>4. status(d) \in {"completed", "degraded"}
    BY DEF status
  <2>5. QED
    BY <1>1, <2>2, <2>3, <2>4 DEF finalManifest, Finals
<1>5. QED
  BY <1>3, <1>4

FinalizerActs ==
  (\E allowDegraded \in BOOLEAN : Finalize(allowDegraded)) \/ Commit \/ Crash \/ summarizeRunDirectory

\* The finalizer leaves the evidence alone.
Finalizes ==
  /\ UNCHANGED <<run, engine, inbox, flight, entries, gateway, exported, called>>
  /\ faults \subseteq faults'
  /\ Directory(dir') /\ SameEvidence(dir, dir')

LEMMA FilesWritten ==
  ASSUME NEW d, Directory(d), NEW x, NEW e,
         \/ e = [d EXCEPT !.trace = x] \/ e = [d EXCEPT !.final = x]
         \/ e = [d EXCEPT !.summary = x] \/ e = [d EXCEPT !.manifest = x]
  PROVE  Directory(e) /\ SameEvidence(d, e)
<1>1. CASE e = [d EXCEPT !.trace = x]
  BY <1>1 DEF Directory, SameEvidence
<1>2. CASE e = [d EXCEPT !.final = x]
  BY <1>2 DEF Directory, SameEvidence
<1>3. CASE e = [d EXCEPT !.summary = x]
  BY <1>3 DEF Directory, SameEvidence
<1>4. CASE e = [d EXCEPT !.manifest = x]
  BY <1>4 DEF Directory, SameEvidence
<1>5. QED
  BY <1>1, <1>2, <1>3, <1>4

LEMMA FinalizerShape == ASSUME TypeInv, FinalizerActs PROVE Finalizes
<1>1. Directory(dir)
  BY DEF TypeInv
<1>2. ASSUME UNCHANGED dir PROVE Directory(dir') /\ SameEvidence(dir, dir')
  BY <1>1, <1>2 DEF SameEvidence
<1>3. ASSUME NEW allowDegraded \in BOOLEAN, Finalize(allowDegraded) PROVE Finalizes
  BY <1>2, <1>3 DEF Finalize, Finalizes, page
<1>4. CASE Crash
  BY <1>2, <1>4 DEF Crash, Finalizes, page, Fault
<1>5. CASE Commit
  <2>1. Elsewhere
    BY <1>5 DEF Commit, Summarized, Unseal, RenameTrace, RenameFinal, RenameSummary, Seal
  <2>2. Directory(dir') /\ SameEvidence(dir, dir')
    <3>1. ASSUME NEW x, \/ dir' = [dir EXCEPT !.trace = x] \/ dir' = [dir EXCEPT !.final = x]
                        \/ dir' = [dir EXCEPT !.summary = x] \/ dir' = [dir EXCEPT !.manifest = x]
          PROVE  Directory(dir') /\ SameEvidence(dir, dir')
      BY <1>1, <3>1, FilesWritten
    <3>2. CASE Summarized
      BY <1>2, <3>2 DEF Summarized
    <3>3. CASE Unseal
      BY <3>1, <3>3 DEF Unseal
    <3>4. CASE RenameTrace
      BY <3>1, <3>4 DEF RenameTrace
    <3>5. CASE RenameFinal
      BY <3>1, <3>5 DEF RenameFinal
    <3>6. CASE RenameSummary
      BY <3>1, <3>6 DEF RenameSummary
    <3>7. CASE Seal
      BY <3>1, <3>7 DEF Seal
    <3>8. QED
      BY <1>5, <3>2, <3>3, <3>4, <3>5, <3>6, <3>7 DEF Commit
  <2>3. QED
    BY <2>1, <2>2 DEF Elsewhere, Finalizes, page
<1>6. CASE summarizeRunDirectory
  <2> DEFINE d == [dir EXCEPT !.summary = buildModelSummary(dir, 0)]
             m == bundleManifest(d, "model:summarize", None)
  <2>1. dir' = [d EXCEPT !.manifest = m] /\ Elsewhere
    BY <1>6 DEF summarizeRunDirectory
  <2>2. Directory(d) /\ SameEvidence(dir, d)
    BY <1>1, FilesWritten
  <2> HIDE DEF d, m
  <2>3. Directory(dir') /\ SameEvidence(d, dir')
    BY <2>1, <2>2, FilesWritten
  <2>4. QED
    BY <2>1, <2>2, <2>3 DEF SameEvidence, Elsewhere, Finalizes, page
<1>7. QED
  BY <1>3, <1>4, <1>5, <1>6 DEF FinalizerActs

\* Its own state has its type.
LEMMA FinalizerTyped ==
  ASSUME TypeInv, FinalizerActs, EmptyInv
  PROVE  /\ fin' \in [pc : Stations, staged : Stagings \cup {None}] /\ count' \in 0..MaxFinalizes
         /\ fin'.pc = "idle" <=> fin'.staged = None
<1>1. /\ fin \in [pc : Stations, staged : Stagings \cup {None}] /\ count \in 0..MaxFinalizes
      /\ fin.pc = "idle" <=> fin.staged = None
      /\ Directory(dir)
  BY DEF TypeInv
<1>2. ASSUME NEW s \in Stagings, NEW pc \in Stations \ {"idle"}, fin' = [pc |-> pc, staged |-> s],
             count' \in 0..MaxFinalizes
      PROVE  /\ fin' \in [pc : Stations, staged : Stagings \cup {None}] /\ count' \in 0..MaxFinalizes
             /\ fin'.pc = "idle" <=> fin'.staged = None
  BY <1>2, NoneIsNothing
<1>3. ASSUME fin' = NoFin, count' = count
      PROVE  /\ fin' \in [pc : Stations, staged : Stagings \cup {None}] /\ count' \in 0..MaxFinalizes
             /\ fin'.pc = "idle" <=> fin'.staged = None
  BY <1>1, <1>3 DEF NoFin, Stations
<1>4. ASSUME NEW allowDegraded \in BOOLEAN, Finalize(allowDegraded)
      PROVE  /\ fin' \in [pc : Stations, staged : Stagings \cup {None}] /\ count' \in 0..MaxFinalizes
             /\ fin'.pc = "idle" <=> fin'.staged = None
  <2>1. count' = count + 1 /\ count' \in 0..MaxFinalizes /\ dir.ledger # None
    BY <1>1, <1>4, FinalizesAreCounted DEF Finalize
  <2> DEFINE s == [trace |-> finalizedTrace(dir, count'), final |-> finalManifest(dir, count'), summary |-> None]
  <2>2. finalizedTrace(dir, count') \in Traces /\ finalManifest(dir, count') \in Finals
    BY <1>1, <2>1, DerivedTyped
  <2>3. s \in Stagings
    BY <2>2 DEF Stagings
  <2>4. fin' = [pc |-> "summary", staged |-> s]
    BY <1>4 DEF Finalize
  <2>5. QED
    BY <1>2, <2>1, <2>3, <2>4 DEF Stations
<1>5. CASE Summarized
  <2> DEFINE s == [fin.staged EXCEPT !.summary = buildModelSummary(dir, count)]
  <2>1. fin.staged \in Stagings /\ buildModelSummary(dir, count) \in Summaries
    BY <1>1, <1>5, FinalizesAreCounted DEF Summarized, buildModelSummary, Summaries, Directory
  <2>2. s \in Stagings
    BY <2>1 DEF Stagings
  <2>3. fin' = [pc |-> "unsealing", staged |-> s] /\ count' = count
    BY <1>1, <1>5 DEF Summarized, Elsewhere
  <2>4. QED
    BY <1>1, <1>2, <2>2, <2>3 DEF Stations
<1>6. CASE Unseal \/ RenameTrace \/ RenameFinal \/ RenameSummary
  <2>1. PICK from \in Stations \ {"idle"}, to \in Stations \ {"idle"} : Step(from, to)
    BY <1>6 DEF Unseal, RenameTrace, RenameFinal, RenameSummary, Stations
  <2>2. count' = count
    BY <1>6 DEF Unseal, RenameTrace, RenameFinal, RenameSummary, Elsewhere
  <2>3. fin.staged \in Stagings /\ fin' = [pc |-> to, staged |-> fin.staged]
    BY <1>1, <2>1 DEF Step
  <2>4. QED
    BY <1>1, <1>2, <2>2, <2>3
<1>7. CASE Seal
  BY <1>3, <1>7 DEF Seal, Elsewhere
<1>8. CASE Crash
  BY <1>3, <1>8 DEF Crash
<1>9. CASE summarizeRunDirectory
  BY <1>1, <1>9 DEF summarizeRunDirectory, Elsewhere
<1>10. QED
  BY <1>4, <1>5, <1>6, <1>7, <1>8, <1>9 DEF FinalizerActs, Commit

LEMMA FinalizerKeeps ==
  ASSUME TypeInv, StoryInv, StageInv, FinalizerActs, EmptyInv
  PROVE  TypeInv' /\ StoryInv' /\ StageInv'
<1>1. Finalizes
  BY FinalizerShape
<1>2. TypeInv'
  BY <1>1, FinalizerTyped DEF TypeInv, Finalizes
<1>3. StoryInv'
  BY <1>1, OthersStories DEF StoryInv, Finalizes, SameEvidence
<1>4. StageInv'
  BY <1>1, FaultsStay DEF StageInv, Exported, Staged, Idle, Waiting, Ledger, Other, Finalizes, SameEvidence
<1>5. QED
  BY <1>2, <1>3, <1>4

-----------------------------------------------------------------------------
(* Any step                                                                *)

RunInv == TypeInv /\ StoryInv /\ StageInv /\ EmptyInv /\ UpwardInv

\* Of the steps that are not the finalizer's, none touches what it derives.
LEMMA OnlyFinalizerDerives ==
  ASSUME TypeInv, StoryInv, StageInv, EngineActs \/ PageActs \/ GatewayActs \/ OperatorActs
  PROVE  /\ UNCHANGED <<fin, count>> /\ faults \subseteq faults'
         /\ dir'.trace = dir.trace /\ dir'.final = dir.final
         /\ dir'.summary = dir.summary /\ dir'.manifest = dir.manifest
         /\ dir.ledger # None => dir'.ledger # None
<1>1. CASE EngineActs
  BY <1>1, EngineShape DEF EngineMoves
<1>2. CASE PageActs
  <2>1. PICK r \in Requests : Dispatches(r) \/ \E e \in Entries : Settles(r, e)
    BY <1>2, PageShape
  <2>2. QED
    BY <2>1 DEF Dispatches, Settles, Ends
<1>3. CASE GatewayActs
  <2>1. CASE GatewayEnds
    BY <2>1 DEF GatewayEnds, disk
  <2>2. ASSUME NEW r \in Requests, Receive(r), Received(r)
        PROVE  /\ UNCHANGED <<fin, count>> /\ faults \subseteq faults' /\ Untouched(dir, dir')
    BY <2>2 DEF Received, Receive, disk
  <2>3. ASSUME NEW r \in Requests, AdapterReturns(r)
        PROVE  /\ UNCHANGED <<fin, count>> /\ faults \subseteq faults' /\ Untouched(dir, dir')
    BY <2>3, AdapterWrites DEF AdapterReturns, disk, Wrote
  <2>4. QED
    BY <1>3, <2>1, <2>2, <2>3, ReceiveWrites DEF GatewayActs, Untouched
<1>4. CASE Export
  BY <1>4 DEF Export, Fault
<1>5. CASE prepareRunDirectory
  <2>1. UNCHANGED <<fin, count>> /\ faults \subseteq faults' /\ dir.ledger = None
    BY <1>5, PrepareStages
  <2>2. PICK ledger, bundle : dir' = [dir EXCEPT !.ledger = ledger, !.bundle = bundle]
    BY <1>5, PrepareStages
  <2>3. QED
    BY <2>1, <2>2 DEF TypeInv, Directory
<1>6. CASE Damage
  BY <1>6, DamageTakes DEF Damage, disk, Fault, Taken
<1>7. QED
  BY <1>1, <1>2, <1>3, <1>4, <1>5, <1>6 DEF OperatorActs

LEMMA WhoActs ==
  Next => EngineActs \/ PageActs \/ GatewayActs \/ OperatorActs \/ FinalizerActs
BY DEF Next, EngineActs, PageActs, GatewayActs, OperatorActs, FinalizerActs

\* The finalizer's only change of the final manifest, and its only new verdict.
LEMMA FinalMoves ==
  ASSUME TypeInv, EmptyInv, FinalizerActs
  PROVE  /\ dir.ledger # None
         /\ \/ dir'.final = dir.final /\ (fin' = NoFin \/ fin'.staged.final = fin.staged.final)
               /\ (fin'.pc # "idle" => fin.pc # "idle")
            \/ dir'.final = fin.staged.final /\ fin.pc = "final" /\ fin'.staged = fin.staged
            \/ /\ fin.pc = "idle" /\ dir' = dir /\ ~Downgrades
               /\ fin'.staged.final = finalManifest(dir, count')
<1>1. /\ Directory(dir) /\ fin \in [pc : Stations, staged : Stagings \cup {None}]
      /\ (fin.pc # "idle" => fin.staged \in Stagings)
  BY DEF TypeInv
<1>2. ASSUME NEW allowDegraded \in BOOLEAN, Finalize(allowDegraded)
      PROVE  /\ fin.pc = "idle" /\ dir' = dir /\ ~Downgrades /\ dir.ledger # None
             /\ fin'.staged.final = finalManifest(dir, count')
  BY <1>2 DEF Finalize
<1>3. ASSUME Crash \/ Seal
      PROVE  dir.ledger # None /\ dir'.final = dir.final /\ fin' = NoFin /\ fin'.pc = "idle"
  BY <1>1, <1>3 DEF Crash, Seal, EmptyInv, Step, NoFin, Directory
<1>4. ASSUME Summarized
      PROVE  dir.ledger # None /\ dir' = dir /\ fin.pc # "idle" /\ fin'.staged.final = fin.staged.final
  BY <1>1, <1>4 DEF Summarized, EmptyInv, Stagings
<1>5. ASSUME Unseal \/ RenameTrace \/ RenameSummary
      PROVE  dir.ledger # None /\ dir'.final = dir.final /\ fin.pc # "idle" /\ fin'.staged = fin.staged
  BY <1>1, <1>5 DEF Unseal, RenameTrace, RenameSummary, EmptyInv, Step, Directory
<1>6. ASSUME RenameFinal
      PROVE  /\ dir.ledger # None /\ dir'.final = fin.staged.final
             /\ fin.pc = "final" /\ fin'.staged = fin.staged
  BY <1>1, <1>6 DEF RenameFinal, EmptyInv, Step, Directory
<1>7. ASSUME summarizeRunDirectory
      PROVE  dir.ledger # None /\ dir'.final = dir.final /\ fin' = fin
  BY <1>1, <1>7 DEF summarizeRunDirectory, Directory
<1>8. QED
  BY <1>2, <1>3, <1>4, <1>5, <1>6, <1>7 DEF FinalizerActs, Commit

LEMMA InitRun == Init => RunInv
<1> SUFFICES ASSUME Init PROVE RunInv
  OBVIOUS
<1>1. TypeInv
  BY InitType
<1>2. ASSUME NEW r \in Requests PROVE AtGateway(r) /\ AtPage(r) /\ AtEngine(r)
  <2>1. /\ flight = 0 /\ r # 0 /\ entries[r] = None /\ engine[r] = Unsent /\ gateway.at[r] = "none"
        /\ inbox = {} /\ run = "running" /\ called = {}
        /\ dir.rows[r] = <<>> /\ dir.sidecars[r] = "none" /\ dir.routing = {}
    BY RequestsAreNumbered DEF Init
  <2>2. AtGateway(r)
    BY <2>1 DEF AtGateway
  <2>3. AtPage(r)
    BY <2>1 DEF AtPage
  <2>4. AtEngine(r)
    BY <2>1 DEF AtEngine, Unsent
  <2>5. QED
    BY <2>2, <2>3, <2>4
<1>3. StageInv /\ EmptyInv /\ UpwardInv
  BY DEF Init, StageInv, EmptyInv, UpwardInv, NoFin
<1>4. QED
  BY <1>1, <1>2, <1>3 DEF RunInv, StoryInv

LEMMA RunStep == RunInv /\ [Next]_vars => RunInv'
<1> SUFFICES ASSUME RunInv, [Next]_vars PROVE RunInv'
  OBVIOUS
<1>1. TypeInv /\ StoryInv /\ StageInv /\ EmptyInv /\ UpwardInv
  BY DEF RunInv
<1>2. CASE EngineActs \/ PageActs \/ GatewayActs \/ OperatorActs
  <2>1. TypeInv' /\ StoryInv' /\ StageInv'
    BY <1>1, <1>2, EngineKeeps, PageKeeps, GatewayKeeps, ExportKeeps, PrepareKeeps, DamageKeeps
       DEF OperatorActs
  <2>2. EmptyInv' /\ UpwardInv'
    BY <1>1, <1>2, OnlyFinalizerDerives DEF EmptyInv, UpwardInv
  <2>3. QED
    BY <2>1, <2>2 DEF RunInv
<1>3. CASE FinalizerActs
  <2>1. TypeInv' /\ StoryInv' /\ StageInv'
    BY <1>1, <1>3, FinalizerKeeps
  <2>2. dir.ledger # None /\ dir'.ledger = dir.ledger
    BY <1>1, <1>3, FinalMoves, FinalizerShape DEF Finalizes, SameEvidence
  <2>3. UpwardInv'
    <3>1. finalManifest(dir, count').status = status(dir) /\ status(dir) \in {"completed", "degraded"}
      BY DEF finalManifest, status
    <3>2. QED
      BY <1>1, <1>3, <3>1, FinalMoves DEF UpwardInv, Downgrades, NoFin
  <2>4. QED
    BY <2>1, <2>2, <2>3 DEF RunInv, EmptyInv
<1>4. CASE UNCHANGED vars
  <2>1. TypeInv' /\ EmptyInv' /\ UpwardInv'
    BY <1>1, <1>4 DEF vars, page, disk, TypeInv, EmptyInv, UpwardInv
  <2>2. StoryInv'
    BY <1>1, <1>4, OthersStories DEF vars, page, disk, StoryInv
  <2>3. StageInv'
    BY <1>1, <1>4 DEF vars, page, disk, StageInv, Exported, Staged, Idle, Waiting, Ledger, Other, Honest, Undamaged
  <2>4. QED
    BY <2>1, <2>2, <2>3 DEF RunInv
<1>5. QED
  BY <1>2, <1>3, <1>4, WhoActs

LEMMA RunAlways == Spec => []RunInv
BY InitRun, RunStep, PTL DEF Spec

\* finalize.ts refuses to replace a completed final manifest by a degraded one, across crashes
\* and repeated invocations: for any requests, faults and invocations.
THEOREM CompletedIsKept == Spec => CompletedStays
<1>1. RunInv /\ [Next]_vars =>
        [dir.final # None /\ dir.final.status = "completed" =>
           dir'.final # None /\ dir'.final.status = "completed"]_vars
  <2> SUFFICES ASSUME RunInv, Next, dir.final # None, dir.final.status = "completed"
               PROVE  dir'.final # None /\ dir'.final.status = "completed"
    BY DEF vars, page, disk
  <2>1. TypeInv /\ StoryInv /\ StageInv /\ EmptyInv /\ UpwardInv
    BY DEF RunInv
  <2>2. CASE EngineActs \/ PageActs \/ GatewayActs \/ OperatorActs
    BY <2>1, <2>2, OnlyFinalizerDerives
  <2>3. CASE FinalizerActs
    <3>1. fin.pc = "final" => fin.staged \in Stagings /\ fin.staged.final # None
      BY <2>1, NoneIsNothing DEF TypeInv, Stagings
    <3>2. QED
      BY <2>1, <2>3, <3>1, FinalMoves DEF UpwardInv
  <2>4. QED
    BY <2>2, <2>3, WhoActs
<1>2. QED
  BY <1>1, RunAlways, PTL DEF Spec, CompletedStays

-----------------------------------------------------------------------------
(* A run that nothing damaged                                              *)

\* What staging leaves of the three accounts when no fault but a crash happened.
Pristine ==
  /\ dir.seed /\ dir.ledger = Ledger /\ dir.bundle # None
  /\ dir.bundle.entries = entries /\ dir.bundle.binds = Ledger
  /\ run = "ended" /\ Undamaged /\ Unwritten /\ Honest

LEMMA HonestStaging == ASSUME RunInv, Honest, dir.ledger # None PROVE Pristine
<1>1. /\ exported # None /\ dir.seed /\ dir.ledger = Ledger /\ dir.bundle = exported.bundle
      /\ Undamaged /\ Unwritten
  BY DEF RunInv, StageInv, Staged, Honest, Undamaged, Unwritten
<1>2. Exported(exported) /\ exported.bundle \in Bundles
  BY <1>1 DEF RunInv, StageInv, TypeInv
<1>3. QED
  BY <1>1, <1>2, NoneIsNothing DEF Exported, Pristine

\* The end of one request of such a run: asked and resolved, or not even posted.
Asked(r) ==
  /\ r \in Requested(dir.ledger) /\ clientOf(dir, r) = entries[r] /\ entries[r] # None
  /\ resolutionCount(dir.ledger.of[r]) = 1
  /\ entries[r].observed => Len(dir.rows[r]) = 1 /\ HasRow(dir, r) /\ HasSidecar(dir, r)
  /\ dir.ledger.of[r].verdict # "none" => entries[r].observed
  /\ HasRow(dir, r) => HasSidecar(dir, r)
  /\ HasSidecar(dir, r) /\ ~entries[r].observed =>
       entries[r].code \in {"request-timeout", "gateway-unavailable"}
NotAsked(r) ==
  /\ clientOf(dir, r) = None /\ ~HasRow(dir, r) /\ ~HasSidecar(dir, r) /\ r \notin dir.routing
  /\ r \notin Requested(dir.ledger) /\ dir.ledger.of[r].verdict = "none"

LEMMA HonestEnds ==
  ASSUME RunInv, Honest, dir.ledger # None, NEW r \in Requests
  PROVE  /\ Asked(r) \/ NotAsked(r)
         /\ dir.sidecars[r] # "edited" /\ Len(dir.rows[r]) \in {0, 1}
         /\ Routed /\ dir.rows[r] = <<"response">> => r \in dir.routing
<1>1. Pristine /\ Idle
  BY HonestStaging DEF RunInv, StageInv, Staged, Exported
<1>2. AtGateway(r) /\ AtPage(r) /\ AtEngine(r)
  BY DEF RunInv, StoryInv
<1>3. /\ flight = 0 /\ r # 0 /\ (engine[r].fate = "unsent" \/ entries[r] # None)
      /\ clientOf(dir, r) = entries[r] /\ dir.ledger.of = engine
      /\ r \in Requested(dir.ledger) <=> engine[r].fate # "unsent"
  BY <1>1, RequestsAreNumbered DEF Pristine, Idle, Waiting, clientOf, Ledger, Requested
<1>4. dir.rows[r] \in Stories /\ engine[r].fate \in Fates
  BY DEF RunInv, TypeInv, Directory, Histories, Accounts
<1>5. dir.sidecars[r] # "edited" /\ (Routed /\ dir.rows[r] = <<"response">> => r \in dir.routing)
  BY <1>1, <1>2 DEF Pristine, AtGateway
<1>6. Len(dir.rows[r]) \in {0, 1}
  BY <1>1, <1>2 DEF Pristine, AtGateway
<1>7. CASE engine[r].fate = "unsent"
  <2>1. entries[r] = None /\ gateway.at[r] = "none" /\ Unwritten
    BY <1>1, <1>2, <1>3, <1>7 DEF AtPage, Pristine
  <2>2. engine[r].verdict = "none"
    BY <1>2, <2>1 DEF AtEngine
  <2>3. NotAsked(r)
    BY <1>2, <1>3, <1>7, <2>1, <2>2 DEF AtGateway, NotAsked, HasRow, HasSidecar
  <2>4. QED
    BY <1>5, <1>6, <2>3
<1>8. CASE engine[r].fate # "unsent"
  <2>1. entries[r] # None
    BY <1>3, <1>8
  <2>2. resolutionCount(engine[r]) = 1
    BY <1>1, <1>2, <1>4, <1>8 DEF AtEngine, Pristine, resolutionCount, Fates
  <2>3. HasRow(dir, r) => HasSidecar(dir, r)
    BY <1>1, <1>2 DEF AtGateway, Pristine, HasRow, HasSidecar
  <2>4. entries[r].observed => Len(dir.rows[r]) = 1 /\ HasRow(dir, r)
    BY <1>1, <1>2, <2>1 DEF AtGateway, AtPage, Pristine, HasRow
  <2>5. engine[r].verdict # "none" => entries[r].observed
    BY <1>2 DEF AtEngine, AtPage
  <2>6. HasSidecar(dir, r) /\ ~entries[r].observed =>
          entries[r].code \in {"request-timeout", "gateway-unavailable"}
    BY <1>1, <1>2, <2>1 DEF AtGateway, AtPage, Pristine, HasSidecar
  <2>7. Asked(r)
    BY <1>3, <1>8, <2>1, <2>2, <2>3, <2>4, <2>5, <2>6 DEF Asked
  <2>8. QED
    BY <1>5, <1>6, <2>7
<1>9. QED
  BY <1>7, <1>8

\* Nothing in the directory of such a run contradicts anything else in it.
LEMMA HonestIsNotFatal == ASSUME RunInv, Honest, dir.ledger # None PROVE ~Fatal(dir)
<1>1. Pristine
  BY HonestStaging
<1>2. ASSUME NEW r \in Requests PROVE ~Orphan(dir, r) /\ ~Disagree(dir, r) /\ ~Unexplained(dir, r)
  <2>1. (Asked(r) \/ NotAsked(r)) /\ dir.sidecars[r] # "edited"
    BY HonestEnds
  <2>2. ~Orphan(dir, r)
    BY <2>1 DEF Orphan, Asked, NotAsked
  <2>3. ~Disagree(dir, r)
    BY <2>1 DEF Disagree, Asked, NotAsked, Observed, ledgerProvenGatewayResult
  <2>4. ~Unexplained(dir, r)
    <3>1. CASE Asked(r)
      <4>1. dir.ledger.of[r].fate # "none" /\ resolveEngineOutcome(dir.ledger.of[r]) # "none"
        BY <3>1 DEF Asked, resolveEngineOutcome, resolutionCount, ledgerProvenGatewayResult
      <4>2. QED
        BY <4>1 DEF Unexplained
    <3>2. CASE NotAsked(r)
      BY <3>2 DEF NotAsked, Unexplained, Row
    <3>3. QED
      BY <2>1, <3>1, <3>2
  <2>5. QED
    BY <2>2, <2>3, <2>4
<1>3. ~Contradicted(dir)
  BY <1>1, <1>2 DEF Contradicted, Pristine
<1>4. \A r \in Joined(dir) : ~Unexplained(dir, r)
  BY <1>2 DEF Joined
<1>5. QED
  BY <1>1, <1>3, <1>4 DEF Fatal, Pristine

\* Nothing is absent from it either.
LEMMA HonestFailsNothing == ASSUME RunInv, Honest, dir.ledger # None PROVE failedCriteria(dir) = {}
<1>1. Pristine /\ dir.bundle.binds # None
  BY HonestStaging, LedgersTyped DEF Pristine, RunInv
<1>2. ASSUME NEW r \in Requests
      PROVE  /\ r \in Requested(dir.ledger) => Asked(r)
             /\ ~ResultUnproven(dir, r)
             /\ r \in Joined(dir) => classifyDisposition(dir, r) # "none"
             /\ Routed /\ Contains(dir.rows[r], "response") => r \in dir.routing
  <2>1. /\ Asked(r) \/ NotAsked(r)
        /\ Len(dir.rows[r]) \in {0, 1} /\ dir.rows[r] \in Stories
        /\ Routed /\ dir.rows[r] = <<"response">> => r \in dir.routing
    BY HonestEnds DEF RunInv, TypeInv, Directory, Histories
  <2>2. r \in Requested(dir.ledger) => Asked(r)
    BY <2>1 DEF NotAsked
  <2>3. ~ResultUnproven(dir, r)
    BY <2>1 DEF ResultUnproven, Observed, Asked, NotAsked
  <2>4. ASSUME Asked(r) PROVE classifyDisposition(dir, r) # "none"
    <3>1. Observed(dir, r) <=> entries[r].observed
      BY <2>4 DEF Asked, Observed
    <3>2. Moot(dir.ledger.of[r]) <=> ~dir.ledger.of[r].failed /\ dir.ledger.of[r].verdict = "none"
      BY <2>4 DEF Asked, Moot, ledgerProvenGatewayResult
    <3>3. HasSidecar(dir, r) /\ ~entries[r].observed => Interrupted(dir, r)
      BY <2>4 DEF Asked, Interrupted, ledgerProvenGatewayResult
    <3>4. QED
      BY <2>4, <3>1, <3>2, <3>3 DEF Asked, classifyDisposition
  <2>5. NotAsked(r) => r \notin Joined(dir)
    BY DEF NotAsked, Joined
  <2>6. Contains(dir.rows[r], "response") => dir.rows[r] = <<"response">>
    <3>1. ASSUME NEW i \in 1..Len(dir.rows[r]), dir.rows[r][i] = "response" PROVE dir.rows[r] = <<"response">>
      <4>1. dir.rows[r] \in Seq(Outcomes)
        BY <2>1, StoriesRead
      <4>2. Len(dir.rows[r]) = 1 /\ i = 1
        BY <2>1, <3>1, <4>1
      <4>3. QED
        BY <3>1, <4>1, <4>2
    <3>2. QED
      BY <3>1 DEF Contains
  <2>7. QED
    BY <2>1, <2>2, <2>3, <2>4, <2>5, <2>6
<1>3. Joined(dir) \subseteq Requests /\ Requested(dir.ledger) \subseteq Requests
  BY DEF Joined, Requested
<1>4. ASSUME NEW r \in Requested(dir.ledger)
      PROVE  /\ clientOf(dir, r) # None /\ resolutionCount(dir.ledger.of[r]) = 1
             /\ HasRow(dir, r) \/ ~ledgerProvenGatewayResult(dir.ledger.of[r])
  BY <1>2, <1>3 DEF Asked, ledgerProvenGatewayResult
<1>5. ASSUME NEW c \in Criteria PROVE ~Fails(dir, c)
  <2>1. ~\E r \in Requested(dir.ledger) : clientOf(dir, r) = None
    BY <1>4
  <2>2. ~\E r \in Requests : ResultUnproven(dir, r)
    BY <1>2
  <2>3. ~\E r \in Joined(dir) : classifyDisposition(dir, r) = "none"
    BY <1>2, <1>3
  <2>4. ~\E r \in Requested(dir.ledger) : ~HasRow(dir, r) /\ ledgerProvenGatewayResult(dir.ledger.of[r])
    BY <1>4
  <2>5. ~\E r \in Requested(dir.ledger) : resolutionCount(dir.ledger.of[r]) = 0
    BY <1>4
  <2>6. ~(Routed /\ \E r \in Requests \ dir.routing : Contains(dir.rows[r], "response"))
    BY <1>2
  <2>7. QED
    BY <1>1, <2>1, <2>2, <2>3, <2>4, <2>5, <2>6 DEF Criteria, Fails, Pristine
<1>6. QED
  BY <1>5 DEF failedCriteria

\* finalize.ts, strict mode: whatever the order of timeouts, late rows, a dying gateway,
\* answers after the end and crashes of the finalizer, the evidence of a run that nothing
\* damaged is never refused and never judged incomplete; stopping the gateway is not needed.
THEOREM HonestCompletes == Spec => []HonestRunCompletes
<1>1. RunInv => HonestRunCompletes
  BY HonestIsNotFatal, HonestFailsNothing DEF HonestRunCompletes, Honest, Downgrades, status
<1>2. QED
  BY <1>1, RunAlways, PTL

-----------------------------------------------------------------------------
(* A gateway that is stopped first                                         *)

\* With the gateway stopped before anything is staged, what the evidence is does not move
\* under the finalizer: only damage changes it, and never while a finalization runs.
SealedInv == RunInv /\ FinalInv

\* A copy of the evidence is judged like the evidence.
LEMMA DerivedMoves ==
  ASSUME NEW d, NEW e, SameEvidence(d, e), NEW n, NEW trace, NEW final, Derived(d, n, trace, final)
  PROVE  Derived(e, n, trace, final)
BY DerivedAlike DEF Derived

\* Outside the finalizer: the staged evidence stays, or damage changes it at rest.
LEMMA EvidenceStays ==
  ASSUME TypeInv, StoryInv, StageInv, StopFirst, EngineActs \/ PageActs \/ GatewayActs \/ OperatorActs
  PROVE  dir.ledger = None \/ dir' = dir \/ (fin.pc = "idle" /\ ~Undamaged')
<1>1. CASE EngineActs
  BY <1>1, EngineShape DEF EngineMoves
<1>2. CASE PageActs
  BY <1>2, PageShape
<1>3. CASE GatewayActs
  <2>1. gateway.alive
    BY <1>3 DEF GatewayActs, GatewayEnds, Receive, AdapterReturns
  <2>2. QED
    BY <2>1 DEF StageInv, Staged
<1>4. CASE Export
  BY <1>4 DEF Export
<1>5. CASE prepareRunDirectory
  BY <1>5 DEF prepareRunDirectory
<1>6. CASE Damage
  BY <1>6 DEF Damage, Damaged, Fault, Undamaged
<1>7. QED
  BY <1>1, <1>2, <1>3, <1>4, <1>5, <1>6 DEF OperatorActs

LEMMA OthersSeal ==
  ASSUME SealedInv, StopFirst, EngineActs \/ PageActs \/ GatewayActs \/ OperatorActs
  PROVE  FinalInv'
<1>1. TypeInv /\ StoryInv /\ StageInv /\ EmptyInv /\ FinalInv
  BY DEF SealedInv, RunInv
<1>2. /\ UNCHANGED <<fin, count>>
      /\ Undamaged' => Undamaged
      /\ dir'.trace = dir.trace /\ dir'.final = dir.final
      /\ dir'.summary = dir.summary /\ dir'.manifest = dir.manifest
  BY <1>1, OnlyFinalizerDerives DEF Undamaged
<1>3. CASE dir.ledger = None
  BY <1>1, <1>2, <1>3 DEF EmptyInv, FinalInv
<1>4. CASE dir' = dir
  BY <1>1, <1>2, <1>4 DEF FinalInv, AtWork
<1>5. CASE fin.pc = "idle" /\ ~Undamaged'
  BY <1>1, <1>2, <1>5 DEF FinalInv
<1>6. QED
  BY <1>1, <1>3, <1>4, <1>5, EvidenceStays

\* The next station of a commit: one derived file is in place, or is gone.
LEMMA CommitWorks ==
  ASSUME SealedInv, Commit \/ \E allowDegraded \in BOOLEAN : Finalize(allowDegraded)
  PROVE  fin'.pc # "idle" => AtWork'
<1>1. TypeInv /\ EmptyInv /\ FinalInv /\ Directory(dir)
  BY DEF SealedInv, RunInv, TypeInv
<1>2. /\ fin \in [pc : Stations, staged : Stagings \cup {None}]
      /\ fin.pc # "idle" => AtWork /\ fin.staged \in Stagings
  BY <1>1 DEF TypeInv, FinalInv
<1>3. Finalizes
  BY <1>1, FinalizerShape DEF FinalizerActs
<1>4. ASSUME NEW allowDegraded \in BOOLEAN, Finalize(allowDegraded) PROVE AtWork'
  <2>1. /\ dir' = dir /\ dir.ledger # None /\ ~Fatal(dir) /\ fin'.pc = "summary"
        /\ fin'.staged.trace = finalizedTrace(dir, count') /\ fin'.staged.final = finalManifest(dir, count')
    BY <1>4 DEF Finalize
  <2>2. QED
    BY <2>1 DEF AtWork, Derived
<1>5. CASE Summarized
  <2>1. /\ dir' = dir /\ count' = count /\ fin.pc = "summary" /\ fin'.pc = "unsealing"
        /\ fin'.staged = [fin.staged EXCEPT !.summary = buildModelSummary(dir, count)]
    BY <1>5 DEF Summarized, Elsewhere
  <2>2. /\ fin'.staged.trace = fin.staged.trace /\ fin'.staged.final = fin.staged.final
        /\ fin'.staged.summary = buildModelSummary(dir, count)
    BY <1>2, <2>1 DEF Stagings
  <2>3. QED
    BY <1>2, <2>1, <2>2 DEF AtWork
<1>6. ASSUME fin.pc # "idle", fin'.pc # "idle", fin'.staged = fin.staged, count' = count
      PROVE  /\ dir'.ledger # None /\ Derived(dir', count, fin.staged.trace, fin.staged.final)
             /\ fin.pc # "summary" => fin.staged.summary = buildModelSummary(dir', count)
  <2>1. SameEvidence(dir, dir') /\ AtWork
    BY <1>2, <1>3, <1>6 DEF Finalizes
  <2>2. buildModelSummary(dir', count) = buildModelSummary(dir, count) /\ dir'.ledger = dir.ledger
    BY <2>1, DerivedAlike DEF SameEvidence
  <2>3. QED
    BY <2>1, <2>2, DerivedMoves DEF AtWork
<1>7. CASE Unseal
  <2>1. /\ fin.pc = "unsealing" /\ fin'.pc = "trace" /\ fin'.staged = fin.staged /\ count' = count
    BY <1>2, <1>7 DEF Unseal, Step, Elsewhere
  <2>2. QED
    BY <1>2, <1>6, <2>1 DEF AtWork
<1>8. CASE RenameTrace
  <2>1. /\ fin.pc = "trace" /\ fin'.pc = "final" /\ fin'.staged = fin.staged /\ count' = count
        /\ dir'.trace = fin.staged.trace
    BY <1>1, <1>2, <1>8 DEF RenameTrace, Step, Elsewhere, Directory
  <2>2. QED
    BY <1>2, <1>6, <2>1 DEF AtWork
<1>9. CASE RenameFinal
  <2>1. /\ fin.pc = "final" /\ fin'.pc = "derived" /\ fin'.staged = fin.staged /\ count' = count
        /\ dir'.trace = dir.trace /\ dir'.final = fin.staged.final
    BY <1>1, <1>2, <1>9 DEF RenameFinal, Step, Elsewhere, Directory
  <2>2. QED
    BY <1>2, <1>6, <2>1 DEF AtWork
<1>10. CASE RenameSummary
  <2>1. /\ fin.pc = "derived" /\ fin'.pc = "sealing" /\ fin'.staged = fin.staged /\ count' = count
        /\ dir'.trace = dir.trace /\ dir'.final = dir.final /\ dir'.summary = fin.staged.summary
    BY <1>1, <1>2, <1>10 DEF RenameSummary, Step, Elsewhere, Directory
  <2>2. QED
    BY <1>2, <1>6, <2>1 DEF AtWork
<1>11. CASE Seal
  BY <1>11 DEF Seal, NoFin
<1>12. QED
  BY <1>4, <1>5, <1>7, <1>8, <1>9, <1>10, <1>11 DEF Commit

\* The trace that is there tells of the evidence that is there.
LEMMA TraceStays ==
  ASSUME SealedInv, FinalizerActs, dir'.trace # None, Undamaged'
  PROVE  \E n \in 0..MaxFinalizes : dir'.trace = finalizedTrace(dir', n)
<1>1. TypeInv /\ EmptyInv /\ FinalInv /\ Directory(dir) /\ count \in 0..MaxFinalizes
  BY DEF SealedInv, RunInv, TypeInv
<1>2. Finalizes
  BY <1>1, FinalizerShape
<1>3. Undamaged /\ SameEvidence(dir, dir')
  BY <1>2 DEF Finalizes, Undamaged
<1>4. dir'.trace = dir.trace \/ (dir'.trace = fin.staged.trace /\ AtWork)
  <2>1. CASE RenameTrace
    BY <1>1, <2>1 DEF RenameTrace, Step, FinalInv, Directory
  <2>2. ASSUME NEW allowDegraded \in BOOLEAN, Finalize(allowDegraded) PROVE dir' = dir
    BY <2>2 DEF Finalize
  <2>3. CASE Summarized \/ Unseal \/ RenameFinal \/ RenameSummary \/ Seal
    BY <1>1, <2>3 DEF Summarized, Unseal, RenameFinal, RenameSummary, Seal, Directory
  <2>4. CASE Crash
    BY <2>4 DEF Crash
  <2>5. CASE summarizeRunDirectory
    BY <1>1, <2>5 DEF summarizeRunDirectory, Directory
  <2>6. QED
    BY <2>1, <2>2, <2>3, <2>4, <2>5 DEF FinalizerActs, Commit
<1>5. PICK n \in 0..MaxFinalizes : dir'.trace = finalizedTrace(dir, n)
  BY <1>1, <1>3, <1>4 DEF FinalInv, AtWork, Derived
<1>6. finalizedTrace(dir, n) = finalizedTrace(dir', n)
  BY <1>3, DerivedAlike
<1>7. QED
  BY <1>5, <1>6

\* What the bundle manifest seals is one finalization, whole.
LEMMA SealWhole ==
  ASSUME SealedInv, FinalizerActs, dir'.manifest # None, dir'.manifest.producer = "model:finalize"
  PROVE  TrueSeal(dir'.manifest)
<1>1. TypeInv /\ EmptyInv /\ FinalInv /\ Directory(dir) /\ count \in 0..MaxFinalizes
  BY DEF SealedInv, RunInv, TypeInv
<1>2. CASE Seal
  <2> DEFINE m == bundleManifest(dir, "model:finalize", fin.staged.final.status)
  <2>1. AtWork /\ fin.pc = "sealing" /\ dir' = [dir EXCEPT !.manifest = m]
    BY <1>1, <1>2 DEF Seal, FinalInv
  <2>2. m.covers = Files(dir) /\ m.status = fin.staged.final.status
    BY DEF bundleManifest
  <2> HIDE DEF m
  <2>3. dir'.manifest = m
    BY <1>1, <2>1 DEF Directory
  <2>4. /\ SameEvidence(dir, Files(dir)) /\ Files(dir).trace = dir.trace /\ Files(dir).final = dir.final
        /\ Files(dir).summary = dir.summary
    BY <1>1, FilesWritten DEF Files, Directory
  <2>5. /\ Derived(dir, count, dir.trace, dir.final)
        /\ dir.summary = buildModelSummary(dir, count)
    BY <2>1 DEF AtWork
  <2>6. /\ Derived(Files(dir), count, dir.trace, dir.final)
        /\ dir.summary = buildModelSummary(Files(dir), count)
    BY <2>4, <2>5, DerivedMoves, DerivedAlike
  <2>7. dir.final = fin.staged.final
    BY <2>1 DEF AtWork
  <2>8. Whole(Files(dir))
    BY <1>1, <2>4, <2>6 DEF Whole
  <2>9. QED
    BY <2>2, <2>3, <2>4, <2>7, <2>8 DEF TrueSeal
<1>3. CASE summarizeRunDirectory
  <2> DEFINE d == [dir EXCEPT !.summary = buildModelSummary(dir, 0)]
             m == bundleManifest(d, "model:summarize", None)
  <2>1. dir' = [d EXCEPT !.manifest = m] /\ Directory(d)
    BY <1>1, <1>3, FilesWritten DEF summarizeRunDirectory
  <2>2. m.producer = "model:summarize"
    BY DEF bundleManifest
  <2> HIDE DEF d, m
  <2>3. dir'.manifest.producer = "model:summarize"
    BY <2>1, <2>2 DEF Directory
  <2>4. QED
    BY <2>3
<1>4. ASSUME NEW allowDegraded \in BOOLEAN, Finalize(allowDegraded) PROVE dir' = dir
  BY <1>4 DEF Finalize
<1>5. CASE Summarized \/ Crash
  BY <1>1, <1>5 DEF Summarized, Crash, FinalInv
<1>6. CASE Unseal
  BY <1>1, <1>6 DEF Unseal, Directory
<1>7. CASE RenameTrace \/ RenameFinal \/ RenameSummary
  BY <1>1, <1>7 DEF RenameTrace, RenameFinal, RenameSummary, Directory, FinalInv
<1>8. QED
  BY <1>1, <1>2, <1>3, <1>4, <1>5, <1>6, <1>7 DEF FinalizerActs, Commit, FinalInv

LEMMA InitSealed == Init => SealedInv
<1>1. Init => FinalInv
  BY DEF Init, FinalInv, NoFin
<1>2. QED
  BY <1>1, InitRun DEF SealedInv

LEMMA SealedStep == StopFirst /\ SealedInv /\ [Next]_vars => SealedInv'
<1> SUFFICES ASSUME StopFirst, SealedInv, [Next]_vars PROVE FinalInv'
  BY RunStep DEF SealedInv
<1>1. CASE EngineActs \/ PageActs \/ GatewayActs \/ OperatorActs
  BY <1>1, OthersSeal
<1>2. CASE FinalizerActs
  <2>1. fin'.pc # "idle" => AtWork'
    <3>1. ASSUME Crash \/ summarizeRunDirectory PROVE fin'.pc = "idle"
      BY <3>1 DEF Crash, summarizeRunDirectory, NoFin
    <3>2. QED
      BY <1>2, <3>1, CommitWorks DEF FinalizerActs
  <2>2. QED
    BY <1>2, <2>1, TraceStays, SealWhole DEF FinalInv
<1>3. CASE UNCHANGED vars
  <2>1. dir' = dir /\ fin' = fin /\ count' = count /\ FinalInv /\ (Undamaged' <=> Undamaged)
    BY <1>3 DEF vars, disk, SealedInv, Undamaged
  <2>2. QED
    BY <2>1 DEF FinalInv, AtWork
<1>4. QED
  BY <1>1, <1>2, <1>3, WhoActs

LEMMA SealedAlways ==
  ASSUME StopFirst
  PROVE  Spec => []SealedInv
<1>1. SealedInv /\ [Next]_vars => SealedInv'
  BY SealedStep
<1>2. QED
  BY <1>1, InitSealed, PTL DEF Spec

\* The bundle that loads: what it seals is derived from the evidence that is there.
Loaded(n) ==
  /\ dir.trace = finalizedTrace(dir, n) /\ dir.final = finalManifest(dir, n)
  /\ dir.summary = buildModelSummary(dir, n)
  /\ ~Fatal(dir) /\ failedCriteria(dir) = {}
  /\ dir.ledger # None

LEMMA CompletedIsDerived ==
  ASSUME SealedInv, verifyBundleIntegrity(dir), dir.manifest.status = "completed"
  PROVE  \E n \in 0..MaxFinalizes : Loaded(n)
<1>1. Directory(dir) /\ FinalInv
  BY DEF SealedInv, RunInv, TypeInv
<1>2. dir.manifest # None /\ dir.manifest.producer = "model:finalize" /\ dir.manifest.covers = Files(dir)
  BY DEF verifyBundleIntegrity
<1>3. /\ SameEvidence(dir, Files(dir)) /\ Files(dir).trace = dir.trace /\ Files(dir).final = dir.final
      /\ Files(dir).summary = dir.summary
  BY <1>1, FilesWritten DEF Files, Directory
<1>4. Whole(Files(dir)) /\ dir.final.status = "completed"
  BY <1>1, <1>2, <1>3 DEF FinalInv, TrueSeal
<1>5. PICK n \in 0..MaxFinalizes :
        Derived(Files(dir), n, dir.trace, dir.final) /\ dir.summary = buildModelSummary(Files(dir), n)
  BY <1>3, <1>4 DEF Whole
<1>6. SameEvidence(Files(dir), dir)
  BY <1>3 DEF SameEvidence
<1>7. Derived(dir, n, dir.trace, dir.final) /\ dir.summary = buildModelSummary(dir, n)
  BY <1>5, <1>6, DerivedMoves, DerivedAlike
<1>8. status(dir) = "completed" /\ dir.ledger # None
  BY <1>4, <1>7 DEF Derived, finalManifest, Fatal
<1>9. QED
  BY <1>7, <1>8 DEF Derived, Loaded, status

LEMMA LoadedIsDerived ==
  ASSUME SealedInv, loadStrictFinalizedRun(dir)
  PROVE  \E n \in 0..MaxFinalizes : Loaded(n)
BY CompletedIsDerived DEF loadStrictFinalizedRun

\* evidence.ts loadStrictFinalizedRun: what a directory holds that it accepts, whatever was
\* lost, swapped or edited in it and wherever the finalizer crashed.
LEMMA LoadedIsTheRun == ASSUME SealedInv PROVE WhatLoadsIsTheRun
<1> SUFFICES ASSUME loadStrictFinalizedRun(dir)
             PROVE  /\ dir.trace.by = dir.final.by /\ dir.summary.by = dir.final.by
                    /\ dir.summary.rows = dir.rows
                    /\ "rebound" \notin faults => dir.ledger = Ledger
                    /\ \A r \in Requested(dir.ledger) : dir.ledger.of[r].verdict # "none" =>
                         /\ Observed(dir, r) /\ dir.sidecars[r] = "own" /\ Len(dir.rows[r]) = 1
                         /\ faults \cap {"row", "rebound"} = {} => dir.rows[r] = <<"response">>
  BY DEF WhatLoadsIsTheRun
<1>1. PICK n \in 0..MaxFinalizes : Loaded(n)
  BY LoadedIsDerived
<1>2. /\ dir.trace.by = dir.final.by /\ dir.summary.by = dir.final.by /\ dir.summary.rows = dir.rows
  BY <1>1 DEF Loaded, finalizedTrace, finalManifest, buildModelSummary
<1>3. \A c \in Criteria : ~Fails(dir, c)
  BY <1>1 DEF Loaded, failedCriteria
<1>4. dir.bundle # None /\ dir.bundle.binds # None
  BY <1>3 DEF Criteria, Fails
<1>5. ~Contradicted(dir) /\ dir.bundle.binds = dir.ledger
  BY <1>1, <1>4 DEF Loaded, Fatal, Contradicted
<1>6. "rebound" \notin faults => dir.ledger = Ledger
  BY <1>1, <1>4, <1>5 DEF Loaded, SealedInv, RunInv, StageInv, Staged
<1>7. ASSUME NEW r \in Requested(dir.ledger), dir.ledger.of[r].verdict # "none"
      PROVE  /\ Observed(dir, r) /\ dir.sidecars[r] = "own" /\ Len(dir.rows[r]) = 1
             /\ faults \cap {"row", "rebound"} = {} => dir.rows[r] = <<"response">>
  <2>1. /\ r \in Requests /\ ledgerProvenGatewayResult(dir.ledger.of[r])
        /\ dir.sidecars[r] \in {"none", "own", "edited"}
    BY <1>7 DEF Requested, ledgerProvenGatewayResult, SealedInv, RunInv, TypeInv, Directory
  <2>2. HasRow(dir, r)
    BY <1>3, <1>7, <2>1 DEF Criteria, Fails
  \* with its row there and its result proven, only an answer the client saw explains it
  <2>3. Observed(dir, r)
    <3>1. r \in Joined(dir) /\ classifyDisposition(dir, r) # "none"
      BY <1>3, <1>4, <2>1, <2>2 DEF Criteria, Fails, Joined
    <3>2. QED
      BY <2>1, <2>2, <3>1 DEF classifyDisposition, Interrupted, Moot
  <2>4. Len(dir.rows[r]) = 1 /\ HasSidecar(dir, r)
    BY <1>3, <2>1, <2>3 DEF Criteria, Fails, ResultUnproven
  <2>5. dir.sidecars[r] = "own"
    BY <1>5, <2>1, <2>3, <2>4 DEF Contradicted, Disagree, Observed, HasSidecar
  <2>6. ASSUME faults \cap {"row", "rebound"} = {} PROVE dir.rows[r] = <<"response">>
    <3>1. AtPage(r) /\ AtEngine(r) /\ Unwritten
      BY <2>1, <2>6 DEF SealedInv, RunInv, StoryInv, Unwritten
    <3>2. engine[r].verdict # "none"
      BY <1>6, <1>7, <2>6 DEF Ledger
    <3>3. dir.rows[r] \in {<<>>, <<"response">>}
      BY <3>1, <3>2 DEF AtPage, AtEngine
    <3>4. QED
      BY <2>2, <3>3 DEF HasRow
  <2>7. QED
    BY <2>3, <2>4, <2>5, <2>6
<1>8. QED
  BY <1>2, <1>6, <1>7

\* The ranges of the variables, as TypeOK gives them.
LEMMA TypeInvIsEnough == TypeInv => TypeOK
<1> SUFFICES ASSUME TypeInv PROVE TypeOK
  OBVIOUS
<1>1. \A r \in Requests : entries[r] # None => entries[r].outcome \in {"response", "failure"}
  BY DEF TypeInv, Entries
<1>2. \A r \in Requests : Range(dir.rows[r]) \subseteq Outcomes /\ Len(dir.rows[r]) <= 2
  BY StoriesRead DEF TypeInv, Directory, Histories
<1>3. QED
  BY <1>1, <1>2 DEF TypeInv, Directory, TypeOK, Places, Stations

\* LoaderIsRight: for any requests, faults, edits and finalizations, where the gateway is
\* stopped before the files are staged, what the strict loader accepts is one finalization,
\* of this run's ledger unless its handoff was edited too, with the word of the client, the
\* envelope and one row for every response that ledger judges.
THEOREM LoadsOnlyTheRun ==
  ASSUME StopFirst
  PROVE  Spec => []LoaderIsRight
<1>1. SealedInv => LoaderIsRight
  BY LoadedIsTheRun, TypeInvIsEnough DEF SealedInv, RunInv, LoaderIsRight
<1>2. QED
  BY <1>1, SealedAlways, PTL

\* SummaryAgrees (summarize.ts): with the gateway stopped first, the two files of a sealed
\* bundle that tell of a request agree; a run shows that a gateway left alive breaks it.
THEOREM SummaryIsTheTrace ==
  ASSUME StopFirst
  PROVE  Spec => []SummaryAgrees
<1>1. ASSUME SealedInv, loadStrictFinalizedRun(dir), NEW r \in DOMAIN dir.trace.rows
      PROVE  dir.trace.rows[r].gateway = Row([rows |-> dir.summary.rows], r)
  <2>1. PICK n \in 0..MaxFinalizes : Loaded(n)
    BY <1>1, LoadedIsDerived
  <2>2. dir.trace.rows[r].gateway = Row(dir, r)
    BY <1>1, <2>1 DEF Loaded, finalizedTrace, FinalRow
  <2>3. dir.summary.rows = dir.rows
    BY <2>1 DEF Loaded, buildModelSummary
  <2>4. QED
    BY <2>2, <2>3 DEF Row, HasRow
<1>2. SealedInv => SummaryAgrees
  BY <1>1 DEF SummaryAgrees
<1>3. QED
  BY <1>2, SealedAlways, PTL

\* DispositionTellsTruth (finalize.ts classifyDisposition): the disposition written for a
\* request of an undamaged run is what happened to it, whoever timed out, died or came late.
THEOREM DispositionsAreTrue ==
  ASSUME StopFirst
  PROVE  Spec => []DispositionTellsTruth
<1>1. ASSUME SealedInv, dir.trace # None, faults \cap {"damage", "row", "rebound", "ledger"} = {},
             NEW r \in DOMAIN dir.trace.rows, NEW row, row = dir.trace.rows[r]
      PROVE  /\ row.disposition = "never-dispatched" => r \notin called
             /\ row.disposition = "gateway-answered" /\ row.gateway = "response" =>
                  r \in called /\ entries[r].outcome = "response"
             /\ row.engine \in {"accepted", "rejected"} =>
                  row.disposition \in {"gateway-answered", "none"}
  <2>1. RunInv /\ FinalInv /\ Undamaged /\ dir.ledger # None
    BY <1>1 DEF SealedInv, RunInv, EmptyInv, Undamaged
  <2>2. PICK n \in 0..MaxFinalizes : dir.trace = finalizedTrace(dir, n)
    BY <1>1, <2>1 DEF FinalInv
  <2>3. r \in Requests /\ row = FinalRow(dir, r)
    BY <1>1, <2>2 DEF finalizedTrace, Joined
  <2>4. AtGateway(r) /\ AtPage(r) /\ AtEngine(r)
    BY <2>1, <2>3 DEF RunInv, StoryInv
  <2>5. dir.ledger.of = engine
    BY <1>1, <2>1 DEF RunInv, StageInv, Staged, Ledger
  <2>6. clientOf(dir, r) \in {None, entries[r]}
    BY <2>1 DEF RunInv, StageInv, Staged, Exported, clientOf
  <2>7. entries[r] # None => entries[r].outcome \in {"response", "failure"}
    BY <2>1, <2>3 DEF RunInv, TypeInv, Entries
  <2>8. row.disposition = "never-dispatched" => r \notin called
    <3>1. row.disposition = "never-dispatched" => ~HasSidecar(dir, r)
      BY <2>3 DEF FinalRow, classifyDisposition
    <3>2. QED
      BY <2>1, <2>4, <3>1 DEF AtGateway, HasSidecar
  <2>9. ASSUME row.disposition = "gateway-answered", row.gateway = "response"
        PROVE  r \in called /\ entries[r].outcome = "response"
    <3>1. Observed(dir, r) /\ HasRow(dir, r)
      BY <2>3, <2>9 DEF FinalRow, classifyDisposition
    <3>2. entries[r] # None /\ entries[r].observed /\ Last(dir.rows[r]) = "response"
      BY <2>3, <2>6, <2>9, <3>1 DEF Observed, FinalRow, Row
    <3>3. QED
      BY <2>1, <2>4, <2>7, <3>2 DEF AtPage
  <2>10. ASSUME row.engine \in {"accepted", "rejected"}
         PROVE  row.disposition \in {"gateway-answered", "none"}
    <3>1. engine[r].verdict # "none"
      BY <2>3, <2>4, <2>5, <2>10
         DEF AtEngine, FinalRow, resolveEngineOutcome, ledgerProvenGatewayResult, resolutionCount
    <3>2. entries[r] # None /\ entries[r].observed
      BY <2>4, <3>1 DEF AtPage, AtEngine
    <3>3. clientOf(dir, r) = None \/ Observed(dir, r)
      BY <2>6, <3>2 DEF Observed
    <3>4. QED
      BY <2>3, <3>3 DEF FinalRow, classifyDisposition
  <2>11. QED
    BY <2>8, <2>9, <2>10
<1>2. SealedInv => DispositionTellsTruth
  BY <1>1 DEF DispositionTellsTruth
<1>3. QED
  BY <1>2, SealedAlways, PTL

-----------------------------------------------------------------------------
(* A completed bundle loads                                                *)

\* Two traces with the same rows have the same counts.
LEMMA CountedAlike ==
  ASSUME NEW s, NEW t, RowsOf(s) = RowsOf(t),
         \A at \in RowsOf(s) : s[at[1]][at[2]] = t[at[1]][at[2]]
  PROVE  Attempted(s) = Attempted(t) /\ Answered(s) = Answered(t)
<1>1. {at \in RowsOf(s) : s[at[1]][at[2]] # "budget-exhausted"} =
        {at \in RowsOf(t) : t[at[1]][at[2]] # "budget-exhausted"}
  OBVIOUS
<1>2. {at \in RowsOf(s) : s[at[1]][at[2]] = "response"} = {at \in RowsOf(t) : t[at[1]][at[2]] = "response"}
  OBVIOUS
<1>3. QED
  BY <1>1, <1>2 DEF Attempted, Answered

\* Where a request has one row at most, the loader's rows are the gateway's: it sees all but
\* the rows of requests nobody joined, and these have none.
LEMMA JoinedCounts ==
  ASSUME NEW rows \in Histories, NEW known \in SUBSET Requests, NEW joined,
         joined = [r \in known |-> IF rows[r] = <<>> THEN <<>> ELSE <<Last(rows[r])>>],
         \A r \in Requests : Len(rows[r]) <= 1,
         \A r \in Requests \ known : rows[r] = <<>>
  PROVE  Attempted(joined) = Attempted(rows) /\ Answered(joined) = Answered(rows)
<1>1. DOMAIN rows = Requests /\ DOMAIN joined = known
  BY DEF Histories
<1>2. ASSUME NEW r \in known PROVE joined[r] = rows[r]
  <2> DEFINE story == rows[r]
  <2>0. story \in Stories /\ Len(story) <= 1
    BY DEF Histories
  <2>1. PICK m \in 0..2 : story \in [1..m -> Outcomes]
    BY <2>0 DEF Stories
  <2>2. joined[r] = IF story = <<>> THEN <<>> ELSE <<Last(story)>>
    OBVIOUS
  <2> HIDE DEF story
  <2>3. CASE story = <<>>
    BY <2>2, <2>3 DEF story
  <2>4. CASE story # <<>>
    <3>1. story \in Seq(Outcomes) /\ Len(story) = 1
      BY <2>0, <2>1, <2>4
    <3>2. Last(story) = story[1]
      BY <3>1 DEF Last
    <3>3. story = <<story[1]>>
      BY <3>1
    <3>4. QED
      BY <2>2, <2>4, <3>2, <3>3 DEF story
  <2>5. QED
    BY <2>3, <2>4
<1>3. ASSUME NEW r \in Requests \ known PROVE {r} \X DOMAIN rows[r] = {}
  BY <1>3
<1>4. RowsOf(joined) = RowsOf(rows)
  <2> DEFINE of(r) == {r} \X DOMAIN rows[r]
  <2>1. RowsOf(rows) = UNION {of(r) : r \in Requests}
    BY <1>1 DEF RowsOf
  <2>2. RowsOf(joined) = UNION {of(r) : r \in known}
    BY <1>1, <1>2 DEF RowsOf
  <2>3. \A r \in Requests \ known : of(r) = {}
    BY <1>3
  <2> HIDE DEF of
  <2>4. QED
    BY <2>1, <2>2, <2>3
<1>5. ASSUME NEW at \in RowsOf(joined) PROVE joined[at[1]][at[2]] = rows[at[1]][at[2]]
  <2>1. at[1] \in known
    BY <1>1, <1>5 DEF RowsOf
  <2>2. QED
    BY <1>2, <2>1
<1>6. QED
  BY <1>4, <1>5, CountedAlike

\* CompletedLoads (finalize.ts, evidence.ts loadStrictFinalizedRun): with the gateway stopped
\* first, a bundle sealed as completed and left alone loads, whatever the finalizer crashed in
\* before it was sealed; a request with two rows is the case the code gets wrong.
THEOREM CompletedBundlesLoad ==
  ASSUME StopFirst
  PROVE  Spec => []CompletedLoads
<1>1. ASSUME SealedInv, verifyBundleIntegrity(dir), dir.manifest.status = "completed",
             \A r \in Requests : Len(dir.rows[r]) <= 1
      PROVE  loadStrictFinalizedRun(dir)
  <2>1. PICK n \in 0..MaxFinalizes : Loaded(n)
    BY <1>1, CompletedIsDerived
  <2>2. /\ Directory(dir) /\ dir.ledger # None /\ dir.rows \in Histories
        /\ ~Contradicted(dir) /\ \A c \in Criteria : ~Fails(dir, c)
    BY <1>1, <2>1 DEF Loaded, Fatal, failedCriteria, SealedInv, RunInv, TypeInv, Directory
  <2>3. dir.trace # None /\ dir.final # None
    BY <2>1, <2>2, DerivedTyped, FinalizesAreCounted, NoneIsNothing DEF Loaded
  <2>4. /\ dir.final.status = "completed" /\ dir.final.ledger = dir.ledger
        /\ dir.final.emitted = Cardinality(Requested(dir.ledger))
        /\ dir.final.attempted = Attempted(dir.rows) /\ dir.final.completed = Answered(dir.rows)
    BY <2>1 DEF Loaded, finalManifest, status
  <2>5. dir.bundle # None /\ \A r \in Requested(dir.ledger) : clientOf(dir, r) # None
    BY <2>2 DEF Criteria, Fails
  <2>6. \A r \in Requests \ Requested(dir.ledger) :
          clientOf(dir, r) = None /\ ~HasRow(dir, r) /\ ~HasSidecar(dir, r)
    BY <2>2 DEF Contradicted, Orphan
  <2>7. Joined(dir) = Requested(dir.ledger) /\ Requested(dir.ledger) \in SUBSET Requests
    BY <2>5, <2>6 DEF Joined, Requested
  <2>8. dir.trace.rows = [r \in Requested(dir.ledger) |-> FinalRow(dir, r)]
    BY <2>1, <2>7 DEF Loaded, finalizedTrace
  <2> DEFINE known == Requested(dir.ledger)
             joined == [r \in DOMAIN dir.trace.rows |->
                          IF dir.trace.rows[r].gateway = "none" THEN <<>>
                          ELSE <<dir.trace.rows[r].gateway>>]
             alike == [r \in known |-> IF dir.rows[r] = <<>> THEN <<>> ELSE <<Last(dir.rows[r])>>]
  <2>9. DOMAIN dir.trace.rows = known
    BY <2>8
  <2>10. ASSUME NEW r \in known PROVE joined[r] = alike[r]
    <3>1. dir.trace.rows[r].gateway = Row(dir, r) /\ r \in Requests
      BY <2>7, <2>8 DEF FinalRow
    <3>2. dir.rows[r] # <<>> => Last(dir.rows[r]) \in Outcomes
      BY <2>2, <3>1, StoriesRead DEF Histories
    <3>3. QED
      BY <2>9, <3>1, <3>2 DEF Row, HasRow, Outcomes
  <2>11. joined = alike
    BY <2>9, <2>10
  <2>12. \A r \in Requests \ known : dir.rows[r] = <<>>
    BY <2>6 DEF HasRow
  <2>13. Attempted(joined) = Attempted(dir.rows) /\ Answered(joined) = Answered(dir.rows)
    <3> HIDE DEF joined, known
    <3>1. known \in SUBSET Requests
      BY <2>7 DEF known
    <3>2. QED
      BY <1>1, <2>2, <2>11, <2>12, <3>1, JoinedCounts
  <2>14. QED
    BY <1>1, <2>2, <2>3, <2>4, <2>9, <2>13 DEF loadStrictFinalizedRun
<1>2. SealedInv => CompletedLoads
  BY <1>1 DEF CompletedLoads
<1>3. QED
  BY <1>2, SealedAlways, PTL

=============================================================================
