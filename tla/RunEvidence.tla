------------------------------ MODULE RunEvidence ------------------------------
(***************************************************************************)
(* What the directory of a model run holds, and the two programs that      *)
(* judge it: the finalizer (src/scripts/model/finalize.ts), which joins    *)
(* three accounts of every request - the engine's in the ledger, the       *)
(* client's in the bundle, the gateway's in trace rows and sidecars - and  *)
(* the loader of evaluation evidence (src/scripts/evaluation/evidence.ts). *)
(*                                                                         *)
(* A directory is a record: seed (is run-manifest.json there), rows,       *)
(* sidecars and routing (the gateway's files), ledger and bundle (staged   *)
(* from the downloads), and what is derived from them: trace, final,       *)
(* summary and manifest.  A hash is the thing hashed.                      *)
(***************************************************************************)
EXTENDS Integers, Sequences, SequencesExt, FiniteSets, FiniteSetsExt

CONSTANTS
  Requests,   \* the external requests a run can emit: 1..n, in order
  Routed,     \* is the run's route pinned: does an answer leave router evidence?
  None

\* A ledger: whose run it is, and of each request its fate, the verdict on the
\* gateway's response (gw-<id>) and whether a failure was delivered.
Unsent == [fate |-> "unsent", verdict |-> "none", failed |-> FALSE]
Requested(ledger) == {r \in Requests : ledger.of[r].fate # "unsent"}
resolutionCount(l) == IF l.fate \in {"accepted", "expired", "superseded"} THEN 1 ELSE 0

\* Positive proof that the gateway answered.
ledgerProvenGatewayResult(l) == l.verdict # "none"

resolveEngineOutcome(l) ==
  IF ledgerProvenGatewayResult(l) THEN l.verdict
  ELSE IF resolutionCount(l) = 1 THEN l.fate ELSE "none"

-----------------------------------------------------------------------------
(* The finalizer's view of a directory.                                    *)

HasRow(d, r) == d.rows[r] # <<>>
HasSidecar(d, r) == d.sidecars[r] # "none"
clientOf(d, r) == IF d.bundle = None THEN None ELSE d.bundle.entries[r]
Observed(d, r) == clientOf(d, r) # None /\ clientOf(d, r).observed

\* Evidence of a request that the engine never made.
Orphan(d, r) ==
  /\ r \notin Requested(d.ledger)
  /\ HasRow(d, r) \/ HasSidecar(d, r) \/ r \in d.routing \/ clientOf(d, r) # None

\* Two sources tell two stories of a request.  The bundle archives the exact
\* envelope of every request the client saw: an edited sidecar differs from it.
Disagree(d, r) ==
  /\ clientOf(d, r) # None
  /\ \/ d.sidecars[r] = "edited"
     \/ /\ ledgerProvenGatewayResult(d.ledger.of[r])
        /\ ~HasRow(d, r) /\ ~Observed(d, r)

Contradicted(d) ==
  \/ \E r \in Requests : Orphan(d, r) \/ Disagree(d, r)
  \/ d.bundle # None /\ d.bundle.binds \notin {None, d.ledger}

\* Mutated form of Interrupted: an interrupted call must have left no row.
InterruptedSilently(d, r) ==
  /\ HasSidecar(d, r) /\ ~HasRow(d, r)
  /\ clientOf(d, r).code \in {"request-timeout", "gateway-unavailable"}
  /\ resolutionCount(d.ledger.of[r]) = 1
  /\ ~ledgerProvenGatewayResult(d.ledger.of[r])

\* the POST reached the gateway, and the client never parsed its result
Interrupted(d, r) ==
  /\ HasSidecar(d, r)
  /\ clientOf(d, r).code \in {"request-timeout", "gateway-unavailable"}
  /\ resolutionCount(d.ledger.of[r]) = 1
  /\ ~ledgerProvenGatewayResult(d.ledger.of[r])

\* the failure came after the engine had resolved the request
Moot(l) == ~l.failed /\ resolutionCount(l) >= 1 /\ ~ledgerProvenGatewayResult(l)

classifyDisposition(d, r) ==
  LET l == d.ledger.of[r] IN
  IF clientOf(d, r) = None THEN "none"
  ELSE IF Observed(d, r) THEN IF HasRow(d, r) /\ HasSidecar(d, r) THEN "gateway-answered" ELSE "none"
  ELSE IF Interrupted(d, r) THEN "gateway-interrupted"
  ELSE IF ~HasSidecar(d, r) /\ ~HasRow(d, r) /\ l.failed THEN "never-dispatched"
  ELSE IF Moot(l) THEN "moot-after-resolution" ELSE "none"

\* Mutated form of Joined: the client's own entries are not joined.
JoinedAtGateway(d) == {r \in Requests : HasRow(d, r) \/ HasSidecar(d, r)}

\* The requests any source but the ledger knows.
Joined(d) == {r \in Requests : clientOf(d, r) # None \/ HasRow(d, r) \/ HasSidecar(d, r)}

\* With several rows the last one is joined.
Row(d, r) == IF HasRow(d, r) THEN Last(d.rows[r]) ELSE "none"

FinalRow(d, r) ==
  [gateway |-> Row(d, r), engine |-> resolveEngineOutcome(d.ledger.of[r]),
   disposition |-> classifyDisposition(d, r)]

\* A response with no engine event, and no client entry that explains it.
Unexplained(d, r) ==
  /\ Row(d, r) = "response" /\ resolveEngineOutcome(d.ledger.of[r]) = "none"
  /\ clientOf(d, r) = None \/ clientOf(d, r).outcome # "failure"

-----------------------------------------------------------------------------
(* The strict criteria: absences, where Contradicted is about lies.        *)

Criteria == {"client-bundle-present", "client-trace-coverage", "gateway-result-evidence",
             "handoff-ledger-binding", "strict-disposition", "gateway-trace-coverage",
             "engine-resolution", "routing-evidence"}

\* What the client parsed needs exactly one row, and a sidecar.
ResultUnproven(d, r) == Observed(d, r) /\ (Len(d.rows[r]) # 1 \/ ~HasSidecar(d, r))

Fails(d, criterion) ==
  LET known == Requested(d.ledger) IN
  CASE criterion = "client-bundle-present" -> d.bundle = None
    [] criterion = "client-trace-coverage" -> d.bundle # None /\ \E r \in known : clientOf(d, r) = None
    [] criterion = "gateway-result-evidence" -> \E r \in Requests : ResultUnproven(d, r)
    [] criterion = "handoff-ledger-binding" -> d.bundle # None /\ d.bundle.binds = None
    [] criterion = "strict-disposition" ->
         d.bundle # None /\ \E r \in Joined(d) : classifyDisposition(d, r) = "none"
    [] criterion = "gateway-trace-coverage" ->
         \E r \in known : ~HasRow(d, r) /\ ledgerProvenGatewayResult(d.ledger.of[r])
    [] criterion = "engine-resolution" -> \E r \in known : resolutionCount(d.ledger.of[r]) = 0
    [] criterion = "routing-evidence" ->
         Routed /\ \E r \in Requests \ d.routing : Contains(d.rows[r], "response")

failedCriteria(d) == {criterion \in Criteria : Fails(d, criterion)}

\* What makes the finalizer throw in both of its modes.
Fatal(d) ==
  \/ ~d.seed \/ d.ledger = None
  \/ Contradicted(d)
  \/ d.bundle # None /\ \E r \in Joined(d) : Unexplained(d, r)

status(d) == IF failedCriteria(d) = {} THEN "completed" ELSE "degraded"

-----------------------------------------------------------------------------
(* Derived files, numbered with the finalization they come from.           *)

\* computeInfraMetrics counts rows: budget refusals never reached the upstream.
RowsOf(rows) == UNION {{r} \X DOMAIN rows[r] : r \in DOMAIN rows}
Attempted(rows) == Cardinality({at \in RowsOf(rows) : rows[at[1]][at[2]] # "budget-exhausted"})
Answered(rows) == Cardinality({at \in RowsOf(rows) : rows[at[1]][at[2]] = "response"})

finalManifest(d, by) ==
  [by |-> by, status |-> status(d), ledger |-> d.ledger, emitted |-> Cardinality(Requested(d.ledger)),
   attempted |-> Attempted(d.rows), completed |-> Answered(d.rows)]

finalizedTrace(d, by) == [by |-> by, rows |-> [r \in Joined(d) |-> FinalRow(d, r)]]

\* buildModelSummary reads the trace file again.
buildModelSummary(d, by) == [by |-> by, rows |-> d.rows]

\* The bundle manifest hashes every file but itself.
Files(d) == [d EXCEPT !.manifest = None]

bundleManifest(d, producer, verdict) ==
  [producer |-> producer, status |-> verdict, covers |-> Files(d)]

Names(d) == {f \in {"ledger", "bundle", "trace", "final", "summary"} : d[f] # None}

\* Mutated form of verifyBundleIntegrity: the names are compared, not the bytes.
verifyBundleNames(d) ==
  d.manifest # None /\ d.manifest.producer = "model:finalize" /\ Names(d.manifest.covers) = Names(d)

verifyBundleIntegrity(d) ==
  d.manifest # None /\ d.manifest.producer = "model:finalize" /\ d.manifest.covers = Files(d)

\* The bundle is intact and completed; its parts and its counts agree.
loadStrictFinalizedRun(d) ==
  /\ verifyBundleIntegrity(d) /\ d.manifest.status = "completed"
  /\ d.final # None /\ d.trace # None /\ d.ledger # None
  /\ d.final.status = "completed" /\ d.final.ledger = d.ledger
  /\ DOMAIN d.trace.rows = Requested(d.ledger)
  /\ d.final.emitted = Cardinality(Requested(d.ledger))
  /\ LET joined == [r \in DOMAIN d.trace.rows |->
                      IF d.trace.rows[r].gateway = "none" THEN <<>> ELSE <<d.trace.rows[r].gateway>>] IN
     /\ Attempted(joined) = d.final.attempted
     /\ Answered(joined) = d.final.completed

-----------------------------------------------------------------------------
(* What the files can hold; none of it is the None of a missing file.      *)

Outcomes == {"response", "budget-exhausted", "invalid-model-output", "upstream-error"}
Fates == {"unsent", "pending", "accepted", "expired", "superseded"}
Accounts == [Requests -> [fate : Fates, verdict : {"none", "accepted", "rejected"}, failed : BOOLEAN]]
Ledgers == [run : {"own", "other"}, of : Accounts]

\* The rows of one request: a second write fails at most once.
Stories == UNION {[1..n -> Outcomes] : n \in 0..2}
Histories == [Requests -> Stories]

Entries ==
  [outcome : {"response", "failure"}, observed : BOOLEAN,
   code : {"none", "gateway", "budget-exhausted", "invalid-gateway-response", "gateway-unavailable",
           "request-timeout"}]
Bundles == [entries : [Requests -> Entries \cup {None}], binds : Ledgers \cup {None}]

FinalRows ==
  [gateway : Outcomes \cup {"none"},
   engine : {"accepted", "rejected", "expired", "superseded", "none"},
   disposition : {"none", "gateway-answered", "gateway-interrupted", "never-dispatched",
                  "moot-after-resolution"}]
Traces == [by : Nat, rows : UNION {[known -> FinalRows] : known \in SUBSET Requests}]
Summaries == [by : Nat, rows : Histories]
Finals ==
  [by : Nat, status : {"completed", "degraded"}, ledger : Ledgers,
   emitted : {Cardinality(known) : known \in SUBSET Requests},
   attempted : {Attempted(rows) : rows \in Histories},
   completed : {Answered(rows) : rows \in Histories}]
Stagings == [trace : Traces, final : Finals, summary : Summaries \cup {None}]

ASSUME RequestsAreNumbered == Requests \subseteq Nat \ {0}
ASSUME NoneIsNothing ==
  /\ None \notin Entries /\ None \notin Ledgers /\ None \notin Bundles
  /\ None \notin Traces /\ None \notin Finals /\ None \notin Stagings

=============================================================================
