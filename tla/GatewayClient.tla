----------------------------- MODULE GatewayClient -----------------------------
(***************************************************************************)
(* The browser's side of a model decision: WorkerClient (src/src/app/      *)
(* workerClient.ts), ModelGatewayClient (modelGatewayClient.ts) and the    *)
(* export button of the model panel (src/src/ui/modelPanel.ts).  It passes *)
(* the worker's requests to the gateway one at a time and the outcome back *)
(* as a command; a load or a reset starts a new run and voids the old one. *)
(*                                                                         *)
(* The page is one event loop: a handler runs up to its next await at one  *)
(* go, and messages, timers and replies may come in between in any order.  *)
(***************************************************************************)
EXTENDS Integers, Sequences, FiniteSets

CONSTANTS
  Conditions,   \* the model-backed conditions, each with its own contract
  Frozen,       \* the one whose contract stands in when none is selected
  Baseline,     \* the condition that never calls the gateway
  MaxQueued, MaxCalls,  \* 4 and 80 in the code
  MaxRuns,      \* bound: loads and resets the operator makes
  MaxHandshakes,  \* bound: connect() calls under way at a time
  None

VARIABLES
  cond,         \* selectedConditionId
  run,          \* the gateway client's runId, and expectedRunSeq: newRun and
                \* the counter are one step in both places that move them
  config,       \* providerConfig: the condition it was verified for, or None
  latch,        \* contractMismatchField # null
  handshakes,   \* connect() calls nobody awaits
  queue,        \* queued request ids
  current,      \* what dispatchNext is busy with: a handshake, then a POST
  calls,        \* callsThisRun
  failed,       \* failedRequestIds
  trace,        \* the client trace
  archive,      \* the request ids of the exact-request archive
  view,         \* of the view store: whose final hash and snapshot it shows
  bundle,       \* the bundle downloaded last
  commands,     \* to the worker, in order
  messages,     \* from the worker, in order
  wire          \* the POST exchanges (module ModelGateway)

GatewaySideIdle ==
  UNCHANGED <<config, latch, handshakes, queue, current, calls, failed, trace, archive>>
Idle == UNCHANGED <<cond, run, view, bundle>> /\ GatewaySideIdle

Entry(r, req, outcome, observed) ==
  [run |-> r, req |-> req, outcome |-> outcome, observed |-> observed]

ModelBacked(c) == c \in Conditions
Contract(c) == IF ModelBacked(c) THEN c ELSE Frozen

\* ModelClientTraceRecorder.record: one entry per run and request
Recorded(t, entry) ==
  IF \E e \in t : e.run = entry.run /\ e.req = entry.req THEN t ELSE t \cup {entry}

\* The command names the request only; `r`, the run it was made in, is history.
Answer(r, req) == [type |-> "answer", run |-> r, req |-> req, cond |-> None]
Order(type, c) == [type |-> type, run |-> None, req |-> None, cond |-> c]

-----------------------------------------------------------------------------
(* The operator                                                            *)

\* Mutated form of NewRun: the requests of the old run stay queued.
NewRunKeepsQueue ==
  /\ run < MaxRuns /\ run' = run + 1
  /\ calls' = 0 /\ failed' = {} /\ latch' = FALSE
  /\ trace' = {} /\ archive' = {}
  /\ view' = [view EXCEPT !.final = None]
  /\ UNCHANGED <<config, current, bundle, messages, wire, queue>>

\* newRun: a POST in flight is aborted, but dispatchNext still has to return.
NewRun ==
  /\ run < MaxRuns /\ run' = run + 1
  /\ queue' = <<>> /\ calls' = 0 /\ failed' = {} /\ latch' = FALSE
  /\ trace' = {} /\ archive' = {}
  /\ view' = [view EXCEPT !.final = None]
  /\ UNCHANGED <<config, current, bundle, messages, wire>>

\* onRunReset connects for a model-backed selection; the panel's select
\* connects once more.
Connecting(n) ==
  handshakes' = IF handshakes + n > MaxHandshakes THEN MaxHandshakes ELSE handshakes + n

Load(c, supported, connects) ==
  /\ NewRun
  /\ cond' = IF supported THEN c ELSE Baseline
  /\ Connecting(IF ModelBacked(c) THEN connects ELSE 0)
  /\ commands' = Append(commands, Order("load", cond'))

SelectCondition(c, supported) == Load(c, supported, 2)
LoadScenario(supported) == Load(cond, supported, 1)

\* Never disabled: before the first load the page counts a run the worker refuses.
Reset ==
  /\ NewRun
  /\ Connecting(IF ModelBacked(cond) THEN 1 ELSE 0)
  /\ commands' = Append(commands, Order("reset", None))
  /\ UNCHANGED cond

\* canExportRunBundle, an idle client, and validateRunBundle's coverage
Export ==
  /\ view.complete /\ ModelBacked(cond) /\ view.final # None
  /\ current = None /\ queue = <<>>
  /\ archive = {e.req : e \in {x \in trace : x.run = run}}
  /\ bundle' = [run |-> run, hash |-> view.final]
  /\ UNCHANGED <<cond, run, view, commands, messages, wire>> /\ GatewaySideIdle

-----------------------------------------------------------------------------
(* Messages from the worker                                                *)

\* Mutated form of Fail: traced, and the worker is left waiting.
FailSilently(r, req) ==
  /\ failed' = failed \cup {req}
  /\ trace' = IF req \in failed THEN trace ELSE Recorded(trace, Entry(run, req, "failure", FALSE))
  /\ UNCHANGED commands

\* failRequest: traced and reported to the worker once per request
Fail(r, req) ==
  /\ failed' = failed \cup {req}
  /\ trace' = IF req \in failed THEN trace ELSE Recorded(trace, Entry(run, req, "failure", FALSE))
  /\ commands' = IF req \in failed THEN commands ELSE Append(commands, Answer(r, req))

\* handleDecisionRequest: archived first, then refused or queued
Full == calls >= MaxCalls \/ Len(queue) >= MaxQueued

HandleDecisionRequest(r, req) ==
  /\ archive' = archive \cup {req}
  /\ IF latch \/ Full THEN Fail(r, req) /\ UNCHANGED queue
     ELSE queue' = Append(queue, req) /\ UNCHANGED <<failed, trace, commands>>

\* Only the current run's requests are passed on.
Forwarded(m) == m.run = run /\ ModelBacked(cond)

DecisionRequest(m) ==
  /\ m.type = "request"
  /\ IF Forwarded(m) THEN HandleDecisionRequest(m.run, m.req)
     ELSE UNCHANGED <<archive, queue, failed, trace, commands>>
  /\ UNCHANGED view

Snapshot(m) ==
  /\ m.type = "snapshot"
  /\ view' = [view EXCEPT !.complete = m.complete]
  /\ UNCHANGED <<archive, queue, failed, trace, commands>>

RunComplete(m) ==
  /\ m.type = "run-complete"
  /\ view' = [view EXCEPT !.final = m.run, !.complete = TRUE]
  /\ UNCHANGED <<archive, queue, failed, trace, commands>>

HandleMessage ==
  /\ messages # <<>> /\ messages' = Tail(messages)
  /\ LET m == Head(messages) IN DecisionRequest(m) \/ Snapshot(m) \/ RunComplete(m)
  /\ UNCHANGED <<cond, run, config, latch, handshakes, current, calls, bundle, wire>>

-----------------------------------------------------------------------------
(* Dispatch: pump's loop over dispatchNext                                 *)

Busy(req, stage) == [req |-> req, run |-> run, stage |-> stage]

\* `live`: somebody waits for the reply; `again`: the transport resent it.
Post(req) ==
  /\ calls' = calls + 1
  /\ current' = Busy(req, "posted")
  /\ wire' = wire \cup {[run |-> run, req |-> req, cond |-> Contract(cond),
                         state |-> "sent", live |-> TRUE, again |-> FALSE]}

DispatchNext ==
  /\ current = None /\ queue # <<>> /\ queue' = Tail(queue)
  /\ LET req == Head(queue) IN
     \/ config # None /\ Post(req) /\ UNCHANGED <<failed, trace, commands>>
     \/ config = None /\ latch /\ Fail(run, req) /\ UNCHANGED <<calls, current, wire>>
     \/ /\ config = None /\ ~latch /\ current' = Busy(req, "handshake")
        /\ UNCHANGED <<calls, wire, failed, trace, commands>>
  /\ UNCHANGED <<cond, run, config, latch, handshakes, archive, view, bundle, messages>>

\* connect: `answer` is the condition the gateway advertises, or None.
Verified(answer) ==
  /\ config' = IF answer = Contract(cond) THEN answer ELSE None
  /\ latch' = (latch \/ answer \notin {None, Contract(cond)})

HandshakeEnds(answer) ==
  /\ handshakes > 0 /\ handshakes' = handshakes - 1
  /\ Verified(answer)
  /\ UNCHANGED <<cond, run, queue, current, calls, failed, trace, archive, view, bundle,
                 commands, messages, wire>>

\* recordDiscardedStaleRun
Discard ==
  /\ trace' = Recorded(trace, Entry(current.run, current.req, "discarded", FALSE))
  /\ UNCHANGED <<failed, commands>>

Connected(answer) ==
  /\ current # None /\ current.stage = "handshake"
  /\ Verified(answer)
  /\ \/ current.run # run /\ Discard /\ current' = None /\ UNCHANGED <<calls, wire>>
     \/ /\ current.run = run /\ config' = None
        /\ Fail(current.run, current.req) /\ current' = None /\ UNCHANGED <<calls, wire>>
     \/ /\ current.run = run /\ config' # None
        /\ Post(current.req) /\ UNCHANGED <<failed, trace, commands>>
  /\ UNCHANGED <<cond, run, handshakes, queue, archive, view, bundle, messages>>

Mine == {x \in wire : x.run = current.run /\ x.req = current.req}

\* Mutated form of Stale: a late result is taken for the new run.
NeverStale == FALSE

\* Is the run the POST was made for still the client's?
Stale == current.run # run

\* The POST ends: a reply, or the timer, an abort or a dead connection
\* ("none").  A result that came after a new run began is discarded.
Settle(outcome) ==
  /\ current # None /\ current.stage = "posted"
  /\ outcome \in {x.state : x \in Mine} \cup {"none"} /\ outcome \notin {"sent", "held"}
  /\ wire' = (wire \ Mine) \cup {[x EXCEPT !.live = FALSE] : x \in {y \in Mine : y.state = "sent"}}
  /\ current' = None
  /\ \/ Stale /\ Discard
     \/ /\ ~Stale /\ outcome \in {"response", "failure"}
        /\ trace' = Recorded(trace, Entry(run, current.req, outcome, TRUE))
        /\ commands' = Append(commands, Answer(current.run, current.req))
        /\ UNCHANGED failed
     \/ ~Stale /\ outcome \notin {"response", "failure"} /\ Fail(current.run, current.req)
  /\ UNCHANGED <<cond, run, config, latch, handshakes, queue, calls, archive, view, bundle,
                 messages>>

-----------------------------------------------------------------------------
ClientInit ==
  /\ cond = Baseline /\ run = 0
  /\ config = None /\ latch = FALSE /\ handshakes = 0
  /\ queue = <<>> /\ current = None /\ calls = 0 /\ failed = {} /\ trace = {} /\ archive = {}
  /\ view = [final |-> None, complete |-> FALSE] /\ bundle = None
  /\ commands = <<>> /\ messages = <<>>

Operator ==
  \/ \E c \in Conditions \cup {Baseline}, supported \in BOOLEAN :
       (c = Baseline => supported) /\ SelectCondition(c, supported)
  \/ \E supported \in BOOLEAN : (cond = Baseline => supported) /\ LoadScenario(supported)
  \/ Reset \/ Export

\* One handler of the page, given what a handshake may hear.
Page(advertised) ==
  \/ HandleMessage \/ DispatchNext
  \/ \E a \in advertised : HandshakeEnds(a) \/ Connected(a)
  \/ \E o \in {"response", "failure", "unusable", "none"} : Settle(o)
=============================================================================
