------------------------------ MODULE ModelExchange ------------------------------
(***************************************************************************)
(* A model decision end to end: the worker's session (src/src/worker/      *)
(* commandProcessor.ts) asks, the page (module GatewayClient) passes the   *)
(* request to the gateway process (module ModelGateway) and the outcome    *)
(* back.  The two postMessage channels are FIFO; HTTP exchanges can be     *)
(* lost, late or resent; the operator may load, reset and change the       *)
(* condition, and stop and start the gateway, at any moment.               *)
(*                                                                         *)
(* How the engine uses an answer is module DecisionLifecycle.  Request ids *)
(* repeat from run to run, so an answer of an old run would fit a new one. *)
(***************************************************************************)
EXTENDS Integers, Sequences, FiniteSets

CONSTANTS
  Conditions, Frozen, Baseline, MaxQueued, MaxCalls, MaxRuns,
  MaxHandshakes,
  Requests,     \* bound: the request ids a run of the engine gets to
  MaxBooks, MaxCallsPerRun, MaxTotalCalls, MaxConcurrency, MaxStarts, DiskFaults,
  None

Runs == 0..MaxRuns

ASSUME NumberAssumption ==
  /\ MaxQueued \in Nat \ {0} /\ MaxCalls \in Nat \ {0} /\ MaxRuns \in Nat \ {0} /\ Requests \in Nat \ {0}
  /\ MaxBooks \in Nat \ {0} /\ MaxCallsPerRun \in Nat \ {0} /\ MaxTotalCalls \in Nat \ {0}
  /\ MaxConcurrency \in Nat \ {0} /\ MaxStarts \in Nat /\ MaxHandshakes \in Nat
ASSUME ConditionAssumption ==
  Frozen \in Conditions /\ Baseline \notin Conditions /\ DiskFaults \in BOOLEAN

VARIABLES
  worker,       \* WorkerSession: runSeq, the run's condition, its progress, its inbox
  cond, run, config, latch, handshakes, queue, current, calls, failed, trace, archive,
  view, bundle, commands, messages,
  up, served, remembered, books, total, adapter, rows, wire, starts, spent

Client == INSTANCE GatewayClient
Server == INSTANCE ModelGateway WITH Requests <- 1..Requests

vars == <<worker, cond, run, config, latch, handshakes, queue, current, calls, failed, trace,
          archive, view, bundle, commands, messages, wire, up, served, remembered, books, total, adapter,
          rows, starts, spent>>

-----------------------------------------------------------------------------
(* The worker                                                              *)

Loaded == worker.cond # None
Running == Loaded /\ ~worker.done

Push(ms) == messages' = messages \o ms
SnapshotOf(r, complete) == [type |-> "snapshot", run |-> r, req |-> None, complete |-> complete]

\* load-scenario and reset: the engine's run starts over under a new runSeq.
Fresh(c) == [runSeq |-> worker.runSeq + 1, cond |-> c, issued |-> 0, done |-> FALSE, inbox |-> <<>>]

Restart(c) == worker' = Fresh(c) /\ Push(<<SnapshotOf(worker'.runSeq, FALSE)>>)

\* An answer is queued for the next tick unless the run is complete.
HandleCommand ==
  /\ commands # <<>> /\ commands' = Tail(commands)
  /\ LET c == Head(commands) IN
     \/ c.type = "load" /\ Restart(c.cond)
     \/ c.type = "reset" /\ Loaded /\ Restart(worker.cond)
     \/ c.type = "answer" /\ Running
        /\ worker' = [worker EXCEPT !.inbox = Append(@, [run |-> c.run, req |-> c.req])]
        /\ UNCHANGED messages
     \/ c.type = "reset" /\ ~Loaded /\ UNCHANGED <<worker, messages>>
     \/ c.type = "answer" /\ ~Running /\ UNCHANGED <<worker, messages>>
  /\ UNCHANGED wire /\ Client!Idle /\ Server!Idle

RequestOf(q) == [type |-> "request", run |-> worker.runSeq, req |-> q, complete |-> FALSE]
MayAsk == Running /\ worker.cond # Baseline /\ worker.issued < Requests

\* A batch of ticks leaves a request for the page.
Ask ==
  /\ MayAsk
  /\ worker' = [worker EXCEPT !.issued = @ + 1]
  /\ Push(<<RequestOf(worker.issued + 1)>>)
  /\ UNCHANGED <<commands, wire>> /\ Client!Idle /\ Server!Idle

\* The last batch: a terminal snapshot, its requests, then run-complete.
Finish ==
  /\ Running
  /\ \E late \in {<<>>} \cup IF MayAsk THEN {<<RequestOf(worker.issued + 1)>>} ELSE {} :
       /\ worker' = [worker EXCEPT !.done = TRUE, !.issued = @ + Len(late)]
       /\ Push(<<SnapshotOf(worker.runSeq, TRUE)>> \o late \o
               <<[type |-> "run-complete", run |-> worker.runSeq, req |-> None, complete |-> TRUE]>>)
  /\ UNCHANGED <<commands, wire>> /\ Client!Idle /\ Server!Idle

-----------------------------------------------------------------------------
Advertised == {None} \cup IF up THEN {served} ELSE {}

Init ==
  /\ worker = [runSeq |-> 0, cond |-> None, issued |-> 0, done |-> FALSE, inbox |-> <<>>]
  /\ Client!ClientInit /\ Server!GatewayInit

OperatorActs == Client!Operator /\ UNCHANGED worker /\ Server!Idle
PageActs == Client!Page(Advertised) /\ UNCHANGED worker /\ Server!Idle
GatewayActs == Server!Gateway /\ UNCHANGED <<worker, commands, messages>> /\ Client!Idle

Next == HandleCommand \/ Ask \/ Finish \/ OperatorActs \/ PageActs \/ GatewayActs

\* Event loops take every task in turn, and every fetch has a timer; nothing
\* obliges the gateway to run, the worker to finish or the operator to act.
Spec == Init /\ [][Next]_vars /\ WF_vars(HandleCommand) /\ WF_vars(PageActs)

-----------------------------------------------------------------------------
(* Properties                                                              *)

MaybeRun == Runs \cup {None}

Busies == [req : 1..Requests, run : Runs, stage : {"handshake", "posted"}]

\* None stands for what is not there, and is none of the things that may be.
ASSUME NoneAssumption ==
  /\ None \notin Conditions \cup {Baseline} /\ None \notin Busies
  /\ None \notin {"open", "response", "failure", "unusable"}

TypeOK ==
  /\ worker.runSeq \in Runs /\ worker.cond \in Conditions \cup {Baseline, None}
  /\ worker.issued \in 0..Requests
  /\ cond \in Conditions \cup {Baseline} /\ run \in Runs
  /\ config \in Conditions \cup {None} /\ latch \in BOOLEAN /\ handshakes \in 0..MaxHandshakes
  /\ queue \in Seq(1..Requests) /\ Len(queue) <= MaxQueued
  /\ calls \in 0..MaxCalls + MaxQueued
  /\ current \in Busies \cup {None}
  /\ failed \subseteq archive /\ archive \subseteq 1..Requests
  /\ trace \subseteq [run : Runs, req : 1..Requests,
                      outcome : {"response", "failure", "discarded"}, observed : BOOLEAN]
  /\ view \in [final : MaybeRun, complete : BOOLEAN]
  /\ up \in BOOLEAN /\ served \in Conditions
  /\ remembered \in Seq(Runs) /\ Len(remembered) <= MaxBooks
  /\ books \in [Runs -> [calls : 0..MaxCallsPerRun,
                         results : [1..Requests -> {None, "open", "response", "failure", "unusable"}]]]
  /\ total \in 0..MaxTotalCalls /\ Cardinality(adapter) <= MaxConcurrency
  /\ rows \subseteq [run : Runs, req : 1..Requests, outcome : {"response", "failure"}]

\* The loads and resets still on their way to the worker.
Restarting == {i \in DOMAIN commands : commands[i].type \in {"load", "reset"}}

\* The page's run counter mirrors the worker's: it is ahead by exactly the loads and
\* resets still on their way (workerClient.ts, expectedRunSeq; commandProcessor.ts,
\* runSeq).  A reset before the first load breaks it for good: the worker refuses it.
MirrorAgrees == run = worker.runSeq + Cardinality(Restarting)

\* The page's counter never falls behind the worker's and the restarts on their way, so
\* what it takes for a request of its run is none of an older one (workerClient.ts).
MirrorNotBehind == run >= worker.runSeq + Cardinality(Restarting)

\* What the worker hands to a run's next tick answers a request of that very
\* run, and no request twice: ids repeat, so the engine could not tell a late
\* answer to the run before (modelGatewayClient.ts, the stale-run discards).
AnswersItsOwnRun ==
  \A i \in DOMAIN worker.inbox :
    /\ worker.inbox[i].run = worker.runSeq /\ worker.inbox[i].req <= worker.issued
    /\ \A j \in 1..i - 1 : worker.inbox[j].req # worker.inbox[i].req

\* Within the life of a book no request reaches the model twice, however often
\* its POST arrives, and the budgets hold (server.ts, handleDecision).
OneCallPerRequest ==
  /\ \A r \in Runs :
       /\ Len(spent[r]) = Cardinality({spent[r][i] : i \in DOMAIN spent[r]})
       /\ Len(spent[r]) <= MaxCallsPerRun
  /\ Cardinality(adapter) <= MaxConcurrency

\* Every queue, book and budget stays within its limit, and none is spent twice on one
\* request (modelGatewayClient.ts MAX_QUEUED, server.ts budgets).
LimitsHold == TypeOK /\ OneCallPerRequest

\* Two runs are never mixed, an early reset included: the page never takes an old run
\* for its own, and a run is answered only with answers to its own requests
\* (workerClient.ts, modelGatewayClient.ts).
RunsKeptApart == MirrorNotBehind /\ AnswersItsOwnRun

\* The evidence joins: each archived request of the current run is traced, or
\* waits, or is in dispatch; and a trace entry that carries a gateway outcome
\* has its row on disk (runBundle.ts, validateRunBundle; modelTraceWriter.ts).
EvidenceJoins ==
  /\ archive = {e.req : e \in {x \in trace : x.run = run}}
               \cup {queue[i] : i \in DOMAIN queue}
               \cup IF current # None /\ current.run = run THEN {current.req} ELSE {}
  /\ \A e \in trace : e.observed => Server!Row(e.run, e.req, e.outcome) \in rows

\* A bundle is of a run whose own run-complete receipt was stamped, and holds the hashes
\* of the run it is named after (runBundle.ts, canExportRunBundle).  The message carries
\* no run number: one of the run before, overtaken by a load, stamps the new run.
BundleIsTheRuns == bundle = None \/ bundle.hash = bundle.run

Answered(q) == \E i \in DOMAIN worker.inbox : worker.inbox[i].req = q

\* Every request of a run the page counts like the worker gets an answer while the run
\* lasts, whatever becomes of the gateway: a refusal, a dead connection and a timeout are
\* answers too.  (Out of step, the page drops every request: MirrorAgrees.)
EveryRequestAnswered ==
  \A r \in Runs, q \in 1..Requests :
    (worker.runSeq = r /\ worker.issued >= q /\ MirrorAgrees) ~> (worker.runSeq # r \/ worker.done \/ Answered(q))
=============================================================================
