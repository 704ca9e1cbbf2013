----------------------------- MODULE WorkerSession -----------------------------
(***************************************************************************)
(* The page and the simulation worker.  The page (src/src/app/             *)
(* workerClient.ts, src/src/ui/controls.ts) sends numbered commands; the   *)
(* worker (src/src/worker/) gates them, runs them on its simulation host   *)
(* (src/src/sim/runtime/host.ts), paces the run on its own timer and posts *)
(* what changed.  The two channels are FIFO and independent of each other, *)
(* so each side acts on what the other was a moment ago.                   *)
(*                                                                         *)
(* Files leave the page by a download, may be changed by anybody, and come *)
(* back by an import.  The speed, the batch runs, the context-rich traces, *)
(* the validation of the configuration and the acks are left out.          *)
(***************************************************************************)
EXTENDS LedgerValidation

CONSTANTS
  Loads,        \* the conducts the operator may load
  MaxCommands,  \* bound: the operator's clicks; fewer when a file is there already
  MaxBatch,     \* bound: the ticks of one pump, and of one step command
  MaxRepeats,   \* bound: commands that are delivered again
  MaxPending    \* bound: commands on their way before the operator clicks

ASSUME WorkerAssumption ==
  /\ Loads \subseteq Conducts
  /\ {MaxBatch, MaxRepeats, MaxPending} \subseteq Nat /\ MaxCommands \in Nat \ {0, 1}

VARIABLES
  page,      \* WorkerClient and the ViewStore fields it keeps
  toWorker,  \* commands posted and not yet handled
  toPage,    \* responses posted and not yet handled
  gate,      \* CommandGate
  session,   \* WorkerSession
  host,      \* SimulationHost: the run and the imported file
  disk,      \* the last file that was downloaded
  clicks,    \* what the operator has done
  repeats    \* commands delivered again so far

vars == <<page, toWorker, toPage, gate, session, host, disk, clicks, repeats>>

PageStatuses == {"idle", "running", "paused", "complete", "importing", "replaying"}

TypeOK ==
  /\ page.status \in PageStatuses /\ page.verdict \in {"none", "match", "mismatch", "error"}
  /\ page.imported \in {"none", "ok", "refused"} /\ page.asked \subseteq Nat
  /\ {page.sent, page.expected, page.tick, page.total} \subseteq Nat /\ page.stamped \in BOOLEAN
  /\ session.status \in PageStatuses \ {"importing", "replaying"}
  /\ {session.sent, session.runSeq} \subseteq Nat /\ session.announced \in BOOLEAN
  /\ gate.last \in -1..page.sent /\ gate.seen \subseteq 1..page.sent
  /\ clicks \in 0..MaxCommands /\ repeats \in 0..MaxRepeats

\* What an earlier session left on disk: a complete run, of whose first two
\* requests at most one was answered, by a response or by a failure.
EarlierFiles ==
  LET Reply(req, choice) == [req |-> req, provider |-> "defers", rid |-> <<req, "gw">>,
                             choice |-> choice]
      Replies(req) == {<<>>} \cup {<<Reply(req, choice)>> : choice \in {"walk", None}}
      Ran(first, second) ==
        stepTicks([stepTicks([stepTicks(createRun("defers"), 1) EXCEPT !.inbox = first], 1)
                     EXCEPT !.inbox = second], EndTick)
  IN {buildLedgerFile(Ran(first, <<>>)) : first \in Replies(1)}
     \cup {buildLedgerFile(Ran(<<>>, second)) : second \in Replies(2)}

Init ==
  /\ \/ disk = None /\ clicks = 0 /\ repeats = 0
     \/ disk \in EarlierFiles /\ clicks \in {MaxCommands - 2, MaxCommands - 1}
        /\ repeats = MaxRepeats
  /\ page = [sent |-> 1, expected |-> 0, ready |-> FALSE, shown |-> FALSE, status |-> "idle",
             tick |-> 0, total |-> 0, stamped |-> FALSE, asked |-> {}, imported |-> "none",
             verdict |-> "none"]
  /\ toWorker = <<[type |-> "hello", seq |-> 1]>> /\ toPage = <<>>
  /\ gate = [last |-> -1, seen |-> {}]
  /\ session = [status |-> "idle", sent |-> 0, announced |-> FALSE, runSeq |-> 0]
  /\ host = [run |-> Absent, imported |-> None]

Quiet == toWorker = <<>> /\ toPage = <<>>
Loaded(h) == h.run # Absent
Terminal(h) == Loaded(h) /\ h.run.state.terminal

-----------------------------------------------------------------------------
(* What the worker posts after it did something                            *)

\* A step of the worker: its session and host after it, and what it posts.
Outcome(s, h, out) == [session |-> s, host |-> h, out |-> out]

\* syncTerminalStatus
syncTerminalStatus(o) == IF Terminal(o.host) THEN [o EXCEPT !.session.status = "complete"] ELSE o

\* pushSnapshot
pushSnapshot(o) ==
  IF Loaded(o.host)
  THEN [o EXCEPT !.out = Append(@, [type |-> "snapshot", status |-> o.session.status,
                                    tick |-> o.host.run.state.tick])]
  ELSE o

\* pushNewEvents: the message does not say of which run.
pushNewEvents(o) ==
  IF Len(o.host.run.log) = o.session.sent THEN o
  ELSE [o EXCEPT !.session.sent = Len(o.host.run.log),
                 !.out = Append(@, [type |-> "events", total |-> Len(o.host.run.log)])]

\* pushExternalDecisionRequests
pushExternalDecisionRequests(o) ==
  LET Forwarded(req) == [type |-> "decision-request", req |-> req, runSeq |-> o.session.runSeq]
  IN [o EXCEPT !.host.run.outbox = <<>>,
               !.out = @ \o [i \in DOMAIN o.host.run.outbox |-> Forwarded(o.host.run.outbox[i])]]

\* maybeAnnounceCompletion: once a run, when its hashes are there, and not of which.
maybeAnnounceCompletion(o) ==
  IF Terminal(o.host) /\ o.host.run.hashes # Absent /\ ~o.session.announced
  THEN [o EXCEPT !.session.announced = TRUE,
                 !.out = Append(@, [type |-> "run-complete"])]
  ELSE o

refreshAfterMutation(o) ==
  pushExternalDecisionRequests(pushNewEvents(pushSnapshot(syncTerminalStatus(o))))

\* afterTickBatch
afterTickBatch(o) == maybeAnnounceCompletion(refreshAfterMutation(o))

-----------------------------------------------------------------------------
(* What a command does: handleCommand                                      *)

Fresh(s) == [status |-> "idle", sent |-> 0, announced |-> FALSE, runSeq |-> s.runSeq + 1]

OnRun(h, run) == [h EXCEPT !.run = run]

\* load-scenario and reset: a new run, counted.
NewRun(s, h, conduct) ==
  refreshAfterMutation(Outcome(Fresh(s), OnRun(h, createRun(conduct)), <<>>))

\* Around an import and a replay the page sees a status of its own.
During(o, status, done) ==
  LET shown == pushSnapshot([o EXCEPT !.session.status = status])
  IN pushSnapshot([o EXCEPT !.out = shown.out \o <<done>>])

\* importLedger: a file that is refused changes nothing.
importLedger(h, file) ==
  IF validateLedgerFile(file) THEN [h EXCEPT !.imported = file] ELSE h

\* replay
replay(h, source) ==
  CASE source = "imported" /\ h.imported # None ->
         IF ReplayMatches(h.imported.events,
                          [world |-> h.imported.world, ledger |-> h.imported.ledger])
         THEN "match" ELSE "mismatch"
    [] source = "live" /\ Terminal(h) ->
         IF ReplayMatches(h.run.log, h.run.hashes) THEN "match" ELSE "mismatch"
    [] OTHER -> "error"

\* The commands that need a run throw without one: nothing changes.
NeedsRun == {"start", "pause", "resume", "step", "run-to-completion", "reset", "export-ledger",
             "submit-decision-response", "submit-decision-failure"}

Stepped(s, h, run) == afterTickBatch(Outcome(s, OnRun(h, run), <<>>))
Refreshed(s, h) == refreshAfterMutation(Outcome(s, h, <<>>))

handleCommand(s, h, c) ==
  CASE c.type = "hello" -> Outcome(s, h, <<[type |-> "ready"]>>)
    [] c.type = "load-scenario" -> NewRun(s, h, c.conduct)
    [] c.type \in NeedsRun /\ ~Loaded(h) -> Outcome(s, h, <<>>)
    [] c.type = "reset" /\ Loaded(h) -> NewRun(s, h, h.run.conduct)
    [] c.type = "start" /\ Loaded(h) ->
         IF Terminal(h) THEN Outcome(s, h, <<>>)
         ELSE pushSnapshot(Outcome([s EXCEPT !.status = "running"], h, <<>>))
    [] c.type = "pause" /\ Loaded(h) ->
         IF s.status # "running" THEN Refreshed(s, h)
         ELSE Refreshed([s EXCEPT !.status = "paused"],
                        OnRun(h, appendMarker(h.run, "SimulationPaused")))
    [] c.type = "resume" /\ Loaded(h) ->
         IF s.status # "paused" THEN Refreshed(s, h)
         ELSE Refreshed([s EXCEPT !.status = "running"],
                        OnRun(h, appendMarker(h.run, "SimulationResumed")))
    [] c.type = "step" /\ Loaded(h) ->
         IF s.status = "running" THEN Outcome(s, h, <<>>)
         ELSE Stepped(s, h, stepTicks(h.run, c.ticks))
    [] c.type = "run-to-completion" /\ Loaded(h) ->
         Stepped([s EXCEPT !.status = "complete"], h, stepTicks(h.run, EndTick + 1))
    [] c.type = "export-ledger" /\ Loaded(h) ->
         Outcome(s, h, IF Exportable(h.run)
                       THEN <<[type |-> "ledger-export", file |-> buildLedgerFile(h.run)]>>
                       ELSE <<>>)
    [] c.type = "import-ledger" ->
         LET after == importLedger(h, c.file)
             ok == after.imported = c.file /\ validateLedgerFile(c.file)
         IN During(Outcome(s, after, <<>>), "importing", [type |-> "import-result", ok |-> ok])
    [] c.type = "replay" ->
         During(Outcome(s, h, <<>>), "replaying",
                [type |-> "replay-result", verdict |-> replay(h, c.source)])
    [] c.type \in {"submit-decision-response", "submit-decision-failure"} /\ Loaded(h) ->
         IF Terminal(h) THEN Outcome(s, h, <<>>)
         ELSE Outcome(s, [h EXCEPT !.run.inbox = Append(@, c.answer)], <<>>)

-----------------------------------------------------------------------------
(* The worker's steps                                                      *)

\* Mutated form of Passes: whatever arrives is executed.
PassesAll(c) == TRUE
\* CommandGate.check
Passes(c) == c.seq \notin gate.seen /\ c.seq > gate.last

\* The worker has done something, and posts what it has to say.
Becomes(o) == session' = o.session /\ host' = o.host /\ toPage' = toPage \o o.out

\* onmessage, for a command the gate lets pass
Execute ==
  /\ toWorker # <<>> /\ Passes(Head(toWorker))
  /\ gate' = [last |-> Head(toWorker).seq, seen |-> gate.seen \cup {Head(toWorker).seq}]
  /\ Becomes(handleCommand(session, host, Head(toWorker)))
  /\ toWorker' = Tail(toWorker)
  /\ UNCHANGED <<page, disk, clicks, repeats>>

\* onmessage, for one it refuses
Refuse ==
  /\ toWorker # <<>> /\ ~Passes(Head(toWorker))
  /\ toWorker' = Tail(toWorker)
  /\ UNCHANGED <<page, toPage, gate, session, host, disk, clicks, repeats>>

\* The pacing timer, when it has budget for a tick
Pump ==
  /\ session.status = "running"
  /\ \E n \in 1..MaxBatch : Becomes(Stepped(session, host, stepTicks(host.run, n)))
  /\ UNCHANGED <<page, toWorker, gate, disk, clicks, repeats>>

-----------------------------------------------------------------------------
(* The page: what it sends                                                 *)

\* send: every command has the next number.
Sequenced(c, n) == [field \in DOMAIN c \cup {"seq"} |-> IF field = "seq" THEN n ELSE c[field]]

Post(p, c) ==
  /\ page' = [p EXCEPT !.sent = @ + 1]
  /\ toWorker' = Append(toWorker, Sequenced(c, p.sent + 1))

\* resetRunViews, onRunReset and the run the page now waits for
NewView(p) ==
  [p EXCEPT !.expected = @ + 1, !.total = 0, !.stamped = FALSE, !.asked = {}, !.verdict = "none"]

Click ==
  /\ clicks < MaxCommands /\ Len(toWorker) <= MaxPending
  /\ clicks' = clicks + 1
  /\ UNCHANGED <<toPage, gate, session, host, disk, repeats>>

\* loadScenario, from the scenario or the condition selector
LoadScenario ==
  /\ page.ready
  /\ \E conduct \in Loads : Post(NewView(page), [type |-> "load-scenario", conduct |-> conduct])
  /\ Click

\* reset: the button is never disabled, and before the first load the page waits for a
\* run the worker refuses to begin.
Reset ==
  /\ Post(NewView(page), [type |-> "reset"])
  /\ Click

Idling(p) == p.shown /\ p.status \notin {"running", "replaying", "complete"}

Start == Idling(page) /\ Post(page, [type |-> "start"]) /\ Click
Step ==
  /\ Idling(page)
  /\ \E n \in 1..MaxBatch : Post(page, [type |-> "step", ticks |-> n])
  /\ Click
Pause == page.status = "running" /\ Post(page, [type |-> "pause"]) /\ Click
Resume == page.status = "paused" /\ Post(page, [type |-> "resume"]) /\ Click
RunToCompletion == Post(page, [type |-> "run-to-completion"]) /\ Click
Export == page.status = "complete" /\ Post(page, [type |-> "export-ledger"]) /\ Click

Replay ==
  /\ \E source \in (IF page.status = "complete" THEN {"live"} ELSE {})
                   \cup (IF page.imported = "ok" THEN {"imported"} ELSE {}) :
       Post([page EXCEPT !.verdict = "none"], [type |-> "replay", source |-> source])
  /\ Click

\* importLedger: of what was downloaded, or of what somebody made of it.  An
\* edited file is tried before anything runs, and nothing is done after it.
Import ==
  /\ disk # None
  /\ \E file \in {disk} \cup (IF Quiet /\ page.sent = 2 /\ clicks = MaxCommands - 1
                               THEN Edited(disk) ELSE {}) :
       Post([page EXCEPT !.verdict = "none", !.imported = "none"],
            [type |-> "import-ledger", file |-> file])
  /\ Click

\* The gateway client has an answer to a request, or the reason for none.
Answer ==
  /\ \E req \in page.asked, choice \in {"walk", None} :
       Post([page EXCEPT !.asked = @ \ {req}],
            [type |-> IF choice = None THEN "submit-decision-failure"
                                       ELSE "submit-decision-response",
             answer |-> [req |-> req, provider |-> "defers", rid |-> <<req, "gw">>,
                         choice |-> choice]])
  /\ UNCHANGED <<toPage, gate, session, host, disk, clicks, repeats>>

-----------------------------------------------------------------------------
(* The page: what it is told                                               *)

Told(type) ==
  /\ toPage # <<>> /\ Head(toPage).type = type
  /\ toPage' = Tail(toPage)
  /\ UNCHANGED <<gate, session, host, clicks, repeats>>

\* The first ready loads the default scenario under the baseline.
Ready ==
  /\ Told("ready")
  /\ IF page.ready THEN UNCHANGED <<page, toWorker>>
     ELSE Post(NewView([page EXCEPT !.ready = TRUE]),
               [type |-> "load-scenario", conduct |-> "answers"])
  /\ UNCHANGED disk

ShowSnapshot ==
  /\ Told("snapshot")
  /\ page' = [page EXCEPT !.shown = TRUE, !.status = Head(toPage).status,
                          !.tick = Head(toPage).tick]
  /\ UNCHANGED <<toWorker, disk>>

appendEvents ==
  /\ Told("events")
  /\ page' = [page EXCEPT !.total = Head(toPage).total]
  /\ UNCHANGED <<toWorker, disk>>

\* A request of a run the page has left is dropped.
ForwardRequest ==
  /\ Told("decision-request")
  /\ page' = [page EXCEPT !.asked = IF Head(toPage).runSeq = page.expected
                                    THEN @ \cup {Head(toPage).req} ELSE @]
  /\ UNCHANGED <<toWorker, disk>>

StampCompletion ==
  /\ Told("run-complete")
  /\ page' = [page EXCEPT !.stamped = TRUE, !.status = "complete"]
  /\ UNCHANGED <<toWorker, disk>>

Download ==
  /\ Told("ledger-export")
  /\ disk' = Head(toPage).file
  /\ UNCHANGED <<page, toWorker>>

ShowImport ==
  /\ Told("import-result")
  /\ page' = [page EXCEPT !.imported = IF Head(toPage).ok THEN "ok" ELSE "refused"]
  /\ UNCHANGED <<toWorker, disk>>

ShowReplay ==
  /\ Told("replay-result")
  /\ page' = [page EXCEPT !.verdict = Head(toPage).verdict]
  /\ UNCHANGED <<toWorker, disk>>

-----------------------------------------------------------------------------
(* External: a command is delivered twice, the second time late.           *)

Redeliver ==
  /\ toWorker # <<>> /\ repeats < MaxRepeats
  /\ toWorker' = Append(toWorker, Head(toWorker)) /\ repeats' = repeats + 1
  /\ UNCHANGED <<page, toPage, gate, session, host, disk, clicks>>

Next ==
  \/ Execute \/ Refuse \/ Pump
  \/ LoadScenario \/ Reset \/ Start \/ Step \/ Pause \/ Resume \/ RunToCompletion
  \/ Export \/ Replay \/ Import \/ Answer
  \/ Ready \/ ShowSnapshot \/ appendEvents \/ ForwardRequest \/ StampCompletion
  \/ Download \/ ShowImport \/ ShowReplay
  \/ Redeliver

Spec == Init /\ [][Next]_vars

-----------------------------------------------------------------------------
(* Properties                                                              *)

\* A run that is over validates when its file is imported and replays to both
\* its hashes, whatever was paused, stepped, answered or expired on the way;
\* and a file that was once accepted replays to a match (host.ts exportLedger,
\* importLedger, replay).
RoundTrip ==
  /\ Terminal(host) => /\ validateLedgerFile(buildLedgerFile(host.run))
                       /\ replay(host, "live") = "match"
  /\ host.imported # None => replay(host, "imported") = "match"

SameStory(run, other) ==
  /\ Projection(run.log) = Projection(other.log)
  /\ WorldHash(run.state) = WorldHash(other.state)

\* Pausing, resuming and the size of a batch change no canonical event and
\* nothing of the world: the run is at every moment the one the same answers
\* give when nobody touches the controls (host.ts "never affect canonical
\* outcomes", simWorker.ts "never their outcome").
PausingChangesNothing == Loaded(host) => SameStory(host.run, Uninterrupted(host.run))

\* Every action started in a file the worker accepted can be traced to
\* somebody entitled to decide it, although anybody may have edited the file
\* and computed its hashes again (validateLedger.ts).
ImportedIsTraceable == host.imported # None => Traceable(host.imported.events)

\* When nothing is on its way the page shows the worker's run: its status, tick and
\* number of events, and a run that is over is stamped (commandProcessor.ts afterTickBatch,
\* workerClient.ts handleMessage).  Whether the page counts the runs as the worker does is
\* not said here: module ModelExchange shows how an early reset breaks that.
PageCatchesUp ==
  Quiet /\ page.ready =>
    /\ page.status = session.status /\ page.tick = host.run.state.tick
    /\ page.total = session.sent /\ session.sent = Len(host.run.log)
    /\ page.status = "complete" <=> Terminal(host)
    /\ Terminal(host) => page.stamped

\* A page that stamps the completion of its first run has had all of that run's events:
\* what is bundled then is whole (workerClient.ts runCompletedAtUtc, which gates the
\* export of the run bundle).  A later run may be stamped by a message of the run before,
\* as module ModelExchange shows.
StampedAfterLastEvent ==
  page.stamped /\ page.expected <= 1 => Terminal(host) /\ page.total = Len(host.run.log)

\* What the page shows, and what it stamps as complete, is the worker's run and all of
\* it (workerClient.ts, commandProcessor.ts).
PageShowsTheRun == TypeOK /\ PageCatchesUp /\ StampedAfterLastEvent
===============================================================================
