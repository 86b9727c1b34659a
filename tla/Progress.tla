------------------------------ MODULE Progress ------------------------------
(***************************************************************************)
(* What the followers of one workorder see of it: the relay that reads the *)
(* output of its container, the two broadcast channels it feeds, the       *)
(* WebSocket handler of every follower and the CLI at the other end, with  *)
(* the keys a follower types on their way back to the container.           *)
(*                                                                         *)
(* The task of the order takes the steps it takes in Workorders, in less   *)
(* detail: here they matter for what they send, store and close.           *)
(*                                                                         *)
(* A definition whose name ends in _<what> is a faulty variant of the one  *)
(* it precedes; no specification here uses it.                             *)
(***************************************************************************)
EXTENDS Integers, Sequences

CONSTANTS
    Followers,    \* CLI processes that follow the order
    Scenarios,    \* bounds taken together: the lines the container prints, the keys
                  \* a follower types, the network failures and whether somebody
                  \* cancels the order
    PipeCap,      \* output the attach stream holds before the container blocks
    EventCap,     \* capacity of the worker event channel (64)
    ProgressCap,  \* capacity of the progress broadcast (256)
    FrameCap,     \* frames a WebSocket holds before a send waits
    StdinCap,     \* capacity of the stdin channel (64)
    BuildTimeout  \* build_timeout_secs > 0

\* What a line is to the relay: a package that was built or has failed, other
\* text, or a line about a package that is too long for the 64 KiB of line_buf
\* and has lost its beginning.
Reports == {"built", "failed"}
Lines == Reports \cup {"text", "long"}

ASSUME ScenarioAssumption ==
    \A s \in Scenarios : s.lines \in Seq(Lines) /\ {s.keys, s.faults} \subseteq Nat
                          /\ s.cancel \in BOOLEAN
ASSUME CapAssumption ==
    /\ {PipeCap, EventCap, ProgressCap, FrameCap, StdinCap} \subseteq Nat \ {0}
    /\ ProgressCap > 1

VARIABLES
    status,    \* status of the order, "gone" once it is evicted
    result,    \* its entry in results, or NoResult
    task,      \* where process_workorder is
    listed,    \* the maps that hold a channel: "progress", "raw", "stdin"
    scenario,  \* the bounds of this behaviour
    printed,   \* how many of its lines the container has printed
    missed,    \* how many of them before the relay was attached
    container, \* "none", "running", "exit_ok" or "exit_bad"
    pipe,      \* lines in the attach stream
    log,       \* the relay task that reads it
    held,      \* the event the relay waits to send
    events,    \* the worker event channel
    collected, \* the events the task has taken from it
    sent,      \* everything sent on the progress broadcast
    handler,   \* the WebSocket handler of a follower
    frames,    \* frames on their way to the follower
    cli,       \* stream_progress of the follower
    keys,      \* keys on their way to the handler
    stdin,     \* the stdin channel and the forwarder that empties it
    input,     \* what the container has read from its terminal
    cancelling,\* a cancellation has yet to broadcast its change of status
    faults     \* network failures so far

relayVars == <<scenario, printed, missed, container, pipe, log, held, events, collected>>
wireVars == <<handler, frames, cli>>
keyVars == <<keys, stdin, input>>
miscVars == <<cancelling, faults>>
vars == <<status, result, task, listed, relayVars, sent, wireVars, keyVars,
          cancelling, faults>>

-----------------------------------------------------------------------------
\* A result lists built and failed packages: those of the collected events, the
\* package files on disk for the built ones, or all atoms of the order for the
\* failed ones.  Unbuilt is the one of a build that came to nothing.
NoResult == [events |-> <<>>, built |-> "none", failed |-> "none"]
Unbuilt == [events |-> <<>>, built |-> "none", failed |-> "atoms"]
Terminal == {"completed", "failed", "cancelled"}

script == scenario.lines

StatusEvent == [kind |-> "status", line |-> 0]
FinishedEvent == [kind |-> "finished", line |-> 0]
PackageEvent(i) == [kind |-> "package", line |-> i]
CloseFrame == [kind |-> "close", line |-> 0]

NoHandler == [at |-> "none", pos |-> 0, rawDone |-> FALSE]
NoStdin == [chan |-> <<>>, reader |-> FALSE]
NewFollower == [at |-> "new", saw |-> <<>>, early |-> FALSE, lagged |-> FALSE, why |-> "none"]

Init ==
    /\ status = "pending" /\ result = NoResult /\ task = "queued"
    /\ listed = {"progress", "raw"}
    /\ scenario \in Scenarios /\ printed = 0 /\ missed = 0 /\ container = "none" /\ pipe = <<>>
    /\ log = "none" /\ held = 0 /\ events = <<>> /\ collected = <<>>
    /\ sent = <<>>
    /\ handler = [f \in Followers |-> NoHandler]
    /\ frames = [f \in Followers |-> <<>>]
    /\ cli = [f \in Followers |-> NewFollower]
    /\ keys = [f \in Followers |-> [typed |-> 0, wire |-> <<>>]]
    /\ stdin = NoStdin /\ input = <<>>
    /\ cancelling = FALSE /\ faults = 0

\* A broadcast channel closes when its last sender is dropped: the one in the
\* map and the clone its task works with.
ProgressClosed == "progress" \notin listed /\ task \in {"queued", "claimed", "over"}
RawClosed == "raw" \notin listed /\ log \in {"none", "eof", "cut"}

-----------------------------------------------------------------------------
\* process_queue and process_workorder

\* The loop claims a pending order and broadcasts the change of its status.
Claim ==
    /\ task = "queued" /\ status = "pending"
    /\ status' = "provisioning" /\ task' = "claimed"
    /\ sent' = Append(sent, StatusEvent)
    /\ UNCHANGED <<result, listed, relayVars, wireVars, keyVars, miscVars>>

\* The task clones the sender of the progress channel, or finds none and stops.
TaskBegin ==
    /\ task = "claimed"
    /\ task' = IF "progress" \in listed THEN "image" ELSE "over"
    /\ UNCHANGED <<status, result, listed, relayVars, sent, wireVars, keyVars, miscVars>>

\* set_workorder_status overwrites the status of an order that is still there and
\* broadcasts the change.
SetStatus(new) ==
    IF status = "gone"
    THEN UNCHANGED <<status, sent>>
    ELSE status' = new /\ sent' = Append(sent, StatusEvent)

TaskBuilding ==
    /\ task = "image"
    /\ SetStatus("building") /\ task' = "start"
    /\ UNCHANGED <<result, listed, relayVars, wireVars, keyVars, miscVars>>

\* The image, the staging or the container fails before there is any output.
TaskFailsEarly ==
    /\ task \in {"image", "start"}
    /\ SetStatus("failed") /\ task' = "early_finish"
    /\ UNCHANGED <<result, listed, relayVars, wireVars, keyVars, miscVars>>

\* These paths broadcast Finished first ...
TaskEarlyFinish ==
    /\ task = "early_finish"
    /\ sent' = Append(sent, FinishedEvent) /\ task' = "early_store"
    /\ UNCHANGED <<status, result, listed, relayVars, wireVars, keyVars, miscVars>>

\* ... and store the result, which blames all atoms of the order, after it.
TaskEarlyStore ==
    /\ task = "early_store"
    /\ result' = Unbuilt /\ task' = "cleanup"
    /\ UNCHANGED <<status, listed, relayVars, sent, wireVars, keyVars, miscVars>>

\* The container runs, and prints to nobody yet.
TaskStart ==
    /\ task = "start"
    /\ container' = "running" /\ task' = "attach"
    /\ UNCHANGED <<status, result, listed, scenario, printed, missed, pipe, log, held, events,
                   collected, sent, wireVars, keyVars, miscVars>>

\* The raw sender is cloned for the relay, the stdin channel is created, and the
\* relay is spawned with the receiver of the channel.
TaskAttach ==
    /\ task = "attach" /\ "raw" \in listed
    /\ log' = "attaching" /\ task' = "wait"
    /\ listed' = listed \cup {"stdin"}
    /\ stdin' = [stdin EXCEPT !.reader = TRUE]
    /\ UNCHANGED <<status, result, scenario, printed, missed, container, pipe, held, events,
                   collected, sent, wireVars, keys, input, miscVars>>

\* Without a raw channel the task panics.
TaskPanic ==
    /\ task = "attach" /\ "raw" \notin listed
    /\ task' = "over"
    /\ UNCHANGED <<status, result, listed, relayVars, sent, wireVars, keyVars, miscVars>>

\* wait_container returns ...
TaskWait ==
    /\ task = "wait" /\ container \in {"exit_ok", "exit_bad"}
    /\ task' = "flush"
    /\ UNCHANGED <<status, result, listed, relayVars, sent, wireVars, keyVars, miscVars>>

TaskTimeout_waits ==
    /\ task = "wait" /\ BuildTimeout
    /\ container # "running"
    /\ container' = "exit_bad"
    /\ task' = "flush"
    /\ UNCHANGED <<status, result, listed, scenario, printed, missed, pipe, log, held, events,
                   collected, sent, wireVars, keyVars, miscVars>>

\* ... or build_timeout_secs pass first and the container is stopped ...
TaskTimeout ==
    /\ task = "wait" /\ BuildTimeout
    /\ container' = "exit_bad"
    /\ task' = "flush"
    /\ UNCHANGED <<status, result, listed, scenario, printed, missed, pipe, log, held, events,
                   collected, sent, wireVars, keyVars, miscVars>>

\* ... or the call fails, and the container is left alone.
TaskWaitError ==
    /\ task = "wait"
    /\ task' = "flush_failed"
    /\ UNCHANGED <<status, result, listed, relayVars, sent, wireVars, keyVars, miscVars>>

Flushing == task \in {"flush", "flush_failed"}

\* The relay gets five seconds to read on; then it is aborted. Either way its
\* clone of the raw sender is gone, and the raw channel leaves the map. The stdin
\* forwarder, which the relay spawns once it is attached, is not aborted with it.
TaskFlush ==
    /\ Flushing
    /\ log' = IF log = "eof" THEN "eof" ELSE "cut"
    /\ held' = 0 /\ pipe' = <<>>
    /\ listed' = listed \ {"raw"}
    /\ stdin' = IF log = "attaching" THEN NoStdin ELSE stdin
    /\ task' = IF task = "flush" /\ container = "exit_ok" THEN "drain_ok" ELSE "drain_bad"
    /\ UNCHANGED <<status, result, scenario, printed, missed, container, events, collected,
                   sent, wireVars, keys, input, miscVars>>

\* The events in the channel are taken and broadcast, all of them at last.
TaskDrain ==
    /\ task \in {"drain_ok", "drain_bad"}
    /\ collected' = events /\ events' = <<>>
    /\ sent' = sent \o [i \in DOMAIN events |-> PackageEvent(events[i])]
    /\ task' = IF task = "drain_ok" THEN "settle_ok" ELSE "settle_bad"
    /\ UNCHANGED <<status, result, listed, scenario, printed, missed, container, pipe, log, held,
                   wireVars, keyVars, miscVars>>

\* The exit code decides on the status, unless the parity files or distfiles of
\* the build cannot be ingested: that fails the order.
TaskSettle ==
    /\ task \in {"settle_ok", "settle_bad"}
    /\ \E ingested \in BOOLEAN :
          /\ SetStatus(IF task = "settle_ok" /\ ingested THEN "completed" ELSE "failed")
          /\ task' = IF ~ingested THEN "store_none"
                     ELSE IF task = "settle_ok" THEN "store_ok" ELSE "store_bad"
    /\ UNCHANGED <<result, listed, relayVars, wireVars, keyVars, miscVars>>

\* The built packages of a successful build are the files that scan_packages finds
\* for the atoms of the order and of the events, unless it finds none or fails;
\* the failed ones of another build are all atoms when no event reports one.
NoneFailed(evs) == \A i \in DOMAIN evs : script[evs[i]] # "failed"
Report(outcome) ==
    CASE outcome = "store_none" -> {Unbuilt}
      [] outcome = "store_ok" ->
           {[events |-> collected, built |-> b, failed |-> "events"] : b \in {"files", "events"}}
      [] outcome = "store_bad" ->
           {[events |-> collected, built |-> "events",
             failed |-> IF NoneFailed(collected) THEN "atoms" ELSE "events"]}

TaskStore_noResult ==
    /\ task \in {"store_ok", "store_bad", "store_none"}
    /\ result' \in (IF task = "store_ok" THEN Report(task) ELSE {result})
    /\ collected' = <<>> /\ task' = "finish"
    /\ UNCHANGED <<status, listed, scenario, printed, missed, container, pipe, log, held, events,
                   sent, wireVars, keyVars, miscVars>>

TaskStore ==
    /\ task \in {"store_ok", "store_bad", "store_none"}
    /\ result' \in Report(task) /\ collected' = <<>> /\ task' = "finish"
    /\ UNCHANGED <<status, listed, scenario, printed, missed, container, pipe, log, held, events,
                   sent, wireVars, keyVars, miscVars>>

TaskFinish ==
    /\ task = "finish"
    /\ sent' = Append(sent, FinishedEvent) /\ task' = "cleanup"
    /\ UNCHANGED <<status, result, listed, relayVars, wireVars, keyVars, miscVars>>

\* remove_workorder_channels; then the container is removed.
TaskCleanup ==
    /\ task = "cleanup"
    /\ listed' = {} /\ task' = "over"
    /\ container' = IF container = "none" THEN "none" ELSE "exit_bad"
    /\ UNCHANGED <<status, result, scenario, printed, missed, pipe, log, held, events, collected,
                   sent, wireVars, keyVars, miscVars>>

-----------------------------------------------------------------------------
\* cancel_workorder and evict_workorders

\* The status changes under the lock; the container of a building order is told
\* to stop once container_ids has it, and its task goes through the steps above.
CancelMark ==
    /\ scenario.cancel /\ ~cancelling /\ status \in {"pending", "provisioning", "building"}
    /\ status' = "cancelled" /\ cancelling' = TRUE
    /\ \/ container' = IF status = "building" /\ container = "running" THEN "exit_bad"
                       ELSE container
       \/ task = "attach" /\ container' = container
    /\ UNCHANGED <<result, task, listed, scenario, printed, missed, pipe, log, held, events,
                   collected, sent, wireVars, keyVars, faults>>

\* The change is broadcast after the lock is released. Nothing broadcasts Finished
\* for an order that was still pending.
CancelSend ==
    /\ cancelling /\ cancelling' = FALSE
    /\ sent' = IF "progress" \in listed THEN Append(sent, StatusEvent) ELSE sent
    /\ UNCHANGED <<status, result, task, listed, relayVars, wireVars, keyVars,
                   faults>>

Evict_keepsChannel ==
    /\ status \in Terminal
    /\ status' = "gone" /\ result' = NoResult
    /\ listed' = listed \ {"raw", "stdin"}
    /\ UNCHANGED <<task, relayVars, sent, wireVars, keyVars, miscVars>>

\* The order is past its retention: it goes, with its result and its channels.
Evict ==
    /\ status \in Terminal
    /\ status' = "gone" /\ result' = NoResult /\ listed' = {}
    /\ UNCHANGED <<task, relayVars, sent, wireVars, keyVars, miscVars>>

-----------------------------------------------------------------------------
\* The container and the relay that reads its output

Attached == log \in {"reading", "sending"}

\* Docker: a line goes into the attach stream, which blocks the container while
\* it is full; what a container prints that nobody is attached to is not sent to
\* anybody later (attach_container asks for no logs).
ContainerPrint ==
    /\ container = "running" /\ printed < Len(script)
    /\ Attached => Len(pipe) < PipeCap
    /\ printed' = printed + 1
    /\ pipe' = IF Attached THEN Append(pipe, printed + 1) ELSE pipe
    /\ UNCHANGED <<status, result, task, listed, scenario, missed, container, log, held, events,
                   collected, sent, wireVars, keyVars, miscVars>>

ContainerExit ==
    /\ container = "running" /\ printed = Len(script)
    /\ container' \in {"exit_ok", "exit_bad"}
    /\ UNCHANGED <<status, result, task, listed, scenario, printed, missed, pipe, log, held, events,
                   collected, sent, wireVars, keyVars, miscVars>>

\* The relay is attached, or cannot attach: then it returns and drops its end of
\* the stdin channel.
LogAttach ==
    /\ log = "attaching"
    /\ \/ log' = "reading" /\ missed' = printed /\ stdin' = stdin
       \/ log' = "cut" /\ missed' = missed /\ stdin' = NoStdin
    /\ UNCHANGED <<status, result, task, listed, scenario, printed, container, pipe, held,
                   events, collected, sent, wireVars, keys, input, miscVars>>

\* A chunk is read, and broadcast on the raw channel as it is; a line that reports
\* a package becomes an event for the channel.
LogRead ==
    /\ log = "reading" /\ pipe # <<>>
    /\ pipe' = Tail(pipe)
    /\ IF script[Head(pipe)] \in Reports
       THEN held' = Head(pipe) /\ log' = "sending"
       ELSE UNCHANGED <<held, log>>
    /\ UNCHANGED <<status, result, task, listed, scenario, printed, missed, container, events,
                   collected, sent, wireVars, keyVars, miscVars>>

LogSend_dropsWhenFull ==
    /\ log = "sending"
    /\ events' = IF Len(events) < EventCap THEN Append(events, held) ELSE events
    /\ held' = 0 /\ log' = "reading"
    /\ UNCHANGED <<status, result, task, listed, scenario, printed, missed, container, pipe,
                   collected, sent, wireVars, keyVars, miscVars>>

\* event_tx.send waits for room, which only TaskDrain makes.
LogSend ==
    /\ log = "sending" /\ Len(events) < EventCap
    /\ events' = Append(events, held)
    /\ held' = 0 /\ log' = "reading"
    /\ UNCHANGED <<status, result, task, listed, scenario, printed, missed, container, pipe,
                   collected, sent, wireVars, keyVars, miscVars>>

\* The stream ends with the container, or breaks. The stdin forwarder is aborted.
LogEnd ==
    /\ log = "reading"
    /\ \/ pipe = <<>> /\ container # "running" /\ log' = "eof"
       \/ log' = "cut"
    /\ stdin' = NoStdin
    /\ UNCHANGED <<status, result, task, listed, scenario, printed, missed, container, pipe, held,
                   events, collected, sent, wireVars, keys, input, miscVars>>

-----------------------------------------------------------------------------
\* ws_progress and handle_ws

\* The upgrade finds the progress channel, or the follower gets a 404 ...
Subscribe(f) ==
    /\ cli[f].at = "new"
    /\ IF "progress" \in listed
       THEN /\ handler' = [handler EXCEPT ![f].at = "opening", ![f].pos = Len(sent)]
            /\ cli' = [cli EXCEPT ![f].at = "stream",
                                  ![f].early = \A i \in DOMAIN sent : sent[i].kind = "status"]
       ELSE /\ cli' = [cli EXCEPT ![f].at = "error", ![f].why = "not_found"]
            /\ handler' = handler
    /\ UNCHANGED <<status, result, task, listed, relayVars, sent, frames, keyVars,
                   miscVars>>

\* ... and subscribes to the raw channel if that is there still.
SubscribeRaw(f) ==
    /\ handler[f].at = "opening"
    /\ handler' = [handler EXCEPT ![f].at = "run", ![f].rawDone = "raw" \notin listed]
    /\ UNCHANGED <<status, result, task, listed, relayVars, sent, frames, cli, keyVars,
                   miscVars>>

Ready(f) == handler[f].at = "run" /\ Len(frames[f]) < FrameCap

\* A receiver that fell behind by more than the capacity goes on at the oldest
\* message the channel still has.
Lagged(pos, len, cap) == len - pos > cap

HandlerRawClosed_resubscribes(f) ==
    /\ Ready(f) /\ ~handler[f].rawDone /\ RawClosed
    /\ handler' = [handler EXCEPT ![f].rawDone = TRUE, ![f].pos = Len(sent)]
    /\ UNCHANGED <<status, result, task, listed, relayVars, sent, frames, cli, keyVars,
                   miscVars>>

HandlerRawClosed(f) ==
    /\ Ready(f) /\ ~handler[f].rawDone /\ RawClosed
    /\ handler' = [handler EXCEPT ![f].rawDone = TRUE]
    /\ UNCHANGED <<status, result, task, listed, relayVars, sent, frames, cli, keyVars,
                   miscVars>>

\* The select is biased: an event waits until raw output has been forwarded, which
\* takes a while, or until the end of the raw channel has been noticed.
RawQuiet(f) == handler[f].rawDone \/ ~RawClosed

HandlerLagged_toEnd(f) ==
    /\ Ready(f) /\ RawQuiet(f) /\ Lagged(handler[f].pos, Len(sent), ProgressCap)
    /\ handler' = [handler EXCEPT ![f].pos = Len(sent)]
    /\ cli' = [cli EXCEPT ![f].lagged = TRUE]
    /\ UNCHANGED <<status, result, task, listed, relayVars, sent, frames, keyVars,
                   miscVars>>

HandlerLagged(f) ==
    /\ Ready(f) /\ RawQuiet(f) /\ Lagged(handler[f].pos, Len(sent), ProgressCap)
    /\ handler' = [handler EXCEPT ![f].pos = Len(sent) - ProgressCap]
    /\ cli' = [cli EXCEPT ![f].lagged = TRUE]
    /\ UNCHANGED <<status, result, task, listed, relayVars, sent, frames, keyVars,
                   miscVars>>

\* An event is forwarded; Finished is followed by a Close frame and ends the
\* handler, which then drops its keys.
HandlerEvent(f) ==
    /\ Ready(f) /\ RawQuiet(f) /\ handler[f].pos < Len(sent)
    /\ ~Lagged(handler[f].pos, Len(sent), ProgressCap)
    /\ LET event == sent[handler[f].pos + 1]
           last == event = FinishedEvent
       IN  /\ frames' = [frames EXCEPT ![f] = @ \o (IF last THEN <<event, CloseFrame>>
                                                             ELSE <<event>>)]
           /\ handler' = [handler EXCEPT ![f].pos = @ + 1,
                                         ![f].at = IF last THEN "closed" ELSE @]
    /\ UNCHANGED <<status, result, task, listed, relayVars, sent, cli, keyVars, miscVars>>

HandlerClosed(f) ==
    /\ Ready(f) /\ RawQuiet(f) /\ handler[f].pos = Len(sent) /\ ProgressClosed
    /\ frames' = [frames EXCEPT ![f] = Append(@, CloseFrame)]
    /\ handler' = [handler EXCEPT ![f].at = "closed"]
    /\ UNCHANGED <<status, result, task, listed, relayVars, sent, cli, keyVars, miscVars>>

-----------------------------------------------------------------------------
\* stream_progress and await_result_ready

\* The follower is done: its connection goes with it.
EndCli(f, how, reason) ==
    /\ cli' = [cli EXCEPT ![f].at = how, ![f].why = reason,
                          ![f].saw = IF how = "error" THEN <<>> ELSE @]
    /\ handler' = [handler EXCEPT ![f] = [NoHandler EXCEPT !.at = "closed"]]
    /\ frames' = [frames EXCEPT ![f] = <<>>]
    /\ keys' = [keys EXCEPT ![f].wire = <<>>]

CliFrame(f) ==
    /\ cli[f].at = "stream" /\ frames[f] # <<>>
    /\ LET frame == Head(frames[f])
       IN  /\ frames' = [frames EXCEPT ![f] = Tail(@)]
           /\ cli' = [cli EXCEPT
                 ![f].at = IF frame \in {FinishedEvent, CloseFrame} THEN "await" ELSE @,
                 ![f].why = IF frame.kind \in {"finished", "close"} THEN frame.kind ELSE @,
                 ![f].saw = IF frame.kind = "package" THEN Append(@, frame.line) ELSE @]
    /\ UNCHANGED <<status, result, task, listed, relayVars, sent, handler, keyVars,
                   miscVars>>

\* Every 200 ms the CLI asks for the result; an answer without one, a 404 or any
\* other error is ignored.
CliPoll(f) ==
    /\ cli[f].at = "stream" /\ status # "gone" /\ result # NoResult
    /\ EndCli(f, "result", "poll")
    /\ UNCHANGED <<status, result, task, listed, relayVars, sent, stdin, input, miscVars>>

\* Once the stream has ended the first answer that has a result counts, and so
\* does the first error.
CliAwait(f) ==
    /\ cli[f].at = "await"
    /\ \/ status # "gone" /\ result # NoResult /\ EndCli(f, "result", cli[f].why)
       \/ status = "gone" /\ EndCli(f, "error", "not_found")
    /\ UNCHANGED <<status, result, task, listed, relayVars, sent, stdin, input, miscVars>>

\* Five seconds pass without a result. They are long enough for a task that has
\* just broadcast Finished to store it.
CliAwaitTimeout(f) ==
    /\ cli[f].at = "await" /\ status # "gone" /\ result = NoResult
    /\ task # "early_store"
    /\ EndCli(f, "error", "no_result")
    /\ UNCHANGED <<status, result, task, listed, relayVars, sent, stdin, input, miscVars>>

\* The network fails: the WebSocket breaks, with an error or as if it had ended,
\* or a request for the result fails.
NetworkFails(f) ==
    /\ cli[f].at \in {"stream", "await"} /\ faults < scenario.faults
    /\ faults' = faults + 1
    /\ \/ EndCli(f, "error", "network")
       \/ cli[f].at = "stream" /\ EndCli(f, "await", "broken")
    /\ UNCHANGED <<status, result, task, listed, relayVars, sent, stdin, input, cancelling>>

-----------------------------------------------------------------------------
\* Keys from the follower's terminal

Type(f) ==
    /\ cli[f].at = "stream" /\ keys[f].typed < scenario.keys
    /\ keys' = [keys EXCEPT ![f].typed = @ + 1,
                            ![f].wire = Append(@, keys[f].typed + 1)]
    /\ UNCHANGED <<status, result, task, listed, relayVars, sent, wireVars, stdin, input,
                   miscVars>>

KeyForward_dropsWhenFull(f) ==
    /\ handler[f].at = "run" /\ keys[f].wire # <<>> /\ "stdin" \in listed
    /\ stdin' = IF stdin.reader /\ Len(stdin.chan) < StdinCap
                THEN [stdin EXCEPT !.chan = Append(@, <<f, Head(keys[f].wire)>>)]
                ELSE stdin
    /\ keys' = [keys EXCEPT ![f].wire = Tail(@)]
    /\ UNCHANGED <<status, result, task, listed, relayVars, sent, wireVars, input,
                   miscVars>>

\* The handler looks the stdin channel up for every message and waits for room in
\* it; a channel without a reader swallows the message.
KeyForward(f) ==
    /\ handler[f].at = "run" /\ keys[f].wire # <<>> /\ "stdin" \in listed
    /\ stdin.reader => Len(stdin.chan) < StdinCap
    /\ stdin' = IF stdin.reader
                THEN [stdin EXCEPT !.chan = Append(@, <<f, Head(keys[f].wire)>>)]
                ELSE stdin
    /\ keys' = [keys EXCEPT ![f].wire = Tail(@)]
    /\ UNCHANGED <<status, result, task, listed, relayVars, sent, wireVars, input,
                   miscVars>>

\* Fifty lookups in five seconds find no channel.
KeyGiveUp(f) ==
    /\ handler[f].at = "run" /\ keys[f].wire # <<>> /\ "stdin" \notin listed
    /\ keys' = [keys EXCEPT ![f].wire = Tail(@)]
    /\ UNCHANGED <<status, result, task, listed, relayVars, sent, wireVars, stdin, input,
                   miscVars>>

\* The forwarder writes to the terminal of the container, and ends when it cannot.
StdinWrite ==
    /\ stdin.reader /\ log # "attaching" /\ stdin.chan # <<>>
    /\ IF container = "running"
       THEN /\ input' = Append(input, Head(stdin.chan))
            /\ stdin' = [stdin EXCEPT !.chan = Tail(@)]
       ELSE input' = input /\ stdin' = NoStdin
    /\ UNCHANGED <<status, result, task, listed, relayVars, sent, wireVars, keys,
                   miscVars>>

\* Without a sender in the map it ends as well, once the channel is empty.
StdinEnd ==
    /\ stdin.reader /\ log # "attaching" /\ stdin.chan = <<>> /\ "stdin" \notin listed
    /\ stdin' = NoStdin
    /\ UNCHANGED <<status, result, task, listed, relayVars, sent, wireVars, keys, input,
                   miscVars>>

-----------------------------------------------------------------------------
\* The steps the task takes without waiting for anything outside it.
TaskStep ==
    \/ TaskBegin \/ TaskBuilding \/ TaskFailsEarly \/ TaskEarlyFinish \/ TaskEarlyStore
    \/ TaskStart \/ TaskAttach \/ TaskPanic \/ TaskFlush \/ TaskDrain \/ TaskSettle \/ TaskStore
    \/ TaskFinish \/ TaskCleanup

HandlerStep(f) ==
    \/ SubscribeRaw(f) \/ HandlerRawClosed(f)
    \/ HandlerLagged(f) \/ HandlerEvent(f) \/ HandlerClosed(f)

Ended(f) == cli[f].at \in {"result", "error"}

\* Nothing is left to do.
Terminated ==
    /\ task \in {"queued", "over"} /\ \A f \in Followers : Ended(f)
    /\ UNCHANGED vars

Next ==
    \/ Claim \/ TaskStep \/ TaskWait \/ TaskTimeout \/ TaskWaitError
    \/ CancelMark \/ CancelSend \/ Evict
    \/ ContainerPrint \/ ContainerExit \/ LogAttach \/ LogRead \/ LogSend \/ LogEnd
    \/ StdinWrite \/ StdinEnd
    \/ \E f \in Followers :
          \/ Subscribe(f) \/ HandlerStep(f)
          \/ CliFrame(f) \/ CliPoll(f) \/ CliAwait(f) \/ CliAwaitTimeout(f) \/ NetworkFails(f)
          \/ Type(f) \/ KeyForward(f) \/ KeyGiveUp(f)
    \/ Terminated

Spec == Init /\ [][Next]_vars

\* The server's tasks, its eviction pass, the timers and a running CLI move on;
\* the container and the network owe nobody anything.
Fairness ==
    /\ WF_vars(Claim) /\ WF_vars(TaskStep) /\ WF_vars(TaskWait) /\ WF_vars(TaskTimeout)
    /\ WF_vars(Evict)
    /\ \A f \in Followers :
          /\ WF_vars(HandlerStep(f)) /\ WF_vars(CliFrame(f)) /\ WF_vars(CliPoll(f))
          /\ WF_vars(CliAwait(f) \/ CliAwaitTimeout(f))

FairSpec == Spec /\ Fairness

-----------------------------------------------------------------------------
\* Properties

Frame == [kind : {"status", "finished", "package", "close"}, line : Nat]
TypeOK ==
    /\ status \in {"pending", "provisioning", "building", "gone"} \cup Terminal
    /\ task \in {"queued", "claimed", "image", "start", "early_finish", "early_store", "attach",
                 "wait", "flush", "flush_failed", "drain_ok", "drain_bad", "settle_ok", "settle_bad",
                 "store_ok", "store_bad", "store_none", "finish", "cleanup", "over"}
    /\ result \in [events : Seq(Nat), built : {"events", "files", "none"},
                   failed : {"events", "atoms", "none"}]
    /\ listed \subseteq {"progress", "raw", "stdin"}
    /\ scenario \in Scenarios /\ printed \in 0 .. Len(script) /\ missed \in 0 .. printed
    /\ container \in {"none", "running", "exit_ok", "exit_bad"}
    /\ log \in {"none", "attaching", "reading", "sending", "eof", "cut"}
    /\ held \in Nat /\ (held # 0 <=> log = "sending")
    /\ pipe \in Seq(Nat \ {0}) /\ Len(pipe) <= PipeCap
    /\ events \in Seq(Nat \ {0}) /\ Len(events) <= EventCap
    /\ collected \in Seq(Nat \ {0}) /\ sent \in Seq(Frame)
    /\ handler \in [Followers -> [at : {"none", "opening", "run", "closed"}, pos : Nat,
                                  rawDone : BOOLEAN]]
    /\ frames \in [Followers -> Seq(Frame)]
    /\ cli \in [Followers -> [at : {"new", "stream", "await", "result", "error"}, saw : Seq(Nat),
                              early : BOOLEAN, lagged : BOOLEAN,
                              why : {"none", "finished", "close", "poll", "broken", "network",
                                     "not_found", "no_result"}]]
    /\ keys \in [Followers -> [typed : Nat, wire : Seq(Nat)]]
    /\ stdin \in [chan : Seq(Followers \X Nat), reader : BOOLEAN] /\ Len(stdin.chan) <= StdinCap
    /\ input \in Seq(Followers \X Nat)
    /\ cancelling \in BOOLEAN /\ faults \in Nat

\* What the task collects are the package lines that the relay keeps whole and that
\* the container printed after the relay was attached, in order and up to some line
\* all of them; all there are when the relay came to the end of the output (the
\* relay waits for room in the event channel instead of dropping an event).
Elems(s) == {s[i] : i \in DOMAIN s}
Increasing(s) == \A i, j \in DOMAIN s : i < j => s[i] < s[j]
PackageLines(n) == {i \in missed + 1 .. n : script[i] \in Reports}
CollectedExact ==
    task \in {"settle_ok", "settle_bad"} =>
        /\ Increasing(collected)
        /\ \E n \in missed .. printed : Elems(collected) = PackageLines(n)
        /\ log = "eof" => Elems(collected) = PackageLines(printed)

\* Once Finished is on the progress channel, a handler that was subscribed before
\* does not close without forwarding it, however far it lagged behind (queue.rs:
\* "is guaranteed to pick up the Finished event on the progress channel").
FinishedPickedUp ==
    \A f \in Followers :
        cli[f].at \in {"await", "result"} /\ cli[f].why = "close" /\ cli[f].early =>
            \A i \in DOMAIN sent : sent[i] # FinishedEvent

\* A follower that was there before the first package event, never lagged and
\* left on Finished has seen, in order, every event that the result it fetches
\* takes packages from, and the result blames all atoms only if no event it has
\* seen reports a failed package; both unless the output could not be ingested.
\* Of the files that a successful build lists instead it need not have heard.
FollowerSawResult ==
    \A f \in Followers :
        (/\ cli[f].at = "result" /\ cli[f].why = "finished" /\ ~cli[f].lagged
         /\ cli[f].early /\ result \notin {NoResult, Unbuilt})
            => /\ result.events = cli[f].saw
               /\ result.failed = "atoms" => NoneFailed(cli[f].saw)

\* While the network works, a follower fails only because the order's channels
\* were gone before it connected or the order was evicted; in particular it never
\* runs out of time waiting for a result after the stream has ended.
ErrorExcused ==
    \A f \in Followers :
        cli[f].at = "error" /\ faults = 0 => cli[f].why = "not_found" /\ "progress" \notin listed

\* As long as the container is attached and the follower connected, the keys that
\* have reached the stdin channel or the container and those still on their way
\* are the last ones typed, in order and without a gap: a key is only ever lost
\* before the first that gets through.
Through == input \o stdin.chan
Of(f, queue) == {i \in DOMAIN queue : queue[i][1] = f}
InputContiguous ==
    \A f \in Followers :
        stdin.reader /\ "stdin" \in listed /\ handler[f].at = "run" =>
            LET last == keys[f].typed - Len(keys[f].wire)
            IN  /\ \A i \in DOMAIN keys[f].wire : keys[f].wire[i] = last + i
                /\ \A i, j \in Of(f, Through) : i < j => Through[i][2] < Through[j][2]
                /\ \E n \in 1 .. last + 1 : {Through[i][2] : i \in Of(f, Through)} = n .. last

\* Under a build timeout every build ends, even one whose relay waits for room in
\* the event channel while the container waits for the relay to read.
BuildEnds == task = "wait" ~> task = "over"

\* Nobody follows for ever: a follower that is connected gets a result or an
\* error, for a cancelled order that never broadcasts Finished when it is evicted.
FollowersEnd == \A f \in Followers : cli[f].at = "stream" ~> Ended(f)

=============================================================================
