--------------------------- MODULE ProgressProofs ---------------------------
(***************************************************************************)
(* What a follower sees, what it types and what the task collects, for     *)
(* every number of followers, any output, any capacities and any faults.   *)
(***************************************************************************)
EXTENDS Progress, TLAPS

(***************************************************************************)
(* The relay.  The lines in the attach stream are the last ones printed;   *)
(* the events are the package lines before them, but for those printed     *)
(* before the relay was attached.                                          *)
(***************************************************************************)
Before == {"queued", "claimed", "image", "start", "early_finish", "early_store", "attach"}
Collecting == {"wait", "flush", "flush_failed", "drain_ok", "drain_bad"}
Settling == {"settle_ok", "settle_bad"}
Storing == {"store_ok", "store_bad", "store_none"}

ExactIn(lines, m, s, n) == Increasing(s) /\ Elems(s) = {i \in m + 1 .. n : lines[i] \in Reports}
Exact(s, n) == ExactIn(script, missed, s, n)
Partial(s) == \E n \in missed .. printed : Exact(s, n)
Read == printed - Len(pipe)

RelayInv ==
    /\ task \in Before => log = "none"
    /\ log \in {"none", "attaching"} => missed = 0 /\ pipe = <<>> /\ events = <<>>
    /\ log = "eof" => container # "running"
    /\ task \in {"drain_ok", "drain_bad"} \cup Settling => log \in {"eof", "cut"}
    /\ log \in {"reading", "sending"} => /\ Read >= missed
                                         /\ \A i \in 1 .. Len(pipe) : pipe[i] = Read + i
    /\ task \in Collecting =>
        /\ log # "none"
        /\ log = "reading" => Exact(events, Read)
        /\ log = "sending" => /\ held = Read /\ script[held] \in Reports /\ Read > missed
                              /\ Exact(events, Read - 1)
        /\ log = "eof" => Exact(events, printed)
        /\ log = "cut" => Partial(events)
    /\ task \in Settling => /\ log = "eof" => Exact(collected, printed)
                            /\ Partial(collected)

(***************************************************************************)
(* The order: its channels are there until it is over or evicted, and its  *)
(* result from the broadcast of Finished on, but for the early failures.   *)
(***************************************************************************)
Cancellable == {"pending", "provisioning", "building"}
HasResult == status = "gone" \/ result # NoResult
Finished == \E i \in DOMAIN sent : sent[i] = FinishedEvent

PhaseInv ==
    /\ status = "gone" => listed \cap {"progress", "raw"} = {}
    /\ "progress" \notin listed => status = "gone" \/ task = "over"
    /\ "raw" \notin listed /\ task \in Before => status = "gone"
    /\ task \in {"finish", "cleanup", "over"} => HasResult
    /\ task \in {"early_finish", "early_store", "finish", "cleanup", "over"} \cup Storing =>
          status \notin Cancellable
SentInv ==
    /\ Finished => task \in {"early_store", "cleanup", "over"}
    /\ \A i \in DOMAIN sent : sent[i] # CloseFrame
    /\ \A i \in DOMAIN sent : sent[i] = FinishedEvent =>
          i = Len(sent) \/ (i = Len(sent) - 1 /\ ~cancelling)

OrderInv == PhaseInv /\ SentInv

(***************************************************************************)
(* The stream of a follower: a handler that has not closed it has put      *)
(* neither Finished nor Close into it; one that has closed it ended with   *)
(* Finished, or found the channel closed with nothing left in it.          *)
(***************************************************************************)
Ends == {FinishedEvent, CloseFrame}
Shut(f) == ProgressClosed /\ (cli[f].early => ~Finished)

StreamOpen(f) ==
    /\ handler[f].at \in {"opening", "run"}
    /\ \A i \in DOMAIN frames[f] : frames[f][i] \notin Ends
    /\ cli[f].early => \A i \in 1 .. handler[f].pos : sent[i] # FinishedEvent
StreamClosing(f) ==
    LET n == Len(frames[f]) IN
    /\ handler[f].at = "closed" /\ n > 0 /\ frames[f][n] = CloseFrame
    /\ \/ /\ n > 1 /\ frames[f][n - 1] = FinishedEvent /\ Finished
          /\ \A i \in 1 .. n - 2 : frames[f][i] \notin Ends
       \/ /\ \A i \in 1 .. n - 1 : frames[f][i] \notin Ends
          /\ Shut(f)

FollowOne(f) ==
    /\ handler[f].pos <= Len(sent)
    /\ cli[f].at = "new" => handler[f] = NoHandler /\ frames[f] = <<>>
    /\ cli[f].at = "stream" => StreamOpen(f) \/ StreamClosing(f)
    /\ cli[f].at # "stream" => handler[f].at \in {"none", "closed"}
    /\ cli[f].at = "await" => /\ cli[f].why \in {"finished", "close", "broken"}
                              /\ cli[f].why = "broken" => faults > 0
    /\ cli[f].at \in {"await", "result"} /\ cli[f].why = "finished" => Finished
    /\ cli[f].at \in {"await", "result"} /\ cli[f].why = "close" => Shut(f)
    /\ cli[f].at = "error" /\ faults = 0 => cli[f].why = "not_found" /\ "progress" \notin listed

FollowInv == \A f \in Followers : FollowOne(f)

(***************************************************************************)
(* The package events on the progress channel are evs, one after another   *)
(* behind the first d events; a follower that was there before them and    *)
(* never lagged has seen the first of them, in order.                      *)
(***************************************************************************)
Taken(f) == Len(frames[f]) - (IF handler[f].at = "closed" THEN 1 ELSE 0)
Shown(f) == handler[f].pos - Taken(f)
Follows(f) == cli[f].early /\ ~cli[f].lagged

\* The result is none, one of a build that came to nothing, or made from evs.
MadeFrom(res, evs) == res.events = evs /\ (res.failed = "atoms" => NoneFailed(evs))
Reported(evs) == result \in {NoResult, Unbuilt} \/ MadeFrom(result, evs)

Broadcast(d, evs) ==
    /\ d + Len(evs) <= Len(sent)
    /\ \A i \in 1 .. Len(evs) : sent[d + i] = PackageEvent(evs[i])
    /\ \A i \in DOMAIN sent : sent[i].kind = "package" => i > d /\ i <= d + Len(evs)
    /\ \A i \in DOMAIN sent : sent[i] = FinishedEvent => i > d + Len(evs)
    /\ task \in Before \cup Collecting => evs = <<>> /\ result \in {NoResult, Unbuilt}
    /\ task \in Settling \cup Storing => collected = evs
    /\ Reported(evs)

Beginning(s, evs) == Len(s) <= Len(evs) /\ \A i \in 1 .. Len(s) : s[i] = evs[i]
Seen(f, d, evs) ==
    /\ cli[f].at = "stream" /\ Follows(f) =>
        /\ Beginning(cli[f].saw, evs)
        /\ \/ Shown(f) <= d /\ Len(cli[f].saw) = 0
           \/ Shown(f) > d /\ Shown(f) <= d + Len(evs) /\ Len(cli[f].saw) = Shown(f) - d
           \/ Shown(f) > d + Len(evs) /\ Len(cli[f].saw) = Len(evs)
    /\ cli[f].at \in {"await", "result"} /\ cli[f].why = "finished" /\ Follows(f) =>
        cli[f].saw = evs

InOrder(f) ==
    cli[f].at = "stream" /\ ~cli[f].lagged =>
        /\ Shown(f) >= 0
        /\ \A i \in 1 .. Taken(f) : frames[f][i] = sent[Shown(f) + i]

SeenInv ==
    /\ \A f \in Followers : InOrder(f)
    /\ \A f \in Followers : cli[f].at = "new" => cli[f].saw = <<>>
    /\ \E d \in Nat : \E evs \in Seq(Nat \ {0}) :
          Broadcast(d, evs) /\ \A f \in Followers : Seen(f, d, evs)

(***************************************************************************)
(* The keys of a follower.                                                 *)
(***************************************************************************)
LastSent(f) == keys[f].typed - Len(keys[f].wire)
Unbroken(f, queue, last) ==
    /\ \A i, j \in Of(f, queue) : i < j => queue[i][2] < queue[j][2]
    /\ \E n \in 1 .. last + 1 : {queue[i][2] : i \in Of(f, queue)} = n .. last
Contiguous(f) == Unbroken(f, Through, LastSent(f))

KeyOne(f) ==
    /\ LastSent(f) >= 0 /\ (cli[f].at = "new" => keys[f].typed = 0)
    /\ cli[f].at = "stream" => \A i \in DOMAIN keys[f].wire : keys[f].wire[i] = LastSent(f) + i
    /\ handler[f].at \in {"none", "opening"} /\ cli[f].at \in {"new", "stream"} => Of(f, Through) = {}
    /\ stdin.reader /\ "stdin" \in listed /\ handler[f].at = "run" => Contiguous(f)

KeyInv ==
    /\ task \in Before => Through = <<>> /\ ~stdin.reader /\ "stdin" \notin listed
    /\ \A f \in Followers : KeyOne(f)

IInv == TypeOK /\ RelayInv /\ OrderInv /\ FollowInv /\ SeenInv /\ KeyInv

(***************************************************************************)
(* Types, by who changes the variables.                                    *)
(***************************************************************************)
Handlers == [at : {"none", "opening", "run", "closed"}, pos : Nat, rawDone : BOOLEAN]
Clis == [at : {"new", "stream", "await", "result", "error"}, saw : Seq(Nat), early : BOOLEAN,
         lagged : BOOLEAN, why : {"none", "finished", "close", "poll", "broken", "network",
                                  "not_found", "no_result"}]
Keys == [typed : Nat, wire : Seq(Nat)]
Pairs == Followers \X Nat
LineNos == Nat \ {0}
Results == [events : Seq(Nat), built : {"events", "files", "none"}, failed : {"events", "atoms", "none"}]

OrderTypes ==
    /\ status \in {"pending", "provisioning", "building", "gone"} \cup Terminal
    /\ task \in {"queued", "claimed", "image", "start", "early_finish", "early_store", "attach",
                 "wait", "flush", "flush_failed", "drain_ok", "drain_bad", "settle_ok", "settle_bad",
                 "store_ok", "store_bad", "store_none", "finish", "cleanup", "over"}
    /\ result \in Results /\ listed \subseteq {"progress", "raw", "stdin"}
    /\ sent \in Seq(Frame) /\ cancelling \in BOOLEAN
RelayTypes ==
    /\ scenario \in Scenarios /\ printed \in 0 .. Len(script) /\ missed \in 0 .. printed
    /\ container \in {"none", "running", "exit_ok", "exit_bad"}
    /\ log \in {"none", "attaching", "reading", "sending", "eof", "cut"}
    /\ held \in Nat /\ (held # 0 <=> log = "sending")
    /\ pipe \in Seq(LineNos) /\ Len(pipe) <= PipeCap
    /\ events \in Seq(LineNos) /\ Len(events) <= EventCap
    /\ collected \in Seq(LineNos)
WireTypes ==
    /\ handler \in [Followers -> Handlers] /\ frames \in [Followers -> Seq(Frame)]
    /\ cli \in [Followers -> Clis] /\ faults \in Nat
KeyTypes ==
    /\ keys \in [Followers -> Keys]
    /\ stdin \in [chan : Seq(Pairs), reader : BOOLEAN] /\ Len(stdin.chan) <= StdinCap
    /\ input \in Seq(Pairs)

LEMMA Typed ==
  /\ TypeOK <=> OrderTypes /\ RelayTypes /\ WireTypes /\ KeyTypes
  /\ TypeOK' <=> (OrderTypes /\ RelayTypes /\ WireTypes /\ KeyTypes)'
<1>1. TypeOK <=> OrderTypes /\ RelayTypes /\ WireTypes /\ KeyTypes
  BY Zenon DEF TypeOK, OrderTypes, RelayTypes, WireTypes, KeyTypes, Handlers, Clis, Keys, Pairs, LineNos,
     Results
<1>2. TypeOK' <=> (OrderTypes /\ RelayTypes /\ WireTypes /\ KeyTypes)'
  BY Zenon DEF TypeOK, OrderTypes, RelayTypes, WireTypes, KeyTypes, Handlers, Clis, Keys, Pairs, LineNos,
     Results
<1> QED
  BY <1>1, <1>2, Zenon

\* A script is a sequence of lines.
LEMMA ScriptTyped ==
  ASSUME scenario \in Scenarios
  PROVE  script \in Seq(Lines) /\ Len(script) \in Nat
         /\ scenario.faults \in Nat /\ scenario.keys \in Nat
<1>1. scenario.lines \in Seq(Lines) /\ {scenario.keys, scenario.faults} \subseteq Nat
  BY ScenarioAssumption, Zenon
<1>2. script \in Seq(Lines) /\ scenario.faults \in Nat /\ scenario.keys \in Nat
  BY <1>1, Zenon DEF script
<1> HIDE DEF script
<1>3. Len(script) \in Nat
  BY <1>2, SMT
<1> QED
  BY <1>2, <1>3, Zenon

LEMMA SeqParts ==
  ASSUME NEW S, NEW s \in Seq(S)
  PROVE  /\ \A i \in 1 .. Len(s) : s[i] \in S
         /\ s # <<>> => /\ Head(s) \in S /\ Tail(s) \in Seq(S) /\ Head(s) = s[1] /\ 1 \in 1 .. Len(s)
                        /\ Len(Tail(s)) = Len(s) - 1
                        /\ \A i \in 1 .. Len(Tail(s)) : i + 1 \in 1 .. Len(s) /\ Tail(s)[i] = s[i + 1]
         /\ Len(s) \in Nat /\ (s = <<>> <=> Len(s) = 0) /\ DOMAIN s = 1 .. Len(s)
  BY SMT

LEMMA SeqMore ==
  ASSUME NEW S, NEW s \in Seq(S), NEW x \in S
  PROVE  /\ Append(s, x) \in Seq(S) /\ Len(Append(s, x)) = Len(s) + 1
         /\ \A i \in 1 .. Len(s) : Append(s, x)[i] = s[i]
         /\ Append(s, x)[Len(s) + 1] = x
         /\ \A i \in 1 .. Len(Append(s, x)) : i \in 1 .. Len(s) \/ i = Len(s) + 1
  BY SMT

LEMMA SeqLast ==
  ASSUME NEW S, NEW s \in Seq(S), NEW x \in S
  PROVE  \A i \in DOMAIN Append(s, x) :
            (i \in DOMAIN s /\ Append(s, x)[i] = s[i]) \/ Append(s, x)[i] = x
  BY SMT

LEMMA SeqEmpty ==
  ASSUME NEW S
  PROVE  <<>> \in Seq(S) /\ Len(<<>>) = 0
  BY SMT

LEMMA SeqJoin ==
  ASSUME NEW S, NEW s \in Seq(S), NEW t \in Seq(S)
  PROVE  /\ s \o t \in Seq(S) /\ Len(s \o t) = Len(s) + Len(t)
         /\ \A i \in 1 .. Len(s) : (s \o t)[i] = s[i]
  BY SMT

LEMMA JoinOne ==
  ASSUME NEW S, NEW s \in Seq(S), NEW x \in S
  PROVE  s \o <<x>> = Append(s, x)
  BY SMT

\* The events of a broadcast are frames.
LEMMA FramesTyped ==
  /\ StatusEvent \in Frame /\ FinishedEvent \in Frame /\ CloseFrame \in Frame
  /\ \A i \in Nat : PackageEvent(i) \in Frame /\ PackageEvent(i).kind = "package" /\ PackageEvent(i).line = i
  /\ StatusEvent.kind = "status" /\ FinishedEvent.kind = "finished" /\ CloseFrame.kind = "close"
  /\ \A frame \in Frame : frame.line \in Nat
  BY Zenon DEF StatusEvent, FinishedEvent, CloseFrame, PackageEvent, Frame

\* One follower moves.
LEMMA Moved ==
  ASSUME NEW S, NEW fun \in [Followers -> S], NEW f \in Followers, NEW rec \in S,
         NEW new, new = [fun EXCEPT ![f] = rec]
  PROVE  /\ new \in [Followers -> S] /\ new[f] = rec
         /\ \A g \in Followers \ {f} : new[g] = fun[g]
  BY Zenon

(***************************************************************************)
(* What the steps of a follower and its handler do to the stream.          *)
(***************************************************************************)
WireNext(f) ==
    \/ Subscribe(f) \/ HandlerStep(f)
    \/ CliFrame(f) \/ CliPoll(f) \/ CliAwait(f) \/ CliAwaitTimeout(f) \/ NetworkFails(f)
SameHandler(f) == handler'[f] = handler[f]
SameCli(f) == cli'[f] = cli[f]
SameFrames(f) == frames'[f] = frames[f]
SameView(f) == cli'[f].early = cli[f].early /\ cli'[f].lagged = cli[f].lagged
OneFollower(f) ==
    \A g \in Followers \ {f} : SameHandler(g) /\ SameCli(g) /\ SameFrames(g)

Connects(f) ==
    /\ cli[f].at = "new" /\ "progress" \in listed
    /\ handler'[f].at = "opening" /\ handler'[f].pos = Len(sent)
    /\ cli'[f].at = "stream" /\ cli'[f].saw = cli[f].saw /\ cli'[f].lagged = cli[f].lagged
    /\ cli'[f].early = (\A i \in DOMAIN sent : sent[i].kind = "status")
    /\ SameFrames(f)
Misses(f) ==
    /\ cli[f].at = "new" /\ "progress" \notin listed
    /\ cli'[f].at = "error" /\ cli'[f].why = "not_found"
    /\ SameHandler(f) /\ SameFrames(f)
Attends(f) ==
    /\ handler[f].at \in {"opening", "run"} /\ handler'[f].at = "run"
    /\ handler'[f].pos = handler[f].pos
    /\ SameCli(f) /\ SameFrames(f)
Lags(f) ==
    /\ handler[f].at = "run" /\ handler'[f].at = "run"
    /\ handler'[f].pos = Len(sent) - ProgressCap
    /\ cli'[f].at = cli[f].at /\ cli'[f].why = cli[f].why /\ cli'[f].saw = cli[f].saw
    /\ cli'[f].early = cli[f].early /\ cli'[f].lagged
    /\ SameFrames(f)
Forwards(f) ==
    /\ handler[f].at = "run" /\ handler'[f].at = "run"
    /\ handler[f].pos < Len(sent) /\ handler'[f].pos = handler[f].pos + 1
    /\ sent[handler[f].pos + 1] # FinishedEvent
    /\ frames'[f] = Append(frames[f], sent[handler[f].pos + 1])
    /\ SameCli(f)
Finishes(f) ==
    /\ handler[f].at = "run" /\ handler'[f].at = "closed"
    /\ handler[f].pos < Len(sent) /\ handler'[f].pos = handler[f].pos + 1
    /\ sent[handler[f].pos + 1] = FinishedEvent
    /\ frames'[f] = Append(Append(frames[f], FinishedEvent), CloseFrame)
    /\ SameCli(f)
Closes(f) ==
    /\ handler[f].at = "run" /\ handler'[f].at = "closed"
    /\ handler[f].pos = Len(sent) /\ handler'[f].pos = handler[f].pos /\ ProgressClosed
    /\ frames'[f] = Append(frames[f], CloseFrame)
    /\ SameCli(f)
Shows(f) ==
    LET frame == Head(frames[f]) IN
    /\ cli[f].at = "stream" /\ frames[f] # <<>> /\ frames'[f] = Tail(frames[f])
    /\ SameHandler(f) /\ SameView(f)
    /\ \/ frame \in Ends /\ cli'[f].at = "await" /\ cli'[f].why = frame.kind
       \/ frame \notin Ends /\ cli'[f].at = "stream"
    /\ cli'[f].saw = IF frame.kind = "package" THEN Append(cli[f].saw, frame.line) ELSE cli[f].saw
Leaves(f) ==
    /\ cli[f].at \in {"stream", "await"} /\ SameView(f)
    /\ handler'[f].at = "closed" /\ handler'[f].pos = 0 /\ frames'[f] = <<>>
    /\ \/ cli'[f].at = "result" /\ cli'[f].why = "poll"
       \/ /\ cli'[f].at = "result" /\ cli[f].at = "await" /\ cli'[f].why = cli[f].why
          /\ cli'[f].saw = cli[f].saw
       \/ cli'[f].at = "error" /\ cli'[f].why = "not_found" /\ status = "gone"
       \/ /\ cli'[f].at = "error" /\ cli[f].at = "await" /\ status # "gone" /\ result = NoResult
          /\ task # "early_store"
       \/ cli'[f].at = "error" /\ faults' > 0
       \/ cli'[f].at = "await" /\ cli'[f].why = "broken" /\ faults' > 0

WireEffect(f) ==
    /\ OneFollower(f) /\ faults' \in Nat /\ faults' >= faults
    /\ \/ Connects(f) \/ Misses(f) \/ Attends(f) \/ Lags(f) \/ Forwards(f) \/ Finishes(f)
       \/ Closes(f) \/ Shows(f) \/ Leaves(f)

LEMMA SubscribeEffect ==
  ASSUME OrderTypes, WireTypes, NEW f \in Followers, Subscribe(f)
  PROVE  WireTypes' /\ OneFollower(f) /\ UNCHANGED faults /\ (Connects(f) \/ Misses(f))
<1>1. handler[f] \in Handlers /\ cli[f] \in Clis /\ cli[f].at = "new" /\ UNCHANGED <<frames, faults>>
  BY Zenon DEF WireTypes, Subscribe, miscVars
<1>2. CASE "progress" \in listed
  <2> DEFINE early == \A i \in DOMAIN sent : sent[i].kind = "status"
             h == [handler[f] EXCEPT !.at = "opening", !.pos = Len(sent)]
             c == [cli[f] EXCEPT !.at = "stream", !.early = early]
  <2>1. handler' = [handler EXCEPT ![f] = h] /\ cli' = [cli EXCEPT ![f] = c]
    BY <1>2, Zenon DEF Subscribe, WireTypes
  <2>2. Len(sent) \in Nat /\ early \in BOOLEAN
    BY SeqParts, Zenon DEF OrderTypes
  <2> HIDE DEF early
  <2>3. h \in Handlers /\ h.at = "opening" /\ h.pos = Len(sent)
    BY <1>1, <2>2, Zenon DEF Handlers
  <2>4. c \in Clis /\ c.at = "stream" /\ c.saw = cli[f].saw /\ c.lagged = cli[f].lagged /\ c.early = early
    BY <1>1, <2>2, Zenon DEF Clis
  <2> HIDE DEF h, c
  <2>5. handler' \in [Followers -> Handlers] /\ handler'[f] = h
        /\ \A g \in Followers \ {f} : handler'[g] = handler[g]
    BY <2>1, <2>3, Moved, Zenon DEF WireTypes
  <2>6. cli' \in [Followers -> Clis] /\ cli'[f] = c /\ \A g \in Followers \ {f} : cli'[g] = cli[g]
    BY <2>1, <2>4, Moved, Zenon DEF WireTypes
  <2>7. Connects(f)
    BY <1>1, <1>2, <2>3, <2>4, <2>5, <2>6, Zenon DEF Connects, SameFrames, early
  <2> QED
    BY <1>1, <2>5, <2>6, <2>7, Zenon DEF WireTypes, OneFollower, SameHandler, SameCli, SameFrames
<1>3. CASE "progress" \notin listed
  <2> DEFINE c == [cli[f] EXCEPT !.at = "error", !.why = "not_found"]
  <2>1. handler' = handler /\ cli' = [cli EXCEPT ![f] = c]
    BY <1>3, Zenon DEF Subscribe, WireTypes
  <2>2. c \in Clis /\ c.at = "error" /\ c.why = "not_found"
    BY <1>1, Zenon DEF Clis
  <2> HIDE DEF c
  <2>3. cli' \in [Followers -> Clis] /\ cli'[f] = c /\ \A g \in Followers \ {f} : cli'[g] = cli[g]
    BY <2>1, <2>2, Moved, Zenon DEF WireTypes
  <2> QED
    BY <1>1, <1>3, <2>1, <2>2, <2>3, Zenon
       DEF Misses, WireTypes, OneFollower, SameHandler, SameCli, SameFrames
<1> QED
  BY <1>2, <1>3, Zenon

LEMMA AttendEffect ==
  ASSUME WireTypes, NEW f \in Followers, SubscribeRaw(f) \/ HandlerRawClosed(f)
  PROVE  WireTypes' /\ OneFollower(f) /\ UNCHANGED faults /\ Attends(f)
<1>1. /\ handler[f] \in Handlers /\ handler[f].at \in {"opening", "run"}
      /\ UNCHANGED <<frames, cli, faults>>
  BY Zenon DEF WireTypes, SubscribeRaw, HandlerRawClosed, Ready, miscVars
<1>2. PICK done \in BOOLEAN : handler' = [handler EXCEPT ![f] = [handler[f] EXCEPT !.at = "run", !.rawDone = done]]
  <2>1. CASE SubscribeRaw(f)
    BY <2>1, Zenon DEF SubscribeRaw, WireTypes
  <2>2. CASE HandlerRawClosed(f)
    <3>1. handler' = [handler EXCEPT ![f] = [handler[f] EXCEPT !.rawDone = TRUE]]
      BY <2>2, Zenon DEF HandlerRawClosed, WireTypes
    <3>2. handler[f].at = "run"
      BY <2>2, Zenon DEF HandlerRawClosed, Ready
    <3>3. [handler[f] EXCEPT !.rawDone = TRUE] = [handler[f] EXCEPT !.at = "run", !.rawDone = TRUE]
      BY <1>1, <3>2, Zenon DEF Handlers
    <3> QED
      BY <3>1, <3>3, Zenon
  <2> QED
    BY <2>1, <2>2, Zenon
<1> DEFINE h == [handler[f] EXCEPT !.at = "run", !.rawDone = done]
<1>3. h \in Handlers /\ h.at = "run" /\ h.pos = handler[f].pos
  BY <1>1, Zenon DEF Handlers
<1>4. handler' = [handler EXCEPT ![f] = h]
  BY <1>2, Zenon
<1> HIDE DEF h
<1>5. handler' \in [Followers -> Handlers] /\ handler'[f] = h
      /\ \A g \in Followers \ {f} : handler'[g] = handler[g]
  BY <1>3, <1>4, Moved, Zenon DEF WireTypes
<1> QED
  BY <1>1, <1>3, <1>5, Zenon DEF Attends, WireTypes, OneFollower, SameHandler, SameCli, SameFrames

LEMMA LagEffect ==
  ASSUME OrderTypes, WireTypes, NEW f \in Followers, HandlerLagged(f)
  PROVE  WireTypes' /\ OneFollower(f) /\ UNCHANGED faults /\ Lags(f)
<1> DEFINE n == Len(sent) - ProgressCap
           h == [handler[f] EXCEPT !.pos = n]
           c == [cli[f] EXCEPT !.lagged = TRUE]
<1>1. /\ handler[f] \in Handlers /\ cli[f] \in Clis /\ handler[f].at = "run"
      /\ UNCHANGED <<frames, faults>>
  BY Zenon DEF WireTypes, HandlerLagged, Ready, miscVars
<1>2. handler' = [handler EXCEPT ![f] = h] /\ cli' = [cli EXCEPT ![f] = c]
  BY Zenon DEF HandlerLagged, WireTypes
<1>3. n \in Nat
  <2>1. Len(sent) \in Nat
    BY SeqParts, Zenon DEF OrderTypes
  <2>2. Len(sent) - handler[f].pos > ProgressCap /\ handler[f].pos \in Nat /\ ProgressCap \in Nat
    BY <1>1, CapAssumption, Zenon DEF HandlerLagged, Lagged, Handlers
  <2> QED
    BY <2>1, <2>2, SMT
<1> HIDE DEF n
<1>4. h \in Handlers /\ h.at = "run" /\ h.pos = n
  BY <1>1, <1>3, Zenon DEF Handlers
<1>5. /\ c \in Clis /\ c.at = cli[f].at /\ c.why = cli[f].why /\ c.saw = cli[f].saw
      /\ c.early = cli[f].early /\ c.lagged
  BY <1>1, Zenon DEF Clis
<1> HIDE DEF h, c
<1>6. handler' \in [Followers -> Handlers] /\ handler'[f] = h
      /\ \A g \in Followers \ {f} : handler'[g] = handler[g]
  BY <1>2, <1>4, Moved, Zenon DEF WireTypes
<1>7. cli' \in [Followers -> Clis] /\ cli'[f] = c /\ \A g \in Followers \ {f} : cli'[g] = cli[g]
  BY <1>2, <1>5, Moved, Zenon DEF WireTypes
<1>8. Lags(f)
  BY <1>1, <1>4, <1>5, <1>6, <1>7, Zenon DEF Lags, SameFrames, n
<1> QED
  BY <1>1, <1>6, <1>7, <1>8, Zenon DEF WireTypes, OneFollower, SameHandler, SameCli, SameFrames

LEMMA EventEffect ==
  ASSUME OrderTypes, WireTypes, NEW f \in Followers, HandlerEvent(f)
  PROVE  WireTypes' /\ OneFollower(f) /\ UNCHANGED faults /\ (Forwards(f) \/ Finishes(f))
<1> DEFINE pos == handler[f].pos
           event == sent[pos + 1]
           old == frames[f]
<1>1. /\ handler[f] \in Handlers /\ old \in Seq(Frame) /\ handler[f].at = "run"
      /\ pos < Len(sent) /\ pos \in Nat /\ UNCHANGED <<cli, faults>>
  BY Zenon DEF WireTypes, HandlerEvent, Ready, miscVars, Handlers
<1>2. pos + 1 \in 1 .. Len(sent) /\ pos + 1 \in Nat
  <2>1. Len(sent) \in Nat
    BY SeqParts, Zenon DEF OrderTypes
  <2> QED
    BY <1>1, <2>1, SMT
<1>3. event \in Frame
  BY <1>2, SeqParts, Zenon DEF OrderTypes
<1>4. CASE event = FinishedEvent
  <2> DEFINE h == [handler[f] EXCEPT !.pos = pos + 1, !.at = "closed"]
             new == Append(Append(old, FinishedEvent), CloseFrame)
  <2>1. handler' = [handler EXCEPT ![f] = h] /\ frames' = [frames EXCEPT ![f] = old \o <<FinishedEvent, CloseFrame>>]
    BY <1>4, Zenon DEF HandlerEvent, WireTypes
  <2>2. old \o <<FinishedEvent, CloseFrame>> = new
    <3> HIDE DEF old
    <3> QED
      BY <1>1, FramesTyped, SMT
  <2>3. new \in Seq(Frame)
    BY <1>1, FramesTyped, SeqMore, Zenon
  <2>4. h \in Handlers /\ h.at = "closed" /\ h.pos = pos + 1
    BY <1>1, <1>2, Zenon DEF Handlers
  <2> HIDE DEF h, new
  <2>5. handler' \in [Followers -> Handlers] /\ handler'[f] = h
        /\ \A g \in Followers \ {f} : handler'[g] = handler[g]
    BY <2>1, <2>4, Moved, Zenon DEF WireTypes
  <2>6. frames' \in [Followers -> Seq(Frame)] /\ frames'[f] = new
        /\ \A g \in Followers \ {f} : frames'[g] = frames[g]
    BY <2>1, <2>2, <2>3, Moved, Zenon DEF WireTypes
  <2>7. Finishes(f)
    BY <1>1, <1>4, <2>4, <2>5, <2>6, Zenon DEF Finishes, SameCli, new
  <2> QED
    BY <1>1, <2>5, <2>6, <2>7, Zenon DEF WireTypes, OneFollower, SameHandler, SameCli, SameFrames
<1>5. CASE event # FinishedEvent
  <2> DEFINE h == [handler[f] EXCEPT !.pos = pos + 1]
             new == Append(old, event)
  <2>1. handler' = [handler EXCEPT ![f] = h]
    <3>1. handler' = [handler EXCEPT ![f] = [handler[f] EXCEPT !.pos = pos + 1, !.at = handler[f].at]]
      BY <1>5, Zenon DEF HandlerEvent, WireTypes
    <3>2. [handler[f] EXCEPT !.pos = pos + 1, !.at = handler[f].at] = h
      BY <1>1, Zenon DEF Handlers
    <3> QED
      BY <3>1, <3>2, Zenon
  <2>2. frames' = [frames EXCEPT ![f] = old \o <<event>>]
    BY <1>5, Zenon DEF HandlerEvent, WireTypes
  <2>3. old \o <<event>> = new
    BY <1>1, <1>3, JoinOne, Zenon
  <2>4. new \in Seq(Frame)
    <3>1. old \in Seq(Frame)
      BY <1>1, Zenon
    <3> HIDE DEF old, event
    <3> QED
      BY <1>3, <3>1, SeqMore, Zenon
  <2>5. h \in Handlers /\ h.at = "run" /\ h.pos = pos + 1
    BY <1>1, <1>2, Zenon DEF Handlers
  <2> HIDE DEF h, new
  <2>6. handler' \in [Followers -> Handlers] /\ handler'[f] = h
        /\ \A g \in Followers \ {f} : handler'[g] = handler[g]
    BY <2>1, <2>5, Moved, Zenon DEF WireTypes
  <2>7. frames' \in [Followers -> Seq(Frame)] /\ frames'[f] = new
        /\ \A g \in Followers \ {f} : frames'[g] = frames[g]
    BY <2>2, <2>3, <2>4, Moved, Zenon DEF WireTypes
  <2>8. Forwards(f)
    BY <1>1, <1>5, <2>5, <2>6, <2>7, Zenon DEF Forwards, SameCli, new
  <2> QED
    BY <1>1, <2>6, <2>7, <2>8, Zenon DEF WireTypes, OneFollower, SameHandler, SameCli, SameFrames
<1> QED
  BY <1>4, <1>5, Zenon

LEMMA CloseEffect ==
  ASSUME OrderTypes, WireTypes, NEW f \in Followers, HandlerClosed(f)
  PROVE  WireTypes' /\ OneFollower(f) /\ UNCHANGED faults /\ Closes(f)
<1> DEFINE h == [handler[f] EXCEPT !.at = "closed"]
           new == Append(frames[f], CloseFrame)
<1>1. /\ handler[f] \in Handlers /\ frames[f] \in Seq(Frame) /\ handler[f].at = "run"
      /\ handler[f].pos = Len(sent) /\ ProgressClosed /\ UNCHANGED <<cli, faults>>
  BY Zenon DEF WireTypes, HandlerClosed, Ready, miscVars
<1>2. handler' = [handler EXCEPT ![f] = h] /\ frames' = [frames EXCEPT ![f] = new]
  BY Zenon DEF HandlerClosed, WireTypes
<1>3. h \in Handlers /\ h.at = "closed" /\ h.pos = handler[f].pos
  BY <1>1, Zenon DEF Handlers
<1>4. new \in Seq(Frame)
  BY <1>1, FramesTyped, SeqMore, Zenon
<1> HIDE DEF h, new
<1>5. handler' \in [Followers -> Handlers] /\ handler'[f] = h
      /\ \A g \in Followers \ {f} : handler'[g] = handler[g]
  BY <1>2, <1>3, Moved, Zenon DEF WireTypes
<1>6. frames' \in [Followers -> Seq(Frame)] /\ frames'[f] = new
      /\ \A g \in Followers \ {f} : frames'[g] = frames[g]
  BY <1>2, <1>4, Moved, Zenon DEF WireTypes
<1>7. Closes(f)
  BY <1>1, <1>3, <1>5, <1>6, Zenon DEF Closes, SameCli, new
<1> QED
  BY <1>1, <1>5, <1>6, <1>7, Zenon DEF WireTypes, OneFollower, SameHandler, SameCli, SameFrames

LEMMA ShowEffect ==
  ASSUME OrderTypes, WireTypes, NEW f \in Followers, CliFrame(f)
  PROVE  WireTypes' /\ OneFollower(f) /\ UNCHANGED faults /\ Shows(f)
<1> DEFINE frame == Head(frames[f])
           how == IF frame \in Ends THEN "await" ELSE cli[f].at
           why == IF frame.kind \in {"finished", "close"} THEN frame.kind ELSE cli[f].why
           saw == IF frame.kind = "package" THEN Append(cli[f].saw, frame.line) ELSE cli[f].saw
           c == [cli[f] EXCEPT !.at = how, !.why = why, !.saw = saw]
<1>1. /\ cli[f] \in Clis /\ frames[f] \in Seq(Frame) /\ cli[f].at = "stream" /\ frames[f] # <<>>
      /\ UNCHANGED <<handler, faults>>
  BY Zenon DEF WireTypes, CliFrame, miscVars
<1>2. cli' = [cli EXCEPT ![f] = c] /\ frames' = [frames EXCEPT ![f] = Tail(frames[f])]
  BY Zenon DEF CliFrame, WireTypes, Ends
<1>3. frame \in Frame /\ Tail(frames[f]) \in Seq(Frame)
  BY <1>1, SeqParts, Zenon
<1>4. /\ frame \in Ends => frame.kind \in {"finished", "close"}
      /\ frame.kind \in {"status", "finished", "package", "close"} /\ frame.line \in Nat
  <2>1. frame \in Ends => frame.kind \in {"finished", "close"}
    BY FramesTyped, Zenon DEF Ends
  <2> HIDE DEF frame
  <2>2. frame.kind \in {"status", "finished", "package", "close"} /\ frame.line \in Nat
    BY <1>3, Zenon DEF Frame
  <2> QED
    BY <2>1, <2>2, Zenon
<1>5. /\ how \in {"await", "stream"} /\ (frame \in Ends => how = "await") /\ (frame \notin Ends => how = "stream")
      /\ why \in {"none", "finished", "close", "poll", "broken", "network", "not_found", "no_result"}
      /\ (frame \in Ends => why = frame.kind)
  BY <1>1, <1>4, Zenon DEF Clis
<1>6. saw \in Seq(Nat)
  <2>1. cli[f].saw \in Seq(Nat)
    BY <1>1, Zenon DEF Clis
  <2> QED
    BY <1>4, <2>1, SeqMore, Zenon
<1>7. saw = IF frame.kind = "package" THEN Append(cli[f].saw, frame.line) ELSE cli[f].saw
  OBVIOUS
<1> HIDE DEF how, why, saw
<1>8. /\ c \in Clis /\ c.at = how /\ c.why = why /\ c.saw = saw
      /\ c.early = cli[f].early /\ c.lagged = cli[f].lagged
  BY <1>1, <1>5, <1>6, Zenon DEF Clis
<1> HIDE DEF c
<1>9. cli' \in [Followers -> Clis] /\ cli'[f] = c /\ \A g \in Followers \ {f} : cli'[g] = cli[g]
  BY <1>2, <1>8, Moved, Zenon DEF WireTypes
<1>10. frames' \in [Followers -> Seq(Frame)] /\ frames'[f] = Tail(frames[f])
       /\ \A g \in Followers \ {f} : frames'[g] = frames[g]
  BY <1>2, <1>3, Moved, Zenon DEF WireTypes
<1>11. Shows(f)
  <2>1. \/ frame \in Ends /\ cli'[f].at = "await" /\ cli'[f].why = frame.kind
        \/ frame \notin Ends /\ cli'[f].at = "stream"
    BY <1>5, <1>8, <1>9, Zenon
  <2>2. cli'[f].saw = IF frame.kind = "package" THEN Append(cli[f].saw, frame.line) ELSE cli[f].saw
    BY <1>7, <1>8, <1>9, Zenon
  <2>3. SameHandler(f) /\ SameView(f)
    BY <1>1, <1>8, <1>9, Zenon DEF SameHandler, SameView
  <2> QED
    BY <1>1, <1>10, <2>1, <2>2, <2>3, Zenon DEF Shows
<1> QED
  BY <1>1, <1>9, <1>10, <1>11, Zenon DEF WireTypes, OneFollower, SameHandler, SameCli, SameFrames

\* The connection of a follower ends.
LEMMA EndEffect ==
  ASSUME WireTypes, NEW f \in Followers, NEW how \in {"await", "result", "error"},
         NEW why \in {"none", "finished", "close", "poll", "broken", "network", "not_found", "no_result"},
         EndCli(f, how, why), faults' \in Nat
  PROVE  /\ WireTypes' /\ OneFollower(f) /\ SameView(f)
         /\ handler'[f].at = "closed" /\ handler'[f].pos = 0 /\ frames'[f] = <<>>
         /\ cli'[f].at = how /\ cli'[f].why = why /\ (how # "error" => cli'[f].saw = cli[f].saw)
<1> DEFINE saw == IF how = "error" THEN <<>> ELSE cli[f].saw
           c == [cli[f] EXCEPT !.at = how, !.why = why, !.saw = saw]
           h == [NoHandler EXCEPT !.at = "closed"]
<1>1. cli[f] \in Clis
  BY Zenon DEF WireTypes
<1>2. cli' = [cli EXCEPT ![f] = c] /\ handler' = [handler EXCEPT ![f] = h] /\ frames' = [frames EXCEPT ![f] = <<>>]
  BY Zenon DEF EndCli, WireTypes
<1>3. saw \in Seq(Nat) /\ (how # "error" => saw = cli[f].saw)
  BY <1>1, SeqEmpty, Zenon DEF Clis
<1>4. h \in Handlers /\ h.at = "closed" /\ h.pos = 0
  <2>1. 0 \in Nat
    BY SMT
  <2> QED
    BY <2>1, Zenon DEF Handlers, NoHandler
<1> HIDE DEF saw, h
<1>5. /\ c \in Clis /\ c.at = how /\ c.why = why /\ c.saw = saw
      /\ c.early = cli[f].early /\ c.lagged = cli[f].lagged
  BY <1>1, <1>3, Zenon DEF Clis
<1> HIDE DEF c
<1>6. handler' \in [Followers -> Handlers] /\ handler'[f] = h
      /\ \A g \in Followers \ {f} : handler'[g] = handler[g]
  BY <1>2, <1>4, Moved, Zenon DEF WireTypes
<1>7. cli' \in [Followers -> Clis] /\ cli'[f] = c /\ \A g \in Followers \ {f} : cli'[g] = cli[g]
  BY <1>2, <1>5, Moved, Zenon DEF WireTypes
<1>8. frames' \in [Followers -> Seq(Frame)] /\ frames'[f] = <<>>
      /\ \A g \in Followers \ {f} : frames'[g] = frames[g]
  BY <1>2, SeqEmpty, Moved, Zenon DEF WireTypes
<1> QED
  BY <1>3, <1>4, <1>5, <1>6, <1>7, <1>8, Zenon
  DEF WireTypes, OneFollower, SameHandler, SameCli, SameFrames, SameView

LEMMA LeaveEffect ==
  ASSUME RelayTypes, WireTypes, NEW f \in Followers,
         CliPoll(f) \/ CliAwait(f) \/ CliAwaitTimeout(f) \/ NetworkFails(f)
  PROVE  WireTypes' /\ WireEffect(f)
<1>1. cli[f] \in Clis /\ faults \in Nat
  BY Zenon DEF WireTypes
<1>2. cli[f].why \in {"none", "finished", "close", "poll", "broken", "network", "not_found", "no_result"}
  BY <1>1, Zenon DEF Clis
<1>3. ASSUME NEW how \in {"await", "result", "error"},
             NEW why \in {"none", "finished", "close", "poll", "broken", "network", "not_found", "no_result"},
             EndCli(f, how, why), cli[f].at \in {"stream", "await"}, faults' \in Nat, faults' >= faults,
             \/ how = "result" /\ why = "poll"
             \/ how = "result" /\ cli[f].at = "await" /\ why = cli[f].why
             \/ how = "error" /\ why = "not_found" /\ status = "gone"
             \/ /\ how = "error" /\ cli[f].at = "await" /\ status # "gone" /\ result = NoResult
                /\ task # "early_store"
             \/ how = "error" /\ faults' > 0
             \/ how = "await" /\ why = "broken" /\ faults' > 0
      PROVE  WireTypes' /\ WireEffect(f)
  <2>1. /\ WireTypes' /\ OneFollower(f) /\ SameView(f)
        /\ handler'[f].at = "closed" /\ handler'[f].pos = 0 /\ frames'[f] = <<>>
        /\ cli'[f].at = how /\ cli'[f].why = why /\ (how # "error" => cli'[f].saw = cli[f].saw)
    BY <1>3, EndEffect, ZenonT(60)
  <2>2. Leaves(f)
    BY <1>3, <2>1, Zenon DEF Leaves
  <2> QED
    BY <1>3, <2>1, <2>2, Zenon DEF WireEffect
<1>4. faults >= faults
  BY <1>1, SMT
<1>5. CASE CliPoll(f)
  <2>1. cli[f].at = "stream" /\ EndCli(f, "result", "poll") /\ faults' = faults
    BY <1>5, Zenon DEF CliPoll, miscVars
  <2> QED
    BY <1>1, <1>3, <1>4, <2>1, Zenon
<1>6. CASE CliAwait(f)
  <2>1. cli[f].at = "await" /\ faults' = faults
        /\ \/ EndCli(f, "result", cli[f].why)
           \/ status = "gone" /\ EndCli(f, "error", "not_found")
    BY <1>6, Zenon DEF CliAwait, miscVars
  <2>2. CASE EndCli(f, "result", cli[f].why)
    BY <1>1, <1>2, <1>3, <1>4, <2>1, <2>2, Zenon
  <2>3. CASE status = "gone" /\ EndCli(f, "error", "not_found")
    BY <1>1, <1>3, <1>4, <2>1, <2>3, Zenon
  <2> QED
    BY <2>1, <2>2, <2>3, Zenon
<1>7. CASE CliAwaitTimeout(f)
  <2>1. /\ cli[f].at = "await" /\ status # "gone" /\ result = NoResult /\ task # "early_store"
        /\ EndCli(f, "error", "no_result") /\ faults' = faults
    BY <1>7, Zenon DEF CliAwaitTimeout, miscVars
  <2> QED
    BY <1>1, <1>3, <1>4, <2>1, Zenon
<1>8. CASE NetworkFails(f)
  <2>1. /\ cli[f].at \in {"stream", "await"} /\ faults' = faults + 1
        /\ EndCli(f, "error", "network") \/ EndCli(f, "await", "broken")
    BY <1>8, Zenon DEF NetworkFails
  <2>2. faults' \in Nat /\ faults' > 0 /\ faults' >= faults
    BY <1>1, <2>1, SMT
  <2>3. CASE EndCli(f, "error", "network")
    BY <1>3, <2>1, <2>2, <2>3, Zenon
  <2>4. CASE EndCli(f, "await", "broken")
    BY <1>3, <2>1, <2>2, <2>4, Zenon
  <2> QED
    BY <2>1, <2>3, <2>4, Zenon
<1> QED
  BY <1>5, <1>6, <1>7, <1>8, Zenon

LEMMA WireStep ==
  ASSUME OrderTypes, RelayTypes, WireTypes, NEW f \in Followers, WireNext(f)
  PROVE  WireTypes' /\ WireEffect(f)
<1>1. faults \in Nat /\ faults >= faults
  <2>1. faults \in Nat
    BY Zenon DEF WireTypes
  <2> QED
    BY <2>1, SMT
<1>2. CASE Subscribe(f)
  BY <1>1, <1>2, SubscribeEffect, Zenon DEF WireEffect
<1>3. CASE SubscribeRaw(f) \/ HandlerRawClosed(f)
  BY <1>1, <1>3, AttendEffect, Zenon DEF WireEffect
<1>4. CASE HandlerLagged(f)
  BY <1>1, <1>4, LagEffect, Zenon DEF WireEffect
<1>5. CASE HandlerEvent(f)
  BY <1>1, <1>5, EventEffect, Zenon DEF WireEffect
<1>6. CASE HandlerClosed(f)
  BY <1>1, <1>6, CloseEffect, Zenon DEF WireEffect
<1>7. CASE CliFrame(f)
  BY <1>1, <1>7, ShowEffect, Zenon DEF WireEffect
<1>8. CASE CliPoll(f) \/ CliAwait(f) \/ CliAwaitTimeout(f) \/ NetworkFails(f)
  BY <1>8, LeaveEffect, Zenon
<1> QED
  BY <1>2, <1>3, <1>4, <1>5, <1>6, <1>7, <1>8, Zenon DEF WireNext, HandlerStep

(***************************************************************************)
(* The other steps, and what they leave alone.                             *)
(***************************************************************************)
ServerNext ==
    \/ Claim \/ TaskStep \/ TaskWait \/ TaskTimeout \/ TaskWaitError
    \/ CancelMark \/ CancelSend \/ Evict
OutputNext == ContainerPrint \/ ContainerExit \/ LogAttach \/ LogRead \/ LogSend \/ LogEnd
StdinNext == StdinWrite \/ StdinEnd
KeyNext(f) == Type(f) \/ KeyForward(f) \/ KeyGiveUp(f)

orderVars == <<status, result, task, listed, sent, cancelling>>

LEMMA ServerFrame ==
  ASSUME ServerNext
  PROVE  /\ UNCHANGED <<wireVars, keys, input, faults, scenario, printed, missed>>
         /\ TaskAttach \/ TaskFlush \/ UNCHANGED <<stdin>>
  BY Zenon DEF ServerNext, TaskStep, Claim, TaskBegin, TaskBuilding, TaskFailsEarly, TaskEarlyFinish,
     TaskEarlyStore, TaskStart, TaskAttach, TaskPanic, TaskFlush, TaskDrain, TaskSettle, TaskStore, TaskFinish,
     TaskCleanup, TaskWait, TaskTimeout, TaskWaitError, CancelMark, CancelSend, Evict,
     miscVars, keyVars, relayVars

LEMMA OutputFrame ==
  ASSUME OutputNext
  PROVE  UNCHANGED <<orderVars, wireVars, keys, input, faults, scenario, collected>>
  BY Zenon DEF OutputNext, ContainerPrint, ContainerExit, LogAttach, LogRead, LogSend, LogEnd, miscVars, keyVars,
     orderVars

LEMMA StdinFrame ==
  ASSUME StdinNext
  PROVE  UNCHANGED <<orderVars, relayVars, wireVars, keys, faults>>
  BY Zenon DEF StdinNext, StdinWrite, StdinEnd, miscVars, orderVars

LEMMA WireFrame ==
  ASSUME NEW f \in Followers, WireNext(f)
  PROVE  UNCHANGED <<orderVars, relayVars, stdin, input>>
  BY Zenon DEF WireNext, HandlerStep, Subscribe, SubscribeRaw, HandlerRawClosed, HandlerLagged, HandlerEvent,
     HandlerClosed, CliFrame, CliPoll, CliAwait, CliAwaitTimeout, NetworkFails, miscVars, keyVars, orderVars

LEMMA KeyFrame ==
  ASSUME NEW f \in Followers, KeyNext(f)
  PROVE  UNCHANGED <<orderVars, relayVars, wireVars, input, faults>>
  BY Zenon DEF KeyNext, Type, KeyForward, KeyGiveUp, miscVars, orderVars

LEMMA Steps ==
  ASSUME [Next]_vars
  PROVE  \/ ServerNext \/ OutputNext \/ StdinNext \/ UNCHANGED vars
         \/ \E f \in Followers : WireNext(f) \/ KeyNext(f)
  BY Zenon DEF Next, Terminated, ServerNext, OutputNext, StdinNext, WireNext, KeyNext

\* The events of a drained channel follow what was sent before.
Packages(evs) == [i \in DOMAIN evs |-> PackageEvent(evs[i])]

LEMMA Drained ==
  ASSUME NEW s \in Seq(Frame), NEW evs \in Seq(LineNos)
  PROVE  /\ s \o Packages(evs) \in Seq(Frame) /\ Len(s \o Packages(evs)) = Len(s) + Len(evs)
         /\ \A i \in 1 .. Len(s) : (s \o Packages(evs))[i] = s[i]
         /\ \A i \in 1 .. Len(evs) : (s \o Packages(evs))[Len(s) + i] = PackageEvent(evs[i])
<1> DEFINE part == Packages(evs)
<1>1. DOMAIN evs = 1 .. Len(evs) /\ Len(evs) \in Nat /\ \A i \in 1 .. Len(evs) : evs[i] \in LineNos
  BY SMT
<1>2. \A i \in 1 .. Len(evs) : PackageEvent(evs[i]) \in Frame
  <2>1. LineNos \subseteq Nat
    BY SMT DEF LineNos
  <2> QED
    BY <1>1, <2>1, FramesTyped, Zenon
<1>3. part \in [1 .. Len(evs) -> Frame] /\ \A i \in 1 .. Len(evs) : part[i] = PackageEvent(evs[i])
  BY <1>1, <1>2, Zenon DEF Packages
<1> HIDE DEF part
<1>4. part \in Seq(Frame) /\ Len(part) = Len(evs)
  BY <1>1, <1>3, SMT
<1>5. /\ s \o part \in Seq(Frame) /\ Len(s \o part) = Len(s) + Len(part)
      /\ \A i \in 1 .. Len(s) : (s \o part)[i] = s[i]
      /\ \A i \in 1 .. Len(part) : (s \o part)[Len(s) + i] = part[i]
  <2>1. part \in Seq(Frame)
    BY <1>4, Zenon
  <2>2. s \o part \in Seq(Frame) /\ Len(s \o part) = Len(s) + Len(part)
    BY <2>1, SeqJoin, Zenon
  <2>3. \A i \in 1 .. Len(s) : (s \o part)[i] = s[i]
    BY <2>1, SeqJoin, Zenon
  <2>4. ASSUME NEW i \in 1 .. Len(part)
        PROVE  (s \o part)[Len(s) + i] = part[i]
    <3>1. Len(s) + i \in 1 .. Len(s) + Len(part) /\ Len(s) + i > Len(s) /\ (Len(s) + i) - Len(s) = i
      BY <2>1, SMT
    <3> QED
      BY <2>1, <3>1, SMT
  <2> QED
    BY <2>2, <2>3, <2>4, Zenon
<1>6. part = Packages(evs)
  BY Zenon DEF part
<1> QED
  BY <1>3, <1>4, <1>5, <1>6, Zenon


(***************************************************************************)
(* The order: types and invariant.                                         *)
(***************************************************************************)
LEMMA ServerSends ==
  ASSUME ServerNext
  PROVE  \/ sent' = sent \/ sent' = Append(sent, StatusEvent)
         \/ (TaskFinish \/ TaskEarlyFinish) /\ sent' = Append(sent, FinishedEvent)
         \/ TaskDrain /\ sent' = sent \o Packages(events)
<1>1. CASE TaskDrain
  BY <1>1, Zenon DEF TaskDrain, Packages
<1>2. CASE TaskFinish \/ TaskEarlyFinish
  BY <1>2, Zenon DEF TaskFinish, TaskEarlyFinish
<1>3. CASE TaskBuilding \/ TaskFailsEarly \/ TaskSettle
  BY <1>3, Zenon DEF TaskBuilding, TaskFailsEarly, TaskSettle, SetStatus
<1>4. CASE Claim \/ TaskBegin \/ TaskEarlyStore \/ TaskStart \/ TaskAttach \/ TaskPanic \/ TaskFlush \/ TaskStore
           \/ TaskCleanup \/ TaskWait \/ TaskTimeout \/ TaskWaitError \/ CancelMark \/ CancelSend \/ Evict
  BY <1>4, Zenon DEF Claim, TaskBegin, TaskEarlyStore, TaskStart, TaskAttach, TaskPanic, TaskFlush, TaskStore,
     TaskCleanup, TaskWait, TaskTimeout, TaskWaitError, CancelMark, CancelSend, Evict
<1> QED
  BY <1>1, <1>2, <1>3, <1>4, Zenon DEF ServerNext, TaskStep

\* What was sent stays sent.
Grows ==
    /\ Len(sent) \in Nat /\ Len(sent') \in Nat /\ Len(sent) <= Len(sent')
    /\ DOMAIN sent = 1 .. Len(sent) /\ DOMAIN sent' = 1 .. Len(sent')
    /\ \A i \in 1 .. Len(sent) : sent'[i] = sent[i] /\ i \in 1 .. Len(sent')

LEMMA GrowsByOne ==
  ASSUME sent \in Seq(Frame), NEW e \in Frame, sent' = Append(sent, e)
  PROVE  /\ sent' \in Seq(Frame) /\ Grows /\ Len(sent') = Len(sent) + 1
         /\ sent'[Len(sent) + 1] = e
         /\ \A i \in 1 .. Len(sent') : i \in 1 .. Len(sent) \/ i = Len(sent) + 1
<1>1. /\ sent' \in Seq(Frame) /\ Len(sent') = Len(sent) + 1
      /\ \A i \in 1 .. Len(sent) : sent'[i] = sent[i]
      /\ sent'[Len(sent) + 1] = e
      /\ \A i \in 1 .. Len(sent') : i \in 1 .. Len(sent) \/ i = Len(sent) + 1
  BY SMT
<1>2. /\ Len(sent) \in Nat /\ Len(sent') \in Nat
      /\ DOMAIN sent = 1 .. Len(sent) /\ DOMAIN sent' = 1 .. Len(sent')
  BY <1>1, SeqParts, Zenon
<1>3. Len(sent) <= Len(sent') /\ \A i \in 1 .. Len(sent) : i \in 1 .. Len(sent')
  BY <1>1, <1>2, SMT
<1> QED
  BY <1>1, <1>2, <1>3, Zenon DEF Grows

LEMMA GrowsByDrain ==
  ASSUME sent \in Seq(Frame), events \in Seq(LineNos), sent' = sent \o Packages(events)
  PROVE  /\ sent' \in Seq(Frame) /\ Grows /\ Len(sent') = Len(sent) + Len(events)
         /\ \A i \in 1 .. Len(events) : sent'[Len(sent) + i] = PackageEvent(events[i])
         /\ \A j \in 1 .. Len(sent') : \/ j \in 1 .. Len(sent)
                                       \/ \E i \in 1 .. Len(events) : j = Len(sent) + i
<1>1. /\ sent' \in Seq(Frame) /\ Len(sent') = Len(sent) + Len(events)
      /\ \A i \in 1 .. Len(sent) : sent'[i] = sent[i]
      /\ \A i \in 1 .. Len(events) : sent'[Len(sent) + i] = PackageEvent(events[i])
  BY Drained, Zenon
<1>2. /\ Len(sent) \in Nat /\ Len(sent') \in Nat /\ Len(events) \in Nat
      /\ DOMAIN sent = 1 .. Len(sent) /\ DOMAIN sent' = 1 .. Len(sent')
  BY <1>1, SeqParts, Zenon
<1>3. Len(sent) <= Len(sent') /\ \A i \in 1 .. Len(sent) : i \in 1 .. Len(sent')
  BY <1>1, <1>2, SMT
<1>4. ASSUME NEW j \in 1 .. Len(sent'), j \notin 1 .. Len(sent)
      PROVE  \E i \in 1 .. Len(events) : j = Len(sent) + i
  <2>1. j - Len(sent) \in 1 .. Len(events) /\ j = Len(sent) + (j - Len(sent))
    BY <1>1, <1>2, <1>4, SMT
  <2> QED
    BY <2>1, Zenon
<1> QED
  BY <1>1, <1>2, <1>3, <1>4, Zenon DEF Grows

LEMMA GrowsByNone ==
  ASSUME sent \in Seq(Frame), sent' = sent
  PROVE  sent' \in Seq(Frame) /\ Grows
<1>1. Len(sent) \in Nat /\ DOMAIN sent = 1 .. Len(sent)
  BY SeqParts, Zenon
<1>2. Len(sent) <= Len(sent)
  BY <1>1, SMT
<1> QED
  BY <1>1, <1>2, Zenon DEF Grows

LEMMA ServerGrows ==
  ASSUME OrderTypes, RelayTypes, ServerNext
  PROVE  sent' \in Seq(Frame) /\ Grows
<1>1. sent \in Seq(Frame) /\ events \in Seq(LineNos)
  BY Zenon DEF OrderTypes, RelayTypes
<1> QED
  BY <1>1, ServerSends, GrowsByNone, GrowsByOne, GrowsByDrain, FramesTyped, Zenon

\* The results a task may store.
LEMMA ResultsTyped ==
  /\ NoResult \in Results /\ Unbuilt \in Results /\ Unbuilt # NoResult
<1>1. "none" # "atoms"
  BY SMT
<1>2. Unbuilt.failed = "atoms" /\ NoResult.failed = "none"
  BY Zenon DEF Unbuilt, NoResult
<1>3. NoResult \in Results /\ Unbuilt \in Results
  BY SeqEmpty, Zenon DEF NoResult, Unbuilt, Results
<1> QED
  BY <1>1, <1>2, <1>3, Zenon

LEMMA ReportMade ==
  ASSUME RelayTypes, NEW outcome \in Storing, NEW res \in Report(outcome)
  PROVE  res \in Results /\ res # NoResult /\ (res = Unbuilt \/ MadeFrom(res, collected))
<1>1. collected \in Seq(Nat)
  <2>1. collected \in Seq(Nat \ {0})
    BY Zenon DEF RelayTypes, LineNos
  <2> QED
    BY <2>1, SMT
<1>2. NoResult.failed = "none" /\ "none" # "events" /\ "none" # "atoms" /\ "events" # "atoms"
  <2>1. NoResult.failed = "none"
    BY Zenon DEF NoResult
  <2> QED
    BY <2>1, SMT
<1>3. CASE outcome = "store_none"
  <2>1. res = Unbuilt
    BY <1>3, Zenon DEF Report
  <2> QED
    BY <2>1, ResultsTyped, Zenon
<1>4. CASE outcome = "store_ok"
  <2>1. PICK b \in {"files", "events"} : res = [events |-> collected, built |-> b, failed |-> "events"]
    BY <1>4, Zenon DEF Report
  <2>2. res \in Results /\ res.events = collected /\ res.failed = "events"
    BY <1>1, <2>1, Zenon DEF Results
  <2>3. res.failed # NoResult.failed /\ res.failed # "atoms"
    BY <1>2, <2>2, Zenon
  <2> QED
    BY <2>2, <2>3, Zenon DEF MadeFrom
<1>5. CASE outcome = "store_bad"
  <2> DEFINE blamed == IF NoneFailed(collected) THEN "atoms" ELSE "events"
  <2>1. res = [events |-> collected, built |-> "events", failed |-> blamed]
    BY <1>5, Zenon DEF Report
  <2>2. blamed \in {"events", "atoms"} /\ (blamed = "atoms" => NoneFailed(collected))
    BY Zenon
  <2> HIDE DEF blamed
  <2>3. res \in Results /\ res.events = collected /\ res.failed = blamed
    BY <1>1, <2>1, <2>2, Zenon DEF Results
  <2>4. res.failed # NoResult.failed
    BY <1>2, <2>2, <2>3, Zenon
  <2> QED
    BY <2>2, <2>3, <2>4, Zenon DEF MadeFrom
<1> QED
  BY <1>3, <1>4, <1>5, Zenon DEF Storing

LEMMA OrderTyped ==
  ASSUME OrderTypes, RelayTypes, ServerNext
  PROVE  OrderTypes'
<1>1. sent' \in Seq(Frame)
  BY ServerGrows, Zenon
<1>2. result' \in Results
  <2>1. CASE TaskStore
    <3>1. task \in Storing /\ result' \in Report(task)
      BY <2>1, Zenon DEF TaskStore, Storing
    <3> QED
      BY <3>1, ReportMade, Zenon
  <2>2. CASE ~TaskStore
    <3>1. result' = result \/ result' = Unbuilt \/ result' = NoResult
      BY <2>2, Zenon DEF ServerNext, TaskStep, Claim, TaskBegin, TaskBuilding, TaskFailsEarly, TaskEarlyFinish,
         TaskEarlyStore, TaskStart, TaskAttach, TaskPanic, TaskFlush, TaskDrain, TaskSettle, TaskFinish,
         TaskCleanup, TaskWait, TaskTimeout, TaskWaitError, CancelMark, CancelSend, Evict
    <3> QED
      BY <3>1, ResultsTyped, Zenon DEF OrderTypes
  <2> QED
    BY <2>1, <2>2, Zenon
<1>3. status' \in {"pending", "provisioning", "building", "gone"} \cup Terminal
  BY Zenon DEF OrderTypes, Terminal, ServerNext, TaskStep, Claim, TaskBegin, TaskBuilding, TaskFailsEarly,
     TaskEarlyFinish, TaskEarlyStore, TaskStart, TaskAttach, TaskPanic, TaskFlush, TaskDrain, TaskSettle, TaskStore,
     TaskFinish, TaskCleanup, TaskWait, TaskTimeout, TaskWaitError, CancelMark, CancelSend, Evict, SetStatus
<1>4. task' \in {"queued", "claimed", "image", "start", "early_finish", "early_store", "attach",
                 "wait", "flush", "flush_failed", "drain_ok", "drain_bad", "settle_ok", "settle_bad",
                 "store_ok", "store_bad", "store_none", "finish", "cleanup", "over"}
  BY ZenonT(60) DEF OrderTypes, ServerNext, TaskStep, Claim, TaskBegin, TaskBuilding, TaskFailsEarly,
     TaskEarlyFinish, TaskEarlyStore, TaskStart, TaskAttach, TaskPanic, TaskFlush, TaskDrain, TaskSettle, TaskStore,
     TaskFinish, TaskCleanup, TaskWait, TaskTimeout, TaskWaitError, CancelMark, CancelSend, Evict
<1>5. listed' \subseteq {"progress", "raw", "stdin"} /\ cancelling' \in BOOLEAN
  BY Zenon DEF OrderTypes, ServerNext, TaskStep, Claim, TaskBegin, TaskBuilding, TaskFailsEarly,
     TaskEarlyFinish, TaskEarlyStore, TaskStart, TaskAttach, TaskPanic, TaskFlush, TaskDrain, TaskSettle, TaskStore,
     TaskFinish, TaskCleanup, TaskWait, TaskTimeout, TaskWaitError, CancelMark, CancelSend, Evict, miscVars
<1> QED
  BY <1>1, <1>2, <1>3, <1>4, <1>5, Zenon DEF OrderTypes

LEMMA PhaseStep ==
  ASSUME OrderTypes, RelayTypes, PhaseInv, ServerNext
  PROVE  PhaseInv'
<1>1. CASE Claim
  BY <1>1, Zenon DEF Claim, PhaseInv, Before, Cancellable, HasResult, Storing
<1>2. CASE TaskBegin
  BY <1>2, Zenon DEF TaskBegin, PhaseInv, Before, Cancellable, HasResult, Storing
<1>3. CASE TaskBuilding
  BY <1>3, Zenon DEF TaskBuilding, SetStatus, PhaseInv, Before, Cancellable, HasResult, Storing
<1>4. CASE TaskFailsEarly
  BY <1>4, Zenon DEF TaskFailsEarly, SetStatus, PhaseInv, Before, Cancellable, HasResult, Storing
<1>5. CASE TaskEarlyFinish
  BY <1>5, Zenon DEF TaskEarlyFinish, PhaseInv, Before, Cancellable, HasResult, Storing
<1>6. CASE TaskEarlyStore
  <2>1. result' # NoResult
    BY <1>6, ResultsTyped, Zenon DEF TaskEarlyStore
  <2> QED
    BY <1>6, <2>1, Zenon DEF TaskEarlyStore, PhaseInv, Before, Cancellable, HasResult, Storing
<1>7. CASE TaskAttach
  BY <1>7, Zenon DEF TaskAttach, PhaseInv, Before, Cancellable, HasResult, Storing
<1>8. CASE TaskPanic
  BY <1>8, Zenon DEF TaskPanic, PhaseInv, Before, Cancellable, HasResult, Storing
<1>9. CASE TaskFlush
  BY <1>9, Zenon DEF TaskFlush, Flushing, PhaseInv, Before, Cancellable, HasResult, Storing
<1>10. CASE TaskDrain
  BY <1>10, Zenon DEF TaskDrain, PhaseInv, Before, Cancellable, HasResult, Storing
<1>11. CASE TaskSettle
  BY <1>11, Zenon DEF TaskSettle, SetStatus, PhaseInv, Before, Cancellable, HasResult, Storing
<1>12. CASE TaskStore
  <2>1. result' # NoResult
    BY <1>12, ReportMade, Zenon DEF TaskStore, Storing
  <2> QED
    BY <1>12, <2>1, Zenon DEF TaskStore, PhaseInv, Before, Cancellable, HasResult, Storing
<1>13. CASE TaskFinish
  BY <1>13, Zenon DEF TaskFinish, PhaseInv, Before, Cancellable, HasResult, Storing
<1>14. CASE TaskCleanup
  BY <1>14, Zenon DEF TaskCleanup, PhaseInv, Before, Cancellable, HasResult, Storing
<1>15. CASE TaskWait \/ TaskTimeout \/ TaskWaitError
  BY <1>15, Zenon DEF TaskWait, TaskTimeout, TaskWaitError, PhaseInv, Before, Cancellable, HasResult, Storing
<1>16. CASE CancelMark
  BY <1>16, Zenon DEF CancelMark, PhaseInv, Before, Cancellable, HasResult, Storing
<1>17. CASE CancelSend
  BY <1>17, Zenon DEF CancelSend, PhaseInv, Before, Cancellable, HasResult, Storing
<1>19. CASE TaskStart
  BY <1>19, Zenon DEF TaskStart, PhaseInv, Before, Cancellable, HasResult, Storing
<1>18. CASE Evict
  BY <1>18, Zenon DEF Evict, PhaseInv, Before, Cancellable, HasResult, Storing
<1> QED
  BY <1>1, <1>2, <1>3, <1>4, <1>5, <1>6, <1>7, <1>8, <1>9, <1>10, <1>11, <1>12, <1>13, <1>14, <1>15,
     <1>16, <1>17, <1>18, <1>19, Zenon DEF ServerNext, TaskStep

Finishing == {"early_store", "cleanup", "over"}

\* Nothing is broadcast after Finished but the status of a cancellation.
LEMMA Quiet ==
  ASSUME OrderTypes, PhaseInv, SentInv, ServerNext
  PROVE  /\ task \in Finishing => task' \in Finishing /\ (sent' = sent \/ CancelSend)
         /\ task \in Finishing => (cancelling' => cancelling)
<1>1. CASE TaskBegin \/ TaskBuilding \/ TaskFailsEarly \/ TaskEarlyFinish \/ TaskStart \/ TaskAttach \/ TaskPanic
           \/ TaskFlush \/ TaskDrain \/ TaskSettle \/ TaskStore \/ TaskFinish
           \/ Claim \/ TaskWait \/ TaskTimeout \/ TaskWaitError
  <2>1. task \notin Finishing
    BY <1>1, Zenon DEF TaskBegin, TaskBuilding, TaskFailsEarly, TaskEarlyFinish, TaskStart, TaskAttach, TaskPanic,
       TaskFlush, Flushing, TaskDrain, TaskSettle, TaskStore, TaskFinish, Claim, TaskWait, TaskTimeout,
       TaskWaitError, Finishing
  <2> QED
    BY <2>1, Zenon
<1>2. CASE TaskEarlyStore \/ TaskCleanup
  <2>1. task' \in Finishing /\ sent' = sent
    BY <1>2, Zenon DEF TaskEarlyStore, TaskCleanup, Finishing
  <2>2. cancelling' = cancelling
    BY <1>2, Zenon DEF TaskEarlyStore, TaskCleanup, miscVars
  <2> QED
    BY <2>1, <2>2, Zenon
<1>3. CASE CancelMark
  BY <1>3, Zenon DEF CancelMark, Finishing, PhaseInv, Cancellable
<1>4. CASE CancelSend
  BY <1>4, Zenon DEF CancelSend
<1>5. CASE Evict
  BY <1>5, Zenon DEF Evict, miscVars
<1> QED
  BY <1>1, <1>2, <1>3, <1>4, <1>5, Zenon DEF ServerNext, TaskStep

LEMMA SentStep ==
  ASSUME OrderTypes, RelayTypes, PhaseInv, SentInv, ServerNext
  PROVE  SentInv'
<1>1. sent \in Seq(Frame) /\ events \in Seq(LineNos)
  BY Zenon DEF OrderTypes, RelayTypes
<1>2. Len(sent) \in Nat /\ DOMAIN sent = 1 .. Len(sent)
  BY <1>1, SeqParts, Zenon
<1>3. StatusEvent # FinishedEvent /\ StatusEvent # CloseFrame /\ FinishedEvent # CloseFrame
  BY FramesTyped, Zenon
<1>4. \A i \in 1 .. Len(sent) : sent[i] # CloseFrame
  BY <1>2, Zenon DEF SentInv
<1>5. CASE task \in Finishing
  <2>1. task' \in Finishing /\ (cancelling' => cancelling)
    BY <1>5, Quiet, Zenon
  <2>2. CASE sent' = sent
    BY <2>1, <2>2, Zenon DEF SentInv, Finished, Finishing
  <2>3. CASE CancelSend /\ sent' # sent
    <3>1. sent' = Append(sent, StatusEvent) /\ cancelling /\ ~cancelling'
      BY <2>3, Zenon DEF CancelSend
    <3>2. /\ Len(sent') = Len(sent) + 1 /\ DOMAIN sent' = 1 .. Len(sent')
          /\ sent'[Len(sent) + 1] = StatusEvent
          /\ \A i \in 1 .. Len(sent) : sent'[i] = sent[i]
          /\ \A i \in 1 .. Len(sent') : i \in 1 .. Len(sent) \/ i = Len(sent) + 1
      BY <1>1, <3>1, FramesTyped, GrowsByOne, Zenon DEF Grows
    <3>3. Len(sent) = Len(sent') - 1
      BY <1>2, <3>2, SMT
    <3>4. \A i \in 1 .. Len(sent) : sent[i] = FinishedEvent => i = Len(sent)
      BY <1>2, <3>1, Zenon DEF SentInv
    <3>5. \A i \in 1 .. Len(sent') : sent'[i] # CloseFrame
      BY <1>3, <1>4, <3>2, Zenon
    <3>6. \A i \in 1 .. Len(sent') : sent'[i] = FinishedEvent => i = Len(sent') - 1
      BY <1>3, <3>2, <3>3, <3>4, Zenon
    <3> QED
      BY <2>1, <3>1, <3>2, <3>5, <3>6, Zenon DEF SentInv, Finishing
  <2> QED
    BY <1>5, <2>2, <2>3, Quiet, Zenon
<1>6. CASE task \notin Finishing
  <2>1. \A i \in 1 .. Len(sent) : sent[i] # FinishedEvent
    BY <1>2, <1>6, Zenon DEF SentInv, Finished, Finishing
  <2>2. ASSUME DOMAIN sent' = 1 .. Len(sent'),
               \A i \in 1 .. Len(sent') : sent'[i] # FinishedEvent /\ sent'[i] # CloseFrame
        PROVE  SentInv'
    BY <2>2, Zenon DEF SentInv, Finished
  <2>3. CASE sent' = sent
    BY <1>2, <1>4, <2>1, <2>2, <2>3, Zenon
  <2>4. ASSUME NEW e \in Frame, sent' = Append(sent, e)
        PROVE  /\ DOMAIN sent' = 1 .. Len(sent')
               /\ Len(sent') = Len(sent) + 1
               /\ \A i \in 1 .. Len(sent') : \/ sent'[i] # FinishedEvent /\ sent'[i] # CloseFrame
                                             \/ i = Len(sent') /\ sent'[i] = e
    <3>1. /\ Len(sent') = Len(sent) + 1 /\ DOMAIN sent' = 1 .. Len(sent')
          /\ sent'[Len(sent) + 1] = e
          /\ \A i \in 1 .. Len(sent) : sent'[i] = sent[i]
          /\ \A i \in 1 .. Len(sent') : i \in 1 .. Len(sent) \/ i = Len(sent) + 1
      BY <1>1, <2>4, GrowsByOne, Zenon DEF Grows
    <3> QED
      BY <1>4, <2>1, <3>1, Zenon
  <2>5. CASE sent' = Append(sent, StatusEvent)
    BY <1>3, <2>2, <2>4, <2>5, FramesTyped, ZenonT(60)
  <2>6. CASE (TaskFinish \/ TaskEarlyFinish) /\ sent' = Append(sent, FinishedEvent)
    <3>1. task' \in {"early_store", "cleanup"}
      BY <2>6, Zenon DEF TaskFinish, TaskEarlyFinish
    <3>2. /\ DOMAIN sent' = 1 .. Len(sent')
          /\ \A i \in 1 .. Len(sent') : \/ sent'[i] # FinishedEvent /\ sent'[i] # CloseFrame
                                        \/ i = Len(sent') /\ sent'[i] = FinishedEvent
      BY <2>4, <2>6, FramesTyped, Zenon
    <3> QED
      BY <1>3, <3>1, <3>2, Zenon DEF SentInv
  <2>7. CASE TaskDrain /\ sent' = sent \o Packages(events)
    <3>1. /\ \A i \in 1 .. Len(events) : sent'[Len(sent) + i] = PackageEvent(events[i])
          /\ \A j \in 1 .. Len(sent') : \/ j \in 1 .. Len(sent)
                                        \/ \E i \in 1 .. Len(events) : j = Len(sent) + i
          /\ DOMAIN sent' = 1 .. Len(sent')
          /\ \A i \in 1 .. Len(sent) : sent'[i] = sent[i]
      BY <1>1, <2>7, GrowsByDrain, Zenon DEF Grows
    <3>2. \A i \in 1 .. Len(events) : events[i] \in Nat
      <4>1. \A i \in 1 .. Len(events) : events[i] \in LineNos
        BY <1>1, SeqParts, Zenon
      <4> QED
        BY <4>1, Zenon DEF LineNos
    <3>3. \A i \in Nat : PackageEvent(i) # FinishedEvent /\ PackageEvent(i) # CloseFrame
      BY FramesTyped, Zenon
    <3>4. \A j \in 1 .. Len(sent') : sent'[j] # FinishedEvent /\ sent'[j] # CloseFrame
      BY <1>4, <2>1, <3>1, <3>2, <3>3, ZenonT(60)
    <3> QED
      BY <2>2, <3>1, <3>4, Zenon
  <2> QED
    BY <2>3, <2>5, <2>6, <2>7, ServerSends, Zenon
<1> QED
  BY <1>5, <1>6, Zenon

(***************************************************************************)
(* The relay: types and invariant.                                         *)
(***************************************************************************)
LEMMA ExactNone ==
  ASSUME NEW lines, NEW m \in Nat
  PROVE  ExactIn(lines, m, <<>>, m)
<1>1. DOMAIN <<>> = {} /\ m + 1 .. m = {}
  BY SMT
<1> QED
  BY <1>1, Zenon DEF ExactIn, Increasing, Elems

LEMMA ExactSkip ==
  ASSUME NEW lines, NEW m \in Nat, NEW s, NEW n \in Nat, n >= m,
         lines[n + 1] \notin Reports, ExactIn(lines, m, s, n)
  PROVE  ExactIn(lines, m, s, n + 1)
<1>1. \A i : i \in m + 1 .. n + 1 <=> i \in m + 1 .. n \/ i = n + 1
  BY SMT
<1>2. {i \in m + 1 .. n + 1 : lines[i] \in Reports} = {i \in m + 1 .. n : lines[i] \in Reports}
  BY <1>1, Zenon
<1> QED
  BY <1>2, Zenon DEF ExactIn

LEMMA ExactTake ==
  ASSUME NEW lines, NEW m \in Nat, NEW s \in Seq(LineNos), NEW n \in Nat, n >= m,
         lines[n + 1] \in Reports, ExactIn(lines, m, s, n)
  PROVE  ExactIn(lines, m, Append(s, n + 1), n + 1)
<1> DEFINE new == Append(s, n + 1)
           old == {i \in m + 1 .. n : lines[i] \in Reports}
<1>1. n + 1 \in LineNos
  BY SMT DEF LineNos
<1>2. /\ Len(new) = Len(s) + 1 /\ Len(s) \in Nat /\ DOMAIN s = 1 .. Len(s)
      /\ \A i \in 1 .. Len(s) : new[i] = s[i] /\ s[i] \in LineNos
      /\ new[Len(s) + 1] = n + 1 /\ new \in Seq(LineNos)
  <2> DEFINE x == n + 1
  <2>1. x \in LineNos
    BY <1>1, Zenon
  <2> HIDE DEF x
  <2>2. /\ Append(s, x) \in Seq(LineNos) /\ Len(Append(s, x)) = Len(s) + 1
        /\ \A i \in 1 .. Len(s) : Append(s, x)[i] = s[i]
        /\ Append(s, x)[Len(s) + 1] = x
    BY <2>1, SMT
  <2>3. Len(s) \in Nat /\ DOMAIN s = 1 .. Len(s) /\ \A i \in 1 .. Len(s) : s[i] \in LineNos
    BY SeqParts, Zenon
  <2> QED
    BY <2>2, <2>3, Zenon DEF x
<1>3. DOMAIN new = 1 .. Len(new)
  BY <1>2, SeqParts, Zenon
<1>4. \A i \in 1 .. Len(s) : s[i] \in old
  BY <1>2, Zenon DEF ExactIn, Elems
<1>5. \A i : i \in m + 1 .. n + 1 <=> i \in m + 1 .. n \/ i = n + 1
  BY SMT
<1>6. \A i : i \in DOMAIN new <=> i \in 1 .. Len(s) \/ i = Len(s) + 1
  <2> HIDE DEF new
  <2> QED
    BY <1>2, <1>3, SMT
<1>7. Elems(new) = {i \in m + 1 .. n + 1 : lines[i] \in Reports}
  <2>1. Elems(s) = old
    BY Zenon DEF ExactIn
  <2>2. \A x : x \in Elems(new) <=> x \in Elems(s) \/ x = n + 1
    <3> HIDE DEF new
    <3> QED
      BY <1>2, <1>6, Zenon DEF Elems
  <2>3. \A x : x \in old <=> x \in m + 1 .. n /\ lines[x] \in Reports
    BY Zenon
  <2> HIDE DEF new, old
  <2>4. \A x : x \in Elems(new) <=> x \in m + 1 .. n + 1 /\ lines[x] \in Reports
    BY <1>5, <2>1, <2>2, <2>3, Zenon
  <2> QED
    BY <2>4, Zenon
<1>8. Increasing(new)
  <2>1. \A i \in 1 .. Len(s) : s[i] \in m + 1 .. n
    BY <1>4, Zenon
  <2>2. \A i, j \in 1 .. Len(s) : i < j => s[i] < s[j]
    BY <1>2, Zenon DEF ExactIn, Increasing
  <2> HIDE DEF new, old
  <2>3. \A i \in 1 .. Len(s) : s[i] < n + 1
    BY <2>1, SMT
  <2>4. \A i \in 1 .. Len(s) : ~ (Len(s) + 1 < i) /\ ~ (Len(s) + 1 < Len(s) + 1)
    BY <1>2, SMT
  <2>5. ASSUME NEW i \in DOMAIN new, NEW j \in DOMAIN new, i < j
        PROVE  new[i] < new[j]
    <3>1. CASE i \in 1 .. Len(s) /\ j \in 1 .. Len(s)
      BY <1>2, <2>2, <2>5, <3>1, Zenon
    <3>2. CASE i \in 1 .. Len(s) /\ j = Len(s) + 1
      BY <1>2, <2>3, <3>2, Zenon
    <3>3. CASE i = Len(s) + 1
      BY <1>2, <1>6, <2>5, <3>3, SMT
    <3> QED
      BY <1>6, <3>1, <3>2, <3>3, Zenon
  <2> QED
    BY <2>5, Zenon DEF Increasing
<1> QED
  BY <1>7, <1>8, Zenon DEF ExactIn

\* Steps that leave the output alone.
Walks ==
    /\ UNCHANGED <<scenario, printed, missed, pipe, log, held, events>>
    /\ task' \in Before => task \in Before
    /\ task' \in Collecting => task \in Collecting
    /\ task' \in Settling => task \in Settling /\ collected' = collected
    /\ task' \in {"drain_ok", "drain_bad"} => task \in {"drain_ok", "drain_bad"}
    /\ collected' \in {collected, <<>>}
    /\ container' \in {"none", "running", "exit_ok", "exit_bad"}
    /\ container' = "running" => container = "running" \/ task \in Before

LEMMA WalkTypes ==
  ASSUME RelayTypes, Walks
  PROVE  RelayTypes'
<1>1. scenario' = scenario /\ script' = script
  BY Zenon DEF Walks, script
<1>2. collected' \in Seq(LineNos)
  BY SeqEmpty, Zenon DEF Walks, RelayTypes
<1> QED
  BY <1>1, <1>2, Zenon DEF Walks, RelayTypes

LEMMA WalkStep ==
  ASSUME RelayTypes, RelayInv, Walks
  PROVE  RelayInv'
<1>1. script' = script /\ Read' = Read
  BY Zenon DEF Walks, script, Read
<1>2. /\ task' \in Before => log' = "none"
      /\ log' \in {"none", "attaching"} => missed' = 0 /\ pipe' = <<>> /\ events' = <<>>
      /\ log' = "eof" => container' # "running"
      /\ task' \in {"drain_ok", "drain_bad"} \cup Settling => log' \in {"eof", "cut"}
      /\ log' \in {"reading", "sending"} => /\ Read' >= missed'
                                            /\ \A i \in 1 .. Len(pipe') : pipe'[i] = Read' + i
  BY <1>1, Zenon DEF RelayInv, Walks
<1>3. ASSUME task' \in Collecting
      PROVE  /\ log' # "none"
             /\ log' = "reading" => Exact(events, Read)'
             /\ log' = "sending" => /\ held' = Read' /\ script'[held'] \in Reports /\ Read' > missed'
                                    /\ Exact(events, Read - 1)'
             /\ log' = "eof" => Exact(events, printed)'
             /\ log' = "cut" => Partial(events)'
  BY <1>1, <1>3, Zenon DEF RelayInv, Walks, Exact, Partial
<1>4. ASSUME task' \in Settling
      PROVE  /\ log' = "eof" => Exact(collected, printed)'
             /\ Partial(collected)'
  BY <1>1, <1>4, Zenon DEF RelayInv, Walks, Exact, Partial
<1> QED
  BY <1>2, <1>3, <1>4, Zenon DEF RelayInv

LEMMA TaskWalks ==
  ASSUME OrderTypes, RelayTypes, ServerNext
  PROVE  Walks \/ TaskAttach \/ TaskFlush \/ TaskDrain
<1>1. container \in {"none", "running", "exit_ok", "exit_bad"}
  BY Zenon DEF RelayTypes
<1>2. CASE Claim \/ TaskBegin \/ TaskBuilding \/ TaskFailsEarly \/ TaskEarlyFinish \/ TaskEarlyStore
           \/ TaskFinish \/ TaskWait \/ TaskWaitError \/ CancelSend \/ Evict
  <2>1. UNCHANGED <<scenario, printed, missed, pipe, log, held, events, collected, container>>
    BY <1>2, Zenon DEF Claim, TaskBegin, TaskBuilding, TaskFailsEarly, TaskEarlyFinish, TaskEarlyStore,
       TaskFinish, TaskWait, TaskWaitError, CancelSend, Evict, relayVars
  <2>2. /\ task' \in Before => task \in Before
        /\ task' \in Collecting => task \in Collecting
        /\ task' \in Settling => task \in Settling
        /\ task' \in {"drain_ok", "drain_bad"} => task \in {"drain_ok", "drain_bad"}
    BY <1>2, Zenon DEF Claim, TaskBegin, TaskBuilding, TaskFailsEarly, TaskEarlyFinish, TaskEarlyStore,
       TaskFinish, TaskWait, TaskWaitError, CancelSend, Evict, Before, Collecting, Settling
  <2> QED
    BY <1>1, <2>1, <2>2, Zenon DEF Walks
<1>3. CASE TaskStart \/ TaskPanic \/ TaskCleanup \/ TaskTimeout \/ CancelMark
  <2>1. /\ UNCHANGED <<scenario, printed, missed, pipe, log, held, events, collected>>
        /\ container' \in {"none", "running", "exit_ok", "exit_bad"}
    BY <1>1, <1>3, Zenon DEF TaskStart, TaskPanic, TaskCleanup, TaskTimeout, CancelMark, relayVars
  <2>2. /\ task' \in Before => task \in Before
        /\ task' \in Collecting => task \in Collecting
        /\ task' \in Settling => task \in Settling
        /\ task' \in {"drain_ok", "drain_bad"} => task \in {"drain_ok", "drain_bad"}
    BY <1>3, Zenon DEF TaskStart, TaskPanic, TaskCleanup, TaskTimeout, CancelMark, Before, Collecting, Settling
  <2>3. container' = "running" => container = "running" \/ task \in Before
    BY <1>3, Zenon DEF TaskStart, TaskPanic, TaskCleanup, TaskTimeout, CancelMark, Before, relayVars
  <2> QED
    BY <2>1, <2>2, <2>3, Zenon DEF Walks
<1>4. CASE TaskSettle \/ TaskStore
  <2>1. /\ UNCHANGED <<scenario, printed, missed, pipe, log, held, events, container>>
        /\ collected' \in {collected, <<>>} /\ task' \in {"store_ok", "store_bad", "store_none", "finish"}
    BY <1>4, Zenon DEF TaskSettle, TaskStore, relayVars
  <2> QED
    BY <1>1, <2>1, Zenon DEF Walks, Before, Collecting, Settling
<1> QED
  BY <1>2, <1>3, <1>4, Zenon DEF ServerNext, TaskStep

\* What the relay knows of the numbers it works with.
LEMMA RelayNumbers ==
  ASSUME RelayTypes
  PROVE  /\ Len(pipe) \in Nat /\ printed \in Nat /\ Len(events) \in Nat /\ Len(script) \in Nat
         /\ missed \in Nat /\ missed <= printed
         /\ Read \in Int /\ Read <= printed /\ Read = printed - Len(pipe)
<1>1. /\ Len(pipe) \in Nat /\ Len(events) \in Nat /\ printed \in 0 .. Len(script) /\ Len(script) \in Nat
      /\ missed \in 0 .. printed
  BY SeqParts, ScriptTyped, Zenon DEF RelayTypes
<1> QED
  BY <1>1, SMT DEF Read

\* Nothing is read yet.
LEMMA NothingRead ==
  ASSUME RelayTypes, events = <<>>, missed = 0
  PROVE  Partial(events)
<1>1. 0 \in Nat /\ 0 \in missed .. printed
  BY RelayNumbers, SMT
<1>2. Exact(events, 0)
  BY <1>1, ExactNone, Zenon DEF Exact
<1> QED
  BY <1>1, <1>2, Zenon DEF Partial

LEMMA ServerRelay ==
  ASSUME OrderTypes, RelayTypes, RelayInv, ServerNext
  PROVE  RelayTypes' /\ RelayInv'
<1>0. scenario' = scenario /\ script' = script /\ printed' = printed /\ missed' = missed
  BY ServerFrame, Zenon DEF script
<1>n. /\ Len(pipe) \in Nat /\ printed \in Nat /\ missed \in Nat /\ missed <= printed
      /\ Read \in Int /\ Read <= printed
  BY RelayNumbers, Zenon
<1>1. CASE Walks
  BY <1>1, WalkTypes, WalkStep, Zenon
<1>2. CASE TaskAttach
  <2>1. /\ log' = "attaching" /\ task' = "wait" /\ container' = container
        /\ UNCHANGED <<pipe, held, events, collected>> /\ task = "attach"
    BY <1>2, Zenon DEF TaskAttach
  <2>2. log = "none" /\ missed = 0 /\ pipe = <<>> /\ events = <<>>
    BY <2>1, Zenon DEF RelayInv, Before
  <2>3. RelayTypes'
    BY <1>0, <2>1, <2>2, Zenon DEF RelayTypes
  <2> QED
    BY <1>0, <2>1, <2>2, <2>3, Zenon DEF RelayInv, Before, Collecting, Settling
<1>3. CASE TaskFlush
  <2>1. /\ log' = (IF log = "eof" THEN "eof" ELSE "cut") /\ held' = 0 /\ pipe' = <<>>
        /\ UNCHANGED <<container, events, collected>> /\ task \in Collecting
        /\ task' \in {"drain_ok", "drain_bad"}
    BY <1>3, Zenon DEF TaskFlush, Flushing, Collecting
  <2>2. RelayTypes'
    <3>1. 0 \in Nat /\ 0 <= PipeCap
      BY CapAssumption, SMT
    <3> QED
      BY <1>0, <2>1, <3>1, SeqEmpty, Zenon DEF RelayTypes
  <2>3. Exact(events, Read) /\ log = "reading" => Partial(events)
    <3>1. log = "reading" => Read \in missed .. printed
      <4>1. log = "reading" => Read >= missed
        BY Zenon DEF RelayInv
      <4> QED
        BY <1>n, <4>1, SMT
    <3> QED
      BY <3>1, Zenon DEF Partial
  <2>4. Exact(events, Read - 1) /\ log = "sending" => Partial(events)
    <3>1. log = "sending" => Read - 1 \in missed .. printed
      <4>1. log = "sending" => Read > missed
        BY <2>1, Zenon DEF RelayInv
      <4> QED
        BY <1>n, <4>1, SMT
    <3> QED
      BY <3>1, Zenon DEF Partial
  <2>8. log = "attaching" => Partial(events)
    BY NothingRead, Zenon DEF RelayInv
  <2>5. log # "eof" => Partial(events)
    BY <2>1, <2>3, <2>4, <2>8, Zenon DEF RelayInv, RelayTypes
  <2>6. log = "eof" => Exact(events, printed) /\ container # "running"
    BY <2>1, Zenon DEF RelayInv
  <2>7. (Partial(events) => Partial(events)') /\ (Exact(events, printed) => Exact(events, printed)')
    BY <1>0, <2>1, Zenon DEF Partial, Exact
  <2> QED
    BY <2>1, <2>2, <2>5, <2>6, <2>7, Zenon DEF RelayInv, Before, Collecting, Settling
<1>4. CASE TaskDrain
  <2>1. /\ collected' = events /\ events' = <<>> /\ task \in {"drain_ok", "drain_bad"}
        /\ task' \in Settling /\ UNCHANGED <<container, pipe, log, held>>
    BY <1>4, Zenon DEF TaskDrain, Settling
  <2>2. RelayTypes'
    <3>1. 0 <= EventCap
      BY CapAssumption, SMT
    <3> QED
      BY <1>0, <2>1, <3>1, SeqEmpty, Zenon DEF RelayTypes
  <2>3. /\ log \in {"eof", "cut"} /\ (log = "eof" => Exact(events, printed) /\ container # "running")
        /\ log = "cut" => Partial(events)
    BY <2>1, Zenon DEF RelayInv, Collecting
  <2>4. log = "eof" => Partial(events)
    <3>1. printed \in missed .. printed
      BY <1>n, SMT
    <3> QED
      BY <2>3, <3>1, Zenon DEF Partial
  <2>5. /\ Partial(events) => Partial(collected)'
        /\ Exact(events, printed) => Exact(collected, printed)'
    BY <1>0, <2>1, Zenon DEF Partial, Exact
  <2> QED
    BY <2>1, <2>2, <2>3, <2>4, <2>5, Zenon DEF RelayInv, Before, Collecting, Settling
<1> QED
  BY <1>1, <1>2, <1>3, <1>4, TaskWalks, Zenon

LEMMA OutputRelay ==
  ASSUME OrderTypes, RelayTypes, RelayInv, OutputNext
  PROVE  RelayTypes' /\ RelayInv'
<1>0. scenario' = scenario /\ script' = script /\ collected' = collected /\ task' = task
  BY OutputFrame, Zenon DEF orderVars, script
<1>n. /\ Len(pipe) \in Nat /\ printed \in Nat /\ Len(events) \in Nat /\ Len(script) \in Nat
      /\ missed \in Nat /\ missed <= printed
      /\ Read \in Int /\ Read <= printed /\ Read = printed - Len(pipe)
  BY RelayNumbers, Zenon
<1>p. Read' = printed' - Len(pipe')
  BY Zenon DEF Read
<1>1. CASE ContainerExit
  <2>1. Walks
    BY <1>0, <1>1, Zenon DEF Walks, ContainerExit
  <2> QED
    BY <2>1, WalkTypes, WalkStep, Zenon
<1>2. CASE ContainerPrint /\ Attached
  <2>1. /\ printed < Len(script) /\ log \in {"reading", "sending"} /\ Len(pipe) < PipeCap
        /\ printed' = printed + 1 /\ pipe' = Append(pipe, printed + 1)
        /\ UNCHANGED <<container, log, held, events, missed>>
    BY <1>2, Zenon DEF ContainerPrint, Attached
  <2> DEFINE x == printed + 1
  <2>2. x \in LineNos /\ pipe \in Seq(LineNos) /\ PipeCap \in Nat
    BY <1>n, CapAssumption, SMT DEF LineNos, RelayTypes
  <2> HIDE DEF x
  <2>3. /\ Append(pipe, x) \in Seq(LineNos) /\ Len(Append(pipe, x)) = Len(pipe) + 1
        /\ \A i \in 1 .. Len(pipe) : Append(pipe, x)[i] = pipe[i]
        /\ Append(pipe, x)[Len(pipe) + 1] = x
        /\ \A i \in 1 .. Len(Append(pipe, x)) : i \in 1 .. Len(pipe) \/ i = Len(pipe) + 1
    BY <2>2, SeqMore, Zenon
  <2>4. pipe' = Append(pipe, x) /\ printed' = x
    BY <2>1, Zenon DEF x
  <2>5. /\ Read' = Read /\ Len(pipe') <= PipeCap /\ printed' \in 0 .. Len(script)
        /\ Read + (Len(pipe) + 1) = x /\ missed \in 0 .. printed'
    BY <1>n, <1>p, <2>1, <2>2, <2>3, <2>4, SMT DEF x
  <2>6. RelayTypes'
    BY <1>0, <2>1, <2>3, <2>4, <2>5, Zenon DEF RelayTypes
  <2>7. Read >= missed /\ \A i \in 1 .. Len(pipe) : pipe[i] = Read + i
    BY <2>1, Zenon DEF RelayInv
  <2>8. \A i \in 1 .. Len(pipe') : pipe'[i] = Read' + i
    BY <2>3, <2>4, <2>5, <2>7, Zenon
  <2>9. task \notin Before /\ task \notin {"drain_ok", "drain_bad"} \cup Settling
    BY <2>1, Zenon DEF RelayInv
  <2>10. task \in Collecting =>
           /\ log' = "reading" => Exact(events, Read)'
           /\ log' = "sending" => /\ held' = Read' /\ script'[held'] \in Reports /\ Read' > missed'
                                  /\ Exact(events, Read - 1)'
    BY <1>0, <2>1, <2>5, Zenon DEF RelayInv, Exact
  <2> QED
    BY <1>0, <2>1, <2>5, <2>6, <2>7, <2>8, <2>9, <2>10, Zenon DEF RelayInv
<1>6. CASE ContainerPrint /\ ~Attached
  <2>1. /\ printed < Len(script) /\ log \notin {"reading", "sending"} /\ container = "running"
        /\ printed' = printed + 1 /\ UNCHANGED <<pipe, container, log, held, events, missed>>
    BY <1>6, Zenon DEF ContainerPrint, Attached
  <2>2. printed' \in 0 .. Len(script) /\ missed \in 0 .. printed' /\ \A n \in missed .. printed : n \in missed .. printed'
    BY <1>n, <2>1, SMT
  <2>3. RelayTypes'
    BY <1>0, <2>1, <2>2, Zenon DEF RelayTypes
  <2>4. (Partial(events) => Partial(events)') /\ (Partial(collected) => Partial(collected)')
    BY <1>0, <2>1, <2>2, Zenon DEF Partial, Exact
  <2>5. log # "eof"
    BY <2>1, Zenon DEF RelayInv
  <2>6. task \in Collecting => log # "none" /\ (log = "cut" => Partial(events)')
    BY <2>4, Zenon DEF RelayInv
  <2>7. task \in Settling => Partial(collected)'
    BY <2>4, Zenon DEF RelayInv
  <2>8. /\ task \in Before => log = "none"
        /\ log \in {"none", "attaching"} => missed = 0 /\ pipe = <<>> /\ events = <<>>
        /\ task \in {"drain_ok", "drain_bad"} \cup Settling => log \in {"eof", "cut"}
    BY Zenon DEF RelayInv
  <2>9. events' = events /\ collected' = collected
    BY <1>0, <2>1, Zenon
  <2> QED
    BY <1>0, <2>1, <2>3, <2>5, <2>6, <2>7, <2>8, <2>9, Zenon DEF RelayInv
<1>7. CASE LogAttach
  <2>1. /\ log = "attaching" /\ UNCHANGED <<printed, container, pipe, held, events>>
        /\ \/ log' = "reading" /\ missed' = printed
           \/ log' = "cut" /\ missed' = missed
    BY <1>7, Zenon DEF LogAttach
  <2>2. missed = 0 /\ pipe = <<>> /\ events = <<>>
    BY <2>1, Zenon DEF RelayInv
  <2>3. task \notin Before /\ task \notin {"drain_ok", "drain_bad"} \cup Settling
    BY <2>1, Zenon DEF RelayInv
  <2>4. missed' \in 0 .. printed'
    BY <1>n, <2>1, SMT
  <2>5. RelayTypes'
    BY <1>0, <2>1, <2>4, Zenon DEF RelayTypes
  <2>6. CASE log' = "reading"
    <3>1. Len(pipe') = 0
      BY <2>1, <2>2, SeqEmpty, Zenon
    <3>2. Read' = printed /\ Read' >= missed' /\ 1 .. Len(pipe') = {} /\ missed' = printed
      BY <1>n, <1>p, <2>1, <2>6, <3>1, SMT
    <3>3. Exact(events, Read)'
      BY <1>n, <2>1, <2>2, <3>2, ExactNone, Zenon DEF Exact
    <3> QED
      BY <1>0, <2>3, <2>5, <2>6, <3>2, <3>3, Zenon DEF RelayInv
  <2>7. CASE log' = "cut"
    <3>1. Partial(events)
      BY <2>2, NothingRead, Zenon
    <3>2. Partial(events)'
      BY <1>0, <2>1, <2>7, <3>1, Zenon DEF Partial, Exact
    <3> QED
      BY <1>0, <2>3, <2>5, <2>7, <3>2, Zenon DEF RelayInv
  <2> QED
    BY <2>1, <2>6, <2>7, Zenon
<1>3. CASE LogRead
  <2>1. /\ log = "reading" /\ pipe # <<>> /\ pipe' = Tail(pipe)
        /\ UNCHANGED <<printed, missed, container, events>>
        /\ IF script[Head(pipe)] \in Reports
           THEN held' = Head(pipe) /\ log' = "sending"
           ELSE UNCHANGED <<held, log>>
    BY <1>3, Zenon DEF LogRead
  <2>2. /\ Head(pipe) \in LineNos /\ Tail(pipe) \in Seq(LineNos) /\ Head(pipe) = pipe[1] /\ 1 \in 1 .. Len(pipe)
        /\ Len(Tail(pipe)) = Len(pipe) - 1
        /\ \A i \in 1 .. Len(Tail(pipe)) : i + 1 \in 1 .. Len(pipe) /\ Tail(pipe)[i] = pipe[i + 1]
    BY <2>1, SeqParts, ZenonT(60) DEF RelayTypes
  <2>3. Read >= missed /\ \A i \in 1 .. Len(pipe) : pipe[i] = Read + i
    BY <2>1, Zenon DEF RelayInv
  <2>4. Head(pipe) = Read + 1 /\ Head(pipe) \in Nat /\ Head(pipe) # 0
    <3>1. Head(pipe) = Read + 1
      BY <2>2, <2>3, Zenon
    <3>2. Read + 1 \in Nat /\ Read + 1 # 0
      BY <1>n, <2>3, SMT
    <3> QED
      BY <3>1, <3>2, Zenon
  <2>5. /\ Read' = Read + 1 /\ Read' > missed /\ Read' >= missed /\ Read' - 1 = Read /\ Read \in Nat
        /\ Len(pipe) - 1 <= Len(pipe) /\ (Len(pipe) <= PipeCap => Len(pipe) - 1 <= PipeCap)
    <3>1. Len(pipe') = Len(pipe) - 1 /\ printed' = printed /\ PipeCap \in Nat
      BY <2>1, <2>2, CapAssumption, Zenon
    <3> QED
      BY <1>n, <1>p, <2>3, <3>1, SMT
  <2>6. RelayTypes'
    <3>1. held' \in Nat /\ (held' # 0 <=> log' = "sending") /\ log' \in {"reading", "sending"}
      BY <2>1, <2>4, Zenon DEF RelayTypes
    <3>2. pipe' \in Seq(LineNos) /\ Len(pipe') <= PipeCap
      BY <2>1, <2>2, <2>5, Zenon DEF RelayTypes
    <3> QED
      BY <1>0, <2>1, <3>1, <3>2, Zenon DEF RelayTypes
  <2>7. ASSUME NEW i \in 1 .. Len(pipe')
        PROVE  pipe'[i] = Read' + i
    <3>1. i + 1 \in 1 .. Len(pipe) /\ pipe'[i] = pipe[i + 1]
      BY <2>1, <2>2, Zenon
    <3>2. pipe[i + 1] = Read + (i + 1)
      BY <2>3, <3>1, Zenon
    <3>3. Read + (i + 1) = (Read + 1) + i
      BY <1>n, SMT
    <3> QED
      BY <2>5, <3>1, <3>2, <3>3, Zenon
  <2>8. task \notin Before /\ task \notin {"drain_ok", "drain_bad"} \cup Settling
        /\ (task \in Collecting => Exact(events, Read))
    BY <2>1, Zenon DEF RelayInv
  <2>9. CASE script[Head(pipe)] \in Reports
    <3>1. log' = "sending" /\ held' = Read' /\ script'[held'] \in Reports /\ Read' > missed'
      BY <1>0, <2>1, <2>4, <2>5, <2>9, Zenon
    <3>2. Exact(events, Read) => Exact(events, Read - 1)'
      BY <1>0, <2>1, <2>5, Zenon DEF Exact
    <3> QED
      BY <1>0, <2>1, <2>5, <2>6, <2>7, <2>8, <3>1, <3>2, Zenon DEF RelayInv
  <2>10. CASE script[Head(pipe)] \notin Reports
    <3>1. log' = "reading"
      BY <2>1, <2>10, Zenon
    <3>2. script[Read + 1] \notin Reports
      BY <2>4, <2>10, Zenon
    <3>3. Exact(events, Read) => Exact(events, Read + 1)
      BY <1>n, <2>3, <2>5, <3>2, ExactSkip, Zenon DEF Exact
    <3>4. Exact(events, Read) => Exact(events, Read)'
      BY <1>0, <2>1, <2>5, <3>3, Zenon DEF Exact
    <3> QED
      BY <1>0, <2>1, <2>5, <2>6, <2>7, <2>8, <3>1, <3>4, Zenon DEF RelayInv
  <2> QED
    BY <2>9, <2>10, Zenon
<1>4. CASE LogSend
  <2>1. /\ log = "sending" /\ Len(events) < EventCap /\ events' = Append(events, held)
        /\ held' = 0 /\ log' = "reading" /\ UNCHANGED <<printed, missed, container, pipe>>
    BY <1>4, Zenon DEF LogSend
  <2>2. held \in LineNos /\ events \in Seq(LineNos) /\ EventCap \in Nat
    BY <2>1, CapAssumption, Zenon DEF RelayTypes, LineNos
  <2>3. Append(events, held) \in Seq(LineNos) /\ Len(Append(events, held)) = Len(events) + 1
    BY <2>2, SeqMore, Zenon
  <2>4. Len(events) + 1 <= EventCap /\ 0 \in Nat /\ Read' = Read
    BY <1>n, <1>p, <2>1, <2>2, SMT
  <2>5. RelayTypes'
    BY <1>0, <2>1, <2>3, <2>4, Zenon DEF RelayTypes
  <2>6. Read >= missed /\ \A i \in 1 .. Len(pipe) : pipe[i] = Read + i
    BY <2>1, Zenon DEF RelayInv
  <2>7. task \notin Before /\ task \notin {"drain_ok", "drain_bad"} \cup Settling
    BY <2>1, Zenon DEF RelayInv
  <2>8. ASSUME task \in Collecting
        PROVE  Exact(events, Read)'
    <3>1. held = Read /\ script[held] \in Reports /\ Exact(events, Read - 1) /\ Read > missed
      BY <2>1, <2>8, Zenon DEF RelayInv
    <3>2. Read \in LineNos
      BY <2>2, <3>1, Zenon
    <3>3. Read - 1 \in Nat /\ (Read - 1) + 1 = Read /\ Read - 1 >= missed
      BY <1>n, <3>1, <3>2, SMT DEF LineNos
    <3>4. ExactIn(script, missed, Append(events, (Read - 1) + 1), (Read - 1) + 1)
      BY <1>n, <2>2, <3>1, <3>3, ExactTake, Zenon DEF Exact
    <3> QED
      BY <1>0, <2>1, <2>4, <3>1, <3>3, <3>4, Zenon DEF Exact
  <2> QED
    BY <1>0, <2>1, <2>4, <2>5, <2>6, <2>7, <2>8, Zenon DEF RelayInv
<1>5. CASE LogEnd
  <2>1. /\ log = "reading" /\ UNCHANGED <<printed, missed, container, pipe, held, events>>
        /\ (pipe = <<>> /\ container # "running" /\ log' = "eof") \/ log' = "cut"
    BY <1>5, Zenon DEF LogEnd
  <2>2. RelayTypes'
    BY <1>0, <2>1, Zenon DEF RelayTypes
  <2>3. task \notin Before /\ task \notin {"drain_ok", "drain_bad"} \cup Settling
    BY <2>1, Zenon DEF RelayInv
  <2>4. Read \in missed .. printed
    <3>1. Read >= missed
      BY <2>1, Zenon DEF RelayInv
    <3> QED
      BY <1>n, <3>1, SMT
  <2>5. task \in Collecting => Exact(events, Read)
    BY <2>1, Zenon DEF RelayInv
  <2>6. task \in Collecting => Partial(events)'
    BY <1>0, <2>1, <2>4, <2>5, Zenon DEF Partial, Exact
  <2>7. log' = "eof" => Read = printed
    <3>1. pipe = <<>> => Len(pipe) = 0
      BY SeqEmpty, Zenon
    <3>2. Len(pipe) = 0 => Read = printed
      BY <1>n, SMT
    <3> QED
      BY <2>1, <3>1, <3>2, Zenon
  <2>8. task \in Collecting /\ log' = "eof" => Exact(events, printed)'
    BY <1>0, <2>1, <2>5, <2>7, Zenon DEF Exact
  <2> QED
    BY <1>0, <2>1, <2>2, <2>3, <2>6, <2>8, Zenon DEF RelayInv
<1> QED
  BY <1>1, <1>2, <1>3, <1>4, <1>5, <1>6, <1>7, Zenon DEF OutputNext

\* The steps of the others.
LEMMA OtherRelay ==
  ASSUME RelayTypes, RelayInv, UNCHANGED relayVars, task' = task
  PROVE  RelayTypes' /\ RelayInv'
<1>1. Walks
  BY Zenon DEF Walks, relayVars, RelayTypes
<1> QED
  BY <1>1, WalkTypes, WalkStep, Zenon

(***************************************************************************)
(* The stream of a follower.                                               *)
(***************************************************************************)

\* A channel that is closed stays closed, and nothing is sent on it.
LEMMA Closed ==
  ASSUME OrderTypes, PhaseInv, ServerNext
  PROVE  /\ "progress" \notin listed => "progress" \notin listed'
         /\ ProgressClosed => ProgressClosed' /\ sent' = sent
<1>1. "progress" \notin listed => "progress" \notin listed'
  <2>1. listed' = listed \/ listed' = listed \cup {"stdin"} \/ listed' = listed \ {"raw"} \/ listed' = {}
    BY Zenon DEF ServerNext, TaskStep, Claim, TaskBegin, TaskBuilding, TaskFailsEarly, TaskEarlyFinish,
       TaskEarlyStore, TaskStart, TaskAttach, TaskPanic, TaskFlush, TaskDrain, TaskSettle, TaskStore, TaskFinish,
       TaskCleanup, TaskWait, TaskTimeout, TaskWaitError, CancelMark, CancelSend, Evict
  <2>2. "progress" \in listed \cup {"stdin"} \/ "progress" \in listed \ {"raw"} => "progress" \in listed
    BY Zenon
  <2> QED
    BY <2>1, <2>2, Zenon
<1>2. ASSUME "progress" \notin listed, task \in {"queued", "claimed", "over"}
      PROVE  task' \in {"queued", "claimed", "over"} /\ sent' = sent
  <2>1. CASE TaskBuilding \/ TaskFailsEarly \/ TaskEarlyFinish \/ TaskEarlyStore \/ TaskStart \/ TaskAttach \/ TaskPanic
             \/ TaskFlush \/ TaskDrain \/ TaskSettle \/ TaskStore \/ TaskFinish \/ TaskCleanup
             \/ TaskWait \/ TaskTimeout \/ TaskWaitError
    <3>1. task \notin {"queued", "claimed", "over"}
      BY <2>1, Zenon DEF TaskBuilding, TaskFailsEarly, TaskEarlyFinish, TaskEarlyStore, TaskStart, TaskAttach,
         TaskPanic, TaskFlush, Flushing, TaskDrain, TaskSettle, TaskStore, TaskFinish, TaskCleanup,
         TaskWait, TaskTimeout, TaskWaitError
    <3> QED
      BY <1>2, <3>1, Zenon
  <2>2. CASE Claim
    BY <1>2, <2>2, Zenon DEF Claim, PhaseInv
  <2>3. CASE TaskBegin \/ CancelMark \/ CancelSend \/ Evict
    BY <1>2, <2>3, Zenon DEF TaskBegin, CancelMark, CancelSend, Evict
  <2> QED
    BY <2>1, <2>2, <2>3, Zenon DEF ServerNext, TaskStep
<1> QED
  BY <1>1, <1>2, Zenon DEF ProgressClosed

\* What the order must do for the stream of a follower that stands still.
Keeps ==
    /\ Grows /\ faults' \in Nat /\ faults' >= faults
    /\ "progress" \notin listed => "progress" \notin listed'
    /\ ProgressClosed => ProgressClosed' /\ sent' = sent

LEMMA FollowKept ==
  ASSUME WireTypes, Keeps, NEW f \in Followers, SameHandler(f), SameCli(f), SameFrames(f), FollowOne(f)
  PROVE  FollowOne(f)'
<1>1. /\ handler'[f] = handler[f] /\ cli'[f] = cli[f] /\ frames'[f] = frames[f]
      /\ handler[f].pos \in Nat /\ Len(frames[f]) \in Nat
  <2>1. handler[f] \in Handlers /\ frames[f] \in Seq(Frame)
    BY Zenon DEF WireTypes
  <2>2. handler[f].pos \in Nat
    BY <2>1, Zenon DEF Handlers
  <2>3. Len(frames[f]) \in Nat
    BY <2>1, SeqParts, Zenon
  <2> QED
    BY <2>2, <2>3, Zenon DEF SameHandler, SameCli, SameFrames
<1>2. handler[f].pos <= Len(sent) /\ Grows
  BY Zenon DEF FollowOne, Keeps
<1>3. handler[f].pos <= Len(sent') /\ \A i \in 1 .. handler[f].pos : i \in 1 .. Len(sent)
  BY <1>1, <1>2, SMT DEF Grows
<1>4. \A i \in 1 .. handler[f].pos : sent'[i] = sent[i]
  BY <1>2, <1>3, Zenon DEF Grows
<1>5. Finished => Finished'
  BY <1>2, Zenon DEF Finished, Grows
<1>6. Shut(f) => Shut(f)'
  BY <1>1, Zenon DEF Shut, Keeps, Finished
<1>7. StreamOpen(f) => StreamOpen(f)'
  BY <1>1, <1>4, Zenon DEF StreamOpen
<1>8. StreamClosing(f) => StreamClosing(f)'
  BY <1>1, <1>5, <1>6, Zenon DEF StreamClosing
<1>9. (faults' = 0 => faults = 0) /\ (faults > 0 => faults' > 0)
  <2>1. faults \in Nat /\ faults' \in Nat /\ faults' >= faults
    BY Zenon DEF Keeps, WireTypes
  <2> QED
    BY <2>1, SMT
<1> QED
  BY <1>1, <1>3, <1>5, <1>6, <1>7, <1>8, <1>9, Zenon DEF FollowOne, Keeps

\* The order stays as it is.
LEMMA StillKeeps ==
  ASSUME OrderTypes, UNCHANGED orderVars, faults' \in Nat, faults' >= faults
  PROVE  Keeps
<1>1. sent \in Seq(Frame) /\ sent' = sent /\ listed' = listed /\ task' = task
  BY Zenon DEF OrderTypes, orderVars
<1>2. Grows
  BY <1>1, GrowsByNone, Zenon
<1> QED
  BY <1>1, <1>2, Zenon DEF Keeps, ProgressClosed

LEMMA ServerKeeps ==
  ASSUME OrderTypes, RelayTypes, WireTypes, PhaseInv, ServerNext
  PROVE  Keeps
<1>1. faults' = faults /\ faults \in Nat
  BY ServerFrame, Zenon DEF WireTypes
<1>2. faults >= faults
  BY <1>1, SMT
<1> QED
  BY <1>1, <1>2, Closed, ServerGrows, Zenon DEF Keeps

\* What is known of a follower's stream, and of the order while the follower moves.
LEMMA StreamNumbers ==
  ASSUME OrderTypes, WireTypes, NEW f \in Followers
  PROVE  /\ Len(sent) \in Nat /\ DOMAIN sent = 1 .. Len(sent)
         /\ handler[f] \in Handlers /\ handler[f].pos \in Nat
         /\ frames[f] \in Seq(Frame) /\ Len(frames[f]) \in Nat /\ DOMAIN frames[f] = 1 .. Len(frames[f])
         /\ cli[f] \in Clis
<1>1. sent \in Seq(Frame) /\ handler[f] \in Handlers /\ frames[f] \in Seq(Frame) /\ cli[f] \in Clis
  BY Zenon DEF OrderTypes, WireTypes
<1>2. handler[f].pos \in Nat
  BY <1>1, Zenon DEF Handlers
<1>3. Len(sent) \in Nat /\ DOMAIN sent = 1 .. Len(sent)
  BY <1>1, SeqParts, Zenon
<1>4. Len(frames[f]) \in Nat /\ DOMAIN frames[f] = 1 .. Len(frames[f])
  BY <1>1, SeqParts, Zenon
<1> QED
  BY <1>1, <1>2, <1>3, <1>4, Zenon

\* A handler at work serves a follower that reads.
LEMMA AtWork ==
  ASSUME NEW f \in Followers, FollowOne(f), handler[f].at \in {"opening", "run"}
  PROVE  cli[f].at = "stream" /\ StreamOpen(f)
  BY Zenon DEF FollowOne, StreamClosing

LEMMA FollowOpens ==
  ASSUME OrderTypes, WireTypes, UNCHANGED orderVars, NEW f \in Followers, FollowOne(f),
         Connects(f) \/ Misses(f)
  PROVE  FollowOne(f)'
<1>1. sent' = sent /\ task' = task /\ listed' = listed
  BY Zenon DEF orderVars
<1>2. cli[f].at = "new" /\ handler[f] = NoHandler /\ frames[f] = <<>> /\ frames'[f] = <<>>
  BY Zenon DEF FollowOne, Connects, Misses, SameFrames
<1>3. Len(sent) \in Nat /\ DOMAIN sent = 1 .. Len(sent) /\ Len(sent) <= Len(sent) /\ 0 <= Len(sent)
  <2>1. Len(sent) \in Nat /\ DOMAIN sent = 1 .. Len(sent)
    BY StreamNumbers, Zenon
  <2> QED
    BY <2>1, SMT
<1>4. CASE Connects(f)
  <2>1. handler'[f].at = "opening" /\ handler'[f].pos = Len(sent) /\ cli'[f].at = "stream"
        /\ cli'[f].early = (\A i \in DOMAIN sent : sent[i].kind = "status")
    BY <1>4, Zenon DEF Connects
  <2>2. cli'[f].early => \A i \in 1 .. Len(sent) : sent[i] # FinishedEvent
    BY <1>3, <2>1, FramesTyped, Zenon
  <2>3. \A i \in DOMAIN frames'[f] : frames'[f][i] \notin Ends
    <3>1. DOMAIN <<>> = {}
      BY SMT
    <3> QED
      BY <1>2, <3>1, Zenon
  <2>4. StreamOpen(f)'
    BY <1>1, <2>1, <2>2, <2>3, Zenon DEF StreamOpen
  <2> QED
    BY <1>1, <1>3, <2>1, <2>4, Zenon DEF FollowOne
<1>5. CASE Misses(f)
  <2>1. /\ cli'[f].at = "error" /\ cli'[f].why = "not_found" /\ "progress" \notin listed
        /\ handler'[f] = NoHandler
    BY <1>2, <1>5, Zenon DEF Misses, SameHandler
  <2>2. handler'[f].at = "none" /\ handler'[f].pos = 0
    <3>1. NoHandler.at = "none" /\ NoHandler.pos = 0
      BY Zenon DEF NoHandler
    <3> QED
      BY <2>1, <3>1, Zenon
  <2> QED
    BY <1>1, <1>3, <2>1, <2>2, Zenon DEF FollowOne
<1> QED
  BY <1>4, <1>5, Zenon

LEMMA FollowRuns ==
  ASSUME OrderTypes, WireTypes, SentInv, UNCHANGED orderVars, NEW f \in Followers, FollowOne(f),
         Attends(f) \/ Lags(f) \/ Forwards(f)
  PROVE  FollowOne(f)'
<1>1. sent' = sent /\ task' = task /\ listed' = listed
  BY Zenon DEF orderVars
<1>2. /\ Len(sent) \in Nat /\ DOMAIN sent = 1 .. Len(sent) /\ handler[f].pos \in Nat
      /\ frames[f] \in Seq(Frame) /\ Len(frames[f]) \in Nat /\ DOMAIN frames[f] = 1 .. Len(frames[f])
  BY StreamNumbers, Zenon
<1>3. handler[f].at \in {"opening", "run"} /\ handler'[f].at = "run"
  BY Zenon DEF Attends, Lags, Forwards
<1>4. cli[f].at = "stream" /\ StreamOpen(f) /\ cli'[f].at = "stream" /\ cli'[f].early = cli[f].early
  BY <1>3, AtWork, Zenon DEF Attends, Lags, Forwards, SameCli
<1>5. handler[f].pos <= Len(sent)
  BY Zenon DEF FollowOne
<1>6. ASSUME handler'[f].pos <= Len(sent),
             \A i \in DOMAIN frames'[f] : frames'[f][i] \notin Ends,
             cli[f].early => \A i \in 1 .. handler'[f].pos : sent[i] # FinishedEvent
      PROVE  FollowOne(f)'
  <2>1. StreamOpen(f)'
    BY <1>1, <1>3, <1>4, <1>6, Zenon DEF StreamOpen
  <2> QED
    BY <1>1, <1>4, <1>6, <2>1, Zenon DEF FollowOne
<1>7. CASE Attends(f)
  BY <1>4, <1>5, <1>6, <1>7, Zenon DEF Attends, SameFrames, StreamOpen
<1>8. CASE Lags(f)
  <2>1. handler'[f].pos = Len(sent) - ProgressCap /\ frames'[f] = frames[f]
    BY <1>8, Zenon DEF Lags, SameFrames
  <2>2. ProgressCap \in Nat /\ ProgressCap > 1
    BY CapAssumption, Zenon
  <2>3. handler'[f].pos <= Len(sent)
    BY <1>2, <2>1, <2>2, SMT
  <2>4. \A i \in 1 .. handler'[f].pos : sent[i] # FinishedEvent
    <3>1. \A i \in 1 .. Len(sent) - ProgressCap :
            i \in 1 .. Len(sent) /\ i # Len(sent) /\ i # Len(sent) - 1
      <4> DEFINE n == Len(sent)
      <4>1. n \in Nat
        BY <1>2, Zenon
      <4> HIDE DEF n
      <4>2. \A i \in 1 .. n - ProgressCap : i \in 1 .. n /\ i # n /\ i # n - 1
        BY <2>2, <4>1, SMT
      <4> QED
        BY <4>2, Zenon DEF n
    <3> QED
      BY <1>2, <2>1, <3>1, Zenon DEF SentInv
  <2> QED
    BY <1>4, <1>6, <2>1, <2>3, <2>4, Zenon DEF StreamOpen
<1>9. CASE Forwards(f)
  <2> DEFINE e == sent[handler[f].pos + 1]
  <2>1. /\ handler[f].pos < Len(sent) /\ handler'[f].pos = handler[f].pos + 1
        /\ e # FinishedEvent /\ frames'[f] = Append(frames[f], e)
    BY <1>9, Zenon DEF Forwards
  <2>2. handler[f].pos + 1 \in 1 .. Len(sent) /\ handler'[f].pos <= Len(sent)
        /\ \A i \in 1 .. handler'[f].pos : i \in 1 .. handler[f].pos \/ i = handler[f].pos + 1
    BY <1>2, <2>1, SMT
  <2>3. e \in Frame /\ e # CloseFrame /\ e \notin Ends
    <3>1. e \in Frame
      BY <2>2, SeqParts, Zenon DEF OrderTypes
    <3> QED
      BY <1>2, <2>1, <2>2, <3>1, Zenon DEF SentInv, Ends
  <2>4. \A i \in DOMAIN frames[f] : frames[f][i] \notin Ends
    BY <1>4, Zenon DEF StreamOpen
  <2>5. \A i \in DOMAIN frames'[f] : frames'[f][i] \notin Ends
    <3> HIDE DEF e
    <3>1. \A i \in DOMAIN Append(frames[f], e) :
            (i \in DOMAIN frames[f] /\ Append(frames[f], e)[i] = frames[f][i])
              \/ Append(frames[f], e)[i] = e
      BY <1>2, <2>3, SeqLast, Zenon
    <3> QED
      BY <2>1, <2>3, <2>4, <3>1, Zenon
  <2>6. cli[f].early => \A i \in 1 .. handler'[f].pos : sent[i] # FinishedEvent
    BY <1>4, <2>1, <2>2, Zenon DEF StreamOpen
  <2> QED
    BY <1>6, <2>2, <2>5, <2>6, Zenon
<1> QED
  BY <1>7, <1>8, <1>9, Zenon

LEMMA FollowCloses ==
  ASSUME OrderTypes, WireTypes, UNCHANGED orderVars, NEW f \in Followers, FollowOne(f),
         Finishes(f) \/ Closes(f)
  PROVE  FollowOne(f)'
<1>1. sent' = sent /\ task' = task /\ listed' = listed
  BY Zenon DEF orderVars
<1>2. /\ Len(sent) \in Nat /\ DOMAIN sent = 1 .. Len(sent) /\ handler[f].pos \in Nat
      /\ frames[f] \in Seq(Frame) /\ Len(frames[f]) \in Nat /\ DOMAIN frames[f] = 1 .. Len(frames[f])
  BY StreamNumbers, Zenon
<1>3. handler[f].at = "run" /\ handler'[f].at = "closed" /\ cli'[f] = cli[f]
  BY Zenon DEF Finishes, Closes, SameCli
<1>4. cli[f].at = "stream" /\ StreamOpen(f)
  BY <1>3, AtWork, Zenon
<1>5. \A i \in 1 .. Len(frames[f]) : frames[f][i] \notin Ends
  BY <1>2, <1>4, Zenon DEF StreamOpen
<1>6. handler[f].pos <= Len(sent) /\ (handler[f].pos < Len(sent) => handler[f].pos + 1 <= Len(sent))
  <2>1. handler[f].pos <= Len(sent)
    BY Zenon DEF FollowOne
  <2> QED
    BY <1>2, <2>1, SMT
<1>7. ASSUME handler'[f].pos <= Len(sent), StreamClosing(f)'
      PROVE  FollowOne(f)'
  BY <1>1, <1>3, <1>4, <1>7, Zenon DEF FollowOne
<1>8. CASE Finishes(f)
  <2> DEFINE one == Append(frames[f], FinishedEvent)
             new == Append(one, CloseFrame)
  <2>1. /\ handler[f].pos < Len(sent) /\ handler'[f].pos = handler[f].pos + 1
        /\ sent[handler[f].pos + 1] = FinishedEvent /\ frames'[f] = new
    BY <1>8, Zenon DEF Finishes
  <2>2. Finished'
    <3>1. handler[f].pos + 1 \in 1 .. Len(sent)
      BY <1>2, <2>1, SMT
    <3> QED
      BY <1>1, <1>2, <2>1, <3>1, Zenon DEF Finished
  <2>3. /\ one \in Seq(Frame) /\ Len(one) = Len(frames[f]) + 1 /\ one[Len(frames[f]) + 1] = FinishedEvent
        /\ \A i \in 1 .. Len(frames[f]) : one[i] = frames[f][i]
    <3>1. frames[f] \in Seq(Frame) /\ FinishedEvent \in Frame
      BY <1>2, FramesTyped, Zenon
    <3> QED
      BY <3>1, SMT
  <2> HIDE DEF one
  <2>4. /\ new \in Seq(Frame) /\ Len(new) = Len(one) + 1 /\ new[Len(one) + 1] = CloseFrame
        /\ \A i \in 1 .. Len(one) : new[i] = one[i]
    <3>1. one \in Seq(Frame) /\ CloseFrame \in Frame
      BY <2>3, FramesTyped, Zenon
    <3> QED
      BY <3>1, SMT
  <2> HIDE DEF new
  <2>5. /\ Len(new) > 1 /\ Len(new) > 0 /\ Len(new) - 1 = Len(frames[f]) + 1 /\ Len(one) + 1 = Len(new)
        /\ Len(new) - 1 \in 1 .. Len(one)
        /\ \A i \in 1 .. Len(new) - 2 : i \in 1 .. Len(frames[f]) /\ i \in 1 .. Len(one)
    BY <1>2, <2>3, <2>4, SMT
  <2>6. /\ new[Len(new)] = CloseFrame /\ new[Len(new) - 1] = FinishedEvent
        /\ \A i \in 1 .. Len(new) - 2 : new[i] \notin Ends
    BY <1>5, <2>3, <2>4, <2>5, Zenon
  <2>7. StreamClosing(f)'
    BY <1>3, <2>1, <2>2, <2>5, <2>6, Zenon DEF StreamClosing
  <2> QED
    BY <1>6, <1>7, <2>1, <2>7, Zenon
<1>9. CASE Closes(f)
  <2> DEFINE new == Append(frames[f], CloseFrame)
  <2>1. handler[f].pos = Len(sent) /\ handler'[f].pos = handler[f].pos /\ ProgressClosed /\ frames'[f] = new
    BY <1>9, Zenon DEF Closes
  <2>2. /\ new \in Seq(Frame) /\ Len(new) = Len(frames[f]) + 1 /\ new[Len(frames[f]) + 1] = CloseFrame
        /\ \A i \in 1 .. Len(frames[f]) : new[i] = frames[f][i]
    <3>1. frames[f] \in Seq(Frame) /\ CloseFrame \in Frame
      BY <1>2, FramesTyped, Zenon
    <3> QED
      BY <3>1, SMT
  <2> HIDE DEF new
  <2>3. Len(new) > 0 /\ Len(new) = Len(frames[f]) + 1 /\ Len(new) - 1 = Len(frames[f])
    BY <1>2, <2>2, SMT
  <2>4. new[Len(new)] = CloseFrame /\ \A i \in 1 .. Len(new) - 1 : new[i] \notin Ends
    BY <1>5, <2>2, <2>3, Zenon
  <2>5. Shut(f)'
    <3>1. cli[f].early => ~Finished
      BY <1>2, <1>4, <2>1, Zenon DEF StreamOpen, Finished
    <3> QED
      BY <1>1, <1>3, <2>1, <3>1, Zenon DEF Shut, ProgressClosed, Finished
  <2>6. StreamClosing(f)'
    BY <1>3, <2>1, <2>3, <2>4, <2>5, Zenon DEF StreamClosing
  <2> QED
    BY <1>6, <1>7, <2>1, <2>6, Zenon
<1> QED
  BY <1>8, <1>9, Zenon

LEMMA FollowShows ==
  ASSUME OrderTypes, WireTypes, UNCHANGED orderVars, NEW f \in Followers, FollowOne(f), Shows(f)
  PROVE  FollowOne(f)'
<1> DEFINE old == frames[f]
           frame == Head(old)
           new == Tail(old)
<1>1. sent' = sent /\ task' = task /\ listed' = listed
  BY Zenon DEF orderVars
<1>2. /\ cli[f].at = "stream" /\ old # <<>> /\ frames'[f] = new
      /\ handler'[f] = handler[f] /\ cli'[f].early = cli[f].early
      /\ \/ frame \in Ends /\ cli'[f].at = "await" /\ cli'[f].why = frame.kind
         \/ frame \notin Ends /\ cli'[f].at = "stream"
  BY Zenon DEF Shows, SameHandler, SameView
<1>3. old \in Seq(Frame) /\ Len(old) \in Nat /\ DOMAIN old = 1 .. Len(old)
  BY StreamNumbers, Zenon
<1>4. /\ new \in Seq(Frame) /\ frame = old[1] /\ 1 \in 1 .. Len(old) /\ Len(new) = Len(old) - 1
      /\ \A i \in 1 .. Len(new) : i + 1 \in 1 .. Len(old) /\ new[i] = old[i + 1]
      /\ DOMAIN new = 1 .. Len(new)
  <2>1. /\ new \in Seq(Frame) /\ frame = old[1] /\ 1 \in 1 .. Len(old) /\ Len(new) = Len(old) - 1
        /\ \A i \in 1 .. Len(new) : i + 1 \in 1 .. Len(old) /\ new[i] = old[i + 1]
    BY <1>2, <1>3, SeqParts, ZenonT(60)
  <2> QED
    BY <2>1, SeqParts, Zenon
<1>5. handler[f].pos <= Len(sent) /\ (StreamOpen(f) \/ StreamClosing(f))
  BY <1>2, Zenon DEF FollowOne
<1>6. FinishedEvent # CloseFrame /\ FinishedEvent \in Ends /\ CloseFrame \in Ends
      /\ FinishedEvent.kind = "finished" /\ CloseFrame.kind = "close"
  BY FramesTyped, Zenon DEF Ends
<1>7. CASE StreamOpen(f)
  <2>1. frame \notin Ends
    BY <1>3, <1>4, <1>7, Zenon DEF StreamOpen
  <2>2. cli'[f].at = "stream"
    BY <1>2, <2>1, Zenon
  <2>3. \A i \in DOMAIN frames'[f] : frames'[f][i] \notin Ends
    BY <1>2, <1>3, <1>4, <1>7, Zenon DEF StreamOpen
  <2>4. StreamOpen(f)'
    BY <1>1, <1>2, <1>7, <2>3, Zenon DEF StreamOpen
  <2> QED
    BY <1>1, <1>2, <1>5, <2>2, <2>4, Zenon DEF FollowOne
<1>8. CASE StreamClosing(f)
  <2> DEFINE n == Len(old)
  <2>1. /\ handler[f].at = "closed" /\ n > 0 /\ old[n] = CloseFrame
        /\ \/ /\ n > 1 /\ old[n - 1] = FinishedEvent /\ Finished
              /\ \A i \in 1 .. n - 2 : old[i] \notin Ends
           \/ /\ \A i \in 1 .. n - 1 : old[i] \notin Ends
              /\ Shut(f)
    BY <1>8, Zenon DEF StreamClosing
  <2>2. n \in Nat /\ n > 0 /\ Len(new) = n - 1 /\ frame = old[1]
    BY <1>3, <1>4, <2>1, Zenon
  <2>f. (Finished => Finished') /\ (Shut(f) => Shut(f)')
    BY <1>1, <1>2, Zenon DEF Finished, Shut, ProgressClosed
  <2>3. CASE frame \notin Ends
    <3>1. cli'[f].at = "stream" /\ n # 1
      BY <1>2, <1>6, <2>1, <2>2, <2>3, Zenon
    <3> HIDE DEF n, new, old, frame
    <3>2. /\ n - 1 > 0 /\ n - 1 \in 1 .. n - 1 /\ (n - 1) + 1 = n
          /\ \A i \in 1 .. (n - 1) - 1 : i \in 1 .. n - 1 /\ i + 1 \in 1 .. n - 1
      BY <2>2, <3>1, SMT
    <3>3. new[Len(new)] = CloseFrame
      BY <1>4, <2>1, <2>2, <3>2, Zenon
    <3>4. CASE n > 1 /\ old[n - 1] = FinishedEvent /\ Finished /\ \A i \in 1 .. n - 2 : old[i] \notin Ends
      <4>1. n - 1 # 1
        BY <1>6, <2>2, <2>3, <3>4, Zenon
      <4>2. /\ n - 1 > 1 /\ (n - 1) - 1 \in 1 .. n - 1 /\ ((n - 1) - 1) + 1 = n - 1
            /\ \A i \in 1 .. (n - 1) - 2 : i \in 1 .. n - 1 /\ i + 1 \in 1 .. n - 2
        BY <2>2, <3>2, <4>1, SMT
      <4>3. new[Len(new) - 1] = FinishedEvent /\ Len(new) > 1 /\ Len(new) > 0
        BY <1>4, <2>2, <3>2, <3>4, <4>2, Zenon
      <4>4. \A i \in 1 .. Len(new) - 2 : new[i] \notin Ends
        BY <1>4, <2>2, <3>4, <4>2, Zenon
      <4>5. StreamClosing(f)'
        BY <1>2, <2>1, <2>f, <3>3, <3>4, <4>3, <4>4, ZenonT(60) DEF StreamClosing
      <4> QED
        BY <1>1, <1>2, <1>5, <3>1, <4>5, Zenon DEF FollowOne
    <3>5. CASE Shut(f) /\ \A i \in 1 .. n - 1 : old[i] \notin Ends
      <4>1. \A i \in 1 .. Len(new) - 1 : new[i] \notin Ends
        BY <1>4, <2>2, <3>2, <3>5, Zenon
      <4>2. Len(new) > 0
        BY <2>2, <3>2, Zenon
      <4>3. StreamClosing(f)'
        BY <1>2, <2>1, <2>f, <3>3, <3>5, <4>1, <4>2, Zenon DEF StreamClosing
      <4> QED
        BY <1>1, <1>2, <1>5, <3>1, <4>3, Zenon DEF FollowOne
    <3> QED
      BY <2>1, <3>4, <3>5, Zenon
  <2>4. CASE frame \in Ends
    <3>1. cli'[f].at = "await" /\ cli'[f].why = frame.kind
      BY <1>2, <2>4, Zenon
    <3> HIDE DEF n, new, old, frame
    <3>2. /\ n = 1 \/ 1 \in 1 .. n - 1
          /\ n > 1 => n = 2 \/ 1 \in 1 .. n - 2
          /\ 2 - 1 = 1
      BY <2>2, SMT
    <3>3. frame = FinishedEvent => Finished
      BY <1>6, <2>1, <2>2, <2>4, <3>2, Zenon
    <3>4. frame = CloseFrame => Shut(f)
      <4>1. ASSUME n > 1, old[n - 1] = FinishedEvent, \A i \in 1 .. n - 2 : old[i] \notin Ends
            PROVE  frame # CloseFrame
        BY <1>6, <2>2, <3>2, <4>1, Zenon
      <4> QED
        BY <2>1, <4>1, Zenon
    <3>5. frame = FinishedEvent \/ frame = CloseFrame
      BY <2>4, Zenon DEF Ends
    <3>6. /\ cli'[f].why \in {"finished", "close"}
          /\ cli'[f].why = "finished" => Finished
          /\ cli'[f].why = "close" => Shut(f)
      BY <1>6, <3>1, <3>3, <3>4, <3>5, Zenon
    <3> QED
      BY <1>1, <1>2, <1>5, <2>1, <2>f, <3>1, <3>6, Zenon DEF FollowOne
  <2> QED
    BY <2>3, <2>4, Zenon
<1> QED
  BY <1>5, <1>7, <1>8, Zenon

LEMMA FollowLeaves ==
  ASSUME OrderTypes, WireTypes, PhaseInv, SentInv, UNCHANGED orderVars, NEW f \in Followers, FollowOne(f),
         faults' \in Nat, faults' >= faults, Leaves(f)
  PROVE  FollowOne(f)'
<1>1. sent' = sent /\ task' = task /\ listed' = listed
  BY Zenon DEF orderVars
<1>2. handler'[f].at = "closed" /\ handler'[f].pos = 0 /\ frames'[f] = <<>> /\ cli'[f].early = cli[f].early
  BY Zenon DEF Leaves, SameView
<1>3. handler'[f].pos <= Len(sent')
  <2>1. Len(sent) \in Nat
    BY StreamNumbers, Zenon
  <2> QED
    BY <1>1, <1>2, <2>1, SMT
<1>4. faults > 0 \/ faults' = 0 => faults' > 0 \/ faults = 0
  <2>1. faults \in Nat /\ faults' \in Nat /\ faults' >= faults
    BY Zenon DEF WireTypes
  <2> QED
    BY <2>1, SMT
<1>5. (Finished => Finished') /\ (Shut(f) => Shut(f)')
  BY <1>1, <1>2, Zenon DEF Finished, Shut, ProgressClosed
<1>6. CASE cli'[f].at = "result" /\ cli'[f].why = "poll"
  BY <1>2, <1>3, <1>6, Zenon DEF FollowOne
<1>7. CASE cli'[f].at = "result" /\ cli[f].at = "await" /\ cli'[f].why = cli[f].why
  BY <1>2, <1>3, <1>5, <1>7, Zenon DEF FollowOne
<1>8. CASE cli'[f].at = "error" /\ cli'[f].why = "not_found" /\ status = "gone"
  <2>1. "progress" \notin listed'
    BY <1>1, <1>8, Zenon DEF PhaseInv
  <2> QED
    BY <1>2, <1>3, <1>8, <2>1, Zenon DEF FollowOne
<1>9. CASE cli'[f].at = "error" /\ cli[f].at = "await" /\ status # "gone" /\ result = NoResult
           /\ task # "early_store"
  <2>1. task \notin {"finish", "cleanup", "over"}
    BY <1>9, Zenon DEF PhaseInv, HasResult
  <2>2. ~Finished /\ "progress" \in listed
    BY <1>9, <2>1, Zenon DEF SentInv, PhaseInv
  <2>3. cli[f].why = "broken" /\ faults > 0
    BY <1>9, <2>2, Zenon DEF FollowOne, Shut, ProgressClosed
  <2>4. faults' # 0
    <3>1. faults \in Nat /\ faults' \in Nat /\ faults' >= faults
      BY Zenon DEF WireTypes
    <3> QED
      BY <2>3, <3>1, SMT
  <2> QED
    BY <1>2, <1>3, <1>9, <2>4, Zenon DEF FollowOne
<1>10. CASE cli'[f].at = "error" /\ faults' > 0
  <2>1. faults' # 0
    BY <1>10, SMT
  <2> QED
    BY <1>2, <1>3, <1>10, <2>1, Zenon DEF FollowOne
<1>11. CASE cli'[f].at = "await" /\ cli'[f].why = "broken" /\ faults' > 0
  BY <1>2, <1>3, <1>11, Zenon DEF FollowOne
<1> QED
  BY <1>6, <1>7, <1>8, <1>9, <1>10, <1>11, Zenon DEF Leaves

LEMMA FollowWire ==
  ASSUME OrderTypes, WireTypes, PhaseInv, SentInv, FollowInv, UNCHANGED orderVars,
         NEW f \in Followers, WireEffect(f)
  PROVE  FollowInv'
<1>1. faults' \in Nat /\ faults' >= faults
  BY Zenon DEF WireEffect
<1>2. Keeps
  BY <1>1, StillKeeps, Zenon
<1>3. FollowOne(f)'
  <2>1. FollowOne(f)
    BY Zenon DEF FollowInv
  <2>2. CASE Connects(f) \/ Misses(f)
    BY <2>1, <2>2, FollowOpens, Zenon
  <2>3. CASE Attends(f) \/ Lags(f) \/ Forwards(f)
    BY <2>1, <2>3, FollowRuns, Zenon
  <2>4. CASE Finishes(f) \/ Closes(f)
    BY <2>1, <2>4, FollowCloses, Zenon
  <2>5. CASE Shows(f)
    BY <2>1, <2>5, FollowShows, Zenon
  <2>6. CASE Leaves(f)
    BY <1>1, <2>1, <2>6, FollowLeaves, Zenon
  <2> QED
    BY <2>2, <2>3, <2>4, <2>5, <2>6, Zenon DEF WireEffect
<1>4. ASSUME NEW g \in Followers, g # f
      PROVE  FollowOne(g)'
  BY <1>2, <1>4, FollowKept, Zenon DEF WireEffect, OneFollower, FollowInv
<1> QED
  BY <1>3, <1>4, Zenon DEF FollowInv

LEMMA FollowOthers ==
  ASSUME WireTypes, FollowInv, Keeps, UNCHANGED wireVars
  PROVE  FollowInv'
<1>1. ASSUME NEW f \in Followers
      PROVE  FollowOne(f)'
  BY FollowKept, Zenon DEF FollowInv, wireVars, SameHandler, SameCli, SameFrames
<1> QED
  BY <1>1, Zenon DEF FollowInv

(***************************************************************************)
(* The frames on their way are the events the handler took last.           *)
(***************************************************************************)
LEMMA Counted ==
  ASSUME OrderTypes, WireTypes, NEW f \in Followers, FollowOne(f), cli[f].at = "stream"
  PROVE  /\ Taken(f) \in Nat /\ Shown(f) \in Int /\ Shown(f) + Taken(f) = handler[f].pos
         /\ handler[f].pos \in Nat /\ handler[f].pos <= Len(sent) /\ Len(sent) \in Nat
         /\ handler[f].at # "closed" => Taken(f) = Len(frames[f])
         /\ handler[f].at = "closed" => Taken(f) = Len(frames[f]) - 1
<1>1. Len(sent) \in Nat /\ handler[f].pos \in Nat /\ Len(frames[f]) \in Nat
  BY StreamNumbers, Zenon
<1>2. handler[f].pos <= Len(sent) /\ (handler[f].at = "closed" => Len(frames[f]) > 0)
  BY Zenon DEF FollowOne, StreamOpen, StreamClosing
<1>3. /\ handler[f].at # "closed" => Taken(f) = Len(frames[f]) - 0
      /\ handler[f].at = "closed" => Taken(f) = Len(frames[f]) - 1
  BY Zenon DEF Taken
<1>4. Taken(f) \in Nat /\ (handler[f].at # "closed" => Taken(f) = Len(frames[f]))
  BY <1>1, <1>2, <1>3, SMT
<1>5. Shown(f) = handler[f].pos - Taken(f)
  BY Zenon DEF Shown
<1>6. Shown(f) \in Int /\ Shown(f) + Taken(f) = handler[f].pos
  BY <1>1, <1>4, <1>5, SMT
<1> QED
  BY <1>1, <1>2, <1>3, <1>4, <1>6, Zenon

\* A follower that stands still.
LEMMA OrderKept ==
  ASSUME OrderTypes, WireTypes, Grows, NEW f \in Followers, SameHandler(f), SameCli(f), SameFrames(f),
         FollowOne(f), InOrder(f)
  PROVE  InOrder(f)' /\ Taken(f)' = Taken(f) /\ Shown(f)' = Shown(f)
<1>1. /\ handler'[f] = handler[f] /\ cli'[f] = cli[f] /\ frames'[f] = frames[f]
      /\ Taken(f)' = Taken(f) /\ Shown(f)' = Shown(f)
  BY Zenon DEF SameHandler, SameCli, SameFrames, Taken, Shown
<1>2. ASSUME cli[f].at = "stream", ~cli[f].lagged
      PROVE  Shown(f) >= 0 /\ \A i \in 1 .. Taken(f) : frames[f][i] = sent'[Shown(f) + i]
  <2>1. Shown(f) >= 0 /\ \A i \in 1 .. Taken(f) : frames[f][i] = sent[Shown(f) + i]
    BY <1>2, Zenon DEF InOrder
  <2>2. /\ Taken(f) \in Nat /\ Shown(f) \in Int /\ Shown(f) + Taken(f) <= Len(sent) /\ Len(sent) \in Nat
    BY <1>2, Counted, Zenon
  <2>3. \A i \in 1 .. Taken(f) : Shown(f) + i \in 1 .. Len(sent)
    BY <2>1, <2>2, SMT
  <2> QED
    BY <2>1, <2>3, Zenon DEF Grows
<1> QED
  BY <1>1, <1>2, Zenon DEF InOrder

\* The handler takes an event, or none.
LEMMA OrderRuns ==
  ASSUME OrderTypes, WireTypes, UNCHANGED orderVars, NEW f \in Followers, FollowOne(f), InOrder(f),
         Attends(f) \/ Forwards(f) \/ Finishes(f) \/ Closes(f)
  PROVE  InOrder(f)' /\ Shown(f)' = Shown(f) /\ cli'[f] = cli[f]
<1>1. sent' = sent /\ cli'[f] = cli[f] /\ handler[f].at \in {"opening", "run"}
  BY Zenon DEF orderVars, Attends, Forwards, Finishes, Closes, SameCli
<1>2. cli[f].at = "stream"
  BY <1>1, AtWork, Zenon
<1>3. /\ Taken(f) \in Nat /\ Shown(f) \in Int /\ Shown(f) + Taken(f) = handler[f].pos
      /\ Taken(f) = Len(frames[f]) /\ handler[f].pos \in Nat
  BY <1>1, <1>2, Counted, Zenon
<1>4. frames[f] \in Seq(Frame)
  BY StreamNumbers, Zenon
<1>5. Shown(f)' = handler'[f].pos - Taken(f)'
  BY Zenon DEF Shown
<1>6. Taken(f)' = Len(frames'[f]) - (IF handler'[f].at = "closed" THEN 1 ELSE 0)
  BY Zenon DEF Taken
<1>7. ASSUME handler'[f].pos = handler[f].pos, Taken(f)' = Taken(f),
             \A i \in 1 .. Taken(f) : frames'[f][i] = frames[f][i]
      PROVE  InOrder(f)' /\ Shown(f)' = Shown(f)
  <2>1. Shown(f)' = Shown(f)
    BY <1>5, <1>7, Zenon DEF Shown
  <2> QED
    BY <1>1, <1>7, <2>1, Zenon DEF InOrder
<1>8. ASSUME handler'[f].pos = handler[f].pos + 1, Taken(f)' = Taken(f) + 1,
             \A i \in 1 .. Taken(f) : frames'[f][i] = frames[f][i],
             frames'[f][Taken(f) + 1] = sent[handler[f].pos + 1]
      PROVE  InOrder(f)' /\ Shown(f)' = Shown(f)
  <2>1. /\ Shown(f)' = Shown(f) /\ handler[f].pos + 1 = Shown(f) + (Taken(f) + 1)
        /\ \A i \in 1 .. Taken(f) + 1 : i \in 1 .. Taken(f) \/ i = Taken(f) + 1
    <3>1. Shown(f)' = (handler[f].pos + 1) - (Taken(f) + 1)
      BY <1>5, <1>8, Zenon
    <3>2. /\ \A p, t \in Nat, s \in Int : s + t = p => s = (p + 1) - (t + 1) /\ p + 1 = s + (t + 1)
          /\ \A t \in Nat : \A i \in 1 .. t + 1 : i \in 1 .. t \/ i = t + 1
      BY SMT
    <3> QED
      BY <1>3, <3>1, <3>2, Zenon
  <2> QED
    BY <1>1, <1>8, <2>1, Zenon DEF InOrder
<1>9. CASE Attends(f)
  <2>1. handler'[f].at = "run" /\ handler'[f].pos = handler[f].pos /\ frames'[f] = frames[f]
    BY <1>9, Zenon DEF Attends, SameFrames
  <2>2. Taken(f)' = Len(frames[f]) - 0
    BY <1>6, <2>1, Zenon
  <2>3. Taken(f)' = Taken(f)
    BY <1>3, <2>2, SMT
  <2> QED
    BY <1>1, <1>7, <2>1, <2>3, Zenon
<1>10. CASE Forwards(f)
  <2> DEFINE e == sent[handler[f].pos + 1]
  <2>1. /\ handler'[f].at = "run" /\ handler'[f].pos = handler[f].pos + 1 /\ frames'[f] = Append(frames[f], e)
        /\ handler[f].pos < Len(sent)
    BY <1>10, Zenon DEF Forwards
  <2> HIDE DEF e
  <2>2. Taken(f)' = Len(Append(frames[f], e)) - 0
    BY <1>6, <2>1, Zenon
  <2>3. /\ Taken(f)' = Taken(f) + 1 /\ \A i \in 1 .. Taken(f) : Append(frames[f], e)[i] = frames[f][i]
        /\ Append(frames[f], e)[Taken(f) + 1] = e
    BY <1>3, <1>4, <2>2, SMT
  <2>4. frames'[f][Taken(f) + 1] = sent[handler[f].pos + 1]
    BY <2>1, <2>3, Zenon DEF e
  <2>5. \A i \in 1 .. Taken(f) : frames'[f][i] = frames[f][i]
    BY <2>1, <2>3, Zenon
  <2>6. handler'[f].pos = handler[f].pos + 1 /\ Taken(f)' = Taken(f) + 1
    BY <2>1, <2>3, Zenon
  <2>7. InOrder(f)' /\ Shown(f)' = Shown(f)
    BY <1>8, <2>4, <2>5, <2>6, Zenon
  <2> QED
    BY <1>1, <2>7, Zenon
<1>11. CASE Finishes(f)
  <2> DEFINE new == Append(Append(frames[f], FinishedEvent), CloseFrame)
  <2>1. /\ handler'[f].at = "closed" /\ handler'[f].pos = handler[f].pos + 1 /\ frames'[f] = new
        /\ sent[handler[f].pos + 1] = FinishedEvent
    BY <1>11, Zenon DEF Finishes
  <2>2. Taken(f)' = Len(new) - 1
    BY <1>6, <2>1, Zenon
  <2>3. FinishedEvent \in Frame /\ CloseFrame \in Frame
    BY FramesTyped, Zenon
  <2>4. /\ Len(new) = Len(frames[f]) + 2 /\ \A i \in 1 .. Len(frames[f]) : new[i] = frames[f][i]
        /\ new[Len(frames[f]) + 1] = FinishedEvent
    BY <1>4, <2>3, SMT
  <2> HIDE DEF new
  <2>5. Taken(f)' = Taken(f) + 1
    BY <1>3, <2>2, <2>4, SMT
  <2> QED
    BY <1>1, <1>3, <1>8, <2>1, <2>4, <2>5, Zenon
<1>12. CASE Closes(f)
  <2> DEFINE new == Append(frames[f], CloseFrame)
  <2>1. handler'[f].at = "closed" /\ handler'[f].pos = handler[f].pos /\ frames'[f] = new
    BY <1>12, Zenon DEF Closes
  <2>2. Taken(f)' = Len(new) - 1
    BY <1>6, <2>1, Zenon
  <2>3. CloseFrame \in Frame
    BY FramesTyped, Zenon
  <2>4. Len(new) = Len(frames[f]) + 1 /\ \A i \in 1 .. Len(frames[f]) : new[i] = frames[f][i]
    BY <1>4, <2>3, SMTT(40)
  <2> HIDE DEF new
  <2>5. Taken(f)' = Taken(f)
    BY <1>3, <2>2, <2>4, SMT
  <2> QED
    BY <1>1, <1>3, <1>7, <2>1, <2>4, <2>5, Zenon
<1> QED
  BY <1>9, <1>10, <1>11, <1>12, Zenon

\* The first frame is the next event, if it is one.
LEMMA OrderShows ==
  ASSUME OrderTypes, WireTypes, UNCHANGED orderVars, NEW f \in Followers, FollowOne(f), InOrder(f),
         Shows(f)
  PROVE  /\ InOrder(f)'
         /\ Head(frames[f]) # CloseFrame /\ ~cli[f].lagged =>
              /\ Shown(f) >= 0 /\ Shown(f) + 1 \in 1 .. Len(sent)
              /\ Head(frames[f]) = sent[Shown(f) + 1]
         /\ Shown(f)' = Shown(f) + 1
<1>1. /\ sent' = sent /\ cli[f].at = "stream" /\ frames[f] # <<>> /\ frames'[f] = Tail(frames[f])
      /\ handler'[f] = handler[f] /\ cli'[f].lagged = cli[f].lagged
      /\ Head(frames[f]) \in Ends \/ cli'[f].at = "stream"
      /\ Head(frames[f]) \in Ends => cli'[f].at = "await"
  BY Zenon DEF orderVars, Shows, SameHandler, SameView
<1>2. /\ Taken(f) \in Nat /\ Shown(f) \in Int /\ Shown(f) + Taken(f) = handler[f].pos
      /\ handler[f].pos \in Nat /\ handler[f].pos <= Len(sent) /\ Len(sent) \in Nat
      /\ handler[f].at # "closed" => Taken(f) = Len(frames[f])
      /\ handler[f].at = "closed" => Taken(f) = Len(frames[f]) - 1
  BY <1>1, Counted, Zenon
<1>3. frames[f] \in Seq(Frame)
  BY StreamNumbers, Zenon
<1>4. /\ Head(frames[f]) = frames[f][1] /\ Len(frames[f]) \in Nat /\ Len(frames[f]) # 0
      /\ Len(Tail(frames[f])) = Len(frames[f]) - 1
      /\ \A i \in 1 .. Len(frames[f]) - 1 : Tail(frames[f])[i] = frames[f][i + 1]
  BY <1>1, <1>3, SMT
<1>5. Shown(f)' = handler'[f].pos - Taken(f)' /\ Shown(f) = handler[f].pos - Taken(f)
  BY Zenon DEF Shown
<1>6. Taken(f)' = Taken(f) - 1
  <2>1. Taken(f)' = Len(Tail(frames[f])) - (IF handler[f].at = "closed" THEN 1 ELSE 0)
    BY <1>1, Zenon DEF Taken
  <2>2. Taken(f) = Len(frames[f]) - (IF handler[f].at = "closed" THEN 1 ELSE 0)
    BY Zenon DEF Taken
  <2>3. CASE handler[f].at = "closed"
    <3>1. Taken(f)' = Len(Tail(frames[f])) - 1 /\ Taken(f) = Len(frames[f]) - 1
      BY <2>1, <2>2, <2>3, Zenon
    <3> QED
      BY <1>4, <3>1, SMT
  <2>4. CASE handler[f].at # "closed"
    <3>1. Taken(f)' = Len(Tail(frames[f])) - 0 /\ Taken(f) = Len(frames[f]) - 0
      BY <2>1, <2>2, <2>4, Zenon
    <3> QED
      BY <1>4, <3>1, SMT
  <2> QED
    BY <2>3, <2>4, Zenon
<1>7. Shown(f)' = Shown(f) + 1
  <2>1. handler'[f].pos = handler[f].pos
    BY <1>1, Zenon
  <2> QED
    BY <1>2, <1>5, <1>6, <2>1, SMT
<1>8. ASSUME Head(frames[f]) # CloseFrame
      PROVE  1 \in 1 .. Taken(f)
  <2>1. Len(frames[f]) = 1 /\ handler[f].at = "closed" => Head(frames[f]) = CloseFrame
    BY <1>1, <1>4, Zenon DEF FollowOne, StreamOpen, StreamClosing
  <2>2. Taken(f) # 0
    <3>1. handler[f].at = "closed" => Len(frames[f]) # 1
      BY <1>8, <2>1, Zenon
    <3>2. \/ Taken(f) = Len(frames[f])
          \/ Taken(f) = Len(frames[f]) - 1 /\ Len(frames[f]) # 1
      BY <1>2, <3>1, Zenon
    <3>3. Len(frames[f]) \in Nat /\ Len(frames[f]) # 0
      BY <1>4, Zenon
    <3>4. \A n \in Nat, t \in Nat : n # 0 /\ (t = n \/ (t = n - 1 /\ n # 1)) => t # 0
      BY SMT
    <3> QED
      BY <1>2, <3>2, <3>3, <3>4, Zenon
  <2> QED
    BY <1>2, <2>2, SMT
<1>9. ASSUME Head(frames[f]) # CloseFrame, ~cli[f].lagged
      PROVE  /\ Shown(f) >= 0 /\ Shown(f) + 1 \in 1 .. Len(sent)
             /\ Head(frames[f]) = sent[Shown(f) + 1]
  <2>1. Shown(f) >= 0 /\ Head(frames[f]) = sent[Shown(f) + 1]
    BY <1>1, <1>4, <1>8, <1>9, Zenon DEF InOrder
  <2>2. 1 \in 1 .. Taken(f)
    BY <1>8, <1>9, Zenon
  <2>3. Shown(f) + 1 \in 1 .. Len(sent)
    BY <1>2, <2>1, <2>2, SMT
  <2> QED
    BY <2>1, <2>3, Zenon
<1>10. ASSUME cli'[f].at = "stream", ~cli'[f].lagged
       PROVE  Shown(f)' >= 0 /\ \A i \in 1 .. Taken(f)' : frames'[f][i] = sent'[Shown(f)' + i]
  <2>1. Head(frames[f]) # CloseFrame /\ ~cli[f].lagged
    BY <1>1, <1>10, Zenon DEF Ends
  <2>2. Shown(f) >= 0 /\ \A i \in 1 .. Taken(f) : frames[f][i] = sent[Shown(f) + i]
    BY <1>1, <2>1, Zenon DEF InOrder
  <2>3. Shown(f)' >= 0
    BY <1>2, <1>7, <2>2, SMT
  <2>4. ASSUME NEW i \in 1 .. Taken(f)'
        PROVE  frames'[f][i] = sent'[Shown(f)' + i]
    <3>0. i \in 1 .. Taken(f) - 1
      BY <1>6, Zenon
    <3>1. /\ i + 1 \in 1 .. Taken(f) /\ Shown(f)' + i = Shown(f) + (i + 1)
          /\ i \in 1 .. Len(frames[f]) - 1
      BY <1>2, <1>4, <1>7, <3>0, SMTT(40)
    <3> QED
      BY <1>1, <1>4, <2>2, <3>1, Zenon
  <2> QED
    BY <2>3, <2>4, Zenon
<1> QED
  BY <1>7, <1>9, <1>10, Zenon DEF InOrder

\* Two sequences that agree are the same.
LEMMA SameSeq ==
  ASSUME NEW s \in Seq(Nat), NEW t \in Seq(LineNos), Len(s) = Len(t), \A i \in 1 .. Len(s) : s[i] = t[i]
  PROVE  s = t
<1>1. t \in Seq(Nat)
  BY SMT DEF LineNos
<1>2. s = [i \in 1 .. Len(s) |-> s[i]] /\ t = [i \in 1 .. Len(t) |-> t[i]]
  BY <1>1, SMT
<1> QED
  BY <1>2, Zenon

LEMMA SeenShows ==
  ASSUME OrderTypes, WireTypes, UNCHANGED orderVars, NEW f \in Followers, FollowOne(f), InOrder(f),
         NEW d \in Nat, NEW evs \in Seq(LineNos), Broadcast(d, evs), Seen(f, d, evs), Shows(f)
  PROVE  Seen(f, d, evs)'
<1> DEFINE frame == Head(frames[f])
           n == Len(evs)
           s == Shown(f)
           saw == cli[f].saw
           k == Len(saw)
<1>1. /\ cli[f].at = "stream" /\ cli'[f].early = cli[f].early /\ cli'[f].lagged = cli[f].lagged
      /\ \/ frame \in Ends /\ cli'[f].at = "await" /\ cli'[f].why = frame.kind
         \/ frame \notin Ends /\ cli'[f].at = "stream"
      /\ cli'[f].saw = IF frame.kind = "package" THEN Append(saw, frame.line) ELSE saw
  BY Zenon DEF Shows, SameView
<1> SUFFICES ASSUME Follows(f)' PROVE Seen(f, d, evs)'
  BY Zenon DEF Seen
<1>2. Follows(f) /\ ~cli[f].lagged
  BY <1>1, Zenon DEF Follows
<1>3. /\ Beginning(saw, evs)
      /\ \/ s <= d /\ k = 0
         \/ s > d /\ s <= d + n /\ k = s - d
         \/ s > d + n /\ k = n
  BY <1>1, <1>2, Zenon DEF Seen
<1>4. saw \in Seq(Nat) /\ n \in Nat /\ k \in Nat /\ s \in Int
  <2>1. cli[f] \in Clis
    BY StreamNumbers, Zenon
  <2>2. saw \in Seq(Nat)
    BY <2>1, Zenon DEF Clis
  <2>3. s \in Int
    BY <1>1, Counted, Zenon
  <2> QED
    BY <2>2, <2>3, SeqParts, Zenon
<1>5. CASE frame = CloseFrame
  <2>1. cli'[f].at = "await" /\ cli'[f].why = "close"
    BY <1>1, <1>5, FramesTyped, Zenon DEF Ends
  <2> QED
    BY <2>1, Zenon DEF Seen
<1>6. CASE frame # CloseFrame
  <2>1. /\ s + 1 \in 1 .. Len(sent) /\ frame = sent[s + 1] /\ Shown(f)' = s + 1 /\ DOMAIN sent = 1 .. Len(sent)
    BY <1>2, <1>6, OrderShows, StreamNumbers, Zenon
  <2>2. /\ s + 1 > d /\ s + 1 <= d + n =>
               k < n /\ s + 1 = d + (k + 1) /\ s + 1 > d /\ k + 1 = (s + 1) - d /\ k + 1 \in 1 .. n
        /\ ~ (s + 1 > d /\ s + 1 <= d + n) =>
               \/ s + 1 <= d /\ k = 0
               \/ s + 1 > d + n /\ k = n
        /\ s + 1 > d + n => k = n
    <3>1. \/ s <= d /\ k = 0
          \/ s > d /\ s <= d + n /\ k = s - d
          \/ s > d + n /\ k = n
      BY <1>3, Zenon
    <3>2. s \in Int /\ k \in Nat /\ n \in Nat
      BY <1>4, Zenon
    <3> HIDE DEF s, k, n
    <3> QED
      BY <3>1, <3>2, SMT
  <2>3. CASE frame = FinishedEvent
    <3>1. cli'[f].at = "await" /\ cli'[f].saw = saw
      BY <1>1, <2>3, FramesTyped, Zenon DEF Ends
    <3>2. s + 1 > d + n
      BY <2>1, <2>3, Zenon DEF Broadcast
    <3>3. k = n
      BY <2>2, <3>2, Zenon
    <3>4. saw = evs
      BY <1>3, <1>4, <3>3, SameSeq, Zenon DEF Beginning
    <3> QED
      BY <3>1, <3>4, Zenon DEF Seen
  <2>4. CASE frame # FinishedEvent
    <3>1. cli'[f].at = "stream"
      BY <1>1, <1>6, <2>4, Zenon DEF Ends
    <3>2. CASE frame.kind = "package"
      <4>1. cli'[f].saw = Append(saw, frame.line)
        BY <1>1, <3>2, Zenon
      <4>2. s + 1 > d /\ s + 1 <= d + n
        BY <2>1, <3>2, Zenon DEF Broadcast
      <4>3. k < n /\ s + 1 = d + (k + 1) /\ k + 1 = (s + 1) - d /\ k + 1 \in 1 .. n
        BY <2>2, <4>2, Zenon
      <4>4. frame = PackageEvent(evs[k + 1]) /\ evs[k + 1] \in Nat
        <5>1. frame = PackageEvent(evs[k + 1])
          BY <2>1, <4>3, Zenon DEF Broadcast
        <5>2. evs[k + 1] \in LineNos
          BY <4>3, SeqParts, Zenon
        <5> QED
          BY <5>1, <5>2, Zenon DEF LineNos
      <4>5. frame.line = evs[k + 1]
        BY <4>4, FramesTyped, Zenon
      <4> DEFINE x == evs[k + 1]
                 new == Append(saw, x)
      <4>6. x \in Nat /\ cli'[f].saw = new
        BY <4>1, <4>4, <4>5, Zenon
      <4> HIDE DEF x
      <4>7. Len(new) = k + 1 /\ new[k + 1] = x /\ \A i \in 1 .. k : new[i] = saw[i]
        <5> HIDE DEF saw
        <5> QED
          BY <1>4, <4>6, SMT
      <4> HIDE DEF new
      <4>8. Beginning(new, evs)
        <5>1. k + 1 <= n /\ \A i \in 1 .. k + 1 : i \in 1 .. k \/ i = k + 1
          <6> HIDE DEF k, n
          <6> QED
            BY <1>4, <4>3, SMT
        <5>2. \A i \in 1 .. k : saw[i] = evs[i]
          BY <1>3, Zenon DEF Beginning
        <5> QED
          BY <4>7, <5>1, <5>2, Zenon DEF Beginning, x
      <4>9. Shown(f)' > d /\ Shown(f)' <= d + n /\ Len(new) = Shown(f)' - d
        BY <2>1, <4>2, <4>3, <4>7, Zenon
      <4> QED
        BY <3>1, <4>6, <4>8, <4>9, Zenon DEF Seen
    <3>3. CASE frame.kind # "package"
      <4>1. cli'[f].saw = saw
        BY <1>1, <3>3, Zenon
      <4>2. ~ (s + 1 > d /\ s + 1 <= d + n)
        <5>1. ASSUME s + 1 > d, s + 1 <= d + n PROVE FALSE
          <6>1. (s + 1) - d \in 1 .. n /\ d + ((s + 1) - d) = s + 1
            <7> HIDE DEF s, n
            <7> QED
              BY <1>4, <5>1, SMT
          <6>2. frame = PackageEvent(evs[(s + 1) - d]) /\ evs[(s + 1) - d] \in LineNos
            BY <2>1, <6>1, SeqParts, Zenon DEF Broadcast
          <6>3. LineNos \subseteq Nat
            BY SMT DEF LineNos
          <6> QED
            BY <3>3, <6>2, <6>3, FramesTyped, ZenonT(60)
        <5> QED
          BY <5>1, Zenon
      <4>3. \/ Shown(f)' <= d /\ k = 0
            \/ Shown(f)' > d + n /\ k = n
        BY <2>1, <2>2, <4>2, Zenon
      <4> QED
        BY <1>3, <3>1, <4>1, <4>3, Zenon DEF Seen
    <3> QED
      BY <3>2, <3>3, Zenon
  <2> QED
    BY <2>3, <2>4, Zenon
<1> QED
  BY <1>5, <1>6, Zenon

\* A follower that connects before the first package event.
LEMMA SeenOpens ==
  ASSUME OrderTypes, WireTypes, UNCHANGED orderVars, NEW f \in Followers, FollowOne(f),
         cli[f].saw = <<>>, NEW d \in Nat, NEW evs \in Seq(LineNos), Broadcast(d, evs), Connects(f)
  PROVE  InOrder(f)' /\ Seen(f, d, evs)'
<1>1. /\ cli[f].at = "new" /\ handler'[f].at = "opening" /\ handler'[f].pos = Len(sent)
      /\ cli'[f].at = "stream" /\ cli'[f].saw = <<>>
      /\ cli'[f].early = (\A i \in DOMAIN sent : sent[i].kind = "status")
      /\ frames'[f] = frames[f] /\ sent' = sent
  BY Zenon DEF Connects, SameFrames, orderVars
<1>2. frames'[f] = <<>>
  BY <1>1, Zenon DEF FollowOne
<1>3. Len(sent) \in Nat /\ DOMAIN sent = 1 .. Len(sent) /\ Len(evs) \in Nat
  BY StreamNumbers, SeqParts, Zenon
<1>4. Taken(f)' = 0 - 0 /\ Shown(f)' = Len(sent) - Taken(f)'
  BY <1>1, <1>2, SeqEmpty, Zenon DEF Taken, Shown
<1>5. Taken(f)' = 0 /\ Shown(f)' \in Nat /\ Shown(f)' >= 0 /\ 1 .. 0 = {}
  BY <1>3, <1>4, SMT
<1>6. InOrder(f)'
  BY <1>5, Zenon DEF InOrder
<1>7. ASSUME Follows(f)' PROVE Seen(f, d, evs)'
  <2>1. \A i \in 1 .. Len(sent) : sent[i].kind = "status"
    BY <1>1, <1>3, <1>7, Zenon DEF Follows
  <2>2. Len(evs) = 0
    <3>1. ASSUME 1 \in 1 .. Len(evs) PROVE FALSE
      <4>1. sent[d + 1] = PackageEvent(evs[1]) /\ evs[1] \in LineNos /\ d + Len(evs) <= Len(sent)
        BY <3>1, SeqParts, Zenon DEF Broadcast
      <4>2. d + 1 \in 1 .. Len(sent) /\ LineNos \subseteq Nat
        BY <1>3, <3>1, <4>1, SMT DEF LineNos
      <4> QED
        BY <2>1, <4>1, <4>2, FramesTyped, Zenon
    <3> QED
      BY <1>3, <3>1, SMT
  <2>3. Beginning(<<>>, evs)
    BY <1>5, <2>2, SeqEmpty, SMT DEF Beginning
  <2>4. Shown(f)' <= d \/ Shown(f)' > d + Len(evs)
    BY <1>5, <2>2, SMT
  <2> QED
    BY <1>1, <2>2, <2>3, <2>4, SeqEmpty, Zenon DEF Seen
<1>8. ~Follows(f)' => Seen(f, d, evs)'
  BY <1>1, Zenon DEF Seen
<1> QED
  BY <1>6, <1>7, <1>8, Zenon

\* A follower whose place in the events stays what it was.
LEMMA SeenKept ==
  ASSUME NEW f \in Followers, NEW d \in Nat, NEW evs \in Seq(LineNos), Seen(f, d, evs), SameCli(f),
         cli[f].at = "stream" => Shown(f)' = Shown(f)
  PROVE  Seen(f, d, evs)'
<1>1. cli'[f] = cli[f]
  BY Zenon DEF SameCli
<1>2. Follows(f)' <=> Follows(f)
  BY <1>1, Zenon DEF Follows
<1> QED
  BY <1>1, <1>2, Zenon DEF Seen

\* A follower that moves.
LEMMA SeenMoves ==
  ASSUME OrderTypes, WireTypes, UNCHANGED orderVars, NEW f \in Followers, FollowOne(f), InOrder(f),
         cli[f].at = "new" => cli[f].saw = <<>>,
         NEW d \in Nat, NEW evs \in Seq(LineNos), Broadcast(d, evs), Seen(f, d, evs), WireEffect(f)
  PROVE  InOrder(f)' /\ Seen(f, d, evs)' /\ (cli'[f].at = "new" => cli'[f].saw = <<>>)
<1>1. CASE Connects(f)
  <2>1. cli[f].saw = <<>> /\ cli'[f].at = "stream"
    BY <1>1, Zenon DEF Connects
  <2> QED
    BY <1>1, <2>1, SeenOpens, Zenon
<1>2. CASE Misses(f)
  BY <1>2, Zenon DEF Misses, InOrder, Seen
<1>3. CASE Attends(f) \/ Forwards(f) \/ Finishes(f) \/ Closes(f)
  <2>1. InOrder(f)' /\ Shown(f)' = Shown(f) /\ cli'[f] = cli[f]
    BY <1>3, OrderRuns, Zenon
  <2>2. Seen(f, d, evs)'
    BY <2>1, SeenKept, Zenon DEF SameCli
  <2> QED
    BY <2>1, <2>2, Zenon
<1>4. CASE Lags(f)
  <2>1. cli'[f].lagged /\ cli'[f].at = cli[f].at /\ cli'[f].saw = cli[f].saw
    BY <1>4, Zenon DEF Lags
  <2> QED
    BY <2>1, Zenon DEF InOrder, Seen, Follows
<1>5. CASE Shows(f)
  <2>1. InOrder(f)' /\ Seen(f, d, evs)'
    BY <1>5, OrderShows, SeenShows, Zenon
  <2>2. cli'[f].at # "new"
    BY <1>5, Zenon DEF Shows
  <2> QED
    BY <2>1, <2>2, Zenon
<1>6. CASE Leaves(f)
  <2>1. cli'[f].at \in {"await", "result", "error"} /\ (Follows(f)' <=> Follows(f))
    BY <1>6, Zenon DEF Leaves, SameView, Follows
  <2>2. cli'[f].at \in {"await", "result"} /\ cli'[f].why = "finished" =>
          cli[f].at = "await" /\ cli[f].why = "finished" /\ cli'[f].saw = cli[f].saw
    BY <1>6, Zenon DEF Leaves
  <2> QED
    BY <2>1, <2>2, Zenon DEF InOrder, Seen
<1> QED
  BY <1>1, <1>2, <1>3, <1>4, <1>5, <1>6, Zenon DEF WireEffect

LEMMA SeenWire ==
  ASSUME OrderTypes, WireTypes, FollowInv, SeenInv, UNCHANGED <<orderVars, relayVars>>,
         NEW f \in Followers, WireEffect(f)
  PROVE  SeenInv'
<1>1. PICK d \in Nat, evs \in Seq(LineNos) : Broadcast(d, evs) /\ \A g \in Followers : Seen(g, d, evs)
  BY Zenon DEF SeenInv, LineNos
<1>2. Broadcast(d, evs)'
  BY <1>1, Zenon DEF Broadcast, Reported, MadeFrom, NoneFailed, script, orderVars, relayVars
<1>3. Grows
  BY GrowsByNone, Zenon DEF OrderTypes, orderVars
<1>4. ASSUME NEW g \in Followers
      PROVE  InOrder(g)' /\ Seen(g, d, evs)' /\ (cli'[g].at = "new" => cli'[g].saw = <<>>)
  <2>1. InOrder(g) /\ Seen(g, d, evs) /\ (cli[g].at = "new" => cli[g].saw = <<>>) /\ FollowOne(g)
    BY <1>1, Zenon DEF SeenInv, FollowInv
  <2>2. CASE g = f
    BY <1>1, <2>1, <2>2, SeenMoves, Zenon
  <2>3. CASE g # f
    <3>1. SameHandler(g) /\ SameCli(g) /\ SameFrames(g)
      BY <2>3, Zenon DEF WireEffect, OneFollower
    <3>2. InOrder(g)' /\ Shown(g)' = Shown(g)
      BY <1>3, <2>1, <3>1, OrderKept, Zenon
    <3>3. Seen(g, d, evs)'
      BY <2>1, <3>1, <3>2, SeenKept, Zenon
    <3> QED
      BY <2>1, <3>1, <3>2, <3>3, Zenon DEF SameCli
  <2> QED
    BY <2>2, <2>3, Zenon
<1>5. \E e \in Nat : \E t \in Seq(Nat \ {0}) : Broadcast(e, t)' /\ \A g \in Followers : Seen(g, e, t)'
  BY <1>2, <1>4, Zenon DEF LineNos
<1> QED
  BY <1>4, <1>5, Zenon DEF SeenInv

\* The followers stand still and what the order has broadcast grows.
LEMMA SeenStill ==
  ASSUME OrderTypes, WireTypes, FollowInv, SeenInv, Grows, UNCHANGED wireVars,
         NEW d \in Nat, NEW evs \in Seq(LineNos), Broadcast(d, evs)', \A g \in Followers : Seen(g, d, evs)
  PROVE  SeenInv'
<1>1. ASSUME NEW g \in Followers
      PROVE  InOrder(g)' /\ Seen(g, d, evs)' /\ (cli'[g].at = "new" => cli'[g].saw = <<>>)
  <2>1. InOrder(g) /\ Seen(g, d, evs) /\ (cli[g].at = "new" => cli[g].saw = <<>>) /\ FollowOne(g)
    BY Zenon DEF SeenInv, FollowInv
  <2>2. SameHandler(g) /\ SameCli(g) /\ SameFrames(g)
    BY Zenon DEF wireVars, SameHandler, SameCli, SameFrames
  <2>3. InOrder(g)' /\ Shown(g)' = Shown(g)
    BY <2>1, <2>2, OrderKept, Zenon
  <2>4. Seen(g, d, evs)'
    BY <2>1, <2>2, <2>3, SeenKept, Zenon
  <2> QED
    BY <2>1, <2>2, <2>3, <2>4, Zenon DEF SameCli
<1>2. \E e \in Nat : \E t \in Seq(Nat \ {0}) : Broadcast(e, t)' /\ \A g \in Followers : Seen(g, e, t)'
  BY <1>1, Zenon DEF LineNos
<1> QED
  BY <1>1, <1>2, Zenon DEF SeenInv

\* The progress channel grows by a status or by Finished.
LEMMA BroadcastSent ==
  ASSUME OrderTypes, NEW d \in Nat, NEW evs \in Seq(LineNos), Broadcast(d, evs),
         NEW e \in {StatusEvent, FinishedEvent}, sent' = Append(sent, e)
  PROVE  /\ d + Len(evs) <= Len(sent')
         /\ \A i \in 1 .. Len(evs) : sent'[d + i] = PackageEvent(evs[i])
         /\ \A i \in DOMAIN sent' : sent'[i].kind = "package" => i > d /\ i <= d + Len(evs)
         /\ \A i \in DOMAIN sent' : sent'[i] = FinishedEvent => i > d + Len(evs)
<1>1. e \in Frame /\ e.kind # "package" /\ sent \in Seq(Frame)
  BY FramesTyped, Zenon DEF OrderTypes
<1>2. /\ Len(sent) \in Nat /\ Len(sent') = Len(sent) + 1 /\ sent'[Len(sent) + 1] = e
      /\ DOMAIN sent = 1 .. Len(sent) /\ DOMAIN sent' = 1 .. Len(sent')
      /\ \A i \in 1 .. Len(sent) : sent'[i] = sent[i]
      /\ \A i \in 1 .. Len(sent') : i \in 1 .. Len(sent) \/ i = Len(sent) + 1
  BY <1>1, GrowsByOne, Zenon DEF Grows
<1>3. d + Len(evs) <= Len(sent) /\ Len(evs) \in Nat
  BY SeqParts, Zenon DEF Broadcast
<1>4. /\ \A m, n, k \in Nat : m + n <= k => m + n <= k + 1 /\ k + 1 > m + n
      /\ \A m, n, k \in Nat : m + n <= k => \A i \in 1 .. n : m + i \in 1 .. k
  BY SMT
<1>5. /\ d + Len(evs) <= Len(sent') /\ Len(sent) + 1 > d + Len(evs)
      /\ \A i \in 1 .. Len(evs) : d + i \in 1 .. Len(sent)
  BY <1>2, <1>3, <1>4, Zenon
<1>6. \A i \in 1 .. Len(evs) : sent'[d + i] = PackageEvent(evs[i])
  BY <1>2, <1>5, Zenon DEF Broadcast
<1>7. \A i \in DOMAIN sent' : sent'[i].kind = "package" => i > d /\ i <= d + Len(evs)
  BY <1>1, <1>2, Zenon DEF Broadcast
<1>8. \A i \in DOMAIN sent' : sent'[i] = FinishedEvent => i > d + Len(evs)
  BY <1>2, <1>5, Zenon DEF Broadcast
<1> QED
  BY <1>5, <1>6, <1>7, <1>8, Zenon

\* What a step of the server but TaskDrain does to what the task has collected.
Hands ==
    /\ task' \in Before \cup Collecting => task \in Before \cup Collecting
    /\ task' \in Settling \cup Storing => task \in Settling \cup Storing /\ collected' = collected
    /\ \/ result' \in {result, NoResult, Unbuilt}
       \/ task \in Storing /\ task' = "finish" /\ result' \in Report(task)

LEMMA ServerHands ==
  ASSUME ServerNext, ~TaskDrain
  PROVE  Hands
<1>1. CASE Claim \/ TaskBegin \/ TaskBuilding \/ TaskFailsEarly \/ TaskEarlyFinish \/ TaskEarlyStore
  BY <1>1, Zenon DEF Hands, Claim, TaskBegin, TaskBuilding, TaskFailsEarly, TaskEarlyFinish, TaskEarlyStore,
     Before, Collecting, Settling, Storing, relayVars
<1>2. CASE TaskStart \/ TaskAttach \/ TaskPanic \/ TaskFlush \/ TaskWait \/ TaskTimeout \/ TaskWaitError
  BY <1>2, Zenon DEF Hands, TaskStart, TaskAttach, TaskPanic, TaskFlush, Flushing, TaskWait, TaskTimeout, TaskWaitError,
     Before, Collecting, Settling, Storing, relayVars
<1>3. CASE TaskSettle \/ TaskStore \/ TaskFinish \/ TaskCleanup
  BY <1>3, Zenon DEF Hands, TaskSettle, TaskStore, TaskFinish, TaskCleanup, Before, Collecting, Settling, Storing, relayVars
<1>4. CASE CancelMark \/ CancelSend \/ Evict
  <2>1. task' = task /\ collected' = collected /\ result' \in {result, NoResult}
    BY <1>4, Zenon DEF CancelMark, CancelSend, Evict, relayVars
  <2> QED
    BY <2>1, Zenon DEF Hands
<1> QED
  BY <1>1, <1>2, <1>3, <1>4, Zenon DEF ServerNext, TaskStep

LEMMA BroadcastStep ==
  ASSUME OrderTypes, RelayTypes, ServerNext, ~TaskDrain, NEW d \in Nat, NEW evs \in Seq(LineNos), Broadcast(d, evs)
  PROVE  Broadcast(d, evs)'
<1>1. /\ d + Len(evs) <= Len(sent')
      /\ \A i \in 1 .. Len(evs) : sent'[d + i] = PackageEvent(evs[i])
      /\ \A i \in DOMAIN sent' : sent'[i].kind = "package" => i > d /\ i <= d + Len(evs)
      /\ \A i \in DOMAIN sent' : sent'[i] = FinishedEvent => i > d + Len(evs)
  <2>1. CASE sent' = sent
    BY <2>1, Zenon DEF Broadcast
  <2>2. CASE sent' = Append(sent, StatusEvent) \/ sent' = Append(sent, FinishedEvent)
    BY <2>2, BroadcastSent, Zenon
  <2> QED
    BY <2>1, <2>2, ServerSends, Zenon
<1>2. Hands
  BY ServerHands, Zenon
<1>3. /\ task' \in Settling \cup Storing => collected' = evs
      /\ task' \in Before \cup Collecting => evs = <<>> /\ result' \in {NoResult, Unbuilt}
  <2>1. "finish" \notin Before \cup Collecting
    BY Zenon DEF Before, Collecting
  <2> QED
    BY <1>2, <2>1, Zenon DEF Hands, Broadcast
<1>4. NoneFailed(evs)' <=> NoneFailed(evs)
  BY ServerFrame, Zenon DEF NoneFailed, script
<1>5. Reported(evs)'
  <2>1. CASE result' \in {result, NoResult, Unbuilt}
    <3>1. Reported(evs)
      BY Zenon DEF Broadcast
    <3> QED
      BY <1>4, <2>1, <3>1, Zenon DEF Reported, MadeFrom
  <2>2. CASE task \in Storing /\ result' \in Report(task)
    <3>1. collected = evs
      BY <2>2, Zenon DEF Broadcast
    <3>2. result' = Unbuilt \/ MadeFrom(result', collected)
      BY <2>2, ReportMade, Zenon
    <3> QED
      BY <1>4, <3>1, <3>2, Zenon DEF Reported, MadeFrom
  <2> QED
    BY <1>2, <2>1, <2>2, Zenon DEF Hands
<1> QED
  BY <1>1, <1>3, <1>5, Zenon DEF Broadcast

\* The collected events are broadcast: they come behind everything sent before.
LEMMA BroadcastDrain ==
  ASSUME OrderTypes, RelayTypes, SentInv, TaskDrain,
         NEW d \in Nat, NEW evs \in Seq(LineNos), Broadcast(d, evs),
         NEW n \in Nat, n = Len(sent), NEW t \in Seq(LineNos), t = events
  PROVE  Broadcast(n, t)' /\ evs = <<>> /\ ~Finished
<1>1. /\ task \in {"drain_ok", "drain_bad"} /\ task' \in Settling /\ collected' = t /\ result' = result
      /\ sent' = sent \o Packages(events)
  BY Zenon DEF TaskDrain, Settling, Packages
<1>2. evs = <<>> /\ result \in {NoResult, Unbuilt}
  BY <1>1, Zenon DEF Broadcast, Collecting
<1>3. ~Finished
  BY <1>1, Zenon DEF SentInv
<1>4. sent \in Seq(Frame) /\ events \in Seq(LineNos)
  BY Zenon DEF OrderTypes, RelayTypes
<1>5. /\ Len(sent') = n + Len(t) /\ Len(t) \in Nat
      /\ \A i \in 1 .. Len(t) : sent'[n + i] = PackageEvent(t[i])
      /\ \A j \in 1 .. Len(sent') : j \in 1 .. n \/ \E i \in 1 .. Len(t) : j = n + i
      /\ DOMAIN sent = 1 .. n /\ DOMAIN sent' = 1 .. Len(sent')
      /\ \A i \in 1 .. n : sent'[i] = sent[i]
  BY <1>1, <1>4, GrowsByDrain, SeqParts, Zenon DEF Grows
<1>6. /\ \A i \in 1 .. Len(t) : n + i > n /\ n + i <= n + Len(t)
      /\ n + Len(t) <= n + Len(t)
  BY <1>5, SMT
<1>7. \A i \in 1 .. n : sent[i].kind # "package"
  <2>1. \A m \in Nat, i \in Int : ~(i > m /\ i <= m + 0)
    BY SMT
  <2>2. \A i \in 1 .. n : i \in Int
    BY SMT
  <2>3. \A i \in 1 .. n : sent[i].kind = "package" => i > d /\ i <= d + 0
    BY <1>2, <1>5, SeqEmpty, Zenon DEF Broadcast
  <2> QED
    BY <2>1, <2>2, <2>3, Zenon
<1>8. \A j \in 1 .. Len(sent') : sent'[j].kind = "package" => j > n /\ j <= n + Len(t)
  BY <1>5, <1>6, <1>7, Zenon
<1>9. \A j \in 1 .. Len(sent') : sent'[j] # FinishedEvent
  <2>1. \A i \in 1 .. Len(t) : t[i] \in Nat
    <3>1. \A i \in 1 .. Len(t) : t[i] \in LineNos
      BY SeqParts, Zenon
    <3> QED
      BY <3>1, Zenon DEF LineNos
  <2>2. \A i \in 1 .. Len(t) : sent'[n + i] # FinishedEvent
    <3>1. \A i \in Nat : PackageEvent(i) # FinishedEvent
      BY FramesTyped, Zenon
    <3> QED
      BY <1>5, <2>1, <3>1, ZenonT(60)
  <2>3. \A i \in 1 .. n : sent'[i] # FinishedEvent
    BY <1>3, <1>5, Zenon DEF Finished
  <2> QED
    BY <1>5, <2>2, <2>3, Zenon
<1>10. task' \notin Before \cup Collecting
  BY <1>1, Zenon DEF Settling, Before, Collecting
<1>11. Reported(t)'
  BY <1>1, <1>2, Zenon DEF Reported
<1>12. Broadcast(n, t)'
  BY <1>1, <1>5, <1>6, <1>8, <1>9, <1>10, <1>11, Zenon DEF Broadcast
<1> QED
  BY <1>2, <1>3, <1>12, Zenon

\* A follower has seen nothing of them yet.
LEMMA SeenDrain ==
  ASSUME OrderTypes, WireTypes, NEW f \in Followers, FollowOne(f), InOrder(f), ~Finished,
         NEW d \in Nat, Seen(f, d, <<>>), NEW n \in Nat, n = Len(sent), NEW t \in Seq(LineNos)
  PROVE  Seen(f, n, t)
<1>1. cli[f].at \in {"await", "result"} => cli[f].why # "finished"
  BY Zenon DEF FollowOne
<1>2. ASSUME cli[f].at = "stream", Follows(f)
      PROVE  Beginning(cli[f].saw, t) /\ Shown(f) <= n /\ Len(cli[f].saw) = 0
  <2>1. /\ Taken(f) \in Nat /\ Shown(f) \in Int /\ Shown(f) + Taken(f) <= n
        /\ Len(cli[f].saw) <= Len(<<>>)
    <3>1. Shown(f) + Taken(f) = handler[f].pos /\ handler[f].pos <= Len(sent)
      BY <1>2, Counted, Zenon
    <3>2. Beginning(cli[f].saw, <<>>)
      BY <1>2, Zenon DEF Seen
    <3> QED
      BY <1>2, <3>1, <3>2, Counted, Zenon DEF Beginning
  <2>2. Len(cli[f].saw) \in Nat /\ Len(t) \in Nat
    <3>1. cli[f].saw \in Seq(Nat)
      BY Zenon DEF WireTypes, Clis
    <3> QED
      BY <3>1, SeqParts, Zenon
  <2>3. Len(cli[f].saw) <= 0
    BY <2>1, SeqEmpty, Zenon
  <2>4. Shown(f) <= n /\ Len(cli[f].saw) = 0 /\ 0 <= Len(t) /\ 1 .. 0 = {}
    BY <2>1, <2>2, <2>3, SMT
  <2> QED
    BY <2>4, Zenon DEF Beginning
<1> QED
  BY <1>1, <1>2, Zenon DEF Seen

LEMMA SeenServer ==
  ASSUME OrderTypes, RelayTypes, WireTypes, SentInv, FollowInv, SeenInv, ServerNext
  PROVE  SeenInv'
<1>1. PICK d \in Nat, evs \in Seq(LineNos) : Broadcast(d, evs) /\ \A g \in Followers : Seen(g, d, evs)
  BY Zenon DEF SeenInv, LineNos
<1>2. Grows /\ UNCHANGED wireVars
  BY ServerGrows, ServerFrame, Zenon
<1>3. CASE ~TaskDrain
  <2>1. Broadcast(d, evs)'
    BY <1>1, <1>3, BroadcastStep, Zenon
  <2> QED
    BY <1>1, <1>2, <2>1, SeenStill, Zenon
<1>4. CASE TaskDrain
  <2>1. PICK n \in Nat, t \in Seq(LineNos) : n = Len(sent) /\ t = events
    BY <1>2, Zenon DEF Grows, RelayTypes
  <2>2. Broadcast(n, t)' /\ evs = <<>> /\ ~Finished
    BY <1>1, <1>4, <2>1, BroadcastDrain, Zenon
  <2>3. ASSUME NEW g \in Followers
        PROVE  Seen(g, n, t)
    <3>1. FollowOne(g) /\ InOrder(g) /\ Seen(g, d, <<>>)
      BY <1>1, <2>2, Zenon DEF FollowInv, SeenInv
    <3> QED
      BY <2>1, <2>2, <3>1, SeenDrain, Zenon
  <2> QED
    BY <1>2, <2>2, <2>3, SeenStill, Zenon
<1> QED
  BY <1>3, <1>4, Zenon

LEMMA SeenOthers ==
  ASSUME OrderTypes, WireTypes, FollowInv, SeenInv, UNCHANGED <<orderVars, wireVars, collected, scenario>>
  PROVE  SeenInv'
<1>1. PICK d \in Nat, evs \in Seq(LineNos) : Broadcast(d, evs) /\ \A g \in Followers : Seen(g, d, evs)
  BY Zenon DEF SeenInv, LineNos
<1>2. Broadcast(d, evs)'
  BY <1>1, Zenon DEF Broadcast, Reported, MadeFrom, NoneFailed, script, orderVars
<1>3. Grows
  BY GrowsByNone, Zenon DEF OrderTypes, orderVars
<1> QED
  BY <1>1, <1>2, <1>3, SeenStill, Zenon

(***************************************************************************)
(* The keys: types and invariant.                                          *)
(***************************************************************************)
LEMMA KeysTyped ==
  ASSUME KeyTypes
  PROVE  /\ input \in Seq(Pairs) /\ stdin.chan \in Seq(Pairs) /\ stdin.reader \in BOOLEAN
         /\ Through \in Seq(Pairs) /\ DOMAIN Through = 1 .. Len(Through) /\ Len(Through) \in Nat
         /\ \A f \in Followers : /\ keys[f] \in Keys /\ keys[f].typed \in Nat /\ keys[f].wire \in Seq(Nat)
                                 /\ Len(keys[f].wire) \in Nat /\ LastSent(f) \in Int
                                 /\ DOMAIN keys[f].wire = 1 .. Len(keys[f].wire)
<1>1. input \in Seq(Pairs) /\ stdin.chan \in Seq(Pairs) /\ stdin.reader \in BOOLEAN
  BY Zenon DEF KeyTypes
<1>2. Through \in Seq(Pairs)
  BY <1>1, SeqJoin, Zenon DEF Through
<1>3. DOMAIN Through = 1 .. Len(Through) /\ Len(Through) \in Nat
  BY <1>2, SeqParts, Zenon
<1>4. ASSUME NEW f \in Followers
      PROVE  /\ keys[f] \in Keys /\ keys[f].typed \in Nat /\ keys[f].wire \in Seq(Nat)
             /\ Len(keys[f].wire) \in Nat /\ LastSent(f) \in Int
             /\ DOMAIN keys[f].wire = 1 .. Len(keys[f].wire)
  <2>1. keys[f] \in Keys
    BY Zenon DEF KeyTypes
  <2>2. keys[f].typed \in Nat /\ keys[f].wire \in Seq(Nat)
    BY <2>1, Zenon DEF Keys
  <2>3. Len(keys[f].wire) \in Nat /\ DOMAIN keys[f].wire = 1 .. Len(keys[f].wire)
    BY <2>2, SeqParts, Zenon
  <2>4. \A m, n \in Nat : m - n \in Int
    BY SMT
  <2> QED
    BY <2>1, <2>2, <2>3, <2>4, Zenon DEF LastSent
<1> QED
  BY <1>1, <1>2, <1>3, <1>4, Zenon

\* No key of the follower has got through.
LEMMA NoneThrough ==
  ASSUME NEW f, NEW queue, NEW last \in Int, last >= 0, Of(f, queue) = {}
  PROVE  Unbroken(f, queue, last)
<1>1. last + 1 \in 1 .. last + 1 /\ (last + 1) .. last = {}
  BY SMT
<1>2. {queue[i][2] : i \in Of(f, queue)} = {}
  BY Zenon
<1> QED
  BY <1>1, <1>2, Zenon DEF Unbroken

\* The keys of the follower that got through stay the same ones.
Agree(f, s, t) == Of(f, t) = Of(f, s) /\ \A i \in Of(f, s) : t[i] = s[i]
SameThrough(f) == Agree(f, Through, Through')
SameKeys(f) == keys'[f] = keys[f]

LEMMA SameUnbroken ==
  ASSUME NEW f, NEW s, NEW t, NEW last, Unbroken(f, s, last), Of(f, t) = Of(f, s),
         \A i \in Of(f, s) : t[i] = s[i]
  PROVE  Unbroken(f, t, last)
<1>1. ASSUME NEW i \in Of(f, t), NEW j \in Of(f, t), i < j
      PROVE  t[i][2] < t[j][2]
  <2>1. t[i] = s[i] /\ t[j] = s[j] /\ s[i][2] < s[j][2]
    BY <1>1, Zenon DEF Unbroken
  <2> QED
    BY <2>1, Zenon
<1>2. {t[i][2] : i \in Of(f, t)} = {s[i][2] : i \in Of(f, s)}
  <2> HIDE DEF Of
  <2> QED
    BY SMT
<1> QED
  BY <1>1, <1>2, Zenon DEF Unbroken

LEMMA ThroughKept ==
  ASSUME NEW f \in Followers, SameKeys(f), SameThrough(f), Contiguous(f)
  PROVE  Contiguous(f)'
<1>1. LastSent(f)' = LastSent(f)
  BY Zenon DEF SameKeys, LastSent
<1>2. Unbroken(f, Through', LastSent(f))
  BY SameUnbroken, Zenon DEF SameThrough, Agree, Contiguous
<1> QED
  BY <1>1, <1>2, Zenon DEF Contiguous

\* Neither the follower's keys nor its stream change.
LEMMA KeyKept ==
  ASSUME NEW f \in Followers, SameHandler(f), SameCli(f), SameKeys(f), KeyOne(f),
         SameThrough(f) \/ (~stdin'.reader /\ Of(f, Through)' \subseteq Of(f, Through)),
         stdin'.reader /\ "stdin" \in listed' => stdin.reader /\ "stdin" \in listed
  PROVE  KeyOne(f)'
<1>1. LastSent(f)' = LastSent(f) /\ keys'[f] = keys[f] /\ cli'[f] = cli[f] /\ handler'[f] = handler[f]
  BY Zenon DEF SameKeys, SameCli, SameHandler, LastSent
<1>2. Of(f, Through) = {} => Of(f, Through)' = {}
  BY Zenon DEF SameThrough, Agree
<1>3. stdin'.reader /\ Contiguous(f) => Contiguous(f)'
  BY ThroughKept, Zenon
<1> QED
  BY <1>1, <1>2, <1>3, Zenon DEF KeyOne

LEMMA StillThrough ==
  ASSUME Through' = Through
  PROVE  \A f \in Followers : SameThrough(f)
  BY Zenon DEF SameThrough, Agree, Of

\* The forwarder ends: what it has not written is lost.
LEMMA KeyStops ==
  ASSUME KeyTypes, KeyInv, UNCHANGED <<wireVars, keys, input>>, stdin' = NoStdin, task' \notin Before
  PROVE  KeyTypes' /\ KeyInv'
<1>1. stdin' \in [chan : Seq(Pairs), reader : BOOLEAN] /\ Len(stdin'.chan) <= StdinCap
      /\ ~stdin'.reader /\ stdin'.chan = <<>>
  <2>1. stdin'.chan = <<>> /\ ~stdin'.reader /\ stdin' \in [chan : Seq(Pairs), reader : BOOLEAN]
    BY SeqEmpty, Zenon DEF NoStdin
  <2>2. 0 <= StdinCap
    BY CapAssumption, SMT
  <2> QED
    BY <2>1, <2>2, SeqEmpty, Zenon
<1>2. KeyTypes'
  BY <1>1, Zenon DEF KeyTypes
<1>3. input \in Seq(Pairs) /\ stdin.chan \in Seq(Pairs) /\ Through' = input \o <<>>
  BY <1>1, KeysTyped, Zenon DEF Through
<1>4. Through' = input
  BY <1>3, SMT
<1>5. DOMAIN input \subseteq DOMAIN Through /\ \A i \in DOMAIN input : Through[i] = input[i]
  BY <1>3, SMT DEF Through
<1>6. ASSUME NEW f \in Followers PROVE KeyOne(f)'
  <2>1. SameHandler(f) /\ SameCli(f) /\ SameKeys(f) /\ KeyOne(f)
    BY Zenon DEF wireVars, SameHandler, SameCli, SameKeys, KeyInv
  <2>2. Of(f, Through)' \subseteq Of(f, Through)
    BY <1>4, <1>5, Zenon DEF Of
  <2> QED
    BY <1>1, <2>1, <2>2, KeyKept, Zenon
<1> QED
  BY <1>2, <1>6, Zenon DEF KeyInv

\* The server: the forwarder starts when the task attaches to the container.
LEMMA KeyServer ==
  ASSUME KeyTypes, KeyInv, ServerNext
  PROVE  KeyTypes' /\ KeyInv'
<1>1. UNCHANGED <<wireVars, keys, input>> /\ (TaskAttach \/ TaskFlush \/ UNCHANGED stdin)
  BY ServerFrame, Zenon
<1>2. CASE TaskAttach
  <2>1. stdin' = [stdin EXCEPT !.reader = TRUE]
    BY <1>2, Zenon DEF TaskAttach
  <2>2. stdin' \in [chan : Seq(Pairs), reader : BOOLEAN] /\ stdin'.chan = stdin.chan
    BY <2>1, Zenon DEF KeyTypes
  <2>3. KeyTypes'
    BY <1>1, <2>2, Zenon DEF KeyTypes
  <2>4. Through' = <<>> /\ Through = <<>> /\ task' \notin Before
    BY <1>1, <1>2, <2>2, Zenon DEF TaskAttach, Before, KeyInv, Through
  <2>5. DOMAIN <<>> = {}
    BY SMT
  <2>6. ASSUME NEW f \in Followers PROVE KeyOne(f)'
    <3>1. Of(f, Through)' = {}
      BY <2>4, <2>5, Zenon DEF Of
    <3>2. LastSent(f)' = LastSent(f) /\ keys' = keys /\ cli' = cli /\ KeyOne(f)
      BY <1>1, Zenon DEF LastSent, wireVars, KeyInv
    <3>3. LastSent(f)' >= 0
      BY <3>2, Zenon DEF KeyOne
    <3>4. LastSent(f)' \in Int
      BY <3>2, KeysTyped, Zenon
    <3>5. Contiguous(f)'
      BY <3>1, <3>3, <3>4, NoneThrough, Zenon DEF Contiguous
    <3> QED
      BY <3>1, <3>2, <3>3, <3>5, Zenon DEF KeyOne
  <2> QED
    BY <2>3, <2>4, <2>6, Zenon DEF KeyInv
<1>3. CASE UNCHANGED stdin /\ ~TaskAttach
  <2>1. KeyTypes' /\ Through' = Through
    BY <1>1, <1>3, Zenon DEF KeyTypes, Through
  <2>2. (task' \in Before => task \in Before) /\ ("stdin" \in listed' => "stdin" \in listed)
    BY <1>3, Zenon DEF ServerNext, TaskStep, Claim, TaskBegin, TaskBuilding, TaskFailsEarly, TaskEarlyFinish,
       TaskEarlyStore, TaskStart, TaskPanic, TaskFlush, TaskDrain, TaskSettle, TaskStore, TaskFinish,
       TaskCleanup, TaskWait, TaskTimeout, TaskWaitError, CancelMark, CancelSend, Evict, Before
  <2>3. ASSUME NEW f \in Followers PROVE KeyOne(f)'
    <3>1. SameHandler(f) /\ SameCli(f) /\ SameKeys(f) /\ KeyOne(f)
      BY <1>1, Zenon DEF wireVars, SameHandler, SameCli, SameKeys, KeyInv
    <3>2. SameThrough(f)
      BY <2>1, StillThrough, Zenon
    <3> QED
      BY <1>3, <2>2, <3>1, <3>2, KeyKept, Zenon
  <2> QED
    BY <1>3, <2>1, <2>2, <2>3, Zenon DEF KeyInv
<1>4. CASE TaskFlush /\ stdin' # stdin
  <2>1. stdin' = NoStdin /\ task' \notin Before
    BY <1>4, Zenon DEF TaskFlush, Before
  <2> QED
    BY <1>1, <2>1, KeyStops, Zenon
<1> QED
  BY <1>1, <1>2, <1>3, <1>4, Zenon

LEMMA KeyOutput ==
  ASSUME RelayInv, KeyTypes, KeyInv, OutputNext
  PROVE  KeyTypes' /\ KeyInv'
<1>1. UNCHANGED <<orderVars, wireVars, keys, input>>
  BY OutputFrame, Zenon
<1>2. CASE LogEnd \/ (LogAttach /\ stdin' # stdin)
  <2>1. stdin' = NoStdin /\ task' \notin Before
    BY <1>1, <1>2, Zenon DEF LogEnd, LogAttach, RelayInv, orderVars
  <2> QED
    BY <1>1, <2>1, KeyStops, Zenon
<1>3. CASE ContainerPrint \/ ContainerExit \/ (LogAttach /\ stdin' = stdin) \/ LogRead \/ LogSend
  <2>1. stdin' = stdin
    BY <1>3, Zenon DEF ContainerPrint, ContainerExit, LogRead, LogSend, keyVars
  <2>2. KeyTypes' /\ Through' = Through
    BY <1>1, <2>1, Zenon DEF KeyTypes, Through
  <2>3. ASSUME NEW f \in Followers PROVE KeyOne(f)'
    <3>1. SameHandler(f) /\ SameCli(f) /\ SameKeys(f) /\ KeyOne(f) /\ listed' = listed
      BY <1>1, Zenon DEF orderVars, wireVars, SameHandler, SameCli, SameKeys, KeyInv
    <3>2. SameThrough(f)
      BY <2>2, StillThrough, Zenon
    <3> QED
      BY <2>1, <3>1, <3>2, KeyKept, Zenon
  <2> QED
    BY <1>1, <2>1, <2>2, <2>3, Zenon DEF KeyInv, orderVars
<1> QED
  BY <1>2, <1>3, Zenon DEF OutputNext

\* A key moves on from the channel to the terminal.
LEMMA HandOver ==
  ASSUME NEW S, NEW s \in Seq(S), NEW t \in Seq(S), t # <<>>
  PROVE  /\ Append(s, Head(t)) \o Tail(t) = s \o t
         /\ Append(s, Head(t)) \in Seq(S) /\ Tail(t) \in Seq(S) /\ Len(Tail(t)) <= Len(t)
<1> DEFINE left == Append(s, Head(t)) \o Tail(t)
           right == s \o t
<1>1. Head(t) \in S /\ Tail(t) \in Seq(S) /\ Len(Tail(t)) = Len(t) - 1 /\ Len(t) \in Nat /\ Len(s) \in Nat
  BY SeqParts, Zenon
<1>2. Append(s, Head(t)) \in Seq(S) /\ Len(Append(s, Head(t))) = Len(s) + 1
  BY <1>1, SMT
<1>3. /\ left \in Seq(S) /\ right \in Seq(S)
      /\ Len(left) = Len(Append(s, Head(t))) + Len(Tail(t)) /\ Len(right) = Len(s) + Len(t)
  BY <1>1, <1>2, SMT
<1>4. Len(left) = Len(right)
  BY <1>1, <1>2, <1>3, SMTT(40)
<1>5. \A i \in 1 .. Len(left) : left[i] = right[i]
  BY <1>1, <1>2, <1>3, SMTT(40)
<1> HIDE DEF left, right
<1>6. left = right
  <2>1. left = [i \in 1 .. Len(left) |-> left[i]] /\ right = [i \in 1 .. Len(right) |-> right[i]]
    BY <1>3, SMT
  <2> QED
    BY <1>4, <1>5, <2>1, Zenon
<1>7. Len(Tail(t)) <= Len(t)
  BY <1>1, SMT
<1> QED
  BY <1>1, <1>2, <1>6, <1>7, Zenon DEF left, right

LEMMA KeyStdin ==
  ASSUME KeyTypes, KeyInv, StdinNext
  PROVE  KeyTypes' /\ KeyInv'
<1>1. UNCHANGED <<orderVars, wireVars, keys>>
  BY StdinFrame, Zenon
<1>2. stdin.reader /\ task \notin Before /\ task' = task
  BY <1>1, Zenon DEF StdinNext, StdinWrite, StdinEnd, KeyInv, orderVars
<1>3. CASE StdinEnd \/ (StdinWrite /\ container # "running")
  <2>1. stdin' = NoStdin /\ input' = input
    BY <1>3, Zenon DEF StdinEnd, StdinWrite
  <2> QED
    BY <1>1, <1>2, <2>1, KeyStops, Zenon
<1>4. CASE StdinWrite /\ container = "running"
  <2>1. /\ stdin.chan # <<>> /\ input' = Append(input, Head(stdin.chan))
        /\ stdin' = [stdin EXCEPT !.chan = Tail(stdin.chan)]
    BY <1>4, Zenon DEF StdinWrite
  <2>2. input \in Seq(Pairs) /\ stdin.chan \in Seq(Pairs)
    BY KeysTyped, Zenon
  <2>3. /\ Append(input, Head(stdin.chan)) \o Tail(stdin.chan) = Through
        /\ input' \in Seq(Pairs) /\ Tail(stdin.chan) \in Seq(Pairs) /\ Len(Tail(stdin.chan)) <= Len(stdin.chan)
    BY <2>1, <2>2, HandOver, ZenonT(60) DEF Through
  <2>4. /\ stdin' \in [chan : Seq(Pairs), reader : BOOLEAN] /\ stdin'.chan = Tail(stdin.chan)
        /\ stdin'.reader = stdin.reader
    BY <2>1, <2>3, Zenon DEF KeyTypes
  <2>5. Len(stdin'.chan) <= StdinCap
    <3>1. Len(stdin.chan) <= StdinCap /\ Len(stdin.chan) \in Nat /\ Len(Tail(stdin.chan)) \in Nat /\ StdinCap \in Nat
      BY <2>2, <2>3, SeqParts, CapAssumption, Zenon DEF KeyTypes
    <3>2. \A a, b, c \in Nat : a <= b /\ b <= c => a <= c
      BY SMT
    <3> QED
      BY <2>3, <2>4, <3>1, <3>2, Zenon
  <2>6. KeyTypes' /\ Through' = Through
    BY <1>1, <2>1, <2>3, <2>4, <2>5, Zenon DEF KeyTypes, Through
  <2>7. ASSUME NEW f \in Followers PROVE KeyOne(f)'
    <3>1. SameHandler(f) /\ SameCli(f) /\ SameKeys(f) /\ KeyOne(f) /\ listed' = listed
      BY <1>1, Zenon DEF orderVars, wireVars, SameHandler, SameCli, SameKeys, KeyInv
    <3>2. SameThrough(f)
      BY <2>6, StillThrough, Zenon
    <3> QED
      BY <2>4, <3>1, <3>2, KeyKept, Zenon
  <2> QED
    BY <1>1, <1>2, <2>6, <2>7, ZenonT(60) DEF KeyInv, orderVars
<1> QED
  BY <1>3, <1>4, Zenon DEF StdinNext

\* A follower that leaves drops the keys it has not sent.
LEMMA WireKeys ==
  ASSUME WireTypes, KeyTypes, NEW f \in Followers, WireNext(f)
  PROVE  /\ KeyTypes' /\ \A g \in Followers \ {f} : SameKeys(g)
         /\ keys'[f].typed = keys[f].typed
         /\ SameKeys(f) \/ (keys'[f].wire = <<>> /\ handler'[f].at = "closed")
<1>1. stdin' = stdin /\ input' = input
  BY WireFrame, Zenon
<1>2. CASE keys' = keys
  BY <1>1, <1>2, Zenon DEF KeyTypes, SameKeys
<1>3. CASE keys' = [keys EXCEPT ![f].wire = <<>>] /\ handler' = [handler EXCEPT ![f] = [NoHandler EXCEPT !.at = "closed"]]
  <2> DEFINE k == [keys[f] EXCEPT !.wire = <<>>]
  <2>1. keys[f] \in Keys
    BY Zenon DEF KeyTypes
  <2>2. k \in Keys /\ k.wire = <<>> /\ k.typed = keys[f].typed
    BY <2>1, SeqEmpty, Zenon DEF Keys
  <2>3. keys' = [keys EXCEPT ![f] = k]
    BY <1>3, Zenon
  <2> HIDE DEF k
  <2>4. keys' \in [Followers -> Keys] /\ keys'[f] = k /\ \A g \in Followers \ {f} : keys'[g] = keys[g]
    BY <2>2, <2>3, Moved, Zenon DEF KeyTypes
  <2>5. handler'[f].at = "closed"
    BY <1>3, Zenon DEF WireTypes, NoHandler
  <2> QED
    BY <1>1, <2>2, <2>4, <2>5, Zenon DEF KeyTypes, SameKeys
<1>4. CASE Subscribe(f) \/ HandlerStep(f) \/ CliFrame(f)
  <2>1. keys' = keys
    BY <1>4, Zenon DEF Subscribe, HandlerStep, SubscribeRaw, HandlerRawClosed, HandlerLagged, HandlerEvent,
       HandlerClosed, CliFrame, keyVars
  <2> QED
    BY <1>2, <2>1, Zenon
<1>5. CASE CliPoll(f) \/ CliAwait(f) \/ CliAwaitTimeout(f) \/ NetworkFails(f)
  <2>1. /\ keys' = [keys EXCEPT ![f].wire = <<>>]
        /\ handler' = [handler EXCEPT ![f] = [NoHandler EXCEPT !.at = "closed"]]
    BY <1>5, Zenon DEF CliPoll, CliAwait, CliAwaitTimeout, NetworkFails, EndCli
  <2> QED
    BY <1>3, <2>1, Zenon
<1> QED
  BY <1>4, <1>5, Zenon DEF WireNext

\* The follower or its handler moves, and the keys stay.
LEMMA KeyMoves ==
  ASSUME KeyTypes, NEW f \in Followers, FollowOne(f), KeyOne(f), WireEffect(f), SameKeys(f),
         SameThrough(f), stdin' = stdin, listed' = listed
  PROVE  KeyOne(f)'
<1>1. LastSent(f)' = LastSent(f) /\ keys'[f] = keys[f] /\ LastSent(f) >= 0 /\ LastSent(f) \in Int
  BY KeysTyped, Zenon DEF SameKeys, LastSent, KeyOne
<1>2. (Of(f, Through) = {} => Of(f, Through)' = {}) /\ (Contiguous(f) => Contiguous(f)')
  BY ThroughKept, Zenon DEF SameThrough, Agree
<1>3. cli[f].at = "new" => handler[f].at = "none"
  <2>1. NoHandler.at = "none"
    BY Zenon DEF NoHandler
  <2>2. cli[f].at = "new" => handler[f] = NoHandler
    BY Zenon DEF FollowOne
  <2> QED
    BY <2>1, <2>2, Zenon
<1>4. CASE Connects(f)
  <2>1. /\ cli[f].at = "new" /\ cli'[f].at = "stream" /\ handler'[f].at = "opening" /\ handler[f].at = "none"
        /\ keys[f].typed = 0
    BY <1>4, <1>3, Zenon DEF Connects, KeyOne
  <2>2. keys[f].wire \in Seq(Nat) /\ Len(keys[f].wire) \in Nat /\ DOMAIN keys[f].wire = 1 .. Len(keys[f].wire)
    BY KeysTyped, Zenon
  <2>3. LastSent(f) = 0 - Len(keys[f].wire)
    BY <2>1, Zenon DEF LastSent
  <2>4. Len(keys[f].wire) = 0 /\ 1 .. 0 = {}
    BY <1>1, <2>2, <2>3, SMT
  <2>5. \A i \in DOMAIN keys[f].wire : keys[f].wire[i] = LastSent(f) + i
    BY <2>2, <2>4, Zenon
  <2>6. Of(f, Through)' = {}
    BY <1>2, <2>1, Zenon DEF KeyOne
  <2> QED
    BY <1>1, <2>1, <2>5, <2>6, Zenon DEF KeyOne
<1>5. CASE Misses(f)
  <2>1. cli'[f].at = "error" /\ handler'[f].at = "none"
    BY <1>5, <1>3, Zenon DEF Misses, SameHandler
  <2> QED
    BY <1>1, <2>1, Zenon DEF KeyOne
<1>6. CASE Attends(f)
  <2>1. /\ handler[f].at \in {"opening", "run"} /\ handler'[f].at = "run" /\ cli'[f] = cli[f]
        /\ cli[f].at = "stream"
    BY <1>6, AtWork, Zenon DEF Attends, SameCli
  <2>2. CASE handler[f].at = "opening"
    <3>1. Of(f, Through)' = {} /\ LastSent(f)' >= 0 /\ LastSent(f)' \in Int
      BY <1>1, <1>2, <2>1, <2>2, ZenonT(60) DEF KeyOne
    <3>2. Contiguous(f)'
      BY <3>1, NoneThrough, Zenon DEF Contiguous
    <3> QED
      BY <1>1, <2>1, <3>2, Zenon DEF KeyOne
  <2>3. CASE handler[f].at = "run"
    BY <1>1, <1>2, <2>1, <2>3, Zenon DEF KeyOne
  <2> QED
    BY <2>1, <2>2, <2>3, Zenon
<1>7. CASE Lags(f) \/ Forwards(f) \/ Finishes(f) \/ Closes(f)
  <2>1. /\ handler[f].at = "run" /\ handler'[f].at \in {"run", "closed"} /\ cli'[f].at = cli[f].at
        /\ cli[f].at = "stream"
    BY <1>7, AtWork, Zenon DEF Lags, Forwards, Finishes, Closes, SameCli
  <2> QED
    BY <1>1, <1>2, <2>1, Zenon DEF KeyOne
<1>8. CASE Shows(f)
  <2>1. handler'[f] = handler[f] /\ cli[f].at = "stream" /\ cli'[f].at \in {"stream", "await"}
    BY <1>8, Zenon DEF Shows, SameHandler
  <2> QED
    BY <1>1, <1>2, <2>1, Zenon DEF KeyOne
<1>9. CASE Leaves(f)
  <2>1. handler'[f].at = "closed" /\ cli'[f].at \in {"await", "result", "error"}
    BY <1>9, Zenon DEF Leaves
  <2> QED
    BY <1>1, <2>1, Zenon DEF KeyOne
<1> QED
  BY <1>4, <1>5, <1>6, <1>7, <1>8, <1>9, Zenon DEF WireEffect

LEMMA KeyWire ==
  ASSUME OrderTypes, RelayTypes, WireTypes, KeyTypes, FollowInv, KeyInv, NEW f \in Followers, WireNext(f)
  PROVE  KeyTypes' /\ KeyInv'
<1>1. UNCHANGED <<orderVars, stdin, input>> /\ WireEffect(f)
  BY WireFrame, WireStep, Zenon
<1>2. KeyTypes' /\ (\A g \in Followers \ {f} : SameKeys(g)) /\ keys'[f].typed = keys[f].typed
      /\ (SameKeys(f) \/ (keys'[f].wire = <<>> /\ handler'[f].at = "closed"))
  BY WireKeys, Zenon
<1>3. Through' = Through /\ task' = task /\ listed' = listed /\ stdin' = stdin
  BY <1>1, Zenon DEF Through, orderVars
<1>4. \A g \in Followers : SameThrough(g)
  BY <1>3, StillThrough, Zenon
<1>5. ASSUME NEW g \in Followers PROVE KeyOne(g)'
  <2>1. KeyOne(g) /\ FollowOne(g) /\ SameThrough(g)
    BY <1>4, Zenon DEF KeyInv, FollowInv
  <2>2. CASE g # f
    <3>1. SameHandler(g) /\ SameCli(g) /\ SameKeys(g)
      BY <1>1, <1>2, <2>2, Zenon DEF WireEffect, OneFollower
    <3> QED
      BY <1>3, <2>1, <3>1, KeyKept, Zenon
  <2>3. CASE g = f /\ SameKeys(f)
    BY <1>1, <1>3, <2>1, <2>3, KeyMoves, Zenon
  <2>4. CASE g = f /\ keys'[f].wire = <<>> /\ handler'[f].at = "closed"
    <3>1. keys[f].typed \in Nat
      BY KeysTyped, Zenon
    <3>2. LastSent(f)' = keys[f].typed - 0
      BY <1>2, <2>4, SeqEmpty, Zenon DEF LastSent
    <3>3. LastSent(f)' >= 0
      BY <3>1, <3>2, SMT
    <3>4. \A i \in DOMAIN keys'[f].wire : keys'[f].wire[i] = LastSent(f)' + i
      <4>1. DOMAIN <<>> = {}
        BY SMT
      <4> QED
        BY <2>4, <4>1, Zenon
    <3>5. cli'[f].at = "new" => cli[f].at = "new"
      BY <1>1, Zenon DEF WireEffect, Connects, Misses, Attends, Lags, Forwards, Finishes, Closes, Shows,
         Leaves, SameCli
    <3> QED
      BY <1>2, <2>1, <2>4, <3>3, <3>4, <3>5, ZenonT(60) DEF KeyOne
  <2> QED
    BY <1>2, <2>2, <2>3, <2>4, Zenon
<1> QED
  BY <1>2, <1>3, <1>5, Zenon DEF KeyInv

\* A key joins those that got through.
Joins(f, n, queue, more) == more = Append(queue, <<f, n>>)
Longer(f, n, queue, more, new) ==
    /\ new = Len(queue) + 1 /\ Len(queue) \in Nat
    /\ DOMAIN queue = 1 .. Len(queue) /\ DOMAIN more = 1 .. new
    /\ \A i \in 1 .. Len(queue) : more[i] = queue[i] /\ i \in 1 .. new
    /\ new \in 1 .. new /\ more[new][1] = f /\ more[new][2] = n
    /\ \A i \in 1 .. new : i \in 1 .. Len(queue) \/ i = new

LEMMA Joined ==
  ASSUME NEW f \in Followers, NEW n \in Nat, NEW queue \in Seq(Pairs),
         NEW more, Joins(f, n, queue, more)
  PROVE  more \in Seq(Pairs) /\ \E new : Longer(f, n, queue, more, new)
<1>1. <<f, n>> \in Pairs /\ <<f, n>>[1] = f /\ <<f, n>>[2] = n
  BY SMT DEF Pairs
<1>2. PICK key \in Pairs : key = <<f, n>>
  BY <1>1, Zenon
<1>3. key[1] = f /\ key[2] = n /\ more = Append(queue, key)
  BY <1>1, <1>2, Zenon DEF Joins
<1>4. /\ more \in Seq(Pairs) /\ Len(more) = Len(queue) + 1
      /\ \A i \in 1 .. Len(queue) : more[i] = queue[i]
      /\ more[Len(queue) + 1] = key
  BY <1>3, SMT
<1>5. Len(queue) \in Nat /\ DOMAIN queue = 1 .. Len(queue) /\ DOMAIN more = 1 .. Len(more)
  BY <1>4, SeqParts, Zenon
<1>6. \A len \in Nat : /\ len + 1 \in 1 .. len + 1 /\ \A i \in 1 .. len : i \in 1 .. len + 1
                       /\ \A i \in 1 .. len + 1 : i \in 1 .. len \/ i = len + 1
  BY SMT
<1>7. Longer(f, n, queue, more, Len(queue) + 1)
  BY <1>3, <1>4, <1>5, <1>6, Zenon DEF Longer
<1> QED
  BY <1>4, <1>7, Zenon

LEMMA OneMore ==
  ASSUME NEW f \in Followers, NEW queue \in Seq(Pairs), NEW last \in Nat, Unbroken(f, queue, last),
         NEW top \in Nat, top = last + 1, NEW more, Joins(f, top, queue, more)
  PROVE  Unbroken(f, more, last + 1)
<1>1. PICK new : Longer(f, top, queue, more, new)
  BY Joined, Zenon
<1>2. /\ Len(queue) \in Nat /\ DOMAIN queue = 1 .. Len(queue) /\ DOMAIN more = 1 .. new
      /\ \A i \in 1 .. Len(queue) : more[i] = queue[i] /\ i \in 1 .. new
      /\ new \in 1 .. new /\ more[new][1] = f /\ more[new][2] = top
      /\ \A i \in 1 .. new : i \in 1 .. Len(queue) \/ i = new
  BY <1>1, Zenon DEF Longer
<1>3. PICK n \in 1 .. last + 1 : {queue[i][2] : i \in Of(f, queue)} = n .. last
  BY Zenon DEF Unbroken
<1>4. \A len \in Nat : ~(len + 1 < len + 1) /\ \A i \in 1 .. len : ~(len + 1 < i)
  BY SMT
<1>5. ~(new < new) /\ \A i \in 1 .. Len(queue) : ~(new < i)
  BY <1>1, <1>2, <1>4, Zenon DEF Longer
<1>6. Of(f, more) = Of(f, queue) \cup {new} /\ \A i \in Of(f, queue) : more[i] = queue[i] /\ ~(new < i)
  <2>1. Of(f, more) \subseteq Of(f, queue) \cup {new}
    BY <1>2, Zenon DEF Of
  <2>2. Of(f, queue) \cup {new} \subseteq Of(f, more)
    BY <1>2, Zenon DEF Of
  <2>3. \A i \in Of(f, queue) : more[i] = queue[i] /\ ~(new < i)
    BY <1>2, <1>5, Zenon DEF Of
  <2> QED
    BY <2>1, <2>2, <2>3, Zenon
<1>7. \A i \in Of(f, queue) : queue[i][2] \in n .. last
  BY <1>3, Zenon
<1>8. \A v \in n .. last : v < last + 1
  BY SMT
<1>9. ASSUME NEW i \in Of(f, more), NEW j \in Of(f, more), i < j
      PROVE  more[i][2] < more[j][2]
  <2>1. CASE i \in Of(f, queue) /\ j \in Of(f, queue)
    <3>1. more[i] = queue[i] /\ more[j] = queue[j] /\ queue[i][2] < queue[j][2]
      BY <1>6, <1>9, <2>1, Zenon DEF Unbroken
    <3> QED
      BY <3>1, Zenon
  <2>2. CASE i \in Of(f, queue) /\ j = new
    <3>1. more[i][2] = queue[i][2] /\ queue[i][2] < last + 1
      BY <1>6, <1>7, <1>8, <2>2, Zenon
    <3> QED
      BY <1>2, <2>2, <3>1, Zenon
  <2>3. CASE i = new
    BY <1>5, <1>6, <1>9, <2>3, Zenon
  <2> QED
    BY <1>6, <2>1, <2>2, <2>3, Zenon
<1>10. n \in 1 .. (last + 1) + 1 /\ n .. last + 1 = (n .. last) \cup {last + 1}
  BY SMT
<1>11. {more[i][2] : i \in Of(f, more)} = {queue[i][2] : i \in Of(f, queue)} \cup {last + 1}
  <2>1. ASSUME NEW v \in {more[i][2] : i \in Of(f, more)}
        PROVE  v \in {queue[i][2] : i \in Of(f, queue)} \cup {last + 1}
    <3>1. PICK i \in Of(f, more) : v = more[i][2]
      BY Zenon
    <3>2. CASE i = new
      BY <1>2, <3>1, <3>2, Zenon
    <3>3. CASE i \in Of(f, queue)
      BY <1>6, <3>1, <3>3, Zenon
    <3> QED
      BY <1>6, <3>2, <3>3, Zenon
  <2>2. ASSUME NEW v \in {queue[i][2] : i \in Of(f, queue)}
        PROVE  v \in {more[i][2] : i \in Of(f, more)}
    BY <1>6, Zenon
  <2>3. last + 1 \in {more[i][2] : i \in Of(f, more)}
    BY <1>2, <1>6, Zenon
  <2> QED
    BY <2>1, <2>2, <2>3, Zenon
<1>12. {more[i][2] : i \in Of(f, more)} = n .. last + 1
  BY <1>3, <1>10, <1>11, Zenon
<1> QED
  BY <1>9, <1>10, <1>12, Zenon DEF Unbroken

LEMMA OtherMore ==
  ASSUME NEW f \in Followers, NEW g \in Followers \ {f}, NEW n \in Nat, NEW queue \in Seq(Pairs),
         NEW more, Joins(f, n, queue, more)
  PROVE  Agree(g, queue, more)
<1>1. PICK new : Longer(f, n, queue, more, new)
  BY Joined, Zenon
<1>2. /\ DOMAIN queue = 1 .. Len(queue) /\ DOMAIN more = 1 .. new /\ more[new][1] = f
      /\ \A i \in 1 .. Len(queue) : more[i] = queue[i] /\ i \in 1 .. new
      /\ \A i \in 1 .. new : i \in 1 .. Len(queue) \/ i = new
  BY <1>1, Zenon DEF Longer
<1>3. Of(g, more) \subseteq Of(g, queue)
  BY <1>2, Zenon DEF Of
<1>4. Of(g, queue) \subseteq Of(g, more) /\ \A i \in Of(g, queue) : more[i] = queue[i]
  BY <1>2, Zenon DEF Of
<1> QED
  BY <1>3, <1>4, Zenon DEF Agree

\* The first key on the wire leaves it.
LEMMA KeyTaken ==
  ASSUME KeyTypes, NEW f \in Followers, FollowOne(f), KeyOne(f), handler[f].at = "run", keys[f].wire # <<>>,
         NEW k, k = [keys[f] EXCEPT !.wire = Tail(keys[f].wire)], keys' = [keys EXCEPT ![f] = k]
  PROVE  /\ keys' \in [Followers -> Keys] /\ \A g \in Followers \ {f} : SameKeys(g)
         /\ keys'[f].typed = keys[f].typed
         /\ LastSent(f) \in Nat /\ LastSent(f)' = LastSent(f) + 1 /\ Head(keys[f].wire) = LastSent(f) + 1
         /\ \A i \in DOMAIN keys'[f].wire : keys'[f].wire[i] = LastSent(f)' + i
<1> DEFINE w == keys[f].wire
<1>1. keys[f] \in Keys /\ w \in Seq(Nat) /\ w # <<>> /\ Len(w) \in Nat /\ LastSent(f) \in Int
      /\ keys[f].typed \in Nat
  BY KeysTyped, Zenon
<1>2. LastSent(f) >= 0 /\ LastSent(f) = keys[f].typed - Len(w)
  BY Zenon DEF KeyOne, LastSent
<1>3. \A i \in DOMAIN w : w[i] = LastSent(f) + i
  BY AtWork, Zenon DEF KeyOne
<1> HIDE DEF w
<1>4. /\ Tail(w) \in Seq(Nat) /\ Head(w) = w[1] /\ 1 \in DOMAIN w /\ Len(Tail(w)) = Len(w) - 1
      /\ DOMAIN Tail(w) = 1 .. Len(Tail(w))
      /\ \A i \in 1 .. Len(Tail(w)) : i + 1 \in DOMAIN w /\ Tail(w)[i] = w[i + 1]
  BY <1>1, SMT
<1>5. k \in Keys /\ k.wire = Tail(w) /\ k.typed = keys[f].typed
  BY <1>1, <1>4, Zenon DEF Keys, w
<1>6. keys' \in [Followers -> Keys] /\ keys'[f] = k /\ \A g \in Followers \ {f} : keys'[g] = keys[g]
  <2>1. keys \in [Followers -> Keys]
    BY Zenon DEF KeyTypes
  <2> QED
    BY <1>5, <2>1, Moved, Zenon
<1>7. LastSent(f)' = keys[f].typed - Len(Tail(w))
  BY <1>5, <1>6, Zenon DEF LastSent
<1>8. LastSent(f) \in Nat /\ LastSent(f)' = LastSent(f) + 1 /\ Head(w) = LastSent(f) + 1
  <2>1. Head(w) = LastSent(f) + 1
    BY <1>3, <1>4, Zenon
  <2>2. \A t, m \in Nat, a, b \in Int : a >= 0 /\ a = t - m /\ b = t - (m - 1) => a \in Nat /\ b = a + 1
    BY SMT
  <2>3. LastSent(f)' = keys[f].typed - (Len(w) - 1) /\ keys[f].typed - (Len(w) - 1) \in Int
    <3>1. \A t, m \in Nat : t - (m - 1) \in Int
      BY SMT
    <3> QED
      BY <1>1, <1>4, <1>7, <3>1, Zenon
  <2> QED
    BY <1>1, <1>2, <2>1, <2>2, <2>3, ZenonT(60)
<1>9. \A i \in 1 .. Len(Tail(w)) : Tail(w)[i] = LastSent(f)' + i
  <2>1. \A i \in 1 .. Len(Tail(w)) : Tail(w)[i] = LastSent(f) + (i + 1)
    BY <1>3, <1>4, Zenon
  <2>2. \A a \in Nat, i \in Int : a + (i + 1) = (a + 1) + i
    BY SMT
  <2>3. \A i \in 1 .. Len(Tail(w)) : i \in Int
    BY SMT
  <2> QED
    BY <1>8, <2>1, <2>2, <2>3, Zenon
<1> QED
  BY <1>4, <1>5, <1>6, <1>8, <1>9, ZenonT(60) DEF w, SameKeys

LEMMA KeyTyped ==
  ASSUME KeyTypes, KeyInv, FollowInv, NEW f \in Followers, Type(f)
  PROVE  KeyTypes' /\ KeyInv'
<1>1. UNCHANGED <<orderVars, wireVars, stdin, input>> /\ cli[f].at = "stream"
  BY Zenon DEF Type, miscVars, orderVars
<1>2. PICK k : k = [keys[f] EXCEPT !.typed = keys[f].typed + 1, !.wire = Append(keys[f].wire, keys[f].typed + 1)]
  BY Zenon
<1>3. keys[f] \in Keys /\ keys[f].typed \in Nat /\ keys[f].wire \in Seq(Nat) /\ Len(keys[f].wire) \in Nat
  BY KeysTyped, Zenon
<1>4. KeyOne(f) /\ LastSent(f) = keys[f].typed - Len(keys[f].wire)
  BY Zenon DEF KeyInv, LastSent
<1>5. PICK n \in Nat : n = keys[f].typed + 1
  BY <1>3, SMT
<1> DEFINE w == Append(keys[f].wire, n)
<1>6. /\ w \in Seq(Nat) /\ Len(w) = Len(keys[f].wire) + 1 /\ DOMAIN w = 1 .. Len(w)
      /\ w[Len(keys[f].wire) + 1] = n
      /\ \A i \in 1 .. Len(keys[f].wire) : w[i] = keys[f].wire[i]
      /\ \A i \in 1 .. Len(w) : i \in 1 .. Len(keys[f].wire) \/ i = Len(keys[f].wire) + 1
      /\ DOMAIN keys[f].wire = 1 .. Len(keys[f].wire)
  <2>1. PICK s \in Seq(Nat) : s = keys[f].wire
    BY <1>3, Zenon
  <2>2. /\ Append(s, n) \in Seq(Nat) /\ Len(Append(s, n)) = Len(s) + 1
        /\ \A i \in 1 .. Len(s) : Append(s, n)[i] = s[i]
        /\ Append(s, n)[Len(s) + 1] = n
        /\ \A i \in 1 .. Len(Append(s, n)) : i \in 1 .. Len(s) \/ i = Len(s) + 1
        /\ DOMAIN Append(s, n) = 1 .. Len(Append(s, n)) /\ DOMAIN s = 1 .. Len(s)
    BY SMT
  <2> QED
    BY <2>1, <2>2, Zenon
<1>7. k \in Keys /\ k.typed = n /\ k.wire = w
  BY <1>2, <1>3, <1>5, <1>6, Zenon DEF Keys
<1> HIDE DEF w
<1>8. keys' = [keys EXCEPT ![f] = k]
  BY <1>2, Zenon DEF Type
<1>9. keys' \in [Followers -> Keys] /\ keys'[f] = k /\ \A g \in Followers \ {f} : SameKeys(g)
  BY <1>7, <1>8, Zenon DEF KeyTypes, SameKeys
<1>10. KeyTypes' /\ Through' = Through
  BY <1>1, <1>9, Zenon DEF KeyTypes, Through
<1>11. LastSent(f)' = n - Len(w)
  BY <1>7, <1>9, Zenon DEF LastSent
<1>12. LastSent(f)' = LastSent(f)
  <2>1. \A t, m \in Nat : (t + 1) - (m + 1) = t - m
    BY SMT
  <2>2. LastSent(f)' = (keys[f].typed + 1) - (Len(keys[f].wire) + 1)
    BY <1>5, <1>6, <1>11, Zenon
  <2> QED
    BY <1>3, <1>4, <2>1, <2>2, Zenon
<1>13. \A i \in DOMAIN w : w[i] = LastSent(f) + i
  <2>1. \A t, m \in Nat : t + 1 = (t - m) + (m + 1)
    BY SMT
  <2>2. n = LastSent(f) + (Len(keys[f].wire) + 1)
    BY <1>3, <1>4, <1>5, <2>1, Zenon
  <2> QED
    BY <1>1, <1>4, <1>6, <2>2, ZenonT(60) DEF KeyOne
<1>14. ASSUME NEW g \in Followers PROVE KeyOne(g)'
  <2>1. SameHandler(g) /\ SameCli(g) /\ KeyOne(g) /\ listed' = listed /\ stdin' = stdin
    BY <1>1, Zenon DEF orderVars, wireVars, SameHandler, SameCli, KeyInv
  <2>2. SameThrough(g)
    BY <1>10, StillThrough, Zenon
  <2>3. CASE g # f
    <3>1. SameKeys(g)
      BY <1>9, <2>3, Zenon
    <3> QED
      BY <2>1, <2>2, <3>1, KeyKept, ZenonT(60)
  <2>4. CASE g = f
    <3>1. handler'[f] = handler[f] /\ cli'[f] = cli[f]
      BY <1>1, Zenon DEF wireVars
    <3>2. Contiguous(f) => Contiguous(f)'
      BY <1>10, <1>12, Zenon DEF Contiguous
    <3>3. Of(f, Through) = {} => Of(f, Through)' = {}
      BY <2>2, <2>4, Zenon DEF SameThrough, Agree
    <3>4. keys'[f].wire = w
      BY <1>7, <1>9, Zenon
    <3> QED
      BY <1>1, <1>4, <1>12, <1>13, <2>1, <2>4, <3>1, <3>2, <3>3, <3>4, ZenonT(60) DEF KeyOne
  <2> QED
    BY <2>3, <2>4, Zenon
<1> QED
  BY <1>1, <1>10, <1>14, Zenon DEF KeyInv, orderVars

\* A key is dropped: nobody reads the channel, or there is none.
LEMMA KeyDropped ==
  ASSUME KeyTypes, KeyInv, FollowInv, NEW f \in Followers, KeyForward(f) \/ KeyGiveUp(f),
         ~(stdin.reader /\ "stdin" \in listed)
  PROVE  KeyTypes' /\ KeyInv'
<1>1. UNCHANGED <<orderVars, wireVars, input>> /\ handler[f].at = "run" /\ keys[f].wire # <<>>
  BY Zenon DEF KeyForward, KeyGiveUp, miscVars, orderVars
<1>2. stdin' = stdin
  BY Zenon DEF KeyForward, KeyGiveUp
<1>3. PICK k : k = [keys[f] EXCEPT !.wire = Tail(keys[f].wire)]
  BY Zenon
<1>4. keys' = [keys EXCEPT ![f] = k]
  BY <1>3, Zenon DEF KeyForward, KeyGiveUp
<1>5. KeyOne(f) /\ FollowOne(f)
  BY Zenon DEF KeyInv, FollowInv
<1>6. /\ keys' \in [Followers -> Keys] /\ \A g \in Followers \ {f} : SameKeys(g)
      /\ LastSent(f) \in Nat /\ LastSent(f)' = LastSent(f) + 1
      /\ \A i \in DOMAIN keys'[f].wire : keys'[f].wire[i] = LastSent(f)' + i
  BY <1>1, <1>3, <1>4, <1>5, KeyTaken, ZenonT(60)
<1>7. KeyTypes' /\ Through' = Through
  BY <1>1, <1>2, <1>6, Zenon DEF KeyTypes, Through
<1>8. ASSUME NEW g \in Followers PROVE KeyOne(g)'
  <2>1. SameHandler(g) /\ SameCli(g) /\ KeyOne(g) /\ listed' = listed
    BY <1>1, Zenon DEF orderVars, wireVars, SameHandler, SameCli, KeyInv
  <2>2. SameThrough(g)
    BY <1>7, StillThrough, Zenon
  <2>3. CASE g # f
    <3>1. SameKeys(g)
      BY <1>6, <2>3, Zenon
    <3> QED
      BY <1>2, <2>1, <2>2, <3>1, KeyKept, ZenonT(60)
  <2>4. CASE g = f
    <3>1. handler'[f].at = "run" /\ cli'[f].at = "stream"
      BY <1>1, <1>5, AtWork, ZenonT(60) DEF wireVars
    <3>2. LastSent(f)' >= 0
      BY <1>6, SMT
    <3> QED
      BY <1>2, <1>6, <2>1, <2>4, <3>1, <3>2, ZenonT(60) DEF KeyOne
  <2> QED
    BY <2>3, <2>4, Zenon
<1> QED
  BY <1>1, <1>2, <1>7, <1>8, Zenon DEF KeyInv, orderVars

LEMMA AppendJoin ==
  ASSUME NEW S, NEW x \in S
  PROVE  \A s, t \in Seq(S) : s \o Append(t, x) = Append(s \o t, x)
<1> SUFFICES ASSUME NEW s \in Seq(S), NEW t \in Seq(S)
             PROVE  s \o Append(t, x) = Append(s \o t, x)
  BY Zenon
<1> DEFINE left == s \o Append(t, x)
           right == Append(s \o t, x)
<1>1. Append(t, x) \in Seq(S) /\ s \o t \in Seq(S) /\ Len(Append(t, x)) = Len(t) + 1 /\ Len(s \o t) = Len(s) + Len(t)
      /\ Len(s) \in Nat /\ Len(t) \in Nat
  BY SMT
<1>2. left \in Seq(S) /\ right \in Seq(S) /\ Len(left) = Len(s) + (Len(t) + 1) /\ Len(right) = (Len(s) + Len(t)) + 1
  BY <1>1, SMT
<1>3. Len(left) = Len(right)
  BY <1>1, <1>2, SMTT(40)
<1>4. \A i \in 1 .. Len(left) : left[i] = right[i]
  BY <1>1, <1>2, SMT
<1> HIDE DEF left, right
<1>5. left = [i \in 1 .. Len(left) |-> left[i]] /\ right = [i \in 1 .. Len(right) |-> right[i]]
  BY <1>2, SMT
<1>6. left = right
  BY <1>3, <1>4, <1>5, Zenon
<1> QED
  BY <1>6, Zenon DEF left, right

\* A key is handed to the forwarder.
LEMMA KeyForwarded ==
  ASSUME KeyTypes, KeyInv, FollowInv, NEW f \in Followers, KeyForward(f), stdin.reader
  PROVE  KeyTypes' /\ KeyInv'
<1>1. /\ UNCHANGED <<orderVars, wireVars, input>> /\ handler[f].at = "run" /\ keys[f].wire # <<>>
      /\ Len(stdin.chan) < StdinCap /\ "stdin" \in listed
  BY Zenon DEF KeyForward, miscVars, orderVars
<1>2. stdin' = [stdin EXCEPT !.chan = Append(stdin.chan, <<f, Head(keys[f].wire)>>)]
  BY Zenon DEF KeyForward
<1>3. PICK k : k = [keys[f] EXCEPT !.wire = Tail(keys[f].wire)]
  BY Zenon
<1>4. keys' = [keys EXCEPT ![f] = k]
  BY <1>3, Zenon DEF KeyForward
<1>5. KeyOne(f) /\ FollowOne(f)
  BY Zenon DEF KeyInv, FollowInv
<1>6. /\ keys' \in [Followers -> Keys] /\ \A g \in Followers \ {f} : SameKeys(g)
      /\ LastSent(f) \in Nat /\ LastSent(f)' = LastSent(f) + 1 /\ Head(keys[f].wire) = LastSent(f) + 1
      /\ \A i \in DOMAIN keys'[f].wire : keys'[f].wire[i] = LastSent(f)' + i
  BY <1>1, <1>3, <1>4, <1>5, KeyTaken, ZenonT(60)
<1>7. PICK top \in Nat : top = LastSent(f) + 1
  BY <1>6, SMT
<1>8. input \in Seq(Pairs) /\ stdin.chan \in Seq(Pairs) /\ Through \in Seq(Pairs) /\ Len(stdin.chan) \in Nat
  BY KeysTyped, SeqParts, Zenon
<1>9. PICK key \in Pairs : key = <<f, top>>
  <2>1. <<f, top>> \in Pairs
    BY SMT DEF Pairs
  <2> QED
    BY <2>1, Zenon
<1>10. stdin' = [stdin EXCEPT !.chan = Append(stdin.chan, key)]
  BY <1>2, <1>6, <1>7, <1>9, ZenonT(60)
<1>11. Append(stdin.chan, key) \in Seq(Pairs) /\ Len(Append(stdin.chan, key)) <= StdinCap
  <2>1. StdinCap \in Nat
    BY CapAssumption, Zenon
  <2> QED
    BY <1>1, <1>8, <2>1, SMT
<1>12. /\ stdin' \in [chan : Seq(Pairs), reader : BOOLEAN] /\ stdin'.chan = Append(stdin.chan, key)
       /\ stdin'.reader = stdin.reader
  BY <1>10, <1>11, Zenon DEF KeyTypes
<1>13. KeyTypes'
  BY <1>1, <1>6, <1>11, <1>12, ZenonT(60) DEF KeyTypes
<1>14. Joins(f, top, Through, Through')
  <2>1. \A s, t \in Seq(Pairs) : s \o Append(t, key) = Append(s \o t, key)
    BY AppendJoin, Zenon
  <2>2. input \o Append(stdin.chan, key) = Append(input \o stdin.chan, key)
    BY <1>8, <2>1, Zenon
  <2>3. Through' = input \o Append(stdin.chan, key)
    BY <1>1, <1>12, Zenon DEF Through
  <2>4. Through' = Append(Through, key)
    BY <2>2, <2>3, Zenon DEF Through
  <2> QED
    BY <1>9, <2>4, Zenon DEF Joins
<1>15. Contiguous(f)'
  <2>1. Contiguous(f)
    BY <1>1, <1>5, Zenon DEF KeyOne
  <2>2. Unbroken(f, Through', top)
    BY <1>6, <1>7, <1>8, <1>14, <2>1, OneMore, ZenonT(60) DEF Contiguous
  <2> QED
    BY <1>6, <1>7, <2>2, Zenon DEF Contiguous
<1>16. ASSUME NEW g \in Followers PROVE KeyOne(g)'
  <2>1. SameHandler(g) /\ SameCli(g) /\ KeyOne(g) /\ listed' = listed
    BY <1>1, Zenon DEF orderVars, wireVars, SameHandler, SameCli, KeyInv
  <2>2. CASE g # f
    <3>1. SameKeys(g)
      BY <1>6, <2>2, Zenon
    <3>2. g \in Followers \ {f}
      BY <2>2, Zenon
    <3>3. SameThrough(g)
      BY <1>8, <1>14, <3>2, OtherMore, Zenon DEF SameThrough
    <3> QED
      BY <1>12, <2>1, <3>1, <3>3, KeyKept, Zenon
  <2>3. CASE g = f
    <3>1. handler'[f].at = "run" /\ cli'[f].at = "stream"
      BY <1>1, <1>5, AtWork, ZenonT(60) DEF wireVars
    <3>2. LastSent(f)' >= 0
      BY <1>6, SMT
    <3> QED
      BY <1>6, <1>15, <2>3, <3>1, <3>2, ZenonT(60) DEF KeyOne
  <2> QED
    BY <2>2, <2>3, Zenon
<1>17. task' \notin Before
  BY <1>1, Zenon DEF KeyInv, orderVars
<1> QED
  BY <1>13, <1>16, <1>17, Zenon DEF KeyInv

LEMMA KeySteps ==
  ASSUME KeyTypes, KeyInv, FollowInv, NEW f \in Followers, KeyNext(f)
  PROVE  KeyTypes' /\ KeyInv'
<1>1. CASE Type(f)
  BY <1>1, KeyTyped, Zenon
<1>2. CASE KeyForward(f) /\ stdin.reader
  BY <1>2, KeyForwarded, Zenon
<1>3. CASE (KeyForward(f) /\ ~stdin.reader) \/ KeyGiveUp(f)
  <2>1. ~(stdin.reader /\ "stdin" \in listed)
    BY <1>3, Zenon DEF KeyGiveUp
  <2> QED
    BY <1>3, <2>1, KeyDropped, Zenon
<1> QED
  BY <1>1, <1>2, <1>3, Zenon DEF KeyNext

(***************************************************************************)
(* The invariant holds.                                                    *)
(***************************************************************************)
AllTypes == OrderTypes /\ RelayTypes /\ WireTypes /\ KeyTypes
AllInv == AllTypes /\ RelayInv /\ PhaseInv /\ SentInv /\ FollowInv /\ SeenInv /\ KeyInv

\* A step that leaves the order alone.
LEMMA OrderSame ==
  ASSUME OrderTypes, PhaseInv, SentInv, UNCHANGED orderVars
  PROVE  OrderTypes' /\ PhaseInv' /\ SentInv' /\ task' = task
<1>1. /\ status' = status /\ result' = result /\ task' = task /\ listed' = listed
      /\ sent' = sent /\ cancelling' = cancelling
  BY Zenon DEF orderVars
<1> QED
  BY <1>1, ZenonT(60) DEF OrderTypes, PhaseInv, SentInv, HasResult, Finished

\* A step that leaves the order and the followers alone.
LEMMA StreamSame ==
  ASSUME OrderTypes, WireTypes, FollowInv, SeenInv, UNCHANGED <<orderVars, wireVars, faults, collected, scenario>>
  PROVE  WireTypes' /\ FollowInv' /\ SeenInv'
<1>1. WireTypes'
  BY Zenon DEF WireTypes, wireVars
<1>2. faults' \in Nat /\ faults' >= faults
  <2>1. faults \in Nat /\ faults' = faults
    BY Zenon DEF WireTypes
  <2> QED
    BY <2>1, SMT
<1>3. Keeps
  BY <1>2, StillKeeps, Zenon
<1>4. FollowInv'
  BY <1>3, FollowOthers, Zenon
<1>5. SeenInv'
  BY SeenOthers, Zenon
<1> QED
  BY <1>1, <1>4, <1>5, Zenon

LEMMA StepServer ==
  ASSUME AllInv, ServerNext
  PROVE  AllInv'
<1>1. OrderTypes' /\ PhaseInv' /\ SentInv'
  BY OrderTyped, PhaseStep, SentStep, Zenon DEF AllInv, AllTypes
<1>2. RelayTypes' /\ RelayInv'
  BY ServerRelay, Zenon DEF AllInv, AllTypes
<1>3. UNCHANGED <<wireVars, faults>>
  BY ServerFrame, Zenon
<1>4. WireTypes'
  BY <1>3, Zenon DEF AllInv, AllTypes, WireTypes, wireVars
<1>5. FollowInv'
  BY <1>3, ServerKeeps, FollowOthers, Zenon DEF AllInv, AllTypes
<1>6. SeenInv'
  BY SeenServer, Zenon DEF AllInv, AllTypes
<1>7. KeyTypes' /\ KeyInv'
  BY KeyServer, Zenon DEF AllInv, AllTypes
<1> QED
  BY <1>1, <1>2, <1>4, <1>5, <1>6, <1>7, ZenonT(60) DEF AllInv, AllTypes

LEMMA StepOutput ==
  ASSUME AllInv, OutputNext
  PROVE  AllInv'
<1>1. UNCHANGED <<orderVars, wireVars, faults, collected, scenario>>
  BY OutputFrame, Zenon
<1>2. OrderTypes' /\ PhaseInv' /\ SentInv'
  BY <1>1, OrderSame, Zenon DEF AllInv, AllTypes
<1>3. RelayTypes' /\ RelayInv'
  BY OutputRelay, Zenon DEF AllInv, AllTypes
<1>4. WireTypes' /\ FollowInv' /\ SeenInv'
  BY <1>1, StreamSame, Zenon DEF AllInv, AllTypes
<1>5. KeyTypes' /\ KeyInv'
  BY KeyOutput, Zenon DEF AllInv, AllTypes
<1> QED
  BY <1>2, <1>3, <1>4, <1>5, Zenon DEF AllInv, AllTypes

LEMMA StepKeys ==
  ASSUME AllInv, StdinNext \/ (\E f \in Followers : KeyNext(f))
  PROVE  AllInv'
<1>1. UNCHANGED <<orderVars, relayVars, wireVars, faults>>
  BY StdinFrame, KeyFrame, Zenon
<1>2. collected' = collected /\ scenario' = scenario
  BY <1>1, Zenon DEF relayVars
<1>3. OrderTypes' /\ PhaseInv' /\ SentInv' /\ task' = task
  BY <1>1, OrderSame, Zenon DEF AllInv, AllTypes
<1>4. RelayTypes' /\ RelayInv'
  BY <1>1, <1>3, OtherRelay, Zenon DEF AllInv, AllTypes
<1>5. WireTypes' /\ FollowInv' /\ SeenInv'
  BY <1>1, <1>2, StreamSame, Zenon DEF AllInv, AllTypes
<1>6. KeyTypes' /\ KeyInv'
  BY KeyStdin, KeySteps, Zenon DEF AllInv, AllTypes
<1> QED
  BY <1>3, <1>4, <1>5, <1>6, Zenon DEF AllInv, AllTypes

LEMMA StepWire ==
  ASSUME AllInv, NEW f \in Followers, WireNext(f)
  PROVE  AllInv'
<1>1. UNCHANGED <<orderVars, relayVars>>
  BY WireFrame, Zenon
<1>2. WireTypes' /\ WireEffect(f)
  BY WireStep, Zenon DEF AllInv, AllTypes
<1>3. OrderTypes' /\ PhaseInv' /\ SentInv' /\ task' = task
  BY <1>1, OrderSame, Zenon DEF AllInv, AllTypes
<1>4. RelayTypes' /\ RelayInv'
  BY <1>1, <1>3, OtherRelay, Zenon DEF AllInv, AllTypes
<1>5. FollowInv'
  BY <1>1, <1>2, FollowWire, Zenon DEF AllInv, AllTypes
<1>6. SeenInv'
  BY <1>1, <1>2, SeenWire, Zenon DEF AllInv, AllTypes
<1>7. KeyTypes' /\ KeyInv'
  BY KeyWire, Zenon DEF AllInv, AllTypes
<1> QED
  BY <1>2, <1>3, <1>4, <1>5, <1>6, <1>7, ZenonT(60) DEF AllInv, AllTypes

LEMMA StepNone ==
  ASSUME AllInv, UNCHANGED vars
  PROVE  AllInv'
<1>1. UNCHANGED <<orderVars, relayVars, wireVars, faults>> /\ UNCHANGED <<keys, stdin, input>>
  BY Zenon DEF vars, orderVars, relayVars, wireVars, keyVars
<1>2. collected' = collected /\ scenario' = scenario
  BY <1>1, Zenon DEF relayVars
<1>3. OrderTypes' /\ PhaseInv' /\ SentInv' /\ task' = task
  BY <1>1, OrderSame, Zenon DEF AllInv, AllTypes
<1>4. RelayTypes' /\ RelayInv'
  BY <1>1, <1>3, OtherRelay, Zenon DEF AllInv, AllTypes
<1>5. WireTypes' /\ FollowInv' /\ SeenInv'
  BY <1>1, <1>2, StreamSame, Zenon DEF AllInv, AllTypes
<1>6. KeyTypes' /\ Through' = Through
  BY <1>1, Zenon DEF AllInv, AllTypes, KeyTypes, Through
<1>7. ASSUME NEW f \in Followers PROVE KeyOne(f)'
  <2>1. SameHandler(f) /\ SameCli(f) /\ SameKeys(f) /\ KeyOne(f) /\ listed' = listed
    BY <1>1, Zenon DEF orderVars, wireVars, SameHandler, SameCli, SameKeys, AllInv, KeyInv
  <2>2. SameThrough(f)
    BY <1>6, StillThrough, Zenon
  <2> QED
    BY <1>1, <2>1, <2>2, KeyKept, Zenon
<1>8. KeyInv'
  BY <1>1, <1>6, <1>7, Zenon DEF AllInv, KeyInv, orderVars
<1> QED
  BY <1>3, <1>4, <1>5, <1>6, <1>8, Zenon DEF AllInv, AllTypes

LEMMA Parts ==
  /\ IInv <=> AllInv
  /\ IInv' <=> AllInv'
  BY Typed, Zenon DEF IInv, AllInv, AllTypes, OrderInv

LEMMA IInvStep ==
  ASSUME IInv, [Next]_vars
  PROVE  IInv'
<1>1. AllInv
  BY Parts, Zenon
<1>2. AllInv'
  BY <1>1, Steps, StepServer, StepOutput, StepKeys, StepWire, StepNone, ZenonT(60)
<1> QED
  BY <1>2, Parts, Zenon

LEMMA IInvInit ==
  ASSUME Init
  PROVE  IInv
<1>1. /\ <<>> \in Seq(Nat) /\ <<>> \in Seq(Frame) /\ <<>> \in Seq(LineNos) /\ <<>> \in Seq(Pairs)
      /\ Len(<<>>) = 0 /\ DOMAIN <<>> = {} /\ 0 \in Nat
  <2>1. DOMAIN <<>> = {} /\ 0 \in Nat
    BY SMT
  <2> QED
    BY <2>1, SeqEmpty, Zenon
<1>2. /\ 0 <= 0 /\ 0 >= 0 /\ 0 - 0 = 0 /\ 0 + 0 = 0 /\ 1 .. 0 = {}
      /\ \A cap \in Nat : 0 <= cap /\ 0 \in 0 .. cap
  BY SMT
<1>3. OrderTypes
  BY <1>1, ResultsTyped, Zenon DEF Init, OrderTypes
<1>4. RelayTypes
  <2>1. {PipeCap, EventCap} \subseteq Nat
    BY CapAssumption, Zenon
  <2>2. Len(script) \in Nat
    BY ScriptTyped, Zenon DEF Init
  <2>3. printed \in 0 .. Len(script) /\ missed \in 0 .. printed
    BY <1>1, <1>2, <2>2, Zenon DEF Init
  <2> QED
    BY <1>1, <1>2, <2>1, <2>3, Zenon DEF Init, RelayTypes
<1>5. WireTypes
  <2>1. NoHandler \in Handlers /\ NewFollower \in Clis
    BY <1>1, Zenon DEF NoHandler, NewFollower, Handlers, Clis
  <2> QED
    BY <1>1, <2>1, Zenon DEF Init, WireTypes
<1>6. /\ keys \in [Followers -> Keys]
      /\ \A f \in Followers : keys[f].typed = 0 /\ keys[f].wire = <<>>
  <2>1. [typed |-> 0, wire |-> <<>>] \in Keys
    BY <1>1, Zenon DEF Keys
  <2> QED
    BY <2>1, Zenon DEF Init
<1>7. /\ stdin \in [chan : Seq(Pairs), reader : BOOLEAN] /\ stdin.chan = <<>> /\ ~stdin.reader
  BY <1>1, Zenon DEF Init, NoStdin
<1>8. KeyTypes
  <2>1. StdinCap \in Nat
    BY CapAssumption, Zenon
  <2> QED
    BY <1>1, <1>2, <1>6, <1>7, <2>1, ZenonT(60) DEF Init, KeyTypes
<1>9. RelayInv
  BY Zenon DEF Init, RelayInv, Collecting, Settling
<1>10. OrderInv
  BY <1>1, Zenon DEF Init, OrderInv, PhaseInv, SentInv, Finished, Storing
<1>11. \A f \in Followers : /\ cli[f] = NewFollower /\ handler[f] = NoHandler /\ frames[f] = <<>>
                            /\ cli[f].at = "new" /\ cli[f].saw = <<>> /\ cli[f].why = "none"
                            /\ handler[f].at = "none" /\ handler[f].pos = 0
  BY Zenon DEF Init, NewFollower, NoHandler
<1>12. FollowInv
  <2>1. sent = <<>>
    BY Zenon DEF Init
  <2> QED
    BY <1>1, <1>2, <1>11, <2>1, ZenonT(60) DEF FollowInv, FollowOne
<1>13. SeenInv
  <2>1. /\ sent = <<>> /\ task = "queued" /\ result = NoResult
    BY Zenon DEF Init
  <2>2. Broadcast(0, <<>>)
    BY <1>1, <1>2, <2>1, ZenonT(60) DEF Broadcast, Reported, Settling, Storing
  <2>3. \A f \in Followers : Seen(f, 0, <<>>) /\ InOrder(f)
    BY <1>11, Zenon DEF Seen, InOrder
  <2>4. \E d \in Nat : \E evs \in Seq(Nat \ {0}) : Broadcast(d, evs) /\ \A f \in Followers : Seen(f, d, evs)
    BY <1>1, <2>2, <2>3, Zenon DEF LineNos
  <2> QED
    BY <1>11, <2>3, <2>4, Zenon DEF SeenInv
<1>14. KeyInv
  <2>1. Through = <<>> /\ "stdin" \notin listed
    <3>1. <<>> \o <<>> = <<>>
      BY SMT
    <3> QED
      BY <1>7, <3>1, Zenon DEF Init, Through
  <2>2. \A f \in Followers : Of(f, Through) = {} /\ LastSent(f) = 0 - 0
    BY <1>1, <1>6, <2>1, Zenon DEF Of, LastSent
  <2>3. \A f \in Followers : KeyOne(f)
    BY <1>2, <1>6, <1>11, <2>2, Zenon DEF KeyOne
  <2> QED
    BY <1>7, <2>1, <2>3, Zenon DEF KeyInv
<1> QED
  BY <1>3, <1>4, <1>5, <1>8, <1>9, <1>10, <1>12, <1>13, <1>14, Typed, ZenonT(60) DEF IInv

\* The inductive invariant of the relay, the order, the streams and the keys is an
\* invariant of every behaviour.
THEOREM ProgressInvariance == Spec => []IInv
<1>1. Init => IInv
  BY IInvInit
<1>2. IInv /\ [Next]_vars => IInv'
  BY IInvStep
<1> QED
  BY <1>1, <1>2, PTL DEF Spec

\* Every variable keeps its type; in particular the attach stream, the worker event
\* channel and the stdin channel never hold more than their capacity.
THEOREM ProgressTypeCorrect == Spec => []TypeOK
<1>1. IInv => TypeOK
  BY Zenon DEF IInv
<1> QED
  BY <1>1, ProgressInvariance, PTL

\* What process_workorder collects from the worker event channel are the package
\* lines that the relay keeps whole and that the container printed after the relay
\* was attached, in order and up to some line all of them; all of them when the
\* relay came to the end of the output.
THEOREM CollectedIsExact == Spec => []CollectedExact
<1>1. ASSUME IInv PROVE CollectedExact
  <2>1. ASSUME task \in Settling PROVE Partial(collected) /\ (log = "eof" => Exact(collected, printed))
    BY <1>1, <2>1, Zenon DEF IInv, RelayInv
  <2>2. \A n : Exact(collected, n) <=> Increasing(collected) /\ Elems(collected) = PackageLines(n)
    BY Zenon DEF Exact, ExactIn, PackageLines
  <2> QED
    BY <2>1, <2>2, Zenon DEF Settling, Partial, CollectedExact
<1>2. IInv => CollectedExact
  BY <1>1
<1> QED
  BY <1>2, ProgressInvariance, PTL

\* A follower whose stream was closed without Finished, and that subscribed before
\* the first event other than a status, was told so before Finished was broadcast:
\* no handler closes with Finished unforwarded, however far it lags.
THEOREM FinishedIsPickedUp == Spec => []FinishedPickedUp
<1>1. ASSUME IInv PROVE FinishedPickedUp
  <2>1. \A f \in Followers : FollowOne(f)
    BY <1>1, Zenon DEF IInv, FollowInv
  <2>2. \A f \in Followers : cli[f].at \in {"await", "result"} /\ cli[f].why = "close" => Shut(f)
    BY <2>1, ZenonT(60) DEF FollowOne
  <2> QED
    BY <2>2, Zenon DEF FinishedPickedUp, Shut, Finished
<1>2. IInv => FinishedPickedUp
  BY <1>1
<1> QED
  BY <1>2, ProgressInvariance, PTL

\* A follower that was there before the first package event, never lagged and left on
\* Finished has shown, in order, the events that the result takes packages from, and
\* the result blames all atoms of the order only if none of them reports a failure;
\* unless the result is that of a build that came to nothing.
THEOREM FollowerSeesResult == Spec => []FollowerSawResult
<1>1. ASSUME IInv PROVE FollowerSawResult
  <2>1. PICK d \in Nat, evs \in Seq(Nat \ {0}) : Broadcast(d, evs) /\ \A f \in Followers : Seen(f, d, evs)
    BY <1>1, Zenon DEF IInv, SeenInv
  <2>2. result \in {NoResult, Unbuilt} \/ MadeFrom(result, evs)
    BY <2>1, Zenon DEF Broadcast, Reported
  <2>3. \A f \in Followers : cli[f].at = "result" /\ cli[f].why = "finished" /\ Follows(f) => cli[f].saw = evs
    BY <2>1, ZenonT(60) DEF Seen
  <2> QED
    BY <2>2, <2>3, Zenon DEF FollowerSawResult, Follows, MadeFrom
<1>2. IInv => FollowerSawResult
  BY <1>1
<1> QED
  BY <1>2, ProgressInvariance, PTL

\* While the network works a follower fails only with a 404, when the order's
\* channels are gone: never because the five seconds of await_result_ready ran out.
THEOREM ErrorIsExcused == Spec => []ErrorExcused
<1>1. ASSUME IInv PROVE ErrorExcused
  BY <1>1, ZenonT(60) DEF IInv, FollowInv, FollowOne, ErrorExcused
<1>2. IInv => ErrorExcused
  BY <1>1
<1> QED
  BY <1>2, ProgressInvariance, PTL

\* The keys of a connected follower that reached the stdin channel or the attached
\* container are consecutive, in order, and followed without a gap by the keys
\* still on the WebSocket.
THEOREM InputIsContiguous == Spec => []InputContiguous
<1>1. ASSUME IInv PROVE InputContiguous
  <2>1. ASSUME NEW f \in Followers, stdin.reader, "stdin" \in listed, handler[f].at = "run"
        PROVE  /\ \A i \in DOMAIN keys[f].wire : keys[f].wire[i] = LastSent(f) + i
               /\ Unbroken(f, Through, LastSent(f))
    <3>1. KeyOne(f) /\ FollowOne(f)
      BY <1>1, Zenon DEF IInv, KeyInv, FollowInv
    <3>2. cli[f].at = "stream"
      BY <2>1, <3>1, AtWork, Zenon
    <3> QED
      BY <2>1, <3>1, <3>2, Zenon DEF KeyOne, Contiguous
  <2> QED
    BY <2>1, Zenon DEF InputContiguous, Unbroken, LastSent
<1>2. IInv => InputContiguous
  BY <1>1
<1> QED
  BY <1>2, ProgressInvariance, PTL
=============================================================================
