-------------------------- MODULE BlobUploadProofs --------------------------
(***************************************************************************)
(* The upload of a blob keeps its promises for every number of clients and *)
(* connections, every chunk size and any number of faults.                 *)
(***************************************************************************)
EXTENDS BlobUpload, TLAPS

(***************************************************************************)
(* A handler that works on the session files, or may be made to by the     *)
(* client it is connected to.                                              *)
(***************************************************************************)
Connected(c) == \E u \in Uploaders : client[u].conn = c
Engaged(c) == Busy(c) \/ (handler[c].at # "none" /\ Connected(c))

AloneInv == Lone => \A c, d \in Conns : Engaged(c) /\ Engaged(d) => c = d

\* A client that waits has a connection.
WaitingInv == \A u \in Uploaders : Waiting(u) => client[u].conn \in Conns

\* Clients that never connected have no connection, and every frame to the server
\* is of a stream of a client that did.
Piece(data, stream, from) ==
    \A i \in 1 .. Len(data) : data[i] = <<stream.encoding, from + i - 1>>
SentBy(frame, senders) ==
    \/ frame.type = "upload_init" /\ \E u \in senders : frame.stream = StreamOf[u]
    \/ frame.type = "chunk" /\ \E u \in senders : Piece(frame.data, StreamOf[u], frame.offset)
    \/ frame.type = "bad"
WireInv ==
    /\ \A u \in Uploaders : client[u].conn # NoConn => u \in seen
    /\ \A c \in Conns : \A i \in 1 .. Len(toServer[c]) : SentBy(toServer[c][i], seen)
    /\ \A c \in Conns : handler[c].at \notin {"none", "init"} =>
            \E u \in seen : handler[c].stream = StreamOf[u]

(***************************************************************************)
(* The session files, and what a handler at work relies on.                *)
(***************************************************************************)
Staged(stream) == Len(part) <= stream.size /\ Piece(part, stream, 0)
\* The metadata describes the staged file.
Exact(state) == state.offset = Len(part) /\ (part # <<>> => state.seq > 0)
Fits(me) == /\ me.goal = "append" => /\ me.received = Len(part)
                                     /\ Piece(me.chunk, me.stream, Len(part))
            /\ me.goal \in {"resume", "append"}
Session(me) ==
    /\ me.at = "recv" => meta.stream = me.stream /\ Exact(meta) /\ me.received = Len(part)
    /\ me.at = "load" /\ me.goal = "append" => meta.stream = me.stream /\ Exact(meta)
    /\ me.at = "stat" /\ me.goal = "append" => me.state = meta /\ Exact(meta)
    /\ me.at \in {"stat", "save", "write"} => me.state.stream = me.stream
    /\ me.at \in {"load", "stat", "save"} => Fits(me)
    /\ me.at = "save" => Exact(me.state)
    /\ me.at = "write" => /\ meta = me.state
                          /\ me.state.offset + Len(me.chunk) = Len(part) + Len(me.left)
                          /\ Piece(me.left, me.stream, Len(part))
                          /\ Len(part) + Len(me.left) <= me.stream.size
    /\ me.at \in {"fin_load", "fin_read", "link", "index"} => meta.stream = me.stream /\ Exact(meta)
    /\ me.at = "rm_part" => meta = NoMeta
SessionInv ==
    Lone => /\ \A u \in seen : Staged(StreamOf[u])
            /\ \A c \in Conns : Engaged(c) => Session(handler[c])
            /\ seen = {} => part = <<>> /\ meta = NoMeta

\* Between two changes of the session files they can be resumed.
SettledInv ==
    (/\ Lone /\ faults.crash = 0 /\ faults.write = 0
     /\ \A c \in Conns : handler[c].at \notin {"write", "rm_meta", "rm_part"})
      => \A u \in seen : Resumable(StreamOf[u])

(***************************************************************************)
(* Who says that the blob is stored.                                       *)
(***************************************************************************)
StoreInv ==
    /\ \A u \in Uploaders : client[u].at = "done" => blob # "absent"
    /\ \A c \in Conns : \A i \in 1 .. Len(toClient[c]) :
            toClient[c][i].type = "upload_complete" => blob # "absent"
    /\ \A c \in Conns :
            \/ handler[c].at = "index"
            \/ handler[c].at \in {"rm_meta", "rm_part"} /\ handler[c].goal = "complete"
            => blob # "absent"

IInv == /\ TypeOK /\ WaitingInv /\ AloneInv /\ WireInv
        /\ SessionInv /\ SettledInv /\ StoreInv

(***************************************************************************)
(* Types of the data.                                                      *)
(***************************************************************************)
Policies == [size : MinChunk .. MaxChunk, streak : 0 .. GrowAfter - 1]

\* SnapshotBlobChunkPolicy keeps the chunk size between its bounds.
LEMMA PolicyTyped ==
  ASSUME NEW policy \in Policies, NEW slow \in BOOLEAN
  PROVE  shrink(policy) \in Policies /\ on_ack(policy, slow) \in Policies
<1> USE ChunkAssumption, RetryAssumption
<1>1. /\ policy.size \in MinChunk .. MaxChunk /\ policy.streak \in 0 .. GrowAfter - 1
      /\ policy = [size |-> policy.size, streak |-> policy.streak]
  BY SMT DEF Policies
<1>2. Upper(policy.size \div 2, MinChunk) \in MinChunk .. MaxChunk
  BY <1>1, SMT DEF Upper
<1>3. Upper(Lower(policy.size * 2, MaxChunk), MinChunk) \in MinChunk .. MaxChunk
  BY <1>1, SMT DEF Upper, Lower
<1>4. shrink(policy) \in Policies
  <2> DEFINE half == Upper(policy.size \div 2, MinChunk)
  <2>1. shrink(policy) = [policy EXCEPT !.size = half, !.streak = 0]
    BY Zenon DEF shrink
  <2>2. half \in MinChunk .. MaxChunk /\ 0 \in 0 .. GrowAfter - 1
    BY <1>2, SMT
  <2> HIDE DEF half
  <2>3. [policy EXCEPT !.size = half, !.streak = 0] \in Policies
    BY <2>2, Zenon DEF Policies
  <2> QED
    BY <2>1, <2>3, Zenon
<1>5. grow(policy) \in Policies
  BY <1>3, SMT DEF grow, Policies
<1>6. policy.streak + 1 < GrowAfter => [policy EXCEPT !.streak = @ + 1] \in Policies
  BY <1>1, SMT DEF Policies
<1>7. policy.streak + 1 \in Int /\ GrowAfter \in Int
  BY <1>1, SMT
<1> QED
  BY <1>4, <1>5, <1>6, <1>7, SMT DEF on_ack

LEMMA NewPolicyTyped == NewPolicy \in Policies
  BY ChunkAssumption, RetryAssumption, SMT DEF NewPolicy, Policies

\* A chunk holds at least one unit.
LEMMA ChunkSize ==
  ASSUME NEW policy \in Policies, NEW remaining \in Int
  PROVE  chunk_size_for_remaining(policy, remaining) \in Nat \ {0}
<1>1. policy.size \in MinChunk .. MaxChunk
  BY SMT DEF Policies
<1> QED
  BY <1>1, ChunkAssumption, SMT DEF chunk_size_for_remaining, Lower, Upper

LEMMA StreamTyped ==
  ASSUME NEW u \in Uploaders
  PROVE  /\ StreamOf[u] \in Streams /\ StreamOf[u] # NoStream
         /\ StreamOf[u].encoding \in {"raw", "zstd"} /\ StreamOf[u].size \in Nat
<1>1. StreamOf[u] \in Streams
  BY Zenon DEF Streams
<1>2. StreamOf[u].encoding \in {"raw", "zstd"} /\ StreamOf[u].size \in Nat
  BY StreamAssumption, Zenon
<1>3. NoStream.encoding = "none"
  BY Zenon DEF NoStream
<1>4. StreamOf[u] # NoStream
  BY <1>2, <1>3, Zenon
<1> QED
  BY <1>1, <1>2, <1>4, Zenon

\* The units of a chunk are a piece of the stream.
LEMMA UnitsTyped ==
  ASSUME NEW stream, stream.encoding \in {"raw", "zstd"}, NEW from \in Nat, NEW count \in Nat
  PROVE  /\ Units(stream, from, count) \in UnitSeq /\ Len(Units(stream, from, count)) = count
         /\ Piece(Units(stream, from, count), stream, from)
<1> DEFINE enc == stream.encoding
           data == [i \in 1 .. count |-> <<enc, from + i - 1>>]
<1>1. data = Units(stream, from, count)
  BY Zenon DEF Units
<1>2. enc \in {"raw", "zstd"}
  OBVIOUS
<1> HIDE DEF enc
<1>3. \A i \in 1 .. count : <<enc, from + i - 1>> \in {"raw", "zstd"} \X Nat
  BY <1>2, SMT
<1>4. data \in UnitSeq /\ Len(data) = count
  BY <1>3, SMT DEF UnitSeq
<1>5. \A i \in 1 .. count : data[i] = <<enc, from + i - 1>>
  BY SMT
<1> HIDE DEF data
<1>6. Piece(data, stream, from)
  BY <1>4, <1>5, Zenon DEF Piece, enc
<1> QED
  BY <1>1, <1>4, <1>6, Zenon

LEMMA SeqParts ==
  ASSUME NEW S, NEW s \in Seq(S)
  PROVE  /\ \A i \in 1 .. Len(s) : s[i] \in S
         /\ s # <<>> => /\ Head(s) \in S /\ Tail(s) \in Seq(S) /\ Head(s) = s[1] /\ 1 \in 1 .. Len(s)
                        /\ Len(Tail(s)) = Len(s) - 1
                        /\ \A i \in 1 .. Len(Tail(s)) : i + 1 \in 1 .. Len(s) /\ Tail(s)[i] = s[i + 1]
         /\ Len(s) \in Nat /\ (s = <<>> <=> Len(s) = 0)
  BY SMT

LEMMA SeqMore ==
  ASSUME NEW S, NEW s \in Seq(S), NEW x \in S
  PROVE  /\ Append(s, x) \in Seq(S) /\ Len(Append(s, x)) = Len(s) + 1
         /\ \A i \in 1 .. Len(s) : Append(s, x)[i] = s[i]
         /\ Append(s, x)[Len(s) + 1] = x
         /\ \A i \in 1 .. Len(Append(s, x)) : i \in 1 .. Len(s) \/ i = Len(s) + 1
  BY SMT

\* The frames the server sends.
LEMMA RepliesTyped ==
  ASSUME NEW seq \in Nat, NEW offset \in Nat, NEW size \in Nat, NEW received \in Nat
  PROVE  /\ UploadResume(seq, offset) \in ReplyType
         /\ UploadAck(seq, offset, size, received) \in ReplyType
         /\ UploadComplete \in ReplyType /\ UploadError \in ReplyType
  BY Zenon DEF ReplyType, UploadResume, UploadAck

LEMMA ReplyKinds ==
  ASSUME NEW frame \in ReplyType
  PROVE  /\ frame.type = "upload_resume" => frame.seq \in Nat /\ frame.offset \in Nat
         /\ frame.type = "upload_ack" => frame.received \in Nat
<1>0. UploadComplete.type = "upload_complete" /\ UploadError.type = "upload_error"
  BY Zenon DEF UploadComplete, UploadError
<1>1. CASE frame \in {UploadComplete, UploadError}
  BY <1>0, <1>1, Zenon
<1>2. CASE frame \in [type : {"upload_resume"}, seq : Nat, offset : Nat]
  BY <1>2, Zenon
<1>3. CASE frame \in [type : {"upload_ack"}, seq : Nat, offset : Nat, size : Nat, received : Nat]
  BY <1>3, Zenon
<1> QED
  BY <1>1, <1>2, <1>3, Zenon DEF ReplyType

\* The frames a client sends.
LEMMA FramesTyped ==
  ASSUME NEW u \in Uploaders, NEW seq \in Nat, NEW offset \in Nat, NEW data \in UnitSeq
  PROVE  /\ InitFrame(StreamOf[u]) \in FrameType
         /\ ChunkFrame(seq, offset, data) \in FrameType
         /\ BadFrame \in FrameType
  BY StreamTyped, Zenon DEF FrameType, InitFrame, ChunkFrame, UnitSeq

LEMMA FrameKinds ==
  ASSUME NEW frame \in FrameType
  PROVE  /\ frame.type = "upload_init" => frame.stream \in Streams
         /\ frame.type = "chunk" => frame.seq \in Nat /\ frame.offset \in Nat /\ frame.data \in UnitSeq
<1>1. CASE frame = BadFrame
  BY <1>1, Zenon DEF BadFrame
<1>2. CASE frame \in [type : {"upload_init"}, stream : Streams]
  BY <1>2, Zenon
<1>3. CASE frame \in [type : {"chunk"}, seq : Nat, offset : Nat, data : Seq({"raw", "zstd"} \X Nat)]
  BY <1>3, Zenon DEF UnitSeq
<1> QED
  BY <1>1, <1>2, <1>3, Zenon DEF FrameType

LEMMA MetaTyped ==
  /\ NoMeta \in MetaType
  /\ \A stream \in Streams \cup {NoStream} : NewMeta(stream) \in MetaType
<1>1. 0 \in Nat
  BY SMT
<1> QED
  BY <1>1, Zenon DEF MetaType, NoMeta, NewMeta

LEMMA IdleTyped == IdleHandler \in HandlerType
<1>1. 0 \in Nat /\ <<>> \in UnitSeq
  BY SMT DEF UnitSeq
<1> QED
  BY <1>1, MetaTyped, Zenon DEF IdleHandler, HandlerType

\* The retries of a client are counted within their bounds.
LEMMA RetriedTyped ==
  ASSUME NEW me \in ClientType
  PROVE  /\ Retried(me) \in ClientType /\ Retried(me).conn = NoConn
         /\ Retried(me).at \in {"connect", "failed"}
<1> DEFINE again == [me EXCEPT !.at = "connect", !.conn = NoConn, !.attempt = 1, !.try = @ + 1,
                               !.seq = 0, !.offset = 0, !.policy = NewPolicy]
           over == [me EXCEPT !.at = "failed", !.conn = NoConn]
<1>1. me.try \in 1 .. MaxTries /\ 0 \in Nat /\ 1 \in 1 .. MaxAttempts
  BY RetryAssumption, SMT DEF ClientType
<1>2. me.try < MaxTries => me.try + 1 \in 1 .. MaxTries
  BY <1>1, RetryAssumption, SMT
<1>3. me.try < MaxTries => again \in ClientType
  BY <1>1, <1>2, NewPolicyTyped, Zenon DEF ClientType, Policies
<1>4. over \in ClientType
  BY Zenon DEF ClientType
<1>5. /\ again.conn = NoConn /\ again.at = "connect" /\ over.conn = NoConn /\ over.at = "failed"
  BY Zenon DEF ClientType
<1>6. Retried(me) = IF me.try < MaxTries THEN again ELSE over
  BY Zenon DEF Retried
<1> HIDE DEF again, over
<1> QED
  BY <1>3, <1>4, <1>5, <1>6, Zenon

LEMMA ReconnectedTyped ==
  ASSUME NEW me \in ClientType
  PROVE  /\ Reconnected(me) \in ClientType /\ Reconnected(me).conn = NoConn
         /\ Reconnected(me).at \in {"connect", "failed"}
<1> DEFINE smaller == shrink(me.policy)
           again == [me EXCEPT !.at = "connect", !.conn = NoConn, !.attempt = @ + 1,
                               !.seq = 0, !.offset = 0, !.policy = smaller]
<1>1. me.attempt \in 1 .. MaxAttempts /\ 0 \in Nat
  BY RetryAssumption, SMT DEF ClientType
<1>2. me.attempt < MaxAttempts => me.attempt + 1 \in 1 .. MaxAttempts
  BY <1>1, RetryAssumption, SMT
<1>3. smaller \in Policies
  <2>1. me.policy \in Policies
    BY Zenon DEF ClientType, Policies
  <2> QED
    BY <2>1, PolicyTyped, Zenon
<1>4. Reconnected(me) = IF me.attempt < MaxAttempts THEN again ELSE Retried(me)
  BY Zenon DEF Reconnected
<1> HIDE DEF smaller
<1>5. me.attempt < MaxAttempts => again \in ClientType
  BY <1>1, <1>2, <1>3, Zenon DEF ClientType, Policies
<1>6. again.conn = NoConn /\ again.at = "connect"
  BY Zenon DEF ClientType
<1> HIDE DEF again
<1> QED
  BY <1>4, <1>5, <1>6, RetriedTyped, Zenon

(***************************************************************************)
(* What each step does to the records.                                     *)
(***************************************************************************)
Clients == client \in [Uploaders -> ClientType]
Wires == toServer \in [Conns -> Seq(FrameType)] /\ toClient \in [Conns -> Seq(ReplyType)]
Handlers == handler \in [Conns -> HandlerType]
Files == part \in UnitSeq /\ meta \in MetaType /\ blob \in {"absent", "linked", "indexed"}
Others == /\ open \in [Conns -> BOOLEAN]
          /\ faults \in [{"drop", "unsent", "timeout", "crash", "write", "corrupt"} -> Nat]
          /\ overlap \in BOOLEAN /\ seen \subseteq Uploaders

LEMMA Typed == TypeOK <=> Clients /\ Wires /\ Handlers /\ Files /\ Others
  BY Zenon DEF TypeOK, Clients, Wires, Handlers, Files, Others

\* One client, one handler moves.
OneClient(u) == \A v \in Uploaders \ {u} : client'[v] = client[v]
OneHandler(c) == \A d \in Conns \ {c} : handler'[d] = handler[d]

LEMMA ClientMove ==
  ASSUME Clients, NEW u \in Uploaders, NEW rec \in ClientType, client' = [client EXCEPT ![u] = rec]
  PROVE  Clients' /\ client'[u] = rec /\ OneClient(u)
  BY Zenon DEF Clients, OneClient

LEMMA HandlerMove ==
  ASSUME Handlers, NEW c \in Conns, NEW rec \in HandlerType,
         handler' = [handler EXCEPT ![c] = rec]
  PROVE  Handlers' /\ handler'[c] = rec /\ OneHandler(c)
  BY Zenon DEF Handlers, OneHandler

\* A frame to the client, that is lost if the connection is closed.
LEMMA SendEffect ==
  ASSUME Wires, NEW c \in Conns, NEW frame \in ReplyType, Send(c, frame), UNCHANGED toServer
  PROVE  /\ Wires'
         /\ toClient'[c] = toClient[c] \/ toClient'[c] = Append(toClient[c], frame)
         /\ \A d \in Conns \ {c} : toClient'[d] = toClient[d]
<1> DEFINE more == Append(toClient[c], frame)
<1>1. more \in Seq(ReplyType)
  <2>1. toClient[c] \in Seq(ReplyType)
    BY Zenon DEF Wires
  <2> QED
    BY <2>1, SeqMore, Zenon
<1>2. toClient' = toClient \/ toClient' = [toClient EXCEPT ![c] = more]
  BY Zenon DEF Send
<1> HIDE DEF more
<1>3. Wires'
  BY <1>1, <1>2, Zenon DEF Wires
<1>4. /\ toClient'[c] = toClient[c] \/ toClient'[c] = more
      /\ \A d \in Conns \ {c} : toClient'[d] = toClient[d]
  BY <1>2, Zenon DEF Wires
<1> QED
  BY <1>3, <1>4, Zenon DEF more

\* A frame is taken off the connection to the server.
LEMMA ConsumeEffect ==
  ASSUME Wires, NEW c \in Conns, toServer[c] # <<>>, Consume(c)
  PROVE  /\ toServer' \in [Conns -> Seq(FrameType)]
         /\ toServer'[c] = Tail(toServer[c]) /\ \A d \in Conns \ {c} : toServer'[d] = toServer[d]
         /\ Head(toServer[c]) \in FrameType
<1> DEFINE rest == Tail(toServer[c])
<1>1. rest \in Seq(FrameType) /\ Head(toServer[c]) \in FrameType
  <2>1. toServer[c] \in Seq(FrameType)
    BY Zenon DEF Wires
  <2> QED
    BY <2>1, SeqParts, Zenon
<1>2. toServer' = [toServer EXCEPT ![c] = rest]
  BY Zenon DEF Consume
<1> HIDE DEF rest
<1>3. toServer' \in [Conns -> Seq(FrameType)] /\ toServer'[c] = rest
      /\ \A d \in Conns \ {c} : toServer'[d] = toServer[d]
  BY <1>1, <1>2, Zenon DEF Wires
<1> QED
  BY <1>1, <1>3, Zenon DEF rest

LEMMA HangUpEffect ==
  ASSUME Wires, Others, NEW c \in Conns, HangUp(c), UNCHANGED toServer
  PROVE  /\ Wires' /\ open' \in [Conns -> BOOLEAN] /\ toClient'[c] = <<>>
         /\ \A d \in Conns \ {c} : toClient'[d] = toClient[d]
<1>1. <<>> \in Seq(ReplyType)
  BY SMT
<1> QED
  BY <1>1, Zenon DEF Wires, Others, HangUp

LEMMA FaultEffect ==
  ASSUME Others, NEW kind \in {"drop", "unsent", "timeout", "crash", "write", "corrupt"}, Fault(kind)
  PROVE  /\ faults' \in [{"drop", "unsent", "timeout", "crash", "write", "corrupt"} -> Nat]
         /\ faults'[kind] # 0
         /\ \A other \in {"drop", "unsent", "timeout", "crash", "write", "corrupt"} \ {kind} :
                faults'[other] = faults[other]
<1> DEFINE one == faults[kind] + 1
<1>1. one \in Nat /\ one # 0
  <2>1. faults[kind] \in Nat
    BY Zenon DEF Others
  <2> QED
    BY <2>1, SMT
<1>2. faults' = [faults EXCEPT ![kind] = one]
  BY Zenon DEF Fault
<1> HIDE DEF one
<1> QED
  BY <1>1, <1>2, Zenon DEF Others

(***************************************************************************)
(* The steps of a client.                                                  *)
(***************************************************************************)
\* It asks for the blob or finds no connection, it connects, ...
AsksOnly(u) ==
    /\ client'[u].conn \in {client[u].conn, NoConn}
    /\ client'[u].at \in {"connect", "done", "failed"}
    /\ client'[u].at = "done" => blob # "absent"
    /\ UNCHANGED <<netVars, handler, overlap, seen>>
    /\ faults'.crash = faults.crash /\ faults'.write = faults.write
Connects(u, c) ==
    /\ client'[u].at = "resume" /\ client'[u].conn = c /\ Unused(c)
    /\ toServer'[c] = <<InitFrame(StreamOf[u])>> /\ toClient'[c] = <<>>
    /\ handler'[c].at = "init" /\ OneHandler(c)
    /\ \A d \in Conns \ {c} : toServer'[d] = toServer[d] /\ toClient'[d] = toClient[d]
    /\ overlap' = (overlap \/ \E d \in Conns : Busy(d)) /\ seen' = seen \cup {u}
    /\ UNCHANGED faults
\* ... it sends a chunk or waits for the end, ...
Sends(u, c) ==
    /\ client[u].conn = c /\ client'[u].conn = c /\ client'[u].at # "done"
    /\ toClient[c] # <<>> /\ toClient'[c] = Tail(toClient[c])
    /\ \A d \in Conns \ {c} : toServer'[d] = toServer[d] /\ toClient'[d] = toClient[d]
    /\ \/ toServer' = toServer
       \/ \E frame \in FrameType :
            /\ toServer'[c] = Append(toServer[c], frame)
            /\ frame.type = "chunk" /\ Piece(frame.data, StreamOf[u], frame.offset)
    /\ UNCHANGED <<open, handler, historyVars>>
\* ... or it leaves the connection.
Leaves(u, c) ==
    /\ client[u].conn = c /\ client'[u].conn = NoConn
    /\ client'[u].at \in {"connect", "done", "failed"}
    /\ client'[u].at = "done" => toClient[c] # <<>> /\ Head(toClient[c]).type = "upload_complete"
    /\ toClient'[c] = <<>> /\ \A d \in Conns \ {c} : toClient'[d] = toClient[d]
    /\ UNCHANGED <<toServer, handler, overlap, seen>>
    /\ faults'.crash = faults.crash /\ faults'.write = faults.write
ClientEffect(u) ==
    /\ OneClient(u) /\ UNCHANGED fileVars
    /\ \/ AsksOnly(u)
       \/ \E c \in Conns : Connects(u, c) \/ Sends(u, c) \/ Leaves(u, c)

LEMMA QueryEffect ==
  ASSUME TypeOK, NEW u \in Uploaders, ClientQuery(u)
  PROVE  TypeOK' /\ ClientEffect(u)
<1> DEFINE next == IF blob = "absent" THEN "connect" ELSE "done"
<1>1. client' = [client EXCEPT ![u].at = next] /\ UNCHANGED <<netVars, handler, fileVars, historyVars>>
  BY Zenon DEF ClientQuery
<1>2. next \in {"connect", "done"} /\ (next = "done" => blob # "absent")
  BY Zenon
<1>3. Clients
  BY Typed, Zenon
<1> HIDE DEF next
<1>4. Clients' /\ OneClient(u) /\ client'[u].conn = client[u].conn /\ client'[u].at = next
  <2> DEFINE rec == [client[u] EXCEPT !.at = next]
  <2>1. client[u] \in ClientType
    BY <1>3, Zenon DEF Clients
  <2>2. rec \in ClientType /\ rec.at = next /\ rec.conn = client[u].conn
    BY <1>2, <2>1, Zenon DEF ClientType
  <2>3. client' = [client EXCEPT ![u] = rec]
    BY <1>1, Zenon
  <2> HIDE DEF rec
  <2>4. Clients' /\ client'[u] = rec /\ OneClient(u)
    BY <1>3, <2>2, <2>3, ClientMove, Zenon
  <2> QED
    BY <2>2, <2>4, Zenon
<1>5. TypeOK'
  BY <1>1, <1>4, Zenon DEF Clients, TypeOK, netVars, fileVars, historyVars
<1> QED
  BY <1>1, <1>2, <1>4, <1>5, Zenon DEF ClientEffect, AsksOnly, historyVars

LEMMA UnsentEffect ==
  ASSUME TypeOK, NEW u \in Uploaders, ClientUnsent(u)
  PROVE  TypeOK' /\ ClientEffect(u)
<1>1. Clients /\ Wires /\ Handlers /\ Files /\ Others
  BY Typed, Zenon
<1>2. client[u] \in ClientType
  BY <1>1, Zenon DEF Clients
<1>3. PICK rec \in {Reconnected(client[u]), Retried(client[u])}, kind \in {"drop", "unsent"} :
         client' = [client EXCEPT ![u] = rec] /\ Fault(kind)
  BY Zenon DEF ClientUnsent
<1>4. UNCHANGED <<netVars, handler, fileVars, overlap, seen>>
  BY Zenon DEF ClientUnsent
<1>5. rec \in ClientType /\ rec.conn = NoConn /\ rec.at \in {"connect", "failed"}
  BY <1>2, RetriedTyped, ReconnectedTyped, Zenon
<1>6. Clients' /\ client'[u] = rec /\ OneClient(u)
  BY <1>1, <1>3, <1>5, ClientMove, Zenon
<1>7. /\ faults' \in [{"drop", "unsent", "timeout", "crash", "write", "corrupt"} -> Nat]
      /\ faults'.crash = faults.crash /\ faults'.write = faults.write
  <2>1. /\ kind \in {"drop", "unsent", "timeout", "crash", "write", "corrupt"}
        /\ "crash" # kind /\ "write" # kind
    OBVIOUS
  <2> QED
    BY <1>1, <1>3, <2>1, FaultEffect, Zenon
<1>8. TypeOK'
  BY <1>1, <1>4, <1>6, <1>7, Zenon DEF TypeOK, Clients, Wires, Handlers, Files, Others,
                                        netVars, fileVars
<1> QED
  BY <1>4, <1>5, <1>6, <1>7, <1>8, Zenon DEF ClientEffect, AsksOnly

LEMMA ConnectEffect ==
  ASSUME TypeOK, NEW u \in Uploaders, ClientConnect(u)
  PROVE  TypeOK' /\ ClientEffect(u)
<1> DEFINE frame == InitFrame(StreamOf[u])
           first == <<frame>>
<1>1. PICK c \in Conns :
        /\ Unused(c)
        /\ client' = [client EXCEPT ![u].at = "resume", ![u].conn = c]
        /\ open' = [open EXCEPT ![c] = TRUE]
        /\ toServer' = [toServer EXCEPT ![c] = first]
        /\ toClient' = [toClient EXCEPT ![c] = <<>>]
        /\ handler' = [handler EXCEPT ![c].at = "init"]
  BY Zenon DEF ClientConnect
<1>2. /\ overlap' = (overlap \/ \E d \in Conns : Busy(d)) /\ seen' = seen \cup {u}
      /\ UNCHANGED <<fileVars, faults>>
  BY Zenon DEF ClientConnect
<1>3. Clients /\ Wires /\ Handlers /\ Files /\ Others
  BY Typed, Zenon
<1>4. first \in Seq(FrameType) /\ <<>> \in Seq(ReplyType)
  <2>1. frame \in FrameType
    BY StreamTyped, Zenon DEF FrameType, InitFrame
  <2> HIDE DEF frame
  <2> QED
    BY <2>1, SMT
<1> HIDE DEF first
<1>5. Clients' /\ OneClient(u) /\ client'[u].conn = c /\ client'[u].at = "resume"
  <2> DEFINE rec == [client[u] EXCEPT !.at = "resume", !.conn = c]
  <2>1. client[u] \in ClientType
    BY <1>3, Zenon DEF Clients
  <2>2. rec \in ClientType /\ rec.at = "resume" /\ rec.conn = c
    BY <2>1, Zenon DEF ClientType
  <2>3. client' = [client EXCEPT ![u] = rec]
    BY <1>1, Zenon
  <2> HIDE DEF rec
  <2>4. Clients' /\ client'[u] = rec /\ OneClient(u)
    BY <1>3, <2>2, <2>3, ClientMove, Zenon
  <2> QED
    BY <2>2, <2>4, Zenon
<1>6. /\ Wires' /\ toServer'[c] = first /\ toClient'[c] = <<>>
      /\ \A d \in Conns \ {c} : toServer'[d] = toServer[d] /\ toClient'[d] = toClient[d]
  BY <1>1, <1>3, <1>4, Zenon DEF Wires
<1>7. Handlers' /\ OneHandler(c) /\ handler'[c].at = "init"
  <2> DEFINE rec == [handler[c] EXCEPT !.at = "init"]
  <2>1. handler[c] \in HandlerType
    BY <1>3, Zenon DEF Handlers
  <2>2. rec \in HandlerType /\ rec.at = "init"
    BY <2>1, Zenon DEF HandlerType
  <2>3. handler' = [handler EXCEPT ![c] = rec]
    BY <1>1, Zenon
  <2> HIDE DEF rec
  <2>4. Handlers' /\ handler'[c] = rec /\ OneHandler(c)
    BY <1>3, <2>2, <2>3, HandlerMove, Zenon
  <2> QED
    BY <2>2, <2>4, Zenon
<1>8. Files' /\ Others'
  <2>1. open' \in [Conns -> BOOLEAN] /\ seen' \subseteq Uploaders /\ overlap' \in BOOLEAN
    BY <1>1, <1>2, <1>3, Zenon DEF Others
  <2> QED
    BY <1>2, <1>3, <2>1, Zenon DEF Files, Others, fileVars
<1>9. TypeOK'
  BY <1>5, <1>6, <1>7, <1>8, Typed, Zenon DEF TypeOK, Clients, Wires, Handlers, Files, Others
<1>10. Connects(u, c)
  BY <1>1, <1>2, <1>5, <1>6, <1>7, Zenon DEF Connects, first
<1> QED
  BY <1>2, <1>5, <1>9, <1>10, Zenon DEF ClientEffect

\* The chunk that is sent is the piece of the stream at its offset.
LEMMA SendNextEffect ==
  ASSUME TypeOK, NEW u \in Uploaders, NEW c \in Conns, NEW offset \in Nat, NEW seq \in Nat,
         NEW policy \in Policies, client[u].conn = c, toClient[c] # <<>>,
         SendNext(u, c, offset, seq, policy), UNCHANGED <<open, handler, fileVars, historyVars>>
  PROVE  TypeOK' /\ ClientEffect(u)
<1> DEFINE stream == StreamOf[u]
           count == chunk_size_for_remaining(policy, stream.size - offset)
           data == Units(stream, offset, count)
           frame == ChunkFrame(seq, offset, data)
           next == IF offset < stream.size THEN "ack" ELSE "complete"
           rec == [client[u] EXCEPT !.at = next, !.offset = offset, !.seq = seq, !.policy = policy]
           rest == Tail(toClient[c])
           more == Append(toServer[c], frame)
<1>1. /\ client' = [client EXCEPT ![u] = rec] /\ toClient' = [toClient EXCEPT ![c] = rest]
      /\ toServer' = toServer \/ toServer' = [toServer EXCEPT ![c] = more]
  BY Zenon DEF SendNext
<1>2. Clients /\ Wires
  BY Typed, Zenon
<1>3. count \in Nat
  <2>1. stream.size - offset \in Int
    BY StreamTyped, SMT
  <2> QED
    BY <2>1, ChunkSize, Zenon
<1>4. data \in UnitSeq /\ Piece(data, stream, offset)
  <2>1. stream.encoding \in {"raw", "zstd"}
    BY StreamTyped, Zenon
  <2> HIDE DEF count, stream
  <2> QED
    BY <1>3, <2>1, UnitsTyped, SMT
<1> HIDE DEF data
<1>5. frame \in FrameType
  BY <1>4, FramesTyped, Zenon
<1>6. frame.type = "chunk" /\ frame.data = data /\ frame.offset = offset
  BY Zenon DEF ChunkFrame
<1> HIDE DEF frame
<1>7. more \in Seq(FrameType) /\ rest \in Seq(ReplyType)
  <2>1. toServer[c] \in Seq(FrameType) /\ toClient[c] \in Seq(ReplyType)
    BY <1>2, Zenon DEF Wires
  <2> QED
    BY <1>5, <2>1, SeqParts, SeqMore, Zenon
<1>8. rec \in ClientType /\ rec.conn = client[u].conn /\ rec.at # "done"
  <2>1. next \in {"ack", "complete"}
    BY Zenon
  <2> HIDE DEF next
  <2>2. client[u] \in ClientType
    BY <1>2, Zenon DEF Clients
  <2> QED
    BY <2>1, <2>2, Zenon DEF ClientType, Policies
<1> HIDE DEF rec, more, rest
<1>9. Clients' /\ client'[u] = rec /\ OneClient(u)
  BY <1>1, <1>2, <1>8, ClientMove, Zenon
<1>10. /\ Wires' /\ toClient'[c] = rest
       /\ \A d \in Conns \ {c} : toServer'[d] = toServer[d] /\ toClient'[d] = toClient[d]
       /\ toServer' = toServer \/ toServer'[c] = more
  BY <1>1, <1>2, <1>7, Zenon DEF Wires
<1>11. TypeOK'
  BY <1>9, <1>10, Zenon DEF TypeOK, Clients, Wires, fileVars, historyVars
<1>12. toServer' = toServer \/ \E f \in FrameType :
            /\ toServer'[c] = Append(toServer[c], f)
            /\ f.type = "chunk" /\ Piece(f.data, StreamOf[u], f.offset)
  BY <1>4, <1>5, <1>6, <1>10, Zenon DEF more
<1>13. Sends(u, c)
  BY <1>8, <1>9, <1>10, <1>12, Zenon DEF Sends, rest
<1> QED
  BY <1>9, <1>11, <1>13, Zenon DEF ClientEffect

\* A client that reads has a connection.
LEMMA ReplyTyped ==
  ASSUME TypeOK, NEW u \in Uploaders, NEW type, Reply(u, type)
  PROVE  /\ client[u].conn \in Conns /\ toClient[client[u].conn] # <<>>
         /\ Head(toClient[client[u].conn]) \in ReplyType
         /\ Head(toClient[client[u].conn]).type = type
<1>1. client[u].conn \in Conns
  <2>1. client[u] \in ClientType
    BY Zenon DEF TypeOK
  <2>2. client[u].conn \in Conns \cup {NoConn}
    BY <2>1, Zenon DEF ClientType
  <2> QED
    BY <2>2, Zenon DEF Reply
<1>2. toClient[client[u].conn] \in Seq(ReplyType)
  BY <1>1, Zenon DEF TypeOK
<1> QED
  BY <1>1, <1>2, SeqParts, Zenon DEF Reply

LEMMA ResumeEffect ==
  ASSUME TypeOK, NEW u \in Uploaders, ClientResume(u)
  PROVE  TypeOK' /\ ClientEffect(u)
<1> DEFINE c == client[u].conn
           frame == Head(toClient[c])
<1>1. /\ Reply(u, "upload_resume") /\ SendNext(u, c, frame.offset, frame.seq, client[u].policy)
      /\ UNCHANGED <<open, handler, fileVars, historyVars>>
  BY Zenon DEF ClientResume
<1>2. c \in Conns /\ toClient[c] # <<>> /\ frame \in ReplyType /\ frame.type = "upload_resume"
  BY <1>1, ReplyTyped, Zenon
<1>3. frame.seq \in Nat /\ frame.offset \in Nat
  <2> HIDE DEF frame
  <2> QED
    BY <1>2, ReplyKinds, Zenon
<1>4. client[u].policy \in Policies
  <2>1. client[u] \in ClientType
    BY Zenon DEF TypeOK
  <2> QED
    BY <2>1, Zenon DEF ClientType, Policies
<1> QED
  BY <1>1, <1>2, <1>3, <1>4, SendNextEffect, Zenon

LEMMA AckEffect ==
  ASSUME TypeOK, NEW u \in Uploaders, ClientAck(u)
  PROVE  TypeOK' /\ ClientEffect(u)
<1> DEFINE c == client[u].conn
           frame == Head(toClient[c])
<1>1. PICK slow \in BOOLEAN :
         SendNext(u, c, frame.received, client[u].seq + 1, on_ack(client[u].policy, slow))
  BY Zenon DEF ClientAck
<1>2. Reply(u, "upload_ack") /\ UNCHANGED <<open, handler, fileVars, historyVars>>
  BY Zenon DEF ClientAck
<1>3. c \in Conns /\ toClient[c] # <<>> /\ frame \in ReplyType /\ frame.type = "upload_ack"
  BY <1>2, ReplyTyped, Zenon
<1>4. frame.received \in Nat
  <2> HIDE DEF frame
  <2> QED
    BY <1>3, ReplyKinds, Zenon
<1>5. client[u].policy \in Policies /\ client[u].seq \in Nat
  <2>1. client[u] \in ClientType
    BY Zenon DEF TypeOK
  <2> QED
    BY <2>1, Zenon DEF ClientType, Policies
<1>6. on_ack(client[u].policy, slow) \in Policies
  BY <1>5, PolicyTyped, Zenon
<1>7. client[u].seq + 1 \in Nat
  BY <1>5, SMT
<1> QED
  BY <1>1, <1>2, <1>3, <1>4, <1>6, <1>7, SendNextEffect, Zenon

\* The connection is given up; the client is done only after upload_complete.
LEMMA LeaveEffect ==
  ASSUME TypeOK, NEW u \in Uploaders, NEW rec \in ClientType, client[u].conn \in Conns,
         client' = [client EXCEPT ![u] = rec], rec.conn = NoConn, HangUp(client[u].conn),
         rec.at \in {"connect", "done", "failed"},
         rec.at = "done" => Reply(u, "upload_complete"),
         UNCHANGED <<toServer, handler, fileVars, overlap, seen>>,
         UNCHANGED faults \/ Fault("timeout")
  PROVE  TypeOK' /\ ClientEffect(u)
<1> DEFINE c == client[u].conn
<1>1. Clients /\ Wires /\ Handlers /\ Files /\ Others
  BY Typed, Zenon
<1>2. Clients' /\ client'[u] = rec /\ OneClient(u)
  BY <1>1, ClientMove, Zenon
<1>3. /\ Wires' /\ open' \in [Conns -> BOOLEAN] /\ toClient'[c] = <<>>
      /\ \A d \in Conns \ {c} : toClient'[d] = toClient[d]
  BY <1>1, HangUpEffect, Zenon
<1>4. /\ faults' \in [{"drop", "unsent", "timeout", "crash", "write", "corrupt"} -> Nat]
      /\ faults'.crash = faults.crash /\ faults'.write = faults.write
  <2>1. CASE UNCHANGED faults
    BY <1>1, <2>1, Zenon DEF Others
  <2>2. CASE Fault("timeout")
    <3>1. \A other \in {"drop", "unsent", "timeout", "crash", "write", "corrupt"} \ {"timeout"} :
             faults'[other] = faults[other]
      BY <1>1, <2>2, FaultEffect, Zenon
    <3>2. "crash" # "timeout" /\ "write" # "timeout"
      OBVIOUS
    <3> QED
      BY <1>1, <2>2, <3>1, <3>2, FaultEffect, Zenon
  <2> QED
    BY <2>1, <2>2, Zenon
<1>5. TypeOK'
  BY <1>1, <1>2, <1>3, <1>4, Zenon DEF TypeOK, Clients, Wires, Handlers, Files, Others, fileVars
<1>6. client'[u].at = "done" => toClient[c] # <<>> /\ Head(toClient[c]).type = "upload_complete"
  BY <1>2, Zenon DEF Reply
<1>7. Leaves(u, c)
  BY <1>2, <1>3, <1>4, <1>6, Zenon DEF Leaves
<1> QED
  BY <1>2, <1>5, <1>7, Zenon DEF ClientEffect

LEMMA EndEffect ==
  ASSUME TypeOK, WaitingInv, NEW u \in Uploaders,
         ClientComplete(u) \/ ClientRefused(u) \/ ClientLost(u) \/ ClientTimeout(u)
  PROVE  TypeOK' /\ ClientEffect(u)
<1>1. client[u] \in ClientType /\ Clients
  BY Zenon DEF TypeOK, Clients
<1>2. CASE ClientComplete(u)
  <2> DEFINE rec == [client[u] EXCEPT !.at = "done", !.conn = NoConn]
  <2>1. client' = [client EXCEPT ![u].at = "done", ![u].conn = NoConn] /\ Reply(u, "upload_complete")
        /\ HangUp(client[u].conn) /\ UNCHANGED <<toServer, handler, fileVars, overlap, seen, faults>>
    BY <1>2, Zenon DEF ClientComplete, historyVars
  <2>2. rec \in ClientType /\ rec.conn = NoConn /\ rec.at = "done"
    BY <1>1, Zenon DEF ClientType
  <2>3. client' = [client EXCEPT ![u] = rec]
    BY <1>1, <2>1, Zenon DEF Clients
  <2>4. client[u].conn \in Conns
    BY <2>1, ReplyTyped, Zenon
  <2> HIDE DEF rec
  <2> QED
    BY <2>1, <2>2, <2>3, <2>4, LeaveEffect, Zenon
<1>3. CASE ClientRefused(u)
  <2> DEFINE rec == Retried(client[u])
  <2>1. Waiting(u) /\ client' = [client EXCEPT ![u] = rec] /\ HangUp(client[u].conn)
        /\ UNCHANGED <<toServer, handler, fileVars, overlap, seen, faults>>
    BY <1>3, Zenon DEF ClientRefused, historyVars
  <2>2. rec \in ClientType /\ rec.conn = NoConn /\ rec.at \in {"connect", "failed"}
    BY <1>1, RetriedTyped, Zenon
  <2> HIDE DEF rec
  <2> QED
    BY <2>1, <2>2, LeaveEffect, Zenon DEF WaitingInv
<1>4. CASE ClientLost(u) \/ ClientTimeout(u)
  <2> DEFINE rec == Reconnected(client[u])
  <2>1. /\ Waiting(u) /\ client' = [client EXCEPT ![u] = rec] /\ HangUp(client[u].conn)
        /\ UNCHANGED <<toServer, handler, fileVars, overlap, seen>>
        /\ UNCHANGED faults \/ Fault("timeout")
    BY <1>4, Zenon DEF ClientLost, ClientTimeout, historyVars
  <2>2. rec \in ClientType /\ rec.conn = NoConn /\ rec.at \in {"connect", "failed"}
    BY <1>1, ReconnectedTyped, Zenon
  <2> HIDE DEF rec
  <2> QED
    BY <2>1, <2>2, LeaveEffect, Zenon DEF WaitingInv
<1> QED
  BY <1>2, <1>3, <1>4, Zenon

LEMMA ClientStep ==
  ASSUME TypeOK, WaitingInv, NEW u \in Uploaders,
         ClientNext(u) \/ ClientTimeout(u) \/ ClientUnsent(u)
  PROVE  TypeOK' /\ ClientEffect(u)
  BY QueryEffect, UnsentEffect, ConnectEffect, ResumeEffect, AckEffect, EndEffect, Zenon
     DEF ClientNext

(***************************************************************************)
(* The steps of a handler.                                                 *)
(***************************************************************************)
\* Every step of a handler: it takes at most one frame, it sends at most one, and
\* it says upload_complete only at the end of remove_blob_upload_state.
Answers(c) ==
    \/ toClient'[c] = toClient[c]
    \/ \E frame \in ReplyType :
         /\ toClient'[c] = Append(toClient[c], frame)
         /\ frame.type = "upload_complete" =>
              handler[c].at = "rm_part" /\ handler[c].goal = "complete"
HandlerFrame(c) ==
    /\ OneHandler(c) /\ UNCHANGED <<client, open, overlap, seen>>
    /\ handler[c].at # "none" /\ (Busy(c) \/ handler'[c].at = "none")
    /\ \A d \in Conns \ {c} : toServer'[d] = toServer[d] /\ toClient'[d] = toClient[d]
    /\ \/ toServer'[c] = toServer[c]
       \/ toServer[c] # <<>> /\ toServer'[c] = Tail(toServer[c])
    /\ Answers(c)
    /\ UNCHANGED faults \/ (handler'[c].at = "none" /\ faults'.write # 0)

\* The handler returns, ...
Quits(c) ==
    /\ handler'[c] = IdleHandler /\ UNCHANGED fileVars
    /\ handler[c].at \notin {"rm_meta", "rm_part"}
    /\ handler[c].at = "write" => faults'.write # 0
\* ... it takes a frame, ...
Starts(c) ==
    /\ handler[c].at = "init" /\ UNCHANGED fileVars
    /\ Frame(c, "upload_init") /\ handler'[c].stream = Head(toServer[c]).stream
    /\ \/ handler'[c].at = "rm_meta" /\ handler'[c].goal = "complete" /\ blob # "absent"
       \/ handler'[c].at = "load" /\ handler'[c].goal = "resume"
Receives(c) ==
    /\ handler[c].at = "recv" /\ UNCHANGED fileVars
    /\ handler'[c].at = "load" /\ handler'[c].goal = "append"
    /\ handler'[c].stream = handler[c].stream /\ handler'[c].received = handler[c].received
    /\ Frame(c, "chunk") /\ Head(toServer[c]).offset = handler[c].received
    /\ handler'[c].chunk = Head(toServer[c]).data
\* ... it prepares the session, ...
SameWork(c) ==
    /\ handler'[c].goal = handler[c].goal /\ handler'[c].stream = handler[c].stream
    /\ handler'[c].chunk = handler[c].chunk /\ handler'[c].received = handler[c].received
Loads(c) ==
    /\ handler[c].at = "load" /\ handler'[c].at = "stat" /\ SameWork(c) /\ UNCHANGED fileVars
    /\ handler'[c].state = IF meta = NoMeta THEN NewMeta(handler[c].stream) ELSE meta
    /\ handler'[c].state.stream = handler[c].stream
Discards(c) ==
    /\ handler[c].at = "stat" /\ handler'[c].at = "rm_meta" /\ handler'[c].goal = "error"
    /\ handler'[c].stream = handler[c].stream
    /\ Len(part) > handler[c].stream.size /\ UNCHANGED fileVars
Stats(c) ==
    /\ handler[c].at = "stat" /\ handler'[c].at = "save" /\ SameWork(c) /\ UNCHANGED fileVars
    /\ handler'[c].state = StatState(handler[c].state, Len(part))
    /\ handler'[c].state.offset = Len(part)
    /\ Len(part) > 0 => handler'[c].state.seq # 0
Saves(c) ==
    /\ handler[c].at = "save" /\ meta' = handler[c].state /\ UNCHANGED <<part, blob>>
    /\ \/ handler'[c] = IdleHandler
       \/ handler'[c].at = "fin_load" /\ handler'[c].stream = handler[c].stream
       \/ /\ handler'[c].at = "recv" /\ handler'[c].stream = handler[c].stream
          /\ handler'[c].received = handler[c].state.offset
       \/ /\ handler'[c].at = "write" /\ handler[c].goal = "append" /\ SameWork(c)
          /\ handler'[c].state = handler[c].state /\ handler'[c].left = handler[c].chunk
          /\ handler[c].state.offset + Len(handler[c].chunk) <= handler[c].stream.size
\* ... it appends a chunk, ...
Writes(c) ==
    /\ handler[c].at = "write" /\ handler'[c].at = "write" /\ handler[c].left # <<>>
    /\ part' = Append(part, Head(handler[c].left)) /\ UNCHANGED <<meta, blob>>
    /\ handler'[c].left = Tail(handler[c].left) /\ SameWork(c)
    /\ handler'[c].state = handler[c].state
Commits(c) ==
    /\ handler[c].at = "write" /\ handler[c].left = <<>> /\ UNCHANGED <<part, blob>>
    /\ meta'.stream = handler[c].state.stream /\ meta'.seq = handler[c].state.seq + 1
    /\ meta'.offset = handler[c].state.offset + Len(handler[c].chunk)
    /\ \/ handler'[c] = IdleHandler
       \/ /\ handler'[c].at \in {"fin_load", "recv"} /\ handler'[c].stream = handler[c].stream
          /\ handler'[c].received = meta'.offset
\* ... and it finishes.
Finalizes(c) ==
    /\ \/ handler[c].at = "fin_load" /\ handler'[c].at = "fin_read"
       \/ handler[c].at = "fin_read" /\ handler'[c].at = "link"
    /\ handler'[c].stream = handler[c].stream /\ UNCHANGED fileVars
Stores(c) ==
    /\ \/ handler[c].at = "link" /\ handler'[c].at = "index"
       \/ handler[c].at = "index" /\ handler'[c].at = "rm_meta"
    /\ handler'[c].stream = handler[c].stream /\ blob' # "absent" /\ UNCHANGED <<part, meta>>
Removes(c) ==
    /\ handler[c].at = "rm_meta" /\ handler'[c].at = "rm_part" /\ SameWork(c)
    /\ meta' = NoMeta /\ UNCHANGED <<part, blob>>
Clears(c) ==
    /\ handler[c].at = "rm_part" /\ handler'[c] = IdleHandler
    /\ part' = <<>> /\ UNCHANGED <<meta, blob>>

HandlerEffect(c) ==
    /\ HandlerFrame(c)
    /\ \/ Quits(c) \/ Starts(c) \/ Receives(c) \/ Loads(c) \/ Discards(c) \/ Stats(c) \/ Saves(c)
       \/ Writes(c) \/ Commits(c) \/ Finalizes(c) \/ Stores(c) \/ Removes(c) \/ Clears(c)

LEMMA IdleFields == IdleHandler.at = "none"
  BY Zenon DEF IdleHandler

LEMMA WorkingBusy ==
  ASSUME NEW c \in Conns,
         \/ handler[c].at \notin {"none", "init", "recv"}
         \/ handler[c].at # "none" /\ toServer[c] # <<>>
  PROVE  Busy(c)
  BY Zenon DEF Busy

LEMMA InitEffect ==
  ASSUME TypeOK, NEW c \in Conns, HandleInit(c)
  PROVE  TypeOK' /\ HandlerEffect(c)
<1> DEFINE stream == Head(toServer[c]).stream
           gone == [handler[c] EXCEPT !.stream = stream, !.at = "rm_meta", !.goal = "complete"]
           wanted == [handler[c] EXCEPT !.stream = stream, !.at = "load", !.goal = "resume"]
<1>1. Clients /\ Wires /\ Handlers /\ Files /\ Others
  BY Typed, Zenon
<1>2. /\ handler[c].at = "init" /\ Frame(c, "upload_init") /\ Consume(c)
      /\ UNCHANGED <<client, open, toClient, fileVars, historyVars>>
  BY Zenon DEF HandleInit
<1>3. toServer[c] # <<>> /\ Head(toServer[c]).type = "upload_init"
  BY <1>2, Zenon DEF Frame
<1>4. /\ toServer' \in [Conns -> Seq(FrameType)] /\ toServer'[c] = Tail(toServer[c])
      /\ \A d \in Conns \ {c} : toServer'[d] = toServer[d]
      /\ Head(toServer[c]) \in FrameType
  BY <1>1, <1>2, <1>3, ConsumeEffect, Zenon
<1>5. stream \in Streams
  BY <1>3, <1>4, FrameKinds, Zenon
<1>6. \/ blob # "absent" /\ handler' = [handler EXCEPT ![c] = gone]
      \/ handler' = [handler EXCEPT ![c] = wanted]
  <2>1. handler[c] \in HandlerType
    BY <1>1, Zenon DEF Handlers
  <2> DEFINE me == [handler[c] EXCEPT !.stream = stream]
  <2>2. gone = [me EXCEPT !.at = "rm_meta", !.goal = "complete"]
    BY <2>1, SMT DEF HandlerType
  <2>3. wanted = [me EXCEPT !.at = "load", !.goal = "resume"]
    BY <2>1, SMT DEF HandlerType
  <2>4. handler' = [handler EXCEPT ![c] =
                IF blob # "absent"
                THEN [me EXCEPT !.at = "rm_meta", !.goal = "complete"]
                ELSE [me EXCEPT !.at = "load", !.goal = "resume"]]
    BY Zenon DEF HandleInit
  <2> HIDE DEF me, gone, wanted
  <2> QED
    BY <2>2, <2>3, <2>4, Zenon
<1>7. /\ gone \in HandlerType /\ gone.stream = stream /\ gone.at = "rm_meta" /\ gone.goal = "complete"
      /\ wanted \in HandlerType /\ wanted.stream = stream /\ wanted.at = "load" /\ wanted.goal = "resume"
  <2>1. handler[c] \in HandlerType
    BY <1>1, Zenon DEF Handlers
  <2> HIDE DEF stream
  <2> QED
    BY <1>5, <2>1, Zenon DEF HandlerType
<1> HIDE DEF gone, wanted
<1>8. /\ Handlers' /\ OneHandler(c)
      /\ \/ blob # "absent" /\ handler'[c] = gone
         \/ handler'[c] = wanted
  BY <1>1, <1>6, <1>7, HandlerMove, Zenon
<1>9. TypeOK'
  BY <1>1, <1>2, <1>4, <1>8, Zenon
     DEF TypeOK, Clients, Wires, Handlers, Files, Others, fileVars, historyVars
<1>10. Busy(c)
  BY <1>2, <1>3, WorkingBusy, Zenon
<1>11. HandlerFrame(c)
  BY <1>2, <1>3, <1>4, <1>8, <1>10, Zenon DEF HandlerFrame, Answers, historyVars
<1>12. Starts(c)
  BY <1>2, <1>7, <1>8, Zenon DEF Starts
<1> QED
  BY <1>9, <1>11, <1>12, Zenon DEF HandlerEffect

\* The handler returns with an error or without.
LEMMA QuitEffect ==
  ASSUME TypeOK, NEW c \in Conns, toServer' \in [Conns -> Seq(FrameType)],
         \A d \in Conns \ {c} : toServer'[d] = toServer[d],
         \/ toServer'[c] = toServer[c]
         \/ toServer[c] # <<>> /\ toServer'[c] = Tail(toServer[c]),
         \/ Send(c, UploadError)
         \/ UNCHANGED toClient,
         handler' = [handler EXCEPT ![c] = IdleHandler],
         UNCHANGED <<client, open, fileVars, overlap, seen>>,
         handler[c].at \notin {"none", "rm_meta", "rm_part"},
         (UNCHANGED faults /\ handler[c].at # "write") \/ Fault("write")
  PROVE  TypeOK' /\ HandlerEffect(c)
<1>1. Clients /\ Wires /\ Handlers /\ Files /\ Others
  BY Typed, Zenon
<1>2. Handlers' /\ handler'[c] = IdleHandler /\ OneHandler(c) /\ handler'[c].at = "none"
  BY <1>1, IdleTyped, IdleFields, HandlerMove, Zenon
<1>3. /\ toClient' \in [Conns -> Seq(ReplyType)]
      /\ toClient'[c] = toClient[c] \/ toClient'[c] = Append(toClient[c], UploadError)
      /\ \A d \in Conns \ {c} : toClient'[d] = toClient[d]
  <2>1. CASE UNCHANGED toClient
    BY <1>1, <2>1, Zenon DEF Wires
  <2>2. CASE Send(c, UploadError)
    <3> DEFINE more == Append(toClient[c], UploadError)
    <3>1. more \in Seq(ReplyType)
      <4>1. toClient[c] \in Seq(ReplyType) /\ UploadError \in ReplyType
        BY <1>1, Zenon DEF Wires, ReplyType
      <4> QED
        BY <4>1, SeqMore, Zenon
    <3>2. toClient' = toClient \/ toClient' = [toClient EXCEPT ![c] = more]
      BY <2>2, Zenon DEF Send
    <3> HIDE DEF more
    <3>3. /\ toClient' \in [Conns -> Seq(ReplyType)]
          /\ toClient'[c] = toClient[c] \/ toClient'[c] = more
          /\ \A d \in Conns \ {c} : toClient'[d] = toClient[d]
      BY <1>1, <3>1, <3>2, Zenon DEF Wires
    <3> QED
      BY <3>3, Zenon DEF more
  <2> QED
    BY <2>1, <2>2, Zenon
<1>4. /\ faults' \in [{"drop", "unsent", "timeout", "crash", "write", "corrupt"} -> Nat]
      /\ UNCHANGED faults \/ faults'.write # 0
      /\ handler[c].at = "write" => faults'.write # 0
  <2>1. CASE UNCHANGED faults /\ handler[c].at # "write"
    BY <1>1, <2>1, Zenon DEF Others
  <2>2. CASE Fault("write")
    BY <1>1, <2>2, FaultEffect, Zenon
  <2> QED
    BY <2>1, <2>2, Zenon
<1>5. TypeOK'
  BY <1>1, <1>2, <1>3, <1>4, Zenon DEF TypeOK, Clients, Wires, Handlers, Files, Others, fileVars
<1>6. Answers(c)
  <2>1. UploadError \in ReplyType
    BY Zenon DEF ReplyType
  <2>2. UploadError.type # "upload_complete"
    BY Zenon DEF UploadError
  <2> QED
    BY <1>3, <2>1, <2>2, Zenon DEF Answers
<1>7. HandlerFrame(c)
  BY <1>2, <1>3, <1>4, <1>6, Zenon DEF HandlerFrame
<1>8. Quits(c)
  BY <1>2, <1>4, Zenon DEF Quits
<1> QED
  BY <1>5, <1>7, <1>8, Zenon DEF HandlerEffect

\* The handler goes on, and perhaps answers.
LEMMA WorkEffect ==
  ASSUME TypeOK, NEW c \in Conns, NEW rec \in HandlerType, NEW frame \in ReplyType,
         handler' = [handler EXCEPT ![c] = rec], Files',
         handler[c].at \notin {"none", "init", "recv"},
         UNCHANGED toClient \/ Send(c, frame),
         frame.type = "upload_complete" => handler[c].at = "rm_part" /\ handler[c].goal = "complete",
         UNCHANGED <<client, open, toServer, historyVars>>
  PROVE  TypeOK' /\ HandlerFrame(c) /\ handler'[c] = rec
<1>1. Clients /\ Wires /\ Handlers /\ Files /\ Others
  BY Typed, Zenon
<1>2. Handlers' /\ handler'[c] = rec /\ OneHandler(c)
  BY <1>1, HandlerMove, Zenon
<1>3. /\ Wires'
      /\ toClient'[c] = toClient[c] \/ toClient'[c] = Append(toClient[c], frame)
      /\ \A d \in Conns \ {c} : toClient'[d] = toClient[d]
  <2>1. CASE UNCHANGED toClient
    BY <1>1, <2>1, Zenon DEF Wires
  <2>2. CASE Send(c, frame)
    BY <1>1, <2>2, SendEffect, Zenon
  <2> QED
    BY <2>1, <2>2, Zenon
<1>4. TypeOK'
  BY <1>1, <1>2, <1>3, Zenon DEF TypeOK, Clients, Wires, Handlers, Files, Others, historyVars
<1>5. Busy(c)
  BY WorkingBusy, Zenon
<1>6. Answers(c)
  BY <1>3, Zenon DEF Answers
<1>7. HandlerFrame(c)
  BY <1>2, <1>3, <1>5, <1>6, Zenon DEF HandlerFrame, historyVars
<1> QED
  BY <1>2, <1>4, <1>7, Zenon

\* The same without an answer.
LEMMA QuietEffect ==
  ASSUME TypeOK, NEW c \in Conns, NEW rec \in HandlerType,
         handler' = [handler EXCEPT ![c] = rec], Files',
         handler[c].at \notin {"none", "init", "recv"},
         UNCHANGED <<client, open, toServer, toClient, historyVars>>
  PROVE  TypeOK' /\ HandlerFrame(c) /\ handler'[c] = rec
<1>1. UploadError \in ReplyType
  BY Zenon DEF ReplyType
<1>2. UploadError.type # "upload_complete"
  BY Zenon DEF UploadError
<1> QED
  BY <1>1, <1>2, WorkEffect, Zenon

LEMMA FailedEffect ==
  ASSUME TypeOK, NEW c \in Conns, Fail(c), UNCHANGED <<client, open, toServer, fileVars, historyVars>>,
         handler[c].at \notin {"none", "write", "rm_meta", "rm_part"}
  PROVE  TypeOK' /\ HandlerEffect(c)
<1>1. handler' = [handler EXCEPT ![c] = IdleHandler] /\ Send(c, UploadError)
  BY Zenon DEF Fail
<1>2. UNCHANGED <<client, open, toServer, fileVars, overlap, seen, faults>>
  BY Zenon DEF historyVars
<1>3. toServer' \in [Conns -> Seq(FrameType)]
  BY <1>2, Zenon DEF TypeOK
<1> QED
  BY <1>1, <1>2, <1>3, QuitEffect, Zenon

LEMMA BadFrameEffect ==
  ASSUME TypeOK, NEW c \in Conns, HandleBadFrame(c) \/ HandleGone(c) \/ AppendError(c)
  PROVE  TypeOK' /\ HandlerEffect(c)
<1>1. Wires
  BY Typed, Zenon
<1>2. CASE HandleBadFrame(c)
  <2>1. /\ handler[c].at \in {"init", "recv"} /\ toServer[c] # <<>> /\ Consume(c)
        /\ handler' = [handler EXCEPT ![c] = IdleHandler] /\ Send(c, UploadError)
        /\ UNCHANGED <<client, open, fileVars, overlap, seen, faults>>
    BY <1>2, Zenon DEF HandleBadFrame, Frame, Fail, historyVars
  <2>2. /\ toServer' \in [Conns -> Seq(FrameType)] /\ toServer'[c] = Tail(toServer[c])
        /\ \A d \in Conns \ {c} : toServer'[d] = toServer[d]
    BY <1>1, <2>1, ConsumeEffect, Zenon
  <2>3. handler[c].at \notin {"none", "rm_meta", "rm_part", "write"}
    BY <2>1, Zenon
  <2> QED
    BY <2>1, <2>2, <2>3, QuitEffect, Zenon
<1>3. CASE HandleGone(c)
  <2>1. /\ handler[c].at \in {"init", "recv"} /\ UNCHANGED <<toServer, toClient>>
        /\ handler' = [handler EXCEPT ![c] = IdleHandler]
        /\ UNCHANGED <<client, open, fileVars, overlap, seen, faults>>
    BY <1>3, Zenon DEF HandleGone, netVars, historyVars
  <2>2. toServer' \in [Conns -> Seq(FrameType)]
    BY <2>1, Zenon DEF TypeOK
  <2>3. handler[c].at \notin {"none", "rm_meta", "rm_part", "write"}
    BY <2>1, Zenon
  <2> QED
    BY <2>1, <2>2, <2>3, QuitEffect, Zenon
<1>4. CASE AppendError(c)
  <2>1. /\ handler[c].at = "write" /\ Fault("write")
        /\ handler' = [handler EXCEPT ![c] = IdleHandler] /\ Send(c, UploadError)
        /\ UNCHANGED <<client, open, toServer, fileVars, overlap, seen>>
    BY <1>4, Zenon DEF AppendError, Fail
  <2>2. toServer' \in [Conns -> Seq(FrameType)]
    BY <2>1, Zenon DEF TypeOK
  <2>3. handler[c].at \notin {"none", "rm_meta", "rm_part"}
    BY <2>1, Zenon
  <2> QED
    BY <2>1, <2>2, <2>3, QuitEffect, Zenon
<1> QED
  BY <1>2, <1>3, <1>4, Zenon

LEMMA LoadEffect ==
  ASSUME TypeOK, NEW c \in Conns, PrepareLoad(c)
  PROVE  TypeOK' /\ HandlerEffect(c)
<1> DEFINE me == handler[c]
           state == IF meta = NoMeta THEN NewMeta(me.stream) ELSE meta
           rec == [me EXCEPT !.at = "stat", !.state = state]
<1>1. Handlers /\ Files /\ me \in HandlerType
  BY Typed, Zenon DEF Handlers
<1>2. me.at = "load" /\ UNCHANGED <<client, open, toServer, fileVars, historyVars>>
  BY Zenon DEF PrepareLoad
<1>3. \/ Fail(c)
      \/ /\ state.stream = me.stream /\ UNCHANGED toClient
         /\ handler' = [handler EXCEPT ![c].at = "stat", ![c].state = state]
  BY Zenon DEF PrepareLoad
<1>4. CASE Fail(c)
  BY <1>2, <1>4, FailedEffect, Zenon
<1>5. CASE /\ state.stream = me.stream /\ UNCHANGED toClient
           /\ handler' = [handler EXCEPT ![c].at = "stat", ![c].state = state]
  <2>1. state \in MetaType
    <3>1. me.stream \in Streams \cup {NoStream}
      BY <1>1, Zenon DEF HandlerType
    <3> QED
      BY <1>1, <3>1, MetaTyped, Zenon DEF Files
  <2> HIDE DEF state
  <2>2. handler' = [handler EXCEPT ![c] = rec]
    BY <1>1, <1>5, Zenon DEF Handlers
  <2>3. /\ rec \in HandlerType /\ rec.at = "stat" /\ rec.state = state /\ rec.goal = me.goal
        /\ rec.stream = me.stream /\ rec.chunk = me.chunk /\ rec.received = me.received
    BY <1>1, <2>1, Zenon DEF HandlerType
  <2> HIDE DEF rec
  <2>4. Files'
    BY <1>1, <1>2, Zenon DEF Files, fileVars
  <2>5. TypeOK' /\ HandlerFrame(c) /\ handler'[c] = rec
    BY <1>2, <1>5, <2>2, <2>3, <2>4, QuietEffect, Zenon
  <2>6. Loads(c)
    BY <1>2, <1>5, <2>3, <2>5, Zenon DEF Loads, SameWork, state
  <2> QED
    BY <2>5, <2>6, Zenon DEF HandlerEffect
<1> QED
  BY <1>3, <1>4, <1>5, Zenon

LEMMA StatEffect ==
  ASSUME TypeOK, NEW c \in Conns, PrepareStat(c)
  PROVE  TypeOK' /\ HandlerEffect(c)
<1> DEFINE me == handler[c]
           state == StatState(me.state, Len(part))
           over == [me EXCEPT !.at = "rm_meta", !.goal = "error"]
           rec == [me EXCEPT !.at = "save", !.state = state]
<1>1. Handlers /\ Files /\ me \in HandlerType
  BY Typed, Zenon DEF Handlers
<1>2. me.at = "stat" /\ UNCHANGED <<client, open, toServer, fileVars, historyVars>>
  BY Zenon DEF PrepareStat
<1>3. \/ Fail(c)
      \/ /\ Len(part) > me.stream.size /\ UNCHANGED toClient
         /\ handler' = [handler EXCEPT ![c].at = "rm_meta", ![c].goal = "error"]
      \/ /\ state.offset = Len(part) /\ ~(Len(part) > 0 /\ state.seq = 0) /\ UNCHANGED toClient
         /\ handler' = [handler EXCEPT ![c].at = "save", ![c].state = state]
  BY Zenon DEF PrepareStat
<1>4. Files'
  BY <1>1, <1>2, Zenon DEF Files, fileVars
<1>5. CASE Fail(c)
  BY <1>2, <1>5, FailedEffect, Zenon
<1>6. CASE /\ Len(part) > me.stream.size /\ UNCHANGED toClient
           /\ handler' = [handler EXCEPT ![c].at = "rm_meta", ![c].goal = "error"]
  <2>1. handler' = [handler EXCEPT ![c] = over]
    BY <1>1, <1>6, Zenon DEF Handlers
  <2>2. over \in HandlerType /\ over.at = "rm_meta" /\ over.goal = "error" /\ over.stream = me.stream
    BY <1>1, Zenon DEF HandlerType
  <2> HIDE DEF over
  <2>3. TypeOK' /\ HandlerFrame(c) /\ handler'[c] = over
    BY <1>2, <1>4, <1>6, <2>1, <2>2, QuietEffect, Zenon
  <2>4. Discards(c)
    BY <1>2, <1>6, <2>2, <2>3, Zenon DEF Discards
  <2> QED
    BY <2>3, <2>4, Zenon DEF HandlerEffect
<1>7. CASE /\ state.offset = Len(part) /\ ~(Len(part) > 0 /\ state.seq = 0) /\ UNCHANGED toClient
           /\ handler' = [handler EXCEPT ![c].at = "save", ![c].state = state]
  <2>1. state \in MetaType
    <3>1. me.state \in MetaType
      BY <1>1, Zenon DEF HandlerType
    <3>2. me.state.stream \in Streams \cup {NoStream}
      BY <3>1, Zenon DEF MetaType
    <3> QED
      BY <3>1, <3>2, MetaTyped, Zenon DEF StatState
  <2> HIDE DEF state
  <2>2. handler' = [handler EXCEPT ![c] = rec]
    BY <1>1, <1>7, Zenon DEF Handlers
  <2>3. /\ rec \in HandlerType /\ rec.at = "save" /\ rec.state = state /\ rec.goal = me.goal
        /\ rec.stream = me.stream /\ rec.chunk = me.chunk /\ rec.received = me.received
    BY <1>1, <2>1, Zenon DEF HandlerType
  <2> HIDE DEF rec
  <2>4. TypeOK' /\ HandlerFrame(c) /\ handler'[c] = rec
    BY <1>2, <1>4, <1>7, <2>2, <2>3, QuietEffect, Zenon
  <2>5. Stats(c)
    BY <1>2, <1>7, <2>3, <2>4, Zenon DEF Stats, SameWork, state
  <2> QED
    BY <2>4, <2>5, Zenon DEF HandlerEffect
<1> QED
  BY <1>3, <1>5, <1>6, <1>7, Zenon

LEMMA SaveEffect ==
  ASSUME TypeOK, NEW c \in Conns, PrepareSave(c)
  PROVE  TypeOK' /\ HandlerEffect(c)
<1> DEFINE me == handler[c]
           seq == me.state.seq
           received == me.state.offset
           fin == [me EXCEPT !.at = "fin_load"]
           recv == [me EXCEPT !.at = "recv", !.seq = seq, !.received = received]
           writing == [me EXCEPT !.at = "write", !.left = me.chunk]
<1>1. Handlers /\ Files /\ me \in HandlerType
  BY Typed, Zenon DEF Handlers
<1>2. me.state \in MetaType /\ me.chunk \in UnitSeq /\ seq \in Nat /\ received \in Nat
  <2>1. me.state \in MetaType /\ me.chunk \in UnitSeq
    BY <1>1, Zenon DEF HandlerType
  <2> QED
    BY <2>1, Zenon DEF MetaType
<1>3. /\ me.at = "save" /\ meta' = me.state
      /\ UNCHANGED <<client, open, toServer, part, blob, historyVars>>
  BY Zenon DEF PrepareSave
<1>4. Files'
  BY <1>1, <1>2, <1>3, Zenon DEF Files
<1> HIDE DEF seq, received
<1>5. /\ fin \in HandlerType /\ fin.at = "fin_load" /\ fin.stream = me.stream
      /\ recv \in HandlerType /\ recv.at = "recv" /\ recv.stream = me.stream /\ recv.received = received
      /\ writing \in HandlerType /\ writing.at = "write" /\ writing.goal = me.goal
      /\ writing.stream = me.stream /\ writing.chunk = me.chunk /\ writing.received = me.received
      /\ writing.state = me.state /\ writing.left = me.chunk
  BY <1>1, <1>2, Zenon DEF HandlerType
<1>6. \/ handler' = [handler EXCEPT ![c].at = "fin_load"] /\ UNCHANGED toClient
      \/ /\ handler' = [handler EXCEPT ![c].at = "recv", ![c].seq = seq, ![c].received = received]
         /\ Send(c, UploadResume(seq, received))
      \/ Fail(c)
      \/ /\ me.goal = "append" /\ received + Len(me.chunk) <= me.stream.size /\ UNCHANGED toClient
         /\ handler' = [handler EXCEPT ![c].at = "write", ![c].left = me.chunk]
  BY Zenon DEF PrepareSave, seq, received
<1>7. CASE handler' = [handler EXCEPT ![c].at = "fin_load"] /\ UNCHANGED toClient
  <2>1. handler' = [handler EXCEPT ![c] = fin]
    BY <1>1, <1>7, Zenon DEF Handlers
  <2> HIDE DEF fin
  <2>2. TypeOK' /\ HandlerFrame(c) /\ handler'[c] = fin
    BY <1>3, <1>4, <1>5, <1>7, <2>1, QuietEffect, Zenon
  <2> QED
    BY <1>3, <1>5, <2>2, Zenon DEF HandlerEffect, Saves
<1>8. CASE /\ handler' = [handler EXCEPT ![c].at = "recv", ![c].seq = seq, ![c].received = received]
           /\ Send(c, UploadResume(seq, received))
  <2>1. handler' = [handler EXCEPT ![c] = recv]
    BY <1>1, <1>8, Zenon DEF Handlers
  <2> DEFINE frame == UploadResume(seq, received)
  <2>2. frame \in ReplyType
    BY <1>2, RepliesTyped, Zenon
  <2>3. frame.type # "upload_complete"
    BY Zenon DEF UploadResume
  <2> HIDE DEF recv, frame
  <2>4. TypeOK' /\ HandlerFrame(c) /\ handler'[c] = recv
    BY <1>3, <1>4, <1>5, <1>8, <2>1, <2>2, <2>3, WorkEffect, Zenon DEF frame
  <2> QED
    BY <1>3, <1>5, <2>4, Zenon DEF HandlerEffect, Saves, received
<1>9. CASE Fail(c)
  <2>1. handler' = [handler EXCEPT ![c] = IdleHandler] /\ Send(c, UploadError)
    BY <1>9, Zenon DEF Fail
  <2>2. UploadError \in ReplyType
    BY Zenon DEF ReplyType
  <2>3. UploadError.type # "upload_complete"
    BY Zenon DEF UploadError
  <2>4. TypeOK' /\ HandlerFrame(c) /\ handler'[c] = IdleHandler
    BY <1>3, <1>4, <2>1, <2>2, <2>3, IdleTyped, WorkEffect, Zenon
  <2> QED
    BY <1>3, <2>4, Zenon DEF HandlerEffect, Saves
<1>10. CASE /\ me.goal = "append" /\ received + Len(me.chunk) <= me.stream.size /\ UNCHANGED toClient
            /\ handler' = [handler EXCEPT ![c].at = "write", ![c].left = me.chunk]
  <2>1. handler' = [handler EXCEPT ![c] = writing]
    BY <1>1, <1>10, Zenon DEF Handlers
  <2> HIDE DEF writing
  <2>2. TypeOK' /\ HandlerFrame(c) /\ handler'[c] = writing
    BY <1>3, <1>4, <1>5, <1>10, <2>1, QuietEffect, Zenon
  <2> QED
    BY <1>3, <1>5, <1>10, <2>2, Zenon DEF HandlerEffect, Saves, SameWork, received
<1> QED
  BY <1>6, <1>7, <1>8, <1>9, <1>10, Zenon

LEMMA ChunkEffect ==
  ASSUME TypeOK, NEW c \in Conns, HandleChunk(c)
  PROVE  TypeOK' /\ HandlerEffect(c)
<1> DEFINE me == handler[c]
           data == Head(toServer[c]).data
           rec == [me EXCEPT !.at = "load", !.goal = "append", !.chunk = data]
<1>1. Clients /\ Wires /\ Handlers /\ Files /\ Others /\ me \in HandlerType
  BY Typed, Zenon DEF Handlers
<1>2. /\ me.at = "recv" /\ Frame(c, "chunk") /\ Consume(c) /\ toServer[c] # <<>>
      /\ UNCHANGED <<client, open, fileVars, historyVars>>
  BY Zenon DEF HandleChunk, Frame
<1>3. /\ toServer' \in [Conns -> Seq(FrameType)] /\ toServer'[c] = Tail(toServer[c])
      /\ \A d \in Conns \ {c} : toServer'[d] = toServer[d]
      /\ Head(toServer[c]) \in FrameType
  BY <1>1, <1>2, ConsumeEffect, Zenon
<1>4. \/ Fail(c)
      \/ /\ Head(toServer[c]).offset = me.received /\ UNCHANGED toClient
         /\ handler' = [handler EXCEPT ![c].at = "load", ![c].goal = "append", ![c].chunk = data]
  BY Zenon DEF HandleChunk, ChunkExpected
<1>5. CASE Fail(c)
  <2>1. /\ handler' = [handler EXCEPT ![c] = IdleHandler] /\ Send(c, UploadError)
        /\ UNCHANGED <<client, open, fileVars, overlap, seen, faults>>
    BY <1>2, <1>5, Zenon DEF Fail, historyVars
  <2>2. handler[c].at \notin {"none", "rm_meta", "rm_part", "write"}
    BY <1>2, Zenon
  <2> QED
    BY <1>2, <1>3, <2>1, <2>2, QuitEffect, Zenon
<1>6. CASE /\ Head(toServer[c]).offset = me.received /\ UNCHANGED toClient
           /\ handler' = [handler EXCEPT ![c].at = "load", ![c].goal = "append", ![c].chunk = data]
  <2>1. data \in UnitSeq
    BY <1>2, <1>3, FrameKinds, Zenon DEF Frame
  <2> HIDE DEF data
  <2>2. /\ rec \in HandlerType /\ rec.at = "load" /\ rec.goal = "append" /\ rec.chunk = data
        /\ rec.stream = me.stream /\ rec.received = me.received
    BY <1>1, <2>1, Zenon DEF HandlerType
  <2>3. handler' = [handler EXCEPT ![c] = rec]
    BY <1>1, <1>6, Zenon DEF Handlers
  <2> HIDE DEF rec
  <2>4. Handlers' /\ handler'[c] = rec /\ OneHandler(c)
    BY <1>1, <2>2, <2>3, HandlerMove, Zenon
  <2>5. TypeOK'
    BY <1>1, <1>2, <1>3, <1>6, <2>4, Zenon
       DEF TypeOK, Clients, Wires, Handlers, Files, Others, fileVars, historyVars
  <2>6. Busy(c)
    BY <1>2, WorkingBusy, Zenon
  <2>7. HandlerFrame(c)
    BY <1>2, <1>3, <1>6, <2>4, <2>6, Zenon DEF HandlerFrame, Answers, historyVars
  <2>8. Receives(c)
    BY <1>2, <1>6, <2>2, <2>4, Zenon DEF Receives, data
  <2> QED
    BY <2>5, <2>7, <2>8, Zenon DEF HandlerEffect
<1> QED
  BY <1>4, <1>5, <1>6, Zenon

LEMMA WriteEffect ==
  ASSUME TypeOK, NEW c \in Conns, AppendWrite(c)
  PROVE  TypeOK' /\ HandlerEffect(c)
<1> DEFINE me == handler[c]
           rest == Tail(me.left)
           rec == [me EXCEPT !.left = rest]
<1>1. Handlers /\ Files /\ me \in HandlerType
  BY Typed, Zenon DEF Handlers
<1>2. /\ me.at = "write" /\ me.left # <<>> /\ part' = Append(part, Head(me.left))
      /\ UNCHANGED <<client, open, toServer, toClient, meta, blob, historyVars>>
  BY Zenon DEF AppendWrite, netVars
<1>3. handler' = [handler EXCEPT ![c] = rec]
  BY <1>1, Zenon DEF AppendWrite, Handlers
<1>4. rest \in UnitSeq /\ Head(me.left) \in {"raw", "zstd"} \X Nat
  <2>1. me.left \in UnitSeq
    BY <1>1, Zenon DEF HandlerType
  <2> QED
    BY <1>2, <2>1, SeqParts, Zenon DEF UnitSeq
<1>5. Files'
  <2>1. Append(part, Head(me.left)) \in UnitSeq
    BY <1>1, <1>4, SeqMore, Zenon DEF Files, UnitSeq
  <2> QED
    BY <1>1, <1>2, <2>1, Zenon DEF Files
<1> HIDE DEF rest
<1>6. /\ rec \in HandlerType /\ rec.at = me.at /\ rec.goal = me.goal /\ rec.stream = me.stream
      /\ rec.chunk = me.chunk /\ rec.received = me.received /\ rec.state = me.state /\ rec.left = rest
  BY <1>1, <1>4, Zenon DEF HandlerType
<1> HIDE DEF rec
<1>7. TypeOK' /\ HandlerFrame(c) /\ handler'[c] = rec
  BY <1>2, <1>3, <1>5, <1>6, QuietEffect, Zenon
<1> QED
  BY <1>2, <1>6, <1>7, Zenon DEF HandlerEffect, Writes, SameWork, rest

LEMMA CommitEffect ==
  ASSUME TypeOK, NEW c \in Conns, AppendSave(c)
  PROVE  TypeOK' /\ HandlerEffect(c)
<1> DEFINE me == handler[c]
           seq == me.state.seq + 1
           offset == me.state.offset + Len(me.chunk)
           state == [me.state EXCEPT !.offset = offset, !.seq = seq]
           next == IF state.offset = me.stream.size THEN "fin_load" ELSE "recv"
           rec == [me EXCEPT !.at = next, !.seq = state.seq, !.received = state.offset]
           ack == UploadAck(me.seq, me.received, Len(me.chunk), state.offset)
<1>1. Handlers /\ Files /\ me \in HandlerType
  BY Typed, Zenon DEF Handlers
<1>2. /\ me.at = "write" /\ me.left = <<>> /\ meta' = state /\ Send(c, ack)
      /\ UNCHANGED <<client, open, toServer, part, blob, historyVars>>
  BY Zenon DEF AppendSave
<1>3. \/ handler' = [handler EXCEPT ![c].at = next, ![c].seq = state.seq, ![c].received = state.offset]
      \/ handler' = [handler EXCEPT ![c] = IdleHandler]
  BY Zenon DEF AppendSave
<1>4. me.state \in MetaType /\ me.chunk \in UnitSeq /\ me.seq \in Nat /\ me.received \in Nat
  BY <1>1, Zenon DEF HandlerType
<1>5. Len(me.chunk) \in Nat
  BY <1>4, SeqParts, Zenon DEF UnitSeq
<1>6. seq \in Nat /\ offset \in Nat
  <2>1. me.state.seq \in Nat /\ me.state.offset \in Nat
    BY <1>4, Zenon DEF MetaType
  <2> QED
    BY <1>5, <2>1, SMTT(40)
<1>7. state \in MetaType /\ state.seq = seq /\ state.offset = offset /\ state.stream = me.state.stream
  <2> HIDE DEF seq, offset
  <2> QED
    BY <1>4, <1>6, Zenon DEF MetaType
<1>8. next \in {"fin_load", "recv"}
  BY Zenon
<1>9. Files'
  BY <1>1, <1>2, <1>7, Zenon DEF Files
<1>10. ack \in ReplyType /\ ack.type # "upload_complete"
  <2>1. ack \in ReplyType
    BY <1>4, <1>5, <1>6, <1>7, RepliesTyped, Zenon
  <2>2. ack.type # "upload_complete"
    BY Zenon DEF UploadAck
  <2> QED
    BY <2>1, <2>2, Zenon
<1> HIDE DEF state, next, ack
<1>11. CASE handler' = [handler EXCEPT ![c].at = next, ![c].seq = state.seq, ![c].received = state.offset]
  <2>1. handler' = [handler EXCEPT ![c] = rec]
    BY <1>1, <1>11, Zenon DEF Handlers
  <2>2. /\ rec \in HandlerType /\ rec.at = next /\ rec.stream = me.stream
        /\ rec.received = state.offset
    BY <1>1, <1>6, <1>7, <1>8, Zenon DEF HandlerType
  <2> HIDE DEF rec
  <2>3. TypeOK' /\ HandlerFrame(c) /\ handler'[c] = rec
    BY <1>2, <1>9, <1>10, <2>1, <2>2, WorkEffect, Zenon
  <2> QED
    BY <1>2, <1>7, <1>8, <2>2, <2>3, Zenon DEF HandlerEffect, Commits
<1>12. CASE handler' = [handler EXCEPT ![c] = IdleHandler]
  <2>1. TypeOK' /\ HandlerFrame(c) /\ handler'[c] = IdleHandler
    BY <1>2, <1>9, <1>10, <1>12, IdleTyped, WorkEffect, Zenon
  <2> QED
    BY <1>2, <1>7, <2>1, Zenon DEF HandlerEffect, Commits
<1> QED
  BY <1>3, <1>11, <1>12, Zenon

LEMMA FinalizeEffect ==
  ASSUME TypeOK, NEW c \in Conns, FinalizeLoad(c) \/ FinalizeRead(c)
  PROVE  TypeOK' /\ HandlerEffect(c)
<1> DEFINE me == handler[c]
           loaded == [me EXCEPT !.at = "fin_read", !.state = meta]
           decoded == [me EXCEPT !.at = "link"]
<1>1. Handlers /\ Files /\ me \in HandlerType /\ meta \in MetaType
  BY Typed, Zenon DEF Handlers, Files
<1>2. me.at \in {"fin_load", "fin_read"} /\ UNCHANGED <<client, open, toServer, fileVars, historyVars>>
  BY Zenon DEF FinalizeLoad, FinalizeRead
<1>3. Files'
  BY <1>1, <1>2, Zenon DEF Files, fileVars
<1>4. /\ loaded \in HandlerType /\ loaded.at = "fin_read" /\ loaded.stream = me.stream
      /\ decoded \in HandlerType /\ decoded.at = "link" /\ decoded.stream = me.stream
  BY <1>1, Zenon DEF HandlerType
<1>5. \/ Fail(c)
      \/ /\ me.at = "fin_load" /\ UNCHANGED toClient
         /\ handler' = [handler EXCEPT ![c].at = "fin_read", ![c].state = meta]
      \/ /\ me.at = "fin_read" /\ UNCHANGED toClient
         /\ handler' = [handler EXCEPT ![c].at = "link"]
  BY Zenon DEF FinalizeLoad, FinalizeRead
<1>6. CASE Fail(c)
  BY <1>2, <1>6, FailedEffect, Zenon
<1>7. CASE /\ me.at = "fin_load" /\ UNCHANGED toClient
           /\ handler' = [handler EXCEPT ![c].at = "fin_read", ![c].state = meta]
  <2>1. handler' = [handler EXCEPT ![c] = loaded]
    BY <1>1, <1>7, Zenon DEF Handlers
  <2> HIDE DEF loaded
  <2>2. TypeOK' /\ HandlerFrame(c) /\ handler'[c] = loaded
    BY <1>2, <1>3, <1>4, <1>7, <2>1, QuietEffect, Zenon
  <2> QED
    BY <1>2, <1>4, <1>7, <2>2, Zenon DEF HandlerEffect, Finalizes
<1>8. CASE /\ me.at = "fin_read" /\ UNCHANGED toClient
           /\ handler' = [handler EXCEPT ![c].at = "link"]
  <2>1. handler' = [handler EXCEPT ![c] = decoded]
    BY <1>1, <1>8, Zenon DEF Handlers
  <2> HIDE DEF decoded
  <2>2. TypeOK' /\ HandlerFrame(c) /\ handler'[c] = decoded
    BY <1>2, <1>3, <1>4, <1>8, <2>1, QuietEffect, Zenon
  <2> QED
    BY <1>2, <1>4, <1>8, <2>2, Zenon DEF HandlerEffect, Finalizes
<1> QED
  BY <1>5, <1>6, <1>7, <1>8, Zenon

LEMMA StoreEffect ==
  ASSUME TypeOK, NEW c \in Conns, StoreLink(c) \/ StoreIndex(c)
  PROVE  TypeOK' /\ HandlerEffect(c)
<1> DEFINE me == handler[c]
           linked == [me EXCEPT !.at = "index"]
           indexed == [me EXCEPT !.at = "rm_meta", !.goal = "complete"]
<1>1. Handlers /\ Files /\ me \in HandlerType
  BY Typed, Zenon DEF Handlers
<1>2. /\ blob' \in {"linked", "indexed"}
      /\ UNCHANGED <<client, open, toServer, toClient, part, meta, historyVars>>
  BY <1>1, Zenon DEF StoreLink, StoreIndex, netVars, Files
<1>3. Files'
  BY <1>1, <1>2, Zenon DEF Files
<1>4. blob' # "absent"
  BY <1>2, Zenon
<1>5. /\ linked \in HandlerType /\ linked.at = "index" /\ linked.stream = me.stream
      /\ indexed \in HandlerType /\ indexed.at = "rm_meta" /\ indexed.stream = me.stream
  BY <1>1, Zenon DEF HandlerType
<1>6. CASE StoreLink(c)
  <2>1. me.at = "link" /\ handler' = [handler EXCEPT ![c] = linked]
    BY <1>1, <1>6, Zenon DEF StoreLink, Handlers
  <2> HIDE DEF linked
  <2>2. TypeOK' /\ HandlerFrame(c) /\ handler'[c] = linked
    BY <1>2, <1>3, <1>5, <2>1, QuietEffect, Zenon
  <2> QED
    BY <1>2, <1>4, <1>5, <2>1, <2>2, Zenon DEF HandlerEffect, Stores
<1>7. CASE StoreIndex(c)
  <2>1. me.at = "index" /\ handler' = [handler EXCEPT ![c] = indexed]
    BY <1>1, <1>7, Zenon DEF StoreIndex, Handlers
  <2> HIDE DEF indexed
  <2>2. TypeOK' /\ HandlerFrame(c) /\ handler'[c] = indexed
    BY <1>2, <1>3, <1>5, <2>1, QuietEffect, Zenon
  <2> QED
    BY <1>2, <1>4, <1>5, <2>1, <2>2, Zenon DEF HandlerEffect, Stores
<1> QED
  BY <1>6, <1>7, Zenon

LEMMA RemoveEffect ==
  ASSUME TypeOK, NEW c \in Conns, RemoveMeta(c) \/ RemovePart(c)
  PROVE  TypeOK' /\ HandlerEffect(c)
<1> DEFINE me == handler[c]
           rec == [me EXCEPT !.at = "rm_part"]
           frame == IF me.goal = "complete" THEN UploadComplete ELSE UploadError
<1>1. Handlers /\ Files /\ me \in HandlerType
  BY Typed, Zenon DEF Handlers
<1>2. CASE RemoveMeta(c)
  <2>1. /\ me.at = "rm_meta" /\ meta' = NoMeta /\ handler' = [handler EXCEPT ![c] = rec]
        /\ UNCHANGED <<client, open, toServer, toClient, part, blob, historyVars>>
    BY <1>1, <1>2, Zenon DEF RemoveMeta, Handlers, netVars
  <2>2. Files'
    BY <1>1, <2>1, MetaTyped, Zenon DEF Files
  <2>3. /\ rec \in HandlerType /\ rec.at = "rm_part" /\ rec.goal = me.goal /\ rec.stream = me.stream
        /\ rec.chunk = me.chunk /\ rec.received = me.received
    BY <1>1, Zenon DEF HandlerType
  <2> HIDE DEF rec
  <2>4. TypeOK' /\ HandlerFrame(c) /\ handler'[c] = rec
    BY <2>1, <2>2, <2>3, QuietEffect, Zenon
  <2> QED
    BY <2>1, <2>3, <2>4, Zenon DEF HandlerEffect, Removes, SameWork
<1>3. CASE RemovePart(c)
  <2>1. /\ me.at = "rm_part" /\ part' = <<>> /\ handler' = [handler EXCEPT ![c] = IdleHandler]
        /\ Send(c, frame) /\ UNCHANGED <<client, open, toServer, meta, blob, historyVars>>
    BY <1>3, Zenon DEF RemovePart
  <2>2. Files'
    <3>1. <<>> \in UnitSeq
      BY SMT DEF UnitSeq
    <3> QED
      BY <1>1, <2>1, <3>1, Zenon DEF Files
  <2>3. frame \in ReplyType /\ (frame.type = "upload_complete" => me.goal = "complete")
    <3>1. UploadComplete \in ReplyType /\ UploadError \in ReplyType
      BY Zenon DEF ReplyType
    <3>2. UploadError.type # "upload_complete"
      BY Zenon DEF UploadError
    <3> QED
      BY <3>1, <3>2, Zenon
  <2> HIDE DEF frame
  <2>4. TypeOK' /\ HandlerFrame(c) /\ handler'[c] = IdleHandler
    BY <2>1, <2>2, <2>3, IdleTyped, WorkEffect, Zenon
  <2> QED
    BY <2>1, <2>4, Zenon DEF HandlerEffect, Clears
<1> QED
  BY <1>2, <1>3, Zenon

LEMMA HandlerStep ==
  ASSUME TypeOK, NEW c \in Conns, HandlerNext(c) \/ AppendError(c)
  PROVE  TypeOK' /\ HandlerEffect(c)
  BY InitEffect, BadFrameEffect, LoadEffect, StatEffect, SaveEffect, ChunkEffect, WriteEffect,
     CommitEffect, FinalizeEffect, StoreEffect, RemoveEffect, ZenonT(60) DEF HandlerNext

(***************************************************************************)
(* The faults of the network and of the server.                            *)
(***************************************************************************)
\* No handler works on, the files stay; frames are lost or damaged.
FaultFrame ==
    /\ UNCHANGED <<client, fileVars, overlap, seen>>
    /\ \A c \in Conns : handler'[c] = handler[c] \/ (handler'[c].at = "none" /\ faults'.crash # 0)
    /\ \A c \in Conns : toServer'[c] \in {toServer[c], <<>>}
                        \/ (toServer[c] # <<>> /\ toServer'[c] = <<BadFrame>>)
    /\ \A c \in Conns : toClient'[c] \in {toClient[c], <<>>}
    /\ faults'.write = faults.write /\ (faults'.crash = 0 => faults.crash = 0)

LEMMA FaultStep ==
  ASSUME TypeOK, Crash \/ \E c \in Conns : Drop(c) \/ Corrupt(c)
  PROVE  TypeOK' /\ FaultFrame
<1>1. Clients /\ Wires /\ Handlers /\ Files /\ Others
  BY Typed, Zenon
<1>2. "crash" # "write" /\ "drop" # "write" /\ "drop" # "crash" /\ "corrupt" # "write" /\ "corrupt" # "crash"
  OBVIOUS
<1>3. <<>> \in Seq(ReplyType) /\ <<>> \in Seq(FrameType)
  BY SMT
<1>4. CASE Crash
  <2>1. /\ Fault("crash") /\ handler' = [c \in Conns |-> IdleHandler]
        /\ open' = [c \in Conns |-> FALSE] /\ toServer' = [c \in Conns |-> <<>>]
        /\ UNCHANGED <<client, toClient, fileVars, overlap, seen>>
    BY <1>4, Zenon DEF Crash
  <2>2. /\ faults' \in [{"drop", "unsent", "timeout", "crash", "write", "corrupt"} -> Nat]
        /\ faults'.crash # 0 /\ faults'.write = faults.write
    BY <1>1, <1>2, <2>1, FaultEffect, Zenon
  <2>3. TypeOK'
    BY <1>1, <1>3, <2>1, <2>2, IdleTyped, Zenon
       DEF TypeOK, Clients, Wires, Handlers, Files, Others, fileVars
  <2>4. \A c \in Conns : handler'[c].at = "none" /\ toServer'[c] = <<>>
    BY <2>1, IdleFields, Zenon
  <2> QED
    BY <2>1, <2>2, <2>3, <2>4, Zenon DEF FaultFrame
<1>5. ASSUME NEW c \in Conns, Drop(c)
      PROVE  TypeOK' /\ FaultFrame
  <2>1. /\ Fault("drop") /\ open' = [open EXCEPT ![c] = FALSE]
        /\ toClient' = toClient \/ toClient' = [toClient EXCEPT ![c] = <<>>]
        /\ UNCHANGED <<client, toServer, handler, fileVars, overlap, seen>>
    BY <1>5, Zenon DEF Drop
  <2>2. /\ faults' \in [{"drop", "unsent", "timeout", "crash", "write", "corrupt"} -> Nat]
        /\ faults'.crash = faults.crash /\ faults'.write = faults.write
    BY <1>1, <1>2, <2>1, FaultEffect, Zenon
  <2>3. /\ toClient' \in [Conns -> Seq(ReplyType)] /\ open' \in [Conns -> BOOLEAN]
        /\ \A d \in Conns : toClient'[d] \in {toClient[d], <<>>}
    BY <1>1, <1>3, <2>1, Zenon DEF Wires, Others
  <2>4. TypeOK'
    BY <1>1, <2>1, <2>2, <2>3, Zenon
       DEF TypeOK, Clients, Wires, Handlers, Files, Others, fileVars
  <2> QED
    BY <2>1, <2>2, <2>3, <2>4, Zenon DEF FaultFrame
<1>6. ASSUME NEW c \in Conns, Corrupt(c)
      PROVE  TypeOK' /\ FaultFrame
  <2> DEFINE bad == <<BadFrame>>
  <2>1. /\ Fault("corrupt") /\ toServer[c] # <<>> /\ toServer' = [toServer EXCEPT ![c] = bad]
        /\ UNCHANGED <<client, open, toClient, handler, fileVars, overlap, seen>>
    BY <1>6, Zenon DEF Corrupt
  <2>2. /\ faults' \in [{"drop", "unsent", "timeout", "crash", "write", "corrupt"} -> Nat]
        /\ faults'.crash = faults.crash /\ faults'.write = faults.write
    BY <1>1, <1>2, <2>1, FaultEffect, Zenon
  <2>3. bad \in Seq(FrameType)
    <3>1. BadFrame \in FrameType
      BY Zenon DEF FrameType
    <3> QED
      BY <3>1, SMT
  <2> HIDE DEF bad
  <2>4. /\ toServer' \in [Conns -> Seq(FrameType)]
        /\ \A d \in Conns : toServer'[d] = toServer[d] \/ (toServer[d] # <<>> /\ toServer'[d] = bad)
    BY <1>1, <2>1, <2>3, Zenon DEF Wires
  <2>5. TypeOK'
    BY <1>1, <2>1, <2>2, <2>4, Zenon
       DEF TypeOK, Clients, Wires, Handlers, Files, Others, fileVars
  <2> QED
    BY <2>1, <2>2, <2>4, <2>5, Zenon DEF FaultFrame, bad
<1> QED
  BY <1>4, <1>5, <1>6, Zenon

(***************************************************************************)
(* Who works on the files.                                                 *)
(***************************************************************************)
LEMMA ConnNone == NoConn \notin Conns
  BY BoundAssumption, SMT DEF NoConn, Conns

\* A step that connects nobody gives no handler more to do.
Calm == /\ \A c \in Conns : Engaged(c)' => Engaged(c)
        /\ UNCHANGED <<overlap, seen>>

LEMMA ClientCalm ==
  ASSUME NEW u \in Uploaders, OneClient(u),
         AsksOnly(u) \/ \E c \in Conns : Sends(u, c) \/ Leaves(u, c)
  PROVE  Calm /\ UNCHANGED handler
<1>1. UNCHANGED <<overlap, seen, handler>>
  BY Zenon DEF AsksOnly, Sends, Leaves, historyVars
<1>2. ASSUME NEW d \in Conns, Engaged(d)'
      PROVE  Engaged(d)
  <2>1. handler[d].at # "none"
    BY <1>1, <1>2, Zenon DEF Engaged, Busy
  <2>2. Connected(d)' => Connected(d)
    <3>1. ASSUME NEW v \in Uploaders, client'[v].conn = d
          PROVE  client[v].conn = d
      <4>1. CASE v # u
        BY <3>1, <4>1, Zenon DEF OneClient
      <4>2. CASE v = u
        BY <3>1, <4>2, ConnNone, Zenon DEF AsksOnly, Sends, Leaves
      <4> QED
        BY <4>1, <4>2, Zenon
    <3> QED
      BY <3>1, Zenon DEF Connected
  <2>3. Busy(d)' => Busy(d) \/ Connected(d)
    <3>1. CASE toServer'[d] = toServer[d]
      BY <1>1, <3>1, Zenon DEF Busy
    <3>2. CASE toServer'[d] # toServer[d]
      <4>1. client[u].conn = d
        BY <3>2, Zenon DEF AsksOnly, Sends, Leaves, netVars
      <4> QED
        BY <4>1, Zenon DEF Connected
    <3> QED
      BY <3>1, <3>2, Zenon
  <2> QED
    BY <1>2, <2>1, <2>2, <2>3, Zenon DEF Engaged
<1> QED
  BY <1>1, <1>2, Zenon DEF Calm

LEMMA HandlerCalm ==
  ASSUME NEW c \in Conns, HandlerFrame(c)
  PROVE  Calm /\ (handler'[c].at # "none" => Engaged(c))
<1>1. /\ OneHandler(c) /\ UNCHANGED <<client, overlap, seen>> /\ (Busy(c) \/ handler'[c].at = "none")
      /\ \A d \in Conns \ {c} : toServer'[d] = toServer[d]
  BY Zenon DEF HandlerFrame
<1>2. ASSUME NEW d \in Conns, Engaged(d)'
      PROVE  Engaged(d)
  <2>1. CASE d = c
    <3>1. handler'[c].at # "none"
      BY <1>2, <2>1, Zenon DEF Engaged, Busy
    <3> QED
      BY <1>1, <2>1, <3>1, Zenon DEF Engaged
  <2>2. CASE d # c
    <3>1. handler'[d] = handler[d] /\ toServer'[d] = toServer[d]
      BY <1>1, <2>2, Zenon DEF OneHandler
    <3>2. Connected(d)' => Connected(d)
      BY <1>1, Zenon DEF Connected
    <3>3. Busy(d)' => Busy(d)
      BY <3>1, Zenon DEF Busy
    <3> QED
      BY <1>2, <3>1, <3>2, <3>3, Zenon DEF Engaged
  <2> QED
    BY <2>1, <2>2, Zenon
<1> QED
  BY <1>1, <1>2, Zenon DEF Calm, Engaged

LEMMA FaultCalm ==
  ASSUME FaultFrame
  PROVE  Calm /\ \A c \in Conns : Engaged(c)' => handler'[c] = handler[c]
<1>1. UNCHANGED <<client, overlap, seen>>
  BY Zenon DEF FaultFrame
<1>2. ASSUME NEW d \in Conns, Engaged(d)'
      PROVE  Engaged(d) /\ handler'[d] = handler[d]
  <2>1. handler'[d].at # "none"
    BY <1>2, Zenon DEF Engaged, Busy
  <2>2. handler'[d] = handler[d]
    BY <2>1, Zenon DEF FaultFrame
  <2>3. toServer'[d] # <<>> => toServer[d] # <<>>
    BY Zenon DEF FaultFrame
  <2>4. Connected(d)' => Connected(d)
    BY <1>1, Zenon DEF Connected
  <2>5. Busy(d)' => Busy(d)
    BY <2>2, <2>3, Zenon DEF Busy
  <2> QED
    BY <1>2, <2>2, <2>4, <2>5, Zenon DEF Engaged
<1> QED
  BY <1>1, <1>2, Zenon DEF Calm

\* A client that connects while nobody works is the only one with something to do.
LEMMA ConnectAlone ==
  ASSUME WireInv, NEW u \in Uploaders, NEW c \in Conns, OneClient(u), Connects(u, c), Lone'
  PROVE  /\ Lone /\ \A v \in seen : v = u
         /\ \A d \in Conns : Engaged(d)' => d = c
<1>1. /\ overlap' = (overlap \/ \E d \in Conns : Busy(d)) /\ seen' = seen \cup {u}
      /\ client'[u].conn = c /\ OneHandler(c)
      /\ \A d \in Conns \ {c} : toServer'[d] = toServer[d]
  BY Zenon DEF Connects
<1>2. ~overlap /\ \A d \in Conns : ~Busy(d)
  BY <1>1, Zenon DEF Lone
<1>3. \A v \in seen : v = u
  BY <1>1, Zenon DEF Lone
<1>4. Lone
  BY <1>2, <1>3, Zenon DEF Lone
<1>5. ASSUME NEW d \in Conns, Engaged(d)', d # c
      PROVE  FALSE
  <2>1. ~Busy(d)'
    BY <1>1, <1>2, <1>5, Zenon DEF Busy, OneHandler
  <2>2. PICK v \in Uploaders : client'[v].conn = d
    BY <1>5, <2>1, Zenon DEF Engaged, Connected
  <2>3. v # u
    BY <1>1, <1>5, <2>2, Zenon
  <2>4. client[v].conn = d
    BY <2>2, <2>3, Zenon DEF OneClient
  <2>5. v \in seen
    BY <2>4, ConnNone, Zenon DEF WireInv
  <2> QED
    BY <1>3, <2>3, <2>5, Zenon
<1> QED
  BY <1>3, <1>4, <1>5, Zenon

\* What a step is.
Moves ==
    \/ \E u \in Uploaders : ClientEffect(u)
    \/ \E c \in Conns : HandlerEffect(c)
    \/ FaultFrame
    \/ UNCHANGED vars

LEMMA NextMoves ==
  ASSUME TypeOK, WaitingInv, [Next]_vars
  PROVE  TypeOK' /\ Moves
<1>1. CASE UNCHANGED vars \/ Terminated
  <2>1. UNCHANGED vars
    BY <1>1, Zenon DEF Terminated
  <2>2. TypeOK'
    BY <2>1, Zenon DEF TypeOK, vars
  <2> QED
    BY <2>1, <2>2, Zenon DEF Moves
<1>2. ASSUME NEW u \in Uploaders, ClientNext(u) \/ ClientTimeout(u) \/ ClientUnsent(u)
      PROVE  TypeOK' /\ Moves
  BY <1>2, ClientStep, Zenon DEF Moves
<1>3. ASSUME NEW c \in Conns, HandlerNext(c) \/ AppendError(c)
      PROVE  TypeOK' /\ Moves
  BY <1>3, HandlerStep, Zenon DEF Moves
<1>4. CASE Crash \/ \E c \in Conns : Drop(c) \/ Corrupt(c)
  BY <1>4, FaultStep, Zenon DEF Moves
<1> QED
  BY <1>1, <1>2, <1>3, <1>4, Zenon DEF Next

LEMMA WaitingStep ==
  ASSUME WaitingInv, Moves
  PROVE  WaitingInv'
<1>1. ASSUME NEW u \in Uploaders, ClientEffect(u), NEW v \in Uploaders, Waiting(v)'
      PROVE  client'[v].conn \in Conns
  <2>1. OneClient(u)
    BY <1>1, Zenon DEF ClientEffect
  <2>2. CASE v # u
    BY <1>1, <2>1, <2>2, Zenon DEF OneClient, WaitingInv, Waiting
  <2>3. CASE v = u
    BY <1>1, <2>3, Zenon DEF ClientEffect, AsksOnly, Connects, Sends, Leaves, Waiting
  <2> QED
    BY <2>2, <2>3, Zenon
<1>2. CASE UNCHANGED client
  BY <1>2, Zenon DEF WaitingInv, Waiting
<1> QED
  BY <1>1, <1>2, Zenon DEF Moves, HandlerEffect, HandlerFrame, FaultFrame, vars, WaitingInv

LEMMA AloneStep ==
  ASSUME AloneInv, WireInv, Moves
  PROVE  AloneInv'
<1>1. CASE Calm
  <2>1. Lone' => Lone
    BY <1>1, Zenon DEF Calm, Lone
  <2> QED
    BY <1>1, <2>1, Zenon DEF AloneInv, Calm
<1>2. ASSUME NEW u \in Uploaders, NEW c \in Conns, OneClient(u), Connects(u, c)
      PROVE  AloneInv'
  BY <1>2, ConnectAlone, Zenon DEF AloneInv
<1>3. CASE UNCHANGED vars
  BY <1>3, ZenonT(60) DEF AloneInv, Lone, Engaged, Busy, Connected, vars
<1> QED
  BY <1>1, <1>2, <1>3, ClientCalm, HandlerCalm, FaultCalm, Zenon DEF Moves, ClientEffect, HandlerEffect

(***************************************************************************)
(* Frames and streams are those of clients that connected.                 *)
(***************************************************************************)
LEMMA SeenGrows ==
  ASSUME Moves
  PROVE  seen \subseteq seen'
  BY ZenonT(60) DEF Moves, ClientEffect, AsksOnly, Connects, Sends, Leaves, HandlerEffect, HandlerFrame,
     FaultFrame, vars, historyVars

LEMMA SentMore ==
  ASSUME NEW frame, NEW S, NEW T, S \subseteq T, SentBy(frame, S)
  PROVE  SentBy(frame, T)
  BY Zenon DEF SentBy

FramesSent(c) == \A i \in 1 .. Len(toServer[c]) : SentBy(toServer[c][i], seen)

LEMMA FramesTail ==
  ASSUME NEW c \in Conns, toServer[c] \in Seq(FrameType), FramesSent(c), seen \subseteq seen',
         \/ toServer'[c] = toServer[c]
         \/ toServer[c] # <<>> /\ toServer'[c] = Tail(toServer[c])
  PROVE  FramesSent(c)'
<1>1. CASE toServer'[c] = toServer[c]
  BY <1>1, SentMore, Zenon DEF FramesSent
<1>2. CASE toServer[c] # <<>> /\ toServer'[c] = Tail(toServer[c])
  <2>1. \A i \in 1 .. Len(toServer'[c]) : i + 1 \in 1 .. Len(toServer[c])
                                           /\ toServer'[c][i] = toServer[c][i + 1]
    BY <1>2, SeqParts, Zenon
  <2> QED
    BY <2>1, SentMore, Zenon DEF FramesSent
<1> QED
  BY <1>1, <1>2, Zenon

LEMMA FramesOne ==
  ASSUME NEW frame, NEW c \in Conns, toServer'[c] = <<frame>>, SentBy(frame, seen')
  PROVE  FramesSent(c)'
<1>1. \A i \in 1 .. Len(toServer'[c]) : toServer'[c][i] = frame
  BY SMT
<1> QED
  BY <1>1, Zenon DEF FramesSent

LEMMA FramesMore ==
  ASSUME NEW c \in Conns, toServer[c] \in Seq(FrameType), FramesSent(c), seen \subseteq seen',
         NEW frame \in FrameType, toServer'[c] = Append(toServer[c], frame), SentBy(frame, seen')
  PROVE  FramesSent(c)'
<1>1. /\ \A i \in 1 .. Len(toServer[c]) : toServer'[c][i] = toServer[c][i]
      /\ toServer'[c][Len(toServer[c]) + 1] = frame
      /\ \A i \in 1 .. Len(toServer'[c]) : i \in 1 .. Len(toServer[c]) \/ i = Len(toServer[c]) + 1
  BY SMT
<1>2. \A i \in 1 .. Len(toServer[c]) : SentBy(toServer[c][i], seen')
  BY SentMore, Zenon DEF FramesSent
<1> QED
  BY <1>1, <1>2, Zenon DEF FramesSent

LEMMA FramesNone ==
  ASSUME NEW c \in Conns, toServer'[c] = <<>>
  PROVE  FramesSent(c)'
<1>1. 1 .. Len(toServer'[c]) = {}
  BY SMT
<1> QED
  BY <1>1, Zenon DEF FramesSent

StreamSeen(c) == handler[c].at \notin {"none", "init"} => \E u \in seen : handler[c].stream = StreamOf[u]

LEMMA WireParts ==
  WireInv <=> /\ \A u \in Uploaders : client[u].conn # NoConn => u \in seen
              /\ \A c \in Conns : FramesSent(c)
              /\ \A c \in Conns : StreamSeen(c)
  BY Zenon DEF WireInv, FramesSent, StreamSeen

LEMMA WireClient ==
  ASSUME TypeOK, WireInv, NEW u \in Uploaders, ClientEffect(u), seen \subseteq seen'
  PROVE  WireInv'
<1> USE WireParts
<1>1. OneClient(u)
  BY Zenon DEF ClientEffect
<1>2. \A c \in Conns : toServer[c] \in Seq(FrameType)
  BY Zenon DEF TypeOK
<1>3. ASSUME \A c \in Conns : FramesSent(c)', \A c \in Conns : handler'[c] = handler[c] \/ handler'[c].at = "init",
             client'[u].conn # NoConn => u \in seen'
      PROVE  WireInv'
  <2>1. \A v \in Uploaders : client'[v].conn # NoConn => v \in seen'
    BY <1>1, <1>3, Zenon DEF OneClient
  <2>2. \A c \in Conns : StreamSeen(c)'
    BY <1>3, Zenon DEF StreamSeen
  <2> QED
    BY <1>3, <2>1, <2>2, Zenon DEF WireInv, FramesSent, StreamSeen
<1>4. CASE AsksOnly(u)
  <2>1. UNCHANGED <<toServer, handler>> /\ client'[u].conn \in {client[u].conn, NoConn}
    BY <1>4, Zenon DEF AsksOnly, netVars
  <2>2. \A c \in Conns : FramesSent(c)'
    BY <1>2, <2>1, FramesTail, Zenon
  <2> QED
    BY <1>3, <2>1, <2>2, Zenon
<1>5. ASSUME NEW c \in Conns, Connects(u, c)
      PROVE  WireInv'
  <2> DEFINE frame == InitFrame(StreamOf[u])
  <2>1. /\ u \in seen' /\ toServer'[c] = <<frame>> /\ handler'[c].at = "init"
        /\ \A d \in Conns \ {c} : toServer'[d] = toServer[d] /\ handler'[d] = handler[d]
    BY <1>5, Zenon DEF Connects, OneHandler
  <2>2. SentBy(frame, seen')
    BY <2>1, Zenon DEF SentBy, InitFrame
  <2> HIDE DEF frame
  <2>3. \A d \in Conns : FramesSent(d)'
    <3>1. FramesSent(c)'
      BY <2>1, <2>2, FramesOne, Zenon
    <3> QED
      BY <1>2, <2>1, <3>1, FramesTail, Zenon
  <2> QED
    BY <1>3, <2>1, <2>3, Zenon
<1>6. ASSUME NEW c \in Conns, Sends(u, c)
      PROVE  WireInv'
  <2>1. /\ client[u].conn = c /\ client'[u].conn = c /\ UNCHANGED handler
        /\ \A d \in Conns \ {c} : toServer'[d] = toServer[d]
    BY <1>6, Zenon DEF Sends
  <2>2. u \in seen
    BY <2>1, ConnNone, Zenon
  <2>3. FramesSent(c)'
    <3>1. CASE toServer' = toServer
      BY <1>2, <3>1, FramesTail, Zenon
    <3>2. CASE toServer' # toServer
      <4>1. PICK frame \in FrameType :
               /\ toServer'[c] = Append(toServer[c], frame)
               /\ frame.type = "chunk" /\ Piece(frame.data, StreamOf[u], frame.offset)
        BY <1>6, <3>2, Zenon DEF Sends
      <4>2. SentBy(frame, seen')
        BY <2>2, <4>1, Zenon DEF SentBy
      <4> QED
        BY <1>2, <4>1, <4>2, FramesMore, Zenon
    <3> QED
      BY <3>1, <3>2, Zenon
  <2>4. \A d \in Conns : FramesSent(d)'
    BY <1>2, <2>1, <2>3, FramesTail, Zenon
  <2> QED
    BY <1>3, <2>1, <2>2, <2>4, Zenon
<1>7. ASSUME NEW c \in Conns, Leaves(u, c)
      PROVE  WireInv'
  <2>1. UNCHANGED <<toServer, handler>> /\ client'[u].conn = NoConn
    BY <1>7, Zenon DEF Leaves
  <2>2. \A d \in Conns : FramesSent(d)'
    BY <1>2, <2>1, FramesTail, Zenon
  <2> QED
    BY <1>3, <2>1, <2>2, Zenon
<1> QED
  BY <1>4, <1>5, <1>6, <1>7, Zenon DEF ClientEffect

\* The stream of a handler is the one it was given in upload_init.
LEMMA StreamKept ==
  ASSUME TypeOK, WireInv, NEW c \in Conns, HandlerEffect(c), seen' = seen
  PROVE  StreamSeen(c)'
<1>1. CASE Starts(c)
  <2>1. toServer[c] # <<>> /\ Head(toServer[c]).type = "upload_init"
        /\ handler'[c].stream = Head(toServer[c]).stream
    BY <1>1, Zenon DEF Starts, Frame
  <2>2. toServer[c] \in Seq(FrameType)
    BY Zenon DEF TypeOK
  <2>3. Head(toServer[c]) = toServer[c][1] /\ 1 \in 1 .. Len(toServer[c])
    BY <2>1, <2>2, SeqParts, Zenon
  <2>4. SentBy(Head(toServer[c]), seen)
    BY <2>3, Zenon DEF WireInv
  <2>5. \E u \in seen : Head(toServer[c]).stream = StreamOf[u]
    BY <2>1, <2>4, Zenon DEF SentBy
  <2> QED
    BY <2>1, <2>5, Zenon DEF StreamSeen
<1>2. CASE handler'[c].at = "none"
  BY <1>2, Zenon DEF StreamSeen
<1>3. CASE handler'[c].stream = handler[c].stream /\ handler[c].at \notin {"none", "init"}
  BY <1>3, Zenon DEF StreamSeen, WireInv
<1>4. \/ Starts(c) \/ handler'[c].at = "none"
      \/ handler'[c].stream = handler[c].stream /\ handler[c].at \notin {"none", "init"}
  BY IdleFields, Zenon DEF HandlerEffect, Quits, Receives, Loads, Discards, Stats, Saves, Writes, Commits,
     Finalizes, Stores, Removes, Clears, SameWork
<1> QED
  BY <1>1, <1>2, <1>3, <1>4, Zenon

LEMMA WireStep ==
  ASSUME TypeOK, WireInv, Moves
  PROVE  WireInv'
<1>1. seen \subseteq seen'
  BY SeenGrows, Zenon
<1>2. \A c \in Conns : toServer[c] \in Seq(FrameType)
  BY Zenon DEF TypeOK
<1>3. \A c \in Conns : FramesSent(c) /\ StreamSeen(c)
  BY WireParts, Zenon
<1>4. ASSUME NEW u \in Uploaders, ClientEffect(u)
      PROVE  WireInv'
  BY <1>1, <1>4, WireClient, Zenon
<1>5. ASSUME UNCHANGED client, \A c \in Conns : FramesSent(c)' /\ StreamSeen(c)'
      PROVE  WireInv'
  BY <1>1, <1>5, Zenon DEF WireInv, FramesSent, StreamSeen
<1>6. ASSUME NEW c \in Conns, HandlerEffect(c)
      PROVE  WireInv'
  <2>1. /\ OneHandler(c) /\ UNCHANGED <<client, seen>>
        /\ \A d \in Conns \ {c} : toServer'[d] = toServer[d]
        /\ \/ toServer'[c] = toServer[c]
           \/ toServer[c] # <<>> /\ toServer'[c] = Tail(toServer[c])
    BY <1>6, Zenon DEF HandlerEffect, HandlerFrame
  <2>2. \A d \in Conns : FramesSent(d)'
    BY <1>1, <1>2, <1>3, <2>1, FramesTail, Zenon
  <2>3. StreamSeen(c)'
    BY <1>6, <2>1, StreamKept, Zenon
  <2>4. \A d \in Conns \ {c} : StreamSeen(d)'
    BY <1>3, <2>1, ZenonT(60) DEF StreamSeen, OneHandler
  <2> QED
    BY <1>5, <2>1, <2>2, <2>3, <2>4, Zenon
<1>7. CASE FaultFrame
  <2>1. UNCHANGED <<client, seen>>
    BY <1>7, Zenon DEF FaultFrame
  <2>2. ASSUME NEW c \in Conns
        PROVE  FramesSent(c)' /\ StreamSeen(c)'
    <3>1. StreamSeen(c)'
      BY <1>3, <1>7, <2>1, Zenon DEF StreamSeen, FaultFrame
    <3>2. SentBy(BadFrame, seen')
      BY Zenon DEF SentBy, BadFrame
    <3>3. toServer'[c] = toServer[c] \/ toServer'[c] = <<>> \/ toServer'[c] = <<BadFrame>>
      BY <1>7, Zenon DEF FaultFrame
    <3>4. FramesSent(c)'
      BY <1>1, <1>2, <1>3, <3>2, <3>3, FramesTail, FramesNone, FramesOne, ZenonT(60)
    <3> QED
      BY <3>1, <3>4, Zenon
  <2> QED
    BY <1>5, <2>1, <2>2, Zenon
<1>8. CASE UNCHANGED vars
  BY <1>8, Zenon DEF WireInv, vars
<1> QED
  BY <1>4, <1>6, <1>7, <1>8, Zenon DEF Moves

(***************************************************************************)
(* What the handler at work does to the session files.                     *)
(***************************************************************************)
\* The lengths and counters the steps compute with.
LEMMA Lengths ==
  ASSUME TypeOK, NEW c \in Conns
  PROVE  /\ Len(part) \in Nat /\ (part = <<>> <=> Len(part) = 0)
         /\ Len(handler[c].chunk) \in Nat /\ Len(handler[c].left) \in Nat
         /\ handler[c].state.seq \in Nat /\ handler[c].state.offset \in Nat
<1>1. part \in UnitSeq /\ handler[c] \in HandlerType
  BY Zenon DEF TypeOK
<1>2. handler[c].state \in MetaType /\ handler[c].chunk \in UnitSeq /\ handler[c].left \in UnitSeq
  BY <1>1, Zenon DEF HandlerType
<1>3. handler[c].state.seq \in Nat /\ handler[c].state.offset \in Nat
  BY <1>2, Zenon DEF MetaType
<1> QED
  BY <1>1, <1>2, <1>3, SeqParts, Zenon DEF UnitSeq

\* The files stay and the handler goes on.
LEMMA SessionGoesOn ==
  ASSUME TypeOK, NEW c \in Conns, NEW u \in Uploaders, handler[c].stream = StreamOf[u],
         Session(handler[c]),
         Loads(c) \/ Discards(c) \/ Stats(c) \/ Finalizes(c) \/ Stores(c) \/ Removes(c)
  PROVE  Session(handler[c])'
<1>1. CASE Loads(c)
  <2>1. /\ handler[c].at = "load" /\ handler'[c].at = "stat" /\ SameWork(c) /\ UNCHANGED <<part, meta>>
        /\ handler'[c].state = IF meta = NoMeta THEN NewMeta(handler[c].stream) ELSE meta
        /\ handler'[c].state.stream = handler[c].stream
    BY <1>1, Zenon DEF Loads, fileVars
  <2>2. Fits(handler[c])'
    BY <2>1, Zenon DEF Session, Fits, SameWork
  <2>3. handler[c].goal = "append" => handler'[c].state = meta /\ Exact(meta)
    <3>1. NoMeta.stream = NoStream
      BY Zenon DEF NoMeta
    <3>2. handler[c].goal = "append" => meta # NoMeta /\ Exact(meta)
      BY <2>1, <3>1, StreamTyped, Zenon DEF Session
    <3> QED
      BY <2>1, <3>2, Zenon
  <2>4. Exact(meta) => Exact(meta)'
    BY <2>1, Zenon DEF Exact
  <2> QED
    BY <2>1, <2>2, <2>3, <2>4, Zenon DEF Session, SameWork
<1>2. CASE Stats(c)
  <2>1. /\ handler[c].at = "stat" /\ handler'[c].at = "save" /\ SameWork(c) /\ UNCHANGED <<part, meta>>
        /\ handler'[c].state = StatState(handler[c].state, Len(part))
        /\ handler'[c].state.offset = Len(part)
        /\ Len(part) > 0 => handler'[c].state.seq # 0
    BY <1>2, Zenon DEF Stats, fileVars
  <2>2. Fits(handler[c])'
    BY <2>1, Zenon DEF Session, Fits, SameWork
  <2>3. handler'[c].state.stream = handler'[c].stream
    <3>1. handler[c].state.stream = handler[c].stream
      BY <2>1, Zenon DEF Session
    <3>2. \/ handler'[c].state = handler[c].state
          \/ handler'[c].state = NewMeta(handler[c].state.stream)
      BY <2>1, Zenon DEF StatState
    <3>3. NewMeta(handler[c].state.stream).stream = handler[c].state.stream
      BY Zenon DEF NewMeta
    <3> QED
      BY <2>1, <3>1, <3>2, <3>3, Zenon DEF SameWork
  <2>4. Exact(handler[c].state)'
    <3>1. handler'[c].state.seq \in Nat
      <4>1. handler[c].state.seq \in Nat
        BY Lengths, Zenon
      <4>2. handler'[c].state.seq = 0 \/ handler'[c].state.seq = handler[c].state.seq
        <5>1. \/ handler'[c].state = handler[c].state
              \/ handler'[c].state = NewMeta(handler[c].state.stream)
          BY <2>1, Zenon DEF StatState
        <5>2. NewMeta(handler[c].state.stream).seq = 0
          BY Zenon DEF NewMeta
        <5> QED
          BY <5>1, <5>2, Zenon
      <4> QED
        BY <4>1, <4>2, SMT
    <3>2. part # <<>> => Len(part) > 0
      BY Lengths, SMT
    <3>3. part # <<>> => handler'[c].state.seq > 0
      BY <2>1, <3>1, <3>2, SMT
    <3> QED
      BY <2>1, <3>3, Zenon DEF Exact
  <2> QED
    BY <2>1, <2>2, <2>3, <2>4, Zenon DEF Session
<1>3. CASE Finalizes(c) \/ Stores(c)
  <2>1. /\ handler[c].at \in {"fin_load", "fin_read", "link", "index"}
        /\ handler'[c].at \in {"fin_read", "link", "index", "rm_meta"}
        /\ handler'[c].stream = handler[c].stream /\ UNCHANGED <<part, meta>>
    BY <1>3, Zenon DEF Finalizes, Stores, fileVars
  <2>2. meta.stream = handler[c].stream /\ Exact(meta)
    BY <2>1, Zenon DEF Session
  <2>3. meta'.stream = handler'[c].stream /\ Exact(meta)'
    BY <2>1, <2>2, Zenon DEF Exact
  <2> QED
    BY <2>1, <2>3, Zenon DEF Session
<1>4. CASE Discards(c)
  <2>1. handler'[c].at = "rm_meta"
    BY <1>4, Zenon DEF Discards
  <2> QED
    BY <2>1, Zenon DEF Session
<1>5. CASE Removes(c)
  <2>1. handler'[c].at = "rm_part" /\ meta' = NoMeta
    BY <1>5, Zenon DEF Removes
  <2> QED
    BY <2>1, Zenon DEF Session
<1> QED
  BY <1>1, <1>2, <1>3, <1>4, <1>5, Zenon

\* A frame is taken: upload_init, or the chunk at the end of the staged bytes.
LEMMA SessionTakes ==
  ASSUME TypeOK, WireInv, Lone, NEW c \in Conns, NEW u \in seen,
         Starts(c) \/ (Receives(c) /\ handler[c].stream = StreamOf[u]), Session(handler[c])
  PROVE  Session(handler[c])'
<1>1. CASE Starts(c)
  <2>1. \/ handler'[c].at = "rm_meta"
        \/ handler'[c].at = "load" /\ handler'[c].goal = "resume"
    BY <1>1, Zenon DEF Starts
  <2> QED
    BY <2>1, Zenon DEF Session, Fits
<1>2. CASE Receives(c) /\ handler[c].stream = StreamOf[u]
  <2>1. /\ handler[c].at = "recv" /\ UNCHANGED <<part, meta>>
        /\ handler'[c].at = "load" /\ handler'[c].goal = "append"
        /\ handler'[c].stream = handler[c].stream /\ handler'[c].received = handler[c].received
        /\ toServer[c] # <<>> /\ Head(toServer[c]).type = "chunk"
        /\ Head(toServer[c]).offset = handler[c].received
        /\ handler'[c].chunk = Head(toServer[c]).data
    BY <1>2, Zenon DEF Receives, Frame, fileVars
  <2>2. meta.stream = handler[c].stream /\ Exact(meta) /\ handler[c].received = Len(part)
    BY <2>1, Zenon DEF Session
  <2>3. PICK v \in seen : Piece(Head(toServer[c]).data, StreamOf[v], Head(toServer[c]).offset)
    <3>1. toServer[c] \in Seq(FrameType)
      BY Zenon DEF TypeOK
    <3>2. Head(toServer[c]) = toServer[c][1] /\ 1 \in 1 .. Len(toServer[c])
      BY <2>1, <3>1, SeqParts, Zenon
    <3>3. SentBy(Head(toServer[c]), seen)
      BY <3>2, Zenon DEF WireInv
    <3> QED
      BY <2>1, <3>3, Zenon DEF SentBy
  <2>4. v = u
    BY Zenon DEF Lone
  <2>5. Fits(handler[c])'
    BY <1>2, <2>1, <2>2, <2>3, <2>4, Zenon DEF Fits
  <2>6. meta'.stream = handler'[c].stream /\ Exact(meta)'
    BY <2>1, <2>2, Zenon DEF Exact
  <2> QED
    BY <2>1, <2>5, <2>6, Zenon DEF Session
<1> QED
  BY <1>1, <1>2, Zenon

\* The metadata is persisted.
LEMMA SessionSaves ==
  ASSUME TypeOK, NEW c \in Conns, Session(handler[c]), Saves(c)
  PROVE  /\ handler'[c].at # "none" => Session(handler[c])'
         /\ meta'.stream = handler[c].stream /\ Exact(meta)'
<1>1. handler[c].at = "save" /\ meta' = handler[c].state /\ UNCHANGED part
  BY Zenon DEF Saves
<1>2. handler[c].state.stream = handler[c].stream /\ Fits(handler[c]) /\ Exact(handler[c].state)
  BY <1>1, Zenon DEF Session
<1>3. meta'.stream = handler[c].stream /\ Exact(meta)'
  BY <1>1, <1>2, Zenon DEF Exact
<1>4. CASE handler'[c].at = "fin_load" /\ handler'[c].stream = handler[c].stream
  BY <1>3, <1>4, Zenon DEF Session
<1>5. CASE /\ handler'[c].at = "recv" /\ handler'[c].stream = handler[c].stream
           /\ handler'[c].received = handler[c].state.offset
  <2>1. handler'[c].received = Len(part')
    BY <1>1, <1>2, <1>5, Zenon DEF Exact
  <2> QED
    BY <1>3, <1>5, <2>1, Zenon DEF Session
<1>6. CASE /\ handler'[c].at = "write" /\ handler[c].goal = "append" /\ SameWork(c)
           /\ handler'[c].state = handler[c].state /\ handler'[c].left = handler[c].chunk
           /\ handler[c].state.offset + Len(handler[c].chunk) <= handler[c].stream.size
  <2>1. handler[c].state.offset = Len(part) /\ Piece(handler[c].chunk, handler[c].stream, Len(part))
    BY <1>2, <1>6, Zenon DEF Exact, Fits
  <2>2. /\ handler'[c].stream = handler[c].stream /\ handler'[c].chunk = handler[c].chunk
        /\ handler'[c].state.stream = handler'[c].stream
        /\ meta' = handler'[c].state /\ handler'[c].at = "write"
    BY <1>1, <1>2, <1>6, Zenon DEF SameWork
  <2>3. /\ handler'[c].state.offset + Len(handler'[c].chunk) = Len(part') + Len(handler'[c].left)
        /\ Piece(handler'[c].left, handler'[c].stream, Len(part'))
        /\ Len(part') + Len(handler'[c].left) <= handler'[c].stream.size
    BY <1>1, <1>6, <2>1, <2>2, Zenon
  <2> QED
    BY <1>3, <2>2, <2>3, Zenon DEF Session
<1>7. CASE handler'[c] = IdleHandler
  BY <1>3, <1>7, IdleFields, Zenon
<1> QED
  BY <1>3, <1>4, <1>5, <1>6, <1>7, ZenonT(60) DEF Saves

\* A unit is written.
LEMMA SessionWrites ==
  ASSUME TypeOK, NEW c \in Conns, NEW u \in Uploaders, handler[c].stream = StreamOf[u],
         Staged(StreamOf[u]), Session(handler[c]), Writes(c)
  PROVE  Session(handler[c])' /\ Staged(StreamOf[u])'
<1> DEFINE stream == StreamOf[u]
           left == handler[c].left
           one == Head(left)
           enc == stream.encoding
<1>1. /\ handler[c].at = "write" /\ handler'[c].at = "write" /\ left # <<>>
      /\ part' = Append(part, one) /\ UNCHANGED meta
      /\ handler'[c].left = Tail(left) /\ SameWork(c) /\ handler'[c].state = handler[c].state
  BY Zenon DEF Writes
<1>2. /\ meta = handler[c].state /\ handler[c].state.stream = handler[c].stream
      /\ handler[c].state.offset + Len(handler[c].chunk) = Len(part) + Len(left)
      /\ Piece(left, stream, Len(part)) /\ Len(part) + Len(left) <= stream.size
  BY <1>1, Zenon DEF Session
<1>3. left \in UnitSeq /\ part \in UnitSeq
  <2>1. handler[c] \in HandlerType
    BY Zenon DEF TypeOK
  <2> QED
    BY <2>1, Zenon DEF TypeOK, HandlerType
<1>4. stream.size \in Nat
  BY StreamTyped, Zenon
<1> DEFINE S == {"raw", "zstd"} \X Nat
<1>u. left \in Seq(S) /\ part \in Seq(S)
  BY <1>3, Zenon DEF UnitSeq
<1> HIDE DEF S
<1>5. /\ Len(left) \in Nat /\ Len(part) \in Nat /\ Len(Tail(left)) = Len(left) - 1 /\ Len(left) # 0
      /\ one = left[1] /\ 1 \in 1 .. Len(left) /\ one \in S
      /\ \A i \in 1 .. Len(Tail(left)) : i + 1 \in 1 .. Len(left) /\ Tail(left)[i] = left[i + 1]
  <2> HIDE DEF left
  <2>1. left # <<>>
    BY <1>1, Zenon
  <2>2. Len(part) \in Nat
    BY <1>u, SeqParts, Zenon
  <2> QED
    <3>1. /\ Head(left) \in S /\ Head(left) = left[1] /\ 1 \in 1 .. Len(left)
          /\ Len(Tail(left)) = Len(left) - 1
      BY <1>u, <2>1, SeqParts, Zenon
    <3>2. \A i \in 1 .. Len(Tail(left)) : i + 1 \in 1 .. Len(left) /\ Tail(left)[i] = left[i + 1]
      BY <1>u, <2>1, SeqParts, Zenon
    <3>3. Len(left) \in Nat /\ Len(left) # 0
      BY <1>u, <2>1, SeqParts, Zenon
    <3> QED
      BY <2>2, <3>1, <3>2, <3>3, Zenon
<1>6. /\ Len(Append(part, one)) = Len(part) + 1
      /\ \A i \in 1 .. Len(part) : Append(part, one)[i] = part[i]
      /\ Append(part, one)[Len(part) + 1] = one
      /\ \A i \in 1 .. Len(Append(part, one)) : i \in 1 .. Len(part) \/ i = Len(part) + 1
  <2> HIDE DEF one
  <2> QED
    BY <1>u, <1>5, SMT
<1>7. one = <<enc, Len(part) + 1 - 1>>
  BY <1>2, <1>5, Zenon DEF Piece
<1>8. \A i \in 1 .. Len(part) : part[i] = <<enc, 0 + i - 1>>
  BY Zenon DEF Staged, Piece
<1>9. \A i \in 1 .. Len(left) : left[i] = <<enc, Len(part) + i - 1>>
  BY <1>2, Zenon DEF Piece
<1> HIDE DEF one, left, enc
<1>10. \A i \in 1 .. Len(part') : part'[i] = <<enc, 0 + i - 1>>
  <2>1. ASSUME NEW i \in 1 .. Len(part')
        PROVE  part'[i] = <<enc, 0 + i - 1>>
    <3>1. CASE i \in 1 .. Len(part)
      BY <1>1, <1>6, <1>8, <3>1, Zenon
    <3>2. CASE i = Len(part) + 1
      <4>1. 0 + i - 1 = Len(part) + 1 - 1
        BY <1>5, <3>2, SMT
      <4> QED
        BY <1>1, <1>6, <1>7, <3>2, <4>1, Zenon
    <3> QED
      BY <1>1, <1>6, <2>1, <3>1, <3>2, Zenon
  <2> QED
    BY <2>1, Zenon
<1>11. \A i \in 1 .. Len(Tail(left)) : Tail(left)[i] = <<enc, Len(part') + i - 1>>
  <2>1. ASSUME NEW i \in 1 .. Len(Tail(left))
        PROVE  Tail(left)[i] = <<enc, Len(part') + i - 1>>
    <3>1. Len(part') + i - 1 = Len(part) + (i + 1) - 1
      <4>1. Len(part') = Len(part) + 1 /\ i \in Int
        BY <1>1, <1>5, <1>6, <2>1, SMTT(40)
      <4> QED
        BY <1>5, <4>1, SMT
    <3>2. i + 1 \in 1 .. Len(left) /\ Tail(left)[i] = left[i + 1]
      BY <1>5, <2>1, Zenon
    <3> QED
      BY <1>9, <3>1, <3>2, Zenon
  <2> QED
    BY <2>1, Zenon
<1>12. /\ Len(part') <= stream.size
       /\ Len(part') + Len(Tail(left)) = Len(part) + Len(left)
  BY <1>1, <1>2, <1>4, <1>5, <1>6, SMTT(40)
<1>13. Staged(StreamOf[u])'
  BY <1>10, <1>12, Zenon DEF Staged, Piece, enc
<1>14. /\ handler'[c].stream = stream /\ handler'[c].chunk = handler[c].chunk
       /\ meta' = handler'[c].state /\ handler'[c].state.stream = handler'[c].stream
  BY <1>1, <1>2, Zenon DEF SameWork
<1>15. /\ handler'[c].state.offset + Len(handler'[c].chunk) = Len(part') + Len(handler'[c].left)
       /\ Piece(handler'[c].left, handler'[c].stream, Len(part'))
       /\ Len(part') + Len(handler'[c].left) <= handler'[c].stream.size
  BY <1>1, <1>2, <1>11, <1>12, <1>14, Zenon DEF Piece, enc
<1> QED
  BY <1>1, <1>13, <1>14, <1>15, Zenon DEF Session

\* The metadata catches up with the staged bytes.
LEMMA SessionCommits ==
  ASSUME TypeOK, NEW c \in Conns, Session(handler[c]), Commits(c)
  PROVE  /\ handler'[c].at # "none" => Session(handler[c])'
         /\ meta'.stream = handler[c].stream /\ Exact(meta)' /\ meta'.seq > 0
<1>1. /\ handler[c].at = "write" /\ handler[c].left = <<>> /\ UNCHANGED part
      /\ meta'.stream = handler[c].state.stream /\ meta'.seq = handler[c].state.seq + 1
      /\ meta'.offset = handler[c].state.offset + Len(handler[c].chunk)
  BY Zenon DEF Commits
<1>2. /\ handler[c].state.stream = handler[c].stream
      /\ handler[c].state.offset + Len(handler[c].chunk) = Len(part) + Len(handler[c].left)
  BY <1>1, Zenon DEF Session
<1>3. meta'.offset = Len(part) /\ meta'.seq > 0
  <2>1. Len(handler[c].left) = 0
    BY <1>1, SMT
  <2> QED
    BY <1>1, <1>2, <2>1, Lengths, SMTT(40)
<1>4. meta'.stream = handler[c].stream /\ Exact(meta)'
  BY <1>1, <1>2, <1>3, Zenon DEF Exact
<1>5. CASE handler'[c] = IdleHandler
  BY <1>3, <1>4, <1>5, IdleFields, Zenon
<1>6. CASE /\ handler'[c].at \in {"fin_load", "recv"} /\ handler'[c].stream = handler[c].stream
           /\ handler'[c].received = meta'.offset
  <2>1. handler'[c].received = Len(part')
    BY <1>1, <1>3, <1>6, Zenon
  <2> QED
    BY <1>3, <1>4, <1>6, <2>1, Zenon DEF Session
<1> QED
  BY <1>5, <1>6, Zenon DEF Commits

\* A handler that worked stays the only one.
LEMMA SessionMine ==
  ASSUME AloneInv, SessionInv, NEW c \in Conns, Engaged(c), OneHandler(c), Calm, seen # {},
         Lone => \A u \in seen : Staged(StreamOf[u])',
         Lone => (handler'[c].at # "none" => Session(handler[c])')
  PROVE  SessionInv'
<1>1. Lone' => Lone
  BY Zenon DEF Calm, Lone
<1>2. UNCHANGED seen
  BY Zenon DEF Calm
<1>3. ASSUME Lone', NEW d \in Conns, Engaged(d)'
      PROVE  Session(handler[d])'
  <2>1. Engaged(d)
    BY <1>3, Zenon DEF Calm
  <2>2. d = c
    BY <1>1, <1>3, <2>1, Zenon DEF AloneInv
  <2>3. handler'[c].at # "none"
    BY <1>3, <2>2, Zenon DEF Engaged, Busy
  <2> QED
    BY <1>1, <1>3, <2>2, <2>3, Zenon
<1>4. Lone' => \A u \in seen' : Staged(StreamOf[u])'
  BY <1>1, <1>2, Zenon
<1> QED
  BY <1>2, <1>3, <1>4, Zenon DEF SessionInv

\* The session files stay and no handler goes on.
LEMMA SessionStays ==
  ASSUME SessionInv, Calm, UNCHANGED <<part, meta>>,
         \A c \in Conns : Engaged(c)' => handler'[c] = handler[c]
  PROVE  SessionInv'
<1>1. Lone' => Lone
  BY Zenon DEF Calm, Lone
<1>2. UNCHANGED seen
  BY Zenon DEF Calm
<1>3. ASSUME Lone', NEW d \in Conns, Engaged(d)'
      PROVE  Session(handler[d])'
  <2>1. Engaged(d) /\ handler'[d] = handler[d]
    BY <1>3, Zenon DEF Calm
  <2>2. Session(handler[d])
    BY <1>1, <1>3, <2>1, Zenon DEF SessionInv
  <2> QED
    BY <2>1, <2>2, Zenon DEF Session, Fits, Exact
<1>4. Lone' => \A u \in seen' : Staged(StreamOf[u])'
  BY <1>1, <1>2, Zenon DEF SessionInv, Staged
<1>5. Lone' /\ seen' = {} => part' = <<>> /\ meta' = NoMeta
  BY <1>1, <1>2, Zenon DEF SessionInv
<1> QED
  BY <1>3, <1>4, <1>5, Zenon DEF SessionInv

LEMMA EmptyStaged ==
  ASSUME NEW u \in Uploaders, part' = <<>>
  PROVE  Staged(StreamOf[u])'
<1>1. Len(part') = 0 /\ 1 .. Len(part') = {}
  BY SMT
<1>2. 0 <= StreamOf[u].size
  BY StreamTyped, SMT
<1> QED
  BY <1>1, <1>2, Zenon DEF Staged, Piece

LEMMA SessionHandler ==
  ASSUME TypeOK, AloneInv, WireInv, SessionInv, NEW c \in Conns, HandlerEffect(c)
  PROVE  SessionInv'
<1>1. HandlerFrame(c) /\ OneHandler(c) /\ Calm /\ (handler'[c].at # "none" => Engaged(c))
  BY HandlerCalm, Zenon DEF HandlerEffect, HandlerFrame
<1>2. seen \subseteq Uploaders
  BY Zenon DEF TypeOK
<1>3. CASE Quits(c)
  <2>1. \A d \in Conns : Engaged(d)' => handler'[d] = handler[d]
    <3>1. ~Engaged(c)'
      BY <1>3, IdleFields, Zenon DEF Quits, Engaged, Busy
    <3> QED
      BY <1>1, <3>1, Zenon DEF OneHandler
  <2>2. UNCHANGED <<part, meta>>
    BY <1>3, Zenon DEF Quits, fileVars
  <2> QED
    BY <1>1, <2>1, <2>2, SessionStays, Zenon
<1>4. CASE Starts(c)
  <2>1. /\ UNCHANGED <<part, meta>> /\ handler[c].at = "init" /\ handler'[c].at # "none"
        /\ handler'[c].at \notin {"none", "init"}
    BY <1>4, Zenon DEF Starts, fileVars
  <2>2. StreamSeen(c)'
    BY <1>1, StreamKept, Zenon DEF Calm
  <2>3. PICK u \in seen : TRUE
    BY <1>1, <2>1, <2>2, Zenon DEF StreamSeen, Calm
  <2>4. Lone => \A v \in seen : Staged(StreamOf[v])'
    BY <2>1, Zenon DEF SessionInv, Staged
  <2>5. Lone => Session(handler[c])'
    <3>1. Lone => Session(handler[c])
      BY <1>1, <2>1, Zenon DEF SessionInv
    <3> QED
      BY <1>4, <3>1, SessionTakes, Zenon
  <2> QED
    BY <1>1, <2>1, <2>3, <2>4, <2>5, SessionMine, Zenon
<1>5. CASE handler[c].at \notin {"none", "init"} /\ Engaged(c) /\ ~Quits(c) /\ ~Starts(c)
  <2>1. PICK u \in seen : handler[c].stream = StreamOf[u]
    BY <1>5, Zenon DEF WireInv
  <2>2. u \in Uploaders
    BY <1>2, Zenon
  <2>3. SUFFICES ASSUME Lone
                 PROVE  /\ Staged(StreamOf[u])'
                        /\ handler'[c].at # "none" => Session(handler[c])'
    <3>1. Lone => \A v \in seen : v = u
      BY Zenon DEF Lone
    <3> QED
      BY <1>1, <1>5, <2>3, <3>1, SessionMine, Zenon
  <2>4. Session(handler[c]) /\ Staged(StreamOf[u])
    BY <1>5, <2>3, Zenon DEF SessionInv
  <2>5. UNCHANGED part => Staged(StreamOf[u])'
    BY <2>4, Zenon DEF Staged
  <2>6. CASE Loads(c) \/ Discards(c) \/ Stats(c) \/ Finalizes(c) \/ Stores(c) \/ Removes(c)
    <3>1. UNCHANGED part
      BY <2>6, Zenon DEF Loads, Discards, Stats, Finalizes, Stores, Removes, fileVars
    <3> QED
      BY <2>1, <2>2, <2>4, <2>5, <2>6, <3>1, SessionGoesOn, ZenonT(60)
  <2>7. CASE Receives(c)
    <3>1. UNCHANGED part
      BY <2>7, Zenon DEF Receives, fileVars
    <3> QED
      BY <2>1, <2>3, <2>4, <2>5, <2>7, <3>1, SessionTakes, ZenonT(60)
  <2>8. CASE Saves(c)
    <3>1. UNCHANGED part
      BY <2>8, Zenon DEF Saves
    <3> QED
      BY <2>4, <2>5, <2>8, <3>1, SessionSaves, Zenon
  <2>9. CASE Writes(c)
    BY <2>1, <2>2, <2>4, <2>9, SessionWrites, Zenon
  <2>10. CASE Commits(c)
    <3>1. UNCHANGED part
      BY <2>10, Zenon DEF Commits
    <3> QED
      BY <2>4, <2>5, <2>10, <3>1, SessionCommits, Zenon
  <2>11. CASE Clears(c)
    <3>1. part' = <<>> /\ handler'[c].at = "none"
      BY <2>11, IdleFields, Zenon DEF Clears
    <3> QED
      BY <2>2, <3>1, EmptyStaged, Zenon
  <2> QED
    BY <1>5, <2>6, <2>7, <2>8, <2>9, <2>10, <2>11, ZenonT(60) DEF HandlerEffect
<1>6. ~Quits(c) /\ ~Starts(c) => handler[c].at \notin {"none", "init"} /\ Engaged(c)
  <2>1. ~Quits(c) /\ ~Starts(c) => handler[c].at \notin {"none", "init"}
    BY Zenon DEF HandlerEffect, Receives, Loads, Discards, Stats, Saves, Writes, Commits, Finalizes,
       Stores, Removes, Clears
  <2>2. ~Quits(c) /\ ~Starts(c) => handler[c].at # "recv" \/ handler'[c].at # "none"
    BY Zenon DEF HandlerEffect, Receives, Loads, Discards, Stats, Saves, Writes, Commits, Finalizes,
       Stores, Removes, Clears
  <2> QED
    BY <1>1, <2>1, <2>2, Zenon DEF Engaged, Busy
<1> QED
  BY <1>3, <1>4, <1>5, <1>6, Zenon

LEMMA SessionStep ==
  ASSUME TypeOK, AloneInv, WireInv, SessionInv, Moves
  PROVE  SessionInv'
<1>1. ASSUME NEW u \in Uploaders, ClientEffect(u),
             AsksOnly(u) \/ \E c \in Conns : Sends(u, c) \/ Leaves(u, c)
      PROVE  SessionInv'
  <2>1. OneClient(u) /\ UNCHANGED <<part, meta>>
    BY <1>1, Zenon DEF ClientEffect, fileVars
  <2>2. Calm /\ UNCHANGED handler
    BY <1>1, <2>1, ClientCalm, Zenon
  <2> QED
    BY <2>1, <2>2, SessionStays, Zenon
<1>2. ASSUME NEW u \in Uploaders, NEW c \in Conns, ClientEffect(u), Connects(u, c)
      PROVE  SessionInv'
  <2>1. OneClient(u) /\ UNCHANGED <<part, meta>> /\ seen' = seen \cup {u} /\ handler'[c].at = "init"
    BY <1>2, Zenon DEF ClientEffect, Connects, fileVars
  <2>2. SUFFICES ASSUME Lone'
                 PROVE  /\ \A v \in seen' : Staged(StreamOf[v])'
                        /\ \A d \in Conns : Engaged(d)' => Session(handler[d])'
    BY <2>1, Zenon DEF SessionInv
  <2>3. Lone /\ (\A v \in seen : v = u) /\ (\A d \in Conns : Engaged(d)' => d = c)
    BY <1>2, <2>1, <2>2, ConnectAlone, Zenon
  <2>4. Session(handler[c])'
    BY <2>1, Zenon DEF Session
  <2>5. Staged(StreamOf[u])'
    <3>1. CASE u \in seen
      BY <2>1, <2>3, <3>1, Zenon DEF SessionInv, Staged
    <3>2. CASE u \notin seen
      <4>1. seen = {}
        BY <2>3, <3>2, Zenon
      <4>2. part' = <<>>
        BY <2>1, <2>3, <4>1, Zenon DEF SessionInv
      <4> QED
        BY <4>2, EmptyStaged, Zenon
    <3> QED
      BY <3>1, <3>2, Zenon
  <2> QED
    BY <2>1, <2>3, <2>4, <2>5, Zenon
<1>3. ASSUME NEW c \in Conns, HandlerEffect(c)
      PROVE  SessionInv'
  BY <1>3, SessionHandler, Zenon
<1>4. CASE FaultFrame
  <2>1. UNCHANGED <<part, meta>>
    BY <1>4, Zenon DEF FaultFrame, fileVars
  <2> QED
    BY <1>4, <2>1, FaultCalm, SessionStays, Zenon
<1>5. CASE UNCHANGED vars
  <2>1. UNCHANGED <<part, meta, handler>> /\ Calm
    BY <1>5, Zenon DEF vars, Calm, Engaged, Busy, Connected
  <2> QED
    BY <2>1, SessionStays, Zenon
<1> QED
  BY <1>1, <1>2, <1>3, <1>4, <1>5, Zenon DEF Moves, ClientEffect

(***************************************************************************)
(* Between two changes the session can be resumed.                         *)
(***************************************************************************)
Settled == /\ Lone /\ faults.crash = 0 /\ faults.write = 0
           /\ \A c \in Conns : handler[c].at \notin {"write", "rm_meta", "rm_part"}

LEMMA SettledStays ==
  ASSUME SettledInv, Settled' => Settled, UNCHANGED <<part, meta, seen>>
  PROVE  SettledInv'
<1>1. Settled => \A u \in seen : Resumable(StreamOf[u])
  BY Zenon DEF SettledInv, Settled
<1>2. \A u \in seen : Resumable(StreamOf[u]) => Resumable(StreamOf[u])'
  BY Zenon DEF Resumable
<1>3. Settled' => \A u \in seen' : Resumable(StreamOf[u])'
  BY <1>1, <1>2, Zenon
<1> QED
  BY <1>3, Zenon DEF SettledInv, Settled

\* Metadata that describes the staged bytes of the stream can be resumed.
LEMMA ExactResumes ==
  ASSUME TypeOK', NEW u \in Uploaders, meta'.stream = StreamOf[u], Exact(meta)', Staged(StreamOf[u])'
  PROVE  Resumable(StreamOf[u])'
  BY Zenon DEF Exact, Staged, Resumable

LEMMA SettledHandler ==
  ASSUME TypeOK, TypeOK', AloneInv, WireInv, SessionInv, SessionInv', SettledInv,
         NEW c \in Conns, HandlerEffect(c)
  PROVE  SettledInv'
<1>1. /\ OneHandler(c) /\ UNCHANGED <<overlap, seen>>
      /\ UNCHANGED faults \/ faults'.write # 0
  BY Zenon DEF HandlerEffect, HandlerFrame
<1>2. Lone' => Lone
  BY <1>1, Zenon DEF Lone
<1>3. seen \subseteq Uploaders
  BY Zenon DEF TypeOK
<1>4. ASSUME UNCHANGED <<part, meta>>, Settled' => handler[c].at \notin {"write", "rm_meta", "rm_part"}
      PROVE  SettledInv'
  <2>1. Settled' => Settled
    BY <1>1, <1>2, <1>4, Zenon DEF Settled, OneHandler
  <2> QED
    BY <1>1, <1>4, <2>1, SettledStays, Zenon
<1>5. CASE Quits(c)
  <2>1. UNCHANGED <<part, meta>> /\ handler[c].at \notin {"rm_meta", "rm_part"}
        /\ (handler[c].at = "write" => faults'.write # 0)
    BY <1>5, Zenon DEF Quits, fileVars
  <2>2. Settled' => handler[c].at # "write"
    BY <2>1, Zenon DEF Settled
  <2> QED
    BY <1>4, <2>1, <2>2, Zenon
<1>6. CASE Starts(c) \/ Receives(c) \/ Loads(c) \/ Discards(c) \/ Stats(c) \/ Finalizes(c) \/ Stores(c)
  <2>1. UNCHANGED <<part, meta>> /\ handler[c].at \notin {"write", "rm_meta", "rm_part"}
    BY <1>6, Zenon DEF Starts, Receives, Loads, Discards, Stats, Finalizes, Stores, fileVars
  <2> QED
    BY <1>4, <2>1, Zenon
<1>7. CASE Writes(c) \/ Removes(c)
  <2>1. ~Settled'
    BY <1>7, Zenon DEF Writes, Removes, Settled
  <2> QED
    BY <2>1, Zenon DEF SettledInv, Settled
<1>8. CASE Saves(c) \/ Commits(c) \/ Clears(c)
  <2>1. handler[c].at \in {"save", "write", "rm_part"}
    BY <1>8, Zenon DEF Saves, Commits, Clears
  <2>2. Engaged(c)
    BY <2>1, Zenon DEF Engaged, Busy
  <2>3. SUFFICES ASSUME Lone', NEW u \in seen
                 PROVE  Resumable(StreamOf[u])'
    BY <1>1, Zenon DEF SettledInv
  <2>4. u \in Uploaders /\ Lone /\ Session(handler[c]) /\ Staged(StreamOf[u])'
    BY <1>1, <1>2, <1>3, <2>2, <2>3, Zenon DEF SessionInv
  <2>5. handler[c].stream = StreamOf[u]
    <3>1. PICK v \in seen : handler[c].stream = StreamOf[v]
      BY <2>1, Zenon DEF WireInv
    <3>2. v = u
      BY <2>4, Zenon DEF Lone
    <3> QED
      BY <3>1, <3>2, Zenon
  <2>6. CASE Saves(c) \/ Commits(c)
    <3>1. meta'.stream = handler[c].stream /\ Exact(meta)'
      BY <2>4, <2>6, SessionSaves, SessionCommits, Zenon
    <3> QED
      BY <2>4, <2>5, <3>1, ExactResumes, Zenon
  <2>7. CASE Clears(c)
    <3>1. part' = <<>> /\ meta' = meta /\ handler[c].at = "rm_part"
      BY <2>7, Zenon DEF Clears
    <3>2. meta = NoMeta
      BY <2>4, <3>1, Zenon DEF Session
    <3> QED
      BY <3>1, <3>2, Zenon DEF Resumable
  <2> QED
    BY <1>8, <2>6, <2>7, Zenon
<1> QED
  BY <1>5, <1>6, <1>7, <1>8, Zenon DEF HandlerEffect

LEMMA SettledStep ==
  ASSUME TypeOK, TypeOK', AloneInv, WireInv, SessionInv, SessionInv', SettledInv, Moves
  PROVE  SettledInv'
<1>1. ASSUME NEW u \in Uploaders, ClientEffect(u),
             AsksOnly(u) \/ \E c \in Conns : Sends(u, c) \/ Leaves(u, c)
      PROVE  SettledInv'
  <2>1. OneClient(u) /\ UNCHANGED <<part, meta>>
    BY <1>1, Zenon DEF ClientEffect, fileVars
  <2>2. UNCHANGED <<overlap, seen, handler>>
    BY <1>1, <2>1, ClientCalm, Zenon DEF Calm
  <2>3. faults'.crash = faults.crash /\ faults'.write = faults.write
    BY <1>1, Zenon DEF AsksOnly, Sends, Leaves, historyVars
  <2>4. Settled' => Settled
    BY <2>2, <2>3, Zenon DEF Settled, Lone
  <2> QED
    BY <2>1, <2>2, <2>4, SettledStays, Zenon
<1>2. ASSUME NEW u \in Uploaders, NEW c \in Conns, ClientEffect(u), Connects(u, c)
      PROVE  SettledInv'
  <2>1. /\ OneClient(u) /\ UNCHANGED <<part, meta, faults>> /\ seen' = seen \cup {u}
        /\ handler[c].at = "none" /\ OneHandler(c)
    BY <1>2, Zenon DEF ClientEffect, Connects, Unused, fileVars
  <2>2. SUFFICES ASSUME Settled', NEW v \in seen'
                 PROVE  Resumable(StreamOf[v])'
    BY Zenon DEF SettledInv, Settled
  <2>3. Lone /\ \A w \in seen : w = u
    BY <1>2, <2>1, <2>2, ConnectAlone, Zenon DEF Settled
  <2>4. Settled
    BY <2>1, <2>2, <2>3, Zenon DEF Settled, OneHandler
  <2>5. CASE v \in seen
    BY <2>1, <2>4, <2>5, Zenon DEF SettledInv, Settled, Resumable
  <2>6. CASE v \notin seen
    <3>1. seen = {}
      BY <2>1, <2>2, <2>3, <2>6, Zenon
    <3>2. part' = <<>> /\ meta' = NoMeta
      BY <2>1, <2>3, <3>1, Zenon DEF SessionInv
    <3> QED
      BY <3>2, Zenon DEF Resumable
  <2> QED
    BY <2>5, <2>6, Zenon
<1>3. ASSUME NEW c \in Conns, HandlerEffect(c)
      PROVE  SettledInv'
  BY <1>3, SettledHandler, Zenon
<1>4. CASE FaultFrame
  <2>1. UNCHANGED <<part, meta, overlap, seen>>
    BY <1>4, Zenon DEF FaultFrame, fileVars
  <2>2. Settled' => Settled
    <3>1. faults'.write = faults.write /\ (faults'.crash = 0 => faults.crash = 0)
          /\ \A c \in Conns : handler'[c] = handler[c] \/ faults'.crash # 0
      BY <1>4, Zenon DEF FaultFrame
    <3> QED
      BY <2>1, <3>1, Zenon DEF Settled, Lone
  <2> QED
    BY <2>1, <2>2, SettledStays, Zenon
<1>5. CASE UNCHANGED vars
  <2>1. UNCHANGED <<part, meta, seen>> /\ (Settled' => Settled)
    BY <1>5, Zenon DEF vars, Settled, Lone
  <2> QED
    BY <2>1, SettledStays, Zenon
<1> QED
  BY <1>1, <1>2, <1>3, <1>4, <1>5, Zenon DEF Moves, ClientEffect

(***************************************************************************)
(* Only a stored blob is said to be stored.                                *)
(***************************************************************************)
\* upload_complete on its way to a client, and a handler about to send it.
Told(c) == \E i \in 1 .. Len(toClient[c]) : toClient[c][i].type = "upload_complete"
Telling(c) == \/ handler[c].at = "index"
              \/ handler[c].at \in {"rm_meta", "rm_part"} /\ handler[c].goal = "complete"

LEMMA StoreParts ==
  StoreInv <=> /\ \A u \in Uploaders : client[u].at = "done" => blob # "absent"
               /\ \A c \in Conns : Told(c) => blob # "absent"
               /\ \A c \in Conns : Telling(c) => blob # "absent"
  BY Zenon DEF StoreInv, Told, Telling

\* The frames of a connection to a client change by one.
LEMMA ToldStep ==
  ASSUME NEW c \in Conns, toClient[c] \in Seq(ReplyType), Told(c)',
         \/ toClient'[c] = toClient[c]
         \/ toClient'[c] = <<>>
         \/ toClient[c] # <<>> /\ toClient'[c] = Tail(toClient[c])
  PROVE  Told(c)
<1>1. PICK i \in 1 .. Len(toClient'[c]) : toClient'[c][i].type = "upload_complete"
  BY Zenon DEF Told
<1>2. CASE toClient'[c] = toClient[c]
  BY <1>1, <1>2, Zenon DEF Told
<1>3. CASE toClient'[c] = <<>>
  <2>1. 1 .. Len(toClient'[c]) = {}
    BY <1>3, SMT
  <2> QED
    BY <1>1, <2>1, Zenon
<1>4. CASE toClient[c] # <<>> /\ toClient'[c] = Tail(toClient[c])
  <2>1. i + 1 \in 1 .. Len(toClient[c]) /\ toClient'[c][i] = toClient[c][i + 1]
    BY <1>1, <1>4, SeqParts, ZenonT(60)
  <2> QED
    BY <1>1, <2>1, Zenon DEF Told
<1> QED
  BY <1>2, <1>3, <1>4, Zenon

LEMMA ToldMore ==
  ASSUME NEW c \in Conns, toClient[c] \in Seq(ReplyType), Told(c)', NEW frame \in ReplyType,
         toClient'[c] = Append(toClient[c], frame)
  PROVE  Told(c) \/ frame.type = "upload_complete"
<1>1. PICK i \in 1 .. Len(toClient'[c]) : toClient'[c][i].type = "upload_complete"
  BY Zenon DEF Told
<1>2. (i \in 1 .. Len(toClient[c]) /\ toClient'[c][i] = toClient[c][i]) \/ toClient'[c][i] = frame
  <2> HIDE DEF ReplyType
  <2> QED
    BY <1>1, SMT
<1> QED
  BY <1>1, <1>2, Zenon DEF Told

LEMMA StoreStep ==
  ASSUME TypeOK, StoreInv, Moves
  PROVE  StoreInv'
<1> DEFINE safe == /\ \A u \in Uploaders : client'[u].at = "done" => blob' # "absent"
                   /\ \A c \in Conns : Told(c)' => blob' # "absent"
                   /\ \A c \in Conns : Telling(c)' => blob' # "absent"
<1>1. SUFFICES safe
  BY Zenon DEF StoreInv, Told, Telling
<1>2. /\ \A u \in Uploaders : client[u].at = "done" => blob # "absent"
      /\ \A c \in Conns : Told(c) => blob # "absent"
      /\ \A c \in Conns : Telling(c) => blob # "absent"
  BY StoreParts, Zenon
<1>3. \A c \in Conns : toClient[c] \in Seq(ReplyType)
  BY Zenon DEF TypeOK
<1>4. ASSUME NEW u \in Uploaders, ClientEffect(u)
      PROVE  safe
  <2>1. OneClient(u) /\ UNCHANGED blob
    BY <1>4, Zenon DEF ClientEffect, fileVars
  <2>2. client'[u].at = "done" => blob # "absent"
    <3>1. ASSUME NEW c \in Conns, Leaves(u, c), client'[u].at = "done"
          PROVE  blob # "absent"
      <4>1. toClient[c] # <<>> /\ Head(toClient[c]).type = "upload_complete"
        BY <3>1, Zenon DEF Leaves
      <4>2. 1 \in 1 .. Len(toClient[c]) /\ toClient[c][1].type = "upload_complete"
        BY <1>3, <4>1, SeqParts, Zenon
      <4> QED
        BY <1>2, <4>2, Zenon DEF Told
    <3>2. ASSUME NEW c \in Conns, Connects(u, c) \/ Sends(u, c)
          PROVE  client'[u].at # "done"
      BY <3>2, Zenon DEF Connects, Sends
    <3> QED
      BY <1>4, <3>1, <3>2, Zenon DEF ClientEffect, AsksOnly
  <2>3. ASSUME NEW d \in Conns
        PROVE  /\ handler'[d] = handler[d] \/ handler'[d].at = "init"
               /\ \/ toClient'[d] = toClient[d]
                  \/ toClient'[d] = <<>>
                  \/ toClient[d] # <<>> /\ toClient'[d] = Tail(toClient[d])
    BY <1>4, <2>3, Zenon DEF ClientEffect, AsksOnly, Connects, Sends, Leaves, netVars, OneHandler
  <2>4. \A d \in Conns : Telling(d)' => Telling(d)
    BY <2>3, Zenon DEF Telling
  <2>5. \A d \in Conns : Told(d)' => Told(d)
    BY <1>3, <2>3, ToldStep, Zenon
  <2>6. \A v \in Uploaders : client'[v].at = "done" => blob' # "absent"
    BY <1>2, <2>1, <2>2, Zenon DEF OneClient
  <2> QED
    BY <1>2, <2>1, <2>4, <2>5, <2>6, ZenonT(60)
<1>5. ASSUME NEW c \in Conns, HandlerEffect(c)
      PROVE  safe
  <2>1. /\ OneHandler(c) /\ UNCHANGED client /\ Answers(c)
        /\ \A d \in Conns \ {c} : toClient'[d] = toClient[d]
    BY <1>5, Zenon DEF HandlerEffect, HandlerFrame
  <2>2. blob # "absent" => blob' # "absent"
    BY <1>5, Zenon DEF HandlerEffect, Quits, Starts, Receives, Loads, Discards, Stats, Saves, Writes, Commits,
       Finalizes, Stores, Removes, Clears, fileVars
  <2>3. Telling(c)' => blob' # "absent"
    <3>1. CASE Starts(c) \/ Stores(c)
      BY <2>2, <3>1, Zenon DEF Starts, Stores, Telling
    <3>2. CASE Removes(c)
      <4>1. Telling(c)' => Telling(c)
        BY <3>2, Zenon DEF Removes, SameWork, Telling
      <4> QED
        BY <1>2, <2>2, <4>1, Zenon
    <3>3. CASE ~Starts(c) /\ ~Stores(c) /\ ~Removes(c)
      <4>1. ~Telling(c)'
        BY <1>5, <3>3, IdleFields, Zenon DEF HandlerEffect, Quits, Receives, Loads, Discards, Stats, Saves,
           Writes, Commits, Finalizes, Clears, Telling
      <4> QED
        BY <4>1, Zenon
    <3> QED
      BY <3>1, <3>2, <3>3, Zenon
  <2>4. Told(c)' => blob' # "absent"
    <3>1. CASE toClient'[c] = toClient[c]
      BY <1>2, <1>3, <2>2, <3>1, ToldStep, Zenon
    <3>2. ASSUME NEW frame \in ReplyType, toClient'[c] = Append(toClient[c], frame),
                 frame.type = "upload_complete" =>
                   handler[c].at = "rm_part" /\ handler[c].goal = "complete"
          PROVE  Told(c)' => blob' # "absent"
      <4>1. frame.type = "upload_complete" => Telling(c)
        BY <3>2, Zenon DEF Telling
      <4>2. Told(c)' => Told(c) \/ frame.type = "upload_complete"
        BY <1>3, <3>2, ToldMore, Zenon
      <4> QED
        BY <1>2, <2>2, <4>1, <4>2, Zenon
    <3> QED
      BY <2>1, <3>1, <3>2, Zenon DEF Answers
  <2>5. \A d \in Conns \ {c} : (Told(d)' => Told(d)) /\ (Telling(d)' => Telling(d))
    BY <2>1, Zenon DEF Told, Telling, OneHandler
  <2>6. \A d \in Conns : (Told(d)' => blob' # "absent") /\ (Telling(d)' => blob' # "absent")
    BY <1>2, <2>2, <2>3, <2>4, <2>5, Zenon
  <2> QED
    BY <1>2, <2>1, <2>2, <2>6, Zenon
<1>6. CASE FaultFrame
  <2>1. /\ UNCHANGED <<client, blob>>
        /\ \A c \in Conns : handler'[c] = handler[c] \/ handler'[c].at = "none"
        /\ \A c \in Conns : toClient'[c] = toClient[c] \/ toClient'[c] = <<>>
    BY <1>6, Zenon DEF FaultFrame, fileVars
  <2>2. \A c \in Conns : (Told(c)' => Told(c)) /\ (Telling(c)' => Telling(c))
    BY <1>3, <2>1, ToldStep, Zenon DEF Telling
  <2> QED
    BY <1>2, <2>1, <2>2, Zenon
<1>7. CASE UNCHANGED vars
  BY <1>2, <1>7, Zenon DEF vars, Told, Telling
<1> QED
  BY <1>4, <1>5, <1>6, <1>7, Zenon DEF Moves

(***************************************************************************)
(* The initial states.                                                     *)
(***************************************************************************)
LEMMA InitIInv ==
  ASSUME Init
  PROVE  IInv
<1>1. PICK holders \in SUBSET Uploaders :
         client = [u \in Uploaders |->
                     [at |-> IF u \in holders THEN "query" ELSE "idle",
                      conn |-> NoConn, attempt |-> 1, try |-> 1,
                      seq |-> 0, offset |-> 0, policy |-> NewPolicy]]
  BY Zenon DEF Init
<1>2. /\ open = [c \in Conns |-> FALSE] /\ toServer = [c \in Conns |-> <<>>]
      /\ toClient = [c \in Conns |-> <<>>] /\ handler = [c \in Conns |-> IdleHandler]
      /\ part = <<>> /\ meta = NoMeta /\ blob = "absent" /\ overlap = FALSE /\ seen = {}
      /\ faults = [drop |-> 0, unsent |-> 0, timeout |-> 0, crash |-> 0, write |-> 0,
                   corrupt |-> 0]
  BY Zenon DEF Init
<1>3. ASSUME NEW u \in Uploaders
      PROVE  /\ client[u] \in ClientType /\ client[u].conn = NoConn
             /\ client[u].at \in {"idle", "query"}
  <2> DEFINE at == IF u \in holders THEN "query" ELSE "idle"
             rec == [at |-> at, conn |-> NoConn, attempt |-> 1, try |-> 1,
                     seq |-> 0, offset |-> 0, policy |-> NewPolicy]
  <2>1. client[u] = rec
    BY <1>1, Zenon
  <2>2. at \in {"idle", "query"}
    BY Zenon
  <2>3. 1 \in 1 .. MaxAttempts /\ 1 \in 1 .. MaxTries /\ 0 \in Nat
    BY RetryAssumption, SMT
  <2> HIDE DEF at
  <2>4. rec \in ClientType /\ rec.conn = NoConn /\ rec.at = at
    BY <2>2, <2>3, NewPolicyTyped, Zenon DEF ClientType, Policies
  <2> QED
    BY <2>1, <2>2, <2>4, Zenon
<1>4. TypeOK
  <2>1. client \in [Uploaders -> ClientType]
    BY <1>1, <1>3, Zenon
  <2>2. <<>> \in Seq(FrameType) /\ <<>> \in Seq(ReplyType) /\ <<>> \in UnitSeq
    BY SMT DEF UnitSeq
  <2>3. faults \in [{"drop", "unsent", "timeout", "crash", "write", "corrupt"} -> Nat]
    BY <1>2, SMT
  <2> QED
    BY <1>2, <2>1, <2>2, <2>3, IdleTyped, MetaTyped, ZenonT(60) DEF TypeOK
<1>5. \A c \in Conns : handler[c].at = "none" /\ toServer[c] = <<>> /\ toClient[c] = <<>>
  BY <1>2, IdleFields, Zenon
<1>6. \A c \in Conns : ~Engaged(c)
  BY <1>5, Zenon DEF Engaged, Busy
<1>7. 1 .. Len(<<>>) = {}
  BY SMT
<1>8. WaitingInv
  BY <1>3, Zenon DEF WaitingInv, Waiting
<1>9. AloneInv
  BY <1>6, Zenon DEF AloneInv
<1>10. WireInv
  BY <1>3, <1>5, <1>7, Zenon DEF WireInv
<1>11. SessionInv
  BY <1>2, <1>6, Zenon DEF SessionInv
<1>12. SettledInv
  BY <1>2, Zenon DEF SettledInv
<1>13. StoreInv
  BY <1>3, <1>5, <1>7, Zenon DEF StoreInv
<1> QED
  BY <1>4, <1>8, <1>9, <1>10, <1>11, <1>12, <1>13, ZenonT(60) DEF IInv

LEMMA NextIInv ==
  ASSUME IInv, [Next]_vars
  PROVE  IInv'
<1>1. /\ TypeOK /\ WaitingInv /\ AloneInv /\ WireInv /\ SessionInv /\ SettledInv /\ StoreInv
  BY Zenon DEF IInv
<1>2. TypeOK' /\ Moves
  BY <1>1, NextMoves, Zenon
<1>3. WaitingInv' /\ AloneInv' /\ WireInv'
  BY <1>1, <1>2, WaitingStep, AloneStep, WireStep, Zenon
<1>4. SessionInv'
  BY <1>1, <1>2, SessionStep, Zenon
<1>5. SettledInv' /\ StoreInv'
  BY <1>1, <1>2, <1>4, SettledStep, StoreStep, Zenon
<1> QED
  BY <1>2, <1>3, <1>4, <1>5, ZenonT(60) DEF IInv

(***************************************************************************)
(* The results.                                                            *)
(***************************************************************************)
\* The inductive invariant of the upload: while the connections to a digest do not
\* overlap, one handler works on the session files and they agree with its locals
\* across every await; whoever says upload_complete has stored the blob.
THEOREM UploadInvariance == Spec => []IInv
<1>1. Init => IInv
  BY InitIInv, Zenon
<1>2. IInv /\ [Next]_vars => IInv'
  BY NextIInv, Zenon
<1> QED
  BY <1>1, <1>2, PTL DEF Spec

\* The inductive invariant gives the three promises in every state.
LEMMA PromisesHold ==
  ASSUME IInv
  PROVE  CompleteMeansStored /\ StagedInOrder /\ LoneResumable
<1>1. TypeOK /\ SessionInv /\ SettledInv /\ StoreInv /\ seen \subseteq Uploaders
  BY Zenon DEF IInv, TypeOK
<1>2. CompleteMeansStored
  BY <1>1, Zenon DEF StoreInv, CompleteMeansStored
<1>3. StagedInOrder
  <2>1. SUFFICES ASSUME Lone, NEW u \in seen, NEW i \in 1 .. Len(part)
                 PROVE  i <= StreamOf[u].size /\ part[i] = Content(StreamOf[u])[i]
    BY Zenon DEF StagedInOrder
  <2>3. Len(part) <= StreamOf[u].size /\ part[i] = <<StreamOf[u].encoding, 0 + i - 1>>
    BY <1>1, <2>1, Zenon DEF SessionInv, Staged, Piece
  <2>4. StreamOf[u].size \in Nat
    BY <1>1, StreamTyped, Zenon
  <2>5. Len(part) \in Nat
    <3>1. part \in UnitSeq
      BY <1>1, Zenon DEF TypeOK
    <3> QED
      BY <3>1, SeqParts, Zenon DEF UnitSeq
  <2>6. i <= StreamOf[u].size /\ i \in 1 .. StreamOf[u].size
    BY <2>3, <2>4, <2>5, SMT
  <2>7. Content(StreamOf[u])[i] = <<StreamOf[u].encoding, 0 + i - 1>>
    BY <2>6, Zenon DEF Content, Units
  <2> QED
    BY <2>3, <2>6, <2>7, Zenon
<1>4. LoneResumable
  <2>1. (\A c \in Conns : ~Busy(c))
           => \A c \in Conns : handler[c].at \notin {"write", "rm_meta", "rm_part"}
    BY Zenon DEF Busy
  <2> QED
    BY <1>1, <2>1, Zenon DEF LoneResumable, SettledInv
<1> QED
  BY <1>2, <1>3, <1>4, ZenonT(60)

\* A client that was told upload_complete, or that the blob is not missing, can rely
\* on it, for every number of clients, connections, retries and faults.
THEOREM CompleteMeansStoredHolds == Spec => []CompleteMeansStored
<1>1. IInv => CompleteMeansStored
  BY PromisesHold, Zenon
<1> QED
  BY <1>1, UploadInvariance, PTL

\* append_blob_upload_chunk keeps the staged file a beginning of the stream, whatever
\* crashes and failed writes cut a chunk short, while handlers do not overlap.
THEOREM StagedInOrderHolds == Spec => []StagedInOrder
<1>1. IInv => StagedInOrder
  BY PromisesHold, Zenon
<1> QED
  BY <1>1, UploadInvariance, PTL

\* After broken connections and damaged frames alone, prepare_blob_upload_session
\* accepts the session files that are left.
THEOREM LoneResumableHolds == Spec => []LoneResumable
<1>1. IInv => LoneResumable
  BY PromisesHold, Zenon
<1> QED
  BY <1>1, UploadInvariance, PTL

=============================================================================
