----------------------------- MODULE BlobUpload -----------------------------
(***************************************************************************)
(* The resumable upload of one snapshot blob over a WebSocket: the client  *)
(* loop with its reconnects and retries, the server's handler, and the     *)
(* session files <digest>.part and <digest>.json that survive both.        *)
(*                                                                         *)
(* Uploads of different digests share no state, so one digest is enough.   *)
(* Several clients may upload it, and a client that gave up on a           *)
(* connection leaves behind a handler that still runs: nothing in the      *)
(* server keeps two handlers of a digest apart.                            *)
(*                                                                         *)
(* Bytes are counted in units. A unit of the stream is the pair of its     *)
(* encoding and its position, so the staged file shows what was written    *)
(* and in which order. The units of one write may interleave with those of *)
(* another: tokio writes a chunk in several calls.                         *)
(*                                                                         *)
(* A definition whose name ends in _<what> is a faulty variant of the one  *)
(* it precedes; no specification here uses it.                             *)
(***************************************************************************)
EXTENDS Integers, Sequences, FiniteSets

CONSTANTS
    Uploaders,    \* clients that hold the blob
    StreamOf,     \* the stream each of them sends: its encoding and size
    MaxChunk,     \* SNAPSHOT_BLOB_DEFAULT_CHUNK_SIZE_BYTES, in units
    MinChunk,     \* SNAPSHOT_BLOB_STREAM_MIN_CHUNK_SIZE_BYTES, in units
    GrowAfter,    \* SNAPSHOT_BLOB_STREAM_GROW_AFTER_HEALTHY_ACKS
    MaxAttempts,  \* SNAPSHOT_BLOB_STREAM_MAX_CONNECTION_ATTEMPTS
    MaxTries,     \* SNAPSHOT_UPLOAD_MAX_ATTEMPTS
    MaxConns,     \* bound: handlers that exist at the same time
    MaxFaults     \* bound: how many faults happen, of all kinds together, for
                  \* each number of clients that hold the blob

Streams == {StreamOf[u] : u \in Uploaders}
Conns == 1 .. MaxConns

ASSUME StreamAssumption ==
    \A u \in Uploaders : /\ StreamOf[u].encoding \in {"raw", "zstd"}
                         /\ StreamOf[u].size \in Nat
ASSUME ChunkAssumption ==
    MinChunk \in Nat \ {0} /\ MaxChunk \in Nat /\ MinChunk <= MaxChunk
ASSUME RetryAssumption ==
    MaxAttempts \in Nat \ {0} /\ MaxTries \in Nat \ {0} /\ GrowAfter \in Nat \ {0}
ASSUME BoundAssumption ==
    /\ IsFiniteSet(Uploaders) /\ MaxConns \in Nat
    /\ MaxFaults \in [0 .. Cardinality(Uploaders) -> Nat]

VARIABLES
    client,   \* stream_upload_blob inside retry_blob_upload, per uploader
    open,     \* whether a connection is still open
    toServer, \* frames on their way to a handler
    toClient, \* frames on their way to a client
    handler,  \* handle_blob_upload_ws of each connection
    part,     \* <digest>.part, a sequence of units; empty when missing
    meta,     \* <digest>.json
    blob,     \* the store: nothing, the raw file, or the file and its metadata
    faults,   \* how often each kind of fault has happened
    overlap,  \* history: a connection was made while a handler was busy
    seen      \* history: the uploaders that ever connected

vars == <<client, open, toServer, toClient, handler, part, meta, blob, faults,
          overlap, seen>>
fileVars == <<part, meta, blob>>
netVars == <<open, toServer, toClient>>
historyVars == <<faults, overlap, seen>>

-----------------------------------------------------------------------------
Units(stream, from, count) ==
    [i \in 1 .. count |-> <<stream.encoding, from + i - 1>>]

\* The bytes whose digest the server expects, as they travel.
Content(stream) == Units(stream, 0, stream.size)

NoStream == [encoding |-> "none", size |-> 0]
NoMeta == [stream |-> NoStream, seq |-> 0, offset |-> 0]
NewMeta(stream) == [stream |-> stream, seq |-> 0, offset |-> 0]

InitFrame(stream) == [type |-> "upload_init", stream |-> stream]
ChunkFrame(seq, offset, data) ==
    [type |-> "chunk", seq |-> seq, offset |-> offset, data |-> data]
BadFrame == [type |-> "bad"]
UploadResume(seq, offset) ==
    [type |-> "upload_resume", seq |-> seq, offset |-> offset]
UploadAck(seq, offset, size, received) ==
    [type |-> "upload_ack", seq |-> seq, offset |-> offset, size |-> size,
     received |-> received]
UploadComplete == [type |-> "upload_complete"]
UploadError == [type |-> "upload_error"]

NoConn == 0
NewPolicy == [size |-> MaxChunk, streak |-> 0]

\* No handler; goal is what the handler is in the course of.
IdleHandler ==
    [at |-> "none", goal |-> "resume", stream |-> NoStream, state |-> NoMeta,
     chunk |-> <<>>, left |-> <<>>, seq |-> 0, received |-> 0]

Lower(a, b) == IF a < b THEN a ELSE b
Upper(a, b) == IF a > b THEN a ELSE b

Init ==
    /\ \E holders \in SUBSET Uploaders :
       client = [u \in Uploaders |->
                   [at |-> IF u \in holders THEN "query" ELSE "idle",
                    conn |-> NoConn, attempt |-> 1, try |-> 1,
                    seq |-> 0, offset |-> 0, policy |-> NewPolicy]]
    /\ open = [c \in Conns |-> FALSE]
    /\ toServer = [c \in Conns |-> <<>>]
    /\ toClient = [c \in Conns |-> <<>>]
    /\ handler = [c \in Conns |-> IdleHandler]
    /\ part = <<>> /\ meta = NoMeta /\ blob = "absent"
    /\ faults = [drop |-> 0, unsent |-> 0, timeout |-> 0, crash |-> 0, write |-> 0,
                 corrupt |-> 0]
    /\ overlap = FALSE /\ seen = {}

\* One more fault of a kind.
Fault(kind) ==
    /\ faults.drop + faults.unsent + faults.timeout + faults.crash + faults.write
         + faults.corrupt < MaxFaults[Cardinality({u \in Uploaders : client[u].at # "idle"})]
    /\ faults' = [faults EXCEPT ![kind] = @ + 1]

-----------------------------------------------------------------------------
\* The client

\* SnapshotBlobChunkPolicy
shrink(policy) == [policy EXCEPT !.size = Upper(@ \div 2, MinChunk), !.streak = 0]
grow(policy) ==
    [size |-> Upper(Lower(policy.size * 2, MaxChunk), MinChunk), streak |-> 0]
on_ack(policy, slow) ==
    IF slow THEN shrink(policy)
    ELSE IF policy.streak + 1 >= GrowAfter THEN grow(policy)
    ELSE [policy EXCEPT !.streak = @ + 1]
chunk_size_for_remaining(policy, remaining) ==
    Lower(policy.size, Upper(remaining, 1))

\* find_missing_blobs: only a missing blob is uploaded.
ClientQuery(u) ==
    /\ client[u].at = "query"
    /\ client' = [client EXCEPT ![u].at = IF blob = "absent" THEN "connect" ELSE "done"]
    /\ UNCHANGED <<netVars, handler, fileVars, historyVars>>

Unused(c) ==
    /\ handler[c].at = "none"
    /\ \A u \in Uploaders : client[u].conn # c

\* A handler that works on the files or still has a frame to read.
Busy(c) ==
    \/ handler[c].at \notin {"none", "init", "recv"}
    \/ handler[c].at # "none" /\ toServer[c] # <<>>

\* connect_async and the upload_init frame.
ClientConnect(u) ==
    /\ client[u].at = "connect"
    /\ \E c \in Conns :
         /\ Unused(c) /\ \A b \in 1 .. (c - 1) : ~Unused(b)
         /\ client' = [client EXCEPT ![u].at = "resume", ![u].conn = c]
         /\ open' = [open EXCEPT ![c] = TRUE]
         /\ toServer' = [toServer EXCEPT ![c] = <<InitFrame(StreamOf[u])>>]
         /\ toClient' = [toClient EXCEPT ![c] = <<>>]
         /\ handler' = [handler EXCEPT ![c].at = "init"]
    /\ overlap' = (overlap \/ \E c \in Conns : Busy(c))
    /\ seen' = seen \cup {u}
    /\ UNCHANGED <<fileVars, faults>>

\* The frame a waiting client reads next.
Reply(u, type) ==
    /\ client[u].conn # NoConn
    /\ toClient[client[u].conn] # <<>>
    /\ Head(toClient[client[u].conn]).type = type

\* The while loop: the next chunk, or the wait for upload_complete.
SendNext(u, c, offset, seq, policy) ==
    LET stream == StreamOf[u]
        count == chunk_size_for_remaining(policy, stream.size - offset)
        more == offset < stream.size
    IN  /\ client' = [client EXCEPT ![u] =
                        [@ EXCEPT !.at = IF more THEN "ack" ELSE "complete",
                                  !.offset = offset, !.seq = seq, !.policy = policy]]
        /\ toClient' = [toClient EXCEPT ![c] = Tail(@)]
        /\ toServer' =
             IF more
             THEN [toServer EXCEPT ![c] =
                     Append(@, ChunkFrame(seq, offset, Units(stream, offset, count)))]
             ELSE toServer

ClientResume(u) ==
    /\ client[u].at = "resume"
    /\ Reply(u, "upload_resume")
    /\ LET c == client[u].conn
           frame == Head(toClient[c])
       IN  SendNext(u, c, frame.offset, frame.seq, client[u].policy)
    /\ UNCHANGED <<open, handler, fileVars, historyVars>>

\* An ack names the chunk that was sent; anything else ends the upload.
AckMatches(u, frame) ==
    LET sent == chunk_size_for_remaining(client[u].policy,
                                         StreamOf[u].size - client[u].offset)
    IN  frame.seq = client[u].seq /\ frame.offset = client[u].offset /\ frame.size = sent

ClientAck(u) ==
    /\ client[u].at = "ack"
    /\ Reply(u, "upload_ack")
    /\ LET c == client[u].conn
           frame == Head(toClient[c])
       IN  /\ AckMatches(u, frame)
           /\ \E slow \in BOOLEAN :
                SendNext(u, c, frame.received, client[u].seq + 1,
                         on_ack(client[u].policy, slow))
    /\ UNCHANGED <<open, handler, fileVars, historyVars>>

\* The client drops its socket; nobody reads what is still on its way to it.
HangUp(c) ==
    /\ open' = [open EXCEPT ![c] = FALSE]
    /\ toClient' = [toClient EXCEPT ![c] = <<>>]

ClientComplete(u) ==
    /\ client[u].at \in {"resume", "complete"}
    /\ Reply(u, "upload_complete")
    /\ client' = [client EXCEPT ![u].at = "done", ![u].conn = NoConn]
    /\ HangUp(client[u].conn)
    /\ UNCHANGED <<toServer, handler, fileVars, historyVars>>

Retried_forever(me) ==
    [me EXCEPT !.at = "connect", !.conn = NoConn, !.attempt = 1, !.seq = 0,
               !.offset = 0, !.policy = NewPolicy]

\* retry_blob_upload starts over with a new policy, up to MaxTries times.
Retried(me) ==
    IF me.try < MaxTries
    THEN [me EXCEPT !.at = "connect", !.conn = NoConn, !.attempt = 1, !.try = @ + 1,
                    !.seq = 0, !.offset = 0, !.policy = NewPolicy]
    ELSE [me EXCEPT !.at = "failed", !.conn = NoConn]

Reconnected_startsOver(me) == Retried(me)

\* is_retryable_blob_stream_error: the same upload goes on over a new connection.
Reconnected(me) ==
    IF me.attempt < MaxAttempts
    THEN [me EXCEPT !.at = "connect", !.conn = NoConn, !.attempt = @ + 1,
                    !.seq = 0, !.offset = 0, !.policy = shrink(@)]
    ELSE Retried(me)

Waiting(u) == client[u].at \in {"resume", "ack", "complete"}

\* A frame the client does not expect, upload_error included.
ClientRefused(u) ==
    /\ Waiting(u)
    /\ LET c == client[u].conn
           frame == Head(toClient[c])
       IN  /\ toClient[c] # <<>>
           /\ \/ frame.type = "upload_error"
              \/ frame.type = "upload_resume" /\ client[u].at # "resume"
              \/ frame.type = "upload_complete" /\ client[u].at = "ack"
              \/ frame.type = "upload_ack"
                   /\ (client[u].at # "ack" \/ ~AckMatches(u, frame))
    /\ client' = [client EXCEPT ![u] = Retried(@)]
    /\ HangUp(client[u].conn)
    /\ UNCHANGED <<toServer, handler, fileVars, historyVars>>

\* The connection closed or broke before the reply came.
ClientLost(u) ==
    /\ Waiting(u)
    /\ LET c == client[u].conn
       IN  toClient[c] = <<>> /\ (~open[c] \/ handler[c].at = "none")
    /\ client' = [client EXCEPT ![u] = Reconnected(@)]
    /\ HangUp(client[u].conn)
    /\ UNCHANGED <<toServer, handler, fileVars, historyVars>>

\* SNAPSHOT_BLOB_STREAM_CONTROL_TIMEOUT passes although the handler is at work.
ClientTimeout(u) ==
    /\ Waiting(u)
    /\ LET c == client[u].conn
       IN  toClient[c] = <<>> /\ open[c] /\ handler[c].at # "none"
    /\ Fault("timeout")
    /\ client' = [client EXCEPT ![u] = Reconnected(@)]
    /\ HangUp(client[u].conn)
    /\ UNCHANGED <<toServer, handler, fileVars, overlap, seen>>

\* No connection, or one that breaks before upload_init is sent. That the server
\* could not be reached is retryable; that upload_init could not be sent is not in
\* is_retryable_blob_stream_error and costs the whole try. A handler that never
\* gets its first frame does nothing.
ClientUnsent(u) ==
    /\ client[u].at = "connect"
    /\ \/ Fault("drop") /\ client' = [client EXCEPT ![u] = Reconnected(@)]
       \/ Fault("unsent") /\ client' = [client EXCEPT ![u] = Retried(@)]
    /\ UNCHANGED <<netVars, handler, fileVars, overlap, seen>>

ClientNext(u) ==
    \/ ClientQuery(u) \/ ClientConnect(u) \/ ClientResume(u) \/ ClientAck(u)
    \/ ClientComplete(u) \/ ClientRefused(u) \/ ClientLost(u)

-----------------------------------------------------------------------------
\* The server. A handler's record holds where it is, the parameters of its
\* connection, and the locals that live across an await.

\* A send on a broken connection may fail at once or go unnoticed.
Send(c, frame) ==
    toClient' = IF open[c] THEN [toClient EXCEPT ![c] = Append(@, frame)] ELSE toClient

\* send_blob_upload_error and Close: the handler returns.
Fail(c) ==
    /\ handler' = [handler EXCEPT ![c] = IdleHandler]
    /\ Send(c, UploadError)

Frame(c, type) == toServer[c] # <<>> /\ Head(toServer[c]).type = type
Consume(c) == toServer' = [toServer EXCEPT ![c] = Tail(@)]

\* upload_init names a version, a chunk size and encodings the server knows.
\* A blob that is already there needs no upload: stale session files go.
HandleInit(c) ==
    /\ handler[c].at = "init"
    /\ Frame(c, "upload_init")
    /\ Consume(c)
    /\ LET stream == Head(toServer[c]).stream
           me == [handler[c] EXCEPT !.stream = stream]
       IN  handler' = [handler EXCEPT ![c] =
                IF blob # "absent"
                THEN [me EXCEPT !.at = "rm_meta", !.goal = "complete"]
                ELSE [me EXCEPT !.at = "load", !.goal = "resume"]]
    /\ UNCHANGED <<client, open, toClient, fileVars, historyVars>>

\* A first frame or a chunk frame that does not decode.
HandleBadFrame(c) ==
    /\ handler[c].at \in {"init", "recv"}
    /\ Frame(c, "bad")
    /\ Consume(c)
    /\ Fail(c)
    /\ UNCHANGED <<client, open, fileVars, historyVars>>

\* The peer is gone: reading ends the handler, even if a frame was on its way.
HandleGone(c) ==
    /\ handler[c].at \in {"init", "recv"}
    /\ ~open[c]
    /\ handler' = [handler EXCEPT ![c] = IdleHandler]
    /\ UNCHANGED <<client, netVars, fileVars, historyVars>>

\* prepare_blob_upload_session, first part: load_blob_upload_state.
PrepareLoad(c) ==
    /\ handler[c].at = "load"
    /\ LET stream == handler[c].stream
           state == IF meta = NoMeta THEN NewMeta(stream) ELSE meta
       IN  IF state.stream = stream
           THEN /\ handler' = [handler EXCEPT ![c].at = "stat", ![c].state = state]
                /\ UNCHANGED toClient
           ELSE Fail(c)
    /\ UNCHANGED <<client, open, toServer, fileVars, historyVars>>

StatState(state, length) ==
    IF length = 0 /\ state.offset # 0 THEN NewMeta(state.stream) ELSE state

PrepareStat_trustsMetadata(c) ==
    /\ handler[c].at = "stat"
    /\ handler' = [handler EXCEPT ![c].at = "save"]
    /\ UNCHANGED <<client, netVars, fileVars, historyVars>>

\* Second part: the staged file decides what was received.
PrepareStat(c) ==
    /\ handler[c].at = "stat"
    /\ LET length == Len(part)
           state == StatState(handler[c].state, length)
       IN  IF length > handler[c].stream.size
           THEN /\ handler' = [handler EXCEPT ![c].at = "rm_meta", ![c].goal = "error"]
                /\ UNCHANGED toClient
           ELSE IF state.offset # length \/ (length > 0 /\ state.seq = 0)
           THEN Fail(c)
           ELSE /\ handler' = [handler EXCEPT ![c].at = "save", ![c].state = state]
                /\ UNCHANGED toClient
    /\ UNCHANGED <<client, open, toServer, fileVars, historyVars>>

PrepareSave_fullMeansStored(c) ==
    /\ handler[c].at = "save"
    /\ LET me == handler[c]
       IN  /\ meta' = me.state
           /\ IF me.goal = "resume" /\ me.state.offset = me.stream.size
              THEN /\ handler' = [handler EXCEPT ![c].at = "rm_meta", ![c].goal = "complete"]
                   /\ UNCHANGED toClient
              ELSE IF me.goal = "resume"
              THEN /\ handler' = [handler EXCEPT ![c].at = "recv", ![c].seq = me.state.seq,
                                                  ![c].received = me.state.offset]
                   /\ Send(c, UploadResume(me.state.seq, me.state.offset))
              ELSE /\ handler' = [handler EXCEPT ![c].at = "write", ![c].left = me.chunk]
                   /\ UNCHANGED toClient
    /\ UNCHANGED <<client, open, toServer, part, blob, historyVars>>

\* Third part: persist_blob_upload_state; then the caller goes on, either
\* handle_blob_upload_ws with upload_resume or append_blob_upload_chunk.
PrepareSave(c) ==
    /\ handler[c].at = "save"
    /\ LET me == handler[c]
           state == me.state
           received == state.offset
       IN  /\ meta' = state
           /\ \/ /\ me.goal = "resume" /\ received = me.stream.size
                 /\ handler' = [handler EXCEPT ![c].at = "fin_load"]
                 /\ UNCHANGED toClient
              \/ /\ me.goal = "resume" /\ received # me.stream.size
                 /\ handler' = [handler EXCEPT ![c].at = "recv", ![c].seq = state.seq,
                                                ![c].received = received]
                 /\ Send(c, UploadResume(state.seq, received))
              \/ /\ me.goal = "append" /\ received + Len(me.chunk) > me.stream.size
                 /\ Fail(c)
              \/ /\ me.goal = "append" /\ received + Len(me.chunk) <= me.stream.size
                 /\ handler' = [handler EXCEPT ![c].at = "write", ![c].left = me.chunk]
                 /\ UNCHANGED toClient
    /\ UNCHANGED <<client, open, toServer, part, blob, historyVars>>

\* A chunk must be the one the session expects next.
ChunkExpected(c, frame) ==
    /\ frame.seq = handler[c].seq
    /\ frame.offset = handler[c].received
    /\ Len(frame.data) <= MaxChunk
    /\ handler[c].received + Len(frame.data) <= handler[c].stream.size

HandleChunk(c) ==
    /\ handler[c].at = "recv"
    /\ Frame(c, "chunk")
    /\ Consume(c)
    /\ LET frame == Head(toServer[c])
       IN  IF ChunkExpected(c, frame)
           THEN /\ handler' = [handler EXCEPT ![c].at = "load", ![c].goal = "append",
                                               ![c].chunk = frame.data]
                /\ UNCHANGED toClient
           ELSE Fail(c)
    /\ UNCHANGED <<client, open, fileVars, historyVars>>

\* append_blob_upload_chunk: write_all, unit by unit.
AppendWrite(c) ==
    /\ handler[c].at = "write" /\ handler[c].left # <<>>
    /\ part' = Append(part, Head(handler[c].left))
    /\ handler' = [handler EXCEPT ![c].left = Tail(@)]
    /\ UNCHANGED <<client, netVars, meta, blob, historyVars>>

AppendError(c) ==
    /\ handler[c].at = "write" /\ handler[c].left # <<>>
    /\ Fault("write")
    /\ Fail(c)
    /\ UNCHANGED <<client, open, toServer, fileVars, overlap, seen>>

AppendSave_unflushed(c) ==
    /\ handler[c].at = "write"
    /\ LET me == handler[c]
           size == Len(me.chunk)
           state == [me.state EXCEPT !.offset = @ + size, !.seq = @ + 1]
       IN  /\ meta' = state
           /\ Send(c, UploadAck(me.seq, me.received, size, state.offset))
           /\ handler' = [handler EXCEPT
                            ![c].at = IF state.offset = me.stream.size THEN "fin_load" ELSE "recv",
                            ![c].seq = state.seq, ![c].received = state.offset]
    /\ UNCHANGED <<client, open, toServer, part, blob, historyVars>>

AppendSave_sameSequence(c) ==
    /\ handler[c].at = "write" /\ handler[c].left = <<>>
    /\ LET me == handler[c]
           state == [me.state EXCEPT !.offset = @ + Len(me.chunk)]
       IN  /\ meta' = state
           /\ Send(c, UploadAck(me.seq, me.received, Len(me.chunk), state.offset))
           /\ handler' = [handler EXCEPT
                            ![c].at = IF state.offset = me.stream.size THEN "fin_load" ELSE "recv",
                            ![c].seq = @ + 1, ![c].received = state.offset]
    /\ UNCHANGED <<client, open, toServer, part, blob, historyVars>>

\* The metadata follows, and the ack. When the ack cannot be sent the handler
\* returns, even if the blob is complete.
AppendSave(c) ==
    /\ handler[c].at = "write" /\ handler[c].left = <<>>
    /\ LET me == handler[c]
           size == Len(me.chunk)
           state == [me.state EXCEPT !.offset = @ + size, !.seq = @ + 1]
           full == state.offset = me.stream.size
       IN  /\ meta' = state
           /\ Send(c, UploadAck(me.seq, me.received, size, state.offset))
           /\ \/ handler' = [handler EXCEPT
                              ![c].at = IF full THEN "fin_load" ELSE "recv",
                              ![c].seq = state.seq, ![c].received = state.offset]
              \/ ~open[c] /\ handler' = [handler EXCEPT ![c] = IdleHandler]
    /\ UNCHANGED <<client, open, toServer, part, blob, historyVars>>

\* finalize_blob_upload_session: load the metadata, compare the length.
FinalizeLoad(c) ==
    /\ handler[c].at = "fin_load"
    /\ IF meta # NoMeta /\ Len(part) = meta.stream.size
       THEN /\ handler' = [handler EXCEPT ![c].at = "fin_read", ![c].state = meta]
            /\ UNCHANGED toClient
       ELSE Fail(c)
    /\ UNCHANGED <<client, open, toServer, fileVars, historyVars>>

\* Read and decode the staged bytes; store_blob_for_digest refuses bytes with
\* another digest. A missing file cannot be read, so an empty blob fails here.
FinalizeRead(c) ==
    /\ handler[c].at = "fin_read"
    /\ IF part # <<>> /\ part = Content(handler[c].state.stream)
       THEN handler' = [handler EXCEPT ![c].at = "link"] /\ UNCHANGED toClient
       ELSE Fail(c)
    /\ UNCHANGED <<client, open, toServer, fileVars, historyVars>>

\* write_bytes_atomically links the blob unless it is there.
StoreLink(c) ==
    /\ handler[c].at = "link"
    /\ blob' = IF blob = "absent" THEN "linked" ELSE blob
    /\ handler' = [handler EXCEPT ![c].at = "index"]
    /\ UNCHANGED <<client, netVars, part, meta, historyVars>>

\* ensure_blob_metadata, the zstd variant and touch_blob.
StoreIndex(c) ==
    /\ handler[c].at = "index"
    /\ blob' = "indexed"
    /\ handler' = [handler EXCEPT ![c].at = "rm_meta", ![c].goal = "complete"]
    /\ UNCHANGED <<client, netVars, part, meta, historyVars>>

\* remove_blob_upload_state: the metadata, then the staged bytes.
RemoveMeta(c) ==
    /\ handler[c].at = "rm_meta"
    /\ meta' = NoMeta
    /\ handler' = [handler EXCEPT ![c].at = "rm_part"]
    /\ UNCHANGED <<client, netVars, part, blob, historyVars>>

RemovePart(c) ==
    /\ handler[c].at = "rm_part"
    /\ part' = <<>>
    /\ handler' = [handler EXCEPT ![c] = IdleHandler]
    /\ Send(c, IF handler[c].goal = "complete" THEN UploadComplete ELSE UploadError)
    /\ UNCHANGED <<client, open, toServer, meta, blob, historyVars>>

HandlerNext(c) ==
    \/ HandleInit(c) \/ HandleBadFrame(c) \/ HandleGone(c) \/ PrepareLoad(c)
    \/ PrepareStat(c) \/ PrepareSave(c) \/ HandleChunk(c) \/ AppendWrite(c)
    \/ AppendSave(c) \/ FinalizeLoad(c) \/ FinalizeRead(c) \/ StoreLink(c)
    \/ StoreIndex(c) \/ RemoveMeta(c) \/ RemovePart(c)

-----------------------------------------------------------------------------
\* Faults

\* The network breaks a connection; frames on their way may be lost.
Drop(c) ==
    /\ open[c]
    /\ Fault("drop")
    /\ open' = [open EXCEPT ![c] = FALSE]
    /\ \E lost \in BOOLEAN :
         toClient' = IF lost THEN [toClient EXCEPT ![c] = <<>>] ELSE toClient
    /\ UNCHANGED <<client, toServer, handler, fileVars, overlap, seen>>

\* A frame arrives that does not parse or whose checksum is wrong.
Corrupt(c) ==
    /\ toServer[c] # <<>>
    /\ toServer[c] # <<BadFrame>>
    /\ Fault("corrupt")
    /\ toServer' = [toServer EXCEPT ![c] = <<BadFrame>>]
    /\ UNCHANGED <<client, open, toClient, handler, fileVars, overlap, seen>>

\* The server dies and comes back: files stay, handlers and connections do not.
Crash ==
    /\ Fault("crash")
    /\ handler' = [c \in Conns |-> IdleHandler]
    /\ open' = [c \in Conns |-> FALSE]
    /\ toServer' = [c \in Conns |-> <<>>]
    /\ UNCHANGED <<client, toClient, fileVars, overlap, seen>>

Ended == {"idle", "done", "failed"}

\* Every client has its answer and no handler is left.
Terminated ==
    /\ \A u \in Uploaders : client[u].at \in Ended
    /\ \A c \in Conns : handler[c].at = "none"
    /\ UNCHANGED vars

Next ==
    \/ \E u \in Uploaders : ClientNext(u) \/ ClientTimeout(u) \/ ClientUnsent(u)
    \/ \E c \in Conns : HandlerNext(c) \/ AppendError(c) \/ Drop(c) \/ Corrupt(c)
    \/ Crash \/ Terminated

Spec == Init /\ [][Next]_vars

\* The client and the handlers run; nothing is assumed of faults. A timeout that
\* is due is one of the steps of a client that waits in vain.
Fairness ==
    /\ \A u \in Uploaders : WF_vars(ClientNext(u))
    /\ \A c \in Conns : WF_vars(HandlerNext(c))

FairSpec == Spec /\ Fairness

-----------------------------------------------------------------------------
\* Properties

FrameType ==
    [type : {"upload_init"}, stream : Streams]
    \cup [type : {"chunk"}, seq : Nat, offset : Nat, data : Seq({"raw", "zstd"} \X Nat)]
    \cup {BadFrame}
ReplyType ==
    [type : {"upload_resume"}, seq : Nat, offset : Nat]
    \cup [type : {"upload_ack"}, seq : Nat, offset : Nat, size : Nat, received : Nat]
    \cup {UploadComplete, UploadError}
MetaType == [stream : Streams \cup {NoStream}, seq : Nat, offset : Nat]
UnitSeq == Seq({"raw", "zstd"} \X Nat)
HandlerType ==
    [at : {"none", "init", "load", "stat", "save", "recv", "write", "fin_load",
           "fin_read", "link", "index", "rm_meta", "rm_part"},
     goal : {"resume", "append", "complete", "error"},
     stream : Streams \cup {NoStream}, state : MetaType,
     chunk : UnitSeq, left : UnitSeq, seq : Nat, received : Nat]
ClientType ==
    [at : {"idle", "query", "connect", "resume", "ack", "complete", "done", "failed"},
     conn : Conns \cup {NoConn}, attempt : 1 .. MaxAttempts, try : 1 .. MaxTries,
     seq : Nat, offset : Nat,
     policy : [size : MinChunk .. MaxChunk, streak : 0 .. GrowAfter - 1]]

\* Every variable holds a value of its type; the chunk size stays between the
\* policy's bounds and the retry counters within theirs.
TypeOK ==
    /\ client \in [Uploaders -> ClientType]
    /\ open \in [Conns -> BOOLEAN]
    /\ toServer \in [Conns -> Seq(FrameType)]
    /\ toClient \in [Conns -> Seq(ReplyType)]
    /\ handler \in [Conns -> HandlerType]
    /\ part \in UnitSeq /\ meta \in MetaType
    /\ blob \in {"absent", "linked", "indexed"}
    /\ faults \in [{"drop", "unsent", "timeout", "crash", "write", "corrupt"} -> Nat]
    /\ overlap \in BOOLEAN /\ seen \subseteq Uploaders

\* A client that was told upload_complete, or that the blob is not missing, can
\* rely on it: the blob is in the store, whatever other handlers, crashes and
\* broken connections did to the session files meanwhile.
CompleteMeansStored ==
    \A u \in Uploaders : client[u].at = "done" => blob # "absent"

\* One client at a time, and never a connection made while an earlier handler
\* was busy.
Lone == ~overlap /\ \A u, v \in seen : u = v

\* The staged file holds the beginning of the stream in order, also after a
\* crash or a failed write in the middle of a chunk, as long as handlers of the
\* digest do not overlap.
StagedInOrder ==
    Lone => \A u \in seen : \A i \in 1 .. Len(part) :
              i <= StreamOf[u].size /\ part[i] = Content(StreamOf[u])[i]

\* prepare_blob_upload_session would accept the session and resume it.
Resumable(stream) ==
    /\ meta = NoMeta \/ meta.stream = stream
    /\ \/ part = <<>>
       \/ meta.offset = Len(part) /\ meta.seq > 0 /\ meta.offset <= stream.size

\* A broken connection or a damaged frame, at any point, leaves session files
\* that the next connection can resume from.
LoneResumable ==
    (/\ Lone /\ faults.crash = 0 /\ faults.write = 0
     /\ \A c \in Conns : ~Busy(c))
      => \A u \in seen : Resumable(StreamOf[u])

\* Every upload comes to an end: the client has its answer or gave up. (That opening
\* a connection ends is assumed: connect_async has no deadline.)
UploadsEnd == <>(\A u \in Uploaders : client[u].at \in Ended)

\* The tries of retry_blob_upload that the faults so far can have used up: a
\* broken connection or a timeout costs one of the attempts of a try, an
\* upload_init that cannot be sent or a damaged frame the whole try.
TriesLost ==
    (faults.drop + faults.timeout) \div MaxAttempts + faults.unsent + faults.corrupt

\* With one client, faults that leave it a try, no overlap, no crash and no
\* failing disk, the blob arrives.
LoneUploadSucceeds ==
    <>(\/ \A u \in Uploaders : client[u].at \in {"idle", "done"}
       \/ ~Lone \/ faults.crash > 0 \/ faults.write > 0 \/ TriesLost >= MaxTries)

=============================================================================
