------------------------------- MODULE Http2 --------------------------------
(***************************************************************************)
(* One HTTP/2 connection of a client behind CONNECT (src/src/http2.c): the   *)
(* loop of handle_http2_connection, the callbacks nghttp2 makes while it     *)
(* reads frames, and the state machine that fetches each stream from the     *)
(* end server over HTTP/1.1.                                                *)
(*                                                                         *)
(* One thread serves the connection: it reads, runs the callbacks, steps     *)
(* every stream that waits for its response once, writes what nghttp2 has    *)
(* queued, and reads again.  Client and end server move in between, so the   *)
(* results of their calls are chosen.  conn->lock is never contended and is  *)
(* left out.  nghttp2 is known by its callbacks and by its return values: a  *)
(* submit succeeds or fails.  Payloads are lengths.                         *)
(***************************************************************************)
EXTENDS Integers, FiniteSets, Sequences

CONSTANTS
  Streams,      \* stream ids the client uses, which are table indices
  Fds,          \* descriptors for upstream connections
  MaxChunks,    \* bound on the chunks a DATA frame is read in
  MaxBody,      \* bound on the body bytes of a request
  HeadLen,      \* length of the upstream request without its body
  NULL

ASSUME Http2Assumption ==
  /\ Streams \subseteq Nat /\ MaxChunks \in Nat /\ MaxBody \in Nat /\ HeadLen \in Nat
  /\ NULL \notin Fds

VARIABLES
  loop,                 \* where the thread is
  cursor,               \* the streams this pass has still to look at
  streams,              \* conn->streams: the stream, or NULL
  active_streams_count,
  open,                 \* descriptors open for upstream connections
  http2_active_connections,
  frame,                \* stream -> the DATA frame it is receiving, or NULL
  client,               \* stream -> how far the client is: "idle", "open", "ended"
  body,                 \* stream -> body bytes the client has sent
  submitted,            \* stream -> response headers handed to nghttp2
  got                   \* stream -> what the end server has received

history == <<client, body, submitted, got>>
vars == <<loop, cursor, streams, active_streams_count, open, http2_active_connections,
          frame, client, body, submitted, got>>

UpstreamStates == {"INIT", "CONNECTING", "SENDING_REQUEST", "READING_RESPONSE", "DONE"}

PseudoHeaders == {":method", ":path", ":authority"}

\* struct http2_stream.  upstream_request is its length and how much of it was sent.
Stream == [pseudo : SUBSET PseudoHeaders, body_len : Nat,
           request_complete : BOOLEAN, response_complete : BOOLEAN,
           upstream_fd : Fds \cup {NULL}, upstream_ssl : BOOLEAN,
           upstream_state : UpstreamStates,
           upstream_request : [len : Nat, sent : Nat] \cup {NULL},
           upstream_headers_complete : BOOLEAN]

\* The null pointer is no stream, no request and no frame.
ASSUME NullAssumption ==
  /\ NULL \notin Stream
  /\ NULL \notin [len : Nat, sent : Nat]
  /\ NULL \notin [left : Nat, end : BOOLEAN]

\* The values the variables range over.
TypeOK ==
  /\ loop \in {"start", "read", "input", "process", "send", "closing", "ended",
               "failed", "crashed"}
  /\ cursor \subseteq Streams
  /\ streams \in [Streams -> Stream \cup {NULL}]
  /\ active_streams_count \in Nat
  /\ open \subseteq Fds
  /\ http2_active_connections \in {0, 1}
  /\ frame \in [Streams -> [left : Nat, end : BOOLEAN] \cup {NULL}]
  /\ client \in [Streams -> {"idle", "open", "ended"}]
  /\ body \in [Streams -> Nat] /\ submitted \in [Streams -> Nat]
  /\ got \in [Streams -> Seq(Nat)]

-----------------------------------------------------------------------------
(* Start and end of the connection *)

Init ==
  /\ loop = "start" /\ cursor = {}
  /\ streams = [s \in Streams |-> NULL]
  /\ active_streams_count = 0
  /\ open = {}
  /\ http2_active_connections = 0
  /\ frame = [s \in Streams |-> NULL]
  /\ client = [s \in Streams |-> "idle"] /\ body = [s \in Streams |-> 0]
  /\ submitted = [s \in Streams |-> 0] /\ got = [s \in Streams |-> <<>>]

\* http2_init_context may fail; that way out leaves the gauge as it is.
Start ==
  /\ loop = "start"
  /\ loop' \in {"read", "failed"}
  /\ http2_active_connections' = http2_active_connections + 1
  /\ UNCHANGED <<cursor, streams, active_streams_count, open, frame, history>>

\* The client closed, a read failed, nghttp2 refused the input, or a callback had no
\* memory for its stream.
ReadEnds ==
  /\ loop \in {"read", "input"}
  /\ loop' = "closing"
  /\ UNCHANGED <<cursor, streams, active_streams_count, open, http2_active_connections,
                 frame, history>>

Entries == {s \in Streams : streams[s] # NULL}

\* http2_cleanup_context frees every stream with its upstream connection.
Cleanup ==
  /\ loop = "closing" /\ loop' = "ended"
  /\ http2_active_connections' = http2_active_connections - 1
  /\ open' = open \ {streams[s].upstream_fd : s \in Entries}
  /\ streams' = [s \in Streams |-> NULL]
  /\ UNCHANGED <<cursor, active_streams_count, frame, history>>

-----------------------------------------------------------------------------
(* Input: nghttp2_session_mem_recv and its callbacks *)

NewStream ==
  [pseudo |-> {}, body_len |-> 0, request_complete |-> FALSE, response_complete |-> FALSE,
   upstream_fd |-> NULL, upstream_ssl |-> FALSE, upstream_state |-> "INIT",
   upstream_request |-> NULL, upstream_headers_complete |-> FALSE]

\* Every callback looks its stream up, and creates it.
http2_get_stream(s) == IF streams[s] = NULL THEN NewStream ELSE streams[s]

Reading == loop \in {"read", "input"} /\ loop' = "input"

inputUnchanged == <<cursor, open, http2_active_connections, submitted, got>>

\* nghttp2 passes on a request that has a method, and trailers, which end the stream
\* and have no pseudo headers.
HeadersAllowed(s, pseudo, end) ==
  \/ client[s] = "idle" /\ ":method" \in pseudo
  \/ client[s] = "open" /\ pseudo = {} /\ end

\* Fault: the connection's count is left to the DATA callbacks.
on_headers_uncounted(s, pseudo, end) ==
  /\ Reading /\ frame[s] = NULL /\ HeadersAllowed(s, pseudo, end)
  /\ streams' = [streams EXCEPT ![s] =
       [http2_get_stream(s) EXCEPT !.pseudo = pseudo, !.body_len = 0,
                                   !.request_complete = end, !.response_complete = FALSE]]
  /\ client' = [client EXCEPT ![s] = IF end THEN "ended" ELSE "open"]
  /\ UNCHANGED <<active_streams_count, frame, body, inputUnchanged>>

\* on_begin_headers_callback resets the request, on_header_callback keeps the pseudo
\* headers, on_frame_recv_callback completes the request if nothing follows.  The
\* same for the trailers of a request, which have no pseudo headers.
on_headers(s, pseudo, end) ==
  /\ Reading /\ frame[s] = NULL /\ HeadersAllowed(s, pseudo, end)
  /\ streams' = [streams EXCEPT ![s] =
       [http2_get_stream(s) EXCEPT !.pseudo = pseudo, !.body_len = 0,
                                   !.request_complete = end, !.response_complete = FALSE]]
  /\ active_streams_count' = active_streams_count + (IF end THEN 1 ELSE 0)
  /\ client' = [client EXCEPT ![s] = IF end THEN "ended" ELSE "open"]
  /\ UNCHANGED <<frame, body, inputUnchanged>>

\* The header of a DATA frame that will be read in n chunks of one byte.
DataFrame(s, n, end) ==
  /\ Reading /\ client[s] = "open" /\ frame[s] = NULL
  /\ body[s] + n <= MaxBody
  /\ frame' = [frame EXCEPT ![s] = [left |-> n, end |-> end]]
  /\ body' = [body EXCEPT ![s] = @ + n]
  /\ UNCHANGED <<streams, active_streams_count, client, inputUnchanged>>

\* A chunk of the frame.  Its flags are those of the frame: with END_STREAM every
\* chunk completes and counts the request, the last one or not.
on_data_chunk_recv_callback(s) ==
  /\ Reading /\ frame[s] # NULL /\ frame[s].left > 0
  /\ streams' = [streams EXCEPT ![s] =
       [http2_get_stream(s) EXCEPT !.body_len = @ + 1,
                                   !.request_complete = @ \/ frame[s].end]]
  /\ active_streams_count' = active_streams_count + (IF frame[s].end THEN 1 ELSE 0)
  /\ frame' = [frame EXCEPT ![s].left = @ - 1]
  /\ UNCHANGED <<client, body, inputUnchanged>>

\* on_frame_recv_callback for DATA, after the last chunk: counted again.
on_data_frame(s) ==
  /\ Reading /\ frame[s] # NULL /\ frame[s].left = 0
  /\ streams' = [streams EXCEPT ![s] =
       [http2_get_stream(s) EXCEPT !.request_complete = @ \/ frame[s].end]]
  /\ active_streams_count' = active_streams_count + (IF frame[s].end THEN 1 ELSE 0)
  /\ frame' = [frame EXCEPT ![s] = NULL]
  /\ client' = IF frame[s].end THEN [client EXCEPT ![s] = "ended"] ELSE client
  /\ UNCHANGED <<body, inputUnchanged>>

\* A frame of another type (PRIORITY, WINDOW_UPDATE, GOAWAY): an entry of the table at most.
on_other_frame(s) ==
  /\ Reading
  /\ streams' = [streams EXCEPT ![s] = http2_get_stream(s)]
  /\ UNCHANGED <<active_streams_count, frame, client, body, inputUnchanged>>

\* What was read is used up: every stream is looked at, if any is counted.
InputDone ==
  /\ loop = "input" /\ loop' = "process"
  /\ cursor' = IF active_streams_count > 0 THEN Entries ELSE {}
  /\ UNCHANGED <<streams, active_streams_count, open, http2_active_connections, frame,
                 history>>

-----------------------------------------------------------------------------
(* http2_process_stream, once per stream and pass *)

Waiting(s) ==
  streams[s] # NULL /\ streams[s].request_complete /\ ~streams[s].response_complete

\* Streams are looked at in the order of the table.
Turn(s) == loop = "process" /\ s \in cursor /\ \A r \in cursor : s <= r

Skip(s) ==
  /\ Turn(s) /\ ~Waiting(s)
  /\ cursor' = cursor \ {s}
  /\ UNCHANGED <<loop, streams, active_streams_count, open, http2_active_connections,
                 frame, history>>

\* The stream is stepped in state st and becomes e; most steps return without a
\* completed response, or with an error, and the count stays.
Stepped(s, st, e) ==
  /\ Turn(s) /\ Waiting(s) /\ streams[s].upstream_state = st
  /\ streams' = [streams EXCEPT ![s] = e]
  /\ cursor' = cursor \ {s}
  /\ UNCHANGED <<loop, http2_active_connections, frame, client, body>>

quiet == <<active_streams_count, open, submitted, got>>

\* Any state: the call fails or would block, and the stream is as it was.  In INIT the
\* socket is closed again.
NoProgress(s) ==
  /\ Turn(s) /\ Waiting(s)
  /\ streams[s].upstream_state = "SENDING_REQUEST" =>
       streams[s].pseudo = PseudoHeaders /\ streams[s].upstream_ssl
  /\ Stepped(s, streams[s].upstream_state, streams[s])
  /\ UNCHANGED quiet

\* connect is in progress, or has succeeded at once.
Connect(s, f, st) ==
  /\ f \in Fds \ open /\ st \in {"CONNECTING", "SENDING_REQUEST"}
  /\ Turn(s) /\ Waiting(s)
  /\ Stepped(s, "INIT", [streams[s] EXCEPT !.upstream_fd = f, !.upstream_ssl = TRUE,
                                           !.upstream_state = st])
  /\ open' = open \cup {f}
  /\ UNCHANGED <<active_streams_count, submitted, got>>

\* connect has succeeded at once and SO_ERROR is set when the code falls through.
ConnectThenError(s) ==
  /\ Turn(s) /\ Waiting(s)
  /\ Stepped(s, "INIT", [streams[s] EXCEPT !.upstream_state = "SENDING_REQUEST"])
  /\ UNCHANGED quiet

\* getsockopt reports success; it fails for the descriptor -1.
Connected(s) ==
  /\ Turn(s) /\ Waiting(s) /\ streams[s].upstream_fd # NULL
  /\ Stepped(s, "CONNECTING", [streams[s] EXCEPT !.upstream_state = "SENDING_REQUEST"])
  /\ UNCHANGED quiet

\* Fault: the descriptor is closed and kept.
ConnectErrorKeepsFd(s) ==
  /\ Turn(s) /\ Waiting(s) /\ streams[s].upstream_fd # NULL
  /\ Stepped(s, "CONNECTING", [streams[s] EXCEPT !.upstream_ssl = FALSE])
  /\ open' = open \ {streams[s].upstream_fd}
  /\ UNCHANGED <<active_streams_count, submitted, got>>

\* SO_ERROR is set: the connection is closed, and the state stays CONNECTING.
ConnectError(s) ==
  /\ Turn(s) /\ Waiting(s) /\ streams[s].upstream_fd # NULL
  /\ Stepped(s, "CONNECTING", [streams[s] EXCEPT !.upstream_ssl = FALSE, !.upstream_fd = NULL])
  /\ open' = open \ {streams[s].upstream_fd}
  /\ UNCHANGED <<active_streams_count, submitted, got>>

\* The request is built on the first visit.  Without its three pseudo headers
\* strlen is called on a null pointer, and without a connection SSL_write is.
BuildCrashes(s) ==
  /\ Turn(s) /\ Waiting(s) /\ streams[s].upstream_state = "SENDING_REQUEST"
  /\ \/ streams[s].upstream_request = NULL /\ streams[s].pseudo # PseudoHeaders
     \/ ~streams[s].upstream_ssl
  /\ loop' = "crashed"
  /\ UNCHANGED <<cursor, streams, active_streams_count, open, http2_active_connections,
                 frame, history>>

Request(e) ==
  IF e.upstream_request = NULL THEN [len |-> HeadLen + e.body_len, sent |-> 0]
  ELSE e.upstream_request

\* Fault: a write that was cut short begins again.
WrittenFrom0(r, n) == [i \in 1 .. n |-> i]

\* The n bytes SSL_write accepts, counted from the beginning of the request.
Written(r, n) == [i \in 1 .. n |-> r.sent + i]

\* SSL_write accepts n bytes; the rest is left to the next visit.
SendRequest(s, n) ==
  /\ Turn(s) /\ Waiting(s)
  /\ streams[s].upstream_request = NULL => streams[s].pseudo = PseudoHeaders
  /\ streams[s].upstream_ssl
  /\ LET r == Request(streams[s])  IN
     /\ n \in 0 .. r.len - r.sent
     /\ Stepped(s, "SENDING_REQUEST",
          [streams[s] EXCEPT !.upstream_request = [r EXCEPT !.sent = @ + n],
             !.upstream_state = IF r.sent + n = r.len THEN "READING_RESPONSE" ELSE @])
     /\ got' = [got EXCEPT ![s] = @ \o Written(r, n)]
  /\ UNCHANGED <<active_streams_count, open, submitted>>

HeadersSeen(e) == [e EXCEPT !.upstream_headers_complete = TRUE]

\* A piece of the response is read.  Once its header is complete the status is
\* submitted, then body data; each submit may fail and end the step.
ReadResponse(s, header) ==
  /\ Turn(s) /\ Waiting(s)
  /\ LET first == header /\ ~streams[s].upstream_headers_complete  IN
     /\ Stepped(s, "READING_RESPONSE", IF first THEN HeadersSeen(streams[s]) ELSE streams[s])
     /\ submitted' = [submitted EXCEPT ![s] = @ + (IF first THEN 1 ELSE 0)]
  /\ UNCHANGED <<active_streams_count, open, got>>

\* The end server has closed, the end of the stream is submitted and written out: the
\* response is complete.  The upstream connection stays open until the cleanup, as no
\* pass looks at a completed stream again.
UpstreamClosed(s) ==
  /\ Turn(s) /\ Waiting(s)
  /\ Stepped(s, "READING_RESPONSE",
       [streams[s] EXCEPT !.response_complete = TRUE, !.upstream_state = "DONE"])
  /\ active_streams_count' = active_streams_count - 1
  /\ UNCHANGED <<open, submitted, got>>

ProcessDone ==
  /\ loop = "process" /\ cursor = {}
  /\ loop' = "send"
  /\ UNCHANGED <<cursor, streams, active_streams_count, open, http2_active_connections,
                 frame, history>>

\* http2_send_pending: everything queued is written, or the write fails.
SendPending ==
  /\ loop = "send"
  /\ loop' \in {"read", "closing"}
  /\ UNCHANGED <<cursor, streams, active_streams_count, open, http2_active_connections,
                 frame, history>>

-----------------------------------------------------------------------------

Input(s) ==
  \/ \E pseudo \in SUBSET PseudoHeaders, end \in BOOLEAN : on_headers(s, pseudo, end)
  \/ \E n \in 0 .. MaxChunks, end \in BOOLEAN : DataFrame(s, n, end)
  \/ on_data_chunk_recv_callback(s) \/ on_data_frame(s) \/ on_other_frame(s)

http2_process_stream(s) ==
  \/ Skip(s) \/ NoProgress(s)
  \/ \E f \in Fds, st \in {"CONNECTING", "SENDING_REQUEST"} : Connect(s, f, st)
  \/ ConnectThenError(s) \/ Connected(s) \/ ConnectError(s)
  \/ BuildCrashes(s) \/ \E n \in 0 .. HeadLen + MaxBody : SendRequest(s, n)
  \/ \E header \in BOOLEAN : ReadResponse(s, header)
  \/ UpstreamClosed(s)

Next ==
  \/ Start \/ ReadEnds \/ InputDone \/ ProcessDone \/ SendPending \/ Cleanup
  \/ \E s \in Streams : Input(s) \/ http2_process_stream(s)

Spec == Init /\ [][Next]_vars

-----------------------------------------------------------------------------
(* Properties *)

\* The loop looks at streams only while active_streams_count is positive: it is never
\* less than the number of streams that wait for their response, through double
\* counting, trailers and responses that complete in any order.  Otherwise a request
\* would never be fetched, and the unsigned count could wrap.
CountCoversWaiting == active_streams_count >= Cardinality({s \in Streams : Waiting(s)})

Up(s) == streams[s] # NULL /\ streams[s].upstream_fd # NULL

\* Every upstream descriptor that is open belongs to one stream, which will close it,
\* and no stream has one that was closed (close would hit another connection's): over
\* failed and repeated attempts to connect, and until the connection has ended.
UpstreamOwned ==
  loop # "crashed" =>
    /\ open = {streams[s].upstream_fd : s \in {r \in Streams : Up(r)}}
    /\ \A r, s \in Streams : Up(r) /\ Up(s) /\ r # s =>
         streams[r].upstream_fd # streams[s].upstream_fd
    /\ \A s \in Streams : streams[s] # NULL /\ streams[s].upstream_ssl => Up(s)

\* Each stream is exchanged once: the end server receives the request from its first
\* byte on, each byte once, however the writes are cut; the stream turns to the
\* response when all of it is sent; and the response headers are submitted at most
\* once, in whatever pieces the response arrives and however often the stream is
\* visited (http2.c 765-870).
ExchangedOnce ==
  \A s \in Streams :
    /\ got[s] = [i \in 1 .. Len(got[s]) |-> i]
    /\ streams[s] # NULL /\ streams[s].upstream_state \in {"READING_RESPONSE", "DONE"} =>
         streams[s].upstream_request # NULL /\ Len(got[s]) = streams[s].upstream_request.len
    /\ submitted[s] <= 1

=============================================================================
