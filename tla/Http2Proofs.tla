----------------------------- MODULE Http2Proofs -----------------------------
(***************************************************************************)
(* Proofs about Http2, for any number of streams, descriptors and bytes.    *)
(* A stream that has no entry yet counts as the one that http2_get_stream   *)
(* would create: then most facts about the table need no case for it.       *)
(***************************************************************************)
EXTENDS Http2, FiniteSetTheorems, SequenceTheorems, TLAPS

\* The gauge of the connections counts this one while it lasts.
GaugeInv == http2_active_connections = IF loop \in {"start", "ended"} THEN 0 ELSE 1

\* Descriptors: who has which, and who has none.
FdInv ==
  /\ \A f \in Fds : f \in open <=> \E s \in Streams : http2_get_stream(s).upstream_fd = f
  /\ \A r, s \in Streams :
       r # s /\ http2_get_stream(r).upstream_fd # NULL =>
         http2_get_stream(r).upstream_fd # http2_get_stream(s).upstream_fd
  /\ \A s \in Streams : http2_get_stream(s).upstream_ssl => http2_get_stream(s).upstream_fd # NULL
  /\ \A s \in Streams : http2_get_stream(s).upstream_state = "INIT" =>
       http2_get_stream(s).upstream_fd = NULL

\* How many bytes of its request entry e has passed to the end server.
SentOf(e) == IF e.upstream_request = NULL THEN 0 ELSE e.upstream_request.sent

\* An entry that agrees with the bytes q that the end server has received for it and
\* with the n responses submitted for it.
EntryInv(e, q, n) ==
  /\ Len(q) = SentOf(e)
  /\ e.upstream_request # NULL => e.upstream_request.sent <= e.upstream_request.len
  /\ e.upstream_state \in {"READING_RESPONSE", "DONE"} =>
       e.upstream_request # NULL /\ e.upstream_request.sent = e.upstream_request.len
  /\ ~e.upstream_headers_complete => n = 0

Counted(q) == \A i \in 1 .. Len(q) : q[i] = i

ExchangeInv ==
  \A s \in Streams :
    /\ Counted(got[s]) /\ submitted[s] <= 1
    /\ IF loop = "ended" THEN streams[s] = NULL
       ELSE EntryInv(http2_get_stream(s), got[s], submitted[s])

WaitingStreams == {s \in Streams : Waiting(s)}

\* The count covers the streams that wait, of which there are finitely many.
CountInv == IsFiniteSet(WaitingStreams) /\ Cardinality(WaitingStreams) <= active_streams_count

\* The inductive invariant of a connection.
Http2Inv == TypeOK /\ GaugeInv /\ FdInv /\ ExchangeInv /\ CountInv

-----------------------------------------------------------------------------
(* Entries of the table *)

\* A new entry is a stream.
LEMMA NewStreamType == NewStream \in Stream /\ NewStream # NULL
<1>1. NewStream \in Stream
  BY DEF NewStream, Stream, UpstreamStates
<1> QED
  BY <1>1, NullAssumption

\* http2_get_stream returns a stream, which waits if and only if Waiting says so.
LEMMA GetStream ==
  ASSUME TypeOK, NEW s \in Streams
  PROVE  /\ http2_get_stream(s) \in Stream
         /\ streams[s] # NULL => http2_get_stream(s) = streams[s]
         /\ Waiting(s) <=> http2_get_stream(s).request_complete /\ ~http2_get_stream(s).response_complete
<1>1. http2_get_stream(s) \in Stream /\ (streams[s] # NULL => http2_get_stream(s) = streams[s])
  BY NewStreamType DEF TypeOK, http2_get_stream
<1>2. CASE streams[s] = NULL
  BY <1>1, <1>2 DEF Waiting, http2_get_stream, NewStream
<1>3. CASE streams[s] # NULL
  BY <1>1, <1>3 DEF Waiting
<1> QED
  BY <1>1, <1>2, <1>3

\* An assignment to one entry changes that entry and no other.
LEMMA GetStreamSet ==
  ASSUME TypeOK, NEW s \in Streams, NEW e \in Stream, streams' = [streams EXCEPT ![s] = e]
  PROVE  /\ streams' \in [Streams -> Stream \cup {NULL}]
         /\ streams'[s] = e
         /\ http2_get_stream(s)' = e
         /\ \A r \in Streams : r # s => http2_get_stream(r)' = http2_get_stream(r)
  BY NullAssumption DEF TypeOK, http2_get_stream

\* What waits after such an assignment.
LEMMA WaitingSet ==
  ASSUME TypeOK, NEW s \in Streams, NEW e \in Stream, streams' = [streams EXCEPT ![s] = e]
  PROVE  /\ Waiting(s)' <=> e.request_complete /\ ~e.response_complete
         /\ \A r \in Streams : r # s => Waiting(r)' = Waiting(r)
<1>1. streams'[s] = e /\ e # NULL
  BY GetStreamSet, NullAssumption
<1>2. \A r \in Streams : r # s => streams'[r] = streams[r]
  BY DEF TypeOK
<1> QED
  BY <1>1, <1>2 DEF Waiting

-----------------------------------------------------------------------------
(* Steps that set one entry *)

\* An entry that keeps its connection.
SameConnection(e, old) ==
  /\ e.upstream_fd = old.upstream_fd /\ e.upstream_ssl = old.upstream_ssl
  /\ e.upstream_state = "INIT" => old.upstream_state = "INIT"

\* An entry that keeps its exchange.
SameExchange(e, old) ==
  /\ e.upstream_request = old.upstream_request
  /\ e.upstream_headers_complete = old.upstream_headers_complete
  /\ e.upstream_state \in {"READING_RESPONSE", "DONE"} =>
       old.upstream_state \in {"READING_RESPONSE", "DONE"}

\* An entry that waits only if it did.
WaitsLess(e, s) == e.request_complete /\ ~e.response_complete => Waiting(s)

\* The descriptors when the entry keeps its connection.
LEMMA FdKept ==
  ASSUME TypeOK, FdInv, NEW s \in Streams, NEW e \in Stream, streams' = [streams EXCEPT ![s] = e],
         open' = open, SameConnection(e, http2_get_stream(s))
  PROVE  FdInv'
<1>1. /\ http2_get_stream(s)' = e
      /\ \A r \in Streams : r # s => http2_get_stream(r)' = http2_get_stream(r)
  BY GetStreamSet
<1>2. \A r \in Streams : /\ http2_get_stream(r)'.upstream_fd = http2_get_stream(r).upstream_fd
                         /\ http2_get_stream(r)'.upstream_ssl = http2_get_stream(r).upstream_ssl
                         /\ (http2_get_stream(r)'.upstream_state = "INIT" =>
                               http2_get_stream(r).upstream_state = "INIT")
  BY <1>1 DEF SameConnection
<1> QED
  BY <1>2 DEF FdInv

\* The exchanges when the entry agrees with what was sent and submitted.
LEMMA ExchangeKept ==
  ASSUME TypeOK, ExchangeInv, loop # "ended", loop' # "ended", NEW s \in Streams, NEW e \in Stream,
         streams' = [streams EXCEPT ![s] = e],
         \A r \in Streams : r # s => got'[r] = got[r] /\ submitted'[r] = submitted[r],
         Counted(got'[s]), submitted'[s] <= 1, EntryInv(e, got'[s], submitted'[s])
  PROVE  ExchangeInv'
<1>1. /\ http2_get_stream(s)' = e
      /\ \A r \in Streams : r # s => http2_get_stream(r)' = http2_get_stream(r)
  BY GetStreamSet
<1> SUFFICES ASSUME NEW r \in Streams
             PROVE  /\ Counted(got'[r]) /\ submitted'[r] <= 1
                    /\ EntryInv(http2_get_stream(r)', got'[r], submitted'[r])
  BY DEF ExchangeInv, EntryInv, SentOf, Counted
<1>2. CASE r = s
  BY <1>1, <1>2
<1>3. CASE r # s
  BY <1>1, <1>3 DEF ExchangeInv
<1> QED
  BY <1>2, <1>3

\* The same when nothing was sent or submitted.
LEMMA ExchangeSame ==
  ASSUME TypeOK, ExchangeInv, loop # "ended", loop' # "ended", NEW s \in Streams, NEW e \in Stream,
         streams' = [streams EXCEPT ![s] = e], got' = got, submitted' = submitted,
         SameExchange(e, http2_get_stream(s))
  PROVE  ExchangeInv'
<1>1. EntryInv(http2_get_stream(s), got[s], submitted[s]) /\ Counted(got[s]) /\ submitted[s] <= 1
  BY DEF ExchangeInv
<1>2. EntryInv(e, got[s], submitted[s])
  BY <1>1 DEF EntryInv, SameExchange, SentOf
<1> QED
  BY <1>1, <1>2, ExchangeKept

\* The count when the set of those that wait does not grow.
LEMMA CountKept ==
  ASSUME TypeOK, CountInv, NEW s \in Streams, NEW e \in Stream, streams' = [streams EXCEPT ![s] = e],
         WaitsLess(e, s), active_streams_count' = active_streams_count
  PROVE  CountInv'
<1>1. WaitingStreams' \subseteq WaitingStreams
  BY WaitingSet DEF WaitingStreams, WaitsLess
<1>2. IsFiniteSet(WaitingStreams') /\ Cardinality(WaitingStreams') <= Cardinality(WaitingStreams)
      /\ Cardinality(WaitingStreams) \in Nat /\ Cardinality(WaitingStreams') \in Nat
  BY <1>1, FS_Subset, FS_CardinalityType DEF CountInv
<1>3. Cardinality(WaitingStreams') <= active_streams_count
  <2> DEFINE a == Cardinality(WaitingStreams')
             b == Cardinality(WaitingStreams)
  <2>1. a \in Nat /\ b \in Nat /\ a <= b /\ b <= active_streams_count
    BY <1>2 DEF CountInv
  <2> HIDE DEF a, b
  <2>2. a <= active_streams_count
    BY <2>1 DEF TypeOK
  <2> QED
    BY <2>2 DEF a
<1> QED
  BY <1>2, <1>3 DEF CountInv

\* The count when a stream that may not have waited is counted.
LEMMA CountMore ==
  ASSUME TypeOK, CountInv, NEW s \in Streams, NEW e \in Stream, streams' = [streams EXCEPT ![s] = e],
         active_streams_count' = active_streams_count + 1
  PROVE  CountInv'
<1>1. WaitingStreams' \subseteq WaitingStreams \cup {s}
  BY WaitingSet DEF WaitingStreams
<1>2. /\ IsFiniteSet(WaitingStreams \cup {s})
      /\ Cardinality(WaitingStreams) \in Nat
      /\ Cardinality(WaitingStreams \cup {s}) <= Cardinality(WaitingStreams) + 1
  <2>1. IsFiniteSet(WaitingStreams) /\ Cardinality(WaitingStreams) \in Nat
    BY FS_CardinalityType DEF CountInv
  <2>2. /\ IsFiniteSet(WaitingStreams \cup {s})
        /\ \/ Cardinality(WaitingStreams \cup {s}) = Cardinality(WaitingStreams)
           \/ Cardinality(WaitingStreams \cup {s}) = Cardinality(WaitingStreams) + 1
    BY <2>1, FS_AddElement
  <2> QED
    BY <2>1, <2>2
<1>3. /\ IsFiniteSet(WaitingStreams')
      /\ Cardinality(WaitingStreams') <= Cardinality(WaitingStreams \cup {s})
      /\ Cardinality(WaitingStreams') \in Nat /\ Cardinality(WaitingStreams \cup {s}) \in Nat
  BY <1>1, <1>2, FS_Subset, FS_CardinalityType
<1>4. Cardinality(WaitingStreams') <= active_streams_count'
  <2> DEFINE a == Cardinality(WaitingStreams')
             b == Cardinality(WaitingStreams \cup {s})
             c == Cardinality(WaitingStreams)
  <2>1. a \in Nat /\ b \in Nat /\ c \in Nat /\ a <= b /\ b <= c + 1 /\ c <= active_streams_count
    BY <1>2, <1>3 DEF CountInv
  <2> HIDE DEF a, b, c
  <2>2. a <= active_streams_count'
    BY <2>1 DEF TypeOK
  <2> QED
    BY <2>2 DEF a
<1> QED
  BY <1>3, <1>4 DEF CountInv

\* The count when a stream that waited is done.
LEMMA CountLess ==
  ASSUME TypeOK, CountInv, NEW s \in Streams, NEW e \in Stream, streams' = [streams EXCEPT ![s] = e],
         Waiting(s), e.response_complete, active_streams_count' = active_streams_count - 1
  PROVE  CountInv' /\ active_streams_count' \in Nat
<1>1. WaitingStreams' = WaitingStreams \ {s} /\ s \in WaitingStreams
  BY WaitingSet DEF WaitingStreams
<1>2. /\ IsFiniteSet(WaitingStreams) /\ Cardinality(WaitingStreams) \in Nat
      /\ IsFiniteSet(WaitingStreams')
      /\ Cardinality(WaitingStreams') = Cardinality(WaitingStreams) - 1
      /\ Cardinality(WaitingStreams') \in Nat
  BY <1>1, FS_RemoveElement, FS_CardinalityType DEF CountInv
<1>3. Cardinality(WaitingStreams') <= active_streams_count' /\ active_streams_count' \in Nat
  <2> DEFINE a == Cardinality(WaitingStreams')
             b == Cardinality(WaitingStreams)
  <2>1. a \in Nat /\ b \in Nat /\ a = b - 1 /\ b <= active_streams_count
    BY <1>2 DEF CountInv
  <2> HIDE DEF a, b
  <2>2. a <= active_streams_count' /\ active_streams_count' \in Nat
    BY <2>1 DEF TypeOK
  <2> QED
    BY <2>2 DEF a
<1> QED
  BY <1>2, <1>3 DEF CountInv

-----------------------------------------------------------------------------
(* The loop, and the input *)

\* A connection starts without streams.
LEMMA InitHttp2 == Init => Http2Inv
<1> SUFFICES ASSUME Init PROVE Http2Inv
  OBVIOUS
<1>1. TypeOK /\ GaugeInv
  BY DEF Init, TypeOK, GaugeInv
<1>2. \A s \in Streams : http2_get_stream(s) = NewStream /\ ~Waiting(s)
  BY DEF Init, http2_get_stream, Waiting
<1>3. FdInv
  BY <1>2, Http2Assumption DEF Init, FdInv, NewStream
<1>4. ExchangeInv
  BY <1>2 DEF Init, ExchangeInv, EntryInv, SentOf, Counted, NewStream
<1>5. CountInv
  <2>1. WaitingStreams = {}
    BY <1>2 DEF WaitingStreams
  <2> QED
    BY <2>1, FS_EmptySet DEF Init, CountInv
<1> QED
  BY <1>1, <1>3, <1>4, <1>5 DEF Http2Inv

\* A step that leaves the table, the descriptors, the count and the exchanges alone.
LEMMA QuietHttp2 ==
  ASSUME Http2Inv, UNCHANGED <<streams, active_streams_count, open, got, submitted>>,
         loop' = "ended" <=> loop = "ended"
  PROVE  FdInv' /\ ExchangeInv' /\ CountInv'
<1>1. \A s \in Streams : http2_get_stream(s)' = http2_get_stream(s)
  BY DEF http2_get_stream
<1>2. FdInv'
  BY <1>1 DEF Http2Inv, FdInv
<1>3. ExchangeInv'
  BY <1>1 DEF Http2Inv, ExchangeInv
<1>4. WaitingStreams' = WaitingStreams
  BY DEF WaitingStreams, Waiting
<1>5. CountInv'
  BY <1>4 DEF Http2Inv, CountInv
<1> QED
  BY <1>2, <1>3, <1>5

\* The steps of the loop but the cleanup.
LEMMA LoopHttp2 ==
  ASSUME Http2Inv, Start \/ ReadEnds \/ InputDone \/ ProcessDone \/ SendPending
  PROVE  Http2Inv'
<1>1. /\ UNCHANGED <<streams, active_streams_count, open, frame, client, body, got, submitted>>
      /\ loop # "ended" /\ loop' # "ended"
  BY DEF Start, ReadEnds, InputDone, ProcessDone, SendPending, history
<1>2. FdInv' /\ ExchangeInv' /\ CountInv'
  BY <1>1, QuietHttp2
<1>3. GaugeInv' /\ http2_active_connections' \in {0, 1}
  BY DEF Start, ReadEnds, InputDone, ProcessDone, SendPending, Http2Inv, GaugeInv
<1>4. /\ loop' \in {"start", "read", "input", "process", "send", "closing", "ended", "failed", "crashed"}
      /\ cursor' \subseteq Streams
  BY DEF Start, ReadEnds, InputDone, ProcessDone, SendPending, Http2Inv, TypeOK, Entries
<1>5. TypeOK'
  BY <1>1, <1>3, <1>4 DEF Http2Inv, TypeOK
<1> QED
  BY <1>2, <1>3, <1>5 DEF Http2Inv

\* http2_cleanup_context closes every descriptor, as every one belongs to an entry.
LEMMA CleanupHttp2 ==
  ASSUME Http2Inv, Cleanup
  PROVE  Http2Inv'
<1>1. TypeOK' /\ GaugeInv'
  BY DEF Cleanup, Http2Inv, TypeOK, GaugeInv, history
<1>2. \A s \in Streams : http2_get_stream(s)' = NewStream /\ ~Waiting(s)'
  BY DEF Cleanup, http2_get_stream, Waiting
<1>3. open' = {}
  <2> SUFFICES ASSUME NEW f \in open PROVE f \in {streams[s].upstream_fd : s \in Entries}
    BY DEF Cleanup
  <2>1. f \in Fds /\ f # NULL
    BY Http2Assumption DEF Http2Inv, TypeOK
  <2>2. PICK s \in Streams : http2_get_stream(s).upstream_fd = f
    BY <2>1 DEF Http2Inv, FdInv
  <2>3. streams[s] # NULL
    BY <2>1, <2>2 DEF http2_get_stream, NewStream
  <2> QED
    BY <2>2, <2>3 DEF http2_get_stream, Entries
<1>4. FdInv'
  BY <1>2, <1>3, Http2Assumption DEF FdInv, NewStream
<1>5. ExchangeInv'
  BY DEF Cleanup, history, Http2Inv, ExchangeInv
<1>6. CountInv'
  <2>1. WaitingStreams' = {}
    BY <1>2 DEF WaitingStreams
  <2> QED
    BY <2>1, FS_EmptySet DEF Cleanup, Http2Inv, TypeOK, CountInv
<1> QED
  BY <1>1, <1>4, <1>5, <1>6 DEF Http2Inv

\* HEADERS: a request or its trailers.
LEMMA HeadersHttp2 ==
  ASSUME Http2Inv, NEW s \in Streams, NEW pseudo \in SUBSET PseudoHeaders, NEW end \in BOOLEAN,
         on_headers(s, pseudo, end)
  PROVE  Http2Inv'
<1> DEFINE old == http2_get_stream(s)
           e == [old EXCEPT !.pseudo = pseudo, !.body_len = 0,
                            !.request_complete = end, !.response_complete = FALSE]
<1>1. old \in Stream
  BY GetStream DEF Http2Inv
<1>2. /\ e \in Stream /\ SameConnection(e, old) /\ SameExchange(e, old)
      /\ e.request_complete = end
  BY <1>1 DEF Stream, SameConnection, SameExchange
<1>3. /\ streams' = [streams EXCEPT ![s] = e] /\ loop \in {"read", "input"} /\ loop' = "input"
      /\ UNCHANGED <<cursor, open, http2_active_connections, submitted, got, frame, body>>
      /\ active_streams_count' = active_streams_count + (IF end THEN 1 ELSE 0)
      /\ client' = [client EXCEPT ![s] = IF end THEN "ended" ELSE "open"]
  BY DEF on_headers, Reading, inputUnchanged
<1> HIDE DEF old, e
<1>4. FdInv'
  BY <1>2, <1>3, FdKept DEF Http2Inv, old
<1>5. ExchangeInv'
  BY <1>2, <1>3, ExchangeSame DEF Http2Inv, old
<1>6. CountInv'
  <2>1. CASE end
    BY <1>2, <1>3, <2>1, CountMore DEF Http2Inv
  <2>2. CASE ~end
    <3>1. active_streams_count' = active_streams_count /\ WaitsLess(e, s)
      BY <1>2, <1>3, <2>2 DEF Http2Inv, TypeOK, WaitsLess
    <3> QED
      BY <1>2, <1>3, <3>1, CountKept DEF Http2Inv
  <2> QED
    BY <2>1, <2>2
<1>7. streams' \in [Streams -> Stream \cup {NULL}]
  BY <1>2, <1>3, GetStreamSet DEF Http2Inv
<1>8. TypeOK' /\ GaugeInv'
  BY <1>3, <1>7 DEF Http2Inv, TypeOK, GaugeInv
<1> QED
  BY <1>4, <1>5, <1>6, <1>8 DEF Http2Inv

\* The header of a DATA frame.
LEMMA DataFrameHttp2 ==
  ASSUME Http2Inv, NEW s \in Streams, NEW n \in 0 .. MaxChunks, NEW end \in BOOLEAN,
         DataFrame(s, n, end)
  PROVE  Http2Inv'
<1>1. n \in Nat
  BY Http2Assumption
<1>2. FdInv' /\ ExchangeInv' /\ CountInv'
  BY QuietHttp2 DEF DataFrame, Reading, inputUnchanged
<1>3. TypeOK' /\ GaugeInv'
  BY <1>1 DEF DataFrame, Reading, inputUnchanged, Http2Inv, TypeOK, GaugeInv
<1> QED
  BY <1>2, <1>3 DEF Http2Inv

\* A chunk of a DATA frame, or its end: with END_STREAM the stream is counted.
LEMMA DataHttp2 ==
  ASSUME Http2Inv, NEW s \in Streams, on_data_chunk_recv_callback(s) \/ on_data_frame(s)
  PROVE  Http2Inv'
<1> DEFINE old == http2_get_stream(s)
           end == frame[s].end
<1>1. old \in Stream /\ (Waiting(s) <=> old.request_complete /\ ~old.response_complete)
  BY GetStream DEF Http2Inv
<1>2. frame[s] \in [left : Nat, end : BOOLEAN]
  BY DEF on_data_chunk_recv_callback, on_data_frame, Http2Inv, TypeOK
<1>3. PICK e \in Stream :
        /\ streams' = [streams EXCEPT ![s] = e]
        /\ SameConnection(e, old) /\ SameExchange(e, old)
        /\ e.request_complete = (old.request_complete \/ end)
        /\ e.response_complete = old.response_complete
  <2>1. CASE on_data_chunk_recv_callback(s)
    <3> DEFINE c == old.request_complete \/ end
               n == old.body_len + 1
               e == [old EXCEPT !.body_len = n, !.request_complete = c]
    <3>1. c \in BOOLEAN /\ n \in Nat
      BY <1>1, <1>2 DEF Stream
    <3>2. streams' = [streams EXCEPT ![s] = e]
      BY <2>1 DEF on_data_chunk_recv_callback
    <3> HIDE DEF c, n
    <3>3. /\ e \in Stream /\ SameConnection(e, old) /\ SameExchange(e, old)
          /\ e.request_complete = c
          /\ e.response_complete = old.response_complete
      BY <1>1, <3>1 DEF Stream, SameConnection, SameExchange
    <3> QED
      BY <3>2, <3>3 DEF c
  <2>2. CASE on_data_frame(s)
    <3> DEFINE e == [old EXCEPT !.request_complete = @ \/ end]
    <3>1. /\ e \in Stream /\ SameConnection(e, old) /\ SameExchange(e, old)
          /\ e.request_complete = (old.request_complete \/ end)
          /\ e.response_complete = old.response_complete
      BY <1>1, <1>2 DEF Stream, SameConnection, SameExchange
    <3>2. streams' = [streams EXCEPT ![s] = e]
      BY <2>2 DEF on_data_frame
    <3> QED
      BY <3>1, <3>2
  <2> QED
    BY <2>1, <2>2
<1>4. /\ loop \in {"read", "input"} /\ loop' = "input"
      /\ UNCHANGED <<cursor, open, http2_active_connections, submitted, got, body>>
      /\ active_streams_count' = active_streams_count + (IF end THEN 1 ELSE 0)
      /\ end \in BOOLEAN
  BY <1>2 DEF on_data_chunk_recv_callback, on_data_frame, Reading, inputUnchanged
<1>5. /\ frame' \in [Streams -> [left : Nat, end : BOOLEAN] \cup {NULL}]
      /\ client' \in [Streams -> {"idle", "open", "ended"}]
  <2>1. CASE on_data_chunk_recv_callback(s)
    <3>1. [frame[s] EXCEPT !.left = @ - 1] \in [left : Nat, end : BOOLEAN]
      BY <1>2, <2>1 DEF on_data_chunk_recv_callback
    <3>2. frame' = [frame EXCEPT ![s] = [frame[s] EXCEPT !.left = @ - 1]] /\ client' = client
      BY <2>1 DEF on_data_chunk_recv_callback, Http2Inv, TypeOK
    <3> QED
      BY <3>1, <3>2 DEF Http2Inv, TypeOK
  <2>2. CASE on_data_frame(s)
    BY <2>2 DEF on_data_frame, Http2Inv, TypeOK
  <2> QED
    BY <2>1, <2>2
<1> HIDE DEF old, end
<1>6. FdInv'
  BY <1>3, <1>4, FdKept DEF Http2Inv, old
<1>7. ExchangeInv'
  BY <1>3, <1>4, ExchangeSame DEF Http2Inv, old
<1>8. CountInv'
  <2>1. CASE end
    BY <1>3, <1>4, <2>1, CountMore DEF Http2Inv
  <2>2. CASE ~end
    <3>1. active_streams_count' = active_streams_count
      BY <1>4, <2>2 DEF Http2Inv, TypeOK
    <3>2. WaitsLess(e, s)
      BY <1>1, <1>3, <2>2 DEF WaitsLess
    <3> QED
      BY <1>3, <3>1, <3>2, CountKept DEF Http2Inv
  <2> QED
    BY <1>4, <2>1, <2>2
<1>9. streams' \in [Streams -> Stream \cup {NULL}]
  BY <1>3, GetStreamSet DEF Http2Inv
<1>10. TypeOK' /\ GaugeInv'
  BY <1>4, <1>5, <1>9 DEF Http2Inv, TypeOK, GaugeInv
<1> QED
  BY <1>6, <1>7, <1>8, <1>10 DEF Http2Inv

\* Any other frame creates an entry at most.
LEMMA OtherFrameHttp2 ==
  ASSUME Http2Inv, NEW s \in Streams, on_other_frame(s)
  PROVE  Http2Inv'
<1> DEFINE old == http2_get_stream(s)
<1>1. old \in Stream /\ (Waiting(s) <=> old.request_complete /\ ~old.response_complete)
  BY GetStream DEF Http2Inv
<1>2. /\ streams' = [streams EXCEPT ![s] = old]
      /\ loop \in {"read", "input"} /\ loop' = "input"
      /\ UNCHANGED <<cursor, open, http2_active_connections, submitted, got, body, frame, client,
                     active_streams_count>>
  BY DEF on_other_frame, Reading, inputUnchanged
<1>3. SameConnection(old, old) /\ SameExchange(old, old) /\ WaitsLess(old, s)
  BY <1>1 DEF SameConnection, SameExchange, WaitsLess
<1>4. FdInv'
  BY <1>1, <1>2, <1>3, FdKept DEF Http2Inv
<1>5. ExchangeInv'
  BY <1>1, <1>2, <1>3, ExchangeSame DEF Http2Inv
<1>6. CountInv'
  BY <1>1, <1>2, <1>3, CountKept DEF Http2Inv
<1>7. streams' \in [Streams -> Stream \cup {NULL}]
  BY <1>1, <1>2, GetStreamSet DEF Http2Inv
<1>8. TypeOK' /\ GaugeInv'
  BY <1>2, <1>7 DEF Http2Inv, TypeOK, GaugeInv
<1> QED
  BY <1>4, <1>5, <1>6, <1>8 DEF Http2Inv

-----------------------------------------------------------------------------
(* http2_process_stream *)

\* A stream that is stepped has an entry, and the loop goes on.
LEMMA SteppedTypes ==
  ASSUME Http2Inv, NEW s \in Streams, NEW st, NEW e \in Stream, Stepped(s, st, e),
         active_streams_count' \in Nat, open' \subseteq Fds, submitted' \in [Streams -> Nat],
         got' \in [Streams -> Seq(Nat)]
  PROVE  TypeOK' /\ GaugeInv'
<1>1. /\ streams' = [streams EXCEPT ![s] = e] /\ loop' = loop /\ cursor' \subseteq cursor
      /\ UNCHANGED <<http2_active_connections, frame, client, body>>
  BY DEF Stepped
<1>2. streams' \in [Streams -> Stream \cup {NULL}]
  BY <1>1, GetStreamSet DEF Http2Inv
<1> QED
  BY <1>1, <1>2 DEF Http2Inv, TypeOK, GaugeInv

\* The entry that is stepped.
LEMMA SteppedEntry ==
  ASSUME Http2Inv, NEW s \in Streams, Turn(s), Waiting(s)
  PROVE  /\ streams[s] \in Stream /\ http2_get_stream(s) = streams[s] /\ loop = "process"
         /\ streams[s].request_complete /\ ~streams[s].response_complete
         /\ EntryInv(streams[s], got[s], submitted[s]) /\ Counted(got[s]) /\ submitted[s] <= 1
<1>1. streams[s] # NULL /\ loop = "process"
  BY DEF Waiting, Turn
<1>2. streams[s] \in Stream /\ http2_get_stream(s) = streams[s]
  BY <1>1, GetStream DEF Http2Inv
<1> QED
  BY <1>1, <1>2 DEF Http2Inv, ExchangeInv, Waiting

\* A step that changes nothing but the state of the stream.
LEMMA QuietStep ==
  ASSUME Http2Inv, NEW s \in Streams, NEW st, NEW e \in Stream, Stepped(s, st, e), UNCHANGED quiet,
         SameConnection(e, streams[s]), SameExchange(e, streams[s])
  PROVE  Http2Inv'
<1>1. Turn(s) /\ Waiting(s) /\ streams' = [streams EXCEPT ![s] = e]
      /\ UNCHANGED <<active_streams_count, open, submitted, got>>
  BY DEF Stepped, quiet
<1>2. http2_get_stream(s) = streams[s] /\ loop # "ended" /\ loop' # "ended"
  BY <1>1, SteppedEntry DEF Stepped
<1>3. TypeOK' /\ GaugeInv'
  BY <1>1, SteppedTypes DEF Http2Inv, TypeOK
<1>4. FdInv'
  BY <1>1, <1>2, FdKept DEF Http2Inv
<1>5. ExchangeInv'
  BY <1>1, <1>2, ExchangeSame DEF Http2Inv
<1>6. CountInv'
  BY <1>1, CountKept DEF Http2Inv, WaitsLess
<1> QED
  BY <1>3, <1>4, <1>5, <1>6 DEF Http2Inv

\* No progress, and the steps of connecting that open and close nothing.
LEMMA NoFdHttp2 ==
  ASSUME Http2Inv, NEW s \in Streams, NoProgress(s) \/ ConnectThenError(s) \/ Connected(s)
  PROVE  Http2Inv'
<1>1. Turn(s) /\ Waiting(s) /\ UNCHANGED quiet
  BY DEF NoProgress, ConnectThenError, Connected
<1>2. streams[s] \in Stream
  BY <1>1, SteppedEntry
<1>3. CASE NoProgress(s)
  <2>1. SameConnection(streams[s], streams[s]) /\ SameExchange(streams[s], streams[s])
    BY DEF SameConnection, SameExchange
  <2>2. Stepped(s, streams[s].upstream_state, streams[s])
    BY <1>3 DEF NoProgress
  <2> QED
    BY <1>1, <1>2, <2>1, <2>2, QuietStep
<1>4. CASE ConnectThenError(s) \/ Connected(s)
  <2> DEFINE e == [streams[s] EXCEPT !.upstream_state = "SENDING_REQUEST"]
  <2>1. e \in Stream /\ SameConnection(e, streams[s]) /\ SameExchange(e, streams[s])
    BY <1>2 DEF Stream, UpstreamStates, SameConnection, SameExchange
  <2>2. \E st : Stepped(s, st, e)
    BY <1>4 DEF ConnectThenError, Connected
  <2> HIDE DEF e
  <2> QED
    BY <1>1, <2>1, <2>2, QuietStep
<1> QED
  BY <1>3, <1>4 DEF NoProgress, ConnectThenError, Connected

\* A stream in INIT has no descriptor, and gets one that nobody else has.
LEMMA ConnectHttp2 ==
  ASSUME Http2Inv, NEW s \in Streams, NEW f \in Fds, NEW st \in {"CONNECTING", "SENDING_REQUEST"},
         Connect(s, f, st)
  PROVE  Http2Inv'
<1> DEFINE e == [streams[s] EXCEPT !.upstream_fd = f, !.upstream_ssl = TRUE, !.upstream_state = st]
<1>1. Turn(s) /\ Waiting(s) /\ f \notin open /\ streams[s].upstream_state = "INIT"
  BY DEF Connect, Stepped
<1>2. /\ streams[s] \in Stream /\ http2_get_stream(s) = streams[s] /\ loop # "ended"
  BY <1>1, SteppedEntry
<1>3. /\ e \in Stream /\ e.upstream_fd = f /\ e.upstream_state = st /\ SameExchange(e, streams[s])
  BY <1>2 DEF Stream, UpstreamStates, SameExchange
<1>4. Stepped(s, "INIT", e) /\ open' = open \cup {f} /\ UNCHANGED <<active_streams_count, submitted, got>>
  BY DEF Connect
<1> HIDE DEF e
<1>5. streams' = [streams EXCEPT ![s] = e] /\ loop' = loop
  BY <1>4 DEF Stepped
<1>6. TypeOK' /\ GaugeInv'
  <2>1. open' \subseteq Fds
    BY <1>4 DEF Http2Inv, TypeOK
  <2> QED
    BY <1>3, <1>4, <2>1, SteppedTypes DEF Http2Inv, TypeOK
<1>7. FdInv'
  <2>1. /\ http2_get_stream(s)' = e
        /\ \A r \in Streams : r # s => http2_get_stream(r)' = http2_get_stream(r)
    BY <1>3, <1>5, GetStreamSet DEF Http2Inv
  <2>2. http2_get_stream(s).upstream_fd = NULL
    BY <1>1, <1>2 DEF Http2Inv, FdInv
  <2>3. \A r \in Streams : http2_get_stream(r).upstream_fd # f
    BY <1>1 DEF Http2Inv, FdInv
  <2>4. f # NULL
    BY Http2Assumption
  <2>5. \A g \in Fds : g \in open' <=> \E r \in Streams : http2_get_stream(r)'.upstream_fd = g
    <3>1. \A g \in Fds : g \in open <=> \E r \in Streams : http2_get_stream(r).upstream_fd = g
      BY DEF Http2Inv, FdInv
    <3>2. \A g \in Fds : g # f => ((\E r \in Streams : http2_get_stream(r)'.upstream_fd = g)
                                    <=> \E r \in Streams : http2_get_stream(r).upstream_fd = g)
      BY <1>3, <2>1, <2>2, Http2Assumption
    <3>3. \E r \in Streams : http2_get_stream(r)'.upstream_fd = f
      BY <1>3, <2>1
    <3> QED
      BY <1>4, <3>1, <3>2, <3>3
  <2>6. \A r, q \in Streams : r # q /\ http2_get_stream(r)'.upstream_fd # NULL =>
          http2_get_stream(r)'.upstream_fd # http2_get_stream(q)'.upstream_fd
    BY <1>3, <2>1, <2>3 DEF Http2Inv, FdInv
  <2>7. \A r \in Streams :
          /\ http2_get_stream(r)'.upstream_ssl => http2_get_stream(r)'.upstream_fd # NULL
          /\ http2_get_stream(r)'.upstream_state = "INIT" => http2_get_stream(r)'.upstream_fd = NULL
    BY <1>3, <2>1, <2>4 DEF Http2Inv, FdInv
  <2> QED
    BY <2>5, <2>6, <2>7 DEF FdInv
<1>8. ExchangeInv'
  BY <1>2, <1>3, <1>4, <1>5, ExchangeSame DEF Http2Inv
<1>9. CountInv'
  BY <1>1, <1>3, <1>4, <1>5, CountKept DEF Http2Inv, WaitsLess
<1> QED
  BY <1>6, <1>7, <1>8, <1>9 DEF Http2Inv

\* A connection that failed is closed and forgotten.
LEMMA ConnectErrorHttp2 ==
  ASSUME Http2Inv, NEW s \in Streams, ConnectError(s)
  PROVE  Http2Inv'
<1> DEFINE e == [streams[s] EXCEPT !.upstream_ssl = FALSE, !.upstream_fd = NULL]
           f == streams[s].upstream_fd
<1>1. Turn(s) /\ Waiting(s) /\ f # NULL
  BY DEF ConnectError
<1>2. /\ streams[s] \in Stream /\ http2_get_stream(s) = streams[s] /\ loop # "ended"
  BY <1>1, SteppedEntry
<1>3. /\ e \in Stream /\ e.upstream_fd = NULL /\ e.upstream_ssl = FALSE /\ SameExchange(e, streams[s])
      /\ e.upstream_state = streams[s].upstream_state
  BY <1>2 DEF Stream, SameExchange
<1>4. Stepped(s, "CONNECTING", e) /\ open' = open \ {f} /\ UNCHANGED <<active_streams_count, submitted, got>>
  BY DEF ConnectError
<1> HIDE DEF e
<1>5. streams' = [streams EXCEPT ![s] = e] /\ loop' = loop
  BY <1>4 DEF Stepped
<1>6. TypeOK' /\ GaugeInv'
  <2>1. open' \subseteq Fds
    BY <1>4 DEF Http2Inv, TypeOK
  <2> QED
    BY <1>3, <1>4, <2>1, SteppedTypes DEF Http2Inv, TypeOK
<1>7. FdInv'
  <2>1. /\ http2_get_stream(s)' = e
        /\ \A r \in Streams : r # s => http2_get_stream(r)' = http2_get_stream(r)
    BY <1>3, <1>5, GetStreamSet DEF Http2Inv
  <2>2. http2_get_stream(s).upstream_fd = f
    BY <1>2
  <2>3. \A r \in Streams : r # s => http2_get_stream(r).upstream_fd # f
    BY <1>1, <2>2 DEF Http2Inv, FdInv
  <2>4. \A g \in Fds : g \in open' <=> \E r \in Streams : http2_get_stream(r)'.upstream_fd = g
    <3>1. \A g \in Fds : g \in open <=> \E r \in Streams : http2_get_stream(r).upstream_fd = g
      BY DEF Http2Inv, FdInv
    <3>2. \A g \in Fds : g # f => ((\E r \in Streams : http2_get_stream(r)'.upstream_fd = g)
                                    <=> \E r \in Streams : http2_get_stream(r).upstream_fd = g)
      BY <1>3, <2>1, <2>2, Http2Assumption
    <3>3. \A r \in Streams : http2_get_stream(r)'.upstream_fd # f
      BY <1>1, <1>3, <2>1, <2>3
    <3> QED
      BY <1>4, <3>1, <3>2, <3>3
  <2>5. \A r, q \in Streams : r # q /\ http2_get_stream(r)'.upstream_fd # NULL =>
          http2_get_stream(r)'.upstream_fd # http2_get_stream(q)'.upstream_fd
    BY <1>3, <2>1 DEF Http2Inv, FdInv
  <2>6. \A r \in Streams :
          /\ http2_get_stream(r)'.upstream_ssl => http2_get_stream(r)'.upstream_fd # NULL
          /\ http2_get_stream(r)'.upstream_state = "INIT" => http2_get_stream(r)'.upstream_fd = NULL
    BY <1>3, <2>1 DEF Http2Inv, FdInv
  <2> QED
    BY <2>4, <2>5, <2>6 DEF FdInv
<1>8. ExchangeInv'
  BY <1>2, <1>3, <1>4, <1>5, ExchangeSame DEF Http2Inv
<1>9. CountInv'
  BY <1>1, <1>3, <1>4, <1>5, CountKept DEF Http2Inv, WaitsLess
<1> QED
  BY <1>6, <1>7, <1>8, <1>9 DEF Http2Inv

\* The next n numbers join the numbers from 1 on.
LEMMA CountedConcat ==
  ASSUME NEW q \in Seq(Nat), Counted(q), NEW n \in Nat, NEW w, w = [i \in 1 .. n |-> Len(q) + i]
  PROVE  /\ q \o w \in Seq(Nat) /\ Len(q \o w) = Len(q) + n /\ Counted(q \o w)
<1>1. Len(q) \in Nat
  OBVIOUS
<1>2. w \in Seq(Nat) /\ Len(w) = n
  <2>1. w \in [1 .. n -> Nat]
    BY <1>1
  <2> QED
    BY <2>1, IsASeq, LenProperties
<1>3. /\ q \o w \in Seq(Nat) /\ Len(q \o w) = Len(q) + n
      /\ \A i \in 1 .. Len(q) + n : (q \o w)[i] = IF i <= Len(q) THEN q[i] ELSE w[i - Len(q)]
  BY <1>2, ConcatProperties
<1>4. Counted(q \o w)
  <2> SUFFICES ASSUME NEW i \in 1 .. Len(q) + n PROVE (q \o w)[i] = i
    BY <1>3 DEF Counted
  <2>1. CASE i <= Len(q)
    <3>1. i \in 1 .. Len(q)
      BY <1>1, <2>1
    <3> QED
      BY <1>3, <2>1, <3>1 DEF Counted
  <2>2. CASE ~(i <= Len(q))
    <3>1. i - Len(q) \in 1 .. n /\ Len(q) + (i - Len(q)) = i
      BY <1>1, <2>2
    <3>2. w[i - Len(q)] = Len(q) + (i - Len(q))
      BY <3>1
    <3> QED
      BY <1>3, <2>2, <3>1, <3>2
  <2> QED
    BY <2>1, <2>2
<1> QED
  BY <1>3, <1>4

\* SSL_write goes on where it stopped: the end server has the first r.sent bytes.
LEMMA SendRequestHttp2 ==
  ASSUME Http2Inv, NEW s \in Streams, NEW n \in 0 .. HeadLen + MaxBody, SendRequest(s, n)
  PROVE  Http2Inv'
<1> DEFINE r == Request(streams[s])
           st == IF r.sent + n = r.len THEN "READING_RESPONSE" ELSE streams[s].upstream_state
           rn == [r EXCEPT !.sent = @ + n]
           e == [streams[s] EXCEPT !.upstream_request = rn, !.upstream_state = st]
<1>1. Turn(s) /\ Waiting(s) /\ n \in Nat /\ n \in 0 .. r.len - r.sent
  BY Http2Assumption DEF SendRequest
<1>2. /\ streams[s] \in Stream /\ http2_get_stream(s) = streams[s] /\ loop # "ended"
      /\ EntryInv(streams[s], got[s], submitted[s]) /\ Counted(got[s]) /\ submitted[s] <= 1
  BY <1>1, SteppedEntry
<1>3. /\ Stepped(s, "SENDING_REQUEST", e) /\ got' = [got EXCEPT ![s] = @ \o Written(r, n)]
      /\ UNCHANGED <<active_streams_count, open, submitted>>
  BY DEF SendRequest
<1>4. /\ streams' = [streams EXCEPT ![s] = e] /\ streams[s].upstream_state = "SENDING_REQUEST"
      /\ loop' = loop
  BY <1>3 DEF Stepped
<1>5. r \in [len : Nat, sent : Nat] /\ r.sent = Len(got[s]) /\ r.sent <= r.len
  <2>1. CASE streams[s].upstream_request = NULL
    <3>1. HeadLen + streams[s].body_len \in Nat
      BY <1>2, Http2Assumption DEF Stream
    <3>2. r = [len |-> HeadLen + streams[s].body_len, sent |-> 0]
      BY <2>1 DEF Request
    <3>3. Len(got[s]) = 0
      BY <1>2, <2>1 DEF EntryInv, SentOf
    <3> QED
      BY <3>1, <3>2, <3>3
  <2>2. CASE streams[s].upstream_request # NULL
    <3>1. r = streams[s].upstream_request /\ r \in [len : Nat, sent : Nat]
      BY <1>2, <2>2 DEF Request, Stream
    <3> QED
      BY <1>2, <2>2, <3>1 DEF EntryInv, SentOf
  <2> QED
    BY <2>1, <2>2
<1>6. r.len \in Nat /\ r.sent \in Nat /\ r.sent + n <= r.len /\ r.sent + n \in Nat
  BY <1>1, <1>5
<1>7. rn \in [len : Nat, sent : Nat] /\ rn.len = r.len /\ rn.sent = r.sent + n /\ rn # NULL
  BY <1>5, <1>6, NullAssumption
<1>8. st \in {"SENDING_REQUEST", "READING_RESPONSE"}
      /\ (st = "READING_RESPONSE" => r.sent + n = r.len)
  BY <1>4
<1> HIDE DEF r, rn, st
<1>9. /\ e \in Stream /\ e.upstream_request = rn /\ e.upstream_state = st
      /\ e.upstream_headers_complete = streams[s].upstream_headers_complete
      /\ SameConnection(e, streams[s])
      /\ e.request_complete /\ ~e.response_complete
  BY <1>1, <1>2, <1>7, <1>8, SteppedEntry DEF Stream, UpstreamStates, SameConnection
<1> HIDE DEF e
<1>10. /\ got'[s] = got[s] \o Written(r, n)
       /\ \A q \in Streams : q # s => got'[q] = got[q]
  BY <1>3 DEF Http2Inv, TypeOK
<1>11. got'[s] \in Seq(Nat) /\ Len(got'[s]) = r.sent + n /\ Counted(got'[s])
  <2>1. got[s] \in Seq(Nat)
    BY DEF Http2Inv, TypeOK
  <2>2. Written(r, n) = [i \in 1 .. n |-> Len(got[s]) + i]
    BY <1>5 DEF Written
  <2>3. got[s] \o Written(r, n) \in Seq(Nat) /\ Len(got[s] \o Written(r, n)) = Len(got[s]) + n
        /\ Counted(got[s] \o Written(r, n))
    BY <1>1, <1>2, <2>1, <2>2, CountedConcat
  <2> QED
    BY <1>5, <1>10, <2>3
<1>12. TypeOK' /\ GaugeInv'
  <2>1. got' \in [Streams -> Seq(Nat)]
    <3>1. got' = [got EXCEPT ![s] = got'[s]]
      BY <1>3 DEF Http2Inv, TypeOK
    <3> QED
      BY <1>11, <3>1 DEF Http2Inv, TypeOK
  <2> QED
    BY <1>3, <1>9, <2>1, SteppedTypes DEF Http2Inv, TypeOK
<1>13. FdInv'
  BY <1>2, <1>3, <1>4, <1>9, FdKept DEF Http2Inv
<1>14. ExchangeInv'
  <2>1. EntryInv(e, got'[s], submitted'[s])
    BY <1>2, <1>3, <1>6, <1>7, <1>8, <1>9, <1>11 DEF EntryInv, SentOf
  <2> QED
    BY <1>2, <1>3, <1>4, <1>9, <1>10, <1>11, <2>1, ExchangeKept DEF Http2Inv
<1>15. CountInv'
  BY <1>1, <1>3, <1>4, <1>9, CountKept DEF Http2Inv, WaitsLess
<1> QED
  BY <1>12, <1>13, <1>14, <1>15 DEF Http2Inv

\* The response header is submitted when it is complete, and marked so.
LEMMA ReadResponseHttp2 ==
  ASSUME Http2Inv, NEW s \in Streams, NEW header \in BOOLEAN, ReadResponse(s, header)
  PROVE  Http2Inv'
<1> DEFINE first == header /\ ~streams[s].upstream_headers_complete
           e == IF first THEN HeadersSeen(streams[s]) ELSE streams[s]
<1>1. Turn(s) /\ Waiting(s)
  BY DEF ReadResponse
<1>2. /\ streams[s] \in Stream /\ http2_get_stream(s) = streams[s] /\ loop # "ended"
      /\ EntryInv(streams[s], got[s], submitted[s]) /\ Counted(got[s]) /\ submitted[s] <= 1
  BY <1>1, SteppedEntry
<1>3. /\ Stepped(s, "READING_RESPONSE", e) /\ UNCHANGED <<active_streams_count, open, got>>
      /\ submitted' = [submitted EXCEPT ![s] = @ + (IF first THEN 1 ELSE 0)]
  BY DEF ReadResponse
<1>4. streams' = [streams EXCEPT ![s] = e] /\ loop' = loop
  BY <1>3 DEF Stepped
<1>5. /\ e \in Stream /\ SameConnection(e, streams[s])
      /\ e.upstream_request = streams[s].upstream_request
      /\ e.upstream_state = streams[s].upstream_state
      /\ e.upstream_headers_complete = (first \/ streams[s].upstream_headers_complete)
  BY <1>2 DEF HeadersSeen, Stream, SameConnection
<1>6. submitted[s] \in Nat /\ (first => submitted[s] = 0)
  BY <1>2 DEF EntryInv, Http2Inv, TypeOK
<1>7. /\ submitted'[s] = IF first THEN 1 ELSE submitted[s]
      /\ \A q \in Streams : q # s => submitted'[q] = submitted[q]
      /\ submitted' \in [Streams -> Nat]
  BY <1>3, <1>6 DEF Http2Inv, TypeOK
<1> HIDE DEF first, e
<1>8. TypeOK' /\ GaugeInv'
  BY <1>3, <1>5, <1>7, SteppedTypes DEF Http2Inv, TypeOK
<1>9. FdInv'
  BY <1>2, <1>3, <1>4, <1>5, FdKept DEF Http2Inv
<1>10. ExchangeInv'
  <2>1. EntryInv(e, got'[s], submitted'[s])
    BY <1>2, <1>3, <1>5, <1>7 DEF EntryInv, SentOf
  <2>2. submitted'[s] <= 1
    BY <1>2, <1>6, <1>7
  <2> QED
    BY <1>2, <1>3, <1>4, <1>5, <1>7, <2>1, <2>2, ExchangeKept DEF Http2Inv
<1>11. CountInv'
  BY <1>1, <1>3, <1>4, <1>5, CountKept DEF Http2Inv, WaitsLess
<1> QED
  BY <1>8, <1>9, <1>10, <1>11 DEF Http2Inv

\* The response is complete: the stream waits no longer, and is counted no longer.
LEMMA UpstreamClosedHttp2 ==
  ASSUME Http2Inv, NEW s \in Streams, UpstreamClosed(s)
  PROVE  Http2Inv'
<1> DEFINE e == [streams[s] EXCEPT !.response_complete = TRUE, !.upstream_state = "DONE"]
<1>1. Turn(s) /\ Waiting(s)
  BY DEF UpstreamClosed
<1>2. streams[s] \in Stream /\ http2_get_stream(s) = streams[s] /\ loop # "ended"
  BY <1>1, SteppedEntry
<1>3. /\ Stepped(s, "READING_RESPONSE", e) /\ UNCHANGED <<open, submitted, got>>
      /\ active_streams_count' = active_streams_count - 1
  BY DEF UpstreamClosed
<1>4. streams' = [streams EXCEPT ![s] = e] /\ streams[s].upstream_state = "READING_RESPONSE"
      /\ loop' = loop
  BY <1>3 DEF Stepped
<1>5. e \in Stream /\ SameConnection(e, streams[s]) /\ SameExchange(e, streams[s]) /\ e.response_complete
  BY <1>2, <1>4 DEF Stream, UpstreamStates, SameConnection, SameExchange
<1> HIDE DEF e
<1>6. CountInv' /\ active_streams_count' \in Nat
  BY <1>1, <1>3, <1>4, <1>5, CountLess DEF Http2Inv
<1>7. TypeOK' /\ GaugeInv'
  BY <1>3, <1>5, <1>6, SteppedTypes DEF Http2Inv, TypeOK
<1>8. FdInv'
  BY <1>2, <1>3, <1>4, <1>5, FdKept DEF Http2Inv
<1>9. ExchangeInv'
  BY <1>2, <1>3, <1>4, <1>5, ExchangeSame DEF Http2Inv
<1> QED
  BY <1>6, <1>7, <1>8, <1>9 DEF Http2Inv

\* A stream that does not wait is skipped; a null pointer ends the process.
LEMMA SkipHttp2 ==
  ASSUME Http2Inv, NEW s \in Streams, Skip(s) \/ BuildCrashes(s)
  PROVE  Http2Inv'
<1>1. /\ UNCHANGED <<streams, active_streams_count, open, http2_active_connections, frame, client, body,
                     got, submitted>>
      /\ loop = "process" /\ loop' \in {"process", "crashed"} /\ cursor' \subseteq cursor
  BY DEF Skip, BuildCrashes, Turn, history
<1>2. FdInv' /\ ExchangeInv' /\ CountInv'
  BY <1>1, QuietHttp2
<1>3. TypeOK' /\ GaugeInv'
  BY <1>1 DEF Http2Inv, TypeOK, GaugeInv
<1> QED
  BY <1>2, <1>3 DEF Http2Inv

-----------------------------------------------------------------------------
(* Every step, and what follows *)

\* Every step keeps the invariant.
LEMMA NextHttp2 == Http2Inv /\ [Next]_vars => Http2Inv'
<1> SUFFICES ASSUME Http2Inv, [Next]_vars PROVE Http2Inv'
  OBVIOUS
<1>1. CASE Start \/ ReadEnds \/ InputDone \/ ProcessDone \/ SendPending
  BY <1>1, LoopHttp2
<1>2. CASE Cleanup
  BY <1>2, CleanupHttp2
<1>3. ASSUME NEW s \in Streams, Input(s)
      PROVE  Http2Inv'
  BY <1>3, HeadersHttp2, DataFrameHttp2, DataHttp2, OtherFrameHttp2 DEF Input
<1>4. ASSUME NEW s \in Streams, http2_process_stream(s)
      PROVE  Http2Inv'
  BY <1>4, SkipHttp2, NoFdHttp2, ConnectHttp2, ConnectErrorHttp2, SendRequestHttp2,
     ReadResponseHttp2, UpstreamClosedHttp2 DEF http2_process_stream
<1>5. CASE UNCHANGED vars
  <2>1. FdInv' /\ ExchangeInv' /\ CountInv'
    BY <1>5, QuietHttp2 DEF vars
  <2>2. TypeOK' /\ GaugeInv'
    BY <1>5 DEF vars, Http2Inv, TypeOK, GaugeInv
  <2> QED
    BY <2>1, <2>2 DEF Http2Inv
<1> QED
  BY <1>1, <1>2, <1>3, <1>4, <1>5 DEF Next

\* Every reachable state satisfies the invariant.
LEMMA Http2Invariant == Spec => []Http2Inv
<1>1. Init => Http2Inv
  BY InitHttp2
<1>2. Http2Inv /\ [Next]_vars => Http2Inv'
  BY NextHttp2
<1> QED
  BY <1>1, <1>2, PTL DEF Spec

\* The variables of a connection keep their types; the count never falls below 0, and
\* the gauge counts a connection once.
THEOREM Http2TypeCorrect == Spec => []TypeOK
<1>1. Http2Inv => TypeOK
  BY DEF Http2Inv
<1> QED
  BY <1>1, Http2Invariant, PTL

\* However often a request is counted, the count covers the streams that wait for
\* their response, so the loop never overlooks them.
THEOREM Http2CountCovers == Spec => []CountCoversWaiting
<1>1. Http2Inv => CountCoversWaiting
  <2> SUFFICES ASSUME Http2Inv PROVE CountCoversWaiting
    OBVIOUS
  <2> DEFINE a == Cardinality({s \in Streams : Waiting(s)})
  <2>1. a \in Nat /\ a <= active_streams_count /\ active_streams_count \in Nat
    BY FS_CardinalityType DEF Http2Inv, CountInv, WaitingStreams, TypeOK
  <2>2. active_streams_count >= a
    <3> HIDE DEF a
    <3> QED
      BY <2>1
  <2> QED
    BY <2>2 DEF CountCoversWaiting
<1> QED
  BY <1>1, Http2Invariant, PTL

\* Every open upstream descriptor belongs to exactly one stream, and no stream keeps
\* one that was closed.
THEOREM Http2UpstreamOwned == Spec => []UpstreamOwned
<1>1. Http2Inv => UpstreamOwned
  <2> SUFFICES ASSUME Http2Inv PROVE UpstreamOwned
    OBVIOUS
  <2>1. \A s \in Streams : /\ Up(s) <=> http2_get_stream(s).upstream_fd # NULL
                           /\ Up(s) => streams[s] = http2_get_stream(s)
                           /\ streams[s] # NULL => streams[s] = http2_get_stream(s)
                           /\ http2_get_stream(s).upstream_fd \in Fds \cup {NULL}
    <3> SUFFICES ASSUME NEW s \in Streams
                 PROVE  /\ Up(s) <=> http2_get_stream(s).upstream_fd # NULL
                        /\ Up(s) => streams[s] = http2_get_stream(s)
                        /\ streams[s] # NULL => streams[s] = http2_get_stream(s)
                        /\ http2_get_stream(s).upstream_fd \in Fds \cup {NULL}
      OBVIOUS
    <3>1. http2_get_stream(s) \in Stream /\ (streams[s] # NULL => http2_get_stream(s) = streams[s])
      BY GetStream DEF Http2Inv
    <3>2. streams[s] = NULL => http2_get_stream(s).upstream_fd = NULL
      BY DEF http2_get_stream, NewStream
    <3> QED
      BY <3>1, <3>2 DEF Up, Stream
  <2>2. open = {streams[s].upstream_fd : s \in {r \in Streams : Up(r)}}
    <3>1. \A f \in open : f \in Fds /\ f # NULL
      BY Http2Assumption DEF Http2Inv, TypeOK
    <3>2. \A f \in Fds : f \in open <=> \E s \in Streams : http2_get_stream(s).upstream_fd = f
      BY DEF Http2Inv, FdInv
    <3>3. ASSUME NEW f \in open
          PROVE  \E s \in Streams : Up(s) /\ streams[s].upstream_fd = f
      BY <2>1, <3>1, <3>2
    <3>4. ASSUME NEW s \in Streams, Up(s)
          PROVE  streams[s].upstream_fd \in open
      BY <2>1, <3>2, <3>4
    <3> QED
      BY <3>3, <3>4
  <2>3. \A r, s \in Streams : Up(r) /\ Up(s) /\ r # s =>
          streams[r].upstream_fd # streams[s].upstream_fd
    BY <2>1 DEF Http2Inv, FdInv
  <2>4. \A s \in Streams : streams[s] # NULL /\ streams[s].upstream_ssl => Up(s)
    BY <2>1 DEF Http2Inv, FdInv
  <2> QED
    BY <2>2, <2>3, <2>4 DEF UpstreamOwned
<1> QED
  BY <1>1, Http2Invariant, PTL

\* The end server gets each byte of a request once and in order, and the client's
\* response header is submitted at most once, however the calls are cut.
THEOREM Http2ExchangedOnce == Spec => []ExchangedOnce
<1>1. Http2Inv => ExchangedOnce
  <2> SUFFICES ASSUME Http2Inv, NEW s \in Streams
               PROVE  /\ got[s] = [i \in 1 .. Len(got[s]) |-> i]
                      /\ streams[s] # NULL /\ streams[s].upstream_state \in {"READING_RESPONSE", "DONE"} =>
                           streams[s].upstream_request # NULL
                           /\ Len(got[s]) = streams[s].upstream_request.len
                      /\ submitted[s] <= 1
    BY DEF ExchangedOnce
  <2>1. Counted(got[s]) /\ submitted[s] <= 1 /\ got[s] \in Seq(Nat)
    BY DEF Http2Inv, ExchangeInv, TypeOK
  <2>2. got[s] = [i \in 1 .. Len(got[s]) |-> i]
    <3> DEFINE g == got[s]
    <3>1. g = [i \in 1 .. Len(g) |-> g[i]]
      BY <2>1
    <3> QED
      BY <2>1, <3>1 DEF Counted
  <2>3. ASSUME streams[s] # NULL, streams[s].upstream_state \in {"READING_RESPONSE", "DONE"}
        PROVE  streams[s].upstream_request # NULL /\ Len(got[s]) = streams[s].upstream_request.len
    <3>1. http2_get_stream(s) = streams[s]
      BY <2>3, GetStream DEF Http2Inv
    <3>2. EntryInv(streams[s], got[s], submitted[s])
      BY <2>3, <3>1 DEF Http2Inv, ExchangeInv
    <3> QED
      BY <2>3, <3>2 DEF EntryInv, SentOf
  <2> QED
    BY <2>1, <2>2, <2>3
<1> QED
  BY <1>1, Http2Invariant, PTL
=============================================================================
