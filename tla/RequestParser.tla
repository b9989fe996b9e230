--------------------------- MODULE RequestParser ----------------------------
(***************************************************************************)
(* The ParsedRequest object of a worker (src/src/proxy_parse.c): created,    *)
(* filled by ParsedRequest_parse, changed by THREAD_ROUTINE and              *)
(* HandleRequest (Main.c), unparsed into the request that goes to the end    *)
(* server, and destroyed.  One request follows another, as the memory of     *)
(* one object is used again for the next.                                   *)
(*                                                                         *)
(* A request line is what the parser tells apart in it.  A header line is a  *)
(* name, its separator and a value; a text is a sequence of characters, of   *)
(* which a few stand for many.  A bracketed IPv6 address is one character.   *)
(* Nothing follows the blank line after the headers.                        *)
(***************************************************************************)
EXTENDS Integers, Sequences, FiniteSets

CONSTANTS
  Keys,           \* texts that can be keys: one name, or names of several lines
  Values,         \* texts that can be values
  HeaderLines,    \* header lines a client can send
  RequestLines,   \* request lines a client can send
  MaxLines,       \* bound on the header lines of one request
  MaxRequests,    \* bound on the requests
  Rooms,          \* bytes BUFFER can have left behind the request line
  DEFAULT_NHDRS,
  Numeral,        \* the number atoi reads in a text that begins with a numeral
  TraceId,        \* the trace id THREAD_ROUTINE makes up
  NULL

Separators == {": ", ":", "none"}

\* How a request line ends: refused before anything is allocated ("short"), after
\* buf ("malformed") or after protocol ("nopath"); CONNECT, absolute or relative.
Forms == {"short", "malformed", "nopath", "CONNECT", "absolute", "relative"}

ASSUME ParserAssumption ==
  /\ HeaderLines \subseteq [name : STRING, sep : Separators, value : Seq(STRING)]
  /\ RequestLines \subseteq [form : Forms, host : Seq(STRING),
                             port : Seq(STRING) \cup {NULL}]
  /\ MaxLines \in Nat /\ MaxRequests \in Nat /\ Rooms \subseteq Nat
  /\ DEFAULT_NHDRS \in Nat \ {0, 1}
  /\ Numeral \in [DOMAIN Numeral -> Nat]
  /\ Keys \subseteq Seq(STRING) /\ Values \subseteq Seq(STRING)
  /\ TraceId \in Values /\ NULL \notin Keys /\ NULL \notin Values

VARIABLES
  phase,        \* what the worker does next
  served,       \* requests begun
  rline,        \* the request line
  rest,         \* header lines not yet parsed
  headers,      \* the first headersused entries of the table
  headerslen,
  allocated,    \* entries the table really has; 0 after a failed realloc
  blocks,       \* what is allocated for the object, besides table and entries
  buf, path,    \* whether the pointer is set
  host, port,   \* the text pointed to, or NULL
  chunk,        \* the port field left in the memory of the last object
  sent,         \* the header lines sent to the end server, or NULL
  written,      \* bytes ParsedHeader_printHeaders has written
  room,         \* bytes it was given
  END_SERVER_PORT,
  last          \* the last header call, for the properties

table == <<headers, headerslen, allocated>>
fields == <<blocks, buf, path, host, port>>
sending == <<sent, written, room, END_SERVER_PORT>>
vars == <<phase, served, rline, rest, headers, headerslen, allocated, blocks, buf,
          path, host, port, chunk, sent, written, room, END_SERVER_PORT, last>>

Entry == [key : Keys \cup {NULL}, value : Values \cup {NULL}]

\* The steps in which the worker uses a parsed request, in their order.
Uses == {"trace", "connection", "proxyconnection", "host", "unparse", "dial"}

\* The values the variables range over.
TypeOK ==
  /\ phase \in {"idle", "line", "headers", "fallback", "failed", "over", "crashed"} \cup Uses
  /\ served \in 0 .. MaxRequests
  /\ rline \in RequestLines \cup {NULL}
  /\ rest \in Seq(HeaderLines)
  /\ headers \in Seq(Entry)
  /\ headerslen \in Nat /\ allocated \in Nat
  /\ blocks \subseteq {"pr", "buf", "path", "protocol", "host", "port"}
  /\ buf \in BOOLEAN /\ path \in BOOLEAN
  /\ written \in Nat /\ room \in Rooms \cup {0}
  /\ END_SERVER_PORT \in Nat \cup {NULL}

-----------------------------------------------------------------------------
(* The header table *)

headersused == Len(headers)

Call(op, k, v) == last' = [op |-> op, key |-> k, value |-> v]

\* The entries with key k, and what ParsedHeader_get makes of them: the first.
Having(t, k) == {i \in DOMAIN t : t[i].key = k}

First(t, k) == CHOOSE i \in Having(t, k) : \A j \in Having(t, k) : i <= j

\* Fault: the search ends at an entry that was removed.
getUntilHole(t, k) ==
  IF Having(t, k) = {} \/ \E i \in 1 .. First(t, k) : t[i].key = NULL THEN NULL
  ELSE t[First(t, k)].value

ParsedHeader_get(t, k) == IF Having(t, k) = {} THEN NULL ELSE t[First(t, k)].value

\* ParsedHeader_remove: key and value of the first match are freed, the entry stays.
Removed(t, k) ==
  IF Having(t, k) = {} THEN t
  ELSE [t EXCEPT ![First(t, k)] = [key |-> NULL, value |-> NULL]]

\* Fault: the table grows only when it is already overrun.
FullLate == headerslen < headersused

Full == headerslen <= headersused + 1

\* ParsedHeader_set: the old entry goes, the table doubles when it is full, the new
\* entry is appended.
ParsedHeader_set(k, v) ==
  /\ headers' = Append(Removed(headers, k), [key |-> k, value |-> v])
  /\ headerslen' = IF Full THEN headerslen * 2 ELSE headerslen
  /\ allocated' = IF Full THEN headerslen * 2 ELSE allocated
  /\ Call("set", k, v)

\* realloc fails: the old entry is gone, and so is the pointer to the table.
SetFails(k) ==
  /\ Full
  /\ headers' = Removed(headers, k)
  /\ headerslen' = headerslen * 2
  /\ allocated' = 0
  /\ Call("lost", NULL, NULL)

RemoveHeader(k) ==
  /\ headers' = Removed(headers, k)
  /\ Call("remove", k, NULL)
  /\ UNCHANGED <<headerslen, allocated>>

GetHeader(k) == Call("get", k, ParsedHeader_get(headers, k)) /\ UNCHANGED table

Goto(p) == phase' = p

\* A loop over the entries follows a null pointer once the table is lost.
Lost == allocated = 0 /\ headersused > 0

Crash ==
  /\ Lost /\ phase \notin {"idle", "crashed", "dial"}
  /\ Goto("crashed")
  /\ UNCHANGED <<served, rline, rest, table, fields, chunk, sending, last>>

At(p) == phase = p /\ ~Lost

-----------------------------------------------------------------------------
(* ParsedRequest_create and ParsedRequest_parse *)

\* The object comes from fresh memory, or from that of the last one; port is the
\* one field that is not set.
ParsedRequest_create ==
  /\ phase = "idle" /\ served < MaxRequests
  /\ headers' = <<>> /\ headerslen' = DEFAULT_NHDRS /\ allocated' = DEFAULT_NHDRS
  /\ blocks' = {"pr"} /\ buf' = FALSE /\ path' = FALSE /\ host' = NULL
  /\ port' \in {NULL, chunk}
  /\ Call("create", NULL, NULL)
  /\ served' = served + 1 /\ Goto("line")
  /\ UNCHANGED <<rline, rest, chunk, sending>>

\* What the accepted forms set.  The host of a CONNECT is a part of buf, or a copy if
\* it is bracketed; a port is copied.  An absolute address without a port leaves port
\* as it is.
Filled(r, copied) ==
  /\ buf' = TRUE /\ path' = TRUE
  /\ host' = IF r.form = "relative" THEN NULL ELSE r.host
  /\ port' = CASE r.form = "CONNECT" -> IF r.port \in {NULL, <<>>} THEN <<"443">> ELSE r.port
               [] r.form = "absolute" -> IF r.port = NULL THEN port ELSE r.port
               [] r.form = "relative" -> NULL
  /\ blocks' = blocks \cup {"buf", "path"}
       \cup (IF r.form = "CONNECT" THEN {} ELSE {"protocol"})
       \cup (CASE r.form = "absolute" -> {"host"}
               [] r.form = "CONNECT" -> copied
               [] r.form = "relative" -> {})
       \cup (IF port' # NULL /\ (r.form = "CONNECT" \/ r.port # NULL) THEN {"port"} ELSE {})

ParseLine(r, lines) ==
  /\ phase = "line" /\ r.form \in {"CONNECT", "absolute", "relative"}
  /\ rline' = r /\ rest' = lines
  /\ \E copied \in SUBSET {"host"} : Filled(r, copied)
  /\ Goto("headers")
  /\ UNCHANGED <<served, table, chunk, sending, last>>

\* Fault: the pointer to the freed request line is kept.
ParseRefusedDangling(r) ==
  /\ phase = "line" /\ r.form \in {"short", "malformed", "nopath"}
  /\ rline' = r /\ rest' = <<>>
  /\ buf' = (r.form # "short")
  /\ blocks' = IF r.form = "nopath" THEN blocks \cup {"protocol"} ELSE blocks
  /\ Goto("failed")
  /\ UNCHANGED <<served, table, path, host, port, chunk, sending, last>>

\* The error returns up to the header lines free buf and reset it; what was copied
\* out of it before is not freed.
ParseRefused(r) ==
  /\ phase = "line" /\ r.form \in {"short", "malformed", "nopath"}
  /\ rline' = r /\ rest' = <<>>
  /\ blocks' = IF r.form = "nopath" THEN blocks \cup {"protocol"} ELSE blocks
  /\ Goto("failed")
  /\ UNCHANGED <<served, table, buf, path, host, port, chunk, sending, last>>

\* strtol of a port without digits yields 0, and an EINVAL that some earlier call
\* left in errno makes it an error: buf and path are freed and reset.
ParseBadPort(r) ==
  /\ phase = "line" /\ r.form = "absolute" /\ r.port = <<"x">>
  /\ rline' = r /\ rest' = <<>>
  /\ host' = r.host /\ port' = r.port
  /\ blocks' = blocks \cup {"protocol", "host", "port"}
  /\ Goto("failed")
  /\ UNCHANGED <<served, table, buf, path, chunk, sending, last>>

\* The text of a header line, as a part of another line's value.
Text(l) == <<l.name, l.sep>> \o l.value

\* ParsedHeader_parse looks for a colon from the line's start to the end of the
\* buffer, and takes the value to begin two characters behind it.
Colons(lines) == {i \in DOMAIN lines : lines[i].sep # "none"}

ColonLine(lines) == CHOOSE i \in Colons(lines) : \A j \in Colons(lines) : i <= j

Key(lines) == [i \in 1 .. ColonLine(lines) |-> lines[i].name]

Value(lines) ==
  LET n == ColonLine(lines)
      l == lines[n]
  IN  IF l.sep = ": " THEN l.value
      ELSE IF l.value # <<>> THEN Tail(l.value)
      ELSE <<"LF">> \o (IF n < Len(lines) THEN Text(lines[n + 1]) ELSE <<>>)

ParseHeader ==
  /\ At("headers") /\ rest # <<>> /\ Colons(rest) # {}
  /\ ParsedHeader_set(Key(rest), Value(rest)) \/ SetFails(Key(rest))
  /\ rest' = Tail(rest)
  /\ UNCHANGED <<phase, served, rline, fields, chunk, sending>>

\* No colon is left: the parse fails, and buf and path stay for the destructor.
ParseHeaderFails ==
  /\ At("headers") /\ rest # <<>> /\ Colons(rest) = {}
  /\ Goto("failed")
  /\ UNCHANGED <<served, rline, rest, table, fields, chunk, sending, last>>

ParseHeadersEnd ==
  /\ At("headers") /\ rest = <<>>
  /\ Goto(IF host = NULL THEN "fallback" ELSE "trace")
  /\ UNCHANGED <<served, rline, rest, table, fields, chunk, sending, last>>

ColonIn(v) == {i \in DOMAIN v : v[i] = ":"}

HostPart(v) == IF ColonIn(v) = {} THEN v
               ELSE SubSeq(v, 1, (CHOOSE i \in ColonIn(v) : \A j \in ColonIn(v) : i <= j) - 1)

\* Keys and Values hold every text the parser and the worker can put into the table.
ASSUME TextAssumption ==
  /\ {<<"Host">>, <<"Connection">>, <<"Proxy-Connection">>, <<"X-Trace-Id">>} \subseteq Keys
  /\ <<"close">> \in Values /\ \A r \in RequestLines : r.host \in Values
  /\ \A v \in Values : HostPart(v) \in Values
  /\ \A n \in 1 .. MaxLines : \A lines \in [1 .. n -> HeaderLines] :
       Colons(lines) # {} => Key(lines) \in Keys /\ Value(lines) \in Values

PortPart(v) == IF ColonIn(v) = {} THEN NULL ELSE SubSeq(v, Len(HostPart(v)) + 2, Len(v))

\* A relative address takes host and port from the Host header, or fails.
HostFallback ==
  /\ At("fallback")
  /\ GetHeader(<<"Host">>)
  /\ LET v == ParsedHeader_get(headers, <<"Host">>)  IN
     IF v = NULL
     THEN /\ buf' = FALSE /\ blocks' = blocks \ {"buf"}
          /\ Goto("failed") /\ UNCHANGED <<host, port>>
     ELSE /\ host' = HostPart(v)
          /\ port' = IF ColonIn(v) = {} THEN port ELSE PortPart(v)
          /\ blocks' = blocks \cup {"host"} \cup (IF ColonIn(v) = {} THEN {} ELSE {"port"})
          /\ Goto("trace") /\ UNCHANGED buf
  /\ UNCHANGED <<served, rline, rest, path, chunk, sending>>

-----------------------------------------------------------------------------
(* What THREAD_ROUTINE and HandleRequest do with the object *)

\* A header call of the worker that is made in phase p and leads to phase q.
Step(p, q) ==
  /\ At(p) /\ Goto(q)
  /\ UNCHANGED <<served, rline, rest, fields, chunk, sending>>

\* A request without a trace id gets one.  A refusal, or a hit in the cache, is the
\* end; a CONNECT needs no headers.
TraceHeader ==
  /\ At("trace")
  /\ \E q \in {"over", IF rline.form = "CONNECT" THEN "dial" ELSE "connection"} :
       Step("trace", q)
  /\ IF Having(headers, <<"X-Trace-Id">>) # {} THEN GetHeader(<<"X-Trace-Id">>)
     ELSE ParsedHeader_set(<<"X-Trace-Id">>, TraceId) \/ SetFails(<<"X-Trace-Id">>)

SetConnection ==
  /\ Step("connection", "proxyconnection")
  /\ ParsedHeader_set(<<"Connection">>, <<"close">>) \/ SetFails(<<"Connection">>)

\* Fault: the header for the proxy itself is passed on.
RemoveProxyConnectionNot ==
  Step("proxyconnection", "host") /\ GetHeader(<<"Proxy-Connection">>)

RemoveProxyConnection ==
  Step("proxyconnection", "host") /\ RemoveHeader(<<"Proxy-Connection">>)

\* A missing Host, or one that names this machine, is replaced by the host dialled.
SetHost ==
  /\ Step("host", "unparse")
  /\ LET v == ParsedHeader_get(headers, <<"Host">>)  IN
     IF v = NULL \/ (v # NULL /\ \E i \in DOMAIN v : v[i] = "localhost")
     THEN ParsedHeader_set(<<"Host">>, host) \/ SetFails(<<"Host">>)
     ELSE GetHeader(<<"Host">>)

\* The entries the printing loop does not skip, at their places in the table.
Live(t) == [i \in {j \in DOMAIN t : t[j].key # NULL} |-> t[i]]

\* Fault: the separators are not counted.
lineLenBare(e) == IF e.key = NULL THEN 0 ELSE Len(e.key) + Len(e.value)

ParsedHeader_lineLen(e) == IF e.key = NULL THEN 0 ELSE Len(e.key) + Len(e.value) + 4

\* The sum a loop over the table adds up, as a number of bytes: those of position i
\* are the pairs that begin with i.
Bytes(len) == UNION {{i} \X (1 .. len[i]) : i \in DOMAIN len}

ParsedHeader_headersLen ==
  Cardinality(Bytes([i \in DOMAIN headers |-> ParsedHeader_lineLen(headers[i])])) + 2

\* What the printing loop writes: every live entry, a blank line and a NUL.
Printed ==
  Cardinality(Bytes([i \in DOMAIN Live(headers) |->
                       Len(headers[i].key) + Len(headers[i].value) + 4])) + 3

\* ParsedHeader_printHeaders refuses a buffer that is too small; the request line is
\* then sent alone.
Unparse(n) ==
  /\ At("unparse") /\ Goto("dial")
  /\ room' = n
  /\ IF n < ParsedHeader_headersLen THEN sent' = <<>> /\ written' = 0
     ELSE sent' = Live(headers) /\ written' = Printed
  /\ UNCHANGED <<served, rline, rest, table, fields, chunk, END_SERVER_PORT, last>>

atoi(t) == IF t # <<>> /\ t[1] \in DOMAIN Numeral THEN Numeral[t[1]] ELSE 0

\* The port of the object, or else the default of GET.
Dial ==
  /\ phase = "dial" /\ Goto("over")
  /\ END_SERVER_PORT' = IF port = NULL THEN 80 ELSE atoi(port)
  /\ UNCHANGED <<served, rline, rest, table, fields, chunk, sent, written, room, last>>

\* The blocks ParsedRequest_destroy frees: buf and path when set, and the object.
Destroyed == (IF buf THEN {"buf"} ELSE {}) \cup (IF path THEN {"path"} ELSE {}) \cup {"pr"}

ParsedRequest_destroy ==
  /\ phase \in {"failed", "over"} /\ ~Lost
  /\ blocks' = blocks \ Destroyed
  /\ chunk' = port
  /\ headers' = <<>> /\ headerslen' = 0 /\ allocated' = 0
  /\ buf' = FALSE /\ path' = FALSE /\ host' = NULL /\ port' = NULL
  /\ rline' = NULL /\ rest' = <<>>
  /\ sent' = NULL /\ written' = 0 /\ room' = 0 /\ END_SERVER_PORT' = NULL
  /\ Call("create", NULL, NULL)
  /\ Goto("idle")
  /\ UNCHANGED served

-----------------------------------------------------------------------------

Init ==
  /\ phase = "idle" /\ served = 0
  /\ rline = NULL /\ rest = <<>>
  /\ headers = <<>> /\ headerslen = 0 /\ allocated = 0
  /\ blocks = {} /\ buf = FALSE /\ path = FALSE /\ host = NULL /\ port = NULL
  /\ chunk = NULL
  /\ sent = NULL /\ written = 0 /\ room = 0 /\ END_SERVER_PORT = NULL
  /\ last = [op |-> "create", key |-> NULL, value |-> NULL]

Next ==
  \/ ParsedRequest_create
  \/ \E r \in RequestLines :
       \/ ParseRefused(r) \/ ParseBadPort(r)
       \/ \E n \in 0 .. MaxLines : \E lines \in [1 .. n -> HeaderLines] : ParseLine(r, lines)
  \/ ParseHeader \/ ParseHeaderFails \/ ParseHeadersEnd \/ HostFallback
  \/ TraceHeader \/ SetConnection \/ RemoveProxyConnection \/ SetHost
  \/ \E n \in Rooms : Unparse(n)
  \/ Dial \/ ParsedRequest_destroy \/ Crash

Spec == Init /\ [][Next]_vars

-----------------------------------------------------------------------------
(* Properties *)

\* Set, get and remove, with entries that are emptied and never used again, a table
\* that moves when it grows and requests that follow one another, are those of a map.
Map == INSTANCE HeaderMap WITH
         map <- [k \in Keys |-> IF Lost THEN NULL ELSE ParsedHeader_get(headers, k)]

HeaderMapImplemented == Map!Spec

\* An entry is written only where the table has memory for it, through every growth.
TableInBounds == ~Lost => headersused <= allocated

\* What the destructor frees was allocated and not freed before, on every error path
\* of the parser; a request that is used has its line and its path; and afterwards
\* nothing but the copies of protocol, host and port is left, which the code never
\* frees.
FreedOnce ==
  /\ phase \notin {"idle", "crashed"} => Destroyed \subseteq blocks
  /\ phase \in Uses => {"buf", "path"} \subseteq Destroyed
  /\ phase = "idle" => blocks \subseteq {"protocol", "host", "port"}

\* The end server gets "Connection: close" once, a Host and a trace id, and never the
\* header meant for this proxy, in whatever order and number the client sent them.
\* (A line without a colon is glued to the key of the next and passed on with it.)
ForwardedHeaders ==
  sent \notin {NULL, <<>>} =>
    /\ \A k \in {<<"Connection">>, <<"Host">>, <<"X-Trace-Id">>} :
         \E i \in DOMAIN sent : Having(sent, k) = {i}
    /\ ParsedHeader_get(sent, <<"Connection">>) = <<"close">>
    /\ Having(sent, <<"Proxy-Connection">>) = {}

\* The length computed from the table covers what the printing loop writes for it,
\* removed entries included, except for the NUL at the end.
UnparseFits == written <= room + 1

=============================================================================
