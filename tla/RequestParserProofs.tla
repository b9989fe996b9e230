------------------------ MODULE RequestParserProofs -------------------------
(***************************************************************************)
(* Proofs about RequestParser, for any header lines, request lines, texts   *)
(* and numbers of them: the header table implements the map of HeaderMap,   *)
(* stays inside its memory and is freed once, and the end server gets the   *)
(* headers it should.                                                       *)
(***************************************************************************)
EXTENDS RequestParser, FiniteSetTheorems, SequenceTheorems, TLAPS

-----------------------------------------------------------------------------
(* The operators on tables *)

\* No two entries of a table have one key; holes do not count.
Unique(t) ==
  \A i, j \in DOMAIN t : t[i].key = t[j].key /\ t[i].key # NULL => i = j

Hole == [key |-> NULL, value |-> NULL]

\* The key of an entry is not the mark of a hole.
LEMMA KeysAreNoHoles == NULL \notin Keys /\ NULL \notin Values /\ TraceId \in Values
BY ParserAssumption

\* In a table without duplicates a match is the first match, and what get returns.
LEMMA FirstMatch ==
  ASSUME NEW t \in Seq(Entry), Unique(t), NEW k \in Keys, NEW i \in DOMAIN t,
         t[i].key = k
  PROVE  /\ Having(t, k) = {i}
         /\ First(t, k) = i
         /\ ParsedHeader_get(t, k) = t[i].value
<1>1. Having(t, k) = {i}
  BY KeysAreNoHoles DEF Having, Unique
<1>2. i \in Nat
  OBVIOUS
<1>3. First(t, k) = i
  BY <1>1, <1>2 DEF First
<1> QED
  BY <1>1, <1>3 DEF ParsedHeader_get

\* A key that no entry has is not found.
LEMMA NoMatch ==
  ASSUME NEW t, NEW k, Having(t, k) = {}
  PROVE  ParsedHeader_get(t, k) = NULL
BY DEF ParsedHeader_get

\* ParsedHeader_remove empties one entry and touches no other.
LEMMA RemovedEntries ==
  ASSUME NEW t \in Seq(Entry), Unique(t), NEW k \in Keys
  PROVE  /\ Removed(t, k) \in Seq(Entry)
         /\ Len(Removed(t, k)) = Len(t)
         /\ DOMAIN Removed(t, k) = DOMAIN t
         /\ \A i \in DOMAIN t : Removed(t, k)[i] = IF t[i].key = k THEN Hole ELSE t[i]
<1>1. CASE Having(t, k) = {}
  <2>1. \A i \in DOMAIN t : t[i].key # k
    BY <1>1 DEF Having
  <2> QED
    BY <1>1, <2>1 DEF Removed
<1>2. CASE Having(t, k) # {}
  <2>1. PICK i \in DOMAIN t : t[i].key = k
    BY <1>2 DEF Having
  <2>2. First(t, k) = i
    BY <2>1, FirstMatch
  <2>3. Removed(t, k) = [t EXCEPT ![i] = Hole]
    BY <1>2, <2>2 DEF Removed, Hole
  <2>4. Hole \in Entry
    BY DEF Hole, Entry
  <2>5. \A j \in DOMAIN t : t[j].key = k => j = i
    BY <2>1, KeysAreNoHoles DEF Unique
  <2> QED
    BY <2>1, <2>3, <2>4, <2>5, ExceptSeq, LenProperties
<1> QED
  BY <1>1, <1>2

\* After a removal the key is gone, every other key has the value it had, and no key
\* has become ambiguous.
LEMMA RemoveIsMapRemove ==
  ASSUME NEW t \in Seq(Entry), Unique(t), NEW k \in Keys
  PROVE  /\ Unique(Removed(t, k))
         /\ Having(Removed(t, k), k) = {}
         /\ \A q \in Keys : q # k => Having(Removed(t, k), q) = Having(t, q)
         /\ \A q \in Keys : ParsedHeader_get(Removed(t, k), q)
                              = IF q = k THEN NULL ELSE ParsedHeader_get(t, q)
<1> DEFINE r == Removed(t, k)
<1>1. /\ r \in Seq(Entry) /\ DOMAIN r = DOMAIN t
      /\ \A i \in DOMAIN t : r[i] = IF t[i].key = k THEN Hole ELSE t[i]
  BY RemovedEntries
<1> HIDE DEF r
<1>2. \A i \in DOMAIN t : r[i].key = IF t[i].key = k THEN NULL ELSE t[i].key
  BY <1>1 DEF Hole
<1>3. Unique(r)
  BY <1>1, <1>2 DEF Unique
<1>4. Having(r, k) = {}
  BY <1>1, <1>2, KeysAreNoHoles DEF Having
<1>5. ASSUME NEW q \in Keys, q # k
      PROVE  /\ Having(r, q) = Having(t, q)
             /\ ParsedHeader_get(r, q) = ParsedHeader_get(t, q)
  <2>1. Having(r, q) = Having(t, q)
    BY <1>1, <1>2, <1>5, KeysAreNoHoles DEF Having
  <2>2. CASE Having(t, q) = {}
    BY <2>1, <2>2, NoMatch
  <2>3. CASE Having(t, q) # {}
    <3>1. PICK i \in DOMAIN t : t[i].key = q
      BY <2>3 DEF Having
    <3>2. r[i] = t[i] /\ i \in DOMAIN r
      BY <3>1, <1>1, <1>5
    <3> QED
      BY <2>1, <3>1, <3>2, <1>1, <1>3, FirstMatch
  <2> QED
    BY <2>1, <2>2, <2>3
<1>6. ParsedHeader_get(r, k) = NULL
  BY <1>4, NoMatch
<1> QED
  BY <1>3, <1>4, <1>5, <1>6 DEF r

\* An entry appended with a key that no entry has: it is found, the others too.
LEMMA AppendIsMapSet ==
  ASSUME NEW t \in Seq(Entry), Unique(t), NEW k \in Keys, NEW v \in Values,
         Having(t, k) = {}
  PROVE  LET r == Append(t, [key |-> k, value |-> v])
         IN
         /\ r \in Seq(Entry) /\ Unique(r) /\ Len(r) = Len(t) + 1
         /\ Having(r, k) # {}
         /\ \A q \in Keys : q # k => Having(r, q) = Having(t, q)
         /\ \A q \in Keys : ParsedHeader_get(r, q)
                              = IF q = k THEN v ELSE ParsedHeader_get(t, q)
<1> DEFINE e == [key |-> k, value |-> v]
<1> DEFINE r == Append(t, e)
<1>1. e \in Entry /\ e.key = k /\ e.value = v
  BY DEF Entry
<1> HIDE DEF e
<1>2. /\ r \in Seq(Entry) /\ Len(r) = Len(t) + 1
      /\ r[Len(t) + 1] = e
      /\ \A i \in 1 .. Len(t) : r[i] = t[i]
  BY <1>1, AppendProperties
<1> HIDE DEF r
<1>3. DOMAIN t = 1 .. Len(t) /\ DOMAIN r = 1 .. (Len(t) + 1) /\ Len(t) \in Nat
  BY <1>2, LenProperties
<1>4. DOMAIN r = DOMAIN t \cup {Len(t) + 1} /\ Len(t) + 1 \notin DOMAIN t
  BY <1>3
<1>5. \A i \in DOMAIN t : t[i].key # k
  BY DEF Having
<1>6. \A i \in DOMAIN t : r[i] = t[i]
  BY <1>2, <1>3
<1> DEFINE n == Len(t) + 1
<1>7. DOMAIN r = DOMAIN t \cup {n} /\ n \notin DOMAIN t /\ r[n].key = k /\ r[n].value = v
  BY <1>1, <1>2, <1>4
<1> HIDE DEF n
<1>8. Unique(r)
  BY <1>5, <1>6, <1>7 DEF Unique
<1>9. Having(r, k) # {} /\ ParsedHeader_get(r, k) = v
  <2>1. n \in DOMAIN r /\ r[n].key = k
    BY <1>7
  <2>2. Having(r, k) = {n} /\ ParsedHeader_get(r, k) = r[n].value
    BY <2>1, <1>2, <1>8, FirstMatch
  <2> QED
    BY <2>2, <1>7
<1>10. ASSUME NEW q \in Keys, q # k
       PROVE  /\ Having(r, q) = Having(t, q)
              /\ ParsedHeader_get(r, q) = ParsedHeader_get(t, q)
  <2>1. Having(r, q) = Having(t, q)
    BY <1>6, <1>7, <1>10 DEF Having
  <2>2. CASE Having(t, q) = {}
    BY <2>1, <2>2, NoMatch
  <2>3. CASE Having(t, q) # {}
    <3>1. PICK i \in DOMAIN t : t[i].key = q
      BY <2>3 DEF Having
    <3>2. r[i] = t[i] /\ i \in DOMAIN r /\ r[i].key = q
      BY <3>1, <1>6, <1>7
    <3>3. ParsedHeader_get(r, q) = r[i].value
      BY <3>2, <1>2, <1>8, FirstMatch
    <3>4. ParsedHeader_get(t, q) = t[i].value
      BY <3>1, FirstMatch
    <3> QED
      BY <2>1, <3>2, <3>3, <3>4
  <2> QED
    BY <2>1, <2>2, <2>3
<1> QED
  BY <1>2, <1>8, <1>9, <1>10 DEF r, e

-----------------------------------------------------------------------------
(* The inductive invariant *)

\* The types the other parts need.
Types ==
  /\ phase \in {"idle", "line", "headers", "fallback", "failed", "over", "crashed"} \cup Uses
  /\ rest \in Seq(HeaderLines) /\ Len(rest) <= MaxLines
  /\ headers \in Seq(Entry) /\ headerslen \in Nat /\ allocated \in Nat
  /\ buf \in BOOLEAN /\ path \in BOOLEAN
  /\ blocks \subseteq {"pr", "buf", "path", "protocol", "host", "port"}
  /\ host \in Values \cup {NULL}
  /\ phase \in Uses => host # NULL

\* There is no table between two objects; in between its memory is as large as
\* headerslen says and has a free entry, or it was lost in a failed realloc.
TableInv ==
  /\ phase = "idle" => headers = <<>> /\ allocated = 0
  /\ phase # "idle" =>
       \/ allocated = headerslen /\ headerslen >= 2 /\ headersused < headerslen
       \/ Lost

\* buf and path are set exactly while their blocks are allocated, and from the end of
\* the request line on, up to a failure.
BlockInv ==
  /\ phase = "idle" => blocks \subseteq {"protocol", "host", "port"}
  /\ phase \notin {"idle", "crashed"} =>
       "pr" \in blocks /\ (buf <=> "buf" \in blocks) /\ (path <=> "path" \in blocks)
  /\ phase \in {"headers", "fallback"} \cup Uses => buf /\ path

\* What each step of the worker has done to the headers is still so at the later ones.
HeadersInv ==
  /\ ~Lost =>
       /\ phase \in {"connection", "proxyconnection", "host", "unparse"}
            => Having(headers, <<"X-Trace-Id">>) # {}
       /\ phase \in {"proxyconnection", "host", "unparse"}
            => /\ Having(headers, <<"Connection">>) # {}
               /\ ParsedHeader_get(headers, <<"Connection">>) = <<"close">>
       /\ phase \in {"host", "unparse"} => Having(headers, <<"Proxy-Connection">>) = {}
       /\ phase = "unparse" => Having(headers, <<"Host">>) # {}
  /\ ForwardedHeaders

ParserInv == Types /\ TableInv /\ Unique(headers) /\ BlockInv /\ HeadersInv

-----------------------------------------------------------------------------
(* The three calls that change the table *)

\* A table that is neither lost nor missing has a free entry.
Sound == allocated = headerslen /\ headerslen >= 2 /\ headersused < headerslen

\* In use and not lost, the table is sound.
LEMMA InUseSound ==
  ASSUME Types, TableInv, phase # "idle", ~Lost
  PROVE  Sound
BY DEF TableInv, Sound

\* ParsedHeader_set, whether the table grows or not, sets the key and no other.
LEMMA SetStep ==
  ASSUME Types, Sound, Unique(headers), NEW k \in Keys, NEW v \in Values,
         ParsedHeader_set(k, v)
  PROVE  /\ headers' \in Seq(Entry) /\ headerslen' \in Nat /\ allocated' \in Nat
         /\ Unique(headers')
         /\ Sound' /\ ~Lost'
         /\ Having(headers', k) # {}
         /\ \A q \in Keys : q # k => Having(headers', q) = Having(headers, q)
         /\ \A q \in Keys : ParsedHeader_get(headers', q)
                              = IF q = k THEN v ELSE ParsedHeader_get(headers, q)
         /\ last' = [op |-> "set", key |-> k, value |-> v]
<1> DEFINE r == Removed(headers, k)
<1>0. headers \in Seq(Entry) /\ headerslen \in Nat /\ allocated \in Nat
  BY DEF Types
<1>1. /\ r \in Seq(Entry) /\ Len(r) = Len(headers)
      /\ Unique(r) /\ Having(r, k) = {}
      /\ \A q \in Keys : q # k => Having(r, q) = Having(headers, q)
      /\ \A q \in Keys : ParsedHeader_get(r, q)
                           = IF q = k THEN NULL ELSE ParsedHeader_get(headers, q)
  BY <1>0, RemovedEntries, RemoveIsMapRemove
<1> DEFINE s == Append(r, [key |-> k, value |-> v])
<1>2. headers' = s
  BY DEF ParsedHeader_set
<1> HIDE DEF r
<1>3. /\ s \in Seq(Entry) /\ Unique(s) /\ Len(s) = Len(r) + 1
      /\ Having(s, k) # {}
      /\ \A q \in Keys : q # k => Having(s, q) = Having(r, q)
      /\ \A q \in Keys : ParsedHeader_get(s, q)
                           = IF q = k THEN v ELSE ParsedHeader_get(r, q)
  BY <1>1, AppendIsMapSet
<1> HIDE DEF s
<1>4. Len(headers) \in Nat /\ Len(headers') = Len(headers) + 1
  BY <1>0, <1>1, <1>2, <1>3, LenProperties
<1>5. /\ headerslen' = IF Full THEN headerslen * 2 ELSE headerslen
      /\ allocated' = IF Full THEN headerslen * 2 ELSE allocated
      /\ last' = [op |-> "set", key |-> k, value |-> v]
  BY DEF ParsedHeader_set, Call
<1>6. Sound' /\ headerslen' \in Nat /\ allocated' \in Nat /\ ~Lost'
  <2> DEFINE n == Len(headers)
  <2>1. n \in Nat /\ headersused' = n + 1 /\ (Full <=> headerslen <= n + 1)
        /\ headerslen >= 2 /\ n < headerslen /\ allocated = headerslen
    BY <1>4 DEF Full, headersused, Sound
  <2> HIDE DEF n
  <2>2. headerslen' \in Nat /\ allocated' = headerslen' /\ headerslen' >= 2
        /\ n + 1 < headerslen'
    <3>1. CASE Full
      <4>1. headerslen' = headerslen * 2 /\ allocated' = headerslen * 2
        BY <1>5, <3>1
      <4> QED
        BY <4>1, <2>1, <1>0
    <3>2. CASE ~Full
      BY <3>2, <1>5, <2>1, <1>0
    <3> QED
      BY <3>1, <3>2
  <2> QED
    BY <2>1, <2>2 DEF Sound, Lost
<1> QED
  BY <1>1, <1>2, <1>3, <1>5, <1>6

\* A realloc that fails loses the table.
LEMMA FailStep ==
  ASSUME Types, Sound, Unique(headers), NEW k \in Keys, SetFails(k)
  PROVE  /\ headers' \in Seq(Entry) /\ headerslen' \in Nat /\ allocated' \in Nat
         /\ Unique(headers')
         /\ Lost'
         /\ last' = [op |-> "lost", key |-> NULL, value |-> NULL]
<1>0. headers \in Seq(Entry) /\ headerslen \in Nat
  BY DEF Types
<1>1. headers' = Removed(headers, k)
  BY DEF SetFails
<1>2. headers' \in Seq(Entry) /\ Len(headers') = Len(headers) /\ Unique(headers')
  BY <1>0, <1>1, RemovedEntries, RemoveIsMapRemove
<1>3. Len(headers) \in Nat /\ headerslen >= 2 /\ headerslen <= Len(headers) + 1
  BY <1>0, LenProperties DEF SetFails, Full, headersused, Sound
<1>4. /\ headerslen' = headerslen * 2 /\ allocated' = 0
      /\ last' = [op |-> "lost", key |-> NULL, value |-> NULL]
  BY DEF SetFails, Call
<1>5. Len(headers) > 0
  BY <1>0, <1>3
<1>6. Lost'
  BY <1>2, <1>4, <1>5 DEF Lost, headersused
<1> QED
  BY <1>0, <1>2, <1>4, <1>6

\* ParsedHeader_remove removes the key and no other.
LEMMA RemoveStep ==
  ASSUME Types, Sound, Unique(headers), NEW k \in Keys, RemoveHeader(k)
  PROVE  /\ headers' \in Seq(Entry) /\ headerslen' \in Nat /\ allocated' \in Nat
         /\ Unique(headers')
         /\ Sound' /\ ~Lost'
         /\ Having(headers', k) = {}
         /\ \A q \in Keys : q # k => Having(headers', q) = Having(headers, q)
         /\ \A q \in Keys : ParsedHeader_get(headers', q)
                              = IF q = k THEN NULL ELSE ParsedHeader_get(headers, q)
         /\ last' = [op |-> "remove", key |-> k, value |-> NULL]
<1>0. headers \in Seq(Entry) /\ headerslen \in Nat /\ allocated \in Nat
  BY DEF Types
<1>1. headers' = Removed(headers, k) /\ UNCHANGED <<headerslen, allocated>>
      /\ last' = [op |-> "remove", key |-> k, value |-> NULL]
  BY DEF RemoveHeader, Call
<1>2. Len(headers') = Len(headers)
  BY <1>0, <1>1, RemovedEntries
<1>3. Sound' /\ ~Lost'
  BY <1>0, <1>1, <1>2 DEF Sound, Lost, headersused
<1>4. headers' \in Seq(Entry)
  BY <1>0, <1>1, RemovedEntries
<1> QED
  BY <1>0, <1>1, <1>3, <1>4, RemoveIsMapRemove

-----------------------------------------------------------------------------
(* Every step keeps the invariant *)

\* The four keys the proxy itself works on are keys, and they differ.
LEMMA OwnKeys ==
  /\ <<"Host">> \in Keys /\ <<"Connection">> \in Keys
  /\ <<"Proxy-Connection">> \in Keys /\ <<"X-Trace-Id">> \in Keys
  /\ <<"Host">> # <<"Connection">> /\ <<"Host">> # <<"Proxy-Connection">>
  /\ <<"Host">> # <<"X-Trace-Id">> /\ <<"Connection">> # <<"Proxy-Connection">>
  /\ <<"Connection">> # <<"X-Trace-Id">> /\ <<"Proxy-Connection">> # <<"X-Trace-Id">>
BY TextAssumption

\* What ParsedHeader_parse takes out of the lines left is a key and a value.
LEMMA ParsedTexts ==
  ASSUME Types, rest # <<>>, Colons(rest) # {}
  PROVE  Key(rest) \in Keys /\ Value(rest) \in Values
<1>1. rest \in [1 .. Len(rest) -> HeaderLines] /\ Len(rest) \in 1 .. MaxLines
  BY LenProperties, EmptySeq, ParserAssumption DEF Types
<1> QED
  BY <1>1, TextAssumption

\* The table of a new object is sound and empty.
LEMMA CreateInv ==
  ASSUME ParserInv, ParsedRequest_create
  PROVE  ParserInv'
<1> USE DEF ParsedRequest_create, Goto, sending
<1>1. headers' = <<>> /\ Len(headers') = 0 /\ headers' \in Seq(Entry)
  OBVIOUS
<1>2. headerslen' = DEFAULT_NHDRS /\ allocated' = DEFAULT_NHDRS
      /\ DEFAULT_NHDRS \in Nat /\ DEFAULT_NHDRS >= 2
  BY ParserAssumption
<1>3. Types'
  BY <1>1, <1>2 DEF ParserInv, Types, Uses
<1>4. TableInv'
  BY <1>1, <1>2 DEF TableInv, headersused
<1>5. Unique(headers)'
  BY <1>1 DEF Unique
<1>6. BlockInv'
  BY DEF BlockInv, Uses
<1>7. HeadersInv'
  BY DEF ParserInv, HeadersInv, ForwardedHeaders
<1> QED
  BY <1>3, <1>4, <1>5, <1>6, <1>7 DEF ParserInv

\* ParsedRequest_parse on a request line it accepts.
LEMMA ParseLineInv ==
  ASSUME ParserInv, NEW r \in RequestLines, NEW n \in 0 .. MaxLines,
         NEW lines \in [1 .. n -> HeaderLines], ParseLine(r, lines)
  PROVE  ParserInv'
<1> USE DEF ParseLine, Goto, table, sending
<1>1. PICK copied \in SUBSET {"host"} : Filled(r, copied)
  OBVIOUS
<1>2. rest' \in Seq(HeaderLines) /\ Len(rest') <= MaxLines
  <2>1. n \in Nat /\ MaxLines \in Nat /\ n <= MaxLines
    BY ParserAssumption
  <2>2. lines \in Seq(HeaderLines) /\ Len(lines) = n
    BY <2>1, IsASeq, LenProperties
  <2> QED
    BY <2>1, <2>2
<1>3. /\ blocks' \subseteq {"pr", "buf", "path", "protocol", "host", "port"}
      /\ blocks \subseteq blocks' /\ "buf" \in blocks' /\ "path" \in blocks'
      /\ buf' = TRUE /\ path' = TRUE
      /\ host' \in Values \cup {NULL}
  <2>1. blocks \subseteq {"pr", "buf", "path", "protocol", "host", "port"}
    BY DEF ParserInv, Types
  <2>2. r.host \in Values
    BY TextAssumption
  <2>3. /\ buf' = TRUE /\ path' = TRUE
        /\ host' = IF r.form = "relative" THEN NULL ELSE r.host
    BY <1>1 DEF Filled
  <2>4. PICK more \in SUBSET {"protocol", "host", "port"} :
          blocks' = blocks \cup {"buf", "path"} \cup more
    <3> DEFINE protocol == IF r.form = "CONNECT" THEN {} ELSE {"protocol"}
               name == CASE r.form = "absolute" -> {"host"}
                         [] r.form = "CONNECT" -> copied
                         [] r.form = "relative" -> {}
               number == IF port' # NULL /\ (r.form = "CONNECT" \/ r.port # NULL)
                         THEN {"port"} ELSE {}
    <3>1. blocks' = blocks \cup {"buf", "path"} \cup protocol \cup name \cup number
      BY <1>1 DEF Filled
    <3>2. name \subseteq {"host"}
      OBVIOUS
    <3>3. protocol \subseteq {"protocol"} /\ number \subseteq {"port"}
      OBVIOUS
    <3> HIDE DEF protocol, name, number
    <3>4. protocol \cup name \cup number \in SUBSET {"protocol", "host", "port"}
      BY <3>2, <3>3
    <3>5. blocks' = blocks \cup {"buf", "path"} \cup (protocol \cup name \cup number)
      BY <3>1
    <3> QED
      BY <3>4, <3>5
  <2> QED
    BY <2>1, <2>2, <2>3, <2>4
<1>4. Types'
  BY <1>2, <1>3 DEF ParserInv, Types, Uses
<1>5. TableInv'
  BY DEF ParserInv, TableInv, Lost, headersused
<1>6. BlockInv'
  BY <1>3 DEF ParserInv, BlockInv, Uses
<1>7. HeadersInv'
  BY DEF ParserInv, HeadersInv, ForwardedHeaders
<1> QED
  BY <1>4, <1>5, <1>6, <1>7 DEF ParserInv

\* The error returns of ParsedRequest_parse before the header lines.
LEMMA ParseFailsInv ==
  ASSUME ParserInv, NEW r \in RequestLines, ParseRefused(r) \/ ParseBadPort(r)
  PROVE  ParserInv'
<1> USE DEF Goto, table, sending
<1>1. /\ phase = "line" /\ phase' = "failed"
      /\ rest' = <<>> /\ UNCHANGED <<headers, headerslen, allocated, buf, path, sent>>
      /\ host' \in {host, r.host}
      /\ blocks \subseteq blocks' /\ blocks' \subseteq blocks \cup {"protocol", "host", "port"}
  BY DEF ParseRefused, ParseBadPort
<1>2. r.host \in Values /\ <<>> \in Seq(HeaderLines) /\ Len(<<>>) <= MaxLines
  BY TextAssumption, ParserAssumption
<1>3. Types'
  BY <1>1, <1>2 DEF ParserInv, Types, Uses
<1>4. TableInv'
  BY <1>1 DEF ParserInv, TableInv, Lost, headersused
<1>5. BlockInv'
  BY <1>1 DEF ParserInv, BlockInv, Uses
<1>6. HeadersInv'
  BY <1>1 DEF ParserInv, HeadersInv, ForwardedHeaders
<1> QED
  BY <1>1, <1>3, <1>4, <1>5, <1>6 DEF ParserInv

\* The steps that leave the table, the blocks and the host alone, and move to a step
\* that asks nothing new of them.
LEMMA MoveInv ==
  ASSUME ParserInv, phase # "idle",
         UNCHANGED <<rest, headers, headerslen, allocated, blocks, buf, path, host, sent>>,
         phase' \in {"failed", "over", "crashed", "fallback", "trace", "dial"},
         phase' \notin {"failed", "crashed", "over"} =>
           phase \in {"headers", "fallback"} \cup Uses /\ (phase' # "fallback" => host # NULL),
         phase = "crashed" => phase' = "crashed"
  PROVE  ParserInv'
<1>1. Types'
  BY DEF ParserInv, Types, Uses
<1>2. TableInv'
  BY DEF ParserInv, TableInv, Lost, headersused
<1>3. BlockInv'
  BY DEF ParserInv, BlockInv, Uses
<1>4. HeadersInv'
  BY DEF ParserInv, HeadersInv, ForwardedHeaders
<1> QED
  BY <1>1, <1>2, <1>3, <1>4 DEF ParserInv

\* A header line that is parsed.
LEMMA ParseHeaderInv ==
  ASSUME ParserInv, ParseHeader
  PROVE  ParserInv'
<1> USE DEF ParseHeader, At, sending, fields
<1>1. Key(rest) \in Keys /\ Value(rest) \in Values
  BY ParsedTexts DEF ParserInv
<1>2. Types /\ Sound /\ Unique(headers)
  BY InUseSound DEF ParserInv
<1>3. /\ headers' \in Seq(Entry) /\ headerslen' \in Nat /\ allocated' \in Nat
      /\ Unique(headers') /\ (Sound' \/ Lost')
  BY <1>1, <1>2, SetStep, FailStep
<1>4. rest' \in Seq(HeaderLines) /\ Len(rest') <= MaxLines
  <2>1. rest' = Tail(rest) /\ rest \in Seq(HeaderLines) /\ rest # <<>>
        /\ Len(rest) <= MaxLines /\ MaxLines \in Nat
    BY ParserAssumption DEF ParserInv, Types
  <2>2. Tail(rest) \in Seq(HeaderLines) /\ Len(Tail(rest)) = Len(rest) - 1 /\ Len(rest) \in Nat
    BY <2>1, HeadTailProperties, LenProperties
  <2> QED
    BY <2>1, <2>2
<1>5. Types'
  BY <1>3, <1>4 DEF ParserInv, Types, Uses
<1>6. TableInv'
  BY <1>3 DEF TableInv, Sound
<1>7. BlockInv'
  BY DEF ParserInv, BlockInv, Uses
<1>8. HeadersInv'
  BY DEF ParserInv, HeadersInv, ForwardedHeaders
<1> QED
  BY <1>3, <1>5, <1>6, <1>7, <1>8 DEF ParserInv

\* The Host header of a relative address.
LEMMA HostFallbackInv ==
  ASSUME ParserInv, HostFallback
  PROVE  ParserInv'
<1> USE DEF At, Goto, sending, table
<1> DEFINE v == ParsedHeader_get(headers, <<"Host">>)
<1>1. phase = "fallback" /\ UNCHANGED <<headers, headerslen, allocated, rest, path, sent>>
  BY DEF HostFallback, GetHeader
<1>2. v \in Values \cup {NULL}
  <2>1. CASE Having(headers, <<"Host">>) = {}
    BY <2>1, NoMatch
  <2>2. CASE Having(headers, <<"Host">>) # {}
    <3>1. PICK i \in DOMAIN headers : headers[i].key = <<"Host">>
      BY <2>2 DEF Having
    <3>2. headers \in Seq(Entry) /\ Unique(headers)
      BY DEF ParserInv, Types
    <3>3. v = headers[i].value
      BY <3>1, <3>2, FirstMatch, OwnKeys
    <3>4. headers[i] \in Entry
      BY <3>2
    <3> QED
      BY <3>3, <3>4 DEF Entry
  <2> QED
    BY <2>1, <2>2
<1>3. \/ /\ v = NULL /\ buf' = FALSE /\ blocks' = blocks \ {"buf"}
         /\ phase' = "failed" /\ UNCHANGED host
      \/ /\ v # NULL /\ host' = HostPart(v) /\ phase' = "trace" /\ UNCHANGED buf
         /\ blocks \subseteq blocks' /\ blocks' \subseteq blocks \cup {"host", "port"}
  BY DEF HostFallback
<1> HIDE DEF v
<1>4. v # NULL => HostPart(v) \in Values
  BY <1>2, TextAssumption
<1>5. Types'
  BY <1>1, <1>3, <1>4, KeysAreNoHoles DEF ParserInv, Types, Uses
<1>6. TableInv'
  BY <1>1, <1>3 DEF ParserInv, TableInv, Lost, headersused
<1>7. BlockInv'
  BY <1>1, <1>3 DEF ParserInv, BlockInv, Uses
<1>8. HeadersInv'
  BY <1>1, <1>3 DEF ParserInv, HeadersInv, ForwardedHeaders
<1> QED
  BY <1>1, <1>5, <1>6, <1>7, <1>8 DEF ParserInv

\* A request gets a trace id, unless it has one.
LEMMA TraceHeaderInv ==
  ASSUME ParserInv, TraceHeader
  PROVE  ParserInv'
<1> USE DEF TraceHeader, Step, At, Goto, sending, fields
<1> DEFINE k == <<"X-Trace-Id">>
<1>1. Types /\ Sound /\ Unique(headers) /\ k \in Keys /\ TraceId \in Values
  BY InUseSound, OwnKeys, KeysAreNoHoles DEF ParserInv
<1>2. /\ phase = "trace" /\ phase' \in {"over", "dial", "connection"}
      /\ UNCHANGED <<rest, blocks, buf, path, host, sent>>
  OBVIOUS
<1>3. \/ Having(headers, k) # {} /\ GetHeader(k)
      \/ ParsedHeader_set(k, TraceId)
      \/ SetFails(k)
  OBVIOUS
<1> HIDE DEF TraceHeader, k
<1>4. /\ headers' \in Seq(Entry) /\ headerslen' \in Nat /\ allocated' \in Nat
      /\ Unique(headers')
      /\ Lost' \/ (Sound' /\ Having(headers', k) # {})
  <2>1. CASE Having(headers, k) # {} /\ GetHeader(k)
    BY <1>1, <2>1 DEF GetHeader, table, Types, Sound, headersused
  <2>2. CASE ParsedHeader_set(k, TraceId)
    BY <1>1, <2>2, SetStep
  <2>3. CASE SetFails(k)
    BY <1>1, <2>3, FailStep
  <2> QED
    BY <1>3, <2>1, <2>2, <2>3
<1>5. Types'
  BY <1>2, <1>4 DEF ParserInv, Types, Uses
<1>6. TableInv'
  BY <1>2, <1>4 DEF TableInv, Sound
<1>7. BlockInv'
  BY <1>2 DEF ParserInv, BlockInv, Uses
<1>8. HeadersInv'
  BY <1>2, <1>4 DEF ParserInv, HeadersInv, ForwardedHeaders, k
<1> QED
  BY <1>4, <1>5, <1>6, <1>7, <1>8 DEF ParserInv

\* The worker's later header calls stay in its steps, and in the table.
LEMMA StepInv ==
  ASSUME ParserInv, NEW p \in Uses, NEW q \in Uses, Step(p, q),
         headers' \in Seq(Entry), headerslen' \in Nat, allocated' \in Nat,
         Unique(headers'), Sound' \/ Lost'
  PROVE  Types' /\ TableInv' /\ BlockInv' /\ Unique(headers)' /\ ForwardedHeaders'
<1> USE DEF Step, At, Goto, sending, fields
<1>1. Types'
  BY DEF ParserInv, Types, Uses
<1>2. TableInv'
  BY DEF TableInv, Sound, Uses
<1>3. BlockInv'
  BY DEF ParserInv, BlockInv, Uses
<1>4. ForwardedHeaders'
  BY DEF ParserInv, HeadersInv, ForwardedHeaders
<1> QED
  BY <1>1, <1>2, <1>3, <1>4

\* "Connection: close" replaces what the client sent.
LEMMA SetConnectionInv ==
  ASSUME ParserInv, SetConnection
  PROVE  ParserInv'
<1> DEFINE k == <<"Connection">>
<1>1. Types /\ Sound /\ Unique(headers) /\ k \in Keys /\ <<"close">> \in Values
  BY InUseSound, OwnKeys, TextAssumption DEF ParserInv, SetConnection, Step, At
<1>2. Step("connection", "proxyconnection") /\ phase = "connection" /\ ~Lost
  BY DEF SetConnection, Step, At
<1>3. ParsedHeader_set(k, <<"close">>) \/ SetFails(k)
  BY DEF SetConnection
<1>4. Having(headers, <<"X-Trace-Id">>) # {}
  BY <1>2 DEF ParserInv, HeadersInv
<1> HIDE DEF k
<1>5. /\ headers' \in Seq(Entry) /\ headerslen' \in Nat /\ allocated' \in Nat
      /\ Unique(headers')
      /\ \/ Lost'
         \/ /\ Sound' /\ Having(headers', k) # {}
            /\ ParsedHeader_get(headers', k) = <<"close">>
            /\ \A q \in Keys : q # k => Having(headers', q) = Having(headers, q)
  <2>1. CASE ParsedHeader_set(k, <<"close">>)
    BY <1>1, <2>1, SetStep
  <2>2. CASE SetFails(k)
    BY <1>1, <2>2, FailStep
  <2> QED
    BY <1>3, <2>1, <2>2
<1>6. Types' /\ TableInv' /\ BlockInv' /\ Unique(headers)' /\ ForwardedHeaders'
  BY <1>2, <1>5, StepInv DEF Uses
<1>7. HeadersInv'
  <2>1. phase' = "proxyconnection"
    BY <1>2 DEF Step, Goto
  <2> QED
    BY <2>1, <1>4, <1>5, <1>6, OwnKeys DEF HeadersInv, k
<1> QED
  BY <1>6, <1>7 DEF ParserInv

\* The header for this proxy is dropped.
LEMMA RemoveProxyConnectionInv ==
  ASSUME ParserInv, RemoveProxyConnection
  PROVE  ParserInv'
<1> DEFINE k == <<"Proxy-Connection">>
<1>1. Types /\ Sound /\ Unique(headers) /\ k \in Keys
  BY InUseSound, OwnKeys DEF ParserInv, RemoveProxyConnection, Step, At
<1>2. /\ Step("proxyconnection", "host") /\ phase = "proxyconnection" /\ ~Lost
      /\ RemoveHeader(k)
  BY DEF RemoveProxyConnection, Step, At
<1>3. /\ Having(headers, <<"X-Trace-Id">>) # {} /\ Having(headers, <<"Connection">>) # {}
      /\ ParsedHeader_get(headers, <<"Connection">>) = <<"close">>
  BY <1>2 DEF ParserInv, HeadersInv
<1> HIDE DEF k
<1>4. /\ headers' \in Seq(Entry) /\ headerslen' \in Nat /\ allocated' \in Nat
      /\ Unique(headers') /\ Sound' /\ ~Lost' /\ Having(headers', k) = {}
      /\ \A q \in Keys : q # k => Having(headers', q) = Having(headers, q)
      /\ \A q \in Keys : q # k => ParsedHeader_get(headers', q) = ParsedHeader_get(headers, q)
  BY <1>1, <1>2, RemoveStep
<1>5. Types' /\ TableInv' /\ BlockInv' /\ Unique(headers)' /\ ForwardedHeaders'
  BY <1>2, <1>4, StepInv DEF Uses
<1>6. HeadersInv'
  <2>1. phase' = "host"
    BY <1>2 DEF Step, Goto
  <2> QED
    BY <2>1, <1>3, <1>4, <1>5, OwnKeys DEF HeadersInv, k
<1> QED
  BY <1>5, <1>6 DEF ParserInv

\* The Host header is there afterwards.
LEMMA SetHostInv ==
  ASSUME ParserInv, SetHost
  PROVE  ParserInv'
<1> DEFINE k == <<"Host">>
<1>1. Step("host", "unparse") /\ phase = "host" /\ ~Lost
  BY DEF SetHost, Step, At
<1>2. Types /\ Sound /\ Unique(headers) /\ k \in Keys
  BY <1>1, InUseSound, OwnKeys DEF ParserInv
<1>3. host \in Values
  BY <1>1 DEF ParserInv, Types, Uses
<1>4. \/ ParsedHeader_set(k, host) \/ SetFails(k)
      \/ ParsedHeader_get(headers, k) # NULL /\ GetHeader(k)
  BY DEF SetHost
<1>5. /\ Having(headers, <<"X-Trace-Id">>) # {} /\ Having(headers, <<"Connection">>) # {}
      /\ ParsedHeader_get(headers, <<"Connection">>) = <<"close">>
      /\ Having(headers, <<"Proxy-Connection">>) = {}
  BY <1>1 DEF ParserInv, HeadersInv
<1> HIDE DEF k
<1>6. /\ headers' \in Seq(Entry) /\ headerslen' \in Nat /\ allocated' \in Nat
      /\ Unique(headers')
      /\ \/ Lost'
         \/ /\ Sound' /\ Having(headers', k) # {}
            /\ \A q \in Keys : q # k => Having(headers', q) = Having(headers, q)
            /\ \A q \in Keys : q # k =>
                 ParsedHeader_get(headers', q) = ParsedHeader_get(headers, q)
  <2>1. CASE ParsedHeader_set(k, host)
    BY <1>2, <1>3, <2>1, SetStep
  <2>2. CASE SetFails(k)
    BY <1>2, <2>2, FailStep
  <2>3. CASE ParsedHeader_get(headers, k) # NULL /\ GetHeader(k)
    <3>1. Having(headers, k) # {}
      BY <2>3, NoMatch
    <3> QED
      BY <1>2, <2>3, <3>1 DEF GetHeader, table, Types, Sound, headersused
  <2> QED
    BY <1>4, <2>1, <2>2, <2>3
<1>7. Types' /\ TableInv' /\ BlockInv' /\ Unique(headers)' /\ ForwardedHeaders'
  BY <1>1, <1>6, StepInv DEF Uses
<1>8. HeadersInv'
  <2>1. phase' = "unparse"
    BY <1>1 DEF Step, Goto
  <2> QED
    BY <2>1, <1>5, <1>6, <1>7, OwnKeys DEF HeadersInv, k
<1> QED
  BY <1>7, <1>8 DEF ParserInv

\* The printing loop finds what get finds.
LEMMA LiveEntries ==
  ASSUME NEW t \in Seq(Entry), Unique(t), NEW k \in Keys
  PROVE  /\ Having(Live(t), k) = Having(t, k)
         /\ ParsedHeader_get(Live(t), k) = ParsedHeader_get(t, k)
<1>1. DOMAIN Live(t) = {j \in DOMAIN t : t[j].key # NULL}
      /\ \A i \in DOMAIN Live(t) : Live(t)[i] = t[i]
  BY DEF Live
<1>2. Having(Live(t), k) = Having(t, k)
  BY <1>1, KeysAreNoHoles DEF Having
<1>3. First(Live(t), k) = First(t, k)
  BY <1>2 DEF First
<1>4. CASE Having(t, k) = {}
  BY <1>2, <1>4, NoMatch
<1>5. CASE Having(t, k) # {}
  <2>1. PICK i \in DOMAIN t : t[i].key = k
    BY <1>5 DEF Having
  <2>2. First(t, k) = i
    BY <2>1, FirstMatch
  <2>3. Live(t)[i] = t[i]
    BY <1>1, <2>1, KeysAreNoHoles
  <2> QED
    BY <1>2, <1>3, <1>5, <2>2, <2>3 DEF ParsedHeader_get
<1> QED
  BY <1>2, <1>4, <1>5

\* ParsedRequest_unparse_headers sends the headers as the worker left them.
LEMMA UnparseInv ==
  ASSUME ParserInv, NEW n \in Rooms, Unparse(n)
  PROVE  ParserInv'
<1> USE DEF At, Goto, table, fields
<1>1. /\ phase = "unparse" /\ phase' = "dial" /\ ~Lost
      /\ UNCHANGED <<rest, headers, headerslen, allocated, blocks, buf, path, host>>
      /\ sent' \in {<<>>, Live(headers)}
  BY DEF Unparse
<1>2. headers \in Seq(Entry) /\ Unique(headers)
  BY DEF ParserInv, Types
<1>3. ForwardedHeaders'
  <2>1. CASE sent' = <<>>
    BY <2>1 DEF ForwardedHeaders
  <2>2. CASE sent' = Live(headers)
    <3>1. \A k \in Keys : /\ Having(sent', k) = Having(headers, k)
                          /\ ParsedHeader_get(sent', k) = ParsedHeader_get(headers, k)
      BY <1>2, <2>2, LiveEntries
    <3>2. /\ Having(headers, <<"X-Trace-Id">>) # {} /\ Having(headers, <<"Host">>) # {}
          /\ Having(headers, <<"Connection">>) # {}
          /\ ParsedHeader_get(headers, <<"Connection">>) = <<"close">>
          /\ Having(headers, <<"Proxy-Connection">>) = {}
      BY <1>1 DEF ParserInv, HeadersInv
    <3>3. ASSUME NEW k \in Keys, Having(headers, k) # {}
          PROVE  \E i \in DOMAIN sent' : Having(sent', k) = {i}
      <4>1. PICK i \in DOMAIN headers : headers[i].key = k
        BY <3>3 DEF Having
      <4>2. Having(sent', k) = {i}
        BY <1>2, <3>1, <4>1, FirstMatch
      <4>3. i \in DOMAIN sent'
        BY <4>2 DEF Having
      <4> QED
        BY <4>2, <4>3
    <3> QED
      BY <3>1, <3>2, <3>3, OwnKeys DEF ForwardedHeaders
  <2> QED
    BY <1>1, <2>1, <2>2
<1>4. Types'
  BY <1>1 DEF ParserInv, Types, Uses
<1>5. TableInv'
  BY <1>1 DEF ParserInv, TableInv, Lost, headersused
<1>6. BlockInv'
  BY <1>1 DEF ParserInv, BlockInv, Uses
<1>7. HeadersInv'
  BY <1>1, <1>3 DEF HeadersInv
<1> QED
  BY <1>1, <1>2, <1>4, <1>5, <1>6, <1>7 DEF ParserInv

\* The bound on the lines is a number.
LEMMA BoundIsNat == MaxLines \in Nat
BY ParserAssumption

\* ParsedRequest_destroy frees what is allocated, but for the copies it forgets.
LEMMA DestroyInv ==
  ASSUME ParserInv, ParsedRequest_destroy
  PROVE  ParserInv'
<1> USE DEF ParsedRequest_destroy, Goto
<1>1. headers' = <<>> /\ rest' = <<>> /\ <<>> \in Seq(Entry) /\ <<>> \in Seq(HeaderLines)
      /\ Len(<<>>) = 0
  OBVIOUS
<1>2. Types'
  <2>1. Len(rest') <= MaxLines
    BY <1>1, BoundIsNat
  <2> QED
    BY <1>1, <2>1 DEF ParserInv, Types, Uses
<1>3. TableInv' /\ Unique(headers)'
  BY <1>1 DEF TableInv, Unique
<1>4. BlockInv'
  BY DEF ParserInv, Types, BlockInv, Destroyed, Uses
<1>5. HeadersInv'
  BY DEF HeadersInv, ForwardedHeaders
<1> QED
  BY <1>2, <1>3, <1>4, <1>5 DEF ParserInv

\* Before the first request there is no object.
LEMMA InitInv == Init => ParserInv
<1> SUFFICES ASSUME Init PROVE ParserInv
  OBVIOUS
<1>1. Types
  <2>1. rest = <<>> /\ headers = <<>>
    BY DEF Init
  <2>2. rest \in Seq(HeaderLines) /\ headers \in Seq(Entry) /\ Len(rest) <= MaxLines
    BY <2>1, BoundIsNat
  <2> QED
    BY <2>2 DEF Init, Types, Uses
<1>2. TableInv /\ Unique(headers)
  BY DEF Init, TableInv, Unique
<1>3. BlockInv /\ HeadersInv
  BY DEF Init, BlockInv, HeadersInv, ForwardedHeaders, Uses
<1> QED
  BY <1>1, <1>2, <1>3 DEF ParserInv

\* Every step of the worker keeps the invariant.
LEMMA NextInv == ParserInv /\ [Next]_vars => ParserInv'
<1> SUFFICES ASSUME ParserInv, [Next]_vars PROVE ParserInv'
  OBVIOUS
<1> USE DEF table, fields, sending
<1>1. CASE ParsedRequest_create
  BY <1>1, CreateInv
<1>2. ASSUME NEW r \in RequestLines, ParseRefused(r) \/ ParseBadPort(r)
      PROVE  ParserInv'
  BY <1>2, ParseFailsInv
<1>3. ASSUME NEW r \in RequestLines, NEW n \in 0 .. MaxLines,
             NEW lines \in [1 .. n -> HeaderLines], ParseLine(r, lines)
      PROVE  ParserInv'
  BY <1>3, ParseLineInv
<1>4. CASE ParseHeader
  BY <1>4, ParseHeaderInv
<1>5. CASE ParseHeaderFails
  BY <1>5, MoveInv DEF ParseHeaderFails, At, Goto
<1>6. CASE ParseHeadersEnd
  BY <1>6, MoveInv DEF ParseHeadersEnd, At, Goto
<1>7. CASE HostFallback
  BY <1>7, HostFallbackInv
<1>8. CASE TraceHeader
  BY <1>8, TraceHeaderInv
<1>9. CASE SetConnection \/ RemoveProxyConnection \/ SetHost
  BY <1>9, SetConnectionInv, RemoveProxyConnectionInv, SetHostInv
<1>10. ASSUME NEW n \in Rooms, Unparse(n)
       PROVE  ParserInv'
  BY <1>10, UnparseInv
<1>11. CASE Dial
  BY <1>11, MoveInv DEF Dial, Goto
<1>12. CASE ParsedRequest_destroy
  BY <1>12, DestroyInv
<1>13. CASE Crash
  BY <1>13, MoveInv DEF Crash, Goto
<1>14. CASE UNCHANGED vars
  BY <1>14 DEF vars, ParserInv, Types, TableInv, Unique, BlockInv, HeadersInv, Lost,
     headersused, ForwardedHeaders
<1> QED
  BY <1>1, <1>2, <1>3, <1>4, <1>5, <1>6, <1>7, <1>8, <1>9, <1>10, <1>11, <1>12, <1>13,
     <1>14 DEF Next

\* The inductive invariant holds in every state.
LEMMA AlwaysParserInv == Spec => []ParserInv
BY InitInv, NextInv, PTL DEF Spec

-----------------------------------------------------------------------------
(* What is printed fits *)

\* The sum over a finite table is a number.
LEMMA BytesFinite ==
  ASSUME NEW len, IsFiniteSet(DOMAIN len), \A i \in DOMAIN len : len[i] \in Nat
  PROVE  IsFiniteSet(Bytes(len)) /\ Cardinality(Bytes(len)) \in Nat
<1> DEFINE D == DOMAIN len
           T == {{i} \X (1 .. len[i]) : i \in D}
           f == [i \in D |-> {i} \X (1 .. len[i])]
<1>1. f \in Surjection(D, T)
  BY DEF Surjection
<1>2. IsFiniteSet(T)
  <2> HIDE DEF f, T
  <2> QED
    BY <1>1, FS_Surjection
<1>3. ASSUME NEW X \in T
      PROVE  IsFiniteSet(X)
  <2>1. PICK i \in D : X = {i} \X (1 .. len[i])
    OBVIOUS
  <2>2. IsFiniteSet(1 .. len[i])
    BY FS_Interval
  <2>3. IsFiniteSet({i})
    BY FS_Singleton
  <2> QED
    BY <2>1, <2>2, <2>3, FS_Product
<1>4. IsFiniteSet(UNION T)
  <2> HIDE DEF T
  <2> QED
    BY <1>2, <1>3, FS_UNION
<1> QED
  BY <1>4, FS_CardinalityType DEF Bytes

\* An entry that was not removed has a value.
Valued(t) == \A i \in DOMAIN t : t[i].key # NULL => t[i].value # NULL

\* Removed entries have length 0 in the sum of ParsedHeader_headersLen and are skipped
\* by the printing loop, so that it writes one byte more, the NUL.
LEMMA PrintedLength ==
  ASSUME headers \in Seq(Entry), Valued(headers)
  PROVE  ParsedHeader_headersLen \in Nat /\ Printed = ParsedHeader_headersLen + 1
<1> DEFINE L == [i \in DOMAIN headers |-> ParsedHeader_lineLen(headers[i])]
           P == [i \in DOMAIN Live(headers) |->
                   Len(headers[i].key) + Len(headers[i].value) + 4]
<1>1. /\ DOMAIN Live(headers) \subseteq DOMAIN headers
      /\ \A i \in DOMAIN headers : i \in DOMAIN Live(headers) <=> headers[i].key # NULL
  BY DEF Live
<1>2. ASSUME NEW i \in DOMAIN headers, headers[i].key # NULL
      PROVE  L[i] = P[i] /\ L[i] \in Nat
  <2>0. headers[i] \in Entry
    BY ElementOfSeq, LenProperties
  <2>1. headers[i].key \in Keys /\ headers[i].value \in Values
    BY <1>2, <2>0 DEF Valued, Entry
  <2>2. headers[i].key \in Seq(STRING) /\ headers[i].value \in Seq(STRING)
    BY <2>1, ParserAssumption
  <2>3. Len(headers[i].key) \in Nat /\ Len(headers[i].value) \in Nat
    BY <2>2, LenProperties
  <2> DEFINE a == Len(headers[i].key)
             b == Len(headers[i].value)
             len == a + b + 4
  <2>4. len \in Nat
    <3> HIDE DEF a, b
    <3>1. a \in Nat /\ b \in Nat
      BY <2>3 DEF a, b
    <3> QED
      BY <3>1
  <2>5. ParsedHeader_lineLen(headers[i]) = len
    BY <1>2 DEF ParsedHeader_lineLen
  <2>6. L[i] = ParsedHeader_lineLen(headers[i]) /\ P[i] = len
    BY <1>1, <1>2
  <2> QED
    BY <2>4, <2>5, <2>6
<1>3. ASSUME NEW i \in DOMAIN headers, headers[i].key = NULL
      PROVE  L[i] = 0
  BY <1>3 DEF ParsedHeader_lineLen
<1>4. DOMAIN L = DOMAIN headers /\ DOMAIN P = DOMAIN Live(headers)
  OBVIOUS
<1>5. IsFiniteSet(DOMAIN L) /\ \A i \in DOMAIN L : L[i] \in Nat
  <2>1. DOMAIN headers = 1 .. Len(headers) /\ Len(headers) \in Nat
    BY LenProperties
  <2>2. IsFiniteSet(1 .. Len(headers))
    BY <2>1, FS_Interval
  <2> HIDE DEF L, P
  <2>3. \A i \in DOMAIN L : L[i] \in Nat
    BY <1>2, <1>3, <1>4
  <2> QED
    BY <2>1, <2>2, <2>3, <1>4
<1> HIDE DEF L, P
<1>6. Bytes(P) = Bytes(L)
  <2>1. \A i \in DOMAIN P : i \in DOMAIN L /\ P[i] = L[i]
    BY <1>1, <1>2, <1>4
  <2>2. ASSUME NEW i \in DOMAIN L, i \notin DOMAIN P
        PROVE  {i} \X (1 .. L[i]) = {}
    <3>1. L[i] = 0
      BY <2>2, <1>1, <1>3, <1>4
    <3>2. 1 .. L[i] = {}
      BY <3>1
    <3> QED
      BY <3>2
  <2>3. Bytes(P) \subseteq Bytes(L)
    BY <2>1 DEF Bytes
  <2>4. ASSUME NEW x \in Bytes(L)
        PROVE  x \in Bytes(P)
    <3>1. PICK i \in DOMAIN L : x \in {i} \X (1 .. L[i])
      BY DEF Bytes
    <3>2. i \in DOMAIN P /\ P[i] = L[i]
      BY <3>1, <2>1, <2>2
    <3> QED
      BY <3>1, <3>2 DEF Bytes
  <2> QED
    BY <2>3, <2>4
<1>7. Cardinality(Bytes(L)) \in Nat
  BY <1>5, BytesFinite
<1>8. ParsedHeader_headersLen = Cardinality(Bytes(L)) + 2
  BY DEF ParsedHeader_headersLen, L
<1>9. Printed = Cardinality(Bytes(P)) + 3
  BY DEF Printed, P
<1> QED
  BY <1>6, <1>7, <1>8, <1>9

\* The bound on what was written needs that no printed entry is without a value.
FitInv == ParserInv /\ Valued(headers) /\ UnparseFits

\* ParsedHeader_set stores a value and ParsedHeader_remove takes key and value away.
LEMMA ValuedKept ==
  ASSUME ParserInv, Valued(headers), [Next]_vars
  PROVE  Valued(headers')
<1> USE DEF table, fields, sending
<1>0. headers \in Seq(Entry) /\ Unique(headers) /\ Types
  BY DEF ParserInv, Types
<1>1. ASSUME headers' = headers
      PROVE  Valued(headers')
  BY <1>1
<1>2. ASSUME headers' = <<>>
      PROVE  Valued(headers')
  BY <1>2 DEF Valued
<1>3. ASSUME NEW k \in Keys
      PROVE  Valued(Removed(headers, k)) /\ Removed(headers, k) \in Seq(Entry)
  BY <1>0, RemovedEntries DEF Valued, Hole
<1>4. ASSUME NEW k \in Keys, NEW v \in Values,
             ParsedHeader_set(k, v) \/ SetFails(k) \/ RemoveHeader(k)
      PROVE  Valued(headers')
  <2> DEFINE r == Removed(headers, k)
             e == [key |-> k, value |-> v]
  <2>1. Valued(r) /\ r \in Seq(Entry)
    BY <1>3
  <2>2. headers' = r \/ headers' = Append(r, e)
    BY <1>4 DEF ParsedHeader_set, SetFails, RemoveHeader
  <2>3. e.key = k /\ e.value = v /\ v # NULL /\ e \in Entry
    BY KeysAreNoHoles DEF Entry
  <2> HIDE DEF r, e
  <2>4. Valued(Append(r, e))
    <3>1. /\ DOMAIN Append(r, e) = 1 .. Len(r) + 1 /\ Len(r) \in Nat
          /\ DOMAIN r = 1 .. Len(r)
          /\ \A i \in 1 .. Len(r) : Append(r, e)[i] = r[i]
          /\ Append(r, e)[Len(r) + 1] = e
      BY <2>1, <2>3, AppendProperties, LenProperties
    <3> QED
      BY <3>1, <2>1, <2>3 DEF Valued
  <2> QED
    BY <2>1, <2>2, <2>4
<1>5. CASE ParsedRequest_create \/ ParsedRequest_destroy
  BY <1>2, <1>5 DEF ParsedRequest_create, ParsedRequest_destroy
<1>6. CASE ParseHeader
  <2>1. Key(rest) \in Keys /\ Value(rest) \in Values
    BY <1>0, <1>6, ParsedTexts DEF ParseHeader
  <2> QED
    BY <1>4, <1>6, <2>1 DEF ParseHeader
<1>7. CASE TraceHeader
  BY <1>1, <1>4, <1>7, OwnKeys, KeysAreNoHoles DEF TraceHeader, GetHeader
<1>8. CASE SetConnection \/ RemoveProxyConnection
  BY <1>4, <1>8, OwnKeys, TextAssumption DEF SetConnection, RemoveProxyConnection
<1>9. CASE SetHost
  <2>1. host \in Values
    BY <1>0, <1>9 DEF SetHost, Step, At, Types, Uses
  <2> QED
    BY <1>1, <1>4, <1>9, <2>1, OwnKeys DEF SetHost, GetHeader
<1>10. CASE \/ ParseHeaderFails \/ ParseHeadersEnd \/ HostFallback \/ Dial \/ Crash
            \/ UNCHANGED vars
  BY <1>1, <1>10 DEF ParseHeaderFails, ParseHeadersEnd, HostFallback, GetHeader, Dial,
     Crash, vars
<1>11. ASSUME NEW r \in RequestLines, ParseRefused(r) \/ ParseBadPort(r)
       PROVE  Valued(headers')
  BY <1>1, <1>11 DEF ParseRefused, ParseBadPort
<1>12. ASSUME NEW r \in RequestLines, NEW lines, ParseLine(r, lines)
       PROVE  Valued(headers')
  BY <1>1, <1>12 DEF ParseLine
<1>13. ASSUME NEW n \in Rooms, Unparse(n)
       PROVE  Valued(headers')
  BY <1>1, <1>13 DEF Unparse
<1> QED
  BY <1>5, <1>6, <1>7, <1>8, <1>9, <1>10, <1>11, <1>12, <1>13 DEF Next

\* Only ParsedRequest_unparse_headers writes, and only the destructor forgets it.
LEMMA FitsKept ==
  ASSUME FitInv, [Next]_vars
  PROVE  UnparseFits'
<1> USE DEF table, fields, sending
<1>1. ASSUME UNCHANGED <<written, room>>
      PROVE  UnparseFits'
  BY <1>1 DEF FitInv, UnparseFits
<1>2. ASSUME NEW n \in Rooms, Unparse(n)
      PROVE  UnparseFits'
  <2>1. ParsedHeader_headersLen \in Nat /\ Printed = ParsedHeader_headersLen + 1
    BY PrintedLength DEF FitInv, ParserInv, Types
  <2>2. n \in Nat
    BY ParserAssumption
  <2>3. room' = n /\ written' = IF n < ParsedHeader_headersLen THEN 0 ELSE Printed
    BY <1>2 DEF Unparse
  <2> QED
    BY <2>1, <2>2, <2>3 DEF UnparseFits
<1>3. CASE ParsedRequest_destroy
  BY <1>3 DEF ParsedRequest_destroy, UnparseFits
<1>4. CASE ParsedRequest_create \/ ParseHeader \/ ParseHeaderFails \/ ParseHeadersEnd
             \/ HostFallback
  BY <1>1, <1>4 DEF ParsedRequest_create, ParseHeader, ParseHeaderFails, ParseHeadersEnd,
     HostFallback
<1>5. CASE TraceHeader \/ SetConnection \/ RemoveProxyConnection \/ SetHost
  BY <1>1, <1>5 DEF TraceHeader, SetConnection, RemoveProxyConnection, SetHost, Step
<1>6. CASE Dial \/ Crash \/ UNCHANGED vars
  BY <1>1, <1>6 DEF Dial, Crash, vars
<1>7. ASSUME NEW r \in RequestLines, ParseRefused(r) \/ ParseBadPort(r)
      PROVE  UnparseFits'
  BY <1>1, <1>7 DEF ParseRefused, ParseBadPort
<1>8. ASSUME NEW r \in RequestLines, NEW lines, ParseLine(r, lines)
      PROVE  UnparseFits'
  BY <1>1, <1>8 DEF ParseLine
<1> QED
  BY <1>2, <1>3, <1>4, <1>5, <1>6, <1>7, <1>8 DEF Next

-----------------------------------------------------------------------------
(* The theorems *)

\* ParsedHeader_set never writes behind the table, however many lines a request has
\* and however often the table has grown.
THEOREM ParserTableInBounds == Spec => []TableInBounds
<1>1. ParserInv => TableInBounds
  BY LenProperties DEF ParserInv, Types, TableInv, TableInBounds, Lost, headersused
<1> QED
  BY <1>1, AlwaysParserInv, PTL

\* ParsedRequest_destroy frees only what is allocated, once, on every path through the
\* parser, and leaves only the copies that the code never frees.
THEOREM ParserFreedOnce == Spec => []FreedOnce
<1>1. ParserInv => FreedOnce
  BY DEF ParserInv, BlockInv, FreedOnce, Destroyed, Uses
<1> QED
  BY <1>1, AlwaysParserInv, PTL

\* Whatever the client sent, the end server gets one "Connection: close", one Host and
\* one trace id, and no "Proxy-Connection".
THEOREM ParserForwardedHeaders == Spec => []ForwardedHeaders
<1>1. ParserInv => ForwardedHeaders
  BY DEF ParserInv, HeadersInv
<1> QED
  BY <1>1, AlwaysParserInv, PTL

\* The check of ParsedHeader_printHeaders against the length it is given bounds what it
\* writes to one byte more than that length, for every table and every room.
THEOREM ParserUnparseFits == Spec => []UnparseFits
<1>1. Init => FitInv
  <2> SUFFICES ASSUME Init PROVE FitInv
    OBVIOUS
  <2>1. Valued(headers)
    BY DEF Init, Valued
  <2>2. UnparseFits
    BY DEF Init, UnparseFits
  <2> QED
    BY <2>1, <2>2, InitInv DEF FitInv
<1>2. FitInv /\ [Next]_vars => FitInv'
  <2> SUFFICES ASSUME FitInv, [Next]_vars PROVE FitInv'
    OBVIOUS
  <2>1. ParserInv'
    BY NextInv DEF FitInv
  <2>2. Valued(headers)'
    BY ValuedKept DEF FitInv, Valued
  <2> QED
    BY <2>1, <2>2, FitsKept DEF FitInv
<1>3. FitInv => UnparseFits
  BY DEF FitInv
<1> QED
  BY <1>1, <1>2, <1>3, PTL DEF Spec

-----------------------------------------------------------------------------
(* The header table implements the map *)

\* The map a table stands for.
MapOf(t, lost) == [k \in Keys |-> IF lost THEN NULL ELSE ParsedHeader_get(t, k)]

\* An empty table, or a lost one, stands for the empty map.
LEMMA EmptyMap ==
  ASSUME NEW t, NEW lost \in BOOLEAN, t = <<>> \/ lost
  PROVE  MapOf(t, lost) = Map!Empty
<1>1. ASSUME NEW k \in Keys, t = <<>>
      PROVE  ParsedHeader_get(t, k) = NULL
  <2>1. Having(t, k) = {}
    BY <1>1 DEF Having
  <2> QED
    BY <2>1, NoMatch
<1> QED
  BY <1>1 DEF MapOf, Map!Empty

\* A header call is a step of the map, whether it succeeds or loses the table.
LEMMA SetRefines ==
  ASSUME ParserInv, phase # "idle", ~Lost, NEW k \in Keys, NEW v \in Values,
         ParsedHeader_set(k, v) \/ SetFails(k)
  PROVE  Map!Next
<1>1. Types /\ Sound /\ Unique(headers)
  BY InUseSound DEF ParserInv
<1>2. CASE ParsedHeader_set(k, v)
  <2>1. /\ ~Lost'
        /\ \A q \in Keys : ParsedHeader_get(headers', q)
                             = IF q = k THEN v ELSE ParsedHeader_get(headers, q)
        /\ last' = [op |-> "set", key |-> k, value |-> v]
    BY <1>1, <1>2, SetStep
  <2>2. MapOf(headers', FALSE) = [MapOf(headers, FALSE) EXCEPT ![k] = v]
    BY <2>1 DEF MapOf
  <2>3. Map!Set(k, v)
    BY <2>1, <2>2 DEF Map!Set, Map!Call, MapOf
  <2> QED
    BY <2>3 DEF Map!Next
<1>3. CASE SetFails(k)
  <2>1. Lost' /\ last' = [op |-> "lost", key |-> NULL, value |-> NULL]
    BY <1>1, <1>3, FailStep
  <2>2. MapOf(headers', TRUE) = Map!Empty
    BY EmptyMap
  <2>3. Map!Clear("lost")
    BY <2>1, <2>2 DEF Map!Clear, Map!Call, MapOf
  <2> QED
    BY <2>3 DEF Map!Next
<1> QED
  BY <1>2, <1>3

\* ParsedHeader_get returns what the map holds.
LEMMA GetRefines ==
  ASSUME ~Lost, NEW k \in Keys, GetHeader(k)
  PROVE  Map!Next
<1>1. UNCHANGED <<headers, allocated>> /\ ~Lost'
  BY DEF GetHeader, table, Lost, headersused
<1>2. last' = [op |-> "get", key |-> k, value |-> ParsedHeader_get(headers, k)]
  BY DEF GetHeader, Call
<1>3. Map!Get(k)
  BY <1>1, <1>2 DEF Map!Get, Map!Call
<1> QED
  BY <1>3 DEF Map!Next

\* ParsedHeader_remove removes from the map.
LEMMA RemoveRefines ==
  ASSUME ParserInv, phase # "idle", ~Lost, NEW k \in Keys, RemoveHeader(k)
  PROVE  Map!Next
<1>1. Types /\ Sound /\ Unique(headers)
  BY InUseSound DEF ParserInv
<1>2. /\ ~Lost'
      /\ \A q \in Keys : ParsedHeader_get(headers', q)
                           = IF q = k THEN NULL ELSE ParsedHeader_get(headers, q)
      /\ last' = [op |-> "remove", key |-> k, value |-> NULL]
  BY <1>1, RemoveStep
<1>3. MapOf(headers', FALSE) = [MapOf(headers, FALSE) EXCEPT ![k] = NULL]
  BY <1>2 DEF MapOf
<1>4. Map!Remove(k)
  BY <1>2, <1>3 DEF Map!Remove, Map!Call, MapOf
<1> QED
  BY <1>4 DEF Map!Next

\* A new or a destroyed object has no headers.
LEMMA ClearRefines ==
  ASSUME headers' = <<>>, last' = [op |-> "create", key |-> NULL, value |-> NULL]
  PROVE  Map!Next
<1>1. Len(headers') = 0 /\ ~Lost'
  BY DEF Lost, headersused
<1>2. MapOf(headers', FALSE) = Map!Empty
  BY EmptyMap
<1>3. Map!Clear("create")
  BY <1>1, <1>2 DEF Map!Clear, Map!Call, MapOf
<1> QED
  BY <1>3 DEF Map!Next

\* What leaves the table and the last call alone is no step of the map.
LEMMA StutterRefines ==
  ASSUME UNCHANGED <<headers, allocated, last>>
  PROVE  UNCHANGED Map!vars
BY DEF Lost, headersused, Map!vars

\* Every step of the worker is a header call of the map, or none.
LEMMA NextRefines == ParserInv /\ [Next]_vars => [Map!Next]_(Map!vars)
<1> SUFFICES ASSUME ParserInv, [Next]_vars PROVE Map!Next \/ UNCHANGED Map!vars
  OBVIOUS
<1> USE DEF table, fields, sending
<1>1. CASE ParsedRequest_create \/ ParsedRequest_destroy
  BY <1>1, ClearRefines DEF ParsedRequest_create, ParsedRequest_destroy, Call
<1>2. ASSUME NEW r \in RequestLines, ParseRefused(r) \/ ParseBadPort(r)
      PROVE  UNCHANGED Map!vars
  BY <1>2, StutterRefines DEF ParseRefused, ParseBadPort
<1>3. ASSUME NEW r \in RequestLines, NEW n \in 0 .. MaxLines,
             NEW lines \in [1 .. n -> HeaderLines], ParseLine(r, lines)
      PROVE  UNCHANGED Map!vars
  BY <1>3, StutterRefines DEF ParseLine
<1>4. CASE ParseHeader
  <2>1. Key(rest) \in Keys /\ Value(rest) \in Values
    BY <1>4, ParsedTexts DEF ParserInv, ParseHeader
  <2> QED
    BY <1>4, <2>1, SetRefines DEF ParseHeader, At
<1>5. CASE ParseHeaderFails \/ ParseHeadersEnd \/ Dial \/ Crash
  BY <1>5, StutterRefines DEF ParseHeaderFails, ParseHeadersEnd, Dial, Crash
<1>6. CASE HostFallback
  BY <1>6, GetRefines, OwnKeys DEF HostFallback, At
<1>7. CASE TraceHeader
  <2>1. phase = "trace" /\ ~Lost
    BY <1>7 DEF TraceHeader, At
  <2>2. \/ GetHeader(<<"X-Trace-Id">>)
        \/ ParsedHeader_set(<<"X-Trace-Id">>, TraceId) \/ SetFails(<<"X-Trace-Id">>)
    BY <1>7 DEF TraceHeader
  <2> QED
    BY <2>1, <2>2, SetRefines, GetRefines, OwnKeys, KeysAreNoHoles
<1>8. CASE SetConnection
  <2>1. phase = "connection" /\ ~Lost
    BY <1>8 DEF SetConnection, Step, At
  <2>2. <<"close">> \in Values
    BY TextAssumption
  <2> QED
    BY <1>8, <2>1, <2>2, SetRefines, OwnKeys DEF SetConnection
<1>9. CASE RemoveProxyConnection
  <2>1. phase = "proxyconnection" /\ ~Lost
    BY <1>9 DEF RemoveProxyConnection, Step, At
  <2> QED
    BY <1>9, <2>1, RemoveRefines, OwnKeys DEF RemoveProxyConnection
<1>10. CASE SetHost
  <2>1. phase = "host" /\ ~Lost /\ host \in Values
    BY <1>10 DEF SetHost, Step, At, ParserInv, Types, Uses
  <2>2. \/ GetHeader(<<"Host">>)
        \/ ParsedHeader_set(<<"Host">>, host) \/ SetFails(<<"Host">>)
    BY <1>10 DEF SetHost
  <2> QED
    BY <2>1, <2>2, SetRefines, GetRefines, OwnKeys
<1>11. ASSUME NEW n \in Rooms, Unparse(n)
       PROVE  UNCHANGED Map!vars
  BY <1>11, StutterRefines DEF Unparse
<1>12. CASE UNCHANGED vars
  BY <1>12, StutterRefines DEF vars
<1> QED
  BY <1>1, <1>2, <1>3, <1>4, <1>5, <1>6, <1>7, <1>8, <1>9, <1>10, <1>11, <1>12 DEF Next

\* The header table of ParsedRequest is a map: over a sequence of requests, through
\* holes, growth and a failed realloc, every get returns what was last set and not
\* removed since.
THEOREM ParserIsHeaderMap == Spec => HeaderMapImplemented
<1>1. Init => Map!Init
  <2> SUFFICES ASSUME Init PROVE Map!Init
    OBVIOUS
  <2>1. headers = <<>> /\ last = [op |-> "create", key |-> NULL, value |-> NULL]
    BY DEF Init
  <2>2. Len(headers) = 0 /\ ~Lost
    BY <2>1 DEF Lost, headersused
  <2>3. MapOf(headers, FALSE) = Map!Empty
    BY <2>1, EmptyMap
  <2> QED
    BY <2>1, <2>2, <2>3 DEF Map!Init, MapOf
<1> QED
  BY <1>1, AlwaysParserInv, NextRefines, PTL DEF Spec, HeaderMapImplemented, Map!Spec

=============================================================================
