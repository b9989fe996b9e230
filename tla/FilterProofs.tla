---------------------------- MODULE FilterProofs ----------------------------
(***************************************************************************)
(* What the filter decides and what the relay makes of it.                 *)
(*                                                                         *)
(* Filter, for every set of workers, every list file and every question: no *)
(* change of a list file is lost, every check answers what one complete set *)
(* of files says, and the access list and the credentials are compared as  *)
(* their rules say.  Relay, for every max_bytes, every response and every   *)
(* way of cutting it into chunks: no buffer is overrun and a blocked        *)
(* response is neither streamed nor stored.                                *)
(***************************************************************************)
EXTENDS Filter, Relay, SequenceTheorems, TLAPS

-----------------------------------------------------------------------------
(* The relay *)

\* The buffer while and after it is filled.  One doubling is enough because a chunk is
\* no longer than max_bytes and the capacity never falls below that; RESPONSE_CAPACITY
\* is the size of the allocation until a realloc fails, and then nothing is appended.
BufferInv ==
  /\ max_bytes <= RESPONSE_CAPACITY
  /\ RESPONSE_LENGTH + 1 <= allocated
  /\ allocated <= RESPONSE_CAPACITY
  /\ stage \in {"recv", "relay"} => allocated = RESPONSE_CAPACITY

\* What the client and the cache have, as far as a blocked response goes.
BlockInv ==
  /\ response.blocked => sent < response.hdr_end
  /\ cached => stage = "done" /\ ~TypeBlocked

\* The inductive invariant of an exchange.
RelayInv == RelayTypeOK /\ BufferInv /\ BlockInv

\* An exchange starts with an empty buffer of max_bytes.
LEMMA InitRelay == RelayInit => RelayInv
<1> SUFFICES ASSUME RelayInit PROVE RelayInv
  OBVIOUS
<1>1. RelayTypeOK
  BY RelayAssumption DEF RelayInit, RelayTypeOK
<1>2. BufferInv
  BY RelayAssumption DEF RelayInit, BufferInv
<1>3. BlockInv
  <2>1. response \in Responses /\ sent = 0 /\ cached = FALSE
    BY DEF RelayInit
  <2>2. response.blocked => 0 < response.content_type /\ response.content_type <= response.hdr_end
    BY <2>1, RelayAssumption
  <2>3. response.content_type \in Nat /\ response.hdr_end \in Nat
    BY <2>1, RelayAssumption DEF Response
  <2> QED
    BY <2>1, <2>2, <2>3 DEF BlockInv
<1> QED
  BY <1>1, <1>2, <1>3 DEF RelayInv

\* A chunk is appended: one doubling makes enough room for it and the terminator.
LEMMA AppendRelay ==
  ASSUME RelayInv, NEW n \in 1 .. max_bytes, RecvAppend(n)
  PROVE  RelayInv'
<1>1. max_bytes \in Nat /\ n \in Nat /\ n <= max_bytes
  BY RelayAssumption
<1>2. RelayTypeOK'
  BY <1>1 DEF RelayInv, RelayTypeOK, RecvAppend
<1>3. BufferInv'
  BY <1>1 DEF RelayInv, RelayTypeOK, BufferInv, RecvAppend, Grows
<1>4. BlockInv'
  BY DEF RelayInv, BlockInv, RecvAppend
<1> QED
  BY <1>2, <1>3, <1>4 DEF RelayInv

\* A chunk for which there is no memory is dropped.
LEMMA NoMemoryRelay ==
  ASSUME RelayInv, NEW n \in 1 .. max_bytes, RecvNoMemory(n)
  PROVE  RelayInv'
<1>1. RelayTypeOK'
  BY DEF RelayInv, RelayTypeOK, RecvNoMemory
<1>2. BufferInv'
  BY RelayAssumption DEF RelayInv, RelayTypeOK, BufferInv, RecvNoMemory
<1>3. BlockInv'
  BY DEF RelayInv, BlockInv, RecvNoMemory
<1> QED
  BY <1>1, <1>2, <1>3 DEF RelayInv

\* A chunk that is streamed belongs to a response that is not blocked, or ends inside
\* the header.
LEMMA ChunkRelay ==
  ASSUME RelayInv, NEW ok \in BOOLEAN, RelayChunk(ok)
  PROVE  RelayInv'
<1>1. RelayTypeOK'
  BY DEF RelayInv, RelayTypeOK, RelayChunk, buffer
<1>2. BufferInv'
  BY DEF RelayInv, RelayTypeOK, BufferInv, RelayChunk, buffer
<1>3. /\ response \in Responses /\ RESPONSE_LENGTH \in Nat
      /\ response.content_type \in Nat /\ response.hdr_end \in Nat
  BY RelayAssumption DEF RelayInv, RelayTypeOK, Response
<1>4. response.blocked => 0 < response.content_type /\ response.content_type <= response.hdr_end
  BY <1>3, RelayAssumption
<1>5. response.blocked => RESPONSE_LENGTH < response.hdr_end
  BY <1>3, <1>4 DEF RelayChunk, Inspect, HeaderSeen, TypeBlocked
<1>6. BlockInv'
  BY <1>5 DEF RelayInv, BlockInv, RelayChunk, buffer
<1> QED
  BY <1>1, <1>2, <1>6 DEF RelayInv

\* Every step of HandleRequest keeps the invariant.
LEMMA NextRelay == RelayInv /\ [RelayNext]_relayVars => RelayInv'
<1> SUFFICES ASSUME RelayInv, [RelayNext]_relayVars PROVE RelayInv'
  OBVIOUS
<1> USE DEF buffer
<1>1. ASSUME NEW n \in 1 .. max_bytes, RecvAppend(n) \/ RecvNoMemory(n)
      PROVE  RelayInv'
  BY <1>1, AppendRelay, NoMemoryRelay
<1>2. CASE RecvEnd
  BY <1>2 DEF RecvEnd, RelayInv, RelayTypeOK, BufferInv, BlockInv
<1>3. CASE BlockNow
  BY <1>3 DEF BlockNow, RelayInv, RelayTypeOK, BufferInv, BlockInv
<1>4. CASE BlockPage
  BY <1>4 DEF BlockPage, RelayInv, RelayTypeOK, BufferInv, BlockInv
<1>5. ASSUME NEW ok \in BOOLEAN, RelayChunk(ok)
      PROVE  RelayInv'
  BY <1>5, ChunkRelay
<1>6. ASSUME NEW ok \in BOOLEAN, Terminate(ok)
      PROVE  RelayInv'
  <2>1. allocated' = allocated
    BY <1>6 DEF Terminate, RelayInv, RelayTypeOK, BufferInv
  <2> QED
    BY <1>6, <2>1 DEF Terminate, RelayInv, RelayTypeOK, BufferInv, BlockInv
<1>7. ASSUME NEW ok \in BOOLEAN, Store(ok)
      PROVE  RelayInv'
  BY <1>7 DEF Store, Refused, TypeBlocked, RelayInv, RelayTypeOK, BufferInv, BlockInv
<1>8. CASE UNCHANGED relayVars
  BY <1>8 DEF relayVars, TypeBlocked, RelayInv, RelayTypeOK, BufferInv, BlockInv
<1> QED
  BY <1>1, <1>2, <1>3, <1>4, <1>5, <1>6, <1>7, <1>8 DEF RelayNext

\* Every reachable state of an exchange satisfies the invariant.
LEMMA RelayInvariant == RelaySpec => []RelayInv
<1>1. RelayInit => RelayInv
  BY InitRelay
<1>2. RelayInv /\ [RelayNext]_relayVars => RelayInv'
  BY NextRelay
<1> QED
  BY <1>1, <1>2, PTL DEF RelaySpec

\* HandleRequest never writes behind the response buffer, whatever the sizes of the
\* chunks and whenever realloc fails.
THEOREM RelayNoOverrun == RelaySpec => []NoOverrun
<1>1. RelayInv => NoOverrun
  BY DEF RelayInv, BufferInv, NoOverrun
<1> QED
  BY <1>1, RelayInvariant, PTL

\* No byte of the body of a blocked response reaches the client.
THEOREM RelayBodyWithheld == RelaySpec => []BlockedBodyWithheld
<1>1. RelayInv => BlockedBodyWithheld
  BY DEF RelayInv, BlockInv, BlockedBodyWithheld
<1> QED
  BY <1>1, RelayInvariant, PTL

\* No response whose blocked type was received is stored.
THEOREM RelayBlockedNotCached == RelaySpec => []BlockedNotCached
<1>1. RelayInv => BlockedNotCached
  BY DEF RelayInv, BlockInv, BlockedNotCached
<1> QED
  BY <1>1, RelayInvariant, PTL

-----------------------------------------------------------------------------
(* The changes of the list files *)

\* Where the filter's thread has still to read the file of a list.
Before(l) ==
  CASE l = "domain" -> {"wrlock", "clear", "domain"}
    [] l = "url" -> {"wrlock", "clear", "domain", "allow", "deny", "url"}
    [] l = "ct" -> {"wrlock", "clear", "domain", "allow", "deny", "url", "ctreset"}

\* The steps of a load under the write lock.
Inside == Steps \ {"none", "idle", "wrlock"}

\* A change of a watched file is queued as an event, or the filter's thread has still
\* to read the file, or some load has read it; what was read is in force once no load
\* is under way.
ChangeInv ==
  /\ DOMAIN files = Lists /\ DOMAIN read = Lists
  /\ load \in [Loaders -> Steps]
  /\ load["main"] # "none" => load["hot"] = "none"
  /\ load["main"] \notin {"unlock", "none"} => watch = {}
  /\ watch \subseteq WatchedLists /\ changed \subseteq watch
  /\ \A t \in Loaders : load[t] \in Inside => writer = t
  /\ writer = NULL => inforce = read
  /\ \A l \in changed : files[l] # NULL
  /\ \A l \in changed : events \/ load["hot"] \in Before(l) \/ read[l] = files[l]

\* filter_init has read nothing yet, and nothing is watched.
LEMMA InitChange == Init => ChangeInv
  <1> SUFFICES ASSUME Init
               PROVE  ChangeInv
    OBVIOUS
  <1>1. DOMAIN files = Lists /\ DOMAIN read = Lists /\ inforce = read
    BY DEF Init, Lists
  <1>2. load = [t \in Loaders |-> IF t = "hot" THEN "none" ELSE "idle"]
    BY DEF Init
  <1>3. /\ load["main"] = "idle" /\ load["hot"] = "none"
        /\ load \in [Loaders -> Steps] /\ \A t \in Loaders : load[t] \notin Inside
    BY <1>2 DEF Loaders, Inside, Steps
  <1>4. watch = {} /\ changed = {}
    BY DEF Init
  <1>5. QED
    BY <1>1, <1>3, <1>4 DEF ChangeInv

\* Reading a list sets what was read to the file.
LEMMA LoadListKeeps ==
  ASSUME ChangeInv, NEW t \in Loaders, NEW l, NEW next,
         <<l, next>> \in {<<"domain", "allow">>, <<"allow", "deny">>, <<"deny", "url">>,
                          <<"url", "ctreset">>},
         LoadList(t, l, next)
  PROVE  ChangeInv'
  BY FilterAssumption DEF ChangeInv, LoadList, Goto, Loaders, Inside, Steps, Lists,
                          WatchedLists, Before, disk, lock

\* Every step of a load keeps the invariant, whichever thread loads.  The filter's own
\* thread does not exist before main has given the lock back.
LEMMA LoadKeeps ==
  ASSUME ChangeInv, NEW t \in Loaders, Load(t)
  PROVE  ChangeInv'
  <1>1. CASE WrLock(t)
    BY <1>1, FilterAssumption DEF WrLock, ChangeInv, Goto, Loaders, Inside, Steps, WatchedLists,
                Before, disk
  <1>2. CASE filter_clear(t)
    BY <1>2, FilterAssumption DEF filter_clear, ChangeInv, Goto, Loaders, Inside, Steps,
                WatchedLists, Before, disk, lock
  <1>3. CASE LoadDomains(t) \/ LoadAllowed(t) \/ LoadDenied(t) \/ LoadUrls(t)
    BY <1>3, LoadListKeeps DEF LoadDomains, LoadAllowed, LoadDenied, LoadUrls
  <1>4. CASE ResetContentTypes(t)
    BY <1>4, FilterAssumption DEF ResetContentTypes, ChangeInv, Goto, Loaders, Inside, Steps,
                Lists, WatchedLists, Before, disk, lock
  <1>5. CASE LoadContentTypes(t)
    BY <1>5, FilterAssumption DEF LoadContentTypes, ChangeInv, Goto, Loaders, Inside, Steps,
                WatchedLists, Before, disk, lock
  <1>6. CASE Unlock(t)
    <2>1. /\ \A u \in Loaders \ {t} : load'[u] = load[u] \/ load'[u] = "idle"
          /\ load'[t] \in {"none", "idle"} /\ load' \in [Loaders -> Steps]
      BY <1>6 DEF Unlock, ChangeInv, Loaders, Steps
    <2>2. \A u \in Loaders : load'[u] \notin Inside
      BY <1>6, <2>1 DEF Unlock, ChangeInv, Inside, Steps
    <2>3. load["hot"] \in Inside => t = "hot"
      BY <1>6 DEF Unlock, ChangeInv, Inside, Steps, Loaders
    <2>4. load'["hot"] = load["hot"] \/ load["hot"] # "wrlock"
      BY <1>6 DEF Unlock, ChangeInv, Loaders
    <2>5. QED
      BY <1>6, <2>1, <2>2, <2>3, <2>4 DEF Unlock, ChangeInv, Inside, Steps,
                                          WatchedLists, Before, disk, Loaders
  <1>7. QED
    BY <1>1, <1>2, <1>3, <1>4, <1>5, <1>6 DEF Load

\* The checks of the workers change neither files nor what was read of them.
LEMMA CheckKeeps ==
  ASSUME ChangeInv, NEW w \in Workers, Check(w)
  PROVE  ChangeInv'
  <1>1. UNCHANGED <<disk, writer, load, read, inforce>>
    <2>1. CASE \E k \in Kinds : Ask(w, k)
      BY <2>1 DEF Ask, lock
    <2>2. CASE RdLock(w) \/ RdUnlock(w) \/ NextToken(w)
      BY <2>2 DEF RdLock, RdUnlock, NextToken, lock
    <2>3. CASE \E q \in Asked[kind[w]] : Decide(w, q) \/ FirstToken(w, q)
      BY <2>3 DEF Decide, FirstToken, lock
    <2>4. CASE (\E q \in ContentTypes : AskEmpty(w, q)) \/ Return(w)
      BY <2>4 DEF AskEmpty, Return, lock
    <2>5. QED
      BY <2>1, <2>2, <2>3, <2>4 DEF Check
  <1>2. QED
    BY <1>1 DEF ChangeInv, disk

\* A write to a watched file queues an event; a file that is replaced leaves the watch.
LEMMA OperatorKeeps ==
  ASSUME ChangeInv, NEW l \in Lists, NEW c, WriteFile(l, c) \/ ReplaceFile(l, c)
  PROVE  ChangeInv'
  <1>1. /\ files' = [files EXCEPT ![l] = c] /\ DOMAIN files = Lists
        /\ UNCHANGED <<load, read, inforce, writer>>
        /\ watch' \in {watch, watch \ {l}}
        /\ events' = (events \/ l \in watch)
    BY DEF ChangeInv, WriteFile, ReplaceFile, lock
  <1>2. files'[l] = c /\ \A m \in Lists \ {l} : files'[m] = files[m]
    BY <1>1
  <1>3. CASE WriteFile(l, c)
    <2>1. /\ c # NULL /\ watch' = watch
          /\ changed' = changed \cup ({l} \cap watch)
      BY <1>3 DEF WriteFile
    <2>2. \A m \in changed' :
            \/ m = l /\ (l \in watch \/ l \in changed)
            \/ m # l /\ m \in changed
      BY <2>1
    <2>3. QED
      BY <1>1, <1>2, <2>1, <2>2 DEF ChangeInv, WatchedLists, Lists
  <1>4. CASE ReplaceFile(l, c)
    <2>1. changed' = changed \ {l} /\ watch' = watch \ {l}
      BY <1>4 DEF ReplaceFile
    <2>2. QED
      BY <1>1, <1>2, <2>1 DEF ChangeInv, WatchedLists, Lists
  <1>5. QED
    BY <1>3, <1>4

\* Every step keeps the invariant.
LEMMA NextChange ==
  ASSUME ChangeInv, [Next]_vars
  PROVE  ChangeInv'
  <1>1. CASE filter_init \/ ConfigReload
    BY <1>1 DEF filter_init, ConfigReload, ChangeInv, Goto, Loaders, Inside,
                Steps, disk, lock
  <1>2. CASE setup_inotify_watches
    BY <1>2 DEF setup_inotify_watches, ChangeInv, Goto, Loaders, Inside, Steps,
                lock, WatchedLists
  <1>3. CASE HotReload
    BY <1>3 DEF HotReload, ChangeInv, Goto, Loaders, Inside, Steps, lock,
                WatchedLists, Before
  <1>4. CASE Operator
    BY <1>4, OperatorKeeps DEF Operator
  <1>5. CASE UNCHANGED vars
    BY <1>5 DEF vars, ChangeInv, disk, lock
  <1>6. QED
    BY <1>1, <1>2, <1>3, <1>4, <1>5, LoadKeeps, CheckKeeps DEF Next

\* When the filter's thread waits, no event is queued and no load is under way, the lists
\* in force are those on disk for every watched file that was changed, however writes and
\* the loads of the three threads overlap.
THEOREM FilterNoChangeLost == Spec => []NoChangeLost
  <1>1. ChangeInv /\ [Next]_vars => ChangeInv'
    BY NextChange
  <1>2. ChangeInv => NoChangeLost
    BY DEF ChangeInv, NoChangeLost, Before, WatchedLists
  <1>3. QED
    BY <1>1, <1>2, InitChange, PTL DEF Spec

-----------------------------------------------------------------------------
(* What the lists answer *)

\* The first n - m + 1 elements of a sequence from the m-th on.
LEMMA SubSeqIs ==
  ASSUME NEW s, NEW m \in Int, NEW n \in Int, m <= n + 1
  PROVE  SubSeq(s, m, n) = [i \in 1 .. n - m + 1 |-> s[m + i - 1]]
<1> DEFINE S == {s[i] : i \in m .. n}
<1>0. \A i \in m .. n : s[i] \in S
  OBVIOUS
<1> HIDE DEF S
<1>1. /\ SubSeq(s, m, n) \in Seq(S)
      /\ Len(SubSeq(s, m, n)) = IF m <= n THEN n - m + 1 ELSE 0
      /\ \A i \in 1 .. n - m + 1 : SubSeq(s, m, n)[i] = s[m + i - 1]
  BY <1>0, SubSeqProperties
<1>2. Len(SubSeq(s, m, n)) = n - m + 1
  BY <1>1
<1>3. SubSeq(s, m, n) = [i \in 1 .. n - m + 1 |-> SubSeq(s, m, n)[i]]
  BY <1>1, <1>2, LenProperties
<1> QED
  BY <1>1, <1>3

\* Numbers are ordered as their quotients, and as their remainders where these agree.
LEMMA DivModOrder ==
  ASSUME NEW a \in Nat, NEW b \in Nat, NEW B \in Nat \ {0}
  PROVE  a < b <=> \/ a \div B < b \div B
                   \/ (a \div B = b \div B /\ a % B < b % B)
<1> DEFINE qa == a \div B  ra == a % B  qb == b \div B  rb == b % B
<1>1. a = B * qa + ra /\ qa \in Int /\ ra \in Int /\ 0 <= ra /\ ra < B
  OBVIOUS
<1>2. b = B * qb + rb /\ qb \in Int /\ rb \in Int /\ 0 <= rb /\ rb < B
  OBVIOUS
<1> HIDE DEF qa, ra, qb, rb
<1>3. ASSUME NEW x \in Int, NEW y \in Int, x < y
      PROVE  B * x + B <= B * y
  <2>1. B * (y - x - 1) >= 0
    <3> DEFINE d == y - x - 1
    <3>1. d \in Nat
      BY <1>3
    <3> HIDE DEF d
    <3>2. B * d >= 0
      BY <3>1
    <3> QED
      BY <3>2 DEF d
  <2> QED
    BY <2>1
<1>4. qa < qb => a < b
  BY <1>1, <1>2, <1>3
<1>5. qb < qa => b < a
  BY <1>1, <1>2, <1>3
<1>6. qa = qb => (a < b <=> ra < rb)
  BY <1>1, <1>2
<1>7. a < b <=> (qa < qb \/ (qa = qb /\ ra < rb))
  BY <1>1, <1>2, <1>4, <1>5, <1>6
<1> QED
  BY <1>7 DEF qa, ra, qb, rb

\* The mask that parse_cidr builds byte by byte has the first p bits set.
LEMMA Mask6Bits ==
  ASSUME NEW n \in Nat, NEW p \in 0 .. n
  PROVE  mask6(n, p) = HighBits(n, p)
<1>1. ASSUME NEW i \in 1 .. n
      PROVE  \/ (i - 1) \div ByteBits < p \div ByteBits
             \/ ((i - 1) \div ByteBits = p \div ByteBits
                   /\ (i - 1) % ByteBits < p % ByteBits)
             <=> i <= p
  <2>1. i - 1 \in Nat /\ p \in Nat /\ ByteBits \in Nat \ {0}
    BY FilterAssumption
  <2>2. i - 1 < p <=> i <= p
    OBVIOUS
  <2> QED
    BY <2>1, <2>2, DivModOrder
<1> QED
  BY <1>1, Zenon DEF mask6, HighBits

\* An address and a rule agree under a mask of p bits when their first p bits agree.
LEMMA MaskedEqual ==
  ASSUME NEW n \in Nat, NEW p \in 0 .. n,
         NEW a \in [1 .. n -> {0, 1}], NEW b \in [1 .. n -> {0, 1}]
  PROVE  Masked(a, HighBits(n, p)) = Masked(b, HighBits(n, p))
           <=> \A i \in 1 .. p : a[i] = b[i]
<1> DEFINE m == HighBits(n, p)
<1>1. \A i \in 1 .. n : m[i] = IF i <= p THEN 1 ELSE 0
  BY DEF HighBits
<1>2. \A i \in 1 .. n : a[i] \in Int /\ b[i] \in Int
  OBVIOUS
<1>3. /\ Masked(a, m) = [i \in 1 .. n |-> a[i] * m[i]]
      /\ Masked(b, m) = [i \in 1 .. n |-> b[i] * m[i]]
  BY DEF Masked
<1> HIDE DEF m
<1>4. \A i \in 1 .. n : a[i] * m[i] = b[i] * m[i] <=> (i <= p => a[i] = b[i])
  <2> TAKE i \in 1 .. n
  <2>1. CASE i <= p
    BY <2>1, <1>1, <1>2
  <2>2. CASE ~(i <= p)
    <3>1. m[i] = 0
      BY <2>2, <1>1
    <3> QED
      BY <2>2, <3>1, <1>2
  <2> QED
    BY <2>1, <2>2
<1>5. Masked(a, m) = Masked(b, m) <=> \A i \in 1 .. n : a[i] * m[i] = b[i] * m[i]
  BY <1>3
<1> QED
  BY <1>4, <1>5 DEF m

\* A block of the list in memory holds the addresses that its line names.
LEMMA BlockHolds ==
  ASSUME NEW r, IsRule(r), NEW ip, IsAddress(ip)
  PROVE  InBlock(ip, parse_cidr(r)) <=> RuleHolds(r, ip)
<1> DEFINE n == IF r.v6 THEN Width6 ELSE Width
           p == IF r.prefix = NULL \/ r.prefix \notin 0 .. n THEN n ELSE r.prefix
<1>1. n \in Nat /\ p \in 0 .. n
  BY AuthAssumption, FilterAssumption
<1>2. r.bits \in [1 .. n -> {0, 1}]
  BY DEF IsRule, IsAddress
<1>3. Len(r.bits) = n
  BY <1>1, <1>2
<1>4. r.v6 \in BOOLEAN
  BY DEF IsRule, IsAddress
<1> SUFFICES ASSUME r.v6 = ip.v6
             PROVE  InBlock(ip, parse_cidr(r)) <=> RuleHolds(r, ip)
  BY DEF InBlock, parse_cidr, RuleHolds
<1>5. ip.bits \in [1 .. n -> {0, 1}]
  BY DEF IsAddress
<1>6. mask6(n, p) = HighBits(n, p)
  BY <1>1, Mask6Bits
<1>7. /\ parse_cidr(r).v6 = r.v6
      /\ parse_cidr(r).mask = HighBits(n, p)
      /\ parse_cidr(r).addr = Masked(r.bits, HighBits(n, p))
  <2>1. Len(r.bits) = (IF r.v6 THEN Width6 ELSE Width)
    BY <1>3
  <2> QED
    BY <2>1, <1>6 DEF parse_cidr
<1>8. RuleHolds(r, ip) <=> SubSeq(r.bits, 1, p) = SubSeq(ip.bits, 1, p)
  BY <1>3 DEF RuleHolds
<1> HIDE DEF n, p
<1>9. /\ SubSeq(r.bits, 1, p) = [i \in 1 .. p |-> r.bits[i]]
      /\ SubSeq(ip.bits, 1, p) = [i \in 1 .. p |-> ip.bits[i]]
  <2>1. p \in Int /\ 1 <= p + 1 /\ p - 1 + 1 = p /\ \A i \in 1 .. p : 1 + i - 1 = i
    BY <1>1
  <2>2. /\ SubSeq(r.bits, 1, p) = [i \in 1 .. p - 1 + 1 |-> r.bits[1 + i - 1]]
        /\ SubSeq(ip.bits, 1, p) = [i \in 1 .. p - 1 + 1 |-> ip.bits[1 + i - 1]]
    BY <2>1, SubSeqIs
  <2> QED
    BY <2>1, <2>2
<1>10. InBlock(ip, parse_cidr(r)) <=> \A i \in 1 .. p : ip.bits[i] = r.bits[i]
  <2>1. InBlock(ip, parse_cidr(r))
          <=> Masked(ip.bits, HighBits(n, p)) = Masked(r.bits, HighBits(n, p))
    BY <1>7 DEF InBlock
  <2> QED
    BY <2>1, <1>1, <1>2, <1>5, MaskedEqual
<1> QED
  BY <1>8, <1>9, <1>10

\* tolower keeps the length of a name.
LEMMA LoweredIs ==
  ASSUME NEW s \in Seq(STRING)
  PROVE  /\ Lowered(s) = [i \in 1 .. Len(s) |-> Lower(s[i])]
         /\ Lowered(s) \in Seq({Lower(s[i]) : i \in 1 .. Len(s)})
         /\ Len(Lowered(s)) = Len(s)
<1>1. Len(s) \in Nat /\ DOMAIN s = 1 .. Len(s)
  OBVIOUS
<1>2. Lowered(s) = [i \in 1 .. Len(s) |-> Lower(s[i])]
  BY <1>1 DEF Lowered
<1> DEFINE S == {Lower(s[i]) : i \in 1 .. Len(s)}
<1>3. Lowered(s) \in [1 .. Len(s) -> S]
  BY <1>2
<1> HIDE DEF S
<1>4. Lowered(s) \in Seq(S) /\ Len(Lowered(s)) = Len(s)
  BY <1>1, <1>3
<1> QED
  BY <1>2, <1>4 DEF S

\* The path of an entry in the trie: its letters from the last to the first.
LEMMA PathIs ==
  ASSUME NEW e \in Seq(STRING)
  PROVE  trie_path(e) = [i \in 1 .. Len(e) |-> Lower(e[Len(e) - i + 1])]
<1>0. Lowered(e) = [i \in 1 .. Len(e) |-> Lower(e[i])] /\ Len(Lowered(e)) = Len(e)
  BY LoweredIs
<1>1. /\ Len(e) \in Nat /\ Len(Lowered(e)) = Len(e)
      /\ \A i \in 1 .. Len(e) : Lowered(e)[i] = Lower(e[i])
  BY <1>0
<1>2. \A i \in 1 .. Len(e) : Len(e) - i + 1 \in 1 .. Len(e)
  BY <1>1
<1> QED
  BY <1>1, <1>2 DEF trie_path, Reverse

\* The beginning of the walk over a name: its last n letters, from the last on.
LEMMA WalkIs ==
  ASSUME NEW q \in Seq(STRING), NEW n \in 0 .. Len(q)
  PROVE  Lowered(SubSeq(Reverse(q), 1, n)) = [i \in 1 .. n |-> Lower(q[Len(q) - i + 1])]
<1>1. Len(q) \in Nat /\ n \in Int /\ 1 <= n + 1 /\ n - 1 + 1 = n
  OBVIOUS
<1>2. SubSeq(Reverse(q), 1, n) = [i \in 1 .. n - 1 + 1 |-> Reverse(q)[1 + i - 1]]
  BY <1>1, SubSeqIs
<1>3. \A i \in 1 .. n : 1 + i - 1 = i /\ Reverse(q)[i] = q[Len(q) - i + 1]
  BY <1>1 DEF Reverse
<1> DEFINE walk == SubSeq(Reverse(q), 1, n)
<1>4. DOMAIN walk = 1 .. n /\ \A i \in 1 .. n : walk[i] = q[Len(q) - i + 1]
  BY <1>1, <1>2, <1>3
<1> HIDE DEF walk
<1>5. Lowered(walk) = [i \in 1 .. n |-> Lower(q[Len(q) - i + 1])]
  BY <1>4 DEF Lowered
<1> QED
  BY <1>5 DEF walk

\* The last letters of a name are those of an entry.
Suffix(q, e) ==
  Len(q) >= Len(e) /\ \A i \in 1 .. Len(e) : Lower(q[Len(q) - Len(e) + i]) = Lower(e[i])

\* The walk over a name is at the end of an entry when the entry's letters are its last.
LEMMA WalkEnds ==
  ASSUME NEW q \in Seq(STRING), NEW e \in Seq(STRING), NEW n \in 1 .. Len(q)
  PROVE  Lowered(SubSeq(Reverse(q), 1, n)) = trie_path(e) <=> (n = Len(e) /\ Suffix(q, e))
<1> DEFINE L == Len(q)  E == Len(e)
           walk == [i \in 1 .. n |-> Lower(q[L - i + 1])]
           path == [i \in 1 .. E |-> Lower(e[E - i + 1])]
<1>1. L \in Nat /\ E \in Nat /\ n \in 1 .. L /\ n \in 0 .. L
  OBVIOUS
<1>2. Lowered(SubSeq(Reverse(q), 1, n)) = walk /\ trie_path(e) = path
  BY <1>1, WalkIs, PathIs
<1> HIDE DEF L, E
<1>3. ASSUME walk = path
      PROVE  n = E /\ \A i \in 1 .. E : Lower(q[L - E + i]) = Lower(e[i])
  <2>1. n = E
    <3>1. DOMAIN walk = 1 .. n /\ DOMAIN path = 1 .. E
      OBVIOUS
    <3> HIDE DEF walk, path
    <3> QED
      BY <1>1, <1>3, <3>1
  <2>2. ASSUME NEW i \in 1 .. E
        PROVE  Lower(q[L - E + i]) = Lower(e[i])
    <3> DEFINE j == E - i + 1
    <3>1. j \in 1 .. E /\ L - j + 1 = L - E + i /\ E - j + 1 = i
      BY <1>1
    <3> HIDE DEF j
    <3>2. walk[j] = Lower(q[L - j + 1]) /\ path[j] = Lower(e[E - j + 1])
      BY <2>1, <3>1
    <3> QED
      BY <1>3, <3>1, <3>2
  <2> QED
    BY <2>1, <2>2
<1>4. ASSUME n = E, \A i \in 1 .. E : Lower(q[L - E + i]) = Lower(e[i])
      PROVE  walk = path
  <2>1. ASSUME NEW i \in 1 .. E
        PROVE  Lower(q[L - i + 1]) = Lower(e[E - i + 1])
    <3> DEFINE j == E - i + 1
    <3>1. j \in 1 .. E /\ L - i + 1 = L - E + j
      BY <1>1
    <3> HIDE DEF j
    <3>2. Lower(q[L - E + j]) = Lower(e[j])
      BY <1>4, <3>1
    <3> QED
      BY <3>1, <3>2 DEF j
  <2> QED
    BY <2>1, <1>4
<1>5. n = E => L >= E
  BY <1>1
<1> HIDE DEF walk, path
<1>6. walk = path <=> (n = E /\ L >= E /\ \A i \in 1 .. E : Lower(q[L - E + i]) = Lower(e[i]))
  BY <1>3, <1>4, <1>5
<1> QED
  BY <1>2, <1>6 DEF L, E, Suffix

\* A name is an entry, or ends with a dot and the entry.
LEMMA NameEnds ==
  ASSUME NEW q \in Seq(STRING), NEW e \in Seq(STRING), e # <<>>
  PROVE  \/ Lowered(q) = Lowered(e)
         \/ EndsWith(Lowered(q), <<".">> \o Lowered(e))
         <=> /\ Suffix(q, e)
             /\ Len(q) = Len(e) \/ Lower(q[Len(q) - Len(e)]) = "."
<1> DEFINE L == Len(q)  E == Len(e)
           lq == Lowered(q)  le == Lowered(e)  tail == <<".">> \o le
           T == {Lower(e[i]) : i \in 1 .. E}
<1>1. L \in Nat /\ E \in Nat /\ E > 0
  OBVIOUS
<1>2. /\ lq = [i \in 1 .. L |-> Lower(q[i])] /\ Len(lq) = L
      /\ le = [i \in 1 .. E |-> Lower(e[i])] /\ Len(le) = E
      /\ le \in Seq(T)
  BY LoweredIs
<1> HIDE DEF T
<1>3. le \in Seq(T \cup {"."}) /\ <<".">> \in Seq(T \cup {"."}) /\ Len(<<".">>) = 1
  BY <1>2
<1>4. /\ Len(tail) = E + 1 /\ tail[1] = "."
      /\ \A i \in 1 .. E : tail[i + 1] = le[i]
      /\ tail = [i \in 1 .. E + 1 |-> tail[i]]
  <2> HIDE DEF le
  <2>1. /\ tail \in Seq(T \cup {"."}) /\ Len(tail) = 1 + E
        /\ \A i \in 1 .. 1 + E : tail[i] = IF i <= 1 THEN <<".">>[i] ELSE le[i - 1]
    BY <1>1, <1>2, <1>3, ConcatProperties
  <2>2. \A i \in 1 .. E : i + 1 \in 1 .. 1 + E /\ ~(i + 1 <= 1) /\ i + 1 - 1 = i
    BY <1>1
  <2>3. tail = [i \in 1 .. E + 1 |-> tail[i]]
    BY <1>1, <2>1, LenProperties
  <2> HIDE DEF tail
  <2>4. \A i \in 1 .. E : tail[i + 1] = le[i]
    BY <2>1, <2>2
  <2>5. tail[1] = "." /\ Len(tail) = E + 1
    <3> HIDE DEF E
    <3>1. 1 \in 1 .. 1 + E /\ 1 + E = E + 1
      BY <1>1
    <3>2. tail[1] = <<".">>[1]
      BY <2>1, <3>1
    <3> QED
      BY <2>1, <3>1, <3>2
  <2> QED
    BY <2>3, <2>4, <2>5
<1> HIDE DEF L, E, tail
<1>5. lq = le <=> (L = E /\ \A i \in 1 .. E : Lower(q[i]) = Lower(e[i]))
  <2>1. ASSUME lq = le PROVE L = E
    BY <1>2, <2>1
  <2>2. ASSUME lq = le, NEW i \in 1 .. E PROVE Lower(q[i]) = Lower(e[i])
    <3>1. lq[i] = Lower(q[i]) /\ le[i] = Lower(e[i])
      BY <1>2, <2>1, <2>2
    <3> QED
      BY <2>2, <3>1
  <2>3. ASSUME L = E, \A i \in 1 .. E : Lower(q[i]) = Lower(e[i]) PROVE lq = le
    BY <1>2, <2>3
  <2> QED
    BY <2>1, <2>2, <2>3
<1> HIDE DEF lq, le
<1>6. ASSUME L >= E + 1
      PROVE  SubSeq(lq, L - (E + 1) + 1, L) = tail
               <=> /\ Lower(q[L - E]) = "."
                   /\ \A i \in 1 .. E : Lower(q[L - E + i]) = Lower(e[i])
  <2> DEFINE m == L - (E + 1) + 1
             sub == [i \in 1 .. E + 1 |-> lq[m + i - 1]]
  <2>1. m \in Int /\ L \in Int /\ m <= L + 1 /\ L - m + 1 = E + 1
    BY <1>1, <1>6
  <2>2. SubSeq(lq, m, L) = sub
    <3>1. SubSeq(lq, m, L) = [i \in 1 .. L - m + 1 |-> lq[m + i - 1]]
      BY <2>1, SubSeqIs
    <3> QED
      BY <2>1, <3>1
  <2>3. /\ sub[1] = Lower(q[L - E])
        /\ \A i \in 1 .. E : sub[i + 1] = Lower(q[L - E + i])
    <3>1. m + 1 - 1 = L - E /\ \A i \in 1 .. E : m + (i + 1) - 1 = L - E + i
      BY <1>1
    <3>2. L - E \in 1 .. L /\ \A i \in 1 .. E : L - E + i \in 1 .. L
      BY <1>1, <1>6
    <3>3. lq[L - E] = Lower(q[L - E]) /\ \A i \in 1 .. E : lq[L - E + i] = Lower(q[L - E + i])
      BY <1>2, <3>2
    <3>4. 1 \in 1 .. E + 1 /\ \A i \in 1 .. E : i + 1 \in 1 .. E + 1
      BY <1>1
    <3> HIDE DEF m
    <3>5. sub[1] = lq[m + 1 - 1] /\ \A i \in 1 .. E : sub[i + 1] = lq[m + (i + 1) - 1]
      BY <3>4
    <3> HIDE DEF sub
    <3> QED
      BY <3>1, <3>3, <3>5
  <2>4. sub = [i \in 1 .. E + 1 |-> sub[i]]
    OBVIOUS
  <2> HIDE DEF m, sub
  <2>5. ASSUME sub[1] = tail[1], \A i \in 1 .. E : sub[i + 1] = tail[i + 1]
        PROVE  sub = tail
    <3>1. \A j \in 1 .. E + 1 : j = 1 \/ (j - 1 \in 1 .. E /\ (j - 1) + 1 = j)
      BY <1>1
    <3>2. \A j \in 1 .. E + 1 : sub[j] = tail[j]
      BY <2>5, <3>1
    <3> QED
      BY <1>4, <2>4, <3>2
  <2>6. \A i \in 1 .. E : le[i] = Lower(e[i])
    BY <1>2
  <2> QED
    BY <1>4, <2>2, <2>3, <2>5, <2>6 DEF m
<1>7. EndsWith(lq, tail)
        <=> /\ L >= E + 1 /\ Lower(q[L - E]) = "."
            /\ \A i \in 1 .. E : Lower(q[L - E + i]) = Lower(e[i])
  BY <1>1, <1>2, <1>4, <1>6 DEF EndsWith
<1>8. L = E => (lq = le <=> \A i \in 1 .. E : Lower(q[L - E + i]) = Lower(e[i]))
  <2>1. L = E => \A i \in 1 .. E : L - E + i = i
    BY <1>1
  <2> QED
    BY <1>5, <2>1
<1>9. (lq = le \/ EndsWith(lq, tail))
        <=> /\ L >= E /\ \A i \in 1 .. E : Lower(q[L - E + i]) = Lower(e[i])
            /\ L = E \/ Lower(q[L - E]) = "."
  <2>1. L >= E <=> (L = E \/ L >= E + 1)
    BY <1>1
  <2>2. ~(L = E /\ L >= E + 1)
    BY <1>1
  <2> QED
    BY <1>5, <1>7, <1>8, <2>1, <2>2
<1> QED
  BY <1>9 DEF lq, le, tail, L, E, Suffix

\* The entries of a list file.
LinesOf(f) == {f[i] : i \in DOMAIN f} \ {Skip, Junk}

\* What is asked about a name and one entry of the domain list.
Names(q, e) == Lowered(q) = Lowered(e) \/ EndsWith(Lowered(q), <<".">> \o Lowered(e))

\* The walk through the trie of a file finds a mark exactly for the names its entries
\* name: the nodes on the way to a mark are there, and a label begins behind a dot.
LEMMA DomainExact ==
  ASSUME NEW f \in Contents["domain"], f # NULL, NEW q \in Domains,
         trie = load_domain_list(EmptyTrie, f)
  PROVE  DomainBlocked(q) <=> \E e \in LinesOf(f) : Names(q, e)
<1> DEFINE path == Reverse(q)  L == Len(q)
           ends == {trie_path(e) : e \in LinesOf(f)}
           walk(n) == Lowered(SubSeq(path, 1, n))
<1>1. /\ q \in Seq(STRING) /\ L \in Nat
      /\ \A i \in 1 .. L : Lower(q[i]) = "." <=> q[i] = "."
  BY QueryAssumption
<1>2. \A e \in LinesOf(f) : e \in Seq(STRING) /\ e # <<>>
  BY ContentsAssumption DEF LinesOf
<1>3. trie.ends = ends /\ \A p \in ends : trie_nodes(p) \subseteq trie.nodes
  <2> DEFINE paths == {trie_path(f[i]) : i \in {j \in DOMAIN f : f[j] # Skip}}
  <2>1. \A i \in DOMAIN f : f[i] # Skip <=> f[i] \in LinesOf(f)
    BY ContentsAssumption DEF LinesOf
  <2>2. \A e \in LinesOf(f) : \E i \in DOMAIN f : e = f[i]
    BY DEF LinesOf
  <2>3. paths = ends
    <3>1. \A p \in paths : p \in ends
      BY <2>1
    <3>2. \A p \in ends : p \in paths
      BY <2>1, <2>2
    <3> QED
      BY <3>1, <3>2, Zenon
  <2>4. trie = [nodes |-> {<<>>} \cup UNION {trie_nodes(p) : p \in paths},
                ends |-> {} \cup paths]
    BY DEF load_domain_list, EmptyTrie
  <2> HIDE DEF paths, ends
  <2>5. trie.ends = paths /\ trie.nodes = {<<>>} \cup UNION {trie_nodes(p) : p \in paths}
    BY <2>4
  <2> QED
    BY <2>3, <2>5, Zenon
<1>4. Len(path) = L /\ \A n \in 1 .. L : n < L => path[n + 1] = q[L - n]
  <2>1. path = [i \in 1 .. L |-> q[L - i + 1]]
    BY DEF Reverse
  <2>2. path \in [1 .. L -> STRING]
    <3>1. \A i \in 1 .. L : L - i + 1 \in 1 .. L
      BY <1>1
    <3>2. \A i \in 1 .. L : q[L - i + 1] \in STRING
      BY <1>1, <3>1, ElementOfSeq
    <3> QED
      BY <2>1, <3>2
  <2>3. Len(path) = L
    BY <1>1, <2>2
  <2>4. ASSUME NEW n \in 1 .. L, n < L PROVE path[n + 1] = q[L - n]
    <3>1. n + 1 \in 1 .. L /\ L - (n + 1) + 1 = L - n
      BY <1>1, <2>4
    <3> QED
      BY <2>1, <3>1
  <2> QED
    BY <2>3, <2>4
<1> HIDE DEF path, L, ends
<1>5. ASSUME NEW n \in 1 .. L, walk(n) \in ends, NEW m \in 1 .. n
      PROVE  walk(m) \in trie.nodes
  <2>1. n \in 0 .. L /\ m \in 0 .. L /\ m \in 0 .. n /\ m \in Int /\ n \in Nat
    BY <1>1
  <2>2. /\ walk(n) = [i \in 1 .. n |-> Lower(q[L - i + 1])]
        /\ walk(m) = [i \in 1 .. m |-> Lower(q[L - i + 1])]
    BY <1>1, <2>1, WalkIs DEF path, L
  <2> HIDE DEF walk
  <2>3. Len(walk(n)) = n
    <3> DEFINE T == {Lower(q[L - i + 1]) : i \in 1 .. n}
    <3>1. walk(n) \in [1 .. n -> T]
      BY <2>2
    <3> HIDE DEF T
    <3> QED
      BY <2>1, <3>1
  <2>4. SubSeq(walk(n), 1, m) = walk(m)
    <3>1. SubSeq(walk(n), 1, m) = [i \in 1 .. m - 1 + 1 |-> walk(n)[1 + i - 1]]
      BY <2>1, SubSeqIs
    <3>2. m - 1 + 1 = m /\ \A i \in 1 .. m : 1 + i - 1 = i /\ i \in 1 .. n
      BY <2>1
    <3> QED
      BY <2>2, <3>1, <3>2
  <2>5. walk(m) \in trie_nodes(walk(n))
    BY <2>1, <2>3, <2>4 DEF trie_nodes
  <2> QED
    BY <1>3, <1>5, <2>5
<1>6. DomainBlocked(q)
        <=> \E n \in 1 .. L : walk(n) \in ends /\ (n = L \/ path[n + 1] = ".")
  BY <1>3, <1>4, <1>5 DEF DomainBlocked, path
<1>7. ASSUME NEW n \in 1 .. L
      PROVE  walk(n) \in ends <=> \E e \in LinesOf(f) : n = Len(e) /\ Suffix(q, e)
  <2>1. \A e \in LinesOf(f) : walk(n) = trie_path(e) <=> (n = Len(e) /\ Suffix(q, e))
    BY <1>1, <1>2, WalkEnds DEF path, L
  <2> HIDE DEF walk
  <2> QED
    BY <2>1 DEF ends
<1>8. ASSUME NEW n \in 1 .. L
      PROVE  (n = L \/ path[n + 1] = ".") <=> (L = n \/ Lower(q[L - n]) = ".")
  <2>1. CASE n = L
    BY <2>1
  <2>2. CASE n < L
    <3>1. L - n \in 1 .. L
      BY <1>1, <2>2
    <3> QED
      BY <1>1, <1>4, <2>2, <3>1
  <2> QED
    BY <1>1, <2>1, <2>2
<1>9. ASSUME NEW e \in LinesOf(f)
      PROVE  /\ Suffix(q, e) => Len(e) \in 1 .. L
             /\ Names(q, e) <=> /\ Suffix(q, e)
                                /\ L = Len(e) \/ Lower(q[L - Len(e)]) = "."
  <2>1. e \in Seq(STRING) /\ e # <<>> /\ Len(e) \in Nat /\ Len(e) > 0
    BY <1>2
  <2>2. Suffix(q, e) => L >= Len(e)
    BY DEF Suffix, L
  <2>3. Suffix(q, e) => Len(e) \in 1 .. L
    BY <1>1, <2>1, <2>2
  <2> QED
    BY <1>1, <2>1, <2>3, NameEnds DEF Names, L
<1> HIDE DEF walk
<1> QED
  BY <1>6, <1>7, <1>8, <1>9

\* The entries of a file that fits are those the loader keeps.
LEMMA KeptCovers ==
  ASSUME NEW f, NEW dropped, Fits(f, dropped)
  PROVE  {f[i] : i \in Kept(f, dropped)} = {f[i] : i \in DOMAIN f} \ dropped
  BY DEF Fits, Kept

\* The address lists in memory name the addresses of their files.
LEMMA BlocksExact ==
  ASSUME FilesFit, NEW l \in {"allow", "deny"}, NEW f \in Contents[l], f # NULL,
         NEW ip \in Ips
  PROVE  (\E i \in DOMAIN load_ip_list(f) : InBlock(ip, load_ip_list(f)[i]))
           <=> \E r \in LinesOf(f) : RuleHolds(r, ip)
<1> DEFINE K == Kept(f, {Skip, Junk})
<1>0. Fits(f, {Skip, Junk})
  BY DEF FilesFit
<1>1. {f[i] : i \in K} = LinesOf(f)
  <2> DEFINE d == {Skip, Junk}
  <2>1. Fits(f, d)
    BY <1>0
  <2> HIDE DEF d
  <2>2. {f[i] : i \in Kept(f, d)} = {f[i] : i \in DOMAIN f} \ d
    BY <2>1, KeptCovers
  <2> QED
    BY <2>2 DEF d, LinesOf
<1>2. \A r \in LinesOf(f) : IsRule(r)
  BY ContentsAssumption DEF LinesOf
<1>3. IsAddress(ip)
  BY QueryAssumption
<1>4. \A r \in LinesOf(f) : InBlock(ip, parse_cidr(r)) <=> RuleHolds(r, ip)
  BY <1>2, <1>3, BlockHolds
<1>5. DOMAIN load_ip_list(f) = K /\ \A i \in K : load_ip_list(f)[i] = parse_cidr(f[i])
  BY DEF load_ip_list
<1> HIDE DEF K
<1>6. \A r \in LinesOf(f) : \E i \in K : r = f[i]
  BY <1>1
<1>7. \A i \in K : f[i] \in LinesOf(f)
  BY <1>1
<1>8. \A i \in K : InBlock(ip, load_ip_list(f)[i]) <=> RuleHolds(f[i], ip)
  BY <1>4, <1>5, <1>7
<1> QED
  BY <1>5, <1>6, <1>7, <1>8

-----------------------------------------------------------------------------
(* The verdicts *)

\* What a list is in memory once its file has been read; one that could not be opened
\* leaves it empty.
TrieOf(f) == IF f = NULL THEN EmptyTrie ELSE load_domain_list(EmptyTrie, f)
IpsOf(f) == IF f = NULL THEN <<>> ELSE load_ip_list(f)
UrlsOf(f) == IF f = NULL THEN <<>> ELSE load_url_list(f)
TypesOf(f) == IF f = NULL THEN <<>> ELSE load_content_type_list(f)

\* Where the load under way is; none once filter_init has returned and nobody loads.
Phase ==
  IF writer = NULL THEN IF load["main"] = "none" THEN "none" ELSE "idle" ELSE load[writer]

\* The steps of a load behind the one that reads a list, and those between filter_clear
\* and that one.
Due(l) ==
  CASE l = "domain" -> {"domain"}
    [] l = "allow" -> {"domain", "allow"}
    [] l = "deny" -> {"domain", "allow", "deny"}
    [] l = "url" -> {"domain", "allow", "deny", "url"}

Past(l) == Steps \ (Due(l) \cup {"idle", "wrlock", "clear"})

FilesInv ==
  /\ \A l \in Lists : files[l] \in Contents[l] /\ read[l] \in Contents[l] \cup {NULL}
  /\ DOMAIN files = Lists /\ DOMAIN read = Lists

\* Who holds filter_lock, and which workers are at a step that needs it.
Reading == {"decide", "tokens", "unlock"}

LockInv ==
  /\ writer \in Loaders \cup {NULL}
  /\ writer # NULL => load[writer] \in Inside /\ readers = {}
  /\ pc \in [Workers -> Reading \cup {"idle", "return", "rdlock"}]
  /\ kind \in [Workers -> Kinds \cup {NULL}]
  /\ DOMAIN query = Workers /\ DOMAIN token = Workers /\ DOMAIN verdict = Workers
  /\ \A w \in Workers : pc[w] \in Reading => w \in readers
  /\ \A w \in Workers : pc[w] # "idle" => load["main"] = "none" /\ kind[w] \in Kinds

\* What the lists hold at every step of a load: nothing between filter_clear and the
\* reading of their file, then what was read of it.  The content types are not cleared
\* with the others, but when their file has been opened.
LoadedInv ==
  /\ Phase \in Due("domain") => trie = EmptyTrie
  /\ Phase \in Past("domain") => trie = TrieOf(read["domain"])
  /\ Phase \in Due("allow") => allow_ips = <<>>
  /\ Phase \in Past("allow") => allow_ips = IpsOf(read["allow"])
  /\ Phase \in Due("deny") => deny_ips = <<>>
  /\ Phase \in Past("deny") => deny_ips = IpsOf(read["deny"])
  /\ Phase \in Due("url") => url_patterns = <<>>
  /\ Phase \in Past("url") => url_patterns = UrlsOf(read["url"])
  /\ IF Phase = "ct" THEN read["ct"] # NULL
     ELSE content_type_blocklist = TypesOf(read["ct"])

\* The loop over the tokens of a content type, as long as the worker is alone in it:
\* the tokens before the k-th are not blocked, and strtok is behind the k-th.
AtToken(w, k) ==
  /\ token[w] = query[w][k]
  /\ strtok.rest = SubSeq(query[w], k + 1, Len(query[w]))
  /\ \A j \in 1 .. k - 1 : ~TokenBlocked(query[w][j])

TokenInv ==
  /\ strtok = [of |-> strtok.of, rest |-> strtok.rest]
  /\ \A w \in Workers : pc[w] = "tokens" =>
       /\ kind[w] = "ct"
       /\ w \notin shared =>
            /\ InTokens = {w} /\ strtok.of = w /\ query[w] \in ContentTypes
            /\ \E k \in 1 .. Len(query[w]) : AtToken(w, k)

\* The inductive invariant of the verdicts.
VerdictInv ==
  ChangeInv /\ FilesInv /\ LockInv /\ LoadedInv /\ TokenInv /\ LockedExact

\* A check in progress holds the lock for reading: no load is under way and the lists are
\* those of the files in force.
LEMMA ReadingLists ==
  ASSUME ChangeInv, LockInv, LoadedInv, NEW w \in Workers, pc[w] \in Reading
  PROVE  /\ writer = NULL /\ inforce = read
         /\ trie = TrieOf(inforce["domain"])
         /\ allow_ips = IpsOf(inforce["allow"]) /\ deny_ips = IpsOf(inforce["deny"])
         /\ url_patterns = UrlsOf(inforce["url"])
         /\ content_type_blocklist = TypesOf(inforce["ct"])
<1>1. writer = NULL /\ load["main"] = "none"
  BY DEF LockInv, Reading
<1>2. inforce = read
  BY <1>1 DEF ChangeInv
<1>3. Phase = "none"
  BY <1>1 DEF Phase
<1>4. \A l \in {"domain", "allow", "deny", "url"} : "none" \in Past(l)
  BY DEF Past, Due, Steps
<1> QED
  BY <1>1, <1>2, <1>3, <1>4 DEF LoadedInv

\* No worker is at a step that needs the lock while a load is under way.
LEMMA LoadingAlone ==
  ASSUME LockInv, readers = {}, NEW w \in Workers
  PROVE  pc[w] \notin Reading
  BY DEF LockInv

\* What the lists of the files in force answer is what the files say.
LEMMA DecideExact ==
  ASSUME FilesFit, FilesInv, inforce = read,
         trie = TrieOf(inforce["domain"]),
         allow_ips = IpsOf(inforce["allow"]), deny_ips = IpsOf(inforce["deny"]),
         url_patterns = UrlsOf(inforce["url"])
  PROVE  /\ \A q \in Domains : DomainBlocked(q) <=> Answer("domain", q)
         /\ \A q \in Urls : UrlBlocked(q) <=> Answer("url", q)
         /\ \A q \in Ips : IpBlocked(q) <=> Answer("ip", q)
<1>1. \A l \in Lists : inforce[l] \in Contents[l] \cup {NULL}
  BY DEF FilesInv
<1>2. \A l \in Lists : InForce(l) = IF inforce[l] = NULL THEN {} ELSE LinesOf(inforce[l])
  BY DEF InForce, LinesOf
<1>3. ASSUME NEW q \in Domains
      PROVE  DomainBlocked(q) <=> \E e \in InForce("domain") : Names(q, e)
  <2>1. CASE inforce["domain"] = NULL
    <3>1. trie.ends = {}
      BY <2>1 DEF TrieOf, EmptyTrie
    <3>2. InForce("domain") = {}
      BY <1>2, <2>1 DEF Lists
    <3> QED
      BY <3>1, <3>2 DEF DomainBlocked
  <2>2. CASE inforce["domain"] # NULL
    <3> DEFINE f == inforce["domain"]
    <3>1. f \in Contents["domain"] /\ f # NULL /\ trie = load_domain_list(EmptyTrie, f)
      BY <1>1, <2>2 DEF TrieOf, Lists
    <3>2. InForce("domain") = LinesOf(f)
      BY <1>2, <2>2 DEF Lists
    <3> HIDE DEF f
    <3> QED
      BY <3>1, <3>2, DomainExact
  <2> QED
    BY <2>1, <2>2
<1>4. ASSUME NEW q \in Urls
      PROVE  UrlBlocked(q) <=> \E e \in InForce("url") : q \in e
  <2>1. CASE inforce["url"] = NULL
    BY <1>2, <2>1 DEF UrlsOf, Lists, UrlBlocked
  <2>2. CASE inforce["url"] # NULL
    <3> DEFINE f == inforce["url"]  d == {Skip, Junk}
    <3>1. f \in Contents["url"] /\ f # NULL /\ url_patterns = load_url_list(f)
      BY <1>1, <2>2 DEF UrlsOf, Lists
    <3>2. InForce("url") = LinesOf(f)
      BY <1>2, <2>2 DEF Lists
    <3>3. Fits(f, d)
      BY <3>1 DEF FilesFit
    <3>4. url_patterns = [i \in Kept(f, d) |-> f[i]] /\ LinesOf(f) = {f[i] : i \in DOMAIN f} \ d
      BY <3>1 DEF load_url_list, LinesOf
    <3> HIDE DEF f, d
    <3>5. {f[i] : i \in Kept(f, d)} = LinesOf(f)
      BY <3>3, <3>4, KeptCovers
    <3> QED
      BY <3>2, <3>4, <3>5 DEF UrlBlocked
  <2> QED
    BY <2>1, <2>2
<1>5. ASSUME NEW q \in Ips, NEW l \in {"allow", "deny"}, NEW ips, ips = IpsOf(inforce[l])
      PROVE  (\E i \in DOMAIN ips : InBlock(q, ips[i])) <=> \E r \in InForce(l) : RuleHolds(r, q)
  <2>1. CASE inforce[l] = NULL
    BY <1>2, <1>5, <2>1 DEF IpsOf, Lists
  <2>2. CASE inforce[l] # NULL
    <3> DEFINE f == inforce[l]
    <3>1. f \in Contents[l] /\ f # NULL /\ ips = load_ip_list(f) /\ InForce(l) = LinesOf(f)
      BY <1>1, <1>2, <1>5, <2>2 DEF IpsOf, Lists
    <3> HIDE DEF f
    <3> QED
      BY <3>1, BlocksExact
  <2> QED
    BY <2>1, <2>2
<1>6. ASSUME NEW q \in Ips
      PROVE  IpBlocked(q) <=> /\ \E r \in InForce("deny") : RuleHolds(r, q)
                              /\ ~\E r \in InForce("allow") : RuleHolds(r, q)
  <2>1. (\E i \in DOMAIN allow_ips : InBlock(q, allow_ips[i]))
          <=> \E r \in InForce("allow") : RuleHolds(r, q)
    BY <1>5
  <2>2. (\E i \in DOMAIN deny_ips : InBlock(q, deny_ips[i]))
          <=> \E r \in InForce("deny") : RuleHolds(r, q)
    BY <1>5
  <2> QED
    BY <2>1, <2>2 DEF IpBlocked
<1> QED
  BY <1>3, <1>4, <1>6 DEF Answer, Names

\* A token is blocked when an entry of the file in force occurs in it.
LEMMA TokenExact ==
  ASSUME FilesFit, FilesInv, inforce = read,
         content_type_blocklist = TypesOf(inforce["ct"]), NEW t
  PROVE  TokenBlocked(t) <=> \E e \in InForce("ct") : e \in t
<1>1. CASE inforce["ct"] = NULL
  BY <1>1 DEF TypesOf, InForce, TokenBlocked
<1>2. CASE inforce["ct"] # NULL
  <2> DEFINE f == inforce["ct"]  d == {Skip}
  <2>1. f \in Contents["ct"] /\ f # NULL /\ content_type_blocklist = load_content_type_list(f)
    BY <1>2 DEF TypesOf, FilesInv, Lists
  <2>2. InForce("ct") = {f[i] : i \in DOMAIN f} \ {Skip, Junk}
    BY <1>2 DEF InForce
  <2>3. \A i \in DOMAIN f : f[i] # Junk
    BY <2>1, ContentsAssumption
  <2>4. InForce("ct") = {f[i] : i \in DOMAIN f} \ d
    BY <2>2, <2>3
  <2>5. Fits(f, d)
    BY <2>1 DEF FilesFit
  <2>6. content_type_blocklist = [i \in Kept(f, d) |-> f[i]]
    BY <2>1 DEF load_content_type_list
  <2> HIDE DEF f, d
  <2>7. {f[i] : i \in Kept(f, d)} = InForce("ct")
    BY <2>4, <2>5, KeptCovers
  <2> QED
    BY <2>6, <2>7 DEF TokenBlocked
<1> QED
  BY <1>1, <1>2

\* The steps of a load, as far as the lock and the lists tell them apart.
LEMMA LoadStep ==
  ASSUME ChangeInv, LockInv, NEW t \in Loaders, Load(t), ~WrLock(t)
  PROVE  /\ writer = t /\ load[t] \in Inside /\ Phase = load[t] /\ readers = {}
         /\ UNCHANGED <<worker, readers, files>>
<1>1. load[t] \in Inside
  BY DEF Load, filter_clear, LoadDomains, LoadAllowed, LoadDenied, LoadUrls, LoadList,
         ResetContentTypes, LoadContentTypes, Unlock, Inside, Steps
<1>2. writer = t /\ writer # NULL
  BY <1>1, FilterAssumption DEF ChangeInv
<1>3. UNCHANGED <<worker, readers, files>>
  BY DEF Load, filter_clear, LoadDomains, LoadAllowed, LoadDenied, LoadUrls, LoadList,
         ResetContentTypes, LoadContentTypes, Unlock, disk, lock
<1> QED
  BY <1>1, <1>2, <1>3 DEF LockInv, Phase

\* Files hold what an operator may write, and what was read of them they have held.
LEMMA FilesKept ==
  ASSUME FilesInv, [Next]_vars
  PROVE  FilesInv'
<1>1. ASSUME NEW l \in Lists, NEW c \in Contents[l], WriteFile(l, c) \/ ReplaceFile(l, c)
      PROVE  FilesInv'
  <2>1. files' = [files EXCEPT ![l] = c] /\ read' = read
    BY <1>1 DEF WriteFile, ReplaceFile
  <2> QED
    BY <2>1 DEF FilesInv
<1>2. ASSUME NEW t \in Loaders, NEW l \in Lists, NEW next, LoadList(t, l, next)
      PROVE  FilesInv'
  <2>1. read' = [read EXCEPT ![l] = files[l]] /\ files' = files
    BY <1>2 DEF LoadList, disk
  <2> QED
    BY <2>1 DEF FilesInv
<1>3. ASSUME NEW t \in Loaders, ResetContentTypes(t)
      PROVE  FilesInv'
  <2>1. files' = files /\ (read' = read \/ read' = [read EXCEPT !["ct"] = files["ct"]])
    BY <1>3 DEF ResetContentTypes, disk
  <2> QED
    BY <2>1 DEF FilesInv, Lists
<1>4. ASSUME NEW t \in Loaders, Load(t)
      PROVE  FilesInv'
  <2>1. CASE WrLock(t) \/ filter_clear(t) \/ LoadContentTypes(t) \/ Unlock(t)
    <3>1. files' = files /\ read' = read
      BY <2>1 DEF WrLock, filter_clear, LoadContentTypes, Unlock, disk
    <3> QED
      BY <3>1 DEF FilesInv
  <2>2. CASE LoadDomains(t) \/ LoadAllowed(t) \/ LoadDenied(t) \/ LoadUrls(t)
    BY <2>2, <1>2 DEF LoadDomains, LoadAllowed, LoadDenied, LoadUrls, Lists
  <2> QED
    BY <1>3, <1>4, <2>1, <2>2 DEF Load
<1>5. ASSUME NEW w \in Workers, Check(w)
      PROVE  FilesInv'
  <2>1. files' = files /\ read' = read
    BY <1>5 DEF Check, AskEmpty, Return, Ask, RdLock, Decide, FirstToken, NextToken, RdUnlock, disk
  <2> QED
    BY <2>1 DEF FilesInv
<1>6. CASE filter_init \/ setup_inotify_watches \/ ConfigReload \/ HotReload \/ UNCHANGED vars
  <2>1. files' = files /\ read' = read
    BY <1>6 DEF filter_init, setup_inotify_watches, ConfigReload, HotReload, vars, disk
  <2> QED
    BY <2>1 DEF FilesInv
<1> QED
  BY <1>1, <1>4, <1>5, <1>6 DEF Next, Operator

\* The lock: a load and a check exclude each other.
LEMMA LockKept ==
  ASSUME ChangeInv, LockInv, [Next]_vars
  PROVE  LockInv'
<1>1. ASSUME UNCHANGED <<worker, readers>>,
             load'["main"] = load["main"] \/ load["main"] # "none",
             writer' \in Loaders \cup {NULL},
             writer' # NULL => load'[writer'] \in Inside /\ readers = {}
      PROVE  LockInv'
  <2>1. /\ UNCHANGED <<pc, kind, query, verdict, token, readers>>
    BY <1>1 DEF worker
  <2>2. \A w \in Workers : pc[w] # "idle" => load'["main"] = "none"
    BY <1>1 DEF LockInv
  <2> QED
    BY <1>1, <2>1, <2>2 DEF LockInv
<1>2. ASSUME NEW t \in Loaders, WrLock(t)
      PROVE  LockInv'
  <2>1. /\ UNCHANGED <<worker, readers>> /\ writer' = t /\ readers = {}
        /\ load' = [load EXCEPT ![t] = "clear"] /\ load[t] = "wrlock"
    BY <1>2 DEF WrLock, Goto
  <2>2. load'[t] = "clear" /\ (load'["main"] = load["main"] \/ load["main"] = "wrlock")
    BY <2>1 DEF ChangeInv, Loaders
  <2> QED
    BY <1>1, <2>1, <2>2 DEF Inside, Steps
<1>3. ASSUME NEW t \in Loaders, Unlock(t)
      PROVE  LockInv'
  <2>1. /\ UNCHANGED <<worker, readers>> /\ writer' = NULL /\ load[t] = "unlock"
    BY <1>3 DEF Unlock
  <2>2. load'["main"] = load["main"] \/ load["main"] # "none"
    BY <1>3 DEF Unlock, ChangeInv, Loaders
  <2> QED
    BY <1>1, <2>1, <2>2
<1>4. ASSUME NEW t \in Loaders, Load(t), ~WrLock(t), ~Unlock(t)
      PROVE  LockInv'
  <2>1. UNCHANGED <<worker, readers>> /\ writer = t /\ readers = {} /\ load[t] \in Inside
    BY <1>4, LoadStep
  <2>2. writer' = writer
    BY <1>4 DEF Load, filter_clear, LoadDomains, LoadAllowed, LoadDenied, LoadUrls, LoadList,
                ResetContentTypes, LoadContentTypes, lock
  <2>3. \E step \in Inside : load' = [load EXCEPT ![t] = step]
    BY <1>4 DEF Load, filter_clear, LoadDomains, LoadAllowed, LoadDenied, LoadUrls, LoadList,
                ResetContentTypes, LoadContentTypes, Goto, Inside, Steps
  <2>4. load'[t] \in Inside
    BY <2>3 DEF ChangeInv
  <2>5. load'["main"] = load["main"] \/ load["main"] # "none"
    BY <2>1, <2>3 DEF ChangeInv, Loaders, Inside
  <2> QED
    BY <1>1, <2>1, <2>2, <2>4, <2>5
<1>5. CASE setup_inotify_watches
  <2>1. /\ UNCHANGED <<worker, readers>> /\ writer' = writer /\ load["main"] = "watch"
        /\ load' = [load EXCEPT !["main"] = "unlock"]
    BY <1>5 DEF setup_inotify_watches, Goto, lock
  <2>2. \A t \in Loaders : load[t] \in Inside => load'[t] \in Inside
    BY <2>1 DEF ChangeInv, Loaders, Inside, Steps
  <2> QED
    BY <1>1, <2>1, <2>2 DEF LockInv
<1>6. CASE filter_init \/ ConfigReload \/ HotReload
  <2>1. UNCHANGED <<worker, readers>> /\ writer' = writer
    BY <1>6 DEF filter_init, ConfigReload, HotReload, lock
  <2>2. \E t \in Loaders : load[t] = "idle" /\ load' = [load EXCEPT ![t] = "wrlock"]
    BY <1>6 DEF filter_init, ConfigReload, HotReload, Goto, Loaders
  <2>3. \A t \in Loaders : load[t] \in Inside => load'[t] \in Inside
    BY <2>2 DEF ChangeInv, Inside
  <2>4. load'["main"] = load["main"] \/ load["main"] # "none"
    BY <2>2 DEF ChangeInv, Loaders
  <2> QED
    BY <1>1, <2>1, <2>3, <2>4 DEF LockInv
<1>7. CASE Operator \/ UNCHANGED vars
  <2>1. UNCHANGED <<worker, readers>> /\ writer' = writer /\ load' = load
    BY <1>7 DEF Operator, WriteFile, ReplaceFile, vars, lock
  <2> QED
    BY <1>1, <2>1 DEF LockInv
<1>8. ASSUME NEW w \in Workers, Check(w)
      PROVE  LockInv'
  <2>1. load' = load /\ writer' = writer
    BY <1>8 DEF Check, AskEmpty, Return, Ask, RdLock, Decide, FirstToken, NextToken, RdUnlock, lock
  <2>2. CASE \E k \in Kinds : Ask(w, k)
    BY <2>1, <2>2 DEF Ask, LockInv, lock, Reading
  <2>3. CASE RdLock(w)
    BY <2>1, <2>3 DEF RdLock, LockInv, Reading
  <2>4. ASSUME NEW q, Decide(w, q)
        PROVE  LockInv'
    <3>1. /\ pc' = [pc EXCEPT ![w] = "unlock"] /\ pc[w] = "decide" /\ kind' = kind
          /\ token' = token /\ readers' = readers
          /\ DOMAIN query' = DOMAIN query /\ DOMAIN verdict' = DOMAIN verdict
      BY <2>4 DEF Decide, lock
    <3> QED
      BY <2>1, <3>1 DEF LockInv, Reading
  <2>5. ASSUME NEW q, FirstToken(w, q)
        PROVE  LockInv'
    BY <2>1, <2>5 DEF FirstToken, LockInv, Reading, lock
  <2>6. CASE NextToken(w)
    <3>1. /\ pc[w] = "tokens" /\ kind' = kind /\ query' = query /\ readers' = readers
          /\ \E x \in {"unlock", "tokens"} : pc' = [pc EXCEPT ![w] = x]
          /\ DOMAIN token' = DOMAIN token /\ DOMAIN verdict' = DOMAIN verdict
      BY <2>6 DEF NextToken, lock
    <3> QED
      BY <2>1, <3>1 DEF LockInv, Reading
  <2>7. CASE RdUnlock(w)
    BY <2>1, <2>7 DEF RdUnlock, LockInv, Reading
  <2>8. ASSUME NEW q \in ContentTypes, AskEmpty(w, q)
        PROVE  LockInv'
    <3>1. "ct" \in Kinds
      BY DEF Kinds, Asked
    <3> QED
      BY <2>1, <2>8, <3>1 DEF AskEmpty, LockInv, Reading, lock
  <2>9. CASE Return(w)
    BY <2>1, <2>9 DEF Return, LockInv, Reading, lock
  <2> QED
    BY <1>8, <2>2, <2>3, <2>4, <2>5, <2>6, <2>7, <2>8, <2>9 DEF Check
<1> QED
  BY <1>2, <1>3, <1>4, <1>5, <1>6, <1>7, <1>8 DEF Next

\* The steps before and behind the reading of each list.
LEMMA PastSteps ==
  /\ Past("domain") = {"none", "allow", "deny", "url", "ctreset", "ct", "watch", "unlock"}
  /\ Past("allow") = {"none", "deny", "url", "ctreset", "ct", "watch", "unlock"}
  /\ Past("deny") = {"none", "url", "ctreset", "ct", "watch", "unlock"}
  /\ Past("url") = {"none", "ctreset", "ct", "watch", "unlock"}
  /\ Due("domain") = {"domain"} /\ Due("allow") = {"domain", "allow"}
  /\ Due("deny") = {"domain", "allow", "deny"}
  /\ Due("url") = {"domain", "allow", "deny", "url"}
<1>1. /\ Due("domain") = {"domain"} /\ Due("allow") = {"domain", "allow"}
      /\ Due("deny") = {"domain", "allow", "deny"}
      /\ Due("url") = {"domain", "allow", "deny", "url"}
  BY DEF Due
<1>2. Past("domain") = {"none", "allow", "deny", "url", "ctreset", "ct", "watch", "unlock"}
  BY <1>1 DEF Past, Steps
<1>3. Past("allow") = {"none", "deny", "url", "ctreset", "ct", "watch", "unlock"}
  BY <1>1 DEF Past, Steps
<1>4. Past("deny") = {"none", "url", "ctreset", "ct", "watch", "unlock"}
  BY <1>1 DEF Past, Steps
<1>5. Past("url") = {"none", "ctreset", "ct", "watch", "unlock"}
  BY <1>1 DEF Past, Steps
<1> QED
  BY <1>1, <1>2, <1>3, <1>4, <1>5

\* Every step of a load leaves in the lists what was read of their files.
LEMMA LoadedKept ==
  ASSUME ChangeInv, FilesInv, LockInv, LoadedInv, [Next]_vars
  PROVE  LoadedInv'
<1>0. writer \in Loaders \cup {NULL} /\ NULL \notin Loaders /\ load \in [Loaders -> Steps]
  BY FilterAssumption DEF LockInv, ChangeInv
<1>1. ASSUME UNCHANGED <<lists, read>>, Phase' = Phase
      PROVE  LoadedInv'
  BY <1>1 DEF LoadedInv, lists
<1>2. ASSUME NEW t \in Loaders, WrLock(t)
      PROVE  LoadedInv'
  <2>1. /\ writer = NULL /\ writer' = t /\ load' = [load EXCEPT ![t] = "clear"]
        /\ UNCHANGED <<lists, read>>
    BY <1>2 DEF WrLock, Goto
  <2>2. Phase' = "clear" /\ Phase \in {"none", "idle"}
    BY <2>1, <1>0 DEF Phase
  <2> QED
    BY <2>1, <2>2, PastSteps DEF LoadedInv, lists
<1>3. ASSUME NEW t \in Loaders, Unlock(t)
      PROVE  LoadedInv'
  <2>1. ~WrLock(t)
    BY <1>3 DEF Unlock, WrLock
  <2>2. Phase = "unlock" /\ writer' = NULL /\ UNCHANGED <<lists, read>>
    BY <1>3, <2>1, LoadStep DEF Unlock, Load
  <2>3. Phase' \in {"none", "idle"}
    BY <2>2 DEF Phase
  <2> QED
    BY <2>2, <2>3, PastSteps DEF LoadedInv, lists
<1>4. ASSUME NEW t \in Loaders, NEW step, Load(t), ~WrLock(t), Goto(t, step), writer' = writer
      PROVE  Phase = load[t] /\ Phase' = step
  <2>1. writer = t /\ Phase = load[t]
    BY <1>4, LoadStep
  <2>2. load'[t] = step
    BY <1>4, <1>0 DEF Goto
  <2> QED
    BY <1>0, <1>4, <2>1, <2>2 DEF Phase
<1>5. ASSUME NEW t \in Loaders, filter_clear(t)
      PROVE  LoadedInv'
  <2>1. /\ load[t] = "clear" /\ Goto(t, "domain") /\ writer' = writer
        /\ UNCHANGED <<content_type_blocklist, read>>
        /\ trie' = EmptyTrie /\ allow_ips' = <<>> /\ deny_ips' = <<>> /\ url_patterns' = <<>>
    BY <1>5 DEF filter_clear, lock
  <2>2. Phase = "clear" /\ Phase' = "domain"
    BY <1>4, <1>5, <2>1 DEF Load, WrLock
  <2> QED
    BY <2>1, <2>2, PastSteps DEF LoadedInv
<1>6. ASSUME NEW t \in Loaders, LoadDomains(t)
      PROVE  LoadedInv'
  <2>1. /\ load[t] = "domain" /\ Goto(t, "allow") /\ writer' = writer
        /\ read' = [read EXCEPT !["domain"] = files["domain"]]
        /\ UNCHANGED <<allow_ips, deny_ips, url_patterns, content_type_blocklist>>
        /\ trie' = IF files["domain"] = NULL THEN trie ELSE load_domain_list(trie, files["domain"])
    BY <1>6 DEF LoadDomains, LoadList, lock
  <2>2. Phase = "domain" /\ Phase' = "allow"
    BY <1>4, <1>6, <2>1 DEF Load, WrLock
  <2>3. read'["domain"] = files["domain"] /\ \A l \in Lists \ {"domain"} : read'[l] = read[l]
    BY <2>1 DEF FilesInv, Lists
  <2>4. trie = EmptyTrie
    BY <2>2, PastSteps DEF LoadedInv
  <2>5. trie' = TrieOf(read'["domain"])
    BY <2>1, <2>3, <2>4 DEF TrieOf
  <2> QED
    BY <2>1, <2>2, <2>3, <2>5, PastSteps DEF LoadedInv, Lists, TrieOf
<1>7. ASSUME NEW t \in Loaders, LoadAllowed(t)
      PROVE  LoadedInv'
  <2>1. /\ load[t] = "allow" /\ Goto(t, "deny") /\ writer' = writer
        /\ read' = [read EXCEPT !["allow"] = files["allow"]]
        /\ UNCHANGED <<trie, deny_ips, url_patterns, content_type_blocklist>>
        /\ allow_ips' = IF files["allow"] = NULL THEN allow_ips ELSE load_ip_list(files["allow"])
    BY <1>7 DEF LoadAllowed, LoadList, lock
  <2>2. Phase = "allow" /\ Phase' = "deny"
    BY <1>4, <1>7, <2>1 DEF Load, WrLock
  <2>3. read'["allow"] = files["allow"] /\ \A l \in Lists \ {"allow"} : read'[l] = read[l]
    BY <2>1 DEF FilesInv, Lists
  <2>4. allow_ips = <<>>
    BY <2>2, PastSteps DEF LoadedInv
  <2>5. allow_ips' = IpsOf(read'["allow"])
    BY <2>1, <2>3, <2>4 DEF IpsOf
  <2> QED
    BY <2>1, <2>2, <2>3, <2>5, PastSteps DEF LoadedInv, Lists, IpsOf, TrieOf, TypesOf
<1>8. ASSUME NEW t \in Loaders, LoadDenied(t)
      PROVE  LoadedInv'
  <2>1. /\ load[t] = "deny" /\ Goto(t, "url") /\ writer' = writer
        /\ read' = [read EXCEPT !["deny"] = files["deny"]]
        /\ UNCHANGED <<trie, allow_ips, url_patterns, content_type_blocklist>>
        /\ deny_ips' = IF files["deny"] = NULL THEN deny_ips ELSE load_ip_list(files["deny"])
    BY <1>8 DEF LoadDenied, LoadList, lock
  <2>2. Phase = "deny" /\ Phase' = "url"
    BY <1>4, <1>8, <2>1 DEF Load, WrLock
  <2>3. read'["deny"] = files["deny"] /\ \A l \in Lists \ {"deny"} : read'[l] = read[l]
    BY <2>1 DEF FilesInv, Lists
  <2>4. deny_ips = <<>>
    BY <2>2, PastSteps DEF LoadedInv
  <2>5. deny_ips' = IpsOf(read'["deny"])
    BY <2>1, <2>3, <2>4 DEF IpsOf
  <2> QED
    BY <2>1, <2>2, <2>3, <2>5, PastSteps DEF LoadedInv, Lists, IpsOf, TrieOf, TypesOf
<1>9. ASSUME NEW t \in Loaders, LoadUrls(t)
      PROVE  LoadedInv'
  <2>1. /\ load[t] = "url" /\ Goto(t, "ctreset") /\ writer' = writer
        /\ read' = [read EXCEPT !["url"] = files["url"]]
        /\ UNCHANGED <<trie, allow_ips, deny_ips, content_type_blocklist>>
        /\ url_patterns' = IF files["url"] = NULL THEN url_patterns ELSE load_url_list(files["url"])
    BY <1>9 DEF LoadUrls, LoadList, lock
  <2>2. Phase = "url" /\ Phase' = "ctreset"
    BY <1>4, <1>9, <2>1 DEF Load, WrLock
  <2>3. read'["url"] = files["url"] /\ \A l \in Lists \ {"url"} : read'[l] = read[l]
    BY <2>1 DEF FilesInv, Lists
  <2>4. url_patterns = <<>>
    BY <2>2, PastSteps DEF LoadedInv
  <2>5. url_patterns' = UrlsOf(read'["url"])
    BY <2>1, <2>3, <2>4 DEF UrlsOf
  <2> QED
    BY <2>1, <2>2, <2>3, <2>5, PastSteps DEF LoadedInv, Lists, UrlsOf, IpsOf, TrieOf, TypesOf
<1>10. ASSUME NEW t \in Loaders, ResetContentTypes(t)
       PROVE  LoadedInv'
  <2>1. /\ load[t] = "ctreset" /\ writer' = writer
        /\ UNCHANGED <<trie, allow_ips, deny_ips, url_patterns>>
    BY <1>10 DEF ResetContentTypes, lock
  <2>2. CASE files["ct"] = NULL
    <3>1. /\ \E step \in {"watch", "unlock"} : Goto(t, step)
          /\ UNCHANGED <<content_type_blocklist, read>>
      BY <1>10, <2>2 DEF ResetContentTypes
    <3>2. Phase = "ctreset" /\ Phase' \in {"watch", "unlock"}
      BY <1>4, <1>10, <2>1, <3>1 DEF Load, WrLock
    <3> QED
      BY <2>1, <3>1, <3>2, PastSteps DEF LoadedInv
  <2>3. CASE files["ct"] # NULL
    <3>1. Goto(t, "ct") /\ read' = [read EXCEPT !["ct"] = files["ct"]]
      BY <1>10, <2>3 DEF ResetContentTypes
    <3>2. Phase = "ctreset" /\ Phase' = "ct"
      BY <1>4, <1>10, <2>1, <3>1 DEF Load, WrLock
    <3>3. read'["ct"] = files["ct"] /\ \A l \in Lists \ {"ct"} : read'[l] = read[l]
      BY <3>1 DEF FilesInv, Lists
    <3> QED
      BY <2>1, <2>3, <3>2, <3>3, PastSteps DEF LoadedInv, Lists, UrlsOf, IpsOf, TrieOf
  <2> QED
    BY <2>2, <2>3
<1>11. ASSUME NEW t \in Loaders, LoadContentTypes(t)
       PROVE  LoadedInv'
  <2>1. /\ load[t] = "ct" /\ writer' = writer
        /\ UNCHANGED <<trie, allow_ips, deny_ips, url_patterns, read>>
        /\ content_type_blocklist' = load_content_type_list(read["ct"])
        /\ \E step \in {"watch", "unlock"} : Goto(t, step)
    BY <1>11 DEF LoadContentTypes, lock
  <2>2. Phase = "ct" /\ Phase' \in {"watch", "unlock"}
    BY <1>4, <1>11, <2>1 DEF Load, WrLock
  <2>3. content_type_blocklist' = TypesOf(read["ct"])
    BY <2>1, <2>2 DEF LoadedInv, TypesOf
  <2> QED
    BY <2>1, <2>2, <2>3, PastSteps DEF LoadedInv, TypesOf
<1>12. CASE setup_inotify_watches
  <2>1. /\ load["main"] = "watch" /\ load' = [load EXCEPT !["main"] = "unlock"]
        /\ writer' = writer /\ UNCHANGED <<lists, read>>
    BY <1>12 DEF setup_inotify_watches, Goto, lock
  <2>2. writer = "main"
    BY <2>1 DEF ChangeInv, Loaders, Inside, Steps
  <2>3. Phase = "watch" /\ Phase' = "unlock"
    BY <1>0, <2>1, <2>2 DEF Phase, Loaders
  <2> QED
    BY <2>1, <2>3, PastSteps DEF LoadedInv, lists
<1>13. CASE filter_init \/ ConfigReload \/ HotReload
  <2>1. UNCHANGED <<lists, read>> /\ writer' = writer
    BY <1>13 DEF filter_init, ConfigReload, HotReload, lock
  <2>2. \E t \in Loaders : load[t] = "idle" /\ load' = [load EXCEPT ![t] = "wrlock"]
    BY <1>13 DEF filter_init, ConfigReload, HotReload, Goto, Loaders
  <2>3. /\ \A t \in Loaders : load[t] \in Inside => load'[t] = load[t]
        /\ load'["main"] = "none" <=> load["main"] = "none"
    BY <1>0, <2>2 DEF Inside, Loaders
  <2>4. Phase' = Phase
    BY <1>0, <2>1, <2>3 DEF Phase, LockInv
  <2> QED
    BY <1>1, <2>1, <2>4
<1>14. ASSUME NEW w \in Workers, Check(w)
       PROVE  LoadedInv'
  <2>1. load' = load /\ writer' = writer /\ UNCHANGED <<lists, read>>
    BY <1>14 DEF Check, AskEmpty, Return, Ask, RdLock, Decide, FirstToken, NextToken, RdUnlock, lock
  <2> QED
    BY <1>1, <2>1 DEF Phase
<1>15. CASE Operator \/ UNCHANGED vars
  <2>1. load' = load /\ writer' = writer /\ UNCHANGED <<lists, read>>
    BY <1>15 DEF Operator, WriteFile, ReplaceFile, vars, lock
  <2> QED
    BY <1>1, <2>1 DEF Phase
<1> QED
  BY <1>2, <1>3, <1>5, <1>6, <1>7, <1>8, <1>9, <1>10, <1>11, <1>12, <1>13, <1>14, <1>15
     DEF Next, Load

\* A step that is neither a load nor a check leaves the workers and what is in force.
LEMMA OtherStep ==
  ASSUME filter_init \/ setup_inotify_watches \/ ConfigReload \/ HotReload \/ Operator
           \/ UNCHANGED vars
  PROVE  UNCHANGED <<worker, lists, inforce>>
  BY DEF filter_init, setup_inotify_watches, ConfigReload, HotReload, Operator, WriteFile,
         ReplaceFile, vars

\* A load takes place while no worker is at a step that needs the lock.
LEMMA LoadAlone ==
  ASSUME ChangeInv, LockInv, NEW t \in Loaders, Load(t)
  PROVE  UNCHANGED worker /\ \A w \in Workers : pc[w] \notin Reading
<1>1. CASE WrLock(t)
  BY <1>1, LoadingAlone DEF WrLock
<1>2. CASE ~WrLock(t)
  <2>1. readers = {} /\ UNCHANGED worker
    BY <1>2, LoadStep
  <2> QED
    BY <2>1, LoadingAlone
<1> QED
  BY <1>1, <1>2

\* A worker alone in the loop over its tokens knows where strtok is.
LEMMA TokenKept ==
  ASSUME ChangeInv, FilesInv, LockInv, LoadedInv, TokenInv, [Next]_vars
  PROVE  TokenInv'
<1>1. ASSUME NEW t \in Loaders, Load(t)
      PROVE  TokenInv'
  <2>1. UNCHANGED <<pc, strtok>> /\ \A w \in Workers : pc[w] # "tokens"
    BY <1>1, LoadAlone DEF worker, Reading
  <2> QED
    BY <2>1 DEF TokenInv
<1>2. ASSUME UNCHANGED <<worker, lists>>
      PROVE  TokenInv'
  BY <1>2 DEF TokenInv, AtToken, TokenBlocked, InTokens, worker, lists
<1>3. ASSUME NEW w \in Workers, pc[w] # "tokens", pc'[w] # "tokens",
             content_type_blocklist' = content_type_blocklist,
             strtok' = [of |-> NULL, rest |-> <<>>] \/ strtok' = strtok,
             strtok' = strtok \/ InTokens = {},
             \A v \in Workers \ {w} :
               /\ pc'[v] = pc[v] /\ kind'[v] = kind[v] /\ query'[v] = query[v]
               /\ token'[v] = token[v] /\ (v \in shared' <=> v \in shared)
      PROVE  TokenInv'
  <2>1. InTokens' = InTokens
    BY <1>3 DEF InTokens
  <2>2. strtok' = [of |-> strtok'.of, rest |-> strtok'.rest]
    BY <1>3 DEF TokenInv
  <2>3. ASSUME NEW v \in Workers, pc'[v] = "tokens"
        PROVE  /\ v # w /\ pc[v] = "tokens" /\ strtok' = strtok
               /\ kind'[v] = kind[v] /\ query'[v] = query[v] /\ token'[v] = token[v]
               /\ (v \in shared' <=> v \in shared)
    BY <1>3, <2>3 DEF InTokens
  <2>4. ASSUME NEW v \in Workers, pc'[v] = "tokens", NEW k, AtToken(v, k)
        PROVE  AtToken(v, k)'
    BY <1>3, <2>3, <2>4 DEF AtToken, TokenBlocked
  <2>5. ASSUME NEW v \in Workers, pc'[v] = "tokens"
        PROVE  /\ kind'[v] = "ct"
               /\ v \notin shared' =>
                    /\ InTokens' = {v} /\ strtok'.of = v /\ query'[v] \in ContentTypes
                    /\ \E k \in 1 .. Len(query'[v]) : AtToken(v, k)'
    BY <2>1, <2>3, <2>4, <2>5 DEF TokenInv
  <2> QED
    BY <2>2, <2>5 DEF TokenInv
<1>4. ASSUME NEW w \in Workers, (\E k \in Kinds : Ask(w, k)) \/ RdLock(w)
      PROVE  TokenInv'
  <2>1. /\ pc[w] # "tokens" /\ pc'[w] # "tokens" /\ strtok' = strtok
        /\ content_type_blocklist' = content_type_blocklist
        /\ \A v \in Workers \ {w} :
               /\ pc'[v] = pc[v] /\ kind'[v] = kind[v] /\ query'[v] = query[v]
               /\ token'[v] = token[v] /\ (v \in shared' <=> v \in shared)
    BY <1>4 DEF Ask, RdLock, LockInv, lists
  <2> QED
    BY <1>3, <2>1
<1>5. ASSUME NEW w \in Workers, NEW q, Decide(w, q)
      PROVE  TokenInv'
  <2>1. /\ pc[w] # "tokens" /\ pc'[w] # "tokens" /\ strtok' = strtok
        /\ content_type_blocklist' = content_type_blocklist
        /\ \A v \in Workers \ {w} :
               /\ pc'[v] = pc[v] /\ kind'[v] = kind[v] /\ query'[v] = query[v]
               /\ token'[v] = token[v] /\ (v \in shared' <=> v \in shared)
    BY <1>5 DEF Decide, LockInv, lists
  <2> QED
    BY <1>3, <2>1
<1>6. ASSUME NEW w \in Workers, RdUnlock(w)
      PROVE  TokenInv'
  <2>1. /\ pc[w] # "tokens" /\ pc'[w] # "tokens"
        /\ strtok' = [of |-> NULL, rest |-> <<>>] \/ strtok' = strtok
        /\ strtok' = strtok \/ InTokens = {}
        /\ content_type_blocklist' = content_type_blocklist
        /\ \A v \in Workers \ {w} :
               /\ pc'[v] = pc[v] /\ kind'[v] = kind[v] /\ query'[v] = query[v]
               /\ token'[v] = token[v] /\ (v \in shared' <=> v \in shared)
    BY <1>6 DEF RdUnlock, LockInv, lists
  <2> QED
    BY <1>3, <2>1
<1>7. ASSUME NEW w \in Workers, NEW q \in Asked[kind[w]], FirstToken(w, q)
      PROVE  TokenInv'
  <2>1. /\ kind[w] = "ct" /\ kind' = kind /\ pc[w] = "decide"
        /\ pc' = [pc EXCEPT ![w] = "tokens"] /\ query' = [query EXCEPT ![w] = q]
        /\ token' = [token EXCEPT ![w] = Head(q)] /\ strtok' = [of |-> w, rest |-> Tail(q)]
        /\ shared' = IF InTokens = {} THEN shared ELSE shared \cup InTokens \cup {w}
    BY <1>7 DEF FirstToken
  <2>2. q \in ContentTypes /\ q \in Seq(SUBSET STRING) /\ q # <<>>
    BY <1>7, <2>1, QueryAssumption DEF Asked
  <2>3. pc'[w] = "tokens" /\ query'[w] = q /\ token'[w] = Head(q)
    BY <2>1 DEF LockInv
  <2>4. InTokens' = InTokens \cup {w}
    BY <2>1, <2>3 DEF InTokens, LockInv
  <2>5. AtToken(w, 1)'
    <3>1. Tail(q) = SubSeq(q, 2, Len(q)) /\ Head(q) = q[1]
      BY <2>2, TailIsSubSeq
    <3> QED
      BY <2>1, <2>3, <3>1 DEF AtToken
  <2>6. 1 \in 1 .. Len(q)
    BY <2>2
  <2>7. ASSUME NEW v \in Workers, pc'[v] = "tokens", v \notin shared'
        PROVE  InTokens = {} /\ v = w
    BY <2>1, <2>7 DEF InTokens, LockInv
  <2>8. ASSUME NEW v \in Workers, pc'[v] = "tokens"
        PROVE  kind'[v] = "ct"
    BY <2>1, <2>8 DEF TokenInv, LockInv
  <2> QED
    BY <2>1, <2>2, <2>3, <2>4, <2>5, <2>6, <2>7, <2>8 DEF TokenInv
<1>8. ASSUME NEW w \in Workers, NextToken(w)
      PROVE  TokenInv'
  <2>1. /\ pc[w] = "tokens" /\ kind' = kind /\ query' = query /\ shared' = shared
        /\ content_type_blocklist' = content_type_blocklist
        /\ \E x \in {"unlock", "tokens"} : pc' = [pc EXCEPT ![w] = x]
    BY <1>8 DEF NextToken, lists
  <2>2. strtok' = [of |-> strtok'.of, rest |-> strtok'.rest]
    BY <1>8 DEF NextToken, TokenInv
  <2>3. InTokens' \subseteq InTokens /\ (pc'[w] = "tokens" => InTokens' = InTokens)
    BY <2>1 DEF InTokens, LockInv
  <2>4. ASSUME NEW v \in Workers, pc'[v] = "tokens"
        PROVE  pc[v] = "tokens" /\ kind'[v] = "ct"
    BY <2>1, <2>4 DEF LockInv, TokenInv
  <2>5. ASSUME NEW v \in Workers, pc'[v] = "tokens", v \notin shared'
        PROVE  /\ InTokens' = {v} /\ strtok'.of = v /\ query'[v] \in ContentTypes
               /\ \E k \in 1 .. Len(query'[v]) : AtToken(v, k)'
    <3>1. v \notin shared /\ InTokens = {v} /\ w \in InTokens
      BY <2>1, <2>4, <2>5 DEF TokenInv, InTokens
    <3>2. v = w
      BY <3>1
    <3>3. /\ strtok.of = w /\ query[w] \in ContentTypes
          /\ InTokens' = {w}
      BY <2>1, <2>3, <2>5, <3>1, <3>2 DEF TokenInv
    <3>4. PICK k \in 1 .. Len(query[w]) : AtToken(w, k)
      BY <2>1, <3>1, <3>2 DEF TokenInv
    <3> DEFINE q == query[w]
    <3>5. q \in Seq(SUBSET STRING) /\ Len(q) \in Nat /\ k \in 1 .. Len(q)
      BY <3>3, <3>4, QueryAssumption
    <3>6. /\ ~TokenBlocked(token[w])
          /\ token' = [token EXCEPT ![w] = IF strtok.rest = <<>> THEN NULL ELSE Head(strtok.rest)]
          /\ strtok' = [strtok EXCEPT !.rest = IF @ = <<>> THEN @ ELSE Tail(@)]
          /\ token'[w] # NULL
      BY <1>8, <2>5, <3>2, <3>3 DEF NextToken, LockInv
    <3>7. strtok.rest # <<>>
      BY <3>6 DEF LockInv
    <3>8. strtok.rest = SubSeq(q, k + 1, Len(q)) /\ token[w] = q[k]
          /\ \A j \in 1 .. k - 1 : ~TokenBlocked(q[j])
      BY <3>4 DEF AtToken
    <3>9. strtok' = [of |-> w, rest |-> Tail(strtok.rest)]
          /\ token'[w] = Head(strtok.rest)
      BY <3>3, <3>6, <3>7 DEF TokenInv, LockInv
    <3> HIDE DEF q
    <3>10. k < Len(q)
      <4>1. CASE k = Len(q)
        <5>1. SubSeq(q, k + 1, Len(q)) = <<>>
          BY <3>5, <4>1, SubSeqEmpty
        <5> QED
          BY <3>7, <3>8, <5>1
      <4> QED
        BY <3>5, <4>1
    <3>11. /\ k + 1 \in 1 .. Len(q)
           /\ Head(strtok.rest) = q[k + 1]
           /\ Tail(strtok.rest) = SubSeq(q, k + 1 + 1, Len(q))
      <4>1. k + 1 \in 1 .. Len(q) /\ Len(q) \in k + 1 .. Len(q)
        BY <3>5, <3>10
      <4> QED
        BY <4>1, <3>5, <3>8, HeadTailOfSubSeq
    <3>12. \A j \in 1 .. k + 1 - 1 : ~TokenBlocked(q[j])
      <4>1. \A j \in 1 .. k + 1 - 1 : j = k \/ j \in 1 .. k - 1
        BY <3>5
      <4> QED
        BY <4>1, <3>6, <3>8
    <3>13. AtToken(w, k + 1)'
      <4>1. query'[w] = q
        BY <2>1 DEF q
      <4>2. PICK n : n = k + 1
        OBVIOUS
      <4>3. token'[w] = query'[w][n]
        BY <3>9, <3>11, <4>1, <4>2
      <4>4. strtok'.rest = SubSeq(query'[w], n + 1, Len(query'[w]))
        BY <3>9, <3>11, <4>1, <4>2
      <4>5. \A j \in 1 .. n - 1 :
              ~\E i \in DOMAIN content_type_blocklist' :
                 content_type_blocklist'[i] \in query'[w][j]
        BY <2>1, <3>12, <4>1, <4>2 DEF TokenBlocked
      <4>6. AtToken(w, n)'
        BY <4>3, <4>4, <4>5 DEF AtToken, TokenBlocked
      <4> QED
        BY <4>2, <4>6
    <3>14. query'[w] = q /\ strtok'.of = w
      BY <2>1, <3>9 DEF q
    <3> QED
      BY <3>2, <3>3, <3>11, <3>13, <3>14 DEF q
  <2> QED
    BY <2>2, <2>4, <2>5 DEF TokenInv
<1>9. ASSUME NEW w \in Workers, (\E q \in ContentTypes : AskEmpty(w, q)) \/ Return(w)
      PROVE  TokenInv'
  <2>1. /\ pc[w] # "tokens" /\ pc'[w] # "tokens" /\ strtok' = strtok
        /\ content_type_blocklist' = content_type_blocklist
        /\ \A v \in Workers \ {w} :
               /\ pc'[v] = pc[v] /\ kind'[v] = kind[v] /\ query'[v] = query[v]
               /\ token'[v] = token[v] /\ (v \in shared' <=> v \in shared)
    BY <1>9 DEF AskEmpty, Return, LockInv, lists
  <2> QED
    BY <1>3, <2>1
<1> QED
  BY <1>1, <1>2, <1>4, <1>5, <1>6, <1>7, <1>8, <1>9, OtherStep DEF Next, Check

\* An answer depends on the question and on the files in force.
LEMMA AnswerStays ==
  ASSUME inforce' = inforce, NEW w, kind'[w] = kind[w], query'[w] = query[w]
  PROVE  Answer(kind[w], query[w])' = Answer(kind[w], query[w])
<1>1. \A l : InForce(l)' = InForce(l)
  BY DEF InForce
<1> QED
  BY <1>1 DEF Answer

\* The verdict of one worker.
Exact(w) ==
  pc[w] = "unlock" /\ (kind[w] = "ct" => w \notin shared)
    => verdict[w] = Answer(kind[w], query[w])

\* A verdict stands until its worker gives the lock back.
LEMMA ExactStays ==
  ASSUME inforce' = inforce, NEW v, Exact(v),
         pc'[v] = pc[v], kind'[v] = kind[v], query'[v] = query[v], verdict'[v] = verdict[v],
         pc[v] = "unlock" /\ v \in shared => v \in shared'
  PROVE  Exact(v)'
<1>1. Answer(kind[v], query[v])' = Answer(kind[v], query[v])
  BY AnswerStays
<1> QED
  BY <1>1 DEF Exact

\* Every verdict is found in the lists of one complete set of files and is what they say.
LEMMA VerdictKept ==
  ASSUME FilesFit, VerdictInv, [Next]_vars
  PROVE  LockedExact'
<1> SUFFICES ASSUME NEW v \in Workers
             PROVE  Exact(v)'
  BY DEF LockedExact, Exact
<1>0. /\ ChangeInv /\ FilesInv /\ LockInv /\ LoadedInv /\ TokenInv
      /\ Exact(v)
  BY DEF VerdictInv, LockedExact, Exact
<1>1. ASSUME NEW t \in Loaders, Load(t)
      PROVE  Exact(v)'
  <2>1. pc' = pc /\ pc[v] # "unlock"
    BY <1>0, <1>1, LoadAlone DEF worker, Reading
  <2> QED
    BY <2>1 DEF Exact
<1>2. CASE filter_init \/ setup_inotify_watches \/ ConfigReload \/ HotReload \/ Operator
             \/ UNCHANGED vars
  <2>1. UNCHANGED <<worker, inforce>>
    BY <1>2, OtherStep
  <2> QED
    BY <1>0, <2>1, ExactStays DEF worker
<1>3. ASSUME NEW w \in Workers, Check(w)
      PROVE  inforce' = inforce /\ UNCHANGED lists
  BY <1>3 DEF Check, AskEmpty, Return, Ask, RdLock, Decide, FirstToken, NextToken, RdUnlock
<1>4. ASSUME NEW w \in Workers, Check(w), v # w
      PROVE  Exact(v)'
  <2>1. /\ pc'[v] = pc[v] /\ kind'[v] = kind[v] /\ query'[v] = query[v]
        /\ verdict'[v] = verdict[v]
        /\ v \in shared => v \in shared'
    <3>1. CASE (\E k \in Kinds : Ask(w, k)) \/ RdLock(w)
      BY <1>0, <1>4, <3>1 DEF Ask, RdLock, LockInv
    <3>2. ASSUME NEW q, Decide(w, q)
          PROVE  /\ pc'[v] = pc[v] /\ kind'[v] = kind[v] /\ query'[v] = query[v]
                 /\ verdict'[v] = verdict[v]
                 /\ v \in shared => v \in shared'
      BY <1>0, <1>4, <3>2 DEF Decide, LockInv
    <3>3. ASSUME NEW q, FirstToken(w, q)
          PROVE  /\ pc'[v] = pc[v] /\ kind'[v] = kind[v] /\ query'[v] = query[v]
                 /\ verdict'[v] = verdict[v]
                 /\ v \in shared => v \in shared'
      BY <1>0, <1>4, <3>3 DEF FirstToken, LockInv
    <3>4. CASE NextToken(w)
      BY <1>0, <1>4, <3>4 DEF NextToken, LockInv
    <3>5. CASE RdUnlock(w)
      BY <1>0, <1>4, <3>5 DEF RdUnlock, LockInv
    <3>6. CASE (\E q \in ContentTypes : AskEmpty(w, q)) \/ Return(w)
      BY <1>0, <1>4, <3>6 DEF AskEmpty, Return, LockInv
    <3> QED
      BY <1>4, <3>1, <3>2, <3>3, <3>4, <3>5, <3>6 DEF Check
  <2> QED
    BY <1>0, <1>3, <1>4, <2>1, ExactStays
<1>5. ASSUME pc[v] \in Reading
      PROVE  /\ inforce = read
             /\ trie = TrieOf(inforce["domain"])
             /\ allow_ips = IpsOf(inforce["allow"]) /\ deny_ips = IpsOf(inforce["deny"])
             /\ url_patterns = UrlsOf(inforce["url"])
             /\ content_type_blocklist = TypesOf(inforce["ct"])
  BY <1>0, <1>5, ReadingLists
<1>6. ASSUME \/ (\E k \in Kinds : Ask(v, k)) \/ RdLock(v) \/ (\E q : FirstToken(v, q))
             \/ RdUnlock(v) \/ (\E q \in ContentTypes : AskEmpty(v, q)) \/ Return(v)
      PROVE  Exact(v)'
  <2>1. pc'[v] # "unlock"
    BY <1>0, <1>6 DEF Ask, RdLock, FirstToken, RdUnlock, AskEmpty, Return, LockInv
  <2> QED
    BY <2>1 DEF Exact
<1>7. ASSUME NEW q \in Asked[kind[v]], Decide(v, q)
      PROVE  Exact(v)'
  <2>1. /\ pc[v] = "decide" /\ kind[v] # "ct" /\ kind' = kind /\ query'[v] = q
        /\ inforce' = inforce
    BY <1>0, <1>7 DEF Decide, LockInv
  <2>2. /\ \A p \in Domains : DomainBlocked(p) <=> Answer("domain", p)
        /\ \A p \in Urls : UrlBlocked(p) <=> Answer("url", p)
        /\ \A p \in Ips : IpBlocked(p) <=> Answer("ip", p)
    BY <1>0, <1>5, <2>1, DecideExact DEF Reading
  <2>3. kind[v] \in {"domain", "url", "ip"}
    BY <1>0, <2>1 DEF LockInv, Kinds, Asked
  <2>4. verdict'[v] = Answer(kind[v], q)
    <3>1. CASE kind[v] = "domain"
      <4>1. q \in Domains /\ verdict'[v] = DomainBlocked(q)
        BY <1>0, <1>7, <3>1 DEF Decide, LockInv, Asked
      <4>2. DomainBlocked(q) = Answer("domain", q)
        <5>1. DomainBlocked(q) \in BOOLEAN
          BY DEF DomainBlocked
        <5>2. Answer("domain", q) \in BOOLEAN
          BY DEF Answer
        <5> QED
          BY <2>2, <4>1, <5>1, <5>2
      <4> QED
        BY <3>1, <4>1, <4>2
    <3>2. CASE kind[v] = "url"
      <4>1. q \in Urls /\ verdict'[v] = UrlBlocked(q)
        BY <1>0, <1>7, <3>2 DEF Decide, LockInv, Asked
      <4>2. UrlBlocked(q) = Answer("url", q)
        <5>1. UrlBlocked(q) \in BOOLEAN
          BY DEF UrlBlocked
        <5>2. Answer("url", q) \in BOOLEAN
          BY DEF Answer
        <5> QED
          BY <2>2, <4>1, <5>1, <5>2
      <4> QED
        BY <3>2, <4>1, <4>2
    <3>3. CASE kind[v] = "ip"
      <4>1. q \in Ips /\ verdict'[v] = IpBlocked(q)
        BY <1>0, <1>7, <3>3 DEF Decide, LockInv, Asked
      <4>2. IpBlocked(q) = Answer("ip", q)
        <5>1. IpBlocked(q) \in BOOLEAN
          BY DEF IpBlocked
        <5>2. Answer("ip", q) \in BOOLEAN
          BY DEF Answer
        <5> QED
          BY <2>2, <4>1, <5>1, <5>2
      <4> QED
        BY <3>3, <4>1, <4>2
    <3> QED
      BY <2>3, <3>1, <3>2, <3>3
  <2>5. Answer(kind[v], query[v])' = Answer(kind[v], q)
    <3>1. \A l : InForce(l)' = InForce(l)
      BY <2>1 DEF InForce
    <3> QED
      BY <2>1, <3>1 DEF Answer
  <2> QED
    BY <2>4, <2>5 DEF Exact
<1>8. ASSUME NextToken(v)
      PROVE  Exact(v)'
  <2> SUFFICES ASSUME pc'[v] = "unlock", v \notin shared
               PROVE  Exact(v)'
    BY <1>0, <1>8 DEF Exact, NextToken, TokenInv
  <2>1. /\ pc[v] = "tokens" /\ kind' = kind /\ query' = query /\ inforce' = inforce
        /\ verdict' = [verdict EXCEPT ![v] = TokenBlocked(token[v])]
    BY <1>8 DEF NextToken
  <2>2. /\ kind[v] = "ct" /\ strtok.of = v /\ query[v] \in ContentTypes
    BY <1>0, <2>1 DEF TokenInv
  <2>3. PICK k \in 1 .. Len(query[v]) : AtToken(v, k)
    BY <1>0, <2>1 DEF TokenInv
  <2>4. PICK q : q = query[v]
    OBVIOUS
  <2>5. /\ q \in Seq(SUBSET STRING) /\ Len(q) \in Nat /\ DOMAIN q = 1 .. Len(q)
        /\ k \in 1 .. Len(q) /\ \A i \in DOMAIN q : q[i] # NULL
    BY <2>2, <2>3, <2>4, QueryAssumption
  <2>6. /\ token[v] = q[k] /\ strtok.rest = SubSeq(q, k + 1, Len(q))
        /\ \A j \in 1 .. k - 1 : ~TokenBlocked(q[j])
    BY <2>3, <2>4 DEF AtToken
  <2>7. \A t : TokenBlocked(t) <=> \E e \in InForce("ct") : e \in t
    BY <1>0, <1>5, <2>1, TokenExact DEF Reading
  <2>8. verdict'[v] = TokenBlocked(q[k])
    BY <1>0, <2>1, <2>6 DEF LockInv
  <2>9. TokenBlocked(q[k]) <=> \E i \in DOMAIN q : \E e \in InForce("ct") : e \in q[i]
    <3>1. CASE TokenBlocked(q[k])
      BY <2>5, <2>7, <3>1
    <3>2. CASE ~TokenBlocked(q[k])
      <4>1. token'[v] = NULL
        BY <1>8, <2>6, <3>2, <1>0 DEF NextToken, LockInv
      <4>2. token'[v] = IF strtok.rest = <<>> THEN NULL ELSE Head(strtok.rest)
        BY <1>8, <1>0, <2>2 DEF NextToken, LockInv
      <4>3. k = Len(q)
        <5>1. CASE k < Len(q)
          <6>1. k + 1 \in 1 .. Len(q) /\ Len(q) \in k + 1 .. Len(q)
            BY <2>5, <5>1
          <6>2. Head(strtok.rest) = q[k + 1]
            BY <6>1, <2>5, <2>6, HeadTailOfSubSeq
          <6>3. Len(strtok.rest) = Len(q) - (k + 1) + 1
            <7>1. \A i \in k + 1 .. Len(q) : q[i] \in SUBSET STRING
              BY <2>5, <6>1
            <7> QED
              BY <7>1, <2>5, <2>6, <6>1, SubSeqProperties
          <6>4. strtok.rest # <<>>
            BY <6>3, <2>5, <5>1
          <6>5. q[k + 1] # NULL
            BY <2>5, <6>1
          <6> QED
            BY <4>1, <4>2, <6>2, <6>4, <6>5
        <5>2. PICK n : n = Len(q)
          OBVIOUS
        <5>3. n \in Nat /\ k \in 1 .. n
          BY <2>5, <5>2
        <5>4. k < n \/ k = n
          BY <5>3
        <5> QED
          BY <5>1, <5>2, <5>4
      <4>4. \A j \in 1 .. Len(q) : j = k \/ j \in 1 .. k - 1
        <5>1. k \in Nat
          BY <2>5, <4>3
        <5>2. \A j \in 1 .. k : j = k \/ j \in 1 .. k - 1
          BY <5>1
        <5> QED
          BY <4>3, <5>2
      <4>5. \A j \in DOMAIN q : ~TokenBlocked(q[j])
        BY <2>5, <2>6, <3>2, <4>4
      <4> QED
        BY <2>7, <3>2, <4>5
    <3> QED
      BY <3>1, <3>2
  <2>10. verdict'[v] = Answer("ct", q)
    <3>1. TokenBlocked(q[k]) \in BOOLEAN
      BY DEF TokenBlocked
    <3>2. Answer("ct", q) <=> \E i \in DOMAIN q : \E e \in InForce("ct") : e \in q[i]
      BY DEF Answer
    <3>3. Answer("ct", q) \in BOOLEAN
      BY DEF Answer
    <3> QED
      BY <2>8, <2>9, <3>1, <3>2, <3>3
  <2>11. Answer(kind[v], query[v])' = Answer(kind[v], query[v])
    BY <2>1, AnswerStays
  <2> QED
    BY <2>2, <2>4, <2>10, <2>11 DEF Exact
<1>9. ASSUME Check(v)
      PROVE  Exact(v)'
  BY <1>6, <1>7, <1>8, <1>9 DEF Check
<1> QED
  BY <1>1, <1>2, <1>4, <1>9 DEF Next

\* filter_init has not started: every list is empty and nobody checks.
LEMMA InitVerdict == Init => VerdictInv
<1> SUFFICES ASSUME Init PROVE VerdictInv
  OBVIOUS
<1>1. ChangeInv
  BY InitChange
<1>2. FilesInv
  BY DEF Init, FilesInv, Lists
<1>3. LockInv
  BY DEF Init, LockInv, Reading
<1>4. LoadedInv
  <2>1. Phase = "idle"
    BY DEF Init, Phase, Loaders
  <2>2. content_type_blocklist = TypesOf(read["ct"])
    BY DEF Init, TypesOf, Lists
  <2> QED
    BY <2>1, <2>2, PastSteps DEF LoadedInv
<1>5. TokenInv
  BY DEF Init, TokenInv
<1>6. LockedExact
  BY DEF Init, LockedExact
<1> QED
  BY <1>1, <1>2, <1>3, <1>4, <1>5, <1>6 DEF VerdictInv

\* An empty list of content types outside of a load is that of files without any.
LEMMA EmptyListExact ==
  ASSUME FilesFit, ChangeInv, FilesInv, LockInv, LoadedInv
  PROVE  EmptyExact
<1> SUFFICES ASSUME content_type_blocklist = <<>>, load["main"] = "none", writer = NULL,
                    NEW q \in ContentTypes
             PROVE  ~Answer("ct", q)
  BY DEF EmptyExact
<1>1. inforce = read
  BY DEF ChangeInv
<1>2. Phase = "none"
  BY DEF Phase
<1>3. content_type_blocklist = TypesOf(inforce["ct"])
  BY <1>1, <1>2 DEF LoadedInv
<1>4. \A t : ~TokenBlocked(t)
  BY DEF TokenBlocked
<1>5. \A t : ~\E e \in InForce("ct") : e \in t
  BY <1>1, <1>3, <1>4, TokenExact
<1> QED
  BY <1>5 DEF Answer

\* Every check that takes the lock answers exactly what one complete set of list files
\* says, and one that finds the list of content types empty is right as long as no thread
\* is loading (filter.c 299-429): for every set of workers, every sequence of changes to the files and every interleaving
\* of the three loads with the checks, as long as no file has more entries than the
\* filter's arrays have room for.
THEOREM FilterVerdictExact ==
  ASSUME FilesFit
  PROVE  Spec => []VerdictExact
<1>1. VerdictInv /\ [Next]_vars => VerdictInv'
  <2> SUFFICES ASSUME VerdictInv, [Next]_vars PROVE VerdictInv'
    OBVIOUS
  <2>1. ChangeInv /\ FilesInv /\ LockInv /\ LoadedInv /\ TokenInv
    BY DEF VerdictInv
  <2>2. ChangeInv'
    BY <2>1, NextChange
  <2>3. FilesInv' /\ LockInv' /\ LoadedInv' /\ TokenInv'
    BY <2>1, FilesKept, LockKept, LoadedKept, TokenKept
  <2>4. LockedExact'
    BY VerdictKept
  <2> QED
    BY <2>2, <2>3, <2>4 DEF VerdictInv
<1>2. VerdictInv => VerdictExact
  BY EmptyListExact DEF VerdictInv, VerdictExact
<1> QED
  BY <1>1, <1>2, InitVerdict, PTL DEF Spec

-----------------------------------------------------------------------------
(* The access list and the credentials *)

\* A rule of the access list matches the addresses it names.
LEMMA MatchesExact ==
  ASSUME NEW r, r = Junk \/ IsRule(r), NEW ip, IsAddress(ip)
  PROVE  ip_matches(ip, r) <=> RuleNames(r, ip)
<1>1. CASE r = Junk
  BY <1>1 DEF ip_matches, RuleNames
<1>2. CASE IsRule(r) /\ r.prefix = NULL
  BY <1>2 DEF ip_matches, RuleNames
<1>3. CASE IsRule(r) /\ r.prefix # NULL /\ ~(~r.v6 /\ ~ip.v6 /\ r.prefix \in 0 .. Width)
  BY <1>3 DEF ip_matches, RuleNames, IsRule, IsAddress
<1>4. CASE IsRule(r) /\ r.prefix # NULL /\ ~r.v6 /\ ~ip.v6 /\ r.prefix \in 0 .. Width
  <2>1. ip.bits \in [1 .. Width -> {0, 1}] /\ r.bits \in [1 .. Width -> {0, 1}] /\ Width \in Nat
    BY <1>4, AuthAssumption DEF IsRule, IsAddress
  <2>2. Masked(ip.bits, HighBits(Width, r.prefix)) = Masked(r.bits, HighBits(Width, r.prefix))
          <=> \A i \in 1 .. r.prefix : ip.bits[i] = r.bits[i]
    BY <1>4, <2>1, MaskedEqual
  <2>3. r.v6 = ip.v6
    BY <1>4 DEF IsRule, IsAddress
  <2> QED
    BY <1>4, <2>2, <2>3 DEF ip_matches, RuleNames
<1> QED
  BY <1>1, <1>2, <1>3, <1>4

\* The number of 24 bits that three bytes are.
Number(x, y, z) == x * 65536 + y * 256 + z

IsByte(b) == b \in Nat /\ b < 256

IsNumber(n) == n \in Nat /\ n < 16777216

\* The three bytes of a number of 24 bits.
LEMMA BytesOf ==
  ASSUME NEW x, NEW y, NEW z, IsByte(x), IsByte(y), IsByte(z)
  PROVE  /\ IsNumber(Number(x, y, z))
         /\ ByteOf(Number(x, y, z), 0) = x
         /\ ByteOf(Number(x, y, z), 1) = y
         /\ ByteOf(Number(x, y, z), 2) = z
<1>0. x \in Nat /\ y \in Nat /\ z \in Nat /\ x < 256 /\ y < 256 /\ z < 256
  BY SMT DEF IsByte
<1> DEFINE T == x * 65536 + y * 256 + z
<1>1. T \in Nat /\ T < 16777216
  BY <1>0, SMT
<1>2. T \div 65536 = x
  BY <1>0, SMT
<1>3. T \div 256 = x * 256 + y
  BY <1>0, SMT
<1>4. (x * 256 + y) % 256 = y
  BY <1>0, SMT
<1>5. T % 256 = z /\ x % 256 = x /\ T \div 1 = T
  BY <1>0, SMT
<1> HIDE DEF T
<1>6. /\ ByteOf(T, 0) = (T \div 65536) % 256
      /\ ByteOf(T, 1) = (T \div 256) % 256
      /\ ByteOf(T, 2) = (T \div 1) % 256
  BY SMT DEF ByteOf
<1>7. ByteOf(T, 0) = x /\ ByteOf(T, 1) = y /\ ByteOf(T, 2) = z
  BY <1>2, <1>3, <1>4, <1>5, <1>6, SMT
<1> QED
  BY <1>1, <1>7, SMT DEF T, Number, IsNumber

\* The four digits of such a number, and the number from its digits.
LEMMA DigitsOf ==
  ASSUME NEW T, IsNumber(T)
  PROVE  /\ \A k \in 0 .. 3 : DigitOf(T, k) \in Nat /\ DigitOf(T, k) < 64
         /\ DigitOf(T, 0) * 262144 + DigitOf(T, 1) * 4096 + DigitOf(T, 2) * 64
              + DigitOf(T, 3) = T
<1>0. T \in Nat /\ T < 16777216
  BY SMT DEF IsNumber
<1>1. /\ DigitOf(T, 0) = (T \div 262144) % 64 /\ DigitOf(T, 1) = (T \div 4096) % 64
      /\ DigitOf(T, 2) = (T \div 64) % 64 /\ DigitOf(T, 3) = (T \div 1) % 64
  BY <1>0, SMT DEF DigitOf
<1> DEFINE a == T \div 64  b == T \div 4096  c == T \div 262144
           r == T % 64  ra == a % 64  rb == b % 64
<1>2. a \in Nat /\ b \in Nat /\ c \in Nat /\ c < 64
  BY <1>0, SMT
<1>3. a \div 64 = b /\ b \div 64 = c
  BY <1>0, SMT
<1>4. T = 64 * a + r /\ r \in Int /\ 0 <= r /\ r < 64
  BY <1>0, SMT
<1>5. T \div 1 = T /\ c % 64 = c
  BY <1>0, SMT
<1>6. DigitOf(T, 0) = c /\ DigitOf(T, 1) = rb /\ DigitOf(T, 2) = ra /\ DigitOf(T, 3) = r
  BY <1>1, <1>5, SMT
<1> HIDE DEF a, b, c, r
<1>7. a = 64 * b + ra /\ ra \in Int /\ 0 <= ra /\ ra < 64
  <2> DEFINE q == a \div 64
  <2>1. a = 64 * q + ra /\ ra \in Int /\ 0 <= ra /\ ra < 64
    BY <1>2, SMT
  <2>2. q = b
    BY <1>3
  <2> HIDE DEF q, ra
  <2> QED
    BY <2>1, <2>2
<1>8. b = 64 * c + rb /\ rb \in Int /\ 0 <= rb /\ rb < 64
  <2> DEFINE q == b \div 64
  <2>1. b = 64 * q + rb /\ rb \in Int /\ 0 <= rb /\ rb < 64
    BY <1>2, SMT
  <2>2. q = c
    BY <1>3
  <2> HIDE DEF q, rb
  <2> QED
    BY <2>1, <2>2
<1> HIDE DEF ra, rb
<1>9. c * 262144 + rb * 4096 + ra * 64 + r = T
  BY <1>0, <1>2, <1>4, <1>7, <1>8, SMT
<1>10. \A k \in 0 .. 3 : k = 0 \/ k = 1 \/ k = 2 \/ k = 3
  BY <1>0, SMT
<1>11. \A k \in 0 .. 3 : DigitOf(T, k) \in Nat /\ DigitOf(T, k) < 64
  BY <1>2, <1>4, <1>6, <1>7, <1>8, <1>10, SMT
<1>12. DigitOf(T, 0) * 262144 + DigitOf(T, 1) * 4096 + DigitOf(T, 2) * 64 + DigitOf(T, 3)
         = c * 262144 + rb * 4096 + ra * 64 + r
  BY <1>6, SMT
<1> QED
  BY <1>9, <1>11, <1>12, SMT

\* Each digit for itself.
LEMMA DigitRange ==
  ASSUME NEW T, IsNumber(T), NEW k \in {0, 1, 2, 3}
  PROVE  DigitOf(T, k) \in Nat /\ DigitOf(T, k) < 64
<1>1. k \in 0 .. 3
  OBVIOUS
<1> QED
  BY <1>1, DigitsOf, SMT

\* The digits of the bytes that are not there.
LEMMA PadDigits ==
  ASSUME NEW x \in Nat, NEW y \in Nat
  PROVE  DigitOf(Number(x, y, 0), 3) = 0 /\ DigitOf(Number(x, 0, 0), 2) = 0
<1>1. (x * 65536 + y * 256) \div 1 = x * 65536 + y * 256
  BY SMT
<1>2. (x * 65536 + y * 256) % 64 = 0
  BY SMT
<1>3. (x * 65536) \div 64 = x * 1024
  BY SMT
<1>4. (x * 1024) % 64 = 0
  BY SMT
<1> QED
  <2>1. Number(x, y, 0) = x * 65536 + y * 256 /\ Number(x, 0, 0) = x * 65536
    BY SMT DEF Number
  <2> QED
    BY <1>1, <1>2, <1>3, <1>4, <2>1, SMT DEF DigitOf

\* A byte of a credential, NUL behind its end.
ByteAt(c, k) == IF k <= Len(c) THEN c[k] ELSE 0

\* The number of quads and of pads of the base64 text of so many bytes.
LEMMA QuadsOf ==
  ASSUME NEW L \in Nat
  PROVE  LET n == (L + 2) \div 3
         IN  /\ n \in Nat /\ n * 3 - L \in {0, 1, 2}
             /\ L % 3 # 1 => n * 3 - L \in {0, 1}
<1> DEFINE n == (L + 2) \div 3  r == (L + 2) % 3
<1>1. L + 2 = 3 * n + r /\ n \in Int /\ r \in Int /\ 0 <= r /\ r < 3
  BY SMT
<1> DEFINE m == L \div 3  s == L % 3
<1>2. L = 3 * m + s /\ m \in Int /\ s \in Int /\ 0 <= s /\ s < 3
  BY SMT
<1> HIDE DEF n, r, m, s
<1>3. n \in Nat /\ n * 3 - L \in {0, 1, 2}
  BY <1>1, SMT
<1>4. s # 1 => n * 3 - L \in {0, 1}
  BY <1>1, <1>2, SMT
<1> QED
  BY <1>3, <1>4 DEF n, s

\* The k-th digit of quad q in the text of n quads.
TextDigit(c, n, q, k) ==
  IF 4 * q + k + 1 > 4 * n - (n * 3 - Len(c)) THEN Pad ELSE DigitOf(Triple(c, q), k)

\* The digits of the text of a credential.
LEMMA TextIs ==
  ASSUME NEW c, Credential(c), NEW n \in Nat, n = (Len(c) + 2) \div 3,
         NEW q \in Nat, q < n, NEW k \in {0, 1, 2, 3}
  PROVE  /\ 4 * q + k + 1 \in 1 .. 4 * n
         /\ Base64(c)[4 * q + k + 1] = TextDigit(c, n, q, k)
<1> DEFINE d == 4 * q + k + 1
<1>1. d \in 1 .. 4 * n /\ d - 1 = 4 * q + k
  BY SMT
<1>2. (4 * q + k) \div 4 = q /\ (4 * q + k) % 4 = k
  <2>1. CASE k = 0
    BY <2>1, SMT
  <2>2. CASE k = 1
    BY <2>2, SMT
  <2>3. CASE k = 2
    BY <2>3, SMT
  <2>4. CASE k = 3
    BY <2>4, SMT
  <2> QED
    BY <2>1, <2>2, <2>3, <2>4
<1>3. Base64(c) = [e \in 1 .. 4 * n |->
                     IF e > 4 * n - (n * 3 - Len(c)) THEN Pad
                     ELSE DigitOf(Triple(c, (e - 1) \div 4), (e - 1) % 4)]
  BY SMT DEF Base64
<1> HIDE DEF d
<1>4. Base64(c)[d] = IF d > 4 * n - (n * 3 - Len(c)) THEN Pad
                     ELSE DigitOf(Triple(c, (d - 1) \div 4), (d - 1) % 4)
  BY <1>1, <1>3, SMT
<1>5. Base64(c)[d] = IF d > 4 * n - (n * 3 - Len(c)) THEN Pad ELSE DigitOf(Triple(c, q), k)
  BY <1>1, <1>2, <1>4, SMT
<1> QED
  BY <1>1, <1>5, SMT DEF d, TextDigit

\* A quad of the text is the number of its three bytes.
LEMMA QuadExact ==
  ASSUME NEW c, Credential(c), NEW n \in Nat, n = (Len(c) + 2) \div 3,
         NEW q \in Nat, q < n
  PROVE  /\ ByteOf(Quad(Base64(c), q), 0) = ByteAt(c, 3 * q + 1)
         /\ ByteOf(Quad(Base64(c), q), 1) = ByteAt(c, 3 * q + 2)
         /\ ByteOf(Quad(Base64(c), q), 2) = ByteAt(c, 3 * q + 3)
         /\ \A k \in {0, 1, 2, 3} : DigitOf(Triple(c, q), k) # Pad
<1> DEFINE L == Len(c)  pad == n * 3 - L
           x == ByteAt(c, 3 * q + 1)  y == ByteAt(c, 3 * q + 2)  z == ByteAt(c, 3 * q + 3)
           T == Number(x, y, z)
<1>1. L \in Nat /\ pad \in {0, 1, 2}
  <2>1. L \in Nat
    BY DEF Credential
  <2> QED
    BY <2>1, QuadsOf
<1>2. x \in Nat /\ y \in Nat /\ z \in Nat /\ x < 256 /\ y < 256 /\ z < 256
  <2>1. ASSUME NEW k \in Nat \ {0} PROVE ByteAt(c, k) \in Nat /\ ByteAt(c, k) < 256
    BY <1>1, SMT DEF ByteAt, Credential
  <2>2. 3 * q + 1 \in Nat \ {0} /\ 3 * q + 2 \in Nat \ {0} /\ 3 * q + 3 \in Nat \ {0}
    BY SMT
  <2> QED
    BY <2>1, <2>2, SMT
<1>3. Triple(c, q) = T
  BY SMT DEF Triple, ByteAt, Number
<1> HIDE DEF L, x, y, z
<1>4. /\ IsNumber(T)
      /\ ByteOf(T, 0) = x /\ ByteOf(T, 1) = y /\ ByteOf(T, 2) = z
  <2>1. IsByte(x) /\ IsByte(y) /\ IsByte(z)
    BY <1>2, SMT DEF IsByte
  <2>2. /\ IsNumber(Number(x, y, z))
        /\ ByteOf(Number(x, y, z), 0) = x
        /\ ByteOf(Number(x, y, z), 1) = y
        /\ ByteOf(Number(x, y, z), 2) = z
    BY <2>1, BytesOf
  <2> QED
    BY <2>2
<1>5. /\ 4 * q + 4 > 4 * n - pad => z = 0
      /\ 4 * q + 3 > 4 * n - pad => y = 0 /\ z = 0
      /\ 4 * q + 1 <= 4 * n - pad /\ 4 * q + 2 <= 4 * n - pad
  <2>1. L = n * 3 - pad
    BY <1>1, SMT
  <2>2. 4 * q + 4 > 4 * n - pad => 3 * q + 3 > L
    BY <1>1, <2>1, SMT
  <2>3. 4 * q + 3 > 4 * n - pad => 3 * q + 2 > L /\ 3 * q + 3 > L
    BY <1>1, <2>1, SMT
  <2>4. 4 * q + 1 <= 4 * n - pad /\ 4 * q + 2 <= 4 * n - pad
    BY <1>1, <2>1, SMT
  <2>5. (3 * q + 3 > L => z = 0) /\ (3 * q + 2 > L => y = 0)
    BY <1>1, SMT DEF y, z, ByteAt, L
  <2> HIDE DEF pad
  <2> QED
    BY <2>2, <2>3, <2>4, <2>5
<1>6. (z = 0 => DigitOf(T, 3) = 0) /\ (y = 0 /\ z = 0 => DigitOf(T, 2) = 0)
  <2>1. DigitOf(Number(x, y, 0), 3) = 0 /\ DigitOf(Number(x, 0, 0), 2) = 0
    BY <1>2, PadDigits, SMT
  <2> QED
    BY <2>1
<1> HIDE DEF T
<1>7. \A k \in {0, 1, 2, 3} : DigitOf(T, k) \in Nat /\ DigitOf(T, k) < 64
  BY <1>4, DigitRange
<1>8. ASSUME NEW k \in {0, 1, 2, 3}
      PROVE  Base64(c)[4 * q + k + 1] = IF 4 * q + k + 1 > 4 * n - pad THEN Pad ELSE DigitOf(T, k)
  <2>1. Base64(c)[4 * q + k + 1] = TextDigit(c, n, q, k)
    BY TextIs
  <2>2. TextDigit(c, n, q, k) = IF 4 * q + k + 1 > 4 * n - pad THEN Pad ELSE DigitOf(T, k)
    BY <1>3 DEF TextDigit, L
  <2> QED
    BY <2>1, <2>2
<1> HIDE DEF pad
<1>9. /\ Base64(c)[4 * q + 1] = DigitOf(T, 0)
      /\ Base64(c)[4 * q + 2] = DigitOf(T, 1)
      /\ Base64(c)[4 * q + 3] = IF 4 * q + 3 > 4 * n - pad THEN Pad ELSE DigitOf(T, 2)
      /\ Base64(c)[4 * q + 4] = IF 4 * q + 4 > 4 * n - pad THEN Pad ELSE DigitOf(T, 3)
  <2>1. /\ 4 * q + 0 + 1 = 4 * q + 1 /\ 4 * q + 1 + 1 = 4 * q + 2
        /\ 4 * q + 2 + 1 = 4 * q + 3 /\ 4 * q + 3 + 1 = 4 * q + 4
    BY SMT
  <2>2. /\ Base64(c)[4 * q + 0 + 1] = IF 4 * q + 0 + 1 > 4 * n - pad THEN Pad ELSE DigitOf(T, 0)
        /\ Base64(c)[4 * q + 1 + 1] = IF 4 * q + 1 + 1 > 4 * n - pad THEN Pad ELSE DigitOf(T, 1)
        /\ Base64(c)[4 * q + 2 + 1] = IF 4 * q + 2 + 1 > 4 * n - pad THEN Pad ELSE DigitOf(T, 2)
        /\ Base64(c)[4 * q + 3 + 1] = IF 4 * q + 3 + 1 > 4 * n - pad THEN Pad ELSE DigitOf(T, 3)
    BY <1>8, SMT
  <2>3. pad \in Int
    BY <1>1, SMT
  <2>4. ~(4 * q + 1 > 4 * n - pad) /\ ~(4 * q + 2 > 4 * n - pad)
    BY <1>5, <2>3, SMT
  <2> QED
    BY <2>1, <2>2, <2>4, SMT
<1>10. /\ b64index(Base64(c)[4 * q + 1]) = DigitOf(T, 0)
       /\ b64index(Base64(c)[4 * q + 2]) = DigitOf(T, 1)
       /\ b64index(Base64(c)[4 * q + 3]) = DigitOf(T, 2)
       /\ b64index(Base64(c)[4 * q + 4]) = DigitOf(T, 3)
  <2>1. \A k \in {0, 1, 2, 3} : b64index(DigitOf(T, k)) = DigitOf(T, k)
    <3>1. \A d \in Nat : d < 64 => b64index(d) = d
      BY SMT DEF b64index, Pad
    <3> QED
      BY <1>7, <3>1
  <2>2. b64index(Pad) = 0
    BY SMT DEF b64index
  <2> QED
    BY <1>5, <1>6, <1>9, <2>1, <2>2, SMT
<1>11. Quad(Base64(c), q) = T
  <2>1. DigitOf(T, 0) * 262144 + DigitOf(T, 1) * 4096 + DigitOf(T, 2) * 64 + DigitOf(T, 3) = T
    BY <1>4, DigitsOf, SMT
  <2> QED
    BY <2>1, <1>10, SMT DEF Quad
<1>12. \A k \in {0, 1, 2, 3} : DigitOf(Triple(c, q), k) # Pad
  <2>1. \A d \in Nat : d < 64 => d # Pad
    BY SMT DEF Pad
  <2>2. \A k \in {0, 1, 2, 3} : DigitOf(T, k) # Pad
    BY <1>7, <2>1
  <2> QED
    BY <1>3, <2>2
<1> QED
  BY <1>4, <1>11, <1>12, SMT DEF x, y, z

\* strcmp finds a buffer that begins with a credential and its NUL, as far as there is
\* room for them, equal to the same line of the user file and to no other.
LEMMA SameTextExact ==
  ASSUME NEW c, Credential(c), NEW u \in Users, NEW buf,
         \A j \in 1 .. MaxCreds : j <= Len(c) + 1 => buf[j] = ByteAt(c, j)
  PROVE  SameText(buf, u) <=> c = u
<1>1. PICK L, K : L = Len(c) /\ K = Len(u)
  OBVIOUS
<1>2. /\ L \in Nat /\ DOMAIN c = 1 .. L /\ c = [j \in 1 .. L |-> c[j]]
      /\ \A j \in 1 .. L : c[j] # 0
  BY <1>1 DEF Credential
<1>3. /\ K \in Nat /\ K < MaxCreds /\ MaxCreds \in Nat
      /\ DOMAIN u = 1 .. K /\ u = [j \in 1 .. K |-> u[j]]
      /\ \A j \in 1 .. K : u[j] # 0
  BY <1>1, UsersAssumption, AuthAssumption
<1>4. /\ \A j \in 1 .. L : j <= MaxCreds => buf[j] = c[j]
      /\ L + 1 <= MaxCreds => buf[L + 1] = 0
  <2>1. ASSUME NEW j \in 1 .. L, j <= MaxCreds
        PROVE  buf[j] = c[j]
    <3>1. j \in 1 .. MaxCreds /\ j <= Len(c) /\ j <= Len(c) + 1
      BY <1>1, <1>2, <1>3, <2>1
    <3> QED
      BY <3>1 DEF ByteAt
  <2>2. ASSUME L + 1 <= MaxCreds
        PROVE  buf[L + 1] = 0
    <3>1. PICK j : j = L + 1
      OBVIOUS
    <3>2. j \in 1 .. MaxCreds /\ j <= Len(c) + 1 /\ ~(j <= Len(c))
      BY <1>1, <1>2, <1>3, <2>2, <3>1
    <3> QED
      BY <3>1, <3>2 DEF ByteAt
  <2> QED
    BY <2>1, <2>2
<1>5. SameText(buf, u) <=> (\A j \in 1 .. K : buf[j] = u[j]) /\ buf[K + 1] = 0
  BY <1>1 DEF SameText
<1>6. ASSUME c = u PROVE SameText(buf, u)
  <2>1. L = K
    BY <1>1, <1>6
  <2>2. \A j \in 1 .. K : buf[j] = u[j]
    BY <1>3, <1>4, <1>6, <2>1
  <2>3. buf[K + 1] = 0
    BY <1>3, <1>4, <2>1
  <2> QED
    BY <1>5, <2>2, <2>3
<1>7. ASSUME SameText(buf, u) PROVE c = u
  <2>1. (\A j \in 1 .. K : buf[j] = u[j]) /\ buf[K + 1] = 0
    BY <1>5, <1>7
  <2>2. ~(K > L)
    <3>1. K > L => L + 1 \in 1 .. K /\ L + 1 <= MaxCreds
      BY <1>2, <1>3
    <3> QED
      BY <1>3, <1>4, <2>1, <3>1
  <2>3. ~(K < L)
    <3>1. K < L => K + 1 \in 1 .. L /\ K + 1 <= MaxCreds
      BY <1>2, <1>3
    <3> QED
      BY <1>2, <1>4, <2>1, <3>1
  <2>4. K = L
    BY <1>2, <1>3, <2>2, <2>3
  <2>5. \A j \in 1 .. L : c[j] = u[j]
    BY <1>3, <1>4, <2>1, <2>4
  <2> QED
    BY <1>2, <1>3, <2>4, <2>5
<1> QED
  BY <1>6, <1>7

\* The text of a credential that does not end with "==", or is a single quad, is decoded
\* to the credential and a NUL, as much of them as the buffer holds.
LEMMA DecodeExact ==
  ASSUME NEW c, Credential(c), c # <<>>, Len(c) % 3 # 1 \/ Len(c) = 1, NEW out
  PROVE  \A j \in 1 .. MaxCreds :
           j <= Len(c) + 1 => b64decode(Base64(c), out)[j] = ByteAt(c, j)
<1>1. PICK L : L = Len(c)
  OBVIOUS
<1>2. PICK n : n = (L + 2) \div 3
  OBVIOUS
<1>3. PICK pad : pad = n * 3 - L
  OBVIOUS
<1>4. L \in Nat /\ MaxCreds \in Nat
  BY <1>1, AuthAssumption DEF Credential
<1>5. /\ n \in Nat /\ pad \in {0, 1, 2} /\ L = n * 3 - pad
      /\ pad = 2 => L = 1 /\ n = 1
  <2>1. /\ (L + 2) \div 3 \in Nat /\ ((L + 2) \div 3) * 3 - L \in {0, 1, 2}
        /\ L % 3 # 1 => ((L + 2) \div 3) * 3 - L \in {0, 1}
    BY <1>4, QuadsOf
  <2>2. /\ n \in Nat /\ pad \in {0, 1, 2} /\ (L % 3 # 1 => pad \in {0, 1})
    BY <1>2, <1>3, <2>1
  <2>3. L = n * 3 - pad
    BY <1>3, <1>4, <2>2, SMT
  <2>4. pad = 2 => L = 1
    BY <1>1, <2>2
  <2>5. pad = 2 => n = 1
    BY <2>2, <2>3, <2>4, SMT
  <2> QED
    BY <2>2, <2>3, <2>4, <2>5
<1>6. PICK in : in = Base64(c)
  OBVIOUS
<1>7. DOMAIN in = 1 .. 4 * n /\ Len(in) = 4 * n
  <2>1. in = [e \in 1 .. 4 * n |->
                IF e > 4 * n - (n * 3 - L) THEN Pad
                ELSE DigitOf(Triple(c, (e - 1) \div 4), (e - 1) % 4)]
    BY <1>1, <1>2, <1>6, SMT DEF Base64
  <2>2. DOMAIN in = 1 .. 4 * n /\ in = [e \in 1 .. 4 * n |-> in[e]]
    BY <2>1, SMT
  <2> DEFINE S == {in[e] : e \in 1 .. 4 * n}
  <2>3. in \in [1 .. 4 * n -> S]
    BY <2>2
  <2> HIDE DEF S
  <2>4. 4 * n \in Nat
    BY <1>5, SMT
  <2> QED
    BY <2>2, <2>3, <2>4
<1>8. n # 0
  <2>1. L # 0
    BY <1>1, EmptySeq DEF Credential
  <2> QED
    BY <1>4, <1>5, <2>1, SMT
<1>9. CASE n > 0
  <2>1. PICK last : last = n - 1
    OBVIOUS
  <2>2. last \in Nat /\ last < n /\ 4 * last + 3 + 1 = 4 * n /\ 4 * last + 2 + 1 = 4 * n - 1
    BY <1>5, <1>9, <2>1, SMT
  <2>3. /\ in[4 * n] = IF 4 * n > 4 * n - pad THEN Pad ELSE DigitOf(Triple(c, last), 3)
        /\ in[4 * n - 1] = IF 4 * n - 1 > 4 * n - pad THEN Pad ELSE DigitOf(Triple(c, last), 2)
    <3>1. \A k \in {0, 1, 2, 3} : Base64(c)[4 * last + k + 1] = TextDigit(c, n, last, k)
      BY <1>1, <1>2, <1>5, <2>2, TextIs
    <3>2. /\ Base64(c)[4 * last + 3 + 1] =
              IF 4 * last + 3 + 1 > 4 * n - (n * 3 - Len(c)) THEN Pad
              ELSE DigitOf(Triple(c, last), 3)
          /\ Base64(c)[4 * last + 2 + 1] =
              IF 4 * last + 2 + 1 > 4 * n - (n * 3 - Len(c)) THEN Pad
              ELSE DigitOf(Triple(c, last), 2)
      BY <3>1, SMT DEF TextDigit
    <3> QED
      BY <1>1, <1>3, <1>6, <2>2, <3>2
  <2>4. \A k \in {0, 1, 2, 3} : DigitOf(Triple(c, last), k) # Pad
    BY <1>1, <1>2, <1>5, <2>2, QuadExact
  <2>5. Padding(in) = pad
    <3>1. /\ pad = 0 => ~(4 * n > 4 * n - pad)
          /\ pad = 1 => 4 * n > 4 * n - pad /\ ~(4 * n - 1 > 4 * n - pad)
          /\ pad = 2 => 4 * n > 4 * n - pad /\ 4 * n - 1 > 4 * n - pad
      BY <1>5, SMT
    <3>2. Padding(in) = IF in[4 * n] # Pad THEN 0 ELSE IF in[4 * n - 1] = Pad THEN 2 ELSE 1
      BY <1>7 DEF Padding
    <3> QED
      BY <1>5, <2>3, <2>4, <3>1, <3>2
  <2>6. PICK per : per = IF pad = 2 THEN 2 ELSE 3
    OBVIOUS
  <2>7. PICK N : N = n * per
    OBVIOUS
  <2>8. /\ N \in Nat /\ N >= L /\ N <= n * per
        /\ per = 3 \/ (per = 2 /\ n = 1 /\ L = 1)
    <3>1. per = 3 \/ (per = 2 /\ n = 1 /\ L = 1)
      BY <1>5, <2>6
    <3>2. n * per \in Nat /\ n * per >= L
      BY <1>4, <1>5, <3>1, SMT
    <3> QED
      BY <1>4, <2>7, <3>1, <3>2, SMT
  <2>9. b64decode(in, out) =
          [j \in 1 .. MaxCreds |->
             IF j <= N THEN ByteOf(Quad(in, (j - 1) \div per), (j - 1) % per)
             ELSE IF j = N + 1 THEN 0 ELSE out[j]]
    <3>1. in # <<>> /\ Len(in) \div 4 = n
      BY <1>5, <1>7, <1>9, SMT
    <3> QED
      BY <2>5, <2>6, <2>7, <3>1, SMT DEF b64decode
  <2>10. ASSUME NEW j \in 1 .. N
         PROVE  ByteOf(Quad(in, (j - 1) \div per), (j - 1) % per) = ByteAt(c, j)
    <3> DEFINE q == (j - 1) \div per  k == (j - 1) % per
    <3>1. /\ q \in Nat /\ q < n /\ k \in {0, 1, 2} /\ j = 3 * q + k + 1
      <4>1. CASE per = 3
        <5> DEFINE i == j - 1
        <5>1. i \in Nat /\ i < 3 * n
          BY <1>5, <2>8, <4>1, SMT
        <5> HIDE DEF i
        <5> DEFINE a == i \div 3  b == i % 3
        <5>2. i = 3 * a + b /\ a \in Int /\ b \in Int /\ 0 <= b /\ b < 3
          BY <5>1, SMT
        <5>3. q = a /\ k = b
          BY <4>1 DEF i
        <5> HIDE DEF a, b, q, k
        <5>4. a \in Nat /\ a < n /\ b \in {0, 1, 2}
          BY <1>5, <5>1, <5>2, SMT
        <5>5. j = 3 * a + b + 1
          BY <5>2, <2>8, SMT DEF i
        <5> QED
          BY <5>3, <5>4, <5>5
      <4>2. CASE per = 2 /\ n = 1
        BY <2>8, <4>2, SMT
      <4> QED
        BY <2>8, <4>1, <4>2
    <3> HIDE DEF q, k
    <3>2. /\ ByteOf(Quad(in, q), 0) = ByteAt(c, 3 * q + 1)
          /\ ByteOf(Quad(in, q), 1) = ByteAt(c, 3 * q + 2)
          /\ ByteOf(Quad(in, q), 2) = ByteAt(c, 3 * q + 3)
      BY <1>1, <1>2, <1>5, <1>6, <3>1, QuadExact
    <3>3. ByteOf(Quad(in, q), k) = ByteAt(c, j)
      <4>1. /\ k = 0 => j = 3 * q + 1
            /\ k = 1 => j = 3 * q + 2
            /\ k = 2 => j = 3 * q + 3
        BY <3>1, SMT
      <4> QED
        BY <3>1, <3>2, <4>1
    <3> QED
      BY <3>3 DEF q, k
  <2>11. ASSUME NEW j \in 1 .. MaxCreds, j <= L + 1
         PROVE  b64decode(in, out)[j] = ByteAt(c, j)
    <3>1. CASE j <= N
      <4>1. j \in 1 .. N
        BY <1>4, <2>8, <3>1
      <4> QED
        BY <2>9, <2>10, <3>1, <4>1
    <3>2. CASE ~(j <= N)
      <4>1. j = N + 1 /\ ~(j <= L)
        BY <1>4, <2>8, <2>11, <3>2
      <4>2. b64decode(in, out)[j] = 0
        BY <2>9, <3>2, <4>1
      <4> QED
        BY <1>1, <4>1, <4>2 DEF ByteAt
    <3> QED
      BY <3>1, <3>2
  <2> QED
    BY <1>1, <1>6, <2>11
<1> QED
  BY <1>5, <1>8, <1>9, SMT

\* Every rule of the access list is one, or Junk that matches nobody.
AclInv ==
  /\ \A i \in DOMAIN acl.allow : acl.allow[i] = Junk \/ IsRule(acl.allow[i])
  /\ \A i \in DOMAIN acl.deny : acl.deny[i] = Junk \/ IsRule(acl.deny[i])

\* auth_init keeps lines that are no comments.
LEMMA InitAcl == Init => AclInv
<1> SUFFICES ASSUME Init PROVE AclInv
  OBVIOUS
<1>1. ASSUME NEW l \in {"allow", "deny"}, NEW a,
             a = IF files[l] = NULL THEN <<>> ELSE load_list(files[l])
      PROVE  \A i \in DOMAIN a : a[i] = Junk \/ IsRule(a[i])
  <2>1. CASE files[l] = NULL
    BY <1>1, <2>1
  <2>2. CASE files[l] # NULL
    <3>1. PICK f : f = files[l]
      OBVIOUS
    <3>2. f \in Contents["allow"] \cup Contents["deny"] /\ f # NULL
      BY <2>2, <3>1 DEF Init
    <3>3. \A i \in DOMAIN f : f[i] \in {Skip, Junk} \/ IsRule(f[i])
      BY <3>2, ContentsAssumption
    <3>4. a = [i \in Kept(f, {Skip}) |-> f[i]]
      BY <1>1, <2>2, <3>1 DEF load_list
    <3>5. \A i \in Kept(f, {Skip}) : i \in DOMAIN f /\ f[i] # Skip
      BY DEF Kept
    <3> QED
      BY <3>3, <3>4, <3>5
  <2> QED
    BY <2>1, <2>2
<1>2. /\ acl.allow = IF files["allow"] = NULL THEN <<>> ELSE load_list(files["allow"])
      /\ acl.deny = IF files["deny"] = NULL THEN <<>> ELSE load_list(files["deny"])
  BY DEF Init
<1> QED
  BY <1>1, <1>2 DEF AclInv

\* Nothing changes the access list after auth_init.
LEMMA AclStays ==
  ASSUME [Next]_vars
  PROVE  acl' = acl
<1>1. ASSUME NEW t \in Loaders, Load(t)
      PROVE  acl' = acl
  BY <1>1 DEF Load, WrLock, filter_clear, LoadDomains, LoadAllowed, LoadDenied, LoadUrls,
              LoadList, ResetContentTypes, LoadContentTypes, Unlock
<1>2. ASSUME NEW w \in Workers, Check(w)
      PROVE  acl' = acl
  BY <1>2 DEF Check, AskEmpty, Return, Ask, RdLock, Decide, FirstToken, NextToken, RdUnlock
<1>3. CASE filter_init \/ setup_inotify_watches \/ ConfigReload \/ HotReload \/ Operator
             \/ UNCHANGED vars
  BY <1>3 DEF filter_init, setup_inotify_watches, ConfigReload, HotReload, Operator, WriteFile,
              ReplaceFile, vars
<1> QED
  BY <1>1, <1>2, <1>3 DEF Next

\* The access list lets in exactly the addresses its rules say, deny before allow, and a
\* credential is accepted exactly when the file has it: for every list and every file,
\* every content of the stack where it is decoded, and every credential, however long,
\* that is not empty, has no NUL and whose text does not end with "==" or is a single
\* quad.
THEOREM FilterAuthExact ==
  ASSUME CredentialsAreText
  PROVE  Spec => []AuthExact
<1>1. AclInv => AuthExact
  <2> SUFFICES ASSUME AclInv PROVE AuthExact
    OBVIOUS
  <2>1. ASSUME NEW ip \in Ips
        PROVE  check_ip_allowed(acl, ip) =
                 /\ ~\E i \in DOMAIN acl.deny : RuleNames(acl.deny[i], ip)
                 /\ acl.allow = <<>> \/ \E i \in DOMAIN acl.allow : RuleNames(acl.allow[i], ip)
    <3>1. IsAddress(ip)
      BY QueryAssumption
    <3>2. /\ \A i \in DOMAIN acl.allow : ip_matches(ip, acl.allow[i]) <=> RuleNames(acl.allow[i], ip)
          /\ \A i \in DOMAIN acl.deny : ip_matches(ip, acl.deny[i]) <=> RuleNames(acl.deny[i], ip)
      BY <3>1, MatchesExact DEF AclInv
    <3> QED
      BY <3>2 DEF check_ip_allowed
  <2>2. ASSUME NEW c \in Credentials, NEW out \in Leftovers,
               c # <<>>, Len(c) % 3 # 1 \/ Len(c) = 1
        PROVE  check_basic_auth(Users, Base64(c), out) <=> c \in Users
    <3>1. Credential(c)
      BY DEF CredentialsAreText
    <3>2. \A u \in Users : SameText(b64decode(Base64(c), out), u) <=> c = u
      BY <2>2, <3>1, DecodeExact, SameTextExact
    <3> QED
      BY <3>2 DEF check_basic_auth
  <2>3. CredentialsExact
    BY <2>2 DEF CredentialsExact
  <2> QED
    BY <2>1, <2>3 DEF AuthExact
<1>2. AclInv /\ [Next]_vars => AclInv'
  BY AclStays DEF AclInv
<1> QED
  BY <1>1, <1>2, InitAcl, PTL DEF Spec

=============================================================================
