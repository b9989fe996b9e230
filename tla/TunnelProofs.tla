---------------------------- MODULE TunnelProofs ----------------------------
(***************************************************************************)
(* Proofs about Tunnel, for any number of tunnels, hosts and records and    *)
(* every size of the send buffers.                                          *)
(***************************************************************************)
EXTENDS Tunnel, SequenceTheorems, TLAPS

Certs == [hostname : Hosts \cup {NULL, "localhost"}, id : Nat]

Nodes == [hostname : Hosts \cup {NULL}, cert : Certs]

\* The types the proofs need, of one variable after the other.
LookupTypes ==
  /\ stage \in [Tunnels -> {"cert", "accept", "connect", "http2", "done"} \cup PumpStages]
  /\ seek \in [Tunnels -> {"none", "lock", "search", "insert"}]
  /\ asked \in [Tunnels -> Hosts \cup {NULL}]
  /\ cert \in [Tunnels -> Certs]
  /\ cert_cache \in Seq(Nodes)
  /\ cert_cache_mutex \in Tunnels \cup {NULL}
  /\ generated \in Nat

NetTypes ==
  /\ peer \in [Tunnels -> [Peers -> {"open", "closed", "reset"}]]
  /\ sent \in [Tunnels -> [Peers -> Nat]]
  /\ taken \in [Tunnels -> [Peers -> Nat]]
  /\ inbox \in [Tunnels -> [Peers -> Seq(Nat)]]
  /\ got \in [Tunnels -> [Peers -> Seq(Nat)]]

PumpTypes ==
  /\ revents \in [Tunnels -> SUBSET Peers]
  /\ hangup \in [Tunnels -> SUBSET Peers]
  /\ ended \in [Tunnels -> SUBSET Peers]
  /\ active \in [Tunnels -> BOOLEAN]
  /\ killed \in BOOLEAN

Types == LookupTypes /\ NetTypes /\ PumpTypes

\* Where a lookup of the certificate can be: the mutex belongs to the one that
\* searches or inserts, and only the worker that sets its client's session up, or
\* sni_callback on its behalf, looks anything up.
SeekInv ==
  \A t \in Tunnels :
    /\ seek[t] \in {"search", "insert"} <=> cert_cache_mutex = t
    /\ stage[t] = "cert" => seek[t] # "none"
    /\ seek[t] # "none" => stage[t] \in {"cert", "accept"} /\ asked[t] \in Hosts

\* What the list holds: one certificate for a name, which bears that name; and no
\* certificate for the name a worker makes one for.
CacheInv ==
  /\ \A i \in DOMAIN cert_cache : cert_cache[i].hostname \in Hosts
  /\ \A name \in Hosts : \A c, e \in Cached(name) : c = e /\ c.hostname = name
  /\ \A t \in Tunnels : seek[t] = "insert" => Cached(asked[t]) = {}

\* A worker whose lookup is over uses the certificate of the list.
UseInv ==
  \A t \in Tunnels :
    stage[t] \notin {"cert", "done"} /\ seek[t] = "none" =>
      asked[t] \in Hosts /\ cert[t] \in Cached(asked[t])

\* The inductive invariant of the certificates.
CertInv == SeekInv /\ CacheInv /\ UseInv

\* A record from d was lost although its receiver is still there: only a refused
\* write loses one, and the round that it happens in is the last one.
Cut(t, d) ==
  /\ t \in refused /\ ~active[t]
  /\ stage[t] \in {"check", "shutdown"} \cup (IF d = "client" THEN {"server"} ELSE {})

\* The numbers up to n, as many as q is long; the numbers from 1 on.
Latest(q, n) == \A i \in 1 .. Len(q) : q[i] + Len(q) = n + i

Counted(q) == \A i \in 1 .. Len(q) : q[i] = i

\* The records of one direction, from d to the other peer: what has been written, then
\* what SSL_read has still to return, are the records that were sent, in their order.
StreamInv(t, d) ==
  LET o == Other(d)
  IN  /\ Latest(inbox[t][d], sent[t][d]) /\ Counted(got[t][o])
      /\ Len(got[t][o]) + Len(inbox[t][d]) <= sent[t][d]
      /\ peer[t][o] = "open" /\ ~Cut(t, d) => Len(got[t][o]) + Len(inbox[t][d]) = sent[t][d]
      /\ d \in ended[t] => inbox[t][d] = <<>> /\ peer[t][d] # "open"

\* The bounds of the buffers.
RoomInv(t, d) ==
  /\ taken[t][d] <= Len(got[t][d]) /\ Len(got[t][d]) <= taken[t][d] + SendRoom
  /\ sent[t][d] <= MaxSend[d]

\* The inductive invariant of the pump.
PumpInv == \A t \in Tunnels, d \in Peers : StreamInv(t, d) /\ RoomInv(t, d)

TunnelInv == Types /\ CertInv /\ PumpInv

-----------------------------------------------------------------------------
(* Types *)

\* All tunnels start by looking up the certificate of their host.
LEMMA InitTypes == Init => Types
<1> SUFFICES ASSUME Init PROVE Types
  OBVIOUS
<1>1. default_x509 \in Certs
  BY DEF default_x509, Certs
<1>2. LookupTypes
  BY <1>1, TunnelAssumption DEF Init, LookupTypes, PumpStages
<1>3. NetTypes
  BY DEF Init, NetTypes
<1>4. PumpTypes
  BY DEF Init, PumpTypes
<1> QED
  BY <1>2, <1>3, <1>4 DEF Types

\* A certificate of the list is a certificate.
LEMMA CachedType == LookupTypes => \A name : Cached(name) \subseteq Certs
<1> SUFFICES ASSUME LookupTypes, NEW name, NEW c \in Cached(name) PROVE c \in Certs
  OBVIOUS
<1>1. PICK i \in DOMAIN cert_cache : c = cert_cache[i].cert
  BY DEF Cached
<1>2. cert_cache[i] \in Nodes
  BY <1>1 DEF LookupTypes
<1> QED
  BY <1>1, <1>2 DEF Nodes

\* A lookup step keeps the types.
LEMMA LookupKeepsTypes ==
  ASSUME Types, NEW t \in Tunnels,
         Lock(t) \/ Search(t) \/ Insert(t) \/ (\E name \in Hosts : ServerName(t, name))
         \/ NoServerName(t) \/ Connected(t)
  PROVE  Types'
<1>1. UNCHANGED <<net, pump, killed>>
  BY DEF Lock, Search, Insert, ServerName, NoServerName, Connected
<1>2. NetTypes' /\ PumpTypes'
  BY <1>1 DEF Types, NetTypes, PumpTypes, net, pump
<1> SUFFICES LookupTypes'
  BY <1>2 DEF Types
<1>3. CASE Lock(t)
  BY <1>3 DEF Lock, Types, LookupTypes
<1>4. CASE Search(t)
  <2>1. \A name : Cached(name) \subseteq Certs
    BY CachedType DEF Types
  <2>2. CASE \E c \in Cached(asked[t]) : Use(t, c)
    BY <1>4, <2>1, <2>2 DEF Search, Use, Types, LookupTypes, PumpStages
  <2>3. CASE seek' = [seek EXCEPT ![t] = "insert"] /\ UNCHANGED <<stage, cert, cert_cache_mutex>>
    BY <1>4, <2>3 DEF Search, Types, LookupTypes
  <2> QED
    BY <1>4, <2>2, <2>3 DEF Search
<1>5. CASE Insert(t)
  <2> DEFINE new == [hostname |-> asked[t], id |-> generated + 1]
             node == [hostname |-> asked[t], cert |-> new]
  <2>1. asked[t] \in Hosts \cup {NULL} /\ generated + 1 \in Nat
    BY DEF Types, LookupTypes
  <2>2. new \in Certs
    BY <2>1 DEF Certs
  <2>3. node \in Nodes
    BY <2>1, <2>2 DEF Nodes
  <2>4. cert_cache' \in Seq(Nodes)
    BY <1>5, <2>3 DEF Insert, Types, LookupTypes
  <2>5. Use(t, new) /\ UNCHANGED asked /\ generated' = generated + 1 /\ cert_cache_mutex' = NULL
    BY <1>5 DEF Insert
  <2> HIDE DEF new
  <2> QED
    BY <2>1, <2>2, <2>4, <2>5 DEF Use, Types, LookupTypes, PumpStages
<1>6. CASE \E name \in Hosts : ServerName(t, name)
  BY <1>6 DEF ServerName, Types, LookupTypes
<1>7. CASE NoServerName(t)
  BY <1>7 DEF NoServerName, Types, LookupTypes, PumpStages, lookup
<1>8. CASE Connected(t)
  BY <1>8 DEF Connected, Types, LookupTypes, PumpStages, lookup
<1> QED
  BY <1>3, <1>4, <1>5, <1>6, <1>7, <1>8

\* The end of a tunnel keeps the types.
LEMMA ReturnKeepsTypes ==
  ASSUME Types, NEW t \in Tunnels, Return(t), killed' \in BOOLEAN
  PROVE  Types'
<1>1. default_x509 \in Certs
  BY DEF default_x509, Certs
<1>2. LookupTypes'
  BY <1>1 DEF Return, Types, LookupTypes, PumpStages
<1>3. Counts \in [Peers -> Nat] /\ Sockets \in [Peers -> Seq(Nat)]
  BY DEF Counts, Sockets
<1>4. NetTypes'
  BY <1>3 DEF Return, Types, NetTypes
<1>5. PumpTypes'
  BY DEF Return, Types, PumpTypes
<1> QED
  BY <1>2, <1>4, <1>5 DEF Types

\* The part of the loop that comes next.
LEMMA AfterType == \A d, ready : After(d, ready) \in {"client", "server", "check"}
  BY DEF After

\* A step of the loop keeps the types.
LEMMA PumpKeepsTypes ==
  ASSUME Types, NEW t \in Tunnels,
         Poll(t) \/ CheckRound(t)
         \/ \E d \in Peers : Forward(t, d) \/ WriteRefused(t, d) \/ Drained(t, d)
  PROVE  Types'
<1> USE DEF Types, PumpStages
<1>1. CASE Poll(t)
  <2>1. LookupTypes'
    BY <1>1, AfterType DEF Poll, LookupTypes, lookup
  <2>2. NetTypes' /\ PumpTypes'
    BY <1>1 DEF Poll, NetTypes, PumpTypes, net, Readable
  <2> QED
    BY <2>1, <2>2
<1>2. CASE CheckRound(t)
  <2>1. LookupTypes'
    BY <1>2 DEF CheckRound, LookupTypes, lookup
  <2>2. NetTypes' /\ PumpTypes'
    BY <1>2 DEF CheckRound, NetTypes, PumpTypes, net
  <2> QED
    BY <2>1, <2>2
<1>3. ASSUME NEW d \in Peers, Forward(t, d)
      PROVE  Types'
  <2>0. UNCHANGED <<stage, lookup, pump, killed>>
    BY <1>3 DEF Forward
  <2>1. LookupTypes' /\ PumpTypes'
    BY <2>0 DEF LookupTypes, PumpTypes, lookup, pump
  <2>2. inbox[t][d] \in Seq(Nat) /\ inbox[t][d] # <<>> /\ Other(d) \in Peers
    BY <1>3 DEF Forward, NetTypes, Peers, Other
  <2>3. Head(inbox[t][d]) \in Nat /\ Tail(inbox[t][d]) \in Seq(Nat)
    BY <2>2
  <2>4. inbox' \in [Tunnels -> [Peers -> Seq(Nat)]] /\ UNCHANGED <<sent, taken>>
    BY <1>3, <2>3 DEF Forward, NetTypes
  <2>5. CASE got' = [got EXCEPT ![t][Other(d)] = Append(@, Head(inbox[t][d]))] /\ UNCHANGED peer
    <3>1. Append(got[t][Other(d)], Head(inbox[t][d])) \in Seq(Nat)
      BY <2>2, <2>3 DEF NetTypes
    <3>2. got' \in [Tunnels -> [Peers -> Seq(Nat)]]
      BY <2>2, <2>5, <3>1 DEF NetTypes
    <3> QED
      BY <2>1, <2>4, <2>5, <3>2 DEF NetTypes
  <2>6. CASE peer' = [peer EXCEPT ![t][Other(d)] = "reset"] /\ UNCHANGED got
    BY <2>1, <2>2, <2>4, <2>6 DEF NetTypes
  <2> QED
    BY <1>3, <2>5, <2>6 DEF Forward
<1>4. ASSUME NEW d \in Peers, WriteRefused(t, d)
      PROVE  Types'
  <2>1. LookupTypes' /\ PumpTypes'
    BY <1>4, AfterType DEF WriteRefused, LookupTypes, PumpTypes, lookup
  <2>2. Tail(inbox[t][d]) \in Seq(Nat)
    BY <1>4 DEF WriteRefused, NetTypes
  <2>3. NetTypes'
    BY <1>4, <2>2 DEF WriteRefused, NetTypes
  <2> QED
    BY <2>1, <2>3
<1>5. ASSUME NEW d \in Peers, Drained(t, d)
      PROVE  Types'
  <2>1. UNCHANGED <<lookup, net>> /\ stage' = [stage EXCEPT ![t] = After(d, revents[t])]
    BY <1>5 DEF Drained
  <2>2. LookupTypes' /\ NetTypes'
    BY <2>1, AfterType DEF LookupTypes, NetTypes, lookup, net
  <2>3. \/ UNCHANGED <<active, ended>>
        \/ /\ active' = [active EXCEPT ![t] = FALSE]
           /\ ended' = [ended EXCEPT ![t] = @ \cup {d}]
    BY <1>5 DEF Drained
  <2>4. UNCHANGED <<revents, hangup, killed>>
    BY <1>5 DEF Drained
  <2>5. active' \in [Tunnels -> BOOLEAN]
    BY <2>3 DEF PumpTypes
  <2>6. ended' \in [Tunnels -> SUBSET Peers]
    BY <2>3 DEF PumpTypes
  <2>7. PumpTypes'
    BY <2>4, <2>5, <2>6 DEF PumpTypes
  <2> QED
    BY <2>2, <2>7
<1> QED
  BY <1>1, <1>2, <1>3, <1>4, <1>5

\* A step of a peer keeps the types.
LEMMA PeerKeepsTypes ==
  ASSUME Types, NEW t \in Tunnels, PeerStep(t)
  PROVE  Types'
<1> USE DEF Types
<1>1. PICK d \in Peers : Send(t, d) \/ Take(t, d) \/ Leave(t, d, "closed") \/ Leave(t, d, "reset")
  BY DEF PeerStep
<1>2. LookupTypes' /\ PumpTypes'
  BY <1>1 DEF Send, Take, Leave, LookupTypes, PumpTypes, lookup, pump
<1>3. CASE Send(t, d)
  <2>1. sent[t][d] + 1 \in Nat
    BY DEF NetTypes
  <2>2. Append(inbox[t][d], sent[t][d] + 1) \in Seq(Nat)
    BY <2>1 DEF NetTypes
  <2> QED
    BY <1>2, <1>3, <2>1, <2>2 DEF Send, NetTypes
<1>4. CASE Take(t, d)
  BY <1>2, <1>4 DEF Take, NetTypes
<1>5. ASSUME NEW how \in {"closed", "reset"}, Leave(t, d, how)
      PROVE  Types'
  BY <1>2, <1>5 DEF Leave, NetTypes
<1> QED
  BY <1>1, <1>3, <1>4, <1>5

-----------------------------------------------------------------------------
(* The certificates *)

\* The list is empty and every worker is about to lock it.
LEMMA InitCert == Init => CertInv
<1> SUFFICES ASSUME Init PROVE CertInv
  OBVIOUS
<1>1. SeekInv
  BY TunnelAssumption DEF Init, SeekInv
<1>2. DOMAIN cert_cache = {}
  BY DEF Init
<1>3. CacheInv
  BY <1>2 DEF Init, CacheInv, Cached
<1>4. UseInv
  BY DEF Init, UseInv
<1> QED
  BY <1>1, <1>3, <1>4 DEF CertInv

\* A new node adds its certificate to those of its name and to no others.
LEMMA InsertCached ==
  ASSUME Types, NEW node \in Nodes, cert_cache' = <<node>> \o cert_cache, NEW name
  PROVE  Cached(name)' = Cached(name) \cup (IF node.hostname = name THEN {node.cert} ELSE {})
<1>1. cert_cache \in Seq(Nodes) /\ <<node>> \in Seq(Nodes) /\ Len(<<node>>) = 1 /\ <<node>>[1] = node
  BY DEF Types, LookupTypes
<1>2. /\ Len(cert_cache') = 1 + Len(cert_cache)
      /\ \A i \in 1 .. 1 + Len(cert_cache) :
           cert_cache'[i] = IF i <= 1 THEN <<node>>[i] ELSE cert_cache[i - 1]
  BY <1>1, ConcatProperties
<1>3. cert_cache' \in Seq(Nodes)
  BY <1>1, ConcatProperties
<1>4. /\ Len(cert_cache) \in Nat
      /\ DOMAIN cert_cache = 1 .. Len(cert_cache)
      /\ DOMAIN cert_cache' = 1 .. 1 + Len(cert_cache)
  BY <1>1, <1>2, <1>3
<1>5. ASSUME NEW c \in Cached(name)'
      PROVE  c \in Cached(name) \/ (node.hostname = name /\ c = node.cert)
  <2>1. PICK i \in DOMAIN cert_cache' : cert_cache'[i].hostname = name /\ c = cert_cache'[i].cert
    BY <1>5 DEF Cached
  <2>2. i = 1 \/ i - 1 \in DOMAIN cert_cache
    BY <1>4, <2>1
  <2>3. CASE i = 1
    BY <1>1, <1>2, <1>4, <2>1, <2>3
  <2>4. CASE i - 1 \in DOMAIN cert_cache
    <3>1. i \in 1 .. 1 + Len(cert_cache) /\ ~(i <= 1)
      BY <1>4, <2>4
    <3>2. cert_cache'[i] = cert_cache[i - 1]
      BY <1>2, <3>1
    <3> QED
      BY <2>1, <2>4, <3>2 DEF Cached
  <2> QED
    BY <2>2, <2>3, <2>4
<1>6. ASSUME NEW c \in Cached(name)
      PROVE  c \in Cached(name)'
  <2>1. PICK i \in DOMAIN cert_cache : cert_cache[i].hostname = name /\ c = cert_cache[i].cert
    BY <1>6 DEF Cached
  <2>2. i + 1 \in DOMAIN cert_cache' /\ cert_cache'[i + 1] = cert_cache[i]
    BY <1>2, <1>4, <2>1
  <2> QED
    BY <2>1, <2>2 DEF Cached
<1>7. node.hostname = name => node.cert \in Cached(name)'
  <2>1. 1 \in DOMAIN cert_cache' /\ cert_cache'[1] = node
    BY <1>1, <1>2, <1>4
  <2> QED
    BY <2>1 DEF Cached
<1> QED
  BY <1>5, <1>6, <1>7

\* A step that leaves the list and the lookups alone, and moves no worker into or out
\* of the handshake, keeps the certificates as they are.
LEMMA OtherStepCert ==
  ASSUME Types, CertInv, UNCHANGED <<lookup>>,
         \A u \in Tunnels : stage'[u] = stage[u] \/ (stage[u] \notin {"cert", "accept", "done"}
                                                      /\ stage'[u] \notin {"cert", "accept", "done"})
  PROVE  CertInv'
<1>1. \A name : Cached(name)' = Cached(name)
  BY DEF Cached, lookup
<1>2. SeekInv'
  BY DEF CertInv, SeekInv, lookup
<1>3. CacheInv'
  BY <1>1 DEF CertInv, CacheInv, lookup
<1>4. UseInv'
  BY <1>1 DEF CertInv, UseInv, SeekInv, lookup
<1> QED
  BY <1>2, <1>3, <1>4 DEF CertInv

\* The mutex is taken.
LEMMA LockCert ==
  ASSUME Types, CertInv, NEW t \in Tunnels, Lock(t)
  PROVE  CertInv'
<1>1. \A name : Cached(name)' = Cached(name)
  BY DEF Cached, Lock
<1>2. SeekInv'
  BY TunnelAssumption DEF CertInv, SeekInv, Lock, Types, LookupTypes
<1>3. CacheInv'
  BY <1>1 DEF CertInv, CacheInv, Lock, Types, LookupTypes
<1>4. UseInv'
  BY <1>1 DEF CertInv, UseInv, Lock, Types, LookupTypes
<1> QED
  BY <1>2, <1>3, <1>4 DEF CertInv

\* A hit hands the certificate of the list to the worker, a miss keeps the mutex.
LEMMA SearchCert ==
  ASSUME Types, CertInv, NEW t \in Tunnels, Search(t)
  PROVE  CertInv'
<1>1. \A name : Cached(name)' = Cached(name)
  BY DEF Cached, Search
<1>2. cert_cache_mutex = t /\ asked[t] \in Hosts /\ stage[t] \in {"cert", "accept"}
  BY DEF CertInv, SeekInv, Search
<1>3. CASE \E c \in Cached(asked[t]) : Use(t, c) /\ cert_cache_mutex' = NULL
  <2>1. PICK c \in Cached(asked[t]) : Use(t, c) /\ cert_cache_mutex' = NULL
    BY <1>3
  <2>2. SeekInv'
    BY <1>2, <2>1, TunnelAssumption DEF CertInv, SeekInv, Search, Use, Types, LookupTypes
  <2>3. CacheInv'
    BY <1>1, <2>1 DEF CertInv, CacheInv, Search, Use, Types, LookupTypes
  <2>4. UseInv'
    BY <1>1, <1>2, <2>1 DEF CertInv, UseInv, Search, Use, Types, LookupTypes
  <2> QED
    BY <2>2, <2>3, <2>4 DEF CertInv
<1>4. CASE /\ Cached(asked[t]) = {}
           /\ seek' = [seek EXCEPT ![t] = "insert"]
           /\ UNCHANGED <<stage, cert, cert_cache_mutex>>
  <2>1. SeekInv'
    BY <1>2, <1>4 DEF CertInv, SeekInv, Search, Types, LookupTypes
  <2>2. CacheInv'
    BY <1>1, <1>4 DEF CertInv, CacheInv, Search, Types, LookupTypes
  <2>3. UseInv'
    BY <1>1, <1>4 DEF CertInv, UseInv, Search, Types, LookupTypes
  <2> QED
    BY <2>1, <2>2, <2>3 DEF CertInv
<1> QED
  BY <1>3, <1>4 DEF Search

\* A miss puts the first certificate of its name into the list: nobody else can have
\* done so since the search, because the mutex was kept.
LEMMA InsertCert ==
  ASSUME Types, CertInv, NEW t \in Tunnels, Insert(t)
  PROVE  CertInv'
<1> DEFINE new == [hostname |-> asked[t], id |-> generated + 1]
           node == [hostname |-> asked[t], cert |-> new]
<1>1. /\ cert_cache_mutex = t /\ asked[t] \in Hosts /\ stage[t] \in {"cert", "accept"}
      /\ Cached(asked[t]) = {}
  BY DEF CertInv, SeekInv, CacheInv, Insert
<1>2. cert_cache' = <<node>> \o cert_cache /\ Use(t, new)
  BY DEF Insert
<1>3. node.hostname = asked[t] /\ node.cert = new /\ new.hostname = asked[t] /\ node \in Nodes
  BY <1>1 DEF Nodes, Certs, Types, LookupTypes
<1> HIDE DEF new, node
<1>4. \A name : Cached(name)' = Cached(name) \cup (IF asked[t] = name THEN {new} ELSE {})
  BY <1>2, <1>3, InsertCached
<1>5. \A u \in Tunnels : u # t => seek[u] \notin {"search", "insert"}
  BY <1>1 DEF CertInv, SeekInv
<1>6. SeekInv'
  BY <1>1, <1>2, TunnelAssumption DEF CertInv, SeekInv, Insert, Use, Types, LookupTypes
<1>7. CacheInv'
  <2>1. \A i \in DOMAIN cert_cache' : cert_cache'[i].hostname \in Hosts
    BY <1>1, <1>2, <1>3 DEF CertInv, CacheInv, Types, LookupTypes
  <2>2. \A name \in Hosts : \A c, e \in Cached(name)' : c = e /\ c.hostname = name
    BY <1>1, <1>3, <1>4 DEF CertInv, CacheInv
  <2>3. \A u \in Tunnels : seek'[u] # "insert"
    BY <1>2, <1>5 DEF Use, Types, LookupTypes
  <2> QED
    BY <2>1, <2>2, <2>3 DEF CacheInv
<1>8. UseInv'
  BY <1>1, <1>2, <1>4 DEF CertInv, UseInv, Insert, Use, Types, LookupTypes
<1> QED
  BY <1>6, <1>7, <1>8 DEF CertInv

\* The client names a server, or not; the handshakes succeed.
LEMMA HandshakeCert ==
  ASSUME Types, CertInv, NEW t \in Tunnels,
         (\E name \in Hosts : ServerName(t, name)) \/ NoServerName(t) \/ Connected(t)
  PROVE  CertInv'
<1>1. UNCHANGED <<cert, cert_cache, cert_cache_mutex>>
  BY DEF ServerName, NoServerName, Connected, lookup
<1>2. \A name : Cached(name)' = Cached(name)
  BY <1>1 DEF Cached
<1>3. CASE \E name \in Hosts : ServerName(t, name)
  <2>1. SeekInv'
    BY <1>3 DEF CertInv, SeekInv, ServerName, Types, LookupTypes
  <2>2. CacheInv'
    BY <1>2, <1>3 DEF CertInv, CacheInv, ServerName, Types, LookupTypes
  <2>3. UseInv'
    BY <1>2, <1>3 DEF CertInv, UseInv, ServerName, Types, LookupTypes
  <2> QED
    BY <2>1, <2>2, <2>3 DEF CertInv
<1>4. CASE NoServerName(t) \/ Connected(t)
  <2>1. SeekInv'
    BY <1>4 DEF CertInv, SeekInv, NoServerName, Connected, lookup, Types, LookupTypes
  <2>2. CacheInv'
    BY <1>2, <1>4 DEF CertInv, CacheInv, NoServerName, Connected, lookup, Types, LookupTypes
  <2>3. UseInv'
    BY <1>2, <1>4 DEF CertInv, UseInv, NoServerName, Connected, lookup, Types, LookupTypes
  <2> QED
    BY <2>1, <2>2, <2>3 DEF CertInv
<1> QED
  BY <1>3, <1>4

\* HandleConnect returns: the list stays.
LEMMA ReturnCert ==
  ASSUME Types, CertInv, NEW t \in Tunnels, Return(t), seek[t] = "none"
  PROVE  CertInv'
<1>1. \A name : Cached(name)' = Cached(name)
  BY DEF Cached, Return
<1>2. SeekInv'
  BY DEF CertInv, SeekInv, Return, Types, LookupTypes
<1>3. CacheInv'
  BY <1>1 DEF CertInv, CacheInv, Return, Types, LookupTypes
<1>4. UseInv'
  BY <1>1 DEF CertInv, UseInv, Return, Types, LookupTypes
<1> QED
  BY <1>2, <1>3, <1>4 DEF CertInv

-----------------------------------------------------------------------------
(* The records *)

\* There are two peers.
LEMMA TwoPeers ==
  \A d \in Peers : /\ Other(d) \in Peers /\ Other(d) # d /\ Other(Other(d)) = d
                   /\ \A e \in Peers : e = d \/ e = Other(d)
  BY DEF Peers, Other

\* No record has been sent.
LEMMA InitPump == Init => PumpInv
<1> SUFFICES ASSUME Init, NEW t \in Tunnels, NEW d \in Peers
             PROVE  StreamInv(t, d) /\ RoomInv(t, d)
  BY DEF PumpInv
<1>1. /\ inbox[t][d] = <<>> /\ got[t][d] = <<>> /\ got[t][Other(d)] = <<>>
      /\ sent[t][d] = 0 /\ taken[t][d] = 0 /\ ended[t] = {}
  BY TwoPeers DEF Init
<1>2. StreamInv(t, d)
  BY <1>1 DEF StreamInv, Latest, Counted
<1>3. RoomInv(t, d)
  BY <1>1, TunnelAssumption DEF RoomInv, Peers
<1> QED
  BY <1>2, <1>3

\* A step that touches no record and none of the ghosts keeps the records as they are,
\* provided it does not take a tunnel that was cut back into its loop.
LEMMA QuietPump ==
  ASSUME PumpInv, UNCHANGED <<net, ended>>,
         \A u \in Tunnels, d \in Peers : Cut(u, d) => Cut(u, d)'
  PROVE  PumpInv'
<1> SUFFICES ASSUME NEW u \in Tunnels, NEW d \in Peers
             PROVE  StreamInv(u, d)' /\ RoomInv(u, d)'
  BY DEF PumpInv
<1>1. StreamInv(u, d) /\ RoomInv(u, d)
  BY DEF PumpInv
<1>2. StreamInv(u, d)'
  BY <1>1 DEF StreamInv, net
<1>3. RoomInv(u, d)'
  BY <1>1 DEF RoomInv, net
<1> QED
  BY <1>2, <1>3

\* While the handshakes run nothing has been cut.
LEMMA HandshakePump ==
  ASSUME Types, PumpInv, NEW t \in Tunnels, NEW s, UNCHANGED <<net, pump>>,
         stage' = [stage EXCEPT ![t] = s] \/ UNCHANGED stage,
         stage[t] \notin {"server", "check", "shutdown"}
  PROVE  PumpInv'
<1>1. \A u \in Tunnels, d \in Peers : Cut(u, d) => Cut(u, d)'
  BY DEF Cut, Types, LookupTypes, pump, Peers
<1> QED
  BY <1>1, QuietPump DEF pump

\* HandleConnect returns.
LEMMA ReturnPump ==
  ASSUME Types, PumpInv, NEW t \in Tunnels, Return(t)
  PROVE  PumpInv'
<1> SUFFICES ASSUME NEW u \in Tunnels, NEW d \in Peers
             PROVE  StreamInv(u, d)' /\ RoomInv(u, d)'
  BY DEF PumpInv
<1>1. CASE u = t
  <2>1. /\ inbox'[t][d] = <<>> /\ got'[t][d] = <<>> /\ got'[t][Other(d)] = <<>>
        /\ sent'[t][d] = 0 /\ taken'[t][d] = 0 /\ ended'[t] = {}
    BY TwoPeers DEF Return, Types, NetTypes, PumpTypes, Sockets, Counts
  <2>2. StreamInv(t, d)'
    BY <2>1 DEF StreamInv, Latest, Counted
  <2>3. RoomInv(t, d)'
    BY <2>1, TunnelAssumption DEF RoomInv, Peers
  <2> QED
    BY <1>1, <2>2, <2>3
<1>2. CASE u # t
  <2>1. StreamInv(u, d) /\ RoomInv(u, d)
    BY DEF PumpInv
  <2>2. /\ inbox'[u] = inbox[u] /\ got'[u] = got[u] /\ sent'[u] = sent[u] /\ taken'[u] = taken[u]
        /\ peer'[u] = peer[u] /\ ended'[u] = ended[u] /\ stage'[u] = stage[u]
        /\ active'[u] = active[u] /\ (u \in refused' <=> u \in refused)
    BY <1>2 DEF Return, Types, LookupTypes, NetTypes, PumpTypes
  <2>3. StreamInv(u, d)'
    BY <2>1, <2>2 DEF StreamInv, Cut
  <2>4. RoomInv(u, d)'
    BY <2>1, <2>2 DEF RoomInv
  <2> QED
    BY <2>3, <2>4
<1> QED
  BY <1>1, <1>2

\* The loop polls, and ends a round: a tunnel that was cut leaves the loop.
LEMMA RoundPump ==
  ASSUME Types, PumpInv, NEW t \in Tunnels, Poll(t) \/ CheckRound(t)
  PROVE  PumpInv'
<1>1. UNCHANGED <<net, active, ended, refused>>
  BY DEF Poll, CheckRound
<1>2. \A u \in Tunnels, d \in Peers : Cut(u, d) => Cut(u, d)'
  <2>1. CASE Poll(t)
    BY <1>1, <2>1 DEF Poll, Cut, Types, LookupTypes, Peers
  <2>2. CASE CheckRound(t)
    BY <1>1, <2>2 DEF CheckRound, Cut, Types, LookupTypes, Peers
  <2> QED
    BY <2>1, <2>2
<1> QED
  BY <1>1, <1>2, QuietPump

\* Nothing is left to read: the next part of the loop comes.
LEMMA DrainedPump ==
  ASSUME Types, PumpInv, NEW t \in Tunnels, NEW e \in Peers, Drained(t, e)
  PROVE  PumpInv'
<1>1. UNCHANGED <<net, refused>> /\ stage[t] = e /\ inbox[t][e] = <<>>
  BY DEF Drained
<1>2. \A u \in Tunnels : u # t => stage'[u] = stage[u] /\ active'[u] = active[u] /\ ended'[u] = ended[u]
  BY DEF Drained, Types, LookupTypes, PumpTypes
<1>3. stage'[t] = After(e, revents[t]) /\ (active'[t] => active[t])
  BY DEF Drained, Types, LookupTypes, PumpTypes
<1>4. \A u \in Tunnels, d \in Peers : Cut(u, d) => Cut(u, d)'
  BY <1>1, <1>2, <1>3 DEF Cut, Peers, After
<1>5. \A u \in Tunnels : ended'[u] = ended[u] \/ (u = t /\ ended'[u] = ended[u] \cup {e} /\ peer[t][e] # "open")
  BY DEF Drained, Types, PumpTypes
<1> SUFFICES ASSUME NEW u \in Tunnels, NEW d \in Peers
             PROVE  StreamInv(u, d)' /\ RoomInv(u, d)'
  BY DEF PumpInv
<1>6. StreamInv(u, d) /\ RoomInv(u, d)
  BY DEF PumpInv
<1>7. StreamInv(u, d)'
  BY <1>1, <1>4, <1>5, <1>6 DEF StreamInv, net
<1>8. RoomInv(u, d)'
  BY <1>1, <1>6 DEF RoomInv, net
<1> QED
  BY <1>7, <1>8

\* What is left of the latest records after the first one.
LEMMA LatestTail ==
  ASSUME NEW q \in Seq(Nat), q # <<>>, NEW n \in Nat, Latest(q, n)
  PROVE  /\ Len(q) \in Nat /\ Len(q) >= 1 /\ Head(q) \in Nat /\ Head(q) + Len(q) = n + 1
         /\ Tail(q) \in Seq(Nat) /\ Len(Tail(q)) = Len(q) - 1 /\ Latest(Tail(q), n)
<1>1. Len(q) \in Nat /\ Len(q) >= 1
  BY EmptySeq
<1>2. /\ Head(q) = q[1] /\ q[1] \in Nat
      /\ Tail(q) \in Seq(Nat) /\ Len(Tail(q)) = Len(q) - 1
      /\ \A i \in 1 .. Len(Tail(q)) : Tail(q)[i] = q[i + 1]
  BY <1>1, HeadTailProperties
<1>3. Latest(Tail(q), n)
  <2> SUFFICES ASSUME NEW i \in 1 .. Len(q) - 1
               PROVE  Tail(q)[i] + (Len(q) - 1) = n + i
    BY <1>2 DEF Latest
  <2>1. i + 1 \in 1 .. Len(q)
    BY <1>1
  <2>2. q[i + 1] \in Nat /\ q[i + 1] + Len(q) = n + (i + 1)
    BY <2>1 DEF Latest
  <2>3. Tail(q)[i] = q[i + 1]
    BY <1>2
  <2>4. PICK x, y : x = q[i + 1] /\ y = Len(q)
    OBVIOUS
  <2>5. x \in Nat /\ y \in Nat /\ i \in Nat /\ x + y = n + (i + 1)
    BY <1>1, <2>2, <2>4
  <2>6. x + (y - 1) = n + i
    BY <2>5
  <2> QED
    BY <2>3, <2>4, <2>6
<1>4. Head(q) + Len(q) = n + 1
  BY <1>1, <1>2 DEF Latest
<1> QED
  BY <1>1, <1>2, <1>3, <1>4

\* A record that joins the latest ones.
LEMMA LatestAppend ==
  ASSUME NEW q \in Seq(Nat), NEW n \in Nat, Latest(q, n)
  PROVE  /\ Append(q, n + 1) \in Seq(Nat) /\ Len(Append(q, n + 1)) = Len(q) + 1
         /\ Len(q) \in Nat /\ Append(q, n + 1) # <<>> /\ Latest(Append(q, n + 1), n + 1)
<1> DEFINE r == Append(q, n + 1)
<1>1. /\ r \in Seq(Nat) /\ Len(r) = Len(q) + 1 /\ Len(q) \in Nat
      /\ \A i \in 1 .. Len(q) : r[i] = q[i]
      /\ r[Len(q) + 1] = n + 1
  BY AppendProperties
<1>2. \A i \in 1 .. Len(q) : q[i] \in Nat
  OBVIOUS
<1> HIDE DEF r
<1>3. Latest(r, n + 1)
  <2> SUFFICES ASSUME NEW i \in 1 .. Len(q) + 1
               PROVE  r[i] + (Len(q) + 1) = (n + 1) + i
    BY <1>1 DEF Latest
  <2>1. CASE i = Len(q) + 1
    BY <1>1, <2>1
  <2>2. CASE i # Len(q) + 1
    <3>1. i \in 1 .. Len(q)
      BY <1>1, <2>2
    <3>2. r[i] \in Nat /\ r[i] + Len(q) = n + i
      BY <1>1, <1>2, <3>1 DEF Latest
    <3> QED
      BY <1>1, <3>2
  <2> QED
    BY <2>1, <2>2
<1>4. r # <<>>
  BY <1>1
<1> QED
  BY <1>1, <1>3, <1>4 DEF r

\* The next number joins the numbers from 1 on.
LEMMA CountedAppend ==
  ASSUME NEW q \in Seq(Nat), Counted(q)
  PROVE  /\ Len(q) \in Nat /\ Len(Append(q, Len(q) + 1)) = Len(q) + 1
         /\ Counted(Append(q, Len(q) + 1))
<1> DEFINE r == Append(q, Len(q) + 1)
<1>1. Len(q) \in Nat
  OBVIOUS
<1>2. /\ Len(r) = Len(q) + 1
      /\ \A i \in 1 .. Len(q) : r[i] = q[i]
      /\ r[Len(q) + 1] = Len(q) + 1
  BY <1>1, AppendProperties
<1> HIDE DEF r
<1>3. Counted(r)
  <2> SUFFICES ASSUME NEW i \in 1 .. Len(q) + 1
               PROVE  r[i] = i
    BY <1>2 DEF Counted
  <2>1. i = Len(q) + 1 \/ i \in 1 .. Len(q)
    BY <1>1
  <2> QED
    BY <1>2, <2>1 DEF Counted
<1> QED
  BY <1>1, <1>2, <1>3 DEF r

\* The record that is forwarded is the one after the last that the receiver got.
LEMMA ForwardPump ==
  ASSUME Types, PumpInv, NEW t \in Tunnels, NEW e \in Peers, Forward(t, e)
  PROVE  PumpInv'
<1> DEFINE o == Other(e)
           q == inbox[t][e]
           g == got[t][o]
           n == sent[t][e]
<1>1. UNCHANGED <<stage, sent, taken, active, ended, refused>> /\ stage[t] = e /\ q # <<>>
  BY DEF Forward, pump
<1>2. o \in Peers /\ o # e /\ q \in Seq(Nat) /\ g \in Seq(Nat) /\ n \in Nat /\ taken[t][o] \in Nat
  BY TwoPeers DEF Types, NetTypes
<1>3. /\ inbox'[t][e] = Tail(q)
      /\ \A u \in Tunnels, d \in Peers : <<u, d>> # <<t, e>> => inbox'[u][d] = inbox[u][d]
  BY DEF Forward, Types, NetTypes
<1>4. \A u \in Tunnels, d \in Peers : Cut(u, d)' = Cut(u, d)
  BY <1>1 DEF Cut
<1>5. ~Cut(t, e)
  BY <1>1 DEF Cut, Peers
<1>6. /\ Latest(q, n) /\ Counted(g) /\ Len(g) + Len(q) <= n /\ e \notin ended[t]
      /\ peer[t][o] = "open" => Len(g) + Len(q) = n
      /\ taken[t][o] <= Len(g) /\ sent[t][o] <= MaxSend[o]
  BY <1>1, <1>2, <1>5 DEF PumpInv, StreamInv, RoomInv
<1>7. /\ Len(q) \in Nat /\ Len(q) >= 1 /\ Head(q) \in Nat /\ Head(q) + Len(q) = n + 1
      /\ Len(Tail(q)) = Len(q) - 1 /\ Latest(Tail(q), n) /\ Len(g) \in Nat
  <2>1. q \in Seq(Nat) /\ q # <<>> /\ n \in Nat /\ Latest(q, n) /\ Len(g) \in Nat
    BY <1>1, <1>2, <1>6
  <2> HIDE DEF q, n, g
  <2> QED
    BY <2>1, LatestTail
<1>8. CASE /\ peer[t][o] = "open" /\ Len(g) < taken[t][o] + SendRoom
           /\ got' = [got EXCEPT ![t][o] = Append(@, Head(q))]
           /\ UNCHANGED peer
  <2>1. /\ got'[t][o] = Append(g, Head(q))
        /\ \A u \in Tunnels, d \in Peers : <<u, d>> # <<t, o>> => got'[u][d] = got[u][d]
    BY <1>2, <1>8 DEF Types, NetTypes
  <2>2. Head(q) = Len(g) + 1
    <3> HIDE DEF q, g, n
    <3> QED
      BY <1>2, <1>6, <1>7, <1>8
  <2>3. Len(got'[t][o]) = Len(g) + 1 /\ Counted(got'[t][o])
    BY <1>2, <1>6, <2>1, <2>2, CountedAppend
  <2>4. /\ Len(got'[t][o]) + Len(inbox'[t][e]) = n
        /\ Len(got'[t][o]) + Len(inbox'[t][e]) <= n
    <3>1. Len(g) + Len(q) = n
      BY <1>6, <1>8
    <3>2. Len(got'[t][o]) = Len(g) + 1 /\ Len(inbox'[t][e]) = Len(q) - 1
      BY <1>3, <1>7, <2>3
    <3>3. Len(q) \in Nat /\ Len(g) \in Nat /\ n \in Nat
      BY <1>2, <1>7
    <3> HIDE DEF q, g, n
    <3> QED
      BY <3>1, <3>2, <3>3
  <2>5. StreamInv(t, e)'
    <3>1. sent'[t][e] = n /\ e \notin ended'[t]
      BY <1>1, <1>6
    <3>2. Latest(inbox'[t][e], n)
      BY <1>3, <1>7
    <3> QED
      BY <2>3, <2>4, <3>1, <3>2 DEF StreamInv
  <2>6. RoomInv(t, o)'
    <3>1. taken'[t][o] = taken[t][o] /\ sent'[t][o] = sent[t][o]
      BY <1>1
    <3>2. taken[t][o] <= Len(g) + 1 /\ Len(g) + 1 <= taken[t][o] + SendRoom
      <4> HIDE DEF g
      <4> QED
        BY <1>2, <1>6, <1>7, <1>8, TunnelAssumption
    <3> QED
      BY <1>6, <2>3, <3>1, <3>2 DEF RoomInv
  <2>7. ASSUME NEW u \in Tunnels, NEW d \in Peers
        PROVE  StreamInv(u, d)' /\ RoomInv(u, d)'
    <3>1. StreamInv(u, d) /\ RoomInv(u, d)
      BY DEF PumpInv
    <3>2. <<u, d>> # <<t, e>> => StreamInv(u, d)'
      <4>1. <<u, d>> # <<t, e>> => inbox'[u][d] = inbox[u][d] /\ got'[u][Other(d)] = got[u][Other(d)]
        BY <1>3, <2>1, TwoPeers
      <4> QED
        BY <1>1, <1>4, <1>8, <3>1, <4>1 DEF StreamInv
    <3>3. <<u, d>> # <<t, o>> => RoomInv(u, d)'
      BY <1>1, <2>1, <3>1 DEF RoomInv
    <3> QED
      BY <2>5, <2>6, <3>2, <3>3
  <2> QED
    BY <2>7 DEF PumpInv
<1>9. CASE /\ peer[t][o] = "closed"
           /\ peer' = [peer EXCEPT ![t][o] = "reset"]
           /\ UNCHANGED got
  <2>1. /\ peer'[t][o] = "reset"
        /\ \A u \in Tunnels, d \in Peers : <<u, d>> # <<t, o>> => peer'[u][d] = peer[u][d]
    BY <1>2, <1>9 DEF Types, NetTypes
  <2>2. Len(g) + Len(Tail(q)) <= n
    <3> HIDE DEF q, g, n
    <3> QED
      BY <1>2, <1>6, <1>7
  <2>3. StreamInv(t, e)'
    BY <1>1, <1>3, <1>6, <1>7, <1>9, <2>1, <2>2 DEF StreamInv
  <2>4. ASSUME NEW u \in Tunnels, NEW d \in Peers
        PROVE  StreamInv(u, d)' /\ RoomInv(u, d)'
    <3>1. StreamInv(u, d) /\ RoomInv(u, d)
      BY DEF PumpInv
    <3>2. <<u, d>> # <<t, e>> => StreamInv(u, d)'
      <4>1. <<u, d>> # <<t, e>> => /\ inbox'[u][d] = inbox[u][d]
                                   /\ peer'[u][Other(d)] = peer[u][Other(d)]
                                   /\ (peer[u][d] # "open" => peer'[u][d] # "open")
        BY <1>3, <2>1, TwoPeers
      <4> QED
        BY <1>1, <1>4, <1>9, <3>1, <4>1 DEF StreamInv
    <3>3. RoomInv(u, d)'
      BY <1>1, <1>9, <3>1 DEF RoomInv
    <3> QED
      BY <2>3, <3>2, <3>3
  <2> QED
    BY <2>4 DEF PumpInv
<1> QED
  BY <1>8, <1>9 DEF Forward

\* A refused write loses a record, but the tunnel does not come back for another one.
LEMMA RefusedPump ==
  ASSUME Types, PumpInv, NEW t \in Tunnels, NEW e \in Peers, WriteRefused(t, e)
  PROVE  PumpInv'
<1> DEFINE q == inbox[t][e]
           g == got[t][Other(e)]
           n == sent[t][e]
<1>1. UNCHANGED <<peer, sent, got, taken, ended>> /\ stage[t] = e /\ q # <<>>
  BY DEF WriteRefused
<1>2. q \in Seq(Nat) /\ g \in Seq(Nat) /\ n \in Nat
  BY TwoPeers DEF Types, NetTypes
<1>3. /\ inbox'[t][e] = Tail(q)
      /\ \A u \in Tunnels, d \in Peers : <<u, d>> # <<t, e>> => inbox'[u][d] = inbox[u][d]
  BY DEF WriteRefused, Types, NetTypes
<1>4. Latest(q, n) /\ Counted(g) /\ Len(g) + Len(q) <= n /\ e \notin ended[t]
  BY <1>1 DEF PumpInv, StreamInv
<1>5. /\ Len(q) \in Nat /\ Len(q) >= 1 /\ Len(Tail(q)) = Len(q) - 1 /\ Latest(Tail(q), n)
      /\ Len(g) \in Nat
  BY <1>1, <1>2, <1>4, LatestTail
<1>6. /\ stage'[t] = After(e, revents[t]) /\ ~active'[t] /\ t \in refused'
      /\ \A u \in Tunnels : u # t => /\ stage'[u] = stage[u] /\ active'[u] = active[u]
                                     /\ (u \in refused' <=> u \in refused)
  BY DEF WriteRefused, Types, LookupTypes, PumpTypes
<1>7. \A u \in Tunnels, d \in Peers : Cut(u, d) => Cut(u, d)'
  BY <1>1, <1>6 DEF Cut, Peers, After
<1>8. Cut(t, e)'
  BY <1>6 DEF Cut, Peers, After
<1>9. StreamInv(t, e)'
  <2>1. Len(g) + Len(Tail(q)) <= n
    <3> HIDE DEF q, g, n
    <3> QED
      BY <1>2, <1>4, <1>5
  <2> QED
    BY <1>1, <1>3, <1>4, <1>5, <1>8, <2>1 DEF StreamInv
<1>10. ASSUME NEW u \in Tunnels, NEW d \in Peers
       PROVE  StreamInv(u, d)' /\ RoomInv(u, d)'
  <2>1. StreamInv(u, d) /\ RoomInv(u, d)
    BY DEF PumpInv
  <2>2. <<u, d>> # <<t, e>> => StreamInv(u, d)'
    BY <1>1, <1>3, <1>7, <2>1 DEF StreamInv
  <2>3. RoomInv(u, d)'
    BY <1>1, <2>1 DEF RoomInv
  <2> QED
    BY <1>9, <2>2, <2>3
<1> QED
  BY <1>10 DEF PumpInv

\* A peer sends a record, which joins the end of its queue.
LEMMA SendPump ==
  ASSUME Types, PumpInv, NEW t \in Tunnels, NEW e \in Peers, Send(t, e)
  PROVE  PumpInv'
<1> DEFINE q == inbox[t][e]
           g == got[t][Other(e)]
           n == sent[t][e]
<1>1. /\ UNCHANGED <<stage, peer, got, taken, active, ended, refused>>
      /\ peer[t][e] = "open" /\ n < MaxSend[e]
  BY DEF Send, pump
<1>2. q \in Seq(Nat) /\ g \in Seq(Nat) /\ n \in Nat /\ MaxSend[e] \in Nat
  BY TwoPeers, TunnelAssumption DEF Types, NetTypes, Peers
<1>3. /\ inbox'[t][e] = Append(q, n + 1) /\ sent'[t][e] = n + 1
      /\ \A u \in Tunnels, d \in Peers :
           <<u, d>> # <<t, e>> => inbox'[u][d] = inbox[u][d] /\ sent'[u][d] = sent[u][d]
  BY DEF Send, Types, NetTypes
<1>4. \A u \in Tunnels, d \in Peers : Cut(u, d)' = Cut(u, d)
  BY <1>1 DEF Cut
<1>5. /\ Latest(q, n) /\ Counted(g) /\ Len(g) + Len(q) <= n /\ e \notin ended[t]
      /\ peer[t][Other(e)] = "open" /\ ~Cut(t, e) => Len(g) + Len(q) = n
  BY <1>1 DEF PumpInv, StreamInv
<1>6. Latest(inbox'[t][e], n + 1) /\ Len(inbox'[t][e]) = Len(q) + 1 /\ Len(q) \in Nat /\ Len(g) \in Nat
  BY <1>2, <1>3, <1>5, LatestAppend
<1>7. StreamInv(t, e)'
  <2>1. /\ Len(g) + (Len(q) + 1) <= n + 1
        /\ Len(g) + Len(q) = n => Len(g) + (Len(q) + 1) = n + 1
    <3> HIDE DEF q, g, n
    <3> QED
      BY <1>2, <1>5, <1>6
  <2> QED
    BY <1>1, <1>3, <1>4, <1>5, <1>6, <2>1 DEF StreamInv
<1>8. ASSUME NEW u \in Tunnels, NEW d \in Peers
      PROVE  StreamInv(u, d)' /\ RoomInv(u, d)'
  <2>1. StreamInv(u, d) /\ RoomInv(u, d)
    BY DEF PumpInv
  <2>2. <<u, d>> # <<t, e>> => StreamInv(u, d)'
    BY <1>1, <1>3, <1>4, <2>1 DEF StreamInv
  <2>3. sent'[u][d] <= MaxSend[d]
    BY <1>1, <1>2, <1>3, <2>1 DEF RoomInv
  <2>4. RoomInv(u, d)'
    BY <1>1, <2>1, <2>3 DEF RoomInv
  <2> QED
    BY <1>7, <2>2, <2>4
<1> QED
  BY <1>8 DEF PumpInv

\* A peer takes a record from its socket, or leaves.
LEMMA LeavePump ==
  ASSUME Types, PumpInv, NEW t \in Tunnels, NEW e \in Peers,
         Take(t, e) \/ Leave(t, e, "closed") \/ Leave(t, e, "reset")
  PROVE  PumpInv'
<1>1. UNCHANGED <<stage, sent, inbox, got, active, ended, refused>>
  BY DEF Take, Leave, pump
<1>2. /\ peer' = peer \/ (peer[t][e] = "open" /\ \E how \in {"closed", "reset"} :
                             peer' = [peer EXCEPT ![t][e] = how])
      /\ taken' = taken \/ (taken[t][e] < Len(got[t][e])
                             /\ taken' = [taken EXCEPT ![t][e] = taken[t][e] + 1])
  BY DEF Take, Leave
<1>3. ASSUME NEW u \in Tunnels, NEW d \in Peers
      PROVE  peer'[u][d] = peer[u][d] \/ (peer[u][d] = "open" /\ peer'[u][d] # "open")
  <2>1. CASE <<u, d>> = <<t, e>>
    BY <1>2, <2>1 DEF Types, NetTypes
  <2>2. CASE <<u, d>> # <<t, e>>
    BY <1>2, <2>2 DEF Types, NetTypes
  <2> QED
    BY <2>1, <2>2
<1>4. ASSUME NEW u \in Tunnels, NEW d \in Peers
      PROVE  \/ taken'[u][d] = taken[u][d]
             \/ (taken[u][d] < Len(got[u][d]) /\ taken'[u][d] = taken[u][d] + 1)
  <2>1. CASE <<u, d>> = <<t, e>>
    BY <1>2, <2>1 DEF Types, NetTypes
  <2>2. CASE <<u, d>> # <<t, e>>
    <3>1. taken \in [Tunnels -> [Peers -> Nat]]
      BY DEF Types, NetTypes
    <3>2. taken' = taken \/ taken' = [taken EXCEPT ![t][e] = taken[t][e] + 1]
      BY <1>2
    <3>3. taken'[u][d] = taken[u][d]
      BY <2>2, <3>1, <3>2
    <3> QED
      BY <3>3
  <2> QED
    BY <2>1, <2>2
<1>5. \A u \in Tunnels, d \in Peers : Cut(u, d)' = Cut(u, d)
  BY <1>1 DEF Cut
<1>6. ASSUME NEW u \in Tunnels, NEW d \in Peers
      PROVE  StreamInv(u, d)' /\ RoomInv(u, d)'
  <2>1. StreamInv(u, d) /\ RoomInv(u, d)
    BY DEF PumpInv
  <2>2. peer'[u][Other(d)] = "open" => peer[u][Other(d)] = "open"
    BY <1>3, TwoPeers
  <2>3. peer[u][d] # "open" => peer'[u][d] # "open"
    BY <1>3
  <2>4. StreamInv(u, d)'
    BY <1>1, <1>5, <2>1, <2>2, <2>3 DEF StreamInv
  <2>5. taken[u][d] \in Nat /\ Len(got[u][d]) \in Nat
    BY DEF Types, NetTypes
  <2>6. taken'[u][d] <= Len(got[u][d]) /\ Len(got[u][d]) <= taken'[u][d] + SendRoom
    <3>1. taken[u][d] <= Len(got[u][d]) /\ Len(got[u][d]) <= taken[u][d] + SendRoom
      BY <2>1 DEF RoomInv
    <3>2. SendRoom \in Nat
      BY TunnelAssumption
    <3>3. PICK x, y, z : x = taken[u][d] /\ y = taken'[u][d] /\ z = Len(got[u][d])
      OBVIOUS
    <3>4. y = x \/ (x < z /\ y = x + 1)
      BY <1>4, <3>3
    <3>5. x \in Nat /\ z \in Nat /\ x <= z /\ z <= x + SendRoom
      BY <2>5, <3>1, <3>3
    <3>6. y <= z /\ z <= y + SendRoom
      BY <3>2, <3>4, <3>5
    <3> QED
      BY <3>3, <3>6
  <2>7. RoomInv(u, d)'
    BY <1>1, <2>1, <2>6 DEF RoomInv
  <2> QED
    BY <2>4, <2>7
<1> QED
  BY <1>6 DEF PumpInv

-----------------------------------------------------------------------------
(* Every step, and what follows *)

\* A worker's step up to the loop keeps the invariant.
LEMMA HandshakeStep ==
  ASSUME TunnelInv, NEW t \in Tunnels, Handshake(t)
  PROVE  TunnelInv'
<1> USE DEF TunnelInv
<1>1. \A s : s \notin {"server", "check", "shutdown"} \/ s \in PumpStages
  BY DEF PumpStages
<1>2. seek[t] # "none" => stage[t] \in {"cert", "accept"}
  BY DEF CertInv, SeekInv
<1>3. CASE Lock(t) \/ Search(t) \/ Insert(t)
  <2>1. Types' /\ CertInv'
    BY <1>3, LookupKeepsTypes, LockCert, SearchCert, InsertCert
  <2>2. UNCHANGED <<net, pump>> /\ seek[t] # "none"
    BY <1>3 DEF Lock, Search, Insert
  <2>3. \E s : stage' = [stage EXCEPT ![t] = s] \/ UNCHANGED stage
    BY <1>3 DEF Lock, Search, Insert, Use
  <2>4. PumpInv'
    BY <1>2, <2>2, <2>3, HandshakePump
  <2> QED
    BY <2>1, <2>4
<1>4. CASE (\E name \in Hosts : ServerName(t, name)) \/ NoServerName(t) \/ Connected(t)
  <2>1. Types' /\ CertInv'
    BY <1>4, LookupKeepsTypes, HandshakeCert
  <2>2. UNCHANGED <<net, pump>> /\ stage[t] \in {"accept", "connect"}
    BY <1>4 DEF ServerName, NoServerName, Connected
  <2>3. \E s : stage' = [stage EXCEPT ![t] = s] \/ UNCHANGED stage
    BY <1>4 DEF ServerName, NoServerName, Connected
  <2>4. PumpInv'
    BY <2>2, <2>3, HandshakePump
  <2> QED
    BY <2>1, <2>4
<1>5. CASE HandshakeFails(t) \/ Http2Returns(t)
  <2>1. Return(t) /\ killed' = killed /\ seek[t] = "none"
    BY <1>5 DEF HandshakeFails, Http2Returns, CertInv, SeekInv
  <2>2. killed' \in BOOLEAN
    BY <2>1 DEF Types, PumpTypes
  <2> QED
    BY <2>1, <2>2, ReturnKeepsTypes, ReturnCert, ReturnPump
<1> QED
  BY <1>3, <1>4, <1>5 DEF Handshake

\* A step of the loop keeps the invariant.
LEMMA PumpStepInv ==
  ASSUME TunnelInv, NEW t \in Tunnels, PumpStep(t)
  PROVE  TunnelInv'
<1> USE DEF TunnelInv
<1>1. CASE Shutdown(t)
  <2>1. Return(t) /\ killed' \in BOOLEAN /\ seek[t] = "none"
    BY <1>1 DEF Shutdown, CertInv, SeekInv, Types, PumpTypes
  <2> QED
    BY <2>1, ReturnKeepsTypes, ReturnCert, ReturnPump
<1>2. CASE Poll(t) \/ CheckRound(t)
           \/ (\E d \in Peers : Forward(t, d) \/ WriteRefused(t, d) \/ Drained(t, d))
  <2>1. Types' /\ PumpInv'
    BY <1>2, PumpKeepsTypes, RoundPump, ForwardPump, RefusedPump, DrainedPump
  <2>2. UNCHANGED <<lookup>> /\ stage[t] \in {"poll", "check", "client", "server"}
    BY <1>2 DEF Poll, CheckRound, Forward, WriteRefused, Drained, Peers
  <2>3. UNCHANGED stage \/ \E s \in {"poll", "check", "client", "server", "shutdown"} :
                              stage' = [stage EXCEPT ![t] = s]
    BY <1>2, AfterType DEF Poll, CheckRound, Forward, WriteRefused, Drained
  <2>4. CertInv'
    BY <2>2, <2>3, OtherStepCert DEF Types, LookupTypes
  <2> QED
    BY <2>1, <2>4
<1> QED
  BY <1>1, <1>2 DEF PumpStep

\* A step of a peer keeps the invariant.
LEMMA PeerStepInv ==
  ASSUME TunnelInv, NEW t \in Tunnels, PeerStep(t)
  PROVE  TunnelInv'
<1> USE DEF TunnelInv
<1>1. UNCHANGED <<lookup, stage>>
  BY DEF PeerStep, Send, Take, Leave
<1>2. CertInv'
  BY <1>1, OtherStepCert
<1>3. PumpInv'
  BY SendPump, LeavePump DEF PeerStep
<1> QED
  BY <1>2, <1>3, PeerKeepsTypes

\* Every step keeps the invariant.
LEMMA NextTunnel == TunnelInv /\ [Next]_vars => TunnelInv'
<1> SUFFICES ASSUME TunnelInv, [Next]_vars PROVE TunnelInv'
  OBVIOUS
<1>1. CASE Next
  BY <1>1, HandshakeStep, PumpStepInv, PeerStepInv DEF Next
<1>2. CASE UNCHANGED vars
  <2>1. UNCHANGED <<lookup, net, stage, killed, revents, hangup, active, ended, refused>>
    BY <1>2 DEF vars, pump
  <2>2. Types'
    BY <2>1 DEF TunnelInv, Types, LookupTypes, NetTypes, PumpTypes, lookup, net
  <2>3. CertInv'
    BY <2>1, OtherStepCert DEF TunnelInv
  <2>4. PumpInv'
    BY <2>1, QuietPump DEF TunnelInv, Cut
  <2> QED
    BY <2>2, <2>3, <2>4 DEF TunnelInv
<1> QED
  BY <1>1, <1>2

\* Every reachable state satisfies the invariant.
LEMMA TunnelInvariant == Spec => []TunnelInv
<1>1. Init => TunnelInv
  BY InitTypes, InitCert, InitPump DEF TunnelInv
<1>2. TunnelInv /\ [Next]_vars => TunnelInv'
  BY NextTunnel
<1> QED
  BY <1>1, <1>2, PTL DEF Spec

\* The variables of HandleConnect keep their types, and a send buffer its size.
THEOREM TunnelTypeCorrect == Spec => []TypeOK
<1>1. TunnelInv => TypeOK
  <2> SUFFICES ASSUME TunnelInv PROVE TypeOK
    OBVIOUS
  <2>1. \A i \in DOMAIN cert_cache : cert_cache[i].hostname \in Hosts
    BY DEF TunnelInv, CertInv, CacheInv
  <2>2. ASSUME NEW t \in Tunnels, NEW d \in Peers
        PROVE  /\ taken[t][d] <= Len(got[t][d]) /\ Len(got[t][d]) <= taken[t][d] + SendRoom
               /\ Len(inbox[t][d]) <= sent[t][d] /\ sent[t][d] <= MaxSend[d]
    <3>1. RoomInv(t, d) /\ Len(got[t][Other(d)]) + Len(inbox[t][d]) <= sent[t][d]
      BY DEF TunnelInv, PumpInv, StreamInv
    <3>2. got[t][Other(d)] \in Seq(Nat) /\ inbox[t][d] \in Seq(Nat) /\ sent[t][d] \in Nat
      BY TwoPeers DEF TunnelInv, Types, NetTypes
    <3>3. Len(got[t][Other(d)]) \in Nat /\ Len(inbox[t][d]) \in Nat
      BY <3>2
    <3>4. Len(inbox[t][d]) <= sent[t][d]
      <4> DEFINE a == Len(got[t][Other(d)])
                 b == Len(inbox[t][d])
                 c == sent[t][d]
      <4>1. a \in Nat /\ b \in Nat /\ c \in Nat /\ a + b <= c
        BY <3>1, <3>2, <3>3
      <4> HIDE DEF a, b, c
      <4>2. b <= c
        BY <4>1
      <4> QED
        BY <4>2 DEF b, c
    <3> QED
      BY <3>1, <3>4 DEF RoomInv
  <2> QED
    BY <2>1, <2>2 DEF TunnelInv, Types, LookupTypes, NetTypes, PumpTypes, TypeOK
<1> QED
  BY <1>1, TunnelInvariant, PTL

\* However the lookups of the tunnels overlap, clients that ask for the same name are
\* shown the same certificate, and it bears the name they asked for.
THEOREM CertsAgree == Spec => []CertAgreement
<1>1. TunnelInv => CertAgreement
  <2> SUFFICES ASSUME TunnelInv, NEW t \in Tunnels, NEW u \in Tunnels, Presented(t), Presented(u)
               PROVE  cert[t].hostname = asked[t] /\ (asked[t] = asked[u] => cert[t] = cert[u])
    BY DEF CertAgreement
  <2>1. seek[t] = "none" /\ seek[u] = "none"
    BY DEF TunnelInv, CertInv, SeekInv, Presented
  <2>2. /\ asked[t] \in Hosts /\ cert[t] \in Cached(asked[t])
        /\ asked[u] \in Hosts /\ cert[u] \in Cached(asked[u])
    BY <2>1 DEF TunnelInv, CertInv, UseInv, Presented
  <2> QED
    BY <2>2 DEF TunnelInv, CertInv, CacheInv
<1> QED
  BY <1>1, TunnelInvariant, PTL

\* What a peer gets is a beginning of what the other one has sent, without a gap,
\* whatever is refused, closed or reset on the way.
THEOREM TunnelNoGap == Spec => []NoGap
<1>1. TunnelInv => NoGap
  <2> SUFFICES ASSUME TunnelInv, NEW t \in Tunnels, NEW d \in Peers
               PROVE  /\ got[t][d] = [i \in 1..Len(got[t][d]) |-> i]
                      /\ Len(got[t][d]) <= sent[t][Other(d)]
    BY DEF NoGap
  <2>1. Other(d) \in Peers /\ Other(Other(d)) = d
    BY TwoPeers
  <2>2. Counted(got[t][d]) /\ Len(got[t][d]) + Len(inbox[t][Other(d)]) <= sent[t][Other(d)]
    BY <2>1 DEF TunnelInv, PumpInv, StreamInv
  <2>3. got[t][d] \in Seq(Nat) /\ inbox[t][Other(d)] \in Seq(Nat) /\ sent[t][Other(d)] \in Nat
    BY <2>1 DEF TunnelInv, Types, NetTypes
  <2>4. Len(got[t][d]) \in Nat /\ Len(inbox[t][Other(d)]) \in Nat
    BY <2>3
  <2>5. got[t][d] = [i \in 1..Len(got[t][d]) |-> i]
    <3> DEFINE g == got[t][d]
    <3>1. g = [i \in 1..Len(g) |-> g[i]]
      BY <2>3
    <3> QED
      BY <2>2, <3>1 DEF Counted
  <2>6. Len(got[t][d]) <= sent[t][Other(d)]
    <3> DEFINE a == Len(got[t][d])
               b == Len(inbox[t][Other(d)])
               c == sent[t][Other(d)]
    <3>1. a \in Nat /\ b \in Nat /\ c \in Nat /\ a + b <= c
      BY <2>2, <2>3, <2>4
    <3> HIDE DEF a, b, c
    <3>2. a <= c
      BY <3>1
    <3> QED
      BY <3>2 DEF a, c
  <2> QED
    BY <2>5, <2>6
<1> QED
  BY <1>1, TunnelInvariant, PTL

\* A tunnel that ends because one peer has left has passed on all that peer had sent.
THEOREM TunnelLastWords == Spec => []LastWordsDelivered
<1>1. TunnelInv => LastWordsDelivered
  <2> SUFFICES ASSUME TunnelInv, NEW t \in Tunnels, NEW d \in Peers, d \in ended[t], t \notin refused,
                      peer[t][Other(d)] = "open"
               PROVE  Len(got[t][Other(d)]) = sent[t][d]
    BY DEF LastWordsDelivered
  <2>1. inbox[t][d] = <<>> /\ Len(got[t][Other(d)]) + Len(inbox[t][d]) = sent[t][d]
    BY DEF TunnelInv, PumpInv, StreamInv, Cut
  <2>2. got[t][Other(d)] \in Seq(Nat)
    BY TwoPeers DEF TunnelInv, Types, NetTypes
  <2> QED
    BY <2>1, <2>2
<1> QED
  BY <1>1, TunnelInvariant, PTL
=============================================================================
