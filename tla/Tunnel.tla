------------------------------- MODULE Tunnel -------------------------------
(***************************************************************************)
(* HandleConnect of tls_tunnel.c after the end server has been reached     *)
(* (ProxyServer models how it is reached, and what its failure means to    *)
(* the worker): the certificate for the client from the cache the tunnels  *)
(* share, the two handshakes, and the loop that pumps records between two  *)
(* non-blocking sockets.  A client that negotiates h2 is handed to         *)
(* handle_http2_connection, the subject of Http2.                          *)
(*                                                                         *)
(* A record is its number; a socket has room for SendRoom records that its *)
(* peer has not taken.  The peers, the kernel and OpenSSL are external.    *)
(***************************************************************************)
EXTENDS Naturals, Sequences, FiniteSets, SequencesExt

CONSTANTS
  Tunnels,
  H2Clients,      \* tunnels whose client negotiates h2
  Hosts,          \* host names
  host,           \* the host of each CONNECT request
  MaxSend,        \* bound: records either peer sends
  SendRoom,       \* records a send buffer holds
  NULL

ASSUME TunnelAssumption ==
  /\ H2Clients \subseteq Tunnels
  /\ host \in [Tunnels -> Hosts]
  /\ MaxSend \in [{"client", "server"} -> Nat] /\ SendRoom \in Nat \ {0}
  /\ NULL \notin Hosts \cup Tunnels

Peers == {"client", "server"}

Other(d) == IF d = "client" THEN "server" ELSE "client"

default_x509 == [hostname |-> "localhost", id |-> 0]

VARIABLES
  stage,          \* where the worker of each tunnel is
  asked,          \* the name looked up, and where the lookup is
  seek,
  cert,           \* the certificate the client's SSL uses
  cert_cache,     \* the list, head first
  cert_cache_mutex,
  generated,      \* certificates made so far
  peer,           \* "open", "closed" or "reset", for both peers of a tunnel
  sent,           \* records a peer has sent
  inbox,          \* of these, the ones that SSL_read has still to return
  got,            \* records written to a peer's socket
  taken,          \* how many of them the peer has read
  revents,        \* peers poll has found readable
  hangup,         \* peers poll has found reset
  active,
  killed,         \* SIGPIPE has ended the process
  ended, refused  \* ghost: peers whose end was read, tunnels with a refused write

lookup == <<asked, seek, cert, cert_cache, cert_cache_mutex, generated>>
net == <<peer, sent, inbox, got, taken>>
pump == <<revents, hangup, active, ended, refused>>
vars == <<stage, lookup, net, pump, killed>>

PumpStages == {"poll", "client", "server", "check", "shutdown"}

\* The values the variables range over: a send buffer never holds more than SendRoom.
TypeOK ==
  /\ stage \in [Tunnels -> {"cert", "accept", "connect", "http2", "done"} \cup PumpStages]
  /\ seek \in [Tunnels -> {"none", "lock", "search", "insert"}]
  /\ \A t \in Tunnels : asked[t] \in Hosts \cup {NULL}
  /\ \A i \in DOMAIN cert_cache : cert_cache[i].hostname \in Hosts
  /\ cert_cache_mutex \in Tunnels \cup {NULL}
  /\ peer \in [Tunnels -> [Peers -> {"open", "closed", "reset"}]]
  /\ \A t \in Tunnels, d \in Peers :
       /\ taken[t][d] <= Len(got[t][d]) /\ Len(got[t][d]) <= taken[t][d] + SendRoom
       /\ Len(inbox[t][d]) <= sent[t][d] /\ sent[t][d] <= MaxSend[d]
  /\ revents \in [Tunnels -> SUBSET Peers] /\ active \in [Tunnels -> BOOLEAN]
  /\ killed \in BOOLEAN

Init ==
  /\ stage = [t \in Tunnels |-> "cert"]
  /\ asked = host /\ seek = [t \in Tunnels |-> "lock"]
  /\ cert = [t \in Tunnels |-> default_x509]
  /\ cert_cache = <<>> /\ cert_cache_mutex = NULL /\ generated = 0
  /\ peer = [t \in Tunnels |-> [d \in Peers |-> "open"]]
  /\ sent = [t \in Tunnels |-> [d \in Peers |-> 0]] /\ taken = sent
  /\ inbox = [t \in Tunnels |-> [d \in Peers |-> <<>>]] /\ got = inbox
  /\ revents = [t \in Tunnels |-> {}] /\ hangup = revents /\ ended = revents
  /\ active = [t \in Tunnels |-> TRUE] /\ refused = {}
  /\ killed = FALSE

-----------------------------------------------------------------------------
(* get_or_create_cert: for the CONNECT host, and from sni_callback.        *)

Lock(t) ==
  /\ seek[t] = "lock" /\ cert_cache_mutex = NULL
  /\ cert_cache_mutex' = t
  /\ seek' = [seek EXCEPT ![t] = "search"]
  /\ UNCHANGED <<stage, asked, cert, cert_cache, generated, net, pump, killed>>

\* Where the worker goes on with the certificate in hand.
Use(t, c) ==
  /\ cert' = [cert EXCEPT ![t] = c]
  /\ seek' = [seek EXCEPT ![t] = "none"]
  /\ stage' = [stage EXCEPT ![t] = IF @ = "cert" THEN "accept" ELSE "connect"]

Cached(name) == {cert_cache[i].cert : i \in {j \in DOMAIN cert_cache : cert_cache[j].hostname = name}}

\* Fault for Search: the lock is given back before the certificate is made.
SearchUnlocks(t) ==
  /\ seek[t] = "search"
  /\ IF Cached(asked[t]) # {}
     THEN \E c \in Cached(asked[t]) : Use(t, c)
     ELSE seek' = [seek EXCEPT ![t] = "insert"] /\ UNCHANGED <<stage, cert>>
  /\ cert_cache_mutex' = NULL
  /\ UNCHANGED <<asked, cert_cache, generated, net, pump, killed>>

\* The list is searched; a miss keeps the lock.
Search(t) ==
  /\ seek[t] = "search"
  /\ IF Cached(asked[t]) # {}
     THEN /\ \E c \in Cached(asked[t]) : Use(t, c)
          /\ cert_cache_mutex' = NULL
     ELSE /\ seek' = [seek EXCEPT ![t] = "insert"]
          /\ UNCHANGED <<stage, cert, cert_cache_mutex>>
  /\ UNCHANGED <<asked, cert_cache, generated, net, pump, killed>>

\* generate_cert_for_host and the new node.
Insert(t) ==
  /\ seek[t] = "insert"
  /\ LET new == [hostname |-> asked[t], id |-> generated + 1]
     IN  /\ cert_cache' = <<[hostname |-> asked[t], cert |-> new]>> \o cert_cache
         /\ Use(t, new)
  /\ generated' = generated + 1
  /\ cert_cache_mutex' = NULL
  /\ UNCHANGED <<asked, net, pump, killed>>

\* SSL_accept: the client names a server, and sni_callback looks its
\* certificate up.
ServerName(t, name) ==
  /\ stage[t] = "accept" /\ seek[t] = "none"
  /\ asked' = [asked EXCEPT ![t] = name]
  /\ seek' = [seek EXCEPT ![t] = "lock"]
  /\ UNCHANGED <<stage, cert, cert_cache, cert_cache_mutex, generated, net, pump, killed>>

\* SSL_accept without a name keeps the certificate of the CONNECT host.
NoServerName(t) ==
  /\ stage[t] = "accept" /\ seek[t] = "none"
  /\ stage' = [stage EXCEPT ![t] = "connect"]
  /\ UNCHANGED <<lookup, net, pump, killed>>

Sockets == [d \in Peers |-> <<>>]

Counts == [d \in Peers |-> 0]

\* HandleConnect frees the sessions, closes the socket and returns: what the
\* sockets held is of no use to anyone here.
Return(t) ==
  /\ stage' = [stage EXCEPT ![t] = "done"]
  /\ asked' = [asked EXCEPT ![t] = NULL] /\ cert' = [cert EXCEPT ![t] = default_x509]
  /\ sent' = [sent EXCEPT ![t] = Counts] /\ taken' = [taken EXCEPT ![t] = Counts]
  /\ inbox' = [inbox EXCEPT ![t] = Sockets] /\ got' = [got EXCEPT ![t] = Sockets]
  /\ peer' = [peer EXCEPT ![t] = [d \in Peers |-> "open"]]
  /\ revents' = [revents EXCEPT ![t] = {}] /\ hangup' = [hangup EXCEPT ![t] = {}]
  /\ active' = [active EXCEPT ![t] = FALSE]
  /\ ended' = [ended EXCEPT ![t] = {}] /\ refused' = refused \ {t}
  /\ UNCHANGED <<seek, cert_cache, cert_cache_mutex, generated>>

\* SSL_accept or SSL_connect fails.
HandshakeFails(t) ==
  /\ stage[t] \in {"accept", "connect"} /\ seek[t] = "none"
  /\ Return(t)
  /\ UNCHANGED killed

\* SSL_connect succeeds; the negotiated protocol decides, and the sockets of a
\* tunnel become non-blocking.
Connected(t) ==
  /\ stage[t] = "connect"
  /\ stage' = [stage EXCEPT ![t] = IF t \in H2Clients THEN "http2" ELSE "poll"]
  /\ UNCHANGED <<lookup, net, pump, killed>>

\* handle_http2_connection returns (Http2).
Http2Returns(t) ==
  /\ stage[t] = "http2"
  /\ Return(t)
  /\ UNCHANGED killed

-----------------------------------------------------------------------------
(* The pump *)

Readable(t) == {d \in Peers : inbox[t][d] # <<>> \/ peer[t][d] # "open"}

\* The next part of the loop that has something to do.
After(d, ready) ==
  IF d = "poll" /\ "client" \in ready THEN "client"
  ELSE IF d # "server" /\ "server" \in ready THEN "server" ELSE "check"

\* Fault for Poll: a connection that was reset ends the loop at once.
PollHangup(t) ==
  /\ stage[t] = "poll" /\ Readable(t) # {}
  /\ revents' = [revents EXCEPT ![t] = Readable(t)]
  /\ hangup' = [hangup EXCEPT ![t] = {d \in Peers : peer[t][d] = "reset"}]
  /\ ended' = [ended EXCEPT ![t] = hangup'[t]]
  /\ stage' = [stage EXCEPT ![t] =
       IF hangup'[t] = {} THEN After("poll", Readable(t)) ELSE "check"]
  /\ UNCHANGED <<lookup, net, active, refused, killed>>

\* poll returns what is readable now; after five seconds without anything the
\* loop polls again.
Poll(t) ==
  /\ stage[t] = "poll" /\ Readable(t) # {}
  /\ revents' = [revents EXCEPT ![t] = Readable(t)]
  /\ hangup' = [hangup EXCEPT ![t] = {d \in Peers : peer[t][d] = "reset"}]
  /\ stage' = [stage EXCEPT ![t] = After("poll", Readable(t))]
  /\ UNCHANGED <<lookup, net, active, ended, refused, killed>>

\* A record read from d and written to the other peer: into its buffer, or, when
\* the peer has closed its socket, to nobody, who answers with a reset.
Forward(t, d) ==
  LET o == Other(d)
      rec == Head(inbox[t][d])
  IN  /\ stage[t] = d /\ inbox[t][d] # <<>>
      /\ \/ /\ peer[t][o] = "open" /\ Len(got[t][o]) < taken[t][o] + SendRoom
            /\ got' = [got EXCEPT ![t][o] = Append(@, rec)]
            /\ UNCHANGED peer
         \/ /\ peer[t][o] = "closed"
            /\ peer' = [peer EXCEPT ![t][o] = "reset"]
            /\ UNCHANGED got
      /\ inbox' = [inbox EXCEPT ![t][d] = Tail(@)]
      /\ UNCHANGED <<stage, lookup, sent, taken, pump, killed>>

\* Fault for WriteRefused: the loop goes on with the next record.
WriteRefusedGoesOn(t, d) ==
  /\ stage[t] = d /\ inbox[t][d] # <<>>
  /\ \/ peer[t][Other(d)] = "reset"
     \/ peer[t][Other(d)] = "open" /\ Len(got[t][Other(d)]) = taken[t][Other(d)] + SendRoom
  /\ inbox' = [inbox EXCEPT ![t][d] = Tail(@)]
  /\ refused' = refused \cup {t}
  /\ UNCHANGED <<stage, lookup, peer, sent, got, taken, revents, hangup, active, ended,
                 killed>>

\* SSL_write fails because the peer is gone or its buffer is full: the record is
\* lost and the tunnel ends, after the other direction has had its turn.  Nothing
\* ignores SIGPIPE: writing to a connection that was reset may end the process.
WriteRefused(t, d) ==
  /\ stage[t] = d /\ inbox[t][d] # <<>>
  /\ \/ peer[t][Other(d)] = "reset"
     \/ peer[t][Other(d)] = "open" /\ Len(got[t][Other(d)]) = taken[t][Other(d)] + SendRoom
  /\ inbox' = [inbox EXCEPT ![t][d] = Tail(@)]
  /\ active' = [active EXCEPT ![t] = FALSE]
  /\ refused' = refused \cup {t}
  /\ stage' = [stage EXCEPT ![t] = After(d, revents[t])]
  /\ UNCHANGED killed \/ (peer[t][Other(d)] = "reset" /\ killed' = TRUE)
  /\ UNCHANGED <<lookup, peer, sent, got, taken, revents, hangup, ended>>

\* Fault for Drained: the end of a connection taken for an empty socket.
DrainedForEver(t, d) ==
  /\ stage[t] = d /\ inbox[t][d] = <<>>
  /\ stage' = [stage EXCEPT ![t] = After(d, revents[t])]
  /\ UNCHANGED <<lookup, net, pump, killed>>

\* SSL_read has nothing more: it wants to wait, or the connection has ended.
Drained(t, d) ==
  /\ stage[t] = d /\ inbox[t][d] = <<>>
  /\ IF peer[t][d] = "open" THEN UNCHANGED <<active, ended>>
     ELSE /\ active' = [active EXCEPT ![t] = FALSE]
          /\ ended' = [ended EXCEPT ![t] = @ \cup {d}]
  /\ stage' = [stage EXCEPT ![t] = After(d, revents[t])]
  /\ UNCHANGED <<lookup, net, revents, hangup, refused, killed>>

\* The end of a round: POLLERR or POLLHUP, or active = 0, leaves the loop.
CheckRound(t) ==
  /\ stage[t] = "check"
  /\ stage' = [stage EXCEPT ![t] = IF hangup[t] = {} /\ active[t] THEN "poll" ELSE "shutdown"]
  /\ revents' = [revents EXCEPT ![t] = {}] /\ hangup' = [hangup EXCEPT ![t] = {}]
  /\ UNCHANGED <<lookup, net, active, ended, refused, killed>>

\* SSL_shutdown writes to both peers, which may end the process as well.
Shutdown(t) ==
  /\ stage[t] = "shutdown"
  /\ Return(t)
  /\ \/ UNCHANGED killed
     \/ (\E d \in Peers : peer[t][d] = "reset") /\ killed' = TRUE

-----------------------------------------------------------------------------
(* The peers (external): records are numbered in the order they are sent.  *)

Pumping(t) == stage[t] \in PumpStages

Send(t, d) ==
  /\ Pumping(t) /\ peer[t][d] = "open" /\ sent[t][d] < MaxSend[d]
  /\ sent' = [sent EXCEPT ![t][d] = @ + 1]
  /\ inbox' = [inbox EXCEPT ![t][d] = Append(@, sent[t][d] + 1)]
  /\ UNCHANGED <<stage, lookup, peer, got, taken, pump, killed>>

Take(t, d) ==
  /\ Pumping(t) /\ peer[t][d] = "open" /\ taken[t][d] < Len(got[t][d])
  /\ taken' = [taken EXCEPT ![t][d] = @ + 1]
  /\ UNCHANGED <<stage, lookup, peer, sent, inbox, got, pump, killed>>

\* A peer closes its connection, or resets it; records that have arrived stay.
Leave(t, d, how) ==
  /\ Pumping(t) /\ peer[t][d] = "open"
  /\ peer' = [peer EXCEPT ![t][d] = how]
  /\ UNCHANGED <<stage, lookup, sent, inbox, got, taken, pump, killed>>

-----------------------------------------------------------------------------
Handshake(t) ==
  \/ Lock(t) \/ Search(t) \/ Insert(t)
  \/ \E name \in Hosts : ServerName(t, name)
  \/ NoServerName(t) \/ HandshakeFails(t) \/ Connected(t) \/ Http2Returns(t)

PumpStep(t) ==
  \/ Poll(t) \/ CheckRound(t) \/ Shutdown(t)
  \/ \E d \in Peers : Forward(t, d) \/ WriteRefused(t, d) \/ Drained(t, d)

PeerStep(t) ==
  \E d \in Peers :
    Send(t, d) \/ Take(t, d) \/ Leave(t, d, "closed") \/ Leave(t, d, "reset")

Next == ~killed /\ \E t \in Tunnels : Handshake(t) \/ PumpStep(t) \/ PeerStep(t)

Spec == Init /\ [][Next]_vars

\* The worker of a tunnel is scheduled; nothing is assumed of the peers.
FairSpec == Spec /\ \A t \in Tunnels : WF_vars(~killed /\ PumpStep(t))

-----------------------------------------------------------------------------
(* Properties *)

Presented(t) == stage[t] \notin {"cert", "accept", "done"}

\* The tunnels share their certificates: whichever of them come first, and however
\* their lookups overlap, the clients that ask for the same name are shown one and
\* the same certificate, and it names the server they asked for (tls_tunnel.c
\* 75-115, 285-293).
CertAgreement ==
  \A t, u \in Tunnels :
    Presented(t) /\ Presented(u) =>
      /\ cert[t].hostname = asked[t]
      /\ asked[t] = asked[u] => cert[t] = cert[u]

\* What a peer gets is a beginning of what the other one has sent, in its order and
\* without a gap, even when a full buffer or a reset cuts the tunnel short
\* (tls_tunnel.c 349-403).
NoGap ==
  \A t \in Tunnels, d \in Peers :
    /\ got[t][d] = [i \in 1..Len(got[t][d]) |-> i]
    /\ Len(got[t][d]) <= sent[t][Other(d)]

\* A tunnel that ends because one peer has left has passed on everything that peer
\* had sent, unless a write was refused or the other peer had left as well
\* (tls_tunnel.c 349-408).
LastWordsDelivered ==
  \A t \in Tunnels, d \in Peers :
    /\ stage[t] = "shutdown" /\ d \in ended[t] /\ t \notin refused
    /\ peer[t][Other(d)] = "open"
    => Len(got[t][Other(d)]) = sent[t][d]

\* A tunnel one of whose peers has left ends: the worker goes back and gives its
\* permit away, whatever the other peer does (tls_tunnel.c 349-416).
TunnelEnds ==
  \A t \in Tunnels :
    (Pumping(t) /\ \E d \in Peers : peer[t][d] # "open") ~> (stage[t] = "done" \/ killed)
=============================================================================
