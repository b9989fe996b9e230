---------------------------- MODULE ProxyServer -----------------------------
(***************************************************************************)
(* The accept loop of main() and the thread it starts for every connection *)
(* (THREAD_ROUTINE in src/src/Main.c), with what a worker does up to and    *)
(* after HandleRequest and HandleConnect (tls_tunnel.c).                   *)
(*                                                                         *)
(* Connections are numbered by ITERATOR, which is also the index of the     *)
(* slot of CONNECTED_SOCKET_ID through which a connection's descriptor is   *)
(* handed to its worker.  A worker moves from one blocking call or shared   *)
(* access to the next.  Descriptors are those of the process: client        *)
(* sockets and sockets to end servers come from one table and are reused.   *)
(*                                                                         *)
(* Counters that only grow (requests, bytes, errors, hits) and the access   *)
(* log are left out; the two gauges are kept.                               *)
(***************************************************************************)
EXTENDS Integers, FiniteSets

CONSTANTS
  MaxConns,      \* bound on the connections that reach pthread_create
  max_clients,   \* g_config.max_clients when the slots are allocated
  sem_permits,   \* g_config.max_clients when the semaphore is initialised
  Fds,           \* descriptors the process can have for connections
  IPv6Conns,     \* the connections whose peer has an IPv6 address
  Hosts,         \* hosts a request can name
  Paths,         \* request paths
  Addrs,         \* network addresses
  Resolve,       \* host -> the addresses getaddrinfo returns
  Requests,      \* what a client can send
  enable_auth,   \* g_config.enable_auth
  FilterLists,   \* contents the filter files can have
  AclDenies,     \* whether check_ip_allowed can refuse a client
  ThreadFails,   \* whether pthread_create can fail
  NULL

Conns == 0 .. MaxConns - 1

ASSUME ServerAssumption ==
  /\ MaxConns \in Nat /\ max_clients \in Nat /\ sem_permits \in Nat
  /\ IPv6Conns \subseteq Conns
  /\ Resolve \in [Hosts -> SUBSET Addrs]
  /\ enable_auth \in BOOLEAN /\ AclDenies \in BOOLEAN /\ ThreadFails \in BOOLEAN
  /\ NULL \notin Fds /\ 0 \notin Fds /\ NULL \notin Addrs /\ NULL \notin Paths
  /\ NULL \notin {"client", "end"} \X Conns

\* A request is what ParsedRequest_parse and the checks make of the bytes: a path
\* that is not absolute fails to parse and is dropped; a CONNECT has the path "/".
Request == [parse : {"ok", "bad", "relative"}, method : {"GET", "CONNECT"},
            auth : BOOLEAN, host : Hosts, path : Paths,
            version : BOOLEAN]

\* What the filter's lists match: hosts, paths and end server addresses.
Lists == [hosts : SUBSET Hosts, paths : SUBSET Paths, addrs : SUBSET Addrs]

ASSUME RequestAssumption ==
  /\ Requests \subseteq Request /\ FilterLists \subseteq Lists
  /\ NULL \notin Requests

VARIABLES
  process,              \* "up", or why the process has ended
  ITERATOR,
  CONNECTED_SOCKET_ID,  \* slot -> descriptor, 0 for a refused client
  owner,                \* descriptor -> the connection end it is open for, or NULL
  pc,                   \* where the worker of a connection is
  SOCKET,               \* the worker's copy of its slot
  req,                  \* REQUEST and PARSED_REQUEST
  END_SERVER_SOCKET,    \* the worker's socket to the end server, or NULL
  end_addr,             \* the address that socket is connected to
  gone,                 \* the connections whose client has reset them
  SEMAPHORE,
  active_connections, ipv6_active_connections,
  filters,              \* the lists in force
  cached,               \* requests AddCache has stored
  inforce               \* for the properties: the lists in force since a worker
                        \* received its request

workerVars == <<SOCKET, req, END_SERVER_SOCKET, end_addr>>
acceptVars == <<process, ITERATOR, CONNECTED_SOCKET_ID>>
gauges == <<active_connections, ipv6_active_connections>>
listVars == <<filters, inforce>>
vars == <<process, ITERATOR, CONNECTED_SOCKET_ID, owner, pc, SOCKET, req,
          END_SERVER_SOCKET, end_addr, gone, SEMAPHORE, active_connections,
          ipv6_active_connections, filters, cached, inforce>>

-----------------------------------------------------------------------------
(* Worker positions *)

\* Positions between sem_wait and sem_post.
Holding == {"recv", "auth", "domain", "url", "refuse", "lookup", "hit",
            "connect", "fetch", "dial", "tunnel", "error", "end", "post"}

Positions == Holding \cup {"none", "lost", "created", "waiting", "done"}

\* Positions of a worker that has its request and has checks before it.
Undecided == {"auth", "domain", "url", "lookup", "connect"}

Holders == {k \in Conns : pc[k] \in Holding}

\* Workers that have counted themselves in and still have their client socket.
InFlight == {k \in Conns : pc[k] \in (Holding \cup {"waiting"}) \ {"post"}}

\* The values the variables range over.
TypeOK ==
  /\ process \in {"up", "accept failed", "overrun", "SIGPIPE"}
  /\ ITERATOR \in 0 .. MaxConns
  /\ CONNECTED_SOCKET_ID \in [Conns -> Fds \cup {0}]
  /\ owner \in [Fds -> ({"client", "end"} \X Conns) \cup {NULL}]
  /\ pc \in [Conns -> Positions]
  /\ SOCKET \in [Conns -> Fds \cup {0, NULL}]
  /\ req \in [Conns -> Requests \cup {NULL}]
  /\ END_SERVER_SOCKET \in [Conns -> Fds \cup {NULL}]
  /\ end_addr \in [Conns -> Addrs \cup {NULL}]
  /\ gone \subseteq Conns
  /\ SEMAPHORE \in Nat
  /\ active_connections \in Nat /\ ipv6_active_connections \in Nat
  /\ filters \in FilterLists
  /\ cached \subseteq Requests
  /\ inforce \in [Conns -> SUBSET FilterLists]
  /\ \A k \in Conns : pc[k] \in Holding \ {"recv", "post"} => req[k] \in Requests

-----------------------------------------------------------------------------
(* Descriptors *)

\* The connection ends a descriptor can be open for.
Client(k) == <<"client", k>>
EndServer(k) == <<"end", k>>

Free == {f \in Fds : owner[f] = NULL}

Open(f, end) == owner' = [owner EXCEPT ![f] = end]

\* close(2): whoever has the descriptor open loses it.
close(closed) == owner' = [f \in Fds |-> IF f \in closed THEN NULL ELSE owner[f]]

\* getpeername succeeds with an AF_INET6 address.
PeerIsIPv6(f) ==
  \E k \in IPv6Conns \ gone : f \in Fds /\ owner[f] = Client(k)

-----------------------------------------------------------------------------
(* The accept loop *)

Init ==
  /\ process = "up"
  /\ ITERATOR = 0
  /\ CONNECTED_SOCKET_ID = [k \in Conns |-> 0]
  /\ owner = [f \in Fds |-> NULL]
  /\ pc = [k \in Conns |-> "none"]
  /\ SOCKET = [k \in Conns |-> NULL]
  /\ req = [k \in Conns |-> NULL]
  /\ END_SERVER_SOCKET = [k \in Conns |-> NULL]
  /\ end_addr = [k \in Conns |-> NULL]
  /\ gone = {}
  /\ SEMAPHORE = sem_permits
  /\ active_connections = 0 /\ ipv6_active_connections = 0
  /\ filters \in FilterLists
  /\ cached = {}
  /\ inforce = [k \in Conns |-> {}]

\* accept returns a descriptor, the slot is filled and the worker is created.  The
\* result of pthread_create is not looked at.
AcceptCreate(f, created) ==
  /\ process = "up" /\ ITERATOR < MaxConns
  /\ f \in Free
  /\ created \/ ThreadFails
  /\ Open(f, Client(ITERATOR))
  /\ CONNECTED_SOCKET_ID' = [CONNECTED_SOCKET_ID EXCEPT ![ITERATOR] = f]
  /\ pc' = [pc EXCEPT ![ITERATOR] = IF created THEN "created" ELSE "lost"]
  /\ ITERATOR' = ITERATOR + 1
  /\ UNCHANGED <<process, workerVars, gone, SEMAPHORE, gauges, listVars, cached>>

\* The access list refuses the peer: the descriptor is closed again, the slot is
\* cleared and used for the next connection.
AcceptDenied ==
  /\ process = "up" /\ ITERATOR < MaxConns
  /\ AclDenies /\ Free # {}
  /\ CONNECTED_SOCKET_ID' = [CONNECTED_SOCKET_ID EXCEPT ![ITERATOR] = 0]
  /\ UNCHANGED <<process, ITERATOR, owner, pc, workerVars, gone, SEMAPHORE,
                 gauges, listVars, cached>>

\* accept fails (no descriptor is left, the peer has already gone) and main() exits.
AcceptFails ==
  /\ process = "up"
  /\ process' = "accept failed"
  /\ UNCHANGED <<ITERATOR, CONNECTED_SOCKET_ID, owner, pc, workerVars, gone,
                 SEMAPHORE, gauges, listVars, cached>>

\* A slot behind the end of the allocation: the write may end the process.
SlotOverrun ==
  /\ process = "up" /\ max_clients <= ITERATOR /\ ITERATOR < MaxConns
  /\ process' = "overrun"
  /\ UNCHANGED <<ITERATOR, CONNECTED_SOCKET_ID, owner, pc, workerVars, gone,
                 SEMAPHORE, gauges, listVars, cached>>

-----------------------------------------------------------------------------
(* The worker: admission *)

At(k, where) == process = "up" /\ pc[k] = where

Goto(k, where) == pc' = [pc EXCEPT ![k] = where]

\* What the worker of k can read from its slot: a slot outside the allocation is
\* other memory, and holds anything.
SlotValues(k) ==
  IF k < max_clients THEN {CONNECTED_SOCKET_ID[k]} ELSE Fds \cup {0}

\* Fault: the connection is not counted in.
StartUncounted(k) ==
  /\ At(k, "created")
  /\ \E f \in SlotValues(k) : SOCKET' = [SOCKET EXCEPT ![k] = f]
  /\ Goto(k, "waiting")
  /\ UNCHANGED <<acceptVars, owner, req, END_SERVER_SOCKET, end_addr, gone,
                 SEMAPHORE, gauges, listVars, cached>>

\* The gauges go up and the slot is read, before the semaphore.
Start(k) ==
  /\ At(k, "created")
  /\ \E f \in SlotValues(k) :
       /\ SOCKET' = [SOCKET EXCEPT ![k] = f]
       /\ ipv6_active_connections' =
            ipv6_active_connections + (IF PeerIsIPv6(f) THEN 1 ELSE 0)
  /\ active_connections' = active_connections + 1
  /\ Goto(k, "waiting")
  /\ UNCHANGED <<acceptVars, owner, req, END_SERVER_SOCKET, end_addr, gone,
                 SEMAPHORE, listVars, cached>>

\* Fault: the last permit is never given out.
SemWaitSpare(k) ==
  /\ At(k, "waiting") /\ SEMAPHORE > 1
  /\ SEMAPHORE' = SEMAPHORE - 1
  /\ Goto(k, "recv")
  /\ UNCHANGED <<acceptVars, owner, workerVars, gone, gauges, listVars, cached>>

SemWait(k) ==
  /\ At(k, "waiting") /\ SEMAPHORE > 0
  /\ SEMAPHORE' = SEMAPHORE - 1
  /\ Goto(k, "recv")
  /\ UNCHANGED <<acceptVars, owner, workerVars, gone, gauges, listVars, cached>>

\* Fault: the exit forgets the permit.
EarlyExitKeepsPermit(k) ==
  /\ close({SOCKET[k]})
  /\ Goto(k, "done")
  /\ UNCHANGED <<acceptVars, workerVars, gone, SEMAPHORE, gauges, listVars, cached>>

\* The returns in the middle of THREAD_ROUTINE: the socket is closed, the permit
\* comes next, and the gauges stay as they are.
EarlyExit(k) ==
  /\ close({SOCKET[k]})
  /\ Goto(k, "post")
  /\ UNCHANGED <<acceptVars, workerVars, gone, SEMAPHORE, gauges, listVars, cached>>

\* Nothing received, raw TLS or h2c without CONNECT, or no memory for REQUEST.
RecvUnusable(k) == At(k, "recv") /\ EarlyExit(k)

\* Fault: the cache is asked before the checks.
RecvRequestCacheFirst(k, r) ==
  /\ At(k, "recv")
  /\ req' = [req EXCEPT ![k] = r]
  /\ inforce' = [inforce EXCEPT ![k] = {filters}]
  /\ Goto(k, IF r.parse = "ok" /\ r \notin cached THEN "auth" ELSE "lookup")
  /\ UNCHANGED <<acceptVars, owner, SOCKET, END_SERVER_SOCKET, end_addr, gone,
                 SEMAPHORE, gauges, filters, cached>>

\* The headers are complete, or the peer stopped sending: parse what there is.
RecvRequest(k, r) ==
  /\ At(k, "recv")
  /\ req' = [req EXCEPT ![k] = r]
  /\ inforce' = [inforce EXCEPT ![k] = {filters}]
  /\ Goto(k, IF r.parse = "ok" THEN "auth" ELSE "lookup")
  /\ UNCHANGED <<acceptVars, owner, SOCKET, END_SERVER_SOCKET, end_addr, gone,
                 SEMAPHORE, gauges, filters, cached>>

-----------------------------------------------------------------------------
(* The worker: authorisation and filters *)

Checked(k, here, refused, next) ==
  /\ At(k, here)
  /\ Goto(k, IF refused THEN "refuse" ELSE next)
  /\ UNCHANGED <<acceptVars, owner, workerVars, gone, SEMAPHORE, gauges, listVars, cached>>

CheckAuth(k) == Checked(k, "auth", enable_auth /\ ~req[k].auth, "domain")

CheckDomain(k) == Checked(k, "domain", req[k].host \in filters.hosts, "url")

CheckUrl(k) == Checked(k, "url", req[k].path \in filters.paths, "lookup")

\* ThrowError with 407 or 403, then out.
Refuse(k) == At(k, "refuse") /\ EarlyExit(k)

-----------------------------------------------------------------------------
(* The worker: from the cache or from the end server *)

FindCacheHit(k) ==
  /\ At(k, "lookup") /\ req[k] \in cached
  /\ Goto(k, "hit")
  /\ UNCHANGED <<acceptVars, owner, workerVars, gone, SEMAPHORE, gauges, listVars, cached>>

\* The entry was never stored, has expired or was evicted.
FindCacheMiss(k) ==
  /\ At(k, "lookup") /\ req[k].parse # "relative"
  /\ Goto(k, IF req[k].parse = "bad" THEN "error"
             ELSE IF req[k].method = "CONNECT" THEN "dial"
             ELSE IF req[k].version THEN "connect" ELSE "error")
  /\ UNCHANGED <<acceptVars, owner, workerVars, gone, SEMAPHORE, gauges, listVars, cached>>

\* A relative path is dropped without an answer.
DropRelative(k) ==
  At(k, "lookup") /\ req[k].parse = "relative" /\ EarlyExit(k)

\* A worker's answer is complete: the cached response, or an error page.
Answered(k) ==
  /\ process = "up" /\ pc[k] \in {"hit", "error"}
  /\ Goto(k, "end")
  /\ UNCHANGED <<acceptVars, owner, workerVars, gone, SEMAPHORE, gauges, listVars, cached>>

\* socket and connect succeed for an address of the host.
Connected(k, here, a, f, next) ==
  /\ At(k, here)
  /\ a \in Resolve[req[k].host] /\ f \in Free
  /\ Open(f, EndServer(k))
  /\ END_SERVER_SOCKET' = [END_SERVER_SOCKET EXCEPT ![k] = f]
  /\ end_addr' = [end_addr EXCEPT ![k] = a]
  /\ Goto(k, next)
  /\ UNCHANGED <<acceptVars, SOCKET, req, gone, SEMAPHORE, gauges, listVars, cached>>

\* Fault: resolved addresses are not looked up in the filter.
ConnectEndServerAny(k, a, f) == Connected(k, "connect", a, f, "fetch")

\* A resolved address the filter blocks is skipped.
ConnectEndServer(k, a, f) ==
  a \notin filters.addrs /\ Connected(k, "connect", a, f, "fetch")

\* HandleConnect does not ask the filter about the address.
Dial(k, a, f) == Connected(k, "dial", a, f, "tunnel")

\* No address resolves or connects, or every one is blocked: answered with a 500.
ConnectFails(k) ==
  /\ process = "up" /\ pc[k] \in {"connect", "dial"}
  /\ Goto(k, "error")
  /\ UNCHANGED <<acceptVars, owner, workerVars, gone, SEMAPHORE, gauges, listVars, cached>>

Hangup(k, next) ==
  /\ close({END_SERVER_SOCKET[k]})
  /\ END_SERVER_SOCKET' = [END_SERVER_SOCKET EXCEPT ![k] = NULL]
  /\ end_addr' = [end_addr EXCEPT ![k] = NULL]
  /\ Goto(k, next)
  /\ UNCHANGED <<acceptVars, SOCKET, req, gone, SEMAPHORE, gauges, listVars>>

\* HandleRequest returns 0; the response may have been blocked by its content
\* type, or AddCache may have turned it down.
FetchDone(k, stored) ==
  /\ At(k, "fetch")
  /\ Hangup(k, "end")
  /\ cached' = IF stored THEN cached \cup {req[k]} ELSE cached

\* Fault: the way out after a failed handshake forgets the end server socket.
ExchangeFailsOpen(k) ==
  /\ process = "up" /\ pc[k] \in {"fetch", "tunnel"}
  /\ Goto(k, "error")
  /\ END_SERVER_SOCKET' = [END_SERVER_SOCKET EXCEPT ![k] = NULL]
  /\ end_addr' = [end_addr EXCEPT ![k] = NULL]
  /\ UNCHANGED <<acceptVars, owner, SOCKET, req, gone, SEMAPHORE, gauges, listVars, cached>>

\* The request cannot be sent or there is no memory for the response; a TLS
\* handshake fails on either side of a tunnel.
ExchangeFails(k) ==
  /\ process = "up" /\ pc[k] \in {"fetch", "tunnel"}
  /\ Hangup(k, "error")
  /\ UNCHANGED cached

\* Fault: the tunnel closes the client's socket as well as its own.
TunnelEndClosesBoth(k) ==
  /\ At(k, "tunnel")
  /\ close({END_SERVER_SOCKET[k], SOCKET[k]})
  /\ END_SERVER_SOCKET' = [END_SERVER_SOCKET EXCEPT ![k] = NULL]
  /\ end_addr' = [end_addr EXCEPT ![k] = NULL]
  /\ Goto(k, "end")
  /\ UNCHANGED <<acceptVars, SOCKET, req, gone, SEMAPHORE, gauges, listVars, cached>>

\* One side of the tunnel closes or fails; the client socket stays open.
TunnelEnd(k) ==
  /\ At(k, "tunnel")
  /\ Hangup(k, "end")
  /\ UNCHANGED cached

-----------------------------------------------------------------------------
(* The worker: the end *)

\* metrics_decrement_*: a gauge never goes below zero.
Decremented(gauge) == IF gauge > 0 THEN gauge - 1 ELSE 0

\* The gauges go down and the socket is closed.
Epilogue(k) ==
  /\ At(k, "end")
  /\ ipv6_active_connections' =
       IF PeerIsIPv6(SOCKET[k]) THEN Decremented(ipv6_active_connections)
       ELSE ipv6_active_connections
  /\ active_connections' = Decremented(active_connections)
  /\ close({SOCKET[k]})
  /\ Goto(k, "post")
  /\ UNCHANGED <<acceptVars, workerVars, gone, SEMAPHORE, listVars, cached>>

SemPost(k) ==
  /\ At(k, "post")
  /\ SEMAPHORE' = SEMAPHORE + 1
  /\ Goto(k, "done")
  /\ UNCHANGED <<acceptVars, owner, workerVars, gone, gauges, listVars, cached>>

-----------------------------------------------------------------------------
(* The surroundings *)

\* A client resets its connection.
Disconnect(k) ==
  /\ process = "up" /\ k \notin gone
  /\ \E f \in Fds : owner[f] = Client(k)
  /\ gone' = gone \cup {k}
  /\ UNCHANGED <<acceptVars, owner, pc, workerVars, SEMAPHORE, gauges, listVars, cached>>

\* send or SSL_write on a connection that was reset raises SIGPIPE, for which the
\* program installs no handler.
BrokenPipe(k) ==
  /\ process = "up" /\ pc[k] \in {"refuse", "hit", "error", "fetch", "tunnel"}
  /\ SOCKET[k] \in Fds /\ \E j \in gone : owner[SOCKET[k]] = Client(j)
  /\ process' = "SIGPIPE"
  /\ UNCHANGED <<ITERATOR, CONNECTED_SOCKET_ID, owner, pc, workerVars, gone,
                 SEMAPHORE, gauges, listVars, cached>>

\* filter_reload, under the write lock that the checks take for reading.
FilterReload ==
  /\ process = "up"
  /\ filters' \in FilterLists
  /\ inforce' = [k \in Conns |-> IF pc[k] \in Undecided THEN inforce[k] \cup {filters'}
                                ELSE inforce[k]]
  /\ UNCHANGED <<acceptVars, owner, pc, workerVars, gone, SEMAPHORE, gauges, cached>>

-----------------------------------------------------------------------------

Accept ==
  \/ \E f \in Fds, created \in BOOLEAN : AcceptCreate(f, created)
  \/ AcceptDenied \/ AcceptFails \/ SlotOverrun

Worker(k) ==
  \/ Start(k) \/ SemWait(k) \/ RecvUnusable(k)
  \/ \E r \in Requests : RecvRequest(k, r)
  \/ CheckAuth(k) \/ CheckDomain(k) \/ CheckUrl(k) \/ Refuse(k)
  \/ FindCacheHit(k) \/ FindCacheMiss(k) \/ DropRelative(k) \/ Answered(k)
  \/ \E a \in Addrs, f \in Fds : ConnectEndServer(k, a, f) \/ Dial(k, a, f)
  \/ ConnectFails(k) \/ ExchangeFails(k) \/ TunnelEnd(k)
  \/ \E stored \in BOOLEAN : FetchDone(k, stored)
  \/ Epilogue(k) \/ SemPost(k)

Next ==
  \/ Accept
  \/ \E k \in Conns : Worker(k) \/ Disconnect(k) \/ BrokenPipe(k)
  \/ FilterReload

Spec == Init /\ [][Next]_vars

\* Every worker that can move does: the threads are preemptive, a client sends or
\* closes in the end, and an end server answers or closes.  The accept loop, resets
\* and reloads owe nothing.
FairSpec == Spec /\ \A k \in Conns : WF_vars(Worker(k))

-----------------------------------------------------------------------------
(* Properties *)

\* The semaphore's permits and the workers between sem_wait and sem_post always
\* add up to the permits it began with: no return of THREAD_ROUTINE loses one or
\* gives one back twice, whichever of its exits the worker takes.
PermitConservation == SEMAPHORE + Cardinality(Holders) = sem_permits

\* As long as no more connections were handed out than there are slots, a worker
\* has the descriptor accepted for its own connection, and no other worker or
\* end-server socket has been given that descriptor before it closed it.
OwnSocket ==
  ITERATOR <= max_clients =>
    \A k \in InFlight : SOCKET[k] \in Fds /\ owner[SOCKET[k]] = Client(k)

\* Every open descriptor is held by a worker that will still close it: a client
\* socket until its worker's close, an end server socket until HandleRequest or
\* HandleConnect returns.  (A connection whose thread was never created keeps its
\* descriptor for ever.)
NoDescriptorLeak ==
  ITERATOR <= max_clients =>
    \A f \in Fds : owner[f] # NULL => \E k \in Conns :
      \/ owner[f] = Client(k) /\ (k \in InFlight \/ pc[k] \in {"created", "lost"})
      \/ owner[f] = EndServer(k) /\ pc[k] \in {"fetch", "tunnel"} /\ END_SERVER_SOCKET[k] = f

\* Whatever is sent back to a client, from the cache or from an end server, answers
\* a request that parsed, carried credentials if they are required, and named a
\* host and a path that some list in force since it was received let through: no
\* order of checks, lookups and reloads serves what was blocked all along, and a
\* response cached before its host was blocked is not served afterwards.
CheckedBeforeServed ==
  \A k \in Conns : pc[k] \in {"hit", "connect", "fetch", "dial", "tunnel"} =>
    /\ req[k].parse = "ok"
    /\ enable_auth => req[k].auth
    /\ \E lists \in inforce[k] : req[k].host \notin lists.hosts
    /\ \E lists \in inforce[k] : req[k].path \notin lists.paths

\* A GET is never fetched from an address that the deny list named throughout, even
\* if the host has other addresses.
FetchAvoidsDenied ==
  \A k \in Conns : pc[k] = "fetch" =>
    \E lists \in inforce[k] : end_addr[k] \notin lists.addrs

\* The gauges never show fewer connections than are being handled: every decrement
\* has had its increment, so the clamp at zero hides nothing.  For IPv6 this needs
\* the family to be known at both ends of the routine: a peer that is still there
\* was there when its worker began.
GaugesCoverInFlight ==
  /\ active_connections >= Cardinality(InFlight)
  /\ ITERATOR <= max_clients =>
       ipv6_active_connections >= Cardinality((InFlight \cap IPv6Conns) \ gone)

\* A worker that was created gets its permit, answers and ends, unless the process
\* ends: no worker waits on the semaphore for ever.
WorkerEnds == \A k \in Conns : pc[k] = "created" ~> (pc[k] = "done" \/ process # "up")

=============================================================================
