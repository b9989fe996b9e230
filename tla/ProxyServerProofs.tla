------------------------- MODULE ProxyServerProofs --------------------------
(***************************************************************************)
(* Proofs about ProxyServer, for any number of connections, descriptors,    *)
(* permits, requests and filter lists.                                      *)
(***************************************************************************)
EXTENDS ProxyServer, FiniteSetTheorems, TLAPS

-----------------------------------------------------------------------------
(* Types *)

\* The initial state of main() has the right types.
LEMMA InitType == Init => TypeOK
BY ServerAssumption, RequestAssumption DEF Init, TypeOK, Conns, Positions, Holding

\* A worker's move within THREAD_ROUTINE that leaves all but its position alone.
LEMMA GotoType ==
  ASSUME TypeOK, NEW k \in Conns, NEW where \in Positions, Goto(k, where),
         req[k] \in Requests,
         UNCHANGED <<acceptVars, owner, workerVars, gone, SEMAPHORE, gauges,
                     listVars, cached>>
  PROVE  TypeOK'
BY DEF TypeOK, Goto, acceptVars, workerVars, gauges, listVars

\* close leaves a descriptor table.
LEMMA CloseType ==
  ASSUME TypeOK, NEW closed, close(closed)
  PROVE  owner' \in [Fds -> ({"client", "end"} \X Conns) \cup {NULL}]
BY DEF TypeOK, close

\* The early returns of THREAD_ROUTINE keep the types.
LEMMA EarlyExitType ==
  ASSUME TypeOK, NEW k \in Conns, EarlyExit(k)
  PROVE  TypeOK'
<1>1. owner' \in [Fds -> ({"client", "end"} \X Conns) \cup {NULL}]
  BY CloseType DEF EarlyExit
<1> QED
  BY <1>1 DEF TypeOK, EarlyExit, Goto, acceptVars, workerVars, gauges, listVars,
     Positions, Holding

\* Every step of the server keeps the types.
LEMMA NextType == TypeOK /\ [Next]_vars => TypeOK'
<1> SUFFICES ASSUME TypeOK, [Next]_vars PROVE TypeOK'
  OBVIOUS
<1> USE DEF acceptVars, workerVars, gauges, listVars
<1>1. CASE Accept
  <2>1. ASSUME NEW f \in Fds, NEW created \in BOOLEAN, AcceptCreate(f, created)
        PROVE  TypeOK'
    BY <2>1, ServerAssumption
       DEF TypeOK, AcceptCreate, Open, Client, Conns, Positions, Holding
  <2>2. CASE AcceptDenied
    BY <2>2 DEF TypeOK, AcceptDenied
  <2>3. CASE AcceptFails
    BY <2>3 DEF TypeOK, AcceptFails
  <2>4. CASE SlotOverrun
    BY <2>4 DEF TypeOK, SlotOverrun
  <2> QED
    BY <1>1, <2>1, <2>2, <2>3, <2>4 DEF Accept
<1>2. ASSUME NEW k \in Conns, Worker(k)
      PROVE  TypeOK'
  <2>1. CASE Start(k)
    <3>1. PICK f \in Fds \cup {0} :
            /\ SOCKET' = [SOCKET EXCEPT ![k] = f]
            /\ ipv6_active_connections' =
                 ipv6_active_connections + (IF PeerIsIPv6(f) THEN 1 ELSE 0)
      BY <2>1 DEF Start, SlotValues, TypeOK
    <3> QED
      BY <2>1, <3>1 DEF TypeOK, Start, At, Goto, Positions, Holding
  <2>2. CASE SemWait(k)
    BY <2>2 DEF TypeOK, SemWait, At, Goto, Positions, Holding
  <2>3. CASE RecvUnusable(k)
    BY <2>3, EarlyExitType DEF RecvUnusable
  <2>4. ASSUME NEW r \in Requests, RecvRequest(k, r)
        PROVE  TypeOK'
    BY <2>4 DEF TypeOK, RecvRequest, At, Goto, Positions, Holding
  <2>5. CASE CheckAuth(k) \/ CheckDomain(k) \/ CheckUrl(k)
    <3>1. PICK where \in Positions : Goto(k, where)
      BY <2>5 DEF CheckAuth, CheckDomain, CheckUrl, Checked, Positions, Holding
    <3>2. req[k] \in Requests
      BY <2>5 DEF CheckAuth, CheckDomain, CheckUrl, Checked, At, TypeOK, Holding
    <3> QED
      BY <2>5, <3>1, <3>2, GotoType DEF CheckAuth, CheckDomain, CheckUrl, Checked
  <2>6. CASE Refuse(k)
    BY <2>6, EarlyExitType DEF Refuse
  <2>7. CASE FindCacheHit(k) \/ FindCacheMiss(k) \/ Answered(k) \/ ConnectFails(k)
    <3>1. PICK where \in Positions : Goto(k, where)
      BY <2>7 DEF FindCacheHit, FindCacheMiss, Answered, ConnectFails, Positions,
         Holding
    <3>2. req[k] \in Requests
      BY <2>7 DEF FindCacheHit, FindCacheMiss, Answered, ConnectFails, At, TypeOK,
         Holding
    <3> QED
      BY <2>7, <3>1, <3>2, GotoType
         DEF FindCacheHit, FindCacheMiss, Answered, ConnectFails
  <2>8. CASE DropRelative(k)
    BY <2>8, EarlyExitType DEF DropRelative
  <2>9. ASSUME NEW a \in Addrs, NEW f \in Fds,
               ConnectEndServer(k, a, f) \/ Dial(k, a, f)
        PROVE  TypeOK'
    <3>1. PICK next \in {"fetch", "tunnel"} : Goto(k, next)
      BY <2>9 DEF ConnectEndServer, Dial, Connected
    <3>2. req[k] \in Requests
      BY <2>9 DEF ConnectEndServer, Dial, Connected, At, TypeOK, Holding
    <3>3. owner' \in [Fds -> ({"client", "end"} \X Conns) \cup {NULL}]
      <4>1. owner' = [owner EXCEPT ![f] = EndServer(k)]
        BY <2>9 DEF ConnectEndServer, Dial, Connected, Open
      <4> QED
        BY <4>1 DEF TypeOK, EndServer
    <3>4. /\ END_SERVER_SOCKET' \in [Conns -> Fds \cup {NULL}]
          /\ end_addr' \in [Conns -> Addrs \cup {NULL}]
      <4>1. /\ END_SERVER_SOCKET' = [END_SERVER_SOCKET EXCEPT ![k] = f]
            /\ end_addr' = [end_addr EXCEPT ![k] = a]
        BY <2>9 DEF ConnectEndServer, Dial, Connected
      <4>2. END_SERVER_SOCKET \in [Conns -> Fds \cup {NULL}] /\ end_addr \in [Conns -> Addrs \cup {NULL}]
        BY DEF TypeOK
      <4> QED
        BY <4>1, <4>2
    <3>5. UNCHANGED <<acceptVars, SOCKET, req, gone, SEMAPHORE, gauges, listVars,
                      cached>>
      BY <2>9 DEF ConnectEndServer, Dial, Connected
    <3> QED
      BY <3>1, <3>2, <3>3, <3>4, <3>5 DEF TypeOK, Goto, Positions, Holding
  <2>10. ASSUME NEW next \in {"end", "error"}, Hangup(k, next), cached' \subseteq Requests,
                req[k] \in Requests
         PROVE  TypeOK'
    <3>1. owner' \in [Fds -> ({"client", "end"} \X Conns) \cup {NULL}]
      BY <2>10, CloseType DEF Hangup
    <3> QED
      BY <2>10, <3>1 DEF TypeOK, Hangup, Goto, Positions, Holding
  <2>11. CASE ExchangeFails(k) \/ TunnelEnd(k)
    BY <2>10, <2>11 DEF ExchangeFails, TunnelEnd, At, TypeOK, Holding
  <2>12. ASSUME NEW stored \in BOOLEAN, FetchDone(k, stored)
         PROVE  TypeOK'
    BY <2>10, <2>12 DEF FetchDone, At, TypeOK, Holding
  <2>13. CASE Epilogue(k)
    <3>1. owner' \in [Fds -> ({"client", "end"} \X Conns) \cup {NULL}]
      BY <2>13, CloseType DEF Epilogue
    <3>2. active_connections' \in Nat /\ ipv6_active_connections' \in Nat
      <4>1. /\ active_connections' = Decremented(active_connections)
            /\ ipv6_active_connections' \in
                 {Decremented(ipv6_active_connections), ipv6_active_connections}
        BY <2>13 DEF Epilogue
      <4>2. active_connections \in Nat /\ ipv6_active_connections \in Nat
        BY DEF TypeOK
      <4>3. \A gauge \in Nat : Decremented(gauge) \in Nat
        BY DEF Decremented
      <4> QED
        BY <4>1, <4>2, <4>3
    <3>3. /\ Goto(k, "post")
          /\ UNCHANGED <<acceptVars, workerVars, gone, SEMAPHORE, listVars, cached>>
      BY <2>13 DEF Epilogue
    <3> QED
      BY <3>1, <3>2, <3>3 DEF TypeOK, Goto, Positions, Holding
  <2>14. CASE SemPost(k)
    BY <2>14 DEF TypeOK, SemPost, At, Goto, Positions, Holding
  <2> QED
    BY <1>2, <2>1, <2>2, <2>3, <2>4, <2>5, <2>6, <2>7, <2>8, <2>9, <2>11, <2>12,
       <2>13, <2>14 DEF Worker
<1>3. ASSUME NEW k \in Conns, Disconnect(k)
      PROVE  TypeOK'
  BY <1>3 DEF TypeOK, Disconnect
<1>4. ASSUME NEW k \in Conns, BrokenPipe(k)
      PROVE  TypeOK'
  BY <1>4 DEF TypeOK, BrokenPipe
<1>5. CASE FilterReload
  BY <1>5 DEF TypeOK, FilterReload
<1>6. CASE UNCHANGED vars
  BY <1>6 DEF TypeOK, vars
<1> QED
  BY <1>1, <1>2, <1>3, <1>4, <1>5, <1>6 DEF Next

\* The variables of the server keep their types: in particular the semaphore and the
\* gauges never go below zero, and a worker past the receive loop has a request.
THEOREM ServerTypeCorrect == Spec => []TypeOK
<1>1. Init => TypeOK
  BY InitType
<1>2. TypeOK /\ [Next]_vars => TypeOK'
  BY NextType
<1> QED
  BY <1>1, <1>2, PTL DEF Spec

-----------------------------------------------------------------------------
(* Permits *)

\* A slot that was not handed out has no worker; without this AcceptCreate could
\* overwrite the position of a worker that holds a permit.
Fresh == \A k \in Conns : k >= ITERATOR => pc[k] = "none"

\* A step of the worker that keeps it on its side of the semaphore.
KeepsPermit(k) ==
  /\ SEMAPHORE' = SEMAPHORE
  /\ \E where \in Positions :
       /\ pc' = [pc EXCEPT ![k] = where]
       /\ pc[k] \in Holding <=> where \in Holding
       /\ pc[k] # "none"

\* A worker takes a permit, gives one back, or keeps what it has.
LEMMA WorkerPermit ==
  ASSUME TypeOK, NEW k \in Conns, Worker(k)
  PROVE  SemWait(k) \/ SemPost(k) \/ KeepsPermit(k)
<1> USE DEF Positions, Holding, At, Goto, KeepsPermit
<1>1. CASE Start(k)
  BY <1>1 DEF Start
<1>2. CASE RecvUnusable(k) \/ Refuse(k) \/ DropRelative(k)
  BY <1>2 DEF RecvUnusable, Refuse, DropRelative, EarlyExit
<1>3. ASSUME NEW r \in Requests, RecvRequest(k, r)
      PROVE  KeepsPermit(k)
  BY <1>3 DEF RecvRequest
<1>4. CASE CheckAuth(k) \/ CheckDomain(k) \/ CheckUrl(k)
  BY <1>4 DEF CheckAuth, CheckDomain, CheckUrl, Checked
<1>5. CASE FindCacheHit(k) \/ FindCacheMiss(k) \/ Answered(k) \/ ConnectFails(k)
  BY <1>5 DEF FindCacheHit, FindCacheMiss, Answered, ConnectFails
<1>6. ASSUME NEW a \in Addrs, NEW f \in Fds,
             ConnectEndServer(k, a, f) \/ Dial(k, a, f)
      PROVE  KeepsPermit(k)
  BY <1>6 DEF ConnectEndServer, Dial, Connected
<1>7. CASE ExchangeFails(k) \/ TunnelEnd(k)
  BY <1>7 DEF ExchangeFails, TunnelEnd, Hangup
<1>8. ASSUME NEW stored \in BOOLEAN, FetchDone(k, stored)
      PROVE  KeepsPermit(k)
  BY <1>8 DEF FetchDone, Hangup
<1>9. CASE Epilogue(k)
  BY <1>9 DEF Epilogue
<1> QED
  BY <1>1, <1>2, <1>3, <1>4, <1>5, <1>6, <1>7, <1>8, <1>9 DEF Worker

\* No worker touches the slots or the iterator of the accept loop.
LEMMA WorkerLeavesSlots ==
  ASSUME NEW k \in Conns, Worker(k)
  PROVE  UNCHANGED acceptVars
BY DEF Worker, Start, SemWait, RecvUnusable, RecvRequest, CheckAuth, CheckDomain,
   CheckUrl, Checked, Refuse, FindCacheHit, FindCacheMiss, DropRelative, Answered,
   ConnectEndServer, Dial, Connected, ConnectFails, ExchangeFails, TunnelEnd,
   FetchDone, Hangup, Epilogue, SemPost, EarlyExit, acceptVars

\* There are finitely many connections, so finitely many hold a permit.
LEMMA HoldersFinite == IsFiniteSet(Holders)
<1>1. IsFiniteSet(Conns)
  BY FS_Interval, ServerAssumption DEF Conns
<1> QED
  BY <1>1, FS_Subset DEF Holders

\* The step of one worker between two positions adds it to the holders, removes it
\* from them or leaves them as they are.
LEMMA HoldersMove ==
  ASSUME TypeOK, NEW k \in Conns, NEW where \in Positions,
         pc' = [pc EXCEPT ![k] = where]
  PROVE  Holders' = IF where \in Holding THEN Holders \cup {k} ELSE Holders \ {k}
BY DEF TypeOK, Holders

\* The three facts that an induction over the server's steps needs.
PermitInv == TypeOK /\ Fresh /\ PermitConservation

\* Every step keeps the sum of free and held permits.
LEMMA NextPermit == PermitInv /\ [Next]_vars => PermitInv'
<1> SUFFICES ASSUME TypeOK, Fresh, PermitConservation, [Next]_vars
             PROVE  PermitInv'
  BY DEF PermitInv
<1>t. TypeOK'
  BY NextType
<1>f. IsFiniteSet(Holders) /\ Cardinality(Holders) \in Nat
  BY HoldersFinite, FS_CardinalityType
<1>s. SEMAPHORE \in Nat /\ sem_permits \in Nat /\ ITERATOR \in 0 .. MaxConns
  BY ServerAssumption DEF TypeOK
<1>1. ASSUME UNCHANGED <<pc, ITERATOR, SEMAPHORE>>
      PROVE  PermitInv'
  BY <1>1, <1>t DEF PermitInv, Fresh, PermitConservation, Holders
<1>2. ASSUME NEW f \in Fds, NEW created \in BOOLEAN, AcceptCreate(f, created)
      PROVE  PermitInv'
  <2>1. ITERATOR \in Conns /\ ITERATOR < MaxConns /\ ITERATOR' = ITERATOR + 1
    BY <1>2, <1>s, ServerAssumption DEF AcceptCreate, Conns
  <2>2. PICK where \in {"created", "lost"} : pc' = [pc EXCEPT ![ITERATOR] = where]
    BY <1>2 DEF AcceptCreate
  <2>3. pc[ITERATOR] = "none"
    BY <2>1, <1>s DEF Fresh
  <2>4. Holders' = Holders
    BY <2>1, <2>2, <2>3, HoldersMove DEF Holders, Positions, Holding
  <2>5. SEMAPHORE' = SEMAPHORE
    BY <1>2 DEF AcceptCreate
  <2>6. Fresh'
    <3> SUFFICES ASSUME NEW j \in Conns, j >= ITERATOR'
                 PROVE  pc'[j] = "none"
      BY DEF Fresh
    <3>1. j # ITERATOR /\ j >= ITERATOR
      BY <2>1, <1>s DEF Conns
    <3>2. pc'[j] = pc[j]
      BY <3>1, <2>2 DEF TypeOK
    <3> QED
      BY <3>1, <3>2 DEF Fresh
  <2> QED
    BY <2>4, <2>5, <2>6, <1>t DEF PermitInv, PermitConservation
<1>3. ASSUME NEW k \in Conns, Worker(k)
      PROVE  PermitInv'
  <2>1. ITERATOR' = ITERATOR
    BY <1>3, WorkerLeavesSlots DEF acceptVars
  <2>2. ASSUME NEW where \in Positions, pc[k] # "none",
               pc' = [pc EXCEPT ![k] = where]
        PROVE  Fresh'
    BY <2>1, <2>2 DEF Fresh, TypeOK
  <2>3. CASE SemWait(k)
    <3>1. /\ pc[k] = "waiting" /\ pc' = [pc EXCEPT ![k] = "recv"]
          /\ SEMAPHORE' = SEMAPHORE - 1
      BY <2>3 DEF SemWait, At, Goto
    <3>2. k \notin Holders /\ Holders' = Holders \cup {k}
      BY <3>1, HoldersMove DEF Holders, Positions, Holding
    <3>3. Cardinality(Holders') = Cardinality(Holders) + 1
      BY <3>2, <1>f, FS_AddElement
    <3>4. Fresh'
      BY <2>2, <3>1 DEF Positions, Holding
    <3> QED
      BY <3>1, <3>3, <3>4, <1>t, <1>f, <1>s DEF PermitInv, PermitConservation
  <2>4. CASE SemPost(k)
    <3>1. /\ pc[k] = "post" /\ pc' = [pc EXCEPT ![k] = "done"]
          /\ SEMAPHORE' = SEMAPHORE + 1
      BY <2>4 DEF SemPost, At, Goto
    <3>2. k \in Holders /\ Holders' = Holders \ {k}
      BY <3>1, HoldersMove DEF Holders, Positions, Holding
    <3>3. Cardinality(Holders') = Cardinality(Holders) - 1
      BY <3>2, <1>f, FS_RemoveElement
    <3>4. Fresh'
      BY <2>2, <3>1 DEF Positions, Holding
    <3> QED
      BY <3>1, <3>3, <3>4, <1>t, <1>f, <1>s DEF PermitInv, PermitConservation
  <2>5. CASE KeepsPermit(k)
    <3>1. PICK where \in Positions : /\ pc' = [pc EXCEPT ![k] = where]
                                     /\ pc[k] \in Holding <=> where \in Holding
                                     /\ pc[k] # "none"
      BY <2>5 DEF KeepsPermit
    <3>2. Holders' = Holders
      BY <3>1, HoldersMove DEF Holders
    <3>3. Fresh'
      BY <2>2, <3>1
    <3> QED
      BY <2>5, <3>2, <3>3, <1>t DEF PermitInv, PermitConservation, KeepsPermit
  <2> QED
    BY <1>3, <2>3, <2>4, <2>5, WorkerPermit
<1>4. CASE AcceptDenied \/ AcceptFails \/ SlotOverrun \/ FilterReload
  BY <1>4, <1>1 DEF AcceptDenied, AcceptFails, SlotOverrun, FilterReload, acceptVars
<1>5. ASSUME NEW k \in Conns, Disconnect(k) \/ BrokenPipe(k)
      PROVE  PermitInv'
  BY <1>5, <1>1 DEF Disconnect, BrokenPipe, acceptVars
<1>6. CASE UNCHANGED vars
  BY <1>6, <1>1 DEF vars
<1> QED
  BY <1>2, <1>3, <1>4, <1>5, <1>6 DEF Next, Accept

\* Initially no worker holds a permit.
LEMMA InitPermit == Init => PermitInv
<1> SUFFICES ASSUME Init PROVE PermitInv
  OBVIOUS
<1>1. Holders = {}
  BY DEF Init, Holders, Holding
<1>2. Cardinality(Holders) = 0
  BY <1>1, FS_EmptySet
<1>3. SEMAPHORE = sem_permits /\ Fresh
  BY DEF Init, Fresh
<1> QED
  BY <1>2, <1>3, InitType, ServerAssumption DEF PermitInv, PermitConservation

\* No exit of THREAD_ROUTINE loses a permit or returns one twice: free permits and
\* workers that hold one always add up to the value the semaphore began with.
THEOREM PermitsConserved == Spec => []PermitConservation
<1>1. Init => PermitInv
  BY InitPermit
<1>2. PermitInv /\ [Next]_vars => PermitInv'
  BY NextPermit
<1>3. PermitInv => PermitConservation
  BY DEF PermitInv
<1> QED
  BY <1>1, <1>2, <1>3, PTL DEF Spec

-----------------------------------------------------------------------------
(* Descriptors *)

\* The positions of a worker in InFlight without a socket to an end server.
Alone == (Holding \cup {"waiting"}) \ {"post", "fetch", "tunnel"}

\* Each worker's sockets are open for its own connection.
Owned ==
  \A k \in Conns :
    /\ pc[k] = "created" => /\ CONNECTED_SOCKET_ID[k] \in Fds
                            /\ owner[CONNECTED_SOCKET_ID[k]] = Client(k)
    /\ pc[k] \in Alone \cup {"fetch", "tunnel"} =>
         SOCKET[k] \in Fds /\ owner[SOCKET[k]] = Client(k)
    /\ pc[k] \in {"fetch", "tunnel"} =>
         END_SERVER_SOCKET[k] \in Fds /\ owner[END_SERVER_SOCKET[k]] = EndServer(k)

\* And nothing else is open.
NothingElse ==
  \A f \in Fds, k \in Conns :
    /\ owner[f] = Client(k) =>
         \/ pc[k] \in {"created", "lost"} /\ CONNECTED_SOCKET_ID[k] = f
         \/ pc[k] \in Alone \cup {"fetch", "tunnel"} /\ SOCKET[k] = f
    /\ owner[f] = EndServer(k) =>
         pc[k] \in {"fetch", "tunnel"} /\ END_SERVER_SOCKET[k] = f

\* The descriptors as they are while the slots last.
Descriptors == ITERATOR <= max_clients => Owned /\ NothingElse

\* Connection ends are told apart, and no end is NULL.
LEMMA EndsDistinct ==
  ASSUME NEW j \in Conns, NEW k \in Conns
  PROVE  /\ Client(j) = Client(k) => j = k
         /\ EndServer(j) = EndServer(k) => j = k
         /\ Client(j) # EndServer(k)
         /\ Client(k) # NULL /\ EndServer(k) # NULL
BY ServerAssumption DEF Client, EndServer

\* A worker moves between positions that need no more than its client socket.
LEMMA MoveDescriptors ==
  ASSUME TypeOK, Owned, NothingElse, NEW k \in Conns, pc[k] \in Alone,
         NEW where \in Alone, pc' = [pc EXCEPT ![k] = where],
         UNCHANGED <<CONNECTED_SOCKET_ID, owner, SOCKET, END_SERVER_SOCKET>>
  PROVE  Owned' /\ NothingElse'
<1>1. \A j \in Conns : pc'[j] = IF j = k THEN where ELSE pc[j]
  BY DEF TypeOK
<1>2. Owned'
  BY <1>1 DEF Owned, Alone, Holding
<1>3. NothingElse'
  BY <1>1 DEF NothingElse, Alone, Holding
<1> QED
  BY <1>2, <1>3

\* A worker closes its client socket on the way out.
LEMMA CloseDescriptors ==
  ASSUME TypeOK, Owned, NothingElse, NEW k \in Conns, pc[k] \in Alone,
         pc' = [pc EXCEPT ![k] = "post"], close({SOCKET[k]}),
         UNCHANGED <<CONNECTED_SOCKET_ID, SOCKET, END_SERVER_SOCKET>>
  PROVE  Owned' /\ NothingElse'
<1>1. \A f \in Fds : owner'[f] = IF f = SOCKET[k] THEN NULL ELSE owner[f]
  BY DEF close
<1>2. SOCKET[k] \in Fds /\ owner[SOCKET[k]] = Client(k)
  BY DEF Owned
<1>3. \A j \in Conns : pc'[j] = IF j = k THEN "post" ELSE pc[j]
  BY DEF TypeOK
<1>4. Owned'
  BY <1>1, <1>2, <1>3, EndsDistinct DEF Owned, Alone, Holding
<1>5. NothingElse'
  BY <1>1, <1>2, <1>3, EndsDistinct DEF NothingElse, Alone, Holding
<1> QED
  BY <1>4, <1>5

\* A worker reads its slot, which is inside the allocation.
LEMMA StartDescriptors ==
  ASSUME TypeOK, Owned, NothingElse, NEW k \in Conns, pc[k] = "created",
         pc' = [pc EXCEPT ![k] = "waiting"],
         SOCKET' = [SOCKET EXCEPT ![k] = CONNECTED_SOCKET_ID[k]],
         UNCHANGED <<CONNECTED_SOCKET_ID, owner, END_SERVER_SOCKET>>
  PROVE  Owned' /\ NothingElse'
<1>1. \A j \in Conns : /\ pc'[j] = IF j = k THEN "waiting" ELSE pc[j]
                       /\ SOCKET'[j] = IF j = k THEN CONNECTED_SOCKET_ID[k] ELSE SOCKET[j]
  BY DEF TypeOK
<1>2. Owned'
  BY <1>1 DEF Owned, Alone, Holding
<1>3. NothingElse'
  BY <1>1 DEF NothingElse, Alone, Holding
<1> QED
  BY <1>2, <1>3

\* A free descriptor becomes a worker's socket to an end server.
LEMMA ConnectedDescriptors ==
  ASSUME TypeOK, Owned, NothingElse, NEW k \in Conns, pc[k] \in Alone,
         NEW where \in {"fetch", "tunnel"}, pc' = [pc EXCEPT ![k] = where],
         NEW f \in Fds, owner[f] = NULL, Open(f, EndServer(k)),
         END_SERVER_SOCKET' = [END_SERVER_SOCKET EXCEPT ![k] = f],
         UNCHANGED <<CONNECTED_SOCKET_ID, SOCKET>>
  PROVE  Owned' /\ NothingElse'
<1>1. \A j \in Conns : /\ pc'[j] = IF j = k THEN where ELSE pc[j]
                       /\ END_SERVER_SOCKET'[j] = IF j = k THEN f ELSE END_SERVER_SOCKET[j]
  BY DEF TypeOK
<1>2. \A g \in Fds : owner'[g] = IF g = f THEN EndServer(k) ELSE owner[g]
  BY DEF TypeOK, Open
<1>3. Owned'
  BY <1>1, <1>2, EndsDistinct DEF Owned, Alone, Holding
<1>4. NothingElse'
  BY <1>1, <1>2, EndsDistinct DEF NothingElse, Alone, Holding
<1> QED
  BY <1>3, <1>4

\* HandleRequest and HandleConnect close their socket and return.
LEMMA HangupDescriptors ==
  ASSUME TypeOK, Owned, NothingElse, NEW k \in Conns, pc[k] \in {"fetch", "tunnel"},
         NEW where \in Alone, Hangup(k, where)
  PROVE  Owned' /\ NothingElse'
<1>1. \A j \in Conns :
        /\ pc'[j] = IF j = k THEN where ELSE pc[j]
        /\ END_SERVER_SOCKET'[j] = IF j = k THEN NULL ELSE END_SERVER_SOCKET[j]
  BY DEF TypeOK, Hangup, Goto
<1>2. \A g \in Fds : owner'[g] = IF g = END_SERVER_SOCKET[k] THEN NULL ELSE owner[g]
  BY DEF Hangup, close
<1>3. /\ END_SERVER_SOCKET[k] \in Fds
      /\ owner[END_SERVER_SOCKET[k]] = EndServer(k)
  BY DEF Owned
<1>4. UNCHANGED <<CONNECTED_SOCKET_ID, SOCKET>>
  BY DEF Hangup, acceptVars
<1>5. Owned'
  BY <1>1, <1>2, <1>3, <1>4, EndsDistinct DEF Owned, Alone, Holding
<1>6. NothingElse'
  BY <1>1, <1>2, <1>3, <1>4, EndsDistinct DEF NothingElse, Alone, Holding
<1> QED
  BY <1>5, <1>6

\* Every step of a worker keeps the descriptors in order.
LEMMA WorkerDescriptors ==
  ASSUME TypeOK, Fresh, Owned, NothingElse, ITERATOR <= max_clients,
         NEW k \in Conns, Worker(k)
  PROVE  Owned' /\ NothingElse'
<1> USE DEF acceptVars, workerVars
<1>1. CASE Start(k)
  <2>0. k \in Nat /\ ITERATOR \in Nat /\ max_clients \in Nat
    <3>1. ITERATOR \in 0 .. MaxConns
      BY DEF TypeOK
    <3>2. k \in 0 .. MaxConns - 1
      BY DEF Conns
    <3> QED
      BY <3>1, <3>2, ServerAssumption
  <2>1. k < ITERATOR
    <3>1. pc[k] # "none"
      BY <1>1 DEF Start, At
    <3>2. ~(k >= ITERATOR)
      BY <3>1 DEF Fresh
    <3> QED
      BY <3>2, <2>0
  <2>2. k < max_clients
    BY <2>0, <2>1
  <2>3. SOCKET' = [SOCKET EXCEPT ![k] = CONNECTED_SOCKET_ID[k]]
    BY <1>1, <2>2 DEF Start, SlotValues
  <2>4. /\ pc[k] = "created" /\ pc' = [pc EXCEPT ![k] = "waiting"]
        /\ UNCHANGED <<CONNECTED_SOCKET_ID, owner, END_SERVER_SOCKET>>
    BY <1>1 DEF Start, At, Goto
  <2> QED
    BY <2>3, <2>4, StartDescriptors
<1>2. ASSUME pc[k] \in Alone, NEW where \in Alone, Goto(k, where),
             UNCHANGED <<CONNECTED_SOCKET_ID, owner, SOCKET, END_SERVER_SOCKET>>
      PROVE  Owned' /\ NothingElse'
  BY <1>2, MoveDescriptors DEF Goto
<1>3. CASE SemWait(k)
  BY <1>2, <1>3 DEF SemWait, At, Alone, Holding
<1>4. ASSUME NEW r \in Requests, RecvRequest(k, r)
      PROVE  Owned' /\ NothingElse'
  BY <1>2, <1>4 DEF RecvRequest, At, Alone, Holding
<1>5. CASE CheckAuth(k) \/ CheckDomain(k) \/ CheckUrl(k)
  <2>1. PICK where \in {"refuse", "domain", "url", "lookup"} : Goto(k, where)
    BY <1>5 DEF CheckAuth, CheckDomain, CheckUrl, Checked
  <2>2. /\ pc[k] \in {"auth", "domain", "url"}
        /\ UNCHANGED <<CONNECTED_SOCKET_ID, owner, SOCKET, END_SERVER_SOCKET>>
    BY <1>5 DEF CheckAuth, CheckDomain, CheckUrl, Checked, At
  <2> QED
    BY <1>2, <2>1, <2>2 DEF Alone, Holding
<1>6. CASE FindCacheHit(k) \/ FindCacheMiss(k) \/ Answered(k) \/ ConnectFails(k)
  <2>1. PICK where \in {"hit", "error", "dial", "connect", "end"} : Goto(k, where)
    BY <1>6 DEF FindCacheHit, FindCacheMiss, Answered, ConnectFails
  <2>2. /\ pc[k] \in {"lookup", "hit", "error", "connect", "dial"}
        /\ UNCHANGED <<CONNECTED_SOCKET_ID, owner, SOCKET, END_SERVER_SOCKET>>
    BY <1>6 DEF FindCacheHit, FindCacheMiss, Answered, ConnectFails, At
  <2> QED
    BY <1>2, <2>1, <2>2 DEF Alone, Holding
<1>7. CASE RecvUnusable(k) \/ Refuse(k) \/ DropRelative(k) \/ Epilogue(k)
  <2>1. /\ pc[k] \in {"recv", "refuse", "lookup", "end"}
        /\ pc' = [pc EXCEPT ![k] = "post"] /\ close({SOCKET[k]})
        /\ UNCHANGED <<CONNECTED_SOCKET_ID, SOCKET, END_SERVER_SOCKET>>
    BY <1>7 DEF RecvUnusable, Refuse, DropRelative, Epilogue, EarlyExit, At, Goto
  <2> QED
    BY <2>1, CloseDescriptors DEF Alone, Holding
<1>8. ASSUME NEW a \in Addrs, NEW f \in Fds,
             ConnectEndServer(k, a, f) \/ Dial(k, a, f)
      PROVE  Owned' /\ NothingElse'
  <2>1. PICK where \in {"fetch", "tunnel"} : pc' = [pc EXCEPT ![k] = where]
    BY <1>8 DEF ConnectEndServer, Dial, Connected, Goto
  <2>2. /\ pc[k] \in {"connect", "dial"} /\ owner[f] = NULL
        /\ Open(f, EndServer(k))
        /\ END_SERVER_SOCKET' = [END_SERVER_SOCKET EXCEPT ![k] = f]
        /\ UNCHANGED <<CONNECTED_SOCKET_ID, SOCKET>>
    BY <1>8 DEF ConnectEndServer, Dial, Connected, At, Free
  <2> QED
    BY <2>1, <2>2, ConnectedDescriptors DEF Alone, Holding
<1>9. CASE ExchangeFails(k) \/ TunnelEnd(k)
  BY <1>9, HangupDescriptors DEF ExchangeFails, TunnelEnd, At, Alone, Holding
<1>10. ASSUME NEW stored \in BOOLEAN, FetchDone(k, stored)
       PROVE  Owned' /\ NothingElse'
  BY <1>10, HangupDescriptors DEF FetchDone, At, Alone, Holding
<1>11. CASE SemPost(k)
  <2>1. /\ pc[k] = "post" /\ pc' = [pc EXCEPT ![k] = "done"]
        /\ UNCHANGED <<CONNECTED_SOCKET_ID, owner, SOCKET, END_SERVER_SOCKET>>
    BY <1>11 DEF SemPost, At, Goto
  <2>2. \A j \in Conns : pc'[j] = IF j = k THEN "done" ELSE pc[j]
    BY <2>1 DEF TypeOK
  <2>3. Owned'
    BY <2>1, <2>2 DEF Owned, Alone, Holding
  <2>4. NothingElse'
    BY <2>1, <2>2 DEF NothingElse, Alone, Holding
  <2> QED
    BY <2>3, <2>4
<1> QED
  BY <1>1, <1>3, <1>4, <1>5, <1>6, <1>7, <1>8, <1>9, <1>10, <1>11 DEF Worker

\* The accept loop opens a free descriptor for the next slot.
LEMMA AcceptDescriptors ==
  ASSUME TypeOK, Fresh, Owned, NothingElse, NEW f \in Fds, NEW created \in BOOLEAN,
         AcceptCreate(f, created)
  PROVE  Owned' /\ NothingElse'
<1>1. ITERATOR \in Conns /\ pc[ITERATOR] = "none"
  BY ServerAssumption DEF AcceptCreate, Fresh, TypeOK, Conns
<1>2. PICK where \in {"created", "lost"} : pc' = [pc EXCEPT ![ITERATOR] = where]
  BY DEF AcceptCreate
<1>3. /\ owner[f] = NULL /\ Open(f, Client(ITERATOR))
      /\ CONNECTED_SOCKET_ID' = [CONNECTED_SOCKET_ID EXCEPT ![ITERATOR] = f]
      /\ UNCHANGED <<SOCKET, END_SERVER_SOCKET>>
  BY DEF AcceptCreate, Free, workerVars
<1>4. \A j \in Conns :
        /\ pc'[j] = IF j = ITERATOR THEN where ELSE pc[j]
        /\ CONNECTED_SOCKET_ID'[j] = IF j = ITERATOR THEN f ELSE CONNECTED_SOCKET_ID[j]
  BY <1>2, <1>3 DEF TypeOK
<1>5. \A g \in Fds : owner'[g] = IF g = f THEN Client(ITERATOR) ELSE owner[g]
  BY <1>3 DEF TypeOK, Open
<1>6. Owned'
  BY <1>1, <1>3, <1>4, <1>5, EndsDistinct DEF Owned, Alone, Holding
<1>7. NothingElse'
  BY <1>1, <1>3, <1>4, <1>5, EndsDistinct DEF NothingElse, Alone, Holding
<1> QED
  BY <1>6, <1>7

\* The denial of a peer touches only the slot of a connection that does not exist.
LEMMA DeniedDescriptors ==
  ASSUME TypeOK, Fresh, Owned, NothingElse, AcceptDenied
  PROVE  Owned' /\ NothingElse'
<1>1. /\ ITERATOR \in Conns /\ pc[ITERATOR] = "none"
  BY ServerAssumption DEF AcceptDenied, Fresh, TypeOK, Conns
<1>2. \A j \in Conns : j # ITERATOR => CONNECTED_SOCKET_ID'[j] = CONNECTED_SOCKET_ID[j]
  BY DEF AcceptDenied, TypeOK
<1>3. UNCHANGED <<owner, pc, SOCKET, END_SERVER_SOCKET>>
  BY DEF AcceptDenied, workerVars
<1>4. Owned'
  BY <1>1, <1>2, <1>3 DEF Owned, Alone, Holding
<1>5. NothingElse'
  BY <1>1, <1>2, <1>3 DEF NothingElse, Alone, Holding
<1> QED
  BY <1>4, <1>5

\* The inductive invariant of the descriptors.
DescriptorInv == PermitInv /\ Descriptors

\* Every step of the server keeps it.
LEMMA NextDescriptors == DescriptorInv /\ [Next]_vars => DescriptorInv'
<1> SUFFICES ASSUME PermitInv, Descriptors, [Next]_vars PROVE Descriptors'
  BY NextPermit DEF DescriptorInv
<1>0. TypeOK /\ Fresh
  BY DEF PermitInv
<1> SUFFICES ASSUME ITERATOR' <= max_clients PROVE Owned' /\ NothingElse'
  BY DEF Descriptors
<1>1. ASSUME UNCHANGED <<ITERATOR, CONNECTED_SOCKET_ID, owner, pc, SOCKET,
                         END_SERVER_SOCKET>>
      PROVE  Owned' /\ NothingElse'
  BY <1>1 DEF Descriptors, Owned, NothingElse
<1>2. ASSUME NEW f \in Fds, NEW created \in BOOLEAN, AcceptCreate(f, created)
      PROVE  Owned' /\ NothingElse'
  <2>1. ITERATOR <= max_clients
    BY <1>0, <1>2, ServerAssumption DEF AcceptCreate, TypeOK
  <2> QED
    BY <1>0, <1>2, <2>1, AcceptDescriptors DEF Descriptors
<1>3. CASE AcceptDenied
  BY <1>0, <1>3, DeniedDescriptors DEF Descriptors, AcceptDenied
<1>4. ASSUME NEW k \in Conns, Worker(k)
      PROVE  Owned' /\ NothingElse'
  <2>1. ITERATOR' = ITERATOR
    BY <1>4, WorkerLeavesSlots DEF acceptVars
  <2> QED
    BY <1>0, <1>4, <2>1, WorkerDescriptors DEF Descriptors
<1>5. CASE AcceptFails \/ SlotOverrun \/ FilterReload
  BY <1>1, <1>5 DEF AcceptFails, SlotOverrun, FilterReload, acceptVars, workerVars
<1>6. ASSUME NEW k \in Conns, Disconnect(k) \/ BrokenPipe(k)
      PROVE  Owned' /\ NothingElse'
  BY <1>1, <1>6 DEF Disconnect, BrokenPipe, acceptVars, workerVars
<1>7. CASE UNCHANGED vars
  BY <1>1, <1>7 DEF vars
<1> QED
  BY <1>2, <1>3, <1>4, <1>5, <1>6, <1>7 DEF Next, Accept

\* In every reachable state the descriptors are in order.
LEMMA DescriptorsInOrder == Spec => []DescriptorInv
<1>1. Init => DescriptorInv
  <2> SUFFICES ASSUME Init PROVE DescriptorInv
    OBVIOUS
  <2>1. PermitInv
    BY InitPermit
  <2>2. Owned /\ NothingElse
    BY EndsDistinct DEF Init, Owned, NothingElse, Alone, Holding
  <2> QED
    BY <2>1, <2>2 DEF DescriptorInv, Descriptors
<1>2. DescriptorInv /\ [Next]_vars => DescriptorInv'
  BY NextDescriptors
<1> QED
  BY <1>1, <1>2, PTL DEF Spec

\* While the slots last, each worker reads and writes the descriptor accepted for
\* its own connection, however descriptors are closed and reused around it.
THEOREM OwnSocketAlways == Spec => []OwnSocket
<1>1. DescriptorInv => OwnSocket
  BY DEF DescriptorInv, Descriptors, Owned, OwnSocket, InFlight, Alone, Holding
<1> QED
  BY <1>1, DescriptorsInOrder, PTL

\* While the slots last, every open descriptor has a worker that still closes it,
\* or belongs to a connection whose thread could not be created.
THEOREM DescriptorsNotLeaked == Spec => []NoDescriptorLeak
<1>1. DescriptorInv => NoDescriptorLeak
  <2> SUFFICES ASSUME TypeOK, NothingElse, NEW f \in Fds, owner[f] # NULL
               PROVE  \E k \in Conns :
                        \/ /\ owner[f] = Client(k)
                           /\ k \in InFlight \/ pc[k] \in {"created", "lost"}
                        \/ /\ owner[f] = EndServer(k)
                           /\ pc[k] \in {"fetch", "tunnel"}
                           /\ END_SERVER_SOCKET[k] = f
    BY DEF DescriptorInv, PermitInv, Descriptors, NoDescriptorLeak
  <2>1. PICK k \in Conns : owner[f] = Client(k) \/ owner[f] = EndServer(k)
    <3>1. owner[f] \in {"client", "end"} \X Conns
      BY DEF TypeOK
    <3>2. PICK end \in {"client", "end"}, k \in Conns : owner[f] = <<end, k>>
      BY <3>1
    <3> QED
      BY <3>2 DEF Client, EndServer
  <2> QED
    <3>1. CASE owner[f] = Client(k)
      <4>1. pc[k] \in {"created", "lost"} \cup Alone \cup {"fetch", "tunnel"}
        BY <3>1 DEF NothingElse
      <4> QED
        BY <3>1, <4>1 DEF InFlight, Alone, Holding
    <3>2. CASE owner[f] = EndServer(k)
      BY <3>2 DEF NothingElse
    <3> QED
      BY <2>1, <3>1, <3>2
<1> QED
  BY <1>1, DescriptorsInOrder, PTL

-----------------------------------------------------------------------------
(* Checks *)

\* What the checks have established about the request of k.
AuthPassed(k) == enable_auth => req[k].auth
HostPassed(k) == \E lists \in inforce[k] : req[k].host \notin lists.hosts
PathPassed(k) == \E lists \in inforce[k] : req[k].path \notin lists.paths
AllPassed(k) == req[k].parse = "ok" /\ AuthPassed(k) /\ HostPassed(k) /\ PathPassed(k)

\* The part of the invariant about one worker: what it has passed at each position.
\* A request that did not parse reaches the lookup without a check.
Passed(k) ==
  /\ pc[k] \in Undecided => filters \in inforce[k]
  /\ pc[k] \in {"auth", "domain", "url"} => req[k].parse = "ok"
  /\ pc[k] \in {"domain", "url"} => AuthPassed(k)
  /\ pc[k] = "url" => HostPassed(k)
  /\ pc[k] = "lookup" /\ req[k].parse = "ok" => AllPassed(k)
  /\ pc[k] \in {"hit", "connect", "fetch", "dial", "tunnel"} => AllPassed(k)
  /\ pc[k] = "fetch" => \E lists \in inforce[k] : end_addr[k] \notin lists.addrs

\* Only requests that parsed have been cached.
CacheParsed == \A r \in cached : r.parse = "ok"

CheckInv == TypeOK /\ CacheParsed /\ \A k \in Conns : Passed(k)

\* A step that leaves the worker j and the lists alone.
LEMMA PassedStays ==
  ASSUME NEW j \in Conns, Passed(j), filters' = filters,
         pc'[j] = pc[j], req'[j] = req[j], end_addr'[j] = end_addr[j], inforce'[j] = inforce[j]
  PROVE  Passed(j)'
BY DEF Passed, AllPassed, AuthPassed, HostPassed, PathPassed

\* Past its answer, or before its request, a worker has nothing to show.
LEMMA PassedElsewhere ==
  ASSUME NEW k \in Conns,
         pc'[k] \in {"none", "created", "lost", "waiting", "recv", "refuse", "error", "end",
                     "post", "done"}
  PROVE  Passed(k)'
BY DEF Passed, Undecided

\* The worker that moves keeps its request and its lists.
LEMMA WorkerChecks ==
  ASSUME CheckInv, NEW k \in Conns, Worker(k)
  PROVE  Passed(k)' /\ CacheParsed'
<1> USE DEF acceptVars, workerVars, listVars, At, Goto
<1>0. /\ Passed(k) /\ CacheParsed
      /\ pc \in [Conns -> Positions] /\ req \in [Conns -> Requests \cup {NULL}]
      /\ end_addr \in [Conns -> Addrs \cup {NULL}]
      /\ inforce \in [Conns -> SUBSET FilterLists]
  BY DEF CheckInv, TypeOK
<1>1. CASE Start(k) \/ SemWait(k) \/ SemPost(k) \/ Epilogue(k) \/ Answered(k) \/ ConnectFails(k)
  <2>1. pc'[k] \in {"waiting", "recv", "done", "post", "end", "error"} /\ cached' = cached
    BY <1>0, <1>1 DEF Start, SemWait, SemPost, Epilogue, Answered, ConnectFails
  <2> QED
    BY <1>0, <2>1, PassedElsewhere DEF CacheParsed
<1>2. CASE RecvUnusable(k) \/ Refuse(k) \/ DropRelative(k)
  <2>1. pc'[k] = "post" /\ cached' = cached
    BY <1>0, <1>2 DEF RecvUnusable, Refuse, DropRelative, EarlyExit
  <2> QED
    BY <1>0, <2>1, PassedElsewhere DEF CacheParsed
<1>3. ASSUME NEW r \in Requests, RecvRequest(k, r)
      PROVE  Passed(k)' /\ CacheParsed'
  <2>1. /\ pc'[k] = IF r.parse = "ok" THEN "auth" ELSE "lookup"
        /\ req'[k] = r /\ inforce'[k] = {filters} /\ filters' = filters /\ cached' = cached
    BY <1>0, <1>3 DEF RecvRequest
  <2> QED
    BY <1>0, <2>1 DEF Passed, CacheParsed, Undecided
<1>4. CASE CheckAuth(k) \/ CheckDomain(k) \/ CheckUrl(k)
  <2>1. UNCHANGED <<req, inforce, filters, cached>>
    BY <1>4 DEF CheckAuth, CheckDomain, CheckUrl, Checked
  <2>2. CASE pc'[k] = "refuse"
    BY <1>0, <2>1, <2>2, PassedElsewhere DEF CacheParsed
  <2>3. CASE pc'[k] # "refuse"
    <3>1. CASE CheckAuth(k)
      <4>1. pc[k] = "auth" /\ pc'[k] = "domain" /\ (enable_auth => req[k].auth)
        BY <1>0, <2>3, <3>1 DEF CheckAuth, Checked
      <4> QED
        BY <1>0, <2>1, <4>1 DEF Passed, AuthPassed, CacheParsed, Undecided
    <3>2. CASE CheckDomain(k)
      <4>1. pc[k] = "domain" /\ pc'[k] = "url" /\ req[k].host \notin filters.hosts
        BY <1>0, <2>3, <3>2 DEF CheckDomain, Checked
      <4>2. HostPassed(k)'
        BY <1>0, <2>1, <4>1 DEF Passed, HostPassed, Undecided
      <4> QED
        BY <1>0, <2>1, <4>1, <4>2 DEF Passed, AuthPassed, CacheParsed, Undecided
    <3>3. CASE CheckUrl(k)
      <4>1. pc[k] = "url" /\ pc'[k] = "lookup" /\ req[k].path \notin filters.paths
        BY <1>0, <2>3, <3>3 DEF CheckUrl, Checked
      <4>2. PathPassed(k)'
        BY <1>0, <2>1, <4>1 DEF Passed, PathPassed, Undecided
      <4>3. AllPassed(k)'
        BY <1>0, <2>1, <4>1, <4>2 DEF Passed, AllPassed, AuthPassed, HostPassed
      <4> QED
        BY <1>0, <2>1, <4>1, <4>3 DEF Passed, CacheParsed, Undecided
    <3> QED
      BY <1>4, <3>1, <3>2, <3>3
  <2> QED
    BY <2>2, <2>3
<1>5. CASE FindCacheHit(k) \/ FindCacheMiss(k)
  <2>1. UNCHANGED <<req, inforce, filters, cached>> /\ pc[k] = "lookup"
        /\ pc'[k] \in {"hit", "error", "dial", "connect"}
    BY <1>0, <1>5 DEF FindCacheHit, FindCacheMiss
  <2>2. CASE pc'[k] = "error"
    BY <1>0, <2>1, <2>2, PassedElsewhere DEF CacheParsed
  <2>3. CASE pc'[k] # "error"
    <3>1. req[k].parse = "ok"
      <4>1. CASE FindCacheHit(k)
        BY <1>0, <4>1 DEF FindCacheHit, CacheParsed
      <4>2. CASE FindCacheMiss(k)
        <5>1. k \in Conns /\ req[k] \in Requests
          BY <2>1 DEF CheckInv, TypeOK, Holding
        <5>2. req[k].parse \in {"ok", "bad", "relative"}
          BY <5>1, RequestAssumption DEF Request
        <5>3. req[k].parse # "relative" /\ req[k].parse # "bad"
          BY <1>0, <2>3, <4>2 DEF FindCacheMiss
        <5> QED
          BY <5>2, <5>3
      <4> QED
        BY <1>5, <4>1, <4>2
    <3>2. AllPassed(k)'
      BY <1>0, <2>1, <3>1 DEF Passed, AllPassed, AuthPassed, HostPassed, PathPassed
    <3>3. filters' \in inforce'[k]
      BY <1>0, <2>1 DEF Passed, Undecided
    <3> QED
      BY <1>0, <2>1, <2>3, <3>2, <3>3 DEF Passed, CacheParsed
  <2> QED
    BY <2>2, <2>3
<1>6. ASSUME NEW a \in Addrs, NEW f \in Fds, ConnectEndServer(k, a, f) \/ Dial(k, a, f)
      PROVE  Passed(k)' /\ CacheParsed'
  <2>1. /\ UNCHANGED <<req, inforce, filters, cached>> /\ end_addr'[k] = a
        /\ \/ pc[k] = "connect" /\ pc'[k] = "fetch" /\ a \notin filters.addrs
           \/ pc[k] = "dial" /\ pc'[k] = "tunnel"
    BY <1>0, <1>6 DEF ConnectEndServer, Dial, Connected
  <2>2. AllPassed(k)'
    BY <1>0, <2>1 DEF Passed, AllPassed, AuthPassed, HostPassed, PathPassed
  <2>3. pc'[k] = "fetch" => \E lists \in inforce'[k] : end_addr'[k] \notin lists.addrs
    BY <1>0, <2>1 DEF Passed, Undecided
  <2> QED
    BY <1>0, <2>1, <2>2, <2>3 DEF Passed, CacheParsed, Undecided
<1>7. CASE ExchangeFails(k) \/ TunnelEnd(k)
  <2>1. pc'[k] \in {"end", "error"} /\ cached' = cached
    BY <1>0, <1>7 DEF ExchangeFails, TunnelEnd, Hangup
  <2> QED
    BY <1>0, <2>1, PassedElsewhere DEF CacheParsed
<1>8. ASSUME NEW stored \in BOOLEAN, FetchDone(k, stored)
      PROVE  Passed(k)' /\ CacheParsed'
  <2>1. /\ pc[k] = "fetch" /\ pc'[k] = "end"
        /\ cached' \subseteq cached \cup {req[k]}
    BY <1>0, <1>8 DEF FetchDone, Hangup
  <2>2. req[k].parse = "ok"
    BY <1>0, <2>1 DEF Passed, AllPassed
  <2> QED
    BY <1>0, <2>1, <2>2, PassedElsewhere DEF CacheParsed
<1> QED
  BY <1>1, <1>2, <1>3, <1>4, <1>5, <1>6, <1>7, <1>8 DEF Worker

\* A worker's step touches no other worker's request, lists or address.
LEMMA WorkerTouchesOwn ==
  ASSUME TypeOK, NEW k \in Conns, Worker(k), NEW j \in Conns, j # k
  PROVE  /\ pc'[j] = pc[j] /\ req'[j] = req[j] /\ end_addr'[j] = end_addr[j]
         /\ inforce'[j] = inforce[j] /\ filters' = filters
<1> USE DEF acceptVars, workerVars, listVars, Goto, TypeOK
<1>1. CASE Start(k) \/ SemWait(k) \/ SemPost(k) \/ Epilogue(k)
  BY <1>1 DEF Start, SemWait, SemPost, Epilogue
<1>2. CASE RecvUnusable(k) \/ Refuse(k) \/ DropRelative(k)
  BY <1>2 DEF RecvUnusable, Refuse, DropRelative, EarlyExit
<1>3. ASSUME NEW r \in Requests, RecvRequest(k, r)
      PROVE  /\ pc'[j] = pc[j] /\ req'[j] = req[j] /\ end_addr'[j] = end_addr[j]
             /\ inforce'[j] = inforce[j] /\ filters' = filters
  BY <1>3 DEF RecvRequest
<1>4. CASE CheckAuth(k) \/ CheckDomain(k) \/ CheckUrl(k)
  BY <1>4 DEF CheckAuth, CheckDomain, CheckUrl, Checked
<1>5. CASE FindCacheHit(k) \/ FindCacheMiss(k) \/ Answered(k) \/ ConnectFails(k)
  BY <1>5 DEF FindCacheHit, FindCacheMiss, Answered, ConnectFails
<1>6. ASSUME NEW a \in Addrs, NEW f \in Fds, ConnectEndServer(k, a, f) \/ Dial(k, a, f)
      PROVE  /\ pc'[j] = pc[j] /\ req'[j] = req[j] /\ end_addr'[j] = end_addr[j]
             /\ inforce'[j] = inforce[j] /\ filters' = filters
  BY <1>6 DEF ConnectEndServer, Dial, Connected
<1>7. CASE ExchangeFails(k) \/ TunnelEnd(k)
  BY <1>7 DEF ExchangeFails, TunnelEnd, Hangup
<1>8. ASSUME NEW stored \in BOOLEAN, FetchDone(k, stored)
      PROVE  /\ pc'[j] = pc[j] /\ req'[j] = req[j] /\ end_addr'[j] = end_addr[j]
             /\ inforce'[j] = inforce[j] /\ filters' = filters
  BY <1>8 DEF FetchDone, Hangup
<1> QED
  BY <1>1, <1>2, <1>3, <1>4, <1>5, <1>6, <1>7, <1>8 DEF Worker

\* Every step of the server keeps what the workers have passed.
LEMMA NextChecks == CheckInv /\ [Next]_vars => CheckInv'
<1> SUFFICES ASSUME CheckInv, [Next]_vars
             PROVE  CacheParsed' /\ \A j \in Conns : Passed(j)'
  BY NextType DEF CheckInv
<1>0. TypeOK /\ CacheParsed /\ \A j \in Conns : Passed(j)
  BY DEF CheckInv
<1> USE DEF acceptVars, workerVars, listVars
<1>1. ASSUME UNCHANGED <<pc, req, end_addr, inforce, filters, cached>>
      PROVE  CacheParsed' /\ \A j \in Conns : Passed(j)'
  BY <1>0, <1>1, PassedStays DEF CacheParsed
<1>2. ASSUME NEW f \in Fds, NEW created \in BOOLEAN, AcceptCreate(f, created)
      PROVE  CacheParsed' /\ \A j \in Conns : Passed(j)'
  <2>1. UNCHANGED <<req, end_addr, inforce, filters, cached>>
    BY <1>2 DEF AcceptCreate
  <2>2. ASSUME NEW j \in Conns
        PROVE  pc'[j] = pc[j] \/ pc'[j] \in {"created", "lost"}
    BY <1>0, <1>2 DEF AcceptCreate, TypeOK
  <2> QED
    BY <1>0, <2>1, <2>2, PassedStays, PassedElsewhere DEF CacheParsed
<1>3. ASSUME NEW k \in Conns, Worker(k)
      PROVE  CacheParsed' /\ \A j \in Conns : Passed(j)'
  <2>1. Passed(k)' /\ CacheParsed'
    BY <1>3, WorkerChecks
  <2>2. ASSUME NEW j \in Conns, j # k
        PROVE  Passed(j)'
    BY <1>0, <1>3, <2>2, WorkerTouchesOwn, PassedStays
  <2> QED
    BY <2>1, <2>2
<1>4. CASE AcceptDenied \/ AcceptFails \/ SlotOverrun
  BY <1>1, <1>4 DEF AcceptDenied, AcceptFails, SlotOverrun
<1>5. ASSUME NEW k \in Conns, Disconnect(k) \/ BrokenPipe(k)
      PROVE  CacheParsed' /\ \A j \in Conns : Passed(j)'
  BY <1>1, <1>5 DEF Disconnect, BrokenPipe
<1>6. CASE FilterReload
  <2>1. UNCHANGED <<pc, req, end_addr, cached>>
    BY <1>6 DEF FilterReload
  <2>2. \A j \in Conns : /\ inforce[j] \subseteq inforce'[j]
                         /\ pc[j] \in Undecided => filters' \in inforce'[j]
    BY <1>6 DEF FilterReload
  <2>3. ASSUME NEW j \in Conns
        PROVE  Passed(j)'
    BY <1>0, <2>1, <2>2 DEF Passed, AllPassed, AuthPassed, HostPassed, PathPassed
  <2> QED
    BY <1>0, <2>1, <2>3 DEF CacheParsed
<1>7. CASE UNCHANGED vars
  BY <1>1, <1>7 DEF vars
<1> QED
  BY <1>2, <1>3, <1>4, <1>5, <1>6, <1>7 DEF Next, Accept

\* In every reachable state each worker has passed the checks before its position.
LEMMA AlwaysCheckInv == Spec => []CheckInv
<1>1. Init => CheckInv
  <2> SUFFICES ASSUME Init PROVE CheckInv
    OBVIOUS
  <2>1. TypeOK
    BY InitType
  <2>2. CacheParsed /\ \A k \in Conns : Passed(k)
    BY DEF Init, CacheParsed, Passed, Undecided
  <2> QED
    BY <2>1, <2>2 DEF CheckInv
<1> QED
  BY <1>1, NextChecks, PTL DEF Spec

\* No interleaving of checks, cache lookups and reloads of the filter serves a request
\* that did not parse, lacks credentials, or was blocked all along.
THEOREM ServedOnlyChecked == Spec => []CheckedBeforeServed
<1>1. CheckInv => CheckedBeforeServed
  BY DEF CheckInv, Passed, AllPassed, AuthPassed, HostPassed, PathPassed, CheckedBeforeServed
<1> QED
  BY <1>1, AlwaysCheckInv, PTL

\* No GET is fetched from an address that the deny list named throughout.
THEOREM FetchedOnlyAllowed == Spec => []FetchAvoidsDenied
<1>1. CheckInv => FetchAvoidsDenied
  BY DEF CheckInv, Passed, FetchAvoidsDenied
<1> QED
  BY <1>1, AlwaysCheckInv, PTL

-----------------------------------------------------------------------------
(* Gauges *)

\* The workers the IPv6 gauge is about.
Seen == (InFlight \cap IPv6Conns) \ gone

GaugeInv == DescriptorInv /\ GaugesCoverInFlight

\* Every set of connections is finite.
LEMMA ConnsFinite ==
  ASSUME NEW S \in SUBSET Conns
  PROVE  IsFiniteSet(S) /\ Cardinality(S) \in Nat
<1>1. IsFiniteSet(Conns)
  BY FS_Interval, ServerAssumption DEF Conns
<1> QED
  BY <1>1, FS_Subset, FS_CardinalityType

\* A gauge that covers a set covers every part of it.
LEMMA CoversPart ==
  ASSUME NEW S \in SUBSET Conns, NEW T \in SUBSET S, NEW g \in Nat, g >= Cardinality(S)
  PROVE  g >= Cardinality(T)
<1>1. IsFiniteSet(S) /\ Cardinality(S) \in Nat /\ Cardinality(T) \in Nat
  BY ConnsFinite
<1>2. Cardinality(T) <= Cardinality(S)
  BY <1>1, FS_Subset
<1> QED
  BY <1>1, <1>2

\* One more in the set, one more on the gauge.
LEMMA CoversOneMore ==
  ASSUME NEW S \in SUBSET Conns, NEW k \in Conns, NEW g \in Nat, g >= Cardinality(S)
  PROVE  g + 1 >= Cardinality(S \cup {k})
<1>1. IsFiniteSet(S) /\ Cardinality(S) \in Nat
  BY ConnsFinite
<1>2. Cardinality(S \cup {k}) = IF k \in S THEN Cardinality(S) ELSE Cardinality(S) + 1
  BY <1>1, FS_AddElement
<1> QED
  BY <1>1, <1>2

\* One less in the set, one less on the gauge, which was not at zero.
LEMMA CoversOneLess ==
  ASSUME NEW S \in SUBSET Conns, NEW k \in S, NEW g \in Nat, g >= Cardinality(S)
  PROVE  Decremented(g) >= Cardinality(S \ {k})
<1>1. IsFiniteSet(S) /\ Cardinality(S) \in Nat /\ Cardinality(S \ {k}) \in Nat
  BY ConnsFinite
<1>2. Cardinality(S \ {k}) = Cardinality(S) - 1
  BY <1>1, FS_RemoveElement
<1>3. g > 0
  BY <1>1, <1>2
<1> QED
  BY <1>1, <1>2, <1>3 DEF Decremented

\* A move of one worker puts it in flight, takes it out or does neither.
LEMMA InFlightMove ==
  ASSUME TypeOK, NEW k \in Conns, NEW where \in Positions, pc' = [pc EXCEPT ![k] = where]
  PROVE  InFlight' = IF where \in (Holding \cup {"waiting"}) \ {"post"}
                     THEN InFlight \cup {k} ELSE InFlight \ {k}
BY DEF TypeOK, InFlight

\* The workers in flight are connections, and the gauges are numbers.
LEMMA GaugeTypes ==
  ASSUME GaugeInv
  PROVE  /\ TypeOK /\ InFlight \in SUBSET Conns /\ Seen \in SUBSET Conns
         /\ active_connections \in Nat /\ ipv6_active_connections \in Nat
BY DEF GaugeInv, DescriptorInv, PermitInv, TypeOK, InFlight, Seen

\* Fewer in flight and the same gauges.
LEMMA FewerInFlight ==
  ASSUME GaugeInv, UNCHANGED <<ITERATOR, gauges>>, InFlight' \subseteq InFlight,
         gone \subseteq gone'
  PROVE  GaugesCoverInFlight'
<1>1. Seen' \subseteq Seen
  BY DEF Seen
<1>2. active_connections >= Cardinality(InFlight')
  BY GaugeTypes, CoversPart DEF GaugeInv, GaugesCoverInFlight
<1>3. ITERATOR <= max_clients => ipv6_active_connections >= Cardinality(Seen')
  BY <1>1, GaugeTypes, CoversPart DEF GaugeInv, GaugesCoverInFlight, Seen
<1> QED
  BY <1>2, <1>3 DEF GaugesCoverInFlight, Seen, gauges

\* Connections, slots and their bounds are numbers.
LEMMA SlotNumbers ==
  ASSUME TypeOK, NEW k \in Conns
  PROVE  k \in Nat /\ ITERATOR \in Nat /\ max_clients \in Nat
<1>1. ITERATOR \in 0 .. MaxConns
  BY DEF TypeOK
<1>2. k \in 0 .. MaxConns - 1
  BY DEF Conns
<1> QED
  BY <1>1, <1>2, ServerAssumption

\* A worker that starts is counted in, and once more if its peer is seen to be IPv6.
LEMMA StartGauge ==
  ASSUME GaugeInv, NEW k \in Conns, Start(k)
  PROVE  GaugesCoverInFlight'
<1> USE DEF acceptVars
<1>0. /\ TypeOK /\ InFlight \in SUBSET Conns /\ Seen \in SUBSET Conns
      /\ active_connections \in Nat /\ ipv6_active_connections \in Nat
  BY GaugeTypes
<1>1. InFlight' = InFlight \cup {k}
  <2>1. pc' = [pc EXCEPT ![k] = "waiting"] /\ "waiting" \in Positions
    BY DEF Start, Goto, Positions
  <2> QED
    BY <1>0, <2>1, InFlightMove
<1>2. active_connections' >= Cardinality(InFlight')
  <2>1. active_connections' = active_connections + 1
    BY DEF Start
  <2>2. active_connections >= Cardinality(InFlight)
    BY DEF GaugeInv, GaugesCoverInFlight
  <2> QED
    BY <1>0, <1>1, <2>1, <2>2, CoversOneMore
<1>3. ASSUME ITERATOR <= max_clients
      PROVE  ipv6_active_connections' >= Cardinality(Seen')
  <2>1. ipv6_active_connections >= Cardinality(Seen)
    BY <1>3 DEF GaugeInv, GaugesCoverInFlight, Seen
  <2>2. PICK f \in SlotValues(k) :
          ipv6_active_connections' = ipv6_active_connections + (IF PeerIsIPv6(f) THEN 1 ELSE 0)
    BY DEF Start
  <2>3. f = CONNECTED_SOCKET_ID[k] /\ f \in Fds /\ owner[f] = Client(k)
    <3>1. pc[k] = "created" /\ Owned /\ Fresh
      BY <1>3 DEF Start, At, GaugeInv, DescriptorInv, Descriptors, PermitInv
    <3>2. k < ITERATOR
      <4>1. ~(k >= ITERATOR)
        BY <3>1 DEF Fresh
      <4>2. k \in Nat /\ ITERATOR \in Nat
        BY <1>0, SlotNumbers
      <4> QED
        BY <4>1, <4>2
    <3>3. k < max_clients
      <4>1. k \in Nat /\ ITERATOR \in Nat /\ max_clients \in Nat
        BY <1>0, SlotNumbers
      <4> QED
        BY <1>3, <3>2, <4>1
    <3> QED
      BY <2>2, <3>1, <3>3 DEF SlotValues, Owned
  <2>4. gone' = gone
    BY DEF Start
  <2>5. CASE k \in IPv6Conns \ gone
    <3>1. PeerIsIPv6(f)
      BY <2>3, <2>5 DEF PeerIsIPv6
    <3>2. Seen' = Seen \cup {k}
      BY <1>1, <2>4, <2>5 DEF Seen
    <3>3. ipv6_active_connections' = ipv6_active_connections + 1
      BY <2>2, <3>1
    <3> QED
      BY <1>0, <2>1, <3>2, <3>3, CoversOneMore
  <2>6. CASE k \notin IPv6Conns \ gone
    <3>1. Seen' = Seen
      BY <1>1, <2>4, <2>6 DEF Seen
    <3>2. Cardinality(Seen) \in Nat
      BY <1>0, ConnsFinite
    <3>3. ipv6_active_connections' \in {ipv6_active_connections, ipv6_active_connections + 1}
      BY <1>0, <2>2
    <3> QED
      BY <1>0, <2>1, <3>1, <3>2, <3>3
  <2> QED
    BY <2>5, <2>6
<1>4. ITERATOR' = ITERATOR
  BY DEF Start
<1> QED
  BY <1>2, <1>3, <1>4 DEF GaugesCoverInFlight, Seen

\* A worker that ends is counted out, with the family it was counted in with if its peer
\* is still there.
LEMMA EpilogueGauge ==
  ASSUME GaugeInv, NEW k \in Conns, Epilogue(k)
  PROVE  GaugesCoverInFlight'
<1> USE DEF acceptVars
<1>0. /\ TypeOK /\ InFlight \in SUBSET Conns /\ Seen \in SUBSET Conns
      /\ active_connections \in Nat /\ ipv6_active_connections \in Nat
  BY GaugeTypes
<1>1. InFlight' = InFlight \ {k} /\ k \in InFlight /\ gone' = gone
  <2>1. pc' = [pc EXCEPT ![k] = "post"] /\ "post" \in Positions /\ pc[k] = "end" /\ gone' = gone
    BY DEF Epilogue, At, Goto, Positions, Holding
  <2> QED
    BY <1>0, <2>1, InFlightMove DEF InFlight, Holding
<1>2. active_connections' >= Cardinality(InFlight')
  <2>1. active_connections' = Decremented(active_connections)
    BY DEF Epilogue
  <2>2. active_connections >= Cardinality(InFlight)
    BY DEF GaugeInv, GaugesCoverInFlight
  <2> QED
    BY <1>0, <1>1, <2>1, <2>2, CoversOneLess
<1>3. ASSUME ITERATOR <= max_clients
      PROVE  ipv6_active_connections' >= Cardinality(Seen')
  <2>1. ipv6_active_connections >= Cardinality(Seen)
    BY <1>3 DEF GaugeInv, GaugesCoverInFlight, Seen
  <2>2. SOCKET[k] \in Fds /\ owner[SOCKET[k]] = Client(k)
    BY <1>3 DEF Epilogue, At, GaugeInv, DescriptorInv, Descriptors, Owned, Alone, Holding
  <2>3. PeerIsIPv6(SOCKET[k]) <=> k \in IPv6Conns \ gone
    BY <2>2, EndsDistinct, ServerAssumption DEF PeerIsIPv6
  <2>4. CASE k \in IPv6Conns \ gone
    <3>1. k \in Seen /\ Seen' = Seen \ {k}
      BY <1>1, <2>4 DEF Seen
    <3>2. ipv6_active_connections' = Decremented(ipv6_active_connections)
      BY <2>3, <2>4 DEF Epilogue
    <3> QED
      BY <1>0, <2>1, <3>1, <3>2, CoversOneLess
  <2>5. CASE k \notin IPv6Conns \ gone
    <3>1. Seen' = Seen
      BY <1>1, <2>5 DEF Seen
    <3>2. ipv6_active_connections' = ipv6_active_connections
      BY <2>3, <2>5 DEF Epilogue
    <3> QED
      BY <2>1, <3>1, <3>2
  <2> QED
    BY <2>4, <2>5
<1>4. ITERATOR' = ITERATOR
  BY DEF Epilogue
<1> QED
  BY <1>2, <1>3, <1>4 DEF GaugesCoverInFlight, Seen

\* The other steps of a worker leave the gauges alone, and nobody new in flight.
LEMMA OtherGauge ==
  ASSUME TypeOK, NEW k \in Conns, Worker(k), ~Start(k), ~Epilogue(k)
  PROVE  UNCHANGED <<ITERATOR, gauges, gone>> /\ InFlight' \subseteq InFlight
<1>0. ASSUME NEW where \in Positions, pc' = [pc EXCEPT ![k] = where],
             pc[k] \in (Holding \cup {"waiting"}) \ {"post"} \/ where = "done"
      PROVE  InFlight' \subseteq InFlight
  <2>1. InFlight' = IF where \in (Holding \cup {"waiting"}) \ {"post"}
                    THEN InFlight \cup {k} ELSE InFlight \ {k}
    BY <1>0, InFlightMove
  <2>2. pc[k] \in (Holding \cup {"waiting"}) \ {"post"} => k \in InFlight
    BY DEF InFlight
  <2>3. "done" \notin (Holding \cup {"waiting"}) \ {"post"}
    BY DEF Holding
  <2> QED
    BY <1>0, <2>1, <2>2, <2>3
<1> USE DEF acceptVars, At, Goto, Positions, Holding
<1>1. CASE SemWait(k) \/ SemPost(k)
  BY <1>0, <1>1 DEF SemWait, SemPost
<1>2. CASE RecvUnusable(k) \/ Refuse(k) \/ DropRelative(k)
  BY <1>0, <1>2 DEF RecvUnusable, Refuse, DropRelative, EarlyExit
<1>3. ASSUME NEW r \in Requests, RecvRequest(k, r)
      PROVE  UNCHANGED <<ITERATOR, gauges, gone>> /\ InFlight' \subseteq InFlight
  BY <1>0, <1>3 DEF RecvRequest
<1>4. CASE CheckAuth(k) \/ CheckDomain(k) \/ CheckUrl(k)
  <2>1. PICK where \in {"refuse", "domain", "url", "lookup"} : pc' = [pc EXCEPT ![k] = where]
    BY <1>4 DEF CheckAuth, CheckDomain, CheckUrl, Checked
  <2> QED
    BY <1>0, <1>4, <2>1 DEF CheckAuth, CheckDomain, CheckUrl, Checked
<1>5. CASE FindCacheHit(k) \/ FindCacheMiss(k) \/ Answered(k) \/ ConnectFails(k)
  <2>1. PICK where \in {"hit", "error", "dial", "connect", "end"} :
          pc' = [pc EXCEPT ![k] = where]
    BY <1>5 DEF FindCacheHit, FindCacheMiss, Answered, ConnectFails
  <2> QED
    BY <1>0, <1>5, <2>1 DEF FindCacheHit, FindCacheMiss, Answered, ConnectFails
<1>6. ASSUME NEW a \in Addrs, NEW f \in Fds, ConnectEndServer(k, a, f) \/ Dial(k, a, f)
      PROVE  UNCHANGED <<ITERATOR, gauges, gone>> /\ InFlight' \subseteq InFlight
  BY <1>0, <1>6 DEF ConnectEndServer, Dial, Connected
<1>7. CASE ExchangeFails(k) \/ TunnelEnd(k)
  BY <1>0, <1>7 DEF ExchangeFails, TunnelEnd, Hangup
<1>8. ASSUME NEW stored \in BOOLEAN, FetchDone(k, stored)
      PROVE  UNCHANGED <<ITERATOR, gauges, gone>> /\ InFlight' \subseteq InFlight
  BY <1>0, <1>8 DEF FetchDone, Hangup
<1> QED
  BY <1>1, <1>2, <1>3, <1>4, <1>5, <1>6, <1>7, <1>8 DEF Worker

\* Every step of the server keeps the gauges above what they cover.
LEMMA NextGauge == GaugeInv /\ [Next]_vars => GaugeInv'
<1> SUFFICES ASSUME GaugeInv, [Next]_vars PROVE GaugesCoverInFlight'
  BY NextDescriptors DEF GaugeInv
<1> USE DEF acceptVars, gauges
<1>0. TypeOK /\ Fresh
  BY DEF GaugeInv, DescriptorInv, PermitInv
<1>1. ASSUME NEW f \in Fds, NEW created \in BOOLEAN, AcceptCreate(f, created)
      PROVE  GaugesCoverInFlight'
  <2>1. ITERATOR \in Conns /\ pc[ITERATOR] = "none" /\ ITERATOR' = ITERATOR + 1
    BY <1>0, <1>1, ServerAssumption DEF AcceptCreate, Fresh, TypeOK, Conns
  <2>2. PICK where \in {"created", "lost"} : pc' = [pc EXCEPT ![ITERATOR] = where]
    BY <1>1 DEF AcceptCreate
  <2>3. InFlight' = InFlight
    BY <1>0, <2>1, <2>2, InFlightMove DEF InFlight, Positions, Holding
  <2>4. UNCHANGED <<active_connections, ipv6_active_connections, gone>>
    BY <1>1 DEF AcceptCreate
  <2>5. ITERATOR' <= max_clients => ITERATOR <= max_clients
    BY <1>0, <2>1, SlotNumbers
  <2> QED
    BY <2>3, <2>4, <2>5 DEF GaugeInv, GaugesCoverInFlight
<1>2. ASSUME NEW k \in Conns, Worker(k)
      PROVE  GaugesCoverInFlight'
  BY <1>0, <1>2, StartGauge, EpilogueGauge, OtherGauge, FewerInFlight
<1>3. ASSUME UNCHANGED <<ITERATOR, active_connections, ipv6_active_connections, pc>>,
             gone \subseteq gone'
      PROVE  GaugesCoverInFlight'
  <2>1. InFlight' = InFlight
    BY <1>3 DEF InFlight
  <2> QED
    BY <1>3, <2>1, FewerInFlight
<1>4. CASE AcceptDenied \/ AcceptFails \/ SlotOverrun \/ FilterReload
  BY <1>3, <1>4 DEF AcceptDenied, AcceptFails, SlotOverrun, FilterReload
<1>5. ASSUME NEW k \in Conns, Disconnect(k) \/ BrokenPipe(k)
      PROVE  GaugesCoverInFlight'
  BY <1>3, <1>5 DEF Disconnect, BrokenPipe
<1>6. CASE UNCHANGED vars
  BY <1>3, <1>6 DEF vars
<1> QED
  BY <1>1, <1>2, <1>4, <1>5, <1>6 DEF Next, Accept

\* No gauge is ever below the connections it counts, whichever exits the workers take,
\* whenever the peers reset: the clamp at zero is never what keeps it up.
THEOREM GaugesCover == Spec => []GaugesCoverInFlight
<1>1. Init => GaugesCoverInFlight
  <2> SUFFICES ASSUME Init PROVE GaugesCoverInFlight
    OBVIOUS
  <2>1. InFlight = {} /\ (InFlight \cap IPv6Conns) \ gone = {}
    BY DEF Init, InFlight, Holding
  <2>2. Cardinality(InFlight) = 0 /\ Cardinality((InFlight \cap IPv6Conns) \ gone) = 0
    BY <2>1, FS_EmptySet
  <2> QED
    BY <2>2 DEF Init, GaugesCoverInFlight
<1>2. GaugeInv /\ [Next]_vars => GaugeInv'
  BY NextGauge
<1>3. GaugesCoverInFlight /\ DescriptorInv /\ DescriptorInv' /\ [Next]_vars
        => GaugesCoverInFlight'
  BY <1>2 DEF GaugeInv
<1> QED
  BY <1>1, <1>3, DescriptorsInOrder, PTL DEF Spec

=============================================================================
