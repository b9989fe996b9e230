-------------------------- MODULE ProxyCacheProofs --------------------------
(***************************************************************************)
(* For every set of threads, keys, buckets and heap addresses, every hash   *)
(* function and every limit: the cache is type correct, its list, its       *)
(* chains and the heap agree, the mutex is given back, chains and list keep *)
(* their order, the cache grows within its limit and no response outlives   *)
(* its max-age.                                                            *)
(***************************************************************************)
EXTENDS ProxyCache, FiniteSetTheorems, SequenceTheorems, WellFoundedInduction, TLAPS

(***************************************************************************)
(* Sequences without repetition                                            *)
(***************************************************************************)

\* Taking a node out of a linked structure keeps the others, each once.
LEMMA WithoutProperties ==
  ASSUME NEW S, NEW s \in Seq(S), NEW n \in Elems(s), NoRepeat(s)
  PROVE  /\ Without(s, n) \in Seq(S)
         /\ NoRepeat(Without(s, n))
         /\ Elems(Without(s, n)) = Elems(s) \ {n}
  <1> DEFINE k == CHOOSE i \in DOMAIN s : s[i] = n
             w == [i \in 1 .. Len(s) - 1 |-> IF i < k THEN s[i] ELSE s[i + 1]]
  <1>1. k \in 1 .. Len(s) /\ s[k] = n
    BY DEF Elems
  <1>2. Len(s) - 1 \in Nat /\ DOMAIN s = 1 .. Len(s)
    BY <1>1
  <1>3. \A i \in 1 .. Len(s) : s[i] \in S
    OBVIOUS
  <1> HIDE DEF k
  <1>4. \A i \in 1 .. Len(s) - 1 : w[i] \in S
    BY <1>1, <1>2, <1>3
  <1>5. w \in Seq(S) /\ Len(w) = Len(s) - 1 /\ DOMAIN w = 1 .. Len(s) - 1
    BY <1>2, <1>4
  <1>6. NoRepeat(w)
    <2>1. \A i, j \in 1 .. Len(s) : s[i] = s[j] => i = j
      BY <1>2 DEF NoRepeat
    <2>2. \A i \in 1 .. Len(s) - 1 :
            \E p \in 1 .. Len(s) : p # k /\ w[i] = s[p] /\ p = IF i < k THEN i ELSE i + 1
      BY <1>1, <1>2
    <2>3. \A i, j \in 1 .. Len(s) - 1 :
            (IF i < k THEN i ELSE i + 1) = (IF j < k THEN j ELSE j + 1) => i = j
      BY <1>1, <1>2
    <2>4. \A i, j \in 1 .. Len(s) - 1 : w[i] = w[j] => i = j
      BY <2>1, <2>2, <2>3
    <2> QED
      BY <1>5, <2>4 DEF NoRepeat
  <1>7. ASSUME NEW x \in Elems(w)
        PROVE  x \in Elems(s) \ {n}
    BY <1>1, <1>2, <1>5 DEF Elems, NoRepeat
  <1>8. ASSUME NEW x \in Elems(s) \ {n}
        PROVE  x \in Elems(w)
    <2>1. PICK i \in 1 .. Len(s) : s[i] = x
      BY <1>2 DEF Elems
    <2>2. CASE i < k
      <3>1. i \in 1 .. Len(s) - 1 /\ w[i] = s[i]
        BY <2>2, <1>1, <1>2
      <3>2. QED
        BY <3>1, <2>1, <1>5 DEF Elems
    <2>3. CASE i > k
      <3>1. i - 1 \in 1 .. Len(s) - 1 /\ w[i - 1] = s[i]
        BY <2>3, <1>1, <1>2
      <3>2. QED
        BY <3>1, <2>1, <1>5 DEF Elems
    <2>4. i # k
      BY <1>1, <2>1
    <2>5. QED
      BY <2>2, <2>3, <2>4, <1>1
  <1>9. Without(s, n) = w
    BY DEF Without, k
  <1>10. QED
    BY <1>5, <1>6, <1>7, <1>8, <1>9

\* A new node at the end of the list.
LEMMA AppendNew ==
  ASSUME NEW S, NEW s \in Seq(S), NEW n \in S, n \notin Elems(s), NoRepeat(s)
  PROVE  /\ Append(s, n) \in Seq(S)
         /\ NoRepeat(Append(s, n))
         /\ Elems(Append(s, n)) = Elems(s) \cup {n}
  <1> DEFINE w == Append(s, n)
  <1>1. /\ w \in Seq(S) /\ Len(w) = Len(s) + 1 /\ Len(s) \in Nat
        /\ \A i \in 1 .. Len(s) : w[i] = s[i]
        /\ w[Len(s) + 1] = n
    BY AppendProperties
  <1>2. DOMAIN w = 1 .. Len(s) + 1 /\ DOMAIN s = 1 .. Len(s)
    BY <1>1
  <1> HIDE DEF w
  <1>3. NoRepeat(w)
    BY <1>1, <1>2 DEF NoRepeat, Elems
  <1>4. Elems(w) = Elems(s) \cup {n}
    BY <1>1, <1>2 DEF Elems
  <1>5. QED
    BY <1>1, <1>3, <1>4 DEF w

\* A new node at the front of its chain.
LEMMA PrependNew ==
  ASSUME NEW S, NEW s \in Seq(S), NEW n \in S, n \notin Elems(s), NoRepeat(s)
  PROVE  /\ <<n>> \o s \in Seq(S)
         /\ NoRepeat(<<n>> \o s)
         /\ Elems(<<n>> \o s) = Elems(s) \cup {n}
  <1> DEFINE w == <<n>> \o s
  <1>1. /\ w \in Seq(S) /\ Len(w) = Len(s) + 1 /\ Len(s) \in Nat
        /\ \A i \in 1 .. Len(s) : w[i + 1] = s[i]
        /\ w[1] = n
    OBVIOUS
  <1>2. DOMAIN w = 1 .. Len(s) + 1 /\ DOMAIN s = 1 .. Len(s)
    BY <1>1
  <1> HIDE DEF w
  <1>3. \A i \in DOMAIN w : i = 1 \/ (i - 1 \in DOMAIN s /\ w[i] = s[i - 1])
    <2> SUFFICES ASSUME NEW i \in DOMAIN w, i # 1
                 PROVE  i - 1 \in DOMAIN s /\ w[i] = s[i - 1]
      OBVIOUS
    <2>1. i - 1 \in 1 .. Len(s) /\ (i - 1) + 1 = i
      BY <1>1, <1>2
    <2>2. QED
      BY <2>1, <1>1, <1>2
  <1>4. NoRepeat(w)
    BY <1>1, <1>2, <1>3 DEF NoRepeat, Elems
  <1>5. Elems(w) = Elems(s) \cup {n}
    <2>1. Elems(w) \subseteq Elems(s) \cup {n}
      BY <1>1, <1>2, <1>3 DEF Elems
    <2>2. Elems(s) \subseteq Elems(w)
      BY <1>1, <1>2 DEF Elems
    <2>3. n \in Elems(w)
      BY <1>1, <1>2 DEF Elems
    <2>4. QED
      BY <2>1, <2>2, <2>3
  <1>6. QED
    BY <1>1, <1>4, <1>5 DEF w

(***************************************************************************)
(* The nodes the operations pick                                           *)
(***************************************************************************)

\* A nonempty set of naturals has a least element.
LEMMA LeastNatural ==
  ASSUME NEW T, T \subseteq Nat, T # {}
  PROVE  \E x \in T : \A y \in T : x <= y
  <1>1. PICK x \in T : \A y \in T : ~ (<<y, x>> \in OpToRel(<, Nat))
    BY WFMin, NatLessThanWellFounded
  <1>2. \A y \in T : ~ (y < x)
    BY <1>1 DEF OpToRel
  <1>3. QED
    BY <1>2

\* The lookup loop stops at an allocated node that holds the key.
LEMMA MatchIsLive ==
  ASSUME CacheTypeOK, Agreement, NEW u \in Urls, Matches(u) # {}
  PROVE  Match(u) \in Live /\ heap[Match(u)].URL = u
  <1> DEFINE c == HASH_TABLE[hash_url[u]]
  <1>1. hash_url[u] \in Buckets /\ c \in Seq(Nodes)
    BY HashAssumption DEF CacheTypeOK
  <1>2. Matches(u) \subseteq Nat
    BY <1>1 DEF Matches
  <1>3. FirstMatch(u) \in Matches(u)
    <2>1. \E i \in Matches(u) : \A j \in Matches(u) : i <= j
      BY <1>2, LeastNatural
    <2>2. QED
      BY <2>1 DEF FirstMatch
  <1>4. FirstMatch(u) \in DOMAIN c /\ heap[c[FirstMatch(u)]].URL = u
    BY <1>3 DEF Matches
  <1>5. c[FirstMatch(u)] \in Live
    BY <1>1, <1>4 DEF Agreement, ChainsMatchHeap, Elems
  <1>6. QED
    BY <1>4, <1>5 DEF Match

\* RemoveCache evicts an allocated node under every policy.
LEMMA VictimIsLive ==
  ASSUME CacheTypeOK, WorkerTypeOK, Agreement, list # <<>>
  PROVE  list[VictimPos] \in Live
  <1> DEFINE D == DOMAIN list
             K == {Key(list[i]) : i \in D}
  <1>1. list \in Seq(Nodes) /\ D = 1 .. Len(list) /\ Len(list) \in Nat \ {0}
    BY EmptySeq DEF CacheTypeOK
  <1>2. \A i \in D : list[i] \in Live
    BY DEF Agreement, ListMatchesHeap, Elems
  <1>3. \A n \in Live : heap[n].access_count \in Nat /\ heap[n].expires_at \in Nat
    BY DEF CacheTypeOK, CacheModule, Live
  <1>4. \A i \in D : Key(list[i]) \in Nat
    BY <1>2, <1>3 DEF Key, WorkerTypeOK
  <1>5. PICK k \in K : \A x \in K : k <= x
    <2>1. K \subseteq Nat /\ K # {}
      BY <1>1, <1>4
    <2>2. QED
      BY <2>1, LeastNatural
  <1> DEFINE P == {i \in D : Key(list[i]) = k}
  <1>6. PICK p \in P : \A i \in P : p <= i
    <2>1. P \subseteq Nat /\ P # {}
      BY <1>1, <1>5
    <2>2. QED
      BY <2>1, LeastNatural
  <1>7. /\ p \in D
        /\ \A j \in D : Key(list[p]) <= Key(list[j])
        /\ \A j \in 1 .. p - 1 : Key(list[p]) < Key(list[j])
    <2>1. p \in D /\ Key(list[p]) = k
      BY <1>6
    <2>2. \A j \in D : Key(list[p]) <= Key(list[j])
      BY <2>1, <1>5
    <2>3. ASSUME NEW j \in 1 .. p - 1
          PROVE  Key(list[p]) < Key(list[j])
      <3>1. j \in D /\ j \notin P
        BY <2>1, <1>1, <1>6
      <3>2. Key(list[p]) <= Key(list[j]) /\ Key(list[j]) # k
        BY <3>1, <2>2
      <3>3. QED
        BY <3>1, <3>2, <2>1, <1>4
    <2>4. QED
      BY <2>1, <2>2, <2>3
  <1>8. VictimPos \in D
    BY <1>7 DEF VictimPos
  <1>9. QED
    BY <1>2, <1>8

(***************************************************************************)
(* Freeing and linking a node                                              *)
(***************************************************************************)

\* RemoveCache and Cache_purge free an allocated node: it leaves the list and its chain,
\* and both still hold exactly the allocated nodes.
LEMMA FreeNodeKeeps ==
  ASSUME CacheTypeOK, Agreement, NEW n \in Live, FreeNode(n)
  PROVE  CacheTypeOK' /\ Agreement'
  <1> DEFINE e == heap[n]
             h == hash_url[e.URL]
  <1>1. n \in Nodes /\ e \in CacheModule /\ e.URL \in Urls /\ h \in Buckets
    BY HashAssumption DEF Live, CacheTypeOK, CacheModule
  <1>2. /\ list \in Seq(Nodes) /\ NoRepeat(list) /\ n \in Elems(list)
        /\ Elems(list) = Live
    BY DEF Agreement, ListMatchesHeap, CacheTypeOK
  <1>3. /\ HASH_TABLE[h] \in Seq(Nodes) /\ NoRepeat(HASH_TABLE[h])
        /\ n \in Elems(HASH_TABLE[h])
    BY <1>1 DEF Agreement, ChainsMatchHeap, CacheTypeOK
  <1>4. Live' = Live \ {n} /\ \A m \in Live' : heap'[m] = heap[m]
    BY <1>1 DEF Live, FreeNode, CacheTypeOK
  <1>5. list' = Without(list, n)
    BY DEF FreeNode, list_remove
  <1>6. /\ HASH_TABLE' \in [Buckets -> Seq(Nodes)]
        /\ HASH_TABLE'[h] = Without(HASH_TABLE[h], n)
        /\ \A b \in Buckets \ {h} : HASH_TABLE'[b] = HASH_TABLE[b]
    <2>1. Without(HASH_TABLE[h], n) \in Seq(Nodes)
      BY <1>3, WithoutProperties
    <2>2. HASH_TABLE' = [HASH_TABLE EXCEPT ![h] = Without(HASH_TABLE[h], n)]
      BY DEF FreeNode
    <2>3. QED
      BY <2>1, <2>2, <1>1 DEF CacheTypeOK
  <1>7. CacheTypeOK'
    <2>1. list' \in Seq(Nodes)
      BY <1>2, <1>5, WithoutProperties
    <2>2. heap' \in [Nodes -> CacheModule \cup {NULL}]
      BY DEF FreeNode, CacheTypeOK
    <2>3. CACHE_SIZE' \in Int
      <3>1. Overhead[e.URL] \in Nat /\ e.LENGTH \in Int
        BY <1>1, ParameterAssumption DEF CacheModule
      <3>2. QED
        BY <3>1 DEF FreeNode, CacheTypeOK, ElementSize
    <2>4. dir' \subseteq [path : Paths, inode : Inodes] /\ stray' \subseteq Paths
      BY DEF FreeNode, CacheTypeOK, unlink
    <2>5. QED
      BY <2>1, <2>2, <2>3, <2>4, <1>6 DEF CacheTypeOK
  <1>8. ListMatchesHeap'
    BY <1>2, <1>4, <1>5, WithoutProperties DEF ListMatchesHeap
  <1>9. ChainsMatchHeap'
    <2> SUFFICES ASSUME NEW b \in Buckets
                 PROVE  /\ NoRepeat(HASH_TABLE'[b])
                        /\ Elems(HASH_TABLE'[b])
                             = {m \in Live' : hash_url[heap'[m].URL] = b}
      BY DEF ChainsMatchHeap
    <2>1. /\ NoRepeat(HASH_TABLE[b])
          /\ Elems(HASH_TABLE[b]) = {m \in Live : hash_url[heap[m].URL] = b}
      BY DEF Agreement, ChainsMatchHeap
    <2>2. {m \in Live' : hash_url[heap'[m].URL] = b}
            = {m \in Live : hash_url[heap[m].URL] = b} \ {n}
      BY <1>4
    <2>3. CASE b = h
      <3>1. /\ NoRepeat(Without(HASH_TABLE[h], n))
            /\ Elems(Without(HASH_TABLE[h], n)) = Elems(HASH_TABLE[h]) \ {n}
        BY <1>3, WithoutProperties
      <3>2. QED
        BY <3>1, <2>1, <2>2, <2>3, <1>6
    <2>4. CASE b # h
      BY <2>1, <2>2, <2>4, <1>6
    <2>5. QED
      BY <2>3, <2>4
  <1>10. QED
    BY <1>7, <1>8, <1>9 DEF Agreement

\* AddCache links a node that was not allocated: it is then once in the list and once
\* in the chain of its key.
LEMMA LinkNodeKeeps ==
  ASSUME CacheTypeOK, Agreement, NEW n \in Nodes \ Live, NEW e \in CacheModule,
         NEW size \in Int, LinkNode(n, e, size),
         UNCHANGED <<dir, stray>>
  PROVE  CacheTypeOK' /\ Agreement'
  <1> DEFINE h == hash_url[e.URL]
  <1>1. e.URL \in Urls /\ h \in Buckets /\ e # NULL
    BY HashAssumption, NullAssumption DEF CacheModule
  <1>2. /\ list \in Seq(Nodes) /\ NoRepeat(list) /\ n \notin Elems(list)
        /\ Elems(list) = Live
    BY DEF Agreement, ListMatchesHeap, CacheTypeOK
  <1>3. /\ HASH_TABLE[h] \in Seq(Nodes) /\ NoRepeat(HASH_TABLE[h])
        /\ n \notin Elems(HASH_TABLE[h])
    BY <1>1 DEF Agreement, ChainsMatchHeap, CacheTypeOK
  <1>4. /\ Live' = Live \cup {n} /\ heap'[n] = e
        /\ \A m \in Live : heap'[m] = heap[m]
    BY <1>1 DEF Live, LinkNode, CacheTypeOK
  <1>5. list' = Append(list, n)
    BY DEF LinkNode, list_append
  <1>6. /\ HASH_TABLE' \in [Buckets -> Seq(Nodes)]
        /\ HASH_TABLE'[h] = <<n>> \o HASH_TABLE[h]
        /\ \A b \in Buckets \ {h} : HASH_TABLE'[b] = HASH_TABLE[b]
    <2>1. <<n>> \o HASH_TABLE[h] \in Seq(Nodes)
      BY <1>3, PrependNew
    <2>2. HASH_TABLE' = [HASH_TABLE EXCEPT ![h] = <<n>> \o HASH_TABLE[h]]
      BY DEF LinkNode
    <2>3. QED
      BY <2>1, <2>2, <1>1 DEF CacheTypeOK
  <1>7. CacheTypeOK'
    <2>1. list' \in Seq(Nodes)
      BY <1>2, <1>5, AppendNew
    <2>2. heap' \in [Nodes -> CacheModule \cup {NULL}] /\ CACHE_SIZE' \in Int
      BY DEF LinkNode, CacheTypeOK
    <2>3. QED
      BY <2>1, <2>2, <1>6 DEF CacheTypeOK
  <1>8. ListMatchesHeap'
    BY <1>2, <1>4, <1>5, AppendNew DEF ListMatchesHeap
  <1>9. ChainsMatchHeap'
    <2> SUFFICES ASSUME NEW b \in Buckets
                 PROVE  /\ NoRepeat(HASH_TABLE'[b])
                        /\ Elems(HASH_TABLE'[b])
                             = {m \in Live' : hash_url[heap'[m].URL] = b}
      BY DEF ChainsMatchHeap
    <2>1. /\ NoRepeat(HASH_TABLE[b])
          /\ Elems(HASH_TABLE[b]) = {m \in Live : hash_url[heap[m].URL] = b}
      BY DEF Agreement, ChainsMatchHeap
    <2>2. CASE b = h
      <3>1. /\ NoRepeat(<<n>> \o HASH_TABLE[h])
            /\ Elems(<<n>> \o HASH_TABLE[h]) = Elems(HASH_TABLE[h]) \cup {n}
        BY <1>3, PrependNew
      <3>2. {m \in Live' : hash_url[heap'[m].URL] = b}
              = {m \in Live : hash_url[heap[m].URL] = b} \cup {n}
        BY <2>2, <1>4
      <3>3. QED
        BY <3>1, <3>2, <2>1, <2>2, <1>6
    <2>3. CASE b # h
      <3>1. {m \in Live' : hash_url[heap'[m].URL] = b}
              = {m \in Live : hash_url[heap[m].URL] = b}
        BY <2>3, <1>4
      <3>2. QED
        BY <3>1, <2>1, <2>3, <1>6
    <2>4. QED
      BY <2>2, <2>3
  <1>10. QED
    BY <1>7, <1>8, <1>9 DEF Agreement

(***************************************************************************)
(* The inductive invariant and the steps                                   *)
(***************************************************************************)

\* Agreement is inductive together with the types, which say that a worker inside an
\* operation has a key.
IInv == TypeOK /\ Agreement

\* A step that leaves the cache alone keeps what is true of it.
LEMMA CacheUnchanged ==
  ASSUME CacheTypeOK, Agreement, UNCHANGED cacheVars
  PROVE  CacheTypeOK' /\ Agreement'
  BY DEF CacheTypeOK, Agreement, ListMatchesHeap, ChainsMatchHeap, Live, cacheVars

\* Cache_init leaves an empty cache whose structures agree.
LEMMA InitIInv == Init => IInv
  <1> SUFFICES ASSUME Init
               PROVE  IInv
    OBVIOUS
  <1>1. CacheTypeOK
    <2>1. dir \subseteq [path : Paths, inode : Inodes]
      BY DirectoryAssumption DEF Init, Cache_init
    <2>2. stray \subseteq Paths
      BY <2>1 DEF Init, Cache_init
    <2>3. QED
      BY <2>1, <2>2 DEF Init, Cache_init, CacheTypeOK
  <1>2. WorkerTypeOK
    BY DEF Init, WorkerTypeOK, Job, NoJob
  <1>3. Agreement
    BY DEF Init, Cache_init, Agreement, ListMatchesHeap, ChainsMatchHeap, Live,
           Elems, NoRepeat
  <1>4. QED
    BY <1>1, <1>2, <1>3 DEF IInv, TypeOK

\* Touching the use counters of an entry yields an entry with the same key.
LEMMA TouchedEntry ==
  ASSUME WorkerTypeOK, NEW e \in CacheModule
  PROVE  Touch(e) \in CacheModule /\ Touch(e).URL = e.URL
  <1>1. now \in Nat /\ e.access_count + 1 \in Nat
    BY DEF CacheModule, WorkerTypeOK
  <1>2. QED
    BY <1>1 DEF Touch, CacheModule

\* A hit reorders the list and touches two counters of the node.
LEMMA FindCacheHitKeeps ==
  ASSUME IInv, NEW t \in Threads, NEW u \in Urls, FindCacheHit(t, u)
  PROVE  IInv'
  <1> DEFINE n == Match(u)
  <1> USE DEF IInv, TypeOK
  <1>1. n \in Live /\ n \in Nodes
    BY MatchIsLive DEF FindCacheHit, Live
  <1>2. heap[n] \in CacheModule
    BY <1>1 DEF Live, CacheTypeOK
  <1> HIDE DEF n
  <1>3. heap' = [heap EXCEPT ![n] = Touch(heap[n])]
    BY DEF FindCacheHit, n
  <1>4. /\ heap'[n] \in CacheModule /\ heap'[n].URL = heap[n].URL
        /\ heap' \in [Nodes -> CacheModule \cup {NULL}]
        /\ \A m \in Nodes \ {n} : heap'[m] = heap[m]
    <2>1. heap'[n] = Touch(heap[n])
      BY <1>1, <1>3 DEF CacheTypeOK
    <2>2. heap'[n] \in CacheModule /\ heap'[n].URL = heap[n].URL
      BY <2>1, <1>2, TouchedEntry
    <2>3. \A m \in Nodes \ {n} : heap'[m] = heap[m]
      BY <1>3 DEF CacheTypeOK
    <2>4. heap' \in [Nodes -> CacheModule \cup {NULL}]
      <3>1. DOMAIN heap' = Nodes /\ heap' = [m \in Nodes |-> heap'[m]]
        BY <1>3 DEF CacheTypeOK
      <3>2. \A m \in Nodes : heap'[m] \in CacheModule \cup {NULL}
        BY <2>2, <2>3 DEF CacheTypeOK
      <3>3. QED
        BY <3>1, <3>2
    <2>5. QED
      BY <2>2, <2>3, <2>4
  <1>5. Live' = Live /\ \A m \in Live : heap'[m].URL = heap[m].URL
    <2>1. heap'[n] # NULL /\ heap[n] # NULL
      BY <1>1, <1>4, NullAssumption DEF Live
    <2>2. QED
      BY <2>1, <1>4 DEF Live
  <1>6. list' \in Seq(Nodes) /\ ListMatchesHeap'
    <2>1. list \in Seq(Nodes) /\ NoRepeat(list) /\ Elems(list) = Live
      BY DEF Agreement, ListMatchesHeap, CacheTypeOK
    <2>2. CASE list' = list
      BY <2>1, <2>2, <1>5 DEF ListMatchesHeap
    <2>3. CASE list' = Append(Without(list, n), n)
      <3>1. /\ Without(list, n) \in Seq(Nodes) /\ NoRepeat(Without(list, n))
            /\ Elems(Without(list, n)) = Live \ {n}
        BY <2>1, <1>1, WithoutProperties
      <3>2. /\ list' \in Seq(Nodes) /\ NoRepeat(list')
            /\ Elems(list') = (Live \ {n}) \cup {n}
        BY <2>3, <3>1, <1>1, AppendNew
      <3>3. QED
        BY <3>2, <1>1, <1>5 DEF ListMatchesHeap
    <2>4. QED
      BY <2>2, <2>3 DEF FindCacheHit, list_move_to_end, list_append, list_remove, n
  <1>7. ChainsMatchHeap'
    BY <1>5 DEF FindCacheHit, Agreement, ChainsMatchHeap
  <1>8. CacheTypeOK'
    BY <1>4, <1>6 DEF FindCacheHit, CacheTypeOK
  <1>9. WorkerTypeOK'
    <2>1. job' = [job EXCEPT ![t].URL = u, ![t].CACHE = n]
      BY DEF FindCacheHit, n
    <2>2. [job[t] EXCEPT !.URL = u, !.CACHE = n] \in Job
      BY <1>1 DEF WorkerTypeOK, Job
    <2>3. job' \in [Threads -> Job] /\ \A x \in Threads \ {t} : job'[x] = job[x]
      BY <2>1, <2>2 DEF WorkerTypeOK
    <2>4. job'[t].URL = u
      BY <2>1 DEF WorkerTypeOK, Job
    <2>5. QED
      BY <2>3, <2>4 DEF FindCacheHit, Goto, WorkerTypeOK
  <1>10. QED
    BY <1>6, <1>7, <1>8, <1>9 DEF Agreement

\* Cache_purge keeps the agreement, whether it finds the key or not.
LEMMA PurgeKeeps ==
  ASSUME CacheTypeOK, Agreement, NEW u \in Urls, PurgeUrl(u)
  PROVE  CacheTypeOK' /\ Agreement'
  <1>1. CASE Matches(u) # {}
    BY <1>1, MatchIsLive, FreeNodeKeeps DEF PurgeUrl
  <1>2. CASE Matches(u) = {}
    BY <1>2, CacheUnchanged DEF PurgeUrl
  <1>3. QED
    BY <1>1, <1>2

\* What the disk tier does to the directory keeps its type.
LEMMA DiskWriteKeeps ==
  ASSUME CacheTypeOK, WorkerTypeOK, NEW t \in Threads, job[t].URL \in Urls,
         NEW out, NEW inode \in Inodes, DiskWrite(t, out, inode)
  PROVE  /\ Path(t) \in Paths
         /\ dir' \subseteq [path : Paths, inode : Inodes]
         /\ stray' \subseteq Paths
  <1>1. Path(t) \in Paths
    BY HashAssumption DEF Path, Paths, WorkerTypeOK
  <1>2. QED
    BY <1>1 DEF DiskWrite, CacheTypeOK

\* Writing the file of a response touches the directory and the worker's own job.
LEMMA AddCacheDiskKeeps ==
  ASSUME IInv, NEW t \in Threads, NEW out, NEW inode \in Inodes,
         AddCacheDisk(t, out, inode)
  PROVE  IInv'
  <1> USE DEF IInv, TypeOK
  <1>1. job[t] \in Job /\ job[t].URL \in Urls
    BY DEF WorkerTypeOK, AddCacheDisk
  <1>2. /\ Path(t) \in Paths
        /\ dir' \subseteq [path : Paths, inode : Inodes]
        /\ stray' \subseteq Paths
    BY <1>1, DiskWriteKeeps DEF AddCacheDisk
  <1>3. CacheTypeOK' /\ Agreement'
    BY <1>2 DEF AddCacheDisk, CacheTypeOK, Agreement, ListMatchesHeap, ChainsMatchHeap, Live
  <1>4. WorkerTypeOK'
    <2>1. job' \in [Threads -> Job] /\ \A x \in Threads : job'[x].URL = job[x].URL
      <3>1. CASE job' = job
        BY <3>1 DEF WorkerTypeOK
      <3>2. CASE job' = [job EXCEPT ![t].DATA = inode, ![t].disk_path = Path(t)]
        BY <3>2, <1>1, <1>2 DEF WorkerTypeOK, Job
      <3>3. QED
        BY <3>1, <3>2 DEF AddCacheDisk
    <2>2. pc' \in [Threads -> {"idle", "purge", "fetch", "add", "evict", "room", "link",
                              "serve"}]
      BY DEF AddCacheDisk, Goto, WorkerTypeOK
    <2>3. \A x \in Threads : pc'[x] # "idle" => job'[x].URL \in Urls
      BY <1>1, <2>1 DEF AddCacheDisk, Goto, WorkerTypeOK
    <2>4. QED
      BY <2>1, <2>2, <2>3 DEF AddCacheDisk, WorkerTypeOK
  <1>5. QED
    BY <1>3, <1>4

\* What AddCache fills the new node with.
LEMMA NewEntryType ==
  ASSUME WorkerTypeOK, NEW t \in Threads, pc[t] = "link"
  PROVE  job[t] \in Job /\ NewEntry(t) \in CacheModule
  <1>1. job[t] \in Job /\ job[t].URL \in Urls /\ now \in Nat
    BY DEF WorkerTypeOK
  <1>2. now + Lifetime(job[t].max_age) \in Nat
    BY <1>1, ParameterAssumption DEF Lifetime, Job
  <1>3. QED
    BY <1>1, <1>2 DEF NewEntry, CacheModule, Job

\* The insertion at the end of AddCache keeps the agreement, in memory and on disk.
LEMMA AddCacheInsertKeeps ==
  ASSUME IInv, NEW t \in Threads, NEW n \in Nodes, AddCacheInsert(t, n)
  PROVE  IInv'
  <1> USE DEF IInv, TypeOK
  <1>1. job[t] \in Job /\ job[t].URL \in Urls /\ NewEntry(t) \in CacheModule
    BY NewEntryType DEF WorkerTypeOK, AddCacheInsert
  <1>2. JobSize(t) \in Int
    BY <1>1, ParameterAssumption DEF JobSize, Job
  <1>3. CacheTypeOK' /\ Agreement'
    BY <1>1, <1>2, LinkNodeKeeps DEF AddCacheInsert
  <1>4. WorkerTypeOK'
    BY DEF AddCacheInsert, Unlock, Finish, Goto, WorkerTypeOK, Job, NoJob
  <1>5. QED
    BY <1>3, <1>4

\* Every step of every worker keeps the invariant.
LEMMA WorkerKeeps ==
  ASSUME IInv, NEW t \in Threads, Worker(t)
  PROVE  IInv'
  <1> USE DEF IInv, TypeOK
  <1>1. ASSUME NEW u \in Urls, FindCacheHit(t, u)
        PROVE  IInv'
    BY <1>1, FindCacheHitKeeps
  <1>2. ASSUME NEW u \in Urls, FindCacheExpired(t, u)
        PROVE  IInv'
    <2>1. WorkerTypeOK'
      BY <1>2 DEF FindCacheExpired, Goto, WorkerTypeOK, Job
    <2>2. QED
      BY <1>2, <2>1, CacheUnchanged DEF FindCacheExpired
  <1>3. ASSUME NEW u \in Urls, FindCacheMiss(t, u)
        PROVE  IInv'
    <2>1. WorkerTypeOK'
      BY <1>3 DEF FindCacheMiss, Goto, WorkerTypeOK, Job
    <2>2. QED
      BY <1>3, <2>1, CacheUnchanged DEF FindCacheMiss
  <1>4. CASE Cache_purge(t)
    <2>1. job[t].URL \in Urls
      BY <1>4 DEF Cache_purge, WorkerTypeOK
    <2>2. WorkerTypeOK'
      BY <1>4, <2>1 DEF Cache_purge, Goto, WorkerTypeOK
    <2>3. QED
      BY <1>4, <2>1, <2>2, PurgeKeeps DEF Cache_purge
  <1>5. CASE ServeDone(t) \/ NotStored(t) \/ AddCacheTooLarge(t) \/ AddCacheNoRoom(t)
               \/ AddCacheNoMemory(t)
    <2>1. WorkerTypeOK'
      <3>1. /\ pc' = [pc EXCEPT ![t] = "idle"] /\ job' = [job EXCEPT ![t] = NoJob]
            /\ UNCHANGED <<g_eviction_policy, g_config, now>>
        BY <1>5 DEF ServeDone, NotStored, AddCacheTooLarge, AddCacheNoRoom,
                    AddCacheNoMemory, Finish, Goto
      <3>2. LOCK' \in {LOCK, NULL} /\ in_force' \in {in_force, {}}
        BY <1>5 DEF ServeDone, NotStored, AddCacheTooLarge, AddCacheNoRoom,
                    AddCacheNoMemory, Unlock
      <3>3. QED
        BY <3>1, <3>2 DEF WorkerTypeOK, Job, NoJob
    <2>2. QED
      BY <1>5, <2>1, CacheUnchanged
         DEF ServeDone, NotStored, AddCacheTooLarge, AddCacheNoRoom, AddCacheNoMemory
  <1>6. ASSUME NEW size \in Sizes, NEW age \in Ages, AddCacheCall(t, size, age)
        PROVE  IInv'
    <2>1. size \in Int /\ age \in Int
      BY ParameterAssumption
    <2>2. WorkerTypeOK'
      <3>1. job' = [job EXCEPT ![t].SIZE = size, ![t].max_age = age]
        BY <1>6 DEF AddCacheCall
      <3>2. [job[t] EXCEPT !.SIZE = size, !.max_age = age] \in Job
        BY <2>1 DEF WorkerTypeOK, Job
      <3>3. job' \in [Threads -> Job] /\ \A x \in Threads \ {t} : job'[x] = job[x]
        BY <3>1, <3>2 DEF WorkerTypeOK
      <3>4. job'[t].URL = job[t].URL
        BY <3>1 DEF WorkerTypeOK, Job
      <3>5. QED
        BY <1>6, <3>3, <3>4 DEF AddCacheCall, Goto, WorkerTypeOK
    <2>3. QED
      BY <1>6, <2>2, CacheUnchanged DEF AddCacheCall
  <1>7. CASE AddCacheLock(t) \/ AddCacheLoopExit(t)
    <2> g_config.max_cache_size \in Nat
      BY ParameterAssumption DEF WorkerTypeOK
    <2>1. WorkerTypeOK'
      BY <1>7 DEF AddCacheLock, AddCacheLoopExit, Goto, WorkerTypeOK
    <2>2. QED
      BY <1>7, <2>1, CacheUnchanged DEF AddCacheLock, AddCacheLoopExit
  <1>8. CASE AddCacheEvict(t)
    <2>1. WorkerTypeOK'
      BY <1>8 DEF AddCacheEvict, WorkerTypeOK
    <2>2. CacheTypeOK' /\ Agreement'
      BY <1>8, VictimIsLive, FreeNodeKeeps DEF AddCacheEvict, RemoveCache
    <2>3. QED
      BY <2>1, <2>2
  <1>9. ASSUME NEW out, NEW inode \in Inodes, AddCacheDisk(t, out, inode)
        PROVE  IInv'
    BY <1>9, AddCacheDiskKeeps
  <1>10. ASSUME NEW n \in Nodes, AddCacheInsert(t, n)
         PROVE  IInv'
    BY <1>10, AddCacheInsertKeeps
  <1>11. QED
    BY <1>1, <1>2, <1>3, <1>4, <1>5, <1>6, <1>7, <1>8, <1>9, <1>10
       DEF Worker, FindCache, AddCacheStep

\* Every step of the cache and its surroundings keeps the invariant.
LEMMA NextIInv == IInv /\ [Next]_vars => IInv'
  <1> SUFFICES ASSUME IInv, [Next]_vars
               PROVE  IInv'
    OBVIOUS
  <1> USE DEF IInv, TypeOK
  <1>1. ASSUME NEW t \in Threads, Worker(t)
        PROVE  IInv'
    BY <1>1, WorkerKeeps
  <1>2. ASSUME NEW u \in Urls, PurgeCall(u)
        PROVE  IInv'
    BY <1>2, PurgeKeeps DEF PurgeCall, WorkerTypeOK
  <1>3. CASE Cache_clear
    <2>1. CacheTypeOK'
      BY <1>3 DEF Cache_clear, CacheTypeOK
    <2>2. Agreement'
      BY <1>3 DEF Cache_clear, Agreement, ListMatchesHeap, ChainsMatchHeap, Live, Elems,
                  NoRepeat
    <2>3. QED
      BY <1>3, <2>1, <2>2 DEF Cache_clear, WorkerTypeOK
  <1>4. ASSUME NEW p \in Policies, Cache_set_eviction_policy(p)
        PROVE  IInv'
    BY <1>4, CacheUnchanged, ParameterAssumption
       DEF Cache_set_eviction_policy, WorkerTypeOK
  <1>5. ASSUME NEW limits \in Limits, HotReload(limits)
        PROVE  IInv'
    <2>1. limits.max_cache_size \in Nat
      BY ParameterAssumption
    <2>2. QED
      BY <1>5, <2>1, CacheUnchanged DEF HotReload, WorkerTypeOK
  <1>6. CASE Tick
    BY <1>6, CacheUnchanged DEF Tick, WorkerTypeOK
  <1>7. CASE UNCHANGED vars
    BY <1>7, CacheUnchanged DEF vars, cacheVars, WorkerTypeOK
  <1>8. QED
    BY <1>1, <1>2, <1>3, <1>4, <1>5, <1>6, <1>7 DEF Next

(***************************************************************************)
(* What a step can do to the cache                                         *)
(***************************************************************************)

\* The structures a worker or a caller of the interface finds the cache in.
structures == <<HASH_TABLE, list, heap, CACHE_SIZE>>

\* Every step leaves the cache alone, frees one allocated node, serves a hit, inserts
\* one node or clears the cache; the clock moves in a step of its own.
LEMMA StepShape ==
  ASSUME IInv, [Next]_vars
  PROVE  \/ UNCHANGED structures /\ (now' = now \/ now' = now + 1)
         \/ (\E n \in Live : FreeNode(n)) /\ now' = now
         \/ \E t \in Threads, u \in Urls : FindCacheHit(t, u)
         \/ \E t \in Threads, n \in Nodes : AddCacheInsert(t, n)
         \/ Cache_clear
  <1> USE DEF IInv, TypeOK
  <1> DEFINE Still == UNCHANGED structures /\ (now' = now \/ now' = now + 1)
             Freed == (\E n \in Live : FreeNode(n)) /\ now' = now
             Hit == \E t \in Threads, u \in Urls : FindCacheHit(t, u)
             Stored == \E t \in Threads, n \in Nodes : AddCacheInsert(t, n)
  <1>1. ASSUME NEW u \in Urls, PurgeUrl(u), now' = now
        PROVE  Still \/ Freed
    <2>1. CASE Matches(u) # {}
      BY <1>1, <2>1, MatchIsLive DEF PurgeUrl
    <2>2. CASE Matches(u) = {}
      BY <1>1, <2>2 DEF PurgeUrl, cacheVars, structures
    <2>3. QED
      BY <2>1, <2>2
  <1>2. ASSUME NEW t \in Threads, Worker(t)
        PROVE  Still \/ Freed \/ Hit \/ Stored
    <2>1. CASE FindCache(t)
      BY <2>1 DEF FindCache, FindCacheExpired, FindCacheMiss, cacheVars, structures
    <2>2. CASE Cache_purge(t)
      <3>1. job[t].URL \in Urls
        BY <2>2 DEF Cache_purge, WorkerTypeOK
      <3>2. QED
        BY <2>2, <3>1, <1>1 DEF Cache_purge
    <2>3. CASE ServeDone(t) \/ NotStored(t)
      BY <2>3 DEF ServeDone, NotStored, cacheVars, structures
    <2>4. ASSUME NEW size \in Sizes, NEW age \in Ages, AddCacheCall(t, size, age)
          PROVE  Still
      BY <2>4 DEF AddCacheCall, cacheVars, structures
    <2>5. CASE AddCacheTooLarge(t) \/ AddCacheLock(t) \/ AddCacheLoopExit(t)
                 \/ AddCacheNoRoom(t) \/ AddCacheNoMemory(t)
      BY <2>5 DEF AddCacheTooLarge, AddCacheLock, AddCacheLoopExit, AddCacheNoRoom,
                  AddCacheNoMemory, cacheVars, structures
    <2>6. CASE AddCacheEvict(t)
      BY <2>6, VictimIsLive DEF AddCacheEvict, RemoveCache
    <2>7. ASSUME NEW out, NEW inode \in Inodes, AddCacheDisk(t, out, inode)
          PROVE  Still
      BY <2>7 DEF AddCacheDisk, structures
    <2>8. ASSUME NEW n \in Nodes, AddCacheInsert(t, n)
          PROVE  Stored
      BY <2>8
    <2> HIDE DEF Still, Freed, Hit, Stored
    <2>9. QED
      BY <1>2, <2>1, <2>2, <2>3, <2>4, <2>5, <2>6, <2>7, <2>8 DEF Worker, AddCacheStep
  <1>3. ASSUME NEW u \in Urls, PurgeCall(u)
        PROVE  Still \/ Freed
    BY <1>1, <1>3 DEF PurgeCall
  <1>4. ASSUME NEW p \in Policies, Cache_set_eviction_policy(p)
        PROVE  Still
    BY <1>4 DEF Cache_set_eviction_policy, cacheVars, structures
  <1>5. ASSUME NEW limits \in Limits, HotReload(limits)
        PROVE  Still
    BY <1>5 DEF HotReload, cacheVars, structures
  <1>6. ASSUME Tick
        PROVE  Still
    BY <1>6 DEF Tick, cacheVars, structures
  <1>7. ASSUME UNCHANGED vars
        PROVE  Still
    BY <1>7 DEF vars, structures
  <1> HIDE DEF Still, Freed, Hit, Stored
  <1>8. Still \/ Freed \/ Hit \/ Stored \/ Cache_clear
    BY <1>2, <1>3, <1>4, <1>5, <1>6, <1>7 DEF Next
  <1>9. QED
    BY <1>8 DEF Still, Freed, Hit, Stored

\* A freed node leaves the other entries as they were.
LEMMA FreedHeap ==
  ASSUME CacheTypeOK, NEW n \in Live, FreeNode(n)
  PROVE  Live' = Live \ {n} /\ \A m \in Live' : heap'[m] = heap[m]
  BY DEF Live, FreeNode, CacheTypeOK

\* A hit changes the time of last use and the count of one entry, and nothing else.
LEMMA TouchedHeap ==
  ASSUME IInv, NEW t \in Threads, NEW u \in Urls, FindCacheHit(t, u)
  PROVE  /\ Match(u) \in Live /\ Live' = Live /\ now' = now
         /\ heap'[Match(u)] = Touch(heap[Match(u)])
         /\ heap[Match(u)] \in CacheModule
         /\ \A m \in Live \ {Match(u)} : heap'[m] = heap[m]
  <1> DEFINE n == Match(u)
  <1>1. n \in Live /\ n \in Nodes /\ heap[n] \in CacheModule
    BY MatchIsLive DEF FindCacheHit, Live, IInv, TypeOK, CacheTypeOK
  <1>2. heap' = [heap EXCEPT ![n] = Touch(heap[n])] /\ now' = now
    BY DEF FindCacheHit
  <1> HIDE DEF n
  <1>3. heap'[n] = Touch(heap[n]) /\ \A m \in Nodes \ {n} : heap'[m] = heap[m]
    BY <1>1, <1>2 DEF IInv, TypeOK, CacheTypeOK
  <1>4. heap'[n] # NULL /\ heap[n] # NULL
    BY <1>1, <1>3, TouchedEntry, NullAssumption DEF IInv, TypeOK
  <1>5. Live' = Live
    BY <1>1, <1>3, <1>4 DEF Live
  <1>6. \A m \in Live \ {n} : heap'[m] = heap[m]
    BY <1>3 DEF Live
  <1>7. QED
    BY <1>1, <1>2, <1>3, <1>5, <1>6 DEF n

\* What a hit leaves alone in the entry, and the two fields it sets.
LEMMA TouchFields ==
  ASSUME NEW e \in CacheModule
  PROVE  /\ Touch(e).born = e.born /\ Touch(e).LENGTH = e.LENGTH
         /\ Touch(e).expires_at = e.expires_at /\ Touch(e).max_age = e.max_age
         /\ Touch(e).DATA = e.DATA /\ Touch(e).disk_path = e.disk_path
         /\ Touch(e).UPTIME = now /\ Touch(e).URL = e.URL
  BY DEF Touch, CacheModule

\* An insertion fills a node that was not allocated and keeps the other entries.
LEMMA StoredHeap ==
  ASSUME IInv, NEW t \in Threads, NEW n \in Nodes, AddCacheInsert(t, n)
  PROVE  /\ n \notin Live /\ Live' = Live \cup {n} /\ now' = now
         /\ heap'[n] = NewEntry(t)
         /\ \A m \in Live : heap'[m] = heap[m]
         /\ job[t] \in Job
  <1> USE DEF IInv, TypeOK
  <1> DEFINE e == NewEntry(t)
  <1>1. job[t] \in Job /\ e \in CacheModule
    BY NewEntryType DEF AddCacheInsert
  <1>2. e # NULL
    BY <1>1, NullAssumption
  <1> HIDE DEF e
  <1>3. n \notin Live /\ heap' = [heap EXCEPT ![n] = e] /\ now' = now
    BY DEF AddCacheInsert, LinkNode, e
  <1>4. Live' = Live \cup {n} /\ heap'[n] = e /\ \A m \in Live : heap'[m] = heap[m]
    BY <1>2, <1>3 DEF Live, CacheTypeOK
  <1>5. QED
    BY <1>1, <1>3, <1>4 DEF e

(***************************************************************************)
(* The mutex, the entries and the order of the chains                      *)
(***************************************************************************)

\* AddCache is called with a length.
JobInv == \A t \in Threads : job[t].SIZE \in Nat

\* What AddCache wrote into an entry still holds of it: it was stored and last used
\* in the past and expires its lifetime after it was stored.
EntryInv ==
  \A n \in Live :
    /\ heap[n].LENGTH \in Nat
    /\ heap[n].born <= now /\ heap[n].UPTIME <= now
    /\ heap[n].expires_at = heap[n].born + Lifetime(heap[n].max_age)

\* The order of a chain is kept by an insertion only because no entry is younger than
\* the clock; the growth of the cache is bounded only because no entry has a negative
\* length.
CacheInv == IInv /\ JobInv /\ EntryInv /\ NewestFirst /\ LockHeldInside

\* Initially the mutex is free and the cache empty.
LEMMA InitCacheInv == Init => CacheInv
  <1> SUFFICES ASSUME Init
               PROVE  CacheInv
    OBVIOUS
  <1>1. IInv
    BY InitIInv
  <1>2. JobInv
    BY DEF Init, NoJob, JobInv
  <1>3. EntryInv
    BY DEF Init, Cache_init, EntryInv, Live
  <1>4. NewestFirst
    BY DEF Init, Cache_init, NewestFirst
  <1>5. LockHeldInside
    BY NullAssumption DEF Init, LockHeldInside
  <1>6. QED
    BY <1>1, <1>2, <1>3, <1>4, <1>5 DEF CacheInv

\* AddCacheLock is the only step that takes the mutex, and the three ways out of
\* AddCache's critical section each give it back.
LEMMA LockKept ==
  ASSUME IInv, LockHeldInside, [Next]_vars
  PROVE  LockHeldInside'
  <1> USE DEF IInv, TypeOK, WorkerTypeOK, LockHeldInside
  <1>1. ASSUME NEW t \in Threads, Worker(t)
        PROVE  LockHeldInside'
    <2>1. CASE FindCache(t) \/ Cache_purge(t)
      BY <2>1 DEF FindCache, FindCacheHit, FindCacheExpired, FindCacheMiss, Cache_purge,
                  Goto
    <2>2. CASE ServeDone(t) \/ NotStored(t) \/ AddCacheTooLarge(t)
      BY <2>2 DEF ServeDone, NotStored, AddCacheTooLarge, Finish, Goto
    <2>3. ASSUME NEW size \in Sizes, NEW age \in Ages, AddCacheCall(t, size, age)
          PROVE  LockHeldInside'
      BY <2>3 DEF AddCacheCall, Goto
    <2>4. CASE AddCacheLock(t)
      BY <2>4, NullAssumption DEF AddCacheLock, Goto
    <2>5. CASE AddCacheEvict(t) \/ AddCacheLoopExit(t)
      BY <2>5 DEF AddCacheEvict, AddCacheLoopExit, Goto
    <2>6. CASE AddCacheNoRoom(t) \/ AddCacheNoMemory(t)
      BY <2>6, NullAssumption DEF AddCacheNoRoom, AddCacheNoMemory, Unlock, Finish, Goto
    <2>7. ASSUME NEW out, NEW inode, AddCacheDisk(t, out, inode)
          PROVE  LockHeldInside'
      BY <2>7 DEF AddCacheDisk, Goto
    <2>8. ASSUME NEW n, AddCacheInsert(t, n)
          PROVE  LockHeldInside'
      BY <2>8, NullAssumption DEF AddCacheInsert, Unlock, Finish, Goto
    <2>9. QED
      BY <1>1, <2>1, <2>2, <2>3, <2>4, <2>5, <2>6, <2>7, <2>8 DEF Worker, AddCacheStep
  <1>2. CASE UNCHANGED <<LOCK, pc>>
    BY <1>2
  <1>3. CASE Next /\ ~ \E t \in Threads : Worker(t)
    BY <1>3 DEF Next, PurgeCall, Cache_clear, Cache_set_eviction_policy, HotReload, Tick
  <1>4. QED
    BY <1>1, <1>2, <1>3 DEF vars

\* Only AddCacheCall sets the length of a job, to the length of a response.
LEMMA JobKept ==
  ASSUME IInv, JobInv, [Next]_vars
  PROVE  JobInv'
  <1> USE DEF IInv, TypeOK, WorkerTypeOK, JobInv
  <1>1. ASSUME NEW t \in Threads, Worker(t)
        PROVE  JobInv'
    <2>1. CASE FindCache(t)
      <3>1. PICK u \in Urls : FindCacheHit(t, u) \/ FindCacheExpired(t, u)
                                \/ FindCacheMiss(t, u)
        BY <2>1 DEF FindCache
      <3>2. CASE FindCacheHit(t, u)
        <4>1. job' = [job EXCEPT ![t].URL = u, ![t].CACHE = Match(u)]
          BY <3>2 DEF FindCacheHit
        <4>2. \A x \in Threads : job'[x].SIZE = job[x].SIZE
          BY <4>1 DEF Job
        <4>3. QED
          BY <4>2
      <3>3. CASE FindCacheExpired(t, u) \/ FindCacheMiss(t, u)
        BY <3>3 DEF FindCacheExpired, FindCacheMiss, Job
      <3>4. QED
        BY <3>1, <3>2, <3>3
    <2>2. CASE job' = [job EXCEPT ![t] = NoJob]
      BY <2>2 DEF NoJob
    <2>3. ASSUME NEW size \in Sizes, NEW age \in Ages, AddCacheCall(t, size, age)
          PROVE  JobInv'
      BY <2>3, ParameterAssumption DEF AddCacheCall, Job
    <2>4. CASE job' = job
      BY <2>4
    <2>w. ASSUME NEW out, NEW inode, AddCacheDisk(t, out, inode)
          PROVE  JobInv'
      <3>1. CASE job' = [job EXCEPT ![t].DATA = inode, ![t].disk_path = Path(t)]
        <4>1. \A x \in Threads : job'[x].SIZE = job[x].SIZE
          BY <3>1 DEF Job
        <4>2. QED
          BY <4>1
      <3>2. QED
        BY <2>w, <2>4, <3>1 DEF AddCacheDisk
    <2>5. CASE Cache_purge(t) \/ ServeDone(t) \/ NotStored(t) \/ AddCacheStep(t)
      BY <2>2, <2>4, <2>w, <2>5
         DEF Cache_purge, ServeDone, NotStored, AddCacheStep, AddCacheTooLarge, AddCacheLock,
             AddCacheEvict, AddCacheLoopExit, AddCacheNoRoom, AddCacheNoMemory,
             AddCacheInsert, Finish
    <2>6. QED
      BY <1>1, <2>1, <2>3, <2>5 DEF Worker
  <1>2. CASE job' = job
    BY <1>2
  <1>3. CASE Next /\ ~ \E t \in Threads : Worker(t)
    BY <1>2, <1>3 DEF Next, PurgeCall, Cache_clear, Cache_set_eviction_policy, HotReload,
                      Tick
  <1>4. QED
    BY <1>1, <1>2, <1>3 DEF vars

\* An entry keeps what AddCache wrote into it: a hit only moves its last use to the
\* present.
LEMMA EntryKept ==
  ASSUME IInv, JobInv, EntryInv, [Next]_vars
  PROVE  EntryInv'
  <1> USE DEF IInv, TypeOK
  <1>1. now \in Nat /\ \A n \in Live : heap[n] \in CacheModule
    BY DEF WorkerTypeOK, CacheTypeOK, Live
  <1>2. \A n \in Live : heap[n].born \in Nat /\ heap[n].UPTIME \in Nat
    BY <1>1 DEF CacheModule
  <1>3. CASE UNCHANGED structures /\ (now' = now \/ now' = now + 1)
    <2>1. Live' = Live /\ heap' = heap
      BY <1>3 DEF structures, Live
    <2>2. QED
      BY <1>1, <1>2, <1>3, <2>1 DEF EntryInv
  <1>4. ASSUME NEW n \in Live, FreeNode(n), now' = now
        PROVE  EntryInv'
    BY <1>4, FreedHeap DEF EntryInv
  <1>5. ASSUME NEW t \in Threads, NEW u \in Urls, FindCacheHit(t, u)
        PROVE  EntryInv'
    <2> DEFINE n == Match(u)
    <2>1. /\ n \in Live /\ Live' = Live /\ now' = now
          /\ heap'[n] = Touch(heap[n]) /\ heap[n] \in CacheModule
          /\ \A m \in Live \ {n} : heap'[m] = heap[m]
      BY <1>5, TouchedHeap
    <2> HIDE DEF n
    <2>2. /\ heap'[n].born = heap[n].born /\ heap'[n].LENGTH = heap[n].LENGTH
          /\ heap'[n].expires_at = heap[n].expires_at
          /\ heap'[n].max_age = heap[n].max_age /\ heap'[n].UPTIME = now
      BY <2>1, TouchFields
    <2>3. QED
      BY <1>1, <2>1, <2>2 DEF EntryInv
  <1>6. ASSUME NEW t \in Threads, NEW n \in Nodes, AddCacheInsert(t, n)
        PROVE  EntryInv'
    <2>1. /\ Live' = Live \cup {n} /\ now' = now /\ heap'[n] = NewEntry(t)
          /\ \A m \in Live : heap'[m] = heap[m]
      BY <1>6, StoredHeap
    <2>2. /\ heap'[n].LENGTH \in Nat /\ heap'[n].born = now /\ heap'[n].UPTIME = now
          /\ heap'[n].expires_at = heap'[n].born + Lifetime(heap'[n].max_age)
      BY <2>1 DEF NewEntry, JobInv
    <2>3. QED
      BY <1>1, <2>1, <2>2 DEF EntryInv
  <1>7. CASE Cache_clear
    BY <1>7 DEF Cache_clear, EntryInv, Live
  <1>8. QED
    BY StepShape, <1>3, <1>4, <1>5, <1>6, <1>7

\* Taking a node out of a sequence keeps the order of the others.
LEMMA WithoutOrder ==
  ASSUME NEW S, NEW s \in Seq(S), NEW n \in Elems(s),
         NEW i \in DOMAIN Without(s, n), NEW j \in DOMAIN Without(s, n), i < j
  PROVE  \E a, b \in DOMAIN s :
           a < b /\ Without(s, n)[i] = s[a] /\ Without(s, n)[j] = s[b]
  <1> DEFINE k == CHOOSE x \in DOMAIN s : s[x] = n
             w == [x \in 1 .. Len(s) - 1 |-> IF x < k THEN s[x] ELSE s[x + 1]]
  <1>1. k \in 1 .. Len(s) /\ DOMAIN s = 1 .. Len(s) /\ Len(s) \in Nat
    BY DEF Elems
  <1>2. Without(s, n) = w
    BY DEF Without
  <1> HIDE DEF k
  <1>3. i \in 1 .. Len(s) - 1 /\ j \in 1 .. Len(s) - 1
    BY <1>2
  <1>4. w[i] = IF i < k THEN s[i] ELSE s[i + 1]
    BY <1>3
  <1>5. w[j] = IF j < k THEN s[j] ELSE s[j + 1]
    BY <1>3
  <1> DEFINE a == IF i < k THEN i ELSE i + 1
             b == IF j < k THEN j ELSE j + 1
  <1>6. a \in DOMAIN s /\ b \in DOMAIN s /\ a < b
    BY <1>1, <1>3
  <1>7. w[i] = s[a] /\ w[j] = s[b]
    BY <1>4, <1>5
  <1>8. QED
    BY <1>2, <1>6, <1>7

\* The later of two entries of a bucket stays in front of the other.
LEMMA NewestFirstKept ==
  ASSUME IInv, EntryInv, NewestFirst, [Next]_vars
  PROVE  NewestFirst'
  <1> USE DEF IInv, TypeOK
  <1>1. \A n \in Live : heap[n] \in CacheModule /\ heap[n].born \in Nat
    BY DEF CacheTypeOK, CacheModule, Live
  <1>2. \A b \in Buckets : /\ HASH_TABLE[b] \in Seq(Nodes)
                           /\ \A i \in DOMAIN HASH_TABLE[b] : HASH_TABLE[b][i] \in Live
    BY DEF CacheTypeOK, Agreement, ChainsMatchHeap, Elems
  <1>3. ASSUME UNCHANGED structures
        PROVE  NewestFirst'
    BY <1>3 DEF structures, NewestFirst
  <1>4. ASSUME NEW n \in Live, FreeNode(n)
        PROVE  NewestFirst'
    <2> DEFINE h == hash_url[heap[n].URL]
    <2>1. h \in Buckets /\ n \in Elems(HASH_TABLE[h])
      BY <1>1, HashAssumption DEF CacheModule, Agreement, ChainsMatchHeap
    <2>2. \A m \in Live \ {n} : heap'[m] = heap[m]
      BY <1>4, FreedHeap
    <2>3. HASH_TABLE' = [HASH_TABLE EXCEPT ![h] = Without(HASH_TABLE[h], n)]
      BY <1>4 DEF FreeNode
    <2> HIDE DEF h
    <2>4. /\ HASH_TABLE'[h] = Without(HASH_TABLE[h], n)
          /\ \A b \in Buckets \ {h} : HASH_TABLE'[b] = HASH_TABLE[b]
      BY <2>1, <2>3 DEF CacheTypeOK
    <2> SUFFICES ASSUME NEW b \in Buckets, NEW i \in DOMAIN HASH_TABLE'[b],
                        NEW j \in DOMAIN HASH_TABLE'[b], i < j
                 PROVE  heap'[HASH_TABLE'[b][i]].born >= heap'[HASH_TABLE'[b][j]].born
      BY DEF NewestFirst
    <2>5. PICK x, y \in DOMAIN HASH_TABLE[b] :
            x < y /\ HASH_TABLE'[b][i] = HASH_TABLE[b][x]
                  /\ HASH_TABLE'[b][j] = HASH_TABLE[b][y]
      <3>1. CASE b = h
        BY <3>1, <2>1, <2>4, <1>2, WithoutOrder
      <3>2. CASE b # h
        BY <3>2, <2>4
      <3>3. QED
        BY <3>1, <3>2
    <2>6. HASH_TABLE'[b][i] \in Live' /\ HASH_TABLE'[b][j] \in Live'
      <3>1. Agreement'
        BY <1>4, FreeNodeKeeps
      <3>2. QED
        BY <3>1 DEF Agreement, ChainsMatchHeap, Elems
    <2>7. /\ heap'[HASH_TABLE'[b][i]] = heap[HASH_TABLE[b][x]]
          /\ heap'[HASH_TABLE'[b][j]] = heap[HASH_TABLE[b][y]]
      BY <1>4, <2>5, <2>6, FreedHeap
    <2>8. QED
      BY <2>5, <2>7 DEF NewestFirst
  <1>5. ASSUME NEW t \in Threads, NEW u \in Urls, FindCacheHit(t, u)
        PROVE  NewestFirst'
    <2>1. \A m \in Live : heap'[m].born = heap[m].born
      BY <1>1, <1>5, TouchedHeap, TouchFields
    <2>2. HASH_TABLE' = HASH_TABLE
      BY <1>5 DEF FindCacheHit
    <2>3. QED
      BY <1>2, <2>1, <2>2 DEF NewestFirst
  <1>6. ASSUME NEW t \in Threads, NEW n \in Nodes, AddCacheInsert(t, n)
        PROVE  NewestFirst'
    <2> DEFINE h == hash_url[job[t].URL]
    <2>1. /\ n \notin Live /\ now' = now /\ heap'[n] = NewEntry(t)
          /\ \A m \in Live : heap'[m] = heap[m]
      BY <1>6, StoredHeap
    <2>2. heap'[n].born = now /\ now \in Nat /\ \A m \in Live : heap[m].born <= now
      BY <2>1 DEF NewEntry, EntryInv, WorkerTypeOK
    <2>3. h \in Buckets
      BY <1>6, HashAssumption DEF AddCacheInsert, WorkerTypeOK
    <2>4. HASH_TABLE' = [HASH_TABLE EXCEPT ![h] = <<n>> \o HASH_TABLE[h]]
      BY <1>6 DEF AddCacheInsert, LinkNode, NewEntry
    <2> HIDE DEF h
    <2>5. /\ HASH_TABLE'[h] = <<n>> \o HASH_TABLE[h]
          /\ \A b \in Buckets \ {h} : HASH_TABLE'[b] = HASH_TABLE[b]
      BY <2>3, <2>4 DEF CacheTypeOK
    <2> SUFFICES ASSUME NEW b \in Buckets, NEW i \in DOMAIN HASH_TABLE'[b],
                        NEW j \in DOMAIN HASH_TABLE'[b], i < j
                 PROVE  heap'[HASH_TABLE'[b][i]].born >= heap'[HASH_TABLE'[b][j]].born
      BY DEF NewestFirst
    <2>6. CASE b # h
      BY <2>1, <2>5, <2>6, <1>2 DEF NewestFirst
    <2>7. CASE b = h
      <3> DEFINE c == HASH_TABLE[h]
                 w == <<n>> \o c
      <3>1. c \in Seq(Nodes) /\ Len(c) \in Nat /\ DOMAIN c = 1 .. Len(c)
        BY <2>3, <1>2
      <3>2. /\ DOMAIN w = 1 .. Len(c) + 1 /\ w[1] = n
            /\ \A x \in 1 .. Len(c) : w[x + 1] = c[x]
        BY <3>1
      <3>3. i \in 1 .. Len(c) + 1 /\ j \in 1 .. Len(c) + 1 /\ HASH_TABLE'[b] = w
        BY <2>5, <2>7, <3>2
      <3>c. \A x \in DOMAIN c : c[x] \in Live
        BY <1>2, <2>3
      <3>o. \A x, y \in DOMAIN c : x < y => heap[c[x]].born >= heap[c[y]].born
        BY <2>3 DEF NewestFirst
      <3> HIDE DEF c, w
      <3>4. j - 1 \in DOMAIN c /\ w[j] = c[j - 1]
        <4>1. j - 1 \in 1 .. Len(c) /\ (j - 1) + 1 = j
          BY <3>1, <3>3
        <4>2. QED
          BY <4>1, <3>1, <3>2
      <3>5. CASE i = 1
        BY <3>2, <3>3, <3>4, <3>5, <3>c, <2>1, <2>2, <1>1
      <3>6. CASE i # 1
        <4>1. i - 1 \in 1 .. Len(c) /\ (i - 1) + 1 = i /\ i - 1 < j - 1
          BY <3>1, <3>3, <3>6
        <4>2. i - 1 \in DOMAIN c /\ w[i] = c[i - 1]
          BY <4>1, <3>1, <3>2
        <4>3. heap[c[i - 1]].born >= heap[c[j - 1]].born
          BY <4>1, <4>2, <3>4, <3>o
        <4>4. QED
          BY <4>2, <4>3, <3>3, <3>4, <3>c, <2>1
      <3>7. QED
        BY <3>5, <3>6
    <2>8. QED
      BY <2>6, <2>7
  <1>7. CASE Cache_clear
    BY <1>7 DEF Cache_clear, NewestFirst
  <1>8. QED
    BY StepShape, <1>3, <1>4, <1>5, <1>6, <1>7

\* Every step keeps the invariant of the cache.
LEMMA NextCacheInv == CacheInv /\ [Next]_vars => CacheInv'
  <1> SUFFICES ASSUME CacheInv, [Next]_vars
               PROVE  CacheInv'
    OBVIOUS
  <1>1. IInv /\ JobInv /\ EntryInv /\ NewestFirst /\ LockHeldInside
    BY DEF CacheInv
  <1>2. IInv'
    BY <1>1, NextIInv
  <1>3. QED
    BY <1>1, <1>2, LockKept, JobKept, EntryKept, NewestFirstKept DEF CacheInv

(***************************************************************************)
(* The size of the cache                                                   *)
(***************************************************************************)

\* An interval has as many numbers as its upper bound says.
LEMMA IntervalCount ==
  ASSUME NEW k \in Nat
  PROVE  IsFiniteSet(1 .. k) /\ Cardinality(1 .. k) = k
  <1>1. IsFiniteSet(1 .. k) /\ Cardinality(1 .. k) = IF 1 > k THEN 0 ELSE k - 1 + 1
    BY FS_Interval
  <1>2. QED
    BY <1>1

\* A block of k bytes of one node.
LEMMA BlockCount ==
  ASSUME NEW n, NEW k \in Nat
  PROVE  IsFiniteSet({n} \X (1 .. k)) /\ Cardinality({n} \X (1 .. k)) = k
  <1>1. IsFiniteSet(1 .. k) /\ Cardinality(1 .. k) = k
    BY IntervalCount
  <1>2. IsFiniteSet({n}) /\ Cardinality({n}) = 1
    BY FS_Singleton
  <1> DEFINE A == {n}  B == 1 .. k
  <1> HIDE DEF A, B
  <1>3. ASSUME IsFiniteSet(A), IsFiniteSet(B)
        PROVE  IsFiniteSet(A \X B) /\ Cardinality(A \X B) = Cardinality(A) * Cardinality(B)
    BY <1>3, FS_Product, Zenon
  <1>4. IsFiniteSet({n} \X (1 .. k)) /\ Cardinality({n} \X (1 .. k)) = Cardinality({n}) * Cardinality(1 .. k)
    BY <1>1, <1>2, <1>3 DEF A, B
  <1>5. 1 * k = k
    OBVIOUS
  <1> QED
    BY <1>1, <1>2, <1>4, <1>5

\* The bytes of an entry are as many as its size.
LEMMA EntryBytesCount ==
  ASSUME NEW n \in Nodes, heap[n].LENGTH \in Nat, heap[n].URL \in Urls
  PROVE  /\ IsFiniteSet(EntryBytes(n))
         /\ Cardinality(EntryBytes(n)) = heap[n].LENGTH + Overhead[heap[n].URL]
  <1> DEFINE k == heap[n].LENGTH + Overhead[heap[n].URL]
  <1>1. k \in Nat
    BY ParameterAssumption
  <1> HIDE DEF k
  <1>2. IsFiniteSet({n} \X (1 .. k)) /\ Cardinality({n} \X (1 .. k)) = k
    BY <1>1, BlockCount
  <1>3. QED
    BY <1>2 DEF EntryBytes, k

\* CACHE_SIZE is changed by differences, so that its agreement with the entries is an
\* invariant only of entries whose lengths are those AddCache was given.
SizeInv == CacheInv /\ IsFiniteSet(CachedBytes) /\ SizeAccounted

\* An empty cache occupies nothing.
LEMMA InitSizeInv == Init => SizeInv
  <1> SUFFICES ASSUME Init
               PROVE  SizeInv
    OBVIOUS
  <1>1. CachedBytes = {} /\ CACHE_SIZE = 0
    BY DEF Init, Cache_init, CachedBytes, Live
  <1>2. QED
    BY <1>1, InitCacheInv, FS_EmptySet DEF SizeInv, SizeAccounted

\* Freeing an entry gives back its bytes, and a hit or an insertion changes no other.
LEMMA SizeKept ==
  ASSUME SizeInv, [Next]_vars
  PROVE  IsFiniteSet(CachedBytes') /\ SizeAccounted'
  <1> USE DEF SizeInv, CacheInv, IInv, TypeOK
  <1>1. \A n \in Live : /\ n \in Nodes /\ heap[n] \in CacheModule
                        /\ heap[n].LENGTH \in Nat /\ heap[n].URL \in Urls
    BY DEF CacheTypeOK, CacheModule, EntryInv, Live
  <1>2. IsFiniteSet(CachedBytes) /\ CACHE_SIZE = Cardinality(CachedBytes)
    BY DEF SizeAccounted
  <1>3. ASSUME CACHE_SIZE' = CACHE_SIZE, Live' = Live,
               \A n \in Live : /\ heap'[n].LENGTH = heap[n].LENGTH
                               /\ heap'[n].URL = heap[n].URL
        PROVE  IsFiniteSet(CachedBytes') /\ SizeAccounted'
    <2>1. CachedBytes' = CachedBytes
      BY <1>3 DEF CachedBytes, EntryBytes
    <2>2. QED
      BY <1>2, <1>3, <2>1 DEF SizeAccounted
  <1>4. ASSUME UNCHANGED structures
        PROVE  IsFiniteSet(CachedBytes') /\ SizeAccounted'
    <2>1. Live' = Live
      BY <1>4 DEF structures, Live
    <2>2. QED
      BY <1>3, <1>4, <2>1 DEF structures
  <1>5. ASSUME NEW n \in Live, FreeNode(n)
        PROVE  IsFiniteSet(CachedBytes') /\ SizeAccounted'
    <2>1. Live' = Live \ {n} /\ \A m \in Live' : heap'[m] = heap[m]
      BY <1>5, FreedHeap
    <2>2. CachedBytes' = CachedBytes \ EntryBytes(n)
      BY <2>1 DEF CachedBytes, EntryBytes
    <2>3. CachedBytes \cap EntryBytes(n) = EntryBytes(n)
      BY DEF CachedBytes
    <2>4. /\ IsFiniteSet(CachedBytes \ EntryBytes(n))
          /\ Cardinality(CachedBytes \ EntryBytes(n))
               = Cardinality(CachedBytes) - Cardinality(EntryBytes(n))
      BY <1>2, <2>3, FS_Difference
    <2>5. Cardinality(EntryBytes(n)) = heap[n].LENGTH + Overhead[heap[n].URL]
      BY <1>1, EntryBytesCount
    <2>6. CACHE_SIZE' = CACHE_SIZE - (heap[n].LENGTH + Overhead[heap[n].URL])
      BY <1>5 DEF FreeNode, ElementSize
    <2>7. QED
      BY <1>2, <2>2, <2>4, <2>5, <2>6 DEF SizeAccounted
  <1>6. ASSUME NEW t \in Threads, NEW u \in Urls, FindCacheHit(t, u)
        PROVE  IsFiniteSet(CachedBytes') /\ SizeAccounted'
    <2>1. CACHE_SIZE' = CACHE_SIZE
      BY <1>6 DEF FindCacheHit
    <2>2. Live' = Live /\ \A m \in Live : /\ heap'[m].LENGTH = heap[m].LENGTH
                                          /\ heap'[m].URL = heap[m].URL
      BY <1>1, <1>6, TouchedHeap, TouchFields
    <2>3. QED
      BY <1>3, <2>1, <2>2
  <1>7. ASSUME NEW t \in Threads, NEW n \in Nodes, AddCacheInsert(t, n)
        PROVE  IsFiniteSet(CachedBytes') /\ SizeAccounted'
    <2>1. /\ n \notin Live /\ Live' = Live \cup {n}
          /\ heap'[n] = NewEntry(t)
          /\ \A m \in Live : heap'[m] = heap[m]
      BY <1>7, StoredHeap
    <2> DEFINE k == job[t].SIZE + Overhead[job[t].URL]
               N == {n} \X (1 .. k)
    <2>2. k \in Nat /\ heap'[n].LENGTH = job[t].SIZE /\ heap'[n].URL = job[t].URL
      <3>1. job[t].URL \in Urls
        BY <1>7 DEF AddCacheInsert, WorkerTypeOK
      <3>2. QED
        BY <2>1, <3>1, ParameterAssumption DEF JobInv, NewEntry
    <2>3. CACHE_SIZE' = CACHE_SIZE + k
      BY <1>7 DEF AddCacheInsert, LinkNode, JobSize
    <2>4. EntryBytes(n)' = N
      BY <2>2 DEF EntryBytes
    <2> HIDE DEF k
    <2>5. IsFiniteSet(N) /\ Cardinality(N) = k
      BY <2>2, BlockCount
    <2>6. \A m \in Live : EntryBytes(m)' = EntryBytes(m)
      BY <2>1 DEF EntryBytes
    <2>7. CachedBytes' = CachedBytes \cup N
      BY <2>1, <2>4, <2>6 DEF CachedBytes
    <2>8. CachedBytes \cap N = {}
      BY <2>1 DEF CachedBytes, EntryBytes
    <2> HIDE DEF N
    <2>9. /\ IsFiniteSet(CachedBytes \cup N)
          /\ Cardinality(CachedBytes \cup N) = Cardinality(CachedBytes) + k
      <3>1. /\ IsFiniteSet(CachedBytes \cup N)
            /\ Cardinality(CachedBytes \cup N)
                 = Cardinality(CachedBytes) + Cardinality(N) - Cardinality({})
        BY <1>2, <2>5, <2>8, FS_Union
      <3>2. Cardinality({}) = 0 /\ Cardinality(CachedBytes) \in Nat
        BY <1>2, FS_EmptySet, FS_CardinalityType
      <3>3. QED
        BY <3>1, <3>2, <2>2, <2>5
    <2>10. QED
      BY <1>2, <2>3, <2>7, <2>9 DEF SizeAccounted
  <1>8. ASSUME Cache_clear
        PROVE  IsFiniteSet(CachedBytes') /\ SizeAccounted'
    <2>1. CachedBytes' = {} /\ CACHE_SIZE' = 0
      BY <1>8 DEF Cache_clear, CachedBytes, Live
    <2>2. QED
      BY <2>1, FS_EmptySet DEF SizeAccounted
  <1>9. QED
    BY StepShape, <1>4, <1>5, <1>6, <1>7, <1>8

(***************************************************************************)
(* The order of the list under LRU                                         *)
(***************************************************************************)

\* The list is ordered by last use as long as no other policy was in force: under LFU
\* and TTL a hit moves the last use of an entry and leaves the entry where it is.
LruInv == CacheInv /\ g_eviction_policy = "LRU" /\ LruOrder

\* A hit moves the entry to the end and an insertion appends, both with the present
\* as last use, and no entry was used later than now.
LEMMA LruOrderKept ==
  ASSUME LruInv, [Next]_vars
  PROVE  LruOrder'
  <1> USE DEF LruInv, CacheInv, IInv, TypeOK
  <1>1. \A n \in Live : heap[n] \in CacheModule /\ heap[n].UPTIME \in Nat
    BY DEF CacheTypeOK, CacheModule, Live
  <1>2. list \in Seq(Nodes) /\ Elems(list) = Live /\ \A i \in DOMAIN list : list[i] \in Live
    BY DEF CacheTypeOK, Agreement, ListMatchesHeap, Elems
  <1>3. now \in Nat /\ \A n \in Live : heap[n].UPTIME <= now
    BY DEF EntryInv, WorkerTypeOK
  <1>4. ASSUME UNCHANGED structures
        PROVE  LruOrder'
    BY <1>4 DEF structures, LruOrder
  <1>5. ASSUME NEW n \in Live, FreeNode(n)
        PROVE  LruOrder'
    <2>1. list' = Without(list, n)
      BY <1>5 DEF FreeNode, list_remove
    <2>2. \A i \in DOMAIN list' : list'[i] \in Live'
      <3>1. Agreement'
        BY <1>5, FreeNodeKeeps
      <3>2. QED
        BY <3>1 DEF Agreement, ListMatchesHeap, Elems
    <2> SUFFICES ASSUME NEW i \in DOMAIN list', NEW j \in DOMAIN list', i < j
                 PROVE  heap'[list'[i]].UPTIME <= heap'[list'[j]].UPTIME
      BY DEF LruOrder
    <2>3. PICK x, y \in DOMAIN list : x < y /\ list'[i] = list[x] /\ list'[j] = list[y]
      BY <2>1, <1>2, WithoutOrder
    <2>4. heap'[list'[i]] = heap[list[x]] /\ heap'[list'[j]] = heap[list[y]]
      BY <1>5, <2>2, <2>3, FreedHeap
    <2>5. QED
      BY <2>3, <2>4 DEF LruOrder
  <1>6. ASSUME NEW t \in Threads, NEW u \in Urls, FindCacheHit(t, u)
        PROVE  LruOrder'
    <2> DEFINE n == Match(u)
               w == Without(list, n)
    <2>1. /\ n \in Live /\ n \in Nodes /\ heap'[n].UPTIME = now
          /\ \A m \in Live \ {n} : heap'[m] = heap[m]
      BY <1>6, TouchedHeap, TouchFields DEF Live
    <2>2. list' = Append(w, n)
      BY <1>6 DEF FindCacheHit, list_move_to_end, list_append, list_remove
    <2>3. w \in Seq(Nodes) /\ Elems(w) = Live \ {n}
      BY <1>2, <2>1, WithoutProperties DEF Agreement, ListMatchesHeap
    <2>4. ASSUME NEW i \in DOMAIN w, NEW j \in DOMAIN w, i < j
          PROVE  heap'[w[i]].UPTIME <= heap'[w[j]].UPTIME
      <3>1. PICK x, y \in DOMAIN list : x < y /\ w[i] = list[x] /\ w[j] = list[y]
        BY <1>2, <2>1, <2>4, WithoutOrder
      <3>2. heap'[w[i]] = heap[w[i]] /\ heap'[w[j]] = heap[w[j]]
        BY <2>1, <2>3 DEF Elems
      <3>3. QED
        BY <3>1, <3>2 DEF LruOrder
    <2>5. \A i \in DOMAIN w : heap'[w[i]].UPTIME <= heap'[n].UPTIME
      <3>1. \A i \in DOMAIN w : w[i] \in Live \ {n}
        BY <2>3 DEF Elems
      <3>2. QED
        BY <3>1, <2>1, <1>3
    <2> HIDE DEF w, n
    <2>6. /\ DOMAIN w = 1 .. Len(w) /\ Len(w) \in Nat /\ DOMAIN list' = 1 .. Len(w) + 1
          /\ \A i \in 1 .. Len(w) : list'[i] = w[i]
          /\ list'[Len(w) + 1] = n
      BY <2>1, <2>2, <2>3, AppendProperties
    <2>7. QED
      BY <2>4, <2>5, <2>6 DEF LruOrder
  <1>7. ASSUME NEW t \in Threads, NEW n \in Nodes, AddCacheInsert(t, n)
        PROVE  LruOrder'
    <2>1. heap'[n] = NewEntry(t) /\ \A m \in Live : heap'[m] = heap[m]
      BY <1>7, StoredHeap
    <2>2. heap'[n].UPTIME = now
      BY <2>1 DEF NewEntry
    <2>3. list' = Append(list, n)
      BY <1>7 DEF AddCacheInsert, LinkNode, list_append
    <2>4. /\ DOMAIN list = 1 .. Len(list) /\ Len(list) \in Nat
          /\ DOMAIN list' = 1 .. Len(list) + 1
          /\ \A i \in 1 .. Len(list) : list'[i] = list[i]
          /\ list'[Len(list) + 1] = n
      BY <2>3, <1>2, AppendProperties
    <2>5. \A i \in DOMAIN list : heap'[list[i]].UPTIME <= heap'[n].UPTIME
      BY <2>1, <2>2, <1>2, <1>3
    <2>6. \A i, j \in DOMAIN list :
            i < j => heap'[list[i]].UPTIME <= heap'[list[j]].UPTIME
      BY <2>1, <1>2 DEF LruOrder
    <2>7. QED
      BY <2>4, <2>5, <2>6 DEF LruOrder
  <1>8. CASE Cache_clear
    BY <1>8 DEF Cache_clear, LruOrder
  <1>9. QED
    BY StepShape, <1>4, <1>5, <1>6, <1>7, <1>8

\* The policy changes only through Cache_set_eviction_policy.
LEMMA PolicyKept ==
  ASSUME Policies \subseteq {"LRU"}, g_eviction_policy = "LRU", [Next]_vars
  PROVE  g_eviction_policy' = "LRU"
  <1>1. ASSUME NEW t \in Threads, Worker(t)
        PROVE  g_eviction_policy' = g_eviction_policy
    BY <1>1 DEF Worker, FindCache, FindCacheHit, FindCacheExpired, FindCacheMiss,
                Cache_purge, ServeDone, NotStored, AddCacheCall, AddCacheStep,
                AddCacheTooLarge, AddCacheLock, AddCacheEvict, AddCacheLoopExit,
                AddCacheNoRoom, AddCacheNoMemory, AddCacheDisk, AddCacheInsert
  <1>2. CASE UNCHANGED vars
    BY <1>2 DEF vars
  <1>3. CASE Next /\ ~ \E t \in Threads : Worker(t)
    BY <1>3 DEF Next, PurgeCall, Cache_clear, Cache_set_eviction_policy, HotReload, Tick
  <1>4. QED
    BY <1>1, <1>2, <1>3

(***************************************************************************)
(* The cache directory                                                     *)
(***************************************************************************)

\* An entry has the name of a file exactly when it lives on disk, and so does a response
\* AddCache is about to link.
DiskInv ==
  /\ \A n \in Live : heap[n].disk_path = NULL <=> heap[n].DATA = NULL
  /\ \A t \in Threads : job[t].disk_path = NULL <=> job[t].DATA = NULL

\* A file keeps an owner only because names and memory on disk go together: an entry in
\* memory owns none.
FileInv == IInv /\ DiskInv /\ NoOrphanFiles

\* Only the disk tier gives a response a name and a file, both in one step.
LEMMA JobDiskKept ==
  ASSUME IInv, DiskInv, [Next]_vars
  PROVE  \A t \in Threads : job'[t].disk_path = NULL <=> job'[t].DATA = NULL
  <1> USE DEF IInv, TypeOK, WorkerTypeOK, DiskInv
  <1> DEFINE Both == \A t \in Threads : job'[t].disk_path = NULL <=> job'[t].DATA = NULL
  <1>1. ASSUME \A t \in Threads : /\ job'[t].disk_path = job[t].disk_path
                                  /\ job'[t].DATA = job[t].DATA
        PROVE  Both
    BY <1>1
  <1>2. ASSUME NEW t \in Threads, Worker(t)
        PROVE  Both
    <2>1. CASE FindCache(t)
      <3>1. PICK u \in Urls : FindCacheHit(t, u) \/ FindCacheExpired(t, u)
                                \/ FindCacheMiss(t, u)
        BY <2>1 DEF FindCache
      <3>2. CASE FindCacheHit(t, u)
        <4>1. job' = [job EXCEPT ![t].URL = u, ![t].CACHE = Match(u)]
          BY <3>2 DEF FindCacheHit
        <4>2. \A x \in Threads : /\ job'[x].disk_path = job[x].disk_path
                                 /\ job'[x].DATA = job[x].DATA
          BY <4>1 DEF Job
        <4>3. QED
          BY <4>2, <1>1
      <3>3. CASE FindCacheExpired(t, u) \/ FindCacheMiss(t, u)
        BY <3>3, <1>1 DEF FindCacheExpired, FindCacheMiss, Job
      <3>4. QED
        BY <3>1, <3>2, <3>3
    <2>2. CASE job' = [job EXCEPT ![t] = NoJob]
      BY <2>2 DEF NoJob
    <2>3. ASSUME NEW size \in Sizes, NEW age \in Ages, AddCacheCall(t, size, age)
          PROVE  Both
      <3>1. job' = [job EXCEPT ![t].SIZE = size, ![t].max_age = age]
        BY <2>3 DEF AddCacheCall
      <3>2. \A x \in Threads : /\ job'[x].disk_path = job[x].disk_path
                               /\ job'[x].DATA = job[x].DATA
        BY <3>1 DEF Job
      <3>3. QED
        BY <3>2, <1>1
    <2>4. CASE job' = job
      BY <2>4
    <2>5. ASSUME NEW out, NEW inode \in Inodes, AddCacheDisk(t, out, inode)
          PROVE  Both
      <3>1. CASE job' = [job EXCEPT ![t].DATA = inode, ![t].disk_path = Path(t)]
        <4>1. Path(t) # NULL /\ inode # NULL
          BY <2>5, DiskWriteKeeps, NullAssumption DEF AddCacheDisk
        <4>2. /\ job'[t].disk_path = Path(t) /\ job'[t].DATA = inode
              /\ \A x \in Threads \ {t} : job'[x] = job[x]
          BY <3>1 DEF Job
        <4>3. QED
          BY <4>1, <4>2
      <3>2. QED
        BY <2>4, <2>5, <3>1 DEF AddCacheDisk
    <2> HIDE DEF Both
    <2>6. CASE Cache_purge(t) \/ ServeDone(t) \/ NotStored(t) \/ AddCacheStep(t)
      BY <2>2, <2>4, <2>5, <2>6
         DEF Cache_purge, ServeDone, NotStored, AddCacheStep, AddCacheTooLarge, AddCacheLock,
             AddCacheEvict, AddCacheLoopExit, AddCacheNoRoom, AddCacheNoMemory,
             AddCacheInsert, Finish
    <2>7. QED
      BY <1>2, <2>1, <2>3, <2>6 DEF Worker
  <1>3. CASE job' = job
    BY <1>3
  <1>4. CASE Next /\ ~ \E t \in Threads : Worker(t)
    BY <1>3, <1>4 DEF Next, PurgeCall, Cache_clear, Cache_set_eviction_policy, HotReload,
                      Tick
  <1>5. QED
    BY <1>2, <1>3, <1>4 DEF vars

\* A worker about to link a response with a file goes on owning the file or hands it to
\* the entry: the malloc that can still fail is for responses without one.
LEMMA OwnerKept ==
  ASSUME IInv, [Next]_vars, NEW t \in Threads, pc[t] = "link",
         NEW p \in Paths, job[t].disk_path = p
  PROVE  \/ pc'[t] = "link" /\ job'[t].disk_path = p
         \/ \E n \in Live' : heap'[n].disk_path = p
  <1> USE DEF IInv, TypeOK, WorkerTypeOK
  <1> DEFINE Stays == UNCHANGED <<pc[t], job[t]>>
  <1>1. ASSUME NEW x \in Threads, Worker(x), x # t
        PROVE  Stays
    BY <1>1
       DEF Worker, FindCache, FindCacheHit, FindCacheExpired, FindCacheMiss,
           Cache_purge, ServeDone, NotStored, AddCacheCall, AddCacheStep,
           AddCacheTooLarge, AddCacheLock, AddCacheEvict, AddCacheLoopExit,
           AddCacheNoRoom, AddCacheNoMemory, AddCacheDisk, AddCacheInsert, Finish, Goto
  <1>2. CASE UNCHANGED <<pc, job>>
    BY <1>2
  <1>3. CASE Next /\ ~ \E x \in Threads : Worker(x)
    BY <1>2, <1>3 DEF Next, PurgeCall, Cache_clear, Cache_set_eviction_policy, HotReload,
                      Tick
  <1>4. CASE Worker(t)
    <2>1. PICK n \in Nodes : AddCacheInsert(t, n)
      <3>1. p # NULL
        BY NullAssumption
      <3>2. QED
        BY <1>4, <3>1
           DEF Worker, FindCache, FindCacheHit, FindCacheExpired, FindCacheMiss,
               Cache_purge, ServeDone, NotStored, AddCacheCall, AddCacheStep,
               AddCacheTooLarge, AddCacheLock, AddCacheEvict, AddCacheLoopExit,
               AddCacheNoRoom, AddCacheNoMemory, AddCacheDisk
    <2>2. n \in Live' /\ heap'[n] = NewEntry(t)
      BY <2>1, StoredHeap
    <2>3. heap'[n].disk_path = p
      BY <2>2 DEF NewEntry
    <2>4. QED
      BY <2>2, <2>3
  <1>5. QED
    BY <1>1, <1>2, <1>3, <1>4 DEF vars

\* A step that leaves the structures alone takes no file away from an owner and adds one
\* only when AddCache writes it.
LEMMA StillDir ==
  ASSUME IInv, [Next]_vars, UNCHANGED structures
  PROVE  \/ dir' \subseteq dir /\ stray' = stray
         \/ \E t \in Threads, out \in {"none", "ok", "left"}, inode \in Inodes :
              AddCacheDisk(t, out, inode)
  <1> DEFINE Less == dir' \subseteq dir /\ stray' = stray
  <1>1. ASSUME NEW n \in Live, FreeNode(n)
        PROVE  Less
    BY <1>1 DEF FreeNode, unlink
  <1>2. ASSUME NEW u \in Urls, PurgeUrl(u)
        PROVE  Less
    BY <1>2 DEF PurgeUrl, FreeNode, unlink, cacheVars
  <1>3. ASSUME NEW t \in Threads, Worker(t),
               ~ \E out \in {"none", "ok", "left"}, inode \in Inodes :
                   AddCacheDisk(t, out, inode)
        PROVE  Less
    <2>1. CASE FindCache(t) \/ ServeDone(t) \/ NotStored(t)
      BY <2>1 DEF FindCache, FindCacheHit, FindCacheExpired, FindCacheMiss, ServeDone,
                  NotStored, cacheVars
    <2>2. CASE Cache_purge(t)
      BY <2>2, <1>2 DEF Cache_purge, IInv, TypeOK, WorkerTypeOK
    <2>3. ASSUME NEW size \in Sizes, NEW age \in Ages, AddCacheCall(t, size, age)
          PROVE  Less
      BY <2>3 DEF AddCacheCall, cacheVars
    <2>4. CASE AddCacheTooLarge(t) \/ AddCacheLock(t) \/ AddCacheLoopExit(t)
                 \/ AddCacheNoRoom(t) \/ AddCacheNoMemory(t)
      BY <2>4 DEF AddCacheTooLarge, AddCacheLock, AddCacheLoopExit, AddCacheNoRoom,
                  AddCacheNoMemory, cacheVars
    <2>5. CASE AddCacheEvict(t)
      BY <2>5 DEF AddCacheEvict, RemoveCache, FreeNode, unlink
    <2>6. ASSUME NEW n \in Nodes, AddCacheInsert(t, n)
          PROVE  Less
      BY <2>6 DEF AddCacheInsert
    <2> HIDE DEF Less
    <2>7. QED
      BY <1>3, <2>1, <2>2, <2>3, <2>4, <2>5, <2>6 DEF Worker, AddCacheStep
  <1>4. ASSUME NEW u \in Urls, PurgeCall(u)
        PROVE  Less
    BY <1>2, <1>4 DEF PurgeCall
  <1>5. CASE Cache_clear
    BY <1>5 DEF Cache_clear
  <1>6. CASE UNCHANGED <<dir, stray>>
    BY <1>6
  <1>7. QED
    BY <1>3, <1>4, <1>5, <1>6
       DEF Next, Cache_set_eviction_policy, HotReload, Tick, vars, cacheVars

\* What a file name can belong to; the names of the program's own leftovers are stray.
Owned(p) ==
  \/ p \in stray
  \/ \E n \in Live : heap[n].disk_path = p
  \/ \E t \in Threads : pc[t] = "link" /\ job[t].disk_path = p

\* Every step keeps each file with an entry: two entries may share a file, and then
\* lose it together.
LEMMA NextFileInv ==
  ASSUME FileInv, [Next]_vars
  PROVE  FileInv'
  <1> USE DEF FileInv
  <1>1. IInv'
    BY NextIInv
  <1>2. \A t \in Threads : job'[t].disk_path = NULL <=> job'[t].DATA = NULL
    BY JobDiskKept
  <1>3. \A d \in dir : d.path \in Paths /\ Owned(d.path)
    BY DEF NoOrphanFiles, Owned, IInv, TypeOK, CacheTypeOK
  <1>4. ASSUME \A d \in dir' : Owned(d.path)'
        PROVE  NoOrphanFiles'
    BY <1>4 DEF Owned, NoOrphanFiles
  \* Without an unlink a file keeps its owner.
  <1>5. ASSUME NEW d \in dir, d.path \in stray => Owned(d.path)',
               \A n \in Live : heap[n].disk_path = d.path =>
                 n \in Live' /\ heap'[n].disk_path = d.path
        PROVE  Owned(d.path)'
    <2>1. ASSUME NEW t \in Threads, pc[t] = "link", job[t].disk_path = d.path
          PROVE  Owned(d.path)'
      BY <2>1, <1>3, OwnerKept DEF Owned
    <2>2. QED
      BY <1>3, <1>5, <2>1 DEF Owned
  <1>6. CASE UNCHANGED structures
    <2>1. Live' = Live /\ heap' = heap
      BY <1>6 DEF structures, Live
    <2>2. CASE dir' \subseteq dir /\ stray' = stray
      <3>1. \A d \in dir' : Owned(d.path)'
        BY <2>1, <2>2, <1>5 DEF Owned
      <3>2. QED
        BY <1>1, <1>2, <1>4, <2>1, <3>1 DEF DiskInv
    <2>3. ASSUME NEW t \in Threads, NEW out, NEW inode \in Inodes,
                 AddCacheDisk(t, out, inode)
          PROVE  FileInv'
      <3>1. pc'[t] = "link" /\ (out = "ok" => job'[t].disk_path = Path(t))
        BY <2>3 DEF AddCacheDisk, Goto, IInv, TypeOK, WorkerTypeOK, Job
      <3>2. ASSUME NEW d \in dir
            PROVE  Owned(d.path)'
        <4>1. d.path \in stray => Owned(d.path)'
          BY <2>3, <3>1 DEF AddCacheDisk, DiskWrite, Owned
        <4>2. QED
          BY <4>1, <2>1, <1>5
      <3>3. ASSUME NEW d \in dir', d \notin dir
            PROVE  Owned(d.path)'
        <4>1. d.path = Path(t) /\ out # "none"
          BY <2>3, <3>3 DEF AddCacheDisk, DiskWrite
        <4>2. CASE out = "ok"
          BY <3>1, <4>1, <4>2 DEF Owned
        <4>3. CASE out # "ok" /\ \E x \in dir : x.path = d.path
          BY <3>2, <4>3
        <4>4. CASE out # "ok" /\ ~ \E x \in dir : x.path = d.path
          BY <2>3, <4>1, <4>4 DEF AddCacheDisk, DiskWrite, Owned
        <4>5. QED
          BY <4>2, <4>3, <4>4
      <3>4. QED
        BY <1>1, <1>2, <1>4, <2>1, <3>2, <3>3 DEF DiskInv
    <2>4. QED
      BY <1>6, <2>2, <2>3, StillDir
  <1>7. ASSUME NEW n \in Live, FreeNode(n)
        PROVE  FileInv'
    <2>1. Live' = Live \ {n} /\ \A m \in Live' : heap'[m] = heap[m]
      BY <1>7, FreedHeap DEF IInv, TypeOK
    <2>2. ASSUME NEW d \in dir'
          PROVE  Owned(d.path)'
      <3>1. d \in dir /\ stray' = stray /\ d.path # NULL
        BY <1>7, <1>3, NullAssumption DEF FreeNode, unlink
      <3>2. heap[n].disk_path # d.path
        <4>1. CASE heap[n].DATA = NULL
          BY <4>1, <3>1 DEF DiskInv
        <4>2. CASE heap[n].DATA # NULL
          BY <4>2, <2>2, <1>7 DEF FreeNode, unlink, is_on_disk
        <4>3. QED
          BY <4>1, <4>2
      <3>3. d.path \in stray => Owned(d.path)'
        BY <3>1 DEF Owned
      <3>4. QED
        BY <3>1, <3>2, <3>3, <2>1, <1>5
    <2>3. QED
      BY <1>1, <1>2, <1>4, <2>1, <2>2 DEF DiskInv
  <1>8. ASSUME NEW t \in Threads, NEW u \in Urls, FindCacheHit(t, u)
        PROVE  FileInv'
    <2>1. Live' = Live
      BY <1>8, TouchedHeap
    <2>2. \A m \in Live : heap'[m].DATA = heap[m].DATA
                            /\ heap'[m].disk_path = heap[m].disk_path
      BY <1>8, TouchedHeap, TouchFields
    <2>3. dir' = dir /\ stray' = stray
      BY <1>8 DEF FindCacheHit
    <2>4. \A d \in dir' : Owned(d.path)'
      BY <2>1, <2>2, <2>3, <1>5 DEF Owned
    <2>5. QED
      BY <1>1, <1>2, <1>4, <2>1, <2>2, <2>4 DEF DiskInv
  <1>9. ASSUME NEW t \in Threads, NEW n \in Nodes, AddCacheInsert(t, n)
        PROVE  FileInv'
    <2>1. /\ Live' = Live \cup {n} /\ heap'[n] = NewEntry(t)
          /\ \A m \in Live : heap'[m] = heap[m]
      BY <1>9, StoredHeap
    <2>2. dir' = dir /\ stray' = stray
      BY <1>9 DEF AddCacheInsert
    <2>3. heap'[n].disk_path = NULL <=> heap'[n].DATA = NULL
      BY <2>1 DEF NewEntry, DiskInv
    <2>4. \A d \in dir' : Owned(d.path)'
      BY <2>1, <2>2, <1>5 DEF Owned
    <2>5. QED
      BY <1>1, <1>2, <1>4, <2>1, <2>3, <2>4 DEF DiskInv
  <1>10. CASE Cache_clear
    <2>1. Live' = {}
      BY <1>10 DEF Cache_clear, Live
    <2>2. /\ dir' \subseteq dir /\ stray' = stray
          /\ \A d \in dir' : \A n \in Live : d.path # heap[n].disk_path
      BY <1>10 DEF Cache_clear
    <2>3. \A d \in dir' : Owned(d.path)'
      BY <2>2, <1>5 DEF Owned
    <2>4. QED
      BY <1>1, <1>2, <1>4, <2>1, <2>3 DEF DiskInv
  <1>11. QED
    BY StepShape, <1>6, <1>7, <1>8, <1>9, <1>10

(***************************************************************************)
(* The limits in force                                                     *)
(***************************************************************************)

\* From the end of the eviction loop to the insertion the limit of the moment is one of
\* those in force; once AddCache has tested for room, the cache with the new element
\* fits one of them.
RoomInv ==
  \A t \in Threads :
    /\ pc[t] \in {"room", "link"} => g_config.max_cache_size \in in_force
    /\ pc[t] = "link" => \E m \in in_force : CACHE_SIZE + JobSize(t) <= m

\* Nobody else changes CACHE_SIZE between the test and the insertion, because LOCK is
\* held; a reload, which does not take it, only adds a limit.
LEMMA RoomKept ==
  ASSUME IInv, LockHeldInside, RoomInv, [Next]_vars
  PROVE  RoomInv'
  <1> USE DEF IInv, TypeOK, WorkerTypeOK
  <1> DEFINE Outside == \A t \in Threads : pc'[t] \notin {"room", "link"}
  <1>1. ASSUME Outside
        PROVE  RoomInv'
    BY <1>1 DEF RoomInv
  <1>2. ASSUME LOCK = NULL, NEW t \in Threads
        PROVE  pc[t] \notin {"evict", "room", "link"}
    BY <1>2, NullAssumption DEF LockHeldInside
  <1>3. ASSUME NEW x \in Threads, pc[x] \in {"evict", "room", "link"},
               NEW t \in Threads \ {x}
        PROVE  pc[t] \notin {"evict", "room", "link"}
    BY <1>3 DEF LockHeldInside
  <1>4. ASSUME NEW x \in Threads, pc'[x] \notin {"room", "link"},
               \A t \in Threads \ {x} : UNCHANGED <<pc[t], job[t]>>,
               UNCHANGED <<CACHE_SIZE, g_config, in_force>>
        PROVE  RoomInv'
    BY <1>4 DEF RoomInv, JobSize
  <1>5. ASSUME NEW x \in Threads, Worker(x)
        PROVE  RoomInv'
    <2>1. CASE FindCache(x) \/ Cache_purge(x) \/ AddCacheLock(x)
      <3>1. LOCK = NULL /\ pc'[x] \notin {"room", "link"}
        BY <2>1 DEF FindCache, FindCacheHit, FindCacheExpired, FindCacheMiss, Cache_purge,
                    AddCacheLock, Goto
      <3>2. \A t \in Threads \ {x} : pc'[t] = pc[t]
        BY <2>1 DEF FindCache, FindCacheHit, FindCacheExpired, FindCacheMiss, Cache_purge,
                    AddCacheLock, Goto
      <3>3. QED
        BY <3>1, <3>2, <1>1, <1>2
    <2>2. CASE ServeDone(x) \/ NotStored(x) \/ AddCacheTooLarge(x)
      BY <2>2, <1>4 DEF ServeDone, NotStored, AddCacheTooLarge, Finish, Goto, cacheVars
    <2>3. ASSUME NEW size \in Sizes, NEW age \in Ages, AddCacheCall(x, size, age)
          PROVE  RoomInv'
      BY <2>3, <1>4 DEF AddCacheCall, Goto, cacheVars
    <2>4. CASE AddCacheEvict(x)
      <3>1. pc' = pc /\ pc[x] = "evict"
        BY <2>4 DEF AddCacheEvict
      <3>2. QED
        BY <3>1, <1>1, <1>3
    <2>5. CASE AddCacheLoopExit(x)
      <3>1. /\ pc[x] = "evict" /\ pc'[x] = "room" /\ g_config' = g_config
            /\ \A t \in Threads \ {x} : pc'[t] = pc[t]
            /\ in_force' = {g_config.max_cache_size}
        BY <2>5 DEF AddCacheLoopExit, Goto
      <3>2. QED
        BY <3>1, <1>3 DEF RoomInv
    <2>6. ASSUME NEW out, NEW inode \in Inodes, AddCacheDisk(x, out, inode)
          PROVE  RoomInv'
      <3>1. /\ pc[x] = "room" /\ pc'[x] = "link"
            /\ \A t \in Threads \ {x} : pc'[t] = pc[t]
            /\ UNCHANGED <<CACHE_SIZE, g_config, in_force>>
        BY <2>6 DEF AddCacheDisk, Goto
      <3>2. g_config.max_cache_size \in in_force
        BY <3>1 DEF RoomInv
      <3>3. JobSize(x)' = JobSize(x)
        BY <2>6 DEF AddCacheDisk, JobSize, Job
      <3>4. CACHE_SIZE + JobSize(x) <= g_config.max_cache_size
        <4>1. JobSize(x) \in Int /\ g_config.max_cache_size \in Nat /\ CACHE_SIZE \in Int
          <5>1. job[x].SIZE \in Int /\ job[x].URL \in Urls
            BY <3>1 DEF Job
          <5>2. QED
            BY <5>1, ParameterAssumption DEF JobSize, CacheTypeOK
        <4>2. QED
          BY <2>6, <4>1 DEF AddCacheDisk, OverLimit
      <3>5. QED
        BY <3>1, <3>2, <3>3, <3>4, <1>3 DEF RoomInv
    <2>7. CASE AddCacheNoRoom(x) \/ AddCacheNoMemory(x)
                 \/ \E n \in Nodes : AddCacheInsert(x, n)
      <3>1. /\ pc[x] \in {"room", "link"} /\ pc'[x] = "idle"
            /\ \A t \in Threads \ {x} : pc'[t] = pc[t]
        BY <2>7 DEF AddCacheNoRoom, AddCacheNoMemory, AddCacheInsert, Finish, Goto
      <3>2. QED
        BY <3>1, <1>1, <1>3
    <2>8. QED
      BY <1>5, <2>1, <2>2, <2>3, <2>4, <2>5, <2>6, <2>7 DEF Worker, AddCacheStep
  <1>6. ASSUME NEW u \in Urls, PurgeCall(u)
        PROVE  RoomInv'
    BY <1>1, <1>2, <1>6 DEF PurgeCall
  <1>7. CASE Cache_clear
    BY <1>1, <1>2, <1>7 DEF Cache_clear
  <1>8. ASSUME NEW p \in Policies, Cache_set_eviction_policy(p)
        PROVE  RoomInv'
    BY <1>1, <1>2, <1>8 DEF Cache_set_eviction_policy
  <1>9. ASSUME NEW limits \in Limits, HotReload(limits)
        PROVE  RoomInv'
    <2>1. UNCHANGED <<pc, job, CACHE_SIZE>> /\ g_config' = limits
      BY <1>9 DEF HotReload, cacheVars
    <2>2. ASSUME NEW t \in Threads, pc[t] \in {"room", "link"}
          PROVE  in_force \subseteq in_force' /\ limits.max_cache_size \in in_force'
      BY <1>9, <2>2 DEF HotReload, RoomInv
    <2>3. QED
      BY <2>1, <2>2 DEF RoomInv, JobSize
  <1>10. CASE UNCHANGED <<pc, job, CACHE_SIZE, g_config, in_force>>
    BY <1>10 DEF RoomInv, JobSize
  <1>11. QED
    BY <1>5, <1>6, <1>7, <1>8, <1>9, <1>10 DEF Next, Tick, vars, cacheVars

(***************************************************************************)
(* Theorems                                                                *)
(***************************************************************************)

\* Every variable of the cache keeps its type and a worker inside FindCache or
\* AddCache has a key.
THEOREM CacheTypeCorrect == Spec => []TypeOK
  <1>1. IInv => TypeOK
    BY DEF IInv
  <1>2. QED
    BY <1>1, InitIInv, NextIInv, PTL DEF Spec

\* RemoveCache, Cache_purge, Cache_clear, FindCache and AddCache keep the list, the
\* hash chains and the heap in agreement, whatever the policy, the interleaving of
\* the workers and the limits a reload sets: nothing reachable in the cache is freed
\* and nothing allocated is unreachable.
THEOREM CacheAgreement == Spec => []Agreement
  <1>1. IInv => Agreement
    BY DEF IInv
  <1>2. QED
    BY <1>1, InitIInv, NextIInv, PTL DEF Spec

\* Every return of AddCache gives the mutex back once, on the error paths too: LOCK is
\* held by exactly the worker that is between taking it and returning.
THEOREM CacheLockHeld == Spec => []LockHeldInside
  <1>1. CacheInv => LockHeldInside
    BY DEF CacheInv
  <1>2. QED
    BY <1>1, InitCacheInv, NextCacheInv, PTL DEF Spec

\* When a key is stored twice, FindCache meets the later response first: the chains
\* are ordered by the time of insertion under any interleaving of inserting, evicting
\* and purging.
THEOREM CacheNewestFirst == Spec => []NewestFirst
  <1>1. CacheInv => NewestFirst
    BY DEF CacheInv
  <1>2. QED
    BY <1>1, InitCacheInv, NextCacheInv, PTL DEF Spec

\* CACHE_SIZE is the number of bytes the entries occupy, however many insertions,
\* evictions, purges and hits of however many workers went before.
THEOREM CacheSizeAccounted == Spec => []SizeAccounted
  <1>1. Init => SizeInv
    BY InitSizeInv
  <1>2. SizeInv /\ [Next]_vars => SizeInv'
    BY SizeKept, NextCacheInv DEF SizeInv
  <1>3. SizeInv => SizeAccounted
    BY DEF SizeInv
  <1>4. QED
    BY <1>1, <1>2, <1>3, PTL DEF Spec

\* Whatever a reload does while AddCache evicts and while it writes the file, and whatever
\* the other workers do meanwhile: a step that makes the cache grow leaves it within a
\* limit that was in force after the eviction loop had ended.
THEOREM CacheBoundedGrowth == Spec => BoundedGrowth
  <1> DEFINE Within == CACHE_SIZE' > CACHE_SIZE => \E m \in in_force : CACHE_SIZE' <= m
             GrowthInv == SizeInv /\ RoomInv
  <1>1. ASSUME GrowthInv, [Next]_vars
        PROVE  [Within]_vars
    <2> USE <1>1 DEF SizeInv, CacheInv, IInv, TypeOK
    <2>1. CACHE_SIZE \in Nat
      BY FS_CardinalityType DEF SizeAccounted
    <2>2. CASE UNCHANGED structures
      BY <2>1, <2>2 DEF structures
    <2>3. ASSUME NEW n \in Live, FreeNode(n)
          PROVE  Within
      <3>1. heap[n].LENGTH \in Nat /\ Overhead[heap[n].URL] \in Nat
        BY ParameterAssumption DEF EntryInv, CacheTypeOK, CacheModule, Live
      <3>2. CACHE_SIZE' = CACHE_SIZE - (heap[n].LENGTH + Overhead[heap[n].URL])
        BY <2>3 DEF FreeNode, ElementSize
      <3>3. QED
        BY <2>1, <3>1, <3>2
    <2>4. ASSUME NEW t \in Threads, NEW u \in Urls, FindCacheHit(t, u)
          PROVE  Within
      BY <2>1, <2>4 DEF FindCacheHit
    <2>5. ASSUME NEW t \in Threads, NEW n \in Nodes, AddCacheInsert(t, n)
          PROVE  Within
      <3>1. CACHE_SIZE' = CACHE_SIZE + JobSize(t) /\ pc[t] = "link"
        BY <2>5 DEF AddCacheInsert, LinkNode
      <3>2. QED
        BY <3>1 DEF RoomInv
    <2>6. CASE Cache_clear
      BY <2>1, <2>6 DEF Cache_clear
    <2>7. QED
      BY StepShape, <1>1, <2>2, <2>3, <2>4, <2>5, <2>6
  <1>2. Init => GrowthInv
    BY InitSizeInv DEF Init, RoomInv
  <1>3. GrowthInv /\ [Next]_vars => GrowthInv'
    BY NextCacheInv, SizeKept, RoomKept DEF SizeInv, CacheInv
  <1>4. QED
    BY <1>1, <1>2, <1>3, PTL DEF Spec, BoundedGrowth

\* A worker is handed an entry only by the hit of FindCache.
LEMMA HitIsFindCache ==
  ASSUME IInv, [Next]_vars, NEW t \in Threads, Hits(t)
  PROVE  \E u \in Urls : FindCacheHit(t, u)
  <1> USE DEF IInv, TypeOK, WorkerTypeOK, Hits
  <1>1. pc[t] = "idle" /\ pc'[t] = "serve" /\ DOMAIN pc = Threads
    OBVIOUS
  <1>2. ASSUME NEW x \in Threads, Worker(x)
        PROVE  \E u \in Urls : FindCacheHit(t, u)
    <2>1. CASE x # t
      <3>1. pc'[t] = pc[t]
        BY <1>1, <1>2, <2>1
           DEF Worker, FindCache, FindCacheHit, FindCacheExpired, FindCacheMiss,
               Cache_purge, ServeDone, NotStored, AddCacheCall, AddCacheStep,
               AddCacheTooLarge, AddCacheLock, AddCacheEvict, AddCacheLoopExit,
               AddCacheNoRoom, AddCacheNoMemory, AddCacheDisk, AddCacheInsert, Finish, Goto
      <3>2. QED
        BY <1>1, <3>1
    <2>2. CASE x = t
      BY <1>1, <1>2, <2>2
         DEF Worker, FindCache, FindCacheExpired, FindCacheMiss, Cache_purge, ServeDone,
             NotStored, AddCacheCall, AddCacheStep, AddCacheTooLarge, AddCacheLock,
             AddCacheEvict, AddCacheLoopExit, AddCacheNoRoom, AddCacheNoMemory,
             AddCacheDisk, AddCacheInsert, Finish, Goto
    <2>3. QED
      BY <2>1, <2>2
  <1>3. CASE UNCHANGED pc
    BY <1>1, <1>3
  <1>4. CASE Next /\ ~ \E x \in Threads : Worker(x)
    BY <1>3, <1>4 DEF Next, PurgeCall, Cache_clear, Cache_set_eviction_policy, HotReload,
                      Tick
  <1>5. QED
    BY <1>2, <1>3, <1>4 DEF vars

\* A response with a positive max-age is never handed to a worker later than that many
\* seconds after it was stored.
THEOREM CacheMaxAge == Spec => MaxAgeHonoured
  <1> DEFINE Fresh == \A t \in Threads : Hits(t) =>
                        LET e == heap[job'[t].CACHE]
                        IN  e.max_age > 0 => now <= e.born + e.max_age
  <1>1. ASSUME CacheInv, [Next]_vars
        PROVE  Fresh
    <2> USE <1>1 DEF CacheInv, IInv, TypeOK
    <2> SUFFICES ASSUME NEW t \in Threads, Hits(t), heap[job'[t].CACHE].max_age > 0
                 PROVE  now <= heap[job'[t].CACHE].born + heap[job'[t].CACHE].max_age
      OBVIOUS
    <2>1. PICK u \in Urls : FindCacheHit(t, u)
      BY <1>1, HitIsFindCache
    <2> DEFINE n == Match(u)
    <2>2. n \in Live /\ heap[n] \in CacheModule
      BY <2>1, TouchedHeap
    <2>3. job'[t].CACHE = n /\ ~ Expired(heap[n])
      <3>1. job' = [job EXCEPT ![t].URL = u, ![t].CACHE = n] /\ ~ Expired(heap[n])
        BY <2>1 DEF FindCacheHit
      <3>2. QED
        BY <3>1 DEF WorkerTypeOK, Job
    <2> HIDE DEF n
    <2>4. /\ heap[n].born \in Nat /\ heap[n].max_age \in Int /\ heap[n].max_age > 0
          /\ now \in Nat
      BY <2>2, <2>3 DEF CacheModule, WorkerTypeOK
    <2>5. heap[n].expires_at = heap[n].born + heap[n].max_age
      BY <2>2, <2>4 DEF EntryInv, Lifetime
    <2>6. QED
      BY <2>3, <2>4, <2>5 DEF Expired
  <1>2. [Fresh]_vars <=> (Fresh \/ UNCHANGED vars)
    OBVIOUS
  <1>3. QED
    BY <1>1, <1>2, InitCacheInv, NextCacheInv, PTL DEF Spec, MaxAgeHonoured

\* The program starts with LRU and calls Cache_set_eviction_policy nowhere.  As long as
\* no caller asks for another policy the list is ordered by last use, and list_head,
\* which RemoveCache evicts, is an entry nobody used later than a surviving one.
THEOREM CacheLruOrder ==
  ASSUME Policies \subseteq {"LRU"}
  PROVE  Spec => []LruOrder
  <1>1. Init => LruInv
    BY InitCacheInv DEF Init, Cache_init, LruInv, LruOrder
  <1>2. LruInv /\ [Next]_vars => LruInv'
    BY NextCacheInv, LruOrderKept, PolicyKept DEF LruInv
  <1>3. LruInv => LruOrder
    BY DEF LruInv
  <1>4. QED
    BY <1>1, <1>2, <1>3, PTL DEF Spec

\* Evicting, purging and clearing remove every file of the cache directory with the last
\* entry that has its name, whatever fails; the files the program forgets are those it
\* found at the start and the new ones of a failing write or mmap.
THEOREM CacheNoOrphanFiles == Spec => []NoOrphanFiles
  <1>1. Init => FileInv
    BY InitIInv DEF Init, Cache_init, FileInv, DiskInv, NoOrphanFiles, Live, NoJob
  <1>2. FileInv /\ [Next]_vars => FileInv'
    BY NextFileInv
  <1>3. FileInv => NoOrphanFiles
    BY DEF FileInv
  <1>4. QED
    BY <1>1, <1>2, <1>3, PTL DEF Spec

=============================================================================
