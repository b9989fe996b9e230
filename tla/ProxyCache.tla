----------------------------- MODULE ProxyCache -----------------------------
(***************************************************************************)
(* The response cache of the proxy (src/src/cache.c) with the worker       *)
(* threads that use it (FindCache and AddCache as called from Main.c) and   *)
(* the hot reload that changes its limits under it (config.c).             *)
(*                                                                         *)
(* Every cache operation takes the global mutex LOCK.  An operation that    *)
(* reads nothing outside the critical section is one action here, enabled   *)
(* when LOCK is free.  AddCache reads g_config several times while it holds *)
(* LOCK and the reload thread does not take LOCK, so AddCache is cut at     *)
(* those reads, and between writing the file and linking the entry.         *)
(* FindCache is cut where it drops LOCK before Cache_purge, and a hit       *)
(* leaves the worker with a bare pointer after LOCK is released.            *)
(*                                                                         *)
(* The hash chains and the doubly linked list are sequences of heap nodes,  *)
(* first element first.  A URL stands for the whole request text that the   *)
(* program uses as key; a response is told apart by its URL and length.     *)
(***************************************************************************)
EXTENDS Integers, Sequences, FiniteSets

CONSTANTS
  Threads,        \* worker threads
  Urls,           \* cache keys
  Buckets,        \* indices of HASH_TABLE
  hash_url,       \* the bucket of every key
  Nodes,          \* heap addresses a CacheModule can have
  Inodes,         \* inodes of the cache directory
  NULL,           \* no node, no inode, no owner
  Sizes,          \* response lengths
  Overhead,       \* key -> strlen(URL) + sizeof(CacheModule) + 1
  DiskThreshold,  \* lengths above it go to the disk tier (128 * 1024)
  DefaultAge,     \* lifetime of an entry without max-age (3600)
  Ages,           \* values of max-age; -1 when there is none
  Limits,         \* the limits a configuration file can set
  Policies,       \* policies passed to Cache_set_eviction_policy
  DiskOutcomes,   \* how open, write and mmap can end
  Directories,    \* what earlier runs can have left in the directory
  ApiCalls,       \* whether Cache_purge and Cache_clear are called directly
  MaxTime,        \* bound on the clock
  MaxAccess       \* bound on access_count

ASSUME HashAssumption == hash_url \in [Urls -> Buckets]

ASSUME ParameterAssumption ==
  /\ Sizes \subseteq Nat /\ Overhead \in [Urls -> Nat] /\ DiskThreshold \in Nat
  /\ DefaultAge \in Nat /\ Ages \subseteq Int
  /\ MaxTime \in Nat /\ MaxAccess \in Nat
  /\ Policies \subseteq {"LRU", "LFU", "TTL"}
  /\ Limits \subseteq [max_cache_size : Nat, max_element_size : Nat]

VARIABLES
  HASH_TABLE,         \* bucket -> chain of nodes, newest first
  list,               \* the list_head ... list_tail list
  heap,               \* node -> its CacheModule, or NULL when not allocated
  CACHE_SIZE,
  g_eviction_policy,
  g_config,           \* max_cache_size and max_element_size
  LOCK,               \* holder of the mutex across steps, or NULL
  in_force,           \* history: values of max_cache_size since the eviction loop ended
  now,                \* time(NULL)
  dir,                \* directory: set of [path, inode]
  stray,              \* history: names of earlier runs and of failed writes
  pc,                 \* where a worker is
  job                 \* worker -> key, pointer and AddCache arguments

cacheVars == <<HASH_TABLE, list, heap, CACHE_SIZE, dir, stray>>
vars == <<HASH_TABLE, list, heap, CACHE_SIZE, g_eviction_policy, g_config,
          LOCK, in_force, now, dir, stray, pc, job>>

-----------------------------------------------------------------------------
(* Types *)

Paths == Buckets \X Nat

ASSUME DirectoryAssumption ==
  \A d \in Directories : d \subseteq [path : Paths, inode : Inodes]

\* struct CacheModule.  DATA is the mapped inode, NULL for malloc'ed memory.  The
\* last two fields are not in the program: the max-age the response carried and
\* the time of insertion, which the properties refer to.
CacheModule ==
  [URL : Urls, LENGTH : Int, DATA : Inodes \cup {NULL},
   disk_path : Paths \cup {NULL}, UPTIME : Nat, access_count : Nat,
   expires_at : Nat, max_age : Int, born : Nat]

Job == [URL : Urls \cup {NULL}, CACHE : Nodes \cup {NULL}, SIZE : Int, max_age : Int,
        DATA : Inodes \cup {NULL}, disk_path : Paths \cup {NULL}]

NoJob == [URL |-> NULL, CACHE |-> NULL, SIZE |-> 0, max_age |-> -1, DATA |-> NULL,
          disk_path |-> NULL]

ASSUME NullAssumption ==
  /\ NULL \notin Nodes /\ NULL \notin Inodes /\ NULL \notin Threads
  /\ NULL \notin Urls /\ NULL \notin Paths /\ NULL \notin CacheModule

CacheTypeOK ==
  /\ HASH_TABLE \in [Buckets -> Seq(Nodes)]
  /\ list \in Seq(Nodes)
  /\ heap \in [Nodes -> CacheModule \cup {NULL}]
  /\ CACHE_SIZE \in Int
  /\ dir \subseteq [path : Paths, inode : Inodes]
  /\ stray \subseteq Paths

WorkerTypeOK ==
  /\ g_eviction_policy \in {"LRU", "LFU", "TTL"}
  /\ g_config \in Limits
  /\ LOCK \in Threads \cup {NULL}
  /\ in_force \subseteq Nat
  /\ now \in Nat
  /\ pc \in [Threads -> {"idle", "purge", "fetch", "add", "evict", "room", "link",
                         "serve"}]
  /\ job \in [Threads -> Job]
  /\ \A t \in Threads : pc[t] # "idle" => job[t].URL \in Urls

\* The values the variables range over; a worker inside an operation has a key.
TypeOK == CacheTypeOK /\ WorkerTypeOK

-----------------------------------------------------------------------------
(* Sequence helpers *)

Elems(s) == {s[i] : i \in DOMAIN s}

NoRepeat(s) == \A i, j \in DOMAIN s : s[i] = s[j] => i = j

\* Fault: the slot is cleared instead of being closed up.
WithoutHole(s, n) == [i \in DOMAIN s |-> IF s[i] = n THEN NULL ELSE s[i]]

\* list_remove and the chain unlinking: the nodes other than n keep their order.
Without(s, n) ==
  LET k == CHOOSE i \in DOMAIN s : s[i] = n
  IN  [i \in 1 .. Len(s) - 1 |-> IF i < k THEN s[i] ELSE s[i + 1]]

\* Fault: the pointers of the neighbours are not updated.
list_remove_nothing(s, n) == s

list_remove(s, n) == Without(s, n)

list_append(s, n) == Append(s, n)

\* Fault: a hit does not reorder the list.
list_move_nowhere(s, n) == s

list_move_to_end(s, n) == list_append(list_remove(s, n), n)

-----------------------------------------------------------------------------
(* Operators the actions share *)

Live == {n \in Nodes : heap[n] # NULL}

is_on_disk(e) == e.DATA # NULL

\* Fault: the node and the key are not counted.
ElementSizeData(e) == e.LENGTH

\* What freeing an entry gives back.
ElementSize(e) == e.LENGTH + Overhead[e.URL]

\* The positions of u in its chain, and the first of them, which strcmp finds.
Matches(u) == {i \in DOMAIN HASH_TABLE[hash_url[u]] :
                 heap[HASH_TABLE[hash_url[u]][i]].URL = u}

FirstMatch(u) == CHOOSE i \in Matches(u) : \A j \in Matches(u) : i <= j

Match(u) == HASH_TABLE[hash_url[u]][FirstMatch(u)]

Expired(e) == e.expires_at > 0 /\ e.expires_at < now

\* The node RemoveCache evicts: the head, or the first node of the list with the
\* smallest key of the policy.
Key(n) == CASE g_eviction_policy = "LRU" -> 0
            [] g_eviction_policy = "LFU" -> heap[n].access_count
            [] g_eviction_policy = "TTL" -> heap[n].expires_at

VictimPos == CHOOSE i \in DOMAIN list :
               /\ \A j \in DOMAIN list : Key(list[i]) <= Key(list[j])
               /\ \A j \in 1 .. i - 1 : Key(list[i]) < Key(list[j])

\* Fault: the file of the entry is not unlinked.
unlink_nothing(e) == dir

unlink(e) == IF is_on_disk(e) THEN {d \in dir : d.path # e.disk_path} ELSE dir

\* Unlinks node n from list and chain, gives back its size and frees it.  An entry
\* on disk also loses its file name; the inode lives on while others map it.
FreeNode(n) ==
  LET e == heap[n]  IN
  /\ HASH_TABLE' = [HASH_TABLE EXCEPT ![hash_url[e.URL]] = Without(@, n)]
  /\ list' = list_remove(list, n)
  /\ CACHE_SIZE' = CACHE_SIZE - ElementSize(e)
  /\ heap' = [heap EXCEPT ![n] = NULL]
  /\ dir' = unlink(e)
  /\ UNCHANGED stray

RemoveCache == FreeNode(list[VictimPos])

PurgeUrl(u) ==
  IF Matches(u) # {} THEN FreeNode(Match(u)) ELSE UNCHANGED cacheVars

Goto(t, l) == pc' = [pc EXCEPT ![t] = l]

Finish(t) == Goto(t, "idle") /\ job' = [job EXCEPT ![t] = NoJob]

Unlock == LOCK' = NULL /\ in_force' = {}

-----------------------------------------------------------------------------
(* FindCache: the lookup of a worker *)

\* What a hit does to the entry.
Touch(e) == [e EXCEPT !.UPTIME = now, !.access_count = @ + 1]

\* The first match is fresh: it becomes the most recently used entry and the
\* worker keeps a pointer to it, used after LOCK is released.
FindCacheHit(t, u) ==
  /\ pc[t] = "idle" /\ LOCK = NULL
  /\ Matches(u) # {} /\ ~ Expired(heap[Match(u)])
  /\ heap[Match(u)].access_count < MaxAccess
  /\ LET n == Match(u) IN
       /\ heap' = [heap EXCEPT ![n] = Touch(@)]
       /\ list' = IF g_eviction_policy = "LRU" THEN list_move_to_end(list, n)
                                              ELSE list
       /\ job' = [job EXCEPT ![t].URL = u, ![t].CACHE = n]
  /\ Goto(t, "serve")
  /\ UNCHANGED <<HASH_TABLE, CACHE_SIZE, g_eviction_policy, g_config, LOCK, in_force,
                 now, dir, stray>>

\* The first match has expired: LOCK is released, then Cache_purge is called.
FindCacheExpired(t, u) ==
  /\ pc[t] = "idle" /\ LOCK = NULL
  /\ Matches(u) # {} /\ Expired(heap[Match(u)])
  /\ job' = [job EXCEPT ![t].URL = u]
  /\ Goto(t, "purge")
  /\ UNCHANGED <<cacheVars, g_eviction_policy, g_config, LOCK, in_force, now>>

FindCacheMiss(t, u) ==
  /\ pc[t] = "idle" /\ LOCK = NULL
  /\ Matches(u) = {}
  /\ job' = [job EXCEPT ![t].URL = u]
  /\ Goto(t, "fetch")
  /\ UNCHANGED <<cacheVars, g_eviction_policy, g_config, LOCK, in_force, now>>

\* Cache_purge called by FindCache, a critical section of its own: it looks the
\* key up again and removes whatever is first in the chain now.
Cache_purge(t) ==
  /\ pc[t] = "purge" /\ LOCK = NULL
  /\ PurgeUrl(job[t].URL)
  /\ Goto(t, "fetch")
  /\ UNCHANGED <<g_eviction_policy, g_config, LOCK, in_force, now, job>>

\* The worker has copied the last chunk of the entry to its client (Main.c).
ServeDone(t) ==
  /\ pc[t] = "serve"
  /\ Finish(t)
  /\ UNCHANGED <<cacheVars, g_eviction_policy, g_config, LOCK, in_force, now>>

-----------------------------------------------------------------------------
(* AddCache: storing the response a worker fetched *)

\* HandleRequest fails or decides against caching, or the response says no-store
\* or no-cache: AddCache is not called or returns before it locks.
NotStored(t) ==
  /\ pc[t] = "fetch"
  /\ Finish(t)
  /\ UNCHANGED <<cacheVars, g_eviction_policy, g_config, LOCK, in_force, now>>

AddCacheCall(t, size, age) ==
  /\ pc[t] = "fetch"
  /\ job' = [job EXCEPT ![t].SIZE = size, ![t].max_age = age]
  /\ Goto(t, "add")
  /\ UNCHANGED <<cacheVars, g_eviction_policy, g_config, LOCK, in_force, now>>

JobSize(t) == job[t].SIZE + Overhead[job[t].URL]

AddCacheTooLarge(t) ==
  /\ pc[t] = "add" /\ LOCK = NULL
  /\ JobSize(t) > g_config.max_element_size
  /\ Finish(t)
  /\ UNCHANGED <<cacheVars, g_eviction_policy, g_config, LOCK, in_force, now>>

AddCacheLock(t) ==
  /\ pc[t] = "add" /\ LOCK = NULL
  /\ JobSize(t) <= g_config.max_element_size
  /\ LOCK' = t
  /\ Goto(t, "evict")
  /\ UNCHANGED <<cacheVars, g_eviction_policy, g_config, in_force, now, job>>

\* Fault: the size of the new element is not counted.
OverLimitStored(t) == CACHE_SIZE > g_config.max_cache_size

OverLimit(t) == CACHE_SIZE + JobSize(t) > g_config.max_cache_size

\* One iteration of the eviction loop.
AddCacheEvict(t) ==
  /\ pc[t] = "evict"
  /\ OverLimit(t) /\ list # <<>>
  /\ RemoveCache
  /\ UNCHANGED <<g_eviction_policy, g_config, LOCK, in_force, now, pc, job>>

AddCacheLoopExit(t) ==
  /\ pc[t] = "evict"
  /\ ~ OverLimit(t) \/ list = <<>>
  /\ in_force' = {g_config.max_cache_size}
  /\ Goto(t, "room")
  /\ UNCHANGED <<cacheVars, g_eviction_policy, g_config, LOCK, now, job>>

\* Fault: the error return forgets to unlock.
AddCacheNoRoomLocked(t) ==
  /\ pc[t] = "room"
  /\ OverLimit(t)
  /\ Finish(t)
  /\ UNCHANGED <<cacheVars, g_eviction_policy, g_config, LOCK, in_force, now>>

\* The limit is read again after the loop: still no room.
AddCacheNoRoom(t) ==
  /\ pc[t] = "room"
  /\ OverLimit(t)
  /\ Unlock
  /\ Finish(t)
  /\ UNCHANGED <<cacheVars, g_eviction_policy, g_config, now>>

Path(t) == <<hash_url[job[t].URL], now>>

FreeInodes == Inodes \ ({d.inode : d \in dir} \cup {heap[n].DATA : n \in Live})

\* The inode open(O_CREAT | O_TRUNC) yields: the one the name is linked to, or new.
OpenInodes(p) ==
  IF \E d \in dir : d.path = p THEN {d.inode : d \in {x \in dir : x.path = p}}
                             ELSE FreeInodes

\* How the disk tier can end for this response: "none" when it is not tried or open
\* fails, "left" when write or mmap fails, which leaves the file behind.
Outcomes(t) == IF job[t].SIZE > DiskThreshold THEN DiskOutcomes ELSE {"none"}

DiskWrite(t, out, inode) ==
  IF out = "none" THEN UNCHANGED <<dir, stray>>
  ELSE /\ dir' = dir \cup {[path |-> Path(t), inode |-> inode]}
       /\ stray' = IF out = "ok" THEN stray \ {Path(t)}
                   ELSE stray \cup ({Path(t)} \ {d.path : d \in dir})

\* Fault: max-age is parsed and not used.
LifetimeDefault(age) == DefaultAge

Lifetime(age) == IF age > 0 THEN age ELSE DefaultAge

NewEntry(t) ==
  [URL |-> job[t].URL, LENGTH |-> job[t].SIZE,
   DATA |-> job[t].DATA, disk_path |-> job[t].disk_path,
   UPTIME |-> now, access_count |-> 1,
   expires_at |-> now + Lifetime(job[t].max_age),
   max_age |-> job[t].max_age, born |-> now]

\* Fault: the node goes to the end of its chain.
LinkNodeLast(n, e, size) ==
  /\ heap' = [heap EXCEPT ![n] = e]
  /\ HASH_TABLE' = [HASH_TABLE EXCEPT ![hash_url[e.URL]] = Append(@, n)]
  /\ list' = list_append(list, n)
  /\ CACHE_SIZE' = CACHE_SIZE + size

\* Links node n, filled with entry e, at the front of its chain and the end of the
\* list.
LinkNode(n, e, size) ==
  /\ heap' = [heap EXCEPT ![n] = e]
  /\ HASH_TABLE' = [HASH_TABLE EXCEPT ![hash_url[e.URL]] = <<n>> \o @]
  /\ list' = list_append(list, n)
  /\ CACHE_SIZE' = CACHE_SIZE + size

\* Fault: the limit is not tested again after the loop.
AddCacheDiskUnchecked(t, out, inode) ==
  /\ pc[t] = "room"
  /\ out \in Outcomes(t)
  /\ out = "none" \/ inode \in OpenInodes(Path(t))
  /\ DiskWrite(t, out, inode)
  /\ job' = IF out = "ok" THEN [job EXCEPT ![t].DATA = inode, ![t].disk_path = Path(t)]
                          ELSE job
  /\ Goto(t, "link")
  /\ UNCHANGED <<HASH_TABLE, list, heap, CACHE_SIZE, g_eviction_policy, g_config, LOCK,
                 in_force, now>>

\* The limit is read for the last time; calloc succeeds and the disk tier is tried.
AddCacheDisk(t, out, inode) ==
  /\ pc[t] = "room"
  /\ ~ OverLimit(t)
  /\ out \in Outcomes(t)
  /\ out = "none" \/ inode \in OpenInodes(Path(t))
  /\ DiskWrite(t, out, inode)
  /\ job' = IF out = "ok" THEN [job EXCEPT ![t].DATA = inode, ![t].disk_path = Path(t)]
                          ELSE job
  /\ Goto(t, "link")
  /\ UNCHANGED <<HASH_TABLE, list, heap, CACHE_SIZE, g_eviction_policy, g_config, LOCK,
                 in_force, now>>

AddCacheInsert(t, n) ==
  /\ pc[t] = "link"
  /\ n \notin Live
  /\ LinkNode(n, NewEntry(t), JobSize(t))
  /\ Unlock
  /\ Finish(t)
  /\ UNCHANGED <<g_eviction_policy, g_config, now, dir, stray>>

\* calloc fails, or the malloc for a response that is not on disk.
AddCacheNoMemory(t) ==
  /\ \/ pc[t] = "room" /\ ~ OverLimit(t)
     \/ pc[t] = "link" /\ job[t].disk_path = NULL
  /\ Unlock
  /\ Finish(t)
  /\ UNCHANGED <<cacheVars, g_eviction_policy, g_config, now>>

-----------------------------------------------------------------------------
(* The rest of the interface, the configuration and the clock *)

PurgeCall(u) ==
  /\ ApiCalls /\ LOCK = NULL
  /\ PurgeUrl(u)
  /\ UNCHANGED <<g_eviction_policy, g_config, LOCK, in_force, now, pc, job>>

\* Fault: list_head and list_tail are not reset.
Cache_clear_list_kept ==
  /\ ApiCalls /\ LOCK = NULL
  /\ dir' = {d \in dir : \A n \in Live : d.path # heap[n].disk_path}
  /\ heap' = [n \in Nodes |-> NULL]
  /\ HASH_TABLE' = [b \in Buckets |-> <<>>]
  /\ CACHE_SIZE' = 0
  /\ UNCHANGED <<list, stray, g_eviction_policy, g_config, LOCK, in_force, now,
                 pc, job>>

Cache_clear ==
  /\ ApiCalls /\ LOCK = NULL
  /\ dir' = {d \in dir : \A n \in Live : d.path # heap[n].disk_path}
  /\ heap' = [n \in Nodes |-> NULL]
  /\ HASH_TABLE' = [b \in Buckets |-> <<>>]
  /\ list' = <<>>
  /\ CACHE_SIZE' = 0
  /\ UNCHANGED <<stray, g_eviction_policy, g_config, LOCK, in_force, now, pc,
                 job>>

Cache_set_eviction_policy(p) ==
  /\ LOCK = NULL
  /\ g_eviction_policy' = p
  /\ UNCHANGED <<cacheVars, g_config, LOCK, in_force, now, pc, job>>

\* hot_reload_thread copies the limits of the file, without taking LOCK.
HotReload(limits) ==
  /\ g_config' = limits
  /\ in_force' = IF in_force = {} THEN {} ELSE in_force \cup {limits.max_cache_size}
  /\ UNCHANGED <<cacheVars, g_eviction_policy, LOCK, now, pc, job>>

Tick ==
  /\ now < MaxTime
  /\ now' = now + 1
  /\ UNCHANGED <<cacheVars, g_eviction_policy, g_config, LOCK, in_force, pc, job>>

-----------------------------------------------------------------------------
(* Specification *)

\* The directory is created only when it is missing: the files of earlier runs stay.
Cache_init ==
  /\ HASH_TABLE = [b \in Buckets |-> <<>>]
  /\ list = <<>>
  /\ CACHE_SIZE = 0
  /\ heap = [n \in Nodes |-> NULL]
  /\ dir \in Directories
  /\ stray = {d.path : d \in dir}

Init ==
  /\ Cache_init
  /\ g_eviction_policy = "LRU"
  /\ g_config \in Limits
  /\ LOCK = NULL
  /\ in_force = {}
  /\ now = 0
  /\ pc = [t \in Threads |-> "idle"]
  /\ job = [t \in Threads |-> NoJob]

FindCache(t) ==
  \E u \in Urls : FindCacheHit(t, u) \/ FindCacheExpired(t, u) \/ FindCacheMiss(t, u)

\* The steps a worker takes in AddCache once it is called.
AddCacheStep(t) ==
  \/ AddCacheTooLarge(t) \/ AddCacheLock(t)
  \/ AddCacheEvict(t) \/ AddCacheLoopExit(t) \/ AddCacheNoRoom(t)
  \/ \E out \in {"none", "ok", "left"}, inode \in Inodes :
       AddCacheDisk(t, out, inode)
  \/ \E n \in Nodes : AddCacheInsert(t, n)
  \/ AddCacheNoMemory(t)

Worker(t) ==
  \/ FindCache(t) \/ Cache_purge(t) \/ ServeDone(t) \/ NotStored(t)
  \/ \E size \in Sizes, age \in Ages : AddCacheCall(t, size, age)
  \/ AddCacheStep(t)

Next ==
  \/ \E t \in Threads : Worker(t)
  \/ \E u \in Urls : PurgeCall(u)
  \/ Cache_clear
  \/ \E p \in Policies : Cache_set_eviction_policy(p)
  \/ \E limits \in Limits : HotReload(limits)
  \/ Tick

Spec == Init /\ [][Next]_vars

-----------------------------------------------------------------------------
(* Properties *)

\* list_remove, list_append and the chain surgery of RemoveCache, Cache_purge and
\* AddCache keep the two linked structures in step: the list and the chains hold
\* exactly the allocated nodes, each once, every node in the bucket of its key.
\* A node left in one of them would be reached after free.
ListMatchesHeap == NoRepeat(list) /\ Elems(list) = Live

ChainsMatchHeap ==
  \A b \in Buckets :
    /\ NoRepeat(HASH_TABLE[b])
    /\ Elems(HASH_TABLE[b]) = {n \in Live : hash_url[heap[n].URL] = b}

Agreement == ListMatchesHeap /\ ChainsMatchHeap

\* While the policy is LRU the list is ordered by last use, so that RemoveCache,
\* which takes list_head, evicts an entry nobody used later than a surviving one.
LruOrder ==
  \A i, j \in DOMAIN list :
    i < j => heap[list[i]].UPTIME <= heap[list[j]].UPTIME

\* What the entries occupy, byte by byte.
EntryBytes(n) == {n} \X (1 .. heap[n].LENGTH + Overhead[heap[n].URL])

CachedBytes == UNION {EntryBytes(n) : n \in Live}

\* CACHE_SIZE, which every operation adjusts by differences, is the number of bytes
\* the entries occupy.  Were it to drift, AddCache would evict without need or never.
SizeAccounted == CACHE_SIZE = Cardinality(CachedBytes)

\* Two workers that miss on one key both insert: the key is then twice in its
\* chain.  The later response comes first, and FindCache returns it.
NewestFirst ==
  \A b \in Buckets : \A i, j \in DOMAIN HASH_TABLE[b] :
    i < j => heap[HASH_TABLE[b][i]].born >= heap[HASH_TABLE[b][j]].born

\* A reload can lower the limit while AddCache evicts and while it writes the file,
\* and other workers insert whenever LOCK is free: all the same, the cache with the new
\* element stays within a limit that was in force after the eviction loop had ended.
BoundedGrowth ==
  [][CACHE_SIZE' > CACHE_SIZE => \E m \in in_force : CACHE_SIZE' <= m]_vars

Hits(t) == pc[t] = "idle" /\ pc'[t] = "serve"

\* A response with a positive max-age is not handed out later than that many
\* seconds after AddCache stored it, whatever was purged or duplicated meanwhile.
MaxAgeHonoured ==
  [][\A t \in Threads : Hits(t) =>
       LET e == heap[job'[t].CACHE]
       IN  e.max_age > 0 => now <= e.born + e.max_age]_vars

\* The pointer FindCache returned is still an allocated entry while the worker
\* copies the response out of it.
ServedEntryLive ==
  \A t \in Threads : pc[t] = "serve" => heap[job[t].CACHE] # NULL

\* A file in the cache directory belongs to an entry, or to the response AddCache is
\* about to link: evicting, purging or clearing an entry takes its file away.  The
\* exceptions are the files the program forgets: those of earlier runs, which
\* Cache_init keeps, and the new names a failing write or mmap leaves behind.
NoOrphanFiles ==
  \A d \in dir :
    \/ d.path \in stray
    \/ \E n \in Live : heap[n].disk_path = d.path
    \/ \E t \in Threads : pc[t] = "link" /\ job[t].disk_path = d.path

\* Whatever AddCache meets (an element that does not fit, a limit lowered during
\* its eviction loop, a failed allocation, write or mmap), it leaves its critical
\* section by giving LOCK back, once: LOCK is held by the one worker inside it.
LockHeldInside ==
  \A t \in Threads : LOCK = t <=> pc[t] \in {"evict", "room", "link"}

=============================================================================
