------------------------------- MODULE Filter -------------------------------
(***************************************************************************)
(* filter.c: the lists of blocked domains, addresses, URLs and content     *)
(* types, the checks that workers make under a read lock, and the threads  *)
(* that replace the lists: filter_init on the main thread, filter_reload   *)
(* called by the configuration's reload thread and by the filter's own     *)
(* thread, which reads an inotify descriptor.  The access list of auth.c,  *)
(* read once from the same address files, is composed with it.             *)
(*                                                                         *)
(* A file is a sequence of lines, or NULL when it cannot be opened.  A     *)
(* domain is a sequence of characters, a URL pattern the set of URLs it    *)
(* matches, a token of a content type the set of the list entries that     *)
(* occur in it.                                                            *)
(***************************************************************************)
EXTENDS Auth, SequencesExt

CONSTANTS
  Workers,
  Contents,        \* what a list file may hold, for every list
  Domains, Urls, Ips, ContentTypes,   \* what the workers ask about
  Width6,          \* bits of an IPv6 address (128)
  ByteBits,        \* bits of a byte of it (8)
  Lower(_),        \* tolower
  Users,           \* auth_users: the lines of auth_file
  Credentials,     \* what clients identify themselves with
  Leftovers,       \* what the stack can hold where check_basic_auth has its buffer
  MaxEdits         \* bound on the operator's changes

Lists == {"domain", "allow", "deny", "url", "ct"}

\* setup_inotify_watches: the address files are not watched.
WatchedLists == {"domain", "url", "ct"}

\* The threads that load: main in filter_init, and the two reload threads.
Loaders == {"main", "config", "hot"}

IsAddress(a) ==
  a.v6 \in BOOLEAN /\ a.bits \in [1..(IF a.v6 THEN Width6 ELSE Width) -> {0, 1}]

\* inet_pton takes an IPv4 address in one spelling only.
IsRule(r) ==
  /\ IsAddress(r) /\ r.prefix \in Int \cup {NULL}
  /\ r.ntop \in BOOLEAN /\ (~r.v6 => r.ntop)

ASSUME FilterAssumption ==
  /\ NULL \notin Loaders
  /\ Width6 \in Nat /\ ByteBits \in Nat \ {0}

\* What a line of a list file is once blanks are trimmed: only a line of an address
\* file, or of the URL file, can be Junk.
ASSUME ContentsAssumption ==
  /\ \A f \in Contents["domain"] \ {NULL} : \A i \in DOMAIN f :
       f[i] = Skip \/ (f[i] # Junk /\ f[i] \in Seq(STRING) /\ f[i] # <<>>)
  /\ \A f \in (Contents["allow"] \cup Contents["deny"]) \ {NULL} : \A i \in DOMAIN f :
       f[i] \in {Skip, Junk} \/ IsRule(f[i])
  /\ \A f \in Contents["ct"] \ {NULL} : \A i \in DOMAIN f : f[i] # Junk

\* What is asked about; tolower makes nothing but a dot a dot.
ASSUME QueryAssumption ==
  /\ Domains \subseteq Seq(STRING)
  /\ \A q \in Domains : \A i \in DOMAIN q : Lower(q[i]) = "." <=> q[i] = "."
  /\ \A ip \in Ips : IsAddress(ip)
  /\ ContentTypes \subseteq Seq(SUBSET STRING)
  /\ \A q \in ContentTypes : q # <<>> /\ \A i \in DOMAIN q : q[i] # NULL

\* auth_init keeps lines of at most MAX_CREDS_LEN - 1 characters, and none that is empty.
ASSUME UsersAssumption ==
  /\ \A u \in Users : /\ u \in Seq(Nat) /\ 0 < Len(u) /\ Len(u) < MaxCreds
                      /\ \A i \in 1..Len(u) : u[i] # 0
  /\ Leftovers \subseteq [1..MaxCreds -> 0..255]

\* What the workers ask about, for every kind of check.
Asked == [domain |-> Domains, url |-> Urls, ip |-> Ips, ct |-> ContentTypes]

Kinds == DOMAIN Asked

VARIABLES
  files,           \* the list files on disk
  watch,           \* the lists whose file the inotify descriptor watches
  events,          \* an event waits on the descriptor
  edits,           \* changes made so far
  trie, allow_ips, deny_ips, url_patterns, content_type_blocklist,
  filter_enabled,
  writer, readers, \* who holds filter_lock
  load,            \* where each loader is
  pc, kind, query, verdict, token,   \* where each worker is, what it asks, what it found
  strtok,          \* strtok's static position: whose buffer, and what is left of it
  acl,             \* the address lists of auth.c
  read, inforce,   \* ghost: the files of the load under way, of the last complete one
  changed,         \* ghost: watched files last changed under the eyes of the watch
  shared           \* ghost: workers whose content type check met another one

disk == <<files, watch, events, edits, changed>>
lists == <<trie, allow_ips, deny_ips, url_patterns, content_type_blocklist>>
lock == <<writer, readers>>
worker == <<pc, kind, query, verdict, token, strtok, shared>>
vars == <<disk, lists, lock, worker, filter_enabled, load, acl, read, inforce>>

Steps == {"none", "idle", "wrlock", "clear", "domain", "allow", "deny", "url",
          "ctreset", "ct", "watch", "unlock"}

\* The values the variables range over: no loader fills an array past its end.
TypeOK ==
  /\ DOMAIN files = Lists /\ watch \subseteq WatchedLists /\ changed \subseteq watch
  /\ {events, filter_enabled} \subseteq BOOLEAN /\ edits \in 0..MaxEdits
  /\ \A list \in {allow_ips, deny_ips, url_patterns, content_type_blocklist} :
       Cardinality(DOMAIN list) <= MaxEntries
  /\ writer \in Loaders \cup {NULL} /\ readers \subseteq Workers
  /\ load \in [Loaders -> Steps]
  /\ pc \in [Workers -> {"idle", "return", "rdlock", "decide", "tokens", "unlock"}]
  /\ kind \in [Workers -> Kinds \cup {NULL}] /\ verdict \in [Workers -> BOOLEAN]
  /\ shared \subseteq Workers

-----------------------------------------------------------------------------
(* What is loaded *)

EmptyTrie == [nodes |-> {<<>>}, ends |-> {}]

Lowered(s) == [i \in DOMAIN s |-> Lower(s[i])]

\* trie_insert: the path of the reversed name, with a node for every beginning of it
\* and a mark at its end.
trie_path(domain) == Reverse(Lowered(domain))

trie_nodes(path) == {SubSeq(path, 1, n) : n \in 0..Len(path)}

load_domain_list(t, lines) ==
  LET paths == {trie_path(lines[i]) : i \in {j \in DOMAIN lines : lines[j] # Skip}}
  IN  [nodes |-> t.nodes \cup UNION {trie_nodes(p) : p \in paths},
       ends |-> t.ends \cup paths]

\* The IPv6 mask of parse_cidr, byte by byte.
mask6(n, p) ==
  [i \in 1..n |->
     LET byte == (i - 1) \div ByteBits
     IN  IF \/ byte < p \div ByteBits
            \/ byte = p \div ByteBits /\ (i - 1) % ByteBits < p % ByteBits
         THEN 1 ELSE 0]

\* parse_cidr: a prefix that is missing or out of range means the whole address.
parse_cidr(rule) ==
  LET n == Len(rule.bits)
      p == IF rule.prefix = NULL \/ rule.prefix \notin 0..n THEN n ELSE rule.prefix
      mask == IF rule.v6 THEN mask6(n, p) ELSE HighBits(n, p)
  IN  [v6 |-> rule.v6, mask |-> mask, addr |-> Masked(rule.bits, mask)]

load_ip_list(lines) == [i \in Kept(lines, {Skip, Junk}) |-> parse_cidr(lines[i])]

\* Patterns that regcomp refuses are left out.
load_url_list(lines) == [i \in Kept(lines, {Skip, Junk}) |-> lines[i]]

load_content_type_list(lines) == [i \in Kept(lines, {Skip}) |-> lines[i]]

-----------------------------------------------------------------------------
(* The checks *)

\* filter_is_domain_blocked: the walk from the last character until a child is
\* missing; a mark counts when the name or one of its labels begins there.
DomainBlocked(domain) ==
  LET path == Reverse(domain)
  IN  \E n \in 1..Len(path) :
        /\ \A m \in 1..n : Lowered(SubSeq(path, 1, m)) \in trie.nodes
        /\ Lowered(SubSeq(path, 1, n)) \in trie.ends
        /\ n = Len(path) \/ path[n + 1] = "."

UrlBlocked(url) == \E i \in DOMAIN url_patterns : url \in url_patterns[i]

InBlock(ip, block) ==
  /\ block.v6 = ip.v6
  /\ Masked(ip.bits, block.mask) = block.addr

\* filter_is_ip_blocked: the allow list first.
IpBlocked(ip) ==
  /\ \A i \in DOMAIN allow_ips : ~InBlock(ip, allow_ips[i])
  /\ \E i \in DOMAIN deny_ips : InBlock(ip, deny_ips[i])

TokenBlocked(t) == \E i \in DOMAIN content_type_blocklist : content_type_blocklist[i] \in t

-----------------------------------------------------------------------------
(* Start: auth_init has read its lists, filter_init is about to start.     *)

Init ==
  /\ \E d \in Contents.domain, a \in Contents.allow, n \in Contents.deny,
        u \in Contents.url, c \in Contents.ct :
       files = [domain |-> d, allow |-> a, deny |-> n, url |-> u, ct |-> c]
  /\ watch = {} /\ events = FALSE /\ edits = 0 /\ changed = {}
  /\ trie = NULL /\ allow_ips = <<>> /\ deny_ips = <<>>
  /\ url_patterns = <<>> /\ content_type_blocklist = <<>>
  /\ filter_enabled = FALSE
  /\ writer = NULL /\ readers = {}
  /\ load = [t \in Loaders |-> IF t = "hot" THEN "none" ELSE "idle"]
  /\ pc = [w \in Workers |-> "idle"]
  /\ kind = [w \in Workers |-> NULL] /\ query = kind
  /\ verdict = [w \in Workers |-> FALSE] /\ token = [w \in Workers |-> NULL]
  /\ strtok = [of |-> NULL, rest |-> <<>>] /\ shared = {}
  /\ acl = [allow |-> IF files["allow"] = NULL THEN <<>> ELSE load_list(files["allow"]),
            deny |-> IF files["deny"] = NULL THEN <<>> ELSE load_list(files["deny"])]
  /\ read = [l \in Lists |-> NULL] /\ inforce = read

-----------------------------------------------------------------------------
(* Loading the lists *)

Goto(t, step) == load' = [load EXCEPT ![t] = step]

\* filter_init enables the filter before it takes the lock.
filter_init ==
  /\ load["main"] = "idle" /\ ~filter_enabled
  /\ filter_enabled' = TRUE
  /\ Goto("main", "wrlock")
  /\ UNCHANGED <<disk, lists, lock, worker, acl, read, inforce>>

\* filter_reload, called by the configuration's thread after each change of the
\* configuration file; without a filter it returns at once.
ConfigReload ==
  /\ load["config"] = "idle" /\ filter_enabled
  /\ Goto("config", "wrlock")
  /\ UNCHANGED <<disk, lists, lock, worker, filter_enabled, acl, read, inforce>>

\* Fault for HotReload: nothing to do while the other thread is reloading.
HotReloadSkips ==
  /\ load["hot"] = "idle" /\ events
  /\ events' = FALSE
  /\ Goto("hot", IF writer = NULL THEN "wrlock" ELSE "idle")
  /\ UNCHANGED <<files, watch, edits, changed, lists, lock, worker, filter_enabled,
                 acl, read, inforce>>

\* hot_reload_thread_fn: the read takes what is queued; an empty queue is polled.
HotReload ==
  /\ load["hot"] = "idle" /\ events
  /\ events' = FALSE
  /\ Goto("hot", "wrlock")
  /\ UNCHANGED <<files, watch, edits, changed, lists, lock, worker, filter_enabled,
                 acl, read, inforce>>

\* Fault for WrLock: filter_lock taken for reading.
WrLockShared(t) ==
  /\ load[t] = "wrlock" /\ writer = NULL
  /\ writer' = t
  /\ Goto(t, "clear")
  /\ UNCHANGED <<disk, lists, readers, worker, filter_enabled, acl, read, inforce>>

WrLock(t) ==
  /\ load[t] = "wrlock" /\ writer = NULL /\ readers = {}
  /\ writer' = t
  /\ Goto(t, "clear")
  /\ UNCHANGED <<disk, lists, readers, worker, filter_enabled, acl, read, inforce>>

\* filter_clear: every list but the content types.
filter_clear(t) ==
  /\ load[t] = "clear"
  /\ trie' = EmptyTrie /\ allow_ips' = <<>> /\ deny_ips' = <<>> /\ url_patterns' = <<>>
  /\ Goto(t, "domain")
  /\ UNCHANGED <<disk, content_type_blocklist, lock, worker, filter_enabled, acl,
                 read, inforce>>

\* A file is read into its list; one that cannot be opened leaves the list as
\* filter_clear left it.
LoadList(t, l, next) ==
  /\ load[t] = l
  /\ read' = [read EXCEPT ![l] = files[l]]
  /\ Goto(t, next)
  /\ UNCHANGED <<disk, lock, worker, filter_enabled, acl, inforce>>

LoadDomains(t) ==
  /\ LoadList(t, "domain", "allow")
  /\ trie' = IF files["domain"] = NULL THEN trie ELSE load_domain_list(trie, files["domain"])
  /\ UNCHANGED <<allow_ips, deny_ips, url_patterns, content_type_blocklist>>

LoadAllowed(t) ==
  /\ LoadList(t, "allow", "deny")
  /\ allow_ips' = IF files["allow"] = NULL THEN allow_ips ELSE load_ip_list(files["allow"])
  /\ UNCHANGED <<trie, deny_ips, url_patterns, content_type_blocklist>>

LoadDenied(t) ==
  /\ LoadList(t, "deny", "url")
  /\ deny_ips' = IF files["deny"] = NULL THEN deny_ips ELSE load_ip_list(files["deny"])
  /\ UNCHANGED <<trie, allow_ips, url_patterns, content_type_blocklist>>

LoadUrls(t) ==
  /\ LoadList(t, "url", "ctreset")
  /\ url_patterns' = IF files["url"] = NULL THEN url_patterns ELSE load_url_list(files["url"])
  /\ UNCHANGED <<trie, allow_ips, deny_ips, content_type_blocklist>>

\* The content types: the count is reset once the file is open, and a file that
\* cannot be opened keeps the list of before.  The block page comes last; main
\* sets the watches up before it gives the lock back.
ResetContentTypes(t) ==
  /\ load[t] = "ctreset"
  /\ IF files["ct"] = NULL
     THEN /\ Goto(t, IF t = "main" THEN "watch" ELSE "unlock")
          /\ UNCHANGED <<content_type_blocklist, read>>
     ELSE /\ content_type_blocklist' = <<>>
          /\ read' = [read EXCEPT !["ct"] = files["ct"]]
          /\ Goto(t, "ct")
  /\ UNCHANGED <<disk, trie, allow_ips, deny_ips, url_patterns, lock, worker,
                 filter_enabled, acl, inforce>>

LoadContentTypes(t) ==
  /\ load[t] = "ct"
  /\ content_type_blocklist' = load_content_type_list(read["ct"])
  /\ Goto(t, IF t = "main" THEN "watch" ELSE "unlock")
  /\ UNCHANGED <<disk, trie, allow_ips, deny_ips, url_patterns, lock, worker,
                 filter_enabled, acl, read, inforce>>

\* A file that does not exist cannot be watched.
setup_inotify_watches ==
  /\ load["main"] = "watch"
  /\ watch' = {l \in WatchedLists : files[l] # NULL}
  /\ Goto("main", "unlock")
  /\ UNCHANGED <<files, events, edits, changed, lists, lock, worker, filter_enabled,
                 acl, read, inforce>>

\* The lock is given back; filter_init starts the filter's own thread.
Unlock(t) ==
  /\ load[t] = "unlock"
  /\ writer' = NULL
  /\ inforce' = read
  /\ load' = IF t = "main" THEN [load EXCEPT !["main"] = "none", !["hot"] = "idle"]
             ELSE [load EXCEPT ![t] = "idle"]
  /\ UNCHANGED <<disk, lists, readers, worker, filter_enabled, acl, read>>

-----------------------------------------------------------------------------
(* A worker's check.  Workers exist once filter_init has returned.         *)

\* filter_is_content_type_blocked with an empty list, which it looks at before it takes
\* the lock: a reload may be about to fill the list.
AskEmpty(w, q) ==
  /\ pc[w] = "idle" /\ filter_enabled /\ load["main"] = "none"
  /\ content_type_blocklist = <<>>
  /\ pc' = [pc EXCEPT ![w] = "return"]
  /\ kind' = [kind EXCEPT ![w] = "ct"] /\ query' = [query EXCEPT ![w] = q]
  /\ UNCHANGED <<disk, lists, lock, verdict, token, strtok, shared, filter_enabled,
                 load, acl, read, inforce>>

Return(w) ==
  /\ pc[w] = "return"
  /\ pc' = [pc EXCEPT ![w] = "idle"]
  /\ kind' = [kind EXCEPT ![w] = NULL] /\ query' = [query EXCEPT ![w] = NULL]
  /\ UNCHANGED <<disk, lists, lock, verdict, token, strtok, shared, filter_enabled,
                 load, acl, read, inforce>>

Ask(w, k) ==
  /\ pc[w] = "idle" /\ filter_enabled /\ load["main"] = "none"
  /\ k = "domain" => trie # NULL
  /\ k = "ct" => content_type_blocklist # <<>>     \* read without the lock
  /\ pc' = [pc EXCEPT ![w] = "rdlock"]
  /\ kind' = [kind EXCEPT ![w] = k]
  /\ UNCHANGED <<disk, lists, lock, query, verdict, token, strtok, shared,
                 filter_enabled, load, acl, read, inforce>>

RdLock(w) ==
  /\ pc[w] = "rdlock" /\ writer = NULL
  /\ readers' = readers \cup {w}
  /\ pc' = [pc EXCEPT ![w] = "decide"]
  /\ UNCHANGED <<disk, lists, writer, kind, query, verdict, token, strtok, shared,
                 filter_enabled, load, acl, read, inforce>>

\* What is asked about plays no part before the list is searched.
Decide(w, q) ==
  /\ pc[w] = "decide" /\ kind[w] # "ct"
  /\ query' = [query EXCEPT ![w] = q]
  /\ verdict' = [verdict EXCEPT ![w] =
       CASE kind[w] = "domain" -> DomainBlocked(q)
         [] kind[w] = "url" -> UrlBlocked(q)
         [] kind[w] = "ip" -> IpBlocked(q)]
  /\ pc' = [pc EXCEPT ![w] = "unlock"]
  /\ UNCHANGED <<disk, lists, lock, kind, token, strtok, shared, filter_enabled,
                 load, acl, read, inforce>>

InTokens == {w \in Workers : pc[w] = "tokens"}

\* filter_is_content_type_blocked: strtok on the worker's own copy.
FirstToken(w, q) ==
  /\ pc[w] = "decide" /\ kind[w] = "ct"
  /\ query' = [query EXCEPT ![w] = q]
  /\ token' = [token EXCEPT ![w] = Head(q)]
  /\ strtok' = [of |-> w, rest |-> Tail(q)]
  /\ pc' = [pc EXCEPT ![w] = "tokens"]
  /\ shared' = IF InTokens = {} THEN shared ELSE shared \cup InTokens \cup {w}
  /\ UNCHANGED <<disk, lists, lock, kind, verdict, filter_enabled, load, acl, read,
                 inforce>>

\* One turn of the loop: the token is compared, and the next one is taken from
\* wherever the static position points: this worker's copy, that of another
\* worker, or the stack of one that has returned.
NextToken(w) ==
  /\ pc[w] = "tokens"
  /\ LET blocked == TokenBlocked(token[w])
         words == UNION {{ct[i] : i \in DOMAIN ct} : ct \in ContentTypes}
         stale == strtok.of # w /\ pc[strtok.of] # "tokens"
     IN  /\ verdict' = [verdict EXCEPT ![w] = blocked]
         /\ IF stale
            THEN \E t \in words \cup {NULL} :
                   /\ token' = [token EXCEPT ![w] = t]
                   /\ strtok' = [of |-> strtok.of, rest |-> <<>>]
            ELSE /\ token' = [token EXCEPT ![w] =
                       IF strtok.rest = <<>> THEN NULL ELSE Head(strtok.rest)]
                 /\ strtok' = [strtok EXCEPT !.rest = IF @ = <<>> THEN @ ELSE Tail(@)]
         /\ pc' = [pc EXCEPT ![w] =
              IF blocked \/ token'[w] = NULL THEN "unlock" ELSE "tokens"]
  /\ UNCHANGED <<disk, lists, lock, kind, query, shared, filter_enabled, load, acl,
                 read, inforce>>

\* The worker returns.  strtok's position is of no use to a check that starts
\* afterwards, so it is forgotten with the last check under way.
RdUnlock(w) ==
  /\ pc[w] = "unlock"
  /\ readers' = readers \ {w}
  /\ pc' = [pc EXCEPT ![w] = "idle"]
  /\ kind' = [kind EXCEPT ![w] = NULL] /\ query' = [query EXCEPT ![w] = NULL]
  /\ token' = [token EXCEPT ![w] = NULL] /\ verdict' = [verdict EXCEPT ![w] = FALSE]
  /\ strtok' = IF InTokens = {} THEN [of |-> NULL, rest |-> <<>>] ELSE strtok
  /\ shared' = shared \ {w}
  /\ UNCHANGED <<disk, lists, writer, filter_enabled, load, acl, read, inforce>>

-----------------------------------------------------------------------------
(* The operator (external): one write to a list file, or a file renamed    *)
(* over it or removed.  The kernel drops the watch of a file that is gone  *)
(* and says so with an event of its own.                                   *)

WriteFile(l, c) ==
  /\ edits < MaxEdits /\ edits' = edits + 1
  /\ files[l] # NULL /\ c # NULL /\ c # files[l]
  /\ files' = [files EXCEPT ![l] = c]
  /\ events' = (events \/ l \in watch)
  /\ changed' = changed \cup ({l} \cap watch)
  /\ UNCHANGED <<watch, lists, lock, worker, filter_enabled, load, acl, read, inforce>>

ReplaceFile(l, c) ==
  /\ edits < MaxEdits /\ edits' = edits + 1
  /\ c # files[l]
  /\ files' = [files EXCEPT ![l] = c]
  /\ events' = (events \/ l \in watch)
  /\ watch' = watch \ {l} /\ changed' = changed \ {l}
  /\ UNCHANGED <<lists, lock, worker, filter_enabled, load, acl, read, inforce>>

-----------------------------------------------------------------------------
Load(t) ==
  \/ WrLock(t) \/ filter_clear(t)
  \/ LoadDomains(t) \/ LoadAllowed(t) \/ LoadDenied(t) \/ LoadUrls(t)
  \/ ResetContentTypes(t) \/ LoadContentTypes(t)
  \/ Unlock(t)

Check(w) ==
  \/ \E q \in ContentTypes : AskEmpty(w, q)
  \/ Return(w)
  \/ \E k \in Kinds : Ask(w, k)
  \/ RdLock(w)
  \/ kind[w] # NULL /\ \E q \in Asked[kind[w]] : Decide(w, q) \/ FirstToken(w, q)
  \/ NextToken(w) \/ RdUnlock(w)

Operator ==
  \E l \in Lists : \E c \in Contents[l] : WriteFile(l, c) \/ ReplaceFile(l, c)

Next ==
  \/ filter_init \/ setup_inotify_watches \/ ConfigReload \/ HotReload
  \/ \E t \in Loaders : Load(t)
  \/ \E w \in Workers : Check(w)
  \/ Operator

Spec == Init /\ [][Next]_vars

-----------------------------------------------------------------------------
(* Properties *)

RuleHolds(rule, ip) ==
  LET n == Len(rule.bits)
      p == IF rule.prefix = NULL \/ rule.prefix \notin 0..n THEN n ELSE rule.prefix
  IN  rule.v6 = ip.v6 /\ SubSeq(rule.bits, 1, p) = SubSeq(ip.bits, 1, p)

\* The lines of a list file, none when it could not be read.
InForce(l) == IF inforce[l] = NULL THEN {} ELSE {inforce[l][i] : i \in DOMAIN inforce[l]} \ {Skip, Junk}

EndsWith(s, e) == Len(s) >= Len(e) /\ SubSeq(s, Len(s) - Len(e) + 1, Len(s)) = e

\* The answers the files of the last complete load give.
Answer(k, q) ==
  CASE k = "domain" ->
         \E e \in InForce("domain") :
           Lowered(q) = Lowered(e) \/ EndsWith(Lowered(q), <<".">> \o Lowered(e))
    [] k = "url" -> \E p \in InForce("url") : q \in p
    [] k = "ip" -> /\ \E r \in InForce("deny") : RuleHolds(r, q)
                   /\ ~\E r \in InForce("allow") : RuleHolds(r, q)
    [] k = "ct" -> \E i \in DOMAIN q : \E e \in InForce("ct") : e \in q[i]

LockedExact ==
  \A w \in Workers :
    pc[w] = "unlock" /\ (kind[w] = "ct" => w \notin shared)
      => verdict[w] = Answer(kind[w], query[w])

EmptyExact ==
  content_type_blocklist = <<>> /\ load["main"] = "none" /\ writer = NULL
    => \A q \in ContentTypes : ~Answer("ct", q)

\* A check that takes the lock answers from one complete set of list files, whatever
\* reload is waiting or under way, and answers what these files say: a domain and
\* everything below it, the addresses of a prefix, the allow list before the deny list
\* (filter.c 299-404), and the tokens of a content type, as long as no other worker is
\* inside the loop over them: strtok keeps its position in a static variable and the
\* lock held for reading does not protect it (filter.c 408-429).  A check of a content
\* type that finds the list empty takes no lock and lets the type pass (AskEmpty, filter.c
\* 407): that is what the files say as long as no thread is loading; while one is, it
\* may have emptied the list and be about to refill it.
VerdictExact == LockedExact /\ EmptyExact

\* No change of a watched file is lost: when the filter's thread waits and no event
\* is queued, the lists in force are the files as they are on disk, whichever of the
\* two reload threads loaded last and however writes and reloads overlap
\* (filter.c 229-239, 268-280).
NoChangeLost ==
  (load["hot"] = "idle" /\ ~events /\ writer = NULL)
    => \A l \in changed : inforce[l] = files[l]

\* A credential, of any length, is accepted exactly when the file has it, whatever the
\* stack holds where it is decoded (auth.c 42-59, 165-189).  Excepted are a credential
\* whose base64 text ends with "==" and has more than one quad (b64decode leaves the
\* third byte of every quad out) and the empty one, for which the buffer stays as it is.
CredentialsExact ==
  \A c \in Credentials, out \in Leftovers :
    c # <<>> /\ (Len(c) % 3 # 1 \/ Len(c) = 1)
      => (check_basic_auth(Users, Base64(c), out) <=> c \in Users)

\* The access list answers what its rules say, deny before allow (auth.c 118-163), and
\* the user file is asked about credentials as CredentialsExact says.
AuthExact ==
  /\ \A ip \in Ips :
       check_ip_allowed(acl, ip) =
         /\ ~\E i \in DOMAIN acl.deny : RuleNames(acl.deny[i], ip)
         /\ acl.allow = <<>> \/ \E i \in DOMAIN acl.allow : RuleNames(acl.allow[i], ip)
  /\ CredentialsExact

-----------------------------------------------------------------------------
(* The capacities of the arrays: what VerdictExact and AuthExact are proved under *)

\* A list with more entries than its array has room for loses the last ones; one that
\* fits keeps every entry, at least once.
Fits(f, dropped) ==
  \A i \in DOMAIN f : f[i] \notin dropped => \E j \in Kept(f, dropped) : f[j] = f[i]

\* No list file has more entries than MAX_IP_BLOCKS, MAX_URL_PATTERNS and MAX_CONTENT_TYPES.
FilesFit ==
  /\ \A l \in {"allow", "deny", "url"} : \A f \in Contents[l] \ {NULL} : Fits(f, {Skip, Junk})
  /\ \A f \in Contents["ct"] \ {NULL} : Fits(f, {Skip})

\* A credential: bytes other than NUL, which would end the decoded text early.
Credential(c) == c \in Seq(Nat) /\ \A i \in 1 .. Len(c) : 0 < c[i] /\ c[i] < 256

CredentialsAreText == \A c \in Credentials : Credential(c)
=============================================================================
