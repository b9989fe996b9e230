# A TLA+ model of the proxy web server

The proxy (`src/src/*.c`) accepts HTTP/1.1 connections, starts a thread for each, checks
the request against credentials and filter lists, answers it from a cache or fetches it
from the end server, tunnels CONNECT with two TLS sessions or serves it as HTTP/2, and
reloads its configuration and its lists while it runs. These modules model the parts of it
in which threads, failures and the order of events meet, check them with TLC on small
instances and prove the main invariants with TLAPS.

## Inventory

| Component | State | Operations | Meets |
|---|---|---|---|
| Response cache, `cache.c` | `HASH_TABLE` of chains, the `list_head … list_tail` list, `CACHE_SIZE`, the eviction policy, files of the disk tier; one mutex `LOCK` | `FindCache`, `AddCache`, `RemoveCache`, `Cache_purge`, `Cache_clear`, `Cache_set_eviction_policy` | every worker; the limits in `g_config` |
| Accept loop and workers, `Main.c` | `ITERATOR`, the slots `CONNECTED_SOCKET_ID` and `THREAD_ID`, `SEMAPHORE`, descriptors | `main`, `THREAD_ROUTINE` (raw TLS and h2c are refused), `ThrowError`, `ConnectEndServer` | everything |
| Response relay, `Main.c` | the growing response buffer of one exchange | `HandleRequest`, `parse_content_type_header` | the filter, the client, the cache |
| Request parser, `proxy_parse.c` | a `ParsedRequest` with its header table | `ParsedRequest_create`, `_parse`, `_destroy`, `ParsedHeader_set`, `_get`, `_remove`, `ParsedRequest_unparse_headers` | one worker |
| Configuration, `config.c` | `g_config`, the inotify watch | `config_load_file`, `config_apply_env`, `config_apply_args`, `config_validate`, `hot_reload_thread` | read by all threads without a lock |
| Content filter, `filter.c` | lists of domains, URLs, addresses and content types under a read-write lock; its own inotify thread | `filter_init`, `filter_reload`, `filter_is_*_blocked` | workers, the reload thread |
| Authentication, `auth.c` | credentials and access list, loaded once | `check_ip_allowed`, `check_basic_auth` | accept loop, workers |
| CONNECT tunnel, `tls_tunnel.c` | two TLS sessions, the certificate cache and its mutex | `HandleConnect`, `tls_connect_upstream`, `get_or_create_cert` | workers, HTTP/2 |
| HTTP/2, `http2.c` | the streams of a connection, their upstream connections | `handle_http2_connection`, callbacks of nghttp2, `http2_process_stream` | tunnel |
| Metrics, `metrics.c` | counters and gauges under a mutex | `metrics_*` | workers, admin server |
| Logger, `logger.c` | level, file, size; `g_log_mutex` | `logger_log`, `logger_set_level`, rotation | all threads, the signal handler |
| Admin server, `admin.c` | one thread, `g_admin_running` | `/metrics`, `/health`, `/status` | metrics |
| Shutdown, `Main.c` | | `handle_signal` | logger, admin server, certificates |
| HTTP/3, `http3.c` | QUIC connections of quiche | a placeholder that answers a fixed text | logger |

What is hard to test here:

- a pointer into the cache is used after the mutex is released;
- limits and all other safe fields of `g_config` change between two reads of one operation;
- `THREAD_ROUTINE` has a dozen exits, each of which has to undo what was done before it;
- descriptors are reused by other threads the moment they are closed;
- chunks of a response cut its header anywhere, and allocations and sends fail between them;
- the reload threads overlap with the end of startup, with the editor of the files, with
  each other and with themselves through queued events;
- list files are replaced between two checks of one request, and lists inside one;
- a header table grows, and is emptied in the middle, in the order a client chooses;
- frames, writes and answers of several HTTP/2 streams are cut and interleaved anywhere;
- the peers of a tunnel close, reset or stop reading while the pump is busy with the other;
- a signal arrives while any thread holds any lock, and the log may be in rotation.

`PROJECT.json` lists these hazards with the lines at which they bite.

## Modules

| Module | Models | Instances for TLC | Proofs |
|---|---|---|---|
| `ProxyCache` | the cache, with the workers that call it | `MCProxyCache`, `ProxyCache*.cfg` | `ProxyCacheProofs` |
| `ProxyServer` | the accept loop and the life of a worker | `MCProxyServer`, `ProxyServer*.cfg` | `ProxyServerProofs` |
| `Relay` | one exchange with an end server | `MCRelay`, `Relay.cfg` | `FilterProofs` |
| `Config` | startup and hot reload of the configuration | `MCConfig`, `Config.cfg` | `ConfigProofs` |
| `RequestParser` | the request object of a worker | `MCRequestParser`, `RequestParser.cfg` | `RequestParserProofs` |
| `HeaderMap` | abstract: what the header functions promise | through `RequestParser` | `RequestParserProofs` |
| `Auth` | operators: access list, base64, credentials | through `Filter` | `FilterProofs` |
| `Filter` | the filter's lists, checks and reload threads, with the access list | `MCFilter`, `Filter.cfg` | `FilterProofs` |
| `Tunnel` | certificates, handshakes and the pump of CONNECT | `MCTunnel`, `Tunnel.cfg` | `TunnelProofs` |
| `Http2` | one HTTP/2 connection | `MCHttp2`, `Http2.cfg` | `Http2Proofs` |
| `Shutdown` | signal handler, logger, admin server | `MCShutdown`, `Shutdown.cfg` | `ShutdownProofs` |

How they fit together. `ProxyServer` is the whole with its parts abstracted: the cache is
the set `cached`, of which `ProxyCache` is the detail; `FetchDone` is what `Relay` details;
the filter's answers are those of one of a set of lists, and `Filter` shows that a check
answers from one complete set; a request is what `RequestParser` makes of its text; `Dial`
and `TunnelEnd` are the outside of `Tunnel`, which in turn hands a client that negotiates
h2 to `Http2`. `ProxyCache` has a reload of the limits as one action, of which `Config` is
the detail, and `Config` calls `filter_reload` once where `Filter` has its steps. `Filter`
extends `Auth`, since both read the same address files. `RequestParser` instantiates
`HeaderMap` with a refinement mapping.

Operators after a comment "Fault:" (or "Fault for X:") are deliberate errors. No
specification uses them; replacing the definition below them by one of them shows that a
property notices.

### ProxyCache

Chains and list are sequences of heap nodes; `heap[n] = NULL` is memory that is not
allocated. An operation that runs under `LOCK` and reads nothing that changes outside of
`LOCK` is one action. `AddCache` is cut at each reading of `g_config`, since a reload does
not take `LOCK`, and between its last reading, behind which it writes the file
(`AddCacheDisk`), and the linking of the entry (`AddCacheInsert`): a reload, though no
other operation, can come there too. `FindCache` is cut where it releases `LOCK` before it
calls `Cache_purge`. A hit leaves the worker in `serve` with a bare pointer. The disk tier
has a directory and inodes, so that truncating, unlinking and mapping one file are told
apart, and `open`, `write` and `mmap` fail. The directory starts with what earlier runs
left in it (`Directories`), since `Cache_init` only creates one that is missing. `hash_url`
is a parameter, and in the instances keys share a bucket; what a key adds to the size of an
entry is a function of the key (`Overhead`).

For the properties only: the fields `max_age` and `born` of an entry; `in_force`, the values
of `max_cache_size` since the eviction loop ended; and `stray`, the names of files from
earlier runs and from failed writes.

Left out: the text of responses and the parsing of `Cache-Control` (a response comes with
its `max-age`, or is not stored), what a file holds, and the width of `int` in sizes. The
calls of `time` in one insertion return the same second.

### ProxyServer

One worker per connection, which is numbered by `ITERATOR`. A worker steps from one blocking
call or shared access to the next. `owner` says for which end of which connection a
descriptor is open; the kernel may give any free descriptor. A slot beyond `max_clients` is
memory of somebody else: what is read there is any value, and writing there may end the
process (`SlotOverrun`). A request is what the parser and the checks make of it. Content of
the filter lists is one of a set, and `inforce` records which were in force since a worker
received its request, for the properties only. `Refuse`, `RecvUnusable` and `DropRelative`
are the early returns, which share `EarlyExit`.

Left out: counters that only grow, and the access log.

### Relay

A response is given by its length, the end of its header and the end of its content type;
`recv` returns any number of bytes up to `max_bytes`. `RESPONSE_CAPACITY` and the bytes
really allocated are separate, because the code doubles the first before `realloc` fails.
The names that `Filter` has too carry a prefix (`RelayInit`, `RelayNext`, `RelaySpec`), so
that one module can prove about both.
The content-type list is empty in a configuration file as shipped (no key sets
`content_type_blocklist_file`); the model takes the list that the filter's interface allows.

### Config

All fields of `ProxyConfig` that a source can set. A text is its characters together with
what `atoi` reads in them, and `Convert` is the assignment to a field of each kind: sizes
wrap modulo `SizeMod`, flags compare with `true` and `1`. `main` applies defaults, file and
environment, starts the reload thread, applies one option after the other, validates and
initialises filter and logger. The reload thread waits for events, sleeps and places its
watch again after `IN_IGNORED`, parses, copies one field after the other, and sets the
level and the filter. The editor writes in place, renames a new file over the old one,
moves it away, removes and creates it; the watch belongs to the file and not to its name.

The file is read in one step (it is shorter than a stdio buffer), and `config_validate` and
the copy in `filter_init` are one step each. `IN_CLOSE_WRITE` follows a write and can only
cause one more reload. `auth_init`, the admin server and the sockets, which `main` also sets
up here, do not depend on what is modelled.

### RequestParser and HeaderMap

One `ParsedRequest` at a time, made, parsed, used and destroyed, and then the next one in
the same memory. A request line is the branch of the parser it takes, with the host and
port in it; a header line is a name, its separator and a value. The table is the sequence
of entries with `headerslen` (what the code believes it can hold) and `allocated` (what the
memory holds), since a failed `realloc` makes them differ. An entry that `ParsedHeader_remove`
emptied stays as a hole. `blocks` are the allocations, and `chunk` what the memory of the
last object's `port` still says. The calls of `THREAD_ROUTINE` and `HandleRequest` on the
object (trace id, `Connection`, `Proxy-Connection`, `Host`, unparse, port) are actions.

`HeaderMap` is the promise of `proxy_parse.h`: set, get and remove on a map from keys to
values. `Map` in `RequestParser` maps the table to it by what `ParsedHeader_get` finds, and
`HeaderMapImplemented` says that every step of the table is a step of the map or none.

Left out: characters a parser branch does not look at, and the functions nothing calls
(`ParsedRequest_unparse`, `ParsedRequest_totalLen` and what only they use).

### Auth and Filter

`Auth` holds what `auth.c` computes. An address is its bits; a rule is an address, the number
behind its slash, and whether the address is spelled as `inet_ntop` spells it (`ntop`),
because `ip_matches` compares a rule without a slash as a text: an IPv6 rule in another
spelling matches nothing. For the others it builds the mask as the code does, prefix 0
apart. `b64decode` fills a buffer of `MaxCreds` bytes that starts with whatever the stack
holds (`Leftovers`): an empty text leaves it as it is, a text that fills it gets no NUL,
and one that ends in `==` loses the third byte of every quad. `SameText` is the `strcmp`
behind it. The users are a constant, for `auth_init` runs once. A list in memory is a
function on the numbers of the lines it was loaded from: `Kept` are the lines that are
entries, until the array is full.

`Filter` has the files, the lists in memory, the trie as its set of nodes (the path to each)
with those that end a domain, the read-write lock, three threads that load (`main` in `filter_init`, the reload thread of the
configuration, the filter's own thread) and the workers' checks. A load goes list by list
under the write lock. The check of content types reads the count without the lock and
returns when it is 0, in the middle of a reload too (`AskEmpty`, `Return`); its
loop runs turn by turn over the static position of `strtok`; `shared` notes for the
properties which checks met another one there. `inforce` and `read` record the files a load
has read. The operator of the machine writes files in place or replaces them; only
the former keeps the watch. IPv6 masks go byte by byte, with `ByteBits` bits a byte.

Left out: `regexec` (a URL pattern is the set of URLs it matches) and the block page, a text
on which nothing depends.

### Tunnel

A worker looks up a certificate for the CONNECT host and again for the server name the
client sends, under `cert_cache_mutex`, then shakes hands, then pumps: `Poll` takes the
readable sides, `Forward` moves a record, `WriteRefused` is a full send buffer or a dead
peer, `Drained` ends a side's inner loop, `CheckRound` decides whether to go on. The
sockets are non-blocking; a record is its number and a send buffer has `SendRoom` places.
Peers send, read, close and reset at any time. `killed` is the process ended by SIGPIPE.
How the end server is reached, and what a failure to do so means, is in `ProxyServer`.

Left out: the contents of certificates, and records larger than the buffer (OpenSSL keeps
the rest, and the inner loop reads on until it is empty).

### Http2

One thread reads, runs the callbacks of nghttp2, steps each waiting stream once, writes,
and reads again; results of the peers' calls are chosen. A stream is the record
`http2_stream` reduced to flags, lengths and the state of its upstream connection. The
callbacks add a body chunk by chunk, and count `active_streams_count` as the code does. In
`http2_process_stream` every state and every error return is an action. `client`, `body`,
`submitted` and `got` record for the properties what has been sent and received.

Left out: what nghttp2 queues and when it sends it, flow control, and the text of headers.
`conn->lock` is never contended. `http2_backend.c` and `http2_stream.h` are built by no rule.

### Shutdown

Workers and `main` log (those of them in `Loggers`), workers and the admin thread enter the
sections that hold `g_metrics.lock` or `cert_cache_mutex`. A delivered signal (an element of `Signals`, SIGINT
or SIGTERM by `Signo`) interrupts one of them, or a handler, which then stands still, and
`handle_signal` runs on top with a position of its own: log, stop and join the admin
thread, free contexts and certificates, close the log, exit. `signal` blocks a signal on
the thread that handles it; the other one may nest there, and either may run on another
thread at the same time. `Join` has what `pthread_join` does with a second caller: EDEADLK
on the admin thread itself, EINVAL while another handler waits, and undefined behaviour
once the thread is joined; `FreeContexts` frees the contexts a second time for a second
handler. Undefined behaviour ends the process (`Crash`) or has no effect.

Logging is cut at the lock, rotation, rename, reopening and writing; a line is its number,
a file a sequence of lines. `rename` and `fopen` can fail, and the result of the first is
ignored: the full file is then opened again and grows beyond its size. `max_size`
multiplies in `int` as the code does.

Left out: the text of lines, metrics and answers; the locks inside libc (of `malloc`, of
the streams, of `localtime`), which a handler that is not async-signal-safe may wait for in
the same way as for those modelled; the second call of `exit`.

## Runs

| Run | Checks | Bounds |
|---|---|---|
| `cache_lru` | `TypeOK`; `Agreement` of list, chains and heap; `SizeAccounted`; `LruOrder`; `NewestFirst` for keys stored twice; `LockHeldInside` on every return of `AddCache`; `BoundedGrowth` within a limit in force since the eviction loop; `MaxAgeHonoured` | two workers, two keys of different lengths, three nodes, two sizes, two limits that a reload switches between, three instants, failing writes of the disk tier |
| `cache_api` | `Agreement`, `NoOrphanFiles` | all policies, `Cache_purge` and `Cache_clear` at any moment, colliding keys, responses with and without `max-age`, in memory, on disk and after a failed `write` or `mmap`, a directory that is new or has a file of an earlier run under a name used again, two nodes, two inodes, two instants |
| `server_pool` | `PermitConservation`, `OwnSocket`, `NoDescriptorLeak`, `GaugesCoverInFlight`, `WorkerEnds` | two connections, two slots, one permit, three descriptors, so that a worker waits and descriptors run out and are reused |
| `server_checks` | `CheckedBeforeServed`, `FetchAvoidsDenied` | two connections and one slot, so that the second overruns it, eight kinds of request, two versions of the lists |
| `relay` | `NoOverrun`, `BlockedBodyWithheld`, `BlockedNotCached` | all responses of up to seven bytes, chunks of one or two |
| `config_reload` | `UnsafeFieldsKept`, `NoLostUpdate`, `ChangeApplied` | two files, one of which is not valid, three command lines, three changes |
| `parser` | `TableInBounds`, `FreedOnce`, `ForwardedHeaders`, `UnparseFits`, `HeaderMapImplemented` | two requests, ten request lines, up to three header lines of seven forms, a table of two entries, so that it grows twice |
| `filter` | `VerdictExact`, `NoChangeLost`, `AuthExact` | two workers, two changes of files, IPv4 addresses of three bits, IPv6 addresses of two bytes of two bits in the usual and in another spelling, arrays of four entries and a file with five, a buffer of nine bytes and credentials of up to 12, leftovers of zeros, of a user's credential and without a NUL |
| `http2` | `CountCoversWaiting`, `UpstreamOwned`, `ExchangedOnce` | two streams, two descriptors, bodies of up to two bytes in up to two chunks, trailers |
| `tunnel` | `CertAgreement`, `NoGap`, `LastWordsDelivered`, `TunnelEnds` | two tunnels, one of them h2, three records from the client and one from the server, send buffers of one record |
| `shutdown` | `LogKept`, `SignalEnds` | one worker that logs and enters every section, the admin thread, `main` in `accept`, one SIGINT and one SIGTERM, files of one line, two lines, a level that lets the handlers' lines through (`InfoLogged`) |
| `cache_served` (a violation) | `ServedEntryLive` | two workers, two keys |

The bounds are enough for the cases named: two workers suffice for every race on one entry
or one lock, three nodes for a removal in the middle of a chain and of the list, three
changes for a change during the sleep, the parsing and the copying of an earlier one, three
records for one that is delivered, one that fills the buffer and one that is refused,
two lines for two rotations, and two signals for one that nests on the other, one on
another thread, a second join and a second freeing. The theorems below remove the bounds for every property of a
passing run but the four of liveness.

The types of `ProxyCache`, `ProxyServer`, `Tunnel` and `Http2` are proved as theorems of
their own, those of the other modules as parts of their inductive invariants.

Deadlock is checked for `ProxyCache` only. Elsewhere the system may stop: a process that has
ended, an exchange that is over, a thread that waits for an event that never comes.

### Fairness

- `WorkerEnds`: each worker that can move does, which includes that clients and end servers
  send or close in the end. The code has no timeouts, and without that assumption an idle
  tunnel keeps its permit for ever.
- `ChangeApplied`: `main` and the reload thread are scheduled; nothing of the editor.
- `TunnelEnds`: the pump is scheduled; nothing of the peers. This is why it speaks of a
  tunnel one of whose peers has left.
- `SignalEnds`: a thread that can get a mutex again and again gets it in the end (strong
  fairness of the steps that wait for one), sections are left, and a client of the admin
  server sends its request or closes. A signal that interrupts a section, of a thread or of
  another handler, is excepted: the handler then waits for what it stands on (below).

### Where the code and the repository disagree

`cache_served` shows an entry that is freed while another worker copies it; `findings` in
`PROJECT.json` quotes the lines. The actions have the following as the code does, and no run
is spent on them.

Cache, workers, relay:

- Two large responses of one bucket and one second share a cache file, and the second
  truncates what the first still maps (`cache.c` 256; `tests/test_cache.c` 28 expects the
  data stored): `Path`, `OpenInodes`.
- `max-age=0` is treated like a missing `max-age` and means an hour (`cache.c` 287;
  "Parse and respect max-age", `tickets/ticket005.md`): `Lifetime`.
- A failed `write` or `mmap` of the disk tier leaves its file behind (`cache.c` 262), and
  the files of an earlier run stay in the directory (`cache.c` 51-66), owned by no entry:
  `DiskWrite`, `Cache_init`; `NoOrphanFiles` counts both as `stray`.
- A reload that lowers the limit while `AddCache` writes its file leaves the cache above it
  until the next insertion (`cache.c` 239): `HotReload` at `link`; `BoundedGrowth` speaks of
  a limit that was in force after the eviction loop.
- Of a response stored under a key between a worker's look at an expired entry and its
  `Cache_purge`, the fresh one is dropped (`cache.c` 78): `FindCacheExpired`, `Cache_purge`.
- Connection `max_clients` + 1 uses a slot outside the array (`Main.c` 897; "Dynamic
  allocations based on loaded limits", `Main.c` 823): `SlotOverrun`; `OwnSocket` speaks of
  the connections before it.
- `sem_init` comes before the command line is applied, so the semaphore does not know of
  `--max-clients` (`Main.c` 762): `sem_permits` is a constant of its own.
- The early returns leave the gauges of active connections too high (`Main.c` 418):
  `EarlyExit`; `GaugesCoverInFlight` says that they are never too low.
- The result of `pthread_create` is ignored, and the connection stays open (`Main.c` 924):
  `ThreadFails`.
- "Do not relay any bytes" (`Main.c` 210) is stronger than what happens when the block is
  noticed in a later chunk of the header: the chunks before it have been sent. `Inspect`;
  `BlockedBodyWithheld` speaks of the body.
- A response whose connection broke is stored as if it were complete (`Main.c` 288):
  `Store`.
- When the loop noticed that a response is blocked, its block page is sent twice (`Main.c`
  255-256); `BlockPage` does not count the copies.
- The HTTP/3 listener is started whatever `enable_http3` says (`Main.c` 828; "Enable HTTP/3
  support", `config.c` 439). Not modelled.

Parser:

- `ParsedRequest_create` leaves `port` uninitialised (`proxy_parse.c` 277; "Create an empty
  parsing object", `proxy_parse.h` 60), so that a request without a port may connect to the
  port of an earlier one: `chunk`.
- A header line without a colon is joined with the next line into one key, and passed on
  (`proxy_parse.c` 235): `Key`.
- The NUL behind the printed headers is not counted and can lie one byte behind the buffer
  (`proxy_parse.c` 195): `UnparseFits` allows it.
- A failed `realloc` loses the table, and the next access ends the process: `Lost`, `Crash`.

Configuration, filter, authentication:

- A reload replaces values of the command line (`config.c` 825; "override all other
  sources", `tickets/ticket011.md` 19): `CopyField`; `UnsafeFieldsKept` speaks of the fields
  that are not reloaded.
- A reload copies values that `config_validate` refuses at startup (`config.c` 824-839):
  `CopyField`.
- The watch is placed again only after `IN_IGNORED`, once: a file moved away and written
  anew, or missing for longer than 100 ms, is not followed (`config.c` 802-809):
  `MoveFileAway`, `ReAddWatch`; `ChangeApplied` excepts it.
- A change between the first reading of the file and the first watch is not noticed
  (`Main.c` 753).
- Validation ignores the case of a level and the logger does not: `log_level = debug` is
  accepted and means INFO (`Main.c` 799): `LevelEnum`, `log_level_from_string`.
- `filter_reload` reads the files named at startup, not those the reload has copied
  (`filter.c` 272): `filter_reload`, `saved_cfg`.
- The address files are not watched, and a file that is replaced takes its watch with it
  (`filter.c` 241-248; "hot-reload on change", `tickets/ticket007.md` 20): `WatchedLists`,
  `ReplaceFile`; `NoChangeLost` speaks of files under a watch.
- `strtok` keeps its position in a static variable, and two workers that check a content
  type disturb each other (`filter.c` 413; "Returns true if the content type matches any in
  the blocklist", `filter.h` 22): `NextToken`; `VerdictExact` speaks of checks that met no
  other one.
- The count of content types is read without the lock and is 0 for a moment of a reload,
  between `filter.c` 171 and 180: a check at that moment lets a blocked type through, without
  another check running and without a change of the files (`filter.c` 407, `filter.h` 22):
  `AskEmpty`; `VerdictExact` speaks of checks with the lock, and of this one while no thread
  is loading.
- A base64 text that ends in `==` loses the third byte of every quad (`auth.c` 42-59), and an
  empty one leaves the buffer uninitialised, so that a credential left on the stack by an
  earlier call may be accepted (`auth.c` 44, 179-183): `b64decode`; `AuthExact` excepts both.
- A rule for an IPv6 address in another spelling than that of `inet_ntop` matches nothing,
  nor does an IPv6 prefix (`auth.c` 119, 132): `ip_matches`.
- CONNECT reaches addresses of the deny list, since the tunnel does not ask the filter
  (`tls_tunnel.c` 259): `Dial`.

Tunnel, HTTP/2, shutdown:

- SIGPIPE is neither ignored nor suppressed, so that a reset connection ends the process
  (`tls_tunnel.c` 357, `Main.c` 214-229): `BrokenPipe`, `killed`.
- A full send buffer ends the tunnel instead of being waited for (`tls_tunnel.c` 357):
  `WriteRefused`; `LastWordsDelivered` excepts it. An idle tunnel never ends
  (`tickets/ticket001.md` 32 asks for a timeout).
- With END_STREAM on its frame the first chunk completes a request, so that one that is
  read in two pieces is sent with a part of its body (`http2.c` 435, "This is the last data
  chunk"): `on_data_chunk_recv_callback`.
- `active_streams_count` counts chunks and frames, so that it is higher than the "number of
  streams that are request_complete and not response_complete" (`http2.c` 139):
  `CountCoversWaiting` says that it is never lower.
- A request without `:path` or `:authority` reaches `strlen` with a null pointer (`http2.c`
  719): `BuildCrashes`. A failed connect leaves the stream in `CONNECTING` for good (700):
  `ConnectError`. Streams are stepped only after the client has sent something (1014):
  `InputDone`.
- `nghttp2_session_mem_send` is called twice and the second result thrown away (605); the
  buffers of a response are freed while nghttp2 still reads them, and `payload->offset` is
  not initialised (868-907). Not modelled, as nghttp2's queue is not.
- A signal inside a critical section makes the handler wait for the thread, or the handler,
  it interrupted (`Main.c` 719): `Signal`; `SignalEnds` excepts it. With the admin server
  disabled the handler joins a thread that was never started (`admin.c` 182): `Init` has
  `admin = "none"` as one of its cases, and `Join` then ends in `crashed`. A second handler
  frees the TLS contexts again (`tls_tunnel.c` 173-186): `FreeContexts`.
- The result of `rename` is ignored, so that the log grows beyond `max_file_size_mb` when the
  backup cannot be written (`logger.c` 48): `Rename`.
- `max_file_size_mb * 1024 * 1024` is computed in `int`; from 2048 on every line rotates the
  log (`logger.c` 43): `max_size`; `LogKept` speaks of sizes that fit.

## Proofs

The theorems hold for every value of the constants that satisfies the assumptions next to
their declaration: any number of threads, connections, streams, tunnels, nodes and lines,
any sizes and limits. What the assumptions say of the program is that lengths, limits and
times are natural numbers, that what earlier runs left are names and inodes
(`DirectoryAssumption`), that `NULL` is none of the values it stands in for
(`NullAssumption`), that the names of worker threads are not those of the other threads
(`ShutdownAssumption`), and that the texts of `RequestParser` are closed under what the
parser and the worker put into the table (`TextAssumption`). In `Filter` no thread has the
name `NULL` (`FilterAssumption`); a line of an address file is blank, junk or an address of
its family's width with a number behind its slash, a line of the domain file is blank or a
name, and no content type is junk (`ContentsAssumption`); what workers ask about are
names, addresses and non-empty lists of tokens, and `tolower` makes nothing else a dot
(`QueryAssumption`); a user is a text that is not empty and has room for its NUL, as `auth_init`
keeps them (`UsersAssumption`).

Each invariant below is inductive; the property a run checks is a part or a consequence
of it.

- `ProxyCacheProofs`. `IInv`, types with `Agreement`, gives `CacheTypeCorrect` and
  `CacheAgreement`: unlinking a node is type-correct only for a node that is in the list
  and in its chain, and that is what `Agreement` says. `StepShape` then reduces every step
  to five: nothing, one node freed, one hit, one insertion, all cleared. On it rests
  `CacheInv`, which adds that lengths are not negative, that no entry was stored or used
  in the future, and that an entry expires its lifetime after it was stored. It gives
  `CacheLockHeld`, `CacheNewestFirst` (a new entry goes in front of entries that are not
  younger), and the action properties `CacheBoundedGrowth` and `CacheMaxAge`.
  `CacheLruOrder` assumes that LRU is the only policy ever set: after a hit under LFU or TTL
  the list is no longer ordered by last use. Nothing in the program sets another.
  `CacheBoundedGrowth` rests on what the job of a worker at `link` fits into: `CACHE_SIZE`
  changes only under `LOCK`, so the test passed at `room` still holds for the limit it read,
  which `in_force` has, though not for the one of the moment.
  `CacheNoOrphanFiles` has no hypothesis: failed writes and files of earlier runs are in it.
  `CacheSizeAccounted` is by `SizeInv`. The sum of the sizes is stated as the number
  of bytes the entries occupy, a set of pairs of a node and a place, so that freeing or
  inserting a node removes or adds a disjoint block of known cardinality and no induction
  over the entries is needed.
- `ProxyServerProofs`. `ServerTypeCorrect`. `PermitsConserved`, by an invariant that adds
  that connections not yet accepted are at `none`, with lemmas on the cardinality of a set
  that gains or loses one element. `OwnSocketAlways` and `DescriptorsNotLeaked`, by an
  invariant that ties slots, descriptors, owners and positions together for the first
  `max_clients` connections; beyond them the slots are outside the array and the property
  does not hold. `GaugesCover`, from the same invariant, since the family of a socket is
  read from the slot. `ServedOnlyChecked` and `FetchedOnlyAllowed`, by `CheckInv`, which
  says for each position of a worker which checks it has passed, and that only requests that
  parsed are in the cache: a request that did not parse reaches the lookup unchecked, and
  must not be found there.
- `ConfigProofs`: `UnsafeFieldsAlwaysKept`, by an invariant that names, for each point of
  `main`, the layers that the unsafe fields consist of; `NoUpdateLost`, by an invariant that
  says for a change of the watched file where it is on its way: queued as an event, about
  to be parsed, parsed and copied up to `copied`, or applied.
- `FilterProofs`, about the relay: `RelayNoOverrun`, `RelayBodyWithheld`,
  `RelayBlockedNotCached`. `RelayInv` relates `RESPONSE_LENGTH`, `RESPONSE_CAPACITY` and the
  allocation at each point of the loop, and says that what was streamed has been inspected.
- `FilterProofs`, about the filter. `FilterNoChangeLost`, by `ChangeInv`: a changed file is
  queued as an event, is still to be read by the filter's thread, or has been read, by
  whichever thread; and what was read is in force whenever nobody holds the write lock.
  `FilterVerdictExact` adds to it who holds the lock (`LockInv`: readers and a load exclude
  each other, and a worker that decides is a reader), what each list holds at each step of
  a load (`LoadedInv`), and how far the loop over the tokens has come as long as its worker
  is alone in it (`TokenInv`). The check that sees no content type and takes no lock is
  right outside of loads by `EmptyListExact`. A check that holds the lock then sees the lists of one
  load (`ReadingLists`), and what is left is that each lookup computes what the files say:
  `DomainExact` (a walk down the trie ends at a mark exactly for a listed name and what is
  below one), `Mask6Bits`, `BlockHolds` and `BlocksExact` (the masks of `parse_cidr`, byte by
  byte for IPv6, compare exactly the bits of the prefix), `TokenExact`. The theorem has the
  hypothesis `FilesFit`, that no list has more entries than its array: the entries behind the
  end are ignored, by design of the limits `MAX_IP_BLOCKS`, `MAX_URL_PATTERNS` and
  `MAX_CONTENT_TYPES`, and the answer is then not what the file says.
- `FilterProofs`, about authentication. `FilterAuthExact`: `MatchesExact` for the access list,
  whose reference `RuleNames` has the spelling of a rule in it as the code does; for
  credentials `DecodeExact`, that the buffer behind `b64decode` begins with the bytes that
  were encoded, by division and remainder on the 24 bits of a quad (`BytesOf`, `DigitsOf`,
  `QuadExact`), with a NUL behind them when there is room, and `SameTextExact`, that a buffer
  without one is no user's text, whatever is left of the stack in it. The exceptions are
  those of the property. Its hypothesis `CredentialsAreText` says that a credential has no
  NUL, which `strcmp` stops at. `MCFilter` has TLC evaluate both hypotheses on the instance of
  the run.
- `TunnelProofs`: `TunnelTypeCorrect`; `CertsAgree`, by `CertInv` (the mutex belongs to the
  worker that searches or inserts, the list has one certificate for a name, and none for
  the name of a worker about to insert); `TunnelNoGap` and `TunnelLastWords`, by `PumpInv`,
  which says of each direction that what was delivered and what is still to be read are
  the records sent, in order, and that a side counts as ended only when nothing is left
  to read from it.
- `Http2Proofs`: `Http2TypeCorrect`, `Http2CountCovers`, `Http2UpstreamOwned` and
  `Http2ExchangedOnce`, by `Http2Inv`: descriptors and streams correspond one to one, a
  stream in `INIT` has none, the end server has received as many bytes as the stream
  believes it has sent, and nothing was submitted before the header was complete.
- `RequestParserProofs`: `ParserTableInBounds`, `ParserFreedOnce`, `ParserForwardedHeaders`,
  and `ParserIsHeaderMap`, the refinement of `HeaderMap`. The core of `ParserInv` is that no
  key is twice in the table: `ParsedHeader_set` removes before it adds. The match that
  `ParsedHeader_get` stops at is then the only one, so that removing it removes the key and
  the table is a map. Without it, get after remove would find a second entry.
  `ParserUnparseFits`, by `FitInv`, which adds that an entry with a key has a value; lengths
  are added up as sets of bytes, as in `CacheSizeAccounted`, and what is printed is a subset
  of what is counted.
- `ShutdownProofs`: `ShutdownLocksHeld` and `ShutdownLogKept`, for any number of signals, by
  `ShutdownInv`: an actor is at a place of a section exactly while it holds the lock of the
  section, the frames of the handlers on top of interrupted threads and of one another
  included; a handler whose signal has not come is at none; the file is closed exactly
  during a rotation; and file and backup hold a run of lines that ends with the last one
  kept. A renaming that fails keeps the run, and so does one that succeeds, for the file it
  moves is full.

Only model-checked:

- `WorkerEnds`, `ChangeApplied`, `TunnelEnds` and `SignalEnds`: liveness under fairness, which
  the prover does not reason about.
- The violation of `cache_served`, which is a counterexample.

What a definition computes is proved where it is written without recursion: sums as
cardinalities, tries and lists as sets and functions, base64 digits by position. Folds and
recursive functions would need an induction over data, which is out of the provers' reach.

## Plan

Done: all modules above, and a theorem for every safety property that a passing run checks.
What is left is outside of what TLC and TLAPS show here: the liveness properties for every
instance; and two hazards without a property, because the code does not rule them out: the
cache files that share a name (`cache.c` 256) and the answer that waits for a quiet client of
HTTP/2 (`http2.c` 1014).

## Not modelled

- HTTP/3 (`http3.c`): a placeholder that answers every stream with a fixed text ("full proxy
  not fully implemented here yet", line 260). It creates its connections in the client role
  and without a TLS object (215-218), so that what follows is decided inside quiche.
- nghttp2's queue, flow control and frames; the cryptography of OpenSSL; `regexec`.
- Characters a branch does not look at, formatting, `config_print`, the texts of the block
  page, of the log and of the admin server's answers, and counters that only grow.
- Functions nothing calls (`proxy_parse.c` 300-313, 332-337 and what only they use), `http2_backend.c`,
  `http2_stream.h`, and the test programs.
