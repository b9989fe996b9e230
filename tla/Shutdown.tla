------------------------------ MODULE Shutdown ------------------------------
(***************************************************************************)
(* The end of the process and what it meets: the signal handler of Main.c, *)
(* which runs on top of whatever thread, or handler, a signal interrupts,  *)
(* logs, stops the admin server, frees the certificates and closes the     *)
(* log; the logger with its rotation, the admin server's thread, and the   *)
(* sections of the other threads that hold a lock one of them needs        *)
(* (logger.c, admin.c, metrics.c and the certificate cache of              *)
(* tls_tunnel.c).                                                          *)
(*                                                                         *)
(* The handler serves SIGINT and SIGTERM.  A signal is blocked on a thread *)
(* as long as its own handler runs there; another one nests, and any       *)
(* signal may be delivered to another thread.                              *)
(*                                                                         *)
(* A line of the log is its number; a log file is the sequence of its      *)
(* lines, and its size the number of them.                                 *)
(***************************************************************************)
EXTENDS Integers, Sequences, FiniteSets, SequencesExt

CONSTANTS
  Workers,        \* threads of workers; "main" and "admin" run as well
  Loggers,        \* bound: which of the workers and "main" log
  Signals,        \* bound: the deliveries of a signal
  Signo,          \* SIGINT or SIGTERM, for each of them
  InfoLogged,     \* whether the level, which reloads change, lets a handler's line through
  rotation_enabled,
  max_file_size_mb,
  MbLines,        \* the size of a megabyte (1024 * 1024), in lines
  IntRange,       \* the number of values of an int (2^32)
  MaxLines,       \* bound: lines logged
  NULL

ASSUME ShutdownAssumption ==
  /\ Workers \cap {"main", "admin"} = {} /\ Loggers \subseteq Workers \cup {"main"}
  /\ Signals \cap (Workers \cup {"main", "admin"}) = {}
  /\ Signo \in [Signals -> {"SIGINT", "SIGTERM"}]
  /\ rotation_enabled \in BOOLEAN /\ InfoLogged \subseteq BOOLEAN
  /\ {max_file_size_mb, MbLines, IntRange} \subseteq Nat \ {0} /\ MaxLines \in Nat

Threads == Workers \cup {"main", "admin"}

\* A handler has a stack frame of its own, above what the signal interrupts, and is
\* named by its signal.
Actors == Threads \cup Signals

\* rotate_log_if_needed multiplies in int before it widens the product.
max_size ==
  LET product == (max_file_size_mb * MbLines) % IntRange
  IN  IF 2 * product >= IntRange THEN product - IntRange ELSE product

Locks == {"g_log_mutex", "g_metrics.lock", "cert_cache_mutex"}

VARIABLES
  holder,         \* who holds each lock
  step,           \* what each actor is doing: NULL, or a section and its place in it
  g_log_fp,       \* "open", "closed" (a pointer to a closed file) or NULL
  log_file,       \* the lines of the file, and of its backup
  backup,
  logged,         \* lines logged so far
  kept,           \* ghost: of these, the last one that went to a file
  admin,          \* where the admin thread is
  g_admin_running,
  listening,      \* g_admin_socket is open
  interrupted,    \* the thread, or handler, a signal interrupted
  thread,         \* the thread it was delivered to
  handler,        \* where its handle_signal is
  joiner,         \* the handler that has the admin thread joined
  certs,          \* the TLS contexts and certificates are there
  exited

logger == <<g_log_fp, log_file, backup, logged, kept>>
adminvars == <<admin, g_admin_running, listening>>
frames == <<interrupted, thread>>
vars == <<holder, step, logger, adminvars, frames, handler, joiner, certs, exited>>

LogSteps == {"lock", "rotate", "rename", "reopen", "write", "close"}

\* NULL is no thread, and no place inside a section or state of the file.
ASSUME NullAssumption ==
  NULL \notin Actors \cup LogSteps \cup {"metrics", "certs", "freecerts", "open", "closed"}

\* The values the variables range over.
TypeOK ==
  /\ holder \in [Locks -> Actors \cup {NULL}]
  /\ step \in [Actors -> {NULL, "metrics", "certs", "freecerts"} \cup LogSteps]
  /\ g_log_fp \in {"open", "closed", NULL}
  /\ log_file \in Seq(Nat) /\ backup \in Seq(Nat)
  /\ logged \in 0..MaxLines /\ kept \in 0..logged
  /\ admin \in {"none", "check", "accept", "enter", "recv", "export", "leave", "ended"}
  /\ {g_admin_running, listening, certs, exited} \subseteq BOOLEAN
  /\ interrupted \in [Signals -> Actors \cup {NULL}]
  /\ thread \in [Signals -> Threads \cup {NULL}]
  /\ handler \in [Signals -> {"none", "log", "join", "joining", "free", "certs", "close",
                              "exit", "crashed"}]
  /\ joiner \in Signals \cup {NULL}

Init ==
  /\ holder = [l \in Locks |-> NULL] /\ step = [a \in Actors |-> NULL]
  /\ g_log_fp \in {"open", NULL} /\ log_file = <<>> /\ backup = <<>>
  /\ logged = 0 /\ kept = 0
  /\ admin \in {"check", "none"}                   \* enable_admin or not
  /\ g_admin_running = (admin = "check") /\ listening = g_admin_running
  /\ interrupted = [s \in Signals |-> NULL] /\ thread = interrupted
  /\ handler = [s \in Signals |-> "none"] /\ joiner = NULL
  /\ certs = TRUE /\ exited = FALSE

-----------------------------------------------------------------------------
(* Sections of the threads.  What is interrupted stands still: the handler *)
(* above it never returns.                                                 *)

Suspended(a) == \E s \in Signals : interrupted[s] = a

Runs(a) == ~exited /\ ~Suspended(a)

Do(a, s) == step' = [step EXCEPT ![a] = s]

Acquire(l, a) == holder[l] = NULL /\ holder' = [holder EXCEPT ![l] = a]

Release(l) == holder' = [holder EXCEPT ![l] = NULL]

\* logger_log and logger_access_log, of a thread with nothing else in hand; the
\* admin thread does not log.
Log(t) ==
  /\ Runs(t) /\ step[t] = NULL /\ logged < MaxLines
  /\ Do(t, "lock")
  /\ UNCHANGED <<holder, logger, adminvars, frames, handler, joiner, certs, exited>>

LogLock(a) ==
  /\ Runs(a) /\ step[a] = "lock"
  /\ Acquire("g_log_mutex", a)
  /\ Do(a, IF a \in Signals /\ handler[a] = "close" THEN "close" ELSE "rotate")
  /\ UNCHANGED <<logger, adminvars, frames, handler, joiner, certs, exited>>

\* rotate_log_if_needed: a full file is closed, becomes the backup, and a new
\* one is opened, or cannot be.
Rotate(a) ==
  /\ Runs(a) /\ step[a] = "rotate"
  /\ IF rotation_enabled /\ g_log_fp # NULL /\ Len(log_file) >= max_size
     THEN g_log_fp' = "closed" /\ Do(a, "rename")
     ELSE UNCHANGED g_log_fp /\ Do(a, "write")
  /\ UNCHANGED <<holder, log_file, backup, logged, kept, adminvars, frames, handler,
                 joiner, certs, exited>>

\* Fault for Rename: the full file is emptied instead.
RenameTruncates(a) ==
  /\ Runs(a) /\ step[a] = "rename"
  /\ log_file' = <<>>
  /\ Do(a, "reopen")
  /\ UNCHANGED <<holder, backup, g_log_fp, logged, kept, adminvars, frames, handler,
                 joiner, certs, exited>>

\* What rename returns is ignored: when it fails, the full file is opened again.
Rename(a) ==
  /\ Runs(a) /\ step[a] = "rename"
  /\ \/ backup' = log_file /\ log_file' = <<>>
     \/ UNCHANGED <<backup, log_file>>
  /\ Do(a, "reopen")
  /\ UNCHANGED <<holder, g_log_fp, logged, kept, adminvars, frames, handler, joiner,
                 certs, exited>>

\* fopen appends to a file that is there.
Reopen(a) ==
  /\ Runs(a) /\ step[a] = "reopen"
  /\ g_log_fp' \in {"open", NULL}
  /\ Do(a, "write")
  /\ UNCHANGED <<holder, log_file, backup, logged, kept, adminvars, frames, handler,
                 joiner, certs, exited>>

\* The line is written to the file there is, and the lock given back.
WriteLine(a) ==
  /\ Runs(a) /\ step[a] = "write"
  /\ logged' = IF logged < MaxLines THEN logged + 1 ELSE logged
  /\ IF g_log_fp = "open" /\ logged < MaxLines
     THEN log_file' = Append(log_file, logged + 1) /\ kept' = logged + 1
     ELSE UNCHANGED <<log_file, kept>>
  /\ Release("g_log_mutex")
  /\ Do(a, NULL)
  /\ UNCHANGED <<g_log_fp, backup, adminvars, frames, handler, joiner, certs, exited>>

\* A worker counts something, or looks a certificate up.
Section(w, s) ==
  /\ Runs(w) /\ step[w] = NULL
  /\ Acquire(IF s = "metrics" THEN "g_metrics.lock" ELSE "cert_cache_mutex", w)
  /\ Do(w, s)
  /\ UNCHANGED <<logger, adminvars, frames, handler, joiner, certs, exited>>

EndSection(a) ==
  /\ Runs(a) /\ step[a] \in {"metrics", "certs"}
  /\ Release(IF step[a] = "metrics" THEN "g_metrics.lock" ELSE "cert_cache_mutex")
  /\ Do(a, NULL)
  /\ UNCHANGED <<logger, adminvars, frames, handler, joiner, certs, exited>>

-----------------------------------------------------------------------------
(* admin_thread_func *)

AdminGoes(s) == admin' = s /\ UNCHANGED <<g_admin_running, listening>>

AdminFree == Runs("admin") /\ step["admin"] = NULL

AdminCheck ==
  /\ AdminFree /\ admin = "check"
  /\ AdminGoes(IF g_admin_running THEN "accept" ELSE "ended")
  /\ UNCHANGED <<holder, step, logger, frames, handler, joiner, certs, exited>>

\* accept fails once the socket is closed.
AdminAcceptFails ==
  /\ AdminFree /\ admin = "accept" /\ ~listening
  /\ AdminGoes("check")
  /\ UNCHANGED <<holder, step, logger, frames, handler, joiner, certs, exited>>

\* A client connects (external).
AdminAccept ==
  /\ AdminFree /\ admin = "accept" /\ listening
  /\ AdminGoes("enter")
  /\ UNCHANGED <<holder, step, logger, frames, handler, joiner, certs, exited>>

\* The gauges on the way in and out, and metrics_export_prometheus for /metrics
\* and /status: each takes the lock of the metrics.
AdminMetrics ==
  /\ AdminFree /\ admin \in {"enter", "export", "leave"}
  /\ Acquire("g_metrics.lock", "admin")
  /\ Do("admin", "metrics")
  /\ AdminGoes(CASE admin = "enter" -> "recv"
                 [] admin = "export" -> "leave"
                 [] admin = "leave" -> "check")
  /\ UNCHANGED <<logger, frames, handler, joiner, certs, exited>>

\* handle_admin_request: the client sends a request, which asks for the metrics
\* or does not (/health, an unknown path, no request line, no memory), or closes.
AdminRequest(asks) ==
  /\ AdminFree /\ admin = "recv"
  /\ AdminGoes(IF asks THEN "export" ELSE "leave")
  /\ UNCHANGED <<holder, step, logger, frames, handler, joiner, certs, exited>>

-----------------------------------------------------------------------------
(* handle_signal *)

\* A signal is delivered to any thread that does not handle the same one, and
\* interrupts its topmost frame.  The handler's line is below the level, or logged.
Signal(s, a) ==
  /\ handler[s] = "none" /\ Runs(a)
  /\ a \in Signals => handler[a] # "none"
  /\ a = "admin" => admin \notin {"none", "ended"}
  /\ LET t == IF a \in Signals THEN thread[a] ELSE a
     IN  /\ \A r \in Signals : thread[r] = t => Signo[r] # Signo[s]
         /\ thread' = [thread EXCEPT ![s] = t]
  /\ interrupted' = [interrupted EXCEPT ![s] = a]
  /\ handler' = [handler EXCEPT ![s] = "log"]
  /\ \E logs \in InfoLogged : Do(s, IF logs THEN "lock" ELSE NULL)
  /\ UNCHANGED <<holder, logger, adminvars, joiner, certs, exited>>

Handled(s, stage) == Runs(s) /\ handler[s] = stage /\ step[s] = NULL

HandlerGoes(s, stage) == handler' = [handler EXCEPT ![s] = stage]

\* Undefined behaviour ends the process here, or has no effect.
Crash(s) == HandlerGoes(s, "crashed") /\ exited' = TRUE

\* Fault for admin_server_stop: the flag is not reset.
admin_server_stop_runs(s) ==
  /\ Handled(s, "log")
  /\ listening' = FALSE
  /\ HandlerGoes(s, "join")
  /\ UNCHANGED <<g_admin_running, holder, step, logger, admin, frames, joiner, certs, exited>>

\* The line is logged; admin_server_stop resets the flag, shuts the socket down
\* and closes it, when it is still open.
admin_server_stop(s) ==
  /\ Handled(s, "log")
  /\ g_admin_running' = FALSE /\ listening' = FALSE
  /\ HandlerGoes(s, "join")
  /\ UNCHANGED <<holder, step, logger, admin, frames, joiner, certs, exited>>

\* pthread_join: it is this thread (EDEADLK), or another handler joins it (EINVAL) or
\* has joined it already (undefined), or it was never started and the join dereferences
\* a thread that is not there.
Join(s) ==
  /\ Handled(s, "join")
  /\ \/ /\ admin = "none"
        /\ Crash(s) /\ UNCHANGED joiner
     \/ /\ admin # "none" /\ thread[s] # "admin" /\ joiner = NULL
        /\ joiner' = s
        /\ HandlerGoes(s, "joining") /\ UNCHANGED exited
     \/ /\ admin # "none" /\ (thread[s] = "admin" \/ joiner # NULL)
        /\ HandlerGoes(s, "free") /\ UNCHANGED <<joiner, exited>>
     \/ /\ admin # "none" /\ thread[s] # "admin"
        /\ joiner # NULL /\ handler[joiner] # "joining"
        /\ Crash(s) /\ UNCHANGED joiner
  /\ UNCHANGED <<holder, step, logger, adminvars, frames, certs>>

Joined(s) ==
  /\ Handled(s, "joining") /\ admin = "ended"
  /\ HandlerGoes(s, "free")
  /\ UNCHANGED <<holder, step, logger, adminvars, frames, joiner, certs, exited>>

\* CleanupOpenSSL frees the contexts, then the list under its lock; it keeps the
\* pointers to the contexts, so a second handler frees them again (undefined).
FreeContexts(s) ==
  /\ Handled(s, "free")
  /\ \/ HandlerGoes(s, "certs") /\ UNCHANGED exited
     \/ ~certs /\ Crash(s)
  /\ certs' = FALSE
  /\ UNCHANGED <<holder, step, logger, adminvars, frames, joiner>>

LockCerts(s) ==
  /\ Handled(s, "certs")
  /\ Acquire("cert_cache_mutex", s)
  /\ Do(s, "freecerts")
  /\ UNCHANGED <<logger, adminvars, frames, handler, joiner, certs, exited>>

FreeCerts(s) ==
  /\ Runs(s) /\ step[s] = "freecerts"
  /\ Release("cert_cache_mutex")
  /\ Do(s, "lock")
  /\ HandlerGoes(s, "close")
  /\ UNCHANGED <<logger, adminvars, frames, joiner, certs, exited>>

\* logger_shutdown.
logger_shutdown(s) ==
  /\ Runs(s) /\ step[s] = "close"
  /\ g_log_fp' = NULL
  /\ Release("g_log_mutex")
  /\ Do(s, NULL)
  /\ HandlerGoes(s, "exit")
  /\ UNCHANGED <<log_file, backup, logged, kept, adminvars, frames, joiner, certs, exited>>

Exit(s) ==
  /\ Handled(s, "exit")
  /\ exited' = TRUE
  /\ UNCHANGED <<holder, step, logger, adminvars, frames, handler, joiner, certs>>

-----------------------------------------------------------------------------
LogStep(a) ==
  LogLock(a) \/ Rotate(a) \/ Rename(a) \/ Reopen(a) \/ WriteLine(a)

AdminStep == AdminCheck \/ AdminAcceptFails \/ AdminMetrics \/ EndSection("admin")

HandlerStep(s) ==
  \/ LogStep(s)
  \/ admin_server_stop(s) \/ Join(s) \/ Joined(s)
  \/ FreeContexts(s) \/ LockCerts(s) \/ FreeCerts(s)
  \/ logger_shutdown(s) \/ Exit(s)

Next ==
  \/ \E t \in Loggers : Log(t) \/ LogStep(t)
  \/ \E w \in Workers : Section(w, "metrics") \/ Section(w, "certs") \/ EndSection(w)
  \/ AdminStep \/ AdminAccept \/ \E asks \in BOOLEAN : AdminRequest(asks)
  \/ \E s \in Signals : HandlerStep(s) \/ \E a \in Actors : Signal(s, a)

Spec == Init /\ [][Next]_vars

\* A thread inside a section goes on, a waiter gets a lock that is free again and
\* again, and a client of the admin server sends something or closes.
FairSpec ==
  /\ Spec
  /\ \A t \in Workers \cup Loggers : SF_vars(LogStep(t) \/ EndSection(t))
  /\ SF_vars(AdminStep) /\ \A s \in Signals : SF_vars(HandlerStep(s))
  /\ WF_vars(\E asks \in BOOLEAN : AdminRequest(asks))

-----------------------------------------------------------------------------
(* Properties *)

\* Rotation keeps the log: no line is written to a file that was closed, whatever
\* failed renaming, failed reopening or logger_shutdown came before it, and the file and
\* its backup hold the last lines written, in order, without a gap, and at least as many
\* as one file holds, for every size whose bytes fit an int (logger.c 38-53, 76-86,
\* 104-125).
LogKept ==
  LET all == backup \o log_file
      n == Len(all)
      size == max_file_size_mb * MbLines
  IN  /\ \A a \in Actors : step[a] = "write" => g_log_fp # "closed"
      /\ 2 * size < IntRange =>
           /\ \A i \in 1..(n - 1) : all[i + 1] = all[i] + 1
           /\ n > 0 => all[n] = kept
           /\ n >= (IF kept < size THEN kept ELSE size)

\* An actor inside a section that holds a lock.
Inside(a) == \E l \in Locks : holder[l] = a

\* The process ends after a signal, as long as no signal interrupts a thread, or a
\* handler, inside one of its sections: a handler gets its locks, the admin thread sees
\* the flag and the handler gets past the join, even when a signal interrupts the admin
\* thread itself, or a second one comes while the first is handled, on the same thread
\* or another (Main.c 719-730, admin.c 91-113, 175-183).
SignalEnds ==
  (\E s \in Signals : handler[s] = "log")
    ~> (exited \/ \E a \in Actors : Suspended(a) /\ Inside(a))
=============================================================================
