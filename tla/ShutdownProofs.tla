--------------------------- MODULE ShutdownProofs ---------------------------
(***************************************************************************)
(* Proofs about Shutdown, for any workers, size of the log file and number  *)
(* of lines, with any number of signals at any moments: a lock is held      *)
(* exactly inside its sections, no line is written to a closed file and     *)
(* rotation loses none.                                                     *)
(***************************************************************************)
EXTENDS Shutdown, SequenceTheorems, TLAPS

-----------------------------------------------------------------------------
(* The inductive invariant *)

\* The places inside g_log_mutex.
Held == {"rotate", "rename", "reopen", "write", "close"}

\* An actor is at one of them exactly while it holds the lock.
MutexInv == \A a \in Actors : step[a] \in Held <=> holder["g_log_mutex"] = a

\* The same of the lock of the metrics and of that of the certificates.
OthersInv ==
  \A a \in Actors :
    /\ step[a] = "metrics" <=> holder["g_metrics.lock"] = a
    /\ step[a] \in {"certs", "freecerts"} <=> holder["cert_cache_mutex"] = a

\* The file is closed exactly during a rotation, a rotation begins with a full file, and
\* every line was kept as long as there is a file.
FileInv ==
  /\ g_log_fp = "closed" => \E a \in Actors : step[a] \in {"rename", "reopen"}
  /\ g_log_fp # NULL => kept = logged
  /\ \A a \in Actors :
       /\ step[a] \in {"rename", "reopen"} => g_log_fp = "closed"
       /\ step[a] = "rename" => Len(log_file) >= max_size

size == max_file_size_mb * MbLines

\* A sequence of consecutive numbers that ends with m.
Run(s, m) ==
  /\ \A i \in 1 .. (Len(s) - 1) : s[i + 1] = s[i] + 1
  /\ Len(s) > 0 => s[Len(s)] = m

\* The files hold the last lines kept, at least as many as one file holds.
ContentInv ==
  2 * size < IntRange =>
    /\ Run(backup \o log_file, kept)
    /\ Len(backup \o log_file) >= (IF kept < size THEN kept ELSE size)

\* A handler's frame is empty until its signal.
HandlerInv == \A s \in Signals : handler[s] = "none" => step[s] = NULL

LoggerInv == TypeOK /\ HandlerInv /\ MutexInv /\ FileInv /\ ContentInv

ShutdownInv == LoggerInv /\ OthersInv

-----------------------------------------------------------------------------
(* Numbers and sequences *)

\* A number below the modulus is its own remainder.
LEMMA SmallRemainder ==
  ASSUME NEW x \in Nat, NEW n \in Nat, x < n
  PROVE  x % n = x
OBVIOUS

\* The size in lines, and what the int of rotate_log_if_needed makes of it: the same
\* when twice of it fits.
LEMMA SizeFacts ==
  /\ size \in Nat /\ size > 0 /\ max_size \in Int
  /\ 2 * size < IntRange => max_size = size
<1>1. max_file_size_mb \in Nat /\ MbLines \in Nat /\ IntRange \in Nat
      /\ max_file_size_mb > 0 /\ MbLines > 0 /\ IntRange > 0
  BY ShutdownAssumption
<1>2. size \in Nat /\ size > 0
  BY <1>1 DEF size
<1> DEFINE product == size % IntRange
<1>3. product \in Nat
  BY <1>1, <1>2
<1>4. max_size = IF 2 * product >= IntRange THEN product - IntRange ELSE product
  BY DEF max_size, size
<1>5. ASSUME 2 * size < IntRange
      PROVE  product = size
  BY <1>1, <1>2, <1>5, SmallRemainder
<1> HIDE DEF product
<1>6. max_size \in Int
  BY <1>1, <1>3, <1>4
<1> QED
  BY <1>1, <1>2, <1>3, <1>4, <1>5, <1>6

\* A run goes on with the next number.
LEMMA RunAppend ==
  ASSUME NEW s \in Seq(Nat), NEW m \in Nat, Run(s, m)
  PROVE  Run(Append(s, m + 1), m + 1)
<1> DEFINE t == Append(s, m + 1)
           n == Len(s)
<1>1. t \in Seq(Nat) /\ Len(t) = n + 1 /\ t[n + 1] = m + 1
      /\ \A i \in 1 .. n : t[i] = s[i]
  BY AppendProperties
<1>2. n \in Nat
  BY LenProperties
<1>3. (\A i \in 1 .. (n - 1) : s[i + 1] = s[i] + 1) /\ (n > 0 => s[n] = m)
  BY DEF Run
<1> HIDE DEF t, n
<1>4. ASSUME NEW i \in 1 .. n
      PROVE  t[i + 1] = t[i] + 1
  <2>1. CASE i = n
    BY <1>1, <1>2, <1>3, <2>1
  <2>2. CASE i # n
    <3>1. i \in 1 .. (n - 1) /\ i + 1 \in 1 .. n
      BY <1>2, <2>2
    <3> QED
      BY <3>1, <1>1, <1>3
  <2> QED
    BY <2>1, <2>2
<1>5. Len(t) - 1 = n /\ t[Len(t)] = m + 1
  BY <1>1, <1>2
<1> QED
  BY <1>4, <1>5 DEF Run, t

\* What is appended to the file is appended to backup and file.
LEMMA AppendBehind ==
  ASSUME NEW b \in Seq(Nat), NEW t \in Seq(Nat), NEW m \in Nat
  PROVE  b \o Append(t, m) = Append(b \o t, m)
<1>1. <<m>> \in Seq(Nat) /\ b \o t \in Seq(Nat)
  BY ConcatProperties
<1>2. Append(t, m) = t \o <<m>> /\ Append(b \o t, m) = (b \o t) \o <<m>>
  BY <1>1, AppendIsConcat
<1>3. (b \o t) \o <<m>> = b \o (t \o <<m>>)
  BY <1>1, ConcatAssociative
<1> QED
  BY <1>2, <1>3

\* The second part of a run is one.
LEMMA RunSuffix ==
  ASSUME NEW b \in Seq(Nat), NEW s \in Seq(Nat), NEW m, Run(b \o s, m)
  PROVE  Run(s, m)
<1> DEFINE t == b \o s
           p == Len(b)
           n == Len(s)
<1>1. Len(t) = p + n /\ \A j \in 1 .. n : t[p + j] = s[j]
  <2>1. \A j \in 1 .. (p + n) : t[j] = IF j <= p THEN b[j] ELSE s[j - p]
    BY ConcatProperties
  <2>2. p \in Nat /\ n \in Nat
    BY LenProperties
  <2>3. Len(t) = p + n
    BY ConcatProperties
  <2> HIDE DEF t, p, n
  <2>4. ASSUME NEW j \in 1 .. n
        PROVE  t[p + j] = s[j]
    <3>1. p + j \in 1 .. (p + n) /\ ~(p + j <= p) /\ (p + j) - p = j
      BY <2>2
    <3> QED
      BY <3>1, <2>1
  <2> QED
    BY <2>3, <2>4
<1>2. p \in Nat /\ n \in Nat
  BY LenProperties
<1>3. (\A i \in 1 .. (Len(t) - 1) : t[i + 1] = t[i] + 1) /\ (Len(t) > 0 => t[Len(t)] = m)
  BY DEF Run
<1> HIDE DEF t, p, n
<1>4. ASSUME NEW i \in 1 .. (n - 1)
      PROVE  s[i + 1] = s[i] + 1
  <2>1. i \in 1 .. n /\ i + 1 \in 1 .. n /\ p + i \in 1 .. (Len(t) - 1)
        /\ (p + i) + 1 = p + (i + 1)
    BY <1>1, <1>2
  <2>2. t[(p + i) + 1] = t[p + i] + 1
    BY <2>1, <1>3
  <2> QED
    BY <2>1, <2>2, <1>1
<1>5. ASSUME n > 0
      PROVE  s[n] = m
  <2>1. n \in 1 .. n /\ Len(t) > 0
    BY <1>1, <1>2, <1>5
  <2> QED
    BY <2>1, <1>1, <1>3
<1> QED
  BY <1>4, <1>5 DEF Run, n

-----------------------------------------------------------------------------
(* Steps outside the logger *)

\* A step that changes neither the logger, nor its lock, nor who is inside.
Elsewhere ==
  /\ UNCHANGED logger
  /\ holder'["g_log_mutex"] = holder["g_log_mutex"]
  /\ \A a \in Actors : step'[a] = step[a] \/ (step[a] \notin Held /\ step'[a] \notin Held)

\* Such a step keeps the invariant of the logger.
LEMMA ElsewhereInv ==
  ASSUME MutexInv, FileInv, ContentInv, Elsewhere
  PROVE  MutexInv' /\ FileInv' /\ ContentInv'
<1>1. MutexInv'
  BY DEF MutexInv, Elsewhere
<1>2. \A a \in Actors : step'[a] \in Held <=> step[a] \in Held
  BY DEF Elsewhere
<1>3. \A a \in Actors : step[a] \in Held \/ step'[a] \in Held => step'[a] = step[a]
  BY DEF Elsewhere
<1>4. FileInv'
  <2>1. UNCHANGED <<g_log_fp, log_file, kept, logged>>
    BY DEF Elsewhere, logger
  <2>2. \A a \in Actors, p \in {"rename", "reopen", "write"} : step'[a] = p <=> step[a] = p
    BY <1>3 DEF Held
  <2>3. \A a \in Actors : step'[a] \in {"rename", "reopen"} <=> step[a] \in {"rename", "reopen"}
    BY <2>2
  <2> QED
    BY <2>1, <2>2, <2>3 DEF FileInv
<1>5. ContentInv'
  BY DEF ContentInv, Elsewhere, logger
<1> QED
  BY <1>1, <1>4, <1>5

\* NULL is none of the places of a step.
LEMMA NullIsNoPlace ==
  /\ NULL \notin Held
  /\ NULL # "open" /\ NULL # "closed"
  /\ \A a \in Actors : a # NULL
BY NullAssumption DEF Held, LogSteps

\* Threads and handlers are actors, and no thread is a handler.
LEMMA ActorsAre ==
  /\ "admin" \in Actors
  /\ \A t \in Workers \cup Loggers : t \in Actors /\ t \in Threads
  /\ \A t \in Threads : t \in Actors /\ t \notin Signals
  /\ \A s \in Signals : s \in Actors
BY ShutdownAssumption DEF Actors, Threads

\* The steps of the threads outside the logger.
LEMMA ThreadSteps ==
  ASSUME LoggerInv,
         \/ \E t \in Loggers : Log(t)
         \/ \E w \in Workers : Section(w, "metrics") \/ Section(w, "certs") \/ EndSection(w)
  PROVE  LoggerInv'
<1> USE DEF logger, adminvars, frames, Do
<1>1. /\ holder \in [Locks -> Actors \cup {NULL}]
      /\ step \in [Actors -> {NULL, "metrics", "certs", "freecerts"} \cup LogSteps]
  BY DEF LoggerInv, TypeOK
<1>2. PICK a \in Actors, s \in {NULL, "lock", "metrics", "certs"} :
        /\ a \notin Signals
        /\ step[a] \in {NULL, "metrics", "certs"} /\ step' = [step EXCEPT ![a] = s]
        /\ \/ UNCHANGED holder
           \/ \E l \in {"g_metrics.lock", "cert_cache_mutex"}, h \in Actors \cup {NULL} :
                holder' = [holder EXCEPT ![l] = h]
        /\ UNCHANGED <<logger, adminvars, frames, handler, joiner, certs, exited>>
  <2>1. ASSUME NEW t \in Loggers, Log(t)
        PROVE  /\ step[t] = NULL /\ step' = [step EXCEPT ![t] = "lock"]
               /\ UNCHANGED <<holder, logger, adminvars, frames, handler, joiner, certs, exited>>
    BY <2>1 DEF Log
  <2>2. ASSUME NEW w \in Workers, NEW s \in {"metrics", "certs"}, Section(w, s)
        PROVE  /\ step[w] = NULL /\ step' = [step EXCEPT ![w] = s]
               /\ \E l \in {"g_metrics.lock", "cert_cache_mutex"}, h \in Actors \cup {NULL} :
                    holder' = [holder EXCEPT ![l] = h]
               /\ UNCHANGED <<logger, adminvars, frames, handler, joiner, certs, exited>>
    BY <2>2, ActorsAre DEF Section, Acquire
  <2>3. ASSUME NEW w \in Workers, EndSection(w)
        PROVE  /\ step[w] \in {"metrics", "certs"} /\ step' = [step EXCEPT ![w] = NULL]
               /\ \E l \in {"g_metrics.lock", "cert_cache_mutex"}, h \in Actors \cup {NULL} :
                    holder' = [holder EXCEPT ![l] = h]
               /\ UNCHANGED <<logger, adminvars, frames, handler, joiner, certs, exited>>
    BY <2>3, ActorsAre DEF EndSection, Release
  <2> QED
    BY <2>1, <2>2, <2>3, ActorsAre
<1>3. Elsewhere
  <2>1. s \notin Held /\ step[a] \notin Held
    BY <1>2, NullIsNoPlace DEF Held
  <2>2. \A b \in Actors : step'[b] = IF b = a THEN s ELSE step[b]
    BY <1>1, <1>2
  <2>3. holder'["g_log_mutex"] = holder["g_log_mutex"]
    BY <1>1, <1>2 DEF Locks
  <2> QED
    BY <1>2, <2>1, <2>2, <2>3 DEF Elsewhere
<1>4. TypeOK'
  <2>1. holder' \in [Locks -> Actors \cup {NULL}]
    BY <1>1, <1>2
  <2>2. step' \in [Actors -> {NULL, "metrics", "certs", "freecerts"} \cup LogSteps]
    BY <1>1, <1>2 DEF LogSteps
  <2> QED
    BY <1>2, <2>1, <2>2 DEF LoggerInv, TypeOK
<1>5. HandlerInv'
  BY <1>1, <1>2, ActorsAre DEF LoggerInv, HandlerInv
<1> QED
  BY <1>3, <1>4, <1>5, ElsewhereInv DEF LoggerInv

\* The steps of the admin thread.
LEMMA AdminSteps ==
  ASSUME LoggerInv,
         AdminStep \/ AdminAccept \/ \E asks \in BOOLEAN : AdminRequest(asks)
  PROVE  LoggerInv'
<1> USE DEF logger, adminvars, frames, Do
<1>1. /\ holder \in [Locks -> Actors \cup {NULL}]
      /\ step \in [Actors -> {NULL, "metrics", "certs", "freecerts"} \cup LogSteps]
      /\ "admin" \in Actors
  BY ActorsAre DEF LoggerInv, TypeOK
<1>2. CASE \/ AdminCheck \/ AdminAcceptFails \/ AdminAccept
           \/ \E asks \in BOOLEAN : AdminRequest(asks)
  <2>1. /\ UNCHANGED <<holder, step, logger, g_admin_running, listening, frames, handler,
                       joiner, certs, exited>>
        /\ admin' \in {"accept", "ended", "check", "enter", "export", "leave"}
    BY <1>2 DEF AdminCheck, AdminAcceptFails, AdminAccept, AdminRequest, AdminGoes
  <2>2. TypeOK'
    BY <2>1 DEF LoggerInv, TypeOK
  <2>3. Elsewhere
    BY <2>1 DEF Elsewhere
  <2> QED
    BY <2>1, <2>2, <2>3, ElsewhereInv DEF LoggerInv, HandlerInv
<1>3. CASE AdminMetrics \/ EndSection("admin")
  <2>1. PICK s \in {NULL, "metrics"} :
          /\ step["admin"] \in {NULL, "metrics", "certs"}
          /\ step' = [step EXCEPT !["admin"] = s]
    BY <1>3 DEF AdminMetrics, EndSection, AdminFree
  <2>2. PICK l \in {"g_metrics.lock", "cert_cache_mutex"}, h \in Actors \cup {NULL} :
          holder' = [holder EXCEPT ![l] = h]
    BY <1>1, <1>3 DEF AdminMetrics, EndSection, Acquire, Release
  <2>3. /\ UNCHANGED <<logger, g_admin_running, listening, frames, handler, joiner, certs, exited>>
        /\ admin' \in {admin, "recv", "leave", "check"}
    <3>1. CASE EndSection("admin")
      BY <3>1 DEF EndSection
    <3>2. CASE AdminMetrics
      <4>1. admin \in {"enter", "export", "leave"}
            /\ admin' = (CASE admin = "enter" -> "recv"
                           [] admin = "export" -> "leave"
                           [] admin = "leave" -> "check")
            /\ UNCHANGED <<g_admin_running, listening>>
        BY <3>2 DEF AdminMetrics, AdminGoes
      <4>2. UNCHANGED <<logger, frames, handler, joiner, certs, exited>>
        BY <3>2 DEF AdminMetrics
      <4> QED
        BY <4>1, <4>2
    <3> QED
      BY <1>3, <3>1, <3>2
  <2>4. Elsewhere
    <3>1. s \notin Held /\ step["admin"] \notin Held
      BY <2>1, NullIsNoPlace DEF Held
    <3>2. \A b \in Actors : step'[b] = IF b = "admin" THEN s ELSE step[b]
      BY <1>1, <2>1
    <3>3. holder'["g_log_mutex"] = holder["g_log_mutex"]
      BY <1>1, <2>2 DEF Locks
    <3> QED
      BY <2>3, <3>1, <3>2, <3>3 DEF Elsewhere
  <2>5. TypeOK'
    <3>1. holder' \in [Locks -> Actors \cup {NULL}]
      BY <1>1, <2>2
    <3>2. step' \in [Actors -> {NULL, "metrics", "certs", "freecerts"} \cup LogSteps]
      BY <1>1, <2>1
    <3> QED
      BY <2>3, <3>1, <3>2 DEF LoggerInv, TypeOK
  <2>6. HandlerInv'
    <3>1. \A r \in Signals : r \in Actors /\ r # "admin"
      BY ActorsAre DEF Threads
    <3>2. \A r \in Signals : step'[r] = step[r]
      BY <1>1, <2>1, <3>1
    <3>3. handler' = handler
      BY <2>3
    <3> QED
      BY <3>2, <3>3 DEF LoggerInv, HandlerInv
  <2> QED
    BY <2>4, <2>5, <2>6, ElsewhereInv DEF LoggerInv
<1> QED
  BY <1>2, <1>3 DEF AdminStep

\* The steps of handle_signal outside the logger.
LEMMA HandlerSteps ==
  ASSUME LoggerInv, NEW s \in Signals,
         \/ \E a \in Actors : Signal(s, a)
         \/ admin_server_stop(s) \/ Join(s) \/ Joined(s) \/ FreeContexts(s)
         \/ LockCerts(s) \/ FreeCerts(s) \/ Exit(s)
  PROVE  LoggerInv'
<1> USE DEF logger, adminvars, frames, Do, HandlerGoes, Crash
<1>1. /\ holder \in [Locks -> Actors \cup {NULL}]
      /\ step \in [Actors -> {NULL, "metrics", "certs", "freecerts"} \cup LogSteps]
      /\ s \in Actors
  BY ActorsAre DEF LoggerInv, TypeOK
<1>2. PICK x \in {NULL, "lock", "freecerts"} :
        /\ step[s] \in {NULL, "freecerts"}
        /\ step' = step \/ step' = [step EXCEPT ![s] = x]
  <2>1. CASE \E a \in Actors : Signal(s, a)
    BY <2>1 DEF Signal, LoggerInv, HandlerInv
  <2>2. CASE admin_server_stop(s) \/ Join(s) \/ Joined(s) \/ FreeContexts(s) \/ Exit(s)
    BY <2>2 DEF admin_server_stop, Join, Joined, FreeContexts, Exit, Handled
  <2>3. CASE LockCerts(s) \/ FreeCerts(s)
    BY <2>3 DEF LockCerts, FreeCerts, Handled
  <2> QED
    BY <2>1, <2>2, <2>3
<1>3. holder' = holder \/ \E h \in Actors \cup {NULL} :
                            holder' = [holder EXCEPT !["cert_cache_mutex"] = h]
  <2>1. CASE LockCerts(s) \/ FreeCerts(s)
    BY <1>1, <2>1 DEF LockCerts, FreeCerts, Acquire, Release
  <2>2. CASE ~(LockCerts(s) \/ FreeCerts(s))
    BY <2>2 DEF Signal, admin_server_stop, Join, Joined, FreeContexts, Exit
  <2> QED
    BY <2>1, <2>2
<1>4. /\ UNCHANGED <<logger, admin>>
      /\ g_admin_running' \in {g_admin_running, FALSE} /\ listening' \in {listening, FALSE}
      /\ certs' \in {certs, FALSE} /\ exited' \in {exited, TRUE}
      /\ joiner' \in {joiner, s}
  BY DEF Signal, admin_server_stop, Join, Joined, FreeContexts, LockCerts, FreeCerts, Exit
<1>5. PICK stage \in {"log", "join", "crashed", "joining", "free", "certs", "close"} :
        handler' = handler \/ handler' = [handler EXCEPT ![s] = stage]
  BY DEF Signal, admin_server_stop, Join, Joined, FreeContexts, LockCerts, FreeCerts, Exit
<1>6. Elsewhere
  <2>1. x \notin Held /\ step[s] \notin Held
    BY <1>2, NullIsNoPlace DEF Held
  <2>2. \A b \in Actors : step'[b] = step[b] \/ (b = s /\ step'[b] = x)
    BY <1>1, <1>2
  <2>3. holder'["g_log_mutex"] = holder["g_log_mutex"]
    BY <1>1, <1>3 DEF Locks
  <2> QED
    BY <1>4, <2>1, <2>2, <2>3 DEF Elsewhere
<1>7. TypeOK'
  <2>1. holder' \in [Locks -> Actors \cup {NULL}]
    BY <1>1, <1>3
  <2>2. step' \in [Actors -> {NULL, "metrics", "certs", "freecerts"} \cup LogSteps]
    BY <1>1, <1>2 DEF LogSteps
  <2>3. {g_admin_running', listening', certs', exited'} \subseteq BOOLEAN
    <3>1. {g_admin_running, listening, certs, exited} \subseteq BOOLEAN
      BY DEF LoggerInv, TypeOK
    <3> QED
      BY <1>4, <3>1
  <2>4. /\ interrupted' \in [Signals -> Actors \cup {NULL}]
        /\ thread' \in [Signals -> Threads \cup {NULL}]
    <3>1. /\ interrupted \in [Signals -> Actors \cup {NULL}]
          /\ thread \in [Signals -> Threads \cup {NULL}]
      BY DEF LoggerInv, TypeOK
    <3>2. CASE \E a \in Actors : Signal(s, a)
      <4>1. PICK a \in Actors : Signal(s, a)
        BY <3>2
      <4>2. PICK t : /\ t = IF a \in Signals THEN thread[a] ELSE a
                     /\ thread' = [thread EXCEPT ![s] = t]
                     /\ interrupted' = [interrupted EXCEPT ![s] = a]
        BY <4>1 DEF Signal
      <4>3. t \in Threads \cup {NULL}
        BY <3>1, <4>2 DEF Actors
      <4> QED
        BY <3>1, <4>2, <4>3
    <3>3. CASE ~\E a \in Actors : Signal(s, a)
      <4>1. UNCHANGED <<interrupted, thread>>
        BY <3>3 DEF admin_server_stop, Join, Joined, FreeContexts, LockCerts, FreeCerts, Exit
      <4> QED
        BY <3>1, <4>1
    <3> QED
      BY <3>2, <3>3
  <2>5. /\ handler' \in [Signals -> {"none", "log", "join", "joining", "free", "certs", "close",
                                     "exit", "crashed"}]
        /\ joiner' \in Signals \cup {NULL}
    <3>1. /\ handler \in [Signals -> {"none", "log", "join", "joining", "free", "certs", "close",
                                      "exit", "crashed"}]
          /\ joiner \in Signals \cup {NULL}
      BY DEF LoggerInv, TypeOK
    <3> QED
      BY <1>4, <1>5, <3>1
  <2> QED
    BY <1>4, <2>1, <2>2, <2>3, <2>4, <2>5 DEF LoggerInv, TypeOK
<1>8. HandlerInv'
  <2> SUFFICES ASSUME NEW r \in Signals, handler'[r] = "none"
               PROVE  step'[r] = NULL
    BY DEF HandlerInv
  <2>1. r \in Actors /\ handler \in [Signals -> {"none", "log", "join", "joining", "free",
                                                 "certs", "close", "exit", "crashed"}]
    BY ActorsAre DEF LoggerInv, TypeOK
  <2>2. handler[r] = "none"
    BY <1>5, <2>1
  <2>3. step[r] = NULL
    BY <2>2 DEF LoggerInv, HandlerInv
  <2>4. CASE r # s
    BY <1>1, <1>2, <2>1, <2>3, <2>4
  <2>5. CASE r = s
    <3>1. CASE \E a \in Actors : Signal(s, a)
      <4>1. handler'[s] = "log"
        BY <2>1, <3>1 DEF Signal
      <4> QED
        BY <4>1, <2>5
    <3>2. CASE FreeCerts(s)
      <4>1. handler'[s] = "close"
        BY <2>1, <3>2 DEF FreeCerts
      <4> QED
        BY <4>1, <2>5
    <3>3. CASE admin_server_stop(s) \/ Join(s) \/ Joined(s) \/ FreeContexts(s) \/ Exit(s)
               \/ LockCerts(s)
      BY <2>2, <2>3, <2>5, <3>3 DEF admin_server_stop, Join, Joined, FreeContexts, Exit,
                                    LockCerts, Handled
    <3> QED
      BY <3>1, <3>2, <3>3
  <2> QED
    BY <2>4, <2>5
<1> QED
  BY <1>6, <1>7, <1>8, ElsewhereInv DEF LoggerInv

-----------------------------------------------------------------------------
(* Steps of the logger *)

\* Whoever is inside holds the lock, and nobody else is inside.
LEMMA AloneInside ==
  ASSUME MutexInv, NEW a \in Actors, step[a] \in Held
  PROVE  holder["g_log_mutex"] = a /\ \A b \in Actors : step[b] \in Held => b = a
BY DEF MutexInv

\* pthread_mutex_lock gives the lock to one actor.
LEMMA LogLockInv ==
  ASSUME LoggerInv, NEW a \in Actors, LogLock(a)
  PROVE  LoggerInv'
<1> USE DEF logger, adminvars, frames, Do
<1>1. /\ holder \in [Locks -> Actors \cup {NULL}]
      /\ step \in [Actors -> {NULL, "metrics", "certs", "freecerts"} \cup LogSteps]
  BY DEF LoggerInv, TypeOK
<1>2. PICK s \in {"close", "rotate"} : step' = [step EXCEPT ![a] = s]
  BY DEF LogLock
<1>3. /\ step[a] = "lock" /\ holder["g_log_mutex"] = NULL
      /\ holder' = [holder EXCEPT !["g_log_mutex"] = a]
      /\ UNCHANGED <<logger, adminvars, frames, handler, joiner, certs, exited>>
  BY DEF LogLock, Acquire
<1>4. /\ \A b \in Actors : step'[b] = IF b = a THEN s ELSE step[b]
      /\ holder'["g_log_mutex"] = a
  BY <1>1, <1>2, <1>3 DEF Locks
<1>5. TypeOK'
  <2>1. holder' \in [Locks -> Actors \cup {NULL}]
    BY <1>1, <1>3
  <2>2. step' \in [Actors -> {NULL, "metrics", "certs", "freecerts"} \cup LogSteps]
    BY <1>1, <1>2 DEF LogSteps
  <2> QED
    BY <1>3, <2>1, <2>2 DEF LoggerInv, TypeOK
<1>6. \A b \in Actors : step[b] \notin Held
  BY <1>3, NullIsNoPlace DEF LoggerInv, MutexInv
<1>7. MutexInv'
  BY <1>4, <1>6 DEF MutexInv, Held
<1>8. FileInv'
  <2>1. g_log_fp # "closed"
    BY <1>6 DEF LoggerInv, FileInv, Held
  <2>2. \A b \in Actors : step'[b] \notin {"rename", "reopen", "write"}
    BY <1>2, <1>4, <1>6 DEF Held
  <2> QED
    BY <1>3, <2>1, <2>2 DEF LoggerInv, FileInv
<1>9. ContentInv'
  BY <1>3 DEF LoggerInv, ContentInv
<1>10. HandlerInv'
  BY <1>3, <1>4, ActorsAre, NullAssumption DEF LoggerInv, HandlerInv, LogSteps
<1> QED
  BY <1>5, <1>7, <1>8, <1>9, <1>10 DEF LoggerInv

\* An actor inside goes from one place to the next; nobody else moves.
LEMMA InsideStep ==
  ASSUME LoggerInv, NEW a \in Actors, step[a] \in Held, NEW s \in Held,
         step' = [step EXCEPT ![a] = s], UNCHANGED <<holder, handler>>
  PROVE  /\ step' \in [Actors -> {NULL, "metrics", "certs", "freecerts"} \cup LogSteps]
         /\ \A b \in Actors : step'[b] = IF b = a THEN s ELSE step[b]
         /\ \A b \in Actors : b # a => step'[b] \notin Held
         /\ MutexInv' /\ HandlerInv'
<1>1. step \in [Actors -> {NULL, "metrics", "certs", "freecerts"} \cup LogSteps]
  BY DEF LoggerInv, TypeOK
<1>2. step' \in [Actors -> {NULL, "metrics", "certs", "freecerts"} \cup LogSteps]
  BY <1>1 DEF Held, LogSteps
<1>3. \A b \in Actors : step'[b] = IF b = a THEN s ELSE step[b]
  BY <1>1
<1>4. \A b \in Actors : b # a => step'[b] \notin Held
  BY <1>3, AloneInside DEF LoggerInv
<1>5. MutexInv'
  BY <1>3 DEF LoggerInv, MutexInv
<1>6. HandlerInv'
  BY <1>3, ActorsAre, NullIsNoPlace DEF LoggerInv, HandlerInv
<1> QED
  BY <1>2, <1>3, <1>4, <1>5, <1>6

\* rotate_log_if_needed: its test, and fclose.
LEMMA RotateInv ==
  ASSUME LoggerInv, NEW a \in Actors, Rotate(a)
  PROVE  LoggerInv'
<1> USE DEF adminvars, frames, Do
<1>1. /\ step[a] = "rotate"
      /\ UNCHANGED <<holder, log_file, backup, logged, kept, adminvars, frames, handler,
                     joiner, certs, exited>>
  BY DEF Rotate
<1>2. \/ /\ rotation_enabled /\ g_log_fp # NULL /\ Len(log_file) >= max_size
         /\ g_log_fp' = "closed" /\ step' = [step EXCEPT ![a] = "rename"]
      \/ /\ ~(rotation_enabled /\ g_log_fp # NULL /\ Len(log_file) >= max_size)
         /\ g_log_fp' = g_log_fp /\ step' = [step EXCEPT ![a] = "write"]
  BY DEF Rotate
<1>3. PICK s \in {"rename", "write"} : step' = [step EXCEPT ![a] = s]
  BY <1>2
<1>4. /\ step' \in [Actors -> {NULL, "metrics", "certs", "freecerts"} \cup LogSteps]
      /\ \A b \in Actors : step'[b] = IF b = a THEN s ELSE step[b]
      /\ \A b \in Actors : b # a => step'[b] \notin Held
      /\ MutexInv' /\ HandlerInv'
  BY <1>1, <1>3, InsideStep DEF Held
<1>5. step'[a] = s /\ a \in Actors
  BY <1>4
<1>6. step \in [Actors -> {NULL, "metrics", "certs", "freecerts"} \cup LogSteps]
      /\ log_file \in Seq(Nat) /\ Len(log_file) \in Nat /\ max_size \in Int
      /\ g_log_fp \in {"open", "closed", NULL}
  BY LenProperties, SizeFacts DEF LoggerInv, TypeOK
<1>7. g_log_fp # "closed"
  BY <1>1, AloneInside DEF LoggerInv, FileInv, Held
<1>8. \A b \in Actors : step'[b] \in {"rename", "reopen", "write"} => b = a
  BY <1>4 DEF Held
<1>9. FileInv'
  <2>1. CASE /\ rotation_enabled /\ g_log_fp # NULL /\ Len(log_file) >= max_size
             /\ g_log_fp' = "closed" /\ step' = [step EXCEPT ![a] = "rename"]
    <3>1. step'[a] = "rename"
      BY <1>6, <2>1
    <3> QED
      BY <1>1, <1>8, <2>1, <3>1 DEF LoggerInv, FileInv
  <2>2. CASE /\ ~(rotation_enabled /\ g_log_fp # NULL /\ Len(log_file) >= max_size)
             /\ g_log_fp' = g_log_fp /\ step' = [step EXCEPT ![a] = "write"]
    <3>1. step'[a] = "write"
      BY <1>6, <2>2
    <3> QED
      BY <1>1, <1>7, <1>8, <2>2, <3>1 DEF LoggerInv, FileInv
  <2> QED
    BY <1>2, <2>1, <2>2
<1>10. ContentInv'
  BY <1>1 DEF LoggerInv, ContentInv
<1>11. TypeOK'
  <2>1. g_log_fp' \in {"open", "closed", NULL}
    BY <1>2, <1>6
  <2> QED
    BY <1>1, <1>4, <2>1 DEF LoggerInv, TypeOK
<1> QED
  BY <1>4, <1>9, <1>10, <1>11 DEF LoggerInv

\* rename: the full file becomes the backup, and the old backup goes; or nothing changes.
LEMMA RenameInv ==
  ASSUME LoggerInv, NEW a \in Actors, Rename(a)
  PROVE  LoggerInv'
<1> USE DEF adminvars, frames, Do
<1>1. /\ step[a] = "rename" /\ step' = [step EXCEPT ![a] = "reopen"]
      /\ \/ backup' = log_file /\ log_file' = <<>>
         \/ backup' = backup /\ log_file' = log_file
      /\ UNCHANGED <<holder, g_log_fp, logged, kept, adminvars, frames, handler,
                     joiner, certs, exited>>
  BY DEF Rename
<1>2. /\ step' \in [Actors -> {NULL, "metrics", "certs", "freecerts"} \cup LogSteps]
      /\ \A b \in Actors : step'[b] = IF b = a THEN "reopen" ELSE step[b]
      /\ \A b \in Actors : b # a => step'[b] \notin Held
      /\ MutexInv' /\ HandlerInv'
  BY <1>1, InsideStep DEF Held
<1>3. /\ log_file \in Seq(Nat) /\ backup \in Seq(Nat) /\ Len(log_file) \in Nat
      /\ <<>> \in Seq(Nat)
  BY LenProperties DEF LoggerInv, TypeOK
<1>4. g_log_fp = "closed" /\ Len(log_file) >= max_size
  BY <1>1 DEF LoggerInv, FileInv
<1>5. FileInv'
  <2>1. \A b \in Actors : step'[b] \in {"rename", "reopen", "write"} => b = a
    BY <1>2 DEF Held
  <2>2. step'[a] = "reopen"
    BY <1>2
  <2> QED
    BY <1>1, <1>4, <2>1, <2>2 DEF LoggerInv, FileInv
<1>6. CASE backup' = backup /\ log_file' = log_file
  <2>1. ContentInv'
    BY <1>1, <1>6 DEF LoggerInv, ContentInv
  <2>2. TypeOK'
    BY <1>1, <1>2, <1>6 DEF LoggerInv, TypeOK
  <2> QED
    BY <1>2, <1>5, <2>1, <2>2 DEF LoggerInv
<1>7. CASE backup' = log_file /\ log_file' = <<>>
  <2>1. ContentInv'
    <3> SUFFICES ASSUME 2 * size < IntRange
                 PROVE  /\ Run(log_file, kept)
                        /\ Len(log_file) >= (IF kept < size THEN kept ELSE size)
      <4>1. backup' \o log_file' = log_file
        BY <1>3, <1>7, ConcatEmptySeq
      <4> QED
        BY <1>1, <4>1 DEF ContentInv
    <3>1. Run(log_file, kept)
      BY <1>3, RunSuffix DEF LoggerInv, ContentInv
    <3>2. kept \in Nat
      BY ShutdownAssumption DEF LoggerInv, TypeOK
    <3>3. Len(log_file) >= size
      BY <1>4, SizeFacts
    <3> QED
      BY <3>1, <3>2, <3>3, <1>3, SizeFacts
  <2>2. TypeOK'
    BY <1>1, <1>2, <1>3, <1>7 DEF LoggerInv, TypeOK
  <2> QED
    BY <1>2, <1>5, <2>1, <2>2 DEF LoggerInv
<1> QED
  BY <1>1, <1>6, <1>7

\* fopen: the file is there, or no line is kept from now on.
LEMMA ReopenInv ==
  ASSUME LoggerInv, NEW a \in Actors, Reopen(a)
  PROVE  LoggerInv'
<1> USE DEF adminvars, frames, Do
<1>1. /\ step[a] = "reopen" /\ step' = [step EXCEPT ![a] = "write"]
      /\ g_log_fp' \in {"open", NULL}
      /\ UNCHANGED <<holder, log_file, backup, logged, kept, adminvars, frames, handler,
                     joiner, certs, exited>>
  BY DEF Reopen
<1>2. /\ step' \in [Actors -> {NULL, "metrics", "certs", "freecerts"} \cup LogSteps]
      /\ \A b \in Actors : step'[b] = IF b = a THEN "write" ELSE step[b]
      /\ \A b \in Actors : b # a => step'[b] \notin Held
      /\ MutexInv' /\ HandlerInv'
  BY <1>1, InsideStep DEF Held
<1>3. g_log_fp = "closed" /\ kept = logged
  BY <1>1, NullIsNoPlace DEF LoggerInv, FileInv
<1>4. FileInv'
  <2>1. \A b \in Actors : step'[b] \in {"rename", "reopen", "write"} => b = a
    BY <1>2 DEF Held
  <2>2. step'[a] = "write" /\ g_log_fp' # "closed"
    BY <1>1, <1>2, NullIsNoPlace
  <2> QED
    BY <1>1, <1>3, <2>1, <2>2 DEF FileInv
<1>5. ContentInv'
  BY <1>1 DEF LoggerInv, ContentInv
<1>6. TypeOK'
  BY <1>1, <1>2 DEF LoggerInv, TypeOK
<1> QED
  BY <1>2, <1>4, <1>5, <1>6 DEF LoggerInv

\* An actor that gives the lock back leaves nobody inside, and the file not closed.
LEMMA LeaveStep ==
  ASSUME LoggerInv, NEW a \in Actors, step[a] \in {"write", "close"},
         step' = [step EXCEPT ![a] = NULL],
         holder' = [holder EXCEPT !["g_log_mutex"] = NULL]
  PROVE  /\ step' \in [Actors -> {NULL, "metrics", "certs", "freecerts"} \cup LogSteps]
         /\ holder' \in [Locks -> Actors \cup {NULL}]
         /\ \A b \in Actors : step'[b] \notin Held
         /\ (handler' = handler => HandlerInv')
         /\ MutexInv'
         /\ g_log_fp # "closed"
<1>1. /\ holder \in [Locks -> Actors \cup {NULL}]
      /\ step \in [Actors -> {NULL, "metrics", "certs", "freecerts"} \cup LogSteps]
  BY DEF LoggerInv, TypeOK
<1>2. /\ step' \in [Actors -> {NULL, "metrics", "certs", "freecerts"} \cup LogSteps]
      /\ holder' \in [Locks -> Actors \cup {NULL}]
  BY <1>1
<1>3. /\ \A b \in Actors : step'[b] = IF b = a THEN NULL ELSE step[b]
      /\ holder'["g_log_mutex"] = NULL
  BY <1>1 DEF Locks
<1>4. \A b \in Actors : b # a => step[b] \notin Held
  BY AloneInside DEF LoggerInv, Held
<1>5. \A b \in Actors : step'[b] \notin Held
  BY <1>3, <1>4, NullIsNoPlace
<1>6. MutexInv'
  BY <1>3, <1>5, NullIsNoPlace DEF MutexInv
<1>7. g_log_fp # "closed"
  BY <1>4 DEF LoggerInv, FileInv, Held
<1>8. handler' = handler => HandlerInv'
  BY <1>3, ActorsAre DEF LoggerInv, HandlerInv
<1> QED
  BY <1>2, <1>5, <1>6, <1>7, <1>8

\* With nobody inside and the file not closed, FileInv is about the lines kept.
LEMMA FileIdle ==
  ASSUME \A b \in Actors : step'[b] \notin Held,
         g_log_fp' # "closed", g_log_fp' # NULL => kept' = logged'
  PROVE  FileInv'
BY DEF FileInv, Held

\* The line is written to the file that is open, if there is one.
LEMMA WriteLineInv ==
  ASSUME LoggerInv, NEW a \in Actors, WriteLine(a)
  PROVE  LoggerInv'
<1> USE DEF adminvars, frames, Do
<1>1. /\ step[a] = "write" /\ step' = [step EXCEPT ![a] = NULL]
      /\ holder' = [holder EXCEPT !["g_log_mutex"] = NULL]
      /\ UNCHANGED <<g_log_fp, backup, adminvars, frames, handler, joiner, certs, exited>>
  BY DEF WriteLine, Release
<1>2. /\ step' \in [Actors -> {NULL, "metrics", "certs", "freecerts"} \cup LogSteps]
      /\ holder' \in [Locks -> Actors \cup {NULL}]
      /\ \A b \in Actors : step'[b] \notin Held
      /\ HandlerInv' /\ MutexInv' /\ g_log_fp # "closed"
  BY <1>1, LeaveStep
<1>3. /\ log_file \in Seq(Nat) /\ backup \in Seq(Nat) /\ Len(log_file) \in Nat
      /\ logged \in Nat /\ kept \in Nat /\ MaxLines \in Nat /\ logged <= MaxLines
      /\ kept <= logged /\ g_log_fp \in {"open", "closed", NULL} /\ max_size \in Int
  BY LenProperties, ShutdownAssumption, SizeFacts DEF LoggerInv, TypeOK
<1>4. logged' = IF logged < MaxLines THEN logged + 1 ELSE logged
  BY DEF WriteLine
<1>5. CASE g_log_fp = "open" /\ logged < MaxLines
  <2>1. log_file' = Append(log_file, logged + 1) /\ kept' = logged + 1 /\ logged' = logged + 1
    BY <1>4, <1>5 DEF WriteLine
  <2>2. kept = logged
    BY <1>5, NullIsNoPlace DEF LoggerInv, FileInv
  <2>3. FileInv'
    BY <1>1, <1>2, <2>1, FileIdle
  <2>4. log_file' \in Seq(Nat) /\ Len(log_file') = Len(log_file) + 1
    BY <1>3, <2>1, AppendProperties
  <2>5. ContentInv'
    <3> DEFINE all == backup \o log_file
    <3>1. all \in Seq(Nat) /\ Len(all) \in Nat
      BY <1>3, ConcatProperties, LenProperties
    <3>2. backup' \o log_file' = Append(all, kept + 1)
      <4>1. kept + 1 \in Nat
        BY <1>3
      <4>2. backup' = backup /\ log_file' = Append(log_file, kept + 1)
        BY <1>1, <2>1, <2>2
      <4>3. backup \o Append(log_file, kept + 1) = Append(all, kept + 1)
        BY <1>3, <4>1, AppendBehind
      <4> QED
        BY <4>2, <4>3
    <3>3. Len(Append(all, kept + 1)) = Len(all) + 1
      BY <1>3, <3>1, AppendProperties
    <3>4. ASSUME 2 * size < IntRange
          PROVE  /\ Run(all, kept)
                 /\ Len(all) >= (IF kept < size THEN kept ELSE size)
      BY <3>4 DEF LoggerInv, ContentInv
    <3> HIDE DEF all
    <3>5. ASSUME 2 * size < IntRange
          PROVE  Run(Append(all, kept + 1), kept + 1)
      BY <3>1, <3>4, <3>5, <1>3, RunAppend
    <3>6. ASSUME 2 * size < IntRange
          PROVE  Len(all) + 1 >= (IF kept + 1 < size THEN kept + 1 ELSE size)
      <4>1. Len(all) >= (IF kept < size THEN kept ELSE size)
        BY <3>4, <3>6
      <4> DEFINE n == Len(all)
      <4>2. n \in Nat /\ n >= (IF kept < size THEN kept ELSE size)
        BY <3>1, <4>1
      <4> HIDE DEF n
      <4>3. n + 1 >= (IF kept + 1 < size THEN kept + 1 ELSE size)
        BY <4>2, <1>3, SizeFacts
      <4> QED
        BY <4>3 DEF n
    <3>7. kept' = kept + 1
      BY <2>1, <2>2
    <3>8. ASSUME 2 * size < IntRange
          PROVE  /\ Run(backup' \o log_file', kept')
                 /\ Len(backup' \o log_file') >= (IF kept' < size THEN kept' ELSE size)
      BY <3>2, <3>3, <3>5, <3>6, <3>7, <3>8
    <3> QED
      BY <3>8 DEF ContentInv
  <2>6. TypeOK'
    <3>1. logged' \in 0 .. MaxLines /\ kept' \in 0 .. logged'
      BY <1>3, <1>5, <2>1
    <3> QED
      BY <1>1, <1>2, <1>3, <2>4, <3>1 DEF LoggerInv, TypeOK
  <2> QED
    BY <1>2, <2>3, <2>5, <2>6 DEF LoggerInv
<1>6. CASE ~(g_log_fp = "open" /\ logged < MaxLines)
  <2>1. UNCHANGED <<log_file, kept>>
    BY <1>6 DEF WriteLine
  <2>2. FileInv'
    <3>1. g_log_fp' # NULL => kept' = logged'
      BY <1>1, <1>2, <1>3, <1>4, <1>6, <2>1 DEF LoggerInv, FileInv
    <3> QED
      BY <1>1, <1>2, <3>1, FileIdle
  <2>3. ContentInv'
    BY <1>1, <2>1 DEF LoggerInv, ContentInv
  <2>4. TypeOK'
    <3>1. logged' \in 0 .. MaxLines /\ kept' \in 0 .. logged'
      BY <1>3, <1>4, <2>1
    <3> QED
      BY <1>1, <1>2, <2>1, <3>1 DEF LoggerInv, TypeOK
  <2> QED
    BY <1>2, <2>2, <2>3, <2>4 DEF LoggerInv
<1> QED
  BY <1>5, <1>6

\* logger_shutdown closes the file under the lock.
LEMMA LoggerShutdownInv ==
  ASSUME LoggerInv, NEW s \in Signals, logger_shutdown(s)
  PROVE  LoggerInv'
<1> USE DEF adminvars, frames, Do
<1>1. /\ step[s] = "close" /\ step' = [step EXCEPT ![s] = NULL]
      /\ holder' = [holder EXCEPT !["g_log_mutex"] = NULL]
      /\ g_log_fp' = NULL /\ handler' = [handler EXCEPT ![s] = "exit"]
      /\ UNCHANGED <<log_file, backup, logged, kept, adminvars, frames, joiner, certs, exited>>
  BY DEF logger_shutdown, Release, HandlerGoes
<1>2. /\ step' \in [Actors -> {NULL, "metrics", "certs", "freecerts"} \cup LogSteps]
      /\ holder' \in [Locks -> Actors \cup {NULL}]
      /\ \A b \in Actors : step'[b] \notin Held
      /\ MutexInv'
  BY <1>1, LeaveStep, ActorsAre
<1>3. FileInv'
  BY <1>1, <1>2, NullIsNoPlace, FileIdle
<1>4. ContentInv'
  BY <1>1 DEF LoggerInv, ContentInv
<1>5. handler' \in [Signals -> {"none", "log", "join", "joining", "free", "certs", "close",
                               "exit", "crashed"}]
  BY <1>1 DEF LoggerInv, TypeOK
<1>6. TypeOK'
  BY <1>1, <1>2, <1>5 DEF LoggerInv, TypeOK
<1>7. HandlerInv'
  <2>1. \A r \in Signals : step'[r] = IF r = s THEN NULL ELSE step[r]
    BY <1>1, ActorsAre DEF LoggerInv, TypeOK
  <2>2. \A r \in Signals : handler'[r] = IF r = s THEN "exit" ELSE handler[r]
    BY <1>1 DEF LoggerInv, TypeOK
  <2> QED
    BY <2>1, <2>2 DEF LoggerInv, HandlerInv
<1> QED
  BY <1>2, <1>3, <1>4, <1>6, <1>7 DEF LoggerInv

-----------------------------------------------------------------------------

\* An empty log, and nobody inside.
LEMMA InitLogger == Init => LoggerInv
<1> SUFFICES ASSUME Init PROVE LoggerInv
  OBVIOUS
<1>1. log_file = <<>> /\ backup = <<>> /\ <<>> \in Seq(Nat) /\ Len(<<>>) = 0
      /\ backup \o log_file = <<>>
  BY DEF Init
<1>2. TypeOK
  <2>1. logged \in 0 .. MaxLines /\ kept \in 0 .. logged
    BY ShutdownAssumption DEF Init
  <2>2. {g_admin_running, listening, certs, exited} \subseteq BOOLEAN
    BY DEF Init
  <2> QED
    BY <1>1, <2>1, <2>2 DEF Init, TypeOK
<1>3. HandlerInv
  BY ActorsAre DEF Init, HandlerInv
<1>4. \A b \in Actors : step[b] \notin Held
  BY NullIsNoPlace DEF Init
<1>5. MutexInv
  <2>1. holder["g_log_mutex"] = NULL
    BY DEF Init, Locks
  <2> QED
    BY <1>4, <2>1, NullIsNoPlace DEF MutexInv
<1>6. FileInv
  BY <1>4, NullIsNoPlace DEF Init, FileInv, Held
<1>7. ContentInv
  <2>1. Run(<<>>, 0)
    BY DEF Run
  <2>2. Len(<<>>) >= (IF 0 < size THEN 0 ELSE size)
    BY <1>1, SizeFacts
  <2> QED
    BY <1>1, <2>1, <2>2 DEF Init, ContentInv
<1> QED
  BY <1>2, <1>3, <1>5, <1>6, <1>7 DEF LoggerInv

\* Every step keeps the invariant of the logger.
LEMMA NextLogger == LoggerInv /\ [Next]_vars => LoggerInv'
<1> SUFFICES ASSUME LoggerInv, [Next]_vars PROVE LoggerInv'
  OBVIOUS
<1>1. ASSUME NEW a \in Actors, LogStep(a)
      PROVE  LoggerInv'
  BY <1>1, LogLockInv, RotateInv, RenameInv, ReopenInv, WriteLineInv DEF LogStep
<1>2. CASE \E t \in Loggers : Log(t) \/ LogStep(t)
  BY <1>1, <1>2, ThreadSteps, ActorsAre
<1>3. CASE \E w \in Workers : Section(w, "metrics") \/ Section(w, "certs") \/ EndSection(w)
  BY <1>3, ThreadSteps
<1>4. CASE AdminStep \/ AdminAccept \/ \E asks \in BOOLEAN : AdminRequest(asks)
  BY <1>4, AdminSteps
<1>5. CASE \E s \in Signals, a \in Actors : Signal(s, a)
  BY <1>5, HandlerSteps
<1>6. CASE \E s \in Signals : HandlerStep(s)
  BY <1>1, <1>6, HandlerSteps, LoggerShutdownInv, ActorsAre DEF HandlerStep
<1>7. CASE UNCHANGED vars
  <2>1. Elsewhere
    BY <1>7 DEF vars, logger, Elsewhere
  <2>2. TypeOK' /\ HandlerInv'
    BY <1>7 DEF vars, logger, adminvars, frames, LoggerInv, TypeOK, HandlerInv
  <2> QED
    BY <2>1, <2>2, ElsewhereInv DEF LoggerInv
<1> QED
  BY <1>2, <1>3, <1>4, <1>5, <1>6, <1>7 DEF Next

-----------------------------------------------------------------------------
(* The locks *)

\* Inside the logger only its own lock changes hands.
LEMMA OthersStay ==
  ASSUME LoggerInv, OthersInv, NEW a \in Actors,
         NEW x \in LogSteps \cup {NULL}, step[a] \in LogSteps \cup {NULL},
         step' = [step EXCEPT ![a] = x],
         holder' = holder \/ \E h : holder' = [holder EXCEPT !["g_log_mutex"] = h]
  PROVE  OthersInv'
<1>1. x \notin {"metrics", "certs", "freecerts"} /\ step[a] \notin {"metrics", "certs", "freecerts"}
  BY NullAssumption DEF LogSteps
<1>2. \A b \in Actors : step'[b] = IF b = a THEN x ELSE step[b]
  BY DEF LoggerInv, TypeOK
<1>3. /\ holder'["g_metrics.lock"] = holder["g_metrics.lock"]
      /\ holder'["cert_cache_mutex"] = holder["cert_cache_mutex"]
  BY DEF LoggerInv, TypeOK, Locks
<1> QED
  BY <1>1, <1>2, <1>3 DEF OthersInv

\* Steps that leave the locks and the sections alone.
LEMMA OthersSame ==
  ASSUME OthersInv, UNCHANGED <<holder, step>>
  PROVE  OthersInv'
BY DEF OthersInv

\* An actor takes a free lock and is inside its section, or gives it back and is not.
LEMMA OthersTake ==
  ASSUME LoggerInv, OthersInv, NEW a \in Actors, NEW x,
         NEW l \in {"g_metrics.lock", "cert_cache_mutex"},
         step' = [step EXCEPT ![a] = x],
         \/ /\ holder[l] = NULL /\ holder' = [holder EXCEPT ![l] = a]
            /\ step[a] \notin {"metrics", "certs", "freecerts"}
            /\ x \in (IF l = "g_metrics.lock" THEN {"metrics"} ELSE {"certs", "freecerts"})
         \/ /\ step[a] \in (IF l = "g_metrics.lock" THEN {"metrics"} ELSE {"certs", "freecerts"})
            /\ holder' = [holder EXCEPT ![l] = NULL]
            /\ x \notin {"metrics", "certs", "freecerts"}
  PROVE  OthersInv'
<1>1. \A b \in Actors : step'[b] = IF b = a THEN x ELSE step[b]
  BY DEF LoggerInv, TypeOK
<1>2. \A k \in Locks : holder'[k] = IF k = l THEN holder'[l] ELSE holder[k]
  BY DEF LoggerInv, TypeOK, Locks
<1>3. (holder[l] = NULL /\ holder'[l] = a) \/ (holder[l] = a /\ holder'[l] = NULL)
  BY DEF LoggerInv, TypeOK, Locks, OthersInv
<1>4. \A b \in Actors : b # NULL
  BY NullIsNoPlace
<1>5. CASE l = "g_metrics.lock"
  <2>1. holder'["cert_cache_mutex"] = holder["cert_cache_mutex"]
    BY <1>2, <1>5 DEF Locks
  <2>2. \A b \in Actors : step'[b] \in {"certs", "freecerts"} <=> step[b] \in {"certs", "freecerts"}
    BY <1>1, <1>5
  <2>3. \A b \in Actors : step'[b] = "metrics" <=> holder'["g_metrics.lock"] = b
    BY <1>1, <1>3, <1>4, <1>5 DEF OthersInv
  <2> QED
    BY <2>1, <2>2, <2>3 DEF OthersInv
<1>6. CASE l = "cert_cache_mutex"
  <2>1. holder'["g_metrics.lock"] = holder["g_metrics.lock"]
    BY <1>2, <1>6 DEF Locks
  <2>2. \A b \in Actors : step'[b] = "metrics" <=> step[b] = "metrics"
    BY <1>1, <1>6
  <2>3. \A b \in Actors : step'[b] \in {"certs", "freecerts"} <=> holder'["cert_cache_mutex"] = b
    BY <1>1, <1>3, <1>4, <1>6 DEF OthersInv
  <2> QED
    BY <2>1, <2>2, <2>3 DEF OthersInv
<1> QED
  BY <1>5, <1>6

\* Every step of a thread or a handler keeps the other two locks to their sections.
LEMMA NextOthers ==
  ASSUME LoggerInv, OthersInv, [Next]_vars
  PROVE  OthersInv'
<1>0. NULL \notin {"metrics", "certs", "freecerts"} /\ "lock" \in LogSteps
  BY NullAssumption DEF LogSteps
<1>1. ASSUME NEW a \in Actors, LogStep(a)
      PROVE  OthersInv'
  <2>1. PICK x \in LogSteps \cup {NULL} :
          step[a] \in LogSteps /\ step' = [step EXCEPT ![a] = x]
    <3>1. CASE LogLock(a)
      BY <3>1 DEF LogLock, Do, LogSteps
    <3>2. CASE Rotate(a)
      BY <3>2 DEF Rotate, Do, LogSteps
    <3>3. CASE Rename(a) \/ Reopen(a) \/ WriteLine(a)
      BY <3>3 DEF Rename, Reopen, WriteLine, Do, LogSteps
    <3> QED
      BY <1>1, <3>1, <3>2, <3>3 DEF LogStep
  <2>2. holder' = holder \/ \E h : holder' = [holder EXCEPT !["g_log_mutex"] = h]
    BY <1>1 DEF LogStep, LogLock, Rotate, Rename, Reopen, WriteLine, Acquire, Release
  <2> QED
    BY <2>1, <2>2, OthersStay
<1>2. ASSUME NEW t \in Loggers, Log(t)
      PROVE  OthersInv'
  <2>1. step[t] = NULL /\ step' = [step EXCEPT ![t] = "lock"] /\ holder' = holder /\ t \in Actors
    BY <1>2, ActorsAre DEF Log, Do
  <2> QED
    BY <1>0, <2>1, OthersStay
<1>3. ASSUME NEW w \in Workers, NEW p \in {"metrics", "certs"}, Section(w, p)
      PROVE  OthersInv'
  <2>1. PICK l \in {"g_metrics.lock", "cert_cache_mutex"} :
          /\ l = IF p = "metrics" THEN "g_metrics.lock" ELSE "cert_cache_mutex"
          /\ holder[l] = NULL /\ holder' = [holder EXCEPT ![l] = w]
          /\ step[w] = NULL /\ step' = [step EXCEPT ![w] = p] /\ w \in Actors
    BY <1>3, ActorsAre DEF Section, Acquire, Do
  <2> QED
    BY <1>0, <2>1, OthersTake
<1>4. ASSUME NEW a \in Actors, EndSection(a)
      PROVE  OthersInv'
  <2>1. PICK l \in {"g_metrics.lock", "cert_cache_mutex"} :
          /\ l = IF step[a] = "metrics" THEN "g_metrics.lock" ELSE "cert_cache_mutex"
          /\ holder' = [holder EXCEPT ![l] = NULL]
          /\ step[a] \in {"metrics", "certs"} /\ step' = [step EXCEPT ![a] = NULL]
    BY <1>4 DEF EndSection, Release, Do
  <2> QED
    BY <1>0, <2>1, OthersTake
<1>5. CASE AdminMetrics
  <2>1. /\ holder["g_metrics.lock"] = NULL
        /\ holder' = [holder EXCEPT !["g_metrics.lock"] = "admin"]
        /\ step["admin"] = NULL /\ step' = [step EXCEPT !["admin"] = "metrics"]
        /\ "admin" \in Actors
    BY <1>5, ActorsAre DEF AdminMetrics, AdminFree, Acquire, Do
  <2> QED
    BY <1>0, <2>1, OthersTake
<1>6. CASE \/ AdminCheck \/ AdminAcceptFails \/ AdminAccept
           \/ \E asks \in BOOLEAN : AdminRequest(asks)
  BY <1>6, OthersSame DEF AdminCheck, AdminAcceptFails, AdminAccept, AdminRequest
<1>7. ASSUME NEW s \in Signals, NEW a \in Actors, Signal(s, a)
      PROVE  OthersInv'
  <2>1. step[s] = NULL /\ holder' = holder /\ s \in Actors
    BY <1>7, ActorsAre DEF Signal, LoggerInv, HandlerInv
  <2>2. PICK x \in {NULL, "lock"} : step' = [step EXCEPT ![s] = x]
    BY <1>7 DEF Signal, Do
  <2> QED
    BY <1>0, <2>1, <2>2, OthersStay
<1>8. ASSUME NEW s \in Signals, HandlerStep(s)
      PROVE  OthersInv'
  <2>0. s \in Actors
    BY ActorsAre
  <2>1. CASE LogStep(s)
    BY <1>1, <2>0, <2>1
  <2>2. CASE admin_server_stop(s) \/ Join(s) \/ Joined(s) \/ FreeContexts(s) \/ Exit(s)
    BY <2>2, OthersSame DEF admin_server_stop, Join, Joined, FreeContexts, Exit
  <2>3. CASE LockCerts(s)
    <3>1. /\ holder["cert_cache_mutex"] = NULL
          /\ holder' = [holder EXCEPT !["cert_cache_mutex"] = s]
          /\ step[s] = NULL /\ step' = [step EXCEPT ![s] = "freecerts"]
      BY <2>3 DEF LockCerts, Handled, Acquire, Do
    <3> QED
      BY <1>0, <2>0, <3>1, OthersTake
  <2>4. CASE FreeCerts(s)
    <3>1. /\ holder' = [holder EXCEPT !["cert_cache_mutex"] = NULL]
          /\ step[s] = "freecerts" /\ step' = [step EXCEPT ![s] = "lock"]
      BY <2>4 DEF FreeCerts, Release, Do
    <3> QED
      BY <2>0, <3>1, OthersTake
  <2>5. CASE logger_shutdown(s)
    <3>1. /\ holder' = [holder EXCEPT !["g_log_mutex"] = NULL]
          /\ step[s] = "close" /\ step' = [step EXCEPT ![s] = NULL]
      BY <2>5 DEF logger_shutdown, Release, Do
    <3> QED
      BY <2>0, <3>1, OthersStay DEF LogSteps
  <2> QED
    BY <1>8, <2>1, <2>2, <2>3, <2>4, <2>5 DEF HandlerStep
<1>9. CASE UNCHANGED vars
  BY <1>9, OthersSame DEF vars
<1> QED
  BY <1>1, <1>2, <1>3, <1>4, <1>5, <1>6, <1>7, <1>8, <1>9, ActorsAre DEF Next, AdminStep

\* The inductive invariant holds in every state.
LEMMA AlwaysShutdownInv == Spec => []ShutdownInv
<1>1. Init => ShutdownInv
  <2> SUFFICES ASSUME Init PROVE OthersInv
    BY InitLogger DEF ShutdownInv
  <2>1. NULL \notin {"metrics", "certs", "freecerts"} /\ \A a \in Actors : a # NULL
    BY NullAssumption, NullIsNoPlace
  <2> QED
    BY <2>1 DEF Init, OthersInv, Locks
<1>2. ShutdownInv /\ [Next]_vars => ShutdownInv'
  BY NextLogger, NextOthers DEF ShutdownInv
<1> QED
  BY <1>1, <1>2, PTL DEF Spec

\* The lock of a place inside a section.
LockOf(place) ==
  CASE place \in Held -> "g_log_mutex"
    [] place = "metrics" -> "g_metrics.lock"
    [] place \in {"certs", "freecerts"} -> "cert_cache_mutex"
    [] OTHER -> "none"

\* A thread or a handler holds a lock exactly while it is inside a section of that lock:
\* whatever renaming or reopening fails, and wherever signals interrupt threads and other
\* handlers, no path leaves with a lock or gives back one it does not hold (logger.c
\* 54-151, metrics.c, tls_tunnel.c 187-197).
THEOREM ShutdownLocksHeld ==
  Spec => [](\A a \in Actors, l \in Locks : holder[l] = a <=> LockOf(step[a]) = l)
<1>1. ASSUME ShutdownInv, NEW a \in Actors, NEW l \in Locks
      PROVE  holder[l] = a <=> LockOf(step[a]) = l
  <2>1. /\ LockOf(step[a]) = "g_log_mutex" <=> step[a] \in Held
        /\ LockOf(step[a]) = "g_metrics.lock" <=> step[a] = "metrics"
        /\ LockOf(step[a]) = "cert_cache_mutex" <=> step[a] \in {"certs", "freecerts"}
    BY DEF LockOf, Held
  <2> QED
    BY <1>1, <2>1 DEF ShutdownInv, LoggerInv, MutexInv, OthersInv, Locks
<1>2. ShutdownInv => \A a \in Actors, l \in Locks : holder[l] = a <=> LockOf(step[a]) = l
  BY <1>1
<1> QED
  BY <1>2, AlwaysShutdownInv, PTL

\* No thread and no signal handler writes to a closed file, and rotation keeps the last
\* lines, whatever renaming or reopening fails, for any number of threads and of signals
\* and any size whose bytes fit an int.
THEOREM ShutdownLogKept == Spec => []LogKept
<1>1. LoggerInv => LogKept
  <2> SUFFICES ASSUME LoggerInv PROVE LogKept
    OBVIOUS
  <2>1. ASSUME NEW a \in Actors, step[a] = "write"
        PROVE  g_log_fp # "closed"
    <3>1. \A b \in Actors : step[b] \in {"rename", "reopen"} => b = a
      BY <2>1, AloneInside DEF LoggerInv, Held
    <3> QED
      BY <2>1, <3>1 DEF LoggerInv, FileInv
  <2> QED
    BY <2>1 DEF LoggerInv, ContentInv, Run, size, LogKept
<1>2. ShutdownInv => LogKept
  BY <1>1 DEF ShutdownInv
<1> QED
  BY <1>2, AlwaysShutdownInv, PTL

=============================================================================
