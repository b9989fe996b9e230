---------------------------- MODULE ConfigProofs ----------------------------
(***************************************************************************)
(* What holds of the configuration's reload thread for every set of files,  *)
(* environment, command line and number of changes: a reload leaves the     *)
(* unsafe fields alone and loses no change of the watched file.             *)
(***************************************************************************)
EXTENDS Config, TLAPS, SequenceTheorems

N == Len(SafeFields)

\* Every field that a reload assigns is a field of ProxyConfig.
LEMMA SafeFieldsType ==
  /\ N = 15 /\ Len(SafeFields) = 15
  /\ \A i \in 1 .. 15 : SafeFields[i] \in Fields
  /\ SafeFields[1] = "log_level"
  <1>1. SafeFields \in Seq(Fields) /\ Len(SafeFields) = 15 /\ SafeFields[1] = "log_level"
    BY SMT DEF SafeFields, Fields, config_init_defaults
  <1>2. \A i \in 1 .. 15 : SafeFields[i] \in Fields
    BY <1>1, ElementOfSeq
  <1> QED BY <1>1, <1>2 DEF N

\* A layer of texts changes no field it does not mention.
LEMMA OverlayDomain ==
  ASSUME NEW cfg, NEW keys, NEW texts
  PROVE  Overlay(cfg, keys, texts) = [f \in Fields |-> Overlay(cfg, keys, texts)[f]]
  BY DEF Overlay

-----------------------------------------------------------------------------
(* Unsafe fields *)

Unsafe(f) == f \in Fields /\ \A i \in 1 .. N : SafeFields[i] # f

Base == config_apply_env(config_load_file(config_init_defaults, loaded))

\* The unsafe fields, by where main is: the layers that have been applied so far.
UnsafeInv ==
  /\ main \in {"load", "env", "thread", "args", "validate", "filter", "level",
               "logger", "running", "exited"}
  /\ main # "load" => g_config = [f \in Fields |-> g_config[f]]
  /\ rl = "copy" => copied \in 0 .. N - 1
  /\ main \in {"load", "env", "thread"} => rl = "none"
  /\ options \subseteq ArgKeys \cap DOMAIN cmdline.set
  /\ main = "load" => g_config = config_init_defaults
  /\ main = "env" => g_config = config_load_file(config_init_defaults, loaded)
  /\ main = "thread" => g_config = Base
  /\ main = "args" => \A f \in Fields : Unsafe(f) =>
       g_config[f] = IF f \in options THEN Base[f] ELSE Precedence(f)
  /\ main \in {"validate", "filter", "level", "logger", "running"} =>
       \A f \in Fields : Unsafe(f) => g_config[f] = Precedence(f)

\* It holds before main has read anything.
LEMMA UnsafeInit == Init => UnsafeInv
  BY DEF Init, UnsafeInv

\* The steps of main add one layer after the other; the reload thread only assigns
\* fields that are not unsafe; who edits the file touches none of this.
LEMMA UnsafeStep == UnsafeInv /\ [Next]_vars => UnsafeInv'
  <1> SUFFICES ASSUME UnsafeInv, [Next]_vars PROVE UnsafeInv'
    OBVIOUS
  <1> USE DEF process, reloader, disk, queue
  <1>1. ASSUME NEW ok \in BOOLEAN, MainLoad(ok) PROVE UnsafeInv'
    BY <1>1, OverlayDomain DEF UnsafeInv, MainLoad, config_load_file, Overlay
  <1>2. CASE MainEnv
    <2>1. g_config' = Base'
      BY <1>2 DEF UnsafeInv, MainEnv, Base
    <2>2. g_config' = [f \in Fields |-> g_config'[f]]
      BY <1>2, OverlayDomain DEF MainEnv, config_apply_env
    <2> QED BY <1>2, <2>1, <2>2 DEF UnsafeInv, MainEnv
  <1>3. ASSUME NEW ok \in BOOLEAN, MainThread(ok) PROVE UnsafeInv'
    <2>1. Base' = Base /\ \A f : Precedence(f)' = Precedence(f)
      BY <1>3 DEF MainThread, Base, Precedence
    <2>2. \A f \in Fields \ options' : Precedence(f) = Base[f]
      BY <1>3 DEF MainThread, Precedence, Base
    <2> QED BY <1>3, <2>1, <2>2 DEF UnsafeInv, MainThread
  <1>4. ASSUME NEW f \in options, MainArg(f) PROVE UnsafeInv'
    <2>1. Base' = Base /\ \A g : Precedence(g)' = Precedence(g)
      BY <1>4 DEF MainArg, Base, Precedence
    <2>2. f \in ArgKeys \cap DOMAIN cmdline.set
      BY DEF UnsafeInv
    <2> QED BY <1>4, <2>1, <2>2 DEF UnsafeInv, MainArg, Precedence
  <1>5. ASSUME MainArgsDone \/ MainValidate \/ filter_init \/ MainLevel \/ logger_init
        PROVE  UnsafeInv'
    <2>1. Base' = Base /\ \A g : Precedence(g)' = Precedence(g)
      BY <1>5 DEF MainArgsDone, MainValidate, filter_init, MainLevel, logger_init, Base,
                  Precedence
    <2>2. CASE MainArgsDone
      BY <2>1, <2>2 DEF UnsafeInv, MainArgsDone
    <2>3. CASE MainValidate
      BY <2>1, <2>3 DEF UnsafeInv, MainValidate
    <2>4. CASE filter_init
      BY <2>1, <2>4 DEF UnsafeInv, filter_init
    <2>5. CASE MainLevel
      BY <2>1, <2>5 DEF UnsafeInv, MainLevel
    <2>6. CASE logger_init
      BY <2>1, <2>6 DEF UnsafeInv, logger_init
    <2> QED BY <1>5, <2>2, <2>3, <2>4, <2>5, <2>6
  <1>6. ASSUME CopyField PROVE UnsafeInv'
    <2>1. Base' = Base /\ \A g : Precedence(g)' = Precedence(g)
      BY <1>6 DEF CopyField, Base, Precedence
    <2>0. copied + 1 \in 1 .. 15
      BY <1>6, SafeFieldsType DEF CopyField, UnsafeInv
    <2>2. PICK s \in Fields :
            /\ s = SafeFields[copied + 1]
            /\ g_config' = [g_config EXCEPT ![s] = parsed_cfg[s]]
      BY <1>6, <2>0, SafeFieldsType DEF CopyField
    <2>3. \A f : Unsafe(f) => f # s
      BY <2>0, <2>2, SafeFieldsType DEF Unsafe
    <2>4. rl' = "copy" => copied' \in 0 .. N - 1
      BY <1>6, SafeFieldsType DEF CopyField, UnsafeInv, N
    <2> QED BY <1>6, <2>1, <2>2, <2>3, <2>4 DEF UnsafeInv, CopyField
  <1>7. ASSUME \/ \E ok \in BOOLEAN : ReloadInit(ok)
               \/ ReadEvents \/ ReAddWatch \/ ReloadParse \/ ReloadNotOpened
               \/ logger_set_level \/ filter_reload \/ Editor \/ UNCHANGED vars
        PROVE  UnsafeInv'
    <2>1. UNCHANGED <<process, g_config>>
      BY <1>7 DEF ReloadInit, ReadEvents, ReAddWatch, ReloadParse, ReloadNotOpened,
                  logger_set_level, filter_reload, Editor, WriteFile, ReplaceFile,
                  CreateFile, RemoveFile, MoveFileAway, RemoveBackup, Edit, vars
    <2>2. rl = "none" => rl' = "none"
      BY <1>7 DEF ReloadInit, ReadEvents, ReAddWatch, ReloadParse, ReloadNotOpened,
                  logger_set_level, filter_reload, Editor, WriteFile, ReplaceFile,
                  CreateFile, RemoveFile, MoveFileAway, RemoveBackup, Edit, vars
    <2>3. rl' = "copy" => copied' = 0 \/ (rl = "copy" /\ copied' = copied)
      BY <1>7 DEF ReloadInit, ReadEvents, ReAddWatch, ReloadParse, ReloadNotOpened,
                  logger_set_level, filter_reload, Editor, WriteFile, ReplaceFile,
                  CreateFile, RemoveFile, MoveFileAway, RemoveBackup, Edit, vars
    <2>4. Base' = Base /\ \A g : Precedence(g)' = Precedence(g)
      BY <2>1 DEF Base, Precedence
    <2> QED BY <2>1, <2>2, <2>3, <2>4, SafeFieldsType DEF UnsafeInv
  <1> QED BY <1>1, <1>2, <1>3, <1>4, <1>5, <1>6, <1>7 DEF Next, MainStep, ReloadStep

\* Once the proxy runs, every field outside the safe ones has the value of the
\* strongest source at startup, and no reload changes it.
THEOREM UnsafeFieldsAlwaysKept == Spec => []UnsafeFieldsKept
  <1>1. UnsafeInv => UnsafeFieldsKept
    BY DEF UnsafeInv, UnsafeFieldsKept, Running, Unsafe, N
  <1> QED BY UnsafeInit, UnsafeStep, <1>1, PTL DEF Spec

-----------------------------------------------------------------------------
(* No lost update *)

Copied(n) == \A i \in 1 .. n : g_config[SafeFields[i]] = Parsed[SafeFields[i]]

\* What is still to come, or has been done, for the last change of the file.
Progress ==
  \/ events # {}
  \/ rl \in {"sleep", "parse"}
  \/ rl = "copy" /\ parsed_cfg = Parsed /\ Copied(copied)
  \/ rl = "level" /\ Copied(N)
  \/ rl \in {"filter", "read"} /\ Applied

Following == changed /\ ~failed /\ watch = inode /\ inode # 0

\* The watch is never ahead of the files that exist, a thread that does not run has
\* none, and whoever follows the file makes progress.
UpdateInv ==
  /\ UnsafeInv
  /\ edits \in Nat /\ inode \in 0 .. edits + 1 /\ watch \in 0 .. edits + 1
  /\ rl \in {"none", "init", "ended"} => watch = 0
  /\ changed => main = "running" /\ rl \notin {"none", "init"}
  /\ Following => Progress

\* Nobody follows the file before the thread is started.
LEMMA UpdateInit == Init => UpdateInv
  BY UnsafeInit DEF Init, UpdateInv, Following

\* A step of main happens before the proxy runs, so before a change counts.
LEMMA UpdateMain == UpdateInv /\ UnsafeInv' /\ MainStep => UpdateInv'
  <1> SUFFICES ASSUME UpdateInv, MainStep, UnsafeInv' PROVE UpdateInv'
    OBVIOUS
  <1>1. main # "running" /\ UNCHANGED <<disk, queue>>
    BY DEF MainStep, MainLoad, MainThread, MainArg, MainEnv, MainArgsDone, MainValidate,
           filter_init, MainLevel, logger_init
  <1>2. rl' = rl \/ rl = "none"
    BY DEF UpdateInv, UnsafeInv, MainStep, MainLoad, MainThread, MainArg, MainEnv,
           MainArgsDone, MainValidate, filter_init, MainLevel, logger_init
  <1> QED BY <1>1, <1>2 DEF UpdateInv, Following, disk, queue

\* A change of the file that is watched leaves an event or takes the watch away.
LEMMA UpdateEditor == UpdateInv /\ UnsafeInv' /\ Editor => UpdateInv'
  <1> SUFFICES ASSUME UpdateInv, Editor, UnsafeInv' PROVE UpdateInv'
    OBVIOUS
  <1>1. /\ edits \in Nat /\ edits' = edits + 1
        /\ UNCHANGED <<rl, main, failed>>
        /\ changed' => changed \/ (main = "running" /\ rl \notin {"none", "init", "ended"})
    BY DEF Editor, WriteFile, ReplaceFile, CreateFile, RemoveFile, MoveFileAway,
           RemoveBackup, Edit, UpdateInv, process, reloader
  <1>2. ASSUME NEW c \in Files, WriteFile(c) PROVE UpdateInv'
    BY <1>1, <1>2 DEF UpdateInv, WriteFile, Following, Progress
  <1>3. ASSUME NEW c \in Files, ReplaceFile(c) PROVE UpdateInv'
    BY <1>1, <1>3 DEF UpdateInv, ReplaceFile, WatchedFileGone, NewInode, Following, queue
  <1>4. ASSUME NEW c \in Files, CreateFile(c) PROVE UpdateInv'
    BY <1>1, <1>4 DEF UpdateInv, CreateFile, NewInode, Following, queue
  <1>5. CASE RemoveFile
    BY <1>1, <1>5 DEF UpdateInv, RemoveFile, WatchedFileGone, Following, queue
  <1>6. CASE MoveFileAway
    BY <1>1, <1>6 DEF UpdateInv, MoveFileAway, Following, queue
  <1>7. CASE RemoveBackup
    BY <1>1, <1>7 DEF UpdateInv, RemoveBackup, WatchedFileGone, Following
  <1> QED BY <1>2, <1>3, <1>4, <1>5, <1>6, <1>7 DEF Editor

\* The reload thread carries the last change from the event to g_config and the
\* logger; what it reads in the file is what is there after the event.
LEMMA UpdateReload == UpdateInv /\ UnsafeInv' /\ ReloadStep => UpdateInv'
  <1> SUFFICES ASSUME UpdateInv, ReloadStep, UnsafeInv' PROVE UpdateInv'
    OBVIOUS
  <1>1. UNCHANGED disk /\ main' = main /\ Parsed' = Parsed
    BY DEF ReloadStep, ReloadInit, ReadEvents, ReAddWatch, ReloadParse, ReloadNotOpened,
           CopyField, logger_set_level, filter_reload, process, Parsed, Disk, disk
  <1> USE DEF reloader, disk, queue
  <1>2. ASSUME NEW ok \in BOOLEAN, ReloadInit(ok) PROVE UpdateInv'
    BY <1>1, <1>2 DEF UpdateInv, ReloadInit, Following
  <1>3. CASE ReadEvents
    BY <1>1, <1>3 DEF UpdateInv, ReadEvents, Following, Progress
  <1>4. CASE ReAddWatch
    BY <1>1, <1>4 DEF UpdateInv, ReAddWatch, Following, Progress
  <1>5. CASE ReloadParse
    BY <1>1, <1>5 DEF UpdateInv, ReloadParse, Following, Progress, Copied
  <1>6. CASE ReloadNotOpened
    BY <1>1, <1>6 DEF UpdateInv, ReloadNotOpened, Following
  <1>7. CASE CopyField
    <2>1. copied \in 0 .. 14
      BY <1>7, SafeFieldsType DEF UpdateInv, UnsafeInv, CopyField
    <2>2. PICK s \in Fields :
            /\ s = SafeFields[copied + 1]
            /\ g_config' = [g_config EXCEPT ![s] = parsed_cfg[s]]
      <3>1. copied + 1 \in 1 .. 15
        BY <2>1
      <3> QED BY <1>7, <3>1, SafeFieldsType DEF CopyField
    <2>3. ASSUME Following PROVE DOMAIN g_config = Fields
      BY <2>3 DEF Following, UpdateInv, UnsafeInv
    <2>4. ASSUME Following, parsed_cfg = Parsed, Copied(copied)
          PROVE  \A i \in 1 .. copied + 1 : g_config'[SafeFields[i]] = Parsed[SafeFields[i]]
      <3>1. \A i \in 1 .. copied + 1 : SafeFields[i] \in Fields
        BY <2>1, SafeFieldsType
      <3>2. ASSUME NEW i \in 1 .. copied + 1
            PROVE  g_config'[SafeFields[i]] = Parsed[SafeFields[i]]
        BY <2>1, <2>2, <2>3, <2>4, <3>1 DEF Copied
      <3> QED BY <3>2
    <2>5. /\ rl = "copy" /\ copied' = copied + 1 /\ UNCHANGED <<failed, parsed_cfg, queue>>
          /\ rl' = IF copied + 1 = N THEN "level" ELSE "copy"
      BY <1>7 DEF CopyField, N
    <2>6. Following' => Following
      BY <1>1, <2>5 DEF Following
    <2>7. Following' => Progress'
      <3>1. CASE events # {}
        BY <2>5, <3>1 DEF Progress
      <3>2. ASSUME Following, events = {} PROVE Progress'
        <4>1. parsed_cfg = Parsed /\ Copied(copied)
          BY <2>5, <3>2 DEF UpdateInv, Progress
        <4>2. \A i \in 1 .. copied + 1 : g_config'[SafeFields[i]] = Parsed[SafeFields[i]]
          BY <2>4, <3>2, <4>1
        <4>3. CASE copied + 1 = N
          BY <1>1, <2>5, <4>2, <4>3 DEF Progress, Copied
        <4>4. CASE copied + 1 # N
          BY <1>1, <2>5, <4>1, <4>2, <4>4 DEF Progress, Copied
        <4> QED BY <4>3, <4>4
      <3> QED BY <2>6, <3>1, <3>2
    <2> QED BY <1>1, <2>5, <2>7 DEF UpdateInv
  <1>8. CASE logger_set_level
    <2>1. ASSUME Copied(N) PROVE g_config.log_level = Parsed.log_level
      BY <2>1, SafeFieldsType DEF Copied
    <2>2. UNCHANGED <<g_config, events, watch, failed>> /\ rl = "level" /\ rl' = "filter"
      BY <1>8 DEF logger_set_level
    <2>3. Copied(N) => Applied'
      BY <1>1, <1>8, <2>1, <2>2, SafeFieldsType DEF logger_set_level, Applied, Copied
    <2> QED BY <1>1, <2>2, <2>3 DEF UpdateInv, Following, Progress
  <1>9. CASE filter_reload
    BY <1>1, <1>9 DEF UpdateInv, filter_reload, Following, Progress, Applied
  <1> QED BY <1>2, <1>3, <1>4, <1>5, <1>6, <1>7, <1>8, <1>9 DEF ReloadStep

\* When the thread waits and its watch is on the file, g_config and the logger hold
\* what the last change of the file says, for any files and any number of changes.
THEOREM NoUpdateLost == Spec => []NoLostUpdate
  <1>1. UpdateInv /\ [Next]_vars => UpdateInv'
    <2> SUFFICES ASSUME UpdateInv, [Next]_vars PROVE UpdateInv'
      OBVIOUS
    <2>1. UnsafeInv'
      BY UnsafeStep DEF UpdateInv
    <2>2. CASE UNCHANGED vars
      BY <2>1, <2>2 DEF UpdateInv, Following, Progress, Copied, Applied, Parsed, Disk, vars,
                        process, reloader, disk, queue
    <2> QED BY <2>1, <2>2, UpdateMain, UpdateEditor, UpdateReload DEF Next
  <1>2. UpdateInv => NoLostUpdate
    BY DEF UpdateInv, NoLostUpdate, Following, Progress, Waiting
  <1> QED BY UpdateInit, <1>1, <1>2, PTL DEF Spec

=============================================================================
