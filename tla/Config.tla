------------------------------- MODULE Config -------------------------------
(***************************************************************************)
(* The configuration g_config: how main of src/src/Main.c builds it at      *)
(* startup from four sources, and how the hot-reload thread of              *)
(* src/src/config.c changes it afterwards when inotify reports that the     *)
(* configuration file has changed.  The two threads share g_config without  *)
(* a lock, and the reload thread is started before main is done with it.    *)
(*                                                                         *)
(* A text (in the file, the environment or the command line) is given by    *)
(* its characters and by the number atoi reads in them.                     *)
(***************************************************************************)
EXTENDS Integers, Sequences

CONSTANTS
  Files,         \* contents the configuration file can have: [keys -> texts]
  environment,   \* the PROXY_ variables, by the field they set
  CommandLines,  \* [ok : accepted by the parser, set : [options -> texts]]
  SizeMod,       \* 2^64, the values of size_t
  MaxEdits       \* bound: how often the file is changed

Texts == [text : STRING, atoi : Int]

ASSUME ConfigAssumption ==
  /\ SizeMod \in Nat /\ SizeMod > 209715200   \* the largest default
  /\ MaxEdits \in Nat
  /\ \A t \in Files \cup {environment} \cup {c.set : c \in CommandLines} :
       \A f \in DOMAIN t : t[f] \in Texts

-----------------------------------------------------------------------------
(* The fields of ProxyConfig *)

config_init_defaults ==
  [port |-> 8080, bind_address |-> "0.0.0.0", enable_ipv6 |-> FALSE,
   max_clients |-> 10, max_bytes |-> 4096, max_cache_size |-> 209715200,
   max_element_size |-> 10240,
   max_http1_connections |-> 50, max_http2_connections |-> 50,
   max_http3_connections |-> 0,
   enable_cache |-> TRUE, cache_dir |-> "",
   enable_auth |-> FALSE, auth_file |-> "", blocklist_file |-> "",
   allow_ip_file |-> "", deny_ip_file |-> "", url_blocklist_file |-> "",
   block_page_file |-> "",
   log_file |-> "proxy.log", log_level |-> "INFO", log_format |-> "SQUID",
   log_rotation |-> FALSE, log_max_size_mb |-> 10,
   enable_admin |-> TRUE, admin_port |-> 8081,
   enable_throttling |-> FALSE, rate_limit_rps |-> 100, rate_limit_burst |-> 20,
   bandwidth_limit_kbps |-> 1000,
   enable_https |-> TRUE, enable_http2 |-> FALSE, enable_http3 |-> FALSE,
   tls_verify_peer |-> TRUE, ca_bundle_file |-> "", crl_file |-> "",
   enable_filter |-> FALSE]

Fields == DOMAIN config_init_defaults

Flags == {"enable_ipv6", "enable_cache", "enable_auth", "log_rotation",
          "enable_admin", "enable_throttling", "enable_https", "enable_http2",
          "enable_http3", "tls_verify_peer", "enable_filter"}
Sizes == {"max_bytes", "max_cache_size", "max_element_size"}
Numbers == {"port", "max_clients", "max_http1_connections",
            "max_http2_connections", "max_http3_connections", "log_max_size_mb",
            "admin_port", "rate_limit_rps", "rate_limit_burst",
            "bandwidth_limit_kbps"}

\* What the file cannot set is not a field here: content_type_blocklist_file.
EnvKeys == Fields \ {"allow_ip_file", "deny_ip_file", "url_blocklist_file",
                     "block_page_file", "log_format", "enable_admin", "admin_port"}
ArgKeys == (EnvKeys \ {"log_rotation", "log_max_size_mb"})
             \cup {"allow_ip_file", "deny_ip_file"}

\* What a reload applies, in the order of the assignments.
SafeFields ==
  <<"log_level", "max_cache_size", "max_element_size", "enable_cache",
    "enable_throttling", "rate_limit_rps", "rate_limit_burst",
    "bandwidth_limit_kbps", "enable_filter", "blocklist_file", "allow_ip_file",
    "deny_ip_file", "url_blocklist_file", "block_page_file", "log_file">>

\* The lists that the filter loads.
ListFields == {"blocklist_file", "allow_ip_file", "deny_ip_file",
               "url_blocklist_file", "block_page_file"}

\* Assignment of a text to a field: atoi, atoll, strcasecmp with "true", strncpy.
Convert(f, t) ==
  IF f \in Numbers THEN t.atoi
  ELSE IF f \in Sizes THEN t.atoi % SizeMod
  ELSE IF f \in Flags THEN t.text \in {"true", "TRUE", "1"}
  ELSE t.text

Overlay(cfg, keys, texts) ==
  [f \in Fields |-> IF f \in keys \cap DOMAIN texts THEN Convert(f, texts[f])
                    ELSE cfg[f]]

config_load_file(cfg, texts) == Overlay(cfg, Fields, texts)
config_apply_env(cfg) == Overlay(cfg, EnvKeys, environment)

\* The levels of config_validate, in upper or lower case.
Spellings == [DEBUG |-> {"DEBUG", "debug"}, INFO |-> {"INFO", "info"},
              WARN |-> {"WARN", "warn"}, ERROR |-> {"ERROR", "error"}]

log_level_from_string(s) ==
  IF \E l \in DOMAIN Spellings : s \in Spellings[l]
  THEN CHOOSE l \in DOMAIN Spellings : s \in Spellings[l] ELSE "invalid"

\* The level given to the logger: compared with strcmp.
LevelEnum(s) == IF s \in {"DEBUG", "WARN", "ERROR", "CRITICAL"} THEN s ELSE "INFO"

config_validate(cfg) ==
  /\ cfg.port \in 1 .. 65535
  /\ cfg.bind_address # ""
  /\ cfg.max_clients >= 1 /\ cfg.max_bytes >= 1
  /\ cfg.max_cache_size >= 0 /\ cfg.max_element_size >= 1
  /\ cfg.enable_auth => cfg.auth_file # ""
  /\ cfg.log_file # ""
  /\ log_level_from_string(cfg.log_level) # "invalid"
  /\ cfg.log_max_size_mb >= 1
  /\ cfg.enable_throttling =>
       /\ cfg.rate_limit_rps >= 1 /\ cfg.rate_limit_burst >= 1
       /\ cfg.bandwidth_limit_kbps >= 1

\* The part of a configuration that filter_init copies and filter_reload uses.
Lists(cfg) == [f \in ListFields |-> cfg[f]]

-----------------------------------------------------------------------------
(* State *)

VARIABLES
  main,            \* where main is
  cmdline,         \* the command line of this process
  options,         \* options that config_apply_args has still to apply
  g_config,
  loaded,          \* history: what main read in the file
  l_enum,          \* main's copy of the level, on its way to logger_init
  level,           \* g_logger_config.level
  saved_cfg, filter_enabled, filter_lists,   \* of filter.c
  rl,              \* where the reload thread is
  should_reload, parsed_cfg, copied,         \* its locals
  inode,           \* the file that config_path names, 0 when there is none
  content,         \* what is in it
  watch,           \* the file that inotify watches, 0 when there is none
  events,          \* kinds of events queued on the inotify descriptor
  edits,           \* number of changes made to the file
  changed,         \* history: one of them was made with the proxy up and watching
  failed           \* history: the last reload could not open the file

process == <<main, cmdline, options, loaded, l_enum, saved_cfg, filter_enabled>>
reloader == <<should_reload, parsed_cfg, copied, failed>>
disk == <<inode, content, edits, changed>>
queue == <<watch, events>>
vars == <<process, g_config, level, filter_lists, rl, reloader, disk, queue>>

\* The values of the variables; every field keeps its kind.
TypeOK ==
  /\ main \in {"load", "env", "thread", "args", "validate", "filter", "level",
               "logger", "running", "exited"}
  /\ rl \in {"none", "init", "read", "sleep", "parse", "copy", "level", "filter",
             "ended"}
  /\ \A cfg \in {g_config, parsed_cfg} :
       /\ DOMAIN cfg = Fields
       /\ \A f \in Flags : cfg[f] \in BOOLEAN
       /\ \A f \in Numbers : cfg[f] \in Int
       /\ \A f \in Sizes : cfg[f] \in 0 .. SizeMod - 1
       /\ \A f \in Fields \ (Flags \cup Numbers \cup Sizes) : cfg[f] \in STRING
  /\ copied \in 0 .. Len(SafeFields)
  /\ events \subseteq {"modify", "ignored"}
  /\ edits \in 0 .. MaxEdits
  /\ inode \in 0 .. edits + 1 /\ watch \in 0 .. edits + 1
  /\ {should_reload, changed, failed, filter_enabled} \subseteq BOOLEAN

Empty == [f \in {} |-> ""]

\* What fopen finds: a file that does not exist counts as an empty one.
Disk == IF inode = 0 THEN Empty ELSE content

Init ==
  /\ main = "load" /\ rl = "none"
  /\ cmdline \in CommandLines /\ options = {}
  /\ g_config = config_init_defaults /\ loaded = Empty
  /\ l_enum = "INFO" /\ level = "INFO"
  /\ saved_cfg = Lists(config_init_defaults)
  /\ filter_enabled = FALSE /\ filter_lists = Lists(config_init_defaults)
  /\ should_reload = FALSE /\ parsed_cfg = config_init_defaults /\ copied = 0
  /\ inode \in {0, 1} /\ content \in Files
  /\ watch = 0 /\ events = {} /\ edits = 0
  /\ changed = FALSE /\ failed = FALSE

-----------------------------------------------------------------------------
(* Startup: main of Main.c *)

\* config_load_file; its result is not looked at when the file cannot be opened.
MainLoad(opened) ==
  /\ main = "load"
  /\ loaded' = IF opened THEN Disk ELSE Empty
  /\ g_config' = config_load_file(g_config, loaded')
  /\ main' = "env"
  /\ UNCHANGED <<cmdline, options, l_enum, saved_cfg, filter_enabled, level,
                 filter_lists, rl, reloader, disk, queue>>

MainEnv ==
  /\ main = "env"
  /\ g_config' = config_apply_env(g_config)
  /\ main' = "thread"
  /\ UNCHANGED <<cmdline, options, loaded, l_enum, saved_cfg, filter_enabled, level,
                 filter_lists, rl, reloader, disk, queue>>

\* config_start_hot_reload, before the command line is looked at; that the thread
\* cannot be created is not noticed.
MainThread(created) ==
  /\ main = "thread"
  /\ rl' = IF created THEN "init" ELSE "none"
  /\ options' = ArgKeys \cap DOMAIN cmdline.set
  /\ main' = "args"
  /\ UNCHANGED <<cmdline, loaded, l_enum, saved_cfg, filter_enabled, g_config, level,
                 filter_lists, reloader, disk, queue>>

\* One option of config_apply_args, or the port given as the only argument.
MainArg(f) ==
  /\ main = "args" /\ f \in options
  /\ g_config' = [g_config EXCEPT ![f] = Convert(f, cmdline.set[f])]
  /\ options' = options \ {f}
  /\ UNCHANGED <<main, cmdline, loaded, l_enum, saved_cfg, filter_enabled, level,
                 filter_lists, rl, reloader, disk, queue>>

\* --help, an unknown option or a wrong format ends the process.
MainArgsDone ==
  /\ main = "args" /\ options = {}
  /\ main' = IF cmdline.ok THEN "validate" ELSE "exited"
  /\ UNCHANGED <<cmdline, options, loaded, l_enum, saved_cfg, filter_enabled, g_config,
                 level, filter_lists, rl, reloader, disk, queue>>

MainValidate ==
  /\ main = "validate"
  /\ main' = IF config_validate(g_config) THEN "filter" ELSE "exited"
  /\ UNCHANGED <<cmdline, options, loaded, l_enum, saved_cfg, filter_enabled, g_config,
                 level, filter_lists, rl, reloader, disk, queue>>

filter_init ==
  /\ main = "filter"
  /\ saved_cfg' = Lists(g_config)
  /\ filter_enabled' = g_config.enable_filter
  /\ filter_lists' = IF filter_enabled' THEN saved_cfg' ELSE filter_lists
  /\ main' = "level"
  /\ UNCHANGED <<cmdline, options, loaded, l_enum, g_config, level, rl, reloader, disk,
                 queue>>

MainLevel ==
  /\ main = "level"
  /\ l_enum' = LevelEnum(g_config.log_level)
  /\ main' = "logger"
  /\ UNCHANGED <<cmdline, options, loaded, saved_cfg, filter_enabled, g_config, level,
                 filter_lists, rl, reloader, disk, queue>>

logger_init ==
  /\ main = "logger"
  /\ level' = l_enum
  /\ main' = "running"
  /\ UNCHANGED <<cmdline, options, loaded, l_enum, saved_cfg, filter_enabled, g_config,
                 filter_lists, rl, reloader, disk, queue>>

-----------------------------------------------------------------------------
(* hot_reload_thread *)

Alive == main # "exited"

\* inotify_init and the first inotify_add_watch, which needs the file to exist;
\* without them the thread ends.
ReloadInit(ok) ==
  /\ rl = "init" /\ Alive
  /\ IF ok /\ inode # 0 THEN rl' = "read" /\ watch' = inode
                        ELSE rl' = "ended" /\ UNCHANGED watch
  /\ UNCHANGED <<process, g_config, level, filter_lists, reloader, disk, events>>

\* read returns every event that is queued.
ReadEvents ==
  /\ rl = "read" /\ Alive /\ events # {}
  /\ events' = {}
  /\ should_reload' = ("modify" \in events)
  /\ rl' = IF "ignored" \in events THEN "sleep" ELSE "parse"
  /\ UNCHANGED <<process, g_config, level, filter_lists, parsed_cfg, copied, failed,
                 disk, watch>>

\* Fault: the watch is placed again but the file is not read.
ReAddWatchOnly ==
  /\ rl = "sleep" /\ Alive
  /\ watch' = inode
  /\ rl' = IF should_reload THEN "parse" ELSE "read"
  /\ UNCHANGED <<process, g_config, level, filter_lists, reloader, disk, events>>

\* After 100 ms the watch is placed again, once; it fails when no file is there.
ReAddWatch ==
  /\ rl = "sleep" /\ Alive
  /\ watch' = inode
  /\ rl' = IF inode # 0 \/ should_reload THEN "parse" ELSE "read"
  /\ UNCHANGED <<process, g_config, level, filter_lists, reloader, disk, events>>

\* The defaults, the file and the environment, into a fresh configuration.
Parsed == config_apply_env(config_load_file(config_init_defaults, Disk))

\* Fault: the thread returns when the new configuration is not valid.
ReloadParseOrReturn ==
  /\ rl = "parse" /\ Alive
  /\ parsed_cfg' = Parsed
  /\ copied' = 0 /\ failed' = FALSE
  /\ rl' = IF config_validate(Parsed) THEN "copy" ELSE "ended"
  /\ UNCHANGED <<process, g_config, level, filter_lists, should_reload, disk, queue>>

ReloadParse ==
  /\ rl = "parse" /\ Alive
  /\ parsed_cfg' = Parsed
  /\ copied' = 0 /\ failed' = FALSE
  /\ rl' = "copy"
  /\ UNCHANGED <<process, g_config, level, filter_lists, should_reload, disk, queue>>

\* The file exists and cannot be opened: the reload is given up, and not retried.
ReloadNotOpened ==
  /\ rl = "parse" /\ Alive /\ inode # 0
  /\ failed' = TRUE
  /\ rl' = "read"
  /\ UNCHANGED <<process, g_config, level, filter_lists, should_reload, parsed_cfg,
                 copied, disk, queue>>

\* Fault: the whole structure is copied.
CopyFieldAll ==
  /\ rl = "copy" /\ Alive
  /\ g_config' = parsed_cfg
  /\ copied' = Len(SafeFields)
  /\ rl' = "level"
  /\ UNCHANGED <<process, level, filter_lists, should_reload, parsed_cfg, failed, disk,
                 queue>>

\* One assignment to g_config; other threads run between two of them.
CopyField ==
  /\ rl = "copy" /\ Alive
  /\ LET f == SafeFields[copied + 1]
     IN  g_config' = [g_config EXCEPT ![f] = parsed_cfg[f]]
  /\ copied' = copied + 1
  /\ rl' = IF copied' = Len(SafeFields) THEN "level" ELSE "copy"
  /\ UNCHANGED <<process, level, filter_lists, should_reload, parsed_cfg, failed, disk,
                 queue>>

logger_set_level ==
  /\ rl = "level" /\ Alive
  /\ level' = LevelEnum(g_config.log_level)
  /\ rl' = "filter"
  /\ UNCHANGED <<process, g_config, filter_lists, reloader, disk, queue>>

\* The lists are read again from where they were at startup.
filter_reload ==
  /\ rl = "filter" /\ Alive
  /\ filter_lists' = IF filter_enabled THEN saved_cfg ELSE filter_lists
  /\ rl' = "read"
  /\ UNCHANGED <<process, g_config, level, reloader, disk, queue>>

-----------------------------------------------------------------------------
(* Who edits the file, and what inotify reports of it *)

\* A change of the file; "changed" when the proxy is up and follows it.
Edit ==
  /\ edits < MaxEdits
  /\ edits' = edits + 1
  /\ changed' = (changed \/ (main = "running" /\ rl \notin {"none", "init", "ended"}))
  /\ UNCHANGED <<process, g_config, level, filter_lists, rl, reloader>>

NewInode == edits + 2

\* The watched file is gone: IN_IGNORED, and the watch with it.
WatchedFileGone == watch' = 0 /\ events' = events \cup {"ignored"}

\* The file is written in place, or emptied: IN_MODIFY, and IN_CLOSE_WRITE later,
\* which can only cause one more reload.
WriteFile(c) ==
  /\ Edit /\ inode # 0 /\ content' = c
  /\ events' = IF watch = inode THEN events \cup {"modify"} ELSE events
  /\ UNCHANGED <<inode, watch>>

\* A new file is renamed over it.
ReplaceFile(c) ==
  /\ Edit /\ inode # 0
  /\ inode' = NewInode /\ content' = c
  /\ IF watch = inode THEN WatchedFileGone ELSE UNCHANGED queue

RemoveFile ==
  /\ Edit /\ inode # 0
  /\ inode' = 0
  /\ IF watch = inode THEN WatchedFileGone ELSE UNCHANGED queue
  /\ UNCHANGED content

\* It becomes a backup under another name; the watch follows it.
MoveFileAway ==
  /\ Edit /\ inode # 0
  /\ inode' = 0
  /\ UNCHANGED <<content, queue>>

CreateFile(c) ==
  /\ Edit /\ inode = 0
  /\ inode' = NewInode /\ content' = c
  /\ UNCHANGED queue

\* The backup is deleted.
RemoveBackup ==
  /\ Edit /\ watch \notin {0, inode}
  /\ WatchedFileGone
  /\ UNCHANGED <<inode, content>>

-----------------------------------------------------------------------------

MainStep ==
  \/ \E ok \in BOOLEAN : MainLoad(ok) \/ MainThread(ok)
  \/ \E f \in options : MainArg(f)
  \/ MainEnv \/ MainArgsDone \/ MainValidate \/ filter_init \/ MainLevel \/ logger_init

ReloadStep ==
  \/ \E ok \in BOOLEAN : ReloadInit(ok)
  \/ ReadEvents \/ ReAddWatch \/ ReloadParse \/ ReloadNotOpened \/ CopyField
  \/ logger_set_level \/ filter_reload

Editor ==
  \/ \E c \in Files : WriteFile(c) \/ ReplaceFile(c) \/ CreateFile(c)
  \/ RemoveFile \/ MoveFileAway \/ RemoveBackup

Next == MainStep \/ ReloadStep \/ Editor

Spec == Init /\ [][Next]_vars

\* Both threads keep running; nothing is assumed of who edits the file.
FairSpec == Spec /\ WF_vars(MainStep) /\ WF_vars(ReloadStep)

-----------------------------------------------------------------------------
(* Properties *)

Running == main = "running"

\* The reload thread watches the file that config_path names, and waits.
Waiting == rl = "read" /\ events = {} /\ watch = inode /\ inode # 0

\* g_config and the logger hold what the file and the environment say now.
Applied ==
  /\ \A i \in 1 .. Len(SafeFields) : g_config[SafeFields[i]] = Parsed[SafeFields[i]]
  /\ level = LevelEnum(Parsed.log_level)

\* Where a field has its value from, the four sources of config.h in their order.
Precedence(f) ==
  IF f \in ArgKeys \cap DOMAIN cmdline.set THEN Convert(f, cmdline.set[f])
  ELSE config_apply_env(config_load_file(config_init_defaults, loaded))[f]

\* Fields that a reload must not touch keep, for as long as the proxy runs, the value
\* of the strongest source at startup, however the reload thread overlaps with main.
UnsafeFieldsKept ==
  Running => \A f \in Fields : (\A i \in 1 .. Len(SafeFields) : SafeFields[i] # f)
                                 => g_config[f] = Precedence(f)

\* No update is lost: when the thread waits for events and its watch is on the file,
\* every change made since it follows the file has been applied, in whatever order
\* changes, events, sleeping, parsing and copying overlapped.
NoLostUpdate == (changed /\ Waiting /\ ~failed) => Applied

\* A change does reach g_config, unless the file cannot be opened or the watch is not
\* on it.
ChangeApplied == changed ~> (Applied \/ failed \/ watch # inode \/ inode = 0)

=============================================================================
