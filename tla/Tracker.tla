------------------------------- MODULE Tracker -------------------------------
(***************************************************************************)
(* The public calls of src/forgeops_tracker.c on the settings they share:  *)
(* the configuration that the first call creates without a lock, the       *)
(* warning given once, the settings the application changes between calls, *)
(* and where what a call was given goes from there: into the calling       *)
(* thread's trail or trace, onto disk, into the buckets, and out of the    *)
(* process, in this run or, after a crash, in the next one.                *)
(*                                                                         *)
(* What a call does once it has the configuration is one step, for the     *)
(* components' own modules model its parts; a capture is three, for it     *)
(* reads the settings twice and what it registers may run in between.      *)
(* Settings change between such steps, never within one.                   *)
(***************************************************************************)
EXTENDS EventBuilder

CONSTANTS
  Threads,
  Environments,  \* settings the environment variables may give a new struct
  Changes,       \* settings the application may put into its struct
  Programs,      \* bound: for each thread, the calls it makes and how many in all runs
  MaxRuns        \* bound: runs of the program

Settings == [dsn : BOOLEAN, production : BOOLEAN, strict : BOOLEAN, scrub : BOOLEAN]

Features == {"upload", "performance", "spans"}
ActiveOps == {"capture", "sample", "trace_start", "flush", "install", "upload"}
Ops == ActiveOps \cup {"configure", "breadcrumb", "span", "trace_stop", "set_user"}

ASSUME TrackerAssumption ==
  /\ Environments \subseteq Settings /\ Changes \subseteq Settings
  /\ Programs \subseteq [Threads -> [ops : SUBSET Ops, calls : Nat]] /\ MaxRuns \in Nat \ {0}

VARIABLES
  program,      \* the program: a member of Programs
  environment,  \* the settings this run's environment variables give
  structs,      \* the configurations created in this run, settings of each
  shared,       \* shared_configuration: an index of structs, 0 for NULL
  warned,       \* environment_warning_given
  installed,    \* handlers_installed
  registered,   \* the features whose exit hook was ever registered
  hooks,        \* the exit hooks still to run, in the order of registration
  workerConfig, \* worker_config of the buckets and of the span queue
  spansWorker,  \* the span queue's worker: "none", "running", "stopped"
  call,         \* thread -> the call it is in
  user,         \* thread -> the call that set its current user, or 0
  trail,        \* thread -> the items of its breadcrumbs
  trace,        \* thread -> the items of its open trace, or NoTrace
  buckets,      \* the items of the performance buckets
  queue,        \* the items of the traces queued for delivery
  disk,         \* the stored reports
  phase,        \* "running", "exiting", "ended"
  \* history
  asked,        \* the settings the application wants: the last it wrote, or the environment's
  handed,       \* what it wanted when each call handed over its text
  sent,         \* every item that left the process
  warnings,     \* warnings given in this run
  unprinted,    \* the warning of this run could not be printed
  overlap,      \* two threads once found no shared configuration at once
  missed,       \* in this run a delivery failed, or was not tried, or had no hook to come
  made,         \* thread -> calls it has begun
  runs          \* runs begun

configuration == <<environment, structs, shared>>
exitHooks == <<registered, hooks, workerConfig, spansWorker>>
contents == <<user, trail, trace, buckets, queue, disk>>
wishes == <<asked, handed>>
notices == <<warnings, unprinted>>
history == <<wishes, sent, notices, overlap, missed, made, runs>>
vars == <<program, configuration, warned, installed, exitHooks, call, contents, phase, history>>

NoTrace == {"no trace"}
\* A call: where it is, what it was made for, its configuration, and whether
\* it found the warning due.
At(pc, op, config, due) == [pc |-> pc, op |-> op, config |-> config, due |-> due]
Idle == At("idle", "none", 0, FALSE)
NoWorker == [performance |-> 0, spans |-> 0]

\* Where a call is that has the warning behind it: a capture, after its first
\* look at the settings, is at "hook" or "write" when it is enabled, at "off"
\* when it is not.
GoneOn == {"act", "hook", "write", "off"}

\* A report on disk: complete, or the raw lines of a signal handler.
Report(raw, items) == [raw |-> raw, items |-> items, run |-> runs]

TypeOK ==
  /\ program \in Programs /\ environment \in Environments
  /\ structs \in Seq(Settings) /\ shared \in 0..Len(structs)
  /\ warned \in BOOLEAN /\ installed \in BOOLEAN
  /\ registered \subseteq Features /\ {hooks[i] : i \in DOMAIN hooks} \subseteq registered
  /\ workerConfig \in [performance : 0..Len(structs), spans : 0..Len(structs)]
  /\ \A t \in Threads :
       /\ call[t].pc \in {"idle", "create", "have", "warn", "exchange", "print", "exit"} \cup GoneOn
       /\ call[t].pc \notin {"idle", "exit"} => call[t].op \in Ops
       /\ call[t].config \in 0..Len(structs)
       /\ user[t] \in 0..Len(handed)
  /\ spansWorker \in {"none", "running", "stopped"}
  /\ phase \in {"running", "exiting", "ended"}
  /\ made \in [Threads -> Nat] /\ warnings \in Nat /\ runs \in 1..MaxRuns

\* What a process keeps in memory, as it is before the first call.
NoMemory ==
  /\ structs' = << >> /\ shared' = 0 /\ warned' = FALSE /\ installed' = FALSE
  /\ registered' = {} /\ hooks' = << >> /\ workerConfig' = NoWorker /\ spansWorker' = "none"
  /\ call' = [t \in Threads |-> Idle]
  /\ user' = [t \in Threads |-> 0] /\ trail' = [t \in Threads |-> {}]
  /\ trace' = [t \in Threads |-> NoTrace]
  /\ buckets' = {} /\ queue' = {} /\ warnings' = 0 /\ unprinted' = FALSE

Init ==
  /\ program \in Programs
  /\ environment \in Environments /\ asked = environment
  /\ structs = << >> /\ shared = 0 /\ warned = FALSE /\ installed = FALSE
  /\ registered = {} /\ hooks = << >> /\ workerConfig = NoWorker /\ spansWorker = "none"
  /\ call = [t \in Threads |-> Idle]
  /\ user = [t \in Threads |-> 0] /\ trail = [t \in Threads |-> {}]
  /\ trace = [t \in Threads |-> NoTrace]
  /\ buckets = {} /\ queue = {} /\ disk = {}
  /\ phase = "running"
  /\ handed = << >> /\ sent = {} /\ warnings = 0 /\ unprinted = FALSE
  /\ overlap = FALSE /\ missed = FALSE /\ made = [t \in Threads |-> 0] /\ runs = 1

-----------------------------------------------------------------------------
(***************************************************************************)
(* Getting the configuration.                                              *)
(***************************************************************************)

\* Where a call goes on that has its configuration.
With(op, config) == At(IF op \in ActiveOps THEN "warn" ELSE "act", op, config, FALSE)

\* The program makes the call.
Calls(t, op) ==
  /\ call[t] = Idle /\ op \in program[t].ops /\ made[t] < program[t].calls
  /\ made' = [made EXCEPT ![t] = @ + 1]

\* A call is made and looks at shared_configuration.  Handlers are installed
\* once, and a span or a trace that is not active returns at once.
Begin(t, op) ==
  /\ phase # "ended" /\ Calls(t, op)
  /\ op = "install" => ~installed
  /\ op \in {"span", "trace_stop"} => trace[t] # NoTrace
  /\ installed' = (installed \/ op = "install")
  /\ call' = [call EXCEPT ![t] = IF shared = 0 THEN At("create", op, 0, FALSE) ELSE With(op, shared)]
  /\ overlap' = (overlap \/ (shared = 0 /\ \E u \in Threads : call[u].pc = "create"))
  /\ UNCHANGED <<program, configuration, warned, exitHooks, contents, phase, wishes, sent, notices,
                 missed, runs>>

\* forgeops_configuration_create, stored.
Create(t) ==
  /\ phase # "ended" /\ call[t].pc = "create"
  /\ structs' = Append(structs, environment)
  /\ shared' = Len(structs) + 1
  /\ call' = [call EXCEPT ![t] = At("have", call[t].op, Len(structs) + 1, FALSE)]
  /\ UNCHANGED <<program, environment, warned, installed, exitHooks, contents, phase, history>>

\* The result is read from shared_configuration again, or is what was just
\* stored: without synchronisation the compiler may do either.
Have(t) ==
  /\ phase # "ended" /\ call[t].pc = "have"
  /\ \E config \in {shared, call[t].config} : call' = [call EXCEPT ![t] = With(call[t].op, config)]
  /\ UNCHANGED <<program, configuration, warned, installed, exitHooks, contents, phase, history>>

Misconfigured(config) == config.dsn /\ ~config.production

\* warn_once_if_environment_is_not_enabled, up to the exchange.
WarnCheck(t) ==
  /\ phase # "ended" /\ call[t].pc = "warn"
  /\ LET due == Misconfigured(structs[call[t].config])
     IN call' = [call EXCEPT ![t] = At(IF due /\ ~warned THEN "exchange" ELSE "act",
                                       call[t].op, call[t].config, due)]
  /\ UNCHANGED <<program, configuration, warned, installed, exitHooks, contents, phase, history>>

\* Sets the flag without looking at it again.
MutWarnExchange(t) ==
  /\ phase # "ended" /\ call[t].pc = "exchange"
  /\ warned' = TRUE
  /\ call' = [call EXCEPT ![t].pc = "print"]
  /\ UNCHANGED <<program, configuration, installed, exitHooks, contents, phase, history>>

\* The thread whose exchange finds the flag clear is to give the warning; one
\* that finds it set goes on.
WarnExchange(t) ==
  /\ phase # "ended" /\ call[t].pc = "exchange"
  /\ warned' = TRUE
  /\ call' = [call EXCEPT ![t].pc = IF warned THEN "act" ELSE "print"]
  /\ UNCHANGED <<program, configuration, installed, exitHooks, contents, phase, history>>

\* It is printed, unless there is no memory for its text.
WarnPrint(t) ==
  /\ phase # "ended" /\ call[t].pc = "print"
  /\ \/ warnings' = warnings + 1 /\ UNCHANGED unprinted
     \/ unprinted' = TRUE /\ UNCHANGED warnings
  /\ call' = [call EXCEPT ![t].pc = "act"]
  /\ UNCHANGED <<program, configuration, warned, installed, exitHooks, contents, phase, wishes, sent,
                 overlap, missed, made, runs>>

-----------------------------------------------------------------------------
(***************************************************************************)
(* What the calls do.                                                      *)
(***************************************************************************)
Acting(t, op) == phase # "ended" /\ call[t].pc = "act" /\ call[t].op = op
ConfigOf(t) == structs[call[t].config]
Enabled(config) == config.dsn /\ config.production
NewText == Len(handed) + 1

Return(t) == call' = [call EXCEPT ![t] = Idle]

\* history: the text the call handed over, used or not.
Hand == handed' = Append(handed, asked)

\* One flag for the hooks of all features.
MutRegisterHook(feature) ==
  /\ registered' = registered \cup {feature}
  /\ hooks' = IF registered # {} THEN hooks ELSE Append(hooks, feature)

\* atexit, the first time the feature is used in this process.
RegisterHook(feature) ==
  /\ registered' = registered \cup {feature}
  /\ hooks' = IF feature \in registered THEN hooks ELSE Append(hooks, feature)

\* A capture has set the flag of the upload and not called atexit yet.
Registering(feature) == feature = "upload" /\ \E t \in Threads : call[t].pc = "hook"

\* The feature's hook has run: it does not run again.
Late(feature) ==
  /\ phase = "exiting" /\ feature \in registered /\ ~Registering(feature)
  /\ ~\E i \in DOMAIN hooks : hooks[i] = feature

\* The application writes to the struct it was given.
Configure(t) ==
  /\ Acting(t, "configure")
  /\ \E settings \in Changes :
       /\ structs' = [structs EXCEPT ![call[t].config] = settings]
       /\ asked' = settings
  /\ Return(t)
  /\ UNCHANGED <<program, environment, shared, warned, installed, exitHooks, contents, phase, handed,
                 sent, notices, overlap, missed, made, runs>>

\* Records under strict privacy too.
MutAddBreadcrumb(t) ==
  /\ Acting(t, "breadcrumb")
  /\ trail' = [trail EXCEPT ![t] = @ \cup {Scrubbed(ConfigOf(t), "crumb", NewText)}]
  /\ Return(t) /\ Hand
  /\ UNCHANGED <<program, configuration, warned, installed, exitHooks, user, trace, buckets, queue, disk, phase,
                 asked, sent, notices, overlap, missed, made, runs>>

\* forgeops_breadcrumb_add: strict privacy records none.
AddBreadcrumb(t) ==
  /\ Acting(t, "breadcrumb")
  /\ trail' = [trail EXCEPT ![t] = @ \cup (IF ConfigOf(t).strict THEN {}
                                           ELSE {Scrubbed(ConfigOf(t), "crumb", NewText)})]
  /\ Return(t) /\ Hand
  /\ UNCHANGED <<program, configuration, warned, installed, exitHooks, user, trace, buckets, queue, disk, phase,
                 asked, sent, notices, overlap, missed, made, runs>>

\* forgeops_tracker_clear_breadcrumbs and forgeops_tracker_set_user need no
\* configuration.
ClearBreadcrumbs(t) ==
  /\ phase # "ended" /\ call[t] = Idle /\ trail[t] # {}
  /\ trail' = [trail EXCEPT ![t] = {}]
  /\ UNCHANGED <<program, configuration, warned, installed, exitHooks, call, user, trace, buckets,
                 queue, disk, phase, history>>

SetUser(t) ==
  /\ phase # "ended" /\ Calls(t, "set_user")
  /\ \E of \in {0, NewText} : user' = [user EXCEPT ![t] = of]
  /\ Hand
  /\ UNCHANGED <<program, configuration, warned, installed, exitHooks, call, trail, trace, buckets,
                 queue, disk, phase,
                 asked, sent, notices, overlap, missed, runs>>

\* forgeops_tracker_capture_error_with_sql: the first capture that is enabled
\* sets the flag of the upload,
Capture(t) ==
  /\ Acting(t, "capture")
  /\ registered' = IF Enabled(ConfigOf(t)) THEN registered \cup {"upload"} ELSE registered
  /\ call' = [call EXCEPT ![t].pc = IF ~Enabled(ConfigOf(t)) THEN "off"
                                   ELSE IF "upload" \in registered THEN "write" ELSE "hook"]
  /\ UNCHANGED <<program, configuration, warned, installed, hooks, workerConfig, spansWorker, contents,
                 phase, history>>

\* calls atexit,
CaptureHook(t) ==
  /\ phase # "ended" /\ call[t].pc = "hook"
  /\ hooks' = Append(hooks, "upload")
  /\ call' = [call EXCEPT ![t].pc = "write"]
  /\ UNCHANGED <<program, configuration, warned, installed, registered, workerConfig, spansWorker,
                 contents, phase, history>>

\* and the event is stored if the settings, read again, are enabled, with the
\* user it was given or the current one.
CaptureWrite(t) ==
  /\ phase # "ended" /\ call[t].pc \in {"write", "off"}
  /\ IF Enabled(ConfigOf(t))
       THEN /\ \E who \in {user[t], NewText} :
                 disk' = disk \cup {Report(FALSE, BuildEvent(ConfigOf(t), NewText, who, trail[t]))}
            /\ missed' = (missed \/ Late("upload") \/ "upload" \notin registered)
       ELSE UNCHANGED <<disk, missed>>
  /\ Return(t) /\ Hand
  /\ UNCHANGED <<program, configuration, warned, installed, exitHooks, user, trail, trace, buckets,
                 queue, phase,
                 asked, sent, notices, overlap, made, runs>>

\* forgeops_tracker_record_performance
RecordPerformance(t) ==
  /\ Acting(t, "sample")
  /\ IF Enabled(ConfigOf(t))
       THEN /\ buckets' = buckets \cup {SampleItem(ConfigOf(t), NewText)}
            /\ RegisterHook("performance")
            /\ workerConfig' = [workerConfig EXCEPT !.performance = call[t].config]
            /\ missed' = (missed \/ Late("performance"))
       ELSE UNCHANGED <<buckets, registered, hooks, workerConfig, missed>>
  /\ Return(t) /\ Hand
  /\ UNCHANGED <<program, configuration, warned, installed, spansWorker, user, trail, trace, queue, disk, phase,
                 asked, sent, notices, overlap, made, runs>>

TraceStart(t) ==
  /\ Acting(t, "trace_start")
  /\ trace' = [trace EXCEPT ![t] = IF trace[t] = NoTrace /\ Enabled(ConfigOf(t)) THEN {} ELSE @]
  /\ Return(t)
  /\ UNCHANGED <<program, configuration, warned, installed, exitHooks, user, trail, buckets, queue, disk, phase,
                 wishes, sent, notices, overlap, missed, made, runs>>

\* A span is encoded when it is recorded, not when its trace is sent.
RecordSpan(t) ==
  /\ Acting(t, "span")
  /\ trace' = [trace EXCEPT ![t] = @ \cup SpanItems(ConfigOf(t), NewText)]
  /\ Return(t) /\ Hand
  /\ UNCHANGED <<program, configuration, warned, installed, exitHooks, user, trail, buckets, queue, disk, phase,
                 asked, sent, notices, overlap, missed, made, runs>>

\* The root span is encoded now.  A trace below the threshold is let go.  A
\* worker is created as long as none could be.
TraceStop(t) ==
  /\ Acting(t, "trace_stop")
  /\ trace' = [trace EXCEPT ![t] = NoTrace]
  /\ \/ /\ queue' = queue \cup trace[t] \cup {SpanName(ConfigOf(t), NewText)}
        /\ RegisterHook("spans")
        /\ workerConfig' = [workerConfig EXCEPT !.spans = call[t].config]
        /\ spansWorker' \in IF spansWorker = "none" THEN {"none", "running"} ELSE {spansWorker}
        /\ missed' = (missed \/ Late("spans"))
     \/ UNCHANGED <<queue, exitHooks, missed>>
  /\ Return(t) /\ Hand
  /\ UNCHANGED <<program, configuration, warned, installed, user, trail, buckets, disk, phase,
                 asked, sent, notices, overlap, made, runs>>

\* What an upload sends of the reports that get through: a raw one is
\* completed under the settings, and with the user of the thread, that
\* upload it.
Payloads(config, who, reports) ==
  UNION {IF report.raw THEN CompleteReport(config, who, report.items) ELSE report.items : report \in reports}

\* forgeops_upload_pending_reports: any of the reports may fail for now.
Uploadable(config) == IF Enabled(config) THEN SUBSET disk ELSE {{}}

Upload(config, who) ==
  \E reports \in Uploadable(config) :
    /\ sent' = sent \cup Payloads(config, who, reports)
    /\ disk' = disk \ reports
    /\ missed' = (missed \/ reports # disk)

\* forgeops_performance_flush: needs an address; what fails stays, until it
\* has failed too often.  soFar is what the call has sent before.
FlushSamples(config, soFar, missedSoFar) ==
  \/ /\ config.dsn \/ buckets = {}
     /\ sent' = soFar \cup buckets
     /\ buckets' = {}
     /\ missed' = missedSoFar
  \/ /\ buckets # {} /\ buckets' \in {buckets, {}}
     /\ sent' = soFar
     /\ missed' = TRUE

\* forgeops_tracker_flush, in the order of its calls.
Flush(t) ==
  /\ Acting(t, "flush")
  /\ LET config == ConfigOf(t)
     IN \E reports \in Uploadable(config) :
          /\ disk' = disk \ reports
          /\ FlushSamples(config, sent \cup Payloads(config, user[t], reports), missed \/ reports # disk)
  /\ Return(t)
  /\ UNCHANGED <<program, configuration, warned, installed, exitHooks, user, trail, trace, queue, phase,
                 wishes, notices, overlap, made, runs>>

\* forgeops_tracker_upload_pending_reports
UploadPending(t) ==
  /\ Acting(t, "upload")
  /\ Upload(ConfigOf(t), user[t])
  /\ Return(t)
  /\ UNCHANGED <<program, configuration, warned, installed, exitHooks, user, trail, trace, buckets,
                 queue, phase,
                 wishes, notices, overlap, made, runs>>

\* forgeops_tracker_install_handlers goes on with an upload, which gets the
\* configuration anew.
InstallHandlers(t) ==
  /\ Acting(t, "install")
  /\ call' = [call EXCEPT ![t] = With("upload", shared)]
  /\ UNCHANGED <<program, configuration, warned, installed, exitHooks, contents, phase, history>>

\* The flush thread wakes, every minute.
PerformanceWorker ==
  /\ phase # "ended" /\ workerConfig.performance # 0 /\ buckets # {}
  /\ FlushSamples(structs[workerConfig.performance], sent, missed)
  /\ UNCHANGED <<program, configuration, warned, installed, exitHooks, call, user, trail, trace, queue,
                 disk, phase,
                 wishes, notices, overlap, made, runs>>

\* The worker of the span queue, while it runs, delivers what there is, once.
DeliverQueue ==
  /\ queue' = {}
  /\ \/ structs[workerConfig.spans].dsn /\ sent' = sent \cup queue
     \/ UNCHANGED sent

SpansWorker ==
  /\ phase # "ended" /\ spansWorker = "running" /\ queue # {}
  /\ DeliverQueue
  /\ UNCHANGED <<program, configuration, warned, installed, exitHooks, call, user, trail, trace,
                 buckets, disk, phase,
                 wishes, notices, overlap, missed, made, runs>>

-----------------------------------------------------------------------------
(***************************************************************************)
(* The end of a run.                                                       *)
(***************************************************************************)
Exit(t) ==
  /\ phase = "running" /\ call[t] = Idle
  /\ phase' = "exiting"
  /\ call' = [call EXCEPT ![t] = At("exit", "none", 0, FALSE)]
  /\ UNCHANGED <<program, configuration, warned, installed, exitHooks, contents, history>>

\* upload_at_exit, flush_at_exit or drain_at_exit: the hook registered last
\* runs first, on the thread that exits.  drain_at_exit lets the worker finish
\* the queue, if there is a worker.
ExitHook(t) ==
  /\ call[t].pc = "exit" /\ phase = "exiting" /\ hooks # << >>
  /\ hooks' = SubSeq(hooks, 1, Len(hooks) - 1)
  /\ \/ /\ hooks[Len(hooks)] = "upload"
        /\ Upload(structs[shared], user[t])
        /\ UNCHANGED <<buckets, queue, spansWorker>>
     \/ /\ hooks[Len(hooks)] = "performance"
        /\ FlushSamples(structs[workerConfig.performance], sent, missed)
        /\ UNCHANGED <<queue, disk, spansWorker>>
     \/ /\ hooks[Len(hooks)] = "spans"
        /\ IF spansWorker = "running" THEN DeliverQueue /\ spansWorker' = "stopped"
           ELSE UNCHANGED <<queue, sent, spansWorker>>
        /\ UNCHANGED <<buckets, disk, missed>>
  /\ UNCHANGED <<program, configuration, warned, installed, registered, workerConfig, call, user, trail,
                 trace, phase,
                 wishes, notices, overlap, made, runs>>

ProcessEnd ==
  /\ phase = "exiting" /\ hooks = << >>
  /\ phase' = "ended"
  /\ UNCHANGED <<program, configuration, warned, installed, exitHooks, call, contents, history>>

\* A fatal signal on a thread, in its own code or in a call: once the
\* handlers are installed its trail is written out.
FatalSignal(t) ==
  /\ phase # "ended"
  /\ phase' = "ended"
  /\ disk' = IF installed /\ \A u \in Threads : call[u].op # "install"
                THEN disk \cup {Report(TRUE, trail[t])} ELSE disk
  /\ missed' = TRUE
  /\ NoMemory
  /\ UNCHANGED <<program, environment, wishes, sent, overlap, made, runs>>

Restart ==
  /\ phase = "ended" /\ runs < MaxRuns
  /\ NoMemory
  /\ environment' \in Environments /\ asked' = environment'
  /\ phase' = "running" /\ runs' = runs + 1 /\ missed' = FALSE
  /\ UNCHANGED <<program, disk, handed, sent, overlap, made>>

Terminated == phase = "ended" /\ runs = MaxRuns /\ UNCHANGED vars

Next ==
  \/ \E t \in Threads, op \in Ops \ {"set_user"} : Begin(t, op)
  \/ \E t \in Threads :
       \/ Create(t) \/ Have(t) \/ WarnCheck(t) \/ WarnExchange(t) \/ WarnPrint(t)
       \/ Configure(t) \/ AddBreadcrumb(t) \/ ClearBreadcrumbs(t) \/ SetUser(t)
       \/ Capture(t) \/ CaptureHook(t) \/ CaptureWrite(t) \/ RecordPerformance(t)
       \/ TraceStart(t) \/ RecordSpan(t) \/ TraceStop(t)
       \/ Flush(t) \/ UploadPending(t) \/ InstallHandlers(t)
       \/ Exit(t) \/ ExitHook(t) \/ FatalSignal(t)
  \/ PerformanceWorker \/ SpansWorker \/ ProcessEnd \/ Restart \/ Terminated

Spec == Init /\ [][Next]_vars

-----------------------------------------------------------------------------
(***************************************************************************)
(* Properties.                                                             *)
(***************************************************************************)

\* A text as it was given, or with its patterns replaced, under a key the
\* application has not listed.
IsFreeText(item) ==
  item.field = "sql_statement" \/ (item.form \in {"raw", "scrubbed"} /\ item.field \notin AllowedFields \cup {"id"})

\* While one configuration is shared, no free text leaves the process, in
\* this run or through the disk in a later one, in a payload built under
\* strict privacy, nor one that was handed over while the application asked
\* for strict privacy (the current user aside, which is cut when a payload
\* is built); and none leaves unscrubbed that was handed over while scrubbing
\* was asked for.  Settings are read by each call anew
\* (forgeops_tracker.c:47-52): a trail, a trace and a bucket outlive them.
StrictTextNeverLeaves ==
  ~overlap => \A item \in sent :
    /\ IsFreeText(item) => ~item.built /\ (item.field \in UserKeys \/ ~handed[item.of].strict)
    /\ item.form = "raw" /\ item.field \in ContextKeys \cup {"message", "crumb"} => ~handed[item.of].scrub

\* The warning is given at most once in a process, and when a call that
\* captures or sends goes on under a DSN and an environment that does not
\* send, the warning has been given, or one thread is giving it just then, or
\* there was no memory for its text, whichever threads make their first calls
\* at once (forgeops_tracker.c:68-72).
WarnsOnceWhenDue ==
  /\ warnings <= 1
  /\ \A t \in Threads : call[t].pc \in GoneOn /\ call[t].due =>
       warnings = 1 \/ unprinted \/ \E u \in Threads : call[u].pc = "print"

\* A process that exits, and in which every delivery tried got through and
\* nothing was stored after its own hook or without one, leaves no samples,
\* no queued traces once it has a worker for them, and none of its own
\* reports behind, whichever features it used, in whichever order, on
\* whichever threads (forgeops_tracker.c:122-123, performance.c:87,
\* spans.c:241).  One window is left out: a capture that has set the flag of
\* the upload and has not called atexit yet leaves the others without a hook.
ExitLeavesNothingBehind ==
  phase = "ended" /\ ~missed =>
    /\ buckets = {} /\ (spansWorker # "none" => queue = {})
    /\ Registering("upload") \/ \A report \in disk : report.run < runs
=============================================================================
