----------------------------- MODULE CrashStore -----------------------------
(***************************************************************************)
(* The reports on disk: src/crash_store.c and src/reporter.c, the file the *)
(* signal handler leaves (src/signal_handler.c), and the process around    *)
(* them (install_handlers, capture_error and the upload hook of            *)
(* src/forgeops_tracker.c).  The disk outlives the process, which may      *)
(* crash, be killed, exit normally, and start again.                       *)
(*                                                                         *)
(* A capture takes three steps: it picks its file name, creates the file,  *)
(* writes and closes it.  A fatal signal takes three: its report's file is *)
(* created, written and closed, the signal raised again; the other threads *)
(* go on until then.  An upload pass lists the directory in one step and   *)
(* then takes up to three per file: it is read, the reply arrives, the     *)
(* file is deleted.                                                        *)
(*                                                                         *)
(* Reports are numbered; one second of time(NULL) is one tick.             *)
(***************************************************************************)
EXTENDS Client, Sequences, FiniteSets

CONSTANTS
  Threads,     \* application threads
  NoThread,    \* "no thread has called exit()"
  Signals,     \* fatal signal numbers
  MaxPending,  \* FORGEOPS_CRASH_STORE_MAX_PENDING
  MaxAge,      \* FORGEOPS_CRASH_STORE_MAX_AGE_SECONDS
  FirstDir,    \* what exists of crash_reports_directory when the first run starts
  MaxReports,  \* bound: reports a behaviour makes
  MaxTime,     \* bound: last tick of the clock
  MaxRuns      \* bound: how often the process is started

ASSUME CrashStoreAssumption ==
  /\ NoThread \notin Threads
  /\ Signals \subseteq 0..99
  /\ MaxPending \in Nat \ {0}
  /\ MaxAge \in Nat
  /\ FirstDir \in {"nothing", "parent", "directory"}
  /\ MaxReports \in Nat /\ MaxTime \in Nat \ {0} /\ MaxRuns \in Nat \ {0}

Reports == 1..MaxReports

\* event-<at>-<number>.json, number the process's counter, or
\* signal-<number>-<at>.txt.
FileNames == [kind : {"event", "signal"}, at : 1..MaxTime, number : 0..(MaxReports + 99)]

VARIABLES
  \* the disk
  directory,  \* "nothing", "parent" (only that is missing), "directory"
  files,      \* per file name: report, "partial" or "whole" or "garbled", mtime
  clock,      \* time(NULL)
  \* the process
  phase,      \* "running", "exiting", or how it ended: "exited", "crashed", "killed"
  runs,       \* how often it was started
  counter,    \* crash_store_write's static counter
  installed,  \* handlers_installed
  hook,       \* upload_at_exit: "none", "registered" or "started"
  exiter,     \* the thread inside exit(), or NoThread
  writing,    \* per thread, the report it is writing, or NoWrite
  handling,   \* the threads inside handle_fatal_signal, which none leaves
  upload,     \* per thread, the rest of its upload pass
  \* history, read by no action of the code
  fate,         \* per report, what became of it
  names,        \* the file names that were ever given to a report
  reused,       \* one of them was given twice
  torn,         \* a file was read or removed while it was being written
  cutShort,     \* the reports a pass was about to delete when its thread died
  exitMark,     \* the reports that were stored when exit() was called
  exitFailures  \* deliveries that failed during the exit hook's pass

diskVars    == <<directory, files, clock>>
processVars == <<phase, runs, counter, installed, hook, exiter>>
historyVars == <<fate, names, reused, torn, cutShort, exitMark, exitFailures>>
vars == <<diskVars, processVars, writing, handling, upload, historyVars>>

NoWrite == [stage |-> "none"]
\* No pass: nothing listed, nothing read, nothing to delete, no reason to stop.
NoUpload == [todo |-> << >>, payload |-> << >>, delete |-> "no", stop |-> FALSE]

Fates == {"none", "writing", "stored", "evicted", "unreadable", "lost", Delivered, Rejected}

\* How many reports there are so far.
Made == Cardinality({r \in Reports : fate[r] # "none"})

TypeOK ==
  /\ directory \in {"nothing", "parent", "directory"}
  /\ \A n \in DOMAIN files :
       /\ n \in FileNames
       /\ files[n] \in [report : Reports, state : {"partial", "whole", "garbled"}, mtime : 1..MaxTime]
  /\ clock \in 1..MaxTime
  /\ phase \in {"running", "exiting", "exited", "crashed", "killed"}
  /\ runs \in 1..MaxRuns
  /\ counter \in 0..MaxReports
  /\ installed \in BOOLEAN
  /\ hook \in {"none", "registered", "started"}
  /\ exiter \in Threads \cup {NoThread}
  /\ \A t \in Threads :
       /\ writing[t] # NoWrite => /\ writing[t].stage \in {"named", "opened"}
                                  /\ writing[t].name \in FileNames
                                  /\ writing[t].report \in Reports
       /\ DOMAIN upload[t].todo \subseteq FileNames
       /\ Cardinality(DOMAIN upload[t].todo) <= MaxPending
       /\ upload[t].delete \in {"no", "unread", "answered"} /\ upload[t].stop \in BOOLEAN
  /\ handling \subseteq Threads
  /\ fate \in [Reports -> Fates]
  /\ names \subseteq FileNames
  /\ reused \in BOOLEAN /\ torn \in BOOLEAN
  /\ cutShort \subseteq Reports /\ exitMark \subseteq Reports
  /\ exitFailures \in Nat

Init ==
  /\ directory = FirstDir /\ files = << >> /\ clock = 1
  /\ phase = "running" /\ runs = 1 /\ counter = 0 /\ installed = FALSE
  /\ hook = "none" /\ exiter = NoThread
  /\ writing = [t \in Threads |-> NoWrite] /\ handling = {}
  /\ upload = [t \in Threads |-> NoUpload]
  /\ fate = [r \in Reports |-> "none"]
  /\ names = {} /\ reused = FALSE /\ torn = FALSE
  /\ cutShort = {} /\ exitMark = {} /\ exitFailures = 0

-----------------------------------------------------------------------------
Alive == phase \in {"running", "exiting"}

\* Application code runs on t.
Free(t) == Alive /\ t # exiter /\ t \notin handling /\ writing[t] = NoWrite /\ upload[t] = NoUpload

\* Files that some thread has open for writing.
BeingWritten == {writing[t].name : t \in {u \in Threads : writing[u].stage = "opened"}}

Without(f, gone) == [n \in DOMAIN f \ gone |-> f[n]]
With(f, name, file) == [n \in DOMAIN f \cup {name} |-> IF n = name THEN file ELSE f[n]]

\* History: a new report's file is named.
GiveName(name) ==
  /\ names' = names \cup {name}
  /\ reused' = (reused \/ name \in names)

Tick ==
  /\ clock < MaxTime
  /\ clock' = clock + 1
  /\ UNCHANGED <<directory, files, processVars, writing, handling, upload, historyVars>>

-----------------------------------------------------------------------------
(***************************************************************************)
(* forgeops_tracker_capture_error: forgeops_report_error_with_sql and      *)
(* forgeops_crash_store_write.                                             *)
(***************************************************************************)

\* counter++ without a lock: a thread may read the value another one has
\* read and not yet written back.
CounterReads ==
  {counter} \cup {writing[u].name.number : u \in {v \in Threads : writing[v].stage = "named"}}

\* The first capture of a run registers the exit upload.
RegisterUpload == hook' = IF hook = "none" THEN "registered" ELSE hook

\* mkdir_recursive: the directory and every parent of it.
MakeDirectory == directory' = "directory"

\* The payload is built, and its file named.
CaptureStart(t) ==
  /\ Free(t)
  /\ Made < MaxReports
  /\ RegisterUpload
  /\ MakeDirectory
  /\ \E c \in CounterReads :
       /\ counter' = IF c = counter THEN counter + 1 ELSE counter
       /\ GiveName([kind |-> "event", at |-> clock, number |-> c])
       /\ writing' = [writing EXCEPT ![t] =
            [stage |-> "named", report |-> Made + 1,
             name |-> [kind |-> "event", at |-> clock, number |-> c]]]
  /\ fate' = [fate EXCEPT ![Made + 1] = "writing"]
  /\ UNCHANGED <<files, clock, phase, runs, installed, exiter, handling, upload,
                 torn, cutShort, exitMark, exitFailures>>

\* fopen(path, "w") truncates what is there.
CaptureOpen(t) ==
  /\ Alive /\ writing[t].stage = "named"
  /\ files' = With(files, writing[t].name,
                   [report |-> writing[t].report, state |-> "partial", mtime |-> clock])
  /\ writing' = [writing EXCEPT ![t].stage = "opened"]
  /\ UNCHANGED <<directory, clock, processVars, handling, upload, historyVars>>

\* The file is written and closed.  One unlinked meanwhile takes the report
\* with it; one that another writer has filled is overwritten, or mixed up.
WriteOut(t) ==
  LET name == writing[t].name
      report == writing[t].report
      mine == [report |-> report, state |-> "whole", mtime |-> clock]
  IN /\ Alive /\ writing[t].stage = "opened"
     /\ \/ name \notin DOMAIN files /\ UNCHANGED files
        \/ /\ name \in DOMAIN files
           /\ \/ files' = [files EXCEPT ![name] = mine]
              \/ /\ files[name].report # report \/ files[name].state # "partial"
                 /\ files' = [files EXCEPT ![name] = [mine EXCEPT !.state = "garbled"]]
     /\ fate' = [fate EXCEPT ![report] = "stored"]
     /\ writing' = [writing EXCEPT ![t] = NoWrite]
     /\ UNCHANGED <<directory, clock, processVars, handling, upload, names, reused, torn, cutShort,
                    exitMark, exitFailures>>

\* fwrite and fclose.
CaptureWrite(t) == t \notin handling /\ WriteOut(t)

-----------------------------------------------------------------------------
(***************************************************************************)
(* forgeops_crash_store_pending_paths.                                     *)
(***************************************************************************)

DecimalDigits[n \in 0..(MaxReports + MaxTime + 99)] ==
  IF n < 10 THEN <<n>> ELSE Append(DecimalDigits[n \div 10], n % 10)

\* strcmp of two numbers as snprintf writes them, each followed by a
\* character that sorts before the digits ("." or "-").
WrittenBefore(m, n) ==
  LET a == DecimalDigits[m]
      b == DecimalDigits[n]
  IN \E i \in 1..Len(b) :
       /\ \A j \in 1..(i - 1) : j <= Len(a) /\ a[j] = b[j]
       /\ i = Len(a) + 1 \/ (i <= Len(a) /\ a[i] < b[i])

\* strcmp of two file names.
NameBefore(m, n) ==
  IF m.kind # n.kind THEN m.kind = "event"
  ELSE LET major(x) == IF x.kind = "event" THEN x.at ELSE x.number
           minor(x) == IF x.kind = "event" THEN x.number ELSE x.at
       IN \/ WrittenBefore(major(m), major(n))
          \/ major(m) = major(n) /\ WrittenBefore(minor(m), minor(n))

\* compare_pending: by age, within one second by name.
ComparePending(mtimes, m, n) ==
  \/ mtimes[m] < mtimes[n]
  \/ mtimes[m] = mtimes[n] /\ NameBefore(m, n)

Mtimes(S) == [n \in S |-> files[n].mtime]

\* Last written more than MaxAge ago.
Expired == {n \in DOMAIN files : files[n].mtime < clock - MaxAge}

\* More waiting than the cap allows: the oldest go.
Excess ==
  LET kept == DOMAIN files \ Expired
  IN {n \in kept :
        Cardinality({m \in kept : ComparePending(Mtimes(kept), n, m)}) >= MaxPending}

\* forgeops_upload_pending_reports_until_failure begins: the directory is
\* listed, what is too old or too much is deleted, the rest is the pass.
ListPending(t, stop) ==
  LET gone == Expired \cup Excess
  IN /\ files' = Without(files, gone)
     /\ upload' = [upload EXCEPT ![t] =
          IF DOMAIN files = gone THEN NoUpload
          ELSE [todo |-> Mtimes(DOMAIN files \ gone), payload |-> << >>, delete |-> "no", stop |-> stop]]
     /\ fate' = [r \in Reports |->
          IF fate[r] = "stored" /\ \E n \in gone : files[n].report = r THEN "evicted" ELSE fate[r]]
     /\ torn' = (torn \/ gone \cap BeingWritten # {})

\* forgeops_tracker_upload_pending_reports, or the first part of
\* forgeops_tracker_flush.
UploadPending(t) ==
  /\ Free(t)
  /\ files # << >>
  /\ ListPending(t, FALSE)
  /\ UNCHANGED <<directory, clock, processVars, writing, handling, names, reused, cutShort, exitMark,
                 exitFailures>>

-----------------------------------------------------------------------------
(***************************************************************************)
(* One pass: oldest first.                                                 *)
(***************************************************************************)

Oldest(todo) ==
  CHOOSE n \in DOMAIN todo : \A m \in DOMAIN todo \ {n} : ComparePending(todo, n, m)

\* The exit pass takes one file and is over.
MutOnward(pass, name) ==
  IF pass.stop \/ DOMAIN pass.todo = {name} THEN NoUpload
  ELSE [todo |-> Without(pass.todo, {name}), payload |-> << >>, delete |-> "no", stop |-> pass.stop]

\* The pass without the file it is at: over, or what is left of it.
Onward(pass, name) ==
  IF DOMAIN pass.todo = {name} THEN NoUpload
  ELSE [todo |-> Without(pass.todo, {name}), payload |-> << >>, delete |-> "no", stop |-> pass.stop]

\* The pass that is about to delete the file it is at.
ToDelete(pass, why) ==
  [todo |-> pass.todo, payload |-> << >>, delete |-> why, stop |-> pass.stop]

\* The next file is read.  One that cannot be opened, measured or read into
\* memory is to be deleted, and one that has gone meanwhile is not told apart.
UploadRead(t) ==
  LET next == Oldest(upload[t].todo)
  IN /\ Alive /\ DOMAIN upload[t].todo # {} /\ upload[t].payload = << >> /\ upload[t].delete = "no"
     /\ \/ /\ next \in DOMAIN files
           /\ upload' = [upload EXCEPT ![t].payload = <<files[next]>>]
        \/ upload' = [upload EXCEPT ![t] = ToDelete(@, "unread")]
     /\ torn' = (torn \/ next \in BeingWritten)
     /\ UNCHANGED <<diskVars, processVars, writing, handling, fate, names, reused, cutShort, exitMark,
                    exitFailures>>

\* The exit pass goes on like any other.
MutNeverStopsPass(outcome, stop) == FALSE

\* Only the exit hook's pass stops, and only at a failure that may pass.
StopsPass(outcome, stop) == stop /\ outcome = Failed

\* Deletes whatever was sent, delivered or not.
MutDeletes(outcome) == outcome \in DeliveryOutcomes

\* Keeps what the server refused.
MutDeletesDelivered(outcome) == outcome = Delivered

\* Delivered, or never to be taken.
Deletes(outcome) == outcome # Failed

\* The reply arrived: the file is to be deleted, or it is left and the pass
\* goes on or stops.
UploadAnswer(t, status) ==
  LET payload == upload[t].payload[1]
      outcome == OutcomeForStatus(status)
      known == payload.state = "whole" /\ fate[payload.report] = "stored"
  IN /\ Alive /\ upload[t].payload # << >>
     /\ upload' = [upload EXCEPT ![t] =
          IF Deletes(outcome) THEN ToDelete(@, "answered")
          ELSE IF StopsPass(outcome, @.stop) THEN NoUpload ELSE Onward(@, Oldest(@.todo))]
     /\ fate' = IF known /\ outcome # Failed
                  THEN [fate EXCEPT ![payload.report] = outcome] ELSE fate
     /\ exitFailures' = IF t = exiter /\ outcome = Failed THEN exitFailures + 1 ELSE exitFailures
     /\ UNCHANGED <<diskVars, processVars, writing, handling, names, reused, torn, cutShort, exitMark>>

\* forgeops_crash_store_delete, and on to the next file.
UploadDelete(t) ==
  LET next == Oldest(upload[t].todo)
      unread == upload[t].delete = "unread" /\ next \in DOMAIN files
  IN /\ Alive /\ upload[t].delete # "no"
     /\ files' = Without(files, {next})
     /\ fate' = [r \in Reports |->
          IF unread /\ files[next].report = r /\ fate[r] = "stored" THEN "unreadable" ELSE fate[r]]
     /\ upload' = [upload EXCEPT ![t] = Onward(@, next)]
     /\ UNCHANGED <<directory, clock, processVars, writing, handling, names, reused, torn, cutShort,
                    exitMark, exitFailures>>

\* The reports whose files the passes of these threads are about to delete.
BeingDeleted(threads) ==
  {r \in Reports : \E t \in threads :
     /\ upload[t].delete # "no" /\ Oldest(upload[t].todo) \in DOMAIN files
     /\ files[Oldest(upload[t].todo)].report = r}

-----------------------------------------------------------------------------
(***************************************************************************)
(* The process.                                                            *)
(***************************************************************************)

\* forgeops_signal_handler_install: mkdir makes one level only.
InstallDirectory == directory' = IF directory = "parent" THEN "directory" ELSE directory

\* forgeops_tracker_install_handlers: what a previous run left behind is
\* uploaded too.
InstallHandlers(t) ==
  /\ Free(t) /\ ~installed
  /\ installed' = TRUE
  /\ InstallDirectory
  /\ IF files # << >> THEN ListPending(t, FALSE) ELSE UNCHANGED <<files, upload, fate, torn>>
  /\ UNCHANGED <<clock, phase, runs, counter, hook, exiter, writing, handling, names, reused, cutShort,
                 exitMark, exitFailures>>

\* What becomes of the reports whose writers die with the process.
AfterDeath == [r \in Reports |-> IF fate[r] = "writing" THEN "lost" ELSE fate[r]]

\* Every thread dies where it stands.
ThreadsDie ==
  /\ writing' = [t \in Threads |-> NoWrite]
  /\ handling' = {}
  /\ upload' = [t \in Threads |-> NoUpload]
  /\ fate' = AfterDeath
  /\ cutShort' = cutShort \cup BeingDeleted(Threads)

\* A fatal signal reaches a thread and ends what it was doing:
\* forgeops_signal_handler_write_report creates the file, if it can.
FatalSignal(t, s) ==
  LET name == [kind |-> "signal", at |-> clock, number |-> s]
      new == Made + 1
      given(becomes) == [r \in Reports |->
        IF r = new THEN becomes
        ELSE IF writing[t] # NoWrite /\ r = writing[t].report THEN "lost" ELSE fate[r]]
  IN /\ Alive /\ installed /\ t \notin handling /\ Made < MaxReports
     /\ handling' = handling \cup {t}
     /\ upload' = [upload EXCEPT ![t] = NoUpload]
     /\ cutShort' = cutShort \cup BeingDeleted({t})
     /\ IF directory = "directory"
          THEN /\ GiveName(name)
               /\ files' = With(files, name, [report |-> new, state |-> "partial", mtime |-> clock])
               /\ writing' = [writing EXCEPT ![t] = [stage |-> "opened", report |-> new, name |-> name]]
               /\ fate' = given("writing")
          ELSE /\ writing' = [writing EXCEPT ![t] = NoWrite]
               /\ fate' = given("lost")
               /\ UNCHANGED <<files, names, reused>>
     /\ UNCHANGED <<directory, clock, processVars, torn, exitMark, exitFailures>>

\* The writes of the raw report, and close.
SignalWrite(t) == t \in handling /\ WriteOut(t)

\* signal(SIG_DFL) and raise: the process is gone.
Raise(t) ==
  /\ Alive /\ t \in handling /\ writing[t] = NoWrite
  /\ phase' = "crashed"
  /\ ThreadsDie
  /\ UNCHANGED <<diskVars, runs, counter, installed, hook, exiter, names, reused, torn, exitMark, exitFailures>>

\* SIGKILL, _exit, or a power cut: nothing runs.
Killed ==
  /\ Alive
  /\ phase' = "killed"
  /\ ThreadsDie
  /\ UNCHANGED <<diskVars, runs, counter, installed, hook, exiter, names, reused, torn, exitMark, exitFailures>>

\* A thread returns from main or calls exit().
Exit(t) ==
  /\ phase = "running" /\ Free(t)
  /\ phase' = "exiting"
  /\ exiter' = t
  /\ exitMark' = {r \in Reports : fate[r] = "stored"}
  /\ UNCHANGED <<diskVars, runs, counter, installed, hook, writing, handling, upload, fate, names, reused,
                 torn, cutShort, exitFailures>>

\* upload_at_exit.
ExitUpload ==
  /\ phase = "exiting" /\ exiter \notin handling /\ hook = "registered"
  /\ hook' = "started"
  /\ IF files # << >> THEN ListPending(exiter, TRUE) ELSE UNCHANGED <<files, upload, fate, torn>>
  /\ UNCHANGED <<directory, clock, phase, runs, counter, installed, exiter, writing, handling,
                 names, reused, cutShort, exitMark, exitFailures>>

\* The hooks have returned.
ProcessEnd ==
  /\ phase = "exiting" /\ exiter \notin handling /\ hook # "registered" /\ upload[exiter] = NoUpload
  /\ phase' = "exited"
  /\ ThreadsDie
  /\ UNCHANGED <<diskVars, runs, counter, installed, hook, exiter, names, reused, torn, exitMark, exitFailures>>

\* The next run of the program: statics are zero again, the disk is not.
Restart ==
  /\ ~Alive /\ runs < MaxRuns
  /\ phase' = "running" /\ runs' = runs + 1
  /\ counter' = 0 /\ installed' = FALSE /\ hook' = "none" /\ exiter' = NoThread
  /\ exitMark' = {} /\ exitFailures' = 0
  /\ UNCHANGED <<diskVars, writing, handling, upload, fate, names, reused, torn, cutShort>>

Terminated == ~Alive /\ runs = MaxRuns /\ UNCHANGED vars

Next ==
  \/ Tick
  \/ \E t \in Threads :
       \/ CaptureStart(t) \/ CaptureOpen(t) \/ CaptureWrite(t)
       \/ UploadPending(t) \/ UploadRead(t) \/ UploadDelete(t) \/ InstallHandlers(t) \/ Exit(t)
       \/ \E status \in Statuses : UploadAnswer(t, status)
       \/ \E s \in Signals : FatalSignal(t, s)
       \/ SignalWrite(t) \/ Raise(t)
  \/ Killed \/ ExitUpload \/ ProcessEnd \/ Restart
  \/ Terminated

Spec == Init /\ [][Next]_vars

-----------------------------------------------------------------------------
OnDisk(r) == \E n \in DOMAIN files : files[n].report = r /\ files[n].state = "whole"

\* A report whose capture has returned, or that the signal handler wrote, is
\* whole on disk until the server took or refused it, it could not be read,
\* or it was too old or too much: through crashes, kills, restarts and passes
\* that overlap.  It needs file names not to collide and no pass to meet a
\* file that is still being written, and the code ensures neither.
StoredReportsSurvive ==
  ~reused /\ ~torn => \A r \in Reports : fate[r] = "stored" => OnDisk(r)

\* Once the server has answered for a report, only the delete that follows
\* (reporter.c:59-63) leaves it on disk, to be sent again by a later pass:
\* not yet made, or cut short by a signal, a kill or the end of the process
\* between the answer and the delete.
AnsweredReportsGo ==
  ~reused /\ ~torn => \A r \in Reports :
    fate[r] \in {Delivered, Rejected} /\ OnDisk(r) => r \in BeingDeleted(Threads) \cup cutShort

\* An exit with the network down waits for one timeout at most, and with the
\* network up for MAX_PENDING deliveries at most: the cap is applied when a
\* pass lists, however many reports other threads have stored by then
\* (crash_store.c:145-150, reporter.c:66).
ExitWaitsForOneFailure ==
  /\ exitFailures <= 1
  /\ \A t \in Threads : Cardinality(DOMAIN upload[t].todo) <= MaxPending

\* A normal exit whose deliveries did not fail leaves none of the reports on
\* disk that were there when exit() was called, provided this run captured
\* something: a rejected report does not hold back the ones behind it
\* (reporter.c:42-67).
ExitUploadsEverything ==
  phase = "exited" /\ hook = "started" /\ exitFailures = 0 /\ ~reused /\ ~torn
    => \A r \in exitMark : fate[r] # "stored"

\* crash_store.h: a report is named "so concurrent writes [...] never
\* collide"; crash_store.c:32: "so a fresh process doesn't reuse a filename an
\* earlier run already wrote".  Violated by two threads whose counter++ race,
\* and by a restart within the second: one report replaces another.
WritesNeverCollide ==
  ~torn => \A r \in Reports : fate[r] = "stored" => OnDisk(r)
=============================================================================
