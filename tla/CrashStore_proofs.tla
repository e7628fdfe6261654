-------------------------- MODULE CrashStore_proofs --------------------------
(***************************************************************************)
(* Proofs about CrashStore, for any threads, signals, caps and ages, any   *)
(* number of reports and of runs.                                          *)
(*                                                                         *)
(* A report survives because its file is its own: as long as no name was   *)
(* given twice and no pass met a file half-written, file names and reports *)
(* belong together, a whole file is a report that is stored or answered    *)
(* and a partial one has a writer or lost it, and what a pass has read is  *)
(* still what lies under that name, if anything does.  An answered report  *)
(* on disk is under the name a pass is about to delete, unless that pass   *)
(* died first.                                                             *)
(***************************************************************************)
EXTENDS CrashStore, FiniteSetTheorems, WellFoundedInduction, SequenceTheorems, TLAPS

File == [report : Reports, state : {"partial", "whole", "garbled"}, mtime : 1..MaxTime]
Writer == [stage : {"named", "opened"}, name : FileNames, report : Reports]
IsPass(P) ==
  /\ P = [todo |-> P.todo, payload |-> P.payload, delete |-> P.delete, stop |-> P.stop]
  /\ DOMAIN P.todo \subseteq FileNames /\ IsFiniteSet(DOMAIN P.todo)
  /\ \A n \in DOMAIN P.todo : P.todo[n] \in Int
  /\ P.payload # << >> => P.payload[1] \in File /\ P.delete = "no"
  /\ P.delete \in {"no", "unread", "answered"} /\ P.stop \in BOOLEAN

Types ==
  /\ directory \in {"nothing", "parent", "directory"}
  /\ IsFiniteSet(DOMAIN files)
  /\ \A n \in DOMAIN files : n \in FileNames /\ files[n] \in File
  /\ clock \in 1..MaxTime
  /\ phase \in {"running", "exiting", "exited", "crashed", "killed"}
  /\ runs \in 1..MaxRuns
  /\ installed \in BOOLEAN
  /\ hook \in {"none", "registered", "started"}
  /\ exiter \in Threads \cup {NoThread}
  /\ writing \in [Threads -> Writer \cup {NoWrite}]
  /\ DOMAIN upload = Threads /\ \A t \in Threads : IsPass(upload[t])
  /\ fate \in [Reports -> Fates]
  /\ names \subseteq FileNames
  /\ reused \in BOOLEAN /\ torn \in BOOLEAN
  /\ handling \subseteq Threads
  /\ cutShort \subseteq Reports /\ exitMark \subseteq Reports
  /\ exitFailures \in Nat

\* Reports are numbered as they are made, and the counter is not ahead.
MadeInOrder ==
  /\ Made \in 0..MaxReports
  /\ \A r \in Reports : fate[r] # "none" <=> r <= Made
  /\ counter \in 0..Made

\* A capture in progress has a report to itself.
WritersOwn(wr, ft) ==
  \A t \in Threads : wr[t] # NoWrite =>
    /\ ft[wr[t].report] = "writing"
    /\ \A u \in Threads \ {t} : wr[u] # NoWrite => wr[u].report # wr[t].report

\* A report that is being written has a capture that writes it.
HasWriter(wr, ft) ==
  \A r \in Reports : ft[r] = "writing" => \E t \in Threads : wr[t] # NoWrite /\ wr[t].report = r

\* What was stored at exit() is not being written.
Marked(mark, ft) == \A r \in mark : ft[r] \notin {"none", "writing"}

Capped == \A t \in Threads : Cardinality(DOMAIN upload[t].todo) <= MaxPending

\* The exiting thread: its hook runs once, and its pass stops at a failure.
ExitState ==
  /\ phase = "running" => exiter = NoThread /\ exitFailures = 0 /\ hook # "started"
  /\ phase = "exiting" =>
       /\ exiter \in Threads
       /\ hook # "started" => upload[exiter] = NoUpload /\ exitFailures = 0
       /\ upload[exiter] # NoUpload => upload[exiter].stop /\ exitFailures = 0
  /\ exitFailures <= 1
  /\ ~Alive => \A t \in Threads : writing[t] = NoWrite /\ upload[t] = NoUpload

\* On disk because it waits to be sent, or because it was answered and not
\* yet deleted.
Kept == {"stored", Delivered, Rejected}

\* The files fs hold the reports that fate ft calls stored, one each, and
\* answered ones.
FilesWell(fs, ft, nm) ==
  /\ DOMAIN fs \subseteq nm
  /\ \A m, n \in DOMAIN fs : fs[m].report = fs[n].report => m = n
  /\ \A n \in DOMAIN fs : \/ fs[n].state = "whole" /\ ft[fs[n].report] \in Kept
                          \/ fs[n].state = "partial" /\ ft[fs[n].report] \in {"writing", "lost"}
  /\ \A r \in Reports : ft[r] = "stored" => \E n \in DOMAIN fs : fs[n].report = r

\* A capture in progress has its name and its file to itself, too.
WriterWell(w, fs, nm) ==
  /\ w.name \in nm
  /\ w.stage = "named" => /\ w.name \notin DOMAIN fs
                          /\ \A n \in DOMAIN fs : fs[n].report # w.report
  /\ w.stage = "opened" => /\ w.name \in DOMAIN fs
                           /\ fs[w.name].report = w.report /\ fs[w.name].state = "partial"

WritersWell(wr, fs, nm) ==
  \A t \in Threads : wr[t] # NoWrite =>
    /\ WriterWell(wr[t], fs, nm)
    /\ \A u \in Threads \ {t} : wr[u] # NoWrite => wr[u].name # wr[t].name

\* What a pass has read under a name is still what lies there, if anything.
ReadWell(name, p, fs, ft, wr, nm) ==
  /\ name \in nm
  /\ ft[p.report] \notin {"none", "writing"}
  /\ \A n \in DOMAIN fs : fs[n].report = p.report => n = name
  /\ name \in DOMAIN fs => fs[name] = p
  /\ \A u \in Threads : wr[u] # NoWrite => wr[u].name # name

PassesWell(up, fs, ft, wr, nm) ==
  \A t \in Threads : up[t].payload # << >> =>
    ReadWell(Oldest(up[t].todo), up[t].payload[1], fs, ft, wr, nm)

\* What was stored at exit() and still is, the exit hook's pass has listed.
ExitListed ==
  hook = "started" /\ exitFailures = 0 =>
    /\ phase = "exiting" /\ exiter \notin handling => \A r \in exitMark : fate[r] = "stored" =>
         \E n \in DOMAIN files \cap DOMAIN upload[exiter].todo : files[n].report = r
    /\ phase = "exited" => \A r \in exitMark : fate[r] # "stored"

Clean ==
  /\ FilesWell(files, fate, names)
  /\ WritersWell(writing, files, names)
  /\ PassesWell(upload, files, fate, writing, names)
  /\ ExitListed

\* What a pass has listed has been a file: no capture has yet to create it.
Listed(up, wr, nm) ==
  \A t \in Threads : \A n \in DOMAIN up[t].todo :
    /\ n \in nm
    /\ \A u \in Threads : wr[u] # NoWrite /\ wr[u].stage = "named" => wr[u].name # n

\* What a pass is about to delete nobody is writing, and nobody waits for it
\* once it was answered.
DeleteWell(name, why, fs, ft, wr, nm) ==
  /\ name \in nm
  /\ \A u \in Threads : wr[u] # NoWrite => wr[u].name # name
  /\ why = "answered" /\ name \in DOMAIN fs => ft[fs[name].report] # "stored"

DeletesWell(up, fs, ft, wr, nm) ==
  \A t \in Threads : up[t].delete # "no" =>
    DeleteWell(Oldest(up[t].todo), up[t].delete, fs, ft, wr, nm)

\* What was answered and is on disk is about to be deleted, or was.
AnsweredWell(fs, ft, up, cut) ==
  \A n \in DOMAIN fs : ft[fs[n].report] \in {Delivered, Rejected} =>
    \/ fs[n].report \in cut
    \/ \E t \in Threads : up[t].delete # "no" /\ Oldest(up[t].todo) = n

Settled ==
  /\ Listed(upload, writing, names)
  /\ DeletesWell(upload, files, fate, writing, names)
  /\ AnsweredWell(files, fate, upload, cutShort)

IndInv ==
  /\ Types /\ MadeInOrder /\ Capped /\ ExitState
  /\ WritersOwn(writing, fate) /\ HasWriter(writing, fate) /\ Marked(exitMark, fate)
  /\ ~reused /\ ~torn => Clean /\ Settled

-----------------------------------------------------------------------------
\* Counting the reports that are numbered 1 to k.
LEMMA MadeIs ==
  ASSUME NEW ft, NEW k \in 0..MaxReports, \A r \in Reports : ft[r] # "none" <=> r <= k
  PROVE  Cardinality({r \in Reports : ft[r] # "none"}) = k
  <1> USE CrashStoreAssumption
  <1>1. {r \in Reports : ft[r] # "none"} = 1..k
    BY DEF Reports
  <1>2. Cardinality(1..k) = k
    BY FS_Interval
  <1> QED
    BY <1>1, <1>2

\* No report is made.
LEMMA NoneMade ==
  ASSUME MadeInOrder, \A r \in Reports : fate'[r] = "none" <=> fate[r] = "none", counter' \in {0, counter}
  PROVE  MadeInOrder'
  <1> DEFINE k == Made
  <1>1. k \in 0..MaxReports /\ \A r \in Reports : fate'[r] # "none" <=> r <= k
    BY DEF MadeInOrder
  <1> HIDE DEF k
  <1>2. Made' = k
    BY <1>1, MadeIs DEF Made, Reports
  <1>3. counter' \in 0..k
    BY <1>1 DEF MadeInOrder, k
  <1> QED
    BY <1>1, <1>2, <1>3 DEF MadeInOrder, Reports

\* The next report is made.
LEMMA OneMade ==
  ASSUME MadeInOrder, Made < MaxReports, counter' \in {counter, counter + 1},
         \A r \in Reports : fate'[r] # "none" <=> fate[r] # "none" \/ r = Made + 1
  PROVE  MadeInOrder' /\ Made + 1 \in Reports /\ fate[Made + 1] = "none" /\ Made' = Made + 1
  <1> USE CrashStoreAssumption
  <1> DEFINE k == Made
  <1>1. k \in Nat /\ k + 1 \in 0..MaxReports /\ k + 1 \in Reports
    BY DEF MadeInOrder, Reports
  <1>2. \A r \in Reports : r \in Nat /\ (fate[r] # "none" <=> r <= k) /\ (fate'[r] # "none" <=> fate[r] # "none" \/ r = k + 1)
    BY DEF MadeInOrder, Reports
  <1>3. counter \in 0..k
    BY DEF MadeInOrder
  <1> HIDE DEF k
  <1>4. \A r \in Reports : fate'[r] # "none" <=> r <= k + 1
    BY <1>1, <1>2
  <1>5. Made' = k + 1
    BY <1>1, <1>4, MadeIs DEF Made, Reports
  <1>6. counter' \in 0..(k + 1)
    BY <1>1, <1>3
  <1>7. fate[k + 1] = "none"
    BY <1>1, <1>2
  <1> QED
    BY <1>1, <1>4, <1>5, <1>6, <1>7 DEF MadeInOrder, Reports, k

LEMMA NoPass ==
  DOMAIN NoUpload.todo = {} /\ NoUpload.payload = << >> /\ NoUpload.delete = "no" /\ ~NoUpload.stop /\ IsPass(NoUpload)
  <1>1. NoUpload.todo = << >> /\ NoUpload.payload = << >> /\ NoUpload.delete = "no" /\ NoUpload.stop = FALSE
    BY DEF NoUpload
  <1>2. DOMAIN NoUpload.todo = {}
    BY <1>1
  <1>3. NoUpload = [todo |-> NoUpload.todo, payload |-> NoUpload.payload, delete |-> NoUpload.delete,
                    stop |-> NoUpload.stop]
    BY DEF NoUpload
  <1>4. IsFiniteSet({})
    BY FS_EmptySet
  <1> QED
    BY <1>1, <1>2, <1>3, <1>4 DEF IsPass

\* A directory is listed: types.
LEMMA ListTypes ==
  ASSUME Types, NEW t \in Threads, NEW stop \in BOOLEAN, ListPending(t, stop)
  PROVE  /\ IsFiniteSet(DOMAIN files') /\ DOMAIN files' \subseteq DOMAIN files
         /\ \A n \in DOMAIN files' : files'[n] = files[n]
         /\ DOMAIN upload' = Threads /\ \A u \in Threads : IsPass(upload'[u])
         /\ \A u \in Threads \ {t} : upload'[u] = upload[u]
         /\ upload'[t].payload = << >> /\ upload'[t].delete = "no"
         /\ upload'[t] = NoUpload \/ upload'[t].stop = stop
         /\ DOMAIN upload'[t].todo = DOMAIN files'
         /\ fate' \in [Reports -> Fates]
         /\ \A r \in Reports : fate'[r] = fate[r] \/ (fate[r] = "stored" /\ fate'[r] = "evicted")
         /\ torn' \in BOOLEAN
  <1> DEFINE gone == Expired \cup Excess
             some == [todo |-> Mtimes(DOMAIN files \ gone), payload |-> << >>, delete |-> "no", stop |-> stop]
             P == IF DOMAIN files = gone THEN NoUpload ELSE some
  <1>1. /\ files' = Without(files, gone)
        /\ upload' = [upload EXCEPT ![t] = P]
        /\ fate' = [r \in Reports |->
             IF fate[r] = "stored" /\ \E n \in gone : files[n].report = r THEN "evicted" ELSE fate[r]]
        /\ torn' = (torn \/ gone \cap BeingWritten # {})
    BY DEF ListPending
  <1>2. gone \subseteq DOMAIN files
    BY DEF Expired, Excess
  <1> HIDE DEF gone
  <1>3. /\ DOMAIN files' = DOMAIN files \ gone
        /\ \A n \in DOMAIN files' : files'[n] = files[n]
    BY <1>1 DEF Without
  <1>4. IsFiniteSet(DOMAIN files \ gone)
    BY FS_Subset DEF Types
  <1>5. /\ DOMAIN some.todo = DOMAIN files \ gone /\ \A n \in DOMAIN some.todo : some.todo[n] = files[n].mtime
        /\ some.payload = << >> /\ some.delete = "no" /\ some.stop = stop
    BY DEF Mtimes
  <1>6. some = [todo |-> some.todo, payload |-> some.payload, delete |-> some.delete, stop |-> some.stop]
    OBVIOUS
  <1>7. DOMAIN files \ gone \subseteq FileNames /\ \A n \in DOMAIN files \ gone : files[n].mtime \in Int
    BY DEF Types, File
  <1> HIDE DEF some
  <1>8. IsPass(some)
    BY <1>4, <1>5, <1>6, <1>7 DEF IsPass
  <1>9. DOMAIN NoUpload.todo = {} /\ NoUpload.payload = << >> /\ NoUpload.delete = "no" /\ IsPass(NoUpload)
    BY NoPass
  <1>10. /\ IsPass(P) /\ P.payload = << >> /\ P.delete = "no" /\ (P = NoUpload \/ P.stop = stop)
         /\ DOMAIN P.todo = DOMAIN files \ gone
    BY <1>2, <1>5, <1>8, <1>9
  <1> HIDE DEF P
  <1>11. /\ DOMAIN upload' = Threads /\ upload'[t] = P
         /\ \A u \in Threads \ {t} : upload'[u] = upload[u]
    BY <1>1 DEF Types
  <1>12. \A u \in Threads : IsPass(upload'[u])
    BY <1>10, <1>11 DEF Types
  <1>13. /\ fate' \in [Reports -> Fates]
         /\ \A r \in Reports : fate'[r] = fate[r] \/ (fate[r] = "stored" /\ fate'[r] = "evicted")
    <2>1. "evicted" \in Fates
      BY DEF Fates
    <2>2. fate \in [Reports -> Fates]
      BY DEF Types
    <2> QED
      BY <1>1, <2>1, <2>2
  <1>14. torn' \in BOOLEAN
    BY <1>1 DEF Types
  <1> QED
    BY <1>3, <1>4, <1>10, <1>11, <1>12, <1>13, <1>14

\* The directory is changed by one file.
LEMMA RemoveOne ==
  ASSUME NEW fs, NEW name
  PROVE  /\ DOMAIN Without(fs, {name}) = DOMAIN fs \ {name}
         /\ \A n \in DOMAIN fs \ {name} : Without(fs, {name})[n] = fs[n]
         /\ IsFiniteSet(DOMAIN fs) => IsFiniteSet(DOMAIN Without(fs, {name}))
  <1>1. DOMAIN Without(fs, {name}) = DOMAIN fs \ {name}
    BY DEF Without
  <1>2. \A n \in DOMAIN fs \ {name} : Without(fs, {name})[n] = fs[n]
    BY DEF Without
  <1>3. IsFiniteSet(DOMAIN fs) => IsFiniteSet(DOMAIN fs \ {name})
    BY FS_RemoveElement
  <1> QED
    BY <1>1, <1>2, <1>3

LEMMA PutTypes ==
  ASSUME Types, NEW name \in FileNames, NEW file \in File, files' = With(files, name, file)
  PROVE  IsFiniteSet(DOMAIN files') /\ \A n \in DOMAIN files' : n \in FileNames /\ files'[n] \in File
  <1> DEFINE fs == files
             put == With(files, name, file)
  <1>1. IsFiniteSet(DOMAIN fs) /\ \A n \in DOMAIN fs : n \in FileNames /\ fs[n] \in File
    BY DEF Types
  <1>2. DOMAIN put = DOMAIN fs \cup {name} /\ \A n \in DOMAIN put : put[n] = IF n = name THEN file ELSE fs[n]
    BY DEF With
  <1> HIDE DEF fs, put
  <1>3. IsFiniteSet(DOMAIN put) /\ \A n \in DOMAIN put : n \in FileNames /\ put[n] \in File
    BY <1>1, <1>2, FS_AddElement
  <1> QED
    BY <1>3 DEF put

\* What a step of a pass makes of it: the file it is at was read, could not
\* be read, or was answered for.
LEMMA PassTypes ==
  ASSUME NEW P, IsPass(P), NEW f \in File
  PROVE  LET Q == [P EXCEPT !.payload = <<f>>]
         IN P.delete = "no" => IsPass(Q) /\ Q.todo = P.todo /\ Q.stop = P.stop /\ Q.payload = <<f>> /\ Q.delete = "no"
  <1> DEFINE Q == [P EXCEPT !.payload = <<f>>]
  <1> SUFFICES ASSUME P.delete = "no"
               PROVE  IsPass(Q) /\ Q.todo = P.todo /\ Q.stop = P.stop /\ Q.payload = <<f>> /\ Q.delete = "no"
    OBVIOUS
  <1>1. P = [todo |-> P.todo, payload |-> P.payload, delete |-> P.delete, stop |-> P.stop]
    BY DEF IsPass
  <1>2. Q = [todo |-> P.todo, payload |-> <<f>>, delete |-> P.delete, stop |-> P.stop]
    BY <1>1
  <1> HIDE DEF Q
  <1>3. Q.todo = P.todo /\ Q.payload = <<f>> /\ Q.delete = P.delete /\ Q.stop = P.stop /\ Q.payload[1] = f
    BY <1>2
  <1>4. IsPass(Q)
    BY <1>2, <1>3 DEF IsPass
  <1> QED
    BY <1>3, <1>4

LEMMA PassDeletes ==
  ASSUME NEW P, IsPass(P), NEW why \in {"unread", "answered"}
  PROVE  LET Q == ToDelete(P, why)
         IN IsPass(Q) /\ Q.todo = P.todo /\ Q.stop = P.stop /\ Q.payload = << >> /\ Q.delete = why
  <1> DEFINE Q == ToDelete(P, why)
  <1>1. Q = [todo |-> P.todo, payload |-> << >>, delete |-> why, stop |-> P.stop]
    BY DEF ToDelete
  <1> HIDE DEF Q
  <1>2. Q.todo = P.todo /\ Q.payload = << >> /\ Q.delete = why /\ Q.stop = P.stop
    BY <1>1
  <1>3. Q = [todo |-> Q.todo, payload |-> Q.payload, delete |-> Q.delete, stop |-> Q.stop]
    BY <1>1, <1>2
  <1>4. /\ DOMAIN P.todo \subseteq FileNames /\ IsFiniteSet(DOMAIN P.todo) /\ P.stop \in BOOLEAN
        /\ \A n \in DOMAIN P.todo : P.todo[n] \in Int
    BY DEF IsPass
  <1>5. IsPass(Q)
    BY <1>2, <1>3, <1>4 DEF IsPass
  <1> QED
    BY <1>2, <1>5 DEF Q

LEMMA PassGoesOn ==
  ASSUME NEW P, IsPass(P), NEW name
  PROVE  /\ IsPass(Onward(P, name)) /\ Onward(P, name).payload = << >> /\ Onward(P, name).delete = "no"
         /\ DOMAIN Onward(P, name).todo = DOMAIN P.todo \ {name}
         /\ Onward(P, name) = NoUpload \/ Onward(P, name).stop = P.stop
  <1> DEFINE td == P.todo
             rest == Without(td, {name})
             Q == [todo |-> rest, payload |-> << >>, delete |-> "no", stop |-> P.stop]
  <1>1. /\ DOMAIN td \subseteq FileNames /\ IsFiniteSet(DOMAIN td) /\ P.stop \in BOOLEAN
        /\ \A n \in DOMAIN td : td[n] \in Int
    BY DEF IsPass
  <1> HIDE DEF td
  <1>2. /\ DOMAIN rest = DOMAIN td \ {name} /\ IsFiniteSet(DOMAIN rest)
        /\ \A n \in DOMAIN rest : rest[n] = td[n]
    BY <1>1, RemoveOne
  <1> HIDE DEF rest
  <1>3. Q.todo = rest /\ Q.payload = << >> /\ Q.delete = "no" /\ Q.stop = P.stop
    OBVIOUS
  <1>4. Q = [todo |-> Q.todo, payload |-> Q.payload, delete |-> Q.delete, stop |-> Q.stop]
    OBVIOUS
  <1> HIDE DEF Q
  <1>5. IsPass(Q)
    BY <1>1, <1>2, <1>3, <1>4 DEF IsPass
  <1>6. Onward(P, name) = IF DOMAIN td = {name} THEN NoUpload ELSE Q
    BY DEF Onward, td, rest, Q
  <1>7. CASE DOMAIN td = {name}
    BY <1>6, <1>7, NoPass DEF td
  <1>8. CASE DOMAIN td # {name}
    BY <1>2, <1>3, <1>5, <1>6, <1>8 DEF td
  <1> QED
    BY <1>7, <1>8

\* A pass is changed by the thread it belongs to.
LEMMA OnePass ==
  ASSUME Types, NEW t \in Threads, NEW P, IsPass(P), upload' = [upload EXCEPT ![t] = P]
  PROVE  /\ DOMAIN upload' = Threads /\ \A u \in Threads : IsPass(upload'[u])
         /\ upload'[t] = P /\ \A u \in Threads \ {t} : upload'[u] = upload[u]
  BY DEF Types

\* The step that reads a file: the pass has its contents, or is to delete it.
LEMMA ReadTypes ==
  ASSUME Types, NEW t \in Threads, UploadRead(t)
  PROVE  /\ DOMAIN upload' = Threads /\ \A u \in Threads : IsPass(upload'[u])
         /\ \A u \in Threads \ {t} : upload'[u] = upload[u]
         /\ upload'[t].todo = upload[t].todo /\ upload'[t].stop = upload[t].stop
         /\ upload[t].delete = "no" /\ upload[t] # NoUpload
         /\ torn' = (torn \/ Oldest(upload[t].todo) \in BeingWritten)
         /\ \/ /\ Oldest(upload[t].todo) \in DOMAIN files
               /\ upload'[t].payload = <<files[Oldest(upload[t].todo)]>> /\ upload'[t].delete = "no"
            \/ upload'[t].payload = << >> /\ upload'[t].delete = "unread"
  <1> DEFINE next == Oldest(upload[t].todo)
             P == upload[t]
             S == [P EXCEPT !.payload = <<files[next]>>]
             D == ToDelete(P, "unread")
  <1>1. IsPass(P)
    BY DEF Types
  <1>2. /\ \/ next \in DOMAIN files /\ upload' = [upload EXCEPT ![t].payload = <<files[next]>>]
           \/ upload' = [upload EXCEPT ![t] = D]
        /\ torn' = (torn \/ next \in BeingWritten)
        /\ P.delete = "no" /\ P.payload = << >> /\ DOMAIN P.todo # {}
    BY DEF UploadRead
  <1>3. P # NoUpload
    BY <1>2, NoPass
  <1>4. CASE next \in DOMAIN files /\ upload' = [upload EXCEPT ![t].payload = <<files[next]>>]
    <2>1. files[next] \in File
      BY <1>4 DEF Types
    <2>2. IsPass(S) /\ S.todo = P.todo /\ S.stop = P.stop /\ S.payload = <<files[next]>> /\ S.delete = "no"
      BY <1>1, <1>2, <2>1, PassTypes
    <2>3. upload' = [upload EXCEPT ![t] = S]
      BY <1>4
    <2> HIDE DEF S, next
    <2>4. /\ DOMAIN upload' = Threads /\ \A u \in Threads : IsPass(upload'[u])
          /\ upload'[t] = S /\ \A u \in Threads \ {t} : upload'[u] = upload[u]
      BY <2>2, <2>3, OnePass
    <2> QED
      BY <1>2, <1>3, <1>4, <2>2, <2>4 DEF next
  <1>5. CASE upload' = [upload EXCEPT ![t] = D]
    <2>1. IsPass(D) /\ D.todo = P.todo /\ D.stop = P.stop /\ D.payload = << >> /\ D.delete = "unread"
      BY <1>1, PassDeletes
    <2> HIDE DEF D, next
    <2>5. /\ DOMAIN upload' = Threads /\ \A u \in Threads : IsPass(upload'[u])
          /\ upload'[t] = D /\ \A u \in Threads \ {t} : upload'[u] = upload[u]
      BY <1>5, <2>1, OnePass
    <2> QED
      BY <1>2, <1>3, <2>1, <2>5 DEF next
  <1> QED
    BY <1>2, <1>4, <1>5

\* The step that has the answer.
LEMMA AnswerTypes ==
  ASSUME Types, NEW t \in Threads, NEW status \in Statuses, UploadAnswer(t, status)
  PROVE  /\ DOMAIN upload' = Threads /\ \A u \in Threads : IsPass(upload'[u])
         /\ \A u \in Threads \ {t} : upload'[u] = upload[u]
         /\ upload[t].payload[1] \in File /\ upload[t].delete = "no" /\ upload[t] # NoUpload
         /\ UNCHANGED files
         /\ Deletes(OutcomeForStatus(status)) =>
              /\ upload'[t].todo = upload[t].todo /\ upload'[t].stop = upload[t].stop
              /\ upload'[t].payload = << >> /\ upload'[t].delete = "answered"
         /\ ~Deletes(OutcomeForStatus(status)) =>
              upload'[t] = IF StopsPass(OutcomeForStatus(status), upload[t].stop) THEN NoUpload
                           ELSE Onward(upload[t], Oldest(upload[t].todo))
         /\ fate' \in [Reports -> Fates]
         /\ \A r \in Reports : fate'[r] = fate[r] \/ (fate[r] = "stored" /\ fate'[r] \in {Delivered, Rejected})
         /\ \A r \in Reports : fate'[r] # fate[r] =>
              r = upload[t].payload[1].report /\ upload[t].payload[1].state = "whole"
         /\ OutcomeForStatus(status) # Failed /\ upload[t].payload[1].state = "whole"
              => fate'[upload[t].payload[1].report] # "stored"
  <1> DEFINE next == Oldest(upload[t].todo)
             outcome == OutcomeForStatus(status)
             A == ToDelete(upload[t], "answered")
             B == IF StopsPass(outcome, upload[t].stop) THEN NoUpload ELSE Onward(upload[t], next)
             P == IF Deletes(outcome) THEN A ELSE B
             p == upload[t].payload[1]
             known == p.state = "whole" /\ fate[p.report] = "stored"
  <1>1. /\ upload' = [upload EXCEPT ![t] = P]
        /\ UNCHANGED files
        /\ fate' = IF known /\ outcome # Failed THEN [fate EXCEPT ![p.report] = outcome] ELSE fate
        /\ upload[t].payload # << >>
    BY DEF UploadAnswer, diskVars
  <1>2. IsPass(upload[t])
    BY DEF Types
  <1>3. /\ IsPass(A) /\ A.todo = upload[t].todo /\ A.stop = upload[t].stop
        /\ A.payload = << >> /\ A.delete = "answered"
    BY <1>2, PassDeletes
  <1>4. IsPass(B)
    BY <1>2, PassGoesOn, NoPass
  <1>5. outcome \in {Delivered, Rejected, Failed}
    BY DEF OutcomeForStatus
  <1>6. p \in File /\ upload[t].delete = "no" /\ upload[t] # NoUpload
    BY <1>1, <1>2, NoPass DEF IsPass
  <1> HIDE DEF next, outcome, A, B, p
  <1>7. IsPass(P)
    BY <1>3, <1>4
  <1> HIDE DEF P
  <1>8. /\ DOMAIN upload' = Threads /\ \A u \in Threads : IsPass(upload'[u])
        /\ upload'[t] = P /\ \A u \in Threads \ {t} : upload'[u] = upload[u]
    BY <1>1, <1>7, OnePass
  <1>9. /\ fate' \in [Reports -> Fates]
        /\ \A r \in Reports : fate'[r] = fate[r] \/ (fate[r] = "stored" /\ fate'[r] \in {Delivered, Rejected})
        /\ \A r \in Reports : fate'[r] # fate[r] => r = p.report /\ p.state = "whole"
        /\ outcome # Failed /\ p.state = "whole" => fate'[p.report] # "stored"
    <2>1. p.report \in Reports /\ fate \in [Reports -> Fates]
      BY <1>6 DEF File, Types
    <2>2. outcome # Failed => outcome \in Fates /\ outcome \in {Delivered, Rejected} /\ outcome # "stored"
      BY <1>5 DEF Fates, Delivered, Rejected, Failed
    <2>3. CASE known /\ outcome # Failed
      BY <1>1, <2>1, <2>2, <2>3
    <2>4. CASE ~(known /\ outcome # Failed)
      BY <1>1, <2>1, <2>4
    <2> QED
      BY <2>3, <2>4
  <1> QED
    BY <1>1, <1>3, <1>6, <1>8, <1>9 DEF next, outcome, A, B, P, p

\* The step that deletes the file.
LEMMA DeleteTypes ==
  ASSUME Types, NEW t \in Threads, UploadDelete(t)
  PROVE  /\ DOMAIN upload' = Threads /\ \A u \in Threads : IsPass(upload'[u])
         /\ \A u \in Threads \ {t} : upload'[u] = upload[u]
         /\ upload'[t] = Onward(upload[t], Oldest(upload[t].todo))
         /\ upload[t].delete # "no" /\ upload[t].payload = << >> /\ upload[t] # NoUpload
         /\ IsFiniteSet(DOMAIN files')
         /\ DOMAIN files' = DOMAIN files \ {Oldest(upload[t].todo)}
         /\ \A n \in DOMAIN files' : files'[n] = files[n]
         /\ fate' \in [Reports -> Fates]
         /\ \A r \in Reports : \/ fate'[r] = fate[r]
                               \/ /\ fate[r] = "stored" /\ fate'[r] = "unreadable"
                                  /\ Oldest(upload[t].todo) \in DOMAIN files
                                  /\ r = files[Oldest(upload[t].todo)].report
         /\ upload[t].delete = "unread" /\ Oldest(upload[t].todo) \in DOMAIN files
              => fate'[files[Oldest(upload[t].todo)].report] # "stored"
  <1> DEFINE next == Oldest(upload[t].todo)
             P == Onward(upload[t], next)
             unread == upload[t].delete = "unread" /\ next \in DOMAIN files
  <1>1. /\ upload' = [upload EXCEPT ![t] = P]
        /\ files' = Without(files, {next})
        /\ fate' = [r \in Reports |->
             IF unread /\ files[next].report = r /\ fate[r] = "stored" THEN "unreadable" ELSE fate[r]]
        /\ upload[t].delete # "no"
    BY DEF UploadDelete
  <1>2. IsPass(upload[t]) /\ IsPass(P)
    BY PassGoesOn DEF Types
  <1>3. upload[t].payload = << >> /\ upload[t] # NoUpload
    BY <1>1, <1>2, NoPass DEF IsPass
  <1>4. "unreadable" \in Fates /\ fate \in [Reports -> Fates]
    BY DEF Fates, Types
  <1>5. next \in DOMAIN files => files[next].report \in Reports
    BY DEF Types, File
  <1> HIDE DEF next, P
  <1>6. /\ DOMAIN upload' = Threads /\ \A u \in Threads : IsPass(upload'[u])
        /\ upload'[t] = P /\ \A u \in Threads \ {t} : upload'[u] = upload[u]
    BY <1>1, <1>2, OnePass
  <1>7. /\ DOMAIN files' = DOMAIN files \ {next}
        /\ \A n \in DOMAIN files' : files'[n] = files[n]
        /\ IsFiniteSet(DOMAIN files')
    BY <1>1, RemoveOne DEF Types
  <1>8. /\ fate' \in [Reports -> Fates]
        /\ \A r \in Reports : \/ fate'[r] = fate[r]
                              \/ /\ fate[r] = "stored" /\ fate'[r] = "unreadable"
                                 /\ next \in DOMAIN files /\ r = files[next].report
    BY <1>1, <1>4
  <1>9. upload[t].delete = "unread" /\ next \in DOMAIN files => fate'[files[next].report] # "stored"
    BY <1>1, <1>4, <1>5
  <1> QED
    BY <1>1, <1>3, <1>6, <1>7, <1>8, <1>9 DEF next, P

\* The threads are gone: types.
LEMMA DeathTypes ==
  ASSUME Types
  PROVE  /\ AfterDeath \in [Reports -> Fates]
         /\ \A r \in Reports : AfterDeath[r] = IF fate[r] = "writing" THEN "lost" ELSE fate[r]
         /\ ThreadsDie => /\ writing' \in [Threads -> Writer \cup {NoWrite}]
                          /\ DOMAIN upload' = Threads /\ \A t \in Threads : IsPass(upload'[t])
                          /\ \A t \in Threads : writing'[t] = NoWrite /\ upload'[t] = NoUpload
                          /\ handling' = {} /\ fate' = AfterDeath
                          /\ cutShort' = cutShort \cup BeingDeleted(Threads) /\ cutShort' \subseteq Reports
  <1>1. "lost" \in Fates /\ fate \in [Reports -> Fates]
    BY DEF Fates, Types
  <1>2. /\ AfterDeath \in [Reports -> Fates]
        /\ \A r \in Reports : AfterDeath[r] = IF fate[r] = "writing" THEN "lost" ELSE fate[r]
    BY <1>1 DEF AfterDeath
  <1>3. IsPass(NoUpload)
    BY NoPass
  <1>4. ThreadsDie => /\ writing' \in [Threads -> Writer \cup {NoWrite}]
                      /\ DOMAIN upload' = Threads
                      /\ \A t \in Threads : writing'[t] = NoWrite /\ upload'[t] = NoUpload
                      /\ handling' = {} /\ fate' = AfterDeath
    BY DEF ThreadsDie
  <1>5. ThreadsDie => cutShort' = cutShort \cup BeingDeleted(Threads) /\ cutShort' \subseteq Reports
    BY DEF ThreadsDie, BeingDeleted, Types
  <1> QED
    BY <1>2, <1>3, <1>4, <1>5

\* A new capture: its name, its report and its writer.
LEMMA CaptureTypes ==
  ASSUME Types, MadeInOrder, NEW t \in Threads, CaptureStart(t)
  PROVE  \E name \in FileNames :
           /\ Made + 1 \in Reports /\ fate[Made + 1] = "none"
           /\ GiveName(name)
           /\ writing' = [writing EXCEPT ![t] = [stage |-> "named", report |-> Made + 1, name |-> name]]
           /\ [stage |-> "named", report |-> Made + 1, name |-> name] \in Writer
           /\ fate' = [fate EXCEPT ![Made + 1] = "writing"] /\ fate' \in [Reports -> Fates]
           /\ MadeInOrder'
  <1> USE CrashStoreAssumption
  <1>1. PICK c \in CounterReads :
          /\ counter' = IF c = counter THEN counter + 1 ELSE counter
          /\ GiveName([kind |-> "event", at |-> clock, number |-> c])
          /\ writing' = [writing EXCEPT ![t] = [stage |-> "named", report |-> Made + 1,
                                                name |-> [kind |-> "event", at |-> clock, number |-> c]]]
    BY DEF CaptureStart
  <1> DEFINE name == [kind |-> "event", at |-> clock, number |-> c]
  <1>2. c \in 0..(MaxReports + 99)
    <2>1. CASE c = counter
      BY <2>1 DEF MadeInOrder
    <2>2. CASE c # counter
      <3>1. PICK u \in Threads : writing[u].stage = "named" /\ c = writing[u].name.number
        BY <2>2 DEF CounterReads
      <3>2. writing[u] \in Writer
        BY <3>1 DEF Types, NoWrite
      <3>3. writing[u].name \in FileNames
        BY <3>2 DEF Writer
      <3> QED
        BY <3>1, <3>3 DEF FileNames
    <2> QED
      BY <2>1, <2>2
  <1>3. name \in FileNames
    BY <1>2 DEF FileNames, Types
  <1>4. /\ Made < MaxReports /\ fate' = [fate EXCEPT ![Made + 1] = "writing"]
        /\ fate \in [Reports -> Fates] /\ "writing" \in Fates
    BY DEF CaptureStart, Types, Fates
  <1>5. Made + 1 \in Reports
    BY <1>4 DEF MadeInOrder, Reports
  <1> DEFINE k == Made + 1
  <1>6. /\ k \in Reports /\ fate' = [fate EXCEPT ![k] = "writing"] /\ fate' \in [Reports -> Fates]
        /\ \A r \in Reports : fate'[r] # "none" <=> fate[r] # "none" \/ r = k
    <2>1. k \in Reports /\ fate' = [fate EXCEPT ![k] = "writing"]
      BY <1>4, <1>5
    <2> HIDE DEF k
    <2> QED
      BY <1>4, <2>1
  <1>7. MadeInOrder' /\ fate[Made + 1] = "none"
    BY <1>1, <1>4, <1>6, OneMade
  <1>8. [stage |-> "named", report |-> Made + 1, name |-> name] \in Writer
    BY <1>3, <1>5 DEF Writer
  <1> QED
    BY <1>1, <1>3, <1>4, <1>5, <1>6, <1>7, <1>8

\* A fatal signal: the writer and the pass of its thread are gone, and it
\* has a file to write, or none.
LEMMA SignalTypes ==
  ASSUME Types, MadeInOrder, NEW t \in Threads, NEW s \in Signals, FatalSignal(t, s)
  PROVE  /\ Made + 1 \in Reports /\ fate[Made + 1] = "none" /\ Made < MaxReports
         /\ DOMAIN upload' = Threads /\ \A u \in Threads : IsPass(upload'[u])
         /\ upload'[t] = NoUpload /\ \A u \in Threads \ {t} : upload'[u] = upload[u]
         /\ writing' \in [Threads -> Writer \cup {NoWrite}]
         /\ \A u \in Threads \ {t} : writing'[u] = writing[u]
         /\ fate' \in [Reports -> Fates]
         /\ \A r \in Reports \ {Made + 1} :
              fate'[r] = IF writing[t] # NoWrite /\ r = writing[t].report THEN "lost" ELSE fate[r]
         /\ \/ \E name \in FileNames, file \in File :
                 /\ file.report = Made + 1 /\ file.state = "partial"
                 /\ GiveName(name) /\ files' = With(files, name, file)
                 /\ writing'[t] = [stage |-> "opened", report |-> Made + 1, name |-> name]
                 /\ writing'[t] # NoWrite /\ writing'[t].report = Made + 1 /\ writing'[t].name = name
                 /\ fate'[Made + 1] = "writing"
            \/ fate'[Made + 1] = "lost" /\ writing'[t] = NoWrite /\ UNCHANGED <<files, names, reused>>
  <1> USE CrashStoreAssumption
  <1> DEFINE name == [kind |-> "signal", at |-> clock, number |-> s]
             k == Made + 1
             file == [report |-> k, state |-> "partial", mtime |-> clock]
             w == [stage |-> "opened", report |-> k, name |-> name]
             given(becomes) == [r \in Reports |->
               IF r = k THEN becomes
               ELSE IF writing[t] # NoWrite /\ r = writing[t].report THEN "lost" ELSE fate[r]]
  <1>1. k \in Reports /\ fate[k] = "none" /\ Made < MaxReports
    BY DEF FatalSignal, MadeInOrder, Reports
  <1>2. /\ upload' = [upload EXCEPT ![t] = NoUpload]
        /\ \/ /\ GiveName(name) /\ files' = With(files, name, file)
              /\ writing' = [writing EXCEPT ![t] = w] /\ fate' = given("writing")
           \/ /\ writing' = [writing EXCEPT ![t] = NoWrite] /\ fate' = given("lost")
              /\ UNCHANGED <<files, names, reused>>
    BY DEF FatalSignal
  <1>3. name \in FileNames
    BY DEF FileNames, Types
  <1>4. file \in File /\ file.report = k /\ file.state = "partial"
    BY <1>1 DEF File, Types
  <1>5. w \in Writer
    BY <1>1, <1>3 DEF Writer
  <1>6. "writing" \in Fates /\ "lost" \in Fates /\ fate \in [Reports -> Fates]
    BY DEF Fates, Types
  <1>7. IsPass(NoUpload)
    BY NoPass
  <1> HIDE DEF name, file, w, k
  <1>8. /\ DOMAIN upload' = Threads /\ \A u \in Threads : IsPass(upload'[u])
        /\ upload'[t] = NoUpload /\ \A u \in Threads \ {t} : upload'[u] = upload[u]
    BY <1>2, <1>7, OnePass
  <1>9. /\ writing' \in [Threads -> Writer \cup {NoWrite}] /\ writing'[t] \in {w, NoWrite}
        /\ \A u \in Threads \ {t} : writing'[u] = writing[u]
    BY <1>2, <1>5 DEF Types
  <1>10. ASSUME NEW becomes \in {"writing", "lost"}, fate' = given(becomes)
         PROVE  /\ fate' \in [Reports -> Fates] /\ fate'[k] = becomes
                /\ \A r \in Reports \ {k} :
                     fate'[r] = IF writing[t] # NoWrite /\ r = writing[t].report THEN "lost" ELSE fate[r]
    BY <1>1, <1>6, <1>10
  <1>11. CASE /\ GiveName(name) /\ files' = With(files, name, file)
              /\ writing' = [writing EXCEPT ![t] = w] /\ fate' = given("writing")
    <2>1. writing'[t] = w
      BY <1>11 DEF Types
    <2> HIDE DEF given
    <2>2. fate' = given("writing")
      BY <1>11
    <2>3. /\ fate' \in [Reports -> Fates] /\ fate'[k] = "writing"
          /\ \A r \in Reports \ {k} :
               fate'[r] = IF writing[t] # NoWrite /\ r = writing[t].report THEN "lost" ELSE fate[r]
      BY <1>10, <2>2
    <2>4. \E n \in FileNames, f \in File :
            /\ f.report = k /\ f.state = "partial"
            /\ GiveName(n) /\ files' = With(files, n, f)
            /\ writing'[t] = [stage |-> "opened", report |-> k, name |-> n]
            /\ writing'[t] # NoWrite /\ writing'[t].report = k /\ writing'[t].name = n
            /\ fate'[k] = "writing"
      <3>1. w = [stage |-> "opened", report |-> k, name |-> name] /\ w # NoWrite /\ w.report = k /\ w.name = name
        BY DEF w, NoWrite
      <3>2. writing'[t] = [stage |-> "opened", report |-> k, name |-> name] /\ writing'[t] # NoWrite
            /\ writing'[t].report = k /\ writing'[t].name = name
        BY <2>1, <3>1
      <3>3. GiveName(name) /\ files' = With(files, name, file) /\ fate'[k] = "writing"
        BY <1>11, <2>3
      <3> QED
        BY <1>3, <1>4, <3>2, <3>3
    <2> QED
      BY <1>1, <1>8, <1>9, <2>3, <2>4 DEF k
  <1>12. CASE /\ writing' = [writing EXCEPT ![t] = NoWrite] /\ fate' = given("lost")
              /\ UNCHANGED <<files, names, reused>>
    <2>1. writing'[t] = NoWrite
      BY <1>12 DEF Types
    <2> HIDE DEF given
    <2>2. fate' = given("lost")
      BY <1>12
    <2>3. /\ fate' \in [Reports -> Fates] /\ fate'[k] = "lost"
          /\ \A r \in Reports \ {k} :
               fate'[r] = IF writing[t] # NoWrite /\ r = writing[t].report THEN "lost" ELSE fate[r]
      BY <1>10, <2>2
    <2> QED
      BY <1>1, <1>8, <1>9, <1>12, <2>1, <2>3 DEF k
  <1> QED
    BY <1>2, <1>11, <1>12

\* Types, for all steps.
LEMMA TypesStep ==
  ASSUME Types, MadeInOrder, ExitState, [Next]_vars
  PROVE  Types'
  <1> USE CrashStoreAssumption
  <1>1. CASE UNCHANGED vars
    BY <1>1 DEF vars, diskVars, processVars, historyVars, Types, IsPass
  <1>2. CASE Tick
    BY <1>2 DEF Tick, processVars, historyVars, Types, IsPass
  <1>3. ASSUME NEW t \in Threads, CaptureStart(t) PROVE Types'
    <2>1. PICK name \in FileNames :
            /\ GiveName(name)
            /\ writing' = [writing EXCEPT ![t] = [stage |-> "named", report |-> Made + 1, name |-> name]]
            /\ [stage |-> "named", report |-> Made + 1, name |-> name] \in Writer
            /\ fate' \in [Reports -> Fates]
      BY <1>3, CaptureTypes
    <2> DEFINE w == [stage |-> "named", report |-> Made + 1, name |-> name]
    <2>2. writing' = [writing EXCEPT ![t] = w] /\ w \in Writer
      BY <2>1
    <2> HIDE DEF w
    <2>3. writing' \in [Threads -> Writer \cup {NoWrite}]
      BY <2>2 DEF Types
    <2>4. names' \subseteq FileNames /\ reused' \in BOOLEAN
      BY <2>1 DEF GiveName, Types
    <2>5. hook' \in {"none", "registered", "started"} /\ directory' \in {"nothing", "parent", "directory"}
      BY <1>3 DEF CaptureStart, RegisterUpload, MakeDirectory, Types
    <2>6. UNCHANGED <<files, clock, phase, runs, installed, exiter, handling, upload, torn, cutShort, exitMark, exitFailures>>
      BY <1>3 DEF CaptureStart
    <2> QED
      BY <2>1, <2>3, <2>4, <2>5, <2>6 DEF Types, IsPass
  <1>4. ASSUME NEW t \in Threads, CaptureOpen(t) PROVE Types'
    <2> DEFINE w == writing[t]
               file == [report |-> w.report, state |-> "partial", mtime |-> clock]
    <2>1. w \in Writer
      BY <1>4 DEF CaptureOpen, Types, NoWrite
    <2>2. file \in File /\ w.name \in FileNames /\ files' = With(files, w.name, file)
      BY <1>4, <2>1 DEF CaptureOpen, File, Writer, Types
    <2>3. writing' = [writing EXCEPT ![t] = [w EXCEPT !.stage = "opened"]] /\ [w EXCEPT !.stage = "opened"] \in Writer
      BY <1>4, <2>1 DEF CaptureOpen, Writer
    <2> HIDE DEF w, file
    <2>4. IsFiniteSet(DOMAIN files') /\ \A n \in DOMAIN files' : n \in FileNames /\ files'[n] \in File
      BY <2>2, PutTypes
    <2>5. writing' \in [Threads -> Writer \cup {NoWrite}]
      BY <2>3 DEF Types
    <2>6. UNCHANGED <<directory, clock, processVars, handling, upload, historyVars>>
      BY <1>4 DEF CaptureOpen
    <2> QED
      BY <2>4, <2>5, <2>6 DEF processVars, historyVars, Types, IsPass
  <1>5. ASSUME NEW t \in Threads, WriteOut(t) PROVE Types'
    <2> DEFINE w == writing[t]
               mine == [report |-> w.report, state |-> "whole", mtime |-> clock]
    <2>1. w \in Writer
      BY <1>5 DEF WriteOut, Types, NoWrite
    <2>2. w.report \in Reports /\ mine \in File /\ [mine EXCEPT !.state = "garbled"] \in File
      BY <2>1 DEF File, Writer, Types
    <2>3. \/ UNCHANGED files
          \/ files' = [files EXCEPT ![w.name] = mine]
          \/ files' = [files EXCEPT ![w.name] = [mine EXCEPT !.state = "garbled"]]
      BY <1>5 DEF WriteOut
    <2>4. fate' = [fate EXCEPT ![w.report] = "stored"] /\ writing' = [writing EXCEPT ![t] = NoWrite]
      BY <1>5 DEF WriteOut
    <2> HIDE DEF w, mine
    <2>5. IsFiniteSet(DOMAIN files') /\ \A n \in DOMAIN files' : n \in FileNames /\ files'[n] \in File
      BY <2>2, <2>3 DEF Types
    <2>6. "stored" \in Fates /\ fate \in [Reports -> Fates]
      BY DEF Fates, Types
    <2>7. fate' \in [Reports -> Fates] /\ writing' \in [Threads -> Writer \cup {NoWrite}]
      BY <2>2, <2>4, <2>6 DEF Types
    <2>8. UNCHANGED <<directory, clock, processVars, handling, upload, names, reused, torn, cutShort, exitMark, exitFailures>>
      BY <1>5 DEF WriteOut
    <2> QED
      BY <2>5, <2>7, <2>8 DEF processVars, Types, IsPass
  <1>6. ASSUME NEW t \in Threads, NEW stop \in BOOLEAN, ListPending(t, stop),
               directory' \in {"nothing", "parent", "directory"}, installed' \in BOOLEAN,
               hook' \in {"none", "registered", "started"},
               UNCHANGED <<clock, phase, runs, exiter, writing, handling, names, reused, cutShort, exitMark, exitFailures>>
        PROVE  Types'
    <2>1. /\ IsFiniteSet(DOMAIN files') /\ DOMAIN files' \subseteq DOMAIN files
          /\ \A n \in DOMAIN files' : files'[n] = files[n]
          /\ DOMAIN upload' = Threads /\ \A u \in Threads : IsPass(upload'[u])
          /\ fate' \in [Reports -> Fates] /\ torn' \in BOOLEAN
      BY <1>6, ListTypes
    <2> QED
      BY <1>6, <2>1 DEF Types
  <1>7. ASSUME NEW t \in Threads, UploadPending(t) PROVE Types'
    BY <1>6, <1>7 DEF UploadPending, processVars, Types
  <1>8. ASSUME NEW t \in Threads, UploadRead(t) PROVE Types'
    <2>1. DOMAIN upload' = Threads /\ \A u \in Threads : IsPass(upload'[u])
      BY <1>8, ReadTypes
    <2>2. torn' \in BOOLEAN
      BY <1>8 DEF UploadRead, Types
    <2>3. UNCHANGED <<diskVars, processVars, writing, handling, fate, names, reused, cutShort, exitMark, exitFailures>>
      BY <1>8 DEF UploadRead
    <2> QED
      BY <2>1, <2>2, <2>3 DEF diskVars, processVars, Types
  <1>9. ASSUME NEW t \in Threads, NEW status \in Statuses, UploadAnswer(t, status) PROVE Types'
    <2>1. /\ DOMAIN upload' = Threads /\ \A u \in Threads : IsPass(upload'[u])
          /\ UNCHANGED files /\ fate' \in [Reports -> Fates]
      BY <1>9, AnswerTypes
    <2>2. exitFailures' \in Nat
      BY <1>9 DEF UploadAnswer, Types
    <2>3. UNCHANGED <<directory, clock, processVars, writing, handling, names, reused, torn, cutShort, exitMark>>
      BY <1>9 DEF UploadAnswer, diskVars
    <2> QED
      BY <2>1, <2>2, <2>3 DEF processVars, Types
  <1>10. ASSUME NEW t \in Threads, InstallHandlers(t) PROVE Types'
    <2>1. directory' \in {"nothing", "parent", "directory"} /\ installed' \in BOOLEAN
      BY <1>10 DEF InstallHandlers, InstallDirectory, Types
    <2>2. UNCHANGED <<clock, phase, runs, hook, exiter, writing, handling, names, reused, cutShort, exitMark, exitFailures>>
      BY <1>10 DEF InstallHandlers
    <2>3. CASE ListPending(t, FALSE)
      BY <1>6, <2>1, <2>2, <2>3 DEF Types
    <2>4. CASE UNCHANGED <<files, upload, fate, torn>>
      BY <2>1, <2>2, <2>4 DEF Types, IsPass
    <2> QED
      BY <1>10, <2>3, <2>4 DEF InstallHandlers
  <1>11. ASSUME NEW t \in Threads, Exit(t) PROVE Types'
    BY <1>11 DEF Exit, diskVars, Types, IsPass
  <1>12. ASSUME NEW t \in Threads, NEW s \in Signals, FatalSignal(t, s) PROVE Types'
    <2>1. /\ DOMAIN upload' = Threads /\ \A u \in Threads : IsPass(upload'[u])
          /\ writing' \in [Threads -> Writer \cup {NoWrite}]
          /\ fate' \in [Reports -> Fates]
          /\ \/ \E name \in FileNames, file \in File :
                  /\ file.report = Made + 1 /\ file.state = "partial"
                  /\ GiveName(name) /\ files' = With(files, name, file)
                  /\ writing'[t] = [stage |-> "opened", report |-> Made + 1, name |-> name]
                  /\ writing'[t] # NoWrite /\ writing'[t].report = Made + 1 /\ writing'[t].name = name
                  /\ fate'[Made + 1] = "writing"
             \/ UNCHANGED <<files, names, reused>>
      BY <1>12, SignalTypes
    <2>2. /\ IsFiniteSet(DOMAIN files') /\ \A n \in DOMAIN files' : n \in FileNames /\ files'[n] \in File
          /\ names' \subseteq FileNames /\ reused' \in BOOLEAN
      <3>1. ASSUME NEW name \in FileNames, NEW file \in File, GiveName(name), files' = With(files, name, file)
            PROVE  /\ IsFiniteSet(DOMAIN files') /\ \A n \in DOMAIN files' : n \in FileNames /\ files'[n] \in File
                   /\ names' \subseteq FileNames /\ reused' \in BOOLEAN
        <4>1. IsFiniteSet(DOMAIN files') /\ \A n \in DOMAIN files' : n \in FileNames /\ files'[n] \in File
          BY <3>1, PutTypes
        <4>2. names' \subseteq FileNames /\ reused' \in BOOLEAN
          BY <3>1 DEF GiveName, Types
        <4> QED
          BY <4>1, <4>2
      <3>2. CASE UNCHANGED <<files, names, reused>>
        BY <3>2 DEF Types
      <3> QED
        BY <2>1, <3>1, <3>2
    <2>3. /\ handling' \subseteq Threads /\ cutShort' \subseteq Reports
          /\ UNCHANGED <<directory, clock, phase, runs, installed, hook, exiter, torn, exitMark, exitFailures>>
      BY <1>12 DEF FatalSignal, BeingDeleted, processVars, Types
    <2> QED
      BY <2>1, <2>2, <2>3 DEF Types
  <1>13. CASE Killed \/ ProcessEnd \/ \E t \in Threads : Raise(t)
    <2>1. ThreadsDie
      BY <1>13 DEF Killed, ProcessEnd, Raise
    <2>2. /\ writing' \in [Threads -> Writer \cup {NoWrite}]
          /\ DOMAIN upload' = Threads /\ \A t \in Threads : IsPass(upload'[t])
          /\ fate' \in [Reports -> Fates] /\ handling' = {} /\ cutShort' \subseteq Reports
      BY <2>1, DeathTypes
    <2>3. /\ phase' \in {"killed", "exited", "crashed"}
          /\ UNCHANGED <<directory, files, clock, runs, installed, hook, exiter, names, reused, torn, exitMark, exitFailures>>
      BY <1>13 DEF Killed, ProcessEnd, Raise, diskVars
    <2> QED
      BY <2>2, <2>3 DEF Types
  <1>14. CASE ExitUpload
    <2>1. exiter \in Threads /\ hook' = "started"
      BY <1>14 DEF ExitUpload, ExitState
    <2>2. UNCHANGED <<directory, clock, phase, runs, installed, exiter, writing, handling, names, reused, cutShort, exitMark, exitFailures>>
      BY <1>14 DEF ExitUpload
    <2>3. CASE ListPending(exiter, TRUE)
      BY <1>6, <2>1, <2>2, <2>3 DEF Types
    <2>4. CASE UNCHANGED <<files, upload, fate, torn>>
      BY <2>1, <2>2, <2>4 DEF Types, IsPass
    <2> QED
      BY <1>14, <2>3, <2>4 DEF ExitUpload
  <1>15. CASE Restart
    <2>1. /\ phase' = "running" /\ installed' = FALSE /\ hook' = "none" /\ exiter' = NoThread
          /\ exitMark' = {} /\ exitFailures' = 0
          /\ UNCHANGED <<directory, files, clock, writing, handling, upload, fate, names, reused, torn, cutShort>>
      BY <1>15 DEF Restart, diskVars
    <2>2. runs' \in 1..MaxRuns
      BY <1>15 DEF Restart, Types
    <2> QED
      BY <2>1, <2>2 DEF Types, IsPass
  <1>16. CASE Terminated
    BY <1>1, <1>16 DEF Terminated
  <1>17. ASSUME NEW t \in Threads, UploadDelete(t) PROVE Types'
    <2>1. /\ DOMAIN upload' = Threads /\ \A u \in Threads : IsPass(upload'[u])
          /\ IsFiniteSet(DOMAIN files') /\ DOMAIN files' \subseteq DOMAIN files
          /\ \A n \in DOMAIN files' : files'[n] = files[n]
          /\ fate' \in [Reports -> Fates]
      BY <1>17, DeleteTypes
    <2>2. UNCHANGED <<directory, clock, processVars, writing, handling, names, reused, torn, cutShort, exitMark, exitFailures>>
      BY <1>17 DEF UploadDelete
    <2> QED
      BY <2>1, <2>2 DEF processVars, Types
  <1> QED
    BY <1>1, <1>2, <1>3, <1>4, <1>5, <1>7, <1>8, <1>9, <1>10, <1>11, <1>12, <1>13, <1>14, <1>15, <1>16, <1>17
    DEF Next, CaptureWrite, SignalWrite

-----------------------------------------------------------------------------
\* Reports are numbered as they are made, for all steps.
LEMMA MadeStep ==
  ASSUME Types, MadeInOrder, WritersOwn(writing, fate), ExitState, [Next]_vars
  PROVE  MadeInOrder'
  <1> USE CrashStoreAssumption
  <1>1. CASE UNCHANGED <<fate, counter>>
    BY <1>1, NoneMade
  <1>2. ASSUME NEW t \in Threads, CaptureStart(t) PROVE MadeInOrder'
    BY <1>2, CaptureTypes
  <1>3. ASSUME NEW t \in Threads, WriteOut(t) PROVE MadeInOrder'
    <2> DEFINE k == writing[t].report
    <2>1. writing[t] \in Writer
      BY <1>3 DEF WriteOut, Types, NoWrite
    <2>2. k \in Reports /\ fate[k] = "writing"
      BY <1>3, <2>1 DEF Writer, WritersOwn, WriteOut, NoWrite
    <2>3. fate' = [fate EXCEPT ![k] = "stored"] /\ UNCHANGED counter /\ fate \in [Reports -> Fates]
      BY <1>3 DEF WriteOut, processVars, Types
    <2> HIDE DEF k
    <2>4. \A r \in Reports : fate'[r] = "none" <=> fate[r] = "none"
      BY <2>2, <2>3
    <2> QED
      BY <2>3, <2>4, NoneMade
  <1>4. ASSUME NEW t \in Threads, NEW stop \in BOOLEAN, ListPending(t, stop), UNCHANGED counter
        PROVE  MadeInOrder'
    <2>1. \A r \in Reports : fate'[r] = fate[r] \/ (fate[r] = "stored" /\ fate'[r] = "evicted")
      BY <1>4, ListTypes
    <2> QED
      BY <1>4, <2>1, NoneMade
  <1>5. ASSUME NEW t \in Threads, NEW status \in Statuses, UploadAnswer(t, status) PROVE MadeInOrder'
    <2>1. \A r \in Reports : fate'[r] = fate[r] \/ (fate[r] = "stored" /\ fate'[r] \in {Delivered, Rejected})
      BY <1>5, AnswerTypes
    <2>2. UNCHANGED counter
      BY <1>5 DEF UploadAnswer, processVars
    <2>3. \A r \in Reports : fate'[r] = "none" <=> fate[r] = "none"
      BY <2>1 DEF Delivered, Rejected
    <2> QED
      BY <2>2, <2>3, NoneMade
  <1>6. ASSUME NEW t \in Threads, NEW s \in Signals, FatalSignal(t, s) PROVE MadeInOrder'
    <2> DEFINE k == Made + 1
    <2>1. /\ k \in Reports /\ Made < MaxReports
          /\ \A r \in Reports \ {k} :
               fate'[r] = IF writing[t] # NoWrite /\ r = writing[t].report THEN "lost" ELSE fate[r]
          /\ fate'[k] \in {"writing", "lost"}
      BY <1>6, SignalTypes
    <2>2. UNCHANGED counter
      BY <1>6 DEF FatalSignal, processVars
    <2>3. writing[t] # NoWrite => fate[writing[t].report] = "writing"
      BY DEF WritersOwn
    <2>4. \A r \in Reports : fate'[r] # "none" <=> fate[r] # "none" \/ r = k
      <3> HIDE DEF k
      <3> QED
        BY <2>1, <2>3
    <2> QED
      BY <2>1, <2>2, <2>4, OneMade
  <1>7. CASE Killed \/ ProcessEnd \/ \E t \in Threads : Raise(t)
    <2>1. fate' = AfterDeath /\ UNCHANGED counter
      BY <1>7 DEF Killed, ProcessEnd, Raise, ThreadsDie
    <2>2. \A r \in Reports : AfterDeath[r] = IF fate[r] = "writing" THEN "lost" ELSE fate[r]
      BY DeathTypes
    <2>3. \A r \in Reports : fate'[r] = "none" <=> fate[r] = "none"
      BY <2>1, <2>2
    <2> QED
      BY <2>1, <2>3, NoneMade
  <1>8. CASE Restart
    BY <1>8, NoneMade DEF Restart
  <1>9. ASSUME NEW t \in Threads, InstallHandlers(t) PROVE MadeInOrder'
    BY <1>1, <1>4, <1>9 DEF InstallHandlers
  <1>10. CASE ExitUpload
    <2>1. exiter \in Threads
      BY <1>10 DEF ExitUpload, ExitState
    <2> QED
      BY <1>1, <1>4, <1>10, <2>1 DEF ExitUpload
  <1>11. ASSUME NEW t \in Threads, UploadPending(t) PROVE MadeInOrder'
    BY <1>4, <1>11 DEF UploadPending, processVars
  <1>12. ASSUME NEW t \in Threads, CaptureOpen(t) \/ UploadRead(t) \/ Exit(t) PROVE MadeInOrder'
    BY <1>1, <1>12 DEF CaptureOpen, UploadRead, Exit, processVars, historyVars
  <1>13. CASE Tick \/ Terminated \/ UNCHANGED vars
    BY <1>1, <1>13 DEF Tick, Terminated, vars, processVars, historyVars
  <1>14. ASSUME NEW t \in Threads, UploadDelete(t) PROVE MadeInOrder'
    <2>1. \A r \in Reports : fate'[r] = fate[r] \/ (fate[r] = "stored" /\ fate'[r] = "unreadable")
      BY <1>14, DeleteTypes
    <2>2. UNCHANGED counter
      BY <1>14 DEF UploadDelete, processVars
    <2>3. \A r \in Reports : fate'[r] = "none" <=> fate[r] = "none"
      BY <2>1
    <2> QED
      BY <2>2, <2>3, NoneMade
  <1> QED
    BY <1>2, <1>3, <1>5, <1>6, <1>7, <1>8, <1>9, <1>10, <1>11, <1>12, <1>13, <1>14
    DEF Next, CaptureWrite, SignalWrite

\* Captures have their own reports, for all steps.
LEMMA OwnStep ==
  ASSUME Types, MadeInOrder, WritersOwn(writing, fate), ExitState, [Next]_vars
  PROVE  WritersOwn(writing', fate')
  <1> USE CrashStoreAssumption
  <1>0. \A t \in Threads : writing[t] # NoWrite => writing[t].report \in Reports
    BY DEF Types, Writer
  <1>1. CASE UNCHANGED writing /\ \A r \in Reports : fate[r] = "writing" => fate'[r] = "writing"
    BY <1>0, <1>1 DEF WritersOwn
  <1>2. ASSUME NEW t \in Threads, CaptureStart(t) PROVE WritersOwn(writing', fate')
    <2> DEFINE k == Made + 1
    <2>1. PICK name \in FileNames :
            /\ Made + 1 \in Reports /\ fate[Made + 1] = "none"
            /\ writing' = [writing EXCEPT ![t] = [stage |-> "named", report |-> Made + 1, name |-> name]]
            /\ fate' = [fate EXCEPT ![Made + 1] = "writing"]
      BY <1>2, CaptureTypes
    <2> DEFINE w == [stage |-> "named", report |-> k, name |-> name]
    <2>2. /\ k \in Reports /\ fate[k] = "none" /\ writing' = [writing EXCEPT ![t] = w] /\ w.report = k
          /\ fate' = [fate EXCEPT ![k] = "writing"]
      BY <2>1
    <2> HIDE DEF k, w
    <2>3. /\ writing'[t] = w /\ \A u \in Threads \ {t} : writing'[u] = writing[u]
          /\ fate'[k] = "writing" /\ \A r \in Reports \ {k} : fate'[r] = fate[r]
      BY <2>2 DEF Types
    <2>4. \A u \in Threads : writing[u] # NoWrite => writing[u].report # k /\ fate[writing[u].report] = "writing"
      BY <2>2 DEF WritersOwn
    <2> QED
      BY <1>0, <2>2, <2>3, <2>4 DEF WritersOwn
  <1>3. ASSUME NEW t \in Threads, CaptureOpen(t) PROVE WritersOwn(writing', fate')
    <2>1. writing[t] \in Writer /\ writing[t] # NoWrite
      BY <1>3 DEF CaptureOpen, Types, NoWrite
    <2>2. writing' = [writing EXCEPT ![t].stage = "opened"] /\ UNCHANGED fate
      BY <1>3 DEF CaptureOpen, historyVars
    <2>3. writing'[t].report = writing[t].report /\ \A u \in Threads \ {t} : writing'[u] = writing[u]
      BY <2>1, <2>2 DEF Types, Writer
    <2> QED
      BY <2>1, <2>2, <2>3 DEF WritersOwn
  <1>4. ASSUME NEW t \in Threads, WriteOut(t) PROVE WritersOwn(writing', fate')
    <2> DEFINE k == writing[t].report
    <2>1. writing[t] # NoWrite
      BY <1>4 DEF WriteOut, NoWrite
    <2>2. k \in Reports
      BY <1>0, <2>1
    <2>3. fate' = [fate EXCEPT ![k] = "stored"] /\ writing' = [writing EXCEPT ![t] = NoWrite]
      BY <1>4 DEF WriteOut
    <2>4. \A u \in Threads \ {t} : writing[u] # NoWrite => writing[u].report # k
      BY <2>1 DEF WritersOwn
    <2> HIDE DEF k
    <2>5. /\ writing'[t] = NoWrite /\ \A u \in Threads \ {t} : writing'[u] = writing[u]
          /\ \A r \in Reports \ {k} : fate'[r] = fate[r]
      BY <2>2, <2>3 DEF Types
    <2> QED
      BY <1>0, <2>4, <2>5 DEF WritersOwn
  <1>5. ASSUME NEW t \in Threads, NEW stop \in BOOLEAN, ListPending(t, stop), UNCHANGED writing
        PROVE  WritersOwn(writing', fate')
    <2>1. \A r \in Reports : fate'[r] = fate[r] \/ (fate[r] = "stored" /\ fate'[r] = "evicted")
      BY <1>5, ListTypes
    <2> QED
      BY <1>1, <1>5, <2>1
  <1>6. ASSUME NEW t \in Threads, NEW status \in Statuses, UploadAnswer(t, status)
        PROVE  WritersOwn(writing', fate')
    <2>1. \A r \in Reports : fate'[r] = fate[r] \/ (fate[r] = "stored" /\ fate'[r] \in {Delivered, Rejected})
      BY <1>6, AnswerTypes
    <2>2. UNCHANGED writing
      BY <1>6 DEF UploadAnswer
    <2> QED
      BY <1>1, <2>1, <2>2
  <1>7. ASSUME ThreadsDie PROVE WritersOwn(writing', fate')
    BY <1>7, DeathTypes DEF WritersOwn
  <1>8. ASSUME NEW t \in Threads, NEW s \in Signals, FatalSignal(t, s) PROVE WritersOwn(writing', fate')
    <2> DEFINE k == Made + 1
    <2>1. /\ k \in Reports /\ fate[k] = "none"
          /\ \A u \in Threads \ {t} : writing'[u] = writing[u]
          /\ \A r \in Reports \ {k} :
               fate'[r] = IF writing[t] # NoWrite /\ r = writing[t].report THEN "lost" ELSE fate[r]
          /\ \/ /\ writing'[t] # NoWrite /\ writing'[t].report = k /\ fate'[k] = "writing"
             \/ writing'[t] = NoWrite /\ fate'[k] = "lost"
      BY <1>8, SignalTypes
    <2> HIDE DEF k
    <2>2. \A u \in Threads \ {t} : writing[u] # NoWrite =>
            /\ writing[u].report \in Reports \ {k} /\ fate[writing[u].report] = "writing"
            /\ writing[t] # NoWrite => writing[t].report # writing[u].report
      BY <1>0, <2>1 DEF WritersOwn
    <2>3. \A u \in Threads \ {t} : writing'[u] # NoWrite =>
            writing'[u].report # k /\ fate'[writing'[u].report] = "writing"
      BY <2>1, <2>2
    <2>4. \A u, v \in Threads \ {t} : u # v /\ writing'[u] # NoWrite /\ writing'[v] # NoWrite
            => writing'[u].report # writing'[v].report
      BY <2>1 DEF WritersOwn
    <2> QED
      BY <2>1, <2>3, <2>4 DEF WritersOwn
  <1>9. CASE Killed \/ ProcessEnd \/ \E t \in Threads : Raise(t)
    BY <1>7, <1>9 DEF Killed, ProcessEnd, Raise
  <1>10. CASE Restart
    BY <1>1, <1>10 DEF Restart
  <1>11. ASSUME NEW t \in Threads, InstallHandlers(t) PROVE WritersOwn(writing', fate')
    BY <1>1, <1>5, <1>11 DEF InstallHandlers
  <1>12. CASE ExitUpload
    <2>1. exiter \in Threads
      BY <1>12 DEF ExitUpload, ExitState
    <2> QED
      BY <1>1, <1>5, <1>12, <2>1 DEF ExitUpload
  <1>13. ASSUME NEW t \in Threads, UploadPending(t) PROVE WritersOwn(writing', fate')
    BY <1>5, <1>13 DEF UploadPending
  <1>14. ASSUME NEW t \in Threads, UploadRead(t) \/ Exit(t) PROVE WritersOwn(writing', fate')
    BY <1>1, <1>14 DEF UploadRead, Exit
  <1>16. ASSUME NEW t \in Threads, UploadDelete(t) PROVE WritersOwn(writing', fate')
    <2>1. \A r \in Reports : fate'[r] = fate[r] \/ (fate[r] = "stored" /\ fate'[r] = "unreadable")
      BY <1>16, DeleteTypes
    <2>2. UNCHANGED writing
      BY <1>16 DEF UploadDelete
    <2> QED
      BY <1>1, <2>1, <2>2
  <1>15. CASE Tick \/ Terminated \/ UNCHANGED vars
    BY <1>1, <1>15 DEF Tick, Terminated, vars, historyVars
  <1> QED
    BY <1>2, <1>3, <1>4, <1>6, <1>8, <1>9, <1>10, <1>11, <1>12, <1>13, <1>14, <1>15, <1>16 DEF Next, CaptureWrite, SignalWrite

-----------------------------------------------------------------------------
\* A step that leaves the exiting thread's pass alone, or ends it.
LEMMA ExitKept ==
  ASSUME ExitState, Alive, UNCHANGED <<phase, exiter, exitFailures>>,
         hook' = hook \/ (hook = "none" /\ hook' = "registered"),
         exiter \in Threads => upload'[exiter] \in {upload[exiter], NoUpload}
  PROVE  ExitState'
  BY DEF ExitState, Alive

\* The exiting thread, for all steps.
LEMMA ExitStep ==
  ASSUME Types, MadeInOrder, ExitState, [Next]_vars
  PROVE  ExitState'
  <1> USE CrashStoreAssumption
  <1>0. phase # "exiting" /\ Alive => exiter \notin Threads
    BY DEF ExitState, Alive
  <1>1. ASSUME UNCHANGED <<phase, exiter, exitFailures, hook, writing, upload>> PROVE ExitState'
    BY <1>1 DEF ExitState, Alive
  <1>2. ASSUME NEW t \in Threads, CaptureStart(t) PROVE ExitState'
    <2>1. hook' = hook \/ (hook = "none" /\ hook' = "registered")
      BY <1>2 DEF CaptureStart, RegisterUpload
    <2>2. Alive /\ UNCHANGED <<phase, exiter, exitFailures, upload>>
      BY <1>2 DEF CaptureStart, Free
    <2> QED
      BY <2>1, <2>2, ExitKept
  <1>3. ASSUME NEW t \in Threads, CaptureOpen(t) \/ WriteOut(t) PROVE ExitState'
    <2>1. Alive /\ UNCHANGED <<phase, exiter, exitFailures, hook, upload>>
      BY <1>3 DEF CaptureOpen, WriteOut, processVars, historyVars
    <2> QED
      BY <2>1, ExitKept
  <1>4. ASSUME NEW t \in Threads, UploadPending(t) \/ InstallHandlers(t) PROVE ExitState'
    <2>1. t # exiter /\ Alive
      BY <1>4 DEF UploadPending, InstallHandlers, Free
    <2>2. ListPending(t, FALSE) \/ UNCHANGED upload
      BY <1>4 DEF UploadPending, InstallHandlers
    <2>3. exiter \in Threads => upload'[exiter] = upload[exiter]
      BY <2>1, <2>2, ListTypes
    <2>4. UNCHANGED <<phase, exiter, exitFailures, hook, writing>>
      BY <1>4 DEF UploadPending, InstallHandlers, processVars
    <2> QED
      BY <2>1, <2>3, <2>4, ExitKept
  <1>5. ASSUME NEW t \in Threads, UploadRead(t) PROVE ExitState'
    <2>1. Alive /\ UNCHANGED <<phase, exiter, exitFailures, hook, writing>>
      BY <1>5 DEF UploadRead, processVars
    <2>2. /\ \A u \in Threads \ {t} : upload'[u] = upload[u]
          /\ upload'[t].stop = upload[t].stop /\ upload[t] # NoUpload
      BY <1>5, ReadTypes
    <2>5. CASE t # exiter
      BY <2>1, <2>2, <2>5, ExitKept
    <2>6. CASE t = exiter
      <3>1. phase = "exiting"
        BY <1>0, <2>1, <2>6 DEF Alive
      <3>2. upload[exiter] # NoUpload
        BY <2>2, <2>6
      <3>3. hook = "started" /\ upload[exiter].stop /\ exitFailures = 0
        BY <3>1, <3>2 DEF ExitState, Types
      <3> QED
        BY <2>1, <2>2, <2>6, <3>1, <3>3 DEF ExitState, Alive
    <2> QED
      BY <2>5, <2>6
  <1>6. ASSUME NEW t \in Threads, NEW status \in Statuses, UploadAnswer(t, status) PROVE ExitState'
    <2> DEFINE next == Oldest(upload[t].todo)
               outcome == OutcomeForStatus(status)
    <2>1. Alive /\ UNCHANGED <<phase, exiter, hook, writing>> /\ upload[t].payload # << >>
      BY <1>6 DEF UploadAnswer, processVars
    <2>2. /\ \A u \in Threads \ {t} : upload'[u] = upload[u]
          /\ Deletes(outcome) => upload'[t].stop = upload[t].stop
          /\ ~Deletes(outcome) =>
               upload'[t] = IF StopsPass(outcome, upload[t].stop) THEN NoUpload ELSE Onward(upload[t], next)
      BY <1>6, AnswerTypes
    <2>3. exitFailures' = IF t = exiter /\ outcome = Failed THEN exitFailures + 1 ELSE exitFailures
      BY <1>6 DEF UploadAnswer
    <2> HIDE DEF next, outcome
    <2>4. IsPass(upload[t])
      BY DEF Types
    <2>5. /\ outcome = Failed /\ upload[t].stop => upload'[t] = NoUpload
          /\ upload'[t] = NoUpload \/ upload'[t].stop = upload[t].stop
      BY <2>2, <2>4, PassGoesOn DEF StopsPass, Deletes
    <2>6. CASE t # exiter
      BY <2>1, <2>2, <2>3, <2>6, ExitKept
    <2>7. CASE t = exiter
      <3>1. phase = "exiting"
        BY <1>0, <2>1, <2>7 DEF Alive
      <3>2. upload[exiter] # NoUpload
        BY <2>1, <2>7, NoPass
      <3>3. hook = "started" /\ upload[exiter].stop /\ exitFailures = 0
        BY <3>1, <3>2 DEF ExitState, Types
      <3>4. exiter \in Threads
        BY <3>1 DEF ExitState
      <3>5. exitFailures' = 0 \/ (exitFailures' = 1 /\ outcome = Failed)
        BY <2>3, <3>3
      <3>6. upload'[exiter] = NoUpload \/ (upload'[exiter].stop /\ outcome # Failed)
        BY <2>5, <2>7, <3>3, Zenon
      <3> QED
        BY <2>1, <3>1, <3>3, <3>4, <3>5, <3>6 DEF ExitState, Alive
    <2> QED
      BY <2>6, <2>7
  <1>7. ASSUME NEW t \in Threads, Exit(t) PROVE ExitState'
    <2>1. phase = "running" /\ writing[t] = NoWrite /\ upload[t] = NoUpload
      BY <1>7 DEF Exit, Free
    <2>2. phase' = "exiting" /\ exiter' = t /\ UNCHANGED <<hook, writing, upload, exitFailures>>
      BY <1>7 DEF Exit
    <2> QED
      BY <2>1, <2>2 DEF ExitState, Alive
  <1>8. ASSUME ThreadsDie, phase' \in {"crashed", "killed", "exited"}, UNCHANGED exitFailures PROVE ExitState'
    BY <1>8, DeathTypes DEF ExitState, Alive
  <1>9. ASSUME NEW t \in Threads, NEW s \in Signals, FatalSignal(t, s) PROVE ExitState'
    <2>1. upload'[t] = NoUpload /\ \A u \in Threads \ {t} : upload'[u] = upload[u]
      BY <1>9, SignalTypes
    <2>2. Alive /\ UNCHANGED <<phase, exiter, exitFailures, hook>>
      BY <1>9 DEF FatalSignal, processVars
    <2> QED
      BY <2>1, <2>2, ExitKept
  <1>10. CASE Killed \/ ProcessEnd \/ \E t \in Threads : Raise(t)
    BY <1>8, <1>10 DEF Killed, ProcessEnd, Raise
  <1>11. CASE ExitUpload
    <2>1. /\ phase = "exiting" /\ hook = "registered" /\ hook' = "started"
          /\ UNCHANGED <<phase, exiter, writing, exitFailures>>
      BY <1>11 DEF ExitUpload
    <2>2. exiter \in Threads /\ upload[exiter] = NoUpload /\ exitFailures = 0
      BY <2>1 DEF ExitState
    <2>3. ListPending(exiter, TRUE) \/ UNCHANGED upload
      BY <1>11 DEF ExitUpload
    <2>4. upload'[exiter] = NoUpload \/ upload'[exiter].stop
      BY <2>2, <2>3, ListTypes
    <2> QED
      BY <2>1, <2>2, <2>4 DEF ExitState, Alive
  <1>12. CASE Restart
    <2>1. /\ ~Alive /\ phase' = "running" /\ hook' = "none" /\ exiter' = NoThread /\ exitFailures' = 0
          /\ UNCHANGED <<writing, upload>>
      BY <1>12 DEF Restart
    <2> QED
      BY <2>1 DEF ExitState, Alive
  <1>13. CASE Tick \/ Terminated \/ UNCHANGED vars
    BY <1>1, <1>13 DEF Tick, Terminated, vars, processVars, historyVars
  <1>14. ASSUME NEW t \in Threads, UploadDelete(t) PROVE ExitState'
    <2>1. Alive /\ UNCHANGED <<phase, exiter, exitFailures, hook, writing>>
      BY <1>14 DEF UploadDelete, processVars
    <2>2. /\ \A u \in Threads \ {t} : upload'[u] = upload[u]
          /\ upload'[t] = Onward(upload[t], Oldest(upload[t].todo)) /\ upload[t] # NoUpload
      BY <1>14, DeleteTypes
    <2>3. IsPass(upload[t])
      BY DEF Types
    <2>4. upload'[t].stop = upload[t].stop \/ upload'[t] = NoUpload
      BY <2>2, <2>3, PassGoesOn
    <2>5. CASE t # exiter
      BY <2>1, <2>2, <2>5, ExitKept
    <2>6. CASE t = exiter
      <3>1. phase = "exiting"
        BY <1>0, <2>1, <2>6 DEF Alive
      <3>2. hook = "started" /\ upload[exiter].stop /\ exitFailures = 0
        BY <2>2, <2>6, <3>1 DEF ExitState, Types
      <3> QED
        BY <2>1, <2>4, <2>6, <3>1, <3>2 DEF ExitState, Alive
    <2> QED
      BY <2>5, <2>6
  <1> QED
    BY <1>2, <1>3, <1>4, <1>5, <1>6, <1>7, <1>9, <1>10, <1>11, <1>12, <1>13, <1>14
    DEF Next, CaptureWrite, SignalWrite

\* What is being written has a writer and what was stored at exit() has none,
\* for all steps.
LEMMA WriterStep ==
  ASSUME Types, MadeInOrder, WritersOwn(writing, fate), HasWriter(writing, fate), Marked(exitMark, fate),
         ExitState, [Next]_vars
  PROVE  HasWriter(writing', fate') /\ Marked(exitMark', fate')
  <1> USE CrashStoreAssumption
  <1> DEFINE Goal == HasWriter(writing', fate') /\ Marked(exitMark', fate')
  <1>0. exitMark \subseteq Reports
    BY DEF Types
  <1>1. ASSUME UNCHANGED <<writing, exitMark>>,
               \A r \in Reports : fate'[r] = fate[r] \/ fate'[r] \notin {"none", "writing"}
        PROVE  Goal
    BY <1>0, <1>1 DEF HasWriter, Marked
  <1>2. ASSUME NEW t \in Threads, CaptureStart(t) PROVE Goal
    <2> DEFINE k == Made + 1
    <2>1. PICK name \in FileNames :
            /\ Made + 1 \in Reports /\ fate[Made + 1] = "none"
            /\ writing' = [writing EXCEPT ![t] = [stage |-> "named", report |-> Made + 1, name |-> name]]
            /\ [stage |-> "named", report |-> Made + 1, name |-> name] \in Writer
            /\ fate' = [fate EXCEPT ![Made + 1] = "writing"]
      BY <1>2, CaptureTypes
    <2> DEFINE w == [stage |-> "named", report |-> k, name |-> name]
    <2>2. /\ k \in Reports /\ fate[k] = "none" /\ writing' = [writing EXCEPT ![t] = w] /\ w.report = k
          /\ fate' = [fate EXCEPT ![k] = "writing"] /\ w # NoWrite
      BY <2>1 DEF NoWrite
    <2> HIDE DEF k, w
    <2>3. /\ writing'[t] = w /\ \A u \in Threads \ {t} : writing'[u] = writing[u]
          /\ \A r \in Reports \ {k} : fate'[r] = fate[r]
      BY <2>2 DEF Types
    <2>4. writing[t] = NoWrite /\ UNCHANGED exitMark
      BY <1>2 DEF CaptureStart, Free
    <2>5. HasWriter(writing', fate')
      BY <2>2, <2>3, <2>4 DEF HasWriter
    <2>6. Marked(exitMark', fate')
      BY <1>0, <2>2, <2>3, <2>4 DEF Marked
    <2> QED
      BY <2>5, <2>6
  <1>3. ASSUME NEW t \in Threads, CaptureOpen(t) PROVE Goal
    <2>1. writing[t] \in Writer /\ writing[t] # NoWrite
      BY <1>3 DEF CaptureOpen, Types, NoWrite
    <2>2. writing' = [writing EXCEPT ![t].stage = "opened"] /\ UNCHANGED <<fate, exitMark>>
      BY <1>3 DEF CaptureOpen, historyVars
    <2>3. /\ writing'[t].report = writing[t].report /\ writing'[t] # NoWrite
          /\ \A u \in Threads \ {t} : writing'[u] = writing[u]
      BY <2>1, <2>2 DEF Types, Writer, NoWrite
    <2> QED
      BY <2>1, <2>2, <2>3 DEF HasWriter, Marked
  <1>4. ASSUME NEW t \in Threads, WriteOut(t) PROVE Goal
    <2> DEFINE k == writing[t].report
    <2>1. writing[t] \in Writer
      BY <1>4 DEF WriteOut, Types, NoWrite
    <2>2. k \in Reports
      BY <2>1 DEF Writer
    <2>3. fate' = [fate EXCEPT ![k] = "stored"] /\ writing' = [writing EXCEPT ![t] = NoWrite] /\ UNCHANGED exitMark
      BY <1>4 DEF WriteOut
    <2>4. \A u \in Threads : writing[u] # NoWrite /\ writing[u].report # k => u # t
      OBVIOUS
    <2> HIDE DEF k
    <2>5. /\ writing'[t] = NoWrite /\ \A u \in Threads \ {t} : writing'[u] = writing[u]
          /\ fate'[k] = "stored" /\ \A r \in Reports \ {k} : fate'[r] = fate[r]
      BY <2>2, <2>3 DEF Types
    <2>6. HasWriter(writing', fate')
      BY <2>4, <2>5 DEF HasWriter
    <2>7. Marked(exitMark', fate')
      BY <1>0, <2>2, <2>3, <2>5 DEF Marked
    <2> QED
      BY <2>6, <2>7
  <1>5. ASSUME NEW t \in Threads, NEW stop \in BOOLEAN, ListPending(t, stop), UNCHANGED <<writing, exitMark>>
        PROVE  Goal
    <2>1. \A r \in Reports : fate'[r] = fate[r] \/ fate'[r] = "evicted"
      BY <1>5, ListTypes
    <2> QED
      BY <1>1, <1>5, <2>1
  <1>6. ASSUME NEW t \in Threads, NEW status \in Statuses, UploadAnswer(t, status) PROVE Goal
    <2>1. \A r \in Reports : fate'[r] = fate[r] \/ fate'[r] \in {Delivered, Rejected}
      BY <1>6, AnswerTypes
    <2>2. UNCHANGED <<writing, exitMark>>
      BY <1>6 DEF UploadAnswer
    <2> QED
      BY <1>1, <2>1, <2>2 DEF Delivered, Rejected
  <1>7. ASSUME NEW t \in Threads, NEW s \in Signals, FatalSignal(t, s) PROVE Goal
    <2> DEFINE k == Made + 1
    <2>1. /\ k \in Reports /\ fate[k] = "none"
          /\ \A u \in Threads \ {t} : writing'[u] = writing[u]
          /\ \A r \in Reports \ {k} :
               fate'[r] = IF writing[t] # NoWrite /\ r = writing[t].report THEN "lost" ELSE fate[r]
          /\ \/ /\ writing'[t] # NoWrite /\ writing'[t].report = k /\ fate'[k] = "writing"
             \/ writing'[t] = NoWrite /\ fate'[k] = "lost"
      BY <1>7, SignalTypes
    <2>2. UNCHANGED exitMark
      BY <1>7 DEF FatalSignal
    <2> HIDE DEF k
    <2>3. ASSUME NEW r \in Reports, fate'[r] = "writing"
          PROVE  \E u \in Threads : writing'[u] # NoWrite /\ writing'[u].report = r
      <3>1. CASE r = k
        BY <2>1, <2>3, <3>1
      <3>2. CASE r # k
        <4>1. fate[r] = "writing" /\ ~(writing[t] # NoWrite /\ r = writing[t].report)
          BY <2>1, <2>3, <3>2
        <4>2. PICK u \in Threads : writing[u] # NoWrite /\ writing[u].report = r
          BY <4>1 DEF HasWriter
        <4> QED
          BY <2>1, <4>1, <4>2
      <3> QED
        BY <3>1, <3>2
    <2>4. \A r \in exitMark : r \in Reports \ {k} /\ fate[r] \notin {"none", "writing"}
      BY <1>0, <2>1 DEF Marked
    <2>5. \A r \in exitMark : fate'[r] \notin {"none", "writing"}
      BY <2>1, <2>4
    <2> QED
      BY <2>2, <2>3, <2>5 DEF HasWriter, Marked
  <1>8. CASE Killed \/ ProcessEnd \/ \E t \in Threads : Raise(t)
    <2>1. fate' = AfterDeath /\ UNCHANGED exitMark
      BY <1>8 DEF Killed, ProcessEnd, Raise, ThreadsDie
    <2>2. \A r \in Reports : AfterDeath[r] = IF fate[r] = "writing" THEN "lost" ELSE fate[r]
      BY DeathTypes
    <2>3. \A r \in Reports : fate'[r] # "writing" /\ (fate'[r] = "none" => fate[r] = "none")
      BY <2>1, <2>2
    <2> QED
      BY <1>0, <2>1, <2>3 DEF HasWriter, Marked
  <1>9. CASE Restart
    BY <1>9 DEF Restart, HasWriter, Marked
  <1>10. ASSUME NEW t \in Threads, InstallHandlers(t) PROVE Goal
    BY <1>1, <1>5, <1>10 DEF InstallHandlers
  <1>11. CASE ExitUpload
    <2>1. exiter \in Threads
      BY <1>11 DEF ExitUpload, ExitState
    <2> QED
      BY <1>1, <1>5, <1>11, <2>1 DEF ExitUpload
  <1>12. ASSUME NEW t \in Threads, UploadPending(t) PROVE Goal
    BY <1>5, <1>12 DEF UploadPending
  <1>13. ASSUME NEW t \in Threads, UploadRead(t) PROVE Goal
    BY <1>1, <1>13 DEF UploadRead
  <1>14. ASSUME NEW t \in Threads, Exit(t) PROVE Goal
    BY <1>14 DEF Exit, HasWriter, Marked
  <1>15. CASE Tick \/ Terminated \/ UNCHANGED vars
    BY <1>1, <1>15 DEF Tick, Terminated, vars, historyVars
  <1>16. ASSUME NEW t \in Threads, UploadDelete(t) PROVE Goal
    <2>1. \A r \in Reports : fate'[r] = fate[r] \/ fate'[r] = "unreadable"
      BY <1>16, DeleteTypes
    <2>2. UNCHANGED <<writing, exitMark>>
      BY <1>16 DEF UploadDelete
    <2> QED
      BY <1>1, <2>1, <2>2
  <1> QED
    BY <1>2, <1>3, <1>4, <1>6, <1>7, <1>8, <1>9, <1>10, <1>11, <1>12, <1>13, <1>14, <1>15, <1>16
    DEF Next, CaptureWrite, SignalWrite

-----------------------------------------------------------------------------
\* A capture starts: its name is new, so nothing on disk or read is touched.
LEMMA CleanStart ==
  ASSUME Types, MadeInOrder, Clean, NEW t \in Threads, CaptureStart(t), ~reused'
  PROVE  Clean'
  <1> DEFINE k == Made + 1
  <1>1. PICK name \in FileNames :
          /\ Made + 1 \in Reports /\ fate[Made + 1] = "none"
          /\ GiveName(name)
          /\ writing' = [writing EXCEPT ![t] = [stage |-> "named", report |-> Made + 1, name |-> name]]
          /\ [stage |-> "named", report |-> Made + 1, name |-> name] \in Writer
          /\ fate' = [fate EXCEPT ![Made + 1] = "writing"]
    BY CaptureTypes
  <1> DEFINE w == [stage |-> "named", report |-> k, name |-> name]
  <1>2. /\ k \in Reports /\ fate[k] = "none" /\ writing' = [writing EXCEPT ![t] = w]
        /\ w.report = k /\ w.name = name /\ w.stage = "named" /\ w # NoWrite
        /\ fate' = [fate EXCEPT ![k] = "writing"]
    BY <1>1 DEF NoWrite
  <1>3. names' = names \cup {name} /\ name \notin names
    BY <1>1 DEF GiveName
  <1>4. /\ UNCHANGED <<files, phase, exiter, handling, upload, exitMark, exitFailures>>
        /\ hook' = hook \/ hook' = "registered"
    BY DEF CaptureStart, RegisterUpload
  <1> HIDE DEF k, w
  <1>5. /\ writing'[t] = w /\ \A u \in Threads \ {t} : writing'[u] = writing[u]
        /\ fate'[k] = "writing" /\ \A r \in Reports \ {k} : fate'[r] = fate[r]
    BY <1>2 DEF Types
  <1>6. \A n \in DOMAIN files : files[n].report \in Reports \ {k} /\ n \in names /\ n # name
    BY <1>2, <1>3 DEF Clean, FilesWell, Types, File, Kept, Delivered, Rejected
  <1>7. FilesWell(files', fate', names')
    BY <1>2, <1>3, <1>4, <1>5, <1>6 DEF Clean, FilesWell
  <1>8. WritersWell(writing', files', names')
    BY <1>2, <1>3, <1>4, <1>5, <1>6 DEF Clean, WritersWell, WriterWell
  <1>9. PassesWell(upload', files', fate', writing', names')
    <2> SUFFICES ASSUME NEW u \in Threads, upload[u].payload # << >>
                 PROVE  ReadWell(Oldest(upload[u].todo), upload[u].payload[1], files, fate', writing', names')
      BY <1>4 DEF PassesWell
    <2> DEFINE x == Oldest(upload[u].todo)
               p == upload[u].payload[1]
    <2>1. ReadWell(x, p, files, fate, writing, names) /\ p \in File
      BY DEF Clean, PassesWell, Types, IsPass
    <2> HIDE DEF x, p
    <2>2. p.report \in Reports \ {k}
      BY <1>2, <2>1 DEF File, ReadWell
    <2>3. ReadWell(x, p, files, fate', writing', names')
      BY <1>2, <1>3, <1>5, <2>1, <2>2 DEF ReadWell
    <2> QED
      BY <2>3 DEF x, p
  <1>10. ExitListed'
    <2>1. \A r \in Reports : fate'[r] = "stored" => fate[r] = "stored"
      BY <1>5
    <2>2. exitMark \subseteq Reports
      BY DEF Types
    <2> QED
      BY <1>4, <2>1, <2>2 DEF Clean, ExitListed
  <1> QED
    BY <1>7, <1>8, <1>9, <1>10 DEF Clean

\* It creates its file.
LEMMA CleanOpen ==
  ASSUME Types, WritersOwn(writing, fate), Clean, NEW t \in Threads, CaptureOpen(t)
  PROVE  Clean'
  <1> DEFINE w == writing[t]
             v == [w EXCEPT !.stage = "opened"]
             file == [report |-> w.report, state |-> "partial", mtime |-> clock]
  <1>1. w \in Writer /\ w # NoWrite /\ w.stage = "named"
    BY DEF CaptureOpen, Types, NoWrite
  <1>2. /\ files' = With(files, w.name, file) /\ writing' = [writing EXCEPT ![t] = v]
        /\ UNCHANGED <<upload, fate, names, phase, hook, exiter, handling, exitMark, exitFailures>>
    BY DEF CaptureOpen, processVars, historyVars
  <1>3. v.stage = "opened" /\ v.name = w.name /\ v.report = w.report /\ v # NoWrite /\ w.report \in Reports
    BY <1>1 DEF Writer, NoWrite
  <1>4. file.report = w.report /\ file.state = "partial"
    OBVIOUS
  <1>5. /\ WriterWell(w, files, names) /\ fate[w.report] = "writing"
        /\ \A u \in Threads \ {t} : writing[u] # NoWrite =>
             /\ WriterWell(writing[u], files, names)
             /\ writing[u].name # w.name /\ writing[u].report # w.report
    BY <1>1 DEF Clean, WritersWell, WritersOwn
  <1> HIDE DEF w, v, file
  <1>6. w.name \in names /\ w.name \notin DOMAIN files /\ \A n \in DOMAIN files : files[n].report # w.report
    BY <1>1, <1>5 DEF WriterWell
  <1>7. /\ DOMAIN files' = DOMAIN files \cup {w.name} /\ files'[w.name] = file
        /\ \A n \in DOMAIN files : files'[n] = files[n]
    BY <1>2, <1>6 DEF With
  <1>8. writing'[t] = v /\ \A u \in Threads \ {t} : writing'[u] = writing[u]
    BY <1>2 DEF Types
  <1>9. FilesWell(files', fate', names')
    BY <1>2, <1>4, <1>5, <1>6, <1>7 DEF Clean, FilesWell
  <1>10. WritersWell(writing', files', names')
    <2>1. WriterWell(v, files', names')
      BY <1>2, <1>3, <1>4, <1>6, <1>7 DEF WriterWell
    <2>2. \A u \in Threads \ {t} : writing[u] # NoWrite => WriterWell(writing[u], files', names')
      BY <1>2, <1>4, <1>5, <1>7 DEF WriterWell
    <2>3. \A u \in Threads : writing[u] # NoWrite =>
            \A x \in Threads \ {u} : writing[x] # NoWrite => writing[x].name # writing[u].name
      BY DEF Clean, WritersWell
    <2> QED
      BY <1>3, <1>5, <1>8, <2>1, <2>2, <2>3 DEF WritersWell
  <1>11. PassesWell(upload', files', fate', writing', names')
    <2> SUFFICES ASSUME NEW u \in Threads, upload[u].payload # << >>
                 PROVE  ReadWell(Oldest(upload[u].todo), upload[u].payload[1], files', fate, writing', names)
      BY <1>2 DEF PassesWell
    <2> DEFINE x == Oldest(upload[u].todo)
               p == upload[u].payload[1]
    <2>1. ReadWell(x, p, files, fate, writing, names)
      BY DEF Clean, PassesWell
    <2>2. writing[t] = w
      BY DEF w
    <2> HIDE DEF x, p
    <2>3. p.report # w.report /\ x # w.name
      BY <1>1, <1>5, <2>1, <2>2 DEF ReadWell
    <2>4. ReadWell(x, p, files', fate, writing', names)
      BY <1>3, <1>4, <1>7, <1>8, <2>1, <2>3 DEF ReadWell
    <2> QED
      BY <2>4 DEF x, p
  <1>12. ExitListed'
    <2>1. DOMAIN files \subseteq DOMAIN files'
      BY <1>7
    <2> QED
      BY <1>2, <1>7, <2>1 DEF Clean, ExitListed
  <1> QED
    BY <1>9, <1>10, <1>11, <1>12 DEF Clean

\* It writes and closes it: the file is there, partial, and its own.
LEMMA CleanWrite ==
  ASSUME Types, WritersOwn(writing, fate), Marked(exitMark, fate), Clean, NEW t \in Threads, WriteOut(t)
  PROVE  Clean'
  <1> DEFINE w == writing[t]
             mine == [report |-> w.report, state |-> "whole", mtime |-> clock]
  <1>1. w \in Writer /\ w # NoWrite /\ w.stage = "opened"
    BY DEF WriteOut, Types, NoWrite
  <1>2. /\ WriterWell(w, files, names) /\ fate[w.report] = "writing"
        /\ \A u \in Threads \ {t} : writing[u] # NoWrite =>
             /\ WriterWell(writing[u], files, names)
             /\ writing[u].name # w.name /\ writing[u].report # w.report
    BY <1>1 DEF Clean, WritersWell, WritersOwn
  <1>3. w.name \in DOMAIN files /\ files[w.name].report = w.report /\ files[w.name].state = "partial"
    BY <1>1, <1>2 DEF WriterWell
  <1>6. files' = [files EXCEPT ![w.name] = mine]
    BY <1>3 DEF WriteOut
  <1>7. /\ fate' = [fate EXCEPT ![w.report] = "stored"] /\ writing' = [writing EXCEPT ![t] = NoWrite]
        /\ UNCHANGED <<upload, names, phase, hook, exiter, handling, exitMark, exitFailures>>
    BY DEF WriteOut, processVars
  <1>8. mine.report = w.report /\ mine.state = "whole" /\ w.report \in Reports
    BY <1>1 DEF Writer
  <1> HIDE DEF w, mine
  <1>9. /\ DOMAIN files' = DOMAIN files /\ files'[w.name] = mine
        /\ \A n \in DOMAIN files \ {w.name} : files'[n] = files[n]
        /\ \A n \in DOMAIN files : files'[n].report = files[n].report
    BY <1>3, <1>6, <1>8
  <1>10. /\ writing'[t] = NoWrite /\ \A u \in Threads \ {t} : writing'[u] = writing[u]
         /\ fate'[w.report] = "stored" /\ \A r \in Reports \ {w.report} : fate'[r] = fate[r]
    BY <1>7, <1>8 DEF Types
  <1>11. \A n \in DOMAIN files : files[n].report \in Reports /\ (n # w.name => files[n].report # w.report)
    BY <1>3 DEF Clean, FilesWell, Types, File
  <1>12. FilesWell(files', fate', names')
    <2>1. DOMAIN files' \subseteq names'
      BY <1>7, <1>9 DEF Clean, FilesWell
    <2>2. \A m, n \in DOMAIN files' : files'[m].report = files'[n].report => m = n
      BY <1>9 DEF Clean, FilesWell
    <2>3. ASSUME NEW n \in DOMAIN files'
          PROVE  \/ files'[n].state = "whole" /\ fate'[files'[n].report] \in Kept
                 \/ files'[n].state = "partial" /\ fate'[files'[n].report] \in {"writing", "lost"}
      BY <1>8, <1>9, <1>10, <1>11 DEF Clean, FilesWell, Kept
    <2>4. \A r \in Reports : fate'[r] = "stored" => \E n \in DOMAIN files' : files'[n].report = r
      BY <1>3, <1>8, <1>9, <1>10 DEF Clean, FilesWell
    <2> QED
      BY <2>1, <2>2, <2>3, <2>4 DEF FilesWell
  <1>13. WritersWell(writing', files', names')
    <2>1. \A u \in Threads \ {t} : writing[u] # NoWrite => WriterWell(writing[u], files', names')
      BY <1>2, <1>7, <1>9 DEF WriterWell
    <2>2. \A u \in Threads : writing[u] # NoWrite =>
            \A x \in Threads \ {u} : writing[x] # NoWrite => writing[x].name # writing[u].name
      BY DEF Clean, WritersWell
    <2> QED
      BY <1>10, <2>1, <2>2 DEF WritersWell
  <1>14. PassesWell(upload', files', fate', writing', names')
    <2> SUFFICES ASSUME NEW u \in Threads, upload[u].payload # << >>
                 PROVE  ReadWell(Oldest(upload[u].todo), upload[u].payload[1], files', fate', writing', names)
      BY <1>7 DEF PassesWell
    <2> DEFINE x == Oldest(upload[u].todo)
               p == upload[u].payload[1]
    <2>1. ReadWell(x, p, files, fate, writing, names) /\ p \in File
      BY DEF Clean, PassesWell, Types, IsPass
    <2>2. writing[t] = w
      BY DEF w
    <2> HIDE DEF x, p
    <2>3. p.report \in Reports \ {w.report} /\ x # w.name
      BY <1>1, <1>2, <2>1, <2>2 DEF ReadWell, File
    <2>4. ReadWell(x, p, files', fate', writing', names)
      BY <1>9, <1>10, <2>1, <2>3 DEF ReadWell
    <2> QED
      BY <2>4 DEF x, p
  <1>15. ExitListed'
    <2>1. \A r \in exitMark : fate'[r] = fate[r]
      BY <1>2, <1>10 DEF Marked, Types
    <2> QED
      BY <1>7, <1>9, <2>1 DEF Clean, ExitListed
  <1> QED
    BY <1>12, <1>13, <1>14, <1>15 DEF Clean

\* The directory is listed: what goes is evicted, and nobody was writing it.
LEMMA CleanList ==
  ASSUME Types, Clean, NEW t \in Threads, NEW stop \in BOOLEAN, ListPending(t, stop), ~torn',
         UNCHANGED <<writing, names>>
  PROVE  /\ FilesWell(files', fate', names')
         /\ WritersWell(writing', files', names')
         /\ PassesWell(upload', files', fate', writing', names')
         /\ \A n \in DOMAIN files : fate'[files[n].report] = "stored" => n \in DOMAIN files'
  <1> DEFINE gone == Expired \cup Excess
  <1>1. /\ files' = Without(files, gone)
        /\ fate' = [r \in Reports |->
             IF fate[r] = "stored" /\ \E n \in gone : files[n].report = r THEN "evicted" ELSE fate[r]]
        /\ torn' = (torn \/ gone \cap BeingWritten # {})
    BY DEF ListPending
  <1>2. gone \subseteq DOMAIN files
    BY DEF Expired, Excess
  <1>3. /\ \A u \in Threads \ {t} : upload'[u] = upload[u]
        /\ upload'[t].payload = << >>
    BY ListTypes
  <1> HIDE DEF gone
  <1>4. DOMAIN files' = DOMAIN files \ gone /\ \A n \in DOMAIN files' : files'[n] = files[n]
    BY <1>1 DEF Without
  <1>5. \A n \in DOMAIN files : files[n].report \in Reports
    BY DEF Types, File
  <1>6. \A r \in Reports : fate'[r] = IF fate[r] = "stored" /\ \E n \in gone : files[n].report = r
                                        THEN "evicted" ELSE fate[r]
    BY <1>1
  <1>7. \A u \in Threads : writing[u].stage = "opened" => writing[u].name \notin gone
    BY <1>1 DEF BeingWritten
  <1>8. \A n \in DOMAIN files' : n \in DOMAIN files /\ fate'[files[n].report] = fate[files[n].report]
    <2> SUFFICES ASSUME NEW n \in DOMAIN files' PROVE fate'[files[n].report] = fate[files[n].report]
      BY <1>4
    <2>1. n \in DOMAIN files /\ n \notin gone
      BY <1>4
    <2>2. \A m \in gone : files[m].report # files[n].report
      BY <1>2, <2>1 DEF Clean, FilesWell
    <2> QED
      BY <1>5, <1>6, <2>1, <2>2
  <1>9. \A n \in DOMAIN files : fate'[files[n].report] = "stored" => n \in DOMAIN files'
    BY <1>4, <1>5, <1>6
  <1>10. FilesWell(files', fate', names')
    <2>1. DOMAIN files' \subseteq names' /\ \A m, n \in DOMAIN files' : files'[m].report = files'[n].report => m = n
      BY <1>4 DEF Clean, FilesWell
    <2>2. \A n \in DOMAIN files' :
            \/ files'[n].state = "whole" /\ fate'[files'[n].report] \in Kept
            \/ files'[n].state = "partial" /\ fate'[files'[n].report] \in {"writing", "lost"}
      BY <1>4, <1>8 DEF Clean, FilesWell
    <2>3. ASSUME NEW r \in Reports, fate'[r] = "stored" PROVE \E n \in DOMAIN files' : files'[n].report = r
      <3>1. fate[r] = "stored"
        BY <1>6, <2>3
      <3>2. PICK n \in DOMAIN files : files[n].report = r
        BY <3>1 DEF Clean, FilesWell
      <3> QED
        BY <1>4, <1>9, <2>3, <3>2
    <2> QED
      BY <2>1, <2>2, <2>3 DEF FilesWell
  <1>11. WritersWell(writing', files', names')
    <2>1. \A u \in Threads : writing[u] # NoWrite => WriterWell(writing[u], files', names')
      BY <1>4, <1>7 DEF Clean, WritersWell, WriterWell
    <2>2. \A u \in Threads : writing[u] # NoWrite =>
            \A x \in Threads \ {u} : writing[x] # NoWrite => writing[x].name # writing[u].name
      BY DEF Clean, WritersWell
    <2> QED
      BY <2>1, <2>2 DEF WritersWell
  <1>12. PassesWell(upload', files', fate', writing', names')
    <2> SUFFICES ASSUME NEW u \in Threads \ {t}, upload[u].payload # << >>
                 PROVE  ReadWell(Oldest(upload[u].todo), upload[u].payload[1], files', fate', writing, names)
      BY <1>3 DEF PassesWell
    <2> DEFINE x == Oldest(upload[u].todo)
               p == upload[u].payload[1]
    <2>1. ReadWell(x, p, files, fate, writing, names) /\ p \in File
      BY DEF Clean, PassesWell, Types, IsPass
    <2> HIDE DEF x, p
    <2>2. p.report \in Reports
      BY <2>1 DEF File
    <2>3. fate'[p.report] \notin {"none", "writing"}
      BY <1>6, <2>1, <2>2 DEF ReadWell
    <2>4. ReadWell(x, p, files', fate', writing, names)
      BY <1>4, <2>1, <2>3 DEF ReadWell
    <2> QED
      BY <2>4 DEF x, p
  <1> QED
    BY <1>9, <1>10, <1>11, <1>12

\* A pass reads a file that nobody is writing, or cannot.
LEMMA CleanRead ==
  ASSUME Types, HasWriter(writing, fate), ExitState, Clean, NEW t \in Threads, UploadRead(t), ~torn'
  PROVE  Clean'
  <1> DEFINE next == Oldest(upload[t].todo)
  <1>1. UNCHANGED <<files, fate, names, writing, phase, hook, exiter, handling, exitMark, exitFailures>>
    BY DEF UploadRead, diskVars, processVars
  <1>2. /\ \A u \in Threads \ {t} : upload'[u] = upload[u]
        /\ upload'[t].todo = upload[t].todo
        /\ torn' = (torn \/ next \in BeingWritten)
        /\ \/ next \in DOMAIN files /\ upload'[t].payload = <<files[next]>>
           \/ upload'[t].payload = << >>
    BY ReadTypes
  <1> HIDE DEF next
  <1>4. /\ next \notin BeingWritten
        /\ \/ next \in DOMAIN files /\ upload'[t].payload = <<files[next]>>
           \/ upload'[t].payload = << >>
    BY <1>2, Zenon
  <1>5. FilesWell(files', fate', names') /\ WritersWell(writing', files', names')
    BY <1>1 DEF Clean
  <1>6. ASSUME next \in DOMAIN files, next \notin BeingWritten
        PROVE  ReadWell(next, files[next], files, fate, writing, names)
    <2> DEFINE p == files[next]
    <2>1. \A u \in Threads : writing[u] # NoWrite => writing[u].name # next /\ writing[u].report # p.report
      <3> SUFFICES ASSUME NEW u \in Threads, writing[u] # NoWrite
                   PROVE  writing[u].name # next /\ writing[u].report # p.report
        OBVIOUS
      <3>1. WriterWell(writing[u], files, names) /\ writing[u] \in Writer
        BY DEF Clean, WritersWell, Types
      <3>2. CASE writing[u].stage = "named"
        BY <1>6, <3>1, <3>2 DEF WriterWell
      <3>3. CASE writing[u].stage = "opened"
        <4>1. writing[u].name # next
          BY <1>6, <3>3 DEF BeingWritten
        <4> QED
          BY <1>6, <3>1, <3>3, <4>1 DEF WriterWell, Clean, FilesWell
      <3> QED
        BY <3>1, <3>2, <3>3 DEF Writer
    <2>2. p.report \in Reports /\ fate[p.report] # "none"
      BY <1>6 DEF Clean, FilesWell, Types, File, Kept, Delivered, Rejected
    <2>3. fate[p.report] # "writing"
      BY <2>1, <2>2 DEF HasWriter
    <2>4. next \in names /\ \A n \in DOMAIN files : files[n].report = p.report => n = next
      BY <1>6 DEF Clean, FilesWell
    <2> QED
      BY <2>1, <2>2, <2>3, <2>4 DEF ReadWell
  <1>7. PassesWell(upload', files', fate', writing', names')
    <2> SUFFICES ASSUME NEW u \in Threads, upload'[u].payload # << >>
                 PROVE  ReadWell(Oldest(upload'[u].todo), upload'[u].payload[1], files, fate, writing, names)
      BY <1>1 DEF PassesWell
    <2>1. CASE u # t
      BY <1>2, <2>1 DEF Clean, PassesWell
    <2>2. CASE u = t
      <3>1. /\ next \in DOMAIN files /\ next \notin BeingWritten
            /\ upload'[t].todo = upload[t].todo /\ upload'[t].payload[1] = files[next]
        BY <1>2, <1>4, <2>2
      <3> QED
        BY <1>6, <2>2, <3>1 DEF next
    <2> QED
      BY <2>1, <2>2
  <1>8. ExitListed'
    <2>1. \A n \in DOMAIN files, u \in Threads : n \in DOMAIN upload[u].todo => n \in DOMAIN upload'[u].todo
      BY <1>2
    <2>2. phase = "exiting" => exiter \in Threads
      BY DEF ExitState
    <2>3. ExitListed
      BY DEF Clean
    <2> QED
      BY <1>1, <2>1, <2>2, <2>3 DEF ExitListed
  <1> QED
    BY <1>5, <1>7, <1>8 DEF Clean

\* A pass has its answer: the report it is for is the one in the file it has
\* read, which stays.
LEMMA CleanAnswer ==
  ASSUME Types, ExitState, Clean, NEW t \in Threads, NEW status \in Statuses, UploadAnswer(t, status)
  PROVE  Clean'
  <1> DEFINE next == Oldest(upload[t].todo)
             outcome == OutcomeForStatus(status)
  <1>1. /\ exitFailures' = IF t = exiter /\ outcome = Failed THEN exitFailures + 1 ELSE exitFailures
        /\ UNCHANGED <<phase, hook, exiter, handling, writing, names, exitMark>>
    BY DEF UploadAnswer, processVars
  <1>2. /\ \A u \in Threads \ {t} : upload'[u] = upload[u]
        /\ Deletes(outcome) => upload'[t].todo = upload[t].todo /\ upload'[t].payload = << >>
        /\ ~Deletes(outcome) =>
             upload'[t] = IF StopsPass(outcome, upload[t].stop) THEN NoUpload ELSE Onward(upload[t], next)
        /\ UNCHANGED files
        /\ \A r \in Reports : fate'[r] = fate[r] \/ (fate[r] = "stored" /\ fate'[r] \in {Delivered, Rejected})
    BY AnswerTypes
  <1>3. IsPass(upload[t])
    BY DEF Types
  <1> HIDE DEF next, outcome
  <1>4. upload'[t].payload = << >>
    BY <1>2, <1>3, PassGoesOn, NoPass
  <1>5. \A n \in DOMAIN files : files[n].report \in Reports
    BY DEF Types, File
  <1>6. FilesWell(files', fate', names')
    <2>1. ASSUME NEW n \in DOMAIN files
          PROVE  \/ files[n].state = "whole" /\ fate'[files[n].report] \in Kept
                 \/ files[n].state = "partial" /\ fate'[files[n].report] \in {"writing", "lost"}
      <3>1. \/ files[n].state = "whole" /\ fate[files[n].report] \in Kept
            \/ files[n].state = "partial" /\ fate[files[n].report] \in {"writing", "lost"}
        BY DEF Clean, FilesWell
      <3>2. \/ fate'[files[n].report] = fate[files[n].report]
            \/ fate[files[n].report] = "stored" /\ fate'[files[n].report] \in {Delivered, Rejected}
        BY <1>2, <1>5
      <3> QED
        BY <3>1, <3>2 DEF Kept
    <2>2. \A r \in Reports : fate'[r] = "stored" => fate[r] = "stored"
      BY <1>2 DEF Delivered, Rejected
    <2> QED
      BY <1>1, <1>2, <2>1, <2>2 DEF Clean, FilesWell
  <1>7. WritersWell(writing', files', names')
    BY <1>1, <1>2 DEF Clean
  <1>8. PassesWell(upload', files', fate', writing', names')
    <2> SUFFICES ASSUME NEW u \in Threads \ {t}, upload[u].payload # << >>
                 PROVE  ReadWell(Oldest(upload[u].todo), upload[u].payload[1], files, fate', writing, names)
      BY <1>1, <1>2, <1>4 DEF PassesWell
    <2> DEFINE x == Oldest(upload[u].todo)
               q == upload[u].payload[1]
    <2>1. ReadWell(x, q, files, fate, writing, names) /\ q \in File
      BY DEF Clean, PassesWell, Types, IsPass
    <2> HIDE DEF x, q
    <2>2. q.report \in Reports
      BY <2>1 DEF File
    <2>3. fate'[q.report] \notin {"none", "writing"}
      BY <1>2, <2>1, <2>2 DEF ReadWell, Delivered, Rejected
    <2>4. ReadWell(x, q, files, fate', writing, names)
      BY <2>1, <2>3 DEF ReadWell
    <2> QED
      BY <2>4 DEF x, q
  <1>9. ExitListed'
    <2> SUFFICES ASSUME hook = "started", exitFailures' = 0
                 PROVE  /\ phase = "exiting" /\ exiter \notin handling => \A r \in exitMark : fate'[r] = "stored" =>
                             \E n \in DOMAIN files \cap DOMAIN upload'[exiter].todo : files[n].report = r
                        /\ phase = "exited" => \A r \in exitMark : fate'[r] # "stored"
      BY <1>1, <1>2 DEF ExitListed
    <2>1. phase # "exited"
      BY DEF UploadAnswer, Alive
    <2>2. exitFailures = 0 /\ (t = exiter => outcome # Failed)
      BY <1>1 DEF Types
    <2>3. phase = "exiting" => upload'[exiter].todo = upload[exiter].todo
      BY <1>2, <2>2 DEF ExitState, Deletes
    <2>4. \A r \in exitMark : fate'[r] = "stored" => fate[r] = "stored"
      BY <1>2 DEF Types, Delivered, Rejected
    <2> QED
      BY <2>1, <2>2, <2>3, <2>4 DEF Clean, ExitListed
  <1> QED
    BY <1>6, <1>7, <1>8, <1>9 DEF Clean

\* A pass deletes the file it is at: it was read and answered for, or could
\* not be read.
LEMMA CleanDelete ==
  ASSUME Types, ExitState, Clean, DeletesWell(upload, files, fate, writing, names),
         NEW t \in Threads, UploadDelete(t)
  PROVE  Clean'
  <1> DEFINE next == Oldest(upload[t].todo)
  <1>1. UNCHANGED <<phase, hook, exiter, handling, writing, names, exitMark, exitFailures>>
    BY DEF UploadDelete, processVars
  <1>2. /\ \A u \in Threads \ {t} : upload'[u] = upload[u]
        /\ upload'[t] = Onward(upload[t], next) /\ upload[t].delete # "no"
        /\ DOMAIN files' = DOMAIN files \ {next}
        /\ \A n \in DOMAIN files' : files'[n] = files[n]
        /\ \A r \in Reports : \/ fate'[r] = fate[r]
                              \/ /\ fate[r] = "stored" /\ fate'[r] = "unreadable"
                                 /\ next \in DOMAIN files /\ r = files[next].report
        /\ upload[t].delete = "unread" /\ next \in DOMAIN files => fate'[files[next].report] # "stored"
    BY DeleteTypes
  <1>3. IsPass(upload[t]) /\ DeleteWell(next, upload[t].delete, files, fate, writing, names)
    BY <1>2 DEF Types, DeletesWell
  <1> HIDE DEF next
  <1>4. upload'[t].payload = << >> /\ DOMAIN upload'[t].todo = DOMAIN upload[t].todo \ {next}
    BY <1>2, <1>3, PassGoesOn
  <1>5. \A n \in DOMAIN files : files[n].report \in Reports
    BY DEF Types, File
  <1>6. ASSUME NEW r \in Reports, fate'[r] = "stored", NEW n \in DOMAIN files, files[n].report = r
        PROVE  fate[r] = "stored" /\ n \in DOMAIN files' /\ files'[n].report = r
    <2>1. fate[r] = "stored"
      BY <1>2, <1>6
    <2>2. n # next
      BY <1>2, <1>3, <1>6, <2>1 DEF DeleteWell, IsPass
    <2> QED
      BY <1>2, <1>6, <2>1, <2>2
  <1>7. FilesWell(files', fate', names')
    <2>1. DOMAIN files' \subseteq names' /\ \A m, n \in DOMAIN files' : files'[m].report = files'[n].report => m = n
      BY <1>1, <1>2 DEF Clean, FilesWell
    <2>2. ASSUME NEW n \in DOMAIN files'
          PROVE  \/ files'[n].state = "whole" /\ fate'[files'[n].report] \in Kept
                 \/ files'[n].state = "partial" /\ fate'[files'[n].report] \in {"writing", "lost"}
      <3>1. n \in DOMAIN files /\ n # next /\ files'[n] = files[n] /\ files[n].report \in Reports
        BY <1>2, <1>5
      <3>2. fate'[files[n].report] = fate[files[n].report]
        BY <1>2, <3>1 DEF Clean, FilesWell
      <3> QED
        BY <3>1, <3>2 DEF Clean, FilesWell
    <2>3. ASSUME NEW r \in Reports, fate'[r] = "stored" PROVE \E n \in DOMAIN files' : files'[n].report = r
      <3>1. fate[r] = "stored"
        BY <1>2, <2>3
      <3>2. PICK n \in DOMAIN files : files[n].report = r
        BY <3>1 DEF Clean, FilesWell
      <3> QED
        BY <1>6, <2>3, <3>2
    <2> QED
      BY <2>1, <2>2, <2>3 DEF FilesWell
  <1>8. WritersWell(writing', files', names')
    <2>1. \A u \in Threads : writing[u] # NoWrite => writing[u].name # next /\ WriterWell(writing[u], files, names)
      BY <1>3 DEF DeleteWell, Clean, WritersWell
    <2>2. \A u \in Threads : writing[u] # NoWrite => WriterWell(writing[u], files', names')
      BY <1>1, <1>2, <2>1 DEF WriterWell
    <2>3. \A u \in Threads : writing[u] # NoWrite =>
            \A x \in Threads \ {u} : writing[x] # NoWrite => writing[x].name # writing[u].name
      BY DEF Clean, WritersWell
    <2> QED
      BY <1>1, <2>2, <2>3 DEF WritersWell
  <1>9. PassesWell(upload', files', fate', writing', names')
    <2> SUFFICES ASSUME NEW u \in Threads \ {t}, upload[u].payload # << >>
                 PROVE  ReadWell(Oldest(upload[u].todo), upload[u].payload[1], files', fate', writing, names)
      BY <1>1, <1>2, <1>4 DEF PassesWell
    <2> DEFINE x == Oldest(upload[u].todo)
               q == upload[u].payload[1]
    <2>1. ReadWell(x, q, files, fate, writing, names) /\ q \in File
      BY DEF Clean, PassesWell, Types, IsPass
    <2> HIDE DEF x, q
    <2>2. q.report \in Reports
      BY <2>1 DEF File
    <2>3. fate'[q.report] \notin {"none", "writing"}
      BY <1>2, <2>1, <2>2 DEF ReadWell
    <2>4. ReadWell(x, q, files', fate', writing, names)
      BY <1>2, <2>1, <2>3 DEF ReadWell
    <2> QED
      BY <2>4 DEF x, q
  <1>10. ExitListed'
    <2> SUFFICES ASSUME hook = "started", exitFailures = 0, phase = "exiting", exiter \notin handling,
                        NEW r \in exitMark, fate'[r] = "stored"
                 PROVE  \E n \in DOMAIN files' \cap DOMAIN upload'[exiter].todo : files'[n].report = r
      <3>1. phase # "exited"
        BY DEF UploadDelete, Alive
      <3> QED
        BY <1>1, <3>1 DEF ExitListed
    <2>1. r \in Reports
      BY DEF Types
    <2>2. fate[r] = "stored"
      BY <1>2, <2>1
    <2>3. PICK n \in DOMAIN files \cap DOMAIN upload[exiter].todo : files[n].report = r
      BY <2>2 DEF Clean, ExitListed
    <2>4. n \in DOMAIN files' /\ files'[n].report = r
      BY <1>6, <2>1, <2>3
    <2>5. n # next
      BY <1>2, <2>4
    <2>6. n \in DOMAIN upload'[exiter].todo
      BY <1>2, <1>4, <2>3, <2>5 DEF ExitState
    <2> QED
      BY <2>4, <2>6
  <1> QED
    BY <1>7, <1>8, <1>9, <1>10 DEF Clean

\* The process dies: the files stay, the captures are lost.
LEMMA CleanDeath ==
  ASSUME Types, Clean, ThreadsDie, UNCHANGED <<files, names>>,
         \A r \in Reports : fate'[r] = IF fate[r] = "writing" THEN "lost" ELSE fate[r]
  PROVE  /\ FilesWell(files', fate', names')
         /\ WritersWell(writing', files', names')
         /\ PassesWell(upload', files', fate', writing', names')
  <1>1. \A t \in Threads : writing'[t] = NoWrite /\ upload'[t].payload = << >>
    BY DeathTypes, NoPass
  <1>2. \A n \in DOMAIN files : files[n].report \in Reports
    BY DEF Types, File
  <1>3. FilesWell(files', fate', names')
    BY <1>2 DEF Clean, FilesWell, Kept, Delivered, Rejected
  <1> QED
    BY <1>1, <1>3 DEF WritersWell, PassesWell

\* A signal ends what its thread was doing, and its handler creates a file
\* under a new name, or none.
LEMMA CleanSignal ==
  ASSUME Types, MadeInOrder, WritersOwn(writing, fate), Marked(exitMark, fate), ExitState, Clean,
         NEW t \in Threads, NEW s \in Signals, FatalSignal(t, s), ~reused'
  PROVE  Clean'
  <1> DEFINE k == Made + 1
  <1>1. /\ k \in Reports /\ fate[k] = "none"
        /\ upload'[t] = NoUpload /\ \A u \in Threads \ {t} : upload'[u] = upload[u]
        /\ \A u \in Threads \ {t} : writing'[u] = writing[u]
        /\ \A r \in Reports \ {k} :
             fate'[r] = IF writing[t] # NoWrite /\ r = writing[t].report THEN "lost" ELSE fate[r]
        /\ \/ \E name \in FileNames, file \in File :
                /\ file.report = k /\ file.state = "partial"
                /\ GiveName(name) /\ files' = With(files, name, file)
                /\ writing'[t] = [stage |-> "opened", report |-> k, name |-> name]
                /\ writing'[t] # NoWrite /\ writing'[t].report = k /\ writing'[t].name = name
                /\ fate'[k] = "writing"
           \/ fate'[k] = "lost" /\ writing'[t] = NoWrite /\ UNCHANGED <<files, names, reused>>
    BY SignalTypes
  <1>2. handling' = handling \cup {t} /\ UNCHANGED <<phase, hook, exiter, exitMark, exitFailures>> /\ Alive
    BY DEF FatalSignal, processVars
  <1> HIDE DEF k
  <1>3. upload'[t].payload = << >>
    BY <1>1, NoPass
  <1>4. \A n \in DOMAIN files : files[n].report \in Reports \ {k}
    BY <1>1 DEF Clean, FilesWell, Types, File, Kept, Delivered, Rejected
  <1>5. \A r \in Reports : fate[r] \notin {"none", "writing"} => r # k /\ fate'[r] = fate[r]
    BY <1>1 DEF WritersOwn
  <1>6. ASSUME NEW n \in DOMAIN files
        PROVE  \/ files[n].state = "whole" /\ fate'[files[n].report] \in Kept
               \/ files[n].state = "partial" /\ fate'[files[n].report] \in {"writing", "lost"}
    <2>1. CASE files[n].state = "whole" /\ fate[files[n].report] \in Kept
      BY <1>4, <1>5, <2>1 DEF Kept, Delivered, Rejected
    <2>2. CASE files[n].state = "partial" /\ fate[files[n].report] \in {"writing", "lost"}
      BY <1>1, <1>4, <2>2
    <2> QED
      BY <2>1, <2>2 DEF Clean, FilesWell
  <1>7. \A r \in Reports : fate'[r] = "stored" => fate[r] = "stored"
    BY <1>1
  <1>8. \A u, x \in Threads \ {t} : u # x /\ writing[u] # NoWrite /\ writing[x] # NoWrite
          => writing[u].name # writing[x].name
    BY DEF Clean, WritersWell
  <1>9. \A u \in Threads \ {t} : writing[u] # NoWrite =>
          WriterWell(writing[u], files, names) /\ writing[u].report # k
    BY <1>1 DEF Clean, WritersWell, WritersOwn
  <1>10. ASSUME NEW u \in Threads \ {t}, upload[u].payload # << >>
         PROVE  LET q == upload[u].payload[1]
                IN  /\ ReadWell(Oldest(upload[u].todo), q, files, fate, writing, names)
                    /\ q.report \in Reports \ {k} /\ fate'[q.report] = fate[q.report]
    <2> DEFINE x == Oldest(upload[u].todo)
               q == upload[u].payload[1]
    <2>1. ReadWell(x, q, files, fate, writing, names) /\ q \in File
      BY <1>10 DEF Clean, PassesWell, Types, IsPass
    <2> HIDE DEF x, q
    <2>2. q.report \in Reports /\ fate[q.report] \notin {"none", "writing"}
      BY <2>1 DEF File, ReadWell
    <2>3. q.report # k /\ fate'[q.report] = fate[q.report]
      BY <1>5, <2>2
    <2> QED
      BY <2>1, <2>2, <2>3 DEF x, q
  <1>11. CASE fate'[k] = "lost" /\ writing'[t] = NoWrite /\ UNCHANGED <<files, names, reused>>
    <2>1. FilesWell(files', fate', names')
      BY <1>6, <1>7, <1>11 DEF Clean, FilesWell
    <2>2. WritersWell(writing', files', names')
      BY <1>1, <1>8, <1>9, <1>11 DEF WritersWell
    <2>3. PassesWell(upload', files', fate', writing', names')
      <3> SUFFICES ASSUME NEW u \in Threads \ {t}, upload[u].payload # << >>
                   PROVE  ReadWell(Oldest(upload[u].todo), upload[u].payload[1], files, fate', writing', names)
        BY <1>1, <1>3, <1>11 DEF PassesWell
      <3> DEFINE x == Oldest(upload[u].todo)
                 q == upload[u].payload[1]
      <3>1. ReadWell(x, q, files, fate, writing, names) /\ fate'[q.report] = fate[q.report]
        BY <1>10
      <3> HIDE DEF x, q
      <3>2. ReadWell(x, q, files, fate', writing', names)
        BY <1>1, <1>11, <3>1 DEF ReadWell
      <3> QED
        BY <3>2 DEF x, q
    <2>4. ExitListed'
      <3>1. \A r \in exitMark : fate'[r] = "stored" => fate[r] = "stored"
        BY <1>7 DEF Types
      <3>2. exiter \in Threads /\ exiter \notin handling' => upload'[exiter] = upload[exiter] /\ exiter \notin handling
        BY <1>1, <1>2
      <3>3. phase = "exiting" => exiter \in Threads
        BY DEF ExitState
      <3> QED
        BY <1>2, <1>11, <3>1, <3>2, <3>3 DEF Clean, ExitListed
    <2> QED
      BY <2>1, <2>2, <2>3, <2>4 DEF Clean
  <1>12. ASSUME NEW name \in FileNames, NEW file \in File,
                file.report = k, file.state = "partial",
                GiveName(name), files' = With(files, name, file),
                writing'[t] = [stage |-> "opened", report |-> k, name |-> name],
                fate'[k] = "writing"
         PROVE  Clean'
    <2> DEFINE w == [stage |-> "opened", report |-> k, name |-> name]
    <2>1. w.stage = "opened" /\ w.report = k /\ w.name = name /\ writing'[t] = w
      BY <1>12
    <2> HIDE DEF w
    <2>2. names' = names \cup {name} /\ name \notin names
      BY <1>12 DEF GiveName
    <2>3. name \notin DOMAIN files
      BY <2>2 DEF Clean, FilesWell
    <2>4. /\ DOMAIN files' = DOMAIN files \cup {name} /\ files'[name] = file
          /\ \A n \in DOMAIN files : files'[n] = files[n]
      BY <1>12, <2>3 DEF With
    <2>5. FilesWell(files', fate', names')
      <3>1. DOMAIN files' \subseteq names' /\ \A m, n \in DOMAIN files' : files'[m].report = files'[n].report => m = n
        BY <1>4, <1>12, <2>2, <2>4 DEF Clean, FilesWell
      <3>2. \A n \in DOMAIN files' :
              \/ files'[n].state = "whole" /\ fate'[files'[n].report] \in Kept
              \/ files'[n].state = "partial" /\ fate'[files'[n].report] \in {"writing", "lost"}
        BY <1>6, <1>12, <2>4
      <3>3. \A r \in Reports : fate'[r] = "stored" => \E n \in DOMAIN files' : files'[n].report = r
        BY <1>7, <2>4 DEF Clean, FilesWell
      <3> QED
        BY <3>1, <3>2, <3>3 DEF FilesWell
    <2>6. WritersWell(writing', files', names')
      <3>1. WriterWell(w, files', names')
        BY <1>12, <2>1, <2>2, <2>4 DEF WriterWell
      <3>2. \A u \in Threads \ {t} : writing[u] # NoWrite =>
              WriterWell(writing[u], files', names') /\ writing[u].name # name
        BY <1>9, <1>12, <2>2, <2>4 DEF WriterWell
      <3> QED
        BY <1>1, <1>8, <2>1, <3>1, <3>2 DEF WritersWell
    <2>7. PassesWell(upload', files', fate', writing', names')
      <3> SUFFICES ASSUME NEW u \in Threads \ {t}, upload[u].payload # << >>
                   PROVE  ReadWell(Oldest(upload[u].todo), upload[u].payload[1], files', fate', writing', names')
        BY <1>1, <1>3 DEF PassesWell
      <3> DEFINE x == Oldest(upload[u].todo)
                 q == upload[u].payload[1]
      <3>1. /\ ReadWell(x, q, files, fate, writing, names)
            /\ q.report \in Reports \ {k} /\ fate'[q.report] = fate[q.report]
        BY <1>10
      <3> HIDE DEF x, q
      <3>2. ReadWell(x, q, files', fate', writing', names')
        BY <1>1, <1>12, <2>1, <2>2, <2>4, <3>1 DEF ReadWell
      <3> QED
        BY <3>2 DEF x, q
    <2>8. ExitListed'
      <3>1. \A r \in exitMark : fate'[r] = "stored" => fate[r] = "stored"
        BY <1>7 DEF Types
      <3>2. exiter \in Threads /\ exiter \notin handling' => upload'[exiter] = upload[exiter] /\ exiter \notin handling
        BY <1>1, <1>2
      <3>3. phase = "exiting" => exiter \in Threads
        BY DEF ExitState
      <3>4. ExitListed /\ DOMAIN files \subseteq DOMAIN files'
        BY <2>4 DEF Clean
      <3> QED
        BY <1>2, <2>4, <3>1, <3>2, <3>3, <3>4 DEF ExitListed
    <2> QED
      BY <2>5, <2>6, <2>7, <2>8 DEF Clean
  <1> QED
    BY <1>1, <1>11, <1>12

\* As long as no name is reused and no file torn, all stays clean.
LEMMA CleanStep ==
  ASSUME Types, MadeInOrder, WritersOwn(writing, fate), HasWriter(writing, fate), Marked(exitMark, fate),
         ExitState, Clean, DeletesWell(upload, files, fate, writing, names), [Next]_vars, ~reused', ~torn'
  PROVE  Clean'
  <1>1. ASSUME UNCHANGED <<files, fate, names, writing, upload>>,
               hook' # "started" \/ UNCHANGED <<phase, hook, exiter, handling, exitMark, exitFailures>>
        PROVE  Clean'
    BY <1>1 DEF Clean, ExitListed, PassesWell
  <1>2. ASSUME NEW t \in Threads, CaptureStart(t) \/ CaptureOpen(t) \/ WriteOut(t) PROVE Clean'
    BY <1>2, CleanStart, CleanOpen, CleanWrite
  <1>3. ASSUME NEW t \in Threads, UploadPending(t) \/ InstallHandlers(t) PROVE Clean'
    <2>1. /\ t # exiter
          /\ UNCHANGED <<writing, names, phase, hook, exiter, handling, exitMark, exitFailures>>
      BY <1>3 DEF UploadPending, InstallHandlers, Free, processVars
    <2>2. CASE UNCHANGED <<files, upload, fate, torn>>
      BY <1>1, <2>1, <2>2
    <2>3. CASE ListPending(t, FALSE)
      <3>1. /\ FilesWell(files', fate', names') /\ WritersWell(writing', files', names')
            /\ PassesWell(upload', files', fate', writing', names')
            /\ \A n \in DOMAIN files : fate'[files[n].report] = "stored" => n \in DOMAIN files'
        BY <2>1, <2>3, CleanList
      <3>2. /\ \A n \in DOMAIN files' : files'[n] = files[n]
            /\ \A u \in Threads \ {t} : upload'[u] = upload[u]
            /\ \A r \in Reports : fate'[r] = "stored" => fate[r] = "stored"
        BY <2>3, ListTypes
      <3>3. phase = "exiting" => exiter \in Threads
        BY DEF ExitState
      <3>4. ExitListed /\ exitMark \subseteq Reports
        BY DEF Clean, Types
      <3>5. ExitListed'
        BY <2>1, <3>1, <3>2, <3>3, <3>4 DEF ExitListed
      <3> QED
        BY <3>1, <3>5 DEF Clean
    <2> QED
      BY <1>3, <2>2, <2>3 DEF UploadPending, InstallHandlers
  <1>4. ASSUME NEW t \in Threads, UploadRead(t) PROVE Clean'
    BY <1>4, CleanRead
  <1>5. ASSUME NEW t \in Threads, NEW status \in Statuses, UploadAnswer(t, status) PROVE Clean'
    BY <1>5, CleanAnswer
  <1>6. ASSUME NEW t \in Threads, Exit(t) PROVE Clean'
    <2>1. hook' # "started" /\ UNCHANGED <<files, fate, names, writing, upload>>
      BY <1>6 DEF Exit, ExitState, diskVars
    <2> QED
      BY <1>1, <2>1
  <1>7. ASSUME NEW t \in Threads, NEW s \in Signals, FatalSignal(t, s) PROVE Clean'
    BY <1>7, CleanSignal
  <1>8. CASE Killed \/ ProcessEnd \/ \E t \in Threads : Raise(t)
    <2>1. ThreadsDie /\ fate' = AfterDeath /\ UNCHANGED <<files, names, hook, exiter, exitMark, exitFailures>>
      BY <1>8 DEF Killed, ProcessEnd, Raise, ThreadsDie, diskVars
    <2>2. \A r \in Reports : fate'[r] = IF fate[r] = "writing" THEN "lost" ELSE fate[r]
      BY <2>1, DeathTypes
    <2>3. /\ FilesWell(files', fate', names') /\ WritersWell(writing', files', names')
          /\ PassesWell(upload', files', fate', writing', names')
      BY <2>1, <2>2, CleanDeath
    <2>4. ExitListed'
      <3>1. CASE Killed \/ \E t \in Threads : Raise(t)
        BY <3>1 DEF Killed, Raise, ExitListed
      <3>2. CASE ProcessEnd
        <4>1. phase = "exiting" /\ exiter \notin handling /\ phase' = "exited"
             /\ DOMAIN upload[exiter].todo = {}
          BY <3>2, NoPass DEF ProcessEnd
        <4>2. hook = "started" /\ exitFailures = 0 => \A r \in exitMark : fate[r] # "stored"
          BY <4>1 DEF Clean, ExitListed
        <4>3. exitMark \subseteq Reports
          BY DEF Types
        <4> QED
          BY <2>1, <2>2, <4>1, <4>2, <4>3 DEF ExitListed
      <3> QED
        BY <1>8, <3>1, <3>2
    <2> QED
      BY <2>3, <2>4 DEF Clean
  <1>9. CASE ExitUpload
    <2>1. /\ phase = "exiting" /\ hook = "registered" /\ exiter \in Threads /\ exiter \notin handling
          /\ UNCHANGED <<phase, exiter, handling, writing, names, exitMark, exitFailures>>
      BY <1>9 DEF ExitUpload, ExitState
    <2>2. exitMark \subseteq Reports
      BY DEF Types
    <2>3. CASE files # << >>
      <3>1. ListPending(exiter, TRUE)
        BY <1>9, <2>3 DEF ExitUpload
      <3>2. /\ FilesWell(files', fate', names') /\ WritersWell(writing', files', names')
            /\ PassesWell(upload', files', fate', writing', names')
        BY <2>1, <3>1, CleanList
      <3>3. DOMAIN upload'[exiter].todo = DOMAIN files'
        BY <2>1, <3>1, ListTypes
      <3>4. ExitListed'
        BY <2>1, <2>2, <3>2, <3>3 DEF ExitListed, FilesWell
      <3> QED
        BY <3>2, <3>4 DEF Clean
    <2>4. CASE files = << >>
      <3>1. UNCHANGED <<files, upload, fate, torn>>
        BY <1>9, <2>4 DEF ExitUpload
      <3>2. \A r \in Reports : fate[r] # "stored"
        BY <2>4 DEF Clean, FilesWell
      <3>3. ExitListed'
        BY <2>1, <2>2, <3>1, <3>2 DEF ExitListed
      <3> QED
        BY <2>1, <3>1, <3>3 DEF Clean, PassesWell
    <2> QED
      BY <2>3, <2>4
  <1>10. CASE Restart
    BY <1>1, <1>10 DEF Restart, diskVars
  <1>11. CASE Tick \/ Terminated \/ UNCHANGED vars
    BY <1>1, <1>11 DEF Tick, Terminated, vars, diskVars, processVars, historyVars
  <1>12. ASSUME NEW t \in Threads, UploadDelete(t) PROVE Clean'
    BY <1>12, CleanDelete
  <1> QED
    BY <1>2, <1>3, <1>4, <1>5, <1>6, <1>7, <1>8, <1>9, <1>10, <1>11, <1>12 DEF Next, CaptureWrite, SignalWrite

-----------------------------------------------------------------------------
(***************************************************************************)
(* The order of a pass: compare_pending orders any two files, so the cap   *)
(* leaves no more than it says.  What DecimalDigits computes is shown by   *)
(* searching for the least counterexample.                                 *)
(***************************************************************************)

\* A set of naturals has a least element: what a proof by induction starts
\* from.
LEMMA LeastNatural ==
  ASSUME NEW T, T \subseteq Nat, T # {}
  PROVE  \E x \in T : \A y \in T : x <= y
  <1> DEFINE R == OpToRel(<, Nat)
  <1>1. IsWellFoundedOn(R, Nat)
    BY NatLessThanWellFounded
  <1> HIDE DEF R
  <1>2. PICK x \in T : \A y \in T : ~ (<<y, x>> \in R)
    BY <1>1, WFMin
  <1>3. \A y \in T : ~(y < x)
    BY <1>2 DEF OpToRel, R
  <1> QED
    BY <1>3

\* The numbers of file names and their digits, for any function f that
\* satisfies the recursion of DecimalDigits up to k.
LastNumber == MaxReports + MaxTime + 99
IsDigits(f, k) ==
  \A n \in 0..k : /\ n < 10 => f[n] = <<n>>
                  /\ n >= 10 => f[n] = Append(f[n \div 10], n % 10)

LEMMA LastDigit ==
  ASSUME NEW n \in Nat
  PROVE  /\ n \div 10 \in Nat /\ n % 10 \in 0..9 /\ n = 10 * (n \div 10) + (n % 10)
         /\ n >= 10 => n \div 10 < n
  OBVIOUS

LEMMA DigitsExist ==
  ASSUME NEW k \in Nat
  PROVE  \E f \in [0..k -> Seq(0..9)] : IsDigits(f, k)
  <1> DEFINE Ok(n) == \E f \in [0..n -> Seq(0..9)] : IsDigits(f, n)
             Bad == {n \in Nat : ~Ok(n)}
  <1>1. Ok(0)
    <2> DEFINE f == [n \in 0..0 |-> <<0>>]
    <2>1. f \in [0..0 -> Seq(0..9)]
      OBVIOUS
    <2>2. IsDigits(f, 0)
      BY DEF IsDigits
    <2> QED
      BY <2>1, <2>2
  <1>2. ASSUME NEW m \in Nat, Ok(m) PROVE Ok(m + 1)
    <2>1. PICK f \in [0..m -> Seq(0..9)] : IsDigits(f, m)
      BY <1>2
    <2> DEFINE q == (m + 1) \div 10
               d == (m + 1) % 10
               new == IF m + 1 < 10 THEN <<m + 1>> ELSE Append(f[q], d)
               g == [n \in 0..(m + 1) |-> IF n = m + 1 THEN new ELSE f[n]]
    <2>2. q \in Nat /\ d \in 0..9 /\ (m + 1 >= 10 => q \in 0..m)
      BY LastDigit
    <2> HIDE DEF q, d
    <2>3. new \in Seq(0..9) /\ (m + 1 < 10 => new = <<m + 1>>) /\ (m + 1 >= 10 => new = Append(f[q], d))
      <3>1. CASE m + 1 < 10
        BY <3>1
      <3>2. CASE m + 1 >= 10
        <4>1. f[q] \in Seq(0..9) /\ new = Append(f[q], d)
          BY <2>2, <3>2
        <4> HIDE DEF new
        <4>2. new \in Seq(0..9)
          BY <2>2, <4>1, AppendProperties
        <4> QED
          BY <3>2, <4>1, <4>2
      <3> QED
        BY <3>1, <3>2
    <2> HIDE DEF new
    <2>4. g \in [0..(m + 1) -> Seq(0..9)] /\ g[m + 1] = new /\ \A n \in 0..m : g[n] = f[n]
      BY <2>3
    <2> HIDE DEF g
    <2>5. ASSUME NEW n \in 0..(m + 1)
          PROVE  (n < 10 => g[n] = <<n>>) /\ (n >= 10 => g[n] = Append(g[n \div 10], n % 10))
      <3>1. CASE n = m + 1
        BY <2>2, <2>3, <2>4, <3>1 DEF q, d
      <3>2. CASE n # m + 1
        <4>1. n \in 0..m /\ n \div 10 \in Nat /\ (n >= 10 => n \div 10 \in 0..m)
          BY <3>2, LastDigit
        <4>2. (n < 10 => f[n] = <<n>>) /\ (n >= 10 => f[n] = Append(f[n \div 10], n % 10))
          BY <2>1, <4>1 DEF IsDigits
        <4> QED
          BY <2>4, <4>1, <4>2
      <3> QED
        BY <3>1, <3>2
    <2>6. IsDigits(g, m + 1)
      BY <2>5 DEF IsDigits
    <2> QED
      BY <2>4, <2>6
  <1> HIDE DEF Ok
  <1>3. Bad = {}
    <2> SUFFICES ASSUME Bad # {} PROVE FALSE
      OBVIOUS
    <2>1. Bad \subseteq Nat
      OBVIOUS
    <2> HIDE DEF Bad
    <2>2. PICK x \in Bad : \A y \in Bad : x <= y
      BY <2>1, LeastNatural
    <2>3. x \in Nat /\ x # 0 /\ ~Ok(x)
      BY <1>1, <2>2 DEF Bad
    <2>4. Ok(x - 1)
      BY <2>2, <2>3 DEF Bad
    <2> QED
      BY <1>2, <2>3, <2>4
  <1>4. Ok(k)
    BY <1>3
  <1> QED
    BY <1>4 DEF Ok

LEMMA Digits ==
  DecimalDigits \in [0..LastNumber -> Seq(0..9)] /\ IsDigits(DecimalDigits, LastNumber)
  <1> USE CrashStoreAssumption
  <1>1. LastNumber \in Nat
    BY DEF LastNumber
  <1>2. PICK f \in [0..LastNumber -> Seq(0..9)] : IsDigits(f, LastNumber)
    BY <1>1, DigitsExist
  <1> DEFINE S == 0..LastNumber
  <1>3. f = [n \in S |-> IF n < 10 THEN <<n>> ELSE Append(f[n \div 10], n % 10)]
    <2>1. ASSUME NEW n \in S PROVE f[n] = IF n < 10 THEN <<n>> ELSE Append(f[n \div 10], n % 10)
      <3>1. (n < 10 => f[n] = <<n>>) /\ (n >= 10 => f[n] = Append(f[n \div 10], n % 10))
        BY <1>2 DEF IsDigits
      <3>2. n < 10 \/ n >= 10
        BY <1>1
      <3> QED
        BY <3>1, <3>2
    <2> QED
      BY <1>2, <2>1
  <1>4. DecimalDigits = [n \in S |-> IF n < 10 THEN <<n>> ELSE Append(DecimalDigits[n \div 10], n % 10)]
    BY <1>3 DEF DecimalDigits, LastNumber
  <1>5. IsDigits(DecimalDigits, LastNumber)
    <2> SUFFICES ASSUME NEW n \in S
                 PROVE  (n < 10 => DecimalDigits[n] = <<n>>) /\ (n >= 10 => DecimalDigits[n] = Append(DecimalDigits[n \div 10], n % 10))
      BY DEF IsDigits
    <2>1. DecimalDigits[n] = IF n < 10 THEN <<n>> ELSE Append(DecimalDigits[n \div 10], n % 10)
      BY <1>4
    <2>2. n < 10 <=> ~(n >= 10)
      OBVIOUS
    <2> QED
      BY <2>1, <2>2
  <1> DEFINE Bad == {n \in S : DecimalDigits[n] \notin Seq(0..9)}
  <1>6. Bad = {}
    <2> SUFFICES ASSUME Bad # {} PROVE FALSE
      OBVIOUS
    <2>1. Bad \subseteq Nat
      OBVIOUS
    <2> HIDE DEF Bad
    <2>2. PICK x \in Bad : \A y \in Bad : x <= y
      BY <2>1, LeastNatural
    <2>3. x \in S /\ DecimalDigits[x] \notin Seq(0..9)
      BY <2>2 DEF Bad
    <2>4. x >= 10
      <3> DEFINE one == <<x>>
      <3>1. x \in Nat /\ (x < 10 => DecimalDigits[x] = one /\ x \in 0..9)
        BY <1>1, <1>5, <2>3 DEF IsDigits
      <3>2. x < 10 => one \in Seq(0..9)
        BY <3>1
      <3> HIDE DEF one
      <3>3. x \in Nat /\ ~(x < 10)
        BY <2>3, <3>1, <3>2
      <3> QED
        BY <3>3
    <2> DEFINE q == x \div 10
               d == x % 10
    <2>5. q \in S /\ q < x /\ d \in 0..9
      BY <1>1, <2>3, <2>4, LastDigit
    <2>6. DecimalDigits[x] = Append(DecimalDigits[q], d)
      BY <1>5, <2>3, <2>4 DEF IsDigits
    <2> HIDE DEF q, d
    <2>7. DecimalDigits[q] \in Seq(0..9)
      BY <2>2, <2>5 DEF Bad
    <2> QED
      BY <2>3, <2>5, <2>6, <2>7, AppendProperties
  <1>7. \A n \in S : DecimalDigits[n] \in Seq(0..9)
    BY <1>6
  <1>8. DecimalDigits \in [S -> Seq(0..9)]
    BY <1>4, <1>7
  <1> QED
    BY <1>5, <1>8

\* Different numbers have different digits.
LEMMA DigitsDiffer ==
  ASSUME NEW m \in 0..LastNumber, NEW n \in 0..LastNumber, DecimalDigits[m] = DecimalDigits[n]
  PROVE  m = n
  <1> USE CrashStoreAssumption
  <1> DEFINE D == DecimalDigits
             S == 0..LastNumber
             Bad == {x \in S : \E y \in S : D[x] = D[y] /\ x # y}
  <1>1. LastNumber \in Nat
    BY DEF LastNumber
  <1>2. D \in [S -> Seq(0..9)] /\ IsDigits(D, LastNumber)
    BY Digits
  <1> HIDE DEF D
  <1>3. \A x \in S : x < 10 => D[x] = <<x>>
    BY <1>2 DEF IsDigits
  <1>4. ASSUME NEW x \in S, x >= 10
        PROVE  \E q \in S, d \in 0..9 : q < x /\ x = 10 * q + d /\ D[x] = Append(D[q], d) /\ D[q] \in Seq(0..9)
    <2> DEFINE q == x \div 10
               d == x % 10
    <2>1. q \in S /\ d \in 0..9 /\ q < x /\ x = 10 * q + d
      BY <1>1, <1>4, LastDigit
    <2>2. D[x] = Append(D[q], d)
      BY <1>2, <1>4 DEF IsDigits
    <2> HIDE DEF q, d
    <2>3. D[q] \in Seq(0..9)
      BY <1>2, <2>1
    <2> QED
      BY <2>1, <2>2, <2>3
  <1>5. \A x \in S : Len(D[x]) \in Nat
    BY <1>2
  <1>6. ASSUME NEW x \in S PROVE Len(D[x]) >= 1
    <2>1. CASE x < 10
      <3>1. Len(<<x>>) = 1
        OBVIOUS
      <3> QED
        BY <1>3, <2>1, <3>1
    <2>2. CASE x >= 10
      <3>1. PICK q \in S, d \in 0..9 : D[x] = Append(D[q], d) /\ D[q] \in Seq(0..9)
        BY <1>4, <2>2
      <3>2. Len(D[x]) = Len(D[q]) + 1 /\ Len(D[q]) \in Nat
        BY <1>5, <3>1, AppendProperties
      <3> QED
        BY <3>2
    <2> QED
      BY <2>1, <2>2
  <1>7. ASSUME NEW x \in S, NEW y \in S, D[x] = D[y], x < 10 PROVE x = y
    <2>1. D[x] = <<x>> /\ Len(<<x>>) = 1
      BY <1>3, <1>7
    <2>2. CASE y < 10
      <3>1. <<x>> = <<y>>
        BY <1>3, <1>7, <2>1, <2>2
      <3> QED
        BY <3>1
    <2>3. CASE y >= 10
      <3>1. PICK q \in S, d \in 0..9 : D[y] = Append(D[q], d) /\ D[q] \in Seq(0..9)
        BY <1>4, <2>3
      <3>2. Len(D[y]) = Len(D[q]) + 1
        BY <3>1, AppendProperties
      <3> DEFINE k == Len(D[q])
      <3>3. k \in Nat /\ k >= 1 /\ 1 = k + 1
        BY <1>5, <1>6, <1>7, <2>1, <3>2
      <3> HIDE DEF k
      <3> QED
        BY <3>3
    <2> QED
      BY <2>2, <2>3
  <1>8. Bad = {}
    <2> SUFFICES ASSUME Bad # {} PROVE FALSE
      OBVIOUS
    <2>1. Bad \subseteq Nat
      OBVIOUS
    <2> HIDE DEF Bad
    <2>2. PICK x \in Bad : \A y \in Bad : x <= y
      BY <2>1, LeastNatural
    <2>3. x \in S
      BY <2>2 DEF Bad
    <2>4. PICK y \in S : D[x] = D[y] /\ x # y
      BY <2>2 DEF Bad
    <2>5. x >= 10 /\ y >= 10
      BY <1>7, <2>3, <2>4
    <2>6. PICK q \in S, d \in 0..9 : q < x /\ x = 10 * q + d /\ D[x] = Append(D[q], d) /\ D[q] \in Seq(0..9)
      BY <1>4, <2>3, <2>5
    <2>7. PICK r \in S, e \in 0..9 : r < y /\ y = 10 * r + e /\ D[y] = Append(D[r], e) /\ D[r] \in Seq(0..9)
      BY <1>4, <2>4, <2>5
    <2>8. D[q] = D[r] /\ d = e
      <3> DEFINE v == D[q]
                 w == D[r]
      <3>1. v \in Seq(0..9) /\ w \in Seq(0..9) /\ Append(v, d) = Append(w, e)
        BY <2>4, <2>6, <2>7
      <3> HIDE DEF v, w
      <3>2. v = w /\ d = e
        BY <3>1, AppendInjective
      <3> QED
        BY <3>2 DEF v, w
    <2>9. q = r
      BY <2>2, <2>3, <2>6, <2>8 DEF Bad
    <2> QED
      BY <2>4, <2>6, <2>7, <2>8, <2>9
  <1> QED
    BY <1>8 DEF D

\* One sequence is before another: the text of WrittenBefore.
Before(a, b) ==
  \E i \in 1..Len(b) :
    /\ \A j \in 1..(i - 1) : j <= Len(a) /\ a[j] = b[j]
    /\ i = Len(a) + 1 \/ (i <= Len(a) /\ a[i] < b[i])

LEMMA BeforeTransitive ==
  ASSUME NEW a \in Seq(0..9), NEW b \in Seq(0..9), NEW c \in Seq(0..9), Before(a, b), Before(b, c)
  PROVE  Before(a, c)
  <1>1. /\ Len(a) \in Nat /\ Len(b) \in Nat /\ Len(c) \in Nat
        /\ \A i \in 1..Len(a) : a[i] \in Int
        /\ \A i \in 1..Len(b) : b[i] \in Int
        /\ \A i \in 1..Len(c) : c[i] \in Int
    <2>1. \A s \in Seq(0..9) : Len(s) \in Nat /\ \A i \in 1..Len(s) : s[i] \in Int
      OBVIOUS
    <2> QED
      BY <2>1
  <1>2. PICK i \in 1..Len(b) : /\ \A j \in 1..(i - 1) : j <= Len(a) /\ a[j] = b[j]
                               /\ i = Len(a) + 1 \/ (i <= Len(a) /\ a[i] < b[i])
    BY DEF Before
  <1>3. PICK k \in 1..Len(c) : /\ \A j \in 1..(k - 1) : j <= Len(b) /\ b[j] = c[j]
                               /\ k = Len(b) + 1 \/ (k <= Len(b) /\ b[k] < c[k])
    BY DEF Before
  <1>4. CASE i < k
    <2>1. i \in 1..Len(c) /\ \A j \in 1..(i - 1) : j <= Len(a) /\ a[j] = c[j]
      BY <1>1, <1>2, <1>3, <1>4
    <2>2. i = Len(a) + 1 \/ (i <= Len(a) /\ a[i] < c[i])
      BY <1>1, <1>2, <1>3, <1>4
    <2> QED
      BY <2>1, <2>2 DEF Before
  <1>5. CASE i >= k
    <2>1. k <= Len(b) /\ b[k] < c[k]
      BY <1>1, <1>2, <1>3, <1>5
    <2>2. \A j \in 1..(k - 1) : j <= Len(a) /\ a[j] = c[j]
      BY <1>1, <1>2, <1>3, <1>5
    <2>3. k = Len(a) + 1 \/ (k <= Len(a) /\ a[k] < c[k])
      <3>1. CASE i = k
        BY <1>1, <1>2, <2>1, <3>1
      <3>2. CASE i > k
        <4>1. k <= Len(a) /\ a[k] = b[k]
          BY <1>2, <1>3, <3>2
        <4> QED
          BY <2>1, <4>1
      <3> QED
        BY <1>5, <3>1, <3>2
    <2> QED
      BY <2>2, <2>3 DEF Before
  <1> QED
    BY <1>4, <1>5

LEMMA BeforeTotal ==
  ASSUME NEW a \in Seq(0..9), NEW b \in Seq(0..9), a # b
  PROVE  Before(a, b) \/ Before(b, a)
  <1> DEFINE Q == {i \in Nat \ {0} : i > Len(a) \/ i > Len(b) \/ a[i] # b[i]}
  <1>1. /\ Len(a) \in Nat /\ Len(b) \in Nat
        /\ \A i \in 1..Len(a) : a[i] \in Int
        /\ \A i \in 1..Len(b) : b[i] \in Int
    OBVIOUS
  <1>2. Len(a) + 1 \in Q /\ Q \subseteq Nat
    BY <1>1
  <1> HIDE DEF Q
  <1>3. PICK i \in Q : \A j \in Q : i <= j
    BY <1>2, LeastNatural
  <1>4. i \in Nat \ {0} /\ (i > Len(a) \/ i > Len(b) \/ a[i] # b[i])
    BY <1>3 DEF Q
  <1>5. \A j \in 1..(i - 1) : j <= Len(a) /\ j <= Len(b) /\ a[j] = b[j]
    BY <1>1, <1>3, <1>4 DEF Q
  <1>6. i <= Len(a) + 1 /\ i <= Len(b) + 1
    <2>1. i - 1 <= Len(a) /\ i - 1 <= Len(b)
      BY <1>1, <1>4, <1>5
    <2> QED
      BY <1>1, <1>4, <2>1
  <1>7. ~(i = Len(a) + 1 /\ i = Len(b) + 1)
    <2> SUFFICES ASSUME i = Len(a) + 1, i = Len(b) + 1 PROVE FALSE
      OBVIOUS
    <2>1. Len(a) = Len(b) /\ \A j \in 1..Len(a) : a[j] = b[j]
      BY <1>1, <1>5
    <2>2. a = b
      BY <2>1, SeqEqual
    <2> QED
      BY <2>2
  <1>8. CASE i = Len(a) + 1
    BY <1>1, <1>4, <1>5, <1>6, <1>7, <1>8 DEF Before
  <1>9. CASE i = Len(b) + 1
    BY <1>1, <1>4, <1>5, <1>6, <1>7, <1>9 DEF Before
  <1>10. CASE i <= Len(a) /\ i <= Len(b)
    <2>1. i \in 1..Len(a) /\ i \in 1..Len(b) /\ (a[i] < b[i] \/ b[i] < a[i])
      BY <1>1, <1>4, <1>10
    <2> QED
      BY <1>5, <2>1 DEF Before
  <1> QED
    BY <1>1, <1>4, <1>6, <1>8, <1>9, <1>10

\* strcmp of written numbers is a strict order, and total.
LEMMA NumbersOrdered ==
  /\ \A x, y, z \in 0..LastNumber : WrittenBefore(x, y) /\ WrittenBefore(y, z) => WrittenBefore(x, z)
  /\ \A x, y \in 0..LastNumber : x # y => WrittenBefore(x, y) \/ WrittenBefore(y, x)
  <1>1. \A x, y \in 0..LastNumber : WrittenBefore(x, y) <=> Before(DecimalDigits[x], DecimalDigits[y])
    BY DEF WrittenBefore, Before
  <1>2. \A x \in 0..LastNumber : DecimalDigits[x] \in Seq(0..9)
    BY Digits
  <1>3. ASSUME NEW x \in 0..LastNumber, NEW y \in 0..LastNumber, NEW z \in 0..LastNumber,
               WrittenBefore(x, y), WrittenBefore(y, z)
        PROVE  WrittenBefore(x, z)
    BY <1>1, <1>2, <1>3, BeforeTransitive
  <1>4. ASSUME NEW x \in 0..LastNumber, NEW y \in 0..LastNumber, x # y
        PROVE  WrittenBefore(x, y) \/ WrittenBefore(y, x)
    <2>1. DecimalDigits[x] # DecimalDigits[y]
      BY <1>4, DigitsDiffer
    <2> QED
      BY <1>1, <1>2, <2>1, BeforeTotal
  <1> QED
    BY <1>3, <1>4

\* So is compare_pending.
LEMMA NamesOrdered ==
  ASSUME NEW mt, NEW S, S \subseteq FileNames, \A n \in S : mt[n] \in Int
  PROVE  /\ \A l, m, n \in S : ComparePending(mt, l, m) /\ ComparePending(mt, m, n) => ComparePending(mt, l, n)
         /\ \A m, n \in S : m # n => ComparePending(mt, m, n) \/ ComparePending(mt, n, m)
  <1> USE CrashStoreAssumption
  <1> DEFINE L == 0..LastNumber
             W == {p \in L \X L : WrittenBefore(p[1], p[2])}
             Major(n) == IF n.kind = "event" THEN n.at ELSE n.number
             Minor(n) == IF n.kind = "event" THEN n.number ELSE n.at
  <1>1. /\ \A x, y \in L : <<x, y>> \in W <=> WrittenBefore(x, y)
        /\ \A x, y, z \in L : <<x, y>> \in W /\ <<y, z>> \in W => <<x, z>> \in W
        /\ \A x, y \in L : x # y => <<x, y>> \in W \/ <<y, x>> \in W
    BY NumbersOrdered
  <1> HIDE DEF W
  <1>2. \A n \in S : n = [kind |-> n.kind, at |-> n.at, number |-> n.number] /\ n.at \in L /\ n.number \in L
                       /\ n.kind \in {"event", "signal"}
    BY DEF FileNames, LastNumber
  <1>3. \A n \in S : Major(n) \in L /\ Minor(n) \in L
    BY <1>2
  <1>4. \A m, n \in S : NameBefore(m, n) <=>
          \/ m.kind = "event" /\ n.kind # "event"
          \/ m.kind = n.kind /\ <<Major(m), Major(n)>> \in W
          \/ m.kind = n.kind /\ Major(m) = Major(n) /\ <<Minor(m), Minor(n)>> \in W
    BY <1>1, <1>2, <1>3 DEF NameBefore
  <1>5. \A m, n \in S : m.kind = n.kind /\ Major(m) = Major(n) /\ Minor(m) = Minor(n) => m = n
    BY <1>2
  <1> HIDE DEF L, Major, Minor
  <1>6. ASSUME NEW l \in S, NEW m \in S, NEW n \in S, NameBefore(l, m), NameBefore(m, n) PROVE NameBefore(l, n)
    BY <1>1, <1>2, <1>3, <1>4, <1>6
  <1>7. ASSUME NEW m \in S, NEW n \in S, m # n PROVE NameBefore(m, n) \/ NameBefore(n, m)
    BY <1>1, <1>2, <1>3, <1>4, <1>5, <1>7
  <1>8. ASSUME NEW l \in S, NEW m \in S, NEW n \in S, ComparePending(mt, l, m), ComparePending(mt, m, n)
        PROVE  ComparePending(mt, l, n)
    BY <1>6, <1>8 DEF ComparePending
  <1>9. ASSUME NEW m \in S, NEW n \in S, m # n PROVE ComparePending(mt, m, n) \/ ComparePending(mt, n, m)
    BY <1>7, <1>9 DEF ComparePending
  <1> QED
    BY <1>8, <1>9

\* A finite set that is so ordered has a first element.
LEMMA FirstOfFinite ==
  ASSUME NEW S, IsFiniteSet(S), S # {}, NEW R,
         \A l, m, n \in S : <<l, m>> \in R /\ <<m, n>> \in R => <<l, n>> \in R,
         \A m, n \in S : m # n => <<m, n>> \in R \/ <<n, m>> \in R
  PROVE  \E x \in S : \A y \in S \ {x} : <<x, y>> \in R
  <1> DEFINE HasFirst(s) == \E x \in s : \A y \in s \ {x} : <<x, y>> \in R
             Bad == {k \in Nat : \E s \in SUBSET S : s # {} /\ Cardinality(s) = k /\ ~HasFirst(s)}
  <1>1. \A s \in SUBSET S :
          /\ Cardinality(s) \in Nat
          /\ \A x \in s : s \ {x} \in SUBSET S /\ Cardinality(s \ {x}) = Cardinality(s) - 1
    BY FS_Subset, FS_CardinalityType, FS_RemoveElement
  <1>2. Bad = {}
    <2> SUFFICES ASSUME Bad # {} PROVE FALSE
      OBVIOUS
    <2>1. Bad \subseteq Nat
      OBVIOUS
    <2> HIDE DEF Bad
    <2>2. PICK k \in Bad : \A j \in Bad : k <= j
      BY <2>1, LeastNatural
    <2>3. PICK s \in SUBSET S : s # {} /\ Cardinality(s) = k /\ ~HasFirst(s)
      BY <2>2 DEF Bad
    <2>4. PICK a \in s : TRUE
      BY <2>3
    <2> DEFINE r == s \ {a}
    <2>5. r # {}
      <3>1. r = {} => HasFirst(s)
        BY <2>4
      <3> HIDE DEF HasFirst
      <3> QED
        BY <2>3, <3>1
    <2>6. r \in SUBSET S /\ Cardinality(r) = k - 1 /\ k - 1 \in Nat /\ k \in Nat
      <3>1. r \in SUBSET S /\ Cardinality(r) = k - 1
        BY <1>1, <2>3, <2>4
      <3> HIDE DEF r
      <3>2. Cardinality(r) \in Nat /\ k \in Nat
        BY <1>1, <2>1, <2>2, <3>1
      <3> QED
        BY <3>1, <3>2
    <2> HIDE DEF HasFirst
    <2>7. HasFirst(r)
      BY <2>2, <2>5, <2>6 DEF Bad
    <2>8. PICK b \in r : \A y \in r \ {b} : <<b, y>> \in R
      BY <2>7 DEF HasFirst
    <2>9. a \in S /\ b \in S /\ a # b /\ a \in s /\ b \in s /\ r \subseteq S
      BY <2>3, <2>4, <2>6, <2>8
    <2>10. CASE <<a, b>> \in R
      <3>1. \A y \in s \ {a} : <<a, y>> \in R
        BY <2>8, <2>9, <2>10
      <3> QED
        BY <2>3, <2>9, <3>1 DEF HasFirst
    <2>11. CASE <<b, a>> \in R
      <3>1. \A y \in s \ {b} : <<b, y>> \in R
        BY <2>8, <2>9, <2>11
      <3> QED
        BY <2>3, <2>9, <3>1 DEF HasFirst
    <2> QED
      BY <2>9, <2>10, <2>11
  <1>3. HasFirst(S)
    BY <1>1, <1>2
  <1> QED
    BY <1>3

\* Of the files that are not too old, the cap leaves MaxPending.
LEMMA CapLeaves ==
  ASSUME IsFiniteSet(DOMAIN files), DOMAIN files \subseteq FileNames, \A n \in DOMAIN files : files[n].mtime \in Int
  PROVE  Cardinality(DOMAIN files \ (Expired \cup Excess)) <= MaxPending
  <1> USE CrashStoreAssumption
  <1> DEFINE kept == DOMAIN files \ Expired
             mt == Mtimes(kept)
             R == {p \in kept \X kept : ComparePending(mt, p[1], p[2])}
             after(n) == {m \in kept : ComparePending(mt, n, m)}
             left == kept \ Excess
  <1>1. \A n \in kept : mt[n] \in Int
    BY DEF Mtimes
  <1>2. \A n \in left : ~(Cardinality(after(n)) >= MaxPending)
    BY DEF Excess
  <1>3. IsFiniteSet(kept) /\ IsFiniteSet(left) /\ left \subseteq kept /\ kept \subseteq FileNames
    BY FS_Subset
  <1>4. left = DOMAIN files \ (Expired \cup Excess)
    OBVIOUS
  <1> HIDE DEF kept, mt, left
  <1>5. /\ \A m, n \in kept : <<m, n>> \in R <=> ComparePending(mt, m, n)
        /\ \A l, m, n \in kept : <<l, m>> \in R /\ <<m, n>> \in R => <<l, n>> \in R
        /\ \A m, n \in kept : m # n => <<m, n>> \in R \/ <<n, m>> \in R
    BY <1>1, <1>3, NamesOrdered
  <1> HIDE DEF R
  <1>6. CASE left = {}
    <2>1. Cardinality(left) = 0 /\ 0 <= MaxPending
      BY <1>6, FS_EmptySet
    <2> QED
      BY <1>4, <2>1
  <1>7. CASE left # {}
    <2>1. PICK x \in left : \A y \in left \ {x} : <<x, y>> \in R
      BY <1>3, <1>5, <1>7, FirstOfFinite
    <2>2. left \ {x} \subseteq after(x) /\ after(x) \subseteq kept
      BY <1>3, <1>5, <2>1
    <2> DEFINE A == after(x)
    <2>3. left \ {x} \subseteq A /\ A \subseteq kept /\ ~(Cardinality(A) >= MaxPending)
      BY <1>2, <2>1, <2>2
    <2> HIDE DEF A
    <2>4. IsFiniteSet(A) /\ Cardinality(A) \in Nat /\ IsFiniteSet(left \ {x})
      BY <1>3, <2>3, FS_Subset, FS_CardinalityType
    <2>5. Cardinality(left \ {x}) <= Cardinality(A)
      BY <2>3, <2>4, FS_Subset
    <2>6. Cardinality(left \ {x}) = Cardinality(left) - 1 /\ Cardinality(left) \in Nat
      BY <1>3, <2>1, FS_RemoveElement, FS_CardinalityType
    <2> QED
      BY <1>4, <2>3, <2>4, <2>5, <2>6
  <1> QED
    BY <1>6, <1>7

\* A pass is within the cap, for all steps.
LEMMA CapStep ==
  ASSUME Types, MadeInOrder, Capped, ExitState, [Next]_vars
  PROVE  Capped'
  <1> USE CrashStoreAssumption
  <1>1. CASE UNCHANGED upload
    BY <1>1 DEF Capped
  <1>2. ASSUME NEW t \in Threads, \A u \in Threads \ {t} : upload'[u] = upload[u],
               DOMAIN upload'[t].todo \subseteq DOMAIN upload[t].todo
        PROVE  Capped'
    <2> DEFINE D == DOMAIN upload[t].todo
               E == DOMAIN upload'[t].todo
    <2>1. IsFiniteSet(D) /\ Cardinality(D) <= MaxPending /\ E \subseteq D
      BY <1>2 DEF Types, IsPass, Capped
    <2> HIDE DEF D, E
    <2>2. IsFiniteSet(E) /\ Cardinality(E) <= Cardinality(D) /\ Cardinality(D) \in Nat /\ Cardinality(E) \in Nat
      BY <2>1, FS_Subset, FS_CardinalityType
    <2>3. Cardinality(E) <= MaxPending
      BY <2>1, <2>2
    <2> QED
      BY <1>2, <2>3 DEF Capped, E
  <1>3. ASSUME NEW t \in Threads, NEW stop \in BOOLEAN, ListPending(t, stop) PROVE Capped'
    <2>1. /\ \A u \in Threads \ {t} : upload'[u] = upload[u]
          /\ DOMAIN upload'[t].todo = DOMAIN files'
      BY <1>3, ListTypes
    <2>2. DOMAIN files' = DOMAIN files \ (Expired \cup Excess)
      BY <1>3 DEF ListPending, Without
    <2>3. /\ IsFiniteSet(DOMAIN files) /\ DOMAIN files \subseteq FileNames
          /\ \A n \in DOMAIN files : files[n].mtime \in Int
      BY DEF Types, File
    <2>4. Cardinality(DOMAIN files \ (Expired \cup Excess)) <= MaxPending
      BY <2>3, CapLeaves
    <2> QED
      BY <2>1, <2>2, <2>4 DEF Capped
  <1>4. ASSUME NEW t \in Threads, UploadPending(t) \/ InstallHandlers(t) PROVE Capped'
    BY <1>1, <1>3, <1>4 DEF UploadPending, InstallHandlers
  <1>5. ASSUME NEW t \in Threads, UploadRead(t) PROVE Capped'
    <2>1. /\ \A u \in Threads \ {t} : upload'[u] = upload[u]
          /\ upload'[t].todo = upload[t].todo
      BY <1>5, ReadTypes
    <2> QED
      BY <1>2, <2>1
  <1>6. ASSUME NEW t \in Threads, NEW status \in Statuses, UploadAnswer(t, status) PROVE Capped'
    <2> DEFINE next == Oldest(upload[t].todo)
    <2>1. /\ \A u \in Threads \ {t} : upload'[u] = upload[u]
          /\ \/ upload'[t].todo = upload[t].todo
             \/ upload'[t] = NoUpload \/ upload'[t] = Onward(upload[t], next)
      BY <1>6, AnswerTypes
    <2> HIDE DEF next
    <2>2. DOMAIN upload'[t].todo \subseteq DOMAIN upload[t].todo
      BY <2>1, PassGoesOn, NoPass DEF Types
    <2> QED
      BY <1>2, <2>1, <2>2
  <1>7. ASSUME ThreadsDie PROVE Capped'
    <2>1. \A t \in Threads : DOMAIN upload'[t].todo = {}
      BY <1>7, DeathTypes, NoPass
    <2>2. Cardinality({}) = 0 /\ 0 <= MaxPending
      BY FS_EmptySet
    <2> QED
      BY <2>1, <2>2 DEF Capped
  <1>8. CASE Killed \/ ProcessEnd \/ \E t \in Threads : Raise(t)
    BY <1>7, <1>8 DEF Killed, ProcessEnd, Raise
  <1>9. CASE ExitUpload
    <2>1. exiter \in Threads
      BY <1>9 DEF ExitUpload, ExitState
    <2> QED
      BY <1>1, <1>3, <1>9, <2>1 DEF ExitUpload
  <1>10. ASSUME NEW t \in Threads, CaptureStart(t) \/ CaptureOpen(t) \/ WriteOut(t) \/ Exit(t) PROVE Capped'
    BY <1>1, <1>10 DEF CaptureStart, CaptureOpen, WriteOut, Exit
  <1>11. CASE Tick \/ Restart \/ Terminated \/ UNCHANGED vars
    BY <1>1, <1>11 DEF Tick, Restart, Terminated, vars
  <1>12. ASSUME NEW t \in Threads, NEW s \in Signals, FatalSignal(t, s) PROVE Capped'
    <2>1. upload'[t] = NoUpload /\ \A u \in Threads \ {t} : upload'[u] = upload[u]
      BY <1>12, SignalTypes
    <2> QED
      BY <1>2, <2>1, NoPass
  <1>13. ASSUME NEW t \in Threads, UploadDelete(t) PROVE Capped'
    <2> DEFINE next == Oldest(upload[t].todo)
    <2>1. /\ \A u \in Threads \ {t} : upload'[u] = upload[u]
          /\ upload'[t] = Onward(upload[t], next)
      BY <1>13, DeleteTypes
    <2> HIDE DEF next
    <2>2. DOMAIN upload'[t].todo \subseteq DOMAIN upload[t].todo
      BY <2>1, PassGoesOn DEF Types
    <2> QED
      BY <1>2, <2>1, <2>2
  <1> QED
    BY <1>4, <1>5, <1>6, <1>8, <1>9, <1>10, <1>11, <1>12, <1>13 DEF Next, CaptureWrite, SignalWrite

-----------------------------------------------------------------------------
(***************************************************************************)
(* Answered reports: what a pass has listed is settled with whoever writes *)
(* it, and what it is about to delete is not waited for any more.          *)
(***************************************************************************)

\* The file a pass is at is one that it has listed.
LEMMA OldestListed ==
  ASSUME NEW P, IsPass(P), DOMAIN P.todo # {}
  PROVE  Oldest(P.todo) \in DOMAIN P.todo
  <1> DEFINE td == P.todo
             S == DOMAIN td
             R == {p \in S \X S : ComparePending(td, p[1], p[2])}
  <1>1. S \subseteq FileNames /\ IsFiniteSet(S) /\ S # {} /\ \A n \in S : td[n] \in Int
    BY DEF IsPass
  <1> HIDE DEF td
  <1>2. /\ \A m, n \in S : <<m, n>> \in R <=> ComparePending(td, m, n)
        /\ \A l, m, n \in S : <<l, m>> \in R /\ <<m, n>> \in R => <<l, n>> \in R
        /\ \A m, n \in S : m # n => <<m, n>> \in R \/ <<n, m>> \in R
    BY <1>1, NamesOrdered
  <1> HIDE DEF R
  <1>3. PICK x \in S : \A y \in S \ {x} : <<x, y>> \in R
    <2> HIDE DEF S
    <2> QED
      BY <1>1, <1>2, FirstOfFinite
  <1>4. \E n \in DOMAIN td : \A m \in DOMAIN td \ {n} : ComparePending(td, n, m)
    BY <1>2, <1>3
  <1>5. Oldest(td) \in DOMAIN td
    BY <1>4 DEF Oldest
  <1> QED
    BY <1>5 DEF td

\* A capture: it writes under a name that no pass has listed, and its report
\* was not answered for.
LEMMA SettledWriter ==
  ASSUME Types, MadeInOrder, WritersOwn(writing, fate), Clean, Settled, NEW t \in Threads,
         CaptureStart(t) \/ CaptureOpen(t) \/ WriteOut(t), ~reused'
  PROVE  Settled'
  <1>1. CASE CaptureStart(t)
    <2> DEFINE k == Made + 1
    <2>1. PICK name \in FileNames :
            /\ Made + 1 \in Reports /\ fate[Made + 1] = "none"
            /\ GiveName(name)
            /\ writing' = [writing EXCEPT ![t] = [stage |-> "named", report |-> Made + 1, name |-> name]]
            /\ [stage |-> "named", report |-> Made + 1, name |-> name] \in Writer
            /\ fate' = [fate EXCEPT ![Made + 1] = "writing"]
      BY <1>1, CaptureTypes
    <2> DEFINE w == [stage |-> "named", report |-> k, name |-> name]
    <2>2. /\ k \in Reports /\ fate[k] = "none" /\ writing' = [writing EXCEPT ![t] = w] /\ w.name = name
          /\ fate' = [fate EXCEPT ![k] = "writing"]
      BY <2>1
    <2>3. names' = names \cup {name} /\ name \notin names
      BY <2>1 DEF GiveName
    <2> HIDE DEF k, w
    <2>4. /\ writing'[t] = w /\ \A u \in Threads \ {t} : writing'[u] = writing[u]
          /\ fate'[k] = "writing" /\ \A r \in Reports \ {k} : fate'[r] = fate[r]
      BY <2>2 DEF Types
    <2>5. UNCHANGED <<files, upload, cutShort>>
      BY <1>1 DEF CaptureStart
    <2>6. \A n \in DOMAIN files : files[n].report \in Reports
      BY DEF Types, File
    <2>7. Listed(upload', writing', names')
      BY <2>2, <2>3, <2>4, <2>5 DEF Settled, Listed
    <2>8. DeletesWell(upload', files', fate', writing', names')
      <3> SUFFICES ASSUME NEW u \in Threads, upload[u].delete # "no"
                   PROVE  DeleteWell(Oldest(upload[u].todo), upload[u].delete, files, fate', writing', names')
        BY <2>5 DEF DeletesWell
      <3>1. DeleteWell(Oldest(upload[u].todo), upload[u].delete, files, fate, writing, names)
        BY DEF Settled, DeletesWell
      <3>2. \A r \in Reports : fate'[r] = "stored" => fate[r] = "stored"
        BY <2>4
      <3> QED
        BY <2>2, <2>3, <2>4, <2>6, <3>1, <3>2 DEF DeleteWell
    <2>9. AnsweredWell(files', fate', upload', cutShort')
      <3>1. \A r \in Reports : fate'[r] \in {Delivered, Rejected} => fate[r] \in {Delivered, Rejected}
        BY <2>4 DEF Delivered, Rejected
      <3> QED
        BY <2>5, <2>6, <3>1 DEF Settled, AnsweredWell
    <2> QED
      BY <2>7, <2>8, <2>9 DEF Settled
  <1>2. CASE CaptureOpen(t)
    <2> DEFINE w == writing[t]
               v == [w EXCEPT !.stage = "opened"]
               file == [report |-> w.report, state |-> "partial", mtime |-> clock]
    <2>1. w \in Writer /\ w # NoWrite /\ w.stage = "named"
      BY <1>2 DEF CaptureOpen, Types, NoWrite
    <2>2. /\ files' = With(files, w.name, file) /\ writing' = [writing EXCEPT ![t] = v]
          /\ UNCHANGED <<upload, fate, names, cutShort>>
      BY <1>2 DEF CaptureOpen, historyVars
    <2>3. v.stage = "opened" /\ v.name = w.name /\ v # NoWrite /\ file.report = w.report
      BY <2>1 DEF Writer, NoWrite
    <2>4. fate[w.report] = "writing" /\ writing[t] = w
      BY <2>1 DEF WritersOwn
    <2> HIDE DEF w, v, file
    <2>5. /\ DOMAIN files' = DOMAIN files \cup {w.name} /\ files'[w.name] = file
          /\ \A n \in DOMAIN files \ {w.name} : files'[n] = files[n]
      BY <2>2 DEF With
    <2>6. writing'[t] = v /\ \A u \in Threads \ {t} : writing'[u] = writing[u]
      BY <2>2 DEF Types
    <2>7. Listed(upload', writing', names')
      BY <2>2, <2>3, <2>6 DEF Settled, Listed
    <2>8. DeletesWell(upload', files', fate', writing', names')
      <3> SUFFICES ASSUME NEW u \in Threads, upload[u].delete # "no"
                   PROVE  DeleteWell(Oldest(upload[u].todo), upload[u].delete, files', fate, writing', names)
        BY <2>2 DEF DeletesWell
      <3> DEFINE x == Oldest(upload[u].todo)
                 why == upload[u].delete
      <3>1. DeleteWell(x, why, files, fate, writing, names)
        BY DEF Settled, DeletesWell
      <3> HIDE DEF x, why
      <3>2. x # w.name
        BY <2>1, <2>4, <3>1 DEF DeleteWell
      <3>3. DeleteWell(x, why, files', fate, writing', names)
        BY <2>3, <2>5, <2>6, <3>1, <3>2 DEF DeleteWell
      <3> QED
        BY <3>3 DEF x, why
    <2>9. AnsweredWell(files', fate', upload', cutShort')
      BY <2>2, <2>3, <2>4, <2>5 DEF Settled, AnsweredWell, Delivered, Rejected
    <2> QED
      BY <2>7, <2>8, <2>9 DEF Settled
  <1>3. CASE WriteOut(t)
    <2> DEFINE w == writing[t]
               mine == [report |-> w.report, state |-> "whole", mtime |-> clock]
    <2>1. w \in Writer /\ w # NoWrite /\ w.stage = "opened"
      BY <1>3 DEF WriteOut, Types, NoWrite
    <2>2. w.name \in DOMAIN files /\ files[w.name].report = w.report /\ files[w.name].state = "partial"
      BY <2>1 DEF Clean, WritersWell, WriterWell
    <2>3. files' = [files EXCEPT ![w.name] = mine]
      BY <1>3, <2>2 DEF WriteOut
    <2>4. /\ fate' = [fate EXCEPT ![w.report] = "stored"] /\ writing' = [writing EXCEPT ![t] = NoWrite]
          /\ UNCHANGED <<upload, names, cutShort>>
      BY <1>3 DEF WriteOut
    <2>5. mine.report = w.report /\ w.report \in Reports /\ writing[t] = w
      BY <2>1 DEF Writer
    <2> HIDE DEF w, mine
    <2>6. /\ DOMAIN files' = DOMAIN files
          /\ \A n \in DOMAIN files : files'[n].report = files[n].report /\ files[n].report \in Reports
      BY <2>2, <2>3, <2>5 DEF Types, File
    <2>7. /\ writing'[t] = NoWrite /\ \A u \in Threads \ {t} : writing'[u] = writing[u]
          /\ fate'[w.report] = "stored" /\ \A r \in Reports \ {w.report} : fate'[r] = fate[r]
      BY <2>4, <2>5 DEF Types
    <2>8. Listed(upload', writing', names')
      BY <2>4, <2>7 DEF Settled, Listed
    <2>9. DeletesWell(upload', files', fate', writing', names')
      <3> SUFFICES ASSUME NEW u \in Threads, upload[u].delete # "no"
                   PROVE  DeleteWell(Oldest(upload[u].todo), upload[u].delete, files', fate', writing', names)
        BY <2>4 DEF DeletesWell
      <3> DEFINE x == Oldest(upload[u].todo)
                 why == upload[u].delete
      <3>1. DeleteWell(x, why, files, fate, writing, names)
        BY DEF Settled, DeletesWell
      <3> HIDE DEF x, why
      <3>2. x # w.name
        BY <2>1, <2>5, <3>1 DEF DeleteWell
      <3>3. x \in DOMAIN files => files[x].report # w.report
        BY <2>2, <3>2 DEF Clean, FilesWell
      <3>4. DeleteWell(x, why, files', fate', writing', names)
        BY <2>6, <2>7, <3>1, <3>3 DEF DeleteWell
      <3> QED
        BY <3>4 DEF x, why
    <2>10. AnsweredWell(files', fate', upload', cutShort')
      <3>1. \A r \in Reports : fate'[r] \in {Delivered, Rejected} => fate[r] \in {Delivered, Rejected}
        BY <2>7 DEF Delivered, Rejected
      <3> QED
        BY <2>4, <2>6, <3>1 DEF Settled, AnsweredWell
    <2> QED
      BY <2>8, <2>9, <2>10 DEF Settled
  <1> QED
    BY <1>1, <1>2, <1>3

\* A pass begins: what it lists are files, which no capture has yet to create.
LEMMA SettledList ==
  ASSUME Types, Clean, Settled, NEW t \in Threads, NEW stop \in BOOLEAN, ListPending(t, stop),
         upload[t] = NoUpload, UNCHANGED <<writing, names, cutShort>>
  PROVE  Settled'
  <1>1. /\ DOMAIN files' \subseteq DOMAIN files /\ \A n \in DOMAIN files' : files'[n] = files[n]
        /\ \A u \in Threads \ {t} : upload'[u] = upload[u]
        /\ upload'[t].delete = "no" /\ DOMAIN upload'[t].todo = DOMAIN files'
        /\ \A r \in Reports : fate'[r] = fate[r] \/ (fate[r] = "stored" /\ fate'[r] = "evicted")
    BY ListTypes
  <1>2. \A n \in DOMAIN files : files[n].report \in Reports
    BY DEF Types, File
  <1>3. upload[t].delete = "no"
    BY NoPass
  <1>4. Listed(upload', writing', names')
    <2>1. \A n \in DOMAIN files :
            n \in names /\ \A u \in Threads : writing[u] # NoWrite /\ writing[u].stage = "named" => writing[u].name # n
      BY DEF Clean, FilesWell, WritersWell, WriterWell
    <2>2. \A u \in Threads \ {t} : DOMAIN upload'[u].todo = DOMAIN upload[u].todo
      BY <1>1
    <2>3. ASSUME NEW u \in Threads, NEW n \in DOMAIN upload'[u].todo
          PROVE  /\ n \in names
                 /\ \A v \in Threads : writing[v] # NoWrite /\ writing[v].stage = "named" => writing[v].name # n
      <3>1. CASE u = t
        BY <1>1, <2>1, <2>3, <3>1
      <3>2. CASE u # t
        BY <2>2, <2>3, <3>2 DEF Settled, Listed
      <3> QED
        BY <3>1, <3>2
    <2> QED
      BY <2>3 DEF Listed
  <1>5. DeletesWell(upload', files', fate', writing', names')
    <2> SUFFICES ASSUME NEW u \in Threads \ {t}, upload[u].delete # "no"
                 PROVE  DeleteWell(Oldest(upload[u].todo), upload[u].delete, files', fate', writing, names)
      BY <1>1 DEF DeletesWell
    <2>1. DeleteWell(Oldest(upload[u].todo), upload[u].delete, files, fate, writing, names)
      BY DEF Settled, DeletesWell
    <2>2. \A r \in Reports : fate'[r] = "stored" => fate[r] = "stored"
      BY <1>1
    <2> QED
      BY <1>1, <1>2, <2>1, <2>2 DEF DeleteWell
  <1>6. AnsweredWell(files', fate', upload', cutShort')
    <2> SUFFICES ASSUME NEW n \in DOMAIN files', fate'[files'[n].report] \in {Delivered, Rejected}
                 PROVE  \/ files'[n].report \in cutShort
                        \/ \E u \in Threads : upload'[u].delete # "no" /\ Oldest(upload'[u].todo) = n
      BY DEF AnsweredWell
    <2>1. n \in DOMAIN files /\ files'[n] = files[n] /\ fate[files[n].report] \in {Delivered, Rejected}
      BY <1>1, <1>2 DEF Delivered, Rejected
    <2>2. CASE files[n].report \in cutShort
      BY <2>1, <2>2
    <2>3. ASSUME NEW u \in Threads, upload[u].delete # "no", Oldest(upload[u].todo) = n
          PROVE  upload'[u].delete # "no" /\ Oldest(upload'[u].todo) = n
      BY <1>1, <1>3, <2>3
    <2> QED
      BY <2>1, <2>2, <2>3 DEF Settled, AnsweredWell
  <1> QED
    BY <1>4, <1>5, <1>6 DEF Settled

\* A file is read, or could not be: it is one the pass has listed, and no one
\* is writing it.
LEMMA SettledRead ==
  ASSUME Types, Clean, Settled, NEW t \in Threads, UploadRead(t), ~torn'
  PROVE  Settled'
  <1> DEFINE next == Oldest(upload[t].todo)
  <1>1. UNCHANGED <<files, fate, names, writing, cutShort>>
    BY DEF UploadRead, diskVars
  <1>2. /\ \A u \in Threads \ {t} : upload'[u] = upload[u]
        /\ upload'[t].todo = upload[t].todo /\ upload[t].delete = "no"
        /\ torn' = (torn \/ next \in BeingWritten)
        /\ upload'[t].delete \in {"no", "unread"}
    BY ReadTypes
  <1>3. next \in DOMAIN upload[t].todo
    BY OldestListed DEF UploadRead, Types
  <1> HIDE DEF next
  <1>4. next \notin BeingWritten
    BY <1>2, Zenon
  <1>5. DeleteWell(next, "unread", files, fate, writing, names)
    <2>1. next \in names
      BY <1>3 DEF Settled, Listed
    <2>2. ASSUME NEW u \in Threads, writing[u] # NoWrite PROVE writing[u].name # next
      <3>1. writing[u].stage \in {"named", "opened"}
        BY <2>2 DEF Types, Writer
      <3>2. CASE writing[u].stage = "named"
        BY <1>3, <2>2, <3>2 DEF Settled, Listed
      <3>3. CASE writing[u].stage = "opened"
        BY <1>4, <3>3 DEF BeingWritten
      <3> QED
        BY <3>1, <3>2, <3>3
    <2> QED
      BY <2>1, <2>2 DEF DeleteWell
  <1>6. Listed(upload', writing', names')
    <2>1. \A u \in Threads : upload'[u].todo = upload[u].todo
      BY <1>2
    <2> QED
      BY <1>1, <2>1 DEF Settled, Listed
  <1>7. DeletesWell(upload', files', fate', writing', names')
    <2> SUFFICES ASSUME NEW u \in Threads, upload'[u].delete # "no"
                 PROVE  DeleteWell(Oldest(upload'[u].todo), upload'[u].delete, files, fate, writing, names)
      BY <1>1 DEF DeletesWell
    <2>1. CASE u = t
      <3>1. upload'[u].delete = "unread" /\ Oldest(upload'[u].todo) = next
        BY <1>2, <2>1 DEF next
      <3> QED
        BY <1>5, <3>1
    <2>2. CASE u # t
      BY <1>2, <2>2 DEF Settled, DeletesWell
    <2> QED
      BY <2>1, <2>2
  <1>8. AnsweredWell(files', fate', upload', cutShort')
    <2>1. ASSUME NEW u \in Threads, upload[u].delete # "no" PROVE upload'[u] = upload[u]
      BY <1>2, <2>1
    <2> QED
      BY <1>1, <2>1 DEF Settled, AnsweredWell
  <1> QED
    BY <1>6, <1>7, <1>8 DEF Settled

\* The answer arrives: the pass that had read the file is about to delete it.
LEMMA SettledAnswer ==
  ASSUME Types, Clean, Settled, NEW t \in Threads, NEW status \in Statuses, UploadAnswer(t, status)
  PROVE  Settled'
  <1> DEFINE next == Oldest(upload[t].todo)
             outcome == OutcomeForStatus(status)
             p == upload[t].payload[1]
  <1>1. UNCHANGED <<writing, names, cutShort>> /\ upload[t].payload # << >>
    BY DEF UploadAnswer
  <1>2. /\ \A u \in Threads \ {t} : upload'[u] = upload[u]
        /\ p \in File /\ upload[t].delete = "no"
        /\ UNCHANGED files
        /\ Deletes(outcome) => upload'[t].todo = upload[t].todo /\ upload'[t].delete = "answered"
        /\ ~Deletes(outcome) =>
             upload'[t] = IF StopsPass(outcome, upload[t].stop) THEN NoUpload ELSE Onward(upload[t], next)
        /\ \A r \in Reports : fate'[r] = fate[r] \/ (fate[r] = "stored" /\ fate'[r] \in {Delivered, Rejected})
        /\ \A r \in Reports : fate'[r] # fate[r] => r = p.report /\ p.state = "whole"
        /\ outcome # Failed /\ p.state = "whole" => fate'[p.report] # "stored"
    BY AnswerTypes
  <1>3. fate' # fate => Deletes(outcome)
    BY DEF UploadAnswer, Deletes
  <1>4. ReadWell(next, p, files, fate, writing, names)
    BY <1>1 DEF Clean, PassesWell
  <1>5. Deletes(outcome) => Oldest(upload'[t].todo) = next
    BY <1>2
  <1>6. IsPass(upload[t])
    BY DEF Types
  <1> HIDE DEF next, outcome, p
  <1>7. /\ ~Deletes(outcome) => upload'[t].delete = "no"
        /\ DOMAIN upload'[t].todo \subseteq DOMAIN upload[t].todo
    BY <1>2, <1>6, PassGoesOn, NoPass
  <1>8. \A n \in DOMAIN files : files[n].report \in Reports
    BY DEF Types, File
  <1>9. \A r \in Reports : fate'[r] = "stored" => fate[r] = "stored"
    BY <1>2 DEF Delivered, Rejected
  <1>10. Listed(upload', writing', names')
    <2>1. \A u \in Threads : DOMAIN upload'[u].todo \subseteq DOMAIN upload[u].todo
      BY <1>2, <1>7
    <2> QED
      BY <1>1, <2>1 DEF Settled, Listed
  <1>11. Deletes(outcome) => DeleteWell(next, "answered", files, fate', writing, names)
    <2> SUFFICES ASSUME outcome # Failed, next \in DOMAIN files
                 PROVE  fate'[files[next].report] # "stored"
      BY <1>4 DEF ReadWell, DeleteWell, Deletes
    <2>1. files[next] = p
      BY <1>4 DEF ReadWell
    <2>2. CASE p.state = "whole"
      BY <1>2, <2>1, <2>2
    <2>3. CASE p.state # "whole"
      <3>1. fate[p.report] \in {"writing", "lost"}
        BY <2>1, <2>3 DEF Clean, FilesWell
      <3> QED
        BY <1>8, <1>9, <2>1, <3>1
    <2> QED
      BY <2>2, <2>3
  <1>12. DeletesWell(upload', files', fate', writing', names')
    <2> SUFFICES ASSUME NEW u \in Threads, upload'[u].delete # "no"
                 PROVE  DeleteWell(Oldest(upload'[u].todo), upload'[u].delete, files, fate', writing, names)
      BY <1>1, <1>2 DEF DeletesWell
    <2>1. CASE u = t
      BY <1>2, <1>5, <1>7, <1>11, <2>1
    <2>2. CASE u # t
      <3>1. DeleteWell(Oldest(upload'[u].todo), upload'[u].delete, files, fate, writing, names)
        BY <1>2, <2>2 DEF Settled, DeletesWell
      <3> QED
        BY <1>8, <1>9, <3>1 DEF DeleteWell
    <2> QED
      BY <2>1, <2>2
  <1>13. AnsweredWell(files', fate', upload', cutShort')
    <2> SUFFICES ASSUME NEW n \in DOMAIN files, fate'[files[n].report] \in {Delivered, Rejected}
                 PROVE  \/ files[n].report \in cutShort
                        \/ \E u \in Threads : upload'[u].delete # "no" /\ Oldest(upload'[u].todo) = n
      BY <1>1, <1>2 DEF AnsweredWell
    <2>1. CASE fate'[files[n].report] = fate[files[n].report]
      <3>1. ASSUME NEW u \in Threads, upload[u].delete # "no" PROVE upload'[u] = upload[u]
        BY <1>2, <3>1
      <3> QED
        BY <2>1, <3>1 DEF Settled, AnsweredWell
    <2>2. CASE fate'[files[n].report] # fate[files[n].report]
      <3>1. files[n].report = p.report
        BY <1>2, <1>8, <2>2
      <3>2. n = next
        BY <1>4, <3>1 DEF ReadWell
      <3>3. Deletes(outcome)
        BY <1>3, <2>2
      <3> QED
        BY <1>2, <1>5, <3>2, <3>3
    <2> QED
      BY <2>1, <2>2
  <1> QED
    BY <1>10, <1>12, <1>13 DEF Settled

\* The file goes, and the pass goes on.
LEMMA SettledDelete ==
  ASSUME Types, Clean, Settled, NEW t \in Threads, UploadDelete(t)
  PROVE  Settled'
  <1> DEFINE next == Oldest(upload[t].todo)
  <1>1. UNCHANGED <<writing, names, cutShort>>
    BY DEF UploadDelete
  <1>2. /\ \A u \in Threads \ {t} : upload'[u] = upload[u]
        /\ upload'[t] = Onward(upload[t], next)
        /\ DOMAIN files' = DOMAIN files \ {next}
        /\ \A n \in DOMAIN files' : files'[n] = files[n]
        /\ \A r \in Reports : fate'[r] = fate[r] \/ (fate[r] = "stored" /\ fate'[r] = "unreadable")
    BY DeleteTypes
  <1>3. IsPass(upload[t])
    BY DEF Types
  <1>4. \A u \in Threads : Oldest(upload[u].todo) # next => u # t
    OBVIOUS
  <1> HIDE DEF next
  <1>5. upload'[t].delete = "no" /\ DOMAIN upload'[t].todo \subseteq DOMAIN upload[t].todo
    BY <1>2, <1>3, PassGoesOn
  <1>6. \A n \in DOMAIN files : files[n].report \in Reports
    BY DEF Types, File
  <1>7. \A r \in Reports : /\ fate'[r] = "stored" => fate[r] = "stored"
                           /\ fate'[r] \in {Delivered, Rejected} => fate[r] \in {Delivered, Rejected}
    BY <1>2 DEF Delivered, Rejected
  <1>8. Listed(upload', writing', names')
    <2>1. \A u \in Threads : DOMAIN upload'[u].todo \subseteq DOMAIN upload[u].todo
      BY <1>2, <1>5
    <2> QED
      BY <1>1, <2>1 DEF Settled, Listed
  <1>9. DeletesWell(upload', files', fate', writing', names')
    <2> SUFFICES ASSUME NEW u \in Threads \ {t}, upload[u].delete # "no"
                 PROVE  DeleteWell(Oldest(upload[u].todo), upload[u].delete, files', fate', writing, names)
      BY <1>1, <1>2, <1>5 DEF DeletesWell
    <2>1. DeleteWell(Oldest(upload[u].todo), upload[u].delete, files, fate, writing, names)
      BY DEF Settled, DeletesWell
    <2> QED
      BY <1>2, <1>6, <1>7, <2>1 DEF DeleteWell
  <1>10. AnsweredWell(files', fate', upload', cutShort')
    <2> SUFFICES ASSUME NEW n \in DOMAIN files', fate'[files'[n].report] \in {Delivered, Rejected}
                 PROVE  \/ files'[n].report \in cutShort
                        \/ \E u \in Threads : upload'[u].delete # "no" /\ Oldest(upload'[u].todo) = n
      BY <1>1 DEF AnsweredWell
    <2>1. n \in DOMAIN files /\ n # next /\ files'[n] = files[n] /\ fate[files[n].report] \in {Delivered, Rejected}
      BY <1>2, <1>6, <1>7
    <2>2. CASE files[n].report \in cutShort
      BY <2>1, <2>2
    <2>3. ASSUME NEW u \in Threads, upload[u].delete # "no", Oldest(upload[u].todo) = n
          PROVE  upload'[u].delete # "no" /\ Oldest(upload'[u].todo) = n
      BY <1>2, <1>4, <2>1, <2>3
    <2> QED
      BY <2>1, <2>2, <2>3 DEF Settled, AnsweredWell
  <1> QED
    BY <1>8, <1>9, <1>10 DEF Settled

\* A fatal signal: its file has a new name, and what its thread's pass was
\* about to delete is marked.
LEMMA SettledSignal ==
  ASSUME Types, MadeInOrder, WritersOwn(writing, fate), Clean, Settled,
         NEW t \in Threads, NEW s \in Signals, FatalSignal(t, s), ~reused'
  PROVE  Settled'
  <1> DEFINE k == Made + 1
  <1>1. /\ k \in Reports /\ fate[k] = "none"
        /\ upload'[t] = NoUpload /\ \A u \in Threads \ {t} : upload'[u] = upload[u]
        /\ \A u \in Threads \ {t} : writing'[u] = writing[u]
        /\ \A r \in Reports \ {k} :
             fate'[r] = IF writing[t] # NoWrite /\ r = writing[t].report THEN "lost" ELSE fate[r]
        /\ \/ \E name \in FileNames, file \in File :
                /\ file.report = k /\ file.state = "partial"
                /\ GiveName(name) /\ files' = With(files, name, file)
                /\ writing'[t] = [stage |-> "opened", report |-> k, name |-> name]
                /\ writing'[t] # NoWrite /\ writing'[t].report = k /\ writing'[t].name = name
                /\ fate'[k] = "writing"
           \/ fate'[k] = "lost" /\ writing'[t] = NoWrite /\ UNCHANGED <<files, names, reused>>
    BY SignalTypes
  <1>2. cutShort' = cutShort \cup BeingDeleted({t})
    BY DEF FatalSignal
  <1> HIDE DEF k
  <1>3. upload'[t].delete = "no" /\ DOMAIN upload'[t].todo = {}
    BY <1>1, NoPass
  <1>4. \A n \in DOMAIN files : files[n].report \in Reports \ {k}
    BY <1>1 DEF Clean, FilesWell, Types, File, Kept, Delivered, Rejected
  <1>5. \A r \in Reports : /\ fate'[r] = "stored" => fate[r] = "stored"
                           /\ fate'[r] \in {Delivered, Rejected} => fate[r] \in {Delivered, Rejected}
    BY <1>1 DEF Delivered, Rejected
  <1>6. ASSUME NEW n \in DOMAIN files, fate'[files[n].report] \in {Delivered, Rejected}
        PROVE  \/ files[n].report \in cutShort'
               \/ \E u \in Threads : upload'[u].delete # "no" /\ Oldest(upload'[u].todo) = n
    <2>1. fate[files[n].report] \in {Delivered, Rejected} /\ files[n].report \in Reports
      BY <1>4, <1>5, <1>6
    <2>2. CASE files[n].report \in cutShort
      BY <1>2, <2>2
    <2>3. ASSUME NEW u \in Threads, upload[u].delete # "no", Oldest(upload[u].todo) = n
          PROVE  files[n].report \in cutShort' \/ (upload'[u].delete # "no" /\ Oldest(upload'[u].todo) = n)
      <3>1. CASE u = t
        <4>1. files[n].report \in BeingDeleted({t})
          BY <2>1, <2>3, <3>1 DEF BeingDeleted
        <4> QED
          BY <1>2, <4>1
      <3>2. CASE u # t
        BY <1>1, <2>3, <3>2
      <3> QED
        BY <3>1, <3>2
    <2> QED
      BY <2>1, <2>2, <2>3 DEF Settled, AnsweredWell
  <1>7. CASE fate'[k] = "lost" /\ writing'[t] = NoWrite /\ UNCHANGED <<files, names, reused>>
    <2>1. Listed(upload', writing', names')
      BY <1>1, <1>3, <1>7 DEF Settled, Listed
    <2>2. DeletesWell(upload', files', fate', writing', names')
      <3> SUFFICES ASSUME NEW u \in Threads \ {t}, upload[u].delete # "no"
                   PROVE  DeleteWell(Oldest(upload[u].todo), upload[u].delete, files, fate', writing', names)
        BY <1>1, <1>3, <1>7 DEF DeletesWell
      <3>1. DeleteWell(Oldest(upload[u].todo), upload[u].delete, files, fate, writing, names)
        BY DEF Settled, DeletesWell
      <3> QED
        BY <1>1, <1>4, <1>5, <1>7, <3>1 DEF DeleteWell
    <2>3. AnsweredWell(files', fate', upload', cutShort')
      BY <1>6, <1>7 DEF AnsweredWell
    <2> QED
      BY <2>1, <2>2, <2>3 DEF Settled
  <1>8. ASSUME NEW name \in FileNames, NEW file \in File,
               file.report = k, GiveName(name), files' = With(files, name, file),
               writing'[t] = [stage |-> "opened", report |-> k, name |-> name],
               fate'[k] = "writing"
        PROVE  Settled'
    <2> DEFINE w == [stage |-> "opened", report |-> k, name |-> name]
    <2>1. w.stage = "opened" /\ w.name = name /\ writing'[t] = w
      BY <1>8
    <2> HIDE DEF w
    <2>2. names' = names \cup {name} /\ name \notin names
      BY <1>8 DEF GiveName
    <2>3. name \notin DOMAIN files
      BY <2>2 DEF Clean, FilesWell
    <2>4. /\ DOMAIN files' = DOMAIN files \cup {name} /\ files'[name] = file
          /\ \A n \in DOMAIN files : files'[n] = files[n]
      BY <1>8, <2>3 DEF With
    <2>5. Listed(upload', writing', names')
      <3>1. \A u \in Threads : DOMAIN upload'[u].todo \subseteq DOMAIN upload[u].todo
        BY <1>1, <1>3
      <3>2. \A u \in Threads : writing'[u] # NoWrite /\ writing'[u].stage = "named" => writing'[u] = writing[u]
        BY <1>1, <2>1
      <3> QED
        BY <2>2, <3>1, <3>2 DEF Settled, Listed
    <2>6. DeletesWell(upload', files', fate', writing', names')
      <3> SUFFICES ASSUME NEW u \in Threads \ {t}, upload[u].delete # "no"
                   PROVE  DeleteWell(Oldest(upload[u].todo), upload[u].delete, files', fate', writing', names')
        BY <1>1, <1>3 DEF DeletesWell
      <3> DEFINE x == Oldest(upload[u].todo)
                 why == upload[u].delete
      <3>1. DeleteWell(x, why, files, fate, writing, names)
        BY DEF Settled, DeletesWell
      <3> HIDE DEF x, why
      <3>2. x \in names' /\ \A v \in Threads : writing'[v] # NoWrite => writing'[v].name # x
        BY <1>1, <2>1, <2>2, <3>1 DEF DeleteWell
      <3>3. why = "answered" /\ x \in DOMAIN files' => fate'[files'[x].report] # "stored"
        BY <1>4, <1>5, <1>8, <2>4, <3>1 DEF DeleteWell
      <3>4. DeleteWell(x, why, files', fate', writing', names')
        BY <3>2, <3>3 DEF DeleteWell
      <3> QED
        BY <3>4 DEF x, why
    <2>7. AnsweredWell(files', fate', upload', cutShort')
      <3>1. ASSUME NEW n \in DOMAIN files', fate'[files'[n].report] \in {Delivered, Rejected}
            PROVE  n \in DOMAIN files /\ files'[n] = files[n]
        BY <1>8, <2>4, <3>1 DEF Delivered, Rejected
      <3> QED
        BY <1>6, <3>1 DEF AnsweredWell
    <2> QED
      BY <2>5, <2>6, <2>7 DEF Settled
  <1> QED
    BY <1>1, <1>7, <1>8

\* Every thread dies: what a pass was about to delete is marked.
LEMMA SettledDeath ==
  ASSUME Types, Settled, ThreadsDie, UNCHANGED <<files, names>>
  PROVE  Settled'
  <1>1. /\ \A t \in Threads : writing'[t] = NoWrite /\ upload'[t] = NoUpload
        /\ cutShort' = cutShort \cup BeingDeleted(Threads)
        /\ \A r \in Reports : fate'[r] = IF fate[r] = "writing" THEN "lost" ELSE fate[r]
    BY DeathTypes
  <1>2. Listed(upload', writing', names') /\ DeletesWell(upload', files', fate', writing', names')
    BY <1>1, NoPass DEF Listed, DeletesWell
  <1>3. AnsweredWell(files', fate', upload', cutShort')
    <2> SUFFICES ASSUME NEW n \in DOMAIN files, fate'[files[n].report] \in {Delivered, Rejected}
                 PROVE  files[n].report \in cutShort'
      BY DEF AnsweredWell
    <2>1. files[n].report \in Reports
      BY DEF Types, File
    <2>2. fate[files[n].report] \in {Delivered, Rejected}
      BY <1>1, <2>1 DEF Delivered, Rejected
    <2>3. CASE files[n].report \in cutShort
      BY <1>1, <2>3
    <2>4. ASSUME NEW u \in Threads, upload[u].delete # "no", Oldest(upload[u].todo) = n
          PROVE  files[n].report \in BeingDeleted(Threads)
      BY <2>1, <2>4 DEF BeingDeleted
    <2> QED
      BY <1>1, <2>2, <2>3, <2>4 DEF Settled, AnsweredWell
  <1> QED
    BY <1>2, <1>3 DEF Settled

\* For all steps.
LEMMA SettledStep ==
  ASSUME Types, MadeInOrder, WritersOwn(writing, fate), ExitState, Clean, Settled, [Next]_vars,
         ~reused', ~torn'
  PROVE  Settled'
  <1>1. CASE UNCHANGED <<files, fate, names, writing, upload, cutShort>>
    BY <1>1 DEF Settled, DeletesWell, Listed
  <1>2. ASSUME NEW t \in Threads, CaptureStart(t) \/ CaptureOpen(t) \/ WriteOut(t) PROVE Settled'
    BY <1>2, SettledWriter
  <1>3. ASSUME NEW t \in Threads, UploadPending(t) \/ InstallHandlers(t) PROVE Settled'
    <2>1. upload[t] = NoUpload /\ UNCHANGED <<writing, names, cutShort>>
      BY <1>3 DEF UploadPending, InstallHandlers, Free
    <2>2. ListPending(t, FALSE) \/ UNCHANGED <<files, upload, fate, torn>>
      BY <1>3 DEF UploadPending, InstallHandlers
    <2> QED
      BY <1>1, <2>1, <2>2, SettledList
  <1>4. ASSUME NEW t \in Threads, UploadRead(t) PROVE Settled'
    BY <1>4, SettledRead
  <1>5. ASSUME NEW t \in Threads, NEW status \in Statuses, UploadAnswer(t, status) PROVE Settled'
    BY <1>5, SettledAnswer
  <1>6. ASSUME NEW t \in Threads, UploadDelete(t) PROVE Settled'
    BY <1>6, SettledDelete
  <1>7. ASSUME NEW t \in Threads, NEW s \in Signals, FatalSignal(t, s) PROVE Settled'
    BY <1>7, SettledSignal
  <1>8. CASE Killed \/ ProcessEnd \/ \E t \in Threads : Raise(t)
    <2>1. ThreadsDie /\ UNCHANGED <<files, names>>
      BY <1>8 DEF Killed, ProcessEnd, Raise, diskVars
    <2> QED
      BY <2>1, SettledDeath
  <1>9. CASE ExitUpload
    <2>1. exiter \in Threads /\ upload[exiter] = NoUpload /\ UNCHANGED <<writing, names, cutShort>>
      BY <1>9 DEF ExitUpload, ExitState
    <2>2. ListPending(exiter, TRUE) \/ UNCHANGED <<files, upload, fate, torn>>
      BY <1>9 DEF ExitUpload
    <2> QED
      BY <1>1, <2>1, <2>2, SettledList
  <1>10. ASSUME NEW t \in Threads, Exit(t) PROVE Settled'
    BY <1>1, <1>10 DEF Exit, diskVars
  <1>11. CASE Tick \/ Restart \/ Terminated \/ UNCHANGED vars
    BY <1>1, <1>11 DEF Tick, Restart, Terminated, vars, diskVars, historyVars
  <1> QED
    BY <1>2, <1>3, <1>4, <1>5, <1>6, <1>7, <1>8, <1>9, <1>10, <1>11 DEF Next, CaptureWrite, SignalWrite

-----------------------------------------------------------------------------
LEMMA InitHolds ==
  ASSUME Init
  PROVE  IndInv
  <1> USE CrashStoreAssumption
  <1>1. DOMAIN files = {} /\ IsFiniteSet(DOMAIN files) /\ \A t \in Threads : IsPass(upload[t])
    <2>1. files = << >> /\ \A t \in Threads : upload[t] = NoUpload
      BY DEF Init
    <2>2. DOMAIN files = {}
      BY <2>1
    <2> QED
      BY <2>1, <2>2, NoPass, FS_EmptySet
  <1>2. \A t \in Threads : writing[t] = NoWrite /\ upload[t] = NoUpload
    BY DEF Init
  <1>3. fate \in [Reports -> Fates] /\ \A r \in Reports : fate[r] = "none"
    <2>1. "none" \in Fates
      BY DEF Fates
    <2> QED
      BY <2>1 DEF Init
  <1>4. /\ directory \in {"nothing", "parent", "directory"} /\ phase = "running" /\ hook = "none"
        /\ exiter = NoThread /\ names = {} /\ exitMark = {} /\ handling = {} /\ cutShort = {}
    BY DEF Init
  <1>5. clock \in 1..MaxTime /\ runs \in 1..MaxRuns /\ exitFailures = 0 /\ counter = 0
    BY DEF Init
  <1>6. installed \in BOOLEAN /\ reused \in BOOLEAN /\ torn \in BOOLEAN
    BY DEF Init
  <1>7. DOMAIN upload = Threads /\ writing \in [Threads -> Writer \cup {NoWrite}]
    BY DEF Init
  <1>8. Types
    BY <1>1, <1>3, <1>4, <1>5, <1>6, <1>7 DEF Types
  <1>9. MadeInOrder
    <2>1. \A r \in Reports : fate[r] # "none" <=> r <= 0
      BY <1>3 DEF Reports
    <2>2. Made = 0
      BY <2>1, MadeIs DEF Made
    <2> QED
      BY <1>5, <2>1, <2>2 DEF MadeInOrder
  <1>10. Capped
    <2>1. Cardinality({}) = 0 /\ 0 <= MaxPending
      BY FS_EmptySet
    <2>2. \A t \in Threads : DOMAIN upload[t].todo = {}
      BY <1>2, NoPass
    <2> QED
      BY <2>1, <2>2 DEF Capped
  <1>11. ExitState
    BY <1>2, <1>4, <1>5 DEF ExitState, Alive
  <1>12. WritersOwn(writing, fate) /\ HasWriter(writing, fate) /\ Marked(exitMark, fate)
    BY <1>2, <1>3, <1>4 DEF WritersOwn, HasWriter, Marked
  <1>13. Clean
    <2>1. FilesWell(files, fate, names)
      BY <1>1, <1>3 DEF FilesWell
    <2>2. WritersWell(writing, files, names) /\ PassesWell(upload, files, fate, writing, names)
      BY <1>2, NoPass DEF WritersWell, PassesWell
    <2>3. ExitListed
      BY <1>4 DEF ExitListed
    <2> QED
      BY <2>1, <2>2, <2>3 DEF Clean
  <1>14. Settled
    <2>1. \A t \in Threads : DOMAIN upload[t].todo = {} /\ upload[t].delete = "no"
      BY <1>2, NoPass
    <2> QED
      BY <1>1, <2>1 DEF Settled, Listed, DeletesWell, AnsweredWell
  <1> QED
    BY <1>8, <1>9, <1>10, <1>11, <1>12, <1>13, <1>14 DEF IndInv

\* No step forgets that a name was reused or a file torn.
LEMMA TaintStays ==
  ASSUME Types, ExitState, [Next]_vars
  PROVE  (reused => reused') /\ (torn => torn')
  <1> DEFINE Goal == (reused => reused') /\ (torn => torn')
  <1>1. ASSUME UNCHANGED <<reused, torn>> PROVE Goal
    BY <1>1
  <1>2. ASSUME NEW name, GiveName(name), UNCHANGED torn PROVE Goal
    BY <1>2 DEF GiveName
  <1>3. ASSUME NEW t \in Threads, NEW stop \in BOOLEAN, ListPending(t, stop), UNCHANGED reused PROVE Goal
    <2>1. PICK P : torn' = (torn \/ P)
      BY <1>3 DEF ListPending
    <2> QED
      BY <1>3, <2>1, Zenon
  <1>4. ASSUME NEW t \in Threads, UploadRead(t) PROVE Goal
    <2>1. UNCHANGED reused
      BY <1>4 DEF UploadRead
    <2>2. torn' = (torn \/ Oldest(upload[t].todo) \in BeingWritten)
      BY <1>4 DEF UploadRead
    <2> QED
      BY <2>1, <2>2, Zenon
  <1> HIDE DEF Goal
  <1>5. ASSUME NEW t \in Threads, CaptureStart(t) PROVE Goal
    BY <1>2, <1>5 DEF CaptureStart
  <1>6. ASSUME NEW t \in Threads, CaptureOpen(t) \/ WriteOut(t) \/ UploadDelete(t) \/ Raise(t) \/ Exit(t)
        PROVE  Goal
    BY <1>1, <1>6 DEF CaptureOpen, WriteOut, UploadDelete, Raise, Exit, historyVars
  <1>7. ASSUME NEW t \in Threads, UploadPending(t) \/ InstallHandlers(t) PROVE Goal
    BY <1>1, <1>3, <1>7 DEF UploadPending, InstallHandlers
  <1>8. ASSUME NEW t \in Threads, NEW status \in Statuses, UploadAnswer(t, status) PROVE Goal
    BY <1>1, <1>8 DEF UploadAnswer
  <1>9. ASSUME NEW t \in Threads, NEW s \in Signals, FatalSignal(t, s) PROVE Goal
    BY <1>1, <1>2, <1>9 DEF FatalSignal
  <1>10. CASE ExitUpload
    <2>1. UNCHANGED reused /\ exiter \in Threads /\ (ListPending(exiter, TRUE) \/ UNCHANGED torn)
      BY <1>10 DEF ExitUpload, ExitState
    <2>2. CASE ListPending(exiter, TRUE)
      <3>1. PICK P : torn' = (torn \/ P)
        BY <2>2 DEF ListPending
      <3> QED
        BY <2>1, <3>1, Zenon DEF Goal
    <2>3. CASE UNCHANGED torn
      BY <1>1, <2>1, <2>3
    <2> QED
      BY <2>1, <2>2, <2>3
  <1>11. CASE Tick \/ Killed \/ ProcessEnd \/ Restart \/ Terminated \/ UNCHANGED vars
    BY <1>1, <1>11 DEF Tick, Killed, ProcessEnd, Restart, Terminated, vars, historyVars
  <1> QED
    BY <1>4, <1>5, <1>6, <1>7, <1>8, <1>9, <1>10, <1>11 DEF Next, CaptureWrite, SignalWrite, Goal

LEMMA StepHolds ==
  ASSUME IndInv, [Next]_vars
  PROVE  IndInv'
  <1>1. /\ Types /\ MadeInOrder /\ Capped /\ ExitState
        /\ WritersOwn(writing, fate) /\ HasWriter(writing, fate) /\ Marked(exitMark, fate)
        /\ ~reused /\ ~torn => Clean /\ Settled
    BY DEF IndInv
  <1>2. Types' /\ MadeInOrder' /\ Capped' /\ ExitState'
    BY <1>1, TypesStep, MadeStep, CapStep, ExitStep
  <1>3. WritersOwn(writing', fate') /\ HasWriter(writing', fate') /\ Marked(exitMark', fate')
    BY <1>1, OwnStep, WriterStep
  <1>4. ~reused' /\ ~torn' => Clean' /\ Settled'
    <2> SUFFICES ASSUME ~reused', ~torn' PROVE Clean' /\ Settled'
      OBVIOUS
    <2>1. (reused => reused') /\ (torn => torn')
      BY <1>1, TaintStays
    <2>2. Clean /\ Settled /\ DeletesWell(upload, files, fate, writing, names)
      BY <1>1, <2>1 DEF Settled
    <2> QED
      BY <1>1, <2>2, CleanStep, SettledStep
  <1> QED
    BY <1>2, <1>3, <1>4 DEF IndInv

\* The invariant the other theorems rest on: it holds at the start and every
\* step of a capture, a pass, an exit, a death or a restart keeps it.
THEOREM Inductive == Spec => []IndInv
  <1>1. Init => IndInv
    BY InitHolds
  <1>2. IndInv /\ [Next]_vars => IndInv'
    BY StepHolds
  <1> QED
    BY <1>1, <1>2, PTL DEF Spec

\* Every variable keeps its type, and a pass its bound.
THEOREM TypeCorrect == Spec => []TypeOK
  <1>1. IndInv => TypeOK
    <2> SUFFICES ASSUME IndInv PROVE TypeOK
      OBVIOUS
    <2> USE CrashStoreAssumption
    <2>1. Types /\ MadeInOrder /\ Capped
      BY DEF IndInv
    <2>2. counter \in 0..MaxReports
      BY <2>1 DEF MadeInOrder
    <2>3. \A t \in Threads : writing[t] # NoWrite => writing[t] \in Writer
      BY <2>1 DEF Types
    <2>4. \A t \in Threads : DOMAIN upload[t].todo \subseteq FileNames /\ upload[t].stop \in BOOLEAN
                             /\ upload[t].delete \in {"no", "unread", "answered"}
      BY <2>1 DEF Types, IsPass
    <2>5. \A t \in Threads : Cardinality(DOMAIN upload[t].todo) <= MaxPending
      BY <2>1 DEF Capped
    <2>6. \A t \in Threads : writing[t] # NoWrite => /\ writing[t].stage \in {"named", "opened"}
                                                     /\ writing[t].name \in FileNames
                                                     /\ writing[t].report \in Reports
      BY <2>3 DEF Writer
    <2> QED
      BY <2>1, <2>2, <2>4, <2>5, <2>6 DEF Types, TypeOK, File
  <1> QED
    BY <1>1, Inductive, PTL

\* A stored report is whole on disk until it was answered, evicted, or could
\* not be read, through crashes, kills, restarts and overlapping passes, for any number of threads,
\* reports and runs, unless a name was reused or a file met half-written.
THEOREM StoredSurvives == Spec => []StoredReportsSurvive
  <1>1. IndInv => StoredReportsSurvive
    BY DEF IndInv, Clean, FilesWell, StoredReportsSurvive, OnDisk
  <1> QED
    BY <1>1, Inductive, PTL

\* What the server took or refused and still lies on disk, a pass is about to
\* delete, or a signal, a kill or the end of the process came between the
\* answer and the delete (reporter.c:59-63): a delivered report is sent again
\* for no other reason.
THEOREM AnsweredGo == Spec => []AnsweredReportsGo
  <1>1. IndInv => AnsweredReportsGo
    <2> SUFFICES ASSUME IndInv, ~reused, ~torn, NEW r \in Reports,
                        fate[r] \in {Delivered, Rejected}, OnDisk(r)
                 PROVE  r \in BeingDeleted(Threads) \cup cutShort
      BY DEF AnsweredReportsGo
    <2>1. PICK n \in DOMAIN files : files[n].report = r
      BY DEF OnDisk
    <2>2. \/ r \in cutShort
          \/ \E t \in Threads : upload[t].delete # "no" /\ Oldest(upload[t].todo) = n
      BY <2>1 DEF IndInv, Settled, AnsweredWell
    <2>3. ASSUME NEW t \in Threads, upload[t].delete # "no", Oldest(upload[t].todo) = n
          PROVE  r \in BeingDeleted(Threads)
      BY <2>1, <2>3 DEF BeingDeleted
    <2> QED
      BY <2>2, <2>3
  <1> QED
    BY <1>1, Inductive, PTL

\* A normal exit without a failed delivery leaves nothing of what was stored
\* when exit() was called, whatever other threads upload meanwhile.
THEOREM ExitEmptiesTheStore == Spec => []ExitUploadsEverything
  <1>1. IndInv => ExitUploadsEverything
    BY DEF IndInv, Clean, ExitListed, ExitUploadsEverything
  <1> QED
    BY <1>1, Inductive, PTL

\* An exit waits for one failed delivery at most, and for MaxPending in all.
THEOREM ExitWaitIsBounded == Spec => []ExitWaitsForOneFailure
  <1>1. IndInv => ExitWaitsForOneFailure
    BY DEF IndInv, ExitState, Capped, ExitWaitsForOneFailure
  <1> QED
    BY <1>1, Inductive, PTL
=============================================================================
