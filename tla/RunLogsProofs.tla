---------------------------- MODULE RunLogsProofs ----------------------------
(***************************************************************************)
(* Theorems about RunLogs, for any number of runs and logs of any length:  *)
(* what clear history may delete, and what the window of a run shows.     *)
(***************************************************************************)
EXTENDS RunLogs, TLAPS

Ended == {"over", "dead"}

\* Why a log that clear history lists, having read the status once, belongs to a run that
\* has ended: a run whose log is new holds maintenance.lock until the status names it, the
\* status goes on naming it while it lives, and no run starts before its predecessors ended.
Typed ==
    /\ rpc \in [Runs -> RunPoints]
    /\ clear \in [at: {"idle", "delete"}, candidates: SUBSET Runs]

StartsUnderLease == \A r \in Runs : rpc[r] \in {"opening", "preamble"} => maint = r

LiveIsNamed == \A r \in Runs : rpc[r] = "live" => status = [run |-> r, st |-> "active"]

OneAfterTheOther ==
    \A q, r \in Runs : q < r /\ rpc[r] # "unborn" => rpc[q] \in Ended

LogsExist ==
    /\ full \subseteq Runs
    /\ \A r \in full : rpc[r] # "unborn"

CandidatesEnded == \A r \in clear.candidates : rpc[r] \in Ended

CleanerHolds == clear.at = "delete" => maint = Cleaner

Kept ==
    Typed /\ StartsUnderLease /\ LiveIsNamed /\ OneAfterTheOther /\ LogsExist
        /\ CandidatesEnded /\ CleanerHolds

LEMMA RunsAreOrdered ==
    ASSUME NEW q \in Runs, NEW r \in Runs
    PROVE  q = r \/ q < r \/ r < q
BY LogConstants DEF Runs

\* A run that is somewhere between its start and its end is the only one.
LEMMA Alone ==
    ASSUME Kept, NEW r \in Runs, rpc[r] \notin {"unborn"} \cup Ended, NEW q \in Runs, q # r
    PROVE  rpc[q] \in {"unborn"} \cup Ended
BY RunsAreOrdered DEF Kept, OneAfterTheOther, Ended

\* No run is the cleaner, and neither is nobody.
LEMMA HoldersDiffer ==
    Cleaner # NoRun /\ \A r \in Runs : r # Cleaner /\ r # NoRun
BY LogConstants DEF Cleaner, NoRun, Runs

\* The steps of a run.
LEMMA RunKeeps ==
    ASSUME Kept, NEW r \in Runs, RunStep(r)
    PROVE  Kept'
<1> USE DEF Kept, Typed, RunPoints, Goto, files
<1>c. CleanerHolds'
  BY HoldersDiffer DEF CleanerHolds, StartsUnderLease, RunStep, StartRun, OpenLog, OpenLogFails,
     WriteLog, WriteStarting, Finish, Crash
<1>1. CASE StartRun(r)
  <2>1. rpc' = [rpc EXCEPT ![r] = "opening"] /\ maint' = r /\ maint = NoRun
        /\ UNCHANGED <<status, full, clear>>
    BY <1>1 DEF StartRun
  <2>2. \A q \in Runs : q < r => rpc[q] \in Ended
    BY <1>1, LogConstants DEF StartRun, Runs, Ended
  <2>3. StartsUnderLease'
    BY <2>1, LogConstants DEF StartsUnderLease, NoRun, Runs
  <2>4. OneAfterTheOther'
    BY <1>1, <2>1, <2>2 DEF StartRun, OneAfterTheOther, Ended
  <2> QED
    BY <1>c, <1>1, <2>1, <2>3, <2>4 DEF StartRun, LiveIsNamed, LogsExist, CandidatesEnded, Ended
<1>2. CASE OpenLog(r)
  BY <1>c, <1>2 DEF OpenLog, StartsUnderLease, LiveIsNamed, OneAfterTheOther, LogsExist,
     CandidatesEnded, Ended
<1>3. CASE OpenLogFails(r)
  <2>1. \A q \in Runs : q # r => rpc[q] # "live" /\ rpc[q] \notin {"opening", "preamble"}
    BY <1>3, Alone DEF OpenLogFails, Ended
  <2> QED
    BY <1>c, <1>3, <2>1 DEF OpenLogFails, StartsUnderLease, LiveIsNamed, OneAfterTheOther, LogsExist,
       CandidatesEnded, Ended
<1>4. CASE WriteLog(r)
  BY <1>c, <1>4 DEF WriteLog, StartsUnderLease, LiveIsNamed, OneAfterTheOther, LogsExist,
     CandidatesEnded, Ended
<1>5. CASE WriteStarting(r)
  <2>1. \A q \in Runs : q # r => rpc[q] # "live" /\ rpc[q] \notin {"opening", "preamble"}
    BY <1>5, Alone DEF WriteStarting, Ended
  <2> QED
    BY <1>c, <1>5, <2>1 DEF WriteStarting, StartsUnderLease, LiveIsNamed, OneAfterTheOther, LogsExist,
       CandidatesEnded, Ended
<1>6. CASE Finish(r)
  <2>1. \A q \in Runs : q # r => rpc[q] # "live"
    BY <1>6, Alone DEF Finish, Ended
  <2> QED
    BY <1>c, <1>6, <2>1 DEF Finish, StartsUnderLease, LiveIsNamed, OneAfterTheOther, LogsExist,
       CandidatesEnded, Ended
<1>7. CASE Crash(r)
  <2>1. \A q \in Runs : q # r => rpc[q] \notin {"opening", "preamble"}
    BY <1>7, Alone DEF Crash, Ended
  <2> QED
    BY <1>c, <1>7, <2>1 DEF Crash, StartsUnderLease, LiveIsNamed, OneAfterTheOther, LogsExist,
       CandidatesEnded, Ended
<1> QED
  BY <1>1, <1>2, <1>3, <1>4, <1>5, <1>6, <1>7 DEF RunStep

\* The steps of the window touch neither logs nor runs; a poll may reconcile, but not the
\* status of a live run.
LEMMA WindowKeeps ==
    ASSUME Kept, Snapshot \/ ClearVisibleLogs \/ \E r \in Runs : BeginRun(r)
    PROVE  Kept' /\ full' = full
<1> USE DEF Kept, Typed, StartsUnderLease, LiveIsNamed, OneAfterTheOther, LogsExist,
        CandidatesEnded, CleanerHolds, files
<1>1. CASE Poll
  <2>1. \A r \in Runs : rpc[r] = "live" => Reconciled = status
    BY DEF Reconciled, IsActive
  <2> QED
    BY <1>1, <2>1 DEF Poll
<1>2. CASE ~Poll
  <2>1. UNCHANGED <<files, rpc, maint, clear>>
    BY <1>2 DEF Snapshot, ReadBefore, LatestMissing, OpenLatest, AlignTail, ReadChunk, ReadAfter,
       ApplySnapshot, ClearVisibleLogs, BeginRun
  <2> QED
    BY <2>1
<1> QED
  BY <1>1, <1>2

\* Clear history lists a log only when its run has ended.
LEMMA ClearKeeps ==
    ASSUME Kept, ClearStep
    PROVE  Kept' /\ \A r \in full \ full' : rpc[r] \in Ended
<1> USE DEF Kept, Typed, RunPoints, OneAfterTheOther, files
<1>1. CASE ClearBegin
  <2>1. \A r \in Runs : rpc[r] \notin {"opening", "preamble"}
    BY <1>1, LogConstants DEF ClearBegin, StartsUnderLease, NoRun, Runs
  <2>2. clear'.candidates \subseteq full /\ \A r \in clear'.candidates : rpc[r] \in Ended
    BY <1>1, <2>1 DEF ClearBegin, LogsExist, LiveIsNamed, IsActive, Ended
  <2>3. clear' \in [at: {"idle", "delete"}, candidates: SUBSET Runs]
        /\ maint' = Cleaner /\ UNCHANGED <<rpc, status, full>>
    BY <1>1, <2>2 DEF ClearBegin, LogsExist
  <2> QED
    BY <2>1, <2>2, <2>3 DEF StartsUnderLease, LiveIsNamed, LogsExist, CandidatesEnded,
       CleanerHolds
<1>2. ASSUME NEW r \in Runs, ClearDelete(r) \/ ClearSkip(r)
      PROVE  Kept' /\ \A q \in full \ full' : rpc[q] \in Ended
  <2>1. clear'.candidates \subseteq clear.candidates /\ full' \subseteq full
        /\ (\A q \in full \ full' : q \in clear.candidates) /\ clear'.at = clear.at
        /\ clear' \in [at: {"idle", "delete"}, candidates: SUBSET Runs]
    BY <1>2 DEF ClearDelete, ClearSkip
  <2>2. UNCHANGED <<status, rpc, maint>>
    BY <1>2 DEF ClearDelete, ClearSkip
  <2> QED
    BY <2>1, <2>2 DEF StartsUnderLease, LiveIsNamed, LogsExist, CandidatesEnded, CleanerHolds
<1>3. CASE ClearEnd
  <2>1. \A r \in Runs : rpc[r] \notin {"opening", "preamble"}
    BY <1>3, HoldersDiffer DEF ClearEnd, StartsUnderLease, CleanerHolds
  <2>2. clear' = [at |-> "idle", candidates |-> {}] /\ UNCHANGED <<rpc, status, full>>
    BY <1>3 DEF ClearEnd, NoClear
  <2> QED
    BY <2>1, <2>2 DEF StartsUnderLease, LiveIsNamed, LogsExist, CandidatesEnded, CleanerHolds
<1> QED
  BY <1>1, <1>2, <1>3 DEF ClearStep

LEMMA KeptInitially == Init => Kept
BY HoldersDiffer DEF Init, Kept, Typed, RunPoints, StartsUnderLease, LiveIsNamed,
   OneAfterTheOther, LogsExist, CandidatesEnded, CleanerHolds, NoClear

LEMMA KeptInductive ==
    Kept /\ [Next]_vars => Kept' /\ \A r \in full \ full' : rpc[r] \in Ended
<1> SUFFICES ASSUME Kept, [Next]_vars
             PROVE  Kept' /\ \A r \in full \ full' : rpc[r] \in Ended
  OBVIOUS
<1>1. ASSUME NEW r \in Runs, RunStep(r)
      PROVE  Kept' /\ full \subseteq full'
  <2>1. full \subseteq full'
    BY <1>1 DEF RunStep, StartRun, OpenLog, OpenLogFails, WriteLog, WriteStarting, Finish,
       Crash, files
  <2> QED
    BY <1>1, <2>1, RunKeeps
<1>2. CASE Snapshot \/ ClearVisibleLogs \/ \E r \in Runs : BeginRun(r)
  BY <1>2, WindowKeeps
<1>3. CASE ClearStep
  BY <1>3, ClearKeeps
<1>4. CASE UNCHANGED vars
  BY <1>4 DEF vars, files, Kept, Typed, StartsUnderLease, LiveIsNamed, OneAfterTheOther,
     LogsExist, CandidatesEnded, CleanerHolds
<1> QED
  BY <1>1, <1>2, <1>3, <1>4 DEF Next

\* Clear history never deletes the log of a run that is starting or in progress, however
\* many runs start and end between its look at the status and its last deletion.
THEOREM LiveLogIsKept == Spec => LiveLogKept
<1>1. Kept /\ [Next]_vars => [\A r \in full \ full' : rpc[r] \in {"over", "dead"}]_vars
  BY KeptInductive DEF Ended
<1> QED
  BY <1>1, KeptInitially, KeptInductive, PTL DEF Spec, LiveLogKept

-----------------------------------------------------------------------------
SomeRun == Runs \cup {NoRun}
LogLine == [run: SomeRun, rec: Nat, whole: BOOLEAN]

Shapes ==
    /\ TypeOK
    /\ rd \in [at: ReadPoints, run: SomeRun, off: Cells, retry: 0 .. 1, discard: BOOLEAN,
               before: SomeRun, active: BOOLEAN, fileLen: Cells, pos: Cells, reset: BOOLEAN,
               truncated: BOOLEAN, lines: Seq(LogLine), response: SomeRun]
    /\ ui \in [run: SomeRun, off: Cells, shown: Seq(LogLine), marker: BOOLEAN,
               emptied: BOOLEAN, mixed: BOOLEAN]
    /\ clear \in [at: {"idle", "delete"}, candidates: SUBSET Runs]
    /\ rd.at = "align" => Backlog < rd.fileLen
    /\ rd.at = "read" => rd.pos <= rd.fileLen

\* Counting records and cells.
LEMMA Counting ==
    ASSUME NEW r \in Nat, NEW c \in Nat
    PROVE  /\ Records(r, c) \in Nat /\ WholeCells(r, c) \in Nat
           /\ WholeCells(r, c) <= c
           /\ Records(r, WholeCells(r, c)) = Records(r, c)
           /\ Short(r) \in 0 .. 1
           /\ Records(r, 0) = 0 /\ WholeCells(r, 0) = 0
BY DEF Records, WholeCells, End, Short

LEMMA CountingGrows ==
    ASSUME NEW r \in Nat, NEW c \in Nat, NEW d \in Nat, c <= d
    PROVE  Records(r, c) <= Records(r, d)
BY DEF Records, Short

\* An end of a record is the end of the records counted there.
LEMMA EndsOfRecords ==
    ASSUME NEW r \in Nat, NEW n \in Nat
    PROVE  End(r, n) \in Nat /\ Records(r, End(r, n)) = n /\ End(r, n) <= 2 * n
BY DEF Records, End, Short

LEMMA LinesBetweenType ==
    ASSUME NEW from \in Nat, NEW to \in Nat, from <= to, latest.run \in SomeRun
    PROVE  /\ LinesBetween(from, to) \in Seq(LogLine)
           /\ Len(LinesBetween(from, to)) = Records(latest.run, to) - Records(latest.run, from)
<1> DEFINE first == Records(latest.run, from)
           n == Records(latest.run, to) - first
           L(i) == Line(latest.run, first + i, i > 1 \/ from = WholeCells(latest.run, from))
<1>1. latest.run \in Nat /\ n \in Nat /\ first \in Nat
  <2>1. latest.run \in Nat
    BY LogConstants DEF SomeRun, Runs, NoRun
  <2>2. /\ Records(latest.run, from) \in Nat /\ Records(latest.run, to) \in Nat
        /\ Records(latest.run, from) <= Records(latest.run, to)
    BY <2>1, Counting, CountingGrows
  <2> QED
    BY <2>1, <2>2
<1>2. LinesBetween(from, to) = [i \in 1 .. n |-> L(i)]
  BY DEF LinesBetween
<1>3. \A i \in 1 .. n : L(i) \in LogLine
  BY <1>1 DEF Line, LogLine
<1>4. [i \in 1 .. n |-> L(i)] \in Seq(LogLine) /\ Len([i \in 1 .. n |-> L(i)]) = n
  <2> HIDE DEF n, L
  <2> QED
    BY <1>1, <1>3
<1> HIDE DEF L
<1> QED
  BY <1>2, <1>4
\* The lines are records of a run, whole and one after the other, the last one is number
\* last.
AreRecords(lines, r, last) ==
    /\ Len(lines) <= last
    /\ lines = [i \in 1 .. Len(lines) |-> Line(r, last - Len(lines) + i, TRUE)]

LEMMA NoRecords ==
    ASSUME NEW r, NEW last \in Nat
    PROVE  AreRecords(<<>>, r, last)
BY DEF AreRecords

LEMMA KeepLastShape ==
    ASSUME NEW lines \in Seq(LogLine), NEW n \in Nat
    PROVE  /\ KeepLast(lines, n) \in Seq(LogLine)
           /\ Len(KeepLast(lines, n)) = Smaller(Len(lines), n)
           /\ \A i \in 1 .. Smaller(Len(lines), n) :
                KeepLast(lines, n)[i] = lines[Len(lines) - Smaller(Len(lines), n) + i]
<1>1. CASE Len(lines) > n
  <2> DEFINE k == Len(lines) - n + 1
  <2>1. /\ SubSeq(lines, k, Len(lines)) \in Seq(LogLine)
        /\ Len(SubSeq(lines, k, Len(lines))) = n
        /\ \A i \in 1 .. n : SubSeq(lines, k, Len(lines))[i] = lines[Len(lines) - n + i]
    BY <1>1
  <2>2. Smaller(Len(lines), n) = n /\ KeepLast(lines, n) = SubSeq(lines, k, Len(lines))
    BY <1>1 DEF KeepLast, Smaller
  <2> QED
    BY <2>1, <2>2
<1>2. CASE ~(Len(lines) > n)
  <2>1. Smaller(Len(lines), n) = Len(lines) /\ KeepLast(lines, n) = lines
    BY <1>2 DEF KeepLast, Smaller
  <2> QED
    BY <2>1
<1> QED
  BY <1>1, <1>2

LEMMA KeepLastKeeps ==
    ASSUME NEW lines \in Seq(LogLine), NEW n \in Nat, NEW r, NEW last \in Nat,
           AreRecords(lines, r, last)
    PROVE  AreRecords(KeepLast(lines, n), r, last)
<1> DEFINE kept == KeepLast(lines, n)
           m == Smaller(Len(lines), n)
<1>1. kept \in Seq(LogLine) /\ Len(kept) = m /\ m \in Nat /\ m <= Len(lines)
      /\ \A i \in 1 .. m : kept[i] = lines[Len(lines) - m + i]
  <2>1. m \in Nat /\ m <= Len(lines)
    BY DEF Smaller
  <2> HIDE DEF m
  <2> QED
    BY <2>1, KeepLastShape DEF m
<1>2. \A i \in 1 .. Len(lines) : lines[i] = Line(r, last - Len(lines) + i, TRUE)
  BY DEF AreRecords
<1> HIDE DEF kept, m
<1>3. \A i \in 1 .. m : kept[i] = Line(r, last - m + i, TRUE)
  <2> SUFFICES ASSUME NEW i \in 1 .. m
               PROVE  kept[i] = Line(r, last - m + i, TRUE)
    OBVIOUS
  <2>1. /\ Len(lines) - m + i \in 1 .. Len(lines)
        /\ last - Len(lines) + (Len(lines) - m + i) = last - m + i
    BY <1>1
  <2> QED
    BY <2>1, <1>1, <1>2
<1>4. kept = [i \in 1 .. m |-> Line(r, last - m + i, TRUE)]
  <2>1. kept = [i \in 1 .. m |-> kept[i]]
    BY <1>1
  <2> QED
    BY <2>1, <1>3, Zenon
<1>5. m <= last
  BY <1>1 DEF AreRecords
<1> QED
  BY <1>1, <1>4, <1>5 DEF AreRecords, kept

LEMMA RecordsFollow ==
    ASSUME NEW a \in Seq(LogLine), NEW b \in Seq(LogLine), NEW r, NEW last \in Nat,
           AreRecords(b, r, last), AreRecords(a, r, last - Len(b))
    PROVE  a \o b \in Seq(LogLine) /\ AreRecords(a \o b, r, last)
<1> DEFINE c == a \o b
           n == Len(a) + Len(b)
<1>1. c \in Seq(LogLine) /\ Len(c) = n /\ n \in Nat /\ n <= last
      /\ \A i \in 1 .. n : c[i] = IF i <= Len(a) THEN a[i] ELSE b[i - Len(a)]
  BY DEF AreRecords
<1>2. /\ \A i \in 1 .. Len(a) : a[i] = Line(r, (last - Len(b)) - Len(a) + i, TRUE)
      /\ \A i \in 1 .. Len(b) : b[i] = Line(r, last - Len(b) + i, TRUE)
  BY DEF AreRecords
<1> HIDE DEF c
<1>3. \A i \in 1 .. n : c[i] = Line(r, last - n + i, TRUE)
  <2> SUFFICES ASSUME NEW i \in 1 .. n
               PROVE  c[i] = Line(r, last - n + i, TRUE)
    OBVIOUS
  <2>1. CASE i <= Len(a)
    <3>1. i \in 1 .. Len(a) /\ (last - Len(b)) - Len(a) + i = last - n + i
      BY <2>1
    <3> QED
      BY <2>1, <3>1, <1>1, <1>2
  <2>2. CASE ~(i <= Len(a))
    <3>1. i - Len(a) \in 1 .. Len(b) /\ last - Len(b) + (i - Len(a)) = last - n + i
      BY <2>2
    <3> QED
      BY <2>2, <3>1, <1>1, <1>2
  <2> QED
    BY <2>1, <2>2
<1>4. c = [i \in 1 .. n |-> Line(r, last - n + i, TRUE)]
  <2>1. c = [i \in 1 .. n |-> c[i]]
    BY <1>1
  <2> QED
    BY <2>1, <1>3, Zenon
<1> QED
  BY <1>1, <1>4 DEF AreRecords, c

LEMMA LinesBetweenRecords ==
    ASSUME NEW from \in Nat, NEW to \in Nat, from <= to, latest.run \in SomeRun,
           from = WholeCells(latest.run, from)
    PROVE  AreRecords(LinesBetween(from, to), latest.run, Records(latest.run, to))
<1> DEFINE first == Records(latest.run, from)
           last == Records(latest.run, to)
           n == last - first
           lines == LinesBetween(from, to)
<1>1. latest.run \in Nat /\ n \in Nat /\ first \in Nat /\ last \in Nat
  <2>1. latest.run \in Nat
    BY LogConstants DEF SomeRun, Runs, NoRun
  <2>2. /\ Records(latest.run, from) \in Nat /\ Records(latest.run, to) \in Nat
        /\ Records(latest.run, from) <= Records(latest.run, to)
    BY <2>1, Counting, CountingGrows
  <2> QED
    BY <2>1, <2>2
<1>2. lines = [i \in 1 .. n |-> Line(latest.run, first + i, TRUE)]
  BY DEF LinesBetween
<1>3. Len(lines) = n
  BY LinesBetweenType
<1>4. last - n = first /\ n <= last
  BY <1>1
<1> HIDE DEF lines, n, first, last
<1> QED
  BY <1>2, <1>3, <1>4 DEF AreRecords, lines, n, first, last

-----------------------------------------------------------------------------
(* Why a window that follows a run shows that run's log.  Statuses name    *)
(* runs in increasing order, and latest.log is truncated for a run before  *)
(* a status can name it: once both agree on a run they agree for good or   *)
(* part for good.  So a call whose first status named the run that         *)
(* latest.log is of has read that run's log and nothing else.              *)

NamedInOrder ==
    /\ \A r \in Runs :
        /\ rpc[r] \in {"unborn", "opening", "preamble"} => status.run < r
        /\ rpc[r] \in {"live", "over"} => r <= status.run
    /\ ui.run <= status.run
    /\ rd.run <= status.run /\ rd.before <= status.run /\ rd.response <= status.run

\* ShownIsLog without a look at the status, and with the records between named.
WindowIsLog ==
    ui.run = latest.run /\ latest.run # NoRun /\ ~ui.mixed =>
        LET n == Len(ui.shown)
            last == Records(ui.run, ui.off)
        IN  /\ ui.off = End(ui.run, last) /\ ui.off <= latest.len
            /\ AreRecords(ui.shown, ui.run, last)
            /\ n = last \/ ui.marker \/ ui.emptied \/ n = MaxLogLines

\* A call whose answer will count was made from the cursor the window still has.
CallIsOfWindow ==
    /\ rd.at # "idle" /\ ~rd.discard => rd.run = ui.run /\ rd.off = ui.off
    /\ rd.at \in {"before", "open"} => rd.lines = <<>> /\ ~rd.truncated
    /\ rd.at = "apply" /\ rd.retry = 0 => rd.before = rd.response

\* What was read is a stretch of the log, and begins where the lines shown end.
ReadIsLog ==
    LET last == Records(rd.before, rd.pos)
        first == last - Len(rd.lines)
    IN  /\ rd.pos = End(rd.before, last) /\ rd.pos <= latest.len
        /\ AreRecords(rd.lines, rd.before, last)
        /\ rd.truncated => rd.reset
        /\ ~rd.reset => first = Records(ui.run, ui.off)
        /\ rd.reset /\ ~rd.truncated => first = 0

CallIsLog ==
    rd.before = latest.run /\ latest.run # NoRun =>
        /\ rd.at \in {"align", "read"} => rd.fileLen <= latest.len /\ rd.lines = <<>>
        /\ rd.at = "align" => rd.reset
        /\ rd.at \in {"read", "after", "apply"} /\ ~rd.reset => rd.run = rd.before
        /\ rd.at \in {"read", "after", "apply"} /\ ~rd.discard /\ ~(ui.mixed /\ ~rd.reset)
             => ReadIsLog

Shown == Shapes /\ NamedInOrder /\ WindowIsLog /\ CallIsOfWindow /\ CallIsLog

LEMMA RunsAreNumbers ==
    SomeRun \subseteq Nat /\ Runs \subseteq Nat \ {0} /\ Cells \subseteq Nat
BY LogConstants DEF SomeRun, Runs, NoRun, Cells

\* A run that writes makes latest.log longer or begins it anew under a number that nobody has
\* seen yet.
LEMMA RunShows ==
    ASSUME Kept, Shown, NEW r \in Runs, RunStep(r)
    PROVE  Shown'
<1> USE DEF Goto, files
<1>0. UNCHANGED <<rd, ui, begun, clear>>
  BY DEF RunStep, StartRun, OpenLog, OpenLogFails, WriteLog, WriteStarting, Finish, Crash
<1>1. status.run \in Nat /\ r \in Nat /\ r # 0 /\ rpc \in [Runs -> RunPoints]
      /\ rd.run \in Nat /\ rd.before \in Nat /\ rd.response \in Nat /\ ui.run \in Nat
      /\ latest.run \in SomeRun /\ latest.len \in Nat /\ rd.fileLen \in Nat
      /\ rd.pos \in Nat /\ ui.off \in Nat
  BY RunsAreNumbers DEF Shown, Shapes, TypeOK, SomeRun
<1>2. /\ latest' = latest \/ latest' = [latest EXCEPT !.len = @ + 1]
         \/ (latest' = [run |-> r, len |-> 0] /\ rpc[r] = "opening")
      /\ status' = status \/ (status'.run = r /\ status.run <= r)
  <2>1. rpc[r] \in {"opening", "preamble"} => status.run < r
    BY DEF Shown, NamedInOrder
  <2>2. rpc[r] = "live" => status.run = r
    BY DEF Kept, LiveIsNamed
  <2> QED
    BY <2>1, <2>2, <1>1 DEF RunStep, StartRun, OpenLog, OpenLogFails, WriteLog, WriteStarting, Finish,
       Crash
<1>3. status'.run \in Nat /\ status.run <= status'.run
  BY <1>1, <1>2
<1>4. Shapes'
  <2>1. latest' \in [run: SomeRun, len: Cells]
    <3>1. ASSUME WriteLog(r)
          PROVE  latest.len + 1 \in Cells
      <4>1. Preamble \in Nat /\ Preamble <= MaxRecords /\ MaxRecords \in Nat
        BY LogConstants
      <4>2. /\ End(r, Preamble) \in Nat /\ End(r, Preamble) <= 2 * Preamble
            /\ End(r, MaxRecords) \in Nat /\ End(r, MaxRecords) <= 2 * MaxRecords
        BY <1>1, <4>1, EndsOfRecords
      <4> QED
        BY <1>1, <3>1, <4>1, <4>2 DEF WriteLog, Cells
    <3>2. latest \in [run: SomeRun, len: Cells]
      BY DEF Shown, Shapes, TypeOK, SomeRun
    <3>3. r \in SomeRun /\ 0 \in Cells
      BY LogConstants DEF SomeRun, Cells
    <3> QED
      BY <3>1, <3>2, <3>3 DEF RunStep, StartRun, OpenLog, OpenLogFails, WriteLog, WriteStarting, Finish,
         Crash
  <2>2. status' \in [run: SomeRun, st: {"none", "active", "terminal"}]
    BY DEF Shown, Shapes, TypeOK, SomeRun, RunStep, StartRun, OpenLog, OpenLogFails, WriteLog,
       WriteStarting, Finish, Crash
  <2>3. full' \subseteq Runs /\ maint' \in Runs \cup {NoRun, Cleaner}
    <3>1. full' \subseteq full \cup {r} /\ maint' \in {maint, r, NoRun}
      BY DEF RunStep, StartRun, OpenLog, OpenLogFails, WriteLog, WriteStarting, Finish, Crash
    <3>2. full \subseteq Runs /\ maint \in Runs \cup {NoRun, Cleaner}
      BY DEF Shown, Shapes, TypeOK
    <3> QED
      BY <3>1, <3>2
  <2>4. rpc' \in [Runs -> RunPoints]
    <3>1. \E point \in RunPoints : rpc' = [rpc EXCEPT ![r] = point]
      BY <1>1 DEF RunPoints, RunStep, StartRun, OpenLog, OpenLogFails, WriteLog, WriteStarting, Finish, Crash
    <3> QED
      BY <1>1, <3>1
  <2> QED
    BY <1>0, <2>1, <2>2, <2>3, <2>4 DEF Shown, Shapes, TypeOK, SomeRun
<1>5. NamedInOrder'
  <2>1. \A q \in Runs : q # r =>
          /\ rpc[q] \in {"unborn", "opening", "preamble"} => status'.run < q
          /\ rpc[q] \in {"live", "over"} => q <= status'.run
    <3> SUFFICES ASSUME NEW q \in Runs, q # r
                 PROVE  /\ rpc[q] \in {"unborn", "opening", "preamble"} => status'.run < q
                        /\ rpc[q] \in {"live", "over"} => q <= status'.run
      OBVIOUS
    <3>1. q \in Nat /\ (rpc[q] \in {"unborn", "opening", "preamble"} => status.run < q)
          /\ (rpc[q] \in {"live", "over"} => q <= status.run)
      BY RunsAreNumbers DEF Shown, NamedInOrder
    <3>2. status' # status => rpc[r] # "unborn"
      BY DEF RunStep, StartRun, OpenLog, OpenLogFails, WriteLog, WriteStarting, Finish, Crash
    <3>3. q < r /\ rpc[r] # "unborn" => rpc[q] \in Ended
      BY DEF Kept, OneAfterTheOther
    <3> QED
      BY <1>1, <1>2, <1>3, <3>1, <3>2, <3>3 DEF Ended
  <2>2. /\ rpc'[r] \in {"unborn", "opening", "preamble"} => status'.run < r
        /\ rpc'[r] \in {"live", "over"} => r <= status'.run
    BY <1>1 DEF Shown, NamedInOrder, Kept, LiveIsNamed, RunStep, StartRun, OpenLog, OpenLogFails,
       WriteLog, WriteStarting, Finish, Crash
  <2>3. \A q \in Runs : q # r => rpc'[q] = rpc[q]
    BY <1>1 DEF RunStep, StartRun, OpenLog, OpenLogFails, WriteLog, WriteStarting, Finish, Crash
  <2>4. /\ ui'.run <= status'.run
        /\ rd'.run <= status'.run /\ rd'.before <= status'.run /\ rd'.response <= status'.run
    BY <1>0, <1>1, <1>3 DEF Shown, NamedInOrder
  <2> QED
    BY <2>1, <2>2, <2>3, <2>4 DEF NamedInOrder
<1>6. CallIsOfWindow'
  BY <1>0 DEF Shown, CallIsOfWindow
<1>7. CASE latest'.run = latest.run /\ latest.len <= latest'.len /\ latest'.len \in Nat
  <2>1. WindowIsLog'
    BY <1>0, <1>1, <1>7 DEF Shown, WindowIsLog
  <2>2. ReadIsLog => ReadIsLog'
    BY <1>0, <1>1, <1>7 DEF ReadIsLog
  <2>3. CallIsLog'
    BY <1>0, <1>1, <1>7, <2>2 DEF Shown, CallIsLog
  <2> QED
    BY <1>4, <1>5, <1>6, <2>1, <2>3 DEF Shown
<1>8. CASE latest' = [run |-> r, len |-> 0] /\ rpc[r] = "opening"
  <2>1. ui.run < r /\ rd.before < r
    BY <1>1, <1>8 DEF Shown, NamedInOrder
  <2>2. WindowIsLog' /\ CallIsLog'
    BY <1>0, <1>1, <1>8, <2>1 DEF WindowIsLog, CallIsLog
  <2> QED
    BY <1>4, <1>5, <1>6, <2>2 DEF Shown
<1> QED
  BY <1>1, <1>2, <1>7, <1>8 DEF Shown, Shapes, TypeOK

LEMMA ClearShows ==
    ASSUME Shown, ClearStep
    PROVE  Shown'
<1>1. UNCHANGED <<status, latest, rpc, rd, ui, begun>>
  BY DEF ClearStep, ClearBegin, ClearDelete, ClearSkip, ClearEnd, files
<1>2. full' \subseteq full /\ maint' \in {maint, NoRun, Cleaner}
  BY DEF ClearStep, ClearBegin, ClearDelete, ClearSkip, ClearEnd, files
<1>3. full \subseteq Runs /\ maint \in Runs \cup {NoRun, Cleaner}
      /\ clear \in [at: {"idle", "delete"}, candidates: SUBSET Runs]
  BY DEF Shown, Shapes, TypeOK
<1>4. clear' \in [at: {"idle", "delete"}, candidates: SUBSET Runs]
  BY <1>3 DEF ClearStep, ClearBegin, ClearDelete, ClearSkip, ClearEnd, NoClear
<1>5. Shapes'
  BY <1>1, <1>2, <1>3, <1>4 DEF Shown, Shapes, TypeOK
<1>6. NamedInOrder' /\ WindowIsLog' /\ CallIsOfWindow'
  BY <1>1 DEF Shown, NamedInOrder, WindowIsLog, CallIsOfWindow
<1>7. CallIsLog'
  BY <1>1 DEF Shown, CallIsLog, ReadIsLog
<1> QED
  BY <1>5, <1>6, <1>7 DEF Shown

\* What a step of the snapshot call must be shown to preserve.
CallShapes ==
    /\ rd \in [at: ReadPoints, run: SomeRun, off: Cells, retry: 0 .. 1, discard: BOOLEAN,
               before: SomeRun, active: BOOLEAN, fileLen: Cells, pos: Cells, reset: BOOLEAN,
               truncated: BOOLEAN, lines: Seq(LogLine), response: SomeRun]
    /\ rd.at = "align" => Backlog < rd.fileLen
    /\ rd.at = "read" => rd.pos <= rd.fileLen
    /\ rd.run <= status.run /\ rd.before <= status.run /\ rd.response <= status.run

LEMMA CallEnough ==
    ASSUME Shown, UNCHANGED <<files, rpc, maint, ui, begun, clear>>,
           CallShapes', CallIsOfWindow', CallIsLog'
    PROVE  Shown'
<1> USE DEF files
<1>1. Shapes'
  BY DEF Shown, Shapes, TypeOK, CallShapes
<1>2. NamedInOrder'
  BY DEF Shown, NamedInOrder, CallShapes
<1>3. WindowIsLog'
  BY DEF Shown, WindowIsLog
<1> QED
  BY <1>1, <1>2, <1>3 DEF Shown

LEMMA ShownTypes ==
    ASSUME Shown
    PROVE  /\ CallShapes
           /\ latest \in [run: SomeRun, len: Cells]
           /\ status \in [run: SomeRun, st: {"none", "active", "terminal"}]
           /\ ui \in [run: SomeRun, off: Cells, shown: Seq(LogLine), marker: BOOLEAN,
                      emptied: BOOLEAN, mixed: BOOLEAN]
           /\ NoRun \in SomeRun /\ 0 \in Cells /\ 0 \in Nat
           /\ NoRun <= status.run
BY LogConstants DEF Shown, Shapes, TypeOK, NamedInOrder, CallShapes, SomeRun, Cells, Runs, NoRun

LEMMA IdleIsFine ==
    ASSUME Shown, UNCHANGED <<files, rpc, maint, ui, begun, clear>>, rd' = IdleRead
    PROVE  Shown'
<1>1. CallShapes'
  <2>1. <<>> \in Seq(LogLine)
    OBVIOUS
  <2> QED
    BY <2>1, ShownTypes DEF CallShapes, IdleRead, ReadPoints, files
<1>2. CallIsOfWindow'
  BY DEF CallIsOfWindow, IdleRead
<1>3. CallIsLog'
  BY DEF CallIsLog, IdleRead
<1> QED
  BY <1>1, <1>2, <1>3, CallEnough

LEMMA PollShows ==
    ASSUME Shown, Poll
    PROVE  Shown'
<1>1. UNCHANGED <<latest, full, rpc, maint, ui, begun, clear>>
      /\ rd' = [IdleRead EXCEPT !.at = "before", !.run = ui.run, !.off = ui.off]
      /\ status' \in {status, Reconciled}
  BY DEF Poll
<1>2. status'.run = status.run /\ status' \in [run: SomeRun, st: {"none", "active", "terminal"}]
  BY <1>1, ShownTypes DEF Reconciled
<1>3. rd' \in [at: ReadPoints, run: SomeRun, off: Cells, retry: 0 .. 1, discard: BOOLEAN,
               before: SomeRun, active: BOOLEAN, fileLen: Cells, pos: Cells, reset: BOOLEAN,
               truncated: BOOLEAN, lines: Seq(LogLine), response: SomeRun]
  <2>1. <<>> \in Seq(LogLine)
    OBVIOUS
  <2> QED
    <3>1. rd' = [at |-> "before", run |-> ui.run, off |-> ui.off, retry |-> 0,
                 discard |-> FALSE, before |-> NoRun, active |-> FALSE, fileLen |-> 0,
                 pos |-> 0, reset |-> FALSE, truncated |-> FALSE, lines |-> <<>>,
                 response |-> NoRun]
      BY <1>1 DEF IdleRead
    <3>2. ui.run \in SomeRun /\ ui.off \in Cells /\ NoRun \in SomeRun /\ 0 \in Cells
      BY ShownTypes
    <3> QED
      BY <2>1, <3>1, <3>2 DEF ReadPoints
<1>4. Shapes'
  BY <1>1, <1>2, <1>3, ShownTypes DEF Shown, Shapes, TypeOK, SomeRun, IdleRead
<1>5. NamedInOrder'
  BY <1>1, <1>2, ShownTypes DEF Shown, NamedInOrder, IdleRead
<1>6. WindowIsLog' /\ CallIsOfWindow'
  BY <1>1 DEF Shown, WindowIsLog, CallIsOfWindow, IdleRead
<1>7. CallIsLog'
  BY <1>1 DEF CallIsLog, IdleRead
<1> QED
  BY <1>4, <1>5, <1>6, <1>7 DEF Shown

LEMMA ReadBeforeShows ==
    ASSUME Shown, ReadBefore
    PROVE  Shown'
<1>1. UNCHANGED <<files, rpc, maint, ui, begun, clear>> /\ rd.at = "before"
      /\ rd' = [rd EXCEPT !.at = "open", !.before = status.run, !.active = IsActive]
  BY DEF ReadBefore
<1>2. CallShapes'
  <2>1. IsActive \in BOOLEAN
    BY DEF IsActive
  <2>2. status.run \in SomeRun /\ status.run <= status.run
    <3>1. status.run \in SomeRun
      BY ShownTypes
    <3>2. status.run \in Nat
      BY <3>1, RunsAreNumbers
    <3> QED
      BY <3>1, <3>2
  <2> QED
    BY <1>1, <2>1, <2>2, ShownTypes DEF CallShapes, ReadPoints, files
<1>3. CallIsOfWindow'
  BY <1>1, ShownTypes DEF Shown, CallIsOfWindow, CallShapes
<1>4. CallIsLog'
  BY <1>1, ShownTypes DEF CallIsLog, CallShapes
<1> QED
  BY <1>1, <1>2, <1>3, <1>4, CallEnough

LEMMA LatestMissingShows ==
    ASSUME Shown, LatestMissing
    PROVE  Shown'
<1>1. UNCHANGED <<files, rpc, maint, ui, begun, clear>> /\ rd.at = "open" /\ latest.run = NoRun
      /\ rd' = [rd EXCEPT !.at = "after", !.reset = rd.run # rd.before \/ rd.off > 0,
                          !.active = FALSE]
  BY DEF LatestMissing
<1>2. CallShapes'
  BY <1>1, ShownTypes DEF CallShapes, ReadPoints, files
<1>3. CallIsOfWindow'
  BY <1>1, ShownTypes DEF Shown, CallIsOfWindow, CallShapes
<1>4. CallIsLog'
  BY <1>1 DEF CallIsLog, files
<1> QED
  BY <1>1, <1>2, <1>3, <1>4, CallEnough

LEMMA OpenLatestShows ==
    ASSUME Shown, OpenLatest
    PROVE  Shown'
<1> DEFINE reset == rd.run # rd.before \/ rd.off > latest.len
           tail  == rd.run = NoRun /\ rd.active /\ latest.len > Backlog
<1>1. UNCHANGED <<files, rpc, maint, ui, begun, clear>> /\ rd.at = "open" /\ latest.run # NoRun
      /\ rd' = [rd EXCEPT !.at = IF tail THEN "align" ELSE "read",
                          !.active = FALSE,
                          !.fileLen = latest.len, !.reset = reset \/ tail,
                          !.pos = IF reset THEN 0 ELSE rd.off]
  BY DEF OpenLatest
<1>2. rd.off \in Nat /\ latest.len \in Nat /\ rd.before \in Nat /\ rd.run \in Nat
      /\ ui.off \in Nat /\ Backlog \in Nat
  BY ShownTypes, RunsAreNumbers, LogConstants DEF CallShapes
<1>3. CallShapes'
  <2>1. rd'.pos \in Cells /\ rd'.reset \in BOOLEAN /\ rd'.fileLen \in Cells
        /\ rd'.at \in {"align", "read"}
    BY <1>1, ShownTypes DEF CallShapes
  <2>2. rd' = [rd EXCEPT !.at = rd'.at, !.active = FALSE, !.fileLen = rd'.fileLen,
                         !.reset = rd'.reset, !.pos = rd'.pos]
    BY <1>1, ShownTypes DEF CallShapes
  <2>3. rd'.at = "align" => Backlog < rd'.fileLen
    BY <1>1, <1>2, ShownTypes DEF CallShapes
  <2>4. rd'.pos <= rd'.fileLen
    BY <1>1, <1>2, ShownTypes DEF CallShapes
  <2> QED
    BY <1>1, <2>1, <2>2, <2>3, <2>4, ShownTypes, ZenonT(30) DEF CallShapes, ReadPoints, files
<1>4. CallIsOfWindow'
  BY <1>1, ShownTypes DEF Shown, CallIsOfWindow, CallShapes
<1>5. CallIsLog'
  <2> SUFFICES ASSUME rd.before = latest.run
               PROVE  /\ rd'.fileLen <= latest.len /\ rd'.lines = <<>>
                      /\ rd'.at = "align" => rd'.reset
                      /\ ~rd'.reset => rd'.run = rd'.before
                      /\ rd'.at = "read" /\ ~rd.discard /\ ~(ui.mixed /\ ~rd'.reset)
                            => ReadIsLog'
    BY <1>1, ShownTypes DEF CallIsLog, CallShapes, files
  <2>1. rd'.fileLen <= latest.len /\ rd'.lines = <<>> /\ ~rd'.truncated
    BY <1>1, <1>2, ShownTypes DEF Shown, CallIsOfWindow, CallShapes
  <2>2. rd'.at = "align" => rd'.reset
    BY <1>1, ShownTypes DEF CallShapes
  <2>3. ASSUME rd'.at = "read", ~rd.discard, ~(ui.mixed /\ ~rd'.reset)
        PROVE  ReadIsLog'
    <3>1. rd'.reset = reset /\ rd'.pos = (IF reset THEN 0 ELSE rd.off) /\ rd'.before = rd.before
          /\ rd'.run = rd.run
      BY <1>1, <2>3, ShownTypes DEF CallShapes
    <3>2. CASE reset
      <4>1. Records(rd.before, 0) = 0 /\ End(rd.before, 0) = 0
        BY <1>2, Counting DEF End
      <4>2. rd'.pos = 0 /\ rd'.lines = <<>> /\ rd'.reset /\ 0 <= latest'.len
        <5>1. rd'.reset
          BY <3>1, <3>2
        <5>2. rd'.pos = 0
          BY <3>1, <3>2
        <5> HIDE DEF reset
        <5> QED
          BY <1>1, <1>2, <2>1, <5>1, <5>2 DEF files
      <4>3. AreRecords(<<>>, rd.before, 0) /\ Len(<<>>) = 0
        BY NoRecords
      <4> QED
        BY <2>1, <3>1, <4>1, <4>2, <4>3 DEF ReadIsLog
    <3>3. CASE ~reset
      <4>1. ui.run = latest.run /\ ui.off = rd.off /\ ~ui.mixed
        BY <1>1, <2>3, <3>1, <3>3 DEF Shown, CallIsOfWindow
      <4>2. ui.off = End(ui.run, Records(ui.run, ui.off)) /\ ui.off <= latest.len
        BY <1>1, <4>1 DEF Shown, WindowIsLog
      <4>3. Records(ui.run, ui.off) \in Nat
        BY <1>2, <3>3, <4>1, Counting
      <4>4. AreRecords(<<>>, rd.before, Records(ui.run, ui.off)) /\ Len(<<>>) = 0
        BY <4>3, NoRecords
      <4>5. rd'.pos = ui.off /\ rd'.lines = <<>> /\ ~rd'.reset /\ rd'.run = rd.before
            /\ rd'.before = ui.run /\ rd.before = ui.run
            /\ UNCHANGED <<ui, latest>>
        BY <1>1, <2>1, <3>1, <3>3, <4>1 DEF files
      <4> QED
        BY <2>1, <4>2, <4>3, <4>4, <4>5 DEF ReadIsLog
    <3> QED
      BY <3>2, <3>3
  <2>4. ~rd'.reset => rd'.run = rd'.before
    BY <1>1, ShownTypes DEF CallShapes
  <2> QED
    BY <2>1, <2>2, <2>3, <2>4
<1> QED
  BY <1>1, <1>3, <1>4, <1>5, CallEnough

LEMMA CellsBelow ==
    ASSUME NEW c \in Cells, NEW n \in Nat, n <= c
    PROVE  n \in Cells
BY LogConstants DEF Cells

LEMMA NoLinesType == <<>> \in Seq(LogLine)
OBVIOUS

LEMMA AlignTailShows ==
    ASSUME Shown, AlignTail
    PROVE  Shown'
<1> DEFINE records == Records(latest.run, rd.fileLen - Backlog) + 1
           next == End(latest.run, records)
<1>1. UNCHANGED <<files, rpc, maint, ui, begun, clear>> /\ rd.at = "align"
  BY DEF AlignTail
<1>2. rd.fileLen \in Nat /\ latest.len \in Nat /\ latest.run \in Nat /\ Backlog \in Nat
      /\ rd.fileLen - Backlog \in Nat
  <2>1. rd.fileLen \in Cells /\ latest.len \in Cells /\ latest.run \in SomeRun
        /\ Backlog < rd.fileLen /\ Backlog \in Nat
    BY <1>1, ShownTypes, LogConstants DEF CallShapes
  <2>2. rd.fileLen \in Nat /\ latest.len \in Nat /\ latest.run \in Nat
    BY <2>1, RunsAreNumbers
  <2> QED
    BY <2>1, <2>2
<1>3. records \in Nat
  <2>1. Records(latest.run, rd.fileLen - Backlog) \in Nat
    BY <1>2, Counting
  <2> QED
    BY <2>1
<1>4. next \in Nat /\ Records(latest.run, next) = records
  BY <1>2, <1>3, EndsOfRecords
<1> HIDE DEF next, records
<1>5. CASE next <= Smaller(rd.fileLen, latest.len)
           /\ rd' = [rd EXCEPT !.at = "read", !.pos = next, !.truncated = TRUE]
  <2>1. next <= rd.fileLen /\ next <= latest.len
    BY <1>2, <1>4, <1>5 DEF Smaller
  <2>2. next \in Cells
    BY <1>2, <1>4, <2>1, ShownTypes, CellsBelow
  <2>3. CallShapes'
    BY <1>1, <1>5, <2>1, <2>2, ShownTypes DEF CallShapes, ReadPoints, files
  <2>4. CallIsOfWindow'
    BY <1>1, <1>5, ShownTypes DEF Shown, CallIsOfWindow, CallShapes
  <2>5. CallIsLog'
    <3>0. rd.before = latest.run /\ latest.run # NoRun => rd.reset
      BY <1>1 DEF Shown, CallIsLog
    <3> SUFFICES ASSUME rd.before = latest.run, latest.run # NoRun
                 PROVE  rd'.fileLen <= latest.len /\ rd'.lines = <<>> /\ ReadIsLog'
      BY <3>0, <1>1, <1>5, ShownTypes DEF CallIsLog, CallShapes, files
    <3>1. rd.fileLen <= latest.len /\ rd.lines = <<>> /\ rd.reset
      BY <1>1 DEF Shown, CallIsLog
    <3>2. rd'.fileLen = rd.fileLen /\ rd'.lines = <<>> /\ rd'.reset /\ rd'.truncated
          /\ rd'.pos = next /\ rd'.before = rd.before /\ latest' = latest
      BY <1>1, <1>5, <3>1, ShownTypes DEF CallShapes, files
    <3>3. AreRecords(<<>>, rd.before, records) /\ Len(<<>>) = 0
      BY <1>3, NoRecords
    <3>4. next = End(latest.run, records)
      BY DEF next
    <3> QED
      BY <1>3, <1>4, <2>1, <3>1, <3>2, <3>3, <3>4 DEF ReadIsLog
  <2> QED
    BY <1>1, <2>3, <2>4, <2>5, CallEnough
<1>6. CASE rd' = IdleRead
  BY <1>1, <1>6, IdleIsFine
<1> QED
  BY <1>5, <1>6 DEF AlignTail, ReadFails, next, records

LEMMA ReadChunkShows ==
    ASSUME Shown, ReadChunk
    PROVE  Shown'
<1> DEFINE limit == Smaller(rd.fileLen - rd.pos, Chunk)
           to    == Smaller(rd.pos + limit, latest.len)
           upto  == WholeCells(latest.run, to)
<1>1. UNCHANGED <<files, rpc, maint, ui, begun, clear>> /\ rd.at = "read"
  BY DEF ReadChunk
<1>2. rd.fileLen \in Nat /\ rd.pos \in Nat /\ latest.len \in Nat /\ latest.run \in Nat
      /\ rd.pos <= rd.fileLen /\ Chunk \in Nat /\ latest.run \in SomeRun
  <2>1. rd.fileLen \in Cells /\ latest.len \in Cells /\ latest.run \in SomeRun
        /\ rd.pos \in Cells /\ rd.pos <= rd.fileLen /\ Chunk \in Nat
    BY <1>1, ShownTypes, LogConstants DEF CallShapes
  <2>2. rd.fileLen \in Nat /\ latest.len \in Nat /\ latest.run \in Nat /\ rd.pos \in Nat
    BY <2>1, RunsAreNumbers
  <2> QED
    BY <2>1, <2>2
<1>3. to \in Nat /\ to <= latest.len
  BY <1>2 DEF Smaller
<1>4. /\ upto \in Nat /\ upto <= to
      /\ Records(latest.run, upto) = Records(latest.run, to) /\ Records(latest.run, to) \in Nat
      /\ upto = End(latest.run, Records(latest.run, upto))
  <2> HIDE DEF to
  <2> QED
    BY <1>2, <1>3, Counting DEF WholeCells
<1>5. upto \in Cells
  <2>1. latest.len \in Cells /\ upto <= latest.len
    BY <1>2, <1>3, <1>4, ShownTypes
  <2> QED
    BY <1>4, <2>1, CellsBelow
<1> HIDE DEF to, upto
<1>6. CASE upto > rd.pos
           /\ rd' = [rd EXCEPT !.at = "after", !.pos = upto, !.fileLen = 0,
                               !.lines = LinesBetween(rd.pos, upto)]
  <2> DEFINE new == LinesBetween(rd.pos, upto)
  <2>1. /\ new \in Seq(LogLine)
        /\ Len(new) = Records(latest.run, upto) - Records(latest.run, rd.pos)
    BY <1>2, <1>4, <1>6, LinesBetweenType
  <2>2. rd.pos = WholeCells(latest.run, rd.pos) => AreRecords(new, latest.run, Records(latest.run, upto))
    BY <1>2, <1>4, <1>6, LinesBetweenRecords
  <2> HIDE DEF new
  <2>3. rd' = [rd EXCEPT !.at = "after", !.pos = upto, !.fileLen = 0, !.lines = new]
    BY <1>6 DEF new
  <2>4. CallShapes'
    BY <1>1, <1>5, <2>1, <2>3, ShownTypes DEF CallShapes, ReadPoints, files
  <2>5. CallIsOfWindow'
    BY <1>1, <2>3, ShownTypes DEF Shown, CallIsOfWindow, CallShapes
  <2>6. CallIsLog'
    <3>0. rd.before = latest.run /\ latest.run # NoRun /\ ~rd.reset => rd.run = rd.before
      BY <1>1 DEF Shown, CallIsLog
    <3> SUFFICES ASSUME rd.before = latest.run, latest.run # NoRun, ~rd.discard,
                        ~(ui.mixed /\ ~rd.reset)
                 PROVE  ReadIsLog'
      BY <3>0, <1>1, <2>3, ShownTypes DEF CallIsLog, CallShapes, files
    <3>1. ReadIsLog /\ rd.lines = <<>>
      BY <1>1 DEF Shown, CallIsLog
    <3>2. rd.pos = WholeCells(latest.run, rd.pos)
      BY <3>1 DEF ReadIsLog, WholeCells
    <3>3. rd'.pos = upto /\ rd'.lines = new /\ rd'.reset = rd.reset /\ rd'.truncated = rd.truncated
          /\ rd'.before = rd.before /\ rd'.run = rd.run /\ latest' = latest /\ ui' = ui
      BY <1>1, <2>3, ShownTypes DEF CallShapes, files
    <3>4. Records(latest.run, upto) - Len(new) = Records(latest.run, rd.pos)
          /\ Records(latest.run, rd.pos) - Len(rd.lines) = Records(latest.run, rd.pos)
      <4>1. Records(latest.run, upto) \in Nat /\ Records(latest.run, rd.pos) \in Nat
        BY <1>2, <1>4, Counting
      <4> QED
        BY <2>1, <3>1, <4>1
    <3> QED
      BY <1>2, <1>3, <1>4, <2>2, <3>1, <3>2, <3>3, <3>4 DEF ReadIsLog
  <2> QED
    BY <1>1, <2>4, <2>5, <2>6, CallEnough
<1>7. CASE rd' = IdleRead
  BY <1>1, <1>7, IdleIsFine
<1>8. CASE rd' = [rd EXCEPT !.at = "after", !.fileLen = 0, !.lines = <<>>]
  <2>1. CallShapes'
    BY <1>1, <1>8, ShownTypes, NoLinesType DEF CallShapes, ReadPoints, files
  <2>2. CallIsOfWindow'
    BY <1>1, <1>8, ShownTypes DEF Shown, CallIsOfWindow, CallShapes
  <2>3. CallIsLog'
    <3>0. rd.before = latest.run /\ latest.run # NoRun /\ ~rd.reset => rd.run = rd.before
      BY <1>1 DEF Shown, CallIsLog
    <3> SUFFICES ASSUME rd.before = latest.run, latest.run # NoRun, ~rd.discard,
                        ~(ui.mixed /\ ~rd.reset)
                 PROVE  ReadIsLog'
      BY <3>0, <1>1, <1>8, ShownTypes DEF CallIsLog, CallShapes, files
    <3>1. ReadIsLog /\ rd.lines = <<>>
      BY <1>1 DEF Shown, CallIsLog
    <3>2. rd'.pos = rd.pos /\ rd'.lines = rd.lines /\ rd'.reset = rd.reset
          /\ rd'.truncated = rd.truncated
          /\ rd'.before = rd.before /\ rd'.run = rd.run /\ latest' = latest /\ ui' = ui
      BY <1>1, <1>8, <3>1, ShownTypes DEF CallShapes, files
    <3> QED
      BY <3>1, <3>2 DEF ReadIsLog
  <2> QED
    BY <1>1, <2>1, <2>2, <2>3, CallEnough
<1> QED
  BY <1>6, <1>7, <1>8 DEF ReadChunk, ReadFails, upto, to

LEMMA ReadAfterShows ==
    ASSUME Shown, ReadAfter
    PROVE  Shown'
<1>1. UNCHANGED <<files, rpc, maint, ui, begun, clear>> /\ rd.at = "after"
  BY DEF ReadAfter
<1>2. CASE rd' = [rd EXCEPT !.at = "before", !.retry = 1, !.pos = 0, !.lines = <<>>,
                            !.reset = FALSE, !.truncated = FALSE]
  <2>1. CallShapes'
    <3>1. 1 \in 0 .. 1 /\ 0 \in Cells /\ <<>> \in Seq(LogLine)
      BY ShownTypes, NoLinesType
    <3>2. CallShapes /\ UNCHANGED status
      BY <1>1, ShownTypes DEF files
    <3>3. rd' \in [at: ReadPoints, run: SomeRun, off: Cells, retry: 0 .. 1, discard: BOOLEAN,
               before: SomeRun, active: BOOLEAN, fileLen: Cells, pos: Cells, reset: BOOLEAN,
               truncated: BOOLEAN, lines: Seq(LogLine), response: SomeRun]
      BY <1>2, <3>1, <3>2 DEF CallShapes, ReadPoints
    <3> QED
      BY <1>2, <3>2, <3>3 DEF CallShapes
  <2>2. CallIsOfWindow'
    BY <1>1, <1>2, ShownTypes DEF Shown, CallIsOfWindow, CallShapes
  <2>3. CallIsLog'
    BY <1>1, <1>2, ShownTypes DEF CallIsLog, CallShapes, files
  <2> QED
    BY <1>1, <2>1, <2>2, <2>3, CallEnough
<1>3. CASE /\ rd.retry = 1 \/ rd.before = status.run
           /\ rd' = [rd EXCEPT !.at = "apply", !.response = status.run]
  <2>1. CallShapes'
    <3>1. status.run \in SomeRun /\ status.run <= status.run
      <4>1. status.run \in SomeRun
        BY ShownTypes
      <4>2. status.run \in Nat
        BY <4>1, RunsAreNumbers
      <4> QED
        BY <4>1, <4>2
    <3> QED
      BY <1>1, <1>3, <3>1, ShownTypes DEF CallShapes, ReadPoints, files
  <2>2. CallIsOfWindow'
    BY <1>1, <1>3, ShownTypes DEF Shown, CallIsOfWindow, CallShapes
  <2>3. CallIsLog'
    <3>0. rd.before = latest.run /\ latest.run # NoRun /\ ~rd.reset => rd.run = rd.before
      BY <1>1 DEF Shown, CallIsLog
    <3> SUFFICES ASSUME rd.before = latest.run, latest.run # NoRun, ~rd.discard,
                        ~(ui.mixed /\ ~rd.reset)
                 PROVE  ReadIsLog'
      BY <3>0, <1>1, <1>3, ShownTypes DEF CallIsLog, CallShapes, files
    <3>1. ReadIsLog
      BY <1>1 DEF Shown, CallIsLog
    <3>2. rd'.pos = rd.pos /\ rd'.lines = rd.lines /\ rd'.reset = rd.reset
          /\ rd'.truncated = rd.truncated
          /\ rd'.before = rd.before /\ rd'.run = rd.run /\ latest' = latest /\ ui' = ui
      BY <1>1, <1>3, ShownTypes DEF CallShapes, files
    <3> QED
      BY <3>1, <3>2 DEF ReadIsLog
  <2> QED
    BY <1>1, <2>1, <2>2, <2>3, CallEnough
<1> QED
  BY <1>2, <1>3 DEF ReadAfter

\* Only the window's own state changes, and no call is left whose answer would count.
LEMMA WindowEnough ==
    ASSUME Shown, UNCHANGED <<files, rpc, maint, clear>>, begun' \subseteq Runs,
           ui' \in [run: SomeRun, off: Cells, shown: Seq(LogLine), marker: BOOLEAN,
                    emptied: BOOLEAN, mixed: BOOLEAN],
           Len(ui'.shown) <= Room(ui'.marker), ui'.run <= status.run, WindowIsLog',
           NextGeneration \/ rd' = IdleRead
    PROVE  Shown'
<1>1. CallShapes'
  <2>1. CASE NextGeneration
    <3>1. (rd.at # "idle") \in BOOLEAN
      OBVIOUS
    <3> QED
      BY <2>1, <3>1, ShownTypes DEF NextGeneration, CallShapes, files
  <2>2. CASE rd' = IdleRead
    BY <2>2, ShownTypes, NoLinesType DEF CallShapes, IdleRead, ReadPoints, files
  <2> QED
    BY <2>1, <2>2
<1>2. CallIsOfWindow'
  <2>1. CASE NextGeneration
    BY <2>1, ShownTypes DEF Shown, CallIsOfWindow, NextGeneration, CallShapes
  <2>2. CASE rd' = IdleRead
    BY <2>2 DEF CallIsOfWindow, IdleRead
  <2> QED
    BY <2>1, <2>2
<1>3. CallIsLog'
  <2>1. CASE NextGeneration
    <3>1. rd'.at \in {"read", "after", "apply"} => rd'.discard
      BY <2>1, ShownTypes DEF NextGeneration, CallShapes
    <3>2. rd'.at = rd.at /\ rd'.before = rd.before /\ rd'.fileLen = rd.fileLen
          /\ rd'.lines = rd.lines /\ rd'.reset = rd.reset /\ rd'.run = rd.run
      BY <2>1, ShownTypes DEF NextGeneration, CallShapes
    <3> QED
      BY <3>1, <3>2 DEF Shown, CallIsLog, files
  <2>2. CASE rd' = IdleRead
    BY <2>2 DEF CallIsLog, IdleRead
  <2> QED
    BY <2>1, <2>2
<1>4. Shapes'
  BY <1>1 DEF Shown, Shapes, TypeOK, CallShapes, SomeRun, files
<1>5. NamedInOrder'
  BY <1>1 DEF Shown, NamedInOrder, CallShapes, files
<1> QED
  BY <1>2, <1>3, <1>4, <1>5 DEF Shown

LEMMA BeginRunShows ==
    ASSUME Shown, NEW r \in Runs, BeginRun(r)
    PROVE  Shown'
<1>1. UNCHANGED <<files, rpc, maint, clear>> /\ NextGeneration
      /\ begun' = begun \cup {r} /\ ui' = [NoLines EXCEPT !.run = r]
      /\ rpc[r] \in {"live", "over"}
  BY DEF BeginRun
<1>2. begun' \subseteq Runs
  BY <1>1 DEF Shown, Shapes, TypeOK
<1>3. ui' = [run |-> r, off |-> 0, shown |-> <<>>, marker |-> FALSE, emptied |-> FALSE,
             mixed |-> FALSE]
  BY <1>1 DEF NoLines
<1>4. ui' \in [run: SomeRun, off: Cells, shown: Seq(LogLine), marker: BOOLEAN,
               emptied: BOOLEAN, mixed: BOOLEAN]
  BY <1>3, ShownTypes, NoLinesType DEF SomeRun
<1>5. Len(ui'.shown) <= Room(ui'.marker)
  BY <1>3, LogConstants DEF Room
<1>6. ui'.run <= status.run
  BY <1>1, <1>3 DEF Shown, NamedInOrder
<1>7. WindowIsLog'
  <2>1. Records(r, 0) = 0 /\ End(r, 0) = 0 /\ AreRecords(<<>>, r, 0)
    BY RunsAreNumbers, Counting, NoRecords DEF End
  <2>2. latest'.len \in Nat
    BY <1>1, ShownTypes, RunsAreNumbers DEF files
  <2> QED
    BY <1>3, <2>1, <2>2 DEF WindowIsLog
<1> QED
  BY <1>1, <1>2, <1>4, <1>5, <1>6, <1>7, WindowEnough

LEMMA ClearVisibleShows ==
    ASSUME Shown, ClearVisibleLogs
    PROVE  Shown'
<1>1. UNCHANGED <<files, rpc, maint, begun, clear>> /\ NextGeneration
      /\ ui' = [ui EXCEPT !.shown = <<>>, !.marker = FALSE, !.emptied = TRUE]
  BY DEF ClearVisibleLogs
<1>2. ui' \in [run: SomeRun, off: Cells, shown: Seq(LogLine), marker: BOOLEAN,
               emptied: BOOLEAN, mixed: BOOLEAN]
  BY <1>1, ShownTypes, NoLinesType
<1>3. ui'.shown = <<>> /\ ui'.emptied /\ ui'.run = ui.run /\ ui'.off = ui.off
      /\ ui'.mixed = ui.mixed /\ ui'.marker = FALSE
  BY <1>1, ShownTypes
<1>4. Len(ui'.shown) <= Room(ui'.marker)
  BY <1>3, LogConstants DEF Room
<1>5. begun' \subseteq Runs /\ ui'.run <= status.run
  BY <1>1, <1>3 DEF Shown, Shapes, TypeOK, NamedInOrder
<1>6. WindowIsLog'
  <2>1. Records(ui.run, ui.off) \in Nat
    BY ShownTypes, RunsAreNumbers, Counting
  <2> QED
    BY <1>1, <1>3, <2>1, NoRecords DEF Shown, WindowIsLog, files
<1> QED
  BY <1>1, <1>2, <1>4, <1>5, <1>6, WindowEnough

\* Old and new lines together, cut to what the window has room for.
LEMMA JoinedLines ==
    ASSUME NEW a \in Seq(LogLine), NEW b \in Seq(LogLine), NEW r, NEW last \in Nat,
           NEW room \in Nat,
           AreRecords(b, r, last), AreRecords(a, r, last - Len(b))
    PROVE  /\ KeepLast(a \o b, room) \in Seq(LogLine)
           /\ AreRecords(KeepLast(a \o b, room), r, last)
           /\ Len(KeepLast(a \o b, room)) = Smaller(Len(a) + Len(b), room)
<1>1. a \o b \in Seq(LogLine) /\ AreRecords(a \o b, r, last) /\ Len(a \o b) = Len(a) + Len(b)
  BY RecordsFollow
<1> DEFINE c == a \o b
<1> HIDE DEF c
<1>2. c \in Seq(LogLine) /\ AreRecords(c, r, last) /\ Len(c) = Len(a) + Len(b)
  BY <1>1 DEF c
<1>3. /\ KeepLast(c, room) \in Seq(LogLine)
      /\ Len(KeepLast(c, room)) = Smaller(Len(c), room)
  BY <1>2, KeepLastShape
<1>4. AreRecords(KeepLast(c, room), r, last)
  BY <1>2, KeepLastKeeps
<1> QED
  BY <1>2, <1>3, <1>4 DEF c

LEMMA ApplySnapshotShows ==
    ASSUME Shown, ApplySnapshot
    PROVE  Shown'
<1> DEFINE reset  == rd.reset \/ ui.run # rd.response
           base   == IF reset THEN <<>> ELSE ui.shown
           marker == rd.truncated \/ (~reset /\ ui.marker)
           mixed  == (rd.retry = 1 /\ rd.before # rd.response) \/ (~reset /\ ui.mixed)
           emptied == ~reset /\ ui.emptied
           shown  == KeepLast(base \o rd.lines, Room(marker))
<1>1. UNCHANGED <<files, rpc, maint, begun, clear>> /\ rd' = IdleRead /\ rd.at = "apply"
  BY DEF ApplySnapshot
<1>2. CASE UNCHANGED ui
  BY <1>1, <1>2, IdleIsFine
<1>3. CASE ~rd.discard /\ ui' = [run |-> rd.response, off |-> rd.pos, marker |-> marker,
                                 shown |-> shown, emptied |-> emptied, mixed |-> mixed]
  <2>1. base \in Seq(LogLine) /\ rd.lines \in Seq(LogLine)
    BY ShownTypes, NoLinesType DEF CallShapes
  <2>2. Room(marker) \in Nat
    BY LogConstants DEF Room
  <2>3. reset \in BOOLEAN /\ marker \in BOOLEAN /\ mixed \in BOOLEAN /\ emptied \in BOOLEAN
    BY ShownTypes DEF CallShapes
  <2>4. shown \in Seq(LogLine) /\ Len(shown) = Smaller(Len(base) + Len(rd.lines), Room(marker))
    <3> HIDE DEF base, marker
    <3>1. base \o rd.lines \in Seq(LogLine) /\ Len(base \o rd.lines) = Len(base) + Len(rd.lines)
      BY <2>1
    <3> QED
      BY <2>2, <3>1, KeepLastShape
  <2>5. rd.response \in SomeRun /\ rd.pos \in Cells /\ rd.response <= status.run
    BY ShownTypes DEF CallShapes
  <2>6. ui' \in [run: SomeRun, off: Cells, shown: Seq(LogLine), marker: BOOLEAN,
                 emptied: BOOLEAN, mixed: BOOLEAN]
    <3> HIDE DEF shown, marker, mixed, emptied
    <3> QED
      BY <1>3, <2>3, <2>4, <2>5
  <2>7. Len(ui'.shown) <= Room(ui'.marker)
    <3>1. Len(base) \in Nat /\ Len(rd.lines) \in Nat
      BY <2>1
    <3> HIDE DEF shown, marker, mixed, base, emptied
    <3> QED
      BY <1>3, <2>2, <2>4, <3>1 DEF Smaller
  <2>8. WindowIsLog'
    <3> SUFFICES ASSUME rd.response = latest.run, latest.run # NoRun, ~mixed
                 PROVE  LET last == Records(rd.response, rd.pos)
                        IN  /\ rd.pos = End(rd.response, last) /\ rd.pos <= latest.len
                            /\ AreRecords(shown, rd.response, last)
                            /\ \/ Len(shown) = last \/ marker \/ emptied
                               \/ Len(shown) = MaxLogLines
      <4> HIDE DEF shown, marker, mixed, emptied
      <4> QED
        BY <1>1, <1>3 DEF WindowIsLog, files
    <3> DEFINE last == Records(rd.response, rd.pos)
               first == last - Len(rd.lines)
    <3>1. rd.before = rd.response
      BY <1>1, ShownTypes DEF Shown, CallIsOfWindow, CallShapes
    <3>2. rd.reset \/ ~reset
      <4>1. ~rd.reset => rd.run = rd.before
        BY <1>1, <1>3, <3>1 DEF Shown, CallIsLog
      <4>2. rd.run = ui.run
        BY <1>1, <1>3 DEF Shown, CallIsOfWindow
      <4> QED
        BY <3>1, <4>1, <4>2
    <3>3. ReadIsLog
      BY <1>1, <1>3, <3>1, <3>2 DEF Shown, CallIsLog
    <3>4. last \in Nat /\ Len(rd.lines) \in Nat
      <4>1. rd.response \in Nat /\ rd.pos \in Nat
        BY <2>5, RunsAreNumbers
      <4>2. last \in Nat
        BY <4>1, Counting
      <4> HIDE DEF last
      <4> QED
        BY <2>1, <4>2
    <3>5. /\ rd.pos = End(rd.response, last) /\ rd.pos <= latest.len
          /\ AreRecords(rd.lines, rd.response, last)
          /\ rd.reset /\ ~rd.truncated => first = 0
          /\ rd.truncated => rd.reset
          /\ ~rd.reset => first = Records(ui.run, ui.off)
      BY <3>1, <3>3 DEF ReadIsLog
    <3>6. first \in Nat
      BY <3>4, <3>5 DEF AreRecords
    <3> HIDE DEF first, last
    <3>7. first = last - Len(rd.lines)
      BY DEF first, last
    <3>8. /\ AreRecords(base, rd.response, first)
          /\ \/ Len(base) = first \/ marker \/ emptied
             \/ ~marker /\ Len(base) = MaxLogLines
      <4>1. CASE rd.reset
        <5>1. base = <<>> /\ Len(<<>>) = 0 /\ (rd.truncated => marker)
          BY <4>1
        <5>2. AreRecords(<<>>, rd.response, first)
          BY <3>6, NoRecords
        <5> HIDE DEF base, marker, emptied
        <5> QED
          BY <3>5, <4>1, <5>1, <5>2
      <4>2. CASE ~rd.reset
        <5>1. base = ui.shown /\ (ui.marker => marker) /\ (ui.emptied => emptied)
              /\ ~ui.mixed /\ ui.run = rd.response
          BY <3>2, <4>2
        <5>2. /\ AreRecords(ui.shown, ui.run, first)
              /\ \/ Len(ui.shown) = first \/ ui.marker \/ ui.emptied
                 \/ Len(ui.shown) = MaxLogLines
          BY <3>5, <4>2, <5>1 DEF Shown, WindowIsLog
        <5> HIDE DEF base, marker, emptied
        <5> QED
          BY <5>1, <5>2
      <4> QED
        BY <4>1, <4>2
    <3>9. AreRecords(shown, rd.response, last)
      <4> HIDE DEF base, marker, emptied
      <4> QED
        BY <2>1, <2>2, <3>4, <3>5, <3>7, <3>8, JoinedLines
    <3>10. Len(shown) = last \/ marker \/ emptied \/ Len(shown) = MaxLogLines
      <4>1. ~marker => Room(marker) = MaxLogLines
        BY DEF Room
      <4>2. Len(base) \in Nat /\ MaxLogLines \in Nat
        BY <2>1, LogConstants
      <4> HIDE DEF base, marker, emptied, shown
      <4> QED
        BY <2>2, <2>4, <3>4, <3>6, <3>7, <3>8, <4>1, <4>2 DEF Smaller
    <3> QED
      BY <3>5, <3>9, <3>10 DEF last
  <2>9. begun' \subseteq Runs /\ ui'.run <= status.run
    BY <1>1, <1>3, <2>5 DEF Shown, Shapes, TypeOK
  <2> QED
    BY <1>1, <2>6, <2>7, <2>8, <2>9, WindowEnough
<1> QED
  BY <1>2, <1>3 DEF ApplySnapshot

LEMMA ShownInitially == Init => Shown
<1> SUFFICES ASSUME Init
             PROVE  Shown
  OBVIOUS
<1>1. /\ status = [run |-> 0, st |-> "none"] /\ latest = [run |-> 0, len |-> 0] /\ full = {}
      /\ rpc = [r \in Runs |-> "unborn"] /\ maint = NoRun /\ begun = {}
      /\ clear = [at |-> "idle", candidates |-> {}]
      /\ rd = [at |-> "idle", run |-> 0, off |-> 0, retry |-> 0, discard |-> FALSE,
               before |-> 0, active |-> FALSE, fileLen |-> 0, pos |-> 0, reset |-> FALSE,
               truncated |-> FALSE, lines |-> <<>>, response |-> 0]
      /\ ui = [run |-> 0, off |-> 0, shown |-> <<>>, marker |-> FALSE,
               emptied |-> FALSE, mixed |-> FALSE]
  BY DEF Init, IdleRead, NoLines, NoClear, NoRun
<1>2. 0 \in SomeRun /\ 0 \in Cells
  BY LogConstants DEF SomeRun, NoRun, Cells
<1>3. TypeOK
  BY <1>1, <1>2, LogConstants DEF TypeOK, SomeRun, NoRun, RunPoints, ReadPoints, Room
<1>4. Shapes
  BY <1>1, <1>2, <1>3, NoLinesType DEF Shapes, ReadPoints
<1>5. NamedInOrder
  BY <1>1, RunsAreNumbers DEF NamedInOrder
<1>6. WindowIsLog /\ CallIsOfWindow /\ CallIsLog
  BY <1>1 DEF WindowIsLog, CallIsOfWindow, CallIsLog, NoRun
<1> QED
  BY <1>4, <1>5, <1>6 DEF Shown

LEMMA ShownInductive == Kept /\ Shown /\ [Next]_vars => Shown'
<1> SUFFICES ASSUME Kept, Shown, [Next]_vars
             PROVE  Shown'
  OBVIOUS
<1>1. ASSUME NEW r \in Runs, RunStep(r)
      PROVE  Shown'
  BY <1>1, RunShows
<1>2. ASSUME NEW r \in Runs, BeginRun(r)
      PROVE  Shown'
  BY <1>2, BeginRunShows
<1>3. CASE Snapshot
  BY <1>3, PollShows, ReadBeforeShows, LatestMissingShows, OpenLatestShows, AlignTailShows,
     ReadChunkShows, ReadAfterShows, ApplySnapshotShows DEF Snapshot
<1>4. CASE ClearVisibleLogs
  BY <1>4, ClearVisibleShows
<1>5. CASE ClearStep
  BY <1>5, ClearShows
<1>6. CASE UNCHANGED vars
  BY <1>6 DEF vars, files, Shown, Shapes, TypeOK, NamedInOrder, WindowIsLog, CallIsOfWindow,
     CallIsLog, ReadIsLog
<1> QED
  BY <1>1, <1>2, <1>3, <1>4, <1>5, <1>6 DEF Next

LEMMA ShownAlways == Spec => [](Kept /\ Shown)
<1>1. Init => Kept /\ Shown
  BY KeptInitially, ShownInitially
<1>2. Kept /\ Shown /\ [Next]_vars => (Kept /\ Shown)'
  BY KeptInductive, ShownInductive
<1> QED
  BY <1>1, <1>2, PTL DEF Spec

\* Cursors stay within a log of the greatest length, the window never holds more lines than
\* MAX_LOG_LINES, the history marker included, and every point and flag is one of its kind
\* (the bounds of snapshot.rs and logPipeline.ts).
THEOREM TypeCorrect == Spec => []TypeOK
<1>1. Shown => TypeOK
  BY DEF Shown, Shapes
<1> QED
  BY <1>1, ShownAlways, PTL

\* A window that follows a run shows complete records of that run's log, in order, none twice
\* and none left out up to the cursor, whatever runs were started, files truncated, records torn
\* or windows emptied between its calls and within them (read_log_chunk, applySnapshot).
THEOREM ShownLogIsLog == Spec => []ShownIsLog
<1>1. Shown => ShownIsLog
  BY DEF Shown, WindowIsLog, AreRecords, ShownIsLog, Follows
<1> QED
  BY <1>1, ShownAlways, PTL
=============================================================================
