-------------------------------- MODULE RunLogs --------------------------------
(***************************************************************************)
(* latest.log and the per-run logs between three parties: the run that     *)
(* writes them, a window that polls snapshots of latest.log with a cursor, *)
(* and "clear history", which deletes logs under maintenance.lock.         *)
(* Sources: snapshot.rs; LogSink, start_run and clear_history_logs of      *)
(* retry_engine.rs; MaintenanceLease of run_manager.rs; logPipeline.ts and *)
(* the polling of useTauri.ts.                                             *)
(*                                                                         *)
(* Bytes are counted in cells, two to a record: a record whose second cell *)
(* (with the newline) is missing is a torn line.  What a cell holds is     *)
(* determined by the run that wrote the file and by its position.          *)
(***************************************************************************)
EXTENDS Naturals, Sequences

CONSTANTS
    MaxRuns,     \* bound: runs 1 .. MaxRuns, one after the other
    MaxRecords,  \* bound: records a run writes
    Preamble,    \* records a run writes before its `starting` status
    Backlog,     \* INITIAL_BACKLOG_BYTES, in cells
    Chunk,       \* MAX_SNAPSHOT_BYTES, in cells; holds the longest record
    MaxLogLines, \* MAX_LOG_LINES of the window
    Faults       \* TRUE: opening, writing or deleting a log may fail

ASSUME LogConstants ==
    /\ MaxRuns \in Nat /\ MaxRecords \in Nat
    /\ Preamble \in 1 .. MaxRecords
    /\ Backlog \in Nat \ {0} /\ Chunk \in Nat /\ Chunk >= 2
    /\ MaxLogLines \in Nat \ {0}
    /\ Faults \in BOOLEAN

VARIABLES
    status,  \* status.json: the run it names and what it says
    latest,  \* latest.log: the run whose LogSink truncated it last, and its length
    full,    \* runs whose own log file exists
    rpc,     \* where the task of each run stands
    maint,   \* holder of maintenance.lock: a run, Cleaner, or NoRun
    rd,      \* the snapshot call in flight
    ui,      \* cursor, lines and history marker of the window
    begun,   \* runs whose start the window has been told of (beginRun)
    clear    \* the clear_history_logs call in progress

files == <<status, latest, full>>
vars == <<status, latest, full, rpc, maint, rd, ui, begun, clear>>

-----------------------------------------------------------------------------
NoRun == 0
Cleaner == MaxRuns + 1
Runs == 1 .. MaxRuns
Cells == 0 .. 2 * MaxRecords

\* Two cells to a record, but the first record of every other run has one: an
\* offset into one run's log need not be a record boundary of the next run's.
Short(r) == 1 - (r % 2)
Records(r, cells) == (cells + Short(r)) \div 2       \* newlines among the first cells
End(r, n) == IF n = 0 THEN 0 ELSE 2 * n - Short(r)   \* where record n ends
WholeCells(r, cells) == End(r, Records(r, cells))
Line(r, n, whole) == [run |-> r, rec |-> n, whole |-> whole]

RunPoints == {"unborn", "opening", "preamble", "live", "over", "dead"}
ReadPoints == {"idle", "before", "open", "align", "read", "after", "apply"}
IsActive == status.st = "active"

IdleRead ==
    [at |-> "idle", run |-> NoRun, off |-> 0, retry |-> 0, discard |-> FALSE,
     before |-> NoRun, active |-> FALSE, fileLen |-> 0, pos |-> 0, reset |-> FALSE,
     truncated |-> FALSE, lines |-> <<>>, response |-> NoRun]

\* emptied and mixed only record how the lines came about: the user emptied the
\* window; the run changed twice during one call.
NoLines ==
    [run |-> NoRun, off |-> 0, shown |-> <<>>, marker |-> FALSE,
     emptied |-> FALSE, mixed |-> FALSE]
NoClear == [at |-> "idle", candidates |-> {}]

Init ==
    /\ status = [run |-> NoRun, st |-> "none"]
    /\ latest = [run |-> NoRun, len |-> 0]      \* run NoRun: there is no such file
    /\ full = {}
    /\ rpc = [r \in Runs |-> "unborn"]
    /\ maint = NoRun
    /\ rd = IdleRead /\ ui = NoLines
    /\ begun = {}
    /\ clear = NoClear

-----------------------------------------------------------------------------
(* The run: start_run and its LogSink                                      *)

Goto(r, point) == rpc' = [rpc EXCEPT ![r] = point]

\* reserve and MaintenanceLease::acquire.  run.lock admits a run only when the
\* previous one is gone; the id is fresh.
StartRun(r) ==
    /\ rpc[r] = "unborn" /\ maint = NoRun
    /\ \A q \in 1 .. (r - 1) : rpc[q] \in {"over", "dead"}
    /\ maint' = r /\ Goto(r, "opening")
    /\ UNCHANGED <<files, rd, ui, begun, clear>>

\* Mutant: the maintenance lease ends before the status names the run.
OpenLogUnleased(r) ==
    /\ rpc[r] = "opening"
    /\ full' = full \cup {r} /\ latest' = [run |-> r, len |-> 0]
    /\ maint' = NoRun /\ Goto(r, "preamble")
    /\ UNCHANGED <<status, rd, ui, begun, clear>>

\* LogSink::open: create_new for the run's log, truncate for latest.log.
OpenLog(r) ==
    /\ rpc[r] = "opening"
    /\ full' = full \cup {r} /\ latest' = [run |-> r, len |-> 0]
    /\ Goto(r, "preamble")
    /\ UNCHANGED <<status, maint, rd, ui, begun, clear>>

\* Either file cannot be opened: the run is recorded as failed, latest.log stays.
OpenLogFails(r) ==
    /\ Faults
    /\ rpc[r] = "opening"
    /\ full' \in {full, full \cup {r}}
    /\ status' = [run |-> r, st |-> "terminal"]
    /\ maint' = NoRun /\ Goto(r, "dead")
    /\ UNCHANGED <<latest, rd, ui, begun, clear>>

\* A write reaches the file; a flush may end within a record.
WriteLog(r) ==
    /\ \/ rpc[r] = "preamble" /\ latest.len < End(r, Preamble)
       \/ rpc[r] = "live" /\ latest.len < End(r, MaxRecords)
    /\ latest' = [latest EXCEPT !.len = @ + 1]
    /\ UNCHANGED <<status, full, rpc, maint, rd, ui, begun, clear>>

\* The preamble is flushed, `starting` names the run, the lease is dropped.
WriteStarting(r) ==
    /\ rpc[r] = "preamble" /\ latest.len = End(r, Preamble)
    /\ status' = [run |-> r, st |-> "active"]
    /\ maint' = NoRun /\ Goto(r, "live")
    /\ UNCHANGED <<latest, full, rd, ui, begun, clear>>

\* The last line is flushed before the terminal status is written.
Finish(r) ==
    /\ rpc[r] = "live" /\ latest.len = WholeCells(r, latest.len)
    /\ status' = [run |-> r, st |-> "terminal"]
    /\ Goto(r, "over")
    /\ UNCHANGED <<latest, full, maint, rd, ui, begun, clear>>

\* The process dies, or a log write fails and `?` leaves the task (rpc "dead"
\* either way: locks are released, no terminal status).  The window's own
\* process stays up.  Left out: the line a panicking run still appends to
\* latest.log when its lease is gone (append_emergency_log).
Crash(r) ==
    /\ rpc[r] \in {"opening", "preamble", "live"} /\ (r \in begun => Faults)
    /\ maint' = IF maint = r THEN NoRun ELSE maint
    /\ Goto(r, "dead")
    /\ UNCHANGED <<files, rd, ui, begun, clear>>

-----------------------------------------------------------------------------
(* read_snapshot                                                           *)

\* The owner of an active status is gone, and no later run holds run.lock
\* (reconcile_stale_status, RunCoordination).
Reconciled ==
    IF IsActive /\ \A r \in Runs : rpc[r] \in {"unborn", "over", "dead"}
    THEN [status EXCEPT !.st = "terminal"] ELSE status

\* The window asks from its cursor; one call is in flight at a time.  Its reconciliation
\* may find the lock not yet released, or probed by another window.
Poll ==
    /\ rd.at = "idle"
    /\ status' \in {status, Reconciled}
    /\ rd' = [IdleRead EXCEPT !.at = "before", !.run = ui.run, !.off = ui.off]
    /\ UNCHANGED <<latest, full, rpc, maint, ui, begun, clear>>

\* status_before
ReadBefore ==
    /\ rd.at = "before"
    /\ rd' = [rd EXCEPT !.at = "open", !.before = status.run, !.active = IsActive]
    /\ UNCHANGED <<files, rpc, maint, ui, begun, clear>>

LatestMissing ==
    /\ rd.at = "open" /\ latest.run = NoRun
    /\ rd' = [rd EXCEPT !.at = "after", !.reset = rd.run # rd.before \/ rd.off > 0,
                        !.active = FALSE]
    /\ UNCHANGED <<files, rpc, maint, ui, begun, clear>>

\* Open latest.log, take its length, decide where to read.  A window that knows no
\* run starts near the end of a long log of a run in progress.
OpenLatest ==
    LET reset == rd.run # rd.before \/ rd.off > latest.len
        tail  == rd.run = NoRun /\ rd.active /\ latest.len > Backlog
    IN  /\ rd.at = "open" /\ latest.run # NoRun
        /\ rd' = [rd EXCEPT !.at = IF tail THEN "align" ELSE "read",
                            !.active = FALSE,
                            !.fileLen = latest.len, !.reset = reset \/ tail,
                            !.pos = IF reset THEN 0 ELSE rd.off]
        /\ UNCHANGED <<files, rpc, maint, ui, begun, clear>>

Smaller(a, b) == IF a < b THEN a ELSE b

\* The snapshot ends with an error, which the window reports; it asks again later.
ReadFails == rd' = IdleRead

\* align_to_next_record: the first newline behind the candidate.
AlignTail ==
    LET next == End(latest.run, Records(latest.run, rd.fileLen - Backlog) + 1)
    IN  /\ rd.at = "align"
        /\ \/ /\ next <= Smaller(rd.fileLen, latest.len)
              /\ rd' = [rd EXCEPT !.at = "read", !.pos = next, !.truncated = TRUE]
           \/ /\ next > Smaller(rd.fileLen, latest.len)
              /\ ReadFails
        /\ UNCHANGED <<files, rpc, maint, ui, begun, clear>>

LinesBetween(from, to) ==
    LET first == Records(latest.run, from)
    IN  [i \in 1 .. (Records(latest.run, to) - first) |->
            Line(latest.run, first + i, i > 1 \/ from = WholeCells(latest.run, from))]

\* Mutant: a chunk that ends within a record is left for later as a whole.
ReadChunkWhole ==
    LET limit == Smaller(rd.fileLen - rd.pos, Chunk)
        end   == Smaller(rd.pos + limit, latest.len)
        done  == IF end = WholeCells(latest.run, end) THEN end ELSE rd.pos
    IN  /\ rd.at = "read"
        /\ rd' = [rd EXCEPT !.at = "after", !.pos = done,
                            !.lines = IF done > rd.pos THEN LinesBetween(rd.pos, done) ELSE <<>>]
        /\ UNCHANGED <<files, rpc, maint, ui, begun, clear>>

\* Read at most a chunk of what was there at the opening (the file may have been
\* truncated since) and keep the records that are complete.
ReadChunk ==
    LET available == rd.fileLen - rd.pos
        limit == Smaller(available, Chunk)
        done  == WholeCells(latest.run, Smaller(rd.pos + limit, latest.len))
    IN  /\ rd.at = "read"
        /\ \/ /\ done > rd.pos
              /\ rd' = [rd EXCEPT !.at = "after", !.pos = done, !.fileLen = 0,
                                  !.lines = LinesBetween(rd.pos, done)]
           \/ /\ done <= rd.pos /\ limit < available
              /\ ReadFails
           \/ /\ done <= rd.pos /\ limit = available
              /\ rd' = [rd EXCEPT !.at = "after", !.fileLen = 0, !.lines = <<>>]
        /\ UNCHANGED <<files, rpc, maint, ui, begun, clear>>

\* Mutant: the response is never read again for a run that began meanwhile.
ReadAfterOnce ==
    /\ rd.at = "after"
    /\ rd' = [rd EXCEPT !.at = "apply", !.response = status.run]
    /\ UNCHANGED <<files, rpc, maint, ui, begun, clear>>

\* status_after; a first read across a change of run is repeated once.
ReadAfter ==
    /\ rd.at = "after"
    /\ \/ /\ rd.retry = 0 /\ rd.before # status.run
          /\ rd' = [rd EXCEPT !.at = "before", !.retry = 1, !.pos = 0, !.lines = <<>>,
                              !.reset = FALSE, !.truncated = FALSE]
       \/ /\ rd.retry = 1 \/ rd.before = status.run
          /\ rd' = [rd EXCEPT !.at = "apply", !.response = status.run]
    /\ UNCHANGED <<files, rpc, maint, ui, begun, clear>>

-----------------------------------------------------------------------------
(* The window: applySnapshot, beginRun, clearVisibleLogs                   *)

KeepLast(lines, n) ==
    IF Len(lines) > n THEN SubSeq(lines, Len(lines) - n + 1, Len(lines)) ELSE lines

\* Lines the window has room for besides the history marker.
Room(marker) == IF marker THEN MaxLogLines - 1 ELSE MaxLogLines

\* Mutant: the history marker takes no room.
ApplySnapshotOverfull ==
    LET reset  == rd.reset \/ ui.run # rd.response
        base   == IF reset THEN <<>> ELSE ui.shown
        marker == rd.truncated \/ (~reset /\ ui.marker)
    IN  /\ rd.at = "apply"
        /\ \/ /\ ~rd.discard
              /\ ui' = [run |-> rd.response, off |-> rd.pos, marker |-> marker,
                        shown |-> KeepLast(base \o rd.lines, MaxLogLines),
                        emptied |-> ~reset /\ ui.emptied,
                        mixed |-> (rd.retry = 1 /\ rd.before # rd.response) \/ (~reset /\ ui.mixed)]
           \/ /\ rd.discard /\ UNCHANGED ui
        /\ rd' = IdleRead
        /\ UNCHANGED <<files, rpc, maint, begun, clear>>

\* A response of an earlier generation is ignored.
ApplySnapshot ==
    LET reset  == rd.reset \/ ui.run # rd.response
        base   == IF reset THEN <<>> ELSE ui.shown
        marker == rd.truncated \/ (~reset /\ ui.marker)
    IN  /\ rd.at = "apply"
        /\ \/ /\ ~rd.discard
              /\ ui' = [run |-> rd.response, off |-> rd.pos, marker |-> marker,
                        shown |-> KeepLast(base \o rd.lines, Room(marker)),
                        emptied |-> ~reset /\ ui.emptied,
                        mixed |-> (rd.retry = 1 /\ rd.before # rd.response) \/ (~reset /\ ui.mixed)]
           \/ /\ rd.discard /\ UNCHANGED ui
        /\ rd' = IdleRead
        /\ UNCHANGED <<files, rpc, maint, begun, clear>>

\* generationRef += 1: an answer under way belongs to the past.
NextGeneration == rd' = [rd EXCEPT !.discard = rd.at # "idle"]

\* start_command_loop answered: the window shows this run from its first byte.
BeginRun(r) ==
    /\ rpc[r] \in {"live", "over"} /\ r \notin begun
    /\ begun' = begun \cup {r}
    /\ ui' = [NoLines EXCEPT !.run = r]
    /\ NextGeneration
    /\ UNCHANGED <<files, rpc, maint, clear>>

\* The cursor stays where it is.
ClearVisibleLogs ==
    /\ ui.shown # <<>>
    /\ ui' = [ui EXCEPT !.shown = <<>>, !.marker = FALSE, !.emptied = TRUE]
    /\ NextGeneration
    /\ UNCHANGED <<files, rpc, maint, begun, clear>>

-----------------------------------------------------------------------------
(* clear_history_logs                                                      *)

\* Take the lease, read which log an active run owns, list the other run logs
\* (latest.log is none of them).  Nobody creates one before the lease is dropped, so
\* the list does not depend on the moment.
ClearBegin ==
    /\ clear.at = "idle" /\ maint = NoRun
    /\ maint' = Cleaner
    /\ clear' = [at |-> "delete",
                 candidates |-> IF IsActive THEN full \ {status.run} ELSE full]
    /\ UNCHANGED <<files, rpc, rd, ui, begun>>

ClearDelete(r) ==
    /\ clear.at = "delete" /\ r \in clear.candidates
    /\ full' = full \ {r}
    /\ clear' = [clear EXCEPT !.candidates = @ \ {r}]
    /\ UNCHANGED <<status, latest, rpc, maint, rd, ui, begun>>

\* A sharing violation: somebody has the file open.
ClearSkip(r) ==
    /\ Faults
    /\ clear.at = "delete" /\ r \in clear.candidates
    /\ clear' = [clear EXCEPT !.candidates = @ \ {r}]
    /\ UNCHANGED <<files, rpc, maint, rd, ui, begun>>

\* All done, or the first other error ends the call.
ClearEnd ==
    /\ clear.at = "delete" /\ (clear.candidates = {} \/ Faults)
    /\ maint' = NoRun /\ clear' = NoClear
    /\ UNCHANGED <<files, rpc, rd, ui, begun>>

-----------------------------------------------------------------------------
RunStep(r) ==
    \/ StartRun(r) \/ OpenLog(r) \/ OpenLogFails(r) \/ WriteLog(r)
    \/ WriteStarting(r) \/ Finish(r) \/ Crash(r)

Snapshot ==
    \/ Poll \/ ReadBefore \/ LatestMissing \/ OpenLatest \/ AlignTail \/ ReadChunk
    \/ ReadAfter \/ ApplySnapshot

ClearStep == ClearBegin \/ (\E r \in Runs : ClearDelete(r) \/ ClearSkip(r)) \/ ClearEnd

Next ==
    \/ \E r \in Runs : RunStep(r) \/ BeginRun(r)
    \/ Snapshot \/ ClearVisibleLogs
    \/ ClearStep

Spec == Init /\ [][Next]_vars

\* An open window polls on a timer, after errors too.
FairSpec == Spec /\ WF_vars(Snapshot)

-----------------------------------------------------------------------------
(* Properties                                                              *)

\* Types and limits: cursors lie within a log, the window never holds more lines than
\* MAX_LOG_LINES, marker included.
TypeOK ==
    /\ status \in [run: Runs \cup {NoRun}, st: {"none", "active", "terminal"}]
    /\ latest \in [run: Runs \cup {NoRun}, len: Cells]
    /\ full \subseteq Runs /\ begun \subseteq Runs
    /\ rpc \in [Runs -> RunPoints]
    /\ maint \in Runs \cup {NoRun, Cleaner}
    /\ rd.at \in ReadPoints /\ rd.pos \in Cells /\ rd.off \in Cells /\ rd.retry \in 0 .. 1
    /\ ui.run \in Runs \cup {NoRun} /\ ui.off \in Cells
    /\ Len(ui.shown) <= Room(ui.marker)
    /\ clear.at \in {"idle", "delete"}
    /\ clear.candidates \subseteq Runs

\* The window and the status agree on a run whose LogSink wrote latest.log.
Follows(r) == r # NoRun /\ ui.run = r /\ status.run = r /\ ~ui.mixed

\* A window that follows a run shows complete lines of that run's log, in order, none
\* twice and none left out, up to the cursor: whatever was truncated, restarted, torn
\* or cleared between the polls (read_log_chunk, applySnapshot).
ShownIsLog ==
    LET n == Len(ui.shown)
        last == Records(ui.run, ui.off)
    IN  Follows(latest.run) =>
            /\ ui.off = End(ui.run, last) /\ ui.off <= latest.len
            /\ n <= last
            /\ ui.shown = [i \in 1 .. n |-> Line(ui.run, last - n + i, TRUE)]
            /\ n = last \/ ui.marker \/ ui.emptied \/ n = MaxLogLines

\* "Clear history" never deletes the log of a run that is starting or in progress,
\* although it reads the status long before it deletes (clear_history_logs and
\* start_run share maintenance.lock).
LiveLogKept ==
    [][\A r \in full \ full' : rpc[r] \in {"over", "dead"}]_vars

\* Whatever is complete in the log of the last run is shown in the end, a torn last
\* line never blocks it, if the user stops emptying the window and a start that died
\* early did not leave latest.log without a status.
CatchesUp ==
    \A r \in Runs :
        (<>[](latest.run = r /\ status.run = r) /\ <>[][~ClearVisibleLogs]_vars)
            => <>[](ui.run = r /\ (~ui.mixed => ui.off = WholeCells(r, latest.len)))
=============================================================================
