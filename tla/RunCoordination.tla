-------------------------- MODULE RunCoordination --------------------------
(***************************************************************************)
(* How app processes (GUI windows, headless and scheduled instances) share *)
(* one app-data directory: run.lock, status.json and stop-request.json,    *)
(* the RunManager of each process, the steps of starting a run and of      *)
(* dropping its lease, recovery of a stale status, and closing a window.   *)
(* Sources: run_manager.rs, status_store.rs, start_run and the task        *)
(* wrapper of retry_engine.rs, the close handler of main.rs.               *)
(*                                                                         *)
(* A run is one task of its owner process; RetryEngine details what        *)
(* happens while it is "live".                                             *)
(***************************************************************************)
EXTENDS Naturals, FiniteSets

CONSTANTS
    Procs,    \* processes that may be up, each with its own RunManager
    Runs,     \* run ids: each is used by one call of start_run
    Stable,   \* processes that never crash and are never closed
    Faults,   \* TRUE: starting or finishing a run may hit a log or status error
    Panics,   \* TRUE: the run task may panic
    Timeouts, \* TRUE: the 15 s wait of a closing window may run out
    None      \* no run, no process

ASSUME CoordinationConstants ==
    /\ Stable \subseteq Procs
    /\ Procs \cap Runs = {}
    /\ None \notin Procs \cup Runs
    /\ Faults \in BOOLEAN /\ Panics \in BOOLEAN /\ Timeouts \in BOOLEAN

VARIABLES
    lock,     \* holder of run.lock: a run's ProcessLock, a process's probe, or None
    status,   \* status.json: whose it is and what it says
    stopReq,  \* the run named by stop-request.json
    rpc,      \* where the task of each run stands
    owner,    \* the process that called start_run for it
    stopped,  \* runs told to stop: token cancelled, or request read by a worker
    panicked, \* runs whose task panicked
    lost,     \* history: runs that ended by an error before their verdict was on disk
    active,   \* RunManager.active of each process
    up,       \* processes that are running
    rec,      \* each process's reconcile_stale_status call
    closing,  \* each GUI's close handler
    seen      \* status a task or close handler has read and not yet acted on

locals == <<owner, stopped, panicked, lost, active>>
vars == <<lock, status, stopReq, rpc, locals, up, rec, closing, seen>>

-----------------------------------------------------------------------------
Actors == Procs \cup Runs
Terminal == {"Success", "Failed", "Stopped"}
Statuses == [run: Runs \cup {None}, st: {"none", "active"} \cup Terminal]
Says(r, s) == [run |-> r, st |-> s]
IsActive == status.st = "active"

\* Points of start_run ("locked" .. "accepted"), of the run task ("live",
\* "finished"), of RunLease::drop ("dropping" .. "releasing") and of the panic
\* recorder; "dead" is a task whose process is gone.
Holding == {"locked", "reserved", "accepted", "live", "finished",
            "dropping", "removing", "unlocking"}
Executing == {"accepted", "live"}
RunPoints == Holding \cup {"unborn", "rejected", "releasing", "panicRead", "panicWrite",
                           "gone", "dead"}
RecPoints == {"idle", "observed", "probing"}
ClosePoints == {"open", "waiting", "failRead", "failWrite"}

Init ==
    /\ lock = None /\ status = Says(None, "none") /\ stopReq = None
    /\ rpc = [r \in Runs |-> "unborn"]
    /\ owner = [r \in Runs |-> None]
    /\ stopped = {} /\ panicked = {} /\ lost = {}
    /\ active = [p \in Procs |-> None]
    /\ up = Procs
    /\ rec = [p \in Procs |-> [at |-> "idle", run |-> None]]
    /\ closing = [p \in Procs |-> [at |-> "open", run |-> None]]
    /\ seen = [a \in Actors |-> Says(None, "none")]

Goto(r, point) == rpc' = [rpc EXCEPT ![r] = point]

-----------------------------------------------------------------------------
(* start_run: RunManager::reserve, the first status, the first child       *)

\* Mutant: a busy run.lock is not an obstacle.
StartRunUnlocked(p, r) ==
    /\ p \in up /\ rpc[r] = "unborn"
    /\ owner' = [owner EXCEPT ![r] = p]
    /\ lock' = r /\ Goto(r, "locked")
    /\ UNCHANGED <<status, stopReq, stopped, panicked, lost, active, up, rec, closing, seen>>

\* ProcessLock::try_acquire fails while anybody holds the lock, probes included.
StartRun(p, r) ==
    /\ p \in up /\ rpc[r] = "unborn"
    /\ owner' = [owner EXCEPT ![r] = p]
    /\ \/ lock = None /\ lock' = r /\ Goto(r, "locked")
       \/ lock # None /\ UNCHANGED lock /\ Goto(r, "rejected")
    /\ UNCHANGED <<status, stopReq, stopped, panicked, lost, active, up, rec, closing, seen>>

\* Mutant: the lock survives a refused reservation.
ReserveLocalLeaksLock(r) ==
    /\ rpc[r] = "locked"
    /\ \/ /\ active[owner[r]] = None
          /\ active' = [active EXCEPT ![owner[r]] = r]
          /\ Goto(r, "reserved")
       \/ /\ active[owner[r]] # None
          /\ Goto(r, "rejected")
          /\ UNCHANGED active
    /\ UNCHANGED <<lock, status, stopReq, owner, stopped, panicked, lost, up, rec, closing, seen>>

\* The in-process reservation; if it is taken the lock is dropped again.
ReserveLocal(r) ==
    /\ rpc[r] = "locked"
    /\ \/ /\ active[owner[r]] = None
          /\ active' = [active EXCEPT ![owner[r]] = r]
          /\ Goto(r, "reserved")
          /\ UNCHANGED lock
       \/ /\ active[owner[r]] # None
          /\ lock' = None
          /\ Goto(r, "rejected")
          /\ UNCHANGED active
    /\ UNCHANGED <<status, stopReq, owner, stopped, panicked, lost, up, rec, closing, seen>>

\* Under the maintenance lock: open the logs, then publish `starting`.
WriteStarting(r) ==
    /\ rpc[r] = "reserved"
    /\ \/ status' = Says(r, "active") /\ Goto(r, "accepted")
       \/ Faults /\ status' = Says(r, "Failed") /\ Goto(r, "dropping") \* LogSink::open
       \/ Faults /\ UNCHANGED status /\ Goto(r, "dropping")            \* a later `?`
    /\ UNCHANGED <<lock, stopReq, locals, up, rec, closing, seen>>

\* A failed spawn writes `failed`, unless a `?` on the log or the status comes first.
SpawnFirstChild(r) ==
    /\ rpc[r] = "accepted"
    /\ \/ UNCHANGED <<status, lost>> /\ Goto(r, "live")
       \/ Faults /\ status' = Says(r, "Failed") /\ Goto(r, "dropping") /\ UNCHANGED lost
       \/ Faults /\ lost' = lost \cup {r} /\ Goto(r, "dropping") /\ UNCHANGED status
    /\ UNCHANGED <<lock, stopReq, owner, stopped, panicked, active, up, rec, closing, seen>>

-----------------------------------------------------------------------------
(* The run task: run_retry_loop inside catch_unwind                        *)

Publish(r) ==
    /\ rpc[r] = "live"
    /\ status' = Says(r, "active")
    /\ UNCHANGED <<lock, stopReq, rpc, locals, up, rec, closing, seen>>

\* is_stop_requested in a worker's poll
ReadStopRequest(r) ==
    /\ rpc[r] = "live" /\ stopReq = r
    /\ stopped' = stopped \cup {r}
    /\ UNCHANGED <<lock, status, stopReq, rpc, owner, panicked, lost, active>>
    /\ UNCHANGED <<up, rec, closing, seen>>

\* Mutant: a stopped run writes no terminal status.
FinishUnwritten(r, s) ==
    /\ rpc[r] = "live"
    /\ s = "Stopped" => r \in stopped
    /\ status' = IF s = "Stopped" THEN status ELSE Says(r, s)
    /\ Goto(r, "finished")
    /\ UNCHANGED <<lock, stopReq, locals, up, rec, closing, seen>>

\* The terminal status; `Stopped` is the verdict of a worker told to stop.
Finish(r, s) ==
    /\ rpc[r] = "live"
    /\ s = "Stopped" => r \in stopped
    /\ status' = Says(r, s)
    /\ Goto(r, "finished")
    /\ UNCHANGED <<lock, stopReq, locals, up, rec, closing, seen>>

\* A `?` on the log or on the status at the end of run_retry_loop: the lease goes, no
\* verdict is written, and the task's error is seen by nobody who would write one.
FinishFault(r) ==
    /\ Faults /\ rpc[r] = "live"
    /\ lost' = lost \cup {r}
    /\ Goto(r, "dropping")
    /\ UNCHANGED <<lock, status, stopReq, owner, stopped, panicked, active, up, rec, closing, seen>>

Panic(r) ==
    /\ Panics /\ rpc[r] \in {"live", "finished"}
    /\ panicked' = panicked \cup {r}
    /\ Goto(r, "dropping")
    /\ UNCHANGED <<lock, status, stopReq, owner, stopped, lost, active, up, rec, closing, seen>>

\* The notification is out: the future returns and its lease is dropped.
Notified(r) ==
    /\ rpc[r] = "finished"
    /\ Goto(r, "dropping")
    /\ UNCHANGED <<lock, status, stopReq, locals, up, rec, closing, seen>>

-----------------------------------------------------------------------------
(* Drop for RunLease: requests, lock, reservation, completion              *)

\* Mutant: the lease is given up before its request is cleared.
ClearStopReadLast(r) ==
    /\ rpc[r] = "dropping"
    /\ Goto(r, IF stopReq = r THEN "removing" ELSE "unlocking")
    /\ lock' = None
    /\ active' = [active EXCEPT ![owner[r]] = None]
    /\ UNCHANGED <<status, stopReq, owner, stopped, panicked, lost, up, rec, closing, seen>>

\* clear_stop_request_if_matches reads the file ...
ClearStopRead(r) ==
    /\ rpc[r] = "dropping"
    /\ Goto(r, IF stopReq = r THEN "removing" ELSE "unlocking")
    /\ UNCHANGED <<lock, status, stopReq, locals, up, rec, closing, seen>>

\* ... and removes whatever is there by then.
ClearStopRemove(r) ==
    /\ rpc[r] = "removing"
    /\ stopReq' = None
    /\ Goto(r, "unlocking")
    /\ UNCHANGED <<lock, status, locals, up, rec, closing, seen>>

Unlock(r) ==
    /\ rpc[r] = "unlocking"
    /\ lock' = None
    /\ Goto(r, "releasing")
    /\ UNCHANGED <<status, stopReq, locals, up, rec, closing, seen>>

\* RunManager::release and the completion signal
Release(r) ==
    /\ rpc[r] = "releasing"
    /\ active' = [active EXCEPT ![owner[r]] = IF @ = r THEN None ELSE @]
    /\ Goto(r, IF r \in panicked THEN "panicRead" ELSE "gone")
    /\ UNCHANGED <<lock, status, stopReq, owner, stopped, panicked, lost, up, rec, closing, seen>>

\* record_panic_failure runs after the unwinding dropped the lease: it reads
\* whatever status is there (or cannot, and takes its own) and writes it back as failed.
PanicRead(r) ==
    /\ rpc[r] = "panicRead"
    /\ \/ status.run # None /\ seen' = [seen EXCEPT ![r] = status]
       \/ (status.run = None \/ Faults) /\ seen' = [seen EXCEPT ![r] = Says(r, "active")]
    /\ Goto(r, "panicWrite")
    /\ UNCHANGED <<lock, status, stopReq, locals, up, rec, closing>>

\* A failed write is only printed.
PanicWrite(r) ==
    /\ rpc[r] = "panicWrite"
    /\ \/ status' = Says(seen[r].run, "Failed") /\ UNCHANGED lost
       \/ Faults /\ lost' = lost \cup {r} /\ UNCHANGED status
    /\ seen' = [seen EXCEPT ![r] = Says(None, "none")]
    /\ Goto(r, "gone")
    /\ UNCHANGED <<lock, stopReq, owner, stopped, panicked, active, up, rec, closing>>

-----------------------------------------------------------------------------
(* RunManager::request_stop, from any process, for any run ever started    *)

RequestStop(p, r) ==
    /\ p \in up /\ owner[r] # None
    /\ \/ active[p] = r /\ stopped' = stopped \cup {r} /\ UNCHANGED stopReq
       \/ active[p] = None /\ stopReq' = r /\ UNCHANGED stopped
    /\ UNCHANGED <<lock, status, rpc, owner, panicked, lost, active, up, rec, closing, seen>>

-----------------------------------------------------------------------------
(* reconcile_stale_status, at start-up and in every snapshot poll          *)

SetRec(p, at, r) == rec' = [rec EXCEPT ![p] = [at |-> at, run |-> r]]

\* Mutant: only a run of this process is worth a look.
ReconcileObserveOwn(p) ==
    /\ p \in up /\ rec[p].at = "idle"
    /\ IsActive /\ owner[status.run] = p
    /\ SetRec(p, "observed", status.run)
    /\ UNCHANGED <<lock, status, stopReq, rpc, locals, up, closing, seen>>

ReconcileObserve(p) ==
    /\ p \in up /\ rec[p].at = "idle"
    /\ IsActive
    /\ SetRec(p, "observed", status.run)
    /\ UNCHANGED <<lock, status, stopReq, rpc, locals, up, closing, seen>>

\* Mutant: the lock is not probed.
ReconcileUnprobed(p) ==
    /\ rec[p].at = "observed"
    /\ SetRec(p, "probing", rec[p].run)
    /\ UNCHANGED <<lock, status, stopReq, rpc, locals, up, closing, seen>>

\* try_acquire_existing: a held lock means the owner lives.
ReconcileProbe(p) ==
    /\ rec[p].at = "observed"
    /\ \/ lock = None /\ lock' = p /\ SetRec(p, "probing", rec[p].run)
       \/ lock # None /\ UNCHANGED lock /\ SetRec(p, "idle", None)
    /\ UNCHANGED <<status, stopReq, rpc, locals, up, closing, seen>>

\* Mutant: the status is not read again under the lock.
ReconcileWriteUnread(p) ==
    /\ rec[p].at = "probing"
    /\ status' = Says(rec[p].run, "Failed")
    /\ lock' = None
    /\ SetRec(p, "idle", None)
    /\ UNCHANGED <<stopReq, rpc, locals, up, closing, seen>>

\* Re-read under the lock, mark the same run failed, drop the probe.
ReconcileWrite(p) ==
    /\ rec[p].at = "probing"
    /\ status' = IF status.run = rec[p].run /\ IsActive THEN Says(status.run, "Failed") ELSE status
    /\ lock' = None
    /\ SetRec(p, "idle", None)
    /\ UNCHANGED <<stopReq, rpc, locals, up, closing, seen>>

-----------------------------------------------------------------------------
(* A process goes away: the OS drops its locks, its tasks stop             *)

Vanish(p) ==
    LET mine == {r \in Runs : owner[r] = p /\ rpc[r] \notin {"unborn", "rejected", "gone"}}
    IN  /\ up' = up \ {p}
        /\ lock' = IF lock = p \/ lock \in mine THEN None ELSE lock
        /\ rpc' = [r \in Runs |-> IF r \in mine THEN "dead" ELSE rpc[r]]
        /\ active' = [active EXCEPT ![p] = None]
        /\ rec' = [rec EXCEPT ![p] = [at |-> "idle", run |-> None]]
        /\ closing' = [closing EXCEPT ![p] = [at |-> "open", run |-> None]]
        /\ seen' = [a \in Actors |-> IF a \in mine \cup {p} THEN Says(None, "none") ELSE seen[a]]
        /\ UNCHANGED <<stopReq, owner, stopped, panicked, lost>>

Crash(p) ==
    /\ p \in up \ Stable
    /\ Vanish(p)
    /\ UNCHANGED status

Launch(p) ==
    /\ p \notin up
    /\ up' = up \cup {p}
    /\ UNCHANGED <<lock, status, stopReq, rpc, locals, rec, closing, seen>>

-----------------------------------------------------------------------------
(* CloseRequested of a GUI window                                          *)

SetClosing(p, at, r) == closing' = [closing EXCEPT ![p] = [at |-> at, run |-> r]]

CloseWithoutRun(p) ==
    /\ p \in up \ Stable /\ closing[p].at = "open" /\ active[p] = None
    /\ Vanish(p)
    /\ UNCHANGED status

\* prevent_close, cancel, and wait for the lease's completion signal
CloseCancels(p) ==
    /\ p \in up \ Stable /\ closing[p].at = "open" /\ active[p] # None
    /\ stopped' = stopped \cup {active[p]}
    /\ SetClosing(p, "waiting", active[p])
    /\ UNCHANGED <<lock, status, stopReq, rpc, owner, panicked, lost, active, up, rec, seen>>

Completed(r) == rpc[r] \in {"gone", "panicRead", "panicWrite"}

CloseCompleted(p) ==
    /\ closing[p].at = "waiting" /\ Completed(closing[p].run)
    /\ Vanish(p)
    /\ UNCHANGED status

CloseTimesOut(p) ==
    /\ Timeouts
    /\ closing[p].at = "waiting" /\ ~Completed(closing[p].run)
    /\ SetClosing(p, "failRead", closing[p].run)
    /\ UNCHANGED <<lock, status, stopReq, rpc, locals, up, rec, seen>>

\* fail_active_run_if_matches: read and check, without run.lock ...
CloseReads(p) ==
    /\ closing[p].at = "failRead"
    /\ \/ /\ status.run = closing[p].run /\ IsActive
          /\ seen' = [seen EXCEPT ![p] = status]
          /\ SetClosing(p, "failWrite", closing[p].run)
          /\ UNCHANGED <<lock, rpc, active, up, rec, stopReq, owner, stopped, panicked, lost>>
       \/ /\ ~(status.run = closing[p].run /\ IsActive)
          /\ Vanish(p)
    /\ UNCHANGED status

\* ... then write; window.destroy ends the process.
CloseWrites(p) ==
    /\ closing[p].at = "failWrite"
    /\ status' = Says(seen[p].run, "Failed")
    /\ Vanish(p)

-----------------------------------------------------------------------------
RunStep(r) ==
    \/ ReserveLocal(r) \/ WriteStarting(r) \/ SpawnFirstChild(r)
    \/ Publish(r) \/ ReadStopRequest(r)
    \/ (\E s \in Terminal : Finish(r, s)) \/ FinishFault(r) \/ Panic(r)
    \/ Notified(r) \/ ClearStopRead(r) \/ ClearStopRemove(r) \/ Unlock(r) \/ Release(r)
    \/ PanicRead(r) \/ PanicWrite(r)

Reconcile(p) == ReconcileObserve(p) \/ ReconcileProbe(p) \/ ReconcileWrite(p)

Close(p) ==
    \/ CloseWithoutRun(p) \/ CloseCancels(p) \/ CloseCompleted(p)
    \/ CloseTimesOut(p) \/ CloseReads(p) \/ CloseWrites(p)

Next ==
    \/ \E r \in Runs : RunStep(r)
    \/ \E p \in Procs, r \in Runs : StartRun(p, r) \/ RequestStop(p, r)
    \/ \E p \in Procs : Reconcile(p) \/ Close(p) \/ Crash(p) \/ Launch(p)

Spec == Init /\ [][Next]_vars

\* A window that stays open polls its snapshot every second; crashes do not hit the
\* few milliseconds between probe and write each time; a lease that is being dropped
\* is dropped to the end.
FairSpec ==
    /\ Spec
    /\ \A p \in Stable : WF_vars(Reconcile(p))
    /\ \A p \in Procs : SF_vars(ReconcileWrite(p))
    /\ \A r \in Runs : WF_vars(ReserveLocal(r) \/ WriteStarting(r) \/ SpawnFirstChild(r)
                               \/ Notified(r) \/ ClearStopRead(r) \/ ClearStopRemove(r)
                               \/ Unlock(r) \/ Release(r))

-----------------------------------------------------------------------------
(* Properties                                                              *)

\* Every variable keeps its type.
TypeOK ==
    /\ lock \in Actors \cup {None}
    /\ status \in Statuses
    /\ stopReq \in Runs \cup {None}
    /\ rpc \in [Runs -> RunPoints]
    /\ owner \in [Runs -> Procs \cup {None}]
    /\ stopped \subseteq Runs /\ panicked \subseteq Runs /\ lost \subseteq Runs
    /\ active \in [Procs -> Runs \cup {None}]
    /\ up \subseteq Procs
    /\ rec \in [Procs -> [at: RecPoints, run: Runs \cup {None}]]
    /\ closing \in [Procs -> [at: ClosePoints, run: Runs \cup {None}]]
    /\ seen \in [Actors -> Statuses]

\* At most one run of all processes is past the lock and not yet through with it
\* (reliability-hardening.md, invariant 2).
OneRunAtATime ==
    \A r1, r2 \in Runs : rpc[r1] \in Holding /\ rpc[r2] \in Holding => r1 = r2

\* run.lock names exactly the run that may act, and a probe never coexists with one.
LockIsLease ==
    /\ \A r \in Runs : rpc[r] \in Holding <=> lock = r
    /\ \A p \in Procs : rec[p].at = "probing" <=> lock = p

\* RunManager.active of a process is one of its own runs whose lease is not gone.
ReservationIsOwn ==
    \A p \in Procs : active[p] # None =>
        /\ owner[active[p]] = p
        /\ rpc[active[p]] \in (Holding \ {"locked"}) \cup {"releasing"}

\* An active status that is not of a run at work has a cause: its process died, an error
\* kept the verdict from being written, or the recorder of its panic has yet to write. A
\* run that is stopped, closed or refused never leaves one (under every fault). An error
\* does, against invariant 4 of reliability-hardening.md (every accepted run produces a
\* terminal status): its `?` returns before write_status.
StaleHasCause ==
    IsActive =>
        \/ rpc[status.run] \in Executing \cup {"dead"}
        \/ status.run \in lost
        \/ status.run \in panicked /\ rpc[status.run] # "gone"

\* While a run executes, the only step that changes status.json is the end of that run by
\* its own task: no window's reconcile, no other run and no closing window writes it
\* (post-package-reliability-fixes.md, invariant 2, for every writer).
ExecutingStatusIsOwn ==
    [][\A r \in Runs :
          rpc[r] \in Executing /\ status' # status =>
              status'.run = r /\ rpc'[r] \in {"finished", "dropping"}]_vars

\* The verdict on a run, once written, is never replaced by another verdict.
VerdictStays ==
    [][(status.st \in Terminal) /\ status'.run = status.run => status' = status]_vars

\* Dropping a lease never deletes a stop request for a run that can still obey it.
StopRequestReaches ==
    [][\A r \in Runs :
          stopReq = r /\ stopReq' = None => rpc[r] \notin Executing]_vars

\* A status left behind by a dead process, or by an error that lost the verdict, does not
\* stay while a window polls. (While another run holds the lock it may stay active; that
\* run soon writes its own, or gives the lock back.)
StaleIsReconciled ==
    \A r \in Runs :
        status = Says(r, "active") /\ rpc[r] \in {"dead", "gone"} ~> status # Says(r, "active")
=============================================================================
