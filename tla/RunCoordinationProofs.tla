----------------------- MODULE RunCoordinationProofs -----------------------
(***************************************************************************)
(* Theorems about RunCoordination, for any number of processes and runs.   *)
(***************************************************************************)
EXTENDS RunCoordination, TLAPS

USE DEF locals, Actors, Terminal, Statuses, Says, RunPoints, Holding, Executing, RecPoints,
        ClosePoints, Goto, SetRec, SetClosing, IsActive

\* A dying process leaves every variable but status well typed.
LEMMA VanishType ==
    ASSUME TypeOK, NEW p \in Procs, Vanish(p), status' \in Statuses
    PROVE  TypeOK'
<1>1. lock' \in Actors \cup {None}
  BY DEF TypeOK, Vanish
<1>2. rpc' \in [Runs -> RunPoints]
  BY DEF TypeOK, Vanish
<1>3. active' \in [Procs -> Runs \cup {None}] /\ up' \subseteq Procs
  BY DEF TypeOK, Vanish
<1>4. rec' \in [Procs -> [at: RecPoints, run: Runs \cup {None}]]
  BY DEF TypeOK, Vanish
<1>5. closing' \in [Procs -> [at: ClosePoints, run: Runs \cup {None}]]
  BY DEF TypeOK, Vanish
<1>6. seen' \in [Actors -> Statuses]
  BY DEF TypeOK, Vanish
<1> QED
  BY <1>1, <1>2, <1>3, <1>4, <1>5, <1>6 DEF TypeOK, Vanish

\* Type correctness: every variable keeps its type, whatever faults are allowed.
THEOREM TypeCorrect == Spec => []TypeOK
<1>1. Init => TypeOK
  BY DEF Init, TypeOK
<1>2. TypeOK /\ [Next]_vars => TypeOK'
  <2> SUFFICES ASSUME TypeOK, [Next]_vars PROVE TypeOK'
    OBVIOUS
  <2>1. ASSUME NEW r \in Runs, RunStep(r) PROVE TypeOK'
    <3>1. CASE ReserveLocal(r)
      <4>1. active' \in [Procs -> Runs \cup {None}]
        BY <3>1 DEF ReserveLocal, TypeOK
      <4>2. lock' \in Actors \cup {None} /\ rpc' \in [Runs -> RunPoints]
        BY <3>1 DEF ReserveLocal, TypeOK
      <4> QED
        BY <3>1, <4>1, <4>2 DEF ReserveLocal, TypeOK
    <3>2. CASE WriteStarting(r)
      BY <3>2 DEF WriteStarting, TypeOK
    <3>3. CASE SpawnFirstChild(r)
      BY <3>3 DEF SpawnFirstChild, TypeOK
    <3>4. CASE Publish(r)
      BY <3>4 DEF Publish, TypeOK
    <3>5. CASE ReadStopRequest(r)
      BY <3>5 DEF ReadStopRequest, TypeOK
    <3>6. ASSUME NEW s \in Terminal, Finish(r, s) PROVE TypeOK'
      BY <3>6 DEF Finish, TypeOK
    <3>7. CASE FinishFault(r)
      BY <3>7 DEF FinishFault, TypeOK
    <3>8. CASE Panic(r)
      BY <3>8 DEF Panic, TypeOK
    <3>9. CASE Notified(r)
      BY <3>9 DEF Notified, TypeOK
    <3>10. CASE ClearStopRead(r)
      BY <3>10 DEF ClearStopRead, TypeOK
    <3>11. CASE ClearStopRemove(r)
      BY <3>11 DEF ClearStopRemove, TypeOK
    <3>12. CASE Unlock(r)
      BY <3>12 DEF Unlock, TypeOK
    <3>13. CASE Release(r)
      BY <3>13 DEF Release, TypeOK
    <3>14. CASE PanicRead(r)
      <4>1. status \in Statuses /\ Says(r, "active") \in Statuses /\ r \in Actors
        BY DEF TypeOK
      <4>2. seen' = [seen EXCEPT ![r] = status] \/ seen' = [seen EXCEPT ![r] = Says(r, "active")]
        BY <3>14 DEF PanicRead
      <4>3. seen' \in [Actors -> Statuses]
        BY <4>1, <4>2 DEF TypeOK
      <4>4. rpc' \in [Runs -> RunPoints]
        BY <3>14 DEF PanicRead, TypeOK
      <4> QED
        BY <3>14, <4>3, <4>4 DEF PanicRead, TypeOK
    <3>15. CASE PanicWrite(r)
      <4>1. seen' \in [Actors -> Statuses] /\ status' \in Statuses
        BY <3>15 DEF PanicWrite, TypeOK
      <4>2. rpc' \in [Runs -> RunPoints] /\ lost' \subseteq Runs
        BY <3>15 DEF PanicWrite, TypeOK
      <4> QED
        BY <3>15, <4>1, <4>2 DEF PanicWrite, TypeOK
    <3> QED
      BY <2>1, <3>1, <3>2, <3>3, <3>4, <3>5, <3>6, <3>7, <3>8, <3>9, <3>10, <3>11, <3>12,
         <3>13, <3>14, <3>15 DEF RunStep
  <2>2. ASSUME NEW p \in Procs, NEW r \in Runs, StartRun(p, r) PROVE TypeOK'
    BY <2>2 DEF StartRun, TypeOK
  <2>3. ASSUME NEW p \in Procs, NEW r \in Runs, RequestStop(p, r) PROVE TypeOK'
    BY <2>3 DEF RequestStop, TypeOK
  <2>4. ASSUME NEW p \in Procs, Reconcile(p) PROVE TypeOK'
    <3>1. CASE ReconcileObserve(p)
      BY <3>1 DEF ReconcileObserve, TypeOK
    <3>2. CASE ReconcileProbe(p)
      <4>1. rec' \in [Procs -> [at: RecPoints, run: Runs \cup {None}]]
        BY <3>2 DEF ReconcileProbe, TypeOK
      <4>2. lock' \in Actors \cup {None}
        BY <3>2 DEF ReconcileProbe, TypeOK
      <4> QED
        BY <3>2, <4>1, <4>2 DEF ReconcileProbe, TypeOK
    <3>3. CASE ReconcileWrite(p)
      BY <3>3 DEF ReconcileWrite, TypeOK
    <3> QED
      BY <2>4, <3>1, <3>2, <3>3 DEF Reconcile
  <2>5. ASSUME NEW p \in Procs, Close(p) PROVE TypeOK'
    <3>1. CASE CloseWithoutRun(p)
      BY <3>1, VanishType DEF CloseWithoutRun, TypeOK
    <3>2. CASE CloseCancels(p)
      BY <3>2 DEF CloseCancels, TypeOK
    <3>3. CASE CloseCompleted(p)
      BY <3>3, VanishType DEF CloseCompleted, TypeOK
    <3>4. CASE CloseTimesOut(p)
      BY <3>4 DEF CloseTimesOut, TypeOK
    <3>5. CASE CloseReads(p)
      <4>1. CASE Vanish(p)
        BY <3>5, <4>1, VanishType DEF CloseReads, TypeOK
      <4>2. CASE ~Vanish(p)
        <5>1. seen' \in [Actors -> Statuses]
          BY <3>5, <4>2 DEF CloseReads, TypeOK
        <5>2. closing' \in [Procs -> [at: ClosePoints, run: Runs \cup {None}]]
          BY <3>5, <4>2 DEF CloseReads, TypeOK
        <5> QED
          BY <3>5, <4>2, <5>1, <5>2 DEF CloseReads, TypeOK
      <4> QED
        BY <4>1, <4>2
    <3>6. CASE CloseWrites(p)
      BY <3>6, VanishType DEF CloseWrites, TypeOK
    <3> QED
      BY <2>5, <3>1, <3>2, <3>3, <3>4, <3>5, <3>6 DEF Close
  <2>6. ASSUME NEW p \in Procs, Crash(p) PROVE TypeOK'
    BY <2>6, VanishType DEF Crash, TypeOK
  <2>7. ASSUME NEW p \in Procs, Launch(p) PROVE TypeOK'
    BY <2>7 DEF Launch, TypeOK
  <2>8. CASE UNCHANGED vars
    BY <2>8 DEF vars, TypeOK
  <2> QED
    BY <2>1, <2>2, <2>3, <2>4, <2>5, <2>6, <2>7, <2>8 DEF Next
<1> QED
  BY <1>1, <1>2, PTL DEF Spec

-----------------------------------------------------------------------------
\* Mutual exclusion. LockIsLease is inductive relative to the types: whoever
\* passes a point of Holding acquired run.lock and only its own release, or the
\* end of its process, takes the lock away.
LEMMA LockIsLeaseStep ==
    ASSUME TypeOK, LockIsLease, [Next]_vars
    PROVE  LockIsLease'
<1>1. ASSUME NEW r \in Runs, RunStep(r) PROVE LockIsLease'
  <2>1. CASE ReserveLocal(r)
    <3>1. CASE active[owner[r]] = None
      BY <2>1, <3>1 DEF ReserveLocal, TypeOK, LockIsLease
    <3>2. CASE active[owner[r]] # None
      <4>1. lock = r /\ lock' = None /\ rpc' = [rpc EXCEPT ![r] = "rejected"] /\ rec' = rec
        BY <2>1, <3>2 DEF ReserveLocal, LockIsLease
      <4> QED
        BY <4>1, CoordinationConstants DEF TypeOK, LockIsLease
    <3> QED
      BY <3>1, <3>2
  <2>2. CASE WriteStarting(r)
    BY <2>2 DEF WriteStarting, TypeOK, LockIsLease
  <2>3. CASE SpawnFirstChild(r)
    BY <2>3 DEF SpawnFirstChild, TypeOK, LockIsLease
  <2>4. CASE Publish(r)
    BY <2>4 DEF Publish, TypeOK, LockIsLease
  <2>5. CASE ReadStopRequest(r)
    BY <2>5 DEF ReadStopRequest, TypeOK, LockIsLease
  <2>6. ASSUME NEW s \in Terminal, Finish(r, s) PROVE LockIsLease'
    BY <2>6 DEF Finish, TypeOK, LockIsLease
  <2>7. CASE FinishFault(r)
    BY <2>7 DEF FinishFault, TypeOK, LockIsLease
  <2>8. CASE Panic(r)
    BY <2>8 DEF Panic, TypeOK, LockIsLease
  <2>9. CASE Notified(r)
    BY <2>9 DEF Notified, TypeOK, LockIsLease
  <2>10. CASE ClearStopRead(r)
    BY <2>10 DEF ClearStopRead, TypeOK, LockIsLease
  <2>11. CASE ClearStopRemove(r)
    BY <2>11 DEF ClearStopRemove, TypeOK, LockIsLease
  <2>12. CASE Unlock(r)
    BY <2>12, CoordinationConstants DEF Unlock, TypeOK, LockIsLease
  <2>13. CASE Release(r)
    BY <2>13 DEF Release, TypeOK, LockIsLease
  <2>14. CASE PanicRead(r)
    BY <2>14 DEF PanicRead, TypeOK, LockIsLease
  <2>15. CASE PanicWrite(r)
    BY <2>15 DEF PanicWrite, TypeOK, LockIsLease
  <2> QED
    BY <1>1, <2>1, <2>2, <2>3, <2>4, <2>5, <2>6, <2>7, <2>8,
       <2>9, <2>10, <2>11, <2>12, <2>13, <2>14, <2>15 DEF RunStep
<1>2. ASSUME NEW p \in Procs, NEW r \in Runs, StartRun(p, r) PROVE LockIsLease'
  BY <1>2, CoordinationConstants DEF StartRun, TypeOK, LockIsLease
<1>3. ASSUME NEW p \in Procs, NEW r \in Runs, RequestStop(p, r) PROVE LockIsLease'
  BY <1>3 DEF RequestStop, TypeOK, LockIsLease
<1>4. ASSUME NEW p \in Procs, Reconcile(p) PROVE LockIsLease'
  <2>1. CASE ReconcileObserve(p)
    BY <2>1 DEF ReconcileObserve, TypeOK, LockIsLease
  <2>2. CASE ReconcileProbe(p)
    BY <2>2, CoordinationConstants DEF ReconcileProbe, TypeOK, LockIsLease
  <2>3. CASE ReconcileWrite(p)
    BY <2>3, CoordinationConstants DEF ReconcileWrite, TypeOK, LockIsLease
  <2> QED
    BY <1>4, <2>1, <2>2, <2>3 DEF Reconcile
<1>5. ASSUME NEW p \in Procs, Vanish(p) PROVE LockIsLease'
  BY <1>5, CoordinationConstants DEF Vanish, TypeOK, LockIsLease
<1>6. ASSUME NEW p \in Procs, Close(p) PROVE LockIsLease'
  BY <1>5, <1>6 DEF Close, CloseWithoutRun, CloseCancels, CloseCompleted, CloseTimesOut,
     CloseReads, CloseWrites, TypeOK, LockIsLease
<1>7. ASSUME NEW p \in Procs, Crash(p) \/ Launch(p) PROVE LockIsLease'
  BY <1>5, <1>7 DEF Crash, Launch, TypeOK, LockIsLease
<1>8. CASE UNCHANGED vars
  BY <1>8 DEF vars, TypeOK, LockIsLease
<1> QED
  BY <1>1, <1>2, <1>3, <1>4, <1>6, <1>7, <1>8 DEF Next

\* run.lock names exactly the run that may act, in every reachable state and
\* for any number of processes.
THEOREM LeaseIsExclusive == Spec => []LockIsLease
<1>1. Init => LockIsLease
  BY CoordinationConstants DEF Init, LockIsLease
<1>2. TypeOK /\ LockIsLease /\ [Next]_vars => LockIsLease'
  BY LockIsLeaseStep
<1> QED
  BY <1>1, <1>2, TypeCorrect, PTL DEF Spec

\* Two runs are never between lock and unlock at the same time, whichever
\* processes own them (reliability-hardening.md, invariant 2).
THEOREM OneRun == Spec => []OneRunAtATime
<1>1. LockIsLease => OneRunAtATime
  BY DEF LockIsLease, OneRunAtATime
<1> QED
  BY <1>1, LeaseIsExclusive, PTL

-----------------------------------------------------------------------------
\* The in-process reservation follows the lease of one of the process's own runs.
LEMMA ReservationStep ==
    ASSUME TypeOK, ReservationIsOwn, [Next]_vars
    PROVE  ReservationIsOwn'
<1>1. ASSUME NEW r \in Runs, RunStep(r) PROVE ReservationIsOwn'
  <2>1. CASE ReserveLocal(r)
    <3>1. CASE active[owner[r]] = None
      <4>1. rpc' = [rpc EXCEPT ![r] = "reserved"] /\ owner' = owner
            /\ active' = [active EXCEPT ![owner[r]] = r]
        BY <2>1, <3>1 DEF ReserveLocal
      <4> QED
        BY <2>1, <4>1 DEF ReserveLocal, TypeOK, ReservationIsOwn
    <3>2. CASE active[owner[r]] # None
      <4>1. rpc' = [rpc EXCEPT ![r] = "rejected"] /\ owner' = owner /\ active' = active
        BY <2>1, <3>2 DEF ReserveLocal
      <4> QED
        BY <2>1, <4>1 DEF ReserveLocal, TypeOK, ReservationIsOwn
    <3> QED
      BY <3>1, <3>2
  <2>2. CASE WriteStarting(r)
    BY <2>2 DEF WriteStarting, TypeOK, ReservationIsOwn
  <2>3. CASE SpawnFirstChild(r)
    BY <2>3 DEF SpawnFirstChild, TypeOK, ReservationIsOwn
  <2>4. CASE Publish(r)
    BY <2>4 DEF Publish, TypeOK, ReservationIsOwn
  <2>5. CASE ReadStopRequest(r)
    BY <2>5 DEF ReadStopRequest, TypeOK, ReservationIsOwn
  <2>6. ASSUME NEW s \in Terminal, Finish(r, s) PROVE ReservationIsOwn'
    BY <2>6 DEF Finish, TypeOK, ReservationIsOwn
  <2>7. CASE FinishFault(r)
    BY <2>7 DEF FinishFault, TypeOK, ReservationIsOwn
  <2>8. CASE Panic(r)
    BY <2>8 DEF Panic, TypeOK, ReservationIsOwn
  <2>9. CASE Notified(r)
    BY <2>9 DEF Notified, TypeOK, ReservationIsOwn
  <2>10. CASE ClearStopRead(r)
    BY <2>10 DEF ClearStopRead, TypeOK, ReservationIsOwn
  <2>11. CASE ClearStopRemove(r)
    BY <2>11 DEF ClearStopRemove, TypeOK, ReservationIsOwn
  <2>12. CASE Unlock(r)
    BY <2>12 DEF Unlock, TypeOK, ReservationIsOwn
  <2>13. CASE Release(r)
    BY <2>13 DEF Release, TypeOK, ReservationIsOwn
  <2>14. CASE PanicRead(r)
    BY <2>14 DEF PanicRead, TypeOK, ReservationIsOwn
  <2>15. CASE PanicWrite(r)
    BY <2>15 DEF PanicWrite, TypeOK, ReservationIsOwn
  <2> QED
    BY <1>1, <2>1, <2>2, <2>3, <2>4, <2>5, <2>6, <2>7, <2>8,
       <2>9, <2>10, <2>11, <2>12, <2>13, <2>14, <2>15 DEF RunStep
<1>2. ASSUME NEW p \in Procs, NEW r \in Runs, StartRun(p, r) PROVE ReservationIsOwn'
  BY <1>2, SMTT(30) DEF StartRun, TypeOK, ReservationIsOwn
<1>3. ASSUME NEW p \in Procs, NEW r \in Runs, RequestStop(p, r) PROVE ReservationIsOwn'
  BY <1>3 DEF RequestStop, TypeOK, ReservationIsOwn
<1>4. ASSUME NEW p \in Procs, Reconcile(p) PROVE ReservationIsOwn'
  <2>1. CASE ReconcileObserve(p)
    BY <2>1 DEF ReconcileObserve, TypeOK, ReservationIsOwn
  <2>2. CASE ReconcileProbe(p)
    BY <2>2 DEF ReconcileProbe, TypeOK, ReservationIsOwn
  <2>3. CASE ReconcileWrite(p)
    BY <2>3 DEF ReconcileWrite, TypeOK, ReservationIsOwn
  <2> QED
    BY <1>4, <2>1, <2>2, <2>3 DEF Reconcile
<1>5. ASSUME NEW p \in Procs, Vanish(p) PROVE ReservationIsOwn'
  BY <1>5 DEF Vanish, TypeOK, ReservationIsOwn
<1>6. ASSUME NEW p \in Procs, Close(p) PROVE ReservationIsOwn'
  BY <1>5, <1>6 DEF Close, CloseWithoutRun, CloseCancels, CloseCompleted, CloseTimesOut,
     CloseReads, CloseWrites, TypeOK, ReservationIsOwn
<1>7. ASSUME NEW p \in Procs, Crash(p) \/ Launch(p) PROVE ReservationIsOwn'
  BY <1>5, <1>7 DEF Crash, Launch, TypeOK, ReservationIsOwn
<1>8. CASE UNCHANGED vars
  BY <1>8 DEF vars, TypeOK, ReservationIsOwn
<1> QED
  BY <1>1, <1>2, <1>3, <1>4, <1>6, <1>7, <1>8 DEF Next

\* RunManager.active never names a run of another process or one whose lease is gone.
THEOREM ReservationCorrect == Spec => []ReservationIsOwn
<1>1. Init => ReservationIsOwn
  BY DEF Init, ReservationIsOwn
<1>2. TypeOK /\ ReservationIsOwn /\ [Next]_vars => ReservationIsOwn'
  BY ReservationStep
<1> QED
  BY <1>1, <1>2, TypeCorrect, PTL DEF Spec

-----------------------------------------------------------------------------
\* Without panics and expired shutdown waits, only the lease holder and a probe
\* write the status. What makes that inductive: an executing run's status is its
\* own active one, and the two writers that do not hold the lock never get to run.
Undisturbed ==
    /\ \A r \in Runs : rpc[r] \in Executing => status = Says(r, "active")
    /\ panicked = {} /\ \A r \in Runs : rpc[r] \notin {"panicRead", "panicWrite"}
    /\ \A p \in Procs : closing[p].at \in {"open", "waiting"}

LEMMA UndisturbedStep ==
    ASSUME ~Panics, ~Timeouts, TypeOK, LockIsLease, Undisturbed, [Next]_vars
    PROVE  Undisturbed'
<1>1. ASSUME NEW r \in Runs, RunStep(r) PROVE Undisturbed'
  <2>1. CASE ReserveLocal(r)
    BY <2>1 DEF ReserveLocal, TypeOK, Undisturbed
  <2>2. CASE WriteStarting(r)
    BY <2>2 DEF WriteStarting, TypeOK, Undisturbed, LockIsLease
  <2>3. CASE SpawnFirstChild(r)
    BY <2>3 DEF SpawnFirstChild, TypeOK, Undisturbed, LockIsLease
  <2>4. CASE Publish(r)
    BY <2>4 DEF Publish, TypeOK, Undisturbed, LockIsLease
  <2>5. CASE ReadStopRequest(r)
    BY <2>5 DEF ReadStopRequest, TypeOK, Undisturbed
  <2>6. ASSUME NEW s \in Terminal, Finish(r, s) PROVE Undisturbed'
    BY <2>6 DEF Finish, TypeOK, Undisturbed, LockIsLease
  <2>7. CASE FinishFault(r)
    BY <2>7 DEF FinishFault, TypeOK, Undisturbed
  <2>8. CASE Panic(r)
    BY <2>8 DEF Panic, TypeOK, Undisturbed
  <2>9. CASE Notified(r)
    BY <2>9 DEF Notified, TypeOK, Undisturbed
  <2>10. CASE ClearStopRead(r)
    BY <2>10 DEF ClearStopRead, TypeOK, Undisturbed
  <2>11. CASE ClearStopRemove(r)
    BY <2>11 DEF ClearStopRemove, TypeOK, Undisturbed
  <2>12. CASE Unlock(r)
    BY <2>12 DEF Unlock, TypeOK, Undisturbed
  <2>13. CASE Release(r)
    BY <2>13 DEF Release, TypeOK, Undisturbed
  <2>14. CASE PanicRead(r)
    BY <2>14 DEF PanicRead, TypeOK, Undisturbed
  <2>15. CASE PanicWrite(r)
    BY <2>15 DEF PanicWrite, TypeOK, Undisturbed
  <2> QED
    BY <1>1, <2>1, <2>2, <2>3, <2>4, <2>5, <2>6, <2>7, <2>8,
       <2>9, <2>10, <2>11, <2>12, <2>13, <2>14, <2>15 DEF RunStep
<1>2. ASSUME NEW p \in Procs, NEW r \in Runs, StartRun(p, r) PROVE Undisturbed'
  BY <1>2 DEF StartRun, TypeOK, Undisturbed
<1>3. ASSUME NEW p \in Procs, NEW r \in Runs, RequestStop(p, r) PROVE Undisturbed'
  BY <1>3 DEF RequestStop, TypeOK, Undisturbed
<1>4. ASSUME NEW p \in Procs, Reconcile(p) PROVE Undisturbed'
  <2>1. CASE ReconcileObserve(p)
    BY <2>1 DEF ReconcileObserve, TypeOK, Undisturbed
  <2>2. CASE ReconcileProbe(p)
    BY <2>2 DEF ReconcileProbe, TypeOK, Undisturbed
  <2>3. CASE ReconcileWrite(p)
    BY <2>3, CoordinationConstants DEF ReconcileWrite, TypeOK, LockIsLease, Undisturbed
  <2> QED
    BY <1>4, <2>1, <2>2, <2>3 DEF Reconcile
<1>5. ASSUME NEW p \in Procs, Vanish(p), UNCHANGED status PROVE Undisturbed'
  BY <1>5 DEF Vanish, TypeOK, Undisturbed
<1>6. ASSUME NEW p \in Procs, Close(p) PROVE Undisturbed'
  <2>1. CASE CloseCancels(p)
    BY <2>1 DEF CloseCancels, TypeOK, Undisturbed
  <2>2. CASE ~CloseCancels(p)
    <3>1. Vanish(p) /\ UNCHANGED status
      BY <1>6, <2>2 DEF Close, CloseWithoutRun, CloseCompleted, CloseTimesOut, CloseReads,
         CloseWrites, TypeOK, Undisturbed
    <3> QED
      BY <3>1, <1>5
  <2> QED
    BY <2>1, <2>2
<1>7. ASSUME NEW p \in Procs, Crash(p) \/ Launch(p) PROVE Undisturbed'
  BY <1>5, <1>7 DEF Crash, Launch, TypeOK, Undisturbed
<1>8. CASE UNCHANGED vars
  BY <1>8 DEF vars, TypeOK, Undisturbed
<1> QED
  BY <1>1, <1>2, <1>3, <1>4, <1>6, <1>7, <1>8 DEF Next

\* While a run executes, every change of status.json is the end of that run by its own task:
\* no reconcile of any process and no other run writes it (post-package-reliability-fixes.md,
\* invariant 2), log and status errors included. Panics and expired shutdown waits are
\* excluded: with them it is false.
THEOREM StatusBelongsToRun ==
    ASSUME ~Panics, ~Timeouts
    PROVE  Spec => ExecutingStatusIsOwn
<1>1. Init => Undisturbed
  BY DEF Init, Undisturbed
<1>2. TypeOK /\ LockIsLease /\ Undisturbed /\ [Next]_vars => Undisturbed'
  BY UndisturbedStep
<1>3. TypeOK /\ LockIsLease /\ Undisturbed /\ [Next]_vars =>
        [\A r \in Runs : rpc[r] \in Executing /\ status' # status =>
             status'.run = r /\ rpc'[r] \in {"finished", "dropping"}]_vars
  <2> SUFFICES ASSUME TypeOK, LockIsLease, Undisturbed, Next, NEW r \in Runs,
                      rpc[r] \in Executing, status' # status
               PROVE  status'.run = r /\ rpc'[r] \in {"finished", "dropping"}
    BY DEF vars
  <2>1. status = Says(r, "active") /\ lock = r
    BY DEF Undisturbed, LockIsLease
  <2>2. PICK s \in Runs : RunStep(s)
    <3>1. ~\E p \in Procs : Close(p) \/ Crash(p) \/ Launch(p)
      BY DEF Close, CloseWithoutRun, CloseCancels, CloseCompleted, CloseTimesOut, CloseReads,
         CloseWrites, Crash, Launch, Undisturbed
    <3>2. ~\E p \in Procs : Reconcile(p)
      BY <2>1, CoordinationConstants DEF Reconcile, ReconcileObserve, ReconcileProbe,
         ReconcileWrite, LockIsLease
    <3> QED
      BY <3>1, <3>2 DEF Next, StartRun, RequestStop
  <2>3. SpawnFirstChild(s) \/ Publish(s) \/ WriteStarting(s) \/ \E v \in Terminal : Finish(s, v)
    BY <2>2 DEF RunStep, ReserveLocal, ReadStopRequest, FinishFault, Panic, Notified,
       ClearStopRead, ClearStopRemove, Unlock, Release, PanicRead, PanicWrite, Undisturbed
  <2>4. s = r
    BY <2>1, <2>3 DEF SpawnFirstChild, Publish, WriteStarting, Finish, LockIsLease
  <2> QED
    BY <2>1, <2>3, <2>4 DEF SpawnFirstChild, Publish, WriteStarting, Finish, TypeOK
<1> QED
  BY <1>1, <1>2, <1>3, TypeCorrect, LeaseIsExclusive, PTL DEF Spec, ExecutingStatusIsOwn

-----------------------------------------------------------------------------
\* Which runs a status may name: one that got past its reservation.
NamesStarted ==
    status.run # None => rpc[status.run] \notin {"unborn", "rejected", "locked", "reserved"}

ActiveNamesRun == IsActive => status.run \in Runs

LEMMA NamesStartedStep ==
    ASSUME ~Panics, ~Timeouts, TypeOK, Undisturbed, NamesStarted, ActiveNamesRun, [Next]_vars
    PROVE  NamesStarted' /\ ActiveNamesRun'
<1> USE CoordinationConstants DEF NamesStarted, ActiveNamesRun
<1>1. ASSUME NEW r \in Runs, RunStep(r) PROVE NamesStarted' /\ ActiveNamesRun'
  <2>1. CASE ReserveLocal(r)
    BY <2>1 DEF ReserveLocal, TypeOK
  <2>2. CASE WriteStarting(r) \/ SpawnFirstChild(r)
    BY <2>2 DEF WriteStarting, SpawnFirstChild, TypeOK
  <2>3. CASE Publish(r) \/ ReadStopRequest(r)
    BY <2>3 DEF Publish, ReadStopRequest, TypeOK
  <2>4. ASSUME NEW s \in Terminal, Finish(r, s) PROVE NamesStarted' /\ ActiveNamesRun'
    BY <2>4 DEF Finish, TypeOK
  <2>5. CASE FinishFault(r) \/ Panic(r) \/ Notified(r)
    BY <2>5 DEF FinishFault, Panic, Notified, TypeOK
  <2>6. CASE ClearStopRead(r) \/ ClearStopRemove(r) \/ Unlock(r) \/ Release(r)
    BY <2>6 DEF ClearStopRead, ClearStopRemove, Unlock, Release, TypeOK
  <2>7. ~PanicRead(r) /\ ~PanicWrite(r)
    BY DEF Undisturbed, PanicRead, PanicWrite
  <2> QED
    BY <1>1, <2>1, <2>2, <2>3, <2>4, <2>5, <2>6, <2>7 DEF RunStep
<1>2. ASSUME NEW p \in Procs, NEW r \in Runs, StartRun(p, r) \/ RequestStop(p, r)
      PROVE  NamesStarted' /\ ActiveNamesRun'
  BY <1>2 DEF StartRun, RequestStop, TypeOK
<1>3. ASSUME NEW p \in Procs, Reconcile(p) PROVE NamesStarted' /\ ActiveNamesRun'
  BY <1>3 DEF Reconcile, ReconcileObserve, ReconcileProbe, ReconcileWrite, TypeOK
<1>4. ASSUME NEW p \in Procs, Vanish(p), UNCHANGED status
      PROVE  NamesStarted' /\ ActiveNamesRun'
  BY <1>4 DEF Vanish, TypeOK
<1>5. ASSUME NEW p \in Procs, Close(p) PROVE NamesStarted' /\ ActiveNamesRun'
  <2>1. CASE CloseCancels(p)
    BY <2>1 DEF CloseCancels, TypeOK
  <2>2. CASE ~CloseCancels(p)
    BY <1>4, <1>5, <2>2 DEF Close, CloseWithoutRun, CloseCompleted, CloseTimesOut, CloseReads,
       CloseWrites, TypeOK, Undisturbed
  <2> QED
    BY <2>1, <2>2
<1>6. ASSUME NEW p \in Procs, Crash(p) \/ Launch(p) PROVE NamesStarted' /\ ActiveNamesRun'
  BY <1>4, <1>6 DEF Crash, Launch, TypeOK
<1>7. CASE UNCHANGED vars
  BY <1>7 DEF vars, TypeOK
<1> QED
  BY <1>1, <1>2, <1>3, <1>5, <1>6, <1>7 DEF Next

\* What every writer of the status may rely on while no task panics and no shutdown wait
\* expires.
LEMMA StatusNames ==
    ASSUME ~Panics, ~Timeouts
    PROVE  Spec => [](Undisturbed /\ NamesStarted /\ ActiveNamesRun)
<1>1. Init => Undisturbed /\ NamesStarted /\ ActiveNamesRun
  BY DEF Init, Undisturbed, NamesStarted, ActiveNamesRun
<1>2. TypeOK /\ LockIsLease /\ Undisturbed /\ [Next]_vars => Undisturbed'
  BY UndisturbedStep
<1>3. TypeOK /\ Undisturbed /\ NamesStarted /\ ActiveNamesRun /\ [Next]_vars
      => NamesStarted' /\ ActiveNamesRun'
  BY NamesStartedStep
<1> QED
  BY <1>1, <1>2, <1>3, TypeCorrect, LeaseIsExclusive, PTL DEF Spec

-----------------------------------------------------------------------------
\* The only writer that may replace a verdict on its own run is a panic recorder or an
\* expired wait: reconcile looks again, and a run writes `active` before it has a verdict.
LEMMA VerdictStep ==
    ASSUME ~Panics, ~Timeouts, TypeOK, Undisturbed, NamesStarted, [Next]_vars,
           status.st \in Terminal, status'.run = status.run
    PROVE  status' = status
<1>1. ASSUME NEW r \in Runs, RunStep(r) PROVE status' = status
  <2>1. CASE WriteStarting(r)
    BY <2>1, CoordinationConstants DEF WriteStarting, TypeOK, NamesStarted
  <2>2. CASE SpawnFirstChild(r) \/ Publish(r) \/ \E s \in Terminal : Finish(r, s)
    BY <2>2 DEF SpawnFirstChild, Publish, Finish, TypeOK, Undisturbed
  <2>3. ~PanicRead(r) /\ ~PanicWrite(r)
    BY DEF Undisturbed, PanicRead, PanicWrite
  <2> QED
    BY <1>1, <2>1, <2>2, <2>3 DEF RunStep, ReserveLocal, ReadStopRequest, FinishFault, Panic,
       Notified, ClearStopRead, ClearStopRemove, Unlock, Release
<1>2. ASSUME NEW p \in Procs, Reconcile(p) PROVE status' = status
  BY <1>2 DEF Reconcile, ReconcileObserve, ReconcileProbe, ReconcileWrite, TypeOK
<1>3. ASSUME NEW p \in Procs, Close(p) PROVE status' = status
  BY <1>3 DEF Close, CloseWithoutRun, CloseCancels, CloseCompleted, CloseTimesOut, CloseReads,
     CloseWrites, Undisturbed
<1> QED
  BY <1>1, <1>2, <1>3 DEF Next, StartRun, RequestStop, Crash, Launch, vars

\* A verdict once written stays, log and status errors included, as long as no task panics
\* and no shutdown wait expires.
THEOREM VerdictIsFinal ==
    ASSUME ~Panics, ~Timeouts
    PROVE  Spec => VerdictStays
<1>1. TypeOK /\ (Undisturbed /\ NamesStarted /\ ActiveNamesRun) /\ [Next]_vars
      => [(status.st \in Terminal) /\ status'.run = status.run => status' = status]_vars
  BY VerdictStep
<1> QED
  BY <1>1, StatusNames, TypeCorrect, PTL DEF Spec, VerdictStays

-----------------------------------------------------------------------------
\* What a step does to the run an active status names: it stays at work, dies with its
\* process, or is entered among the lost or the panicked.
LEMMA StaleStep ==
    ASSUME TypeOK, ActiveNamesRun, StaleHasCause, [Next]_vars
    PROVE  ActiveNamesRun' /\ StaleHasCause'
<1> USE DEF StaleHasCause, ActiveNamesRun
<1>1. ASSUME NEW r \in Runs, RunStep(r) PROVE ActiveNamesRun' /\ StaleHasCause'
  <2>1. CASE ReserveLocal(r)
    BY <2>1 DEF ReserveLocal, TypeOK
  <2>2. CASE WriteStarting(r) \/ SpawnFirstChild(r)
    BY <2>2 DEF WriteStarting, SpawnFirstChild, TypeOK
  <2>3. CASE Publish(r) \/ ReadStopRequest(r)
    BY <2>3 DEF Publish, ReadStopRequest, TypeOK
  <2>4. ASSUME NEW s \in Terminal, Finish(r, s) PROVE ActiveNamesRun' /\ StaleHasCause'
    BY <2>4 DEF Finish, TypeOK
  <2>5. CASE Notified(r) \/ ClearStopRead(r) \/ ClearStopRemove(r) \/ Unlock(r)
    BY <2>5 DEF Notified, ClearStopRead, ClearStopRemove, Unlock, TypeOK
  <2>6. CASE FinishFault(r) \/ Panic(r)
    BY <2>6 DEF FinishFault, Panic, TypeOK
  <2>7. CASE Release(r)
    BY <2>7 DEF Release, TypeOK
  <2>8. CASE PanicRead(r) \/ PanicWrite(r)
    BY <2>8 DEF PanicRead, PanicWrite, TypeOK
  <2> QED
    BY <1>1, <2>1, <2>2, <2>3, <2>4, <2>5, <2>6, <2>7, <2>8 DEF RunStep
<1>2. ASSUME NEW p \in Procs, NEW r \in Runs, StartRun(p, r) \/ RequestStop(p, r)
      PROVE  ActiveNamesRun' /\ StaleHasCause'
  BY <1>2 DEF StartRun, RequestStop, TypeOK
<1>3. ASSUME NEW p \in Procs, Reconcile(p) PROVE ActiveNamesRun' /\ StaleHasCause'
  BY <1>3 DEF Reconcile, ReconcileObserve, ReconcileProbe, ReconcileWrite, TypeOK
<1>4. ASSUME NEW p \in Procs, Vanish(p), status' = status \/ status'.st = "Failed"
      PROVE  ActiveNamesRun' /\ StaleHasCause'
  BY <1>4 DEF Vanish, TypeOK
<1>5. ASSUME NEW p \in Procs, Close(p) PROVE ActiveNamesRun' /\ StaleHasCause'
  <2>1. CASE Vanish(p)
    BY <1>4, <1>5, <2>1 DEF Close, CloseWithoutRun, CloseCancels, CloseCompleted, CloseTimesOut,
       CloseReads, CloseWrites
  <2>2. CASE ~Vanish(p)
    BY <1>5, <2>2 DEF Close, CloseWithoutRun, CloseCancels, CloseCompleted, CloseTimesOut,
       CloseReads, CloseWrites
  <2> QED
    BY <2>1, <2>2
<1>6. ASSUME NEW p \in Procs, Crash(p) \/ Launch(p) PROVE ActiveNamesRun' /\ StaleHasCause'
  BY <1>4, <1>6 DEF Crash, Launch, TypeOK
<1>7. CASE UNCHANGED vars
  BY <1>7 DEF vars, TypeOK
<1> QED
  BY <1>1, <1>2, <1>3, <1>5, <1>6, <1>7 DEF Next

\* An active status whose run.lock is free has a named cause, under every fault, panic and
\* expired wait: a stop, a close or a refusal never leaves one behind.
THEOREM StaleIsExplained == Spec => []StaleHasCause
<1>1. Init => ActiveNamesRun /\ StaleHasCause
  BY DEF Init, ActiveNamesRun, StaleHasCause
<1>2. TypeOK /\ ActiveNamesRun /\ StaleHasCause /\ [Next]_vars
      => ActiveNamesRun' /\ StaleHasCause'
  BY StaleStep
<1> QED
  BY <1>1, <1>2, TypeCorrect, PTL DEF Spec

-----------------------------------------------------------------------------
\* Only a lease that is being dropped removes a request, under its lock, so the run the
\* request names is not at work: under every fault, and though the file may have been
\* overwritten between the look and the removal (RunLease::drop).
THEOREM RequestsReach == Spec => StopRequestReaches
<1>1. LockIsLease /\ [Next]_vars =>
        [\A r \in Runs : stopReq = r /\ stopReq' = None => rpc[r] \notin Executing]_vars
  <2> SUFFICES ASSUME LockIsLease, Next, NEW r \in Runs, stopReq = r, stopReq' = None,
                      rpc[r] \in Executing
               PROVE  FALSE
    BY DEF vars
  <2>1. PICK s \in Runs : ClearStopRemove(s)
    <3>1. stopReq' # stopReq
      BY CoordinationConstants
    <3>2. ASSUME NEW p \in Procs, Reconcile(p) \/ Close(p) \/ Crash(p) \/ Launch(p)
          PROVE  stopReq' = stopReq
      BY <3>2, SMTT(30) DEF Reconcile, ReconcileObserve, ReconcileProbe, ReconcileWrite, Close,
         CloseWithoutRun, CloseCancels, CloseCompleted, CloseTimesOut, CloseReads,
         CloseWrites, Crash, Launch, Vanish
    <3>3. ASSUME NEW p \in Procs, NEW s \in Runs, StartRun(p, s) \/ RequestStop(p, s)
          PROVE  FALSE
      BY <3>1, <3>3, CoordinationConstants DEF StartRun, RequestStop
    <3>4. ASSUME NEW s \in Runs, RunStep(s)
          PROVE  ClearStopRemove(s)
      BY <3>1, <3>4, SMTT(30) DEF RunStep, ReserveLocal, WriteStarting, SpawnFirstChild,
         Publish, ReadStopRequest, Finish, FinishFault, Panic, Notified, ClearStopRead,
         Unlock, Release, PanicRead, PanicWrite
    <3> QED  BY <3>1, <3>2, <3>3, <3>4 DEF Next
  <2>2. rpc[s] \in Holding
    BY <2>1 DEF ClearStopRemove
  <2>3. lock = s /\ lock = r
    BY <2>2 DEF LockIsLease
  <2> QED
    BY <2>1, <2>3 DEF ClearStopRemove
<1> QED
  BY <1>1, LeaseIsExclusive, PTL DEF Spec, StopRequestReaches
=============================================================================
