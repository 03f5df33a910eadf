------------------------- MODULE RetryEngineProofs -------------------------
(***************************************************************************)
(* Theorems about RetryEngine, for any number of workers, any budget and   *)
(* every combination of faults, modes and keep-alive controllers.          *)
(***************************************************************************)
EXTENDS RetryEngine, FiniteSetTheorems, TLAPS

USE DEF switch, given, race, tries, report, Phases, WorkerPoints, WorkerOutcomes, Verdicts,
   Terminal,
        NoChild, Spawned, Children

\* The number of workers is a positive number, and bounds every subset of them.
LEMMA WorkerCount ==
    /\ Cardinality(Workers) \in Nat \ {0}
    /\ \A S \in SUBSET Workers : Cardinality(S) \in 0 .. Cardinality(Workers)
<1>1. \A S \in SUBSET Workers : IsFiniteSet(S) /\ Cardinality(S) <= Cardinality(Workers)
  BY ConstantsOK, FS_Subset
<1>2. \A S \in SUBSET Workers : Cardinality(S) \in Nat
  BY <1>1, FS_CardinalityType
<1>3. Cardinality(Workers) \in Nat
  BY ConstantsOK, FS_CardinalityType
<1>4. Cardinality(Workers) # 0
  BY ConstantsOK, FS_EmptySet
<1> QED
  BY <1>1, <1>2, <1>3, <1>4

-----------------------------------------------------------------------------
(* Type correctness. A result is known before it is written, which the     *)
(* type of status needs; the other parts are independent.                  *)

RaceTyped ==
    /\ phase \in Phases
    /\ wpc \in [Workers -> WorkerPoints]
    /\ outcome \in [Workers -> WorkerOutcomes]
    /\ activeWorkers \in 0 .. Cardinality(Workers)
    /\ raceCancelled \in BOOLEAN
    /\ ended \in {"none", "Success", "keepAliveOff", "Failed", "Stopped"}
    /\ phase = "closing" => ended # "none"

TriesTyped ==
    /\ child \in [Workers -> Children]
    /\ attempt \in 0 .. AttemptBound
    /\ retries \in Nat
    /\ pids \subseteq Workers

OutsideTyped ==
    /\ mode \in Modes
    /\ cancelled \in BOOLEAN /\ stopFile \in {"none", "named", "overwritten"}
    /\ keepFile \in {"none", "on", "off"} /\ keepCall \in {"none", "on", "off"}
    /\ keepWatch \in BOOLEAN /\ watchSent \in BOOLEAN /\ changed \in BOOLEAN

ReportTyped ==
    /\ status \in {"Starting", "Running"} \cup Terminal
    /\ noticed \in BOOLEAN
    /\ notices \in Nat

Typed == RaceTyped /\ TriesTyped /\ OutsideTyped /\ ReportTyped

\* Every way a future leaves, moves or ends the run keeps the race's types.
LEMMA LeaveTyped ==
    ASSUME RaceTyped, NEW w \in Workers, NEW o \in WorkerOutcomes, Leave(w, o)
    PROVE  RaceTyped'
<1>1. raceCancelled' \in BOOLEAN
  BY DEF RaceTyped, Leave
<1>2. activeWorkers' \in 0 .. Cardinality(Workers)
  BY WorkerCount DEF RaceTyped, Leave
<1> QED
  BY <1>1, <1>2 DEF RaceTyped, Leave

LEMMA MoveTyped ==
    ASSUME RaceTyped, NEW w \in Workers, NEW point \in WorkerPoints, Move(w, point)
    PROVE  RaceTyped'
BY DEF RaceTyped, Move

LEMMA EndTyped ==
    ASSUME RaceTyped, NEW result \in {"Success", "keepAliveOff", "Failed", "Stopped"},
           EndKeepAlive(result)
    PROVE  RaceTyped'
BY ConstantsOK DEF RaceTyped, EndKeepAlive

LEMMA StopTyped ==
    ASSUME RaceTyped, NEW w \in Workers, Stop(w)
    PROVE  RaceTyped'
<1>1. CASE phase = "keepAlive" /\ EndKeepAlive("Stopped")
  BY <1>1, EndTyped
<1>2. CASE phase = "race" /\ Leave(w, "stopped")
  BY <1>2, LeaveTyped
<1>3. CASE phase = "race" /\ Yield(w)
  BY <1>3 DEF RaceTyped, Yield
<1> QED
  BY <1>1, <1>2, <1>3 DEF Stop

LEMMA FailTyped ==
    ASSUME RaceTyped, NEW w \in Workers, Fail(w)
    PROVE  RaceTyped'
BY EndTyped, LeaveTyped DEF Fail

LEMMA TypeStep ==
    ASSUME Typed, [Next]_vars
    PROVE  Typed'
<1> USE DEF Typed
<1>1. ASSUME NEW w \in Workers, WorkerStep(w) \/ WorkerFault(w) \/ ChildExits(w) \/ ChildDetaches(w)
      PROVE  Typed'
  <2>1. CASE Yielded(w)
    <3>1. RaceTyped'
      BY <2>1, LeaveTyped DEF Yielded, RaceTyped
    <3> QED
      BY <2>1, <3>1 DEF Yielded, TriesTyped, OutsideTyped, ReportTyped
  <2>2. CASE Interrupted(w)
    <3>1. RaceTyped'
      BY <2>2, StopTyped DEF Interrupted, RaceTyped
    <3>2. TriesTyped'
      BY <2>2 DEF Interrupted, TriesTyped
    <3> QED
      BY <2>2, <3>1, <3>2 DEF Interrupted, OutsideTyped, ReportTyped
  <2>3. CASE BeginAttempt(w)
    <3>1. RaceTyped'
      BY <2>3, FailTyped, MoveTyped DEF BeginAttempt, Starts, RaceTyped
    <3>2. TriesTyped'
      <4>1. attempt' \in 0 .. AttemptBound
        BY <2>3, ConstantsOK DEF BeginAttempt, TriesTyped
      <4>2. child' \in [Workers -> Children] /\ pids' \subseteq Workers
        BY <2>3 DEF BeginAttempt, TriesTyped
      <4> QED
        BY <2>3, <4>1, <4>2 DEF BeginAttempt, TriesTyped
    <3> QED
      BY <2>3, <3>1, <3>2 DEF BeginAttempt, OutsideTyped, ReportTyped
  <2>4. CASE Exhausted(w)
    <3>1. RaceTyped'
      BY <2>4, LeaveTyped DEF Exhausted, Starts, RaceTyped
    <3>2. TriesTyped'
      BY <2>4 DEF Exhausted, Starts, TriesTyped
    <3> QED
      BY <2>4, <3>1, <3>2 DEF Exhausted, OutsideTyped, ReportTyped
  <2>5. CASE Announce(w)
    <3>1. RaceTyped'
      BY <2>5, MoveTyped DEF Announce, RaceTyped
    <3>2. ReportTyped'
      BY <2>5 DEF Announce, ReportTyped
    <3> QED
      BY <2>5, <3>1, <3>2 DEF Announce, TriesTyped, OutsideTyped
  <2>6. CASE ObserveExit(w)
    <3>1. RaceTyped'
      BY <2>6, MoveTyped DEF ObserveExit, RaceTyped
    <3> QED
      BY <2>6, <3>1 DEF ObserveExit, TriesTyped, OutsideTyped, ReportTyped
  <2>7. CASE OutputEnds(w)
    <3>1. RaceTyped'
      BY <2>7, MoveTyped DEF OutputEnds, RaceTyped
    <3> QED
      BY <2>7, <3>1 DEF OutputEnds, TriesTyped, OutsideTyped, ReportTyped
  <2>8. CASE StopChild(w)
    <3>1. RaceTyped'
      BY <2>8, StopTyped DEF StopChild, RaceTyped
    <3>2. TriesTyped'
      BY <2>8 DEF StopChild, TriesTyped
    <3> QED
      BY <2>8, <3>1, <3>2 DEF StopChild, OutsideTyped, ReportTyped
  <2>9. CASE AttemptSucceeds(w)
    <3>1. RaceTyped'
      BY <2>9, LeaveTyped, MoveTyped DEF AttemptSucceeds, AttemptOver, RaceTyped
    <3>2. TriesTyped'
      BY <2>9 DEF AttemptSucceeds, AttemptOver, TriesTyped
    <3> QED
      BY <2>9, <3>1, <3>2 DEF AttemptSucceeds, OutsideTyped, ReportTyped
  <2>10. CASE AttemptFails(w)
    <3>1. RaceTyped'
      BY <2>10, FailTyped DEF AttemptFails, AttemptOver, RaceTyped
    <3>2. TriesTyped'
      BY <2>10 DEF AttemptFails, AttemptOver, TriesTyped
    <3> QED
      BY <2>10, <3>1, <3>2 DEF AttemptFails, OutsideTyped, ReportTyped
  <2>11. CASE AttemptRetries(w)
    <3>1. RaceTyped'
      BY <2>11, MoveTyped DEF AttemptRetries, AttemptOver, RaceTyped
    <3>2. TriesTyped'
      BY <2>11 DEF AttemptRetries, AttemptOver, TriesTyped
    <3> QED
      BY <2>11, <3>1, <3>2 DEF AttemptRetries, OutsideTyped, ReportTyped
  <2>12. CASE RetryDelayOver(w)
    <3>1. RaceTyped'
      BY <2>12, MoveTyped DEF RetryDelayOver, RaceTyped
    <3> QED
      BY <2>12, <3>1 DEF RetryDelayOver, TriesTyped, OutsideTyped, ReportTyped
  <2>13. CASE StopWaiting(w)
    <3>1. RaceTyped'
      BY <2>13, StopTyped DEF StopWaiting, RaceTyped
    <3> QED
      BY <2>13, <3>1 DEF StopWaiting, TriesTyped, OutsideTyped, ReportTyped
  <2>14. CASE WorkerFault(w)
    <3>1. RaceTyped'
      BY <2>14, FailTyped DEF WorkerFault, FaultPoints, RaceTyped
    <3>2. TriesTyped'
      BY <2>14 DEF WorkerFault, FaultPoints, TriesTyped
    <3> QED
      BY <2>14, <3>1, <3>2 DEF WorkerFault, OutsideTyped, ReportTyped
  <2>15. CASE ChildExits(w)
    <3>1. TriesTyped'
      BY <2>15 DEF ChildExits, TriesTyped
    <3> QED
      BY <2>15, <3>1 DEF ChildExits, RaceTyped, OutsideTyped, ReportTyped
  <2>16. CASE ChildDetaches(w)
    <3>1. TriesTyped'
      BY <2>16 DEF ChildDetaches, TriesTyped
    <3> QED
      BY <2>16, <3>1 DEF ChildDetaches, RaceTyped, OutsideTyped, ReportTyped
  <2> QED
    BY <1>1, <2>1, <2>2, <2>3, <2>4, <2>5, <2>6, <2>7, <2>8, <2>9,
       <2>10, <2>11, <2>12, <2>13, <2>14, <2>15, <2>16 DEF WorkerStep
<1>2. CASE SpawnFirst
  <2>1. RaceTyped'
    <3>1. Participants(mode) \subseteq Workers
      BY ConstantsOK DEF Participants
    <3> QED
      BY <1>2, <3>1, WorkerCount DEF SpawnFirst, RaceTyped
  <2>2. TriesTyped'
    BY <1>2, ConstantsOK DEF SpawnFirst, TriesTyped
  <2> QED
    BY <1>2, <2>1, <2>2 DEF SpawnFirst, OutsideTyped, ReportTyped
<1>3. CASE SpawnFirstFails
  <2>1. RaceTyped'
    BY <1>3 DEF SpawnFirstFails, RaceTyped
  <2>2. ReportTyped'
    BY <1>3 DEF SpawnFirstFails, ReportTyped
  <2> QED
    BY <1>3, <2>1, <2>2 DEF SpawnFirstFails, TriesTyped, OutsideTyped
<1>4. CASE RaceLost
  <2>1. RaceTyped'
    BY <1>4 DEF RaceLost, RaceVerdict, RaceTyped
  <2> QED
    BY <1>4, <2>1 DEF RaceLost, TriesTyped, OutsideTyped, ReportTyped
<1>5. CASE RaceWon
  <2>1. RaceTyped'
    BY <1>5, WorkerCount, ConstantsOK DEF RaceWon, RaceTyped
  <2> QED
    BY <1>5, <2>1 DEF RaceWon, TriesTyped, OutsideTyped, ReportTyped
<1>6. CASE KeepAliveAccept
  <2>1. RaceTyped'
    BY <1>6, EndTyped, MoveTyped, ConstantsOK DEF KeepAliveAccept, RaceTyped
  <2> QED
    BY <1>6, <2>1 DEF KeepAliveAccept, TriesTyped, OutsideTyped, ReportTyped
<1>7. CASE KeepAliveAnnounce
  <2>1. RaceTyped'
    BY <1>7, MoveTyped, ConstantsOK DEF KeepAliveAnnounce, RaceTyped
  <2>2. ReportTyped'
    BY <1>7 DEF KeepAliveAnnounce, ReportTyped
  <2> QED
    BY <1>7, <2>1, <2>2 DEF KeepAliveAnnounce, TriesTyped, OutsideTyped
<1>8. CASE KeepAliveNotified
  <2>1. RaceTyped'
    BY <1>8, EndTyped, MoveTyped, ConstantsOK DEF KeepAliveNotified, RaceTyped
  <2>2. OutsideTyped'
    BY <1>8 DEF KeepAliveNotified, OutsideTyped
  <2> QED
    BY <1>8, <2>1, <2>2 DEF KeepAliveNotified, TriesTyped, ReportTyped
<1>9. CASE KeepAliveSwitched
  <2>1. RaceTyped'
    BY <1>9, EndTyped, ConstantsOK DEF KeepAliveSwitched, RaceTyped
  <2>2. OutsideTyped'
    BY <1>9 DEF KeepAliveSwitched, OutsideTyped
  <2> QED
    BY <1>9, <2>1, <2>2 DEF KeepAliveSwitched, TriesTyped, ReportTyped
<1>10. CASE KeepAliveDelayOver
  <2>1. RaceTyped'
    BY <1>10, EndTyped, MoveTyped, ConstantsOK DEF KeepAliveDelayOver, RaceTyped
  <2> QED
    BY <1>10, <2>1 DEF KeepAliveDelayOver, TriesTyped, OutsideTyped, ReportTyped
<1>11. CASE StopKeepAliveWait
  <2>1. RaceTyped'
    BY <1>11, EndTyped, ConstantsOK DEF StopKeepAliveWait, RaceTyped
  <2> QED
    BY <1>11, <2>1 DEF StopKeepAliveWait, TriesTyped, OutsideTyped, ReportTyped
<1>12. CASE WriteTerminal
  <2>1. RaceTyped'
    BY <1>12, WorkerCount DEF WriteTerminal, TerminalOf, RaceTyped
  <2>2. TriesTyped'
    BY <1>12 DEF WriteTerminal, TerminalOf, TriesTyped
  <2>3. ReportTyped'
    BY <1>12 DEF WriteTerminal, TerminalOf, RaceTyped, ReportTyped
  <2> QED
    BY <1>12, <2>1, <2>2, <2>3 DEF WriteTerminal, OutsideTyped
<1>13. CASE TerminalFault
  <2>1. RaceTyped'
    BY <1>13, WorkerCount DEF TerminalFault, RaceTyped
  <2>2. TriesTyped'
    BY <1>13 DEF TerminalFault, TriesTyped
  <2> QED
    BY <1>13, <2>1, <2>2 DEF TerminalFault, OutsideTyped, ReportTyped
<1>14. CASE Notify
  <2>1. RaceTyped'
    BY <1>14 DEF Notify, RaceTyped
  <2>2. ReportTyped'
    <3>1. noticed' \in BOOLEAN /\ status' = status
      BY <1>14 DEF Notify, ReportTyped
    <3>2. notices' = notices \/ notices' = notices + 1
      BY <1>14 DEF Notify
    <3> QED
      BY <3>1, <3>2 DEF ReportTyped
  <2> QED
    BY <1>14, <2>1, <2>2 DEF Notify, TriesTyped, OutsideTyped
<1>15. CASE LocalStop
  <2>1. OutsideTyped'
    BY <1>15 DEF LocalStop, Alive, OutsideTyped
  <2> QED
    BY <1>15, <2>1 DEF LocalStop, RaceTyped, TriesTyped, ReportTyped
<1>16. CASE RemoteStop \/ StopOverwritten \/ LocalKeepAliveSent
  <2>1. OutsideTyped'
    BY <1>16 DEF RemoteStop, StopOverwritten, LocalKeepAliveSent, Alive, OutsideTyped
  <2> QED
    BY <1>16, <2>1 DEF RemoteStop, StopOverwritten, LocalKeepAliveSent, RaceTyped, TriesTyped,
       ReportTyped
<1>17. ASSUME NEW b \in BOOLEAN, LocalKeepAlive(b) \/ RemoteKeepAlive(b) PROVE Typed'
  <2>1. CASE LocalKeepAlive(b)
    <3>1. OutsideTyped'
      BY <1>17, <2>1 DEF LocalKeepAlive, OnOff, OutsideTyped
    <3> QED
      BY <2>1, <3>1 DEF LocalKeepAlive, RaceTyped, TriesTyped, ReportTyped
  <2>2. CASE RemoteKeepAlive(b)
    <3>1. OutsideTyped'
      BY <1>17, <2>2 DEF RemoteKeepAlive, OnOff, OutsideTyped
    <3> QED
      BY <2>2, <3>1 DEF RemoteKeepAlive, RaceTyped, TriesTyped, ReportTyped
  <2> QED
    BY <1>17, <2>1, <2>2
<1>18. CASE UNCHANGED vars
  BY <1>18 DEF vars, RaceTyped, TriesTyped, OutsideTyped, ReportTyped
<1> QED
  BY <1>1, <1>2, <1>3, <1>4, <1>5, <1>6, <1>7, <1>8, <1>9, <1>10,
     <1>11, <1>12, <1>13, <1>14, <1>15, <1>16, <1>17, <1>18
  DEF Next, RunStep, KeepAliveStep, FaultStep, Environment, Terminated

LEMMA TypedInit ==
    ASSUME Init
    PROVE  Typed
<1>1. RaceTyped
  <2>1. wpc \in [Workers -> WorkerPoints]
    BY DEF Init
  <2>2. activeWorkers \in 0 .. Cardinality(Workers)
    BY WorkerCount DEF Init
  <2> QED
    BY <2>1, <2>2 DEF Init, RaceTyped
<1>2. TriesTyped
  <2>1. child \in [Workers -> Children]
    BY DEF Init
  <2>2. attempt \in 0 .. AttemptBound
    BY ConstantsOK DEF Init
  <2> QED
    BY <2>1, <2>2 DEF Init, TriesTyped
<1>3. OutsideTyped /\ ReportTyped
  BY DEF Init, OutsideTyped, ReportTyped
<1> QED
  BY <1>1, <1>2, <1>3 DEF Typed

\* Type correctness of the engine; with it, active_workers never exceeds the
\* concurrency and never wraps below zero.
THEOREM TypeCorrect == Spec => []TypeOK
<1>1. Init => Typed
  BY TypedInit
<1>2. Typed /\ [Next]_vars => Typed'
  BY TypeStep
<1>3. Typed => TypeOK
  BY DEF Typed, RaceTyped, TriesTyped, OutsideTyped, ReportTyped, TypeOK
<1> QED
  BY <1>1, <1>2, <1>3, PTL DEF Spec
-----------------------------------------------------------------------------
(* Where a worker may be, given where the run stands: what lets an action  *)
(* of a worker conclude that the run is still at work.                     *)

KeepAlivePoints == {"accept", "kaAnnounce", "kaNotify", "kaWait"}

PointsOK ==
    /\ phase = "boot" => wpc[First] = "ready" /\ \A w \in Workers : wpc[w] \in {"idle", "ready"}
    /\ \A w \in Workers : wpc[w] = "yielding" => phase = "race"
    /\ \A w \in Workers : wpc[w] \in KeepAlivePoints => w = First /\ phase = "keepAlive"
    /\ phase = "keepAlive" => \A w \in Workers \ {First} : wpc[w] \in {"idle", "over"}
    /\ phase \in {"closing", "notify", "done"} =>
          \A w \in Workers : wpc[w] \in {"idle", "over"} \/ (phase = "done" /\ wpc[w] = "ready")

LEMMA PointsStep ==
    ASSUME Typed, PointsOK, [Next]_vars
    PROVE  PointsOK'
<1>1. ASSUME NEW w \in Workers, WorkerStep(w) \/ WorkerFault(w) \/ ChildExits(w) \/ ChildDetaches(w)
      PROVE  PointsOK'
  <2>1. CASE Yielded(w)
    BY <2>1 DEF Yielded, Leave, Typed, RaceTyped, PointsOK, KeepAlivePoints
  <2>2. CASE Interrupted(w)
    BY <2>2 DEF Interrupted, Stop, Leave, Yield, EndKeepAlive, Typed, RaceTyped, PointsOK,
       KeepAlivePoints
  <2>3. CASE BeginAttempt(w)
    BY <2>3 DEF BeginAttempt, Starts, Move, Fail, Leave, EndKeepAlive, Typed, RaceTyped, PointsOK,
       KeepAlivePoints
  <2>4. CASE Exhausted(w)
    BY <2>4 DEF Exhausted, Starts, Leave, Typed, RaceTyped, PointsOK, KeepAlivePoints
  <2>5. CASE Announce(w)
    BY <2>5 DEF Announce, Move, Typed, RaceTyped, PointsOK, KeepAlivePoints
  <2>6. CASE ObserveExit(w)
    BY <2>6 DEF ObserveExit, Move, Typed, RaceTyped, PointsOK, KeepAlivePoints
  <2>7. CASE OutputEnds(w)
    BY <2>7 DEF OutputEnds, Move, Typed, RaceTyped, PointsOK, KeepAlivePoints
  <2>8. CASE StopChild(w)
    BY <2>8 DEF StopChild, Stop, Leave, Yield, EndKeepAlive, Typed, RaceTyped, PointsOK,
       KeepAlivePoints
  <2>9. CASE AttemptSucceeds(w)
    BY <2>9 DEF AttemptSucceeds, AttemptOver, Leave, Move, Typed, RaceTyped, PointsOK,
       KeepAlivePoints
  <2>10. CASE AttemptFails(w)
    BY <2>10 DEF AttemptFails, AttemptOver, Fail, Leave, EndKeepAlive, Typed, RaceTyped, PointsOK,
       KeepAlivePoints
  <2>11. CASE AttemptRetries(w)
    BY <2>11 DEF AttemptRetries, AttemptOver, Move, Typed, RaceTyped, PointsOK, KeepAlivePoints
  <2>12. CASE RetryDelayOver(w)
    BY <2>12 DEF RetryDelayOver, Move, Typed, RaceTyped, PointsOK, KeepAlivePoints
  <2>13. CASE StopWaiting(w)
    BY <2>13 DEF StopWaiting, Stop, Leave, Yield, EndKeepAlive, Typed, RaceTyped, PointsOK,
       KeepAlivePoints
  <2>14. CASE WorkerFault(w)
    BY <2>14 DEF WorkerFault, FaultPoints, Fail, Leave, EndKeepAlive, Typed, RaceTyped, PointsOK,
       KeepAlivePoints
  <2>15. CASE ChildExits(w)
    BY <2>15 DEF ChildExits, Typed, RaceTyped, PointsOK, KeepAlivePoints
  <2>16. CASE ChildDetaches(w)
    BY <2>16 DEF ChildDetaches, Typed, RaceTyped, PointsOK, KeepAlivePoints
  <2> QED
    BY <1>1, <2>1, <2>2, <2>3, <2>4, <2>5, <2>6, <2>7, <2>8, <2>9,
       <2>10, <2>11, <2>12, <2>13, <2>14, <2>15, <2>16 DEF WorkerStep
<1>2. CASE SpawnFirst
  BY <1>2, ConstantsOK DEF SpawnFirst, Typed, RaceTyped, PointsOK, KeepAlivePoints
<1>3. CASE SpawnFirstFails
  BY <1>3, ConstantsOK DEF SpawnFirstFails, Typed, RaceTyped, PointsOK, KeepAlivePoints
<1>4. CASE RaceLost
  BY <1>4, ConstantsOK DEF RaceLost, RaceDrained, Racing, Typed, RaceTyped, PointsOK,
     KeepAlivePoints
<1>5. CASE RaceWon
  BY <1>5, ConstantsOK DEF RaceWon, RaceDrained, Racing, Typed, RaceTyped, PointsOK,
     KeepAlivePoints
<1>6. CASE KeepAliveAccept
  BY <1>6, ConstantsOK DEF KeepAliveAccept, EndKeepAlive, Move, Typed, RaceTyped, PointsOK,
     KeepAlivePoints
<1>7. CASE KeepAliveAnnounce
  BY <1>7, ConstantsOK DEF KeepAliveAnnounce, Move, Typed, RaceTyped, PointsOK, KeepAlivePoints
<1>8. CASE KeepAliveNotified
  BY <1>8, ConstantsOK DEF KeepAliveNotified, EndKeepAlive, Move, Typed, RaceTyped, PointsOK,
     KeepAlivePoints
<1>9. CASE KeepAliveSwitched
  BY <1>9, ConstantsOK DEF KeepAliveSwitched, EndKeepAlive, Typed, RaceTyped, PointsOK,
     KeepAlivePoints
<1>10. CASE KeepAliveDelayOver
  BY <1>10, ConstantsOK DEF KeepAliveDelayOver, EndKeepAlive, Move, Typed, RaceTyped, PointsOK,
     KeepAlivePoints
<1>11. CASE StopKeepAliveWait
  BY <1>11, ConstantsOK DEF StopKeepAliveWait, EndKeepAlive, Typed, RaceTyped, PointsOK,
     KeepAlivePoints
<1>12. CASE WriteTerminal
  BY <1>12, ConstantsOK DEF WriteTerminal, Typed, RaceTyped, PointsOK, KeepAlivePoints
<1>13. CASE TerminalFault
  BY <1>13, ConstantsOK DEF TerminalFault, Typed, RaceTyped, PointsOK, KeepAlivePoints
<1>14. CASE Notify
  BY <1>14, ConstantsOK DEF Notify, Typed, RaceTyped, PointsOK, KeepAlivePoints
<1>15. CASE LocalStop
  BY <1>15, ConstantsOK DEF LocalStop, Alive, Typed, RaceTyped, PointsOK, KeepAlivePoints
<1>16. CASE RemoteStop \/ StopOverwritten \/ LocalKeepAliveSent
  BY <1>16, ConstantsOK DEF RemoteStop, StopOverwritten, LocalKeepAliveSent, Alive, Typed,
     RaceTyped, PointsOK, KeepAlivePoints
<1>17. ASSUME NEW b \in BOOLEAN, LocalKeepAlive(b) \/ RemoteKeepAlive(b) PROVE PointsOK'
  BY <1>17 DEF LocalKeepAlive, RemoteKeepAlive, Alive, OnOff, Typed, RaceTyped, PointsOK,
     KeepAlivePoints
<1>18. CASE UNCHANGED vars
  BY <1>18 DEF vars, Typed, RaceTyped, PointsOK, KeepAlivePoints
<1> QED
  BY <1>1, <1>2, <1>3, <1>4, <1>5, <1>6, <1>7, <1>8, <1>9, <1>10,
     <1>11, <1>12, <1>13, <1>14, <1>15, <1>16, <1>17, <1>18
  DEF Next, RunStep, KeepAliveStep, FaultStep, Environment, Terminated

-----------------------------------------------------------------------------
(* A process belongs to a worker that is starting, watching or reaping it. *)

ChildrenOwned ==
    /\ \A w \in Workers :
          wpc[w] \in {"idle", "over", "waiting", "yielding"} \cup KeepAlivePoints
              => child[w] = NoChild
    /\ phase = "boot" => \A w \in Workers : child[w] = NoChild
    /\ NoOrphanChild

LEMMA ChildrenStep ==
    ASSUME Typed, PointsOK, ChildrenOwned, [Next]_vars
    PROVE  ChildrenOwned'
<1>1. ASSUME NEW w \in Workers, WorkerStep(w) \/ WorkerFault(w) \/ ChildExits(w) \/ ChildDetaches(w)
      PROVE  ChildrenOwned'
  <2>1. CASE Yielded(w)
    BY <2>1 DEF Yielded, Leave, Typed, RaceTyped, TriesTyped, PointsOK, ChildrenOwned,
       NoOrphanChild, KeepAlivePoints
  <2>2. CASE Interrupted(w)
    BY <2>2 DEF Interrupted, Stop, Leave, Yield, EndKeepAlive, Typed, RaceTyped, TriesTyped,
       PointsOK, ChildrenOwned, NoOrphanChild, KeepAlivePoints
  <2>3. CASE BeginAttempt(w)
    BY <2>3 DEF BeginAttempt, Starts, Move, Fail, Leave, EndKeepAlive, Typed, RaceTyped,
       TriesTyped, PointsOK, ChildrenOwned, NoOrphanChild, KeepAlivePoints
  <2>4. CASE Exhausted(w)
    BY <2>4 DEF Exhausted, Starts, Leave, Typed, RaceTyped, TriesTyped, PointsOK, ChildrenOwned,
       NoOrphanChild, KeepAlivePoints
  <2>5. CASE Announce(w)
    BY <2>5 DEF Announce, Move, Typed, RaceTyped, TriesTyped, PointsOK, ChildrenOwned,
       NoOrphanChild, KeepAlivePoints
  <2>6. CASE ObserveExit(w)
    BY <2>6 DEF ObserveExit, Move, Typed, RaceTyped, TriesTyped, PointsOK, ChildrenOwned,
       NoOrphanChild, KeepAlivePoints
  <2>7. CASE OutputEnds(w)
    BY <2>7 DEF OutputEnds, Move, Typed, RaceTyped, TriesTyped, PointsOK, ChildrenOwned,
       NoOrphanChild, KeepAlivePoints
  <2>8. CASE StopChild(w)
    BY <2>8 DEF StopChild, Stop, Leave, Yield, EndKeepAlive, Typed, RaceTyped, TriesTyped,
       PointsOK, ChildrenOwned, NoOrphanChild, KeepAlivePoints
  <2>9. CASE AttemptSucceeds(w)
    BY <2>9 DEF AttemptSucceeds, AttemptOver, Leave, Move, Typed, RaceTyped, TriesTyped, PointsOK,
       ChildrenOwned, NoOrphanChild, KeepAlivePoints
  <2>10. CASE AttemptFails(w)
    BY <2>10 DEF AttemptFails, AttemptOver, Fail, Leave, EndKeepAlive, Typed, RaceTyped,
       TriesTyped, PointsOK, ChildrenOwned, NoOrphanChild, KeepAlivePoints
  <2>11. CASE AttemptRetries(w)
    BY <2>11 DEF AttemptRetries, AttemptOver, Move, Typed, RaceTyped, TriesTyped, PointsOK,
       ChildrenOwned, NoOrphanChild, KeepAlivePoints
  <2>12. CASE RetryDelayOver(w)
    BY <2>12 DEF RetryDelayOver, Move, Typed, RaceTyped, TriesTyped, PointsOK, ChildrenOwned,
       NoOrphanChild, KeepAlivePoints
  <2>13. CASE StopWaiting(w)
    BY <2>13 DEF StopWaiting, Stop, Leave, Yield, EndKeepAlive, Typed, RaceTyped, TriesTyped,
       PointsOK, ChildrenOwned, NoOrphanChild, KeepAlivePoints
  <2>14. CASE WorkerFault(w)
    BY <2>14 DEF WorkerFault, FaultPoints, Fail, Leave, EndKeepAlive, Typed, RaceTyped,
       TriesTyped, PointsOK, ChildrenOwned, NoOrphanChild, KeepAlivePoints
  <2>15. CASE ChildExits(w)
    BY <2>15 DEF ChildExits, Typed, RaceTyped, TriesTyped, PointsOK, ChildrenOwned, NoOrphanChild,
       KeepAlivePoints
  <2>16. CASE ChildDetaches(w)
    BY <2>16 DEF ChildDetaches, Typed, RaceTyped, TriesTyped, PointsOK, ChildrenOwned,
       NoOrphanChild, KeepAlivePoints
  <2> QED
    BY <1>1, <2>1, <2>2, <2>3, <2>4, <2>5, <2>6, <2>7, <2>8, <2>9,
       <2>10, <2>11, <2>12, <2>13, <2>14, <2>15, <2>16 DEF WorkerStep
<1>2. CASE SpawnFirst
  BY <1>2, ConstantsOK DEF SpawnFirst, Typed, RaceTyped, TriesTyped, PointsOK, ChildrenOwned,
     NoOrphanChild, KeepAlivePoints
<1>3. CASE SpawnFirstFails
  BY <1>3, ConstantsOK DEF SpawnFirstFails, Typed, RaceTyped, TriesTyped, PointsOK, ChildrenOwned,
     NoOrphanChild, KeepAlivePoints
<1>4. CASE RaceLost
  BY <1>4, ConstantsOK DEF RaceLost, RaceDrained, Racing, Typed, RaceTyped, TriesTyped, PointsOK,
     ChildrenOwned, NoOrphanChild, KeepAlivePoints
<1>5. CASE RaceWon
  BY <1>5, ConstantsOK DEF RaceWon, RaceDrained, Racing, Typed, RaceTyped, TriesTyped, PointsOK,
     ChildrenOwned, NoOrphanChild, KeepAlivePoints
<1>6. CASE KeepAliveAccept
  BY <1>6, ConstantsOK DEF KeepAliveAccept, EndKeepAlive, Move, Typed, RaceTyped, TriesTyped,
     PointsOK, ChildrenOwned, NoOrphanChild, KeepAlivePoints
<1>7. CASE KeepAliveAnnounce
  BY <1>7, ConstantsOK DEF KeepAliveAnnounce, Move, Typed, RaceTyped, TriesTyped, PointsOK,
     ChildrenOwned, NoOrphanChild, KeepAlivePoints
<1>8. CASE KeepAliveNotified
  BY <1>8, ConstantsOK DEF KeepAliveNotified, EndKeepAlive, Move, Typed, RaceTyped, TriesTyped,
     PointsOK, ChildrenOwned, NoOrphanChild, KeepAlivePoints
<1>9. CASE KeepAliveSwitched
  BY <1>9, ConstantsOK DEF KeepAliveSwitched, EndKeepAlive, Typed, RaceTyped, TriesTyped,
     PointsOK, ChildrenOwned, NoOrphanChild, KeepAlivePoints
<1>10. CASE KeepAliveDelayOver
  BY <1>10, ConstantsOK DEF KeepAliveDelayOver, EndKeepAlive, Move, Typed, RaceTyped, TriesTyped,
     PointsOK, ChildrenOwned, NoOrphanChild, KeepAlivePoints
<1>11. CASE StopKeepAliveWait
  BY <1>11, ConstantsOK DEF StopKeepAliveWait, EndKeepAlive, Typed, RaceTyped, TriesTyped,
     PointsOK, ChildrenOwned, NoOrphanChild, KeepAlivePoints
<1>12. CASE WriteTerminal
  BY <1>12, ConstantsOK DEF WriteTerminal, Typed, RaceTyped, TriesTyped, PointsOK, ChildrenOwned,
     NoOrphanChild, KeepAlivePoints
<1>13. CASE TerminalFault
  BY <1>13, ConstantsOK DEF TerminalFault, Typed, RaceTyped, TriesTyped, PointsOK, ChildrenOwned,
     NoOrphanChild, KeepAlivePoints
<1>14. CASE Notify
  BY <1>14, ConstantsOK DEF Notify, Typed, RaceTyped, TriesTyped, PointsOK, ChildrenOwned,
     NoOrphanChild, KeepAlivePoints
<1>15. CASE LocalStop
  BY <1>15, ConstantsOK DEF LocalStop, Alive, Typed, RaceTyped, TriesTyped, PointsOK,
     ChildrenOwned, NoOrphanChild, KeepAlivePoints
<1>16. CASE RemoteStop \/ StopOverwritten \/ LocalKeepAliveSent
  BY <1>16, ConstantsOK DEF RemoteStop, StopOverwritten, LocalKeepAliveSent, Alive, Typed,
     RaceTyped, TriesTyped, PointsOK,
     ChildrenOwned, NoOrphanChild, KeepAlivePoints
<1>17. ASSUME NEW b \in BOOLEAN, LocalKeepAlive(b) \/ RemoteKeepAlive(b) PROVE ChildrenOwned'
  BY <1>17 DEF LocalKeepAlive, RemoteKeepAlive, Alive, OnOff, Typed, RaceTyped, TriesTyped,
     PointsOK, ChildrenOwned, NoOrphanChild, KeepAlivePoints
<1>18. CASE UNCHANGED vars
  BY <1>18 DEF vars, Typed, RaceTyped, TriesTyped, PointsOK, ChildrenOwned, NoOrphanChild,
     KeepAlivePoints
<1> QED
  BY <1>1, <1>2, <1>3, <1>4, <1>5, <1>6, <1>7, <1>8, <1>9, <1>10,
     <1>11, <1>12, <1>13, <1>14, <1>15, <1>16, <1>17, <1>18
  DEF Next, RunStep, KeepAliveStep, FaultStep, Environment, Terminated

-----------------------------------------------------------------------------
(* What has been reported so far, given where the run stands.              *)

Reported ==
    /\ phase \in {"boot", "race", "keepAlive", "closing"} => status \in {"Starting", "Running"}
    /\ phase = "boot" => status = "Starting"
    /\ phase = "notify" => status \in Terminal
    /\ notices = IF noticed THEN 1 ELSE 0
    /\ mode = "manual" => ~noticed

LEMMA ReportedStep ==
    ASSUME Typed, PointsOK, Reported, [Next]_vars
    PROVE  Reported'
<1>1. ASSUME NEW w \in Workers, WorkerStep(w) \/ WorkerFault(w) \/ ChildExits(w) \/ ChildDetaches(w)
      PROVE  Reported'
  <2>1. CASE Yielded(w)
    BY <2>1 DEF Yielded, Leave, Typed, RaceTyped, ReportTyped, PointsOK, KeepAlivePoints, Reported
  <2>2. CASE Interrupted(w)
    BY <2>2 DEF Interrupted, Stop, Leave, Yield, EndKeepAlive, Typed, RaceTyped, ReportTyped,
       PointsOK, KeepAlivePoints, Reported
  <2>3. CASE BeginAttempt(w)
    BY <2>3 DEF BeginAttempt, Starts, Move, Fail, Leave, EndKeepAlive, Typed, RaceTyped,
       ReportTyped, PointsOK, KeepAlivePoints, Reported
  <2>4. CASE Exhausted(w)
    BY <2>4 DEF Exhausted, Starts, Leave, Typed, RaceTyped, ReportTyped, PointsOK,
       KeepAlivePoints, Reported
  <2>5. CASE Announce(w)
    BY <2>5 DEF Announce, Move, Typed, RaceTyped, ReportTyped, PointsOK, KeepAlivePoints, Reported
  <2>6. CASE ObserveExit(w)
    BY <2>6 DEF ObserveExit, Move, Typed, RaceTyped, ReportTyped, PointsOK, KeepAlivePoints,
       Reported
  <2>7. CASE OutputEnds(w)
    BY <2>7 DEF OutputEnds, Move, Typed, RaceTyped, ReportTyped, PointsOK, KeepAlivePoints,
       Reported
  <2>8. CASE StopChild(w)
    BY <2>8 DEF StopChild, Stop, Leave, Yield, EndKeepAlive, Typed, RaceTyped, ReportTyped,
       PointsOK, KeepAlivePoints, Reported
  <2>9. CASE AttemptSucceeds(w)
    BY <2>9 DEF AttemptSucceeds, AttemptOver, Leave, Move, Typed, RaceTyped, ReportTyped,
       PointsOK, KeepAlivePoints, Reported
  <2>10. CASE AttemptFails(w)
    BY <2>10 DEF AttemptFails, AttemptOver, Fail, Leave, EndKeepAlive, Typed, RaceTyped,
       ReportTyped, PointsOK, KeepAlivePoints, Reported
  <2>11. CASE AttemptRetries(w)
    BY <2>11 DEF AttemptRetries, AttemptOver, Move, Typed, RaceTyped, ReportTyped, PointsOK,
       KeepAlivePoints, Reported
  <2>12. CASE RetryDelayOver(w)
    BY <2>12 DEF RetryDelayOver, Move, Typed, RaceTyped, ReportTyped, PointsOK, KeepAlivePoints,
       Reported
  <2>13. CASE StopWaiting(w)
    BY <2>13 DEF StopWaiting, Stop, Leave, Yield, EndKeepAlive, Typed, RaceTyped, ReportTyped,
       PointsOK, KeepAlivePoints, Reported
  <2>14. CASE WorkerFault(w)
    BY <2>14 DEF WorkerFault, FaultPoints, Fail, Leave, EndKeepAlive, Typed, RaceTyped,
       ReportTyped, PointsOK, KeepAlivePoints, Reported
  <2>15. CASE ChildExits(w)
    BY <2>15 DEF ChildExits, Typed, RaceTyped, ReportTyped, PointsOK, KeepAlivePoints, Reported
  <2>16. CASE ChildDetaches(w)
    BY <2>16 DEF ChildDetaches, Typed, RaceTyped, ReportTyped, PointsOK, KeepAlivePoints, Reported
  <2> QED
    BY <1>1, <2>1, <2>2, <2>3, <2>4, <2>5, <2>6, <2>7, <2>8, <2>9,
       <2>10, <2>11, <2>12, <2>13, <2>14, <2>15, <2>16 DEF WorkerStep
<1>2. CASE SpawnFirst
  BY <1>2, ConstantsOK DEF SpawnFirst, Typed, RaceTyped, ReportTyped, PointsOK, KeepAlivePoints,
     Reported
<1>3. CASE SpawnFirstFails
  BY <1>3, ConstantsOK DEF SpawnFirstFails, Typed, RaceTyped, ReportTyped, PointsOK,
     KeepAlivePoints, Reported
<1>4. CASE RaceLost
  BY <1>4, ConstantsOK DEF RaceLost, RaceDrained, Typed, RaceTyped, ReportTyped, PointsOK,
     KeepAlivePoints, Reported
<1>5. CASE RaceWon
  BY <1>5, ConstantsOK DEF RaceWon, RaceDrained, Typed, RaceTyped, ReportTyped, PointsOK,
     KeepAlivePoints, Reported
<1>6. CASE KeepAliveAccept
  BY <1>6, ConstantsOK DEF KeepAliveAccept, EndKeepAlive, Move, Typed, RaceTyped, ReportTyped,
     PointsOK, KeepAlivePoints, Reported
<1>7. CASE KeepAliveAnnounce
  <2>1. mode' = mode /\ phase' = phase /\ status' = "Running"
        /\ noticed' = (noticed \/ mode = "retry")
    BY <1>7 DEF KeepAliveAnnounce, Move
  <2>2. phase = "keepAlive" /\ noticed \in BOOLEAN /\ mode \in {"retry", "manual"}
    BY <1>7, ConstantsOK DEF KeepAliveAnnounce, Typed, OutsideTyped, ReportTyped, PointsOK,
       KeepAlivePoints
  <2>3. CASE noticed
    <3>1. notices' = 1 /\ noticed'
      BY <1>7, <2>1, <2>3 DEF KeepAliveAnnounce, Reported
    <3> QED
      BY <2>1, <2>2, <2>3, <3>1 DEF Reported
  <2>4. CASE ~noticed /\ mode = "retry"
    <3>1. notices = 0 /\ noticed'
      BY <2>1, <2>4 DEF Reported
    <3>2. notices' = notices + 1
      BY <1>7, <2>4 DEF KeepAliveAnnounce
    <3>3. notices' = 1
      BY <3>1, <3>2
    <3> QED
      BY <2>1, <2>2, <2>4, <3>1, <3>3 DEF Reported
  <2>5. CASE mode = "manual"
    <3>1. notices' = 0 /\ ~noticed'
      BY <1>7, <2>1, <2>5 DEF KeepAliveAnnounce, Reported
    <3> QED
      BY <2>1, <2>2, <2>5, <3>1 DEF Reported
  <2> QED
    BY <2>2, <2>3, <2>4, <2>5
<1>8. CASE KeepAliveNotified
  BY <1>8, ConstantsOK DEF KeepAliveNotified, EndKeepAlive, Move, Typed, RaceTyped, ReportTyped,
     PointsOK, KeepAlivePoints, Reported
<1>9. CASE KeepAliveSwitched
  BY <1>9, ConstantsOK DEF KeepAliveSwitched, EndKeepAlive, Typed, RaceTyped, ReportTyped,
     PointsOK, KeepAlivePoints, Reported
<1>10. CASE KeepAliveDelayOver
  BY <1>10, ConstantsOK DEF KeepAliveDelayOver, EndKeepAlive, Move, Typed, RaceTyped, ReportTyped,
     PointsOK, KeepAlivePoints, Reported
<1>11. CASE StopKeepAliveWait
  BY <1>11, ConstantsOK DEF StopKeepAliveWait, EndKeepAlive, Typed, RaceTyped, ReportTyped,
     PointsOK, KeepAlivePoints, Reported
<1>12. CASE WriteTerminal
  BY <1>12, ConstantsOK DEF WriteTerminal, TerminalOf, Typed, RaceTyped, ReportTyped, PointsOK,
     KeepAlivePoints, Reported
<1>13. CASE TerminalFault
  BY <1>13, ConstantsOK DEF TerminalFault, Typed, RaceTyped, ReportTyped, PointsOK,
     KeepAlivePoints, Reported
<1>14. CASE Notify
  BY <1>14, ConstantsOK DEF Notify, Typed, RaceTyped, ReportTyped, PointsOK, KeepAlivePoints,
     Reported
<1>15. CASE LocalStop
  BY <1>15, ConstantsOK DEF LocalStop, Alive, Typed, RaceTyped, ReportTyped, PointsOK,
     KeepAlivePoints, Reported
<1>16. CASE RemoteStop \/ StopOverwritten \/ LocalKeepAliveSent
  BY <1>16, ConstantsOK DEF RemoteStop, StopOverwritten, LocalKeepAliveSent, Alive, Typed,
     RaceTyped, ReportTyped, PointsOK,
     KeepAlivePoints, Reported
<1>17. ASSUME NEW b \in BOOLEAN, LocalKeepAlive(b) \/ RemoteKeepAlive(b) PROVE Reported'
  BY <1>17 DEF LocalKeepAlive, RemoteKeepAlive, Alive, OnOff, Typed, RaceTyped, ReportTyped,
     PointsOK, KeepAlivePoints, Reported
<1>18. CASE UNCHANGED vars
  BY <1>18 DEF vars, Typed, RaceTyped, ReportTyped, PointsOK, KeepAlivePoints, Reported
<1> QED
  BY <1>1, <1>2, <1>3, <1>4, <1>5, <1>6, <1>7, <1>8, <1>9, <1>10,
     <1>11, <1>12, <1>13, <1>14, <1>15, <1>16, <1>17, <1>18
  DEF Next, RunStep, KeepAliveStep, FaultStep, Environment, Terminated

-----------------------------------------------------------------------------
(* A success, or a notification of one, goes back to a worker that won.    *)

Won ==
    /\ phase \in {"boot", "race"} => \A w \in Workers : outcome[w] = "succeeded" => wpc[w] = "over"
    /\ phase = "keepAlive" \/ ended \in {"Success", "keepAliveOff"} \/ status = "Success" \/ noticed
          => Someone("succeeded")
    /\ phase = "done" /\ status = "Success" /\ mode = "retry" => noticed

LEMMA WonStep ==
    ASSUME Typed, PointsOK, Reported, Won, [Next]_vars
    PROVE  Won'
<1>1. ASSUME NEW w \in Workers, WorkerStep(w) \/ WorkerFault(w) \/ ChildExits(w) \/ ChildDetaches(w)
      PROVE  Won'
  <2>1. CASE Yielded(w)
    BY <2>1 DEF Yielded, Leave, Typed, RaceTyped, ReportTyped, PointsOK, KeepAlivePoints,
       Reported, Won, Someone
  <2>2. CASE Interrupted(w)
    BY <2>2 DEF Interrupted, Stop, Leave, Yield, EndKeepAlive, StopOutcome, Typed, RaceTyped,
       ReportTyped, PointsOK, KeepAlivePoints, Reported, Won, Someone
  <2>3. CASE BeginAttempt(w)
    BY <2>3 DEF BeginAttempt, Starts, Move, Fail, Leave, EndKeepAlive, Typed, RaceTyped,
       ReportTyped, PointsOK, KeepAlivePoints, Reported, Won, Someone
  <2>4. CASE Exhausted(w)
    BY <2>4 DEF Exhausted, Starts, Leave, Typed, RaceTyped, ReportTyped, PointsOK,
       KeepAlivePoints, Reported, Won, Someone
  <2>5. CASE Announce(w)
    BY <2>5 DEF Announce, Move, Typed, RaceTyped, ReportTyped, PointsOK, KeepAlivePoints,
       Reported, Won, Someone
  <2>6. CASE ObserveExit(w)
    BY <2>6 DEF ObserveExit, Move, Typed, RaceTyped, ReportTyped, PointsOK, KeepAlivePoints,
       Reported, Won, Someone
  <2>7. CASE OutputEnds(w)
    BY <2>7 DEF OutputEnds, Move, Typed, RaceTyped, ReportTyped, PointsOK, KeepAlivePoints,
       Reported, Won, Someone
  <2>8. CASE StopChild(w)
    BY <2>8 DEF StopChild, Stop, Leave, Yield, EndKeepAlive, StopOutcome, Typed, RaceTyped,
       ReportTyped, PointsOK, KeepAlivePoints, Reported, Won, Someone
  <2>9. CASE AttemptSucceeds(w)
    BY <2>9 DEF AttemptSucceeds, AttemptOver, Leave, Move, Typed, RaceTyped, ReportTyped,
       PointsOK, KeepAlivePoints, Reported, Won, Someone
  <2>10. CASE AttemptFails(w)
    BY <2>10 DEF AttemptFails, AttemptOver, Fail, Leave, EndKeepAlive, Typed, RaceTyped,
       ReportTyped, PointsOK, KeepAlivePoints, Reported, Won, Someone
  <2>11. CASE AttemptRetries(w)
    BY <2>11 DEF AttemptRetries, AttemptOver, Move, Typed, RaceTyped, ReportTyped, PointsOK,
       KeepAlivePoints, Reported, Won, Someone
  <2>12. CASE RetryDelayOver(w)
    BY <2>12 DEF RetryDelayOver, Move, Typed, RaceTyped, ReportTyped, PointsOK, KeepAlivePoints,
       Reported, Won, Someone
  <2>13. CASE StopWaiting(w)
    BY <2>13 DEF StopWaiting, Stop, Leave, Yield, EndKeepAlive, StopOutcome, Typed, RaceTyped,
       ReportTyped, PointsOK, KeepAlivePoints, Reported, Won, Someone
  <2>14. CASE WorkerFault(w)
    BY <2>14 DEF WorkerFault, FaultPoints, Fail, Leave, EndKeepAlive, Typed, RaceTyped,
       ReportTyped, PointsOK, KeepAlivePoints, Reported, Won, Someone
  <2>15. CASE ChildExits(w)
    BY <2>15 DEF ChildExits, Typed, RaceTyped, ReportTyped, PointsOK, KeepAlivePoints, Reported,
       Won, Someone
  <2>16. CASE ChildDetaches(w)
    BY <2>16 DEF ChildDetaches, Typed, RaceTyped, ReportTyped, PointsOK, KeepAlivePoints,
       Reported, Won, Someone
  <2> QED
    BY <1>1, <2>1, <2>2, <2>3, <2>4, <2>5, <2>6, <2>7, <2>8, <2>9,
       <2>10, <2>11, <2>12, <2>13, <2>14, <2>15, <2>16 DEF WorkerStep
<1>2. CASE SpawnFirst
  BY <1>2, ConstantsOK DEF SpawnFirst, Typed, RaceTyped, ReportTyped, PointsOK, KeepAlivePoints,
     Reported, Won, Someone
<1>3. CASE SpawnFirstFails
  BY <1>3, ConstantsOK DEF SpawnFirstFails, Typed, RaceTyped, ReportTyped, PointsOK,
     KeepAlivePoints, Reported, Won, Someone
<1>4. CASE RaceLost
  BY <1>4, ConstantsOK DEF RaceLost, RaceVerdict, Typed, RaceTyped, ReportTyped, PointsOK,
     KeepAlivePoints, Reported, Won, Someone
<1>5. CASE RaceWon
  BY <1>5, ConstantsOK DEF RaceWon, RaceVerdict, Typed, RaceTyped, ReportTyped, PointsOK,
     KeepAlivePoints, Reported, Won, Someone
<1>6. CASE KeepAliveAccept
  BY <1>6, ConstantsOK DEF KeepAliveAccept, EndKeepAlive, Move, Typed, RaceTyped, ReportTyped,
     PointsOK, KeepAlivePoints, Reported, Won, Someone
<1>7. CASE KeepAliveAnnounce
  BY <1>7, ConstantsOK DEF KeepAliveAnnounce, Move, Typed, RaceTyped, ReportTyped, PointsOK,
     KeepAlivePoints, Reported, Won, Someone
<1>8. CASE KeepAliveNotified
  BY <1>8, ConstantsOK DEF KeepAliveNotified, EndKeepAlive, Move, Typed, RaceTyped, ReportTyped,
     PointsOK, KeepAlivePoints, Reported, Won, Someone
<1>9. CASE KeepAliveSwitched
  BY <1>9, ConstantsOK DEF KeepAliveSwitched, EndKeepAlive, Typed, RaceTyped, ReportTyped,
     PointsOK, KeepAlivePoints, Reported, Won, Someone
<1>10. CASE KeepAliveDelayOver
  BY <1>10, ConstantsOK DEF KeepAliveDelayOver, EndKeepAlive, Move, Typed, RaceTyped, ReportTyped,
     PointsOK, KeepAlivePoints, Reported, Won, Someone
<1>11. CASE StopKeepAliveWait
  BY <1>11, ConstantsOK DEF StopKeepAliveWait, EndKeepAlive, Typed, RaceTyped, ReportTyped,
     PointsOK, KeepAlivePoints, Reported, Won, Someone
<1>12. CASE WriteTerminal
  BY <1>12, ConstantsOK DEF WriteTerminal, TerminalOf, Typed, RaceTyped, ReportTyped, PointsOK,
     KeepAlivePoints, Reported, Won, Someone
<1>13. CASE TerminalFault
  BY <1>13, ConstantsOK DEF TerminalFault, Typed, RaceTyped, ReportTyped, PointsOK,
     KeepAlivePoints, Reported, Won, Someone
<1>14. CASE Notify
  BY <1>14, ConstantsOK DEF Notify, Typed, RaceTyped, ReportTyped, PointsOK, KeepAlivePoints,
     Reported, Won, Someone
<1>15. CASE LocalStop
  BY <1>15, ConstantsOK DEF LocalStop, Alive, Typed, RaceTyped, ReportTyped, PointsOK,
     KeepAlivePoints, Reported, Won, Someone
<1>16. CASE RemoteStop \/ StopOverwritten \/ LocalKeepAliveSent
  BY <1>16, ConstantsOK DEF RemoteStop, StopOverwritten, LocalKeepAliveSent, Alive, Typed,
     RaceTyped, ReportTyped, PointsOK,
     KeepAlivePoints, Reported, Won, Someone
<1>17. ASSUME NEW b \in BOOLEAN, LocalKeepAlive(b) \/ RemoteKeepAlive(b) PROVE Won'
  BY <1>17 DEF LocalKeepAlive, RemoteKeepAlive, Alive, OnOff, Typed, RaceTyped, ReportTyped,
     PointsOK, KeepAlivePoints, Reported, Won, Someone
<1>18. CASE UNCHANGED vars
  BY <1>18 DEF vars, Typed, RaceTyped, ReportTyped, PointsOK, KeepAlivePoints, Reported, Won,
     Someone
<1> QED
  BY <1>1, <1>2, <1>3, <1>4, <1>5, <1>6, <1>7, <1>8, <1>9, <1>10,
     <1>11, <1>12, <1>13, <1>14, <1>15, <1>16, <1>17, <1>18
  DEF Next, RunStep, KeepAliveStep, FaultStep, Environment, Terminated

-----------------------------------------------------------------------------
(* A worker leaves as stopped or superseded only if the run was told to    *)
(* stop or another worker won.                                             *)

Asked ==
    /\ raceCancelled => Someone("succeeded")
    /\ \A w \in Workers : outcome[w] = "stopped" => cancelled
    /\ \A w \in Workers :
          outcome[w] = "superseded" => cancelled \/ stopFile # "none" \/ Someone("succeeded")
    /\ \A w \in Workers : wpc[w] = "yielding" => outcome[w] = "superseded"
    /\ phase \in {"boot", "race"} =>
          wpc[First] # "idle" /\ (wpc[First] = "over" => outcome[First] # "none")
    /\ ended = "Stopped" \/ status = "Stopped" => cancelled \/ stopFile # "none"

LEMMA AskedStep ==
    ASSUME Typed, PointsOK, Won, Asked, [Next]_vars
    PROVE  Asked'
<1>1. ASSUME NEW w \in Workers, WorkerStep(w) \/ WorkerFault(w) \/ ChildExits(w) \/ ChildDetaches(w)
      PROVE  Asked'
  <2>1. CASE Yielded(w)
    BY <2>1, ConstantsOK DEF Yielded, Leave, Racing, Typed, RaceTyped, PointsOK, KeepAlivePoints,
       Won, Asked, Someone
  <2>2. CASE Interrupted(w)
    BY <2>2, ConstantsOK DEF Interrupted, Stop, Leave, Yield, EndKeepAlive, StopOutcome,
       InterruptSeen, TokenCancelled, Typed, RaceTyped, PointsOK, KeepAlivePoints, Won, Asked,
          Someone
  <2>3. CASE BeginAttempt(w)
    BY <2>3, ConstantsOK DEF BeginAttempt, Starts, Move, Fail, Leave, EndKeepAlive, Typed,
       RaceTyped, PointsOK, KeepAlivePoints, Won, Asked, Someone
  <2>4. CASE Exhausted(w)
    BY <2>4, ConstantsOK DEF Exhausted, Starts, Leave, Typed, RaceTyped, PointsOK,
       KeepAlivePoints, Won, Asked, Someone
  <2>5. CASE Announce(w)
    BY <2>5, ConstantsOK DEF Announce, Move, Typed, RaceTyped, PointsOK, KeepAlivePoints, Won,
       Asked, Someone
  <2>6. CASE ObserveExit(w)
    BY <2>6, ConstantsOK DEF ObserveExit, Move, Typed, RaceTyped, PointsOK, KeepAlivePoints, Won,
       Asked, Someone
  <2>7. CASE OutputEnds(w)
    BY <2>7, ConstantsOK DEF OutputEnds, Move, Typed, RaceTyped, PointsOK, KeepAlivePoints, Won,
       Asked, Someone
  <2>8. CASE StopChild(w)
    BY <2>8, ConstantsOK DEF StopChild, Stop, Leave, Yield, EndKeepAlive, StopOutcome,
       InterruptSeen, TokenCancelled, Typed, RaceTyped, PointsOK, KeepAlivePoints, Won, Asked,
          Someone
  <2>9. CASE AttemptSucceeds(w)
    BY <2>9, ConstantsOK DEF AttemptSucceeds, AttemptOver, Leave, Move, Typed, RaceTyped,
       PointsOK, KeepAlivePoints, Won, Asked, Someone
  <2>10. CASE AttemptFails(w)
    BY <2>10, ConstantsOK DEF AttemptFails, AttemptOver, Fail, Leave, EndKeepAlive, Typed,
       RaceTyped, PointsOK, KeepAlivePoints, Won, Asked, Someone
  <2>11. CASE AttemptRetries(w)
    BY <2>11, ConstantsOK DEF AttemptRetries, AttemptOver, Move, Typed, RaceTyped, PointsOK,
       KeepAlivePoints, Won, Asked, Someone
  <2>12. CASE RetryDelayOver(w)
    BY <2>12, ConstantsOK DEF RetryDelayOver, Move, Typed, RaceTyped, PointsOK, KeepAlivePoints,
       Won, Asked, Someone
  <2>13. CASE StopWaiting(w)
    BY <2>13, ConstantsOK DEF StopWaiting, Stop, Leave, Yield, EndKeepAlive, StopOutcome,
       InterruptSeen, TokenCancelled, Typed, RaceTyped, PointsOK, KeepAlivePoints, Won, Asked,
          Someone
  <2>14. CASE WorkerFault(w)
    BY <2>14, ConstantsOK DEF WorkerFault, FaultPoints, Fail, Leave, EndKeepAlive, Typed,
       RaceTyped, PointsOK, KeepAlivePoints, Won, Asked, Someone
  <2>15. CASE ChildExits(w)
    BY <2>15, ConstantsOK DEF ChildExits, Typed, RaceTyped, PointsOK, KeepAlivePoints, Won, Asked,
       Someone
  <2>16. CASE ChildDetaches(w)
    BY <2>16, ConstantsOK DEF ChildDetaches, Typed, RaceTyped, PointsOK, KeepAlivePoints, Won,
       Asked, Someone
  <2> QED
    BY <1>1, <2>1, <2>2, <2>3, <2>4, <2>5, <2>6, <2>7, <2>8, <2>9,
       <2>10, <2>11, <2>12, <2>13, <2>14, <2>15, <2>16 DEF WorkerStep
<1>2. CASE SpawnFirst
  BY <1>2, ConstantsOK DEF SpawnFirst, Typed, RaceTyped, PointsOK, KeepAlivePoints, Won, Asked,
     Someone
<1>3. CASE SpawnFirstFails
  BY <1>3, ConstantsOK DEF SpawnFirstFails, Typed, RaceTyped, PointsOK, KeepAlivePoints, Won,
     Asked, Someone
<1>4. CASE RaceLost
  <2>1. outcome' = outcome /\ wpc' = wpc /\ ended' = RaceVerdict /\ status' = status
      /\ UNCHANGED <<cancelled, stopFile, raceCancelled>> /\ phase' = "closing"
    BY <1>4 DEF RaceLost
  <2>2. outcome[First] \in WorkerOutcomes \ {"none"}
    BY <1>4, ConstantsOK DEF RaceLost, RaceDrained, Racing, Typed, RaceTyped, Asked
  <2>3. RaceVerdict = "Stopped" => cancelled \/ stopFile # "none"
    BY <2>2, ConstantsOK DEF RaceVerdict, Someone, Asked
  <2> QED
    BY <2>1, <2>3 DEF Asked, Someone
<1>5. CASE RaceWon
  BY <1>5, ConstantsOK DEF RaceWon, RaceDrained, Typed, RaceTyped, PointsOK, KeepAlivePoints, Won,
     Asked, Someone
<1>6. CASE KeepAliveAccept
  BY <1>6, ConstantsOK DEF KeepAliveAccept, EndKeepAlive, Move, Typed, RaceTyped, PointsOK,
     KeepAlivePoints, Won, Asked, Someone
<1>7. CASE KeepAliveAnnounce
  BY <1>7, ConstantsOK DEF KeepAliveAnnounce, Move, Typed, RaceTyped, PointsOK, KeepAlivePoints,
     Won, Asked, Someone
<1>8. CASE KeepAliveNotified
  BY <1>8, ConstantsOK DEF KeepAliveNotified, EndKeepAlive, Move, Typed, RaceTyped, PointsOK,
     KeepAlivePoints, Won, Asked, Someone
<1>9. CASE KeepAliveSwitched
  BY <1>9, ConstantsOK DEF KeepAliveSwitched, EndKeepAlive, Typed, RaceTyped, PointsOK,
     KeepAlivePoints, Won, Asked, Someone
<1>10. CASE KeepAliveDelayOver
  BY <1>10, ConstantsOK DEF KeepAliveDelayOver, EndKeepAlive, Move, Typed, RaceTyped, PointsOK,
     KeepAlivePoints, Won, Asked, Someone
<1>11. CASE StopKeepAliveWait
  BY <1>11, ConstantsOK DEF StopKeepAliveWait, EndKeepAlive, Typed, RaceTyped, PointsOK,
     KeepAlivePoints, Won, Asked, Someone
<1>12. CASE WriteTerminal
  BY <1>12, ConstantsOK DEF WriteTerminal, TerminalOf, Typed, RaceTyped, PointsOK,
     KeepAlivePoints, Won, Asked, Someone
<1>13. CASE TerminalFault
  BY <1>13, ConstantsOK DEF TerminalFault, Typed, RaceTyped, PointsOK, KeepAlivePoints, Won,
     Asked, Someone
<1>14. CASE Notify
  BY <1>14, ConstantsOK DEF Notify, Typed, RaceTyped, PointsOK, KeepAlivePoints, Won, Asked,
     Someone
<1>15. CASE LocalStop
  BY <1>15, ConstantsOK DEF LocalStop, Alive, Typed, RaceTyped, PointsOK, KeepAlivePoints, Won,
     Asked, Someone
<1>16. CASE RemoteStop \/ StopOverwritten \/ LocalKeepAliveSent
  BY <1>16, ConstantsOK DEF RemoteStop, StopOverwritten, LocalKeepAliveSent, Alive, Typed,
     RaceTyped, PointsOK, KeepAlivePoints, Won,
     Asked, Someone
<1>17. ASSUME NEW b \in BOOLEAN, LocalKeepAlive(b) \/ RemoteKeepAlive(b) PROVE Asked'
  BY <1>17 DEF LocalKeepAlive, RemoteKeepAlive, Alive, OnOff, Typed, RaceTyped, PointsOK,
     KeepAlivePoints, Won, Asked, Someone
<1>18. CASE UNCHANGED vars
  BY <1>18 DEF vars, Typed, RaceTyped, PointsOK, KeepAlivePoints, Won, Asked, Someone
<1> QED
  BY <1>1, <1>2, <1>3, <1>4, <1>5, <1>6, <1>7, <1>8, <1>9, <1>10,
     <1>11, <1>12, <1>13, <1>14, <1>15, <1>16, <1>17, <1>18
  DEF Next, RunStep, KeepAliveStep, FaultStep, Environment, Terminated

-----------------------------------------------------------------------------
(* The inductive invariant, and what follows from it.                      *)

Control == Typed /\ PointsOK /\ ChildrenOwned /\ Reported /\ Won /\ Asked

LEMMA ControlInvariant == Spec => []Control
<1>1. Init => Control
  <2> SUFFICES ASSUME Init PROVE Control
    OBVIOUS
  <2>1. Typed
    BY TypedInit
  <2>2. PointsOK
    BY ConstantsOK DEF Init, PointsOK, KeepAlivePoints, Participants
  <2>3. ChildrenOwned /\ Reported
    BY DEF Init, ChildrenOwned, NoOrphanChild, Reported
  <2>4. Won /\ Asked
    BY ConstantsOK DEF Init, Won, Asked, Participants
  <2> QED
    BY <2>1, <2>2, <2>3, <2>4 DEF Control
<1>2. Control /\ [Next]_vars => Control'
  BY TypeStep, PointsStep, ChildrenStep, ReportedStep, WonStep, AskedStep DEF Control
<1> QED
  BY <1>1, <1>2, PTL DEF Spec

\* The result of a run is settled only when no process it started is left: the
\* race is drained, never abandoned, for any number of workers and any faults.
THEOREM NoOrphans == Spec => []NoOrphanChild
<1>1. Control => NoOrphanChild
  BY DEF Control, ChildrenOwned
<1> QED
  BY <1>1, ControlInvariant, PTL

\* At most one success event, none for manual keep-alive, and only for a worker's success.
THEOREM NoticeOnce == Spec => []SuccessNoticeOnce
<1>1. Control => SuccessNoticeOnce
  <2> SUFFICES ASSUME Control PROVE SuccessNoticeOnce
    OBVIOUS
  <2>1. mode \in {"retry", "manual"} /\ noticed \in BOOLEAN
    BY ConstantsOK DEF Control, Typed, OutsideTyped, ReportTyped
  <2>2. CASE noticed
    BY <2>1, <2>2 DEF Control, Reported, Won, SuccessNoticeOnce
  <2>3. CASE ~noticed
    BY <2>1, <2>3 DEF Control, Reported, Won, SuccessNoticeOnce
  <2> QED
    BY <2>2, <2>3
<1> QED
  BY <1>1, ControlInvariant, PTL

\* A run is reported as stopped only if somebody asked for it, whatever the order in
\* which any number of workers fail, win and give way.
THEOREM StoppedIsAsked == Spec => []StoppedWasAsked
<1>1. Control => StoppedWasAsked
  BY DEF Control, Asked, StoppedWasAsked
<1> QED
  BY <1>1, ControlInvariant, PTL

-----------------------------------------------------------------------------
(* Refinement: each step of the engine is a step of RunLifecycle or none.  *)

LEMMA LifecycleInit == Init => Lifecycle!Init
BY ConstantsOK DEF Init, Lifecycle!Init

LEMMA LifecycleStep ==
    ASSUME Control, [Next]_vars
    PROVE  [Lifecycle!Next]_(Lifecycle!run)
<1>1. ASSUME NEW w \in Workers, WorkerStep(w) \/ WorkerFault(w) \/ ChildExits(w) \/ ChildDetaches(w)
      PROVE  [Lifecycle!Next]_(Lifecycle!run)
  <2>1. CASE Yielded(w)
    BY <2>1 DEF Yielded, Leave, Lifecycle!run
  <2>2. CASE Interrupted(w)
    BY <2>2 DEF Interrupted, Stop, Leave, Yield, EndKeepAlive, Lifecycle!run
  <2>3. CASE BeginAttempt(w)
    BY <2>3 DEF BeginAttempt, Starts, Move, Fail, Leave, EndKeepAlive, Lifecycle!run
  <2>4. CASE Exhausted(w)
    BY <2>4 DEF Exhausted, Starts, Leave, Lifecycle!run
  <2>5. CASE Announce(w)
    BY <2>5, ConstantsOK DEF Announce, Move, Control, Typed, RaceTyped, PointsOK, KeepAlivePoints,
       Reported,
       Lifecycle!Next, Lifecycle!Work, Lifecycle!AtWork
  <2>6. CASE ObserveExit(w)
    BY <2>6 DEF ObserveExit, Move, Lifecycle!run
  <2>7. CASE OutputEnds(w)
    BY <2>7 DEF OutputEnds, Move, Lifecycle!run
  <2>8. CASE StopChild(w)
    BY <2>8 DEF StopChild, Stop, Leave, Yield, EndKeepAlive, Lifecycle!run
  <2>9. CASE AttemptSucceeds(w)
    BY <2>9 DEF AttemptSucceeds, AttemptOver, Leave, Move, Lifecycle!run
  <2>10. CASE AttemptFails(w)
    BY <2>10 DEF AttemptFails, AttemptOver, Fail, Leave, EndKeepAlive, Lifecycle!run
  <2>11. CASE AttemptRetries(w)
    BY <2>11 DEF AttemptRetries, AttemptOver, Move, Lifecycle!run
  <2>12. CASE RetryDelayOver(w)
    BY <2>12 DEF RetryDelayOver, Move, Lifecycle!run
  <2>13. CASE StopWaiting(w)
    BY <2>13 DEF StopWaiting, Stop, Leave, Yield, EndKeepAlive, Lifecycle!run
  <2>14. CASE WorkerFault(w)
    BY <2>14 DEF WorkerFault, FaultPoints, Fail, Leave, EndKeepAlive, Lifecycle!run
  <2>15. CASE ChildExits(w)
    BY <2>15 DEF ChildExits, Lifecycle!run
  <2>16. CASE ChildDetaches(w)
    BY <2>16 DEF ChildDetaches, Lifecycle!run
  <2> QED
    BY <1>1, <2>1, <2>2, <2>3, <2>4, <2>5, <2>6, <2>7, <2>8, <2>9,
       <2>10, <2>11, <2>12, <2>13, <2>14, <2>15, <2>16 DEF WorkerStep
<1>2. CASE SpawnFirst
  BY <1>2 DEF SpawnFirst, Lifecycle!run
<1>3. CASE SpawnFirstFails
  BY <1>3, ConstantsOK DEF SpawnFirstFails, Control, Reported,
     Lifecycle!Next, Lifecycle!FailToStart, Lifecycle!Lost, Lifecycle!AtWork
<1>4. CASE RaceLost
  BY <1>4 DEF RaceLost, RaceDrained, Lifecycle!run
<1>5. CASE RaceWon
  BY <1>5 DEF RaceWon, RaceDrained, Lifecycle!run
<1>6. CASE KeepAliveAccept
  BY <1>6, ConstantsOK DEF KeepAliveAccept, EndKeepAlive, Move, Control, PointsOK,
     KeepAlivePoints, Lifecycle!run
<1>7. CASE KeepAliveAnnounce
  <2>1. phase = "keepAlive" /\ noticed \in BOOLEAN /\ mode \in {"retry", "manual"}
    BY <1>7, ConstantsOK DEF KeepAliveAnnounce, Control, Typed, OutsideTyped, ReportTyped,
       PointsOK,
       KeepAlivePoints
  <2>2. phase' = phase /\ mode' = mode /\ status' = "Running"
    BY <1>7 DEF KeepAliveAnnounce, Move
  <2>3. CASE mode = "retry" /\ ~noticed
    <3>1. notices = 0 /\ notices' = notices + 1
      BY <1>7, <2>3 DEF KeepAliveAnnounce, Control, Reported
    <3> QED
      BY <2>1, <2>2, <2>3, <3>1
         DEF Control, Reported, Lifecycle!Next, Lifecycle!Work, Lifecycle!AtWork
  <2>4. CASE ~(mode = "retry" /\ ~noticed)
    <3>1. notices' = notices
      BY <1>7, <2>4 DEF KeepAliveAnnounce
    <3> QED
      BY <2>1, <2>2, <3>1 DEF Control, Reported, Lifecycle!Next, Lifecycle!Work, Lifecycle!AtWork
  <2> QED
    BY <2>3, <2>4
<1>8. CASE KeepAliveNotified
  BY <1>8, ConstantsOK DEF KeepAliveNotified, EndKeepAlive, Move, Control, PointsOK,
     KeepAlivePoints, Lifecycle!run
<1>9. CASE KeepAliveSwitched
  BY <1>9, ConstantsOK DEF KeepAliveSwitched, EndKeepAlive, Control, PointsOK, KeepAlivePoints,
     Lifecycle!run
<1>10. CASE KeepAliveDelayOver
  BY <1>10, ConstantsOK DEF KeepAliveDelayOver, EndKeepAlive, Move, Control, PointsOK,
     KeepAlivePoints, Lifecycle!run
<1>11. CASE StopKeepAliveWait
  BY <1>11, ConstantsOK DEF StopKeepAliveWait, EndKeepAlive, Control, PointsOK, KeepAlivePoints,
     Lifecycle!run
<1>12. CASE WriteTerminal
  BY <1>12, ConstantsOK DEF WriteTerminal, Control, Typed, RaceTyped, TerminalOf, Reported,
     Lifecycle!Next, Lifecycle!Finish, Lifecycle!AtWork, Lifecycle!Terminal
<1>13. CASE TerminalFault
  BY <1>13, ConstantsOK DEF TerminalFault, Control, Reported,
     Lifecycle!Next, Lifecycle!Lost, Lifecycle!AtWork
<1>14. CASE Notify
  BY <1>14, ConstantsOK DEF Notify, Control, Reported,
     Lifecycle!Next, Lifecycle!Release, Lifecycle!Terminal
<1>15. CASE LocalStop
  BY <1>15 DEF LocalStop, Alive, Lifecycle!run
<1>16. CASE RemoteStop \/ StopOverwritten \/ LocalKeepAliveSent
  BY <1>16 DEF RemoteStop, StopOverwritten, LocalKeepAliveSent, Alive, Lifecycle!run
<1>17. ASSUME NEW b \in BOOLEAN,
   LocalKeepAlive(b) \/ RemoteKeepAlive(b) PROVE [Lifecycle!Next]_(Lifecycle!run)
  BY <1>17 DEF LocalKeepAlive, RemoteKeepAlive, Alive, OnOff, Lifecycle!run
<1>18. CASE UNCHANGED vars
  BY <1>18 DEF vars, Lifecycle!run
<1> QED
  BY <1>1, <1>2, <1>3, <1>4, <1>5, <1>6, <1>7, <1>8, <1>9, <1>10,
     <1>11, <1>12, <1>13, <1>14, <1>15, <1>16, <1>17, <1>18
  DEF Next, RunStep, KeepAliveStep, FaultStep, Environment, Terminated

\* Seen through the lease, the status and the notification, the engine does
\* nothing RunLifecycle does not allow.
THEOREM Refinement == Spec => ImplementsLifecycle
BY LifecycleInit, LifecycleStep, ControlInvariant, PTL DEF Spec, ImplementsLifecycle,
   Lifecycle!Spec

-----------------------------------------------------------------------------
(* The keep-alive switch, while nobody but the owner of the run uses it    *)

\* The owner's call writes the file and then the channel: they differ only while the call
\* stands between the two, and the file then says what the call said.
OneSource ==
    /\ keepCall # "none" => keepFile = keepCall
    /\ keepFile = "on" => keepWatch \/ keepCall = "on"

LEMMA OneSourceStep ==
    ASSUME "remote" \notin Controllers, Typed, OneSource, [Next]_vars
    PROVE  OneSource'
<1> USE DEF OneSource
<1>1. ASSUME NEW b \in BOOLEAN, LocalKeepAlive(b) PROVE OneSource'
  BY <1>1 DEF LocalKeepAlive, OnOff
<1>2. CASE UNCHANGED <<keepFile, keepCall, keepWatch>>
  BY <1>2
<1>3. CASE LocalKeepAliveSent
  BY <1>3 DEF LocalKeepAliveSent, Typed, OutsideTyped
<1>4. CASE Environment
  BY <1>1, <1>2, <1>3, <1>4 DEF Environment, LocalStop, RemoteStop, StopOverwritten,
     RemoteKeepAlive, ChildExits, ChildDetaches
<1>5. CASE RunStep
  BY <1>2, <1>5 DEF RunStep, SpawnFirst, RaceLost, RaceWon, KeepAliveStep, KeepAliveAccept,
     KeepAliveAnnounce, KeepAliveNotified, KeepAliveSwitched, KeepAliveDelayOver,
     StopKeepAliveWait, WriteTerminal, Notify
<1>6. CASE FaultStep
  BY <1>2, <1>6 DEF FaultStep, SpawnFirstFails, TerminalFault, WorkerFault
<1>7. ASSUME NEW w \in Workers, WorkerStep(w) PROVE OneSource'
  BY <1>2, <1>7 DEF WorkerStep, Yielded, Interrupted, BeginAttempt, Exhausted, Announce,
     ObserveExit, OutputEnds, StopChild, AttemptSucceeds, AttemptFails, AttemptRetries,
     RetryDelayOver, StopWaiting
<1> QED
  BY <1>2, <1>4, <1>5, <1>6, <1>7 DEF Next, Terminated, vars

\* Where the run can be ended as switched off, and what it has looked at there.
LEMMA SwitchedOffStep ==
    ASSUME OneSource, Next, ended = "none", ended' = "keepAliveOff"
    PROVE  keepFile # "on" \/ keepCall = "on"
<1>1. CASE KeepAliveStep
  BY <1>1 DEF KeepAliveStep, KeepAliveAccept, KeepAliveAnnounce, KeepAliveNotified,
     KeepAliveSwitched, KeepAliveDelayOver, StopKeepAliveWait, EndKeepAlive, Move,
     KeepAliveEnabled, OneSource
<1>2. CASE RunStep /\ ~KeepAliveStep
  BY <1>2 DEF RunStep, SpawnFirst, RaceLost, RaceVerdict, RaceWon, WriteTerminal, Notify
<1>3. CASE FaultStep
  BY <1>3 DEF FaultStep, SpawnFirstFails, TerminalFault, WorkerFault, Fail, EndKeepAlive, Leave
<1>4. ASSUME NEW w \in Workers, WorkerStep(w) PROVE FALSE
  BY <1>4 DEF WorkerStep, Yielded, Interrupted, BeginAttempt, Exhausted, Announce, ObserveExit,
     OutputEnds, StopChild, AttemptSucceeds, AttemptFails, AttemptRetries, RetryDelayOver,
     StopWaiting, Stop, Fail, Leave, Yield, Move, EndKeepAlive
<1>5. CASE Environment \/ Terminated
  BY <1>5 DEF Environment, Terminated, LocalStop, RemoteStop, StopOverwritten, LocalKeepAlive,
     LocalKeepAliveSent, RemoteKeepAlive, ChildExits, ChildDetaches, vars
<1> QED
  BY <1>1, <1>2, <1>3, <1>4, <1>5 DEF Next

\* The owner's last answered word decides: a run ends as switched off while its request says
\* on only if the call that said so stands between the file and the channel, where the
\* channel's older value may still be seen (wait_for_keep_alive). Another process writes the
\* file only, and then the older value may win for good: the theorem excludes it.
THEOREM LastRequestWins ==
    ASSUME "remote" \notin Controllers
    PROVE  Spec => KeepAliveLastRequestWins
<1>1. Init => OneSource
  BY DEF Init, OneSource
<1>2. Typed /\ OneSource /\ [Next]_vars => OneSource'
  BY OneSourceStep
<1>3. OneSource /\ [Next]_vars =>
        [ended = "none" /\ ended' = "keepAliveOff" => keepFile # "on" \/ keepCall = "on"]_vars
  BY SwitchedOffStep
<1>4. Control => Typed
  BY DEF Control
<1> QED
  BY <1>1, <1>2, <1>3, <1>4, ControlInvariant, PTL DEF Spec, KeepAliveLastRequestWins

-----------------------------------------------------------------------------
(* What StatusBuilder counts: the shared budget of attempts, active_workers *)
(* and child_pids, for any number of workers.  The numbers are cardinalities *)
(* of sets of workers that each step changes by one worker.                *)

\* The workers at one of some await points.
At(points) == {w \in Workers : wpc[w] \in points}

Busy == {"announce", "running", "draining", "reaping"}   \* between an attempt's number and its result
RacePoints == WorkerPoints \ {"idle", "over"}

\* One worker moves: the number of workers at some points changes by at most one.
LEMMA CountMoves ==
    ASSUME Typed, NEW points, NEW v \in Workers, NEW p, wpc' = [wpc EXCEPT ![v] = p]
    PROVE  /\ Cardinality(At(points)) \in Nat /\ Cardinality(At(points)') \in Nat
           /\ p \in points /\ wpc[v] \notin points =>
                Cardinality(At(points)') = Cardinality(At(points)) + 1
           /\ p \notin points /\ wpc[v] \in points =>
                Cardinality(At(points)) = Cardinality(At(points)') + 1
           /\ (p \in points <=> wpc[v] \in points) =>
                Cardinality(At(points)') = Cardinality(At(points))
<1>1. wpc \in [Workers -> WorkerPoints]
  BY DEF Typed, RaceTyped
<1>2. IsFiniteSet(At(points)) /\ IsFiniteSet(At(points)')
  <2>1. At(points) \in SUBSET Workers /\ At(points)' \in SUBSET Workers
    BY DEF At
  <2> QED
    BY <2>1, FS_Subset, ConstantsOK
<1>3. Cardinality(At(points)) \in Nat /\ Cardinality(At(points)') \in Nat
  BY <1>2, FS_CardinalityType
<1>4. CASE p \in points /\ wpc[v] \notin points
  <2>1. At(points)' = At(points) \cup {v} /\ v \notin At(points)
    BY <1>1, <1>4 DEF At
  <2>2. Cardinality(At(points) \cup {v}) = Cardinality(At(points)) + 1
    BY <1>2, <2>1, FS_AddElement
  <2> QED
    BY <1>3, <1>4, <2>1, <2>2
<1>5. CASE p \notin points /\ wpc[v] \in points
  <2>1. At(points) = At(points)' \cup {v} /\ v \notin At(points)'
    BY <1>1, <1>5 DEF At
  <2>2. Cardinality(At(points)' \cup {v}) = Cardinality(At(points)') + 1
    BY <1>2, <2>1, FS_AddElement
  <2> QED
    BY <1>3, <1>5, <2>1, <2>2
<1>6. CASE p \in points <=> wpc[v] \in points
  <2>1. At(points)' = At(points)
    BY <1>1, <1>6 DEF At
  <2> QED
    BY <1>3, <1>6, <2>1
<1> QED
  BY <1>3, <1>4, <1>5, <1>6

-----------------------------------------------------------------------------
(* The budget.  A retry is promised per finished attempt, and an attempt   *)
(* in progress has not promised its own yet.                               *)

Flying == Cardinality(At(Busy))

Booked ==
    /\ Flying \in Nat
    /\ retries + Flying <= attempt
    /\ phase = "boot" => attempt = 0
    /\ BudgetShared

\* An attempt in progress that ends or goes on leaves the attempts covered.
LEMMA StillCovered ==
    ASSUME NEW r \in Nat, NEW f \in Nat, NEW g \in Nat, NEW a \in Nat, r + f <= a,
           g = f \/ f = g + 1
    PROVE  r + g <= a /\ r + g <= a + 1
OBVIOUS

\* The counters are numbers.
LEMMA CountsAreNat ==
    ASSUME Typed
    PROVE  attempt \in Nat /\ retries \in Nat /\ MaxTries \in Nat
BY ConstantsOK DEF Typed, TriesTyped

\* A step that starts no attempt and promises no retry keeps the books, wherever its
\* worker goes except into an attempt.
LEMMA BooksKept ==
    ASSUME Typed, Booked, NEW v \in Workers, NEW p, wpc' = [wpc EXCEPT ![v] = p],
           p \in Busy => wpc[v] \in Busy,
           UNCHANGED <<attempt, retries>>,
           phase' # "boot", phase' = "race" => phase = "race"
    PROVE  Booked'
<1>1. Flying \in Nat /\ Flying' \in Nat /\ (Flying' = Flying \/ Flying = Flying' + 1)
  <2>1. CASE p \in Busy <=> wpc[v] \in Busy
    BY <2>1, CountMoves DEF Flying
  <2>2. CASE p \notin Busy /\ wpc[v] \in Busy
    BY <2>2, CountMoves DEF Flying
  <2> QED
    BY <2>1, <2>2
<1>2. retries + Flying' <= attempt
  BY <1>1, CountsAreNat, StillCovered DEF Booked
<1> QED
  BY <1>1, <1>2 DEF Booked, BudgetShared

\* So does a step that moves no worker.
LEMMA BooksUntouched ==
    ASSUME Typed, Booked, UNCHANGED <<wpc, attempt, retries>>,
           phase' = phase \/ phase' \notin {"boot", "race"}
    PROVE  Booked'
<1>1. Flying' = Flying
  BY DEF Flying, At
<1> QED
  BY <1>1 DEF Booked, BudgetShared

\* Where a worker that stops or fails ends up.
LEMMA StopMoves ==
    ASSUME Typed, NEW w \in Workers, Stop(w) \/ Fail(w)
    PROVE  /\ \E v \in Workers, p \in {"over", "yielding"} : wpc' = [wpc EXCEPT ![v] = p]
           /\ phase \in {"race", "keepAlive"}
           /\ phase' # "boot" /\ (phase' = "race" => phase = "race")
BY ConstantsOK DEF Stop, Fail, Leave, Yield, EndKeepAlive, StopOutcome

\* Every step keeps the books.
LEMMA BookedStep ==
    ASSUME Typed, PointsOK, Booked, [Next]_vars
    PROVE  Booked'
<1>0. First \in Workers
  BY ConstantsOK
<1>1. ASSUME NEW w \in Workers, WorkerStep(w) \/ WorkerFault(w) \/ ChildExits(w) \/ ChildDetaches(w)
      PROVE  Booked'
  <2>1. CASE Yielded(w)
    BY <2>1, BooksKept DEF Yielded, Leave, PointsOK, Busy
  <2>2. CASE Interrupted(w)
    BY <2>2, StopMoves, BooksKept DEF Interrupted, Busy
  <2>3. CASE BeginAttempt(w)
    <3>1. attempt' = attempt + 1 /\ retries' = retries /\ phase \in {"race", "keepAlive"}
          /\ (phase = "race" => HasRemainingAttempts(attempt))
      BY <2>3 DEF BeginAttempt, Starts
    <3>2. PICK v \in Workers, p \in {"announce", "over", "yielding"} :
             wpc' = [wpc EXCEPT ![v] = p]
      BY <2>3, StopMoves DEF BeginAttempt, Move
    <3>3. Flying \in Nat /\ Flying' \in Nat
          /\ (Flying' = Flying + 1 \/ Flying' = Flying \/ Flying = Flying' + 1)
      <4>1. CASE p \in Busy <=> wpc[v] \in Busy
        BY <3>2, <4>1, CountMoves DEF Flying
      <4>2. CASE p \notin Busy /\ wpc[v] \in Busy
        BY <3>2, <4>2, CountMoves DEF Flying
      <4>3. CASE p \in Busy /\ wpc[v] \notin Busy
        BY <3>2, <4>3, CountMoves DEF Flying
      <4> QED
        BY <4>1, <4>2, <4>3
    <3>4. phase' # "boot" /\ (phase' = "race" => phase = "race")
      BY <2>3, <3>1, StopMoves DEF BeginAttempt, Move
    <3> QED
      <4>1. retries + Flying' <= attempt + 1
        <5>1. CASE Flying' = Flying + 1
          BY <3>3, <5>1, CountsAreNat DEF Booked
        <5>2. CASE Flying' # Flying + 1
          BY <3>3, <5>2, CountsAreNat, StillCovered DEF Booked
        <5> QED
          BY <5>1, <5>2
      <4> QED
        BY <3>1, <3>3, <3>4, <4>1, CountsAreNat DEF Booked, BudgetShared, HasRemainingAttempts
  <2>4. CASE Exhausted(w)
    BY <2>4, BooksKept DEF Exhausted, Starts, Leave, Busy
  <2>5. CASE Announce(w)
    BY <2>5, BooksKept DEF Announce, Move, PointsOK, Busy
  <2>6. CASE ObserveExit(w) \/ OutputEnds(w)
    BY <2>6, BooksKept DEF ObserveExit, OutputEnds, Move, PointsOK, Busy
  <2>7. CASE StopChild(w)
    BY <2>7, StopMoves, BooksKept DEF StopChild, Busy
  <2>8. CASE AttemptSucceeds(w)
    BY <2>8, BooksKept DEF AttemptSucceeds, AttemptOver, Leave, Move, Busy
  <2>9. CASE AttemptFails(w)
    BY <2>9, StopMoves, BooksKept DEF AttemptFails, AttemptOver, Busy
  <2>10. CASE AttemptRetries(w)
    <3>1. wpc[w] \in Busy /\ wpc' = [wpc EXCEPT ![w] = "waiting"] /\ phase' = phase
          /\ attempt' = attempt /\ retries' = retries + 1 /\ HasRemainingAttempts(attempt)
      BY <2>10 DEF AttemptRetries, AttemptOver, Move, Busy
    <3>2. Flying' \in Nat /\ Flying = Flying' + 1
      BY <3>1, CountMoves DEF Flying, Busy
    <3> QED
      <4>1. retries + 1 + Flying' <= attempt /\ retries + 1 <= attempt
        BY <3>2, CountsAreNat DEF Booked
      <4> QED
        BY <3>1, <3>2, <4>1, CountsAreNat DEF Booked, BudgetShared, HasRemainingAttempts
  <2>11. CASE RetryDelayOver(w)
    BY <2>11, BooksKept DEF RetryDelayOver, Move, PointsOK, Busy
  <2>12. CASE StopWaiting(w)
    BY <2>12, StopMoves, BooksKept DEF StopWaiting, Busy
  <2>13. CASE WorkerFault(w)
    BY <2>13, StopMoves, BooksKept DEF WorkerFault, Busy
  <2>14. CASE ChildExits(w) \/ ChildDetaches(w)
    BY <2>14, BooksUntouched DEF ChildExits, ChildDetaches
  <2> QED
    BY <1>1, <2>1, <2>2, <2>3, <2>4, <2>5, <2>6, <2>7, <2>8, <2>9,
       <2>10, <2>11, <2>12, <2>13, <2>14 DEF WorkerStep
<1>2. CASE SpawnFirst
  <2>1. Flying' = Flying
    BY <1>2 DEF SpawnFirst, Flying, At
  <2> QED
    BY <1>2, <2>1, ConstantsOK DEF SpawnFirst, Booked, BudgetShared, Typed, TriesTyped
<1>3. CASE SpawnFirstFails \/ RaceLost \/ WriteTerminal \/ TerminalFault \/ Notify
  BY <1>3, BooksUntouched DEF SpawnFirstFails, RaceLost, WriteTerminal, TerminalFault, Notify
<1>4. CASE RaceWon
  <2>1. CASE UNCHANGED wpc
    BY <1>4, <2>1, BooksUntouched DEF RaceWon
  <2>2. CASE wpc' = [wpc EXCEPT ![First] = "accept"]
    BY <1>0, <1>4, <2>2, BooksKept DEF RaceWon, Busy
  <2> QED
    BY <1>4, <2>1, <2>2 DEF RaceWon
<1>5. CASE KeepAliveStep
  <2>1. phase = "keepAlive" /\ UNCHANGED <<attempt, retries>>
    BY <1>0, <1>5 DEF KeepAliveStep, KeepAliveAccept, KeepAliveAnnounce, KeepAliveNotified,
       KeepAliveSwitched, KeepAliveDelayOver, StopKeepAliveWait, PointsOK, KeepAlivePoints
  <2>2. \/ UNCHANGED <<wpc, phase>>
        \/ /\ \E p \in {"over", "ready", "kaAnnounce", "kaNotify", "kaWait"} :
                 wpc' = [wpc EXCEPT ![First] = p]
           /\ phase' \in {"keepAlive", "closing"}
    BY <1>5, <2>1 DEF KeepAliveStep, KeepAliveAccept, KeepAliveAnnounce, KeepAliveNotified,
       KeepAliveSwitched, KeepAliveDelayOver, StopKeepAliveWait, Move, EndKeepAlive
  <2> QED
    BY <1>0, <2>1, <2>2, BooksKept, BooksUntouched DEF Busy
<1>6. CASE Environment
  BY <1>1, <1>6, BooksUntouched DEF Environment, LocalStop, RemoteStop, StopOverwritten,
     LocalKeepAlive, LocalKeepAliveSent,
     RemoteKeepAlive
<1>7. CASE UNCHANGED vars
  BY <1>7, BooksUntouched DEF vars
<1> QED
  BY <1>1, <1>2, <1>3, <1>4, <1>5, <1>6, <1>7 DEF Next, RunStep, FaultStep, Terminated

\* However many workers share one budget, together they start no attempt too many in the
\* race, and promise no retry the budget does not hold (reserve_attempt, execute_attempt).
THEOREM BudgetIsShared == Spec => []BudgetShared
<1>1. Init => Booked
  <2> SUFFICES ASSUME Init PROVE Booked
    OBVIOUS
  <2>1. At(Busy) = {}
    BY DEF Init, At, Busy
  <2>2. Flying = 0
    BY <2>1, FS_EmptySet DEF Flying
  <2> QED
    BY <2>2, ConstantsOK DEF Init, Booked, BudgetShared
<1>2. Typed /\ PointsOK /\ Booked /\ [Next]_vars => Booked'
  BY BookedStep
<1>3. Control => Typed /\ PointsOK
  BY DEF Control
<1>4. Booked => BudgetShared
  BY DEF Booked
<1> QED
  BY <1>1, <1>2, <1>3, <1>4, ControlInvariant, PTL DEF Spec

-----------------------------------------------------------------------------
(* active_workers.  In the boot phase the participants stand ready, which  *)
(* is what SpawnFirst counts.                                              *)

Counted ==
    /\ phase = "boot" =>
          \A w \in Workers : wpc[w] = IF w \in Participants(mode) THEN "ready" ELSE "idle"
    /\ phase = "race" => activeWorkers = Cardinality(At(RacePoints))
    /\ phase = "keepAlive" => activeWorkers = 1

\* A worker that stays in the race is counted as before.
LEMMA StayCounted ==
    ASSUME Typed, Counted, NEW v \in Workers, NEW p \in RacePoints, wpc[v] \in RacePoints,
           wpc' = [wpc EXCEPT ![v] = p], UNCHANGED <<phase, activeWorkers>>, phase # "boot"
    PROVE  Counted'
<1>1. Cardinality(At(RacePoints)') = Cardinality(At(RacePoints))
  BY CountMoves
<1> QED
  BY <1>1 DEF Counted

\* One that leaves the race is counted out, and there was one to count out.
LEMMA LeaveCounted ==
    ASSUME Typed, Counted, phase = "race", NEW w \in Workers, NEW o, wpc[w] \in RacePoints,
           Leave(w, o)
    PROVE  Counted'
<1>1. wpc' = [wpc EXCEPT ![w] = "over"] /\ phase' = "race"
      /\ activeWorkers' = IF activeWorkers = 0 THEN 0 ELSE activeWorkers - 1
  BY DEF Leave
<1>2. /\ Cardinality(At(RacePoints)) \in Nat /\ Cardinality(At(RacePoints)') \in Nat
      /\ Cardinality(At(RacePoints)) = Cardinality(At(RacePoints)') + 1
  BY <1>1, CountMoves DEF RacePoints
<1>3. activeWorkers = Cardinality(At(RacePoints))
  BY DEF Counted
<1>4. activeWorkers' = Cardinality(At(RacePoints)')
  BY <1>1, <1>2, <1>3
<1> QED
  BY <1>1, <1>4 DEF Counted

\* A stop or a failure is such a leave, the start of one, or the end of the run.
LEMMA StopCounted ==
    ASSUME Typed, Counted, NEW w \in Workers, wpc[w] \in RacePoints, Stop(w) \/ Fail(w)
    PROVE  Counted'
<1>1. CASE phase' = "closing"
  BY <1>1 DEF Counted
<1>2. CASE phase = "race" /\ \E o \in WorkerOutcomes : Leave(w, o)
  BY <1>2, LeaveCounted
<1>3. CASE phase = "race" /\ Yield(w)
  BY <1>3, StayCounted DEF Yield, RacePoints
<1> QED
  BY <1>1, <1>2, <1>3 DEF Stop, Fail, EndKeepAlive

\* Every step counts right.
LEMMA CountedStep ==
    ASSUME Typed, PointsOK, Counted, [Next]_vars
    PROVE  Counted'
<1>0. First \in Workers
  BY ConstantsOK
<1>1. ASSUME NEW w \in Workers, WorkerStep(w) \/ WorkerFault(w)
      PROVE  Counted'
  <2>1. CASE Yielded(w)
    BY <2>1, LeaveCounted DEF Yielded, PointsOK, RacePoints
  <2>2. CASE Interrupted(w) \/ StopChild(w) \/ StopWaiting(w)
    BY <2>2, StopCounted DEF Interrupted, StopChild, StopWaiting, RacePoints
  <2>3. CASE BeginAttempt(w)
    <3>1. CASE Fail(w)
      BY <2>3, <3>1, StopCounted DEF BeginAttempt, Starts, RacePoints
    <3>2. CASE Move(w, "announce")
      BY <2>3, <3>2, StayCounted DEF BeginAttempt, Starts, Move, RacePoints
    <3> QED
      BY <2>3, <3>1, <3>2 DEF BeginAttempt
  <2>4. CASE Exhausted(w)
    BY <2>4, LeaveCounted DEF Exhausted, Starts, RacePoints
  <2>5. CASE Announce(w) \/ ObserveExit(w) \/ OutputEnds(w) \/ RetryDelayOver(w)
    BY <2>5, StayCounted DEF Announce, ObserveExit, OutputEnds, RetryDelayOver, Move, RacePoints,
       PointsOK
  <2>6. CASE AttemptSucceeds(w)
    <3>1. CASE phase = "race" /\ Leave(w, "succeeded")
      BY <2>6, <3>1, LeaveCounted DEF AttemptSucceeds, AttemptOver, RacePoints
    <3>2. CASE phase = "keepAlive" /\ Move(w, "accept")
      BY <2>6, <3>2, StayCounted DEF AttemptSucceeds, AttemptOver, Move, RacePoints
    <3> QED
      BY <2>6, <3>1, <3>2 DEF AttemptSucceeds
  <2>7. CASE AttemptFails(w)
    BY <2>7, StopCounted DEF AttemptFails, AttemptOver, RacePoints
  <2>8. CASE AttemptRetries(w)
    BY <2>8, StayCounted DEF AttemptRetries, AttemptOver, Move, RacePoints, PointsOK
  <2>9. CASE WorkerFault(w)
    BY <2>9, StopCounted DEF WorkerFault, FaultPoints, RacePoints
  <2> QED
    BY <1>1, <2>1, <2>2, <2>3, <2>4, <2>5, <2>6, <2>7, <2>8, <2>9 DEF WorkerStep
<1>2. CASE SpawnFirst
  <2>1. Participants(mode) \subseteq Workers
    BY <1>0 DEF Participants
  <2>2. At(RacePoints)' = Participants(mode)
    BY <1>2, <2>1 DEF SpawnFirst, Counted, At, RacePoints
  <2> QED
    BY <1>2, <2>2 DEF SpawnFirst, Counted
<1>3. CASE SpawnFirstFails \/ RaceLost \/ WriteTerminal \/ TerminalFault \/ Notify
  BY <1>3 DEF SpawnFirstFails, RaceLost, WriteTerminal, TerminalFault, Notify, Counted
<1>4. CASE RaceWon
  BY <1>4 DEF RaceWon, Counted
<1>5. CASE KeepAliveStep
  <2>1. phase = "keepAlive" /\ activeWorkers' = activeWorkers /\ phase' \in {"keepAlive", "closing"}
    BY <1>0, <1>5 DEF KeepAliveStep, KeepAliveAccept, KeepAliveAnnounce, KeepAliveNotified,
       KeepAliveSwitched, KeepAliveDelayOver, StopKeepAliveWait, PointsOK, KeepAlivePoints, Move,
       EndKeepAlive
  <2> QED
    BY <2>1 DEF Counted
<1>6. CASE UNCHANGED <<mode, phase, wpc, activeWorkers>>
  BY <1>6 DEF Counted, At, Participants
<1>7. CASE Environment \/ UNCHANGED vars
  BY <1>6, <1>7 DEF Environment, LocalStop, RemoteStop, StopOverwritten, LocalKeepAlive,
     LocalKeepAliveSent, RemoteKeepAlive,
     ChildExits, ChildDetaches, vars
<1> QED
  BY <1>1, <1>2, <1>3, <1>4, <1>5, <1>7 DEF Next, RunStep, FaultStep, Terminated

\* active_workers is exact at every await point of every worker: a superseded worker that
\* still writes its farewell line is counted, a drained one is not, and none twice.
THEOREM ActiveWorkersAreExact == Spec => []ActiveWorkersExact
<1>1. Init => Counted
  BY DEF Init, Counted
<1>2. Typed /\ PointsOK /\ Counted /\ [Next]_vars => Counted'
  BY CountedStep
<1>3. Control => Typed /\ PointsOK
  BY DEF Control
<1>4. Typed /\ Counted => ActiveWorkersExact
  <2> SUFFICES ASSUME Typed, Counted PROVE ActiveWorkersExact
    OBVIOUS
  <2>1. {w \in Workers : Racing(w)} = At(RacePoints)
    BY DEF Racing, At, RacePoints, Typed, RaceTyped
  <2> QED
    BY <2>1 DEF Counted, ActiveWorkersExact
<1> QED
  BY <1>1, <1>2, <1>3, <1>4, ControlInvariant, PTL DEF Spec

-----------------------------------------------------------------------------
(* child_pids                                                              *)

\* The steps of the run as a whole, and of the environment, leave children and their pids
\* alone, but for the first child and the end.
LEMMA PidsStep ==
    ASSUME Typed, PointsOK, ChildrenOwned, PidsCoverChildren, [Next]_vars
    PROVE  PidsCoverChildren'
<1> USE DEF PidsCoverChildren, Typed, TriesTyped, RaceTyped
<1>0. First \in Workers
  BY ConstantsOK
<1>1. ASSUME NEW w \in Workers, WorkerStep(w) \/ WorkerFault(w) \/ ChildExits(w) \/ ChildDetaches(w)
      PROVE  PidsCoverChildren'
  <2>1. CASE Yielded(w)
    BY <2>1 DEF Yielded, Leave
  <2>2. CASE Interrupted(w)
    BY <2>2 DEF Interrupted, Stop, Leave, Yield, EndKeepAlive
  <2>3. CASE BeginAttempt(w)
    BY <2>3 DEF BeginAttempt, Starts, Move, Fail, Leave, EndKeepAlive
  <2>4. CASE Exhausted(w)
    BY <2>4 DEF Exhausted, Starts, Leave
  <2>5. CASE Announce(w) \/ ObserveExit(w) \/ OutputEnds(w) \/ RetryDelayOver(w)
    BY <2>5 DEF Announce, ObserveExit, OutputEnds, RetryDelayOver, Move
  <2>6. CASE StopChild(w)
    BY <2>6 DEF StopChild, Stop, Leave, Yield, EndKeepAlive
  <2>7. CASE AttemptSucceeds(w)
    BY <2>7 DEF AttemptSucceeds, AttemptOver, Leave, Move
  <2>8. CASE AttemptFails(w)
    BY <2>8 DEF AttemptFails, AttemptOver, Fail, Leave, EndKeepAlive
  <2>9. CASE AttemptRetries(w)
    BY <2>9 DEF AttemptRetries, AttemptOver, Move
  <2>10. CASE StopWaiting(w)
    BY <2>10 DEF StopWaiting, Stop, Leave, Yield, EndKeepAlive
  <2>11. CASE WorkerFault(w)
    BY <2>11 DEF WorkerFault, Fail, Leave, EndKeepAlive
  <2>12. CASE ChildExits(w) \/ ChildDetaches(w)
    BY <2>12 DEF ChildExits, ChildDetaches
  <2> QED
    BY <1>1, <2>1, <2>2, <2>3, <2>4, <2>5, <2>6, <2>7, <2>8, <2>9,
       <2>10, <2>11, <2>12 DEF WorkerStep
<1>2. CASE SpawnFirst
  BY <1>0, <1>2 DEF SpawnFirst, ChildrenOwned
<1>3. CASE WriteTerminal \/ TerminalFault
  BY <1>3 DEF WriteTerminal, TerminalFault, ChildrenOwned, NoOrphanChild
<1>4. CASE SpawnFirstFails \/ RaceLost \/ RaceWon \/ Notify
  BY <1>4 DEF SpawnFirstFails, RaceLost, RaceWon, RaceDrained, Notify
<1>5. CASE KeepAliveStep
  BY <1>0, <1>5 DEF KeepAliveStep, KeepAliveAccept, KeepAliveAnnounce, KeepAliveNotified,
     KeepAliveSwitched, KeepAliveDelayOver, StopKeepAliveWait, Move, EndKeepAlive, PointsOK,
     KeepAlivePoints
<1>6. CASE Environment
  BY <1>1, <1>6 DEF Environment, LocalStop, RemoteStop, StopOverwritten, LocalKeepAlive,
     LocalKeepAliveSent, RemoteKeepAlive
<1>7. CASE UNCHANGED vars
  BY <1>7 DEF vars
<1> QED
  BY <1>1, <1>2, <1>3, <1>4, <1>5, <1>6, <1>7 DEF Next, RunStep, FaultStep, Terminated

\* child_pids hides no process, and keeps no pid of a worker at work or of a winner, under
\* every fault: what a stale pid may belong to is a worker that failed, was stopped or
\* superseded, or found the budget used up.
THEOREM PidsAreTrue == Spec => []PidsCoverChildren
<1>1. Init => PidsCoverChildren
  BY DEF Init, PidsCoverChildren
<1>2. Typed /\ PointsOK /\ ChildrenOwned /\ PidsCoverChildren /\ [Next]_vars
      => PidsCoverChildren'
  BY PidsStep
<1>3. Control => Typed /\ PointsOK /\ ChildrenOwned
  BY DEF Control
<1> QED
  BY <1>1, <1>2, <1>3, ControlInvariant, PTL DEF Spec
=============================================================================
