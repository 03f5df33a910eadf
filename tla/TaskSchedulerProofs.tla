-------------------------- MODULE TaskSchedulerProofs --------------------------
(***************************************************************************)
(* What TaskScheduler says for any number of overlapping calls, names and  *)
(* schedules, with every fault.                                            *)
(***************************************************************************)
EXTENDS TaskScheduler, TLAPS

\* Whatever a call holds fits the point where it stands.
Holds(o) ==
    /\ o.at \in InstallPoints => o.kind = "install"
    /\ o.kind = "install" => o.name \in Names /\ o.sched \in Schedules /\ o.at # "idle"
    /\ o.at \in {"probe", "delete", "forget"} => o.cur \in Names
    /\ NamesOnce(o.loaded)
    /\ o.alone => o.at # "idle"

\* A call is past its ownership check only while the task is not somebody else's, or its
\* query did not show that one.
Checked(c) ==
    /\ op[c].at = "create" => tasks[KeyOf[op[c].name]] # ForeignTask \/ op[c].blind
    /\ op[c].at = "delete" => tasks[KeyOf[op[c].cur]] # ForeignTask \/ op[c].blind

TaskInv == TypeOK /\ \A c \in Calls : Holds(op[c]) /\ Checked(c)

LEMMA Constants ==
    /\ \A c \in Calls : ExeOf[c] \in Exes
    /\ \A n \in Names : KeyOf[n] \in Keys
    /\ Absent # ForeignTask
    /\ \A e \in Exes : \A s : Task(e, s) # Absent /\ Task(e, s) # ForeignTask
BY SchedulerConstants DEF Exes, Keys, Absent, ForeignTask, Task

LEMMA IdleTyped == IdleOp \in CallRecord /\ Holds(IdleOp) /\ IdleOp.at = "idle"
BY DEF IdleOp, CallRecord, Points, Holds, InstallPoints, NamesOnce

LEMMA RegistrationTyped ==
    ASSUME NEW n \in Names, NEW e \in Exes, NEW s \in Schedules
    PROVE  Registration(n, e, s) \in Registrations /\ Registration(n, e, s).name = n
BY DEF Registration, Registrations

LEMMA WithoutOnce ==
    ASSUME NEW rs \in SUBSET Registrations, NamesOnce(rs), NEW n
    PROVE  /\ Without(rs, n) \subseteq Registrations /\ NamesOnce(Without(rs, n))
           /\ n \notin NamesIn(Without(rs, n)) /\ NamesIn(rs) \subseteq Names
BY DEF Without, NamesOnce, NamesIn, Registrations

LEMMA RecordedOnce ==
    ASSUME NEW rs \in SUBSET Registrations, NamesOnce(rs),
           NEW n \in Names, NEW e \in Exes, NEW s \in Schedules,
           NEW recorded, recorded = Without(rs, n) \cup {Registration(n, e, s)}
    PROVE  /\ recorded \subseteq Registrations /\ NamesOnce(recorded)
           /\ NamesIn(recorded) \subseteq Names
           /\ NamesIn(rs) \subseteq NamesIn(recorded)
<1>1. recorded \subseteq Registrations
  BY WithoutOnce, RegistrationTyped
<1>2. \A g \in Without(rs, n) : g \in rs /\ g.name # n
  BY DEF Without
<1>3. NamesOnce(recorded)
  BY <1>2, RegistrationTyped DEF NamesOnce
<1>4. NamesIn(recorded) \subseteq Names
  BY <1>1 DEF NamesIn, Registrations
<1>5. NamesIn(rs) \subseteq NamesIn(recorded)
  <2>1. ASSUME NEW g \in rs  PROVE g.name \in NamesIn(recorded)
    <3>1. CASE g.name = n
      BY <3>1, RegistrationTyped DEF NamesIn
    <3>2. CASE g.name # n
      BY <3>2 DEF NamesIn, Without
    <3> QED  BY <3>1, <3>2
  <2> QED  BY <2>1 DEF NamesIn
<1> QED  BY <1>1, <1>3, <1>4, <1>5

LEMMA TaskInit == Init => TaskInv
<1> SUFFICES ASSUME Init  PROVE TaskInv
  OBVIOUS
<1>1. TypeOK
  BY IdleTyped DEF Init, TypeOK, NamesOnce
<1>2. \A c \in Calls : op[c] = IdleOp
  BY DEF Init
<1> QED  BY <1>1, <1>2, IdleTyped DEF TaskInv, Checked

-----------------------------------------------------------------------------
(* Steps that move one call                                                *)

\* What one call does keeps the invariant if its own record fits, the task it touches is
\* not made somebody else's, and the others are at most disturbed.
LEMMA OneCall ==
    ASSUME TaskInv, NEW c \in Calls, NEW o \in CallRecord, Holds(o),
           op' = [op EXCEPT ![c] = o] \/ op' = [Disturbed EXCEPT ![c] = o],
           tasks' \in [Keys -> {Absent, ForeignTask} \cup [exe: Exes, sched: Schedules]],
           \A k \in Keys : tasks'[k] = ForeignTask => tasks[k] = ForeignTask,
           regs' \subseteq Registrations, NamesOnce(regs'),
           o.at = "create" => tasks[KeyOf[o.name]] # ForeignTask \/ o.blind,
           o.at = "delete" => tasks[KeyOf[o.cur]] # ForeignTask \/ o.blind
    PROVE  TaskInv'
<1> USE DEF TaskInv
<1>1. \A d \in Calls : [op[d] EXCEPT !.alone = FALSE] \in CallRecord
  BY DEF TypeOK, CallRecord
<1>2. op' \in [Calls -> CallRecord]
  BY <1>1 DEF TypeOK, Disturbed
<1>3. op'[c] = o
  BY DEF TypeOK, Disturbed
<1>4. ASSUME NEW d \in Calls, d # c
      PROVE  Holds(op'[d]) /\ Checked(d)'
  <2>1. /\ op'[d].at = op[d].at /\ op'[d].kind = op[d].kind /\ op'[d].name = op[d].name
        /\ op'[d].sched = op[d].sched /\ op'[d].cur = op[d].cur
        /\ op'[d].loaded = op[d].loaded /\ (op'[d].alone => op[d].alone)
        /\ op'[d].blind = op[d].blind
    <3>1. op[d] \in CallRecord
      BY DEF TypeOK
    <3>2. op'[d] = op[d] \/ op'[d] = [op[d] EXCEPT !.alone = FALSE]
      BY <1>4 DEF TypeOK, Disturbed
    <3> QED  BY <3>1, <3>2 DEF CallRecord
  <2>2. Holds(op'[d])
    BY <2>1 DEF Holds
  <2>3. /\ op[d].at = "create" => KeyOf[op[d].name] \in Keys
        /\ op[d].at = "delete" => KeyOf[op[d].cur] \in Keys
    BY Constants DEF Holds, InstallPoints
  <2>4. Checked(d)'
    BY <2>1, <2>3 DEF Checked
  <2> QED  BY <2>2, <2>4
<1>5. /\ o.at = "create" => KeyOf[o.name] \in Keys
      /\ o.at = "delete" => KeyOf[o.cur] \in Keys
  BY Constants DEF Holds, InstallPoints
<1>6. Checked(c)'
  BY <1>3, <1>5 DEF Checked
<1>7. TypeOK'
  BY <1>2 DEF TypeOK
<1> QED  BY <1>3, <1>4, <1>6, <1>7

LEMMA SameTasks ==
    ASSUME TypeOK, UNCHANGED tasks
    PROVE  /\ tasks' \in [Keys -> {Absent, ForeignTask} \cup [exe: Exes, sched: Schedules]]
           /\ \A k \in Keys : tasks'[k] = ForeignTask => tasks[k] = ForeignTask
BY DEF TypeOK

\* What a query returned is the task that is there, or nothing.
LEMMA QueriedIs ==
    ASSUME NEW n \in Names, NEW found \in Queried(n)
    PROVE  found = tasks[KeyOf[n]] \/ found = Absent
BY DEF Queried

LEMMA OwnedIsOurs ==
    ASSUME NEW t, NEW n, NEW loaded \in SUBSET Registrations, NEW exe \in Exes,
           Owned(t, n, loaded, exe)
    PROVE  t # ForeignTask /\ t # Absent
BY SchedulerConstants DEF Owned, Matches, Installed, ForeignTask, Task, Registrations, Exes

LEMMA BeginKeeps ==
    ASSUME TaskInv, NEW c \in Calls, NEW call \in CallRecord, Begin(c, call),
           call.at \in {"query", "next"}, Holds([call EXCEPT !.alone = TRUE]),
           UNCHANGED <<tasks, regs>>
    PROVE  TaskInv'
<1> DEFINE o == [call EXCEPT !.alone = (Busy = {})]
<1>1. /\ o \in CallRecord /\ o.at = call.at /\ o.kind = call.kind /\ o.name = call.name
      /\ o.sched = call.sched /\ o.cur = call.cur /\ o.loaded = call.loaded
  BY DEF CallRecord
<1>2. LET p == [call EXCEPT !.alone = TRUE]
      IN /\ p.at = call.at /\ p.kind = call.kind /\ p.name = call.name
         /\ p.sched = call.sched /\ p.cur = call.cur /\ p.loaded = call.loaded
  BY DEF CallRecord
<1>3. Holds(o)
  BY <1>1, <1>2 DEF Holds
<1>4. op' = [Disturbed EXCEPT ![c] = o]
  BY DEF Begin
<1> HIDE DEF o
<1> QED  BY <1>1, <1>3, <1>4, SameTasks, OneCall DEF TaskInv, TypeOK

LEMMA BeginsKeep ==
    ASSUME TaskInv, NEW c \in Calls,
           (\E n \in Names, s \in Schedules : InstallBegin(c, n, s)) \/ Uninstall(c)
    PROVE  TaskInv'
<1>0. regs \in SUBSET Registrations /\ NamesOnce(regs) /\ NamesIn(regs) \subseteq Names
  BY WithoutOnce DEF TaskInv, TypeOK
<1>1. ASSUME NEW n \in Names, NEW s \in Schedules, InstallBegin(c, n, s)
      PROVE  TaskInv'
  <2> DEFINE call == [IdleOp EXCEPT !.at = "query", !.kind = "install", !.name = n,
                                    !.sched = s, !.loaded = regs]
  <2>1. call \in CallRecord /\ call.at = "query"
    BY <1>0 DEF IdleOp, CallRecord, Points, InstallPoints
  <2>2. Holds([call EXCEPT !.alone = TRUE])
    BY <1>0 DEF IdleOp, Holds, InstallPoints
  <2>3. Begin(c, call) /\ UNCHANGED <<tasks, regs>>
    BY <1>1 DEF InstallBegin
  <2> HIDE DEF call
  <2> QED  BY <2>1, <2>2, <2>3, BeginKeeps
<1>2. ASSUME NEW kind \in {"uninstall", "all"}, NEW todo \in SUBSET Names,
             Begin(c, [IdleOp EXCEPT !.at = "next", !.kind = kind, !.todo = todo]),
             UNCHANGED <<tasks, regs>>
      PROVE  TaskInv'
  <2> DEFINE call == [IdleOp EXCEPT !.at = "next", !.kind = kind, !.todo = todo]
  <2>1. call \in CallRecord /\ call.at = "next"
    BY DEF IdleOp, CallRecord, Points, InstallPoints, CleanupPoints
  <2>2. Holds([call EXCEPT !.alone = TRUE])
    BY DEF IdleOp, Holds, InstallPoints, NamesOnce
  <2> HIDE DEF call
  <2>3. Begin(c, call)
    BY <1>2 DEF call
  <2> QED  BY <1>2, <2>1, <2>2, <2>3, BeginKeeps
<1>3. ASSUME NEW n \in Names, UninstallBegin(c, n)
      PROVE  TaskInv'
  <2>1. {n} \in SUBSET Names
    OBVIOUS
  <2> QED  BY <2>1, <1>2, <1>3 DEF UninstallBegin
<1>4. ASSUME NEW configured \in SUBSET Names, UninstallAllBegin(c, configured)
      PROVE  TaskInv'
  <2>1. NamesIn(regs) \cup configured \in SUBSET Names
    BY <1>0
  <2> QED  BY <2>1, <1>2, <1>4 DEF UninstallAllBegin
<1>5. {} \in SUBSET Names /\ \A n \in Names : {n} \in SUBSET Names
  OBVIOUS
<1> QED  BY <1>1, <1>3, <1>4, <1>5 DEF Uninstall

\* A call returns, or goes on to another point with the same record otherwise.
LEMMA ReturnKeeps ==
    ASSUME TaskInv, NEW c \in Calls, Return(c),
           tasks' \in [Keys -> {Absent, ForeignTask} \cup [exe: Exes, sched: Schedules]],
           \A k \in Keys : tasks'[k] = ForeignTask => tasks[k] = ForeignTask,
           UNCHANGED regs
    PROVE  TaskInv'
<1>1. op' = [op EXCEPT ![c] = IdleOp]
  BY DEF Return, Step
<1> QED  BY <1>1, IdleTyped, OneCall DEF TaskInv, TypeOK

\* A record that only goes on to another point, with what its query left it blind to.
Moved(o, point, blind) == [o EXCEPT !.at = point, !.blind = blind]

LEMMA MovedAt ==
    ASSUME NEW o \in CallRecord, NEW point
    PROVE  [o EXCEPT !.at = point] = Moved(o, point, o.blind)
BY DEF CallRecord, Moved

LEMMA MovedHas ==
    ASSUME NEW o \in CallRecord, NEW point, NEW blind
    PROVE  LET m == Moved(o, point, blind)
           IN /\ m.at = point /\ m.blind = blind /\ m.kind = o.kind /\ m.name = o.name
              /\ m.sched = o.sched /\ m.loaded = o.loaded /\ m.todo = o.todo
              /\ m.cur = o.cur /\ m.alone = o.alone
BY DEF CallRecord, Moved

LEMMA MoveTyped ==
    ASSUME TaskInv, NEW c \in Calls, NEW point \in Points, NEW blind \in BOOLEAN,
           point # "idle", point \in InstallPoints => op[c].kind = "install",
           point \in {"probe", "delete", "forget"} => op[c].cur \in Names
    PROVE  Moved(op[c], point, blind) \in CallRecord /\ Holds(Moved(op[c], point, blind))
<1>1. op[c] \in CallRecord /\ Holds(op[c])
  BY DEF TaskInv, TypeOK
<1>2. Moved(op[c], point, blind) \in CallRecord
  BY <1>1 DEF CallRecord, Moved
<1> QED  BY <1>1, <1>2, MovedHas DEF Holds

LEMMA HandledTyped ==
    ASSUME TaskInv, NEW c \in Calls, op[c].at # "idle"
    PROVE  /\ Handled(c) \in CallRecord /\ Holds(Handled(c)) /\ Handled(c).at = "next"
           /\ Handled(c).kind = op[c].kind /\ Handled(c).name = op[c].name
           /\ Handled(c).sched = op[c].sched /\ Handled(c).todo = op[c].todo
           /\ Handled(c).alone = op[c].alone
<1>1. op[c] \in CallRecord /\ Holds(op[c])
  BY DEF TaskInv, TypeOK
<1>2. Handled(c) \in CallRecord
  BY <1>1 DEF Handled, CallRecord, Points, CleanupPoints
<1>3. NamesOnce({})
  BY DEF NamesOnce
<1> QED  BY <1>1, <1>2, <1>3 DEF Handled, CallRecord, Holds, InstallPoints

\* A call moves on; only the task it creates or deletes changes.
LEMMA MoveKeeps ==
    ASSUME TaskInv, NEW c \in Calls, NEW point \in Points, NEW blind \in BOOLEAN,
           point # "idle", Step(c, Moved(op[c], point, blind)),
           point \in InstallPoints => op[c].kind = "install",
           point \in {"probe", "delete", "forget"} => op[c].cur \in Names,
           point = "create" => tasks[KeyOf[op[c].name]] # ForeignTask \/ blind,
           point = "delete" => tasks[KeyOf[op[c].cur]] # ForeignTask \/ blind,
           tasks' \in [Keys -> {Absent, ForeignTask} \cup [exe: Exes, sched: Schedules]],
           \A k \in Keys : tasks'[k] = ForeignTask => tasks[k] = ForeignTask,
           UNCHANGED regs
    PROVE  TaskInv'
<1> DEFINE o == Moved(op[c], point, blind)
<1>1. o \in CallRecord /\ Holds(o)
  BY MoveTyped
<1>2. o.at = point /\ o.name = op[c].name /\ o.cur = op[c].cur /\ o.blind = blind
  BY MovedHas DEF TaskInv, TypeOK
<1>3. op' = [op EXCEPT ![c] = o]
  BY DEF Step
<1> HIDE DEF o
<1> QED  BY <1>1, <1>2, <1>3, OneCall DEF TaskInv, TypeOK

\* The same when the record only moves on to another point.
LEMMA AtKeeps ==
    ASSUME TaskInv, NEW c \in Calls, NEW point \in Points,
           point # "idle", Step(c, [op[c] EXCEPT !.at = point]),
           point \in InstallPoints => op[c].kind = "install",
           point \in {"probe", "delete", "forget"} => op[c].cur \in Names,
           point # "create", point = "delete" => tasks[KeyOf[op[c].cur]] # ForeignTask,
           tasks' \in [Keys -> {Absent, ForeignTask} \cup [exe: Exes, sched: Schedules]],
           \A k \in Keys : tasks'[k] = ForeignTask => tasks[k] = ForeignTask,
           UNCHANGED regs
    PROVE  TaskInv'
<1>1. op[c] \in CallRecord /\ op[c].blind \in BOOLEAN
  BY DEF TaskInv, TypeOK, CallRecord
<1>2. Step(c, Moved(op[c], point, op[c].blind))
  BY <1>1, MovedAt
<1> QED  BY <1>1, <1>2, MoveKeeps

\* The task a command makes or removes.
LEMMA CommandTyped ==
    ASSUME TaskInv, NEW k \in Keys,
           NEW t \in {Absent} \cup [exe: Exes, sched: Schedules],
           tasks' = [tasks EXCEPT ![k] = t]
    PROVE  /\ tasks' \in [Keys -> {Absent, ForeignTask} \cup [exe: Exes, sched: Schedules]]
           /\ \A j \in Keys : tasks'[j] = ForeignTask => tasks[j] = ForeignTask
<1>1. t # ForeignTask
  BY SchedulerConstants DEF Absent, ForeignTask, Task
<1> QED  BY <1>1 DEF TaskInv, TypeOK

LEMMA InstallKeeps ==
    ASSUME TaskInv, NEW c \in Calls,
           InstallQuery(c) \/ InstallCreate(c) \/ InstallVerify(c) \/ InstallSave(c)
    PROVE  TaskInv'
<1>0. op[c] \in CallRecord /\ Holds(op[c]) /\ Checked(c)
  BY DEF TaskInv, TypeOK
<1>a. /\ op[c].kind = "install" /\ op[c].name \in Names /\ op[c].sched \in Schedules
      /\ KeyOf[op[c].name] \in Keys
  BY <1>0, Constants
     DEF Holds, InstallPoints, InstallQuery, InstallCreate, InstallVerify, InstallSave
<1>b. \A point \in {"create", "verify", "save"} :
          point \in Points /\ point # "idle" /\ point \notin {"probe", "delete", "forget"}
  BY DEF Points, InstallPoints
<1>1. CASE InstallQuery(c)
  <2>1. PICK found \in Queried(op[c].name) :
            IF Installed(found) /\ ~Owned(found, op[c].name, op[c].loaded, ExeOf[c])
            THEN Return(c)
            ELSE Step(c, [op[c] EXCEPT !.at = "create", !.blind = Misses(op[c].name, found)])
    BY <1>1 DEF InstallQuery
  <2>2. UNCHANGED <<tasks, regs>>
    BY <1>1 DEF InstallQuery
  <2>3. CASE Return(c)
    BY <2>2, <2>3, SameTasks, ReturnKeeps DEF TaskInv
  <2>4. CASE /\ ~Installed(found) \/ Owned(found, op[c].name, op[c].loaded, ExeOf[c])
             /\ Step(c, Moved(op[c], "create", Misses(op[c].name, found)))
    <3>1. found # ForeignTask
      <4>1. CASE ~Installed(found)
        BY <4>1, Constants DEF Installed
      <4>2. CASE Owned(found, op[c].name, op[c].loaded, ExeOf[c])
        <5>1. op[c].loaded \in SUBSET Registrations /\ ExeOf[c] \in Exes
          BY <1>0, Constants DEF CallRecord
        <5> QED  BY <4>2, <5>1, OwnedIsOurs
      <4> QED  BY <2>4, <4>1, <4>2
    <3>2. tasks[KeyOf[op[c].name]] # ForeignTask \/ Misses(op[c].name, found)
      BY <3>1 DEF Misses
    <3>3. Misses(op[c].name, found) \in BOOLEAN
      BY DEF Misses
    <3> HIDE DEF Misses
    <3> QED  BY <2>2, <1>a, <1>b, <2>4, <3>2, <3>3, SameTasks, MoveKeeps DEF TaskInv
  <2> QED  BY <2>1, <2>3, <2>4 DEF Moved
<1>2. CASE InstallCreate(c)
  <2>1. CASE Return(c) /\ UNCHANGED tasks
    BY <1>2, <2>1, SameTasks, ReturnKeeps DEF InstallCreate, TaskInv
  <2>2. CASE /\ tasks' = [tasks EXCEPT ![KeyOf[op[c].name]] = Task(ExeOf[c], op[c].sched)]
             /\ Step(c, [op[c] EXCEPT !.at = "verify"])
    <3>1. Task(ExeOf[c], op[c].sched) \in [exe: Exes, sched: Schedules]
      BY <1>a, Constants DEF Task
    <3>3. /\ tasks' \in [Keys -> {Absent, ForeignTask} \cup [exe: Exes, sched: Schedules]]
          /\ \A j \in Keys : tasks'[j] = ForeignTask => tasks[j] = ForeignTask
      BY <1>a, <2>2, <3>1, CommandTyped
    <3> QED  BY <1>2, <1>a, <1>b, <2>2, <3>3, AtKeeps DEF InstallCreate
  <2> QED  BY <1>2, <2>1, <2>2 DEF InstallCreate
<1>3. CASE InstallVerify(c)
  <2>1. CASE Return(c)
    BY <1>3, <2>1, SameTasks, ReturnKeeps DEF InstallVerify, TaskInv
  <2>2. CASE Step(c, [op[c] EXCEPT !.at = "save"])
    BY <1>3, <1>a, <1>b, <2>2, SameTasks, AtKeeps DEF InstallVerify, TaskInv
  <2> QED  BY <1>3, <2>1, <2>2 DEF InstallVerify
<1>4. CASE InstallSave(c)
  <2> DEFINE recorded == Without(op[c].loaded, op[c].name)
                            \cup {Registration(op[c].name, ExeOf[c], op[c].sched)}
             o == [op[c] EXCEPT !.at = "next", !.loaded = {}, !.blind = FALSE,
                                !.todo = NamesIn(recorded) \ {op[c].name}]
  <2>1. /\ recorded \subseteq Registrations /\ NamesOnce(recorded)
        /\ NamesIn(recorded) \subseteq Names
    <3>1. /\ op[c].loaded \in SUBSET Registrations /\ NamesOnce(op[c].loaded)
          /\ ExeOf[c] \in Exes
      BY <1>0, Constants DEF CallRecord, Holds
    <3> QED  BY <1>a, <3>1, RecordedOnce
  <2>2. regs' = recorded /\ op' = [op EXCEPT ![c] = o] /\ UNCHANGED tasks
    BY <1>4 DEF InstallSave, Step
  <2> HIDE DEF recorded
  <2>3. o \in CallRecord /\ o.at = "next"
    BY <1>0, <2>1 DEF CallRecord, Points, CleanupPoints
  <2>4. Holds(o)
    BY <1>0, <1>a DEF CallRecord, Holds, InstallPoints, NamesOnce
  <2> HIDE DEF o
  <2> QED  BY <2>1, <2>2, <2>3, <2>4, SameTasks, OneCall DEF TaskInv
<1> QED  BY <1>1, <1>2, <1>3, <1>4

LEMMA FailsKeep ==
    ASSUME TaskInv, NEW c \in Calls, CleanupFails(c), op[c].at # "idle",
           UNCHANGED <<tasks, regs>>
    PROVE  TaskInv'
<1>1. CASE Return(c)
  BY <1>1, SameTasks, ReturnKeeps DEF TaskInv
<1>2. CASE Step(c, Handled(c))
  BY <1>2, HandledTyped, SameTasks, OneCall DEF TaskInv, TypeOK, Step
<1> QED  BY <1>1, <1>2 DEF CleanupFails

LEMMA CleanupKeeps ==
    ASSUME TaskInv, NEW c \in Calls, Cleanup(c) \/ Finish(c) \/ Report(c) \/ CallFails(c)
    PROVE  TaskInv'
<1>0. op[c] \in CallRecord /\ Holds(op[c]) /\ Checked(c)
  BY DEF TaskInv, TypeOK
<1>b. \A point \in {"probe", "delete", "forget", "done"} :
          point \in Points /\ point # "idle" /\ point \notin InstallPoints
  BY DEF Points, InstallPoints, CleanupPoints
<1>1. ASSUME NEW n \in Names, CleanupLoad(c, n)
      PROVE  TaskInv'
  <2> DEFINE o == [op[c] EXCEPT !.at = "probe", !.cur = n, !.todo = @ \ {n}, !.loaded = regs]
  <2>1. o \in CallRecord /\ o.at = "probe"
    BY <1>0, <1>b DEF CallRecord, TaskInv, TypeOK
  <2>2. Holds(o)
    BY <1>0, <1>1 DEF CallRecord, Holds, InstallPoints, TaskInv, TypeOK
  <2>3. op' = [op EXCEPT ![c] = o] /\ UNCHANGED <<tasks, regs>>
    BY <1>1 DEF CleanupLoad, Step
  <2> HIDE DEF o
  <2> QED  BY <2>1, <2>2, <2>3, SameTasks, OneCall DEF TaskInv, TypeOK
<1>2. CASE CleanupProbe(c)
  <2>1. op[c].cur \in Names /\ op[c].at # "idle" /\ UNCHANGED <<tasks, regs>>
    BY <1>0, <1>2 DEF CleanupProbe, Holds
  <2>2. PICK found \in Queried(op[c].cur) :
          \/ Step(c, [op[c] EXCEPT !.at = "forget", !.blind = Misses(op[c].cur, found)])
          \/ /\ Installed(found) /\ Owned(found, op[c].cur, op[c].loaded, ExeOf[c])
             /\ Step(c, [op[c] EXCEPT !.at = "delete"])
          \/ Step(c, Handled(c))
    BY <1>2 DEF CleanupProbe
  <2>3. CASE Step(c, [op[c] EXCEPT !.at = "forget", !.blind = Misses(op[c].cur, found)])
    <3>1. Step(c, Moved(op[c], "forget", Misses(op[c].cur, found)))
      BY <2>3 DEF Moved
    <3>2. Misses(op[c].cur, found) \in BOOLEAN
      BY DEF Misses
    <3> QED  BY <1>b, <2>1, <3>1, <3>2, SameTasks, MoveKeeps DEF TaskInv
  <2>4. CASE /\ Installed(found) /\ Owned(found, op[c].cur, op[c].loaded, ExeOf[c])
             /\ Step(c, [op[c] EXCEPT !.at = "delete"])
    <3>1. op[c].loaded \in SUBSET Registrations /\ ExeOf[c] \in Exes
      BY <1>0, Constants DEF CallRecord
    <3>2. found # ForeignTask /\ found = tasks[KeyOf[op[c].cur]]
      BY <2>1, <2>4, <3>1, OwnedIsOurs, QueriedIs
    <3> QED  BY <1>b, <2>1, <2>4, <3>2, SameTasks, AtKeeps DEF TaskInv
  <2>5. CASE Step(c, Handled(c))
    BY <2>1, <2>5, HandledTyped, SameTasks, OneCall DEF TaskInv, TypeOK, Step
  <2> QED  BY <2>2, <2>3, <2>4, <2>5
<1>3. CASE CleanupDelete(c)
  <2>1. op[c].cur \in Names /\ KeyOf[op[c].cur] \in Keys /\ op[c].at # "idle"
    BY <1>0, <1>3, Constants DEF CleanupDelete, Holds
  <2>2. CASE CleanupFails(c) /\ UNCHANGED tasks
    BY <1>3, <2>1, <2>2, FailsKeep DEF CleanupDelete
  <2>3. CASE /\ tasks' = [tasks EXCEPT ![KeyOf[op[c].cur]] = Absent]
             /\ Step(c, [op[c] EXCEPT !.at = "forget"])
    <3>2. /\ tasks' \in [Keys -> {Absent, ForeignTask} \cup [exe: Exes, sched: Schedules]]
          /\ \A j \in Keys : tasks'[j] = ForeignTask => tasks[j] = ForeignTask
      BY <2>1, <2>3, CommandTyped
    <3> QED  BY <1>3, <1>b, <2>1, <2>3, <3>2, AtKeeps DEF CleanupDelete
  <2> QED  BY <1>3, <2>2, <2>3 DEF CleanupDelete
<1>4. CASE CleanupForget(c)
  <2>1. regs' \subseteq Registrations /\ NamesOnce(regs')
    BY <1>0, <1>4, WithoutOnce DEF CleanupForget, CallRecord, Holds
  <2>2. op[c].at # "idle"
    BY <1>4 DEF CleanupForget
  <2> QED  BY <1>4, <2>1, <2>2, HandledTyped, SameTasks, OneCall
              DEF CleanupForget, Step, TaskInv
<1>5. CASE Finish(c)
  BY <1>5, <1>b, SameTasks, AtKeeps DEF Finish, TaskInv
<1>6. CASE Report(c)
  BY <1>6, SameTasks, ReturnKeeps DEF Report, TaskInv
<1>7. CASE CallFails(c)
  <2>1. CASE Return(c)
    BY <1>7, <2>1, SameTasks, ReturnKeeps DEF CallFails, TaskInv
  <2>2. CASE op[c].at \in {"probe", "forget"} /\ CleanupFails(c)
    BY <1>7, <2>2, FailsKeep DEF CallFails
  <2> QED  BY <1>7, <2>1, <2>2 DEF CallFails
<1> QED  BY <1>1, <1>2, <1>3, <1>4, <1>5, <1>6, <1>7 DEF Cleanup

\* Outside, a record is disturbed at most, and a call whose task appeared is blind to it.
LEMMA OutsideRecords ==
    ASSUME TypeOK, Outside
    PROVE  /\ op' \in [Calls -> CallRecord]
           /\ \A c \in Calls :
                /\ op'[c].at = op[c].at /\ op'[c].kind = op[c].kind /\ op'[c].name = op[c].name
                /\ op'[c].sched = op[c].sched /\ op'[c].loaded = op[c].loaded
                /\ op'[c].todo = op[c].todo /\ op'[c].cur = op[c].cur /\ ~op'[c].alone
                /\ op[c].blind => op'[c].blind
           /\ \A k \in Keys : OutsiderCreates(k) =>
                \A c \in Calls : k \in Target(op[c]) => op'[c].blind
<1>1. \A c \in Calls : op[c] \in CallRecord /\ op[c].blind \in BOOLEAN
  BY DEF TypeOK, CallRecord
<1>2. DOMAIN op' = Calls /\ op' = [c \in Calls |-> op'[c]]
  BY DEF Outside, OutsiderCreates, OutsiderDeletes, Disturbed
<1>3. ASSUME NEW c \in Calls
      PROVE  \E blind \in BOOLEAN :
                /\ op'[c] = [[op[c] EXCEPT !.alone = FALSE] EXCEPT !.blind = blind]
                /\ op[c].blind => blind
                /\ \A k \in Keys : OutsiderCreates(k) /\ k \in Target(op[c]) => blind
  <2>1. PICK k \in Keys : OutsiderCreates(k) \/ OutsiderDeletes(k)
    BY DEF Outside
  <2>2. CASE OutsiderCreates(k)
    <3> DEFINE b == op[c].blind \/ k \in Target(op[c])
    <3>1. op'[c] = [[op[c] EXCEPT !.alone = FALSE] EXCEPT !.blind = b]
      <4>1. op'[c] = [Disturbed[c] EXCEPT !.blind = @ \/ k \in Target(op[c])]
        BY <2>2 DEF OutsiderCreates
      <4>2. Disturbed[c] = [op[c] EXCEPT !.alone = FALSE]
        BY DEF Disturbed
      <4>3. Disturbed[c].blind = op[c].blind
        BY <1>1, <4>2 DEF CallRecord
      <4> QED  BY <4>1, <4>2, <4>3
    <3>2. \A j \in Keys : OutsiderCreates(j) => j = k
      BY <2>2, Constants DEF OutsiderCreates, TypeOK
    <3>3. b \in BOOLEAN /\ (op[c].blind => b) /\ (k \in Target(op[c]) => b)
      OBVIOUS
    <3> HIDE DEF b
    <3> QED  BY <3>1, <3>2, <3>3
  <2>3. CASE OutsiderDeletes(k)
    <3>1. op'[c] = [op[c] EXCEPT !.alone = FALSE]
      BY <2>3 DEF OutsiderDeletes, Disturbed
    <3>2. op'[c] = [[op[c] EXCEPT !.alone = FALSE] EXCEPT !.blind = op[c].blind]
      BY <1>1, <3>1 DEF CallRecord
    <3>3. \A j \in Keys : ~OutsiderCreates(j)
      <4>1. tasks[k] # Absent /\ tasks'[k] = Absent
        BY <2>3, SchedulerConstants DEF OutsiderDeletes, Ours, Absent, Task, TypeOK
      <4> QED  BY <4>1, Constants DEF OutsiderCreates, TypeOK
    <3> QED  BY <1>1, <3>2, <3>3
  <2> QED  BY <2>1, <2>2, <2>3
<1>4. ASSUME NEW c \in Calls
      PROVE  /\ op'[c] \in CallRecord
             /\ op'[c].at = op[c].at /\ op'[c].kind = op[c].kind /\ op'[c].name = op[c].name
             /\ op'[c].sched = op[c].sched /\ op'[c].loaded = op[c].loaded
             /\ op'[c].todo = op[c].todo /\ op'[c].cur = op[c].cur /\ ~op'[c].alone
             /\ op[c].blind => op'[c].blind
             /\ \A k \in Keys : OutsiderCreates(k) /\ k \in Target(op[c]) => op'[c].blind
  <2>1. PICK blind \in BOOLEAN :
            /\ op'[c] = [[op[c] EXCEPT !.alone = FALSE] EXCEPT !.blind = blind]
            /\ op[c].blind => blind
            /\ \A k \in Keys : OutsiderCreates(k) /\ k \in Target(op[c]) => blind
    BY <1>3
  <2>2. /\ op'[c] \in CallRecord
        /\ op'[c].at = op[c].at /\ op'[c].kind = op[c].kind /\ op'[c].name = op[c].name
        /\ op'[c].sched = op[c].sched /\ op'[c].loaded = op[c].loaded
        /\ op'[c].todo = op[c].todo /\ op'[c].cur = op[c].cur /\ ~op'[c].alone
        /\ op'[c].blind = blind
    <3> DEFINE m == op'[c]
    <3>1. m = [[op[c] EXCEPT !.alone = FALSE] EXCEPT !.blind = blind]
      BY <2>1
    <3> HIDE DEF m
    <3>b. op[c] \in CallRecord /\ op[c].blind \in BOOLEAN
      BY <1>1
    <3>2. /\ m \in CallRecord
          /\ m.at = op[c].at /\ m.kind = op[c].kind /\ m.name = op[c].name
          /\ m.sched = op[c].sched /\ m.loaded = op[c].loaded /\ m.todo = op[c].todo
          /\ m.cur = op[c].cur /\ ~m.alone /\ m.blind = blind
      BY <3>b, <3>1 DEF CallRecord
    <3> QED  BY <3>2 DEF m
  <2>3. op[c].blind => op'[c].blind
    BY <2>1, <2>2
  <2>4. \A k \in Keys : OutsiderCreates(k) /\ k \in Target(op[c]) => op'[c].blind
    BY <2>1, <2>2
  <2> QED  BY <2>2, <2>3, <2>4
<1>5. op' \in [Calls -> CallRecord]
  BY <1>2, <1>4
<1> QED  BY <1>4, <1>5

LEMMA OutsideKeeps ==
    ASSUME TaskInv, Outside
    PROVE  TaskInv'
<1>1. PICK k \in Keys : OutsiderCreates(k) \/ OutsiderDeletes(k)
  BY DEF Outside
<1>2. PICK t \in {ForeignTask, Absent} :
          /\ tasks' = [tasks EXCEPT ![k] = t] /\ UNCHANGED regs
          /\ t = ForeignTask => OutsiderCreates(k)
  BY <1>1, Constants DEF OutsiderCreates, OutsiderDeletes
<1>3. ASSUME NEW c \in Calls
      PROVE  Holds(op'[c]) /\ Checked(c)'
  <2>1. op[c] \in CallRecord /\ Holds(op[c]) /\ Checked(c)
    BY DEF TaskInv, TypeOK
  <2>2. /\ op'[c].at = op[c].at /\ op'[c].kind = op[c].kind /\ op'[c].name = op[c].name
        /\ op'[c].sched = op[c].sched /\ op'[c].loaded = op[c].loaded
        /\ op'[c].cur = op[c].cur /\ ~op'[c].alone /\ (op[c].blind => op'[c].blind)
        /\ OutsiderCreates(k) /\ k \in Target(op[c]) => op'[c].blind
    BY OutsideRecords DEF TaskInv
  <2>3. Holds(op'[c])
    BY <2>1, <2>2 DEF Holds
  <2>4. /\ op[c].at = "create" => KeyOf[op[c].name] \in Keys
        /\ op[c].at = "delete" => KeyOf[op[c].cur] \in Keys
    BY <2>1, Constants DEF Holds, InstallPoints
  <2>5. \A j \in Keys : tasks'[j] = tasks[j] \/ (j = k /\ tasks'[j] = t)
    BY <1>2 DEF TaskInv, TypeOK
  <2>6. \A j \in Target(op[c]) : tasks'[j] = ForeignTask => tasks[j] = ForeignTask \/ op'[c].blind
    BY <1>2, <2>2, <2>4, <2>5 DEF Target
  <2>7. Checked(c)'
    BY <2>1, <2>2, <2>6 DEF Checked, Target
  <2> QED  BY <2>3, <2>7
<1>4. TypeOK'
  BY <1>2, OutsideRecords DEF TaskInv, TypeOK
<1> QED  BY <1>3, <1>4 DEF TaskInv

LEMMA TaskStep == TaskInv /\ [Next]_vars => TaskInv'
<1> SUFFICES ASSUME TaskInv, [Next]_vars  PROVE TaskInv'
  OBVIOUS
<1>1. CASE UNCHANGED vars
  BY <1>1 DEF vars, TaskInv, TypeOK, Checked
<1>2. ASSUME NEW c \in Calls, Install(c) \/ Uninstall(c)
      PROVE  TaskInv'
  BY <1>2, BeginsKeep, InstallKeeps DEF Install, Uninstall
<1> QED  BY <1>1, <1>2, CleanupKeeps, OutsideKeeps DEF Next

LEMMA TaskAlways == Spec => []TaskInv
BY TaskInit, TaskStep, PTL DEF Spec

\* The variables have their types, and scheduler-state.json records a name at most once.
THEOREM TypeCorrect == Spec => []TypeOK
<1>1. TaskInv => TypeOK
  BY DEF TaskInv
<1> QED  BY TaskAlways, <1>1, PTL

\* A task that is not the launcher's is replaced or deleted only by a command whose own
\* query failed or was answered before that task came, whatever the calls, their
\* interleaving and their failures (install_task_with, cleanup_managed_task_with).
THEOREM ForeignKept == Spec => ForeignTasksKept
<1>1. ASSUME TaskInv, [Next]_vars, NEW k \in Keys, tasks[k] = ForeignTask,
             ~\E c \in Calls : k \in Target(op[c]) /\ op[c].blind
      PROVE  tasks'[k] = ForeignTask
  <2>1. CASE UNCHANGED tasks
    BY <1>1, <2>1
  <2>2. ASSUME NEW c \in Calls, NEW j \in Keys, j # k, NEW t,
               tasks' = [tasks EXCEPT ![j] = t]
        PROVE  tasks'[k] = ForeignTask
    BY <1>1, <2>2 DEF TaskInv, TypeOK
  <2>3. ASSUME NEW c \in Calls, InstallCreate(c)
        PROVE  tasks'[k] = ForeignTask
    <3>1. KeyOf[op[c].name] \in Keys /\ KeyOf[op[c].name] # k
      BY <1>1, <2>3, Constants
         DEF TaskInv, Holds, Checked, InstallCreate, InstallPoints, Target
    <3> QED  BY <2>1, <2>2, <2>3, <3>1 DEF InstallCreate
  <2>4. ASSUME NEW c \in Calls, CleanupDelete(c)
        PROVE  tasks'[k] = ForeignTask
    <3>1. KeyOf[op[c].cur] \in Keys /\ KeyOf[op[c].cur] # k
      BY <1>1, <2>4, Constants DEF TaskInv, Holds, Checked, CleanupDelete, Target
    <3> QED  BY <2>1, <2>2, <2>4, <3>1 DEF CleanupDelete
  <2>5. CASE Outside
    <3>1. PICK j \in Keys : OutsiderCreates(j) \/ OutsiderDeletes(j)
      BY <2>5 DEF Outside
    <3>2. j # k
      BY <1>1, <3>1, Constants, SchedulerConstants
         DEF OutsiderCreates, OutsiderDeletes, Ours, ForeignTask, Task, Exes
    <3> QED  BY <1>1, <3>1, <3>2 DEF OutsiderCreates, OutsiderDeletes, TaskInv, TypeOK
  <2> QED  BY <1>1, <2>1, <2>3, <2>4, <2>5
           DEF Next, vars, Install, InstallBegin, InstallQuery, InstallVerify, InstallSave,
               Uninstall, UninstallBegin, UninstallAllBegin, Cleanup, CleanupLoad,
               CleanupProbe, CleanupForget, Finish, Report, CallFails
<1>2. TaskInv /\ [Next]_vars =>
          [\A k \in Keys : tasks[k] = ForeignTask =>
              tasks'[k] = ForeignTask \/ \E c \in Calls : k \in Target(op[c]) /\ op[c].blind]_vars
  BY <1>1
<1> QED  BY TaskAlways, <1>2, PTL DEF Spec, ForeignTasksKept

-----------------------------------------------------------------------------
(* Calls nobody disturbs                                                   *)

\* The steps of a call under way.
Moves(c) ==
    \/ InstallQuery(c) \/ InstallCreate(c) \/ InstallVerify(c) \/ InstallSave(c)
    \/ Cleanup(c) \/ Finish(c) \/ Report(c) \/ CallFails(c)

Begins(c) == (\E n \in Names, s \in Schedules : InstallBegin(c, n, s)) \/ Uninstall(c)

\* It is the only call, the state it has loaded is the file's, and the task it is about
\* to forget is gone, as far as its query was answered.
Own(c) ==
    op[c].alone =>
        /\ \A d \in Calls \ {c} : op[d].at = "idle"
        /\ op[c].at \in InstallPoints \cup {"probe", "delete", "forget"} => op[c].loaded = regs
        /\ op[c].at = "forget" => ~Installed(tasks[KeyOf[op[c].cur]]) \/ op[c].blind

\* An install has made its task, then recorded it, and never cleans its own name up.
Delivers(c) ==
    op[c].alone /\ op[c].kind = "install" =>
        /\ op[c].at \notin {"query", "create"} =>
              tasks[KeyOf[op[c].name]] = Task(ExeOf[c], op[c].sched)
        /\ op[c].at \in CleanupPoints \cup {"done"} =>
              /\ Registration(op[c].name, ExeOf[c], op[c].sched) \in regs
              /\ op[c].name \notin op[c].todo
        /\ op[c].at \in {"probe", "delete", "forget"} => op[c].cur # op[c].name

OwnInv == TaskInv /\ \A c \in Calls : Own(c)

LEMMA NextSplits ==
    ASSUME Next
    PROVE  (\E c \in Calls : Moves(c) \/ Begins(c)) \/ Outside
BY DEF Next, Moves, Begins, Install

\* A step that is not a beginning moves one record, which nobody else's step makes alone.
LEMMA Mover ==
    ASSUME TaskInv, NEW c \in Calls, Moves(c)
    PROVE  /\ op[c].at # "idle"
           /\ \A d \in Calls \ {c} : op'[d] = op[d]
           /\ op'[c].alone => op[c].alone
           /\ op'[c].kind # "none" => op'[c].kind = op[c].kind /\ op'[c].name = op[c].name
                                       /\ op'[c].sched = op[c].sched
<1>1. op[c] \in CallRecord /\ op \in [Calls -> CallRecord]
  BY DEF TaskInv, TypeOK
<1>2. op[c].at # "idle"
  BY DEF Moves, InstallQuery, InstallCreate, InstallVerify, InstallSave, Cleanup, CleanupLoad,
         CleanupProbe, CleanupDelete, CleanupForget, Finish, Report, CallFails,
         InstallPoints, CleanupPoints
<1>3. PICK o : /\ op' = [op EXCEPT ![c] = o]
               /\ \/ o = IdleOp
                  \/ o = Handled(c)
                  \/ \E point : o = [op[c] EXCEPT !.at = point]
                  \/ \E point, blind : o = Moved(op[c], point, blind)
                  \/ \E todo : o = [op[c] EXCEPT !.at = "next", !.loaded = {},
                                                 !.blind = FALSE, !.todo = todo]
                  \/ \E n : o = [op[c] EXCEPT !.at = "probe", !.cur = n,
                                              !.todo = op[c].todo \ {n}, !.loaded = regs]
  <2>1. CASE InstallQuery(c) \/ InstallCreate(c) \/ InstallVerify(c) \/ InstallSave(c)
    <3>1. CASE InstallQuery(c)
      <4>1. PICK blind : Step(c, Moved(op[c], "create", blind)) \/ Return(c)
        BY <3>1 DEF InstallQuery, Moved
      <4>2. CASE Step(c, Moved(op[c], "create", blind))
        BY <4>2, Zenon DEF Step
      <4>3. CASE Return(c)
        BY <4>3, Zenon DEF Return, Step
      <4> QED  BY <4>1, <4>2, <4>3
    <3>2. CASE InstallVerify(c)
      <4>1. Step(c, [op[c] EXCEPT !.at = "save"]) \/ Return(c)
        BY <3>2 DEF InstallVerify
      <4> QED  BY <4>1 DEF Return, Step
    <3>3. CASE InstallCreate(c) \/ InstallSave(c)
      BY <3>3 DEF InstallCreate, InstallSave, Return, Step
    <3> QED  BY <2>1, <3>1, <3>2, <3>3
  <2>2. ASSUME NEW n \in Names, CleanupLoad(c, n)
        PROVE  op' = [op EXCEPT ![c] = [op[c] EXCEPT !.at = "probe", !.cur = n,
                                              !.todo = op[c].todo \ {n}, !.loaded = regs]]
    BY <2>2 DEF CleanupLoad, Step
  <2>3. CASE CleanupProbe(c) \/ CleanupDelete(c) \/ CleanupForget(c)
    <3>1. CASE CleanupProbe(c)
      <4>1. PICK blind : \/ Step(c, Moved(op[c], "forget", blind))
                         \/ Step(c, [op[c] EXCEPT !.at = "delete"]) \/ Step(c, Handled(c))
        BY <3>1 DEF CleanupProbe, Moved
      <4>2. CASE Step(c, Moved(op[c], "forget", blind))
        BY <4>2, Zenon DEF Step
      <4>3. CASE Step(c, [op[c] EXCEPT !.at = "delete"]) \/ Step(c, Handled(c))
        BY <4>3, Zenon DEF Step
      <4> QED  BY <4>1, <4>2, <4>3
    <3>2. CASE CleanupDelete(c) \/ CleanupForget(c)
      BY <3>2 DEF CleanupDelete, CleanupForget, CleanupFails, Return, Step
    <3> QED  BY <2>3, <3>1, <3>2
  <2>4. CASE Finish(c) \/ Report(c) \/ CallFails(c)
    BY <2>4 DEF Finish, Report, CallFails, CleanupFails, Return, Step
  <2> QED  BY <2>1, <2>2, <2>3, <2>4 DEF Moves, Cleanup
<1>4. op'[c] = o /\ \A d \in Calls \ {c} : op'[d] = op[d]
  BY <1>1, <1>3
<1>5. /\ o.alone => op[c].alone
      /\ o.kind # "none" => o.kind = op[c].kind /\ o.name = op[c].name /\ o.sched = op[c].sched
  <2>1. CASE o = IdleOp
    BY <2>1 DEF IdleOp
  <2>2. CASE o = Handled(c)
    BY <1>1, <2>2 DEF Handled, CallRecord
  <2>3. ASSUME NEW point, o = [op[c] EXCEPT !.at = point]
        PROVE  o.alone = op[c].alone /\ o.kind = op[c].kind /\ o.name = op[c].name
               /\ o.sched = op[c].sched
    BY <1>1, <2>3 DEF CallRecord
  <2>4. ASSUME NEW todo, o = [op[c] EXCEPT !.at = "next", !.loaded = {}, !.blind = FALSE,
                                           !.todo = todo]
        PROVE  o.alone = op[c].alone /\ o.kind = op[c].kind /\ o.name = op[c].name
               /\ o.sched = op[c].sched
    BY <1>1, <2>4 DEF CallRecord
  <2>5. ASSUME NEW n, o = [op[c] EXCEPT !.at = "probe", !.cur = n,
                                        !.todo = op[c].todo \ {n}, !.loaded = regs]
        PROVE  o.alone = op[c].alone /\ o.kind = op[c].kind /\ o.name = op[c].name
               /\ o.sched = op[c].sched
    BY <1>1, <2>5 DEF CallRecord
  <2>6. ASSUME NEW point, NEW blind, o = Moved(op[c], point, blind)
        PROVE  o.alone = op[c].alone /\ o.kind = op[c].kind /\ o.name = op[c].name
               /\ o.sched = op[c].sched
    BY <1>1, <2>6, MovedHas
  <2> QED  BY <1>3, <2>1, <2>2, <2>3, <2>4, <2>5, <2>6
<1> QED  BY <1>2, <1>4, <1>5

\* After such a step only the mover can be alone, and it was alone before.
LEMMA MoverAlone ==
    ASSUME OwnInv, NEW c \in Calls, Moves(c), NEW d \in Calls, op'[d].alone
    PROVE  d = c /\ op[c].alone /\ \A x \in Calls \ {c} : op'[x].at = "idle"
<1>1. d = c
  BY Mover DEF OwnInv, Own
<1>2. op[c].alone
  BY <1>1, Mover DEF OwnInv
<1> QED  BY <1>1, <1>2, Mover DEF OwnInv, Own

\* What a beginning does: the others are disturbed, and it is alone if there are none.
LEMMA Beginner ==
    ASSUME TaskInv, NEW c \in Calls, Begins(c)
    PROVE  /\ UNCHANGED <<tasks, regs>>
           /\ \A d \in Calls \ {c} : ~op'[d].alone /\ op'[d].at = op[d].at
           /\ op'[c].alone => \A d \in Calls : op[d].at = "idle"
           /\ \/ op'[c].at = "query" /\ op'[c].loaded = regs
              \/ op'[c].at = "next" /\ op'[c].kind # "install"
<1>1. op \in [Calls -> CallRecord]
  BY DEF TaskInv, TypeOK
<1>2. PICK call : /\ Begin(c, call) /\ UNCHANGED <<tasks, regs>>
                  /\ call \in CallRecord
                  /\ \/ call.at = "query" /\ call.loaded = regs
                     \/ call.at = "next" /\ call.kind # "install"
  <2>1. ASSUME NEW n \in Names, NEW s \in Schedules, InstallBegin(c, n, s)
        PROVE  LET call == [IdleOp EXCEPT !.at = "query", !.kind = "install", !.name = n,
                                          !.sched = s, !.loaded = regs]
               IN call \in CallRecord /\ call.at = "query" /\ call.loaded = regs
    BY DEF IdleOp, CallRecord, Points, InstallPoints, TaskInv, TypeOK
  <2>2. ASSUME NEW todo \in SUBSET Names, NEW kind \in {"uninstall", "all"}
        PROVE  LET call == [IdleOp EXCEPT !.at = "next", !.kind = kind, !.todo = todo]
               IN call \in CallRecord /\ call.at = "next" /\ call.kind # "install"
    BY DEF IdleOp, CallRecord, Points, CleanupPoints
  <2>3. NamesIn(regs) \subseteq Names
    BY WithoutOnce DEF TaskInv, TypeOK
  <2>4. ASSUME Uninstall(c)
        PROVE  \E todo \in SUBSET Names, kind \in {"uninstall", "all"} :
                  /\ Begin(c, [IdleOp EXCEPT !.at = "next", !.kind = kind, !.todo = todo])
                  /\ UNCHANGED <<tasks, regs>>
    BY <2>3, <2>4 DEF Uninstall, UninstallBegin, UninstallAllBegin
  <2>5. CASE \E n \in Names, s \in Schedules : InstallBegin(c, n, s)
    BY <2>1, <2>5 DEF InstallBegin
  <2>6. CASE Uninstall(c)
    BY <2>2, <2>4, <2>6
  <2> QED  BY <2>5, <2>6 DEF Begins
<1>3. op'[c] = [call EXCEPT !.alone = (Busy = {})]
  BY <1>1, <1>2 DEF Begin, Disturbed
<1>4. \A d \in Calls \ {c} : op'[d] = [op[d] EXCEPT !.alone = FALSE]
  BY <1>1, <1>2 DEF Begin, Disturbed
<1>5. /\ op'[c].alone = (Busy = {}) /\ op'[c].at = call.at /\ op'[c].loaded = call.loaded
      /\ op'[c].kind = call.kind
  BY <1>2, <1>3 DEF CallRecord
<1>6. Busy = {} => \A d \in Calls : op[d].at = "idle"
  BY DEF Busy
<1>7. \A d \in Calls \ {c} : ~op'[d].alone /\ op'[d].at = op[d].at
  BY <1>1, <1>4 DEF CallRecord
<1> QED  BY <1>2, <1>5, <1>6, <1>7

LEMMA OutsiderDisturbs ==
    ASSUME TaskInv, Outside, NEW c \in Calls
    PROVE  ~op'[c].alone /\ op'[c].at = op[c].at
BY OutsideRecords DEF TaskInv

LEMMA OwnInit == Init => OwnInv
BY TaskInit DEF Init, OwnInv, Own, IdleOp

LEMMA OwnMoves ==
    ASSUME OwnInv, NEW c \in Calls, Moves(c)
    PROVE  \A d \in Calls : Own(d)'
<1> SUFFICES ASSUME op'[c].alone
             PROVE  Own(c)'
  BY MoverAlone DEF Own
<1>0. op[c] \in CallRecord /\ op \in [Calls -> CallRecord] /\ Holds(op[c]) /\ op[c].alone /\ Own(c)
  BY MoverAlone DEF OwnInv, TaskInv, TypeOK
<1>1. \A d \in Calls \ {c} : op'[d].at = "idle"
  BY MoverAlone
<1>2. SUFFICES /\ op'[c].at \in InstallPoints \cup {"probe", "delete", "forget"}
                      => op'[c].loaded = regs'
               /\ op'[c].at = "forget" => ~Installed(tasks'[KeyOf[op'[c].cur]]) \/ op'[c].blind
  BY <1>1 DEF Own
<1>a. \A point : [op[c] EXCEPT !.at = point].at = point
                 /\ [op[c] EXCEPT !.at = point].loaded = op[c].loaded
                 /\ [op[c] EXCEPT !.at = point].cur = op[c].cur
  BY <1>0 DEF CallRecord
<1>b. IdleOp.at = "idle" /\ Handled(c).at = "next"
  BY <1>0 DEF IdleOp, Handled, CallRecord
<1>c. "idle" \notin InstallPoints /\ "next" \notin InstallPoints /\ "done" \notin InstallPoints
  BY DEF InstallPoints
<1>3. CASE Return(c) \/ Step(c, Handled(c))
  BY <1>0, <1>3, <1>b, <1>c DEF Return, Step
<1>4. CASE InstallQuery(c) \/ InstallCreate(c) \/ InstallVerify(c)
  <2>1. op[c].loaded = regs /\ regs' = regs
    BY <1>0, <1>4 DEF InstallQuery, InstallCreate, InstallVerify, Own, InstallPoints
  <2>2. PICK point, blind :
            point \in InstallPoints /\ (Step(c, Moved(op[c], point, blind)) \/ Return(c))
    <3>1. CASE InstallQuery(c)
      <4>1. PICK blind : Step(c, Moved(op[c], "create", blind)) \/ Return(c)
        BY <3>1 DEF InstallQuery, Moved
      <4> QED  BY <4>1 DEF InstallPoints
    <3>2. CASE InstallCreate(c) \/ InstallVerify(c)
      <4>1. PICK point \in {"verify", "save"} : Step(c, [op[c] EXCEPT !.at = point]) \/ Return(c)
        BY <3>2 DEF InstallCreate, InstallVerify
      <4> QED  BY <1>0, <4>1, MovedAt DEF InstallPoints
    <3> QED  BY <1>4, <3>1, <3>2
  <2>3. CASE Step(c, Moved(op[c], point, blind))
    <3>1. op'[c].at = point /\ op'[c].loaded = op[c].loaded
      BY <1>0, <2>3, MovedHas DEF Step
    <3> QED  BY <2>1, <2>2, <3>1 DEF InstallPoints
  <2> QED  BY <1>3, <2>2, <2>3
<1>5. CASE InstallSave(c)
  BY <1>0, <1>5, <1>c DEF InstallSave, Step, CallRecord
<1>6. ASSUME NEW n \in Names, CleanupLoad(c, n)
      PROVE  /\ op'[c].at = "probe" /\ op'[c].loaded = regs'
  BY <1>0, <1>6 DEF CleanupLoad, Step, CallRecord
<1>7. CASE CleanupProbe(c)
  <2>1. op[c].loaded = regs /\ regs' = regs /\ tasks' = tasks
    BY <1>0, <1>7 DEF CleanupProbe, Own
  <2>2. PICK found \in Queried(op[c].cur) :
          \/ /\ ~Installed(found)
             /\ Step(c, [op[c] EXCEPT !.at = "forget", !.blind = Misses(op[c].cur, found)])
          \/ Step(c, [op[c] EXCEPT !.at = "delete"])
          \/ Step(c, Handled(c))
    BY <1>7 DEF CleanupProbe
  <2>3. CASE /\ ~Installed(found)
             /\ Step(c, Moved(op[c], "forget", Misses(op[c].cur, found)))
    <3>1. /\ op'[c].at = "forget" /\ op'[c].loaded = op[c].loaded /\ op'[c].cur = op[c].cur
          /\ op'[c].blind = Misses(op[c].cur, found)
      BY <1>0, <2>3, MovedHas DEF Step
    <3>2. ~Installed(tasks[KeyOf[op[c].cur]]) \/ op'[c].blind
      BY <2>3, <3>1 DEF Misses
    <3> QED  BY <2>1, <3>1, <3>2
  <2>4. CASE Step(c, [op[c] EXCEPT !.at = "delete"])
    <3>1. op'[c].at = "delete" /\ op'[c].loaded = op[c].loaded
      BY <1>0, <1>a, <2>4 DEF Step
    <3> QED  BY <2>1, <3>1
  <2> QED  BY <1>3, <2>2, <2>3, <2>4 DEF Moved
<1>8. CASE CleanupDelete(c)
  <2>1. CASE CleanupFails(c)
    BY <1>3, <2>1 DEF CleanupFails
  <2>2. CASE /\ tasks' = [tasks EXCEPT ![KeyOf[op[c].cur]] = Absent]
             /\ Step(c, [op[c] EXCEPT !.at = "forget"])
    <3>1. KeyOf[op[c].cur] \in Keys /\ regs' = regs /\ op[c].loaded = regs
      BY <1>0, <1>8, Constants DEF CleanupDelete, Holds, Own
    <3>2. op'[c].at = "forget" /\ op'[c].loaded = regs /\ op'[c].cur = op[c].cur
      BY <1>0, <1>a, <2>2, <3>1 DEF Step
    <3>3. tasks'[KeyOf[op[c].cur]] = Absent
      BY <2>2, <3>1 DEF OwnInv, TaskInv, TypeOK
    <3> QED  BY <3>1, <3>2, <3>3 DEF Installed
  <2> QED  BY <1>8, <2>1, <2>2 DEF CleanupDelete
<1>9. CASE CleanupForget(c) \/ CallFails(c) \/ Report(c)
  BY <1>3, <1>9 DEF CleanupForget, CallFails, CleanupFails, Report
<1>10. CASE Finish(c)
  BY <1>0, <1>10, <1>a, <1>c DEF Finish, Step
<1> QED  BY <1>4, <1>5, <1>6, <1>7, <1>8, <1>9, <1>10 DEF Moves, Cleanup

LEMMA OwnStep == OwnInv /\ [Next]_vars => OwnInv'
<1> SUFFICES ASSUME OwnInv, [Next]_vars  PROVE OwnInv'
  OBVIOUS
<1>1. TaskInv'
  BY TaskStep DEF OwnInv
<1>2. CASE UNCHANGED vars
  BY <1>1, <1>2 DEF vars, OwnInv, Own
<1>3. CASE Outside
  BY <1>1, <1>3, OutsiderDisturbs DEF OwnInv, Own
<1>4. ASSUME NEW c \in Calls, Begins(c), NEW d \in Calls, op'[d].alone
      PROVE  Own(d)'
  <2>1. d = c
    BY <1>4, Beginner DEF OwnInv
  <2>2. /\ \A x \in Calls \ {c} : op'[x].at = "idle"
        /\ regs' = regs
        /\ (op'[c].at = "query" /\ op'[c].loaded = regs) \/ op'[c].at = "next"
    BY <1>4, <2>1, Beginner DEF OwnInv
  <2> QED  BY <2>1, <2>2 DEF Own, InstallPoints
<1> QED  BY <1>1, <1>2, <1>3, <1>4, OwnMoves, NextSplits DEF OwnInv, Own

LEMMA OwnAlways == Spec => []OwnInv
BY OwnInit, OwnStep, PTL DEF Spec

\* Without calls that overlap and queries that fail, a registration goes only when Windows
\* no longer has that task from that executable, however commands fail and calls die
\* (remove_registration).
THEOREM ForgottenWhenGone == Spec => ForgottenOnlyWhenGone
<1>1. ASSUME OwnInv, [Next]_vars, NEW g \in regs, g.name \notin NamesIn(regs'),
             \A c \in Busy : op[c].alone /\ ~op[c].blind
      PROVE  ~Matches(tasks'[KeyOf[g.name]], g.exe)
  <2>1. regs \in SUBSET Registrations /\ NamesOnce(regs)
    BY <1>1 DEF OwnInv, TaskInv, TypeOK
  <2>2. regs' # regs
    BY <1>1 DEF NamesIn
  <2>3. PICK c \in Calls : InstallSave(c) \/ CleanupForget(c)
    BY <1>1, <2>2 DEF Next, vars, Install, InstallBegin, InstallQuery, InstallCreate,
        InstallVerify, Uninstall, UninstallBegin, UninstallAllBegin, Cleanup, CleanupLoad,
        CleanupProbe, CleanupDelete, Finish, Report, CallFails, Outside, OutsiderCreates,
        OutsiderDeletes
  <2>4. op[c].alone /\ ~op[c].blind /\ Own(c) /\ Holds(op[c])
    <3>1. op[c].at # "idle"
      BY <2>3 DEF InstallSave, CleanupForget
    <3> QED  BY <1>1, <3>1 DEF Busy, OwnInv, TaskInv
  <2>5. op[c].loaded = regs
    BY <2>3, <2>4 DEF Own, InstallSave, CleanupForget, InstallPoints
  <2>6. CASE InstallSave(c)
    <3>1. op[c].name \in Names /\ op[c].sched \in Schedules /\ ExeOf[c] \in Exes
      BY <2>4, <2>6, Constants DEF InstallSave, Holds, InstallPoints
    <3>2. regs' = Without(regs, op[c].name) \cup {Registration(op[c].name, ExeOf[c], op[c].sched)}
      BY <2>5, <2>6 DEF InstallSave
    <3>3. NamesIn(regs) \subseteq NamesIn(regs')
      BY <2>1, <3>1, <3>2, RecordedOnce
    <3> QED  BY <1>1, <3>3 DEF NamesIn
  <2>7. CASE CleanupForget(c)
    <3>1. regs' = Without(regs, op[c].cur) /\ tasks' = tasks
      BY <2>5, <2>7 DEF CleanupForget
    <3>2. g.name = op[c].cur
      BY <1>1, <3>1 DEF Without, NamesIn
    <3>3. ~Installed(tasks[KeyOf[op[c].cur]])
      BY <2>4, <2>7 DEF Own, CleanupForget
    <3> QED  BY <3>1, <3>2, <3>3 DEF Matches
  <2> QED  BY <2>3, <2>6, <2>7
<1>2. OwnInv /\ [Next]_vars =>
          [\A g \in regs :
              g.name \notin NamesIn(regs') /\ (\A c \in Busy : op[c].alone /\ ~op[c].blind)
              => ~Matches(tasks'[KeyOf[g.name]], g.exe)]_vars
  BY <1>1
<1> QED  BY OwnAlways, <1>2, PTL DEF Spec, ForgottenOnlyWhenGone

-----------------------------------------------------------------------------
(* Installs nobody disturbs, where Windows tells the names apart           *)

NamesDistinct == \A m, n \in Names : KeyOf[m] = KeyOf[n] => m = n

DeliverInv == OwnInv /\ \A c \in Calls : Delivers(c)

LEMMA DeliverInit == Init => DeliverInv
BY OwnInit DEF Init, DeliverInv, Delivers, IdleOp

LEMMA DeliverMoves ==
    ASSUME NamesDistinct, DeliverInv, NEW c \in Calls, Moves(c)
    PROVE  \A d \in Calls : Delivers(d)'
<1> USE DEF DeliverInv
<1> SUFFICES ASSUME op'[c].alone, op'[c].kind = "install"
             PROVE  Delivers(c)'
  BY MoverAlone DEF Delivers
<1>0. /\ op[c] \in CallRecord /\ op \in [Calls -> CallRecord] /\ Holds(op[c])
      /\ op[c].alone /\ Own(c) /\ Delivers(c)
  BY MoverAlone DEF OwnInv, TaskInv, TypeOK
<1>1. /\ op[c].kind = "install" /\ op'[c].name = op[c].name /\ op'[c].sched = op[c].sched
      /\ op[c].name \in Names /\ KeyOf[op[c].name] \in Keys
  BY <1>0, Mover, Constants DEF OwnInv, Holds
<1>2. SUFFICES
        /\ op'[c].at \notin {"query", "create"} =>
              tasks'[KeyOf[op[c].name]] = Task(ExeOf[c], op[c].sched)
        /\ op'[c].at \in CleanupPoints \cup {"done"} =>
              /\ Registration(op[c].name, ExeOf[c], op[c].sched) \in regs'
              /\ op[c].name \notin op'[c].todo
        /\ op'[c].at \in {"probe", "delete", "forget"} => op'[c].cur # op[c].name
  BY <1>1 DEF Delivers
<1>a. \A point : /\ [op[c] EXCEPT !.at = point].at = point
                 /\ [op[c] EXCEPT !.at = point].todo = op[c].todo
                 /\ [op[c] EXCEPT !.at = point].cur = op[c].cur
  BY <1>0 DEF CallRecord
<1>b. Handled(c).at = "next" /\ Handled(c).todo = op[c].todo
  BY <1>0 DEF Handled, CallRecord
<1>c. "verify" \notin CleanupPoints /\ "save" \notin CleanupPoints /\ "create" \notin CleanupPoints
  BY DEF CleanupPoints
<1>3. ~Return(c)
  BY <1>0 DEF Return, Step, IdleOp
<1>4. CASE Step(c, Handled(c)) /\ op[c].at \in CleanupPoints /\ tasks' = tasks /\ regs' = regs
  BY <1>0, <1>1, <1>4, <1>b DEF Step, Delivers, CleanupPoints
<1>5. CASE InstallQuery(c)
  <2>1. PICK blind : Step(c, Moved(op[c], "create", blind))
    BY <1>3, <1>5 DEF InstallQuery, Moved
  <2>2. op'[c].at = "create"
    BY <1>0, <2>1, MovedHas DEF Step
  <2> QED  BY <1>c, <2>2
<1>6. CASE InstallCreate(c)
  <2>1. op'[c].at = "verify"
    BY <1>0, <1>3, <1>6, <1>a DEF InstallCreate, Step
  <2>2. tasks'[KeyOf[op[c].name]] = Task(ExeOf[c], op[c].sched)
    BY <1>1, <1>3, <1>6 DEF InstallCreate, OwnInv, TaskInv, TypeOK
  <2> QED  BY <2>1, <2>2, <1>c
<1>7. CASE InstallVerify(c)
  <2>1. op'[c].at = "save"
    BY <1>0, <1>3, <1>7, <1>a DEF InstallVerify, Step
  <2> QED  BY <1>0, <1>1, <1>7, <1>c, <2>1 DEF InstallVerify, Delivers
<1>8. CASE InstallSave(c)
  <2>1. op'[c].at = "next" /\ op[c].name \notin op'[c].todo
    BY <1>0, <1>8 DEF InstallSave, Step, CallRecord
  <2>2. Registration(op[c].name, ExeOf[c], op[c].sched) \in regs'
    BY <1>8 DEF InstallSave
  <2> QED  BY <1>0, <1>1, <1>8, <2>1, <2>2 DEF InstallSave, Delivers
<1>9. ASSUME NEW n \in Names, CleanupLoad(c, n)
      PROVE  Delivers(c)'
  <2>1. op'[c].at = "probe" /\ op'[c].cur = n /\ op'[c].todo = op[c].todo \ {n}
    BY <1>0, <1>9 DEF CleanupLoad, Step, CallRecord
  <2>2. n # op[c].name
    BY <1>0, <1>1, <1>9 DEF CleanupLoad, Delivers, CleanupPoints
  <2> QED  BY <1>0, <1>1, <1>9, <2>1, <2>2 DEF CleanupLoad, Delivers, CleanupPoints
<1>10. CASE CleanupProbe(c)
  <2>1. PICK point, blind :
            /\ point \in {"forget", "delete"}
            /\ Step(c, Moved(op[c], point, blind)) \/ Step(c, Handled(c))
    <3>1. CASE \E found \in Queried(op[c].cur) : Step(c, [op[c] EXCEPT
                  !.at = "forget", !.blind = Misses(op[c].cur, found)])
      <4>1. PICK found : Step(c, Moved(op[c], "forget", Misses(op[c].cur, found)))
        BY <3>1 DEF Moved
      <4> QED  BY <4>1
    <3>2. CASE Step(c, [op[c] EXCEPT !.at = "delete"])
      <4>1. Step(c, Moved(op[c], "delete", op[c].blind))
        BY <1>0, <3>2, MovedAt
      <4> QED  BY <4>1
    <3>3. CASE Step(c, Handled(c))
      BY <3>3
    <3> QED  BY <1>10, <3>1, <3>2, <3>3 DEF CleanupProbe
  <2>2. CASE Step(c, Handled(c))
    BY <1>4, <1>10, <2>2 DEF CleanupProbe, CleanupPoints
  <2>3. CASE Step(c, Moved(op[c], point, blind))
    <3>1. op'[c].at = point /\ op'[c].cur = op[c].cur /\ op'[c].todo = op[c].todo
      BY <1>0, <2>3, MovedHas DEF Step
    <3> QED  BY <1>0, <1>1, <1>10, <2>1, <3>1 DEF CleanupProbe, Delivers, CleanupPoints
  <2> QED  BY <2>1, <2>2, <2>3
<1>11. CASE CleanupDelete(c)
  <2>1. CASE CleanupFails(c) /\ UNCHANGED tasks
    BY <1>1, <1>4, <1>11, <2>1 DEF CleanupDelete, CleanupFails, CleanupPoints
  <2>2. CASE /\ tasks' = [tasks EXCEPT ![KeyOf[op[c].cur]] = Absent]
             /\ Step(c, [op[c] EXCEPT !.at = "forget"])
    <3>1. op'[c].at = "forget" /\ op'[c].cur = op[c].cur /\ op'[c].todo = op[c].todo
      BY <1>0, <1>a, <2>2 DEF Step
    <3>2. op[c].cur \in Names /\ op[c].cur # op[c].name
      BY <1>0, <1>1, <1>11 DEF CleanupDelete, Holds, Delivers
    <3>3. KeyOf[op[c].cur] # KeyOf[op[c].name]
      BY <1>1, <3>2 DEF NamesDistinct
    <3>4. tasks'[KeyOf[op[c].name]] = tasks[KeyOf[op[c].name]]
      BY <1>1, <2>2, <3>3 DEF OwnInv, TaskInv, TypeOK
    <3>5. /\ tasks[KeyOf[op[c].name]] = Task(ExeOf[c], op[c].sched)
          /\ Registration(op[c].name, ExeOf[c], op[c].sched) \in regs
          /\ op[c].name \notin op[c].todo
      BY <1>0, <1>1, <1>11 DEF CleanupDelete, Delivers, CleanupPoints
    <3>6. regs' = regs
      BY <1>11 DEF CleanupDelete
    <3> QED  BY <3>1, <3>2, <3>4, <3>5, <3>6
  <2> QED  BY <1>11, <2>1, <2>2 DEF CleanupDelete
<1>12. CASE CleanupForget(c)
  <2>1. /\ op[c].loaded = regs /\ op[c].cur # op[c].name
        /\ Registration(op[c].name, ExeOf[c], op[c].sched) \in regs
    BY <1>0, <1>1, <1>12 DEF CleanupForget, Own, Delivers, CleanupPoints
  <2>2. Registration(op[c].name, ExeOf[c], op[c].sched) \in regs'
    BY <1>12, <2>1 DEF CleanupForget, Without, Registration
  <2>3. op'[c].at = "next" /\ op'[c].todo = op[c].todo
    BY <1>0, <1>12, <1>b DEF CleanupForget, Step
  <2> QED  BY <1>0, <1>1, <1>12, <2>2, <2>3 DEF CleanupForget, Delivers, CleanupPoints
<1>13. CASE Finish(c)
  <2>1. op'[c].at = "done" /\ op'[c].todo = op[c].todo
    BY <1>0, <1>13, <1>a DEF Finish, Step
  <2>2. /\ tasks[KeyOf[op[c].name]] = Task(ExeOf[c], op[c].sched)
        /\ Registration(op[c].name, ExeOf[c], op[c].sched) \in regs
        /\ op[c].name \notin op[c].todo
    BY <1>0, <1>1, <1>13 DEF Finish, Delivers, CleanupPoints
  <2>3. tasks' = tasks /\ regs' = regs
    BY <1>13 DEF Finish
  <2> QED  BY <2>1, <2>2, <2>3
<1>14. CASE CallFails(c) \/ Report(c)
  BY <1>1, <1>3, <1>4, <1>14 DEF CallFails, CleanupFails, Report, CleanupPoints
<1>15. CASE \E n \in Names : CleanupLoad(c, n)
  BY <1>1, <1>9, <1>15 DEF Delivers
<1> QED  BY <1>5, <1>6, <1>7, <1>8, <1>10, <1>11, <1>12, <1>13, <1>14, <1>15 DEF Moves, Cleanup

LEMMA DeliverStep ==
    ASSUME NamesDistinct, DeliverInv, [Next]_vars
    PROVE  DeliverInv'
<1> USE DEF DeliverInv
<1>1. OwnInv'
  BY OwnStep
<1>2. CASE UNCHANGED vars
  BY <1>1, <1>2 DEF vars, Delivers
<1>3. CASE Outside
  BY <1>1, <1>3, OutsiderDisturbs DEF OwnInv, Delivers
<1>4. ASSUME NEW c \in Calls, Begins(c), NEW d \in Calls, op'[d].alone, op'[d].kind = "install"
      PROVE  Delivers(d)'
  <2>1. d = c /\ op'[c].at = "query"
    BY <1>4, Beginner DEF OwnInv
  <2> QED  BY <2>1 DEF Delivers, CleanupPoints
<1>5. \A c \in Calls : Begins(c) => \A d \in Calls : Delivers(d)'
  BY <1>4 DEF Delivers
<1> QED  BY <1>1, <1>2, <1>3, <1>5, DeliverMoves, NextSplits

\* An install that reports success and that nobody disturbed leaves the task it was asked
\* for, recorded, if no two names denote the same Windows task (install_task_with; where
\* they do, the run scheduler_case_rename shows the task gone).
THEOREM InstallIsTrue ==
    ASSUME NamesDistinct
    PROVE  Spec => []InstallDelivers
<1>1. DeliverInv /\ [Next]_vars => DeliverInv'
  BY NamesDistinct, DeliverStep
<1>2. DeliverInv => InstallDelivers
  BY DEF DeliverInv, Delivers, InstallDelivers
<1> QED  BY DeliverInit, <1>1, <1>2, PTL DEF Spec

\* Whoever has a scheduled task keeps one through every step of an undisturbed install,
\* update or rename, whatever fails or dies (install_task_with: the new task first).
THEOREM TaskNeverLost ==
    ASSUME NamesDistinct
    PROVE  Spec => InstallNeverLosesTask
<1>1. DeliverInv /\ [Next]_vars => DeliverInv'
  BY NamesDistinct, DeliverStep
<1>2. ASSUME DeliverInv, [Next]_vars, NEW c \in Calls, op[c].kind = "install", op[c].alone,
             HasTask, \A d \in Calls : op'[d].at # "idle" => op'[d].alone
      PROVE  HasTask'
  <2>1. TaskInv /\ Own(c) /\ Holds(op[c]) /\ op[c].at # "idle"
    BY <1>2 DEF DeliverInv, OwnInv, TaskInv, Holds
  <2>2. CASE UNCHANGED tasks
    BY <1>2, <2>2 DEF HasTask, Ours
  <2>3. ~Outside
    BY <1>2, <2>1, OutsiderDisturbs
  <2>4. ASSUME NEW d \in Calls, Moves(d)
        PROVE  d = c
    BY <2>1, <2>4, <1>2, Mover DEF Own
  <2>5. CASE InstallCreate(c)
    <3>1. KeyOf[op[c].name] \in Keys /\ Ours(Task(ExeOf[c], op[c].sched))
      BY <2>1, <1>2, Constants DEF Holds, Ours, Task
    <3>2. CASE tasks' = [tasks EXCEPT ![KeyOf[op[c].name]] = Task(ExeOf[c], op[c].sched)]
      <4>1. tasks'[KeyOf[op[c].name]] = Task(ExeOf[c], op[c].sched)
        BY <2>1, <3>1, <3>2 DEF TaskInv, TypeOK
      <4> QED  BY <3>1, <4>1 DEF HasTask
    <3> QED  BY <2>2, <2>5, <3>2 DEF InstallCreate
  <2>6. CASE CleanupDelete(c)
    <3>1. /\ tasks[KeyOf[op[c].name]] = Task(ExeOf[c], op[c].sched)
          /\ op[c].cur # op[c].name /\ op[c].name \in Names /\ op[c].cur \in Names
      BY <1>2, <2>1, <2>6 DEF CleanupDelete, DeliverInv, Delivers, Holds
    <3>2. KeyOf[op[c].name] # KeyOf[op[c].cur] /\ KeyOf[op[c].name] \in Keys
      BY <3>1, Constants DEF NamesDistinct
    <3>3. tasks'[KeyOf[op[c].name]] = tasks[KeyOf[op[c].name]]
      BY <2>1, <2>6, <3>2 DEF CleanupDelete, TaskInv, TypeOK
    <3>4. Ours(tasks'[KeyOf[op[c].name]])
      BY <3>1, <3>3, Constants DEF Ours, Task
    <3> QED  BY <3>2, <3>4 DEF HasTask
  <2>7. ASSUME NEW d \in Calls, InstallCreate(d) \/ CleanupDelete(d)
        PROVE  HasTask'
    BY <2>4, <2>5, <2>6, <2>7 DEF Moves, Cleanup
  <2> QED  BY <1>2, <2>2, <2>3, <2>7
           DEF Next, vars, Install, InstallBegin, InstallQuery, InstallVerify, InstallSave,
               Uninstall, UninstallBegin, UninstallAllBegin, Cleanup, CleanupLoad,
               CleanupProbe, CleanupForget, Finish, Report, CallFails
<1>3. DeliverInv /\ [Next]_vars =>
          [Installing /\ HasTask /\ (\A c \in Calls : op'[c].at # "idle" => op'[c].alone)
              => HasTask']_vars
  BY <1>2 DEF Installing
<1> QED  BY DeliverInit, <1>1, <1>3, PTL DEF Spec, InstallNeverLosesTask
=============================================================================
