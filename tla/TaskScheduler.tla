----------------------------- MODULE TaskScheduler -----------------------------
(***************************************************************************)
(* Registration of the launcher with the Windows Task Scheduler: install,  *)
(* rename, uninstall and the clean-up of the uninstaller, each a sequence  *)
(* of external commands and of whole-file reads and writes of              *)
(* scheduler-state.json.  Nothing serialises the calls: buttons stay       *)
(* enabled and several windows share the files.                            *)
(* Source: task_scheduler.rs, and its callers in main.rs.                  *)
(***************************************************************************)
EXTENDS FiniteSets

CONSTANTS
    Calls,      \* calls that may be in progress at once
    Names,      \* task names as spelled in the configuration
    KeyOf,      \* the Windows task a name denotes (names differ in case only)
    Schedules,  \* schedules a task may be given
    ExeOf,      \* path of the executable that makes the call
    Foreign,    \* action of a task that is not the launcher's
    None,
    Faults      \* TRUE: commands and file writes may fail, calls may die

Exes == {ExeOf[c] : c \in Calls}
Keys == {KeyOf[n] : n \in Names}

ASSUME SchedulerConstants ==
    /\ DOMAIN KeyOf = Names /\ DOMAIN ExeOf = Calls
    /\ Foreign \notin Exes /\ None \notin Exes /\ Foreign # None
    /\ None \notin Names /\ None \notin Schedules
    /\ Faults \in BOOLEAN

VARIABLES
    tasks,   \* what Windows has registered under each key
    regs,    \* registrations in scheduler-state.json
    op       \* each call: where it stands, what it was asked, what it has read

vars == <<tasks, regs, op>>

-----------------------------------------------------------------------------
Task(exe, s) == [exe |-> exe, sched |-> s]
Absent == Task(None, None)
ForeignTask == Task(Foreign, None)
Installed(t) == t # Absent
Ours(t) == t.exe \in Exes

Registration(n, exe, s) == [name |-> n, exe |-> exe, sched |-> s]
Registrations == [name: Names, exe: Exes, sched: Schedules]
NamesIn(rs) == {g.name : g \in rs}
Without(rs, n) == {g \in rs : g.name # n}

InstallPoints == {"query", "create", "verify", "save"}
CleanupPoints == {"next", "probe", "delete", "forget"}
Points == {"idle", "done"} \cup InstallPoints \cup CleanupPoints

IdleOp ==
    [at |-> "idle", kind |-> "none", name |-> None, sched |-> None, loaded |-> {},
     todo |-> {}, cur |-> None, blind |-> FALSE, alone |-> FALSE]

Init ==
    /\ tasks \in [Keys -> {Absent, ForeignTask}]
    /\ regs = {}
    /\ op = [c \in Calls |-> IdleOp]

\* probe_matches_app, and the ownership rule of install and clean-up: a recorded task
\* by its recorded executable, another one by the caller's.
Matches(t, exe) == Installed(t) /\ t.exe = exe
Owned(t, n, loaded, exe) ==
    \/ \E g \in loaded : g.name = n /\ Matches(t, g.exe)
    \/ n \notin NamesIn(loaded) /\ Matches(t, exe)

-----------------------------------------------------------------------------
\* What a query of Windows may return: Get-ScheduledTask runs with SilentlyContinue, so an
\* error of the query itself reads as "not installed".
Queried(n) == {tasks[KeyOf[n]]} \cup IF Faults THEN {Absent} ELSE {}

\* Histories: "alone", nothing else touched tasks or state during the call; "blind", the
\* task under the name in hand is not the one its query returned.
Misses(n, found) == found # tasks[KeyOf[n]]
Busy == {c \in Calls : op[c].at # "idle"}
Disturbed == [c \in Calls |-> [op[c] EXCEPT !.alone = FALSE]]
Begin(c, call) ==
    /\ op[c].at = "idle"
    /\ op' = [Disturbed EXCEPT ![c] = [call EXCEPT !.alone = (Busy = {})]]

Step(c, call) == op' = [op EXCEPT ![c] = call]
Return(c) == Step(c, IdleOp)

-----------------------------------------------------------------------------
(* install_task                                                            *)

\* validated, compiled, and the state loaded.
InstallBegin(c, n, s) ==
    /\ Begin(c, [IdleOp EXCEPT !.at = "query", !.kind = "install", !.name = n,
                               !.sched = s, !.loaded = regs])
    /\ UNCHANGED <<tasks, regs>>

\* An existing task that is not the launcher's is refused.
InstallQuery(c) ==
    /\ op[c].at = "query"
    /\ \E found \in Queried(op[c].name) :
          IF Installed(found) /\ ~Owned(found, op[c].name, op[c].loaded, ExeOf[c])
          THEN Return(c)
          ELSE Step(c, [op[c] EXCEPT !.at = "create", !.blind = Misses(op[c].name, found)])
    /\ UNCHANGED <<tasks, regs>>

\* Mutant: the result of /Create is neither checked nor verified.
InstallCreateUnverified(c) ==
    /\ op[c].at = "create"
    /\ \/ tasks' = [tasks EXCEPT ![KeyOf[op[c].name]] = Task(ExeOf[c], op[c].sched)]
       \/ Faults /\ UNCHANGED tasks
    /\ Step(c, [op[c] EXCEPT !.at = "save"])
    /\ UNCHANGED regs

\* schtasks /Create /F: the definition is replaced, or nothing happens.
InstallCreate(c) ==
    /\ op[c].at = "create"
    /\ \/ /\ tasks' = [tasks EXCEPT ![KeyOf[op[c].name]] = Task(ExeOf[c], op[c].sched)]
          /\ Step(c, [op[c] EXCEPT !.at = "verify"])
       \/ /\ Faults /\ Return(c)
          /\ UNCHANGED tasks
    /\ UNCHANGED regs

InstallVerify(c) ==
    /\ op[c].at = "verify"
    /\ \E found \in Queried(op[c].name) :
          IF Matches(found, ExeOf[c])
          THEN Step(c, [op[c] EXCEPT !.at = "save"])
          ELSE Return(c)
    /\ UNCHANGED <<tasks, regs>>

\* Mutant: the name just installed counts among the old ones.
InstallSaveCleansAll(c) ==
    LET recorded == Without(op[c].loaded, op[c].name)
                        \cup {Registration(op[c].name, ExeOf[c], op[c].sched)}
    IN  /\ op[c].at = "save"
        /\ regs' = recorded
        /\ Step(c, [op[c] EXCEPT !.at = "next", !.loaded = {}, !.blind = FALSE,
                                 !.todo = NamesIn(recorded)])
        /\ UNCHANGED tasks

\* The state as loaded at the beginning, with this registration, replaces the file;
\* every other name in it is an old one to be cleaned up.
InstallSave(c) ==
    LET recorded == Without(op[c].loaded, op[c].name)
                        \cup {Registration(op[c].name, ExeOf[c], op[c].sched)}
    IN  /\ op[c].at = "save"
        /\ regs' = recorded
        /\ Step(c, [op[c] EXCEPT !.at = "next", !.loaded = {}, !.blind = FALSE,
                                 !.todo = NamesIn(recorded) \ {op[c].name}])
        /\ UNCHANGED tasks

-----------------------------------------------------------------------------
(* cleanup_managed_task_with, alone or for several names                   *)

UninstallBegin(c, n) ==
    /\ Begin(c, [IdleOp EXCEPT !.at = "next", !.kind = "uninstall", !.todo = {n}])
    /\ UNCHANGED <<tasks, regs>>

\* cleanup_all_managed_tasks: recorded names and the one in launcher-config.json, if it has
\* one; it may be any name, as the form saves it while the user types. (One that does not
\* validate ends the call here, before any task: nothing changes.)
UninstallAllBegin(c, configured) ==
    /\ Begin(c, [IdleOp EXCEPT !.at = "next", !.kind = "all",
                               !.todo = NamesIn(regs) \cup configured])
    /\ UNCHANGED <<tasks, regs>>

CleanupLoad(c, n) ==
    /\ op[c].at = "next" /\ n \in op[c].todo
    /\ Step(c, [op[c] EXCEPT !.at = "probe", !.cur = n, !.todo = @ \ {n}, !.loaded = regs])
    /\ UNCHANGED <<tasks, regs>>

\* On to the next name.
Handled(c) == [op[c] EXCEPT !.at = "next", !.cur = None, !.loaded = {}, !.blind = FALSE]

\* An error ends an uninstall; an install notes it and the uninstaller goes on.
CleanupFails(c) ==
    IF op[c].kind = "uninstall" THEN Return(c) ELSE Step(c, Handled(c))

\* Mutant: whose task it is does not matter.
CleanupProbeAny(c) ==
    /\ op[c].at = "probe"
    /\ Step(c, [op[c] EXCEPT !.at = IF Installed(tasks[KeyOf[op[c].cur]]) THEN "delete" ELSE "forget"])
    /\ UNCHANGED <<tasks, regs>>

\* A task that is gone is forgotten, one that is not the launcher's is left.
CleanupProbe(c) ==
    /\ op[c].at = "probe"
    /\ \E found \in Queried(op[c].cur) :
          IF ~Installed(found)
          THEN Step(c, [op[c] EXCEPT !.at = "forget", !.blind = Misses(op[c].cur, found)])
          ELSE IF Owned(found, op[c].cur, op[c].loaded, ExeOf[c])
          THEN Step(c, [op[c] EXCEPT !.at = "delete"])
          ELSE Step(c, Handled(c))
    /\ UNCHANGED <<tasks, regs>>

\* Mutant: a failed /Delete counts as done.
CleanupDeleteUnchecked(c) ==
    /\ op[c].at = "delete"
    /\ \/ tasks' = [tasks EXCEPT ![KeyOf[op[c].cur]] = Absent]
       \/ Faults /\ UNCHANGED tasks
    /\ Step(c, [op[c] EXCEPT !.at = "forget"])
    /\ UNCHANGED regs

\* schtasks /Delete; "not found" is a success too.
CleanupDelete(c) ==
    /\ op[c].at = "delete"
    /\ \/ /\ tasks' = [tasks EXCEPT ![KeyOf[op[c].cur]] = Absent]
          /\ Step(c, [op[c] EXCEPT !.at = "forget"])
       \/ /\ Faults /\ CleanupFails(c)
          /\ UNCHANGED tasks
    /\ UNCHANGED regs

CleanupForget(c) ==
    /\ op[c].at = "forget"
    /\ regs' = Without(op[c].loaded, op[c].cur)
    /\ Step(c, Handled(c))
    /\ UNCHANGED tasks

Finish(c) ==
    /\ op[c].at = "next" /\ op[c].todo = {}
    /\ Step(c, [op[c] EXCEPT !.at = "done"])
    /\ UNCHANGED <<tasks, regs>>

Report(c) ==
    /\ op[c].at = "done" /\ Return(c)
    /\ UNCHANGED <<tasks, regs>>

\* A query or a file access fails (an error of clean-up ends there), or the process dies.
CallFails(c) ==
    /\ Faults
    /\ \/ op[c].at \in {"probe", "forget"} /\ CleanupFails(c)
       \/ op[c].at \in InstallPoints \cup CleanupPoints /\ Return(c)
    /\ UNCHANGED <<tasks, regs>>

-----------------------------------------------------------------------------
(* Outside                                                                 *)

\* The task a call's next command replaces or deletes.
Target(o) ==
    IF o.at = "create" THEN {KeyOf[o.name]} ELSE IF o.at = "delete" THEN {KeyOf[o.cur]} ELSE {}

\* Somebody takes a free name, be it between a call's query and its command.
OutsiderCreates(k) ==
    /\ tasks[k] = Absent
    /\ tasks' = [tasks EXCEPT ![k] = ForeignTask]
    /\ op' = [c \in Calls |-> [Disturbed[c] EXCEPT !.blind = @ \/ k \in Target(op[c])]]
    /\ UNCHANGED regs

\* The user deletes the task in Windows' own console.
OutsiderDeletes(k) ==
    /\ Ours(tasks[k])
    /\ tasks' = [tasks EXCEPT ![k] = Absent]
    /\ op' = Disturbed
    /\ UNCHANGED regs

-----------------------------------------------------------------------------
Install(c) ==
    \/ \E n \in Names, s \in Schedules : InstallBegin(c, n, s)
    \/ InstallQuery(c) \/ InstallCreate(c) \/ InstallVerify(c) \/ InstallSave(c)

Uninstall(c) ==
    \/ \E n \in Names : UninstallBegin(c, n) \/ UninstallAllBegin(c, {n})
    \/ UninstallAllBegin(c, {})

Cleanup(c) ==
    \/ \E n \in Names : CleanupLoad(c, n)
    \/ CleanupProbe(c) \/ CleanupDelete(c) \/ CleanupForget(c)

Outside == \E k \in Keys : OutsiderCreates(k) \/ OutsiderDeletes(k)

Next ==
    \/ \E c \in Calls : Install(c) \/ Uninstall(c) \/ Cleanup(c) \/ Finish(c)
                            \/ Report(c) \/ CallFails(c)
    \/ Outside

Spec == Init /\ [][Next]_vars

-----------------------------------------------------------------------------
(* Properties                                                              *)

CallRecord ==
    [at: Points, kind: {"none", "install", "uninstall", "all"}, name: Names \cup {None},
     sched: Schedules \cup {None}, loaded: SUBSET Registrations, todo: SUBSET Names,
     cur: Names \cup {None}, blind: BOOLEAN, alone: BOOLEAN]

\* A name is recorded at most once.
NamesOnce(rs) == \A g, h \in rs : g.name = h.name => g = h

TypeOK ==
    /\ tasks \in [Keys -> {Absent, ForeignTask} \cup [exe: Exes, sched: Schedules]]
    /\ regs \subseteq Registrations /\ NamesOnce(regs)
    /\ op \in [Calls -> CallRecord]

\* The launcher replaces or deletes a task of the same name that is not its own in two
\* cases only: the query before the command failed, which reads as "not installed", or the
\* task came between the query and the command. In whatever other way calls interleave,
\* fail or die, it is kept (the ownership checks of install_task_with and
\* cleanup_managed_task_with; README.md promises to refuse it always).
ForeignTasksKept ==
    [][\A k \in Keys : tasks[k] = ForeignTask =>
          tasks'[k] = ForeignTask \/ \E c \in Calls : k \in Target(op[c]) /\ op[c].blind]_vars

\* An install that reports success, undisturbed by other calls, leaves exactly the task
\* it was asked for, recorded as such, even if it renamed and old tasks could not be
\* removed (install_task_with).
InstallDelivers ==
    \A c \in Calls : op[c].at = "done" /\ op[c].kind = "install" /\ op[c].alone =>
        /\ tasks[KeyOf[op[c].name]] = Task(ExeOf[c], op[c].sched)
        /\ Registration(op[c].name, ExeOf[c], op[c].sched) \in regs

\* Whoever has a scheduled task still has one at every point of an undisturbed install,
\* update or rename, failures and crashes included: the new task comes before the old
\* one goes (plans/2026-08-25-scheduler-origin-health-advanced-triggers.md:92).
HasTask == \E k \in Keys : Ours(tasks[k])
Installing == \E c \in Calls : op[c].kind = "install" /\ op[c].alone
InstallNeverLosesTask ==
    [][Installing /\ HasTask /\ (\A c \in Calls : op'[c].at # "idle" => op'[c].alone)
            => HasTask']_vars

\* A registration is forgotten only when Windows no longer has that task from that
\* executable, so that a later clean-up still finds it (remove_registration), or when the
\* query for it failed, which reads as "not installed". Calls that overlap are excepted,
\* they overwrite each other's state.
ForgottenOnlyWhenGone ==
    [][\A g \in regs :
            g.name \notin NamesIn(regs') /\ (\A c \in Busy : op[c].alone /\ ~op[c].blind)
        => ~Matches(tasks'[KeyOf[g.name]], g.exe)]_vars
=============================================================================
