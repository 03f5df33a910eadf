---------------------------- MODULE RetryEngine ----------------------------
(***************************************************************************)
(* One accepted run of the retry engine (src-tauri/src/retry_engine.rs),   *)
(* from the moment its `starting` status is on disk and its lease is held  *)
(* until the lease is dropped: the race of N workers over one command, the *)
(* single-worker keep-alive phase, the terminal status and the success     *)
(* notification.                                                           *)
(*                                                                         *)
(* All workers are futures of ONE tokio task, so code between two `.await` *)
(* points is atomic; an action is the code from one such point to the next.*)
(* Children, users and other processes move at any time in between.        *)
(***************************************************************************)
EXTENDS Naturals, FiniteSets

CONSTANTS
    Workers,      \* worker ids, FIRST_WORKER_ID .. FIRST_WORKER_ID + concurrency - 1
    First,        \* FIRST_WORKER_ID: owns the child spawned by start_run, runs keep-alive
    MaxTries,     \* options.max_tries; 0 is unlimited
    AttemptBound, \* bound of the model on the attempt counter (it is a u64 in the code)
    Modes,        \* the run modes explored: a subset of {"retry", "manual"}
    Controllers,  \* who may flip keep-alive: a subset of {"local", "remote"}
    Faults,       \* TRUE: spawn, pipe, log, status and request-file errors may happen
    MayDetach     \* TRUE: a child may close both pipes and keep running

ASSUME ConstantsOK ==
    /\ IsFiniteSet(Workers)
    /\ First \in Workers
    /\ MaxTries \in Nat
    /\ AttemptBound \in Nat
    /\ Modes \subseteq {"retry", "manual"}
    /\ Controllers \subseteq {"local", "remote"}
    /\ Faults \in BOOLEAN
    /\ MayDetach \in BOOLEAN

VARIABLES
    mode,          \* options.run_mode
    phase,         \* where start_run / run_retry_loop stands
    wpc,           \* where each worker's future stands
    outcome,       \* WorkerOutcome of each worker that left the race
    child,         \* the process group each worker owns
    attempt,       \* StatusBuilder.attempt
    retries,       \* StatusBuilder.retry_count
    activeWorkers, \* StatusBuilder.active_workers
    pids,          \* workers with an entry in StatusBuilder.child_pids
    cancelled,     \* the lease's CancellationToken
    raceCancelled, \* race_token, the child token a winner cancels
    stopFile,      \* the one slot of stop-request.json: "named" this run, was "overwritten"
    keepFile,      \* keep-alive-request.json for this run: "none", "on", "off"
    keepCall,      \* a local set_keep_alive that wrote the file and not yet the channel
    keepWatch,     \* value of the lease's watch channel
    watchSent,     \* the channel was written since the lease was created
    changed,       \* the receiver cloned by wait_for_keep_alive has an unseen value
    ended,         \* LoopOutcome of the run; "keepAliveOff" is Success by switch-off
    status,        \* the status of this run in status.json
    noticed,       \* StatusBuilder.success_notification_attempted
    notices        \* success events handed to the notification channels

switch == <<keepFile, keepCall, keepWatch, watchSent>>                  \* the keep-alive switch
given  == <<mode, cancelled, stopFile, switch>>                        \* set from outside the run task
race   == <<phase, wpc, outcome, activeWorkers, raceCancelled, ended>> \* where the task stands
tries  == <<child, pids, attempt, retries>>                            \* the attempts it makes
report == <<status, noticed, notices>>                                 \* what it tells the world
vars   == <<given, race, tries, report, changed>>

-----------------------------------------------------------------------------
Phases == {"boot", "race", "keepAlive", "closing", "notify", "done"}

\* A worker is at one of its await points, or it has left ("over") or never
\* took part ("idle": manual keep-alive runs one worker).
WorkerPoints == {"idle", "ready", "announce", "running", "draining", "reaping",
                 "waiting", "yielding", "over", "accept", "kaAnnounce", "kaNotify", "kaWait"}

WorkerOutcomes == {"none", "succeeded", "failed", "stopped", "exhausted", "superseded"}
Verdicts == {"none", "good", "bad", "nocode"}
Terminal == {"Success", "Failed", "Stopped"}

NoChild == [proc |-> "none", verdict |-> "none", pipes |-> "closed"]
Spawned == [proc |-> "alive", verdict |-> "none", pipes |-> "open"]
Children == [proc: {"none", "alive", "exited"}, verdict: Verdicts, pipes: {"open", "closed"}]

Participants(m) == IF m = "manual" THEN {First} ELSE Workers

\* Mutant: the budget admits one attempt too many.
HasRemainingAttemptsInclusive(n) == MaxTries = 0 \/ n <= MaxTries

\* StatusBuilder::has_remaining_attempts
HasRemainingAttempts(n) == MaxTries = 0 \/ n < MaxTries

\* effective_keep_alive_enabled: the request file overrides the watch channel
KeepAliveEnabled == IF keepFile = "none" THEN keepWatch ELSE keepFile = "on"

\* The token a worker polls: the race token is a child of the lease's token
TokenCancelled == cancelled \/ (phase = "race" /\ raceCancelled)

\* check_interrupts and the polls of the wait loops
InterruptSeen == TokenCancelled \/ stopFile = "named"

Racing(w) == wpc[w] \notin {"idle", "over"}

-----------------------------------------------------------------------------
Init ==
    /\ mode \in Modes
    /\ phase = "boot"
    /\ wpc = [w \in Workers |-> IF w \in Participants(mode) THEN "ready" ELSE "idle"]
    /\ outcome = [w \in Workers |-> "none"]
    /\ child = [w \in Workers |-> NoChild]
    /\ attempt = 0 /\ retries = 0 /\ activeWorkers = 0 /\ pids = {}
    /\ cancelled = FALSE /\ raceCancelled = FALSE /\ stopFile = "none"
    /\ keepFile = "none" /\ keepCall = "none" /\ watchSent = FALSE /\ changed = FALSE
    /\ keepWatch \in {b \in BOOLEAN : mode = "manual" => b}
    /\ ended = "none" /\ status = "Starting" /\ noticed = FALSE /\ notices = 0

-----------------------------------------------------------------------------
(* start_run: the first child is spawned before the task exists            *)

SpawnFirst ==
    /\ phase = "boot"
    /\ phase' = "race"
    /\ child' = [child EXCEPT ![First] = Spawned]
    /\ pids' = {First}
    /\ activeWorkers' = Cardinality(Participants(mode))
    /\ UNCHANGED <<given, report, wpc, outcome, attempt, retries, raceCancelled, changed, ended>>

\* `failed` is written, unless a `?` on the log, the status or the pid comes first.
SpawnFirstFails ==
    /\ phase = "boot" /\ Faults
    /\ phase' = "done"
    /\ status' \in {"Failed", status}
    /\ UNCHANGED <<given, tries, wpc, outcome, activeWorkers, raceCancelled, changed, ended>>
    /\ UNCHANGED <<noticed, notices>>

-----------------------------------------------------------------------------
(* How a worker leaves: race_worker + the drain loop of race_phase, or the *)
(* return of keep_alive_phase. A finished future is drained in the same    *)
(* poll, so the outcome is recorded atomically.                            *)

\* WorkerContext::worker_outcome: only the lease's token makes a stop a stop.
StopOutcome == IF cancelled THEN "stopped" ELSE "superseded"

\* w's future is ready with outcome o: the drain loop counts it and, for a
\* success, cancels the race token.
Leave(w, o) ==
    /\ outcome' = [outcome EXCEPT ![w] = o]
    /\ wpc' = [wpc EXCEPT ![w] = "over"]
    /\ activeWorkers' = IF activeWorkers = 0 THEN 0 ELSE activeWorkers - 1
    /\ raceCancelled' = (raceCancelled \/ o = "succeeded")
    /\ UNCHANGED <<phase, ended>>

\* Mutant: a superseded worker is already counted out when it starts to yield.
YieldCountedTwice(w) ==
    /\ outcome' = [outcome EXCEPT ![w] = "superseded"]
    /\ wpc' = [wpc EXCEPT ![w] = "yielding"]
    /\ activeWorkers' = IF activeWorkers = 0 THEN 0 ELSE activeWorkers - 1
    /\ UNCHANGED <<raceCancelled, phase, ended>>

\* A superseded worker first writes its farewell line (an await of its own).
Yield(w) ==
    /\ outcome' = [outcome EXCEPT ![w] = "superseded"]
    /\ wpc' = [wpc EXCEPT ![w] = "yielding"]
    /\ UNCHANGED <<activeWorkers, raceCancelled, phase, ended>>

\* The keep-alive loop returns: the run is over.
EndKeepAlive(result) ==
    /\ ended' = result
    /\ phase' = "closing"
    /\ wpc' = [wpc EXCEPT ![First] = "over"]
    /\ UNCHANGED <<outcome, activeWorkers, raceCancelled>>

Stop(w) ==
    \/ phase = "keepAlive" /\ EndKeepAlive("Stopped")
    \/ phase = "race" /\ StopOutcome = "stopped" /\ Leave(w, "stopped")
    \/ phase = "race" /\ StopOutcome = "superseded" /\ Yield(w)

Fail(w) ==
    \/ phase = "keepAlive" /\ EndKeepAlive("Failed")
    \/ phase = "race" /\ Leave(w, "failed")

Move(w, point) ==
    /\ wpc' = [wpc EXCEPT ![w] = point]
    /\ UNCHANGED <<outcome, activeWorkers, raceCancelled, phase, ended>>

Yielded(w) ==
    /\ wpc[w] = "yielding"
    /\ Leave(w, "superseded")
    /\ UNCHANGED <<given, report, tries, changed>>

-----------------------------------------------------------------------------
(* The top of the attempt loops: check_interrupts, the attempt number and  *)
(* the spawn, with no await in between.                                    *)

\* FuturesUnordered polls its futures first in the order they were pushed
\* (external: futures crate), so the seeded worker goes first.
MayStart(w) == w = First \/ phase # "race" \/ wpc[First] # "ready" \/ attempt > 0

Interrupted(w) ==
    /\ phase \in {"race", "keepAlive"}
    /\ wpc[w] = "ready" /\ MayStart(w)
    /\ InterruptSeen
    /\ Stop(w)
    /\ child' = [child EXCEPT ![w] = NoChild]   \* an unused seed is killed on drop
    /\ UNCHANGED <<given, report, attempt, retries, pids, changed>>

Starts(w) ==
    /\ phase \in {"race", "keepAlive"}
    /\ wpc[w] = "ready" /\ MayStart(w)
    /\ ~InterruptSeen

\* reserve_attempt in the race, bump_attempt (no budget) in keep-alive
BeginAttempt(w) ==
    /\ Starts(w)
    /\ phase = "race" => HasRemainingAttempts(attempt)
    /\ attempt < AttemptBound
    /\ attempt' = attempt + 1
    /\ \/ /\ child' = [child EXCEPT ![w] = IF @ = NoChild THEN Spawned ELSE @]
          /\ pids' = pids \cup {w}
          /\ Move(w, "announce")
       \/ /\ Faults /\ child[w] = NoChild       \* the shell cannot be spawned
          /\ Fail(w)
          /\ UNCHANGED <<child, pids>>
    /\ UNCHANGED <<given, report, retries, changed>>


Exhausted(w) ==
    /\ Starts(w) /\ phase = "race"
    /\ ~HasRemainingAttempts(attempt)
    /\ Leave(w, "exhausted")
    /\ child' = [child EXCEPT ![w] = NoChild]
    /\ UNCHANGED <<given, report, attempt, retries, pids, changed>>

-----------------------------------------------------------------------------
(* execute_attempt and run_child                                           *)

\* The "attempt n" line is written and flushed, then `running` is published.
Announce(w) ==
    /\ wpc[w] = "announce"
    /\ status' = "Running"
    /\ Move(w, "running")
    /\ UNCHANGED <<given, tries, changed, noticed, notices>>

\* The wait branch of the select!: the group has exited, the drain deadline starts.
ObserveExit(w) ==
    /\ wpc[w] = "running" /\ child[w].proc = "exited"
    /\ Move(w, "draining")
    /\ UNCHANGED <<given, report, tries, changed>>

\* Both pipes reached end of file before the exit was seen: the loop ends and
\* the remaining child.wait() polls neither the token nor the request file.
OutputEnds(w) ==
    /\ wpc[w] = "running" /\ child[w].pipes = "closed"
    /\ Move(w, "reaping")
    /\ UNCHANGED <<given, report, tries, changed>>


\* Cancellation or a matching stop request: kill the group, forget its pid.
StopChild(w) ==
    /\ wpc[w] \in {"running", "draining"}
    /\ InterruptSeen
    /\ child' = [child EXCEPT ![w] = NoChild]
    /\ pids' = pids \ {w}
    /\ Stop(w)
    /\ UNCHANGED <<given, report, attempt, retries, changed>>

\* Mutant: set_child_pid(None) is forgotten after a normal exit.
AttemptOverKeepsPid(w) ==
    /\ wpc[w] \in {"draining", "reaping"} /\ child[w].proc = "exited"
    /\ child' = [child EXCEPT ![w] = NoChild]
    /\ UNCHANGED pids

\* run_child returned a result: the group is gone and its pid is cleared.
AttemptOver(w) ==
    /\ wpc[w] \in {"draining", "reaping"} /\ child[w].proc = "exited"
    /\ child' = [child EXCEPT ![w] = NoChild]
    /\ pids' = pids \ {w}

AttemptSucceeds(w) ==
    /\ AttemptOver(w)
    /\ child[w].verdict = "good"
    /\ \/ phase = "race" /\ Leave(w, "succeeded")
       \/ phase = "keepAlive" /\ Move(w, "accept")
    /\ UNCHANGED <<given, report, attempt, retries, changed>>

\* No exit code, or a retryable result with the budget used up.
AttemptFails(w) ==
    /\ AttemptOver(w)
    /\ child[w].verdict = "nocode" \/ (child[w].verdict = "bad" /\ ~HasRemainingAttempts(attempt))
    /\ Fail(w)
    /\ UNCHANGED <<given, report, attempt, retries, changed>>

\* A non-zero exit or the high-demand marker, with budget left.
AttemptRetries(w) ==
    /\ AttemptOver(w)
    /\ child[w].verdict = "bad" /\ HasRemainingAttempts(attempt)
    /\ retries' = retries + 1
    /\ Move(w, "waiting")
    /\ UNCHANGED <<given, report, attempt, changed>>

\* wait_for_retry
RetryDelayOver(w) ==
    /\ wpc[w] = "waiting"
    /\ Move(w, "ready")
    /\ UNCHANGED <<given, report, tries, changed>>

StopWaiting(w) ==
    /\ wpc[w] = "waiting"
    /\ InterruptSeen
    /\ Stop(w)
    /\ UNCHANGED <<given, report, tries, changed>>

\* A log, pipe, status or request-file error at a worker's await point. The
\* child is killed; some of these paths forget to clear its pid.
FaultPoints == {"ready", "announce", "running", "draining", "reaping", "waiting",
                "accept", "kaAnnounce", "kaNotify", "kaWait"}

WorkerFault(w) ==
    /\ Faults
    /\ phase \in {"race", "keepAlive"}
    /\ wpc[w] \in FaultPoints /\ MayStart(w)
    /\ wpc[w] = "ready" => ~TokenCancelled     \* a cancelled worker reads no request file
    /\ child' = [child EXCEPT ![w] = NoChild]
    /\ pids' \in {pids, pids \ {w}}
    /\ Fail(w)
    /\ UNCHANGED <<given, report, attempt, retries, changed>>

-----------------------------------------------------------------------------
(* race_phase returns once every worker is drained; finish_or_keep_alive   *)

Someone(o) == \E w \in Workers : outcome[w] = o

\* Mutant: the first success returns without draining the other futures.
RaceDrainedEarly == phase = "race" /\ (Someone("succeeded") \/ \A w \in Workers : ~Racing(w))

RaceDrained == phase = "race" /\ \A w \in Workers : ~Racing(w)

\* Mutant: failed.or(exhausted) is not looked at.
RaceVerdictIgnoresFailure == IF Someone("succeeded") THEN "Success" ELSE "Stopped"

\* The verdict of the race: success, then stop, then failure; with nothing but
\* superseded workers the run counts as stopped.
RaceVerdict ==
    IF Someone("succeeded") THEN "Success"
    ELSE IF Someone("stopped") THEN "Stopped"
    ELSE IF Someone("failed") \/ Someone("exhausted") THEN "Failed"
    ELSE "Stopped"

RaceLost ==
    /\ RaceDrained /\ RaceVerdict # "Success"
    /\ ended' = RaceVerdict
    /\ phase' = "closing"
    /\ UNCHANGED <<given, report, tries, wpc, outcome, activeWorkers, raceCancelled, changed>>

\* finish_or_keep_alive: reads the switch once; keep_alive_phase starts with a
\* pending success for the first worker.
RaceWon ==
    /\ RaceDrained /\ RaceVerdict = "Success"
    /\ \/ /\ KeepAliveEnabled
          /\ phase' = "keepAlive"
          /\ wpc' = [wpc EXCEPT ![First] = "accept"]
          /\ activeWorkers' = 1
          /\ UNCHANGED ended
       \/ /\ ~KeepAliveEnabled
          /\ phase' = "closing"
          /\ ended' = "Success"
          /\ UNCHANGED <<wpc, activeWorkers>>
       \/ /\ Faults                              \* the request file cannot be read
          /\ phase' = "closing"
          /\ ended' = "Failed"
          /\ UNCHANGED <<wpc, activeWorkers>>
    /\ UNCHANGED <<given, report, tries, outcome, raceCancelled, changed>>

-----------------------------------------------------------------------------
(* keep_alive_phase and wait_for_keep_alive                                *)

\* A success inside the phase: finish, or announce the next cycle.
KeepAliveAccept ==
    /\ wpc[First] = "accept"
    /\ \/ ~KeepAliveEnabled /\ EndKeepAlive("Success")
       \/ KeepAliveEnabled /\ Move(First, "kaAnnounce")
    /\ UNCHANGED <<given, report, tries, changed>>

\* Mutant: a manual keep-alive is notified like the success of a retry run.
KeepAliveAnnounceManual ==
    /\ wpc[First] = "kaAnnounce"
    /\ status' = "Running"
    /\ noticed' = TRUE
    /\ notices' = IF ~noticed THEN notices + 1 ELSE notices
    /\ Move(First, "kaNotify")
    /\ UNCHANGED <<given, tries, changed>>

\* After the log line is flushed: publish, and hand out the first success once.
KeepAliveAnnounce ==
    /\ wpc[First] = "kaAnnounce"
    /\ status' = "Running"
    /\ noticed' = (noticed \/ mode = "retry")
    /\ notices' = IF mode = "retry" /\ ~noticed THEN notices + 1 ELSE notices
    /\ Move(First, "kaNotify")
    /\ UNCHANGED <<given, tries, changed>>

\* The channels answered (or timed out): wait_for_keep_alive clones the
\* lease's receiver, which has seen no value sent since the run started.
KeepAliveNotified ==
    /\ wpc[First] = "kaNotify"
    /\ \/ ~KeepAliveEnabled /\ EndKeepAlive("keepAliveOff") /\ UNCHANGED changed
       \/ KeepAliveEnabled /\ Move(First, "kaWait") /\ changed' = watchSent
    /\ UNCHANGED <<given, report, tries>>

\* Mutant: any change of the channel counts as a switch-off.
KeepAliveSwitchedBlindly ==
    /\ wpc[First] = "kaWait" /\ changed
    /\ changed' = FALSE
    /\ EndKeepAlive("keepAliveOff")
    /\ UNCHANGED <<given, report, tries>>

\* keep_alive.changed(): acts on the channel's value alone
KeepAliveSwitched ==
    /\ wpc[First] = "kaWait" /\ changed
    /\ changed' = FALSE
    /\ \/ ~keepWatch /\ EndKeepAlive("keepAliveOff")
       \/ keepWatch /\ UNCHANGED race
    /\ UNCHANGED <<given, report, tries>>

\* Mutant: the end of the interval is not checked against the switch.
KeepAliveDelayOverUnchecked ==
    /\ wpc[First] = "kaWait"
    /\ Move(First, "ready")
    /\ UNCHANGED <<given, report, tries, changed>>

\* The interval is over, or the 250 ms poll sees the switch turned off.
KeepAliveDelayOver ==
    /\ wpc[First] = "kaWait"
    /\ \/ KeepAliveEnabled /\ Move(First, "ready")
       \/ ~KeepAliveEnabled /\ EndKeepAlive("keepAliveOff")
    /\ UNCHANGED <<given, report, tries, changed>>

StopKeepAliveWait ==
    /\ wpc[First] = "kaWait"
    /\ cancelled \/ stopFile = "named"
    /\ EndKeepAlive("Stopped")
    /\ UNCHANGED <<given, report, tries, changed>>

-----------------------------------------------------------------------------
(* The tail of run_retry_loop                                              *)

TerminalOf(result) == IF result = "keepAliveOff" THEN "Success" ELSE result

\* pids and workers are cleared, the last log lines are written and flushed,
\* then the terminal status.
WriteTerminal ==
    /\ phase = "closing"
    /\ status' = TerminalOf(ended)
    /\ phase' = "notify"
    /\ pids' = {} /\ activeWorkers' = 0
    /\ UNCHANGED <<given, wpc, outcome, child, attempt, retries, raceCancelled, changed, ended>>
    /\ UNCHANGED <<noticed, notices>>

\* A `?` on the log or on the status file: the lease is dropped without it.
TerminalFault ==
    /\ phase = "closing" /\ Faults
    /\ phase' = "done"
    /\ pids' = {} /\ activeWorkers' = 0
    /\ UNCHANGED <<given, report, wpc, outcome, child, attempt, retries, raceCancelled, changed, ended>>

\* Mutant: every end of a retry run is notified as its success.
NotifyEveryEnd ==
    /\ phase = "notify"
    /\ phase' = "done"
    /\ \/ mode = "retry" /\ ~noticed /\ noticed' = TRUE /\ notices' = notices + 1
       \/ (mode = "manual" \/ noticed) /\ UNCHANGED <<noticed, notices>>
    /\ UNCHANGED <<given, tries, wpc, outcome, activeWorkers, raceCancelled, changed, ended, status>>

\* Only a retry run that ended in success makes an event the channels send.
Notify ==
    /\ phase = "notify"
    /\ phase' = "done"
    /\ \/ /\ status = "Success" /\ mode = "retry" /\ ~noticed
          /\ noticed' = TRUE
          /\ notices' = notices + 1
       \/ /\ ~(status = "Success" /\ mode = "retry" /\ ~noticed)
          /\ UNCHANGED <<noticed, notices>>
    /\ UNCHANGED <<given, tries, wpc, outcome, activeWorkers, raceCancelled, changed, ended, status>>

-----------------------------------------------------------------------------
(* The environment: children, the owner's window, other processes          *)

\* The lease is held: the run can still be addressed.
Alive == phase # "done"

ChildExits(w) ==
    /\ child[w].proc = "alive"
    /\ \E v \in {"good", "bad", "nocode"}, p \in {"open", "closed"} :
          /\ p = "open" => child[w].pipes = "open"
          /\ child' = [child EXCEPT ![w] = [proc |-> "exited", verdict |-> v, pipes |-> p]]
    /\ UNCHANGED <<given, report, race, attempt, retries, pids, changed>>

\* e.g. the shell exits while a detached descendant of the group lives on
ChildDetaches(w) ==
    /\ MayDetach
    /\ child[w].proc = "alive" /\ child[w].pipes = "open"
    /\ child' = [child EXCEPT ![w].pipes = "closed"]
    /\ UNCHANGED <<given, report, race, attempt, retries, pids, changed>>

LocalStop ==
    /\ Alive /\ ~cancelled
    /\ cancelled' = TRUE
    /\ UNCHANGED <<report, race, tries, mode, stopFile, switch, changed>>

RemoteStop ==
    /\ Alive /\ stopFile # "named"
    /\ stopFile' = "named"
    /\ UNCHANGED <<report, race, tries, mode, cancelled, switch, changed>>

\* A request for another run, e.g. from a window that shows an older one, takes the slot.
StopOverwritten ==
    /\ Alive /\ stopFile = "named"
    /\ stopFile' = "overwritten"
    /\ UNCHANGED <<report, race, tries, mode, cancelled, switch, changed>>

OnOff(b) == IF b THEN "on" ELSE "off"

\* RunManager::set_keep_alive in the owner, under its mutex: the file first ...
LocalKeepAlive(b) ==
    /\ Alive /\ "local" \in Controllers /\ keepCall = "none"
    /\ keepFile' = OnOff(b)
    /\ keepCall' = OnOff(b)
    /\ UNCHANGED <<report, race, tries, mode, cancelled, stopFile, keepWatch, watchSent, changed>>

\* ... then the channel, while the run goes on in another thread.
LocalKeepAliveSent ==
    /\ keepCall # "none"
    /\ keepWatch' = (keepCall = "on")
    /\ keepCall' = "none"
    /\ watchSent' = TRUE /\ changed' = TRUE
    /\ UNCHANGED <<report, race, tries, mode, cancelled, stopFile, keepFile>>

\* ... and in any other process: the file alone
RemoteKeepAlive(b) ==
    /\ Alive /\ "remote" \in Controllers
    /\ keepFile' = OnOff(b)
    /\ UNCHANGED <<report, race, tries, mode, cancelled, stopFile, keepCall, keepWatch, watchSent>>
    /\ UNCHANGED changed

Terminated == phase = "done" /\ UNCHANGED vars

-----------------------------------------------------------------------------
WorkerStep(w) ==
    \/ Yielded(w) \/ Interrupted(w) \/ BeginAttempt(w) \/ Exhausted(w)
    \/ Announce(w) \/ ObserveExit(w) \/ OutputEnds(w) \/ StopChild(w)
    \/ AttemptSucceeds(w) \/ AttemptFails(w) \/ AttemptRetries(w)
    \/ RetryDelayOver(w) \/ StopWaiting(w)

KeepAliveStep ==
    \/ KeepAliveAccept \/ KeepAliveAnnounce \/ KeepAliveNotified
    \/ KeepAliveSwitched \/ KeepAliveDelayOver \/ StopKeepAliveWait

RunStep ==
    \/ SpawnFirst \/ RaceLost \/ RaceWon \/ KeepAliveStep \/ WriteTerminal \/ Notify

FaultStep == SpawnFirstFails \/ TerminalFault \/ \E w \in Workers : WorkerFault(w)

Environment ==
    \/ LocalStop \/ RemoteStop \/ StopOverwritten
    \/ (\E b \in BOOLEAN : LocalKeepAlive(b) \/ RemoteKeepAlive(b)) \/ LocalKeepAliveSent
    \/ \E w \in Workers : ChildExits(w) \/ ChildDetaches(w)

Next ==
    \/ RunStep \/ FaultStep \/ Environment \/ Terminated
    \/ \E w \in Workers : WorkerStep(w)

Spec == Init /\ [][Next]_vars

\* tokio keeps polling the run task: every enabled step of the engine is taken
\* in the end. select! polls its ready branches in random order, so in the wait
\* for keep-alive a stop is not starved by a switch that somebody keeps flipping.
\* Nothing is assumed of children, users or faults.
EngineFairness ==
    /\ WF_vars(RunStep)
    /\ WF_vars(StopKeepAliveWait)
    /\ \A w \in Workers : WF_vars(WorkerStep(w))

FairSpec == Spec /\ EngineFairness

-----------------------------------------------------------------------------
(* Properties                                                              *)

\* Every variable keeps its type.
TypeOK ==
    /\ mode \in Modes
    /\ phase \in Phases
    /\ wpc \in [Workers -> WorkerPoints]
    /\ outcome \in [Workers -> WorkerOutcomes]
    /\ child \in [Workers -> Children]
    /\ attempt \in 0 .. AttemptBound
    /\ retries \in Nat
    /\ activeWorkers \in 0 .. Cardinality(Workers)
    /\ pids \subseteq Workers
    /\ cancelled \in BOOLEAN /\ raceCancelled \in BOOLEAN
    /\ stopFile \in {"none", "named", "overwritten"}
    /\ keepFile \in {"none", "on", "off"} /\ keepCall \in {"none", "on", "off"}
    /\ keepWatch \in BOOLEAN /\ watchSent \in BOOLEAN /\ changed \in BOOLEAN
    /\ ended \in {"none", "Success", "keepAliveOff", "Failed", "Stopped"}
    /\ status \in {"Starting", "Running"} \cup Terminal
    /\ noticed \in BOOLEAN
    /\ notices \in Nat

\* The result of a run is settled only when no process it started is left: the
\* race is drained, never abandoned (README: a success ends the other threads).
NoOrphanChild ==
    phase \in {"closing", "notify", "done"} => \A w \in Workers : child[w] = NoChild

\* max_tries bounds what all workers start together, and no failed attempt is
\* promised a retry once the budget is gone (README: maxTries accumulates over
\* all threads). Keep-alive cycles are outside the budget.
BudgetShared ==
    MaxTries # 0 =>
        /\ phase = "race" => attempt <= MaxTries
        /\ retries < MaxTries

\* child_pids hides no process, and while the run lasts it lists no process of a
\* worker that is still at work or has won.
PidsCoverChildren ==
    /\ \A w \in Workers : child[w] # NoChild => w \in pids
    /\ phase \in {"race", "keepAlive"} =>
          \A w \in pids : child[w] = NoChild => outcome[w] \notin {"none", "succeeded"}

\* active_workers is the number of futures still undrained, and one in keep-alive.
ActiveWorkersExact ==
    /\ phase = "race" => activeWorkers = Cardinality({w \in Workers : Racing(w)})
    /\ phase = "keepAlive" => activeWorkers = 1

\* A run is reported as stopped only if somebody asked for it: the fall-through
\* at the end of race_phase is never reached without a request.
StoppedWasAsked == status = "Stopped" => cancelled \/ stopFile # "none"

\* One success event per retry run, none for manual keep-alive, and only after a
\* worker has really won (README: at most one notification per run).
SuccessNoticeOnce ==
    /\ notices <= 1
    /\ notices = 1 => mode = "retry" /\ Someone("succeeded")
    /\ phase = "done" /\ status = "Success" /\ mode = "retry" => notices = 1

\* The engine, seen from outside, is a RunLifecycle: no worker publishes `running`
\* after the terminal status, nothing is notified twice or for a run that did not
\* succeed, and the lease goes last.
Lifecycle == INSTANCE RunLifecycle WITH held <- phase # "done", notifies <- mode = "retry"

ImplementsLifecycle == Lifecycle!Spec

\* A switch-on that has been answered is not overruled by an older switch-off: the run ends
\* as "keep-alive turned off" only if the request file does not say on, or says so since a
\* call that has not reached the channel yet.
KeepAliveLastRequestWins ==
    [][ended = "none" /\ ended' = "keepAliveOff" => keepFile # "on" \/ keepCall = "on"]_vars

\* A stop ends the run from every await point, unless its request is overwritten before the
\* poll sees it. Premise: no group outlives its pipes for ever, as child.wait() after the
\* end of the output polls nothing; commands that keep their pipes may run for ever.
StopAsked == cancelled \/ stopFile = "named"
Hangs(w) == wpc[w] = "reaping" /\ child[w].proc = "alive"
NoneHangs == \A w \in Workers : []<>~Hangs(w)


\* If every command the engine starts ends by itself, a run with a budget comes to
\* an end or goes on as keep-alive: no schedule of the workers retries for ever.
CommandsEnd == \A w \in Workers : WF_vars(ChildExits(w))


\* Turning keep-alive off during its wait ends the run (set_run_keep_alive
\* promises: at once), unless it is turned on again.
KeepAliveOffEndsWait ==
    wpc[First] = "kaWait" /\ keepFile = "off" ~> phase = "done" \/ keepFile = "on"
=============================================================================
