---------------------------- MODULE RunLifecycle ----------------------------
(***************************************************************************)
(* What an accepted run promises to everybody who watches it from outside: *)
(* status.json of the run, the lease, and the success notification. It     *)
(* says nothing of workers, children, budgets or keep-alive; RetryEngine   *)
(* implements it.                                                          *)
(***************************************************************************)
EXTENDS Naturals

VARIABLES
    held,     \* the lease is held
    status,   \* the run's status
    notices,  \* success notifications handed out
    notifies  \* a run of the mode that notifies (retry, not manual keep-alive)

run == <<held, status, notices, notifies>>

AtWork == status \in {"Starting", "Running"}
Terminal == {"Success", "Failed", "Stopped"}

Init ==
    /\ held = TRUE /\ status = "Starting" /\ notices = 0
    /\ notifies \in BOOLEAN

\* Progress: a success that goes on as keep-alive may be notified on the way.
Work ==
    /\ held /\ AtWork
    /\ status' = "Running"
    /\ \/ UNCHANGED notices
       \/ notifies /\ notices = 0 /\ notices' = 1
    /\ UNCHANGED <<held, notifies>>

\* The one terminal status, written while the lease is held.
Finish(s) ==
    /\ held /\ AtWork
    /\ status' = s
    /\ UNCHANGED <<held, notices, notifies>>

\* The lease goes after the terminal status; a success is notified unless it was.
Release ==
    /\ held /\ status \in Terminal
    /\ held' = FALSE
    /\ notices' = IF status = "Success" /\ notifies THEN 1 ELSE notices
    /\ UNCHANGED <<status, notifies>>

\* The first child cannot be started.
FailToStart ==
    /\ held /\ status = "Starting"
    /\ held' = FALSE /\ status' = "Failed"
    /\ UNCHANGED <<notices, notifies>>

\* An error on the way out: the lease goes without a terminal status.
Lost ==
    /\ held /\ AtWork
    /\ held' = FALSE
    /\ UNCHANGED <<status, notices, notifies>>

Next == Work \/ (\E s \in Terminal : Finish(s)) \/ Release \/ FailToStart \/ Lost

Spec == Init /\ [][Next]_run
=============================================================================
