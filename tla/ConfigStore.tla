------------------------------ MODULE ConfigStore ------------------------------
(***************************************************************************)
(* launcher-config.json and its backup: the import of a legacy file, the   *)
(* load that migrates V1 in memory, and the save that keeps the V1 file    *)
(* before the first V2 file replaces it, by several windows at once, each  *)
(* with several saves under way, any of which may fail or die half-way.    *)
(* Source: config_manager.rs, app_storage.rs, main.rs, useTauri.ts.        *)
(*                                                                         *)
(* The content of a configuration is a value; the migration keeps it.  A   *)
(* file is replaced in one step (atomic_write_bytes).                      *)
(***************************************************************************)
EXTENDS Naturals

CONSTANTS
    Windows,    \* GUI processes
    Saves,      \* save commands under way at a time
    Values,     \* contents that AppConfig::validate accepts
    Default,    \* the content of AppConfig::default, without a command and so not valid
    Bad         \* a content that can be read and is not valid

ASSUME ContentsAssumption == Default \notin Values /\ Bad \notin Values

Missing == [is |-> "missing"]
Broken == [is |-> "broken"]                     \* no JSON, or no usable version
Newer == [is |-> "newer"]                       \* a version above CURRENT_CONFIG_VERSION
V1(v) == [is |-> "v1", value |-> v]
V2(v) == [is |-> "v2", value |-> v]

Docs == {Missing, Broken, Newer} \cup [is : {"v1", "v2"}, value : Values \cup {Bad}]
IsV1(doc) == doc.is = "v1"

VARIABLES
    file,      \* launcher-config.json
    backup,    \* launcher-config.v1.backup.json
    legacy,    \* the legacy file a process found and imports: each has directories of its own
    window,    \* where the window of a process stands
    form,      \* the configuration its window shows
    pending,   \* the window's autosave timer runs
    save,      \* the save commands: window, value, kind, and where they stand
    original,  \* history: the two files at the start
    imported,  \* history: the V1 configurations that imports have put into the file
    commanded  \* history: a button that saves has replaced the file

history == <<original, imported, commanded>>
vars == <<file, backup, legacy, window, form, pending, save, history>>

NoSave == [at |-> "idle"]
At(s, points) == save[s].at \in points
Move(s, point) == save' = [save EXCEPT ![s] = [@ EXCEPT !.at = point]]
End(s) == save' = [save EXCEPT ![s] = NoSave]

-----------------------------------------------------------------------------
(* A process starts and loads                                              *)

\* migrate_legacy_config looks for a configuration, and without one for a legacy file under
\* the directory the process was started in, then under that of its program: what one
\* process finds, another need not.
Open(w, found) ==
    /\ window[w] = "closed"
    /\ file # Missing => found = Missing
    /\ window' = [window EXCEPT ![w] = IF found = Missing THEN "loading" ELSE "importing"]
    /\ legacy' = [legacy EXCEPT ![w] = found]
    /\ form' = [form EXCEPT ![w] = Default]
    /\ UNCHANGED <<file, backup, pending, save, history>>

\* The legacy file is copied as it is, whatever it holds, and whatever has been saved since
\* the look.  A failure is printed; the program goes on without the import.
Import(w) ==
    /\ window[w] = "importing"
    /\ window' = [window EXCEPT ![w] = "loading"]
    /\ \/ file' = legacy[w] /\ imported' = imported \cup {doc \in {legacy[w]} : IsV1(doc)}
       \/ UNCHANGED <<file, imported>>
    /\ legacy' = [legacy EXCEPT ![w] = Missing]
    /\ UNCHANGED <<backup, form, pending, save, original, commanded>>

\* load_persisted_config and the validation of what it returns.
Loadable(doc) == doc.is \in {"v1", "v2"} /\ doc.value \in Values

\* get_config: the default without a file, V1 migrated in memory, or an error (also for a
\* good file, when it cannot be read or its directory is away), after which the window
\* goes on showing its default and never saves by itself.
Load(w) ==
    /\ window[w] = "loading"
    /\ \/ /\ file = Missing
          /\ window' = [window EXCEPT ![w] = "loaded"]
          /\ form' = [form EXCEPT ![w] = Default]
       \/ /\ Loadable(file)
          /\ window' = [window EXCEPT ![w] = "loaded"]
          /\ form' = [form EXCEPT ![w] = file.value]
       \/ /\ file # Missing
          /\ window' = [window EXCEPT ![w] = "refused"]
          /\ UNCHANGED form
    /\ pending' = [pending EXCEPT ![w] = TRUE]
    /\ UNCHANGED <<file, backup, legacy, save, history>>

-----------------------------------------------------------------------------
(* The user edits, and the window saves                                    *)

Edit(w, v) ==
    /\ window[w] \in {"loading", "loaded", "refused"}
    /\ form' = [form EXCEPT ![w] = v]
    /\ pending' = [pending EXCEPT ![w] = TRUE]
    /\ UNCHANGED <<file, backup, legacy, window, save, history>>

\* save_config validates, and goes on in a blocking task of its own.
StartSave(w, s, kind) ==
    /\ form[w] \in Values
    /\ save[s] = NoSave
    /\ save' = [save EXCEPT ![s] =
           [at |-> "looking", window |-> w, value |-> form[w], kind |-> kind, held |-> Missing]]
    /\ UNCHANGED <<file, backup, legacy, window, form, history>>

\* Mutant of AutoSave: not only after a load that succeeded.
AutoSaveUnloaded(w, s) ==
    /\ window[w] \in {"loading", "loaded", "refused"} /\ pending[w]
    /\ pending' = [pending EXCEPT ![w] = FALSE]
    /\ StartSave(w, s, "autosave")

\* 500 ms after the last edit; an earlier save may still be under way.
AutoSave(w, s) ==
    /\ window[w] = "loaded" /\ pending[w]
    /\ pending' = [pending EXCEPT ![w] = FALSE]
    /\ StartSave(w, s, "autosave")

\* start_retry, start_manual_keep_alive, install_task and set_proxy save what the window
\* shows, also before it has loaded and after a load that failed.
Command(w, s) ==
    /\ window[w] \in {"loading", "loaded", "refused"}
    /\ StartSave(w, s, "command")
    /\ UNCHANGED pending

-----------------------------------------------------------------------------
(* save_config: backup_v1_config_if_needed, then the replacement           *)

\* Mutant of SaveLooks: an existing backup is not looked for.
SaveLooksAtFile(s) ==
    /\ At(s, {"looking"})
    /\ Move(s, IF file = Missing THEN "replacing" ELSE "reading")
    /\ UNCHANGED <<file, backup, legacy, window, form, pending, history>>

\* A backup that exists is enough, and without a file there is nothing to keep.
SaveLooks(s) ==
    /\ At(s, {"looking"})
    /\ Move(s, IF backup # Missing \/ file = Missing THEN "replacing" ELSE "reading")
    /\ UNCHANGED <<file, backup, legacy, window, form, pending, history>>

\* A file that cannot be parsed ends the save.
SaveReads(s) ==
    /\ At(s, {"reading"})
    /\ save' = [save EXCEPT ![s] =
           IF file = Broken THEN NoSave
           ELSE IF IsV1(file) THEN [@ EXCEPT !.at = "keeping", !.held = file]
           ELSE [@ EXCEPT !.at = "replacing"]]
    /\ UNCHANGED <<file, backup, legacy, window, form, pending, history>>

\* Mutant of SaveKeeps: the backup is a second read, not the bytes that were looked at.
SaveKeepsCurrent(s) ==
    /\ At(s, {"keeping"})
    /\ backup' = file
    /\ Move(s, "replacing")
    /\ UNCHANGED <<file, legacy, window, form, pending, history>>

SaveKeeps(s) ==
    /\ At(s, {"keeping"})
    /\ backup' = save[s].held
    /\ Move(s, "replacing")
    /\ UNCHANGED <<file, legacy, window, form, pending, history>>

SaveReplaces(s) ==
    /\ At(s, {"replacing"})
    /\ file' = V2(save[s].value)
    /\ commanded' = (commanded \/ save[s].kind = "command")
    /\ End(s)
    /\ UNCHANGED <<backup, legacy, window, form, pending, original, imported>>

\* The validation, a read or a write fails; the files keep their old content.
SaveFails(s) ==
    /\ save[s] # NoSave
    /\ End(s)
    /\ UNCHANGED <<file, backup, legacy, window, form, pending, history>>

\* A process ends or dies, and its saves with it, wherever they are.
Close(w) ==
    /\ window[w] # "closed"
    /\ window' = [window EXCEPT ![w] = "closed"]
    /\ form' = [form EXCEPT ![w] = Default]
    /\ pending' = [pending EXCEPT ![w] = FALSE]
    /\ legacy' = [legacy EXCEPT ![w] = Missing]
    /\ save' = [s \in Saves |->
           IF save[s] # NoSave /\ save[s].window = w THEN NoSave ELSE save[s]]
    /\ UNCHANGED <<file, backup, history>>

-----------------------------------------------------------------------------
\* Any configuration an installation may have, and an earlier backup.
Init ==
    /\ file \in Docs
    /\ backup \in {Missing} \cup {V1(v) : v \in Values}
    /\ legacy = [w \in Windows |-> Missing]
    /\ window = [w \in Windows |-> "closed"]
    /\ form = [w \in Windows |-> Default]
    /\ pending = [w \in Windows |-> FALSE]
    /\ save = [s \in Saves |-> NoSave]
    /\ original = [file |-> file, backup |-> backup]
    /\ imported = {} /\ commanded = FALSE

WindowStep(w) ==
    \/ \E found \in Docs : Open(w, found)
    \/ Import(w) \/ Load(w) \/ Close(w)
    \/ \E v \in Values : Edit(w, v)
    \/ \E s \in Saves : AutoSave(w, s) \/ Command(w, s)

SaveStep(s) == SaveLooks(s) \/ SaveReads(s) \/ SaveKeeps(s) \/ SaveReplaces(s) \/ SaveFails(s)

Next == (\E w \in Windows : WindowStep(w)) \/ (\E s \in Saves : SaveStep(s))

Spec == Init /\ [][Next]_vars

-----------------------------------------------------------------------------
SaveRecord ==
    [at : {"looking", "reading", "keeping", "replacing"}, window : Windows, value : Values,
     kind : {"autosave", "command"}, held : Docs]

TypeOK ==
    /\ file \in Docs /\ backup \in Docs /\ legacy \in [Windows -> Docs]
    /\ window \in [Windows -> {"closed", "importing", "loading", "loaded", "refused"}]
    /\ form \in [Windows -> Values \cup {Default}]
    /\ pending \in [Windows -> BOOLEAN]
    /\ save \in [Saves -> SaveRecord \cup {NoSave}]
    /\ original \in [file : Docs, backup : Docs]
    /\ imported \subseteq Docs /\ commanded \in BOOLEAN

\* The V1 configuration an installation had is never lost: at every moment, and so after
\* a crash at any moment, it is the file or the backup, whatever saves of whatever
\* windows overlap (backup_v1_config_if_needed before the replacement).
V1Kept ==
    IsV1(original.file) /\ original.backup = Missing =>
        original.file \in {file, backup}

\* A backup is replaced in one case only, where no configuration existed when the first
\* window opened: two windows import different legacy files, and of two saves that found no
\* backup each keeps one of them.  Otherwise it stays, though several saves may have found
\* none and each writes one (backup_v1_config_if_needed, migrate_legacy_config).
BackupReplacedByImportsOnly ==
    [][backup # Missing /\ backup' # backup =>
          original.file = Missing /\ {backup, backup'} \subseteq imported]_vars

\* A configuration that cannot be loaded is not reset behind the user's back: a broken one
\* without a backup never, every other only by a button that saves (a start, the
\* installation of the task, the proxy), never by a start of the program or by autosave
\* (load_config, the isLoaded guard of useTauri.ts).
RefusedKept ==
    /\ original.file = Broken /\ original.backup = Missing => file = Broken
    /\ original.file # Missing /\ ~Loadable(original.file) /\ ~commanded
          => file = original.file
=============================================================================
