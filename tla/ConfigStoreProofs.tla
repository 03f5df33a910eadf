--------------------------- MODULE ConfigStoreProofs ---------------------------
(***************************************************************************)
(* What ConfigStore says of the configuration an installation had, for any *)
(* number of windows, overlapping saves and contents.                      *)
(***************************************************************************)
EXTENDS ConfigStore, TLAPS

LEMMA SaveIsRecord ==
    ASSUME TypeOK, NEW s \in Saves, save[s] # NoSave
    PROVE  save[s] \in SaveRecord
BY DEF TypeOK

-----------------------------------------------------------------------------
(* Types *)

LEMMA TypeInit == Init => TypeOK
<1> SUFFICES ASSUME Init  PROVE TypeOK
  OBVIOUS
<1>1. Missing \in Docs /\ \A v \in Values : V1(v) \in Docs
  BY DEF Docs, V1
<1>2. file \in Docs /\ backup \in Docs /\ legacy \in [Windows -> Docs]
  BY <1>1 DEF Init
<1>3. original \in [file : Docs, backup : Docs]
  BY <1>2 DEF Init
<1> QED  BY <1>2, <1>3 DEF Init, TypeOK

LEMMA TypeWindow ==
    ASSUME TypeOK, NEW w \in Windows, WindowStep(w)
    PROVE  TypeOK'
<1>1. CASE \E found \in Docs : Open(w, found)
  BY <1>1 DEF TypeOK, Open, history
<1>2. CASE Import(w)
  <2>1. Missing \in Docs
    BY DEF Docs
  <2>2. /\ file' \in Docs /\ imported' \subseteq Docs
        /\ legacy' \in [Windows -> Docs]
    BY <1>2, <2>1 DEF TypeOK, Import
  <2> QED  BY <1>2, <2>2 DEF TypeOK, Import
<1>3. CASE Load(w)
  <2>1. form' \in [Windows -> Values \cup {Default}]
    BY <1>3 DEF TypeOK, Load, Loadable
  <2> QED  BY <1>3, <2>1 DEF TypeOK, Load, history
<1>4. CASE Close(w)
  <2>1. legacy' \in [Windows -> Docs]
    BY <1>4 DEF TypeOK, Close, Docs
  <2> QED  BY <1>4, <2>1 DEF TypeOK, Close, history
<1>5. CASE \E v \in Values : Edit(w, v)
  BY <1>5 DEF TypeOK, Edit, history
<1>6. ASSUME NEW s \in Saves, AutoSave(w, s) \/ Command(w, s)
      PROVE  TypeOK'
  <2>1. PICK kind \in {"autosave", "command"} : StartSave(w, s, kind)
    BY <1>6 DEF AutoSave, Command
  <2>2. pending' \in [Windows -> BOOLEAN]
    BY <1>6 DEF TypeOK, AutoSave, Command
  <2>3. [at |-> "looking", window |-> w, value |-> form[w], kind |-> kind, held |-> Missing]
           \in SaveRecord
    BY <2>1 DEF StartSave, SaveRecord, Docs
  <2>4. save' \in [Saves -> SaveRecord \cup {NoSave}]
    BY <2>1, <2>3 DEF TypeOK, StartSave
  <2> QED  BY <2>1, <2>2, <2>4 DEF TypeOK, StartSave, history
<1> QED  BY <1>1, <1>2, <1>3, <1>4, <1>5, <1>6 DEF WindowStep

LEMMA TypeSave ==
    ASSUME TypeOK, NEW s \in Saves, SaveStep(s)
    PROVE  TypeOK'
<1>0. save[s] \in SaveRecord \/ save[s] = NoSave
  BY DEF TypeOK
<1>1. ASSUME NEW p \in SaveRecord \cup {NoSave}, save' = [save EXCEPT ![s] = p]
      PROVE  save' \in [Saves -> SaveRecord \cup {NoSave}]
  BY <1>1 DEF TypeOK
<1>2. ASSUME save[s] \in SaveRecord, NEW point \in {"reading", "keeping", "replacing"}
      PROVE  /\ [save[s] EXCEPT !.at = point] \in SaveRecord
             /\ [save[s] EXCEPT !.at = point, !.held = file] \in SaveRecord
  BY <1>2 DEF TypeOK, SaveRecord
<1>3. save[s].at # "idle" => save[s] \in SaveRecord
  BY <1>0 DEF NoSave
<1>4. CASE SaveLooks(s)
  BY <1>1, <1>2, <1>3, <1>4 DEF TypeOK, SaveLooks, At, Move, history
<1>5. CASE SaveReads(s)
  BY <1>1, <1>2, <1>3, <1>5 DEF TypeOK, SaveReads, At, history
<1>6. CASE SaveKeeps(s)
  <2>1. backup' \in Docs
    BY <1>3, <1>6 DEF SaveKeeps, At, SaveRecord
  <2> QED  BY <1>1, <1>2, <1>3, <1>6, <2>1 DEF TypeOK, SaveKeeps, At, Move, history
<1>7. CASE SaveReplaces(s)
  <2>1. file' \in Docs
    BY <1>3, <1>7 DEF SaveReplaces, At, SaveRecord, Docs, V2
  <2> QED  BY <1>1, <1>7, <2>1 DEF TypeOK, SaveReplaces, End
<1>8. CASE SaveFails(s)
  BY <1>1, <1>8 DEF TypeOK, SaveFails, End, history
<1> QED  BY <1>4, <1>5, <1>6, <1>7, <1>8 DEF SaveStep

LEMMA TypeStep == TypeOK /\ [Next]_vars => TypeOK'
BY TypeWindow, TypeSave DEF Next, vars, history, TypeOK

\* The variables of ConfigStore have their types in every state: a save holds a document
\* and a valid content wherever it stands.
THEOREM TypeCorrect == Spec => []TypeOK
<1> QED  BY TypeInit, TypeStep, PTL DEF Spec

-----------------------------------------------------------------------------
(* What saves and files hold                                               *)

\* The V1 contents there may ever be: that of the configuration there was at first, or, if
\* there was none, those of the legacy files that were imported.
Firsts == IF original.file = Missing THEN imported ELSE {original.file}

SavesKeepFirst ==
    \A s \in Saves :
        /\ save[s].at \in {"reading", "keeping"} => original.backup = Missing
        /\ save[s].at = "keeping" => save[s].held \in Firsts /\ IsV1(save[s].held)

FilesAreOwn ==
    /\ IsV1(file) => file \in Firsts
    /\ backup # Missing /\ original.backup = Missing => backup \in Firsts
    /\ original.backup # Missing => backup = original.backup
    /\ original.file # Missing => file # Missing
    /\ \A w \in Windows : window[w] = "importing" => original.file = Missing

\* No save replaces a V1 file before there is a backup.
UntilKept ==
    IsV1(original.file) /\ backup = Missing =>
        /\ file = original.file
        /\ \A s \in Saves : save[s].at # "replacing"

BrokenStays ==
    original.file = Broken /\ original.backup = Missing =>
        /\ file = Broken /\ backup = Missing
        /\ \A s \in Saves : save[s].at \notin {"keeping", "replacing"}

RefusedStays ==
    original.file # Missing /\ ~Loadable(original.file) /\ ~commanded =>
        /\ file = original.file
        /\ \A w \in Windows : window[w] # "loaded"
        /\ \A s \in Saves : save[s] # NoSave => save[s].kind = "command"

KeepInv == SavesKeepFirst /\ FilesAreOwn /\ UntilKept /\ BrokenStays /\ RefusedStays

LEMMA KindsDiffer ==
    /\ ~IsV1(Missing) /\ ~IsV1(Broken) /\ Broken # Missing
    /\ \A v : IsV1(V1(v)) /\ ~IsV1(V2(v)) /\ V2(v) # Missing /\ V2(v) # Broken
    /\ ~Loadable(Broken) /\ ~Loadable(Missing)
BY DEF IsV1, V1, V2, Missing, Broken, Loadable

LEMMA KeepInit == Init => KeepInv
<1> SUFFICES ASSUME Init  PROVE KeepInv
  OBVIOUS
<1>1. \A s \in Saves : save[s] = NoSave /\ save[s].at = "idle"
  BY DEF Init, NoSave
<1>2. original.file = file /\ original.backup = backup
  BY DEF Init
<1>4. \A w \in Windows : window[w] = "closed"
  BY DEF Init
<1>5. SavesKeepFirst
  BY <1>1 DEF SavesKeepFirst
<1>6. FilesAreOwn
  BY <1>2, <1>4, KindsDiffer DEF FilesAreOwn, Firsts
<1>7. UntilKept /\ BrokenStays /\ RefusedStays
  BY <1>1, <1>2, <1>4 DEF UntilKept, BrokenStays, RefusedStays
<1> QED  BY <1>5, <1>6, <1>7 DEF KeepInv

\* The steps of a window that leave the saves alone.
LEMMA KeepWindow ==
    ASSUME TypeOK, KeepInv, NEW w \in Windows,
           \/ \E found \in Docs : Open(w, found)
           \/ Import(w) \/ Load(w)
           \/ \E v \in Values : Edit(w, v)
    PROVE  KeepInv'
<1> USE DEF KeepInv
<1>0. UNCHANGED <<backup, save, original, commanded>>
  BY DEF Open, Import, Load, Edit, history
<1>1. \/ file' = file /\ imported' = imported
      \/ /\ original.file = Missing /\ file' = legacy[w]
         /\ imported' = imported \cup {doc \in {legacy[w]} : IsV1(doc)}
  <2>1. Import(w) => original.file = Missing
    BY DEF FilesAreOwn, Import
  <2> QED  BY <2>1 DEF Open, Import, Load, Edit, history
<1>2. Firsts \subseteq Firsts' /\ (IsV1(file') => file' \in Firsts')
  <2>1. CASE file' = file /\ imported' = imported
    BY <1>0, <2>1 DEF FilesAreOwn, Firsts
  <2>2. CASE /\ original.file = Missing /\ file' = legacy[w]
             /\ imported' = imported \cup {doc \in {legacy[w]} : IsV1(doc)}
    BY <1>0, <2>2 DEF Firsts
  <2> QED  BY <1>1, <2>1, <2>2
<1>3. SavesKeepFirst'
  BY <1>0, <1>2 DEF SavesKeepFirst
<1>4. original.file # Missing => file' = file
  BY <1>1
<1>5. \A x \in Windows : window'[x] = "importing" =>
          window[x] = "importing" \/ file = Missing
  BY DEF TypeOK, Open, Import, Load, Edit
<1>6. FilesAreOwn'
  BY <1>0, <1>2, <1>4, <1>5 DEF FilesAreOwn
<1>7. UntilKept' /\ BrokenStays'
  BY <1>0, <1>4, KindsDiffer DEF UntilKept, BrokenStays
<1>8. \A x \in Windows : window'[x] = "loaded" =>
          window[x] = "loaded" \/ file = Missing \/ Loadable(file)
  BY DEF TypeOK, Open, Import, Load, Edit
<1>9. RefusedStays'
  BY <1>0, <1>4, <1>8, KindsDiffer DEF RefusedStays
<1> QED  BY <1>3, <1>6, <1>7, <1>9

\* A save that begins was asked for by a window that has loaded, or by a command.
LEMMA KeepStart ==
    ASSUME TypeOK, KeepInv, NEW w \in Windows, NEW s \in Saves,
           AutoSave(w, s) \/ Command(w, s)
    PROVE  KeepInv'
<1> USE DEF KeepInv
<1>1. PICK kind \in {"autosave", "command"} :
          StartSave(w, s, kind) /\ (kind = "autosave" => window[w] = "loaded")
  BY DEF AutoSave, Command
<1>2. /\ UNCHANGED <<file, backup, window, original, commanded>>
      /\ Firsts' = Firsts
  BY <1>1 DEF StartSave, Firsts, history
<1>3. /\ save'[s].at = "looking" /\ save'[s].kind = kind
      /\ \A t \in Saves \ {s} : save'[t] = save[t]
  BY <1>1 DEF TypeOK, StartSave
<1>4. SavesKeepFirst'
  BY <1>2, <1>3 DEF SavesKeepFirst
<1>5. FilesAreOwn'
  BY <1>2 DEF FilesAreOwn
<1>6. UntilKept' /\ BrokenStays'
  BY <1>2, <1>3 DEF UntilKept, BrokenStays
<1>7. RefusedStays'
  BY <1>1, <1>2, <1>3 DEF RefusedStays
<1> QED  BY <1>4, <1>5, <1>6, <1>7

\* Saves that end: only their records go.
LEMMA KeepEnd ==
    ASSUME KeepInv,
           UNCHANGED <<file, backup, history>>,
           \A x \in Windows : window'[x] = window[x] \/ window'[x] = "closed",
           \A t \in Saves : save'[t] \in {save[t], NoSave}
    PROVE  KeepInv'
<1> USE DEF KeepInv
<1>1. /\ NoSave.at = "idle" /\ Firsts' = Firsts
      /\ UNCHANGED <<original, commanded>>
  BY DEF NoSave, Firsts, history
<1>2. SavesKeepFirst'
  BY <1>1 DEF SavesKeepFirst
<1>3. FilesAreOwn'
  BY <1>1 DEF FilesAreOwn
<1>4. UntilKept' /\ BrokenStays'
  BY <1>1 DEF UntilKept, BrokenStays
<1>5. RefusedStays'
  BY <1>1 DEF RefusedStays
<1> QED  BY <1>2, <1>3, <1>4, <1>5

LEMMA KeepSave ==
    ASSUME TypeOK, KeepInv, NEW s \in Saves, SaveStep(s)
    PROVE  KeepInv' /\ (backup # Missing => backup' = backup \/ {backup, backup'} \subseteq Firsts)
<1> USE DEF KeepInv
<1>a. NoSave.at = "idle" /\ (save[s] # NoSave => save[s] \in SaveRecord)
  BY SaveIsRecord DEF NoSave
<1>1. CASE SaveLooks(s)
  <2>1. /\ UNCHANGED <<file, backup, window, history, original, commanded>>
        /\ Firsts' = Firsts
    BY <1>1 DEF SaveLooks, Firsts, history
  <2>2. /\ save[s] # NoSave /\ save[s] \in SaveRecord
        /\ save'[s].at = IF backup # Missing \/ file = Missing THEN "replacing" ELSE "reading"
        /\ save'[s].kind = save[s].kind
        /\ \A t \in Saves \ {s} : save'[t] = save[t]
    BY <1>1, <1>a DEF TypeOK, SaveLooks, At, Move, SaveRecord
  <2>3. SavesKeepFirst'
    BY <2>1, <2>2 DEF SavesKeepFirst, FilesAreOwn
  <2>4. FilesAreOwn'
    BY <2>1 DEF FilesAreOwn
  <2>5. UntilKept' /\ BrokenStays'
    BY <2>1, <2>2, KindsDiffer DEF UntilKept, BrokenStays
  <2>6. RefusedStays'
    BY <2>1, <2>2 DEF RefusedStays
  <2> QED  BY <2>1, <2>3, <2>4, <2>5, <2>6
<1>2. CASE SaveReads(s)
  <2>1. /\ UNCHANGED <<file, backup, window, history, original, commanded>>
        /\ Firsts' = Firsts
    BY <1>2 DEF SaveReads, Firsts, history
  <2>2. save[s] # NoSave /\ save[s] \in SaveRecord /\ save[s].at = "reading"
    BY <1>2, <1>a DEF SaveReads, At
  <2>3. CASE file = Broken
    <3>1. \A t \in Saves : save'[t] \in {save[t], NoSave}
      BY <1>2, <2>3 DEF TypeOK, SaveReads
    <3> QED  BY <2>1, <3>1, KeepEnd
  <2>4. CASE file # Broken
    <3>1. /\ save'[s].at = IF IsV1(file) THEN "keeping" ELSE "replacing"
          /\ IsV1(file) => save'[s].held = file
          /\ save'[s].kind = save[s].kind
          /\ \A t \in Saves \ {s} : save'[t] = save[t]
      BY <1>2, <2>2, <2>4 DEF TypeOK, SaveReads, SaveRecord
    <3>2. SavesKeepFirst'
      BY <2>1, <2>2, <3>1 DEF SavesKeepFirst, FilesAreOwn
    <3>3. FilesAreOwn'
      BY <2>1 DEF FilesAreOwn
    <3>4. UntilKept' /\ BrokenStays'
      BY <2>1, <2>4, <3>1 DEF UntilKept, BrokenStays
    <3>5. RefusedStays'
      BY <2>1, <2>2, <3>1 DEF RefusedStays
    <3> QED  BY <2>1, <3>2, <3>3, <3>4, <3>5
  <2> QED  BY <2>3, <2>4
<1>3. CASE SaveKeeps(s)
  <2>1. /\ UNCHANGED <<file, window, original, commanded>>
        /\ Firsts' = Firsts /\ backup' = save[s].held
    BY <1>3 DEF SaveKeeps, Firsts, history
  <2>2. /\ save[s] # NoSave /\ save[s] \in SaveRecord /\ save[s].at = "keeping"
        /\ save'[s].at = "replacing" /\ save'[s].kind = save[s].kind
        /\ \A t \in Saves \ {s} : save'[t] = save[t]
    BY <1>3, <1>a DEF TypeOK, SaveKeeps, At, Move, SaveRecord
  <2>3. backup' \in Firsts /\ IsV1(backup') /\ original.backup = Missing
    BY <2>1, <2>2 DEF SavesKeepFirst
  <2>4. SavesKeepFirst'
    BY <2>1, <2>2 DEF SavesKeepFirst
  <2>5. FilesAreOwn'
    BY <2>1, <2>3 DEF FilesAreOwn
  <2>6. UntilKept' /\ BrokenStays'
    BY <2>1, <2>2, <2>3, KindsDiffer DEF UntilKept, BrokenStays
  <2>7. RefusedStays'
    BY <2>1, <2>2 DEF RefusedStays
  <2>8. backup # Missing => {backup, backup'} \subseteq Firsts
    BY <2>3 DEF FilesAreOwn
  <2> QED  BY <2>4, <2>5, <2>6, <2>7, <2>8
<1>4. CASE SaveReplaces(s)
  <2>1. /\ UNCHANGED <<backup, window, original>>
        /\ Firsts' = Firsts /\ file' = V2(save[s].value)
        /\ commanded' = (commanded \/ save[s].kind = "command")
    BY <1>4 DEF SaveReplaces, Firsts
  <2>2. /\ save[s] # NoSave /\ save[s] \in SaveRecord /\ save[s].at = "replacing"
        /\ save'[s] = NoSave
        /\ \A t \in Saves \ {s} : save'[t] = save[t]
    BY <1>4, <1>a DEF TypeOK, SaveReplaces, At, End
  <2>3. SavesKeepFirst'
    BY <1>a, <2>1, <2>2 DEF SavesKeepFirst
  <2>4. FilesAreOwn'
    BY <2>1, KindsDiffer DEF FilesAreOwn
  <2>5. UntilKept' /\ BrokenStays'
    BY <2>1, <2>2 DEF UntilKept, BrokenStays
  <2>6. RefusedStays'
    <3>1. commanded' \/ (save[s].kind # "command" /\ ~commanded)
      BY <2>1
    <3> QED  BY <2>1, <2>2, <3>1 DEF RefusedStays
  <2> QED  BY <2>1, <2>3, <2>4, <2>5, <2>6
<1>5. CASE SaveFails(s)
  <2>1. /\ UNCHANGED <<file, backup, window, history>>
        /\ \A t \in Saves : save'[t] \in {save[t], NoSave}
    BY <1>5 DEF TypeOK, SaveFails, End
  <2> QED  BY <2>1, KeepEnd
<1> QED  BY <1>1, <1>2, <1>3, <1>4, <1>5 DEF SaveStep

LEMMA KeepStep ==
    ASSUME TypeOK, KeepInv, [Next]_vars
    PROVE  KeepInv' /\ (backup # Missing => backup' = backup \/ {backup, backup'} \subseteq Firsts)
<1>1. ASSUME NEW w \in Windows, WindowStep(w)
      PROVE  KeepInv' /\ backup' = backup
  <2>1. backup' = backup
    BY <1>1 DEF WindowStep, Open, Import, Load, Close, Edit, AutoSave, Command, StartSave
  <2>2. CASE Close(w)
    <3>1. /\ \A x \in Windows : window'[x] = window[x] \/ window'[x] = "closed"
          /\ \A t \in Saves : save'[t] \in {save[t], NoSave}
      BY <2>2 DEF TypeOK, Close
    <3> QED  BY <2>1, <2>2, <3>1, KeepEnd DEF Close
  <2> QED  BY <1>1, <2>1, <2>2, KeepWindow, KeepStart DEF WindowStep
<1>2. CASE UNCHANGED vars
  BY <1>2 DEF vars, KeepInv, SavesKeepFirst, FilesAreOwn, UntilKept, BrokenStays,
              RefusedStays, Firsts, history
<1> QED  BY <1>1, <1>2, KeepSave DEF Next

LEMMA Keeping == Spec => [](TypeOK /\ KeepInv)
<1>1. TypeOK /\ KeepInv /\ [Next]_vars => (TypeOK /\ KeepInv)'
  BY KeepStep, TypeStep
<1> QED  BY TypeInit, KeepInit, <1>1, PTL DEF Spec

\* The V1 configuration an installation had is the file or the backup at every moment,
\* for any number of windows and of overlapping saves (backup_v1_config_if_needed).
THEOREM V1IsKept == Spec => []V1Kept
<1>1. KeepInv => V1Kept
  BY KindsDiffer DEF KeepInv, UntilKept, FilesAreOwn, Firsts, V1Kept
<1> QED  BY Keeping, <1>1, PTL

\* A configuration that cannot be loaded is replaced by a button that saves only, and a
\* broken one without a backup by nothing (load_config, save_config, install_task).
THEOREM RefusedIsKept == Spec => []RefusedKept
<1>1. KeepInv => RefusedKept
  BY DEF KeepInv, BrokenStays, RefusedStays, RefusedKept
<1> QED  BY Keeping, <1>1, PTL

\* No save replaces a backup, though it may have looked for one before another wrote it:
\* the exception are two imports of different legacy files where there was no configuration
\* (backup_v1_config_if_needed, migrate_legacy_config).
THEOREM BackupStays == Spec => BackupReplacedByImportsOnly
<1>1. ASSUME TypeOK, KeepInv, [Next]_vars, backup # Missing, backup' # backup
      PROVE  original.file = Missing /\ {backup, backup'} \subseteq imported
  <2>1. {backup, backup'} \subseteq Firsts
    BY <1>1, KeepStep
  <2> QED  BY <1>1, <2>1 DEF Firsts
<1>2. TypeOK /\ KeepInv /\ [Next]_vars =>
          [backup # Missing /\ backup' # backup =>
              original.file = Missing /\ {backup, backup'} \subseteq imported]_vars
  BY <1>1
<1> QED  BY Keeping, <1>2, PTL DEF Spec, BackupReplacedByImportsOnly
=============================================================================
