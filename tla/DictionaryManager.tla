------------------------- MODULE DictionaryManager -------------------------
(***************************************************************************)
(* DictionaryManagerDialog of qt/dictionary_manager.py, the import and the *)
(* removal of bundles in the directory of UserDictionaryProvider            *)
(* (providers.py), and what the registry knows of that directory.           *)
(*                                                                         *)
(* Several dialogs share the directory and the registry.  Their handlers   *)
(* run one at a time in the GUI thread; a confirmation runs the event loop  *)
(* inside a handler; each import runs in a worker.  The program may be      *)
(* killed and started again.  All dictionaries are of one locale, and no    *)
(* other provider has any, so that every bundle competes for it.           *)
(***************************************************************************)
EXTENDS DictionaryValidation, Functions

CONSTANTS
    Dialogs,
    Removers,       \* bound: the dialogs in which the user refreshes and removes
    Names,          \* safe names of bundles
    Temps,          \* names of staging directories, ".import-*"
    UserFiles,      \* what the files of a user may be like
    Requests,       \* the bundles a user imports, with their names
    Nothing,        \* no directory, no task
    MaxImports,     \* bound: imports started
    MaxFaults       \* bound: file operations that fail, kills of the program

\* The directories an import accepts.
Acceptable == {b \in AllBundles : Importable(b)}

Dirs == Names \cup Temps
NoFiles == [f \in {} |-> "good"]
Components == {"spelling", "thesaurus"}

ASSUME ManagerAssumption ==
    /\ UserFiles \subseteq AllBundles \ {NoFiles}
    /\ Removers \subseteq Dialogs
    /\ Requests \subseteq UserFiles \X Names
    /\ IsFiniteSet(Names) /\ IsFiniteSet(Temps) /\ Names \cap Temps = {}
    /\ Nothing \notin Dirs /\ Nothing \notin AllBundles
    /\ MaxImports \in Nat /\ MaxFaults \in Nat

VARIABLES
    root,       \* the directory: each subdirectory's files, or Nothing
    known,      \* the registry: what it selected for each component, and whether
                \* discovery failed
    busy,       \* dialog -> _busy
    task,       \* dialog -> its _ImportTask, or NoTask
    rows,       \* dialog -> the rows of installed_tree
    removal,    \* dialog -> the removal in progress, or NoRemoval
    finished,   \* history: bundles reported by import_finished, until a removal
    adrift,     \* history: staging directories that no task answers for
    imports, faults

vars == <<root, known, busy, task, rows, removal, finished, adrift, imports, faults>>
directory == <<root, finished, adrift>>

---------------------------------------------------------------------------
(* Discovery.                                                              *)

\* Candidates come in the order of their paths, and a name that begins with a dot
\* comes before every bundle.
Order == SetToSeq(Temps) \o SetToSeq(Names)
Offering(c) == {i \in DOMAIN Order : root[Order[i]] # Nothing /\ c \in Offers(root[Order[i]])}
NothingKnown == [c \in Components |-> Nothing]
Discovered ==
    [c \in Components |-> IF Offering(c) = {} THEN Nothing ELSE Order[Min(Offering(c))]]

\* Some worker is changing the directory, so that listing it may fail.
Changing == \E d \in Dialogs : task[d].pc \in {"cleanup", "publish"}
Discoveries ==
    {[selected |-> Discovered, failed |-> FALSE]} \cup
    (IF Changing THEN {[selected |-> NothingKnown, failed |-> TRUE]} ELSE {})

\* _populate_installed: the effective entry, and a row for every candidate of the
\* provider that is not part of it.
RowsFor(selected) ==
    {r \in {selected} : r # NothingKnown} \cup
    {[NothingKnown EXCEPT ![x[1]] = x[2]] :
        x \in {y \in Components \X Dirs :
                  /\ root[y[2]] # Nothing /\ y[1] \in Offers(root[y[2]])
                  /\ selected[y[1]] # y[2]}}

\* _owned_bundles: the first directory below the root, for every path of a row.
Owned(row) == SelectSeq(Order, LAMBDA d : \E c \in Components : row[c] = d)

Rediscover(d) == \E k \in Discoveries :
    known' = k /\ rows' = [rows EXCEPT ![d] = RowsFor(k.selected)]

NoTask == [pc |-> "none", source |-> Nothing, name |-> Nothing, temp |-> Nothing, todo |-> <<>>]
NoRemoval == [pc |-> "none", todo |-> <<>>, changed |-> FALSE]

Init ==
    /\ root = [x \in Dirs |-> Nothing]
    /\ known = [selected |-> NothingKnown, failed |-> FALSE]
    /\ busy = [d \in Dialogs |-> FALSE]
    /\ task = [d \in Dialogs |-> NoTask]
    /\ rows = [d \in Dialogs |-> {}]
    /\ removal = [d \in Dialogs |-> NoRemoval]
    /\ finished = {} /\ adrift = {}
    /\ imports = 0 /\ faults = 0

At(d, pc) == task[d].pc = pc
Fault == faults < MaxFaults /\ faults' = faults + 1

\* No handler is running: one that waits for an answer runs the event loop.
EventLoop == \A d \in Dialogs : removal[d].pc # "removing"

---------------------------------------------------------------------------
(* Importing.                                                              *)

\* import_files, unless the dialog is busy.
ImportFiles(d) ==
    /\ EventLoop /\ ~busy[d]
    /\ imports < MaxImports /\ imports' = imports + 1
    /\ \E r \in Requests :
           task' = [task EXCEPT ![d] = [pc |-> "check", source |-> r[1], name |-> r[2],
                                        temp |-> Nothing, todo |-> <<>>]]
    /\ busy' = [busy EXCEPT ![d] = TRUE]
    /\ UNCHANGED <<known, rows, removal, directory, faults>>

\* The user's own files change while they are imported.
ChangeSource(d) ==
    /\ task[d].pc = "copy" /\ task[d].todo # <<>>
    /\ \E b \in UserFiles :
           /\ DOMAIN b = DOMAIN task[d].source /\ b # task[d].source
           /\ task' = [task EXCEPT ![d].source = b]
    /\ UNCHANGED <<known, busy, rows, removal, directory, imports, faults>>

To(d, pc) == task' = [task EXCEPT ![d].pc = pc, ![d].source = Nothing, ![d].todo = <<>>]

\* The files are there and of the four types; a directory is made to stage them.
Stage(d) ==
    /\ At(d, "check")
    /\ \E t \in Temps :
           /\ root[t] = Nothing
           /\ root' = [root EXCEPT ![t] = NoFiles]
           /\ task' = [task EXCEPT ![d].pc = "copy", ![d].temp = t,
                                   ![d].todo = SetToSeq(DOMAIN task[d].source)]
    /\ UNCHANGED <<known, busy, rows, removal, finished, adrift, imports, faults>>

\* A directory with one file more.
With(b, file, kind) == [f \in {file} \cup DOMAIN b |-> IF f = file THEN kind ELSE b[f]]

\* shutil.copy2 of one file, as it is now.
Copy(d) ==
    /\ At(d, "copy") /\ task[d].todo # <<>>
    /\ LET f == Head(task[d].todo)
       IN  root' = [root EXCEPT ![task[d].temp] =
                        With(root[task[d].temp], f, task[d].source[f])]
    /\ task' = [task EXCEPT ![d].todo = Tail(@)]
    /\ UNCHANGED <<known, busy, rows, removal, finished, adrift, imports, faults>>

\* The staged files are discovered and validated, and the name is free.
Accept(d) ==
    /\ At(d, "copy") /\ task[d].todo = <<>>
    /\ To(d, IF root[task[d].temp] \in Acceptable /\ root[task[d].name] = Nothing
             THEN "publish" ELSE "cleanup")
    /\ UNCHANGED <<known, busy, rows, removal, directory, imports, faults>>

\* Mutant of Publish: the directory that is there is replaced.
Publish_Overwrites(d) ==
    /\ At(d, "publish")
    /\ root' = [root EXCEPT ![task[d].name] = root[task[d].temp], ![task[d].temp] = Nothing]
    /\ task' = [task EXCEPT ![d].pc = "published", ![d].temp = Nothing]
    /\ UNCHANGED <<known, busy, rows, removal, finished, adrift, imports, faults>>

\* os.replace, which fails if the name has been taken since by a directory that is
\* not empty.
Publish(d) ==
    /\ At(d, "publish")
    /\ IF root[task[d].name] \in {Nothing, NoFiles}
       THEN /\ root' = [root EXCEPT ![task[d].name] = root[task[d].temp],
                                    ![task[d].temp] = Nothing]
            /\ task' = [task EXCEPT ![d].pc = "published", ![d].temp = Nothing]
       ELSE /\ To(d, "cleanup")
            /\ UNCHANGED root
    /\ UNCHANGED <<known, busy, rows, removal, finished, adrift, imports, faults>>

\* Mutant of Break: an operation that fails ends the import at once.
Break_NoCleanup(d) ==
    /\ Fault
    /\ task[d].pc \in {"check", "copy", "publish"}
    /\ To(d, "failed")
    /\ UNCHANGED <<known, busy, rows, removal, directory, imports>>

\* An operation of the import fails.
Break(d) ==
    /\ Fault
    /\ task[d].pc \in {"check", "copy", "publish"}
    /\ To(d, IF task[d].temp = Nothing THEN "failed" ELSE "cleanup")
    /\ UNCHANGED <<known, busy, rows, removal, directory, imports>>

\* What a removal that fails leaves of a directory.
Remains(b) == {Restrict(b, fs) : fs \in SUBSET DOMAIN b}

\* rmtree of the staging directory; if that fails the rest stays.
CleanUp(d) ==
    LET t == task[d].temp IN
    /\ At(d, "cleanup")
    /\ task' = [task EXCEPT ![d].pc = "failed", ![d].temp = Nothing]
    /\ \/ /\ root' = [root EXCEPT ![t] = Nothing]
          /\ UNCHANGED <<adrift, faults>>
       \/ /\ Fault
          /\ \E rest \in Remains(root[t]) : root' = [root EXCEPT ![t] = rest]
          /\ adrift' = adrift \cup {t}
    /\ UNCHANGED <<known, busy, rows, removal, finished, imports>>

Work(d) == Stage(d) \/ Copy(d) \/ Accept(d) \/ Publish(d) \/ Break(d) \/ CleanUp(d)

\* Mutant of OnImportCompleted: the new bundle is announced and not looked for.
OnImportCompleted_NoRefresh(d) ==
    /\ EventLoop
    /\ task[d].pc \in {"published", "failed"}
    /\ task' = [task EXCEPT ![d] = NoTask]
    /\ busy' = [busy EXCEPT ![d] = FALSE]
    /\ finished' = IF task[d].pc = "failed" THEN finished ELSE finished \cup {task[d].name}
    /\ UNCHANGED <<known, rows, root, removal, adrift, imports, faults>>

\* Mutant of OnImportCompleted: the dialog stays busy after an error.
OnImportCompleted_BusyAfterError(d) ==
    /\ EventLoop
    /\ task[d].pc \in {"published", "failed"}
    /\ task' = [task EXCEPT ![d] = NoTask]
    /\ busy' = [busy EXCEPT ![d] = task[d].pc = "failed"]
    /\ UNCHANGED <<known, rows, removal, directory, imports, faults>>

\* Mutant of OnImportCompleted: the worker signals only a success.
OnImportCompleted_SuccessOnly(d) ==
    /\ EventLoop
    /\ task[d].pc = "published"
    /\ task' = [task EXCEPT ![d] = NoTask]
    /\ busy' = [busy EXCEPT ![d] = FALSE]
    /\ Rediscover(d)
    /\ UNCHANGED <<directory, removal, imports, faults>>

\* _on_import_completed: an error is reported; after a success the providers are
\* asked again.
OnImportCompleted(d) ==
    /\ EventLoop
    /\ task[d].pc \in {"published", "failed"}
    /\ task' = [task EXCEPT ![d] = NoTask]
    /\ busy' = [busy EXCEPT ![d] = FALSE]
    /\ IF task[d].pc = "failed"
       THEN UNCHANGED <<known, rows, finished>>
       ELSE /\ Rediscover(d)
            /\ finished' = IF root[task[d].name] \in {Nothing, NoFiles} THEN finished
                           ELSE finished \cup {task[d].name}
    /\ UNCHANGED <<root, removal, adrift, imports, faults>>

---------------------------------------------------------------------------
(* Refreshing and removing.                                                *)

\* The Refresh button, disabled while busy.
Refresh(d) ==
    /\ EventLoop /\ ~busy[d] /\ d \in Removers
    /\ Rediscover(d)
    /\ UNCHANGED <<busy, task, removal, directory, imports, faults>>

\* The application asks the service to refresh; no dialog notices.  The search is one
\* step, as it is when all refreshes run in the GUI thread; LinguisticService has the
\* searches that overlap (registry.py:82).
HostRefresh ==
    /\ EventLoop
    /\ known' \in Discoveries
    /\ UNCHANGED <<busy, task, rows, removal, directory, imports, faults>>

\* remove_selected: the bundles of the row, and a question.
RemoveSelected(d) ==
    /\ EventLoop /\ removal[d] = NoRemoval /\ d \in Removers
    /\ \E row \in rows[d], confirm \in BOOLEAN :
           removal' = [removal EXCEPT ![d] =
               [pc |-> IF confirm THEN "asking" ELSE "removing", todo |-> Owned(row),
                changed |-> FALSE]]
    /\ UNCHANGED <<known, busy, task, rows, directory, imports, faults>>

Answer(d) ==
    /\ EventLoop
    /\ removal[d].pc = "asking"
    /\ \E yes \in BOOLEAN :
           removal' = [removal EXCEPT ![d] = IF yes THEN [removal[d] EXCEPT !.pc = "removing"]
                                             ELSE NoRemoval]
    /\ UNCHANGED <<known, busy, task, rows, directory, imports, faults>>

Removing(d) == removal[d].pc = "removing"

\* remove_bundle of the next one; a name that is not safe ends it with an error.
RemoveBundle(d) ==
    LET n == Head(removal[d].todo) IN
    /\ Removing(d) /\ removal[d].todo # <<>>
    /\ IF n \in Temps
       THEN removal' = [removal EXCEPT ![d] = NoRemoval] /\ UNCHANGED <<root, finished>>
       ELSE /\ removal' = [removal EXCEPT
                  ![d].todo = Tail(@), ![d].changed = @ \/ root[n] # Nothing]
            /\ root' = [root EXCEPT ![n] = Nothing]
            /\ finished' = finished \ {n}
    /\ UNCHANGED <<known, busy, task, rows, adrift, imports, faults>>

\* rmtree fails on the way, which ends it with an error.
RemoveFails(d) ==
    LET n == Head(removal[d].todo) IN
    /\ Removing(d) /\ removal[d].todo # <<>>
    /\ n \in Names /\ root[n] # Nothing
    /\ Fault
    /\ \E rest \in Remains(root[n]) : root' = [root EXCEPT ![n] = rest]
    /\ finished' = finished \ {n}
    /\ removal' = [removal EXCEPT ![d] = NoRemoval]
    /\ UNCHANGED <<known, busy, task, rows, adrift, imports>>

\* All were asked for: the providers are asked again if one was there.
Removed(d) ==
    /\ Removing(d) /\ removal[d].todo = <<>>
    /\ removal' = [removal EXCEPT ![d] = NoRemoval]
    /\ IF removal[d].changed THEN Rediscover(d) ELSE UNCHANGED <<known, rows>>
    /\ UNCHANGED <<busy, task, directory, imports, faults>>

\* The program is killed, and started again: each dialog lists what there is.
Restart ==
    LET left == {t \in Temps : root[t] # Nothing} IN
    /\ Fault
    /\ busy' = [d \in Dialogs |-> FALSE]
    /\ task' = [d \in Dialogs |-> NoTask]
    /\ removal' = [d \in Dialogs |-> NoRemoval]
    /\ known' = [selected |-> Discovered, failed |-> FALSE]
    /\ rows' = [d \in Dialogs |-> RowsFor(Discovered)]
    /\ adrift' = left
    /\ UNCHANGED <<root, finished, imports>>

GoOn(d) == RemoveBundle(d) \/ Removed(d)

Next ==
    \/ \E d \in Dialogs :
          \/ ImportFiles(d) \/ ChangeSource(d) \/ Work(d) \/ OnImportCompleted(d) \/ GoOn(d)
          \/ Refresh(d) \/ RemoveSelected(d) \/ Answer(d) \/ RemoveFails(d)
    \/ HostRefresh
    \/ Restart

\* Threads and handlers go on; and a completion that is queued is delivered when the
\* event loop runs often enough, events being delivered in their order.
Fairness == \A d \in Dialogs :
    WF_vars(Work(d)) /\ WF_vars(GoOn(d)) /\ SF_vars(OnImportCompleted(d))

Spec == Init /\ [][Next]_vars /\ Fairness

---------------------------------------------------------------------------
(* Properties.                                                             *)

TypeOK ==
    /\ root \in [Dirs -> AllBundles \cup {Nothing}]
    /\ known \in [selected : [Components -> Dirs \cup {Nothing}], failed : BOOLEAN]
    /\ busy \in [Dialogs -> BOOLEAN]
    /\ \A d \in Dialogs :
        /\ task[d].pc \in {"none", "check", "copy", "publish", "cleanup", "published", "failed"}
        /\ task[d].temp \in Temps \cup {Nothing}
        /\ task[d].pc \in {"copy", "publish", "cleanup"} => root[task[d].temp] # Nothing
        /\ busy[d] <=> task[d] # NoTask
        /\ rows[d] \subseteq [Components -> Dirs \cup {Nothing}]
    /\ finished \subseteq Names
    /\ adrift \subseteq Temps

\* "Existing bundles are never overwritten" (managed-dictionaries.md), and one appears
\* at once, whole and found usable, even when its files changed while
\* they were copied or another import took the name (import_validated_files).  Else a
\* bundle only changes by its removal.
PublicationIsAtomic ==
    [][\A n \in Names : root'[n] # root[n] =>
          \/ root[n] \in {Nothing, NoFiles} /\ root'[n] \in Acceptable
          \/ \E d \in Dialogs : Removing(d) /\ Head(removal[d].todo) = n]_vars

\* An import publishes exactly the directories that consist of complete components
\* an engine can open and use: a defect it recovers from, as every one of an index,
\* is a warning that publishes, and no defect passes without one (the "Import
\* boundary", "MyThes validation" and status sections of dictionary-validation.md).
ReportsAreSound == \A d \in Dialogs : At(d, "copy") /\ task[d].todo = <<>> => Misreported = {}

\* A staging directory is there only while a worker of the running program uses it,
\* and each worker uses its own; except what could not be removed, or was there when
\* the program was killed (the finally block of import_validated_files).
StagingIsAnswered ==
    /\ \A t \in Temps : root[t] # Nothing =>
           t \in adrift \/ \E d \in Dialogs : task[d].temp = t
    /\ \A d, e \in Dialogs : task[d].temp = task[e].temp => d = e \/ task[d].temp = Nothing

\* Once import_finished has named a bundle, the registry has a dictionary for each of
\* its components: the discovery of _on_import_completed comes after the bundle is
\* published, whatever other dialogs do; unless the last discovery failed.
FinishedIsKnown ==
    known.failed \/ \A n \in finished : \A c \in Offers(root[n]) : known.selected[c] # Nothing

\* Every import ends, and the dialog takes another: whatever the worker meets is
\* reported (_ImportTask.run and _on_import_completed).
ImportsEnd == \A d \in Dialogs : busy[d] ~> ~busy[d]

\* What the registry selects is a published bundle: imports are staged and published
\* with one rename (managed-dictionaries.md).
OnlyPublishedIsKnown == \A c \in Components : known.selected[c] \notin Temps
=============================================================================
