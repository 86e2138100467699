--------------------------- MODULE BackupRestore ---------------------------
(***************************************************************************)
(* PersonalDictionaryBackupManager of personal_backup.py: processes that    *)
(* export and restore the personal dictionaries of one store, next to       *)
(* processes that mutate single locales (PersonalDictionary, whose own      *)
(* steps are in that module and are three here).  Any process may die       *)
(* between two steps, and every file operation may fail.                    *)
(*                                                                          *)
(* The store lock is taken for abandoned only when its owner is dead or     *)
(* could not remove it; what a slow owner suffers is in PersonalDictionary. *)
(* A symbolic link in the place of a dictionary counts as Malformed.        *)
(***************************************************************************)
EXTENDS Integers, Sequences, FiniteSets, SequencesExt, Functions

CONSTANTS
    Processes,
    Locales,
    Words,
    Plans,      \* what the processes may do, and the files to start from
    MaxDeaths,  \* bound: processes that may die
    Absent,     \* no file
    Malformed,  \* a file that cannot be read as what it should be
    Nobody

Operations == {"add", "remove", "merge", "replace", "export", "export all"}
Contents == (SUBSET Words) \cup {Absent, Malformed}
Payloads == Seq([locale : Locales, words : SUBSET Words]) \cup {Absent, Malformed}

ASSUME BackupAssumption ==
    /\ Plans \subseteq [ops : [Processes -> SUBSET Operations],
                  scopes : SUBSET SUBSET Locales, edited : SUBSET Locales,
                  disks : SUBSET [Locales -> Contents], files : SUBSET Payloads]
    /\ MaxDeaths \in Nat
    /\ Nobody \notin Processes
    /\ IsFiniteSet(Locales)
    /\ \A x \in {Absent, Malformed} : x \notin Seq([locale : Locales, words : SUBSET Words])

VARIABLES
    plan,       \* the one of Plans this behaviour follows
    disk,       \* the dictionary files
    file,       \* the backup file: a list of entries, Absent or Malformed
    temps,      \* temporary files of restores: whose, and for which locale
    lock,       \* .personal-dictionaries.lock
    dead,       \* processes that died
    call        \* what each process is doing

vars == <<plan, disk, file, temps, lock, dead, call>>

NoWords == [l \in {} |-> {}]
Idle == [pc |-> "idle", op |-> "none", words |-> NoWords, overwrite |-> FALSE,
         todo |-> <<>>, published |-> <<>>, original |-> NoWords, final |-> NoWords,
         failures |-> {}, decision |-> "none"]

Init ==
    /\ plan \in Plans
    /\ disk \in plan.disks
    /\ file \in plan.files
    /\ temps = {}
    /\ lock = Nobody
    /\ dead = {}
    /\ call = [p \in Processes |-> Idle]

At(p, pc) == call[p].pc = pc /\ p \notin dead
WordsOf(content) == IF content = Absent THEN {} ELSE content

\* What is known by locale, with one more.
With(f, l, value) == [k \in {l} \cup DOMAIN f |-> IF k = l THEN value ELSE f[k]]

---------------------------------------------------------------------------
(* The format.                                                             *)

\* _encode_backup: entries in order.
Encode(words) ==
    LET order == SetToSeq(DOMAIN words)
    IN  [i \in 1..Len(order) |-> [locale |-> order[i], words |-> words[order[i]]]]

\* _parse_payload: a locale that appears twice makes the whole backup invalid.
Parse(payload) ==
    IF payload \in {Absent, Malformed} THEN payload
    ELSE IF \E i, j \in DOMAIN payload : i # j /\ payload[i].locale = payload[j].locale
    THEN Malformed
    ELSE [l \in {payload[i].locale : i \in DOMAIN payload} |->
            (CHOOSE e \in Range(payload) : e.locale = l).words]

\* The words a restore leaves in a locale.
Final(op, current, words) == IF op = "merge" THEN current \cup words ELSE words

---------------------------------------------------------------------------
(* Beginning, and the store lock.                                          *)

Begin(p, op, words, overwrite) ==
    call' = [call EXCEPT ![p] = [Idle EXCEPT !.pc = "lock", !.op = op, !.words = words,
                                             !.overwrite = overwrite]]

\* restore inspects the backup before it asks for the lock; one that cannot be read
\* or that lacks a requested locale ends the call.
BeginRestore(p) ==
    LET entries == Parse(file) IN
    /\ At(p, "idle")
    /\ entries \notin {Absent, Malformed}
    /\ \E op \in {"merge", "replace"} \cap plan.ops[p], S \in plan.scopes :
           /\ S \subseteq DOMAIN entries
           /\ Begin(p, op, Restrict(entries, S), FALSE)
    /\ UNCHANGED <<plan, disk, file, temps, lock, dead>>

\* export of selected locales or of every one that is stored.
BeginExport(p) ==
    /\ At(p, "idle")
    /\ \E op \in {"export", "export all"} \cap plan.ops[p], overwrite \in BOOLEAN,
          S \in plan.scopes \cup {{}} :
           /\ op = "export all" => S = {}
           /\ Begin(p, op, [l \in S |-> {}], overwrite)
    /\ UNCHANGED <<plan, disk, file, temps, lock, dead>>

BeginMutation(p) ==
    /\ At(p, "idle")
    /\ \E op \in {"add", "remove"} \cap plan.ops[p], l \in plan.edited, w \in Words :
           Begin(p, op, [k \in {l} |-> {w}], FALSE)
    /\ UNCHANGED <<plan, disk, file, temps, lock, dead>>

\* A lock whose owner died or could not remove it: it is removed when it is old.
Abandoned == lock # Nobody /\ (lock \in dead \/ call[lock].pc \in {"idle", "lock"})

\* _locked_store: the lock, after an abandoned one has been removed.  A mutation
\* reads its locale, an export fixes its locales, next.
Lock(p) ==
    /\ At(p, "lock")
    /\ lock = Nobody \/ Abandoned
    /\ lock' = p
    /\ call' = [call EXCEPT
          ![p].todo = SetToSeq(IF call[p].op = "export all"
                               THEN {l \in Locales : disk[l] # Absent} ELSE DOMAIN call[p].words),
          ![p].pc = IF call[p].op \in {"merge", "replace"} THEN "prepare" ELSE "read"]
    /\ UNCHANGED <<plan, disk, file, temps, dead>>

\* Ending a call: the decision is known, the lock is still held.
Decided(p, how) == [call[p] EXCEPT !.pc = "release", !.decision = how, !.todo = <<>>,
                                   !.published = <<>>, !.words = NoWords, !.final = NoWords,
                                   !.original = NoWords, !.failures = {}, !.op = "none"]

\* Mutant of GiveUp: the wait ends only when the lock cannot be inspected.
GiveUp_NoDeadline(p) ==
    /\ At(p, "lock") /\ Abandoned
    /\ call' = [call EXCEPT ![p] = [Idle EXCEPT !.decision = "failed"]]
    /\ UNCHANGED <<plan, disk, file, temps, lock, dead>>

\* The lock is not free before the deadline, or cannot be created.
GiveUp(p) ==
    /\ At(p, "lock")
    /\ call' = [call EXCEPT ![p] = [Idle EXCEPT !.decision = "failed"]]
    /\ UNCHANGED <<plan, disk, file, temps, lock, dead>>

\* Removing the lock may fail, which is reported although the call is decided.
Release(p) ==
    /\ At(p, "release")
    /\ lock' \in {Nobody, lock}
    /\ call' = [call EXCEPT ![p] = [Idle EXCEPT !.decision = call[p].decision]]
    /\ UNCHANGED <<plan, disk, file, temps, dead>>

---------------------------------------------------------------------------
(* restore, with the lock held.                                            *)

\* Mutant of Prepare: a locale whose words stay as they are is not staged.
Prepare_SkipsUnchanged(p) ==
    LET l == Head(call[p].todo)
        new == Final(call[p].op, WordsOf(disk[l]), call[p].words[l]) IN
    /\ At(p, "prepare") /\ call[p].todo # <<>>
    /\ disk[l] # Malformed
    /\ temps' = temps \cup {<<p, l>>}
    /\ call' = [call EXCEPT
          ![p].original = With(@, l, disk[l]),
          ![p].final = IF new = disk[l] THEN @ ELSE With(@, l, new),
          ![p].todo = Tail(@)]
    /\ UNCHANGED <<plan, disk, file, lock, dead>>

\* One locale is read, its words computed and its file staged.
Prepare(p) ==
    LET l == Head(call[p].todo) IN
    /\ At(p, "prepare") /\ call[p].todo # <<>>
    /\ disk[l] # Malformed
    /\ temps' = temps \cup {<<p, l>>}
    /\ call' = [call EXCEPT
          ![p].original = With(@, l, disk[l]),
          ![p].final = With(@, l, Final(call[p].op, WordsOf(disk[l]), call[p].words[l])),
          ![p].todo = Tail(@)]
    /\ UNCHANGED <<plan, disk, file, lock, dead>>

\* A dictionary that cannot be read or a file that cannot be staged.
PrepareFails(p) ==
    /\ At(p, "prepare") /\ call[p].todo # <<>>
    /\ call' = [call EXCEPT ![p].pc = "cleanup", ![p].todo = <<>>,
                            ![p].decision = "failed"]
    /\ UNCHANGED <<plan, disk, file, temps, lock, dead>>

Prepared(p) ==
    /\ At(p, "prepare") /\ call[p].todo = <<>>
    /\ call' = [call EXCEPT ![p].pc = "publish", ![p].todo = SetToSeq(DOMAIN call[p].words)]
    /\ UNCHANGED <<plan, disk, file, temps, lock, dead>>

\* os.replace of the next staged file; the restore is complete after the last.
Publish(p) ==
    LET l == Head(call[p].todo) IN
    /\ At(p, "publish") /\ call[p].todo # <<>>
    /\ disk' = [disk EXCEPT ![l] = call[p].final[l]]
    /\ temps' = temps \ {<<p, l>>}
    /\ call' = [call EXCEPT ![p] =
          IF Len(call[p].todo) = 1 THEN Decided(p, "done")
          ELSE [call[p] EXCEPT !.todo = Tail(@), !.published = Append(@, l)]]
    /\ UNCHANGED <<plan, file, lock, dead>>

\* Nothing was selected.
PublishNothing(p) ==
    /\ At(p, "publish") /\ call[p].todo = <<>>
    /\ call' = [call EXCEPT ![p] = Decided(p, "done")]
    /\ UNCHANGED <<plan, disk, file, temps, lock, dead>>

\* Mutant of PublishFails: what is published stays.
PublishFails_NoRollback(p) ==
    /\ At(p, "publish") /\ call[p].todo # <<>>
    /\ call' = [call EXCEPT ![p].pc = "cleanup", ![p].todo = <<>>, ![p].published = <<>>,
                            ![p].decision = "failed"]
    /\ UNCHANGED <<plan, disk, file, temps, lock, dead>>

PublishFails(p) ==
    /\ At(p, "publish") /\ call[p].todo # <<>>
    /\ call' = [call EXCEPT ![p].pc = "rollback", ![p].todo = Reverse(call[p].published)]
    /\ UNCHANGED <<plan, disk, file, temps, lock, dead>>

\* _rollback of one locale: the original bytes again, or no file; a failure is
\* noted and the next locale is tried.
RollBack(p) ==
    LET l == Head(call[p].todo) IN
    /\ At(p, "rollback") /\ call[p].todo # <<>>
    /\ \/ /\ disk' = [disk EXCEPT ![l] = call[p].original[l]]
          /\ call' = [call EXCEPT ![p].todo = Tail(@)]
       \/ /\ call' = [call EXCEPT ![p].todo = Tail(@), ![p].failures = @ \cup {l}]
          /\ UNCHANGED disk
    /\ UNCHANGED <<plan, file, temps, lock, dead>>

RolledBack(p) ==
    /\ At(p, "rollback") /\ call[p].todo = <<>>
    /\ call' = [call EXCEPT ![p].pc = "cleanup", ![p].published = <<>>,
                            ![p].decision = IF call[p].failures = {} THEN "failed" ELSE "torn"]
    /\ UNCHANGED <<plan, disk, file, temps, lock, dead>>

\* Mutant of CleanUp: nothing is removed.
CleanUp_Nothing(p) ==
    /\ At(p, "cleanup")
    /\ call' = [call EXCEPT ![p] = Decided(p, call[p].decision)]
    /\ UNCHANGED <<plan, disk, file, temps, lock, dead>>

\* _cleanup_staged after an error: staged files are removed until one cannot be,
\* and then nobody answers for the rest.  Which error the caller sees is left out.
CleanUp(p) ==
    LET mine == {t \in temps : t[1] = p} IN
    /\ At(p, "cleanup")
    /\ \E left \in SUBSET mine :
           temps' = (temps \ mine) \cup {<<Nobody, t[2]>> : t \in left}
    /\ call' = [call EXCEPT ![p] = Decided(p, call[p].decision)]
    /\ UNCHANGED <<plan, disk, file, lock, dead>>

---------------------------------------------------------------------------
(* export and the mutations of one locale, with the lock held.             *)

\* The words of one locale after the other.
Read(p) ==
    LET l == Head(call[p].todo) IN
    /\ At(p, "read") /\ call[p].todo # <<>>
    /\ disk[l] # Malformed
    /\ call' = [call EXCEPT ![p].final = With(@, l, WordsOf(disk[l])), ![p].todo = Tail(@)]
    /\ UNCHANGED <<plan, disk, file, temps, lock, dead>>

\* A dictionary that cannot be read, or a file that cannot be written.
Fails(p) ==
    /\ At(p, "read")
    /\ call' = [call EXCEPT ![p] = Decided(p, "failed")]
    /\ UNCHANGED <<plan, disk, file, temps, lock, dead>>

\* _publish_export: os.replace, or os.link, which refuses a destination that exists.
\* That unlinking the staged file fails after the link (personal_backup.py:421), and the
\* call with it though the backup is there, is left out.
WriteBackup(p) ==
    /\ At(p, "read") /\ call[p].todo = <<>>
    /\ call[p].op \in {"export", "export all"}
    /\ file = Absent \/ call[p].overwrite
    /\ file' = Encode(call[p].final)
    /\ call' = [call EXCEPT ![p] = Decided(p, "done")]
    /\ UNCHANGED <<plan, disk, temps, lock, dead>>

\* add_word and remove_word write the file if the words change.
WriteWords(p) ==
    LET l == CHOOSE k \in DOMAIN call[p].words : TRUE
        old == call[p].final[l]
        new == IF call[p].op = "add" THEN old \cup call[p].words[l] ELSE old \ call[p].words[l] IN
    /\ At(p, "read") /\ call[p].todo = <<>>
    /\ call[p].op \in {"add", "remove"}
    /\ disk' = IF new = old THEN disk ELSE [disk EXCEPT ![l] = new]
    /\ call' = [call EXCEPT ![p] = Decided(p, "done")]
    /\ UNCHANGED <<plan, file, temps, lock, dead>>

---------------------------------------------------------------------------

\* A process dies between two steps: its lock and its temporary files stay.
Die(p) ==
    /\ Cardinality(dead) < MaxDeaths
    /\ p \notin dead /\ ~At(p, "idle")
    /\ dead' = dead \cup {p}
    /\ UNCHANGED <<plan, disk, file, temps, lock, call>>

Start(p) == BeginRestore(p) \/ BeginExport(p) \/ BeginMutation(p)

Step(p) ==
    \/ Lock(p) \/ GiveUp(p) \/ Release(p)
    \/ Prepare(p) \/ PrepareFails(p) \/ Prepared(p)
    \/ Publish(p) \/ PublishNothing(p) \/ PublishFails(p)
    \/ RollBack(p) \/ RolledBack(p) \/ CleanUp(p)
    \/ Read(p) \/ Fails(p) \/ WriteBackup(p) \/ WriteWords(p)

Next == \E p \in Processes : Start(p) \/ Step(p) \/ Die(p)

Fairness == \A p \in Processes : WF_vars(Step(p))

Spec == Init /\ [][Next]_vars /\ Fairness

---------------------------------------------------------------------------
(* Properties.                                                             *)

Undecided == {"lock", "prepare", "publish", "rollback", "read"}
Decisions == {"none", "done", "failed", "torn"}
Some(A, B) == UNION {[S -> B] : S \in SUBSET A}

TypeOK ==
    /\ plan \in Plans
    /\ disk \in [Locales -> Contents]
    /\ file \in Payloads
    /\ temps \subseteq (Processes \cup {Nobody}) \X Locales
    /\ lock \in Processes \cup {Nobody}
    /\ dead \subseteq Processes
    /\ \A p \in Processes :
        /\ call[p].pc \in Undecided \cup {"idle", "cleanup", "release"}
        /\ call[p].op \in Operations \cup {"none"}
        /\ call[p].words \in Some(Locales, SUBSET Words)
        /\ call[p].decision \in Decisions
        /\ call[p].final \in Some(Locales, SUBSET Words)
        /\ call[p].pc \in {"publish", "rollback"} => DOMAIN call[p].final = DOMAIN call[p].words

\* A staged file belongs to a restore that is still to publish or remove it, unless
\* its process died or it could not be removed: "Temporary files are removed"
\* (personal-backups.md; _restore_locked and _cleanup_staged).
TempsAreAnswered ==
    \A t \in temps :
        \/ t[1] = Nobody \/ t[1] \in dead
        \/ call[t[1]].pc \in {"prepare", "publish", "rollback", "cleanup"}

\* The store as it would be without the restore that is being published: what that
\* restore has replaced so far still counts as it was.
Owner(l) == {p \in Processes \ dead : l \in Range(call[p].published)}
Stored == [l \in Locales |-> IF Owner(l) = {} THEN disk[l]
                             ELSE call[CHOOSE p \in Owner(l) : TRUE].original[l]]

Requested(p) == IF p \in dead \/ call[p].pc \notin Undecided
                THEN [op |-> "none", words |-> <<>>]
                ELSE [op |-> call[p].op, words |-> call[p].words]
DecisionOf(p) == IF p \in dead /\ call[p].pc \in Undecided
                 THEN IF call[p].published = <<>> THEN "failed" ELSE "torn"
                 ELSE call[p].decision

Store == INSTANCE AtomicStore WITH
            stored <- Stored, backup <- Parse(file),
            request <- [p \in Processes |-> Requested(p)],
            decision <- [p \in Processes |-> DecisionOf(p)]

\* Every call happens at one moment or not at all: a restore replaces all its
\* locales, from the words of that moment; one that reports a failure changed
\* nothing, unless a rollback failed; an export is the store of one moment; and no
\* mutation is lost (restore, export, _rollback and the store lock).
CallsAreAtomic == Store!Spec

\* Every call of a process that lives returns: the wait for the lock is bounded and
\* a rollback goes on after a failure (_locked_store, _rollback).
CallsEnd == \A p \in Processes : call[p].pc # "idle" ~> call[p].pc = "idle" \/ p \in dead
=============================================================================
