------------------------- MODULE PersonalDictionary -------------------------
(***************************************************************************)
(* personal.py: the personal words of one locale, kept in a JSON file that *)
(* several PersonalDictionary instances, usually in several processes,     *)
(* share.  Each mutation takes two lock files (the store's, then the       *)
(* locale's), reloads the file, changes the words in memory and replaces   *)
(* the file.  Reading takes no lock: the file is loaded again when its     *)
(* signature (mtime and size) is not the one last seen.                    *)
(*                                                                         *)
(* An action is one system call with the computation that follows it, so   *)
(* that instances interleave between system calls.  The RLock of an        *)
(* instance serializes its threads: an instance runs one call at a time.   *)
(*                                                                         *)
(* Signatures are only compared for equality with the file's present one,  *)
(* so an instance records whether its own is current; every replacement is *)
(* taken to change the file's signature.                                   *)
(***************************************************************************)
EXTENDS Naturals, FiniteSets

CONSTANTS
  Words,       \* normalized personal words
  Instances,   \* PersonalDictionary objects for one locale and root
  Nobody,      \* the owner of a lock file that does not exist
  WordLists,   \* bound: what callers pass to add_words and remove_words
  Calls,       \* bound: the kinds of calls that are made
  CrashProne,  \* the instances whose process may end in the middle of a call
  Faults       \* which of the calls "load", "mkstemp" and "write" may fail

ASSUME NobodyAssumption == Nobody \notin Instances
ASSUME WordListsAssumption == WordLists \subseteq SUBSET Words \ {{}}
ASSUME CallsAssumption == Calls \subseteq {"add", "remove", "clear", "refresh", "reload"}
ASSUME CrashProneAssumption == CrashProne \subseteq Instances
ASSUME FaultsAssumption == Faults \subseteq {"load", "mkstemp", "write"}

VARIABLES
  disk,   \* the file
  lock,   \* lock[p]: lock file p
  mem,    \* mem[i]: the fields of instance i
  call    \* call[i]: the call instance i is running

vars == <<disk, lock, mem, call>>

Locks == {"store", "locale"}   \* .personal-dictionaries.lock, .<locale>.lock

File == [exists : BOOLEAN, words : SUBSET Words]

NoFile == [exists |-> FALSE, words |-> {}]

LockFile == [owner : Instances \cup {Nobody},   \* who created it, if it exists
             old   : BOOLEAN]                   \* older than stale_lock_seconds

Absent == [owner |-> Nobody, old |-> FALSE]

Memory ==
  [words   : SUBSET Words,
   loaded  : BOOLEAN,
   current : BOOLEAN]         \* _signature is the file's present signature

Mutations == {"add", "remove", "clear"}

Call ==
  [pc      : {"idle", "open", "inspect", "unlink", "compare", "read", "stat",
              "save", "sign", "release", "crashed"},
   kind    : Mutations \cup {"restore", "refresh", "reload", "none"},
   arg     : SUBSET Words,
   lock    : Locks,           \* the lock being acquired or released
   seen    : SUBSET Words,    \* what was read, until it is stored
   outcome : {"none", "done", "failed"}]   \* of the last mutation

TypeOK ==
  /\ disk \in File
  /\ lock \in [Locks -> LockFile]
  /\ mem \in [Instances -> Memory]
  /\ call \in [Instances -> Call]

At(i, pc) == call[i].pc = pc

\* Instance i goes on at pc.
Goto(i, pc) == call' = [call EXCEPT ![i].pc = pc]

Ends(i) == call' = [call EXCEPT ![i].pc = "idle", ![i].kind = "none",
                                ![i].arg = {}, ![i].seen = {}]

\* The mutation of i is decided and its locks are released, this one first.
Decided(i, outcome, p) ==
  call' = [call EXCEPT ![i].pc = "release", ![i].lock = p, ![i].seen = {},
                       ![i].outcome = outcome, ![i].kind = "none", ![i].arg = {}]

-----------------------------------------------------------------------------
(* Calls begin.                                                             *)

\* add_words, remove_words and clear.
BeginMutation(i, kind, W) ==
  /\ kind \in Calls
  /\ At(i, "idle")
  /\ call' = [call EXCEPT ![i] = [pc |-> "open", kind |-> kind, arg |-> W,
                                  lock |-> "store", seen |-> {}, outcome |-> "none"]]
  /\ UNCHANGED <<disk, lock, mem>>

\* contains, words and revision compare signatures first; reload does not.
BeginRefresh(i) ==
  /\ "refresh" \in Calls
  /\ At(i, "idle")
  /\ call' = [call EXCEPT ![i].pc = "compare", ![i].kind = "refresh"]
  /\ UNCHANGED <<disk, lock, mem>>

BeginReload(i) ==
  /\ "reload" \in Calls
  /\ At(i, "idle")
  /\ call' = [call EXCEPT ![i].pc = "read", ![i].kind = "reload"]
  /\ UNCHANGED <<disk, lock, mem>>

-----------------------------------------------------------------------------
(* _cooperative_file_lock.                                                  *)

\* os.open(O_CREAT | O_EXCL).  With both locks held, _load_from_disk begins.
OpenLock(i) ==
  LET p == call[i].lock
  IN  /\ At(i, "open")
      /\ IF lock[p] = Absent
         THEN /\ lock' = [lock EXCEPT ![p] = [owner |-> i, old |-> FALSE]]
              /\ call' = [call EXCEPT ![i].pc = IF p = "store" THEN "open" ELSE "read",
                                      ![i].lock = "locale"]
         ELSE Goto(i, "inspect") /\ UNCHANGED lock
      /\ UNCHANGED <<disk, mem>>

\* Mutants of InspectLock: the age is not looked at; old locks are waited for.
InspectLock_AnyAge(i) ==
  /\ At(i, "inspect")
  /\ IF lock[call[i].lock] = Absent THEN Goto(i, "open") ELSE Goto(i, "unlink")
  /\ UNCHANGED <<disk, lock, mem>>

InspectLock_NeverOld(i) ==
  /\ At(i, "inspect")
  /\ Goto(i, "open")
  /\ UNCHANGED <<disk, lock, mem>>

\* path.stat(): the lock is gone, old, or to be waited for until the deadline.
InspectLock(i) ==
  LET p == call[i].lock
  IN  /\ At(i, "inspect")
      /\ \/ lock[p] = Absent /\ Goto(i, "open")
         \/ lock[p].old /\ Goto(i, "unlink")
         \/ lock[p] # Absent /\ ~lock[p].old /\ Goto(i, "open")
      /\ UNCHANGED <<disk, lock, mem>>

\* Mutant of TimeOut: the store's lock is kept.
TimeOut_KeepsStore(i) ==
  LET p == call[i].lock
  IN  /\ At(i, "inspect")
      /\ lock[p] # Absent
      /\ ~lock[p].old
      /\ call' = [call EXCEPT ![i].pc = "idle", ![i].kind = "none", ![i].arg = {},
                              ![i].outcome = "failed"]
      /\ UNCHANGED <<disk, lock, mem>>

\* The deadline has passed: the locks already held are released.
TimeOut(i) ==
  LET p == call[i].lock
  IN  /\ At(i, "inspect")
      /\ lock[p] # Absent
      /\ ~lock[p].old
      /\ IF p = "locale" THEN Decided(i, "failed", "store")
         ELSE call' = [call EXCEPT ![i].pc = "idle", ![i].kind = "none", ![i].arg = {},
                                   ![i].outcome = "failed"]
      /\ UNCHANGED <<disk, lock, mem>>

\* path.unlink() of a lock found old, whichever file has that name by now.
UnlinkOldLock(i) ==
  /\ At(i, "unlink")
  /\ lock' = [lock EXCEPT ![call[i].lock] = Absent]
  /\ Goto(i, "open")
  /\ UNCHANGED <<disk, mem>>

\* The finally clauses, the locale's lock first.
ReleaseLock(i) ==
  /\ At(i, "release")
  /\ lock' = [lock EXCEPT ![call[i].lock] = Absent]
  /\ IF call[i].lock = "locale" THEN call' = [call EXCEPT ![i].lock = "store"]
     ELSE Ends(i)
  /\ UNCHANGED <<disk, mem>>

-----------------------------------------------------------------------------
(* Loading and saving.                                                      *)

\* The words in memory once the mutation is applied to W.
Changed(i, W) ==
  CASE call[i].kind = "add" -> W \cup call[i].arg
    [] call[i].kind = "remove" -> W \ call[i].arg
    [] call[i].kind = "clear" -> {}
    [] OTHER -> W

\* The end of _load_from_disk, having found the words W, and what its caller
\* goes on to do: a mutation that changes nothing does not save.
Loaded(i, W) ==
  /\ mem' = [mem EXCEPT ![i] = [words |-> Changed(i, W), loaded |-> TRUE,
                                current |-> TRUE]]
  /\ \/ /\ call[i].kind \in Mutations
        /\ Changed(i, W) # W
        /\ call' = [call EXCEPT ![i].pc = "save", ![i].seen = {}]
     \/ /\ call[i].kind \in Mutations
        /\ Changed(i, W) = W
        /\ Decided(i, "done", "locale")
     \/ call[i].kind = "restore" /\ Decided(i, "failed", "locale")
     \/ /\ call[i].kind = "reload"
        /\ call' = [call EXCEPT ![i].pc = "compare", ![i].kind = "refresh", ![i].seen = {}]
     \/ call[i].kind = "refresh" /\ Ends(i)

\* _refresh_if_changed
CompareSignature(i) ==
  /\ At(i, "compare")
  /\ IF mem[i].loaded /\ mem[i].current THEN Ends(i) ELSE Goto(i, "read")
  /\ UNCHANGED <<disk, lock, mem>>

\* The file is found absent, or opened and read.
ReadFile(i) ==
  /\ At(i, "read")
  /\ IF disk.exists
     THEN call' = [call EXCEPT ![i].pc = "stat", ![i].seen = disk.words] /\ UNCHANGED mem
     ELSE Loaded(i, {})
  /\ UNCHANGED <<disk, lock>>

\* path.stat() after the reading gives the signature of the words read.
StatFile(i) ==
  /\ At(i, "stat")
  /\ Loaded(i, call[i].seen)
  /\ UNCHANGED <<disk, lock>>

\* Mutant of LoadFails: the OSError reaches the caller as it is.
LoadFails_Unwrapped(i) ==
  /\ "load" \in Faults
  /\ At(i, "read")
  /\ disk.exists
  /\ IF call[i].kind \in {"refresh", "reload"} THEN Ends(i)
     ELSE Decided(i, "OSError", "locale")
  /\ UNCHANGED <<disk, lock, mem>>

\* PersonalDictionaryError: nothing is loaded.  After a failed save it is ignored.
LoadFails(i) ==
  /\ "load" \in Faults
  /\ At(i, "read")
  /\ disk.exists
  /\ IF call[i].kind \in {"refresh", "reload"} THEN Ends(i)
     ELSE Decided(i, "failed", "locale")
  /\ UNCHANGED <<disk, lock, mem>>

\* os.replace: from here on everybody's signature is out of date.
ReplaceFile(i) ==
  /\ At(i, "save")
  /\ disk' = [exists |-> TRUE, words |-> mem[i].words]
  /\ mem' = [k \in Instances |-> [mem[k] EXCEPT !.current = FALSE]]
  /\ call' = [call EXCEPT ![i].pc = "sign", ![i].kind = "none", ![i].arg = {},
                          ![i].outcome = "done"]
  /\ UNCHANGED lock

\* path.stat() after the replacement.  Its failure is left out: the words would be
\* stored and the call would report that they are not (personal.py:298).
SignFile(i) ==
  /\ At(i, "sign")
  /\ mem' = [mem EXCEPT ![i].current = TRUE]
  /\ Decided(i, "done", "locale")
  /\ UNCHANGED <<disk, lock>>

\* The temporary file cannot be written or moved: the last words are restored.
WriteFails(i) ==
  /\ "write" \in Faults
  /\ At(i, "save")
  /\ call' = [call EXCEPT ![i].pc = "read", ![i].kind = "restore", ![i].arg = {},
                          ![i].outcome = "failed"]
  /\ UNCHANGED <<disk, lock, mem>>

\* mkdir or mkstemp raises, outside the try that restores the words.
MkstempFails(i) ==
  /\ "mkstemp" \in Faults
  /\ At(i, "save")
  /\ Decided(i, "failed", "locale")
  /\ UNCHANGED <<disk, lock, mem>>

-----------------------------------------------------------------------------
(* Processes, clocks and callers.                                           *)

\* The process ends: its lock files and temporary files stay.
Crash(i) ==
  /\ i \in CrashProne
  /\ call[i].pc \notin {"idle", "crashed"}
  /\ call' = [call EXCEPT ![i].pc = "crashed", ![i].kind = "none", ![i].arg = {},
                          ![i].seen = {}]
  /\ UNCHANGED <<disk, lock, mem>>

\* stale_lock_seconds pass.  A live owner is taken to be done before that.
LockAges(p) ==
  /\ lock[p] # Absent
  /\ ~lock[p].old
  /\ At(lock[p].owner, "crashed")
  /\ lock' = [lock EXCEPT ![p].old = TRUE]
  /\ UNCHANGED <<disk, mem, call>>

Init ==
  /\ disk \in {NoFile} \cup [exists : {TRUE}, words : SUBSET Words]
  /\ lock = [p \in Locks |-> Absent]
  /\ mem = [i \in Instances |-> [words |-> {}, loaded |-> FALSE, current |-> FALSE]]
  /\ call = [i \in Instances |-> [pc |-> "idle", kind |-> "none", arg |-> {},
                                  lock |-> "store", seen |-> {}, outcome |-> "none"]]

Begin(i) ==
  \/ \E W \in WordLists, kind \in {"add", "remove"} : BeginMutation(i, kind, W)
  \/ BeginMutation(i, "clear", {})
  \/ BeginRefresh(i)
  \/ BeginReload(i)

Proceed(i) ==
  \/ OpenLock(i) \/ InspectLock(i) \/ UnlinkOldLock(i)
  \/ CompareSignature(i) \/ ReadFile(i) \/ StatFile(i)
  \/ ReplaceFile(i) \/ SignFile(i) \/ ReleaseLock(i)

Fails(i) == TimeOut(i) \/ LoadFails(i) \/ WriteFails(i) \/ MkstempFails(i)

Next ==
  \/ \E i \in Instances : Begin(i) \/ Proceed(i) \/ Fails(i) \/ Crash(i)
  \/ \E p \in Locks : LockAges(p)

\* A call that has begun goes on, and time passes.
Fairness ==
  /\ \A i \in Instances : WF_vars(Proceed(i))
  /\ \A p \in Locks : WF_vars(LockAges(p))

Spec == Init /\ [][Next]_vars

FairSpec == Spec /\ Fairness
-----------------------------------------------------------------------------
(* Properties.                                                              *)

\* Between having both locks and beginning to release them.
Critical(i) ==
  /\ call[i].pc \in {"read", "stat", "save", "sign"}
  /\ call[i].kind \notin {"refresh", "reload"}

Acquiring(i) == call[i].pc \in {"open", "inspect", "unlink"}

Holds(i, p) ==
  \/ Critical(i)
  \/ At(i, "release") /\ (p = "store" \/ call[i].lock = "locale")
  \/ Acquiring(i) /\ p = "store" /\ call[i].lock = "locale"

\* A lock file exists exactly while its creator holds it or is dead: error paths
\* (time-outs, failed loads and saves) leave none behind, nobody removes the lock
\* of a live owner, and so at most one instance loads and saves at a time.
LocksTellHolders ==
  \A i \in Instances : \A p \in Locks :
    ~At(i, "crashed") => (lock[p].owner = i <=> Holds(i, p))

\* The mutation of i that is not decided yet.
Undecided(i) ==
  IF call[i].kind \in Mutations THEN [kind |-> call[i].kind, words |-> call[i].arg]
  ELSE [kind |-> "none", words |-> {}]

Atomic == INSTANCE AtomicWords WITH
  stored  <- disk.words,
  request <- [i \in Instances |-> Undecided(i)],
  outcome <- [i \in Instances |-> call[i].outcome]

\* docs/personal-dictionary.md:49: "This prevents partial JSON files and avoids lost
\* sequential updates when ChordFlow and ChordPages share one storage root."
\* The words on disk change only by one whole mutation applied to the latest ones.
MutationsAreAtomic == Atomic!Spec

Stopped(i) == call[i].pc \in {"idle", "crashed"}

\* Once callers pause, every call returns, although the owner of a lock may have
\* died in the middle of its own: the locks it left are recovered.
CallsEnd ==
  <>[][\A i \in Instances : ~Begin(i)]_vars => \A i \in Instances : <>[]Stopped(i)

\* docs/personal-dictionary.md:74: "`revision` increments when an instance observes a
\* new disk snapshot".  An instance that takes its signature for the file's
\* has the file's words.
SnapshotsFollowDisk ==
  \A i \in Instances :
    At(i, "idle") /\ mem[i].loaded /\ mem[i].current => mem[i].words = disk.words
=============================================================================
