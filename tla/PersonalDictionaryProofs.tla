---------------------- MODULE PersonalDictionaryProofs ----------------------
(***************************************************************************)
(* Proofs about PersonalDictionary for any number of instances and words,  *)
(* any calls, faults and crashes.                                          *)
(***************************************************************************)
EXTENDS PersonalDictionary, TLAPS

-----------------------------------------------------------------------------
(* Types.                                                                   *)

LEMMA ChangedType ==
  ASSUME TypeOK, NEW i \in Instances, NEW W \in SUBSET Words
  PROVE  Changed(i, W) \in SUBSET Words
BY DEF Changed, TypeOK, Call

\* The call of one instance changes.
LEMMA CallType ==
  ASSUME TypeOK, NEW i \in Instances, NEW c \in Call, call' = [call EXCEPT ![i] = c]
  PROVE  call' \in [Instances -> Call]
BY DEF TypeOK

LEMMA EndsType ==
  ASSUME TypeOK, NEW i \in Instances, Ends(i) PROVE call' \in [Instances -> Call]
<1> DEFINE c == [call[i] EXCEPT !.pc = "idle", !.kind = "none", !.arg = {}, !.seen = {}]
<1>1. c \in Call
  BY ZenonT(60) DEF TypeOK, Call, Mutations, Locks
<1>2. call' = [call EXCEPT ![i] = c]
  BY DEF Ends, TypeOK
<1> QED
  BY <1>1, <1>2, CallType

LEMMA DecidedType ==
  ASSUME TypeOK, NEW i \in Instances, NEW outcome \in {"done", "failed"},
         NEW p \in Locks, Decided(i, outcome, p)
  PROVE  call' \in [Instances -> Call]
<1> DEFINE c == [call[i] EXCEPT !.pc = "release", !.lock = p, !.seen = {},
                               !.outcome = outcome, !.kind = "none", !.arg = {}]
<1>1. c \in Call
  BY ZenonT(60) DEF TypeOK, Call
<1>2. call' = [call EXCEPT ![i] = c]
  BY DEF Decided, TypeOK
<1> QED
  BY <1>1, <1>2, CallType

LEMMA GotoType ==
  ASSUME TypeOK, NEW i \in Instances, Goto(i, "open") \/ Goto(i, "inspect")
           \/ Goto(i, "unlink") \/ Goto(i, "read")
  PROVE  call' \in [Instances -> Call]
BY DEF Goto, TypeOK, Call

LEMMA LoadedType ==
  ASSUME TypeOK, NEW i \in Instances, NEW W \in SUBSET Words, Loaded(i, W)
  PROVE  mem' \in [Instances -> Memory] /\ call' \in [Instances -> Call]
<1>1. mem' \in [Instances -> Memory]
  BY ChangedType DEF Loaded, TypeOK, Memory
<1>2. CASE call' = [call EXCEPT ![i].pc = "save", ![i].seen = {}]
  <2> DEFINE c == [call[i] EXCEPT !.pc = "save", !.seen = {}]
  <2>1. c \in Call
    BY ZenonT(60) DEF TypeOK, Call, Mutations, Locks
  <2>2. call' = [call EXCEPT ![i] = c]
    BY <1>2 DEF TypeOK
  <2> QED
    BY <2>1, <2>2, CallType, <1>1
<1>3. CASE call' = [call EXCEPT ![i].pc = "compare", ![i].kind = "refresh", ![i].seen = {}]
  <2> DEFINE c == [call[i] EXCEPT !.pc = "compare", !.kind = "refresh", !.seen = {}]
  <2>1. c \in Call
    BY ZenonT(60) DEF TypeOK, Call, Mutations, Locks
  <2>2. call' = [call EXCEPT ![i] = c]
    BY <1>3 DEF TypeOK
  <2> QED
    BY <2>1, <2>2, CallType, <1>1
<1>4. CASE \E o \in {"done", "failed"} : Decided(i, o, "locale")
  BY <1>1, <1>4, DecidedType DEF Locks
<1>5. CASE Ends(i)
  BY <1>1, <1>5, EndsType
<1> QED
  BY <1>2, <1>3, <1>4, <1>5 DEF Loaded

LEMMA BeginType ==
  ASSUME TypeOK, NEW i \in Instances, Begin(i) PROVE TypeOK'
<1>1. ASSUME NEW kind \in Mutations, NEW W \in SUBSET Words, BeginMutation(i, kind, W)
      PROVE  TypeOK'
  BY <1>1 DEF BeginMutation, TypeOK, Call, Mutations, Locks
<1>2. CASE BeginRefresh(i)
  <2> DEFINE c == [call[i] EXCEPT !.pc = "compare", !.kind = "refresh"]
  <2>1. c \in Call
    BY ZenonT(60) DEF TypeOK, Call, Mutations, Locks
  <2>2. call' = [call EXCEPT ![i] = c]
    BY <1>2 DEF BeginRefresh, TypeOK
  <2> QED
    BY <2>1, <2>2, CallType, <1>2 DEF BeginRefresh, TypeOK
<1>3. CASE BeginReload(i)
  <2> DEFINE c == [call[i] EXCEPT !.pc = "read", !.kind = "reload"]
  <2>1. c \in Call
    BY ZenonT(60) DEF TypeOK, Call, Mutations, Locks
  <2>2. call' = [call EXCEPT ![i] = c]
    BY <1>3 DEF BeginReload, TypeOK
  <2> QED
    BY <2>1, <2>2, CallType, <1>3 DEF BeginReload, TypeOK
<1> QED
  BY <1>1, <1>2, <1>3, WordListsAssumption DEF Begin, Mutations

LEMMA ProceedType ==
  ASSUME TypeOK, NEW i \in Instances, Proceed(i) PROVE TypeOK'
<1>1. CASE OpenLock(i)
  <2>1. lock' \in [Locks -> LockFile]
    <3>1. [owner |-> i, old |-> FALSE] \in LockFile
      BY DEF LockFile
    <3> QED
      BY <1>1, <3>1 DEF OpenLock, TypeOK
  <2>2. call' \in [Instances -> Call]
    BY <1>1, GotoType DEF OpenLock, TypeOK, Call, Locks
  <2> QED
    BY <1>1, <2>1, <2>2 DEF OpenLock, TypeOK
<1>2. CASE InspectLock(i)
  BY <1>2, GotoType DEF InspectLock, TypeOK
<1>3. CASE UnlinkOldLock(i)
  <2>1. lock' \in [Locks -> LockFile]
    BY <1>3 DEF UnlinkOldLock, Absent, TypeOK, LockFile
  <2> QED
    BY <1>3, <2>1, GotoType DEF UnlinkOldLock, TypeOK
<1>4. CASE CompareSignature(i)
  BY <1>4, GotoType, EndsType DEF CompareSignature, TypeOK
<1>5. CASE ReadFile(i)
  <2>1. disk.words \in SUBSET Words
    BY DEF TypeOK, File
  <2>2. CASE call' = [call EXCEPT ![i].pc = "stat", ![i].seen = disk.words] /\ UNCHANGED mem
    <3> DEFINE c == [call[i] EXCEPT !.pc = "stat", !.seen = disk.words]
    <3>1. c \in Call
      BY ZenonT(60), <2>1 DEF TypeOK, Call, Mutations, Locks
    <3>2. call' = [call EXCEPT ![i] = c]
      BY <2>2 DEF TypeOK
    <3> QED
      BY <3>1, <3>2, CallType, <1>5, <2>2 DEF ReadFile, TypeOK
  <2>3. CASE Loaded(i, {})
    BY <1>5, <2>3, LoadedType DEF ReadFile, TypeOK
  <2> QED
    BY <1>5, <2>2, <2>3 DEF ReadFile
<1>6. CASE StatFile(i)
  <2>1. call[i].seen \in SUBSET Words
    BY DEF TypeOK, Call
  <2> QED
    BY <1>6, <2>1, LoadedType DEF StatFile, TypeOK
<1>7. CASE ReplaceFile(i)
  <2>1. disk' \in File
    BY <1>7 DEF ReplaceFile, TypeOK, File, Memory
  <2>2. mem' \in [Instances -> Memory]
    BY <1>7 DEF ReplaceFile, TypeOK, Memory
  <2>3. call' \in [Instances -> Call]
    <3> DEFINE c == [call[i] EXCEPT !.pc = "sign", !.kind = "none", !.arg = {}, !.outcome = "done"]
    <3>1. c \in Call
      BY ZenonT(60) DEF TypeOK, Call, Mutations, Locks
    <3>2. call' = [call EXCEPT ![i] = c]
      BY <1>7 DEF ReplaceFile, TypeOK
    <3> QED
      BY <3>1, <3>2, CallType
  <2> QED
    BY <1>7, <2>1, <2>2, <2>3 DEF ReplaceFile, TypeOK
<1>8. CASE SignFile(i)
  <2>1. mem' \in [Instances -> Memory]
    BY <1>8 DEF SignFile, TypeOK, Memory
  <2> QED
    BY <1>8, <2>1, DecidedType DEF SignFile, TypeOK, Locks
<1>9. CASE ReleaseLock(i)
  <2>1. lock' \in [Locks -> LockFile]
    BY <1>9 DEF ReleaseLock, Absent, TypeOK, LockFile
  <2>2. call' \in [Instances -> Call]
    BY <1>9, EndsType DEF ReleaseLock, TypeOK, Call, Locks
  <2> QED
    BY <1>9, <2>1, <2>2 DEF ReleaseLock, TypeOK
<1> QED
  BY <1>1, <1>2, <1>3, <1>4, <1>5, <1>6, <1>7, <1>8, <1>9 DEF Proceed

LEMMA FailsType ==
  ASSUME TypeOK, NEW i \in Instances, Fails(i) PROVE TypeOK'
<1>1. CASE TimeOut(i)
  <2>1. call' \in [Instances -> Call]
    BY <1>1, DecidedType DEF TimeOut, TypeOK, Call, Locks
  <2> QED
    BY <1>1, <2>1 DEF TimeOut, TypeOK
<1>2. CASE LoadFails(i)
  BY <1>2, EndsType, DecidedType DEF LoadFails, TypeOK, Locks
<1>3. CASE WriteFails(i)
  <2> DEFINE c == [call[i] EXCEPT !.pc = "read", !.kind = "restore", !.arg = {},
                                 !.outcome = "failed"]
  <2>1. c \in Call
    BY ZenonT(60) DEF TypeOK, Call, Mutations, Locks
  <2>2. call' = [call EXCEPT ![i] = c]
    BY <1>3 DEF WriteFails, TypeOK
  <2> QED
    BY <2>1, <2>2, CallType, <1>3 DEF WriteFails, TypeOK
<1>4. CASE MkstempFails(i)
  BY <1>4, DecidedType DEF MkstempFails, TypeOK, Locks
<1> QED
  BY <1>1, <1>2, <1>3, <1>4 DEF Fails

LEMMA InitType == Init => TypeOK
<1>1. Init => disk \in File
  <2>1. NoFile \in File /\ [exists : {TRUE}, words : SUBSET Words] \subseteq File
    BY DEF NoFile, File
  <2> QED
    BY <2>1 DEF Init
<1>2. Init => lock \in [Locks -> LockFile]
  BY DEF Init, Absent, LockFile
<1>3. Init => mem \in [Instances -> Memory] /\ call \in [Instances -> Call]
  BY DEF Init, Memory, Call, Locks
<1> QED
  BY <1>1, <1>2, <1>3 DEF TypeOK

LEMMA CallTypesInductive == TypeOK /\ [Next]_vars => TypeOK'
<1> SUFFICES ASSUME TypeOK, [Next]_vars PROVE TypeOK'
  OBVIOUS
<1>1. ASSUME NEW i \in Instances, Begin(i) \/ Proceed(i) \/ Fails(i) PROVE TypeOK'
  BY <1>1, BeginType, ProceedType, FailsType
<1>2. ASSUME NEW i \in Instances, Crash(i) PROVE TypeOK'
  <2> DEFINE c == [call[i] EXCEPT !.pc = "crashed", !.kind = "none", !.arg = {}, !.seen = {}]
  <2>1. c \in Call
    BY ZenonT(60) DEF TypeOK, Call, Mutations, Locks
  <2>2. call' = [call EXCEPT ![i] = c]
    BY <1>2 DEF Crash, TypeOK
  <2> QED
    BY <2>1, <2>2, CallType, <1>2 DEF Crash, TypeOK
<1>3. ASSUME NEW p \in Locks, LockAges(p) PROVE TypeOK'
  BY <1>3 DEF LockAges, TypeOK, LockFile
<1>4. CASE UNCHANGED vars
  BY <1>4 DEF vars, TypeOK
<1> QED
  BY <1>1, <1>2, <1>3, <1>4 DEF Next

\* Every reachable state of the personal dictionaries is well typed: in particular
\* what is read from the file and kept in memory is a set of words.
THEOREM PersonalTypeCorrect == Spec => []TypeOK
BY InitType, CallTypesInductive, PTL DEF Spec

-----------------------------------------------------------------------------
(* As long as a takeover removes the lock that was found old, locks         *)
(* exclude, errors release them, and PersonalDictionary implements          *)
(* AtomicWords, although any process may die at any moment.  Two instances  *)
(* never take over anything else.                                           *)

\* i removes no lock that was created after it found an old one.
UnlinksOld(i) == UnlinkOldLock(i) => lock[call[i].lock].old

TakeoversAreOfOldLocks == [][\A i \in Instances : UnlinksOld(i)]_vars

-----------------------------------------------------------------------------
(* The invariant.                                                           *)

\* Holds(i, p) and the undecided mutation, of an instance whose call is c.
InCritical(c) ==
  /\ c.pc \in {"read", "stat", "save", "sign"}
  /\ c.kind \notin {"refresh", "reload"}

Held(c, p) ==
  \/ InCritical(c)
  \/ c.pc = "release" /\ (p = "store" \/ c.lock = "locale")
  \/ c.pc \in {"open", "inspect", "unlink"} /\ p = "store" /\ c.lock = "locale"

\* What each program counter says about the kind of call, the file and the words.
Consistent(d, m, c) ==
  /\ c.pc \in {"open", "inspect", "unlink"} => c.kind \in Mutations
  /\ c.pc = "compare" => c.kind = "refresh"
  /\ c.pc \in {"read", "stat"} => c.kind # "none"
  /\ c.pc = "stat" /\ InCritical(c) => c.seen = d.words
  /\ c.pc = "save" => /\ c.kind \in Mutations
                      /\ m.words = Atomic!Effect([kind |-> c.kind, words |-> c.arg], d.words)
  /\ c.pc \in {"idle", "sign", "release", "crashed"} => c.kind = "none"
  /\ c.pc = "sign" => c.outcome = "done"
  /\ c.kind = "restore" => c.outcome = "failed"

\* The owner of a lock file is dead.
Abandoned(l, calls) == l.owner \in Instances /\ calls[l.owner].pc = "crashed"

Exclusive ==
  /\ TypeOK
  /\ disk.exists \/ disk.words = {}
  /\ \A p \in Locks : lock[p].old => Abandoned(lock[p], call)
  /\ \A i \in Instances : Consistent(disk, mem[i], call[i])
  /\ \A i \in Instances : \A p \in Locks :
       call[i].pc # "crashed" => (lock[p].owner = i <=> Held(call[i], p))

LEMMA ExclusiveMeans == Exclusive => LocksTellHolders
BY DEF Exclusive, LocksTellHolders, Holds, Held, Critical, InCritical, Acquiring, At

\* Nobody else is in the critical section.
LEMMA AloneInside ==
  ASSUME Exclusive, NEW i \in Instances, InCritical(call[i]),
         NEW k \in Instances \ {i}
  PROVE  ~InCritical(call[k])
<1>1. lock["store"].owner = i
  BY DEF Exclusive, InCritical, Held, Locks
<1> QED
  BY <1>1 DEF Exclusive, InCritical, Held, Locks

-----------------------------------------------------------------------------
(* Steps that touch neither the file nor the locks.                         *)

\* The rest of the invariant, for a step of i that keeps the locks it holds.
LEMMA LocalStep ==
  ASSUME Exclusive, TypeOK', NEW i \in Instances, NEW c,
         UNCHANGED <<disk, lock>>,
         call' = [call EXCEPT ![i] = c],
         \A k \in Instances \ {i} : mem'[k] = mem[k],
         Consistent(disk, mem'[i], c),
         c.pc = "crashed" \/ (call[i].pc # "crashed" /\ \A p \in Locks : Held(c, p) <=> Held(call[i], p))
  PROVE  Exclusive'
<1>1. call'[i] = c /\ \A k \in Instances \ {i} : call'[k] = call[k]
  BY DEF Exclusive, TypeOK
<1>2. \A k \in Instances : Consistent(disk, mem'[k], call'[k])
  BY <1>1 DEF Exclusive
<1>3. \A k \in Instances : \A p \in Locks :
        call'[k].pc # "crashed" => (lock[p].owner = k <=> Held(call'[k], p))
  BY <1>1 DEF Exclusive
<1>4. \A p \in Locks : lock'[p].old => Abandoned(lock'[p], call')
  BY <1>1 DEF Exclusive, Abandoned
<1> QED
  BY <1>2, <1>3, <1>4 DEF Exclusive

-----------------------------------------------------------------------------
(* The abstract step.                                                       *)

AtomicStep == [Atomic!Next]_Atomic!vars

Request(c) ==
  IF c.kind \in Mutations THEN [kind |-> c.kind, words |-> c.arg]
  ELSE [kind |-> "none", words |-> {}]

requests == [i \in Instances |-> Undecided(i)]

outcomes == [i \in Instances |-> call[i].outcome]

LEMMA RequestIs ==
  \A i \in Instances : requests[i] = Request(call[i]) /\ outcomes[i] = call[i].outcome
BY DEF requests, outcomes, Request, Undecided

\* A request of a mutation is a request of AtomicWords.
LEMMA RequestType ==
  ASSUME NEW c \in Call
  PROVE  /\ c.kind \in Mutations => Request(c) \in Atomic!Requests /\ Request(c) # Atomic!NoRequest
         /\ c.kind \notin Mutations => Request(c) = Atomic!NoRequest
BY DEF Call, Request, Mutations, Atomic!Requests, Atomic!NoRequest

LEMMA MappedStep ==
  ASSUME TypeOK, NEW i \in Instances, NEW c, call' = [call EXCEPT ![i] = c]
  PROVE  /\ requests' = [requests EXCEPT ![i] = Request(c)]
         /\ outcomes' = [outcomes EXCEPT ![i] = c.outcome]
<1>1. call'[i] = c /\ \A k \in Instances \ {i} : call'[k] = call[k]
  BY DEF TypeOK
<1>2. \A k \in Instances : requests'[k] = IF k = i THEN Request(c) ELSE requests[k]
  BY <1>1 DEF requests, Undecided, Request
<1>3. \A k \in Instances : outcomes'[k] = IF k = i THEN c.outcome ELSE outcomes[k]
  BY <1>1 DEF outcomes
<1> QED
  BY <1>2, <1>3 DEF requests, outcomes

\* A step of i that neither decides a mutation nor begins one.
LEMMA QuietStep ==
  ASSUME TypeOK, NEW i \in Instances, NEW c, call' = [call EXCEPT ![i] = c],
         disk'.words = disk.words, Request(c) = Request(call[i]),
         c.outcome = call[i].outcome
  PROVE  AtomicStep
<1>1. requests' = [requests EXCEPT ![i] = Request(c)] /\ requests[i] = Request(c)
  BY MappedStep, RequestIs
<1>2. outcomes' = [outcomes EXCEPT ![i] = c.outcome] /\ outcomes[i] = c.outcome
  BY MappedStep, RequestIs
<1>3. requests' = requests
  BY <1>1 DEF requests
<1>4. outcomes' = outcomes
  BY <1>2 DEF outcomes
<1> QED
  BY <1>3, <1>4 DEF AtomicStep, Atomic!vars, requests, outcomes

\* A step of i that decides its mutation, or dies with it.
LEMMA DecidingStep ==
  ASSUME TypeOK, NEW i \in Instances, NEW c \in Call, call' = [call EXCEPT ![i] = c],
         call[i].kind \in Mutations, c.kind \notin Mutations,
         \/ c.outcome = "failed" /\ disk'.words = disk.words
         \/ c.outcome = "done" /\ disk'.words = Atomic!Effect(Request(call[i]), disk.words)
         \/ c.outcome = call[i].outcome /\ disk'.words = disk.words
  PROVE  AtomicStep
<1>1. call[i] \in Call
  BY DEF TypeOK
<1>2. requests[i] # Atomic!NoRequest /\ Request(c) = Atomic!NoRequest
  BY <1>1, RequestIs, RequestType
<1>3. /\ requests' = [requests EXCEPT ![i] = Atomic!NoRequest]
      /\ outcomes' = [outcomes EXCEPT ![i] = c.outcome]
  BY <1>2, MappedStep
<1>4. CASE c.outcome = "failed" /\ disk'.words = disk.words
  BY <1>2, <1>3, <1>4 DEF AtomicStep, Atomic!Next, Atomic!Fail, requests, outcomes
<1>5. CASE c.outcome = "done" /\ disk'.words = Atomic!Effect(Request(call[i]), disk.words)
  BY <1>2, <1>3, <1>5, RequestIs DEF AtomicStep, Atomic!Next, Atomic!Apply, requests, outcomes
<1>6. CASE c.outcome = call[i].outcome /\ disk'.words = disk.words
  <2>1. outcomes' = outcomes
    BY <1>3, <1>6, RequestIs DEF outcomes
  <2> QED
    BY <1>2, <1>3, <1>6, <2>1 DEF AtomicStep, Atomic!Next, Atomic!Lose, requests, outcomes
<1> QED
  BY <1>4, <1>5, <1>6

LEMMA SubmittingStep ==
  ASSUME TypeOK, NEW i \in Instances, NEW c \in Call, call' = [call EXCEPT ![i] = c],
         call[i].kind \notin Mutations, c.kind \in Mutations, c.outcome = "none",
         disk'.words = disk.words
  PROVE  AtomicStep
<1>1. call[i] \in Call
  BY DEF TypeOK
<1>2. requests[i] = Atomic!NoRequest /\ Request(c) \in Atomic!Requests
  BY <1>1, RequestIs, RequestType
<1>3. /\ requests' = [requests EXCEPT ![i] = Request(c)]
      /\ outcomes' = [outcomes EXCEPT ![i] = "none"]
  <2>1. /\ requests' = [requests EXCEPT ![i] = Request(c)]
        /\ outcomes' = [outcomes EXCEPT ![i] = c.outcome]
    BY MappedStep
  <2> QED
    BY <2>1
<1> QED
  BY <1>2, <1>3 DEF AtomicStep, Atomic!Next, Atomic!Submit, requests, outcomes

-----------------------------------------------------------------------------
(* One lemma per action.                                                    *)

Good == Exclusive' /\ AtomicStep

LEMMA NewCall ==
  ASSUME TypeOK, TypeOK', NEW i \in Instances, NEW c, call' = [call EXCEPT ![i] = c]
  PROVE  c \in Call /\ c = call'[i] /\ call[i] \in Call
BY DEF TypeOK

LEMMA BeginGood ==
  ASSUME Exclusive, TypeOK', NEW i \in Instances, Begin(i)
  PROVE  Good
<1>1. ASSUME NEW kind \in Mutations, NEW W, BeginMutation(i, kind, W)
      PROVE  Good
  <2> DEFINE c == [pc |-> "open", kind |-> kind, arg |-> W,
                   lock |-> "store", seen |-> {}, outcome |-> "none"]
  <2>1. call' = [call EXCEPT ![i] = c] /\ call[i].pc = "idle" /\ UNCHANGED <<disk, lock, mem>>
    BY <1>1 DEF BeginMutation, At
  <2>2. call[i].kind = "none"
    BY <2>1 DEF Exclusive, Consistent
  <2>3. Consistent(disk, mem'[i], c)
    BY DEF Consistent, InCritical, Mutations
  <2>4. \A p \in Locks : Held(c, p) <=> Held(call[i], p)
    BY <2>1 DEF Held, InCritical
  <2>5. Exclusive'
    BY <2>1, <2>3, <2>4, LocalStep
  <2>6. c \in Call
    BY <2>1, NewCall DEF Exclusive
  <2>7. c.kind \in Mutations /\ c.outcome = "none" /\ call[i].kind \notin Mutations
    BY <2>2 DEF Mutations
  <2> HIDE DEF c
  <2>8. AtomicStep
    BY <2>1, <2>6, <2>7, SubmittingStep DEF Exclusive
  <2> QED
    BY <2>5, <2>8 DEF Good
<1>2. ASSUME NEW pc \in {"compare", "read"}, NEW kind \in {"refresh", "reload"},
             call' = [call EXCEPT ![i].pc = pc, ![i].kind = kind], At(i, "idle"),
             pc = "compare" => kind = "refresh", UNCHANGED <<disk, lock, mem>>
      PROVE  Good
  <2> DEFINE c == [call[i] EXCEPT !.pc = pc, !.kind = kind]
  <2>1. call' = [call EXCEPT ![i] = c] /\ call[i].pc = "idle"
    BY ZenonT(60), <1>2 DEF At, Exclusive, TypeOK
  <2>2. c.pc = pc /\ c.kind = kind /\ c.outcome = call[i].outcome
    BY DEF Exclusive, TypeOK, Call
  <2>3. call[i].kind = "none"
    BY <2>1 DEF Exclusive, Consistent
  <2> HIDE DEF c
  <2>4. Consistent(disk, mem'[i], c)
    BY <1>2, <2>2 DEF Consistent, InCritical, Mutations
  <2>5. \A p \in Locks : Held(c, p) <=> Held(call[i], p)
    BY <1>2, <2>1, <2>2 DEF Held, InCritical
  <2>6. Exclusive'
    BY <1>2, <2>1, <2>4, <2>5, LocalStep
  <2>7. Request(c) = Request(call[i])
    BY <1>2, <2>2, <2>3 DEF Request, Mutations
  <2>8. AtomicStep
    <3>1. TypeOK /\ call' = [call EXCEPT ![i] = c] /\ disk'.words = disk.words
          /\ c.outcome = call[i].outcome
      BY <1>2, <2>1, <2>2 DEF Exclusive
    <3> QED
      BY <2>7, <3>1, QuietStep
  <2> QED
    BY <2>6, <2>8 DEF Good
<1>3. CASE BeginRefresh(i)
  BY <1>2, <1>3 DEF BeginRefresh
<1>4. CASE BeginReload(i)
  BY <1>2, <1>4 DEF BeginReload
<1> QED
  BY <1>1, <1>3, <1>4 DEF Begin, Mutations

\* Goto while waiting for a lock or before reading.
LEMMA GotoGood ==
  ASSUME Exclusive, TypeOK', NEW i \in Instances, NEW pc,
         Goto(i, pc), UNCHANGED <<disk, lock, mem>>,
         \/ call[i].pc \in {"open", "inspect"} /\ pc \in {"open", "inspect", "unlink"}
         \/ call[i].pc = "compare" /\ pc = "read"
  PROVE  Good
<1> DEFINE c == [call[i] EXCEPT !.pc = pc]
<1>1. call' = [call EXCEPT ![i] = c]
  BY DEF Goto, Exclusive, TypeOK
<1>2. /\ c.pc = pc /\ c.kind = call[i].kind /\ c.outcome = call[i].outcome
      /\ c.lock = call[i].lock /\ c.arg = call[i].arg /\ c.seen = call[i].seen
  BY DEF Exclusive, TypeOK, Call
<1>3. Consistent(disk, mem[i], call[i])
  BY DEF Exclusive
<1> HIDE DEF c
<1>4. Consistent(disk, mem'[i], c)
  BY <1>2, <1>3 DEF Consistent, InCritical
<1>5. \A p \in Locks : Held(c, p) <=> Held(call[i], p)
  BY <1>2, <1>3 DEF Held, InCritical, Consistent
<1>6. Exclusive'
  BY <1>1, <1>2, <1>4, <1>5, LocalStep
<1>7. AtomicStep
  BY <1>1, <1>2, QuietStep DEF Exclusive, Request
<1> QED
  BY <1>6, <1>7 DEF Good

\* A call that is not a mutation, or not any more, ends holding nothing.
LEMMA EndsGood ==
  ASSUME Exclusive, TypeOK', NEW i \in Instances, Ends(i), UNCHANGED <<disk, lock>>,
         \A k \in Instances \ {i} : mem'[k] = mem[k],
         call[i].kind \in {"refresh", "reload"}, call[i].pc \in {"compare", "read", "stat"}
  PROVE  Good
<1> DEFINE c == [call[i] EXCEPT !.pc = "idle", !.kind = "none", !.arg = {}, !.seen = {}]
<1>1. call' = [call EXCEPT ![i] = c]
  BY ZenonT(60) DEF Ends, Exclusive, TypeOK
<1>2. c.pc = "idle" /\ c.kind = "none" /\ c.outcome = call[i].outcome
  BY DEF Exclusive, TypeOK, Call
<1> HIDE DEF c
<1>3. Consistent(disk, mem'[i], c)
  BY <1>2 DEF Consistent, InCritical
<1>4. \A p \in Locks : Held(c, p) <=> Held(call[i], p)
  BY <1>2 DEF Held, InCritical
<1>5. Exclusive'
  BY <1>1, <1>3, <1>4, LocalStep
<1>6. Request(c) = Request(call[i])
  BY <1>2 DEF Request, Mutations
<1>7. AtomicStep
  BY <1>1, <1>2, <1>6, QuietStep DEF Exclusive
<1> QED
  BY <1>5, <1>7 DEF Good

\* From the critical section, or from waiting for the locale's lock, to releasing.
LEMMA DecidedGood ==
  ASSUME Exclusive, TypeOK', NEW i \in Instances, NEW outcome, NEW q \in Locks,
         Decided(i, outcome, q), UNCHANGED <<disk, lock>>,
         \A k \in Instances \ {i} : mem'[k] = mem[k],
         \/ InCritical(call[i]) /\ q = "locale"
         \/ call[i].pc = "inspect" /\ call[i].lock = "locale" /\ q = "store",
         \/ outcome = "failed" /\ call[i].kind \in Mutations
         \/ /\ outcome = "done" /\ call[i].kind \in Mutations
            /\ disk.words = Atomic!Effect(Request(call[i]), disk.words)
         \/ outcome = call[i].outcome /\ call[i].kind \notin Mutations
  PROVE  Good
<1> DEFINE c == [call[i] EXCEPT !.pc = "release", !.lock = q, !.seen = {},
                               !.outcome = outcome, !.kind = "none", !.arg = {}]
<1>0. TypeOK
  BY DEF Exclusive
<1>1. call' = [call EXCEPT ![i] = c]
  BY <1>0 DEF Decided, TypeOK
<1>2. c.pc = "release" /\ c.kind = "none" /\ c.outcome = outcome /\ c.lock = q
  BY DEF Exclusive, TypeOK, Call
<1> HIDE DEF c
<1>3. Consistent(disk, mem'[i], c)
  BY <1>2 DEF Consistent, InCritical
<1>4. \A p \in Locks : Held(c, p) <=> Held(call[i], p)
  BY <1>2 DEF Held, InCritical, Locks
<1>5. Exclusive'
  <2>1. call[i].pc # "crashed"
    BY DEF InCritical
  <2> QED
    BY <1>1, <1>3, <1>4, <2>1, LocalStep
<1>6. c.kind \notin Mutations
  BY <1>2 DEF Mutations
<1>7. c \in Call /\ disk'.words = disk.words
  BY <1>0, <1>1, NewCall
<1>8. CASE call[i].kind \in Mutations
  <2>1. AtomicStep
    <3>1. CASE outcome = "failed"
      BY <1>0, <1>1, <1>2, <1>6, <1>7, <1>8, <3>1, DecidingStep
    <3>2. CASE outcome = "done" /\ disk.words = Atomic!Effect(Request(call[i]), disk.words)
      BY <1>0, <1>1, <1>2, <1>6, <1>7, <1>8, <3>2, DecidingStep
    <3> QED
      BY <1>8, <3>1, <3>2
  <2> QED
    BY <1>5, <2>1 DEF Good
<1>9. CASE call[i].kind \notin Mutations
  <2>1. Request(c) = Request(call[i])
    BY <1>6, <1>9 DEF Request
  <2>2. c.outcome = call[i].outcome
    BY <1>2, <1>9
  <2>3. AtomicStep
    BY <1>0, <1>1, <1>7, <2>1, <2>2, QuietStep
  <2> QED
    BY <1>5, <2>3 DEF Good
<1> QED
  BY <1>8, <1>9

\* A load that found the words on disk, and what its caller goes on to do.
LEMMA LoadedGood ==
  ASSUME Exclusive, TypeOK', NEW i \in Instances, NEW W \in SUBSET Words, Loaded(i, W),
         UNCHANGED <<disk, lock>>, call[i].pc \in {"read", "stat"},
         InCritical(call[i]) => W = disk.words
  PROVE  Good
<1>1. TypeOK /\ Consistent(disk, mem[i], call[i]) /\ call[i].kind # "none"
  BY DEF Exclusive, Consistent
<1>2. \A k \in Instances \ {i} : mem'[k] = mem[k]
  BY <1>1 DEF Loaded, TypeOK
<1>3. mem'[i].words = Changed(i, W)
  BY <1>1 DEF Loaded, TypeOK
<1>4. call[i].kind \in Mutations => Changed(i, W) = Atomic!Effect(Request(call[i]), W)
  BY DEF Changed, Atomic!Effect, Request, Mutations
<1>5. call[i].kind \notin {"refresh", "reload"} => InCritical(call[i]) /\ W = disk.words
  BY DEF InCritical
<1>6. CASE call[i].kind \in Mutations /\ call' = [call EXCEPT ![i].pc = "save", ![i].seen = {}]
  <2> DEFINE c == [call[i] EXCEPT !.pc = "save", !.seen = {}]
  <2>1. call' = [call EXCEPT ![i] = c]
    BY <1>1, <1>6 DEF TypeOK
  <2>2. /\ c.pc = "save" /\ c.kind = call[i].kind /\ c.outcome = call[i].outcome
        /\ c.arg = call[i].arg
    BY <1>1 DEF TypeOK, Call
  <2> HIDE DEF c
  <2>3. InCritical(call[i]) /\ InCritical(c) /\ W = disk.words
    BY <1>5, <1>6, <2>2 DEF InCritical, Mutations
  <2>4. Request(c) = Request(call[i])
    BY <2>2 DEF Request
  <2>5. Request(c) = [kind |-> c.kind, words |-> c.arg]
    BY <1>6, <2>2 DEF Request
  <2>6. Consistent(disk, mem'[i], c)
    <3>1. mem'[i].words = Atomic!Effect([kind |-> c.kind, words |-> c.arg], disk.words)
      BY <1>3, <1>4, <1>6, <2>3, <2>4, <2>5
    <3>2. c.kind # "restore"
      BY <1>6, <2>2 DEF Mutations
    <3> QED
      BY <1>6, <2>2, <3>1, <3>2 DEF Consistent
  <2>7. \A p \in Locks : Held(c, p) <=> Held(call[i], p)
    BY <2>3 DEF Held
  <2>8. Exclusive'
    BY <1>2, <2>1, <2>6, <2>7, LocalStep
  <2>9. AtomicStep
    BY <1>1, <2>1, <2>2, <2>4, QuietStep
  <2> QED
    BY <2>8, <2>9 DEF Good
<1>7. CASE call[i].kind \in Mutations /\ Changed(i, W) = W /\ Decided(i, "done", "locale")
  BY <1>2, <1>4, <1>5, <1>7, DecidedGood DEF Mutations, Locks
<1>8. CASE call[i].kind = "restore" /\ Decided(i, "failed", "locale")
  <2>1. call[i].outcome = "failed" /\ call[i].kind \notin Mutations
    BY <1>1, <1>8 DEF Consistent, Mutations
  <2> QED
    BY <1>2, <1>5, <1>8, <2>1, DecidedGood DEF Locks
<1>9. CASE /\ call[i].kind = "reload"
           /\ call' = [call EXCEPT ![i].pc = "compare", ![i].kind = "refresh", ![i].seen = {}]
  <2> DEFINE c == [call[i] EXCEPT !.pc = "compare", !.kind = "refresh", !.seen = {}]
  <2>1. call' = [call EXCEPT ![i] = c]
    BY <1>1, <1>9 DEF TypeOK
  <2>2. c.pc = "compare" /\ c.kind = "refresh" /\ c.outcome = call[i].outcome
    BY <1>1 DEF TypeOK, Call
  <2> HIDE DEF c
  <2>3. Consistent(disk, mem'[i], c)
    BY <2>2 DEF Consistent
  <2>4. \A p \in Locks : Held(c, p) <=> Held(call[i], p)
    BY <1>9, <2>2 DEF Held, InCritical
  <2>5. Exclusive'
    BY <1>2, <2>1, <2>3, <2>4, LocalStep
  <2>6. Request(c) = Request(call[i])
    BY <1>9, <2>2 DEF Request, Mutations
  <2>7. AtomicStep
    BY <1>1, <2>1, <2>2, <2>6, QuietStep
  <2> QED
    BY <2>5, <2>7 DEF Good
<1>10. CASE call[i].kind = "refresh" /\ Ends(i)
  BY <1>2, <1>10, EndsGood
<1> QED
  BY <1>6, <1>7, <1>8, <1>9, <1>10 DEF Loaded

LEMMA ReadFileGood ==
  ASSUME Exclusive, TypeOK', NEW i \in Instances, ReadFile(i)
  PROVE  Good
<1>1. TypeOK /\ Consistent(disk, mem[i], call[i]) /\ call[i].pc = "read" /\ call[i].kind # "none"
  BY DEF Exclusive, Consistent, ReadFile, At
<1>2. CASE disk.exists
  <2> DEFINE c == [call[i] EXCEPT !.pc = "stat", !.seen = disk.words]
  <2>1. call' = [call EXCEPT ![i] = c] /\ UNCHANGED <<disk, lock, mem>>
    BY <1>1, <1>2 DEF ReadFile, TypeOK
  <2>2. /\ c.pc = "stat" /\ c.kind = call[i].kind /\ c.outcome = call[i].outcome
        /\ c.arg = call[i].arg /\ c.seen = disk.words
    BY <1>1 DEF TypeOK, Call
  <2> HIDE DEF c
  <2>3. Consistent(disk, mem'[i], c)
    BY <1>1, <2>2 DEF Consistent
  <2>4. \A p \in Locks : Held(c, p) <=> Held(call[i], p)
    BY <1>1, <2>2 DEF Held, InCritical
  <2>5. Exclusive'
    BY <1>1, <2>1, <2>3, <2>4, LocalStep
  <2>6. Request(c) = Request(call[i])
    BY <2>2 DEF Request
  <2>7. AtomicStep
    BY <1>1, <2>1, <2>2, <2>6, QuietStep
  <2> QED
    BY <2>5, <2>7 DEF Good
<1>3. CASE ~disk.exists
  <2>1. disk.words = {}
    BY <1>3 DEF Exclusive
  <2> QED
    BY <1>1, <1>3, <2>1, LoadedGood DEF ReadFile
<1> QED
  BY <1>2, <1>3

LEMMA StatFileGood ==
  ASSUME Exclusive, TypeOK', NEW i \in Instances, StatFile(i)
  PROVE  Good
<1>1. TypeOK /\ Consistent(disk, mem[i], call[i]) /\ call[i].pc = "stat"
  BY DEF Exclusive, StatFile, At
<1>2. call[i].seen \in SUBSET Words /\ (InCritical(call[i]) => call[i].seen = disk.words)
  BY <1>1 DEF TypeOK, Call, Consistent
<1> QED
  BY <1>1, <1>2, LoadedGood DEF StatFile

LEMMA CompareSignatureGood ==
  ASSUME Exclusive, TypeOK', NEW i \in Instances, CompareSignature(i)
  PROVE  Good
<1>1. call[i].pc = "compare" /\ call[i].kind = "refresh"
  BY DEF Exclusive, Consistent, CompareSignature, At
<1> QED
  BY <1>1, EndsGood, GotoGood DEF CompareSignature

LEMMA InspectLockGood ==
  ASSUME Exclusive, TypeOK', NEW i \in Instances, InspectLock(i)
  PROVE  Good
<1>1. call[i].pc = "inspect"
  BY DEF InspectLock, At
<1> QED
  BY <1>1, GotoGood DEF InspectLock

LEMMA TimeOutGood ==
  ASSUME Exclusive, TypeOK', NEW i \in Instances, TimeOut(i)
  PROVE  Good
<1>1. /\ TypeOK /\ call[i].pc = "inspect" /\ call[i].kind \in Mutations
      /\ call[i].lock \in Locks /\ UNCHANGED <<disk, lock, mem>>
  BY DEF Exclusive, Consistent, TimeOut, At, TypeOK, Call
<1>2. CASE call[i].lock = "locale"
  BY <1>1, <1>2, DecidedGood DEF TimeOut, Locks
<1>3. CASE call[i].lock = "store"
  <2> DEFINE c == [call[i] EXCEPT !.pc = "idle", !.kind = "none", !.arg = {}, !.outcome = "failed"]
  <2>1. call' = [call EXCEPT ![i] = c]
    BY <1>1, <1>3 DEF TimeOut, TypeOK
  <2>2. c.pc = "idle" /\ c.kind = "none" /\ c.outcome = "failed"
    BY <1>1 DEF TypeOK, Call
  <2> HIDE DEF c
  <2>3. Consistent(disk, mem'[i], c)
    BY <2>2 DEF Consistent, InCritical
  <2>4. \A p \in Locks : Held(c, p) <=> Held(call[i], p)
    BY <1>1, <1>3, <2>2 DEF Held, InCritical
  <2>5. Exclusive'
    BY <1>1, <2>1, <2>3, <2>4, LocalStep
  <2>6. c \in Call /\ c.kind \notin Mutations
    BY <1>1, <2>1, <2>2, NewCall DEF Mutations
  <2>7. AtomicStep
    BY <1>1, <2>1, <2>2, <2>6, DecidingStep
  <2> QED
    BY <2>5, <2>7 DEF Good
<1> QED
  BY <1>1, <1>2, <1>3 DEF Locks

LEMMA LoadFailsGood ==
  ASSUME Exclusive, TypeOK', NEW i \in Instances, LoadFails(i)
  PROVE  Good
<1>1. /\ call[i].pc = "read" /\ call[i].kind # "none" /\ UNCHANGED <<disk, lock, mem>>
      /\ call[i].kind = "restore" => call[i].outcome = "failed"
  BY DEF Exclusive, Consistent, LoadFails, At
<1>2. CASE call[i].kind \in {"refresh", "reload"}
  BY <1>1, <1>2, EndsGood DEF LoadFails
<1>3. CASE call[i].kind \notin {"refresh", "reload"}
  <2>1. InCritical(call[i]) /\ Decided(i, "failed", "locale")
    BY <1>1, <1>3 DEF InCritical, LoadFails
  <2>2. call[i].kind \in Mutations \/ call[i].kind = "restore"
    BY <1>1, <1>3 DEF Exclusive, TypeOK, Call
  <2> QED
    BY <1>1, <2>1, <2>2, DecidedGood DEF Locks, Mutations
<1> QED
  BY <1>2, <1>3

LEMMA MkstempFailsGood ==
  ASSUME Exclusive, TypeOK', NEW i \in Instances, MkstempFails(i)
  PROVE  Good
<1>1. /\ call[i].pc = "save" /\ call[i].kind \in Mutations /\ InCritical(call[i])
      /\ UNCHANGED <<disk, lock, mem>>
  BY DEF Exclusive, Consistent, MkstempFails, At, InCritical, Mutations
<1> QED
  BY <1>1, DecidedGood DEF MkstempFails, Locks

LEMMA SignFileGood ==
  ASSUME Exclusive, TypeOK', NEW i \in Instances, SignFile(i)
  PROVE  Good
<1>1. /\ call[i].pc = "sign" /\ call[i].kind \notin Mutations /\ call[i].outcome = "done"
      /\ InCritical(call[i])
  BY DEF Exclusive, Consistent, SignFile, At, InCritical, Mutations
<1>2. \A k \in Instances \ {i} : mem'[k] = mem[k]
  BY DEF Exclusive, TypeOK, SignFile
<1> QED
  BY <1>1, <1>2, DecidedGood DEF SignFile, Locks

LEMMA WriteFailsGood ==
  ASSUME Exclusive, TypeOK', NEW i \in Instances, WriteFails(i)
  PROVE  Good
<1> DEFINE c == [call[i] EXCEPT !.pc = "read", !.kind = "restore", !.arg = {},
                               !.outcome = "failed"]
<1>1. /\ TypeOK /\ call[i].pc = "save" /\ call[i].kind \in Mutations /\ InCritical(call[i])
      /\ UNCHANGED <<disk, lock, mem>>
  BY DEF Exclusive, Consistent, WriteFails, At, InCritical, Mutations
<1>2. call' = [call EXCEPT ![i] = c]
  BY <1>1 DEF WriteFails, TypeOK
<1>3. c.pc = "read" /\ c.kind = "restore" /\ c.outcome = "failed"
  BY <1>1 DEF TypeOK, Call
<1> HIDE DEF c
<1>4. Consistent(disk, mem'[i], c)
  BY <1>3 DEF Consistent
<1>5. \A p \in Locks : Held(c, p) <=> Held(call[i], p)
  BY <1>1, <1>3 DEF Held, InCritical
<1>6. Exclusive'
  BY <1>1, <1>2, <1>4, <1>5, LocalStep
<1>7. c \in Call /\ c.kind \notin Mutations
  BY <1>1, <1>2, <1>3, NewCall DEF Mutations
<1>8. AtomicStep
  BY <1>1, <1>2, <1>3, <1>7, DecidingStep
<1> QED
  BY <1>6, <1>8 DEF Good

LEMMA CrashGood ==
  ASSUME Exclusive, TypeOK', NEW i \in Instances, Crash(i)
  PROVE  Good
<1> DEFINE c == [call[i] EXCEPT !.pc = "crashed", !.kind = "none", !.arg = {}, !.seen = {}]
<1>1. TypeOK /\ UNCHANGED <<disk, lock, mem>>
  BY DEF Exclusive, Crash
<1>2. call' = [call EXCEPT ![i] = c]
  BY <1>1 DEF Crash, TypeOK
<1>3. c.pc = "crashed" /\ c.kind = "none" /\ c.outcome = call[i].outcome
  BY <1>1 DEF TypeOK, Call
<1> HIDE DEF c
<1>4. Consistent(disk, mem'[i], c)
  BY <1>3 DEF Consistent, InCritical
<1>5. Exclusive'
  BY <1>1, <1>2, <1>3, <1>4, LocalStep
<1>6. c \in Call /\ c.kind \notin Mutations
  BY <1>1, <1>2, <1>3, NewCall DEF Mutations
<1>7. CASE call[i].kind \in Mutations
  BY <1>1, <1>2, <1>3, <1>5, <1>6, <1>7, DecidingStep DEF Good
<1>8. CASE call[i].kind \notin Mutations
  <2>1. Request(c) = Request(call[i])
    BY <1>6, <1>8 DEF Request
  <2> QED
    BY <1>1, <1>2, <1>3, <1>5, <2>1, QuietStep DEF Good
<1> QED
  BY <1>7, <1>8

\* os.replace: the mutation takes effect.
LEMMA ReplaceFileGood ==
  ASSUME Exclusive, TypeOK', NEW i \in Instances, ReplaceFile(i)
  PROVE  Good
<1> DEFINE c == [call[i] EXCEPT !.pc = "sign", !.kind = "none", !.arg = {}, !.outcome = "done"]
<1>1. /\ TypeOK /\ call[i].pc = "save" /\ call[i].kind \in Mutations /\ InCritical(call[i])
      /\ mem[i].words = Atomic!Effect([kind |-> call[i].kind, words |-> call[i].arg], disk.words)
  BY DEF Exclusive, Consistent, ReplaceFile, At, InCritical, Mutations
<1>2. call' = [call EXCEPT ![i] = c]
  BY <1>1 DEF ReplaceFile, TypeOK
<1>3. c.pc = "sign" /\ c.kind = "none" /\ c.outcome = "done"
  BY <1>1 DEF TypeOK, Call
<1> HIDE DEF c
<1>4. call'[i] = c /\ \A k \in Instances \ {i} : call'[k] = call[k]
  BY <1>1, <1>2 DEF TypeOK
<1>5. disk'.exists /\ disk'.words = mem[i].words /\ UNCHANGED lock
  BY DEF ReplaceFile
<1>6. \A k \in Instances : mem'[k].words = mem[k].words
  BY <1>1 DEF ReplaceFile, TypeOK, Memory
<1>7. \A k \in Instances : Consistent(disk', mem'[k], call'[k])
  <2>1. Consistent(disk', mem'[i], call'[i])
    BY <1>3, <1>4 DEF Consistent, InCritical
  <2>2. ASSUME NEW k \in Instances \ {i} PROVE Consistent(disk', mem'[k], call'[k])
    <3>1. ~InCritical(call[k]) /\ Consistent(disk, mem[k], call[k])
      BY <1>1, AloneInside DEF Exclusive
    <3>2. call[k].pc # "save"
      BY <3>1 DEF InCritical, Consistent, Mutations
    <3> QED
      BY <1>4, <3>1, <3>2 DEF Consistent
  <2> QED
    BY <2>1, <2>2
<1>8. \A k \in Instances : \A p \in Locks :
        call'[k].pc # "crashed" => (lock'[p].owner = k <=> Held(call'[k], p))
  <2>1. \A p \in Locks : Held(c, p) <=> Held(call[i], p)
    BY <1>1, <1>3 DEF Held, InCritical
  <2> QED
    BY <1>1, <1>4, <1>5, <2>1 DEF Exclusive
<1>9. Exclusive'
  <2>1. \A p \in Locks : lock'[p].old => Abandoned(lock'[p], call')
    BY <1>1, <1>4, <1>5 DEF Exclusive, Abandoned
  <2> QED
    BY <1>5, <1>7, <1>8, <2>1 DEF Exclusive
<1>10. c \in Call /\ c.kind \notin Mutations
  BY <1>1, <1>2, <1>3, NewCall DEF Mutations
<1>11. disk'.words = Atomic!Effect(Request(call[i]), disk.words)
  BY <1>1, <1>5 DEF Request
<1>12. AtomicStep
  BY <1>1, <1>2, <1>3, <1>10, <1>11, DecidingStep
<1> QED
  BY <1>9, <1>12 DEF Good

-----------------------------------------------------------------------------
(* Steps that take or release lock p.                                       *)

\* Lock p becomes o as the call of i becomes c.
LockMoves(i, c, p, o) ==
  /\ lock' = [lock EXCEPT ![p] = o]
  /\ ~o.old
  /\ o.owner = i <=> Held(c, p)
  /\ \A q \in Locks \ {p} : Held(c, q) <=> Held(call[i], q)
  /\ \A k \in Instances \ {i} :
       call[k].pc # "crashed" => (o.owner = k <=> Held(call[k], p))

LEMMA LockStep ==
  ASSUME Exclusive, TypeOK', NEW i \in Instances, NEW c, NEW p \in Locks, NEW o,
         LockMoves(i, c, p, o), call' = [call EXCEPT ![i] = c],
         UNCHANGED <<disk, mem>>, Consistent(disk, mem[i], c), call[i].pc # "crashed"
  PROVE  Exclusive'
<1> USE DEF LockMoves
<1>1. /\ call'[i] = c /\ \A k \in Instances \ {i} : call'[k] = call[k]
      /\ lock'[p] = o /\ \A q \in Locks \ {p} : lock'[q] = lock[q]
  BY DEF Exclusive, TypeOK
<1>2. \A k \in Instances : Consistent(disk', mem'[k], call'[k])
  BY <1>1 DEF Exclusive
<1>3. ASSUME NEW k \in Instances, NEW q \in Locks, call'[k].pc # "crashed"
      PROVE  lock'[q].owner = k <=> Held(call'[k], q)
  <2>1. CASE q = p
    BY <1>1, <1>3, <2>1
  <2>2. CASE q # p
    BY <1>1, <1>3, <2>2 DEF Exclusive
  <2> QED
    BY <2>1, <2>2
<1>4. \A q \in Locks : lock'[q].old => Abandoned(lock'[q], call')
  BY <1>1 DEF Exclusive, Abandoned
<1> QED
  BY <1>2, <1>3, <1>4 DEF Exclusive

LEMMA OpenLockGood ==
  ASSUME Exclusive, TypeOK', NEW i \in Instances, OpenLock(i)
  PROVE  Good
<1> DEFINE p == call[i].lock
           o == [owner |-> i, old |-> FALSE]
           c == [call[i] EXCEPT !.pc = IF p = "store" THEN "open" ELSE "read",
                                !.lock = "locale"]
<1>1. /\ TypeOK /\ call[i].pc = "open" /\ call[i].kind \in Mutations /\ p \in Locks
      /\ UNCHANGED <<disk, mem>>
  BY DEF Exclusive, Consistent, OpenLock, At, TypeOK, Call
<1>2. CASE lock[p] # Absent
  BY <1>1, <1>2, GotoGood DEF OpenLock
<1>3. CASE lock[p] = Absent
  <2>1. lock' = [lock EXCEPT ![p] = o]
    BY <1>3 DEF OpenLock
  <2>2. call' = [call EXCEPT ![i] = c]
    BY <1>1, <1>3 DEF OpenLock, TypeOK
  <2>3. /\ c.pc = IF p = "store" THEN "open" ELSE "read"
        /\ c.lock = "locale" /\ c.kind = call[i].kind /\ c.arg = call[i].arg
        /\ c.outcome = call[i].outcome
    BY <1>1 DEF TypeOK, Call
  <2> HIDE DEF c
  <2>4. Consistent(disk, mem[i], c)
    BY <1>1, <2>3 DEF Consistent, InCritical, Mutations
  <2>5. Held(c, p) /\ \A q \in Locks \ {p} : Held(c, q) <=> Held(call[i], q)
    BY <1>1, <2>3 DEF Held, InCritical, Locks, Mutations
  <2>6. ASSUME NEW k \in Instances \ {i}, call[k].pc # "crashed"
        PROVE  ~Held(call[k], p)
    <3>1. lock[p].owner # k
      BY <1>3, NobodyAssumption DEF Absent
    <3> QED
      BY <1>1, <2>6, <3>1 DEF Exclusive
  <2>7. Exclusive'
    <3>1. ~o.old /\ o.owner = i
      OBVIOUS
    <3> HIDE DEF o, p
    <3>2. LockMoves(i, c, p, o)
      BY <2>1, <2>5, <2>6, <3>1 DEF LockMoves
    <3>3. call[i].pc # "crashed"
      BY <1>1
    <3> QED
      BY <1>1, <2>2, <2>4, <3>2, <3>3, LockStep
  <2>8. Request(c) = Request(call[i])
    BY <2>3 DEF Request
  <2>9. AtomicStep
    BY <1>1, <2>2, <2>3, <2>8, QuietStep
  <2> QED
    BY <2>7, <2>9 DEF Good
<1> QED
  BY <1>2, <1>3

LEMMA ReleaseLockGood ==
  ASSUME Exclusive, TypeOK', NEW i \in Instances, ReleaseLock(i)
  PROVE  Good
<1> DEFINE p == call[i].lock
<1>1. /\ TypeOK /\ call[i].pc = "release" /\ call[i].kind = "none" /\ p \in Locks
      /\ UNCHANGED <<disk, mem>> /\ lock' = [lock EXCEPT ![p] = Absent]
  BY DEF Exclusive, Consistent, ReleaseLock, At, TypeOK, Call
<1>2. ASSUME NEW k \in Instances \ {i}, call[k].pc # "crashed"
      PROVE  ~Held(call[k], p)
  <2>1. Held(call[i], p)
    BY <1>1 DEF Held, Locks
  <2>2. lock[p].owner = i
    BY <1>1, <2>1 DEF Exclusive
  <2> QED
    BY <1>1, <1>2, <2>2 DEF Exclusive
<1>3. \A k \in Instances : Absent.owner # k
  BY NobodyAssumption DEF Absent
<1>4. ASSUME NEW c, call' = [call EXCEPT ![i] = c], Consistent(disk, mem[i], c),
             ~Held(c, p), \A q \in Locks \ {p} : Held(c, q) <=> Held(call[i], q),
             c.outcome = call[i].outcome, c.kind = "none"
      PROVE  Good
  <2>1. Exclusive'
    <3>1. ~Absent.old
      BY DEF Absent
    <3>2. LockMoves(i, c, p, Absent)
      BY <1>1, <1>2, <1>3, <1>4, <3>1 DEF LockMoves
    <3> QED
      BY <1>1, <1>4, <3>2, LockStep
  <2>2. Request(c) = Request(call[i])
    BY <1>1, <1>4 DEF Request, Mutations
  <2>3. AtomicStep
    BY <1>1, <1>4, <2>2, QuietStep
  <2> QED
    BY <2>1, <2>3 DEF Good
<1>5. CASE p = "locale"
  <2> DEFINE c == [call[i] EXCEPT !.lock = "store"]
  <2>1. call' = [call EXCEPT ![i] = c]
    BY <1>1, <1>5 DEF ReleaseLock, TypeOK
  <2>2. /\ c.pc = "release" /\ c.lock = "store" /\ c.kind = "none"
        /\ c.outcome = call[i].outcome
    BY <1>1 DEF TypeOK, Call
  <2> HIDE DEF c
  <2>3. Consistent(disk, mem[i], c)
    BY <2>2 DEF Consistent, InCritical
  <2>4. ~Held(c, p) /\ \A q \in Locks \ {p} : Held(c, q) <=> Held(call[i], q)
    BY <1>1, <1>5, <2>2 DEF Held, InCritical, Locks
  <2> QED
    BY <1>4, <2>1, <2>2, <2>3, <2>4
<1>6. CASE p = "store"
  <2> DEFINE c == [call[i] EXCEPT !.pc = "idle", !.kind = "none", !.arg = {}, !.seen = {}]
  <2>1. call' = [call EXCEPT ![i] = c]
    BY <1>1, <1>6 DEF ReleaseLock, Ends, TypeOK
  <2>2. c.pc = "idle" /\ c.kind = "none" /\ c.outcome = call[i].outcome
    BY <1>1 DEF TypeOK, Call
  <2> HIDE DEF c
  <2>3. Consistent(disk, mem[i], c)
    BY <2>2 DEF Consistent, InCritical
  <2>4. ~Held(c, p) /\ \A q \in Locks \ {p} : Held(c, q) <=> Held(call[i], q)
    BY <1>1, <1>6, <2>2 DEF Held, InCritical, Locks
  <2> QED
    BY <1>4, <2>1, <2>2, <2>3, <2>4
<1> QED
  BY <1>1, <1>5, <1>6 DEF Locks

\* The lock of a dead owner goes, and nobody alive has it.
LEMMA UnlinkOldLockGood ==
  ASSUME Exclusive, TypeOK', NEW i \in Instances, UnlinkOldLock(i), UnlinksOld(i)
  PROVE  Good
<1> DEFINE p == call[i].lock
           c == [call[i] EXCEPT !.pc = "open"]
<1>1. /\ TypeOK /\ call[i].pc = "unlink" /\ call[i].kind \in Mutations /\ p \in Locks
      /\ UNCHANGED <<disk, mem>> /\ lock' = [lock EXCEPT ![p] = Absent] /\ lock[p].old
  BY DEF Exclusive, Consistent, UnlinkOldLock, UnlinksOld, At, TypeOK, Call
<1>2. call' = [call EXCEPT ![i] = c]
  BY <1>1 DEF UnlinkOldLock, Goto, TypeOK
<1>3. /\ c.pc = "open" /\ c.kind = call[i].kind /\ c.outcome = call[i].outcome
      /\ c.lock = p /\ c.arg = call[i].arg
  BY <1>1 DEF TypeOK, Call
<1> HIDE DEF c
<1>4. Consistent(disk, mem[i], c)
  BY <1>1, <1>3 DEF Consistent, InCritical, Mutations
<1>5. \A k \in Instances : call[k].pc # "crashed" => lock[p].owner # k /\ ~Held(call[k], p)
  BY <1>1 DEF Exclusive, Abandoned
<1>6. \A q \in Locks : Held(c, q) <=> Held(call[i], q)
  BY <1>1, <1>3 DEF Held, InCritical
<1>7. ~Absent.old /\ \A k \in Instances : Absent.owner # k
  BY NobodyAssumption DEF Absent
<1>8. LockMoves(i, c, p, Absent)
  BY <1>1, <1>5, <1>6, <1>7 DEF LockMoves
<1>9. Exclusive'
  BY <1>1, <1>2, <1>4, <1>8, LockStep
<1>10. AtomicStep
  BY <1>1, <1>2, <1>3, QuietStep DEF Request
<1> QED
  BY <1>9, <1>10 DEF Good

\* A dead owner's lock counts as old from now on.
LEMMA LockAgesGood ==
  ASSUME Exclusive, TypeOK', NEW p \in Locks, LockAges(p)
  PROVE  Good
<1>1. /\ TypeOK /\ UNCHANGED <<disk, mem, call>> /\ lock[p].owner # Nobody
      /\ call[lock[p].owner].pc = "crashed"
      /\ lock' = [lock EXCEPT ![p].old = TRUE]
  <2>1. TypeOK /\ lock[p] \in LockFile /\ lock[p] # Absent /\ ~lock[p].old
    BY DEF LockAges, Exclusive, TypeOK
  <2>2. lock[p].owner # Nobody
    BY <2>1 DEF LockFile, Absent
  <2> QED
    BY <2>1, <2>2 DEF LockAges, At
<1>2. /\ \A q \in Locks : lock'[q].owner = lock[q].owner
      /\ \A q \in Locks \ {p} : lock'[q] = lock[q]
      /\ lock[p].owner \in Instances
  BY <1>1 DEF TypeOK, LockFile
<1>3. \A q \in Locks : lock'[q].old => Abandoned(lock'[q], call')
  BY <1>1, <1>2 DEF Exclusive, Abandoned
<1>4. Exclusive'
  BY <1>1, <1>2, <1>3 DEF Exclusive
<1>5. AtomicStep
  BY <1>1 DEF AtomicStep, Atomic!vars, Undecided
<1> QED
  BY <1>4, <1>5 DEF Good

-----------------------------------------------------------------------------
(* The theorems.                                                            *)

LEMMA InitGood == Init => Exclusive /\ Atomic!Init
<1> SUFFICES ASSUME Init PROVE Exclusive /\ Atomic!Init
  OBVIOUS
<1>1. TypeOK
  BY InitType
<1>2. disk.exists \/ disk.words = {}
  <2>1. CASE disk = NoFile
    BY <2>1 DEF NoFile
  <2>2. CASE disk \in [exists : {TRUE}, words : SUBSET Words]
    <3>1. disk.exists = TRUE
      BY <2>2
    <3> QED
      BY <3>1
  <2> QED
    BY <2>1, <2>2 DEF Init
<1>0. disk.words \subseteq Words
  BY <1>1 DEF TypeOK, File
<1>3. \A p \in Locks : lock[p] = Absent /\ ~lock[p].old /\ lock[p].owner \notin Instances
  BY NobodyAssumption DEF Init, Absent
<1>4. \A i \in Instances : call[i].pc = "idle" /\ call[i].kind = "none" /\ call[i].outcome = "none"
  BY DEF Init
<1>5. \A i \in Instances : Consistent(disk, mem[i], call[i]) /\ \A p \in Locks : ~Held(call[i], p)
  BY <1>4 DEF Consistent, InCritical, Held
<1>6. Exclusive
  BY <1>1, <1>2, <1>3, <1>5 DEF Exclusive
<1>7. Atomic!Init
  BY <1>0, <1>4 DEF Atomic!Init, Atomic!NoRequest, Undecided, Mutations
<1> QED
  BY <1>6, <1>7

LEMMA StepGood ==
  Exclusive /\ [Next]_vars /\ [\A i \in Instances : UnlinksOld(i)]_vars => Exclusive' /\ AtomicStep
<1> SUFFICES ASSUME Exclusive, [Next]_vars, [\A i \in Instances : UnlinksOld(i)]_vars
             PROVE  Good
  BY DEF Good
<1>1. TypeOK'
  BY CallTypesInductive DEF Exclusive
<1>2. CASE UNCHANGED vars
  <2>1. Exclusive'
    BY <1>1, <1>2 DEF vars, Exclusive
  <2>2. AtomicStep
    BY <1>2 DEF vars, AtomicStep, Atomic!vars, Undecided
  <2> QED
    BY <2>1, <2>2 DEF Good
<1>3. ASSUME NEW i \in Instances, Proceed(i) PROVE Good
  <2>1. CASE UnlinkOldLock(i)
    BY <1>1, <1>2, <2>1, UnlinkOldLockGood
  <2> QED
    BY <1>1, <1>3, <2>1, OpenLockGood, InspectLockGood, CompareSignatureGood, ReadFileGood,
       StatFileGood, ReplaceFileGood, SignFileGood, ReleaseLockGood DEF Proceed
<1>4. ASSUME NEW i \in Instances, Fails(i) PROVE Good
  BY <1>1, <1>4, TimeOutGood, LoadFailsGood, WriteFailsGood, MkstempFailsGood DEF Fails
<1>5. ASSUME NEW i \in Instances, Begin(i) \/ Crash(i) PROVE Good
  BY <1>1, <1>5, BeginGood, CrashGood
<1>6. ASSUME NEW p \in Locks, LockAges(p) PROVE Good
  BY <1>1, <1>6, LockAgesGood
<1> QED
  BY <1>2, <1>3, <1>4, <1>5, <1>6 DEF Next

\* Unless a waiter removes a lock that is not the old one it found, whatever fails and
\* whoever dies, the lock files tell who holds the locks: error paths release them, and
\* one instance at most is loading and saving (_cooperative_file_lock).
THEOREM LocksExclude == Spec /\ TakeoversAreOfOldLocks => []LocksTellHolders
<1>1. Spec /\ TakeoversAreOfOldLocks => []Exclusive
  <2>1. Exclusive /\ [Next]_vars /\ [\A i \in Instances : UnlinksOld(i)]_vars => Exclusive'
    BY StepGood
  <2>2. Init => Exclusive
    BY InitGood
  <2> QED
    BY <2>1, <2>2, PTL DEF Spec, TakeoversAreOfOldLocks
<1> QED
  BY <1>1, ExclusiveMeans, PTL

\* The same: each mutation of the file is one whole request applied to the latest
\* words, the step in which the call is decided, and a failed one changes nothing:
\* no sequential update is lost, however many instances share the file.
THEOREM UpdatesAreAtomic == Spec /\ TakeoversAreOfOldLocks => MutationsAreAtomic
<1>1. Init => Exclusive /\ Atomic!Init
  BY InitGood
<1>2. Exclusive /\ [Next]_vars /\ [\A i \in Instances : UnlinksOld(i)]_vars
        => Exclusive' /\ [Atomic!Next]_Atomic!vars
  BY StepGood DEF AtomicStep
<1> QED
  BY <1>1, <1>2, PTL DEF Spec, TakeoversAreOfOldLocks, MutationsAreAtomic, Atomic!Spec

-----------------------------------------------------------------------------
(* Two instances: the dead owner of an old lock leaves one waiter, which    *)
(* nobody can overtake between looking at the lock and removing it.         *)

Two == \A i, j, k \in Instances : i = j \/ i = k \/ j = k

FindsOld == \A i \in Instances : At(i, "unlink") => lock[call[i].lock].old

LEMMA FindsOldStep ==
  ASSUME Two, Exclusive, FindsOld, [Next]_vars
  PROVE  FindsOld' /\ [\A i \in Instances : UnlinksOld(i)]_vars
<1>1. \A i \in Instances : UnlinksOld(i)
  BY DEF FindsOld, UnlinksOld, UnlinkOldLock
<1> SUFFICES ASSUME NEW i \in Instances, At(i, "unlink")'
             PROVE  lock'[call'[i].lock].old
  BY <1>1 DEF FindsOld
<1>2. TypeOK
  BY DEF Exclusive
<1>3. ASSUME At(i, "unlink"), NEW k \in Instances \ {i}
      PROVE  At(k, "crashed")   \* the owner of the lock that i has found
  <2>1. lock[call[i].lock].old /\ call[i].lock \in Locks
    BY <1>2, <1>3 DEF FindsOld, TypeOK, Call
  <2>2. PICK d \in Instances : call[d].pc = "crashed"
    BY <2>1 DEF Exclusive, Abandoned
  <2>3. d # i
    BY <1>3, <2>2 DEF At
  <2> QED
    BY <2>2, <2>3 DEF Two, At
<1>4. ASSUME NEW k \in Instances, Begin(k) \/ Proceed(k) \/ Fails(k) \/ Crash(k)
      PROVE  lock'[call'[i].lock].old
  <2>1. ~At(k, "crashed")
    BY <1>4 DEF Begin, BeginMutation, BeginRefresh, BeginReload, Proceed, Fails, Crash, At,
       OpenLock, InspectLock, UnlinkOldLock, CompareSignature, ReadFile, StatFile,
       ReplaceFile, SignFile, ReleaseLock, TimeOut, LoadFails, WriteFails, MkstempFails
  <2>2. CASE k # i
    <3>1. call'[i] = call[i]
      BY <1>2, <1>4, <2>2 DEF TypeOK, Begin, BeginMutation, BeginRefresh, BeginReload, Proceed,
         Fails, Crash, OpenLock, InspectLock, UnlinkOldLock, CompareSignature, ReadFile,
         StatFile, ReplaceFile, SignFile, ReleaseLock, TimeOut, LoadFails, WriteFails,
         MkstempFails, Goto, Ends, Decided, Loaded
    <3> QED
      BY <1>3, <2>1, <2>2, <3>1 DEF At
  <2>3. CASE k = i
    <3>1. call'[i].pc = "unlink" /\ DOMAIN call = Instances
      BY <1>2 DEF At, TypeOK
    <3>2. call[i] \in Call
      BY <1>2 DEF TypeOK
    <3>3. \A pc : Goto(i, pc) => pc = "unlink" /\ call'[i].lock = call[i].lock
      <4> SUFFICES ASSUME NEW pc, Goto(i, pc)
                   PROVE  pc = "unlink" /\ call'[i].lock = call[i].lock
        OBVIOUS
      <4>1. call'[i] = [call[i] EXCEPT !.pc = pc]
        BY <3>1 DEF Goto
      <4>2. call'[i].pc = pc /\ call'[i].lock = call[i].lock
        BY <3>2, <4>1 DEF Call
      <4> QED
        BY <3>1, <4>2
    <3>4. ~Ends(i) /\ \A o, p : ~Decided(i, o, p)
      <4>1. ASSUME Ends(i) PROVE FALSE
        <5>1. call'[i] = [call[i] EXCEPT !.pc = "idle", !.kind = "none", !.arg = {}, !.seen = {}]
          BY ZenonT(60), <3>1, <4>1 DEF Ends
        <5>2. call'[i].pc = "idle"
          BY <3>2, <5>1 DEF Call
        <5> QED
          BY <3>1, <5>2
      <4>2. ASSUME NEW o, NEW p, Decided(i, o, p) PROVE FALSE
        <5>1. call'[i] = [call[i] EXCEPT !.pc = "release", !.lock = p, !.seen = {},
                                         !.outcome = o, !.kind = "none", !.arg = {}]
          BY ZenonT(60), <3>1, <4>2 DEF Decided
        <5>2. call'[i].pc = "release"
          BY <3>2, <5>1 DEF Call
        <5> QED
          BY <3>1, <5>2
      <4> QED
        BY <4>1, <4>2
    <3>5. \A W : ~Loaded(i, W)
      BY <1>2, <3>1, <3>4 DEF Loaded, TypeOK, Call
    <3>6. ~Begin(i)
      BY <1>2, <3>1 DEF Begin, BeginMutation, BeginRefresh, BeginReload, TypeOK, Call
    <3>7. ~OpenLock(i)
      BY <1>2, <3>1, <3>3 DEF OpenLock, TypeOK, Call
    <3>8. ~UnlinkOldLock(i) /\ ~CompareSignature(i)
      BY <3>3, <3>4 DEF UnlinkOldLock, CompareSignature
    <3>9. ~ReadFile(i) /\ ~StatFile(i)
      BY <1>2, <3>1, <3>5 DEF ReadFile, StatFile, TypeOK, Call
    <3>10. ~ReplaceFile(i) /\ ~SignFile(i)
      BY <1>2, <3>1, <3>4 DEF ReplaceFile, SignFile, TypeOK, Call
    <3>11. ~ReleaseLock(i)
      BY <1>2, <3>1, <3>4 DEF ReleaseLock, At, TypeOK, Call
    <3>12. ~TimeOut(i) /\ ~Crash(i)
      BY <1>2, <3>1, <3>4 DEF TimeOut, Crash, TypeOK, Call
    <3>13. ~LoadFails(i) /\ ~WriteFails(i) /\ ~MkstempFails(i)
      BY <1>2, <3>1, <3>4 DEF LoadFails, WriteFails, MkstempFails, TypeOK, Call
    <3>14. InspectLock(i)
      BY <1>4, <2>3, <3>6, <3>7, <3>8, <3>9, <3>10, <3>11, <3>12, <3>13 DEF Proceed, Fails
    <3>15. lock[call[i].lock].old /\ lock' = lock
      BY <3>3, <3>14 DEF InspectLock
    <3>16. call'[i].lock = call[i].lock
      BY <3>3, <3>14 DEF InspectLock
    <3> QED
      BY <3>15, <3>16
  <2> QED
    BY <2>2, <2>3
<1>5. ASSUME NEW p \in Locks, LockAges(p) PROVE lock'[call'[i].lock].old
  BY <1>2, <1>5 DEF LockAges, FindsOld, At, TypeOK, Call, LockFile
<1>6. CASE UNCHANGED vars
  BY <1>6 DEF vars, FindsOld, At
<1> QED
  BY <1>4, <1>5, <1>6 DEF Next

LEMMA TwoTakeOverOldLocks ==
  ASSUME Two
  PROVE  Spec => TakeoversAreOfOldLocks
<1>1. Init => Exclusive /\ FindsOld
  <2> SUFFICES ASSUME Init PROVE Exclusive /\ FindsOld
    OBVIOUS
  <2>1. \A i \in Instances : call[i].pc = "idle"
    BY DEF Init
  <2> QED
    BY <2>1, InitGood DEF FindsOld, At
<1>2. Exclusive /\ FindsOld /\ [Next]_vars => FindsOld' /\ [\A i \in Instances : UnlinksOld(i)]_vars
  BY FindsOldStep
<1>3. Exclusive /\ [Next]_vars /\ [\A i \in Instances : UnlinksOld(i)]_vars => Exclusive'
  BY StepGood
<1> QED
  BY <1>1, <1>2, <1>3, PTL DEF Spec, TakeoversAreOfOldLocks

\* Two instances, as the two applications of personal-dictionary.md that share one
\* storage root: the lock files tell who holds the locks, with no hypothesis about
\* takeovers; PersonalTakeover shows that three need one.
THEOREM PairsExclude ==
  ASSUME Two
  PROVE  Spec => []LocksTellHolders
BY LocksExclude, TwoTakeOverOldLocks, PTL

\* The same: two instances lose no update, although one may die holding both locks
\* and the other takes them over.
THEOREM PairsUpdateAtomically ==
  ASSUME Two
  PROVE  Spec => MutationsAreAtomic
BY UpdatesAreAtomic, TwoTakeOverOldLocks, PTL


-----------------------------------------------------------------------------
(* What instances remember.                                                 *)

\* Nobody replaces the file between another's reading it and asking for its signature.
\* Nothing in the code sees to that for calls that take no lock.
ReadsAreUndisturbed ==
  [][\A i \in Instances : ReplaceFile(i) => \A k \in Instances : ~At(k, "stat")]_vars

\* After a failed save the words on disk can be loaded again.  Nothing sees to that when
\* the temporary file cannot be created, and a failure to load them is ignored.
UndoesSaves(i) == ~MkstempFails(i) /\ ~(LoadFails(i) /\ call[i].kind = "restore")
FailedSavesAreUndone == [][\A i \in Instances : UndoesSaves(i)]_vars

\* What i has read is what is on disk, and so is what it remembers under the file's
\* signature, but while it saves or restores.
Follows(d, m, c) ==
  /\ c.pc = "stat" => c.seen = d.words
  /\ c.pc = "sign" => m.words = d.words
  /\ (m.loaded /\ m.current /\ c.pc \notin {"save", "crashed"} /\ c.kind # "restore")
       => m.words = d.words

Following == \A i \in Instances : Follows(disk, mem[i], call[i])

\* Only i goes on, and the file stays.
LEMMA OneFollows ==
  ASSUME TypeOK, Following, NEW i \in Instances, UNCHANGED disk,
         \A k \in Instances \ {i} : call'[k] = call[k] /\ mem'[k] = mem[k],
         Follows(disk, mem'[i], call'[i])
  PROVE  Following'
<1>1. \A k \in Instances : Follows(disk, mem'[k], call'[k])
  BY DEF Following
<1> QED
  BY <1>1 DEF Following, Follows

\* What the helpers make of a call.
LEMMA CallBecomes ==
  ASSUME TypeOK, NEW i \in Instances
  PROVE  /\ \A pc : Goto(i, pc) => call'[i].pc = pc /\ call'[i].kind = call[i].kind
         /\ Ends(i) => call'[i].pc = "idle" /\ call'[i].kind = "none"
         /\ \A o, p : Decided(i, o, p) => call'[i].pc = "release" /\ call'[i].kind = "none"
<1>1. call[i] \in Call /\ DOMAIN call = Instances
  BY DEF TypeOK
<1>2. ASSUME NEW pc, Goto(i, pc) PROVE call'[i].pc = pc /\ call'[i].kind = call[i].kind
  <2>1. call'[i] = [call[i] EXCEPT !.pc = pc]
    BY <1>1, <1>2 DEF Goto
  <2> QED
    BY <1>1, <2>1 DEF Call
<1>3. ASSUME Ends(i) PROVE call'[i].pc = "idle" /\ call'[i].kind = "none"
  <2>1. call'[i] = [call[i] EXCEPT !.pc = "idle", !.kind = "none", !.arg = {}, !.seen = {}]
    BY ZenonT(60), <1>1, <1>3 DEF Ends
  <2> QED
    BY <1>1, <2>1 DEF Call
<1>4. ASSUME NEW o, NEW p, Decided(i, o, p)
      PROVE  call'[i].pc = "release" /\ call'[i].kind = "none"
  <2>1. call'[i] = [call[i] EXCEPT !.pc = "release", !.lock = p, !.seen = {},
                                   !.outcome = o, !.kind = "none", !.arg = {}]
    BY ZenonT(60), <1>1, <1>4 DEF Decided
  <2> QED
    BY <1>1, <2>1 DEF Call
<1> QED
  BY <1>2, <1>3, <1>4

\* Nobody else's call or memory changes.
Alone(i) == \A k \in Instances \ {i} : call'[k] = call[k] /\ mem'[k] = mem[k]

LEMMA StepsAlone ==
  ASSUME TypeOK, NEW i \in Instances, Begin(i) \/ Proceed(i) \/ Fails(i) \/ Crash(i), ~ReplaceFile(i)
  PROVE  Alone(i)
BY ZenonT(30) DEF Alone, TypeOK, Begin, BeginMutation, BeginRefresh, BeginReload, Proceed, Fails, Crash,
       OpenLock, InspectLock, UnlinkOldLock, CompareSignature, ReadFile, StatFile, SignFile,
       ReleaseLock, TimeOut, LoadFails, WriteFails, MkstempFails, Goto, Ends, Decided, Loaded

\* The file stays, i keeps its memory and does not begin or end with words that are not
\* on disk.
LEMMA QuietFollows ==
  ASSUME Exclusive, Following, NEW i \in Instances, UNCHANGED <<disk, mem>>, Alone(i),
         call'[i].pc \notin {"stat", "sign"},
         \/ call[i].pc # "save" /\ call[i].pc # "crashed" /\ call[i].kind # "restore"
         \/ call'[i].pc = "crashed" \/ call'[i].kind = "restore"
  PROVE  Following'
<1>1. Follows(disk, mem'[i], call'[i])
  BY DEF Following, Follows
<1> QED
  BY <1>1, OneFollows DEF Exclusive, Alone


LEMMA BeginFollows ==
  ASSUME Exclusive, Following, NEW i \in Instances, Begin(i) PROVE Following'
<1>1. TypeOK /\ call[i].pc = "idle" /\ call[i].kind = "none"
  BY DEF Exclusive, Consistent, Begin, BeginMutation, BeginRefresh, BeginReload, At
<1>2. UNCHANGED <<disk, mem>>
  BY DEF Begin, BeginMutation, BeginRefresh, BeginReload
<1>3. call'[i].pc \in {"open", "compare", "read"}
  <2>1. ASSUME NEW kind, NEW W, BeginMutation(i, kind, W) PROVE call'[i].pc = "open"
    BY <1>1, <2>1 DEF BeginMutation, TypeOK
  <2>2. CASE BeginRefresh(i)
    BY <1>1, <2>2 DEF BeginRefresh, TypeOK, Call
  <2>3. CASE BeginReload(i)
    BY <1>1, <2>3 DEF BeginReload, TypeOK, Call
  <2> QED
    BY <2>1, <2>2, <2>3 DEF Begin
<1>4. Alone(i)
  BY <1>1, StepsAlone DEF ReplaceFile, At
<1> QED
  BY <1>1, <1>2, <1>3, <1>4, QuietFollows

\* Waiting for locks, releasing them, comparing signatures.
LEMMA WaitFollows ==
  ASSUME Exclusive, Following, NEW i \in Instances,
         OpenLock(i) \/ InspectLock(i) \/ UnlinkOldLock(i) \/ CompareSignature(i)
           \/ ReleaseLock(i) \/ TimeOut(i)
  PROVE  Following'
<1>1. /\ TypeOK /\ call[i] \in Call /\ DOMAIN call = Instances
      /\ call[i].pc \in {"open", "inspect", "unlink", "compare", "release"}
  BY DEF Exclusive, OpenLock, InspectLock, UnlinkOldLock, CompareSignature, ReleaseLock,
         TimeOut, At, TypeOK
<1>2. call[i].kind # "restore"
  BY <1>1 DEF Exclusive, Consistent, Mutations
<1>3. UNCHANGED <<disk, mem>>
  BY DEF OpenLock, InspectLock, UnlinkOldLock, CompareSignature, ReleaseLock, TimeOut
<1>4. Alone(i)
  BY <1>1, StepsAlone DEF Proceed, Fails, ReplaceFile, At
<1>5. call'[i].pc \notin {"stat", "sign"}
  <2>1. CASE OpenLock(i)
    <3>1. CASE call' = [call EXCEPT ![i].pc = IF call[i].lock = "store" THEN "open" ELSE "read",
                                    ![i].lock = "locale"]
      BY <1>1, <3>1 DEF Call
    <3>2. CASE Goto(i, "inspect")
      BY <1>1, <3>2, CallBecomes
    <3> QED
      BY <2>1, <3>1, <3>2 DEF OpenLock
  <2>2. CASE InspectLock(i) \/ UnlinkOldLock(i)
    BY <1>1, <2>2, CallBecomes DEF InspectLock, UnlinkOldLock
  <2>3. CASE CompareSignature(i)
    BY <1>1, <2>3, CallBecomes DEF CompareSignature
  <2>4. CASE ReleaseLock(i)
    <3>1. CASE call' = [call EXCEPT ![i].lock = "store"]
      BY <1>1, <3>1 DEF Call
    <3> QED
      BY <1>1, <2>4, <3>1, CallBecomes DEF ReleaseLock
  <2>5. CASE TimeOut(i)
    <3>1. CASE call' = [call EXCEPT ![i].pc = "idle", ![i].kind = "none", ![i].arg = {},
                                    ![i].outcome = "failed"]
      BY <1>1, <3>1 DEF Call
    <3> QED
      BY <1>1, <2>5, <3>1, CallBecomes DEF TimeOut
  <2> QED
    BY <2>1, <2>2, <2>3, <2>4, <2>5
<1> QED
  BY <1>1, <1>2, <1>3, <1>4, <1>5, QuietFollows

\* A load that fails leaves the memory alone, a save that fails goes on to restore it.
LEMMA FailFollows ==
  ASSUME Exclusive, Following, NEW i \in Instances, LoadFails(i) \/ WriteFails(i) \/ Crash(i),
         UndoesSaves(i)
  PROVE  Following'
<1>1. /\ TypeOK /\ call[i] \in Call /\ DOMAIN call = Instances
      /\ UNCHANGED <<disk, mem>>
  BY DEF Exclusive, LoadFails, WriteFails, Crash, TypeOK
<1>2. CASE LoadFails(i)
  <2>1. call[i].pc = "read" /\ call[i].kind # "restore"
    BY <1>2 DEF LoadFails, UndoesSaves, At
  <2>2. call'[i].pc \notin {"stat", "sign"}
    BY <1>1, <1>2, CallBecomes DEF LoadFails
  <2>3. Alone(i)
    BY <1>1, <1>2, <2>1, StepsAlone DEF Fails, ReplaceFile, At
  <2> QED
    BY <1>1, <2>1, <2>2, <2>3, QuietFollows
<1>3. CASE WriteFails(i)
  <2>1. call'[i].pc = "read" /\ call'[i].kind = "restore"
    BY <1>1, <1>3 DEF WriteFails, Call
  <2>2. Alone(i)
    BY <1>1, <1>3 DEF WriteFails, Alone
  <2> QED
    BY <1>1, <2>1, <2>2, QuietFollows
<1>4. CASE Crash(i)
  <2>1. call'[i].pc = "crashed"
    BY <1>1, <1>4 DEF Crash, Call
  <2>2. Alone(i)
    BY <1>1, <1>4 DEF Crash, Alone
  <2> QED
    BY <1>1, <2>1, <2>2, QuietFollows
<1> QED
  BY <1>2, <1>3, <1>4

\* The words on disk have been found, and are remembered under their signature.
LEMMA LoadFollows ==
  ASSUME Exclusive, Following, NEW i \in Instances, Loaded(i, disk.words), UNCHANGED disk, Alone(i)
  PROVE  Following'
<1>1. /\ TypeOK /\ call[i] \in Call /\ DOMAIN call = Instances /\ DOMAIN mem = Instances
  BY DEF Exclusive, TypeOK
<1>2. mem'[i].words = Changed(i, disk.words)
  BY <1>1 DEF Loaded
<1>3. call[i].kind \notin Mutations => Changed(i, disk.words) = disk.words
  BY DEF Changed, Mutations
<1>4. CASE call' = [call EXCEPT ![i].pc = "save", ![i].seen = {}]
  <2>1. call'[i].pc = "save"
    BY <1>1, <1>4 DEF Call
  <2> QED
    BY <1>1, <2>1, OneFollows DEF Alone, Follows
<1>5. CASE mem'[i].words = disk.words /\ call'[i].pc \notin {"stat"}
  BY <1>1, <1>5, OneFollows DEF Alone, Follows
<1>6. CASE call' = [call EXCEPT ![i].pc = "compare", ![i].kind = "refresh", ![i].seen = {}]
           /\ call[i].kind = "reload"
  <2>1. call'[i].pc = "compare"
    BY <1>1, <1>6 DEF Call
  <2> QED
    BY <1>2, <1>3, <1>5, <1>6, <2>1 DEF Mutations
<1>7. CASE (\E o, p : Decided(i, o, p)) \/ Ends(i)
  <2>1. call'[i].pc \in {"release", "idle"}
    BY <1>1, <1>7, CallBecomes
  <2>2. mem'[i].words = disk.words \/ call' = [call EXCEPT ![i].pc = "save", ![i].seen = {}]
    BY <1>2, <1>3 DEF Loaded, Mutations
  <2> QED
    BY <1>4, <1>5, <2>1, <2>2
<1> QED
  BY <1>4, <1>6, <1>7 DEF Loaded

LEMMA ReadFollows ==
  ASSUME Exclusive, Following, NEW i \in Instances, ReadFile(i) \/ StatFile(i) PROVE Following'
<1>1. /\ TypeOK /\ call[i] \in Call /\ DOMAIN call = Instances /\ UNCHANGED disk
      /\ call[i].pc \in {"read", "stat"}
  BY DEF Exclusive, ReadFile, StatFile, At, TypeOK
<1>2. Alone(i)
  BY <1>1, StepsAlone DEF Proceed, ReplaceFile, At
<1>3. CASE StatFile(i)
  <2>1. call[i].seen = disk.words
    BY <1>3 DEF StatFile, At, Following, Follows
  <2> QED
    BY <1>1, <1>2, <1>3, <2>1, LoadFollows DEF StatFile
<1>4. CASE ReadFile(i) /\ ~disk.exists
  <2>1. disk.words = {}
    BY <1>4 DEF Exclusive
  <2> QED
    BY <1>1, <1>2, <1>4, <2>1, LoadFollows DEF ReadFile
<1>5. CASE ReadFile(i) /\ disk.exists
  <2>1. UNCHANGED mem /\ call' = [call EXCEPT ![i].pc = "stat", ![i].seen = disk.words]
    BY <1>5 DEF ReadFile
  <2>2. call'[i].pc = "stat" /\ call'[i].seen = disk.words /\ call'[i].kind = call[i].kind
    BY <1>1, <2>1 DEF Call
  <2>3. call[i].pc = "read"
    BY <1>5 DEF ReadFile, At
  <2>4. Follows(disk, mem'[i], call'[i])
    BY <2>1, <2>2, <2>3 DEF Following, Follows
  <2> QED
    BY <1>1, <1>2, <2>4, OneFollows DEF Alone
<1> QED
  BY <1>3, <1>4, <1>5

\* While the file is replaced nobody else is saving it, and nobody has just read it.
LEMMA SaveFollows ==
  ASSUME Exclusive, Following, NEW i \in Instances, ReplaceFile(i) \/ SignFile(i),
         ReplaceFile(i) => \A k \in Instances : ~At(k, "stat")
  PROVE  Following'
<1>1. /\ TypeOK /\ call[i] \in Call /\ DOMAIN call = Instances
      /\ mem \in [Instances -> Memory]
  BY DEF Exclusive, TypeOK
<1>2. CASE ReplaceFile(i)
  <2>1. call[i].pc = "save" /\ call[i].kind \in Mutations /\ InCritical(call[i])
    BY <1>2 DEF ReplaceFile, At, Exclusive, Consistent, InCritical, Mutations
  <2>2. /\ \A k \in Instances : mem'[k].words = mem[k].words /\ mem'[k].current = FALSE
        /\ disk'.words = mem[i].words
    BY <1>1, <1>2 DEF ReplaceFile, Memory
  <2>3. \A k \in Instances \ {i} : call'[k] = call[k]
    BY <1>1, <1>2 DEF ReplaceFile
  <2>4. call'[i].pc = "sign"
    BY <1>1, <1>2 DEF ReplaceFile, Call
  <2>5. ASSUME NEW k \in Instances \ {i} PROVE call[k].pc \notin {"stat", "sign"}
    <3>1. ~InCritical(call[k])
      BY <2>1, <2>5, AloneInside
    <3>2. call[k].pc # "sign"
      BY <3>1 DEF InCritical, Exclusive, Consistent
    <3> QED
      BY <1>2, <3>2 DEF At
  <2>6. \A k \in Instances : Follows(disk', mem'[k], call'[k])
    BY <2>2, <2>3, <2>4, <2>5 DEF Follows
  <2> QED
    BY <2>6 DEF Following, Follows
<1>3. CASE SignFile(i)
  <2>1. call[i].pc = "sign" /\ mem[i].words = disk.words
    BY <1>3 DEF SignFile, At, Following, Follows
  <2>2. mem'[i].words = disk.words /\ UNCHANGED disk
    BY <1>1, <1>3, <2>1 DEF SignFile, Memory
  <2>3. call'[i].pc = "release"
    BY <1>1, <1>3, CallBecomes DEF SignFile
  <2>4. Alone(i)
    BY <1>1, <1>3, <2>1, StepsAlone DEF Proceed, ReplaceFile, At
  <2> QED
    BY <1>1, <2>2, <2>3, <2>4, OneFollows DEF Alone, Follows
<1> QED
  BY <1>2, <1>3

LEMMA NextFollows ==
  /\ Exclusive /\ Following /\ [Next]_vars
  /\ [\A i \in Instances : ReplaceFile(i) => \A k \in Instances : ~At(k, "stat")]_vars
  /\ [\A i \in Instances : UndoesSaves(i)]_vars
  => Following'
<1> SUFFICES ASSUME Exclusive, Following, [Next]_vars,
                    [\A i \in Instances : ReplaceFile(i) => \A k \in Instances : ~At(k, "stat")]_vars,
                    [\A i \in Instances : UndoesSaves(i)]_vars
             PROVE  Following'
  OBVIOUS
<1>1. CASE UNCHANGED vars
  BY <1>1 DEF vars, Following, Follows
<1>2. CASE ~UNCHANGED vars
  <2>1. \A i \in Instances : UndoesSaves(i)
    BY <1>2
  <2>2. \A i \in Instances : ReplaceFile(i) => \A k \in Instances : ~At(k, "stat")
    BY <1>2
  <2>3. ASSUME NEW i \in Instances, Begin(i) \/ Crash(i) PROVE Following'
    BY <2>1, <2>3, BeginFollows, FailFollows
  <2>4. ASSUME NEW i \in Instances, Proceed(i) PROVE Following'
    BY <2>2, <2>4, WaitFollows, ReadFollows, SaveFollows DEF Proceed
  <2>5. ASSUME NEW i \in Instances, Fails(i) PROVE Following'
    BY <2>1, <2>5, WaitFollows, FailFollows DEF Fails, UndoesSaves
  <2>6. ASSUME NEW p \in Locks, LockAges(p) PROVE Following'
    BY <2>6 DEF LockAges, Following, Follows
  <2> QED
    BY <1>2, <2>3, <2>4, <2>5, <2>6 DEF Next
<1> QED
  BY <1>1, <1>2

\* Then personal-dictionary.md's promise about revisions holds for any number of instances,
\* crashes and other faults: one that takes its signature for the file's has the file's
\* words (_refresh_if_changed, _load_from_disk, _save_atomic).  The run PersonalReadRace
\* shows what happens without the first hypothesis.
THEOREM SnapshotsAreOfTheFile ==
  Spec /\ TakeoversAreOfOldLocks /\ ReadsAreUndisturbed /\ FailedSavesAreUndone
    => []SnapshotsFollowDisk
<1>1. Init => Exclusive /\ Following
  <2> SUFFICES ASSUME Init PROVE Exclusive /\ Following
    OBVIOUS
  <2>1. \A i \in Instances : call[i].pc = "idle" /\ mem[i].loaded = FALSE
    BY DEF Init
  <2> QED
    BY <2>1, InitGood DEF Following, Follows
<1>2. Exclusive /\ [Next]_vars /\ [\A i \in Instances : UnlinksOld(i)]_vars => Exclusive'
  BY StepGood
<1>3. Exclusive /\ Following => SnapshotsFollowDisk
  BY DEF Exclusive, Consistent, Following, Follows, SnapshotsFollowDisk, At
<1> QED
  BY <1>1, <1>2, <1>3, NextFollows, PTL
     DEF Spec, TakeoversAreOfOldLocks, ReadsAreUndisturbed, FailedSavesAreUndone

\* Two instances need no hypothesis about takeovers.
THEOREM PairsRememberTheFile ==
  ASSUME Two
  PROVE  Spec /\ ReadsAreUndisturbed /\ FailedSavesAreUndone => []SnapshotsFollowDisk
BY SnapshotsAreOfTheFile, TwoTakeOverOldLocks, PTL
=============================================================================
