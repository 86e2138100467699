------------------------ MODULE BackupRestoreProofs ------------------------
(***************************************************************************)
(* The store lock excludes, a restore that ends leaves no staged file, and *)
(* BackupRestore implements AtomicStore: restores of several locales,       *)
(* exports and mutations each happen at one moment or not at all, whatever  *)
(* fails and whoever dies.                                                  *)
(***************************************************************************)
EXTENDS BackupRestore, Induction

-----------------------------------------------------------------------------
(* The invariant.                                                           *)

Call ==
  [pc : Undecided \cup {"idle", "cleanup", "release"}, op : Operations \cup {"none"},
   words : Some(Locales, SUBSET Words), overwrite : BOOLEAN,
   todo : Seq(Locales), published : Seq(Locales),
   original : Some(Locales, Contents), final : Some(Locales, SUBSET Words),
   failures : SUBSET Locales, decision : Decisions]

Typed ==
  /\ plan \in Plans
  /\ disk \in [Locales -> Contents]
  /\ file \in Payloads
  /\ temps \subseteq (Processes \cup {Nobody}) \X Locales
  /\ lock \in Processes \cup {Nobody}
  /\ dead \subseteq Processes
  /\ call \in [Processes -> Call]

Restores == {"merge", "replace"}
Mutations == {"add", "remove"}

\* What a restore c has computed for locale l, whose file held content.
Computed(c, l, content) ==
  /\ l \in DOMAIN c.words
  /\ c.original[l] = content
  /\ content # Malformed
  /\ c.final[l] = Final(c.op, WordsOf(content), c.words[l])

\* What each program counter says about a call c of a living process, when the files
\* are d.
Consistent(d, c) ==
  /\ c.pc \in Undecided => c.op \in Operations
  /\ c.op \in Mutations => \E l \in Locales : DOMAIN c.words = {l}
  /\ c.pc \notin {"publish", "rollback"} => c.published = <<>>
  /\ c.pc = "lock" => DOMAIN c.original = {} /\ DOMAIN c.final = {}
  /\ c.pc \in {"prepare", "publish", "rollback"} =>
        /\ c.op \in Restores
        /\ DOMAIN c.original = DOMAIN c.final
  /\ c.pc = "prepare" =>
        /\ Range(c.todo) \cup DOMAIN c.final = DOMAIN c.words
        /\ \A l \in DOMAIN c.final : Computed(c, l, d[l])
  /\ c.pc \in {"publish", "rollback"} =>
        /\ DOMAIN c.final = DOMAIN c.words
        /\ \A l \in DOMAIN c.words : Computed(c, l, c.original[l])
  /\ c.pc = "publish" =>
        /\ IsInjective(c.todo)
        /\ c.todo = <<>> => c.published = <<>>
        /\ Range(c.todo) \cup Range(c.published) = DOMAIN c.words
        /\ Range(c.todo) \cap Range(c.published) = {}
        /\ \A l \in Range(c.todo) : d[l] = c.original[l]
        /\ \A l \in Range(c.published) : d[l] = c.final[l]
  /\ c.pc = "rollback" =>
        /\ Range(c.published) \subseteq DOMAIN c.words
        /\ Range(c.todo) \subseteq Range(c.published)
        /\ \A l \in Range(c.published) :
              \/ d[l] = c.original[l]
              \/ d[l] = c.final[l] /\ l \in Range(c.todo) \cup c.failures
  /\ c.pc = "read" =>
        /\ c.op \notin Restores
        /\ \A l \in DOMAIN c.final : d[l] # Malformed /\ c.final[l] = WordsOf(d[l])
        /\ Range(c.todo) \cup DOMAIN c.final =
              IF c.op = "export all" THEN {l \in Locales : d[l] # Absent} ELSE DOMAIN c.words

Critical == {"prepare", "publish", "rollback", "cleanup", "read", "release"}

\* A staged file for l is one the restore c is still to publish or to remove.
Answers(c, l) ==
  \/ c.pc = "prepare" /\ l \in DOMAIN c.final
  \/ c.pc = "publish" /\ l \in Range(c.todo)
  \/ c.pc \in {"rollback", "cleanup"}

Living == Processes \ dead

Good ==
  /\ Typed
  /\ \A p \in Living : Consistent(disk, call[p])
  /\ \A p \in Living : call[p].pc \in Critical => lock = p
  /\ \A t \in temps : t[1] \in Living => Answers(call[t[1]], t[2])
  /\ \A p \in Processes :
       call[p].pc \in {"publish", "rollback"} => DOMAIN call[p].final = DOMAIN call[p].words

-----------------------------------------------------------------------------
(* Sequences and functions.                                                 *)

LEMMA LocalesListed ==
  ASSUME NEW S \in SUBSET Locales
  PROVE  /\ SetToSeq(S) \in Seq(Locales) /\ IsInjective(SetToSeq(S))
         /\ Range(SetToSeq(S)) = S /\ Range(SetToSeq(S)) \subseteq Locales
<1>1. IsFiniteSet(S)
  BY FS_Subset, BackupAssumption
<1>2. SetToSeq(S) \in Seq(S) /\ IsInjective(SetToSeq(S)) /\ Range(SetToSeq(S)) = S
  BY <1>1, SetToSeqLists
<1> QED
  BY <1>2

LEMMA EmptyIs == ASSUME NEW s \in Seq(Locales) PROVE s = <<>> <=> Len(s) = 0
OBVIOUS

LEMMA EmptyRange == Range(<<>>) = {} /\ <<>> \in Seq(Locales) /\ IsInjective(<<>>)
BY DEF Range, IsInjective

LEMMA HeadAndTail ==
  ASSUME NEW s \in Seq(Locales), s # <<>>
  PROVE  /\ Tail(s) \in Seq(Locales) /\ Head(s) \in Locales
         /\ Range(s) = {Head(s)} \cup Range(Tail(s))
         /\ IsInjective(s) => IsInjective(Tail(s)) /\ Head(s) \notin Range(Tail(s))
         /\ Len(s) = 1 => Tail(s) = <<>>
         /\ Len(s) # 1 => Tail(s) # <<>>
<1>1. /\ Len(s) \in Nat \ {0} /\ Head(s) = s[1] /\ DOMAIN s = 1..Len(s)
      /\ Len(Tail(s)) = Len(s) - 1 /\ DOMAIN Tail(s) = 1..(Len(s) - 1)
      /\ \A i \in 1..(Len(s) - 1) : Tail(s)[i] = s[i + 1]
      /\ Tail(s) \in Seq(Locales) /\ Head(s) \in Locales
  OBVIOUS
<1>2. \A i \in 1..Len(s) : i = 1 \/ (i - 1 \in 1..(Len(s) - 1) /\ Tail(s)[i - 1] = s[i])
  BY <1>1
<1>3. \A i \in 1..Len(s) : s[i] \in {Head(s)} \cup Range(Tail(s))
  <2> SUFFICES ASSUME NEW i \in 1..Len(s) PROVE s[i] \in {Head(s)} \cup Range(Tail(s))
    OBVIOUS
  <2>1. CASE i = 1
    BY <1>1, <2>1
  <2>2. CASE i - 1 \in 1..(Len(s) - 1) /\ Tail(s)[i - 1] = s[i]
    BY <1>1, <2>2 DEF Range
  <2> QED
    BY <1>2, <2>1, <2>2
<1>4. {Head(s)} \cup Range(Tail(s)) \subseteq Range(s)
  BY <1>1 DEF Range
<1>5. ASSUME IsInjective(s) PROVE IsInjective(Tail(s)) /\ Head(s) \notin Range(Tail(s))
  <2>1. \A i, j \in 1..Len(s) : s[i] = s[j] => i = j
    BY <1>1, <1>5 DEF IsInjective
  <2>2. \A i \in 1..(Len(s) - 1) : i + 1 \in 1..Len(s) /\ i + 1 # 1
    BY <1>1
  <2>3. Head(s) \notin Range(Tail(s))
    BY <1>1, <2>1, <2>2 DEF Range
  <2>4. \A i, j \in 1..(Len(s) - 1) : Tail(s)[i] = Tail(s)[j] => i = j
    BY <1>1, <2>1, <2>2
  <2> QED
    BY <1>1, <2>3, <2>4 DEF IsInjective
<1>6. Range(s) = {Head(s)} \cup Range(Tail(s))
  BY <1>1, <1>3, <1>4 DEF Range
<1>7. Len(s) = 1 => Tail(s) = <<>>
  BY <1>1, EmptyIs
<1>8. Len(s) # 1 => Tail(s) # <<>>
  <2> DEFINE r == Tail(s)
  <2>1. r \in Seq(Locales) /\ Len(r) = Len(s) - 1
    BY <1>1
  <2> HIDE DEF r
  <2>2. Len(s) # 1 => r # <<>>
    BY <1>1, <2>1, EmptyIs
  <2> QED
    BY <2>2 DEF r
<1>9. Tail(s) \in Seq(Locales) /\ Head(s) \in Locales
  OBVIOUS
<1>10. IsInjective(s) => IsInjective(Tail(s)) /\ Head(s) \notin Range(Tail(s))
  BY <1>5
<1> QED
  BY <1>6, <1>7, <1>8, <1>9, <1>10, Zenon

LEMMA ReverseRange ==
  ASSUME NEW s \in Seq(Locales)
  PROVE  Reverse(s) \in Seq(Locales) /\ Range(Reverse(s)) = Range(s)
<1>1. Len(s) \in Nat /\ DOMAIN s = 1..Len(s) /\ \A i \in 1..Len(s) : s[i] \in Locales
  OBVIOUS
<1>2. \A i \in 1..Len(s) : Len(s) - i + 1 \in 1..Len(s) /\ Len(s) - (Len(s) - i + 1) + 1 = i
  BY <1>1
<1>3. Reverse(s) \in Seq(Locales) /\ DOMAIN Reverse(s) = 1..Len(s)
  BY <1>1, <1>2 DEF Reverse
<1>4. \A i \in 1..Len(s) : Reverse(s)[i] = s[Len(s) - i + 1] /\ Reverse(s)[Len(s) - i + 1] = s[i]
  BY <1>1, <1>2 DEF Reverse
<1>5. Range(Reverse(s)) \subseteq Range(s)
  BY <1>1, <1>2, <1>3, <1>4 DEF Range
<1>6. ASSUME NEW i \in 1..Len(s) PROVE s[i] \in Range(Reverse(s))
  BY <1>2, <1>3, <1>4 DEF Range
<1> QED
  BY <1>1, <1>3, <1>5, <1>6 DEF Range

\* A function that is given a value at one more locale.
LEMMA Extended ==
  ASSUME NEW B, NEW f \in Some(Locales, B), NEW l \in Locales, NEW v \in B
  PROVE  With(f, l, v) \in Some(Locales, B)
<1>1. PICK S \in SUBSET Locales : f \in [S -> B]
  BY DEF Some
<1>2. With(f, l, v) \in [{l} \cup S -> B]
  BY <1>1 DEF With
<1>3. {l} \cup S \in SUBSET Locales
  BY <1>1
<1> QED
  BY <1>2, <1>3 DEF Some

LEMMA SomeIs ==
  ASSUME NEW B, NEW f \in Some(Locales, B)
  PROVE  DOMAIN f \in SUBSET Locales /\ f \in [DOMAIN f -> B]
BY DEF Some

LEMMA MakesSome ==
  ASSUME NEW B, NEW S \in SUBSET Locales, NEW f \in [S -> B]
  PROVE  f \in Some(Locales, B) /\ DOMAIN f = S
<1>1. [S -> B] \in {[T -> B] : T \in SUBSET Locales}
  OBVIOUS
<1> QED
  BY <1>1 DEF Some

LEMMA NoWordsIs == ASSUME NEW B PROVE NoWords \in Some(Locales, B) /\ DOMAIN NoWords = {}
<1>1. NoWords \in [{} -> B]
  BY DEF NoWords
<1> QED
  BY <1>1 DEF Some

-----------------------------------------------------------------------------
(* The refinement mapping.                                                  *)

Request(c) ==
  IF c.pc \in Undecided THEN [op |-> c.op, words |-> c.words] ELSE Store!NoRequest

requests == [p \in Processes |-> Requested(p)]

decisions == [p \in Processes |-> DecisionOf(p)]

StoreStep == [Store!Next]_<<Stored, Parse(file), requests, decisions>>

\* The store as it is without what the restore c has published.
View(d, c) == [l \in Locales |-> IF l \in Range(c.published) THEN c.original[l] ELSE d[l]]

\* Stored, of files d and calls cs when L are alive and O those that published l.
StoredAt(d, cs, O, l) == IF O = {} THEN d[l] ELSE cs[CHOOSE p \in O : TRUE].original[l]
StoredOf(d, cs, L) ==
  [l \in Locales |-> StoredAt(d, cs, {p \in L : l \in Range(cs[p].published)}, l)]

LEMMA StoredIs == Stored = StoredOf(disk, call, Living) /\ Stored' = StoredOf(disk', call', Living')
BY DEF Stored, Owner, StoredOf, StoredAt, Living

\* One restore at most is publishing.
LEMMA ViewIs ==
  ASSUME NEW d, NEW cs, NEW L, NEW p \in L, \A q \in L \ {p} : cs[q].published = <<>>
  PROVE  StoredOf(d, cs, L) = View(d, cs[p])
<1> SUFFICES ASSUME NEW l \in Locales
             PROVE  StoredOf(d, cs, L)[l] = View(d, cs[p])[l]
  BY DEF StoredOf, View
<1> DEFINE Owners == {q \in L : l \in Range(cs[q].published)}
<1>1. \A q \in Owners : q = p
  BY EmptyRange
<1>2. CASE l \in Range(cs[p].published)
  <2>1. Owners = {p}
    BY <1>1, <1>2
  <2> QED
    BY <1>2, <2>1 DEF StoredOf, StoredAt, View
<1>3. CASE l \notin Range(cs[p].published)
  <2>1. Owners = {}
    BY <1>1, <1>3
  <2> QED
    BY <1>3, <2>1 DEF StoredOf, StoredAt, View
<1> QED
  BY <1>2, <1>3

LEMMA NoView ==
  ASSUME NEW d \in [Locales -> Contents], NEW cs, NEW L, \A q \in L : cs[q].published = <<>>
  PROVE  StoredOf(d, cs, L) = d
BY EmptyRange DEF StoredOf, StoredAt

-----------------------------------------------------------------------------
(* Steps of one living process.                                             *)

\* What a living process that does not hold the lock has published: nothing.
LEMMA OthersWait ==
  ASSUME Good, NEW p \in Living, call[p].pc \in Critical, NEW q \in Living \ {p}
  PROVE  call[q].pc \notin Critical /\ call[q].published = <<>>
<1>1. call[q].pc \notin Critical
  BY DEF Good
<1> QED
  BY <1>1 DEF Good, Consistent, Critical

\* Only a process in the critical section cares for the files.
LEMMA WaitersAreConsistent ==
  ASSUME NEW d, NEW e, NEW c, c.pc \notin Critical, Consistent(d, c)
  PROVE  Consistent(e, c)
BY DEF Consistent, Critical

LEMMA GoodStep ==
  ASSUME Good, NEW p \in Living, NEW c \in Call, call' = [call EXCEPT ![p] = c],
         UNCHANGED <<plan, dead>>, disk' \in [Locales -> Contents], file' \in Payloads,
         lock' \in Processes \cup {Nobody}, temps' \subseteq (Processes \cup {Nobody}) \X Locales,
         disk' = disk \/ call[p].pc \in Critical,
         Consistent(disk', c),
         c.pc \in Critical => lock' = p,
         \A q \in Living \ {p} : call[q].pc \in Critical => lock' = q,
         \A t \in temps' : t \in temps \/ t[1] \in {p, Nobody},
         \A t \in temps' : t[1] = p => Answers(c, t[2])
  PROVE  Good'
<1>1. /\ call'[p] = c /\ \A q \in Processes \ {p} : call'[q] = call[q]
      /\ Living' = Living /\ Living \subseteq Processes /\ Nobody \notin Living
  BY BackupAssumption DEF Good, Typed, Living
<1>2. Typed'
  BY DEF Good, Typed
<1>3. ASSUME NEW q \in Living PROVE Consistent(disk', call'[q])
  <2>1. CASE q = p
    BY <1>1, <2>1
  <2>2. CASE q # p /\ disk' = disk
    BY <1>1, <2>2 DEF Good
  <2>3. CASE q # p /\ call[p].pc \in Critical
    <3>1. call[q].pc \notin Critical /\ Consistent(disk, call[q])
      BY <2>3, OthersWait DEF Good
    <3> QED
      BY <1>1, <2>3, <3>1, WaitersAreConsistent
  <2> QED
    BY <2>1, <2>2, <2>3
<1>4. \A q \in Living : call'[q].pc \in Critical => lock' = q
  BY <1>1
<1>5. \A t \in temps' : t[1] \in Living => Answers(call'[t[1]], t[2])
  BY <1>1 DEF Good
<1>6. \A q \in Processes :
        call'[q].pc \in {"publish", "rollback"} => DOMAIN call'[q].final = DOMAIN call'[q].words
  <2>1. c.pc \in {"publish", "rollback"} => DOMAIN c.final = DOMAIN c.words
    BY DEF Consistent
  <2> QED
    BY <1>1, <2>1 DEF Good
<1> QED
  BY <1>1, <1>2, <1>3, <1>4, <1>5, <1>6 DEF Good

LEMMA MappedStep ==
  ASSUME Good, NEW p \in Living, NEW c \in Call, call' = [call EXCEPT ![p] = c], dead' = dead
  PROVE  /\ requests' = [requests EXCEPT ![p] = Request(c)] /\ requests[p] = Request(call[p])
         /\ decisions' = [decisions EXCEPT ![p] = c.decision] /\ decisions[p] = call[p].decision
<1>1. /\ call'[p] = c /\ \A q \in Processes \ {p} : call'[q] = call[q]
      /\ p \in Processes /\ p \notin dead
  BY DEF Good, Typed, Living
<1>2. \A q \in Processes : requests'[q] = IF q = p THEN Request(c) ELSE requests[q]
  BY <1>1 DEF requests, Requested, Request, Store!NoRequest
<1>3. \A q \in Processes : decisions'[q] = IF q = p THEN c.decision ELSE decisions[q]
  BY <1>1 DEF decisions, DecisionOf
<1>4. requests[p] = Request(call[p]) /\ decisions[p] = call[p].decision
  BY <1>1 DEF requests, Requested, Request, Store!NoRequest, decisions, DecisionOf
<1> QED
  BY <1>1, <1>2, <1>3, <1>4 DEF requests, decisions

LEMMA QuietStep ==
  ASSUME Good, NEW p \in Living, NEW c \in Call, call' = [call EXCEPT ![p] = c],
         UNCHANGED <<dead, file, Stored>>,
         Request(c) = Request(call[p]), c.decision = call[p].decision
  PROVE  StoreStep
<1>1. /\ requests' = [requests EXCEPT ![p] = Request(c)] /\ requests[p] = Request(c)
      /\ decisions' = [decisions EXCEPT ![p] = c.decision] /\ decisions[p] = c.decision
  BY MappedStep
<1>2. requests' = requests
  BY <1>1 DEF requests
<1>3. decisions' = decisions
  BY <1>1 DEF decisions
<1> QED
  BY <1>2, <1>3 DEF StoreStep, Parse

\* The call is decided in this step.
LEMMA DecidingStep ==
  ASSUME Good, NEW p \in Living, NEW c \in Call, call' = [call EXCEPT ![p] = c], dead' = dead,
         call[p].pc \in Undecided, c.pc \notin Undecided
  PROVE  /\ p \in Processes
         /\ requests[p] = [op |-> call[p].op, words |-> call[p].words]
         /\ requests[p] # Store!NoRequest
         /\ requests' = [requests EXCEPT ![p] = Store!NoRequest]
         /\ decisions' = [decisions EXCEPT ![p] = c.decision]
<1>1. call[p].op \in Operations
  BY DEF Good, Consistent
<1>2. requests[p] = [op |-> call[p].op, words |-> call[p].words]
  BY MappedStep DEF Request
<1>0. call[p].op # "none"
  BY <1>1 DEF Operations
<1>3. requests[p].op # "none" /\ Store!NoRequest.op = "none"
  BY <1>0, <1>2 DEF Store!NoRequest
<1>4. Request(c) = Store!NoRequest
  BY DEF Request
<1> QED
  BY <1>2, <1>3, <1>4, MappedStep DEF Living

\* A living process outside the critical section, or one that has published nothing and
\* publishes nothing, leaves the store as it is.
LEMMA SameStored ==
  ASSUME Good, NEW p \in Living, NEW c \in Call, call' = [call EXCEPT ![p] = c],
         UNCHANGED <<dead, disk>>, call[p].published = <<>>, c.published = <<>>
  PROVE  Stored' = Stored
<1>1. /\ call'[p] = c /\ \A q \in Processes \ {p} : call'[q] = call[q]
      /\ Living' = Living /\ Living \subseteq Processes
  BY DEF Good, Typed, Living
<1>2. ASSUME NEW l \in Locales
      PROVE  StoredOf(disk, call', Living)[l] = StoredOf(disk, call, Living)[l]
  <2> DEFINE Owners == {q \in Living : l \in Range(call[q].published)}
             r == CHOOSE q \in Owners : TRUE
  <2>1. p \notin Owners /\ {q \in Living : l \in Range(call'[q].published)} = Owners
    BY <1>1, EmptyRange
  <2>2. Owners # {} => r \in Owners
    OBVIOUS
  <2>3. Owners # {} => call'[r] = call[r]
    BY <1>1, <2>1, <2>2
  <2>4. StoredAt(disk, call', Owners, l) = StoredAt(disk, call, Owners, l)
    BY <2>3 DEF StoredAt
  <2> QED
    BY <2>1, <2>4 DEF StoredOf
<1>3. StoredOf(disk, call', Living) = StoredOf(disk, call, Living)
  BY <1>2 DEF StoredOf
<1> QED
  BY <1>1, <1>3, StoredIs

\* In the critical section the store is what the one that is there makes of it.
LEMMA HolderStored ==
  ASSUME Good, NEW p \in Living, NEW c \in Call, call' = [call EXCEPT ![p] = c], dead' = dead,
         call[p].pc \in Critical
  PROVE  Stored = View(disk, call[p]) /\ Stored' = View(disk', c)
<1>1. /\ call'[p] = c /\ \A q \in Processes \ {p} : call'[q] = call[q]
      /\ Living' = Living /\ Living \subseteq Processes
  BY DEF Good, Typed, Living
<1>2. \A q \in Living \ {p} : call[q].published = <<>>
  BY OthersWait
<1>3. \A q \in Living \ {p} : call'[q].published = <<>>
  BY <1>1, <1>2
<1>4. \A d, cs : (\A q \in Living \ {p} : cs[q].published = <<>>)
                  => StoredOf(d, cs, Living) = View(d, cs[p])
  BY ViewIs, Zenon
<1>5. StoredOf(disk, call, Living) = View(disk, call[p])
  BY <1>2, <1>4, Zenon
<1>6. StoredOf(disk', call', Living) = View(disk', call'[p])
  BY <1>3, <1>4, Zenon
<1> QED
  BY <1>1, <1>5, <1>6, StoredIs

Done == Good' /\ StoreStep

\* A step that keeps the files and the lock, on the way to a decision or after it.
LEMMA InnerStep ==
  ASSUME Good, NEW p \in Living, NEW c \in Call, call' = [call EXCEPT ![p] = c],
         UNCHANGED <<plan, dead, disk, file, lock>>,
         temps' \subseteq (Processes \cup {Nobody}) \X Locales,
         Consistent(disk, c),
         c.pc \in Critical => call[p].pc \in Critical,
         \A t \in temps' : t \in temps \/ t[1] \in {p, Nobody},
         \A t \in temps' : t[1] = p => Answers(c, t[2]),
         View(disk, c) = View(disk, call[p]),
         \/ Request(c) = Request(call[p]) /\ c.decision = call[p].decision
         \/ /\ call[p].pc \in Undecided /\ c.pc \notin Undecided
            /\ c.decision = "failed"
  PROVE  Done
<1>1. /\ disk' \in [Locales -> Contents] /\ file' \in Payloads
      /\ lock' \in Processes \cup {Nobody}
  BY DEF Good, Typed
<1>2. \A q \in Living : call[q].pc \in Critical => lock' = q
  BY DEF Good
<1>3. Good'
  BY ZenonT(60), <1>1, <1>2, GoodStep
<1>4. Stored' = Stored
  <2>1. CASE call[p].pc \in Critical
    BY <2>1, HolderStored
  <2>2. CASE call[p].pc \notin Critical
    <3>1. call[p].published = <<>> /\ c.published = <<>>
      BY <2>2 DEF Good, Consistent, Critical
    <3> QED
      BY <3>1, SameStored
  <2> QED
    BY <2>1, <2>2
<1>5. CASE Request(c) = Request(call[p]) /\ c.decision = call[p].decision
  BY <1>3, <1>4, <1>5, QuietStep DEF Done
<1>6. CASE call[p].pc \in Undecided /\ c.pc \notin Undecided /\ c.decision = "failed"
  <2>1. /\ p \in Processes /\ requests[p] # Store!NoRequest
        /\ requests' = [requests EXCEPT ![p] = Store!NoRequest]
        /\ decisions' = [decisions EXCEPT ![p] = c.decision]
    BY <1>6, DecidingStep
  <2>2. Parse(file)' = Parse(file)
    BY DEF Parse
  <2> QED
    BY <1>3, <1>4, <1>6, <2>1, <2>2 DEF Done, StoreStep, Store!Next, Store!Refuse, Store!Decide,
       requests, decisions
<1> QED
  BY <1>5, <1>6

LEMMA CallIs ==
  ASSUME Good, NEW p \in Processes, p \notin dead
  PROVE  /\ p \in Living /\ call[p] \in Call /\ Consistent(disk, call[p])
         /\ call[p].pc \in Critical => lock = p
         /\ \A t \in temps : t[1] = p => Answers(call[p], t[2])
         /\ temps \subseteq (Processes \cup {Nobody}) \X Locales
BY DEF Good, Typed, Living

LEMMA IdleIs ==
  /\ Idle \in Call /\ Idle.pc = "idle" /\ Idle.op = "none" /\ Idle.published = <<>>
  /\ Idle.decision = "none" /\ DOMAIN Idle.original = {} /\ DOMAIN Idle.final = {}
<1>1. NoWords \in Some(Locales, SUBSET Words) /\ NoWords \in Some(Locales, Contents)
      /\ DOMAIN NoWords = {}
  BY NoWordsIs
<1> QED
  BY <1>1, EmptyRange DEF Idle, Call, Decisions

\* A call whose decision is known has nothing left to publish or to undo.
LEMMA DecidedIs ==
  ASSUME Good, NEW p \in Living, NEW how \in Decisions
  PROVE  /\ Decided(p, how) \in Call /\ Decided(p, how).pc = "release"
         /\ Decided(p, how).op = "none" /\ Decided(p, how).published = <<>>
         /\ Decided(p, how).decision = how
         /\ \A d : Consistent(d, Decided(p, how))
<1>1. NoWords \in Some(Locales, SUBSET Words) /\ NoWords \in Some(Locales, Contents)
  BY NoWordsIs
<1>2. call[p] \in Call
  BY DEF Good, Typed, Living
<1>3. /\ Decided(p, how) \in Call /\ Decided(p, how).pc = "release"
      /\ Decided(p, how).op = "none" /\ Decided(p, how).published = <<>>
      /\ Decided(p, how).decision = how
  BY <1>1, <1>2, EmptyRange DEF Decided, Call
<1>4. \A d : Consistent(d, Decided(p, how))
  BY <1>3 DEF Consistent, Undecided, Mutations
<1> QED
  BY <1>3, <1>4

-----------------------------------------------------------------------------
(* Beginning.                                                               *)

LEMMA BeginDone ==
  ASSUME Good, NEW p \in Processes, At(p, "idle"),
         NEW op \in Operations, NEW words \in Some(Locales, SUBSET Words),
         NEW overwrite \in BOOLEAN, Begin(p, op, words, overwrite),
         op \in Mutations => \E l \in Locales : DOMAIN words = {l},
         op \in Restores => /\ Parse(file) \notin {Absent, Malformed}
                            /\ \A l \in DOMAIN words :
                                  l \in DOMAIN Parse(file) /\ words[l] = Parse(file)[l],
         UNCHANGED <<plan, disk, file, temps, lock, dead>>
  PROVE  Done
<1> DEFINE c == [Idle EXCEPT !.pc = "lock", !.op = op, !.words = words,
                             !.overwrite = overwrite]
<1>1. /\ p \in Living /\ call[p] \in Call /\ Consistent(disk, call[p])
      /\ \A t \in temps : t[1] = p => Answers(call[p], t[2])
      /\ call[p].pc = "idle" /\ call' = [call EXCEPT ![p] = c]
  BY CallIs DEF At, Begin
<1>2. /\ c \in Call /\ c.pc = "lock" /\ c.op = op /\ c.words = words /\ c.published = <<>>
      /\ c.decision = "none" /\ DOMAIN c.original = {} /\ DOMAIN c.final = {}
  BY IdleIs DEF Call, Undecided
<1> HIDE DEF c
<1>3. Consistent(disk', c)
  BY <1>2 DEF Consistent, Undecided
<1>4. \A t \in temps : t[1] # p
  BY <1>1 DEF Answers
<1>5. Good'
  <2>1. c.pc \notin Critical
    BY <1>2 DEF Critical
  <2>2. \A q \in Living : call[q].pc \in Critical => lock' = q
    BY DEF Good
  <2>3. /\ disk' \in [Locales -> Contents] /\ file' \in Payloads
        /\ lock' \in Processes \cup {Nobody}
        /\ temps' \subseteq (Processes \cup {Nobody}) \X Locales
    BY DEF Good, Typed
  <2>4. \A t \in temps' : t \in temps \/ t[1] \in {p, Nobody}
    OBVIOUS
  <2>5. \A t \in temps' : t[1] = p => Answers(c, t[2])
    BY <1>4
  <2> QED
    BY ZenonT(60), <1>1, <1>2, <1>3, <2>1, <2>2, <2>3, <2>4, <2>5, GoodStep
<1>6. Stored' = Stored
  <2>1. call[p].published = <<>>
    BY <1>1 DEF Consistent
  <2> QED
    BY <1>1, <1>2, <2>1, SameStored
<1>7. Request(call[p]) = Store!NoRequest /\ Request(c) = [op |-> op, words |-> words]
  BY <1>1, <1>2 DEF Request, Undecided
<1>8. /\ requests' = [requests EXCEPT ![p] = [op |-> op, words |-> words]]
      /\ requests[p] = Store!NoRequest
      /\ decisions' = [decisions EXCEPT ![p] = "none"]
  <2>1. /\ requests' = [requests EXCEPT ![p] = Request(c)] /\ requests[p] = Request(call[p])
        /\ decisions' = [decisions EXCEPT ![p] = c.decision]
    BY <1>1, <1>2, MappedStep
  <2> QED
    BY <1>2, <1>7, <2>1
<1>9. [op |-> op, words |-> words] \in Store!Requests
  <2>1. PICK T \in SUBSET Locales : words \in [T -> SUBSET Words]
    BY DEF Some
  <2>2. [op |-> op, words |-> words] \in [op : Operations, words : [T -> SUBSET Words]]
    BY <2>1
  <2> QED
    BY <2>2 DEF Store!Requests, Store!Operations, Operations
<1>10. Parse(file)' = Parse(file)
  BY DEF Parse
<1>11. Store!Next
  BY <1>6, <1>8, <1>9, <1>10 DEF Store!Next, Store!Submit, requests, decisions, Restores
<1> QED
  BY <1>5, <1>11 DEF Done, StoreStep

\* What a backup that can be read says of its locales.
LEMMA ParseIs ==
  ASSUME NEW f \in Payloads, Parse(f) \notin {Absent, Malformed}
  PROVE  Parse(f) \in Some(Locales, SUBSET Words)
<1>1. f \in Seq([locale : Locales, words : SUBSET Words])
  BY DEF Payloads, Parse
<1> DEFINE S == {f[i].locale : i \in DOMAIN f}
           g == [l \in S |-> (CHOOSE e \in Range(f) : e.locale = l).words]
<1>2. Parse(f) = g
  BY DEF Parse
<1>3. \A i \in DOMAIN f : f[i] \in [locale : Locales, words : SUBSET Words]
  <2> DEFINE E == [locale : Locales, words : SUBSET Words]
  <2>1. f \in Seq(E)
    BY <1>1
  <2> HIDE DEF E
  <2>2. \A i \in DOMAIN f : f[i] \in E
    BY <2>1
  <2> QED
    BY <2>2 DEF E
<1>4. ASSUME NEW l \in S
      PROVE  l \in Locales /\ (CHOOSE e \in Range(f) : e.locale = l).words \in SUBSET Words
  <2>1. PICK i \in DOMAIN f : f[i].locale = l
    OBVIOUS
  <2>2. \E e \in Range(f) : e.locale = l
    BY <2>1 DEF Range
  <2>3. (CHOOSE e \in Range(f) : e.locale = l) \in Range(f)
    BY <2>2
  <2>4. Range(f) \subseteq [locale : Locales, words : SUBSET Words]
    BY <1>3 DEF Range
  <2> QED
    BY <1>3, <2>1, <2>3, <2>4
<1>5. S \in SUBSET Locales /\ g \in [S -> SUBSET Words]
  BY <1>4
<1> HIDE DEF S, g
<1>6. g \in Some(Locales, SUBSET Words)
  BY <1>5, MakesSome
<1> QED
  BY <1>2, <1>6

LEMMA BeginRestoreDone ==
  ASSUME Good, NEW p \in Processes, BeginRestore(p)
  PROVE  Done
<1>1. PICK op \in Restores \cap plan.ops[p], S \in plan.scopes :
        S \subseteq DOMAIN Parse(file) /\ Begin(p, op, Restrict(Parse(file), S), FALSE)
  BY DEF BeginRestore, Restores
<1> DEFINE words == Restrict(Parse(file), S)
<1>2. Parse(file) \notin {Absent, Malformed} /\ At(p, "idle")
  BY DEF BeginRestore
<1>3. Parse(file) \in Some(Locales, SUBSET Words)
  BY <1>2, ParseIs DEF Good, Typed
<1>4. PICK T \in SUBSET Locales : Parse(file) \in [T -> SUBSET Words]
  BY <1>3 DEF Some
<1>5. words = [l \in S |-> Parse(file)[l]] /\ S \in SUBSET Locales
  BY <1>1, <1>4 DEF Restrict
<1>6. words \in [S -> SUBSET Words]
  BY <1>1, <1>4, <1>5
<1>7. words \in Some(Locales, SUBSET Words) /\ DOMAIN words = S
  BY <1>5, <1>6, MakesSome
<1>8. \A l \in DOMAIN words : l \in DOMAIN Parse(file) /\ words[l] = Parse(file)[l]
  BY <1>1, <1>5
<1>9. op \in Operations /\ op \notin Mutations
  BY DEF Operations, Restores, Mutations
<1>10. UNCHANGED <<plan, disk, file, temps, lock, dead>>
  BY DEF BeginRestore
<1> HIDE DEF words
<1> QED
  BY <1>1, <1>2, <1>7, <1>8, <1>9, <1>10, BeginDone DEF words

LEMMA PlanIs ==
  ASSUME Good
  PROVE  /\ \A p \in Processes : plan.ops[p] \subseteq Operations
         /\ plan.scopes \subseteq SUBSET Locales /\ plan.edited \subseteq Locales
BY BackupAssumption DEF Good, Typed

LEMMA BeginExportDone ==
  ASSUME Good, NEW p \in Processes, BeginExport(p)
  PROVE  Done
<1>1. PICK op \in {"export", "export all"} \cap plan.ops[p], overwrite \in BOOLEAN,
           S \in plan.scopes \cup {{}} : Begin(p, op, [l \in S |-> {}], overwrite)
  BY DEF BeginExport
<1> DEFINE words == [l \in S |-> {}]
<1>2. S \in SUBSET Locales
  BY PlanIs
<1>3. words \in Some(Locales, SUBSET Words)
  <2>1. words \in [S -> SUBSET Words]
    OBVIOUS
  <2> QED
    BY <1>2, <2>1, MakesSome
<1>4. op \in Operations /\ op \notin Mutations /\ op \notin Restores
  BY DEF Operations, Mutations, Restores
<1>5. At(p, "idle") /\ UNCHANGED <<plan, disk, file, temps, lock, dead>>
  BY DEF BeginExport
<1> HIDE DEF words
<1> QED
  BY <1>1, <1>3, <1>4, <1>5, BeginDone DEF words

LEMMA BeginMutationDone ==
  ASSUME Good, NEW p \in Processes, BeginMutation(p)
  PROVE  Done
<1>1. PICK op \in {"add", "remove"} \cap plan.ops[p], l \in plan.edited, w \in Words :
        Begin(p, op, [k \in {l} |-> {w}], FALSE)
  BY DEF BeginMutation
<1> DEFINE words == [k \in {l} |-> {w}]
<1>2. l \in Locales
  BY PlanIs
<1>3. words \in Some(Locales, SUBSET Words) /\ DOMAIN words = {l}
  <2>1. words \in [{l} -> SUBSET Words] /\ {l} \in SUBSET Locales
    BY <1>2
  <2> QED
    BY <2>1, MakesSome
<1>4. op \in Operations /\ op \notin Restores
  BY DEF Operations, Restores
<1>5. At(p, "idle") /\ UNCHANGED <<plan, disk, file, temps, lock, dead>>
  BY DEF BeginMutation
<1> HIDE DEF words
<1> QED
  BY <1>1, <1>2, <1>3, <1>4, <1>5, BeginDone DEF words

-----------------------------------------------------------------------------
(* The store lock.                                                          *)

LEMMA PlainView ==
  ASSUME NEW d \in [Locales -> Contents], NEW c, c.published = <<>>
  PROVE  View(d, c) = d
BY EmptyRange DEF View

LEMMA LockDone ==
  ASSUME Good, NEW p \in Processes, Lock(p)
  PROVE  Done
<1> DEFINE S == IF call[p].op = "export all" THEN {l \in Locales : disk[l] # Absent}
                ELSE DOMAIN call[p].words
           c == [call[p] EXCEPT !.todo = SetToSeq(S),
                                !.pc = IF call[p].op \in {"merge", "replace"} THEN "prepare"
                                       ELSE "read"]
<1>1. /\ p \in Living /\ call[p] \in Call /\ Consistent(disk, call[p])
      /\ call[p].pc = "lock" /\ \A t \in temps : t[1] = p => Answers(call[p], t[2])
  BY CallIs DEF Lock, At
<1>2. call' = [call EXCEPT ![p] = c]
  BY <1>1 DEF Lock, Good, Typed
<1>3. S \in SUBSET Locales
  BY <1>1, SomeIs DEF Call
<1>4. SetToSeq(S) \in Seq(Locales) /\ Range(SetToSeq(S)) = S
  BY <1>3, LocalesListed
<1>5. /\ c \in Call /\ c.op = call[p].op /\ c.words = call[p].words
      /\ c.published = call[p].published /\ c.original = call[p].original
      /\ c.final = call[p].final /\ c.decision = call[p].decision /\ c.todo = SetToSeq(S)
      /\ c.pc = IF call[p].op \in Restores THEN "prepare" ELSE "read"
  BY <1>1, <1>4 DEF Call, Undecided, Restores
<1>6. /\ call[p].published = <<>> /\ DOMAIN c.original = {} /\ DOMAIN c.final = {}
      /\ c.op \in Operations
  BY <1>1, <1>5 DEF Consistent, Undecided
<1>7. Range(c.todo) = IF c.op = "export all" THEN {l \in Locales : disk[l] # Absent}
                      ELSE DOMAIN c.words
  BY <1>4, <1>5
<1> HIDE DEF c, S
<1>8. Consistent(disk, c)
  <2>1. c.op \in Mutations => \E l \in Locales : DOMAIN c.words = {l}
    BY <1>1, <1>5 DEF Consistent
  <2>2. c.pc \in {"prepare", "read"} /\ (c.pc = "prepare" <=> c.op \in Restores) /\ c.published = <<>>
    BY <1>5, <1>6
  <2>3. c.op \in Restores => c.op # "export all"
    BY DEF Restores
  <2> QED
    BY <1>6, <1>7, <2>1, <2>2, <2>3 DEF Consistent
<1>9. \A q \in Living \ {p} : call[q].pc \notin Critical
  BY BackupAssumption DEF Lock, Abandoned, Good, Living, Critical
<1>10. /\ UNCHANGED <<plan, disk, file, temps, dead>> /\ lock' = p
  BY DEF Lock
<1>11. \A t \in temps' : t[1] = p => Answers(c, t[2])
  BY <1>1, <1>10 DEF Answers
<1>12. /\ disk' \in [Locales -> Contents] /\ file' \in Payloads
       /\ lock' \in Processes \cup {Nobody}
       /\ temps' \subseteq (Processes \cup {Nobody}) \X Locales
  BY <1>10 DEF Good, Typed
<1>13. Good'
  <2>1. Consistent(disk', c)
    BY <1>8, <1>10
  <2>2. \A t \in temps' : t \in temps \/ t[1] \in {p, Nobody}
    BY <1>10
  <2> QED
    BY <1>1, <1>2, <1>5, <1>9, <1>10, <1>11, <1>12, <2>1, <2>2, GoodStep
<1>14. Stored' = Stored
  BY <1>1, <1>2, <1>5, <1>6, <1>10, SameStored
<1>15. Request(c) = Request(call[p])
  BY <1>1, <1>5 DEF Request, Undecided
<1> QED
  BY <1>1, <1>2, <1>5, <1>10, <1>13, <1>14, <1>15, QuietStep DEF Done

LEMMA GiveUpDone ==
  ASSUME Good, NEW p \in Processes, GiveUp(p)
  PROVE  Done
<1> DEFINE c == [Idle EXCEPT !.decision = "failed"]
<1>1. /\ p \in Living /\ call[p] \in Call /\ Consistent(disk, call[p])
      /\ call[p].pc = "lock" /\ \A t \in temps : t[1] = p => Answers(call[p], t[2])
      /\ temps \subseteq (Processes \cup {Nobody}) \X Locales
  BY CallIs DEF GiveUp, At
<1>2. call' = [call EXCEPT ![p] = c] /\ UNCHANGED <<plan, disk, file, temps, lock, dead>>
  BY DEF GiveUp
<1>3. /\ c \in Call /\ c.pc = "idle" /\ c.op = "none" /\ c.published = <<>>
      /\ c.decision = "failed"
  BY IdleIs DEF Call, Decisions
<1> HIDE DEF c
<1>4. Consistent(disk, c)
  BY <1>3 DEF Consistent, Undecided, Mutations
<1>5. \A t \in temps' : t[1] = p => Answers(c, t[2])
  BY <1>1, <1>2 DEF Answers
<1>6. View(disk, c) = View(disk, call[p])
  <2>1. call[p].published = <<>>
    BY <1>1 DEF Consistent
  <2> QED
    BY <1>3, <2>1, PlainView DEF Good, Typed
<1>7. /\ c.pc \notin Critical /\ call[p].pc \in Undecided /\ c.pc \notin Undecided
      /\ temps' \subseteq (Processes \cup {Nobody}) \X Locales
      /\ \A t \in temps' : t \in temps \/ t[1] \in {p, Nobody}
  BY <1>1, <1>2, <1>3 DEF Critical, Undecided
<1> QED
  BY <1>1, <1>2, <1>3, <1>4, <1>5, <1>6, <1>7, InnerStep

LEMMA ReleaseDone ==
  ASSUME Good, NEW p \in Processes, Release(p)
  PROVE  Done
<1> DEFINE c == [Idle EXCEPT !.decision = call[p].decision]
<1>1. /\ p \in Living /\ call[p] \in Call /\ Consistent(disk, call[p])
      /\ call[p].pc = "release" /\ \A t \in temps : t[1] = p => Answers(call[p], t[2])
  BY CallIs DEF Release, At
<1>2. /\ call' = [call EXCEPT ![p] = c] /\ lock' \in {Nobody, lock}
      /\ UNCHANGED <<plan, disk, file, temps, dead>>
  BY DEF Release
<1>3. /\ c \in Call /\ c.pc = "idle" /\ c.op = "none" /\ c.published = <<>>
      /\ c.decision = call[p].decision
  BY <1>1, IdleIs DEF Call
<1> HIDE DEF c
<1>4. call[p].published = <<>>
  BY <1>1 DEF Consistent
<1>5. Good'
  <2>1. Consistent(disk', c)
    BY <1>2, <1>3 DEF Consistent, Undecided, Mutations
  <2>2. \A t \in temps' : t[1] = p => Answers(c, t[2])
    BY <1>1, <1>2 DEF Answers
  <2>3. /\ disk' \in [Locales -> Contents] /\ file' \in Payloads
        /\ lock' \in Processes \cup {Nobody}
        /\ temps' \subseteq (Processes \cup {Nobody}) \X Locales
    BY <1>2 DEF Good, Typed
  <2>4. c.pc \notin Critical /\ call[p].pc \in Critical
    BY <1>1, <1>3 DEF Critical
  <2>5. \A q \in Living \ {p} : call[q].pc \notin Critical
    BY <1>1, <2>4, OthersWait
  <2>6. \A t \in temps' : t \in temps \/ t[1] \in {p, Nobody}
    BY <1>2
  <2> QED
    BY <1>1, <1>2, <1>3, <2>1, <2>2, <2>3, <2>4, <2>5, <2>6, GoodStep
<1>6. Stored' = Stored
  BY <1>1, <1>2, <1>3, <1>4, SameStored
<1>7. Request(c) = Request(call[p])
  BY <1>1, <1>3 DEF Request, Undecided
<1> QED
  BY <1>1, <1>2, <1>3, <1>5, <1>6, <1>7, QuietStep DEF Done

-----------------------------------------------------------------------------
(* A restore, with the lock held.                                           *)

LEMMA WordsOfIs ==
  ASSUME NEW content \in Contents, content # Malformed
  PROVE  WordsOf(content) \in SUBSET Words
BY DEF Contents, WordsOf

LEMMA PrepareDone ==
  ASSUME Good, NEW p \in Processes, Prepare(p)
  PROVE  Done
<1> DEFINE l == Head(call[p].todo)
           new == Final(call[p].op, WordsOf(disk[l]), call[p].words[l])
           c == [call[p] EXCEPT !.original = With(call[p].original, l, disk[l]),
                                !.final = With(call[p].final, l, new),
                                !.todo = Tail(call[p].todo)]
<1>1. /\ p \in Living /\ call[p] \in Call /\ Consistent(disk, call[p])
      /\ call[p].pc = "prepare" /\ \A t \in temps : t[1] = p => Answers(call[p], t[2])
      /\ call[p].todo # <<>>
  BY CallIs DEF Prepare, At
<1>2. /\ call' = [call EXCEPT ![p] = c] /\ temps' = temps \cup {<<p, l>>} /\ disk[l] # Malformed
      /\ UNCHANGED <<plan, disk, file, lock, dead>>
  BY <1>1 DEF Prepare, Good, Typed
<1>3. /\ l \in Locales /\ Tail(call[p].todo) \in Seq(Locales)
      /\ Range(call[p].todo) = {l} \cup Range(Tail(call[p].todo))
  BY <1>1, HeadAndTail DEF Call
<1>4. /\ call[p].op \in Restores /\ call[p].published = <<>>
      /\ DOMAIN call[p].original = DOMAIN call[p].final
      /\ Range(call[p].todo) \cup DOMAIN call[p].final = DOMAIN call[p].words
      /\ \A k \in DOMAIN call[p].final : Computed(call[p], k, disk[k])
  BY <1>1 DEF Consistent
<1>5. disk[l] \in Contents /\ l \in DOMAIN call[p].words /\ new \in SUBSET Words
  <2>1. disk[l] \in Contents /\ l \in DOMAIN call[p].words
    BY <1>3, <1>4 DEF Good, Typed
  <2>2. call[p].words[l] \in SUBSET Words
    BY <1>1, <2>1, SomeIs DEF Call
  <2> QED
    BY <1>2, <2>1, <2>2, WordsOfIs DEF Final
<1>6. /\ With(call[p].original, l, disk[l]) \in Some(Locales, Contents)
      /\ DOMAIN With(call[p].original, l, disk[l]) = {l} \cup DOMAIN call[p].original
      /\ With(call[p].original, l, disk[l])[l] = disk[l]
      /\ \A k \in DOMAIN call[p].original \ {l} :
            With(call[p].original, l, disk[l])[k] = call[p].original[k]
  <2>1. call[p].original \in Some(Locales, Contents) /\ l \in Locales /\ disk[l] \in Contents
    BY <1>1, <1>3, <1>5 DEF Call
  <2>2. With(call[p].original, l, disk[l]) \in Some(Locales, Contents)
    BY <2>1, Extended, Zenon
  <2> QED
    BY <2>2 DEF With
<1> HIDE DEF new
<1>7. /\ With(call[p].final, l, new) \in Some(Locales, SUBSET Words)
      /\ DOMAIN With(call[p].final, l, new) = {l} \cup DOMAIN call[p].final
      /\ With(call[p].final, l, new)[l] = new
      /\ \A k \in DOMAIN call[p].final \ {l} : With(call[p].final, l, new)[k] = call[p].final[k]
  <2>1. call[p].final \in Some(Locales, SUBSET Words) /\ l \in Locales /\ new \in SUBSET Words
    BY <1>1, <1>3, <1>5 DEF Call
  <2>2. With(call[p].final, l, new) \in Some(Locales, SUBSET Words)
    BY <2>1, Extended, Zenon
  <2> QED
    BY <2>2 DEF With
<1>8. /\ c \in Call /\ c.pc = "prepare" /\ c.op = call[p].op /\ c.words = call[p].words
      /\ c.published = call[p].published /\ c.decision = call[p].decision
      /\ c.todo = Tail(call[p].todo)
      /\ c.original = With(call[p].original, l, disk[l])
      /\ c.final = With(call[p].final, l, new)
  BY <1>1, <1>3, <1>6, <1>7 DEF Call
<1> HIDE DEF c, l
<1>9. \A k \in DOMAIN c.final : Computed(c, k, disk[k])
  <2>1. Computed(c, l, disk[l])
    BY <1>2, <1>5, <1>6, <1>7, <1>8 DEF Computed, new
  <2>2. ASSUME NEW k \in DOMAIN call[p].final \ {l} PROVE Computed(c, k, disk[k])
    BY <1>4, <1>6, <1>7, <1>8 DEF Computed
  <2> QED
    BY <1>7, <1>8, <2>1, <2>2
<1>10. Consistent(disk, c)
  <2>1. c.op \in Operations /\ c.op \notin Mutations
    BY <1>4, <1>8 DEF Operations, Restores, Mutations
  <2>2. Range(c.todo) \cup DOMAIN c.final = DOMAIN c.words /\ DOMAIN c.original = DOMAIN c.final
    BY <1>3, <1>4, <1>6, <1>7, <1>8
  <2> QED
    BY <1>4, <1>8, <1>9, <2>1, <2>2 DEF Consistent
<1>11. \A t \in temps' : t[1] = p => Answers(c, t[2])
  BY <1>1, <1>2, <1>7, <1>8 DEF Answers
<1>12. View(disk, c) = View(disk, call[p])
  BY <1>4, <1>8, PlainView DEF Good, Typed
<1>13. /\ temps' \subseteq (Processes \cup {Nobody}) \X Locales
       /\ \A t \in temps' : t \in temps \/ t[1] \in {p, Nobody}
  BY <1>2, <1>3 DEF Good, Typed
<1>14. Request(c) = Request(call[p]) /\ (c.pc \in Critical => call[p].pc \in Critical)
  BY <1>1, <1>8 DEF Request
<1> QED
  BY <1>1, <1>2, <1>8, <1>10, <1>11, <1>12, <1>13, <1>14, InnerStep

LEMMA PrepareFailsDone ==
  ASSUME Good, NEW p \in Processes, PrepareFails(p)
  PROVE  Done
<1> DEFINE c == [call[p] EXCEPT !.pc = "cleanup", !.todo = <<>>, !.decision = "failed"]
<1>1. /\ p \in Living /\ call[p] \in Call /\ Consistent(disk, call[p])
      /\ call[p].pc = "prepare" /\ temps \subseteq (Processes \cup {Nobody}) \X Locales
  BY CallIs DEF PrepareFails, At
<1>2. /\ call' = [call EXCEPT ![p] = c] /\ UNCHANGED <<plan, disk, file, temps, lock, dead>>
  BY <1>1 DEF PrepareFails, Good, Typed
<1>3. /\ c \in Call /\ c.pc = "cleanup" /\ c.op = call[p].op /\ c.words = call[p].words
      /\ c.published = call[p].published /\ c.decision = "failed"
  BY <1>1, EmptyRange DEF Call, Decisions
<1>4. call[p].published = <<>>
  BY <1>1 DEF Consistent
<1> HIDE DEF c
<1>5. Consistent(disk, c)
  BY <1>1, <1>3, <1>4 DEF Consistent, Undecided
<1>6. \A t \in temps' : t[1] = p => Answers(c, t[2])
  BY <1>3 DEF Answers
<1>7. View(disk, c) = View(disk, call[p])
  BY <1>3, <1>4, PlainView DEF Good, Typed
<1>8. /\ temps' \subseteq (Processes \cup {Nobody}) \X Locales
      /\ \A t \in temps' : t \in temps \/ t[1] \in {p, Nobody}
      /\ call[p].pc \in Critical /\ call[p].pc \in Undecided /\ c.pc \notin Undecided
  BY <1>1, <1>2, <1>3 DEF Critical, Undecided
<1> QED
  BY <1>1, <1>2, <1>3, <1>5, <1>6, <1>7, <1>8, InnerStep

LEMMA PreparedDone ==
  ASSUME Good, NEW p \in Processes, Prepared(p)
  PROVE  Done
<1> DEFINE c == [call[p] EXCEPT !.pc = "publish", !.todo = SetToSeq(DOMAIN call[p].words)]
<1>1. /\ p \in Living /\ call[p] \in Call /\ Consistent(disk, call[p])
      /\ call[p].pc = "prepare" /\ call[p].todo = <<>>
      /\ \A t \in temps : t[1] = p => Answers(call[p], t[2])
      /\ temps \subseteq (Processes \cup {Nobody}) \X Locales
  BY CallIs DEF Prepared, At
<1>2. /\ call' = [call EXCEPT ![p] = c] /\ UNCHANGED <<plan, disk, file, temps, lock, dead>>
  BY <1>1 DEF Prepared, Good, Typed
<1>3. DOMAIN call[p].words \in SUBSET Locales
  BY <1>1, SomeIs DEF Call
<1> DEFINE s == SetToSeq(DOMAIN call[p].words)
<1>4. s \in Seq(Locales) /\ IsInjective(s) /\ Range(s) = DOMAIN call[p].words
  BY <1>3, LocalesListed
<1> HIDE DEF s
<1>5. /\ c \in Call /\ c.pc = "publish" /\ c.op = call[p].op /\ c.words = call[p].words
      /\ c.published = call[p].published /\ c.decision = call[p].decision /\ c.todo = s
      /\ c.original = call[p].original /\ c.final = call[p].final
  BY <1>1, <1>4 DEF Call, Undecided, s
<1> HIDE DEF c
<1>6. /\ call[p].op \in Restores /\ call[p].published = <<>> /\ c.published = <<>>
      /\ DOMAIN c.original = DOMAIN c.final /\ DOMAIN c.final = DOMAIN c.words
      /\ \A l \in DOMAIN c.words : Computed(call[p], l, disk[l])
  BY <1>1, <1>5, EmptyRange DEF Consistent
<1>7. \A l \in DOMAIN c.words : Computed(c, l, c.original[l]) /\ disk[l] = c.original[l]
  BY <1>5, <1>6 DEF Computed
<1>8. Consistent(disk, c)
  <2>1. c.op \in Operations /\ c.op \notin Mutations /\ c.op \in Restores
    BY <1>5, <1>6 DEF Operations, Restores, Mutations
  <2>2. Range(c.published) = {} /\ Range(c.todo) = DOMAIN c.words /\ IsInjective(c.todo)
    BY <1>4, <1>5, <1>6, EmptyRange
  <2> QED
    BY <1>5, <1>6, <1>7, <2>1, <2>2 DEF Consistent
<1>9. \A t \in temps' : t[1] = p => Answers(c, t[2])
  BY <1>1, <1>2, <1>4, <1>5, <1>6 DEF Answers
<1>10. View(disk, c) = View(disk, call[p])
  BY <1>6, PlainView DEF Good, Typed
<1>11. /\ temps' \subseteq (Processes \cup {Nobody}) \X Locales
       /\ \A t \in temps' : t \in temps \/ t[1] \in {p, Nobody}
       /\ call[p].pc \in Critical /\ Request(c) = Request(call[p])
  BY <1>1, <1>2, <1>5 DEF Critical, Request, Undecided
<1> QED
  BY <1>1, <1>2, <1>5, <1>8, <1>9, <1>10, <1>11, InnerStep

\* What a restore that is publishing, or rolling back, leaves of the request it was.
LEMMA EffectIs ==
  ASSUME NEW c, NEW l, c.op \in Restores, Computed(c, l, c.original[l])
  PROVE  c.final[l] = Store!Effect([op |-> c.op, words |-> c.words], l, c.original[l])
<1> DEFINE r == [op |-> c.op, words |-> c.words]
<1>1. r.op = c.op /\ r.words = c.words
  OBVIOUS
<1>2. c.op = "merge" \/ c.op = "replace"
  BY DEF Restores
<1>3. WordsOf(c.original[l]) = Store!WordsOf(c.original[l])
  BY DEF WordsOf, Store!WordsOf
<1> HIDE DEF r
<1>4. CASE c.op = "merge"
  <2>1. c.final[l] = WordsOf(c.original[l]) \cup c.words[l]
    BY <1>4 DEF Computed, Final
  <2>2. Store!Effect(r, l, c.original[l]) = Store!WordsOf(c.original[l]) \cup r.words[l]
    BY <1>1, <1>4 DEF Store!Effect
  <2> QED
    BY <1>1, <1>3, <2>1, <2>2 DEF r
<1>5. CASE c.op = "replace"
  <2>1. c.final[l] = c.words[l]
    BY <1>5 DEF Computed, Final
  <2>2. Store!Effect(r, l, c.original[l]) = r.words[l]
    BY <1>1, <1>5 DEF Store!Effect
  <2> QED
    BY <1>1, <2>1, <2>2 DEF r
<1> QED
  BY <1>2, <1>4, <1>5

\* The files are what a restore that reached the locales of R leaves, if the other
\* locales it published are as they were.
LEMMA AfterIs ==
  ASSUME NEW c, NEW d, NEW e \in [Locales -> Contents], NEW R, c.op \in Restores,
         Range(c.published) \subseteq DOMAIN c.words, R \subseteq DOMAIN c.words,
         \A l \in DOMAIN c.words : Computed(c, l, c.original[l]),
         \A l \in R : e[l] = c.final[l] /\ (l \in Range(c.published) \/ d[l] = c.original[l]),
         \A l \in Locales \ R : IF l \in Range(c.published) THEN e[l] = c.original[l]
                                ELSE e[l] = d[l]
  PROVE  e = Store!After([op |-> c.op, words |-> c.words], R, View(d, c))
<1> DEFINE r == [op |-> c.op, words |-> c.words]
<1>1. r.op \notin {"add", "remove"}
  BY DEF Restores
<1>2. ASSUME NEW l \in Locales
      PROVE  e[l] = IF l \notin R THEN View(d, c)[l] ELSE Store!Effect(r, l, View(d, c)[l])
  <2>1. CASE l \notin R
    BY <2>1 DEF View
  <2>2. CASE l \in R
    <3>1. View(d, c)[l] = c.original[l]
      BY <2>2 DEF View
    <3>2. e[l] = c.final[l] /\ Computed(c, l, c.original[l])
      BY <2>2
    <3> HIDE DEF r
    <3> QED
      BY <2>2, <3>1, <3>2, EffectIs DEF r
  <2> QED
    BY <2>1, <2>2
<1> HIDE DEF r
<1>3. Store!After(r, R, View(d, c)) =
        [l \in Locales |-> IF l \notin R THEN View(d, c)[l]
                           ELSE Store!Effect(r, l, View(d, c)[l])]
  BY <1>1 DEF Store!After
<1>4. e = [l \in Locales |-> IF l \notin R THEN View(d, c)[l]
                             ELSE Store!Effect(r, l, View(d, c)[l])]
  BY <1>2
<1> QED
  BY <1>3, <1>4 DEF r

\* A restore that is complete is committed.
LEMMA RestoredStep ==
  ASSUME Good, NEW p \in Living, NEW c \in Call, call' = [call EXCEPT ![p] = c],
         UNCHANGED <<dead, file>>, disk' \in [Locales -> Contents],
         call[p].pc = "publish", c.pc \notin Undecided, c.decision = "done",
         c.published = <<>>,
         \A l \in DOMAIN call[p].words : disk'[l] = call[p].final[l],
         \A l \in Locales \ DOMAIN call[p].words : disk'[l] = disk[l]
  PROVE  StoreStep
<1> DEFINE r == [op |-> call[p].op, words |-> call[p].words]
           S == DOMAIN call[p].words
<1>1. /\ call[p].op \in Restores
      /\ \A l \in S : Computed(call[p], l, call[p].original[l])
      /\ Range(call[p].todo) \cup Range(call[p].published) = S
      /\ \A l \in Range(call[p].todo) : disk[l] = call[p].original[l]
  BY DEF Good, Consistent
<1>2. Stored = View(disk, call[p]) /\ Stored' = disk'
  <2>1. Stored = View(disk, call[p]) /\ Stored' = View(disk', c)
    BY HolderStored DEF Critical
  <2> QED
    BY <2>1, PlainView
<1>3. disk' = Store!After(r, S, View(disk, call[p]))
  BY <1>1, AfterIs
<1>4. \A l \in S \cap Locales : Stored[l] # Malformed
  BY <1>1, <1>2 DEF View, Computed
<1>5. S \subseteq Locales
  BY SomeIs DEF Good, Typed, Living, Call
<1>6. call[p].op # "export all" /\ call[p].op # "export"
  BY <1>1 DEF Restores
<1>7. Store!Scope(r) = S /\ r.op \notin {"export", "export all"}
  BY <1>6 DEF Store!Scope
<1>8. /\ p \in Processes /\ requests[p] = r /\ requests[p] # Store!NoRequest
      /\ requests' = [requests EXCEPT ![p] = Store!NoRequest]
      /\ decisions' = [decisions EXCEPT ![p] = c.decision]
  BY DecidingStep DEF Undecided
<1>9. Parse(file)' = Parse(file)
  BY DEF Parse
<1> HIDE DEF r, S
<1>10. Store!Decide(p, "done")
  BY <1>8 DEF Store!Decide, requests, decisions
<1>11. Store!Commit(p)
  BY <1>2, <1>3, <1>4, <1>5, <1>7, <1>8, <1>9, <1>10 DEF Store!Commit, requests
<1> QED
  BY <1>8, <1>11 DEF StoreStep, Store!Next

LEMMA PublishingIs ==
  ASSUME Good, NEW p \in Processes, p \notin dead, call[p].pc = "publish"
  PROVE  /\ call[p].op \in Restores /\ call[p].op \in Operations /\ call[p].op \notin Mutations
         /\ DOMAIN call[p].original = DOMAIN call[p].final
         /\ DOMAIN call[p].final = DOMAIN call[p].words
         /\ \A l \in DOMAIN call[p].words : Computed(call[p], l, call[p].original[l])
         /\ IsInjective(call[p].todo)
         /\ call[p].todo = <<>> => call[p].published = <<>>
         /\ Range(call[p].todo) \cup Range(call[p].published) = DOMAIN call[p].words
         /\ Range(call[p].todo) \cap Range(call[p].published) = {}
         /\ \A l \in Range(call[p].todo) : disk[l] = call[p].original[l]
         /\ \A l \in Range(call[p].published) : disk[l] = call[p].final[l]
         /\ DOMAIN call[p].words \in SUBSET Locales
         /\ \A l \in DOMAIN call[p].words : call[p].final[l] \in SUBSET Words
<1>1. Consistent(disk, call[p]) /\ call[p] \in Call
  BY CallIs
<1>2. /\ call[p].op \in Restores
      /\ DOMAIN call[p].original = DOMAIN call[p].final
      /\ DOMAIN call[p].final = DOMAIN call[p].words
      /\ \A l \in DOMAIN call[p].words : Computed(call[p], l, call[p].original[l])
      /\ IsInjective(call[p].todo)
      /\ call[p].todo = <<>> => call[p].published = <<>>
      /\ Range(call[p].todo) \cup Range(call[p].published) = DOMAIN call[p].words
      /\ Range(call[p].todo) \cap Range(call[p].published) = {}
      /\ \A l \in Range(call[p].todo) : disk[l] = call[p].original[l]
      /\ \A l \in Range(call[p].published) : disk[l] = call[p].final[l]
  BY <1>1 DEF Consistent
<1>3. call[p].op \in Operations /\ call[p].op \notin Mutations
  BY <1>2 DEF Operations, Restores, Mutations
<1>4. /\ DOMAIN call[p].words \in SUBSET Locales
      /\ \A l \in DOMAIN call[p].final : call[p].final[l] \in SUBSET Words
  BY <1>1, SomeIs DEF Call
<1> QED
  BY <1>2, <1>3, <1>4

LEMMA PublishDone ==
  ASSUME Good, NEW p \in Processes, Publish(p)
  PROVE  Done
<1> DEFINE l == Head(call[p].todo)
           last == Len(call[p].todo) = 1
           c == IF last THEN Decided(p, "done")
                ELSE [call[p] EXCEPT !.todo = Tail(call[p].todo),
                                     !.published = Append(call[p].published, l)]
<1>1. /\ p \in Living /\ call[p] \in Call /\ Consistent(disk, call[p]) /\ lock = p
      /\ call[p].pc = "publish" /\ call[p].todo # <<>> /\ p \notin dead
      /\ \A t \in temps : t[1] = p => Answers(call[p], t[2])
      /\ temps \subseteq (Processes \cup {Nobody}) \X Locales
  BY CallIs DEF Publish, At, Critical
<1>2. /\ call' = [call EXCEPT ![p] = c] /\ disk' = [disk EXCEPT ![l] = call[p].final[l]]
      /\ temps' = temps \ {<<p, l>>} /\ UNCHANGED <<plan, file, lock, dead>>
  <2>1. call' = [call EXCEPT ![p] = c]
    BY DEF Publish
  <2> QED
    BY <2>1 DEF Publish
<1>3. /\ l \in Locales /\ Tail(call[p].todo) \in Seq(Locales)
      /\ Range(call[p].todo) = {l} \cup Range(Tail(call[p].todo))
      /\ IsInjective(call[p].todo) => /\ IsInjective(Tail(call[p].todo))
                                      /\ l \notin Range(Tail(call[p].todo))
      /\ last => Tail(call[p].todo) = <<>>
      /\ ~last => Tail(call[p].todo) # <<>>
  BY <1>1, HeadAndTail DEF Call
<1>4. /\ call[p].op \in Restores /\ call[p].op \in Operations /\ call[p].op \notin Mutations
      /\ DOMAIN call[p].original = DOMAIN call[p].final
      /\ DOMAIN call[p].final = DOMAIN call[p].words
      /\ \A k \in DOMAIN call[p].words : Computed(call[p], k, call[p].original[k])
      /\ IsInjective(call[p].todo)
      /\ Range(call[p].todo) \cup Range(call[p].published) = DOMAIN call[p].words
      /\ Range(call[p].todo) \cap Range(call[p].published) = {}
      /\ \A k \in Range(call[p].todo) : disk[k] = call[p].original[k]
      /\ \A k \in Range(call[p].published) : disk[k] = call[p].final[k]
      /\ DOMAIN call[p].words \in SUBSET Locales
      /\ \A k \in DOMAIN call[p].words : call[p].final[k] \in SUBSET Words
  BY <1>1, PublishingIs
<1>5. l \in Range(call[p].todo) /\ l \in DOMAIN call[p].words /\ l \notin Range(call[p].published)
  BY <1>3, <1>4
<1>6. disk \in [Locales -> Contents] /\ call[p].final[l] \in Contents
  BY <1>4, <1>5 DEF Good, Typed, Contents
<1>7. disk' \in [Locales -> Contents]
  BY <1>2, <1>6
<1>8. disk'[l] = call[p].final[l] /\ \A k \in Locales \ {l} : disk'[k] = disk[k]
  BY <1>2, <1>3, <1>6
<1>9. \A q \in Living \ {p} : call[q].pc \notin Critical
  BY <1>1, OthersWait DEF Critical
<1>10. /\ file' \in Payloads /\ lock' \in Processes \cup {Nobody} /\ lock' = p
       /\ temps' \subseteq (Processes \cup {Nobody}) \X Locales
       /\ \A t \in temps' : t \in temps \/ t[1] \in {p, Nobody}
  BY <1>1, <1>2 DEF Good, Typed
<1>11. call[p].pc \in Critical /\ call[p].pc \in Undecided
  BY <1>1 DEF Critical, Undecided
<1>12. CASE last
  <2>1. c = Decided(p, "done")
    BY <1>12
  <2>2. /\ c \in Call /\ c.pc = "release" /\ c.published = <<>> /\ c.decision = "done"
        /\ Consistent(disk', c)
    BY ZenonT(60), <1>1, <2>1, DecidedIs DEF Decisions
  <2> HIDE DEF c, l, last
  <2>3. Range(call[p].todo) = {l}
    BY <1>3, <1>12, EmptyRange
  <2>4. \A t \in temps' : t[1] # p
    <3>1. ASSUME NEW t \in temps, t[1] = p PROVE t = <<p, l>>
      <4>1. t[2] = l
        BY <1>1, <2>3, <3>1 DEF Answers
      <4> QED
        BY <1>1, <3>1, <4>1
    <3> QED
      BY <1>2, <3>1
  <2>5. Good'
    <3>1. \A t \in temps' : t[1] = p => Answers(c, t[2])
      BY <2>4
    <3> QED
      BY ZenonT(60), <1>1, <1>2, <1>7, <1>9, <1>10, <1>11, <2>2, <3>1, GoodStep
  <2>6. StoreStep
    <3>1. \A k \in DOMAIN call[p].words : disk'[k] = call[p].final[k]
      BY <1>4, <1>8, <2>3
    <3>2. \A k \in Locales \ DOMAIN call[p].words : disk'[k] = disk[k]
      BY <1>5, <1>8
    <3>3. c.pc \notin Undecided
      BY <2>2 DEF Undecided
    <3> QED
      BY <1>1, <1>2, <1>7, <2>2, <3>1, <3>2, <3>3, RestoredStep
  <2> QED
    BY <2>5, <2>6 DEF Done
<1>13. CASE ~last
  <2>1. c = [call[p] EXCEPT !.todo = Tail(call[p].todo),
                            !.published = Append(call[p].published, l)]
    BY <1>13
  <2>2. /\ Append(call[p].published, l) \in Seq(Locales)
        /\ Range(Append(call[p].published, l)) = Range(call[p].published) \cup {l}
    BY <1>1, <1>3, AppendRange DEF Call
  <2>3. /\ c \in Call /\ c.pc = "publish" /\ c.op = call[p].op /\ c.words = call[p].words
        /\ c.published = Append(call[p].published, l) /\ c.decision = call[p].decision
        /\ c.todo = Tail(call[p].todo)
        /\ c.original = call[p].original /\ c.final = call[p].final
    BY <1>1, <1>3, <2>1, <2>2 DEF Call
  <2> HIDE DEF c, l, last
  <2>4. Consistent(disk', c)
    <3>1. /\ IsInjective(c.todo) /\ c.todo # <<>>
          /\ Range(c.todo) \cup Range(c.published) = DOMAIN c.words
          /\ Range(c.todo) \cap Range(c.published) = {}
      BY <1>3, <1>4, <1>13, <2>2, <2>3
    <3>2. \A k \in Range(c.todo) : disk'[k] = c.original[k]
      BY <1>3, <1>4, <1>8, <2>3
    <3>3. \A k \in Range(c.published) : disk'[k] = c.final[k]
      BY <1>4, <1>8, <2>2, <2>3
    <3>4. \A k \in DOMAIN c.words : Computed(c, k, c.original[k])
      BY <1>4, <2>3 DEF Computed
    <3> QED
      BY <1>4, <2>3, <3>1, <3>2, <3>3, <3>4 DEF Consistent
  <2>5. \A t \in temps' : t[1] = p => Answers(c, t[2])
    <3>1. ASSUME NEW t \in temps', t[1] = p PROVE t[2] \in Range(c.todo)
      <4>1. t[2] \in Range(call[p].todo)
        BY <1>1, <1>2, <3>1 DEF Answers
      <4>2. t[2] # l
        BY <1>1, <1>2, <3>1
      <4> QED
        BY <1>3, <2>3, <4>1, <4>2
    <3> QED
      BY <2>3, <3>1 DEF Answers
  <2>6. Good'
    BY <1>1, <1>2, <1>7, <1>9, <1>10, <1>11, <2>3, <2>4, <2>5, GoodStep
  <2>7. Stored' = Stored
    <3>1. Stored = View(disk, call[p]) /\ Stored' = View(disk', c)
      BY <1>1, <1>2, <1>11, <2>3, HolderStored
    <3>2. ASSUME NEW k \in Locales PROVE View(disk, call[p])[k] = View(disk', c)[k]
      <4>1. CASE k = l
        BY <1>4, <1>5, <2>2, <2>3, <4>1 DEF View
      <4>2. CASE k # l
        BY <1>8, <2>2, <2>3, <4>2 DEF View
      <4> QED
        BY <4>1, <4>2
    <3>3. View(disk, call[p]) = View(disk', c)
      BY <3>2 DEF View
    <3> QED
      BY <3>1, <3>3
  <2>8. Request(c) = Request(call[p])
    BY <1>1, <2>3 DEF Request
  <2> QED
    BY <1>1, <1>2, <2>3, <2>6, <2>7, <2>8, QuietStep DEF Done
<1> QED
  BY <1>12, <1>13

LEMMA PublishNothingDone ==
  ASSUME Good, NEW p \in Processes, PublishNothing(p)
  PROVE  Done
<1> DEFINE c == Decided(p, "done")
<1>1. /\ p \in Living /\ call[p] \in Call /\ Consistent(disk, call[p]) /\ p \notin dead
      /\ call[p].pc = "publish" /\ call[p].todo = <<>>
      /\ \A t \in temps : t[1] = p => Answers(call[p], t[2])
      /\ temps \subseteq (Processes \cup {Nobody}) \X Locales
  BY CallIs DEF PublishNothing, At
<1>2. call' = [call EXCEPT ![p] = c] /\ UNCHANGED <<plan, disk, file, temps, lock, dead>>
  BY DEF PublishNothing
<1>3. /\ c \in Call /\ c.pc = "release" /\ c.published = <<>> /\ c.decision = "done"
      /\ Consistent(disk', c)
  BY <1>1, DecidedIs DEF Decisions
<1> HIDE DEF c
<1>4. DOMAIN call[p].words = {}
  BY <1>1, PublishingIs, EmptyRange
<1>5. Good'
  <2>1. \A t \in temps' : t[1] # p
    BY <1>1, <1>2, EmptyRange DEF Answers
  <2>2. \A q \in Living : call[q].pc \in Critical => lock' = q
    BY <1>2 DEF Good
  <2>3. /\ disk' \in [Locales -> Contents] /\ file' \in Payloads
        /\ lock' \in Processes \cup {Nobody} /\ lock' = p
        /\ temps' \subseteq (Processes \cup {Nobody}) \X Locales
        /\ \A t \in temps' : t \in temps \/ t[1] \in {p, Nobody}
    BY <1>1, <1>2, <2>2 DEF Good, Typed, Critical
  <2>4. \A t \in temps' : t[1] = p => Answers(c, t[2])
    BY <2>1
  <2> QED
    BY <1>1, <1>2, <1>3, <2>2, <2>3, <2>4, GoodStep
<1>6. StoreStep
  <2>1. c.pc \notin Undecided
    BY <1>3 DEF Undecided
  <2>2. \A k \in DOMAIN call[p].words : disk'[k] = call[p].final[k]
    BY <1>4
  <2>3. disk' \in [Locales -> Contents]
    BY <1>2 DEF Good, Typed
  <2> QED
    BY <1>1, <1>2, <1>3, <2>1, <2>2, <2>3, RestoredStep
<1> QED
  BY <1>5, <1>6 DEF Done

LEMMA PublishFailsDone ==
  ASSUME Good, NEW p \in Processes, PublishFails(p)
  PROVE  Done
<1> DEFINE c == [call[p] EXCEPT !.pc = "rollback", !.todo = Reverse(call[p].published)]
<1>1. /\ p \in Living /\ call[p] \in Call /\ Consistent(disk, call[p]) /\ p \notin dead
      /\ call[p].pc = "publish" /\ temps \subseteq (Processes \cup {Nobody}) \X Locales
  BY CallIs DEF PublishFails, At
<1>2. /\ call' = [call EXCEPT ![p] = c] /\ UNCHANGED <<plan, disk, file, temps, lock, dead>>
  BY <1>1 DEF PublishFails, Good, Typed
<1>3. /\ Reverse(call[p].published) \in Seq(Locales)
      /\ Range(Reverse(call[p].published)) = Range(call[p].published)
  BY <1>1, ReverseRange DEF Call
<1>4. /\ c \in Call /\ c.pc = "rollback" /\ c.op = call[p].op /\ c.words = call[p].words
      /\ c.published = call[p].published /\ c.decision = call[p].decision
      /\ c.todo = Reverse(call[p].published)
      /\ c.original = call[p].original /\ c.final = call[p].final
  BY <1>1, <1>3 DEF Call, Undecided
<1> HIDE DEF c
<1>5. /\ c.op \in Restores /\ c.op \in Operations /\ c.op \notin Mutations
      /\ DOMAIN c.original = DOMAIN c.final /\ DOMAIN c.final = DOMAIN c.words
      /\ \A l \in DOMAIN c.words : Computed(c, l, c.original[l])
      /\ Range(c.published) \subseteq DOMAIN c.words
      /\ \A l \in Range(c.published) : disk[l] = c.final[l]
  BY <1>1, <1>4, PublishingIs DEF Computed
<1>6. Consistent(disk, c)
  BY <1>3, <1>4, <1>5 DEF Consistent
<1>7. \A t \in temps' : t[1] = p => Answers(c, t[2])
  BY <1>4 DEF Answers
<1>8. View(disk, c) = View(disk, call[p])
  BY <1>4 DEF View
<1>9. /\ temps' \subseteq (Processes \cup {Nobody}) \X Locales
      /\ \A t \in temps' : t \in temps \/ t[1] \in {p, Nobody}
      /\ call[p].pc \in Critical /\ Request(c) = Request(call[p])
  BY <1>1, <1>2, <1>4 DEF Critical, Request, Undecided
<1> QED
  BY <1>1, <1>2, <1>4, <1>6, <1>7, <1>8, <1>9, InnerStep

LEMMA RollingBackIs ==
  ASSUME Good, NEW p \in Processes, p \notin dead, call[p].pc = "rollback"
  PROVE  /\ call[p].op \in Restores /\ call[p].op \in Operations /\ call[p].op \notin Mutations
         /\ DOMAIN call[p].original = DOMAIN call[p].final
         /\ DOMAIN call[p].final = DOMAIN call[p].words
         /\ \A l \in DOMAIN call[p].words : Computed(call[p], l, call[p].original[l])
         /\ Range(call[p].published) \subseteq DOMAIN call[p].words
         /\ Range(call[p].todo) \subseteq Range(call[p].published)
         /\ \A l \in Range(call[p].published) :
               \/ disk[l] = call[p].original[l]
               \/ disk[l] = call[p].final[l] /\ l \in Range(call[p].todo) \cup call[p].failures
         /\ DOMAIN call[p].words \in SUBSET Locales
         /\ \A l \in DOMAIN call[p].words : call[p].original[l] \in Contents
<1>1. Consistent(disk, call[p]) /\ call[p] \in Call
  BY CallIs
<1>2. /\ call[p].op \in Restores
      /\ DOMAIN call[p].original = DOMAIN call[p].final
      /\ DOMAIN call[p].final = DOMAIN call[p].words
      /\ \A l \in DOMAIN call[p].words : Computed(call[p], l, call[p].original[l])
      /\ Range(call[p].published) \subseteq DOMAIN call[p].words
      /\ Range(call[p].todo) \subseteq Range(call[p].published)
      /\ \A l \in Range(call[p].published) :
            \/ disk[l] = call[p].original[l]
            \/ disk[l] = call[p].final[l] /\ l \in Range(call[p].todo) \cup call[p].failures
  BY <1>1 DEF Consistent
<1>3. call[p].op \in Operations /\ call[p].op \notin Mutations
  BY <1>2 DEF Operations, Restores, Mutations
<1>4. /\ DOMAIN call[p].words \in SUBSET Locales
      /\ \A l \in DOMAIN call[p].original : call[p].original[l] \in Contents
  BY <1>1, SomeIs DEF Call
<1> QED
  BY <1>2, <1>3, <1>4

LEMMA RollBackDone ==
  ASSUME Good, NEW p \in Processes, RollBack(p)
  PROVE  Done
<1> DEFINE l == Head(call[p].todo)
<1>1. /\ p \in Living /\ call[p] \in Call /\ Consistent(disk, call[p]) /\ p \notin dead
      /\ call[p].pc = "rollback" /\ call[p].todo # <<>> /\ lock = p
      /\ temps \subseteq (Processes \cup {Nobody}) \X Locales
  BY CallIs DEF RollBack, At, Critical
<1>2. /\ l \in Locales /\ Tail(call[p].todo) \in Seq(Locales)
      /\ Range(call[p].todo) = {l} \cup Range(Tail(call[p].todo))
  BY <1>1, HeadAndTail DEF Call
<1>3. PICK F \in SUBSET Locales :
        /\ call' = [call EXCEPT ![p] = [call[p] EXCEPT !.todo = Tail(call[p].todo),
                                                       !.failures = F]]
        /\ \/ disk' = [disk EXCEPT ![l] = call[p].original[l]] /\ F = call[p].failures
           \/ disk' = disk /\ F = call[p].failures \cup {l}
  <2>1. CASE /\ disk' = [disk EXCEPT ![l] = call[p].original[l]]
             /\ call' = [call EXCEPT ![p].todo = Tail(@)]
    <3>1. call[p].failures \in SUBSET Locales
      BY <1>1 DEF Call
    <3>2. [call[p] EXCEPT !.todo = Tail(call[p].todo)] =
            [call[p] EXCEPT !.todo = Tail(call[p].todo), !.failures = call[p].failures]
      BY <1>1 DEF Call
    <3>3. call' = [call EXCEPT ![p] = [call[p] EXCEPT !.todo = Tail(call[p].todo)]]
      BY <1>1, <2>1
    <3> HIDE DEF l
    <3> QED
      BY <2>1, <3>1, <3>2, <3>3
  <2>2. CASE /\ call' = [call EXCEPT ![p].todo = Tail(@), ![p].failures = @ \cup {l}]
             /\ UNCHANGED disk
    <3>1. call[p].failures \cup {l} \in SUBSET Locales
      BY <1>1, <1>2 DEF Call
    <3>2. call' = [call EXCEPT ![p] = [call[p] EXCEPT !.todo = Tail(call[p].todo),
                                                      !.failures = call[p].failures \cup {l}]]
      BY <1>1, <2>2 DEF Good, Typed
    <3> HIDE DEF l
    <3> QED
      BY <2>2, <3>1, <3>2
  <2> QED
    BY <2>1, <2>2 DEF RollBack
<1> DEFINE c == [call[p] EXCEPT !.todo = Tail(call[p].todo), !.failures = F]
<1>4. /\ c \in Call /\ c.pc = "rollback" /\ c.op = call[p].op /\ c.words = call[p].words
      /\ c.published = call[p].published /\ c.decision = call[p].decision
      /\ c.todo = Tail(call[p].todo) /\ c.failures = F
      /\ c.original = call[p].original /\ c.final = call[p].final
  BY <1>1, <1>2 DEF Call
<1>5. call' = [call EXCEPT ![p] = c] /\ UNCHANGED <<plan, file, temps, lock, dead>>
  BY <1>3 DEF RollBack
<1> HIDE DEF c, l
<1>6. /\ c.op \in Restores /\ c.op \in Operations /\ c.op \notin Mutations
      /\ DOMAIN c.original = DOMAIN c.final /\ DOMAIN c.final = DOMAIN c.words
      /\ \A k \in DOMAIN c.words : Computed(c, k, c.original[k])
      /\ Range(c.published) \subseteq DOMAIN c.words
      /\ Range(call[p].todo) \subseteq Range(c.published)
      /\ \A k \in Range(c.published) :
            \/ disk[k] = c.original[k]
            \/ disk[k] = c.final[k] /\ k \in Range(call[p].todo) \cup call[p].failures
      /\ DOMAIN c.words \in SUBSET Locales
      /\ \A k \in DOMAIN c.words : c.original[k] \in Contents
  BY <1>1, <1>4, RollingBackIs DEF Computed
<1>7. l \in Range(c.published) /\ l \in DOMAIN c.words /\ c.original[l] \in Contents
  BY <1>2, <1>6
<1>8. disk \in [Locales -> Contents]
  BY DEF Good, Typed
<1>9. /\ disk' \in [Locales -> Contents]
      /\ \A k \in Locales \ {l} : disk'[k] = disk[k]
      /\ \/ disk'[l] = c.original[l] /\ c.failures = call[p].failures
         \/ disk'[l] = disk[l] /\ c.failures = call[p].failures \cup {l}
  BY <1>2, <1>3, <1>4, <1>7, <1>8
<1>10. Consistent(disk', c)
  <2>1. ASSUME NEW k \in Range(c.published)
        PROVE  \/ disk'[k] = c.original[k]
               \/ disk'[k] = c.final[k] /\ k \in Range(c.todo) \cup c.failures
    <3>1. k \in Locales
      BY <1>6
    <3>2. CASE k = l
      BY <1>6, <1>9, <3>2
    <3>3. CASE k # l
      BY <1>2, <1>4, <1>6, <1>9, <3>1, <3>3
    <3> QED
      BY <3>2, <3>3
  <2>2. Range(c.todo) \subseteq Range(c.published)
    BY <1>2, <1>4, <1>6
  <2> QED
    BY <1>4, <1>6, <2>1, <2>2 DEF Consistent
<1>11. Good'
  <2>1. call[p].pc \in Critical
    BY <1>1 DEF Critical
  <2>2. /\ file' \in Payloads /\ lock' \in Processes \cup {Nobody} /\ lock' = p
        /\ temps' \subseteq (Processes \cup {Nobody}) \X Locales
        /\ \A t \in temps' : t \in temps \/ t[1] \in {p, Nobody}
    BY <1>1, <1>5 DEF Good, Typed
  <2>3. \A q \in Living \ {p} : call[q].pc \notin Critical
    BY <1>1, <2>1, OthersWait
  <2>4. \A t \in temps' : t[1] = p => Answers(c, t[2])
    BY <1>4 DEF Answers
  <2> QED
    BY ZenonT(60), <1>1, <1>4, <1>5, <1>9, <1>10, <2>1, <2>2, <2>3, <2>4, GoodStep
<1>12. Stored' = Stored
  <2>1. Stored = View(disk, call[p]) /\ Stored' = View(disk', c)
    BY <1>1, <1>4, <1>5, HolderStored DEF Critical
  <2>2. \A k \in Locales : View(disk, call[p])[k] = View(disk', c)[k]
    BY <1>4, <1>7, <1>9 DEF View
  <2>3. View(disk, call[p]) = View(disk', c)
    BY <2>2 DEF View
  <2> QED
    BY <2>1, <2>3
<1>13. Request(c) = Request(call[p])
  BY <1>1, <1>4 DEF Request
<1> QED
  BY <1>1, <1>4, <1>5, <1>11, <1>12, <1>13, QuietStep DEF Done

LEMMA HolderView ==
  ASSUME Good, NEW p \in Living, call[p].pc \in Critical
  PROVE  Stored = View(disk, call[p])
<1>1. \A q \in Living \ {p} : call[q].published = <<>>
  BY OthersWait
<1>2. StoredOf(disk, call, Living) = View(disk, call[p])
  BY <1>1, ViewIs, Zenon
<1> QED
  BY <1>2, StoredIs

\* The files, when a restore stops halfway: it has reached some of its locales.
LEMMA HalfwayIs ==
  ASSUME Good, NEW p \in Processes, p \notin dead, call[p].pc \in {"publish", "rollback"}
  PROVE  /\ call[p].op \in Restores
         /\ \E R \in SUBSET DOMAIN call[p].words :
              disk = Store!After([op |-> call[p].op, words |-> call[p].words], R, Stored)
<1> DEFINE c == call[p]
           R == {l \in Range(c.published) : disk[l] # c.original[l]}
<1>1. /\ c.op \in Restores /\ Range(c.published) \subseteq DOMAIN c.words
      /\ \A l \in DOMAIN c.words : Computed(c, l, c.original[l])
      /\ \A l \in Range(c.published) : disk[l] = c.original[l] \/ disk[l] = c.final[l]
  <2>1. CASE c.pc = "publish"
    BY <2>1, PublishingIs
  <2>2. CASE c.pc = "rollback"
    BY <2>2, RollingBackIs
  <2> QED
    BY <2>1, <2>2
<1>2. p \in Living /\ disk \in [Locales -> Contents] /\ c.pc \in Critical
  BY CallIs DEF Good, Typed, Critical
<1>3. Stored = View(disk, c)
  BY <1>2, HolderView
<1> HIDE DEF c
<1>4. R \subseteq DOMAIN c.words
  BY <1>1
<1>5. \A l \in R : disk[l] = c.final[l] /\ (l \in Range(c.published) \/ disk[l] = c.original[l])
  BY <1>1
<1>6. \A l \in Locales \ R : IF l \in Range(c.published) THEN disk[l] = c.original[l]
                             ELSE disk[l] = disk[l]
  OBVIOUS
<1> HIDE DEF R
<1>7. disk = Store!After([op |-> c.op, words |-> c.words], R, View(disk, c))
  BY <1>1, <1>2, <1>4, <1>5, <1>6, AfterIs
<1>8. R \in SUBSET DOMAIN c.words
  BY <1>4
<1> QED
  BY <1>1, <1>3, <1>7, <1>8 DEF c

LEMMA RolledBackDone ==
  ASSUME Good, NEW p \in Processes, RolledBack(p)
  PROVE  Done
<1> DEFINE how == IF call[p].failures = {} THEN "failed" ELSE "torn"
           c == [call[p] EXCEPT !.pc = "cleanup", !.published = <<>>, !.decision = how]
<1>1. /\ p \in Living /\ call[p] \in Call /\ Consistent(disk, call[p]) /\ p \notin dead
      /\ call[p].pc = "rollback" /\ call[p].todo = <<>> /\ lock = p
      /\ temps \subseteq (Processes \cup {Nobody}) \X Locales
  BY CallIs DEF RolledBack, At, Critical
<1>2. /\ call' = [call EXCEPT ![p] = c] /\ UNCHANGED <<plan, disk, file, temps, lock, dead>>
  BY <1>1 DEF RolledBack, Good, Typed
<1>3. /\ c \in Call /\ c.pc = "cleanup" /\ c.op = call[p].op /\ c.words = call[p].words
      /\ c.published = <<>> /\ c.decision = how
  BY <1>1, EmptyRange DEF Call, Decisions
<1> HIDE DEF c
<1>4. call[p].op \in Restores /\ call[p].op \notin Mutations
  BY <1>1, RollingBackIs
<1>5. Consistent(disk, c)
  BY <1>3, <1>4 DEF Consistent, Undecided
<1>6. \A t \in temps' : t[1] = p => Answers(c, t[2])
  BY <1>3 DEF Answers
<1>7. disk \in [Locales -> Contents] /\ View(disk, c) = disk
  BY <1>3, PlainView DEF Good, Typed
<1>8. /\ temps' \subseteq (Processes \cup {Nobody}) \X Locales
      /\ \A t \in temps' : t \in temps \/ t[1] \in {p, Nobody}
      /\ call[p].pc \in Critical /\ call[p].pc \in Undecided /\ c.pc \notin Undecided
  BY <1>1, <1>2, <1>3 DEF Critical, Undecided
<1>9. CASE call[p].failures = {}
  <2>1. \A l \in Range(call[p].published) : disk[l] = call[p].original[l]
    BY <1>1, <1>9, RollingBackIs, EmptyRange
  <2>2. View(disk, call[p]) = disk
    BY <1>7, <2>1 DEF View
  <2>3. c.decision = "failed" /\ c \in Call
    BY <1>3, <1>9
  <2>4. View(disk, c) = View(disk, call[p]) /\ UNCHANGED <<plan, dead, disk, file, lock>>
    BY <1>2, <1>7, <2>2
  <2>5. (c.pc \in Critical => call[p].pc \in Critical) /\ call' = [call EXCEPT ![p] = c]
    BY <1>2, <1>8
  <2> HIDE DEF how
  <2> QED
    BY <1>1, <1>5, <1>6, <1>8, <2>3, <2>4, <2>5, InnerStep
<1>10. CASE call[p].failures # {}
  <2>1. Good'
    <3>1. \A q \in Living \ {p} : call[q].pc \notin Critical
      BY <1>1, <1>8, OthersWait
    <3>2. /\ disk' \in [Locales -> Contents] /\ file' \in Payloads
          /\ lock' \in Processes \cup {Nobody} /\ lock' = p /\ Consistent(disk', c)
      BY <1>1, <1>2, <1>5 DEF Good, Typed
    <3> QED
      BY ZenonT(60), <1>1, <1>2, <1>3, <1>6, <1>8, <3>1, <3>2, GoodStep
  <2>2. Stored' = disk
    <3>1. Stored' = View(disk', c)
      BY <1>1, <1>2, <1>3, <1>8, HolderStored
    <3> QED
      BY <1>2, <1>7, <3>1
  <2> DEFINE r == [op |-> call[p].op, words |-> call[p].words]
  <2>3. PICK R \in SUBSET DOMAIN call[p].words : disk = Store!After(r, R, Stored)
    BY <1>1, HalfwayIs
  <2>4. /\ requests[p] = r /\ requests[p] # Store!NoRequest
        /\ requests' = [requests EXCEPT ![p] = Store!NoRequest]
        /\ decisions' = [decisions EXCEPT ![p] = c.decision]
    BY <1>1, <1>2, <1>3, <1>8, DecidingStep
  <2>5. r.op \in {"merge", "replace"} /\ r.words = call[p].words /\ c.decision = "torn"
    BY <1>3, <1>4, <1>10 DEF Restores
  <2>6. Parse(file)' = Parse(file)
    BY <1>2 DEF Parse
  <2> HIDE DEF r
  <2>7. Store!Decide(p, "torn")
    BY <2>4, <2>5 DEF Store!Decide, requests, decisions
  <2>8. Store!Tear(p)
    BY <2>2, <2>3, <2>4, <2>5, <2>6, <2>7 DEF Store!Tear, requests
  <2> QED
    BY <2>1, <2>8 DEF Done, StoreStep, Store!Next
<1> QED
  BY <1>9, <1>10

LEMMA CleanUpDone ==
  ASSUME Good, NEW p \in Processes, CleanUp(p)
  PROVE  Done
<1> DEFINE c == Decided(p, call[p].decision)
           mine == {t \in temps : t[1] = p}
<1>1. /\ p \in Living /\ call[p] \in Call /\ Consistent(disk, call[p]) /\ p \notin dead
      /\ call[p].pc = "cleanup" /\ temps \subseteq (Processes \cup {Nobody}) \X Locales
  BY CallIs DEF CleanUp, At
<1>2. /\ call' = [call EXCEPT ![p] = c] /\ UNCHANGED <<plan, disk, file, lock, dead>>
  BY DEF CleanUp
<1>3. PICK left \in SUBSET mine : temps' = (temps \ mine) \cup {<<Nobody, t[2]>> : t \in left}
  BY DEF CleanUp
<1>4. call[p].decision \in Decisions
  BY <1>1 DEF Call
<1>5. /\ c \in Call /\ c.pc = "release" /\ c.published = <<>>
      /\ c.decision = call[p].decision /\ Consistent(disk, c)
  BY <1>1, <1>4, DecidedIs
<1> HIDE DEF c
<1>6. /\ \A t \in temps' : t[1] # p /\ (t \in temps \/ t[1] = Nobody)
      /\ temps' \subseteq (Processes \cup {Nobody}) \X Locales
  <2>1. \A t \in mine : t[2] \in Locales
    BY <1>1
  <2>2. p # Nobody
    BY BackupAssumption
  <2> QED
    BY <1>1, <1>3, <2>1, <2>2
<1>7. call[p].published = <<>>
  BY <1>1 DEF Consistent
<1>8. View(disk, c) = View(disk, call[p])
  BY <1>5, <1>7, PlainView DEF Good, Typed
<1>9. /\ \A t \in temps' : t \in temps \/ t[1] \in {p, Nobody}
      /\ \A t \in temps' : t[1] = p => Answers(c, t[2])
      /\ call[p].pc \in Critical /\ Request(c) = Request(call[p])
  BY <1>1, <1>5, <1>6 DEF Critical, Request, Undecided
<1> QED
  BY <1>1, <1>2, <1>5, <1>6, <1>8, <1>9, InnerStep

-----------------------------------------------------------------------------
(* A process that dies.                                                     *)

LEMMA DieDone ==
  ASSUME Good, NEW p \in Processes, Die(p)
  PROVE  Done
<1>1. /\ p \in Living /\ call[p] \in Call /\ Consistent(disk, call[p]) /\ p \notin dead
  BY CallIs DEF Die
<1>2. dead' = dead \cup {p} /\ UNCHANGED <<plan, disk, file, temps, lock, call>>
  BY DEF Die
<1>3. Living' = Living \ {p} /\ Living \subseteq Processes
  BY <1>2 DEF Living
<1>4. Good'
  BY <1>2, <1>3 DEF Good, Typed
<1>5. requests' = [requests EXCEPT ![p] = Store!NoRequest]
  <2>1. \A q \in Processes : requests'[q] = IF q = p THEN Store!NoRequest ELSE requests[q]
    BY <1>2 DEF requests, Requested, Store!NoRequest
  <2> QED
    BY <2>1 DEF requests
<1> DEFINE how == IF call[p].pc \in Undecided
                  THEN IF call[p].published = <<>> THEN "failed" ELSE "torn"
                  ELSE call[p].decision
<1>6. decisions' = [decisions EXCEPT ![p] = how]
  <2>1. \A q \in Processes : decisions'[q] = IF q = p THEN how ELSE decisions[q]
    BY <1>1, <1>2 DEF decisions, DecisionOf
  <2> QED
    BY <2>1 DEF decisions
<1>7. /\ requests[p] = Request(call[p])
      /\ call[p].pc \notin Undecided => decisions[p] = call[p].decision
  BY <1>1 DEF requests, Requested, Request, Store!NoRequest, decisions, DecisionOf
<1>8. Parse(file)' = Parse(file)
  BY <1>2 DEF Parse
<1>9. call[p].published = <<>> => Stored' = Stored
  <2> SUFFICES ASSUME call[p].published = <<>> PROVE Stored' = Stored
    OBVIOUS
  <2>1. \A l \in Locales : {q \in Living \ {p} : l \in Range(call[q].published)}
                             = {q \in Living : l \in Range(call[q].published)}
    BY EmptyRange
  <2>2. StoredOf(disk, call, Living \ {p}) = StoredOf(disk, call, Living)
    BY <2>1 DEF StoredOf
  <2> QED
    BY <1>2, <1>3, <2>2, StoredIs
<1>10. call[p].pc \in Undecided => requests[p] # Store!NoRequest
  <2> SUFFICES ASSUME call[p].pc \in Undecided PROVE requests[p] # Store!NoRequest
    OBVIOUS
  <2>1. call[p].op \in Operations
    BY <1>1 DEF Consistent
  <2>2. call[p].op # "none"
    BY <2>1 DEF Operations
  <2>3. requests[p].op # "none" /\ Store!NoRequest.op = "none"
    BY <1>7, <2>2 DEF Request, Store!NoRequest
  <2> QED
    BY <2>3
<1>11. CASE call[p].pc \notin Undecided
  <2>1. Stored' = Stored
    BY <1>1, <1>9, <1>11 DEF Consistent, Undecided
  <2>2. requests' = requests
    BY <1>5, <1>7, <1>11 DEF Request, requests
  <2>3. decisions' = decisions
    BY <1>6, <1>7, <1>11 DEF decisions
  <2> QED
    BY <1>4, <1>8, <2>1, <2>2, <2>3 DEF Done, StoreStep
<1>12. CASE call[p].pc \in Undecided /\ call[p].published = <<>>
  <2>1. Store!Decide(p, "failed")
    BY <1>5, <1>6, <1>10, <1>12 DEF Store!Decide, requests, decisions
  <2>2. Store!Refuse(p)
    BY <1>8, <1>9, <1>12, <2>1 DEF Store!Refuse
  <2> QED
    BY <1>4, <2>2 DEF Done, StoreStep, Store!Next
<1>13. CASE call[p].pc \in Undecided /\ call[p].published # <<>>
  <2> DEFINE r == [op |-> call[p].op, words |-> call[p].words]
  <2>1. call[p].pc \in {"publish", "rollback"}
    BY <1>1, <1>13 DEF Consistent
  <2>2. call[p].op \in Restores
    BY <1>1, <2>1, HalfwayIs
  <2>3. PICK R \in SUBSET DOMAIN call[p].words : disk = Store!After(r, R, Stored)
    BY <1>1, <2>1, HalfwayIs
  <2>4. Stored' = disk
    <3>1. \A q \in Living \ {p} : call[q].published = <<>>
      BY <1>1, <2>1, OthersWait DEF Critical
    <3>2. disk \in [Locales -> Contents]
      BY DEF Good, Typed
    <3>3. StoredOf(disk, call, Living \ {p}) = disk
      BY <3>1, <3>2, NoView, Zenon
    <3> QED
      BY <1>2, <1>3, <3>3, StoredIs
  <2>5. requests[p] = r /\ r.op \in {"merge", "replace"} /\ r.words = call[p].words
    BY <1>7, <1>13, <2>2 DEF Request, Restores
  <2> HIDE DEF r
  <2>6. Store!Decide(p, "torn")
    BY <1>5, <1>6, <1>10, <1>13 DEF Store!Decide, requests, decisions
  <2>7. Store!Tear(p)
    BY <1>8, <2>3, <2>4, <2>5, <2>6 DEF Store!Tear, requests
  <2> QED
    BY <1>4, <2>7 DEF Done, StoreStep, Store!Next
<1> QED
  BY <1>11, <1>12, <1>13

-----------------------------------------------------------------------------
(* Exports and mutations of one locale.                                     *)

LEMMA ReadingIs ==
  ASSUME Good, NEW p \in Processes, p \notin dead, call[p].pc = "read"
  PROVE  /\ call[p].op \in Operations /\ call[p].op \notin Restores
         /\ call[p].published = <<>>
         /\ call[p].op \in Mutations => \E l \in Locales : DOMAIN call[p].words = {l}
         /\ \A l \in DOMAIN call[p].final :
               disk[l] # Malformed /\ call[p].final[l] = WordsOf(disk[l])
         /\ Range(call[p].todo) \cup DOMAIN call[p].final =
               IF call[p].op = "export all" THEN {l \in Locales : disk[l] # Absent}
               ELSE DOMAIN call[p].words
         /\ \A t \in temps : t[1] # p
         /\ disk \in [Locales -> Contents] /\ Stored = disk
<1>1. /\ p \in Living /\ Consistent(disk, call[p])
      /\ \A t \in temps : t[1] = p => Answers(call[p], t[2])
  BY CallIs
<1>2. \A t \in temps : t[1] # p
  BY <1>1 DEF Answers
<1>3. call[p].published = <<>> /\ call[p].op \in Operations
  BY <1>1 DEF Consistent, Undecided
<1>4. disk \in [Locales -> Contents] /\ Stored = disk
  BY <1>1, <1>3, HolderView, PlainView DEF Good, Typed, Critical
<1> QED
  BY <1>1, <1>2, <1>3, <1>4 DEF Consistent

LEMMA ReadDone ==
  ASSUME Good, NEW p \in Processes, Read(p)
  PROVE  Done
<1> DEFINE l == Head(call[p].todo)
           w == WordsOf(disk[l])
           c == [call[p] EXCEPT !.final = With(call[p].final, l, w), !.todo = Tail(call[p].todo)]
<1>1. /\ p \in Living /\ call[p] \in Call /\ Consistent(disk, call[p]) /\ p \notin dead
      /\ call[p].pc = "read" /\ call[p].todo # <<>> /\ disk[l] # Malformed
      /\ temps \subseteq (Processes \cup {Nobody}) \X Locales
  BY CallIs DEF Read, At
<1>2. /\ call' = [call EXCEPT ![p] = c] /\ UNCHANGED <<plan, disk, file, temps, lock, dead>>
  BY <1>1 DEF Read, Good, Typed
<1>3. /\ l \in Locales /\ Tail(call[p].todo) \in Seq(Locales)
      /\ Range(call[p].todo) = {l} \cup Range(Tail(call[p].todo))
  BY <1>1, HeadAndTail DEF Call
<1>4. /\ call[p].op \in Operations /\ call[p].op \notin Restores /\ call[p].published = <<>>
      /\ call[p].op \in Mutations => \E k \in Locales : DOMAIN call[p].words = {k}
      /\ \A k \in DOMAIN call[p].final : disk[k] # Malformed /\ call[p].final[k] = WordsOf(disk[k])
      /\ Range(call[p].todo) \cup DOMAIN call[p].final =
            IF call[p].op = "export all" THEN {k \in Locales : disk[k] # Absent}
            ELSE DOMAIN call[p].words
      /\ \A t \in temps : t[1] # p
      /\ disk \in [Locales -> Contents]
  BY <1>1, ReadingIs
<1>5. w \in SUBSET Words
  BY <1>1, <1>3, <1>4, WordsOfIs
<1> HIDE DEF w
<1>6. With(call[p].final, l, w) \in Some(Locales, SUBSET Words)
  <2>1. call[p].final \in Some(Locales, SUBSET Words)
    BY <1>1 DEF Call
  <2> HIDE DEF l
  <2> QED
    BY <1>3, <1>5, <2>1, Extended, Zenon
<1>7. /\ c \in Call /\ c.pc = "read" /\ c.op = call[p].op /\ c.words = call[p].words
      /\ c.published = call[p].published /\ c.decision = call[p].decision
      /\ c.todo = Tail(call[p].todo) /\ c.final = With(call[p].final, l, w)
  BY <1>1, <1>3, <1>6 DEF Call
<1> HIDE DEF c, l
<1>8. /\ DOMAIN c.final = {l} \cup DOMAIN call[p].final
      /\ \A k \in DOMAIN c.final : disk[k] # Malformed /\ c.final[k] = WordsOf(disk[k])
  BY <1>1, <1>4, <1>7 DEF With, w
<1>9. Consistent(disk, c)
  <2>1. Range(c.todo) \cup DOMAIN c.final =
            IF c.op = "export all" THEN {k \in Locales : disk[k] # Absent} ELSE DOMAIN c.words
    BY <1>3, <1>4, <1>7, <1>8
  <2> QED
    BY <1>4, <1>7, <1>8, <2>1 DEF Consistent
<1>10. View(disk, c) = View(disk, call[p])
  BY <1>4, <1>7, PlainView
<1>11. /\ \A t \in temps' : t \in temps \/ t[1] \in {p, Nobody}
       /\ \A t \in temps' : t[1] = p => Answers(c, t[2])
       /\ temps' \subseteq (Processes \cup {Nobody}) \X Locales
       /\ call[p].pc \in Critical /\ Request(c) = Request(call[p])
  BY <1>1, <1>2, <1>4, <1>7 DEF Critical, Request
<1> QED
  BY <1>1, <1>2, <1>7, <1>9, <1>10, <1>11, InnerStep

LEMMA FailsDone ==
  ASSUME Good, NEW p \in Processes, Fails(p)
  PROVE  Done
<1> DEFINE c == Decided(p, "failed")
<1>1. /\ p \in Living /\ call[p] \in Call /\ p \notin dead
      /\ call[p].pc = "read" /\ temps \subseteq (Processes \cup {Nobody}) \X Locales
  BY CallIs DEF Fails, At
<1>2. call' = [call EXCEPT ![p] = c] /\ UNCHANGED <<plan, disk, file, temps, lock, dead>>
  BY DEF Fails
<1>3. /\ c \in Call /\ c.pc = "release" /\ c.published = <<>> /\ c.decision = "failed"
      /\ Consistent(disk, c)
  BY <1>1, DecidedIs DEF Decisions
<1> HIDE DEF c
<1>4. View(disk, c) = View(disk, call[p]) /\ \A t \in temps : t[1] # p
  <2>1. /\ \A t \in temps : t[1] # p
        /\ disk \in [Locales -> Contents] /\ call[p].published = <<>>
    BY <1>1, ReadingIs
  <2>2. View(disk, c) = disk
    BY <1>3, <2>1, PlainView
  <2>3. View(disk, call[p]) = disk
    BY <2>1, PlainView
  <2> QED
    BY <2>1, <2>2, <2>3
<1>5. /\ \A t \in temps' : t \in temps \/ t[1] \in {p, Nobody}
      /\ \A t \in temps' : t[1] = p => Answers(c, t[2])
      /\ temps' \subseteq (Processes \cup {Nobody}) \X Locales
      /\ call[p].pc \in Critical /\ call[p].pc \in Undecided /\ c.pc \notin Undecided
  BY <1>1, <1>2, <1>3, <1>4 DEF Critical, Undecided
<1> QED
  BY <1>1, <1>2, <1>3, <1>4, <1>5, InnerStep

\* A backup that is written is read as what was exported.
LEMMA ParseEncode ==
  ASSUME NEW f \in Some(Locales, SUBSET Words)
  PROVE  Encode(f) \in Payloads /\ Parse(Encode(f)) = f
<1> DEFINE order == SetToSeq(DOMAIN f)
           n == Len(order)
           E == [locale : Locales, words : SUBSET Words]
           x == Encode(f)
<1>1. DOMAIN f \in SUBSET Locales /\ f \in [DOMAIN f -> SUBSET Words]
  BY SomeIs
<1>2. order \in Seq(Locales) /\ IsInjective(order) /\ Range(order) = DOMAIN f
  BY <1>1, LocalesListed
<1>3. x = [i \in 1..n |-> [locale |-> order[i], words |-> f[order[i]]]]
  BY DEF Encode
<1> HIDE DEF order, x
<1>4. n \in Nat /\ DOMAIN order = 1..n /\ \A i \in 1..n : order[i] \in DOMAIN f
  BY <1>2 DEF Range
<1>5. \A i \in 1..n : x[i] \in E /\ x[i].locale = order[i] /\ x[i].words = f[order[i]]
  BY <1>1, <1>3, <1>4
<1> HIDE DEF E, n
<1>6. x \in [1..n -> E] /\ DOMAIN x = 1..n
  BY <1>3, <1>5
<1>7. x \in Seq(E)
  BY <1>4, <1>6
<1>8. x \notin {Absent, Malformed} /\ x \in Payloads
  BY <1>7, BackupAssumption DEF Payloads, E
<1>9. ~\E i, j \in DOMAIN x : i # j /\ x[i].locale = x[j].locale
  BY <1>2, <1>4, <1>5, <1>6 DEF IsInjective
<1>10. {x[i].locale : i \in DOMAIN x} = DOMAIN f
  <2>1. {x[i].locale : i \in DOMAIN x} = {order[i] : i \in DOMAIN order}
    BY <1>4, <1>5, <1>6
  <2> QED
    BY <1>2, <2>1 DEF Range
<1>11. Parse(x) = [l \in DOMAIN f |-> (CHOOSE e \in Range(x) : e.locale = l).words]
  BY <1>8, <1>9, <1>10 DEF Parse
<1>12. ASSUME NEW l \in DOMAIN f PROVE (CHOOSE e \in Range(x) : e.locale = l).words = f[l]
  <2>1. PICK i \in DOMAIN x : x[i].locale = l
    BY <1>10
  <2>2. \E e \in Range(x) : e.locale = l
    BY <2>1 DEF Range
  <2> DEFINE e == CHOOSE y \in Range(x) : y.locale = l
  <2>3. e \in Range(x) /\ e.locale = l
    BY <2>2
  <2> HIDE DEF e
  <2>4. PICK j \in DOMAIN x : e = x[j]
    BY <2>3 DEF Range
  <2>5. e.words = f[l]
    BY <1>5, <1>6, <2>3, <2>4
  <2> QED
    BY <2>5 DEF e
<1>13. Parse(x) = f
  BY <1>1, <1>11, <1>12
<1> QED
  BY <1>8, <1>13 DEF x

LEMMA WriteBackupDone ==
  ASSUME Good, NEW p \in Processes, WriteBackup(p)
  PROVE  Done
<1> DEFINE c == Decided(p, "done")
           r == [op |-> call[p].op, words |-> call[p].words]
<1>1. /\ p \in Living /\ call[p] \in Call /\ p \notin dead /\ call[p].todo = <<>>
      /\ call[p].pc = "read" /\ call[p].op \in {"export", "export all"} /\ lock = p
      /\ temps \subseteq (Processes \cup {Nobody}) \X Locales
  BY CallIs DEF WriteBackup, At, Critical
<1>2. /\ call' = [call EXCEPT ![p] = c] /\ file' = Encode(call[p].final)
      /\ UNCHANGED <<plan, disk, temps, lock, dead>>
  BY DEF WriteBackup
<1>3. /\ c \in Call /\ c.pc = "release" /\ c.published = <<>> /\ c.decision = "done"
      /\ Consistent(disk', c)
  BY <1>1, DecidedIs DEF Decisions
<1> HIDE DEF c
<1>4. /\ \A l \in DOMAIN call[p].final : disk[l] # Malformed /\ call[p].final[l] = WordsOf(disk[l])
      /\ DOMAIN call[p].final = IF call[p].op = "export all" THEN {l \in Locales : disk[l] # Absent}
                                ELSE DOMAIN call[p].words
      /\ \A t \in temps : t[1] # p
      /\ disk \in [Locales -> Contents] /\ Stored = disk /\ call[p].published = <<>>
  BY <1>1, ReadingIs, EmptyRange
<1>5. /\ file' \in Payloads /\ Parse(file)' = call[p].final
      /\ DOMAIN call[p].final \subseteq Locales
  <2>1. call[p].final \in Some(Locales, SUBSET Words)
    BY <1>1 DEF Call
  <2>2. Encode(call[p].final) \in Payloads /\ Parse(Encode(call[p].final)) = call[p].final
    BY <2>1, ParseEncode
  <2>3. Parse(file)' = Parse(file')
    BY DEF Parse
  <2> QED
    BY <1>2, <2>1, <2>2, <2>3, SomeIs
<1>6. call[p].pc \in Critical /\ call[p].pc \in Undecided /\ c.pc \notin Undecided
  BY <1>1, <1>3 DEF Critical, Undecided
<1>7. Good'
  <2>1. \A q \in Living \ {p} : call[q].pc \notin Critical
    BY <1>1, <1>6, OthersWait
  <2>2. /\ disk' \in [Locales -> Contents] /\ lock' \in Processes \cup {Nobody} /\ lock' = p
        /\ temps' \subseteq (Processes \cup {Nobody}) \X Locales
        /\ \A t \in temps' : t \in temps \/ t[1] \in {p, Nobody}
        /\ \A t \in temps' : t[1] = p => Answers(c, t[2])
    BY <1>1, <1>2, <1>4 DEF Good, Typed
  <2> QED
    BY <1>1, <1>2, <1>3, <1>5, <2>1, <2>2, GoodStep
<1>8. Stored' = Stored
  BY <1>1, <1>2, <1>3, <1>4, SameStored
<1>9. /\ requests[p] = r /\ requests[p] # Store!NoRequest
      /\ requests' = [requests EXCEPT ![p] = Store!NoRequest]
      /\ decisions' = [decisions EXCEPT ![p] = c.decision]
  BY <1>1, <1>2, <1>3, <1>6, DecidingStep
<1>10. Store!Scope(r) = DOMAIN call[p].final /\ r.op \in {"export", "export all"}
  BY <1>1, <1>4 DEF Store!Scope
<1> HIDE DEF r
<1>11. Store!Decide(p, "done")
  BY <1>3, <1>9 DEF Store!Decide, requests, decisions
<1>12. call[p].final = [l \in DOMAIN call[p].final |-> Store!WordsOf(Stored[l])]
  <2>1. call[p].final = [l \in DOMAIN call[p].final |-> call[p].final[l]]
    BY <1>1, SomeIs DEF Call
  <2>2. \A l \in DOMAIN call[p].final : call[p].final[l] = Store!WordsOf(Stored[l])
    BY <1>4 DEF WordsOf, Store!WordsOf
  <2> QED
    BY <2>1, <2>2
<1>13. Store!Commit(p)
  BY <1>4, <1>5, <1>8, <1>9, <1>10, <1>11, <1>12 DEF Store!Commit, requests
<1> QED
  BY <1>7, <1>13 DEF Done, StoreStep, Store!Next

LEMMA WriteWordsDone ==
  ASSUME Good, NEW p \in Processes, WriteWords(p)
  PROVE  Done
<1> DEFINE c == Decided(p, "done")
           r == [op |-> call[p].op, words |-> call[p].words]
           l == CHOOSE k \in DOMAIN call[p].words : TRUE
           old == call[p].final[l]
           new == IF call[p].op = "add" THEN old \cup call[p].words[l]
                  ELSE old \ call[p].words[l]
<1>1. /\ p \in Living /\ call[p] \in Call /\ p \notin dead /\ call[p].todo = <<>>
      /\ call[p].pc = "read" /\ call[p].op \in {"add", "remove"} /\ lock = p
      /\ temps \subseteq (Processes \cup {Nobody}) \X Locales
  BY CallIs DEF WriteWords, At, Critical
<1>2. /\ call' = [call EXCEPT ![p] = c]
      /\ disk' = IF new = old THEN disk ELSE [disk EXCEPT ![l] = new]
      /\ UNCHANGED <<plan, file, temps, lock, dead>>
  BY DEF WriteWords
<1>3. /\ c \in Call /\ c.pc = "release" /\ c.published = <<>> /\ c.decision = "done"
      /\ Consistent(disk', c)
  BY <1>1, DecidedIs DEF Decisions
<1> HIDE DEF c
<1>4. /\ \A k \in DOMAIN call[p].final : disk[k] # Malformed /\ call[p].final[k] = WordsOf(disk[k])
      /\ DOMAIN call[p].final = DOMAIN call[p].words
      /\ \A t \in temps : t[1] # p
      /\ disk \in [Locales -> Contents] /\ Stored = disk /\ call[p].published = <<>>
      /\ \E k \in Locales : DOMAIN call[p].words = {k}
  <2>1. call[p].op \in Mutations /\ call[p].op # "export all"
    BY <1>1 DEF Mutations
  <2> QED
    BY <1>1, <2>1, ReadingIs, EmptyRange
<1>5. l \in Locales /\ DOMAIN call[p].words = {l}
  BY <1>4
<1>6. old \in SUBSET Words /\ call[p].words[l] \in SUBSET Words
  BY <1>1, <1>4, <1>5, SomeIs DEF Call
<1>7. old = WordsOf(disk[l]) /\ disk[l] # Malformed
  BY <1>4, <1>5
<1> HIDE DEF l, old
<1>8. new \in SUBSET Words
  BY <1>6
<1>9. disk' \in [Locales -> Contents]
  BY <1>2, <1>4, <1>5, <1>8 DEF Contents
<1>10. call[p].pc \in Critical /\ call[p].pc \in Undecided /\ c.pc \notin Undecided
  BY <1>1, <1>3 DEF Critical, Undecided
<1>11. Good'
  <2>1. \A q \in Living \ {p} : call[q].pc \notin Critical
    BY <1>1, <1>10, OthersWait
  <2>2. /\ file' \in Payloads /\ lock' \in Processes \cup {Nobody} /\ lock' = p
        /\ temps' \subseteq (Processes \cup {Nobody}) \X Locales
        /\ \A t \in temps' : t \in temps \/ t[1] \in {p, Nobody}
        /\ \A t \in temps' : t[1] = p => Answers(c, t[2])
    BY <1>1, <1>2, <1>4 DEF Good, Typed
  <2> QED
    BY <1>1, <1>2, <1>3, <1>9, <1>10, <2>1, <2>2, GoodStep
<1>12. Stored' = disk'
  <2>1. Stored' = View(disk', c)
    BY <1>1, <1>2, <1>3, <1>10, HolderStored
  <2> QED
    BY <1>3, <1>9, <2>1, PlainView
<1>13. /\ requests[p] = r /\ requests[p] # Store!NoRequest
       /\ requests' = [requests EXCEPT ![p] = Store!NoRequest]
       /\ decisions' = [decisions EXCEPT ![p] = c.decision]
  BY <1>1, <1>2, <1>3, <1>10, DecidingStep
<1>14. /\ Store!Scope(r) = {l} /\ r.op \notin {"export", "export all"} /\ r.op \in {"add", "remove"}
       /\ r.op = call[p].op /\ r.words = call[p].words
  BY <1>1, <1>5 DEF Store!Scope
<1> HIDE DEF r
<1>15. Store!Decide(p, "done")
  BY <1>3, <1>13 DEF Store!Decide, requests, decisions
<1>16. Store!Effect(r, l, disk[l]) = new /\ Store!WordsOf(disk[l]) = old
  <2>1. Store!WordsOf(disk[l]) = old
    BY <1>7 DEF WordsOf, Store!WordsOf
  <2>2. CASE r.op = "add"
    <3>1. Store!Effect(r, l, disk[l]) = Store!WordsOf(disk[l]) \cup r.words[l]
      BY <2>2 DEF Store!Effect
    <3> QED
      BY <1>14, <2>1, <2>2, <3>1
  <2>3. CASE r.op = "remove"
    <3>1. Store!Effect(r, l, disk[l]) = Store!WordsOf(disk[l]) \ r.words[l]
      BY <2>3 DEF Store!Effect
    <3>2. call[p].op # "add"
      BY <1>14, <2>3
    <3> QED
      BY <1>14, <2>1, <2>3, <3>1, <3>2
  <2> QED
    BY <1>14, <2>2, <2>3
<1> HIDE DEF new
<1>17. disk' = Store!After(r, {l}, disk)
  <2>1. ASSUME NEW k \in Locales PROVE disk'[k] = Store!After(r, {l}, disk)[k]
    <3>1. CASE k # l
      BY <1>2, <1>4, <1>5, <3>1 DEF Store!After
    <3>2. CASE k = l /\ new = old
      BY <1>2, <1>14, <1>16, <3>2 DEF Store!After
    <3>3. CASE k = l /\ new # old
      BY <1>2, <1>4, <1>5, <1>14, <1>16, <3>3 DEF Store!After
    <3> QED
      BY <3>1, <3>2, <3>3
  <2> QED
    BY <1>9, <2>1 DEF Store!After
<1>18. Parse(file)' = Parse(file)
  BY <1>2 DEF Parse
<1>19. Store!Commit(p)
  BY <1>4, <1>7, <1>12, <1>13, <1>14, <1>15, <1>17, <1>18 DEF Store!Commit, requests
<1> QED
  BY <1>11, <1>19 DEF Done, StoreStep, Store!Next

-----------------------------------------------------------------------------
(* The theorems.                                                            *)

LEMMA InitDone == Init => Good /\ Store!Init
<1> SUFFICES ASSUME Init PROVE Good /\ Store!Init
  OBVIOUS
<1>1. disk \in [Locales -> Contents] /\ file \in Payloads
  BY BackupAssumption DEF Init
<1>2. \A p \in Processes : call[p] = Idle
  BY DEF Init
<1>3. \A d : Consistent(d, Idle)
  BY IdleIs DEF Consistent, Undecided, Mutations
<1>4. Good
  BY <1>1, <1>2, <1>3, IdleIs DEF Init, Good, Typed, Critical, Living
<1>5. Stored = disk
  BY <1>1, <1>2, IdleIs, NoView, StoredIs DEF Living
<1>6. Store!Init
  BY <1>1, <1>2, <1>5, IdleIs DEF Init, Store!Init, Contents, Requested, DecisionOf, Undecided,
     Store!NoRequest
<1> QED
  BY <1>4, <1>6

LEMMA StepDone == Good /\ [Next]_vars => Good' /\ StoreStep
<1> SUFFICES ASSUME Good, [Next]_vars PROVE Done
  BY DEF Done
<1>1. CASE UNCHANGED vars
  <2>1. Good'
    BY <1>1 DEF vars, Good, Typed, Living
  <2>2. Stored' = Stored /\ Parse(file)' = Parse(file)
    BY <1>1 DEF vars, Stored, Owner, Parse
  <2>3. requests' = requests /\ decisions' = decisions
    BY <1>1 DEF vars, requests, decisions, Requested, DecisionOf
  <2> QED
    BY <2>1, <2>2, <2>3 DEF Done, StoreStep
<1>2. ASSUME NEW p \in Processes, Start(p) PROVE Done
  BY <1>2, BeginRestoreDone, BeginExportDone, BeginMutationDone DEF Start
<1>3. ASSUME NEW p \in Processes, Step(p) PROVE Done
  BY <1>3, LockDone, GiveUpDone, ReleaseDone, PrepareDone, PrepareFailsDone, PreparedDone,
     PublishDone, PublishNothingDone, PublishFailsDone, RollBackDone, RolledBackDone, CleanUpDone,
     ReadDone, FailsDone, WriteBackupDone, WriteWordsDone DEF Step
<1>4. ASSUME NEW p \in Processes, Die(p) PROVE Done
  BY <1>4, DieDone
<1> QED
  BY <1>1, <1>2, <1>3, <1>4 DEF Next

LEMMA AlwaysGood == Spec => []Good
<1>1. Init => Good
  BY InitDone
<1>2. Good /\ [Next]_vars => Good'
  BY StepDone
<1> QED
  BY <1>1, <1>2, PTL DEF Spec

\* Every reachable state of the backup manager has the types of TypeOK; a restore
\* that publishes or rolls back has computed the words of each of its locales.
THEOREM BackupTypes == Spec => []TypeOK
<1>1. Good => TypeOK
  BY DEF Good, Typed, TypeOK, Call
<1> QED
  BY <1>1, AlwaysGood, PTL

\* Staged files are published or removed before a restore gives the lock back: one
\* that stays is of a process that died or of a removal that failed.
THEOREM StagedFilesAreAnswered == Spec => []TempsAreAnswered
<1>1. Good => TempsAreAnswered
  BY DEF Good, Typed, TempsAreAnswered, Living, Answers
<1> QED
  BY <1>1, AlwaysGood, PTL

\* Every restore, export and mutation takes effect at one moment, the step in which
\* it is decided, on the words of that moment, or not at all, for any number of
\* processes and locales, whatever operation fails and whoever dies; only one that
\* dies while it publishes, or whose rollback fails, is torn.
THEOREM RestoresAreAtomic == Spec => CallsAreAtomic
<1>1. Init => Good /\ Store!Init
  BY InitDone
<1>2. Good /\ [Next]_vars => Good' /\ [Store!Next]_<<Stored, Parse(file),
                                [p \in Processes |-> Requested(p)],
                                [p \in Processes |-> DecisionOf(p)]>>
  BY StepDone DEF StoreStep, requests, decisions
<1> QED
  BY <1>1, <1>2, PTL DEF Spec, CallsAreAtomic, Store!Spec

=============================================================================
