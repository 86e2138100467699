---------------------- MODULE DictionaryManagerProofs ----------------------
(***************************************************************************)
(* An imported bundle appears at once or not at all, every staging          *)
(* directory has one worker that answers for it, and the registry knows     *)
(* what the dialogs have announced, for any number of dialogs, imports and  *)
(* faults.                                                                  *)
(***************************************************************************)
EXTENDS DictionaryManager, Induction

-----------------------------------------------------------------------------
(* The invariant.                                                           *)

Staging == {"copy", "publish", "cleanup"}

Task ==
  [pc : {"none", "check", "published", "failed"} \cup Staging,
   source : AllBundles \cup {Nothing}, name : Names \cup {Nothing},
   temp : Temps \cup {Nothing}, todo : Seq(Files)]

Selections == [Components -> Dirs \cup {Nothing}]

Typed ==
  /\ root \in [Dirs -> AllBundles \cup {Nothing}]
  /\ known \in [selected : Selections, failed : BOOLEAN]
  /\ busy \in [Dialogs -> BOOLEAN]
  /\ task \in [Dialogs -> Task]
  /\ rows \in [Dialogs -> SUBSET Selections]
  /\ finished \subseteq Names
  /\ adrift \subseteq Temps

\* What its program counter says about the task k, when the directory is r.
Consistent(r, k) ==
  /\ k.pc = "none" => k = NoTask
  /\ k.pc # "none" => k.name \in Names
  /\ k.pc \in Staging <=> k.temp # Nothing
  /\ k.temp # Nothing => r[k.temp] # Nothing
  /\ k.pc \in {"check", "copy"} => k.source \in UserFiles
  /\ k.pc = "copy" => k.todo \in Seq(DOMAIN k.source)
  /\ k.pc = "publish" => r[k.temp] \in Acceptable

Good ==
  /\ Typed
  /\ \A d \in Dialogs : Consistent(root, task[d]) /\ (busy[d] <=> task[d].pc # "none")
  /\ StagingIsAnswered
  /\ \A n \in finished : root[n] \notin {Nothing, NoFiles}
  /\ FinishedIsKnown

-----------------------------------------------------------------------------
(* Bundles.                                                                 *)

Kind(b, f) == IF f \in DOMAIN b THEN b[f] ELSE "absent"

LEMMA BundleIs ==
  ASSUME NEW D, D \subseteq Files, NEW b, b = [f \in D |-> b[f]],
         \A f \in D : b[f] \in Kinds[f]
  PROVE  b \in AllBundles
<1> DEFINE r == [aff |-> Kind(b, "aff"), dic |-> Kind(b, "dic"), dat |-> Kind(b, "dat"),
                 idx |-> Kind(b, "idx"), stray |-> Kind(b, "stray")]
<1>1. Files = {"aff", "dic", "dat", "idx", "stray"}
  BY DEF Files, Kinds
<1>2. \A f \in Files : "absent" \notin Kinds[f]
  <2>1. "absent" \notin Kinds["aff"] /\ "absent" \notin Kinds["dic"]
    BY DEF Kinds
  <2>2. "absent" \notin Kinds["dat"] /\ "absent" \notin Kinds["idx"]
    BY DEF Kinds
  <2>3. "absent" \notin Kinds["stray"]
    BY DEF Kinds
  <2> QED
    BY <1>1, <2>1, <2>2, <2>3
<1>3. \A f \in Files : Kind(b, f) \in Kinds[f] \cup {"absent"}
  BY DEF Kind
<1>4. \A f \in Files : r[f] = Kind(b, f)
  BY <1>1
<1>5. r \in [aff : Kinds["aff"] \cup {"absent"}, dic : Kinds["dic"] \cup {"absent"},
             dat : Kinds["dat"] \cup {"absent"}, idx : Kinds["idx"] \cup {"absent"},
             stray : Kinds["stray"] \cup {"absent"}]
  BY <1>1, <1>3
<1>6. {f \in Files : r[f] # "absent"} = D
  BY <1>2, <1>4 DEF Kind
<1>7. \A f \in D : r[f] = b[f]
  BY <1>4 DEF Kind
<1>8. b = [f \in {g \in Files : r[g] # "absent"} |-> r[f]]
  BY <1>6, <1>7
<1> QED
  BY <1>5, <1>8 DEF AllBundles

LEMMA BundleHas ==
  ASSUME NEW b \in AllBundles
  PROVE  /\ DOMAIN b \subseteq Files /\ b = [f \in DOMAIN b |-> b[f]]
         /\ \A f \in DOMAIN b : b[f] \in Kinds[f]
<1>1. Files = {"aff", "dic", "dat", "idx", "stray"}
  BY DEF Files, Kinds
<1>2. PICK r \in [aff : Kinds["aff"] \cup {"absent"}, dic : Kinds["dic"] \cup {"absent"},
             dat : Kinds["dat"] \cup {"absent"}, idx : Kinds["idx"] \cup {"absent"},
             stray : Kinds["stray"] \cup {"absent"}] :
         b = [f \in {g \in Files : r[g] # "absent"} |-> r[f]]
  BY DEF AllBundles
<1>3. \A f \in Files : r[f] \in Kinds[f] \cup {"absent"}
  BY <1>1
<1> QED
  BY <1>2, <1>3

LEMMA NoFilesIs == NoFiles \in AllBundles /\ DOMAIN NoFiles = {} /\ Offers(NoFiles) = {}
<1>1. NoFiles = [f \in {} |-> NoFiles[f]] /\ DOMAIN NoFiles = {}
  BY DEF NoFiles
<1>2. NoFiles \in AllBundles
  BY <1>1, BundleIs
<1> QED
  BY <1>1, <1>2 DEF Offers, Needed

LEMMA FilesFinite == IsFiniteSet(Files)
<1>1. Files = {"aff", "dic", "dat", "idx", "stray"}
  BY DEF Files, Kinds
<1>2. Files = {} \cup {"aff"} \cup {"dic"} \cup {"dat"} \cup {"idx"} \cup {"stray"}
  BY <1>1
<1> QED
  BY <1>2, FS_EmptySet, FS_AddElement

\* A file more and some files less leave a bundle.
LEMMA WithIs ==
  ASSUME NEW b \in AllBundles, NEW c \in AllBundles, NEW f \in DOMAIN c
  PROVE  With(b, f, c[f]) \in AllBundles
<1> DEFINE w == With(b, f, c[f])
           D == {f} \cup DOMAIN b
<1>1. D \subseteq Files /\ c[f] \in Kinds[f] /\ \A g \in DOMAIN b : b[g] \in Kinds[g]
  BY BundleHas
<1>2. w = [g \in D |-> w[g]] /\ \A g \in D : w[g] = IF g = f THEN c[f] ELSE b[g]
  BY DEF With
<1>3. \A g \in D : w[g] \in Kinds[g]
  BY <1>1, <1>2
<1> HIDE DEF w, D
<1>4. w \in AllBundles
  BY <1>1, <1>2, <1>3, BundleIs
<1> QED
  BY <1>4 DEF w

LEMMA RemainsAre ==
  ASSUME NEW b \in AllBundles, NEW rest \in Remains(b)
  PROVE  rest \in AllBundles
<1>1. PICK D \in SUBSET DOMAIN b : rest = Restrict(b, D)
  BY DEF Remains
<1>2. rest = [f \in D |-> rest[f]] /\ \A f \in D : rest[f] = b[f]
  BY <1>1 DEF Restrict
<1>3. D \subseteq Files /\ \A f \in D : rest[f] \in Kinds[f]
  BY <1>2, BundleHas
<1> QED
  BY <1>2, <1>3, BundleIs

-----------------------------------------------------------------------------
(* Discovery.                                                               *)

LEMMA OrderLists == Order \in Seq(Dirs) /\ \A x \in Dirs : \E i \in DOMAIN Order : Order[i] = x
<1> DEFINE s == SetToSeq(Temps)
           t == SetToSeq(Names)
<1>1. s \in Seq(Temps) /\ \A x \in Temps : \E i \in DOMAIN s : s[i] = x
  BY SetToSeqLists, ManagerAssumption
<1>2. t \in Seq(Names) /\ \A x \in Names : \E i \in DOMAIN t : t[i] = x
  BY SetToSeqLists, ManagerAssumption
<1> HIDE DEF s, t
<1>3. s \o t \in Seq(Dirs) /\ DOMAIN (s \o t) = 1..(Len(s) + Len(t))
  BY <1>1, <1>2 DEF Dirs
<1>4. DOMAIN s = 1..Len(s) /\ DOMAIN t = 1..Len(t) /\ Len(s) \in Nat /\ Len(t) \in Nat
  BY <1>1, <1>2
<1>5. \A i \in 1..Len(s) : i \in DOMAIN (s \o t) /\ (s \o t)[i] = s[i]
  BY <1>1, <1>2, <1>3, <1>4
<1>6. \A i \in 1..Len(t) : Len(s) + i \in DOMAIN (s \o t) /\ (s \o t)[Len(s) + i] = t[i]
  BY <1>1, <1>2, <1>3, <1>4
<1>7. Order = s \o t
  BY DEF Order, s, t
<1> HIDE DEF Order
<1>8. ASSUME NEW x \in Temps PROVE \E i \in DOMAIN Order : Order[i] = x
  BY <1>1, <1>4, <1>5, <1>7
<1>9. ASSUME NEW x \in Names PROVE \E i \in DOMAIN Order : Order[i] = x
  BY <1>2, <1>4, <1>6, <1>7
<1> QED
  BY <1>3, <1>7, <1>8, <1>9 DEF Dirs

LEMMA LeastIs ==
  ASSUME NEW S \in SUBSET Nat, S # {}
  PROVE  Min(S) \in S
<1> DEFINE Less == OpToRel(<, Nat)
<1>1. \E m \in S : \A k \in S : <<k, m>> \notin Less
  BY NatLessThanWellFounded, WFMin
<1>2. \A k, m \in Nat : <<k, m>> \in Less <=> k < m
  BY DEF OpToRel
<1> HIDE DEF Less
<1>3. PICK m \in S : \A k \in S : <<k, m>> \notin Less
  BY <1>1
<1>4. ASSUME NEW k \in S PROVE m <= k
  <2>1. k \in Nat /\ m \in Nat /\ ~(k < m)
    BY <1>2, <1>3, Zenon
  <2> QED
    BY <2>1
<1> QED
  BY <1>4 DEF Min

\* What is discovered is one of the directories, and nothing only if none offers the
\* component.
LEMMA DiscoveredIs ==
  /\ Discovered \in Selections
  /\ \A x \in Dirs, c \in Components :
       root[x] # Nothing /\ c \in Offers(root[x]) => Discovered[c] # Nothing
<1>1. /\ Order \in Seq(Dirs) /\ Nothing \notin Dirs /\ DOMAIN Order \subseteq Nat
      /\ \A x \in Dirs : \E i \in DOMAIN Order : Order[i] = x
  BY OrderLists, ManagerAssumption
<1>2. ASSUME NEW c \in Components, Offering(c) # {}
      PROVE  Discovered[c] \in Dirs
  <2>1. Offering(c) \in SUBSET Nat /\ Offering(c) \subseteq DOMAIN Order
    BY <1>1 DEF Offering
  <2>2. Min(Offering(c)) \in Offering(c)
    BY <1>2, <2>1, LeastIs
  <2>3. Order[Min(Offering(c))] \in Dirs
    BY <1>1, <2>1, <2>2
  <2> QED
    BY <1>2, <2>3 DEF Discovered
<1>3. ASSUME NEW c \in Components, Offering(c) = {}
      PROVE  Discovered[c] = Nothing
  BY <1>3 DEF Discovered
<1>4. Discovered = [c \in Components |-> Discovered[c]]
  BY DEF Discovered
<1>5. ASSUME NEW x \in Dirs, NEW c \in Components, root[x] # Nothing, c \in Offers(root[x])
      PROVE  Offering(c) # {}
  BY <1>1, <1>5 DEF Offering
<1> QED
  BY <1>1, <1>2, <1>3, <1>4, <1>5 DEF Selections

LEMMA RowsAre ==
  ASSUME NEW s \in Selections
  PROVE  RowsFor(s) \in SUBSET Selections
<1>1. NothingKnown \in Selections
  BY DEF NothingKnown, Selections
<1>2. ASSUME NEW c \in Components, NEW x \in Dirs
      PROVE  [NothingKnown EXCEPT ![c] = x] \in Selections
  BY <1>1 DEF Selections
<1> QED
  BY <1>2 DEF RowsFor

\* What a discovery that does not fail knows, and what it lists.
LEMMA DiscoveryIs ==
  ASSUME NEW k \in Discoveries
  PROVE  /\ k \in [selected : Selections, failed : BOOLEAN]
         /\ RowsFor(k.selected) \in SUBSET Selections
         /\ k.failed \/ k.selected = Discovered
<1>1. NothingKnown \in Selections
  BY DEF NothingKnown, Selections
<1>2. k = [selected |-> Discovered, failed |-> FALSE]
      \/ k = [selected |-> NothingKnown, failed |-> TRUE]
  BY DEF Discoveries
<1> DEFINE s == Discovered
<1>3. s \in Selections
  BY DiscoveredIs
<1> HIDE DEF s
<1>4. k = [selected |-> s, failed |-> FALSE] \/ k = [selected |-> NothingKnown, failed |-> TRUE]
  BY <1>2 DEF s
<1> HIDE DEF NothingKnown, Selections
<1>5. CASE k = [selected |-> s, failed |-> FALSE]
  <2>1. k \in [selected : Selections, failed : BOOLEAN] /\ k.selected = s
    BY <1>3, <1>5
  <2> QED
    BY <2>1, RowsAre DEF s
<1>6. CASE k = [selected |-> NothingKnown, failed |-> TRUE]
  <2>1. k \in [selected : Selections, failed : BOOLEAN] /\ k.failed
    BY <1>1, <1>6
  <2> QED
    BY <2>1, RowsAre
<1> QED
  BY <1>4, <1>5, <1>6

-----------------------------------------------------------------------------
(* Steps.                                                                   *)

\* One step of PublicationIsAtomic, the formula under its box.
Published ==
  \A n \in Names : root'[n] # root[n] =>
    \/ root[n] \in {Nothing, NoFiles} /\ root'[n] \in Acceptable
    \/ \E d \in Dialogs : Removing(d) /\ Head(removal[d].todo) = n

Done == Good' /\ Published

\* A step that touches no bundle of an announced import, and discovers nothing.
LEMMA StillKnown ==
  ASSUME Good, known' = known, finished' \subseteq finished,
         \A n \in finished' : root'[n] = root[n]
  PROVE  /\ finished' \subseteq Names
         /\ \A n \in finished' : root'[n] \notin {Nothing, NoFiles}
         /\ FinishedIsKnown'
BY DEF Good, Typed, FinishedIsKnown

\* A step that discovers, and changes no directory.
LEMMA KnownAgain ==
  ASSUME Good, root' = root, finished' \subseteq Names,
         \A n \in finished' : n \in finished \/ root[n] \notin {Nothing, NoFiles},
         known' \in [selected : Selections, failed : BOOLEAN],
         known'.failed \/ known'.selected = Discovered
  PROVE  /\ \A n \in finished' : root'[n] \notin {Nothing, NoFiles}
         /\ FinishedIsKnown'
<1>1. \A n \in finished' : root[n] \notin {Nothing, NoFiles} /\ n \in Dirs
  BY DEF Good, Dirs
<1>2. ASSUME ~known'.failed, NEW n \in finished', NEW c \in Offers(root[n])
      PROVE  known'.selected[c] # Nothing
  <2>1. c \in Components
    BY DEF Offers, Components
  <2> QED
    BY <1>1, <1>2, <2>1, DiscoveredIs
<1> QED
  BY <1>1, <1>2 DEF FinishedIsKnown

\* A step of the import of dialog d.  It changes no staging directory but its own,
\* and takes one only if it is not there.
LEMMA ImportStep ==
  ASSUME Good, NEW d \in Dialogs,
         task' \in [Dialogs -> Task], busy' \in [Dialogs -> BOOLEAN],
         \A e \in Dialogs : e # d => task'[e] = task[e] /\ busy'[e] = busy[e],
         Consistent(root', task'[d]), busy'[d] <=> task'[d].pc # "none",
         root' \in [Dirs -> AllBundles \cup {Nothing}],
         \A t \in Temps : t \notin {task[d].temp, task'[d].temp} => root'[t] = root[t],
         task'[d].temp \in {Nothing, task[d].temp} \/ root[task'[d].temp] = Nothing,
         task[d].temp # Nothing /\ root'[task[d].temp] # Nothing =>
             task[d].temp \in adrift' \cup {task'[d].temp},
         adrift \subseteq adrift', adrift' \subseteq Temps,
         known' \in [selected : Selections, failed : BOOLEAN],
         rows' \in [Dialogs -> SUBSET Selections],
         finished' \subseteq Names, \A n \in finished' : root'[n] \notin {Nothing, NoFiles},
         FinishedIsKnown'
  PROVE  Good'
<1>1. Typed'
  BY DEF Typed
<1>2. task \in [Dialogs -> Task] /\ \A e \in Dialogs : Consistent(root, task[e])
      /\ task[e].temp \in Temps \cup {Nothing} /\ task'[e].temp \in Temps \cup {Nothing}
  BY DEF Good, Typed, Task
<1>3. \A e, f \in Dialogs : task[e].temp = task[f].temp => e = f \/ task[e].temp = Nothing
  BY DEF Good, StagingIsAnswered
<1>4. ASSUME NEW e \in Dialogs, e # d, task[e].temp # Nothing
      PROVE  task[e].temp \notin {task[d].temp, task'[d].temp}
  <2>1. task[e].temp # task[d].temp
    BY <1>3, <1>4
  <2>2. root[task[e].temp] # Nothing
    BY <1>2, <1>4 DEF Consistent
  <2> QED
    BY <1>4, <2>1, <2>2
<1>5. ASSUME NEW e \in Dialogs
      PROVE  Consistent(root', task'[e]) /\ (busy'[e] <=> task'[e].pc # "none")
  <2>1. CASE e = d
    BY <2>1
  <2>2. CASE e # d
    <3>1. task'[e] = task[e] /\ busy'[e] = busy[e] /\ (busy[e] <=> task[e].pc # "none")
      BY <2>2 DEF Good
    <3>2. task[e].temp # Nothing => root'[task[e].temp] = root[task[e].temp]
      BY <1>2, <1>4, <2>2
    <3>3. task[e].pc = "publish" => task[e].temp # Nothing
      BY <1>2 DEF Consistent, Staging
    <3>4. Consistent(root', task[e])
      BY <1>2, <3>2, <3>3 DEF Consistent
    <3> QED
      BY <3>1, <3>4
  <2> QED
    BY <2>1, <2>2
<1>6. ASSUME NEW e \in Dialogs, NEW f \in Dialogs, task'[e].temp = task'[f].temp, e # f
      PROVE  task'[e].temp = Nothing
  <2>1. CASE e # d /\ f # d
    BY <1>3, <1>6, <2>1
  <2>2. CASE e # d /\ f = d
    BY <1>4, <1>6, <2>2
  <2>3. CASE e = d /\ f # d
    BY <1>4, <1>6, <2>3
  <2> QED
    BY <1>6, <2>1, <2>2, <2>3
<1>7. ASSUME NEW t \in Temps, root'[t] # Nothing
      PROVE  t \in adrift' \/ \E e \in Dialogs : task'[e].temp = t
  <2>0. t # Nothing
    BY ManagerAssumption DEF Dirs
  <2>1. CASE t = task[d].temp
    BY <1>7, <2>0, <2>1
  <2>2. CASE t = task'[d].temp
    BY <2>2
  <2>3. CASE t \notin {task[d].temp, task'[d].temp}
    <3>1. root[t] # Nothing
      BY <1>7, <2>3
    <3>2. t \in adrift \/ \E e \in Dialogs : task[e].temp = t
      BY <3>1 DEF Good, StagingIsAnswered
    <3> QED
      BY <2>3, <3>2
  <2> QED
    BY <2>1, <2>2, <2>3
<1>8. StagingIsAnswered'
  BY <1>6, <1>7 DEF StagingIsAnswered
<1> QED
  BY <1>1, <1>5, <1>8 DEF Good

\* A step of a removal, or one that only looks.
LEMMA BundleStep ==
  ASSUME Good, UNCHANGED <<busy, task, adrift>>,
         root' \in [Dirs -> AllBundles \cup {Nothing}], \A t \in Temps : root'[t] = root[t],
         known' \in [selected : Selections, failed : BOOLEAN],
         rows' \in [Dialogs -> SUBSET Selections],
         finished' \subseteq Names, \A n \in finished' : root'[n] \notin {Nothing, NoFiles},
         FinishedIsKnown'
  PROVE  Good'
<1>1. Typed'
  BY DEF Typed, Good
<1>2. ASSUME NEW d \in Dialogs PROVE Consistent(root', task[d])
  <2>1. task[d].temp \in Temps \cup {Nothing} /\ Consistent(root, task[d])
    BY DEF Good, Typed, Task
  <2>2. task[d].pc = "publish" => task[d].temp # Nothing
    BY <2>1 DEF Consistent, Staging
  <2> QED
    BY <2>1, <2>2 DEF Consistent
<1>3. StagingIsAnswered'
  BY DEF Good, StagingIsAnswered
<1> QED
  BY <1>1, <1>2, <1>3 DEF Good

\* What the invariant says of one task.
LEMMA TaskIs ==
  ASSUME Good, NEW d \in Dialogs
  PROVE  /\ task \in [Dialogs -> Task] /\ busy \in [Dialogs -> BOOLEAN]
         /\ root \in [Dirs -> AllBundles \cup {Nothing}]
         /\ task[d] \in Task /\ Consistent(root, task[d]) /\ (busy[d] <=> task[d].pc # "none")
         /\ task[d].temp \in Temps \cup {Nothing} /\ Nothing \notin Dirs
         /\ known \in [selected : Selections, failed : BOOLEAN]
         /\ rows \in [Dialogs -> SUBSET Selections] /\ adrift \subseteq Temps
BY ManagerAssumption DEF Good, Typed, Task

LEMMA ImportFilesDone ==
  ASSUME Good, NEW d \in Dialogs, ImportFiles(d)
  PROVE  Done
<1>1. PICK r \in Requests :
        task' = [task EXCEPT ![d] = [pc |-> "check", source |-> r[1], name |-> r[2],
                                     temp |-> Nothing, todo |-> <<>>]]
  BY DEF ImportFiles
<1> DEFINE k == [pc |-> "check", source |-> r[1], name |-> r[2], temp |-> Nothing, todo |-> <<>>]
<1>2. r[1] \in UserFiles /\ r[1] \in AllBundles /\ r[2] \in Names
  BY ManagerAssumption
<1>3. k \in Task /\ Consistent(root, k) /\ k.pc = "check" /\ k.temp = Nothing
  BY <1>2 DEF Task, Consistent, Staging
<1>4. task[d].temp = Nothing
  BY TaskIs DEF ImportFiles, Consistent, Staging
<1> HIDE DEF k
<1>5. task'[d] = k /\ task' \in [Dialogs -> Task] /\ \A e \in Dialogs : e # d => task'[e] = task[e]
  BY <1>1, <1>3, TaskIs DEF k
<1>6. /\ busy' \in [Dialogs -> BOOLEAN] /\ busy'[d]
      /\ \A e \in Dialogs : e # d => busy'[e] = busy[e]
  BY TaskIs DEF ImportFiles
<1>7. UNCHANGED <<root, known, rows, finished, adrift>>
  BY DEF ImportFiles, directory
<1>8. Good'
  BY <1>3, <1>4, <1>5, <1>6, <1>7, TaskIs, StillKnown, ImportStep
<1> QED
  BY <1>7, <1>8 DEF Done, Published

\* A step of a worker at which its dialog stays busy and no bundle is touched.
LEMMA WorkStep ==
  ASSUME Good, NEW d \in Dialogs, NEW k \in Task,
         UNCHANGED <<known, busy, rows, finished>>,
         busy[d], k.pc # "none", Consistent(root', k), task' = [task EXCEPT ![d] = k],
         root' \in [Dirs -> AllBundles \cup {Nothing}], \A n \in Names : root'[n] = root[n],
         \A t \in Temps : t \notin {task[d].temp, k.temp} => root'[t] = root[t],
         k.temp \in {Nothing, task[d].temp} \/ root[k.temp] = Nothing,
         task[d].temp # Nothing /\ root'[task[d].temp] # Nothing =>
             task[d].temp \in adrift' \cup {k.temp},
         adrift \subseteq adrift', adrift' \subseteq Temps
  PROVE  Done
<1>1. task'[d] = k /\ task' \in [Dialogs -> Task] /\ \A e \in Dialogs : e # d => task'[e] = task[e]
  BY TaskIs
<1>2. finished' \subseteq Names /\ \A n \in finished' : root'[n] = root[n]
  BY DEF Good, Typed
<1>3. Good'
  BY <1>1, <1>2, TaskIs, StillKnown, ImportStep
<1> QED
  BY <1>3 DEF Done, Published

LEMMA ChangeSourceDone ==
  ASSUME Good, NEW d \in Dialogs, ChangeSource(d)
  PROVE  Done
<1>1. PICK b \in UserFiles : DOMAIN b = DOMAIN task[d].source /\ task' = [task EXCEPT ![d].source = b]
  BY DEF ChangeSource
<1> DEFINE k == [task[d] EXCEPT !.source = b]
<1>2. task[d] \in Task /\ Consistent(root, task[d]) /\ task[d].pc = "copy" /\ b \in AllBundles
  BY TaskIs, ManagerAssumption DEF ChangeSource
<1>3. /\ k \in Task /\ k.pc = "copy" /\ k.temp = task[d].temp /\ k.source = b
      /\ k.todo = task[d].todo /\ k.name = task[d].name
  BY <1>2 DEF Task
<1>4. task' = [task EXCEPT ![d] = k]
  BY <1>1
<1> HIDE DEF k
<1>5. Consistent(root, k)
  BY <1>1, <1>2, <1>3 DEF Consistent, Staging
<1>6. UNCHANGED <<root, known, busy, rows, finished, adrift>> /\ busy[d]
  BY <1>2, TaskIs DEF ChangeSource, directory
<1> QED
  BY <1>3, <1>4, <1>5, <1>6, TaskIs, WorkStep

LEMMA StageDone ==
  ASSUME Good, NEW d \in Dialogs, Stage(d)
  PROVE  Done
<1>1. PICK t \in Temps :
        /\ root[t] = Nothing /\ root' = [root EXCEPT ![t] = NoFiles]
        /\ task' = [task EXCEPT ![d].pc = "copy", ![d].temp = t,
                                ![d].todo = SetToSeq(DOMAIN task[d].source)]
  BY DEF Stage
<1> DEFINE s == SetToSeq(DOMAIN task[d].source)
           k == [task[d] EXCEPT !.pc = "copy", !.temp = t, !.todo = s]
<1>2. task[d] \in Task /\ Consistent(root, task[d]) /\ task[d].pc = "check"
  BY TaskIs DEF Stage, At
<1>3. task[d].source \in UserFiles /\ task[d].source \in AllBundles /\ task[d].name \in Names
      /\ task[d].temp = Nothing
  BY <1>2, ManagerAssumption DEF Consistent, Staging
<1>4. s \in Seq(DOMAIN task[d].source)
  <2>1. DOMAIN task[d].source \subseteq Files
    BY <1>3, BundleHas
  <2>2. IsFiniteSet(DOMAIN task[d].source)
    BY <2>1, FilesFinite, FS_Subset
  <2> QED
    BY <2>2, SetToSeqLists
<1>5. s \in Seq(Files)
  BY <1>3, <1>4, BundleHas
<1> HIDE DEF s
<1>6. /\ k \in Task /\ k.pc = "copy" /\ k.temp = t /\ k.source = task[d].source
      /\ k.todo = s /\ k.name = task[d].name
  BY <1>2, <1>5 DEF Task, Staging
<1>7. task' = [task EXCEPT ![d] = k]
  BY <1>1 DEF s
<1> HIDE DEF k
<1>8. t \in Dirs /\ t \notin Names /\ t # Nothing
  BY ManagerAssumption DEF Dirs
<1>9. /\ root' \in [Dirs -> AllBundles \cup {Nothing}] /\ root'[t] = NoFiles /\ NoFiles # Nothing
      /\ \A x \in Dirs : x # t => root'[x] = root[x]
  BY <1>1, <1>8, TaskIs, NoFilesIs, ManagerAssumption
<1>10. Consistent(root', k)
  BY <1>3, <1>4, <1>6, <1>8, <1>9 DEF Consistent, Staging
<1>11. UNCHANGED <<known, busy, rows, finished, adrift>> /\ busy[d]
  BY <1>2, TaskIs DEF Stage
<1>12. (\A n \in Names : root'[n] = root[n])
       /\ \A x \in Temps : x \notin {task[d].temp, k.temp} => root'[x] = root[x]
  BY <1>6, <1>8, <1>9 DEF Dirs
<1> QED
  BY ZenonT(120), <1>1, <1>3, <1>6, <1>7, <1>9, <1>10, <1>11, <1>12, TaskIs, WorkStep

LEMMA HeadTail ==
  ASSUME NEW S, NEW T, S \subseteq T, NEW s \in Seq(S), s # <<>>
  PROVE  Head(s) \in S /\ Tail(s) \in Seq(S) /\ Tail(s) \in Seq(T)
<1>1. Head(s) \in S /\ Tail(s) \in Seq(S)
  OBVIOUS
<1> DEFINE r == Tail(s)
<1> HIDE DEF r
<1>2. ASSUME r \in Seq(S) PROVE r \in Seq(T)
  BY <1>2
<1> QED
  BY <1>1, <1>2 DEF r

LEMMA CopyDone ==
  ASSUME Good, NEW d \in Dialogs, Copy(d)
  PROVE  Done
<1> DEFINE c == task[d]
           f == Head(c.todo)
           w == With(root[c.temp], f, c.source[f])
           k == [c EXCEPT !.todo = Tail(c.todo)]
<1>1. /\ c.pc = "copy" /\ c.todo # <<>>
      /\ root' = [root EXCEPT ![c.temp] = w] /\ task' = [task EXCEPT ![d].todo = Tail(c.todo)]
      /\ UNCHANGED <<known, busy, rows, finished, adrift>>
  BY TaskIs DEF Copy, At
<1>2. c \in Task /\ Consistent(root, c)
  BY TaskIs
<1>3. /\ c.source \in UserFiles /\ c.source \in AllBundles /\ c.name \in Names
      /\ c.temp \in Temps /\ root[c.temp] # Nothing /\ c.temp # Nothing
      /\ c.todo \in Seq(DOMAIN c.source)
  BY <1>1, <1>2, ManagerAssumption DEF Consistent, Staging, Task
<1>4. f \in DOMAIN c.source /\ Tail(c.todo) \in Seq(DOMAIN c.source) /\ Tail(c.todo) \in Seq(Files)
  <2>1. DOMAIN c.source \subseteq Files
    BY <1>3, BundleHas
  <2> QED
    BY <1>1, <1>3, <2>1, HeadTail
<1>6. root[c.temp] \in AllBundles
  BY <1>3, TaskIs DEF Dirs
<1>7. w \in AllBundles /\ w # Nothing
  BY <1>3, <1>4, <1>6, WithIs, ManagerAssumption
<1>8. /\ k \in Task /\ k.pc = "copy" /\ k.temp = c.temp /\ k.source = c.source
      /\ k.todo = Tail(c.todo) /\ k.name = c.name
  BY <1>1, <1>2, <1>4 DEF Task
<1>9. task' = [task EXCEPT ![d] = k]
  BY <1>1
<1> HIDE DEF k, w, f
<1>10. c.temp \in Dirs /\ c.temp \notin Names
  BY <1>3, ManagerAssumption DEF Dirs
<1>11. /\ root' \in [Dirs -> AllBundles \cup {Nothing}] /\ root'[c.temp] = w
       /\ \A x \in Dirs : x # c.temp => root'[x] = root[x]
  BY <1>1, <1>7, <1>10, TaskIs
<1>12. Consistent(root', k)
  BY <1>3, <1>4, <1>7, <1>8, <1>11 DEF Consistent, Staging
<1>13. /\ \A n \in Names : root'[n] = root[n]
       /\ \A x \in Temps : x \notin {c.temp, k.temp} => root'[x] = root[x]
  BY <1>10, <1>11 DEF Dirs
<1>14. busy[d] /\ k.pc # "none"
  BY <1>1, <1>8, TaskIs
<1>15. k.temp \in {Nothing, task[d].temp} /\ task[d].temp \in adrift' \cup {k.temp}
       /\ adrift \subseteq adrift' /\ adrift' \subseteq Temps
  BY <1>1, <1>8, TaskIs
<1> HIDE DEF c
<1> QED
  BY <1>1, <1>8, <1>9, <1>11, <1>12, <1>13, <1>14, <1>15, WorkStep DEF c

LEMMA MoveIs ==
  ASSUME Good, NEW d \in Dialogs, NEW pc \in {"publish", "cleanup", "failed"}, To(d, pc)
  PROVE  \E k \in Task : /\ task' = [task EXCEPT ![d] = k]
                         /\ k.pc = pc /\ k.name = task[d].name /\ k.temp = task[d].temp
<1> DEFINE k == [task[d] EXCEPT !.pc = pc, !.source = Nothing, !.todo = <<>>]
<1>1. task[d] \in Task /\ <<>> \in Seq(Files)
  BY TaskIs
<1>2. k \in Task /\ k.pc = pc /\ k.name = task[d].name /\ k.temp = task[d].temp
  BY <1>1 DEF Task, Staging
<1>3. task' = [task EXCEPT ![d] = k]
  BY DEF To
<1> QED
  BY <1>2, <1>3

\* A worker that goes on to another program counter and leaves the directory alone.
LEMMA MoveDone ==
  ASSUME Good, NEW d \in Dialogs, NEW pc \in {"publish", "cleanup", "failed"}, To(d, pc),
         task[d].pc # "none", pc = "failed" <=> task[d].temp = Nothing,
         pc = "publish" => root[task[d].temp] \in Acceptable,
         UNCHANGED <<root, known, busy, rows, finished, adrift>>
  PROVE  Done
<1>1. PICK k \in Task : /\ task' = [task EXCEPT ![d] = k]
                        /\ k.pc = pc /\ k.name = task[d].name /\ k.temp = task[d].temp
  BY MoveIs
<1>2. Consistent(root, task[d]) /\ busy[d]
  BY TaskIs
<1>3. Consistent(root', k)
  BY <1>1, <1>2 DEF Consistent, Staging
<1>4. task[d].temp # Nothing => task[d].temp \in adrift' \cup {k.temp}
  BY <1>1
<1> QED
  BY <1>1, <1>2, <1>3, <1>4, TaskIs, WorkStep

LEMMA AcceptDone ==
  ASSUME Good, NEW d \in Dialogs, Accept(d)
  PROVE  Done
<1> DEFINE pc == IF root[task[d].temp] \in Acceptable /\ root[task[d].name] = Nothing
                 THEN "publish" ELSE "cleanup"
<1>1. /\ To(d, pc) /\ task[d].pc = "copy" /\ pc \in {"publish", "cleanup", "failed"}
      /\ pc # "failed" /\ (pc = "publish" => root[task[d].temp] \in Acceptable)
      /\ UNCHANGED <<root, known, busy, rows, finished, adrift>>
  BY DEF Accept, At, directory
<1>2. task[d].temp # Nothing
  BY <1>1, TaskIs DEF Consistent, Staging
<1> HIDE DEF pc
<1> QED
  BY <1>1, <1>2, MoveDone

LEMMA BreakDone ==
  ASSUME Good, NEW d \in Dialogs, Break(d)
  PROVE  Done
<1> DEFINE pc == IF task[d].temp = Nothing THEN "failed" ELSE "cleanup"
<1>1. /\ To(d, pc) /\ task[d].pc # "none" /\ pc \in {"publish", "cleanup", "failed"}
      /\ (pc = "failed" <=> task[d].temp = Nothing) /\ pc # "publish"
      /\ UNCHANGED <<root, known, busy, rows, finished, adrift>>
  BY DEF Break, directory
<1> HIDE DEF pc
<1> QED
  BY <1>1, MoveDone

LEMMA CleanUpDone ==
  ASSUME Good, NEW d \in Dialogs, CleanUp(d)
  PROVE  Done
<1> DEFINE c == task[d]
           t == c.temp
           k == [c EXCEPT !.pc = "failed", !.temp = Nothing]
<1>1. /\ c.pc = "cleanup" /\ task' = [task EXCEPT ![d].pc = "failed", ![d].temp = Nothing]
      /\ UNCHANGED <<known, busy, rows, finished>>
      /\ \/ root' = [root EXCEPT ![t] = Nothing] /\ adrift' = adrift
         \/ /\ \E rest \in Remains(root[t]) : root' = [root EXCEPT ![t] = rest]
            /\ adrift' = adrift \cup {t}
  BY DEF CleanUp, At
<1>2. c \in Task /\ Consistent(root, c)
  BY TaskIs
<1>3. c.name \in Names /\ t \in Temps /\ root[t] # Nothing /\ t # Nothing
  BY <1>1, <1>2 DEF Consistent, Staging, Task
<1>4. t \in Dirs /\ t \notin Names /\ root[t] \in AllBundles
  BY <1>3, TaskIs, ManagerAssumption DEF Dirs
<1>5. /\ k \in Task /\ k.pc = "failed" /\ k.temp = Nothing /\ k.name = c.name
  BY <1>2 DEF Task
<1>6. task' = [task EXCEPT ![d] = k]
  BY <1>1
<1> HIDE DEF k
<1>7. PICK b \in AllBundles \cup {Nothing} :
        root' = [root EXCEPT ![t] = b] /\ adrift' \in {adrift, adrift \cup {t}}
        /\ (b # Nothing => t \in adrift')
  BY <1>1, <1>4, RemainsAre
<1>8. /\ root' \in [Dirs -> AllBundles \cup {Nothing}] /\ root'[t] = b
      /\ \A x \in Dirs : x # t => root'[x] = root[x]
  BY <1>4, <1>7, TaskIs
<1>9. Consistent(root', k)
  BY <1>3, <1>5 DEF Consistent, Staging
<1>10. /\ \A n \in Names : root'[n] = root[n]
       /\ \A x \in Temps : x \notin {c.temp, k.temp} => root'[x] = root[x]
  BY <1>4, <1>8 DEF Dirs
<1>11. busy[d] /\ k.pc # "none"
  BY <1>1, <1>5, TaskIs
<1>12. adrift \subseteq adrift' /\ adrift' \subseteq Temps
  BY <1>3, <1>7, TaskIs
<1>13. k.temp \in {Nothing, task[d].temp} /\ (root'[c.temp] # Nothing => c.temp \in adrift')
  BY <1>5, <1>7, <1>8
<1>14. UNCHANGED <<known, busy, rows, finished>> /\ root' \in [Dirs -> AllBundles \cup {Nothing}]
  BY <1>1, <1>8
<1> HIDE DEF c, t
<1> QED
  BY <1>5, <1>6, <1>9, <1>10, <1>11, <1>12, <1>13, <1>14, WorkStep DEF c

LEMMA PublishDone ==
  ASSUME Good, NEW d \in Dialogs, Publish(d)
  PROVE  Done
<1> DEFINE c == task[d]
           n == c.name
           t == c.temp
           k == [c EXCEPT !.pc = "published", !.temp = Nothing]
<1>1. /\ c.pc = "publish" /\ c \in Task /\ Consistent(root, c) /\ busy[d]
      /\ UNCHANGED <<known, busy, rows, finished, adrift>>
  BY TaskIs DEF Publish, At
<1>2. n \in Names /\ t \in Temps /\ t # Nothing /\ root[t] \in Acceptable
  BY <1>1 DEF Consistent, Staging, Task
<1>3. n \in Dirs /\ t \in Dirs /\ n \notin Temps /\ t \notin Names /\ n # t
  BY <1>2, ManagerAssumption DEF Dirs
<1>4. CASE root[n] \in {Nothing, NoFiles}
  <2>1. /\ root' = [root EXCEPT ![n] = root[t], ![t] = Nothing]
        /\ task' = [task EXCEPT ![d].pc = "published", ![d].temp = Nothing]
    BY <1>4 DEF Publish
  <2>2. /\ root' \in [Dirs -> AllBundles \cup {Nothing}] /\ root'[n] = root[t] /\ root'[t] = Nothing
        /\ \A x \in Dirs : x \notin {n, t} => root'[x] = root[x]
    BY <2>1, <1>3, TaskIs
  <2>3. k \in Task /\ k.pc = "published" /\ k.temp = Nothing /\ k.name = n
    BY <1>1 DEF Task
  <2>4. task' = [task EXCEPT ![d] = k]
    BY <2>1
  <2> HIDE DEF k
  <2>5. task'[d] = k /\ task' \in [Dialogs -> Task]
        /\ \A e \in Dialogs : e # d => task'[e] = task[e]
    BY <2>3, <2>4, TaskIs
  <2>6. Consistent(root', k)
    BY <1>2, <2>3 DEF Consistent, Staging
  <2>7. n \notin finished /\ finished \subseteq Names
    BY <1>4 DEF Good, Typed
  <2>8. \A m \in finished' : root'[m] = root[m]
    BY <1>1, <1>3, <2>2, <2>7 DEF Dirs
  <2>9. /\ finished' \subseteq Names /\ \A m \in finished' : root'[m] \notin {Nothing, NoFiles}
        /\ FinishedIsKnown'
    BY <1>1, <2>8, StillKnown
  <2>10. \A x \in Temps : x \notin {t, k.temp} => root'[x] = root[x]
    BY <1>3, <2>2 DEF Dirs
  <2>11. /\ known' \in [selected : Selections, failed : BOOLEAN]
         /\ rows' \in [Dialogs -> SUBSET Selections] /\ busy' \in [Dialogs -> BOOLEAN]
         /\ adrift \subseteq adrift' /\ adrift' \subseteq Temps
    BY <1>1, TaskIs
  <2>12. Published
    BY <1>2, <1>3, <1>4, <2>2 DEF Published, Dirs
  <2> HIDE DEF c, n, t
  <2>13. Good'
    BY <1>1, <2>2, <2>3, <2>5, <2>6, <2>9, <2>10, <2>11, ImportStep DEF c, t
  <2> QED
    BY <2>12, <2>13 DEF Done
<1>5. CASE root[n] \notin {Nothing, NoFiles}
  <2>1. To(d, "cleanup") /\ root' = root
    BY <1>5 DEF Publish
  <2> QED
    BY <1>1, <1>2, <2>1, MoveDone
<1> QED
  BY <1>4, <1>5

LEMMA OnImportCompletedDone ==
  ASSUME Good, NEW d \in Dialogs, OnImportCompleted(d)
  PROVE  Done
<1> DEFINE c == task[d]
<1>1. /\ c.pc \in {"published", "failed"} /\ c \in Task /\ Consistent(root, c)
      /\ task' = [task EXCEPT ![d] = NoTask] /\ busy' = [busy EXCEPT ![d] = FALSE]
      /\ UNCHANGED <<root, adrift>>
  BY TaskIs DEF OnImportCompleted
<1>2. c.temp = Nothing /\ c.name \in Names
  BY <1>1 DEF Consistent, Staging
<1>3. /\ NoTask \in Task /\ NoTask.pc = "none" /\ NoTask.temp = Nothing /\ Consistent(root, NoTask)
  BY DEF NoTask, Task, Consistent, Staging
<1>4. /\ task'[d] = NoTask /\ task' \in [Dialogs -> Task]
      /\ busy' \in [Dialogs -> BOOLEAN] /\ busy'[d] = FALSE
      /\ \A e \in Dialogs : e # d => task'[e] = task[e] /\ busy'[e] = busy[e]
  BY <1>1, <1>3, TaskIs
<1>5. /\ known' \in [selected : Selections, failed : BOOLEAN]
      /\ rows' \in [Dialogs -> SUBSET Selections]
      /\ finished' \subseteq Names /\ \A n \in finished' : root'[n] \notin {Nothing, NoFiles}
      /\ FinishedIsKnown'
  <2>1. CASE c.pc = "failed"
    <3>1. UNCHANGED <<known, rows, finished>>
      BY <2>1 DEF OnImportCompleted
    <3> QED
      BY <1>1, <3>1, TaskIs, StillKnown
  <2>2. CASE c.pc = "published"
    <3>1. PICK k \in Discoveries : known' = k /\ rows' = [rows EXCEPT ![d] = RowsFor(k.selected)]
      BY <2>2 DEF OnImportCompleted, Rediscover
    <3>2. finished' = IF root[c.name] \in {Nothing, NoFiles} THEN finished
                      ELSE finished \cup {c.name}
      BY <2>2 DEF OnImportCompleted
    <3>3. known' \in [selected : Selections, failed : BOOLEAN]
          /\ rows' \in [Dialogs -> SUBSET Selections] /\ (known'.failed \/ known'.selected = Discovered)
      BY <3>1, DiscoveryIs, TaskIs
    <3>4. finished' \subseteq Names /\ finished \subseteq Names
          /\ \A n \in finished' : n \in finished \/ root[n] \notin {Nothing, NoFiles}
      BY <1>2, <3>2 DEF Good, Typed
    <3> QED
      BY <1>1, <3>3, <3>4, KnownAgain
  <2> QED
    BY <1>1, <2>1, <2>2
<1>6. \A t \in Temps : root'[t] = root[t]
  BY <1>1
<1> HIDE DEF c
<1>7. Good'
  BY <1>1, <1>2, <1>3, <1>4, <1>5, <1>6, TaskIs, ImportStep DEF c
<1> QED
  BY <1>1, <1>7 DEF Done, Published

\* A handler that at most discovers.
LEMMA LookDone ==
  ASSUME Good, UNCHANGED <<busy, task, directory>>,
         known' \in [selected : Selections, failed : BOOLEAN],
         known' = known \/ known'.failed \/ known'.selected = Discovered,
         rows' \in [Dialogs -> SUBSET Selections]
  PROVE  Done
<1>1. UNCHANGED <<root, finished, adrift>> /\ finished \subseteq Names
  BY DEF directory, Good, Typed
<1>2. /\ finished' \subseteq Names /\ \A n \in finished' : root'[n] \notin {Nothing, NoFiles}
      /\ FinishedIsKnown'
  <2>1. CASE known' = known
    BY <1>1, <2>1, StillKnown
  <2>2. CASE known'.failed \/ known'.selected = Discovered
    BY <1>1, <2>2, KnownAgain
  <2> QED
    BY <2>1, <2>2
<1>3. root' \in [Dirs -> AllBundles \cup {Nothing}] /\ \A t \in Temps : root'[t] = root[t]
  BY <1>1 DEF Good, Typed
<1>4. Good'
  BY <1>1, <1>2, <1>3, BundleStep
<1> QED
  BY <1>1, <1>4 DEF Done, Published

LEMMA RediscoverIs ==
  ASSUME Good, NEW d \in Dialogs, Rediscover(d)
  PROVE  /\ known' \in [selected : Selections, failed : BOOLEAN]
         /\ known'.failed \/ known'.selected = Discovered
         /\ rows' \in [Dialogs -> SUBSET Selections]
<1>1. PICK k \in Discoveries : known' = k /\ rows' = [rows EXCEPT ![d] = RowsFor(k.selected)]
  BY DEF Rediscover
<1> QED
  BY <1>1, DiscoveryIs DEF Good, Typed

LEMMA LooksDone ==
  ASSUME Good, NEW d \in Dialogs,
         Refresh(d) \/ RemoveSelected(d) \/ Answer(d) \/ Removed(d)
  PROVE  Done
<1>1. CASE Refresh(d)
  BY <1>1, RediscoverIs, LookDone DEF Refresh
<1>2. CASE RemoveSelected(d)
  BY <1>2, LookDone DEF RemoveSelected, Good, Typed
<1>3. CASE Answer(d)
  BY <1>3, LookDone DEF Answer, Good, Typed
<1>4. CASE Removed(d)
  <2>1. UNCHANGED <<busy, task, directory>> /\ (Rediscover(d) \/ UNCHANGED <<known, rows>>)
    BY <1>4 DEF Removed
  <2>2. CASE Rediscover(d)
    BY <2>1, <2>2, RediscoverIs, LookDone
  <2>3. CASE UNCHANGED <<known, rows>>
    BY <2>1, <2>3, LookDone DEF Good, Typed
  <2> QED
    BY <2>1, <2>2, <2>3
<1> QED
  BY <1>1, <1>2, <1>3, <1>4

LEMMA HostRefreshDone ==
  ASSUME Good, HostRefresh
  PROVE  Done
<1>1. known' \in Discoveries /\ UNCHANGED <<busy, task, rows, directory>>
  BY DEF HostRefresh
<1> QED
  BY <1>1, DiscoveryIs, LookDone DEF Good, Typed

\* A step of a removal that leaves b of the bundle n.
LEMMA RemovalStep ==
  ASSUME Good, NEW d \in Dialogs, Removing(d), NEW n \in Names, n = Head(removal[d].todo),
         NEW b \in AllBundles \cup {Nothing}, root' = [root EXCEPT ![n] = b],
         finished' = finished \ {n}, UNCHANGED <<known, busy, task, rows, adrift>>
  PROVE  Done
<1>1. n \in Dirs /\ n \notin Temps /\ finished \subseteq Names /\ finished' \subseteq finished
  BY ManagerAssumption DEF Dirs, Good, Typed
<1>2. /\ root' \in [Dirs -> AllBundles \cup {Nothing}]
      /\ \A x \in Dirs : x # n => root'[x] = root[x]
  BY <1>1, TaskIs
<1>3. /\ \A t \in Temps : root'[t] = root[t]
      /\ \A m \in finished' : root'[m] = root[m]
  BY <1>1, <1>2 DEF Dirs
<1>4. /\ finished' \subseteq Names /\ \A m \in finished' : root'[m] \notin {Nothing, NoFiles}
      /\ FinishedIsKnown'
  BY <1>1, <1>3, StillKnown
<1>5. Good'
  BY <1>2, <1>3, <1>4, TaskIs, BundleStep
<1>6. Published
  BY <1>2 DEF Published, Dirs
<1> QED
  BY <1>5, <1>6 DEF Done

LEMMA RemoveBundleDone ==
  ASSUME Good, NEW d \in Dialogs, RemoveBundle(d)
  PROVE  Done
<1> DEFINE n == Head(removal[d].todo)
<1>1. Removing(d) /\ UNCHANGED <<known, busy, task, rows, adrift>>
  BY DEF RemoveBundle
<1>2. CASE n \in Temps
  <2>1. UNCHANGED <<root, finished>>
    BY <1>2 DEF RemoveBundle
  <2> QED
    BY <1>1, <2>1, LookDone DEF directory, Good, Typed
<1>3. CASE n \notin Temps
  <2>1. root' = [root EXCEPT ![n] = Nothing] /\ finished' = finished \ {n}
    BY <1>3 DEF RemoveBundle
  <2>2. CASE n \in Names
    BY <1>1, <2>1, <2>2, RemovalStep
  <2>3. CASE n \notin Names
    <3>1. n \notin Dirs
      BY <1>3, <2>3 DEF Dirs
    <3>2. root' = root /\ finished' = finished
      BY <2>1, <2>3, <3>1, TaskIs DEF Good, Typed
    <3> QED
      BY <1>1, <3>2, LookDone DEF directory, Good, Typed
  <2> QED
    BY <2>2, <2>3
<1> QED
  BY <1>2, <1>3

LEMMA RemoveFailsDone ==
  ASSUME Good, NEW d \in Dialogs, RemoveFails(d)
  PROVE  Done
<1> DEFINE n == Head(removal[d].todo)
<1>1. /\ Removing(d) /\ n \in Names /\ root[n] # Nothing /\ finished' = finished \ {n}
      /\ UNCHANGED <<known, busy, task, rows, adrift>>
  BY DEF RemoveFails
<1>2. PICK rest \in Remains(root[n]) : root' = [root EXCEPT ![n] = rest]
  BY DEF RemoveFails
<1>3. root[n] \in AllBundles
  BY <1>1, TaskIs DEF Dirs
<1>4. rest \in AllBundles
  BY <1>3, RemainsAre
<1> QED
  BY <1>1, <1>2, <1>4, RemovalStep

LEMMA RestartDone ==
  ASSUME Good, Restart
  PROVE  Done
<1> DEFINE left == {t \in Temps : root[t] # Nothing}
<1>1. /\ busy' = [d \in Dialogs |-> FALSE] /\ task' = [d \in Dialogs |-> NoTask]
      /\ known' = [selected |-> Discovered, failed |-> FALSE]
      /\ rows' = [d \in Dialogs |-> RowsFor(Discovered)]
      /\ adrift' = left /\ UNCHANGED <<root, finished>>
  BY DEF Restart
<1>2. /\ NoTask \in Task /\ NoTask.pc = "none" /\ NoTask.temp = Nothing /\ Consistent(root, NoTask)
  BY DEF NoTask, Task, Consistent, Staging
<1> DEFINE s == Discovered
<1>3. s \in Selections /\ RowsFor(s) \in SUBSET Selections
  BY DiscoveredIs, RowsAre
<1> HIDE DEF s
<1>4. known' = [selected |-> s, failed |-> FALSE] /\ rows' = [d \in Dialogs |-> RowsFor(s)]
  BY <1>1 DEF s
<1>5. /\ known' \in [selected : Selections, failed : BOOLEAN] /\ known'.selected = Discovered
      /\ rows' \in [Dialogs -> SUBSET Selections]
  <2>1. known'.selected = s /\ known' \in [selected : Selections, failed : BOOLEAN]
    BY <1>3, <1>4
  <2> QED
    BY <1>3, <1>4, <2>1 DEF s
<1>6. /\ finished' \subseteq Names /\ \A n \in finished' : root'[n] \notin {Nothing, NoFiles}
      /\ FinishedIsKnown'
  BY <1>1, <1>5, KnownAgain DEF Good, Typed
<1>7. /\ busy' \in [Dialogs -> BOOLEAN] /\ task' \in [Dialogs -> Task] /\ adrift' \subseteq Temps
      /\ root' \in [Dirs -> AllBundles \cup {Nothing}]
  BY <1>1, <1>2 DEF Good, Typed
<1>8. Typed'
  BY <1>5, <1>6, <1>7 DEF Typed
<1>9. \A d \in Dialogs : task'[d] = NoTask /\ busy'[d] = FALSE
  BY <1>1
<1>10. \A d \in Dialogs : Consistent(root', task'[d]) /\ (busy'[d] <=> task'[d].pc # "none")
  BY <1>1, <1>2, <1>9
<1>11. StagingIsAnswered'
  BY <1>1, <1>2, <1>9 DEF StagingIsAnswered
<1>12. Good'
  BY <1>6, <1>8, <1>10, <1>11 DEF Good
<1> QED
  BY <1>1, <1>12 DEF Done, Published

-----------------------------------------------------------------------------
(* The theorems.                                                            *)

LEMMA InitGood == Init => Good
<1> SUFFICES ASSUME Init PROVE Good
  OBVIOUS
<1>1. /\ root = [x \in Dirs |-> Nothing] /\ known = [selected |-> NothingKnown, failed |-> FALSE]
      /\ busy = [d \in Dialogs |-> FALSE] /\ task = [d \in Dialogs |-> NoTask]
      /\ rows = [d \in Dialogs |-> {}] /\ finished = {} /\ adrift = {}
  BY DEF Init
<1>2. /\ NoTask \in Task /\ NoTask.pc = "none" /\ NoTask.temp = Nothing /\ Consistent(root, NoTask)
  BY DEF NoTask, Task, Consistent, Staging
<1>3. NothingKnown \in Selections
  BY DEF NothingKnown, Selections
<1> HIDE DEF NothingKnown, Selections
<1>4. known \in [selected : Selections, failed : BOOLEAN]
  BY <1>1, <1>3
<1>5. Typed
  BY <1>1, <1>2, <1>4 DEF Typed
<1>6. \A d \in Dialogs : task[d] = NoTask /\ busy[d] = FALSE
  BY <1>1
<1>7. StagingIsAnswered
  BY <1>1, <1>2, <1>6 DEF StagingIsAnswered, Dirs
<1>8. FinishedIsKnown
  BY <1>1 DEF FinishedIsKnown
<1> QED
  BY <1>1, <1>2, <1>5, <1>6, <1>7, <1>8 DEF Good

LEMMA StepGood == Good /\ [Next]_vars => Good' /\ Published
<1> SUFFICES ASSUME Good, [Next]_vars PROVE Done
  BY DEF Done
<1>1. CASE UNCHANGED vars
  <2>1. UNCHANGED <<busy, task, directory>> /\ known' = known /\ rows' = rows
    BY <1>1 DEF vars, directory
  <2> QED
    BY <2>1, LookDone DEF Good, Typed
<1>2. ASSUME NEW d \in Dialogs, ImportFiles(d) \/ ChangeSource(d) \/ Work(d) \/ OnImportCompleted(d)
      PROVE  Done
  BY <1>2, ImportFilesDone, ChangeSourceDone, StageDone, CopyDone, AcceptDone, PublishDone,
     BreakDone, CleanUpDone, OnImportCompletedDone DEF Work
<1>3. ASSUME NEW d \in Dialogs,
             GoOn(d) \/ Refresh(d) \/ RemoveSelected(d) \/ Answer(d) \/ RemoveFails(d)
      PROVE  Done
  BY <1>3, RemoveBundleDone, RemoveFailsDone, LooksDone DEF GoOn
<1> QED
  BY <1>1, <1>2, <1>3, HostRefreshDone, RestartDone DEF Next

LEMMA AlwaysGood == Spec => []Good
<1>1. Init => Good
  BY InitGood
<1>2. Good /\ [Next]_vars => Good'
  BY StepGood
<1> QED
  BY <1>1, <1>2, PTL DEF Spec

\* Every reachable state of the dialogs, their workers and the directory has the types
\* of TypeOK: a worker that stages has its directory, a dialog is busy exactly while
\* it has a task.
THEOREM ManagerTypes == Spec => []TypeOK
<1>1. Good => TypeOK
  <2> SUFFICES ASSUME Good PROVE TypeOK
    OBVIOUS
  <2>1. ASSUME NEW d \in Dialogs
        PROVE  /\ task[d].pc \in {"none", "check", "copy", "publish", "cleanup", "published", "failed"}
               /\ task[d].temp \in Temps \cup {Nothing}
               /\ task[d].pc \in {"copy", "publish", "cleanup"} => root[task[d].temp] # Nothing
               /\ busy[d] <=> task[d] # NoTask
               /\ rows[d] \subseteq [Components -> Dirs \cup {Nothing}]
    <3>1. NoTask.pc = "none"
      BY DEF NoTask
    <3> QED
      BY <3>1, TaskIs DEF Task, Consistent, Staging, Selections
  <2> QED
    BY <2>1 DEF Good, Typed, TypeOK, Selections
<1> QED
  BY <1>1, AlwaysGood, PTL

\* However many dialogs import at once, whatever fails and whenever the program is
\* killed, a staging directory that is there has one worker that will publish or
\* remove it, unless removing it failed or it was left by a kill.
THEOREM StagingHasItsWorker == Spec => []StagingIsAnswered
<1>1. Good => StagingIsAnswered
  BY DEF Good
<1> QED
  BY <1>1, AlwaysGood, PTL

\* A bundle that was announced and is still there is known to the registry, unless
\* the last discovery failed: each completion discovers after its bundle is
\* published, and no import replaces one that has files.
THEOREM AnnouncedIsKnown == Spec => []FinishedIsKnown
<1>1. Good => FinishedIsKnown
  BY DEF Good
<1> QED
  BY <1>1, AlwaysGood, PTL

\* A bundle appears in one step, whole and acceptable, where there was none, and else
\* changes only by a removal of it, for any number of dialogs and faults.
THEOREM ImportsAreAtomic == Spec => PublicationIsAtomic
<1>1. Init => Good
  BY InitGood
<1>2. Good /\ [Next]_vars => Good' /\ [Published]_vars
  BY StepGood
<1> QED
  BY <1>1, <1>2, PTL DEF Spec, PublicationIsAtomic, Published

\* No worker is staging an import and none has left anything behind, whenever what is
\* discovered changes: what the code does not see to.
TidyDiscoveries ==
  [][known' # known => adrift = {} /\ \A d \in Dialogs : task[d].pc \notin Staging]_vars

\* Then the promise about published bundles holds: a staging directory becomes
\* known only through a discovery made while an import is staging, or after one that could
\* not clean up (the run ManagerStaging shows the first).
THEOREM TidyDiscoveriesKnowBundles == Spec /\ TidyDiscoveries => []OnlyPublishedIsKnown
<1>1. Init => OnlyPublishedIsKnown
  BY ManagerAssumption DEF Init, OnlyPublishedIsKnown, NothingKnown, Dirs
<1>2. ASSUME Good, [Next]_vars, OnlyPublishedIsKnown,
             [known' # known => adrift = {} /\ \A d \in Dialogs : task[d].pc \notin Staging]_vars
      PROVE  OnlyPublishedIsKnown'
  <2> SUFFICES ASSUME known' # known, NEW c \in Components PROVE known'.selected[c] \notin Temps
    BY <1>2 DEF OnlyPublishedIsKnown
  <2>1. adrift = {} /\ \A d \in Dialogs : task[d].pc \notin Staging
    BY <1>2 DEF vars
  <2>2. ASSUME NEW x \in Temps PROVE root[x] = Nothing
    <3>1. \A d \in Dialogs : task[d].temp = Nothing
      BY <1>2, <2>1 DEF Good, Consistent
    <3>2. x # Nothing
      BY ManagerAssumption DEF Dirs
    <3> QED
      BY <1>2, <2>1, <3>1, <3>2 DEF Good, StagingIsAnswered
  <2>3. Discovered[c] \notin Temps
    <3>1. CASE Offering(c) = {}
      BY <3>1, ManagerAssumption DEF Discovered, Dirs
    <3>2. CASE Offering(c) # {}
      <4>1. DOMAIN Order \subseteq Nat
        BY OrderLists
      <4>2. Min(Offering(c)) \in Offering(c)
        BY <3>2, <4>1, LeastIs DEF Offering
      <4>3. root[Discovered[c]] # Nothing
        BY <3>2, <4>2 DEF Discovered, Offering
      <4> QED
        BY <2>2, <4>3
    <3> QED
      BY <3>1, <3>2
  <2>4. NothingKnown[c] \notin Temps
    BY ManagerAssumption DEF NothingKnown, Dirs
  <2>5. known' \in Discoveries \/ known' = [selected |-> Discovered, failed |-> FALSE]
    <3>1. ASSUME NEW d \in Dialogs PROVE Rediscover(d) => known' \in Discoveries
      BY DEF Rediscover
    <3>2. ASSUME NEW d \in Dialogs,
                 ImportFiles(d) \/ ChangeSource(d) \/ Work(d) \/ OnImportCompleted(d)
          PROVE  known' \in Discoveries
      BY <3>1, <3>2 DEF ImportFiles, ChangeSource, Work, Stage, Copy, Accept, Publish, Break,
         CleanUp, OnImportCompleted
    <3>3. ASSUME NEW d \in Dialogs,
                 GoOn(d) \/ Refresh(d) \/ RemoveSelected(d) \/ Answer(d) \/ RemoveFails(d)
          PROVE  known' \in Discoveries
      BY <3>1, <3>3 DEF GoOn, RemoveBundle, Removed, Refresh, RemoveSelected, Answer, RemoveFails
    <3>4. HostRefresh => known' \in Discoveries
      BY DEF HostRefresh
    <3>5. Restart => known' = [selected |-> Discovered, failed |-> FALSE]
      BY DEF Restart
    <3> QED
      BY <1>2, <3>2, <3>3, <3>4, <3>5 DEF Next, vars
  <2>6. known'.selected \in {Discovered, NothingKnown}
    BY <2>5 DEF Discoveries
  <2> QED
    BY <2>3, <2>4, <2>6
<1> QED
  BY <1>1, <1>2, AlwaysGood, PTL DEF Spec, TidyDiscoveries

-----------------------------------------------------------------------------
(* The reports on a bundle.                                                 *)

Codes == {"aff_exists", "dic_exists", "dat_exists", "idx_exists", "encoding_declaration",
          "dictionary_decoding", "entry_count", "engine_load", "representative_words",
          "index_count", "sampled_offsets", "representative_entries"}
Statuses == {"PASS", "WARNING", "FAIL"}
Reported == [code : Codes, status : Statuses]

LEMMA FailsIn ==
  ASSUME NEW checks
  PROVE  /\ Fails(checks) <=> \E x \in Range(checks) : x.status = "FAIL"
         /\ Warns(checks) <=> \E x \in Range(checks) : x.status = "WARNING"
BY DEF Fails, Warns, Range

LEMMA CheckIs ==
  ASSUME NEW code \in Codes, NEW status \in Statuses
  PROVE  /\ Check(code, status) \in Seq(Reported)
         /\ Fails(Check(code, status)) <=> status = "FAIL"
         /\ Warns(Check(code, status)) <=> status = "WARNING"
<1> DEFINE x == [code |-> code, status |-> status]
<1>1. x \in Reported /\ x.status = status
  BY DEF Reported
<1>2. Check(code, status) = <<x>>
  BY DEF Check
<1> HIDE DEF x
<1>3. <<x>> \in Seq(Reported) /\ DOMAIN <<x>> = {1} /\ <<x>>[1] = x
  BY <1>1
<1> QED
  BY <1>1, <1>2, <1>3 DEF Fails, Warns

LEMMA BothChecks ==
  ASSUME NEW a \in Seq(Reported), NEW b \in Seq(Reported)
  PROVE  /\ a \o b \in Seq(Reported)
         /\ Fails(a \o b) <=> Fails(a) \/ Fails(b)
         /\ Warns(a \o b) <=> Warns(a) \/ Warns(b)
<1>1. a \o b \in Seq(Reported) /\ Range(a \o b) = Range(a) \cup Range(b)
  BY ConcatRange
<1> QED
  BY <1>1, FailsIn

LEMMA NoChecks == <<>> \in Seq(Reported) /\ ~Fails(<<>>) /\ ~Warns(<<>>)
BY DEF Fails, Warns

LEMMA CodesAre ==
  /\ "aff_exists" \in Codes /\ "dic_exists" \in Codes /\ "dat_exists" \in Codes
  /\ "idx_exists" \in Codes /\ "encoding_declaration" \in Codes
  /\ "dictionary_decoding" \in Codes /\ "entry_count" \in Codes /\ "engine_load" \in Codes
  /\ "representative_words" \in Codes /\ "index_count" \in Codes
  /\ "sampled_offsets" \in Codes /\ "representative_entries" \in Codes
BY DEF Codes

\* All checks together.
LEMMA AllChecks ==
  ASSUME NEW reports \in Seq(Seq(Reported))
  PROVE  /\ FlattenSeq(reports) \in Seq(Reported)
         /\ Fails(FlattenSeq(reports)) <=> \E i \in DOMAIN reports : Fails(reports[i])
         /\ Warns(FlattenSeq(reports)) <=> \E i \in DOMAIN reports : Warns(reports[i])
<1>1. /\ FlattenSeq(reports) \in Seq(Reported)
      /\ Range(FlattenSeq(reports)) = UNION {Range(reports[i]) : i \in DOMAIN reports}
  BY FlattenIs
<1>2. \A i \in DOMAIN reports : /\ Fails(reports[i]) <=> \E x \in Range(reports[i]) : x.status = "FAIL"
                                /\ Warns(reports[i]) <=> \E x \in Range(reports[i]) : x.status = "WARNING"
  BY FailsIn
<1>3. Fails(FlattenSeq(reports)) <=> \E x \in Range(FlattenSeq(reports)) : x.status = "FAIL"
  BY FailsIn
<1>4. Warns(FlattenSeq(reports)) <=> \E x \in Range(FlattenSeq(reports)) : x.status = "WARNING"
  BY FailsIn
<1> QED
  BY <1>1, <1>2, <1>3, <1>4

\* A stage that fails is reported, and hides no failure but the later ones.
LEMMA UpToFailureIs ==
  ASSUME NEW stages \in Seq(Seq(Reported))
  PROVE  /\ UpToFailure(stages) \in Seq(Reported)
         /\ Fails(UpToFailure(stages)) <=> \E i \in 1..Len(stages) : Fails(stages[i])
         /\ ~Fails(UpToFailure(stages)) =>
              (Warns(UpToFailure(stages)) <=> \E i \in 1..Len(stages) : Warns(stages[i]))
<1> DEFINE n == Len(stages)
           Before(i) == \A j \in 1..(i - 1) : ~Fails(stages[j])
           made == [i \in 1..n |-> IF Before(i) THEN stages[i] ELSE <<>>]
<1>1. n \in Nat /\ \A i \in 1..n : stages[i] \in Seq(Reported)
  OBVIOUS
<1>2. <<>> \in Seq(Reported) /\ ~Fails(<<>>) /\ ~Warns(<<>>)
  BY NoChecks
<1>3. made \in Seq(Seq(Reported)) /\ DOMAIN made = 1..n
  <2>1. \A i \in 1..n : made[i] \in Seq(Reported)
    BY <1>1, <1>2
  <2> HIDE DEF n
  <2>2. made \in [1..n -> Seq(Reported)]
    BY <2>1
  <2> QED
    BY <1>1, <2>2
<1>4. UpToFailure(stages) = FlattenSeq(made)
  BY DEF UpToFailure
<1>5. \A i \in 1..n : made[i] = IF Before(i) THEN stages[i] ELSE <<>>
  OBVIOUS
<1> HIDE DEF made
<1>6. /\ FlattenSeq(made) \in Seq(Reported)
      /\ Fails(FlattenSeq(made)) <=> \E i \in 1..n : Fails(made[i])
      /\ Warns(FlattenSeq(made)) <=> \E i \in 1..n : Warns(made[i])
  BY <1>3, AllChecks
<1>7. ASSUME NEW i \in 1..n, Fails(stages[i]) PROVE \E j \in 1..n : Fails(made[j])
  <2> DEFINE failing == {j \in 1..n : Fails(stages[j])}
  <2>1. failing \in SUBSET Nat /\ failing # {}
    BY <1>1, <1>7
  <2>2. PICK m \in failing : \A k \in failing : m <= k
    BY <2>1, LeastExists
  <2>3. m \in 1..n /\ Fails(stages[m])
    BY <2>2
  <2>4. ASSUME NEW j \in 1..(m - 1) PROVE ~Fails(stages[j])
    <3>1. j \in 1..n /\ ~(m <= j)
      BY <1>1, <2>3
    <3> QED
      BY <2>2, <3>1
  <2>5. Before(m)
    BY <2>4
  <2> QED
    BY <1>5, <2>3, <2>5
<1>8. (\E i \in 1..n : Fails(made[i])) <=> \E i \in 1..n : Fails(stages[i])
  BY <1>2, <1>5, <1>7
<1>9. ASSUME ~\E i \in 1..n : Fails(stages[i]), NEW i \in 1..n PROVE made[i] = stages[i]
  <2>1. \A j \in 1..(i - 1) : j \in 1..n
    BY <1>1
  <2> QED
    BY <1>5, <1>9, <2>1
<1> QED
  BY <1>4, <1>6, <1>8, <1>9

\* Whether a component is complete and its engine can use it is all that makes its report
\* a failure, beside the words of the caller; and every other defect is a warning.
LEMMA SpellingReport ==
  ASSUME NEW b, NEW requested \in {"none", "accepted", "rejected"}
  PROVE  LET checks == SpellingChecks(b, requested) IN
         /\ checks \in Seq(Reported)
         /\ Fails(checks) <=> \/ "aff" \notin DOMAIN b \/ "dic" \notin DOMAIN b
                              \/ ~EngineOpens(b, "spelling") \/ requested = "rejected"
         /\ ~Fails(checks) =>
              (Warns(checks) <=> \/ Is(b, "aff", {"no SET"})
                                 \/ Is(b, "dic", {"undecodable", "uncounted", "miscounted"})
                                 \/ requested = "none" /\ Is(b, "dic", {"rootless"}))
<1> DEFINE s1 == PassIf("aff" \in DOMAIN b)
           s2 == PassIf("dic" \in DOMAIN b)
           s3 == IF Is(b, "aff", {"unknown codec"}) THEN "FAIL"
                 ELSE WarnUnless(~Is(b, "aff", {"no SET"}))
           s4 == WarnUnless(~Is(b, "dic", {"undecodable"}))
           s5 == WarnUnless(~Is(b, "dic", {"uncounted", "miscounted"}))
           s6 == PassIf(~Is(b, "aff", {"unloadable"}))
           s7 == CASE requested = "rejected" -> "FAIL"
                   [] requested = "accepted" -> "PASS"
                   [] OTHER -> WarnUnless(~Is(b, "dic", {"rootless"}))
           c1 == Check("aff_exists", s1) \o Check("dic_exists", s2)
           c2 == Check("encoding_declaration", s3)
           c3 == Check("dictionary_decoding", s4) \o Check("entry_count", s5)
                   \o Check("engine_load", s6)
           c4 == Check("representative_words", s7)
           stages == <<c1, c2, c3, c4>>
<1>1. /\ s1 \in Statuses /\ s2 \in Statuses /\ s3 \in Statuses /\ s4 \in Statuses
      /\ s5 \in Statuses /\ s6 \in Statuses /\ s7 \in Statuses
  BY DEF PassIf, WarnUnless, Statuses
<1>2. /\ s1 = "FAIL" <=> "aff" \notin DOMAIN b
      /\ s2 = "FAIL" <=> "dic" \notin DOMAIN b
      /\ s3 = "FAIL" <=> Is(b, "aff", {"unknown codec"})
      /\ s4 # "FAIL" /\ s5 # "FAIL"
      /\ s6 = "FAIL" <=> Is(b, "aff", {"unloadable"})
      /\ s7 = "FAIL" <=> requested = "rejected"
  BY DEF PassIf, WarnUnless
<1>3. /\ s1 # "WARNING" /\ s2 # "WARNING"
      /\ s3 # "FAIL" => (s3 = "WARNING" <=> Is(b, "aff", {"no SET"}))
      /\ s4 = "WARNING" <=> Is(b, "dic", {"undecodable"})
      /\ s5 = "WARNING" <=> Is(b, "dic", {"uncounted", "miscounted"})
      /\ s6 # "WARNING"
      /\ s7 = "WARNING" <=> requested = "none" /\ Is(b, "dic", {"rootless"})
  BY DEF PassIf, WarnUnless
<1>4. SpellingChecks(b, requested) = UpToFailure(stages)
  BY DEF SpellingChecks
<1> HIDE DEF s1, s2, s3, s4, s5, s6, s7
<1>5. /\ c1 \in Seq(Reported) /\ (Fails(c1) <=> s1 = "FAIL" \/ s2 = "FAIL")
      /\ Warns(c1) <=> s1 = "WARNING" \/ s2 = "WARNING"
  <2> DEFINE x == Check("aff_exists", s1)
             y == Check("dic_exists", s2)
  <2>1. x \in Seq(Reported) /\ (Fails(x) <=> s1 = "FAIL") /\ (Warns(x) <=> s1 = "WARNING")
    BY <1>1, CodesAre, CheckIs
  <2>2. y \in Seq(Reported) /\ (Fails(y) <=> s2 = "FAIL") /\ (Warns(y) <=> s2 = "WARNING")
    BY <1>1, CodesAre, CheckIs
  <2>3. c1 = x \o y
    OBVIOUS
  <2> HIDE DEF x, y, c1
  <2> QED
    BY <2>1, <2>2, <2>3, BothChecks
<1>6. /\ c2 \in Seq(Reported) /\ (Fails(c2) <=> s3 = "FAIL")
      /\ Warns(c2) <=> s3 = "WARNING"
  BY <1>1, CodesAre, CheckIs
<1>7. /\ c3 \in Seq(Reported) /\ (Fails(c3) <=> s4 = "FAIL" \/ s5 = "FAIL" \/ s6 = "FAIL")
      /\ Warns(c3) <=> s4 = "WARNING" \/ s5 = "WARNING" \/ s6 = "WARNING"
  <2> DEFINE x == Check("dictionary_decoding", s4)
             y == Check("entry_count", s5)
             z == Check("engine_load", s6)
  <2>1. x \in Seq(Reported) /\ (Fails(x) <=> s4 = "FAIL") /\ (Warns(x) <=> s4 = "WARNING")
    BY <1>1, CodesAre, CheckIs
  <2>2. y \in Seq(Reported) /\ (Fails(y) <=> s5 = "FAIL") /\ (Warns(y) <=> s5 = "WARNING")
    BY <1>1, CodesAre, CheckIs
  <2>3. z \in Seq(Reported) /\ (Fails(z) <=> s6 = "FAIL") /\ (Warns(z) <=> s6 = "WARNING")
    BY <1>1, CodesAre, CheckIs
  <2>4. c3 = (x \o y) \o z
    OBVIOUS
  <2> HIDE DEF x, y, z, c3
  <2>5. /\ x \o y \in Seq(Reported)
        /\ (Fails(x \o y) <=> s4 = "FAIL" \/ s5 = "FAIL")
        /\ (Warns(x \o y) <=> s4 = "WARNING" \/ s5 = "WARNING")
    BY <2>1, <2>2, BothChecks
  <2> QED
    BY <2>3, <2>4, <2>5, BothChecks
<1>8. /\ c4 \in Seq(Reported) /\ (Fails(c4) <=> s7 = "FAIL")
      /\ Warns(c4) <=> s7 = "WARNING"
  BY <1>1, CodesAre, CheckIs
<1> HIDE DEF c1, c2, c3, c4
<1>9. /\ stages \in Seq(Seq(Reported)) /\ Len(stages) = 4 /\ 1..4 = {1, 2, 3, 4}
      /\ stages[1] = c1 /\ stages[2] = c2 /\ stages[3] = c3 /\ stages[4] = c4
  BY <1>5, <1>6, <1>7, <1>8
<1> HIDE DEF stages
<1>10. /\ UpToFailure(stages) \in Seq(Reported)
       /\ Fails(UpToFailure(stages)) <=> Fails(c1) \/ Fails(c2) \/ Fails(c3) \/ Fails(c4)
       /\ ~Fails(UpToFailure(stages)) =>
            (Warns(UpToFailure(stages)) <=> Warns(c1) \/ Warns(c2) \/ Warns(c3) \/ Warns(c4))
  BY <1>9, UpToFailureIs
<1>11. EngineOpens(b, "spelling") <=> ~Is(b, "aff", {"unknown codec"}) /\ ~Is(b, "aff", {"unloadable"})
  BY DEF EngineOpens, Is
<1>12. Is(b, "dic", {"undecodable", "uncounted", "miscounted"}) <=>
          Is(b, "dic", {"undecodable"}) \/ Is(b, "dic", {"uncounted", "miscounted"})
  BY DEF Is
<1> QED
  BY <1>2, <1>3, <1>4, <1>5, <1>6, <1>7, <1>8, <1>10, <1>11, <1>12

LEMMA ThesaurusReport ==
  ASSUME NEW b \in AllBundles
  PROVE  LET checks == ThesaurusChecks(b) IN
         /\ checks \in Seq(Reported)
         /\ Fails(checks) <=> "dat" \notin DOMAIN b \/ ~EngineOpens(b, "thesaurus")
         /\ ~Fails(checks) => (Warns(checks) <=> ~Is(b, "idx", {"good"}))
<1> DEFINE s1 == PassIf("dat" \in DOMAIN b)
           s2 == WarnUnless("idx" \in DOMAIN b)
           s3 == PassIf(~Is(b, "dat", {"undecodable"}))
           s4 == WarnUnless(~Is(b, "idx", {"miscounted", "malformed"}))
           s5 == WarnUnless(~Is(b, "idx", {"displaced"}))
           s6 == IF Is(b, "dat", {"unloadable"}) THEN "FAIL"
                 ELSE WarnUnless(~Is(b, "idx", Kinds.idx \ {"good"}))
           s7 == PassIf(~Is(b, "dat", {"empty"}))
           i1 == IF "idx" \in DOMAIN b THEN Check("index_count", s4) ELSE <<>>
           i2 == IF Is(b, "idx", {"good", "miscounted", "displaced"})
                 THEN Check("sampled_offsets", s5) ELSE <<>>
           c1 == Check("dat_exists", s1)
           c2 == Check("idx_exists", s2) \o Check("encoding_declaration", s3)
           c3 == i1 \o i2 \o Check("engine_load", s6)
           c4 == Check("representative_entries", s7)
           stages == <<c1, c2, c3, c4>>
<1>0. "idx" \in DOMAIN b => b["idx"] \in {"good", "miscounted", "malformed", "displaced"}
  <2>1. "idx" \in DOMAIN b => b["idx"] \in Kinds["idx"]
    BY BundleHas
  <2> QED
    BY <2>1 DEF Kinds
<1>1. /\ s1 \in Statuses /\ s2 \in Statuses /\ s3 \in Statuses /\ s4 \in Statuses
      /\ s5 \in Statuses /\ s6 \in Statuses /\ s7 \in Statuses
  BY DEF PassIf, WarnUnless, Statuses
<1>2. /\ s1 = "FAIL" <=> "dat" \notin DOMAIN b
      /\ s2 # "FAIL" /\ s4 # "FAIL" /\ s5 # "FAIL"
      /\ s3 = "FAIL" <=> Is(b, "dat", {"undecodable"})
      /\ s6 = "FAIL" <=> Is(b, "dat", {"unloadable"})
      /\ s7 = "FAIL" <=> Is(b, "dat", {"empty"})
  BY DEF PassIf, WarnUnless
<1>3. /\ s1 # "WARNING" /\ s3 # "WARNING" /\ s7 # "WARNING"
      /\ s2 = "WARNING" <=> "idx" \notin DOMAIN b
      /\ s6 # "FAIL" => (s6 = "WARNING" <=> "idx" \in DOMAIN b /\ b["idx"] # "good")
      /\ s4 = "WARNING" => "idx" \in DOMAIN b /\ b["idx"] # "good"
      /\ s5 = "WARNING" => "idx" \in DOMAIN b /\ b["idx"] # "good"
  BY <1>0 DEF PassIf, WarnUnless, Is, Kinds
<1>4. ThesaurusChecks(b) = UpToFailure(stages)
  BY DEF ThesaurusChecks
<1> HIDE DEF s1, s2, s3, s4, s5, s6, s7
<1>5. c1 \in Seq(Reported) /\ (Fails(c1) <=> s1 = "FAIL") /\ (Warns(c1) <=> s1 = "WARNING")
  BY <1>1, CodesAre, CheckIs
<1>6. /\ c2 \in Seq(Reported) /\ (Fails(c2) <=> s2 = "FAIL" \/ s3 = "FAIL")
      /\ Warns(c2) <=> s2 = "WARNING" \/ s3 = "WARNING"
  <2> DEFINE x == Check("idx_exists", s2)
             y == Check("encoding_declaration", s3)
  <2>1. x \in Seq(Reported) /\ (Fails(x) <=> s2 = "FAIL") /\ (Warns(x) <=> s2 = "WARNING")
    BY <1>1, CodesAre, CheckIs
  <2>2. y \in Seq(Reported) /\ (Fails(y) <=> s3 = "FAIL") /\ (Warns(y) <=> s3 = "WARNING")
    BY <1>1, CodesAre, CheckIs
  <2>3. c2 = x \o y
    OBVIOUS
  <2> HIDE DEF x, y, c2
  <2> QED
    BY <2>1, <2>2, <2>3, BothChecks
<1>7. /\ i1 \in Seq(Reported) /\ (Fails(i1) => s4 = "FAIL") /\ (Warns(i1) => s4 = "WARNING")
      /\ i2 \in Seq(Reported) /\ (Fails(i2) => s5 = "FAIL") /\ (Warns(i2) => s5 = "WARNING")
  BY <1>1, CodesAre, CheckIs, NoChecks
<1> HIDE DEF i1, i2
<1>8. /\ c3 \in Seq(Reported)
      /\ Fails(c3) <=> Fails(i1) \/ Fails(i2) \/ s6 = "FAIL"
      /\ Warns(c3) <=> Warns(i1) \/ Warns(i2) \/ s6 = "WARNING"
  <2> DEFINE z == Check("engine_load", s6)
  <2>1. z \in Seq(Reported) /\ (Fails(z) <=> s6 = "FAIL") /\ (Warns(z) <=> s6 = "WARNING")
    BY <1>1, CodesAre, CheckIs
  <2>2. c3 = (i1 \o i2) \o z
    OBVIOUS
  <2> HIDE DEF z, c3
  <2>3. /\ i1 \o i2 \in Seq(Reported)
        /\ Fails(i1 \o i2) <=> Fails(i1) \/ Fails(i2)
        /\ Warns(i1 \o i2) <=> Warns(i1) \/ Warns(i2)
    BY <1>7, BothChecks
  <2> QED
    BY <2>1, <2>2, <2>3, BothChecks
<1>9. c4 \in Seq(Reported) /\ (Fails(c4) <=> s7 = "FAIL") /\ (Warns(c4) <=> s7 = "WARNING")
  BY <1>1, CodesAre, CheckIs
<1> HIDE DEF c1, c2, c3, c4
<1>10. /\ stages \in Seq(Seq(Reported)) /\ Len(stages) = 4 /\ 1..4 = {1, 2, 3, 4}
       /\ stages[1] = c1 /\ stages[2] = c2 /\ stages[3] = c3 /\ stages[4] = c4
  BY <1>5, <1>6, <1>8, <1>9
<1> HIDE DEF stages
<1>11. /\ UpToFailure(stages) \in Seq(Reported)
       /\ Fails(UpToFailure(stages)) <=> Fails(c1) \/ Fails(c2) \/ Fails(c3) \/ Fails(c4)
       /\ ~Fails(UpToFailure(stages)) =>
            (Warns(UpToFailure(stages)) <=> Warns(c1) \/ Warns(c2) \/ Warns(c3) \/ Warns(c4))
  BY <1>10, UpToFailureIs
<1>12. EngineOpens(b, "thesaurus") <=>
          ~Is(b, "dat", {"undecodable"}) /\ ~Is(b, "dat", {"unloadable"}) /\ ~Is(b, "dat", {"empty"})
  BY DEF EngineOpens, Is
<1>13. Is(b, "idx", {"good"}) <=> "idx" \in DOMAIN b /\ b["idx"] = "good"
  BY DEF Is
<1> QED
  BY <1>2, <1>3, <1>4, <1>5, <1>6, <1>7, <1>8, <1>9, <1>11, <1>12, <1>13

ReportOn(b, c) == IF c = "spelling" THEN SpellingChecks(b, "none") ELSE ThesaurusChecks(b)

\* The files of a component are as its engine wants them, with an index.
Sound(b, c) == IF c = "spelling" THEN b["aff"] = "good" /\ b["dic"] = "good"
               ELSE b["dat"] = "good" /\ Is(b, "idx", {"good"})

LEMMA ReportOnIs ==
  ASSUME NEW b \in AllBundles, NEW c \in Offers(b)
  PROVE  /\ ReportOn(b, c) \in Seq(Reported)
         /\ Fails(ReportOn(b, c)) <=> ~EngineOpens(b, c)
         /\ ~Fails(ReportOn(b, c)) => (Warns(ReportOn(b, c)) <=> ~Sound(b, c))
<1>1. CASE c = "spelling"
  <2> DEFINE checks == SpellingChecks(b, "none")
  <2>1. "aff" \in DOMAIN b /\ "dic" \in DOMAIN b
    BY <1>1 DEF Offers, Needed
  <2>2. b["aff"] \in Kinds["aff"] /\ b["dic"] \in Kinds["dic"]
    BY <2>1, BundleHas
  <2>3. /\ b["aff"] \in {"good", "no SET", "unknown codec", "unloadable"}
        /\ b["dic"] \in {"good", "undecodable", "uncounted", "miscounted", "rootless"}
    BY <2>2 DEF Kinds
  <2>4. /\ checks \in Seq(Reported)
        /\ Fails(checks) <=> ~EngineOpens(b, "spelling")
        /\ ~Fails(checks) =>
             (Warns(checks) <=> \/ Is(b, "aff", {"no SET"})
                                \/ Is(b, "dic", {"undecodable", "uncounted", "miscounted"})
                                \/ Is(b, "dic", {"rootless"}))
    BY <2>1, SpellingReport
  <2> HIDE DEF checks
  <2>5. EngineOpens(b, "spelling") <=> b["aff"] \in {"good", "no SET"}
    BY <2>1, <2>3 DEF EngineOpens, Is
  <2>6. ~Fails(checks) => (Warns(checks) <=> ~(b["aff"] = "good" /\ b["dic"] = "good"))
    BY <2>1, <2>3, <2>4, <2>5 DEF Is
  <2>7. ReportOn(b, c) = checks
    BY <1>1 DEF ReportOn, checks
  <2> QED
    BY <1>1, <2>4, <2>6, <2>7 DEF Sound
<1>2. CASE c = "thesaurus"
  <2> DEFINE checks == ThesaurusChecks(b)
  <2>1. "dat" \in DOMAIN b
    BY <1>2 DEF Offers, Needed
  <2>2. b["dat"] \in Kinds["dat"]
    BY <2>1, BundleHas
  <2>3. b["dat"] \in {"good", "undecodable", "unloadable", "empty"}
    BY <2>2 DEF Kinds
  <2>4. /\ checks \in Seq(Reported)
        /\ Fails(checks) <=> ~EngineOpens(b, "thesaurus")
        /\ ~Fails(checks) => (Warns(checks) <=> ~Is(b, "idx", {"good"}))
    BY <2>1, ThesaurusReport
  <2> HIDE DEF checks
  <2>5. EngineOpens(b, "thesaurus") <=> b["dat"] = "good"
    BY <2>1, <2>3 DEF EngineOpens, Is
  <2>6. ReportOn(b, c) = checks
    BY <1>2 DEF ReportOn, checks
  <2> QED
    BY <1>2, <2>4, <2>5, <2>6 DEF Sound
<1> QED
  BY <1>1, <1>2 DEF Offers

LEMMA TwoAreFinite ==
  ASSUME NEW x, NEW y
  PROVE  IsFiniteSet({x, y})
<1>1. IsFiniteSet({x})
  BY FS_Singleton, Zenon
<1>2. IsFiniteSet({x} \cup {y})
  BY <1>1, FS_AddElement, Zenon
<1>3. {x, y} = {x} \cup {y}
  OBVIOUS
<1> QED
  BY <1>2, <1>3, Zenon

\* The status of a bundle is that of its components together.
LEMMA BundleStatusIs ==
  ASSUME NEW b \in AllBundles
  PROVE  /\ BundleStatus(b) = "FAIL" <=> Offers(b) = {} \/ \E c \in Offers(b) : ~EngineOpens(b, c)
         /\ BundleStatus(b) # "FAIL" =>
              (BundleStatus(b) = "PASS" <=> \A c \in Offers(b) : Sound(b, c))
<1>1. Reports(b) = {ReportOn(b, c) : c \in Offers(b)}
  BY DEF Reports, ReportOn
<1>2. CASE Offers(b) = {}
  BY <1>1, <1>2 DEF BundleStatus
<1>3. CASE Offers(b) # {}
  <2> DEFINE reports == SetToSeq(Reports(b))
             all == FlattenSeq(reports)
  <2>1. IsFiniteSet(Reports(b)) /\ Reports(b) \in SUBSET Seq(Reported)
    <3>1. Reports(b) \subseteq {ReportOn(b, "spelling"), ReportOn(b, "thesaurus")}
      BY <1>1 DEF Offers
    <3>2. IsFiniteSet({ReportOn(b, "spelling"), ReportOn(b, "thesaurus")})
      BY TwoAreFinite
    <3>3. IsFiniteSet(Reports(b))
      BY <3>1, <3>2, FS_Subset, Zenon
    <3> QED
      BY <1>1, <3>3, ReportOnIs
  <2>2. /\ reports \in Seq(Reports(b))
        /\ \A r \in Reports(b) : \E i \in DOMAIN reports : reports[i] = r
    BY <2>1, SetToSeqLists
  <2> HIDE DEF reports
  <2>3. reports \in Seq(Seq(Reported)) /\ \A i \in DOMAIN reports : reports[i] \in Reports(b)
    BY <2>1, <2>2
  <2>4. /\ Fails(all) <=> \E i \in DOMAIN reports : Fails(reports[i])
        /\ Warns(all) <=> \E i \in DOMAIN reports : Warns(reports[i])
    BY <2>3, AllChecks
  <2>5. BundleStatus(b) = IF Fails(all) THEN "FAIL" ELSE IF Warns(all) THEN "WARNING" ELSE "PASS"
    BY <1>1, <1>3 DEF BundleStatus, Status, reports
  <2> HIDE DEF all
  <2>6. Fails(all) <=> \E c \in Offers(b) : Fails(ReportOn(b, c))
    BY <1>1, <2>2, <2>3, <2>4
  <2>7. Warns(all) <=> \E c \in Offers(b) : Warns(ReportOn(b, c))
    BY <1>1, <2>2, <2>3, <2>4
  <2> QED
    BY <1>3, <2>5, <2>6, <2>7, ReportOnIs
<1> QED
  BY <1>2, <1>3

\* Every file belongs to a component that is complete.
LEMMA RecognizedIs ==
  ASSUME NEW b \in AllBundles
  PROVE  Recognized(b) = DOMAIN b <=>
           /\ "stray" \notin DOMAIN b
           /\ {"aff", "dic"} \cap DOMAIN b \notin {{"aff"}, {"dic"}}
           /\ "idx" \in DOMAIN b => "dat" \in DOMAIN b
<1>1. DOMAIN b \subseteq {"aff", "dic", "dat", "idx", "stray"}
  <2>1. DOMAIN b \subseteq Files
    BY BundleHas
  <2> QED
    BY <2>1 DEF Files, Kinds
<1>2. Recognized(b) \subseteq DOMAIN b
  BY DEF Recognized
<1>3. /\ "stray" \notin Recognized(b)
      /\ "aff" \in Recognized(b) <=> "aff" \in DOMAIN b /\ "dic" \in DOMAIN b
      /\ "dic" \in Recognized(b) <=> "aff" \in DOMAIN b /\ "dic" \in DOMAIN b
      /\ "dat" \in Recognized(b) <=> "dat" \in DOMAIN b
      /\ "idx" \in Recognized(b) <=> "dat" \in DOMAIN b /\ "idx" \in DOMAIN b
  BY DEF Recognized, Offers, Needed, FilesOf
<1>4. Recognized(b) = DOMAIN b <=>
        /\ "stray" \notin DOMAIN b
        /\ "aff" \in DOMAIN b <=> "dic" \in DOMAIN b
        /\ "idx" \in DOMAIN b => "dat" \in DOMAIN b
  BY <1>1, <1>2, <1>3
<1>5. {"aff", "dic"} \cap DOMAIN b \notin {{"aff"}, {"dic"}} <=>
        ("aff" \in DOMAIN b <=> "dic" \in DOMAIN b)
  <2>1. ({"aff", "dic"} \cap DOMAIN b = {"aff"}) <=> "aff" \in DOMAIN b /\ "dic" \notin DOMAIN b
    OBVIOUS
  <2>2. ({"aff", "dic"} \cap DOMAIN b = {"dic"}) <=> "dic" \in DOMAIN b /\ "aff" \notin DOMAIN b
    OBVIOUS
  <2> QED
    BY <2>1, <2>2
<1> QED
  BY <1>4, <1>5

\* A bundle of complete components without a defect.
LEMMA FlawlessIs ==
  ASSUME NEW b \in AllBundles, Recognized(b) = DOMAIN b
  PROVE  Flawless(b) <=> \A c \in Offers(b) : Sound(b, c)
<1>1. /\ DOMAIN b \subseteq {"aff", "dic", "dat", "idx"}
      /\ "aff" \in DOMAIN b <=> "dic" \in DOMAIN b
      /\ "idx" \in DOMAIN b => "dat" \in DOMAIN b
  <2>1. DOMAIN b \subseteq Files
    BY BundleHas
  <2>2. {"aff", "dic"} \cap DOMAIN b = {"aff"} <=> "aff" \in DOMAIN b /\ "dic" \notin DOMAIN b
    OBVIOUS
  <2>3. {"aff", "dic"} \cap DOMAIN b = {"dic"} <=> "dic" \in DOMAIN b /\ "aff" \notin DOMAIN b
    OBVIOUS
  <2> QED
    BY <2>1, <2>2, <2>3, RecognizedIs DEF Files, Kinds
<1>2. /\ "spelling" \in Offers(b) <=> "aff" \in DOMAIN b /\ "dic" \in DOMAIN b
      /\ "thesaurus" \in Offers(b) <=> "dat" \in DOMAIN b
      /\ Offers(b) \subseteq {"spelling", "thesaurus"}
  BY DEF Offers, Needed
<1>3. (\A c \in Offers(b) : Sound(b, c)) <=>
        /\ "aff" \in DOMAIN b => b["aff"] = "good" /\ b["dic"] = "good"
        /\ "dat" \in DOMAIN b => b["dat"] = "good" /\ Is(b, "idx", {"good"})
  BY <1>1, <1>2 DEF Sound
<1> QED
  BY <1>1, <1>3 DEF Flawless, Is

\* Of all directories that may be staged, those and only those are published that consist
\* of complete components an engine opens; one passes without a warning only if nothing is
\* wrong with it; and the words of a caller decide as they should (validation.py,
\* providers.py and import_validated_files).
THEOREM NothingIsMisreported == Misreported = {}
<1> SUFFICES ASSUME NEW b \in AllBundles
             PROVE  /\ Importable(b) <=> ~Rejects(b)
                    /\ Importable(b) => (BundleStatus(b) = "PASS" <=> Flawless(b))
                    /\ "spelling" \in Offers(b) =>
                         /\ Fails(SpellingChecks(b, "rejected"))
                         /\ ~Fails(SpellingChecks(b, "accepted")) <=> EngineOpens(b, "spelling")
  BY DEF Misreported
<1>1. Offers(b) = {} /\ Recognized(b) = DOMAIN b <=> DOMAIN b = {}
  BY DEF Offers, Recognized, Needed
<1>2. Importable(b) <=> ~Rejects(b)
  BY <1>1, BundleStatusIs, RecognizedIs DEF Importable, Rejects
<1>3. Importable(b) => (BundleStatus(b) = "PASS" <=> Flawless(b))
  BY BundleStatusIs, FlawlessIs DEF Importable
<1>4. ASSUME "spelling" \in Offers(b)
      PROVE  /\ Fails(SpellingChecks(b, "rejected"))
             /\ ~Fails(SpellingChecks(b, "accepted")) <=> EngineOpens(b, "spelling")
  <2>1. "aff" \in DOMAIN b /\ "dic" \in DOMAIN b
    BY <1>4 DEF Offers, Needed
  <2>2. Fails(SpellingChecks(b, "rejected"))
    BY SpellingReport
  <2>3. Fails(SpellingChecks(b, "accepted")) <=> ~EngineOpens(b, "spelling")
    BY <2>1, SpellingReport
  <2> QED
    BY <2>2, <2>3
<1> QED
  BY <1>2, <1>3, <1>4

\* So the reports of every import are sound, whatever is imported (import_validated_files).
THEOREM ReportsStaySound == Spec => []ReportsAreSound
<1>1. ReportsAreSound
  BY NothingIsMisreported DEF ReportsAreSound
<1> QED
  BY <1>1, PTL
=============================================================================
