---------------------- MODULE LinguisticServiceProofs ----------------------
(***************************************************************************)
(* Proofs about LinguisticService, its resolver and its registry for any   *)
(* threads, plans, engines, locales, providers and cache sizes.            *)
(***************************************************************************)
EXTENDS LinguisticService, Induction

-----------------------------------------------------------------------------
(* The resolver.                                                            *)

\* Whatever backends are registered and asked for, a resolution names a usable one, the
\* one asked for if it can serve, and another only as the announced fallback (resolve).
THEOREM ResolverIsHonest == HonestResolutions
<1> SUFFICES ASSUME NEW registered \in [Backends -> Standing], NEW allow \in BOOLEAN,
                    NEW requested \in Backends \cup {Unspecified}
             PROVE
               LET r == Resolve(registered, requested, allow)
                   wanted == IF requested = Unspecified THEN Default ELSE requested
                   unusable == registered[wanted] \in {"unknown", "unavailable", "incompatible"}
               IN  /\ r.backend # Unspecified =>
                        /\ registered[r.backend] = "ok"
                        /\ r.fallback <=> r.backend # wanted
                        /\ r.fallback => allow /\ r.backend = Default /\ r.code = registered[wanted]
                   /\ registered[wanted] = "ok" => r.backend = wanted
                   /\ (unusable /\ allow /\ registered[Default] = "ok") => r.backend = Default
  BY DEF HonestResolutions
<1> DEFINE wanted == IF requested = Unspecified THEN Default ELSE requested
           r == Resolve(registered, requested, allow)
<1>1. wanted \in Backends /\ Default \in Backends /\ Unspecified \notin Backends
  BY ResolverAssumption
<1>2. CASE Selectable(registered, wanted)
  BY <1>1, <1>2 DEF Resolve, Build, Failed, Selectable
<1>3. CASE ~Selectable(registered, wanted) /\ (~allow \/ wanted = Default)
  BY <1>1, <1>3 DEF Resolve, Failed, Selectable
<1>4. CASE ~Selectable(registered, wanted) /\ allow /\ wanted # Default
  BY <1>1, <1>4 DEF Resolve, Build, Failed, Selectable
<1> QED
  BY <1>2, <1>3, <1>4

-----------------------------------------------------------------------------
(* The invariant.                                                           *)

Shape ==
    /\ DOMAIN call = Threads
    /\ \A t \in Threads : DOMAIN call[t] = DOMAIN Idle /\ call[t].c \in Components
    /\ DOMAIN lock = Components /\ DOMAIN user = Engines /\ DOMAIN failures = Pairs

\* Who holds the lock of a cache is unloading engines of this cache.
LocksUnload ==
    \A c \in Components : lock[c] # Free =>
        lock[c] \in Threads /\ At(lock[c], "unload") /\ call[lock[c]].c = c

\* A thread that is to use an engine has one; while it uses it, it is loaded and its own.
UsesOwn(t) ==
    /\ At(t, "use") \/ At(t, "using") \/ (At(t, "unload") /\ call[t].after = "use") =>
           call[t].engine \in Engines
    /\ At(t, "unload") => call[t].after # "using"
    /\ At(t, "using") => call[t].engine \in loaded /\ user[call[t].engine] = t

\* Where a call can be that began while its component was off: either the component is
\* still off and no engine was sought, or the call is clearing the caches.
Seeking == {"personal", "clear personal", "discover", "store", "read", "sync", "compare",
            "gate", "cached", "recheck"}
StaysOff(t) ==
    call[t].wasOff =>
        \/ Syncing(t)
        \/ call[t].pc \in Seeking /\ Pair(t) \in Pairs /\ Disabled(call[t].l, call[t].c)

Careful == Shape /\ LocksUnload /\ \A t \in Threads : UsesOwn(t) /\ StaysOff(t)

LEMMA CarefulImplies == Careful => NoUnloadUnderLookup /\ BreakerHolds
BY DEF Careful, LocksUnload, UsesOwn, StaysOff, Syncing, Seeking, NoUnloadUnderLookup,
       BreakerHolds, At

LEMMA InitCareful == Init => Careful
BY DEF Init, Careful, Shape, LocksUnload, UsesOwn, StaysOff, At, Idle, Components

-----------------------------------------------------------------------------
(* Steps of one thread that leave locks, engines and failures alone.        *)

\* Only t goes on, from outside the locks, to a place where it keeps its word.
LEMMA LocalStep ==
  ASSUME Careful, NEW t \in Threads, ~At(t, "unload"),
         UNCHANGED <<lock, loaded, user, failures>>,
         DOMAIN call' = Threads, DOMAIN call'[t] = DOMAIN Idle, call'[t].c \in Components,
         \A u \in Threads \ {t} : call'[u] = call[u],
         UsesOwn(t)', StaysOff(t)'
  PROVE  Careful'
<1>1. Shape'
  BY DEF Careful, Shape
<1>2. LocksUnload'
  BY DEF Careful, LocksUnload, At
<1>3. ASSUME NEW u \in Threads \ {t} PROVE UsesOwn(u)' /\ StaysOff(u)'
  <2>1. call'[u] = call[u] /\ UsesOwn(u) /\ StaysOff(u)
    BY <1>3 DEF Careful
  <2>2. UsesOwn(u)'
    BY <2>1 DEF UsesOwn, At
  <2>3. StaysOff(u)'
    BY <2>1 DEF StaysOff, Syncing, Disabled, At, Pair
  <2> QED
    BY <2>2, <2>3
<1> QED
  BY <1>1, <1>2, <1>3 DEF Careful

LEMMA BeginStep ==
  ASSUME Careful, NEW t \in Threads,
         BeginCheck(t) \/ BeginLookup(t) \/ BeginRefresh(t) \/ BeginMutate(t)
           \/ BeginClose(t) \/ BeginLanguage(t)
  PROVE  Careful'
<1>1. ~At(t, "unload")
  BY DEF BeginCheck, BeginLookup, BeginRefresh, BeginMutate, BeginClose, BeginLanguage, At
<1>2. UNCHANGED <<lock, loaded, user, failures>>
  BY DEF BeginCheck, BeginLookup, BeginRefresh, BeginMutate, BeginClose, BeginLanguage, store
<1>3. PICK op, l, c, w, pc :
        /\ Start(t, op, l, c, w, pc)
        /\ pc \in {"personal", "discover", "clear personal"}
             \/ pc \in {"clear spelling", "clear results"}
        /\ l = Nothing \/ <<l, c>> \in Pairs
        /\ c \in Components
  <2>1. "spelling" \in Components /\ "thesaurus" \in Components
        /\ \A l \in Locales, c \in Components : <<l, c>> \in Pairs
    BY DEF Components, Pairs
  <2>2. CASE BeginCheck(t)
    BY <2>1, <2>2 DEF BeginCheck
  <2>3. CASE BeginLookup(t)
    BY <2>1, <2>3 DEF BeginLookup
  <2>4. CASE BeginRefresh(t)
    BY <2>1, <2>4 DEF BeginRefresh
  <2>5. CASE BeginMutate(t)
    BY <2>1, <2>5 DEF BeginMutate
  <2>6. CASE BeginClose(t)
    BY <2>1, <2>6 DEF BeginClose
  <2>7. CASE BeginLanguage(t)
    BY <2>1, <2>7 DEF BeginLanguage
  <2> QED
    BY <2>2, <2>3, <2>4, <2>5, <2>6, <2>7
<1> DEFINE r == [Idle EXCEPT !.pc = pc, !.op = op, !.l = l, !.w = w, !.c = c, !.cache = c,
                             !.wasOff = l # Nothing /\ failures[l, c] # Nothing]
<1>4. call' = [call EXCEPT ![t] = r]
  BY <1>3 DEF Start
<1>5. /\ r.pc = pc /\ r.l = l /\ r.c = c /\ r.after = "idle" /\ DOMAIN r = DOMAIN Idle
      /\ r.wasOff => failures[l, c] # Nothing /\ l # Nothing
  BY DEF Idle
<1> HIDE DEF r
<1>6. call'[t] = r /\ DOMAIN call' = Threads /\ \A u \in Threads \ {t} : call'[u] = call[u]
  BY <1>4 DEF Careful, Shape
<1>7. UsesOwn(t)'
  BY <1>3, <1>5, <1>6 DEF UsesOwn, At
<1>8. StaysOff(t)'
  BY <1>2, <1>3, <1>5, <1>6 DEF StaysOff, Syncing, Seeking, Disabled, At, Pair
<1> QED
  BY <1>1, <1>2, <1>3, <1>5, <1>6, <1>7, <1>8, LocalStep

\* t is at pc and nothing else is different that the invariant speaks of.
Moves(t, pc) ==
    /\ DOMAIN call' = Threads /\ DOMAIN call'[t] = DOMAIN Idle
    /\ \A u \in Threads \ {t} : call'[u] = call[u]
    /\ call'[t].pc = pc /\ call'[t].wasOff = call[t].wasOff
    /\ call'[t].l = call[t].l /\ call'[t].c = call[t].c

LEMMA GoToMoves ==
  ASSUME Careful, NEW t \in Threads, NEW pc, GoTo(t, pc) PROVE Moves(t, pc)
BY DEF GoTo, Moves, Careful, Shape, Idle

\* A call that seeks an answer, or has none to wait for, goes on seeking.
LEMMA Onward ==
  ASSUME Careful, NEW t \in Threads, NEW pc \in Seeking,
         call[t].pc \in Seeking \cup {"put"}, Moves(t, pc),
         UNCHANGED <<lock, loaded, user, failures>>
  PROVE  Careful'
<1>1. ~At(t, "unload") /\ ~Syncing(t)
  BY DEF At, Syncing, Seeking
<1>2. UsesOwn(t)'
  BY DEF UsesOwn, Moves, At, Seeking
<1>3. call[t].wasOff => Disabled(call[t].l, call[t].c) /\ Pair(t) \in Pairs
  BY <1>1 DEF Careful, StaysOff
<1>4. StaysOff(t)'
  BY <1>3 DEF StaysOff, Moves, Disabled, Pair
<1> QED
  BY <1>1, <1>2, <1>4, LocalStep DEF Moves, Careful, Shape

LEMMA EndStep ==
  ASSUME Careful, NEW t \in Threads, ~At(t, "unload"), End(t),
         UNCHANGED <<lock, loaded, user, failures>>
  PROVE  Careful'
<1>1. /\ DOMAIN call' = Threads /\ call'[t] = Idle /\ Idle.c \in Components
      /\ \A u \in Threads \ {t} : call'[u] = call[u]
  BY DEF End, Careful, Shape, Idle, Components
<1>2. UsesOwn(t)'
  BY <1>1 DEF UsesOwn, At, Idle
<1>3. StaysOff(t)'
  BY <1>1 DEF StaysOff, Idle
<1> QED
  BY <1>1, <1>2, <1>3, LocalStep

LEMMA AnswerStep ==
  ASSUME Careful, NEW t \in Threads, call[t].pc \in Seeking \cup {"put"}, Answer(t),
         UNCHANGED <<lock, loaded, user, failures>>
  PROVE  Careful'
<1>1. CASE End(t)
  BY <1>1, EndStep DEF At, Seeking
<1>2. CASE ~End(t)
  <2>1. Moves(t, "discover")
    BY <1>2 DEF Answer, Moves, Careful, Shape, Idle
  <2> QED
    BY <2>1, Onward DEF Seeking
<1> QED
  BY <1>1, <1>2

LEMMA SeekStep ==
  ASSUME Careful, NEW t \in Threads,
         AskPersonal(t) \/ Discover(t) \/ StoreFound(t) \/ ReadInfo(t) \/ ReadRevision(t)
           \/ Gate(t) \/ TryGet(t) \/ StoreResult(t)
  PROVE  Careful'
<1>1. UNCHANGED <<lock, loaded, user, failures>>
  BY DEF AskPersonal, Discover, StoreFound, ReadInfo, ReadRevision, Gate, TryGet, StoreResult, store
<1>2. call[t].pc \in Seeking \cup {"put"}
  BY DEF AskPersonal, Discover, StoreFound, ReadInfo, ReadRevision, Gate, TryGet, StoreResult, At,
         Seeking
<1>3. ~At(t, "unload")
  BY <1>2 DEF At, Seeking
<1>4. CASE AskPersonal(t)
  BY <1>1, <1>2, <1>3, <1>4, GoToMoves, Onward, EndStep DEF AskPersonal, Seeking
<1>5. CASE Discover(t)
  <2>1. CASE GoTo(t, "read")
    BY <1>1, <1>2, <2>1, GoToMoves, Onward DEF Seeking
  <2>2. CASE ~GoTo(t, "read")
    <3>1. Moves(t, "store")
      BY <1>5, <2>2 DEF Discover, Moves, Careful, Shape, Idle
    <3> QED
      BY <1>1, <1>2, <3>1, Onward DEF Seeking
  <2> QED
    BY <2>1, <2>2
<1>6. CASE StoreFound(t)
  <2>1. Moves(t, "sync") \/ Moves(t, "read")
    BY <1>6 DEF StoreFound, Moves, Careful, Shape, Idle
  <2> QED
    BY <1>1, <1>2, <2>1, Onward DEF Seeking
<1>7. CASE ReadInfo(t)
  <2>1. Moves(t, "sync")
    BY <1>7 DEF ReadInfo, Moves, Careful, Shape, Idle
  <2> QED
    BY <1>1, <1>2, <2>1, Onward DEF Seeking
<1>8. CASE ReadRevision(t)
  <2>1. Moves(t, "compare")
    BY <1>8 DEF ReadRevision, Moves, Careful, Shape, Idle
  <2> QED
    BY <1>1, <1>2, <2>1, Onward DEF Seeking
<1>9. CASE Gate(t)
  <2>1. End(t) \/ GoTo(t, "cached")
    BY <1>9 DEF Gate
  <2> QED
    BY <1>1, <1>2, <1>3, <2>1, GoToMoves, Onward, EndStep DEF Seeking
<1>10. CASE TryGet(t)
  <2>1. Answer(t) \/ GoTo(t, "recheck")
    BY <1>10 DEF TryGet
  <2> QED
    BY <1>1, <1>2, <2>1, GoToMoves, Onward, AnswerStep DEF Seeking
<1>11. CASE StoreResult(t)
  BY <1>1, <1>2, <1>11, AnswerStep DEF StoreResult
<1> QED
  BY <1>4, <1>5, <1>6, <1>7, <1>8, <1>9, <1>10, <1>11

LEMMA ClearLocaleStep ==
  ASSUME Careful, NEW t \in Threads, ClearLocale(t) PROVE Careful'
<1>1. UNCHANGED <<lock, loaded, user, failures>> /\ ~At(t, "unload")
  BY DEF ClearLocale, At, store
<1>2. CASE End(t)
  BY <1>1, <1>2, EndStep
<1>3. CASE At(t, "clear personal") /\ GoTo(t, "discover")
  BY <1>1, <1>3, GoToMoves, Onward DEF At, Seeking
<1> QED
  BY <1>2, <1>3 DEF ClearLocale

LEMMA RecheckStep ==
  ASSUME Careful, NEW t \in Threads, Recheck(t) PROVE Careful'
<1>1. /\ UNCHANGED <<lock, loaded, user, failures>> /\ ~At(t, "unload")
      /\ At(t, "recheck")
  BY DEF Recheck, At, store
<1>2. CASE End(t)
  BY <1>1, <1>2, EndStep
<1>3. CASE ~Disabled(call[t].l, call[t].c) /\ GoTo(t, "obtain")
  <2>1. Moves(t, "obtain")
    BY <1>3, GoToMoves
  <2>2. ~call[t].wasOff
    BY <1>1, <1>3 DEF Careful, StaysOff, Syncing, At
  <2>3. UsesOwn(t)'
    BY <2>1 DEF UsesOwn, Moves, At
  <2>4. StaysOff(t)'
    BY <2>1, <2>2 DEF StaysOff, Moves
  <2> QED
    BY <1>1, <2>1, <2>3, <2>4, LocalStep DEF Moves, Careful, Shape
<1> QED
  BY <1>2, <1>3 DEF Recheck

LEMMA CompareStep ==
  ASSUME Careful, NEW t \in Threads, CompareRevision(t) PROVE Careful'
<1>1. /\ UNCHANGED <<lock, loaded, user, failures>> /\ ~At(t, "unload")
      /\ At(t, "compare")
  BY DEF CompareRevision, At, store
<1>2. CASE End(t)
  BY <1>1, <1>2, EndStep
<1>3. CASE call' = [call EXCEPT ![t].pc = "gate", ![t].rev = 0]
  <2>1. Moves(t, "gate")
    BY <1>3 DEF Moves, Careful, Shape, Idle
  <2> QED
    BY <1>1, <2>1, Onward DEF At, Seeking
<1>4. CASE call' = [call EXCEPT ![t].pc = "clear spelling", ![t].rev = 0]
  <2>1. Moves(t, "clear spelling")
    BY <1>4 DEF Moves, Careful, Shape, Idle
  <2>2. UsesOwn(t)' /\ StaysOff(t)'
    BY <2>1 DEF UsesOwn, StaysOff, Syncing, Moves, At
  <2> QED
    BY <1>1, <2>1, <2>2, LocalStep DEF Moves, Careful, Shape
<1> QED
  BY <1>2, <1>3, <1>4 DEF CompareRevision, AfterSync

-----------------------------------------------------------------------------
(* Steps that unload engines.                                               *)

\* A thread outside the locks takes a free one to unload what was taken out of the
\* cache, or has nothing to unload.
LEMMA UnloadingStep ==
  ASSUME Careful, NEW t \in Threads, ~At(t, "unload"),
         NEW c \in Components, lock[c] = Free, NEW todo, NEW next, Unloading(t, c, todo, next),
         DOMAIN next = DOMAIN Idle, next.c = c, next.pc \notin {"using", "unload"},
         next.pc = "use" => next.engine \in Engines,
         next.wasOff => next.pc \in {"clear thesaurus", "clear results"},
         \A u \in Threads \ {t} : At(u, "using") => call[u].engine \in loaded',
         UNCHANGED <<user, failures>>
  PROVE  Careful'
<1> DEFINE r == IF todo = <<>> THEN next
                ELSE [next EXCEPT !.todo = todo, !.after = next.pc, !.pc = "unload"]
<1>1. /\ call' = [call EXCEPT ![t] = r]
      /\ lock' = [lock EXCEPT ![c] = IF todo = <<>> THEN Free ELSE t]
  BY DEF Unloading
<1>2. /\ DOMAIN r = DOMAIN Idle /\ r.c = c /\ r.engine = next.engine /\ r.wasOff = next.wasOff
      /\ IF todo = <<>> THEN r.pc = next.pc ELSE r.pc = "unload" /\ r.after = next.pc
  BY DEF Idle
<1> HIDE DEF r
<1>3. call'[t] = r /\ DOMAIN call' = Threads /\ \A u \in Threads \ {t} : call'[u] = call[u]
  BY <1>1 DEF Careful, Shape
<1>4. Shape'
  BY <1>1, <1>2, <1>3 DEF Careful, Shape
<1>5. LocksUnload'
  <2> SUFFICES ASSUME NEW d \in Components, lock'[d] # Free
               PROVE  lock'[d] \in Threads /\ call'[lock'[d]].pc = "unload" /\ call'[lock'[d]].c = d
    BY DEF LocksUnload, At
  <2>1. CASE d = c
    <3>1. todo # <<>> /\ lock'[d] = t
      BY <1>1, <2>1 DEF Careful, Shape
    <3> QED
      BY <1>2, <1>3, <2>1, <3>1
  <2>2. CASE d # c
    <3>1. lock'[d] = lock[d]
      BY <1>1, <2>2 DEF Careful, Shape
    <3>2. lock[d] \in Threads \ {t} /\ call[lock[d]].pc = "unload" /\ call[lock[d]].c = d
      BY <3>1 DEF Careful, LocksUnload, At
    <3> QED
      BY <1>3, <3>1, <3>2
  <2> QED
    BY <2>1, <2>2
<1>6. UsesOwn(t)' /\ StaysOff(t)'
  <2>1. UsesOwn(t)'
    BY <1>2, <1>3 DEF UsesOwn, At
  <2>2. StaysOff(t)'
    BY <1>2, <1>3 DEF StaysOff, Syncing, At
  <2> QED
    BY <2>1, <2>2
<1>7. ASSUME NEW u \in Threads \ {t} PROVE UsesOwn(u)' /\ StaysOff(u)'
  <2>1. call'[u] = call[u] /\ UsesOwn(u) /\ StaysOff(u)
    BY <1>3 DEF Careful
  <2>2. UsesOwn(u)'
    BY <2>1 DEF UsesOwn, At
  <2>3. StaysOff(u)'
    BY <2>1 DEF StaysOff, Syncing, Disabled, At, Pair
  <2> QED
    BY <2>2, <2>3
<1> QED
  BY <1>4, <1>5, <1>6, <1>7 DEF Careful

LEMMA ClearBackendsStep ==
  ASSUME Careful, NEW t \in Threads, NEW c \in Components, ClearBackends(t, c) PROVE Careful'
<1> DEFINE next == [call[t] EXCEPT !.c = c,
                       !.pc = IF c = "spelling" THEN "clear thesaurus" ELSE "clear results"]
           todo == [i \in 1..Len(backends[c]) |-> backends[c][i].id]
<1>1. Unloading(t, c, todo, next) /\ lock[c] = Free /\ ~At(t, "unload")
  BY DEF ClearBackends, At
<1>2. /\ DOMAIN next = DOMAIN Idle /\ next.c = c
      /\ next.pc \in {"clear thesaurus", "clear results"}
  BY DEF Careful, Shape, Idle
<1>3. UNCHANGED <<loaded, user, failures>>
  BY DEF ClearBackends
<1>4. \A u \in Threads \ {t} : At(u, "using") => call[u].engine \in loaded'
  BY <1>3 DEF Careful, UsesOwn
<1> HIDE DEF next, todo
<1> QED
  BY <1>1, <1>2, <1>3, <1>4, UnloadingStep

LEMMA ObtainStep ==
  ASSUME Careful, NEW t \in Threads, Obtain(t) PROVE Careful'
<1>1. UNCHANGED <<user, failures>> /\ At(t, "obtain") /\ ~At(t, "unload")
  BY DEF Obtain, At
<1>2. ~call[t].wasOff
  BY <1>1 DEF Careful, StaysOff, Syncing, Seeking, At
<1>3. CASE UNCHANGED store /\ GoTo(t, "fail")
  <2>1. Moves(t, "fail")
    BY <1>3, GoToMoves
  <2>2. UsesOwn(t)' /\ StaysOff(t)'
    BY <1>2, <2>1 DEF UsesOwn, StaysOff, Moves, At
  <2> QED
    BY <1>1, <1>3, <2>1, <2>2, LocalStep DEF Moves, store, Careful, Shape
<1>4. CASE ~(UNCHANGED store /\ GoTo(t, "fail"))
  <2>1. PICK id, todo :
            /\ id \in Engines
            /\ loaded' = loaded \/ (id \notin Held /\ loaded' = loaded \ {id})
            /\ Unloading(t, call[t].c, todo, [call[t] EXCEPT !.engine = id, !.pc = "use"])
    BY <1>4 DEF Obtain
  <2> DEFINE next == [call[t] EXCEPT !.engine = id, !.pc = "use"]
  <2>2. /\ DOMAIN next = DOMAIN Idle /\ next.c = call[t].c /\ next.pc = "use"
        /\ next.engine = id /\ next.wasOff = call[t].wasOff /\ id \in Engines
    BY <2>1 DEF Careful, Shape, Idle
  <2>3. \A u \in Threads \ {t} : At(u, "using") => call[u].engine \in loaded'
    BY <2>1 DEF Careful, UsesOwn, Held
  <2>4. lock[call[t].c] = Free /\ Unloading(t, call[t].c, todo, next)
    BY <2>1 DEF Obtain
  <2>5. call[t].c \in Components
    BY DEF Careful, Shape
  <2> HIDE DEF next
  <2> QED
    BY <1>1, <1>2, <2>2, <2>3, <2>4, <2>5, UnloadingStep
<1> QED
  BY <1>3, <1>4

LEMMA DropStep ==
  ASSUME Careful, NEW t \in Threads, Drop(t) PROVE Careful'
<1>1. UNCHANGED <<loaded, user, failures>> /\ At(t, "drop") /\ ~At(t, "unload")
  BY DEF Drop, At, store
<1>2. ~call[t].wasOff
  BY <1>1 DEF Careful, StaysOff, Syncing, Seeking, At
<1>3. CASE UNCHANGED store /\ GoTo(t, "clear failed")
  <2>1. Moves(t, "clear failed")
    BY <1>3, GoToMoves
  <2>2. UsesOwn(t)' /\ StaysOff(t)'
    BY <1>2, <2>1 DEF UsesOwn, StaysOff, Moves, At
  <2> QED
    BY <1>1, <1>3, <2>1, <2>2, LocalStep DEF Moves, store, Careful, Shape
<1>4. CASE ~(UNCHANGED store /\ GoTo(t, "clear failed"))
  <2>1. PICK p, todo :
            Unloading(t, call[t].c, todo, [call[t] EXCEPT !.keys = @ \ {p}])
    BY <1>4 DEF Drop
  <2> DEFINE next == [call[t] EXCEPT !.keys = @ \ {p}]
  <2>2. /\ DOMAIN next = DOMAIN Idle /\ next.c = call[t].c /\ next.pc = "drop"
        /\ next.wasOff = call[t].wasOff
    BY <1>1 DEF Careful, Shape, Idle, At
  <2>3. \A u \in Threads \ {t} : At(u, "using") => call[u].engine \in loaded'
    BY <1>1 DEF Careful, UsesOwn
  <2>4. lock[call[t].c] = Free /\ Unloading(t, call[t].c, todo, next)
    BY <1>4, <2>1 DEF Drop
  <2>5. call[t].c \in Components
    BY DEF Careful, Shape
  <2> HIDE DEF next
  <2> QED
    BY <1>1, <1>2, <2>2, <2>3, <2>4, <2>5, UnloadingStep
<1> QED
  BY <1>3, <1>4

\* An engine is unloaded only while nobody uses it; the lock goes with the last one.
LEMMA UnloadStep ==
  ASSUME Careful, NEW t \in Threads, Unload(t) PROVE Careful'
<1> DEFINE e == Head(call[t].todo)
           rest == Tail(call[t].todo)
           c == call[t].c
           r == [call[t] EXCEPT !.todo = rest,
                    !.after = IF rest = <<>> THEN "idle" ELSE call[t].after,
                    !.pc = IF rest = <<>> THEN call[t].after ELSE "unload"]
<1>1. /\ call' = [call EXCEPT ![t] = r] /\ loaded' = loaded \ {e} /\ user[e] = Free
      /\ lock' = [lock EXCEPT ![c] = IF rest = <<>> THEN Free ELSE t]
      /\ At(t, "unload") /\ UNCHANGED <<user, failures>>
  BY DEF Unload, Careful, Shape
<1>2. /\ DOMAIN r = DOMAIN Idle /\ r.c = c /\ r.engine = call[t].engine /\ r.l = call[t].l
      /\ r.wasOff = call[t].wasOff /\ c \in Components
      /\ IF rest = <<>> THEN r.pc = call[t].after /\ r.after = "idle"
         ELSE r.pc = "unload" /\ r.after = call[t].after
  BY DEF Careful, Shape, Idle
<1> HIDE DEF r, rest, e, c
<1>3. call'[t] = r /\ DOMAIN call' = Threads /\ \A u \in Threads \ {t} : call'[u] = call[u]
  BY <1>1 DEF Careful, Shape
<1>4. Shape'
  BY <1>1, <1>2, <1>3 DEF Careful, Shape
<1>5. LocksUnload'
  <2> SUFFICES ASSUME NEW d \in Components, lock'[d] # Free
               PROVE  lock'[d] \in Threads /\ call'[lock'[d]].pc = "unload" /\ call'[lock'[d]].c = d
    BY DEF LocksUnload, At
  <2>1. CASE d = c
    <3>1. rest # <<>> /\ lock'[d] = t
      BY <1>1, <2>1 DEF Careful, Shape
    <3> QED
      BY <1>2, <1>3, <2>1, <3>1
  <2>2. CASE d # c
    <3>1. lock'[d] = lock[d]
      BY <1>1, <2>2 DEF Careful, Shape
    <3>2. lock[d] \in Threads /\ call[lock[d]].pc = "unload" /\ call[lock[d]].c = d
      BY <3>1 DEF Careful, LocksUnload, At
    <3>3. lock[d] # t
      BY <2>2, <3>2 DEF c
    <3> QED
      BY <1>3, <3>1, <3>2, <3>3
  <2> QED
    BY <2>1, <2>2
<1>6. UsesOwn(t)'
  BY <1>1, <1>2, <1>3 DEF Careful, UsesOwn, At
<1>7. StaysOff(t)'
  <2>1. call[t].wasOff => call[t].after \in {"clear thesaurus", "clear results"}
    BY <1>1 DEF Careful, StaysOff, Syncing, Seeking, At
  <2> QED
    BY <1>2, <1>3, <2>1 DEF StaysOff, Syncing, At
<1>8. ASSUME NEW u \in Threads \ {t} PROVE UsesOwn(u)' /\ StaysOff(u)'
  <2>1. call'[u] = call[u] /\ UsesOwn(u) /\ StaysOff(u)
    BY <1>3 DEF Careful
  <2>2. At(u, "using") => call[u].engine # e
    BY <1>1, <2>1, ServiceAssumption DEF UsesOwn
  <2>3. UsesOwn(u)'
    BY <1>1, <2>1, <2>2 DEF UsesOwn, At
  <2>4. StaysOff(u)'
    BY <1>1, <2>1 DEF StaysOff, Syncing, Disabled, At, Pair
  <2> QED
    BY <2>3, <2>4
<1> QED
  BY <1>4, <1>5, <1>6, <1>7, <1>8 DEF Careful

-----------------------------------------------------------------------------
(* Steps that use an engine.                                                *)

LEMMA UseStep ==
  ASSUME Careful, NEW t \in Threads, Use(t) PROVE Careful'
<1> DEFINE e == call[t].engine
<1>1. /\ At(t, "use") /\ ~At(t, "unload") /\ user[e] = Free /\ UNCHANGED <<lock, failures>>
      /\ e \in Engines
  BY DEF Use, At, Careful, UsesOwn
<1>2. ~call[t].wasOff
  BY <1>1 DEF Careful, StaysOff, Syncing, Seeking, At
<1>3. CASE GoTo(t, "fail") /\ UNCHANGED <<loaded, user>>
  <2>1. Moves(t, "fail")
    BY <1>3, GoToMoves
  <2>2. UsesOwn(t)' /\ StaysOff(t)'
    BY <1>2, <2>1 DEF UsesOwn, StaysOff, Moves, At
  <2> QED
    BY <1>1, <1>3, <2>1, <2>2, LocalStep DEF Moves, Careful, Shape
<1>4. CASE GoTo(t, "using") /\ loaded' = loaded \cup {e} /\ user' = [user EXCEPT ![e] = t]
  <2>1. Moves(t, "using") /\ call'[t].engine = e
    BY <1>4, GoToMoves DEF GoTo, Careful, Shape, Idle
  <2>2. Shape'
    BY <1>1, <1>4, <2>1 DEF Careful, Shape, Moves
  <2>3. LocksUnload'
    BY <1>1, <2>1 DEF Careful, LocksUnload, Moves, At
  <2>4. UsesOwn(t)'
    BY <1>1, <1>4, <2>1 DEF UsesOwn, Moves, At, Careful, Shape
  <2>5. StaysOff(t)'
    BY <1>2, <2>1 DEF StaysOff, Moves
  <2>6. ASSUME NEW u \in Threads \ {t} PROVE UsesOwn(u)' /\ StaysOff(u)'
    <3>1. call'[u] = call[u] /\ UsesOwn(u) /\ StaysOff(u)
      BY <2>1 DEF Careful, Moves
    <3>2. At(u, "using") => call[u].engine # e
      BY <1>1, <3>1, ServiceAssumption DEF UsesOwn
    <3>3. UsesOwn(u)'
      BY <1>4, <3>1, <3>2 DEF UsesOwn, At, Careful, Shape
    <3>4. StaysOff(u)'
      BY <1>1, <3>1 DEF StaysOff, Syncing, Disabled, At, Pair
    <3> QED
      BY <3>3, <3>4
  <2> QED
    BY <2>2, <2>3, <2>4, <2>5, <2>6 DEF Careful
<1> QED
  BY <1>3, <1>4 DEF Use

LEMMA FinishStep ==
  ASSUME Careful, NEW t \in Threads, Finish(t) PROVE Careful'
<1> DEFINE e == call[t].engine
<1>1. /\ At(t, "using") /\ ~At(t, "unload") /\ user[e] = t
      /\ UNCHANGED <<lock, loaded, failures>> /\ user' = [user EXCEPT ![e] = Free]
  BY DEF Finish, At, Careful, UsesOwn, store
<1>2. ~call[t].wasOff
  BY <1>1 DEF Careful, StaysOff, Syncing, Seeking, At
<1>3. Moves(t, "put") \/ Moves(t, "fail")
  BY DEF Finish, Moves, Careful, Shape, Idle
<1>4. Shape'
  BY <1>1, <1>3 DEF Careful, Shape, Moves
<1>5. LocksUnload'
  BY <1>1, <1>3 DEF Careful, LocksUnload, Moves, At
<1>6. UsesOwn(t)' /\ StaysOff(t)'
  BY <1>2, <1>3 DEF UsesOwn, StaysOff, Moves, At
<1>7. ASSUME NEW u \in Threads \ {t} PROVE UsesOwn(u)' /\ StaysOff(u)'
  <2>1. call'[u] = call[u] /\ UsesOwn(u) /\ StaysOff(u)
    BY <1>3 DEF Careful, Moves
  <2>2. At(u, "using") => call[u].engine # e
    BY <1>1, <2>1 DEF UsesOwn
  <2>3. UsesOwn(u)'
    BY <1>1, <2>1, <2>2 DEF UsesOwn, At, Careful, Shape
  <2>4. StaysOff(u)'
    BY <1>1, <2>1 DEF StaysOff, Syncing, Disabled, At, Pair
  <2> QED
    BY <2>3, <2>4
<1> QED
  BY <1>4, <1>5, <1>6, <1>7 DEF Careful

LEMMA ListKeysStep ==
  ASSUME Careful, NEW t \in Threads, ListKeys(t) PROVE Careful'
<1>1. At(t, "keys") /\ ~At(t, "unload") /\ UNCHANGED <<lock, loaded, user, failures>>
  BY DEF ListKeys, At, store
<1>2. Moves(t, "drop")
  BY DEF ListKeys, Moves, Careful, Shape, Idle
<1>3. UsesOwn(t)' /\ StaysOff(t)'
  BY <1>1, <1>2 DEF UsesOwn, StaysOff, Syncing, Seeking, Moves, At, Careful
<1> QED
  BY <1>1, <1>2, <1>3, LocalStep DEF Moves, Careful, Shape

-----------------------------------------------------------------------------
(* Steps that switch components off and on, and those of several threads.   *)

LEMMA DisableStep ==
  ASSUME Careful, NEW t \in Threads, Disable(t) PROVE Careful'
<1>1. At(t, "fail") /\ ~At(t, "unload") /\ UNCHANGED <<lock, loaded, user>>
  BY DEF Disable, At, store
<1>2. Moves(t, "keys")
  BY DEF Disable, Moves, Careful, Shape, Idle
<1>3. ~call[t].wasOff
  BY <1>1 DEF Careful, StaysOff, Syncing, Seeking, At
<1>4. DOMAIN failures' = Pairs
  BY DEF Disable, Careful, Shape
<1>5. ASSUME NEW p \in Pairs, failures[p] # Nothing PROVE failures'[p] # Nothing
  <2>1. CASE p = Pair(t)
    BY <1>5, <2>1 DEF Disable, Disabled, Pair
  <2>2. CASE p # Pair(t)
    BY <1>5, <2>2 DEF Disable, Careful, Shape
  <2> QED
    BY <2>1, <2>2
<1>6. Shape'
  BY <1>1, <1>2, <1>4 DEF Careful, Shape, Moves
<1>7. LocksUnload'
  BY <1>1, <1>2 DEF Careful, LocksUnload, Moves, At
<1>8. UsesOwn(t)' /\ StaysOff(t)'
  BY <1>2, <1>3 DEF UsesOwn, StaysOff, Moves, At
<1>9. ASSUME NEW u \in Threads \ {t} PROVE UsesOwn(u)' /\ StaysOff(u)'
  <2>1. call'[u] = call[u] /\ UsesOwn(u) /\ StaysOff(u)
    BY <1>2 DEF Careful, Moves
  <2>2. UsesOwn(u)'
    BY <1>1, <2>1 DEF UsesOwn, At
  <2>3. StaysOff(u)'
    BY <1>5, <2>1 DEF StaysOff, Syncing, Disabled, At, Pair
  <2> QED
    BY <2>2, <2>3
<1> QED
  BY <1>6, <1>7, <1>8, <1>9 DEF Careful

LEMMA BeginRetryStep ==
  ASSUME Careful, NEW t \in Threads, BeginRetry(t) PROVE Careful'
<1>1. PICK p \in Pairs :
        /\ failures' = [failures EXCEPT ![p] = Nothing]
        /\ call' = [u \in Threads |->
              IF u = t THEN [Idle EXCEPT !.pc = "keys", !.op = "retry", !.l = p[1], !.c = p[2]]
              ELSE [call[u] EXCEPT !.wasOff = call[u].wasOff /\ Pair(u) # p]]
  BY DEF BeginRetry
<1>2. At(t, "idle") /\ UNCHANGED <<lock, loaded, user>>
  BY DEF BeginRetry, store
<1>3. /\ DOMAIN call' = Threads /\ DOMAIN call'[t] = DOMAIN Idle
      /\ call'[t].pc = "keys" /\ call'[t].wasOff = FALSE /\ call'[t].c \in Components
  BY <1>1 DEF Idle, Pairs
<1>4. ASSUME NEW u \in Threads \ {t}
      PROVE  /\ DOMAIN call'[u] = DOMAIN Idle
             /\ call'[u].pc = call[u].pc /\ call'[u].after = call[u].after
             /\ call'[u].engine = call[u].engine
             /\ call'[u].l = call[u].l /\ call'[u].c = call[u].c
             /\ call'[u].wasOff => call[u].wasOff /\ Pair(u) # p
  BY <1>1 DEF Careful, Shape, Idle
<1>5. Shape'
  BY <1>1, <1>2, <1>3, <1>4 DEF Careful, Shape
<1>6. LocksUnload'
  BY <1>2, <1>3, <1>4 DEF Careful, LocksUnload, At
<1>7. UsesOwn(t)' /\ StaysOff(t)'
  BY <1>3 DEF UsesOwn, StaysOff, At
<1>8. ASSUME NEW u \in Threads \ {t} PROVE UsesOwn(u)' /\ StaysOff(u)'
  <2>1. UsesOwn(u) /\ StaysOff(u)
    BY DEF Careful
  <2>2. UsesOwn(u)'
    BY <1>2, <1>4, <2>1 DEF UsesOwn, At
  <2>3. \A q \in Pairs \ {p} : failures'[q] = failures[q]
    BY <1>1 DEF Careful, Shape
  <2>4. StaysOff(u)'
    BY <1>4, <2>1, <2>3 DEF StaysOff, Syncing, Disabled, At, Pair
  <2> QED
    BY <2>2, <2>4
<1> QED
  BY <1>5, <1>6, <1>7, <1>8 DEF Careful

\* What other threads know is outdated, and no more than that.
LEMMA ClearResultsStep ==
  ASSUME Careful, NEW t \in Threads, ClearResults(t) PROVE Careful'
<1>1. At(t, "clear results") /\ UNCHANGED <<lock, loaded, user, failures>>
  BY DEF ClearResults, store
<1>2. /\ DOMAIN call' = Threads /\ DOMAIN call'[t] = DOMAIN Idle /\ call'[t].c \in Components
      /\ call'[t].pc = "reopen" \/ (call'[t].pc = "idle" /\ ~call'[t].wasOff)
  <2>1. DOMAIN call' = Threads
    BY DEF ClearResults
  <2>2. CASE call[t].op \in {"close", "language"}
    <3>1. call'[t] = Idle
      BY <2>2 DEF ClearResults
    <3> QED
      BY <2>1, <3>1 DEF Idle, Components
  <2>3. CASE call[t].op \notin {"close", "language"}
    <3>1. call'[t] = [Outdated(t) EXCEPT !.pc = "reopen",
                        !.c = IF call[t].op = "lookup" THEN "thesaurus" ELSE "spelling"]
      BY <2>3 DEF ClearResults
    <3>2. DOMAIN Outdated(t) = DOMAIN Idle
      BY DEF Outdated, Careful, Shape
    <3>3. call'[t].pc = "reopen" /\ call'[t].c \in {"thesaurus", "spelling"}
      BY <3>1, <3>2 DEF Idle
    <3>4. DOMAIN call'[t] = DOMAIN Idle
      BY <3>1, <3>2
    <3> QED
      BY <2>1, <3>3, <3>4 DEF Components
  <2> QED
    BY <2>2, <2>3
<1>3. ASSUME NEW u \in Threads \ {t}
      PROVE  /\ DOMAIN call'[u] = DOMAIN Idle
             /\ call'[u].pc = call[u].pc /\ call'[u].after = call[u].after
             /\ call'[u].engine = call[u].engine /\ call'[u].wasOff = call[u].wasOff
             /\ call'[u].l = call[u].l /\ call'[u].c = call[u].c
  BY DEF ClearResults, Outdated, Careful, Shape, Idle
<1>4. Shape'
  BY <1>1, <1>2, <1>3 DEF Careful, Shape
<1>5. LocksUnload'
  BY ZenonT(30), <1>1, <1>3 DEF Careful, LocksUnload, At
<1>6. UsesOwn(t)' /\ StaysOff(t)'
  BY <1>2 DEF UsesOwn, StaysOff, Syncing, At
<1>7. ASSUME NEW u \in Threads \ {t} PROVE UsesOwn(u)' /\ StaysOff(u)'
  <2>1. UsesOwn(u) /\ StaysOff(u)
    BY DEF Careful
  <2>2. UsesOwn(u)'
    BY <1>1, <1>3, <2>1 DEF UsesOwn, At
  <2>3. StaysOff(u)'
    BY <1>1, <1>3, <2>1 DEF StaysOff, Syncing, Disabled, At, Pair
  <2> QED
    BY <2>2, <2>3
<1> QED
  BY <1>4, <1>5, <1>6, <1>7 DEF Careful

LEMMA ReopenStep ==
  ASSUME Careful, NEW t \in Threads, Reopen(t) PROVE Careful'
<1>1. /\ At(t, "reopen") /\ UNCHANGED <<lock, loaded, user>>
      /\ failures' = [p \in Pairs |-> Nothing]
  BY DEF Reopen, store
<1>2. /\ DOMAIN call' = Threads /\ DOMAIN call'[t] = DOMAIN Idle /\ call'[t].c \in Components
      /\ call'[t].pc \in {"gate", "idle"} /\ ~call'[t].wasOff
  BY DEF Reopen, Careful, Shape, Idle, Components
<1>3. ASSUME NEW u \in Threads \ {t}
      PROVE  /\ DOMAIN call'[u] = DOMAIN Idle
             /\ call'[u].pc = call[u].pc /\ call'[u].after = call[u].after
             /\ call'[u].engine = call[u].engine /\ ~call'[u].wasOff
             /\ call'[u].c = call[u].c
  BY DEF Reopen, Outdated, Careful, Shape, Idle
<1>4. Shape'
  BY <1>1, <1>2, <1>3 DEF Careful, Shape
<1>5. LocksUnload'
  BY <1>1, <1>3 DEF Careful, LocksUnload, At
<1>6. UsesOwn(t)' /\ StaysOff(t)'
  BY <1>2 DEF UsesOwn, StaysOff, At
<1>7. ASSUME NEW u \in Threads \ {t} PROVE UsesOwn(u)' /\ StaysOff(u)'
  <2>1. UsesOwn(u)
    BY DEF Careful
  <2> QED
    BY <1>1, <1>3, <2>1 DEF UsesOwn, StaysOff, At
<1> QED
  BY <1>4, <1>5, <1>6, <1>7 DEF Careful

-----------------------------------------------------------------------------
(* The theorems.                                                            *)

LEMMA StutterCareful ==
  ASSUME Careful, UNCHANGED <<failures, lock, loaded, user, call>> PROVE Careful'
BY DEF Careful, Shape, LocksUnload, UsesOwn, StaysOff, Syncing, Disabled, At, Pair

LEMMA NextCareful == Careful /\ [Next]_vars => Careful'
<1> SUFFICES ASSUME Careful, [Next]_vars PROVE Careful'
  OBVIOUS
<1>1. CASE UNCHANGED vars
  BY <1>1, StutterCareful DEF vars
<1>2. CASE ChangeRegistry
  BY <1>2, StutterCareful DEF ChangeRegistry, store
<1>3. ASSUME NEW t \in Threads, Begin(t) PROVE Careful'
  BY <1>3, BeginStep, BeginRetryStep DEF Begin
<1>4. ASSUME NEW t \in Threads, Step(t) PROVE Careful'
  BY <1>4, SeekStep, ClearLocaleStep, CompareStep, ClearBackendsStep, ClearResultsStep,
     ReopenStep, RecheckStep, ObtainStep, UnloadStep, UseStep, FinishStep, DisableStep,
     ListKeysStep, DropStep
     DEF Step
<1> QED
  BY <1>1, <1>2, <1>3, <1>4 DEF Next

\* An engine whose lookup is running stays loaded and has one user, for any number of
\* threads and engines and any sizes of the caches (BackendCache, the engines' locks).
THEOREM EnginesStayLoaded == Spec => []NoUnloadUnderLookup
<1>1. Careful => NoUnloadUnderLookup
  BY CarefulImplies
<1> QED
  BY <1>1, InitCareful, NextCareful, PTL DEF Spec

\* A call that began after a component was switched off does not reach its engine, until
\* somebody retries the component or the registry changes (_disable_component).
THEOREM BreakerIsKept == Spec => []BreakerHolds
<1>1. Careful => BreakerHolds
  BY CarefulImplies
<1> QED
  BY <1>1, InitCareful, NextCareful, PTL DEF Spec

\* Every engine is created by an honest resolution, for any backends (resolver.py).
THEOREM ServiceResolvesHonestly == Spec => []ResolverHonest
<1>1. ResolverHonest
  BY ResolverIsHonest DEF ResolverHonest
<1> QED
  BY <1>1, PTL

-----------------------------------------------------------------------------
(* Who waits for whom.                                                      *)

\* The lock of an engine is held by a thread that is using this engine.
UsersUse ==
    \A e \in Engines : user[e] # Free =>
        user[e] \in Threads /\ At(user[e], "using") /\ call[user[e]].engine = e

LEMMA WaitsAreShort == Careful /\ UsersUse => WaitsEnd
<1> SUFFICES ASSUME Careful, UsersUse, NEW t \in Threads, NEW u \in Threads, WaitsFor(t, u)
             PROVE  /\ u # t
                    /\ At(u, "using") \/ At(u, "unload")
                    /\ \A v \in Threads : WaitsFor(u, v) => At(v, "using")
  BY DEF WaitsEnd
<1>1. u # Free
  BY ServiceAssumption
<1>2. CASE \E c \in Components : NeedsCache(t, c) /\ lock[c] = u
  <2>1. At(u, "unload") /\ ~At(t, "unload")
    BY <1>1, <1>2 DEF Careful, LocksUnload, NeedsCache, At
  <2>2. ASSUME NEW v \in Threads, WaitsFor(u, v) PROVE At(v, "using")
    <3>1. PICK e \in Engines : user[e] = v
      BY <2>1, <2>2 DEF WaitsFor, NeedsCache, At
    <3> QED
      BY <3>1, ServiceAssumption DEF UsersUse
  <2> QED
    BY <2>1, <2>2
<1>3. CASE \E e \in Engines : NeedsEngine(t, e) /\ user[e] = u
  <2>1. At(u, "using") /\ ~At(t, "using")
    BY <1>1, <1>3 DEF UsersUse, NeedsEngine, At
  <2>2. \A v \in Threads : ~WaitsFor(u, v)
    BY <2>1 DEF WaitsFor, NeedsCache, NeedsEngine, At
  <2> QED
    BY <2>1, <2>2 DEF At
<1> QED
  BY <1>2, <1>3 DEF WaitsFor

\* A step that takes or releases no engine, of a thread that uses none.
LEMMA UsersStay ==
  ASSUME UsersUse, NEW t \in Threads, ~At(t, "using"), UNCHANGED user,
         \A u \in Threads \ {t} : call'[u].pc = call[u].pc /\ call'[u].engine = call[u].engine
  PROVE  UsersUse'
<1> SUFFICES ASSUME NEW e \in Engines, user'[e] # Free
             PROVE  user'[e] \in Threads /\ call'[user'[e]].pc = "using"
                    /\ call'[user'[e]].engine = e
  BY DEF UsersUse, At
<1>1. user[e] \in Threads \ {t} /\ call[user[e]].pc = "using" /\ call[user[e]].engine = e
  BY DEF UsersUse, At
<1> QED
  BY <1>1

\* Steps that change the record of one thread only.
LEMMA OneMovesUsers ==
  ASSUME Careful, UsersUse, NEW t \in Threads,
         AskPersonal(t) \/ ClearLocale(t) \/ Discover(t) \/ StoreFound(t) \/ ReadInfo(t)
           \/ ReadRevision(t) \/ CompareRevision(t) \/ (\E c \in Components : ClearBackends(t, c))
           \/ Gate(t) \/ TryGet(t) \/ Recheck(t) \/ Obtain(t) \/ Unload(t) \/ StoreResult(t)
           \/ Disable(t) \/ ListKeys(t) \/ Drop(t)
  PROVE  UsersUse'
<1> DEFINE One == \A u \in Threads \ {t} : call'[u] = call[u]
<1>1. ASSUME NEW r, call' = [call EXCEPT ![t] = r] PROVE One
  BY <1>1 DEF Careful, Shape
<1>2. \A pc : GoTo(t, pc) => One
  BY DEF GoTo, Careful, Shape
<1>3. End(t) => One
  BY <1>1 DEF End
<1>4. Answer(t) => One
  BY <1>3 DEF Answer, Careful, Shape
<1>5. \A c, todo, next : Unloading(t, c, todo, next) => One
  BY DEF Unloading, Careful, Shape
<1> DEFINE Fine == ~At(t, "using") /\ UNCHANGED user /\ One
<1>6. AskPersonal(t) => Fine
  BY <1>2, <1>3 DEF AskPersonal, At
<1>7. ClearLocale(t) => Fine
  BY <1>2, <1>3 DEF ClearLocale, At
<1>8. Discover(t) => Fine
  BY <1>2 DEF Discover, At, Careful, Shape
<1>9. StoreFound(t) \/ ReadInfo(t) \/ ReadRevision(t) => Fine
  BY DEF StoreFound, ReadInfo, ReadRevision, At, Careful, Shape
<1>10. CompareRevision(t) => Fine
  BY <1>3 DEF CompareRevision, AfterSync, At, Careful, Shape
<1>11. \A c \in Components : ClearBackends(t, c) => Fine
  BY <1>5 DEF ClearBackends, At
<1>12. Gate(t) => Fine
  BY <1>2, <1>3 DEF Gate, At
<1>13. TryGet(t) => Fine
  BY <1>2, <1>4 DEF TryGet, At
<1>14. Recheck(t) => Fine
  BY <1>2, <1>3 DEF Recheck, At
<1>15. Obtain(t) => Fine
  BY <1>2, <1>5 DEF Obtain, At
<1>16. Unload(t) => Fine
  BY DEF Unload, At, Careful, Shape
<1>17. StoreResult(t) => Fine
  BY <1>4 DEF StoreResult, At
<1>18. Disable(t) => Fine
  BY DEF Disable, At, store, Careful, Shape
<1>19. ListKeys(t) => Fine
  BY DEF ListKeys, At, Careful, Shape
<1>20. Drop(t) => Fine
  BY <1>2, <1>5 DEF Drop, At
<1> QED
  BY <1>6, <1>7, <1>8, <1>9, <1>10, <1>11, <1>12, <1>13, <1>14, <1>15, <1>16, <1>17, <1>18,
     <1>19, <1>20, UsersStay

\* Steps that start a call, or change what other threads know.
LEMMA ManyMoveUsers ==
  ASSUME Careful, UsersUse, NEW t \in Threads, Begin(t) \/ ClearResults(t) \/ Reopen(t)
  PROVE  UsersUse'
<1> DEFINE Same == \A u \in Threads \ {t} :
                     call'[u].pc = call[u].pc /\ call'[u].engine = call[u].engine
           Fine == ~At(t, "using") /\ UNCHANGED user /\ Same
<1>1. \A op, l, c, w, pc : Start(t, op, l, c, w, pc) => Same
  BY DEF Start, Careful, Shape
<1>2. ASSUME BeginCheck(t) \/ BeginLookup(t) \/ BeginRefresh(t) \/ BeginMutate(t)
               \/ BeginClose(t) \/ BeginLanguage(t)
      PROVE  Fine
  BY <1>1, <1>2
     DEF BeginCheck, BeginLookup, BeginRefresh, BeginMutate, BeginClose, BeginLanguage, At
<1>3. ASSUME BeginRetry(t) PROVE Fine
  BY <1>3 DEF BeginRetry, At, Careful, Shape, Idle
<1>4. ASSUME ClearResults(t) PROVE Fine
  BY <1>4 DEF ClearResults, Outdated, At, Careful, Shape, Idle
<1>5. ASSUME Reopen(t) PROVE Fine
  BY <1>5 DEF Reopen, Outdated, At, Careful, Shape, Idle
<1> QED
  BY <1>2, <1>3, <1>4, <1>5, UsersStay DEF Begin

\* An engine is taken by a thread that goes on to use it, and released whether its
\* lookup returns or raises.
LEMMA UseMovesUsers ==
  ASSUME Careful, UsersUse, NEW t \in Threads, Use(t) \/ Finish(t) PROVE UsersUse'
<1> SUFFICES ASSUME NEW e \in Engines, user'[e] # Free
             PROVE  user'[e] \in Threads /\ call'[user'[e]].pc = "using"
                    /\ call'[user'[e]].engine = e
  BY DEF UsersUse, At
<1>1. \A u \in Threads \ {t} : call'[u] = call[u]
  BY DEF Use, Finish, GoTo, Careful, Shape
<1>2. DOMAIN user = Engines /\ DOMAIN call = Threads /\ DOMAIN call[t] = DOMAIN Idle
  BY DEF Careful, Shape
<1>3. CASE Use(t) /\ user' = user
  <2>1. user[e] \in Threads /\ call[user[e]].pc = "using" /\ call[user[e]].engine = e
    BY <1>3 DEF UsersUse, At
  <2>2. user[e] # t
    BY <1>3, <2>1 DEF Use, At
  <2> QED
    BY <1>1, <1>3, <2>1, <2>2
<1>4. CASE Use(t) /\ user' # user
  <2>1. /\ user' = [user EXCEPT ![call[t].engine] = t]
        /\ call' = [call EXCEPT ![t].pc = "using"] /\ call[t].pc = "use"
    BY <1>4 DEF Use, GoTo, At
  <2>2. CASE e = call[t].engine
    <3>1. user'[e] = t
      BY <1>2, <2>1, <2>2
    <3>2. call'[t].pc = "using" /\ call'[t].engine = call[t].engine
      BY <1>2, <2>1 DEF Idle
    <3> QED
      BY <2>2, <3>1, <3>2
  <2>3. CASE e # call[t].engine
    <3>1. user'[e] = user[e]
      BY <1>2, <2>1, <2>3
    <3>2. user[e] \in Threads \ {t} /\ call[user[e]].pc = "using" /\ call[user[e]].engine = e
      BY <2>1, <3>1 DEF UsersUse, At
    <3> QED
      BY <1>1, <3>1, <3>2
  <2> QED
    BY <2>2, <2>3
<1>5. CASE Finish(t)
  <2>1. user' = [user EXCEPT ![call[t].engine] = Free] /\ call[t].pc = "using"
    BY <1>5 DEF Finish, At
  <2>2. e # call[t].engine /\ user'[e] = user[e]
    BY <1>2, <2>1
  <2>3. user[e] \in Threads \ {t} /\ call[user[e]].pc = "using" /\ call[user[e]].engine = e
    BY <2>2 DEF UsersUse, At
  <2> QED
    BY <1>1, <2>2, <2>3
<1> QED
  BY <1>3, <1>4, <1>5

LEMMA NextUsers == Careful /\ UsersUse /\ [Next]_vars => UsersUse'
<1> SUFFICES ASSUME Careful, UsersUse, [Next]_vars PROVE UsersUse'
  OBVIOUS
<1>1. CASE UNCHANGED vars
  BY <1>1 DEF vars, UsersUse, At
<1>2. CASE ChangeRegistry
  BY <1>2 DEF ChangeRegistry, UsersUse, At
<1>3. ASSUME NEW t \in Threads, Begin(t) PROVE UsersUse'
  BY <1>3, ManyMoveUsers
<1>4. ASSUME NEW t \in Threads, Step(t) PROVE UsersUse'
  BY <1>4, OneMovesUsers, ManyMoveUsers, UseMovesUsers DEF Step
<1> QED
  BY <1>1, <1>2, <1>3, <1>4 DEF Next

\* No deadlock: whatever threads, engines and calls there are, a thread waits for one that
\* uses an engine, or for one that unloads engines and waits at most for such a user
\* (BackendCache's lock, the engines' locks and their release when a lookup raises).
THEOREM WaitsAlwaysEnd == Spec => []WaitsEnd
<1>1. Init => UsersUse
  BY DEF Init, UsersUse
<1>2. Careful /\ UsersUse => WaitsEnd
  BY WaitsAreShort
<1> QED
  BY <1>1, <1>2, InitCareful, NextCareful, NextUsers, PTL DEF Spec

\* So whenever a call is in progress, one of them waits for no lock: the part of
\* SomeCallProceeds that is about locks, for any number of threads.
THEOREM SomebodyDoesNotWait ==
  Spec => []((\E t \in Threads : ~At(t, "idle")) =>
                \E t \in Threads : ~At(t, "idle") /\ \A u \in Threads : ~WaitsFor(t, u))
<1>1. ASSUME WaitsEnd, NEW t \in Threads, ~At(t, "idle")
      PROVE  \E u \in Threads : ~At(u, "idle") /\ \A v \in Threads : ~WaitsFor(u, v)
  <2>1. \A u \in Threads : At(u, "using") => \A v \in Threads : ~WaitsFor(u, v)
    BY <1>1 DEF WaitsEnd, WaitsFor, NeedsCache, NeedsEngine, At
  <2>2. CASE \E u \in Threads : WaitsFor(t, u)
    <3>1. PICK u \in Threads : WaitsFor(t, u)
      BY <2>2
    <3>2. /\ ~At(u, "idle")
          /\ \A v \in Threads : WaitsFor(u, v) => At(v, "using") /\ ~At(v, "idle")
      BY <1>1, <3>1 DEF WaitsEnd, At
    <3> QED
      BY <2>1, <3>2
  <2> QED
    BY <1>1, <2>2
<1>2. WaitsEnd => ((\E t \in Threads : ~At(t, "idle")) =>
                \E t \in Threads : ~At(t, "idle") /\ \A u \in Threads : ~WaitsFor(t, u))
  BY <1>1
<1> QED
  BY <1>2, WaitsAlwaysEnd, PTL

-----------------------------------------------------------------------------
(* The registry.                                                            *)

\* What is left of a sequence without some of its elements.
LEMMA WithoutIs ==
  ASSUME NEW S, NEW items \in Seq(S), NEW gone
  PROVE  /\ Without(items, gone) \in Seq(S)
         /\ Range(Without(items, gone)) \subseteq Range(items) \ gone
<1> DEFINE n == Len(items)
           A == Seq(S)
           Filter(f) == f = [i \in 0..n |->
                               IF i = 0 THEN <<>>
                               ELSE IF items[i] \in gone THEN f[i - 1] ELSE Append(f[i - 1], items[i])]
           H == [p \in A \X (1..n) |->
                   IF items[p[2]] \in gone THEN p[1] ELSE Append(p[1], items[p[2]])]
<1>1. n \in Nat /\ \A i \in 1..n : items[i] \in S /\ items[i] \in Range(items)
  BY DEF Range
<1>2. <<>> \in A /\ Range(<<>>) = {}
  BY DEF Range
<1> HIDE DEF n
<1>3. H \in [A \X (1..n) -> A]
  BY <1>1
<1> HIDE DEF A, H
<1>4. PICK f : IsRecursion(f, n, A, <<>>, H)
  BY <1>1, <1>2, <1>3, RecursionExists
<1> USE DEF A, H
<1>5. Filter(f)
  <2>1. ASSUME NEW i \in 0..n
        PROVE  f[i] = IF i = 0 THEN <<>>
                      ELSE IF items[i] \in gone THEN f[i - 1] ELSE Append(f[i - 1], items[i])
    <3>1. CASE i = 0
      BY <1>4, <3>1 DEF IsRecursion
    <3>2. CASE i # 0
      <4>1. i \in 1..n /\ i - 1 \in 0..n
        BY <1>1, <3>2
      <4> QED
        BY <1>4, <3>2, <4>1 DEF IsRecursion
    <3> QED
      BY <3>1, <3>2
  <2> QED
    BY <1>4, <2>1 DEF IsRecursion
<1> DEFINE upTo == CHOOSE h : Filter(h)
<1>6. Filter(upTo)
  BY <1>5
<1>7. Without(items, gone) = upTo[n]
  BY DEF Without, n
<1>8. /\ upTo[0] = <<>>
      /\ \A i \in 1..n : upTo[i] = IF items[i] \in gone THEN upTo[i - 1]
                                   ELSE Append(upTo[i - 1], items[i])
  <2>1. 0 \in 0..n /\ \A i \in 1..n : i \in 0..n /\ i # 0
    BY <1>1
  <2> QED
    BY <1>6, <2>1
<1> HIDE DEF upTo
<1> DEFINE Listed == {i \in Nat : i <= n =>
                        upTo[i] \in A /\ Range(upTo[i]) \subseteq Range(items) \ gone}
<1>9. 0 \in Listed
  BY <1>2, <1>8
<1>10. ASSUME NEW i \in Nat, i \in Listed PROVE i + 1 \in Listed
  <2> SUFFICES ASSUME i + 1 <= n
               PROVE  upTo[i + 1] \in A /\ Range(upTo[i + 1]) \subseteq Range(items) \ gone
    OBVIOUS
  <2>1. i + 1 \in 1..n /\ (i + 1) - 1 = i /\ i <= n
    BY <1>1
  <2>2. upTo[i] \in A /\ Range(upTo[i]) \subseteq Range(items) \ gone
    BY <1>10, <2>1
  <2>3. CASE items[i + 1] \in gone
    BY <1>8, <2>1, <2>2, <2>3
  <2>4. CASE items[i + 1] \notin gone
    <3>1. upTo[i + 1] = Append(upTo[i], items[i + 1])
      BY <1>8, <2>1, <2>4
    <3>2. items[i + 1] \in S /\ items[i + 1] \in Range(items)
      BY <1>1, <2>1
    <3> DEFINE s == upTo[i]
               x == items[i + 1]
    <3> HIDE DEF s, x
    <3>3. s \in Seq(S) /\ x \in S
      BY <2>2, <3>2 DEF s, x
    <3>4. Append(s, x) \in Seq(S)
      BY <3>3
    <3>5. Range(Append(s, x)) = Range(s) \cup {x}
      BY <3>3, AppendRange
    <3> QED
      BY <2>2, <2>4, <3>1, <3>2, <3>4, <3>5 DEF s, x
  <2> QED
    BY <2>3, <2>4
<1> HIDE DEF Listed
<1>11. n \in Listed
  BY <1>1, <1>9, <1>10, SetInduction
<1> QED
  BY <1>1, <1>7, <1>11 DEF Listed

\* The image of a finite set under a function.
LEMMA FiniteImage ==
  ASSUME NEW S, IsFiniteSet(S), NEW f, DOMAIN f = S
  PROVE  IsFiniteSet({f[x] : x \in S})
<1> DEFINE T == {f[x] : x \in S}
           g == [x \in S |-> f[x]]
<1>1. g \in Surjection(S, T)
  BY DEF Surjection
<1> QED
  BY <1>1, FS_Surjection, Zenon

Selections == [AllLocales \X Components -> Candidates \cup {Nothing}]

LEMMA PreferType ==
  ASSUME NEW s \in Selections, NEW x \in Candidates
  PROVE  Prefer(s, x) \in Selections
BY DEF Selections, Prefer, Candidates

\* Select goes through the candidates one after the other.
SelectsBy(g, cs) ==
  /\ g \in [0..Len(cs) -> Selections]
  /\ g[0] = NoSelection
  /\ \A k \in 1..Len(cs) : g[k] = Prefer(g[k - 1], cs[k])

LEMMA SelectRuns ==
  ASSUME NEW cs \in Seq(Candidates)
  PROVE  \E g : SelectsBy(g, cs) /\ Select(cs) = g[Len(cs)]
<1> DEFINE n == Len(cs)
           A == Selections
           Folds(f) == f = [s \in SUBSET (1..n) |->
                              IF s = {} THEN NoSelection ELSE Prefer(f[s \ {Max(s)}], cs[Max(s)])]
           H == [p \in A \X (1..n) |-> Prefer(p[1], cs[p[2]])]
<1>1. n \in Nat /\ (\A i \in 1..n : cs[i] \in Candidates) /\ DOMAIN cs = 1..n
  OBVIOUS
<1>2. NoSelection \in A
  BY DEF NoSelection, Selections
<1> HIDE DEF n
<1>3. H \in [A \X (1..n) -> A]
  BY <1>1, PreferType
<1> HIDE DEF A, H
<1>4. PICK h : FoldOn(H, NoSelection, A, n, h)
  BY <1>1, <1>2, <1>3, FoldExists
<1>5. \A m \in Nat : \A s \in SUBSET (1..m) : s # {} => Max(s) \in s /\ \A k \in s : Max(s) >= k
  BY MaxIs
<1>6. Folds(h)
  <2>1. ASSUME NEW s \in SUBSET (1..n), s # {}
        PROVE  h[s] = Prefer(h[s \ {Max(s)}], cs[Max(s)])
    <3>1. Max(s) \in 1..n
      BY <1>1, <1>5, <2>1
    <3>2. h[s \ {Max(s)}] \in A
      BY <1>4 DEF FoldOn
    <3>3. h[s] = H[<<h[s \ {Max(s)}], Max(s)>>]
      BY <1>4, <2>1 DEF FoldOn
    <3> QED
      BY <3>1, <3>2, <3>3 DEF H
  <2>2. h[{}] = NoSelection /\ DOMAIN h = SUBSET (1..n) /\ h \in [SUBSET (1..n) -> A]
    BY <1>4 DEF FoldOn
  <2> QED
    BY <2>1, <2>2
<1> DEFINE iter == CHOOSE f : Folds(f)
<1>7. Folds(iter)
  BY <1>6
<1>8. Select(cs) = iter[1..n]
  BY <1>1 DEF Select, FoldLeft, MapThenFoldSet
<1> HIDE DEF iter
<1> DEFINE g == [k \in 0..n |-> iter[1..k]]
<1>9. \A k \in 0..n : 1..k \in SUBSET (1..n)
  BY <1>1
<1>10. g[0] = NoSelection
  BY <1>1, <1>7, <1>9
<1>11. ASSUME NEW k \in 1..n PROVE g[k] = Prefer(g[k - 1], cs[k])
  <2>1. k \in Nat /\ k \in 0..n /\ k - 1 \in 0..n /\ 1..k # {} /\ (1..k) \ {k} = 1..(k - 1)
    <3>1. k \in Nat /\ k \in 0..n /\ k - 1 \in 0..n /\ k \in 1..k
      BY <1>1
    <3>2. \A j \in Int : j \in (1..k) \ {k} <=> j \in 1..(k - 1)
      BY <3>1
    <3>3. (1..k) \ {k} = 1..(k - 1)
      BY <3>2
    <3> QED
      BY <3>1, <3>3
  <2>2. Max(1..k) = k
    <3>1. Max(1..k) \in 1..k /\ \A j \in 1..k : Max(1..k) >= j
      BY <1>5, <2>1
    <3> QED
      BY <2>1, <3>1
  <2>3. iter[1..k] = Prefer(iter[(1..k) \ {Max(1..k)}], cs[Max(1..k)])
    BY <1>7, <1>9, <2>1
  <2> QED
    BY <2>1, <2>2, <2>3
<1>12. g \in [0..n -> A]
  <2> DEFINE Typed == {k \in Nat : k <= n => g[k] \in A}
  <2>1. 0 \in Typed
    BY <1>2, <1>10
  <2>2. ASSUME NEW k \in Nat, k \in Typed PROVE k + 1 \in Typed
    <3> SUFFICES ASSUME k + 1 <= n PROVE g[k + 1] \in A
      OBVIOUS
    <3>1. k + 1 \in 1..n /\ (k + 1) - 1 = k /\ k <= n
      BY <1>1
    <3>2. g[k + 1] = Prefer(g[k], cs[k + 1])
      BY <1>11, <3>1
    <3> QED
      BY <1>1, <2>2, <3>1, <3>2, PreferType DEF A
  <2>3. \A k \in Nat : k \in Typed
    <3> HIDE DEF Typed
    <3> QED
      BY <2>1, <2>2, SetInduction
  <2>4. ASSUME NEW k \in 0..n PROVE g[k] \in A
    <3>1. k \in Nat /\ k <= n
      BY <1>1
    <3>2. k \in Typed
      <4> HIDE DEF Typed
      <4> QED
        BY <2>3, <3>1
    <3> HIDE DEF g
    <3> QED
      BY <3>1, <3>2
  <2> QED
    BY <2>4
<1> HIDE DEF g
<1>13. SelectsBy(g, cs)
  BY <1>10, <1>11, <1>12 DEF SelectsBy, n, A
<1>14. Select(cs) = g[Len(cs)]
  BY <1>1, <1>8 DEF g, n
<1> QED
  BY <1>13, <1>14

LEMMA SelectType ==
  ASSUME NEW cs \in Seq(Candidates) PROVE Select(cs) \in Selections
<1>1. PICK g : SelectsBy(g, cs) /\ Select(cs) = g[Len(cs)]
  BY SelectRuns
<1>2. Len(cs) \in 0..Len(cs)
  OBVIOUS
<1> QED
  BY <1>1, <1>2 DEF SelectsBy

Disks == SUBSET Resources

LEMMA QueryType ==
  ASSUME NEW names \in Seq(Sources), NEW disk \in Disks
  PROVE  Query(names, disk) \in Seq(Candidates)
<1>1. IsFiniteSet(Components) /\ IsFiniteSet(Sources) /\ IsFiniteSet(AllLocales)
  <2>1. IsFiniteSet({"spelling"}) /\ IsFiniteSet({"thesaurus"})
    BY FS_Singleton
  <2>2. IsFiniteSet({"spelling"} \cup {"thesaurus"})
    BY <2>1, FS_Union
  <2>3. Components = {"spelling"} \cup {"thesaurus"}
    BY DEF Components
  <2> QED
    BY <2>2, <2>3, RegistryAssumption
<1>2. IsFiniteSet(Resources)
  <2>1. IsFiniteSet(Sources \X AllLocales)
    BY <1>1, FS_Product
  <2>2. IsFiniteSet((Sources \X AllLocales) \X Components)
    BY <1>1, <2>1, FS_Product
  <2> DEFINE F == [x \in (Sources \X AllLocales) \X Components |-> <<x[1][1], x[1][2], x[2]>>]
             I == {F[x] : x \in (Sources \X AllLocales) \X Components}
  <2>3. IsFiniteSet(I)
    <3>1. DOMAIN F = (Sources \X AllLocales) \X Components
      OBVIOUS
    <3> HIDE DEF F
    <3> QED
      BY <2>2, <3>1, FiniteImage
  <2>4. Resources \subseteq I
    <3> SUFFICES ASSUME NEW a \in Sources, NEW b \in AllLocales, NEW c \in Components
                 PROVE  <<a, b, c>> \in I
      BY DEF Resources
    <3>1. F[<<<<a, b>>, c>>] = <<a, b, c>>
      OBVIOUS
    <3> QED
      BY <3>1
  <2> QED
    BY <2>3, <2>4, FS_Subset
<1>3. ASSUME NEW s \in Sources PROVE Found(s, disk) \in Seq(Candidates)
  <2> DEFINE R == {x \in disk : x[1] = s}
             F == [r \in R |-> [source |-> r[1], locale |-> r[2], component |-> r[3]]]
             D == {F[r] : r \in R}
  <2>1. IsFiniteSet(R)
    BY <1>2, FS_Subset DEF Disks
  <2>2. IsFiniteSet(D)
    <3> HIDE DEF R
    <3> QED
      BY <2>1, FiniteImage
  <2>3. ASSUME NEW r \in R PROVE F[r] \in Candidates
    <3>1. r \in Sources \X AllLocales \X Components
      BY DEF Disks, Resources
    <3>2. r[1] \in Sources /\ r[2] \in AllLocales /\ r[3] \in Components
      BY <3>1
    <3>3. F[r] = [source |-> r[1], locale |-> r[2], component |-> r[3]]
      OBVIOUS
    <3> QED
      BY <3>2, <3>3 DEF Candidates
  <2>6. D \subseteq Candidates
    BY <2>3
  <2> HIDE DEF D
  <2>4. SetToSeq(D) \in Seq(D)
    BY <2>2, SetToSeqLists
  <2>5. SetToSeq(D) \in Seq(Candidates)
    BY <2>4, <2>6
  <2> QED
    <3>1. D = {[source |-> r[1], locale |-> r[2], component |-> r[3]] : r \in R}
      BY DEF D
    <3> QED
      BY <2>5, <3>1 DEF Found
<1>4. [i \in 1..Len(names) |-> Found(names[i], disk)] \in Seq(Seq(Candidates))
  BY <1>3
<1> QED
  BY <1>4, FlattenIs DEF Query

Registry ==
  [providers : Seq(Sources), selected : Selections \cup {Nothing}, revision : Nat]

LEMMA DiscoveryType ==
  ASSUME NEW r \in Registry, NEW disk \in Disks
  PROVE  /\ Select(Query(r.providers, disk)) \in Selections
         /\ StoreDiscovery(r, Query(r.providers, disk)) \in Registry
         /\ StoreDiscovery(r, Query(r.providers, disk)).revision = r.revision + 1
<1>1. Query(r.providers, disk) \in Seq(Candidates)
  BY QueryType DEF Registry
<1>2. Select(Query(r.providers, disk)) \in Selections
  BY <1>1, SelectType
<1>3. r.providers \in Seq(Sources) /\ r.revision + 1 \in Nat
  BY DEF Registry
<1> DEFINE sel == Select(Query(r.providers, disk))
           n == r.revision + 1
<1>4. StoreDiscovery(r, Query(r.providers, disk)) = [r EXCEPT !.selected = sel, !.revision = n]
  BY DEF StoreDiscovery
<1> HIDE DEF sel, n
<1>5. sel \in Selections /\ n \in Nat
  BY <1>2, <1>3 DEF sel, n
<1>6. /\ [r EXCEPT !.selected = sel, !.revision = n] \in Registry
      /\ [r EXCEPT !.selected = sel, !.revision = n].revision = n
  BY <1>5 DEF Registry
<1> QED
  BY <1>2, <1>4, <1>6 DEF n

LEMMA ProvidersType ==
  ASSUME NEW r \in Registry, NEW s \in Sources
  PROVE  /\ AddProvider(r, s) \in Registry /\ AddProvider(r, s).revision = r.revision + 1
         /\ RemoveProviders(r, s) \in Registry
         /\ s \in Range(r.providers) => RemoveProviders(r, s).revision = r.revision + 1
<1>1. Append(r.providers, s) \in Seq(Sources) /\ Without(r.providers, {s}) \in Seq(Sources)
  BY WithoutIs DEF Registry
<1>2. ASSUME NEW names \in Seq(Sources)
      PROVE  /\ Invalidate([r EXCEPT !.providers = names]) \in Registry
             /\ Invalidate([r EXCEPT !.providers = names]).revision = r.revision + 1
  <2> DEFINE n == r.revision + 1
             q == [r EXCEPT !.providers = names]
  <2>1. n \in Nat /\ q \in Registry /\ q.revision = r.revision
    BY DEF Registry
  <2> HIDE DEF n, q
  <2>2. [q EXCEPT !.selected = Nothing, !.revision = n] \in Registry
        /\ [q EXCEPT !.selected = Nothing, !.revision = n].revision = n
    BY <2>1 DEF Registry
  <2>3. Invalidate(q) = [q EXCEPT !.selected = Nothing, !.revision = n]
    BY <2>1 DEF Invalidate, n
  <2> QED
    BY <2>2, <2>3 DEF n, q
<1> QED
  BY <1>1, <1>2 DEF AddProvider, RemoveProviders

LEMMA InfoType ==
  ASSUME NEW r \in Registry, NEW l \in AllLocales
  PROVE  InfoOf(r, l) \in Infos
<1>1. CASE r.selected = Nothing
  BY <1>1 DEF InfoOf, NoInfo, Infos
<1>2. CASE r.selected # Nothing
  <2>1. r.selected \in Selections
    BY <1>2 DEF Registry
  <2>2. ASSUME NEW c \in Components
        PROVE  Component(l, c, r.selected, TRUE) \in Candidates \cup {Nothing}
    BY <2>1, RegistryAssumption DEF Component, Selections
  <2>3. \A x \in Candidates : Path(x) \in Paths
    BY DEF Candidates, Path, Paths, Resources
  <2> QED
    BY <1>2, <2>2, <2>3 DEF InfoOf, MakeInfo, Infos
<1> QED
  BY <1>1, <1>2

-----------------------------------------------------------------------------
(* The selection.                                                           *)

For(cs, i, l, c) == cs[i].locale = l /\ cs[i].component = c
Outranks(cs, i, j) ==
    \/ Priority[cs[i].source] > Priority[cs[j].source]
    \/ Priority[cs[i].source] = Priority[cs[j].source] /\ i <= j

\* The candidates among the first k that no other of them outranks: one or none.
BestOf(cs, k, l, c) ==
    {i \in 1..k : For(cs, i, l, c) /\ \A j \in 1..k : For(cs, j, l, c) => Outranks(cs, i, j)}

\* After k candidates the selection is the best of them.
Best(cs, k, sel) ==
    \A l \in AllLocales, c \in Components :
        \/ sel[l, c] = Nothing /\ \A i \in 1..k : ~For(cs, i, l, c)
        \/ \E i \in BestOf(cs, k, l, c) : sel[l, c] = cs[i]

LEMMA PreferBest ==
  ASSUME NEW n \in Nat, NEW cs \in [1..n -> Candidates], NEW k \in Nat, k + 1 <= n,
         NEW sel \in Selections, Best(cs, k, sel)
  PROVE  Best(cs, k + 1, Prefer(sel, cs[k + 1]))
<1> DEFINE x == cs[k + 1]
           new == Prefer(sel, x)
<1>1. /\ k + 1 \in 1..n /\ (\A i \in 1..k : i \in 1..n /\ i \in 1..(k + 1))
      /\ k + 1 \in 1..(k + 1) /\ (\A i \in 1..(k + 1) : i \in 1..k \/ i = k + 1)
      /\ \A i \in 1..k : i <= k + 1
  OBVIOUS
<1>2. \A i \in 1..n : cs[i] \in Candidates /\ Priority[cs[i].source] \in Int
  <2>1. \A i \in 1..n : cs[i] \in Candidates
    OBVIOUS
  <2>2. \A y \in Candidates : Priority[y.source] \in Int
    BY RegistryAssumption DEF Candidates
  <2> QED
    BY <2>1, <2>2
<1>3. x \in Candidates /\ x # Nothing /\ \A i \in 1..n : cs[i] # Nothing
  BY <1>1, <1>2, NothingAssumption
<1> HIDE DEF new
<1>4. ASSUME NEW l \in AllLocales, NEW c \in Components
      PROVE  \/ new[l, c] = Nothing /\ \A i \in 1..(k + 1) : ~For(cs, i, l, c)
             \/ \E i \in BestOf(cs, k + 1, l, c) : new[l, c] = cs[i]
  <2>1. CASE ~For(cs, k + 1, l, c)
    <3>1. new[l, c] = sel[l, c]
      <4>1. <<l, c>> # <<x.locale, x.component>>
        BY <2>1 DEF For
      <4> QED
        BY <4>1 DEF new, Prefer, Selections
    <3>2. \A i \in BestOf(cs, k, l, c) : i \in BestOf(cs, k + 1, l, c)
      BY <1>1, <2>1 DEF BestOf
    <3>3. \A i \in 1..(k + 1) : For(cs, i, l, c) => i \in 1..k
      BY <1>1, <2>1
    <3> QED
      BY <3>1, <3>2, <3>3 DEF Best
  <2>2. CASE For(cs, k + 1, l, c)
    <3>1. x.locale = l /\ x.component = c
      BY <2>2 DEF For
    <3>2. CASE sel[l, c] = Nothing
      <4>1. new[l, c] = x
        BY <3>1, <3>2 DEF new, Prefer, Selections
      <4>2. \A i \in 1..k : ~For(cs, i, l, c)
        BY <1>1, <1>3, <3>2 DEF Best, BestOf
      <4>3. Outranks(cs, k + 1, k + 1)
        BY <1>1, <1>2 DEF Outranks
      <4>4. k + 1 \in BestOf(cs, k + 1, l, c)
        BY <1>1, <2>2, <4>2, <4>3 DEF BestOf
      <4> QED
        BY <4>1, <4>4
    <3>3. CASE sel[l, c] # Nothing
      <4>1. PICK i \in BestOf(cs, k, l, c) : sel[l, c] = cs[i]
        BY <3>3 DEF Best
      <4>2. /\ i \in 1..k /\ i \in 1..n /\ For(cs, i, l, c)
            /\ \A j \in 1..k : For(cs, j, l, c) => Outranks(cs, i, j)
        BY <1>1, <4>1 DEF BestOf
      <4>3. CASE Priority[x.source] > Priority[cs[i].source]
        <5>1. new[l, c] = x
          BY <3>1, <4>1, <4>3 DEF new, Prefer, Selections
        <5>2. ASSUME NEW j \in 1..(k + 1), For(cs, j, l, c) PROVE Outranks(cs, k + 1, j)
          <6>1. CASE j = k + 1
            BY <1>1, <1>2, <6>1 DEF Outranks
          <6>2. CASE j \in 1..k
            <7>1. Outranks(cs, i, j)
              BY <4>2, <5>2, <6>2
            <7>2. j \in 1..n
              BY <1>1, <6>2
            <7> QED
              BY <1>1, <1>2, <4>2, <4>3, <7>1, <7>2 DEF Outranks
          <6> QED
            BY <1>1, <6>1, <6>2
        <5>3. k + 1 \in BestOf(cs, k + 1, l, c)
          BY <1>1, <2>2, <5>2 DEF BestOf
        <5> QED
          BY <5>1, <5>3
      <4>4. CASE ~(Priority[x.source] > Priority[cs[i].source])
        <5>1. new[l, c] = cs[i]
          <6>1. new = sel
            BY <3>1, <3>3, <4>1, <4>4 DEF new, Prefer
          <6> QED
            BY <4>1, <6>1
        <5>2. Outranks(cs, i, k + 1)
          BY <1>1, <1>2, <4>2, <4>4 DEF Outranks
        <5>3. i \in BestOf(cs, k + 1, l, c)
          BY <1>1, <4>2, <5>2 DEF BestOf
        <5> QED
          BY <5>1, <5>3
      <4> QED
        BY <4>3, <4>4
    <3> QED
      BY <3>2, <3>3
  <2> QED
    BY <2>1, <2>2
<1> QED
  BY <1>4 DEF Best, new

LEMMA SelectBest ==
  ASSUME NEW n \in Nat, NEW cs \in [1..n -> Candidates]
  PROVE  Select(cs) \in Selections /\ Best(cs, n, Select(cs))
<1>1. cs \in Seq(Candidates) /\ Len(cs) = n
  OBVIOUS
<1>2. PICK g : SelectsBy(g, cs) /\ Select(cs) = g[n]
  BY <1>1, SelectRuns
<1>3. /\ g \in [0..n -> Selections] /\ g[0] = NoSelection
      /\ \A k \in 1..n : g[k] = Prefer(g[k - 1], cs[k])
  BY <1>1, <1>2 DEF SelectsBy
<1> DEFINE Holds == {k \in Nat : k <= n => Best(cs, k, g[k])}
<1>4. 0 \in Holds
  <2>1. \A i : i \notin 1..0
    OBVIOUS
  <2>2. Best(cs, 0, NoSelection)
    BY <2>1 DEF Best, NoSelection
  <2> QED
    BY <1>3, <2>2
<1>5. ASSUME NEW k \in Nat, k \in Holds PROVE k + 1 \in Holds
  <2> SUFFICES ASSUME k + 1 <= n PROVE Best(cs, k + 1, g[k + 1])
    OBVIOUS
  <2>1. k + 1 \in 1..n /\ (k + 1) - 1 = k /\ k <= n /\ k \in 0..n
    OBVIOUS
  <2>2. g[k + 1] = Prefer(g[k], cs[k + 1]) /\ g[k] \in Selections
    BY <1>3, <2>1
  <2>3. Best(cs, k, g[k])
    BY <1>5, <2>1
  <2> QED
    BY <2>2, <2>3, PreferBest
<1> HIDE DEF Holds
<1>6. n \in Holds
  BY <1>4, <1>5, SetInduction
<1>7. n \in 0..n
  OBVIOUS
<1> QED
  BY <1>2, <1>3, <1>6, <1>7 DEF Holds

\* One of several candidates for a locale and component is the best, or none.
LEMMA BestIsOne ==
  ASSUME NEW n \in Nat, NEW cs \in [1..n -> Candidates], NEW l, NEW c,
         NEW i \in BestOf(cs, n, l, c)
  PROVE  BestOf(cs, n, l, c) = {i}
<1> SUFFICES ASSUME NEW j \in BestOf(cs, n, l, c) PROVE j = i
  OBVIOUS
<1>1. i \in 1..n /\ j \in 1..n /\ Outranks(cs, i, j) /\ Outranks(cs, j, i)
  BY DEF BestOf
<1>2. Priority[cs[i].source] \in Int /\ Priority[cs[j].source] \in Int
  <2>1. cs[i] \in Candidates /\ cs[j] \in Candidates
    BY <1>1
  <2> QED
    BY <2>1, RegistryAssumption DEF Candidates
<1> QED
  BY <1>1, <1>2 DEF Outranks

\* The dictionary of a locale is the best candidate for it, or for its language, from any
\* sequence of candidates (_prefer and _component of registry.py).
THEOREM SelectionsFollowPriority == \A maxLength \in Nat : SelectionFollowsPriority(maxLength)
<1> SUFFICES ASSUME NEW maxLength \in Nat, NEW n \in 0..maxLength, NEW cs \in [1..n -> Candidates],
                    NEW l \in AllLocales, NEW c \in Components
             PROVE
               LET sel == Select(cs)
                   Expected(m) == IF BestOf(cs, n, m, c) = {} THEN {}
                                  ELSE {Path(cs[i]) : i \in BestOf(cs, n, m, c)}
                   Got(fallback) == LET p == MakeInfo(l, sel, fallback)[c]
                                    IN  IF p = Nothing THEN {} ELSE {p}
               IN  /\ Got(FALSE) = Expected(l)
                   /\ Got(TRUE) = IF Expected(l) # {} THEN Expected(l) ELSE Expected(LanguageOf[l])
  BY DEF SelectionFollowsPriority, BestOf, For, Outranks
<1> DEFINE sel == Select(cs)
           Expected(m) == IF BestOf(cs, n, m, c) = {} THEN {}
                          ELSE {Path(cs[i]) : i \in BestOf(cs, n, m, c)}
           Selected(m) == IF sel[m, c] = Nothing THEN {} ELSE {Path(sel[m, c])}
<1>1. n \in Nat /\ sel \in Selections /\ Best(cs, n, sel)
  BY SelectBest
<1> HIDE DEF sel
<1>2. ASSUME NEW m \in AllLocales PROVE Selected(m) = Expected(m)
  <2>1. CASE sel[m, c] = Nothing /\ \A i \in 1..n : ~For(cs, i, m, c)
    BY <2>1 DEF BestOf
  <2>2. ASSUME NEW i \in BestOf(cs, n, m, c), sel[m, c] = cs[i] PROVE Selected(m) = Expected(m)
    <3>1. BestOf(cs, n, m, c) = {i}
      BY <1>1, BestIsOne
    <3>2. i \in 1..n /\ cs[i] # Nothing
      BY NothingAssumption DEF BestOf
    <3> QED
      BY <2>2, <3>1, <3>2
  <2> QED
    BY <1>1, <2>1, <2>2 DEF Best
<1>3. LanguageOf[l] \in AllLocales
  BY RegistryAssumption
<1>4. ASSUME NEW y \in Candidates \cup {Nothing}, y # Nothing PROVE Path(y) # Nothing
  BY <1>4, NothingAssumption DEF Path, Paths, Resources, Candidates
<1> DEFINE Got(fallback) == LET p == MakeInfo(l, sel, fallback)[c]
                            IN  IF p = Nothing THEN {} ELSE {p}
<1>5. Got(FALSE) = Selected(l)
  <2>1. sel[l, c] \in Candidates \cup {Nothing}
    BY <1>1 DEF Selections
  <2>2. Component(l, c, sel, FALSE) = sel[l, c]
    BY DEF Component
  <2>3. MakeInfo(l, sel, FALSE)[c] = IF sel[l, c] = Nothing THEN Nothing ELSE Path(sel[l, c])
    BY <2>2 DEF MakeInfo
  <2> QED
    BY <1>4, <2>1, <2>3
<1>6. Got(TRUE) = IF sel[l, c] # Nothing THEN Selected(l) ELSE Selected(LanguageOf[l])
  <2>1. sel[l, c] \in Candidates \cup {Nothing} /\ sel[LanguageOf[l], c] \in Candidates \cup {Nothing}
    BY <1>1, <1>3 DEF Selections
  <2> DEFINE y == IF sel[l, c] # Nothing THEN sel[l, c] ELSE sel[LanguageOf[l], c]
  <2>2. Component(l, c, sel, TRUE) = y
    BY DEF Component
  <2>3. MakeInfo(l, sel, TRUE)[c] = IF y = Nothing THEN Nothing ELSE Path(y)
    BY <2>2 DEF MakeInfo
  <2> QED
    BY <1>4, <2>1, <2>3
<1>7. (sel[l, c] # Nothing) <=> (Expected(l) # {})
  BY <1>2
<1> QED
  BY <1>2, <1>3, <1>5, <1>6, <1>7 DEF sel

-----------------------------------------------------------------------------
(* Types, and what a call in each place is known to be.                     *)

Asking == {"check", "suggest", "lookup"}
Clearing == {"clear spelling", "clear thesaurus", "clear results"}

\* Where a call is, or goes on once the engines it drops are unloaded.
Place(r) == IF r.pc = "unload" THEN r.after ELSE r.pc

Call ==
    [pc : Points, op : AllCalls \cup {"none"}, l : Locales \cup {Nothing},
     w : Words \cup {Nothing}, c : Components, cache : Caches, rev : Nat,
     selected : Selections \cup {Nothing}, info : Infos, engine : Engines \cup {Nothing},
     keys : SUBSET Paths, todo : Seq(Engines),
     after : {"idle", "clear thesaurus", "clear results", "use", "drop"},
     current : BOOLEAN, wasOff : BOOLEAN]

\* The calls that come to a place.
Answering == {"cached", "recheck", "obtain", "use", "using", "put", "fail"}
Callers(place) ==
    IF place \in Answering \cup {"personal", "read", "gate"} THEN Asking
    ELSE IF place \in {"discover", "store", "sync", "compare", "reopen"} THEN Asking \cup {"refresh"}
    ELSE IF place \in Clearing THEN Asking \cup {"refresh", "close", "language"}
    ELSE IF place = "clear personal" THEN Asking \cup {"mutate"}
    ELSE IF place = "idle" THEN {"none"}
    ELSE Asking \cup {"retry"}

\* A call that asks for a word asks it of one component, whose dictionary it has by
\* the time it comes to the caches.
Asks(r) ==
    /\ r.op \in Callers(Place(r))
    /\ r.op \in Asking \cup {"retry", "mutate"} => r.l \in Locales
    /\ r.op \in Asking =>
        /\ r.w \in Words
        /\ r.cache = "thesaurus" <=> r.op = "lookup"
        /\ Place(r) \notin Clearing => r.c = ComponentOf(r.cache)
    /\ Place(r) \in Answering => r.info[r.c] # Nothing
    /\ r.pc = "unload" => r.todo # <<>>

Typed ==
    /\ plan \in Plans /\ reg \in Registry
    /\ seen \in Nat /\ seen <= reg.revision
    /\ failures \in [Pairs -> [path : Paths, current : BOOLEAN] \cup {Nothing}]
    /\ results \in [Caches -> Seq(Entry)]
    /\ backends \in [Components -> Seq(Cached)]
    /\ lock \in [Components -> Threads \cup {Free}]
    /\ loaded \subseteq Engines
    /\ user \in [Engines -> Threads \cup {Free}]
    /\ call \in [Threads -> Call]
    /\ \A t \in Threads : Asks(call[t]) /\ call[t].rev <= reg.revision

-----------------------------------------------------------------------------
(* Knowledge.                                                               *)

\* Calls that have noticed a change of the registry and not yet cleared the results.
Noticing(r) == r.op \notin {"close", "language"} /\ Place(r) \in Clearing

Unsettled == seen # reg.revision \/ \E t \in Threads : Noticing(call[t])

ResultsFresh ==
    \A k \in Caches : \A x \in Range(results[k]) :
        x.current => FromSnapshot(x.l, ComponentOf(k), x.path)
CallsFresh == \A t \in Threads : call[t].current => call[t].info = InfoOf(reg, call[t].l)
FailuresFresh ==
    \A p \in Pairs : failures[p] # Nothing =>
        (failures[p].current => FromSnapshot(p[1], p[2], failures[p].path))

\* While nobody is about to clear the results, they come from the dictionaries of the
\* registry, as does what the calls have read; so do the failures once reopened.
Knows ==
    /\ Unsettled \/ (ResultsFresh /\ CallsFresh)
    /\ Unsettled \/ (\E t \in Threads : At(t, "reopen")) \/ FailuresFresh

Informed == Typed /\ Knows

-----------------------------------------------------------------------------
(* Steps, by what they change.                                              *)

LEMMA InformedImplies == Informed => TypeOK /\ KnowledgeIsCurrent
<1> SUFFICES ASSUME Informed PROVE TypeOK /\ KnowledgeIsCurrent
  OBVIOUS
<1>1. TypeOK
  <2>1. reg.revision \in Nat
    BY DEF Informed, Typed, Registry
  <2>2. ASSUME NEW t \in Threads
        PROVE  /\ call[t].pc \in Points /\ call[t].op \in AllCalls \cup {"none"}
               /\ call[t].c \in Components /\ call[t].cache \in Caches
               /\ call[t].info \in Infos /\ call[t].engine \in Engines \cup {Nothing}
               /\ call[t].keys \subseteq Paths /\ call[t].todo \in Seq(Engines)
    <3>1. call[t] \in Call
      BY DEF Informed, Typed
    <3> QED
      BY <3>1 DEF Call
  <2> QED
    BY <2>1, <2>2 DEF Informed, Typed, TypeOK
<1>2. KnowledgeIsCurrent
  <2> SUFFICES ASSUME Synced PROVE ResultsFresh /\ FailuresFresh
    BY DEF KnowledgeIsCurrent, ResultsFresh, FailuresFresh
  <2>1. ASSUME NEW t \in Threads PROVE ~Noticing(call[t]) /\ ~At(t, "reopen")
    <3>1. call[t] \in Call /\ ~Syncing(t)
      BY DEF Informed, Typed, Synced
    <3> QED
      BY <3>1 DEF Call, Syncing, Noticing, Place, Clearing, At
  <2> QED
    BY <2>1 DEF Informed, Knows, Unsettled, Synced
<1> QED
  BY <1>1, <1>2

\* Steps that leave the registry and its revision alone.
LEMMA StaysInformed ==
  ASSUME Informed, UNCHANGED <<plan, reg, seen>>,
         failures' \in [Pairs -> [path : Paths, current : BOOLEAN] \cup {Nothing}],
         results' \in [Caches -> Seq(Entry)],
         backends' \in [Components -> Seq(Cached)],
         lock' \in [Components -> Threads \cup {Free}],
         loaded' \subseteq Engines,
         user' \in [Engines -> Threads \cup {Free}],
         call' \in [Threads -> Call],
         \A u \in Threads :
            /\ Asks(call'[u]) /\ call'[u].rev <= reg.revision
            /\ Noticing(call[u]) => Noticing(call'[u])
            /\ At(u, "reopen") => At(u, "reopen")'
            /\ call'[u].current =>
                 \/ call'[u].info = InfoOf(reg, call'[u].l)
                 \/ call[u].current /\ call'[u].info = call[u].info /\ call'[u].l = call[u].l,
         ResultsFresh /\ CallsFresh => ResultsFresh',
         CallsFresh /\ FailuresFresh => FailuresFresh'
  PROVE  Informed'
<1>1. Typed'
  <2>1. ASSUME NEW u \in Threads PROVE Asks(call[u])' /\ (call[u].rev <= reg.revision)'
    BY DEF Asks, Place, ComponentOf
  <2> QED
    BY <2>1 DEF Informed, Typed
<1>2. Unsettled => Unsettled'
  <2>1. ASSUME NEW u \in Threads, Noticing(call[u]) PROVE Noticing(call[u])'
    BY <2>1 DEF Noticing, Place
  <2> QED
    BY <2>1 DEF Unsettled
<1>3. CallsFresh => CallsFresh'
  <2> SUFFICES ASSUME CallsFresh, NEW u \in Threads, call'[u].current
               PROVE  call'[u].info = InfoOf(reg', call'[u].l)
    BY DEF CallsFresh, InfoOf, MakeInfo
  <2>1. CASE call'[u].info = InfoOf(reg, call'[u].l)
    BY <2>1
  <2>2. CASE call[u].current /\ call'[u].info = call[u].info /\ call'[u].l = call[u].l
    BY <2>2 DEF CallsFresh
  <2> QED
    BY <2>1, <2>2
<1> QED
  BY <1>1, <1>2, <1>3 DEF Informed, Knows

\* Nothing but what t does changes.
LEMMA OneStaysInformed ==
  ASSUME Informed, NEW t \in Threads, NEW r \in Call, Asks(r), r.rev <= reg.revision,
         UNCHANGED <<plan, reg, seen>>, call' = [call EXCEPT ![t] = r],
         failures' \in [Pairs -> [path : Paths, current : BOOLEAN] \cup {Nothing}],
         results' \in [Caches -> Seq(Entry)],
         backends' \in [Components -> Seq(Cached)],
         lock' \in [Components -> Threads \cup {Free}],
         loaded' \subseteq Engines,
         user' \in [Engines -> Threads \cup {Free}],
         Noticing(call[t]) => Noticing(r),
         ~At(t, "reopen"),
         r.current => \/ r.info = InfoOf(reg, r.l)
                      \/ call[t].current /\ r.info = call[t].info /\ r.l = call[t].l,
         ResultsFresh /\ CallsFresh => ResultsFresh',
         CallsFresh /\ FailuresFresh => FailuresFresh'
  PROVE  Informed'
<1>1. call' \in [Threads -> Call] /\ call'[t] = r /\ \A u \in Threads \ {t} : call'[u] = call[u]
  BY DEF Informed, Typed
<1>2. ASSUME NEW u \in Threads
      PROVE  /\ Asks(call'[u]) /\ call'[u].rev <= reg.revision
             /\ Noticing(call[u]) => Noticing(call'[u])
             /\ At(u, "reopen") => At(u, "reopen")'
             /\ call'[u].current =>
                  \/ call'[u].info = InfoOf(reg, call'[u].l)
                  \/ call[u].current /\ call'[u].info = call[u].info /\ call'[u].l = call[u].l
  <2>1. CASE u = t
    BY <1>1, <2>1
  <2>2. CASE u # t
    <3>1. call'[u] = call[u] /\ Asks(call[u]) /\ call[u].rev <= reg.revision
      BY <1>1, <2>2 DEF Informed, Typed
    <3> QED
      BY <3>1 DEF At
  <2> QED
    BY <2>1, <2>2
<1> QED
  BY <1>1, <1>2, StaysInformed

\* The same for a step that keeps results and failures.
LEMMA MovesInformed ==
  ASSUME Informed, NEW t \in Threads, NEW r \in Call, Asks(r), r.rev <= reg.revision,
         UNCHANGED <<plan, reg, seen, failures, results>>, call' = [call EXCEPT ![t] = r],
         backends' \in [Components -> Seq(Cached)],
         lock' \in [Components -> Threads \cup {Free}],
         loaded' \subseteq Engines,
         user' \in [Engines -> Threads \cup {Free}],
         Noticing(call[t]) => Noticing(r),
         ~At(t, "reopen"),
         r.current => \/ r.info = InfoOf(reg, r.l)
                      \/ call[t].current /\ r.info = call[t].info /\ r.l = call[t].l
  PROVE  Informed'
<1>1. /\ failures' \in [Pairs -> [path : Paths, current : BOOLEAN] \cup {Nothing}]
      /\ results' \in [Caches -> Seq(Entry)]
  BY DEF Informed, Typed
<1>2. (ResultsFresh => ResultsFresh') /\ (FailuresFresh => FailuresFresh')
  <2>1. \A l, c, path : FromSnapshot(l, c, path)' <=> FromSnapshot(l, c, path)
    BY DEF FromSnapshot, InfoOf, MakeInfo
  <2>2. ResultsFresh => ResultsFresh'
    BY <2>1 DEF ResultsFresh, ComponentOf
  <2>3. FailuresFresh => FailuresFresh'
    BY <2>1 DEF FailuresFresh
  <2> QED
    BY <2>2, <2>3
<1> QED
  BY <1>1, <1>2, OneStaysInformed

\* What a call is.
LEMMA CallIs ==
  ASSUME Informed, NEW t \in Threads
  PROVE  /\ call[t] \in Call /\ Asks(call[t]) /\ call[t].rev <= reg.revision
         /\ reg.revision \in Nat /\ reg \in Registry
         /\ backends \in [Components -> Seq(Cached)]
         /\ lock \in [Components -> Threads \cup {Free}] /\ loaded \subseteq Engines
         /\ user \in [Engines -> Threads \cup {Free}]
BY DEF Informed, Typed, Registry

\* Idle is a call.
LEMMA IdleIs == Idle \in Call /\ Asks(Idle) /\ ~Noticing(Idle) /\ Idle.rev = 0 /\ ~Idle.current
<1>1. Idle \in Call
  BY DEF Idle, Call, Points, AllCalls, Components, Caches, Infos, NoInfo
<1>2. Asks(Idle) /\ ~Noticing(Idle) /\ Idle.rev = 0 /\ ~Idle.current
  BY DEF Idle, Asks, Place, Callers, Answering, Clearing, Asking, Noticing
<1> QED
  BY <1>1, <1>2

\* A call goes on somewhere else with what it knows.
LEMMA GoneIs ==
  ASSUME NEW r \in Call, Asks(r), NEW pc \in Points \ {"unload"},
         r.pc # "unload", r.pc \notin Clearing,
         r.op \in Callers(pc), pc \in Answering => r.info[r.c] # Nothing
  PROVE  LET q == [r EXCEPT !.pc = pc]
         IN  /\ q \in Call /\ Asks(q) /\ ~Noticing(r)
             /\ q.rev = r.rev /\ q.current = r.current /\ q.info = r.info /\ q.l = r.l
<1> DEFINE q == [r EXCEPT !.pc = pc]
<1>1. q \in Call
  BY DEF Call
<1>2. /\ q.pc = pc /\ q.op = r.op /\ q.l = r.l /\ q.w = r.w /\ q.c = r.c /\ q.cache = r.cache
      /\ q.info = r.info /\ q.rev = r.rev /\ q.current = r.current /\ Place(q) = pc
      /\ Place(r) = r.pc
  BY DEF Call, Place
<1> HIDE DEF q
<1>3. Asks(q) /\ ~Noticing(r)
  BY <1>2 DEF Asks, Noticing
<1> QED
  BY <1>1, <1>2, <1>3 DEF q

LEMMA GoInformed ==
  ASSUME Informed, NEW t \in Threads, NEW pc \in Points \ {"unload"}, GoTo(t, pc),
         ~At(t, "unload"), call[t].pc \notin Clearing, ~At(t, "reopen"),
         call[t].op \in Callers(pc), pc \in Answering => PathOf(t) # Nothing,
         UNCHANGED <<plan, reg, seen, failures, results, backends, lock>>,
         loaded' \subseteq Engines,
         user' \in [Engines -> Threads \cup {Free}]
  PROVE  Informed'
<1> DEFINE q == [call[t] EXCEPT !.pc = pc]
<1>1. call[t] \in Call /\ Asks(call[t]) /\ call[t].rev <= reg.revision
  BY CallIs
<1>2. /\ q \in Call /\ Asks(q) /\ ~Noticing(call[t])
      /\ q.rev = call[t].rev /\ q.current = call[t].current
      /\ q.info = call[t].info /\ q.l = call[t].l
  BY <1>1, GoneIs DEF At, PathOf
<1>3. call' = [call EXCEPT ![t] = q]
  BY DEF GoTo
<1>4. backends' \in [Components -> Seq(Cached)] /\ lock' \in [Components -> Threads \cup {Free}]
  BY CallIs
<1> HIDE DEF q
<1> QED
  BY <1>1, <1>2, <1>3, <1>4, MovesInformed

LEMMA EndInformed ==
  ASSUME Informed, NEW t \in Threads, End(t),
         ~At(t, "unload"), call[t].pc \notin Clearing, ~At(t, "reopen"),
         UNCHANGED <<plan, reg, seen, failures, results, store, user>>
  PROVE  Informed'
<1>1. call[t] \in Call /\ reg.revision \in Nat /\ call' = [call EXCEPT ![t] = Idle]
  BY CallIs DEF End
<1>2. ~Noticing(call[t])
  BY DEF Noticing, Place, At
<1>3. /\ backends' \in [Components -> Seq(Cached)] /\ lock' \in [Components -> Threads \cup {Free}]
      /\ loaded' \subseteq Engines /\ user' \in [Engines -> Threads \cup {Free}]
  BY CallIs DEF store
<1>4. Idle.rev <= reg.revision
  BY <1>1, IdleIs
<1> QED
  BY <1>1, <1>2, <1>3, <1>4, IdleIs, MovesInformed

-----------------------------------------------------------------------------
(* Beginnings, questions and the information of a dictionary.               *)

\* A call begins, with what it needs where it starts.
Begins(t, op, l, c, w, pc) ==
    /\ Start(t, op, l, c, w, pc)
    /\ op \in AllCalls \ {"retry"} /\ l \in Locales \cup {Nothing} /\ c \in Components
    /\ w \in Words \cup {Nothing} /\ pc \in Points \ {"idle", "unload"}
    /\ op \in Callers(pc) /\ pc \notin Answering
    /\ op \in Asking => w \in Words /\ pc \notin Clearing /\ (c = "thesaurus" <=> op = "lookup")
    /\ op \in Asking \cup {"mutate"} => l \in Locales

LEMMA BeginInformed ==
  ASSUME Informed, NEW t \in Threads,
         BeginCheck(t) \/ BeginLookup(t) \/ BeginRefresh(t) \/ BeginMutate(t)
           \/ BeginClose(t) \/ BeginLanguage(t)
  PROVE  Informed'
<1>1. At(t, "idle") /\ UNCHANGED <<plan, reg, seen, failures, results, store, user>>
  BY DEF BeginCheck, BeginLookup, BeginRefresh, BeginMutate, BeginClose, BeginLanguage
<1>2. \E op, l, c, w, pc : Begins(t, op, l, c, w, pc)
  <2>0. "spelling" \in Components /\ "thesaurus" \in Components
    BY DEF Components
  <2>1. CASE BeginCheck(t)
    <3>1. PICK op \in {"check", "suggest"}, l \in Locales, w \in Words :
            Start(t, op, l, "spelling", w, "personal")
      BY <2>1 DEF BeginCheck
    <3>2. Begins(t, op, l, "spelling", w, "personal")
      BY <2>0, <3>1 DEF Begins, AllCalls, Points, Callers, Answering, Asking, Clearing
    <3> QED
      BY <3>2
  <2>2. CASE BeginLookup(t)
    <3>1. PICK l \in Locales, w \in Words : Start(t, "lookup", l, "thesaurus", w, "discover")
      BY <2>2 DEF BeginLookup
    <3>2. Begins(t, "lookup", l, "thesaurus", w, "discover")
      BY <2>0, <3>1 DEF Begins, AllCalls, Points, Callers, Answering, Asking, Clearing
    <3> QED
      BY <3>2
  <2>3. CASE BeginRefresh(t)
    <3>1. Start(t, "refresh", Nothing, "spelling", Nothing, "discover")
      BY <2>3 DEF BeginRefresh
    <3>2. Begins(t, "refresh", Nothing, "spelling", Nothing, "discover")
      BY <2>0, <3>1 DEF Begins, AllCalls, Points, Callers, Answering, Asking, Clearing
    <3> QED
      BY <3>2
  <2>4. CASE BeginMutate(t)
    <3>1. PICK l \in Locales : Start(t, "mutate", l, "spelling", Nothing, "clear personal")
      BY <2>4 DEF BeginMutate
    <3>2. Begins(t, "mutate", l, "spelling", Nothing, "clear personal")
      BY <2>0, <3>1 DEF Begins, AllCalls, Points, Callers, Answering, Asking, Clearing
    <3> QED
      BY <3>2
  <2>5. CASE BeginClose(t)
    <3>1. Start(t, "close", Nothing, "spelling", Nothing, "clear spelling")
      BY <2>5 DEF BeginClose
    <3>2. Begins(t, "close", Nothing, "spelling", Nothing, "clear spelling")
      BY <2>0, <3>1 DEF Begins, AllCalls, Points, Callers, Answering, Asking, Clearing
    <3> QED
      BY <3>2
  <2>6. CASE BeginLanguage(t)
    <3>1. Start(t, "language", Nothing, "spelling", Nothing, "clear results")
      BY <2>6 DEF BeginLanguage
    <3>2. Begins(t, "language", Nothing, "spelling", Nothing, "clear results")
      BY <2>0, <3>1 DEF Begins, AllCalls, Points, Callers, Answering, Asking, Clearing
    <3> QED
      BY <3>2
  <2> QED
    BY <2>1, <2>2, <2>3, <2>4, <2>5, <2>6
<1>3. PICK op, l, c, w, pc : Begins(t, op, l, c, w, pc)
  BY <1>2
<1> DEFINE off == l # Nothing /\ failures[l, c] # Nothing
           r == [Idle EXCEPT !.pc = pc, !.op = op, !.l = l, !.w = w, !.c = c, !.cache = c,
                             !.wasOff = off]
<1>4. call' = [call EXCEPT ![t] = r]
  BY <1>3 DEF Begins, Start
<1> HIDE DEF off
<1>5. off \in BOOLEAN /\ c \in Caches
  BY <1>3 DEF off, Begins, Components, Caches
<1>6. /\ r \in Call
      /\ r.pc = pc /\ r.op = op /\ r.l = l /\ r.w = w /\ r.c = c /\ r.cache = c
      /\ r.rev = 0 /\ r.current = FALSE
  <2>1. /\ op \in AllCalls \cup {"none"} /\ l \in Locales \cup {Nothing} /\ c \in Components
        /\ w \in Words \cup {Nothing} /\ pc \in Points
    BY <1>3 DEF Begins
  <2>2. r \in Call
    BY <1>5, <2>1, IdleIs DEF Call
  <2>3. Idle \in Call /\ Idle.rev = 0 /\ Idle.current = FALSE
    BY IdleIs DEF Idle
  <2> QED
    BY <2>2, <2>3 DEF Call
<1> HIDE DEF r
<1>7. Asks(r)
  BY <1>3, <1>6 DEF Begins, Asks, Place, ComponentOf, Components
<1>8. /\ backends' \in [Components -> Seq(Cached)] /\ lock' \in [Components -> Threads \cup {Free}]
      /\ loaded' \subseteq Engines /\ user' \in [Engines -> Threads \cup {Free}]
      /\ reg.revision \in Nat
  BY <1>1, CallIs DEF store
<1>9. ~Noticing(call[t]) /\ ~At(t, "reopen") /\ r.rev <= reg.revision
  BY <1>1, <1>6, <1>8 DEF Noticing, Place, At, Clearing
<1> QED
  BY <1>1, <1>4, <1>6, <1>7, <1>8, <1>9, MovesInformed

LEMMA AskPersonalInformed ==
  ASSUME Informed, NEW t \in Threads, AskPersonal(t) PROVE Informed'
<1>1. /\ At(t, "personal") /\ UNCHANGED <<plan, reg, seen, failures, results, store, user>>
      /\ call[t] \in Call /\ Asks(call[t])
  BY CallIs DEF AskPersonal
<1>2. call[t].op \in Asking
  BY <1>1 DEF At, Asks, Place, Callers
<1>3. CASE End(t)
  BY <1>1, <1>3, EndInformed DEF At, Clearing
<1>4. ASSUME NEW pc \in {"clear personal", "discover"}, GoTo(t, pc) PROVE Informed'
  <2>1. pc \in Points \ {"unload"} /\ pc \notin Answering /\ call[t].op \in Callers(pc)
    BY <1>2, <1>4 DEF Points, Answering, Callers, Clearing
  <2>2. loaded' \subseteq Engines /\ user' \in [Engines -> Threads \cup {Free}]
    BY <1>1, CallIs DEF store
  <2> QED
    BY <1>1, <1>4, <2>1, <2>2, GoInformed DEF At, Clearing, store
<1> QED
  BY <1>3, <1>4 DEF AskPersonal

LEMMA GateInformed ==
  ASSUME Informed, NEW t \in Threads, Gate(t) \/ Recheck(t) PROVE Informed'
<1>1. /\ At(t, "gate") \/ At(t, "recheck")
      /\ UNCHANGED <<plan, reg, seen, failures, results, store, user>>
      /\ call[t] \in Call /\ Asks(call[t])
  BY CallIs DEF Gate, Recheck
<1>2. call[t].op \in Asking /\ (At(t, "recheck") => PathOf(t) # Nothing)
  BY <1>1 DEF At, Asks, Place, Callers, Answering, PathOf
<1>3. CASE End(t)
  BY <1>1, <1>3, EndInformed DEF At, Clearing
<1>4. ASSUME NEW pc \in {"cached", "obtain"}, GoTo(t, pc), PathOf(t) # Nothing PROVE Informed'
  <2>1. pc \in Points \ {"unload"} /\ call[t].op \in Callers(pc)
    BY <1>2, <1>4 DEF Points, Answering, Callers
  <2>2. loaded' \subseteq Engines /\ user' \in [Engines -> Threads \cup {Free}]
    BY <1>1, CallIs DEF store
  <2> QED
    BY <1>1, <1>4, <2>1, <2>2, GoInformed DEF At, Clearing, store
<1>5. End(t) \/ (\E pc \in {"cached", "obtain"} : GoTo(t, pc) /\ PathOf(t) # Nothing)
  BY <1>2 DEF Gate, Recheck
<1> QED
  BY <1>3, <1>4, <1>5

LEMMA DiscoverInformed ==
  ASSUME Informed, ServiceAssumption, NEW t \in Threads, Discover(t) PROVE Informed'
<1>1. /\ At(t, "discover") /\ UNCHANGED <<plan, reg, seen, failures, results, store, user>>
      /\ call[t] \in Call /\ Asks(call[t]) /\ call[t].rev <= reg.revision /\ reg \in Registry
  BY CallIs DEF Discover
<1>2. call[t].op \in Asking \cup {"refresh"}
  BY <1>1 DEF At, Asks, Place, Callers, Answering
<1>3. /\ backends' \in [Components -> Seq(Cached)] /\ lock' \in [Components -> Threads \cup {Free}]
      /\ loaded' \subseteq Engines /\ user' \in [Engines -> Threads \cup {Free}]
  BY <1>1, CallIs DEF store
<1>4. CASE GoTo(t, "read") /\ call[t].op # "refresh"
  <2>1. "read" \in Points \ {"unload"} /\ "read" \notin Answering /\ call[t].op \in Callers("read")
    BY <1>2, <1>4 DEF Points, Answering, Callers
  <2> QED
    BY <1>1, <1>3, <1>4, <2>1, GoInformed DEF At, Clearing, store
<1>5. ASSUME NEW disk \in plan.disks,
             call' = [call EXCEPT ![t].pc = "store", ![t].selected = Select(Query(reg.providers, disk))]
      PROVE  Informed'
  <2>1. disk \in Disks
    BY ServiceAssumption DEF Informed, Typed, Disks
  <2> DEFINE sel == Select(Query(reg.providers, disk))
  <2>2. sel \in Selections
    BY <1>1, <2>1, DiscoveryType
  <2> HIDE DEF sel
  <2> DEFINE r == [call[t] EXCEPT !.pc = "store", !.selected = sel]
  <2>3. call' = [call EXCEPT ![t] = r]
    BY <1>5 DEF sel
  <2>4. /\ r \in Call /\ Place(r) = "store" /\ r.pc = "store" /\ r.op = call[t].op /\ r.l = call[t].l
        /\ r.w = call[t].w /\ r.c = call[t].c /\ r.cache = call[t].cache
        /\ r.info = call[t].info /\ r.rev = call[t].rev /\ r.current = call[t].current
    <3> DEFINE q == call[t]
    <3>1. q \in Call /\ "store" \in Points
      BY <1>1 DEF Points
    <3> HIDE DEF q
    <3>2. r \in Call
      BY <2>2, <3>1 DEF Call, q
    <3> QED
      BY <3>1, <3>2 DEF Call, Place, q
  <2>5. Place(call[t]) = "discover" /\ ~Noticing(call[t]) /\ ~At(t, "reopen")
    BY <1>1 DEF Place, At, Noticing, Clearing
  <2> HIDE DEF r
  <2>6. Asks(r)
    BY <1>1, <1>2, <2>4, <2>5 DEF Asks, Callers, Answering, Clearing
  <2> QED
    BY <1>1, <1>3, <2>3, <2>4, <2>5, <2>6, MovesInformed
<1> QED
  BY <1>4, <1>5 DEF Discover

LEMMA ReadInformed ==
  ASSUME Informed, ServiceAssumption, NEW t \in Threads, ReadInfo(t) \/ ReadRevision(t)
  PROVE  Informed'
<1>1. /\ At(t, "read") \/ At(t, "sync")
      /\ UNCHANGED <<plan, reg, seen, failures, results, store, user>>
      /\ call[t] \in Call /\ Asks(call[t]) /\ call[t].rev <= reg.revision /\ reg \in Registry
      /\ reg.revision \in Nat
  BY CallIs DEF ReadInfo, ReadRevision
<1>2. /\ backends' \in [Components -> Seq(Cached)] /\ lock' \in [Components -> Threads \cup {Free}]
      /\ loaded' \subseteq Engines /\ user' \in [Engines -> Threads \cup {Free}]
  BY <1>1, CallIs DEF store
<1>3. Place(call[t]) = call[t].pc /\ ~Noticing(call[t]) /\ ~At(t, "reopen")
  BY <1>1 DEF Place, At, Noticing, Clearing
<1>4. CASE ReadInfo(t)
  <2>1. call[t].op \in Asking /\ call[t].l \in Locales
    BY <1>4, <1>3, <1>1 DEF ReadInfo, At, Asks, Callers
  <2> DEFINE i == InfoOf(reg, call[t].l)
             r == [call[t] EXCEPT !.info = i, !.current = TRUE, !.pc = "sync"]
  <2>2. i \in Infos
    BY <1>1, <2>1, InfoType, ServiceAssumption
  <2>3. call' = [call EXCEPT ![t] = r]
    BY <1>4 DEF ReadInfo
  <2> HIDE DEF i
  <2>4. /\ r \in Call /\ Place(r) = "sync" /\ r.pc = "sync" /\ r.op = call[t].op /\ r.l = call[t].l
        /\ r.w = call[t].w /\ r.c = call[t].c /\ r.cache = call[t].cache
        /\ r.info = i /\ r.rev = call[t].rev
    <3> DEFINE q == call[t]
    <3>1. q \in Call /\ "sync" \in Points
      BY <1>1 DEF Points
    <3> HIDE DEF q
    <3>2. r \in Call
      BY <2>2, <3>1 DEF Call, q
    <3> QED
      BY <3>1, <3>2 DEF Call, Place, q
  <2>5. r.info = InfoOf(reg, r.l)
    BY <2>4 DEF i
  <2> HIDE DEF r
  <2>6. Asks(r)
    BY <1>1, <1>3, <1>4, <2>1, <2>4 DEF Asks, Callers, Answering, Clearing, ReadInfo, At
  <2> QED
    BY <1>1, <1>2, <1>3, <2>3, <2>4, <2>5, <2>6, MovesInformed
<1>5. CASE ReadRevision(t)
  <2> DEFINE n == reg.revision
             r == [call[t] EXCEPT !.rev = n, !.pc = "compare"]
  <2>1. call' = [call EXCEPT ![t] = r]
    BY <1>5 DEF ReadRevision
  <2>2. n \in Nat /\ n <= reg.revision
    BY <1>1
  <2> HIDE DEF n
  <2>3. /\ r \in Call /\ Place(r) = "compare" /\ r.pc = "compare" /\ r.op = call[t].op
        /\ r.l = call[t].l /\ r.w = call[t].w /\ r.c = call[t].c /\ r.cache = call[t].cache
        /\ r.info = call[t].info /\ r.rev = n /\ r.current = call[t].current
    <3> DEFINE q == call[t]
    <3>1. q \in Call /\ "compare" \in Points
      BY <1>1 DEF Points
    <3> HIDE DEF q
    <3>2. r \in Call
      BY <2>2, <3>1 DEF Call, q
    <3> QED
      BY <3>1, <3>2 DEF Call, Place, q
  <2> HIDE DEF r
  <2>4. Asks(r)
    BY <1>1, <1>3, <1>5, <2>3 DEF Asks, Callers, Answering, Clearing, ReadRevision, At
  <2> QED
    BY <1>1, <1>2, <1>3, <2>1, <2>2, <2>3, <2>4, MovesInformed
<1> QED
  BY <1>4, <1>5

-----------------------------------------------------------------------------
(* The revision of the registry.                                            *)

\* The lemmas below speak of the other state together.
StoreTyped ==
    /\ backends \in [Components -> Seq(Cached)]
    /\ lock \in [Components -> Threads \cup {Free}]
    /\ loaded \subseteq Engines
    /\ user \in [Engines -> Threads \cup {Free}]

LEMMA StoreStaysTyped ==
  ASSUME Informed, UNCHANGED <<store, user>> PROVE StoreTyped'
BY DEF Informed, Typed, StoreTyped, store

\* After another revision of the registry nothing is settled.
LEMMA RevisionMoves ==
  ASSUME Informed, StoreTyped', UNCHANGED <<plan, seen, failures, results>>,
         reg' \in Registry, reg'.revision = reg.revision + 1,
         call' \in [Threads -> Call],
         \A u \in Threads : Asks(call'[u]) /\ call'[u].rev <= reg.revision
  PROVE  Informed'
<1>1. reg.revision \in Nat /\ seen \in Nat /\ seen <= reg.revision
  BY DEF Informed, Typed, Registry
<1>2. ASSUME NEW u \in Threads PROVE Asks(call[u])' /\ (call[u].rev <= reg.revision)'
  <2>1. Asks(call[u])'
    BY DEF Asks, Place, ComponentOf
  <2>2. call'[u].rev \in Nat /\ call'[u].rev <= reg.revision
    BY DEF Call
  <2> QED
    BY <1>1, <2>1, <2>2
<1>3. seen' <= reg'.revision /\ seen' # reg'.revision
  BY <1>1
<1>4. Typed'
  BY <1>1, <1>2, <1>3 DEF Informed, Typed, StoreTyped
<1> QED
  BY <1>3, <1>4 DEF Informed, Knows, Unsettled

\* The host's changes of the registry raise its revision.
LEMMA ChangeRegistryCounts ==
  ASSUME Informed, ServiceAssumption, ChangeRegistry
  PROVE  reg' \in Registry /\ reg'.revision = reg.revision + 1
<1>1. reg \in Registry /\ plan \in Plans
  BY DEF Informed, Typed
<1>2. ASSUME NEW s \in Removable,
             reg' = IF s \in Range(reg.providers) THEN RemoveProviders(reg, s) ELSE AddProvider(reg, s)
      PROVE  reg' \in Registry /\ reg'.revision = reg.revision + 1
  <2>1. s \in Sources
    BY ServiceAssumption
  <2> QED
    BY <1>1, <1>2, <2>1, ProvidersType
<1>3. ASSUME NEW disk \in plan.disks, reg' = StoreDiscovery(reg, Query(reg.providers, disk))
      PROVE  reg' \in Registry /\ reg'.revision = reg.revision + 1
  <2>1. disk \in Disks
    BY <1>1, ServiceAssumption DEF Disks
  <2> QED
    BY <1>1, <1>3, <2>1, DiscoveryType
<1> QED
  BY <1>2, <1>3 DEF ChangeRegistry

LEMMA ChangeRegistryInformed ==
  ASSUME Informed, ServiceAssumption, ChangeRegistry PROVE Informed'
<1>1. /\ call \in [Threads -> Call]
      /\ \A u \in Threads : Asks(call[u]) /\ call[u].rev <= reg.revision
  BY DEF Informed, Typed
<1>2. UNCHANGED <<plan, seen, failures, results, store, user, call>>
  BY DEF ChangeRegistry
<1> QED
  BY <1>1, <1>2, ChangeRegistryCounts, RevisionMoves, StoreStaysTyped

LEMMA StoreFoundInformed ==
  ASSUME Informed, NEW t \in Threads, StoreFound(t) PROVE Informed'
<1>1. /\ At(t, "store") /\ UNCHANGED <<plan, seen, failures, results, store, user>>
      /\ call[t] \in Call /\ Asks(call[t]) /\ reg \in Registry /\ reg.revision \in Nat
      /\ call \in [Threads -> Call] /\ call[t].rev <= reg.revision
  BY CallIs DEF StoreFound, Informed, Typed
<1>2. call[t].op \in Asking \cup {"refresh"} /\ Place(call[t]) = "store"
  BY <1>1 DEF At, Asks, Place, Callers, Answering
<1> DEFINE pc == IF call[t].op = "refresh" THEN "sync" ELSE "read"
           r == [call[t] EXCEPT !.selected = Nothing, !.pc = pc]
<1>3. call' = [call EXCEPT ![t] = r]
  BY <1>1 DEF StoreFound
<1>4. pc \in {"sync", "read"} /\ call[t].op \in Callers(pc)
  BY <1>2 DEF Callers, Answering
<1> HIDE DEF pc
<1>5. /\ r \in Call /\ Place(r) = pc /\ r.pc = pc /\ r.op = call[t].op /\ r.l = call[t].l
      /\ r.w = call[t].w /\ r.c = call[t].c /\ r.cache = call[t].cache
      /\ r.info = call[t].info /\ r.rev = call[t].rev
  <2> DEFINE q == call[t]
  <2>1. q \in Call /\ pc \in Points /\ pc # "unload"
    BY <1>1, <1>4 DEF Points
  <2> HIDE DEF q
  <2>2. r \in Call
    BY <2>1 DEF Call, q
  <2> QED
    BY <2>1, <2>2 DEF Call, Place, q
<1> HIDE DEF r
<1>6. Asks(r)
  BY <1>1, <1>2, <1>4, <1>5 DEF Asks, Answering, Clearing
<1>7. ASSUME NEW u \in Threads PROVE Asks(call'[u]) /\ call'[u].rev <= reg.revision
  <2>1. CASE u = t
    BY <1>1, <1>3, <1>5, <1>6, <2>1
  <2>2. CASE u # t
    BY <1>3, <2>2 DEF Informed, Typed
  <2> QED
    BY <2>1, <2>2
<1>8. call' \in [Threads -> Call]
  BY <1>1, <1>3, <1>5
<1>9. reg' \in Registry /\ reg'.revision = reg.revision + 1
  <2> DEFINE n == reg.revision + 1
             sel == call[t].selected
  <2>1. reg' = [reg EXCEPT !.selected = sel, !.revision = n]
    BY DEF StoreFound
  <2>2. sel \in Selections \cup {Nothing} /\ n \in Nat
    <3>1. reg.revision \in Nat /\ call[t] \in Call
      BY <1>1
    <3>2. n \in Nat
      BY <3>1
    <3> QED
      BY <3>1, <3>2 DEF Call
  <2> HIDE DEF n, sel
  <2>3. reg' \in Registry /\ reg'.revision = n
    BY <1>1, <2>1, <2>2 DEF Registry
  <2> QED
    BY <2>3 DEF n
<1> QED
  BY <1>1, <1>7, <1>8, <1>9, RevisionMoves, StoreStaysTyped

LEMMA CompareRevisionInformed ==
  ASSUME Informed, NEW t \in Threads, CompareRevision(t) PROVE Informed'
<1>1. /\ At(t, "compare") /\ UNCHANGED <<plan, reg, failures, results, store, user>>
      /\ call[t] \in Call /\ Asks(call[t]) /\ reg \in Registry /\ reg.revision \in Nat
      /\ call \in [Threads -> Call] /\ call[t].rev <= reg.revision /\ seen' = call[t].rev
  BY CallIs DEF CompareRevision, Informed, Typed
<1>2. call[t].op \in Asking \cup {"refresh"} /\ Place(call[t]) = "compare" /\ ~Noticing(call[t])
      /\ ~At(t, "reopen")
  BY <1>1 DEF At, Asks, Place, Callers, Answering, Noticing, Clearing
<1>3. StoreTyped'
  BY <1>1, StoreStaysTyped
<1>4. CASE End(t) /\ call[t].rev = seen
  BY <1>1, <1>4, EndInformed DEF At, Clearing
<1>8. 0 <= reg.revision
  <2>1. reg.revision \in Nat
    BY <1>1
  <2> QED
    BY <2>1
<1>5. ASSUME NEW pc \in {"gate", "clear spelling"}, call' = [call EXCEPT ![t].pc = pc, ![t].rev = 0],
             pc = "gate" => call[t].op # "refresh" /\ call[t].rev = seen
      PROVE  Informed'
  <2> DEFINE r == [call[t] EXCEPT !.pc = pc, !.rev = 0]
  <2>1. call' = [call EXCEPT ![t] = r]
    BY <1>5
  <2>2. /\ r \in Call /\ Place(r) = pc /\ r.pc = pc /\ r.op = call[t].op /\ r.l = call[t].l
        /\ r.w = call[t].w /\ r.c = call[t].c /\ r.cache = call[t].cache
        /\ r.info = call[t].info /\ r.rev = 0 /\ r.current = call[t].current
    <3> DEFINE q == call[t]
    <3>1. q \in Call /\ pc \in Points /\ pc # "unload"
      BY <1>1, <1>5 DEF Points
    <3> HIDE DEF q
    <3>2. r \in Call
      BY <3>1 DEF Call, q
    <3> QED
      BY <3>1, <3>2 DEF Call, Place, q
  <2> HIDE DEF r
  <2>3. Asks(r)
    BY <1>1, <1>2, <1>5, <2>2 DEF Asks, Answering, Clearing, Callers
  <2>5. CASE pc = "gate"
    <3>1. seen' = seen
      BY <1>1, <1>5, <2>5
    <3> QED
      BY <1>1, <1>2, <1>3, <2>1, <2>2, <1>8, <2>3, <3>1, MovesInformed DEF StoreTyped
  <2>6. CASE pc = "clear spelling"
    <3>1. Noticing(r)
      BY <1>2, <2>2, <2>6 DEF Noticing, Clearing, Asking
    <3>2. /\ call' \in [Threads -> Call] /\ call'[t] = r
          /\ \A u \in Threads \ {t} : call'[u] = call[u]
      BY <1>1, <2>1, <2>2
    <3>3. Unsettled'
      BY <3>1, <3>2 DEF Unsettled, Noticing, Place
    <3>4. ASSUME NEW u \in Threads PROVE Asks(call[u])' /\ (call[u].rev <= reg.revision)'
      <4>1. Asks(call'[u]) /\ call'[u].rev <= reg.revision
        <5>1. CASE u = t
          BY <2>2, <1>8, <2>3, <3>2, <5>1
        <5>2. CASE u # t
          BY <3>2, <5>2 DEF Informed, Typed
        <5> QED
          BY <5>1, <5>2
      <4> QED
        BY <1>1, <4>1 DEF Asks, Place, ComponentOf
    <3>5. seen' \in Nat /\ seen' <= reg'.revision
      BY <1>1 DEF Call
    <3>6. Typed'
      BY <1>1, <1>3, <3>2, <3>4, <3>5 DEF Informed, Typed, StoreTyped
    <3> QED
      BY <3>3, <3>6 DEF Informed, Knows
  <2> QED
    BY <2>5, <2>6
<1>6. CASE call[t].rev = seen
  BY <1>4, <1>5, <1>6 DEF CompareRevision, AfterSync
<1>7. CASE call[t].rev # seen
  BY <1>5, <1>7 DEF CompareRevision
<1> QED
  BY <1>6, <1>7

LEMMA OutdatedIs ==
  ASSUME NEW r \in Call, Asks(r)
  PROVE  LET q == [r EXCEPT !.current = FALSE]
         IN  /\ q \in Call /\ Asks(q) /\ Noticing(q) = Noticing(r)
             /\ q.rev = r.rev /\ q.current = FALSE /\ q.pc = r.pc /\ Place(q) = Place(r)
<1> DEFINE q == [r EXCEPT !.current = FALSE]
<1>1. q \in Call
  BY DEF Call
<1>2. /\ q.pc = r.pc /\ q.op = r.op /\ q.l = r.l /\ q.w = r.w /\ q.c = r.c /\ q.cache = r.cache
      /\ q.info = r.info /\ q.rev = r.rev /\ q.current = FALSE /\ q.after = r.after
      /\ q.todo = r.todo
  BY DEF Call
<1> HIDE DEF q
<1>3. Place(q) = Place(r)
  BY <1>2 DEF Place
<1>4. Asks(q) /\ Noticing(q) = Noticing(r)
  BY <1>2, <1>3 DEF Asks, Noticing
<1> QED
  BY <1>1, <1>2, <1>3, <1>4 DEF q

LEMMA WasOffIs ==
  ASSUME NEW r \in Call, Asks(r), NEW off \in BOOLEAN
  PROVE  LET q == [r EXCEPT !.wasOff = off]
         IN  /\ q \in Call /\ Asks(q) /\ Noticing(q) = Noticing(r) /\ q.current = r.current
             /\ q.rev = r.rev /\ q.pc = r.pc /\ q.info = r.info /\ q.l = r.l /\ Place(q) = Place(r)
<1> DEFINE q == [r EXCEPT !.wasOff = off]
<1>1. q \in Call
  BY DEF Call
<1>2. /\ q.pc = r.pc /\ q.op = r.op /\ q.l = r.l /\ q.w = r.w /\ q.c = r.c /\ q.cache = r.cache
      /\ q.info = r.info /\ q.rev = r.rev /\ q.current = r.current /\ q.after = r.after
      /\ q.todo = r.todo
  BY DEF Call
<1> HIDE DEF q
<1>3. Place(q) = Place(r)
  BY <1>2 DEF Place
<1>4. Asks(q) /\ Noticing(q) = Noticing(r)
  BY <1>2, <1>3 DEF Asks, Noticing
<1> QED
  BY <1>1, <1>2, <1>3, <1>4 DEF q

LEMMA ClearResultsInformed ==
  ASSUME Informed, NEW t \in Threads, ClearResults(t) PROVE Informed'
<1>1. /\ At(t, "clear results") /\ UNCHANGED <<plan, reg, seen, failures, store, user>>
      /\ results' = [k \in Caches |-> <<>>]
      /\ call[t] \in Call /\ Asks(call[t]) /\ reg.revision \in Nat /\ call[t].rev <= reg.revision
  BY CallIs DEF ClearResults
<1>2. Place(call[t]) = "clear results"
  BY <1>1 DEF At, Place
<1>3. StoreTyped'
  BY <1>1, StoreStaysTyped
<1> DEFINE c == IF call[t].op = "lookup" THEN "thesaurus" ELSE "spelling"
           q == Outdated(t)
           r == [q EXCEPT !.pc = "reopen", !.c = c]
<1>4. /\ q \in Call /\ Asks(q) /\ q.rev = call[t].rev /\ q.current = FALSE
      /\ q.op = call[t].op /\ Place(q) = "clear results"
  <2>1. q.op = call[t].op
    BY <1>1 DEF Outdated, Call
  <2> QED
    BY <1>1, <1>2, <2>1, OutdatedIs DEF Outdated
<1>5. ASSUME call[t].op \notin {"close", "language"}
      PROVE  r \in Call /\ Asks(r) /\ r.rev = call[t].rev /\ r.current = FALSE /\ r.pc = "reopen"
  <2>1. /\ c \in Components /\ (c = "thesaurus" <=> call[t].op = "lookup")
        /\ (call[t].op # "lookup" => c = "spelling")
    BY DEF Components
  <2> HIDE DEF c, q
  <2>2. r \in Call
    <3>1. "reopen" \in Points
      BY DEF Points
    <3> QED
      BY <1>4, <2>1, <3>1 DEF Call
  <2>3. /\ r.pc = "reopen" /\ r.op = q.op /\ r.l = q.l /\ r.w = q.w /\ r.c = c
        /\ r.cache = q.cache /\ r.info = q.info /\ r.rev = q.rev /\ r.current = q.current
    BY <1>4 DEF Call
  <2>4. Place(r) = "reopen"
    BY <2>3 DEF Place
  <2> HIDE DEF r
  <2>5. q.op \in Asking \cup {"refresh"}
    BY <1>4, <1>5 DEF Asks, Callers, Answering, Clearing
  <2>6. Asks(r)
    BY <1>4, <2>1, <2>3, <2>4, <2>5 DEF Asks, Callers, Answering, Clearing, ComponentOf, Asking
  <2> QED
    BY <1>4, <2>2, <2>3, <2>6
<1> HIDE DEF r, q
<1>6. /\ call' = [u \in Threads |-> call'[u]]
      /\ \A u \in Threads \ {t} : call'[u] = [call[u] EXCEPT !.current = FALSE]
      /\ call[t].op \in {"close", "language"} => call'[t] = Idle
      /\ call[t].op \notin {"close", "language"} => call'[t] = r
  BY DEF ClearResults, Outdated, r, q
<1>20. Idle.rev <= reg.revision /\ Idle.current = FALSE
  <2>1. reg.revision \in Nat
    BY <1>1
  <2>2. Idle.rev = 0 /\ Idle.current = FALSE
    BY DEF Idle
  <2> QED
    BY <2>1, <2>2
<1>7. ASSUME NEW u \in Threads
      PROVE  /\ call'[u] \in Call /\ Asks(call'[u]) /\ call'[u].rev <= reg.revision
             /\ call'[u].current = FALSE
             /\ u # t => /\ Noticing(call[u]) => Noticing(call'[u])
                         /\ At(u, "reopen") => At(u, "reopen")'
  <2>1. CASE u # t
    <3>1. call[u] \in Call /\ Asks(call[u]) /\ call[u].rev <= reg.revision
      BY CallIs
    <3> DEFINE o == [call[u] EXCEPT !.current = FALSE]
    <3>2. /\ o \in Call /\ Asks(o) /\ Noticing(o) = Noticing(call[u])
          /\ o.rev = call[u].rev /\ o.current = FALSE /\ o.pc = call[u].pc
      BY <3>1, OutdatedIs
    <3>3. call'[u] = o
      BY <1>6, <2>1
    <3> HIDE DEF o
    <3> QED
      BY <3>1, <3>2, <3>3 DEF At
  <2>2. CASE u = t /\ call[t].op \in {"close", "language"}
    BY <1>6, <1>20, <2>2, IdleIs
  <2>3. CASE u = t /\ call[t].op \notin {"close", "language"}
    BY <1>1, <1>5, <1>6, <2>3
  <2> QED
    BY <2>1, <2>2, <2>3
<1>8. Typed'
  <2>1. ASSUME NEW u \in Threads PROVE Asks(call[u])' /\ (call[u].rev <= reg.revision)'
    BY <1>1, <1>7 DEF Asks, Place, ComponentOf
  <2>2. call' \in [Threads -> Call]
    BY <1>6, <1>7
  <2>3. results' \in [Caches -> Seq(Entry)]
    <3>1. <<>> \in Seq(Entry)
      OBVIOUS
    <3> QED
      BY <1>1, <3>1
  <2> QED
    BY <1>1, <1>3, <2>1, <2>2, <2>3 DEF Informed, Typed, StoreTyped
<1>9. ResultsFresh' /\ CallsFresh'
  <2>1. ASSUME NEW k \in Caches PROVE Range(results'[k]) = {}
    <3>1. results'[k] = <<>>
      BY <1>1
    <3>2. Range(<<>>) = {}
      BY DEF Range
    <3> QED
      BY <3>1, <3>2
  <2>2. ResultsFresh'
    BY <2>1 DEF ResultsFresh
  <2>3. CallsFresh'
    BY <1>7 DEF CallsFresh
  <2> QED
    BY <2>2, <2>3
<1>10. (Unsettled \/ \E u \in Threads : At(u, "reopen")) =>
         (Unsettled' \/ \E u \in Threads : At(u, "reopen")')
  <2>1. ASSUME NEW u \in Threads, Noticing(call[u]) PROVE Noticing(call[u])' \/ At(u, "reopen")'
    <3>1. CASE u # t
      <4>1. Noticing(call'[u])
        BY <1>7, <2>1, <3>1
      <4> QED
        BY <4>1 DEF Noticing, Place
    <3>2. CASE u = t
      BY <1>5, <1>6, <2>1, <3>2 DEF Noticing, At
    <3> QED
      BY <3>1, <3>2
  <2>2. ASSUME NEW u \in Threads, At(u, "reopen") PROVE At(u, "reopen")'
    BY <1>1, <1>7, <2>2 DEF At
  <2> QED
    BY <1>1, <2>1, <2>2 DEF Unsettled
<1>11. FailuresFresh => FailuresFresh'
  BY <1>1 DEF FailuresFresh, FromSnapshot, InfoOf, MakeInfo
<1> QED
  BY <1>8, <1>9, <1>10, <1>11 DEF Informed, Knows

LEMMA ReopenInformed ==
  ASSUME Informed, NEW t \in Threads, Reopen(t) PROVE Informed'
<1>1. /\ At(t, "reopen") /\ UNCHANGED <<plan, reg, seen, results, store, user>>
      /\ failures' = [p \in Pairs |-> Nothing]
      /\ call[t] \in Call /\ Asks(call[t]) /\ reg.revision \in Nat /\ call[t].rev <= reg.revision
  BY CallIs DEF Reopen
<1>2. Place(call[t]) = "reopen" /\ ~Noticing(call[t])
  BY <1>1 DEF At, Place, Noticing, Clearing
<1>3. StoreTyped'
  BY <1>1, StoreStaysTyped
<1> DEFINE r == [call[t] EXCEPT !.pc = "gate", !.wasOff = FALSE]
<1>4. ASSUME call[t].op # "refresh"
      PROVE  /\ r \in Call /\ Asks(r) /\ r.rev = call[t].rev /\ r.current = call[t].current
             /\ r.info = call[t].info /\ r.l = call[t].l
  <2> DEFINE q == call[t]
  <2>1. q \in Call /\ "gate" \in Points
    BY <1>1 DEF Points
  <2> HIDE DEF q
  <2>2. r \in Call
    BY <2>1 DEF Call, q
  <2>3. /\ r.pc = "gate" /\ r.op = q.op /\ r.l = q.l /\ r.w = q.w /\ r.c = q.c
        /\ r.cache = q.cache /\ r.info = q.info /\ r.rev = q.rev /\ r.current = q.current
    BY <2>1 DEF Call, q
  <2>4. Place(r) = "gate"
    BY <2>3 DEF Place
  <2> HIDE DEF r
  <2>5. Asks(q) /\ Place(q) = "reopen" /\ q.op # "refresh"
    BY <1>1, <1>2, <1>4 DEF q
  <2>6. Asks(r)
    BY <2>3, <2>4, <2>5 DEF Asks, Callers, Answering, Clearing
  <2> QED
    BY <2>2, <2>3, <2>6 DEF q
<1> HIDE DEF r
<1>5. /\ call' = [u \in Threads |-> call'[u]]
      /\ \A u \in Threads \ {t} : call'[u] = [[call[u] EXCEPT !.current = FALSE] EXCEPT !.wasOff = FALSE]
      /\ call[t].op = "refresh" => call'[t] = Idle
      /\ call[t].op # "refresh" => call'[t] = r
  BY DEF Reopen, Outdated, r
<1>20. Idle.rev <= reg.revision /\ Idle.current = FALSE
  <2>1. reg.revision \in Nat
    BY <1>1
  <2>2. Idle.rev = 0 /\ Idle.current = FALSE
    BY DEF Idle
  <2> QED
    BY <2>1, <2>2
<1>6. ASSUME NEW u \in Threads
      PROVE  /\ call'[u] \in Call /\ Asks(call'[u]) /\ call'[u].rev <= reg.revision
             /\ Noticing(call[u]) => Noticing(call'[u])
             /\ call'[u].current => call[u].current /\ call'[u].info = call[u].info
                                      /\ call'[u].l = call[u].l
  <2>1. CASE u # t
    <3>1. call[u] \in Call /\ Asks(call[u]) /\ call[u].rev <= reg.revision
      BY CallIs
    <3> DEFINE q == [call[u] EXCEPT !.current = FALSE]
    <3>2. /\ q \in Call /\ Asks(q) /\ Noticing(q) = Noticing(call[u])
          /\ q.rev = call[u].rev /\ q.current = FALSE
      BY <3>1, OutdatedIs
    <3>3. call'[u] = [q EXCEPT !.wasOff = FALSE]
      BY <1>5, <2>1
    <3> HIDE DEF q
    <3>4. /\ call'[u] \in Call /\ Asks(call'[u]) /\ Noticing(call'[u]) = Noticing(q)
          /\ call'[u].current = q.current /\ call'[u].rev = q.rev
      BY <3>2, <3>3, WasOffIs
    <3> QED
      BY <3>1, <3>2, <3>4
  <2>2. CASE u = t /\ call[t].op = "refresh"
    BY <1>2, <1>5, <1>20, <2>2, IdleIs
  <2>3. CASE u = t /\ call[t].op # "refresh"
    BY <1>1, <1>2, <1>4, <1>5, <2>3
  <2> QED
    BY <2>1, <2>2, <2>3
<1>7. Typed'
  <2>1. ASSUME NEW u \in Threads PROVE Asks(call[u])' /\ (call[u].rev <= reg.revision)'
    BY <1>1, <1>6 DEF Asks, Place, ComponentOf
  <2>2. call' \in [Threads -> Call]
    BY <1>5, <1>6
  <2>3. failures' \in [Pairs -> [path : Paths, current : BOOLEAN] \cup {Nothing}]
    BY <1>1
  <2> QED
    BY <1>1, <1>3, <2>1, <2>2, <2>3 DEF Informed, Typed, StoreTyped
<1>8. FailuresFresh'
  BY <1>1 DEF FailuresFresh
<1>9. Unsettled => Unsettled'
  <2>1. ASSUME NEW u \in Threads, Noticing(call[u]) PROVE Noticing(call[u])'
    <3>1. Noticing(call'[u])
      BY <1>6, <2>1
    <3> QED
      BY <3>1 DEF Noticing, Place
  <2> QED
    BY <1>1, <2>1 DEF Unsettled
<1>10. ResultsFresh => ResultsFresh'
  <2>1. \A l, c, path : FromSnapshot(l, c, path)' <=> FromSnapshot(l, c, path)
    BY <1>1 DEF FromSnapshot, InfoOf, MakeInfo
  <2> QED
    BY <1>1, <2>1 DEF ResultsFresh, ComponentOf
<1>11. CallsFresh => CallsFresh'
  <2> SUFFICES ASSUME CallsFresh, NEW u \in Threads, call'[u].current
               PROVE  call'[u].info = InfoOf(reg', call'[u].l)
    BY DEF CallsFresh, InfoOf, MakeInfo
  <2>1. call[u].info = InfoOf(reg, call[u].l)
    BY <1>6 DEF CallsFresh
  <2> QED
    BY <1>1, <1>6, <2>1
<1> QED
  BY <1>7, <1>8, <1>9, <1>10, <1>11 DEF Informed, Knows

LEMMA BeginRetryInformed ==
  ASSUME Informed, NEW t \in Threads, BeginRetry(t) PROVE Informed'
<1>1. /\ At(t, "idle") /\ UNCHANGED <<plan, reg, seen, results, store, user>>
      /\ reg.revision \in Nat /\ failures \in [Pairs -> [path : Paths, current : BOOLEAN] \cup {Nothing}]
      /\ results \in [Caches -> Seq(Entry)]
  BY CallIs DEF BeginRetry, Informed, Typed
<1>2. PICK p \in Pairs :
        /\ failures' = [failures EXCEPT ![p] = Nothing]
        /\ call' = [u \in Threads |->
                      IF u = t THEN [Idle EXCEPT !.pc = "keys", !.op = "retry", !.l = p[1], !.c = p[2]]
                      ELSE [call[u] EXCEPT !.wasOff = call[u].wasOff /\ Pair(u) # p]]
  BY DEF BeginRetry
<1> DEFINE l == p[1]
           c == p[2]
           r == [Idle EXCEPT !.pc = "keys", !.op = "retry", !.l = l, !.c = c]
<1>3. l \in Locales /\ c \in Components
  BY DEF Pairs
<1> HIDE DEF l, c
<1>4. r \in Call /\ r.pc = "keys" /\ r.op = "retry" /\ r.l = l /\ r.rev = 0 /\ r.current = FALSE
  <2>1. "keys" \in Points /\ "retry" \in AllCalls
    BY DEF Points, AllCalls
  <2>2. r \in Call
    BY <1>3, <2>1, IdleIs DEF Call
  <2> QED
    BY <2>2 DEF Idle
<1>5. call'[t] = r
  BY <1>2 DEF l, c
<1> HIDE DEF r
<1>6. Asks(r)
  BY <1>3, <1>4 DEF Asks, Place, Callers, Answering, Clearing, Asking
<1>7. ASSUME NEW u \in Threads
      PROVE  /\ call'[u] \in Call /\ Asks(call'[u]) /\ call'[u].rev <= reg.revision
             /\ Noticing(call[u]) => Noticing(call'[u])
             /\ At(u, "reopen") => At(u, "reopen")'
             /\ call'[u].current =>
                  \/ call'[u].info = InfoOf(reg, call'[u].l)
                  \/ call[u].current /\ call'[u].info = call[u].info /\ call'[u].l = call[u].l
  <2>1. CASE u # t
    <3>1. call[u] \in Call /\ Asks(call[u]) /\ call[u].rev <= reg.revision
      BY CallIs
    <3> DEFINE off == call[u].wasOff /\ Pair(u) # p
    <3>2. call'[u] = [call[u] EXCEPT !.wasOff = off] /\ off \in BOOLEAN
      BY <1>2, <2>1
    <3> HIDE DEF off
    <3> QED
      BY <3>1, <3>2, WasOffIs DEF At
  <2>2. CASE u = t
    <3>1. ~Noticing(call[t]) /\ ~At(t, "reopen")
      BY <1>1 DEF Noticing, Place, At, Clearing
    <3> QED
      BY <1>1, <1>4, <1>5, <1>6, <2>2, <3>1
  <2> QED
    BY <2>1, <2>2
<1>8. call' \in [Threads -> Call]
  BY <1>2, <1>7
<1>9. failures' \in [Pairs -> [path : Paths, current : BOOLEAN] \cup {Nothing}]
      /\ (FailuresFresh => FailuresFresh')
  <2>1. failures' \in [Pairs -> [path : Paths, current : BOOLEAN] \cup {Nothing}]
    BY <1>1, <1>2
  <2>2. \A q \in Pairs : failures'[q] # Nothing => failures'[q] = failures[q]
    BY <1>1, <1>2
  <2>3. \A m, d, path : FromSnapshot(m, d, path)' <=> FromSnapshot(m, d, path)
    BY <1>1 DEF FromSnapshot, InfoOf, MakeInfo
  <2> QED
    BY <2>1, <2>2, <2>3 DEF FailuresFresh
<1>10. ResultsFresh => ResultsFresh'
  <2>1. \A m, d, path : FromSnapshot(m, d, path)' <=> FromSnapshot(m, d, path)
    BY <1>1 DEF FromSnapshot, InfoOf, MakeInfo
  <2> QED
    BY <1>1, <2>1 DEF ResultsFresh, ComponentOf
<1>11. /\ results' \in [Caches -> Seq(Entry)]
       /\ backends' \in [Components -> Seq(Cached)] /\ lock' \in [Components -> Threads \cup {Free}]
       /\ loaded' \subseteq Engines /\ user' \in [Engines -> Threads \cup {Free}]
  BY <1>1, StoreStaysTyped DEF StoreTyped
<1> QED
  BY <1>1, <1>7, <1>8, <1>9, <1>10, <1>11, StaysInformed

-----------------------------------------------------------------------------
(* Engines that are obtained, dropped and used.                             *)

\* A cache keeps some of what it has, and the new entry or not.
LEMMA PutIs ==
  ASSUME NEW S, NEW items \in Seq(S), NEW gone, NEW x \in S, NEW size \in Nat
  PROVE  LET with == Append(Without(items, gone), x)
         IN  /\ with \in Seq(S) /\ TooMany(with, size) \in 0..Len(with)
             /\ SubSeq(with, 1 + TooMany(with, size), Len(with)) \in Seq(S)
             /\ Range(SubSeq(with, 1 + TooMany(with, size), Len(with))) \subseteq Range(items) \cup {x}
<1> DEFINE rest == Without(items, gone)
           with == Append(rest, x)
           m == TooMany(with, size)
<1>1. rest \in Seq(S) /\ Range(rest) \subseteq Range(items)
  BY WithoutIs
<1> HIDE DEF rest
<1>2. with \in Seq(S) /\ Range(with) = Range(rest) \cup {x}
  BY <1>1, AppendRange
<1> HIDE DEF with
<1>3. Len(with) \in Nat
  BY <1>2
<1>4. m \in 0..Len(with)
  <2> DEFINE n == Len(with)
  <2> HIDE DEF n
  <2>1. n \in Nat
    BY <1>3 DEF n
  <2> QED
    BY <2>1 DEF TooMany, n
<1> HIDE DEF m
<1>5. 1 + m \in Nat \ {0} /\ Len(with) \in 0..Len(with)
  BY <1>3, <1>4
<1>6. SubSeq(with, 1 + m, Len(with)) \in Seq(S) /\ Range(SubSeq(with, 1 + m, Len(with))) \subseteq Range(with)
  BY <1>2, <1>5, SubSeqRange
<1> QED
  BY <1>1, <1>2, <1>4, <1>6 DEF m, with, rest

\* The call of t goes on as next, once what it drops is unloaded.
GoesOn(t, next) ==
    \E r \in Call : /\ call' = [call EXCEPT ![t] = r] /\ Asks(r) /\ Noticing(r) = Noticing(next)
                    /\ r.rev = next.rev /\ r.current = next.current
                    /\ r.info = next.info /\ r.l = next.l

\* Where calls go on that may have engines to unload.
LEMMA UnloadingIs ==
  ASSUME Informed, NEW t \in Threads, NEW c \in Components, NEW todo \in Seq(Engines),
         NEW next \in Call, Asks(next), next.pc \in {"clear thesaurus", "clear results", "use", "drop"},
         Unloading(t, c, todo, next)
  PROVE  /\ lock' \in [Components -> Threads \cup {Free}]
         /\ GoesOn(t, next)
<1>1. lock' \in [Components -> Threads \cup {Free}]
  BY CallIs DEF Unloading
<1>2. CASE todo = <<>>
  BY <1>1, <1>2 DEF Unloading, GoesOn
<1>3. CASE todo # <<>>
  <2> DEFINE pc == next.pc
             r == [next EXCEPT !.todo = todo, !.after = pc, !.pc = "unload"]
  <2>1. call' = [call EXCEPT ![t] = r]
    BY <1>3 DEF Unloading
  <2>2. "unload" \in Points /\ pc \in {"idle", "clear thesaurus", "clear results", "use", "drop"}
    BY DEF Points
  <2>3. Place(next) = pc
    BY DEF Place
  <2> HIDE DEF pc
  <2>4. r \in Call
    BY <2>2 DEF Call
  <2>5. /\ r.pc = "unload" /\ r.after = pc /\ r.todo = todo /\ r.op = next.op /\ r.l = next.l
        /\ r.w = next.w /\ r.c = next.c /\ r.cache = next.cache /\ r.info = next.info
        /\ r.rev = next.rev /\ r.current = next.current
    BY <2>2 DEF Call
  <2> HIDE DEF r
  <2>6. Place(r) = Place(next)
    BY <2>3, <2>5 DEF Place
  <2>7. Asks(r) /\ Noticing(r) = Noticing(next)
    BY <1>3, <2>5, <2>6 DEF Asks, Noticing
  <2> QED
    BY <1>1, <2>1, <2>4, <2>5, <2>7 DEF GoesOn
<1> QED
  BY <1>2, <1>3

\* The engines of some entries of a cache.
LEMMA EnginesOf ==
  ASSUME NEW s \in Seq(Cached), NEW n \in 0..Len(s)
  PROVE  [i \in 1..n |-> s[i].id] \in Seq(Engines)
<1>1. n \in Nat /\ \A i \in 1..n : s[i] \in Cached
  OBVIOUS
<1>2. \A i \in 1..n : s[i].id \in Engines
  BY <1>1 DEF Cached
<1> QED
  BY <1>1, <1>2

LEMMA ClearBackendsInformed ==
  ASSUME Informed, NEW t \in Threads, NEW d \in Components, ClearBackends(t, d) PROVE Informed'
<1>1. /\ UNCHANGED <<plan, reg, seen, failures, results, loaded, user>>
      /\ backends' = [backends EXCEPT ![d] = <<>>]
      /\ call[t] \in Call /\ Asks(call[t]) /\ call[t].rev <= reg.revision
      /\ backends \in [Components -> Seq(Cached)] /\ loaded \subseteq Engines
      /\ user \in [Engines -> Threads \cup {Free}]
  BY CallIs DEF ClearBackends
<1> DEFINE old == call[t]
           pc == IF d = "spelling" THEN "clear thesaurus" ELSE "clear results"
           next == [old EXCEPT !.c = d, !.pc = pc]
           todo == [i \in 1..Len(backends[d]) |-> backends[d][i].id]
<1>2. old.pc \in {"clear spelling", "clear thesaurus"} /\ pc \in {"clear thesaurus", "clear results"}
  BY DEF ClearBackends, At
<1>3. Unloading(t, d, todo, next)
  BY DEF ClearBackends
<1>4. todo \in Seq(Engines)
  <2>1. backends[d] \in Seq(Cached)
    BY <1>1
  <2>2. Len(backends[d]) \in 0..Len(backends[d])
    BY <2>1
  <2> QED
    BY <2>1, <2>2, EnginesOf
<1>5. backends' \in [Components -> Seq(Cached)]
  <2>1. <<>> \in Seq(Cached)
    OBVIOUS
  <2> QED
    BY <1>1, <2>1
<1> HIDE DEF pc, todo
<1>6. old \in Call /\ Asks(old) /\ pc \in Points
  BY <1>1, <1>2 DEF Points
<1> HIDE DEF old
<1>7. next \in Call
  BY <1>6 DEF Call
<1>8. /\ next.pc = pc /\ next.op = old.op /\ next.l = old.l /\ next.w = old.w /\ next.cache = old.cache
      /\ next.info = old.info /\ next.rev = old.rev /\ next.current = old.current
  BY <1>6 DEF Call
<1> HIDE DEF next
<1>9. Place(next) = pc /\ Place(old) = old.pc
  BY <1>2, <1>8 DEF Place
<1>10. Asks(next) /\ Noticing(next) = Noticing(old)
  BY <1>2, <1>6, <1>8, <1>9 DEF Asks, Noticing, Callers, Clearing, Answering
<1>11. /\ lock' \in [Components -> Threads \cup {Free}]
       /\ GoesOn(t, next)
  <2>1. Asks(next) /\ next.pc \in {"clear thesaurus", "clear results", "use", "drop"}
    BY <1>2, <1>8, <1>10
  <2> QED
    BY <1>3, <1>4, <1>7, <2>1, UnloadingIs
<1>12. PICK r \in Call :
         /\ call' = [call EXCEPT ![t] = r] /\ Asks(r) /\ Noticing(r) = Noticing(next)
         /\ r.rev = next.rev /\ r.current = next.current
         /\ r.info = next.info /\ r.l = next.l
  BY <1>11 DEF GoesOn
<1>13. ~At(t, "reopen")
  BY <1>2 DEF At, old
<1> QED
  BY <1>1, <1>5, <1>8, <1>10, <1>11, <1>12, <1>13, MovesInformed DEF old

LEMMA UnloadInformed ==
  ASSUME Informed, NEW t \in Threads, Unload(t) PROVE Informed'
<1>1. /\ UNCHANGED <<plan, reg, seen, failures, results, backends, user>>
      /\ call[t] \in Call /\ Asks(call[t]) /\ call[t].rev <= reg.revision
      /\ backends \in [Components -> Seq(Cached)] /\ loaded \subseteq Engines
      /\ user \in [Engines -> Threads \cup {Free}] /\ lock \in [Components -> Threads \cup {Free}]
      /\ At(t, "unload") /\ loaded' \subseteq loaded
  BY CallIs DEF Unload
<1> DEFINE old == call[t]
           rest == Tail(old.todo)
           after == IF rest = <<>> THEN "idle" ELSE old.after
           pc == IF rest = <<>> THEN old.after ELSE "unload"
           r == [old EXCEPT !.todo = rest, !.after = after, !.pc = pc]
<1>2. call' = [call EXCEPT ![t] = r]
  <2>1. call' = [call EXCEPT ![t] = [@ EXCEPT !.todo = rest, !.after = after, !.pc = pc]]
    BY <1>1 DEF Unload
  <2> QED
    BY <2>1, <1>1
<1>3. lock' \in [Components -> Threads \cup {Free}]
  BY <1>1 DEF Unload
<1>4. /\ old \in Call /\ Asks(old) /\ old.pc = "unload" /\ old.todo # <<>>
      /\ old.todo \in Seq(Engines)
      /\ old.after \in {"idle", "clear thesaurus", "clear results", "use", "drop"}
  BY <1>1 DEF At, Asks, Call
<1> HIDE DEF old
<1>5. rest \in Seq(Engines)
  <2> DEFINE s == old.todo
  <2>1. s \in Seq(Engines) /\ s # <<>>
    BY <1>4
  <2> HIDE DEF s
  <2>2. Tail(s) \in Seq(Engines)
    BY <2>1
  <2> QED
    BY <2>2 DEF s
<1>6. /\ after \in {"idle", "clear thesaurus", "clear results", "use", "drop"} /\ pc \in Points
      /\ (pc = "unload" /\ after = old.after /\ rest # <<>>) \/ (pc = old.after /\ pc # "unload")
  BY <1>4 DEF Points
<1> HIDE DEF rest, after, pc
<1>7. r \in Call
  BY <1>4, <1>5, <1>6 DEF Call
<1>8. /\ r.pc = pc /\ r.op = old.op /\ r.l = old.l /\ r.w = old.w /\ r.cache = old.cache /\ r.c = old.c
      /\ r.info = old.info /\ r.rev = old.rev /\ r.current = old.current /\ r.after = after
      /\ r.todo = rest
  BY <1>4 DEF Call
<1> HIDE DEF r
<1>9. Place(r) = Place(old)
  BY <1>4, <1>6, <1>8 DEF Place
<1>10. Asks(r) /\ Noticing(r) = Noticing(old) /\ ~At(t, "reopen")
  BY <1>4, <1>6, <1>8, <1>9 DEF Asks, Noticing, At, old
<1>11. loaded' \subseteq Engines
  BY <1>1
<1> QED
  BY <1>1, <1>2, <1>3, <1>7, <1>8, <1>10, <1>11, MovesInformed DEF old

\* A call that is asking has its locale, word and, at the caches, its dictionary.
LEMMA AnsweringIs ==
  ASSUME Informed, NEW t \in Threads, call[t].pc \in Answering
  PROVE  /\ call[t].op \in Asking /\ call[t].l \in Locales /\ call[t].w \in Words
         /\ call[t].c = ComponentOf(call[t].cache) /\ PathOf(t) \in Paths
         /\ Place(call[t]) = call[t].pc /\ ~Noticing(call[t]) /\ ~At(t, "reopen")
<1>1. call[t] \in Call /\ Asks(call[t])
  BY CallIs
<1>2. Place(call[t]) = call[t].pc /\ ~Noticing(call[t]) /\ ~At(t, "reopen")
  BY DEF Place, Answering, Noticing, Clearing, At
<1>3. call[t].op \in Asking /\ call[t].pc \notin Clearing
  BY <1>1, <1>2 DEF Asks, Callers, Answering, Clearing
<1>4. call[t].info \in Infos /\ call[t].c \in Components /\ PathOf(t) # Nothing
  BY <1>1, <1>2 DEF Call, Asks, PathOf
<1>5. PathOf(t) \in Paths
  BY <1>4 DEF Infos, PathOf
<1> QED
  BY <1>1, <1>2, <1>3, <1>5 DEF Asks

LEMMA ObtainInformed ==
  ASSUME Informed, ServiceAssumption, NEW t \in Threads, Obtain(t) PROVE Informed'
<1>1. /\ UNCHANGED <<plan, reg, seen, failures, results, user>>
      /\ call[t] \in Call /\ Asks(call[t]) /\ call[t].rev <= reg.revision
      /\ backends \in [Components -> Seq(Cached)] /\ loaded \subseteq Engines
      /\ user \in [Engines -> Threads \cup {Free}] /\ lock \in [Components -> Threads \cup {Free}]
      /\ At(t, "obtain")
  BY CallIs DEF Obtain
<1>2. /\ call[t].op \in Asking /\ call[t].l \in Locales /\ PathOf(t) \in Paths
      /\ call[t].pc = "obtain" /\ ~Noticing(call[t]) /\ ~At(t, "reopen") /\ call[t].c \in Components
  BY <1>1, AnsweringIs DEF At, Answering, Call
<1>3. CASE GoTo(t, "fail") /\ UNCHANGED store
  <2>1. "fail" \in Points \ {"unload"} /\ call[t].op \in Callers("fail") /\ PathOf(t) # Nothing
    BY <1>2, NothingAssumption DEF Points, Callers, Answering
  <2>2. UNCHANGED <<backends, lock, loaded>>
    BY <1>3 DEF store
  <2> QED
    BY <1>1, <1>2, <1>3, <2>1, <2>2, GoInformed DEF At, Clearing
<1>4. ASSUME ~(GoTo(t, "fail") /\ UNCHANGED store) PROVE Informed'
  <2> DEFINE c == call[t].c
             key == <<call[t].l, PathOf(t)>>
             same == {x \in Range(backends[c]) : <<x.l, x.path>> = key}
             rest == Without(backends[c], same)
             With(id) == Append(rest, [l |-> call[t].l, path |-> PathOf(t), id |-> id])
             Surplus(id) == TooMany(With(id), BackendCacheSize)
  <2>1. PICK id \in Engines :
          /\ backends' = [backends EXCEPT ![c] = SubSeq(With(id), 1 + Surplus(id), Len(With(id)))]
          /\ loaded' = IF same = {} THEN loaded \ {id} ELSE loaded
          /\ Unloading(t, c, [i \in 1..Surplus(id) |-> With(id)[i].id],
                       [call[t] EXCEPT !.engine = id, !.pc = "use"])
    BY <1>4 DEF Obtain
  <2> DEFINE x == [l |-> call[t].l, path |-> PathOf(t), id |-> id]
             with == Append(rest, x)
             surplus == TooMany(with, BackendCacheSize)
             todo == [i \in 1..surplus |-> with[i].id]
             next == [call[t] EXCEPT !.engine = id, !.pc = "use"]
             kept == SubSeq(with, 1 + surplus, Len(with))
  <2>2. x \in Cached
    BY <1>2, <2>1 DEF Cached
  <2>3. c \in Components /\ backends[c] \in Seq(Cached) /\ BackendCacheSize \in Nat
    BY <1>1, <1>2, ServiceAssumption
  <2>4. with \in Seq(Cached) /\ surplus \in 0..Len(with) /\ kept \in Seq(Cached)
    <3> HIDE DEF c, x, same
    <3> QED
      BY <2>2, <2>3, PutIs
  <2>5. todo \in Seq(Engines)
    <3> HIDE DEF with, surplus
    <3> QED
      BY <2>4, EnginesOf
  <2>6. Unloading(t, c, todo, next) /\ backends' = [backends EXCEPT ![c] = kept]
    BY <2>1
  <2>7. loaded' \subseteq Engines
    BY <1>1, <2>1
  <2> HIDE DEF x, with, surplus, todo, kept
  <2>8. backends' \in [Components -> Seq(Cached)]
    BY <1>1, <2>3, <2>4, <2>6
  <2>9. next \in Call /\ Asks(next) /\ next.pc = "use" /\ ~Noticing(next)
        /\ next.rev = call[t].rev /\ next.current = call[t].current
        /\ next.info = call[t].info /\ next.l = call[t].l
    <3> DEFINE q == call[t]
    <3>1. q \in Call /\ Asks(q) /\ "use" \in Points /\ q.pc = "obtain" /\ Place(q) = "obtain"
      BY <1>1, <1>2 DEF Points, Place
    <3> HIDE DEF q
    <3>2. next \in Call
      BY <2>1, <3>1 DEF Call, q
    <3>3. /\ next.pc = "use" /\ next.op = q.op /\ next.l = q.l /\ next.w = q.w /\ next.cache = q.cache
          /\ next.c = q.c /\ next.info = q.info /\ next.rev = q.rev /\ next.current = q.current
      BY <3>1 DEF Call, q
    <3> HIDE DEF next
    <3>4. Place(next) = "use"
      BY <3>3 DEF Place
    <3>5. Asks(next) /\ ~Noticing(next)
      BY <3>1, <3>3, <3>4 DEF Asks, Noticing, Callers, Answering, Clearing
    <3> QED
      BY <3>2, <3>3, <3>5 DEF q
  <2> HIDE DEF next, c
  <2>10. lock' \in [Components -> Threads \cup {Free}] /\ GoesOn(t, next)
    <3>1. next.pc \in {"clear thesaurus", "clear results", "use", "drop"}
      BY <2>9
    <3> QED
      BY <2>3, <2>5, <2>6, <2>9, <3>1, UnloadingIs
  <2>11. PICK r \in Call :
           /\ call' = [call EXCEPT ![t] = r] /\ Asks(r) /\ Noticing(r) = Noticing(next)
           /\ r.rev = next.rev /\ r.current = next.current
           /\ r.info = next.info /\ r.l = next.l
    BY <2>10 DEF GoesOn
  <2> QED
    BY <1>1, <1>2, <2>7, <2>8, <2>9, <2>10, <2>11, MovesInformed
<1> QED
  BY <1>3, <1>4

LEMMA DropInformed ==
  ASSUME Informed, NEW t \in Threads, Drop(t) PROVE Informed'
<1>1. /\ UNCHANGED <<plan, reg, seen, failures, results, user>>
      /\ call[t] \in Call /\ Asks(call[t]) /\ call[t].rev <= reg.revision
      /\ backends \in [Components -> Seq(Cached)] /\ loaded \subseteq Engines
      /\ user \in [Engines -> Threads \cup {Free}] /\ lock \in [Components -> Threads \cup {Free}]
      /\ At(t, "drop")
  BY CallIs DEF Drop
<1>2. /\ call[t].op \in Asking \cup {"retry"} /\ call[t].pc = "drop" /\ Place(call[t]) = "drop"
      /\ ~Noticing(call[t]) /\ ~At(t, "reopen") /\ call[t].c \in Components
  BY <1>1 DEF At, Asks, Place, Callers, Answering, Clearing, Noticing, Call
<1>3. CASE GoTo(t, "clear failed") /\ UNCHANGED store
  <2>1. /\ "clear failed" \in Points \ {"unload"} /\ "clear failed" \notin Answering
        /\ call[t].op \in Callers("clear failed")
    BY <1>2 DEF Points, Callers, Answering, Clearing
  <2>2. UNCHANGED <<backends, lock, loaded>>
    BY <1>3 DEF store
  <2> QED
    BY <1>1, <1>2, <1>3, <2>1, <2>2, GoInformed DEF At, Clearing
<1>4. ASSUME ~(GoTo(t, "clear failed") /\ UNCHANGED store) PROVE Informed'
  <2> DEFINE c == call[t].c
             Same(p) == {x \in Range(backends[c]) : x.l = call[t].l /\ x.path = p}
             Gone(p) == Without(backends[c], Range(backends[c]) \ Same(p))
  <2>1. PICK p \in call[t].keys :
          /\ backends' = [backends EXCEPT ![c] = Without(@, Same(p))]
          /\ Unloading(t, c, [i \in 1..Len(Gone(p)) |-> Gone(p)[i].id], [call[t] EXCEPT !.keys = @ \ {p}])
          /\ UNCHANGED loaded
    BY <1>4 DEF Drop
  <2> DEFINE gone == Gone(p)
             rest == Without(backends[c], Same(p))
             todo == [i \in 1..Len(gone) |-> gone[i].id]
             keys == call[t].keys \ {p}
             next == [call[t] EXCEPT !.keys = keys]
  <2>2. c \in Components /\ backends[c] \in Seq(Cached)
    BY <1>1, <1>2
  <2>3. gone \in Seq(Cached) /\ rest \in Seq(Cached)
    <3> HIDE DEF c, Same
    <3> QED
      BY <2>2, WithoutIs
  <2>4. todo \in Seq(Engines)
    <3> HIDE DEF gone
    <3>1. Len(gone) \in 0..Len(gone)
      BY <2>3
    <3> QED
      BY <2>3, <3>1, EnginesOf
  <2>5. Unloading(t, c, todo, next) /\ backends' = [backends EXCEPT ![c] = rest]
    BY <2>1, <2>2, <1>1
  <2>6. keys \subseteq Paths
    BY <1>1 DEF Call
  <2> HIDE DEF gone, rest, todo, keys
  <2>7. backends' \in [Components -> Seq(Cached)]
    BY <1>1, <2>2, <2>3, <2>5
  <2>8. next \in Call /\ Asks(next) /\ next.pc = "drop" /\ ~Noticing(next)
        /\ next.rev = call[t].rev /\ next.current = call[t].current
        /\ next.info = call[t].info /\ next.l = call[t].l
    <3> DEFINE q == call[t]
    <3>1. q \in Call /\ Asks(q) /\ q.pc = "drop" /\ Place(q) = "drop"
      BY <1>1, <1>2
    <3> HIDE DEF q
    <3>2. next \in Call
      BY <2>6, <3>1 DEF Call, q
    <3>3. /\ next.pc = "drop" /\ next.op = q.op /\ next.l = q.l /\ next.w = q.w /\ next.cache = q.cache
          /\ next.c = q.c /\ next.info = q.info /\ next.rev = q.rev /\ next.current = q.current
      BY <3>1 DEF Call, q
    <3> HIDE DEF next
    <3>4. Place(next) = "drop"
      BY <3>3 DEF Place
    <3>5. Asks(next) /\ ~Noticing(next)
      BY <3>1, <3>3, <3>4 DEF Asks, Noticing, Callers, Answering, Clearing
    <3> QED
      BY <3>2, <3>3, <3>5 DEF q
  <2> HIDE DEF next, c
  <2>9. lock' \in [Components -> Threads \cup {Free}] /\ GoesOn(t, next)
    <3>1. next.pc \in {"clear thesaurus", "clear results", "use", "drop"}
      BY <2>8
    <3> QED
      BY <2>2, <2>4, <2>5, <2>8, <3>1, UnloadingIs
  <2>10. PICK r \in Call :
           /\ call' = [call EXCEPT ![t] = r] /\ Asks(r) /\ Noticing(r) = Noticing(next)
           /\ r.rev = next.rev /\ r.current = next.current
           /\ r.info = next.info /\ r.l = next.l
    BY <2>9 DEF GoesOn
  <2>11. loaded' \subseteq Engines
    BY <1>1, <2>1
  <2> QED
    BY <1>1, <1>2, <2>7, <2>8, <2>9, <2>10, <2>11, MovesInformed
<1> QED
  BY <1>3, <1>4

LEMMA UseInformed ==
  ASSUME Informed, NEW t \in Threads, Use(t), call[t].engine \in Engines PROVE Informed'
<1>1. /\ UNCHANGED <<plan, reg, seen, failures, results, backends, lock>>
      /\ call[t].pc \in Answering /\ call[t].pc \notin Clearing /\ loaded \subseteq Engines
      /\ user \in [Engines -> Threads \cup {Free}] /\ ~At(t, "unload") /\ ~At(t, "reopen")
  BY CallIs DEF Use, At, Answering, Clearing
<1>2. call[t].op \in Asking /\ PathOf(t) # Nothing
  BY <1>1, AnsweringIs, NothingAssumption
<1>3. PICK pc \in {"using", "fail"} : GoTo(t, pc)
  BY DEF Use
<1>4. pc \in Points \ {"unload"} /\ call[t].op \in Callers(pc)
  BY <1>2, <1>3 DEF Points, Callers, Answering
<1>5. loaded' \subseteq Engines /\ user' \in [Engines -> Threads \cup {Free}]
  BY <1>1 DEF Use
<1> QED
  BY <1>1, <1>2, <1>3, <1>4, <1>5, GoInformed

LEMMA FinishInformed ==
  ASSUME Informed, NEW t \in Threads, Finish(t) \/ ListKeys(t) PROVE Informed'
<1>1. /\ UNCHANGED <<plan, reg, seen, failures, results, store>>
      /\ call[t] \in Call /\ Asks(call[t]) /\ call[t].rev <= reg.revision
      /\ backends \in [Components -> Seq(Cached)] /\ loaded \subseteq Engines
      /\ user \in [Engines -> Threads \cup {Free}] /\ lock \in [Components -> Threads \cup {Free}]
  BY CallIs DEF Finish, ListKeys
<1>2. /\ backends' \in [Components -> Seq(Cached)] /\ lock' \in [Components -> Threads \cup {Free}]
      /\ loaded' \subseteq Engines
  BY <1>1 DEF store
<1> DEFINE q == call[t]
<1>3. CASE Finish(t)
  <2>1. PICK pc \in {"put", "fail"} : call' = [call EXCEPT ![t].pc = pc, ![t].engine = Nothing]
    BY <1>3 DEF Finish
  <2> DEFINE r == [q EXCEPT !.pc = pc, !.engine = Nothing]
  <2>2. call' = [call EXCEPT ![t] = r] /\ user' \in [Engines -> Threads \cup {Free}]
    BY <1>1, <1>3, <2>1 DEF Finish
  <2>3. q.op \in Asking /\ Place(q) = "using" /\ ~Noticing(q) /\ ~At(t, "reopen")
    BY <1>3, AnsweringIs DEF Finish, At, Answering
  <2>4. q \in Call /\ Asks(q) /\ pc \in Points /\ q.rev <= reg.revision
    BY <1>1 DEF Points
  <2> HIDE DEF q
  <2>5. r \in Call
    BY <2>4 DEF Call
  <2>6. /\ r.pc = pc /\ r.op = q.op /\ r.l = q.l /\ r.w = q.w /\ r.c = q.c /\ r.cache = q.cache
        /\ r.info = q.info /\ r.rev = q.rev /\ r.current = q.current
    BY <2>4 DEF Call
  <2> HIDE DEF r
  <2>7. Place(r) = pc
    BY <2>1, <2>6 DEF Place
  <2>8. Asks(r)
    BY <2>1, <2>3, <2>4, <2>6, <2>7 DEF Asks, Callers, Answering, Clearing
  <2> QED
    BY <1>1, <1>2, <2>2, <2>3, <2>4, <2>5, <2>6, <2>8, MovesInformed DEF q
<1>4. CASE ListKeys(t)
  <2> DEFINE c == q.c
             keys == {x.path : x \in {y \in Range(backends[c]) : y.l = q.l}}
             r == [q EXCEPT !.pc = "drop", !.keys = keys]
  <2>1. call' = [call EXCEPT ![t] = r] /\ user' = user
    BY <1>4 DEF ListKeys
  <2>2. /\ q \in Call /\ Asks(q) /\ q.pc = "keys" /\ Place(q) = "keys" /\ ~Noticing(q)
        /\ ~At(t, "reopen") /\ "drop" \in Points /\ q.rev <= reg.revision
    BY <1>1, <1>4 DEF ListKeys, At, Place, Noticing, Clearing, Points
  <2>3. keys \subseteq Paths
    <3>1. c \in Components
      BY <2>2 DEF Call
    <3>2. backends[c] \in Seq(Cached)
      BY <1>1, <3>1
    <3>3. \A x \in Range(backends[c]) : x \in Cached
      BY <3>2 DEF Range
    <3> QED
      BY <3>3 DEF Cached
  <2> HIDE DEF q, keys
  <2>4. r \in Call
    BY <2>2, <2>3 DEF Call
  <2>5. /\ r.pc = "drop" /\ r.op = q.op /\ r.l = q.l /\ r.w = q.w /\ r.c = q.c /\ r.cache = q.cache
        /\ r.info = q.info /\ r.rev = q.rev /\ r.current = q.current
    BY <2>2 DEF Call
  <2> HIDE DEF r
  <2>6. Place(r) = "drop"
    BY <2>5 DEF Place
  <2>7. Asks(r)
    BY <2>2, <2>5, <2>6 DEF Asks, Callers, Answering, Clearing
  <2>8. user' \in [Engines -> Threads \cup {Free}]
    BY <1>1, <2>1
  <2> QED
    BY <1>1, <1>2, <2>1, <2>2, <2>4, <2>5, <2>7, <2>8, MovesInformed DEF q
<1> QED
  BY <1>3, <1>4

LEMMA DisableInformed ==
  ASSUME Informed, NEW t \in Threads, Disable(t) PROVE Informed'
<1>1. /\ UNCHANGED <<plan, reg, seen, results, store, user>>
      /\ call[t] \in Call /\ Asks(call[t]) /\ call[t].rev <= reg.revision
      /\ call[t].pc = "fail" /\ results \in [Caches -> Seq(Entry)]
      /\ failures \in [Pairs -> [path : Paths, current : BOOLEAN] \cup {Nothing}]
  BY CallIs DEF Disable, At, Informed, Typed
<1>2. StoreTyped'
  BY <1>1, StoreStaysTyped
<1> DEFINE q == call[t]
           r == [q EXCEPT !.pc = "keys", !.engine = Nothing]
           f == [path |-> PathOf(t), current |-> q.current]
<1>3. /\ q.op \in Asking /\ q.l \in Locales /\ q.c \in Components /\ PathOf(t) \in Paths
      /\ Place(q) = "fail" /\ ~Noticing(q) /\ ~At(t, "reopen") /\ q.current \in BOOLEAN
  BY <1>1, AnsweringIs DEF Answering, Call
<1>4. /\ call' = [call EXCEPT ![t] = r]
      /\ failures' = failures \/ failures' = [failures EXCEPT ![Pair(t)] = f]
  BY DEF Disable
<1>5. Pair(t) \in Pairs /\ Pair(t)[1] = q.l /\ Pair(t)[2] = q.c
  BY <1>3 DEF Pair, Pairs
<1>6. f \in [path : Paths, current : BOOLEAN] /\ f.path = PathOf(t) /\ f.current = q.current
  BY <1>3
<1> HIDE DEF f
<1>7. failures' \in [Pairs -> [path : Paths, current : BOOLEAN] \cup {Nothing}]
  BY <1>1, <1>4, <1>5, <1>6
<1>8. CallsFresh /\ FailuresFresh => FailuresFresh'
  <2>1. \A l, c, path : FromSnapshot(l, c, path)' <=> FromSnapshot(l, c, path)
    BY <1>1 DEF FromSnapshot, InfoOf, MakeInfo
  <2>2. ASSUME CallsFresh, FailuresFresh, NEW p \in Pairs, failures'[p] # Nothing,
               failures'[p].current
        PROVE  FromSnapshot(p[1], p[2], failures'[p].path)
    <3>1. CASE failures'[p] = failures[p]
      BY <2>2, <3>1 DEF FailuresFresh
    <3>2. CASE failures'[p] # failures[p]
      <4>1. p = Pair(t) /\ failures'[p] = f
        BY <1>1, <1>4, <1>5, <3>2
      <4>2. q.current
        BY <1>6, <2>2, <4>1
      <4>3. q.info = InfoOf(reg, q.l)
        BY <2>2, <4>2 DEF CallsFresh
      <4>4. failures'[p].path = q.info[q.c]
        BY <1>6, <4>1 DEF PathOf
      <4> QED
        BY <1>5, <4>1, <4>3, <4>4 DEF FromSnapshot
    <3> QED
      BY <3>1, <3>2
  <2> QED
    BY <2>1, <2>2 DEF FailuresFresh
<1>9. ResultsFresh => ResultsFresh'
  <2>1. \A l, c, path : FromSnapshot(l, c, path)' <=> FromSnapshot(l, c, path)
    BY <1>1 DEF FromSnapshot, InfoOf, MakeInfo
  <2> QED
    BY <1>1, <2>1 DEF ResultsFresh, ComponentOf
<1>10. q \in Call /\ Asks(q) /\ "keys" \in Points /\ Nothing \in Engines \cup {Nothing}
  BY <1>1 DEF Points
<1> HIDE DEF q
<1>11. r \in Call
  BY <1>10 DEF Call
<1>12. /\ r.pc = "keys" /\ r.op = q.op /\ r.l = q.l /\ r.w = q.w /\ r.c = q.c /\ r.cache = q.cache
       /\ r.info = q.info /\ r.rev = q.rev /\ r.current = q.current
  BY <1>10 DEF Call
<1> HIDE DEF r
<1>13. Place(r) = "keys"
  BY <1>12 DEF Place
<1>14. Asks(r)
  BY <1>3, <1>10, <1>12, <1>13 DEF Asks, Callers, Answering, Clearing
<1>15. results' \in [Caches -> Seq(Entry)]
  BY <1>1
<1> QED
  BY <1>1, <1>2, <1>3, <1>4, <1>7, <1>8, <1>9, <1>11, <1>12, <1>14, <1>15, OneStaysInformed
     DEF StoreTyped, q

\* Results that are put or taken out.
LEMMA ResultsMove ==
  ASSUME Informed, NEW t \in Threads, NEW r \in Call, Asks(r), r.rev <= reg.revision,
         UNCHANGED <<plan, reg, seen, failures, store, user>>, call' = [call EXCEPT ![t] = r],
         results' \in [Caches -> Seq(Entry)],
         ~Noticing(call[t]), ~At(t, "reopen"),
         r.current => call[t].current /\ r.info = call[t].info /\ r.l = call[t].l,
         \A k \in Caches : \A x \in Range(results'[k]) :
            \/ x \in Range(results[k])
            \/ x.current => call[t].current /\ x.path = call[t].info[ComponentOf(k)] /\ x.l = call[t].l
  PROVE  Informed'
<1>1. StoreTyped' /\ failures' \in [Pairs -> [path : Paths, current : BOOLEAN] \cup {Nothing}]
  BY StoreStaysTyped DEF Informed, Typed
<1>2. \A l, c, path : FromSnapshot(l, c, path)' <=> FromSnapshot(l, c, path)
  BY DEF FromSnapshot, InfoOf, MakeInfo
<1>3. FailuresFresh => FailuresFresh'
  BY <1>2 DEF FailuresFresh
<1>4. ASSUME ResultsFresh, CallsFresh, NEW k \in Caches, NEW x \in Range(results'[k]), x.current
      PROVE  FromSnapshot(x.l, ComponentOf(k), x.path)
  <2>1. CASE x \in Range(results[k])
    BY <1>4, <2>1 DEF ResultsFresh
  <2>2. CASE x \notin Range(results[k])
    <3>1. call[t].current /\ x.path = call[t].info[ComponentOf(k)] /\ x.l = call[t].l
      BY <1>4, <2>2
    <3>2. call[t].info = InfoOf(reg, call[t].l)
      BY <1>4, <3>1 DEF CallsFresh
    <3> QED
      BY <3>1, <3>2 DEF FromSnapshot
  <2> QED
    BY <2>1, <2>2
<1>5. ResultsFresh /\ CallsFresh => ResultsFresh'
  BY <1>2, <1>4 DEF ResultsFresh, ComponentOf
<1> QED
  BY <1>1, <1>3, <1>5, OneStaysInformed DEF StoreTyped

\* After Answer a call has ended, or looks for suggestions.
LEMMA AnswerIs ==
  ASSUME Informed, NEW t \in Threads, call[t].pc \in {"cached", "put"}, Answer(t)
  PROVE  \E r \in Call : /\ Asks(r) /\ r.rev <= reg.revision /\ r.current = FALSE
                         /\ call' = [call EXCEPT ![t] = r]
<1>1. call[t] \in Call /\ Asks(call[t]) /\ call[t].rev <= reg.revision /\ reg.revision \in Nat
  BY CallIs
<1>2. CASE End(t)
  <2>1. Idle.rev <= reg.revision /\ Idle.current = FALSE
    <3>1. Idle.rev = 0 /\ Idle.current = FALSE
      BY DEF Idle
    <3>2. 0 <= reg.revision
      BY <1>1
    <3> QED
      BY <3>1, <3>2
  <2> QED
    BY <1>2, <2>1, IdleIs DEF End
<1>3. CASE ~End(t)
  <2> DEFINE q == call[t]
             r == [q EXCEPT !.cache = "suggestions", !.pc = "discover", !.info = NoInfo, !.current = FALSE]
  <2>1. q.op = "suggest" /\ q.cache = "spelling" /\ call' = [call EXCEPT ![t] = r]
    BY <1>3 DEF Answer
  <2>2. /\ q \in Call /\ Asks(q) /\ q.rev <= reg.revision /\ Place(q) = q.pc /\ q.pc \notin Clearing
        /\ "discover" \in Points /\ NoInfo \in Infos /\ "suggestions" \in Caches
    BY <1>1 DEF Place, Clearing, Points, NoInfo, Infos, Caches
  <2> HIDE DEF q
  <2>3. r \in Call
    BY <2>2 DEF Call
  <2>4. /\ r.pc = "discover" /\ r.op = q.op /\ r.l = q.l /\ r.w = q.w /\ r.c = q.c
        /\ r.cache = "suggestions" /\ r.rev = q.rev /\ r.current = FALSE
    BY <2>2 DEF Call
  <2> HIDE DEF r
  <2>5. Place(r) = "discover"
    BY <2>4 DEF Place
  <2>6. q.op \in Asking
    BY <2>1 DEF Asking
  <2>7. Asks(r)
    BY <2>1, <2>2, <2>4, <2>5, <2>6 DEF Asks, Callers, Answering, Clearing, ComponentOf
  <2> QED
    BY <2>1, <2>2, <2>3, <2>4, <2>7
<1> QED
  BY <1>2, <1>3

LEMMA AnswerInformed ==
  ASSUME Informed, ServiceAssumption, NEW t \in Threads, TryGet(t) \/ StoreResult(t) PROVE Informed'
<1>1. /\ UNCHANGED <<plan, reg, seen, failures, store, user>> /\ call[t].pc \in {"cached", "put"}
      /\ call[t] \in Call /\ Asks(call[t]) /\ results \in [Caches -> Seq(Entry)]
  BY CallIs DEF TryGet, StoreResult, At, Informed, Typed
<1>2. /\ call[t].op \in Asking /\ call[t].l \in Locales /\ call[t].w \in Words
      /\ call[t].c = ComponentOf(call[t].cache) /\ PathOf(t) \in Paths
      /\ ~Noticing(call[t]) /\ ~At(t, "reopen") /\ call[t].cache \in Caches
      /\ call[t].current \in BOOLEAN
  BY <1>1, AnsweringIs DEF Answering, Call
<1> DEFINE k == call[t].cache
<1>3. CASE GoTo(t, "recheck") /\ UNCHANGED results
  <2>1. UNCHANGED <<plan, reg, seen, failures, results, backends, lock>>
    BY <1>1, <1>3 DEF store
  <2>2. "recheck" \in Points \ {"unload"} /\ call[t].op \in Callers("recheck") /\ PathOf(t) # Nothing
    BY <1>2, NothingAssumption DEF Points, Callers, Answering
  <2>3. loaded' \subseteq Engines /\ user' \in [Engines -> Threads \cup {Free}]
    BY <1>1, CallIs DEF store
  <2>4. ~At(t, "unload") /\ call[t].pc \notin Clearing
    BY <1>1 DEF At, Clearing
  <2> QED
    BY <1>2, <1>3, <2>1, <2>2, <2>3, <2>4, GoInformed
<1>4. ASSUME NEW x \in Entry, results' = [results EXCEPT ![k] = Put(@, x, ResultCacheSize)],
             \/ x \in Range(results[k])
             \/ x.current => call[t].current /\ x.path = call[t].info[ComponentOf(k)] /\ x.l = call[t].l,
             Answer(t)
      PROVE  Informed'
  <2>1. PICK r \in Call : /\ Asks(r) /\ r.rev <= reg.revision /\ r.current = FALSE
                          /\ call' = [call EXCEPT ![t] = r]
    BY <1>1, <1>4, AnswerIs
  <2> DEFINE items == results[k]
             put == Put(items, x, ResultCacheSize)
  <2>2. items \in Seq(Entry) /\ ResultCacheSize \in Nat
    BY <1>1, <1>2, ServiceAssumption
  <2>3. put \in Seq(Entry) /\ Range(put) \subseteq Range(items) \cup {x}
    <3> DEFINE gone == Entries(items, x.l, x.w)
               with == Append(Without(items, gone), x)
               kept == SubSeq(with, 1 + TooMany(with, ResultCacheSize), Len(with))
    <3>1. put = kept
      BY DEF Put
    <3> HIDE DEF items, gone
    <3>2. kept \in Seq(Entry) /\ Range(kept) \subseteq Range(items) \cup {x}
      BY <1>4, <2>2, PutIs
    <3> HIDE DEF kept, put
    <3> QED
      BY <3>1, <3>2
  <2> HIDE DEF put
  <2>4. /\ results' \in [Caches -> Seq(Entry)]
        /\ \A j \in Caches \ {k} : results'[j] = results[j]
        /\ results'[k] = put
    BY <1>1, <1>2, <1>4, <2>3 DEF put
  <2>5. ASSUME NEW j \in Caches, NEW y \in Range(results'[j])
        PROVE  \/ y \in Range(results[j])
               \/ y.current => call[t].current /\ y.path = call[t].info[ComponentOf(j)] /\ y.l = call[t].l
    <3>1. CASE j = k
      BY <1>4, <2>3, <2>4, <2>5, <3>1
    <3>2. CASE j # k
      BY <2>4, <2>5, <3>2
    <3> QED
      BY <3>1, <3>2
  <2> QED
    BY <1>1, <1>2, <2>1, <2>4, <2>5, ResultsMove
<1>5. CASE TryGet(t)
  <2>1. ASSUME NEW x \in Entries(results[k], call[t].l, call[t].w)
        PROVE  x \in Range(results[k]) /\ x \in Entry
    <3>1. x \in Range(results[k])
      BY DEF Entries
    <3>2. results[k] \in Seq(Entry)
      BY <1>1, <1>2
    <3> QED
      BY <3>1, <3>2 DEF Range
  <2>2. \/ GoTo(t, "recheck") /\ UNCHANGED results
        \/ \E x \in Entries(results[k], call[t].l, call[t].w) :
              results' = [results EXCEPT ![k] = Put(@, x, ResultCacheSize)] /\ Answer(t)
    BY <1>5 DEF TryGet
  <2> QED
    BY <1>3, <1>4, <2>1, <2>2
<1>6. CASE StoreResult(t)
  <2> DEFINE entry == [l |-> call[t].l, w |-> call[t].w, path |-> PathOf(t),
                       current |-> call[t].current]
  <2>1. entry \in Entry
    BY <1>2 DEF Entry
  <2>2. /\ entry.l = call[t].l /\ entry.current = call[t].current
        /\ entry.path = call[t].info[ComponentOf(k)]
    BY <1>2 DEF PathOf
  <2>3. results' = [results EXCEPT ![k] = Put(@, entry, ResultCacheSize)] /\ Answer(t)
    BY <1>6 DEF StoreResult
  <2> HIDE DEF entry
  <2> QED
    BY <1>4, <2>1, <2>2, <2>3
<1> QED
  BY <1>5, <1>6

LEMMA ClearLocaleInformed ==
  ASSUME Informed, NEW t \in Threads, ClearLocale(t) PROVE Informed'
<1>1. /\ UNCHANGED <<plan, reg, seen, failures, store, user>>
      /\ call[t].pc \in {"clear personal", "clear failed"}
      /\ call[t] \in Call /\ Asks(call[t]) /\ results \in [Caches -> Seq(Entry)]
      /\ reg.revision \in Nat /\ call[t].rev <= reg.revision
  BY CallIs DEF ClearLocale, At, Informed, Typed
<1>2. Place(call[t]) = call[t].pc /\ ~Noticing(call[t]) /\ ~At(t, "reopen")
  BY <1>1 DEF Place, Noticing, Clearing, At
<1> DEFINE gone(k) == {x \in Range(results[k]) : x.l = call[t].l}
<1>3. results' = [k \in Caches |-> Without(results[k], gone(k))]
  BY DEF ClearLocale, WithoutLocale
<1>4. ASSUME NEW k \in Caches
      PROVE  /\ Without(results[k], gone(k)) \in Seq(Entry)
             /\ Range(Without(results[k], gone(k))) \subseteq Range(results[k])
  <2>1. results[k] \in Seq(Entry)
    BY <1>1
  <2> HIDE DEF gone
  <2> QED
    BY <2>1, WithoutIs
<1> HIDE DEF gone
<1>5. /\ results' \in [Caches -> Seq(Entry)]
      /\ \A k \in Caches : \A x \in Range(results'[k]) : x \in Range(results[k])
  BY <1>3, <1>4
<1>6. CASE End(t)
  <2>1. Idle.rev <= reg.revision /\ Idle.current = FALSE
    <3>1. Idle.rev = 0 /\ Idle.current = FALSE
      BY DEF Idle
    <3>2. 0 <= reg.revision
      <4>1. reg.revision \in Nat
        BY <1>1
      <4> QED
        BY <4>1
    <3> QED
      BY <3>1, <3>2
  <2>2. call' = [call EXCEPT ![t] = Idle]
    BY <1>6 DEF End
  <2> QED
    BY <1>1, <1>2, <1>5, <2>1, <2>2, IdleIs, ResultsMove
<1>7. CASE At(t, "clear personal") /\ call[t].op # "mutate" /\ GoTo(t, "discover")
  <2> DEFINE r == [call[t] EXCEPT !.pc = "discover"]
  <2>1. /\ "discover" \in Points \ {"unload"} /\ "discover" \notin Answering
        /\ call[t].op \in Callers("discover") /\ call[t].pc # "unload" /\ call[t].pc \notin Clearing
    BY <1>1, <1>2, <1>7 DEF Asks, Callers, Answering, Points, Clearing, At
  <2>2. /\ r \in Call /\ Asks(r) /\ r.rev = call[t].rev /\ r.current = call[t].current
        /\ r.info = call[t].info /\ r.l = call[t].l
    BY <1>1, <2>1, GoneIs
  <2>3. call' = [call EXCEPT ![t] = r]
    BY <1>7 DEF GoTo
  <2> HIDE DEF r
  <2> QED
    BY <1>1, <1>2, <1>5, <2>2, <2>3, ResultsMove
<1> QED
  BY <1>6, <1>7 DEF ClearLocale

-----------------------------------------------------------------------------
(* The theorems about types and knowledge.                                  *)

LEMMA InitInformed ==
  ASSUME RegistryAssumption, ServiceAssumption PROVE Init => Informed
<1> SUFFICES ASSUME Init PROVE Informed
  OBVIOUS
<1>1. plan \in Plans /\ reg \in Registry /\ reg.revision \in Nat
  <2> DEFINE names == SetToSeq(Sources)
             new == NewRegistry(names)
  <2>1. names \in Seq(Sources)
    BY RegistryAssumption, SetToSeqLists
  <2>2. plan \in Plans /\ (reg = new \/ \E disk \in plan.disks : reg = StoreDiscovery(new, Query(new.providers, disk)))
    BY DEF Init
  <2> HIDE DEF names
  <2>3. new \in Registry
    BY <2>1 DEF NewRegistry, Registry
  <2> HIDE DEF new
  <2>4. \A disk \in plan.disks : disk \in Disks
    BY <2>2, ServiceAssumption DEF Disks
  <2>5. reg \in Registry
    BY <2>2, <2>3, <2>4, DiscoveryType
  <2> QED
    BY <2>2, <2>5 DEF Registry
<1>2. /\ failures \in [Pairs -> [path : Paths, current : BOOLEAN] \cup {Nothing}]
      /\ \A p \in Pairs : failures[p] = Nothing
  BY DEF Init
<1>3. <<>> \in Seq(Entry) /\ <<>> \in Seq(Cached)
  OBVIOUS
<1>4. /\ results \in [Caches -> Seq(Entry)] /\ backends \in [Components -> Seq(Cached)]
      /\ lock \in [Components -> Threads \cup {Free}] /\ loaded \subseteq Engines
      /\ user \in [Engines -> Threads \cup {Free}]
  BY <1>3 DEF Init
<1>5. call \in [Threads -> Call] /\ \A t \in Threads : call[t] = Idle
  BY IdleIs DEF Init
<1>6. Idle.rev <= reg.revision /\ Idle.current = FALSE
  <2>1. Idle.rev = 0 /\ Idle.current = FALSE
    BY DEF Idle
  <2>2. 0 <= reg.revision
    BY <1>1
  <2> QED
    BY <2>1, <2>2
<1>7. seen \in Nat /\ seen <= reg.revision
  <2>1. seen = reg.revision
    BY DEF Init
  <2> QED
    BY <1>1, <2>1
<1>8. Typed
  BY <1>1, <1>2, <1>4, <1>5, <1>6, <1>7, IdleIs DEF Typed
<1>9. ResultsFresh
  <2>1. ASSUME NEW k \in Caches PROVE Range(results[k]) = {}
    <3>1. results[k] = <<>>
      BY DEF Init
    <3>2. Range(<<>>) = {}
      BY DEF Range
    <3> QED
      BY <3>1, <3>2
  <2> QED
    BY <2>1 DEF ResultsFresh
<1>10. CallsFresh
  BY <1>5, <1>6 DEF CallsFresh
<1>11. FailuresFresh
  BY <1>2 DEF FailuresFresh
<1> QED
  BY <1>8, <1>9, <1>10, <1>11 DEF Informed, Knows

LEMMA StutterInformed == Informed /\ UNCHANGED vars => Informed'
<1> SUFFICES ASSUME Informed, UNCHANGED vars PROVE Informed'
  OBVIOUS
<1>1. UNCHANGED <<plan, reg, seen, failures, results, store, user, call>>
  BY DEF vars, store
<1>2. /\ failures' \in [Pairs -> [path : Paths, current : BOOLEAN] \cup {Nothing}]
      /\ results' \in [Caches -> Seq(Entry)] /\ call' \in [Threads -> Call] /\ StoreTyped'
  BY <1>1, StoreStaysTyped DEF Informed, Typed
<1>3. \A l, c, path : FromSnapshot(l, c, path)' <=> FromSnapshot(l, c, path)
  BY <1>1 DEF FromSnapshot, InfoOf, MakeInfo
<1>4. (ResultsFresh => ResultsFresh') /\ (FailuresFresh => FailuresFresh')
  <2>1. ResultsFresh => ResultsFresh'
    BY <1>1, <1>3 DEF ResultsFresh, ComponentOf
  <2>2. FailuresFresh => FailuresFresh'
    BY <1>1, <1>3 DEF FailuresFresh
  <2> QED
    BY <2>1, <2>2
<1>5. ASSUME NEW u \in Threads
      PROVE  /\ Asks(call'[u]) /\ call'[u].rev <= reg.revision
             /\ Noticing(call[u]) => Noticing(call'[u])
             /\ At(u, "reopen") => At(u, "reopen")'
             /\ call'[u].current =>
                  \/ call'[u].info = InfoOf(reg, call'[u].l)
                  \/ call[u].current /\ call'[u].info = call[u].info /\ call'[u].l = call[u].l
  BY <1>1, CallIs DEF At
<1> QED
  BY <1>1, <1>2, <1>4, <1>5, StaysInformed DEF StoreTyped

LEMMA NextInformed ==
  ASSUME RegistryAssumption, ServiceAssumption
  PROVE  Careful /\ Informed /\ [Next]_vars => Informed'
<1> SUFFICES ASSUME Careful, Informed, [Next]_vars PROVE Informed'
  OBVIOUS
<1>1. CASE UNCHANGED vars
  BY <1>1, StutterInformed
<1>2. CASE ChangeRegistry
  BY <1>2, ChangeRegistryInformed
<1>3. ASSUME NEW t \in Threads, Begin(t) PROVE Informed'
  BY <1>3, BeginInformed, BeginRetryInformed DEF Begin
<1>4. ASSUME NEW t \in Threads, Step(t) PROVE Informed'
  <2>1. CASE Use(t)
    <3>1. call[t].engine \in Engines
      BY <2>1 DEF Use, Careful, UsesOwn
    <3> QED
      BY <2>1, <3>1, UseInformed
  <2>2. CASE \/ AskPersonal(t) \/ ClearLocale(t) \/ Discover(t) \/ StoreFound(t)
             \/ ReadInfo(t) \/ ReadRevision(t) \/ CompareRevision(t)
             \/ (\E c \in Components : ClearBackends(t, c))
    BY <2>2, AskPersonalInformed, ClearLocaleInformed, DiscoverInformed, StoreFoundInformed,
       ReadInformed, CompareRevisionInformed, ClearBackendsInformed
  <2>3. CASE \/ ClearResults(t) \/ Reopen(t) \/ Gate(t) \/ TryGet(t) \/ Recheck(t) \/ Obtain(t)
             \/ Unload(t) \/ Finish(t) \/ StoreResult(t) \/ Disable(t) \/ ListKeys(t) \/ Drop(t)
    BY <2>3, ClearResultsInformed, ReopenInformed, GateInformed, AnswerInformed, ObtainInformed,
       UnloadInformed, FinishInformed, DisableInformed, DropInformed
  <2> QED
    BY <1>4, <2>1, <2>2, <2>3 DEF Step
<1> QED
  BY <1>1, <1>2, <1>3, <1>4 DEF Next

\* Every call, cache and failure keeps its shape, for any threads, locales, providers and
\* sizes of the caches (LinguisticService and its caches).
THEOREM ServiceTypes == Spec => []TypeOK
<1>1. RegistryAssumption /\ ServiceAssumption
  BY RegistryAssumption, ServiceAssumption
<1>2. (Init => Informed) /\ (Careful /\ Informed /\ [Next]_vars => Informed')
  BY <1>1, InitInformed, NextInformed
<1>3. Informed => TypeOK
  BY InformedImplies
<1> QED
  BY <1>2, <1>3, InitCareful, NextCareful, PTL DEF Spec

\* Once a change of the registry is noticed and the caches are cleared, results and failures
\* come from the dictionaries it now names, but for those of calls that had read theirs
\* before (_sync_registry_revision, clear_result_caches, _disable_component).
THEOREM KnowledgeStaysCurrent == Spec => []KnowledgeIsCurrent
<1>1. RegistryAssumption /\ ServiceAssumption
  BY RegistryAssumption, ServiceAssumption
<1>2. (Init => Informed) /\ (Careful /\ Informed /\ [Next]_vars => Informed')
  BY <1>1, InitInformed, NextInformed
<1>3. Informed => KnowledgeIsCurrent
  BY InformedImplies
<1> QED
  BY <1>2, <1>3, InitCareful, NextCareful, PTL DEF Spec

\* What the registry holds is selected by priority, from however many candidates
\* (_prefer and _component of registry.py).
THEOREM SelectionsAreByPriority == Spec => []SelectionIsByPriority
<1>1. SelectionIsByPriority
  BY SelectionsFollowPriority, ServiceAssumption DEF SelectionIsByPriority, PrioritiesDecide
<1> QED
  BY <1>1, PTL

-----------------------------------------------------------------------------
(* When the registry changes only between calls.                            *)

\* Nothing changes the registry while a call has the information of a dictionary.
ChangesBetweenCalls == [][reg' # reg => \A t \in Threads : call[t].info = NoInfo]_vars

\* What calls know is what the registry says, and so are the results but for those that
\* a call is about to clear.
CallsKnow == \A t \in Threads : call[t].info # NoInfo => call[t].info = InfoOf(reg, call[t].l)
ResultsTrue ==
    \A k \in Caches : \A x \in Range(results[k]) : FromSnapshot(x.l, ComponentOf(k), x.path)
Undisturbed == CallsKnow /\ (Unsettled \/ ResultsTrue)

\* What a call knows is kept or read anew, and it does not forget to clear the results.
GoesOnKnowing(u) ==
    /\ Noticing(call[u]) => Noticing(call'[u])
    /\ call'[u].info # NoInfo =>
         \/ call'[u].info = call[u].info /\ call'[u].l = call[u].l
         \/ call'[u].info = InfoOf(reg, call'[u].l)

\* A result is kept, or is of a dictionary that some call knows.
Credible(k, x) ==
    \/ x \in Range(results[k])
    \/ \E u \in Threads : call[u].info # NoInfo /\ x.l = call[u].l
                          /\ x.path = call[u].info[ComponentOf(k)]

LEMMA StaysUndisturbed ==
  ASSUME Undisturbed, UNCHANGED <<reg, seen>>, \A u \in Threads : GoesOnKnowing(u),
         \A k \in Caches : \A x \in Range(results'[k]) : Credible(k, x)
  PROVE  Undisturbed'
<1>1. Unsettled => Unsettled'
  <2>1. ASSUME NEW u \in Threads, Noticing(call[u]) PROVE Noticing(call[u])'
    BY <2>1 DEF GoesOnKnowing, Noticing, Place
  <2> QED
    BY <2>1 DEF Unsettled
<1>2. ASSUME NEW u \in Threads, call'[u].info # NoInfo
      PROVE  call'[u].info = InfoOf(reg', call'[u].l)
  <2>1. InfoOf(reg', call'[u].l) = InfoOf(reg, call'[u].l)
    OBVIOUS
  <2>2. CASE call'[u].info = InfoOf(reg, call'[u].l)
    BY <2>1, <2>2
  <2>3. CASE call'[u].info = call[u].info /\ call'[u].l = call[u].l
    BY <1>2, <2>1, <2>3 DEF Undisturbed, CallsKnow
  <2> QED
    BY <1>2, <2>2, <2>3 DEF GoesOnKnowing
<1>3. ASSUME ResultsTrue, NEW k \in Caches, NEW x \in Range(results'[k])
      PROVE  x.path = InfoOf(reg', x.l)[ComponentOf(k)]
  <2>1. InfoOf(reg', x.l) = InfoOf(reg, x.l)
    OBVIOUS
  <2>2. CASE x \in Range(results[k])
    BY <1>3, <2>1, <2>2 DEF ResultsTrue, FromSnapshot
  <2>3. ASSUME NEW u \in Threads, call[u].info # NoInfo, x.l = call[u].l,
               x.path = call[u].info[ComponentOf(k)]
        PROVE  x.path = InfoOf(reg', x.l)[ComponentOf(k)]
    <3>1. call[u].info = InfoOf(reg, x.l)
      BY <2>3 DEF Undisturbed, CallsKnow
    <3> QED
      BY <2>1, <2>3, <3>1
  <2> QED
    BY <2>2, <2>3 DEF Credible
<1>4. ResultsTrue => ResultsTrue'
  <2> SUFFICES ASSUME ResultsTrue, NEW k \in Caches, NEW x \in Range(results'[k])
               PROVE  FromSnapshot(x.l, ComponentOf(k), x.path)'
    BY DEF ResultsTrue, ComponentOf
  <2> QED
    BY <1>3 DEF FromSnapshot, ComponentOf
<1>5. CallsKnow'
  BY <1>2 DEF CallsKnow
<1> QED
  BY <1>1, <1>4, <1>5 DEF Undisturbed

\* Only t goes on, no result is stored.
LEMMA OneStaysUndisturbed ==
  ASSUME Undisturbed, NEW t \in Threads, UNCHANGED <<reg, seen, results>>,
         \A u \in Threads \ {t} : call'[u] = call[u], GoesOnKnowing(t)
  PROVE  Undisturbed'
<1>1. \A u \in Threads : GoesOnKnowing(u)
  BY DEF GoesOnKnowing
<1>2. \A k \in Caches : \A x \in Range(results'[k]) : Credible(k, x)
  BY DEF Credible
<1> QED
  BY <1>1, <1>2, StaysUndisturbed

\* Steps outside the clearing that only move their call on, or end it.
LEMMA SeekUndisturbed ==
  ASSUME Careful, Undisturbed, NEW t \in Threads,
         AskPersonal(t) \/ Discover(t) \/ ReadRevision(t) \/ Gate(t) \/ Recheck(t) \/ Use(t)
           \/ Finish(t) \/ Disable(t) \/ ListKeys(t) \/ Obtain(t) \/ Drop(t)
  PROVE  Undisturbed'
<1> DEFINE Mine == call'[t].info # NoInfo =>
                     call'[t].info = call[t].info /\ call'[t].l = call[t].l
           Fine == /\ \A u \in Threads \ {t} : call'[u] = call[u]
                   /\ Mine /\ UNCHANGED <<reg, seen, results>>
                   /\ call[t].pc \notin Clearing \cup {"unload"}
<1>1. \A pc : GoTo(t, pc) => Mine /\ \A u \in Threads \ {t} : call'[u] = call[u]
  BY DEF GoTo, Careful, Shape, Idle
<1>2. End(t) => Mine /\ \A u \in Threads \ {t} : call'[u] = call[u]
  BY DEF End, Careful, Shape, Idle
<1> DEFINE Keeping(next) == DOMAIN next = DOMAIN Idle /\ next.info = call[t].info /\ next.l = call[t].l
<1>3. ASSUME NEW c, NEW todo, NEW next, Unloading(t, c, todo, next), Keeping(next)
      PROVE  Mine /\ \A u \in Threads \ {t} : call'[u] = call[u]
  BY <1>3 DEF Unloading, Careful, Shape, Idle
<1>4. AskPersonal(t) => Fine
  <2> SUFFICES ASSUME AskPersonal(t) PROVE Fine
    OBVIOUS
  <2>1. UNCHANGED <<reg, seen, results>> /\ call[t].pc \notin Clearing \cup {"unload"}
    BY DEF AskPersonal, At, Clearing
  <2> QED
    BY <1>1, <1>2, <2>1 DEF AskPersonal
<1>5. Discover(t) => Fine
  BY <1>1 DEF Discover, At, Clearing, Careful, Shape, Idle
<1>6. ReadRevision(t) => Fine
  BY DEF ReadRevision, At, Clearing, Careful, Shape, Idle
<1>7. Gate(t) => Fine
  BY <1>1, <1>2 DEF Gate, At, Clearing
<1>8. Recheck(t) => Fine
  BY <1>1, <1>2 DEF Recheck, At, Clearing
<1>9. Use(t) => Fine
  BY <1>1 DEF Use, At, Clearing
<1>10. Finish(t) => Fine
  BY DEF Finish, At, Clearing, Careful, Shape, Idle
<1>11. Disable(t) => Fine
  BY DEF Disable, At, Clearing, Careful, Shape, Idle
<1>12. ListKeys(t) => Fine
  BY DEF ListKeys, At, Clearing, Careful, Shape, Idle
<1>13. Obtain(t) => Fine
  <2> SUFFICES ASSUME Obtain(t) PROVE Fine
    OBVIOUS
  <2>1. UNCHANGED <<reg, seen, results>>
    BY DEF Obtain
  <2>2. call[t].pc \notin Clearing \cup {"unload"}
    BY DEF Obtain, At, Clearing
  <2>3. \A id : Keeping([call[t] EXCEPT !.engine = id, !.pc = "use"])
    BY DEF Careful, Shape, Idle
  <2> HIDE DEF Mine, Keeping
  <2>4. Mine /\ \A u \in Threads \ {t} : call'[u] = call[u]
    <3>1. CASE GoTo(t, "fail")
      BY <1>1, <3>1
    <3>2. CASE \E id, c, todo : Unloading(t, c, todo, [call[t] EXCEPT !.engine = id, !.pc = "use"])
      BY <1>3, <2>3, <3>2
    <3> QED
      BY <3>1, <3>2 DEF Obtain
  <2> QED
    BY <2>1, <2>2, <2>4
<1>14. Drop(t) => Fine
  <2> SUFFICES ASSUME Drop(t) PROVE Fine
    OBVIOUS
  <2>1. UNCHANGED <<reg, seen, results>>
    BY DEF Drop
  <2>2. call[t].pc \notin Clearing \cup {"unload"}
    BY DEF Drop, At, Clearing
  <2>3. \A p : Keeping([call[t] EXCEPT !.keys = @ \ {p}])
    BY DEF Careful, Shape, Idle
  <2> HIDE DEF Mine, Keeping
  <2>4. Mine /\ \A u \in Threads \ {t} : call'[u] = call[u]
    <3>1. CASE GoTo(t, "clear failed")
      BY <1>1, <3>1
    <3>2. CASE \E p, c, todo : Unloading(t, c, todo, [call[t] EXCEPT !.keys = @ \ {p}])
      BY <1>3, <2>3, <3>2
    <3> QED
      BY <3>1, <3>2 DEF Drop
  <2> QED
    BY <2>1, <2>2, <2>4
<1>15. Fine => GoesOnKnowing(t)
  BY DEF GoesOnKnowing, Noticing, Place
<1>16. Fine => Undisturbed'
  BY <1>15, OneStaysUndisturbed
<1> HIDE DEF Fine
<1> QED
  BY <1>4, <1>5, <1>6, <1>7, <1>8, <1>9, <1>10, <1>11, <1>12, <1>13, <1>14, <1>16


\* The clearing goes on, from one cache of engines to the next and to the results.
LEMMA ClearUndisturbed ==
  ASSUME Careful, Undisturbed, NEW t \in Threads,
         Unload(t) \/ \E c \in Components : ClearBackends(t, c)
  PROVE  Undisturbed'
<1>1. DOMAIN call = Threads /\ DOMAIN call[t] = DOMAIN Idle
  BY DEF Careful, Shape
<1>2. CASE Unload(t)
  <2>1. /\ UNCHANGED <<reg, seen, results>> /\ call[t].pc = "unload"
        /\ \A u \in Threads \ {t} : call'[u] = call[u]
    BY <1>1, <1>2 DEF Unload, At
  <2>2. /\ call'[t].info = call[t].info /\ call'[t].l = call[t].l /\ call'[t].op = call[t].op
        /\ \/ call'[t].pc = call[t].after
           \/ call'[t].pc = "unload" /\ call'[t].after = call[t].after
    BY <1>1, <1>2 DEF Unload, Idle
  <2>3. Noticing(call[t]) => Noticing(call'[t])
    BY <2>1, <2>2 DEF Noticing, Place, Clearing
  <2> QED
    BY <2>1, <2>2, <2>3, OneStaysUndisturbed DEF GoesOnKnowing
<1>3. ASSUME NEW c \in Components, ClearBackends(t, c) PROVE Undisturbed'
  <2> DEFINE pc == IF c = "spelling" THEN "clear thesaurus" ELSE "clear results"
             todo == [i \in 1..Len(backends[c]) |-> backends[c][i].id]
             next == [call[t] EXCEPT !.c = c, !.pc = pc]
             r == IF todo = <<>> THEN next
                  ELSE [next EXCEPT !.todo = todo, !.after = next.pc, !.pc = "unload"]
  <2>1. UNCHANGED <<reg, seen, results>> /\ call' = [call EXCEPT ![t] = r]
    BY <1>3 DEF ClearBackends, Unloading
  <2> HIDE DEF todo, pc
  <2>2. /\ r.info = call[t].info /\ r.l = call[t].l /\ r.op = call[t].op
        /\ r.pc = pc \/ (r.pc = "unload" /\ r.after = pc)
    BY <1>1 DEF Idle
  <2> HIDE DEF r
  <2>3. call'[t] = r /\ \A u \in Threads \ {t} : call'[u] = call[u]
    BY <1>1, <2>1
  <2>4. pc \in Clearing
    BY DEF pc, Clearing
  <2>5. Noticing(call[t]) => Noticing(call'[t])
    BY <2>2, <2>3, <2>4 DEF Noticing, Place, Clearing
  <2> QED
    BY <2>1, <2>2, <2>3, <2>5, OneStaysUndisturbed DEF GoesOnKnowing
<1> QED
  BY <1>2, <1>3

\* The information of a dictionary is what the registry says when it is read.
LEMMA ReadUndisturbed ==
  ASSUME Careful, Undisturbed, NEW t \in Threads, ReadInfo(t) PROVE Undisturbed'
<1>1. DOMAIN call = Threads /\ DOMAIN call[t] = DOMAIN Idle
  BY DEF Careful, Shape
<1>2. /\ UNCHANGED <<reg, seen, results>> /\ call[t].pc = "read"
      /\ \A u \in Threads \ {t} : call'[u] = call[u]
  BY <1>1 DEF ReadInfo, At
<1>3. call'[t].info = InfoOf(reg, call'[t].l)
  <2>1. call'[t].info = InfoOf(reg, call[t].l) /\ call'[t].l = call[t].l
    BY <1>1 DEF ReadInfo, Idle
  <2> QED
    BY <2>1
<1>4. ~Noticing(call[t])
  BY <1>2 DEF Noticing, Place, Clearing
<1> QED
  BY <1>2, <1>3, <1>4, OneStaysUndisturbed DEF GoesOnKnowing

\* A new revision is noted by a call that will clear the results.
LEMMA CompareUndisturbed ==
  ASSUME Careful, Informed, Undisturbed, NEW t \in Threads, CompareRevision(t)
  PROVE  Undisturbed'
<1>1. DOMAIN call = Threads /\ DOMAIN call[t] = DOMAIN Idle
  BY DEF Careful, Shape
<1>2. UNCHANGED <<reg, results>> /\ call[t].pc = "compare" /\ seen' = call[t].rev
  BY DEF CompareRevision, At
<1>3. /\ \A u \in Threads \ {t} : call'[u] = call[u]
      /\ call'[t].info # NoInfo => call'[t].info = call[t].info /\ call'[t].l = call[t].l
  <2>1. CASE End(t)
    BY <1>1, <2>1 DEF End, Idle
  <2>2. CASE \E pc : call' = [call EXCEPT ![t].pc = pc, ![t].rev = 0]
    BY <1>1, <2>2 DEF Idle
  <2> QED
    BY <2>1, <2>2 DEF CompareRevision, AfterSync
<1>4. ~Noticing(call[t])
  BY <1>2 DEF Noticing, Place, Clearing
<1>5. CASE call[t].rev = seen
  BY <1>2, <1>3, <1>4, <1>5, OneStaysUndisturbed DEF GoesOnKnowing
<1>6. CASE call[t].rev # seen
  <2>1. call'[t].pc = "clear spelling" /\ call'[t].op = call[t].op
    BY ZenonT(60), <1>1, <1>6 DEF CompareRevision, Idle
  <2>2. call[t].op \in Asking \cup {"refresh"}
    BY <1>2, CallIs DEF Asks, Place, Callers, Answering
  <2>3. Noticing(call'[t])
    BY <2>1, <2>2 DEF Noticing, Place, Clearing, Asking
  <2>4. Unsettled'
    BY <2>3 DEF Unsettled, Noticing, Place
  <2>5. CallsKnow'
    <3> SUFFICES ASSUME NEW u \in Threads, call'[u].info # NoInfo
                 PROVE  call'[u].info = InfoOf(reg', call'[u].l)
      BY DEF CallsKnow
    <3>1. call'[u].info = call[u].info /\ call'[u].l = call[u].l
      BY <1>3
    <3>2. call[u].info = InfoOf(reg, call[u].l)
      BY <3>1 DEF Undisturbed, CallsKnow
    <3> QED
      BY <1>2, <3>1, <3>2
  <2> QED
    BY <2>4, <2>5 DEF Undisturbed
<1> QED
  BY <1>5, <1>6


\* The results of one locale are cleared.
LEMMA ClearLocaleUndisturbed ==
  ASSUME Careful, Informed, Undisturbed, NEW t \in Threads, ClearLocale(t) PROVE Undisturbed'
<1>1. DOMAIN call = Threads /\ DOMAIN call[t] = DOMAIN Idle
  BY DEF Careful, Shape
<1>2. UNCHANGED <<reg, seen>> /\ call[t].pc \in {"clear personal", "clear failed"}
  BY DEF ClearLocale, At
<1>3. /\ \A u \in Threads \ {t} : call'[u] = call[u]
      /\ call'[t].info # NoInfo => call'[t].info = call[t].info /\ call'[t].l = call[t].l
  <2>1. CASE End(t)
    BY <1>1, <2>1 DEF End, Idle
  <2>2. CASE GoTo(t, "discover")
    BY <1>1, <2>2 DEF GoTo, Idle
  <2> QED
    BY <2>1, <2>2 DEF ClearLocale
<1>4. ~Noticing(call[t])
  BY <1>2 DEF Noticing, Place, Clearing
<1>5. \A u \in Threads : GoesOnKnowing(u)
  BY <1>3, <1>4 DEF GoesOnKnowing
<1>6. ASSUME NEW k \in Caches, NEW x \in Range(results'[k]) PROVE Credible(k, x)
  <2> DEFINE gone == {y \in Range(results[k]) : y.l = call[t].l}
  <2>1. results'[k] = Without(results[k], gone)
    BY DEF ClearLocale, WithoutLocale
  <2>2. results[k] \in Seq(Entry)
    BY DEF Informed, Typed
  <2> HIDE DEF gone
  <2>3. Range(results'[k]) \subseteq Range(results[k])
    BY <2>1, <2>2, WithoutIs
  <2> QED
    BY <2>3 DEF Credible
<1> QED
  BY <1>2, <1>5, <1>6, StaysUndisturbed

\* A result found again stays; one that is stored is of the dictionary its call knows.
LEMMA AnswerUndisturbed ==
  ASSUME Careful, Informed, ServiceAssumption, Undisturbed, NEW t \in Threads,
         TryGet(t) \/ StoreResult(t)
  PROVE  Undisturbed'
<1>1. DOMAIN call = Threads /\ DOMAIN call[t] = DOMAIN Idle
  BY DEF Careful, Shape
<1>2. UNCHANGED <<reg, seen>> /\ call[t].pc \in {"cached", "put"} /\ call[t].pc \in Answering
  BY DEF TryGet, StoreResult, At, Answering
<1>3. /\ \A u \in Threads \ {t} : call'[u] = call[u]
      /\ call'[t].info # NoInfo => call'[t].info = call[t].info /\ call'[t].l = call[t].l
  <2>1. CASE End(t)
    BY <1>1, <2>1 DEF End, Idle
  <2>2. CASE GoTo(t, "recheck")
    BY <1>1, <2>2 DEF GoTo, Idle
  <2>3. CASE call' = [call EXCEPT ![t].cache = "suggestions", ![t].pc = "discover",
                               ![t].info = NoInfo, ![t].current = FALSE]
    BY <1>1, <2>3 DEF Idle
  <2> QED
    BY <2>1, <2>2, <2>3 DEF TryGet, StoreResult, Answer
<1>4. /\ ~Noticing(call[t]) /\ call[t].c = ComponentOf(call[t].cache)
      /\ call[t].l \in Locales /\ call[t].w \in Words /\ PathOf(t) \in Paths
      /\ call[t].cache \in Caches /\ call[t].c \in Components /\ call[t].current \in BOOLEAN
  <2>1. call[t] \in Call
    BY CallIs
  <2> QED
    BY <1>2, <2>1, AnsweringIs DEF Call
<1>5. call[t].info # NoInfo
  BY <1>4, NothingAssumption DEF PathOf, NoInfo
<1>6. \A u \in Threads : GoesOnKnowing(u)
  BY <1>3, <1>4 DEF GoesOnKnowing
<1> DEFINE k == call[t].cache
<1>7. ASSUME NEW x \in Entry, results' = [results EXCEPT ![k] = Put(@, x, ResultCacheSize)],
             Credible(k, x), NEW j \in Caches, NEW y \in Range(results'[j])
      PROVE  Credible(j, y)
  <2> DEFINE items == results[k]
             gone == Entries(items, x.l, x.w)
             with == Append(Without(items, gone), x)
             kept == SubSeq(with, 1 + TooMany(with, ResultCacheSize), Len(with))
  <2>1. items \in Seq(Entry) /\ ResultCacheSize \in Nat /\ DOMAIN results = Caches
    BY <1>4, ServiceAssumption DEF Informed, Typed
  <2>2. Put(items, x, ResultCacheSize) = kept
    BY DEF Put
  <2> HIDE DEF gone
  <2>3. Range(kept) \subseteq Range(items) \cup {x}
    <3> HIDE DEF items
    <3> QED
      BY <1>7, <2>1, PutIs
  <2> HIDE DEF kept
  <2>4. CASE j = k
    <3>1. results'[j] = kept
      BY <1>4, <1>7, <2>1, <2>2, <2>4
    <3> QED
      BY <1>7, <2>3, <2>4, <3>1 DEF Credible
  <2>5. CASE j # k
    <3>1. results'[j] = results[j]
      BY <1>7, <2>1, <2>5
    <3> QED
      BY <1>7, <3>1 DEF Credible
  <2> QED
    BY <2>4, <2>5
<1>8. ASSUME NEW j \in Caches, NEW y \in Range(results'[j]) PROVE Credible(j, y)
  <2>1. CASE UNCHANGED results
    BY <1>8, <2>1 DEF Credible
  <2>2. ASSUME NEW x \in Entries(results[k], call[t].l, call[t].w),
               results' = [results EXCEPT ![k] = Put(@, x, ResultCacheSize)]
        PROVE  Credible(j, y)
    <3>1. x \in Range(results[k])
      BY <2>2 DEF Entries
    <3>2. x \in Entry
      <4>1. results[k] \in Seq(Entry)
        BY <1>4 DEF Informed, Typed
      <4> QED
        BY <3>1, <4>1 DEF Range
    <3>3. Credible(k, x)
      BY <3>1 DEF Credible
    <3> QED
      BY <1>7, <1>8, <2>2, <3>2, <3>3
  <2>3. CASE StoreResult(t)
    <3> DEFINE x == [l |-> call[t].l, w |-> call[t].w, path |-> PathOf(t),
                     current |-> call[t].current]
    <3>1. results' = [results EXCEPT ![k] = Put(@, x, ResultCacheSize)]
      BY <2>3 DEF StoreResult
    <3>2. x \in Entry
      BY <1>4 DEF Entry
    <3>3. x.l = call[t].l /\ x.path = call[t].info[ComponentOf(k)]
      BY <1>4 DEF PathOf
    <3> HIDE DEF x
    <3>4. Credible(k, x)
      BY <1>5, <3>3 DEF Credible
    <3> QED
      BY <1>7, <1>8, <3>1, <3>2, <3>4
  <2>4. TryGet(t) => \/ UNCHANGED results
                     \/ \E x \in Entries(results[k], call[t].l, call[t].w) :
                          results' = [results EXCEPT ![k] = Put(@, x, ResultCacheSize)]
    BY DEF TryGet
  <2> QED
    BY <2>1, <2>2, <2>3, <2>4
<1> QED
  BY <1>2, <1>6, <1>8, StaysUndisturbed


\* Calls begin without the information of a dictionary.
LEMMA BeginUndisturbed ==
  ASSUME Careful, Undisturbed, NEW t \in Threads, Begin(t) PROVE Undisturbed'
<1>1. DOMAIN call = Threads /\ \A u \in Threads : DOMAIN call[u] = DOMAIN Idle
  BY DEF Careful, Shape
<1>2. UNCHANGED <<reg, seen, results>> /\ call[t].pc = "idle"
  BY DEF Begin, BeginCheck, BeginLookup, BeginRefresh, BeginRetry, BeginMutate, BeginClose,
         BeginLanguage, At
<1>3. ~Noticing(call[t])
  BY <1>2 DEF Noticing, Place, Clearing
<1>4. ASSUME NEW op, NEW l, NEW c, NEW w, NEW pc, Start(t, op, l, c, w, pc) PROVE Undisturbed'
  <2>1. call'[t].info = NoInfo /\ \A u \in Threads \ {t} : call'[u] = call[u]
    BY <1>1, <1>4 DEF Start, Idle
  <2> QED
    BY <1>2, <1>3, <2>1, OneStaysUndisturbed DEF GoesOnKnowing
<1>5. CASE BeginRetry(t)
  <2>1. call'[t].info = NoInfo
    BY ZenonT(30), <1>1, <1>5 DEF BeginRetry, Idle
  <2>2. ASSUME NEW u \in Threads \ {t}
        PROVE  /\ call'[u].info = call[u].info /\ call'[u].l = call[u].l
               /\ call'[u].op = call[u].op /\ call'[u].pc = call[u].pc
               /\ call'[u].after = call[u].after
    BY <1>1, <1>5 DEF BeginRetry, Idle
  <2>3. \A u \in Threads : GoesOnKnowing(u)
    BY <1>3, <2>1, <2>2 DEF GoesOnKnowing, Noticing, Place
  <2>4. \A k \in Caches : \A x \in Range(results'[k]) : Credible(k, x)
    BY <1>2 DEF Credible
  <2> QED
    BY <1>2, <2>3, <2>4, StaysUndisturbed
<1>6. CASE \/ BeginCheck(t) \/ BeginLookup(t) \/ BeginRefresh(t) \/ BeginMutate(t)
           \/ BeginClose(t) \/ BeginLanguage(t)
  <2>1. \E op, l, c, w, pc : Start(t, op, l, c, w, pc)
    BY <1>6 DEF BeginCheck, BeginLookup, BeginRefresh, BeginMutate, BeginClose, BeginLanguage
  <2> QED
    BY <1>4, <2>1
<1> QED
  BY <1>5, <1>6 DEF Begin

\* Once the results are cleared there are none that could be stale, and reopening the
\* components leaves them alone.
LEMMA ClearedUndisturbed ==
  ASSUME Careful, Undisturbed, NEW t \in Threads, ClearResults(t) \/ Reopen(t)
  PROVE  Undisturbed'
<1>1. DOMAIN call = Threads /\ \A u \in Threads : DOMAIN call[u] = DOMAIN Idle
  BY DEF Careful, Shape
<1>2. UNCHANGED <<reg, seen>>
  BY DEF ClearResults, Reopen
<1>3. ASSUME NEW u \in Threads
      PROVE  /\ call'[u].info # NoInfo => call'[u].info = call[u].info /\ call'[u].l = call[u].l
             /\ u # t => /\ call'[u].op = call[u].op /\ call'[u].pc = call[u].pc
                         /\ call'[u].after = call[u].after
  <2>1. CASE u = t
    <3> DEFINE c == IF call[t].op = "lookup" THEN "thesaurus" ELSE "spelling"
               cleared == [Outdated(t) EXCEPT !.pc = "reopen", !.c = c]
               reopened == [call[t] EXCEPT !.pc = "gate", !.wasOff = FALSE]
    <3> HIDE DEF c
    <3>1. Idle.info = NoInfo
      BY DEF Idle
    <3>2. cleared.info = call[t].info /\ cleared.l = call[t].l
      BY <1>1 DEF Outdated, Idle
    <3>3. reopened.info = call[t].info /\ reopened.l = call[t].l
      BY <1>1 DEF Idle
    <3>4. ClearResults(t) => call'[t] = Idle \/ call'[t] = cleared
      <4> HIDE DEF cleared
      <4>1. ClearResults(t) => call'[t] = IF call[t].op \in {"close", "language"} THEN Idle ELSE cleared
        BY DEF ClearResults, cleared, c
      <4> QED
        BY <4>1
    <3>5. Reopen(t) => call'[t] = Idle \/ call'[t] = reopened
      <4> HIDE DEF reopened
      <4>1. Reopen(t) => call'[t] = IF call[t].op = "refresh" THEN Idle ELSE reopened
        BY DEF Reopen, reopened
      <4> QED
        BY <4>1
    <3> HIDE DEF cleared, reopened
    <3> QED
      BY <2>1, <3>1, <3>2, <3>3, <3>4, <3>5
  <2>2. CASE u # t
    <3>1. \/ call'[u] = [call[u] EXCEPT !.current = FALSE]
          \/ call'[u] = [[call[u] EXCEPT !.current = FALSE] EXCEPT !.wasOff = FALSE]
      BY <2>2 DEF ClearResults, Reopen, Outdated
    <3> QED
      BY <1>1, <2>2, <3>1 DEF Idle
  <2> QED
    BY <2>1, <2>2
<1>4. CASE ClearResults(t)
  <2>1. ASSUME NEW k \in Caches PROVE Range(results'[k]) = {}
    <3>1. results'[k] = <<>>
      BY <1>4 DEF ClearResults
    <3>2. Range(<<>>) = {}
      BY DEF Range
    <3> QED
      BY <3>1, <3>2
  <2>2. ResultsTrue'
    <3>1. \A k \in Caches : Range(results'[k]) = {}
      BY <2>1
    <3> QED
      BY <3>1 DEF ResultsTrue
  <2>3. CallsKnow'
    <3> SUFFICES ASSUME NEW u \in Threads, call'[u].info # NoInfo
                 PROVE  call'[u].info = InfoOf(reg', call'[u].l)
      BY DEF CallsKnow
    <3>1. call[u].info = InfoOf(reg, call[u].l)
      BY <1>3 DEF Undisturbed, CallsKnow
    <3> QED
      BY <1>2, <1>3, <3>1
  <2> QED
    BY <2>2, <2>3 DEF Undisturbed
<1>5. CASE Reopen(t)
  <2>1. ~Noticing(call[t]) /\ UNCHANGED results
    BY <1>5 DEF Reopen, At, Noticing, Place, Clearing
  <2>2. \A u \in Threads : GoesOnKnowing(u)
    BY <1>3, <2>1 DEF GoesOnKnowing, Noticing, Place
  <2>3. \A k \in Caches : \A x \in Range(results'[k]) : Credible(k, x)
    BY <2>1 DEF Credible
  <2> QED
    BY <1>2, <2>2, <2>3, StaysUndisturbed
<1> QED
  BY <1>4, <1>5

\* The registry changes while no call knows it: whatever is cached, nothing is settled.
LEMMA ChangeUndisturbed ==
  ASSUME Careful, Informed, ServiceAssumption, Undisturbed,
         ChangeRegistry \/ \E t \in Threads : StoreFound(t),
         reg' # reg => \A t \in Threads : call[t].info = NoInfo
  PROVE  Undisturbed'
<1>1. /\ reg \in Registry /\ reg.revision \in Nat /\ seen \in Nat /\ seen <= reg.revision
      /\ UNCHANGED seen
  BY DEF Informed, Typed, Registry, ChangeRegistry, StoreFound
<1>2. reg'.revision = reg.revision + 1
  <2>1. CASE ChangeRegistry
    BY <2>1, ChangeRegistryCounts
  <2>2. CASE \E t \in Threads : StoreFound(t)
    BY <1>1, <2>2 DEF StoreFound, Registry
  <2> QED
    BY <2>1, <2>2
<1>3. reg' # reg /\ seen' # reg'.revision
  BY <1>1, <1>2
<1>4. ASSUME NEW u \in Threads PROVE call'[u].info = NoInfo
  <2>1. DOMAIN call = Threads /\ DOMAIN call[u] = DOMAIN Idle /\ call[u].info = NoInfo
    BY <1>3 DEF Careful, Shape
  <2>2. CASE ChangeRegistry
    BY <2>1, <2>2 DEF ChangeRegistry
  <2>3. ASSUME NEW t \in Threads, StoreFound(t) PROVE call'[u].info = NoInfo
    BY <2>1, <2>3 DEF StoreFound, Idle
  <2> QED
    BY <2>2, <2>3
<1> QED
  BY <1>3, <1>4 DEF Undisturbed, CallsKnow, Unsettled

LEMMA NextUndisturbed ==
  ASSUME ServiceAssumption
  PROVE  /\ Careful /\ Informed /\ Undisturbed /\ [Next]_vars
         /\ [reg' # reg => \A t \in Threads : call[t].info = NoInfo]_vars
         => Undisturbed'
<1> SUFFICES ASSUME Careful, Informed, Undisturbed, [Next]_vars,
                    [reg' # reg => \A t \in Threads : call[t].info = NoInfo]_vars
             PROVE  Undisturbed'
  OBVIOUS
<1>1. CASE UNCHANGED vars
  <2>1. UNCHANGED <<reg, seen, results, call>>
    BY <1>1 DEF vars
  <2>2. \A u \in Threads : GoesOnKnowing(u)
    BY <2>1 DEF GoesOnKnowing
  <2>3. \A k \in Caches : \A x \in Range(results'[k]) : Credible(k, x)
    BY <2>1 DEF Credible
  <2> QED
    BY <2>1, <2>2, <2>3, StaysUndisturbed
<1>2. CASE ~UNCHANGED vars
  <2>1. reg' # reg => \A t \in Threads : call[t].info = NoInfo
    BY <1>2
  <2>2. ChangeRegistry \/ (\E t \in Threads : StoreFound(t)) => Undisturbed'
    BY <2>1, ChangeUndisturbed
  <2>3. ASSUME NEW t \in Threads, Begin(t) PROVE Undisturbed'
    BY <2>3, BeginUndisturbed
  <2>4. ASSUME NEW t \in Threads, Step(t), ~StoreFound(t) PROVE Undisturbed'
    BY <2>4, SeekUndisturbed, ClearUndisturbed, ReadUndisturbed, CompareUndisturbed,
       ClearLocaleUndisturbed, AnswerUndisturbed, ClearedUndisturbed DEF Step
  <2> QED
    BY <1>2, <2>2, <2>3, <2>4 DEF Next
<1> QED
  BY <1>1, <1>2

\* Where the registry changes only while no call has read it, result-caching.md's promise
\* holds: every cached result is of the dictionary the registry names, for any threads and
\* sizes of the caches (_sync_registry_revision).  The run ServiceStale shows a call that
\* read before a change store its result after the clearing.
THEOREM ChangesBetweenCallsLeaveNothingStale == Spec /\ ChangesBetweenCalls => []NoStaleResults
<1>1. RegistryAssumption /\ ServiceAssumption
  BY RegistryAssumption, ServiceAssumption
<1>2. (Init => Informed) /\ (Careful /\ Informed /\ [Next]_vars => Informed')
  BY <1>1, InitInformed, NextInformed
<1>3. Init => Undisturbed
  <2> SUFFICES ASSUME Init PROVE Undisturbed
    OBVIOUS
  <2>1. \A t \in Threads : call[t].info = NoInfo
    BY DEF Init, Idle
  <2>2. \A k \in Caches : Range(results[k]) = {}
    BY DEF Init, Range
  <2> QED
    BY <2>1, <2>2 DEF Undisturbed, CallsKnow, ResultsTrue
<1>4. /\ Careful /\ Informed /\ Undisturbed /\ [Next]_vars
      /\ [reg' # reg => \A t \in Threads : call[t].info = NoInfo]_vars
      => Undisturbed'
  BY <1>1, NextUndisturbed
<1>5. Undisturbed => NoStaleResults
  <2>1. \A t \in Threads : At(t, "idle") => ~Noticing(call[t])
    BY DEF At, Noticing, Place, Clearing
  <2> QED
    BY <2>1 DEF Undisturbed, Unsettled, Synced, NoStaleResults, ResultsTrue
<1> QED
  BY <1>2, <1>3, <1>4, <1>5, InitCareful, NextCareful, PTL DEF Spec, ChangesBetweenCalls

=============================================================================
