------------------------- MODULE LinguisticService -------------------------
(***************************************************************************)
(* LinguisticService of service.py, called by several threads, with its    *)
(* registry, its engines (backends/spylls.py, pythes.py) and the two kinds *)
(* of caches (cache.py).  A step is a region under one lock or one access  *)
(* to another object; threads interleave between steps.                    *)
(*                                                                         *)
(* A result is known by the path of the dictionary that gave it.  Whether a *)
(* word is ignored or personal, or checking switched off, is asked before   *)
(* any cache is consulted, and left open.                                   *)
(* Diagnostics and their bounds are left out; strict is FALSE, so that a    *)
(* recoverable error ends in a fallback and never in an exception.         *)
(***************************************************************************)
EXTENDS DictionaryRegistry, BackendResolver

CONSTANTS
    Threads,
    Locales,            \* locales that are asked for
    Words,
    Plans,              \* which calls each thread may make, and what may be on disk
    Removable,          \* the providers a host may remove and add again
    Standings,          \* what the backends may answer to the resolver
    BackendCacheSize,
    ResultCacheSize,
    Engines,            \* identities of engine objects
    MaxRevision,        \* bound: no change of the registry is started beyond it
    MaxCandidates,      \* bound: the longest sequences SelectionIsByPriority speaks of
    Free                \* a lock nobody holds

AllCalls == {"check", "suggest", "lookup", "refresh", "retry", "mutate", "close", "language"}

ASSUME ServiceAssumption ==
    /\ Locales \subseteq AllLocales
    /\ Plans \subseteq [calls : [Threads -> SUBSET AllCalls], disks : SUBSET SUBSET Resources]
    /\ Removable \subseteq Sources
    /\ BackendCacheSize \in Nat \ {0}
    /\ ResultCacheSize \in Nat \ {0}
    /\ MaxCandidates \in Nat
    /\ Free \notin Threads
    /\ Nothing \notin Engines

VARIABLES
    plan,       \* the one of Plans this behaviour follows
    reg,        \* the DictionaryRegistry
    seen,       \* _registry_revision
    failures,   \* _component_failures: the path that failed, or Nothing
    results,    \* the three ResultCaches, least recently used first
    backends,   \* the two BackendCaches, least recently used first
    lock,       \* the lock of each BackendCache
    loaded,     \* the engines whose dictionary is loaded
    user,       \* the thread that holds the lock of an engine
    call        \* what each thread is doing

vars == <<plan, reg, seen, failures, results, backends, lock, loaded, user, call>>
store == <<backends, lock, loaded>>

Caches == {"spelling", "suggestions", "thesaurus"}
Pairs == Locales \X Components

Idle == [pc |-> "idle", op |-> "none", l |-> Nothing, w |-> Nothing, c |-> "spelling",
         cache |-> "spelling", rev |-> 0, selected |-> Nothing, info |-> NoInfo,
         engine |-> Nothing, keys |-> {}, todo |-> <<>>, after |-> "idle",
         current |-> FALSE, wasOff |-> FALSE]

Init ==
    /\ plan \in Plans
    /\ \E new \in {NewRegistry(SetToSeq(Sources))} :
          reg \in {new} \cup {StoreDiscovery(new, Query(new.providers, disk)) : disk \in plan.disks}
    /\ seen = reg.revision
    /\ failures = [p \in Pairs |-> Nothing]
    /\ results = [k \in Caches |-> <<>>]
    /\ backends = [c \in Components |-> <<>>]
    /\ lock = [c \in Components |-> Free]
    /\ loaded = {}
    /\ user = [e \in Engines |-> Free]
    /\ call = [t \in Threads |-> Idle]

At(t, pc) == call[t].pc = pc
Pair(t) == <<call[t].l, call[t].c>>
PathOf(t) == call[t].info[call[t].c]

\* Mutant of Disabled: one failure per locale, that of its spelling.
Disabled_SpellingOnly(l, c) == failures[l, "spelling"] # Nothing

\* component_failure
Disabled(l, c) == failures[l, c] # Nothing

GoTo(t, pc) == call' = [call EXCEPT ![t].pc = pc]
End(t) == call' = [call EXCEPT ![t] = Idle]

---------------------------------------------------------------------------
(* ResultCache and BackendCache.                                           *)

TooMany(items, size) == IF Len(items) > size THEN Len(items) - size ELSE 0

\* try_get: the entries of a key, one or none.
Entries(items, l, w) == {x \in Range(items) : x.l = l /\ x.w = w}

\* put: the key becomes the most recently used, the oldest entries are evicted.
Put(items, entry, size) ==
    LET with == Append(Without(items, Entries(items, entry.l, entry.w)), entry)
    IN  SubSeq(with, 1 + TooMany(with, size), Len(with))

\* clear_result_caches for one locale.
WithoutLocale(l) ==
    [k \in Caches |-> Without(results[k], {x \in Range(results[k]) : x.l = l})]

Held == {x.id : x \in UNION {Range(backends[c]) : c \in Components}}
            \cup {call[t].engine : t \in Threads} \cup UNION {Range(call[t].todo) : t \in Threads}

\* The lock of a BackendCache is kept while the engines in todo are unloaded.
Unloading(t, c, todo, next) ==
    /\ lock' = [lock EXCEPT ![c] = IF todo = <<>> THEN Free ELSE t]
    /\ call' = [call EXCEPT ![t] = IF todo = <<>> THEN next
                   ELSE [next EXCEPT !.todo = todo, !.after = next.pc, !.pc = "unload"]]

---------------------------------------------------------------------------
(* The calls.                                                              *)

Start(t, op, l, c, w, pc) ==
    call' = [call EXCEPT ![t] =
        [Idle EXCEPT !.pc = pc, !.op = op, !.l = l, !.w = w, !.c = c, !.cache = c,
                     !.wasOff = l # Nothing /\ failures[l, c] # Nothing]]

\* check_word of a word that is not ignored; suggestions refuses a component that
\* is off, then asks check_word.
BeginCheck(t) ==
    /\ At(t, "idle")
    /\ \E op \in {"check", "suggest"} \cap plan.calls[t], l \in Locales, w \in Words :
        /\ op = "suggest" => ~Disabled(l, "spelling")
        /\ Start(t, op, l, "spelling", w, "personal")
    /\ UNCHANGED <<plan, reg, seen, failures, results, store, user>>

\* thesaurus_entry, unless the thesaurus is switched off.
BeginLookup(t) ==
    /\ At(t, "idle") /\ "lookup" \in plan.calls[t]
    /\ \E l \in Locales, w \in Words : Start(t, "lookup", l, "thesaurus", w, "discover")
    /\ UNCHANGED <<plan, reg, seen, failures, results, store, user>>

\* refresh_dictionaries: discover(force) and then the synchronisation.
BeginRefresh(t) ==
    /\ At(t, "idle") /\ "refresh" \in plan.calls[t]
    /\ reg.revision < MaxRevision
    /\ Start(t, "refresh", Nothing, "spelling", Nothing, "discover")
    /\ UNCHANGED <<plan, reg, seen, failures, results, store, user>>

\* retry_component of a component that is off.
BeginRetry(t) ==
    /\ At(t, "idle") /\ "retry" \in plan.calls[t]
    /\ \E p \in Pairs :
        /\ failures[p] # Nothing
        /\ failures' = [failures EXCEPT ![p] = Nothing]
        /\ call' = [u \in Threads |->
                      IF u = t THEN [Idle EXCEPT !.pc = "keys", !.op = "retry", !.l = p[1], !.c = p[2]]
                      ELSE [call[u] EXCEPT !.wasOff = call[u].wasOff /\ Pair(u) # p]]
    /\ UNCHANGED <<plan, reg, seen, results, store, user>>

\* add_to_personal_dictionary and remove_..., once the dictionary has changed.
BeginMutate(t) ==
    /\ At(t, "idle") /\ "mutate" \in plan.calls[t]
    /\ \E l \in Locales : Start(t, "mutate", l, "spelling", Nothing, "clear personal")
    /\ UNCHANGED <<plan, reg, seen, failures, results, store, user>>

\* close clears the backends and the results.
BeginClose(t) ==
    /\ At(t, "idle") /\ "close" \in plan.calls[t]
    /\ Start(t, "close", Nothing, "spelling", Nothing, "clear spelling")
    /\ UNCHANGED <<plan, reg, seen, failures, results, store, user>>

\* set_language to another language clears the results.
BeginLanguage(t) ==
    /\ At(t, "idle") /\ "language" \in plan.calls[t]
    /\ Start(t, "language", Nothing, "spelling", Nothing, "clear results")
    /\ UNCHANGED <<plan, reg, seen, failures, results, store, user>>

---------------------------------------------------------------------------
(* What is asked before the official dictionaries.                         *)

\* _sync_personal_revision: another revision of the personal dictionary, which any
\* process may change at any time, clears the locale's results.  Then a personal
\* word is accepted, and any word while checking is switched off; a dictionary that
\* cannot be read counts as empty.
AskPersonal(t) ==
    /\ At(t, "personal")
    /\ GoTo(t, "clear personal") \/ GoTo(t, "discover") \/ End(t)
    /\ UNCHANGED <<plan, reg, seen, failures, results, store, user>>

\* clear_result_caches(locale): here, after a mutation (_invalidate_personal_locale),
\* and at the end of disabling or retrying.
ClearLocale(t) ==
    /\ At(t, "clear personal") \/ At(t, "clear failed")
    /\ results' = WithoutLocale(call[t].l)
    /\ \/ End(t)
       \/ At(t, "clear personal") /\ call[t].op # "mutate" /\ GoTo(t, "discover")
    /\ UNCHANGED <<plan, reg, seen, failures, store, user>>

---------------------------------------------------------------------------
(* dictionary_info: registry.get, then _sync_registry_revision.            *)

\* discover: the cached snapshot, or what the providers of this moment find, queried
\* outside the lock.  Files come and go at any time.
Discover(t) ==
    /\ At(t, "discover")
    /\ IF reg.selected # Nothing /\ call[t].op # "refresh"
       THEN GoTo(t, "read")
       ELSE \E disk \in plan.disks :
              call' = [call EXCEPT ![t].pc = "store",
                         ![t].selected = Select(Query(reg.providers, disk))]
    /\ UNCHANGED <<plan, reg, seen, failures, results, store, user>>

StoreFound(t) ==
    /\ At(t, "store")
    /\ reg' = [reg EXCEPT !.selected = call[t].selected, !.revision = @ + 1]
    /\ call' = [call EXCEPT ![t].selected = Nothing,
                    ![t].pc = IF call[t].op = "refresh" THEN "sync" ELSE "read"]
    /\ UNCHANGED <<plan, seen, failures, results, store, user>>

ReadInfo(t) ==
    /\ At(t, "read")
    /\ call' = [call EXCEPT ![t].info = InfoOf(reg, call[t].l), ![t].current = TRUE,
                            ![t].pc = "sync"]
    /\ UNCHANGED <<plan, reg, seen, failures, results, store, user>>

ReadRevision(t) ==
    /\ At(t, "sync")
    /\ call' = [call EXCEPT ![t].rev = reg.revision, ![t].pc = "compare"]
    /\ UNCHANGED <<plan, reg, seen, failures, results, store, user>>

AfterSync(t) == IF call[t].op = "refresh" THEN End(t)
                ELSE call' = [call EXCEPT ![t].pc = "gate", ![t].rev = 0]

\* The new revision is noted before anything is cleared.
CompareRevision(t) ==
    /\ At(t, "compare")
    /\ seen' = call[t].rev
    /\ IF call[t].rev = seen THEN AfterSync(t)
       ELSE call' = [call EXCEPT ![t].pc = "clear spelling", ![t].rev = 0]
    /\ UNCHANGED <<plan, reg, failures, results, store, user>>

\* BackendCache.clear
ClearBackends(t, c) ==
    /\ At(t, IF c = "spelling" THEN "clear spelling" ELSE "clear thesaurus")
    /\ lock[c] = Free
    /\ backends' = [backends EXCEPT ![c] = <<>>]
    /\ Unloading(t, c, [i \in 1..Len(backends[c]) |-> backends[c][i].id],
         [call[t] EXCEPT !.c = c,
                         !.pc = IF c = "spelling" THEN "clear thesaurus" ELSE "clear results"])
    /\ UNCHANGED <<plan, reg, seen, failures, results, loaded, user>>

\* What a call knows of the dictionaries is older than this clearing.
Outdated(u) == [call[u] EXCEPT !.current = FALSE]

\* Mutant of ClearResults: the thesaurus results are kept.
ClearResults_NotThesaurus(t) ==
    /\ At(t, "clear results")
    /\ results' = [k \in Caches |-> IF k = "thesaurus" THEN results[k] ELSE <<>>]
    /\ call' = [u \in Threads |->
                  IF u # t THEN Outdated(u)
                  ELSE IF call[t].op \in {"close", "language"} THEN Idle
                  ELSE [Outdated(t) EXCEPT !.pc = "reopen",
                          !.c = IF call[t].op = "lookup" THEN "thesaurus" ELSE "spelling"]]
    /\ UNCHANGED <<plan, reg, seen, failures, store, user>>

\* clear_result_caches for every locale.  The three caches have a lock each and are
\* cleared one after the other (service.py:541); here that is one step.
ClearResults(t) ==
    /\ At(t, "clear results")
    /\ results' = [k \in Caches |-> <<>>]
    /\ call' = [u \in Threads |->
                  IF u # t THEN Outdated(u)
                  ELSE IF call[t].op \in {"close", "language"} THEN Idle
                  ELSE [Outdated(t) EXCEPT !.pc = "reopen",
                          !.c = IF call[t].op = "lookup" THEN "thesaurus" ELSE "spelling"]]
    /\ UNCHANGED <<plan, reg, seen, failures, store, user>>

\* Every component may be tried again.
Reopen(t) ==
    /\ At(t, "reopen")
    /\ failures' = [p \in Pairs |-> Nothing]
    /\ call' = [u \in Threads |->
                  IF u # t THEN [Outdated(u) EXCEPT !.wasOff = FALSE]
                  ELSE IF call[t].op = "refresh" THEN Idle
                  ELSE [call[t] EXCEPT !.pc = "gate", !.wasOff = FALSE]]
    /\ UNCHANGED <<plan, reg, seen, results, store, user>>

---------------------------------------------------------------------------
(* The official answer.                                                    *)

\* Mutant of Gate: a locale without a dictionary goes on.
Gate_NoDictionary(t) ==
    /\ At(t, "gate")
    /\ IF call[t].cache # "suggestions" /\ Disabled(call[t].l, call[t].c)
       THEN End(t) ELSE GoTo(t, "cached")
    /\ UNCHANGED <<plan, reg, seen, failures, results, store, user>>

\* No dictionary: accept.  Off: accept, except that the second half of suggestions
\* leaves this test to the next.
Gate(t) ==
    /\ At(t, "gate")
    /\ IF \/ PathOf(t) = Nothing
          \/ call[t].cache # "suggestions" /\ Disabled(call[t].l, call[t].c)
       THEN End(t) ELSE GoTo(t, "cached")
    /\ UNCHANGED <<plan, reg, seen, failures, results, store, user>>

\* What a caller gets; suggestions of a word that was rejected go on to their own
\* result cache with the dictionary's information of that moment.
Answer(t) ==
    \/ End(t)
    \/ /\ call[t].op = "suggest" /\ call[t].cache = "spelling"
       /\ call' = [call EXCEPT ![t].cache = "suggestions", ![t].pc = "discover",
                               ![t].info = NoInfo, ![t].current = FALSE]

TryGet(t) ==
    LET k == call[t].cache
        found == Entries(results[k], call[t].l, call[t].w) IN
    /\ At(t, "cached")
    /\ IF found = {}
       THEN GoTo(t, "recheck") /\ UNCHANGED results
       ELSE /\ \E x \in found : results' = [results EXCEPT ![k] = Put(@, x, ResultCacheSize)]
            /\ Answer(t)
    /\ UNCHANGED <<plan, reg, seen, failures, store, user>>

\* _get_spell_backend and _get_thesaurus_backend, first half.
Recheck(t) ==
    /\ At(t, "recheck")
    /\ IF Disabled(call[t].l, call[t].c) THEN End(t) ELSE GoTo(t, "obtain")
    /\ UNCHANGED <<plan, reg, seen, failures, results, store, user>>

\* create: what the resolver gives for a dictionary.
Created(s) == Resolve(s, Unspecified, TRUE).backend

\* BackendCache.get_or_create with the resolver as the factory, under the lock of
\* the cache; engines beyond the size are unloaded before it is released.
Obtain(t) ==
    LET c == call[t].c
        key == <<call[t].l, PathOf(t)>>
        same == {x \in Range(backends[c]) : <<x.l, x.path>> = key}
        rest == Without(backends[c], same) IN
    /\ At(t, "obtain")
    /\ lock[c] = Free
    /\ \/ \E id \in Engines :
            LET with == Append(rest, [l |-> call[t].l, path |-> PathOf(t), id |-> id])
                surplus == TooMany(with, BackendCacheSize) IN
            /\ IF same # {} THEN \E x \in same : x.id = id
               ELSE id \notin Held /\ \E s \in Standings : Created(s) # Unspecified
            /\ backends' = [backends EXCEPT ![c] = SubSeq(with, 1 + surplus, Len(with))]
            /\ loaded' = IF same = {} THEN loaded \ {id} ELSE loaded
            /\ Unloading(t, c, [i \in 1..surplus |-> with[i].id],
                         [call[t] EXCEPT !.engine = id, !.pc = "use"])
       \/ /\ same = {}
          /\ \E s \in Standings : Created(s) = Unspecified
          /\ GoTo(t, "fail")
          /\ UNCHANGED store
    /\ UNCHANGED <<plan, reg, seen, failures, results, user>>

\* Mutant of Unload: the lock of the engine is not taken.
Unload_NoWait(t) ==
    LET e == Head(call[t].todo)
        rest == Tail(call[t].todo) IN
    /\ At(t, "unload")
    /\ loaded' = loaded \ {e}
    /\ lock' = [lock EXCEPT ![call[t].c] = IF rest = <<>> THEN Free ELSE t]
    /\ call' = [call EXCEPT ![t].todo = rest, ![t].after = IF rest = <<>> THEN "idle" ELSE @,
                            ![t].pc = IF rest = <<>> THEN call[t].after ELSE "unload"]
    /\ UNCHANGED <<plan, reg, seen, failures, results, backends, user>>

\* unload waits for a lookup that is using the engine.
Unload(t) ==
    LET e == Head(call[t].todo)
        rest == Tail(call[t].todo) IN
    /\ At(t, "unload")
    /\ user[e] = Free
    /\ loaded' = loaded \ {e}
    /\ lock' = [lock EXCEPT ![call[t].c] = IF rest = <<>> THEN Free ELSE t]
    /\ call' = [call EXCEPT ![t].todo = rest, ![t].after = IF rest = <<>> THEN "idle" ELSE @,
                            ![t].pc = IF rest = <<>> THEN call[t].after ELSE "unload"]
    /\ UNCHANGED <<plan, reg, seen, failures, results, backends, user>>

\* The engine's own lock is taken; the dictionary is loaded unless it is, which
\* fails when its files are missing or malformed.
Use(t) ==
    LET e == call[t].engine IN
    /\ At(t, "use")
    /\ user[e] = Free
    /\ \/ /\ loaded' = loaded \cup {e}
          /\ user' = [user EXCEPT ![e] = t]
          /\ GoTo(t, "using")
       \/ /\ e \notin loaded
          /\ GoTo(t, "fail")
          /\ UNCHANGED <<loaded, user>>
    /\ UNCHANGED <<plan, reg, seen, failures, results, backends, lock>>

\* Mutant of Finish: an exception leaves the lock of the engine taken.
Finish_KeepsLock(t) ==
    /\ At(t, "using")
    /\ \E pc \in {"put", "fail"} :
        /\ user' = IF pc = "put" THEN [user EXCEPT ![call[t].engine] = Free] ELSE user
        /\ call' = [call EXCEPT ![t].pc = pc, ![t].engine = Nothing]
    /\ UNCHANGED <<plan, reg, seen, failures, results, store>>

\* check_word, suggest or lookup of the engine returns or raises.
Finish(t) ==
    /\ At(t, "using")
    /\ user' = [user EXCEPT ![call[t].engine] = Free]
    /\ \E pc \in {"put", "fail"} :
           call' = [call EXCEPT ![t].pc = pc, ![t].engine = Nothing]
    /\ UNCHANGED <<plan, reg, seen, failures, results, store>>

StoreResult(t) ==
    LET entry == [l |-> call[t].l, w |-> call[t].w, path |-> PathOf(t),
                  current |-> call[t].current] IN
    /\ At(t, "put")
    /\ results' = [results EXCEPT ![call[t].cache] = Put(@, entry, ResultCacheSize)]
    /\ Answer(t)
    /\ UNCHANGED <<plan, reg, seen, failures, store, user>>

---------------------------------------------------------------------------
(* _disable_component, whose tail retry_component shares.                  *)

Disable(t) ==
    /\ At(t, "fail")
    /\ failures' = IF Disabled(call[t].l, call[t].c) THEN failures
                   ELSE [failures EXCEPT ![Pair(t)] =
                           [path |-> PathOf(t), current |-> call[t].current]]
    /\ call' = [call EXCEPT ![t].pc = "keys", ![t].engine = Nothing]
    /\ UNCHANGED <<plan, reg, seen, results, store, user>>

ListKeys(t) ==
    /\ At(t, "keys")
    /\ lock[call[t].c] = Free
    /\ call' = [call EXCEPT ![t].pc = "drop",
          ![t].keys = {x.path : x \in {y \in Range(backends[call[t].c]) : y.l = call[t].l}}]
    /\ UNCHANGED <<plan, reg, seen, failures, results, store, user>>

\* BackendCache.remove of one key after the other, then the locale's results.
Drop(t) ==
    LET c == call[t].c IN
    /\ At(t, "drop")
    /\ \/ /\ call[t].keys = {}
          /\ GoTo(t, "clear failed")
          /\ UNCHANGED store
       \/ \E p \in call[t].keys :
            LET same == {x \in Range(backends[c]) : x.l = call[t].l /\ x.path = p}
                gone == Without(backends[c], Range(backends[c]) \ same) IN
            /\ lock[c] = Free
            /\ backends' = [backends EXCEPT ![c] = Without(@, same)]
            /\ Unloading(t, c, [i \in 1..Len(gone) |-> gone[i].id],
                         [call[t] EXCEPT !.keys = @ \ {p}])
            /\ UNCHANGED loaded
    /\ UNCHANGED <<plan, reg, seen, failures, results, user>>

---------------------------------------------------------------------------
(* The host.                                                               *)

\* The host changes the providers of the registry or refreshes it itself.
ChangeRegistry ==
    /\ reg.revision < MaxRevision
    /\ \/ \E s \in Removable : reg' = IF s \in Range(reg.providers)
                                     THEN RemoveProviders(reg, s) ELSE AddProvider(reg, s)
       \/ \E disk \in plan.disks : reg' = StoreDiscovery(reg, Query(reg.providers, disk))
    /\ UNCHANGED <<plan, seen, failures, results, store, user, call>>

Begin(t) ==
    \/ BeginCheck(t) \/ BeginLookup(t) \/ BeginRefresh(t) \/ BeginRetry(t)
    \/ BeginMutate(t) \/ BeginClose(t) \/ BeginLanguage(t)

Step(t) ==
    \/ AskPersonal(t) \/ ClearLocale(t)
    \/ Discover(t) \/ StoreFound(t) \/ ReadInfo(t) \/ ReadRevision(t)
    \/ CompareRevision(t) \/ (\E c \in Components : ClearBackends(t, c))
    \/ ClearResults(t) \/ Reopen(t) \/ Gate(t) \/ TryGet(t) \/ Recheck(t)
    \/ Obtain(t) \/ Unload(t) \/ Use(t) \/ Finish(t) \/ StoreResult(t)
    \/ Disable(t) \/ ListKeys(t) \/ Drop(t)

Next == ChangeRegistry \/ \E t \in Threads : Begin(t) \/ Step(t)

Spec == Init /\ [][Next]_vars

---------------------------------------------------------------------------
(* Properties.                                                             *)

Points == {"idle", "personal", "clear personal", "discover", "store", "read", "sync",
           "compare", "clear spelling", "clear thesaurus", "clear results", "reopen",
           "gate", "cached", "recheck", "obtain", "unload", "use", "using", "put",
           "fail", "keys", "drop", "clear failed"}
Infos == [Components -> Paths \cup {Nothing}]
Entry == [l : Locales, w : Words, path : Paths, current : BOOLEAN]
Cached == [l : Locales, path : Paths, id : Engines]

TypeOK ==
    /\ plan \in Plans
    /\ reg.revision \in Nat /\ seen \in Nat
    /\ failures \in [Pairs -> [path : Paths, current : BOOLEAN] \cup {Nothing}]
    /\ results \in [Caches -> Seq(Entry)]
    /\ backends \in [Components -> Seq(Cached)]
    /\ lock \in [Components -> Threads \cup {Free}]
    /\ loaded \subseteq Engines
    /\ user \in [Engines -> Threads \cup {Free}]
    /\ \A t \in Threads :
        /\ call[t].pc \in Points /\ call[t].op \in AllCalls \cup {"none"}
        /\ call[t].c \in Components /\ call[t].cache \in Caches
        /\ call[t].info \in Infos /\ call[t].engine \in Engines \cup {Nothing}
        /\ call[t].keys \subseteq Paths /\ call[t].todo \in Seq(Engines)

\* An engine whose lookup is running is loaded, and by one thread at a time: an
\* eviction, a refresh or close by another thread waits for the lookup before it
\* unloads the engine (BackendCache and the lock of the engines).
NoUnloadUnderLookup ==
    /\ \A t \in Threads : At(t, "using") => /\ call[t].engine \in loaded
                                           /\ user[call[t].engine] = t
    /\ \A c \in Components : lock[c] # Free => At(lock[c], "unload")

\* The circuit breaker: a call that began after a component was switched off, and
\* before it was reopened, does not reach its engine (check_word, suggestions,
\* thesaurus_entry and _disable_component in several threads).
BreakerHolds ==
    \A t \in Threads : call[t].wasOff => ~At(t, "use") /\ ~At(t, "using") /\ ~At(t, "obtain")

Syncing(t) ==
    \/ call[t].pc \in {"clear spelling", "clear thesaurus", "clear results", "reopen"}
    \/ At(t, "unload") /\ call[t].after \in {"clear thesaurus", "clear results"}

\* The service has noticed the registry's last change and nobody is clearing.
Synced == seen = reg.revision /\ ~\E t \in Threads : Syncing(t)
FromSnapshot(l, c, path) == path = InfoOf(reg, l)[c]
ComponentOf(k) == IF k = "thesaurus" THEN "thesaurus" ELSE "spelling"

\* Once the registry's change is noticed and the caches are cleared, a cached result
\* and a recorded failure come from the dictionary the registry now names, unless the
\* call that stored them had read its dictionary before that clearing
\* (_sync_registry_revision, clear_result_caches, _disable_component).
KnowledgeIsCurrent ==
    Synced =>
        /\ \A k \in Caches : \A x \in Range(results[k]) :
               x.current => FromSnapshot(x.l, ComponentOf(k), x.path)
        /\ \A p \in Pairs : failures[p] # Nothing =>
               (failures[p].current => FromSnapshot(p[1], p[2], failures[p].path))

\* The same for every cached result while no call is in progress: what
\* result-caching.md promises of a changed revision.
NoStaleResults ==
    (Synced /\ \A t \in Threads : At(t, "idle")) =>
        \A k \in Caches : \A x \in Range(results[k]) :
            FromSnapshot(x.l, ComponentOf(k), x.path)

\* A call that needs a new engine gets an honest answer from the resolver, whatever is
\* registered by then (_get_spell_backend and BackendResolver.resolve).
ResolverHonest == \A t \in Threads : At(t, "obtain") => HonestResolutions

\* Whenever the registry holds a selection, it was made by priority: so is the selection
\* from every sequence of candidates (_prefer and _component of registry.py).
PrioritiesDecide == SelectionFollowsPriority(MaxCandidates)
SelectionIsByPriority == reg.selected # Nothing => PrioritiesDecide

\* Whose lock t waits for: that of a cache (BackendCache.get_or_create, keys, remove and
\* clear), or of an engine (unload, and check_word, suggest or lookup).
NeedsCache(t, c) ==
    \/ At(t, IF c = "spelling" THEN "clear spelling" ELSE "clear thesaurus")
    \/ /\ call[t].c = c
       /\ \/ At(t, "obtain") \/ At(t, "keys")
          \/ At(t, "drop") /\ call[t].keys # {}
NeedsEngine(t, e) ==
    (At(t, "use") /\ e = call[t].engine) \/ (At(t, "unload") /\ e = Head(call[t].todo))
WaitsFor(t, u) ==
    \/ \E c \in Components : lock[c] = u /\ NeedsCache(t, c)
    \/ \E e \in Engines : user[e] = u /\ NeedsEngine(t, e)

\* Nobody waits for a lock that is never released: what a thread waits for is held by
\* another, who uses an engine and waits for nobody, or unloads engines and waits at
\* most for one who uses them.  No lock is left behind by a lookup that raised, and no
\* two locks are taken in opposite orders (cache.py and the locks of the engines).
WaitsEnd ==
    \A t, u \in Threads : WaitsFor(t, u) =>
        /\ u # t
        /\ At(u, "using") \/ At(u, "unload")
        /\ \A v \in Threads : WaitsFor(u, v) => At(v, "using")

\* Some call can always go on: threads that hold the lock of a cache wait for an
\* engine, and a thread that uses an engine waits for nothing.
SomeCallProceeds ==
    \/ \A t \in Threads : At(t, "idle")
    \/ \E t \in Threads : ~At(t, "idle") /\ ENABLED Step(t)
=============================================================================
