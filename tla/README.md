# TLA+ models of pyqt6-linguistic-tools

Specifications of the parts of `pyqt6-linguistic-tools` whose correctness
depends on order or on many cases: the spelling pipeline behind an editor, what
a user does with its words, the service that several threads call, the personal
dictionaries that several processes share, their backups, and the directory of
imported dictionaries. TLC checks them on small instances; TLAPS proves their safety
properties for every value of the constants. Paths below are relative to `src/src/pyqt6_linguistic_tools/`.

| Code | Modules | Runs |
|---|---|---|
| `qt/async_spellcheck.py`, `qt/spell_highlighter.py` | `AsyncSpellCheck` (proofs: `AsyncSpellCheckProofs`) | `AsyncOverlap`, `AsyncLiveness` |
| `personal.py` | `PersonalDictionary` implementing `AtomicWords` (proofs: `PersonalDictionaryProofs`) | `PersonalShared`, `PersonalTakeover`, `PersonalReadRace` |
| `personal_backup.py` | `BackupRestore` implementing `AtomicStore` (proofs: `BackupRestoreProofs`) | `Backup` |
| `service.py`, `cache.py`, `registry.py`, `resolver.py`, `backends/` | `LinguisticService`, which extends `DictionaryRegistry` and `BackendResolver` (proofs: `LinguisticServiceProofs`) | `Service`, `ServiceStale` |
| `qt/decorator.py`, `qt/context_menu.py`, `qt/thesaurus_dialog.py`, `ignored.py`, `tokenizer.py` | `EditorActions`, which extends `UnicodeTokenizer` (proofs: `EditorActionsProofs`, `UnicodeTokenizerProofs`) | `Editor`, `EditorIgnored` |
| `qt/dictionary_manager.py`, `providers.py`, `validation.py` | `DictionaryManager`, which extends `DictionaryValidation` (proofs: `DictionaryManagerProofs`) | `Manager`, `ManagerStaging` |

Each `MC...` module gives the constants of a module their values for TLC. `Induction`
holds what several proofs use: induction over numbers and finite sets, that recursive
functions exist, and what the lists and folds of the community modules return.

## Inventory of the system

| Component | State | Operations and partners | What makes it correct |
|---|---|---|---|
| **Spelling pipeline** `qt/async_spellcheck.py`, `qt/spell_highlighter.py` | controller: document, pending, inflight, timer, generation, cancelled Event, busy; highlighter: language, enabled, status cache, formats; one worker per batch | `unknown_words_found` → `request_words` → debounce → `flush` → worker on `QThreadPool` → `completed` queued to the GUI thread → `apply_statuses` → rehighlight | no obsolete result reaches cache or screen; no word lost; comes to rest |
| **Decorator** `qt/decorator.py` | editor, enabled, settings, language, token filters | creates and drives the pipeline; `attach`, `detach`, `set_language`, `invalidate_spelling`, replacement at a cursor | editor and pipeline agree; replaces the word it was asked to |
| **Caches** `cache.py` | LRU order; engines | `ResultCache` per highlighter and per service result, `BackendCache` of engines | bounded, least recently used goes first, engines unloaded once |
| **Service** `service.py` | language, registry and personal revisions, result caches, component failures, diagnostics | called by the GUI and by workers at once; owns registry, backends, dictionaries | no answer older than the last revision; a failed component stays off until retried |
| **Registry** `registry.py`, `catalog.py` | providers, cached discovery, revision | `discover` computes outside its lock | the cache reflects the present providers |
| **Personal dictionary** `personal.py` | JSON file, two lock files; per instance words, signature, loaded | mutations under both locks; reads without | mutations atomic and not lost, locks recovered, memory tells what is stored |
| **Backup** `personal_backup.py` | staged and published files | `export`, `restore` of several locales under the store lock | all or nothing, or reported |
| **Ignored words** `ignored.py` | session, document and occurrence scopes per locale | read by `highlightBlock` and `check_word` | scopes independent |
| **Context menu, thesaurus dialog** `qt/context_menu.py`, `qt/thesaurus_dialog.py` | a token captured when the menu opened; navigation history | replace, ignore, learn; search, back, forward | never replaces another word; index within history |
| **Dictionary manager, providers** `qt/dictionary_manager.py`, `providers.py`, `storage.py` | busy flag, workers, bundles on disk | import in a worker, removal and refresh on the GUI thread | bundles appear whole |
| **Resolver, engines** `resolver.py`, `backends/` | loaded engines | fallback order | first usable engine, diagnosed |
| **Tokenizer, locales** `tokenizer.py`, `locales.py` | none | pure functions | offsets, fallback chain |
| **Validation** `validation.py` | none | ordered checks with early returns, a status | a bundle is published only if an engine can use it |
| **Settings, reports, data types** | none between calls | sequential | not modelled (see the end) |

Hard behaviours: GUI handlers and pool threads interleave; results queue up and
arrive after the state they were computed from has changed; several processes
share files without a server; processes die with lock files in place; steps of a
save fail one by one. `PROJECT.json` lists each hazard with its line and the
properties that watch it.

## Plan

Done: the pipeline; the personal dictionary; the service with registry, resolver and
caches; backup and restore; the editor's actions with ignored words, replacement,
thesaurus dialog and tokenizer; the dictionary manager with validation; and the proofs
of their safety properties, with the exceptions named at the end of "Proofs".

Left, in order:

1. Strict mode of the service, where a recoverable error leaves the call, and its
   diagnostics.
2. The synchronous highlighter (`check_on_cache_miss=True`) and saving the language
   in the settings.

## `AsyncSpellCheck`: the spelling pipeline of one editor

State and code:

| Variable | Code |
|---|---|
| `text` | the words the tokenizer finds in each block of the document |
| `ignored` | `IgnoredWords` of the present locale and `document_id` (Ignore All) |
| `personal` | personal and session-ignored words per locale, as `check_word` sees them |
| `hl` | `SpellCheckHighlighter`: `_language`, `_enabled`, `_statuses` (entries, and `older` for the order of the `OrderedDict`), and the formats set on each block |
| `ctl` | `AsyncSpellCheckController`: `_enabled`, `_document`, `_pending`, `_inflight`, whether `_timer` runs, `_busy`, `_cancelled`, the set Events, `_generation` |
| `jobs` | the `_SpellCheckBatch` objects that run or whose signal is queued |

`_generation` only grows and is only tested for equality with the value a batch
took from it. `ctl.current` is the set of live batches whose value is the present
one; `+= 1` empties it. This is exact, and makes the state space finite without
cutting the counter off.

Actions. A GUI handler is atomic and is modelled with everything it triggers
synchronously: an edit first repaints the block (through which
`unknown_words_found` reaches `request_words`) and then runs
`_on_document_change`; `apply_statuses` caches the batch, repaints the document
and may request words before `_on_completed` marks the batch finished. Workers
take one word per step, in sorted order; the Event is read before each word and
once more before emitting. Deliveries happen in any order (the pool's threads
post independently). The debounce timer may fire at any time once started.
Which language a batch uses is read in `flush`.

Environment: edits replace a block's words; token filters change the words of all
blocks at once; the language, the switches, detach and attach, personal and
ignored words change at any time. Ignored words are kept per language and
document, so a change of either brings an arbitrary other set. `Reachable` says
from where a word's standing is changed: the context menu acts on a word of the
visible text; with `OffScreenChanges` a host may also edit the list for any word.
`Strict` lets `check_word` raise; `HostCalls` lets the host call the public
`flush()` and `cancel()`.

Properties:

- `NoFalseUnderline`: an underlined word is visible, not ignored, and rejected by
  the service in the present language.
- `StatusesTrue`: every cached status agrees with the service.
- `CurrentBatchIsAwaited`, `BusyHasBatch`: the generation discipline — a batch that
  still counts as current is the one awaited, its Event is not set, its language and
  document are the present ones, `_inflight` is what it checks, nothing was requested
  since; a busy controller has such a batch.
- `PendingStaysScheduled`, `NoWordDropped`: no word waits without a timer or leaves
  the pipeline unanswered; the exceptions are named in the formulas (a public
  `cancel`, a failed batch, words no longer shown, another language, switched off).
- `CacheIsLru`: bounded, and totally ordered by use after any batch and repaint.
- `Settles`, `BusyEnds`: once the user pauses, exactly the misspelled words are
  underlined and the controller rests; busy always ends.

Fairness: weak fairness of the timer (the event loop delivers timeouts), of every
step of a worker (the pool runs its runnables and the engine returns) and of the
delivery of queued signals. The user and the host owe nothing. `Settles` is
conditioned on the user having stopped and on no batch that is alive having failed
(`NoneFailed`): the words of a failed batch wait for the next repaint that finds them.

Runs (`MCAsyncSpellCheck`):

| Run | Instance | Distinct states | Result |
|---|---|---|---|
| `AsyncOverlap` | 1 block, empty or of 2 words, 2 languages, personal words, cache of 2, 2 batches alive, host calls | 604 032 | holds |
| `AsyncLiveness` | 2 blocks of at most one word out of 3, ignored and personal words, cache of 2, 1 batch alive, strict | 87 106 | holds |

Why the bounds are enough: two live batches are the least in which one is obsolete
while another is awaited, and more only repeat that (at most one is current, by
`CurrentBatchIsAwaited`); two languages make results arrive for the wrong one. In
`AsyncLiveness` the document shows at most two of three words, so that a change of the
text evicts entries of a cache of two; two blocks let one be repainted and not the other,
without which every request that supersedes another asks for all its words again and
`NoWordDropped` could not fail. A batch cannot start while all `JobIds` are alive: the
bound delays the timer, and liveness is judged with that delay; with one, the next batch
starts when a superseded one has ended. The safety results do not rest on these bounds: they are proved.

## `PersonalDictionary` and `AtomicWords`

`AtomicWords` says what a shared dictionary promises: the stored words change only
by one requested mutation (add, remove, clear) applied whole to the latest stored
words, and a mutation reported as failed changed nothing. `PersonalDictionary`
models the code at the grain of system calls, and `MutationsAreAtomic` is the
abstract specification under the mapping

    stored = the words of the file, request = the mutation an instance has not
    decided, outcome = how its last mutation ended,

with `ReplaceFile` (`os.replace`) as the point where a mutation takes effect.

| Variable | Code |
|---|---|
| `disk` | `<locale>.json` |
| `lock` | `.personal-dictionaries.lock` and `.<locale>.lock`: creator, and whether older than `stale_lock_seconds` |
| `mem[i]` | `_words`, `_loaded`, and whether `_signature` is the file's present one |
| `call[i]` | the call instance `i` is in: program counter, kind, argument, lock at hand, words read and not yet stored, outcome |

One action per system call: exclusive create, `stat` of an existing lock, unlink of
an old one, time-out, `exists`/read, `stat` after reading, replace, `stat` after
replacing, the two releases; faults of loading, of `mkdir`/`mkstemp` and of
writing; a crash between any two. `_thread_lock` makes an instance run one call at
a time, so an instance stands for a process (or an object of its own in one).
Signatures are compared for equality with the file's present one only; every
replacement is taken to change it (two replacements within the clock's resolution
and of equal size would not).

Assumption, named in `LockAges`: a live owner finishes before `stale_lock_seconds`
(30 s by default), so that only the locks of dead owners grow old. The time-out
may strike at any wait. `Faults` and `CrashProne` choose what may fail.

Fairness: weak fairness of the steps of a call that has begun, and of the ageing of
a dead owner's lock. `CallsEnd` is conditioned on callers making no new calls: a
waiter polls, and newcomers may overtake it until its time-out.

| Run | Instance | Distinct states | Result |
|---|---|---|---|
| `PersonalShared` | 2 instances, one may crash, all calls, all faults | 178 201 | holds: `LocksTellHolders`, `MutationsAreAtomic`, `CallsEnd` |
| `PersonalTakeover` | 3 instances, one may crash | – | violates `MutationsAreAtomic` |
| `PersonalReadRace` | a writer and a reader | – | violates `SnapshotsFollowDisk` |

With two instances a dead owner leaves one waiter, which recovers its lock safely;
three instances are the least in which two waiters recover the same lock, and there
the takeover breaks. Two words suffice for a lost update: each of two writers adds
one.

## `LinguisticService`, `DictionaryRegistry`, `BackendResolver`

Several threads are inside one `LinguisticService` at once: the GUI thread, and the
workers of the pipeline. A step of the model is one region under a lock or one access to
another object; threads interleave between steps.

| Variable | Code |
|---|---|
| `reg` | `DictionaryRegistry`: providers in order, the selection of the cached discovery, the revision |
| `seen` | `_registry_revision` |
| `failures` | `_component_failures`, with the path that failed |
| `results` | the three `ResultCache`s, least recently used first; a result is known by the path that gave it |
| `backends`, `lock` | the two `BackendCache`s and their locks |
| `loaded`, `user` | the engines that have a dictionary in memory, and who holds each one's lock |
| `call[t]` | the call of a thread: where it is, for which locale and word, the dictionary it has read, the engine it has obtained |

`call[t].current`, the same mark on cached results and failures, and `wasOff` are
history: whether a call has read its dictionary after the last clearing, and whether its
component was off when it began.

`DictionaryRegistry` and `BackendResolver` have no variables: the registry is a record on
which its operations are operators, the resolver a function of what the backends answer.
What other providers, the file system and the engines answer is left open: every
discovery may find any of the sets of files of the plan, every engine may fail to be
built, to load or to answer.

Properties: `NoUnloadUnderLookup` (an engine in use is loaded and has one user; the lock
of a cache is held only while it unloads), `BreakerHolds` (a call that began after its
component was switched off does not reach an engine), `KnowledgeIsCurrent` (once a
change of the registry is noticed and the caches cleared, results and failures come from
the dictionary the registry names, unless the call that stored them had read its
dictionary before that clearing), `NoStaleResults` (the same without the exception, when
no call is under way: violated), `WaitsEnd` (what a thread waits for is held by one that
uses an engine, and waits for nobody, or unloads some, and waits at most for such a one),
`SomeCallProceeds` (some call can always take a step),
`SelectionIsByPriority` (every sequence of up to `MaxCandidates = 3` candidates: one more
than two of unequal or equal priority, so that the winner may come first, in the middle or
last) and `ResolverHonest`
(every registration of two backends).

| Run | Instance | Distinct states | Result |
|---|---|---|---|
| `Service` | 2 threads; one locale with a fallback to its language; caches of one entry; 3 engines; registry revisions up to 5 | 1 297 783 | holds |
| `ServiceStale` | the same | – | violates `NoStaleResults` |

`plan` chooses in `Init` which calls each thread makes: a host thread that refreshes,
changes personal words and closes, beside a worker asking for suggestions; one that
retries and changes the language, beside a worker; two lookups in the thesaurus, where the
system and the user have one each. Caches of one entry make every second key an eviction:
when the registry changes during a call, the other call may ask for the other thesaurus,
and has to evict the engine that the first is using, and waits for it. Three engines are one for each thread and one
in the cache. Revisions are only compared for equality; five allow the host to change
the registry more than once during a call. Engines are interchangeable, hence the symmetry.

## `BackupRestore` and `AtomicStore`

`AtomicStore` is what `docs/personal-backups.md` promises: each call happens at one moment
or not at all. A restore replaces the words of all its locales, computed from the words
of that moment; an export is the store at one moment; a mutation of one locale never
falls in between; only a process that dies while it publishes, or a rollback that itself
fails, tears a restore. `BackupRestore` models `export` and `restore` one file operation
at a time, beside `add_word` and `remove_word` of other processes, whose inner steps are
in `PersonalDictionary` and are three here. `CallsAreAtomic` is the abstract
specification under the mapping

    stored = the files, except that what an unfinished restore has replaced counts as it
             was; backup = what the backup file parses to; request, decision = the call
             that is not decided, and how the last one was.

| Variable | Code |
|---|---|
| `disk`, `file`, `temps` | the dictionary files, the backup, the staged files with their owners |
| `lock`, `dead` | `.personal-dictionaries.lock`; processes that died |
| `call[p]` | the call: staged, published and original contents, rollback failures, decision |

Any operation may fail, any process may die between two steps. The lock is taken over
when its owner is dead or failed to remove it; that this takeover is itself unsafe with
three processes is shown by `PersonalTakeover`, so that two processes are used here.

Fairness: weak fairness of the steps of a living process; `CallsEnd` needs nothing else,
since waiting for the lock ends at a deadline (`GiveUp`).

| Run | Instance | Distinct states | Result |
|---|---|---|---|
| `Backup` | 2 processes, 3 locales, 1 word, one death | 289 120 | holds |

Three locales let a rollback fail in the middle; the three plans are a restore beside
a mutation, two restores with a file that may be unreadable, and exports whose result
another process restores.

## `EditorActions` and `UnicodeTokenizer`

`AsyncSpellCheck` shows how underlines come about; `EditorActions` what a user does with
them. Here the text is a sequence of characters, tokenized by `UnicodeTokenizer`, which
translates `tokenizer.py` over an alphabet with a character of each kind the code tells
apart: letters, a letter of two UTF-16 units, a combining mark, a digit, the two
connectors (an address may hold a hyphen in its labels, not an apostrophe), the other
characters of an address, and space.

| Variable | Code |
|---|---|
| `content`, `document`, `attached`, `readOnly` | the editor; `document` is `id(document)` |
| `language`, `highlighting` | `_language` of the decorator and of the highlighter |
| `personal`, `ignored` | the personal words and the `IgnoredWords` of each language |
| `menu`, `dialog` | what an open menu and a thesaurus dialog keep: a cursor, whether its document is still the editor's, the word; of the dialog also the history, the query, the results shown and the two buttons |
| `asked` | history: what was asked to be ignored and not taken back, each request with the occurrence or the document it is about |

Characters are typed and erased while a menu or a dialog waits; Qt moves the cursors it
keeps (`Splice`, external). Attaching another editor may bring a document of the same
identity. `asked` follows an occurrence through edits (`Followed`): it moves with what is
typed before it and is over once an edit touches it, or once the document is gone.

`Refused` are the names of locales that `normalize_personal_locale` refuses
(`personal.py:29`). `set_language` stores such a language and then raises
(`decorator.py:348`), so that the highlighter keeps the old one; menus, questions and
orders about a word raise in it and change nothing. That a personal file cannot be read
does not stop `set_language`: `personal_dictionary` reads no file until it is asked for a
word.

Properties: `ReplacementIsExact` (a replacement changes one whole occurrence of the word
it was chosen for and nothing else, never in a read-only editor), `UnderlinedIsOffered`
(in every language whose name is not refused, with the cursor anywhere in an underlined
word the menu is about this word and offers the spelling actions), `HistoryIsBrowsable`
(index, query and history agree, and so do the buttons, unless the last query was refused),
`TokensAreExact` (the editor's text, and every text of up to four or five characters of
two alphabets, is cut at exact UTF-16 ranges, from outside every address), and
`IgnoredOnlyAsAsked`, which is violated.

| Run | Instance | Distinct states | Result |
|---|---|---|---|
| `Editor` | a text of two words, one written with a combining mark; 2 languages and one whose name is refused; a menu or a dialog; one edit, one request to ignore, a history of 2 | 756 992 | holds |
| `EditorIgnored` | a text of at most one letter; 2 document identities; 3 edits | – | violates `IgnoredOnlyAsAsked` |

One edit before, in or behind the word decides whether a kept cursor still means it; the
replacement is wider than what it replaces and of two UTF-16 units, so that positions
move. A text has at most four characters: a space is typed once the replacement has made
room, and splits no word then. Two words and languages are the least for a wrong one to
be hit. A history of two is cut and extended from its first entry; one of the two things
looked for is a phrase, which the service refuses. Another document is one of the same
identity: what a kept cursor or a key of an ignored word does then is the hard case.

## `DictionaryManager` and `DictionaryValidation`

`DictionaryValidation` has no variables: a bundle is a function from the files it has to
what a reader makes of them, and discovery, validation and the test of an import are
operators on it. `ReportsAreSound` compares them, on all bundles, with what the documents
say a usable bundle is. `DictionaryManager` adds the directory of a
`UserDictionaryProvider`, shared by several `DictionaryManagerDialog`s of one program: each
import runs in a worker, file by file; handlers run one at a time in the GUI thread,
except that a confirmation runs the event loop inside `remove_selected`.

| Variable | Code |
|---|---|
| `root` | the directory: the files of each bundle and staging directory |
| `known` | what the registry selected at its last discovery, and whether that failed |
| `busy`, `task`, `rows`, `removal` | per dialog: `_busy`, the `_ImportTask`, the rows of `installed_tree`, the removal under way |
| `finished`, `adrift` | history: bundles announced by `import_finished`; staging directories nobody answers for |

Properties: `PublicationIsAtomic` (a bundle appears whole, found usable as it is on disk
even if its source changed while it was copied, and is never overwritten),
`StagingIsAnswered`, `FinishedIsKnown`, `ImportsEnd`, and `OnlyPublishedIsKnown`, which is
violated.

Fairness: weak fairness of workers and of a removal that is running; strong fairness of
`OnImportCompleted`, because other handlers may run between the moments at which the
event loop could deliver it, and Qt delivers queued events in order.

| Run | Instance | Distinct states | Result |
|---|---|---|---|
| `Manager` | 2 dialogs, one of which removes; 2 names; 2 imports; one failure or kill | 251 638 | holds |
| `ManagerStaging` | the same | – | violates `OnlyPublishedIsKnown` |

Two imports are the least that compete for one name; the four files a user may choose
are a good dictionary, one that becomes unusable while it is copied, half a
dictionary, and a thesaurus with a defect the engine recovers from.

## Disagreements between the code and its documents

Shown by runs:

- **Taking over a stale lock** (`PersonalTakeover`, `personal.py:67`): an update can be
  lost after a crash, against `docs/personal-dictionary.md:49`.
- **Reading then signing** (`PersonalReadRace`, `personal.py:257`): an instance can miss
  a new snapshot until the next one, against `docs/personal-dictionary.md:74`.
  `SnapshotsAreOfTheFile` proves that nothing else makes an instance miss one, given
  that locks exclude and failed saves are undone.
- **Answers of a dictionary that is gone** (`ServiceStale`, `service.py:324`): a lookup
  under way stores its answer after the caches were cleared, against
  `docs/result-caching.md:58`. `ChangesBetweenCallsLeaveNothingStale` proves that only
  a change during a call does this.
- **Staging inside the searched directory** (`ManagerStaging`, `providers.py:316`): a
  refresh during an import selects the staged files, `.import-` sorting before every
  bundle, against `docs/managed-dictionaries.md:67`; after a failed import no refresh
  follows. `TidyDiscoveriesKnowBundles` proves that discoveries made while nothing is
  staged or left behind never select staged files.

- **Ignore Once keeps a key that the text has left behind** (`EditorIgnored`,
  `spell_highlighter.py:221`): the key is the identity of the document and a position, and
  nothing clears or replaces it after an edit. A word is ignored once and erased; the same
  word typed there is not underlined. `docs/ignored-words.md:40-41` and
  `docs/unicode-tokenizer.md:43` ask the editor integration to discard such keys. Nor is
  `clear_document` called when a document goes (`docs/ignored-words.md:45`).

Met while modelling, without a run of their own:

- *Cache smaller than the text* (`spell_highlighter.py:201`): with more distinct words than
  entries, the repaint inside `apply_statuses` misses what the batch itself has evicted and
  requests it again, for ever (`docs/qt-architecture.md:258`). `AsyncLiveness` with
  `CacheSize = 1` violates `Settles`.
- *Invalidating a word in flight* (`spell_highlighter.py:172`): `invalidate_word` supersedes
  a batch only through the repaint of a block that holds the word; if none does, the old
  answer is cached (`docs/qt-architecture.md:275`). `AsyncOverlap` with
  `OffScreenChanges = TRUE` violates `StatusesTrue`. `UnansweredWordsMayChange` proves
  that a word the batch has not answered yet does no harm.
- *Temporary file not created* (`personal.py:275`): `mkdir` and `mkstemp` run outside the
  handler that reloads the file, so words that were not stored stay in memory
  (`docs/personal-dictionary.md:52`), and so they do if that reload fails. Hence the
  hypothesis `FailedSavesAreUndone` of `SnapshotsAreOfTheFile`.
- *A language whose name is refused* (`decorator.py:348`): the language is stored before
  `personal_dictionary` raises (`personal.py:29`), the highlighter keeps the old one, menus
  raise, and a second `set_language` returns at once as if nothing were wrong.
- *A search that is refused* (`thesaurus_dialog.py:132`): `thesaurus_entry` raises for a
  phrase (`service.py:383`) after history, place and query have moved on; the results and
  the Back and Forward buttons of the former query stay. `HistoryIsBrowsable` judges the
  buttons only where results are shown for the query.
- *Open menus* (`context_menu.py:321`): ignoring and learning use the language and the
  document of the moment an item is chosen. A menu also offers the spelling actions for a
  word ignored in the document, since it asks `check_word` without the document.
- *A word that runs into an address* (`tokenizer.py:151`): `docs/unicode-tokenizer.md:48`
  says that addresses "are excluded as complete regions", but the loop that continues a word
  does not look for them: `l'www.example.com` yields the token `l'www`. `OutsideAddresses`
  states the document's rule, which 42 of the texts of `AllWellCut` break. `WellCut`
  states what the code does: a token begins outside every address, and runs into one only
  where the address begins right behind a connector or a mark.
- *An export reported as failed although it is there* (`personal_backup.py:421`): without
  `overwrite`, the staged file is unlinked after `os.link`, and when that fails the call
  does. A raw `OSError` of a clean-up (lines 257, 271) replaces the error it follows.
- *Staging left by a kill* is listed in the manager and cannot be removed there: its name is
  not a safe bundle name. A removal of several bundles that fails midway is not followed
  by a refresh (`dictionary_manager.py:238`).
- *A discovery that overlaps `remove_providers`* stores the removed provider's files again
  (`registry.py:119`), until the next change.

## Proofs

`AsyncSpellCheckProofs`, from the assumptions stated in `AsyncSpellCheck`:

- `TypeCorrect`: `TypeOK` is inductive. One lemma per operator of the highlighter and
  the controller gives its type; one step per action puts them together.
- `GenerationDiscipline`, `BusyControllersAwait`: `CurrentBatchIsAwaited` and
  `BusyHasBatch`. They are not inductive without types; `Discipline == TypeOK /\
  Awaited(...)` is. The proof rests on one observation: every operation that advances the
  generation leaves the controller *at rest* (`AtRest`: no current batch, not busy,
  nothing in flight), and a controller at rest satisfies the discipline for any language
  and any batches. Only `flush` makes a batch current, and only the delivery of the
  current one ends it without advancing.
- `PendingWordsAreScheduled`, `TrackedWordsAreKept`: the action properties
  `PendingStaysScheduled` and `NoWordDropped`. `Heeds(c, d)` says that a handler which
  took the controller from c to d dropped no word and switched nothing; it is
  transitive, so that handlers made of several calls need one line. The invariant
  `Heedful` adds that only a controller with a document, switched on, has words
  (`Listening`): a timer that flushes a controller switched off would drop them.
- `UnansweredWordsMayChange`: `StatusesTrue` and `NoFalseUnderline`, as long as no word
  changes its standing that no block shows and that a current batch has answered
  (`AnswersChangeOnScreen`). `StatusesStayTrue` and `HonestUnderlines` follow for
  `~OffScreenChanges`, where every change is of a visible word. The invariant `Honest` adds to the discipline that the answers a
  *current* batch has collected are still true (`TrueResults`: any change of a visible
  word's standing repaints a block that holds it, the repaint finds it unknown, and
  `request_words` advances the generation), that every block's formats show the truth
  about the block's present words (`Painted`), that a disabled highlighter means an idle,
  disabled controller (`Switched`) and that without a document there is no text
  (`Attached`). The hypothesis cannot be dropped: with `OffScreenChanges` TLC finds a
  counterexample.
- `CacheStaysLru`: `CacheIsLru` for caches of any size. The recorded order of uses is a
  strict total order of the entries (`Ordering`), a put of several words at once keeps
  it one, and what is left after evicting is as many entries as the size allows
  (`RecentAreFew`, by induction on finite sets). This result alone needs
  `FinitenessAssumption`: a document has finitely many blocks and words, and there are
  finitely many languages.

`PersonalDictionaryProofs`, from the assumptions of `PersonalDictionary`:

- `PersonalTypeCorrect`: `TypeOK` is inductive, one step per action.
- `LocksExclude` (`LocksTellHolders`) and `UpdatesAreAtomic` (`MutationsAreAtomic`), for
  any number of instances, if a waiter only ever removes a lock that is old
  (`TakeoversAreOfOldLocks`: not one created since it looked, which is the defect
  `PersonalTakeover` shows).
  `LocksTellHolders` alone is not inductive: that a call waits with a mutation, that it
  saves what the mutation makes of the file's words, that a reader under both locks has
  read the present words, is what `Consistent` adds. The invariant `Exclusive` joins it to
  the types, the locks, and that old locks are those of dead owners (`Abandoned`). Each
  action then has one lemma, which shows that it keeps `Exclusive` and is a step of
  `AtomicWords` or a stutter: `QuietStep` for the steps that decide nothing,
  `SubmittingStep` for the beginning of a mutation, `DecidingStep` for its effect, its
  failure or its loss in a crash. The crux is `ReplaceFile`, where `AloneInside` (nobody
  else is between the locks) keeps the others consistent with the new file.
- `PairsExclude` and `PairsUpdateAtomically`: the same for two instances without that
  hypothesis, which is what `PersonalShared` checks. An instance about to remove a lock
  found it old (`FindsOld`); its owner is dead and the only other one, so nobody can have
  replaced it.
- `SnapshotsAreOfTheFile` (`SnapshotsFollowDisk`): what `docs/personal-dictionary.md:74`
  says of signatures and snapshots, for any number of instances, crashes and faults,
  under exactly what the code leaves open: locks are only taken over when old, nobody replaces
  the file between another's read and its `stat` (`ReadsAreUndisturbed`, which
  `PersonalReadRace` breaks), and the file can be loaded again after a failed save
  (`FailedSavesAreUndone`). The invariant adds to `Exclusive` what each instance has
  read and remembers at each place of a call (`Following`). `PairsRememberTheFile` needs
  no hypothesis on takeovers.

`BackupRestoreProofs`, from `BackupAssumption`, for any processes, locales, words and
plans, with every fault and any deaths:

- `BackupTypes` (`TypeOK`), `StagedFilesAreAnswered` (`TempsAreAnswered`) and
  `RestoresAreAtomic` (`CallsAreAtomic`: `BackupRestore` implements `AtomicStore`). The
  invariant `Good` says of each program counter what a living process has read, staged
  and published (`Consistent`): while it publishes, the files still to come hold what it
  read and those published what it computed; while it rolls back, each published file
  is back, still to come, or counted as failed. A process between taking and giving back
  the lock is its owner, so that a step of one leaves the others consistent (they read
  no file). The value of the abstract store is then the files with what the one
  publishing restore has replaced counted as it was (`ViewIs`), which the publication
  of a file does not change, and its decision changes to the computed words at once.

`DictionaryManagerProofs`, from `ManagerAssumption`, for any dialogs, names, imports and
faults:

- `ManagerTypes` (`TypeOK`), `StagingHasItsWorker` (`StagingIsAnswered`),
  `AnnouncedIsKnown` (`FinishedIsKnown`) and `ImportsAreAtomic` (`PublicationIsAtomic`).
  The invariant `Good` adds that a worker which stages has its directory, has found it
  acceptable before it publishes it, and that what was announced and not removed has
  files. The last part was not inductive at first: a bundle may be removed between its
  publication and the delivery of `completed`, whose handler then announces a bundle
  that is not there; such a name does not count as finished.
- `NothingIsMisreported`, and with it `ReportsStaySound` (`ReportsAreSound`): no bundle of
  `AllBundles` is accepted or refused, passed or warned about, against the documents. The
  checks of a component are a sequence cut at its first failure; one lemma per component
  says which of its files decide, so that the proof explains what the enumeration only
  observes.
- `TidyDiscoveriesKnowBundles` (`OnlyPublishedIsKnown`), if what is known changes only
  while no worker stages and nothing is left behind (`TidyDiscoveries`).

`UnicodeTokenizerProofs`, and `EditorActionsProofs` from `SetsAssumption`:

- `TextsAreWellCut`: every text of any length over any characters is cut well
  (`Mistokenized`): each token is a run at an exact UTF-16 range that begins with a letter
  or digit outside the addresses, runs into one only behind a connector or a mark, and
  ends where it cannot go on, tokens come in order
  without touching, and no letter is left out unless an address or a digit is about. The recursive
  functions of the tokenizer are taken as the functions that exist by induction over
  the positions from the end (`Induction`), and are then unfolded once per position.
  `EditorTokensAreExact` (`TokensAreExact`) says so of every state of the editor.
- `ReplacementsAreExact` (`ReplacementIsExact`): a cursor kept by a menu or a dialog lies
  between two characters of the text and still does after any splice
  (`MovedCursorFits`); where it touches the word it was kept for, the replacement is of
  one whole token.
- `UnderlinesAreOffered` (`UnderlinedIsOffered`), `HistoriesAreBrowsable`
  (`HistoryIsBrowsable`) and `EditorTypes` (`TypeOK`): the invariant `Good` keeps with each
  open menu the token it is about, with the dialog an index within a history in which no
  two neighbours are equal and results that never are a phrase's, and ties the language of
  the highlighter to the decorator's unless the name of the decorator's is refused.

`LinguisticServiceProofs`, from `ServiceAssumption`, `RegistryAssumption` and
`ResolverAssumption`, for any threads, plans of calls, engines, locales, providers and sizes
of the caches:

- `EnginesStayLoaded` and `BreakerIsKept`: `NoUnloadUnderLookup` and `BreakerHolds` always
  hold, by the invariant `Careful`. It adds to them where they come from. Who holds the
  lock of a cache is unloading engines of that cache (`LocksUnload`). A thread keeps the
  engine it was given until it has used it, and `Held` keeps a new engine apart from
  those (`UsesOwn`). And a call that began with its component off either is still seeking
  an answer, with the component off, so that `Recheck` ends it, or is clearing the caches
  on its way to `Reopen`, which ends the breaker for everybody (`StaysOff`). Steps of one
  thread outside the locks share the lemma `LocalStep`, those that unload engines
  `UnloadingStep`; the others (`Use`, `Finish`, `Disable`, `BeginRetry`, `ClearResults`,
  `Reopen`) have a lemma each.
- `WaitsAlwaysEnd` (`WaitsEnd`) and `SomebodyDoesNotWait`: a thread that holds the lock of
  an engine is using it, or unloading it in the same step, and whoever uses one holds no
  lock of a cache; so chains of waits have at most two links and end. This is what can be
  proved of `SomeCallProceeds`, whose `ENABLED` is out of reach.
- `ServiceTypes` (`TypeOK`) and `KnowledgeStaysCurrent` (`KnowledgeIsCurrent`), by the
  invariant `Informed == Typed /\ Knows`, which TLC confirms in all states of `Service`.
  `KnowledgeIsCurrent` speaks of the states in which nobody has a change of the registry
  still to answer; of the others it says nothing, so it is not inductive. `Typed` adds which
  calls come to which place and what they have read by then (`Asks`: who stores a result has
  the dictionary it came from). `Knows` adds that a call marked `current` holds what the
  registry names now, as long as the service has not fallen behind (`Unsettled`): either a
  revision is unseen or a call that noticed one has yet to clear the results. A change
  unsettles the service; the call that compares revisions takes over from the unseen one,
  and its last clearing settles it by leaving no result and no `current` mark. Failures
  follow one step later, at `Reopen`.
- `ChangesBetweenCallsLeaveNothingStale` (`NoStaleResults`), if the registry changes only
  while no call holds a dictionary it has read (`ChangesBetweenCalls`). Then what a
  call knows is what the registry names (`CallsKnow`), and so are the results stored from it
  (`ResultsTrue`), unless a call has yet to notice a change and to clear them.
- `SelectionsFollowPriority`: `SelectionFollowsPriority` for sequences of any length over
  any providers, priorities and locales, by induction over the sequence: after k
  candidates the selection is the best of the first k (`Best`). `SelectionsAreByPriority`
  (`SelectionIsByPriority`) says so of the service.
- `ResolverIsHonest`: `HonestResolutions` by the three outcomes of `Resolve`, for any
  backends; `ServiceResolvesHonestly` says so of every state of the service.

Only model-checked:

- all liveness properties (`Settles`, `BusyEnds`, both `CallsEnd`, `ImportsEnd`) and
  `SomeCallProceeds`, since fairness and `ENABLED` are beyond the prover.

## Not modelled

- `check_on_cache_miss=True`, where `highlightBlock` itself asks the service: a
  highlighter used without a controller is sequential.
- Destroyed Qt objects (`sip.isdeleted`, the lifetime guard): a destroyed document is
  a detached one, which the same `_on_completed` test discards.
- Counters, signals to the host, validation of arguments, text layout, the order and
  the texts of menu items and of the manager's pages, the catalogue of downloads.
- In the personal dictionary: a `stat` that fails right after `os.replace`, errors of
  `unlink` on release, symbolic links, the power failing under the file system.
- In the service: strict mode, diagnostics and their limit (appended and trimmed in one
  region of the lock), `capabilities` and `available_languages`, the ignored words (in
  `EditorActions`). The three result caches have a lock each and are cleared one after
  the other (`service.py:541`), in one step of the model. The personal revision
  (`service.py:644`) is swapped before the results are cleared; that is two steps of the
  model and harmless, as personal words are asked for before the caches.
- Two editors on one service: a word learnt in one invalidates only that editor's
  highlighter, and no text of the repository promises more.
- In the backup: a staged file that cannot be unlinked after `os.link`, and which of two
  errors the caller sees.
- In the thesaurus dialog: a search for blanks, which returns at once; what is typed into
  the field is a member of `Looked`.
- In the tokenizer: excluded tokens and custom filters; the kinds of letters and marks
  beyond those above, and connectors beyond the apostrophe and the hyphen. `locales.py` normalises names and is a parameter here.
- In the manager: dictionaries of several locales (all compete for one, the hard case),
  changes that other programs make in the directory, and searches that overlap because
  another thread refreshes the service (`registry.py:82` works outside the lock; the
  manager's search is one step).
- In validation: the engine's warnings are collected from the whole process
  (`validation.py:417`), so two imports may lose or mix theirs; each has its own here. A
  displaced index is one that the eight sampled entries show.
- Settings, reports, performance tools and exports keep no state that steps of different
  actors touch. The engines wrap third-party libraries: what they answer is left open.
