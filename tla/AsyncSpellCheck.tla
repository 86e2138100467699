-------------------------- MODULE AsyncSpellCheck --------------------------
(***************************************************************************)
(* The asynchronous spelling pipeline behind one decorated editor:         *)
(*                                                                         *)
(*   - SpellCheckHighlighter (qt/spell_highlighter.py), with its LRU cache *)
(*     of word statuses (cache.py), paints the underlines;                 *)
(*   - AsyncSpellCheckController (qt/async_spellcheck.py) collects the     *)
(*     words without a status, waits for a pause in the typing and checks  *)
(*     them in one batch on a thread pool;                                 *)
(*   - _SpellCheckBatch workers run on that pool, each asking the service  *)
(*     one word at a time, and post their results to the GUI thread;       *)
(*   - LinguisticTextEditDecorator (qt/decorator.py) drives both from the  *)
(*     user's actions.                                                     *)
(*                                                                         *)
(* Every action of the GUI thread is one handler run to its end, the slots *)
(* it triggers included.  Workers interleave with it one word at a time.   *)
(*                                                                         *)
(* The counter self._generation only grows and is only compared for        *)
(* equality with the value a batch took from it, so it is represented by   *)
(* what the comparison tells: ctl.current is the set of batches that carry *)
(* its present value, and "+= 1" empties that set.                         *)
(***************************************************************************)
EXTENDS Integers, FiniteSets, Sequences, Functions

CONSTANTS
  Words,        \* normalized words; numbers, for sorted(self._pending)
  Languages,    \* locales
  Documents,    \* documents an editor may show
  NoDocument,   \* None
  Blocks,       \* text blocks (paragraphs) of a document, in order
  BlockTexts,   \* what a block may contain: sequences of words
  Engine,       \* Engine[l]: the words the official dictionary of l accepts
  Learnable,    \* bound: the words whose personal standing ever changes
  Ignorable,    \* bound: the words the user ever ignores
  CacheSize,    \* cache_size of the highlighter (2048 in the code)
  JobIds,       \* bound: batches alive at once (running or undelivered)
  NoJob,        \* None, for self._cancelled
  Strict,       \* strict mode of the service: check_word may raise
  HostCalls,    \* whether the host itself calls flush() and cancel()
  OffScreenChanges  \* whether words outside the visible text change too

ASSUME WordsAssumption == Words \subseteq Nat
ASSUME BlocksAssumption == Blocks \subseteq Nat
\* A document has finitely many blocks, and a word or a tag bounded length.
ASSUME FinitenessAssumption ==
  IsFiniteSet(Blocks) /\ IsFiniteSet(Words) /\ IsFiniteSet(Languages)
ASSUME BlockTextsAssumption ==
  <<>> \in BlockTexts /\ \A s \in BlockTexts : s \in Seq(Words)
ASSUME NoneAssumption == NoDocument \notin Documents /\ NoJob \notin JobIds
ASSUME EngineAssumption == Engine \in [Languages -> SUBSET Words]
ASSUME CandidatesAssumption == Learnable \subseteq Words /\ Ignorable \subseteq Words
ASSUME CacheSizeAssumption == CacheSize \in Nat \ {0}
ASSUME SwitchesAssumption == {Strict, HostCalls, OffScreenChanges} \subseteq BOOLEAN

VARIABLES
  text,      \* text[b]: the words the tokenizer finds in block b, in order
  ignored,   \* words ignored (Ignore All) in the language and document shown
  personal,  \* personal[l]: personal and session-ignored words of l
  hl,        \* the highlighter
  ctl,       \* the controller
  jobs       \* jobs[j]: batch j, once started and until it is delivered

vars == <<text, ignored, personal, hl, ctl, jobs>>

Key == Languages \X Words
Statuses == UNION {[K -> BOOLEAN] : K \in SUBSET Key}
Results == UNION {[W -> BOOLEAN] : W \in SUBSET Words}

Highlighter ==
  [language : Languages,
   enabled  : BOOLEAN,
   statuses : Statuses,               \* the entries of the LRU cache
   older    : SUBSET (Key \X Key),    \* <<k, m>>: k was used before m
   formats  : [Blocks -> SUBSET Words]]  \* the underlined words of each block

Controller ==
  [enabled   : BOOLEAN,
   document  : Documents \cup {NoDocument},
   pending   : SUBSET Words,
   inflight  : SUBSET Words,
   timer     : BOOLEAN,               \* the debounce timer is running
   busy      : BOOLEAN,
   cancelled : JobIds \cup {NoJob},   \* whose Event self._cancelled holds
   fired     : SUBSET JobIds,         \* batches whose Event is set
   current   : SUBSET JobIds]         \* batches with generation = self._generation

FreeJob == [state |-> "free"]

Job ==
  [state        : {"running", "completed"},
   locale       : Languages,
   document     : Documents,          \* kept alive through _lifetime_guard
   todo         : SUBSET Words,
   results      : Results,
   failed       : BOOLEAN,
   wasCancelled : BOOLEAN]

TypeOK ==
  /\ text \in [Blocks -> BlockTexts]
  /\ ignored \subseteq Words
  /\ personal \in [Languages -> SUBSET Words]
  /\ hl \in Highlighter
  /\ ctl \in Controller
  /\ jobs \in [JobIds -> Job \cup {FreeJob}]

-----------------------------------------------------------------------------
(* What LinguisticService.check_word answers for a word, without a          *)
(* document: personal and session-ignored words, then the engine.           *)

Accepts(l, w) == w \in personal[l] \cup Engine[l]

-----------------------------------------------------------------------------
(* The LRU cache of statuses.                                               *)

\* The order of use after the keys T of the cache K moved to its end, in the
\* order given by the pairs of T.  The other keys keep theirs.
MovedToEnd(older, K, T, order) ==
  {p \in (K \ T) \X K : p[2] \in T \/ p \in older} \cup order

\* try_get of every key of T in turn.
Touched(h, T, order) ==
  [h EXCEPT !.older = MovedToEnd(@, DOMAIN h.statuses, T, order)]

\* The cache reduced to the keys K.
Kept(h, K) ==
  [h EXCEPT !.statuses = [k \in K |-> @[k]], !.older = @ \cap (K \X K)]

\* Mutant of AllPut: one entry too many survives.
AllPut_OffByOne(h, locale, results) ==
  LET New == {locale} \X DOMAIN results
      K == New \cup DOMAIN h.statuses
      order == {p \in New \X New : p[1][2] < p[2][2]}
      older == MovedToEnd(h.older, K, New, order)
      Recent == {k \in K : Cardinality({m \in K : <<k, m>> \in older}) <= CacheSize}
  IN  [h EXCEPT !.statuses = [k \in Recent |-> IF k \in New THEN results[k[2]] ELSE @[k]],
                !.older = older \cap (Recent \X Recent)]

\* put of every result in turn (they come sorted by word): all become the most
\* recently used, and the least recently used of what exceeds the bound go.
AllPut(h, locale, results) ==
  LET New == {locale} \X DOMAIN results
      K == New \cup DOMAIN h.statuses
      order == {p \in New \X New : p[1][2] < p[2][2]}
      older == MovedToEnd(h.older, K, New, order)
      Recent == {k \in K : Cardinality({m \in K : <<k, m>> \in older}) < CacheSize}
  IN  [h EXCEPT !.statuses = [k \in Recent |-> IF k \in New THEN results[k[2]] ELSE @[k]],
                !.older = older \cap (Recent \X Recent)]

-----------------------------------------------------------------------------
(* The highlighter.                                                         *)

\* The tokens of block b that highlightBlock does not skip as ignored.
Seen(t, ign, b) == Range(t[b]) \ ign

Known(h, w) == <<h.language, w>> \in DOMAIN h.statuses

\* v's last token in the blocks B comes before w's.
LastSeenBefore(t, B, v, w) ==
  \E c \in B : \E j \in DOMAIN t[c] :
    /\ t[c][j] = w
    /\ \A b \in B : \A i \in DOMAIN t[b] :
         t[b][i] = v => b < c \/ (b = c /\ i < j)

\* highlightBlock on each of the blocks B, in the order of the document.  A
\* status found is moved to the recent end of the cache.
Highlighted(h, t, ign, B) ==
  LET found(b) == {w \in Seen(t, ign, b) : Known(h, w)}
      rejected(b) == {w \in found(b) : ~h.statuses[<<h.language, w>>]}
      T == {h.language} \X UNION {found(b) : b \in B}
      order == {p \in T \X T : LastSeenBefore(t, B, p[1][2], p[2][2])}
      pass == IF h.enabled THEN Touched(h, T, order) ELSE h
  IN  [pass EXCEPT !.formats =
         [b \in Blocks |-> IF b \notin B THEN @[b]
                           ELSE IF h.enabled THEN rejected(b) ELSE {}]]

\* The words highlightBlock emits through unknown_words_found on the way.
Unknown(h, t, ign, B) ==
  {w \in UNION {Seen(t, ign, b) : b \in B} : h.enabled /\ ~Known(h, w)}

BlocksContaining(t, w) == {b \in Blocks : w \in Range(t[b])}

ClearedCache(h) == Kept(h, {})

ForgottenWord(h, w) == Kept(h, {k \in DOMAIN h.statuses : k[2] # w})

-----------------------------------------------------------------------------
(* The controller.                                                          *)

NewGeneration(c) == [c EXCEPT !.current = {}]

\* Mutant of SupersedeActive: the words in flight do not return to the queue.
SupersedeActive_ForgetsInflight(c) ==
  IF c.cancelled # NoJob /\ c.busy
  THEN [c EXCEPT !.fired = @ \cup {c.cancelled}, !.inflight = {}, !.busy = FALSE]
  ELSE c

SupersedeActive(c) ==
  IF c.cancelled # NoJob /\ c.busy
  THEN [c EXCEPT !.fired = @ \cup {c.cancelled},
                 !.pending = @ \cup c.inflight,
                 !.inflight = {},
                 !.busy = FALSE]
  ELSE c

\* Mutant of RequestWords: the generation is not advanced.
RequestWords_SameGeneration(c, W) ==
  IF W # {} /\ c.enabled /\ c.document # NoDocument
  THEN [SupersedeActive(c) EXCEPT !.pending = @ \cup W, !.timer = TRUE]
  ELSE c

RequestWords(c, W) ==
  IF W # {} /\ c.enabled /\ c.document # NoDocument
  THEN NewGeneration([SupersedeActive(c) EXCEPT !.pending = @ \cup W, !.timer = TRUE])
  ELSE c

\* Mutants of OnDocumentChange: the active batch is made obsolete without being
\* superseded; the timer is not restarted for the words that came back.
OnDocumentChange_NoSupersede(c) ==
  NewGeneration([c EXCEPT !.timer = @ \/ c.pending # {}])

OnDocumentChange_NoTimer(c) == NewGeneration(SupersedeActive(c))

OnDocumentChange(c) ==
  LET s == SupersedeActive(c)
  IN  NewGeneration([s EXCEPT !.timer = @ \/ s.pending # {}])

\* Mutant of Cancel: the Event is set without looking whether there is one.
Cancel_Unguarded(c, clear) ==
  NewGeneration([c EXCEPT !.timer = FALSE, !.fired = @ \cup {c.cancelled},
                          !.inflight = {}, !.pending = IF clear THEN {} ELSE @,
                          !.busy = FALSE])

Cancel(c, clear) ==
  NewGeneration([c EXCEPT !.timer = FALSE,
                          !.fired = IF c.cancelled = NoJob THEN @ ELSE @ \cup {c.cancelled},
                          !.inflight = {},
                          !.pending = IF clear THEN {} ELSE @,
                          !.busy = FALSE])

SetDocument(c, d) ==
  IF d = c.document THEN c ELSE [Cancel(c, TRUE) EXCEPT !.document = d]

\* U: the words the rehighlight() of an enabled controller finds unknown.
SetEnabled(c, on, U) ==
  CASE on = c.enabled -> c
    [] on # c.enabled /\ on -> RequestWords([c EXCEPT !.enabled = TRUE], U)
    [] on # c.enabled /\ ~on -> Cancel([c EXCEPT !.enabled = FALSE], TRUE)

-----------------------------------------------------------------------------
(* What the user and the host do, all on the GUI thread.                    *)

\* The highlighter h repaints the blocks B of the text t and the controller c
\* receives the words without a status.
Repaint(h, c, t, ign, B) ==
  /\ hl' = Highlighted(h, t, ign, B)
  /\ ctl' = RequestWords(c, Unknown(h, t, ign, B))

\* contentsChange: Qt reformats the block through the highlighter first, then
\* the controller's own slot runs, whether or not the words have changed.
Edit(b, s) ==
  /\ ctl.document # NoDocument
  /\ text' = [text EXCEPT ![b] = s]
  /\ hl' = Highlighted(hl, text', ignored, {b})
  /\ ctl' = OnDocumentChange(RequestWords(ctl, Unknown(hl, text', ignored, {b})))
  /\ UNCHANGED <<ignored, personal, jobs>>

\* A token filter is added or removed: other words are found in the same text,
\* and contentsChange is not emitted.
SetTokenizer(t) ==
  /\ ctl.document # NoDocument
  /\ t # text
  /\ text' = t
  /\ Repaint(hl, ctl, t, ignored, Blocks)
  /\ UNCHANGED <<ignored, personal, jobs>>

\* rehighlight() for a new misspelling format, or Qt's own deferred one.
Rehighlight ==
  /\ Repaint(hl, ctl, text, ignored, Blocks)
  /\ UNCHANGED <<text, ignored, personal, jobs>>

\* Mutant of SetLanguage: the active batch is not cancelled.
SetLanguage_NoCancel(l, ign) ==
  /\ l # hl.language
  /\ ignored' = ign
  /\ Repaint(ClearedCache([hl EXCEPT !.language = l]), ctl, text, ign, Blocks)
  /\ UNCHANGED <<text, personal, jobs>>

\* LinguisticTextEditDecorator.set_language.  Ignored words are kept per language
\* and document: ign were ignored in l before.  A locale name that is refused ends
\* it behind the cancel, which is all that the pipeline sees of it: HostCancel(TRUE).
SetLanguage(l, ign) ==
  /\ l # hl.language
  /\ ignored' = ign
  /\ Repaint(ClearedCache([hl EXCEPT !.language = l]), Cancel(ctl, TRUE),
             text, ign, Blocks)
  /\ UNCHANGED <<text, personal, jobs>>

\* The decorator, spelling or highlighting is switched on or off: first the
\* highlighter (which repaints), then the controller (which repaints again).
SetActive(on) ==
  LET h == [hl EXCEPT !.enabled = on]
      U == Unknown(h, text, ignored, Blocks)
  IN  /\ on # hl.enabled
      /\ hl' = Highlighted(h, text, ignored, Blocks)
      /\ ctl' = SetEnabled(RequestWords(ctl, U), on, U)
      /\ UNCHANGED <<text, ignored, personal, jobs>>

\* The decorator is detached, or the document or the editor is destroyed.
Detach ==
  /\ ctl.document # NoDocument
  /\ ctl' = SetDocument(ctl, NoDocument)
  /\ text' = [b \in Blocks |-> <<>>]
  /\ hl' = [hl EXCEPT !.formats = [b \in Blocks |-> {}]]
  /\ UNCHANGED <<ignored, personal, jobs>>

Attach(d, t, ign) ==
  LET U == Unknown(hl, t, ign, Blocks)
  IN  /\ ctl.document = NoDocument
      /\ text' = t
      /\ ignored' = ign
      /\ hl' = Highlighted(hl, t, ign, Blocks)
      /\ ctl' = RequestWords(SetEnabled(SetDocument(ctl, d), hl.enabled, U), U)
      /\ UNCHANGED <<personal, jobs>>

\* Mutant of InvalidateSpelling: the blocks are repainted from the old entry.
InvalidateSpelling_KeepsEntry(w, ign) ==
  Repaint(hl, ctl, text, ign, BlocksContaining(text, w))

\* decorator.invalidate_spelling(w), once the word's standing is ign, pers.
InvalidateSpelling(w, ign) ==
  Repaint(ForgottenWord(hl, w), ctl, text, ign, BlocksContaining(text, w))

\* A word the user can point at, or any word where the host offers another way
\* to edit its lists.
Reachable(w) ==
  OffScreenChanges \/ \E b \in Blocks : w \in Seen(text, ignored, b)

\* Add to Dictionary and its undoing; the same for the words of the session.
ChangePersonal(w) ==
  /\ Reachable(w)
  /\ personal' = [personal EXCEPT ![hl.language] =
                    IF w \in @ THEN @ \ {w} ELSE @ \cup {w}]
  /\ InvalidateSpelling(w, ignored)
  /\ UNCHANGED <<text, ignored, jobs>>

\* Ignore All and its undoing.
ChangeIgnored(w) ==
  /\ w \in ignored \/ Reachable(w)
  /\ ignored' = IF w \in ignored THEN ignored \ {w} ELSE ignored \cup {w}
  /\ InvalidateSpelling(w, ignored')
  /\ UNCHANGED <<text, personal, jobs>>

\* decorator.invalidate_spelling(None)
InvalidateAll ==
  /\ Repaint(ClearedCache(hl), ctl, text, ignored, Blocks)
  /\ UNCHANGED <<text, ignored, personal, jobs>>

-----------------------------------------------------------------------------
(* Batches.                                                                 *)

CanFlush(c) == c.enabled /\ c.document # NoDocument /\ c.pending # {}

\* flush(): the pending words leave as batch j.
StartBatch(c, j) ==
  /\ jobs[j] = FreeJob
  /\ ctl' = [c EXCEPT !.pending = {}, !.inflight = c.pending, !.busy = TRUE,
                      !.cancelled = j, !.fired = @ \ {j}, !.current = @ \cup {j}]
  /\ jobs' = [jobs EXCEPT ![j] =
       [state |-> "running", locale |-> hl.language, document |-> c.document,
        todo |-> c.pending, results |-> [w \in {} |-> TRUE],
        failed |-> FALSE, wasCancelled |-> FALSE]]

\* The single-shot debounce timer expires.
TimerFires ==
  /\ ctl.timer
  /\ \/ CanFlush(ctl) /\ \E j \in JobIds : StartBatch([ctl EXCEPT !.timer = FALSE], j)
     \/ ~CanFlush(ctl) /\ ctl' = [ctl EXCEPT !.timer = FALSE] /\ UNCHANGED jobs
  /\ UNCHANGED <<text, ignored, personal, hl>>

\* The host calls flush() without waiting for the timer.
HostFlush ==
  /\ HostCalls
  /\ CanFlush(ctl)
  /\ \E j \in JobIds : StartBatch(ctl, j)
  /\ UNCHANGED <<text, ignored, personal, hl>>

HostCancel(clear) ==
  /\ HostCalls
  /\ ctl' = Cancel(ctl, clear)
  /\ UNCHANGED <<text, ignored, personal, hl, jobs>>

Running(j) == jobs[j].state = "running"

\* The batch job once the service has answered for w.
Answered(job, w) ==
  [job EXCEPT !.todo = @ \ {w},
              !.results = [v \in DOMAIN @ \cup {w} |->
                             IF v = w THEN Accepts(job.locale, w) ELSE @[v]]]

\* One round of the worker's loop: the next word, in sorted order.
CheckWord(j) ==
  /\ Running(j)
  /\ ~jobs[j].failed
  /\ j \notin ctl.fired
  /\ \E w \in jobs[j].todo :
       /\ \A v \in jobs[j].todo : w <= v
       /\ jobs' = [jobs EXCEPT ![j] = Answered(@, w)]
  /\ UNCHANGED <<text, ignored, personal, hl, ctl>>

\* check_word raises: the loop is left with what it has.
CheckFails(j) ==
  /\ Strict
  /\ Running(j)
  /\ ~jobs[j].failed
  /\ j \notin ctl.fired
  /\ jobs[j].todo # {}
  /\ jobs' = [jobs EXCEPT ![j].failed = TRUE]
  /\ UNCHANGED <<text, ignored, personal, hl, ctl>>

\* The loop has ended: the worker reads the Event once more and posts its
\* results to the GUI thread.
EmitCompleted(j) ==
  /\ Running(j)
  /\ j \in ctl.fired \/ jobs[j].failed \/ jobs[j].todo = {}
  /\ jobs' = [jobs EXCEPT ![j].state = "completed",
                          ![j].wasCancelled = j \in ctl.fired]
  /\ UNCHANGED <<text, ignored, personal, hl, ctl>>

-----------------------------------------------------------------------------
(* _on_completed: the GUI thread receives the results of batch j.           *)

Completed(j) == jobs[j].state = "completed"

\* Mutant of Obsolete: the generation is not compared.
Obsolete_AnyGeneration(j) ==
  \/ jobs[j].wasCancelled
  \/ jobs[j].locale # hl.language
  \/ ctl.document = NoDocument

Obsolete(j) ==
  \/ jobs[j].wasCancelled
  \/ j \notin ctl.current
  \/ jobs[j].locale # hl.language
  \/ ctl.document = NoDocument

\* The batch is delivered and nothing refers to it any more.
Released(c, j) == [c EXCEPT !.current = @ \ {j}, !.fired = @ \ {j}]

\* The controller between taking a batch's results and reporting it finished.
Taken(c) == [c EXCEPT !.inflight = {}, !.cancelled = NoJob]

Finished(c) == [c EXCEPT !.busy = FALSE, !.timer = @ \/ c.pending # {}]

DiscardResults(j) ==
  /\ Completed(j)
  /\ Obsolete(j)
  /\ jobs' = [jobs EXCEPT ![j] = FreeJob]
  /\ ctl' = Released(ctl, j)
  /\ UNCHANGED <<text, ignored, personal, hl>>

JobFailed(j) ==
  /\ Completed(j)
  /\ ~Obsolete(j)
  /\ jobs[j].failed
  /\ jobs' = [jobs EXCEPT ![j] = FreeJob]
  /\ ctl' = Finished(Taken(Released(ctl, j)))
  /\ UNCHANGED <<text, ignored, personal, hl>>

\* Mutant of ApplyResults: the statuses are cached but nothing is repainted.
ApplyResults_NoRepaint(j) ==
  /\ Completed(j)
  /\ ~Obsolete(j)
  /\ ~jobs[j].failed
  /\ hl' = AllPut(hl, jobs[j].locale, jobs[j].results)
  /\ ctl' = Finished(Taken(Released(ctl, j)))
  /\ jobs' = [jobs EXCEPT ![j] = FreeJob]
  /\ UNCHANGED <<text, ignored, personal>>

\* apply_statuses caches the batch and repaints everything, which may report
\* unknown words again before the batch counts as finished.
ApplyResults(j) ==
  LET h == AllPut(hl, jobs[j].locale, jobs[j].results)
      U == Unknown(h, text, ignored, Blocks)
  IN  /\ Completed(j)
      /\ ~Obsolete(j)
      /\ ~jobs[j].failed
      /\ hl' = Highlighted(h, text, ignored, Blocks)
      /\ ctl' = Finished(RequestWords(Taken(Released(ctl, j)), U))
      /\ jobs' = [jobs EXCEPT ![j] = FreeJob]
      /\ UNCHANGED <<text, ignored, personal>>

-----------------------------------------------------------------------------
(* A decorator is constructed around an editor with some text: highlighter, *)
(* controller, set_document, then rehighlight().                            *)

Init ==
  LET h(l, on) == [language |-> l, enabled |-> on, statuses |-> [k \in {} |-> TRUE],
                   older |-> {}, formats |-> [b \in Blocks |-> {}]]
      c(d) == [enabled |-> TRUE, document |-> d, pending |-> {}, inflight |-> {},
               timer |-> FALSE, busy |-> FALSE, cancelled |-> NoJob,
               fired |-> {}, current |-> {}]
  IN  /\ text \in [Blocks -> BlockTexts]
      /\ ignored \in SUBSET Ignorable
      /\ personal = [l \in Languages |-> {}]
      /\ \E l \in Languages, on \in BOOLEAN, d \in Documents :
           /\ hl = h(l, on)
           /\ ctl = RequestWords(c(d), Unknown(h(l, on), text, ignored, Blocks))
      /\ jobs = [j \in JobIds |-> FreeJob]

UserStep ==
  \/ \E b \in Blocks, s \in BlockTexts : Edit(b, s)
  \/ \E t \in [Blocks -> BlockTexts] : SetTokenizer(t)
  \/ Rehighlight
  \/ \E l \in Languages, ign \in SUBSET Ignorable : SetLanguage(l, ign)
  \/ \E on \in BOOLEAN : SetActive(on)
  \/ Detach
  \/ \E d \in Documents, t \in [Blocks -> BlockTexts], ign \in SUBSET Ignorable :
       Attach(d, t, ign)
  \/ \E w \in Learnable : ChangePersonal(w)
  \/ \E w \in Ignorable : ChangeIgnored(w)
  \/ InvalidateAll
  \/ HostFlush
  \/ \E clear \in BOOLEAN : HostCancel(clear)

WorkerStep(j) == CheckWord(j) \/ CheckFails(j) \/ EmitCompleted(j)

Deliver(j) == DiscardResults(j) \/ JobFailed(j) \/ ApplyResults(j)

Next ==
  \/ UserStep
  \/ TimerFires
  \/ \E j \in JobIds : WorkerStep(j) \/ Deliver(j)

\* The event loop fires an expired timer and delivers posted results, and the
\* pool runs every runnable.  Nothing obliges the user.
Fairness ==
  /\ WF_vars(TimerFires)
  /\ \A j \in JobIds : WF_vars(CheckWord(j)) /\ WF_vars(EmitCompleted(j))
                       /\ WF_vars(Deliver(j))

Spec == Init /\ [][Next]_vars

FairSpec == Spec /\ Fairness
-----------------------------------------------------------------------------
(* Properties.                                                              *)

\* The words that deserve an underline in block b.
Misspelled(b) == {w \in Seen(text, ignored, b) : ~Accepts(hl.language, w)}

\* An underlined word is on the screen, is not ignored and is rejected by the
\* service, in the language now selected: no result computed for an earlier
\* text, language, document or dictionary ever reaches the screen
\* (_on_completed, apply_statuses and highlightBlock taken together).
NoFalseUnderline == \A b \in Blocks : hl.formats[b] \subseteq Misspelled(b)

\* The status cache agrees with the service, so that the next highlightBlock
\* paints the truth: the entry of a word whose standing changed does not come
\* back from a batch that was checking it at the time.
StatusesTrue ==
  \A k \in DOMAIN hl.statuses : hl.statuses[k] <=> Accepts(k[1], k[2])

\* The cache is bounded and ordered by use: the batch and the repaints never
\* leave two entries unordered, which would make the next eviction arbitrary.
CacheIsLru ==
  LET K == DOMAIN hl.statuses
  IN  /\ Cardinality(K) <= CacheSize
      /\ hl.older \subseteq K \X K
      /\ \A k, m \in K : k # m => (<<k, m>> \in hl.older <=> <<m, k>> \notin hl.older)
      /\ \A k, m, n \in K : <<k, m>> \in hl.older /\ <<m, n>> \in hl.older
                              => <<k, n>> \in hl.older

\* The words a batch set out to check.
BatchWords(j) == jobs[j].todo \cup DOMAIN jobs[j].results

\* The generation discipline.  A batch that still carries the present generation
\* is the one the controller waits for; its Event is not set and it has not seen
\* it set, its language and document are the present ones, self._inflight says
\* what it checks, and no word was asked for since it left (request_words, flush,
\* cancel, _on_document_change, _supersede_active and _on_completed together).
CurrentBatchIsAwaited ==
  \A j \in ctl.current :
    /\ ctl.busy
    /\ ctl.cancelled = j
    /\ j \notin ctl.fired
    /\ jobs[j] # FreeJob
    /\ ~jobs[j].wasCancelled
    /\ jobs[j].locale = hl.language
    /\ jobs[j].document = ctl.document
    /\ ctl.inflight = BatchWords(j)
    /\ ctl.pending = {}

\* The controller never reports itself busy without a batch that will end that:
\* idle_changed(True) cannot fail to come.
BusyHasBatch ==
  /\ ctl.busy => ctl.cancelled \in ctl.current
  /\ ~ctl.busy => ctl.inflight = {}

\* Words wait for the timer, never for luck: only a host that calls
\* cancel(clear_pending=False) leaves words pending without a timer.
PendingStaysScheduled ==
  [][ (ctl.pending # {} => ctl.timer)
      => \/ ctl'.pending # {} => ctl'.timer
         \/ HostCancel(FALSE) ]_vars

Tracked(c, w) == w \in c.pending \cup c.inflight

\* A visible word on its way to a status is not dropped by superseding,
\* discarding or evicting: it stays pending or in flight until the highlighter
\* knows it, unless the batch failed or checking was called off.
NoWordDropped ==
  [][ \A w \in Words :
        Tracked(ctl, w) /\ ~Tracked(ctl', w) =>
          \/ <<hl'.language, w>> \in DOMAIN hl'.statuses
          \/ \A b \in Blocks : w \notin Seen(text', ignored', b)
          \/ hl'.language # hl.language
          \/ ~hl'.enabled
          \/ \E j \in JobIds : JobFailed(j)
          \/ \E clear \in BOOLEAN : HostCancel(clear) ]_vars

\* The user is gone for good.
QuietUser == <>[][~UserStep]_vars

Settled ==
  /\ ~ctl.busy
  /\ ctl.pending = {}
  /\ hl.enabled => \A b \in Blocks : hl.formats[b] = Misspelled(b)

\* No batch that is alive has met an error; the words of one that has wait for the next
\* repaint that finds them.
NoneFailed == \A j \in JobIds : Running(j) \/ Completed(j) => ~jobs[j].failed

\* Once the user pauses, every misspelled word is underlined and the controller
\* comes to rest, provided the cache holds the words on the screen and no check fails.
Settles == QuietUser /\ []NoneFailed => <>[]Settled

\* Whatever the user does, a busy controller becomes idle again: the batch is
\* delivered or superseded.
BusyEnds == ctl.busy ~> ~ctl.busy
=============================================================================
