----------------------- MODULE AsyncSpellCheckProofs -----------------------
(***************************************************************************)
(* Theorems about AsyncSpellCheck, for every value of its constants.       *)
(***************************************************************************)
EXTENDS AsyncSpellCheck, Induction

-----------------------------------------------------------------------------
(* What the operators of the controller return.                             *)

LEMMA SupersedeActiveType ==
  ASSUME NEW c \in Controller PROVE SupersedeActive(c) \in Controller
BY DEF Controller, SupersedeActive

LEMMA RequestWordsType ==
  ASSUME NEW c \in Controller, NEW W \in SUBSET Words
  PROVE  RequestWords(c, W) \in Controller
BY SupersedeActiveType DEF Controller, RequestWords, NewGeneration

LEMMA OnDocumentChangeType ==
  ASSUME NEW c \in Controller PROVE OnDocumentChange(c) \in Controller
BY ZenonT(30), SupersedeActiveType DEF Controller, OnDocumentChange, NewGeneration

LEMMA CancelType ==
  ASSUME NEW c \in Controller, NEW clear \in BOOLEAN
  PROVE  Cancel(c, clear) \in Controller
BY ZenonT(60) DEF Controller, Cancel, NewGeneration

LEMMA SetDocumentType ==
  ASSUME NEW c \in Controller, NEW d \in Documents \cup {NoDocument}
  PROVE  SetDocument(c, d) \in Controller
BY CancelType DEF Controller, SetDocument

LEMMA SetEnabledType ==
  ASSUME NEW c \in Controller, NEW on \in BOOLEAN, NEW U \in SUBSET Words
  PROVE  SetEnabled(c, on, U) \in Controller
<1>1. [c EXCEPT !.enabled = TRUE] \in Controller /\ [c EXCEPT !.enabled = FALSE] \in Controller
  BY DEF Controller
<1>2. c.enabled \in BOOLEAN
  BY DEF Controller
<1> QED
  BY <1>1, <1>2, CancelType, RequestWordsType DEF SetEnabled

-----------------------------------------------------------------------------
(* What the operators of the highlighter return.                            *)

LEMMA SeenType ==
  ASSUME NEW t \in [Blocks -> BlockTexts], NEW ign, NEW b \in Blocks
  PROVE  Seen(t, ign, b) \subseteq Words
<1>1. t[b] \in Seq(Words)
  BY BlockTextsAssumption
<1> QED
  BY <1>1 DEF Seen, Range

LEMMA UnknownType ==
  ASSUME NEW h, NEW t \in [Blocks -> BlockTexts], NEW ign, NEW B \in SUBSET Blocks
  PROVE  Unknown(h, t, ign, B) \in SUBSET Words
BY SeenType DEF Unknown

LEMMA KeptType ==
  ASSUME NEW h \in Highlighter, NEW K \in SUBSET DOMAIN h.statuses
  PROVE  /\ Kept(h, K) \in Highlighter
         /\ Kept(h, K).statuses = [k \in K |-> h.statuses[k]]
         /\ Kept(h, K).language = h.language
         /\ Kept(h, K).enabled = h.enabled
         /\ Kept(h, K).formats = h.formats
<1>1. PICK L \in SUBSET Key : h.statuses \in [L -> BOOLEAN]
  BY DEF Highlighter, Statuses
<1>2. [k \in K |-> h.statuses[k]] \in Statuses
  BY <1>1 DEF Statuses
<1> QED
  BY <1>2 DEF Kept, Highlighter

LEMMA HighlightedType ==
  ASSUME NEW h \in Highlighter, NEW t \in [Blocks -> BlockTexts],
         NEW ign, NEW B \in SUBSET Blocks
  PROVE  /\ Highlighted(h, t, ign, B) \in Highlighter
         /\ Highlighted(h, t, ign, B).statuses = h.statuses
         /\ Highlighted(h, t, ign, B).language = h.language
         /\ Highlighted(h, t, ign, B).enabled = h.enabled
         /\ \A b \in Blocks : \A w : w \in Highlighted(h, t, ign, B).formats[b] <=>
              IF b \notin B THEN w \in h.formats[b]
              ELSE /\ h.enabled
                   /\ w \in Seen(t, ign, b) /\ Known(h, w)
                   /\ ~h.statuses[<<h.language, w>>]
<1> DEFINE F == [b \in Blocks |-> IF b \notin B THEN h.formats[b]
                 ELSE IF h.enabled
                 THEN {w \in Seen(t, ign, b) : Known(h, w) /\ ~h.statuses[<<h.language, w>>]}
                 ELSE {}]
           T == {h.language} \X UNION {{w \in Seen(t, ign, b) : Known(h, w)} : b \in B}
           order == {p \in T \X T : LastSeenBefore(t, B, p[1][2], p[2][2])}
           pass == IF h.enabled THEN Touched(h, T, order) ELSE h
<1>1. F \in [Blocks -> SUBSET Words]
  BY SeenType DEF Highlighter
<1>2. DOMAIN h.statuses \subseteq Key
  BY DEF Highlighter, Statuses
<1>6. T \subseteq DOMAIN h.statuses /\ order \subseteq T \X T
  BY DEF Known
<1>3. MovedToEnd(h.older, DOMAIN h.statuses, T, order) \subseteq Key \X Key
  BY <1>2, <1>6 DEF MovedToEnd
<1>4. /\ pass \in Highlighter
      /\ pass.statuses = h.statuses
      /\ pass.language = h.language
      /\ pass.enabled = h.enabled
      /\ pass.formats = h.formats
  <2> HIDE DEF T, order
  <2> QED BY <1>3 DEF Touched, Highlighter
<1>5. Highlighted(h, t, ign, B) = [pass EXCEPT !.formats = F]
  BY ZenonT(60), <1>4 DEF Highlighted, F, pass, T
<1> QED
  <2> HIDE DEF F, pass
  <2>1. /\ Highlighted(h, t, ign, B) \in Highlighter
        /\ Highlighted(h, t, ign, B).statuses = h.statuses
        /\ Highlighted(h, t, ign, B).language = h.language
        /\ Highlighted(h, t, ign, B).enabled = h.enabled
        /\ Highlighted(h, t, ign, B).formats = F
    BY <1>1, <1>4, <1>5 DEF Highlighter
  <2> QED BY <2>1 DEF F

\* A put never invents an entry: each is one of the results or was there before.
LEMMA AllPutType ==
  ASSUME NEW h \in Highlighter, NEW l \in Languages, NEW r \in Results
  PROVE  /\ AllPut(h, l, r) \in Highlighter
         /\ AllPut(h, l, r).language = h.language
         /\ AllPut(h, l, r).enabled = h.enabled
         /\ AllPut(h, l, r).formats = h.formats
         /\ \A k \in DOMAIN AllPut(h, l, r).statuses :
              \/ /\ k[1] = l
                 /\ k[2] \in DOMAIN r
                 /\ AllPut(h, l, r).statuses[k] = r[k[2]]
              \/ /\ k \in DOMAIN h.statuses
                 /\ AllPut(h, l, r).statuses[k] = h.statuses[k]
<1> DEFINE New == {l} \X DOMAIN r
           K == New \cup DOMAIN h.statuses
           order == {p \in New \X New : p[1][2] < p[2][2]}
           older == MovedToEnd(h.older, K, New, order)
           Recent == {k \in K : Cardinality({m \in K : <<k, m>> \in older}) < CacheSize}
           S == [k \in Recent |-> IF k \in New THEN r[k[2]] ELSE h.statuses[k]]
<1>1. PICK L \in SUBSET Key : h.statuses \in [L -> BOOLEAN]
  BY DEF Highlighter, Statuses
<1>2. PICK W \in SUBSET Words : r \in [W -> BOOLEAN]
  BY DEF Results
<1>3. New \subseteq Key /\ \A k \in New : k[1] = l /\ k[2] \in DOMAIN r
  BY <1>2 DEF Key
<1>4. Recent \subseteq K /\ K \subseteq Key
  BY <1>1, <1>3
<1>5. S \in [Recent -> BOOLEAN]
  <2>1. \A k \in Recent : (IF k \in New THEN r[k[2]] ELSE h.statuses[k]) \in BOOLEAN
    BY <1>1, <1>2, <1>3, <1>4
  <2> HIDE DEF Recent, New
  <2> QED BY <2>1
<1>6. S \in Statuses
  <2> HIDE DEF S, Recent
  <2> QED BY <1>4, <1>5 DEF Statuses
<1>7. AllPut(h, l, r) = [h EXCEPT !.statuses = S, !.older = older \cap (Recent \X Recent)]
  BY DEF AllPut
<1>8. /\ AllPut(h, l, r) \in Highlighter
      /\ AllPut(h, l, r).language = h.language
      /\ AllPut(h, l, r).enabled = h.enabled
      /\ AllPut(h, l, r).formats = h.formats
      /\ AllPut(h, l, r).statuses = S
  <2>1. older \cap (Recent \X Recent) \in SUBSET (Key \X Key)
    <3> HIDE DEF older, Recent
    <3> QED BY <1>4
  <2> DEFINE O == older \cap (Recent \X Recent)
  <2>2. O \in SUBSET (Key \X Key) /\ AllPut(h, l, r) = [h EXCEPT !.statuses = S, !.older = O]
    BY <2>1, <1>7
  <2> HIDE DEF S, O
  <2> QED BY <1>6, <2>2 DEF Highlighter
<1>9. \A k \in Recent :
        \/ k[1] = l /\ k[2] \in DOMAIN r /\ S[k] = r[k[2]]
        \/ k \in DOMAIN h.statuses /\ S[k] = h.statuses[k]
  BY <1>3, <1>4
<1> QED
  BY <1>5, <1>8, <1>9

-----------------------------------------------------------------------------
(* Type correctness.                                                        *)

LEMMA StartBatchType ==
  ASSUME TypeOK, NEW c \in Controller, NEW j \in JobIds, CanFlush(c), StartBatch(c, j)
  PROVE  ctl' \in Controller /\ jobs' \in [JobIds -> Job \cup {FreeJob}]
<1>1. ctl' \in Controller
  BY DEF StartBatch, Controller
<1>2. c.document \in Documents /\ c.pending \in SUBSET Words /\ hl.language \in Languages
  BY DEF TypeOK, Controller, Highlighter, CanFlush
<1>3. [w \in {} |-> TRUE] \in Results
  BY DEF Results
<1> DEFINE new == [state |-> "running", locale |-> hl.language, document |-> c.document,
                   todo |-> c.pending, results |-> [w \in {} |-> TRUE],
                   failed |-> FALSE, wasCancelled |-> FALSE]
<1>4. new \in Job
  BY <1>2, <1>3 DEF Job
<1>5. jobs' = [jobs EXCEPT ![j] = new]
  BY DEF StartBatch
<1> HIDE DEF new
<1> QED
  BY <1>1, <1>4, <1>5 DEF TypeOK

\* A batch in progress is a Job, and remains one when its fields change.
LEMMA RunningIsJob ==
  ASSUME TypeOK, NEW j \in JobIds, jobs[j] # FreeJob PROVE jobs[j] \in Job
BY DEF TypeOK

LEMMA StateIsNotFree ==
  ASSUME NEW j \in JobIds, Running(j) \/ Completed(j) PROVE jobs[j] # FreeJob
BY DEF Running, Completed, FreeJob

LEMMA AnsweredType ==
  ASSUME NEW job \in Job, NEW w \in Words
  PROVE  Answered(job, w) \in Job
<1> DEFINE r == [v \in DOMAIN job.results \cup {w} |->
                   IF v = w THEN Accepts(job.locale, w) ELSE job.results[v]]
<1>1. PICK W \in SUBSET Words : job.results \in [W -> BOOLEAN]
  BY DEF Job, Results
<1>2. \A v \in W \cup {w} :
        (IF v = w THEN Accepts(job.locale, w) ELSE job.results[v]) \in BOOLEAN
  <2>1. Accepts(job.locale, w) \in BOOLEAN
    BY DEF Accepts
  <2>2. \A v \in W : job.results[v] \in BOOLEAN
    BY <1>1
  <2> QED
    BY <2>1, <2>2
<1>3. r \in [W \cup {w} -> BOOLEAN]
  BY <1>1, <1>2
<1>4. r \in Results
  <2> HIDE DEF r
  <2> QED BY <1>3 DEF Results
<1>5. Answered(job, w) = [job EXCEPT !.todo = @ \ {w}, !.results = r]
  BY DEF Answered
<1> HIDE DEF r
<1> QED
  BY <1>4, <1>5 DEF Job

LEMMA CheckWordType ==
  ASSUME TypeOK, NEW j \in JobIds, CheckWord(j)
  PROVE  jobs' \in [JobIds -> Job \cup {FreeJob}]
<1>1. jobs[j] \in Job
  BY RunningIsJob, StateIsNotFree DEF CheckWord
<1>2. PICK w \in jobs[j].todo : jobs' = [jobs EXCEPT ![j] = Answered(jobs[j], w)]
  BY DEF CheckWord
<1>3. w \in Words
  BY <1>1, <1>2 DEF Job
<1>4. Answered(jobs[j], w) \in Job
  BY <1>1, <1>3, AnsweredType
<1> QED
  BY <1>2, <1>4 DEF TypeOK

LEMMA RepaintType ==
  ASSUME NEW h \in Highlighter, NEW c \in Controller, NEW t \in [Blocks -> BlockTexts],
         NEW ign, NEW B \in SUBSET Blocks, Repaint(h, c, t, ign, B)
  PROVE  hl' \in Highlighter /\ ctl' \in Controller
BY HighlightedType, UnknownType, RequestWordsType DEF Repaint

LEMMA ReleasedType ==
  ASSUME NEW c \in Controller, NEW j \in JobIds, NEW U \in SUBSET Words
  PROVE  /\ Released(c, j) \in Controller
         /\ Finished(Taken(Released(c, j))) \in Controller
         /\ Finished(RequestWords(Taken(Released(c, j)), U)) \in Controller
<1>1. Released(c, j) \in Controller
  BY DEF Released, Controller
<1>2. Taken(Released(c, j)) \in Controller
  BY <1>1 DEF Taken, Controller
<1>3. \A k \in Controller : Finished(k) \in Controller
  BY DEF Finished, Controller
<1> QED
  BY <1>1, <1>2, <1>3, RequestWordsType

LEMMA RecheckedType ==
  ASSUME NEW h \in Highlighter
  PROVE  /\ ClearedCache(h) \in Highlighter
         /\ \A l \in Languages : ClearedCache([h EXCEPT !.language = l]) \in Highlighter
         /\ \A w : ForgottenWord(h, w) \in Highlighter
<1>1. \A l \in Languages : [h EXCEPT !.language = l] \in Highlighter
  BY DEF Highlighter
<1>2. \A g \in Highlighter : ClearedCache(g) \in Highlighter
  BY KeptType DEF ClearedCache
<1>3. \A w : ForgottenWord(h, w) \in Highlighter
  BY KeptType DEF ForgottenWord
<1> QED
  BY <1>1, <1>2, <1>3

LEMMA UserStepType ==
  ASSUME TypeOK, UserStep PROVE TypeOK'
<1> USE DEF TypeOK
<1>1. ASSUME NEW b \in Blocks, NEW s \in BlockTexts, Edit(b, s) PROVE TypeOK'
  <2>1. text' \in [Blocks -> BlockTexts]
    BY <1>1 DEF Edit
  <2>2. RequestWords(ctl, Unknown(hl, text', ignored, {b})) \in Controller
    BY <2>1, UnknownType, RequestWordsType
  <2>3. hl' \in Highlighter
    <3>1. \A t \in [Blocks -> BlockTexts] : Highlighted(hl, t, ignored, {b}) \in Highlighter
      BY HighlightedType
    <3>2. hl' = Highlighted(hl, text', ignored, {b})
      BY <1>1 DEF Edit
    <3> QED
      BY <2>1, <3>1, <3>2
  <2>4. ctl' \in Controller
    BY <1>1, <2>2, OnDocumentChangeType DEF Edit
  <2> QED
    BY <1>1, <2>1, <2>3, <2>4 DEF Edit
<1>2. ASSUME NEW t \in [Blocks -> BlockTexts], SetTokenizer(t) PROVE TypeOK'
  BY <1>2, RepaintType DEF SetTokenizer
<1>3. CASE Rehighlight
  BY <1>3, RepaintType DEF Rehighlight
<1>4. ASSUME NEW l \in Languages, NEW ign \in SUBSET Ignorable, SetLanguage(l, ign)
      PROVE  TypeOK'
  BY <1>4, RepaintType, RecheckedType, CancelType, CandidatesAssumption DEF SetLanguage
<1>5. ASSUME NEW on \in BOOLEAN, SetActive(on) PROVE TypeOK'
  <2> DEFINE h == [hl EXCEPT !.enabled = on]
             U == Unknown(h, text, ignored, Blocks)
  <2>1. h \in Highlighter /\ U \in SUBSET Words
    BY UnknownType DEF Highlighter
  <2> HIDE DEF U
  <2>2. SetEnabled(RequestWords(ctl, U), on, U) \in Controller
    BY <2>1, RequestWordsType, SetEnabledType
  <2>3. /\ hl' = Highlighted(h, text, ignored, Blocks)
        /\ ctl' = SetEnabled(RequestWords(ctl, U), on, U)
        /\ UNCHANGED <<text, ignored, personal, jobs>>
    BY <1>5 DEF SetActive, U
  <2> HIDE DEF h
  <2> QED
    BY <2>1, <2>2, <2>3, HighlightedType
<1>6. CASE Detach
  <2>1. text' \in [Blocks -> BlockTexts]
    BY <1>6, BlockTextsAssumption DEF Detach
  <2>2. hl' \in Highlighter
    BY <1>6 DEF Detach, Highlighter
  <2> QED
    BY <1>6, <2>1, <2>2, SetDocumentType DEF Detach
<1>7. ASSUME NEW d \in Documents, NEW t \in [Blocks -> BlockTexts],
             NEW ign \in SUBSET Ignorable, Attach(d, t, ign)
      PROVE  TypeOK'
  <2> DEFINE U == Unknown(hl, t, ign, Blocks)
  <2>1. U \in SUBSET Words /\ hl.enabled \in BOOLEAN
    BY UnknownType DEF Highlighter
  <2> HIDE DEF U
  <2>2. RequestWords(SetEnabled(SetDocument(ctl, d), hl.enabled, U), U) \in Controller
    BY <2>1, SetDocumentType, SetEnabledType, RequestWordsType
  <2>3. ctl' = RequestWords(SetEnabled(SetDocument(ctl, d), hl.enabled, U), U)
    BY <1>7 DEF Attach, U
  <2> QED
    BY <1>7, <2>2, <2>3, HighlightedType, CandidatesAssumption DEF Attach
<1>8. ASSUME NEW w \in Learnable, ChangePersonal(w) PROVE TypeOK'
  <2>1. personal' \in [Languages -> SUBSET Words]
    BY <1>8, CandidatesAssumption DEF ChangePersonal
  <2>2. Repaint(ForgottenWord(hl, w), ctl, text, ignored, BlocksContaining(text, w))
    BY <1>8 DEF ChangePersonal, InvalidateSpelling
  <2>3. hl' \in Highlighter /\ ctl' \in Controller
    BY <2>2, RepaintType, RecheckedType DEF BlocksContaining
  <2> QED
    BY <1>8, <2>1, <2>3 DEF ChangePersonal
<1>9. ASSUME NEW w \in Ignorable, ChangeIgnored(w) PROVE TypeOK'
  <2>1. ignored' \subseteq Words
    BY <1>9, CandidatesAssumption DEF ChangeIgnored
  <2>2. Repaint(ForgottenWord(hl, w), ctl, text, ignored', BlocksContaining(text, w))
    BY <1>9 DEF ChangeIgnored, InvalidateSpelling
  <2>3. hl' \in Highlighter /\ ctl' \in Controller
    BY ZenonT(60), <2>2, RepaintType, RecheckedType DEF BlocksContaining
  <2> QED
    BY <1>9, <2>1, <2>3 DEF ChangeIgnored
<1>10. CASE InvalidateAll
  BY <1>10, RepaintType, RecheckedType DEF InvalidateAll
<1>11. CASE HostFlush
  BY <1>11, StartBatchType DEF HostFlush
<1>12. ASSUME NEW clear \in BOOLEAN, HostCancel(clear) PROVE TypeOK'
  BY <1>12, CancelType DEF HostCancel
<1> QED
  BY <1>1, <1>2, <1>3, <1>4, <1>5, <1>6, <1>7, <1>8, <1>9, <1>10, <1>11, <1>12
     DEF UserStep

LEMMA TimerFiresType ==
  ASSUME TypeOK, TimerFires PROVE TypeOK'
<1> DEFINE c == [ctl EXCEPT !.timer = FALSE]
<1>1. c \in Controller
  BY DEF TypeOK, Controller
<1>2. CASE CanFlush(ctl) /\ \E j \in JobIds : StartBatch(c, j)
  <2>1. CanFlush(c)
    BY <1>2 DEF CanFlush, TypeOK, Controller
  <2> HIDE DEF c
  <2> QED
    BY <1>1, <1>2, <2>1, StartBatchType DEF TimerFires, TypeOK
<1>3. CASE ~CanFlush(ctl) /\ ctl' = c /\ UNCHANGED jobs
  BY <1>1, <1>3 DEF TimerFires, TypeOK
<1> QED
  BY <1>2, <1>3 DEF TimerFires

LEMMA WorkerStepType ==
  ASSUME TypeOK, NEW j \in JobIds, WorkerStep(j) PROVE TypeOK'
<1>1. CASE CheckWord(j)
  BY <1>1, CheckWordType DEF CheckWord, TypeOK
<1>2. CASE CheckFails(j)
  <2>1. jobs[j] \in Job
    BY <1>2, RunningIsJob, StateIsNotFree DEF CheckFails
  <2>2. [jobs[j] EXCEPT !.failed = TRUE] \in Job
    BY <2>1 DEF Job
  <2> QED
    BY <1>2, <2>2 DEF CheckFails, TypeOK
<1>3. CASE EmitCompleted(j)
  <2>1. jobs[j] \in Job
    BY <1>3, RunningIsJob, StateIsNotFree DEF EmitCompleted
  <2>2. \A fired \in BOOLEAN :
          [jobs[j] EXCEPT !.state = "completed", !.wasCancelled = fired] \in Job
    BY <2>1 DEF Job
  <2>3. (j \in ctl.fired) \in BOOLEAN
    OBVIOUS
  <2>4. [jobs[j] EXCEPT !.state = "completed", !.wasCancelled = j \in ctl.fired] \in Job
    BY <2>2, <2>3, Zenon
  <2> QED
    BY <1>3, <2>4 DEF EmitCompleted, TypeOK
<1> QED
  BY <1>1, <1>2, <1>3 DEF WorkerStep

LEMMA DeliverType ==
  ASSUME TypeOK, NEW j \in JobIds, Deliver(j) PROVE TypeOK'
<1>1. [jobs EXCEPT ![j] = FreeJob] \in [JobIds -> Job \cup {FreeJob}]
  BY DEF TypeOK
<1>2. CASE DiscardResults(j)
  BY <1>1, <1>2, ReleasedType DEF DiscardResults, TypeOK
<1>3. CASE JobFailed(j)
  BY <1>1, <1>3, ReleasedType DEF JobFailed, TypeOK
<1>4. CASE ApplyResults(j)
  <2> DEFINE h == AllPut(hl, jobs[j].locale, jobs[j].results)
             U == Unknown(h, text, ignored, Blocks)
  <2>1. jobs[j] \in Job
    BY <1>4, RunningIsJob, StateIsNotFree DEF ApplyResults
  <2>2. h \in Highlighter /\ U \in SUBSET Words
    BY <2>1, AllPutType, UnknownType DEF TypeOK, Job
  <2>3. hl' \in Highlighter
    BY <1>4, <2>2, HighlightedType DEF ApplyResults, TypeOK
  <2>4. ctl' \in Controller
    <3> HIDE DEF U
    <3>1. ctl' = Finished(RequestWords(Taken(Released(ctl, j)), U))
      BY <1>4 DEF ApplyResults, U
    <3> QED
      BY <2>2, <3>1, ReleasedType DEF TypeOK
  <2> QED
    BY <1>1, <1>4, <2>3, <2>4 DEF ApplyResults, TypeOK
<1> QED
  BY <1>2, <1>3, <1>4 DEF Deliver

LEMMA InitType == Init => TypeOK
<1> SUFFICES ASSUME Init PROVE TypeOK
  OBVIOUS
<1>1. PICK l \in Languages, on \in BOOLEAN, d \in Documents :
        LET h == [language |-> l, enabled |-> on, statuses |-> [k \in {} |-> TRUE],
                  older |-> {}, formats |-> [b \in Blocks |-> {}]]
            c == [enabled |-> TRUE, document |-> d, pending |-> {}, inflight |-> {},
                  timer |-> FALSE, busy |-> FALSE, cancelled |-> NoJob,
                  fired |-> {}, current |-> {}]
        IN  hl = h /\ ctl = RequestWords(c, Unknown(h, text, ignored, Blocks))
  BY DEF Init
<1>2. [k \in {} |-> TRUE] \in Statuses
  BY DEF Statuses
<1>3. hl \in Highlighter
  BY <1>1, <1>2 DEF Highlighter
<1>4. text \in [Blocks -> BlockTexts] /\ ignored \subseteq Words
  BY CandidatesAssumption DEF Init
<1>5. ctl \in Controller
  <2> DEFINE c == [enabled |-> TRUE, document |-> d, pending |-> {}, inflight |-> {},
                   timer |-> FALSE, busy |-> FALSE, cancelled |-> NoJob,
                   fired |-> {}, current |-> {}]
  <2>1. c \in Controller
    BY DEF Controller
  <2>2. ctl = RequestWords(c, Unknown(hl, text, ignored, Blocks))
    BY <1>1
  <2> HIDE DEF c
  <2> QED
    BY <1>4, <2>1, <2>2, UnknownType, RequestWordsType
<1> QED
  BY <1>3, <1>4, <1>5 DEF Init, TypeOK

LEMMA TypeInductive == TypeOK /\ [Next]_vars => TypeOK'
<1> SUFFICES ASSUME TypeOK, [Next]_vars PROVE TypeOK'
  OBVIOUS
<1>1. CASE UserStep
  BY <1>1, UserStepType
<1>2. CASE TimerFires
  BY <1>2, TimerFiresType
<1>3. ASSUME NEW j \in JobIds, WorkerStep(j) \/ Deliver(j) PROVE TypeOK'
  BY <1>3, WorkerStepType, DeliverType
<1>4. CASE UNCHANGED vars
  BY <1>4 DEF vars, TypeOK
<1> QED
  BY <1>1, <1>2, <1>3, <1>4 DEF Next

\* Every state the pipeline reaches is well formed, for any words, languages,
\* documents, texts and cache size: no handler stores a stray value, such as the
\* Event of a batch that was never started.
THEOREM TypeCorrect == Spec => []TypeOK
<1>1. Init => TypeOK
  BY InitType
<1>2. TypeOK /\ [Next]_vars => TypeOK'
  BY TypeInductive
<1> QED
  BY <1>1, <1>2, PTL DEF Spec

-----------------------------------------------------------------------------
(* The generation discipline.                                               *)

\* CurrentBatchIsAwaited and BusyHasBatch as a relation between a controller,
\* the language selected and the batches.
Awaited(c, l, js) ==
  /\ \A j \in c.current :
       /\ c.busy
       /\ c.cancelled = j
       /\ j \notin c.fired
       /\ js[j] # FreeJob
       /\ ~js[j].wasCancelled
       /\ js[j].locale = l
       /\ js[j].document = c.document
       /\ c.inflight = js[j].todo \cup DOMAIN js[j].results
       /\ c.pending = {}
  /\ c.busy => c.cancelled \in c.current
  /\ ~c.busy => c.inflight = {}

\* No batch is awaited; whatever the batches and the language, this is Awaited.
AtRest(c) == ~c.busy /\ c.current = {} /\ c.inflight = {}

LEMMA AtRestAwaited ==
  ASSUME NEW c, AtRest(c), NEW l, NEW js PROVE Awaited(c, l, js)
BY DEF AtRest, Awaited

LEMMA CancelAtRest ==
  ASSUME NEW c \in Controller, NEW clear PROVE AtRest(Cancel(c, clear))
BY DEF AtRest, Cancel, NewGeneration, Controller

\* Only a batch of this generation keeps the controller busy, so superseding
\* leaves nothing in flight.
LEMMA SupersedeActiveRests ==
  ASSUME NEW c \in Controller, NEW l, NEW js, Awaited(c, l, js)
  PROVE  ~SupersedeActive(c).busy /\ SupersedeActive(c).inflight = {}
<1>1. CASE c.busy
  <2>1. c.cancelled # NoJob
    BY <1>1, NoneAssumption DEF Awaited, Controller
  <2> QED
    BY <1>1, <2>1 DEF SupersedeActive, Controller
<1>2. CASE ~c.busy
  BY <1>2 DEF SupersedeActive, Awaited
<1> QED
  BY <1>1, <1>2

LEMMA RequestWordsAwaited ==
  ASSUME NEW c \in Controller, NEW W \in SUBSET Words, NEW l, NEW js, Awaited(c, l, js)
  PROVE  /\ Awaited(RequestWords(c, W), l, js)
         /\ RequestWords(c, W) = c \/ AtRest(RequestWords(c, W))
         /\ W # {} /\ c.enabled /\ c.document # NoDocument => AtRest(RequestWords(c, W))
<1>1. CASE W # {} /\ c.enabled /\ c.document # NoDocument
  <2>1. AtRest(RequestWords(c, W))
    BY <1>1, SupersedeActiveRests, SupersedeActiveType
       DEF RequestWords, NewGeneration, AtRest, Controller
  <2> QED
    BY <2>1, AtRestAwaited
<1>2. CASE ~(W # {} /\ c.enabled /\ c.document # NoDocument)
  <2>1. RequestWords(c, W) = c
    BY <1>2 DEF RequestWords
  <2> QED
    BY <1>2, <2>1
<1> QED
  BY <1>1, <1>2

LEMMA OnDocumentChangeAtRest ==
  ASSUME NEW c \in Controller, NEW l, NEW js, Awaited(c, l, js)
  PROVE  AtRest(OnDocumentChange(c))
BY SupersedeActiveRests, SupersedeActiveType
   DEF OnDocumentChange, NewGeneration, AtRest, Controller

LEMMA SetDocumentAtRest ==
  ASSUME NEW c \in Controller, NEW d \in Documents \cup {NoDocument}, d # c.document
  PROVE  AtRest(SetDocument(c, d)) /\ SetDocument(c, d).document = d
<1>1. AtRest(Cancel(c, TRUE)) /\ Cancel(c, TRUE) \in Controller
  BY CancelAtRest, CancelType
<1> QED
  BY <1>1 DEF SetDocument, AtRest, Controller

LEMMA SetEnabledAwaited ==
  ASSUME NEW c \in Controller, NEW on \in BOOLEAN, NEW U \in SUBSET Words,
         NEW l, NEW js, Awaited(c, l, js)
  PROVE  Awaited(SetEnabled(c, on, U), l, js)
<1>1. /\ [c EXCEPT !.enabled = TRUE] \in Controller
      /\ [c EXCEPT !.enabled = FALSE] \in Controller
      /\ Awaited([c EXCEPT !.enabled = TRUE], l, js)
  BY DEF Controller, Awaited
<1>2. c.enabled \in BOOLEAN
  BY DEF Controller
<1>3. Awaited(RequestWords([c EXCEPT !.enabled = TRUE], U), l, js)
  BY <1>1, RequestWordsAwaited
<1>4. Awaited(Cancel([c EXCEPT !.enabled = FALSE], TRUE), l, js)
  BY <1>1, CancelAtRest, AtRestAwaited
<1> QED
  BY <1>2, <1>3, <1>4 DEF SetEnabled

LEMMA StartBatchAwaited ==
  ASSUME TypeOK, NEW c \in Controller, NEW j \in JobIds, CanFlush(c),
         Awaited(c, hl.language, jobs), StartBatch(c, j)
  PROVE  Awaited(ctl', hl.language, jobs')
<1>1. c.current = {}
  BY DEF CanFlush, Awaited
<1>2. jobs'[j] = [state |-> "running", locale |-> hl.language, document |-> c.document,
                  todo |-> c.pending, results |-> [w \in {} |-> TRUE],
                  failed |-> FALSE, wasCancelled |-> FALSE]
  BY DEF StartBatch, TypeOK
<1>3. jobs'[j] # FreeJob
  BY <1>2 DEF FreeJob
<1>4. /\ ctl'.current = {j}
      /\ ctl'.busy
      /\ ctl'.cancelled = j
      /\ ctl'.fired = c.fired \ {j}
      /\ ctl'.pending = {}
      /\ ctl'.inflight = c.pending
      /\ ctl'.document = c.document
  BY <1>1 DEF StartBatch, Controller
<1>5. jobs'[j].todo \cup DOMAIN jobs'[j].results = c.pending
  BY <1>2
<1> QED
  BY <1>2, <1>3, <1>4, <1>5 DEF Awaited

\* The inductive form of the discipline.
Discipline == TypeOK /\ Awaited(ctl, hl.language, jobs)

LEMMA DisciplineMeans ==
  CurrentBatchIsAwaited /\ BusyHasBatch <=> Awaited(ctl, hl.language, jobs)
BY DEF CurrentBatchIsAwaited, BusyHasBatch, BatchWords, Awaited

\* What every handler that repaints keeps.
LEMMA RepaintAwaited ==
  ASSUME NEW h \in Highlighter, NEW c \in Controller, NEW t \in [Blocks -> BlockTexts],
         NEW ign, NEW B \in SUBSET Blocks, Repaint(h, c, t, ign, B),
         Awaited(c, h.language, jobs), UNCHANGED jobs
  PROVE  hl'.language = h.language /\ Awaited(ctl', hl'.language, jobs')
<1>1. hl'.language = h.language
  BY HighlightedType DEF Repaint
<1>2. Awaited(ctl', h.language, jobs)
  BY UnknownType, RequestWordsAwaited DEF Repaint
<1> QED
  BY <1>1, <1>2

LEMMA UserStepAwaited ==
  ASSUME Discipline, UserStep PROVE Awaited(ctl', hl'.language, jobs')
<1> DEFINE Goal == Awaited(ctl', hl'.language, jobs')
<1> USE DEF Discipline, TypeOK
<1>1. ASSUME NEW b \in Blocks, NEW s \in BlockTexts, Edit(b, s) PROVE Goal
  <2>1. text' \in [Blocks -> BlockTexts]
    BY <1>1 DEF Edit
  <2> DEFINE U == Unknown(hl, text', ignored, {b})
  <2>2. U \in SUBSET Words
    BY <2>1, UnknownType
  <2>3. ctl' = OnDocumentChange(RequestWords(ctl, U))
    BY <1>1 DEF Edit
  <2> HIDE DEF U
  <2>4. AtRest(ctl')
    BY <2>2, <2>3, RequestWordsType, RequestWordsAwaited, OnDocumentChangeAtRest
  <2> QED
    BY <2>4, AtRestAwaited
<1>2. ASSUME NEW t \in [Blocks -> BlockTexts], SetTokenizer(t) PROVE Goal
  BY <1>2, RepaintAwaited DEF SetTokenizer
<1>3. CASE Rehighlight
  BY <1>3, RepaintAwaited DEF Rehighlight
<1>4. ASSUME NEW l \in Languages, NEW ign \in SUBSET Ignorable, SetLanguage(l, ign)
      PROVE  Goal
  <2> DEFINE h == ClearedCache([hl EXCEPT !.language = l])
             c == Cancel(ctl, TRUE)
  <2>1. h \in Highlighter /\ c \in Controller /\ Awaited(c, h.language, jobs)
    BY RecheckedType, CancelType, CancelAtRest, AtRestAwaited
  <2>2. Repaint(h, c, text, ign, Blocks) /\ UNCHANGED jobs
    BY <1>4 DEF SetLanguage
  <2> HIDE DEF h, c
  <2> QED
    BY <2>1, <2>2, RepaintAwaited
<1>5. ASSUME NEW on \in BOOLEAN, SetActive(on) PROVE Goal
  <2> DEFINE h == [hl EXCEPT !.enabled = on]
             U == Unknown(h, text, ignored, Blocks)
  <2>1. h \in Highlighter /\ h.language = hl.language /\ U \in SUBSET Words
    BY UnknownType DEF Highlighter
  <2>2. /\ hl' = Highlighted(h, text, ignored, Blocks)
        /\ ctl' = SetEnabled(RequestWords(ctl, U), on, U)
        /\ UNCHANGED jobs
    BY <1>5 DEF SetActive
  <2> HIDE DEF h, U
  <2>3. hl'.language = hl.language
    BY <2>1, <2>2, HighlightedType
  <2> QED
    BY <2>1, <2>2, <2>3, RequestWordsType, RequestWordsAwaited, SetEnabledAwaited
<1>6. CASE Detach
  <2>1. AtRest(ctl')
    BY <1>6, SetDocumentAtRest DEF Detach
  <2> QED
    BY <2>1, AtRestAwaited
<1>7. ASSUME NEW d \in Documents, NEW t \in [Blocks -> BlockTexts],
             NEW ign \in SUBSET Ignorable, Attach(d, t, ign)
      PROVE  Goal
  <2> DEFINE U == Unknown(hl, t, ign, Blocks)
             c == SetDocument(ctl, d)
  <2>1. U \in SUBSET Words /\ hl.enabled \in BOOLEAN
    BY UnknownType DEF Highlighter
  <2>2. ctl' = RequestWords(SetEnabled(c, hl.enabled, U), U)
    BY <1>7 DEF Attach
  <2>3. d # ctl.document
    BY <1>7, NoneAssumption DEF Attach
  <2>4. c \in Controller /\ Awaited(c, hl.language, jobs)
    BY <2>3, SetDocumentType, SetDocumentAtRest, AtRestAwaited
  <2> HIDE DEF U, c
  <2>5. Awaited(ctl', hl.language, jobs)
    BY <2>1, <2>2, <2>4, SetEnabledType, SetEnabledAwaited, RequestWordsAwaited
  <2>6. hl'.language = hl.language /\ UNCHANGED jobs
    BY <1>7, HighlightedType DEF Attach
  <2> QED
    BY <2>5, <2>6
<1>8. ASSUME NEW w \in Learnable, ChangePersonal(w) PROVE Goal
  <2>1. ForgottenWord(hl, w) \in Highlighter /\ ForgottenWord(hl, w).language = hl.language
    BY KeptType DEF ForgottenWord
  <2>2. /\ Repaint(ForgottenWord(hl, w), ctl, text, ignored, BlocksContaining(text, w))
        /\ UNCHANGED jobs
    BY <1>8 DEF ChangePersonal, InvalidateSpelling
  <2> QED
    BY <2>1, <2>2, RepaintAwaited DEF BlocksContaining
<1>9. ASSUME NEW w \in Ignorable, ChangeIgnored(w) PROVE Goal
  <2>1. ForgottenWord(hl, w) \in Highlighter /\ ForgottenWord(hl, w).language = hl.language
    BY KeptType DEF ForgottenWord
  <2>2. /\ Repaint(ForgottenWord(hl, w), ctl, text, ignored', BlocksContaining(text, w))
        /\ UNCHANGED jobs
    BY <1>9 DEF ChangeIgnored, InvalidateSpelling
  <2> QED
    BY <2>1, <2>2, RepaintAwaited DEF BlocksContaining
<1>10. CASE InvalidateAll
  <2>1. ClearedCache(hl) \in Highlighter /\ ClearedCache(hl).language = hl.language
    BY KeptType DEF ClearedCache
  <2> QED
    BY <1>10, <2>1, RepaintAwaited DEF InvalidateAll
<1>11. CASE HostFlush
  <2>1. PICK j \in JobIds : StartBatch(ctl, j)
    BY <1>11 DEF HostFlush
  <2> QED
    BY <1>11, <2>1, StartBatchAwaited DEF HostFlush
<1>12. ASSUME NEW clear \in BOOLEAN, HostCancel(clear) PROVE Goal
  BY <1>12, CancelAtRest, AtRestAwaited DEF HostCancel
<1> QED
  BY <1>1, <1>2, <1>3, <1>4, <1>5, <1>6, <1>7, <1>8, <1>9, <1>10, <1>11, <1>12
     DEF UserStep

LEMMA TimerFiresAwaited ==
  ASSUME Discipline, TimerFires PROVE Awaited(ctl', hl'.language, jobs')
<1> DEFINE c == [ctl EXCEPT !.timer = FALSE]
<1>1. c \in Controller /\ Awaited(c, hl.language, jobs) /\ (CanFlush(ctl) => CanFlush(c))
  BY DEF Discipline, TypeOK, Controller, Awaited, CanFlush
<1>2. hl' = hl
  BY DEF TimerFires
<1>3. ASSUME CanFlush(ctl), NEW j \in JobIds, StartBatch(c, j)
      PROVE  Awaited(ctl', hl'.language, jobs')
  <2> HIDE DEF c
  <2> QED
    BY <1>1, <1>2, <1>3, StartBatchAwaited DEF Discipline
<1>4. CASE ctl' = c /\ UNCHANGED jobs
  BY <1>1, <1>2, <1>4
<1> QED
  BY <1>3, <1>4 DEF TimerFires

\* A worker's step changes its own batch only, and neither what identifies it nor
\* the words it set out to check; its Event is read unset by a current batch.
LEMMA WorkerStepAwaited ==
  ASSUME Discipline, NEW j \in JobIds, WorkerStep(j)
  PROVE  Awaited(ctl', hl'.language, jobs')
<1>1. jobs[j] \in Job /\ ctl' = ctl /\ hl' = hl
  BY RunningIsJob, StateIsNotFree
     DEF WorkerStep, CheckWord, CheckFails, EmitCompleted, Discipline
<1>2. \A i \in JobIds : i # j => jobs'[i] = jobs[i]
  BY DEF WorkerStep, CheckWord, CheckFails, EmitCompleted, Discipline, TypeOK
<1>3. /\ jobs'[j] \in Job
      /\ jobs'[j].locale = jobs[j].locale
      /\ jobs'[j].document = jobs[j].document
      /\ jobs'[j].todo \cup DOMAIN jobs'[j].results = jobs[j].todo \cup DOMAIN jobs[j].results
      /\ jobs'[j].wasCancelled => jobs[j].wasCancelled \/ j \in ctl.fired
  <2>1. CASE CheckWord(j)
    <3>1. PICK w \in jobs[j].todo : jobs' = [jobs EXCEPT ![j] = Answered(jobs[j], w)]
      BY <2>1 DEF CheckWord
    <3>2. jobs'[j] = Answered(jobs[j], w) /\ w \in Words
      BY <1>1, <3>1 DEF Discipline, TypeOK, Job
    <3> DEFINE r == [v \in DOMAIN jobs[j].results \cup {w} |->
                       IF v = w THEN Accepts(jobs[j].locale, w) ELSE jobs[j].results[v]]
    <3>3. Answered(jobs[j], w) = [jobs[j] EXCEPT !.todo = @ \ {w}, !.results = r]
      BY DEF Answered
    <3>4. DOMAIN r = DOMAIN jobs[j].results \cup {w}
      OBVIOUS
    <3> HIDE DEF r
    <3>5. /\ jobs'[j].locale = jobs[j].locale
          /\ jobs'[j].document = jobs[j].document
          /\ jobs'[j].wasCancelled = jobs[j].wasCancelled
          /\ jobs'[j].todo = jobs[j].todo \ {w}
          /\ jobs'[j].results = r
      BY <1>1, <3>2, <3>3 DEF Job
    <3>6. jobs'[j] \in Job
      BY <1>1, <3>2, AnsweredType
    <3> QED
      BY <3>1, <3>4, <3>5, <3>6
  <2>2. CASE CheckFails(j)
    BY <1>1, <2>2 DEF CheckFails, Discipline, TypeOK, Job
  <2>3. CASE EmitCompleted(j)
    <3>1. jobs'[j] = [jobs[j] EXCEPT !.state = "completed", !.wasCancelled = j \in ctl.fired]
      BY <2>3 DEF EmitCompleted, Discipline, TypeOK
    <3>2. /\ jobs'[j].locale = jobs[j].locale
          /\ jobs'[j].document = jobs[j].document
          /\ jobs'[j].todo = jobs[j].todo
          /\ jobs'[j].results = jobs[j].results
          /\ jobs'[j].state = "completed"
          /\ jobs'[j].wasCancelled <=> j \in ctl.fired
      BY <1>1, <3>1 DEF Job
    <3>3. jobs'[j] \in Job
      <4>1. jobs'[j] \in Job \cup {FreeJob}
        BY WorkerStepType DEF Discipline, TypeOK
      <4>2. jobs'[j] # FreeJob
        BY <3>2 DEF FreeJob
      <4> QED
        BY <4>1, <4>2
    <3> QED
      BY <3>2, <3>3
  <2> QED
    BY <2>1, <2>2, <2>3 DEF WorkerStep
<1>4. jobs'[j] # FreeJob
  BY <1>3 DEF Job, FreeJob
<1> QED
  BY <1>1, <1>2, <1>3, <1>4 DEF Awaited, Discipline, TypeOK, Controller

\* The controller discards results exactly when it does not wait for them.
LEMMA ObsoleteIsNotCurrent ==
  ASSUME Discipline, NEW j \in JobIds, Completed(j)
  PROVE  Obsolete(j) <=> j \notin ctl.current
<1>1. jobs[j] \in Job
  BY RunningIsJob, StateIsNotFree DEF Discipline
<1>2. ASSUME j \in ctl.current PROVE ~Obsolete(j)
  <2>1. ctl.document # NoDocument
    BY <1>1, <1>2, NoneAssumption DEF Discipline, Awaited, Job
  <2> QED
    BY <1>2, <2>1 DEF Discipline, Awaited, Obsolete
<1> QED
  BY <1>2 DEF Obsolete

\* Once the results of the awaited batch are taken and its words asked for again
\* or not, the controller is at rest.
LEMMA FinishedAtRest ==
  ASSUME Discipline, NEW j \in ctl.current, NEW U \in SUBSET Words
  PROVE  /\ AtRest(Finished(Taken(Released(ctl, j))))
         /\ AtRest(Finished(RequestWords(Taken(Released(ctl, j)), U)))
<1> DEFINE c == Taken(Released(ctl, j))
<1>1. ctl \in Controller /\ ctl.current = {j}
  BY DEF Discipline, TypeOK, Awaited, Controller
<1>2. /\ c \in Controller
      /\ c.current = {}
      /\ c.inflight = {}
      /\ c.cancelled = NoJob
  BY <1>1 DEF Taken, Released, Controller
<1> HIDE DEF c
<1>3. /\ RequestWords(c, U) \in Controller
      /\ RequestWords(c, U).current = {}
      /\ RequestWords(c, U).inflight = {}
  <2>1. SupersedeActive(c) = c
    BY <1>2 DEF SupersedeActive
  <2> QED
    BY ZenonT(60), <1>2, <2>1, RequestWordsType DEF RequestWords, NewGeneration, Controller
<1>4. \A k \in Controller : k.current = {} /\ k.inflight = {} => AtRest(Finished(k))
  BY DEF Finished, AtRest, Controller
<1> QED
  BY <1>2, <1>3, <1>4 DEF c

LEMMA DeliverAwaited ==
  ASSUME Discipline, NEW j \in JobIds, Deliver(j)
  PROVE  Awaited(ctl', hl'.language, jobs')
<1>1. CASE DiscardResults(j)
  <2>1. j \notin ctl.current /\ ctl' = Released(ctl, j) /\ hl' = hl
    BY <1>1, ObsoleteIsNotCurrent DEF DiscardResults
  <2>2. \A i \in ctl.current : jobs'[i] = jobs[i]
    BY <1>1, <2>1 DEF DiscardResults, Discipline, TypeOK, Controller
  <2>3. /\ ctl'.current = ctl.current
        /\ ctl'.fired \subseteq ctl.fired
        /\ ctl'.busy = ctl.busy
        /\ ctl'.cancelled = ctl.cancelled
        /\ ctl'.document = ctl.document
        /\ ctl'.inflight = ctl.inflight
        /\ ctl'.pending = ctl.pending
    BY <2>1 DEF Released, Discipline, TypeOK, Controller
  <2> QED
    BY <2>1, <2>2, <2>3 DEF Awaited, Discipline
<1>2. CASE JobFailed(j)
  <2>1. j \in ctl.current
    BY <1>2, ObsoleteIsNotCurrent DEF JobFailed
  <2> QED
    BY <1>2, <2>1, FinishedAtRest, AtRestAwaited DEF JobFailed
<1>3. CASE ApplyResults(j)
  <2> DEFINE U == Unknown(AllPut(hl, jobs[j].locale, jobs[j].results), text, ignored, Blocks)
  <2>1. j \in ctl.current
    BY <1>3, ObsoleteIsNotCurrent DEF ApplyResults
  <2>2. U \in SUBSET Words
    BY UnknownType DEF Discipline, TypeOK
  <2>3. ctl' = Finished(RequestWords(Taken(Released(ctl, j)), U))
    BY <1>3 DEF ApplyResults
  <2> HIDE DEF U
  <2> QED
    BY <2>1, <2>2, <2>3, FinishedAtRest, AtRestAwaited
<1> QED
  BY <1>1, <1>2, <1>3 DEF Deliver

LEMMA InitAwaited == Init => Awaited(ctl, hl.language, jobs)
<1> SUFFICES ASSUME Init PROVE Awaited(ctl, hl.language, jobs)
  OBVIOUS
<1>1. PICK d \in Documents :
        ctl = RequestWords([enabled |-> TRUE, document |-> d, pending |-> {}, inflight |-> {},
                            timer |-> FALSE, busy |-> FALSE, cancelled |-> NoJob,
                            fired |-> {}, current |-> {}], Unknown(hl, text, ignored, Blocks))
  BY DEF Init
<1> DEFINE c == [enabled |-> TRUE, document |-> d, pending |-> {}, inflight |-> {},
                 timer |-> FALSE, busy |-> FALSE, cancelled |-> NoJob,
                 fired |-> {}, current |-> {}]
<1>2. c \in Controller /\ AtRest(c) /\ text \in [Blocks -> BlockTexts]
  BY DEF Controller, AtRest, Init
<1> HIDE DEF c
<1> QED
  BY <1>1, <1>2, UnknownType, AtRestAwaited, RequestWordsAwaited DEF c

LEMMA DisciplineInductive == Discipline /\ [Next]_vars => Discipline'
<1> SUFFICES ASSUME Discipline, [Next]_vars PROVE Discipline'
  OBVIOUS
<1>1. TypeOK'
  BY TypeInductive DEF Discipline
<1>2. Awaited(ctl', hl'.language, jobs')
  <2>1. ASSUME NEW j \in JobIds, WorkerStep(j) \/ Deliver(j)
        PROVE  Awaited(ctl', hl'.language, jobs')
    BY <2>1, WorkerStepAwaited, DeliverAwaited
  <2>2. CASE UNCHANGED vars
    BY <2>2 DEF vars, Discipline
  <2> QED
    BY <2>1, <2>2, UserStepAwaited, TimerFiresAwaited DEF Next
<1> QED
  BY <1>1, <1>2 DEF Discipline

LEMMA AlwaysDisciplined == Spec => []Discipline
<1>1. Init => Discipline
  BY InitType, InitAwaited DEF Discipline
<1>2. Discipline /\ [Next]_vars => Discipline'
  BY DisciplineInductive
<1> QED
  BY <1>1, <1>2, PTL DEF Spec

\* However typing, language changes, switching, attaching, host calls, workers
\* and deliveries interleave, and however many batches are alive at once, a batch
\* of the present generation is the one awaited.
THEOREM GenerationDiscipline == Spec => []CurrentBatchIsAwaited
<1>1. Discipline => CurrentBatchIsAwaited
  BY DisciplineMeans DEF Discipline
<1> QED
  BY <1>1, AlwaysDisciplined, PTL

\* A busy controller has a batch of the present generation alive, whose delivery
\* will report it idle, and an idle one has no word in flight.
THEOREM BusyControllersAwait == Spec => []BusyHasBatch
<1>1. Discipline => BusyHasBatch
  BY DisciplineMeans DEF Discipline
<1> QED
  BY <1>1, AlwaysDisciplined, PTL

-----------------------------------------------------------------------------
(* The words on their way to a status.                                      *)

\* The words asked for and not yet answered.
Asked(c) == c.pending \cup c.inflight

\* Words wait for the timer.
Scheduled(c) == c.pending # {} => c.timer

\* Only a controller that may flush has words.
Listening(c) == Asked(c) # {} => c.enabled /\ c.document # NoDocument

\* d is c after a handler that drops no word and switches nothing.
Heeds(c, d) ==
  /\ d.enabled = c.enabled
  /\ d.document = c.document
  /\ Asked(c) \subseteq Asked(d)
  /\ Scheduled(c) => Scheduled(d)
  /\ Listening(c) => Listening(d)

LEMMA SupersedeActiveHeeds ==
  ASSUME NEW c \in Controller
  PROVE  /\ SupersedeActive(c).enabled = c.enabled
         /\ SupersedeActive(c).document = c.document
         /\ Asked(SupersedeActive(c)) = Asked(c)
         /\ SupersedeActive(c).timer = c.timer
         /\ SupersedeActive(c) \in Controller
BY SupersedeActiveType DEF SupersedeActive, Controller, Asked

LEMMA RequestWordsHeeds ==
  ASSUME NEW c \in Controller, NEW W \in SUBSET Words
  PROVE  /\ Heeds(c, RequestWords(c, W))
         /\ c.enabled /\ c.document # NoDocument => W \subseteq Asked(RequestWords(c, W))
         /\ RequestWords(c, W) \in Controller
<1> DEFINE s == SupersedeActive(c)
<1>1. /\ s.enabled = c.enabled
      /\ s.document = c.document
      /\ Asked(s) = Asked(c)
      /\ s \in Controller
  BY SupersedeActiveHeeds
<1>2. RequestWords(c, W) \in Controller
  BY RequestWordsType
<1>3. CASE W # {} /\ c.enabled /\ c.document # NoDocument
  <2> DEFINE d == NewGeneration([s EXCEPT !.pending = @ \cup W, !.timer = TRUE])
  <2>1. RequestWords(c, W) = d
    BY <1>3 DEF RequestWords
  <2> HIDE DEF s
  <2>2. /\ d.enabled = s.enabled
        /\ d.document = s.document
        /\ d.timer
        /\ Asked(d) = Asked(s) \cup W
    BY <1>1 DEF NewGeneration, Controller, Asked
  <2> HIDE DEF d
  <2> QED
    BY <1>1, <1>2, <1>3, <2>1, <2>2 DEF Heeds, Scheduled, Listening
<1>4. CASE ~(W # {} /\ c.enabled /\ c.document # NoDocument)
  BY <1>2, <1>4 DEF RequestWords, Heeds
<1> QED
  BY <1>3, <1>4

LEMMA OnDocumentChangeHeeds ==
  ASSUME NEW c \in Controller
  PROVE  Heeds(c, OnDocumentChange(c))
<1> DEFINE s == SupersedeActive(c)
           d == NewGeneration([s EXCEPT !.timer = @ \/ s.pending # {}])
<1>1. /\ s.enabled = c.enabled
      /\ s.document = c.document
      /\ Asked(s) = Asked(c)
      /\ s \in Controller
  BY SupersedeActiveHeeds
<1>2. OnDocumentChange(c) = d
  BY DEF OnDocumentChange
<1> HIDE DEF s
<1>3. /\ d.enabled = s.enabled
      /\ d.document = s.document
      /\ d.timer <=> (s.timer \/ s.pending # {})
      /\ d.pending = s.pending
      /\ d.inflight = s.inflight
  BY <1>1 DEF NewGeneration, Controller
<1> HIDE DEF d
<1> QED
  BY <1>1, <1>2, <1>3 DEF Heeds, Scheduled, Listening, Asked

LEMMA HeedsTransitive ==
  ASSUME NEW c, NEW d, NEW e, Heeds(c, d), Heeds(d, e) PROVE Heeds(c, e)
BY DEF Heeds

LEMMA CancelForgets ==
  ASSUME NEW c \in Controller, NEW clear \in BOOLEAN
  PROVE  /\ Cancel(c, clear).enabled = c.enabled
         /\ Cancel(c, clear).document = c.document
         /\ Cancel(c, clear).inflight = {}
         /\ Cancel(c, clear).pending = IF clear THEN {} ELSE c.pending
         /\ Cancel(c, clear) \in Controller
<1> DEFINE pending == IF clear THEN {} ELSE c.pending
           fired == IF c.cancelled = NoJob THEN c.fired ELSE c.fired \cup {c.cancelled}
<1>1. Cancel(c, clear) = [[c EXCEPT !.timer = FALSE, !.fired = fired, !.inflight = {},
                                    !.pending = pending, !.busy = FALSE]
                          EXCEPT !.current = {}]
  BY DEF Cancel, NewGeneration
<1> HIDE DEF pending, fired
<1>2. /\ Cancel(c, clear).enabled = c.enabled
      /\ Cancel(c, clear).document = c.document
      /\ Cancel(c, clear).inflight = {}
      /\ Cancel(c, clear).pending = pending
  BY <1>1 DEF Controller
<1> QED
  BY <1>2, CancelType DEF pending

\* Switching off calls everything off; switching on drops nothing.
LEMMA SetEnabledHeeds ==
  ASSUME NEW c \in Controller, NEW on \in BOOLEAN, NEW U \in SUBSET Words
  PROVE  /\ SetEnabled(c, on, U) \in Controller
         /\ SetEnabled(c, on, U).enabled = on
         /\ SetEnabled(c, on, U).document = c.document
         /\ Scheduled(c) => Scheduled(SetEnabled(c, on, U))
         /\ Listening(c) => Listening(SetEnabled(c, on, U))
         /\ on => Asked(c) \subseteq Asked(SetEnabled(c, on, U))
<1>1. SetEnabled(c, on, U) \in Controller /\ c.enabled \in BOOLEAN
  BY SetEnabledType DEF Controller
<1>2. CASE on = c.enabled
  BY <1>1, <1>2 DEF SetEnabled
<1>3. CASE on # c.enabled /\ on
  <2> DEFINE d == [c EXCEPT !.enabled = TRUE]
  <2>1. /\ d \in Controller
        /\ d.enabled
        /\ d.document = c.document
        /\ d.timer = c.timer
        /\ d.pending = c.pending
        /\ d.inflight = c.inflight
    BY DEF Controller
  <2>2. SetEnabled(c, on, U) = RequestWords(d, U)
    BY <1>3 DEF SetEnabled
  <2> HIDE DEF d
  <2>3. Heeds(d, RequestWords(d, U)) /\ d.enabled = TRUE
    BY <2>1, RequestWordsHeeds DEF Controller
  <2> QED
    BY <1>1, <1>3, <2>1, <2>2, <2>3 DEF Heeds, Scheduled, Listening, Asked
<1>4. CASE on # c.enabled /\ ~on
  <2> DEFINE d == [c EXCEPT !.enabled = FALSE]
  <2>1. /\ d \in Controller
        /\ d.enabled = FALSE
        /\ d.document = c.document
    BY DEF Controller
  <2>2. SetEnabled(c, on, U) = Cancel(d, TRUE)
    BY <1>4 DEF SetEnabled
  <2> HIDE DEF d
  <2> QED
    BY <1>1, <1>4, <2>1, <2>2, CancelForgets DEF Scheduled, Listening, Asked
<1> QED
  BY <1>1, <1>2, <1>3, <1>4

\* The inductive invariant behind the two action properties below.
Heedful == Discipline /\ Listening(ctl)

\* What a step may not do to the words pending, and to those on their way.
PendingKept == Scheduled(ctl) => Scheduled(ctl') \/ HostCancel(FALSE)

WordsKept ==
  \A w \in Words :
    Tracked(ctl, w) /\ ~Tracked(ctl', w) =>
      \/ <<hl'.language, w>> \in DOMAIN hl'.statuses
      \/ \A b \in Blocks : w \notin Seen(text', ignored', b)
      \/ hl'.language # hl.language
      \/ ~hl'.enabled
      \/ \E j \in JobIds : JobFailed(j)
      \/ \E clear \in BOOLEAN : HostCancel(clear)

HeedfulStep == Listening(ctl') /\ PendingKept /\ WordsKept

LEMMA HeedsIsHeedful ==
  ASSUME Heedful, Heeds(ctl, ctl') PROVE HeedfulStep
BY DEF Heedful, Heeds, HeedfulStep, PendingKept, WordsKept, Tracked, Asked

LEMMA NothingAskedIsHeedful ==
  ASSUME Heedful, Asked(ctl') = {},
         Asked(ctl) = {} \/ hl'.language # hl.language \/ ~hl'.enabled
           \/ \A b \in Blocks : Seen(text', ignored', b) = {}
           \/ \E j \in JobIds : JobFailed(j)
  PROVE  HeedfulStep
BY DEF Heedful, HeedfulStep, PendingKept, WordsKept, Tracked, Asked, Listening, Scheduled

LEMMA RepaintHeeds ==
  ASSUME Heedful, NEW h, NEW t \in [Blocks -> BlockTexts], NEW ign,
         NEW B \in SUBSET Blocks, Repaint(h, ctl, t, ign, B)
  PROVE  HeedfulStep
<1>1. Unknown(h, t, ign, B) \in SUBSET Words
  BY UnknownType
<1>2. Heeds(ctl, ctl')
  BY <1>1, RequestWordsHeeds DEF Repaint, Heedful, Discipline, TypeOK
<1> QED
  BY <1>2, HeedsIsHeedful

LEMMA StartBatchHeeds ==
  ASSUME Heedful, NEW c \in Controller, NEW j \in JobIds, CanFlush(c), StartBatch(c, j),
         c.pending = ctl.pending, c.inflight = ctl.inflight, c.busy = ctl.busy,
         c.current = ctl.current, c.enabled = ctl.enabled, c.document = ctl.document
  PROVE  HeedfulStep
<1>1. ctl.inflight = {}
  BY DEF Heedful, Discipline, Awaited, CanFlush
<1>2. /\ ctl'.pending = {}
      /\ ctl'.inflight = c.pending
      /\ ctl'.enabled = c.enabled
      /\ ctl'.document = c.document
  BY DEF StartBatch, Controller
<1>3. Heeds(ctl, ctl')
  BY <1>1, <1>2 DEF Heeds, Asked, Scheduled, Listening
<1> QED
  BY <1>3, HeedsIsHeedful

LEMMA UserStepHeeds ==
  ASSUME Heedful, UserStep PROVE HeedfulStep
<1> USE DEF Heedful, Discipline, TypeOK
<1>1. ASSUME NEW b \in Blocks, NEW s \in BlockTexts, Edit(b, s) PROVE HeedfulStep
  <2> DEFINE U == Unknown(hl, text', ignored, {b})
  <2>1. U \in SUBSET Words /\ ctl' = OnDocumentChange(RequestWords(ctl, U))
    BY <1>1, UnknownType DEF Edit
  <2> HIDE DEF U
  <2>2. Heeds(ctl, ctl')
    BY <2>1, RequestWordsHeeds, OnDocumentChangeHeeds, HeedsTransitive
  <2> QED
    BY <2>2, HeedsIsHeedful
<1>2. ASSUME NEW t \in [Blocks -> BlockTexts], SetTokenizer(t) PROVE HeedfulStep
  BY <1>2, RepaintHeeds DEF SetTokenizer
<1>3. CASE Rehighlight
  BY <1>3, RepaintHeeds DEF Rehighlight
<1>4. ASSUME NEW l \in Languages, NEW ign \in SUBSET Ignorable, SetLanguage(l, ign)
      PROVE  HeedfulStep
  <2> DEFINE h == ClearedCache([hl EXCEPT !.language = l])
             c == Cancel(ctl, TRUE)
             U == Unknown(h, text, ign, Blocks)
  <2>1. /\ hl' = Highlighted(h, text, ign, Blocks)
        /\ ctl' = RequestWords(c, U)
        /\ l # hl.language
    BY <1>4 DEF SetLanguage, Repaint
  <2>2. h \in Highlighter /\ h.language = l /\ U \in SUBSET Words
    <3>1. [hl EXCEPT !.language = l] \in Highlighter
      BY DEF Highlighter
    <3> QED
      BY <3>1, KeptType, UnknownType DEF ClearedCache, Highlighter
  <2>3. /\ c \in Controller
        /\ c.pending = {} /\ c.inflight = {}
    BY CancelForgets
  <2> HIDE DEF h, c, U
  <2>4. hl'.language # hl.language
    BY <2>1, <2>2, HighlightedType
  <2>5. Heeds(c, ctl') /\ Scheduled(c) /\ Listening(c)
    BY <2>1, <2>2, <2>3, RequestWordsHeeds DEF Scheduled, Listening, Asked
  <2> QED
    BY <2>4, <2>5 DEF Heeds, HeedfulStep, PendingKept, WordsKept
<1>5. ASSUME NEW on \in BOOLEAN, SetActive(on) PROVE HeedfulStep
  <2> DEFINE h == [hl EXCEPT !.enabled = on]
             U == Unknown(h, text, ignored, Blocks)
             c == RequestWords(ctl, U)
  <2>1. /\ hl' = Highlighted(h, text, ignored, Blocks)
        /\ ctl' = SetEnabled(c, on, U)
    BY <1>5 DEF SetActive
  <2>2. h \in Highlighter /\ h.enabled = on /\ U \in SUBSET Words
    BY UnknownType DEF Highlighter
  <2> HIDE DEF h, U
  <2>3. Heeds(ctl, c) /\ c \in Controller
    BY <2>2, RequestWordsHeeds
  <2> HIDE DEF c
  <2>4. /\ Scheduled(c) => Scheduled(ctl')
        /\ Listening(c) => Listening(ctl')
        /\ on => Asked(c) \subseteq Asked(ctl')
    BY <2>1, <2>2, <2>3, SetEnabledHeeds
  <2>5. hl'.enabled = on
    BY <2>1, <2>2, HighlightedType
  <2> QED
    BY <2>3, <2>4, <2>5 DEF Heeds, HeedfulStep, PendingKept, WordsKept, Tracked, Asked
<1>6. CASE Detach
  <2>1. /\ ctl' = [Cancel(ctl, TRUE) EXCEPT !.document = NoDocument]
        /\ text' = [b \in Blocks |-> <<>>]
    BY <1>6 DEF Detach, SetDocument
  <2>2. Asked(ctl') = {}
    BY <2>1, CancelForgets DEF Asked, Controller
  <2>3. \A b \in Blocks : Seen(text', ignored', b) = {}
    BY <2>1 DEF Seen, Range
  <2> QED
    BY <2>2, <2>3, NothingAskedIsHeedful
<1>7. ASSUME NEW d \in Documents, NEW t \in [Blocks -> BlockTexts],
             NEW ign \in SUBSET Ignorable, Attach(d, t, ign)
      PROVE  HeedfulStep
  <2> DEFINE U == Unknown(hl, t, ign, Blocks)
             c == SetDocument(ctl, d)
             e == SetEnabled(c, hl.enabled, U)
  <2>1. U \in SUBSET Words /\ hl.enabled \in BOOLEAN
    BY UnknownType DEF Highlighter
  <2>2. ctl' = RequestWords(e, U)
    BY <1>7 DEF Attach
  <2>3. c = [Cancel(ctl, TRUE) EXCEPT !.document = d]
    BY <1>7, NoneAssumption DEF Attach, SetDocument
  <2>4. c \in Controller /\ c.pending = {} /\ c.inflight = {}
    BY <2>3, CancelForgets, SetDocumentType DEF Controller
  <2>5. Asked(ctl) = {}
    BY <1>7 DEF Attach, Listening
  <2> HIDE DEF c, U
  <2>6. Scheduled(e) /\ Listening(e) /\ e \in Controller
    BY <2>1, <2>4, SetEnabledHeeds DEF Scheduled, Listening, Asked
  <2> HIDE DEF e
  <2>7. Heeds(e, ctl')
    BY <2>1, <2>2, <2>6, RequestWordsHeeds
  <2> QED
    BY <2>5, <2>6, <2>7 DEF Heeds, HeedfulStep, PendingKept, WordsKept, Tracked, Asked
<1>8. ASSUME NEW w \in Learnable, ChangePersonal(w) PROVE HeedfulStep
  BY <1>8, RepaintHeeds DEF ChangePersonal, InvalidateSpelling, BlocksContaining
<1>9. ASSUME NEW w \in Ignorable, ChangeIgnored(w) PROVE HeedfulStep
  BY <1>9, RepaintHeeds DEF ChangeIgnored, InvalidateSpelling, BlocksContaining
<1>10. CASE InvalidateAll
  BY <1>10, RepaintHeeds DEF InvalidateAll
<1>11. CASE HostFlush
  BY <1>11, StartBatchHeeds DEF HostFlush
<1>12. ASSUME NEW clear \in BOOLEAN, HostCancel(clear) PROVE HeedfulStep
  <2>1. ctl' = Cancel(ctl, clear)
    BY <1>12 DEF HostCancel
  <2>2. Listening(ctl')
    BY <2>1, CancelForgets DEF Listening, Asked
  <2>3. PendingKept
    <3>1. CASE clear
      BY <2>1, <3>1, CancelForgets DEF PendingKept, Scheduled
    <3>2. CASE clear = FALSE
      BY <1>12, <3>2 DEF PendingKept
    <3> QED
      BY <3>1, <3>2
  <2> QED
    BY <1>12, <2>2, <2>3 DEF HeedfulStep, WordsKept
<1> QED
  BY <1>1, <1>2, <1>3, <1>4, <1>5, <1>6, <1>7, <1>8, <1>9, <1>10, <1>11, <1>12
     DEF UserStep

LEMMA TimerFiresHeeds ==
  ASSUME Heedful, TimerFires PROVE HeedfulStep
<1> DEFINE c == [ctl EXCEPT !.timer = FALSE]
<1>1. /\ c \in Controller
      /\ c.pending = ctl.pending /\ c.inflight = ctl.inflight /\ c.busy = ctl.busy
      /\ c.current = ctl.current /\ c.enabled = ctl.enabled /\ c.document = ctl.document
  BY DEF Heedful, Discipline, TypeOK, Controller
<1>2. ASSUME CanFlush(ctl), NEW j \in JobIds, StartBatch(c, j) PROVE HeedfulStep
  <2>1. CanFlush(c)
    BY <1>1, <1>2 DEF CanFlush
  <2> HIDE DEF c
  <2> QED
    BY <1>1, <1>2, <2>1, StartBatchHeeds
\* The timer of a controller that may not flush: Listening tells it has no word.
<1>3. CASE ~CanFlush(ctl) /\ ctl' = c
  <2>1. ctl.pending = {}
    BY <1>3 DEF CanFlush, Heedful, Listening, Asked
  <2> HIDE DEF c
  <2>2. Heeds(ctl, ctl')
    BY <1>1, <1>3, <2>1 DEF Heeds, Asked, Scheduled, Listening
  <2> QED
    BY <2>2, HeedsIsHeedful
<1> QED
  BY <1>2, <1>3 DEF TimerFires

\* The repaint that applies the results asks again for a word that was evicted, or
\* that the batch left unchecked, as long as a block shows it.
LEMMA DeliverHeeds ==
  ASSUME Heedful, NEW j \in JobIds, Deliver(j) PROVE HeedfulStep
<1> USE DEF Heedful, Discipline, TypeOK
<1> DEFINE c == Taken(Released(ctl, j))
<1>1. /\ c \in Controller
      /\ c.enabled = ctl.enabled
      /\ c.document = ctl.document
      /\ c.pending = ctl.pending
      /\ c.inflight = {}
  <2>1. Released(ctl, j) \in Controller
    BY ReleasedType
  <2> QED
    BY <2>1 DEF Taken, Released, Controller
<1> HIDE DEF c
<1>2. ASSUME NEW d \in Controller
      PROVE  /\ Finished(d).pending = d.pending
             /\ Finished(d).inflight = d.inflight
             /\ Finished(d).enabled = d.enabled
             /\ Finished(d).document = d.document
             /\ Scheduled(Finished(d))
  BY DEF Finished, Controller, Scheduled
<1>3. CASE DiscardResults(j)
  <2>1. ctl' = Released(ctl, j)
    BY <1>3 DEF DiscardResults
  <2>2. /\ ctl'.enabled = ctl.enabled
        /\ ctl'.document = ctl.document
        /\ ctl'.timer = ctl.timer
        /\ ctl'.pending = ctl.pending
        /\ ctl'.inflight = ctl.inflight
    BY <2>1 DEF Released, Controller
  <2>3. Heeds(ctl, ctl')
    BY <2>2 DEF Heeds, Asked, Scheduled, Listening
  <2> QED
    BY <2>3, HeedsIsHeedful
<1>4. CASE JobFailed(j)
  <2>1. ctl' = Finished(c)
    BY <1>4 DEF JobFailed, c
  <2>2. Listening(ctl') /\ Scheduled(ctl')
    BY <1>1, <1>2, <2>1 DEF Listening, Asked
  <2> QED
    BY <1>4, <2>2 DEF HeedfulStep, PendingKept, WordsKept
<1>5. CASE ApplyResults(j)
  <2> DEFINE h == AllPut(hl, jobs[j].locale, jobs[j].results)
             U == Unknown(h, text, ignored, Blocks)
             d == RequestWords(c, U)
  <2>1. jobs[j] \in Job
    BY <1>5, RunningIsJob, StateIsNotFree DEF ApplyResults
  <2>2. h \in Highlighter /\ U \in SUBSET Words
    BY <2>1, AllPutType, UnknownType DEF Job
  <2>3. /\ hl' = Highlighted(h, text, ignored, Blocks)
        /\ ctl' = Finished(d)
        /\ text' = text /\ ignored' = ignored
    BY <1>5 DEF ApplyResults, c
  <2>4. \A w : \A b \in Blocks :
          h.enabled /\ w \in Seen(text, ignored, b) /\ <<h.language, w>> \notin DOMAIN h.statuses
            => w \in U
    BY DEF Unknown, Known
  <2> HIDE DEF h, U
  <2>5. /\ hl'.language = h.language
        /\ hl'.enabled = h.enabled
        /\ hl'.statuses = h.statuses
    BY <2>2, <2>3, HighlightedType
  <2>6. /\ Heeds(c, d) /\ d \in Controller
        /\ c.enabled /\ c.document # NoDocument => U \subseteq Asked(d)
    BY <1>1, <2>2, RequestWordsHeeds
  <2> HIDE DEF d
  <2>7. Asked(ctl') = Asked(d) /\ Scheduled(ctl') /\ (Listening(d) => Listening(ctl'))
    BY <1>2, <2>3, <2>6 DEF Asked, Listening
  <2>8. Listening(c)
    BY <1>1 DEF Listening, Asked
  <2>9. WordsKept
    <3> SUFFICES ASSUME NEW w \in Words, Tracked(ctl, w), w \notin Asked(ctl'),
                        h.enabled, NEW b \in Blocks, w \in Seen(text, ignored, b)
                 PROVE  <<h.language, w>> \in DOMAIN h.statuses
      BY <2>3, <2>5 DEF WordsKept, Tracked, Asked
    <3>1. c.enabled /\ c.document # NoDocument
      BY <1>1 DEF Tracked, Listening, Asked
    <3> QED
      BY <2>4, <2>6, <2>7, <3>1
  <2> QED
    BY <2>6, <2>7, <2>8, <2>9 DEF Heeds, HeedfulStep, PendingKept
<1> QED
  BY <1>3, <1>4, <1>5 DEF Deliver

LEMMA InitHeeds == Init => Listening(ctl)
<1> SUFFICES ASSUME Init PROVE Listening(ctl)
  OBVIOUS
<1>1. PICK d \in Documents :
        ctl = RequestWords([enabled |-> TRUE, document |-> d, pending |-> {}, inflight |-> {},
                            timer |-> FALSE, busy |-> FALSE, cancelled |-> NoJob,
                            fired |-> {}, current |-> {}], Unknown(hl, text, ignored, Blocks))
  BY DEF Init
<1> DEFINE c == [enabled |-> TRUE, document |-> d, pending |-> {}, inflight |-> {},
                 timer |-> FALSE, busy |-> FALSE, cancelled |-> NoJob,
                 fired |-> {}, current |-> {}]
<1>2. c \in Controller /\ Listening(c) /\ text \in [Blocks -> BlockTexts]
  BY DEF Controller, Listening, Asked, Init
<1> HIDE DEF c
<1>3. Heeds(c, ctl)
  BY <1>1, <1>2, UnknownType, RequestWordsHeeds DEF c
<1> QED
  BY <1>2, <1>3 DEF Heeds

LEMMA HeedfulInductive ==
  Heedful /\ [Next]_vars => Heedful' /\ [HeedfulStep]_vars
<1> SUFFICES ASSUME Heedful, [Next]_vars PROVE Heedful' /\ [HeedfulStep]_vars
  OBVIOUS
<1>1. Discipline'
  BY DisciplineInductive DEF Heedful
<1>2. ASSUME NEW j \in JobIds, WorkerStep(j) PROVE HeedfulStep
  <2>1. ctl' = ctl
    BY <1>2 DEF WorkerStep, CheckWord, CheckFails, EmitCompleted
  <2>2. Heeds(ctl, ctl')
    BY <2>1 DEF Heeds
  <2> QED
    BY <2>2, HeedsIsHeedful
<1>3. CASE Next
  <2>1. HeedfulStep
    BY <1>2, <1>3, UserStepHeeds, TimerFiresHeeds, DeliverHeeds DEF Next
  <2> QED
    BY <1>1, <2>1 DEF HeedfulStep, Heedful
<1>4. CASE UNCHANGED vars
  BY <1>1, <1>4 DEF vars, Heedful, Listening, Asked
<1> QED
  BY <1>3, <1>4

LEMMA InitHeedful == Init => Heedful
BY InitType, InitAwaited, InitHeeds DEF Heedful, Discipline

\* No handler leaves words pending with the timer stopped: what is superseded,
\* requested or found again while a batch is delivered is scheduled, whatever the
\* interleaving; only cancel(clear_pending=False) of the host leaves it to luck.
THEOREM PendingWordsAreScheduled == Spec => PendingStaysScheduled
<1> DEFINE Body == (ctl.pending # {} => ctl.timer)
                     => \/ ctl'.pending # {} => ctl'.timer
                        \/ HostCancel(FALSE)
<1>1. Heedful /\ [Next]_vars => Heedful' /\ [Body]_vars
  BY HeedfulInductive DEF HeedfulStep, PendingKept, Scheduled
<1> QED
  BY <1>1, InitHeedful, PTL DEF Spec, PendingStaysScheduled

\* However batches are superseded, discarded or delivered, and whatever the cache
\* evicts, a word on its way to a status stays pending or in flight until the
\* highlighter knows it, unless no block shows it, checking was called off or the
\* batch failed.
THEOREM TrackedWordsAreKept == Spec => NoWordDropped
<1>1. Heedful /\ [Next]_vars => Heedful' /\ [WordsKept]_vars
  BY HeedfulInductive DEF HeedfulStep
<1> QED
  BY <1>1, InitHeedful, PTL DEF Spec, NoWordDropped, WordsKept

-----------------------------------------------------------------------------
(* The underlines are honest.                                              *)

\* What the service answers while its personal words are p.
Verdict(p, l, w) == w \in p[l] \cup Engine[l]

TrueStatuses(h, p) ==
  \A k \in DOMAIN h.statuses : h.statuses[k] <=> Verdict(p, k[1], k[2])

\* The results gathered so far by a batch that may still be applied.
TrueResults(c, js, p) ==
  \A j \in c.current : \A w \in DOMAIN js[j].results :
    js[j].results[w] <=> Verdict(p, js[j].locale, w)

Deserved(l, t, ign, p, b) == {w \in Seen(t, ign, b) : ~Verdict(p, l, w)}

Painted(h, t, ign, p) ==
  \A b \in Blocks : h.formats[b] \subseteq Deserved(h.language, t, ign, p, b)

\* A disabled highlighter leaves nothing to check; an enabled one is never
\* without a controller, so that the words it reports do supersede the batch.
Switched(h, c) ==
  /\ h.enabled => c.enabled
  /\ ~h.enabled => c.pending = {} /\ c.current = {}

\* Without a document there is no text.
Attached(c, t) == c.document = NoDocument => \A b \in Blocks : t[b] = <<>>

View(h, c, t, ign, p, js) ==
  /\ TrueStatuses(h, p)
  /\ TrueResults(c, js, p)
  /\ Painted(h, t, ign, p)
  /\ Switched(h, c)
  /\ Attached(c, t)

\* The inductive invariant.
Honest == Discipline /\ View(hl, ctl, text, ignored, personal, jobs)

LEMMA HonestMeans ==
  View(hl, ctl, text, ignored, personal, jobs) => StatusesTrue /\ NoFalseUnderline
BY DEF View, StatusesTrue, NoFalseUnderline, TrueStatuses, Painted, Verdict, Accepts,
       Misspelled, Deserved

-----------------------------------------------------------------------------
(* The highlighter paints what its statuses say; the controller forgets     *)
(* batches and never recalls one.                                           *)

LEMMA HighlightedHonest ==
  ASSUME NEW h \in Highlighter, NEW t \in [Blocks -> BlockTexts], NEW ign, NEW p,
         NEW B \in SUBSET Blocks, TrueStatuses(h, p),
         \A b \in Blocks \ B : h.formats[b] \subseteq Deserved(h.language, t, ign, p, b)
  PROVE  /\ TrueStatuses(Highlighted(h, t, ign, B), p)
         /\ Painted(Highlighted(h, t, ign, B), t, ign, p)
<1>1. PICK g : g = Highlighted(h, t, ign, B)
  OBVIOUS
<1>2. /\ g.statuses = h.statuses
      /\ g.language = h.language
      /\ \A b \in Blocks : \A w : w \in g.formats[b] <=>
           IF b \notin B THEN w \in h.formats[b]
           ELSE /\ h.enabled
                /\ w \in Seen(t, ign, b) /\ Known(h, w)
                /\ ~h.statuses[<<h.language, w>>]
  BY <1>1, HighlightedType
<1>3. \A b \in B : g.formats[b] \subseteq Deserved(h.language, t, ign, p, b)
  <2> SUFFICES ASSUME NEW b \in B, NEW w \in g.formats[b]
               PROVE  w \in Deserved(h.language, t, ign, p, b)
    OBVIOUS
  <2>1. w \in Seen(t, ign, b) /\ Known(h, w) /\ ~h.statuses[<<h.language, w>>]
    BY <1>2
  <2>2. ~Verdict(p, h.language, w)
    BY <2>1 DEF Known, TrueStatuses
  <2> QED
    BY <2>1, <2>2 DEF Deserved
<1>4. TrueStatuses(g, p) /\ Painted(g, t, ign, p)
  BY <1>2, <1>3 DEF TrueStatuses, Painted
<1> QED
  BY <1>4, <1>1

LEMMA RequestWordsKeeps ==
  ASSUME NEW c \in Controller, NEW W \in SUBSET Words
  PROVE  /\ RequestWords(c, W).enabled = c.enabled
         /\ RequestWords(c, W).document = c.document
         /\ RequestWords(c, W).current \subseteq c.current
         /\ W = {} => RequestWords(c, W) = c
<1>1. /\ SupersedeActive(c) \in Controller
      /\ SupersedeActive(c).enabled = c.enabled
      /\ SupersedeActive(c).document = c.document
  BY SupersedeActiveType DEF SupersedeActive, Controller
<1> QED
  BY <1>1 DEF RequestWords, NewGeneration, Controller

LEMMA CancelKeeps ==
  ASSUME NEW c \in Controller, NEW clear \in BOOLEAN
  PROVE  /\ Cancel(c, clear).enabled = c.enabled
         /\ Cancel(c, clear).document = c.document
         /\ Cancel(c, clear).current = {}
         /\ Cancel(c, clear).pending = IF clear THEN {} ELSE c.pending
BY DEF Cancel, NewGeneration, Controller

LEMMA SetEnabledKeeps ==
  ASSUME NEW c \in Controller, NEW on \in BOOLEAN, NEW U \in SUBSET Words
  PROVE  /\ SetEnabled(c, on, U).enabled = on
         /\ SetEnabled(c, on, U).document = c.document
         /\ SetEnabled(c, on, U).current \subseteq c.current
         /\ ~on /\ (c.enabled \/ (c.pending = {} /\ c.current = {}))
              => SetEnabled(c, on, U).pending = {} /\ SetEnabled(c, on, U).current = {}
<1> DEFINE up == [c EXCEPT !.enabled = TRUE]
           down == [c EXCEPT !.enabled = FALSE]
<1>1. /\ up \in Controller /\ down \in Controller /\ c.enabled \in BOOLEAN
      /\ up.enabled = TRUE /\ up.document = c.document /\ up.current = c.current
      /\ down.enabled = FALSE /\ down.document = c.document
  BY DEF Controller
<1>2. SetEnabled(c, on, U) =
        CASE on = c.enabled -> c
          [] on # c.enabled /\ on -> RequestWords(up, U)
          [] on # c.enabled /\ ~on -> Cancel(down, TRUE)
  BY DEF SetEnabled
<1> HIDE DEF up, down
<1>3. CASE on = c.enabled
  <2>1. SetEnabled(c, on, U) = c
    BY <1>2, <1>3
  <2>2. ~on => ~c.enabled
    BY <1>3, Zenon
  <2>3. SetEnabled(c, on, U).enabled = on
    BY <1>3, <2>1, Zenon
  <2> QED
    BY <2>1, <2>2, <2>3
<1>4. CASE on # c.enabled /\ on
  <2>1. on = TRUE
    BY <1>4
  <2>2. SetEnabled(c, on, U) = RequestWords(up, U)
    BY <1>1, <1>2, <1>4
  <2>3. /\ RequestWords(up, U).enabled = up.enabled
        /\ RequestWords(up, U).document = up.document
        /\ RequestWords(up, U).current \subseteq up.current
    BY <1>1, RequestWordsKeeps
  <2>4. SetEnabled(c, on, U).enabled = on
    BY <1>1, <2>1, <2>2, <2>3, Zenon
  <2>5. /\ SetEnabled(c, on, U).document = c.document
        /\ SetEnabled(c, on, U).current \subseteq c.current
    BY <1>1, <2>2, <2>3
  <2> QED
    BY <2>1, <2>4, <2>5
<1>5. CASE on # c.enabled /\ ~on
  <2>1. on = FALSE
    BY <1>5
  <2>2. SetEnabled(c, on, U) = Cancel(down, TRUE)
    BY <1>1, <1>2, <1>5
  <2>3. SetEnabled(c, on, U).enabled = on
    BY <1>1, <2>1, <2>2, CancelKeeps, Zenon
  <2> QED
    BY <1>1, <1>5, <2>2, <2>3, CancelKeeps
<1> QED
  BY <1>1, <1>3, <1>4, <1>5

LEMMA NothingUnknownWhenDisabled ==
  ASSUME NEW h, ~h.enabled, NEW t, NEW ign, NEW B PROVE Unknown(h, t, ign, B) = {}
BY DEF Unknown

\* What every handler that repaints keeps.
LEMMA RepaintHonest ==
  ASSUME NEW h \in Highlighter, NEW c \in Controller, NEW t \in [Blocks -> BlockTexts],
         NEW ign, NEW p, NEW js, NEW B \in SUBSET Blocks, Repaint(h, c, t, ign, B),
         TrueStatuses(h, p), TrueResults(c, js, p), Switched(h, c), Attached(c, t),
         \A b \in Blocks \ B : h.formats[b] \subseteq Deserved(h.language, t, ign, p, b)
  PROVE  View(hl', ctl', t, ign, p, js)
<1> DEFINE U == Unknown(h, t, ign, B)
<1>1. U \in SUBSET Words /\ (~h.enabled => U = {})
  BY UnknownType, NothingUnknownWhenDisabled
<1>2. ctl' = RequestWords(c, U)
  BY DEF Repaint
<1> HIDE DEF U
<1>3. /\ ctl'.enabled = c.enabled
      /\ ctl'.document = c.document
      /\ ctl'.current \subseteq c.current
      /\ ~h.enabled => ctl' = c
  BY <1>1, <1>2, RequestWordsKeeps
<1>4. hl'.enabled = h.enabled
  BY HighlightedType DEF Repaint
<1>5. TrueStatuses(hl', p) /\ Painted(hl', t, ign, p)
  BY HighlightedHonest DEF Repaint
<1>6. TrueResults(ctl', js, p)
  BY <1>3 DEF TrueResults
<1>7. Switched(hl', ctl') /\ Attached(ctl', t)
  BY <1>3, <1>4 DEF Switched, Attached
<1> QED
  BY <1>5, <1>6, <1>7 DEF View

-----------------------------------------------------------------------------
(* The actions of the user and the host.                                    *)

Goal == View(hl', ctl', text', ignored', personal', jobs')

\* Only the edited block is repainted: the others show the text they showed.
LEMMA EditHonest ==
  ASSUME Honest, NEW b \in Blocks, NEW s \in BlockTexts, Edit(b, s) PROVE Goal
<1> USE DEF Honest, Discipline, TypeOK
<1>1. text' \in [Blocks -> BlockTexts] /\ \A d \in Blocks \ {b} : text'[d] = text[d]
  BY DEF Edit
<1>2. PICK t : t = text'
  OBVIOUS
<1>3. t \in [Blocks -> BlockTexts] /\ \A d \in Blocks \ {b} : t[d] = text[d]
  BY <1>1, <1>2
<1> DEFINE U == Unknown(hl, t, ignored, {b})
           c == RequestWords(ctl, U)
<1>4. U \in SUBSET Words /\ (~hl.enabled => U = {})
  BY <1>3, UnknownType, NothingUnknownWhenDisabled
<1>5. /\ hl' = Highlighted(hl, t, ignored, {b})
      /\ ctl' = OnDocumentChange(c)
      /\ ctl.document # NoDocument
      /\ UNCHANGED <<ignored, personal, jobs>>
  BY <1>2 DEF Edit
<1> HIDE DEF U
<1>6. /\ c \in Controller
      /\ c.enabled = ctl.enabled
      /\ c.document = ctl.document
      /\ ~hl.enabled => c = ctl
      /\ Awaited(c, hl.language, jobs)
  BY <1>4, RequestWordsKeeps, RequestWordsType, RequestWordsAwaited
<1> HIDE DEF c
<1>7. AtRest(ctl')
  BY <1>5, <1>6, OnDocumentChangeAtRest
<1>8. /\ ctl'.enabled = c.enabled
      /\ ctl'.document = c.document
      /\ ~c.busy => ctl'.pending = c.pending
  BY <1>5, <1>6 DEF OnDocumentChange, SupersedeActive, NewGeneration, Controller
<1>9. ~hl.enabled => ctl'.pending = {}
  BY <1>6, <1>8 DEF View, Switched, Awaited
<1>10. hl'.enabled = hl.enabled
  BY <1>3, <1>5, HighlightedType
<1>11. \A d \in Blocks \ {b} : hl.formats[d] \subseteq Deserved(hl.language, t, ignored, personal, d)
  BY <1>3 DEF View, Painted, Deserved, Seen
<1>12. TrueStatuses(hl', personal) /\ Painted(hl', t, ignored, personal)
  BY <1>3, <1>5, <1>11, HighlightedHonest DEF View
<1>13. Switched(hl', ctl')
  BY <1>6, <1>7, <1>8, <1>9, <1>10 DEF View, Switched, AtRest
<1>14. TrueResults(ctl', jobs', personal)
  BY <1>7 DEF TrueResults, AtRest
<1> QED
  BY <1>2, <1>5, <1>6, <1>8, <1>12, <1>13, <1>14 DEF Goal, View, Attached

LEMMA SetLanguageHonest ==
  ASSUME Honest, NEW l \in Languages, NEW ign \in SUBSET Ignorable, SetLanguage(l, ign)
  PROVE  Goal
<1> USE DEF Honest, Discipline, TypeOK
<1> DEFINE k == [hl EXCEPT !.language = l]
           h == ClearedCache(k)
           c == Cancel(ctl, TRUE)
<1>1. k \in Highlighter /\ k.enabled = hl.enabled
  BY DEF Highlighter
<1>2. h \in Highlighter /\ h.enabled = hl.enabled /\ DOMAIN h.statuses = {}
  <2>1. {} \in SUBSET DOMAIN k.statuses
    OBVIOUS
  <2>2. h \in Highlighter /\ h.enabled = k.enabled /\ h.statuses = [m \in {} |-> k.statuses[m]]
    <3> HIDE DEF k
    <3> QED BY <1>1, <2>1, KeptType DEF ClearedCache
  <2> HIDE DEF h, k
  <2> QED BY <1>1, <2>2
<1>3. c \in Controller /\ c.enabled = ctl.enabled /\ c.document = ctl.document
      /\ c.current = {} /\ c.pending = {}
  BY CancelType, CancelKeeps
<1>4. Repaint(h, c, text, ign, Blocks) /\ ignored' = ign /\ UNCHANGED <<text, personal, jobs>>
  BY DEF SetLanguage
<1> HIDE DEF h, c
<1>5. TrueStatuses(h, personal) /\ TrueResults(c, jobs, personal)
      /\ Switched(h, c) /\ Attached(c, text)
  BY <1>2, <1>3 DEF TrueStatuses, TrueResults, View, Switched, Attached
<1> QED
  BY <1>2, <1>3, <1>4, <1>5, RepaintHonest DEF Goal

\* Switching off ends what was pending; switching on finds nothing pending.
LEMMA SetActiveHonest ==
  ASSUME Honest, NEW on \in BOOLEAN, SetActive(on) PROVE Goal
<1> USE DEF Honest, Discipline, TypeOK
<1> DEFINE h == [hl EXCEPT !.enabled = on]
           U == Unknown(h, text, ignored, Blocks)
           c == RequestWords(ctl, U)
<1>1. /\ h \in Highlighter
      /\ h.enabled = on
      /\ h.statuses = hl.statuses
      /\ U \in SUBSET Words
      /\ ~on => U = {}
  BY UnknownType, NothingUnknownWhenDisabled DEF Highlighter
<1>2. /\ hl' = Highlighted(h, text, ignored, Blocks)
      /\ ctl' = SetEnabled(c, on, U)
      /\ UNCHANGED <<text, ignored, personal, jobs>>
      /\ on # hl.enabled
  BY DEF SetActive
<1> HIDE DEF h, U
<1>3. /\ c \in Controller
      /\ c.enabled = ctl.enabled
      /\ c.document = ctl.document
      /\ c.current \subseteq ctl.current
  BY <1>1, RequestWordsType, RequestWordsKeeps
<1> HIDE DEF c
<1>4. /\ ctl'.enabled = on
      /\ ctl'.document = ctl.document
      /\ ctl'.current \subseteq ctl.current
  BY <1>1, <1>2, <1>3, SetEnabledKeeps
<1>5. ~on => ctl.enabled
  <2>1. hl.enabled \in BOOLEAN
    BY DEF Highlighter
  <2> QED
    BY <1>2, <2>1, Zenon DEF View, Switched
<1>6. ~on => ctl'.pending = {} /\ ctl'.current = {}
  BY <1>1, <1>2, <1>3, <1>5, SetEnabledKeeps
<1>7. hl'.enabled = on
  BY <1>1, <1>2, HighlightedType
<1>8. TrueStatuses(hl', personal) /\ Painted(hl', text, ignored, personal)
  BY <1>1, <1>2, HighlightedHonest DEF View, TrueStatuses
<1>9. Switched(hl', ctl') /\ Attached(ctl', text) /\ TrueResults(ctl', jobs, personal)
  BY <1>4, <1>6, <1>7 DEF View, Switched, Attached, TrueResults
<1> QED
  BY <1>2, <1>8, <1>9 DEF Goal, View

LEMMA DetachHonest ==
  ASSUME Honest, Detach PROVE Goal
<1> USE DEF Honest, Discipline, TypeOK
<1>1. /\ ctl' = [Cancel(ctl, TRUE) EXCEPT !.document = NoDocument]
      /\ text' = [b \in Blocks |-> <<>>]
      /\ hl' = [hl EXCEPT !.formats = [b \in Blocks |-> {}]]
      /\ UNCHANGED <<ignored, personal, jobs>>
  BY DEF Detach, SetDocument
<1>2. /\ ctl'.enabled = ctl.enabled
      /\ ctl'.pending = {}
      /\ ctl'.current = {}
  BY <1>1, CancelKeeps, CancelType DEF Controller
<1>3. /\ hl'.enabled = hl.enabled
      /\ hl'.statuses = hl.statuses
      /\ \A b \in Blocks : hl'.formats[b] = {} /\ text'[b] = <<>>
  BY <1>1 DEF Highlighter
<1>4. TrueStatuses(hl', personal') /\ Painted(hl', text', ignored', personal')
  BY <1>1, <1>3 DEF View, TrueStatuses, Painted
<1>5. Switched(hl', ctl') /\ Attached(ctl', text') /\ TrueResults(ctl', jobs', personal')
  BY <1>2, <1>3 DEF View, Switched, Attached, TrueResults
<1> QED
  BY <1>4, <1>5 DEF Goal, View

LEMMA AttachHonest ==
  ASSUME Honest, NEW d \in Documents, NEW t \in [Blocks -> BlockTexts],
         NEW ign \in SUBSET Ignorable, Attach(d, t, ign)
  PROVE  Goal
<1> USE DEF Honest, Discipline, TypeOK
<1> DEFINE U == Unknown(hl, t, ign, Blocks)
           c == SetDocument(ctl, d)
           e == SetEnabled(c, hl.enabled, U)
<1>1. U \in SUBSET Words /\ (~hl.enabled => U = {}) /\ hl.enabled \in BOOLEAN
  BY UnknownType, NothingUnknownWhenDisabled DEF Highlighter
<1>2. /\ hl' = Highlighted(hl, t, ign, Blocks)
      /\ ctl' = RequestWords(e, U)
      /\ text' = t
      /\ ignored' = ign
      /\ UNCHANGED <<personal, jobs>>
      /\ d # ctl.document
  BY NoneAssumption DEF Attach
<1>3. /\ c \in Controller
      /\ c.document = d
      /\ c.pending = {}
      /\ c.current = {}
  <2>1. c = [Cancel(ctl, TRUE) EXCEPT !.document = d]
    BY <1>2 DEF SetDocument
  <2> QED
    BY <2>1, SetDocumentType, CancelType, CancelKeeps DEF Controller
<1> HIDE DEF U, c
<1>4. /\ e \in Controller
      /\ e.enabled = hl.enabled
      /\ e.document = d
      /\ e.current = {}
      /\ ~hl.enabled => e.pending = {}
  BY <1>1, <1>3, SetEnabledType, SetEnabledKeeps
<1> HIDE DEF e
<1>5. /\ ctl'.enabled = hl.enabled
      /\ ctl'.document = d
      /\ ctl'.current = {}
      /\ ~hl.enabled => ctl'.pending = {}
  BY <1>1, <1>2, <1>4, RequestWordsKeeps
<1>6. hl'.enabled = hl.enabled
  BY <1>2, HighlightedType
<1>7. TrueStatuses(hl', personal) /\ Painted(hl', t, ign, personal)
  BY <1>2, HighlightedHonest DEF View
<1>8. Switched(hl', ctl') /\ Attached(ctl', t) /\ TrueResults(ctl', jobs, personal)
  BY <1>5, <1>6, NoneAssumption DEF Switched, Attached, TrueResults
<1> QED
  BY <1>2, <1>7, <1>8 DEF Goal, View

\* A batch that may still be applied has an answer for a word no block shows.
AnsweredUnseen(w) ==
  /\ \E j \in ctl.current : w \in DOMAIN jobs[j].results
  /\ \A b \in Blocks : w \notin Seen(text, ignored, b)

\* What only the caller of invalidate_word can grant: no such word changes its standing.
NoAnswerChangesUnseen ==
  \A l \in Languages, w \in Words :
    (w \in personal[l] <=> w \in personal'[l]) \/ ~AnsweredUnseen(w)

LEMMA ChangedIsNotAnsweredUnseen ==
  ASSUME Honest, NoAnswerChangesUnseen, NEW w \in Learnable, ChangePersonal(w)
  PROVE  ~AnsweredUnseen(w)
<1>1. hl.language \in Languages /\ w \in Words
  BY CandidatesAssumption DEF Honest, Discipline, TypeOK, Highlighter
<1>2. personal' = [personal EXCEPT ![hl.language] =
                     IF w \in @ THEN @ \ {w} ELSE @ \cup {w}]
  BY DEF ChangePersonal
<1>3. hl.language \in DOMAIN personal
  BY <1>1 DEF Honest, Discipline, TypeOK
<1>4. ~(w \in personal[hl.language] <=> w \in personal'[hl.language])
  BY <1>2, <1>3
<1> QED
  BY <1>1, <1>4 DEF NoAnswerChangesUnseen

LEMMA VisibleHasDocument ==
  ASSUME Honest, NEW w, NEW b \in Blocks, w \in Seen(text, ignored, b)
  PROVE  /\ ctl.document # NoDocument
         /\ b \in BlocksContaining(text, w)
<1>1. text[b] # <<>> /\ w \in Range(text[b])
  BY DEF Seen, Range
<1> QED
  BY <1>1 DEF Honest, View, Attached, BlocksContaining

\* The word whose standing changes loses its status. If it is visible it is asked for
\* again at once, so that no batch that checked it before is ever applied; if it is not,
\* no such batch has an answer for it.
LEMMA ChangePersonalHonest ==
  ASSUME Honest, NEW w \in Learnable, ~AnsweredUnseen(w), ChangePersonal(w) PROVE Goal
<1> USE DEF Honest, Discipline, TypeOK
<1> DEFINE h == ForgottenWord(hl, w)
           K == {k \in DOMAIN hl.statuses : k[2] # w}
           B == BlocksContaining(text, w)
           U == Unknown(h, text, ignored, B)
<1>1. /\ h \in Highlighter
      /\ h.statuses = [k \in K |-> hl.statuses[k]]
      /\ h.language = hl.language
      /\ h.enabled = hl.enabled
      /\ h.formats = hl.formats
  BY KeptType DEF ForgottenWord
<1>2. /\ hl' = Highlighted(h, text, ignored, B)
      /\ ctl' = RequestWords(ctl, U)
      /\ UNCHANGED <<text, ignored, jobs>>
      /\ personal' = [personal EXCEPT ![hl.language] =
                         IF w \in @ THEN @ \ {w} ELSE @ \cup {w}]
  BY DEF ChangePersonal, InvalidateSpelling, Repaint
<1>3. \A l \in Languages, v \in Words :
        v # w => (Verdict(personal', l, v) <=> Verdict(personal, l, v))
  BY <1>2 DEF Verdict
<1>4. TrueStatuses(h, personal')
  <2> SUFFICES ASSUME NEW k \in DOMAIN h.statuses
               PROVE  h.statuses[k] <=> Verdict(personal', k[1], k[2])
    BY DEF TrueStatuses
  <2>1. k \in DOMAIN hl.statuses /\ k[2] # w /\ h.statuses[k] = hl.statuses[k]
    BY <1>1
  <2>2. k[1] \in Languages /\ k[2] \in Words
    BY <2>1 DEF Highlighter, Statuses, Key
  <2>3. hl.statuses[k] <=> Verdict(personal, k[1], k[2])
    BY <2>1 DEF View, TrueStatuses
  <2> QED
    BY <1>3, <2>1, <2>2, <2>3
<1>5. /\ B \in SUBSET Blocks
      /\ U \in SUBSET Words
      /\ ~h.enabled => U = {}
      /\ h.enabled /\ (\E b \in Blocks : w \in Seen(text, ignored, b)) => U # {}
  <2>2. ~Known(h, w)
    BY <1>1 DEF Known
  <2>3. ASSUME h.enabled, NEW b \in Blocks, w \in Seen(text, ignored, b) PROVE w \in U
    BY <2>2, <2>3, VisibleHasDocument DEF Unknown
  <2>4. B \in SUBSET Blocks
    BY DEF BlocksContaining
  <2> QED
    BY <2>3, <2>4, UnknownType, NothingUnknownWhenDisabled
<1>6. \A b \in Blocks \ B :
        h.formats[b] \subseteq Deserved(h.language, text, ignored, personal', b)
  <2> SUFFICES ASSUME NEW b \in Blocks \ B, NEW v \in h.formats[b]
               PROVE  v \in Deserved(h.language, text, ignored, personal', b)
    OBVIOUS
  <2>1. v \in Seen(text, ignored, b) /\ ~Verdict(personal, hl.language, v)
    BY <1>1 DEF View, Painted, Deserved
  <2>2. v # w
    BY <2>1 DEF BlocksContaining, Seen
  <2>3. v \in Words /\ hl.language \in Languages
    BY <2>1, SeenType DEF Highlighter
  <2> QED
    BY <1>1, <1>3, <2>1, <2>2, <2>3 DEF Deserved
<1>7. TrueStatuses(hl', personal') /\ Painted(hl', text, ignored, personal')
  <2>1. \A p : /\ TrueStatuses(h, p)
               /\ \A b \in Blocks \ B : h.formats[b] \subseteq Deserved(h.language, text, ignored, p, b)
               => TrueStatuses(hl', p) /\ Painted(hl', text, ignored, p)
    <3> HIDE DEF h, B
    <3> QED BY <1>1, <1>2, <1>5, HighlightedHonest
  <2> QED
    BY <1>4, <1>6, <2>1
<1> HIDE DEF U, h, B
<1>8. /\ ctl'.current \subseteq ctl.current
      /\ \A j \in ctl'.current : w \notin DOMAIN jobs[j].results
  <2>1. ctl' = ctl \/ AtRest(ctl')
    BY <1>2, <1>5, RequestWordsAwaited
  <2>2. CASE h.enabled /\ \E b \in Blocks : w \in Seen(text, ignored, b)
    <3>1. ctl.enabled /\ ctl.document # NoDocument
      BY <1>1, <2>2, VisibleHasDocument DEF View, Switched
    <3> QED
      BY <1>2, <1>5, <2>2, <3>1, RequestWordsAwaited DEF AtRest
  <2>3. CASE ~h.enabled
    BY <1>1, <2>1, <2>3 DEF AtRest, View, Switched
  <2>4. CASE \A b \in Blocks : w \notin Seen(text, ignored, b)
    BY <2>1, <2>4 DEF AnsweredUnseen, AtRest
  <2> QED
    BY <2>2, <2>3, <2>4
<1>9. /\ ctl'.enabled = ctl.enabled
      /\ ctl'.document = ctl.document
      /\ ~hl.enabled => ctl' = ctl
  BY <1>1, <1>2, <1>5, RequestWordsKeeps
<1>10. hl'.enabled = hl.enabled
  BY <1>1, <1>2, <1>5, HighlightedType
<1>11. Switched(hl', ctl') /\ Attached(ctl', text)
  BY <1>8, <1>9, <1>10 DEF View, Switched, Attached
<1>12. TrueResults(ctl', jobs, personal')
  <2> SUFFICES ASSUME NEW j \in ctl'.current, NEW v \in DOMAIN jobs[j].results
               PROVE  jobs[j].results[v] <=> Verdict(personal', jobs[j].locale, v)
    BY DEF TrueResults
  <2>1. j \in ctl.current /\ v # w
    BY <1>8
  <2>2. jobs[j].results[v] <=> Verdict(personal, jobs[j].locale, v)
    BY <2>1 DEF View, TrueResults
  <2>3. jobs[j] \in Job
    BY <2>1, RunningIsJob DEF Controller, Awaited
  <2>4. jobs[j].locale \in Languages /\ v \in Words
    BY <2>3 DEF Job, Results
  <2> QED
    BY <1>3, <2>1, <2>2, <2>4
<1> QED
  BY <1>2, <1>7, <1>11, <1>12 DEF Goal, View

\* Ignoring a word changes no verdict; the blocks that hold the word are repainted.
LEMMA ChangeIgnoredHonest ==
  ASSUME Honest, NEW w \in Ignorable, ChangeIgnored(w) PROVE Goal
<1> USE DEF Honest, Discipline, TypeOK
<1> DEFINE h == ForgottenWord(hl, w)
           B == BlocksContaining(text, w)
<1>1. PICK ign : ign = ignored'
  OBVIOUS
<1>2. /\ Repaint(h, ctl, text, ign, B)
      /\ UNCHANGED <<text, personal, jobs>>
      /\ \A v : v # w => (v \in ign <=> v \in ignored)
  BY <1>1 DEF ChangeIgnored, InvalidateSpelling
<1>3. /\ h \in Highlighter
      /\ h.language = hl.language
      /\ h.enabled = hl.enabled
      /\ h.formats = hl.formats
      /\ TrueStatuses(h, personal)
  <2> DEFINE K == {k \in DOMAIN hl.statuses : k[2] # w}
  <2>1. /\ h \in Highlighter
        /\ h.language = hl.language
        /\ h.enabled = hl.enabled
        /\ h.formats = hl.formats
        /\ h.statuses = [k \in K |-> hl.statuses[k]]
    BY KeptType DEF ForgottenWord
  <2> HIDE DEF h
  <2> QED
    BY <2>1 DEF View, TrueStatuses
<1>4. \A b \in Blocks \ B :
        h.formats[b] \subseteq Deserved(h.language, text, ign, personal, b)
  BY <1>2, <1>3 DEF View, Painted, Deserved, Seen, BlocksContaining
<1>5. B \in SUBSET Blocks
  BY DEF BlocksContaining
<1>6. Switched(h, ctl)
  BY <1>3 DEF View, Switched
<1> HIDE DEF h, B
<1>7. View(hl', ctl', text, ign, personal, jobs)
  BY <1>2, <1>3, <1>4, <1>5, <1>6, RepaintHonest DEF View
<1> QED
  BY <1>1, <1>2, <1>7 DEF Goal

LEMMA RehighlightHonest ==
  ASSUME Honest, Rehighlight \/ InvalidateAll PROVE Goal
<1> USE DEF Honest, Discipline, TypeOK
<1>1. CASE Rehighlight
  BY <1>1, RepaintHonest DEF Rehighlight, Goal, View
<1>2. CASE InvalidateAll
  <2> DEFINE h == ClearedCache(hl)
  <2>1. /\ h \in Highlighter
        /\ h.enabled = hl.enabled
        /\ h.statuses = [k \in {} |-> hl.statuses[k]]
    BY KeptType DEF ClearedCache
  <2>2. Repaint(h, ctl, text, ignored, Blocks) /\ UNCHANGED <<text, ignored, personal, jobs>>
    BY <1>2 DEF InvalidateAll
  <2> HIDE DEF h
  <2>3. TrueStatuses(h, personal) /\ Switched(h, ctl)
    BY <2>1 DEF View, TrueStatuses, Switched
  <2> QED
    BY <2>1, <2>2, <2>3, RepaintHonest DEF Goal, View
<1> QED
  BY <1>1, <1>2

LEMMA SetTokenizerHonest ==
  ASSUME Honest, NEW t \in [Blocks -> BlockTexts], SetTokenizer(t) PROVE Goal
<1> USE DEF Honest, Discipline, TypeOK
<1>1. /\ Repaint(hl, ctl, t, ignored, Blocks)
      /\ text' = t
      /\ ctl.document # NoDocument
      /\ UNCHANGED <<ignored, personal, jobs>>
  BY DEF SetTokenizer
<1>2. Attached(ctl, t)
  BY <1>1 DEF Attached
<1>3. View(hl', ctl', t, ignored, personal, jobs)
  BY <1>1, <1>2, RepaintHonest DEF View
<1> QED
  BY <1>1, <1>3 DEF Goal

LEMMA HostCancelHonest ==
  ASSUME Honest, NEW clear \in BOOLEAN, HostCancel(clear) PROVE Goal
<1> USE DEF Honest, Discipline, TypeOK
<1>1. ctl' = Cancel(ctl, clear) /\ UNCHANGED <<text, ignored, personal, hl, jobs>>
  BY DEF HostCancel
<1>2. /\ ctl'.enabled = ctl.enabled
      /\ ctl'.document = ctl.document
      /\ ctl'.current = {}
      /\ ctl'.pending \subseteq ctl.pending
  BY <1>1, CancelKeeps
<1> QED
  BY <1>1, <1>2 DEF Goal, View, Switched, Attached, TrueResults

-----------------------------------------------------------------------------
(* Batches.                                                                 *)

\* A disabled highlighter leaves no words for a batch to take.
LEMMA StartBatchHonest ==
  ASSUME Honest, NEW c \in Controller, c.enabled = ctl.enabled,
         c.document = ctl.document, c.pending = ctl.pending, c.current = ctl.current,
         NEW j \in JobIds, CanFlush(c), StartBatch(c, j),
         UNCHANGED <<text, ignored, personal, hl>>
  PROVE  Goal
<1> USE DEF Honest, Discipline, TypeOK
<1>1. /\ ctl'.enabled = c.enabled
      /\ ctl'.document = c.document
      /\ ctl'.current = {j}
  <2>1. c.current = {}
    BY DEF CanFlush, Awaited
  <2> QED
    BY <2>1 DEF StartBatch, Controller
<1>2. hl.enabled
  BY DEF CanFlush, View, Switched
<1>3. jobs'[j] = [state |-> "running", locale |-> hl.language, document |-> c.document,
                  todo |-> c.pending, results |-> [w \in {} |-> TRUE],
                  failed |-> FALSE, wasCancelled |-> FALSE]
  BY DEF StartBatch
<1>4. TrueResults(ctl', jobs', personal)
  BY <1>1, <1>3 DEF TrueResults
<1> QED
  BY <1>1, <1>2, <1>4 DEF Goal, View, Switched, Attached

LEMMA TimerFiresHonest ==
  ASSUME Honest, TimerFires PROVE Goal
<1> DEFINE c == [ctl EXCEPT !.timer = FALSE]
<1>1. /\ c \in Controller
      /\ c.enabled = ctl.enabled
      /\ c.document = ctl.document
      /\ c.pending = ctl.pending
      /\ c.current = ctl.current
      /\ CanFlush(ctl) => CanFlush(c)
  BY DEF Honest, Discipline, TypeOK, Controller, CanFlush
<1>2. UNCHANGED <<text, ignored, personal, hl>>
  BY DEF TimerFires
<1> HIDE DEF c
<1>3. ASSUME CanFlush(ctl), NEW j \in JobIds, StartBatch(c, j) PROVE Goal
  BY <1>1, <1>2, <1>3, StartBatchHonest
<1>4. CASE ctl' = c /\ UNCHANGED jobs
  BY <1>1, <1>2, <1>4 DEF Honest, Goal, View, Switched, Attached, TrueResults
<1> QED
  BY <1>3, <1>4 DEF TimerFires, c

LEMMA HostFlushHonest ==
  ASSUME Honest, HostFlush PROVE Goal
<1>1. PICK j \in JobIds : StartBatch(ctl, j)
  BY DEF HostFlush
<1>2. CanFlush(ctl) /\ UNCHANGED <<text, ignored, personal, hl>>
  BY DEF HostFlush
<1> QED
  BY <1>1, <1>2, StartBatchHonest DEF Honest, Discipline, TypeOK

\* A worker gathers the verdicts the service gives while it runs.
LEMMA WorkerStepHonest ==
  ASSUME Honest, NEW j \in JobIds, WorkerStep(j) PROVE Goal
<1> USE DEF Honest, Discipline, TypeOK
<1>1. /\ jobs[j] \in Job
      /\ UNCHANGED <<text, ignored, personal, hl, ctl>>
      /\ \A i \in JobIds \ {j} : jobs'[i] = jobs[i]
  BY RunningIsJob, StateIsNotFree DEF WorkerStep, CheckWord, CheckFails, EmitCompleted
<1>2. \A w \in DOMAIN jobs'[j].results :
        \/ /\ w \in DOMAIN jobs[j].results
           /\ jobs'[j].results[w] = jobs[j].results[w]
           /\ jobs'[j].locale = jobs[j].locale
        \/ /\ jobs'[j].results[w] <=> Verdict(personal, jobs[j].locale, w)
           /\ jobs'[j].locale = jobs[j].locale
  <2>1. CASE CheckWord(j)
    <3>1. PICK w \in jobs[j].todo : jobs' = [jobs EXCEPT ![j] = Answered(jobs[j], w)]
      BY <2>1 DEF CheckWord
    <3> DEFINE r == [v \in DOMAIN jobs[j].results \cup {w} |->
                       IF v = w THEN Accepts(jobs[j].locale, w) ELSE jobs[j].results[v]]
    <3>2. Answered(jobs[j], w) = [jobs[j] EXCEPT !.todo = @ \ {w}, !.results = r]
      BY DEF Answered
    <3>3. \A v \in DOMAIN r :
            \/ v \in DOMAIN jobs[j].results /\ r[v] = jobs[j].results[v]
            \/ v = w /\ r[v] = Accepts(jobs[j].locale, w)
      OBVIOUS
    <3> HIDE DEF r
    <3>4. jobs'[j].results = r /\ jobs'[j].locale = jobs[j].locale
      BY <1>1, <3>1, <3>2 DEF Job
    <3> QED
      BY <3>3, <3>4 DEF Accepts, Verdict
  <2>2. CASE CheckFails(j)
    BY <1>1, <2>2 DEF CheckFails, Job
  <2>3. CASE EmitCompleted(j)
    BY <1>1, <2>3 DEF EmitCompleted, Job
  <2> QED
    BY <2>1, <2>2, <2>3 DEF WorkerStep
<1>3. TrueResults(ctl', jobs', personal')
  BY <1>1, <1>2 DEF View, TrueResults, Controller
<1> QED
  BY <1>1, <1>3 DEF Goal, View

\* Only the awaited batch reaches the cache, and its verdicts are still true.
LEMMA DeliverHonest ==
  ASSUME Honest, NEW j \in JobIds, Deliver(j) PROVE Goal
<1> USE DEF Honest, Discipline, TypeOK
<1>1. CASE DiscardResults(j)
  <2>1. /\ j \notin ctl.current
        /\ ctl' = Released(ctl, j)
        /\ UNCHANGED <<text, ignored, personal, hl>>
        /\ \A i \in JobIds \ {j} : jobs'[i] = jobs[i]
    BY <1>1, ObsoleteIsNotCurrent DEF DiscardResults
  <2>2. /\ ctl'.current = ctl.current
        /\ ctl'.enabled = ctl.enabled
        /\ ctl'.document = ctl.document
        /\ ctl'.pending = ctl.pending
    BY <2>1 DEF Released, Controller
  <2>3. TrueResults(ctl', jobs', personal')
    BY <2>1, <2>2 DEF View, TrueResults, Controller
  <2> QED
    BY <2>1, <2>2, <2>3 DEF Goal, View, Switched, Attached
<1>2. CASE JobFailed(j)
  <2>1. j \in ctl.current /\ UNCHANGED <<text, ignored, personal, hl>>
    BY <1>2, ObsoleteIsNotCurrent DEF JobFailed
  <2>2. ctl' = Finished(Taken(Released(ctl, j)))
    BY <1>2 DEF JobFailed
  <2>3. ctl'.enabled = ctl.enabled /\ ctl'.document = ctl.document
    BY <2>2 DEF Finished, Taken, Released, Controller
  <2>4. ctl'.current = {}
    BY <2>1, <2>2, FinishedAtRest DEF AtRest
  <2>5. hl.enabled
    BY <2>1 DEF View, Switched
  <2> QED
    BY <2>1, <2>3, <2>4, <2>5 DEF Goal, View, Switched, Attached, TrueResults
<1>3. CASE ApplyResults(j)
  <2> DEFINE h == AllPut(hl, jobs[j].locale, jobs[j].results)
             U == Unknown(h, text, ignored, Blocks)
             c == Taken(Released(ctl, j))
  <2>1. /\ j \in ctl.current
        /\ hl' = Highlighted(h, text, ignored, Blocks)
        /\ ctl' = Finished(RequestWords(c, U))
        /\ UNCHANGED <<text, ignored, personal>>
    BY <1>3, ObsoleteIsNotCurrent DEF ApplyResults
  <2>2. jobs[j] \in Job
    BY <1>3, RunningIsJob, StateIsNotFree DEF ApplyResults
  <2>3. /\ h \in Highlighter
        /\ h.enabled = hl.enabled
        /\ \A k \in DOMAIN h.statuses :
             \/ /\ k[1] = jobs[j].locale
                /\ k[2] \in DOMAIN jobs[j].results
                /\ h.statuses[k] = jobs[j].results[k[2]]
             \/ k \in DOMAIN hl.statuses /\ h.statuses[k] = hl.statuses[k]
    BY <2>2, AllPutType DEF Job
  <2>4. U \in SUBSET Words
    BY UnknownType
  <2> HIDE DEF h, U
  <2>5. TrueStatuses(h, personal)
    BY <2>1, <2>3 DEF View, TrueStatuses, TrueResults
  <2>6. TrueStatuses(hl', personal) /\ Painted(hl', text, ignored, personal)
    BY <2>1, <2>3, <2>5, HighlightedHonest
  <2>7. hl.enabled /\ hl'.enabled = hl.enabled
    BY <2>1, <2>3, HighlightedType DEF View, Switched
  <2>8. ctl'.current = {}
    BY <2>1, <2>4, FinishedAtRest DEF AtRest
  <2>9. ctl'.enabled = ctl.enabled /\ ctl'.document = ctl.document
    <3>1. c \in Controller /\ c.enabled = ctl.enabled /\ c.document = ctl.document
      BY DEF Taken, Released, Controller
    <3> HIDE DEF c
    <3>2. /\ RequestWords(c, U) \in Controller
          /\ RequestWords(c, U).enabled = c.enabled
          /\ RequestWords(c, U).document = c.document
      BY <2>4, <3>1, RequestWordsType, RequestWordsKeeps
    <3> QED
      BY <2>1, <3>1, <3>2 DEF Finished, Controller
  <2> QED
    BY <2>1, <2>6, <2>7, <2>8, <2>9 DEF Goal, View, Switched, Attached, TrueResults
<1> QED
  BY <1>1, <1>2, <1>3 DEF Deliver

-----------------------------------------------------------------------------
(* The theorem.                                                             *)

LEMMA InitHonest == Init => Honest
<1> SUFFICES ASSUME Init PROVE Honest
  OBVIOUS
<1>1. Discipline
  BY InitType, InitAwaited DEF Discipline
<1>2. PICK l \in Languages, on \in BOOLEAN, d \in Documents :
        /\ hl = [language |-> l, enabled |-> on, statuses |-> [k \in {} |-> TRUE],
                 older |-> {}, formats |-> [b \in Blocks |-> {}]]
        /\ ctl = RequestWords([enabled |-> TRUE, document |-> d, pending |-> {},
                 inflight |-> {}, timer |-> FALSE, busy |-> FALSE, cancelled |-> NoJob,
                 fired |-> {}, current |-> {}], Unknown(hl, text, ignored, Blocks))
  BY DEF Init
<1> DEFINE c == [enabled |-> TRUE, document |-> d, pending |-> {}, inflight |-> {},
                 timer |-> FALSE, busy |-> FALSE, cancelled |-> NoJob,
                 fired |-> {}, current |-> {}]
           U == Unknown(hl, text, ignored, Blocks)
<1>3. /\ c \in Controller
      /\ c.enabled = TRUE
      /\ c.document = d
      /\ c.current = {}
      /\ c.pending = {}
  BY DEF Controller
<1>4. U \in SUBSET Words /\ (~hl.enabled => U = {})
  BY UnknownType, NothingUnknownWhenDisabled DEF Init
<1>5. ctl = RequestWords(c, U)
  BY <1>2
<1> HIDE DEF c, U
<1>6. /\ ctl.enabled
      /\ ctl.document = d
      /\ ctl.current = {}
      /\ ~hl.enabled => ctl.pending = {}
  BY <1>3, <1>4, <1>5, RequestWordsKeeps
<1>7. TrueStatuses(hl, personal) /\ Painted(hl, text, ignored, personal)
  BY <1>2 DEF TrueStatuses, Painted
<1>8. TrueResults(ctl, jobs, personal) /\ Switched(hl, ctl) /\ Attached(ctl, text)
  BY <1>6, NoneAssumption DEF TrueResults, Switched, Attached
<1> QED
  BY <1>1, <1>7, <1>8 DEF Honest, View

LEMMA HonestInductive ==
  Honest /\ [Next]_vars /\ [NoAnswerChangesUnseen]_vars => Honest'
<1> SUFFICES ASSUME Honest, [Next]_vars, [NoAnswerChangesUnseen]_vars PROVE Honest'
  OBVIOUS
<1>1. Discipline'
  BY DisciplineInductive DEF Honest
<1>2. Goal
  <2>1. CASE NoAnswerChangesUnseen /\ UserStep
    <3>1. ASSUME NEW w \in Learnable, ChangePersonal(w) PROVE Goal
      BY <2>1, <3>1, ChangedIsNotAnsweredUnseen, ChangePersonalHonest
    <3> QED
      BY <2>1, <3>1, EditHonest, SetTokenizerHonest, RehighlightHonest, SetLanguageHonest,
         SetActiveHonest, DetachHonest, AttachHonest,
         ChangeIgnoredHonest, HostFlushHonest, HostCancelHonest DEF UserStep
  <2>2. CASE TimerFires
    BY <2>2, TimerFiresHonest
  <2>3. ASSUME NEW j \in JobIds, WorkerStep(j) \/ Deliver(j) PROVE Goal
    BY <2>3, WorkerStepHonest, DeliverHonest
  <2>4. CASE UNCHANGED vars
    BY <2>4 DEF vars, Honest, Goal
  <2> QED
    BY <2>1, <2>2, <2>3, <2>4 DEF Next
<1> QED
  BY <1>1, <1>2 DEF Honest, Goal

\* The callers of invalidate_word grant it at every step.
AnswersChangeOnScreen == [][NoAnswerChangesUnseen]_vars

LEMMA AlwaysHonest == Spec /\ AnswersChangeOnScreen => []Honest
<1>1. Init => Honest
  BY InitHonest
<1>2. Honest /\ [Next]_vars /\ [NoAnswerChangesUnseen]_vars => Honest'
  BY HonestInductive
<1> QED
  BY <1>1, <1>2, PTL DEF Spec, AnswersChangeOnScreen

LEMMA HonestIsTrue == Honest => StatusesTrue /\ NoFalseUnderline
BY HonestMeans DEF Honest

\* The status cache agrees with the service and no word is underlined that does not
\* deserve it, as long as invalidate_word is not called for a word that no block shows
\* while a batch that may still be applied has answered it already. Other words off the
\* screen may change at any time.
THEOREM UnansweredWordsMayChange ==
  Spec /\ AnswersChangeOnScreen => []StatusesTrue /\ []NoFalseUnderline
BY AlwaysHonest, HonestIsTrue, PTL

\* Where every change is of a visible word there is nothing to grant.
LEMMA VisibleChangesSuffice ==
  ASSUME ~OffScreenChanges, TypeOK, [Next]_vars PROVE [NoAnswerChangesUnseen]_vars
<1>1. CASE personal' = personal
  BY <1>1 DEF NoAnswerChangesUnseen
<1>2. ASSUME NEW w \in Learnable, ChangePersonal(w) PROVE NoAnswerChangesUnseen
  <2>1. ~AnsweredUnseen(w)
    BY <1>2 DEF ChangePersonal, Reachable, AnsweredUnseen
  <2>2. \A l \in Languages, v \in Words :
          v # w => (v \in personal[l] <=> v \in personal'[l])
    BY <1>2 DEF ChangePersonal, TypeOK
  <2> QED
    BY <2>1, <2>2 DEF NoAnswerChangesUnseen
<1>3. \/ personal' = personal
      \/ \E w \in Learnable : ChangePersonal(w)
  <2>1. CASE UserStep
    BY <2>1 DEF UserStep, Edit, SetTokenizer, Rehighlight, SetLanguage, SetActive, Detach,
       Attach, ChangeIgnored, InvalidateAll, HostFlush, HostCancel
  <2>2. CASE TimerFires
    BY <2>2 DEF TimerFires
  <2>3. ASSUME NEW j \in JobIds, WorkerStep(j) \/ Deliver(j) PROVE personal' = personal
    BY <2>3 DEF WorkerStep, CheckWord, CheckFails, EmitCompleted, Deliver, DiscardResults,
       JobFailed, ApplyResults
  <2>4. CASE UNCHANGED vars
    BY <2>4 DEF vars
  <2> QED
    BY <2>1, <2>2, <2>3, <2>4 DEF Next
<1> QED
  BY <1>1, <1>2, <1>3

LEMMA VisibleChangesAreGranted ==
  ASSUME ~OffScreenChanges PROVE Spec => AnswersChangeOnScreen
<1>1. TypeOK /\ [Next]_vars => [NoAnswerChangesUnseen]_vars
  BY VisibleChangesSuffice
<1> QED
  BY <1>1, TypeCorrect, PTL DEF Spec, AnswersChangeOnScreen

\* As long as only visible words change their standing, the status cache agrees
\* with the service: the entry of a word whose standing changed does not come back
\* from a batch that was checking it at the time.
THEOREM StatusesStayTrue == ASSUME ~OffScreenChanges PROVE Spec => []StatusesTrue
BY AlwaysHonest, HonestIsTrue, VisibleChangesAreGranted, PTL

\* Under the same hypothesis no word is underlined that does not deserve it,
\* whatever the interleaving of typing, batches, deliveries, switches and host calls.
THEOREM HonestUnderlines == ASSUME ~OffScreenChanges PROVE Spec => []NoFalseUnderline
BY AlwaysHonest, HonestIsTrue, VisibleChangesAreGranted, PTL

-----------------------------------------------------------------------------
(* The cache of statuses is bounded and keeps the order of use.             *)

\* R is a strict total order on K.
Ordering(K, R) ==
  /\ R \subseteq K \X K
  /\ \A k \in K : <<k, k>> \notin R
  /\ \A k, m \in K : k # m => (<<k, m>> \in R <=> <<m, k>> \notin R)
  /\ \A k, m, n \in K : <<k, m>> \in R /\ <<m, n>> \in R => <<k, n>> \in R

LEMMA OrderingOfPart ==
  ASSUME NEW K, NEW R, Ordering(K, R), NEW L \in SUBSET K
  PROVE  Ordering(L, R \cap (L \X L))
BY DEF Ordering

\* What is moved to the end follows what is not.
LEMMA OrderingAfterMove ==
  ASSUME NEW K, NEW R, Ordering(K, R), NEW T, NEW order, Ordering(T, order)
  PROVE  Ordering(K \cup T, MovedToEnd(R, K \cup T, T, order))
<1> DEFINE M == MovedToEnd(R, K \cup T, T, order)
<1>1. ASSUME NEW k \in K \cup T, NEW m \in K \cup T
      PROVE  <<k, m>> \in M <=> \/ k \notin T /\ m \in T
                                \/ k \notin T /\ m \notin T /\ <<k, m>> \in R
                                \/ <<k, m>> \in order
  BY DEF MovedToEnd, Ordering
<1>2. M \subseteq (K \cup T) \X (K \cup T)
  BY DEF MovedToEnd, Ordering
<1>3. ASSUME NEW k \in K \cup T, NEW m \in K \cup T
      PROVE  <<k, m>> \in order => k \in T /\ m \in T
  BY DEF Ordering
<1> HIDE DEF M
<1>4. \A k \in K \cup T : <<k, k>> \notin M
  BY <1>1, <1>3 DEF Ordering
<1>5. \A k, m \in K \cup T : k # m => (<<k, m>> \in M <=> <<m, k>> \notin M)
  BY <1>1, <1>3 DEF Ordering
<1>6. \A k, m, n \in K \cup T : <<k, m>> \in M /\ <<m, n>> \in M => <<k, n>> \in M
  BY <1>1, <1>3 DEF Ordering
<1>7. Ordering(K \cup T, M)
  BY <1>2, <1>4, <1>5, <1>6 DEF Ordering
<1> QED
  BY <1>7 DEF M

\* The members of K with fewer than n later ones.
Recents(K, R, n) == {k \in K : Cardinality({m \in K : <<k, m>> \in R}) < n}

\* They are n at most: all but the first of them are
\* later than the first.
LEMMA RecentAreFew ==
  ASSUME NEW K, IsFiniteSet(K), NEW R, Ordering(K, R), NEW n \in Nat \ {0}
  PROVE  Cardinality(Recents(K, R, n)) <= n
<1> DEFINE Later(k) == {m \in K : <<k, m>> \in R}
           Few == {k \in K : Cardinality(Later(k)) < n}
           Counts == {c \in Nat : \E k \in Few : c = Cardinality(Later(k))}
<1>1. \A k \in K : IsFiniteSet(Later(k)) /\ Cardinality(Later(k)) \in Nat
  BY FS_Subset, FS_CardinalityType
<1>2. IsFiniteSet(Few)
  BY FS_Subset
<1>3. ASSUME Few = {} PROVE Cardinality(Few) <= n
  <2> HIDE DEF Few
  <2> QED
    BY <1>3, FS_EmptySet
<1>4. ASSUME Few # {} PROVE Cardinality(Few) <= n
  <2> HIDE DEF Later
  <2>1. Counts # {} /\ \A c \in Counts : c <= n
    BY <1>1, <1>4
  <2>2. IsFiniteSet(Counts)
    <3> HIDE DEF Counts
    <3>1. Counts \in SUBSET Nat /\ n \in Nat
      BY DEF Counts
    <3> QED
      BY <2>1, <3>1, FS_BoundedSetOfNaturals
  <2>3. PICK c \in Counts : \A d \in Counts : d <= c
    <3> HIDE DEF Counts
    <3>1. Counts \in SUBSET Nat
      BY DEF Counts
    <3> QED
      BY <2>1, <2>2, <3>1, GreatestExists
  <2>4. PICK k \in Few : c = Cardinality(Later(k))
    BY <2>3
  <2>5. ASSUME NEW m \in Few, m # k PROVE m \in Later(k)
    <3> SUFFICES ASSUME <<m, k>> \in R PROVE FALSE
      BY <2>5 DEF Later, Ordering
    <3>1. Later(k) \cup {k} \subseteq Later(m) /\ k \notin Later(k)
      BY DEF Later, Ordering
    <3>2. /\ Cardinality(Later(k) \cup {k}) = Cardinality(Later(k)) + 1
          /\ IsFiniteSet(Later(k) \cup {k})
      BY <1>1, <3>1, FS_AddElement
    <3>3. Cardinality(Later(k) \cup {k}) <= Cardinality(Later(m))
      BY <1>1, <3>1, FS_Subset
    <3>4. Cardinality(Later(m)) \in Counts
      BY <1>1
    <3>5. Cardinality(Later(m)) <= Cardinality(Later(k))
      BY <2>3, <2>4, <3>4
    <3> HIDE DEF Counts, Few
    <3>6. Cardinality(Later(m)) \in Nat /\ Cardinality(Later(k)) \in Nat
      BY <1>1 DEF Few
    <3> QED
      BY <3>2, <3>3, <3>5, <3>6
  <2>6. Few \subseteq Later(k) \cup {k}
    BY <2>5
  <2>7. /\ IsFiniteSet(Later(k) \cup {k})
        /\ Cardinality(Later(k) \cup {k}) <= Cardinality(Later(k)) + 1
    <3>1. IsFiniteSet(Later(k)) /\ Cardinality(Later(k)) \in Nat
      BY <1>1
    <3>2. /\ IsFiniteSet(Later(k) \cup {k})
          /\ Cardinality(Later(k) \cup {k}) =
               IF k \in Later(k) THEN Cardinality(Later(k)) ELSE Cardinality(Later(k)) + 1
      BY <3>1, FS_AddElement
    <3> QED
      BY <3>1, <3>2
  <2>8. Cardinality(Few) <= Cardinality(Later(k) \cup {k})
    <3> HIDE DEF Few
    <3> QED
      BY <2>6, <2>7, FS_Subset
  <2>9. Cardinality(Later(k)) \in Nat /\ Cardinality(Later(k)) < n
    BY <1>1
  <2>10. Cardinality(Few) \in Nat /\ Cardinality(Later(k) \cup {k}) \in Nat
    BY <1>2, <2>7, FS_CardinalityType
  <2> HIDE DEF Few
  <2> QED
    BY <2>7, <2>8, <2>9, <2>10
<1>5. Cardinality(Few) <= n
  <2> HIDE DEF Few
  <2> QED
    BY <1>3, <1>4
<1> QED
  BY <1>5 DEF Recents

LEMMA OrderingOfResults ==
  ASSUME NEW l, NEW W \in SUBSET Words
  PROVE  LET New == {l} \X W
         IN  Ordering(New, {p \in New \X New : p[1][2] < p[2][2]})
<1> DEFINE New == {l} \X W
           order == {p \in New \X New : p[1][2] < p[2][2]}
<1>1. ASSUME NEW k \in New PROVE k = <<l, k[2]>> /\ k[2] \in Nat
  <2>1. PICK w \in W : k = <<l, w>>
    OBVIOUS
  <2> QED
    BY <2>1, WordsAssumption
<1>2. order \subseteq New \X New
  OBVIOUS
<1>3. \A k, m \in New : <<k, m>> \in order <=> k[2] < m[2]
  OBVIOUS
<1> HIDE DEF New, order
<1>4. \A k, m \in New : k # m => k[2] # m[2]
  BY <1>1
<1>5. \A k \in New : k[2] \in Nat
  BY <1>1
<1>6. \A i, j, k \in Nat : ~(i < i) /\ (i # j => (i < j <=> ~(j < i))) /\ (i < j /\ j < k => i < k)
  OBVIOUS
<1>7. Ordering(New, order)
  <2>1. \A k \in New : <<k, k>> \notin order
    BY <1>3, <1>5, <1>6
  <2>2. \A k, m \in New : k # m => (<<k, m>> \in order <=> <<m, k>> \notin order)
    BY <1>3, <1>4, <1>5, <1>6
  <2>3. \A k, m, n \in New : <<k, m>> \in order /\ <<m, n>> \in order => <<k, n>> \in order
    BY <1>3, <1>5, <1>6
  <2> QED
    BY <1>2, <2>1, <2>2, <2>3 DEF Ordering
<1> QED
  BY <1>7 DEF New, order

\* The position i of block b is the last at which the blocks B show v.
LastAt(t, B, v, b, i) ==
  /\ b \in B /\ i \in DOMAIN t[b] /\ t[b][i] = v
  /\ \A c \in B : \A j \in DOMAIN t[c] : t[c][j] = v => c < b \/ (c = b /\ j <= i)

LEMMA LastExists ==
  ASSUME NEW t \in [Blocks -> BlockTexts], NEW B \in SUBSET Blocks, NEW v,
         NEW c \in B, v \in Range(t[c])
  PROVE  \E b \in B : \E i \in Nat : LastAt(t, B, v, b, i)
<1> DEFINE C == {d \in B : v \in Range(t[d])}
<1>1. C \in SUBSET Nat /\ IsFiniteSet(C) /\ C # {}
  BY BlocksAssumption, FinitenessAssumption, FS_Subset
<1>2. PICK b \in C : \A d \in C : d <= b
  <2> HIDE DEF C
  <2> QED
    BY <1>1, GreatestExists
<1>3. t[b] \in Seq(Words)
  BY BlockTextsAssumption
<1> DEFINE I == {i \in DOMAIN t[b] : t[b][i] = v}
<1>4. DOMAIN t[b] = 1..Len(t[b]) /\ Len(t[b]) \in Nat
  BY <1>3
<1>5. I \in SUBSET Nat /\ I # {} /\ IsFiniteSet(I)
  <2>1. I \subseteq 1..Len(t[b]) /\ I # {}
    BY <1>4 DEF Range
  <2>2. IsFiniteSet(1..Len(t[b]))
    BY <1>4, FS_Interval
  <2>3. 1..Len(t[b]) \subseteq Nat
    BY <1>4
  <2> HIDE DEF I
  <2>4. IsFiniteSet(I)
    BY <2>1, <2>2, FS_Subset
  <2> QED
    BY <2>1, <2>3, <2>4
<1>6. PICK i \in I : \A j \in I : j <= i
  <2> HIDE DEF I
  <2> QED
    BY <1>5, GreatestExists
<1>7. ASSUME NEW d \in B, NEW j \in DOMAIN t[d], t[d][j] = v PROVE d < b \/ (d = b /\ j <= i)
  <2>1. d \in C
    BY <1>7 DEF Range
  <2>2. d <= b /\ d \in Nat /\ b \in Nat
    BY <1>1, <1>2, <2>1
  <2>3. d = b => j \in I
    BY <1>7
  <2> HIDE DEF I
  <2> QED
    BY <1>6, <2>2, <2>3
<1> QED
  BY <1>5, <1>6, <1>7 DEF LastAt

LEMMA LastSeenBeforeIs ==
  ASSUME NEW t \in [Blocks -> BlockTexts], NEW B \in SUBSET Blocks, NEW v, NEW w,
         NEW b \in B, NEW i \in Nat, LastAt(t, B, v, b, i),
         NEW c \in B, NEW j \in Nat, LastAt(t, B, w, c, j)
  PROVE  LastSeenBefore(t, B, v, w) <=> b < c \/ (b = c /\ i < j)
<1>1. b \in Nat /\ c \in Nat
  BY BlocksAssumption
<1>2. \A d \in B : d \in Nat /\ \A k \in DOMAIN t[d] : k \in Nat
  <2>1. \A d \in B : t[d] \in Seq(Words)
    BY BlockTextsAssumption
  <2> QED
    BY <2>1, BlocksAssumption
<1>3. ASSUME LastSeenBefore(t, B, v, w) PROVE b < c \/ (b = c /\ i < j)
  <2>0. PICK d \in B : \E k \in DOMAIN t[d] :
          /\ t[d][k] = w
          /\ \A e \in B : \A m \in DOMAIN t[e] : t[e][m] = v => e < d \/ (e = d /\ m < k)
    BY <1>3 DEF LastSeenBefore
  <2>1. PICK k \in DOMAIN t[d] :
          /\ t[d][k] = w
          /\ \A e \in B : \A m \in DOMAIN t[e] : t[e][m] = v => e < d \/ (e = d /\ m < k)
    BY <2>0
  <2>2. (b < d \/ (b = d /\ i < k)) /\ (d < c \/ (d = c /\ k <= j))
    BY <2>1 DEF LastAt
  <2> QED
    BY <1>1, <1>2, <2>2
<1>4. ASSUME b < c \/ (b = c /\ i < j) PROVE LastSeenBefore(t, B, v, w)
  <2>1. ASSUME NEW e \in B, NEW m \in DOMAIN t[e], t[e][m] = v
        PROVE  e < c \/ (e = c /\ m < j)
    <3>1. e < b \/ (e = b /\ m <= i)
      BY <2>1 DEF LastAt
    <3> QED
      BY <1>1, <1>2, <1>4, <3>1
  <2>2. j \in DOMAIN t[c] /\ t[c][j] = w
    BY DEF LastAt
  <2> QED
    BY <2>1, <2>2 DEF LastSeenBefore
<1> QED
  BY <1>3, <1>4

LEMMA OrderingOfSeen ==
  ASSUME NEW t \in [Blocks -> BlockTexts], NEW B \in SUBSET Blocks, NEW l, NEW V,
         \A v \in V : \E c \in B : v \in Range(t[c])
  PROVE  LET T == {l} \X V
         IN  Ordering(T, {p \in T \X T : LastSeenBefore(t, B, p[1][2], p[2][2])})
<1> DEFINE T == {l} \X V
           order == {p \in T \X T : LastSeenBefore(t, B, p[1][2], p[2][2])}
           Before(v, w) == LastSeenBefore(t, B, v, w)
           block == [v \in V |-> CHOOSE b \in B : \E i \in Nat : LastAt(t, B, v, b, i)]
           place == [v \in V |-> CHOOSE i \in Nat : LastAt(t, B, v, block[v], i)]
<1>1. ASSUME NEW v \in V
      PROVE  block[v] \in B /\ place[v] \in Nat /\ LastAt(t, B, v, block[v], place[v])
  <2>1. \E b \in B : \E i \in Nat : LastAt(t, B, v, b, i)
    BY LastExists
  <2>2. block[v] \in B /\ \E i \in Nat : LastAt(t, B, v, block[v], i)
    BY <2>1, Zenon
  <2> HIDE DEF block
  <2> QED
    BY <2>2, Zenon
<1> HIDE DEF block, place
<1>2. ASSUME NEW v \in V, NEW w \in V
      PROVE  Before(v, w) <=> block[v] < block[w] \/ (block[v] = block[w] /\ place[v] < place[w])
  BY <1>1, LastSeenBeforeIs, Zenon
<1>3. ASSUME NEW v \in V, NEW w \in V, v # w
      PROVE  block[v] # block[w] \/ place[v] # place[w]
  BY <1>1, <1>3 DEF LastAt
<1>4. \A v \in V : block[v] \in Nat /\ place[v] \in Nat
  BY <1>1, BlocksAssumption
<1>5. \A k \in T : k[2] \in V
  OBVIOUS
<1>6. \A k, m \in T : k # m => k[2] # m[2]
  <2> SUFFICES ASSUME NEW k \in T, NEW m \in T, k[2] = m[2] PROVE k = m
    OBVIOUS
  <2>1. PICK v \in V : k = <<l, v>>
    OBVIOUS
  <2>2. PICK w \in V : m = <<l, w>>
    OBVIOUS
  <2> QED
    BY <2>1, <2>2
<1>7. \A k, m \in T : <<k, m>> \in order <=> Before(k[2], m[2])
  OBVIOUS
<1>8. order \subseteq T \X T
  OBVIOUS
<1> HIDE DEF T, order, Before
<1>9. \A v \in V : ~Before(v, v)
  BY <1>2, <1>4
<1>10. \A v, w \in V : v # w => (Before(v, w) <=> ~Before(w, v))
  BY <1>2, <1>3, <1>4
<1>11. \A u, v, w \in V : Before(u, v) /\ Before(v, w) => Before(u, w)
  BY <1>2, <1>4
<1>12. Ordering(T, order)
  <2>1. \A k \in T : <<k, k>> \notin order
    BY <1>5, <1>7, <1>9
  <2>2. \A k, m \in T : k # m => (<<k, m>> \in order <=> <<m, k>> \notin order)
    BY <1>5, <1>6, <1>7, <1>10
  <2>3. \A k, m, n \in T : <<k, m>> \in order /\ <<m, n>> \in order => <<k, n>> \in order
    BY <1>5, <1>7, <1>11
  <2> QED
    BY <1>8, <2>1, <2>2, <2>3 DEF Ordering
<1> QED
  BY <1>12 DEF T, order

\* The cache of the highlighter h: bounded, and strictly ordered by use.
Lru(h) ==
  /\ Ordering(DOMAIN h.statuses, h.older)
  /\ Cardinality(DOMAIN h.statuses) <= CacheSize

LEMMA LruMeans == Lru(hl) => CacheIsLru
BY DEF Lru, Ordering, CacheIsLru

LEMMA KeysAreFinite ==
  ASSUME NEW K \in SUBSET Key PROVE IsFiniteSet(K) /\ Cardinality(K) \in Nat
<1>1. IsFiniteSet(Key)
  BY FinitenessAssumption, FS_Product DEF Key
<1> QED
  BY <1>1, FS_Subset, FS_CardinalityType

LEMMA CachedKeys ==
  ASSUME NEW h \in Highlighter PROVE DOMAIN h.statuses \in SUBSET Key
BY DEF Highlighter, Statuses

LEMMA KeptLru ==
  ASSUME NEW h \in Highlighter, Lru(h), NEW K \in SUBSET DOMAIN h.statuses
  PROVE  Lru(Kept(h, K))
<1>1. /\ DOMAIN Kept(h, K).statuses = K
      /\ Kept(h, K).older = h.older \cap (K \X K)
  <2> DEFINE S == [k \in K |-> h.statuses[k]]
             O == h.older \cap (K \X K)
  <2>1. Kept(h, K) = [h EXCEPT !.statuses = S, !.older = O] /\ DOMAIN S = K
    BY DEF Kept
  <2> HIDE DEF S, O
  <2>2. Kept(h, K).statuses = S /\ Kept(h, K).older = O
    BY <2>1 DEF Highlighter
  <2> QED
    BY <2>1, <2>2 DEF O
<1>2. Ordering(K, h.older \cap (K \X K))
  BY OrderingOfPart DEF Lru
<1>3. Cardinality(K) <= Cardinality(DOMAIN h.statuses)
  BY CachedKeys, KeysAreFinite, FS_Subset
<1>4. Cardinality(K) \in Nat /\ Cardinality(DOMAIN h.statuses) \in Nat /\ CacheSize \in Nat
  BY CachedKeys, KeysAreFinite, CacheSizeAssumption
<1> QED
  BY <1>1, <1>2, <1>3, <1>4 DEF Lru

LEMMA HighlightedLru ==
  ASSUME NEW h \in Highlighter, Lru(h), NEW t \in [Blocks -> BlockTexts], NEW ign,
         NEW B \in SUBSET Blocks
  PROVE  Lru(Highlighted(h, t, ign, B))
<1> DEFINE V == UNION {{w \in Seen(t, ign, b) : Known(h, w)} : b \in B}
           T == {h.language} \X V
           order == {p \in T \X T : LastSeenBefore(t, B, p[1][2], p[2][2])}
           pass == IF h.enabled THEN Touched(h, T, order) ELSE h
           K == DOMAIN h.statuses
<1>1. Ordering(T, order)
  <2>1. \A v \in V : \E c \in B : v \in Range(t[c])
    BY DEF Seen
  <2> HIDE DEF V
  <2> QED
    BY <2>1, OrderingOfSeen
<1>2. T \subseteq K
  BY DEF Known
<1> DEFINE F == [b \in Blocks |-> IF b \notin B THEN pass.formats[b]
                 ELSE IF h.enabled
                 THEN {w \in Seen(t, ign, b) : Known(h, w) /\ ~h.statuses[<<h.language, w>>]}
                 ELSE {}]
<1>3. Highlighted(h, t, ign, B) = [pass EXCEPT !.formats = F]
  BY DEF Highlighted
<1> HIDE DEF F, T, order
<1>4. /\ Highlighted(h, t, ign, B).statuses = h.statuses
      /\ Highlighted(h, t, ign, B).older =
           IF h.enabled THEN MovedToEnd(h.older, K, T, order) ELSE h.older
  BY <1>3 DEF Touched, Highlighter
<1>5. K \cup T = K
  BY <1>2
<1>6. Ordering(K, MovedToEnd(h.older, K, T, order))
  BY <1>1, <1>5, OrderingAfterMove DEF Lru
<1> QED
  BY <1>4, <1>6 DEF Lru

LEMMA AllPutLru ==
  ASSUME NEW h \in Highlighter, Lru(h), NEW l \in Languages, NEW r \in Results
  PROVE  Lru(AllPut(h, l, r))
<1> DEFINE New == {l} \X DOMAIN r
           K == New \cup DOMAIN h.statuses
           order == {p \in New \X New : p[1][2] < p[2][2]}
           older == MovedToEnd(h.older, K, New, order)
           Recent == {k \in K : Cardinality({m \in K : <<k, m>> \in older}) < CacheSize}
           S == [k \in Recent |-> IF k \in New THEN r[k[2]] ELSE h.statuses[k]]
           O == older \cap (Recent \X Recent)
<1>1. DOMAIN r \in SUBSET Words
  BY DEF Results
<1>2. New \in SUBSET Key
  BY <1>1 DEF Key
<1>3. K \in SUBSET Key
  BY <1>2, CachedKeys
<1>4. Ordering(New, order)
  <2> HIDE DEF K, older, Recent, S, O
  <2> QED
    BY <1>1, OrderingOfResults
<1>5. AllPut(h, l, r) = [h EXCEPT !.statuses = S, !.older = O]
  BY DEF AllPut
<1>6. Recent \subseteq K /\ DOMAIN S = Recent
  OBVIOUS
<1>7. K = DOMAIN h.statuses \cup New
  OBVIOUS
<1> HIDE DEF S, O, order, New
<1>8. AllPut(h, l, r).statuses = S /\ AllPut(h, l, r).older = O
  BY <1>5 DEF Highlighter
<1>9. Ordering(K, older)
  <2>1. Ordering(DOMAIN h.statuses \cup New,
                 MovedToEnd(h.older, DOMAIN h.statuses \cup New, New, order))
    BY <1>4, OrderingAfterMove DEF Lru
  <2> HIDE DEF K
  <2> QED
    BY <1>7, <2>1
<1> HIDE DEF K, older
<1>10. Cardinality(Recent) <= CacheSize
  <2>1. IsFiniteSet(K) /\ CacheSize \in Nat \ {0}
    BY <1>3, KeysAreFinite, CacheSizeAssumption
  <2>2. Recent = Recents(K, older, CacheSize)
    BY DEF Recents
  <2> HIDE DEF Recent
  <2> QED
    BY <1>9, <2>1, <2>2, RecentAreFew
<1> HIDE DEF Recent
<1>11. Ordering(Recent, O)
  BY <1>6, <1>9, OrderingOfPart DEF O
<1> QED
  BY <1>6, <1>8, <1>10, <1>11 DEF Lru

\* Fields other than statuses and older do not matter.
LEMMA SameCacheLru ==
  ASSUME NEW h, NEW g, Lru(h), g.statuses = h.statuses, g.older = h.older PROVE Lru(g)
BY DEF Lru

LEMMA UserStepLru ==
  ASSUME TypeOK, Lru(hl), UserStep PROVE Lru(hl')
<1> USE DEF TypeOK
<1>1. ASSUME NEW b \in Blocks, NEW s \in BlockTexts, Edit(b, s) PROVE Lru(hl')
  <2>1. text' \in [Blocks -> BlockTexts] /\ hl' = Highlighted(hl, text', ignored, {b})
    BY <1>1 DEF Edit
  <2>2. \A t \in [Blocks -> BlockTexts] : Lru(Highlighted(hl, t, ignored, {b}))
    BY HighlightedLru
  <2> QED
    BY <2>1, <2>2
<1>2. ASSUME NEW t \in [Blocks -> BlockTexts], SetTokenizer(t) PROVE Lru(hl')
  BY <1>2, HighlightedLru DEF SetTokenizer, Repaint
<1>3. CASE Rehighlight
  BY <1>3, HighlightedLru DEF Rehighlight, Repaint
<1>4. ASSUME NEW l \in Languages, NEW ign \in SUBSET Ignorable, SetLanguage(l, ign)
      PROVE  Lru(hl')
  <2> DEFINE g == [hl EXCEPT !.language = l]
  <2>1. g \in Highlighter /\ g.statuses = hl.statuses /\ g.older = hl.older
    BY DEF Highlighter
  <2> HIDE DEF g
  <2>2. ClearedCache(g) \in Highlighter /\ Lru(ClearedCache(g))
    BY <2>1, SameCacheLru, KeptType, KeptLru DEF ClearedCache
  <2>3. hl' = Highlighted(ClearedCache(g), text, ign, Blocks)
    BY <1>4 DEF SetLanguage, Repaint, g
  <2> QED
    BY <2>2, <2>3, HighlightedLru
<1>5. ASSUME NEW on \in BOOLEAN, SetActive(on) PROVE Lru(hl')
  <2> DEFINE g == [hl EXCEPT !.enabled = on]
  <2>1. g \in Highlighter /\ g.statuses = hl.statuses /\ g.older = hl.older
    BY DEF Highlighter
  <2>2. hl' = Highlighted(g, text, ignored, Blocks)
    BY <1>5 DEF SetActive
  <2> HIDE DEF g
  <2> QED
    BY <2>1, <2>2, SameCacheLru, HighlightedLru
<1>6. CASE Detach
  <2>1. hl'.statuses = hl.statuses /\ hl'.older = hl.older
    BY <1>6 DEF Detach, Highlighter
  <2> QED
    BY <2>1, SameCacheLru
<1>7. ASSUME NEW d \in Documents, NEW t \in [Blocks -> BlockTexts],
             NEW ign \in SUBSET Ignorable, Attach(d, t, ign)
      PROVE  Lru(hl')
  BY <1>7, HighlightedLru DEF Attach
<1>8. ASSUME NEW w, NEW ign, InvalidateSpelling(w, ign) PROVE Lru(hl')
  <2>1. ForgottenWord(hl, w) \in Highlighter /\ Lru(ForgottenWord(hl, w))
    BY KeptType, KeptLru DEF ForgottenWord
  <2>2. hl' = Highlighted(ForgottenWord(hl, w), text, ign, BlocksContaining(text, w))
    BY <1>8 DEF InvalidateSpelling, Repaint
  <2> QED
    BY <2>1, <2>2, HighlightedLru DEF BlocksContaining
<1>9. CASE InvalidateAll
  <2>1. ClearedCache(hl) \in Highlighter /\ Lru(ClearedCache(hl))
    BY KeptType, KeptLru DEF ClearedCache
  <2> QED
    BY <1>9, <2>1, HighlightedLru DEF InvalidateAll, Repaint
<1>10. ASSUME hl' = hl PROVE Lru(hl')
  BY <1>10
<1> QED
  BY <1>1, <1>2, <1>3, <1>4, <1>5, <1>6, <1>7, <1>8, <1>9, <1>10
     DEF UserStep, ChangePersonal, ChangeIgnored, HostFlush, HostCancel

LEMMA LruInductive == TypeOK /\ Lru(hl) /\ [Next]_vars => TypeOK' /\ Lru(hl)'
<1> SUFFICES ASSUME TypeOK, Lru(hl), [Next]_vars PROVE TypeOK' /\ Lru(hl')
  OBVIOUS
<1>1. ASSUME NEW j \in JobIds, ApplyResults(j) PROVE Lru(hl')
  <2> DEFINE h == AllPut(hl, jobs[j].locale, jobs[j].results)
  <2>1. jobs[j] \in Job
    BY <1>1, RunningIsJob, StateIsNotFree DEF ApplyResults
  <2>2. h \in Highlighter /\ Lru(h)
    BY <2>1, AllPutType, AllPutLru DEF TypeOK, Job
  <2>3. hl' = Highlighted(h, text, ignored, Blocks)
    BY <1>1 DEF ApplyResults
  <2> HIDE DEF h
  <2> QED
    BY <2>2, <2>3, HighlightedLru DEF TypeOK
<1>2. ASSUME hl' = hl PROVE Lru(hl')
  BY <1>2
<1>3. Lru(hl')
  BY <1>1, <1>2, UserStepLru DEF Next, TimerFires, WorkerStep, CheckWord, CheckFails,
     EmitCompleted, Deliver, DiscardResults, JobFailed, vars
<1> QED
  BY <1>3, TypeInductive

LEMMA InitLru == Init => Lru(hl)
<1> SUFFICES ASSUME Init PROVE Lru(hl)
  OBVIOUS
<1>1. hl.statuses = [k \in {} |-> TRUE] /\ hl.older = {}
  BY DEF Init
<1>2. DOMAIN hl.statuses = {}
  BY <1>1
<1>3. Cardinality({}) = 0 /\ 0 <= CacheSize
  BY FS_EmptySet, CacheSizeAssumption
<1> QED
  BY <1>1, <1>2, <1>3 DEF Lru, Ordering

\* The batches, the repaints and the invalidations never let the cache grow beyond
\* its size nor leave two entries unordered, for any texts, blocks and cache size:
\* what the next batch evicts is never arbitrary.
THEOREM CacheStaysLru == Spec => []CacheIsLru
<1>1. Init => TypeOK /\ Lru(hl)
  BY InitType, InitLru
<1>2. TypeOK /\ Lru(hl) /\ [Next]_vars => (TypeOK /\ Lru(hl))'
  BY LruInductive
<1>3. TypeOK /\ Lru(hl) => CacheIsLru
  BY LruMeans
<1> QED
  BY <1>1, <1>2, <1>3, PTL DEF Spec
=============================================================================
