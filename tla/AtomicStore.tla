---------------------------- MODULE AtomicStore ----------------------------
(***************************************************************************)
(* What backup and restore promise of a store of personal dictionaries     *)
(* (docs/personal-backups.md, "Transaction and concurrency behavior"): a    *)
(* restore of several locales happens as a whole, on the words of that      *)
(* moment, or not at all; a mutation of one locale never interleaves with  *)
(* it; an export is the store at one moment.  Only a process that dies      *)
(* while it publishes, or a rollback that fails, tears a restore.          *)
(***************************************************************************)
EXTENDS Integers, Sequences, FiniteSets

CONSTANTS Processes, Locales, Words, Absent, Malformed

VARIABLES
    stored,     \* stored[l]: the words of a locale, Absent or Malformed
    backup,     \* the words by locale in the backup file, Absent or Malformed
    request,    \* request[p]: what p asked for, while that is not decided
    decision    \* decision[p]: how p's last request was decided

Operations == {"add", "remove", "merge", "replace", "export", "export all"}
NoRequest == [op |-> "none", words |-> <<>>]

WordsOf(content) == IF content = Absent THEN {} ELSE content

\* What a decided request leaves in one of its locales.
Effect(r, l, content) ==
    CASE r.op \in {"merge", "add"} -> WordsOf(content) \cup r.words[l]
      [] r.op = "remove" -> WordsOf(content) \ r.words[l]
      [] r.op = "replace" -> r.words[l]

\* What a request leaves when it reaches the locales of S only.  A mutation that
\* has nothing to change does not write the file.
After(r, S, content) ==
    [l \in Locales |->
        IF \/ l \notin S
           \/ r.op \in {"add", "remove"} /\ Effect(r, l, content[l]) = WordsOf(content[l])
        THEN content[l] ELSE Effect(r, l, content[l])]

Init ==
    /\ stored \in [Locales -> (SUBSET Words) \cup {Absent, Malformed}]
    /\ request = [p \in Processes |-> NoRequest]
    /\ decision = [p \in Processes |-> "none"]

\* A request is anything, but a restore takes its words from the backup of then.
Requests ==
    UNION {[op : Operations, words : [S -> SUBSET Words]] : S \in SUBSET Locales}

Submit(p) ==
    /\ request[p] = NoRequest
    /\ decision' = [decision EXCEPT ![p] = "none"]
    /\ UNCHANGED <<stored, backup>>
    /\ \E r \in Requests :
        /\ request' = [request EXCEPT ![p] = r]
        /\ r.op \in {"merge", "replace"} =>
               /\ backup \notin {Absent, Malformed}
               /\ \A l \in DOMAIN r.words : l \in DOMAIN backup /\ r.words[l] = backup[l]

Decide(p, how) ==
    /\ request[p] # NoRequest
    /\ request' = [request EXCEPT ![p] = NoRequest]
    /\ decision' = [decision EXCEPT ![p] = how]

\* The locales a request is about: an export of everything takes those stored.
Scope(r) == IF r.op = "export all" THEN {l \in Locales : stored[l] # Absent}
            ELSE DOMAIN r.words

\* The request takes effect in all its locales at once.
Commit(p) ==
    LET r == request[p] IN
    /\ Decide(p, "done")
    /\ \A l \in Scope(r) : stored[l] # Malformed
    /\ IF r.op \in {"export", "export all"}
       THEN /\ backup' = [l \in Scope(r) |-> WordsOf(stored[l])]
            /\ UNCHANGED stored
       ELSE /\ stored' = After(r, Scope(r), stored)
            /\ UNCHANGED backup

Refuse(p) == Decide(p, "failed") /\ UNCHANGED <<stored, backup>>

\* Some locales have been reached and others not.
Tear(p) ==
    /\ Decide(p, "torn")
    /\ request[p].op \in {"merge", "replace"}
    /\ \E S \in SUBSET DOMAIN request[p].words : stored' = After(request[p], S, stored)
    /\ UNCHANGED backup

Next == \E p \in Processes : Submit(p) \/ Commit(p) \/ Refuse(p) \/ Tear(p)

Spec == Init /\ [][Next]_<<stored, backup, request, decision>>
=============================================================================
