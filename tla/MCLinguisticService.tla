------------------------ MODULE MCLinguisticService ------------------------
(***************************************************************************)
(* Instances of LinguisticService for TLC: the values of its constants.    *)
(***************************************************************************)
EXTENDS LinguisticService

CONSTANTS ann, bob, e1, e2, e3

\* A regional locale and its language; sources of unequal and equal priority.
MCLanguageOf == [l \in {"es_EC", "es"} |-> "es"]
MCPriority == [s \in Sources |-> IF s = "user" THEN 2 ELSE 1]

\* The user's dictionary overrides the system's while its provider is registered, and so
\* does the user's thesaurus: one call may then evict the engine of another.
MCDictionaries == {<<"system", "es", "spelling">>, <<"user", "es_EC", "spelling">>}
MCThesaurus == {<<"system", "es", "thesaurus">>, <<"user", "es_EC", "thesaurus">>}

MCStandings == {[b \in Backends |-> "ok"], [b \in Backends |-> "unavailable"]}

\* A host thread beside a worker that asks for suggestions; one that retries what
\* failed beside a worker that checks words; two threads that use a thesaurus.
MCPlan(anns, bobs, disk) ==
    [calls |-> (ann :> anns) @@ (bob :> bobs), disks |-> {disk}]
MCPlans ==
    {MCPlan({"refresh", "mutate", "close"}, {"suggest"}, MCDictionaries),
     MCPlan({"retry", "language"}, {"check", "suggest"}, MCDictionaries),
     MCPlan({"lookup"}, {"lookup"}, MCThesaurus)}

\* Engines are interchangeable.
MCSymmetry == Permutations(Engines)
=============================================================================
