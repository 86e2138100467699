------------------------ MODULE MCDictionaryManager ------------------------
(***************************************************************************)
(* Instances of DictionaryManager for TLC: the bundles a user may choose.   *)
(***************************************************************************)
EXTENDS DictionaryManager

CONSTANTS d1, d2

Spelling(aff) == ("aff" :> aff) @@ ("dic" :> "good")
Thesaurus(idx) == ("dat" :> "good") @@ ("idx" :> idx)

\* A spelling dictionary that may become unusable while it is copied, one file of a
\* dictionary, and a thesaurus whose index the engine does without.
MCUserFiles == {Spelling("good"), Spelling("unloadable"), "dic" :> "good",
                Thesaurus("displaced")}

\* Two bundles that compete for one name, one of the other component beside them, and
\* an incomplete one.
MCRequests == {<<Spelling("good"), "es">>, <<Thesaurus("displaced"), "es">>,
               <<Thesaurus("displaced"), "fr">>, <<"dic" :> "good", "fr">>}
=============================================================================
