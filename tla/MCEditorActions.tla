-------------------------- MODULE MCEditorActions --------------------------
(* A small text for EditorActions: a letter, and a letter with its mark; *)
(* a word is right in one language only, and the name of a third is      *)
(* refused.  The thesaurus is asked for one word and for two at once.    *)
EXTENDS EditorActions, TLC
CONSTANTS l1, l2, l3, d1, d2

MCTexts == {<<"e", " ", "e", "^">>}
MCTyped == {" "}
MCOffered == {<<"W">>}
MCLooked == {<<"W">>, <<"e", " ", "e">>}
MCOfficial(l) == IF l = l1 THEN {<<"W">>} ELSE {<<"e">>}
DocumentSymmetry == Permutations({d1, d2})

\* An empty text, in which one letter is typed and erased.
MCEmpty == {<<>>}
MCLetter == {"e"}
=============================================================================
