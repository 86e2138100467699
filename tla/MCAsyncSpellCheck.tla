------------------------- MODULE MCAsyncSpellCheck -------------------------
(***************************************************************************)
(* Instances of AsyncSpellCheck for TLC: the values of its constants.      *)
(***************************************************************************)
EXTENDS AsyncSpellCheck

CONSTANTS en, es, d1, none

\* One block that is empty or holds two words, in two languages.
MCWords == 1..2
MCTexts == {<<>>, <<2, 1>>}
MCLanguages == {en, es}
MCEngine == [l \in {en, es} |-> IF l = en THEN {1} ELSE {}]

\* Two blocks of one word each, out of three.
MCThreeWords == 1..3
MCSingles == {<<>>, <<1>>, <<2>>, <<3>>}
MCLanguage == {en}
MCEngineOfThree == [l \in {en} |-> {1}]
=============================================================================
