------------------------ MODULE MCPersonalDictionary ------------------------
(***************************************************************************)
(* Instances of PersonalDictionary for TLC: the values of its constants.   *)
(***************************************************************************)
EXTENDS PersonalDictionary, TLC

CONSTANTS ana, ben, eva

MCWords == {"a", "b"}
MCWordLists == {{"a"}, {"b"}}
MCWordList == {{"a"}}

MCAllCalls == {"add", "remove", "clear", "refresh", "reload"}
=============================================================================
