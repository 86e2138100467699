------------------------ MODULE DictionaryValidation ------------------------
(***************************************************************************)
(* DictionaryValidator of validation.py and the discovery of a directory   *)
(* (providers.py), as operators on what the files of one bundle are like.  *)
(*                                                                         *)
(* A bundle is a function from the files that are there (the .aff and .dic *)
(* of a spelling dictionary, the .dat and .idx of a thesaurus) to what a   *)
(* reader makes of them.  A file whose name discovery skips (hyph_*, a     *)
(* .dat without th_) is "stray".                                           *)
(***************************************************************************)
EXTENDS Integers, Sequences, FiniteSets, SequencesExt

Kinds == [aff |-> {"good", "no SET", "unknown codec", "unloadable"},
          dic |-> {"good", "undecodable", "uncounted", "miscounted", "rootless"},
          dat |-> {"good", "undecodable", "unloadable", "empty"},
          idx |-> {"good", "miscounted", "malformed", "displaced"},
          stray |-> {"good"}]
Files == DOMAIN Kinds

\* The directories that may be staged: each of its files of one kind, or absent.
AllBundles ==
    LET OrAbsent(f) == Kinds[f] \cup {"absent"} IN
    {[f \in {g \in Files : r[g] # "absent"} |-> r[f]] :
        r \in [aff : OrAbsent("aff"), dic : OrAbsent("dic"), dat : OrAbsent("dat"),
               idx : OrAbsent("idx"), stray : OrAbsent("stray")]}

Is(b, f, kinds) == f \in DOMAIN b /\ b[f] \in kinds

---------------------------------------------------------------------------
(* Discovery: a spelling dictionary needs both of its files, a thesaurus   *)
(* its .dat only.                                                          *)

FilesOf(component) == IF component = "spelling" THEN {"aff", "dic"} ELSE {"dat", "idx"}
Needed(component) == IF component = "spelling" THEN {"aff", "dic"} ELSE {"dat"}
Offers(b) == {c \in {"spelling", "thesaurus"} : Needed(c) \subseteq DOMAIN b}

\* The files of its candidates.
Recognized(b) == UNION {FilesOf(c) \cap DOMAIN b : c \in Offers(b)}

---------------------------------------------------------------------------
(* Reports.                                                                *)

Check(code, status) == <<[code |-> code, status |-> status]>>
Fails(checks) == \E i \in DOMAIN checks : checks[i].status = "FAIL"
Warns(checks) == \E i \in DOMAIN checks : checks[i].status = "WARNING"

\* Stages of checks, up to and with the first that fails: the early returns.
UpToFailure(stages) ==
    LET Before(i) == \A j \in 1..(i - 1) : ~Fails(stages[j])
    IN  FlattenSeq([i \in 1..Len(stages) |-> IF Before(i) THEN stages[i] ELSE <<>>])

Status(checks) == IF Fails(checks) THEN "FAIL" ELSE IF Warns(checks) THEN "WARNING" ELSE "PASS"
PassIf(good) == IF good THEN "PASS" ELSE "FAIL"
WarnUnless(good) == IF good THEN "PASS" ELSE "WARNING"

\* validate_spelling; requested tells how the representative words of the caller
\* fare: "none" were given, "accepted" or "rejected".
SpellingChecks(b, requested) ==
    UpToFailure(<<
        Check("aff_exists", PassIf("aff" \in DOMAIN b))
            \o Check("dic_exists", PassIf("dic" \in DOMAIN b)),
        Check("encoding_declaration",
              IF Is(b, "aff", {"unknown codec"}) THEN "FAIL"
              ELSE WarnUnless(~Is(b, "aff", {"no SET"}))),
        Check("dictionary_decoding", WarnUnless(~Is(b, "dic", {"undecodable"})))
            \o Check("entry_count", WarnUnless(~Is(b, "dic", {"uncounted", "miscounted"})))
            \o Check("engine_load", PassIf(~Is(b, "aff", {"unloadable"}))),
        Check("representative_words",
              CASE requested = "rejected" -> "FAIL"
                [] requested = "accepted" -> "PASS"
                [] OTHER -> WarnUnless(~Is(b, "dic", {"rootless"})))>>)

\* Mutant of ThesaurusChecks: what the engine says of the data is not looked at.
ThesaurusChecks_NoLoad(b) ==
    UpToFailure(<<
        Check("dat_exists", PassIf("dat" \in DOMAIN b)),
        Check("encoding_declaration", PassIf(~Is(b, "dat", {"undecodable"}))),
        Check("representative_entries", PassIf(~Is(b, "dat", {"empty"})))>>)

\* validate_thesaurus.  An index is compared with its count even when that is wrong,
\* and the engine recovers from one it cannot use.  A displaced index counts as one that
\* the eight sampled entries show; what the engine warns of is its own, although the
\* code collects it from the whole process (validation.py:417).
ThesaurusChecks(b) ==
    UpToFailure(<<
        Check("dat_exists", PassIf("dat" \in DOMAIN b)),
        Check("idx_exists", WarnUnless("idx" \in DOMAIN b))
            \o Check("encoding_declaration", PassIf(~Is(b, "dat", {"undecodable"}))),
        (IF "idx" \in DOMAIN b
         THEN Check("index_count", WarnUnless(~Is(b, "idx", {"miscounted", "malformed"})))
         ELSE <<>>)
            \o (IF Is(b, "idx", {"good", "miscounted", "displaced"})
                THEN Check("sampled_offsets", WarnUnless(~Is(b, "idx", {"displaced"})))
                ELSE <<>>)
            \o Check("engine_load", IF Is(b, "dat", {"unloadable"}) THEN "FAIL"
                                    ELSE WarnUnless(~Is(b, "idx", Kinds.idx \ {"good"}))),
        Check("representative_entries", PassIf(~Is(b, "dat", {"empty"})))>>)

\* validate_candidates, for the candidates of one directory.
Reports(b) == {IF c = "spelling" THEN SpellingChecks(b, "none") ELSE ThesaurusChecks(b) :
                  c \in Offers(b)}

BundleStatus(b) ==
    IF Reports(b) = {} THEN "FAIL" ELSE Status(FlattenSeq(SetToSeq(Reports(b))))

\* What an import asks of the directory it has staged.
Importable(b) ==
    /\ Offers(b) # {} /\ Recognized(b) = DOMAIN b
    /\ BundleStatus(b) # "FAIL"

---------------------------------------------------------------------------
(* Property of the reports.                                                *)

\* What the checks should make of a bundle, and the bundles they misreport.
EngineOpens(b, c) ==
    IF c = "spelling" THEN ~Is(b, "aff", {"unknown codec", "unloadable"})
    ELSE ~Is(b, "dat", {"undecodable", "unloadable", "empty"})
Flawless(b) == (\A f \in DOMAIN b : b[f] = "good") /\ ("dat" \in DOMAIN b => "idx" \in DOMAIN b)

Rejects(b) ==
    \/ "stray" \in DOMAIN b \/ DOMAIN b = {}
    \/ {"aff", "dic"} \cap DOMAIN b \in {{"aff"}, {"dic"}}
    \/ "idx" \in DOMAIN b /\ "dat" \notin DOMAIN b
    \/ \E c \in Offers(b) : ~EngineOpens(b, c)

Misreported ==
    {b \in AllBundles :
        \/ Importable(b) <=> Rejects(b)
        \/ Importable(b) /\ (BundleStatus(b) = "PASS" <=> ~Flawless(b))
        \/ /\ "spelling" \in Offers(b)
           /\ \/ ~Fails(SpellingChecks(b, "rejected"))
              \/ Fails(SpellingChecks(b, "accepted")) <=> EngineOpens(b, "spelling")}
=============================================================================
