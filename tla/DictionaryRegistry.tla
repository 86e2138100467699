------------------------- MODULE DictionaryRegistry -------------------------
(***************************************************************************)
(* DictionaryRegistry of registry.py: how candidates of several providers  *)
(* become one resource per locale and component, and the registry's own    *)
(* state as a record on which its operations are operators.  The service   *)
(* module runs them in several threads.                                    *)
(*                                                                         *)
(* A candidate offers one component (spelling or thesaurus) of one locale  *)
(* from one source; a candidate of the code that has both is two here.     *)
(* Its path stands for its files.                                          *)
(***************************************************************************)
EXTENDS Integers, Sequences, FiniteSets, SequencesExt

CONSTANTS
    Sources,        \* names of the providers
    Priority,       \* their priorities
    LanguageOf,     \* locale -> its language, itself a locale
    Nothing         \* no candidate, no path, no snapshot

Components == {"spelling", "thesaurus"}
AllLocales == DOMAIN LanguageOf

ASSUME RegistryAssumption ==
    /\ Priority \in [Sources -> Int]
    /\ LanguageOf \in [AllLocales -> AllLocales]
    /\ \A l \in AllLocales : LanguageOf[LanguageOf[l]] = LanguageOf[l]
    /\ IsFiniteSet(Sources) /\ IsFiniteSet(AllLocales)

Resources == Sources \X AllLocales \X Components
Candidates == [source : Sources, locale : AllLocales, component : Components]
Path(x) == <<x.source, x.locale, x.component>>
Paths == Resources

ASSUME NothingAssumption == Nothing \notin Candidates \cup Paths

\* items without those in gone, in their order.
Without(items, gone) ==
    LET upTo[i \in 0..Len(items)] ==
            IF i = 0 THEN <<>>
            ELSE IF items[i] \in gone THEN upTo[i - 1] ELSE Append(upTo[i - 1], items[i])
    IN  upTo[Len(items)]

---------------------------------------------------------------------------
(* Selection.                                                              *)

\* Mutant of Prefer: the last of equals wins.
Prefer_LastOfEquals(selected, x) ==
    IF \/ selected[x.locale, x.component] = Nothing
       \/ Priority[x.source] >= Priority[selected[x.locale, x.component].source]
    THEN [selected EXCEPT ![<<x.locale, x.component>>] = x]
    ELSE selected

\* A candidate replaces the selected one if its priority is strictly greater.
Prefer(selected, x) ==
    IF \/ selected[x.locale, x.component] = Nothing
       \/ Priority[x.source] > Priority[selected[x.locale, x.component].source]
    THEN [selected EXCEPT ![<<x.locale, x.component>>] = x]
    ELSE selected

NoSelection == [k \in AllLocales \X Components |-> Nothing]
Select(candidates) == FoldLeft(Prefer, NoSelection, candidates)

\* The candidate for a locale, or the one of its language where allowed.
Component(l, c, selected, allowFallback) ==
    IF selected[l, c] # Nothing \/ ~allowFallback
    THEN selected[l, c]
    ELSE selected[LanguageOf[l], c]

\* DictionaryInfo: the files of each component, or Nothing.
MakeInfo(l, selected, allowFallback) ==
    [c \in Components |->
        LET x == Component(l, c, selected, allowFallback)
        IN  IF x = Nothing THEN Nothing ELSE Path(x)]

NoInfo == [c \in Components |-> Nothing]

---------------------------------------------------------------------------
(* The registry: the names of its providers in order, the selection of the *)
(* cached discovery or Nothing, and the revision.                          *)

NewRegistry(names) ==
    [providers |-> names, selected |-> Nothing, revision |-> Len(names)]

\* Nothing is cached any more, and the maps are empty until a discovery.
Invalidate(reg) ==
    [reg EXCEPT !.selected = Nothing, !.revision = reg.revision + 1]

AddProvider(reg, s) ==
    Invalidate([reg EXCEPT !.providers = Append(reg.providers, s)])

RemoveProviders(reg, s) ==
    IF s \in Range(reg.providers)
    THEN Invalidate([reg EXCEPT !.providers = Without(reg.providers, {s})])
    ELSE reg

\* What one provider finds: its resources on disk, in some order.
Found(s, disk) ==
    SetToSeq({[source |-> r[1], locale |-> r[2], component |-> r[3]] :
                 r \in {x \in disk : x[1] = s}})

\* Querying the providers in order.  One that raises is skipped when errors are
\* tolerated: it contributes nothing, as if its files were absent.
Query(names, disk) == FlattenSeq([i \in 1..Len(names) |-> Found(names[i], disk)])

StoreDiscovery(reg, candidates) ==
    [reg EXCEPT !.selected = Select(candidates), !.revision = reg.revision + 1]

\* The second half of get: reading the maps, empty after an invalidation.
InfoOf(reg, l) ==
    IF reg.selected = Nothing THEN NoInfo ELSE MakeInfo(l, reg.selected, TRUE)

---------------------------------------------------------------------------
(* Property of the selection.                                              *)

\* Whatever the order in which candidates arrive, the one selected for a locale
\* and component has the highest priority offered there, the first registered of
\* equals; a locale without its own gets its language's, and never the reverse
\* (_prefer and _component; dictionary-registry.md, "Duplicate priority").
SelectionFollowsPriority(maxLength) ==
    \A n \in 0..maxLength : \A cs \in [1..n -> Candidates] :
        LET sel == Select(cs)
            Best(l, c) == {i \in 1..n :
                /\ cs[i].locale = l /\ cs[i].component = c
                /\ \A j \in 1..n : cs[j].locale = l /\ cs[j].component = c =>
                       \/ Priority[cs[i].source] > Priority[cs[j].source]
                       \/ Priority[cs[i].source] = Priority[cs[j].source] /\ i <= j}
            Expected(l, c) == IF Best(l, c) = {} THEN {}
                              ELSE {Path(cs[i]) : i \in Best(l, c)}
            Got(l, c, fallback) == LET p == MakeInfo(l, sel, fallback)[c]
                                   IN  IF p = Nothing THEN {} ELSE {p}
        IN  \A l \in AllLocales, c \in Components :
                /\ Got(l, c, FALSE) = Expected(l, c)
                /\ Got(l, c, TRUE) = IF Expected(l, c) # {} THEN Expected(l, c)
                                     ELSE Expected(LanguageOf[l], c)
=============================================================================
