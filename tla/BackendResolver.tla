--------------------------- MODULE BackendResolver ---------------------------
(***************************************************************************)
(* BackendResolver of resolver.py: which registered backend serves a       *)
(* dictionary.  The result names the backend, why it was taken, and whether *)
(* it is the fallback; or it is the error that was raised.                 *)
(***************************************************************************)
EXTENDS Naturals

CONSTANTS
    Backends,       \* names a caller may ask for
    Default,        \* the portable backend of the resolver
    Unspecified     \* no backend was asked for

ASSUME ResolverAssumption == Default \in Backends /\ Unspecified \notin Backends

\* What a registration answers: unknown if there is none, the two inexpensive
\* checks (an exception counts as a no), and what its factory does.
Standing == {"unknown", "unavailable", "incompatible", "raises", "wrong type", "ok"}

\* _selectable, before the factory is called.
Selectable(registered, name) ==
    registered[name] \notin {"unknown", "unavailable", "incompatible"}

Failed(reason) == [backend |-> Unspecified, code |-> reason, fallback |-> FALSE]

\* _build_resolution: the factory may raise or return something else.
Build(registered, name, code, fallback) ==
    IF registered[name] = "ok"
    THEN [backend |-> name, code |-> code, fallback |-> fallback]
    ELSE Failed("factory")

\* Mutant of Resolve: the default serves a caller who allowed no fallback.
Resolve_AlwaysFallsBack(registered, requested, allowFallback) ==
    LET candidate == IF requested = Unspecified THEN Default ELSE requested
        code == IF requested = Unspecified THEN "default" ELSE "requested"
    IN  IF Selectable(registered, candidate)
        THEN Build(registered, candidate, code, FALSE)
        ELSE IF Selectable(registered, Default)
        THEN Build(registered, Default, registered[candidate], TRUE)
        ELSE Failed(registered[candidate])

Resolve(registered, requested, allowFallback) ==
    LET candidate == IF requested = Unspecified THEN Default ELSE requested
        code == IF requested = Unspecified THEN "default" ELSE "requested"
    IN  IF Selectable(registered, candidate)
        THEN Build(registered, candidate, code, FALSE)
        ELSE IF ~allowFallback \/ candidate = Default
        THEN Failed(registered[candidate])
        ELSE IF Selectable(registered, Default)
        THEN Build(registered, Default, registered[candidate], TRUE)
        ELSE Failed(registered[candidate])

\* Whatever is registered: a resolution names a backend that can serve the
\* dictionary, the one asked for if it can, and another only as the announced
\* fallback to the default, with the reason; and there is one unless every backend
\* that may be taken is unusable or the one selected cannot be built (resolve).
HonestResolutions ==
    \A registered \in [Backends -> Standing], allow \in BOOLEAN,
       requested \in Backends \cup {Unspecified} :
        LET r == Resolve(registered, requested, allow)
            wanted == IF requested = Unspecified THEN Default ELSE requested
            unusable == registered[wanted] \in {"unknown", "unavailable", "incompatible"}
        IN  /\ r.backend # Unspecified =>
                 /\ registered[r.backend] = "ok"
                 /\ r.fallback <=> r.backend # wanted
                 /\ r.fallback => allow /\ r.backend = Default /\ r.code = registered[wanted]
            /\ registered[wanted] = "ok" => r.backend = wanted
            /\ (unusable /\ allow /\ registered[Default] = "ok") => r.backend = Default
=============================================================================
