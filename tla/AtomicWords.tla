---------------------------- MODULE AtomicWords ----------------------------
(***************************************************************************)
(* What a personal dictionary shared by several instances promises         *)
(* (docs/personal-dictionary.md, "Safe persistence"): the stored words     *)
(* change only by a requested mutation, applied as a whole to the latest   *)
(* stored words, and a mutation reported as failed changed nothing.        *)
(***************************************************************************)
CONSTANTS Instances, Words

VARIABLES
  stored,    \* the words a reader finds on disk
  request,   \* request[i]: what i asked for, while that is not decided
  outcome    \* outcome[i]: how i's last mutation was decided

vars == <<stored, request, outcome>>

Requests == [kind : {"add", "remove", "clear"}, words : SUBSET Words]

NoRequest == [kind |-> "none", words |-> {}]

Effect(r, S) ==
  CASE r.kind = "add" -> S \cup r.words
    [] r.kind = "remove" -> S \ r.words
    [] r.kind = "clear" -> {}

Init ==
  /\ stored \subseteq Words
  /\ request = [i \in Instances |-> NoRequest]
  /\ outcome = [i \in Instances |-> "none"]

Submit(i, r) ==
  /\ request[i] = NoRequest
  /\ request' = [request EXCEPT ![i] = r]
  /\ outcome' = [outcome EXCEPT ![i] = "none"]
  /\ UNCHANGED stored

\* The mutation takes effect.
Apply(i) ==
  /\ request[i] # NoRequest
  /\ stored' = Effect(request[i], stored)
  /\ request' = [request EXCEPT ![i] = NoRequest]
  /\ outcome' = [outcome EXCEPT ![i] = "done"]

Fail(i) ==
  /\ request[i] # NoRequest
  /\ request' = [request EXCEPT ![i] = NoRequest]
  /\ outcome' = [outcome EXCEPT ![i] = "failed"]
  /\ UNCHANGED stored

\* The process of i ends before its mutation is decided.
Lose(i) ==
  /\ request[i] # NoRequest
  /\ request' = [request EXCEPT ![i] = NoRequest]
  /\ UNCHANGED <<stored, outcome>>

Next ==
  \E i \in Instances :
    (\E r \in Requests : Submit(i, r)) \/ Apply(i) \/ Fail(i) \/ Lose(i)

Spec == Init /\ [][Next]_vars
=============================================================================
