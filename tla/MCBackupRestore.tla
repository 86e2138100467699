-------------------------- MODULE MCBackupRestore --------------------------
(***************************************************************************)
(* Instances of BackupRestore for TLC: the values of its constants.         *)
(***************************************************************************)
EXTENDS BackupRestore

CONSTANTS ann, bob, es, fr, it, w

Disk(a, b, c) == [l \in Locales |-> CASE l = es -> a [] l = fr -> b [] OTHER -> c]
Entry(l, words) == [locale |-> l, words |-> words]

MCPlan(anns, bobs, scopes, edited, disks, files) ==
    [ops |-> (ann :> anns) @@ (bob :> bobs), scopes |-> scopes, edited |-> edited,
     disks |-> disks, files |-> files]

\* A restore of three locales beside a mutation of one; two restores of two, one of
\* which may not be readable; an export and a restore of it by another process; and
\* backups that cannot be read or name a locale twice.
MCPlans ==
    {MCPlan({"merge", "replace"}, {"add", "remove"}, {{es, fr, it}}, {es},
            {Disk({}, {w}, Absent)},
            {<<Entry(es, {w}), Entry(fr, {}), Entry(it, {w})>>}),
     MCPlan({"replace", "add"}, {"merge", "remove"}, {{es, fr}, {}}, {fr},
            {Disk({}, {w}, Absent), Disk({w}, Malformed, {})},
            {<<Entry(es, {w}), Entry(fr, {})>>}),
     MCPlan({"export", "export all"}, {"replace", "add"}, {{es, fr}}, {es},
            {Disk({w}, Absent, {})},
            {Absent, Malformed, <<Entry(es, {w}), Entry(es, {})>>})}
=============================================================================
