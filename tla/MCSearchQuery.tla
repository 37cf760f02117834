---------------------------- MODULE MCSearchQuery ----------------------------
(* Two accounts of the user and one of somebody else; five messages, of which  *)
(* two were sent at the same time and one is undated; and the queries.         *)
EXTENDS SearchQuery, TLC

CONSTANTS
    a, b, z,       \* accounts
    p, q, r, x,    \* folders: two of a, one of b, one of z
    work, home,    \* names
    inbox, any, no \* what folder hints look for

MCOwned == {a, b}
MCAccountOf == (p :> a) @@ (q :> a) @@ (r :> b) @@ (x :> z)
MCMessage == 1..5
MCHome == <<a, a, b, b, z>>
MCSent == <<2, 2, 1, Undated, 2>>
MCAddress == <<3, 1, 2, 5, 4>>
MCFinds == (inbox :> {p, x}) @@ (any :> {p, q, r, x}) @@ (no :> {})
MCPlaces == {<<{p}, {q}, {r}, {r}, {x}>>, <<{p, q}, {p}, {r}, {}, {x}>>}

Plus(n) == [negated |-> FALSE, name |-> n]
Minus(n) == [negated |-> TRUE, name |-> n]
In(n) == [negated |-> FALSE, needle |-> n]
NotIn(n) == [negated |-> TRUE, needle |-> n]
Text(neg, ms) == [negated |-> neg, kind |-> "text", docs |-> ms]
Date(neg, bnd, d) == [negated |-> neg, kind |-> "date", bound |-> bnd, day |-> d]

MCAccountHints == {{}, {Plus(work)}, {Minus(work)}, {Plus(home), Minus(work)}, {Plus(home), Plus(work)}}
MCFolderHints ==
    {{}, {In(any)}, {NotIn(inbox)}, {In(any), NotIn(inbox)}, {In(any), In(inbox)}, {In(no)}, {NotIn(no)}}
MCResidual ==
    {{}, {Text(FALSE, {1, 3, 4, 5})}, {Text(TRUE, {1})}, {Date(FALSE, "on", 1)},
     {Date(FALSE, "before", 1)}, {Date(FALSE, "after", 0), Text(TRUE, {1})}, {Date(TRUE, "on", 0)}}
MCQueries == [accounts : MCAccountHints, folders : MCFolderHints, residual : MCResidual]
=============================================================================
