----------------------------- MODULE MCJournal -----------------------------
(***************************************************************************)
(* Instances of Journal for TLC.                                           *)
(***************************************************************************)
EXTENDS Journal, TLC

CONSTANTS x1, x2, u, l1, l2, l3, A, B

Purpose(exact, normalised, fuzzy) ==
  [exact |-> exact, normalised |-> normalised, fuzzy |-> fuzzy]

\* l1 quotes both orders, l2 quotes one and comes close to the other.
Lines2 == {l1, l2}
Reads2 == [l \in Lines2 |-> IF l = l1 THEN Purpose({A, B}, {A, B}, {})
                                      ELSE Purpose({A}, {A}, {B})]
Fit2 == [l \in Lines2 |-> IF l = l1 THEN {A, B} ELSE {A}]

\* Three credits, of which two may meet on either order; no line fits both.
Lines3 == {l1, l2, l3}
Reads3 == [l \in Lines3 |-> IF l = l3 THEN Purpose({}, {B}, {}) ELSE Reads2[l]]
Fit3 == [l \in Lines3 |-> IF l = l3 THEN {B} ELSE {A}]

Interchangeable == Permutations(Pulls)

Arrive == {<<None, "n">>, <<"n", "p">>}
=============================================================================
