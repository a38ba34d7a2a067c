------------------------------ MODULE LinkBook ------------------------------
(***************************************************************************)
(* What BankReconciler promises of bank lines and the payments of the app: *)
(* a line may be linked to a transaction that fits it; then neither is     *)
(* linked to anything else, and the link is never changed or taken back.   *)
(***************************************************************************)
CONSTANTS Lines,
          Fits      \* line -> the transactions it may stand for

VARIABLE links      \* pairs of a line and the transaction it is linked to

LinkInit == links = {}

Link(l, t) ==
  /\ \A x \in links : x[1] # l /\ x[2] # t
  /\ links' = links \cup {<<l, t>>}

LinkNext == \E l \in Lines : \E t \in Fits[l] : Link(l, t)

LinkSpec == LinkInit /\ [][LinkNext]_links
=============================================================================
