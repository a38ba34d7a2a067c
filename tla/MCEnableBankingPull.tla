------------------------ MODULE MCEnableBankingPull ------------------------
(***************************************************************************)
(* Instances of EnableBankingPull for TLC.                                 *)
(***************************************************************************)
EXTENDS EnableBankingPull, TLC

CONSTANTS a1, s1, s2

\* The first consent has a deadline (Dated), the second none; both cover the one account.
OneAccount == [t \in {s1, s2} |-> <<a1>>]
=============================================================================
