-------------------------- MODULE MCPaypalSchedule --------------------------
(***************************************************************************)
(* An instance of PaypalSchedule for TLC: the lookback is just long enough.*)
(***************************************************************************)
EXTENDS PaypalSchedule, TLC

JustEnough == Delay + Vain * Cycle + ToDispatch
=============================================================================
