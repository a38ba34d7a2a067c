----------------------------- MODULE MCImportJob -----------------------------
(***************************************************************************)
(* Instances of ImportJob for TLC.  The margin is twice the timeout, as    *)
(* the hour is of the half hour.                                           *)
(***************************************************************************)
EXTENDS ImportJob, TLC

CONSTANTS j1, j2, A, r

\* An order by bank transfer: open, paid, cancelled with the money given back, paid with a
\* part of it given back, or open again after a refund.
Open == [status |-> "n", bank |-> 0, paypal |-> 0, total |-> 30, provider |-> "bank", back |-> {}]
Paid == [Open EXCEPT !.status = "p", !.bank = 30]
Cancelled == [Open EXCEPT !.status = "c", !.back = {r}]
Reopened == [Open EXCEPT !.back = {r}]

Partly == [Paid EXCEPT !.back = {r}]

UpToCancelled == {Open, Paid, Partly, Cancelled}
ToCancelled == {<<None, Open>>, <<Open, Paid>>, <<Paid, Partly>>, <<Paid, Cancelled>>}
UpToReopened == {Paid, Reopened}
ToReopened == {<<None, Paid>>, <<Paid, Reopened>>}

Interchangeable == Permutations(Jobs)
=============================================================================
