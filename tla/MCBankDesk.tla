----------------------------- MODULE MCBankDesk -----------------------------
(***************************************************************************)
(* Instances of BankDesk for TLC.                                          *)
(***************************************************************************)
EXTENDS BankDesk, TLC

CONSTANTS r1, u, l1, l2, pay, book, A

\* Two credits of one amount, the second of an earlier value date; one payout fits both
\* - and may be revised - and the first also quotes a booked transfer.  Both quote the
\* one open order of that amount.
TwoLines == {l1, l2}
BothOrOne == {{l1}, {l1, l2}}
Dates == [l \in TwoLines |-> IF l = l1 THEN 2 ELSE 1]
PayoutOfBoth == [l \in TwoLines |-> {pay}]
TransferOfFirst == [l \in TwoLines |-> IF l = l1 THEN {book} ELSE {}]
Revisions == [p \in {pay, book} |-> IF p = pay THEN 2 ELSE 1]
AFits == [l \in TwoLines |-> {A}]
=============================================================================
