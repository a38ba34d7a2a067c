-------------------------- MODULE MCPaymentMarker --------------------------
(***************************************************************************)
(* Instances of PaymentMarker for TLC.  Two orders of one event share the  *)
(* order code: the second belongs to another connection, so the code alone *)
(* is ambiguous once both are imported.  The first has two payments that   *)
(* may be pending at the same time.                                        *)
(***************************************************************************)
EXTENDS PaymentMarker, TLC

CONSTANTS w1, w2, o1, o2, p1, p2, good, cent, less, debit

\* Two orders, their payments, one credit that fits - a cent off, within the
\* tolerance - and one that does not; evidence from the journal (code only), from a bank row (code and place)
\* and without a code.
TwoOrders == {o1, o2}
TwoOrdersCode == [o \in TwoOrders |-> "A"]
TwoOrdersConn == [o \in TwoOrders |-> IF o = o1 THEN "k1" ELSE "k2"]
TwoOrdersSlug == [o \in TwoOrders |-> "s"]
TwoOrdersTotal == [o \in TwoOrders |-> IF o = o1 THEN 1000 ELSE None]
TwoOrdersPayments == {p1, p2}
TwoOrdersOf == [p \in TwoOrdersPayments |-> o1]
TwoOrdersPay == [p \in TwoOrdersPayments |-> 1000]
SerialCredits == {cent, less, debit}
Journal(c) == [credit |-> c, code |-> "A", conn |-> None, slug |-> None]
Bank(c) == [credit |-> c, code |-> "A", conn |-> "k1", slug |-> "s"]
NoCode(c) == [credit |-> c, code |-> None, conn |-> None, slug |-> None]
SerialEvidence == {Journal(cent), Bank(less), Bank(debit), NoCode(cent)}
ByPull(ev) == [ev |-> ev, automatic |-> TRUE, allow |-> FALSE]
ByHand(ev, allow) == [ev |-> ev, automatic |-> FALSE, allow |-> allow]
Confused(ev) == [ev |-> ev, automatic |-> TRUE, allow |-> TRUE]
SerialCalls == {ByPull(Journal(cent)), ByHand(Bank(less), TRUE), Confused(Bank(less)),
                ByHand(Bank(debit), TRUE), ByPull(NoCode(cent))}

\* One order with two pending payments.
OneOrder == {o1}
OneOrderCode == [o \in OneOrder |-> "A"]
OneOrderConn == [o \in OneOrder |-> "k1"]
OneOrderSlug == [o \in OneOrder |-> "s"]
OneOrderTotal == [o \in OneOrder |-> 1000]
OneOrderPayments == {p1, p2}
OneOrderOf == [p \in OneOrderPayments |-> o1]
OneOrderPay == [p \in OneOrderPayments |-> IF p = p1 THEN 1000 ELSE 700]
TwoEqual == [p \in OneOrderPayments |-> 1000]

\* The pull and a person act on the same credit; or the pull alone.
GoodCredits == {good}
GoodEvidence == {Journal(good)}
GoodCalls == {ByPull(Journal(good)), ByHand(Journal(good), FALSE)}

Cents == (good :> 1000) @@ (cent :> 1001) @@ (less :> 700) @@ (debit :> -1000)
SerialAmount == [c \in SerialCredits |-> Cents[c]]
GoodAmount == [c \in GoodCredits |-> Cents[c]]

\* 10.00 and 10.01: the float difference is 0.00999... and passes for equal.
Slack == {<<1000, 1001>>, <<1001, 1000>>}

NoChanges == {}
Refunded == {<<"p", "n">>}

Interchangeable == Permutations(Workers)
=============================================================================
