---------------------------- MODULE MCPaypalSync ----------------------------
(***************************************************************************)
(* Instances of PaypalSync for TLC.                                        *)
(***************************************************************************)
EXTENDS PaypalSync, TLC

CONSTANTS s1, s2, p1, p2, p3, e1, e2

\* p1 is reported twice, and its CSV row is as old as the first report; p2's CSV row has no
\* date that could be read and its first report cannot be read at all, nor can p3's CSV row.
ThreePayments == {p1, p2, p3}
Versions == [t \in ThreePayments |-> IF t = p3 THEN 0 ELSE 2]
Dates == [r \in Revisions |-> IF r = <<p2, 0>> THEN None ELSE IF r[2] < 2 THEN 1 ELSE 2]
Unreadable == {<<p2, 1>>, <<p3, 0>>}
TwoFiles == {{<<p1, 0>>, <<p3, 0>>}, {<<p2, 0>>}}

\* A window holds one payment.  Of the first span the window of p1 and p2 is split in vain.
\* Of the second it is split in two that hold one each, and the last window is cut off: p2
\* lies on the instant the two share.
Places == [t \in ThreePayments |-> IF t = p1 THEN 0 ELSE 2]
SomeSpans == {[lo |-> 0, hi |-> 5], [lo |-> -1, hi |-> 3]}
OneStep == <<2>>

\* One payment, reported twice, that keeps its place.
OnePayment == {p1}
TwoVersions == [t \in OnePayment |-> 2]
VersionDates == [r \in Revisions |-> r[2]]
AtZero == [t \in OnePayment |-> 0]
Instant == {[lo |-> 0, hi |-> 1]}
=============================================================================
