-------------------------------- MODULE Booking --------------------------------
(***************************************************************************)
(* What PretixTransactionBooker does with one order: the row of its        *)
(* payment in transactions and the rows of its refunds.  An order is what  *)
(* a page of pretix says of it; several payments of a kind count as their  *)
(* sum, a refund stands for its local id.                                  *)
(***************************************************************************)
EXTENDS Naturals

CONSTANTS
  Refunds,         \* refunds that are done and of more than nothing
  PaypalRefunds,   \* those PayPal has paid
  ImportPaypal,    \* import_paypal_orders of the connection
  None

\* bank and paypal: what the confirmed payments of each kind come to; both zero: no list
\* of confirmed payments, and total and provider of the order are all there is.
Content == [status : {"p", "n", "c", "e"}, bank : Nat, paypal : Nat, total : Nat,
            provider : {"bank", "paypal"}, back : SUBSET Refunds]

ASSUME BookingAssumption ==
  /\ PaypalRefunds \subseteq Refunds /\ ImportPaypal \in BOOLEAN
  /\ None \notin Content /\ None \notin {"S", "P", "V", "D"} /\ None \notin Nat

\* The rows of an order: status and amount of the payment (None: no row), its refunds.
Books == [status : {"S", "P", "V", "D", None}, gross : Nat, back : SUBSET Refunds]
Unbooked == [status |-> None, gross |-> 0, back |-> {}]

MapStatus == [s \in {"p", "n", "c", "e"} |->
                CASE s = "p" -> "S" [] s = "n" -> "P" [] s = "c" -> "V" [] OTHER -> "D"]

\* receivedMoney(): None if all of it comes in through the PayPal sync.
Money(c) ==
  LET share == IF ImportPaypal THEN c.bank + c.paypal ELSE c.bank
  IN IF c.bank + c.paypal = 0
       THEN IF c.provider = "paypal" /\ ~ImportPaypal THEN None ELSE c.total
       ELSE IF share = 0 THEN None ELSE share

\* bookRefunds(): rows are added by their local id, and never taken away.
Refunded(c) == IF ImportPaypal THEN c.back ELSE c.back \ PaypalRefunds

\* Whether book() gets to the refunds: there is a payment to book, or one that was booked
\* and is no longer paid.
Rebooks(b, c) == IF c.status = "p" THEN Money(c) # None ELSE b.status # None

\* The row of the payment: booked, or its status mirrored.
Row(b, c) == IF c.status = "p" THEN [b EXCEPT !.status = "S", !.gross = Money(c)]
                               ELSE [b EXCEPT !.status = MapStatus[c.status]]
AddRefunds(b, c) == [b EXCEPT !.back = @ \cup Refunded(c)]

Book(b, c) == IF Rebooks(b, c) THEN AddRefunds(Row(b, c), c) ELSE b

\* A settlement leaves out payments that are denied or pending.
Counts(b) == b.status \in {"S", "V"}
=============================================================================
