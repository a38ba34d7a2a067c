-------------------------- MODULE ConfirmationDesk --------------------------
(***************************************************************************)
(* What PaymentMarker promises to the people behind the orders, without a  *)
(* word about how: an order is confirmed because of some money, at most    *)
(* once, and a confirmation once given stays on record.                    *)
(***************************************************************************)
EXTENDS Naturals

CONSTANT Orders

VARIABLE given    \* order -> number of confirmations on record for it

DeskInit == given = [o \in Orders |-> 0]

Give(o) == /\ given[o] = 0
           /\ given' = [given EXCEPT ![o] = 1]

DeskNext == \E o \in Orders : Give(o)

DeskSpec == DeskInit /\ [][DeskNext]_given
=============================================================================
