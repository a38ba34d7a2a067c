---------------------------- MODULE PaymentBook ----------------------------
(***************************************************************************)
(* What TransactionUpserter promises of the PayPal payments, as if every   *)
(* upsert were one step: a payment is shown in one revision, a revision    *)
(* that is not older takes the place of the one shown, an older one is     *)
(* only kept, and the event a person chose goes over to the revision that  *)
(* is shown next.                                                          *)
(***************************************************************************)
EXTENDS Integers

CONSTANTS Revisions, Events, None,
          Payment,      \* revision -> the payment it is of
          Date,         \* revision -> its date, or None
          Losses        \* TRUE: a payment may drop out of what is shown

VARIABLES
  stored,    \* the revisions that are kept
  shown      \* revision that shows its payment -> the event a person chose, or None

book == <<stored, shown>>

BookInit == stored = {} /\ shown = [r \in {} |-> None]

Rival(r, q) == q \in DOMAIN shown /\ Payment[q] = Payment[r]
Older(r, q) == Date[r] # None /\ Date[q] # None /\ Date[r] < Date[q]

\* The first revision of a payment, or the first after a loss.
Enter(r) ==
  /\ \A q \in Revisions : ~Rival(r, q)
  /\ shown' = [x \in DOMAIN shown \cup {r} |-> IF x = r THEN None ELSE shown[x]]

Replace(r, q) ==
  /\ Rival(r, q) /\ ~Older(r, q)
  /\ shown' = [x \in (DOMAIN shown \ {q}) \cup {r} |-> IF x = r THEN shown[q] ELSE shown[x]]

Keep(r, q) == Rival(r, q) /\ Older(r, q) /\ UNCHANGED shown

Store(r) ==
  /\ stored' = stored \cup {r}
  /\ Enter(r) \/ \E q \in Revisions : Replace(r, q) \/ Keep(r, q)

Choose(r, e) == shown' = [shown EXCEPT ![r] = e] /\ UNCHANGED stored

\* A failure or a death between two statements leaves a payment without a revision that
\* shows it.
Lose(r) ==
  /\ Losses
  /\ shown' = [x \in DOMAIN shown \ {r} |-> shown[x]] /\ UNCHANGED stored

BookNext ==
  \/ \E r \in Revisions \ stored : Store(r)
  \/ \E r \in DOMAIN shown : Lose(r) \/ \E e \in Events : Choose(r, e)

BookSpec == BookInit /\ [][BookNext]_book
=============================================================================
