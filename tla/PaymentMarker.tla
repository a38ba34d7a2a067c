--------------------------- MODULE PaymentMarker ---------------------------
(***************************************************************************)
(* The one place that decides whether money that arrived may mark a pretix *)
(* order as paid: PaymentMarker::mark(), together with the HTTP calls of   *)
(* PretixClient it makes, the local copy of the orders it reads, the log   *)
(* of PretixPaymentConfirmation rows it writes, and pretix itself.         *)
(*                                                                         *)
(* mark() runs without a transaction or a lock, in a scheduled pull and in *)
(* web requests at the same time.  Each caller is a worker; the handler is *)
(* cut where another worker, the order import or pretix can get in         *)
(* between: before every database read that matters and every HTTP call.   *)
(***************************************************************************)
EXTENDS Integers, Sequences, FiniteSets

CONSTANTS
  Workers,        \* callers that can be inside mark() at the same time
  Credits,        \* bank movements: journal entries and rows of the books
  Orders,         \* orders that exist in pretix
  Payments,       \* payments pretix may come to hold for them
  Codes, Conns, Slugs,
  Evidence,       \* the PaymentEvidence values callers pass in
  Calls,          \* the calls of mark() that are made: evidence and two flags
  CodeOf, ConnOf, SlugOf,   \* order -> order code, connection, event slug
  Total,          \* order -> its total in cents, or NoTotal
  OrderOf, PayAmount,       \* payment -> its order, its amount in cents
  Amount,         \* credit -> its amount in cents, negative for a debit
  CentSlack,      \* pairs one cent apart whose float difference is <= 0.01
  Changes,        \* status changes of orders in pretix, as <<from, to>>
  Imported,       \* orders the local copy holds at the start
  Late,           \* payments that are started only later
  MaxRecords,     \* bound on the length of the log
  None

Statuses == {"n", "p", "e", "c"}     \* pending, paid, expired, canceled
Reasons  == {"order_unknown", "amount_mismatch", "already_confirmed",
             "event_unknown", "event_switch_off", "order_not_open",
             "no_pending_payment", "pretix_refused", "not_paid_after_confirm",
             "exact_amount_and_code", "amount_mismatch_accepted"}
Outcomes == {"skipped", "failed", "confirmed"}

ASSUME ConstantsAssumption ==
  /\ None \notin Codes \cup Conns \cup Slugs \cup Orders \cup Payments
  /\ None \notin Statuses \cup Reasons \cup Outcomes
  /\ CodeOf \in [Orders -> Codes] /\ ConnOf \in [Orders -> Conns]
  /\ SlugOf \in [Orders -> Slugs]
  /\ Total \in [Orders -> Nat \cup {None}]
  /\ OrderOf \in [Payments -> Orders] /\ PayAmount \in [Payments -> Nat]
  /\ Amount \in [Credits -> Int]
  /\ CentSlack \subseteq Int \X Int /\ \A pair \in CentSlack : pair[1] - pair[2] \in {-1, 1}
  /\ Evidence \subseteq [credit : Credits, code : Codes \cup {None},
                         conn : Conns \cup {None}, slug : Slugs \cup {None}]
  /\ Changes \subseteq Statuses \X Statuses
  /\ Calls \subseteq [ev : Evidence, automatic : BOOLEAN, allow : BOOLEAN]
  /\ Imported \subseteq Orders /\ Late \subseteq Payments
  /\ MaxRecords \in Nat

VARIABLES
  worker,     \* worker -> where its call of mark() stands, and its locals
  log,        \* pretix_payment_confirmations, in insertion order
  local,      \* order -> status of the local copy, None before its import
  page,       \* order and status the running order import has read, or None
  autoMark,   \* slug -> "off"/"on" as the event's auto_mark_paid, None: no event
  remote,     \* order -> status in pretix
  payment,    \* payment -> its state in pretix
  everPaid    \* orders pretix has carried as paid at some time (history)

vars == <<worker, log, local, page, autoMark, remote, payment, everPaid>>
pretixVars == <<remote, payment, everPaid>>

(***************************************************************************)
(* Data.                                                                   *)
(***************************************************************************)

\* A call of mark(): its arguments, then what it has learned so far.  "status"
\* is the order's status as it was when findOrder() loaded the row.
Idle == [pc |-> "idle", ev |-> None, automatic |-> FALSE, allow |-> FALSE,
         order |-> None, status |-> None, payment |-> None,
         verified |-> FALSE, outcome |-> None, reason |-> None]

Jobs == [pc : {"idle", "find", "check", "ask", "confirm", "verify", "settle", "record"},
         ev : Evidence \cup {None}, automatic : BOOLEAN, allow : BOOLEAN,
         order : Orders \cup {None}, status : Statuses \cup {None},
         payment : Payments \cup {None}, verified : BOOLEAN,
         outcome : Outcomes \cup {None}, reason : Reasons \cup {None}]

Records == [credit : Credits, order : Orders \cup {None}, outcome : Outcomes,
            reason : Reasons, automatic : BOOLEAN,
            payment : Payments \cup {None}, verified : BOOLEAN]

\* A payment in pretix: not there yet, pending or created, confirmed by one of
\* our calls, or closed in any other way (paid otherwise, canceled, failed).
PaymentStates == {"none", "pending", "booked", "closed"}

TypeOK ==
  /\ worker \in [Workers -> Jobs]
  /\ log \in Seq(Records)
  /\ local \in [Orders -> Statuses \cup {None}]
  /\ page \in [order : Orders, status : Statuses] \cup {None}
  /\ autoMark \in [Slugs -> {"off", "on", None}]
  /\ remote \in [Orders -> Statuses]
  /\ payment \in [Payments -> PaymentStates]
  /\ everPaid \subseteq Orders

\* abs($a - $b) > TOLERANCE is FALSE: equal, or one cent apart where the
\* binary fractions happen to differ by no more than 0.01.
Fits(a, b) == a = b \/ <<a, b>> \in CentSlack

FitsTotal(o, c) == Total[o] = None \/ Fits(Total[o], Amount[c])
FitsPayment(p, c) == Fits(PayAmount[p], Amount[c])

\* findOrder(): the orders TxWatch knows under the evidence's code, narrowed by
\* connection and slug where the evidence has them.
Found(ev) == {o \in Orders : /\ local[o] # None
                             /\ CodeOf[o] = ev.code
                             /\ ev.conn # None => ConnOf[o] = ev.conn
                             /\ ev.slug # None => SlugOf[o] = ev.slug}

\* Mutant of Confirmed: an accepted deviation is not seen as a confirmation.
ConfirmedExactly(o) ==
  \E i \in DOMAIN log : log[i].reason = "exact_amount_and_code" /\ log[i].order = o

\* alreadyConfirmed(): asked of the log, never of a flag on the transaction.
Confirmed(o) == \E i \in DOMAIN log : log[i].outcome = "confirmed" /\ log[i].order = o

\* lastRecordFor(): the latest row for this very money.
IsLastFor(i, c) == /\ i \in DOMAIN log /\ log[i].credit = c
                   /\ \A k \in DOMAIN log : log[k].credit = c => k <= i

\* Mutant of LocalRefusal: the log is not asked whether the order was confirmed.
LocalRefusalWithoutRecord(j) ==
  IF j.automatic /\ autoMark[SlugOf[j.order]] = None THEN "event_unknown"
  ELSE IF j.automatic /\ autoMark[SlugOf[j.order]] = "off" THEN "event_switch_off"
  ELSE IF j.status # "n" THEN "order_not_open"
  ELSE IF ~FitsTotal(j.order, j.ev.credit) /\ ~j.allow THEN "amount_mismatch"
  ELSE None

\* The refusals mark() decides without asking pretix, in the code's order.
LocalRefusal(j) ==
  IF Confirmed(j.order) THEN "already_confirmed"
  ELSE IF j.automatic /\ autoMark[SlugOf[j.order]] = None THEN "event_unknown"
  ELSE IF j.automatic /\ autoMark[SlugOf[j.order]] = "off" THEN "event_switch_off"
  ELSE IF j.status # "n" THEN "order_not_open"
  ELSE IF ~FitsTotal(j.order, j.ev.credit) /\ ~j.allow THEN "amount_mismatch"
  ELSE None

(***************************************************************************)
(* The handler.                                                            *)
(***************************************************************************)

Init ==
  /\ worker = [w \in Workers |-> Idle]
  /\ log = <<>>
  /\ local = [o \in Orders |-> IF o \in Imported THEN "n" ELSE None]
  /\ page = None
  /\ autoMark \in [Slugs -> {"off", "on", None}]
  /\ remote = [o \in Orders |-> "n"]
  /\ payment = [p \in Payments |-> IF p \in Late THEN "none" ELSE "pending"]
  /\ everPaid = {}

At(w, pc) == worker[w].pc = pc
Goto(w, job) == worker' = [worker EXCEPT ![w] = job]

\* Mutant of Verdict: the reason is lost on the way to the log.
VerdictWithoutReason(w, outcome, reason, job) ==
  Goto(w, [job EXCEPT !.pc = "record", !.outcome = outcome])

\* The call has its answer; what is left is to write it down.
Verdict(w, outcome, reason, job) ==
  Goto(w, [job EXCEPT !.pc = "record", !.outcome = outcome, !.reason = reason])

RoomInLog == Len(log) < MaxRecords

\* Mutant of Armed: the override reaches the automation.
ArmedForAll(call) == call.allow

\* A caller enters mark().  The override for a deviating amount is disarmed
\* for the automation, whatever the caller passed.
Armed(call) == call.allow /\ ~call.automatic
Begin(w, call) ==
  /\ At(w, "idle")
  /\ RoomInLog
  /\ Goto(w, [Idle EXCEPT !.pc = "find", !.ev = call.ev,
                          !.automatic = call.automatic, !.allow = Armed(call)])
  /\ UNCHANGED <<log, local, page, autoMark, pretixVars>>

\* Blank code, money out, and no or more than one order: refused before anything
\* else is looked at.  Otherwise the order row is loaded, with its status.
Debit(ev) == Amount[ev.credit] <= 0
FindOrder(w) ==
  LET j == worker[w] IN
  /\ At(w, "find")
  /\ \/ /\ j.ev.code = None
        /\ Verdict(w, "skipped", "order_unknown", j)
     \/ /\ j.ev.code # None /\ Debit(j.ev)
        /\ Verdict(w, "skipped", "amount_mismatch", j)
     \/ /\ j.ev.code # None /\ ~Debit(j.ev)
        /\ \A o \in Orders : Found(j.ev) # {o}
        /\ Verdict(w, "skipped", "order_unknown", j)
     \/ /\ j.ev.code # None /\ ~Debit(j.ev)
        /\ \E o \in Orders :
             /\ Found(j.ev) = {o}
             /\ Goto(w, [j EXCEPT !.pc = "check", !.order = o, !.status = local[o]])
  /\ UNCHANGED <<log, local, page, autoMark, pretixVars>>

CheckLocally(w) ==
  LET j == worker[w] IN
  /\ At(w, "check")
  /\ IF LocalRefusal(j) # None
       THEN Verdict(w, "skipped", LocalRefusal(j), j)
       ELSE Goto(w, [j EXCEPT !.pc = "ask"])
  /\ UNCHANGED <<log, local, page, autoMark, pretixVars>>

\* pendingBankPayment(): the first open transfer payment pretix lists, or none -
\* which is also what an unreachable pretix looks like.  Its amount is checked
\* again, against the payment that would be confirmed.
AskPending(w) ==
  LET j == worker[w] IN
  /\ At(w, "ask")
  /\ \/ Verdict(w, "skipped", "no_pending_payment", j)
     \/ \E p \in Payments :
          /\ payment[p] = "pending" /\ OrderOf[p] = j.order
          /\ IF FitsPayment(p, j.ev.credit) \/ j.allow
               THEN Goto(w, [j EXCEPT !.pc = "confirm", !.payment = p])
               ELSE Verdict(w, "skipped", "amount_mismatch", [j EXCEPT !.payment = p])
  /\ UNCHANGED <<log, local, page, autoMark, pretixVars>>

\* What the confirmation does in pretix, when it does something: the payment is
\* confirmed, and the order becomes paid - or stays as it was.
Book(p) ==
  /\ payment[p] = "pending"
  /\ payment' = [payment EXCEPT ![p] = "booked"]
  /\ \/ /\ remote' = [remote EXCEPT ![OrderOf[p]] = "p"]
        /\ everPaid' = everPaid \cup {OrderOf[p]}
     \/ UNCHANGED <<remote, everPaid>>

\* confirmPayment(): accepted; or accepted and the answer lost on the way; or
\* refused, or never arrived.  The last three are the same failure to the caller.
Accepted(w) ==
  LET j == worker[w] IN
  /\ At(w, "confirm")
  /\ Book(j.payment)
  /\ Goto(w, [j EXCEPT !.pc = "verify"])
  /\ UNCHANGED <<log, local, page, autoMark>>

AnswerLost(w) ==
  LET j == worker[w] IN
  /\ At(w, "confirm")
  /\ Book(j.payment)
  /\ Verdict(w, "failed", "pretix_refused", j)
  /\ UNCHANGED <<log, local, page, autoMark>>

\* Mutant of Refused: the success flag of the answer is not looked at.
RefusedTakenAsAccepted(w) ==
  LET j == worker[w] IN
  /\ At(w, "confirm")
  /\ Goto(w, [j EXCEPT !.pc = "verify"])
  /\ UNCHANGED <<log, local, page, autoMark, pretixVars>>

Refused(w) ==
  LET j == worker[w] IN
  /\ At(w, "confirm")
  /\ Verdict(w, "failed", "pretix_refused", j)
  /\ UNCHANGED <<log, local, page, autoMark, pretixVars>>

\* Mutant of Verify: any status that can be read counts as paid.
VerifyAnyAnswer(w) ==
  LET j == worker[w] IN
  /\ At(w, "verify")
  /\ \E seen \in BOOLEAN : Goto(w, [j EXCEPT !.pc = "settle", !.verified = seen])
  /\ UNCHANGED <<log, local, page, autoMark, pretixVars>>

\* orderStatus(): pretix is asked again.  A readable status other than paid is a
\* failure; no answer lets the confirmation stand, marked as unverified.
Verify(w) ==
  LET j == worker[w] IN
  /\ At(w, "verify")
  /\ \/ Goto(w, [j EXCEPT !.pc = "settle", !.verified = FALSE])
     \/ /\ remote[j.order] = "p"
        /\ Goto(w, [j EXCEPT !.pc = "settle", !.verified = TRUE])
     \/ /\ remote[j.order] # "p"
        /\ Verdict(w, "failed", "not_paid_after_confirm", j)
  /\ UNCHANGED <<log, local, page, autoMark, pretixVars>>

\* The local copy follows at once, and the accepted deviations name the reason.
Deviates(j) == ~FitsTotal(j.order, j.ev.credit) \/ ~FitsPayment(j.payment, j.ev.credit)
Settle(w) ==
  LET j == worker[w] IN
  /\ At(w, "settle")
  /\ local' = [local EXCEPT ![j.order] = "p"]
  /\ Verdict(w, "confirmed", IF Deviates(j) THEN "amount_mismatch_accepted"
                                            ELSE "exact_amount_and_code", j)
  /\ UNCHANGED <<log, page, autoMark, pretixVars>>

\* record(): a row per attempt - except that the automation does not repeat the
\* last answer it gave for the same money.
Row(j) == [credit |-> j.ev.credit, order |-> j.order, outcome |-> j.outcome,
           reason |-> j.reason, automatic |-> j.automatic,
           payment |-> j.payment, verified |-> j.verified]
Repeats(j) == \E i \in DOMAIN log : /\ IsLastFor(i, j.ev.credit)
                                    /\ log[i].outcome = j.outcome
                                    /\ log[i].reason = j.reason
Record(w) ==
  LET j == worker[w] IN
  /\ At(w, "record")
  /\ log' = IF j.automatic /\ Repeats(j) THEN log ELSE Append(log, Row(j))
  /\ Goto(w, Idle)
  /\ UNCHANGED <<local, page, autoMark, pretixVars>>

\* The process dies - container restart, PHP timeout - wherever it stands.
Crash(w) ==
  /\ ~At(w, "idle")
  /\ Goto(w, Idle)
  /\ UNCHANGED <<log, local, page, autoMark, pretixVars>>

Step(w) ==
  \/ FindOrder(w) \/ CheckLocally(w) \/ AskPending(w)
  \/ Accepted(w) \/ AnswerLost(w) \/ Refused(w)
  \/ Verify(w) \/ Settle(w) \/ Record(w)

(***************************************************************************)
(* What happens around it.                                                 *)
(***************************************************************************)

\* The order import reads a page from pretix and writes it some time later; in
\* between, what it holds may have become stale.
FetchOrder(o) ==
  /\ page = None
  /\ page' = [order |-> o, status |-> remote[o]]
  /\ UNCHANGED <<worker, log, local, autoMark, pretixVars>>

StoreOrder ==
  /\ page # None
  /\ local' = [local EXCEPT ![page.order] = page.status]
  /\ page' = None
  /\ UNCHANGED <<worker, log, autoMark, pretixVars>>

\* Someone turns an event's switch, or the event comes into being.
TurnSwitch(s) ==
  /\ autoMark' = [autoMark EXCEPT ![s] = IF @ = "on" THEN "off" ELSE "on"]
  /\ UNCHANGED <<worker, log, local, page, pretixVars>>

\* pretix lives on: an order is paid otherwise, expires, is canceled or opened
\* again, a new payment is started, an open one is closed.
ChangeOrder(o) ==
  /\ \E s \in Statuses :
       /\ <<remote[o], s>> \in Changes
       /\ remote' = [remote EXCEPT ![o] = s]
       /\ everPaid' = IF s = "p" THEN everPaid \cup {o} ELSE everPaid
  /\ UNCHANGED <<worker, log, local, page, autoMark, payment>>

ChangePayment(p) ==
  /\ \/ payment[p] = "none" /\ payment' = [payment EXCEPT ![p] = "pending"]
     \/ payment[p] = "pending" /\ payment' = [payment EXCEPT ![p] = "closed"]
  /\ UNCHANGED <<worker, log, local, page, autoMark, remote, everPaid>>

Around ==
  \/ \E o \in Orders : FetchOrder(o) \/ ChangeOrder(o)
  \/ StoreOrder
  \/ \E s \in Slugs : TurnSwitch(s)
  \/ \E p \in Payments : ChangePayment(p)

Call(w) == \E call \in Calls : Begin(w, call)

Next == (\E w \in Workers : Call(w) \/ Step(w) \/ Crash(w)) \/ Around

Spec == Init /\ [][Next]_vars

\* No two calls at the same time - what the code would have with a lock around
\* mark(), and what it has as long as nobody clicks during a pull.
Alone == \A v, w \in Workers : ~At(v, "idle") /\ ~At(w, "idle") => v = w
SerialCall(w) == Call(w) /\ \A v \in Workers : At(v, "idle")
SerialNext == (\E w \in Workers : SerialCall(w) \/ Step(w) \/ Crash(w)) \/ Around

SerialSpec == Init /\ [][SerialNext]_vars

(***************************************************************************)
(* Properties.                                                             *)
(***************************************************************************)

Confirmations == {i \in DOMAIN log : log[i].outcome = "confirmed"}

\* Every row that says "confirmed" names money that came in and a payment of its
\* order that pretix really confirmed on our call - whatever raced with it.
ConfirmedIsBooked ==
  \A i \in Confirmations : LET r == log[i] IN
    /\ Amount[r.credit] > 0
    /\ r.payment \in Payments /\ OrderOf[r.payment] = r.order
    /\ payment[r.payment] = "booked"

WithinCent(a, b) == a - b \in -1 .. 1

\* More than a cent is accepted by a person only and is then called by its name: the plain
\* reason stands for an amount within a cent of the order's total and of the payment, and no
\* automatic confirmation carries another one.
DeviationsAreSigned ==
  \A i \in Confirmations : LET r == log[i] IN
    /\ r.reason = "exact_amount_and_code" =>
         /\ Total[r.order] = None \/ WithinCent(Total[r.order], Amount[r.credit])
         /\ WithinCent(PayAmount[r.payment], Amount[r.credit])
    /\ r.automatic => r.reason = "exact_amount_and_code"

\* A row that claims the result was checked in pretix is about an order pretix has
\* carried as paid: the call that "looks like a success" never becomes such a row.
VerifiedWasPaid ==
  \A i \in Confirmations : log[i].verified => log[i].order \in everPaid

\* ONE CONFIRMATION PER ORDER, EVER (the comment above alreadyConfirmed()): two
\* credits quoting the same order never both confirm it.
OneConfirmationPerOrder ==
  \A i, k \in Confirmations : log[i].order = log[k].order => i = k

\* The same promise as an implementation: what the log says of each order behaves
\* like the abstract desk, so a confirmation is neither repeated nor taken back.
Given == [o \in Orders |-> Cardinality({i \in Confirmations : log[i].order = o})]
Desk == INSTANCE ConfirmationDesk WITH given <- Given
ImplementsDesk == Desk!DeskSpec
=============================================================================
