------------------------------ MODULE BankDesk ------------------------------
(***************************************************************************)
(* Bank statements: BankStatementImporter::importEntries() inserts lines,  *)
(* BankReconciler::reconcile() links them to payouts and booked transfers, *)
(* BankPretixReporter::propose() offers them as payments of open orders    *)
(* and confirms where the event is armed.  People work on the same rows.   *)
(*                                                                         *)
(* PaymentMarker::mark() is one step here, the subject of module           *)
(* PaymentMarker.                                                          *)
(***************************************************************************)
EXTENDS Naturals

CONSTANTS
  Runs, Clerks,    \* imports of a statement; people at the list of bank lines
  Lines,           \* statement lines, one per import_hash
  Statements,      \* the sets of lines a statement may hold
  Valued,          \* line -> value date
  Credits,         \* lines with money coming in
  Payments,        \* what the app books: payouts and transfers, whatever their revision
  Payouts,         \* line -> payouts of its amount within the window of days
  Transfers,       \* line -> booked transfers of its amount that its purpose quotes
  MaxRevision,     \* payment -> bound: how many revisions it may have
  Orders,          \* pretix orders paid by bank transfer
  Quotes,          \* line -> orders of its amount that its purpose quotes
  Fit,             \* line -> orders of its amount
  Armed,           \* orders of events with the switch on
  Overlap,         \* TRUE: runs and people at the same time
  Crashes,         \* TRUE: a process may die
  None

Workers == Runs \cup Clerks
Reports == {"none", "proposed", "reported", "failed", "dismissed"}

ASSUME BankAssumption ==
  /\ Runs \cap Clerks = {} /\ Credits \subseteq Lines
  /\ Statements \subseteq SUBSET Lines /\ Valued \in [Lines -> Nat]
  /\ {Payouts, Transfers} \subseteq [Lines -> SUBSET Payments]
  /\ MaxRevision \in [Payments -> Nat]
  /\ {Quotes, Fit} \subseteq [Lines -> SUBSET Orders]
  /\ Armed \subseteq Orders /\ Overlap \in BOOLEAN /\ Crashes \in BOOLEAN
  /\ None \notin Lines \cup Orders \cup Reports \cup (Payments \X Nat)

VARIABLES
  orders,      \* status of the local copy of each order: "n" open, "p" paid
  revision,    \* payment -> its current revision, 0: not there yet
  bank,        \* line -> its row in bank_transactions, None: no row
  rows,        \* confirmations on record, as <<order, line>>
  proc         \* run or person -> where it stands

vars == <<orders, revision, bank, rows, proc>>

\* An app transaction is one revision of a payment; the older ones are superseded.
Transactions == UNION {{p} \X (1 .. MaxRevision[p]) : p \in Payments}
Current(p) == <<p, revision[p]>>

Rows == [recon : {"unmatched", "matched", "ignored"}, match : Transactions \cup {None},
         report : Reports, code : Orders \cup {None}]
ASSUME NoRow == None \notin Rows

\* Mutant of NewRow: pretix_report_status has no default.
NewRowWithoutReport == [recon |-> "unmatched", match |-> None, code |-> None]

NewRow == [recon |-> "unmatched", match |-> None, report |-> "none", code |-> None]

Idle == [pc |-> "idle", todo |-> {}, codes |-> <<>>, claimed |-> {}, line |-> None, code |-> None,
         was |-> None, allow |-> FALSE, outcome |-> None]

Procs == [pc : {"idle", "insert", "list", "match", "offer", "ask", "result"},
          todo : SUBSET Lines, codes : {<<>>} \cup [Lines -> Orders \cup {None}],
          claimed : (SUBSET Transactions) \cup (SUBSET Orders),
          line : Lines \cup {None}, code : Orders \cup {None}, was : Reports \cup {None},
          allow : BOOLEAN, outcome : {"confirmed", "skipped", "failed", None}]

TypeOK ==
  /\ orders \in [Orders -> {"n", "p"}]
  /\ revision \in [Payments -> Nat] /\ \A p \in Payments : revision[p] <= MaxRevision[p]
  /\ bank \in [Lines -> Rows \cup {None}]
  /\ rows \subseteq Orders \X Lines
  /\ proc \in [Workers -> Procs]

Init ==
  /\ orders = [o \in Orders |-> "n"]
  /\ revision = [p \in Payments |-> 0]
  /\ bank = [l \in Lines |-> None]
  /\ rows = {} /\ proc = [w \in Workers |-> Idle]

At(w, pc) == proc[w].pc = pc
Become(w, p) == proc' = [proc EXCEPT ![w] = p]
MayBegin(w) == At(w, "idle") /\ (Overlap \/ \A v \in Workers : At(v, "idle"))
Automatic(w) == w \in Runs
Known == {l \in Lines : bank[l] # None}

\* orderBy('valued_on'): lines of one day in any order.
Turn(w, l) == l \in proc[w].todo /\ \A k \in proc[w].todo : Valued[l] <= Valued[k]

(***************************************************************************)
(* importEntries() and reconcile().                                        *)
(***************************************************************************)

BeginImport(w) ==
  /\ MayBegin(w)
  /\ \E s \in Statements : Become(w, [Idle EXCEPT !.pc = "insert", !.todo = s])
  /\ UNCHANGED <<orders, revision, bank, rows>>

\* firstOrCreate() on the hash: what is known stays as it is.
InsertLine(w, l) ==
  /\ At(w, "insert") /\ l \in proc[w].todo
  /\ bank' = [bank EXCEPT ![l] = IF @ = None THEN NewRow ELSE @]
  /\ Become(w, [proc[w] EXCEPT !.todo = @ \ {l}])
  /\ UNCHANGED <<orders, revision, rows>>

\* Mutant of Unmatched: what a person has ignored is offered again, with its link.
UnmatchedOrIgnored == {l \in Credits \cap Known : bank[l].recon # "matched"}

\* The open credits are listed; after an import, or for the button Erneut abgleichen.
Unmatched == {l \in Credits \cap Known : bank[l].recon = "unmatched"}
ListUnmatched(w) ==
  /\ (At(w, "insert") /\ proc[w].todo = {}) \/ (w \in Runs /\ MayBegin(w))
  /\ Become(w, [Idle EXCEPT !.pc = "list", !.todo = Unmatched])
  /\ UNCHANGED <<orders, revision, bank, rows>>

\* Mutant of Claimed: only what a matched row holds.
ClaimedByMatched == {bank[l].match : l \in {k \in Known : bank[k].recon = "matched"}} \ {None}

\* The transactions any row holds - read once, kept up by the run itself.
Claimed == {bank[l].match : l \in Known} \ {None}
ReadClaimed(w) ==
  /\ At(w, "list")
  /\ Become(w, [proc[w] EXCEPT !.pc = "match", !.claimed = Claimed])
  /\ UNCHANGED <<orders, revision, bank, rows>>

\* A payout goes before a booked transfer; only current revisions are looked at.
Free(w, ps) == {Current(p) : p \in {q \in ps : revision[q] > 0}} \ proc[w].claimed
Candidates(w, l) ==
  IF Free(w, Payouts[l]) # {} THEN Free(w, Payouts[l]) ELSE Free(w, Transfers[l])
MatchLine(w, l) ==
  /\ At(w, "match") /\ Turn(w, l)
  /\ \/ \E t \in Candidates(w, l) :
          /\ bank' = [bank EXCEPT ![l].recon = "matched", ![l].match = t]
          /\ Become(w, [proc[w] EXCEPT !.todo = @ \ {l}, !.claimed = @ \cup {t}])
     \/ /\ Candidates(w, l) = {}
        /\ Become(w, [proc[w] EXCEPT !.todo = @ \ {l}]) /\ UNCHANGED bank
  /\ UNCHANGED <<orders, revision, rows>>

(***************************************************************************)
(* propose() and confirm().                                                *)
(***************************************************************************)

\* The button ends here; an import goes on with the credits that are still open and
\* the orders other rows have taken.
EndRematch(w) ==
  /\ At(w, "match") /\ proc[w].todo = {}
  /\ Become(w, Idle) /\ UNCHANGED <<orders, revision, bank, rows>>

\* Mutant of Unreported: everything that is not reported or proposed already.
UnreportedOrDismissed == {l \in Unmatched : bank[l].report \notin {"proposed", "reported"}}

Unreported == {l \in Unmatched : bank[l].report = "none"}
Taken == {bank[l].code : l \in {k \in Known : bank[k].report \in {"proposed", "reported"}}} \ {None}
BeginPropose(w) ==
  /\ At(w, "match") /\ proc[w].todo = {}
  /\ Become(w, [Idle EXCEPT !.pc = "offer", !.todo = Unreported, !.claimed = Taken,
                            !.codes = [l \in Lines |-> IF l \in Known THEN bank[l].code ELSE None]])
  /\ UNCHANGED <<orders, revision, bank, rows>>

\* The row is saved with the order, unless the row as it was read named it already.
Pending(w, l) == {o \in Quotes[l] : orders[o] = "n"} \ proc[w].claimed
ProposeLine(w, l) ==
  LET p == [proc[w] EXCEPT !.todo = @ \ {l}] IN
  /\ At(w, "offer") /\ Turn(w, l)
  /\ \/ \E o \in Pending(w, l) :
          /\ bank' = [bank EXCEPT ![l].report = "proposed",
                                  ![l].code = IF p.codes[l] = o THEN @ ELSE o]
          /\ Become(w, [p EXCEPT !.pc = "ask", !.line = l, !.code = o, !.was = "proposed",
                                 !.claimed = @ \cup {o}])
     \/ Pending(w, l) = {} /\ Become(w, p) /\ UNCHANGED bank
  /\ UNCHANGED <<orders, revision, rows>>

EndPropose(w) ==
  /\ At(w, "offer") /\ proc[w].todo = {}
  /\ Become(w, Idle) /\ UNCHANGED <<orders, revision, bank, rows>>

\* confirmManually(): offered for a credit that is not reported; the row learns the
\* order and is read again.  A person may accept an amount that deviates.
BeginByHand(w, l, o, allow) ==
  /\ MayBegin(w) /\ l \in Credits \cap Known /\ bank[l].report # "reported"
  /\ bank' = [bank EXCEPT ![l].code = o]
  /\ Become(w, [Idle EXCEPT !.pc = "ask", !.line = l, !.code = o, !.was = bank[l].report,
                            !.allow = allow])
  /\ UNCHANGED <<orders, revision, rows>>

\* mark(): goes through for an open order without a confirmation on record, if the
\* amount fits or a person accepts it, and for the automation if the event is armed.
\* Whatever else pretix says is a refusal or a failure.
Confirmed(o) == \E r \in rows : r[1] = o
Allowed(w) ==
  /\ orders[proc[w].code] = "n" /\ ~Confirmed(proc[w].code)
  /\ IF Automatic(w) THEN proc[w].code \in Armed \cap Fit[proc[w].line]
                     ELSE proc[w].code \in Fit[proc[w].line] \/ proc[w].allow
Ask(w) ==
  LET p == proc[w] IN
  /\ At(w, "ask")
  /\ \/ /\ Allowed(w)
        /\ rows' = rows \cup {<<p.code, p.line>>}
        /\ orders' = [orders EXCEPT ![p.code] = "p"]
        /\ Become(w, [p EXCEPT !.pc = "result", !.outcome = "confirmed"])
     \/ \E r \in {"skipped", "failed"} :
          Become(w, [p EXCEPT !.pc = "result", !.outcome = r]) /\ UNCHANGED <<rows, orders>>
  /\ UNCHANGED <<revision, bank>>

\* Mutant of Report: a refusal is taken for a success.
ReportRefusedToo(p) ==
  IF p.outcome = "failed" THEN "failed" ELSE "reported"

\* Only a success and a genuine failure reach the row, and only as a change.
Report(p) ==
  IF p.outcome = "confirmed" THEN "reported" ELSE IF p.outcome = "failed" THEN "failed" ELSE p.was
WriteResult(w) ==
  LET p == proc[w] IN
  /\ At(w, "result")
  /\ bank' = [bank EXCEPT ![p.line].report = IF Report(p) = p.was THEN @ ELSE Report(p)]
  /\ Become(w, IF Automatic(w)
                 THEN [p EXCEPT !.pc = "offer", !.line = None, !.code = None, !.was = None,
                                !.outcome = None]
                 ELSE Idle)
  /\ UNCHANGED <<orders, revision, rows>>

(***************************************************************************)
(* The other buttons of the list, and what happens around it.              *)
(***************************************************************************)

Dismiss(l) ==
  /\ l \in Known /\ bank[l].report = "proposed"
  /\ bank' = [bank EXCEPT ![l].report = "dismissed"]

Ignore(l) ==
  /\ l \in Known /\ bank[l].recon # "ignored"
  /\ bank' = [bank EXCEPT ![l].recon = "ignored"]

Unignore(l) ==
  /\ l \in Known /\ bank[l].recon = "ignored"
  /\ bank' = [bank EXCEPT ![l].recon = IF bank[l].match = None THEN "unmatched" ELSE "matched"]

Click(w) ==
  /\ MayBegin(w) /\ \E l \in Lines : Dismiss(l) \/ Ignore(l) \/ Unignore(l)
  /\ UNCHANGED <<orders, revision, rows, proc>>

Crash(w) ==
  /\ Crashes /\ ~At(w, "idle")
  /\ Become(w, Idle) /\ UNCHANGED <<orders, revision, bank, rows>>

\* A payment is booked, or a new revision of it supersedes the old one.
Revise(p) ==
  /\ revision[p] < MaxRevision[p]
  /\ revision' = [revision EXCEPT ![p] = @ + 1]
  /\ UNCHANGED <<orders, bank, rows, proc>>

\* The order is paid in another way.
ImportOrder(o) ==
  /\ orders[o] = "n" /\ orders' = [orders EXCEPT ![o] = "p"]
  /\ UNCHANGED <<revision, bank, rows, proc>>

Work(w) ==
  \/ \E l \in Lines : InsertLine(w, l) \/ MatchLine(w, l) \/ ProposeLine(w, l)
  \/ ListUnmatched(w) \/ ReadClaimed(w) \/ EndRematch(w) \/ BeginPropose(w) \/ EndPropose(w)
  \/ Ask(w) \/ WriteResult(w)

ByHand(w) == \E l \in Lines, o \in Orders, allow \in BOOLEAN : BeginByHand(w, l, o, allow)

Next ==
  \/ \E w \in Runs : BeginImport(w)
  \/ \E w \in Clerks : ByHand(w) \/ Click(w)
  \/ \E w \in Workers : Work(w) \/ Crash(w)
  \/ \E p \in Payments : Revise(p)
  \/ \E o \in Orders : ImportOrder(o)

Spec == Init /\ [][Next]_vars

(***************************************************************************)
(* Properties.                                                             *)
(***************************************************************************)

\* "Never links one app transaction to two bank lines" (BankReconciler), whatever a
\* person does to the rows while a run goes through its lists, and wherever it dies.
OneLinePerTransaction ==
  \A l, k \in Known : bank[l].match # None /\ bank[l].match = bank[k].match => l = k

\* A row that is shown as reported has paid for an order: a confirmation that names it
\* as the money is on record.
ReportedIsOnRecord ==
  \A l \in Known : bank[l].report = "reported" => \E o \in Orders : <<o, l>> \in rows

\* A proposal that a person has dismissed is not made again by the automation.
DismissedForGood ==
  [][\A l \in Known : bank[l].report = "dismissed" => bank'[l].report # "proposed"]_vars

\* The links that stand in the table, ignored lines included, and what the code may link.
Linked == {l \in Known : bank[l].match # None}
Links == {<<l, bank[l].match>> : l \in Linked}
FitsLine(l) == IF l \in Credits THEN {t \in Transactions : t[1] \in Payouts[l] \cup Transfers[l]} ELSE {}
Book == INSTANCE LinkBook WITH
  links <- Links,
  Fits <- [l \in Lines |-> FitsLine(l)]

\* Once a run has linked a line to a payout or transfer of its amount, nothing changes that
\* again, although runs work from lists they read earlier: lines are linked as in LinkBook.
ImplementsLinks == Book!LinkSpec
=============================================================================
