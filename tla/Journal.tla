------------------------------ MODULE Journal ------------------------------
(***************************************************************************)
(* The journal of bank lines: JournalWriter::record() writes what a pull   *)
(* delivered and re-examines what it already knew; afterwards              *)
(* JournalPaymentReporter::report() tries every open entry at pretix.  A   *)
(* person does the same with one entry, naming the order if need be.       *)
(*                                                                         *)
(* Pulls and people work on Eloquent models: a row is read, and what is    *)
(* saved later are the columns that differ from the row as it was read.    *)
(* PaymentMarker::mark() is one step here - what happens inside it is the  *)
(* subject of module PaymentMarker.                                        *)
(***************************************************************************)
EXTENDS Naturals, Sequences

CONSTANTS
  Pulls, Clerks,   \* scheduled and hand-started pulls; people with the button
  Lines,           \* statement lines, one per import_hash
  Credits,         \* those with money coming in
  Fleeting,        \* those that leave the overlap window at some time
  Codes,           \* order codes
  Reads,           \* line -> stage -> codes its purpose yields at that stage
  Fit,             \* line -> codes whose order total equals its amount
  Changes,         \* what the order import does to an order, as <<from, to>>
  Overlap,         \* TRUE: several pulls and people at the same time
  Crashes,         \* TRUE: a process may die
  None

Statuses == {"n", "p", "c"}
Before   == [exact |-> {}, normalised |-> {"exact"}, fuzzy |-> {"exact", "normalised"}]
Stages   == DOMAIN Before
Methods  == {"exact", "normalised", "fuzzy", "none", "manual"}
Workers  == Pulls \cup Clerks

Entries == [code : Codes \cup {None}, status : Statuses \cup {None},
            method : Methods, suggested : BOOLEAN, flag : BOOLEAN]

ASSUME JournalAssumption ==
  /\ Pulls \cap Clerks = {} /\ Credits \subseteq Lines /\ Fleeting \subseteq Lines
  /\ None \notin Lines \cup Codes \cup Statuses \cup Entries
  /\ Reads \in [Lines -> [Stages -> SUBSET Codes]]
  /\ Fit \in [Lines -> SUBSET Codes]
  /\ Changes \subseteq (Statuses \cup {None}) \X Statuses
  /\ Overlap \in BOOLEAN /\ Crashes \in BOOLEAN

VARIABLES
  orders,    \* code -> status of the local copy of its order, None: not imported
  bank,      \* line -> "coming", "window" or "past", as seen from a pull
  entry,     \* line -> its row in enable_banking_journal, None: no row
  ids,       \* the lines that have a row, by id
  proc,      \* pull or person -> where it stands
  last,      \* line -> code of its latest record if that confirmed exactly, else None
  rows,      \* confirmations on record, as <<code, line>>
  reported   \* orders marked paid in pretix because of a line, as <<code, line>>

vars == <<orders, bank, entry, ids, proc, last, rows, reported>>
entryVars == <<entry, ids>>
orderVars == <<orders, last, rows, reported>>

Idle == [pc |-> "idle", known |-> None, todo |-> {}, line |-> None, row |-> None,
         match |-> None, queue |-> {}, allow |-> FALSE, returned |-> None]

\* What report() and the button carry along: the line, its row as it was read, and
\* the code - the row's own, or the one a person typed.
MatchResults == [code : Codes \cup {None}, status : Statuses \cup {None},
                 method : Methods \ {"manual"}, suggested : BOOLEAN]
Tasks == [line : Lines, row : Entries, code : Codes \cup {None}]

Locals == [pc : {"idle", "record", "compare", "flag", "flagown", "report", "close"},
           known : [Codes -> Statuses \cup {None}] \cup {None}, todo : SUBSET Lines,
           line : Lines \cup {None}, row : Entries \cup {None}, match : MatchResults \cup {None},
           queue : SUBSET Tasks, allow : BOOLEAN, returned : Codes \cup {None}]

TypeOK ==
  /\ orders \in [Codes -> Statuses \cup {None}]
  /\ bank \in [Lines -> {"coming", "window", "past"}]
  /\ entry \in [Lines -> Entries \cup {None}]
  /\ ids \in Seq(Lines)
  /\ last \in [Lines -> Codes \cup {None}]
  /\ rows \subseteq Codes \X Lines /\ reported \subseteq Codes \X Lines
  /\ proc \in [Workers -> Locals]

(***************************************************************************)
(* Recognition: PurposeMatcher::match() on the orders known to the pull.   *)
(***************************************************************************)

Hits(l, stage, known) == {c \in Reads[l][stage] : known[c] # None}
Found(l, stage, known) ==
  Hits(l, stage, known) # {} /\ \A s \in Before[stage] : Hits(l, s, known) = {}

\* best(): open before settled, then the amount.  The orders come without an
\* ORDER BY, so between equals any may be the first.
Rank(l, c, known) == (IF known[c] = "n" THEN 2 ELSE 0) + (IF c \in Fit[l] THEN 1 ELSE 0)
Best(l, stage, known) ==
  {c \in Hits(l, stage, known) :
     \A d \in Hits(l, stage, known) : Rank(l, d, known) <= Rank(l, c, known)}

\* Exact and normalised hits assign; a fuzzy one only suggests.
Matches(l, known) == {m \in MatchResults :
  \/ /\ m.method \in {"exact", "normalised"} /\ Found(l, m.method, known)
     /\ m.code \in Best(l, m.method, known) /\ m.status = known[m.code] /\ m.suggested
  \/ /\ m.method = "fuzzy" /\ Found(l, "fuzzy", known)
     /\ m.code = None /\ m.status = None /\ m.suggested
  \/ /\ m.method = "none" /\ \A s \in Stages : Hits(l, s, known) = {}
     /\ m.code = None /\ m.status = None /\ ~m.suggested}

(***************************************************************************)
(* JournalWriter::record().                                                *)
(***************************************************************************)

Init ==
  /\ orders \in [Codes -> {"n", None}]
  /\ bank = [l \in Lines |-> "coming"]
  /\ entry = [l \in Lines |-> None] /\ ids = <<>>
  /\ proc = [w \in Workers |-> Idle]
  /\ last = [l \in Lines |-> None] /\ rows = {} /\ reported = {}

At(w, pc) == proc[w].pc = pc
Become(w, p) == proc' = [proc EXCEPT ![w] = p]
MayBegin(w) == At(w, "idle") /\ (Overlap \/ \A v \in Workers : At(v, "idle"))

\* What save() writes: the columns in which "new" differs from the row as read.
Saved(l, read, new) ==
  [f \in DOMAIN new |-> IF new[f] # read[f] THEN new[f] ELSE entry[l][f]]

\* The bank answers with the lines of the window, and the orders are loaded once.
BeginPull(w) ==
  /\ MayBegin(w)
  /\ Become(w, [Idle EXCEPT !.pc = "record", !.known = orders,
                            !.todo = {l \in Lines : bank[l] = "window"}])
  /\ UNCHANGED <<bank, entryVars, orderVars>>

\* Mutant of New: possible_double_payment has no default.
NewWithoutFlag(m) == [code |-> m.code, status |-> m.status, method |-> m.method,
                      suggested |-> m.suggested]

\* The next line: dropped, inserted, or found - firstOrCreate() on the hash.
New(m) == [code |-> m.code, status |-> m.status, method |-> m.method,
           suggested |-> m.suggested, flag |-> FALSE]
Drops(l, m) == l \notin Credits /\ m.code = None
TakeLine(w, l) ==
  LET p == proc[w] IN
  /\ At(w, "record") /\ l \in p.todo
  /\ \E m \in Matches(l, p.known) :
       LET q == [p EXCEPT !.todo = @ \ {l}] IN
       \/ /\ Drops(l, m)
          /\ Become(w, q) /\ UNCHANGED entryVars
       \/ /\ ~Drops(l, m) /\ entry[l] = None
          /\ entry' = [entry EXCEPT ![l] = New(m)]
          /\ ids' = Append(ids, l)
          /\ Become(w, [q EXCEPT !.pc = "flag", !.line = l, !.row = New(m)])
       \/ /\ ~Drops(l, m) /\ entry[l] # None
          /\ Become(w, [q EXCEPT !.pc = "compare", !.line = l, !.row = entry[l],
                                 !.match = m])
          /\ UNCHANGED entryVars
  /\ UNCHANGED <<bank, orderVars>>

\* Mutant of Unchanged: the state is not part of the comparison.
UnchangedButState(r, m) == r.method = m.method /\ r.code = m.code

\* reexamine(): a hand assignment is left alone, and so is an unchanged picture;
\* a code and a status once found are kept when nothing replaces them.
Unchanged(r, m) ==
  r.method = m.method /\ r.code = m.code /\ r.status = m.status

\* Mutants of Reexamined: paid stays paid; the candidates are not written.
ReexaminedStaysPaid(r, m) ==
  [r EXCEPT !.code = IF m.code = None THEN @ ELSE m.code,
            !.status = IF m.status = None \/ @ = "p" THEN @ ELSE m.status,
            !.method = m.method, !.suggested = m.suggested]
ReexaminedWithoutCandidates(r, m) ==
  [r EXCEPT !.code = IF m.code = None THEN @ ELSE m.code,
            !.status = IF m.status = None THEN @ ELSE m.status, !.method = m.method]

Reexamined(r, m) ==
  [r EXCEPT !.code = IF m.code = None THEN @ ELSE m.code,
            !.status = IF m.status = None THEN @ ELSE m.status,
            !.method = m.method, !.suggested = m.suggested]

\* Mutant of LeftAlone: hand assignments are re-examined like any other.
LeftAloneUnchanged(r, m) == Unchanged(r, m)

LeftAlone(r, m) == r.method = "manual" \/ Unchanged(r, m)
Reexamine(w) ==
  LET p == proc[w]
      new == Reexamined(p.row, p.match) IN
  /\ At(w, "compare")
  /\ IF LeftAlone(p.row, p.match)
       THEN /\ Become(w, [p EXCEPT !.pc = "record", !.line = None, !.row = None, !.match = None])
            /\ UNCHANGED entry
       ELSE /\ entry' = [entry EXCEPT ![p.line] = Saved(p.line, p.row, new)]
            /\ Become(w, [p EXCEPT !.pc = "flag", !.row = new, !.match = None])
  /\ UNCHANGED <<bank, ids, orderVars>>

\* flagSecondCredit(): the oldest other credit on the same code is marked, then the
\* entry itself - two saves.
Older(k, l) == \E i, j \in DOMAIN ids : ids[i] = k /\ ids[j] = l /\ i <= j

\* Mutant of Siblings: only entries that came before this one.
SiblingsBefore(l, code) ==
  {k \in Credits \ {l} : entry[k] # None /\ entry[k].code = code /\ Older(k, l)}

Siblings(l, code) ==
  {k \in Credits \ {l} : entry[k] # None /\ entry[k].code = code}
Collides(l, row) == row.code # None /\ l \in Credits /\ Siblings(l, row.code) # {}
FlagSibling(w) ==
  LET p == proc[w]
      others == Siblings(p.line, p.row.code) IN
  /\ At(w, "flag")
  /\ \/ /\ Collides(p.line, p.row)
        /\ \E k \in others :
             /\ \A l \in others : Older(k, l)
             /\ entry' = [entry EXCEPT ![k].flag = TRUE]
        /\ Become(w, [p EXCEPT !.pc = "flagown", !.row = None])
     \/ /\ ~Collides(p.line, p.row)
        /\ Become(w, [p EXCEPT !.pc = "record", !.line = None, !.row = None])
        /\ UNCHANGED entry
  /\ UNCHANGED <<bank, ids, orderVars>>

FlagOwn(w) ==
  LET p == proc[w] IN
  /\ At(w, "flagown")
  /\ entry' = [entry EXCEPT ![p.line].flag = TRUE]
  /\ Become(w, [p EXCEPT !.pc = "record", !.line = None])
  /\ UNCHANGED <<bank, ids, orderVars>>

(***************************************************************************)
(* JournalPaymentReporter.                                                 *)
(***************************************************************************)

\* report(): the open entries, read once, in the order of their ids.
Task(l, c) == [line |-> l, row |-> entry[l], code |-> c]
Reportable(l) == entry[l].code # None /\ entry[l].status = "n"
OpenTasks == {Task(l, entry[l].code) : l \in {k \in Credits : entry[k] # None /\ Reportable(k)}}
Turn(w, t) == t \in proc[w].queue /\ \A s \in proc[w].queue : Older(t.line, s.line)
BeginReport(w) ==
  /\ At(w, "record") /\ proc[w].todo = {}
  /\ Become(w, [Idle EXCEPT !.pc = "report", !.queue = OpenTasks])
  /\ UNCHANGED <<bank, entryVars, orderVars>>

\* The button: one entry of incoming money that is not shown as paid.
BeginByHand(w, l, c, allow) ==
  /\ MayBegin(w)
  /\ entry[l] # None /\ l \in Credits /\ entry[l].status # "p"
  /\ Become(w, [Idle EXCEPT !.pc = "report", !.queue = {Task(l, c)}, !.allow = allow])
  /\ UNCHANGED <<bank, entryVars, orderVars>>

\* mark(): may go through for an order that is open and has no confirmation on
\* record, if the amount fits or a person accepts that it does not.
Automatic(w) == w \in Pulls
Confirmed(c) == \E r \in rows : r[1] = c
Allowed(w, t) ==
  /\ t.code # None /\ orders[t.code] = "n" /\ ~Confirmed(t.code)
  /\ t.code \in Fit[t.line] \/ (proc[w].allow /\ ~Automatic(w))

\* record(): the automation does not repeat the last answer about this money; what
\* it returns then is that older record, with the order that one names.
Repeats(w, t) == Automatic(w) /\ last[t.line] # None
MarkPaid(w, t) ==
  LET p == proc[w] IN
  /\ At(w, "report") /\ Turn(w, t) /\ Allowed(w, t)
  /\ orders' = [orders EXCEPT ![t.code] = "p"]
  /\ reported' = reported \cup {<<t.code, t.line>>}
  /\ \/ /\ Repeats(w, t)
        /\ Become(w, [p EXCEPT !.pc = "close", !.line = t.line, !.returned = last[t.line]])
        /\ UNCHANGED <<rows, last>>
     \/ /\ ~Repeats(w, t)
        /\ Become(w, [p EXCEPT !.pc = "close", !.line = t.line, !.returned = t.code])
        /\ rows' = rows \cup {<<t.code, t.line>>}
        /\ last' = [last EXCEPT ![t.line] = IF t.code \in Fit[t.line] THEN t.code ELSE None]
  /\ UNCHANGED <<bank, entryVars>>

\* Refused for one of mark()'s reasons, or pretix did not answer: the entry stays.
Refuse(w, t) ==
  /\ At(w, "report") /\ Turn(w, t)
  /\ last' = [last EXCEPT ![t.line] = None]
  /\ Become(w, [proc[w] EXCEPT !.queue = @ \ {t}])
  /\ UNCHANGED <<bank, entryVars, orders, rows, reported>>

\* closeEntry(): paid; and if the confirmation names another order than the row did,
\* the entry is assigned to that one by hand.
Closed(row, code) ==
  IF row.code = code THEN [row EXCEPT !.status = "p"]
  ELSE [row EXCEPT !.status = "p", !.code = code, !.method = "manual"]
CloseEntry(w, t) ==
  LET p == proc[w] IN
  /\ At(w, "close") /\ t \in p.queue /\ t.line = p.line
  /\ entry' = [entry EXCEPT ![t.line] = Saved(t.line, t.row, Closed(t.row, p.returned))]
  /\ Become(w, [p EXCEPT !.pc = "report", !.line = None, !.queue = @ \ {t}, !.returned = None])
  /\ UNCHANGED <<bank, ids, orderVars>>

EndReport(w) ==
  /\ At(w, "report") /\ proc[w].queue = {}
  /\ Become(w, Idle)
  /\ UNCHANGED <<bank, entryVars, orderVars>>

\* Container restart, timeout, lost database connection.  (To die with nothing left to
\* do is to end.)
Crash(w) ==
  /\ Crashes /\ ~At(w, "idle") /\ ~(At(w, "report") /\ proc[w].queue = {})
  /\ Become(w, Idle)
  /\ UNCHANGED <<bank, entryVars, orderVars>>

(***************************************************************************)
(* Around it: the bank and the order import.                               *)
(***************************************************************************)

Deliver(l) ==
  /\ bank[l] = "coming"
  /\ bank' = [bank EXCEPT ![l] = "window"]
  /\ UNCHANGED <<entryVars, proc, orderVars>>

Expire(l) ==
  /\ bank[l] = "window" /\ l \in Fleeting
  /\ bank' = [bank EXCEPT ![l] = "past"]
  /\ UNCHANGED <<entryVars, proc, orderVars>>

ImportOrder(c) ==
  /\ \E s \in Statuses : <<orders[c], s>> \in Changes /\ orders' = [orders EXCEPT ![c] = s]
  /\ UNCHANGED <<bank, entryVars, proc, last, rows, reported>>

Work(w) ==
  \/ \E l \in Lines : TakeLine(w, l)
  \/ Reexamine(w) \/ FlagSibling(w) \/ FlagOwn(w)
  \/ BeginReport(w) \/ EndReport(w)
  \/ \E t \in proc[w].queue : MarkPaid(w, t) \/ Refuse(w, t) \/ CloseEntry(w, t)

ByHand(w) == \E l \in Lines, c \in Codes, allow \in BOOLEAN : BeginByHand(w, l, c, allow)

Around == (\E l \in Lines : Deliver(l) \/ Expire(l)) \/ (\E c \in Codes : ImportOrder(c))

Next ==
  \/ \E w \in Pulls : BeginPull(w)
  \/ \E w \in Clerks : ByHand(w)
  \/ \E w \in Workers : Work(w) \/ Crash(w)
  \/ Around

Spec == Init /\ [][Next]_vars

\* The scheduler starts a pull again and again, whoever holds a click at that
\* moment; a pull or a request that runs goes on; processes do not die for ever.
Fairness ==
  /\ \A w \in Pulls : SF_vars(BeginPull(w))
  /\ \A w \in Workers : WF_vars(Work(w))
  /\ <>[][\A w \in Workers : ~Crash(w)]_vars
FairSpec == Spec /\ Fairness

(***************************************************************************)
(* Properties.                                                             *)
(***************************************************************************)

\* BOTH ENTRIES GET MARKED (flagSecondCredit()): whenever no pull is between writing
\* an entry and marking it, any two credits on one order code carry the mark.
Settled == \A w \in Workers : ~At(w, "flag") /\ ~At(w, "flagown")
DoublesAreMarked ==
  Settled => \A l, k \in Credits :
    /\ entry[l] # None /\ entry[k] # None /\ l # k
    /\ entry[l].code # None /\ entry[l].code = entry[k].code
    => entry[l].flag

\* A HAND ASSIGNMENT OUTRANKS THE RECOGNITION (reexamine()): nothing a pull does
\* takes an entry away from the order a person has put it on.
HandAssignmentStands ==
  [][\A l \in Lines : entry[l] # None /\ entry[l].method = "manual"
       => entry'[l].method = "manual" /\ entry'[l].code = entry[l].code]_vars

\* THE ONE DEFINITION of "this entry needs a decision": the SQL scope behind badge and
\* filter selects what isActionable() says of the loaded row.
IsActionable(e) == e.status = "n" \/ e.flag \/ (e.code = None /\ e.suggested)
NeedsDecision(e) == e.status = "n" \/ e.flag \/ (e.code = None /\ e.method = "fuzzy")
BadgeAgrees == \A l \in Lines : entry[l] # None => (IsActionable(entry[l]) <=> NeedsDecision(entry[l]))

\* WHAT IS SHOWN AS PAID IS PAID: the order an entry names next to "paid" is paid in the
\* local copy too, although entry and order are written at different times, the order may
\* be that of an earlier record, and the entry may have been on another order before - as
\* long as no payment is taken back in pretix.
ShownPaidIsPaid ==
  \A l \in Lines : entry[l] # None /\ entry[l].status = "p"
    => entry[l].code # None /\ orders[entry[l].code] = "p"

\* EVERY ATTEMPT LEAVES A ROW (PaymentMarker): what was marked paid in pretix because
\* of a bank line is on record with that line.
EveryConfirmationHasARow == reported \subseteq rows

\* As long as the bank goes on delivering its line, an entry that is still shown as open
\* although its order has been paid is brought up to date by a later pull, or its order
\* is opened again.
Outdated(l) ==
  /\ entry[l] # None /\ entry[l].code # None
  /\ entry[l].status = "n" /\ orders[entry[l].code] = "p"
CatchesUp == \A l \in Lines \ Fleeting : Outdated(l) ~> ~Outdated(l)
=============================================================================
