----------------------------- MODULE PaypalSync -----------------------------
(***************************************************************************)
(* PayPal payments and their revisions: SyncService::run() fetches a span  *)
(* of time window by window, CsvImportService::import() reads a file, and  *)
(* both hand every record to TransactionUpserter::upsert() - a lookup, a   *)
(* second lookup, an update and an insert without a transaction.  People   *)
(* assign events to the rows meanwhile.                                    *)
(***************************************************************************)
EXTENDS Integers, Sequences, FiniteSets

CONSTANTS
  Syncs,           \* processes: queue workers, a command, the CSV page
  Payments,        \* PayPal transaction ids
  MaxVersion,      \* payment -> bound: how often PayPal may report it anew
  Date,            \* revision -> transaction_updated_date, None: unreadable
  Broken,          \* revisions that cannot be read at all
  Files,           \* CSV files, as sets of revisions
  Place,           \* payment -> when PayPal lists it
  Spans,           \* the spans [lo, hi] of time that are asked for
  MaxWindow,       \* max_window_days
  Steps,           \* window_split_steps
  Limit,           \* records per window before RESULTSET_TOO_LARGE
  Events,
  Overlap,         \* TRUE: several syncs at a time
  Faults,          \* TRUE: a statement may fail, and a process may die
  None

\* A revision is one dedupe_key: version 0 is the row of the CSV download, the others
\* are what the API reported.
Revisions == UNION {{p} \X (0 .. MaxVersion[p]) : p \in Payments}
Of(r) == r[1]

ASSUME PaypalAssumption ==
  /\ MaxVersion \in [Payments -> Nat] /\ Date \in [Revisions -> Nat \cup {None}]
  /\ Broken \subseteq Revisions /\ Files \subseteq SUBSET {r \in Revisions : r[2] = 0}
  /\ Place \in [Payments -> Int] /\ Spans \subseteq [lo : Int, hi : Int]
  /\ \A span \in Spans : span.lo # span.hi
  /\ MaxWindow \in Nat \ {0} /\ Limit \in Nat
  /\ Steps \in Seq(Nat \ {0})
  /\ Overlap \in BOOLEAN /\ Faults \in BOOLEAN
  /\ None \notin Nat \cup Revisions \cup Events

VARIABLES
  version,     \* payment -> the version PayPal reports, 0: not listed yet
  row,         \* revision -> its row in transactions, None: not stored
  run,         \* process -> the SyncRun it wrote last
  proc,        \* process -> where it stands
  hand,        \* history: payment -> event last assigned by hand, None once Loses lost it
  cut          \* history: payment -> the revision last missing, the one before it superseded

vars == <<version, row, run, proc, hand, cut>>

Windows == [lo : Int, hi : Int, level : Nat, top : Int]
Rows == [current : BOOLEAN, hand : Events \cup {None}]
Finished == {"success", "partial", "failed"}
SyncRuns == [status : Finished \cup {"none", "running"}, clean : BOOLEAN, owed : SUBSET Revisions]

ASSUME NoSuchRow == None \notin Rows

Idle == [pc |-> "idle", windows |-> {}, seen |-> {}, file |-> {}, had |-> FALSE,
         rev |-> None, prior |-> None, carry |-> None, newer |-> FALSE]

Procs == [pc : {"idle", "fetch", "file", "look", "prior", "supersede", "create"},
          windows : SUBSET Windows, seen : SUBSET Payments, file : SUBSET Revisions,
          had : BOOLEAN, rev : Revisions \cup {None}, prior : Revisions \cup {None},
          carry : Events \cup {None}, newer : BOOLEAN]

TypeOK ==
  /\ version \in [Payments -> Nat] /\ \A p \in Payments : version[p] <= MaxVersion[p]
  /\ row \in [Revisions -> Rows \cup {None}]
  /\ run \in [Syncs -> SyncRuns]
  /\ proc \in [Syncs -> Procs]
  /\ hand \in [Payments -> Events \cup {None}]
  /\ cut \in [Payments -> Revisions \cup {None}]

Init ==
  /\ version = [p \in Payments |-> 0]
  /\ row = [r \in Revisions |-> None]
  /\ run = [s \in Syncs |-> [status |-> "none", clean |-> TRUE, owed |-> {}]]
  /\ proc = [s \in Syncs |-> Idle]
  /\ hand = [p \in Payments |-> None]
  /\ cut = [p \in Payments |-> None]

At(s, pc) == proc[s].pc = pc
Become(s, p) == proc' = [proc EXCEPT ![s] = p]
MayBegin(s) == At(s, "idle") /\ (Overlap \/ \A t \in Syncs : At(t, "idle"))
Finish(s, status) == run' = [run EXCEPT ![s].status = status] /\ Become(s, Idle)

Stored(r) == row[r] # None
Current(r) == Stored(r) /\ row[r].current
CurrentOf(p) == {r \in Revisions : Of(r) = p /\ Current(r)}

(***************************************************************************)
(* WindowSplitter, and what a search brings.                               *)
(***************************************************************************)

\* Mutant of Split: only whole windows.
SplitWhole(lo, hi, step) ==
  {w \in {[lo |-> a, hi |-> a + step] : a \in lo .. hi} : (w.lo - lo) % step = 0 /\ w.hi <= hi}

\* Consecutive windows that share an instant, the last one cut off at the end.
Split(lo, hi, step) ==
  {[lo |-> a, hi |-> IF a + step > hi THEN hi ELSE a + step] :
     a \in {b \in lo .. (hi - 1) : (b - lo) % step = 0}}

Within(p, w) == w.lo <= Place[p] /\ Place[p] <= w.hi
Listed(w) == {p \in Payments : version[p] > 0 /\ Within(p, w)}
Latest(p) == <<p, version[p]>>
Tops(span) == {[lo |-> c.lo, hi |-> c.hi, level |-> 0, top |-> c.lo] : c \in Split(span.lo, span.hi, MaxWindow)}
Halves(w) == {[lo |-> c.lo, hi |-> c.hi, level |-> w.level + 1, top |-> w.top] :
                c \in Split(w.lo, w.hi, Steps[w.level + 1])}

\* The windows are asked for one after the other, those of a split in place of it.
Turn(s, w) == At(s, "fetch") /\ w \in proc[s].windows /\ \A v \in proc[s].windows : w.lo <= v.lo
TooLarge(w) == Cardinality(Listed(w)) > Limit

(***************************************************************************)
(* SyncService::run().                                                     *)
(***************************************************************************)

BeginSync(s) ==
  /\ MayBegin(s)
  /\ \E span \in Spans :
       /\ Become(s, [Idle EXCEPT !.pc = "fetch", !.windows = Tops(span)])
       /\ run' = [run EXCEPT ![s] = [status |-> "running", clean |-> TRUE,
                                     owed |-> {Latest(p) : p \in Listed(span)}]]
  /\ UNCHANGED <<version, row, hand, cut>>

\* One record after the other, page by page; one that cannot be read is counted.
FetchRecord(s, w, p) ==
  LET q == [proc[s] EXCEPT !.seen = @ \cup {p}] IN
  /\ Turn(s, w) /\ p \in Listed(w) \ proc[s].seen /\ ~TooLarge(w)
  /\ \/ /\ Latest(p) \in Broken
        /\ Become(s, q) /\ run' = [run EXCEPT ![s].clean = FALSE]
     \/ /\ Latest(p) \notin Broken
        /\ Become(s, [q EXCEPT !.pc = "look", !.rev = Latest(p)]) /\ UNCHANGED run
  /\ UNCHANGED <<version, row, hand, cut>>

EndWindow(s, w) ==
  /\ Turn(s, w) /\ Listed(w) \subseteq proc[s].seen /\ ~TooLarge(w)
  /\ Become(s, [proc[s] EXCEPT !.windows = @ \ {w}, !.seen = {}])
  /\ UNCHANGED <<version, row, run, hand, cut>>

\* RESULTSET_TOO_LARGE: smaller windows, or an error once there are none.
SplitWindow(s, w) ==
  /\ Turn(s, w) /\ TooLarge(w) /\ w.level < Len(Steps)
  /\ Become(s, [proc[s] EXCEPT !.windows = (@ \ {w}) \cup Halves(w), !.seen = {}])
  /\ UNCHANGED <<version, row, run, hand, cut>>

GiveUp(s, w) ==
  /\ Turn(s, w) /\ TooLarge(w) /\ w.level >= Len(Steps)
  /\ Become(s, [proc[s] EXCEPT !.windows = @ \ {w}, !.seen = {}])
  /\ run' = [run EXCEPT ![s].clean = FALSE]
  /\ UNCHANGED <<version, row, hand, cut>>

\* Mutant of RefuseWindow: the error is caught and forgotten.
RefuseUnnoticed(s, w) ==
  /\ Turn(s, w)
  /\ Become(s, [proc[s] EXCEPT !.windows = {v \in @ : v.top # w.top}, !.seen = {}])
  /\ UNCHANGED <<version, row, run, hand, cut>>

\* Any other answer ends the window of max_window_days, what is left of a split of it
\* included; missing credentials or permissions end the run.
RefuseWindow(s, w) ==
  /\ Turn(s, w)
  /\ Become(s, [proc[s] EXCEPT !.windows = {v \in @ : v.top # w.top}, !.seen = {}, !.had = TRUE])
  /\ UNCHANGED <<version, row, run, hand, cut>>

RefuseRun(s, w) ==
  /\ Turn(s, w) /\ Finish(s, "failed")
  /\ UNCHANGED <<version, row, hand, cut>>

EndSync(s) ==
  /\ At(s, "fetch") /\ proc[s].windows = {}
  /\ Finish(s, IF proc[s].had THEN "partial" ELSE "success")
  /\ UNCHANGED <<version, row, hand, cut>>

(***************************************************************************)
(* CsvImportService::import().                                             *)
(***************************************************************************)

BeginImport(s) ==
  /\ MayBegin(s)
  /\ \E file \in Files :
       /\ Become(s, [Idle EXCEPT !.pc = "file", !.file = file])
       /\ run' = [run EXCEPT ![s] = [status |-> "running", clean |-> TRUE, owed |-> file]]
  /\ UNCHANGED <<version, row, hand, cut>>

ReadLine(s, r) ==
  LET q == [proc[s] EXCEPT !.file = @ \ {r}] IN
  /\ At(s, "file") /\ r \in proc[s].file
  /\ \/ /\ r \in Broken
        /\ Become(s, q) /\ run' = [run EXCEPT ![s].clean = FALSE]
     \/ /\ r \notin Broken
        /\ Become(s, [q EXCEPT !.pc = "look", !.rev = r]) /\ UNCHANGED run
  /\ UNCHANGED <<version, row, hand, cut>>

EndImport(s) ==
  /\ At(s, "file") /\ proc[s].file = {}
  /\ Finish(s, IF run[s].clean THEN "success" ELSE "partial")
  /\ UNCHANGED <<version, row, hand, cut>>

(***************************************************************************)
(* TransactionUpserter::upsert().                                          *)
(***************************************************************************)

\* Back to the records of the sync or the lines of the file.
Done(p) == [p EXCEPT !.pc = IF p.rev[2] = 0 THEN "file" ELSE "fetch",
                     !.rev = None, !.prior = None, !.carry = None, !.newer = FALSE]

\* A dedupe_key that is known is a repeat.
LookUp(s) ==
  /\ At(s, "look")
  /\ Become(s, IF Stored(proc[s].rev) THEN Done(proc[s]) ELSE [proc[s] EXCEPT !.pc = "prior"])
  /\ UNCHANGED <<version, row, run, hand, cut>>

\* The latest of the current rows; one without a date goes first.
IsLatest(c, cs) == \A d \in cs : Date[c] = None \/ (Date[d] # None /\ Date[c] >= Date[d])

\* Mutant of IncomingIsNewer: whatever comes in is.
IncomingAlways(r, prior) == TRUE

IncomingIsNewer(r, prior) ==
  prior = None \/ Date[prior] = None \/ Date[r] = None \/ Date[r] >= Date[prior]

\* Mutant of Carried: the new revision starts without the assignment.
CarriedNot(prior) == None

\* An assignment by hand goes over to the new revision.
Carried(prior) == IF prior = None THEN None ELSE row[prior].hand

ReadPrior(s) ==
  LET cs == CurrentOf(Of(proc[s].rev)) IN
  /\ At(s, "prior")
  /\ \E prior \in IF cs = {} THEN {None} ELSE {c \in cs : IsLatest(c, cs)} :
       LET newer == IncomingIsNewer(proc[s].rev, prior) IN
       Become(s, [proc[s] EXCEPT !.pc = IF prior # None /\ newer THEN "supersede" ELSE "create",
                                 !.prior = prior, !.newer = newer, !.carry = Carried(prior)])
  /\ UNCHANGED <<version, row, run, hand, cut>>

Supersede(s) ==
  /\ At(s, "supersede")
  /\ row' = [r \in Revisions |-> IF r \in CurrentOf(Of(proc[s].rev))
                                   THEN [row[r] EXCEPT !.current = FALSE] ELSE row[r]]
  /\ Become(s, [proc[s] EXCEPT !.pc = "create"])
  /\ UNCHANGED <<version, run, hand, cut>>

\* Mutants of NewRow: the column that marks the current row is missing, or every new row
\* is the current one.
NewRowUnmarked(s) == [hand |-> proc[s].carry]
NewRowCurrent(s) == [current |-> TRUE, hand |-> proc[s].carry]

NewRow(s) == [current |-> proc[s].newer, hand |-> proc[s].carry]

Counted(s) == run' = [run EXCEPT ![s].clean = FALSE]

\* The index on dedupe_key refuses a second row; that is caught and counted, and so is a
\* counter of the run that cannot be written once the row is there.
Create(s) ==
  LET r == proc[s].rev IN
  /\ At(s, "create") /\ Become(s, Done(proc[s]))
  /\ \/ Stored(r) /\ Counted(s) /\ UNCHANGED row
     \/ /\ ~Stored(r) /\ row' = [row EXCEPT ![r] = NewRow(s)]
        /\ UNCHANGED run \/ (Faults /\ Counted(s))
  /\ UNCHANGED <<version, hand, cut>>

\* Past the update, before the insert.
Replaced(s) == At(s, "create") /\ proc[s].prior # None /\ proc[s].newer

\* An insert that does not come after its update leaves the payment without a current row,
\* and what a person had assigned stays behind with the row that made way.
Loses(s) ==
  LET p == Of(proc[s].rev) IN
  IF Replaced(s)
    THEN cut' = [cut EXCEPT ![p] = proc[s].rev] /\ hand' = [hand EXCEPT ![p] = None]
    ELSE UNCHANGED <<hand, cut>>

\* Whatever else a statement throws - a value the column does not take, the database - is
\* caught and counted for the record, and the run goes on with the next one.
StatementFails(s) ==
  /\ Faults /\ proc[s].pc \in {"look", "prior", "supersede", "create"}
  /\ Become(s, Done(proc[s])) /\ Counted(s) /\ Loses(s)
  /\ UNCHANGED <<version, row>>

(***************************************************************************)
(* What happens around it.                                                 *)
(***************************************************************************)

\* In the middle of an upsert of this payment, past the look at what is there.
InFlight(s, p) == proc[s].pc \in {"supersede", "create"} /\ Of(proc[s].rev) = p

\* A person assigns an event to a row.  What is assigned while the payment is being
\* upserted may go with the row: it is not counted as assigned.
Assign(r, e) ==
  /\ Stored(r) /\ row' = [row EXCEPT ![r].hand = e]
  /\ hand' = IF ~Current(r) THEN hand
             ELSE [hand EXCEPT ![Of(r)] = IF \E s \in Syncs : InFlight(s, Of(r)) THEN None ELSE e]
  /\ UNCHANGED <<version, run, proc, cut>>

\* The worker's time limit, a restart, an error that cannot even be counted: the SyncRun
\* stays on running.
Crash(s) ==
  /\ Faults /\ ~At(s, "idle") /\ Become(s, Idle) /\ Loses(s)
  /\ UNCHANGED <<version, row, run>>

\* PayPal lists a payment, or reports it anew.
Report(p) ==
  /\ version[p] < MaxVersion[p]
  /\ version' = [version EXCEPT ![p] = @ + 1]
  /\ UNCHANGED <<row, run, proc, hand, cut>>

Fetch(s) ==
  \E w \in proc[s].windows :
    \/ \E p \in Payments : FetchRecord(s, w, p)
    \/ EndWindow(s, w) \/ SplitWindow(s, w) \/ GiveUp(s, w) \/ RefuseWindow(s, w) \/ RefuseRun(s, w)

Upsert(s) == LookUp(s) \/ ReadPrior(s) \/ Supersede(s) \/ Create(s) \/ StatementFails(s)

Next ==
  \/ \E s \in Syncs : \/ BeginSync(s) \/ Fetch(s) \/ EndSync(s)
                      \/ BeginImport(s) \/ (\E r \in Revisions : ReadLine(s, r)) \/ EndImport(s)
                      \/ Upsert(s) \/ Crash(s)
  \/ \E r \in Revisions, e \in Events : Assign(r, e)
  \/ \E p \in Payments : Report(p)

Spec == Init /\ [][Next]_vars

(***************************************************************************)
(* Properties.                                                             *)
(***************************************************************************)

Undated(p) == \E r \in Revisions : Of(r) = p /\ Stored(r) /\ Date[r] = None

\* "exactly ONE row per transaction_id is current" (TransactionUpserter): never two, and
\* none only between the update and the insert of an upsert, or when the process died there
\* or the insert failed and was counted.
OneCurrent ==
  /\ \A r, q \in Revisions : Of(r) = Of(q) /\ Current(r) /\ Current(q) => r = q
  /\ \A r \in Revisions :
       Stored(r) => \/ CurrentOf(Of(r)) # {} \/ cut[Of(r)] # None
                    \/ \E s \in Syncs : Replaced(s) /\ Of(proc[s].rev) = Of(r)

\* An older revision "can never displace newer data" (TransactionUpserter), in whatever
\* order files and syncs bring them - among dated rows, and unless an insert did not follow
\* its update.
NewestIsCurrent ==
  \A r \in Revisions :
    Current(r) /\ cut[Of(r)] = None /\ ~Undated(Of(r))
      => \A q \in Revisions : Of(q) = Of(r) /\ Stored(q) => Date[q] <= Date[r]

\* "A manual event assignment on the previous revision must survive the new revision"
\* (TransactionUpserter), over any number of revisions.  It does not survive an insert that
\* fails after the update, or a death there: the next revision finds no current row to take
\* it from, and hand counts it as lost.
HandSurvives ==
  \A r \in Revisions : Current(r) /\ hand[Of(r)] # None => row[r].hand = hand[Of(r)]

SameSource(r, q) == r[2] = 0 <=> q[2] = 0

\* A run that ends as a success without counting an error has everything PayPal listed in
\* its span when it began, or that was in its file - in that version or a later one.
SuccessIsComplete ==
  \A s \in Syncs : run[s].status = "success" /\ run[s].clean =>
    \A r \in run[s].owed :
      \E q \in Revisions : Of(q) = Of(r) /\ q[2] >= r[2] /\ SameSource(q, r) /\ Stored(q)

\* An insert that failed or was never reached after its update is made good: once a run of
\* the same source that has the payment in its span or file succeeds without counting an
\* error, the payment has a current row again.
Heals ==
  \A s \in Syncs :
    run[s].status = "running" /\ run'[s].status = "success" /\ run[s].clean =>
      \A r \in run[s].owed :
        cut[Of(r)] = None \/ SameSource(cut[Of(r)], r) => CurrentOf(Of(r)) # {}
SuccessHeals == [][Heals]_vars

(***************************************************************************)
(* The book that PaymentBook describes.  A payment that is being replaced  *)
(* is shown in the revision that makes way until the insert, and from the  *)
(* look at that revision on its event is the one the upsert carries.       *)
(***************************************************************************)

MakesWay(s, r) == proc[s].prior = r /\ (At(s, "supersede") \/ Replaced(s))
BookShown == {r \in Revisions : Current(r) \/ \E s \in Syncs : MakesWay(s, r)}
BookEvent(r) ==
  IF \E s \in Syncs : MakesWay(s, r)
    THEN proc[CHOOSE s \in Syncs : MakesWay(s, r)].carry ELSE row[r].hand

Book == INSTANCE PaymentBook WITH
  stored <- {r \in Revisions : Stored(r)},
  shown <- [r \in BookShown |-> BookEvent(r)],
  Payment <- [r \in Revisions |-> Of(r)],
  Losses <- Faults

\* Whatever its four statements meet on the way, an upsert is one step of PaymentBook: no
\* payment is shown in two revisions, or in an older one, nor loses its event to a new one.
\* An insert that fails after its update is a Lose, as a death there is.
ImplementsBook == Book!BookSpec
=============================================================================
