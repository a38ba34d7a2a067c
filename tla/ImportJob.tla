------------------------------ MODULE ImportJob ------------------------------
(***************************************************************************)
(* The import of pretix orders: ImportPretixOrdersJob on the queue, with   *)
(* its guard against a second run, the incremental fetch of                *)
(* PretixOrderImporter::import() behind the mark of the last success, and  *)
(* the booking that follows it.                                            *)
(*                                                                         *)
(* One connection.  Time counts in ticks; what takes no HTTP call takes no *)
(* time.  A job is a slot: what became of a dispatch frees it again.       *)
(***************************************************************************)
EXTENDS Booking

CONSTANTS
  Jobs,          \* jobs that may be queued or running at the same time
  Orders,        \* orders, each on a page of its own
  Timeout,       \* $timeout of the job, enforced by the worker
  RetryAfter,    \* retry_after of the queue: when a lost job is handed out again
  Margin,        \* the safety overlap of the fetch: one hour
  MaxTime,       \* bound: the clock
  Contents,      \* what an order may be in pretix
  Moves          \* <<before, after>>: how it may change there; None: not placed yet

ASSUME ImportAssumption ==
  /\ {Timeout, RetryAfter, Margin, MaxTime} \subseteq Nat
  /\ None \notin Orders
  /\ Contents \subseteq Content
  /\ \A m \in Moves : m[2] \in Contents
  /\ Timeout <= RetryAfter    \* 1800 and 1920 seconds
  /\ 2 * Timeout <= Margin    \* 1800 and 3600 seconds

VARIABLES
  now,
  pretix,      \* order -> what it is in pretix; None: not placed yet
  modified,    \* order -> when it changed there last
  local,       \* order -> its row in pretix_orders; None: none
  touched,     \* order -> updated_at of that row
  books,       \* order -> its rows in transactions
  watermark,   \* last_successful_sync_at of the connection, None: never
  flag,        \* import_running of the connection
  runs,        \* the rows of pretix_import_runs that say running, as <<job, started_at>>
  job          \* job -> where it stands

vars == <<now, pretix, modified, local, touched, books, watermark, flag, runs, job>>
pretixVars == <<now, pretix, modified>>
localVars == <<local, touched, books>>

\* Done with: neither queued nor running nor waiting to be handed out again.
Idle == [pc |-> "idle", taken |-> 0, up |-> FALSE, since |-> None, todo |-> {}, page |-> None,
         order |-> None, copy |-> [o \in Orders |-> None]]
Importing == {"fetch", "store", "book", "refund", "finish", "clear"}
Alive == {"create"} \cup Importing

Slot == [pc : {"idle", "queued", "lost"} \cup Alive, taken : Nat, up : BOOLEAN,
         since : Nat \cup {None}, todo : SUBSET Orders, page : Content \cup {None},
         order : Orders \cup {None}, copy : [Orders -> Content \cup {None}]]

TypeOK ==
  /\ now \in Nat
  /\ pretix \in [Orders -> Contents \cup {None}] /\ modified \in [Orders -> Nat]
  /\ local \in [Orders -> Content \cup {None}] /\ touched \in [Orders -> Nat]
  /\ books \in [Orders -> Books]
  /\ watermark \in Nat \cup {None} /\ flag \in BOOLEAN
  /\ runs \subseteq Jobs \X Nat
  /\ job \in [Jobs -> Slot]

Init ==
  /\ now = 0
  /\ pretix = [o \in Orders |-> None] /\ modified = [o \in Orders |-> 0]
  /\ local = [o \in Orders |-> None] /\ touched = [o \in Orders |-> 0]
  /\ books = [o \in Orders |-> Unbooked]
  /\ watermark = None /\ flag = FALSE /\ runs = {}
  /\ job = [j \in Jobs |-> Idle]

At(j, pc) == job[j].pc = pc
Become(j, s) == job' = [job EXCEPT ![j] = s]

(***************************************************************************)
(* Dispatch: the schedule, the webhook, the button.                        *)
(***************************************************************************)

Dispatch(j) ==
  /\ At(j, "idle")
  /\ Become(j, [Idle EXCEPT !.pc = "queued"])
  /\ UNCHANGED <<pretixVars, localVars, watermark, flag, runs>>

\* The button is disabled while the flag is up, and raises it before the dispatch.
Click(j) ==
  /\ At(j, "idle") /\ ~flag
  /\ flag' = TRUE
  /\ Become(j, [Idle EXCEPT !.pc = "queued"])
  /\ UNCHANGED <<pretixVars, localVars, watermark, runs>>

(***************************************************************************)
(* handle().                                                               *)
(***************************************************************************)

\* The guard, and the connection as it is at that moment.  A skipped job leaves the
\* flag to the run it has seen.
\* Mutant of Active: the start of a run is held against the time it may take the wrong way.
ActiveWhenOver == \E r \in runs : now > r[2] + Timeout

Active == \E r \in runs : now < r[2] + Timeout

\* Mutant of Since: from the last success on, without the overlap.
SinceSharp == watermark

Since == IF watermark = None THEN None ELSE IF watermark < Margin THEN 0 ELSE watermark - Margin
Take(j) ==
  /\ At(j, "queued")
  /\ Become(j, IF Active THEN Idle
               ELSE [Idle EXCEPT !.pc = "create", !.taken = now, !.up = flag, !.since = Since,
                                    !.todo = Orders])
  /\ UNCHANGED <<pretixVars, localVars, watermark, flag, runs>>

\* Eloquent writes the flag only if the connection did not carry it when it was read.
Start(j) ==
  /\ At(j, "create")
  /\ flag' = IF job[j].up THEN flag ELSE TRUE
  /\ runs' = runs \cup {<<j, now>>}
  /\ Become(j, [job[j] EXCEPT !.pc = "fetch", !.up = FALSE])
  /\ UNCHANGED <<pretixVars, localVars, watermark>>

\* pretix hands over the orders changed since; the copy is written afterwards.
Wanted(j, o) == pretix[o] # None /\ (job[j].since = None \/ modified[o] >= job[j].since)
Fetch(j, o) ==
  /\ At(j, "fetch") /\ o \in job[j].todo
  /\ Become(j, IF Wanted(j, o)
                 THEN [job[j] EXCEPT !.pc = "store", !.order = o, !.page = pretix[o]]
                 ELSE [job[j] EXCEPT !.todo = @ \ {o}])
  /\ UNCHANGED <<pretixVars, localVars, watermark, flag, runs>>

\* Eloquent writes nothing, and leaves updated_at alone, where the row is as the page says.
Store(j) ==
  /\ At(j, "store")
  /\ local' = [local EXCEPT ![job[j].order] = job[j].page]
  /\ touched' = IF local[job[j].order] = job[j].page THEN touched
                                                    ELSE [touched EXCEPT ![job[j].order] = now]
  /\ Become(j, [job[j] EXCEPT !.pc = "fetch", !.todo = @ \ {job[j].order}, !.order = None, !.page = None])
  /\ UNCHANGED <<pretixVars, books, watermark, flag, runs>>

\* Mutant of Listed: only what has changed since the last success, without the overlap.
ListedSharp(j, o) ==
  local[o] # None /\ (job[j].since = None \/ touched[o] > job[j].since + Margin)

\* book() reads all the rows it will look at in one query.
Listed(j, o) == local[o] # None /\ (job[j].since = None \/ touched[o] >= job[j].since)
List(j) ==
  /\ At(j, "fetch") /\ job[j].todo = {}
  /\ Become(j, [job[j] EXCEPT !.pc = "book", !.since = None, !.copy = local,
                              !.todo = {o \in Orders : Listed(j, o)}])
  /\ UNCHANGED <<pretixVars, localVars, watermark, flag, runs>>

\* It works from what it has read: the row of the payment, then those of the refunds.
BookRow(j, o) ==
  /\ At(j, "book") /\ o \in job[j].todo
  /\ LET c == job[j].copy[o] IN
       IF Rebooks(books[o], c)
         THEN /\ books' = [books EXCEPT ![o] = Row(@, c)]
              /\ Become(j, [job[j] EXCEPT !.pc = "refund", !.order = o])
         ELSE /\ Become(j, [job[j] EXCEPT !.todo = @ \ {o}, !.copy[o] = None])
              /\ UNCHANGED books
  /\ UNCHANGED <<pretixVars, local, touched, watermark, flag, runs>>

BookRefunds(j) ==
  /\ At(j, "refund")
  /\ LET o == job[j].order IN
       /\ books' = [books EXCEPT ![o] = AddRefunds(@, job[j].copy[o])]
       /\ Become(j, [job[j] EXCEPT !.pc = "book", !.order = None, !.todo = @ \ {o}, !.copy[o] = None])
  /\ UNCHANGED <<pretixVars, local, touched, watermark, flag, runs>>

\* The success is dated when the importer is through, then the run is closed, then the
\* flag comes down.
Succeed(j) ==
  /\ At(j, "book") /\ job[j].todo = {}
  /\ watermark' = now
  /\ Become(j, [job[j] EXCEPT !.pc = "finish"])
  /\ UNCHANGED <<pretixVars, localVars, flag, runs>>

Close(j) ==
  /\ At(j, "finish")
  /\ runs' = runs \ {<<j, job[j].taken>>}
  /\ Become(j, [job[j] EXCEPT !.pc = "clear"])
  /\ UNCHANGED <<pretixVars, localVars, watermark, flag>>

\* Mutant of Lower: the flag of a successful run is left to the next one.
LowerNot(j) ==
  /\ At(j, "clear")
  /\ Become(j, Idle)
  /\ UNCHANGED <<pretixVars, localVars, watermark, flag, runs>>

Lower(j) ==
  /\ At(j, "clear")
  /\ flag' = FALSE
  /\ Become(j, Idle)
  /\ UNCHANGED <<pretixVars, localVars, watermark, runs>>

\* An exception on the way: the run is closed as failed, the mark stays.
Fail(j) ==
  /\ job[j].pc \in {"fetch", "store", "book", "refund"}
  /\ runs' = runs \ {<<j, job[j].taken>>} /\ flag' = FALSE
  /\ Become(j, Idle)
  /\ UNCHANGED <<pretixVars, localVars, watermark>>

(***************************************************************************)
(* What the worker does to a job, and failed().                            *)
(***************************************************************************)

\* Mutant of TimeOut: the job is marked and never freed.
TimeOutUnfreed(j) ==
  /\ job[j].pc \in Importing /\ now >= job[j].taken + Timeout
  /\ flag' = FALSE
  /\ Become(j, [Idle EXCEPT !.pc = "failed"])
  /\ UNCHANGED <<pretixVars, localVars, watermark, runs>>

\* The alarm: failed() runs, the row of the run stays as it is.
TimeOut(j) ==
  /\ job[j].pc \in Importing /\ now >= job[j].taken + Timeout
  /\ flag' = FALSE
  /\ Become(j, Idle)
  /\ UNCHANGED <<pretixVars, localVars, watermark, runs>>

\* The container is stopped: nothing runs, and the queue still holds the job.
Kill(j) ==
  /\ job[j].pc \in Alive
  /\ Become(j, [Idle EXCEPT !.pc = "lost", !.taken = job[j].taken])
  /\ UNCHANGED <<pretixVars, localVars, watermark, flag, runs>>

\* Handed out once more, a job with one try fails at once.
Redeliver(j) ==
  /\ At(j, "lost") /\ now >= job[j].taken + RetryAfter
  /\ flag' = FALSE
  /\ Become(j, Idle)
  /\ UNCHANGED <<pretixVars, localVars, watermark, runs>>

(***************************************************************************)
(* Around it.                                                              *)
(***************************************************************************)

Change(o, c) ==
  /\ <<pretix[o], c>> \in Moves
  /\ pretix' = [pretix EXCEPT ![o] = c] /\ modified' = [modified EXCEPT ![o] = now]

ChangeOrder(o, c) ==
  /\ Change(o, c)
  /\ UNCHANGED <<now, localVars, watermark, flag, runs, job>>

\* mark() confirms a payment in pretix and writes the status, and nothing else, into the
\* local row.
MarkPaid(o, c) ==
  /\ local[o] # None /\ local[o].status = "n" /\ pretix[o].status = "n" /\ c.status = "p"
  /\ Change(o, c)
  /\ local' = [local EXCEPT ![o].status = "p"] /\ touched' = [touched EXCEPT ![o] = now]
  /\ UNCHANGED <<now, books, watermark, flag, runs, job>>

\* The row of a run past its time stays on running; the guard looks at it no more, and it
\* is forgotten here.
Tick ==
  /\ now < MaxTime
  /\ \A j \in Jobs : /\ ~At(j, "create")
                     /\ job[j].pc \in Importing => now < job[j].taken + Timeout
  /\ now' = now + 1
  /\ runs' = {r \in runs : now' < r[2] + Timeout}
  /\ UNCHANGED <<pretix, modified, localVars, watermark, flag, job>>

Work(j) ==
  \/ Dispatch(j) \/ Click(j) \/ Take(j) \/ Start(j)
  \/ (\E o \in Orders : Fetch(j, o)) \/ Store(j)
  \/ List(j) \/ (\E o \in Orders : BookRow(j, o)) \/ BookRefunds(j) \/ Succeed(j) \/ Close(j) \/ Lower(j)
  \/ Fail(j) \/ TimeOut(j) \/ Kill(j) \/ Redeliver(j)

Next ==
  \/ \E j \in Jobs : Work(j)
  \/ \E o \in Orders, c \in Contents : ChangeOrder(o, c) \/ MarkPaid(o, c)
  \/ Tick

Spec == Init /\ [][Next]_vars

(***************************************************************************)
(* Properties.                                                             *)
(***************************************************************************)

\* Whatever the local copy has missed is changed late enough for the next incremental
\* fetch to bring it - even when runs overlap, are killed, or write an older page over
\* a newer one.
MissedIsInReach ==
  \A o \in Orders :
    local[o] = pretix[o] \/ watermark = None \/ modified[o] + Margin >= watermark

\* "Unchanged orders are already booked correctly": to book any order the next run will
\* leave out would change nothing - even when runs overlap and book from an old list, or
\* end between the copy and the books.
UnbookedIsInReach ==
  \A o \in Orders :
    \/ local[o] = None \/ Book(books[o], local[o]) = books[o]
    \/ watermark = None \/ touched[o] + Margin >= watermark

\* "Mirror the status so it stands out, and book its refunds so the balance nets out": a
\* settlement counts a refund only together with the payment it gives back.
BalanceNetsOut == \A o \in Orders : books[o].back # {} => Counts(books[o])

\* "The job's own guard prevents overlapping runs": two jobs import at the same time only if
\* both looked before either had entered its run, or if the older one is out of time - even
\* when runs are closed late, killed, or handed out again.
OverlapsOnlyAtOnce ==
  \A i, j \in Jobs :
    {job[i].pc, job[j].pc} \subseteq Importing \ {"clear"}
      => job[i].taken = job[j].taken \/ \E k \in {i, j} : now >= job[k].taken + Timeout

\* import_running never sticks: as long as it is up, some job is queued, running or
\* waiting to be handed out again, and that one takes it down.
FlagHasAnOwner == flag => \E j \in Jobs : ~At(j, "idle")
=============================================================================
