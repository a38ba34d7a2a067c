--------------------------- MODULE PaypalSchedule ---------------------------
(***************************************************************************)
(* When a PayPal account is synced: the command that looks every minute    *)
(* for what is due and dispatches a job with its window, the lock of the   *)
(* scheduler, the one queue worker, and the mark a sync leaves behind.     *)
(* What a sync does in its window is PaypalSync's.  One payment stands for *)
(* all of them; everything is counted in minutes back from now.            *)
(***************************************************************************)
EXTENDS Integers, FiniteSets

CONSTANTS
  Interval,    \* sync_interval_minutes
  Lookback,    \* effectiveLookbackHours()
  Expiry,      \* after which the lock of withoutOverlapping() is void
  Delay,       \* by which PayPal lists a payment
  Waiting,     \* longest a job waits in the queue
  Lasting,     \* longest a run lasts
  Vain,        \* faults: runs in a row that do not bring the window of the schedule
  Deaths,      \* faults: how often in a row the scheduler is killed
  None

ASSUME ScheduleAssumption ==
  /\ Interval \in Nat /\ Lookback \in Nat /\ Expiry \in Nat \ {0} /\ Delay \in Nat
  /\ Waiting \in Nat /\ Lasting \in Nat /\ Vain \in Nat /\ Deaths \in Nat
  /\ None \notin Nat

\* A job is dispatched this long after the last run, and is through with its window that
\* much later.
ToDispatch == Lasting + Interval + 1 + Deaths * Expiry
Cycle == ToDispatch + Waiting + Lasting

\* The lookback makes up for the delay and for the cycles that come to nothing.
ASSUME LookbackAssumption ==
  Delay + Vain * Cycle + ToDispatch <= Lookback /\ Waiting + Lasting <= Delay

\* Bounds: an age in no window any more, a pause no run leaves.
TooOld == Lookback + Waiting + Lasting + 1
TooLong == Cycle + 1

VARIABLES
  synced,      \* last_synced_at; None: never
  queue,       \* the jobs that wait, each as the end of its window
  run,         \* the run of the worker
  lock,        \* since when a killed scheduler holds the lock; None: it is free
  fired,       \* whether the command has run this minute
  entry,       \* history: a payment that is not stored, or None
  clock,       \* history: since when no run was through with a window
  vain,        \* history: the runs in a row that did not bring the schedule's window
  deaths       \* history: the deaths of the scheduler in a row

vars == <<synced, queue, run, lock, fired, entry, clock, vain, deaths>>

NoRun == [pc |-> "idle", end |-> None, lived |-> 0]

TypeOK ==
  /\ synced \in 0 .. (Interval + 1) \cup {None}
  /\ queue \subseteq 0 .. Waiting
  /\ run \in [pc : {"idle", "fetch", "end"}, end : Nat \cup {None}, lived : 0 .. Lasting]
  /\ lock \in 0 .. Expiry \cup {None}
  /\ fired \in BOOLEAN
  /\ entry \in [age : 0 .. TooOld, listed : BOOLEAN] \cup {None}
  /\ clock \in 0 .. TooLong /\ vain \in 0 .. Vain /\ deaths \in 0 .. Deaths

Init ==
  /\ synced = None /\ queue = {} /\ run = NoRun
  /\ lock = None /\ fired = FALSE
  /\ entry = None
  /\ clock = 0 /\ vain = 0 /\ deaths = 0

(***************************************************************************)
(* PaypalScheduleSyncCommand, every minute.                                *)
(***************************************************************************)

\* Mutant of LockFree: the lock of a killed scheduler stays.
LockFreeNever == lock = None

LockFree == lock = None \/ lock >= Expiry

IsDue == synced = None \/ synced > Interval

\* Mutants of Ends: a window that ends in the future; of Starts: since the last interval.
EndsAhead == -1
StartsLate(end) == end + Interval

\* The window of a job, fixed when it is dispatched.
Ends == 0
Starts(end) == end + Lookback
InWindow(end) == entry # None /\ end <= entry.age /\ entry.age <= Starts(end)

\* While a job waits or runs the account is still due, and the next minute adds another.
Dispatch == queue' = IF IsDue THEN queue \cup {Ends} ELSE queue

Fire ==
  /\ ~fired /\ fired' = TRUE
  /\ IF LockFree
       THEN \/ Dispatch /\ lock' = None /\ deaths' = 0
            \/ /\ deaths < Deaths /\ deaths' = deaths + 1 /\ lock' = 0
               /\ Dispatch \/ UNCHANGED queue
       ELSE UNCHANGED <<queue, lock, deaths>>
  /\ UNCHANGED <<synced, run, entry, clock, vain>>

(***************************************************************************)
(* SyncPaypalAccountJob and SyncService::run(), one worker.                *)
(***************************************************************************)

Idle == run.pc = "idle"

Begin ==
  /\ Idle
  /\ \E end \in queue :
       /\ \A other \in queue : other <= end
       /\ queue' = queue \ {end}
       /\ run' = [pc |-> "fetch", end |-> end, lived |-> 0]
  /\ UNCHANGED <<synced, lock, fired, entry, clock, vain, deaths>>

\* A backfill, or a job that is tried again: a window of its own.
BeginOther ==
  /\ Idle /\ vain < Vain
  /\ run' = [pc |-> "fetch", end |-> None, lived |-> 0]
  /\ UNCHANGED <<synced, queue, lock, fired, entry, clock, vain, deaths>>

InVain == vain < Vain /\ vain' = vain + 1 /\ clock' = 0

\* PayPal answers: what it lists of the window is stored.
Fetch ==
  /\ run.pc = "fetch" /\ run' = [run EXCEPT !.pc = "end"]
  /\ \/ /\ run.end # None /\ vain' = 0 /\ clock' = 0
        /\ entry' = IF InWindow(run.end) /\ entry.listed THEN None ELSE entry
     \/ /\ run.end = None /\ InVain
        /\ entry' = entry \/ (entry # None /\ entry.listed /\ entry' = None)
  /\ UNCHANGED <<synced, queue, lock, fired, deaths>>

\* It refuses the window or the run; that is recorded like a sync.
Refuse ==
  /\ run.pc = "fetch" /\ run' = [run EXCEPT !.pc = "end"] /\ InVain
  /\ UNCHANGED <<synced, queue, lock, fired, entry, deaths>>

\* last_synced_at is that of the last attempt, whatever its window and its result.
End ==
  /\ run.pc = "end" /\ run' = NoRun /\ synced' = 0
  /\ UNCHANGED <<queue, lock, fired, entry, clock, vain, deaths>>

\* Anything but an answer of PayPal's, and the worker's end: no mark is left.
Die ==
  /\ ~Idle /\ run' = NoRun
  /\ IF run.pc = "fetch" THEN InVain ELSE UNCHANGED <<vain, clock>>
  /\ UNCHANGED <<synced, queue, lock, fired, entry, deaths>>

(***************************************************************************)
(* PayPal and time.                                                        *)
(***************************************************************************)

Book ==
  /\ entry = None /\ entry' = [age |-> 0, listed |-> FALSE]
  /\ UNCHANGED <<synced, queue, run, lock, fired, clock, vain, deaths>>

List ==
  /\ entry # None /\ ~entry.listed /\ entry' = [entry EXCEPT !.listed = TRUE]
  /\ UNCHANGED <<synced, queue, run, lock, fired, clock, vain, deaths>>

Older(n, max) == IF n = None THEN None ELSE IF n < max THEN n + 1 ELSE max

\* A minute passes: the command has run, no job waits and no run lasts longer than they may,
\* and PayPal has listed what it has had long enough.
Tick ==
  /\ fired /\ fired' = FALSE
  /\ \A end \in queue : end < Waiting
  /\ ~Idle => run.lived < Lasting
  /\ entry # None => entry.listed \/ entry.age < Delay
  /\ synced' = Older(synced, Interval + 1) /\ lock' = Older(lock, Expiry)
  /\ queue' = {end + 1 : end \in queue}
  /\ run' = IF Idle THEN run
            ELSE [run EXCEPT !.end = IF @ = None THEN None ELSE @ + 1, !.lived = @ + 1]
  /\ entry' = IF entry = None THEN None ELSE [entry EXCEPT !.age = Older(@, TooOld)]
  /\ clock' = Older(clock, TooLong)
  /\ UNCHANGED <<vain, deaths>>

Next ==
  \/ Fire \/ Begin \/ BeginOther \/ Fetch \/ Refuse \/ End \/ Die
  \/ Book \/ List \/ Tick

Spec == Init /\ [][Next]_vars

\* The scheduler and the worker are services that are restarted; a run is over in time.
FairSpec ==
  /\ Spec
  /\ WF_vars(Fire) /\ WF_vars(Begin) /\ WF_vars(Fetch \/ Refuse) /\ WF_vars(End \/ Die)
  /\ WF_vars(List) /\ WF_vars(Tick)

(***************************************************************************)
(* Properties.                                                             *)
(***************************************************************************)

Ahead(end) == InWindow(end) /\ (end \in queue \/ (run.pc = "fetch" /\ run.end = end))

\* "The actual fetch window always re-covers effectiveLookbackHours() so late-arriving PayPal
\* records get picked up" (PaypalScheduleSyncCommand): a payment that is not stored is in the
\* window of a job that is still to ask for it, or young enough for the next one - although
\* the window reaches back from now, whatever the runs before it have brought.
MissedIsInReach ==
  entry # None => entry.age <= Lookback \/ \E end \in queue \cup {run.end} : end # None /\ Ahead(end)

\* And it does not stay away for long: by the time PayPal lists it and one cycle more than
\* those that came to nothing have gone by, it is stored - however far the lookback reaches.
ArrivesInTime == entry # None => entry.age <= Delay + (Vain + 1) * Cycle

\* It is stored in the end, over refused and killed runs, backfills in between, and a
\* scheduler that dies with its lock.
MissedArrives == entry # None ~> entry = None
=============================================================================
