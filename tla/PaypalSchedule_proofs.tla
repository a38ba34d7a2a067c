------------------------ MODULE PaypalSchedule_proofs ------------------------
(***************************************************************************)
(* Proofs about PaypalSchedule: for any interval, delay, expiry of the     *)
(* lock and number of faults the lookback makes up for, no payment is left *)
(* behind.                                                                 *)
(***************************************************************************)
EXTENDS PaypalSchedule, TLAPS

\* How long the deaths of the scheduler have held it up, and how long the lock still does.
Lost == deaths * Expiry
Left == IF LockFree THEN 0 ELSE Expiry - lock

\* The worker asks for the window of the schedule.
Asking == run.pc = "fetch" /\ run.end # None

Locks == ~LockFree => deaths >= 1
Marks == synced # None /\ synced <= Interval => clock <= Lasting + synced
Ending == run.pc = "end" => clock <= run.lived
Window == Asking => run.end <= Waiting + run.lived /\ clock <= ToDispatch + run.end

\* While the worker is not at it: a job that was dispatched in time waits, or none is and the
\* pause is that of the interval and of the lock.
Queued == queue # {} /\ ~Asking => \E end \in queue : clock <= ToDispatch + end
Pause ==
  queue = {} /\ ~Asking /\ IsDue =>
    /\ clock <= Lasting + Interval + 1 + Lost - Left
    /\ fired /\ LockFree => clock = 0

\* What is not stored is older than the delay only by the cycles that came to nothing.
Reach ==
  entry # None => entry.age <= Delay + vain * Cycle + clock /\ (~entry.listed => entry.age <= Delay)

Inv == TypeOK /\ Locks /\ Marks /\ Ending /\ Window /\ Queued /\ Pause /\ Reach

LEMMA Products ==
  ASSUME NEW n \in Nat, NEW m \in Nat, NEW k \in Nat, n <= m
  PROVE  n * k \in Nat /\ n * k <= m * k /\ (n + 1) * k = n * k + k /\ (n >= 1 => n * k >= k)
<1>1. PICK d \in Nat : m = n + d
  <2>1. m - n \in Nat /\ m = n + (m - n)
    OBVIOUS
  <2> QED
    BY <2>1
<1>2. m * k = n * k + d * k /\ d * k \in Nat /\ n * k \in Nat
  BY <1>1
<1>3. n >= 1 => n * k >= k
  <2> SUFFICES ASSUME n >= 1 PROVE n * k >= k
    OBVIOUS
  <2>1. PICK e \in Nat : n = e + 1
    <3>1. n - 1 \in Nat /\ n = (n - 1) + 1
      OBVIOUS
    <3> QED
      BY <3>1
  <2>2. n * k = e * k + k /\ e * k \in Nat
    BY <2>1
  <2> QED
    BY <2>2
<1> QED
  BY <1>2, <1>3

LEMMA Bounds ==
  /\ ToDispatch \in Nat /\ Cycle \in Nat /\ TooLong \in Nat /\ TooOld \in Nat
  /\ Deaths * Expiry \in Nat /\ Vain * Cycle \in Nat
  /\ ToDispatch = Lasting + Interval + 1 + Deaths * Expiry
  /\ Cycle = ToDispatch + Waiting + Lasting
<1>1. Deaths * Expiry \in Nat
  BY ScheduleAssumption
<1>2. ToDispatch \in Nat /\ Cycle \in Nat
  BY <1>1, ScheduleAssumption DEF ToDispatch, Cycle
<1>3. Vain * Cycle \in Nat
  BY <1>2, ScheduleAssumption
<1> QED
  BY <1>1, <1>2, <1>3, ScheduleAssumption DEF ToDispatch, Cycle, TooLong, TooOld

\* What is lost to the lock is within its bound, and so are the cycles.
LEMMA Factors ==
  ASSUME TypeOK
  PROVE  /\ Lost \in Nat /\ Lost <= Deaths * Expiry /\ (deaths >= 1 => Lost >= Expiry)
         /\ (deaths + 1) * Expiry = Lost + Expiry
         /\ vain * Cycle \in Nat /\ vain * Cycle <= Vain * Cycle
         /\ (vain + 1) * Cycle = vain * Cycle + Cycle
<1>1. deaths \in Nat /\ deaths <= Deaths /\ vain \in Nat /\ vain <= Vain
  BY ScheduleAssumption DEF TypeOK
<1> QED
  BY <1>1, Bounds, Products, ScheduleAssumption DEF Lost

\* No pause is longer than a cycle, nor than the way to the next dispatch while no job is out.
LEMMA Pauses ==
  ASSUME Inv
  PROVE  /\ clock \in Nat /\ clock <= Cycle
         /\ queue = {} /\ ~Asking => clock <= ToDispatch
<1>0. /\ TypeOK /\ clock \in Nat /\ Left \in Nat /\ Left <= Expiry
      /\ run.pc \in {"idle", "fetch", "end"} /\ run.lived \in 0 .. Lasting
  BY ScheduleAssumption, Bounds DEF Inv, TypeOK, Left, LockFree
<1>1. CASE queue = {} /\ ~Asking
  <2>1. CASE IsDue
    BY <1>0, <1>1, <2>1, Bounds, Factors, ScheduleAssumption DEF Inv, Pause
  <2>2. CASE ~IsDue
    <3>1. synced # None /\ synced <= Interval /\ synced \in Nat
      BY <1>0, <2>2, ScheduleAssumption DEF IsDue, TypeOK
    <3> QED
      BY <1>0, <3>1, Bounds, ScheduleAssumption DEF Inv, Marks
  <2> QED
    BY <1>0, <2>1, <2>2, Bounds, ScheduleAssumption
<1>2. CASE Asking
  BY <1>0, <1>2, Bounds, ScheduleAssumption DEF Inv, Window, Asking, TypeOK
<1>3. CASE queue # {} /\ ~Asking
  <2>1. PICK end \in queue : clock <= ToDispatch + end
    BY <1>3 DEF Inv, Queued
  <2>2. end \in Nat /\ end <= Waiting
    BY <1>0, ScheduleAssumption DEF TypeOK
  <2> QED
    BY <1>0, <1>3, <2>1, <2>2, Bounds, ScheduleAssumption
<1> QED
  BY <1>1, <1>2, <1>3

LEMMA InitInv == Init => Inv
<1> SUFFICES ASSUME Init PROVE Inv
  OBVIOUS
<1>1. TypeOK
  <2>1. queue \subseteq 0 .. Waiting
    BY Zenon DEF Init
  <2>2. /\ synced \in 0 .. (Interval + 1) \cup {None} /\ lock \in 0 .. Expiry \cup {None}
        /\ entry \in [age : 0 .. TooOld, listed : BOOLEAN] \cup {None}
    BY Zenon DEF Init
  <2>3. run \in [pc : {"idle", "fetch", "end"}, end : Nat \cup {None}, lived : 0 .. Lasting]
    BY ScheduleAssumption DEF Init, NoRun
  <2>4. clock \in 0 .. TooLong /\ vain \in 0 .. Vain /\ deaths \in 0 .. Deaths
    BY ScheduleAssumption, Bounds DEF Init
  <2>5. fired \in BOOLEAN
    BY Zenon DEF Init
  <2> QED
    BY <2>1, <2>2, <2>3, <2>4, <2>5 DEF TypeOK
<1>2. LockFree /\ ~Asking /\ queue = {} /\ clock = 0 /\ entry = None /\ run.pc = "idle"
  BY DEF Init, LockFree, Asking, NoRun
<1>3. Left = 0 /\ Lost \in Nat
  BY <1>1, <1>2, Factors DEF Left
<1> QED
  BY <1>1, <1>2, <1>3, ScheduleAssumption DEF Inv, Locks, Marks, Ending, Window, Queued, Pause,
     Reach, Init

\* The minute of the command.
LEMMA FireInv == ASSUME Inv, Fire PROVE Inv'
<1>0. /\ TypeOK /\ UNCHANGED <<synced, run, entry, clock, vain>> /\ fired' = TRUE
      /\ clock \in Nat /\ deaths \in 0 .. Deaths /\ lock \in 0 .. Expiry \cup {None}
  BY Pauses DEF Inv, TypeOK, Fire
<1>1. (Asking' <=> Asking) /\ (IsDue' <=> IsDue)
  BY <1>0 DEF Asking, IsDue
<1>2. \/ UNCHANGED queue \/ (IsDue /\ queue' = queue \cup {0})
  BY DEF Fire, Dispatch, Ends
<1>3. \/ LockFree /\ lock' = None /\ deaths' = 0 /\ Dispatch
      \/ LockFree /\ deaths < Deaths /\ deaths' = deaths + 1 /\ lock' = 0
      \/ ~LockFree /\ UNCHANGED <<queue, lock, deaths>>
  BY DEF Fire
<1>4. TypeOK'
  <2>1. queue' \subseteq 0 .. Waiting
    <3>1. 0 \in 0 .. Waiting /\ queue \subseteq 0 .. Waiting
      BY <1>0, ScheduleAssumption DEF TypeOK
    <3> QED
      BY <1>2, <3>1, Zenon
  <2>2. lock' \in 0 .. Expiry \cup {None} /\ deaths' \in 0 .. Deaths
    BY <1>0, <1>3, ScheduleAssumption
  <2> QED
    BY <1>0, <2>1, <2>2 DEF TypeOK
<1>5. Locks'
  BY <1>0, <1>3, ScheduleAssumption DEF Inv, Locks, LockFree
<1>6. Marks' /\ Ending' /\ Window' /\ Reach'
  BY <1>0, <1>1 DEF Inv, Marks, Ending, Window, Reach
<1>7. Queued'
  <2> SUFFICES ASSUME queue' # {}, ~Asking PROVE \E end \in queue' : clock <= ToDispatch + end
    BY <1>0, <1>1 DEF Queued
  <2>1. CASE queue # {}
    BY <1>2, <2>1 DEF Inv, Queued
  <2>2. CASE queue = {}
    <3>1. 0 \in queue' /\ clock <= ToDispatch
      BY <1>2, <2>2, Pauses
    <3> QED
      BY <3>1, Bounds
  <2> QED
    BY <2>1, <2>2
<1>8. Pause'
  <2> SUFFICES ASSUME queue' = {}, ~Asking, IsDue
               PROVE  clock <= Lasting + Interval + 1 + Lost' - Left' /\ ~LockFree'
    BY <1>0, <1>1 DEF Pause
  <2>1. queue = {} /\ clock <= Lasting + Interval + 1 + Lost - Left
    BY <1>2 DEF Inv, Pause
  <2>2. CASE ~LockFree /\ UNCHANGED <<queue, lock, deaths>>
    BY <2>1, <2>2 DEF Lost, Left, LockFree
  <2>3. CASE LockFree /\ deaths < Deaths /\ deaths' = deaths + 1 /\ lock' = 0
    <3>1. ~LockFree' /\ Left' = Expiry /\ Left = 0
      BY <2>3, ScheduleAssumption DEF LockFree, Left
    <3>2. Lost' = Lost + Expiry
      BY <1>0, <2>3, Factors DEF Lost
    <3>3. Lost \in Nat
      BY <1>0, Factors
    <3> QED
      BY <1>0, <2>1, <3>1, <3>2, <3>3, ScheduleAssumption
  <2>4. ~Dispatch
    BY <2>1 DEF Dispatch, Ends
  <2> QED
    BY <1>3, <2>2, <2>3, <2>4
<1> QED
  BY <1>4, <1>5, <1>6, <1>7, <1>8 DEF Inv

\* A run that comes to nothing costs a cycle, and is the last of its pause.
LEMMA VainReach ==
  ASSUME Inv, InVain, vain' \in Nat
  PROVE  /\ vain' \in 0 .. Vain /\ clock' = 0 /\ vain' * Cycle = vain * Cycle + Cycle
         /\ vain' * Cycle \in Nat
         /\ \A age \in Nat : age <= Delay + vain * Cycle + clock => age <= Delay + vain' * Cycle + 0
<1>1. TypeOK /\ vain' = vain + 1 /\ vain < Vain /\ clock' = 0 /\ vain \in Nat
  BY ScheduleAssumption DEF Inv, InVain, TypeOK
<1>2. vain' * Cycle = vain * Cycle + Cycle /\ vain * Cycle \in Nat
  BY <1>1, Factors
<1> QED
  BY <1>1, <1>2, Pauses, Bounds, ScheduleAssumption

\* What a step keeps that leaves the schedule and its marks alone.
LEMMA Marked ==
  ASSUME Inv, TypeOK', UNCHANGED <<synced, lock, deaths>>, clock' = clock \/ clock' = 0
  PROVE  Locks' /\ Marks' /\ Left' = Left /\ Lost' = Lost /\ Lost \in Nat /\ Left \in Nat
         /\ Left <= Lasting + Interval + 1 + Lost
<1>0. TypeOK /\ clock \in Nat /\ Lost \in Nat /\ (deaths >= 1 => Lost >= Expiry)
  BY Factors, Pauses DEF Inv
<1>1. Left \in Nat /\ Left <= Expiry /\ (LockFree => Left = 0)
  BY <1>0, ScheduleAssumption DEF TypeOK, Left, LockFree
<1>2. Locks' /\ Left' = Left /\ Lost' = Lost
  BY DEF Inv, Locks, Left, Lost, LockFree
<1>3. Marks'
  BY <1>0, ScheduleAssumption DEF Inv, Marks, TypeOK
<1>4. ~LockFree => Lost >= Expiry
  BY <1>0 DEF Inv, Locks
<1> QED
  BY <1>0, <1>1, <1>2, <1>3, <1>4, ScheduleAssumption

LEMMA BeginInv == ASSUME Inv, Begin PROVE Inv'
<1>0. /\ TypeOK /\ ~Asking /\ Idle
      /\ UNCHANGED <<synced, lock, fired, entry, clock, vain, deaths>>
  BY DEF Inv, Begin, Asking, Idle
<1>1. PICK end \in queue :
        /\ \A other \in queue : other <= end
        /\ queue' = queue \ {end} /\ run' = [pc |-> "fetch", end |-> end, lived |-> 0]
  BY DEF Begin
<1>2. end \in Nat /\ end <= Waiting /\ \A other \in queue : other \in Nat
  BY <1>0, ScheduleAssumption DEF TypeOK
<1>3. Asking' /\ run'.end = end /\ run'.lived = 0 /\ run'.pc = "fetch"
  BY <1>1, <1>2, ScheduleAssumption DEF Asking
<1>4. TypeOK'
  <2>1. queue' \subseteq 0 .. Waiting
    BY <1>0, <1>1, Zenon DEF TypeOK
  <2>2. run' \in [pc : {"idle", "fetch", "end"}, end : Nat \cup {None}, lived : 0 .. Lasting]
    BY <1>1, <1>2, ScheduleAssumption
  <2> QED
    BY <1>0, <2>1, <2>2 DEF TypeOK
<1>5. PICK other \in queue : clock <= ToDispatch + other
  BY <1>0, <1>1 DEF Inv, Queued
<1>6. Window'
  BY <1>0, <1>1, <1>2, <1>3, <1>5, Bounds, Pauses, ScheduleAssumption DEF Window
<1> QED
  BY <1>0, <1>3, <1>4, <1>6, Marked DEF Inv, Ending, Queued, Pause, Reach

LEMMA BeginOtherInv == ASSUME Inv, BeginOther PROVE Inv'
<1>0. /\ TypeOK /\ ~Asking /\ UNCHANGED <<synced, queue, lock, fired, entry, clock, vain, deaths>>
      /\ run' = [pc |-> "fetch", end |-> None, lived |-> 0]
  BY DEF Inv, BeginOther, Asking, Idle
<1>1. ~Asking' /\ run'.pc = "fetch"
  BY <1>0 DEF Asking
<1>2. TypeOK'
  BY <1>0, ScheduleAssumption DEF TypeOK
<1>3. (IsDue' <=> IsDue) /\ (LockFree' <=> LockFree)
  BY <1>0 DEF IsDue, LockFree
<1> QED
  BY <1>0, <1>1, <1>2, <1>3, Marked DEF Inv, Ending, Window, Queued, Pause, Reach

\* A run that is through with its window: nothing is out but what waits.
LEMMA ThroughInv ==
  ASSUME Inv, TypeOK', UNCHANGED <<synced, queue, lock, fired, deaths>>, clock' = 0,
         ~Asking', Reach'
  PROVE  Inv'
<1>1. Locks' /\ Marks' /\ Left' = Left /\ Lost' = Lost /\ Left <= Lasting + Interval + 1 + Lost
      /\ Left \in Nat /\ Lost \in Nat
  BY Marked
<1>2. Ending' /\ Window'
  BY ScheduleAssumption DEF Ending, Window, TypeOK
<1>3. Queued'
  <2>1. \A end \in queue' : end \in Nat
    BY ScheduleAssumption DEF TypeOK
  <2> QED
    BY <2>1, Bounds DEF Queued
<1>4. Pause'
  BY <1>1, ScheduleAssumption DEF Pause
<1> QED
  BY <1>1, <1>2, <1>3, <1>4 DEF Inv

LEMMA FetchInv == ASSUME Inv, Fetch PROVE Inv'
<1>0. /\ TypeOK /\ run.pc = "fetch" /\ run' = [run EXCEPT !.pc = "end"]
      /\ UNCHANGED <<synced, queue, lock, fired, deaths>>
      /\ clock \in Nat /\ vain \in Nat
  BY Pauses, ScheduleAssumption DEF Inv, Fetch, TypeOK
<1>1. /\ run' \in [pc : {"idle", "fetch", "end"}, end : Nat \cup {None}, lived : 0 .. Lasting]
      /\ run'.pc = "end" /\ ~Asking'
  BY <1>0 DEF TypeOK, Asking
<1>2. CASE run.end # None /\ vain' = 0 /\ clock' = 0
           /\ entry' = IF InWindow(run.end) /\ entry.listed THEN None ELSE entry
  <2>1. TypeOK'
    BY <1>0, <1>1, <1>2, Bounds, ScheduleAssumption DEF TypeOK
  <2>2. Reach'
    <3> SUFFICES ASSUME entry' # None PROVE entry'.age <= Delay
      BY <1>2, <2>1, Bounds, ScheduleAssumption DEF Reach, TypeOK
    <3>1. entry' = entry /\ entry # None /\ ~(InWindow(run.end) /\ entry.listed)
      BY <1>2
    <3>2. entry.age \in Nat /\ run.end \in Nat /\ run.lived \in 0 .. Lasting
      BY <1>0, <1>2, <3>1, ScheduleAssumption, Bounds DEF TypeOK
    <3>3. Asking /\ run.end <= Waiting + run.lived /\ clock <= ToDispatch + run.end
      BY <1>0, <1>2 DEF Asking, Inv, Window
    <3>4. vain * Cycle <= Vain * Cycle /\ vain * Cycle \in Nat /\ Vain * Cycle \in Nat
      BY <1>0, Factors, Bounds
    <3>5. entry.age <= Delay + vain * Cycle + clock
      BY <3>1 DEF Inv, Reach
    <3>6. entry.age <= run.end + Lookback
      BY <1>0, <3>2, <3>3, <3>4, <3>5, LookbackAssumption, ScheduleAssumption, Bounds
    <3>7. CASE ~entry.listed
      BY <3>1, <3>7 DEF Inv, Reach
    <3>8. CASE entry.listed
      <4>1. ~(run.end <= entry.age)
        BY <3>1, <3>6, <3>8 DEF InWindow, Starts
      <4> QED
        BY <3>1, <3>2, <3>3, <4>1, LookbackAssumption, ScheduleAssumption
    <3> QED
      BY <3>7, <3>8
  <2> QED
    BY <1>0, <1>1, <1>2, <2>1, <2>2, ThroughInv
<1>3. CASE InVain /\ (entry' = entry \/ entry' = None)
  <2>0. vain' \in Nat
    BY <1>0, <1>3 DEF InVain
  <2>1. TypeOK'
    BY <1>0, <1>1, <1>3, <2>0, VainReach, Bounds, ScheduleAssumption DEF TypeOK
  <2>2. Reach'
    <3> SUFFICES ASSUME entry' = entry, entry # None PROVE Reach'
      BY <1>3 DEF Reach
    <3>1. entry.age \in Nat
      BY <1>0, Bounds, ScheduleAssumption DEF TypeOK
    <3> QED
      BY <1>3, <2>0, <3>1, VainReach DEF Inv, Reach
  <2> QED
    BY <1>0, <1>1, <1>3, <2>0, <2>1, <2>2, ThroughInv, VainReach
<1> QED
  BY <1>2, <1>3 DEF Fetch

LEMMA RefuseInv == ASSUME Inv, Refuse PROVE Inv'
<1>0. /\ TypeOK /\ run.pc = "fetch" /\ run' = [run EXCEPT !.pc = "end"] /\ InVain
      /\ UNCHANGED <<synced, queue, lock, fired, entry, deaths>>
      /\ vain' \in Nat
  BY ScheduleAssumption DEF Inv, Refuse, TypeOK, InVain
<1>1. /\ run' \in [pc : {"idle", "fetch", "end"}, end : Nat \cup {None}, lived : 0 .. Lasting]
      /\ ~Asking'
  BY <1>0 DEF TypeOK, Asking
<1>2. TypeOK'
  BY <1>0, <1>1, VainReach, Bounds, ScheduleAssumption DEF TypeOK
<1>3. Reach'
  <2> SUFFICES ASSUME entry # None PROVE Reach'
    BY <1>0 DEF Reach
  <2>1. entry.age \in Nat
    BY <1>0, Bounds, ScheduleAssumption DEF TypeOK
  <2> QED
    BY <1>0, <2>1, VainReach DEF Inv, Reach
<1> QED
  BY <1>0, <1>1, <1>2, <1>3, VainReach, ThroughInv

LEMMA EndInv == ASSUME Inv, End PROVE Inv'
<1>0. /\ TypeOK /\ run.pc = "end" /\ run' = NoRun /\ synced' = 0
      /\ UNCHANGED <<queue, lock, fired, entry, clock, vain, deaths>>
      /\ clock \in Nat /\ run.lived \in 0 .. Lasting
  BY Pauses DEF Inv, End, TypeOK
<1>1. ~Asking /\ ~Asking' /\ run'.pc = "idle"
  BY <1>0 DEF Asking, NoRun
<1>2. TypeOK'
  <2>1. synced' \in 0 .. (Interval + 1) \cup {None}
    BY <1>0, ScheduleAssumption
  <2>2. run' \in [pc : {"idle", "fetch", "end"}, end : Nat \cup {None}, lived : 0 .. Lasting]
    BY <1>0, ScheduleAssumption DEF NoRun
  <2> QED
    BY <1>0, <2>1, <2>2 DEF TypeOK
<1>3. Locks' /\ Reach' /\ Queued'
  BY <1>0, <1>1 DEF Inv, Locks, LockFree, Reach, Queued
<1>4. Marks'
  BY <1>0, ScheduleAssumption DEF Inv, Ending, Marks
<1>5. ~IsDue'
  BY <1>0, ScheduleAssumption DEF IsDue
<1> QED
  BY <1>1, <1>2, <1>3, <1>4, <1>5 DEF Inv, Ending, Window, Pause

LEMMA DieInv == ASSUME Inv, Die PROVE Inv'
<1>0. /\ TypeOK /\ run' = NoRun /\ UNCHANGED <<synced, queue, lock, fired, entry, deaths>>
      /\ run.pc \in {"idle", "fetch", "end"} /\ run.pc # "idle"
  BY DEF Inv, Die, TypeOK, Idle
<1>1. ~Asking' /\ run'.pc = "idle"
  BY <1>0 DEF Asking, NoRun
<1>2. run' \in [pc : {"idle", "fetch", "end"}, end : Nat \cup {None}, lived : 0 .. Lasting]
  BY <1>0, ScheduleAssumption DEF NoRun
<1>3. CASE run.pc = "fetch"
  <2>0. InVain /\ vain' \in Nat
    BY <1>0, <1>3, ScheduleAssumption DEF Die, InVain, TypeOK
  <2>1. TypeOK'
    BY <1>0, <1>2, <2>0, VainReach, Bounds, ScheduleAssumption DEF TypeOK
  <2>2. Reach'
    <3> SUFFICES ASSUME entry # None PROVE Reach'
      BY <1>0 DEF Reach
    <3>1. entry.age \in Nat
      BY <1>0, Bounds, ScheduleAssumption DEF TypeOK
    <3> QED
      BY <1>0, <2>0, <3>1, VainReach DEF Inv, Reach
  <2> QED
    BY <1>0, <1>1, <2>0, <2>1, <2>2, VainReach, ThroughInv
<1>4. CASE run.pc = "end"
  <2>0. UNCHANGED <<vain, clock>> /\ ~Asking
    BY <1>0, <1>4 DEF Die, Asking
  <2>1. TypeOK'
    BY <1>0, <1>2, <2>0 DEF TypeOK
  <2>2. Marks' /\ Locks' /\ Left' = Left /\ Lost' = Lost
    BY <1>0, <2>0, <2>1, Marked
  <2>3. Reach' /\ Queued'
    BY <1>0, <1>1, <2>0 DEF Inv, Reach, Queued
  <2>4. (IsDue' <=> IsDue) /\ (LockFree' <=> LockFree)
    BY <1>0 DEF IsDue, LockFree
  <2> QED
    BY <1>0, <1>1, <2>0, <2>1, <2>2, <2>3, <2>4 DEF Inv, Ending, Window, Pause
<1> QED
  BY <1>0, <1>3, <1>4

LEMMA BookInv == ASSUME Inv, Book \/ List PROVE Inv'
<1>0. /\ TypeOK /\ UNCHANGED <<synced, queue, run, lock, fired, clock, vain, deaths>>
      /\ clock \in Nat
  BY Pauses DEF Inv, Book, List
<1>1. \/ entry' = [age |-> 0, listed |-> FALSE]
      \/ entry # None /\ entry' = [entry EXCEPT !.listed = TRUE]
  BY DEF Book, List
<1>2. entry # None => entry \in [age : 0 .. TooOld, listed : BOOLEAN]
  BY <1>0 DEF TypeOK
<1>3. entry' \in [age : 0 .. TooOld, listed : BOOLEAN]
  <2>1. 0 \in 0 .. TooOld
    BY Bounds
  <2>2. CASE entry' = [age |-> 0, listed |-> FALSE]
    BY <2>1, <2>2, Zenon
  <2>3. CASE entry # None /\ entry' = [entry EXCEPT !.listed = TRUE]
    BY <1>2, <2>3
  <2> QED
    BY <1>1, <2>2, <2>3
<1>4. TypeOK'
  BY <1>0, <1>3 DEF TypeOK
<1>5. Reach'
  <2>1. CASE entry' = [age |-> 0, listed |-> FALSE]
    <3>1. vain * Cycle \in Nat
      BY <1>0, Factors
    <3> QED
      BY <1>0, <2>1, <3>1, ScheduleAssumption DEF Reach
  <2>2. CASE entry # None /\ entry' = [entry EXCEPT !.listed = TRUE]
    <3>1. entry'.age = entry.age /\ entry'.listed
      BY <1>2, <2>2
    <3> QED
      BY <1>0, <2>2, <3>1 DEF Inv, Reach
  <2> QED
    BY <1>1, <2>1, <2>2
<1>6. (IsDue' <=> IsDue) /\ (LockFree' <=> LockFree) /\ (Asking' <=> Asking) /\ Left' = Left
      /\ Lost' = Lost
  BY <1>0 DEF IsDue, LockFree, Asking, Left, Lost
<1> QED
  BY <1>0, <1>4, <1>5, <1>6 DEF Inv, Locks, Marks, Ending, Window, Queued, Pause

\* A minute. The pause grows with the lock, or with the age of the mark.
LEMMA TickInv == ASSUME Inv, Tick PROVE Inv'
<1>0. /\ TypeOK /\ fired /\ fired' = FALSE /\ UNCHANGED <<vain, deaths>>
      /\ synced' = Older(synced, Interval + 1) /\ lock' = Older(lock, Expiry)
      /\ queue' = {end + 1 : end \in queue} /\ \A end \in queue : end \in 0 .. Waiting /\ end < Waiting
      /\ clock \in Nat
  BY Pauses DEF Inv, Tick, TypeOK
<1>1. clock' = clock + 1 /\ clock' \in 0 .. TooLong
  BY <1>0, Pauses, Bounds, ScheduleAssumption DEF Tick, Older, TooLong
<1>2. /\ run'.pc = run.pc /\ run.pc \in {"idle", "fetch", "end"}
      /\ run' \in [pc : {"idle", "fetch", "end"}, end : Nat \cup {None}, lived : 0 .. Lasting]
      /\ run.pc # "idle" => run'.lived = run.lived + 1 /\ run.lived \in Nat
      /\ run.pc # "idle" /\ run.end # None => run'.end = run.end + 1 /\ run.end \in Nat
      /\ run.pc # "idle" => (run'.end = None <=> run.end = None)
  <2>1. run \in [pc : {"idle", "fetch", "end"}, end : Nat \cup {None}, lived : 0 .. Lasting]
    BY <1>0 DEF TypeOK
  <2>2. CASE Idle
    BY <2>1, <2>2 DEF Tick, Idle
  <2>3. CASE ~Idle
    <3>1. run.lived < Lasting /\ run.lived \in Nat
      BY <2>1, <2>3, ScheduleAssumption DEF Tick
    <3>2. run' = [run EXCEPT !.end = IF @ = None THEN None ELSE @ + 1, !.lived = @ + 1]
      BY <2>3 DEF Tick
    <3>3. CASE run.end = None
      <4>1. run' = [run EXCEPT !.end = None, !.lived = @ + 1]
        BY <3>2, <3>3
      <4>2. run.lived + 1 \in 0 .. Lasting
        BY <3>1, ScheduleAssumption
      <4>3. run'.pc = run.pc /\ run'.lived = run.lived + 1 /\ run'.end = None
        BY <2>1, <4>1
      <4>4. run' \in [pc : {"idle", "fetch", "end"}, end : Nat \cup {None}, lived : 0 .. Lasting]
        BY <2>1, <4>1, <4>2
      <4> QED
        BY <2>1, <2>3, <3>1, <3>3, <4>3, <4>4 DEF Idle
    <3>4. CASE run.end # None
      <4>1. run' = [run EXCEPT !.end = @ + 1, !.lived = @ + 1] /\ run.end \in Nat
        BY <2>1, <3>2, <3>4
      <4>2. run.end + 1 \in Nat /\ run.end + 1 # None /\ run.lived + 1 \in 0 .. Lasting
        BY <3>1, <4>1, ScheduleAssumption
      <4> QED
        BY <2>1, <2>3, <3>1, <3>4, <4>1, <4>2 DEF Idle
    <3> QED
      BY <3>3, <3>4
  <2> QED
    BY <2>2, <2>3
<1>3. Asking' <=> Asking
  BY <1>2 DEF Asking
<1>4. /\ synced' \in 0 .. (Interval + 1) \cup {None}
      /\ synced' = None <=> synced = None
      /\ synced # None /\ synced <= Interval => synced \in Nat /\ synced' = synced + 1
      /\ synced # None /\ synced > Interval => synced' > Interval
  BY <1>0, ScheduleAssumption DEF TypeOK, Older
<1>5. /\ lock' \in 0 .. Expiry \cup {None} /\ (LockFree => LockFree')
      /\ Left \in Nat /\ Left' \in Nat /\ Left <= Expiry /\ Left' <= Expiry
      /\ LockFree' => Left' = 0
      /\ ~LockFree => Left' = Left - 1
  <2>1. CASE lock = None
    BY <1>0, <2>1, ScheduleAssumption DEF Older, LockFree, Left
  <2>2. CASE lock # None
    <3>1. lock \in 0 .. Expiry
      BY <1>0, <2>2 DEF TypeOK
    <3>2. lock' = IF lock < Expiry THEN lock + 1 ELSE Expiry
      BY <1>0, <2>2 DEF Older
    <3> QED
      BY <2>2, <3>1, <3>2, ScheduleAssumption DEF LockFree, Left
  <2> QED
    BY <2>1, <2>2
<1>6. Lost' = Lost /\ Lost \in Nat /\ (~LockFree => Lost >= Expiry)
  BY <1>0, Factors DEF Lost, Inv, Locks
<1>7. entry # None => /\ entry.age \in Nat
                      /\ entry'.listed = entry.listed
                      /\ entry'.age \in 0 .. TooOld /\ entry'.age <= entry.age + 1
                      /\ entry' \in [age : 0 .. TooOld, listed : BOOLEAN]
  <2> SUFFICES ASSUME entry # None
               PROVE  /\ entry.age \in Nat
                      /\ entry'.listed = entry.listed
                      /\ entry'.age \in 0 .. TooOld /\ entry'.age <= entry.age + 1
                      /\ entry' \in [age : 0 .. TooOld, listed : BOOLEAN]
    OBVIOUS
  <2>1. entry \in [age : 0 .. TooOld, listed : BOOLEAN] /\ entry.age \in 0 .. TooOld
    BY <1>0 DEF TypeOK
  <2>2. entry' = [entry EXCEPT !.age = Older(@, TooOld)]
    BY DEF Tick
  <2>3. Older(entry.age, TooOld) \in 0 .. TooOld /\ Older(entry.age, TooOld) <= entry.age + 1
    BY <2>1, Bounds, ScheduleAssumption DEF Older
  <2> QED
    BY <2>1, <2>2, <2>3, Bounds
<1>8. entry = None => entry' = None
  BY DEF Tick
<1>9. TypeOK'
  <2>1. queue' \subseteq 0 .. Waiting
    <3>1. \A end \in queue : end + 1 \in 0 .. Waiting
      BY <1>0, ScheduleAssumption
    <3> QED
      BY <1>0, <3>1, Zenon
  <2>2. entry' \in [age : 0 .. TooOld, listed : BOOLEAN] \cup {None}
    BY <1>7, <1>8
  <2> QED
    BY <1>0, <1>1, <1>2, <1>4, <1>5, <2>1, <2>2 DEF TypeOK
<1>10. Locks' /\ Marks'
  <2>1. Locks'
    BY <1>0, <1>5 DEF Inv, Locks
  <2>2. Marks'
    <3> SUFFICES ASSUME synced' # None, synced' <= Interval PROVE clock' <= Lasting + synced'
      BY DEF Marks
    <3>1. synced # None /\ synced <= Interval
      BY <1>0, <1>4, ScheduleAssumption DEF TypeOK
    <3>2. synced \in Nat /\ synced' = synced + 1 /\ clock <= Lasting + synced
      BY <1>4, <3>1 DEF Inv, Marks
    <3> QED
      BY <1>0, <1>1, <3>2, ScheduleAssumption
  <2> QED
    BY <2>1, <2>2
<1>11. Ending' /\ Window'
  BY <1>0, <1>1, <1>2, <1>3, Bounds, ScheduleAssumption DEF Inv, Ending, Window, Asking
<1>12. Queued'
  <2> SUFFICES ASSUME queue' # {}, ~Asking
               PROVE  \E end \in queue' : clock' <= ToDispatch + end
    BY <1>3 DEF Queued
  <2>1. PICK end \in queue : clock <= ToDispatch + end
    BY <1>0 DEF Inv, Queued
  <2>2. end + 1 \in queue' /\ end \in Nat
    BY <1>0, <2>1
  <2>3. clock' <= ToDispatch + (end + 1)
    BY <1>0, <1>1, <2>1, <2>2, Bounds
  <2> QED
    BY <2>2, <2>3
<1>13. Pause'
  <2> SUFFICES ASSUME queue' = {}, ~Asking, IsDue'
               PROVE  clock' <= Lasting + Interval + 1 + Lost - Left'
    BY <1>0, <1>3, <1>6 DEF Pause
  <2>1. queue = {}
    BY <1>0
  <2>2. CASE IsDue
    <3>1. clock <= Lasting + Interval + 1 + Lost - Left /\ (LockFree => clock = 0)
      BY <1>0, <2>1, <2>2 DEF Inv, Pause
    <3>2. CASE LockFree
      <4>1. clock' = 1 /\ Left' = 0
        BY <1>1, <1>5, <3>1, <3>2
      <4> QED
        BY <1>6, <4>1, ScheduleAssumption
    <3>3. CASE ~LockFree
      <4>1. clock' = clock + 1 /\ Left' = Left - 1 /\ Left \in Nat /\ clock \in Nat
        BY <1>0, <1>1, <1>5, <3>3
      <4> QED
        BY <1>6, <3>1, <4>1, ScheduleAssumption
    <3> QED
      BY <3>2, <3>3
  <2>3. CASE ~IsDue
    <3>1. synced # None /\ synced <= Interval /\ synced \in Nat
      BY <1>0, <2>3, ScheduleAssumption DEF IsDue, TypeOK
    <3>2. clock <= Lasting + Interval
      BY <1>0, <3>1, ScheduleAssumption DEF Inv, Marks
    <3>3. Left' <= Lost
      BY <1>5, <1>6, ScheduleAssumption
    <3>4. clock \in Nat /\ clock' = clock + 1 /\ Left' \in Nat /\ Lost \in Nat
      BY <1>0, <1>1, <1>5, <1>6
    <3>5. PICK left \in Nat : Left' = left
      BY <3>4
    <3>6. PICK lost \in Nat : Lost = lost
      BY <3>4
    <3>7. left <= lost
      BY <3>3, <3>5, <3>6
    <3>8. clock' <= Lasting + Interval + 1 + lost - left
      BY <3>2, <3>4, <3>7, ScheduleAssumption
    <3> QED
      BY <3>5, <3>6, <3>8
  <2> QED
    BY <2>2, <2>3
<1>14. Reach'
  <2> SUFFICES ASSUME entry # None
               PROVE  /\ entry'.age <= Delay + vain * Cycle + (clock + 1)
                      /\ ~entry.listed => entry'.age <= Delay
    BY <1>0, <1>1, <1>7, <1>8 DEF Reach
  <2>1. /\ entry.age <= Delay + vain * Cycle + clock /\ vain * Cycle \in Nat
        /\ entry.listed \/ entry.age < Delay
    BY <1>0, Factors DEF Inv, Reach, Tick
  <2> QED
    BY <1>0, <1>7, <2>1, Bounds, ScheduleAssumption
<1> QED
  BY <1>9, <1>10, <1>11, <1>12, <1>13, <1>14 DEF Inv

LEMMA StepInv == Inv /\ [Next]_vars => Inv'
<1> SUFFICES ASSUME Inv, [Next]_vars PROVE Inv'
  OBVIOUS
<1>1. CASE Next
  BY <1>1, FireInv, BeginInv, BeginOtherInv, FetchInv, RefuseInv, EndInv, DieInv, BookInv, TickInv
     DEF Next
<1>2. CASE UNCHANGED vars
  BY <1>2 DEF vars, Inv, TypeOK, Locks, Marks, Ending, Window, Queued, Pause, Reach, Asking, Left,
     Lost, LockFree, IsDue
<1> QED
  BY <1>1, <1>2

\* The inductive invariant: how far the mark, the lock, the job that waits and the run of the
\* worker each let the pause grow since a run was last through with a window.
THEOREM Inductive == Spec => []Inv
<1> QED
  BY InitInv, StepInv, PTL DEF Spec

\* Ages, pauses, waiting jobs and faults stay within their bounds: no job waits, and no run
\* lasts, beyond what the worker allows.
THEOREM TypeCorrect == Spec => []TypeOK
<1>1. Inv => TypeOK
  BY DEF Inv
<1> QED
  BY <1>1, Inductive, PTL

\* PaypalScheduleSyncCommand: for any lookback that makes up for the delay and the faults, a
\* payment that is not stored is still in a window to come.
THEOREM NothingLeftBehind == Spec => []MissedIsInReach
<1>1. Inv => MissedIsInReach
  <2> SUFFICES ASSUME Inv, entry # None, ~(entry.age <= Lookback)
               PROVE  \E end \in queue \cup {run.end} : end # None /\ Ahead(end)
    BY DEF MissedIsInReach
  <2>0. /\ TypeOK /\ entry.age \in Nat /\ clock \in Nat
        /\ entry.age <= Delay + vain * Cycle + clock
        /\ vain * Cycle \in Nat /\ vain * Cycle <= Vain * Cycle /\ Vain * Cycle \in Nat
    BY Pauses, Factors, Bounds, ScheduleAssumption DEF Inv, TypeOK, Reach
  <2>1. \A end \in Nat : clock <= ToDispatch + end => entry.age <= Lookback + end
    BY <2>0, Bounds, LookbackAssumption, ScheduleAssumption
  <2>2. CASE Asking
    <3>1. run.end \in Nat /\ run.lived \in 0 .. Lasting
      BY <2>0, <2>2 DEF TypeOK, Asking
    <3>2. run.end <= Waiting + run.lived /\ clock <= ToDispatch + run.end
      BY <2>2 DEF Inv, Window
    <3>3. run.end <= entry.age /\ entry.age <= run.end + Lookback
      BY <2>0, <2>1, <3>1, <3>2, LookbackAssumption, Bounds, ScheduleAssumption
    <3>4. Ahead(run.end)
      BY <2>2, <3>3 DEF Ahead, InWindow, Starts, Asking
    <3> QED
      BY <2>2, <3>4 DEF Asking
  <2>3. CASE ~Asking /\ queue # {}
    <3>1. PICK end \in queue : clock <= ToDispatch + end
      BY <2>3 DEF Inv, Queued
    <3>2. end \in Nat /\ end <= Waiting
      BY <2>0, <3>1, ScheduleAssumption DEF TypeOK
    <3>3. end <= entry.age /\ entry.age <= end + Lookback
      BY <2>0, <2>1, <3>1, <3>2, LookbackAssumption, Bounds, ScheduleAssumption
    <3>4. Ahead(end) /\ end # None
      BY <3>1, <3>2, <3>3, ScheduleAssumption DEF Ahead, InWindow, Starts
    <3> QED
      BY <3>1, <3>4
  <2>4. CASE ~Asking /\ queue = {}
    <3>1. clock <= ToDispatch + 0
      BY <2>4, Pauses, Bounds
    <3> QED
      BY <2>0, <2>1, <3>1, ScheduleAssumption
  <2> QED
    BY <2>2, <2>3, <2>4
<1> QED
  BY <1>1, Inductive, PTL

\* The safety half of MissedArrives, for every value of the constants: a payment that PayPal
\* has booked is away no longer than the delay and one cycle more than came to nothing.
THEOREM ArrivesInTimeHolds == Spec => []ArrivesInTime
<1>1. Inv => ArrivesInTime
  <2> SUFFICES ASSUME Inv, entry # None PROVE entry.age <= Delay + (Vain + 1) * Cycle
    BY DEF ArrivesInTime
  <2>1. /\ TypeOK /\ entry.age \in Nat /\ clock \in Nat /\ clock <= Cycle
        /\ entry.age <= Delay + vain * Cycle + clock
        /\ vain * Cycle \in Nat /\ vain * Cycle <= Vain * Cycle
    BY Pauses, Factors, Bounds, ScheduleAssumption DEF Inv, TypeOK, Reach
  <2>2. (Vain + 1) * Cycle = Vain * Cycle + Cycle
    BY Products, Bounds, ScheduleAssumption
  <2> QED
    BY <2>1, <2>2, Bounds, ScheduleAssumption
<1> QED
  BY <1>1, Inductive, PTL
=============================================================================
