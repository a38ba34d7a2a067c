-------------------------- MODULE PaypalSync_proofs --------------------------
(***************************************************************************)
(* Proofs about PaypalSync, for any number of payments, any spans, window  *)
(* lengths, split steps and limits.  That a successful run has what it     *)
(* owes holds however syncs overlap; what is said of the current revision  *)
(* holds with one sync at a time.                                          *)
(***************************************************************************)
EXTENDS PaypalSync, TLAPS

Working == {"look", "prior", "supersede", "create"}

\* A process in the middle of an upsert has a revision to write.
HasRecord == \A s \in Syncs : proc[s].pc \in Working => proc[s].rev \in Revisions

Typed == TypeOK /\ HasRecord

(***************************************************************************)
(* Pieces of a step.                                                       *)
(***************************************************************************)

LEMMA RevisionParts ==
  ASSUME NEW r \in Revisions
  PROVE  /\ r[1] \in Payments /\ Of(r) \in Payments /\ Of(r) = r[1]
         /\ r[2] \in Nat /\ r[2] <= MaxVersion[r[1]] /\ r = <<r[1], r[2]>>
<1>1. PICK p \in Payments : r \in {p} \X (0 .. MaxVersion[p])
  BY DEF Revisions
<1>2. r[1] = p /\ r[2] \in 0 .. MaxVersion[p] /\ r = <<r[1], r[2]>>
  BY <1>1
<1>3. MaxVersion[p] \in Nat
  BY PaypalAssumption
<1> QED
  BY <1>2, <1>3 DEF Of

LEMMA LatestTyped ==
  ASSUME TypeOK, NEW p \in Payments
  PROVE  Latest(p) \in Revisions /\ Of(Latest(p)) = p /\ Latest(p)[2] = version[p]
<1>1. version[p] \in 0 .. MaxVersion[p]
  BY PaypalAssumption DEF TypeOK
<1>2. Latest(p) \in {p} \X (0 .. MaxVersion[p])
  BY <1>1 DEF Latest
<1> QED
  BY <1>2 DEF Revisions, Latest, Of

LEMMA Becomes ==
  ASSUME TypeOK, NEW s \in Syncs, NEW p \in Procs, Become(s, p)
  PROVE  /\ proc' \in [Syncs -> Procs] /\ proc'[s] = p
         /\ \A t \in Syncs : t # s => proc'[t] = proc[t]
BY DEF TypeOK, Become

LEMMA IdleTyped == Idle \in Procs
BY DEF Idle, Procs

LEMMA SplitTyped ==
  ASSUME NEW lo \in Int, NEW hi \in Int, NEW step \in Nat \ {0}, NEW c \in Split(lo, hi, step)
  PROVE  c.lo \in Int /\ c.hi \in Int /\ c.lo < c.hi
<1>1. PICK a \in {b \in lo .. (hi - 1) : (b - lo) % step = 0} :
        c = [lo |-> a, hi |-> IF a + step > hi THEN hi ELSE a + step]
  BY DEF Split
<1>2. a \in Int /\ a < hi
  BY <1>1
<1> QED
  BY <1>1, <1>2

\* The last start of a window at or before an instant.
LEMMA StartBefore ==
  ASSUME NEW lo \in Int, NEW x \in Int, lo <= x, NEW step \in Nat \ {0}
  PROVE  \E a \in lo .. x : (a - lo) % step = 0 /\ x < a + step
<1>1. PICK d \in Nat : d = x - lo
  OBVIOUS
<1>2. (d - (d % step)) % step = 0
  <2>1. PICK k \in Nat : k = d \div step
    OBVIOUS
  <2>2. d = step * k + (d % step)
    BY <2>1
  <2>3. d - (d % step) = step * k
    <3>1. step * k \in Int /\ d % step \in Int
      OBVIOUS
    <3> QED
      BY <2>2, <3>1
  <2>4. (step * k) % step = 0
    OBVIOUS
  <2> QED
    BY <2>3, <2>4
<1>3. d % step \in 0 .. (step - 1) /\ d % step <= d
  OBVIOUS
<1> DEFINE m == d % step
           a == lo + (d - m)
<1> HIDE DEF m
<1>4. a \in lo .. x /\ a - lo = d - m /\ x < a + step
  BY <1>1, <1>3 DEF m
<1> HIDE DEF a
<1>5. (a - lo) % step = 0
  BY <1>2, <1>4 DEF m
<1> QED
  BY <1>4, <1>5

\* Every instant of a span lies in one of the windows it is split into.
LEMMA SplitCovers ==
  ASSUME NEW lo \in Int, NEW hi \in Int, NEW step \in Nat \ {0}, NEW x \in Int,
         lo <= x, x <= hi, lo < hi
  PROVE  \E c \in Split(lo, hi, step) : c.lo <= x /\ x <= c.hi
<1>1. \E a \in lo .. (hi - 1) : (a - lo) % step = 0 /\ a <= x /\ x <= a + step
  <2>1. CASE x < hi
    <3>1. PICK a \in lo .. x : (a - lo) % step = 0 /\ x < a + step
      BY StartBefore
    <3>2. a \in lo .. (hi - 1) /\ a <= x /\ x <= a + step
      BY <2>1, <3>1
    <3> QED
      BY <3>1, <3>2
  <2>2. CASE x = hi
    <3>0. PICK y \in Int : y = hi - 1 /\ lo <= y
      OBVIOUS
    <3>1. PICK a \in lo .. y : (a - lo) % step = 0 /\ y < a + step
      BY <3>0, StartBefore
    <3>2. a \in lo .. (hi - 1) /\ a <= x /\ x <= a + step
      BY <2>2, <3>0, <3>1
    <3> QED
      BY <3>1, <3>2
  <2> QED
    BY <2>1, <2>2
<1>2. PICK a \in lo .. (hi - 1) : (a - lo) % step = 0 /\ a <= x /\ x <= a + step
  BY <1>1
<1> DEFINE c == [lo |-> a, hi |-> IF a + step > hi THEN hi ELSE a + step]
<1>3. c \in Split(lo, hi, step)
  BY <1>2 DEF Split
<1>4. c.lo <= x /\ x <= c.hi
  BY <1>2
<1> QED
  BY <1>3, <1>4

(***************************************************************************)
(* Types.                                                                  *)
(***************************************************************************)

\* A step of one process.
LEMMA Moves ==
  ASSUME Typed, NEW s \in Syncs, NEW q \in Procs, Become(s, q),
         q.pc \in Working => q.rev \in Revisions,
         UNCHANGED version, run' \in [Syncs -> SyncRuns], row' \in [Revisions -> Rows \cup {None}],
         hand' \in [Payments -> Events \cup {None}], cut' \in [Payments -> Revisions \cup {None}]
  PROVE  Typed'
<1>1. /\ proc' \in [Syncs -> Procs] /\ proc'[s] = q
      /\ \A t \in Syncs : t # s => proc'[t] = proc[t]
  BY Becomes DEF Typed
<1>2. TypeOK'
  BY <1>1 DEF Typed, TypeOK
<1>3. HasRecord'
  BY <1>1 DEF Typed, HasRecord
<1> QED
  BY <1>2, <1>3 DEF Typed

\* The same for a step that changes nothing else.
LEMMA Quiet ==
  ASSUME Typed, NEW s \in Syncs, NEW q \in Procs, Become(s, q),
         q.pc \in Working => q.rev \in Revisions, UNCHANGED <<version, row, run, hand, cut>>
  PROVE  Typed'
BY Moves DEF Typed, TypeOK

LEMMA DoneTyped ==
  ASSUME NEW q \in Procs
  PROVE  /\ Done(q) \in Procs /\ Done(q).pc = IF q.rev[2] = 0 THEN "file" ELSE "fetch"
         /\ Done(q).rev = None /\ Done(q).windows = q.windows /\ Done(q).seen = q.seen
         /\ Done(q).file = q.file /\ Done(q).had = q.had
BY DEF Done, Procs

LEMMA TopsTyped == ASSUME NEW span \in Spans PROVE Tops(span) \subseteq Windows
<1>1. span.lo \in Int /\ span.hi \in Int /\ MaxWindow \in Nat \ {0}
  BY PaypalAssumption
<1> QED
  BY <1>1, SplitTyped DEF Tops, Windows

LEMMA HalvesTyped ==
  ASSUME NEW w \in Windows, w.level < Len(Steps) PROVE Halves(w) \subseteq Windows
<1>1. w.lo \in Int /\ w.hi \in Int /\ w.level \in Nat /\ w.top \in Int
  BY DEF Windows
<1>2. Steps[w.level + 1] \in Nat \ {0}
  BY <1>1, PaypalAssumption
<1> QED
  BY <1>1, <1>2, SplitTyped DEF Halves, Windows

LEMMA RowTyped == ASSUME TypeOK, NEW r \in Revisions, Stored(r) PROVE row[r] \in Rows
BY DEF TypeOK, Stored

LEMMA CurrentTyped ==
  ASSUME TypeOK, NEW p, NEW r \in CurrentOf(p)
  PROVE  r \in Revisions /\ Of(r) = p /\ Stored(r) /\ row[r] \in Rows /\ row[r].current
BY RowTyped DEF CurrentOf, Current

LEMMA InitTyped == Init => Typed
<1> SUFFICES ASSUME Init PROVE Typed
  OBVIOUS
<1>1. run \in [Syncs -> SyncRuns]
  BY DEF Init, SyncRuns, Finished
<1>2. proc \in [Syncs -> Procs] /\ \A s \in Syncs : proc[s].pc = "idle"
  BY IdleTyped DEF Init, Idle
<1>3. version \in [Payments -> Nat] /\ \A p \in Payments : version[p] <= MaxVersion[p]
  BY PaypalAssumption DEF Init
<1>4. TypeOK
  BY <1>1, <1>2, <1>3 DEF TypeOK, Init
<1> QED
  BY <1>2, <1>4 DEF Typed, HasRecord, Working

LEMMA StepTyped == Typed /\ [Next]_vars => Typed'
<1> SUFFICES ASSUME Typed, [Next]_vars PROVE Typed'
  OBVIOUS
<1>0. /\ TypeOK /\ HasRecord /\ \A s \in Syncs : proc[s] \in Procs /\ run[s] \in SyncRuns
      /\ row \in [Revisions -> Rows \cup {None}]
  BY DEF Typed, TypeOK
<1>1. ASSUME NEW s \in Syncs, BeginSync(s) PROVE Typed'
  <2>1. PICK span \in Spans :
          /\ Become(s, [Idle EXCEPT !.pc = "fetch", !.windows = Tops(span)])
          /\ run' = [run EXCEPT ![s] = [status |-> "running", clean |-> TRUE,
                                        owed |-> {Latest(p) : p \in Listed(span)}]]
    BY <1>1 DEF BeginSync
  <2>2. {Latest(p) : p \in Listed(span)} \subseteq Revisions
    BY <1>0, LatestTyped DEF Listed
  <2>3. run' \in [Syncs -> SyncRuns]
    BY <1>0, <2>1, <2>2 DEF TypeOK, SyncRuns
  <2>4. [Idle EXCEPT !.pc = "fetch", !.windows = Tops(span)] \in Procs
    BY TopsTyped DEF Idle, Procs
  <2> QED
    BY <1>0, <1>1, <2>1, <2>3, <2>4, Moves DEF BeginSync, TypeOK, Idle, Working
<1>2. ASSUME NEW s \in Syncs, BeginImport(s) PROVE Typed'
  <2>1. PICK file \in Files :
          /\ Become(s, [Idle EXCEPT !.pc = "file", !.file = file])
          /\ run' = [run EXCEPT ![s] = [status |-> "running", clean |-> TRUE, owed |-> file]]
    BY <1>2 DEF BeginImport
  <2>2. file \subseteq Revisions
    BY PaypalAssumption
  <2>3. run' \in [Syncs -> SyncRuns]
    BY <1>0, <2>1, <2>2 DEF TypeOK, SyncRuns
  <2>4. [Idle EXCEPT !.pc = "file", !.file = file] \in Procs
    BY <2>2 DEF Idle, Procs
  <2> QED
    BY <1>0, <1>2, <2>1, <2>3, <2>4, Moves DEF BeginImport, TypeOK, Idle, Working
<1>3. ASSUME NEW s \in Syncs, Fetch(s) PROVE Typed'
  <2>0. PICK w \in proc[s].windows :
          \/ \E p \in Payments : FetchRecord(s, w, p)
          \/ EndWindow(s, w) \/ SplitWindow(s, w) \/ GiveUp(s, w) \/ RefuseWindow(s, w) \/ RefuseRun(s, w)
    BY <1>3 DEF Fetch
  <2>w. w \in Windows
    BY <1>0 DEF Procs
  <2>n. [run EXCEPT ![s].clean = FALSE] \in [Syncs -> SyncRuns]
    BY <1>0 DEF TypeOK, SyncRuns
  <2>1. ASSUME NEW p \in Payments, FetchRecord(s, w, p) PROVE Typed'
    <3> DEFINE q == [proc[s] EXCEPT !.seen = @ \cup {p}]
    <3>1. At(s, "fetch") /\ q \in Procs /\ q.pc = "fetch"
      BY <1>0, <2>1 DEF FetchRecord, Turn, At, Procs
    <3>2. CASE Latest(p) \in Broken
      BY <1>0, <2>1, <2>n, <3>1, <3>2, Moves DEF FetchRecord, TypeOK, Working
    <3>3. CASE Latest(p) \notin Broken
      <4>1. Latest(p) \in Revisions
        BY <1>0, LatestTyped
      <4>2. [q EXCEPT !.pc = "look", !.rev = Latest(p)] \in Procs
        BY <3>1, <4>1 DEF Procs
      <4>3. [q EXCEPT !.pc = "look", !.rev = Latest(p)].rev = Latest(p)
        BY <3>1 DEF Procs
      <4> QED
        BY <2>1, <3>3, <4>1, <4>2, <4>3, Quiet DEF FetchRecord
    <3> QED
      BY <3>2, <3>3
  <2>2. CASE EndWindow(s, w)
    <3>1. [proc[s] EXCEPT !.windows = @ \ {w}, !.seen = {}] \in Procs
      BY <1>0 DEF Procs
    <3> QED
      BY <1>0, <2>2, <3>1, Quiet DEF EndWindow, Turn, At, Working, Procs
  <2>3. CASE SplitWindow(s, w)
    <3>1. [proc[s] EXCEPT !.windows = (@ \ {w}) \cup Halves(w), !.seen = {}] \in Procs
      BY <1>0, <2>3, <2>w, HalvesTyped DEF SplitWindow, Procs
    <3> QED
      BY <1>0, <2>3, <3>1, Quiet DEF SplitWindow, Turn, At, Working, Procs
  <2>4. CASE GiveUp(s, w)
    <3>1. [proc[s] EXCEPT !.windows = @ \ {w}, !.seen = {}] \in Procs
      BY <1>0 DEF Procs
    <3> QED
      BY <1>0, <2>4, <2>n, <3>1, Moves DEF GiveUp, Turn, At, Working, Procs, TypeOK
  <2>5. CASE RefuseWindow(s, w)
    <3>1. [proc[s] EXCEPT !.windows = {v \in @ : v.top # w.top}, !.seen = {}, !.had = TRUE] \in Procs
      BY <1>0 DEF Procs
    <3> QED
      BY <1>0, <2>5, <3>1, Quiet DEF RefuseWindow, Turn, At, Working, Procs
  <2>6. CASE RefuseRun(s, w)
    <3>1. run' \in [Syncs -> SyncRuns]
      BY <1>0, <2>6 DEF RefuseRun, Finish, TypeOK, SyncRuns, Finished
    <3> QED
      BY <1>0, <2>6, <3>1, IdleTyped, Moves DEF RefuseRun, Finish, Idle, Working, TypeOK
  <2> QED
    BY <2>0, <2>1, <2>2, <2>3, <2>4, <2>5, <2>6
<1>4. ASSUME NEW s \in Syncs, EndSync(s) \/ EndImport(s) PROVE Typed'
  <2>1. PICK status \in Finished : Finish(s, status)
    BY <1>4 DEF EndSync, EndImport, Finished
  <2>2. run' \in [Syncs -> SyncRuns]
    BY <1>0, <2>1 DEF Finish, TypeOK, SyncRuns
  <2> QED
    BY <1>0, <1>4, <2>1, <2>2, IdleTyped, Moves DEF EndSync, EndImport, Finish, Idle, Working, TypeOK
<1>5. ASSUME NEW s \in Syncs, NEW r \in Revisions, ReadLine(s, r) PROVE Typed'
  <2> DEFINE q == [proc[s] EXCEPT !.file = @ \ {r}]
  <2>1. q \in Procs /\ q.pc = "file"
    BY <1>0, <1>5 DEF ReadLine, At, Procs
  <2>2. CASE r \in Broken
    <3>1. run' \in [Syncs -> SyncRuns]
      BY <1>0, <1>5, <2>2 DEF ReadLine, TypeOK, SyncRuns
    <3> QED
      BY <1>0, <1>5, <2>1, <2>2, <3>1, Moves DEF ReadLine, TypeOK, Working
  <2>3. CASE r \notin Broken
    <3>1. [q EXCEPT !.pc = "look", !.rev = r] \in Procs /\ [q EXCEPT !.pc = "look", !.rev = r].rev = r
      BY <2>1 DEF Procs
    <3> QED
      BY <1>5, <2>3, <3>1, Quiet DEF ReadLine
  <2> QED
    BY <2>2, <2>3
<1>6. ASSUME NEW s \in Syncs, LookUp(s) PROVE Typed'
  <2>1. proc[s].rev \in Revisions
    BY <1>0, <1>6 DEF LookUp, At, HasRecord, Working
  <2>2. CASE Stored(proc[s].rev)
    <3>1. Done(proc[s]) \in Procs /\ Done(proc[s]).pc \notin Working
      BY <1>0, DoneTyped DEF Working
    <3> QED
      BY <1>6, <2>2, <3>1, Quiet DEF LookUp
  <2>3. CASE ~Stored(proc[s].rev)
    <3>1. [proc[s] EXCEPT !.pc = "prior"] \in Procs /\ [proc[s] EXCEPT !.pc = "prior"].rev = proc[s].rev
      BY <1>0 DEF Procs
    <3> QED
      BY <1>6, <2>1, <2>3, <3>1, Quiet DEF LookUp
  <2> QED
    BY <2>2, <2>3
<1>7. ASSUME NEW s \in Syncs, ReadPrior(s) PROVE Typed'
  <2> DEFINE cs == CurrentOf(Of(proc[s].rev))
  <2>1. proc[s].rev \in Revisions
    BY <1>0, <1>7 DEF ReadPrior, At, HasRecord, Working
  <2>2. PICK prior \in IF cs = {} THEN {None} ELSE {c \in cs : IsLatest(c, cs)} :
          Become(s, [proc[s] EXCEPT !.pc = IF prior # None /\ IncomingIsNewer(proc[s].rev, prior)
                                             THEN "supersede" ELSE "create",
                                    !.prior = prior, !.newer = IncomingIsNewer(proc[s].rev, prior),
                                    !.carry = Carried(prior)])
    BY <1>7 DEF ReadPrior
  <2>3. prior = None \/ (prior \in Revisions /\ row[prior] \in Rows)
    BY <1>0, <2>2, CurrentTyped
  <2>4. Carried(prior) \in Events \cup {None}
    BY <2>3 DEF Carried, Rows
  <2>5. IncomingIsNewer(proc[s].rev, prior) \in BOOLEAN
    BY DEF IncomingIsNewer
  <2> DEFINE q == [proc[s] EXCEPT !.pc = IF prior # None /\ IncomingIsNewer(proc[s].rev, prior)
                                             THEN "supersede" ELSE "create",
                                    !.prior = prior, !.newer = IncomingIsNewer(proc[s].rev, prior),
                                    !.carry = Carried(prior)]
  <2>6. q \in Procs /\ q.rev = proc[s].rev
    BY <1>0, <2>3, <2>4, <2>5 DEF Procs
  <2> QED
    BY <1>7, <2>1, <2>2, <2>6, Quiet DEF ReadPrior
<1>8. ASSUME NEW s \in Syncs, Supersede(s) PROVE Typed'
  <2>1. proc[s].rev \in Revisions
    BY <1>0, <1>8 DEF Supersede, At, HasRecord, Working
  <2>2. \A r \in CurrentOf(Of(proc[s].rev)) : [row[r] EXCEPT !.current = FALSE] \in Rows
    BY <1>0, CurrentTyped DEF Rows
  <2>3. row' \in [Revisions -> Rows \cup {None}]
    BY <1>0, <1>8, <2>2 DEF Supersede
  <2>4. [proc[s] EXCEPT !.pc = "create"] \in Procs /\ [proc[s] EXCEPT !.pc = "create"].rev = proc[s].rev
    BY <1>0 DEF Procs
  <2> QED
    BY <1>0, <1>8, <2>1, <2>3, <2>4, Moves DEF Supersede, TypeOK
<1>9. ASSUME NEW s \in Syncs, Create(s) PROVE Typed'
  <2>1. Done(proc[s]) \in Procs /\ Done(proc[s]).pc \notin Working
    BY <1>0, DoneTyped DEF Working
  <2>2. run' \in [Syncs -> SyncRuns]
    <3>1. run' = run \/ run' = [run EXCEPT ![s].clean = FALSE]
      BY <1>9 DEF Create, Counted
    <3> QED
      BY <1>0, <3>1 DEF TypeOK, SyncRuns
  <2>3. NewRow(s) \in Rows
    BY <1>0 DEF NewRow, Rows, Procs
  <2>4. row' \in [Revisions -> Rows \cup {None}]
    BY <1>0, <1>9, <2>3 DEF Create
  <2> QED
    BY <1>0, <1>9, <2>1, <2>2, <2>4, Moves DEF Create, TypeOK
<1>10. ASSUME NEW s \in Syncs, Crash(s) \/ StatementFails(s) PROVE Typed'
  <2>1. Replaced(s) => proc[s].rev \in Revisions
    BY <1>0 DEF Replaced, At, HasRecord, Working
  <2>2. cut' \in [Payments -> Revisions \cup {None}] /\ hand' \in [Payments -> Events \cup {None}]
    BY <1>0, <1>10, <2>1 DEF Crash, StatementFails, Loses, TypeOK
  <2>3. CASE Crash(s)
    BY <1>0, <2>2, <2>3, IdleTyped, Moves DEF Crash, Idle, Working, TypeOK
  <2>4. CASE StatementFails(s)
    <3>1. Done(proc[s]) \in Procs /\ Done(proc[s]).pc \notin Working
      BY <1>0, DoneTyped DEF Working
    <3>2. run' \in [Syncs -> SyncRuns]
      BY <1>0, <2>4 DEF StatementFails, Counted, TypeOK, SyncRuns
    <3> QED
      BY <1>0, <2>2, <2>4, <3>1, <3>2, Moves DEF StatementFails, TypeOK
  <2> QED
    BY <1>10, <2>3, <2>4
<1>11. ASSUME NEW r \in Revisions, NEW e \in Events, Assign(r, e) PROVE Typed'
  <2>1. row[r] \in Rows
    BY <1>0, <1>11, RowTyped DEF Assign
  <2>2. [row[r] EXCEPT !.hand = e] \in Rows
    BY <2>1 DEF Rows
  <2>3. row' = [row EXCEPT ![r] = [row[r] EXCEPT !.hand = e]]
    BY <1>11 DEF Assign
  <2>4. row' \in [Revisions -> Rows \cup {None}]
    BY <1>0, <2>2, <2>3
  <2>5. hand' \in [Payments -> Events \cup {None}]
    BY <1>0, <1>11 DEF Assign, TypeOK
  <2>6. TypeOK'
    BY <1>0, <1>11, <2>4, <2>5 DEF Assign, TypeOK
  <2> QED
    BY <1>0, <1>11, <2>6 DEF Assign, Typed, HasRecord
<1>12. ASSUME NEW p \in Payments, Report(p) PROVE Typed'
  <2>0. /\ version[p] \in Nat /\ MaxVersion[p] \in Nat /\ version[p] < MaxVersion[p]
        /\ version' = [version EXCEPT ![p] = version[p] + 1]
    BY <1>0, <1>12, PaypalAssumption DEF Report, TypeOK
  <2>1. version' \in [Payments -> Nat] /\ \A o \in Payments : version'[o] <= MaxVersion[o]
    BY <1>0, <2>0 DEF TypeOK
  <2>2. TypeOK'
    BY <1>0, <1>12, <2>1 DEF Report, TypeOK
  <2> QED
    BY <1>0, <1>12, <2>2 DEF Report, Typed, HasRecord
<1>13. ASSUME UNCHANGED vars PROVE Typed'
  BY <1>0, <1>13 DEF vars, Typed, TypeOK, HasRecord
<1> QED
  BY <1>1, <1>2, <1>3, <1>4, <1>5, <1>6, <1>7, <1>8, <1>9, <1>10, <1>11, <1>12, <1>13 DEF Next, Upsert

\* Every state of the sync has its type.
THEOREM TypeCorrect == Spec => []TypeOK
<1>1. Typed => TypeOK
  BY DEF Typed
<1> QED
  BY <1>1, InitTyped, StepTyped, PTL DEF Spec

(***************************************************************************)
(* What a successful run has brought, however syncs overlap.               *)
(***************************************************************************)

Got(r) == \E q \in Revisions : Of(q) = Of(r) /\ q[2] >= r[2] /\ SameSource(q, r) /\ Stored(q)
AtHand(s, r) ==
  /\ proc[s].pc \in Working /\ Of(proc[s].rev) = Of(r)
  /\ proc[s].rev[2] >= r[2] /\ SameSource(proc[s].rev, r)
Ahead(s, r) == Of(r) \notin proc[s].seen /\ \E w \in proc[s].windows : Within(Of(r), w)

\* Where a process stands agrees with what it goes through: windows or a file.
FromApi(s) == proc[s].pc = "fetch" \/ (proc[s].pc \in Working /\ proc[s].rev[2] > 0)
FromFile(s) == proc[s].pc = "file" \/ (proc[s].pc \in Working /\ proc[s].rev[2] = 0)
Source(s) ==
  /\ proc[s].pc # "idle" => run[s].status = "running"
  /\ \A w \in proc[s].windows : w.lo < w.hi
  /\ FromApi(s) => /\ proc[s].file = {}
                   /\ \A r \in run[s].owed : 0 < r[2] /\ r[2] <= version[Of(r)]
  /\ FromFile(s) => /\ proc[s].windows = {}
                    /\ \A r \in run[s].owed \cup proc[s].file : r[2] = 0

\* What a run owes is stored, at hand, in the rest of the file, or in a window ahead.
Cover(s) ==
  proc[s].pc # "idle" /\ run[s].clean /\ ~proc[s].had =>
    \A r \in run[s].owed : Got(r) \/ AtHand(s, r) \/ r \in proc[s].file \/ Ahead(s, r)

Brought(s) == run[s].status = "success" /\ run[s].clean => \A r \in run[s].owed : Got(r)

\* A clean import of a file is a success; had is about windows only.
Part(s) == Source(s) /\ Cover(s) /\ Brought(s) /\ (FromFile(s) => ~proc[s].had)
Complete == Typed /\ \A s \in Syncs : Part(s)

\* What holds of a process goes on to hold while others store rows.
LEMMA PartStands ==
  ASSUME Typed, NEW s \in Syncs, Part(s), proc'[s] = proc[s], run'[s] = run[s],
         \A r \in Revisions : Stored(r) => Stored(r)', \A p \in Payments : version[p] <= version'[p],
         version' \in [Payments -> Nat]
  PROVE  Part(s)'
<1>1. \A r : Got(r) => Got(r)'
  BY DEF Got
<1>2. run[s].owed \subseteq Revisions /\ version \in [Payments -> Nat]
  BY DEF Typed, TypeOK, SyncRuns
<1>3. \A r \in run[s].owed : r[2] \in Nat /\ Of(r) \in Payments
  BY <1>2, RevisionParts
<1>4. \A r \in run[s].owed : r[2] <= version[Of(r)] => r[2] <= version'[Of(r)]
  BY <1>2, <1>3
<1>5. (FromApi(s)' <=> FromApi(s)) /\ (FromFile(s)' <=> FromFile(s))
  BY DEF FromApi, FromFile
<1>6. Source(s)'
  BY <1>4, <1>5 DEF Part, Source
<1>7. \A r : (AtHand(s, r) => AtHand(s, r)') /\ (Ahead(s, r) => Ahead(s, r)')
  BY DEF AtHand, Ahead, Within
<1>8. Cover(s)'
  BY <1>1, <1>7 DEF Part, Cover
<1>9. Brought(s)'
  BY <1>1 DEF Part, Brought
<1> QED
  BY <1>5, <1>6, <1>8, <1>9 DEF Part

\* A step of one process has to be looked at for that process only.
LEMMA ForOne ==
  ASSUME Complete, Typed', NEW s \in Syncs, \A t \in Syncs : t # s => proc'[t] = proc[t] /\ run'[t] = run[t],
         \A r \in Revisions : Stored(r) => Stored(r)', UNCHANGED version, Part(s)'
  PROVE  Complete'
<1>1. \A t \in Syncs : t # s => Part(t)'
  <2> TAKE t \in Syncs
  <2> HAVE t # s
  <2>1. version' \in [Payments -> Nat] /\ \A p \in Payments : version[p] <= version'[p]
    BY DEF Complete, Typed, TypeOK
  <2> QED
    BY <2>1, PartStands DEF Complete
<1> QED
  BY <1>1 DEF Complete

LEMMA InitComplete == Init => Complete
<1> SUFFICES ASSUME Init PROVE Complete
  OBVIOUS
<1>1. \A s \in Syncs : proc[s] = Idle /\ run[s] = [status |-> "none", clean |-> TRUE, owed |-> {}]
  BY DEF Init
<1>2. \A s \in Syncs : Part(s)
  BY <1>1 DEF Part, Source, Cover, Brought, FromApi, FromFile, Idle, Working
<1> QED
  BY <1>2, InitTyped DEF Complete

\* The windows of a run cover its span, those of a split the window they replace.
LEMMA TopsCover ==
  ASSUME NEW span \in Spans, NEW p \in Payments, Within(p, span)
  PROVE  \E w \in Tops(span) : Within(p, w)
<1>1. /\ span.lo \in Int /\ span.hi \in Int /\ span.lo # span.hi /\ Place[p] \in Int
      /\ MaxWindow \in Nat \ {0}
  BY PaypalAssumption
<1>2. span.lo <= Place[p] /\ Place[p] <= span.hi
  BY DEF Within
<1>3. PICK c \in Split(span.lo, span.hi, MaxWindow) : c.lo <= Place[p] /\ Place[p] <= c.hi
  BY <1>1, <1>2, SplitCovers
<1> DEFINE w == [lo |-> c.lo, hi |-> c.hi, level |-> 0, top |-> c.lo]
<1>4. w \in Tops(span) /\ w.lo = c.lo /\ w.hi = c.hi
  BY DEF Tops
<1> QED
  BY <1>3, <1>4 DEF Within

LEMMA HalvesCover ==
  ASSUME NEW w \in Windows, w.lo < w.hi, w.level < Len(Steps), NEW p \in Payments, Within(p, w)
  PROVE  \E v \in Halves(w) : Within(p, v)
<1>1. w.lo \in Int /\ w.hi \in Int /\ w.level \in Nat /\ Place[p] \in Int
  BY PaypalAssumption DEF Windows
<1>2. Steps[w.level + 1] \in Nat \ {0}
  BY <1>1, PaypalAssumption
<1>3. PICK c \in Split(w.lo, w.hi, Steps[w.level + 1]) : c.lo <= Place[p] /\ Place[p] <= c.hi
  BY <1>1, <1>2, SplitCovers DEF Within
<1> DEFINE v == [lo |-> c.lo, hi |-> c.hi, level |-> w.level + 1, top |-> w.top]
<1>4. v \in Halves(w) /\ v.lo = c.lo /\ v.hi = c.hi
  BY DEF Halves
<1> QED
  BY <1>3, <1>4 DEF Within

LEMMA WindowsWide ==
  /\ \A span \in Spans : \A w \in Tops(span) : w.lo < w.hi
  /\ \A w \in Windows : w.level < Len(Steps) => \A v \in Halves(w) : v.lo < v.hi
<1>1. ASSUME NEW span \in Spans, NEW w \in Tops(span) PROVE w.lo < w.hi
  <2>1. span.lo \in Int /\ span.hi \in Int /\ MaxWindow \in Nat \ {0}
    BY PaypalAssumption
  <2> QED
    BY <2>1, SplitTyped DEF Tops
<1>2. ASSUME NEW w \in Windows, w.level < Len(Steps), NEW v \in Halves(w) PROVE v.lo < v.hi
  <2>1. w.lo \in Int /\ w.hi \in Int /\ w.level \in Nat
    BY DEF Windows
  <2>2. Steps[w.level + 1] \in Nat \ {0}
    BY <1>2, <2>1, PaypalAssumption
  <2> QED
    BY <2>1, <2>2, SplitTyped DEF Halves
<1> QED
  BY <1>1, <1>2

\* A step of a run from one window, record or line to the next.
LEMMA StepOn ==
  ASSUME Complete, Typed', NEW s \in Syncs, NEW q \in Procs, Become(s, q),
         UNCHANGED <<version, row, run>>, Part(s)'
  PROVE  Complete'
<1>1. \A t \in Syncs : t # s => proc'[t] = proc[t] /\ run'[t] = run[t]
  BY Becomes DEF Complete, Typed
<1>2. \A r \in Revisions : Stored(r) => Stored(r)'
  BY DEF Stored
<1> QED
  BY <1>1, <1>2, ForOne

\* An error that is counted: the run owes nothing any more.
LEMMA StepCounted ==
  ASSUME Complete, Typed', NEW s \in Syncs, NEW q \in Procs, Become(s, q),
         UNCHANGED version, \A r \in Revisions : Stored(r) => Stored(r)',
         Counted(s), Source(s)', FromFile(s)' => ~q.had
  PROVE  Complete'
<1>1. /\ proc'[s] = q /\ run'[s].clean = FALSE
      /\ \A t \in Syncs : t # s => proc'[t] = proc[t] /\ run'[t] = run[t]
  BY Becomes DEF Complete, Typed, TypeOK, SyncRuns, Counted
<1>2. Part(s)'
  BY <1>1 DEF Part, Cover, Brought
<1> QED
  BY <1>1, <1>2, ForOne

LEMMA BeginComplete ==
  ASSUME Complete, Typed', NEW s \in Syncs, BeginSync(s) \/ BeginImport(s)
  PROVE  Complete'
<1>0. TypeOK /\ run \in [Syncs -> SyncRuns] /\ UNCHANGED <<version, row>>
  BY DEF Complete, Typed, TypeOK, BeginSync, BeginImport
<1>1. \A r \in Revisions : Stored(r) => Stored(r)'
  BY <1>0 DEF Stored
<1>2. CASE BeginSync(s)
  <2>1. PICK span \in Spans :
          /\ Become(s, [Idle EXCEPT !.pc = "fetch", !.windows = Tops(span)])
          /\ run' = [run EXCEPT ![s] = [status |-> "running", clean |-> TRUE,
                                        owed |-> {Latest(p) : p \in Listed(span)}]]
    BY <1>2 DEF BeginSync
  <2>2. /\ proc'[s].pc = "fetch" /\ proc'[s].windows = Tops(span) /\ proc'[s].seen = {}
        /\ proc'[s].file = {}
        /\ run'[s].status = "running" /\ run'[s].owed = {Latest(p) : p \in Listed(span)}
        /\ \A t \in Syncs : t # s => proc'[t] = proc[t] /\ run'[t] = run[t]
    BY <1>0, <2>1 DEF Become, TypeOK, Idle
  <2>3. \A p \in Listed(span) : /\ p \in Payments /\ Within(p, span) /\ version[p] > 0
                                /\ Of(Latest(p)) = p /\ Latest(p)[2] = version[p]
    BY <1>0, LatestTyped DEF Listed
  <2>4. \A r \in run'[s].owed : 0 < r[2] /\ r[2] <= version'[Of(r)]
    BY <1>0, <2>2, <2>3 DEF TypeOK
  <2>5. Source(s)'
    BY <2>2, <2>4, WindowsWide DEF Source, FromApi, FromFile, Working
  <2>6. \A r \in run'[s].owed : Ahead(s, r)'
    BY <2>2, <2>3, TopsCover DEF Ahead, Within
  <2>7. Part(s)'
    BY <2>2, <2>5, <2>6 DEF Part, Cover, Brought, FromFile, Working
  <2> QED
    BY <1>0, <1>1, <2>2, <2>7, ForOne
<1>3. CASE BeginImport(s)
  <2>1. PICK file \in Files :
          /\ Become(s, [Idle EXCEPT !.pc = "file", !.file = file])
          /\ run' = [run EXCEPT ![s] = [status |-> "running", clean |-> TRUE, owed |-> file]]
    BY <1>3 DEF BeginImport
  <2>2. /\ proc'[s].pc = "file" /\ proc'[s].file = file /\ proc'[s].windows = {} /\ ~proc'[s].had
        /\ run'[s].status = "running" /\ run'[s].owed = file
        /\ \A t \in Syncs : t # s => proc'[t] = proc[t] /\ run'[t] = run[t]
    BY <1>0, <2>1 DEF Become, TypeOK, Idle
  <2>3. \A r \in file : r[2] = 0
    BY PaypalAssumption
  <2>4. Source(s)'
    BY <2>2, <2>3 DEF Source, FromApi, FromFile, Working
  <2>5. Part(s)'
    BY <2>2, <2>4 DEF Part, Cover, Brought, FromFile, Working
  <2> QED
    BY <1>0, <1>1, <2>2, <2>5, ForOne
<1> QED
  BY <1>2, <1>3

\* What is known of a process while it goes through its windows.
LEMMA AtFetch ==
  ASSUME Complete, NEW s \in Syncs, At(s, "fetch")
  PROVE  /\ proc[s] \in Procs /\ run[s] \in SyncRuns /\ run[s].status = "running"
         /\ proc[s].file = {} /\ proc[s].windows \subseteq Windows
         /\ \A r \in run[s].owed : /\ r \in Revisions /\ Of(r) \in Payments
                                   /\ 0 < r[2] /\ r[2] <= version[Of(r)]
         /\ \A w \in proc[s].windows : w.lo < w.hi
         /\ run[s].clean /\ ~proc[s].had => \A r \in run[s].owed : Got(r) \/ Ahead(s, r)
<1>1. TypeOK /\ Source(s) /\ Cover(s) /\ FromApi(s)
  BY DEF Complete, Typed, Part, FromApi, At
<1>2. proc[s] \in Procs /\ run[s] \in SyncRuns
  BY <1>1 DEF TypeOK
<1>3. \A r \in run[s].owed : r \in Revisions /\ Of(r) \in Payments
  BY <1>2, RevisionParts DEF SyncRuns
<1>4. \A r : ~AtHand(s, r)
  BY DEF AtHand, At, Working
<1> QED
  BY <1>1, <1>2, <1>3, <1>4 DEF Source, Cover, At, Procs

\* A run that goes on to other windows, with nothing seen of them yet.
LEMMA OtherWindows ==
  ASSUME Complete, Typed', NEW s \in Syncs, At(s, "fetch"), NEW q \in Procs, Become(s, q),
         UNCHANGED <<version, row, run>>, q.pc = "fetch", q.seen = {}, q.file = {},
         \A w \in q.windows : w.lo < w.hi,
         run[s].clean /\ ~q.had => ~proc[s].had /\ \A r \in run[s].owed :
           Ahead(s, r) => \E w \in q.windows : Within(Of(r), w)
  PROVE  Complete'
<1>1. proc'[s] = q
  BY Becomes DEF Complete, Typed
<1>2. Source(s)'
  BY <1>1, AtFetch DEF Source, FromApi, FromFile, Working
<1>3. \A r : Got(r) => Got(r)'
  BY DEF Got, Stored
<1>4. Cover(s)'
  BY <1>1, <1>3, AtFetch DEF Cover, Ahead, Within
<1>5. Part(s)'
  BY <1>1, <1>2, <1>4, AtFetch DEF Part, Brought, FromFile, Working
<1> QED
  BY <1>5, StepOn

LEMMA FetchComplete ==
  ASSUME Complete, Typed', NEW s \in Syncs, Fetch(s)
  PROVE  Complete'
<1>0. PICK w \in proc[s].windows :
        \/ \E p \in Payments : FetchRecord(s, w, p)
        \/ EndWindow(s, w) \/ SplitWindow(s, w) \/ GiveUp(s, w) \/ RefuseWindow(s, w) \/ RefuseRun(s, w)
  BY DEF Fetch
<1>w. At(s, "fetch")
  BY <1>0 DEF FetchRecord, EndWindow, SplitWindow, GiveUp, RefuseWindow, RefuseRun, Turn
<1>p. /\ TypeOK /\ proc[s] \in Procs /\ proc[s].pc = "fetch" /\ w \in Windows
      /\ proc[s].file = {} /\ w.lo < w.hi
  BY <1>w, AtFetch DEF At, Complete, Typed
<1>1. ASSUME NEW p \in Payments, FetchRecord(s, w, p) PROVE Complete'
  <2> DEFINE q == [proc[s] EXCEPT !.seen = @ \cup {p}]
  <2>1. /\ q \in Procs /\ q.pc = "fetch" /\ q.file = {} /\ q.windows = proc[s].windows
        /\ q.seen = proc[s].seen \cup {p} /\ q.had = proc[s].had /\ version[p] > 0
    BY <1>1, <1>p DEF Procs, FetchRecord, Listed
  <2>2. CASE Latest(p) \in Broken
    <3>1. Become(s, q) /\ run' = [run EXCEPT ![s].clean = FALSE] /\ UNCHANGED <<version, row>>
      BY <1>1, <2>2 DEF FetchRecord
    <3>2. proc'[s] = q /\ run'[s].owed = run[s].owed /\ run'[s].status = run[s].status
      BY <1>p, <2>1, <3>1, Becomes DEF TypeOK, SyncRuns
    <3>3. Source(s)' /\ ~FromFile(s)'
      BY <1>w, <2>1, <3>1, <3>2, AtFetch DEF Source, FromApi, FromFile, Working
    <3> QED
      BY <2>1, <3>1, <3>3, StepCounted DEF Counted, Stored
  <2>3. CASE Latest(p) \notin Broken
    <3> DEFINE u == [q EXCEPT !.pc = "look", !.rev = Latest(p)]
    <3>1. Become(s, u) /\ UNCHANGED <<version, row, run>>
      BY <1>1, <2>3 DEF FetchRecord
    <3>2. Latest(p) \in Revisions /\ Of(Latest(p)) = p /\ Latest(p)[2] = version[p]
      BY <1>p, LatestTyped
    <3>3. /\ u \in Procs /\ u.pc = "look" /\ u.rev = Latest(p) /\ u.file = {}
          /\ u.windows = proc[s].windows /\ u.seen = proc[s].seen \cup {p} /\ u.had = proc[s].had
      BY <2>1, <3>2 DEF Procs
    <3>4. proc'[s] = u
      BY <1>p, <3>1, <3>3, Becomes
    <3> HIDE DEF u
    <3>5. Source(s)' /\ ~FromFile(s)'
      BY <1>w, <2>1, <3>1, <3>2, <3>3, <3>4, AtFetch DEF Source, FromApi, FromFile, Working
    <3>6. ASSUME NEW r \in run[s].owed, Got(r) \/ Ahead(s, r) PROVE (Got(r) \/ AtHand(s, r) \/ Ahead(s, r))'
      <4>1. Of(r) \in Payments /\ 0 < r[2] /\ r[2] <= version[Of(r)]
        BY <1>w, AtFetch
      <4>2. CASE Got(r)
        BY <3>1, <4>2 DEF Got, Stored
      <4>3. CASE Ahead(s, r) /\ Of(r) = p
        <5>1. SameSource(Latest(p), r) /\ version[p] \in Nat
          BY <1>p, <2>1, <3>2, <4>1 DEF SameSource, TypeOK
        <5>2. AtHand(s, r)'
          BY <3>2, <3>3, <3>4, <4>1, <4>3, <5>1 DEF AtHand, Working
        <5> QED
          BY <5>2
      <4>4. CASE Ahead(s, r) /\ Of(r) # p
        BY <3>3, <3>4, <4>4 DEF Ahead, Within
      <4> QED
        BY <3>6, <4>2, <4>3, <4>4
    <3>7. Cover(s)'
      BY <1>w, <3>1, <3>3, <3>4, <3>6, AtFetch DEF Cover
    <3>8. Part(s)'
      BY <1>w, <3>1, <3>5, <3>7, AtFetch DEF Part, Brought
    <3> QED
      BY <3>1, <3>3, <3>8, StepOn
  <2> QED
    BY <2>2, <2>3
<1>2. CASE EndWindow(s, w)
  <2> DEFINE q == [proc[s] EXCEPT !.windows = @ \ {w}, !.seen = {}]
  <2>1. /\ q \in Procs /\ q.pc = "fetch" /\ q.file = {} /\ q.seen = {} /\ q.had = proc[s].had
        /\ q.windows = proc[s].windows \ {w}
    BY <1>p DEF Procs
  <2>2. Become(s, q) /\ UNCHANGED <<version, row, run>> /\ Listed(w) \subseteq proc[s].seen
    BY <1>2 DEF EndWindow
  <2>3. ASSUME NEW r \in run[s].owed, Ahead(s, r) PROVE \E v \in q.windows : Within(Of(r), v)
    <3>1. Of(r) \in Payments /\ 0 < version[Of(r)]
      <4>1. Of(r) \in Payments /\ r[2] \in Nat /\ 0 < r[2] /\ r[2] <= version[Of(r)]
        BY <1>w, AtFetch, RevisionParts
      <4>2. version[Of(r)] \in Nat
        BY <1>p, <4>1 DEF TypeOK
      <4> QED
        BY <4>1, <4>2
    <3>2. ~Within(Of(r), w)
      BY <2>2, <2>3, <3>1 DEF Listed, Ahead
    <3> QED
      BY <2>1, <2>3, <3>2 DEF Ahead
  <2> HIDE DEF q
  <2> QED
    BY <1>w, <2>1, <2>2, <2>3, AtFetch, OtherWindows
<1>3. CASE SplitWindow(s, w)
  <2> DEFINE q == [proc[s] EXCEPT !.windows = (@ \ {w}) \cup Halves(w), !.seen = {}]
  <2>1. /\ q \in Procs /\ q.pc = "fetch" /\ q.file = {} /\ q.seen = {} /\ q.had = proc[s].had
        /\ q.windows = (proc[s].windows \ {w}) \cup Halves(w)
    BY <1>3, <1>p, HalvesTyped DEF SplitWindow, Procs
  <2>2. Become(s, q) /\ UNCHANGED <<version, row, run>> /\ w.level < Len(Steps)
    BY <1>3 DEF SplitWindow
  <2>3. ASSUME NEW r \in run[s].owed, Ahead(s, r) PROVE \E v \in q.windows : Within(Of(r), v)
    <3>1. Of(r) \in Payments
      BY <1>w, AtFetch
    <3>2. PICK v \in proc[s].windows : Within(Of(r), v)
      BY <2>3 DEF Ahead
    <3>3. CASE v = w
      BY <1>p, <2>1, <2>2, <3>1, <3>2, <3>3, HalvesCover
    <3>4. CASE v # w
      BY <2>1, <3>2, <3>4
    <3> QED
      BY <3>3, <3>4
  <2>4. \A v \in q.windows : v.lo < v.hi
    BY <1>w, <1>p, <2>1, <2>2, AtFetch, WindowsWide
  <2> HIDE DEF q
  <2> QED
    BY <1>w, <2>1, <2>2, <2>3, <2>4, AtFetch, OtherWindows
<1>4. CASE GiveUp(s, w)
  <2> DEFINE q == [proc[s] EXCEPT !.windows = @ \ {w}, !.seen = {}]
  <2>1. /\ q \in Procs /\ q.pc = "fetch" /\ q.file = {} /\ q.windows = proc[s].windows \ {w}
    BY <1>p DEF Procs
  <2>2. Become(s, q) /\ UNCHANGED <<version, row>> /\ run' = [run EXCEPT ![s].clean = FALSE]
    BY <1>4 DEF GiveUp
  <2>3. proc'[s] = q /\ run'[s].owed = run[s].owed /\ run'[s].status = run[s].status
    BY <1>p, <2>1, <2>2, Becomes DEF TypeOK, SyncRuns
  <2>4. Source(s)' /\ ~FromFile(s)'
    BY <1>w, <2>1, <2>2, <2>3, AtFetch DEF Source, FromApi, FromFile, Working
  <2> QED
    BY <2>1, <2>2, <2>4, StepCounted DEF Counted, Stored
<1>5. CASE RefuseWindow(s, w)
  <2> DEFINE q == [proc[s] EXCEPT !.windows = {v \in @ : v.top # w.top}, !.seen = {}, !.had = TRUE]
  <2>1. /\ q \in Procs /\ q.pc = "fetch" /\ q.file = {} /\ q.seen = {} /\ q.had
        /\ q.windows \subseteq proc[s].windows
    BY <1>p DEF Procs
  <2>2. Become(s, q) /\ UNCHANGED <<version, row, run>>
    BY <1>5 DEF RefuseWindow
  <2> HIDE DEF q
  <2> QED
    BY <1>w, <2>1, <2>2, AtFetch, OtherWindows
<1>6. CASE RefuseRun(s, w)
  <2>1. proc'[s] = Idle /\ run'[s].status = "failed" /\ UNCHANGED <<version, row>>
    BY <1>p, <1>6 DEF RefuseRun, Finish, Become, TypeOK, SyncRuns
  <2>2. \A t \in Syncs : t # s => proc'[t] = proc[t] /\ run'[t] = run[t]
    BY <1>p, <1>6 DEF RefuseRun, Finish, Become, TypeOK
  <2>3. Part(s)'
    BY <2>1 DEF Part, Source, Cover, Brought, FromApi, FromFile, Idle, Working
  <2> QED
    BY <2>1, <2>2, <2>3, ForOne DEF Stored
<1> QED
  BY <1>0, <1>1, <1>2, <1>3, <1>4, <1>5, <1>6

\* What is known of a process in the middle of an upsert.
LEMMA AtUpsert ==
  ASSUME Complete, NEW s \in Syncs, proc[s].pc \in Working
  PROVE  /\ proc[s] \in Procs /\ run[s] \in SyncRuns /\ run[s].status = "running"
         /\ proc[s].rev \in Revisions /\ proc[s].rev[2] \in Nat
         /\ FromApi(s) <=> proc[s].rev[2] > 0
         /\ FromFile(s) <=> proc[s].rev[2] = 0
BY RevisionParts DEF Complete, Typed, TypeOK, HasRecord, Part, Source, FromApi, FromFile, Working

\* The next statement of an upsert.
LEMMA UpsertGoesOn ==
  ASSUME Complete, Typed', NEW s \in Syncs, proc[s].pc \in Working, NEW q \in Procs, Become(s, q),
         UNCHANGED <<version, run>>, \A r \in Revisions : Stored(r) => Stored(r)',
         q.pc \in Working, q.rev = proc[s].rev, q.windows = proc[s].windows, q.seen = proc[s].seen,
         q.file = proc[s].file, q.had = proc[s].had
  PROVE  Complete'
<1>1. proc'[s] = q /\ \A t \in Syncs : t # s => proc'[t] = proc[t] /\ run'[t] = run[t]
  BY Becomes DEF Complete, Typed
<1>2. (FromApi(s)' <=> FromApi(s)) /\ (FromFile(s)' <=> FromFile(s))
  BY <1>1 DEF FromApi, FromFile, Working
<1>3. Source(s)'
  BY <1>1, <1>2, AtUpsert DEF Complete, Part, Source
<1>4. \A r : (Got(r) => Got(r)') /\ (AtHand(s, r) => AtHand(s, r)') /\ (Ahead(s, r) => Ahead(s, r)')
  BY <1>1 DEF Got, AtHand, Ahead, Within
<1>5. Cover(s)'
  BY <1>1, <1>4 DEF Complete, Part, Cover, Working
<1>6. Part(s)'
  BY <1>1, <1>2, <1>3, <1>5, AtUpsert DEF Complete, Part, Brought
<1> QED
  BY <1>1, <1>6, ForOne

\* The end of an upsert, with the record stored.
LEMMA UpsertEnds ==
  ASSUME Complete, Typed', NEW s \in Syncs, proc[s].pc \in Working, Become(s, Done(proc[s])),
         UNCHANGED <<version, run>>, \A r \in Revisions : Stored(r) => Stored(r)',
         NEW v \in Revisions, v = proc[s].rev, Stored(v)'
  PROVE  Complete'
<1>0. proc[s] \in Procs /\ proc[s].rev \in Revisions /\ proc[s].rev[2] \in Nat
  BY AtUpsert
<1>1. /\ proc'[s] = Done(proc[s]) /\ Done(proc[s]) \in Procs
      /\ \A t \in Syncs : t # s => proc'[t] = proc[t] /\ run'[t] = run[t]
  BY <1>0, DoneTyped, Becomes DEF Complete, Typed
<1>2. /\ proc'[s].pc = (IF proc[s].rev[2] = 0 THEN "file" ELSE "fetch")
      /\ proc'[s].windows = proc[s].windows /\ proc'[s].seen = proc[s].seen
      /\ proc'[s].file = proc[s].file /\ proc'[s].had = proc[s].had
  BY <1>0, <1>1, DoneTyped
<1>3. (FromApi(s)' <=> FromApi(s)) /\ (FromFile(s)' <=> FromFile(s))
  BY <1>0, <1>2, AtUpsert DEF FromApi, FromFile, Working
<1>4. Source(s)'
  BY <1>2, <1>3, AtUpsert DEF Complete, Part, Source
<1>5. \A r : (Got(r) => Got(r)') /\ (Ahead(s, r) => Ahead(s, r)')
  BY <1>2 DEF Got, Ahead, Within
<1>6. \A r : AtHand(s, r) => Got(r)'
  BY <1>0 DEF AtHand, Got
<1>7. Cover(s)'
  BY <1>2, <1>5, <1>6 DEF Complete, Part, Cover, Working
<1>8. Part(s)'
  BY <1>2, <1>3, <1>4, <1>7, AtUpsert DEF Complete, Part, Brought
<1> QED
  BY <1>1, <1>8, ForOne

\* The end of an upsert whose error is counted, wherever it got to.
LEMMA UpsertFails ==
  ASSUME Complete, Typed', NEW s \in Syncs, proc[s].pc \in Working, Become(s, Done(proc[s])),
         Counted(s), UNCHANGED version, \A r \in Revisions : Stored(r) => Stored(r)'
  PROVE  Complete'
<1>0. TypeOK /\ proc[s] \in Procs /\ proc[s].rev[2] \in Nat
  BY AtUpsert DEF Complete, Typed
<1>1. /\ Done(proc[s]) \in Procs /\ proc'[s] = Done(proc[s])
      /\ run'[s].owed = run[s].owed /\ run'[s].status = run[s].status
  BY <1>0, DoneTyped, Becomes DEF Counted, TypeOK, SyncRuns
<1>2. /\ proc'[s].pc = (IF proc[s].rev[2] = 0 THEN "file" ELSE "fetch")
      /\ proc'[s].windows = proc[s].windows /\ proc'[s].file = proc[s].file
      /\ proc'[s].had = proc[s].had
  BY <1>0, <1>1, DoneTyped
<1>3. (FromApi(s)' <=> FromApi(s)) /\ (FromFile(s)' <=> FromFile(s))
  BY <1>0, <1>2, AtUpsert DEF FromApi, FromFile, Working
<1>4. Source(s)'
  BY <1>1, <1>2, <1>3, AtUpsert DEF Complete, Part, Source
<1> QED
  BY <1>1, <1>2, <1>3, <1>4, StepCounted DEF Complete, Part

LEMMA UpsertComplete ==
  ASSUME Complete, Typed', NEW s \in Syncs, Upsert(s)
  PROVE  Complete'
<1>1. CASE LookUp(s)
  <2>1. proc[s].pc \in Working /\ UNCHANGED <<version, row, run>> /\ TypeOK
    BY <1>1 DEF LookUp, At, Working, Complete, Typed
  <2>2. CASE Stored(proc[s].rev)
    <3>1. PICK v \in Revisions : v = proc[s].rev
      BY <2>1, AtUpsert
    <3>2. Stored(v)' /\ \A r \in Revisions : Stored(r) => Stored(r)'
      BY <2>1, <2>2, <3>1 DEF Stored
    <3>3. Become(s, Done(proc[s]))
      BY <1>1, <2>2 DEF LookUp
    <3> QED
      BY <2>1, <3>1, <3>2, <3>3, UpsertEnds
  <2>3. CASE ~Stored(proc[s].rev)
    <3> DEFINE q == [proc[s] EXCEPT !.pc = "prior"]
    <3>1. /\ q \in Procs /\ q.pc \in Working /\ q.rev = proc[s].rev /\ q.windows = proc[s].windows
          /\ q.seen = proc[s].seen /\ q.file = proc[s].file /\ q.had = proc[s].had
      BY <2>1 DEF Procs, TypeOK, Working
    <3>2. Become(s, q)
      BY <1>1, <2>3 DEF LookUp
    <3> HIDE DEF q
    <3> QED
      BY <2>1, <3>1, <3>2, UpsertGoesOn DEF Stored
  <2> QED
    BY <2>2, <2>3
<1>2. CASE ReadPrior(s)
  <2>1. proc[s].pc \in Working /\ UNCHANGED <<version, row, run>> /\ TypeOK
    BY <1>2 DEF ReadPrior, At, Working, Complete, Typed
  <2>2. PICK prior, newer :
          Become(s, [proc[s] EXCEPT !.pc = IF prior # None /\ newer THEN "supersede" ELSE "create",
                                    !.prior = prior, !.newer = newer, !.carry = Carried(prior)])
    BY <1>2 DEF ReadPrior
  <2> DEFINE q == [proc[s] EXCEPT !.pc = IF prior # None /\ newer THEN "supersede" ELSE "create",
                                  !.prior = prior, !.newer = newer, !.carry = Carried(prior)]
  <2>3. /\ q.pc \in Working /\ q.rev = proc[s].rev /\ q.windows = proc[s].windows
        /\ q.seen = proc[s].seen /\ q.file = proc[s].file /\ q.had = proc[s].had
    BY <2>1 DEF Procs, TypeOK, Working
  <2>4. proc'[s] = q
    BY <2>1, <2>2 DEF Become, TypeOK
  <2>5. q \in Procs
    BY <2>4 DEF Typed, TypeOK
  <2> HIDE DEF q
  <2>6. Become(s, q)
    BY <2>2 DEF q
  <2> QED
    BY <2>1, <2>3, <2>5, <2>6, UpsertGoesOn DEF Stored
<1>3. CASE Supersede(s)
  <2>1. proc[s].pc \in Working /\ UNCHANGED <<version, run>> /\ TypeOK
    BY <1>3 DEF Supersede, At, Working, Complete, Typed
  <2> DEFINE q == [proc[s] EXCEPT !.pc = "create"]
  <2>2. /\ q \in Procs /\ q.pc \in Working /\ q.rev = proc[s].rev /\ q.windows = proc[s].windows
        /\ q.seen = proc[s].seen /\ q.file = proc[s].file /\ q.had = proc[s].had
    BY <2>1 DEF Procs, TypeOK, Working
  <2>3. \A r \in CurrentOf(Of(proc[s].rev)) : [row[r] EXCEPT !.current = FALSE] \in Rows
    BY <2>1, CurrentTyped DEF Rows
  <2>4. \A r \in Revisions : Stored(r) => Stored(r)'
    BY <1>3, <2>3, NoSuchRow DEF Supersede, Stored
  <2>5. Become(s, q)
    BY <1>3 DEF Supersede
  <2> HIDE DEF q
  <2> QED
    BY <2>1, <2>2, <2>4, <2>5, UpsertGoesOn
<1>4. CASE Create(s)
  <2>1. /\ proc[s].pc \in Working /\ UNCHANGED version /\ TypeOK /\ Become(s, Done(proc[s]))
        /\ proc[s] \in Procs /\ proc[s].rev \in Revisions
    BY <1>4, AtUpsert DEF Create, At, Working, Complete, Typed
  <2>2. \A r \in Revisions : Stored(r) => Stored(r)'
    <3>1. NewRow(s) \in Rows
      BY <2>1 DEF NewRow, Rows, Procs
    <3> QED
      BY <1>4, <2>1, <3>1, NoSuchRow DEF Create, Stored, TypeOK
  <2>3. CASE Counted(s)
    BY <2>1, <2>2, <2>3, UpsertFails
  <2>4. CASE UNCHANGED run /\ ~Counted(s)
    <3>1. ~Stored(proc[s].rev) /\ row' = [row EXCEPT ![proc[s].rev] = NewRow(s)]
      BY <1>4, <2>4 DEF Create
    <3>2. NewRow(s) \in Rows
      BY <2>1 DEF NewRow, Rows, Procs
    <3>3. PICK v \in Revisions : v = proc[s].rev
      BY <2>1
    <3>4. Stored(v)'
      BY <2>1, <3>1, <3>2, <3>3, NoSuchRow DEF Stored, TypeOK
    <3> QED
      BY <2>1, <2>2, <2>4, <3>3, <3>4, UpsertEnds
  <2> QED
    BY <1>4, <2>3, <2>4 DEF Create
<1>5. CASE StatementFails(s)
  <2>1. /\ proc[s].pc \in Working /\ Become(s, Done(proc[s])) /\ Counted(s)
        /\ UNCHANGED version /\ \A r \in Revisions : Stored(r) => Stored(r)'
    BY <1>5 DEF StatementFails, Working, Stored
  <2> QED
    BY <2>1, UpsertFails
<1> QED
  BY <1>1, <1>2, <1>3, <1>4, <1>5 DEF Upsert

LEMMA StepComplete == Complete /\ [Next]_vars => Complete'
<1> SUFFICES ASSUME Complete, [Next]_vars PROVE Complete'
  OBVIOUS
<1>0. Typed' /\ TypeOK /\ \A s \in Syncs : proc[s] \in Procs /\ run[s] \in SyncRuns
  BY StepTyped DEF Complete, Typed, TypeOK
<1>1. ASSUME NEW s \in Syncs, BeginSync(s) \/ BeginImport(s) PROVE Complete'
  BY <1>0, <1>1, BeginComplete
<1>2. ASSUME NEW s \in Syncs, Fetch(s) PROVE Complete'
  BY <1>0, <1>2, FetchComplete
<1>3. ASSUME NEW s \in Syncs, Upsert(s) PROVE Complete'
  BY <1>0, <1>3, UpsertComplete
<1>4. ASSUME NEW s \in Syncs, EndSync(s) \/ EndImport(s) PROVE Complete'
  <2>1. PICK status : Finish(s, status) /\ (status = "success" /\ run[s].clean => ~proc[s].had)
    <3>1. CASE EndSync(s)
      BY <3>1 DEF EndSync
    <3>2. CASE EndImport(s)
      BY <3>2 DEF EndImport, Complete, Part, FromFile, At
    <3> QED
      BY <1>4, <3>1, <3>2
  <2>2. /\ proc'[s] = Idle /\ run'[s].status = status /\ run'[s].clean = run[s].clean
        /\ run'[s].owed = run[s].owed
        /\ \A t \in Syncs : t # s => proc'[t] = proc[t] /\ run'[t] = run[t]
    BY <1>0, <2>1 DEF Finish, Become, TypeOK, SyncRuns
  <2>3. /\ proc[s].pc # "idle" /\ proc[s].pc \notin Working /\ UNCHANGED <<version, row>>
        /\ proc[s].windows = {} /\ proc[s].file = {}
    <3>1. CASE EndSync(s)
      BY <3>1, AtFetch DEF EndSync, At, Working
    <3>2. CASE EndImport(s)
      BY <3>2 DEF EndImport, At, Working, Complete, Part, Source, FromFile
    <3> QED
      BY <1>4, <3>1, <3>2
  <2>4. run[s].clean /\ ~proc[s].had => \A r \in run[s].owed : Got(r)
    BY <2>3 DEF Complete, Part, Cover, AtHand, Ahead
  <2>5. \A r : Got(r) => Got(r)'
    BY <2>3 DEF Got, Stored
  <2>6. Brought(s)'
    BY <2>1, <2>2, <2>4, <2>5 DEF Brought
  <2>7. Part(s)'
    BY <2>2, <2>6 DEF Part, Source, Cover, FromApi, FromFile, Idle, Working
  <2> QED
    BY <1>0, <2>2, <2>3, <2>7, ForOne DEF Stored
<1>5. ASSUME NEW s \in Syncs, NEW r \in Revisions, ReadLine(s, r) PROVE Complete'
  <2> DEFINE q == [proc[s] EXCEPT !.file = @ \ {r}]
  <2>1. /\ q \in Procs /\ q.pc = "file" /\ q.windows = proc[s].windows /\ q.had = proc[s].had
        /\ q.file = proc[s].file \ {r} /\ UNCHANGED <<version, row>>
    BY <1>0, <1>5 DEF ReadLine, At, Procs
  <2>2. /\ proc[s].pc = "file" /\ FromFile(s) /\ Source(s) /\ Cover(s) /\ ~proc[s].had
        /\ r \in proc[s].file /\ r[2] = 0 /\ proc[s].windows = {} /\ run[s].status = "running"
        /\ \A o \in run[s].owed \cup proc[s].file : o[2] = 0
    BY <1>5 DEF ReadLine, At, FromFile, Complete, Part, Source
  <2>3. CASE r \in Broken
    <3>1. Become(s, q) /\ run' = [run EXCEPT ![s].clean = FALSE]
      BY <1>5, <2>3 DEF ReadLine
    <3>2. proc'[s] = q /\ run'[s].owed = run[s].owed /\ run'[s].status = run[s].status
      BY <1>0, <2>1, <3>1, Becomes DEF TypeOK, SyncRuns
    <3>3. Source(s)'
      BY <2>1, <2>2, <3>2 DEF Source, FromApi, FromFile, Working
    <3> QED
      BY <1>0, <2>1, <2>2, <3>1, <3>3, StepCounted DEF Counted, Stored
  <2>4. CASE r \notin Broken
    <3> DEFINE u == [q EXCEPT !.pc = "look", !.rev = r]
    <3>1. /\ u \in Procs /\ u.pc = "look" /\ u.rev = r /\ u.file = proc[s].file \ {r}
          /\ u.windows = {} /\ u.had = proc[s].had
      BY <2>1, <2>2 DEF Procs
    <3>2. Become(s, u) /\ UNCHANGED run
      BY <1>5, <2>4 DEF ReadLine
    <3> HIDE DEF u
    <3>3. proc'[s] = u
      BY <1>0, <3>1, <3>2, Becomes
    <3>4. Source(s)'
      BY <2>2, <3>1, <3>2, <3>3 DEF Source, FromApi, FromFile, Working
    <3>5. \A o \in run[s].owed : o[2] = 0 /\ ~AtHand(s, o) /\ ~Ahead(s, o)
      BY <2>2 DEF AtHand, Ahead, Working
    <3>6. \A o : Got(o) => Got(o)'
      BY <2>1 DEF Got, Stored
    <3>7. AtHand(s, r)'
      BY <2>2, <3>1, <3>3 DEF AtHand, SameSource, Working
    <3>8. Cover(s)'
      BY <2>2, <3>1, <3>2, <3>3, <3>5, <3>6, <3>7 DEF Cover
    <3>9. Part(s)'
      BY <2>2, <3>1, <3>2, <3>3, <3>4, <3>8 DEF Part, Brought
    <3> QED
      BY <1>0, <2>1, <3>1, <3>2, <3>9, StepOn
  <2> QED
    BY <2>3, <2>4
<1>6. ASSUME NEW s \in Syncs, Crash(s) PROVE Complete'
  <2>1. proc'[s] = Idle /\ UNCHANGED <<version, row, run>> /\ Become(s, Idle)
    BY <1>0, <1>6 DEF Crash, Become, TypeOK
  <2>2. run[s].status = "running"
    BY <1>6 DEF Crash, At, Complete, Part, Source
  <2>3. Part(s)'
    BY <2>1, <2>2 DEF Part, Source, Cover, Brought, FromApi, FromFile, Idle, Working
  <2> QED
    BY <1>0, <2>1, <2>3, IdleTyped, StepOn
<1>7. ASSUME NEW r \in Revisions, NEW e \in Events, Assign(r, e) PROVE Complete'
  <2>1. row' = [row EXCEPT ![r] = [row[r] EXCEPT !.hand = e]] /\ row[r] \in Rows
    BY <1>0, <1>7, RowTyped DEF Assign
  <2>2. [row[r] EXCEPT !.hand = e] \in Rows
    BY <2>1 DEF Rows
  <2>3. \A q \in Revisions : Stored(q) => Stored(q)'
    BY <1>0, <2>1, <2>2, NoSuchRow DEF Stored, TypeOK
  <2>4. \A p \in Payments : version[p] <= version'[p] /\ version' \in [Payments -> Nat]
    BY <1>0, <1>7 DEF Assign, TypeOK
  <2>5. \A s \in Syncs : Part(s)'
    BY <1>0, <1>7, <2>3, <2>4, PartStands DEF Assign, Complete, TypeOK
  <2> QED
    BY <1>0, <2>5 DEF Complete
<1>8. ASSUME NEW p \in Payments, Report(p) PROVE Complete'
  <2>1. version' = [version EXCEPT ![p] = version[p] + 1] /\ UNCHANGED <<row, run, proc>>
    BY <1>8 DEF Report
  <2>2. version' \in [Payments -> Nat] /\ \A o \in Payments : version[o] <= version'[o]
    BY <1>0, <2>1 DEF TypeOK
  <2>3. \A s \in Syncs : Part(s)'
    BY <2>1, <2>2, PartStands DEF Complete, Stored
  <2> QED
    BY <1>0, <2>3 DEF Complete
<1>9. ASSUME UNCHANGED vars PROVE Complete'
  <2>1. version' \in [Payments -> Nat] /\ \A o \in Payments : version[o] <= version'[o]
    BY <1>0, <1>9 DEF TypeOK, vars
  <2>2. \A s \in Syncs : Part(s)'
    BY <1>9, <2>1, PartStands DEF Complete, Stored, vars
  <2> QED
    BY <1>0, <2>2 DEF Complete
<1> QED
  BY <1>1, <1>2, <1>3, <1>4, <1>5, <1>6, <1>7, <1>8, <1>9 DEF Next

\* The invariant behind it: what a run owes is always stored, at hand or still ahead.
THEOREM AlwaysCovered == Spec => []Complete
BY InitComplete, StepComplete, PTL DEF Spec

\* For any spans, window lengths, split steps and limits, and however many syncs and imports
\* overlap, fail or die: a run that ends as a success without counting an error has brought
\* everything it owed.
THEOREM SuccessIsCompleteAlways == Spec => []SuccessIsComplete
<1>1. Complete => SuccessIsComplete
  BY DEF Complete, Part, Brought, Got, SuccessIsComplete
<1> QED
  BY <1>1, AlwaysCovered, PTL

(***************************************************************************)
(* The current revision, with one sync at a time.                          *)
(***************************************************************************)

Alone == \A s, t \in Syncs : proc[s].pc # "idle" /\ proc[t].pc # "idle" => s = t

\* What an upsert knows of the rows of its payment.
Locals(s) ==
  /\ proc[s].pc \in {"prior", "supersede", "create"} => ~Stored(proc[s].rev)
  /\ proc[s].pc \in {"supersede", "create"} =>
       /\ proc[s].newer <=> IncomingIsNewer(proc[s].rev, proc[s].prior)
       /\ proc[s].prior # None => Stored(proc[s].prior) /\ Of(proc[s].prior) = Of(proc[s].rev)
  /\ proc[s].pc = "supersede" => proc[s].prior # None /\ proc[s].newer
  /\ proc[s].pc = "create" =>
       IF proc[s].newer THEN CurrentOf(Of(proc[s].rev)) = {} ELSE Current(proc[s].prior)

\* The prior revision of an upsert is the newest that is stored, and carries the hand.
Prior(s) ==
  proc[s].pc \in {"supersede", "create"} /\ proc[s].prior # None =>
    /\ cut[Of(proc[s].rev)] = None /\ ~Undated(Of(proc[s].rev)) =>
         \A q \in Revisions :
           Of(q) = Of(proc[s].rev) /\ Stored(q) => Date[q] <= Date[proc[s].prior]
    /\ hand[Of(proc[s].rev)] # None => proc[s].carry = hand[Of(proc[s].rev)]

\* A payment somebody assigned by hand has a row that shows it, or is about to.
BeingReplaced(p) == \E s \in Syncs : Replaced(s) /\ Of(proc[s].rev) = p
HandHasARow == \A p \in Payments : hand[p] # None => CurrentOf(p) # {} \/ BeingReplaced(p)

Revised ==
  /\ Alone /\ (\A s \in Syncs : Locals(s) /\ Prior(s)) /\ HandHasARow
  /\ OneCurrent /\ NewestIsCurrent /\ HandSurvives

LEMMA InitRevised == Init => Revised
<1> SUFFICES ASSUME Init PROVE Revised
  OBVIOUS
<1>1. \A s \in Syncs : proc[s].pc = "idle"
  BY DEF Init, Idle
<1>2. \A r \in Revisions : ~Stored(r)
  BY DEF Init, Stored
<1>3. Alone /\ \A s \in Syncs : Locals(s) /\ Prior(s)
  BY <1>1 DEF Alone, Locals, Prior
<1>4. OneCurrent /\ NewestIsCurrent /\ HandSurvives
  BY <1>2 DEF OneCurrent, NewestIsCurrent, HandSurvives, Current
<1>5. HandHasARow
  BY DEF HandHasARow, Init
<1> QED
  BY <1>3, <1>4, <1>5 DEF Revised

\* Nothing of it changes.
LEMMA RevisedStands ==
  ASSUME Revised, UNCHANGED <<row, proc, hand, cut>>
  PROVE  Revised'
<1>1. /\ \A r : (Stored(r)' <=> Stored(r)) /\ (Current(r)' <=> Current(r))
      /\ \A p : CurrentOf(p)' = CurrentOf(p)
  BY DEF Stored, Current, CurrentOf
<1>2. \A p : (Undated(p)' <=> Undated(p)) /\ (BeingReplaced(p)' <=> BeingReplaced(p))
  BY <1>1 DEF Undated, BeingReplaced, Replaced, At
<1>3. OneCurrent'
  BY <1>1, <1>2 DEF Revised, OneCurrent, BeingReplaced
<1>4. NewestIsCurrent' /\ HandSurvives' /\ HandHasARow'
  BY <1>1, <1>2 DEF Revised, NewestIsCurrent, HandSurvives, HandHasARow
<1>5. Alone' /\ \A s \in Syncs : Locals(s)' /\ Prior(s)'
  BY <1>1, <1>2 DEF Revised, Alone, Locals, Prior
<1> QED
  BY <1>3, <1>4, <1>5 DEF Revised

\* While one process works the others do not.
Solo(s) == \A t \in Syncs : t # s => proc[t].pc = "idle"

LEMMA OneMoves ==
  ASSUME Typed, Alone, NEW s \in Syncs, proc[s].pc # "idle" \/ \A t \in Syncs : proc[t].pc = "idle",
         NEW q \in Procs, Become(s, q)
  PROVE  Solo(s) /\ Solo(s)' /\ Alone' /\ proc'[s] = q
BY Becomes DEF Typed, Alone, Solo

\* A step of the one process outside of the writing part of an upsert.
LEMMA OutsideUpsert ==
  ASSUME Typed, Revised, NEW s \in Syncs, ~Replaced(s),
         proc[s].pc # "idle" \/ \A t \in Syncs : proc[t].pc = "idle",
         NEW q \in Procs, Become(s, q), q.pc \notin {"supersede", "create"},
         q.pc = "prior" => ~Stored(q.rev), UNCHANGED <<row, hand, cut>>
  PROVE  Revised'
<1>1. Solo(s) /\ Solo(s)' /\ Alone' /\ proc'[s] = q
  BY OneMoves DEF Revised
<1>2. /\ \A r : (Stored(r)' <=> Stored(r)) /\ (Current(r)' <=> Current(r))
      /\ \A p : CurrentOf(p)' = CurrentOf(p) /\ (Undated(p)' <=> Undated(p))
  BY DEF Stored, Current, CurrentOf, Undated
<1>3. \A p : ~BeingReplaced(p)
  BY <1>1 DEF BeingReplaced, Replaced, At, Solo
<1>4. OneCurrent'
  BY <1>2, <1>3 DEF Revised, OneCurrent, BeingReplaced
<1>5. NewestIsCurrent' /\ HandSurvives' /\ HandHasARow'
  BY <1>2, <1>3 DEF Revised, NewestIsCurrent, HandSurvives, HandHasARow
<1>6. \A t \in Syncs : Prior(t)'
  BY <1>1 DEF Prior, Solo
<1>7. ~Stored(q.rev) => ~(row'[q.rev] # None)
  BY DEF Stored
<1>8. \A t \in Syncs : Locals(t)'
  BY <1>1, <1>7 DEF Locals, Solo, Stored
<1> QED
  BY <1>1, <1>4, <1>5, <1>6, <1>8 DEF Revised

LEMMA PriorRevised ==
  ASSUME Typed, Typed', Revised, NEW s \in Syncs, ReadPrior(s)
  PROVE  Revised'
<1> DEFINE rev == proc[s].rev
           p == Of(rev)
           cs == CurrentOf(p)
<1>0. /\ TypeOK /\ proc[s] \in Procs /\ proc[s].pc = "prior" /\ rev \in Revisions /\ p \in Payments
      /\ ~Stored(rev) /\ UNCHANGED <<row, hand, cut>>
  BY RevisionParts DEF Typed, TypeOK, HasRecord, ReadPrior, At, Working, Revised, Locals
<1>1. PICK prior \in IF cs = {} THEN {None} ELSE {c \in cs : IsLatest(c, cs)} :
        Become(s, [proc[s] EXCEPT !.pc = IF prior # None /\ IncomingIsNewer(rev, prior)
                                           THEN "supersede" ELSE "create",
                                  !.prior = prior, !.newer = IncomingIsNewer(rev, prior),
                                  !.carry = Carried(prior)])
  BY DEF ReadPrior
<1>2. /\ proc'[s].pc = (IF prior # None /\ IncomingIsNewer(rev, prior) THEN "supersede" ELSE "create")
      /\ proc'[s].rev = rev /\ proc'[s].prior = prior /\ proc'[s].carry = Carried(prior)
      /\ proc'[s].newer = IncomingIsNewer(rev, prior) /\ proc'[s] \in Procs
  BY <1>0, <1>1 DEF Become, TypeOK, Typed, Procs
<1>3. Solo(s) /\ Solo(s)' /\ Alone'
  BY <1>0, <1>1, <1>2, OneMoves DEF Revised, Become, TypeOK, Solo, Alone
<1>4. /\ \A r : (Stored(r)' <=> Stored(r)) /\ (Current(r)' <=> Current(r))
      /\ \A o : CurrentOf(o)' = CurrentOf(o) /\ (Undated(o)' <=> Undated(o))
  BY <1>0 DEF Stored, Current, CurrentOf, Undated
<1>5. \A o : ~BeingReplaced(o)
  BY <1>0, <1>3 DEF BeingReplaced, Replaced, At, Solo
<1>6. OneCurrent'
  BY <1>0, <1>4, <1>5 DEF Revised, OneCurrent, BeingReplaced
<1>7. NewestIsCurrent' /\ HandSurvives' /\ HandHasARow'
  BY <1>0, <1>4, <1>5 DEF Revised, NewestIsCurrent, HandSurvives, HandHasARow
<1>8. CASE cs = {}
  <2>1. prior = None /\ IncomingIsNewer(rev, prior)
    BY <1>1, <1>8 DEF IncomingIsNewer
  <2>2. \A t \in Syncs : Locals(t)' /\ Prior(t)'
    BY <1>0, <1>2, <1>3, <1>4, <1>8, <2>1 DEF Locals, Prior, Solo, IncomingIsNewer
  <2> QED
    BY <1>3, <1>6, <1>7, <2>2 DEF Revised
<1>9. CASE cs # {}
  <2>1. prior \in cs /\ prior \in Revisions /\ Of(prior) = p /\ Stored(prior) /\ Current(prior)
    BY <1>1, <1>9 DEF CurrentOf, Current
  <2>2. prior # None
    BY <2>1, PaypalAssumption
  <2>3. \A t \in Syncs : Locals(t)'
    BY <1>0, <1>2, <1>3, <1>4, <2>1, <2>2 DEF Locals, Solo, IncomingIsNewer
  <2>4. cut[p] = None /\ ~Undated(p) =>
          \A q \in Revisions : Of(q) = p /\ Stored(q) => Date[q] <= Date[prior]
    BY <2>1 DEF Revised, NewestIsCurrent
  <2>5. hand[p] # None => Carried(prior) = hand[p]
    BY <2>1, <2>2 DEF Revised, HandSurvives, Carried
  <2>6. \A t \in Syncs : Prior(t)'
    BY <1>0, <1>2, <1>3, <1>4, <2>4, <2>5 DEF Prior, Solo
  <2> QED
    BY <1>3, <1>6, <1>7, <2>3, <2>6 DEF Revised
<1> QED
  BY <1>8, <1>9

LEMMA SupersedeRevised ==
  ASSUME Typed, Typed', Revised, NEW s \in Syncs, Supersede(s)
  PROVE  Revised'
<1>0. /\ TypeOK /\ proc[s] \in Procs /\ proc[s].pc = "supersede" /\ Of(proc[s].rev) \in Payments
      /\ proc[s].rev \in Revisions /\ proc[s].prior # None /\ proc[s].newer /\ UNCHANGED <<hand, cut>>
      /\ Locals(s) /\ Prior(s)
  BY RevisionParts DEF Typed, TypeOK, HasRecord, Supersede, At, Working, Revised, Locals
<1>p. PICK p \in Payments : p = Of(proc[s].rev)
  BY <1>0
<1>1. /\ proc'[s].pc = "create" /\ proc'[s].rev = proc[s].rev /\ proc'[s].prior = proc[s].prior
      /\ proc'[s].carry = proc[s].carry /\ proc'[s].newer = proc[s].newer /\ proc'[s] \in Procs
      /\ Become(s, proc'[s])
  BY <1>0 DEF Supersede, Become, TypeOK, Typed, Procs
<1>2. Solo(s) /\ Solo(s)' /\ Alone'
  BY <1>0, <1>1, OneMoves DEF Revised, Supersede, Become, TypeOK, Solo, Alone
<1>3. \A r \in CurrentOf(p) : r \in Revisions /\ Of(r) = p /\ row[r] \in Rows
  BY <1>0, CurrentTyped
<1>r. row' = [r \in Revisions |-> IF r \in CurrentOf(p) THEN [row[r] EXCEPT !.current = FALSE] ELSE row[r]]
  BY <1>p DEF Supersede
<1>4. ASSUME NEW r \in Revisions
      PROVE  /\ Stored(r)' <=> Stored(r)
             /\ Current(r)' <=> Current(r) /\ Of(r) # p
             /\ Current(r)' => row'[r] = row[r]
  <2>1. CASE r \in CurrentOf(p)
    <3>1. row'[r] = [row[r] EXCEPT !.current = FALSE]
      BY <2>1, <1>r
    <3>2. row'[r] \in Rows /\ ~row'[r].current
      BY <1>3, <2>1, <3>1 DEF Rows
    <3>3. Stored(r) /\ Stored(r)' /\ ~Current(r)' /\ Of(r) = p
      BY <1>3, <2>1, <3>2, NoSuchRow DEF Stored, Current, CurrentOf
    <3> QED
      BY <3>3
  <2>2. CASE r \notin CurrentOf(p)
    <3>1. row'[r] = row[r]
      BY <2>2, <1>r
    <3>2. ~(Current(r) /\ Of(r) = p)
      BY <2>2 DEF CurrentOf
    <3> QED
      BY <3>1, <3>2 DEF Stored, Current
  <2> QED
    BY <2>1, <2>2
<1>5. CurrentOf(p)' = {} /\ \A o : o # p => CurrentOf(o)' = CurrentOf(o)
  BY <1>4 DEF CurrentOf
<1>6. \A o : Undated(o)' <=> Undated(o)
  BY <1>4 DEF Undated
<1>7. /\ \A o : ~BeingReplaced(o)
      /\ BeingReplaced(p)'
  BY <1>0, <1>p, <1>1, <1>2 DEF BeingReplaced, Replaced, At, Solo
<1>8. OneCurrent'
  <2>1. \A r, q \in Revisions : Of(r) = Of(q) /\ Current(r)' /\ Current(q)' => r = q
    BY <1>4 DEF Revised, OneCurrent
  <2>2. \A r \in Revisions : Stored(r) => CurrentOf(Of(r)) # {} \/ cut[Of(r)] # None
    BY <1>7 DEF Revised, OneCurrent, BeingReplaced
  <2>3. \A r \in Revisions :
          Stored(r)' => CurrentOf(Of(r))' # {} \/ cut'[Of(r)] # None \/ BeingReplaced(Of(r))'
    BY <1>0, <1>4, <1>5, <1>7, <2>2
  <2> QED
    BY <2>1, <2>3 DEF OneCurrent, BeingReplaced
<1>9. NewestIsCurrent'
  BY <1>0, <1>4, <1>6 DEF Revised, NewestIsCurrent
<1>10. HandSurvives'
  BY <1>0, <1>4 DEF Revised, HandSurvives
<1>11. HandHasARow'
  BY <1>0, <1>5, <1>7 DEF Revised, HandHasARow
<1>12. \A t \in Syncs : Locals(t)' /\ Prior(t)'
  <2>1. ~Stored(proc[s].rev) /\ (proc[s].newer <=> IncomingIsNewer(proc[s].rev, proc[s].prior))
    BY <1>0 DEF Locals
  <2>2. proc[s].prior \in Revisions /\ Stored(proc[s].prior) /\ Of(proc[s].prior) = p
    BY <1>0, <1>p DEF Locals, Procs
  <2>3. Locals(s)'
    BY <1>0, <1>p, <1>1, <1>4, <1>5, <2>1, <2>2 DEF Locals, Stored, IncomingIsNewer
  <2>4. Prior(s)'
    BY <1>0, <1>p, <1>1, <1>4, <1>6 DEF Prior
  <2>5. \A t \in Syncs : t # s => Locals(t)' /\ Prior(t)'
    BY <1>2 DEF Locals, Prior, Solo
  <2> QED
    BY <2>3, <2>4, <2>5
<1> QED
  BY <1>2, <1>8, <1>9, <1>10, <1>11, <1>12 DEF Revised

LEMMA CreateRevised ==
  ASSUME Typed, Typed', Revised, NEW s \in Syncs, Create(s)
  PROVE  Revised'
<1>0. /\ TypeOK /\ proc[s] \in Procs /\ proc[s].pc = "create" /\ UNCHANGED <<hand, cut>>
      /\ proc[s].rev \in Revisions /\ Of(proc[s].rev) \in Payments /\ ~Stored(proc[s].rev)
      /\ Locals(s) /\ Prior(s) /\ Become(s, Done(proc[s]))
  BY RevisionParts DEF Typed, TypeOK, HasRecord, Create, At, Working, Revised, Locals
<1>r. PICK r \in Revisions : r = proc[s].rev
  BY <1>0
<1>p. PICK p \in Payments : p = Of(r)
  BY <1>0, <1>r
<1>1. /\ Done(proc[s]) \in Procs /\ Done(proc[s]).pc \in {"file", "fetch"}
      /\ proc'[s] = Done(proc[s])
  BY <1>0, DoneTyped, Becomes
<1>2. Solo(s) /\ Solo(s)' /\ Alone'
  BY <1>0, <1>1, OneMoves DEF Revised
<1>3. row' = [row EXCEPT ![r] = NewRow(s)]
  BY <1>0, <1>r DEF Create
<1>4. /\ NewRow(s) \in Rows /\ NewRow(s).current = proc[s].newer /\ NewRow(s).hand = proc[s].carry
      /\ proc[s].newer \in BOOLEAN
  BY <1>0 DEF NewRow, Rows, Procs
<1>5. row'[r] = NewRow(s) /\ \A q \in Revisions : q # r => row'[q] = row[q]
  BY <1>0, <1>3 DEF TypeOK
<1>6. /\ Stored(r)' /\ ~Stored(r) /\ (Current(r)' <=> proc[s].newer)
      /\ \A q \in Revisions : q # r => (Stored(q)' <=> Stored(q)) /\ (Current(q)' <=> Current(q))
  BY <1>0, <1>r, <1>4, <1>5, NoSuchRow DEF Stored, Current
<1>7. \A o : Undated(o) => Undated(o)'
  BY <1>6 DEF Undated
<1>8. \A o : ~BeingReplaced(o)'
  BY <1>1, <1>2 DEF BeingReplaced, Replaced, At, Solo
<1>9. \A t \in Syncs : Locals(t)' /\ Prior(t)'
  BY <1>1, <1>2 DEF Locals, Prior, Solo
<1>10. /\ proc[s].newer <=> IncomingIsNewer(r, proc[s].prior)
       /\ proc[s].prior # None => /\ proc[s].prior \in Revisions /\ Stored(proc[s].prior)
                                  /\ Of(proc[s].prior) = p
       /\ IF proc[s].newer THEN CurrentOf(p) = {} ELSE Current(proc[s].prior)
  BY <1>0, <1>r, <1>p DEF Locals, Procs
<1>11. \A o : BeingReplaced(o) => o = p /\ proc[s].prior # None /\ proc[s].newer
  BY <1>0, <1>r, <1>p, <1>2 DEF BeingReplaced, Replaced, At, Solo
<1>12. Date \in [Revisions -> Nat \cup {None}]
  BY PaypalAssumption
<1>13. CASE proc[s].newer
  <2>1. Current(r)' /\ \A q \in Revisions : Of(q) = p /\ Current(q)' => q = r
    BY <1>6, <1>10, <1>13 DEF CurrentOf
  <2>2. r \in CurrentOf(p)' /\ \A o : o # p => CurrentOf(o)' = CurrentOf(o)
    BY <1>p, <1>6, <2>1 DEF CurrentOf
  <2>3. OneCurrent'
    <3>1. \A q, u \in Revisions : Of(q) = Of(u) /\ Current(q)' /\ Current(u)' => q = u
      BY <1>p, <1>6, <2>1 DEF Revised, OneCurrent
    <3>2. \A q \in Revisions : Stored(q) => CurrentOf(Of(q)) # {} \/ cut[Of(q)] # None \/ BeingReplaced(Of(q))
      BY DEF Revised, OneCurrent, BeingReplaced
    <3>3. \A q \in Revisions : Stored(q)' => CurrentOf(Of(q))' # {} \/ cut'[Of(q)] # None
      BY <1>0, <1>p, <1>6, <1>11, <2>2, <3>2
    <3> QED
      BY <3>1, <3>3 DEF OneCurrent
  <2>4. NewestIsCurrent'
    <3> SUFFICES ASSUME NEW c \in Revisions, Current(c)', cut[Of(c)] = None, ~Undated(Of(c))',
                        NEW q \in Revisions, Of(q) = Of(c), Stored(q)'
                 PROVE  Date[q] <= Date[c]
      BY <1>0 DEF NewestIsCurrent
    <3>1. CASE Of(c) # p
      BY <1>p, <1>6, <1>7, <3>1 DEF Revised, NewestIsCurrent
    <3>2. CASE Of(c) = p
      <4>1. c = r /\ Date[r] \in Nat /\ Date[q] \in Nat
        BY <1>6, <1>12, <2>1, <3>2 DEF Undated
      <4>2. CASE q = r
        BY <4>1, <4>2
      <4>3. CASE q # r
        <5>1. Stored(q) /\ CurrentOf(p) = {} /\ cut[p] = None /\ ~Undated(p)
          BY <1>6, <1>7, <1>10, <1>13, <3>2, <4>3
        <5>2. BeingReplaced(p)
          BY <3>2, <5>1 DEF Revised, OneCurrent, BeingReplaced
        <5>3. Date[proc[s].prior] \in Nat /\ Date[q] <= Date[proc[s].prior]
          BY <1>0, <1>r, <1>p, <1>10, <1>11, <1>12, <3>2, <5>1, <5>2 DEF Prior, Undated
        <5>4. Date[r] >= Date[proc[s].prior]
          BY <1>10, <1>11, <1>13, <4>1, <5>2, <5>3, PaypalAssumption DEF IncomingIsNewer
        <5> QED
          BY <4>1, <5>3, <5>4
      <4> QED
        BY <4>2, <4>3
    <3> QED
      BY <3>1, <3>2
  <2>5. HandSurvives'
    <3> SUFFICES ASSUME NEW c \in Revisions, Current(c)', hand[Of(c)] # None
                 PROVE  row'[c].hand = hand[Of(c)]
      BY <1>0 DEF HandSurvives
    <3>1. CASE c # r
      BY <1>5, <1>6, <3>1 DEF Revised, HandSurvives
    <3>2. CASE c = r
      <4>1. BeingReplaced(p)
        BY <1>p, <1>10, <1>13, <3>2 DEF Revised, HandHasARow
      <4>2. proc[s].carry = hand[p]
        BY <1>0, <1>r, <1>p, <1>11, <3>2, <4>1 DEF Prior
      <4> QED
        BY <1>p, <1>4, <1>5, <3>2, <4>2
    <3> QED
      BY <3>1, <3>2
  <2>6. HandHasARow'
    BY <1>0, <1>11, <2>2 DEF Revised, HandHasARow
  <2> QED
    BY <1>2, <1>9, <2>3, <2>4, <2>5, <2>6 DEF Revised
<1>14. CASE ~proc[s].newer
  <2>1. ~Current(r)' /\ \A o : CurrentOf(o)' = CurrentOf(o) /\ ~BeingReplaced(o)
    BY <1>6, <1>11, <1>14 DEF CurrentOf, Current
  <2>2. proc[s].prior \in CurrentOf(p) /\ proc[s].prior # None
    BY <1>10, <1>14 DEF CurrentOf, IncomingIsNewer
  <2>3. OneCurrent'
    <3>1. \A q, u \in Revisions : Of(q) = Of(u) /\ Current(q)' /\ Current(u)' => q = u
      BY <1>6, <2>1 DEF Revised, OneCurrent
    <3>2. \A q \in Revisions : Stored(q) => CurrentOf(Of(q)) # {} \/ cut[Of(q)] # None
      BY <2>1 DEF Revised, OneCurrent, BeingReplaced
    <3>3. \A q \in Revisions : Stored(q)' => CurrentOf(Of(q))' # {} \/ cut'[Of(q)] # None
      BY <1>0, <1>p, <1>6, <2>1, <2>2, <3>2
    <3> QED
      BY <3>1, <3>3 DEF OneCurrent
  <2>4. NewestIsCurrent'
    <3> SUFFICES ASSUME NEW c \in Revisions, Current(c)', cut[Of(c)] = None, ~Undated(Of(c))',
                        NEW q \in Revisions, Of(q) = Of(c), Stored(q)'
                 PROVE  Date[q] <= Date[c]
      BY <1>0 DEF NewestIsCurrent
    <3>1. Current(c) /\ c # r
      BY <1>6, <2>1
    <3>2. CASE q # r
      BY <1>6, <1>7, <3>1, <3>2 DEF Revised, NewestIsCurrent
    <3>3. CASE q = r
      <4>1. c = proc[s].prior
        BY <1>p, <1>10, <2>2, <3>1, <3>3 DEF Revised, OneCurrent, CurrentOf
      <4>2. Date[c] # None /\ Date[r] # None /\ ~(Date[r] >= Date[c])
        BY <1>10, <1>14, <4>1 DEF IncomingIsNewer
      <4>3. Date[c] \in Nat /\ Date[r] \in Nat
        BY <1>12, <4>2
      <4> QED
        BY <3>3, <4>2, <4>3
    <3> QED
      BY <3>2, <3>3
  <2>5. HandSurvives' /\ HandHasARow'
    BY <1>0, <1>5, <1>6, <2>1 DEF Revised, HandSurvives, HandHasARow
  <2> QED
    BY <1>2, <1>9, <2>3, <2>4, <2>5 DEF Revised
<1> QED
  BY <1>13, <1>14

\* A process that dies, or whose statement fails, is out of the upsert.
Stops(s) == Crash(s) \/ StatementFails(s)

LEMMA StopsParts ==
  ASSUME Typed, NEW s \in Syncs, Stops(s)
  PROVE  /\ Faults /\ proc[s].pc # "idle" /\ Loses(s) /\ UNCHANGED <<version, row>>
         /\ \E q \in Procs : Become(s, q) /\ q.pc \in {"idle", "file", "fetch"}
         /\ run'[s].owed = run[s].owed
         /\ proc'[s].pc = "idle" \/ ~run'[s].clean
<1>0. proc \in [Syncs -> Procs] /\ proc[s] \in Procs /\ run \in [Syncs -> SyncRuns] /\ TypeOK
  BY DEF Typed, TypeOK
<1>1. CASE Crash(s)
  <2>1. Become(s, Idle) /\ Idle.pc = "idle" /\ UNCHANGED run
    BY <1>1 DEF Crash, Idle
  <2>2. proc'[s].pc = "idle"
    BY <1>0, <2>1, IdleTyped, Becomes
  <2> QED
    BY <1>1, <2>1, <2>2, IdleTyped DEF Crash, At
<1>2. CASE StatementFails(s)
  <2>1. Done(proc[s]) \in Procs /\ Done(proc[s]).pc \in {"file", "fetch"}
    BY <1>0, DoneTyped
  <2>2. ~run'[s].clean /\ run'[s].owed = run[s].owed
    BY <1>0, <1>2 DEF StatementFails, Counted, SyncRuns
  <2>3. /\ Faults /\ proc[s].pc # "idle" /\ Loses(s) /\ UNCHANGED <<version, row>>
        /\ Become(s, Done(proc[s]))
    BY <1>2 DEF StatementFails
  <2> QED
    BY <2>1, <2>2, <2>3
<1> QED
  BY <1>1, <1>2 DEF Stops

\* An insert that does not come after its update leaves its mark in cut.
LEMMA StopRevised ==
  ASSUME Typed, Typed', Revised, NEW s \in Syncs, Stops(s)
  PROVE  Revised'
<1>0. /\ proc[s].pc # "idle" /\ Loses(s) /\ UNCHANGED row
      /\ \E q \in Procs : Become(s, q) /\ q.pc \in {"idle", "file", "fetch"}
  BY StopsParts
<1>q. PICK q \in Procs : Become(s, q) /\ q.pc \in {"idle", "file", "fetch"}
  BY <1>0
<1>1. CASE ~Replaced(s)
  BY <1>0, <1>q, <1>1, OutsideUpsert DEF Loses
<1>2. CASE Replaced(s)
  <2>0. /\ TypeOK /\ proc[s].rev \in Revisions /\ Of(proc[s].rev) \in Payments /\ proc[s].pc = "create"
    BY <1>2, RevisionParts DEF Typed, HasRecord, Replaced, At, Working
  <2>p. PICK p \in Payments : p = Of(proc[s].rev)
    BY <2>0
  <2>1. Solo(s) /\ Solo(s)' /\ Alone' /\ proc'[s] = q
    BY <1>0, <1>q, OneMoves DEF Revised
  <2>2. /\ \A r : (Stored(r)' <=> Stored(r)) /\ (Current(r)' <=> Current(r))
        /\ \A o : CurrentOf(o)' = CurrentOf(o) /\ (Undated(o)' <=> Undated(o))
    BY <1>0 DEF Stored, Current, CurrentOf, Undated
  <2>3. cut' = [cut EXCEPT ![p] = proc[s].rev] /\ hand' = [hand EXCEPT ![p] = None]
    BY <1>0, <1>2, <2>p DEF Loses
  <2>4. cut'[p] # None /\ hand'[p] = None /\ proc[s].rev # None
    BY <2>0, <2>3, PaypalAssumption DEF TypeOK
  <2>5. \A o \in Payments : o # p => cut'[o] = cut[o] /\ hand'[o] = hand[o] /\ ~BeingReplaced(o)
    BY <2>0, <2>p, <2>1, <2>3 DEF TypeOK, BeingReplaced, Replaced, At, Solo
  <2>6. \A r \in Revisions : Of(r) \in Payments
    BY RevisionParts
  <2>7. OneCurrent'
    <3>1. \A r \in Revisions : Stored(r) => CurrentOf(Of(r)) # {} \/ cut[Of(r)] # None \/ BeingReplaced(Of(r))
      BY DEF Revised, OneCurrent, BeingReplaced
    <3>2. \A r \in Revisions : Stored(r)' => CurrentOf(Of(r))' # {} \/ cut'[Of(r)] # None
      BY <2>2, <2>4, <2>5, <2>6, <3>1
    <3> QED
      BY <2>2, <3>2 DEF Revised, OneCurrent
  <2>8. NewestIsCurrent'
    BY <2>2, <2>4, <2>5, <2>6 DEF Revised, NewestIsCurrent
  <2>9. HandSurvives'
    BY <1>0, <2>0, <2>2, <2>4, <2>5, <2>6 DEF Revised, HandSurvives
  <2>10. HandHasARow'
    BY <2>2, <2>4, <2>5 DEF Revised, HandHasARow
  <2>11. \A t \in Syncs : Locals(t)' /\ Prior(t)'
    BY <1>q, <2>1 DEF Locals, Prior, Solo
  <2> QED
    BY <2>1, <2>7, <2>8, <2>9, <2>10, <2>11 DEF Revised
<1> QED
  BY <1>1, <1>2

LEMMA AssignRevised ==
  ASSUME Typed, Typed', Revised, NEW r \in Revisions, NEW e \in Events, Assign(r, e)
  PROVE  Revised'
<1>0. /\ TypeOK /\ UNCHANGED <<proc, cut>> /\ Stored(r) /\ Of(r) \in Payments
      /\ row' = [row EXCEPT ![r] = [row[r] EXCEPT !.hand = e]] /\ row[r] \in Rows
  BY RowTyped, RevisionParts DEF Typed, Assign
<1>1. /\ row'[r] \in Rows /\ row'[r].current = row[r].current /\ row'[r].hand = e
      /\ \A q \in Revisions : q # r => row'[q] = row[q]
  BY <1>0 DEF TypeOK, Rows
<1>2. \A q \in Revisions : (Stored(q)' <=> Stored(q)) /\ (Current(q)' <=> Current(q))
  BY <1>0, <1>1, NoSuchRow DEF Stored, Current
<1>3. \A o : CurrentOf(o)' = CurrentOf(o) /\ (Undated(o)' <=> Undated(o)) /\ (BeingReplaced(o)' <=> BeingReplaced(o))
  BY <1>0, <1>2 DEF CurrentOf, Undated, BeingReplaced, Replaced, At
<1>4. OneCurrent'
  <2>1. \A q \in Revisions : Stored(q) => CurrentOf(Of(q)) # {} \/ cut[Of(q)] # None \/ BeingReplaced(Of(q))
    BY DEF Revised, OneCurrent, BeingReplaced
  <2>2. \A q \in Revisions : Stored(q)' => CurrentOf(Of(q))' # {} \/ cut'[Of(q)] # None \/ BeingReplaced(Of(q))'
    BY <1>0, <1>2, <1>3, <2>1
  <2>3. \A q, u \in Revisions : Of(q) = Of(u) /\ Current(q)' /\ Current(u)' => q = u
    BY <1>2 DEF Revised, OneCurrent
  <2> QED
    BY <2>2, <2>3 DEF OneCurrent, BeingReplaced
<1>5. NewestIsCurrent'
  BY <1>0, <1>2, <1>3 DEF Revised, NewestIsCurrent
<1>6. /\ \A o \in Payments : o # Of(r) => hand'[o] = hand[o]
      /\ Current(r) => hand'[Of(r)] \in {e, None}
      /\ ~Current(r) => hand' = hand
      /\ Current(r) /\ (\E s \in Syncs : InFlight(s, Of(r))) => hand'[Of(r)] = None
  BY <1>0 DEF Assign, TypeOK
<1>7. \A q \in Revisions : Of(q) \in Payments
  BY RevisionParts
<1>8. HandSurvives'
  <2> SUFFICES ASSUME NEW c \in Revisions, Current(c)', hand'[Of(c)] # None
               PROVE  row'[c].hand = hand'[Of(c)]
    BY DEF HandSurvives
  <2>1. CASE c = r
    BY <1>1, <1>2, <1>6, <2>1
  <2>2. CASE c # r
    <3>1. ~(Current(r) /\ Of(r) = Of(c))
      BY <1>2, <2>2 DEF Revised, OneCurrent
    <3> QED
      BY <1>1, <1>2, <1>6, <1>7, <2>2, <3>1 DEF Revised, HandSurvives
  <2> QED
    BY <2>1, <2>2
<1>9. HandHasARow'
  <2>1. Current(r) => CurrentOf(Of(r)) # {}
    BY DEF CurrentOf
  <2> QED
    BY <1>3, <1>6, <2>1 DEF Revised, HandHasARow
<1>10. \A s \in Syncs : Locals(s)'
  <2>1. \A s \in Syncs : /\ proc[s].pc \in Working => proc[s].rev \in Revisions
                         /\ proc[s].prior \in Revisions \cup {None}
    BY <1>0 DEF Typed, HasRecord, TypeOK, Procs
  <2>2. \A s \in Syncs : proc[s].pc = "create" /\ ~proc[s].newer => proc[s].prior # None
    BY DEF Revised, Locals, IncomingIsNewer
  <2> QED
    BY <1>0, <1>2, <1>3, <2>1, <2>2 DEF Revised, Locals, Working
<1>11. \A s \in Syncs : Prior(s)'
  <2> SUFFICES ASSUME NEW s \in Syncs, proc[s].pc \in {"supersede", "create"}, proc[s].prior # None
               PROVE  Prior(s)'
    BY <1>0 DEF Prior
  <2>1. Of(proc[s].rev) \in Payments /\ InFlight(s, Of(proc[s].rev))
    BY <1>7 DEF Typed, HasRecord, Working, InFlight
  <2>2. hand'[Of(proc[s].rev)] # None => hand'[Of(proc[s].rev)] = hand[Of(proc[s].rev)]
    BY <1>6, <2>1
  <2> QED
    BY <1>0, <1>2, <1>3, <2>2 DEF Revised, Prior
<1>12. Alone'
  BY <1>0 DEF Revised, Alone
<1> QED
  BY <1>4, <1>5, <1>8, <1>9, <1>10, <1>11, <1>12 DEF Revised

\* Every step, while there is one sync or import at a time.
LEMMA StepRevised ==
  ASSUME ~Overlap
  PROVE  Typed /\ Revised /\ [Next]_vars => Revised'
<1> SUFFICES ASSUME Typed, Revised, [Next]_vars PROVE Revised'
  OBVIOUS
<1>0. Typed' /\ TypeOK /\ \A s \in Syncs : proc[s] \in Procs
  BY StepTyped DEF Typed, TypeOK
<1>1. ASSUME NEW s \in Syncs, NEW q, Become(s, q), ~Replaced(s),
             proc[s].pc # "idle" \/ \A t \in Syncs : proc[t].pc = "idle",
             q.pc \notin {"supersede", "create"}, q.pc = "prior" => ~Stored(q.rev),
             UNCHANGED <<row, hand, cut>>
      PROVE  Revised'
  <2>1. q \in Procs
    <3>1. proc'[s] = q /\ proc'[s] \in Procs
      BY <1>0, <1>1 DEF Become, Typed, TypeOK
    <3> QED
      BY <3>1
  <2> QED
    BY <1>1, <2>1, OutsideUpsert
<1>2. ASSUME NEW s \in Syncs, BeginSync(s) PROVE Revised'
  <2>1. proc[s].pc = "idle" /\ \A t \in Syncs : proc[t].pc = "idle"
    BY <1>2 DEF BeginSync, MayBegin, At
  <2>2. PICK span \in Spans : Become(s, [Idle EXCEPT !.pc = "fetch", !.windows = Tops(span)])
    BY <1>2 DEF BeginSync
  <2>3. [Idle EXCEPT !.pc = "fetch", !.windows = Tops(span)].pc = "fetch"
    BY DEF Idle
  <2> QED
    BY <1>1, <1>2, <2>1, <2>2, <2>3 DEF BeginSync, Replaced, At
<1>3. ASSUME NEW s \in Syncs, BeginImport(s) PROVE Revised'
  <2>1. proc[s].pc = "idle" /\ \A t \in Syncs : proc[t].pc = "idle"
    BY <1>3 DEF BeginImport, MayBegin, At
  <2>2. PICK file \in Files : Become(s, [Idle EXCEPT !.pc = "file", !.file = file])
    BY <1>3 DEF BeginImport
  <2>3. [Idle EXCEPT !.pc = "file", !.file = file].pc = "file"
    BY DEF Idle
  <2> QED
    BY <1>1, <1>3, <2>1, <2>2, <2>3 DEF BeginImport, Replaced, At
<1>4. ASSUME NEW s \in Syncs, Fetch(s) PROVE Revised'
  <2>0. PICK w \in proc[s].windows :
          \/ \E p \in Payments : FetchRecord(s, w, p)
          \/ EndWindow(s, w) \/ SplitWindow(s, w) \/ GiveUp(s, w) \/ RefuseWindow(s, w) \/ RefuseRun(s, w)
    BY <1>4 DEF Fetch
  <2>1. proc[s].pc = "fetch" /\ ~Replaced(s)
    BY <2>0 DEF FetchRecord, EndWindow, SplitWindow, GiveUp, RefuseWindow, RefuseRun, Turn, At, Replaced
  <2>2. ASSUME NEW p \in Payments, FetchRecord(s, w, p) PROVE Revised'
    <3> DEFINE q == [proc[s] EXCEPT !.seen = @ \cup {p}]
    <3>1. q.pc = "fetch" /\ [q EXCEPT !.pc = "look", !.rev = Latest(p)].pc = "look"
      BY <1>0, <2>1 DEF Procs
    <3>2. Become(s, q) \/ Become(s, [q EXCEPT !.pc = "look", !.rev = Latest(p)])
      BY <2>2 DEF FetchRecord
    <3> QED
      BY <1>1, <2>1, <2>2, <3>1, <3>2 DEF FetchRecord
  <2>3. CASE EndWindow(s, w)
    <3>1. [proc[s] EXCEPT !.windows = @ \ {w}, !.seen = {}].pc = "fetch"
      BY <1>0, <2>1 DEF Procs
    <3> QED
      BY <1>1, <2>1, <2>3, <3>1 DEF EndWindow
  <2>4. CASE SplitWindow(s, w)
    <3>1. [proc[s] EXCEPT !.windows = (@ \ {w}) \cup Halves(w), !.seen = {}].pc = "fetch"
      BY <1>0, <2>1 DEF Procs
    <3> QED
      BY <1>1, <2>1, <2>4, <3>1 DEF SplitWindow
  <2>5. CASE GiveUp(s, w)
    <3>1. [proc[s] EXCEPT !.windows = @ \ {w}, !.seen = {}].pc = "fetch"
      BY <1>0, <2>1 DEF Procs
    <3> QED
      BY <1>1, <2>1, <2>5, <3>1 DEF GiveUp
  <2>6. CASE RefuseWindow(s, w)
    <3>1. [proc[s] EXCEPT !.windows = {v \in @ : v.top # w.top}, !.seen = {}, !.had = TRUE].pc = "fetch"
      BY <1>0, <2>1 DEF Procs
    <3> QED
      BY <1>1, <2>1, <2>6, <3>1 DEF RefuseWindow
  <2>7. CASE RefuseRun(s, w)
    BY <1>1, <2>1, <2>7 DEF RefuseRun, Finish, Idle
  <2> QED
    BY <2>0, <2>2, <2>3, <2>4, <2>5, <2>6, <2>7
<1>5. ASSUME NEW s \in Syncs, EndSync(s) \/ EndImport(s) PROVE Revised'
  <2>1. proc[s].pc \in {"fetch", "file"} /\ Become(s, Idle) /\ UNCHANGED <<row, hand, cut>>
    BY <1>5 DEF EndSync, EndImport, Finish, At
  <2> QED
    BY <1>1, <2>1 DEF Replaced, At, Idle
<1>6. ASSUME NEW s \in Syncs, NEW r \in Revisions, ReadLine(s, r) PROVE Revised'
  <2> DEFINE q == [proc[s] EXCEPT !.file = @ \ {r}]
  <2>1. proc[s].pc = "file" /\ UNCHANGED <<row, hand, cut>>
    BY <1>6 DEF ReadLine, At
  <2>2. q.pc = "file" /\ [q EXCEPT !.pc = "look", !.rev = r].pc = "look"
    BY <1>0, <2>1 DEF Procs
  <2>3. Become(s, q) \/ Become(s, [q EXCEPT !.pc = "look", !.rev = r])
    BY <1>6 DEF ReadLine
  <2> QED
    BY <1>1, <2>1, <2>2, <2>3 DEF Replaced, At
<1>7. ASSUME NEW s \in Syncs, LookUp(s) PROVE Revised'
  <2>1. proc[s].pc = "look" /\ UNCHANGED <<row, hand, cut>>
    BY <1>7 DEF LookUp, At
  <2>2. CASE Stored(proc[s].rev)
    <3>1. Done(proc[s]).pc \in {"file", "fetch"} /\ Become(s, Done(proc[s]))
      BY <1>0, <1>7, <2>2, DoneTyped DEF LookUp
    <3> QED
      BY <1>1, <2>1, <3>1 DEF Replaced, At
  <2>3. CASE ~Stored(proc[s].rev)
    <3> DEFINE q == [proc[s] EXCEPT !.pc = "prior"]
    <3>1. q.pc = "prior" /\ q.rev = proc[s].rev /\ Become(s, q)
      BY <1>0, <1>7, <2>3 DEF LookUp, Procs
    <3>2. ~Stored(q.rev)
      BY <2>3, <3>1
    <3> QED
      BY <1>1, <2>1, <3>1, <3>2 DEF Replaced, At
  <2> QED
    BY <2>2, <2>3
<1>8. CASE UNCHANGED vars \/ \E p \in Payments : Report(p)
  BY <1>8, RevisedStands DEF vars, Report
<1> QED
  BY <1>0, <1>2, <1>3, <1>4, <1>5, <1>6, <1>7, <1>8, PriorRevised, SupersedeRevised,
     CreateRevised, StopRevised, AssignRevised DEF Next, Upsert, Stops

LEMMA AlwaysRevised ==
  ASSUME ~Overlap
  PROVE  Spec => [](Typed /\ Revised)
<1>1. Init => Typed /\ Revised
  BY InitTyped, InitRevised
<1>2. Typed /\ Revised /\ [Next]_vars => (Typed /\ Revised)'
  BY StepTyped, StepRevised
<1> QED
  BY <1>1, <1>2, PTL DEF Spec

\* With one sync or import at a time a payment never has two current rows, and is without
\* one only between the update and the insert, or because that insert failed or its process
\* died before it.
THEOREM OneCurrentWhenSerial ==
  ASSUME ~Overlap
  PROVE  Spec => []OneCurrent
<1>1. Revised => OneCurrent
  BY DEF Revised
<1> QED
  BY <1>1, AlwaysRevised, PTL

\* With one sync or import at a time the current row is the newest of the dated ones, in
\* whatever order syncs and files bring them.
THEOREM NewestWhenSerial ==
  ASSUME ~Overlap
  PROVE  Spec => []NewestIsCurrent
<1>1. Revised => NewestIsCurrent
  BY DEF Revised
<1> QED
  BY <1>1, AlwaysRevised, PTL

\* With one sync or import at a time an event assigned by hand outside of an upsert is on
\* every later current row of the payment, until an insert fails, or is never reached, after
\* the update that was to make room for it.
THEOREM HandSurvivesWhenSerial ==
  ASSUME ~Overlap
  PROVE  Spec => []HandSurvives
<1>1. Revised => HandSurvives
  BY DEF Revised
<1> QED
  BY <1>1, AlwaysRevised, PTL

(***************************************************************************)
(* Lost inserts are made good, with one sync or import at a time.  A       *)
(* payment whose writer failed or died has no row of the revision it was   *)
(* about to write, and of the API none as late; what the next run of that  *)
(* source owes is that revision, or a later one.                           *)
(***************************************************************************)

\* Versions are stored in the order in which they are reported.
Listing ==
  /\ \A q \in Revisions : Stored(q) => q[2] <= version[Of(q)]
  /\ \A s \in Syncs : proc[s].pc \in Working =>
       /\ proc[s].rev[2] <= version[Of(proc[s].rev)]
       /\ proc[s].rev[2] > 0 =>
            \A q \in Revisions : Of(q) = Of(proc[s].rev) /\ Stored(q) => q[2] <= proc[s].rev[2]
CutKnown ==
  \A p \in Payments : cut[p] # None => cut[p] \in Revisions /\ Of(cut[p]) = p /\ cut[p][2] <= version[p]
OwedLater ==
  \A s \in Syncs : proc[s].pc # "idle" /\ run[s].clean =>
    \A r \in run[s].owed : r[2] > 0 /\ cut[Of(r)] # None => cut[Of(r)][2] <= r[2]

Shown(p) == CurrentOf(p) # {} \/ BeingReplaced(p)
Missing(p) ==
  /\ ~Stored(cut[p])
  /\ cut[p][2] > 0 => \A q \in Revisions : Of(q) = p /\ Stored(q) => q[2] < cut[p][2]
Healing == \A p \in Payments : cut[p] # None => Shown(p) \/ Missing(p)

Healed == Listing /\ CutKnown /\ OwedLater /\ Healing

LEMMA InitHealed == Init => Healed
<1> SUFFICES ASSUME Init PROVE Healed
  OBVIOUS
<1>1. \A s \in Syncs : proc[s].pc = "idle"
  BY DEF Init, Idle
<1>2. (\A q \in Revisions : ~Stored(q)) /\ \A p \in Payments : cut[p] = None
  BY DEF Init, Stored
<1> QED
  BY <1>1, <1>2 DEF Healed, Listing, CutKnown, OwedLater, Healing, Working

\* A step that stores nothing: what a process takes up is the latest PayPal reports or a
\* line of a file, and so is what a run comes to owe.
LEMMA NothingStored ==
  ASSUME Typed, Typed', Healed, UNCHANGED cut,
         \A q \in Revisions : Stored(q)' <=> Stored(q),
         \A p \in Payments : version[p] <= version'[p] /\ (Shown(p) => Shown(p)'),
         \A s \in Syncs : proc'[s].pc \in Working =>
           \/ proc[s].pc \in Working /\ proc'[s].rev = proc[s].rev
           \/ proc'[s].rev[2] = 0 \/ proc'[s].rev[2] = version[Of(proc'[s].rev)],
         \A s \in Syncs : proc'[s].pc # "idle" =>
           \/ /\ proc[s].pc # "idle" /\ run'[s].owed = run[s].owed
              /\ run'[s].clean => run[s].clean
           \/ \A r \in run'[s].owed : r[2] = 0 \/ r[2] = version[Of(r)]
  PROVE  Healed'
<1>0. /\ version \in [Payments -> Nat] /\ version' \in [Payments -> Nat]
      /\ \A s \in Syncs : run'[s].owed \subseteq Revisions
      /\ \A s \in Syncs : proc'[s].pc \in Working => proc'[s].rev \in Revisions
  BY DEF Typed, TypeOK, HasRecord, SyncRuns
<1>1. \A q \in Revisions : Of(q) \in Payments /\ q[2] \in Nat
  BY RevisionParts
<1>2. \A q \in Revisions : q[2] <= version[Of(q)] => q[2] <= version'[Of(q)]
  BY <1>0, <1>1
<1>3. Listing'
  <2>1. \A q \in Revisions : Stored(q)' => q[2] <= version'[Of(q)]
    BY <1>2 DEF Healed, Listing
  <2>2. ASSUME NEW s \in Syncs, proc'[s].pc \in Working
        PROVE  /\ proc'[s].rev[2] <= version'[Of(proc'[s].rev)]
               /\ proc'[s].rev[2] > 0 => \A q \in Revisions :
                    Of(q) = Of(proc'[s].rev) /\ Stored(q)' => q[2] <= proc'[s].rev[2]
    <3>1. PICK v \in Revisions : v = proc'[s].rev
      BY <1>0, <2>2
    <3>2. v[2] <= version[Of(v)]
      BY <1>0, <1>1, <2>2, <3>1 DEF Healed, Listing
    <3>3. v[2] > 0 => \A q \in Revisions : Of(q) = Of(v) /\ Stored(q) => q[2] <= v[2]
      BY <1>0, <1>1, <2>2, <3>1 DEF Healed, Listing
    <3> QED
      BY <1>2, <3>1, <3>2, <3>3
  <2> QED
    BY <2>1, <2>2 DEF Listing
<1>4. CutKnown'
  BY <1>2 DEF Healed, CutKnown
<1>5. OwedLater'
  <2> SUFFICES ASSUME NEW s \in Syncs, proc'[s].pc # "idle", run'[s].clean, NEW r \in run'[s].owed,
                      r[2] > 0, cut[Of(r)] # None
               PROVE  cut[Of(r)][2] <= r[2]
    BY DEF OwedLater
  <2>1. r \in Revisions /\ Of(r) \in Payments
    BY <1>0, <1>1
  <2>2. cut[Of(r)][2] <= version[Of(r)]
    BY <2>1 DEF Healed, CutKnown
  <2> QED
    BY <1>1, <2>1, <2>2 DEF Healed, OwedLater
<1>6. Healing'
  <2> SUFFICES ASSUME NEW p \in Payments, cut[p] # None, Missing(p) PROVE Missing(p)'
    BY DEF Healed, Healing
  <2>1. cut[p] \in Revisions
    BY DEF Healed, CutKnown
  <2> QED
    BY <2>1 DEF Missing
<1> QED
  BY <1>3, <1>4, <1>5, <1>6 DEF Healed

\* A step of the one process that writes no row.
LEMMA NoRow ==
  ASSUME Typed, Typed', Revised, Healed, NEW s \in Syncs, ~Replaced(s),
         proc[s].pc # "idle" \/ \A t \in Syncs : proc[t].pc = "idle",
         NEW q, Become(s, q), UNCHANGED <<version, row, cut>>,
         q.pc \in Working =>
           \/ proc[s].pc \in Working /\ q.rev = proc[s].rev
           \/ q.rev[2] = 0 \/ q.rev[2] = version[Of(q.rev)],
         q.pc # "idle" =>
           \/ /\ proc[s].pc # "idle" /\ run'[s].owed = run[s].owed
              /\ run'[s].clean => run[s].clean
           \/ \A r \in run'[s].owed : r[2] = 0 \/ r[2] = version[Of(r)]
  PROVE  Healed'
<1>1. proc'[s] = q /\ q \in Procs
  BY DEF Become, Typed, TypeOK
<1>2. Solo(s) /\ Solo(s)'
  BY <1>1, OneMoves DEF Revised
<1>3. \A t \in Syncs : t # s => proc'[t].pc = "idle" /\ proc'[t].pc \notin Working
  BY <1>2 DEF Solo, Working
<1>4. \A p : ~BeingReplaced(p)
  BY <1>2 DEF BeingReplaced, Replaced, At, Solo
<1>5. /\ \A u \in Revisions : Stored(u)' <=> Stored(u)
      /\ \A p \in Payments : Shown(p) => Shown(p)'
  BY <1>4 DEF Stored, Current, CurrentOf, Shown
<1>6. \A p \in Payments : version[p] <= version'[p]
  BY DEF Typed, TypeOK
<1> QED
  BY <1>1, <1>3, <1>5, <1>6, NothingStored

LEMMA SupersedeHealed ==
  ASSUME Typed, Typed', Revised, Healed, NEW s \in Syncs, Supersede(s)
  PROVE  Healed'
<1>0. /\ TypeOK /\ proc[s] \in Procs /\ proc[s].pc = "supersede" /\ UNCHANGED <<version, run, cut>>
      /\ proc[s].prior # None /\ proc[s].newer
  BY DEF Typed, TypeOK, Supersede, At, Revised, Locals
<1>1. /\ proc'[s].pc = "create" /\ proc'[s].rev = proc[s].rev /\ proc'[s].prior = proc[s].prior
      /\ proc'[s].newer = proc[s].newer /\ \A t \in Syncs : t # s => proc'[t] = proc[t]
  BY <1>0 DEF Supersede, Become, TypeOK, Procs
<1>o. PICK o : o = Of(proc[s].rev)
  OBVIOUS
<1>2. BeingReplaced(o)'
  BY <1>0, <1>o, <1>1 DEF BeingReplaced, Replaced, At
<1>3. \A t \in Syncs : Replaced(t) => Replaced(t)' /\ proc'[t].rev = proc[t].rev
  BY <1>0, <1>1 DEF Replaced, At
<1>4. ASSUME NEW r \in Revisions
      PROVE  /\ Stored(r)' <=> Stored(r)
             /\ Current(r) /\ Of(r) # Of(proc[s].rev) => Current(r)'
  <2>1. CASE r \in CurrentOf(Of(proc[s].rev))
    <3>1. Stored(r) /\ Of(r) = Of(proc[s].rev) /\ row[r] \in Rows
      BY <1>0, <2>1, CurrentTyped
    <3>2. row'[r] = [row[r] EXCEPT !.current = FALSE]
      BY <2>1 DEF Supersede
    <3>3. row'[r] \in Rows
      BY <3>1, <3>2 DEF Rows
    <3> QED
      BY <3>1, <3>3, NoSuchRow DEF Stored
  <2>2. CASE r \notin CurrentOf(Of(proc[s].rev))
    BY <2>2 DEF Supersede, Stored, Current
  <2> QED
    BY <2>1, <2>2
<1>5. ASSUME NEW p \in Payments, Shown(p) PROVE Shown(p)'
  <2>1. BeingReplaced(p) => BeingReplaced(p)'
    BY <1>3 DEF BeingReplaced
  <2>2. p # o /\ CurrentOf(p) # {} => CurrentOf(p)' # {}
    BY <1>o, <1>4 DEF CurrentOf
  <2> QED
    BY <1>2, <1>5, <2>1, <2>2 DEF Shown
<1>6. \A p \in Payments : version[p] <= version'[p]
  BY <1>0 DEF TypeOK
<1>7. \A t \in Syncs : /\ proc'[t].pc \in Working => proc[t].pc \in Working /\ proc'[t].rev = proc[t].rev
                       /\ proc'[t].pc # "idle" => /\ proc[t].pc # "idle" /\ run'[t].owed = run[t].owed
                                                  /\ run'[t].clean = run[t].clean
  BY <1>0, <1>1 DEF Working
<1> QED
  BY <1>0, <1>4, <1>5, <1>6, <1>7, NothingStored

\* An insert leaves the payment with a current row: its own, or the one that was newer.
LEMMA CreateHealed ==
  ASSUME Typed, Typed', Revised, Healed, NEW s \in Syncs, Create(s)
  PROVE  Healed'
<1>0. /\ TypeOK /\ proc[s] \in Procs /\ proc[s].pc = "create" /\ UNCHANGED <<version, cut>>
      /\ proc[s].rev \in Revisions /\ ~Stored(proc[s].rev)
      /\ Locals(s) /\ Become(s, Done(proc[s])) /\ run \in [Syncs -> SyncRuns]
  BY DEF Typed, TypeOK, HasRecord, Create, At, Working, Revised, Locals
<1>c. run'[s].owed = run[s].owed /\ (run'[s].clean => run[s].clean)
  <2>1. run' = run \/ run' = [run EXCEPT ![s].clean = FALSE]
    BY DEF Create, Counted
  <2> QED
    BY <1>0, <2>1 DEF SyncRuns
<1>r. PICK r \in Revisions : r = proc[s].rev
  BY <1>0
<1>1. proc'[s] = Done(proc[s]) /\ Done(proc[s]) \in Procs /\ Done(proc[s]).pc \in {"file", "fetch"}
  BY <1>0, DoneTyped, Becomes
<1>2. Solo(s) /\ Solo(s)'
  BY <1>0, <1>1, OneMoves DEF Revised
<1>3. row'[r] = NewRow(s) /\ \A q \in Revisions : q # r => row'[q] = row[q]
  BY <1>0, <1>r DEF Create, TypeOK
<1>4. NewRow(s) \in Rows /\ NewRow(s).current = proc[s].newer
  BY <1>0 DEF NewRow, Rows, Procs
<1>5. /\ Stored(r)' /\ ~Stored(r) /\ (Current(r)' <=> proc[s].newer)
      /\ \A q \in Revisions : q # r => (Stored(q)' <=> Stored(q)) /\ (Current(q)' <=> Current(q))
  BY <1>0, <1>r, <1>3, <1>4, NoSuchRow DEF Stored, Current
<1>6. \A q \in Revisions : Of(q) \in Payments /\ q[2] \in Nat
  BY RevisionParts
<1>7. CurrentOf(Of(r))' # {}
  <2>1. CASE proc[s].newer
    BY <1>5, <2>1 DEF CurrentOf
  <2>2. CASE ~proc[s].newer
    <3>1. /\ proc[s].prior \in Revisions /\ Current(proc[s].prior) /\ Of(proc[s].prior) = Of(r)
          /\ Stored(proc[s].prior)
      BY <1>0, <1>r, <2>2 DEF Locals, IncomingIsNewer, Procs
    <3>2. PICK u \in Revisions : u = proc[s].prior
      BY <3>1
    <3> QED
      BY <1>5, <3>1, <3>2 DEF CurrentOf
  <2> QED
    BY <2>1, <2>2
<1>8. \A t \in Syncs : proc'[t].pc \notin Working /\ (proc'[t].pc # "idle" => t = s)
  BY <1>1, <1>2 DEF Solo, Working
<1>9. Listing'
  <2>1. r[2] <= version[Of(r)]
    BY <1>0, <1>r DEF Healed, Listing, Working
  <2> QED
    BY <1>0, <1>5, <1>8, <2>1 DEF Healed, Listing
<1>10. CutKnown'
  BY <1>0 DEF Healed, CutKnown
<1>11. OwedLater'
  BY <1>0, <1>c, <1>8 DEF Healed, OwedLater
<1>12. Healing'
  <2> SUFFICES ASSUME NEW p \in Payments, cut[p] # None, p # Of(r) PROVE Shown(p)' \/ Missing(p)'
    BY <1>0, <1>7 DEF Healing, Shown
  <2>1. cut[p] \in Revisions /\ Of(cut[p]) = p
    BY DEF Healed, CutKnown
  <2>2. ~BeingReplaced(p)
    BY <1>r, <1>2 DEF BeingReplaced, Replaced, At, Solo
  <2>3. CurrentOf(p) # {} => CurrentOf(p)' # {}
    BY <1>5 DEF CurrentOf
  <2>4. Missing(p) => Missing(p)'
    BY <1>0, <1>5, <2>1 DEF Missing
  <2> QED
    BY <2>2, <2>3, <2>4 DEF Healed, Healing, Shown
<1> QED
  BY <1>9, <1>10, <1>11, <1>12 DEF Healed

\* The loss itself: nothing as late as what was about to be written is stored, and a run that
\* goes on is not clean any more.
LEMMA StopHealed ==
  ASSUME Typed, Typed', Revised, Healed, NEW s \in Syncs, Stops(s), Replaced(s)
  PROVE  Healed'
<1>0. /\ TypeOK /\ proc[s].pc = "create" /\ UNCHANGED <<version, row>> /\ Loses(s)
      /\ proc[s].rev \in Revisions /\ ~Stored(proc[s].rev)
      /\ proc'[s].pc = "idle" \/ ~run'[s].clean
      /\ \E q \in Procs : Become(s, q) /\ q.pc \in {"idle", "file", "fetch"}
  BY StopsParts DEF Typed, HasRecord, Replaced, At, Working, Revised, Locals
<1>q. PICK pr \in Procs : Become(s, pr) /\ pr.pc \in {"idle", "file", "fetch"}
  BY <1>0
<1>r. PICK r \in Revisions : r = proc[s].rev
  BY <1>0
<1>1. Of(r) \in Payments /\ \A q \in Revisions : q[2] \in Nat /\ q = <<Of(q), q[2]>>
  BY RevisionParts
<1>2. Solo(s) /\ Solo(s)' /\ proc'[s] = pr
  BY <1>0, <1>q, OneMoves DEF Revised
<1>3. \A t \in Syncs : proc'[t].pc \notin Working /\ (proc'[t].pc = "idle" \/ ~run'[t].clean)
  BY <1>0, <1>q, <1>2 DEF Solo, Working
<1>4. cut' = [cut EXCEPT ![Of(r)] = r]
  BY <1>0, <1>r DEF Loses
<1>5. cut'[Of(r)] = r /\ \A p \in Payments : p # Of(r) => cut'[p] = cut[p]
  BY <1>0, <1>1, <1>4 DEF TypeOK
<1>6. /\ r[2] <= version[Of(r)]
      /\ r[2] > 0 => \A q \in Revisions : Of(q) = Of(r) /\ Stored(q) => q[2] <= r[2]
  BY <1>0, <1>r DEF Healed, Listing, Working
<1>7. \A q \in Revisions : Stored(q)' <=> Stored(q)
  BY <1>0 DEF Stored
<1>8. Listing'
  BY <1>0, <1>3, <1>7 DEF Healed, Listing
<1>9. CutKnown'
  BY <1>0, <1>5, <1>6 DEF Healed, CutKnown
<1>10. OwedLater'
  BY <1>3 DEF OwedLater
<1>11. Missing(Of(r))'
  <2>1. \A q \in Revisions : Of(q) = Of(r) /\ Stored(q) => q[2] # r[2]
    BY <1>0, <1>r, <1>1
  <2>2. r[2] > 0 => \A q \in Revisions : Of(q) = Of(r) /\ Stored(q)' => q[2] < r[2]
    BY <1>1, <1>6, <1>7, <2>1
  <2>3. ~(row'[r] # None)
    BY <1>0, <1>r DEF Stored
  <2> QED
    BY <1>5, <2>2, <2>3 DEF Missing, Stored
<1>12. ASSUME NEW p \in Payments, p # Of(r), cut'[p] # None PROVE Shown(p)' \/ Missing(p)'
  <2>1. cut'[p] = cut[p] /\ cut[p] \in Revisions
    BY <1>5, <1>12 DEF Healed, CutKnown
  <2>2. ~BeingReplaced(p)
    BY <1>r, <1>2, <1>12 DEF BeingReplaced, Replaced, At, Solo
  <2>3. CurrentOf(p)' = CurrentOf(p)
    BY <1>0 DEF CurrentOf, Current, Stored
  <2>4. Missing(p) => Missing(p)'
    BY <1>7, <2>1 DEF Missing
  <2> QED
    BY <1>12, <2>1, <2>2, <2>3, <2>4 DEF Healed, Healing, Shown
<1> QED
  BY <1>8, <1>9, <1>10, <1>11, <1>12 DEF Healed, Healing

\* A new run owes what PayPal reports right now, or lines of a file.
LEMMA BeginHealed ==
  ASSUME Typed, Typed', Revised, Healed, ~Overlap, NEW s \in Syncs, BeginSync(s) \/ BeginImport(s)
  PROVE  Healed'
<1>0. /\ TypeOK /\ run \in [Syncs -> SyncRuns] /\ UNCHANGED <<version, row, cut>>
      /\ proc[s].pc = "idle" /\ (\A t \in Syncs : proc[t].pc = "idle") /\ ~Replaced(s)
  BY DEF Typed, TypeOK, BeginSync, BeginImport, MayBegin, At, Replaced
<1>1. CASE BeginSync(s)
  <2>1. PICK span \in Spans :
          /\ Become(s, [Idle EXCEPT !.pc = "fetch", !.windows = Tops(span)])
          /\ run' = [run EXCEPT ![s] = [status |-> "running", clean |-> TRUE,
                                        owed |-> {Latest(p) : p \in Listed(span)}]]
    BY <1>1 DEF BeginSync
  <2> DEFINE q == [Idle EXCEPT !.pc = "fetch", !.windows = Tops(span)]
  <2>2. q.pc \notin Working /\ Become(s, q)
    BY <2>1 DEF Idle, Working
  <2>3. run'[s].owed = {Latest(p) : p \in Listed(span)}
    BY <1>0, <2>1
  <2>4. \A p \in Listed(span) : Latest(p)[2] = version[Of(Latest(p))]
    BY <1>0, LatestTyped DEF Listed
  <2>5. \A r \in run'[s].owed : r[2] = version[Of(r)]
    BY <2>3, <2>4
  <2> HIDE DEF q
  <2> QED
    BY <1>0, <2>2, <2>5, NoRow
<1>2. CASE BeginImport(s)
  <2>1. PICK file \in Files :
          /\ Become(s, [Idle EXCEPT !.pc = "file", !.file = file])
          /\ run' = [run EXCEPT ![s] = [status |-> "running", clean |-> TRUE, owed |-> file]]
    BY <1>2 DEF BeginImport
  <2> DEFINE q == [Idle EXCEPT !.pc = "file", !.file = file]
  <2>2. q.pc \notin Working /\ Become(s, q)
    BY <2>1 DEF Idle, Working
  <2>3. \A r \in run'[s].owed : r[2] = 0
    BY <1>0, <2>1, PaypalAssumption
  <2> HIDE DEF q
  <2> QED
    BY <1>0, <2>2, <2>3, NoRow
<1> QED
  BY <1>1, <1>2

\* A process at work that goes on with its run, and takes up nothing out of order.
LEMMA GoesOnHealed ==
  ASSUME Typed, Typed', Revised, Healed, NEW s \in Syncs, proc[s].pc # "idle", ~Replaced(s),
         NEW q, Become(s, q), UNCHANGED <<version, row, cut>>,
         run'[s].owed = run[s].owed, run'[s].clean => run[s].clean,
         q.pc \in Working => \/ proc[s].pc \in Working /\ q.rev = proc[s].rev
                             \/ q.rev[2] = 0 \/ q.rev[2] = version[Of(q.rev)]
  PROVE  Healed'
BY NoRow

LEMMA FetchHealed ==
  ASSUME Typed, Typed', Revised, Healed, NEW s \in Syncs, Fetch(s)
  PROVE  Healed'
<1>0. TypeOK /\ proc[s] \in Procs /\ run \in [Syncs -> SyncRuns]
  BY DEF Typed, TypeOK
<1>1. PICK w \in proc[s].windows :
        \/ \E p \in Payments : FetchRecord(s, w, p)
        \/ EndWindow(s, w) \/ SplitWindow(s, w) \/ GiveUp(s, w) \/ RefuseWindow(s, w) \/ RefuseRun(s, w)
  BY DEF Fetch
<1>2. proc[s].pc = "fetch" /\ ~Replaced(s)
  BY <1>1 DEF FetchRecord, EndWindow, SplitWindow, GiveUp, RefuseWindow, RefuseRun, Turn, At, Replaced
<1>3. ASSUME \/ UNCHANGED run
             \/ run' = [run EXCEPT ![s].clean = FALSE]
             \/ run' = [run EXCEPT ![s].status = "failed"]
      PROVE  run'[s].owed = run[s].owed /\ (run'[s].clean => run[s].clean)
  BY <1>0, <1>3 DEF SyncRuns
<1>4. ASSUME NEW p \in Payments, FetchRecord(s, w, p) PROVE Healed'
  <2> DEFINE q == [proc[s] EXCEPT !.seen = @ \cup {p}]
             u == [q EXCEPT !.pc = "look", !.rev = Latest(p)]
  <2>1. q.pc = "fetch" /\ u.rev = Latest(p)
    BY <1>0, <1>2 DEF Procs
  <2>2. (Become(s, q) \/ Become(s, u)) /\ UNCHANGED <<version, row, cut>>
    BY <1>4 DEF FetchRecord
  <2>3. UNCHANGED run \/ run' = [run EXCEPT ![s].clean = FALSE]
    BY <1>4 DEF FetchRecord
  <2>4. u.rev[2] = version[Of(u.rev)]
    BY <1>0, <2>1, LatestTyped
  <2> HIDE DEF q, u
  <2> QED
    BY <1>2, <1>3, <2>1, <2>2, <2>3, <2>4, GoesOnHealed DEF Working
<1>5. CASE EndWindow(s, w)
  <2> DEFINE q == [proc[s] EXCEPT !.windows = @ \ {w}, !.seen = {}]
  <2>1. q.pc = "fetch" /\ Become(s, q) /\ UNCHANGED <<version, row, run, cut>>
    BY <1>0, <1>2, <1>5 DEF EndWindow, Procs
  <2> HIDE DEF q
  <2> QED
    BY <1>2, <1>3, <2>1, GoesOnHealed DEF Working
<1>6. CASE SplitWindow(s, w)
  <2> DEFINE q == [proc[s] EXCEPT !.windows = (@ \ {w}) \cup Halves(w), !.seen = {}]
  <2>1. q.pc = "fetch"
    BY <1>0, <1>2 DEF Procs
  <2>2. Become(s, q) /\ UNCHANGED <<version, row, run, cut>>
    BY <1>6 DEF SplitWindow
  <2> HIDE DEF q
  <2> QED
    BY <1>2, <1>3, <2>1, <2>2, GoesOnHealed DEF Working
<1>7. CASE GiveUp(s, w)
  <2> DEFINE q == [proc[s] EXCEPT !.windows = @ \ {w}, !.seen = {}]
  <2>1. q.pc = "fetch"
    BY <1>0, <1>2 DEF Procs
  <2>2. Become(s, q) /\ UNCHANGED <<version, row, cut>> /\ run' = [run EXCEPT ![s].clean = FALSE]
    BY <1>7 DEF GiveUp
  <2> HIDE DEF q
  <2> QED
    BY <1>2, <1>3, <2>1, <2>2, GoesOnHealed DEF Working
<1>8. CASE RefuseWindow(s, w)
  <2> DEFINE q == [proc[s] EXCEPT !.windows = {v \in @ : v.top # w.top}, !.seen = {}, !.had = TRUE]
  <2>1. q.pc = "fetch"
    BY <1>0, <1>2 DEF Procs
  <2>2. Become(s, q) /\ UNCHANGED <<version, row, run, cut>>
    BY <1>8 DEF RefuseWindow
  <2> HIDE DEF q
  <2> QED
    BY <1>2, <1>3, <2>1, <2>2, GoesOnHealed DEF Working
<1>9. CASE RefuseRun(s, w)
  <2>1. Become(s, Idle) /\ UNCHANGED <<version, row, cut>> /\ run' = [run EXCEPT ![s].status = "failed"]
    BY <1>9 DEF RefuseRun, Finish
  <2>2. Idle.pc \notin Working
    BY DEF Idle, Working
  <2> QED
    BY <1>2, <1>3, <2>1, <2>2, GoesOnHealed
<1> QED
  BY <1>1, <1>4, <1>5, <1>6, <1>7, <1>8, <1>9

\* Every step, while there is one sync or import at a time.
LEMMA StepHealed ==
  ASSUME ~Overlap
  PROVE  Complete /\ Revised /\ Healed /\ [Next]_vars => Healed'
<1> SUFFICES ASSUME Complete, Revised, Healed, [Next]_vars PROVE Healed'
  OBVIOUS
<1>0. Typed /\ Typed' /\ TypeOK /\ \A s \in Syncs : proc[s] \in Procs /\ run[s] \in SyncRuns
  BY StepTyped DEF Complete, Typed, TypeOK
<1>1. ASSUME NEW s \in Syncs, EndSync(s) \/ EndImport(s) PROVE Healed'
  <2>1. PICK status : Finish(s, status) /\ UNCHANGED <<version, row, cut>>
    BY <1>1 DEF EndSync, EndImport
  <2>2. proc[s].pc # "idle" /\ ~Replaced(s)
    BY <1>1 DEF EndSync, EndImport, At, Replaced
  <2>3. run'[s].owed = run[s].owed /\ run'[s].clean = run[s].clean
    BY <1>0, <2>1 DEF Finish, TypeOK, SyncRuns
  <2> QED
    BY <1>0, <2>1, <2>2, <2>3, GoesOnHealed DEF Finish, Idle, Working
<1>2. ASSUME NEW s \in Syncs, NEW r \in Revisions, ReadLine(s, r) PROVE Healed'
  <2> DEFINE q == [proc[s] EXCEPT !.file = @ \ {r}]
             u == [q EXCEPT !.pc = "look", !.rev = r]
  <2>1. proc[s].pc = "file" /\ ~Replaced(s) /\ UNCHANGED <<version, row, cut>>
    BY <1>2 DEF ReadLine, At, Replaced
  <2>2. run'[s].owed = run[s].owed /\ (run'[s].clean => run[s].clean)
    BY <1>0, <1>2 DEF ReadLine, TypeOK, SyncRuns
  <2>3. q.pc = "file" /\ u.rev = r
    BY <1>0, <2>1 DEF Procs
  <2>4. Become(s, q) \/ Become(s, u)
    BY <1>2 DEF ReadLine
  <2>5. r[2] = 0
    BY <1>2, <2>1 DEF ReadLine, Complete, Part, Source, FromFile
  <2> HIDE DEF q, u
  <2> QED
    BY <1>0, <2>1, <2>2, <2>3, <2>4, <2>5, GoesOnHealed DEF Working
<1>3. ASSUME NEW s \in Syncs, LookUp(s) PROVE Healed'
  <2>1. proc[s].pc = "look" /\ ~Replaced(s) /\ UNCHANGED <<version, row, run, cut>>
    BY <1>3 DEF LookUp, At, Replaced
  <2> DEFINE q == [proc[s] EXCEPT !.pc = "prior"]
             d == Done(proc[s])
  <2>2. q.rev = proc[s].rev /\ d.pc \in {"file", "fetch"}
    BY <1>0, DoneTyped DEF Procs
  <2>3. Become(s, d) \/ Become(s, q)
    BY <1>3 DEF LookUp
  <2> HIDE DEF q, d
  <2> QED
    BY <1>0, <2>1, <2>2, <2>3, GoesOnHealed DEF Working
<1>4. ASSUME NEW s \in Syncs, ReadPrior(s) PROVE Healed'
  <2>1. proc[s].pc = "prior" /\ ~Replaced(s) /\ UNCHANGED <<version, row, run, cut>>
    BY <1>4 DEF ReadPrior, At, Replaced
  <2>2. PICK prior \in Revisions \cup {None} :
          LET newer == IncomingIsNewer(proc[s].rev, prior) IN
          Become(s, [proc[s] EXCEPT !.pc = IF prior # None /\ newer THEN "supersede" ELSE "create",
                                    !.prior = prior, !.newer = newer, !.carry = Carried(prior)])
    BY <1>4 DEF ReadPrior, CurrentOf
  <2> DEFINE newer == IncomingIsNewer(proc[s].rev, prior)
             q == [proc[s] EXCEPT !.pc = IF prior # None /\ newer THEN "supersede" ELSE "create",
                                  !.prior = prior, !.newer = newer, !.carry = Carried(prior)]
  <2>3. q.rev = proc[s].rev
    BY <1>0 DEF Procs
  <2>4. Become(s, q)
    BY <2>2
  <2> HIDE DEF q
  <2> QED
    BY <1>0, <2>1, <2>3, <2>4, GoesOnHealed DEF Working
<1>5. ASSUME NEW s \in Syncs, Stops(s) PROVE Healed'
  <2>1. CASE Replaced(s)
    BY <1>0, <1>5, <2>1, StopHealed
  <2>2. CASE ~Replaced(s)
    <3>1. /\ proc[s].pc # "idle" /\ UNCHANGED <<version, row, cut>> /\ run'[s].owed = run[s].owed
          /\ \E q \in Procs : Become(s, q) /\ q.pc \in {"idle", "file", "fetch"}
      BY <1>0, <1>5, <2>2, StopsParts DEF Loses
    <3>2. run'[s].clean => run[s].clean
      BY <1>0, <1>5 DEF Stops, Crash, StatementFails, Counted, TypeOK, SyncRuns
    <3> QED
      BY <1>0, <2>2, <3>1, <3>2, GoesOnHealed DEF Working
  <2> QED
    BY <2>1, <2>2
<1>6. ASSUME \/ \E r \in Revisions, e \in Events : Assign(r, e)
             \/ \E p \in Payments : Report(p)
             \/ UNCHANGED vars
      PROVE  Healed'
  <2>1. UNCHANGED <<proc, run, cut>>
    BY <1>6 DEF Assign, Report, vars
  <2>2. \A p \in Payments : version[p] <= version'[p]
    BY <1>0, <1>6 DEF Assign, Report, vars, TypeOK
  <2>3. \A q \in Revisions : (Stored(q)' <=> Stored(q)) /\ (Current(q)' <=> Current(q))
    <3>1. CASE row' = row
      BY <3>1 DEF Stored, Current
    <3>2. ASSUME NEW r \in Revisions, NEW e \in Events, Assign(r, e)
          PROVE  \A q \in Revisions : (Stored(q)' <=> Stored(q)) /\ (Current(q)' <=> Current(q))
      <4>1. row' = [row EXCEPT ![r] = [row[r] EXCEPT !.hand = e]] /\ row[r] \in Rows /\ Stored(r)
        BY <1>0, <3>2, RowTyped DEF Assign
      <4>2. row'[r] \in Rows /\ row'[r].current = row[r].current
        BY <1>0, <4>1 DEF Rows, TypeOK
      <4> QED
        BY <1>0, <4>1, <4>2, NoSuchRow DEF Stored, Current, TypeOK
    <3> QED
      BY <1>6, <3>1, <3>2 DEF Report, vars
  <2>4. \A p \in Payments : Shown(p) => Shown(p)'
    BY <2>1, <2>3 DEF Shown, CurrentOf, BeingReplaced, Replaced, At
  <2> QED
    BY <1>0, <2>1, <2>2, <2>3, <2>4, NothingStored
<1>7. ASSUME NEW s \in Syncs, BeginSync(s) \/ BeginImport(s) PROVE Healed'
  BY <1>0, <1>7, BeginHealed
<1>8. ASSUME NEW s \in Syncs, Fetch(s) PROVE Healed'
  BY <1>0, <1>8, FetchHealed
<1>9. ASSUME NEW s \in Syncs, Supersede(s) \/ Create(s) PROVE Healed'
  BY <1>0, <1>9, SupersedeHealed, CreateHealed
<1> QED
  BY <1>1, <1>2, <1>3, <1>4, <1>5, <1>6, <1>7, <1>8, <1>9 DEF Next, Upsert, Stops

\* Only the end of a sync or of an import makes a success.
LEMMA EndsOnly ==
  ASSUME Typed, Typed', [Next]_vars, NEW s \in Syncs,
         run[s].status = "running", run'[s].status = "success"
  PROVE  EndSync(s) \/ EndImport(s)
<1>0. run \in [Syncs -> SyncRuns]
  BY DEF Typed, TypeOK
<1>1. ASSUME NEW t \in Syncs, NEW o, run' = [run EXCEPT ![t] = [status |-> "running", clean |-> TRUE, owed |-> o]]
      PROVE  FALSE
  BY <1>0, <1>1
<1>2. ASSUME NEW t \in Syncs, run' = [run EXCEPT ![t].clean = FALSE] PROVE FALSE
  BY <1>0, <1>2 DEF SyncRuns
<1>3. ASSUME NEW t \in Syncs, run' = [run EXCEPT ![t].status = "failed"] PROVE FALSE
  BY <1>0, <1>3 DEF SyncRuns
<1>4. ASSUME NEW t \in Syncs, NEW status, run' = [run EXCEPT ![t].status = status] PROVE s = t
  BY <1>0, <1>4 DEF SyncRuns
<1>5. run' # run
  OBVIOUS
<1>6. ASSUME NEW t \in Syncs, BeginSync(t) \/ BeginImport(t) PROVE FALSE
  BY <1>1, <1>6 DEF BeginSync, BeginImport
<1>7. ASSUME NEW t \in Syncs, Fetch(t) PROVE FALSE
  <2>1. UNCHANGED run \/ run' = [run EXCEPT ![t].clean = FALSE] \/ run' = [run EXCEPT ![t].status = "failed"]
    BY <1>7 DEF Fetch, FetchRecord, EndWindow, SplitWindow, GiveUp, RefuseWindow, RefuseRun, Finish
  <2> QED
    BY <1>2, <1>3, <1>5, <2>1
<1>8. ASSUME NEW t \in Syncs, EndSync(t) \/ EndImport(t) PROVE s = t
  BY <1>4, <1>8 DEF EndSync, EndImport, Finish
<1>9. ASSUME NEW t \in Syncs, (\E r \in Revisions : ReadLine(t, r)) \/ Upsert(t) \/ Crash(t) PROVE FALSE
  <2>1. UNCHANGED run \/ run' = [run EXCEPT ![t].clean = FALSE]
    BY <1>9 DEF ReadLine, Upsert, LookUp, ReadPrior, Supersede, Create, StatementFails, Counted, Crash
  <2> QED
    BY <1>2, <1>5, <2>1
<1>10. ASSUME \/ \E r \in Revisions, e \in Events : Assign(r, e)
              \/ \E p \in Payments : Report(p)
              \/ UNCHANGED vars
       PROVE  FALSE
  BY <1>5, <1>10 DEF Assign, Report, vars
<1> QED
  BY <1>6, <1>7, <1>8, <1>9, <1>10 DEF Next

\* What a run that ends as a success has brought, and from where.
LEMMA EndGot ==
  ASSUME Complete, NEW s \in Syncs, EndSync(s) \/ EndImport(s),
         run'[s].status = "success", run[s].clean
  PROVE  /\ proc[s].pc \in {"fetch", "file"} /\ UNCHANGED <<row, cut>>
         /\ \A r \in run[s].owed : Got(r)
<1>1. CASE EndSync(s)
  <2>1. proc[s].pc = "fetch" /\ proc[s].windows = {} /\ proc[s].file = {}
    BY <1>1, AtFetch DEF EndSync, At
  <2>2. ~proc[s].had
    <3>1. run'[s].status = IF proc[s].had THEN "partial" ELSE "success"
      BY <1>1 DEF EndSync, Finish, Complete, Typed, TypeOK, SyncRuns
    <3> QED
      BY <3>1
  <2>3. \A r \in run[s].owed : Got(r)
    BY <2>1, <2>2 DEF Complete, Part, Cover, AtHand, Ahead, Working
  <2> QED
    BY <1>1, <2>1, <2>3 DEF EndSync
<1>2. CASE EndImport(s)
  <2>1. proc[s].pc = "file" /\ proc[s].windows = {} /\ proc[s].file = {} /\ ~proc[s].had
    BY <1>2 DEF EndImport, At, Complete, Part, Source, FromFile
  <2>2. \A r \in run[s].owed : Got(r)
    BY <2>1 DEF Complete, Part, Cover, AtHand, Ahead, Working
  <2> QED
    BY <1>2, <2>1, <2>2 DEF EndImport
<1> QED
  BY <1>1, <1>2

\* With one sync or import at a time, a payment whose insert failed or was never reached after
\* its update has a current row again once a run of the same source that owed it ends as a
\* success without counting an error - for any spans, files, dates and split steps, and
\* however often statements fail and runs die.
THEOREM SuccessHealsWhenSerial ==
  ASSUME ~Overlap
  PROVE  Spec => SuccessHeals
<1>1. Complete /\ Revised /\ Healed /\ [Next]_vars => [Heals]_vars
  <2> SUFFICES ASSUME Complete, Typed', Revised, Healed, [Next]_vars, NEW s \in Syncs,
                      run[s].status = "running", run'[s].status = "success", run[s].clean,
                      NEW r \in run[s].owed, cut[Of(r)] = None \/ SameSource(cut[Of(r)], r)
               PROVE  CurrentOf(Of(r)) # {}
    BY StepTyped DEF Heals, Complete
  <2>0. /\ TypeOK /\ run[s] \in SyncRuns /\ r \in Revisions /\ Of(r) \in Payments
        /\ EndSync(s) \/ EndImport(s)
    BY EndsOnly, RevisionParts DEF Complete, Typed, TypeOK, SyncRuns
  <2>1. proc[s].pc \in {"fetch", "file"} /\ \A o \in run[s].owed : Got(o)
    BY <2>0, EndGot
  <2>2. PICK q \in Revisions : Of(q) = Of(r) /\ q[2] >= r[2] /\ SameSource(q, r) /\ Stored(q)
    BY <2>1 DEF Got
  <2>3. ~BeingReplaced(Of(r))
    BY <2>1 DEF BeingReplaced, Replaced, At, Revised, Alone
  <2>4. CASE cut[Of(r)] = None
    BY <2>2, <2>3, <2>4 DEF Revised, OneCurrent, BeingReplaced
  <2>5. CASE cut[Of(r)] # None
    <3>1. PICK c \in Revisions : c = cut[Of(r)] /\ Of(c) = Of(r)
      BY <2>0, <2>5 DEF Healed, CutKnown
    <3>2. c[2] \in Nat /\ q[2] \in Nat /\ r[2] \in Nat /\ c = <<Of(c), c[2]>> /\ q = <<Of(q), q[2]>>
      BY <2>0, RevisionParts
    <3>3. c[2] = 0 <=> r[2] = 0
      BY <2>5, <3>1 DEF SameSource
    <3>4. ~Missing(Of(r))
      <4>1. CASE c[2] = 0
        <5>1. q = c
          BY <2>2, <3>1, <3>2, <3>3, <4>1 DEF SameSource
        <5> QED
          BY <2>2, <3>1, <5>1 DEF Missing
      <4>2. CASE c[2] # 0
        <5>1. c[2] <= r[2]
          BY <2>0, <2>1, <2>5, <3>1, <3>2, <3>3, <4>2 DEF Healed, OwedLater
        <5> QED
          BY <2>2, <3>1, <3>2, <4>2, <5>1 DEF Missing
      <4> QED
        BY <4>1, <4>2
    <3> QED
      BY <2>0, <2>3, <2>5, <3>4 DEF Healed, Healing, Shown
  <2> QED
    BY <2>4, <2>5
<1>2. Complete /\ Revised /\ Healed /\ [Next]_vars => Healed'
  BY StepHealed
<1> QED
  BY <1>1, <1>2, InitHealed, AlwaysCovered, AlwaysRevised, PTL DEF Spec, SuccessHeals

(***************************************************************************)
(* An upsert is one step of PaymentBook, with one sync or import at a      *)
(* time.  The step is the insert; the look at the prior revision and its   *)
(* update change nothing of the book.                                      *)
(***************************************************************************)

\* What an upsert that makes a revision give way knows of its row.
Standing(s) ==
  /\ At(s, "supersede") => /\ Current(proc[s].prior)
                           /\ row[proc[s].prior].hand = None => proc[s].carry = None
  /\ At(s, "create") /\ proc[s].prior = None => proc[s].carry = None
Booked == \A s \in Syncs : Standing(s)

Writing == {"supersede", "create"}

LEMMA NoMapping ==
  ASSUME NEW s \in Syncs, proc[s].pc \notin Writing
  PROVE  Standing(s) /\ \A r : ~MakesWay(s, r)
BY DEF Writing, Standing, MakesWay, Replaced, At

\* The event of a revision in the book.
LEMMA EventOf ==
  ASSUME Alone, NEW r
  PROVE  /\ \A s \in Syncs : MakesWay(s, r) => BookEvent(r) = proc[s].carry
         /\ (\A s \in Syncs : ~MakesWay(s, r)) => BookEvent(r) = row[r].hand
<1>1. \A s, t \in Syncs : MakesWay(s, r) /\ MakesWay(t, r) => s = t
  BY DEF Alone, MakesWay, Replaced, At
<1> QED
  BY <1>1 DEF BookEvent

LEMMA EventOfNext ==
  ASSUME Alone', NEW r
  PROVE  /\ \A s \in Syncs : MakesWay(s, r)' => BookEvent(r)' = proc'[s].carry
         /\ (\A s \in Syncs : ~MakesWay(s, r)') => BookEvent(r)' = row'[r].hand
<1>1. \A s, t \in Syncs : MakesWay(s, r)' /\ MakesWay(t, r)' => s = t
  BY DEF Alone, MakesWay, Replaced, At
<1> QED
  BY <1>1 DEF BookEvent

BookOf == [r \in BookShown |-> BookEvent(r)]
StoredSet == {r \in Revisions : Stored(r)}

\* The book stands when it names the same revisions with the same events.
LEMMA BookStands ==
  ASSUME \A r \in Revisions : Stored(r)' <=> Stored(r),
         \A r \in Revisions : r \in BookShown' <=> r \in BookShown,
         \A r \in BookShown : BookEvent(r)' = BookEvent(r)
  PROVE  UNCHANGED Book!book
<1>1. StoredSet' = StoredSet
  BY DEF StoredSet
<1>2. BookShown' = BookShown
  BY DEF BookShown
<1>3. BookOf' = BookOf
  BY <1>2 DEF BookOf
<1> QED
  BY <1>1, <1>3 DEF Book!book, StoredSet, BookOf

\* Everything but the three statements of an upsert, a death and an assignment.
LEMMA Elsewhere ==
  ASSUME Typed, Typed', NEW s \in Syncs,
         \/ BeginSync(s) \/ BeginImport(s) \/ Fetch(s) \/ EndSync(s) \/ EndImport(s)
         \/ (\E r \in Revisions : ReadLine(s, r)) \/ LookUp(s)
  PROVE  /\ UNCHANGED row /\ \A t \in Syncs : t # s => proc'[t] = proc[t]
         /\ proc[s].pc \notin Writing /\ proc'[s].pc \notin Writing
<1>0. proc \in [Syncs -> Procs] /\ proc[s] \in Procs
  BY DEF Typed, TypeOK
<1>1. ASSUME NEW q, Become(s, q), q.pc \notin Writing, UNCHANGED row, proc[s].pc \notin Writing
      PROVE  /\ UNCHANGED row /\ \A t \in Syncs : t # s => proc'[t] = proc[t]
             /\ proc[s].pc \notin Writing /\ proc'[s].pc \notin Writing
  BY <1>0, <1>1 DEF Become
<1>2. CASE BeginSync(s)
  <2>1. PICK span \in Spans : Become(s, [Idle EXCEPT !.pc = "fetch", !.windows = Tops(span)])
    BY <1>2 DEF BeginSync
  <2>2. proc[s].pc = "idle" /\ UNCHANGED row
    BY <1>2 DEF BeginSync, MayBegin, At
  <2>3. [Idle EXCEPT !.pc = "fetch", !.windows = Tops(span)].pc = "fetch"
    BY DEF Idle
  <2> QED
    BY <1>1, <2>1, <2>2, <2>3 DEF Writing
<1>3. CASE BeginImport(s)
  <2>1. PICK file \in Files : Become(s, [Idle EXCEPT !.pc = "file", !.file = file])
    BY <1>3 DEF BeginImport
  <2>2. proc[s].pc = "idle" /\ UNCHANGED row
    BY <1>3 DEF BeginImport, MayBegin, At
  <2>3. [Idle EXCEPT !.pc = "file", !.file = file].pc = "file"
    BY DEF Idle
  <2> QED
    BY <1>1, <2>1, <2>2, <2>3 DEF Writing
<1>4. CASE Fetch(s)
  <2>1. PICK w \in proc[s].windows :
          \/ \E p \in Payments : FetchRecord(s, w, p)
          \/ EndWindow(s, w) \/ SplitWindow(s, w) \/ GiveUp(s, w) \/ RefuseWindow(s, w) \/ RefuseRun(s, w)
    BY <1>4 DEF Fetch
  <2>2. proc[s].pc = "fetch" /\ UNCHANGED row
    BY <2>1 DEF FetchRecord, EndWindow, SplitWindow, GiveUp, RefuseWindow, RefuseRun, Turn, At
  <2>3. ASSUME NEW p \in Payments, FetchRecord(s, w, p)
        PROVE  \E q : Become(s, q) /\ q.pc \notin Writing
    <3> DEFINE q == [proc[s] EXCEPT !.seen = @ \cup {p}]
               u == [q EXCEPT !.pc = "look", !.rev = Latest(p)]
    <3>1. q.pc = "fetch" /\ u.pc = "look"
      BY <1>0, <2>2 DEF Procs
    <3>2. Become(s, q) \/ Become(s, u)
      BY <2>3 DEF FetchRecord
    <3> HIDE DEF q, u
    <3> QED
      BY <3>1, <3>2 DEF Writing
  <2>4. ASSUME EndWindow(s, w) \/ SplitWindow(s, w) \/ GiveUp(s, w) \/ RefuseWindow(s, w)
        PROVE  \E q : Become(s, q) /\ q.pc \notin Writing
    <3>1. PICK ws, had : Become(s, [proc[s] EXCEPT !.windows = ws, !.seen = {}])
                         \/ Become(s, [proc[s] EXCEPT !.windows = ws, !.seen = {}, !.had = had])
      BY <2>4 DEF EndWindow, SplitWindow, GiveUp, RefuseWindow
    <3>2. /\ [proc[s] EXCEPT !.windows = ws, !.seen = {}].pc = "fetch"
          /\ [proc[s] EXCEPT !.windows = ws, !.seen = {}, !.had = had].pc = "fetch"
      BY <1>0, <2>2 DEF Procs
    <3> QED
      BY <3>1, <3>2 DEF Writing
  <2>5. CASE RefuseRun(s, w)
    BY <1>1, <2>2, <2>5 DEF RefuseRun, Finish, Idle, Writing
  <2> QED
    BY <1>1, <2>1, <2>2, <2>3, <2>4, <2>5 DEF Writing
<1>5. CASE EndSync(s) \/ EndImport(s)
  <2>1. proc[s].pc \in {"fetch", "file"} /\ Become(s, Idle) /\ UNCHANGED row
    BY <1>5 DEF EndSync, EndImport, Finish, At
  <2> QED
    BY <1>1, <2>1 DEF Idle, Writing
<1>6. ASSUME NEW r \in Revisions, ReadLine(s, r)
      PROVE  /\ UNCHANGED row /\ \A t \in Syncs : t # s => proc'[t] = proc[t]
             /\ proc[s].pc \notin Writing /\ proc'[s].pc \notin Writing
  <2> DEFINE q == [proc[s] EXCEPT !.file = @ \ {r}]
             u == [q EXCEPT !.pc = "look", !.rev = r]
  <2>1. proc[s].pc = "file" /\ UNCHANGED row
    BY <1>6 DEF ReadLine, At
  <2>2. q.pc = "file" /\ u.pc = "look"
    BY <1>0, <2>1 DEF Procs
  <2>3. Become(s, q) \/ Become(s, u)
    BY <1>6 DEF ReadLine
  <2> HIDE DEF q, u
  <2> QED
    BY <1>1, <2>1, <2>2, <2>3 DEF Writing
<1>7. CASE LookUp(s)
  <2> DEFINE q == [proc[s] EXCEPT !.pc = "prior"]
             u == Done(proc[s])
  <2>1. proc[s].pc = "look" /\ UNCHANGED row
    BY <1>7 DEF LookUp, At
  <2>2. q.pc = "prior" /\ u.pc \in {"file", "fetch"}
    BY <1>0, DoneTyped DEF Procs
  <2>3. Become(s, q) \/ Become(s, u)
    BY <1>7 DEF LookUp
  <2> HIDE DEF q, u
  <2> QED
    BY <1>1, <2>1, <2>2, <2>3 DEF Writing
<1> QED
  BY <1>2, <1>3, <1>4, <1>5, <1>6, <1>7

LEMMA ElsewhereBook ==
  ASSUME Typed, Typed', Revised, Revised', Booked, NEW s \in Syncs,
         UNCHANGED row, \A t \in Syncs : t # s => proc'[t] = proc[t],
         proc[s].pc \notin Writing, proc'[s].pc \notin Writing
  PROVE  Booked' /\ UNCHANGED Book!book
<1>1. \A r : (Stored(r)' <=> Stored(r)) /\ (Current(r)' <=> Current(r))
  BY DEF Stored, Current
<1>2. \A r : \A t \in Syncs : (MakesWay(t, r)' <=> MakesWay(t, r)) /\ (MakesWay(t, r) => proc'[t] = proc[t])
  BY DEF MakesWay, Replaced, At, Writing
<1>3. \A r \in Revisions : r \in BookShown' <=> r \in BookShown
  BY <1>1, <1>2 DEF BookShown
<1>4. \A r \in BookShown : BookEvent(r)' = BookEvent(r)
  BY <1>2, EventOf, EventOfNext DEF Revised
<1>5. Booked'
  BY <1>1 DEF Booked, Standing, At, Writing
<1> QED
  BY <1>1, <1>3, <1>4, <1>5, BookStands

LEMMA PriorBook ==
  ASSUME Typed, Typed', Revised, Revised', Booked, NEW s \in Syncs, ReadPrior(s)
  PROVE  Booked' /\ UNCHANGED Book!book
<1> DEFINE cs == CurrentOf(Of(proc[s].rev))
<1>0. /\ proc \in [Syncs -> Procs] /\ proc[s] \in Procs /\ proc[s].pc = "prior" /\ UNCHANGED row
  BY DEF Typed, TypeOK, ReadPrior, At
<1>1. PICK prior \in IF cs = {} THEN {None} ELSE {c \in cs : IsLatest(c, cs)} :
        Become(s, [proc[s] EXCEPT !.pc = IF prior # None /\ IncomingIsNewer(proc[s].rev, prior)
                                           THEN "supersede" ELSE "create",
                                  !.prior = prior, !.newer = IncomingIsNewer(proc[s].rev, prior),
                                  !.carry = Carried(prior)])
  BY DEF ReadPrior
<1>2. /\ proc'[s].pc = (IF prior # None /\ IncomingIsNewer(proc[s].rev, prior) THEN "supersede" ELSE "create")
      /\ proc'[s].prior = prior /\ proc'[s].carry = Carried(prior)
      /\ proc'[s].newer = IncomingIsNewer(proc[s].rev, prior)
      /\ \A t \in Syncs : t # s => proc'[t] = proc[t]
  BY <1>0, <1>1 DEF Become, Procs
<1>3. \A t \in Syncs : t # s => proc[t].pc = "idle"
  BY <1>0 DEF Revised, Alone
<1>4. \A r : (Stored(r)' <=> Stored(r)) /\ (Current(r)' <=> Current(r))
  BY <1>0 DEF Stored, Current
<1>5. prior # None => Current(prior) /\ prior \in Revisions /\ Carried(prior) = row[prior].hand
  BY <1>1 DEF CurrentOf, Carried
<1>6. prior = None => Carried(prior) = None
  BY DEF Carried
<1>7. \A t \in Syncs, r \in Revisions :
        /\ ~MakesWay(t, r)
        /\ MakesWay(t, r)' => t = s /\ r = prior /\ prior # None
  <2>1. \A t \in Syncs, r \in Revisions : ~MakesWay(t, r)
    BY <1>0, <1>3 DEF MakesWay, Replaced, At
  <2>2. \A t \in Syncs, r \in Revisions : MakesWay(t, r)' => t = s
    BY <1>2, <1>3 DEF MakesWay, Replaced, At
  <2>3. \A r \in Revisions : MakesWay(s, r)' => r = prior /\ prior # None
    BY <1>2, PaypalAssumption DEF MakesWay, Replaced, At
  <2> QED
    BY <2>1, <2>2, <2>3
<1>8. \A r \in Revisions : r \in BookShown' <=> r \in BookShown
  BY <1>4, <1>5, <1>7 DEF BookShown
<1>9. \A r \in BookShown : BookEvent(r)' = BookEvent(r)
  <2> SUFFICES ASSUME NEW r \in BookShown PROVE BookEvent(r)' = BookEvent(r)
    OBVIOUS
  <2>1. r \in Revisions /\ BookEvent(r) = row[r].hand
    BY <1>7, EventOf DEF BookShown, Revised
  <2>2. CASE MakesWay(s, r)'
    BY <1>2, <1>5, <1>7, <2>1, <2>2, EventOfNext DEF Revised
  <2>3. CASE ~MakesWay(s, r)'
    BY <1>0, <1>7, <2>1, <2>3, EventOfNext DEF Revised
  <2> QED
    BY <2>2, <2>3
<1>10. Booked'
  <2>1. Standing(s)'
    BY <1>0, <1>2, <1>4, <1>5, <1>6 DEF Standing, At
  <2>2. \A t \in Syncs : t # s => Standing(t)'
    BY <1>2, <1>3 DEF Standing, At
  <2> QED
    BY <2>1, <2>2 DEF Booked
<1> QED
  BY <1>4, <1>8, <1>9, <1>10, BookStands

LEMMA SupersedeBook ==
  ASSUME Typed, Typed', Revised, Revised', Booked, NEW s \in Syncs, Supersede(s)
  PROVE  Booked' /\ UNCHANGED Book!book
<1>0. /\ proc \in [Syncs -> Procs] /\ proc[s] \in Procs /\ proc[s].pc = "supersede"
      /\ proc[s].prior # None /\ proc[s].newer /\ row \in [Revisions -> Rows \cup {None}]
      /\ proc[s].prior \in Revisions /\ Of(proc[s].prior) = Of(proc[s].rev)
  BY DEF Typed, TypeOK, Supersede, At, Procs, Revised, Locals
<1>1. /\ proc'[s].pc = "create" /\ proc'[s].prior = proc[s].prior
      /\ proc'[s].carry = proc[s].carry /\ proc'[s].newer = proc[s].newer
      /\ \A t \in Syncs : t # s => proc'[t] = proc[t]
  BY <1>0 DEF Supersede, Become, Procs
<1>2. \A t \in Syncs : t # s => proc[t].pc = "idle"
  BY <1>0 DEF Revised, Alone
<1>p. PICK prior \in Revisions : prior = proc[s].prior
  BY <1>0
<1>3. Current(prior) /\ \A r \in Revisions : Current(r) /\ Of(r) = Of(prior) => r = prior
  BY <1>0, <1>p DEF Booked, Standing, At, Revised, OneCurrent
<1>4. CurrentOf(Of(proc[s].rev)) = {prior}
  BY <1>0, <1>p, <1>3 DEF CurrentOf
<1>5. row' = [r \in Revisions |-> IF r \in {prior} THEN [row[r] EXCEPT !.current = FALSE] ELSE row[r]]
  BY <1>4 DEF Supersede
<1>6. row'[prior] \in Rows /\ ~row'[prior].current /\ \A r \in Revisions : r # prior => row'[r] = row[r]
  BY <1>0, <1>3, <1>5 DEF Current, Stored, Rows
<1>7. \A r \in Revisions : (Stored(r)' <=> Stored(r)) /\ (Current(r)' <=> Current(r) /\ r # prior)
  BY <1>3, <1>6, NoSuchRow DEF Current, Stored
<1>8. \A t \in Syncs, r \in Revisions :
        /\ MakesWay(t, r) <=> t = s /\ r = prior
        /\ MakesWay(t, r)' <=> t = s /\ r = prior
  BY <1>0, <1>1, <1>2, <1>p DEF MakesWay, Replaced, At
<1>9. \A r \in Revisions : r \in BookShown' <=> r \in BookShown
  BY <1>7, <1>8 DEF BookShown
<1>10. \A r \in BookShown : BookEvent(r)' = BookEvent(r)
  <2> SUFFICES ASSUME NEW r \in BookShown PROVE BookEvent(r)' = BookEvent(r)
    OBVIOUS
  <2>0. r \in Revisions
    BY DEF BookShown
  <2>1. CASE r = prior
    BY <1>1, <1>8, <2>1, EventOf, EventOfNext DEF Revised
  <2>2. CASE r # prior
    BY <1>6, <1>8, <2>0, <2>2, EventOf, EventOfNext DEF Revised
  <2> QED
    BY <2>1, <2>2
<1>11. Booked'
  BY <1>0, <1>1, <1>2 DEF Booked, Standing, At
<1> QED
  BY <1>7, <1>9, <1>10, <1>11, BookStands

\* The insert is the step of the book.
LEMMA CreateBook ==
  ASSUME Typed, Typed', Revised, Revised', Booked, NEW s \in Syncs, Create(s)
  PROVE  Booked' /\ \E r \in Revisions \ StoredSet : Book!Store(r)
<1>0. /\ TypeOK /\ proc[s] \in Procs /\ proc[s].pc = "create" /\ Become(s, Done(proc[s]))
      /\ proc[s].rev \in Revisions /\ Of(proc[s].rev) \in Payments /\ ~Stored(proc[s].rev)
      /\ Locals(s) /\ row \in [Revisions -> Rows \cup {None}]
  BY RevisionParts DEF Typed, TypeOK, HasRecord, Create, At, Working, Revised, Locals
<1>r. PICK r \in Revisions : r = proc[s].rev
  BY <1>0
<1>1. /\ proc'[s].pc \in {"file", "fetch"} /\ \A t \in Syncs : t # s => proc'[t] = proc[t]
  BY <1>0, DoneTyped, Becomes
<1>2. \A t \in Syncs : t # s => proc[t].pc = "idle"
  BY <1>0 DEF Revised, Alone
<1>3. row' = [row EXCEPT ![r] = NewRow(s)]
  BY <1>0, <1>r DEF Create
<1>4. /\ NewRow(s) \in Rows /\ NewRow(s).current = proc[s].newer /\ NewRow(s).hand = proc[s].carry
      /\ proc[s].newer \in BOOLEAN
  BY <1>0 DEF NewRow, Rows, Procs
<1>5. row'[r] = NewRow(s) /\ \A q \in Revisions : q # r => row'[q] = row[q]
  BY <1>0, <1>3
<1>6. /\ Stored(r)' /\ ~Stored(r) /\ ~Current(r) /\ (Current(r)' <=> proc[s].newer)
      /\ \A q \in Revisions : q # r => (Stored(q)' <=> Stored(q)) /\ (Current(q)' <=> Current(q))
  BY <1>0, <1>r, <1>4, <1>5, NoSuchRow DEF Stored, Current
<1>7. /\ proc[s].newer <=> IncomingIsNewer(r, proc[s].prior)
      /\ proc[s].prior # None => /\ proc[s].prior \in Revisions /\ Stored(proc[s].prior)
                                 /\ Of(proc[s].prior) = Of(r)
      /\ IF proc[s].newer THEN CurrentOf(Of(r)) = {} ELSE Current(proc[s].prior)
  BY <1>0, <1>r DEF Locals, Procs
<1>8. \A t \in Syncs, q \in Revisions :
        /\ MakesWay(t, q) <=> t = s /\ q = proc[s].prior /\ proc[s].prior # None /\ proc[s].newer
        /\ ~MakesWay(t, q)'
  BY <1>0, <1>1, <1>2 DEF MakesWay, Replaced, At
<1>9. Booked'
  BY <1>1, <1>2 DEF Booked, Standing, At
<1>10. StoredSet' = StoredSet \cup {r} /\ r \notin StoredSet
  BY <1>6 DEF StoredSet
<1>11. BookShown' = {q \in Revisions : Current(q)'}
  BY <1>8 DEF BookShown
<1>12. \A q \in BookShown' : BookEvent(q)' = row'[q].hand
  BY <1>8, <1>11, EventOfNext DEF Revised
<1>13. \A q \in BookShown : ~MakesWay(s, q) => BookEvent(q) = row[q].hand
  BY <1>8, EventOf DEF Revised, BookShown
<1>14. r \notin BookShown
  BY <1>6, <1>7, <1>8 DEF BookShown
<1>15. CASE proc[s].newer /\ proc[s].prior # None
  <2>p. PICK prior \in Revisions : prior = proc[s].prior
    BY <1>7, <1>15
  <2>1. MakesWay(s, prior) /\ prior \in BookShown /\ BookEvent(prior) = proc[s].carry /\ Of(prior) = Of(r)
    BY <1>7, <1>8, <1>15, <2>p, EventOf DEF BookShown, Revised
  <2>2. ~Current(prior)
    BY <1>7, <1>15, <2>p DEF CurrentOf
  <2>3. BookShown' = (BookShown \ {prior}) \cup {r}
    BY <1>6, <1>8, <1>11, <1>14, <1>15, <2>p, <2>2 DEF BookShown
  <2>4. \A q \in BookShown' : BookEvent(q)' = IF q = r THEN BookOf[prior] ELSE BookOf[q]
    BY <1>4, <1>5, <1>8, <1>11, <1>12, <1>13, <2>p, <2>1, <2>3 DEF BookOf
  <2>5. BookOf' = [x \in (DOMAIN BookOf \ {prior}) \cup {r} |-> IF x = r THEN BookOf[prior] ELSE BookOf[x]]
    BY <2>3, <2>4 DEF BookOf
  <2>6. ~Book!Older(r, prior)
    <3>1. Date[prior] = None \/ Date[r] = None \/ Date[r] >= Date[prior]
      BY <1>7, <1>15, <2>p DEF IncomingIsNewer
    <3>2. Date[prior] \in Nat \cup {None} /\ Date[r] \in Nat \cup {None}
      BY PaypalAssumption
    <3> QED
      BY <3>1, <3>2 DEF Book!Older
  <2>7. Book!Replace(r, prior)
    BY <2>1, <2>5, <2>6 DEF Book!Replace, Book!Rival, BookOf
  <2>8. Book!Store(r)
    BY <1>10, <2>7 DEF Book!Store, StoredSet
  <2> QED
    BY <1>9, <1>10, <2>8
<1>16. CASE proc[s].newer /\ proc[s].prior = None
  <2>1. \A q \in BookShown : Current(q) /\ Of(q) # Of(r)
    BY <1>7, <1>8, <1>16 DEF BookShown, CurrentOf
  <2>2. BookShown' = BookShown \cup {r}
    BY <1>6, <1>8, <1>11, <1>16 DEF BookShown
  <2>3. proc[s].carry = None
    BY <1>0, <1>16 DEF Booked, Standing, At
  <2>4. \A q \in BookShown' : BookEvent(q)' = IF q = r THEN None ELSE BookOf[q]
    BY <1>4, <1>5, <1>8, <1>11, <1>12, <1>13, <1>16, <2>2, <2>3 DEF BookOf
  <2>5. BookOf' = [x \in DOMAIN BookOf \cup {r} |-> IF x = r THEN None ELSE BookOf[x]]
    BY <2>2, <2>4 DEF BookOf
  <2>6. Book!Enter(r)
    BY <2>1, <2>5 DEF Book!Enter, Book!Rival, BookOf
  <2>7. Book!Store(r)
    BY <1>10, <2>6 DEF Book!Store, StoredSet
  <2> QED
    BY <1>9, <1>10, <2>7
<1>17. CASE ~proc[s].newer
  <2>1. /\ proc[s].prior # None /\ Date[proc[s].prior] # None /\ Date[r] # None
        /\ ~(Date[r] >= Date[proc[s].prior])
    BY <1>7, <1>17 DEF IncomingIsNewer
  <2>p. PICK prior \in Revisions : prior = proc[s].prior
    BY <1>7, <2>1
  <2>2. prior \in BookShown /\ Of(prior) = Of(r)
    BY <1>7, <1>17, <2>1, <2>p DEF BookShown
  <2>3. Date[prior] \in Nat /\ Date[r] \in Nat
    BY <2>1, <2>p, PaypalAssumption
  <2>4. Book!Older(r, prior)
    BY <2>1, <2>p, <2>3 DEF Book!Older
  <2>5. BookShown' = BookShown
    BY <1>6, <1>8, <1>11, <1>17 DEF BookShown
  <2>6. \A q \in BookShown' : BookEvent(q)' = BookEvent(q)
    BY <1>5, <1>8, <1>11, <1>12, <1>13, <1>14, <1>17, <2>5
  <2>7. BookOf' = BookOf
    BY <2>5, <2>6 DEF BookOf
  <2>8. Book!Keep(r, prior)
    BY <2>2, <2>4, <2>7 DEF Book!Keep, Book!Rival, BookOf
  <2>9. Book!Store(r)
    BY <1>10, <2>8 DEF Book!Store, StoredSet
  <2> QED
    BY <1>9, <1>10, <2>9
<1> QED
  BY <1>4, <1>15, <1>16, <1>17

\* A failure or a death after the update takes the payment out of the book; one before it may
\* show at last what somebody assigned meanwhile.
LEMMA StopBook ==
  ASSUME Typed, Typed', Revised, Revised', Booked, NEW s \in Syncs, Stops(s)
  PROVE  Booked' /\ [Book!BookNext]_(Book!book)
<1>0. /\ TypeOK /\ proc[s] \in Procs /\ proc[s].pc # "idle" /\ UNCHANGED row
      /\ row \in [Revisions -> Rows \cup {None}] /\ Faults
      /\ \E q \in Procs : Become(s, q) /\ q.pc \in {"idle", "file", "fetch"}
  BY StopsParts DEF Typed, TypeOK
<1>1. /\ proc'[s].pc \in {"idle", "file", "fetch"}
      /\ \A t \in Syncs : t # s => proc'[t] = proc[t]
  BY <1>0, Becomes
<1>2. \A t \in Syncs : t # s => proc[t].pc = "idle"
  BY <1>0 DEF Revised, Alone
<1>3. \A r : (Stored(r)' <=> Stored(r)) /\ (Current(r)' <=> Current(r))
  BY <1>0 DEF Stored, Current
<1>4. Booked'
  BY <1>1, <1>2 DEF Booked, Standing, At
<1>5. StoredSet' = StoredSet
  BY <1>3 DEF StoredSet
<1>6. \A t \in Syncs, r \in Revisions : ~MakesWay(t, r)' /\ (MakesWay(t, r) => t = s)
  BY <1>1, <1>2 DEF MakesWay, Replaced, At
<1>7. BookShown' = {r \in Revisions : Current(r)}
  BY <1>3, <1>6 DEF BookShown
<1>8. \A r \in Revisions : BookEvent(r)' = row[r].hand
  BY <1>0, <1>6, EventOfNext DEF Revised
<1>9. \A r \in Revisions : ~MakesWay(s, r) => BookEvent(r) = row[r].hand
  BY <1>6, EventOf DEF Revised
<1>10. CASE proc[s].pc = "supersede"
  <2>1. /\ proc[s].prior # None /\ proc[s].prior \in Revisions /\ Current(proc[s].prior)
        /\ row[proc[s].prior].hand = None => proc[s].carry = None
    BY <1>0, <1>10 DEF Booked, Standing, At, Revised, Locals, Procs
  <2>p. PICK prior \in Revisions : prior = proc[s].prior
    BY <2>1
  <2>2. \A r \in Revisions : MakesWay(s, r) <=> r = prior
    BY <1>10, <2>p DEF MakesWay, At, Replaced
  <2>3. BookShown = {r \in Revisions : Current(r)} /\ prior \in BookShown
    BY <1>6, <2>1, <2>2, <2>p DEF BookShown
  <2>4. BookEvent(prior) = proc[s].carry
    BY <2>2, EventOf DEF Revised
  <2>5. row[prior].hand \in Events \cup {None}
    BY <1>0, <2>1, <2>p DEF Current, Stored, Rows
  <2>6. CASE row[prior].hand = None
    <3>1. \A r \in BookShown : BookEvent(r)' = BookEvent(r)
      BY <1>8, <1>9, <2>1, <2>2, <2>3, <2>4, <2>6, <2>p
    <3>2. \A r \in Revisions : r \in BookShown' <=> r \in BookShown
      BY <1>7, <2>3
    <3>3. UNCHANGED Book!book
      BY <1>3, <3>1, <3>2, BookStands
    <3> QED
      BY <1>4, <3>3
  <2>7. CASE row[prior].hand \in Events
    <3>1. \A r \in BookShown : BookEvent(r)' = IF r = prior THEN row[prior].hand ELSE BookEvent(r)
      BY <1>8, <1>9, <2>2, <2>3
    <3>2. BookOf' = [BookOf EXCEPT ![prior] = row[prior].hand]
      BY <1>7, <2>3, <3>1 DEF BookOf
    <3>3. Book!Choose(prior, row[prior].hand)
      BY <1>5, <3>2 DEF Book!Choose, BookOf, StoredSet
    <3>4. prior \in DOMAIN BookOf
      BY <2>3 DEF BookOf
    <3> QED
      BY <1>4, <2>7, <3>3, <3>4 DEF Book!BookNext, BookOf
  <2> QED
    BY <2>5, <2>6, <2>7
<1>11. CASE Replaced(s)
  <2>1. /\ proc[s].prior # None /\ proc[s].prior \in Revisions /\ proc[s].newer /\ proc[s].pc = "create"
        /\ CurrentOf(Of(proc[s].rev)) = {} /\ Of(proc[s].prior) = Of(proc[s].rev)
    BY <1>0, <1>11 DEF Replaced, At, Revised, Locals, Procs
  <2>p. PICK prior \in Revisions : prior = proc[s].prior
    BY <2>1
  <2>2. \A r \in Revisions : MakesWay(s, r) <=> r = prior
    BY <1>11, <2>p DEF MakesWay
  <2>3. ~Current(prior)
    BY <2>1, <2>p DEF CurrentOf
  <2>4. prior \in BookShown /\ BookShown' = BookShown \ {prior}
    BY <1>6, <1>7, <2>2, <2>3 DEF BookShown
  <2>5. \A r \in BookShown' : BookEvent(r)' = BookEvent(r)
    BY <1>7, <1>8, <1>9, <2>2, <2>4
  <2>6. BookOf' = [x \in DOMAIN BookOf \ {prior} |-> BookOf[x]] /\ prior \in DOMAIN BookOf
    BY <2>4, <2>5 DEF BookOf
  <2>7. Book!Lose(prior)
    BY <1>0, <1>5, <2>6 DEF Book!Lose, BookOf, StoredSet
  <2> QED
    BY <1>4, <2>6, <2>7 DEF Book!BookNext, BookOf
<1>12. CASE proc[s].pc # "supersede" /\ ~Replaced(s)
  <2>1. \A r \in Revisions : ~MakesWay(s, r)
    BY <1>12 DEF MakesWay, At
  <2>2. \A r \in Revisions : r \in BookShown' <=> r \in BookShown
    BY <1>6, <1>7, <2>1 DEF BookShown
  <2>3. \A r \in BookShown : BookEvent(r)' = BookEvent(r)
    BY <1>8, <1>9, <2>1 DEF BookShown
  <2>4. UNCHANGED Book!book
    BY <1>3, <2>2, <2>3, BookStands
  <2> QED
    BY <1>4, <2>4
<1> QED
  BY <1>10, <1>11, <1>12

LEMMA AssignBook ==
  ASSUME Typed, Typed', Revised, Revised', Booked, NEW r \in Revisions, NEW e \in Events, Assign(r, e)
  PROVE  Booked' /\ [Book!BookNext]_(Book!book)
<1>0. /\ UNCHANGED proc /\ Stored(r) /\ row \in [Revisions -> Rows \cup {None}]
      /\ row' = [row EXCEPT ![r] = [row[r] EXCEPT !.hand = e]] /\ row[r] \in Rows
  BY RowTyped DEF Typed, TypeOK, Assign
<1>1. /\ row'[r] \in Rows /\ row'[r].current = row[r].current /\ row'[r].hand = e
      /\ \A q \in Revisions : q # r => row'[q] = row[q]
  BY <1>0 DEF Rows
<1>2. \A q \in Revisions : (Stored(q)' <=> Stored(q)) /\ (Current(q)' <=> Current(q))
  BY <1>0, <1>1, NoSuchRow DEF Stored, Current
<1>3. \A t \in Syncs, q \in Revisions : MakesWay(t, q)' <=> MakesWay(t, q)
  BY <1>0 DEF MakesWay, Replaced, At
<1>4. StoredSet' = StoredSet /\ BookShown' = BookShown
  BY <1>2, <1>3 DEF StoredSet, BookShown
<1>5. Booked'
  <2> SUFFICES ASSUME NEW s \in Syncs PROVE Standing(s)'
    BY DEF Booked
  <2>1. Standing(s) /\ e # None
    BY PaypalAssumption DEF Booked
  <2>2. proc[s].pc = "supersede" => proc[s].prior \in Revisions
    BY DEF Typed, TypeOK, Procs, Revised, Locals
  <2> QED
    BY <1>0, <1>1, <1>2, <2>1, <2>2 DEF Standing, At
<1>6. \A q \in Revisions : q # r => BookEvent(q)' = BookEvent(q)
  <2> SUFFICES ASSUME NEW q \in Revisions, q # r PROVE BookEvent(q)' = BookEvent(q)
    OBVIOUS
  <2>1. ASSUME NEW s \in Syncs, MakesWay(s, q) PROVE BookEvent(q)' = BookEvent(q)
    BY <1>0, <1>3, <2>1, EventOf, EventOfNext DEF Revised
  <2>2. CASE \A s \in Syncs : ~MakesWay(s, q)
    BY <1>1, <1>3, <2>2, EventOf, EventOfNext DEF Revised
  <2> QED
    BY <2>1, <2>2
<1>7. ASSUME NEW s \in Syncs, MakesWay(s, r) PROVE BookEvent(r)' = BookEvent(r)
  BY <1>0, <1>3, <1>7, EventOf, EventOfNext DEF Revised
<1>8. CASE r \in BookShown /\ \A s \in Syncs : ~MakesWay(s, r)
  <2>1. BookEvent(r)' = e
    BY <1>1, <1>3, <1>8, EventOfNext DEF Revised
  <2>2. BookOf' = [BookOf EXCEPT ![r] = e] /\ r \in DOMAIN BookOf
    BY <1>4, <1>6, <1>8, <2>1 DEF BookOf, BookShown
  <2>3. Book!Choose(r, e)
    BY <1>4, <2>2 DEF Book!Choose, BookOf, StoredSet
  <2> QED
    BY <1>5, <2>2, <2>3 DEF Book!BookNext, BookOf
<1>9. CASE r \notin BookShown \/ \E s \in Syncs : MakesWay(s, r)
  <2>1. \A q \in BookShown : BookEvent(q)' = BookEvent(q)
    BY <1>6, <1>7, <1>9 DEF BookShown
  <2>2. UNCHANGED Book!book
    BY <1>2, <1>4, <2>1, BookStands
  <2> QED
    BY <1>5, <2>2
<1> QED
  BY <1>8, <1>9

\* Every step is a step of the book, or leaves it alone.
LEMMA StepBook ==
  Typed /\ Typed' /\ Revised /\ Revised' /\ Booked /\ [Next]_vars => Booked' /\ [Book!BookNext]_(Book!book)
<1> SUFFICES ASSUME Typed, Typed', Revised, Revised', Booked, [Next]_vars
             PROVE  Booked' /\ [Book!BookNext]_(Book!book)
  OBVIOUS
<1>1. ASSUME NEW s \in Syncs,
             \/ BeginSync(s) \/ BeginImport(s) \/ Fetch(s) \/ EndSync(s) \/ EndImport(s)
             \/ (\E r \in Revisions : ReadLine(s, r)) \/ LookUp(s)
      PROVE  Booked' /\ UNCHANGED Book!book
  <2>1. /\ UNCHANGED row /\ \A t \in Syncs : t # s => proc'[t] = proc[t]
        /\ proc[s].pc \notin Writing /\ proc'[s].pc \notin Writing
    BY <1>1, Elsewhere
  <2> QED
    BY <2>1, ElsewhereBook
<1>2. ASSUME NEW s \in Syncs, ReadPrior(s) \/ Supersede(s) PROVE Booked' /\ UNCHANGED Book!book
  BY <1>2, PriorBook, SupersedeBook
<1>3. ASSUME NEW s \in Syncs, Create(s) PROVE Booked' /\ Book!BookNext
  <2>1. Booked' /\ \E r \in Revisions \ StoredSet : Book!Store(r)
    BY <1>3, CreateBook
  <2> QED
    BY <2>1 DEF Book!BookNext, StoredSet
<1>4. ASSUME NEW s \in Syncs, Stops(s) PROVE Booked' /\ [Book!BookNext]_(Book!book)
  BY <1>4, StopBook
<1>5. ASSUME NEW r \in Revisions, NEW e \in Events, Assign(r, e)
      PROVE  Booked' /\ [Book!BookNext]_(Book!book)
  BY <1>5, AssignBook
<1>6. CASE UNCHANGED vars \/ \E p \in Payments : Report(p)
  <2>1. UNCHANGED <<row, proc>>
    BY <1>6 DEF vars, Report
  <2>2. /\ \A r : (Stored(r)' <=> Stored(r)) /\ (Current(r)' <=> Current(r))
        /\ \A s, r : MakesWay(s, r)' <=> MakesWay(s, r)
    BY <2>1 DEF Stored, Current, MakesWay, Replaced, At
  <2>3. BookShown' = BookShown /\ \A r : BookEvent(r)' = BookEvent(r)
    BY <2>1, <2>2 DEF BookShown, BookEvent
  <2>4. UNCHANGED Book!book
    BY <2>2, <2>3, BookStands
  <2>5. Booked'
    BY <2>1, <2>2 DEF Booked, Standing, At
  <2> QED
    BY <2>4, <2>5
<1> QED
  BY <1>1, <1>2, <1>3, <1>4, <1>5, <1>6 DEF Next, Upsert, Stops

\* With one sync or import at a time, whatever people do meanwhile and wherever a statement
\* fails or a process dies, the rows of transactions are those of a book in which an upsert is
\* one step; a payment can drop out of it only where statements may fail and processes die.
THEOREM BookImplemented ==
  ASSUME ~Overlap
  PROVE  Spec => ImplementsBook
<1>1. Init => Book!BookInit /\ Booked
  <2> SUFFICES ASSUME Init PROVE Book!BookInit /\ Booked
    OBVIOUS
  <2>1. \A s \in Syncs : proc[s].pc = "idle"
    BY DEF Init, Idle
  <2>2. \A r \in Revisions : ~Stored(r) /\ ~Current(r)
    BY DEF Init, Stored, Current
  <2>3. StoredSet = {} /\ BookShown = {}
    BY <2>1, <2>2 DEF StoredSet, BookShown, MakesWay, Replaced, At
  <2>4. BookOf = [r \in {} |-> None]
    BY <2>3 DEF BookOf
  <2>5. Booked
    BY <2>1 DEF Booked, Standing, At
  <2> QED
    BY <2>3, <2>4, <2>5 DEF Book!BookInit, StoredSet, BookOf
<1>2. Typed /\ Typed' /\ Revised /\ Revised' /\ Booked /\ [Next]_vars => Booked' /\ [Book!BookNext]_(Book!book)
  BY StepBook
<1> QED
  BY <1>1, <1>2, AlwaysRevised, PTL DEF Spec, ImplementsBook, Book!BookSpec
=============================================================================
