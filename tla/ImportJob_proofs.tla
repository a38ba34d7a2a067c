--------------------------- MODULE ImportJob_proofs ---------------------------
(***************************************************************************)
(* Proofs about ImportJob: for any number of jobs and orders, and whenever *)
(* the hour of overlap is at least twice the time a job may take, nothing  *)
(* an import misses gets out of reach of the next one, neither an order    *)
(* the copy is behind on nor a copy the books are behind on; and as the    *)
(* queue hands a lost job out again only after it must have ended, the     *)
(* flag of the connection never sticks.  The guard lets two imports work   *)
(* together only if they looked at it at the same time.                    *)
(***************************************************************************)
EXTENDS ImportJob, TLAPS

(***************************************************************************)
(* Booking an order: what the two statements make of its rows.             *)
(***************************************************************************)

LEMMA MoneyType == ASSUME NEW c \in Content PROVE Money(c) \in Nat \cup {None}
BY DEF Money, Content

LEMMA RefundsType == \A c \in Content : Refunded(c) \subseteq Refunds
BY DEF Refunded, Content

LEMMA RowType ==
  ASSUME NEW b \in Books, NEW c \in Content, Rebooks(b, c)
  PROVE  Row(b, c) \in Books
<1>1. CASE c.status = "p"
  <2>1. Money(c) \in Nat
    BY <1>1, MoneyType DEF Rebooks
  <2> HIDE DEF Money
  <2> QED
    BY <1>1, <2>1 DEF Row, Books
<1>2. CASE c.status # "p"
  <2>1. MapStatus[c.status] \in {"S", "P", "V", "D"}
    BY DEF MapStatus, Content
  <2> QED
    BY <1>2, <2>1 DEF Row, Books
<1> QED
  BY <1>1, <1>2

LEMMA AddType ==
  ASSUME NEW b \in Books, NEW c \in Content
  PROVE  AddRefunds(b, c) \in Books
BY RefundsType DEF AddRefunds, Books

\* The row does not touch the refunds, the refunds not the row, and neither does anything
\* when done again.
LEMMA RowTwice ==
  ASSUME NEW b \in Books, NEW c PROVE Row(Row(b, c), c) = Row(b, c)
BY DEF Row, Books

LEMMA RowAfterRefunds ==
  ASSUME NEW b \in Books, NEW c, NEW d
  PROVE  /\ Row(b, c) = b => Row(AddRefunds(b, d), c) = AddRefunds(b, d)
         /\ Rebooks(AddRefunds(b, d), c) = Rebooks(b, c)
BY DEF Row, AddRefunds, Books, Rebooks

\* Booked is what the next booking leaves as it is.
Follows(b, c) == c = None \/ Book(b, c) = b

LEMMA FollowsParts ==
  ASSUME NEW b \in Books, NEW c, c # None, Follows(b, c), Rebooks(b, c)
  PROVE  Row(b, c) = b /\ AddRefunds(b, c) = b
<1>1. AddRefunds(Row(b, c), c) = b
  BY DEF Follows, Book
<1>2. Row(b, c).back = b.back
  BY DEF Row, Books
<1>3. AddRefunds(Row(b, c), c).back = b.back \cup Refunded(c)
  BY <1>2 DEF AddRefunds, Row, Books
<1>4. AddRefunds(b, c) = b
  BY <1>1, <1>3 DEF AddRefunds, Books
<1>5. AddRefunds(Row(b, c), c) = Row(b, c)
  BY <1>1, <1>2, <1>3 DEF AddRefunds, Row, Books
<1> QED
  BY <1>1, <1>4, <1>5

LEMMA FollowsAfterRefunds ==
  ASSUME NEW b \in Books, NEW c, Row(b, c) = b
  PROVE  Follows(AddRefunds(b, c), c)
<1> DEFINE d == AddRefunds(b, c)
<1>1. Row(d, c) = d
  BY RowAfterRefunds
<1>2. AddRefunds(d, c) = d
  BY DEF AddRefunds, Books
<1> HIDE DEF d
<1>3. Book(d, c) = d
  BY <1>1, <1>2 DEF Book
<1> QED
  BY <1>3 DEF Follows, d

(***************************************************************************)
(* The invariant.                                                          *)
(***************************************************************************)

Running == {"fetch", "store", "book", "refund", "finish"}

\* No time stamp lies in the future, and no job runs longer than it may.
Clocks ==
  /\ watermark # None => watermark <= now
  /\ \A o \in Orders : modified[o] <= now
  /\ \A j \in Jobs : job[j].pc \in Alive => job[j].taken <= now /\ now <= job[j].taken + Timeout
  /\ \A j \in Jobs : At(j, "create") => job[j].taken = now

\* A page that is about to be written is still right, or its order changed under the run.
Pages ==
  /\ \A o \in Orders : pretix[o] = None => local[o] = None
  /\ \A j \in Jobs : At(j, "store") =>
    /\ job[j].order \in Orders /\ pretix[job[j].order] # None
    /\ job[j].page = pretix[job[j].order] \/ modified[job[j].order] >= job[j].taken

\* What a run has done with, or need not look at, is right - or changed so late that it
\* is in reach even if the run takes all its time.
DoneWith(j, o) ==
  \/ /\ job[j].pc \in {"create", "fetch", "store"}
     /\ o \notin job[j].todo \/ (job[j].since # None /\ modified[o] < job[j].since)
  \/ job[j].pc \in {"book", "refund"}
Progress ==
  \A j \in Jobs, o \in Orders :
    DoneWith(j, o) => local[o] = pretix[o] \/ modified[o] + Timeout >= job[j].taken

\* A list a run books from is still right, or the row changed under the run; and between
\* the two statements the row of the payment is what it has to be, or changed late.
Lists ==
  \A j \in Jobs :
    /\ job[j].pc \in {"book", "refund"} => \A o \in job[j].todo :
         job[j].copy[o] \in Content /\ (job[j].copy[o] = local[o] \/ touched[o] >= job[j].taken)
    /\ At(j, "refund") =>
         /\ job[j].order \in job[j].todo
         /\ \/ Row(books[job[j].order], job[j].copy[job[j].order]) = books[job[j].order]
            \/ touched[job[j].order] + Timeout >= job[j].taken

\* What a run has booked, or will not look at, is booked - or was touched so late that the
\* next run looks at it.
BookedBy(j, o) ==
  \/ job[j].pc \in {"create", "fetch", "store"} /\ job[j].since # None /\ touched[o] < job[j].since
  \/ job[j].pc \in {"book", "refund"} /\ o \notin job[j].todo
Booked ==
  \A j \in Jobs, o \in Orders :
    BookedBy(j, o) => Follows(books[o], local[o]) \/ touched[o] + Timeout >= job[j].taken

\* The guard sees a run only while its job is at work or waits to be handed out again.
Owners ==
  \A j \in Jobs, t \in Nat :
    <<j, t>> \in runs /\ now < t + Timeout
      => job[j].pc \in Running \cup {"lost"} /\ job[j].taken = t

IInv ==
  /\ TypeOK /\ Clocks /\ Pages /\ Progress /\ Lists /\ Booked
  /\ MissedIsInReach /\ UnbookedIsInReach /\ Owners /\ FlagHasAnOwner

LEMMA InitInv == Init => IInv
<1> SUFFICES ASSUME Init PROVE IInv
  OBVIOUS
<1> USE ImportAssumption, BookingAssumption DEF Init
<1>1. \A j \in Jobs : job[j].pc = "idle"
  BY DEF Idle
<1>2. TypeOK
  BY DEF TypeOK, Idle, Slot, Books, Unbooked
<1>3. Clocks
  BY <1>1 DEF Clocks, Alive, Importing, At
<1>4. Pages /\ Progress /\ Owners /\ Lists /\ Booked
  BY <1>1 DEF Pages, Progress, Owners, Lists, Booked, BookedBy, At
<1>5. MissedIsInReach /\ UnbookedIsInReach /\ FlagHasAnOwner
  BY DEF MissedIsInReach, UnbookedIsInReach, FlagHasAnOwner
<1> QED
  BY <1>2, <1>3, <1>4, <1>5 DEF IInv

\* What Become() does to the table of jobs.
LEMMA Becomes ==
  ASSUME TypeOK, NEW j \in Jobs, NEW s, Become(j, s)
  PROVE  /\ job'[j] = s
         /\ \A k \in Jobs : k # j => job'[k] = job[k]
         /\ s \in Slot => job' \in [Jobs -> Slot]
BY DEF TypeOK, Become

LEMMA TypeStep == TypeOK /\ Lists /\ [Next]_vars => TypeOK'
<1> SUFFICES ASSUME TypeOK, Lists, [Next]_vars PROVE TypeOK'
  OBVIOUS
<1>0. Idle \in Slot /\ [Idle EXCEPT !.pc = "queued"] \in Slot
  BY DEF Idle, Slot
<1>1. ASSUME NEW j \in Jobs, Dispatch(j) \/ Click(j) PROVE TypeOK'
  BY <1>0, <1>1, Becomes DEF Dispatch, Click, pretixVars, localVars, TypeOK
<1>2. ASSUME NEW j \in Jobs, Take(j) PROVE TypeOK'
  <2>1. Since \in Nat \cup {None}
    BY ImportAssumption DEF Since, TypeOK
  <2>2. [Idle EXCEPT !.pc = "create", !.taken = now, !.up = flag, !.since = Since,
                       !.todo = Orders] \in Slot
    BY <2>1 DEF Idle, Slot, Alive, TypeOK
  <2> QED
    BY <1>0, <1>2, <2>2, Becomes DEF Take, pretixVars, localVars, TypeOK
<1>3. ASSUME NEW j \in Jobs, Start(j) PROVE TypeOK'
  <2>1. [job[j] EXCEPT !.pc = "fetch", !.up = FALSE] \in Slot
    BY DEF Slot, Alive, Importing, TypeOK
  <2>2. flag' \in BOOLEAN
    BY <1>3, Zenon DEF Start, TypeOK
  <2>3. job' \in [Jobs -> Slot]
    BY <1>3, <2>1, Becomes DEF Start
  <2>4. runs' \subseteq Jobs \X Nat
    BY <1>3 DEF Start, TypeOK
  <2> QED
    BY <1>3, <2>2, <2>3, <2>4 DEF Start, pretixVars, localVars, TypeOK
<1>4. ASSUME NEW j \in Jobs, NEW o \in Orders, Fetch(j, o) PROVE TypeOK'
  <2>1. /\ [job[j] EXCEPT !.pc = "store", !.order = o, !.page = pretix[o]] \in Slot
        /\ [job[j] EXCEPT !.todo = @ \ {o}] \in Slot
    BY ImportAssumption DEF Slot, Alive, Importing, TypeOK
  <2> QED
    BY <1>4, <2>1, Becomes DEF Fetch, pretixVars, localVars, TypeOK
<1>5. ASSUME NEW j \in Jobs, Store(j) PROVE TypeOK'
  <2>1. [job[j] EXCEPT !.pc = "fetch", !.todo = @ \ {job[j].order}, !.order = None, !.page = None] \in Slot
    BY DEF Slot, Alive, Importing, TypeOK
  <2>2. job[j].page \in Content \cup {None}
    BY DEF Slot, TypeOK
  <2> QED
    BY <1>5, <2>1, <2>2, Becomes DEF Store, pretixVars, localVars, TypeOK
<1>6. ASSUME NEW j \in Jobs, Succeed(j) \/ Close(j) PROVE TypeOK'
  <2>1. [job[j] EXCEPT !.pc = "finish"] \in Slot /\ [job[j] EXCEPT !.pc = "clear"] \in Slot
    BY DEF Slot, Alive, Importing, TypeOK
  <2> QED
    BY <1>6, <2>1, Becomes DEF Succeed, Close, pretixVars, localVars, TypeOK
<1>7. ASSUME NEW j \in Jobs, Lower(j) \/ Fail(j) \/ TimeOut(j) \/ Redeliver(j) PROVE TypeOK'
  BY <1>0, <1>7, Becomes DEF Lower, Fail, TimeOut, Redeliver, pretixVars, localVars, TypeOK
<1>8. ASSUME NEW j \in Jobs, Kill(j) PROVE TypeOK'
  <2>1. [Idle EXCEPT !.pc = "lost", !.taken = job[j].taken] \in Slot
    BY DEF Slot, Idle, TypeOK
  <2> QED
    BY <1>8, <2>1, Becomes DEF Kill, pretixVars, localVars, TypeOK
<1>9. ASSUME NEW o \in Orders, NEW c \in Contents, ChangeOrder(o, c) PROVE TypeOK'
  BY <1>9 DEF ChangeOrder, Change, localVars, TypeOK
<1>12. ASSUME NEW o \in Orders, NEW c \in Contents, MarkPaid(o, c) PROVE TypeOK'
  <2>1. local[o] \in Content
    BY <1>12 DEF MarkPaid, TypeOK
  <2>2. [local[o] EXCEPT !.status = "p"] \in Content
    BY <2>1 DEF Content
  <2>3. local' = [local EXCEPT ![o] = [local[o] EXCEPT !.status = "p"]]
    BY <1>12 DEF MarkPaid
  <2>4. local' \in [Orders -> Content \cup {None}]
    BY <2>2, <2>3 DEF TypeOK
  <2> QED
    BY <1>12, <2>4 DEF MarkPaid, Change, TypeOK
<1>13. ASSUME NEW j \in Jobs, List(j) PROVE TypeOK'
  <2>1. [job[j] EXCEPT !.pc = "book", !.since = None, !.copy = local,
                       !.todo = {o \in Orders : Listed(j, o)}] \in Slot
    BY DEF Slot, Alive, Importing, TypeOK
  <2> QED
    BY <1>13, <2>1, Becomes DEF List, pretixVars, localVars, TypeOK
<1>14. ASSUME NEW j \in Jobs, NEW o \in Orders, BookRow(j, o) PROVE TypeOK'
  <2>1. /\ [job[j] EXCEPT !.pc = "refund", !.order = o] \in Slot
        /\ [job[j] EXCEPT !.todo = @ \ {o}, !.copy[o] = None] \in Slot
    BY DEF Slot, Alive, Importing, TypeOK
  <2>2. job[j].copy[o] \in Content /\ books[o] \in Books
    BY <1>14 DEF Lists, BookRow, At, TypeOK
  <2>3. Rebooks(books[o], job[j].copy[o]) => Row(books[o], job[j].copy[o]) \in Books
    BY <2>2, RowType
  <2>4. job' \in [Jobs -> Slot]
    BY <1>14, <2>1, Becomes DEF BookRow
  <2>5. books' \in [Orders -> Books]
    BY <1>14, <2>3 DEF BookRow, TypeOK
  <2> QED
    BY <1>14, <2>4, <2>5 DEF BookRow, pretixVars, TypeOK
<1>15. ASSUME NEW j \in Jobs, BookRefunds(j) PROVE TypeOK'
  <2> DEFINE o == job[j].order
  <2>1. o \in Orders /\ job[j].copy[o] \in Content /\ books[o] \in Books
    BY <1>15 DEF Lists, BookRefunds, At, TypeOK, Slot
  <2>2. [job[j] EXCEPT !.pc = "book", !.order = None, !.todo = @ \ {o}, !.copy[o] = None] \in Slot
    BY DEF Slot, Alive, Importing, TypeOK
  <2>3. AddRefunds(books[o], job[j].copy[o]) \in Books
    BY <2>1, AddType
  <2>4. job' \in [Jobs -> Slot]
    BY <1>15, <2>2, Becomes DEF BookRefunds
  <2>5. books' \in [Orders -> Books]
    BY <1>15, <2>3 DEF BookRefunds, TypeOK
  <2> QED
    BY <1>15, <2>4, <2>5 DEF BookRefunds, pretixVars, TypeOK
<1>10. ASSUME Tick PROVE TypeOK'
  BY <1>10 DEF Tick, localVars, TypeOK
<1>11. ASSUME UNCHANGED vars PROVE TypeOK'
  BY <1>11 DEF vars, TypeOK
<1> QED
  BY <1>1, <1>2, <1>3, <1>4, <1>5, <1>6, <1>7, <1>8, <1>9, <1>10, <1>11, <1>12, <1>13,
     <1>14, <1>15 DEF Next, Work

\* What the steps of a job make of it, field by field.
Others(j) == \A k \in Jobs : k # j => job'[k] = job[k]

LEMMA DispatchEffect ==
  ASSUME TypeOK, NEW j \in Jobs, Dispatch(j) \/ Click(j)
  PROVE  /\ job[j].pc = "idle" /\ job'[j].pc = "queued" /\ Others(j)
         /\ UNCHANGED <<now, pretix, modified, local, touched, books, watermark, runs>>
BY Becomes DEF Dispatch, Click, Idle, Others, pretixVars, localVars, At

LEMMA StartEffect ==
  ASSUME TypeOK, NEW j \in Jobs, Start(j)
  PROVE  /\ job[j].pc = "create" /\ Others(j)
         /\ job'[j].pc = "fetch" /\ job'[j].taken = job[j].taken /\ job'[j].since = job[j].since
         /\ job'[j].todo = job[j].todo
         /\ runs' = runs \cup {<<j, now>>}
         /\ UNCHANGED <<now, pretix, modified, local, touched, books, watermark>>
<1>1. /\ At(j, "create") /\ Others(j) /\ runs' = runs \cup {<<j, now>>}
      /\ UNCHANGED <<now, pretix, modified, local, touched, books, watermark>>
  BY Becomes DEF Start, Others, pretixVars, localVars
<1>2. job[j] \in Slot
  BY DEF TypeOK
<1> DEFINE s == [job[j] EXCEPT !.pc = "fetch", !.up = FALSE]
<1>3. job'[j] = s
  BY Becomes DEF Start
<1>4. /\ s.pc = "fetch" /\ s.taken = job[j].taken /\ s.since = job[j].since /\ s.todo = job[j].todo
  BY <1>2 DEF Slot
<1> HIDE DEF s
<1> QED
  BY <1>1, <1>3, <1>4 DEF At

LEMMA TakeEffect ==
  ASSUME TypeOK, NEW j \in Jobs, Take(j)
  PROVE  /\ job[j].pc = "queued" /\ Others(j)
         /\ \/ Active /\ job'[j].pc = "idle"
            \/ /\ ~Active /\ job'[j].pc = "create" /\ job'[j].taken = now
               /\ job'[j].since = Since /\ job'[j].todo = Orders
         /\ UNCHANGED <<now, pretix, modified, local, touched, books, watermark, flag, runs>>
<1>1. At(j, "queued") /\ Others(j) /\ UNCHANGED <<now, pretix, modified, local, touched, books, watermark, flag, runs>>
  BY Becomes DEF Take, Others, pretixVars, localVars
<1>2. CASE Active
  <2>1. job'[j] = Idle
    BY <1>2, Becomes DEF Take
  <2> QED
    BY <1>1, <1>2, <2>1 DEF Idle, At
<1>3. CASE ~Active
  <2> DEFINE s == [Idle EXCEPT !.pc = "create", !.taken = now, !.up = flag, !.since = Since,
                       !.todo = Orders]
  <2>1. job'[j] = s
    BY <1>3, Becomes DEF Take
  <2>2. s.pc = "create" /\ s.taken = now /\ s.since = Since /\ s.todo = Orders
    BY DEF Idle
  <2> HIDE DEF s
  <2> QED
    BY <1>1, <1>3, <2>1, <2>2 DEF At
<1> QED
  BY <1>2, <1>3

LEMMA FetchEffect ==
  ASSUME TypeOK, NEW j \in Jobs, NEW o \in Orders, Fetch(j, o)
  PROVE  /\ job[j].pc = "fetch" /\ o \in job[j].todo /\ Others(j)
         /\ job'[j].taken = job[j].taken /\ job'[j].since = job[j].since
         /\ \/ /\ Wanted(j, o) /\ job'[j].pc = "store" /\ job'[j].order = o
               /\ job'[j].page = pretix[o] /\ job'[j].todo = job[j].todo
            \/ /\ ~Wanted(j, o) /\ job'[j].pc = "fetch" /\ job'[j].todo = job[j].todo \ {o}
         /\ UNCHANGED <<now, pretix, modified, local, touched, books, watermark, flag, runs>>
<1>1. At(j, "fetch") /\ o \in job[j].todo /\ Others(j)
      /\ UNCHANGED <<now, pretix, modified, local, touched, books, watermark, flag, runs>>
  BY Becomes DEF Fetch, Others, pretixVars, localVars
<1>2. job[j] \in Slot
  BY DEF TypeOK
<1>3. CASE Wanted(j, o)
  <2> DEFINE s == [job[j] EXCEPT !.pc = "store", !.order = o, !.page = pretix[o]]
  <2>1. job'[j] = s
    BY <1>3, Becomes DEF Fetch
  <2>2. /\ s.pc = "store" /\ s.order = o /\ s.page = pretix[o]
        /\ s.taken = job[j].taken /\ s.since = job[j].since /\ s.todo = job[j].todo
    BY <1>2 DEF Slot
  <2> HIDE DEF s
  <2> QED
    BY <1>1, <1>3, <2>1, <2>2 DEF At
<1>4. CASE ~Wanted(j, o)
  <2> DEFINE s == [job[j] EXCEPT !.todo = @ \ {o}]
  <2>1. job'[j] = s
    BY <1>4, Becomes DEF Fetch
  <2>2. /\ s.pc = job[j].pc /\ s.todo = job[j].todo \ {o}
        /\ s.taken = job[j].taken /\ s.since = job[j].since
    BY <1>2 DEF Slot
  <2> HIDE DEF s
  <2> QED
    BY <1>1, <1>4, <2>1, <2>2 DEF At
<1> QED
  BY <1>3, <1>4

LEMMA StoreEffect ==
  ASSUME TypeOK, NEW j \in Jobs, Store(j)
  PROVE  /\ job[j].pc = "store" /\ Others(j)
         /\ job'[j].pc = "fetch" /\ job'[j].taken = job[j].taken /\ job'[j].since = job[j].since
         /\ job'[j].todo = job[j].todo \ {job[j].order}
         /\ local' = [local EXCEPT ![job[j].order] = job[j].page]
         /\ touched' = IF local[job[j].order] = job[j].page THEN touched
                                                 ELSE [touched EXCEPT ![job[j].order] = now]
         /\ UNCHANGED <<now, pretix, modified, books, watermark, flag, runs>>
<1>1. /\ At(j, "store") /\ Others(j)
      /\ local' = [local EXCEPT ![job[j].order] = job[j].page]
      /\ touched' = IF local[job[j].order] = job[j].page THEN touched
                                              ELSE [touched EXCEPT ![job[j].order] = now]
      /\ UNCHANGED <<now, pretix, modified, books, watermark, flag, runs>>
  BY Becomes DEF Store, Others, pretixVars, localVars
<1>2. job[j] \in Slot
  BY DEF TypeOK
<1> DEFINE s == [job[j] EXCEPT !.pc = "fetch", !.todo = @ \ {job[j].order}, !.order = None, !.page = None]
<1>3. job'[j] = s
  BY Becomes DEF Store
<1>4. /\ s.pc = "fetch" /\ s.taken = job[j].taken /\ s.since = job[j].since
      /\ s.todo = job[j].todo \ {job[j].order}
  BY <1>2 DEF Slot
<1> HIDE DEF s
<1> QED
  BY <1>1, <1>3, <1>4 DEF At

LEMMA ListEffect ==
  ASSUME TypeOK, NEW j \in Jobs, List(j)
  PROVE  /\ job[j].pc = "fetch" /\ job[j].todo = {} /\ Others(j)
         /\ job'[j].pc = "book" /\ job'[j].taken = job[j].taken
         /\ job'[j].copy = local /\ job'[j].todo = {o \in Orders : Listed(j, o)}
         /\ UNCHANGED <<now, pretix, modified, local, touched, books, watermark, flag, runs>>
<1>1. /\ At(j, "fetch") /\ job[j].todo = {} /\ Others(j)
      /\ UNCHANGED <<now, pretix, modified, local, touched, books, watermark, flag, runs>>
  BY Becomes DEF List, Others, pretixVars, localVars
<1>2. job[j] \in Slot
  BY DEF TypeOK
<1> DEFINE s == [job[j] EXCEPT !.pc = "book", !.since = None, !.copy = local,
                               !.todo = {o \in Orders : Listed(j, o)}]
<1>3. job'[j] = s
  BY Becomes DEF List
<1>4. /\ s.pc = "book" /\ s.taken = job[j].taken /\ s.copy = local
      /\ s.todo = {o \in Orders : Listed(j, o)}
  BY <1>2 DEF Slot
<1> HIDE DEF s
<1> QED
  BY <1>1, <1>3, <1>4 DEF At

LEMMA RowEffect ==
  ASSUME TypeOK, NEW j \in Jobs, NEW o \in Orders, BookRow(j, o)
  PROVE  /\ job[j].pc = "book" /\ o \in job[j].todo /\ Others(j) /\ job'[j].taken = job[j].taken
         /\ \/ /\ Rebooks(books[o], job[j].copy[o])
               /\ books' = [books EXCEPT ![o] = Row(books[o], job[j].copy[o])]
               /\ job'[j].pc = "refund" /\ job'[j].order = o /\ job'[j].todo = job[j].todo
               /\ job'[j].copy = job[j].copy
            \/ /\ ~Rebooks(books[o], job[j].copy[o]) /\ books' = books
               /\ job'[j].pc = "book" /\ job'[j].todo = job[j].todo \ {o}
               /\ \A p \in Orders : p # o => job'[j].copy[p] = job[j].copy[p]
         /\ UNCHANGED <<now, pretix, modified, local, touched, watermark, flag, runs>>
<1>1. /\ At(j, "book") /\ o \in job[j].todo /\ Others(j)
      /\ UNCHANGED <<now, pretix, modified, local, touched, watermark, flag, runs>>
  BY Becomes DEF BookRow, Others, pretixVars
<1>2. job[j] \in Slot
  BY DEF TypeOK
<1>3. CASE Rebooks(books[o], job[j].copy[o])
  <2> DEFINE s == [job[j] EXCEPT !.pc = "refund", !.order = o]
  <2>1. job'[j] = s /\ books' = [books EXCEPT ![o] = Row(books[o], job[j].copy[o])]
    BY <1>3, Becomes DEF BookRow
  <2>2. /\ s.pc = "refund" /\ s.order = o /\ s.taken = job[j].taken /\ s.todo = job[j].todo
        /\ s.copy = job[j].copy
    BY <1>2 DEF Slot
  <2> HIDE DEF s
  <2> QED
    BY <1>1, <1>3, <2>1, <2>2 DEF At
<1>4. CASE ~Rebooks(books[o], job[j].copy[o])
  <2> DEFINE s == [job[j] EXCEPT !.todo = @ \ {o}, !.copy[o] = None]
  <2>1. job'[j] = s /\ books' = books
    BY <1>4, Becomes DEF BookRow
  <2>2. /\ s.pc = job[j].pc /\ s.taken = job[j].taken /\ s.todo = job[j].todo \ {o}
        /\ \A p \in Orders : p # o => s.copy[p] = job[j].copy[p]
    BY <1>2 DEF Slot
  <2> HIDE DEF s
  <2> QED
    BY <1>1, <1>4, <2>1, <2>2 DEF At
<1> QED
  BY <1>3, <1>4

LEMMA RefundsEffect ==
  ASSUME TypeOK, Lists, NEW j \in Jobs, BookRefunds(j)
  PROVE  /\ job[j].pc = "refund" /\ job[j].order \in job[j].todo /\ job[j].order \in Orders
         /\ Others(j) /\ job'[j].pc = "book" /\ job'[j].taken = job[j].taken
         /\ books' = [books EXCEPT ![job[j].order] =
                         AddRefunds(books[job[j].order], job[j].copy[job[j].order])]
         /\ job'[j].todo = job[j].todo \ {job[j].order}
         /\ \A p \in Orders : p # job[j].order => job'[j].copy[p] = job[j].copy[p]
         /\ UNCHANGED <<now, pretix, modified, local, touched, watermark, flag, runs>>
<1> DEFINE o == job[j].order
<1>1. /\ At(j, "refund") /\ Others(j) /\ books' = [books EXCEPT ![o] = AddRefunds(books[o], job[j].copy[o])]
      /\ UNCHANGED <<now, pretix, modified, local, touched, watermark, flag, runs>>
  BY Becomes DEF BookRefunds, Others, pretixVars
<1>2. job[j] \in Slot
  BY DEF TypeOK
<1>3. o \in job[j].todo /\ o \in Orders
  BY <1>1, <1>2 DEF Lists, Slot
<1> DEFINE s == [job[j] EXCEPT !.pc = "book", !.order = None, !.todo = @ \ {o}, !.copy[o] = None]
<1>4. job'[j] = s
  BY Becomes DEF BookRefunds
<1>5. /\ s.pc = "book" /\ s.taken = job[j].taken /\ s.todo = job[j].todo \ {o}
      /\ \A p \in Orders : p # o => s.copy[p] = job[j].copy[p]
  BY <1>2 DEF Slot
<1> HIDE DEF s
<1> QED
  BY <1>1, <1>3, <1>4, <1>5 DEF At

LEMMA SucceedEffect ==
  ASSUME TypeOK, NEW j \in Jobs, Succeed(j)
  PROVE  /\ job[j].pc = "book" /\ job[j].todo = {} /\ Others(j)
         /\ job'[j].pc = "finish" /\ job'[j].taken = job[j].taken /\ watermark' = now
         /\ UNCHANGED <<now, pretix, modified, local, touched, books, flag, runs>>
<1>1. /\ At(j, "book") /\ job[j].todo = {} /\ Others(j) /\ watermark' = now
      /\ UNCHANGED <<now, pretix, modified, local, touched, books, flag, runs>>
  BY Becomes DEF Succeed, Others, pretixVars, localVars
<1> DEFINE s == [job[j] EXCEPT !.pc = "finish"]
<1>2. job'[j] = s
  BY Becomes DEF Succeed
<1>3. s.pc = "finish" /\ s.taken = job[j].taken
  BY DEF Slot, TypeOK
<1> HIDE DEF s
<1> QED
  BY <1>1, <1>2, <1>3 DEF At

LEMMA CloseEffect ==
  ASSUME TypeOK, NEW j \in Jobs, Close(j)
  PROVE  /\ job[j].pc = "finish" /\ Others(j) /\ runs' = runs \ {<<j, job[j].taken>>}
         /\ job'[j].pc = "clear" /\ job'[j].taken = job[j].taken
         /\ UNCHANGED <<now, pretix, modified, local, touched, books, watermark, flag>>
<1>1. /\ At(j, "finish") /\ Others(j) /\ runs' = runs \ {<<j, job[j].taken>>}
      /\ UNCHANGED <<now, pretix, modified, local, touched, books, watermark, flag>>
  BY Becomes DEF Close, Others, pretixVars, localVars
<1> DEFINE s == [job[j] EXCEPT !.pc = "clear"]
<1>2. job'[j] = s
  BY Becomes DEF Close
<1>3. s.pc = "clear" /\ s.taken = job[j].taken
  BY DEF Slot, TypeOK
<1> HIDE DEF s
<1> QED
  BY <1>1, <1>2, <1>3 DEF At

LEMMA EndEffect ==
  ASSUME TypeOK, NEW j \in Jobs, Lower(j) \/ Fail(j) \/ TimeOut(j) \/ Redeliver(j)
  PROVE  /\ job'[j].pc = "idle" /\ Others(j) /\ flag' = FALSE
         /\ UNCHANGED <<now, pretix, modified, local, touched, books, watermark>>
BY Becomes DEF Lower, Fail, TimeOut, Redeliver, Idle, Others, pretixVars, localVars, At

LEMMA KillEffect ==
  ASSUME TypeOK, NEW j \in Jobs, Kill(j)
  PROVE  /\ job[j].pc \in Alive /\ job'[j].pc = "lost" /\ job'[j].taken = job[j].taken /\ Others(j)
         /\ UNCHANGED <<now, pretix, modified, local, touched, books, watermark, flag, runs>>
<1>1. /\ job[j].pc \in Alive /\ Others(j)
      /\ UNCHANGED <<now, pretix, modified, local, touched, books, watermark, flag, runs>>
  BY Becomes DEF Kill, Others, pretixVars, localVars
<1> DEFINE s == [Idle EXCEPT !.pc = "lost", !.taken = job[j].taken]
<1>2. job'[j] = s
  BY Becomes DEF Kill
<1>3. s.pc = "lost" /\ s.taken = job[j].taken
  BY DEF Idle
<1> HIDE DEF s
<1> QED
  BY <1>1, <1>2, <1>3

(***************************************************************************)
(* What a step leaves: the clocks, the pages, what a run has done with.    *)
(***************************************************************************)

LEMMA SlotTypes ==
  TypeOK => \A j \in Jobs : /\ job[j].taken \in Nat /\ job[j].since \in Nat \cup {None}
                             /\ job[j].todo \subseteq Orders
BY DEF TypeOK, Slot

LEMMA ClocksStep == IInv /\ [Next]_vars => Clocks'
<1> SUFFICES ASSUME IInv, [Next]_vars PROVE Clocks'
  OBVIOUS
<1>0. TypeOK
  BY DEF IInv
<1>a. None \notin Contents /\ None \notin Content /\ Contents \subseteq Content
  BY ImportAssumption, BookingAssumption
<1>b. \A j \in Jobs : /\ job[j].taken \in Nat /\ job[j].since \in Nat \cup {None}
                         /\ job[j].todo \subseteq Orders
  BY <1>0, SlotTypes
<1> USE <1>0, <1>a, <1>b, ImportAssumption
    DEF IInv, TypeOK, Alive, At, Clocks, Importing, Others, pretixVars, localVars
<1>1. ASSUME NEW j \in Jobs, Dispatch(j) \/ Click(j) PROVE Clocks'
  BY <1>1, DispatchEffect, Becomes
<1>2. ASSUME NEW j \in Jobs, Take(j) PROVE Clocks'
  BY <1>2, TakeEffect
<1>3. ASSUME NEW j \in Jobs, Start(j) PROVE Clocks'
  BY <1>3, StartEffect
<1>4. ASSUME NEW j \in Jobs, NEW o \in Orders, Fetch(j, o) PROVE Clocks'
  BY <1>4, FetchEffect
<1>5. ASSUME NEW j \in Jobs, Store(j) PROVE Clocks'
  BY <1>5, StoreEffect
<1>6. ASSUME NEW j \in Jobs, Succeed(j) \/ Close(j) PROVE Clocks'
  BY <1>6, SucceedEffect, CloseEffect
<1>7. ASSUME NEW j \in Jobs, Lower(j) \/ Fail(j) \/ TimeOut(j) \/ Redeliver(j) PROVE Clocks'
  BY <1>7, EndEffect
<1>8. ASSUME NEW j \in Jobs, Kill(j) PROVE Clocks'
  BY <1>8, KillEffect
<1>9. ASSUME NEW o \in Orders, NEW c \in Contents, ChangeOrder(o, c) PROVE Clocks'
  BY <1>9 DEF ChangeOrder, Change, localVars
<1>12. ASSUME NEW o \in Orders, NEW c \in Contents, MarkPaid(o, c) PROVE Clocks'
  BY <1>12 DEF MarkPaid, Change
<1>13. ASSUME NEW j \in Jobs, List(j) PROVE Clocks'
  BY <1>13, ListEffect
<1>14. ASSUME NEW j \in Jobs, NEW o \in Orders, BookRow(j, o) PROVE Clocks'
  BY <1>14, RowEffect
<1>15. ASSUME NEW j \in Jobs, BookRefunds(j) PROVE Clocks'
  BY <1>15, RefundsEffect
<1>10. ASSUME Tick PROVE Clocks'
  BY <1>10 DEF Tick, localVars
<1>11. ASSUME UNCHANGED vars PROVE Clocks'
  BY <1>11 DEF vars
<1> QED
  BY <1>1, <1>2, <1>3, <1>4, <1>5, <1>6, <1>7, <1>8, <1>9, <1>10, <1>11, <1>12, <1>13,
     <1>14, <1>15 DEF Next, Work

LEMMA PagesStep == IInv /\ [Next]_vars => Pages'
<1> SUFFICES ASSUME IInv, [Next]_vars PROVE Pages'
  OBVIOUS
<1>0. TypeOK
  BY DEF IInv
<1>a. None \notin Contents /\ None \notin Content /\ Contents \subseteq Content
  BY ImportAssumption, BookingAssumption
<1>b. \A j \in Jobs : /\ job[j].taken \in Nat /\ job[j].since \in Nat \cup {None}
                         /\ job[j].todo \subseteq Orders
  BY <1>0, SlotTypes
<1> USE <1>0, <1>a, <1>b, ImportAssumption
    DEF IInv, TypeOK, Alive, At, Clocks, Importing, Others, Pages, pretixVars, localVars
<1>1. ASSUME NEW j \in Jobs, Dispatch(j) \/ Click(j) PROVE Pages'
  BY <1>1, DispatchEffect, Becomes
<1>2. ASSUME NEW j \in Jobs, Take(j) PROVE Pages'
  BY <1>2, TakeEffect
<1>3. ASSUME NEW j \in Jobs, Start(j) PROVE Pages'
  BY <1>3, StartEffect
<1>4. ASSUME NEW j \in Jobs, NEW o \in Orders, Fetch(j, o) PROVE Pages'
  <2>1. CASE Wanted(j, o)
    BY <1>4, <2>1, FetchEffect DEF Wanted
  <2>2. CASE ~Wanted(j, o)
    BY <1>4, <2>2, FetchEffect
  <2> QED
    BY <2>1, <2>2
<1>5. ASSUME NEW j \in Jobs, Store(j) PROVE Pages'
  BY <1>5, StoreEffect
<1>6. ASSUME NEW j \in Jobs, Succeed(j) \/ Close(j) PROVE Pages'
  BY <1>6, SucceedEffect, CloseEffect
<1>7. ASSUME NEW j \in Jobs, Lower(j) \/ Fail(j) \/ TimeOut(j) \/ Redeliver(j) PROVE Pages'
  BY <1>7, EndEffect
<1>8. ASSUME NEW j \in Jobs, Kill(j) PROVE Pages'
  BY <1>8, KillEffect
<1>9. ASSUME NEW o \in Orders, NEW c \in Contents, ChangeOrder(o, c) PROVE Pages'
  BY <1>9 DEF ChangeOrder, Change, localVars
<1>12. ASSUME NEW o \in Orders, NEW c \in Contents, MarkPaid(o, c) PROVE Pages'
  BY <1>12 DEF MarkPaid, Change
<1>13. ASSUME NEW j \in Jobs, List(j) PROVE Pages'
  BY <1>13, ListEffect
<1>14. ASSUME NEW j \in Jobs, NEW o \in Orders, BookRow(j, o) PROVE Pages'
  BY <1>14, RowEffect
<1>15. ASSUME NEW j \in Jobs, BookRefunds(j) PROVE Pages'
  BY <1>15, RefundsEffect
<1>10. ASSUME Tick PROVE Pages'
  BY <1>10 DEF Tick, localVars
<1>11. ASSUME UNCHANGED vars PROVE Pages'
  BY <1>11 DEF vars
<1> QED
  BY <1>1, <1>2, <1>3, <1>4, <1>5, <1>6, <1>7, <1>8, <1>9, <1>10, <1>11, <1>12, <1>13,
     <1>14, <1>15 DEF Next, Work

LEMMA ProgressStep == IInv /\ [Next]_vars => Progress'
<1> SUFFICES ASSUME IInv, [Next]_vars PROVE Progress'
  OBVIOUS
<1>0. TypeOK
  BY DEF IInv
<1>a. None \notin Contents /\ None \notin Content /\ Contents \subseteq Content
  BY ImportAssumption, BookingAssumption
<1>b. \A j \in Jobs : /\ job[j].taken \in Nat /\ job[j].since \in Nat \cup {None}
                         /\ job[j].todo \subseteq Orders
  BY <1>0, SlotTypes
<1> USE <1>0, <1>a, <1>b, ImportAssumption
    DEF IInv, TypeOK, Alive, At, Clocks, DoneWith, Importing, MissedIsInReach, Others, Pages, Progress, Since, Wanted, pretixVars, localVars
<1>1. ASSUME NEW j \in Jobs, Dispatch(j) \/ Click(j) PROVE Progress'
  BY <1>1, DispatchEffect, Becomes
<1>2. ASSUME NEW j \in Jobs, Take(j) PROVE Progress'
  BY <1>2, TakeEffect
<1>3. ASSUME NEW j \in Jobs, Start(j) PROVE Progress'
  BY <1>3, StartEffect
<1>4. ASSUME NEW j \in Jobs, NEW o \in Orders, Fetch(j, o) PROVE Progress'
  BY <1>4, FetchEffect
<1>5. ASSUME NEW j \in Jobs, Store(j) PROVE Progress'
  BY <1>5, StoreEffect
<1>6. ASSUME NEW j \in Jobs, Succeed(j) \/ Close(j) PROVE Progress'
  BY <1>6, SucceedEffect, CloseEffect
<1>7. ASSUME NEW j \in Jobs, Lower(j) \/ Fail(j) \/ TimeOut(j) \/ Redeliver(j) PROVE Progress'
  BY <1>7, EndEffect
<1>8. ASSUME NEW j \in Jobs, Kill(j) PROVE Progress'
  BY <1>8, KillEffect
<1>9. ASSUME NEW o \in Orders, NEW c \in Contents, ChangeOrder(o, c) PROVE Progress'
  BY <1>9 DEF ChangeOrder, Change, localVars
<1>12. ASSUME NEW o \in Orders, NEW c \in Contents, MarkPaid(o, c) PROVE Progress'
  BY <1>12 DEF MarkPaid, Change
<1>13. ASSUME NEW j \in Jobs, List(j) PROVE Progress'
  BY <1>13, ListEffect
<1>14. ASSUME NEW j \in Jobs, NEW o \in Orders, BookRow(j, o) PROVE Progress'
  BY <1>14, RowEffect
<1>15. ASSUME NEW j \in Jobs, BookRefunds(j) PROVE Progress'
  BY <1>15, RefundsEffect
<1>10. ASSUME Tick PROVE Progress'
  BY <1>10 DEF Tick, localVars
<1>11. ASSUME UNCHANGED vars PROVE Progress'
  BY <1>11 DEF vars
<1> QED
  BY <1>1, <1>2, <1>3, <1>4, <1>5, <1>6, <1>7, <1>8, <1>9, <1>10, <1>11, <1>12, <1>13,
     <1>14, <1>15 DEF Next, Work

LEMMA MissedStep == IInv /\ [Next]_vars => MissedIsInReach'
<1> SUFFICES ASSUME IInv, [Next]_vars PROVE MissedIsInReach'
  OBVIOUS
<1>0. TypeOK
  BY DEF IInv
<1>a. None \notin Contents /\ None \notin Content /\ Contents \subseteq Content
  BY ImportAssumption, BookingAssumption
<1>b. \A j \in Jobs : /\ job[j].taken \in Nat /\ job[j].since \in Nat \cup {None}
                         /\ job[j].todo \subseteq Orders
  BY <1>0, SlotTypes
<1> USE <1>0, <1>a, <1>b, ImportAssumption
    DEF IInv, TypeOK, Alive, At, Clocks, DoneWith, Importing, MissedIsInReach, Others, Pages, Progress, pretixVars, localVars
<1>1. ASSUME NEW j \in Jobs, Dispatch(j) \/ Click(j) PROVE MissedIsInReach'
  BY <1>1, DispatchEffect, Becomes
<1>2. ASSUME NEW j \in Jobs, Take(j) PROVE MissedIsInReach'
  BY <1>2, TakeEffect
<1>3. ASSUME NEW j \in Jobs, Start(j) PROVE MissedIsInReach'
  BY <1>3, StartEffect
<1>4. ASSUME NEW j \in Jobs, NEW o \in Orders, Fetch(j, o) PROVE MissedIsInReach'
  BY <1>4, FetchEffect
<1>5. ASSUME NEW j \in Jobs, Store(j) PROVE MissedIsInReach'
  BY <1>5, StoreEffect
<1>6. ASSUME NEW j \in Jobs, Succeed(j) \/ Close(j) PROVE MissedIsInReach'
  BY <1>6, SucceedEffect, CloseEffect
<1>7. ASSUME NEW j \in Jobs, Lower(j) \/ Fail(j) \/ TimeOut(j) \/ Redeliver(j) PROVE MissedIsInReach'
  BY <1>7, EndEffect
<1>8. ASSUME NEW j \in Jobs, Kill(j) PROVE MissedIsInReach'
  BY <1>8, KillEffect
<1>9. ASSUME NEW o \in Orders, NEW c \in Contents, ChangeOrder(o, c) PROVE MissedIsInReach'
  BY <1>9 DEF ChangeOrder, Change, localVars
<1>12. ASSUME NEW o \in Orders, NEW c \in Contents, MarkPaid(o, c) PROVE MissedIsInReach'
  BY <1>12 DEF MarkPaid, Change
<1>13. ASSUME NEW j \in Jobs, List(j) PROVE MissedIsInReach'
  BY <1>13, ListEffect
<1>14. ASSUME NEW j \in Jobs, NEW o \in Orders, BookRow(j, o) PROVE MissedIsInReach'
  BY <1>14, RowEffect
<1>15. ASSUME NEW j \in Jobs, BookRefunds(j) PROVE MissedIsInReach'
  BY <1>15, RefundsEffect
<1>10. ASSUME Tick PROVE MissedIsInReach'
  BY <1>10 DEF Tick, localVars
<1>11. ASSUME UNCHANGED vars PROVE MissedIsInReach'
  BY <1>11 DEF vars
<1> QED
  BY <1>1, <1>2, <1>3, <1>4, <1>5, <1>6, <1>7, <1>8, <1>9, <1>10, <1>11, <1>12, <1>13,
     <1>14, <1>15 DEF Next, Work

\* What a booking of one order leaves of what is known of any: only a run whose list is old
\* takes something back, and then the row was touched late.
LEMMA RowKeeps ==
  ASSUME IInv, NEW j \in Jobs, NEW o \in Orders, BookRow(j, o), NEW p \in Orders
  PROVE  \/ touched[p] + Timeout >= now
         \/ /\ Follows(books[p], local[p]) => Follows(books'[p], local[p])
            /\ Row(books[p], local[p]) = books[p] => Row(books'[p], local[p]) = books'[p]
<1>0. TypeOK /\ Lists /\ Clocks
  BY DEF IInv
<1>1. CASE p # o \/ ~Rebooks(books[o], job[j].copy[o])
  BY <1>0, <1>1, RowEffect DEF TypeOK
<1>2. CASE p = o /\ Rebooks(books[o], job[j].copy[o])
  <2> DEFINE b == books[o]
             c == job[j].copy[o]
  <2>1. b \in Books /\ books'[o] = Row(b, c) /\ c \in Content /\ c # None /\ Rebooks(b, c)
    BY <1>0, <1>2, RowEffect, BookingAssumption DEF TypeOK, Lists
  <2>2. CASE c # local[o]
    <3>1. touched[o] >= job[j].taken
      BY <1>0, <2>2, RowEffect DEF Lists
    <3>2. now <= job[j].taken + Timeout /\ job[j].taken \in Nat
      BY <1>0, RowEffect DEF Clocks, Alive, Importing, TypeOK, Slot
    <3> QED
      BY <1>0, <1>2, <3>1, <3>2, ImportAssumption DEF TypeOK
  <2>3. CASE c = local[o]
    <3>1. Follows(b, c) => Follows(Row(b, c), c)
      <4>1. Follows(b, c) => Row(b, c) = b
        BY <2>1, FollowsParts
      <4> QED
        BY <4>1
    <3>2. Row(Row(b, c), c) = Row(b, c)
      BY <2>1, RowTwice
    <3> QED
      BY <1>2, <2>1, <2>3, <3>1, <3>2
  <2> QED
    BY <2>2, <2>3
<1> QED
  BY <1>1, <1>2

LEMMA RefundsKeep ==
  ASSUME IInv, NEW j \in Jobs, BookRefunds(j), NEW p \in Orders
  PROVE  /\ \/ touched[p] + Timeout >= now
            \/ /\ Follows(books[p], local[p]) => Follows(books'[p], local[p])
               /\ Row(books[p], local[p]) = books[p] => Row(books'[p], local[p]) = books'[p]
         /\ p = job[j].order => Follows(books'[p], local[p]) \/ touched[p] + Timeout >= job[j].taken
<1>0. TypeOK /\ Lists /\ Clocks
  BY DEF IInv
<1>1. CASE p # job[j].order
  BY <1>0, <1>1, RefundsEffect DEF TypeOK
<1>2. CASE p = job[j].order
  <2> DEFINE b == books[p]
             c == job[j].copy[p]
  <2>1. b \in Books /\ books'[p] = AddRefunds(b, c) /\ c \in Content /\ c # None
    BY <1>0, <1>2, RefundsEffect, BookingAssumption DEF TypeOK, Lists
  <2>2. now <= job[j].taken + Timeout /\ job[j].taken \in Nat /\ touched[p] \in Nat /\ now \in Nat
    BY <1>0, RefundsEffect DEF Clocks, Alive, Importing, TypeOK, Slot
  <2>3. CASE c # local[p]
    <3>1. touched[p] >= job[j].taken
      BY <1>0, <1>2, <2>3, RefundsEffect DEF Lists
    <3> QED
      BY <2>2, <3>1, ImportAssumption
  <2>4. CASE c = local[p]
    <3>1. Follows(b, c) => Follows(AddRefunds(b, c), c)
      <4>1. CASE Rebooks(b, c)
        BY <2>1, <4>1, FollowsParts
      <4>2. CASE ~Rebooks(b, c)
        <5>1. ~Rebooks(AddRefunds(b, c), c)
          BY <2>1, <4>2, RowAfterRefunds
        <5> QED
          BY <5>1 DEF Follows, Book
      <4> QED
        BY <4>1, <4>2
    <3>2. Row(b, c) = b => Row(AddRefunds(b, c), c) = AddRefunds(b, c)
      BY <2>1, RowAfterRefunds
    <3>3. Row(b, c) = b \/ touched[p] + Timeout >= job[j].taken
      BY <1>0, <1>2, RefundsEffect DEF Lists, At
    <3>4. Row(b, c) = b => Follows(AddRefunds(b, c), c)
      BY <2>1, FollowsAfterRefunds
    <3> QED
      BY <2>1, <2>4, <3>1, <3>2, <3>3, <3>4
  <2> QED
    BY <2>3, <2>4
<1> QED
  BY <1>1, <1>2

LEMMA ListsStep == IInv /\ [Next]_vars => Lists'
<1> SUFFICES ASSUME IInv, [Next]_vars PROVE Lists'
  OBVIOUS
<1>0. TypeOK
  BY DEF IInv
<1>a. None \notin Contents /\ None \notin Content /\ Contents \subseteq Content
  BY ImportAssumption, BookingAssumption
<1>b. \A j \in Jobs : /\ job[j].taken \in Nat /\ job[j].since \in Nat \cup {None}
                         /\ job[j].todo \subseteq Orders
  BY <1>0, SlotTypes
<1> USE <1>0, <1>a, <1>b, ImportAssumption
    DEF IInv, TypeOK, Alive, At, Clocks, Importing, Lists, Others, pretixVars, localVars
<1>1. ASSUME NEW j \in Jobs, Dispatch(j) \/ Click(j) PROVE Lists'
  BY <1>1, DispatchEffect, Becomes
<1>2. ASSUME NEW j \in Jobs, Take(j) PROVE Lists'
  BY <1>2, TakeEffect
<1>3. ASSUME NEW j \in Jobs, Start(j) PROVE Lists'
  BY <1>3, StartEffect
<1>4. ASSUME NEW j \in Jobs, NEW o \in Orders, Fetch(j, o) PROVE Lists'
  BY <1>4, FetchEffect
<1>5. ASSUME NEW j \in Jobs, Store(j) PROVE Lists'
  BY <1>5, StoreEffect
<1>6. ASSUME NEW j \in Jobs, Succeed(j) \/ Close(j) PROVE Lists'
  BY <1>6, SucceedEffect, CloseEffect
<1>7. ASSUME NEW j \in Jobs, Lower(j) \/ Fail(j) \/ TimeOut(j) \/ Redeliver(j) PROVE Lists'
  BY <1>7, EndEffect
<1>8. ASSUME NEW j \in Jobs, Kill(j) PROVE Lists'
  BY <1>8, KillEffect
<1>9. ASSUME NEW o \in Orders, NEW c \in Contents, ChangeOrder(o, c) PROVE Lists'
  BY <1>9 DEF ChangeOrder, Change, localVars
<1>10. ASSUME Tick PROVE Lists'
  BY <1>10 DEF Tick, localVars
<1>11. ASSUME UNCHANGED vars PROVE Lists'
  BY <1>11 DEF vars
<1>12. ASSUME NEW o \in Orders, NEW c \in Contents, MarkPaid(o, c) PROVE Lists'
  BY <1>12 DEF MarkPaid, Change
<1>13. ASSUME NEW j \in Jobs, List(j) PROVE Lists'
  BY <1>13, ListEffect DEF Listed
<1>14. ASSUME NEW j \in Jobs, NEW o \in Orders, BookRow(j, o) PROVE Lists'
  BY <1>14, RowEffect, RowKeeps, RowTwice
<1>15. ASSUME NEW j \in Jobs, BookRefunds(j) PROVE Lists'
  BY <1>15, RefundsEffect, RefundsKeep
<1> QED
  BY <1>1, <1>2, <1>3, <1>4, <1>5, <1>6, <1>7, <1>8, <1>9, <1>10, <1>11, <1>12, <1>13,
     <1>14, <1>15 DEF Next, Work

LEMMA BookedStep == IInv /\ [Next]_vars => Booked'
<1> SUFFICES ASSUME IInv, [Next]_vars PROVE Booked'
  OBVIOUS
<1>0. TypeOK
  BY DEF IInv
<1>a. None \notin Contents /\ None \notin Content /\ Contents \subseteq Content
  BY ImportAssumption, BookingAssumption
<1>b. \A j \in Jobs : /\ job[j].taken \in Nat /\ job[j].since \in Nat \cup {None}
                         /\ job[j].todo \subseteq Orders
  BY <1>0, SlotTypes
<1> USE <1>0, <1>a, <1>b, ImportAssumption
    DEF IInv, TypeOK, Alive, At, Booked, BookedBy, Clocks, Importing, Lists, Others, UnbookedIsInReach, pretixVars, localVars
<1>1. ASSUME NEW j \in Jobs, Dispatch(j) \/ Click(j) PROVE Booked'
  BY <1>1, DispatchEffect, Becomes
<1>2. ASSUME NEW j \in Jobs, Take(j) PROVE Booked'
  BY <1>2, TakeEffect DEF Since, Follows
<1>3. ASSUME NEW j \in Jobs, Start(j) PROVE Booked'
  BY <1>3, StartEffect
<1>4. ASSUME NEW j \in Jobs, NEW o \in Orders, Fetch(j, o) PROVE Booked'
  BY <1>4, FetchEffect
<1>5. ASSUME NEW j \in Jobs, Store(j) PROVE Booked'
  BY <1>5, StoreEffect
<1>6. ASSUME NEW j \in Jobs, Succeed(j) \/ Close(j) PROVE Booked'
  BY <1>6, SucceedEffect, CloseEffect
<1>7. ASSUME NEW j \in Jobs, Lower(j) \/ Fail(j) \/ TimeOut(j) \/ Redeliver(j) PROVE Booked'
  BY <1>7, EndEffect
<1>8. ASSUME NEW j \in Jobs, Kill(j) PROVE Booked'
  BY <1>8, KillEffect
<1>9. ASSUME NEW o \in Orders, NEW c \in Contents, ChangeOrder(o, c) PROVE Booked'
  BY <1>9 DEF ChangeOrder, Change, localVars
<1>10. ASSUME Tick PROVE Booked'
  BY <1>10 DEF Tick, localVars
<1>11. ASSUME UNCHANGED vars PROVE Booked'
  BY <1>11 DEF vars
<1>12. ASSUME NEW o \in Orders, NEW c \in Contents, MarkPaid(o, c) PROVE Booked'
  BY <1>12 DEF MarkPaid, Change
<1>13. ASSUME NEW j \in Jobs, List(j) PROVE Booked'
  BY <1>13, ListEffect DEF Listed, Follows
<1>14. ASSUME NEW j \in Jobs, NEW o \in Orders, BookRow(j, o) PROVE Booked'
  <2>1. SUFFICES ASSUME NEW k \in Jobs, NEW p \in Orders, BookedBy(k, p)'
                 PROVE  Follows(books'[p], local[p]) \/ touched[p] + Timeout >= job[k].taken
    BY <1>14, RowEffect
  <2>2. job'[k].taken = job[k].taken /\ touched' = touched /\ touched[p] \in Nat
    BY <1>14, RowEffect
  <2>3. CASE BookedBy(k, p)
    <3>1. Follows(books[p], local[p]) \/ touched[p] + Timeout >= job[k].taken
      BY <2>3
    <3>2. now >= job[k].taken
      BY <2>3
    <3> QED
      BY <1>14, <2>2, <3>1, <3>2, RowKeeps
  <2>4. CASE ~BookedBy(k, p)
    <3>1. k = j /\ p = o /\ books' = books /\ ~Rebooks(books[o], job[j].copy[o]) /\ o \in job[j].todo
      BY <1>14, <2>1, <2>4, RowEffect
    <3>2. job[j].copy[o] = local[o] \/ touched[o] >= job[j].taken
      BY <1>14, <3>1, RowEffect
    <3>3. job[j].copy[o] = local[o] => Follows(books[o], local[o])
      BY <3>1 DEF Follows, Book
    <3> QED
      BY <2>2, <3>1, <3>2, <3>3
  <2> QED
    BY <2>3, <2>4
<1>15. ASSUME NEW j \in Jobs, BookRefunds(j) PROVE Booked'
  BY <1>15, RefundsEffect, RefundsKeep
<1> QED
  BY <1>1, <1>2, <1>3, <1>4, <1>5, <1>6, <1>7, <1>8, <1>9, <1>10, <1>11, <1>12, <1>13,
     <1>14, <1>15 DEF Next, Work

LEMMA UnbookedStep == IInv /\ [Next]_vars => UnbookedIsInReach'
<1> SUFFICES ASSUME IInv, [Next]_vars PROVE UnbookedIsInReach'
  OBVIOUS
<1>0. TypeOK
  BY DEF IInv
<1>a. None \notin Contents /\ None \notin Content /\ Contents \subseteq Content
  BY ImportAssumption, BookingAssumption
<1>b. \A j \in Jobs : /\ job[j].taken \in Nat /\ job[j].since \in Nat \cup {None}
                         /\ job[j].todo \subseteq Orders
  BY <1>0, SlotTypes
<1> USE <1>0, <1>a, <1>b, ImportAssumption
    DEF IInv, TypeOK, Alive, At, Booked, BookedBy, Clocks, Importing, Others, UnbookedIsInReach, pretixVars, localVars
<1>1. ASSUME NEW j \in Jobs, Dispatch(j) \/ Click(j) PROVE UnbookedIsInReach'
  BY <1>1, DispatchEffect, Becomes
<1>2. ASSUME NEW j \in Jobs, Take(j) PROVE UnbookedIsInReach'
  BY <1>2, TakeEffect
<1>3. ASSUME NEW j \in Jobs, Start(j) PROVE UnbookedIsInReach'
  BY <1>3, StartEffect
<1>4. ASSUME NEW j \in Jobs, NEW o \in Orders, Fetch(j, o) PROVE UnbookedIsInReach'
  BY <1>4, FetchEffect
<1>5. ASSUME NEW j \in Jobs, Store(j) PROVE UnbookedIsInReach'
  BY <1>5, StoreEffect
<1>6. ASSUME NEW j \in Jobs, Succeed(j) \/ Close(j) PROVE UnbookedIsInReach'
  <2>1. CASE Close(j)
    BY <2>1, CloseEffect
  <2>2. CASE Succeed(j)
    <3>1. SUFFICES ASSUME NEW p \in Orders
                   PROVE  Follows(books[p], local[p]) \/ touched[p] + Margin >= now
      BY <2>2, SucceedEffect DEF Follows
    <3>2. Follows(books[p], local[p]) \/ touched[p] + Timeout >= job[j].taken
      BY <2>2, SucceedEffect
    <3>3. now <= job[j].taken + Timeout
      BY <2>2, SucceedEffect
    <3>4. touched[p] \in Nat /\ now \in Nat
      OBVIOUS
    <3> QED
      BY <3>2, <3>3, <3>4
  <2> QED
    BY <1>6, <2>1, <2>2
<1>7. ASSUME NEW j \in Jobs, Lower(j) \/ Fail(j) \/ TimeOut(j) \/ Redeliver(j) PROVE UnbookedIsInReach'
  BY <1>7, EndEffect
<1>8. ASSUME NEW j \in Jobs, Kill(j) PROVE UnbookedIsInReach'
  BY <1>8, KillEffect
<1>9. ASSUME NEW o \in Orders, NEW c \in Contents, ChangeOrder(o, c) PROVE UnbookedIsInReach'
  BY <1>9 DEF ChangeOrder, Change, localVars
<1>10. ASSUME Tick PROVE UnbookedIsInReach'
  BY <1>10 DEF Tick, localVars
<1>11. ASSUME UNCHANGED vars PROVE UnbookedIsInReach'
  BY <1>11 DEF vars
<1>12. ASSUME NEW o \in Orders, NEW c \in Contents, MarkPaid(o, c) PROVE UnbookedIsInReach'
  BY <1>12 DEF MarkPaid, Change
<1>13. ASSUME NEW j \in Jobs, List(j) PROVE UnbookedIsInReach'
  BY <1>13, ListEffect
<1>14. ASSUME NEW j \in Jobs, NEW o \in Orders, BookRow(j, o) PROVE UnbookedIsInReach'
  <2>1. SUFFICES ASSUME NEW p \in Orders
                 PROVE  \/ Follows(books'[p], local[p])
                        \/ watermark = None \/ touched[p] + Margin >= watermark
    BY <1>14, RowEffect DEF Follows
  <2>2. touched[p] \in Nat /\ (watermark = None \/ (watermark \in Nat /\ watermark <= now))
    OBVIOUS
  <2>3. \/ touched[p] + Timeout >= now
        \/ Follows(books[p], local[p]) => Follows(books'[p], local[p])
    BY <1>14, RowKeeps
  <2>4. Follows(books[p], local[p]) \/ watermark = None \/ touched[p] + Margin >= watermark
    BY DEF Follows
  <2> QED
    BY <2>2, <2>3, <2>4
<1>15. ASSUME NEW j \in Jobs, BookRefunds(j) PROVE UnbookedIsInReach'
  <2>1. SUFFICES ASSUME NEW p \in Orders
                 PROVE  \/ Follows(books'[p], local[p])
                        \/ watermark = None \/ touched[p] + Margin >= watermark
    BY <1>15, RefundsEffect DEF Follows
  <2>2. touched[p] \in Nat /\ (watermark = None \/ (watermark \in Nat /\ watermark <= now))
    OBVIOUS
  <2>3. \/ touched[p] + Timeout >= now
        \/ Follows(books[p], local[p]) => Follows(books'[p], local[p])
    BY <1>15, RefundsKeep
  <2>4. Follows(books[p], local[p]) \/ watermark = None \/ touched[p] + Margin >= watermark
    BY DEF Follows
  <2> QED
    BY <2>2, <2>3, <2>4
<1> QED
  BY <1>1, <1>2, <1>3, <1>4, <1>5, <1>6, <1>7, <1>8, <1>9, <1>10, <1>11, <1>12, <1>13,
     <1>14, <1>15 DEF Next, Work

LEMMA OwnersStep == IInv /\ [Next]_vars => Owners'
<1> SUFFICES ASSUME IInv, [Next]_vars PROVE Owners'
  OBVIOUS
<1>0. TypeOK
  BY DEF IInv
<1>a. None \notin Contents /\ None \notin Content /\ Contents \subseteq Content
  BY ImportAssumption, BookingAssumption
<1>b. \A j \in Jobs : /\ job[j].taken \in Nat /\ job[j].since \in Nat \cup {None}
                         /\ job[j].todo \subseteq Orders
  BY <1>0, SlotTypes
<1> USE <1>0, <1>a, <1>b, ImportAssumption
    DEF IInv, TypeOK, Alive, At, Clocks, Importing, Others, Owners, Running, pretixVars, localVars
<1>1. ASSUME NEW j \in Jobs, Dispatch(j) \/ Click(j) PROVE Owners'
  BY <1>1, DispatchEffect, Becomes
<1>2. ASSUME NEW j \in Jobs, Take(j) PROVE Owners'
  BY <1>2, TakeEffect
<1>3. ASSUME NEW j \in Jobs, Start(j) PROVE Owners'
  BY <1>3, StartEffect
<1>4. ASSUME NEW j \in Jobs, NEW o \in Orders, Fetch(j, o) PROVE Owners'
  BY <1>4, FetchEffect
<1>5. ASSUME NEW j \in Jobs, Store(j) PROVE Owners'
  BY <1>5, StoreEffect
<1>6. ASSUME NEW j \in Jobs, Succeed(j) \/ Close(j) PROVE Owners'
  BY <1>6, SucceedEffect, CloseEffect
<1>7. ASSUME NEW j \in Jobs, Lower(j) \/ Fail(j) \/ TimeOut(j) \/ Redeliver(j) PROVE Owners'
  <2>1. Others(j) /\ now' = now /\ runs' \subseteq runs
    BY <1>7, EndEffect DEF Lower, Fail, TimeOut, Redeliver
  <2>2. ASSUME NEW t \in Nat, <<j, t>> \in runs', now < t + Timeout PROVE FALSE
    <3>1. <<j, t>> \in runs /\ job[j].pc \in Running \cup {"lost"} /\ job[j].taken = t
      BY <2>1, <2>2
    <3>2. CASE Lower(j)
      BY <3>1, <3>2 DEF Lower
    <3>3. CASE Fail(j)
      BY <2>2, <3>1, <3>3 DEF Fail
    <3>4. CASE TimeOut(j)
      BY <2>2, <3>1, <3>4 DEF TimeOut
    <3>5. CASE Redeliver(j)
      BY <2>2, <3>1, <3>5 DEF Redeliver
    <3> QED
      BY <1>7, <3>2, <3>3, <3>4, <3>5
  <2> QED
    BY <2>1, <2>2
<1>8. ASSUME NEW j \in Jobs, Kill(j) PROVE Owners'
  BY <1>8, KillEffect
<1>9. ASSUME NEW o \in Orders, NEW c \in Contents, ChangeOrder(o, c) PROVE Owners'
  BY <1>9 DEF ChangeOrder, Change, localVars
<1>12. ASSUME NEW o \in Orders, NEW c \in Contents, MarkPaid(o, c) PROVE Owners'
  BY <1>12 DEF MarkPaid, Change
<1>13. ASSUME NEW j \in Jobs, List(j) PROVE Owners'
  BY <1>13, ListEffect
<1>14. ASSUME NEW j \in Jobs, NEW o \in Orders, BookRow(j, o) PROVE Owners'
  BY <1>14, RowEffect
<1>15. ASSUME NEW j \in Jobs, BookRefunds(j) PROVE Owners'
  BY <1>15, RefundsEffect
<1>10. ASSUME Tick PROVE Owners'
  BY <1>10 DEF Tick, localVars
<1>11. ASSUME UNCHANGED vars PROVE Owners'
  BY <1>11 DEF vars
<1> QED
  BY <1>1, <1>2, <1>3, <1>4, <1>5, <1>6, <1>7, <1>8, <1>9, <1>10, <1>11, <1>12, <1>13,
     <1>14, <1>15 DEF Next, Work

LEMMA FlagStep == IInv /\ [Next]_vars => FlagHasAnOwner'
<1> SUFFICES ASSUME IInv, [Next]_vars PROVE FlagHasAnOwner'
  OBVIOUS
<1>0. TypeOK
  BY DEF IInv
<1>a. None \notin Contents /\ None \notin Content /\ Contents \subseteq Content
  BY ImportAssumption, BookingAssumption
<1>b. \A j \in Jobs : /\ job[j].taken \in Nat /\ job[j].since \in Nat \cup {None}
                         /\ job[j].todo \subseteq Orders
  BY <1>0, SlotTypes
<1> USE <1>0, <1>a, <1>b, ImportAssumption
    DEF IInv, TypeOK, Active, Alive, At, FlagHasAnOwner, Importing, Others, Owners, Running, pretixVars, localVars
<1>1. ASSUME NEW j \in Jobs, Dispatch(j) \/ Click(j) PROVE FlagHasAnOwner'
  BY <1>1, DispatchEffect, Becomes
<1>2. ASSUME NEW j \in Jobs, Take(j) PROVE FlagHasAnOwner'
  <2>1. CASE ~Active
    BY <1>2, <2>1, TakeEffect
  <2>2. CASE Active
    <3>1. PICK r \in runs : now < r[2] + Timeout
      BY <2>2
    <3>2. r[1] \in Jobs /\ r[2] \in Nat /\ <<r[1], r[2]>> \in runs
      BY <3>1
    <3>3. job[r[1]].pc \in Running \cup {"lost"}
      BY <3>1, <3>2
    <3>4. r[1] # j /\ job'[r[1]] = job[r[1]]
      BY <1>2, <3>2, <3>3, TakeEffect
    <3> QED
      BY <3>2, <3>3, <3>4
  <2> QED
    BY <2>1, <2>2
<1>3. ASSUME NEW j \in Jobs, Start(j) PROVE FlagHasAnOwner'
  BY <1>3, StartEffect
<1>4. ASSUME NEW j \in Jobs, NEW o \in Orders, Fetch(j, o) PROVE FlagHasAnOwner'
  BY <1>4, FetchEffect
<1>5. ASSUME NEW j \in Jobs, Store(j) PROVE FlagHasAnOwner'
  BY <1>5, StoreEffect
<1>6. ASSUME NEW j \in Jobs, Succeed(j) \/ Close(j) PROVE FlagHasAnOwner'
  BY <1>6, SucceedEffect, CloseEffect
<1>7. ASSUME NEW j \in Jobs, Lower(j) \/ Fail(j) \/ TimeOut(j) \/ Redeliver(j) PROVE FlagHasAnOwner'
  BY <1>7, EndEffect
<1>8. ASSUME NEW j \in Jobs, Kill(j) PROVE FlagHasAnOwner'
  BY <1>8, KillEffect
<1>9. ASSUME NEW o \in Orders, NEW c \in Contents, ChangeOrder(o, c) PROVE FlagHasAnOwner'
  BY <1>9 DEF ChangeOrder, Change, localVars
<1>12. ASSUME NEW o \in Orders, NEW c \in Contents, MarkPaid(o, c) PROVE FlagHasAnOwner'
  BY <1>12 DEF MarkPaid, Change
<1>13. ASSUME NEW j \in Jobs, List(j) PROVE FlagHasAnOwner'
  BY <1>13, ListEffect
<1>14. ASSUME NEW j \in Jobs, NEW o \in Orders, BookRow(j, o) PROVE FlagHasAnOwner'
  BY <1>14, RowEffect
<1>15. ASSUME NEW j \in Jobs, BookRefunds(j) PROVE FlagHasAnOwner'
  BY <1>15, RefundsEffect
<1>10. ASSUME Tick PROVE FlagHasAnOwner'
  BY <1>10 DEF Tick, localVars
<1>11. ASSUME UNCHANGED vars PROVE FlagHasAnOwner'
  BY <1>11 DEF vars
<1> QED
  BY <1>1, <1>2, <1>3, <1>4, <1>5, <1>6, <1>7, <1>8, <1>9, <1>10, <1>11, <1>12, <1>13,
     <1>14, <1>15 DEF Next, Work

(***************************************************************************)
(* The theorems.                                                           *)
(***************************************************************************)

\* The strengthened invariant: what a run is about to write, has dealt with or leaves
\* behind in pretix_import_runs, together with the four clauses a reader cares about.
THEOREM Inductive == Spec => []IInv
<1>1. IInv /\ [Next]_vars => IInv'
  BY TypeStep, ClocksStep, PagesStep, ProgressStep, ListsStep, BookedStep, MissedStep, UnbookedStep,
     OwnersStep, FlagStep DEF IInv
<1> QED
  BY InitInv, <1>1, PTL DEF Spec

\* Every state of the import has its type.
THEOREM TypeCorrect == Spec => []TypeOK
<1>1. IInv => TypeOK
  BY DEF IInv
<1> QED
  BY Inductive, <1>1, PTL

\* However many imports overlap, are killed or write an older page over a newer one: an
\* order the local copy is behind on changed late enough for the next incremental fetch.
THEOREM NothingOutOfReach == Spec => []MissedIsInReach
<1>1. IInv => MissedIsInReach
  BY DEF IInv
<1> QED
  BY Inductive, <1>1, PTL

\* However runs overlap, book from an old list or end between two statements: to book an
\* order again that the next run leaves out would change nothing.
THEOREM NothingUnbooked == Spec => []UnbookedIsInReach
<1>1. IInv => UnbookedIsInReach
  BY DEF IInv
<1> QED
  BY Inductive, <1>1, PTL

\* import_running is never left up with no job behind it that takes it down.
THEOREM FlagNeverSticks == Spec => []FlagHasAnOwner
<1>1. IInv => FlagHasAnOwner
  BY DEF IInv
<1> QED
  BY Inductive, <1>1, PTL

(***************************************************************************)
(* Imports overlap only when they begin at the same time.                  *)
(***************************************************************************)

\* From the look at the guard until the run is closed.
Working == {"create"} \cup Running
OutOfTime(j) == now >= job[j].taken + Timeout

\* A run that has time left is on record, so that the guard sees it.
OnRecord == \A j \in Jobs : job[j].pc \in Running /\ ~OutOfTime(j) => <<j, job[j].taken>> \in runs

InTurn ==
  \A i, j \in Jobs :
    job[i].pc \in Working /\ job[j].pc \in Working
      => job[i].taken = job[j].taken \/ OutOfTime(i) \/ OutOfTime(j)

GuardInv == OnRecord /\ InTurn

\* What the steps of a job mean to the guard: it goes on, has looked at the guard, has written
\* its run, or is no longer at work.
GoesOn(j) == job[j].pc \in Running /\ job'[j].pc \in Running /\ job'[j].taken = job[j].taken /\ runs' = runs
Looks(j) == ~Active /\ job'[j].pc = "create" /\ job'[j].taken = now /\ runs' = runs
Enters(j) ==
  /\ job[j].pc = "create" /\ job'[j].pc = "fetch" /\ job'[j].taken = job[j].taken
  /\ runs' = runs \cup {<<j, now>>}
Stops(j) ==
  /\ job'[j].pc \notin Working
  /\ runs' = runs \/ \E t \in Nat : runs' = runs \ {<<j, t>>}

LEMMA WorkGuard ==
  ASSUME IInv, NEW j \in Jobs, Work(j)
  PROVE  Others(j) /\ now' = now /\ (GoesOn(j) \/ Looks(j) \/ Enters(j) \/ Stops(j))
<1> USE DEF Working, Running
<1>0. TypeOK /\ Lists /\ job[j].taken \in Nat
  BY SlotTypes DEF IInv
<1>1. ASSUME Dispatch(j) \/ Click(j) PROVE Others(j) /\ now' = now /\ Stops(j)
  BY <1>0, <1>1, DispatchEffect DEF Stops
<1>2. ASSUME Take(j) PROVE Others(j) /\ now' = now /\ (Looks(j) \/ Stops(j))
  BY <1>0, <1>2, TakeEffect DEF Looks, Stops
<1>3. ASSUME Start(j) PROVE Others(j) /\ now' = now /\ Enters(j)
  BY <1>0, <1>3, StartEffect DEF Enters
<1>4. ASSUME NEW o \in Orders, Fetch(j, o) \/ BookRow(j, o)
      PROVE  Others(j) /\ now' = now /\ GoesOn(j)
  BY <1>0, <1>4, FetchEffect, RowEffect DEF GoesOn
<1>5. ASSUME Store(j) \/ List(j) \/ BookRefunds(j) \/ Succeed(j)
      PROVE  Others(j) /\ now' = now /\ GoesOn(j)
  BY <1>0, <1>5, StoreEffect, ListEffect, RefundsEffect, SucceedEffect DEF GoesOn
<1>6. ASSUME Close(j) PROVE Others(j) /\ now' = now /\ Stops(j)
  BY <1>0, <1>6, CloseEffect DEF Stops
<1>7. ASSUME Lower(j) \/ Fail(j) \/ TimeOut(j) \/ Redeliver(j)
      PROVE  Others(j) /\ now' = now /\ Stops(j)
  <2>1. job'[j].pc = "idle" /\ Others(j) /\ now' = now
    BY <1>0, <1>7, EndEffect
  <2>2. runs' = runs \/ runs' = runs \ {<<j, job[j].taken>>}
    BY <1>7 DEF Lower, Fail, TimeOut, Redeliver
  <2> QED
    BY <1>0, <2>1, <2>2 DEF Stops
<1>8. ASSUME Kill(j) PROVE Others(j) /\ now' = now /\ Stops(j)
  BY <1>0, <1>8, KillEffect DEF Stops
<1> QED
  BY <1>1, <1>2, <1>3, <1>4, <1>5, <1>6, <1>7, <1>8 DEF Work

LEMMA GuardStep == IInv /\ GuardInv /\ [Next]_vars => GuardInv'
<1> SUFFICES ASSUME IInv, GuardInv, [Next]_vars PROVE GuardInv'
  OBVIOUS
<1>0. /\ now \in Nat /\ Timeout \in Nat /\ \A j \in Jobs : job[j].taken \in Nat
      /\ runs \subseteq Jobs \X Nat
      /\ \A j \in Jobs : job[j].pc = "create" => job[j].taken = now
  BY SlotTypes, ImportAssumption DEF IInv, TypeOK, Clocks, At
<1>1. ASSUME NEW j \in Jobs, Work(j) PROVE GuardInv'
  <2>1. Others(j) /\ now' = now /\ (GoesOn(j) \/ Looks(j) \/ Enters(j) \/ Stops(j))
    BY <1>1, WorkGuard
  <2>2. \A k \in Jobs : k # j => job'[k] = job[k]
    BY <2>1 DEF Others
  <2>3. OnRecord'
    <3>1. CASE GoesOn(j)
      BY <2>1, <2>2, <3>1 DEF GoesOn, GuardInv, OnRecord, OutOfTime
    <3>2. CASE Looks(j)
      BY <2>1, <2>2, <3>2 DEF Looks, GuardInv, OnRecord, OutOfTime, Running
    <3>3. CASE Enters(j)
      BY <1>0, <2>1, <2>2, <3>3 DEF Enters, GuardInv, OnRecord, OutOfTime
    <3>4. CASE Stops(j)
      BY <2>1, <2>2, <3>4 DEF Stops, Working, GuardInv, OnRecord, OutOfTime
    <3> QED
      BY <2>1, <3>1, <3>2, <3>3, <3>4
  <2>4. InTurn'
    <3>1. CASE Looks(j)
      <4>1. \A k \in Jobs : job[k].pc \in Running => OutOfTime(k)
        <5> SUFFICES ASSUME NEW k \in Jobs, job[k].pc \in Running, ~OutOfTime(k) PROVE FALSE
          OBVIOUS
        <5>1. <<k, job[k].taken>> \in runs /\ now < job[k].taken + Timeout
          BY <1>0 DEF GuardInv, OnRecord, OutOfTime
        <5> QED
          BY <3>1, <5>1 DEF Looks, Active
      <4>2. \A k \in Jobs : job[k].pc \in Working => job[k].taken = now \/ OutOfTime(k)
        BY <1>0, <4>1 DEF Working
      <4>3. \A k \in Jobs : job'[k].pc \in Working => job'[k].taken = now' \/ OutOfTime(k)'
        BY <2>1, <2>2, <3>1, <4>2 DEF Looks, OutOfTime
      <4> QED
        BY <4>3 DEF InTurn
    <3>2. CASE GoesOn(j) \/ Enters(j) \/ Stops(j)
      <4>1. \A k \in Jobs : job'[k].pc \in Working => job[k].pc \in Working /\ job'[k].taken = job[k].taken
        BY <2>2, <3>2 DEF GoesOn, Enters, Stops, Working
      <4> QED
        BY <2>1, <4>1 DEF GuardInv, InTurn, OutOfTime
    <3> QED
      BY <2>1, <3>1, <3>2
  <2> QED
    BY <2>3, <2>4 DEF GuardInv
<1>2. CASE Tick
  <2>1. now' = now + 1 /\ runs' = {r \in runs : now' < r[2] + Timeout} /\ job' = job
    BY <1>2 DEF Tick
  <2>2. OnRecord'
    BY <1>0, <2>1 DEF GuardInv, OnRecord, OutOfTime
  <2>3. InTurn'
    BY <1>0, <2>1 DEF GuardInv, InTurn, OutOfTime
  <2> QED
    BY <2>2, <2>3 DEF GuardInv
<1>3. ASSUME UNCHANGED <<now, runs, job>> PROVE GuardInv'
  BY <1>3 DEF GuardInv, OnRecord, InTurn, OutOfTime
<1>4. ASSUME NEW o \in Orders, NEW c \in Contents, ChangeOrder(o, c) \/ MarkPaid(o, c) PROVE GuardInv'
  BY <1>3, <1>4 DEF ChangeOrder, MarkPaid
<1>5. CASE UNCHANGED vars
  BY <1>3, <1>5 DEF vars
<1> QED
  BY <1>1, <1>2, <1>4, <1>5 DEF Next

\* The guard leaves one gap and no other: however many jobs are dispatched, killed and handed
\* out again, two imports are at work together only if they looked at the same moment or one
\* of them has used up its time.
THEOREM OverlapsAreRare == Spec => []OverlapsOnlyAtOnce
<1>1. Init => GuardInv
  BY DEF Init, GuardInv, OnRecord, InTurn, Working, Running, Idle
<1>2. GuardInv => OverlapsOnlyAtOnce
  <2> SUFFICES ASSUME GuardInv, NEW i \in Jobs, NEW j \in Jobs,
                      {job[i].pc, job[j].pc} \subseteq Importing \ {"clear"}
               PROVE  job[i].taken = job[j].taken \/ \E k \in {i, j} : now >= job[k].taken + Timeout
    BY DEF OverlapsOnlyAtOnce
  <2>1. job[i].pc \in Working /\ job[j].pc \in Working
    BY DEF Importing, Working, Running
  <2> QED
    BY <2>1 DEF GuardInv, InTurn, OutOfTime
<1> QED
  BY <1>1, <1>2, GuardStep, Inductive, PTL DEF Spec
=============================================================================
