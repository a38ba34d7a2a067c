---------------------------- MODULE BankDesk_proofs ----------------------------
(***************************************************************************)
(* Proofs about BankDesk, for any number of lines, orders, payments and    *)
(* people.  That a reported line has its confirmation on record holds      *)
(* however many runs there are; that no transaction is linked twice, that  *)
(* the links are those of LinkBook, and that a dismissed proposal stays    *)
(* dismissed, as long as there is one run.                                 *)
(***************************************************************************)
EXTENDS BankDesk, TLAPS

Reporting == {"ask", "result"}

\* What each stage of a run, or of a person, knows about the rows it is going to write.
Stage(w) ==
  /\ proc[w].pc \in {"insert", "list", "match", "offer"} => w \in Runs
  /\ proc[w].pc \in {"list", "match"} => proc[w].claimed \subseteq Transactions
  /\ proc[w].pc \in {"offer"} \cup Reporting => proc[w].claimed \subseteq Orders
  /\ proc[w].pc \in {"list", "match", "offer"} \cup Reporting => proc[w].todo \subseteq Known
  /\ proc[w].pc \in Reporting =>
       /\ proc[w].line \in Known /\ proc[w].code \in Orders
       /\ proc[w].was \in Reports \ {"reported"}
  /\ At(w, "result") /\ proc[w].outcome = "confirmed" => <<proc[w].code, proc[w].line>> \in rows

IInv == TypeOK /\ (\A w \in Workers : Stage(w)) /\ ReportedIsOnRecord

\* With one run: it knows every transaction a row holds, and nobody offers a line it has
\* still to offer.
OneRun == \A r, s \in Runs : r = s
Claims == \A w \in Workers : At(w, "match") => Claimed \subseteq proc[w].claimed
Offers ==
  \A w \in Workers : w \in Runs /\ proc[w].pc \in {"offer"} \cup Reporting =>
    \A l \in proc[w].todo : bank[l].report \notin {"proposed", "dismissed"}

SerialInv == IInv /\ Claims /\ Offers /\ OneLinePerTransaction

(***************************************************************************)
(* Pieces of a step.                                                       *)
(***************************************************************************)

\* What Become() does to the table of processes.
LEMMA Becomes ==
  ASSUME TypeOK, NEW w \in Workers, NEW s, Become(w, s)
  PROVE  /\ proc'[w] = s
         /\ \A v \in Workers : v # w => proc'[v] = proc[v]
         /\ s \in Procs => proc' \in [Workers -> Procs]
BY DEF TypeOK, Become

\* A row that is there has its type.
LEMMA RowTyped == ASSUME TypeOK, NEW l \in Known PROVE l \in Lines /\ bank[l] \in Rows
BY DEF TypeOK, Known

LEMMA FreeTyped ==
  ASSUME TypeOK, NEW w \in Workers, NEW ps \in SUBSET Payments
  PROVE  Free(w, ps) \subseteq Transactions /\ Free(w, ps) \cap proc[w].claimed = {}
<1>1. ASSUME NEW p \in Payments, revision[p] > 0 PROVE Current(p) \in Transactions
  <2>1. revision[p] \in 1 .. MaxRevision[p]
    BY <1>1, BankAssumption DEF TypeOK
  <2>2. Current(p) \in {p} \X (1 .. MaxRevision[p])
    BY <2>1 DEF Current
  <2> QED
    BY <2>2 DEF Transactions
<1> QED
  BY <1>1 DEF Free

LEMMA CandidatesTyped ==
  ASSUME TypeOK, NEW w \in Workers, NEW l \in Lines, NEW t \in Candidates(w, l)
  PROVE  t \in Transactions /\ t \notin proc[w].claimed
<1>1. Payouts[l] \in SUBSET Payments /\ Transfers[l] \in SUBSET Payments
  BY BankAssumption
<1> QED
  BY <1>1, FreeTyped DEF Candidates

\* A row that is written is there afterwards, and the others are as they were.
LEMMA Writes ==
  ASSUME TypeOK, NEW l \in Lines, NEW r \in Rows, bank' = [bank EXCEPT ![l] = r]
  PROVE  /\ bank' \in [Lines -> Rows \cup {None}]
         /\ bank'[l] = r /\ \A k \in Lines : k # l => bank'[k] = bank[k]
         /\ Known' = Known \cup {l}
<1>1. bank'[l] = r /\ \A k \in Lines : k # l => bank'[k] = bank[k]
  BY DEF TypeOK
<1>2. bank' \in [Lines -> Rows \cup {None}]
  BY DEF TypeOK
<1> QED
  BY <1>1, <1>2, NoRow DEF Known

\* What a process knows stays true while others write: rows stay, and so do confirmations.
LEMMA StageStands ==
  ASSUME NEW w \in Workers, Stage(w), proc'[w] = proc[w], Known \subseteq Known', rows \subseteq rows'
  PROVE  Stage(w)'
BY DEF Stage, At

\* A step of one process that writes no row.
LEMMA Quiet ==
  ASSUME IInv, NEW w \in Workers, NEW s \in Procs, Become(w, s),
         UNCHANGED <<revision, bank>>, orders' \in [Orders -> {"n", "p"}],
         rows \subseteq rows', rows' \subseteq Orders \X Lines, Stage(w)'
  PROVE  IInv'
<1>1. TypeOK /\ ReportedIsOnRecord
  BY DEF IInv
<1>2. proc' \in [Workers -> Procs] /\ \A v \in Workers : v # w => proc'[v] = proc[v]
  BY <1>1, Becomes
<1>3. TypeOK'
  BY <1>1, <1>2 DEF TypeOK
<1>4. Known' = Known
  BY DEF Known
<1>5. \A v \in Workers : Stage(v)'
  BY <1>2, <1>4, StageStands DEF IInv
<1>6. ReportedIsOnRecord'
  BY <1>1, <1>4 DEF ReportedIsOnRecord
<1> QED
  BY <1>3, <1>5, <1>6 DEF IInv

\* A step of one process that writes a row.
LEMMA RowWritten ==
  ASSUME IInv, NEW w \in Workers, NEW s \in Procs, Become(w, s),
         NEW l \in Lines, NEW r \in Rows, bank' = [bank EXCEPT ![l] = r],
         r.report = "reported" =>
           (l \in Known /\ bank[l].report = "reported") \/ \E o \in Orders : <<o, l>> \in rows,
         UNCHANGED <<orders, revision, rows>>, Stage(w)'
  PROVE  IInv'
<1>1. TypeOK /\ ReportedIsOnRecord
  BY DEF IInv
<1>2. proc' \in [Workers -> Procs] /\ \A v \in Workers : v # w => proc'[v] = proc[v]
  BY <1>1, Becomes
<1>3. /\ bank' \in [Lines -> Rows \cup {None}] /\ Known' = Known \cup {l}
      /\ bank'[l] = r /\ \A k \in Lines : k # l => bank'[k] = bank[k]
  BY <1>1, Writes
<1>4. TypeOK'
  BY <1>1, <1>2, <1>3 DEF TypeOK
<1>5. \A v \in Workers : Stage(v)'
  BY <1>2, <1>3, StageStands DEF IInv
<1>6. ReportedIsOnRecord'
  <2> SUFFICES ASSUME NEW k \in Known', bank'[k].report = "reported"
               PROVE  \E o \in Orders : <<o, k>> \in rows'
    BY DEF ReportedIsOnRecord
  <2>1. CASE k = l
    BY <1>1, <1>3, <2>1 DEF ReportedIsOnRecord
  <2>2. CASE k # l
    BY <1>1, <1>3, <2>2 DEF ReportedIsOnRecord, Known
  <2> QED
    BY <2>1, <2>2
<1> QED
  BY <1>4, <1>5, <1>6 DEF IInv

LEMMA IdleTyped == Idle \in Procs
BY DEF Idle, Procs

LEMMA InitInv == Init => IInv
<1> SUFFICES ASSUME Init PROVE IInv
  OBVIOUS
<1>1. TypeOK
  BY IdleTyped, BankAssumption DEF Init, TypeOK
<1>2. Known = {}
  BY DEF Init, Known
<1>3. \A w \in Workers : proc[w].pc = "idle"
  BY DEF Init, Idle
<1>4. \A w \in Workers : Stage(w)
  BY <1>3 DEF Stage, Reporting, At
<1> QED
  BY <1>1, <1>2, <1>4 DEF IInv, ReportedIsOnRecord

(***************************************************************************)
(* One lemma per action.                                                   *)
(***************************************************************************)

LEMMA BeginImportStep ==
  ASSUME IInv, NEW w \in Runs, BeginImport(w)
  PROVE  IInv'
<1>1. PICK x \in Statements : Become(w, [Idle EXCEPT !.pc = "insert", !.todo = x])
  BY DEF BeginImport
<1> DEFINE s == [Idle EXCEPT !.pc = "insert", !.todo = x]
<1>2. w \in Workers /\ x \subseteq Lines
  BY BankAssumption DEF Workers
<1>3. s \in Procs /\ s.pc = "insert"
  BY <1>2 DEF Idle, Procs
<1>4. proc'[w] = s
  BY <1>1, <1>2, Becomes DEF IInv
<1> HIDE DEF s
<1>5. Stage(w)'
  BY <1>3, <1>4 DEF Stage, Reporting, At
<1> QED
  BY <1>1, <1>2, <1>3, <1>5, Quiet DEF BeginImport, IInv, TypeOK, s

LEMMA InsertLineStep ==
  ASSUME IInv, NEW w \in Workers, NEW l \in Lines, InsertLine(w, l)
  PROVE  IInv'
<1> DEFINE s == [proc[w] EXCEPT !.todo = @ \ {l}]
           r == IF bank[l] = None THEN NewRow ELSE bank[l]
<1>1. TypeOK /\ Stage(w) /\ proc[w] \in Procs
  BY DEF IInv, TypeOK
<1>2. r \in Rows
  BY <1>1 DEF TypeOK, NewRow, Rows, Reports
<1>3. r.report = "reported" => l \in Known /\ bank[l].report = "reported"
  BY DEF NewRow, Known
<1>4. s \in Procs /\ s.pc = "insert" /\ proc'[w] = s
  BY <1>1, Becomes DEF InsertLine, At, Procs
<1>5. Stage(w)'
  BY <1>1, <1>4 DEF InsertLine, Stage, Reporting, At
<1>6. bank' = [bank EXCEPT ![l] = r] /\ Become(w, s) /\ UNCHANGED <<orders, revision, rows>>
  BY DEF InsertLine
<1> HIDE DEF s, r
<1> QED
  BY <1>2, <1>3, <1>4, <1>5, <1>6, RowWritten

LEMMA ListUnmatchedStep ==
  ASSUME IInv, NEW w \in Workers, ListUnmatched(w)
  PROVE  IInv'
<1> DEFINE s == [Idle EXCEPT !.pc = "list", !.todo = Unmatched]
<1>1. TypeOK /\ Stage(w)
  BY DEF IInv
<1>2. Unmatched \subseteq Known /\ Known \subseteq Lines
  BY DEF Unmatched, Known
<1>3. s \in Procs /\ s.pc = "list" /\ s.todo = Unmatched /\ s.claimed = {}
  BY <1>2 DEF Idle, Procs
<1>4. proc'[w] = s /\ UNCHANGED <<orders, revision, bank, rows>> /\ Become(w, s)
  BY <1>1, Becomes DEF ListUnmatched
<1>5. w \in Runs
  BY <1>1 DEF ListUnmatched, Stage, At
<1>6. Known' = Known
  BY <1>4 DEF Known
<1> HIDE DEF s
<1>7. Stage(w)'
  BY <1>2, <1>3, <1>4, <1>5, <1>6 DEF Stage, Reporting, At
<1> QED
  BY <1>1, <1>3, <1>4, <1>7, Quiet DEF TypeOK

LEMMA ClaimedTyped == TypeOK => Claimed \subseteq Transactions
BY RowTyped DEF Claimed, Rows

LEMMA ReadClaimedStep ==
  ASSUME IInv, NEW w \in Workers, ReadClaimed(w)
  PROVE  IInv'
<1> DEFINE s == [proc[w] EXCEPT !.pc = "match", !.claimed = Claimed]
<1>1. TypeOK /\ Stage(w) /\ proc[w] \in Procs
  BY DEF IInv, TypeOK
<1>2. Claimed \subseteq Transactions
  BY <1>1, ClaimedTyped
<1>3. s \in Procs /\ s.pc = "match" /\ s.todo = proc[w].todo /\ s.claimed = Claimed
  BY <1>1, <1>2 DEF Procs
<1>4. proc'[w] = s /\ UNCHANGED <<orders, revision, bank, rows>> /\ Become(w, s)
  BY <1>1, Becomes DEF ReadClaimed
<1>5. Known' = Known
  BY <1>4 DEF Known
<1> HIDE DEF s
<1>6. Stage(w)'
  BY <1>1, <1>2, <1>3, <1>4, <1>5 DEF ReadClaimed, Stage, Reporting, At
<1> QED
  BY <1>1, <1>3, <1>4, <1>6, Quiet DEF TypeOK

LEMMA MatchLineStep ==
  ASSUME IInv, NEW w \in Workers, NEW l \in Lines, MatchLine(w, l)
  PROVE  IInv'
<1>1. TypeOK /\ Stage(w) /\ proc[w] \in Procs
  BY DEF IInv, TypeOK
<1>2. /\ proc[w].pc = "match" /\ l \in proc[w].todo /\ w \in Runs
      /\ proc[w].claimed \subseteq Transactions /\ proc[w].todo \subseteq Known
  BY <1>1 DEF MatchLine, Turn, Stage, At
<1>3. CASE Candidates(w, l) = {}
  <2> DEFINE s == [proc[w] EXCEPT !.todo = @ \ {l}]
  <2>1. s \in Procs /\ s.pc = "match" /\ s.todo \subseteq proc[w].todo /\ s.claimed = proc[w].claimed
    BY <1>1, <1>2 DEF Procs
  <2>2. proc'[w] = s /\ UNCHANGED <<orders, revision, bank, rows>> /\ Become(w, s)
    BY <1>1, <1>3, Becomes DEF MatchLine
  <2>3. Known' = Known
    BY <2>2 DEF Known
  <2> HIDE DEF s
  <2>4. Stage(w)'
    BY <1>2, <2>1, <2>2, <2>3 DEF Stage, Reporting, At
  <2> QED
    BY <1>1, <2>1, <2>2, <2>4, Quiet DEF TypeOK
<1>4. CASE Candidates(w, l) # {}
  <2>1. PICK t \in Candidates(w, l) :
          /\ bank' = [bank EXCEPT ![l].recon = "matched", ![l].match = t]
          /\ Become(w, [proc[w] EXCEPT !.todo = @ \ {l}, !.claimed = @ \cup {t}])
    BY <1>4 DEF MatchLine
  <2> DEFINE s == [proc[w] EXCEPT !.todo = @ \ {l}, !.claimed = @ \cup {t}]
             r == [bank[l] EXCEPT !.recon = "matched", !.match = t]
  <2>2. t \in Transactions
    BY <1>1, CandidatesTyped
  <2>3. s \in Procs /\ s.pc = "match" /\ s.todo \subseteq proc[w].todo
        /\ s.claimed = proc[w].claimed \cup {t}
    BY <1>1, <1>2, <2>2 DEF Procs
  <2>4. l \in Known /\ bank[l] \in Rows
    BY <1>1, <1>2, RowTyped
  <2>5. r \in Rows /\ r.report = bank[l].report
    BY <2>2, <2>4 DEF Rows
  <2>6. bank' = [bank EXCEPT ![l] = r] /\ proc'[w] = s /\ Become(w, s)
        /\ UNCHANGED <<orders, revision, rows>>
    BY <1>1, <2>1, Becomes DEF MatchLine, TypeOK
  <2> HIDE DEF s, r
  <2>7. Known \subseteq Known'
    BY <1>1, <2>5, <2>6, Writes
  <2>8. Stage(w)'
    BY <1>2, <2>2, <2>3, <2>6, <2>7 DEF Stage, Reporting, At
  <2> QED
    BY <2>3, <2>4, <2>5, <2>6, <2>8, RowWritten
<1> QED
  BY <1>3, <1>4

LEMMA BackToIdle ==
  ASSUME IInv, NEW w \in Workers, Become(w, Idle), UNCHANGED <<orders, revision, bank, rows>>
  PROVE  IInv'
<1>1. TypeOK
  BY DEF IInv
<1>2. proc'[w] = Idle
  BY <1>1, Becomes
<1>3. Stage(w)'
  BY <1>2 DEF Stage, Reporting, At, Idle
<1> QED
  BY <1>1, <1>3, IdleTyped, Quiet DEF TypeOK

LEMMA BeginProposeStep ==
  ASSUME IInv, NEW w \in Workers, BeginPropose(w)
  PROVE  IInv'
<1> DEFINE c == [l \in Lines |-> IF l \in Known THEN bank[l].code ELSE None]
           s == [Idle EXCEPT !.pc = "offer", !.todo = Unreported, !.claimed = Taken, !.codes = c]
<1>1. TypeOK /\ Stage(w) /\ w \in Runs
  BY DEF IInv, BeginPropose, Stage, At
<1>2. c \in [Lines -> Orders \cup {None}]
  BY <1>1, RowTyped DEF Rows
<1>3. Unreported \subseteq Known /\ Known \subseteq Lines
  BY DEF Unreported, Unmatched, Known
<1>4. Taken \subseteq Orders
  BY <1>1, RowTyped DEF Taken, Rows
<1>5. s \in Procs /\ s.pc = "offer" /\ s.todo = Unreported /\ s.claimed = Taken
  <2> HIDE DEF c
  <2>1. s.pc = "offer" /\ s.todo = Unreported /\ s.claimed = Taken
    BY DEF Idle
  <2>2. Unreported \subseteq Lines
    BY <1>3
  <2>3. Taken \in SUBSET Orders
    BY <1>4
  <2>4. s \in Procs
    BY <1>2, <2>2, <2>3, IdleTyped DEF Procs
  <2> QED
    BY <2>1, <2>4
<1>6. proc'[w] = s /\ UNCHANGED <<orders, revision, bank, rows>> /\ Become(w, s)
  BY <1>1, Becomes DEF BeginPropose
<1>7. Known' = Known
  BY <1>6 DEF Known
<1> HIDE DEF s, c
<1>8. Stage(w)'
  BY <1>1, <1>3, <1>4, <1>5, <1>6, <1>7 DEF Stage, Reporting, At
<1> QED
  BY <1>1, <1>5, <1>6, <1>8, Quiet DEF TypeOK

LEMMA ProposeLineStep ==
  ASSUME IInv, NEW w \in Workers, NEW l \in Lines, ProposeLine(w, l)
  PROVE  IInv'
<1> DEFINE p == [proc[w] EXCEPT !.todo = @ \ {l}]
<1>1. TypeOK /\ Stage(w) /\ proc[w] \in Procs
  BY DEF IInv, TypeOK
<1>2. /\ proc[w].pc = "offer" /\ l \in proc[w].todo /\ w \in Runs
      /\ proc[w].claimed \subseteq Orders /\ proc[w].todo \subseteq Known
  BY <1>1 DEF ProposeLine, Turn, Stage, At
<1>3. p \in Procs /\ p.pc = "offer" /\ p.todo \subseteq proc[w].todo /\ p.claimed = proc[w].claimed
  BY <1>1, <1>2 DEF Procs
<1>4. CASE Pending(w, l) = {}
  <2>1. proc'[w] = p /\ UNCHANGED <<orders, revision, bank, rows>> /\ Become(w, p)
    BY <1>1, <1>4, Becomes DEF ProposeLine
  <2>2. Known' = Known
    BY <2>1 DEF Known
  <2> HIDE DEF p
  <2>3. Stage(w)'
    BY <1>2, <1>3, <2>1, <2>2 DEF Stage, Reporting, At
  <2> QED
    BY <1>1, <1>3, <2>1, <2>3, Quiet DEF TypeOK
<1>5. CASE Pending(w, l) # {}
  <2>1. PICK o \in Pending(w, l) :
          /\ bank' = [bank EXCEPT ![l].report = "proposed",
                                  ![l].code = IF p.codes[l] = o THEN @ ELSE o]
          /\ Become(w, [p EXCEPT !.pc = "ask", !.line = l, !.code = o, !.was = "proposed",
                                 !.claimed = @ \cup {o}])
    BY <1>5 DEF ProposeLine
  <2> DEFINE s == [p EXCEPT !.pc = "ask", !.line = l, !.code = o, !.was = "proposed",
                            !.claimed = @ \cup {o}]
             r == [bank[l] EXCEPT !.report = "proposed", !.code = IF p.codes[l] = o THEN @ ELSE o]
  <2>2. o \in Orders /\ l \in Known /\ bank[l] \in Rows
    BY <1>1, <1>2, RowTyped, BankAssumption DEF Pending
  <2>3. /\ s \in Procs /\ s.pc = "ask" /\ s.todo = p.todo /\ s.claimed = p.claimed \cup {o}
        /\ s.line = l /\ s.code = o /\ s.was = "proposed"
    <3> HIDE DEF p
    <3>1. /\ s.pc = "ask" /\ s.todo = p.todo /\ s.claimed = p.claimed \cup {o}
          /\ s.line = l /\ s.code = o /\ s.was = "proposed"
      BY <1>3 DEF Procs
    <3>2. p.claimed \cup {o} \in SUBSET Orders
      BY <1>2, <1>3, <2>2
    <3>3. l \in Lines
      OBVIOUS
    <3>4. s \in Procs
      BY <1>3, <2>2, <3>2, <3>3 DEF Procs, Reports
    <3> QED
      BY <3>1, <3>4
  <2>4. r \in Rows /\ r.report = "proposed"
    BY <2>2 DEF Rows, Reports
  <2>5. bank' = [bank EXCEPT ![l] = r]
    BY <1>1, <2>1 DEF TypeOK
  <2>6. proc'[w] = s /\ Become(w, s) /\ UNCHANGED <<orders, revision, rows>>
    BY <1>1, <2>1, Becomes DEF ProposeLine
  <2> HIDE DEF s, r, p
  <2>7. Known \subseteq Known'
    BY <1>1, <2>4, <2>5, Writes
  <2>8. Stage(w)'
    BY <1>2, <1>3, <2>2, <2>3, <2>6, <2>7 DEF Stage, Reporting, At, Reports
  <2> QED
    BY <2>3, <2>4, <2>5, <2>6, <2>8, RowWritten
<1> QED
  BY <1>4, <1>5

LEMMA BeginByHandStep ==
  ASSUME IInv, NEW w \in Workers, NEW l \in Lines, NEW o \in Orders, NEW allow \in BOOLEAN,
         BeginByHand(w, l, o, allow)
  PROVE  IInv'
<1> DEFINE s == [Idle EXCEPT !.pc = "ask", !.line = l, !.code = o, !.was = bank[l].report,
                             !.allow = allow]
           r == [bank[l] EXCEPT !.code = o]
<1>1. TypeOK /\ l \in Known /\ bank[l] \in Rows /\ bank[l].report \in Reports \ {"reported"}
  BY RowTyped DEF IInv, BeginByHand, Rows
<1>2. /\ s.pc = "ask" /\ s.todo = {} /\ s.claimed = {} /\ s.line = l /\ s.code = o
      /\ s.was = bank[l].report
  BY DEF Idle
<1>3. r \in Rows /\ r.report = bank[l].report
  BY <1>1 DEF Rows
<1>4. bank' = [bank EXCEPT ![l] = r] /\ proc'[w] = s /\ Become(w, s)
      /\ UNCHANGED <<orders, revision, rows>>
  BY <1>1, Becomes DEF BeginByHand, TypeOK
<1>5. s \in Procs
  BY <1>1, IdleTyped DEF Procs
<1> HIDE DEF s, r
<1>6. l \in Known'
  BY <1>1, <1>3, <1>4, Writes
<1>7. Stage(w)'
  BY <1>1, <1>2, <1>4, <1>6 DEF Stage, Reporting, At
<1> QED
  BY <1>1, <1>3, <1>4, <1>5, <1>7, RowWritten

LEMMA AskStep ==
  ASSUME IInv, NEW w \in Workers, Ask(w)
  PROVE  IInv'
<1>1. TypeOK /\ Stage(w) /\ proc[w] \in Procs
  BY DEF IInv, TypeOK
<1>2. /\ proc[w].pc = "ask" /\ proc[w].line \in Known /\ proc[w].code \in Orders
      /\ proc[w].was \in Reports \ {"reported"} /\ proc[w].todo \subseteq Known
      /\ proc[w].claimed \subseteq Orders
  BY <1>1 DEF Ask, Stage, Reporting, At
<1>3. PICK out \in {"confirmed", "skipped", "failed"} :
        /\ Become(w, [proc[w] EXCEPT !.pc = "result", !.outcome = out])
        /\ out = "confirmed" => rows' = rows \cup {<<proc[w].code, proc[w].line>>}
                                /\ orders' = [orders EXCEPT ![proc[w].code] = "p"]
        /\ out # "confirmed" => rows' = rows /\ orders' = orders
  BY DEF Ask
<1> DEFINE s == [proc[w] EXCEPT !.pc = "result", !.outcome = out]
<1>4. /\ s \in Procs /\ s.pc = "result" /\ s.outcome = out /\ s.todo = proc[w].todo
      /\ s.claimed = proc[w].claimed /\ s.line = proc[w].line /\ s.code = proc[w].code
      /\ s.was = proc[w].was
  BY <1>1 DEF Procs
<1>5. proc'[w] = s /\ Become(w, s) /\ UNCHANGED <<revision, bank>>
  BY <1>1, <1>3, Becomes DEF Ask
<1>6. /\ rows \subseteq rows' /\ rows' \subseteq Orders \X Lines
      /\ orders' \in [Orders -> {"n", "p"}]
      /\ out = "confirmed" => <<proc[w].code, proc[w].line>> \in rows'
  BY <1>1, <1>2, <1>3 DEF TypeOK, Known
<1>7. Known' = Known
  BY <1>5 DEF Known
<1> HIDE DEF s
<1>8. Stage(w)'
  BY <1>2, <1>4, <1>5, <1>6, <1>7, BankAssumption DEF Stage, Reporting, At, Reports
<1> QED
  BY <1>4, <1>5, <1>6, <1>8, Quiet

LEMMA WriteResultStep ==
  ASSUME IInv, NEW w \in Workers, WriteResult(w)
  PROVE  IInv'
<1> DEFINE l == proc[w].line
           r == [bank[l] EXCEPT !.report = IF Report(proc[w]) = proc[w].was THEN @ ELSE Report(proc[w])]
           s == IF Automatic(w)
                  THEN [proc[w] EXCEPT !.pc = "offer", !.line = None, !.code = None, !.was = None,
                                       !.outcome = None]
                  ELSE Idle
<1>1. TypeOK /\ Stage(w) /\ proc[w] \in Procs
  BY DEF IInv, TypeOK
<1>2. /\ proc[w].pc = "result" /\ l \in Known /\ l \in Lines /\ proc[w].code \in Orders
      /\ proc[w].was \in Reports \ {"reported"} /\ proc[w].todo \subseteq Known
      /\ proc[w].claimed \subseteq Orders /\ bank[l] \in Rows
      /\ proc[w].outcome = "confirmed" => <<proc[w].code, l>> \in rows
  BY <1>1, RowTyped DEF WriteResult, Stage, Reporting, At
<1>3. /\ Report(proc[w]) \in Reports
      /\ Report(proc[w]) = "reported" => proc[w].outcome = "confirmed"
  BY <1>2 DEF Report, Reports
<1>4. r \in Rows /\ r.report \in {bank[l].report, Report(proc[w])}
  BY <1>2, <1>3 DEF Rows
<1>5. r.report = "reported" =>
        (l \in Known /\ bank[l].report = "reported") \/ \E o \in Orders : <<o, l>> \in rows
  BY <1>2, <1>3, <1>4
<1>6. CASE Automatic(w)
  <2>1. s \in Procs /\ s.pc = "offer" /\ s.todo = proc[w].todo /\ s.claimed = proc[w].claimed
    BY <1>1, <1>6 DEF Procs
  <2>2. bank' = [bank EXCEPT ![l] = r] /\ proc'[w] = s /\ Become(w, s)
        /\ UNCHANGED <<orders, revision, rows>>
    BY <1>1, Becomes DEF WriteResult, TypeOK
  <2> HIDE DEF s, r, l
  <2>3. Known \subseteq Known'
    BY <1>1, <1>2, <1>4, <2>2, Writes
  <2>4. Stage(w)'
    BY <1>2, <1>6, <2>1, <2>2, <2>3 DEF Stage, Reporting, At, Automatic
  <2> QED
    BY <1>2, <1>4, <1>5, <2>1, <2>2, <2>4, RowWritten
<1>7. CASE ~Automatic(w)
  <2>1. bank' = [bank EXCEPT ![l] = r] /\ proc'[w] = Idle /\ Become(w, Idle)
        /\ UNCHANGED <<orders, revision, rows>>
    BY <1>1, <1>7, Becomes DEF WriteResult, TypeOK
  <2> HIDE DEF r, l
  <2>2. Stage(w)'
    BY <2>1 DEF Stage, Reporting, At, Idle
  <2> QED
    BY <1>2, <1>4, <1>5, <2>1, <2>2, IdleTyped, RowWritten
<1> QED
  BY <1>6, <1>7

LEMMA ClickStep ==
  ASSUME IInv, NEW w \in Workers, Click(w)
  PROVE  IInv'
<1>1. TypeOK /\ Stage(w) /\ proc[w] \in Procs /\ Become(w, proc[w])
  BY DEF IInv, TypeOK, Click, Become
<1>2. PICK l \in Lines : Dismiss(l) \/ Ignore(l) \/ Unignore(l)
  BY DEF Click
<1>3. l \in Known /\ bank[l] \in Rows
  BY <1>1, <1>2, RowTyped DEF Dismiss, Ignore, Unignore
<1>4. \E r \in Rows : /\ bank' = [bank EXCEPT ![l] = r]
                      /\ r.report \in {bank[l].report, "dismissed"}
  <2>1. CASE Dismiss(l)
    <3> DEFINE r == [bank[l] EXCEPT !.report = "dismissed"]
    <3>1. r \in Rows /\ r.report = "dismissed" /\ bank' = [bank EXCEPT ![l] = r]
      BY <1>1, <1>3, <2>1 DEF Dismiss, Rows, Reports, TypeOK
    <3> QED
      BY <3>1
  <2>2. CASE Ignore(l)
    <3> DEFINE r == [bank[l] EXCEPT !.recon = "ignored"]
    <3>1. r \in Rows /\ r.report = bank[l].report /\ bank' = [bank EXCEPT ![l] = r]
      BY <1>1, <1>3, <2>2 DEF Ignore, Rows, TypeOK
    <3> QED
      BY <3>1
  <2>3. CASE Unignore(l)
    <3> DEFINE r == [bank[l] EXCEPT !.recon = IF bank[l].match = None THEN "unmatched" ELSE "matched"]
    <3>1. r \in Rows /\ r.report = bank[l].report /\ bank' = [bank EXCEPT ![l] = r]
      BY <1>1, <1>3, <2>3 DEF Unignore, Rows, TypeOK
    <3> QED
      BY <3>1
  <2> QED
    BY <1>2, <2>1, <2>2, <2>3
<1>5. PICK r \in Rows : bank' = [bank EXCEPT ![l] = r] /\ r.report \in {bank[l].report, "dismissed"}
  BY <1>4
<1>6. Known \subseteq Known'
  BY <1>1, <1>5, Writes
<1>7. UNCHANGED <<orders, revision, rows, proc>>
  BY DEF Click
<1>8. Stage(w)'
  BY <1>1, <1>6, <1>7, StageStands
<1> QED
  BY <1>1, <1>3, <1>5, <1>7, <1>8, RowWritten

LEMMA AroundStep ==
  ASSUME IInv, (\E p \in Payments : Revise(p)) \/ (\E o \in Orders : ImportOrder(o))
  PROVE  IInv'
<1>1. TypeOK /\ (\A w \in Workers : Stage(w)) /\ ReportedIsOnRecord
  BY DEF IInv
<1>2. UNCHANGED <<bank, rows, proc>>
  BY DEF Revise, ImportOrder
<1>3. TypeOK'
  BY <1>1, <1>2, BankAssumption DEF TypeOK, Revise, ImportOrder
<1>4. Known' = Known
  BY <1>2 DEF Known
<1> QED
  BY <1>1, <1>2, <1>3, <1>4, StageStands DEF IInv, ReportedIsOnRecord

LEMMA StepInv == IInv /\ [Next]_vars => IInv'
<1> SUFFICES ASSUME IInv, [Next]_vars PROVE IInv'
  OBVIOUS
<1>1. ASSUME UNCHANGED vars PROVE IInv'
  BY <1>1 DEF vars, IInv, TypeOK, Stage, ReportedIsOnRecord, Known, At
<1>2. Runs \subseteq Workers /\ Clerks \subseteq Workers
  BY DEF Workers
<1>3. ASSUME NEW w \in Workers, Work(w) \/ Crash(w) PROVE IInv'
  <2>1. CASE EndRematch(w) \/ EndPropose(w) \/ Crash(w)
    BY <2>1, BackToIdle DEF EndRematch, EndPropose, Crash
  <2> QED
    BY <1>3, <2>1, InsertLineStep, MatchLineStep, ProposeLineStep, ListUnmatchedStep,
       ReadClaimedStep, BeginProposeStep, AskStep, WriteResultStep DEF Work
<1> QED
  BY <1>1, <1>2, <1>3, BeginImportStep, BeginByHandStep, ClickStep, AroundStep DEF Next, ByHand

(***************************************************************************)
(* One run at a time.                                                      *)
(***************************************************************************)

\* Most steps leave the links alone, and dismiss nothing but a proposal.
LinksKept ==
  \A k \in Known' : IF k \in Known THEN bank'[k].match = bank[k].match ELSE bank'[k].match = None
ReportsKept ==
  \A k \in Known :
    \/ bank'[k].report = bank[k].report
    \/ bank'[k].report \in {"reported", "failed"}
    \/ bank[k].report = "proposed" /\ bank'[k].report = "dismissed"

\* Who is linking lines afterwards read what is claimed just now, or was linking before;
\* what a run has still to offer is open just now, or was to be offered before.
ClaimsCarried ==
  \A v \in Workers : proc'[v].pc = "match" =>
    \/ proc'[v].claimed = Claimed
    \/ proc[v].pc = "match" /\ proc'[v].claimed = proc[v].claimed
OffersCarried ==
  \A v \in Workers : v \in Runs /\ proc'[v].pc \in {"offer"} \cup Reporting =>
    \A l \in proc'[v].todo :
      \/ l \in Unreported
      \/ proc[v].pc \in {"offer"} \cup Reporting /\ l \in proc[v].todo

LEMMA SameBank ==
  ASSUME UNCHANGED bank PROVE Known' = Known /\ LinksKept /\ ReportsKept
BY DEF Known, LinksKept, ReportsKept

LEMMA InsertKeeps ==
  ASSUME IInv, NEW w \in Workers, NEW l \in Lines, InsertLine(w, l)
  PROVE  LinksKept /\ ReportsKept
<1>1. bank' \in [Lines -> Rows \cup {None}] /\ bank' = [bank EXCEPT ![l] = IF @ = None THEN NewRow ELSE @]
      /\ bank \in [Lines -> Rows \cup {None}]
  BY InsertLineStep DEF IInv, TypeOK, InsertLine
<1>2. \A k \in Lines : bank'[k] = IF k = l /\ bank[k] = None THEN NewRow ELSE bank[k]
  BY <1>1
<1>3. NewRow.match = None
  BY DEF NewRow
<1> QED
  BY <1>2, <1>3 DEF Known, LinksKept, ReportsKept

LEMMA ByHandKeeps ==
  ASSUME IInv, NEW w \in Workers, NEW l \in Lines, NEW o \in Orders, NEW allow \in BOOLEAN,
         BeginByHand(w, l, o, allow)
  PROVE  LinksKept /\ ReportsKept
<1>1. bank \in [Lines -> Rows \cup {None}] /\ l \in Known /\ bank[l] \in Rows
  BY RowTyped DEF IInv, TypeOK, BeginByHand
<1>2. /\ bank'[l] = [bank[l] EXCEPT !.code = o]
      /\ \A k \in Lines : k # l => bank'[k] = bank[k]
  BY <1>1 DEF BeginByHand
<1>3. bank'[l].match = bank[l].match /\ bank'[l].report = bank[l].report
  BY <1>1, <1>2 DEF Rows
<1> QED
  BY <1>1, <1>2, <1>3 DEF Known, LinksKept, ReportsKept

LEMMA ResultKeeps ==
  ASSUME IInv, NEW w \in Workers, WriteResult(w)
  PROVE  LinksKept /\ ReportsKept
<1> DEFINE l == proc[w].line
           new == IF Report(proc[w]) = proc[w].was THEN bank[l].report ELSE Report(proc[w])
<1>1. bank \in [Lines -> Rows \cup {None}] /\ l \in Known /\ l \in Lines /\ bank[l] \in Rows
  BY RowTyped DEF IInv, TypeOK, WriteResult, Stage, Reporting, At
<1>2. new = bank[l].report \/ new \in {"reported", "failed"}
  BY DEF Report
<1>3. /\ bank'[l] = [bank[l] EXCEPT !.report = new]
      /\ \A k \in Lines : k # l => bank'[k] = bank[k]
  BY <1>1 DEF WriteResult
<1> HIDE DEF l, new
<1>4. bank'[l].match = bank[l].match /\ bank'[l].report = new
  BY <1>1, <1>3 DEF Rows
<1> QED
  BY <1>1, <1>2, <1>3, <1>4 DEF Known, LinksKept, ReportsKept

LEMMA ProposeKeeps ==
  ASSUME IInv, NEW w \in Workers, NEW l \in Lines, ProposeLine(w, l)
  PROVE  /\ LinksKept
         /\ \A k \in Known : k # l => bank'[k] = bank[k]
         /\ l \in Known /\ l \in proc[w].todo /\ proc[w].pc = "offer" /\ w \in Runs
         /\ proc'[w].todo = proc[w].todo \ {l}
         /\ \A v \in Workers : v # w => proc'[v] = proc[v]
<1>1. TypeOK /\ proc[w] \in Procs /\ bank \in [Lines -> Rows \cup {None}] /\ l \in Known /\ bank[l] \in Rows
      /\ l \in proc[w].todo /\ proc[w].pc = "offer" /\ w \in Runs
  BY RowTyped DEF IInv, TypeOK, ProposeLine, Turn, Stage, At
<1> DEFINE p == [proc[w] EXCEPT !.todo = @ \ {l}]
<1>2. p.todo = proc[w].todo \ {l} /\ p \in Procs
  BY <1>1 DEF Procs
<1>3. CASE Pending(w, l) = {}
  <2>1. Become(w, p) /\ UNCHANGED bank
    BY <1>3 DEF ProposeLine
  <2> QED
    BY <1>1, <1>2, <2>1, Becomes, SameBank DEF LinksKept
<1>4. CASE Pending(w, l) # {}
  <2>1. PICK o \in Pending(w, l) :
          /\ bank' = [bank EXCEPT ![l].report = "proposed",
                                  ![l].code = IF p.codes[l] = o THEN @ ELSE o]
          /\ Become(w, [p EXCEPT !.pc = "ask", !.line = l, !.code = o, !.was = "proposed",
                                 !.claimed = @ \cup {o}])
    BY <1>4 DEF ProposeLine
  <2> HIDE DEF p
  <2> DEFINE s == [p EXCEPT !.pc = "ask", !.line = l, !.code = o, !.was = "proposed",
                            !.claimed = @ \cup {o}]
             r == [bank[l] EXCEPT !.report = "proposed", !.code = IF p.codes[l] = o THEN @ ELSE o]
  <2>2. bank'[l] = r /\ \A k \in Lines : k # l => bank'[k] = bank[k]
    BY <1>1, <2>1
  <2>3. r.match = bank[l].match /\ s.todo = p.todo
    BY <1>1, <1>2 DEF Rows, Procs
  <2>4. proc'[w] = s /\ \A v \in Workers : v # w => proc'[v] = proc[v]
    BY <1>1, <2>1, Becomes
  <2> HIDE DEF s, r
  <2> QED
    BY <1>1, <1>2, <2>2, <2>3, <2>4 DEF Known, LinksKept
<1> QED
  BY <1>3, <1>4

LEMMA ClickKeeps ==
  ASSUME IInv, NEW w \in Workers, Click(w)
  PROVE  LinksKept /\ ReportsKept
<1>1. TypeOK /\ bank \in [Lines -> Rows \cup {None}]
  BY DEF IInv, TypeOK
<1>2. PICK l \in Lines : Dismiss(l) \/ Ignore(l) \/ Unignore(l)
  BY DEF Click
<1>3. l \in Known /\ bank[l] \in Rows
  BY <1>1, <1>2, RowTyped DEF Dismiss, Ignore, Unignore
<1>4. \A k \in Lines : k # l => bank'[k] = bank[k]
  BY <1>1, <1>2 DEF Dismiss, Ignore, Unignore
<1>5. /\ bank'[l].match = bank[l].match
      /\ \/ bank'[l].report = bank[l].report
         \/ bank[l].report = "proposed" /\ bank'[l].report = "dismissed"
  <2>1. CASE Dismiss(l)
    BY <1>1, <1>3, <2>1 DEF Dismiss, Rows
  <2>2. CASE Ignore(l)
    BY <1>1, <1>3, <2>2 DEF Ignore, Rows
  <2>3. CASE Unignore(l)
    BY <1>1, <1>3, <2>3 DEF Unignore, Rows
  <2> QED
    BY <1>2, <2>1, <2>2, <2>3
<1> QED
  BY <1>3, <1>4, <1>5 DEF Known, LinksKept, ReportsKept

LEMMA MatchKeeps ==
  ASSUME IInv, NEW w \in Workers, NEW l \in Lines, MatchLine(w, l)
  PROVE  /\ ReportsKept /\ Known' = Known
         /\ proc[w].pc = "match" /\ proc'[w].pc = "match" /\ w \in Runs /\ l \in Known
         /\ \A v \in Workers : v # w => proc'[v] = proc[v]
         /\ \A k \in Known : k # l => bank'[k] = bank[k]
         /\ \/ UNCHANGED bank /\ proc'[w].claimed = proc[w].claimed
            \/ /\ bank'[l].match \notin proc[w].claimed
               /\ proc'[w].claimed = proc[w].claimed \cup {bank'[l].match}
<1>1. /\ TypeOK /\ proc[w] \in Procs /\ bank \in [Lines -> Rows \cup {None}] /\ l \in Known
      /\ bank[l] \in Rows /\ proc[w].pc = "match" /\ w \in Runs
  BY RowTyped DEF IInv, TypeOK, MatchLine, Turn, Stage, At
<1>2. CASE Candidates(w, l) = {}
  <2> DEFINE s == [proc[w] EXCEPT !.todo = @ \ {l}]
  <2>1. Become(w, s) /\ UNCHANGED bank
    BY <1>2 DEF MatchLine
  <2>2. s.pc = "match" /\ s.claimed = proc[w].claimed
    BY <1>1 DEF Procs
  <2> HIDE DEF s
  <2> QED
    BY <1>1, <2>1, <2>2, Becomes, SameBank
<1>3. CASE Candidates(w, l) # {}
  <2>1. PICK t \in Candidates(w, l) :
          /\ bank' = [bank EXCEPT ![l].recon = "matched", ![l].match = t]
          /\ Become(w, [proc[w] EXCEPT !.todo = @ \ {l}, !.claimed = @ \cup {t}])
    BY <1>3 DEF MatchLine
  <2> DEFINE s == [proc[w] EXCEPT !.todo = @ \ {l}, !.claimed = @ \cup {t}]
             r == [bank[l] EXCEPT !.recon = "matched", !.match = t]
  <2>2. t \in Transactions /\ t \notin proc[w].claimed
    BY <1>1, CandidatesTyped
  <2>3. r \in Rows /\ r.match = t /\ r.report = bank[l].report
    BY <1>1, <2>2 DEF Rows
  <2>4. bank' = [bank EXCEPT ![l] = r]
    BY <1>1, <2>1
  <2>5. s.pc = "match" /\ s.claimed = proc[w].claimed \cup {t}
    BY <1>1 DEF Procs
  <2>6. proc'[w] = s /\ \A v \in Workers : v # w => proc'[v] = proc[v]
    BY <1>1, <2>1, Becomes
  <2> HIDE DEF s, r
  <2>7. Known' = Known /\ bank'[l] = r /\ \A k \in Lines : k # l => bank'[k] = bank[k]
    <3>1. /\ bank'[l] = r /\ \A k \in Lines : k # l => bank'[k] = bank[k]
          /\ Known' = Known \cup {l}
      BY <1>1, <2>3, <2>4, Writes
    <3>2. Known \cup {l} = Known
      BY <1>1
    <3> QED
      BY <3>1, <3>2
  <2>8. \A k \in Known : k \in Lines
    BY DEF Known
  <2>9. ReportsKept
    BY <2>3, <2>7, <2>8 DEF ReportsKept
  <2> QED
    BY <1>1, <2>2, <2>3, <2>5, <2>6, <2>7, <2>8, <2>9
<1> QED
  BY <1>2, <1>3

\* Where the process stands after a step that links and offers nothing.
LEMMA WorkCarries ==
  ASSUME IInv, NEW w \in Workers,
         \/ \E s \in {Idle, proc[w]} : Become(w, s)
         \/ BeginImport(w) \/ ListUnmatched(w) \/ ReadClaimed(w) \/ BeginPropose(w) \/ Ask(w)
         \/ WriteResult(w) \/ \E l \in Lines : InsertLine(w, l)
         \/ w \in Clerks /\ ByHand(w)
  PROVE  ClaimsCarried /\ OffersCarried
<1>1. TypeOK /\ proc[w] \in Procs /\ Runs \cap Clerks = {}
  BY BankAssumption DEF IInv, TypeOK
<1>2. /\ \A v \in Workers : v # w => proc'[v] = proc[v]
      /\ proc'[w].pc = "match" =>
           \/ proc'[w].claimed = Claimed
           \/ proc[w].pc = "match" /\ proc'[w].claimed = proc[w].claimed
      /\ w \in Runs /\ proc'[w].pc \in {"offer"} \cup Reporting =>
           \/ proc'[w].todo = Unreported
           \/ proc[w].pc \in {"offer"} \cup Reporting /\ proc'[w].todo = proc[w].todo
  <2>1. CASE \E s \in {Idle, proc[w]} : Become(w, s)
    BY <1>1, <2>1, Becomes DEF Idle, Reporting
  <2>2. CASE BeginImport(w)
    <3>1. PICK x \in Statements : Become(w, [Idle EXCEPT !.pc = "insert", !.todo = x])
      BY <2>2 DEF BeginImport
    <3>2. [Idle EXCEPT !.pc = "insert", !.todo = x].pc = "insert"
      BY DEF Idle
    <3> QED
      BY <1>1, <3>1, <3>2, Becomes DEF Reporting
  <2>3. CASE ListUnmatched(w)
    <3>1. [Idle EXCEPT !.pc = "list", !.todo = Unmatched].pc = "list"
      BY DEF Idle
    <3> QED
      BY <1>1, <2>3, <3>1, Becomes DEF ListUnmatched, Reporting
  <2>4. CASE ReadClaimed(w)
    <3> DEFINE s == [proc[w] EXCEPT !.pc = "match", !.claimed = Claimed]
    <3>1. s.pc = "match" /\ s.claimed = Claimed
      BY <1>1 DEF Procs
    <3>2. Become(w, s)
      BY <2>4 DEF ReadClaimed
    <3> HIDE DEF s
    <3> QED
      BY <1>1, <3>1, <3>2, Becomes DEF Reporting
  <2>5. CASE BeginPropose(w)
    <3>1. PICK c : Become(w, [Idle EXCEPT !.pc = "offer", !.todo = Unreported, !.claimed = Taken,
                                         !.codes = c])
      BY <2>5 DEF BeginPropose
    <3> DEFINE s == [Idle EXCEPT !.pc = "offer", !.todo = Unreported, !.claimed = Taken, !.codes = c]
    <3>2. s.pc = "offer" /\ s.todo = Unreported
      BY DEF Idle
    <3> HIDE DEF s
    <3>3. Become(w, s)
      BY <3>1 DEF s
    <3> QED
      BY <1>1, <3>2, <3>3, Becomes
  <2>6. CASE Ask(w)
    <3>1. PICK out : Become(w, [proc[w] EXCEPT !.pc = "result", !.outcome = out])
      BY <2>6 DEF Ask
    <3> DEFINE s == [proc[w] EXCEPT !.pc = "result", !.outcome = out]
    <3>2. s.pc = "result" /\ s.todo = proc[w].todo
      BY <1>1 DEF Procs
    <3> HIDE DEF s
    <3>3. Become(w, s) /\ proc[w].pc = "ask"
      BY <2>6, <3>1 DEF s, Ask, At
    <3> QED
      BY <1>1, <3>2, <3>3, Becomes DEF Reporting
  <2>7. CASE WriteResult(w)
    <3> DEFINE s == [proc[w] EXCEPT !.pc = "offer", !.line = None, !.code = None, !.was = None,
                                    !.outcome = None]
    <3>1. s.pc = "offer" /\ s.todo = proc[w].todo
      BY <1>1 DEF Procs
    <3> HIDE DEF s
    <3>2. (Become(w, s) \/ Become(w, Idle)) /\ proc[w].pc = "result"
      BY <2>7 DEF s, WriteResult, At
    <3> QED
      BY <1>1, <3>1, <3>2, Becomes DEF Reporting, Idle
  <2>8. CASE \E l \in Lines : InsertLine(w, l)
    <3>1. PICK l \in Lines : InsertLine(w, l)
      BY <2>8
    <3> DEFINE s == [proc[w] EXCEPT !.todo = @ \ {l}]
    <3>2. s.pc = "insert"
      BY <1>1, <3>1 DEF Procs, InsertLine, At
    <3> HIDE DEF s
    <3>3. Become(w, s)
      BY <3>1 DEF s, InsertLine
    <3> QED
      BY <1>1, <3>2, <3>3, Becomes DEF Reporting
  <2>9. CASE w \in Clerks /\ ByHand(w)
    <3>1. PICK l \in Lines, o \in Orders, allow \in BOOLEAN : BeginByHand(w, l, o, allow)
      BY <2>9 DEF ByHand
    <3> DEFINE s == [Idle EXCEPT !.pc = "ask", !.line = l, !.code = o, !.was = bank[l].report,
                                 !.allow = allow]
    <3>2. s.pc = "ask"
      BY DEF Idle
    <3> HIDE DEF s
    <3>3. Become(w, s)
      BY <3>1 DEF s, BeginByHand
    <3> QED
      BY <1>1, <2>9, <3>2, <3>3, Becomes
  <2> QED
    BY <2>1, <2>2, <2>3, <2>4, <2>5, <2>6, <2>7, <2>8, <2>9
<1> QED
  BY <1>2 DEF ClaimsCarried, OffersCarried

\* Such a step keeps what one run relies on, and revives no dismissed proposal.
LEMMA Carried ==
  ASSUME SerialInv, LinksKept, ReportsKept, ClaimsCarried, OffersCarried
  PROVE  Claims' /\ Offers' /\ OneLinePerTransaction'
<1>1. Claimed' \subseteq Claimed
  BY DEF LinksKept, Claimed
<1>2. Claims'
  BY <1>1 DEF SerialInv, Claims, ClaimsCarried, At
<1>3. OneLinePerTransaction'
  BY DEF SerialInv, OneLinePerTransaction, LinksKept
<1>4. Offers'
  <2> SUFFICES ASSUME NEW v \in Workers, v \in Runs, proc'[v].pc \in {"offer"} \cup Reporting,
                      NEW l \in proc'[v].todo
               PROVE  bank'[l].report \notin {"proposed", "dismissed"}
    BY DEF Offers
  <2>1. l \in Known /\ bank[l].report \notin {"proposed", "dismissed"}
    BY DEF OffersCarried, SerialInv, IInv, Stage, Offers, Unreported, Unmatched
  <2> QED
    BY <2>1 DEF ReportsKept
<1> QED
  BY <1>2, <1>3, <1>4

LEMMA MatchSerial ==
  ASSUME OneRun, SerialInv, NEW w \in Workers, NEW l \in Lines, MatchLine(w, l)
  PROVE  Claims' /\ Offers' /\ OneLinePerTransaction'
<1>1. IInv
  BY DEF SerialInv
<1> DEFINE t == bank'[l].match
<1>2. /\ ReportsKept /\ Known' = Known
      /\ proc[w].pc = "match" /\ proc'[w].pc = "match" /\ w \in Runs /\ l \in Known
      /\ \A v \in Workers : v # w => proc'[v] = proc[v]
      /\ \A k \in Known : k # l => bank'[k] = bank[k]
      /\ \/ UNCHANGED bank /\ proc'[w].claimed = proc[w].claimed
         \/ t \notin proc[w].claimed /\ proc'[w].claimed = proc[w].claimed \cup {t}
  BY <1>1, MatchKeeps
<1>3. OffersCarried
  BY <1>2 DEF OffersCarried, Reporting
<1>4. CASE UNCHANGED bank /\ proc'[w].claimed = proc[w].claimed
  <2>1. ClaimsCarried
    BY <1>2, <1>4 DEF ClaimsCarried
  <2> QED
    BY <1>3, <1>4, <2>1, SameBank, Carried
<1>5. CASE t \notin proc[w].claimed /\ proc'[w].claimed = proc[w].claimed \cup {t}
  <2>1. Claimed \subseteq proc[w].claimed /\ t \notin Claimed
    BY <1>2, <1>5 DEF SerialInv, Claims, At
  <2> HIDE DEF t
  <2>2. \A k \in Known : bank'[k].match = IF k = l THEN t ELSE bank[k].match
    BY <1>2 DEF t
  <2>3. Claimed' \subseteq Claimed \cup {t}
    BY <1>2, <2>2 DEF Claimed
  <2>4. \A v \in Workers : proc'[v].pc = "match" => v = w
    BY <1>2, <1>1 DEF OneRun, IInv, Stage
  <2>5. Claims'
    BY <1>5, <2>1, <2>3, <2>4 DEF Claims, At
  <2>6. OneLinePerTransaction'
    BY <1>2, <2>1, <2>2 DEF SerialInv, OneLinePerTransaction, Claimed
  <2>7. Offers'
    <3> SUFFICES ASSUME NEW v \in Workers, v \in Runs, proc'[v].pc \in {"offer"} \cup Reporting
                 PROVE  FALSE
      BY DEF Offers
    <3> QED
      BY <1>2 DEF OneRun, Reporting
  <2> QED
    BY <2>5, <2>6, <2>7
<1> QED
  BY <1>2, <1>4, <1>5

LEMMA ProposeSerial ==
  ASSUME OneRun, SerialInv, NEW w \in Workers, NEW l \in Lines, ProposeLine(w, l)
  PROVE  /\ Claims' /\ Offers' /\ OneLinePerTransaction'
         /\ \A k \in Known : bank[k].report = "dismissed" => bank'[k].report # "proposed"
<1>1. IInv
  BY DEF SerialInv
<1>2. /\ LinksKept /\ \A k \in Known : k # l => bank'[k] = bank[k]
      /\ l \in Known /\ l \in proc[w].todo /\ proc[w].pc = "offer" /\ w \in Runs
      /\ proc'[w].todo = proc[w].todo \ {l}
      /\ \A v \in Workers : v # w => proc'[v] = proc[v]
  BY <1>1, ProposeKeeps
<1>3. Claimed' \subseteq Claimed
  BY <1>2 DEF LinksKept, Claimed
<1>4. \A v \in Workers : proc'[v].pc = "match" => v = w
  BY <1>1, <1>2 DEF OneRun, IInv, Stage
<1>5. proc'[w].pc # "match"
  <2>1. proc[w] \in Procs /\ TypeOK
    BY <1>1 DEF IInv, TypeOK
  <2> DEFINE p == [proc[w] EXCEPT !.todo = @ \ {l}]
  <2>2. p.pc = "offer" /\ p \in Procs
    BY <1>2, <2>1 DEF Procs
  <2> HIDE DEF p
  <2>3. \/ Become(w, p)
        \/ \E o : Become(w, [p EXCEPT !.pc = "ask", !.line = l, !.code = o, !.was = "proposed",
                                       !.claimed = @ \cup {o}])
    BY DEF ProposeLine, p
  <2>4. \A o : [p EXCEPT !.pc = "ask", !.line = l, !.code = o, !.was = "proposed",
                         !.claimed = @ \cup {o}].pc = "ask"
    BY <2>2 DEF Procs
  <2> QED
    BY <2>1, <2>2, <2>3, <2>4, Becomes
<1>6. Claims'
  BY <1>4, <1>5 DEF Claims, At
<1>7. OneLinePerTransaction'
  BY <1>2 DEF SerialInv, OneLinePerTransaction, LinksKept
<1>8. Offers'
  <2> SUFFICES ASSUME NEW v \in Workers, v \in Runs, NEW k \in proc'[v].todo
               PROVE  bank'[k].report \notin {"proposed", "dismissed"}
    BY DEF Offers
  <2>1. v = w /\ k \in proc[w].todo /\ k # l /\ k \in Known
    BY <1>1, <1>2 DEF OneRun, IInv, Stage
  <2>2. bank[k].report \notin {"proposed", "dismissed"}
    BY <1>2, <2>1 DEF SerialInv, Offers
  <2> QED
    BY <1>2, <2>1, <2>2
<1>9. bank[l].report # "dismissed"
  BY <1>2 DEF SerialInv, Offers
<1> QED
  BY <1>2, <1>6, <1>7, <1>8, <1>9

\* The invariant of one run, and what no step of it does.
LEMMA SerialStep ==
  ASSUME OneRun, SerialInv, [Next]_vars
  PROVE  /\ SerialInv'
         /\ \A l \in Known : bank[l].report = "dismissed" => bank'[l].report # "proposed"
<1>1. IInv /\ IInv' /\ TypeOK
  BY StepInv DEF SerialInv, IInv
<1>2. Runs \subseteq Workers /\ Clerks \subseteq Workers
  BY DEF Workers
<1>3. ASSUME LinksKept, ReportsKept, ClaimsCarried, OffersCarried
      PROVE  /\ Claims' /\ Offers' /\ OneLinePerTransaction'
             /\ \A l \in Known : bank[l].report = "dismissed" => bank'[l].report # "proposed"
  BY <1>3, Carried DEF ReportsKept
<1>4. ASSUME UNCHANGED proc PROVE ClaimsCarried /\ OffersCarried
  BY <1>4 DEF ClaimsCarried, OffersCarried
<1> DEFINE Goal == /\ Claims' /\ Offers' /\ OneLinePerTransaction'
                   /\ \A l \in Known : bank[l].report = "dismissed" => bank'[l].report # "proposed"
<1>5. ASSUME UNCHANGED <<bank, proc>> PROVE Goal
  BY <1>3, <1>4, <1>5, SameBank
<1>6. ASSUME NEW w \in Workers, UNCHANGED bank,
             \/ BeginImport(w) \/ ListUnmatched(w) \/ ReadClaimed(w) \/ EndRematch(w)
             \/ BeginPropose(w) \/ EndPropose(w) \/ Ask(w) \/ Crash(w)
      PROVE  Goal
  <2>1. ClaimsCarried /\ OffersCarried
    BY <1>1, <1>6, WorkCarries DEF EndRematch, EndPropose, Crash
  <2> QED
    BY <1>3, <1>6, <2>1, SameBank
<1>7. ASSUME NEW w \in Workers, NEW l \in Lines, InsertLine(w, l) PROVE Goal
  BY <1>1, <1>3, <1>7, InsertKeeps, WorkCarries
<1>8. ASSUME NEW w \in Workers, WriteResult(w) PROVE Goal
  BY <1>1, <1>3, <1>8, ResultKeeps, WorkCarries
<1>9. ASSUME NEW w \in Clerks, ByHand(w) PROVE Goal
  <2>1. LinksKept /\ ReportsKept
    BY <1>1, <1>2, <1>9, ByHandKeeps DEF ByHand
  <2>2. ClaimsCarried /\ OffersCarried
    BY <1>1, <1>2, <1>9, WorkCarries
  <2> QED
    BY <1>3, <2>1, <2>2
<1>10. ASSUME NEW w \in Clerks, Click(w) PROVE Goal
  BY <1>1, <1>2, <1>3, <1>4, <1>10, ClickKeeps DEF Click
<1>11. ASSUME NEW w \in Workers, NEW l \in Lines, MatchLine(w, l) PROVE Goal
  <2>1. ReportsKept
    BY <1>1, <1>11, MatchKeeps
  <2> QED
    BY <1>11, <2>1, MatchSerial DEF ReportsKept
<1>12. ASSUME NEW w \in Workers, NEW l \in Lines, ProposeLine(w, l) PROVE Goal
  BY <1>12, ProposeSerial
<1>13. Goal
  <2> HIDE DEF Goal
  <2>1. ASSUME NEW w \in Workers, Work(w) \/ Crash(w) PROVE Goal
    BY <2>1, <1>6, <1>7, <1>8, <1>11, <1>12
       DEF Work, ListUnmatched, ReadClaimed, EndRematch, BeginPropose, EndPropose, Ask, Crash
  <2>2. ASSUME NEW w \in Runs, BeginImport(w) PROVE Goal
    BY <2>2, <1>2, <1>6 DEF BeginImport
  <2>3. ASSUME (\E p \in Payments : Revise(p)) \/ (\E o \in Orders : ImportOrder(o)) PROVE Goal
    BY <2>3, <1>5 DEF Revise, ImportOrder
  <2>4. ASSUME UNCHANGED vars PROVE Goal
    BY <2>4, <1>5 DEF vars
  <2> QED
    BY <2>1, <2>2, <2>3, <2>4, <1>9, <1>10 DEF Next
<1> QED
  BY <1>1, <1>13 DEF SerialInv

(***************************************************************************)
(* The results.                                                            *)
(***************************************************************************)

\* The inductive invariant holds: whatever a run or a person has read, the row it is going
\* to write is there, and a success it has yet to write is on record already.
THEOREM Inductive == Spec => []IInv
<1>1. Init => IInv
  BY InitInv
<1>2. IInv /\ [Next]_vars => IInv'
  BY StepInv
<1> QED
  BY <1>1, <1>2, PTL DEF Spec

\* Every row, every revision and every process keeps its type.
THEOREM TypeCorrect == Spec => []TypeOK
<1>1. IInv => TypeOK
  BY DEF IInv
<1> QED
  BY <1>1, Inductive, PTL

\* A row is shown as reported only if a confirmation that names it as the money is on
\* record: for any number of runs and people at the same time, and wherever they die.
THEOREM ReportedOnRecord == Spec => []ReportedIsOnRecord
<1>1. IInv => ReportedIsOnRecord
  BY DEF IInv
<1> QED
  BY <1>1, Inductive, PTL

LEMMA InitSerial == Init => SerialInv
<1>1. ASSUME Init PROVE Known = {} /\ \A w \in Workers : proc[w].pc = "idle"
  BY <1>1 DEF Init, Known, Idle
<1> QED
  BY <1>1, InitInv DEF SerialInv, Claims, Offers, OneLinePerTransaction, Reporting, At

\* With one run at a time no app transaction is linked to two bank lines, although people
\* ignore, restore and report lines meanwhile and the run may die anywhere.
THEOREM OneLineWhenSerial ==
  ASSUME OneRun
  PROVE  Spec => []OneLinePerTransaction
<1>1. Init => SerialInv
  BY InitSerial
<1>2. SerialInv /\ [Next]_vars => SerialInv'
  BY SerialStep
<1>3. SerialInv => OneLinePerTransaction
  BY DEF SerialInv
<1> QED
  BY <1>1, <1>2, <1>3, PTL DEF Spec

\* With one run at a time a proposal that a person has dismissed is not made again.
THEOREM DismissedWhenSerial ==
  ASSUME OneRun
  PROVE  Spec => DismissedForGood
<1>1. Init => SerialInv
  BY InitSerial
<1>2. SerialInv /\ [Next]_vars => SerialInv'
  BY SerialStep
<1>3. SerialInv /\ [Next]_vars =>
        [\A l \in Known : bank[l].report = "dismissed" => bank'[l].report # "proposed"]_vars
  BY SerialStep
<1> QED
  BY <1>1, <1>2, <1>3, PTL DEF Spec, DismissedForGood

(***************************************************************************)
(* With one run the links are those of LinkBook.                           *)
(***************************************************************************)

\* A line that is open is not linked, and neither is one that a run is about to link.
Unlinked ==
  /\ \A l \in Known : bank[l].recon = "unmatched" => bank[l].match = None
  /\ \A w \in Workers : proc[w].pc \in {"list", "match"} =>
       \A l \in proc[w].todo : l \in Credits /\ bank[l].match = None

\* Most steps write no link, and open no line that has one.
RowsStand ==
  /\ Known \subseteq Known'
  /\ \A k \in Known' :
       IF k \in Known
         THEN /\ bank'[k].match = bank[k].match
              /\ bank'[k].recon = "unmatched" => bank[k].recon = "unmatched" \/ bank[k].match = None
         ELSE bank'[k].match = None

\* Who is linking lines afterwards has listed them just now, or had before.
ListsCarried ==
  \A v \in Workers : proc'[v].pc \in {"list", "match"} =>
    \/ proc'[v].todo \subseteq Unmatched
    \/ proc[v].pc \in {"list", "match"} /\ proc'[v].todo \subseteq proc[v].todo

LEMMA SameRows == ASSUME UNCHANGED bank PROVE RowsStand
BY DEF Known, RowsStand

LEMMA OneRow ==
  ASSUME TypeOK, NEW l \in Lines, NEW r \in Rows, bank' = [bank EXCEPT ![l] = r],
         IF l \in Known
           THEN /\ r.match = bank[l].match
                /\ r.recon = "unmatched" => bank[l].recon = "unmatched" \/ bank[l].match = None
           ELSE r.match = None
  PROVE  RowsStand
<1>1. /\ bank'[l] = r /\ \A k \in Lines : k # l => bank'[k] = bank[k]
      /\ Known' = Known \cup {l}
  BY Writes
<1> QED
  BY <1>1 DEF RowsStand, Known

LEMMA InsertStands ==
  ASSUME IInv, NEW w \in Workers, NEW l \in Lines, InsertLine(w, l)
  PROVE  RowsStand
<1>1. TypeOK /\ bank' = [bank EXCEPT ![l] = IF @ = None THEN NewRow ELSE @]
  BY DEF IInv, InsertLine
<1>2. CASE bank[l] = None
  <2>1. NewRow \in Rows /\ NewRow.match = None /\ bank' = [bank EXCEPT ![l] = NewRow] /\ l \notin Known
    BY <1>1, <1>2 DEF NewRow, Rows, Reports, Known
  <2> QED
    BY <1>1, <2>1, OneRow
<1>3. CASE bank[l] # None
  <2>1. bank' = bank
    BY <1>1, <1>3 DEF TypeOK
  <2> QED
    BY <2>1, SameRows
<1> QED
  BY <1>2, <1>3

LEMMA ByHandStands ==
  ASSUME IInv, NEW w \in Workers, NEW l \in Lines, NEW o \in Orders, NEW allow \in BOOLEAN,
         BeginByHand(w, l, o, allow)
  PROVE  RowsStand
<1>1. TypeOK /\ l \in Known /\ bank[l] \in Rows
  BY RowTyped DEF IInv, BeginByHand
<1> DEFINE r == [bank[l] EXCEPT !.code = o]
<1>2. r \in Rows /\ r.match = bank[l].match /\ r.recon = bank[l].recon
  BY <1>1 DEF Rows
<1>3. bank' = [bank EXCEPT ![l] = r]
  BY <1>1 DEF BeginByHand, TypeOK
<1> HIDE DEF r
<1> QED
  BY <1>1, <1>2, <1>3, OneRow

LEMMA ResultStands ==
  ASSUME IInv, NEW w \in Workers, WriteResult(w)
  PROVE  RowsStand
<1> DEFINE l == proc[w].line
           new == IF Report(proc[w]) = proc[w].was THEN bank[l].report ELSE Report(proc[w])
           r == [bank[l] EXCEPT !.report = new]
<1>1. TypeOK /\ l \in Known /\ l \in Lines /\ bank[l] \in Rows /\ proc[w].was \in Reports
  BY RowTyped DEF IInv, WriteResult, Stage, Reporting, At
<1>2. new \in Reports
  BY <1>1 DEF Report, Rows, Reports
<1>3. bank' = [bank EXCEPT ![l] = r]
  BY <1>1 DEF WriteResult, TypeOK
<1> HIDE DEF l, new
<1>4. r \in Rows /\ r.match = bank[l].match /\ r.recon = bank[l].recon
  BY <1>1, <1>2 DEF Rows
<1> HIDE DEF r
<1> QED
  BY <1>1, <1>3, <1>4, OneRow

LEMMA ProposeStands ==
  ASSUME IInv, NEW w \in Workers, NEW l \in Lines, ProposeLine(w, l)
  PROVE  RowsStand
<1>1. TypeOK /\ l \in Known /\ bank[l] \in Rows
  BY RowTyped DEF IInv, ProposeLine, Turn, Stage, At
<1>2. CASE UNCHANGED bank
  BY <1>2, SameRows
<1>3. ASSUME NEW o \in Pending(w, l), NEW c,
             bank' = [bank EXCEPT ![l].report = "proposed", ![l].code = IF c = o THEN @ ELSE o]
      PROVE  RowsStand
  <2> DEFINE r == [bank[l] EXCEPT !.report = "proposed", !.code = IF c = o THEN @ ELSE o]
  <2>1. o \in Orders
    BY BankAssumption DEF Pending
  <2>2. r \in Rows /\ r.match = bank[l].match /\ r.recon = bank[l].recon
    BY <1>1, <2>1 DEF Rows, Reports
  <2>3. bank' = [bank EXCEPT ![l] = r]
    BY <1>1, <1>3 DEF TypeOK
  <2> HIDE DEF r
  <2> QED
    BY <1>1, <2>2, <2>3, OneRow
<1> QED
  BY <1>2, <1>3 DEF ProposeLine

LEMMA ClickStands ==
  ASSUME IInv, NEW w \in Workers, Click(w)
  PROVE  RowsStand
<1>1. TypeOK
  BY DEF IInv
<1>2. PICK l \in Lines : Dismiss(l) \/ Ignore(l) \/ Unignore(l)
  BY DEF Click
<1>3. l \in Known /\ bank[l] \in Rows
  BY <1>1, <1>2, RowTyped DEF Dismiss, Ignore, Unignore
<1>4. \E r \in Rows : /\ bank' = [bank EXCEPT ![l] = r] /\ r.match = bank[l].match
                      /\ r.recon = "unmatched" => bank[l].recon = "unmatched" \/ bank[l].match = None
  <2>1. CASE Dismiss(l)
    <3> DEFINE r == [bank[l] EXCEPT !.report = "dismissed"]
    <3>1. r \in Rows /\ r.match = bank[l].match /\ r.recon = bank[l].recon /\ bank' = [bank EXCEPT ![l] = r]
      BY <1>1, <1>3, <2>1 DEF Dismiss, Rows, Reports, TypeOK
    <3> QED
      BY <3>1
  <2>2. CASE Ignore(l)
    <3> DEFINE r == [bank[l] EXCEPT !.recon = "ignored"]
    <3>1. r \in Rows /\ r.match = bank[l].match /\ r.recon = "ignored" /\ bank' = [bank EXCEPT ![l] = r]
      BY <1>1, <1>3, <2>2 DEF Ignore, Rows, TypeOK
    <3> QED
      BY <3>1
  <2>3. CASE Unignore(l)
    <3> DEFINE r == [bank[l] EXCEPT !.recon = IF bank[l].match = None THEN "unmatched" ELSE "matched"]
    <3>1. /\ r \in Rows /\ r.match = bank[l].match /\ bank' = [bank EXCEPT ![l] = r]
          /\ r.recon = "unmatched" => bank[l].match = None
      BY <1>1, <1>3, <2>3 DEF Unignore, Rows, TypeOK
    <3> QED
      BY <3>1
  <2> QED
    BY <1>2, <2>1, <2>2, <2>3
<1>5. PICK r \in Rows : /\ bank' = [bank EXCEPT ![l] = r] /\ r.match = bank[l].match
                        /\ r.recon = "unmatched" => bank[l].recon = "unmatched" \/ bank[l].match = None
  BY <1>4
<1>6. l \in Lines
  OBVIOUS
<1> QED
  BY <1>1, <1>3, <1>5, <1>6, OneRow

\* Nobody but a run that lists them, or goes on with its list, has lines to link.
LEMMA WorkLists ==
  ASSUME IInv, NEW w \in Workers,
         \/ \E s \in {Idle, proc[w]} : Become(w, s)
         \/ BeginImport(w) \/ ListUnmatched(w) \/ ReadClaimed(w) \/ BeginPropose(w) \/ Ask(w)
         \/ WriteResult(w)
         \/ \E l \in Lines : InsertLine(w, l) \/ MatchLine(w, l) \/ ProposeLine(w, l)
         \/ ByHand(w)
  PROVE  ListsCarried
<1>1. TypeOK /\ proc[w] \in Procs
  BY DEF IInv, TypeOK
<1>2. ASSUME NEW s, Become(w, s),
             s.pc \in {"list", "match"} =>
               \/ s.todo \subseteq Unmatched
               \/ proc[w].pc \in {"list", "match"} /\ s.todo \subseteq proc[w].todo
      PROVE  ListsCarried
  BY <1>1, <1>2, Becomes DEF ListsCarried
<1>3. CASE \E s \in {Idle, proc[w]} : Become(w, s)
  BY <1>2, <1>3 DEF Idle
<1>4. CASE BeginImport(w)
  <2>1. PICK x \in Statements : Become(w, [Idle EXCEPT !.pc = "insert", !.todo = x])
    BY <1>4 DEF BeginImport
  <2>2. [Idle EXCEPT !.pc = "insert", !.todo = x].pc = "insert"
    BY DEF Idle
  <2> QED
    BY <1>2, <2>1, <2>2
<1>5. CASE ListUnmatched(w)
  <2>1. [Idle EXCEPT !.pc = "list", !.todo = Unmatched].todo = Unmatched
    BY DEF Idle
  <2> QED
    BY <1>2, <1>5, <2>1 DEF ListUnmatched
<1>6. CASE ReadClaimed(w)
  <2> DEFINE s == [proc[w] EXCEPT !.pc = "match", !.claimed = Claimed]
  <2>1. s.todo = proc[w].todo /\ proc[w].pc = "list" /\ Become(w, s)
    BY <1>1, <1>6 DEF Procs, ReadClaimed, At
  <2> HIDE DEF s
  <2> QED
    BY <1>2, <2>1
<1>7. CASE BeginPropose(w)
  <2>1. PICK c : Become(w, [Idle EXCEPT !.pc = "offer", !.todo = Unreported, !.claimed = Taken, !.codes = c])
    BY <1>7 DEF BeginPropose
  <2>2. [Idle EXCEPT !.pc = "offer", !.todo = Unreported, !.claimed = Taken, !.codes = c].pc = "offer"
    BY DEF Idle
  <2> QED
    BY <1>2, <2>1, <2>2
<1>8. CASE Ask(w)
  <2>1. PICK out : Become(w, [proc[w] EXCEPT !.pc = "result", !.outcome = out])
    BY <1>8 DEF Ask
  <2>2. [proc[w] EXCEPT !.pc = "result", !.outcome = out].pc = "result"
    BY <1>1 DEF Procs
  <2> QED
    BY <1>2, <2>1, <2>2
<1>9. CASE WriteResult(w)
  <2> DEFINE s == [proc[w] EXCEPT !.pc = "offer", !.line = None, !.code = None, !.was = None,
                                  !.outcome = None]
  <2>1. s.pc = "offer" /\ Idle.pc = "idle"
    BY <1>1 DEF Procs, Idle
  <2>2. Become(w, s) \/ Become(w, Idle)
    BY <1>9 DEF WriteResult
  <2> HIDE DEF s
  <2> QED
    BY <1>2, <2>1, <2>2
<1>10. ASSUME NEW l \in Lines, InsertLine(w, l) PROVE ListsCarried
  <2> DEFINE s == [proc[w] EXCEPT !.todo = @ \ {l}]
  <2>1. s.pc = "insert" /\ Become(w, s)
    BY <1>1, <1>10 DEF Procs, InsertLine, At
  <2> HIDE DEF s
  <2> QED
    BY <1>2, <2>1
<1>11. ASSUME NEW l \in Lines, MatchLine(w, l) PROVE ListsCarried
  <2>1. proc[w].pc = "match"
    BY <1>11 DEF MatchLine, At
  <2>2. PICK c : \/ Become(w, [proc[w] EXCEPT !.todo = @ \ {l}, !.claimed = c])
                 \/ Become(w, [proc[w] EXCEPT !.todo = @ \ {l}])
    BY <1>11 DEF MatchLine
  <2>3. /\ [proc[w] EXCEPT !.todo = @ \ {l}, !.claimed = c].todo \subseteq proc[w].todo
        /\ [proc[w] EXCEPT !.todo = @ \ {l}].todo \subseteq proc[w].todo
    BY <1>1 DEF Procs
  <2> QED
    BY <1>2, <2>1, <2>2, <2>3
<1>12. ASSUME NEW l \in Lines, ProposeLine(w, l) PROVE ListsCarried
  <2> DEFINE p == [proc[w] EXCEPT !.todo = @ \ {l}]
  <2>1. p.pc = "offer" /\ p \in Procs
    BY <1>1, <1>12 DEF Procs, ProposeLine, At
  <2> HIDE DEF p
  <2>2. \/ Become(w, p)
        \/ \E o : Become(w, [p EXCEPT !.pc = "ask", !.line = l, !.code = o, !.was = "proposed",
                                       !.claimed = @ \cup {o}])
    BY <1>12 DEF ProposeLine, p
  <2>3. \A o : [p EXCEPT !.pc = "ask", !.line = l, !.code = o, !.was = "proposed",
                         !.claimed = @ \cup {o}].pc = "ask"
    BY <2>1 DEF Procs
  <2> QED
    BY <1>2, <2>1, <2>2, <2>3
<1>13. CASE ByHand(w)
  <2>1. PICK l \in Lines, o \in Orders, allow \in BOOLEAN : BeginByHand(w, l, o, allow)
    BY <1>13 DEF ByHand
  <2> DEFINE s == [Idle EXCEPT !.pc = "ask", !.line = l, !.code = o, !.was = bank[l].report,
                               !.allow = allow]
  <2>2. s.pc = "ask"
    BY DEF Idle
  <2> HIDE DEF s
  <2>3. Become(w, s)
    BY <2>1 DEF s, BeginByHand
  <2> QED
    BY <1>2, <2>2, <2>3
<1> QED
  BY <1>3, <1>4, <1>5, <1>6, <1>7, <1>8, <1>9, <1>10, <1>11, <1>12, <1>13

\* Such a step leaves the links alone.
LEMMA LinksStand == ASSUME RowsStand PROVE UNCHANGED Links
<1>1. \A k \in Known : k \in Known' /\ bank'[k].match = bank[k].match
  BY DEF RowsStand
<1>2. \A k \in Known' : k \notin Known => bank'[k].match = None
  BY DEF RowsStand
<1>3. Linked' = Linked
  BY <1>1, <1>2 DEF Linked
<1>4. \A k \in Linked : bank'[k].match = bank[k].match
  BY <1>1 DEF Linked
<1> QED
  BY <1>3, <1>4 DEF Links

LEMMA UnlinkedStands ==
  ASSUME IInv, Unlinked, RowsStand, ListsCarried
  PROVE  Unlinked'
<1>1. \A l \in Known' : bank'[l].recon = "unmatched" => bank'[l].match = None
  BY DEF Unlinked, RowsStand
<1>2. ASSUME NEW v \in Workers, proc'[v].pc \in {"list", "match"}, NEW l \in proc'[v].todo
      PROVE  l \in Credits /\ bank'[l].match = None
  <2>1. CASE l \in Unmatched
    BY <2>1 DEF Unlinked, RowsStand, Unmatched
  <2>2. CASE proc[v].pc \in {"list", "match"} /\ l \in proc[v].todo
    BY <2>2 DEF Unlinked, RowsStand, IInv, Stage
  <2> QED
    BY <1>2, <2>1, <2>2 DEF ListsCarried
<1> QED
  BY <1>1, <1>2 DEF Unlinked

LEMMA NoneApart == None \notin Transactions
<1>1. \A p \in Payments : 1 .. MaxRevision[p] \subseteq Nat
  BY BankAssumption
<1>2. Transactions \subseteq Payments \X Nat
  BY <1>1 DEF Transactions
<1> QED
  BY <1>2, BankAssumption

\* What may be linked to a line fits it.
LEMMA CandidatesFit ==
  ASSUME TypeOK, NEW w \in Workers, NEW l \in Credits, NEW t \in Candidates(w, l)
  PROVE  t \in FitsLine(l)
<1>1. l \in Lines
  BY BankAssumption
<1>2. t \in Transactions
  BY <1>1, CandidatesTyped
<1>3. t[1] \in Payouts[l] \cup Transfers[l]
  BY DEF Candidates, Free, Current
<1> QED
  BY <1>2, <1>3 DEF FitsLine

\* Linking a line is what LinkBook allows, as long as nobody else links.
LEMMA MatchLinks ==
  ASSUME OneRun, SerialInv, Unlinked, NEW w \in Workers, NEW l \in Lines, MatchLine(w, l)
  PROVE  Unlinked' /\ [Book!LinkNext]_Links
<1>1. IInv /\ TypeOK /\ proc[w] \in Procs
  BY DEF SerialInv, IInv, TypeOK
<1>2. /\ proc[w].pc = "match" /\ l \in proc[w].todo /\ l \in Known /\ l \in Credits
      /\ w \in Runs /\ bank[l].match = None /\ bank[l] \in Rows
  BY <1>1, RowTyped DEF MatchLine, At, Turn, IInv, Stage, Unlinked
<1>3. CASE Candidates(w, l) = {}
  <2>1. UNCHANGED bank
    BY <1>3 DEF MatchLine
  <2>2. RowsStand /\ ListsCarried
    BY <1>1, <2>1, SameRows, WorkLists
  <2> QED
    BY <1>1, <2>2, LinksStand, UnlinkedStands
<1>4. CASE Candidates(w, l) # {}
  <2>1. PICK t \in Candidates(w, l) :
          /\ bank' = [bank EXCEPT ![l].recon = "matched", ![l].match = t]
          /\ Become(w, [proc[w] EXCEPT !.todo = @ \ {l}, !.claimed = @ \cup {t}])
    BY <1>4 DEF MatchLine
  <2> DEFINE s == [proc[w] EXCEPT !.todo = @ \ {l}, !.claimed = @ \cup {t}]
             r == [bank[l] EXCEPT !.recon = "matched", !.match = t]
  <2>2. t \in Transactions /\ t \notin proc[w].claimed /\ t \in FitsLine(l)
    BY <1>1, <1>2, CandidatesTyped, CandidatesFit
  <2>3. r \in Rows /\ r.match = t /\ r.recon = "matched"
    BY <1>2, <2>2 DEF Rows
  <2>4. bank' = [bank EXCEPT ![l] = r]
    BY <1>1, <2>1 DEF TypeOK
  <2>5. s.pc = "match" /\ s.todo = proc[w].todo \ {l}
    BY <1>1, <1>2 DEF Procs
  <2>6. proc'[w] = s /\ \A v \in Workers : v # w => proc'[v] = proc[v]
    BY <1>1, <2>1, Becomes
  <2> HIDE DEF s, r
  <2>7. /\ bank'[l] = r /\ \A k \in Lines : k # l => bank'[k] = bank[k]
        /\ Known' = Known /\ Known \subseteq Lines
    <3>1. /\ bank'[l] = r /\ \A k \in Lines : k # l => bank'[k] = bank[k]
          /\ Known' = Known \cup {l}
      BY <1>1, <2>3, <2>4, Writes
    <3> QED
      BY <1>2, <3>1 DEF Known
  <2>8. \A v \in Workers : proc'[v].pc \in {"list", "match"} => v = w
    BY <1>1, <1>2, <2>6 DEF OneRun, IInv, Stage
  <2>9. Unlinked'
    <3>1. \A k \in Known' : bank'[k].recon = "unmatched" => bank'[k].match = None
      BY <2>3, <2>7 DEF Unlinked
    <3>2. \A k \in proc'[w].todo : k \in Credits /\ bank'[k].match = None
      BY <1>1, <1>2, <2>5, <2>6, <2>7 DEF Unlinked, IInv, Stage
    <3> QED
      BY <2>8, <3>1, <3>2 DEF Unlinked
  <2>10. t \notin Claimed /\ t # None
    BY <1>2, <2>2, BankAssumption, NoneApart DEF SerialInv, Claims, At
  <2>11. Linked' = Linked \cup {l} /\ l \notin Linked /\ Linked \subseteq Known
    BY <1>2, <2>3, <2>7, <2>10 DEF Linked
  <2>12. Links' = Links \cup {<<l, t>>}
    BY <2>3, <2>7, <2>11 DEF Links
  <2>13. \A x \in Links : x[1] # l /\ x[2] # t
    BY <2>10, <2>11 DEF Claimed, Linked, Links
  <2>14. Book!Link(l, t)
    BY <2>12, <2>13 DEF Book!Link
  <2>15. Book!LinkNext
    BY <2>2, <2>14 DEF Book!LinkNext
  <2> QED
    BY <2>9, <2>15
<1> QED
  BY <1>3, <1>4

\* Every step of the system is a link of LinkBook, or leaves the links alone.
LEMMA LinkStep ==
  ASSUME OneRun, SerialInv, Unlinked, [Next]_vars
  PROVE  Unlinked' /\ [Book!LinkNext]_Links
<1> DEFINE Goal == Unlinked' /\ [Book!LinkNext]_Links
<1>1. IInv
  BY DEF SerialInv
<1>2. Runs \subseteq Workers /\ Clerks \subseteq Workers
  BY DEF Workers
<1>3. ASSUME RowsStand, ListsCarried PROVE Goal
  BY <1>1, <1>3, LinksStand, UnlinkedStands
<1>4. ASSUME UNCHANGED proc PROVE ListsCarried
  BY <1>4 DEF ListsCarried
<1>5. ASSUME NEW w \in Workers, Work(w) \/ Crash(w) PROVE Goal
  <2>1. ASSUME UNCHANGED bank,
               \/ ListUnmatched(w) \/ ReadClaimed(w) \/ EndRematch(w) \/ BeginPropose(w)
               \/ EndPropose(w) \/ Ask(w) \/ Crash(w)
        PROVE  Goal
    <3>1. ListsCarried
      BY <1>1, <2>1, WorkLists DEF EndRematch, EndPropose, Crash
    <3> QED
      BY <1>3, <2>1, <3>1, SameRows
  <2>2. ASSUME NEW l \in Lines, InsertLine(w, l) PROVE Goal
    BY <1>1, <1>3, <2>2, InsertStands, WorkLists
  <2>3. ASSUME NEW l \in Lines, MatchLine(w, l) PROVE Goal
    BY <2>3, MatchLinks
  <2>4. ASSUME NEW l \in Lines, ProposeLine(w, l) PROVE Goal
    BY <1>1, <1>3, <2>4, ProposeStands, WorkLists
  <2>5. ASSUME WriteResult(w) PROVE Goal
    BY <1>1, <1>3, <2>5, ResultStands, WorkLists
  <2> HIDE DEF Goal
  <2> QED
    BY <1>5, <2>1, <2>2, <2>3, <2>4, <2>5
       DEF Work, ListUnmatched, ReadClaimed, EndRematch, BeginPropose, EndPropose, Ask, Crash
<1>6. ASSUME NEW w \in Runs, BeginImport(w) PROVE Goal
  <2>1. UNCHANGED bank
    BY <1>6 DEF BeginImport
  <2> QED
    BY <1>1, <1>2, <1>3, <1>6, <2>1, SameRows, WorkLists
<1>7. ASSUME NEW w \in Clerks, ByHand(w) PROVE Goal
  <2>1. RowsStand
    BY <1>1, <1>2, <1>7, ByHandStands DEF ByHand
  <2> QED
    BY <1>1, <1>2, <1>3, <1>7, <2>1, WorkLists
<1>8. ASSUME NEW w \in Clerks, Click(w) PROVE Goal
  BY <1>1, <1>2, <1>3, <1>4, <1>8, ClickStands DEF Click
<1>9. ASSUME UNCHANGED <<bank, proc>> PROVE Goal
  BY <1>3, <1>4, <1>9, SameRows
<1> HIDE DEF Goal
<1>10. ASSUME (\E p \in Payments : Revise(p)) \/ (\E o \in Orders : ImportOrder(o)) \/ UNCHANGED vars
       PROVE  Goal
  BY <1>9, <1>10 DEF Revise, ImportOrder, vars
<1>11. Goal
  BY <1>5, <1>6, <1>7, <1>8, <1>10 DEF Next
<1> QED
  BY <1>11 DEF Goal

\* With one run at a time the bank lines implement LinkBook: a link between a line and a
\* payout or transfer of its amount, once made, stands for good, and both are used up,
\* although the lines were listed and what is claimed was read before the line's turn.
THEOREM LinksImplemented ==
  ASSUME OneRun
  PROVE  Spec => ImplementsLinks
<1>1. Init => SerialInv /\ Unlinked /\ Book!LinkInit
  <2> SUFFICES ASSUME Init PROVE SerialInv /\ Unlinked /\ Book!LinkInit
    OBVIOUS
  <2>1. SerialInv
    BY InitSerial
  <2>2. Known = {} /\ \A w \in Workers : proc[w].pc = "idle"
    BY DEF Init, Known, Idle
  <2> QED
    BY <2>1, <2>2 DEF Unlinked, Links, Linked, Book!LinkInit
<1>2. SerialInv /\ Unlinked /\ [Next]_vars =>
        (SerialInv /\ Unlinked)' /\ [Book!LinkNext]_Links
  BY SerialStep, LinkStep
<1> QED
  BY <1>1, <1>2, PTL DEF Spec, ImplementsLinks, Book!LinkSpec
================================================================================
