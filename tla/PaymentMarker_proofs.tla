----------------------- MODULE PaymentMarker_proofs -----------------------
(***************************************************************************)
(* What TLAPS proves of PaymentMarker for every number of workers, orders, *)
(* payments and credits.                                                   *)
(*                                                                         *)
(* The inductive invariant follows a call through the handler: JobOK says  *)
(* what each stage of mark() has established and still holds however the   *)
(* other workers, the import and pretix moved meanwhile; RowOK says it of  *)
(* the rows in the log.  Both survive because a payment confirmed on our   *)
(* call stays so, and everPaid only grows.                                 *)
(***************************************************************************)
EXTENDS PaymentMarker, FiniteSetTheorems, TLAPS

PastFind == {"check", "ask", "confirm", "verify", "settle"}
PastCheck == {"ask", "confirm", "verify", "settle"}
PastAsk == {"confirm", "verify", "settle"}
PastConfirm == {"verify", "settle"}

\* What a confirmed row stands for.
RowOK(r) ==
  /\ r.order \in Orders /\ r.payment \in Payments
  /\ OrderOf[r.payment] = r.order
  /\ Amount[r.credit] > 0
  /\ payment[r.payment] = "booked"
  /\ r.reason = "exact_amount_and_code" =>
       FitsTotal(r.order, r.credit) /\ FitsPayment(r.payment, r.credit)
  /\ r.automatic => r.reason = "exact_amount_and_code"
  /\ r.verified => r.order \in everPaid

\* What a call knows at each stage.
JobOK(j) ==
  /\ j.pc # "idle" => j.ev \in Evidence /\ (j.automatic => ~j.allow)
  /\ j.pc \in PastFind => j.order \in Orders /\ Amount[j.ev.credit] > 0
  /\ j.pc \in PastCheck => FitsTotal(j.order, j.ev.credit) \/ j.allow
  /\ j.pc \in PastAsk =>
       /\ j.payment \in Payments /\ OrderOf[j.payment] = j.order
       /\ FitsPayment(j.payment, j.ev.credit) \/ j.allow
  /\ j.pc \in PastConfirm => payment[j.payment] = "booked"
  /\ j.pc = "settle" /\ j.verified => j.order \in everPaid
  /\ j.pc = "record" =>
       /\ j.outcome \in Outcomes /\ j.reason \in Reasons
       /\ j.outcome = "confirmed" => RowOK(Row(j))

PaidIsRemembered == \A o \in Orders : remote[o] = "p" => o \in everPaid

IInv ==
  /\ TypeOK
  /\ \A w \in Workers : JobOK(worker[w])
  /\ \A i \in Confirmations : RowOK(log[i])
  /\ PaidIsRemembered

(***************************************************************************)
(* Pieces of a step.                                                       *)
(***************************************************************************)

\* pretix only ever gains confirmed payments and paid orders to remember.
Monotone ==
  /\ \A p \in Payments : payment[p] = "booked" => payment'[p] = "booked"
  /\ everPaid \subseteq everPaid'

\* The shape of every action of a worker: one worker takes one new value, and it
\* is a value that knows what its stage requires.
Moves(w, k) == k \in Jobs /\ JobOK(k)' /\ worker' = [worker EXCEPT ![w] = k]

LEMMA RowKept ==
  ASSUME Monotone, NEW r, RowOK(r)
  PROVE  RowOK(r)'
  BY DEF Monotone, RowOK, FitsTotal, FitsPayment, Fits

LEMMA JobKept ==
  ASSUME Monotone, NEW j, JobOK(j)
  PROVE  JobOK(j)'
<1>1. j.pc = "record" /\ j.outcome = "confirmed" => RowOK(Row(j))'
  BY RowKept DEF JobOK, Row
<1>2. QED
  BY <1>1 DEF Monotone, JobOK, FitsTotal, FitsPayment, Fits, PastFind, PastCheck,
              PastAsk, PastConfirm, Row

LEMMA WorkersKept ==
  ASSUME IInv, Monotone, NEW w \in Workers, NEW k, Moves(w, k)
  PROVE  worker' \in [Workers -> Jobs] /\ \A v \in Workers : JobOK(worker[v])'
<1>1. worker' \in [Workers -> Jobs]
  BY DEF IInv, TypeOK, Moves
<1>2. ASSUME NEW v \in Workers PROVE JobOK(worker[v])'
  <2>1. CASE v = w BY <2>1 DEF IInv, TypeOK, Moves
  <2>2. CASE v # w
    <3>1. worker'[v] = worker[v] BY <2>2 DEF IInv, TypeOK, Moves
    <3>2. JobOK(worker[v]) BY DEF IInv
    <3>3. ASSUME NEW j, j = worker[v] PROVE JobOK(j)'
      BY <3>2, <3>3, JobKept
    <3>4. QED BY <3>1, <3>3 DEF JobOK
  <2>3. QED BY <2>1, <2>2
<1>3. QED BY <1>1, <1>2

\* A verdict other than "confirmed" needs nothing but its words.
LEMMA VerdictMoves ==
  ASSUME IInv, NEW w \in Workers, NEW j \in Jobs,
         j.ev \in Evidence, j.automatic => ~j.allow,
         NEW outcome \in {"skipped", "failed"}, NEW reason \in Reasons,
         Verdict(w, outcome, reason, j)
  PROVE  \E k : Moves(w, k)
<1> DEFINE k == [j EXCEPT !.pc = "record", !.outcome = outcome, !.reason = reason]
<1>1. k \in Jobs BY DEF Jobs, Outcomes
<1>2. /\ k.pc = "record" /\ k.ev = j.ev /\ k.automatic = j.automatic
      /\ k.allow = j.allow /\ k.outcome = outcome /\ k.reason = reason
  BY DEF Jobs
<1>3. JobOK(k)'
  BY <1>2 DEF JobOK, PastFind, PastCheck, PastAsk, PastConfirm, Outcomes
<1>4. worker' = [worker EXCEPT ![w] = k] BY DEF Verdict, Goto
<1>5. QED BY <1>1, <1>3, <1>4 DEF Moves

\* What a call that is under way may rely on.
LEMMA JobFacts ==
  ASSUME IInv, NEW w \in Workers
  PROVE  /\ worker[w] \in Jobs /\ JobOK(worker[w])
         /\ worker[w].pc # "idle" =>
              worker[w].ev \in Evidence /\ (worker[w].automatic => ~worker[w].allow)
  BY DEF IInv, TypeOK, JobOK

LEMMA BeginMoves ==
  ASSUME IInv, NEW w \in Workers, NEW call \in Calls, Begin(w, call)
  PROVE  \E k : Moves(w, k)
<1> DEFINE k == [Idle EXCEPT !.pc = "find", !.ev = call.ev,
                             !.automatic = call.automatic, !.allow = Armed(call)]
<1>1. call.ev \in Evidence /\ call.automatic \in BOOLEAN /\ call.allow \in BOOLEAN
  BY ConstantsAssumption
<1>2. Armed(call) \in BOOLEAN /\ (call.automatic => ~Armed(call))
  BY <1>1 DEF Armed
<1>3. k \in Jobs BY <1>1, <1>2 DEF Idle, Jobs
<1>4. /\ k.pc = "find" /\ k.ev = call.ev
      /\ k.automatic = call.automatic /\ k.allow = Armed(call)
  BY DEF Idle
<1>5. JobOK(k)'
  BY <1>1, <1>2, <1>4 DEF JobOK, PastFind, PastCheck, PastAsk, PastConfirm
<1>6. worker' = [worker EXCEPT ![w] = k] BY DEF Begin, Goto
<1>7. QED BY <1>3, <1>5, <1>6 DEF Moves

LEMMA FindMoves ==
  ASSUME IInv, NEW w \in Workers, FindOrder(w)
  PROVE  \E k : Moves(w, k)
<1> DEFINE j == worker[w]
<1>1. j \in Jobs /\ j.ev \in Evidence /\ (j.automatic => ~j.allow)
  BY JobFacts DEF FindOrder, At
<1>2. CASE \E r \in Reasons : Verdict(w, "skipped", r, j)
  BY <1>1, <1>2, VerdictMoves
<1>3. ASSUME ~Debit(j.ev), NEW o \in Orders,
             Goto(w, [j EXCEPT !.pc = "check", !.order = o, !.status = local[o]])
      PROVE  \E k : Moves(w, k)
  <2>0. PICK k : k = [j EXCEPT !.pc = "check", !.order = o, !.status = local[o]]
    OBVIOUS
  <2>1. local[o] \in Statuses \cup {None} BY DEF IInv, TypeOK
  <2>2. k \in Jobs BY <1>1, <2>0, <2>1 DEF Jobs
  <2>3. /\ k.pc = "check" /\ k.order = o /\ k.ev = j.ev
        /\ k.automatic = j.automatic /\ k.allow = j.allow
    BY <1>1, <2>0 DEF Jobs
  <2>4. Amount[j.ev.credit] > 0
    <3>1. Amount[j.ev.credit] \in Int BY <1>1, ConstantsAssumption
    <3>2. QED BY <1>3, <3>1 DEF Debit
  <2>5. JobOK(k)'
    BY <1>1, <2>3, <2>4 DEF JobOK, PastFind, PastCheck, PastAsk, PastConfirm
  <2>6. QED BY <1>3, <2>0, <2>2, <2>5 DEF Goto, Moves
<1>4. QED
  BY <1>2, <1>3 DEF FindOrder, Reasons

LEMMA CheckMoves ==
  ASSUME IInv, NEW w \in Workers, CheckLocally(w)
  PROVE  \E k : Moves(w, k)
<1> DEFINE j == worker[w]
<1>1. /\ j \in Jobs /\ j.ev \in Evidence /\ (j.automatic => ~j.allow)
      /\ JobOK(j) /\ j.pc = "check"
  BY JobFacts DEF CheckLocally, At
<1>2. CASE LocalRefusal(j) # None
  <2>1. LocalRefusal(j) \in Reasons BY <1>2 DEF LocalRefusal, Reasons
  <2>2. Verdict(w, "skipped", LocalRefusal(j), j) BY <1>2 DEF CheckLocally
  <2>3. QED BY <1>1, <2>1, <2>2, VerdictMoves
<1>3. CASE LocalRefusal(j) = None
  <2>0. PICK k : k = [j EXCEPT !.pc = "ask"]
    OBVIOUS
  <2>1. worker' = [worker EXCEPT ![w] = k] BY <1>3, <2>0 DEF CheckLocally, Goto
  <2>2. k \in Jobs BY <1>1, <2>0 DEF Jobs
  <2>3. /\ k.pc = "ask" /\ k.order = j.order /\ k.ev = j.ev
        /\ k.automatic = j.automatic /\ k.allow = j.allow
    BY <1>1, <2>0 DEF Jobs
  <2>4. FitsTotal(j.order, j.ev.credit) \/ j.allow
    BY <1>3, ConstantsAssumption DEF LocalRefusal, Reasons
  <2>5. JobOK(k)'
    BY <1>1, <2>3, <2>4 DEF JobOK, PastFind, PastCheck, PastAsk, PastConfirm,
                            FitsTotal, Fits
  <2>6. QED BY <2>1, <2>2, <2>5 DEF Moves
<1>4. QED BY <1>2, <1>3

LEMMA AskMoves ==
  ASSUME IInv, NEW w \in Workers, AskPending(w)
  PROVE  \E k : Moves(w, k)
<1> DEFINE j == worker[w]
<1>1. /\ j \in Jobs /\ j.ev \in Evidence /\ (j.automatic => ~j.allow)
      /\ JobOK(j) /\ j.pc = "ask"
  BY JobFacts DEF AskPending, At
<1>2. CASE Verdict(w, "skipped", "no_pending_payment", j)
  BY <1>1, <1>2, VerdictMoves DEF Reasons
<1>3. ASSUME NEW p \in Payments, OrderOf[p] = j.order,
             IF FitsPayment(p, j.ev.credit) \/ j.allow
               THEN Goto(w, [j EXCEPT !.pc = "confirm", !.payment = p])
               ELSE Verdict(w, "skipped", "amount_mismatch", [j EXCEPT !.payment = p])
      PROVE  \E k : Moves(w, k)
  <2>1. CASE FitsPayment(p, j.ev.credit) \/ j.allow
    <3>0. PICK k : k = [j EXCEPT !.pc = "confirm", !.payment = p]
      OBVIOUS
    <3>1. worker' = [worker EXCEPT ![w] = k] BY <1>3, <2>1, <3>0 DEF Goto
    <3>2. k \in Jobs BY <1>1, <3>0 DEF Jobs
    <3>3. /\ k.pc = "confirm" /\ k.order = j.order /\ k.ev = j.ev /\ k.payment = p
          /\ k.automatic = j.automatic /\ k.allow = j.allow
      BY <1>1, <3>0 DEF Jobs
    <3>4. JobOK(k)'
      BY <1>1, <1>3, <2>1, <3>3 DEF JobOK, PastFind, PastCheck, PastAsk,
                                    PastConfirm, FitsTotal, FitsPayment, Fits
    <3>5. QED BY <3>1, <3>2, <3>4 DEF Moves
  <2>2. CASE ~(FitsPayment(p, j.ev.credit) \/ j.allow)
    <3>0. PICK k : k = [j EXCEPT !.payment = p]
      OBVIOUS
    <3>1. k \in Jobs /\ k.ev = j.ev /\ k.automatic = j.automatic /\ k.allow = j.allow
      BY <1>1, <3>0 DEF Jobs
    <3>2. Verdict(w, "skipped", "amount_mismatch", k) BY <1>3, <2>2, <3>0
    <3>3. QED BY <1>1, <3>1, <3>2, VerdictMoves DEF Reasons
  <2>3. QED BY <2>1, <2>2
<1>4. QED BY <1>2, <1>3 DEF AskPending

LEMMA ConfirmMoves ==
  ASSUME IInv, NEW w \in Workers, Accepted(w) \/ AnswerLost(w) \/ Refused(w)
  PROVE  \E k : Moves(w, k)
<1> DEFINE j == worker[w]
<1>1. /\ j \in Jobs /\ j.ev \in Evidence /\ (j.automatic => ~j.allow)
      /\ JobOK(j) /\ j.pc = "confirm"
  BY JobFacts DEF Accepted, AnswerLost, Refused, At
<1>2. CASE AnswerLost(w) \/ Refused(w)
  <2>1. Verdict(w, "failed", "pretix_refused", j) BY <1>2 DEF AnswerLost, Refused
  <2>2. QED BY <1>1, <2>1, VerdictMoves DEF Reasons
<1>3. CASE Accepted(w)
  <2>0. PICK k : k = [j EXCEPT !.pc = "verify"]
    OBVIOUS
  <2>1. worker' = [worker EXCEPT ![w] = k] BY <1>3, <2>0 DEF Accepted, Goto
  <2>2. k \in Jobs BY <1>1, <2>0 DEF Jobs
  <2>3. /\ k.pc = "verify" /\ k.order = j.order /\ k.ev = j.ev
        /\ k.payment = j.payment /\ k.automatic = j.automatic /\ k.allow = j.allow
    BY <1>1, <2>0 DEF Jobs
  <2>4. j.payment \in Payments BY <1>1 DEF JobOK, PastAsk
  <2>5. payment'[k.payment] = "booked"
    BY <1>3, <2>3, <2>4 DEF Accepted, Book, IInv, TypeOK
  <2>6. JobOK(k)'
    BY <1>1, <2>3, <2>5 DEF JobOK, PastFind, PastCheck, PastAsk, PastConfirm,
                            FitsTotal, FitsPayment, Fits
  <2>7. QED BY <2>1, <2>2, <2>6 DEF Moves
<1>4. QED BY <1>2, <1>3

LEMMA VerifyMoves ==
  ASSUME IInv, NEW w \in Workers, Verify(w)
  PROVE  \E k : Moves(w, k)
<1> DEFINE j == worker[w]
<1>1. /\ j \in Jobs /\ j.ev \in Evidence /\ (j.automatic => ~j.allow)
      /\ JobOK(j) /\ j.pc = "verify"
  BY JobFacts DEF Verify, At
<1>2. CASE Verdict(w, "failed", "not_paid_after_confirm", j)
  BY <1>1, <1>2, VerdictMoves DEF Reasons
<1>3. ASSUME NEW verified \in BOOLEAN, verified => remote[j.order] = "p",
             Goto(w, [j EXCEPT !.pc = "settle", !.verified = verified])
      PROVE  \E k : Moves(w, k)
  <2>0. PICK k : k = [j EXCEPT !.pc = "settle", !.verified = verified]
    OBVIOUS
  <2>1. worker' = [worker EXCEPT ![w] = k] BY <1>3, <2>0 DEF Goto
  <2>2. k \in Jobs BY <1>1, <2>0 DEF Jobs
  <2>3. /\ k.pc = "settle" /\ k.order = j.order /\ k.ev = j.ev
        /\ k.payment = j.payment /\ k.automatic = j.automatic /\ k.allow = j.allow
        /\ k.verified = verified
    BY <1>1, <2>0 DEF Jobs
  <2>4. verified => j.order \in everPaid
    BY <1>1, <1>3 DEF IInv, PaidIsRemembered, JobOK, PastFind
  <2>5. payment' = payment /\ everPaid' = everPaid BY DEF Verify, pretixVars
  <2>6. JobOK(k)'
    BY <1>1, <2>3, <2>4, <2>5 DEF JobOK, PastFind, PastCheck, PastAsk, PastConfirm,
                                  FitsTotal, FitsPayment, Fits
  <2>7. QED BY <2>1, <2>2, <2>6 DEF Moves
<1>4. QED BY <1>2, <1>3 DEF Verify

LEMMA SettleMoves ==
  ASSUME IInv, NEW w \in Workers, Settle(w)
  PROVE  \E k : Moves(w, k)
<1> DEFINE j == worker[w]
           reason == IF Deviates(j) THEN "amount_mismatch_accepted"
                                    ELSE "exact_amount_and_code"
<1>1. /\ j \in Jobs /\ j.ev \in Evidence /\ (j.automatic => ~j.allow)
      /\ JobOK(j) /\ j.pc = "settle"
  BY JobFacts DEF Settle, At
<1>2. PICK k : k = [j EXCEPT !.pc = "record", !.outcome = "confirmed", !.reason = reason]
  OBVIOUS
<1>3. worker' = [worker EXCEPT ![w] = k] BY <1>2 DEF Settle, Verdict, Goto
<1>4. k \in Jobs BY <1>1, <1>2 DEF Jobs, Outcomes, Reasons
<1>5. /\ k.pc = "record" /\ k.order = j.order /\ k.ev = j.ev
      /\ k.payment = j.payment /\ k.automatic = j.automatic /\ k.allow = j.allow
      /\ k.verified = j.verified /\ k.outcome = "confirmed" /\ k.reason = reason
  BY <1>1, <1>2 DEF Jobs
<1>6. payment' = payment /\ everPaid' = everPaid BY DEF Settle, pretixVars
<1>7. /\ j.order \in Orders /\ Amount[j.ev.credit] > 0
      /\ FitsTotal(j.order, j.ev.credit) \/ j.allow
      /\ j.payment \in Payments /\ OrderOf[j.payment] = j.order
      /\ FitsPayment(j.payment, j.ev.credit) \/ j.allow
      /\ payment[j.payment] = "booked"
      /\ j.verified => j.order \in everPaid
  BY <1>1 DEF JobOK, PastFind, PastCheck, PastAsk, PastConfirm
<1>8. /\ reason = "exact_amount_and_code" =>
           FitsTotal(j.order, j.ev.credit) /\ FitsPayment(j.payment, j.ev.credit)
      /\ j.automatic => reason = "exact_amount_and_code"
  BY <1>1, <1>7 DEF Deviates
<1>9. RowOK(Row(k))'
  BY <1>5, <1>6, <1>7, <1>8 DEF RowOK, Row, FitsTotal, FitsPayment, Fits
<1>10. JobOK(k)'
  BY <1>1, <1>5, <1>9 DEF JobOK, PastFind, PastCheck, PastAsk, PastConfirm,
                          Outcomes, Reasons
<1>11. QED BY <1>3, <1>4, <1>10 DEF Moves

LEMMA BackToIdle ==
  ASSUME IInv, NEW w \in Workers, Record(w) \/ Crash(w)
  PROVE  Moves(w, Idle)
<1>1. Idle \in Jobs BY DEF Idle, Jobs
<1>2. JobOK(Idle)'
  BY DEF JobOK, Idle, PastFind, PastCheck, PastAsk, PastConfirm
<1>3. worker' = [worker EXCEPT ![w] = Idle] BY DEF Record, Crash, Goto
<1>4. QED BY <1>1, <1>2, <1>3 DEF Moves

\* A row is appended with what its call has established.
LEMMA RecordKeepsRows ==
  ASSUME IInv, NEW w \in Workers, Record(w)
  PROVE  log' \in Seq(Records) /\ \A i \in Confirmations' : RowOK(log[i])'
<1> DEFINE j == worker[w]
<1>1. j \in Jobs /\ j.ev \in Evidence /\ JobOK(j) /\ j.pc = "record"
  BY JobFacts DEF Record, At
<1>2. log \in Seq(Records) BY DEF IInv, TypeOK
<1>3. payment' = payment /\ everPaid' = everPaid BY DEF Record, pretixVars
<1>4. ASSUME NEW r, RowOK(r) PROVE RowOK(r)'
  BY <1>3, <1>4 DEF RowOK, FitsTotal, FitsPayment, Fits
<1>5. CASE log' = log
  <2>1. ASSUME NEW i \in Confirmations' PROVE RowOK(log[i])'
    <3>1. PICK q : q = log[i] OBVIOUS
    <3>2. RowOK(q) BY <1>5, <2>1, <3>1 DEF IInv, Confirmations
    <3>3. RowOK(q)' BY <1>4, <3>2
    <3>4. log'[i] = q BY <1>5, <3>1
    <3>5. QED BY <3>3, <3>4 DEF RowOK
  <2>2. QED BY <1>2, <1>5, <2>1
<1>6. CASE log' = Append(log, Row(j))
  <2>1. PICK r : r = Row(j) OBVIOUS
  <2>2. r \in Records
    <3>1. j.outcome \in Outcomes /\ j.reason \in Reasons BY <1>1 DEF JobOK
    <3>2. j.ev.credit \in Credits BY <1>1, ConstantsAssumption
    <3>3. /\ j.order \in Orders \cup {None} /\ j.automatic \in BOOLEAN
          /\ j.payment \in Payments \cup {None} /\ j.verified \in BOOLEAN
      BY <1>1 DEF Jobs
    <3>4. QED BY <2>1, <3>1, <3>2, <3>3 DEF Records, Row
  <2>3. log' \in Seq(Records) BY <1>2, <1>6, <2>1, <2>2
  <2>4. r.outcome = "confirmed" => RowOK(r)'
    <3>1. r.outcome = j.outcome BY <2>1 DEF Row
    <3>2. r.outcome = "confirmed" => RowOK(Row(j)) BY <1>1, <3>1 DEF JobOK
    <3>3. QED BY <1>4, <2>1, <3>2
  <2>5. ASSUME NEW i \in Confirmations' PROVE RowOK(log[i])'
    <3>1. i \in 1..Len(log) + 1 /\ log'[i].outcome = "confirmed"
      BY <1>2, <1>6, <2>1, <2>2, <2>5 DEF Confirmations
    <3>2. PICK q : q = log'[i] OBVIOUS
    <3>3. CASE i = Len(log) + 1
      <4>1. q = r BY <1>2, <1>6, <2>1, <2>2, <3>2, <3>3
      <4>2. RowOK(q)' BY <2>4, <3>1, <3>2, <4>1
      <4>3. QED BY <3>2, <4>2 DEF RowOK
    <3>4. CASE i # Len(log) + 1
      <4>1. i \in 1..Len(log) /\ q = log[i]
        BY <1>2, <1>6, <2>1, <2>2, <3>1, <3>2, <3>4
      <4>2. RowOK(q) BY <1>2, <3>1, <3>2, <4>1 DEF IInv, Confirmations
      <4>3. RowOK(q)' BY <1>4, <4>2
      <4>4. QED BY <3>2, <4>3 DEF RowOK
    <3>5. QED BY <3>3, <3>4
  <2>6. QED BY <2>3, <2>5
<1>7. QED BY <1>5, <1>6 DEF Record

(***************************************************************************)
(* The induction.                                                          *)
(***************************************************************************)

LEMMA StepMonotone ==
  ASSUME IInv, [Next]_vars
  PROVE  Monotone /\ PaidIsRemembered'
<1> USE DEF Monotone, PaidIsRemembered
<1>1. ASSUME NEW w \in Workers, Accepted(w) \/ AnswerLost(w)
      PROVE  Monotone /\ PaidIsRemembered'
  <2>1. worker[w].payment \in Payments
    BY <1>1, JobFacts DEF Accepted, AnswerLost, At, JobOK, PastAsk
  <2>2. Book(worker[w].payment) BY <1>1 DEF Accepted, AnswerLost
  <2>3. QED
    BY <2>1, <2>2, ConstantsAssumption DEF Book, IInv, TypeOK
<1>2. ASSUME NEW w \in Workers,
             Call(w) \/ FindOrder(w) \/ CheckLocally(w) \/ AskPending(w) \/ Refused(w)
               \/ Verify(w) \/ Settle(w) \/ Record(w) \/ Crash(w)
      PROVE  Monotone /\ PaidIsRemembered'
  <2>1. payment' = payment /\ everPaid' = everPaid /\ remote' = remote
    BY <1>2 DEF Call, Begin, FindOrder, CheckLocally, AskPending, Refused, Verify,
                Settle, Record, Crash, pretixVars
  <2>2. QED BY <2>1 DEF IInv
<1>3. CASE Around
  BY <1>3, ConstantsAssumption DEF Around, FetchOrder, StoreOrder, ChangeOrder,
     TurnSwitch, ChangePayment, pretixVars, IInv, TypeOK
<1>4. CASE UNCHANGED vars BY <1>4 DEF vars, IInv
<1>5. QED BY <1>1, <1>2, <1>3, <1>4 DEF Next, Step

LEMMA StepMoves ==
  ASSUME IInv, NEW w \in Workers, Call(w) \/ Step(w) \/ Crash(w)
  PROVE  \E k : Moves(w, k)
BY BeginMoves, FindMoves, CheckMoves, AskMoves, ConfirmMoves, VerifyMoves,
   SettleMoves, BackToIdle DEF Call, Step

\* The tables a step of a worker does not own keep their types.
LEMMA WorkerStepTypes ==
  ASSUME IInv, NEW w \in Workers, Call(w) \/ Step(w) \/ Crash(w)
  PROVE  /\ local' \in [Orders -> Statuses \cup {None}]
         /\ page' = page /\ autoMark' = autoMark
         /\ remote' \in [Orders -> Statuses]
         /\ payment' \in [Payments -> PaymentStates]
         /\ everPaid' \subseteq Orders
         /\ ~Record(w) => log' = log
<1>1. page' = page /\ autoMark' = autoMark /\ (~Record(w) => log' = log)
  BY DEF Call, Step, Begin, FindOrder, CheckLocally, AskPending, Accepted,
         AnswerLost, Refused, Verify, Settle, Record, Crash
<1>2. local' \in [Orders -> Statuses \cup {None}]
  BY DEF IInv, TypeOK, Statuses, Call, Step, Begin, FindOrder, CheckLocally,
         AskPending, Accepted, AnswerLost, Refused, Verify, Settle, Record, Crash
<1>3. /\ remote' \in [Orders -> Statuses]
      /\ payment' \in [Payments -> PaymentStates]
      /\ everPaid' \subseteq Orders
  <2>1. CASE Accepted(w) \/ AnswerLost(w)
    <3>1. worker[w].payment \in Payments
      BY <2>1, JobFacts DEF Accepted, AnswerLost, At, JobOK, PastAsk
    <3>2. Book(worker[w].payment) BY <2>1 DEF Accepted, AnswerLost
    <3>3. OrderOf[worker[w].payment] \in Orders BY <3>1, ConstantsAssumption
    <3>4. payment' \in [Payments -> PaymentStates]
      BY <3>2 DEF Book, IInv, TypeOK, PaymentStates
    <3>5. remote' \in [Orders -> Statuses] /\ everPaid' \subseteq Orders
      BY <3>2, <3>3 DEF Book, IInv, TypeOK, Statuses
    <3>6. QED BY <3>4, <3>5
  <2>2. CASE ~(Accepted(w) \/ AnswerLost(w))
    <3>1. UNCHANGED pretixVars
      BY <2>2 DEF Call, Step, Begin, FindOrder, CheckLocally, AskPending,
                  Refused, Verify, Settle, Record, Crash
    <3>2. QED BY <3>1 DEF pretixVars, IInv, TypeOK
  <2>3. QED BY <2>1, <2>2
<1>4. QED BY <1>1, <1>2, <1>3

LEMMA WorkerStep ==
  ASSUME IInv, [Next]_vars, NEW w \in Workers, Call(w) \/ Step(w) \/ Crash(w)
  PROVE  IInv'
<1>1. Monotone /\ PaidIsRemembered' BY StepMonotone
<1>2. worker' \in [Workers -> Jobs] /\ \A v \in Workers : JobOK(worker[v])'
  BY <1>1, StepMoves, WorkersKept
<1>3. log' \in Seq(Records) /\ \A i \in Confirmations' : RowOK(log[i])'
  <2>1. CASE Record(w) BY <2>1, RecordKeepsRows
  <2>2. CASE log' = log
    <3>1. ASSUME NEW i \in Confirmations' PROVE RowOK(log[i])'
      <4>1. PICK q : q = log[i] OBVIOUS
      <4>2. RowOK(q) BY <2>2, <3>1, <4>1 DEF IInv, Confirmations
      <4>3. RowOK(q)' BY <1>1, <4>2, RowKept
      <4>4. log'[i] = q BY <2>2, <4>1
      <4>5. QED BY <4>3, <4>4 DEF RowOK
    <3>2. QED BY <2>2, <3>1 DEF IInv, TypeOK
  <2>3. QED BY <2>1, <2>2, WorkerStepTypes
<1>4. TypeOK'
  BY <1>2, <1>3, WorkerStepTypes DEF IInv, TypeOK
<1>5. QED BY <1>1, <1>2, <1>3, <1>4 DEF IInv

\* Outside a call: the import, the switch and pretix touch no worker and no row.
LEMMA OutsideStep ==
  ASSUME IInv, [Next]_vars, Around \/ UNCHANGED vars
  PROVE  IInv'
<1>1. Monotone /\ PaidIsRemembered' BY StepMonotone
<1>2. worker' = worker /\ log' = log
  BY DEF Around, FetchOrder, StoreOrder, ChangeOrder, TurnSwitch, ChangePayment, vars
<1>3. TypeOK'
  <2>1. CASE Around
    <3>1. ASSUME NEW o \in Orders, FetchOrder(o) PROVE TypeOK'
      BY <3>1 DEF IInv, TypeOK, FetchOrder, pretixVars
    <3>2. ASSUME NEW o \in Orders, ChangeOrder(o) PROVE TypeOK'
      BY <3>2 DEF IInv, TypeOK, ChangeOrder
    <3>3. ASSUME StoreOrder PROVE TypeOK'
      <4>1. page.order \in Orders /\ page.status \in Statuses
        BY <3>3 DEF IInv, TypeOK, StoreOrder
      <4>2. QED BY <3>3, <4>1 DEF IInv, TypeOK, StoreOrder, pretixVars
    <3>4. ASSUME NEW s \in Slugs, TurnSwitch(s) PROVE TypeOK'
      BY <3>4 DEF IInv, TypeOK, TurnSwitch, pretixVars
    <3>5. ASSUME NEW p \in Payments, ChangePayment(p) PROVE TypeOK'
      BY <3>5 DEF IInv, TypeOK, ChangePayment, PaymentStates
    <3>6. QED BY <2>1, <3>1, <3>2, <3>3, <3>4, <3>5 DEF Around
  <2>2. CASE UNCHANGED vars BY <2>2 DEF vars, IInv, TypeOK
  <2>3. QED BY <2>1, <2>2
<1>4. ASSUME NEW v \in Workers PROVE JobOK(worker[v])'
  <2>1. PICK q : q = worker[v] OBVIOUS
  <2>2. JobOK(q)' BY <1>1, <2>1, JobKept DEF IInv
  <2>3. worker'[v] = q BY <1>2, <2>1
  <2>4. QED BY <2>2, <2>3 DEF JobOK
<1>5. ASSUME NEW i \in Confirmations' PROVE RowOK(log[i])'
  <2>1. PICK q : q = log[i] OBVIOUS
  <2>2. RowOK(q) BY <1>2, <1>5, <2>1 DEF IInv, Confirmations
  <2>3. RowOK(q)' BY <1>1, <2>2, RowKept
  <2>4. log'[i] = q BY <1>2, <2>1
  <2>5. QED BY <2>3, <2>4 DEF RowOK
<1>6. QED BY <1>1, <1>3, <1>4, <1>5 DEF IInv

LEMMA Start == Init => IInv
<1> SUFFICES ASSUME Init PROVE IInv OBVIOUS
<1>1. TypeOK
  BY ConstantsAssumption DEF Init, TypeOK, Idle, Jobs, Statuses, PaymentStates
<1>2. \A w \in Workers : JobOK(worker[w])
  BY DEF Init, Idle, JobOK, PastFind, PastCheck, PastAsk, PastConfirm
<1>3. Confirmations = {} BY DEF Init, Confirmations
<1>4. PaidIsRemembered BY DEF Init, PaidIsRemembered
<1>5. QED BY <1>1, <1>2, <1>3, <1>4 DEF IInv

LEMMA Induction == IInv /\ [Next]_vars => IInv'
BY WorkerStep, OutsideStep DEF Next

\* The inductive invariant holds in every behaviour.
THEOREM Inductive == Spec => []IInv
<1>1. QED BY Start, Induction, PTL DEF Spec

\* Types: every call, row, status and payment stays of its kind, however many
\* calls of mark() interleave.
THEOREM TypeCorrect == Spec => []TypeOK
<1>1. IInv => TypeOK BY DEF IInv
<1>2. QED BY <1>1, Inductive, PTL

\* A confirmed row always names incoming money and a payment of its own order that
\* pretix confirmed on our call - for any number of concurrent pulls and clicks.
THEOREM ConfirmedIsBookedHolds == Spec => []ConfirmedIsBooked
<1>1. IInv => ConfirmedIsBooked BY DEF IInv, ConfirmedIsBooked, RowOK
<1>2. QED BY <1>1, Inductive, PTL

\* The tolerance of both comparisons is at most a cent.
LEMMA FitsWithinCent ==
  ASSUME NEW a \in Int, NEW b \in Int, Fits(a, b)
  PROVE  WithinCent(a, b)
<1>1. CASE a = b BY <1>1 DEF WithinCent
<1>2. CASE <<a, b>> \in CentSlack
  <2>1. a - b \in {-1, 1} BY <1>2, ConstantsAssumption
  <2>2. QED BY <2>1 DEF WithinCent
<1>3. QED BY <1>1, <1>2 DEF Fits

\* The automation never accepts an amount that is more than a cent off, and nobody accepts
\* one under the plain reason - for any amounts, and any tolerance of up to a cent.
THEOREM DeviationsAreSignedHolds == Spec => []DeviationsAreSigned
<1>1. IInv => DeviationsAreSigned
  <2>1. SUFFICES ASSUME IInv, NEW i \in Confirmations PROVE
          /\ log[i].reason = "exact_amount_and_code" =>
               /\ Total[log[i].order] = None
                    \/ WithinCent(Total[log[i].order], Amount[log[i].credit])
               /\ WithinCent(PayAmount[log[i].payment], Amount[log[i].credit])
          /\ log[i].automatic => log[i].reason = "exact_amount_and_code"
    BY DEF DeviationsAreSigned
  <2>2. RowOK(log[i]) BY <2>1 DEF IInv, Confirmations
  <2>3. log[i].credit \in Credits
    <3>1. log \in Seq(Records) /\ i \in DOMAIN log BY <2>1 DEF IInv, TypeOK, Confirmations
    <3>2. log[i] \in Records BY <3>1
    <3>3. QED BY <3>2 DEF Records
  <2>4. /\ Amount[log[i].credit] \in Int /\ PayAmount[log[i].payment] \in Int
        /\ Total[log[i].order] # None => Total[log[i].order] \in Int
    BY <2>2, <2>3, ConstantsAssumption DEF RowOK
  <2>5. QED BY <2>2, <2>4, FitsWithinCent DEF RowOK, FitsTotal, FitsPayment
<1>2. QED BY <1>1, Inductive, PTL

\* "exact_amount_and_code" as the panel explains it to the reader ("der Betrag stimmte auf den
\* Cent", PretixPaymentConfirmation): the credit is the order's total and the payment.
ExactIsExact ==
  \A i \in Confirmations : LET r == log[i] IN
    r.reason = "exact_amount_and_code" =>
      /\ Total[r.order] \in {None, Amount[r.credit]}
      /\ PayAmount[r.payment] = Amount[r.credit]

\* That explanation is true where the tolerance lets no two amounts a cent apart pass for
\* equal.  With a TOLERANCE of a whole cent, compared as floating-point numbers, some do.
THEOREM ExactWithoutSlack ==
  ASSUME CentSlack = {}
  PROVE  Spec => []ExactIsExact
<1>1. IInv => ExactIsExact
  BY DEF IInv, ExactIsExact, RowOK, FitsTotal, FitsPayment, Fits
<1>2. QED BY <1>1, Inductive, PTL

\* A row that claims verification is about an order pretix has carried as paid.
THEOREM VerifiedWasPaidHolds == Spec => []VerifiedWasPaid
<1>1. IInv => VerifiedWasPaid BY DEF IInv, VerifiedWasPaid, RowOK
<1>2. QED BY <1>1, Inductive, PTL

(***************************************************************************)
(* One call at a time: what the comment above alreadyConfirmed() promises. *)
(* A call that has passed that check and is not over yet finds its order   *)
(* still without a confirmation, because nobody else could write one.      *)
(***************************************************************************)

FreshJob(j) ==
  j.pc \in PastCheck \/ (j.pc = "record" /\ j.outcome = "confirmed") => ~Confirmed(j.order)

SerialInv ==
  /\ IInv
  /\ Alone
  /\ \A w \in Workers : FreshJob(worker[w])
  /\ OneConfirmationPerOrder

LEMMA SerialNextIsNext == [SerialNext]_vars => [Next]_vars
BY DEF SerialNext, SerialCall, Next

\* An order is not confirmed by a step that leaves the log alone.
LEMMA ConfirmedStable ==
  ASSUME log' = log, NEW o
  PROVE  Confirmed(o)' <=> Confirmed(o)
BY DEF Confirmed

LEMMA GotoReads ==
  ASSUME IInv, NEW w \in Workers, NEW k, Goto(w, k)
  PROVE  worker'[w] = k
BY DEF IInv, TypeOK, Goto

LEMMA VerdictReads ==
  ASSUME IInv, NEW w \in Workers, NEW j \in Jobs, NEW outcome, NEW reason,
         Verdict(w, outcome, reason, j)
  PROVE  /\ worker'[w].pc = "record" /\ worker'[w].outcome = outcome
         /\ worker'[w].order = j.order
<1>1. PICK k : k = [j EXCEPT !.pc = "record", !.outcome = outcome, !.reason = reason]
  OBVIOUS
<1>2. worker'[w] = k BY <1>1, GotoReads DEF Verdict
<1>3. k.pc = "record" /\ k.outcome = outcome /\ k.order = j.order BY <1>1 DEF Jobs
<1>4. QED BY <1>2, <1>3

\* A call keeps its order, and passes the check only when the order is fresh.
LEMMA FreshStep ==
  ASSUME IInv, NEW w \in Workers, FreshJob(worker[w]), log' = log,
         Call(w) \/ Step(w) \/ Crash(w), ~Record(w)
  PROVE  FreshJob(worker[w])'
<1> DEFINE j == worker[w]
<1>0. j \in Jobs /\ worker \in [Workers -> Jobs] BY DEF IInv, TypeOK
<1> SUFFICES ASSUME NEW k, k = worker'[w],
                    k.pc \in PastCheck \/ (k.pc = "record" /\ k.outcome = "confirmed")
             PROVE  ~Confirmed(k.order)
  BY ConfirmedStable DEF FreshJob
<1>1. CASE Call(w) \/ Crash(w)
  <2>1. CASE Crash(w)
    <3>1. k = Idle BY <2>1, GotoReads DEF Crash
    <3>2. QED BY <3>1 DEF Idle, PastCheck
  <2>2. CASE Call(w)
    <3>1. k.pc = "find" BY <2>2, GotoReads DEF Call, Begin, Idle
    <3>2. QED BY <3>1 DEF PastCheck
  <2>3. QED BY <1>1, <2>1, <2>2
<1>2. CASE FindOrder(w)
  <2>1. CASE \E r : Verdict(w, "skipped", r, j)
    <3>1. k.pc = "record" /\ k.outcome = "skipped" BY <1>0, <2>1, VerdictReads
    <3>2. QED BY <3>1 DEF PastCheck
  <2>2. CASE \E o \in Orders :
               Goto(w, [j EXCEPT !.pc = "check", !.order = o, !.status = local[o]])
    <3>1. k.pc = "check" BY <1>0, <2>2, GotoReads DEF Jobs
    <3>2. QED BY <3>1 DEF PastCheck
  <2>3. QED BY <1>2, <2>1, <2>2 DEF FindOrder
<1>3. CASE CheckLocally(w)
  <2>1. CASE LocalRefusal(j) # None
    <3>1. Verdict(w, "skipped", LocalRefusal(j), j)
      BY <1>3, <2>1 DEF CheckLocally
    <3>2. k.pc = "record" /\ k.outcome = "skipped" BY <1>0, <3>1, VerdictReads
    <3>3. QED BY <3>2 DEF PastCheck
  <2>2. CASE LocalRefusal(j) = None
    <3>1. ~Confirmed(j.order)
      BY <2>2, ConstantsAssumption DEF LocalRefusal, Reasons
    <3>2. k.order = j.order BY <1>0, <1>3, <2>2 DEF CheckLocally, Goto, Jobs
    <3>3. QED BY <3>1, <3>2
  <2>3. QED BY <2>1, <2>2
<1>4. CASE AskPending(w)
  <2>1. ~Confirmed(j.order) BY <1>4 DEF FreshJob, AskPending, At, PastCheck
  <2>2. k.order = j.order
    BY <1>0, <1>4 DEF AskPending, Verdict, Goto, Jobs
  <2>3. QED BY <2>1, <2>2
<1>5. CASE Accepted(w) \/ AnswerLost(w) \/ Refused(w)
  <2>1. ~Confirmed(j.order)
    BY <1>5 DEF FreshJob, Accepted, AnswerLost, Refused, At, PastCheck
  <2>2. k.order = j.order
    BY <1>0, <1>5 DEF Accepted, AnswerLost, Refused, Verdict, Goto, Jobs
  <2>3. QED BY <2>1, <2>2
<1>6. CASE Verify(w) \/ Settle(w)
  <2>1. ~Confirmed(j.order) BY <1>6 DEF FreshJob, Verify, Settle, At, PastCheck
  <2>2. k.order = j.order
    <3>1. CASE \E o, r : Verdict(w, o, r, j) BY <1>0, <3>1, VerdictReads
    <3>2. CASE \E v : Goto(w, [j EXCEPT !.pc = "settle", !.verified = v])
      BY <1>0, <3>2, GotoReads DEF Jobs
    <3>3. QED BY <1>6, <3>1, <3>2 DEF Verify, Settle
  <2>3. QED BY <2>1, <2>2
<1>7. QED BY <1>1, <1>2, <1>3, <1>4, <1>5, <1>6 DEF Step

\* The row that ends a call is the first confirmation of its order, if it is one.
LEMMA RecordOnce ==
  ASSUME SerialInv, NEW w \in Workers, Record(w)
  PROVE  OneConfirmationPerOrder'
<1> DEFINE j == worker[w]
<1>1. log \in Seq(Records) /\ j.pc = "record" /\ FreshJob(j)
  BY DEF SerialInv, IInv, TypeOK, Record, At
<1>2. CASE log' = log
  BY <1>2 DEF SerialInv, OneConfirmationPerOrder, Confirmations
<1>3. CASE log' = Append(log, Row(j))
  <2>1. log' \in Seq(Records) BY RecordKeepsRows DEF SerialInv
  <2>2. /\ DOMAIN log' = 1..Len(log) + 1
        /\ \A i \in 1..Len(log) : log'[i] = log[i]
        /\ log'[Len(log) + 1] = Row(j)
    BY <1>1, <1>3
  <2>3. Row(j).order = j.order /\ Row(j).outcome = j.outcome BY DEF Row
  <2>4. ASSUME NEW i \in Confirmations', NEW k \in Confirmations',
               log'[i].order = log'[k].order, i # k, i # Len(log) + 1
        PROVE  FALSE
    <3>1. i \in 1..Len(log) /\ i \in Confirmations
      BY <1>1, <2>2, <2>4 DEF Confirmations
    <3>2. CASE k = Len(log) + 1
      BY <1>1, <2>2, <2>3, <2>4, <3>1, <3>2 DEF FreshJob, Confirmed, Confirmations
    <3>3. CASE k # Len(log) + 1
      <4>1. k \in 1..Len(log) /\ k \in Confirmations
        BY <1>1, <2>2, <2>4, <3>3 DEF Confirmations
      <4>2. QED
        BY <2>2, <2>4, <3>1, <4>1 DEF SerialInv, OneConfirmationPerOrder
    <3>4. QED BY <3>2, <3>3
  <2>5. SUFFICES ASSUME NEW i \in Confirmations', NEW k \in Confirmations',
                        log'[i].order = log'[k].order
                 PROVE  i = k
    BY DEF OneConfirmationPerOrder
  <2>6. CASE i # Len(log) + 1 BY <2>4, <2>5, <2>6
  <2>7. CASE k # Len(log) + 1 BY <2>4, <2>5, <2>7
  <2>8. QED BY <2>6, <2>7
<1>4. QED BY <1>2, <1>3 DEF Record

LEMMA SerialInduction == SerialInv /\ [SerialNext]_vars => SerialInv'
<1> SUFFICES ASSUME SerialInv, [SerialNext]_vars PROVE SerialInv'
  OBVIOUS
<1>0. IInv' BY SerialNextIsNext, Induction DEF SerialInv
<1>t. worker \in [Workers -> Jobs] BY DEF SerialInv, IInv, TypeOK
<1>1. ASSUME NEW w \in Workers, SerialCall(w) \/ Step(w) \/ Crash(w)
      PROVE  SerialInv'
  <2>1. Call(w) \/ Step(w) \/ Crash(w) BY <1>1 DEF SerialCall
  <2>2. PICK k : Moves(w, k) BY <2>1, StepMoves DEF SerialInv
  <2>3. \A v \in Workers : v # w => worker'[v] = worker[v]
    BY <1>t, <2>2 DEF Moves
  <2>4. \A v \in Workers : v # w => At(v, "idle")
    <3>1. CASE SerialCall(w) BY <3>1 DEF SerialCall
    <3>2. CASE Step(w) \/ Crash(w)
      <4>1. ~At(w, "idle")
        BY <3>2 DEF Step, FindOrder, CheckLocally, AskPending, Accepted, AnswerLost,
                    Refused, Verify, Settle, Record, Crash, At
      <4>2. QED BY <4>1 DEF SerialInv, Alone
    <3>3. QED BY <1>1, <3>1, <3>2
  <2>5. \A v \in Workers : v # w => At(v, "idle")'
    BY <2>3, <2>4 DEF At
  <2>6. Alone' BY <2>5 DEF Alone, At
  <2>7. \A v \in Workers : v # w => FreshJob(worker[v])'
    BY <2>5 DEF FreshJob, At, PastCheck
  <2>8. CASE Record(w)
    <3>1. FreshJob(worker[w])'
      BY <1>t, <2>8 DEF Record, Goto, Idle, FreshJob, PastCheck
    <3>2. QED BY <1>0, <2>6, <2>7, <2>8, <3>1, RecordOnce DEF SerialInv
  <2>9. CASE ~Record(w)
    <3>1. log' = log BY <2>1, <2>9, WorkerStepTypes DEF SerialInv
    <3>2. FreshJob(worker[w])' BY <2>1, <2>9, <3>1, FreshStep DEF SerialInv
    <3>3. OneConfirmationPerOrder'
      BY <3>1 DEF SerialInv, OneConfirmationPerOrder, Confirmations
    <3>4. QED BY <1>0, <2>6, <2>7, <3>2, <3>3 DEF SerialInv
  <2>10. QED BY <2>8, <2>9
<1>2. CASE Around \/ UNCHANGED vars
  <2>1. worker' = worker /\ log' = log
    BY <1>2 DEF Around, FetchOrder, StoreOrder, ChangeOrder, TurnSwitch,
                ChangePayment, vars
  <2>2. Alone' BY <2>1 DEF SerialInv, Alone, At
  <2>3. \A w \in Workers : FreshJob(worker[w])'
    BY <2>1 DEF SerialInv, FreshJob, Confirmed
  <2>4. OneConfirmationPerOrder'
    BY <2>1 DEF SerialInv, OneConfirmationPerOrder, Confirmations
  <2>5. QED BY <1>0, <2>2, <2>3, <2>4 DEF SerialInv
<1>3. QED BY <1>1, <1>2 DEF SerialNext

LEMMA SerialStart == Init => SerialInv
<1> SUFFICES ASSUME Init PROVE SerialInv OBVIOUS
<1>1. Confirmations = {} BY DEF Init, Confirmations
<1>2. QED
  BY <1>1, Start DEF SerialInv, Init, Idle, Alone, At, FreshJob, PastCheck,
                     OneConfirmationPerOrder

\* ONE CONFIRMATION PER ORDER, EVER - as long as calls of mark() do not overlap:
\* through every crash, lost answer, stale import, refund and reopened payment.
THEOREM OneConfirmationWhenSerial == SerialSpec => []OneConfirmationPerOrder
<1>1. SerialInv => OneConfirmationPerOrder BY DEF SerialInv
<1>2. QED BY <1>1, SerialStart, SerialInduction, PTL DEF SerialSpec

(***************************************************************************)
(* The log as the abstract desk.  A row that says "confirmed" is a Give of *)
(* its order, and every other step leaves what the log says of the orders  *)
(* as it is.                                                               *)
(***************************************************************************)

ConfirmationsOf(o) == {i \in Confirmations : log[i].order = o}

\* A log that has grown by a row has grown by a confirmation, or by none.
LEMMA GrownLog ==
  ASSUME log \in Seq(Records), NEW r, log' = Append(log, r), NEW o
  PROVE  ConfirmationsOf(o)' = IF r.outcome = "confirmed" /\ r.order = o
                                 THEN ConfirmationsOf(o) \cup {Len(log) + 1}
                                 ELSE ConfirmationsOf(o)
<1>1. /\ DOMAIN log = 1..Len(log) /\ Len(log) \in Nat /\ DOMAIN log' = 1..Len(log) + 1
      /\ \A i \in 1..Len(log) : log'[i] = log[i]
      /\ log'[Len(log) + 1] = r
  OBVIOUS
<1>2. ASSUME NEW i
      PROVE  i \in ConfirmationsOf(o)' <=>
               \/ i \in ConfirmationsOf(o)
               \/ i = Len(log) + 1 /\ r.outcome = "confirmed" /\ r.order = o
  <2>1. i \in ConfirmationsOf(o)' <=>
          i \in 1..Len(log) + 1 /\ log'[i].outcome = "confirmed" /\ log'[i].order = o
    BY <1>1 DEF ConfirmationsOf, Confirmations
  <2>2. i \in ConfirmationsOf(o) <=>
          i \in 1..Len(log) /\ log[i].outcome = "confirmed" /\ log[i].order = o
    BY <1>1 DEF ConfirmationsOf, Confirmations
  <2>3. CASE i = Len(log) + 1 BY <1>1, <2>1, <2>2, <2>3
  <2>4. CASE i # Len(log) + 1
    <3>1. i \in 1..Len(log) + 1 <=> i \in 1..Len(log) BY <1>1, <2>4
    <3>2. QED BY <1>1, <2>1, <2>2, <2>4, <3>1
  <2>5. QED BY <2>3, <2>4
<1>3. QED BY <1>2

\* The row that ends a call is a Give of its order, or says nothing to the desk.
LEMMA RecordGives ==
  ASSUME SerialInv, NEW w \in Workers, Record(w)
  PROVE  [Desk!DeskNext]_Given
<1> DEFINE j == worker[w]
           r == Row(j)
<1>1. log \in Seq(Records) /\ j.pc = "record" /\ FreshJob(j) /\ JobOK(j)
  BY DEF SerialInv, IInv, TypeOK, Record, At
<1>2. r.order = j.order /\ r.outcome = j.outcome BY DEF Row
<1>3. CASE log' = log
  BY <1>3 DEF Given, Confirmations
<1>4. CASE log' = Append(log, r) /\ r.outcome # "confirmed"
  <2>1. \A o \in Orders : ConfirmationsOf(o)' = ConfirmationsOf(o)
    BY <1>1, <1>4, GrownLog
  <2>2. QED BY <2>1 DEF Given, ConfirmationsOf
<1>5. CASE log' = Append(log, r) /\ r.outcome = "confirmed"
  <2>1. PICK x \in Orders : x = j.order
    BY <1>1, <1>2, <1>5 DEF JobOK, RowOK
  <2>2. ConfirmationsOf(x) = {}
    BY <1>1, <1>2, <1>5, <2>1 DEF FreshJob, ConfirmationsOf, Confirmations, Confirmed
  <2>3. ConfirmationsOf(x)' = {Len(log) + 1}
    <3>1. ConfirmationsOf(x)' = ConfirmationsOf(x) \cup {Len(log) + 1}
      BY <1>1, <1>2, <1>5, <2>1, GrownLog
    <3>2. QED BY <2>2, <3>1
  <2>4. \A o \in Orders : o # x => ConfirmationsOf(o)' = ConfirmationsOf(o)
    BY <1>1, <1>2, <1>5, <2>1, GrownLog
  <2>5. Given = [o \in Orders |-> Cardinality(ConfirmationsOf(o))]
        /\ Given' = [o \in Orders |-> Cardinality(ConfirmationsOf(o)')]
    BY DEF Given, ConfirmationsOf
  <2>6. Given[x] = 0 BY <2>2, <2>5, FS_EmptySet
  <2>7. Given' = [Given EXCEPT ![x] = 1]
    <3>1. Cardinality(ConfirmationsOf(x)') = 1 BY <2>3, FS_Singleton
    <3>2. QED BY <2>4, <2>5, <3>1
  <2>8. QED BY <2>6, <2>7 DEF Desk!DeskNext, Desk!Give
<1>6. QED BY <1>3, <1>4, <1>5 DEF Record

LEMMA StepGives == SerialInv /\ [SerialNext]_vars => [Desk!DeskNext]_Given
<1> SUFFICES ASSUME SerialInv, [SerialNext]_vars PROVE [Desk!DeskNext]_Given
  OBVIOUS
<1>1. ASSUME NEW w \in Workers, Record(w) PROVE [Desk!DeskNext]_Given
  BY <1>1, RecordGives
<1>2. CASE log' = log BY <1>2 DEF Given, Confirmations
<1>3. ASSUME NEW w \in Workers, SerialCall(w) \/ Step(w) \/ Crash(w), ~Record(w)
      PROVE  log' = log
  <2>1. Call(w) \/ Step(w) \/ Crash(w) BY <1>3 DEF SerialCall
  <2>2. QED BY <1>3, <2>1, SerialNextIsNext, WorkerStepTypes DEF SerialInv
<1>4. CASE Around \/ UNCHANGED vars
  <2>1. log' = log
    BY <1>4 DEF Around, FetchOrder, StoreOrder, ChangeOrder, TurnSwitch,
                ChangePayment, vars
  <2>2. QED BY <1>2, <2>1
<1>5. QED BY <1>1, <1>2, <1>3, <1>4 DEF SerialNext

\* What mark() writes is what the desk of ConfirmationDesk does: as long as calls do not
\* overlap, an order is given one confirmation at most and none is taken back.
THEOREM DeskImplemented == SerialSpec => ImplementsDesk
<1>1. Init => Desk!DeskInit
  <2> SUFFICES ASSUME Init PROVE Desk!DeskInit OBVIOUS
  <2>1. \A o \in Orders : {i \in Confirmations : log[i].order = o} = {}
    BY DEF Init, Confirmations
  <2>2. QED BY <2>1, FS_EmptySet DEF Desk!DeskInit, Given
<1>2. QED
  BY <1>1, SerialStart, SerialInduction, StepGives, PTL
  DEF SerialSpec, ImplementsDesk, Desk!DeskSpec

(***************************************************************************)
(* What is left when calls overlap.  Two calls can confirm one order, but  *)
(* not on the same payment: pretix confirms a pending payment once, so of  *)
(* the calls that hold it at most one has been told so.                    *)
(***************************************************************************)

\* A call that has been told the payment is confirmed, and has not written it down.
Holding(j) == j.pc \in PastConfirm \/ (j.pc = "record" /\ j.outcome = "confirmed")

\* No payment of pretix is on record as confirmed twice.
OneRowPerPayment ==
  \A i, k \in Confirmations : log[i].payment = log[k].payment => i = k

OneHolder ==
  /\ \A v, w \in Workers :
       Holding(worker[v]) /\ Holding(worker[w]) /\ worker[v].payment = worker[w].payment => v = w
  /\ \A w \in Workers, i \in Confirmations :
       Holding(worker[w]) => log[i].payment # worker[w].payment
  /\ OneRowPerPayment

LEMMA HolderBooked ==
  ASSUME IInv, NEW w \in Workers, Holding(worker[w])
  PROVE  payment[worker[w].payment] = "booked"
BY JobFacts DEF Holding, JobOK, PastConfirm, RowOK, Row

\* A call that keeps what it holds, or lets go of it, disturbs nobody.
LEMMA KeepsHolding ==
  ASSUME IInv, OneHolder, NEW w \in Workers, NEW k, worker' = [worker EXCEPT ![w] = k],
         log' = log,
         Holding(k) => Holding(worker[w]) /\ k.payment = worker[w].payment
  PROVE  OneHolder'
<1>1. /\ worker'[w] = k /\ \A v \in Workers : v # w => worker'[v] = worker[v]
      /\ Confirmations' = Confirmations
  BY DEF IInv, TypeOK, Confirmations
<1>2. \A v \in Workers : Holding(worker'[v]) =>
        Holding(worker[v]) /\ worker'[v].payment = worker[v].payment
  BY <1>1
<1> QED
  BY <1>1, <1>2 DEF OneHolder, OneRowPerPayment, Holding

LEMMA AcceptedAlone ==
  ASSUME IInv, OneHolder, NEW w \in Workers, Accepted(w)
  PROVE  OneHolder'
<1> DEFINE p == worker[w].payment
<1>1. worker[w] \in Jobs /\ payment[p] = "pending" /\ log' = log
  BY JobFacts DEF Accepted, Book
<1>2. PICK k : k = [worker[w] EXCEPT !.pc = "verify"]
  OBVIOUS
<1>3. k.payment = p /\ worker' = [worker EXCEPT ![w] = k]
  BY <1>1, <1>2 DEF Accepted, Goto, Jobs
<1>4. /\ worker'[w] = k /\ \A v \in Workers : v # w => worker'[v] = worker[v]
      /\ Confirmations' = Confirmations
  BY <1>1, <1>3 DEF IInv, TypeOK, Confirmations
<1>5. \A v \in Workers : Holding(worker[v]) => worker[v].payment # p
  BY <1>1, HolderBooked
<1>6. \A i \in Confirmations : log[i].payment # p
  BY <1>1 DEF IInv, RowOK
<1> HIDE DEF p
<1> QED
  BY <1>1, <1>3, <1>4, <1>5, <1>6 DEF OneHolder, OneRowPerPayment, Holding

LEMMA RecordAlone ==
  ASSUME IInv, OneHolder, NEW w \in Workers, Record(w)
  PROVE  OneHolder'
<1>1. log \in Seq(Records) /\ worker \in [Workers -> Jobs]
  BY DEF IInv, TypeOK
<1>2. /\ worker'[w] = Idle /\ \A v \in Workers : v # w => worker'[v] = worker[v]
      /\ worker' = [worker EXCEPT ![w] = Idle] /\ ~Holding(Idle)
  BY <1>1 DEF Record, Goto, Holding, PastConfirm, Idle
<1>3. CASE log' = log
  BY <1>2, <1>3, KeepsHolding
<1>4. CASE log' = Append(log, Row(worker[w]))
  <2>1. PICK r : r = Row(worker[w]) OBVIOUS
  <2>2. /\ Len(log) \in Nat
        /\ \A i \in DOMAIN log' : IF i = Len(log) + 1 THEN log'[i] = r
                                                     ELSE i \in DOMAIN log /\ log'[i] = log[i]
    BY <1>1, <1>4, <2>1
  <2>3. r.outcome = "confirmed" => Holding(worker[w]) /\ r.payment = worker[w].payment
    BY <2>1 DEF Row, Record, At, Holding
  <2>4. \A i \in Confirmations' :
          \/ i \in Confirmations /\ log'[i] = log[i]
          \/ i = Len(log) + 1 /\ log'[i] = r /\ Holding(worker[w])
             /\ log'[i].payment = worker[w].payment
    BY <2>2, <2>3 DEF Confirmations
  <2>5. \A v \in Workers : Holding(worker'[v]) =>
          v # w /\ Holding(worker[v]) /\ worker'[v].payment = worker[v].payment
    BY <1>2
  <2>6. \A v, u \in Workers :
          Holding(worker'[v]) /\ Holding(worker'[u]) /\ worker'[v].payment = worker'[u].payment => v = u
    BY <2>5 DEF OneHolder
  <2>7. \A v \in Workers, i \in Confirmations' :
          Holding(worker'[v]) => log'[i].payment # worker'[v].payment
    BY <2>4, <2>5 DEF OneHolder
  <2>8. \A i, k \in Confirmations' : log'[i].payment = log'[k].payment => i = k
    BY <2>4 DEF OneHolder, OneRowPerPayment
  <2> QED
    BY <2>6, <2>7, <2>8 DEF OneHolder, OneRowPerPayment, Holding
<1> QED
  BY <1>3, <1>4 DEF Record

\* Every other step of a call holds no more than before.
LEMMA CallHoldsNoMore ==
  ASSUME IInv, OneHolder, NEW w \in Workers,
         \/ Call(w) \/ FindOrder(w) \/ CheckLocally(w) \/ AskPending(w) \/ AnswerLost(w)
         \/ Refused(w) \/ Verify(w) \/ Settle(w) \/ Crash(w)
  PROVE  OneHolder'
<1> DEFINE j == worker[w]
<1>1. j \in Jobs
  BY JobFacts
<1>2. ASSUME NEW k, Goto(w, k), log' = log,
             Holding(k) => Holding(j) /\ k.payment = j.payment
      PROVE  OneHolder'
  BY <1>2, KeepsHolding DEF Goto
<1>3. ASSUME NEW i \in Jobs, NEW o \in {"skipped", "failed"}, NEW r, Verdict(w, o, r, i), log' = log
      PROVE  OneHolder'
  <2>1. PICK k : k = [i EXCEPT !.pc = "record", !.outcome = o, !.reason = r]
    OBVIOUS
  <2>2. k.pc = "record" /\ k.outcome = o
    BY <2>1 DEF Jobs
  <2> QED
    BY <1>2, <1>3, <2>1, <2>2 DEF Verdict, Holding, PastConfirm
<1>4. CASE Call(w)
  <2>1. PICK call \in Calls : Begin(w, call)
    BY <1>4 DEF Call
  <2>2. [Idle EXCEPT !.pc = "find", !.ev = call.ev,
                     !.automatic = call.automatic, !.allow = Armed(call)].pc = "find"
    BY DEF Idle
  <2> QED
    BY <1>2, <2>1, <2>2 DEF Begin, Holding, PastConfirm
<1>5. CASE FindOrder(w)
  <2>1. ASSUME NEW o, Goto(w, [j EXCEPT !.pc = "check", !.order = o, !.status = local[o]])
        PROVE  OneHolder'
    <3>1. [j EXCEPT !.pc = "check", !.order = o, !.status = local[o]].pc = "check"
      BY <1>1 DEF Jobs
    <3> QED
      BY <1>2, <1>5, <2>1, <3>1 DEF FindOrder, Holding, PastConfirm
  <2> QED
    BY <1>1, <1>3, <1>5, <2>1 DEF FindOrder
<1>6. CASE CheckLocally(w)
  <2>1. [j EXCEPT !.pc = "ask"].pc = "ask"
    BY <1>1 DEF Jobs
  <2>2. Goto(w, [j EXCEPT !.pc = "ask"]) => OneHolder'
    BY <1>2, <1>6, <2>1 DEF CheckLocally, Holding, PastConfirm
  <2> QED
    BY <1>1, <1>3, <1>6, <2>2 DEF CheckLocally
<1>7. CASE AskPending(w)
  <2>1. ASSUME NEW p \in Payments,
               IF FitsPayment(p, j.ev.credit) \/ j.allow
                 THEN Goto(w, [j EXCEPT !.pc = "confirm", !.payment = p])
                 ELSE Verdict(w, "skipped", "amount_mismatch", [j EXCEPT !.payment = p])
        PROVE  OneHolder'
    <3>1. /\ [j EXCEPT !.pc = "confirm", !.payment = p].pc = "confirm"
          /\ [j EXCEPT !.payment = p] \in Jobs
      BY <1>1 DEF Jobs
    <3>2. Goto(w, [j EXCEPT !.pc = "confirm", !.payment = p]) => OneHolder'
      BY <1>2, <1>7, <3>1 DEF AskPending, Holding, PastConfirm
    <3> QED
      BY <1>3, <1>7, <2>1, <3>1, <3>2 DEF AskPending
  <2> QED
    BY <1>1, <1>3, <1>7, <2>1 DEF AskPending
<1>8. CASE AnswerLost(w) \/ Refused(w)
  BY <1>1, <1>3, <1>8 DEF AnswerLost, Refused
<1>9. CASE Verify(w)
  <2>1. ASSUME NEW b, Goto(w, [j EXCEPT !.pc = "settle", !.verified = b])
        PROVE  OneHolder'
    <3>1. PICK k : k = [j EXCEPT !.pc = "settle", !.verified = b]
      OBVIOUS
    <3>2. k.payment = j.payment
      BY <1>1, <3>1 DEF Jobs
    <3> QED
      BY <1>2, <1>9, <2>1, <3>1, <3>2 DEF Verify, At, Holding, PastConfirm
  <2> QED
    BY <1>1, <1>3, <1>9, <2>1 DEF Verify
<1>10. CASE Settle(w)
  <2>1. PICK r : Verdict(w, "confirmed", r, j)
    BY <1>10 DEF Settle
  <2>2. PICK k : k = [j EXCEPT !.pc = "record", !.outcome = "confirmed", !.reason = r]
    OBVIOUS
  <2>3. k.payment = j.payment
    BY <1>1, <2>2 DEF Jobs
  <2> QED
    BY <1>2, <1>10, <2>1, <2>2, <2>3 DEF Verdict, Settle, At, Holding, PastConfirm
<1>11. CASE Crash(w)
  BY <1>2, <1>11 DEF Crash, Holding, PastConfirm, Idle
<1> QED
  BY <1>4, <1>5, <1>6, <1>7, <1>8, <1>9, <1>10, <1>11

LEMMA OneHolderStep == IInv /\ OneHolder /\ [Next]_vars => OneHolder'
<1> SUFFICES ASSUME IInv, OneHolder, [Next]_vars PROVE OneHolder'
  OBVIOUS
<1>1. ASSUME NEW w \in Workers, Call(w) \/ Step(w) \/ Crash(w) PROVE OneHolder'
  BY <1>1, AcceptedAlone, RecordAlone, CallHoldsNoMore DEF Step
<1>2. CASE Around \/ UNCHANGED vars
  <2>1. worker' = worker /\ log' = log
    BY <1>2 DEF Around, FetchOrder, StoreOrder, ChangeOrder, TurnSwitch, ChangePayment, vars
  <2> QED
    BY <2>1 DEF OneHolder, OneRowPerPayment, Confirmations, Holding
<1> QED
  BY <1>1, <1>2 DEF Next

\* However many calls of mark() overlap, and wherever they die, no payment of pretix is on
\* record as confirmed twice: confirmPayment() succeeds once, and only who saw it writes.
THEOREM PaymentConfirmedOnce == Spec => []OneRowPerPayment
<1>1. Init => OneHolder
  BY DEF Init, Idle, OneHolder, OneRowPerPayment, Holding, PastConfirm, Confirmations
<1>2. OneHolder => OneRowPerPayment
  BY DEF OneHolder
<1> QED
  BY <1>1, <1>2, Inductive, OneHolderStep, PTL DEF Spec

\* So an order that has but one payment in pretix is confirmed once at most, even when the
\* pull and people act at the same time: a second payment is what the race needs.
THEOREM OneConfirmationWhenOnePayment ==
  ASSUME \A p, q \in Payments : OrderOf[p] = OrderOf[q] => p = q
  PROVE  Spec => []OneConfirmationPerOrder
<1>1. IInv /\ OneRowPerPayment => OneConfirmationPerOrder
  BY DEF IInv, RowOK, OneRowPerPayment, OneConfirmationPerOrder
<1> QED
  BY <1>1, Inductive, PaymentConfirmedOnce, PTL
=============================================================================
