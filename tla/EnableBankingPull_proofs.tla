------------------------ MODULE EnableBankingPull_proofs ------------------------
(***************************************************************************)
(* Proofs about EnableBankingPull: for any accounts, sessions and spans,   *)
(* and whoever pulls at the same time, an entry no pull has recorded is in *)
(* the window of the next one, and a day brings no more successful         *)
(* unattended pulls than the schedule has firings; with one pull at a time *)
(* the row's streak is the one that is going on.                           *)
(***************************************************************************)
EXTENDS EnableBankingPull, TLAPS

Fields == {"status", "session", "iban", "count", "since", "first"}

\* What a record has in the fields of the row that it names.
Fitting(new) ==
  /\ "status" \in DOMAIN new => new.status \in {"new", "active", "error", "expired"}
  /\ "session" \in DOMAIN new => new.session \in Sessions \cup {None}
  /\ "iban" \in DOMAIN new => new.iban \in Accounts \cup {None}
  /\ "count" \in DOMAIN new => new.count \in 0 .. MaxStreak
  /\ "since" \in DOMAIN new => new.since \in BOOLEAN
  /\ "first" \in DOMAIN new => new.first \in Errors \cup {None}

LEMMA SavedTyped ==
  ASSUME conn \in Row, NEW read, NEW new, Fitting(new)
  PROVE  Saved(read, new) \in Row
<1> DEFINE S == Saved(read, new)
<1>1. DOMAIN conn = Fields
  BY DEF Row, Fields
<1>2. S = [f \in Fields |-> S[f]]
  BY <1>1 DEF Saved
<1>3. \A f \in Fields : S[f] = IF f \in DOMAIN new /\ new[f] # read[f] THEN new[f] ELSE conn[f]
  BY <1>1 DEF Saved
<1>4. /\ S.status \in {"new", "active", "error", "expired"} /\ S.session \in Sessions \cup {None}
      /\ S.iban \in Accounts \cup {None} /\ S.count \in 0 .. MaxStreak
      /\ S.first \in Errors \cup {None}
  BY <1>3 DEF Fields, Fitting, Row
<1>5. S.since \in BOOLEAN
  <2>1. S.since = new.since \/ S.since = conn.since
    BY <1>3 DEF Fields
  <2>2. S.since = new.since => "since" \in DOMAIN new \/ S.since = conn.since
    BY <1>3 DEF Fields
  <2>3. conn.since \in BOOLEAN
    BY DEF Row
  <2> QED
    BY <2>1, <2>2, <2>3 DEF Fitting
<1>6. S = [status |-> S.status, session |-> S.session, iban |-> S.iban,
           count |-> S.count, since |-> S.since, first |-> S.first]
  BY <1>2 DEF Fields
<1> HIDE DEF S
<1>7. S \in Row
  BY <1>4, <1>5, <1>6 DEF Row
<1> QED
  BY <1>7 DEF S

Process == [pc : {"idle", "fetch", "record", "succeed", "fail"}, read : Row, reach : Nat,
            got : {"nothing", "entry", "cut"}, error : Errors \cup {None}, lived : 0 .. Lasting]

\* What Become() does to the two pulls.
LEMMA Becomes ==
  ASSUME TypeOK, NEW u \in Pulls, NEW p, Become(u, p)
  PROVE  /\ pull'[u] = p
         /\ \A v \in Pulls : v # u => pull'[v] = pull[v]
         /\ p \in Process => pull' \in [Pulls -> Process]
BY DEF TypeOK, Become, Process

LEMMA RestTyped == AtRest \in Process /\ NewRow \in Row
BY BankAssumption DEF AtRest, NewRow, Process, Row

LEMMA FromTyped == TypeOK => From \in Nat
BY BankAssumption DEF TypeOK, From

LEMMA MarkedTyped ==
  ASSUME NEW c \in Row, NEW error \in Errors PROVE Fitting(Marked(c, error))
<1>0. Plus(c.count, MaxStreak) \in 0 .. MaxStreak /\ c.first \in Errors \cup {None}
  BY BankAssumption DEF Plus, Row
<1>1. Marked(c, error) \in Row
  BY <1>0 DEF Marked, Row
<1> QED
  BY <1>1 DEF Fitting, Row

LEMMA HealedTyped == ASSUME NEW c \in Row PROVE Fitting(Healed(c))
<1>0. 0 \in 0 .. MaxStreak
  BY BankAssumption
<1>1. Healed(c) \in Row
  BY <1>0 DEF Healed, Row
<1> QED
  BY <1>1 DEF Fitting, Row

LEMMA InitTyped == Init => TypeOK
BY BankAssumption, RestTyped DEF Init, TypeOK, Process, NoRequest, Pulls

\* A pull that fails has an error to show.
Failing == \A u \in Pulls : At(u, "fail") => pull[u].error \in Errors

\* Who pulls, in which state: the steps of a pull leave it typed, and failing with an error.
LEMMA PullTyped ==
  ASSUME TypeOK, Failing, NEW u \in Pulls,
         Begin(u) \/ Fetch(u) \/ FetchFails(u) \/ Record(u) \/ RecordFails(u) \/ Succeed(u)
           \/ Fail(u) \/ Crash(u)
  PROVE  pull' \in [Pulls -> Process] /\ Failing'
<1> SUFFICES \E p \in Process : Become(u, p) /\ (p.pc = "fail" => p.error \in Errors)
  BY Becomes DEF Failing, At
<1>0. pull[u] \in Process
  BY DEF TypeOK, Process
<1>1. CASE Begin(u)
  <2> DEFINE q == [AtRest EXCEPT !.read = conn, !.reach = From]
             p == IF CanPull(conn) THEN [q EXCEPT !.pc = "fetch"]
                  ELSE [q EXCEPT !.pc = "fail", !.error = "refused"]
  <2>1. p \in Process /\ (p.pc = "fail" => p.error \in Errors)
    BY RestTyped, FromTyped DEF TypeOK, Process, AtRest, Errors
  <2>2. Become(u, p)
    BY <1>1 DEF Begin
  <2> HIDE DEF p
  <2> QED
    BY <2>1, <2>2
<1>2. CASE Fetch(u)
  <2>1. PICK got \in {"nothing", "entry", "cut"} :
          Become(u, [pull[u] EXCEPT !.pc = "record", !.got = got])
    BY <1>2 DEF Fetch
  <2>2. [pull[u] EXCEPT !.pc = "record", !.got = got] \in Process
    BY <1>0 DEF Process
  <2> QED
    BY <1>0, <2>1, <2>2 DEF Process
<1>3. CASE FetchFails(u)
  <2>1. PICK error \in Errors : Become(u, [pull[u] EXCEPT !.pc = "fail", !.error = error])
    BY <1>3 DEF FetchFails, Errors
  <2>2. [pull[u] EXCEPT !.pc = "fail", !.error = error] \in Process
    BY <1>0 DEF Process
  <2> QED
    BY <1>0, <2>1, <2>2 DEF Process
<1>4. CASE Record(u) \/ RecordFails(u)
  <2>1. /\ [pull[u] EXCEPT !.pc = "succeed"] \in Process
        /\ [pull[u] EXCEPT !.pc = "fail", !.error = "other"] \in Process
    BY <1>0 DEF Process, Errors
  <2> QED
    BY <1>0, <1>4, <2>1 DEF Record, RecordFails, Process, Errors
<1>5. CASE Succeed(u) \/ Fail(u) \/ Crash(u)
  BY <1>5, RestTyped DEF Succeed, Fail, Crash, AtRest
<1> QED
  BY <1>1, <1>2, <1>3, <1>4, <1>5

LEMMA ConnectedTyped ==
  ASSUME TypeOK, NEW s \in Sessions
  PROVE  [Saved(person, Connected(s)) EXCEPT !.session = s] \in Row
<1> DEFINE new == Connected(s)
<1>1. Len(Covers[s]) = 1 => Covers[s][1] \in Accounts
  BY BankAssumption
<1>2. new.status = "active" /\ new.iban \in Accounts \cup {None} /\ DOMAIN new = {"status", "iban"}
  BY <1>1 DEF Connected, TypeOK
<1> HIDE DEF new
<1>3. Fitting(new)
  BY <1>2 DEF Fitting
<1>4. Saved(person, new) \in Row
  BY <1>3, SavedTyped DEF TypeOK
<1> QED
  BY <1>4 DEF new, Row

LEMMA ResultTyped ==
  ASSUME TypeOK, Failing, NEW u \in Pulls, Succeed(u) \/ Fail(u)
  PROVE  conn' \in Row
<1>0. pull[u].read \in Row
  BY DEF TypeOK
<1>1. CASE Succeed(u)
  BY <1>0, <1>1, HealedTyped, SavedTyped DEF Succeed, TypeOK
<1>2. CASE Fail(u)
  <2>1. pull[u].error \in Errors
    BY <1>2 DEF Failing, Fail
  <2> QED
    BY <1>0, <1>2, <2>1, MarkedTyped, SavedTyped DEF Fail, TypeOK
<1> QED
  BY <1>1, <1>2

LEMMA TickTyped == TypeOK /\ Failing /\ Tick => TypeOK' /\ Failing'
<1> SUFFICES ASSUME TypeOK, Failing, Tick PROVE TypeOK' /\ Failing'
  OBVIOUS
<1>0. Day \in Nat \ {0} /\ MaxAge \in Nat
  BY BankAssumption
<1>1. hour' \in 0 .. (Day - 1) /\ used' \in Nat
  <2>1. hour + 1 \in Nat
    BY DEF TypeOK
  <2>2. \A n \in Nat : n % Day \in 0 .. (Day - 1)
    BY <1>0
  <2> QED
    BY <2>1, <2>2 DEF Tick, TypeOK
<1>2. synced' \in Nat \cup {None}
  <2>1. \A n \in Nat : Plus(n, MaxAge) \in Nat
    BY <1>0 DEF Plus
  <2> QED
    BY <2>1 DEF Tick, TypeOK
<1>3. entry' \in [account : Accounts, age : Nat] \cup {None}
  <2>1. CASE Older = None
    BY <2>1 DEF Tick
  <2>2. CASE Older # None
    <3>1. entry # None /\ Older = [entry EXCEPT !.age = Plus(@, MaxAge + Back)]
      BY <2>2 DEF Older
    <3>2. entry \in [account : Accounts, age : Nat]
      BY <3>1 DEF TypeOK
    <3>3. Plus(entry.age, MaxAge + Back) \in Nat
      BY <3>2, BankAssumption DEF Plus
    <3> QED
      BY <3>1, <3>2, <3>3 DEF Tick
  <2> QED
    BY <2>1, <2>2
<1>4. pull' \in [Pulls -> Process]
  <2>1. ASSUME NEW u \in Pulls, ~Idle(u)
        PROVE  [pull[u] EXCEPT !.lived = @ + 1, !.reach = @ + 1] \in Process
    <3>1. pull[u] \in Process /\ pull[u].lived < Lasting
      BY <2>1 DEF Tick, TypeOK, Process
    <3>2. pull[u].lived + 1 \in 0 .. Lasting /\ pull[u].reach + 1 \in Nat
      BY <3>1, BankAssumption DEF Process
    <3> QED
      BY <3>1, <3>2 DEF Process
  <2>2. \A u \in Pulls : pull[u] \in Process
    BY DEF TypeOK, Process
  <2> QED
    BY <2>1, <2>2 DEF Tick
<1>5. Failing'
  BY DEF Failing, At, Idle, Tick, TypeOK
<1> QED
  BY <1>1, <1>2, <1>3, <1>4, <1>5 DEF Tick, TypeOK, Process

LEMMA TypeStep == TypeOK /\ Failing /\ [Next]_vars => TypeOK' /\ Failing'
<1> SUFFICES ASSUME TypeOK, Failing, [Next]_vars PROVE TypeOK' /\ Failing'
  OBVIOUS
<1>1. ASSUME NEW u \in Pulls, Begin(u) \/ Fetch(u) \/ FetchFails(u) \/ RecordFails(u) \/ Crash(u)
      PROVE  TypeOK' /\ Failing'
  BY <1>1, PullTyped DEF Begin, Fetch, FetchFails, RecordFails, Crash, TypeOK, Process
<1>2. ASSUME NEW u \in Pulls, Record(u) PROVE TypeOK' /\ Failing'
  BY <1>2, PullTyped DEF Record, TypeOK, Process
<1>3. ASSUME NEW u \in Pulls, Succeed(u) PROVE TypeOK' /\ Failing'
  <2>1. pull' \in [Pulls -> Process] /\ Failing' /\ conn' \in Row
    BY <1>3, PullTyped, ResultTyped
  <2>2. synced' \in Nat /\ used' \in Nat /\ streak' \in [count : 0 .. MaxStreak, first : Errors \cup {None}]
    BY <1>3, BankAssumption DEF Succeed, TypeOK
  <2> QED
    BY <1>3, <2>1, <2>2 DEF Succeed, TypeOK, Process
<1>4. ASSUME NEW u \in Pulls, Fail(u) PROVE TypeOK' /\ Failing'
  <2>1. pull' \in [Pulls -> Process] /\ Failing' /\ conn' \in Row
    BY <1>4, PullTyped, ResultTyped
  <2>2. pull[u].error \in Errors
    BY <1>4 DEF Failing, Fail
  <2>3. Plus(streak.count, MaxStreak) \in 0 .. MaxStreak
    BY BankAssumption DEF Plus, TypeOK
  <2>4. streak' \in [count : 0 .. MaxStreak, first : Errors \cup {None}]
    BY <1>4, <2>2, <2>3 DEF Fail, TypeOK
  <2> QED
    BY <1>4, <2>1, <2>4 DEF Fail, TypeOK, Process
<1>5. CASE Return \/ NotOpened
  <2>1. person' \in [opening : BOOLEAN, status : {"new", "active", "error", "expired"},
                     iban : Accounts \cup {None}]
    <3>1. CASE Return
      BY <3>1 DEF Return, TypeOK, Row
    <3>2. CASE NotOpened
      BY <3>2 DEF NotOpened, NoRequest
    <3> QED
      BY <1>5, <3>1, <3>2
  <2> QED
    BY <1>5, <2>1 DEF Return, NotOpened, TypeOK, Failing, At
<1>6. CASE Disconnect
  <2>1. conn' \in Row
    BY <1>6 DEF Disconnect, TypeOK, Row
  <2>2. bank' \in [Sessions -> {"open", "ended", "lapsed"}]
    BY <1>6 DEF Disconnect, TypeOK
  <2> QED
    BY <1>6, <2>1, <2>2 DEF Disconnect, TypeOK, Failing, At
<1>7. ASSUME NEW s \in Sessions, Opened(s) PROVE TypeOK' /\ Failing'
  <2>1. conn' \in Row
    BY <1>7, ConnectedTyped DEF Opened
  <2>2. person' \in [opening : BOOLEAN, status : {"new", "active", "error", "expired"},
                     iban : Accounts \cup {None}]
    BY <1>7 DEF Opened, NoRequest
  <2> QED
    BY <1>7, <2>1, <2>2 DEF Opened, TypeOK, Failing, At
<1>8. ASSUME NEW s \in Sessions, EndSession(s) PROVE TypeOK' /\ Failing'
  BY <1>8 DEF EndSession, TypeOK, Failing, At
<1>9. ASSUME NEW a \in Accounts, ChooseAccount(a) PROVE TypeOK' /\ Failing'
  <2>1. conn' \in Row
    BY <1>9 DEF ChooseAccount, TypeOK, Row
  <2> QED
    BY <1>9, <2>1 DEF ChooseAccount, TypeOK, Failing, At
<1>10. ASSUME NEW a \in Accounts, Book(a) PROVE TypeOK' /\ Failing'
  <2>1. \A u \in Pulls : [pull[u] EXCEPT !.got = "nothing"] \in Process
    BY DEF TypeOK, Process
  <2>2. pull' \in [Pulls -> Process]
    BY <1>10, <2>1 DEF Book
  <2>3. Failing'
    BY <1>10 DEF Book, Failing, At, TypeOK
  <2> QED
    BY <1>10, <2>2, <2>3 DEF Book, TypeOK, Process
<1>11. CASE Tick
  BY <1>11, TickTyped
<1>12. CASE UNCHANGED vars
  BY <1>12 DEF vars, TypeOK, Failing, At
<1> QED
  BY <1>1, <1>2, <1>3, <1>4, <1>5, <1>6, <1>7, <1>8, <1>9, <1>10, <1>11, <1>12 DEF Next, Work

(***************************************************************************)
(* What no pull has recorded stays in reach.                               *)
(***************************************************************************)

\* As long as nothing was ever pulled, the first pull reaches the entry.
FirstIsInReach == entry # None /\ synced = None => entry.age <= FirstPull

\* A pull that is about to ask asks back far enough.
Asked == \A u \in Pulls : At(u, "fetch") /\ entry # None => entry.age <= pull[u].reach

\* A pull that was told nothing of an entry of its account was told so because the entry is new.
Told(u) ==
  /\ pull[u].pc \in {"record", "succeed"} /\ pull[u].got = "nothing"
  /\ entry.account = AccountUid(pull[u].read)
Answered == \A u \in Pulls : entry # None /\ Told(u) => entry.age <= Late + pull[u].lived

\* What a pull was told of is recorded before it ends well.
Taken == \A u \in Pulls : At(u, "succeed") /\ pull[u].got = "entry" => entry = None

Reach == MissedIsInReach /\ FirstIsInReach /\ Asked /\ Answered /\ Taken

IInv == TypeOK /\ Failing /\ Reach

LEMMA InitInv == Init => IInv
<1> SUFFICES ASSUME Init PROVE IInv
  OBVIOUS
<1>1. TypeOK
  BY InitTyped
<1>2. Failing /\ Reach
  BY DEF Init, Failing, Reach, MissedIsInReach, FirstIsInReach, Asked, Answered, Taken, At, AtRest
<1> QED
  BY <1>1, <1>2 DEF IInv

\* The steps that touch neither the entry nor a pull nor the last success.
LEMMA ReachStands == Reach /\ UNCHANGED <<synced, entry, pull>> => Reach'
BY DEF Reach, MissedIsInReach, FirstIsInReach, Asked, Answered, Taken, Told, At, AccountUid

LEMMA BeginReach ==
  ASSUME IInv, NEW u \in Pulls, Begin(u) PROVE Reach'
<1>1. /\ pull'[u].pc \in {"fetch", "fail"} /\ pull'[u].reach = From
      /\ \A v \in Pulls : v # u => pull'[v] = pull[v]
  BY DEF Begin, Become, AtRest, IInv, TypeOK
<1>2. entry # None => entry.age <= From
  BY DEF IInv, Reach, MissedIsInReach, FirstIsInReach, From
<1> QED
  BY <1>1, <1>2
  DEF Begin, IInv, Reach, MissedIsInReach, FirstIsInReach, Asked, Answered, Taken, Told, At, AccountUid

LEMMA FetchReach ==
  ASSUME IInv, NEW u \in Pulls, Fetch(u) PROVE Reach'
<1>1. PICK got \in {"nothing", "entry", "cut"} :
        /\ IF got = "nothing" THEN InWindow(u) => entry.age <= Late ELSE InWindow(u)
        /\ Become(u, [pull[u] EXCEPT !.pc = "record", !.got = got])
  BY DEF Fetch
<1>2. /\ pull[u] \in Process
      /\ pull'[u].pc = "record" /\ pull'[u].got = got /\ pull'[u].read = pull[u].read
      /\ pull'[u].lived = pull[u].lived
      /\ \A v \in Pulls : v # u => pull'[v] = pull[v]
  BY <1>1 DEF Become, IInv, TypeOK, Process
<1>3. (entry # None /\ Told(u))' => entry.age <= Late + pull[u].lived
  <2> SUFFICES ASSUME entry # None, got = "nothing", entry.account = AccountUid(pull[u].read)
               PROVE  entry.age <= Late + pull[u].lived
    BY <1>2 DEF Fetch, Told, AccountUid
  <2>1. entry.age <= pull[u].reach
    BY DEF Fetch, IInv, Reach, Asked
  <2>2. entry.age <= Late
    BY <1>1, <2>1 DEF InWindow
  <2>3. pull[u].lived \in Nat /\ entry.age \in Nat /\ Late \in Nat
    BY <1>2, BankAssumption DEF Process, IInv, TypeOK
  <2> QED
    BY <2>2, <2>3
<1>4. Asked' /\ Taken'
  BY <1>2 DEF Fetch, IInv, Reach, Asked, Taken, At
<1>5. Answered'
  BY <1>2, <1>3 DEF Fetch, IInv, Reach, Answered, Told, AccountUid
<1> QED
  BY <1>4, <1>5 DEF Fetch, IInv, Reach, MissedIsInReach, FirstIsInReach

\* A pull that fails, or whose process ends, has no more to say.
LEMMA StopReach ==
  ASSUME IInv, NEW u \in Pulls, FetchFails(u) \/ RecordFails(u) \/ Fail(u) \/ Crash(u)
  PROVE  Reach'
<1>1. pull[u] \in Process
  BY DEF IInv, TypeOK, Process
<1>2. /\ pull'[u].pc \in {"idle", "fail"}
      /\ \A v \in Pulls : v # u => pull'[v] = pull[v]
      /\ UNCHANGED <<synced, entry>>
  <2>1. CASE FetchFails(u)
    <3>1. PICK error : Become(u, [pull[u] EXCEPT !.pc = "fail", !.error = error])
      BY <2>1 DEF FetchFails
    <3> QED
      BY <1>1, <2>1, <3>1 DEF FetchFails, Become, IInv, TypeOK, Process
  <2>2. CASE RecordFails(u)
    BY <1>1, <2>2 DEF RecordFails, Become, IInv, TypeOK, Process
  <2>3. CASE Fail(u) \/ Crash(u)
    BY <2>3, Becomes DEF Fail, Crash, AtRest, IInv
  <2> QED
    BY <2>1, <2>2, <2>3
<1> QED
  BY <1>2 DEF IInv, Reach, MissedIsInReach, FirstIsInReach, Asked, Answered, Taken, Told, At, AccountUid

LEMMA RecordReach ==
  ASSUME IInv, NEW u \in Pulls, Record(u) PROVE Reach'
<1>1. pull[u] \in Process
  BY DEF IInv, TypeOK, Process
<1>2. \A v \in Pulls : v # u => pull'[v] = pull[v]
  BY Becomes DEF Record, IInv
<1>3. \/ pull'[u].pc = "fail"
      \/ /\ pull'[u].pc = "succeed" /\ pull'[u].got = pull[u].got
         /\ pull'[u].read = pull[u].read /\ pull'[u].lived = pull[u].lived
  <2>1. CASE Become(u, [pull[u] EXCEPT !.pc = "succeed"])
    BY <1>1, <2>1 DEF Become, IInv, TypeOK, Process
  <2>2. CASE Become(u, [pull[u] EXCEPT !.pc = "fail", !.error = "other"])
    BY <1>1, <2>2 DEF Become, IInv, TypeOK, Process
  <2> QED
    BY <2>1, <2>2 DEF Record
<1>4. UNCHANGED synced /\ entry' = IF pull[u].got = "entry" THEN None ELSE entry
  BY DEF Record
<1>5. MissedIsInReach' /\ FirstIsInReach' /\ Asked' /\ Taken'
  BY <1>2, <1>3, <1>4 DEF IInv, Reach, MissedIsInReach, FirstIsInReach, Asked, Taken, At
<1>6. Answered'
  BY <1>2, <1>3, <1>4 DEF Record, At, IInv, Reach, Answered, Told, AccountUid
<1> QED
  BY <1>5, <1>6 DEF Reach

LEMMA SucceedReach ==
  ASSUME IInv, NEW u \in Pulls, Succeed(u) PROVE Reach'
<1>1. pull'[u].pc = "idle" /\ \A v \in Pulls : v # u => pull'[v] = pull[v]
  BY Becomes DEF Succeed, AtRest, IInv
<1>2. synced' = 0 /\ entry' = IF Released(u) THEN None ELSE entry
  BY DEF Succeed
<1>3. entry' # None => entry'.age <= Back
  <2> SUFFICES ASSUME entry # None, ~Released(u) PROVE entry.age <= Back
    BY <1>2
  <2>1. pull[u].got # "cut" /\ entry.account = AccountUid(pull[u].read)
    BY DEF Released
  <2>2. pull[u] \in Process /\ At(u, "succeed")
    BY DEF Succeed, IInv, TypeOK, Process
  <2>3. pull[u].got = "nothing"
    BY <2>1, <2>2 DEF IInv, Reach, Taken, Process
  <2>4. entry.age <= Late + pull[u].lived
    BY <2>1, <2>2, <2>3 DEF IInv, Reach, Answered, Told, At
  <2>5. /\ pull[u].lived \in 0 .. Lasting /\ entry.age \in Nat
        /\ Late \in Nat /\ Lasting \in Nat /\ Back \in Nat /\ Late + Lasting <= Back
    BY <2>2, BankAssumption, OverlapAssumption DEF Process, IInv, TypeOK
  <2> QED
    BY <2>4, <2>5
<1>4. MissedIsInReach' /\ FirstIsInReach'
  <2>1. synced' + Back = Back /\ synced' # None
    BY <1>2, BankAssumption
  <2> QED
    BY <1>3, <2>1 DEF MissedIsInReach, FirstIsInReach
<1>5. Asked' /\ Taken'
  BY <1>1, <1>2 DEF IInv, Reach, Asked, Taken, At
<1>6. Answered'
  BY <1>1, <1>2 DEF IInv, Reach, Answered, Told, AccountUid
<1> QED
  BY <1>4, <1>5, <1>6 DEF Reach

LEMMA BookReach ==
  ASSUME IInv, NEW a \in Accounts, Book(a) PROVE Reach'
<1>1. entry'.age = 0 /\ entry' \in [account : Accounts, age : Nat] /\ UNCHANGED synced
  BY DEF Book
<1>2. \A u \in Pulls : /\ pull'[u].got = "nothing" /\ pull'[u].pc = pull[u].pc
                       /\ pull'[u].reach = pull[u].reach /\ pull'[u].lived = pull[u].lived
                       /\ pull[u].reach \in Nat /\ pull[u].lived \in Nat
  BY BankAssumption DEF Book, IInv, TypeOK
<1>3. Late \in Nat /\ Back \in Nat /\ FirstPull \in Nat /\ synced \in Nat \cup {None}
  BY BankAssumption DEF IInv, TypeOK
<1>4. MissedIsInReach' /\ FirstIsInReach'
  BY <1>1, <1>3 DEF MissedIsInReach, FirstIsInReach
<1>5. Asked' /\ Answered' /\ Taken'
  BY <1>1, <1>2, <1>3 DEF Asked, Answered, Told, Taken, At
<1> QED
  BY <1>4, <1>5 DEF Reach

LEMMA TickReach == IInv /\ Tick => Reach'
<1> SUFFICES ASSUME IInv, Tick PROVE Reach'
  OBVIOUS
<1>1. /\ MaxAge \in Nat /\ Back \in Nat /\ Late \in Nat /\ FirstPull \in Nat
      /\ synced \in Nat \cup {None} /\ None \notin Nat
  BY BankAssumption DEF IInv, TypeOK
<1>2. CASE entry' = None
  BY <1>2 DEF Reach, MissedIsInReach, FirstIsInReach, Asked, Answered, Taken
<1>3. CASE entry' # None
  <2>1. /\ entry # None /\ ~(synced = None /\ entry.age >= FirstPull)
        /\ entry' = [entry EXCEPT !.age = Plus(@, MaxAge + Back)]
    BY <1>3 DEF Tick, Older
  <2>2. entry \in [account : Accounts, age : Nat]
    BY <2>1 DEF IInv, TypeOK
  <2>3. entry'.account = entry.account /\ entry'.age = Plus(entry.age, MaxAge + Back)
    BY <2>1, <2>2
  <2>4. entry.age \in Nat /\ entry'.age <= entry.age + 1
    BY <1>1, <2>2, <2>3 DEF Plus
  <2>5. MissedIsInReach'
    <3> SUFFICES ASSUME synced # None PROVE entry'.age <= synced' + Back
      BY <2>1 DEF MissedIsInReach, Tick
    <3>1. entry.age <= synced + Back
      BY <2>1 DEF IInv, Reach, MissedIsInReach
    <3>2. synced' = Plus(synced, MaxAge)
      BY DEF Tick
    <3> QED
      BY <1>1, <2>3, <2>4, <3>1, <3>2 DEF Plus
  <2>6. FirstIsInReach'
    <3>1. CASE synced = None
      <4>1. entry.age < FirstPull
        BY <1>1, <2>1, <2>4, <3>1
      <4> QED
        BY <1>1, <2>2, <2>3, <2>4, <4>1 DEF FirstIsInReach, Plus
    <3>2. CASE synced # None
      <4>1. synced' = Plus(synced, MaxAge) /\ synced \in Nat
        BY <1>1, <3>2 DEF Tick
      <4> QED
        BY <1>1, <4>1 DEF FirstIsInReach, Plus
    <3> QED
      BY <3>1, <3>2
  <2>7. \A u \in Pulls : /\ pull'[u].pc = pull[u].pc /\ pull'[u].got = pull[u].got
                         /\ pull'[u].read = pull[u].read
                         /\ pull[u].pc # "idle" => /\ pull'[u].reach = pull[u].reach + 1
                                                   /\ pull'[u].lived = pull[u].lived + 1
                         /\ pull[u].reach \in Nat /\ pull[u].lived \in Nat
    <3> SUFFICES ASSUME NEW u \in Pulls
                 PROVE  /\ pull'[u].pc = pull[u].pc /\ pull'[u].got = pull[u].got
                        /\ pull'[u].read = pull[u].read
                        /\ pull[u].pc # "idle" => /\ pull'[u].reach = pull[u].reach + 1
                                                  /\ pull'[u].lived = pull[u].lived + 1
                        /\ pull[u].reach \in Nat /\ pull[u].lived \in Nat
      OBVIOUS
    <3>1. pull[u] \in Process /\ Lasting \in Nat
      BY BankAssumption DEF IInv, TypeOK, Process
    <3>2. pull'[u] = IF Idle(u) THEN pull[u] ELSE [pull[u] EXCEPT !.lived = @ + 1, !.reach = @ + 1]
      BY DEF Tick
    <3> QED
      BY <3>1, <3>2 DEF Idle, Process
  <2>8. Asked'
    BY <2>1, <2>4, <2>7, <1>1, <2>3 DEF IInv, Reach, Asked, At, Plus
  <2>9. Answered'
    <3> SUFFICES ASSUME NEW u \in Pulls, Told(u)' PROVE entry'.age <= Late + pull'[u].lived
      BY DEF Answered
    <3>1. Told(u)
      BY <2>3, <2>7 DEF Told, AccountUid
    <3>2. entry.age <= Late + pull[u].lived
      BY <2>1, <3>1 DEF IInv, Reach, Answered
    <3>3. pull'[u].lived = pull[u].lived + 1 /\ pull[u].lived \in Nat
      BY <2>7, <3>1 DEF Told
    <3> QED
      BY <1>1, <2>3, <2>4, <3>2, <3>3 DEF Plus
  <2>10. Taken'
    BY <2>1, <2>7 DEF IInv, Reach, Taken, At
  <2> QED
    BY <2>5, <2>6, <2>8, <2>9, <2>10 DEF Reach
<1> QED
  BY <1>2, <1>3

LEMMA StepInv == IInv /\ [Next]_vars => IInv'
<1> SUFFICES ASSUME IInv, [Next]_vars PROVE IInv'
  OBVIOUS
<1>1. TypeOK' /\ Failing'
  BY TypeStep DEF IInv
<1>2. ASSUME NEW u \in Pulls, Begin(u) \/ Work(u) \/ Crash(u) PROVE Reach'
  BY <1>2, BeginReach, FetchReach, StopReach, RecordReach, SucceedReach DEF Work
<1>3. ASSUME NEW a \in Accounts, Book(a) PROVE Reach'
  BY <1>3, BookReach
<1>4. Tick => Reach'
  BY TickReach
<1>5. UNCHANGED <<synced, entry, pull>> => Reach'
  BY ReachStands DEF IInv
<1>6. Return \/ NotOpened \/ Disconnect \/ UNCHANGED vars => UNCHANGED <<synced, entry, pull>>
  BY DEF Return, NotOpened, Disconnect, vars
<1>7. \A s \in Sessions : Opened(s) \/ EndSession(s) => UNCHANGED <<synced, entry, pull>>
  BY DEF Opened, EndSession
<1>8. \A a \in Accounts : ChooseAccount(a) => UNCHANGED <<synced, entry, pull>>
  BY DEF ChooseAccount
<1>9. Reach'
  BY <1>2, <1>3, <1>4, <1>5, <1>6, <1>7, <1>8 DEF Next
<1> QED
  BY <1>1, <1>9 DEF IInv

\* The invariant behind what follows: what each pull was told, or is going to ask for.
THEOREM Inductive == Spec => []IInv
BY InitInv, StepInv, PTL DEF Spec

\* The row, the two pulls and the person's request keep their types, however they overlap.
THEOREM TypeCorrect == Spec => []TypeOK
<1>1. IInv => TypeOK
  BY DEF IInv
<1> QED
  BY Inductive, <1>1, PTL

\* Whatever happens to the connection and however the pulls overlap, an entry of the
\* bank that no pull has recorded is in the window of the next pull (Sync::sync()).
THEOREM NothingMissed == Spec => []MissedIsInReach
<1>1. IInv => MissedIsInReach
  BY DEF IInv, Reach
<1> QED
  BY Inductive, <1>1, PTL

(***************************************************************************)
(* The streak, with one pull at a time.                                    *)
(***************************************************************************)

Columns == {"count", "since", "first"}

\* One pull at a time, and nothing else writes the columns of the streak.
Alone == \A u, v \in Pulls : ~Idle(u) /\ ~Idle(v) => u = v
Fresh == \A u \in Pulls, f \in Columns : ~Idle(u) => pull[u].read[f] = conn[f]
FirstOfStreak == streak.count = 0 <=> streak.first = None

StreakInv == IInv /\ Alone /\ Fresh /\ FirstOfStreak /\ StreakIsTrue

LEMMA SavedColumns ==
  ASSUME conn \in Row, NEW read \in Row, NEW new, \A f \in Columns : read[f] = conn[f]
  PROVE  \A f \in Columns : Saved(read, new)[f] = IF f \in DOMAIN new THEN new[f] ELSE conn[f]
BY DEF Row, Columns, Saved

LEMMA InitStreak == Init => StreakInv
<1> SUFFICES ASSUME Init PROVE StreakInv
  OBVIOUS
<1>1. IInv
  BY InitInv
<1>2. Alone /\ Fresh /\ FirstOfStreak /\ StreakIsTrue
  BY DEF Init, Alone, Fresh, FirstOfStreak, StreakIsTrue, Idle, AtRest, NewRow
<1> QED
  BY <1>1, <1>2 DEF StreakInv

\* The steps of a pull that do not end it.
LEMMA WorkStreak ==
  ASSUME StreakInv, ~Overlap, NEW u \in Pulls,
         Begin(u) \/ Fetch(u) \/ FetchFails(u) \/ Record(u) \/ RecordFails(u) \/ Crash(u)
  PROVE  Alone' /\ Fresh' /\ FirstOfStreak' /\ StreakIsTrue'
<1>1. /\ UNCHANGED <<conn, streak>>
      /\ \A v \in Pulls : v # u => pull'[v] = pull[v]
  BY Becomes DEF Begin, Fetch, FetchFails, Record, RecordFails, Crash, StreakInv, IInv, Become, TypeOK
<1>2. pull[u] \in Process
  BY DEF StreakInv, IInv, TypeOK, Process
<1>3. FirstOfStreak' /\ StreakIsTrue'
  BY <1>1 DEF StreakInv, FirstOfStreak, StreakIsTrue
<1>4. CASE Begin(u)
  <2>1. pull'[u].read = conn
    BY <1>4 DEF Begin, Become, AtRest, StreakInv, IInv, TypeOK
  <2>2. \A v \in Pulls : v # u => Idle(v)
    BY <1>4 DEF Begin
  <2>3. Alone' /\ Fresh'
    BY <1>1, <2>1, <2>2 DEF Alone, Fresh, Idle
  <2> QED
    BY <1>3, <2>3
<1>5. CASE Fetch(u) \/ FetchFails(u) \/ Record(u) \/ RecordFails(u) \/ Crash(u)
  <2>1. pull'[u].pc = "idle" \/ (~Idle(u) /\ pull'[u].read = pull[u].read)
    <3>1. CASE Crash(u)
      BY <3>1 DEF Crash, Become, AtRest, StreakInv, IInv, TypeOK
    <3>2. CASE Fetch(u)
      <4>1. PICK got : Become(u, [pull[u] EXCEPT !.pc = "record", !.got = got])
        BY <3>2 DEF Fetch
      <4> QED
        BY <1>2, <3>2, <4>1 DEF Fetch, At, Idle, Become, Process, StreakInv, IInv, TypeOK
    <3>3. CASE FetchFails(u)
      <4>1. PICK error : Become(u, [pull[u] EXCEPT !.pc = "fail", !.error = error])
        BY <3>3 DEF FetchFails
      <4> QED
        BY <1>2, <3>3, <4>1 DEF FetchFails, At, Idle, Become, Process, StreakInv, IInv, TypeOK
    <3>4. CASE Record(u) \/ RecordFails(u)
      <4>1. CASE Become(u, [pull[u] EXCEPT !.pc = "succeed"])
        BY <1>2, <3>4, <4>1 DEF Record, RecordFails, At, Idle, Become, Process, StreakInv, IInv, TypeOK
      <4>2. CASE Become(u, [pull[u] EXCEPT !.pc = "fail", !.error = "other"])
        BY <1>2, <3>4, <4>2 DEF Record, RecordFails, At, Idle, Become, Process, StreakInv, IInv, TypeOK
      <4> QED
        BY <3>4, <4>1, <4>2 DEF Record, RecordFails
    <3> QED
      BY <1>5, <3>1, <3>2, <3>3, <3>4
  <2>2. Alone' /\ Fresh'
    BY <1>1, <2>1 DEF StreakInv, Alone, Fresh, Idle
  <2> QED
    BY <1>3, <2>2
<1> QED
  BY <1>4, <1>5

\* The end of a pull: the row becomes what the history says.
LEMMA EndStreak ==
  ASSUME StreakInv, NEW u \in Pulls, Succeed(u) \/ Fail(u)
  PROVE  Alone' /\ Fresh' /\ FirstOfStreak' /\ StreakIsTrue'
<1>1. pull'[u].pc = "idle" /\ ~Idle(u) /\ \A v \in Pulls : v # u => pull'[v] = pull[v]
  BY DEF Succeed, Fail, Become, At, Idle, AtRest, StreakInv, IInv, TypeOK
<1>2. \A v \in Pulls : pull'[v].pc = "idle"
  BY <1>1 DEF StreakInv, Alone, Idle
<1>3. Alone' /\ Fresh'
  BY <1>2 DEF Alone, Fresh, Idle
<1>4. /\ conn \in Row /\ pull[u].read \in Row
      /\ \A f \in Columns : pull[u].read[f] = conn[f]
  BY <1>1 DEF StreakInv, IInv, TypeOK, Fresh
<1>5. CASE Succeed(u)
  <2> DEFINE new == Healed(pull[u].read)
  <2>1. /\ new.count = 0 /\ new.since = FALSE /\ new.first = None /\ Columns \subseteq DOMAIN new
    BY <1>4 DEF Healed, Row, Columns
  <2>2. conn' = Saved(pull[u].read, new) /\ streak' = [count |-> 0, first |-> None]
    BY <1>5 DEF Succeed
  <2> HIDE DEF new
  <2>3. conn'.count = 0 /\ conn'.since = FALSE /\ conn'.first = None
    BY <1>4, <2>1, <2>2, SavedColumns DEF Columns
  <2> QED
    BY <1>3, <2>2, <2>3 DEF FirstOfStreak, StreakIsTrue
<1>6. CASE Fail(u)
  <2> DEFINE error == pull[u].error
             new == Marked(pull[u].read, error)
  <2>1. /\ new.count = Plus(conn.count, MaxStreak) /\ new.since = TRUE
        /\ new.first = IF conn.first = None THEN error ELSE conn.first
        /\ Columns \subseteq DOMAIN new
    BY <1>4 DEF Marked, Row, Columns
  <2>2. /\ conn' = Saved(pull[u].read, new)
        /\ streak' = [count |-> Plus(streak.count, MaxStreak),
                      first |-> IF streak.count = 0 THEN error ELSE streak.first]
    BY <1>6 DEF Fail
  <2>3. error \in Errors /\ None \notin Errors
    BY <1>6, BankAssumption DEF StreakInv, IInv, Failing, Fail
  <2> HIDE DEF new
  <2>4. conn'.count = new.count /\ conn'.since = TRUE /\ conn'.first = new.first
    BY <1>4, <2>1, <2>2, SavedColumns DEF Columns
  <2>5. Plus(streak.count, MaxStreak) > 0
    <3>1. streak.count \in Nat /\ MaxStreak \in Nat \ {0}
      BY BankAssumption DEF StreakInv, IInv, TypeOK
    <3> QED
      BY <3>1 DEF Plus
  <2>6. conn.count = streak.count /\ conn.first = streak.first /\ (streak.count = 0 <=> streak.first = None)
    BY DEF StreakInv, StreakIsTrue, FirstOfStreak
  <2>7. FirstOfStreak'
    BY <2>2, <2>3, <2>5, <2>6 DEF FirstOfStreak
  <2>8. StreakIsTrue'
    BY <2>1, <2>2, <2>4, <2>5, <2>6 DEF StreakIsTrue
  <2> QED
    BY <1>3, <2>7, <2>8
<1> QED
  BY <1>5, <1>6

\* What people, the bank and time do leaves the columns of the streak alone.
LEMMA AroundStreak ==
  ASSUME StreakInv, NEW s, NEW a,
         \/ Return \/ NotOpened \/ Disconnect \/ Opened(s) \/ EndSession(s)
         \/ ChooseAccount(a) \/ Book(a) \/ Tick
  PROVE  Alone' /\ Fresh' /\ FirstOfStreak' /\ StreakIsTrue'
<1>1. UNCHANGED streak
  BY DEF Return, NotOpened, Disconnect, Opened, EndSession, ChooseAccount, Book, Tick
<1>2. \A f \in Columns : conn'[f] = conn[f]
  <2>0. conn \in Row
    BY DEF StreakInv, IInv, TypeOK
  <2>1. CASE Opened(s)
    <3>1. DOMAIN Connected(s) = {"status", "iban"}
      BY DEF Connected
    <3>2. \A f \in Columns : Saved(person, Connected(s))[f] = conn[f]
      BY <2>0, <3>1 DEF Saved, Columns, Row
    <3>3. DOMAIN Saved(person, Connected(s)) = Fields
      BY <2>0 DEF Saved, Row, Fields
    <3> QED
      BY <2>1, <3>2, <3>3 DEF Opened, Columns, Fields
  <2>2. CASE Disconnect \/ ChooseAccount(a)
    BY <2>0, <2>2 DEF Disconnect, ChooseAccount, Row, Columns
  <2>3. CASE Return \/ NotOpened \/ EndSession(s) \/ Book(a) \/ Tick
    BY <2>3 DEF Return, NotOpened, EndSession, Book, Tick
  <2> QED
    BY <2>1, <2>2, <2>3
<1>3. \A u \in Pulls : pull'[u].pc = pull[u].pc /\ pull'[u].read = pull[u].read
  <2>0. \A u \in Pulls : pull[u] \in Process
    BY DEF StreakInv, IInv, TypeOK, Process
  <2>1. CASE Book(a)
    BY <2>0, <2>1 DEF Book, Process
  <2>2. CASE Tick
    BY <2>0, <2>2 DEF Tick, Process
  <2>3. CASE Return \/ NotOpened \/ Disconnect \/ Opened(s) \/ EndSession(s) \/ ChooseAccount(a)
    BY <2>3 DEF Return, NotOpened, Disconnect, Opened, EndSession, ChooseAccount
  <2> QED
    BY <2>1, <2>2, <2>3
<1>4. Alone' /\ Fresh'
  BY <1>2, <1>3 DEF StreakInv, Alone, Fresh, Idle
<1>5. FirstOfStreak' /\ StreakIsTrue'
  BY <1>1, <1>2 DEF StreakInv, FirstOfStreak, StreakIsTrue, Columns
<1> QED
  BY <1>4, <1>5

LEMMA StepStreak == StreakInv /\ ~Overlap /\ [Next]_vars => StreakInv'
<1> SUFFICES ASSUME StreakInv, ~Overlap, [Next]_vars
             PROVE  Alone' /\ Fresh' /\ FirstOfStreak' /\ StreakIsTrue'
  BY StepInv DEF StreakInv
<1> DEFINE Goal == Alone' /\ Fresh' /\ FirstOfStreak' /\ StreakIsTrue'
<1>1. ASSUME NEW u \in Pulls, Begin(u) \/ Work(u) \/ Crash(u) PROVE Goal
  BY <1>1, WorkStreak, EndStreak DEF Work
<1>2. ASSUME NEW s, NEW a, Return \/ NotOpened \/ Disconnect \/ Opened(s)
               \/ EndSession(s) \/ ChooseAccount(a) \/ Book(a) \/ Tick
      PROVE  Goal
  BY <1>2, AroundStreak
<1>3. UNCHANGED vars => Goal
  BY DEF vars, StreakInv, Alone, Fresh, FirstOfStreak, StreakIsTrue, Idle
<1>4. (\E u \in Pulls : Begin(u) \/ Work(u) \/ Crash(u)) => Goal
  BY <1>1
<1> QED
  BY <1>2, <1>3, <1>4 DEF Next

\* With one pull at a time, whatever the person does to the connection meanwhile, how long the
\* streak of the row is and what it began with (Sync::syncSafely()) is what happened.
THEOREM StreakWhenSerial ==
  ASSUME ~Overlap
  PROVE  Spec => []StreakIsTrue
<1>1. StreakInv /\ [Next]_vars => StreakInv'
  BY StepStreak
<1>2. StreakInv => StreakIsTrue
  BY DEF StreakInv
<1> QED
  BY InitStreak, <1>1, <1>2, PTL DEF Spec

(***************************************************************************)
(* The quota of the day.                                                   *)
(***************************************************************************)

\* The firings of the schedule are the multiples of Slot.
LEMMA Division ==
  ASSUME NEW n \in Nat, NEW s \in Nat, s > 0
  PROVE  n = s * (n \div s) + (n % s) /\ n \div s \in Nat /\ n % s \in 0 .. (s - 1)
OBVIOUS

LEMMA Unique ==
  ASSUME NEW i \in Int, NEW j \in Int, NEW s \in Nat, s > 0, s * i < s * j + s
  PROVE  i <= j
<1> SUFFICES ASSUME i >= j + 1 PROVE FALSE
  OBVIOUS
<1>1. s * i >= s * (j + 1)
  OBVIOUS
<1>2. s * (j + 1) = s * j + s
  OBVIOUS
<1> QED
  BY <1>1, <1>2

LEMMA NextTurn ==
  ASSUME NEW n \in Nat, NEW s \in Nat, s > 0
  PROVE  /\ n \div s <= (n + 1) \div s
         /\ (n + 1) % s = 0 => (n \div s) + 1 <= (n + 1) \div s
<1> DEFINE i == n \div s  j == (n + 1) \div s  a == n % s  b == (n + 1) % s
<1>1. n = s * i + a /\ i \in Int /\ a \in 0 .. (s - 1)
  BY Division
<1>2. n + 1 = s * j + b /\ j \in Int /\ b \in 0 .. (s - 1)
  BY Division
<1> HIDE DEF i, j, a, b
<1>3. s * i < s * j + s
  BY <1>1, <1>2
<1>4. i <= j
  BY <1>1, <1>2, <1>3, Unique
<1>5. ASSUME b = 0 PROVE i + 1 <= j
  <2>1. s * (i + 1) = s * i + s
    BY <1>1
  <2>2. s * (i + 1) < s * j + s
    BY <1>1, <1>2, <1>5, <2>1
  <2> QED
    BY <1>1, <1>2, <2>2, Unique
<1> QED
  BY <1>4, <1>5 DEF i, j, b

LEMMA LastTurn ==
  ASSUME NEW n \in Nat, NEW m \in Nat, NEW s \in Nat, s > 0, n < m, m % s = 0
  PROVE  (n \div s) + 1 <= m \div s
<1> DEFINE i == n \div s  j == m \div s  a == n % s
<1>1. n = s * i + a /\ i \in Int /\ a \in 0 .. (s - 1)
  BY Division
<1>2. m = s * j /\ j \in Int
  BY Division
<1> HIDE DEF i, j, a
<1>3. s * (i + 1) = s * i + s
  BY <1>1
<1>4. s * (i + 1) < s * j + s
  BY <1>1, <1>2, <1>3
<1>5. i + 1 <= j
  BY <1>1, <1>2, <1>4, Unique
<1> QED
  BY <1>5 DEF i, j

\* The schedule's firings of today, the one that is on included.
Fired == (hour \div Slot) + 1

\* A pull of the schedule, under way or successful, takes a firing of its own; after the one
\* that took the firing that is on, it is too soon.
QuotaInv ==
  /\ IInv
  /\ used <= Fired /\ (~Idle("schedule") => used + 1 <= Fired)
  /\ hour % Slot = 0 /\ used = Fired => synced = 0

LEMMA InitQuota == Init => QuotaInv
<1> SUFFICES ASSUME Init PROVE QuotaInv
  OBVIOUS
<1>1. Slot \in Nat /\ Slot > 0
  BY BankAssumption
<1>2. 0 \div Slot \in Nat
  BY <1>1, Division
<1>3. IInv
  BY InitInv
<1>4. Idle("schedule") /\ hour = 0 /\ used = 0
  BY DEF Init, Idle, AtRest, Pulls
<1> QED
  BY <1>2, <1>3, <1>4 DEF QuotaInv, Fired

LEMMA FiredTyped ==
  TypeOK => /\ used \in Nat /\ hour \in Nat /\ hour < Day
            /\ Slot \in Nat /\ Slot > 0 /\ Day \in Nat /\ Day % Slot = 0 /\ hour \div Slot \in Nat
<1> SUFFICES ASSUME TypeOK
             PROVE  /\ used \in Nat /\ hour \in Nat /\ hour < Day
                    /\ Slot \in Nat /\ Slot > 0 /\ Day \in Nat /\ Day % Slot = 0
                    /\ hour \div Slot \in Nat
  OBVIOUS
<1>1. Slot \in Nat /\ Slot > 0 /\ Day \in Nat /\ Day > 0 /\ Day % Slot = 0
  BY BankAssumption
<1>2. used \in Nat /\ hour \in Nat /\ hour < Day
  BY <1>1 DEF TypeOK
<1> QED
  BY <1>1, <1>2, Division

LEMMA WorkQuota ==
  ASSUME QuotaInv, NEW u \in Pulls, Begin(u) \/ Work(u) \/ Crash(u)
  PROVE  /\ used' <= Fired' /\ (~Idle("schedule")' => used' + 1 <= Fired')
         /\ hour' % Slot = 0 /\ used' = Fired' => synced' = 0
<1>0. /\ IInv /\ used \in Nat /\ hour \div Slot \in Nat /\ UNCHANGED hour
      /\ Fired = (hour \div Slot) + 1 /\ Fired' = Fired
  BY FiredTyped
  DEF QuotaInv, IInv, Fired, Begin, Work, Fetch, FetchFails, Record, RecordFails, Succeed, Fail, Crash
<1>1. CASE Begin(u)
  <2>1. UNCHANGED <<used, synced>> /\ (u # "schedule" => pull'["schedule"] = pull["schedule"])
    BY <1>1 DEF Begin, Become, Pulls, IInv, TypeOK
  <2>2. u = "schedule" => used # Fired
    <3> SUFFICES ASSUME u = "schedule", used = Fired PROVE FALSE
      OBVIOUS
    <3>1. hour % Slot = 0 /\ ~TooSoon
      BY <1>1 DEF Begin
    <3>2. synced = 0
      BY <3>1 DEF QuotaInv
    <3>3. 0 # None /\ 0 < Gap
      BY BankAssumption
    <3> QED
      BY <3>1, <3>2, <3>3 DEF TooSoon
  <2> QED
    BY <1>0, <2>1, <2>2 DEF QuotaInv, Idle
<1>2. CASE Succeed(u)
  <2>1. synced' = 0 /\ used' = (IF u = "schedule" THEN used + 1 ELSE used)
        /\ (u = "schedule" => ~Idle("schedule"))
    BY <1>2 DEF Succeed, At, Idle
  <2>2. (u = "schedule" => Idle("schedule")') /\ (u # "schedule" => pull'["schedule"] = pull["schedule"])
    BY <1>0, <1>2 DEF Succeed, Become, AtRest, Idle, Pulls, IInv, TypeOK
  <2> QED
    BY <1>0, <2>1, <2>2 DEF QuotaInv, Idle
<1>3. CASE Fetch(u) \/ FetchFails(u) \/ Record(u) \/ RecordFails(u) \/ Fail(u) \/ Crash(u)
  <2>1. UNCHANGED <<used, synced>> /\ ~Idle(u)
    BY <1>3 DEF Fetch, FetchFails, Record, RecordFails, Fail, Crash, At, Idle
  <2>2. u # "schedule" => pull'["schedule"] = pull["schedule"]
    BY <1>0, <1>3 DEF Fetch, FetchFails, Record, RecordFails, Fail, Crash, Become, Pulls, IInv, TypeOK
  <2> QED
    BY <1>0, <2>1, <2>2 DEF QuotaInv, Idle
<1> QED
  BY <1>1, <1>2, <1>3 DEF Work

LEMMA TickQuota ==
  ASSUME QuotaInv, Tick
  PROVE  /\ used' <= Fired' /\ (~Idle("schedule")' => used' + 1 <= Fired')
         /\ hour' % Slot = 0 /\ used' = Fired' => synced' = 0
<1>0. /\ used \in Nat /\ hour \in Nat /\ hour < Day /\ Day \in Nat
      /\ Slot \in Nat /\ Slot > 0 /\ hour \div Slot \in Nat /\ used <= Fired
      /\ (~Idle("schedule") => used + 1 <= Fired)
      /\ hour' = (hour + 1) % Day /\ used' = IF hour' = 0 THEN 0 ELSE used
  BY FiredTyped DEF QuotaInv, IInv, Tick
<1>1. Idle("schedule")' <=> Idle("schedule")
  BY DEF Tick, Idle, Pulls, QuotaInv, IInv, TypeOK
<1>2. CASE hour' = 0
  <2>1. 0 \div Slot \in Nat
    BY <1>0, Division
  <2> QED
    BY <1>0, <1>2, <2>1 DEF Fired
<1>3. CASE hour' # 0
  <2>1. hour' = hour + 1
    <3>1. CASE hour + 1 = Day
      <4>1. Day % Day = 0
        BY <1>0
      <4> QED
        BY <1>0, <1>3, <3>1, <4>1
    <3>2. CASE hour + 1 < Day
      <4>1. (hour + 1) % Day = hour + 1
        BY <1>0, <3>2
      <4> QED
        BY <1>0, <4>1
    <3> QED
      BY <1>0, <3>1, <3>2
  <2>2. /\ hour \div Slot <= hour' \div Slot
        /\ hour' % Slot = 0 => (hour \div Slot) + 1 <= hour' \div Slot
    BY <1>0, <2>1, NextTurn
  <2>3. hour' \div Slot \in Nat
    BY <1>0, <2>1, Division
  <2> QED
    BY <1>0, <1>1, <1>3, <2>2, <2>3 DEF Fired
<1> QED
  BY <1>2, <1>3

LEMMA StepQuota == QuotaInv /\ [Next]_vars => QuotaInv'
<1> SUFFICES ASSUME QuotaInv, [Next]_vars PROVE QuotaInv'
  OBVIOUS
<1> DEFINE Kept == /\ used' <= Fired' /\ (~Idle("schedule")' => used' + 1 <= Fired')
                   /\ hour' % Slot = 0 /\ used' = Fired' => synced' = 0
<1>1. (\E u \in Pulls : Begin(u) \/ Work(u) \/ Crash(u)) => Kept
  BY WorkQuota
<1>2. Tick => Kept
  BY TickQuota
<1>3. ASSUME UNCHANGED <<hour, used, synced>>, Idle("schedule")' <=> Idle("schedule") PROVE Kept
  BY <1>3 DEF QuotaInv, Fired
<1>4. Return \/ NotOpened \/ Disconnect \/ UNCHANGED vars => Kept
  BY <1>3 DEF Return, NotOpened, Disconnect, vars, Idle
<1>5. \A s : Opened(s) \/ EndSession(s) => Kept
  BY <1>3 DEF Opened, EndSession, Idle
<1>6. \A a : ChooseAccount(a) => Kept
  BY <1>3 DEF ChooseAccount, Idle
<1>7. ASSUME NEW a, Book(a) PROVE Kept
  <2>1. Idle("schedule")' <=> Idle("schedule")
    BY <1>7 DEF Book, Idle, Pulls, QuotaInv, IInv, TypeOK
  <2> QED
    BY <1>3, <1>7, <2>1 DEF Book
<1>8. Kept
  BY <1>1, <1>2, <1>4, <1>5, <1>6, <1>7 DEF Next
<1> QED
  BY <1>8, StepInv DEF QuotaInv

\* However often the scheduler starts again (Sync::tooSoon()), a day brings no more successful
\* unattended pulls than the schedule has firings.
THEOREM QuotaKept == Spec => []QuotaIsKept
<1>1. QuotaInv => QuotaIsKept
  <2> SUFFICES ASSUME QuotaInv PROVE used <= Day \div Slot
    BY DEF QuotaIsKept
  <2>1. /\ used \in Nat /\ used <= (hour \div Slot) + 1
        /\ hour \in Nat /\ hour < Day /\ Slot \in Nat /\ Slot > 0 /\ Day \in Nat /\ Day % Slot = 0
        /\ hour \div Slot \in Nat
    BY FiredTyped DEF QuotaInv, IInv, Fired
  <2>2. (hour \div Slot) + 1 <= Day \div Slot
    BY <2>1, LastTurn
  <2>3. Day \div Slot \in Nat
    BY <2>1, Division
  <2> QED
    BY <2>1, <2>2, <2>3
<1> QED
  BY InitQuota, StepQuota, <1>1, PTL DEF Spec
=============================================================================
