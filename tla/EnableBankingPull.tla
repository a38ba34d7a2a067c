-------------------------- MODULE EnableBankingPull --------------------------
(***************************************************************************)
(* The bank feed: Sync::sync() and syncSafely(), called by the schedule    *)
(* and by the button, over the one EnableBankingConnection; the consent    *)
(* (beginConsent(), the return from the bank, disconnect()); and time.     *)
(* One entry of the bank stands for all of them.                           *)
(***************************************************************************)
EXTENDS Integers, Sequences, FiniteSets

CONSTANTS
  Accounts,        \* accounts at the bank
  Sessions,        \* session ids; one that nothing refers to is given out again
  Covers,          \* session -> the accounts of its consent, in the bank's order
  Dated,           \* the sessions whose consent names a deadline
  Slot, Day,       \* ticks between two firings of the schedule, and in a day
  Gap,             \* min_hours_between_pulls
  Back,            \* overlap_days
  FirstPull,       \* first_pull_days
  Late,            \* ticks after its date by which the bank delivers an entry
  Lasting,         \* ticks a pull may go on
  MaxAge,          \* bound: no age of the last success above it is told apart
  MaxStreak,       \* bound: nor a streak above it
  Overlap,         \* TRUE: the schedule and the button pull at the same time
  None

Pulls == {"schedule", "hand"}
Errors == {"refused", "session", "other"}

ASSUME BankAssumption ==
  /\ Covers \in [Sessions -> Seq(Accounts)] /\ \A s \in Sessions : Covers[s] # <<>>
  /\ Dated \subseteq Sessions
  /\ Slot \in Nat \ {0} /\ Day \in Nat \ {0} /\ Day % Slot = 0
  /\ Gap \in Nat \ {0} /\ Back \in Nat /\ FirstPull \in Nat
  /\ Late \in Nat /\ Lasting \in Nat
  /\ MaxAge \in Nat /\ Gap <= MaxAge /\ MaxStreak \in Nat \ {0} /\ Overlap \in BOOLEAN
  /\ None \notin Sessions \cup Accounts \cup Nat \cup Errors

\* A booking comes up, and a pull ends, before the next pull stops looking back at it.
ASSUME OverlapAssumption == Late + Lasting <= Back

VARIABLES
  conn,      \* the row of enable_banking_connections, but for:
  synced,    \* its last_synced_at, as the ticks since then; None: never
  bank,      \* session -> what it is at the bank
  entry,     \* history: an entry of the bank that no pull has recorded, or None
  pull,      \* the schedule's pull and the button's
  person,    \* the return from the bank that is under way, with what it read of the row
  hour,      \* ticks since midnight
  used,      \* history: the schedule's pulls that brought something today
  streak     \* history: the pulls that failed in a row, and how that began

vars == <<conn, synced, bank, entry, pull, person, hour, used, streak>>

Row == [status : {"new", "active", "error", "expired"}, session : Sessions \cup {None},
        iban : Accounts \cup {None}, count : 0 .. MaxStreak, since : BOOLEAN,
        first : Errors \cup {None}]
\* Mutant of NewRow: the column of the failures has no default.
NewRowUncounted ==
  [status |-> "new", session |-> None, iban |-> None, count |-> None, since |-> FALSE, first |-> None]

NewRow == [status |-> "new", session |-> None, iban |-> None,
           count |-> 0, since |-> FALSE, first |-> None]

AtRest == [pc |-> "idle", read |-> NewRow, reach |-> 0, got |-> "nothing",
           error |-> None, lived |-> 0]
NoRequest == [opening |-> FALSE, status |-> "new", iban |-> None]

TypeOK ==
  /\ conn \in Row
  /\ synced \in Nat \cup {None}
  /\ bank \in [Sessions -> {"open", "ended", "lapsed"}]
  /\ entry \in [account : Accounts, age : Nat] \cup {None}
  /\ pull \in [Pulls -> [pc : {"idle", "fetch", "record", "succeed", "fail"}, read : Row, reach : Nat,
                         got : {"nothing", "entry", "cut"}, error : Errors \cup {None},
                         lived : 0 .. Lasting]]
  /\ person \in [opening : BOOLEAN, status : {"new", "active", "error", "expired"},
                iban : Accounts \cup {None}]
  /\ hour \in 0 .. (Day - 1)
  /\ used \in Nat
  /\ streak \in [count : 0 .. MaxStreak, first : Errors \cup {None}]

Init ==
  /\ conn = NewRow /\ synced = None
  /\ bank = [s \in Sessions |-> "ended"]
  /\ entry = None
  /\ pull = [u \in Pulls |-> AtRest]
  /\ person = NoRequest
  /\ hour = 0 /\ used = 0
  /\ streak = [count |-> 0, first |-> None]

Idle(u) == pull[u].pc = "idle"
At(u, pc) == pull[u].pc = pc
Become(u, p) == pull' = [pull EXCEPT ![u] = p]

(***************************************************************************)
(* EnableBankingConnection.                                                *)
(***************************************************************************)

\* What Eloquent writes: the columns that differ from the row as it was read.
Saved(read, new) ==
  [f \in DOMAIN conn |-> IF f \in DOMAIN new /\ new[f] # read[f] THEN new[f] ELSE conn[f]]

ConsentExpired(c) == c.session \in Dated /\ bank[c.session] = "lapsed"

\* Mutant of CanPull: the gate of August 2026, on how the last run went.
CanPullIfActive(c) == c.status = "active" /\ c.session # None /\ ~ConsentExpired(c)

CanPull(c) ==
  c.session # None /\ c.status \notin {"new", "expired"} /\ ~ConsentExpired(c)

\* The account with the IBAN that was chosen, or else the first of the consent.
AccountUid(c) ==
  IF \E i \in DOMAIN Covers[c.session] : Covers[c.session][i] = c.iban
    THEN c.iban ELSE Covers[c.session][1]

Plus(n, max) == IF n < max THEN n + 1 ELSE max

(***************************************************************************)
(* Sync.                                                                   *)
(***************************************************************************)

\* Mutant of TooSoon: no gap.
NeverTooSoon == FALSE

TooSoon == synced # None /\ synced < Gap

\* Mutant of From: what was booked since the last pull only.
FromLastPull == IF synced = None THEN FirstPull ELSE synced

\* How far the window reaches back.
From == IF synced = None THEN FirstPull ELSE synced + Back

\* Whoever asks: the command on its schedule, behind its guards, or a person who sees the
\* button.  What cannot be pulled at all is a failure like any other.
Begin(u) ==
  /\ Idle(u) /\ (Overlap \/ \A v \in Pulls : Idle(v))
  /\ IF u = "schedule"
       THEN hour % Slot = 0 /\ conn.status # "new" /\ ~ConsentExpired(conn) /\ ~TooSoon
       ELSE CanPull(conn)
  /\ LET p == [AtRest EXCEPT !.read = conn, !.reach = From] IN
     Become(u, IF CanPull(conn) THEN [p EXCEPT !.pc = "fetch"]
               ELSE [p EXCEPT !.pc = "fail", !.error = "refused"])
  /\ UNCHANGED <<conn, synced, bank, entry, person, hour, used, streak>>

InWindow(u) ==
  /\ entry # None
  /\ entry.account = AccountUid(pull[u].read) /\ entry.age <= pull[u].reach

\* Client::transactions(): the bank may not have the entry yet, a cap may keep it back.
Fetch(u) ==
  /\ At(u, "fetch") /\ bank[pull[u].read.session] = "open"
  /\ \E got \in {"nothing", "entry", "cut"} :
       /\ IF got = "nothing" THEN InWindow(u) => entry.age <= Late ELSE InWindow(u)
       /\ Become(u, [pull[u] EXCEPT !.pc = "record", !.got = got])
  /\ UNCHANGED <<conn, synced, bank, entry, person, hour, used, streak>>

\* SESSION_INVALID or SESSION_EXPIRED, or anything else from a timeout to a mapper.
FetchFails(u) ==
  /\ At(u, "fetch")
  /\ \E error \in {"other"} \cup (IF bank[pull[u].read.session] = "open" THEN {} ELSE {"session"}) :
       Become(u, [pull[u] EXCEPT !.pc = "fail", !.error = error])
  /\ UNCHANGED <<conn, synced, bank, entry, person, hour, used, streak>>

\* The journal has the entry; it, the reports to pretix or the import may fail, early or late.
Record(u) ==
  /\ At(u, "record")
  /\ \/ Become(u, [pull[u] EXCEPT !.pc = "succeed"])
     \/ Become(u, [pull[u] EXCEPT !.pc = "fail", !.error = "other"])
  /\ entry' = IF pull[u].got = "entry" THEN None ELSE entry
  /\ UNCHANGED <<conn, synced, bank, person, hour, used, streak>>

RecordFails(u) ==
  /\ At(u, "record") /\ Become(u, [pull[u] EXCEPT !.pc = "fail", !.error = "other"])
  /\ UNCHANGED <<conn, synced, bank, entry, person, hour, used, streak>>

\* "A successful pull ends the streak".
Healed(c) == [c EXCEPT !.status = "active", !.count = 0, !.since = FALSE, !.first = None]

\* An entry is given up when a cap kept it back, which is said, and when the date that has
\* moved is that of another account, which is not.
Released(u) == entry # None /\ (pull[u].got = "cut" \/ entry.account # AccountUid(pull[u].read))

Succeed(u) ==
  /\ At(u, "succeed")
  /\ conn' = Saved(pull[u].read, Healed(pull[u].read))
  /\ synced' = 0
  /\ entry' = IF Released(u) THEN None ELSE entry
  /\ used' = IF u = "schedule" THEN used + 1 ELSE used
  /\ streak' = [count |-> 0, first |-> None]
  /\ Become(u, AtRest)
  /\ UNCHANGED <<bank, person, hour>>

\* Mutant of Marked: the newest message is kept.
MarkedNewest(c, error) ==
  [c EXCEPT !.status = IF ConsentExpired(c) \/ error = "session" THEN "expired" ELSE "error",
            !.count = Plus(c.count, MaxStreak), !.since = TRUE, !.first = error]

Marked(c, error) ==
  [c EXCEPT !.status = IF ConsentExpired(c) \/ error = "session" THEN "expired" ELSE "error",
            !.count = Plus(c.count, MaxStreak), !.since = TRUE,
            !.first = IF c.first = None THEN error ELSE c.first]

Fail(u) ==
  LET error == pull[u].error IN
  /\ At(u, "fail")
  /\ conn' = Saved(pull[u].read, Marked(pull[u].read, error))
  /\ streak' = [count |-> Plus(streak.count, MaxStreak),
                first |-> IF streak.count = 0 THEN error ELSE streak.first]
  /\ Become(u, AtRest)
  /\ UNCHANGED <<synced, bank, entry, person, hour, used>>

\* The process ends anywhere.
Crash(u) ==
  /\ ~Idle(u) /\ Become(u, AtRest)
  /\ UNCHANGED <<conn, synced, bank, entry, person, hour, used, streak>>

(***************************************************************************)
(* The person at the settings page: one request at a time.                 *)
(***************************************************************************)

\* The return from the bank, if it brings a code and the state that was issued.
Return ==
  /\ ~person.opening
  /\ person' = [opening |-> TRUE, status |-> conn.status, iban |-> conn.iban]
  /\ UNCHANGED <<conn, synced, bank, entry, pull, hour, used, streak>>

\* openSession() fails, or brings neither session nor account.
NotOpened ==
  /\ person.opening /\ person' = NoRequest
  /\ UNCHANGED <<conn, synced, bank, entry, pull, hour, used, streak>>

Unknown(s) == s # conn.session /\ \A u \in Pulls : s # pull[u].read.session

\* Of a consent that covers one account that one is taken.
Connected(s) ==
  [status |-> "active", iban |-> IF Len(Covers[s]) = 1 THEN Covers[s][1] ELSE person.iban]

Opened(s) ==
  /\ person.opening /\ person' = NoRequest /\ Unknown(s)
  /\ bank' = [bank EXCEPT ![s] = "open"]
  /\ conn' = [Saved(person, Connected(s)) EXCEPT !.session = s]
  /\ UNCHANGED <<synced, entry, pull, hour, used, streak>>

\* disconnect(): closeSession(), which may fail, and then the row.
Disconnect ==
  /\ ~person.opening /\ conn.status # "new"
  /\ conn' = [conn EXCEPT !.session = None, !.status = "new"]
  /\ \/ UNCHANGED bank
     \/ /\ conn.session # None /\ bank[conn.session] = "open"
        /\ bank' = [bank EXCEPT ![conn.session] = "ended"]
  /\ UNCHANGED <<synced, entry, pull, person, hour, used, streak>>

\* save(): another account of the consent.
ChooseAccount(a) ==
  /\ ~person.opening /\ conn.iban # a /\ conn' = [conn EXCEPT !.iban = a]
  /\ UNCHANGED <<synced, bank, entry, pull, person, hour, used, streak>>

(***************************************************************************)
(* The bank, and time.                                                     *)
(***************************************************************************)

\* The bank ends a session, or its consent runs out.
EndSession(s) ==
  /\ ~Unknown(s)
  /\ \/ bank[s] = "open" /\ bank' = [bank EXCEPT ![s] = "ended"]
     \/ s \in Dated /\ bank[s] # "lapsed" /\ bank' = [bank EXCEPT ![s] = "lapsed"]
  /\ UNCHANGED <<conn, synced, entry, pull, person, hour, used, streak>>

\* An entry of today.  What has been fetched before is without it.
Book(a) ==
  /\ entry = None
  /\ entry' = [account |-> a, age |-> 0]
  /\ pull' = [u \in Pulls |-> [pull[u] EXCEPT !.got = "nothing"]]
  /\ UNCHANGED <<conn, synced, bank, person, hour, used, streak>>

\* Before the first pull, an entry grows too old for it.
Older ==
  IF entry = None THEN None
  ELSE IF synced = None /\ entry.age >= FirstPull THEN None
  ELSE [entry EXCEPT !.age = Plus(@, MaxAge + Back)]

Tick ==
  /\ \A u \in Pulls : ~Idle(u) => pull[u].lived < Lasting
  /\ hour' = (hour + 1) % Day
  /\ used' = IF hour' = 0 THEN 0 ELSE used
  /\ synced' = IF synced = None THEN None ELSE Plus(synced, MaxAge)
  /\ entry' = Older
  /\ pull' = [u \in Pulls |-> IF Idle(u) THEN pull[u]
                              ELSE [pull[u] EXCEPT !.lived = @ + 1, !.reach = @ + 1]]
  /\ UNCHANGED <<conn, bank, person, streak>>

Work(u) == Fetch(u) \/ FetchFails(u) \/ Record(u) \/ RecordFails(u) \/ Succeed(u) \/ Fail(u)

Next ==
  \/ \E u \in Pulls : Begin(u) \/ Work(u) \/ Crash(u)
  \/ Return \/ NotOpened \/ Disconnect
  \/ \E s \in Sessions : Opened(s) \/ EndSession(s)
  \/ \E a \in Accounts : ChooseAccount(a) \/ Book(a)
  \/ Tick

Spec == Init /\ [][Next]_vars

\* The schedule fires, the bank answers and processes end well, again and again; time passes
\* and whatever runs goes on.
FairSpec ==
  /\ Spec /\ SF_vars(Tick) /\ WF_vars(\E u \in Pulls : Work(u))
  /\ SF_vars(Begin("schedule")) /\ SF_vars(Fetch("schedule"))
  /\ SF_vars(Record("schedule") /\ pull'["schedule"].pc = "succeed")
  /\ SF_vars(Succeed("schedule")) /\ SF_vars(Fail("schedule"))

(***************************************************************************)
(* Properties.                                                             *)
(***************************************************************************)

\* "Re-cover a few days on every run so late bookings are not missed" (Sync): an entry that
\* no pull has recorded is in the window of the next one, however long the feed was down.
MissedIsInReach ==
  entry # None /\ synced # None => entry.age <= synced + Back

\* Four accesses a day without the account holder (routes/console.php): a schedule that
\* restarts brings no more than that, as far as its pulls succeed.
QuotaIsKept == used <= Day \div Slot

\* The streak of the row is the one that is going on: how long it is decides on the alarm,
\* and its first message is that of the failure it began with - whatever the person does to the
\* connection while a pull is under way.
StreakIsTrue ==
  /\ conn.count = streak.count /\ conn.first = streak.first
  /\ conn.since <=> streak.count > 0

Usable == conn.session # None /\ bank[conn.session] = "open"

\* "One failed run" is never "a permanent lockout" (Sync): while the connection keeps a session
\* that the bank honours, the feed works again and again, whatever earlier pulls and the
\* person wrote to the row.
NeverLockedOut ==
  []<>(synced = 0 \/ ~Usable) \/ []<><<conn'.session # conn.session>>_vars
=============================================================================
