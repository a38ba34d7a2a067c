--------------------------- MODULE Journal_proofs ---------------------------
(***************************************************************************)
(* Proofs about Journal.  For any number of pulls and people at the same   *)
(* time, and whoever dies: the columns keep their types, and badge and     *)
(* model agree on every entry.  When they take turns, a hand assignment    *)
(* stands, and as long as pretix takes no payment back no entry shows paid *)
(* an order that is not.  When there is one pull at a time, nobody at the button, nobody *)
(* dies and no line fits two orders, both entries of a pair are marked.    *)
(***************************************************************************)
EXTENDS Journal, TLAPS

(***************************************************************************)
(* What Eloquent saves.                                                    *)
(***************************************************************************)

LEMMA SavedFields ==
  ASSUME NEW l \in Lines, NEW read \in Entries, NEW new \in Entries, entry[l] \in Entries
  PROVE  LET s == Saved(l, read, new) IN
         /\ s \in Entries
         /\ s.code = IF new.code # read.code THEN new.code ELSE entry[l].code
         /\ s.status = IF new.status # read.status THEN new.status ELSE entry[l].status
         /\ s.method = IF new.method # read.method THEN new.method ELSE entry[l].method
         /\ s.suggested = IF new.suggested # read.suggested THEN new.suggested ELSE entry[l].suggested
         /\ s.flag = IF new.flag # read.flag THEN new.flag ELSE entry[l].flag
<1> DEFINE s == Saved(l, read, new)
<1>1. DOMAIN new = {"code", "status", "method", "suggested", "flag"}
  BY DEF Entries
<1>2. s = [f \in {"code", "status", "method", "suggested", "flag"} |->
             IF new[f] # read[f] THEN new[f] ELSE entry[l][f]]
  BY <1>1 DEF Saved
<1>3. /\ s.code = IF new.code # read.code THEN new.code ELSE entry[l].code
      /\ s.status = IF new.status # read.status THEN new.status ELSE entry[l].status
      /\ s.method = IF new.method # read.method THEN new.method ELSE entry[l].method
      /\ s.suggested = IF new.suggested # read.suggested THEN new.suggested ELSE entry[l].suggested
      /\ s.flag = IF new.flag # read.flag THEN new.flag ELSE entry[l].flag
  BY <1>2
<1>4. /\ s.code \in Codes \cup {None} /\ s.status \in Statuses \cup {None} /\ s.method \in Methods
      /\ s.suggested \in BOOLEAN /\ s.flag \in BOOLEAN
  BY <1>3 DEF Entries
<1>5. s = [code |-> s.code, status |-> s.status, method |-> s.method,
           suggested |-> s.suggested, flag |-> s.flag]
  BY <1>2
<1> HIDE DEF s
<1>6. s \in Entries
  BY <1>4, <1>5 DEF Entries
<1> QED
  BY <1>3, <1>6 DEF s

(***************************************************************************)
(* The invariants.                                                         *)
(***************************************************************************)

\* What a process holds: its entry has a row, and a code that it has read is still there.
KeepsCode(l, r) == r.code # None => entry[l].code # None
HeldBy(w) ==
  /\ proc[w].pc \in {"compare", "flag", "flagown"} => proc[w].line \in Lines /\ entry[proc[w].line] # None
  /\ proc[w].pc \in {"compare", "flag"} => proc[w].row \in Entries
  /\ At(w, "compare") => proc[w].match \in MatchResults /\ KeepsCode(proc[w].line, proc[w].row)
  /\ At(w, "close") => proc[w].returned # None
  /\ \A t \in proc[w].queue : entry[t.line] # None /\ KeepsCode(t.line, t.row)
Held == \A w \in Workers : HeldBy(w)

\* Without a code, the method says whether there are candidates - in the table and in
\* every copy of a row.
Plain(e) == e.code = None => (e.method = "fuzzy" /\ e.suggested) \/ (e.method = "none" /\ ~e.suggested)
PlainBy(w) ==
  /\ proc[w].pc = "compare" => Plain(proc[w].row) /\ Plain(proc[w].match)
  /\ \A t \in proc[w].queue : Plain(t.row)
AllPlain ==
  /\ \A l \in Lines : entry[l] # None => Plain(entry[l])
  /\ \A w \in Workers : PlainBy(w)

IInv == TypeOK /\ Held /\ AllPlain

(***************************************************************************)
(* The steps of a process, field by field.                                 *)
(***************************************************************************)

Others(w) == \A v \in Workers : v # w => proc'[v] = proc[v]
Keeps(w) == proc'[w].row = proc[w].row /\ proc'[w].match = proc[w].match /\ proc'[w].queue = proc[w].queue
Rests(w) ==
  /\ proc'[w].pc = "idle" /\ proc'[w].row = None /\ proc'[w].match = None /\ proc'[w].queue = {}

LEMMA Becomes ==
  ASSUME TypeOK, NEW w \in Workers, NEW p, Become(w, p)
  PROVE  proc'[w] = p /\ Others(w) /\ (p \in Locals => proc' \in [Workers -> Locals])
BY DEF TypeOK, Become, Others

LEMMA NoneApart == None \notin Lines /\ None \notin Codes /\ None \notin Statuses
BY JournalAssumption

LEMMA Entry == TypeOK => \A l \in Lines : entry[l] # None => entry[l] \in Entries
BY DEF TypeOK

LEMMA NewType ==
  ASSUME NEW m \in MatchResults
  PROVE  /\ New(m) \in Entries /\ New(m).code = m.code /\ New(m).method = m.method
         /\ New(m).suggested = m.suggested
BY DEF New, MatchResults, Entries, Methods

LEMMA ReexaminedType ==
  ASSUME NEW r \in Entries, NEW m \in MatchResults
  PROVE  LET n == Reexamined(r, m) IN
         /\ n \in Entries
         /\ n.code = IF m.code = None THEN r.code ELSE m.code
         /\ n.method = m.method /\ n.suggested = m.suggested /\ n.flag = r.flag
BY DEF Reexamined, MatchResults, Entries, Methods

LEMMA ClosedType ==
  ASSUME NEW r \in Entries, NEW c \in Codes
  PROVE  LET n == Closed(r, c) IN
         /\ n \in Entries /\ n.code = c /\ n.status = "p"
         /\ n.suggested = r.suggested /\ n.flag = r.flag
         /\ r.code = c => n.method = r.method
         /\ r.code # c => n.method = "manual"
<1>1. "manual" \in Methods /\ "p" \in Statuses
  BY DEF Methods, Statuses
<1> QED
  BY <1>1 DEF Closed, Entries

LEMMA BeginPullEffect ==
  ASSUME TypeOK, NEW w \in Workers, BeginPull(w)
  PROVE  /\ proc'[w].pc = "record" /\ proc'[w].row = None /\ proc'[w].match = None
         /\ proc'[w].queue = {} /\ Others(w) /\ proc' \in [Workers -> Locals]
         /\ MayBegin(w) /\ UNCHANGED <<bank, entry, ids, orders, last, rows, reported>>
<1> DEFINE s == [Idle EXCEPT !.pc = "record", !.known = orders,
                             !.todo = {l \in Lines : bank[l] = "window"}]
<1>1. proc'[w] = s /\ Others(w) /\ (s \in Locals => proc' \in [Workers -> Locals])
  BY Becomes DEF BeginPull
<1>2. s \in Locals
  BY DEF Idle, Locals, TypeOK
<1>3. s.pc = "record" /\ s.row = None /\ s.match = None /\ s.queue = {}
  BY DEF Idle
<1> HIDE DEF s
<1> QED
  BY <1>1, <1>2, <1>3 DEF BeginPull, entryVars, orderVars

LEMMA TakeLineEffect ==
  ASSUME TypeOK, NEW w \in Workers, NEW l \in Lines, TakeLine(w, l)
  PROVE  /\ proc[w].pc = "record" /\ Others(w) /\ proc' \in [Workers -> Locals]
         /\ proc'[w].queue = proc[w].queue
         /\ UNCHANGED <<bank, orders, last, rows, reported>>
         /\ \/ proc'[w].pc = "record" /\ Keeps(w) /\ UNCHANGED <<entry, ids>>
            \/ \E m \in MatchResults :
                 /\ m \in Matches(l, proc[w].known)
                 /\ entry[l] = None /\ entry' = [entry EXCEPT ![l] = New(m)] /\ ids' = Append(ids, l)
                 /\ proc'[w].pc = "flag" /\ proc'[w].line = l /\ proc'[w].row = New(m)
                 /\ proc'[w].match = proc[w].match
            \/ \E m \in MatchResults :
                 /\ m \in Matches(l, proc[w].known)
                 /\ entry[l] # None /\ UNCHANGED <<entry, ids>>
                 /\ proc'[w].pc = "compare" /\ proc'[w].line = l /\ proc'[w].row = entry[l]
                 /\ proc'[w].match = m
<1> DEFINE p == proc[w]
           q == [p EXCEPT !.todo = @ \ {l}]
<1>1. p \in Locals /\ p.pc = "record"
  BY DEF TypeOK, TakeLine, At
<1>2. q \in Locals /\ q.pc = "record" /\ q.row = p.row /\ q.match = p.match /\ q.queue = p.queue
  BY <1>1 DEF Locals
<1>3. PICK m \in Matches(l, p.known) :
         \/ /\ Drops(l, m)
            /\ Become(w, q) /\ UNCHANGED entryVars
         \/ /\ ~Drops(l, m) /\ entry[l] = None
            /\ entry' = [entry EXCEPT ![l] = New(m)]
            /\ ids' = Append(ids, l)
            /\ Become(w, [q EXCEPT !.pc = "flag", !.line = l, !.row = New(m)])
         \/ /\ ~Drops(l, m) /\ entry[l] # None
            /\ Become(w, [q EXCEPT !.pc = "compare", !.line = l, !.row = entry[l],
                                   !.match = m])
            /\ UNCHANGED entryVars
  BY DEF TakeLine
<1>4. m \in MatchResults
  BY DEF Matches
<1>5. UNCHANGED <<bank, orders, last, rows, reported>>
  BY DEF TakeLine, orderVars
<1> HIDE DEF q
<1>6. CASE Become(w, q) /\ UNCHANGED entryVars
  BY <1>1, <1>2, <1>5, <1>6, Becomes DEF entryVars, Keeps
<1>7. CASE /\ entry[l] = None /\ entry' = [entry EXCEPT ![l] = New(m)] /\ ids' = Append(ids, l)
           /\ Become(w, [q EXCEPT !.pc = "flag", !.line = l, !.row = New(m)])
  <2> DEFINE s == [q EXCEPT !.pc = "flag", !.line = l, !.row = New(m)]
  <2>1. New(m) \in Entries
    BY <1>4, NewType
  <2>2. /\ s \in Locals /\ s.pc = "flag" /\ s.line = l /\ s.row = New(m) /\ s.match = p.match
        /\ s.queue = p.queue
    BY <1>2, <2>1 DEF Locals
  <2>3. Become(w, s)
    BY <1>7
  <2> HIDE DEF s
  <2> QED
    BY <1>1, <1>4, <1>5, <1>7, <2>2, <2>3, Becomes
<1>8. CASE /\ entry[l] # None /\ UNCHANGED entryVars
           /\ Become(w, [q EXCEPT !.pc = "compare", !.line = l, !.row = entry[l], !.match = m])
  <2> DEFINE s == [q EXCEPT !.pc = "compare", !.line = l, !.row = entry[l], !.match = m]
  <2>1. entry[l] \in Entries
    BY <1>8 DEF TypeOK
  <2>2. /\ s \in Locals /\ s.pc = "compare" /\ s.line = l /\ s.row = entry[l] /\ s.match = m
        /\ s.queue = p.queue
    BY <1>2, <1>4, <2>1 DEF Locals
  <2>3. Become(w, s)
    BY <1>8
  <2> HIDE DEF s
  <2> QED
    BY <1>1, <1>4, <1>5, <1>8, <2>2, <2>3, Becomes DEF entryVars
<1> QED
  BY <1>3, <1>6, <1>7, <1>8

LEMMA ReexamineEffect ==
  ASSUME TypeOK, Held, NEW w \in Workers, Reexamine(w)
  PROVE  LET p == proc[w]
             new == Reexamined(p.row, p.match) IN
         /\ p.pc = "compare" /\ Others(w) /\ proc' \in [Workers -> Locals]
         /\ proc'[w].queue = p.queue /\ proc'[w].match = None
         /\ UNCHANGED <<bank, ids, orders, last, rows, reported>>
         /\ \/ /\ LeftAlone(p.row, p.match) /\ entry' = entry
               /\ proc'[w].pc = "record" /\ proc'[w].row = None
            \/ /\ ~LeftAlone(p.row, p.match)
               /\ entry' = [entry EXCEPT ![p.line] = Saved(p.line, p.row, new)]
               /\ proc'[w].pc = "flag" /\ proc'[w].line = p.line /\ proc'[w].row = new
<1> DEFINE p == proc[w]
           new == Reexamined(p.row, p.match)
<1>1. p \in Locals /\ p.pc = "compare"
  BY DEF TypeOK, Reexamine, At
<1>2. p.row \in Entries /\ p.match \in MatchResults
  BY <1>1 DEF Held, HeldBy, At
<1>3. new \in Entries
  BY <1>2, ReexaminedType
<1>4. UNCHANGED <<bank, ids, orders, last, rows, reported>>
  BY DEF Reexamine, orderVars
<1> HIDE DEF new
<1>5. CASE LeftAlone(p.row, p.match)
  <2> DEFINE s == [p EXCEPT !.pc = "record", !.line = None, !.row = None, !.match = None]
  <2>1. Become(w, s) /\ entry' = entry
    BY <1>5 DEF Reexamine
  <2>2. s \in Locals /\ s.pc = "record" /\ s.row = None /\ s.match = None /\ s.queue = p.queue
    BY <1>1 DEF Locals
  <2> HIDE DEF s
  <2> QED
    BY <1>1, <1>4, <1>5, <2>1, <2>2, Becomes
<1>6. CASE ~LeftAlone(p.row, p.match)
  <2> DEFINE s == [p EXCEPT !.pc = "flag", !.row = new, !.match = None]
  <2>1. Become(w, s) /\ entry' = [entry EXCEPT ![p.line] = Saved(p.line, p.row, new)]
    BY <1>6 DEF Reexamine, new
  <2>2. /\ s \in Locals /\ s.pc = "flag" /\ s.row = new /\ s.match = None /\ s.queue = p.queue
        /\ s.line = p.line
    BY <1>1, <1>3 DEF Locals
  <2> HIDE DEF s
  <2> QED
    BY <1>1, <1>4, <1>6, <2>1, <2>2, Becomes DEF new
<1> QED
  BY <1>5, <1>6

LEMMA FlagSiblingEffect ==
  ASSUME TypeOK, NEW w \in Workers, FlagSibling(w)
  PROVE  LET p == proc[w] IN
         /\ p.pc = "flag" /\ Others(w) /\ proc' \in [Workers -> Locals]
         /\ proc'[w].queue = p.queue /\ proc'[w].match = p.match /\ proc'[w].row = None
         /\ UNCHANGED <<bank, ids, orders, last, rows, reported>>
         /\ \/ /\ Collides(p.line, p.row)
               /\ \E k \in Siblings(p.line, p.row.code) : entry' = [entry EXCEPT ![k].flag = TRUE]
               /\ proc'[w].pc = "flagown" /\ proc'[w].line = p.line
            \/ /\ ~Collides(p.line, p.row) /\ entry' = entry
               /\ proc'[w].pc = "record"
<1> DEFINE p == proc[w]
<1>1. p \in Locals /\ p.pc = "flag"
  BY DEF TypeOK, FlagSibling, At
<1>2. UNCHANGED <<bank, ids, orders, last, rows, reported>>
  BY DEF FlagSibling, orderVars
<1>3. CASE Collides(p.line, p.row)
  <2> DEFINE s == [p EXCEPT !.pc = "flagown", !.row = None]
  <2>1. Become(w, s) /\ \E k \in Siblings(p.line, p.row.code) : entry' = [entry EXCEPT ![k].flag = TRUE]
    BY <1>3 DEF FlagSibling
  <2>2. /\ s \in Locals /\ s.pc = "flagown" /\ s.row = None /\ s.match = p.match /\ s.queue = p.queue
        /\ s.line = p.line
    BY <1>1 DEF Locals
  <2> HIDE DEF s
  <2> QED
    BY <1>1, <1>2, <1>3, <2>1, <2>2, Becomes
<1>4. CASE ~Collides(p.line, p.row)
  <2> DEFINE s == [p EXCEPT !.pc = "record", !.line = None, !.row = None]
  <2>1. Become(w, s) /\ entry' = entry
    BY <1>4 DEF FlagSibling
  <2>2. s \in Locals /\ s.pc = "record" /\ s.row = None /\ s.match = p.match /\ s.queue = p.queue
    BY <1>1 DEF Locals
  <2> HIDE DEF s
  <2> QED
    BY <1>1, <1>2, <1>4, <2>1, <2>2, Becomes
<1> QED
  BY <1>3, <1>4

LEMMA FlagOwnEffect ==
  ASSUME TypeOK, NEW w \in Workers, FlagOwn(w)
  PROVE  /\ proc[w].pc = "flagown" /\ proc'[w].pc = "record" /\ Keeps(w) /\ Others(w)
         /\ proc' \in [Workers -> Locals]
         /\ entry' = [entry EXCEPT ![proc[w].line].flag = TRUE]
         /\ UNCHANGED <<bank, ids, orders, last, rows, reported>>
<1> DEFINE p == proc[w]
           s == [p EXCEPT !.pc = "record", !.line = None]
<1>1. p \in Locals /\ p.pc = "flagown"
  BY DEF TypeOK, FlagOwn, At
<1>2. Become(w, s) /\ entry' = [entry EXCEPT ![p.line].flag = TRUE]
      /\ UNCHANGED <<bank, ids, orders, last, rows, reported>>
  BY DEF FlagOwn, orderVars
<1>3. s \in Locals /\ s.pc = "record" /\ s.row = p.row /\ s.match = p.match /\ s.queue = p.queue
  BY <1>1 DEF Locals
<1> HIDE DEF s
<1> QED
  BY <1>1, <1>2, <1>3, Becomes DEF Keeps

LEMMA BeginReportEffect ==
  ASSUME TypeOK, NEW w \in Workers, BeginReport(w)
  PROVE  /\ proc[w].pc = "record" /\ proc'[w].pc = "report" /\ proc'[w].row = None
         /\ proc'[w].match = None /\ proc'[w].queue = OpenTasks
         /\ Others(w) /\ proc' \in [Workers -> Locals]
         /\ UNCHANGED <<bank, entry, ids, orders, last, rows, reported>>
<1> DEFINE s == [Idle EXCEPT !.pc = "report", !.queue = OpenTasks]
<1>1. proc'[w] = s /\ Others(w) /\ (s \in Locals => proc' \in [Workers -> Locals])
  BY Becomes DEF BeginReport
<1>2. OpenTasks \subseteq Tasks
  <2>1. \A k \in Credits : entry[k] # None => Task(k, entry[k].code) \in Tasks
    BY JournalAssumption DEF TypeOK, Task, Tasks, Entries
  <2> QED
    BY <2>1 DEF OpenTasks
<1>3. s \in Locals
  BY <1>2 DEF Idle, Locals
<1>4. s.pc = "report" /\ s.row = None /\ s.match = None /\ s.queue = OpenTasks
  BY DEF Idle
<1> HIDE DEF s
<1> QED
  BY <1>1, <1>3, <1>4 DEF BeginReport, At, entryVars, orderVars

LEMMA BeginByHandEffect ==
  ASSUME TypeOK, NEW w \in Workers, NEW l \in Lines, NEW c \in Codes, NEW allow \in BOOLEAN,
         BeginByHand(w, l, c, allow)
  PROVE  /\ MayBegin(w) /\ entry[l] # None /\ entry[l].status # "p"
         /\ proc'[w].pc = "report" /\ proc'[w].row = None
         /\ proc'[w].match = None /\ proc'[w].queue = {Task(l, c)}
         /\ Others(w) /\ proc' \in [Workers -> Locals]
         /\ UNCHANGED <<bank, entry, ids, orders, last, rows, reported>>
<1> DEFINE s == [Idle EXCEPT !.pc = "report", !.queue = {Task(l, c)}, !.allow = allow]
<1>1. proc'[w] = s /\ Others(w) /\ (s \in Locals => proc' \in [Workers -> Locals])
  BY Becomes DEF BeginByHand
<1>2. Task(l, c) \in Tasks
  BY DEF TypeOK, Task, Tasks, BeginByHand
<1>3. s \in Locals
  BY <1>2 DEF Idle, Locals
<1>4. s.pc = "report" /\ s.row = None /\ s.match = None /\ s.queue = {Task(l, c)}
  BY DEF Idle
<1> HIDE DEF s
<1> QED
  BY <1>1, <1>3, <1>4 DEF BeginByHand, entryVars, orderVars

LEMMA MarkPaidEffect ==
  ASSUME TypeOK, NEW w \in Workers, NEW t \in proc[w].queue, MarkPaid(w, t)
  PROVE  /\ proc[w].pc = "report" /\ proc'[w].pc = "close" /\ Keeps(w) /\ Others(w)
         /\ proc' \in [Workers -> Locals] /\ t \in Tasks /\ Allowed(w, t)
         /\ proc'[w].line = t.line
         /\ orders' \in [Codes -> Statuses \cup {None}]
         /\ last' \in [Lines -> Codes \cup {None}]
         /\ rows' \subseteq Codes \X Lines /\ reported' \subseteq Codes \X Lines
         /\ \/ Repeats(w, t) /\ proc'[w].returned = last[t.line] /\ last' = last
            \/ /\ ~Repeats(w, t) /\ proc'[w].returned = t.code
               /\ last' = [last EXCEPT ![t.line] = IF t.code \in Fit[t.line] THEN t.code ELSE None]
         /\ proc'[w].returned \in Codes
         /\ UNCHANGED <<bank, entry, ids>>
<1> DEFINE p == proc[w]
<1>1. p \in Locals /\ p.pc = "report"
  BY DEF TypeOK, MarkPaid, At
<1>2. t \in Tasks
  BY <1>1 DEF Locals
<1>3. t.code \in Codes /\ t.line \in Lines
  BY <1>2 DEF MarkPaid, Allowed, Tasks
<1>4. /\ orders' \in [Codes -> Statuses \cup {None}] /\ reported' \subseteq Codes \X Lines
      /\ UNCHANGED <<bank, entry, ids>> /\ Allowed(w, t)
  BY <1>3 DEF MarkPaid, TypeOK, entryVars, Statuses
<1>5. CASE /\ Repeats(w, t) /\ Become(w, [p EXCEPT !.pc = "close", !.line = t.line, !.returned = last[t.line]])
           /\ UNCHANGED <<rows, last>>
  <2> DEFINE s == [p EXCEPT !.pc = "close", !.line = t.line, !.returned = last[t.line]]
  <2>1. last[t.line] \in Codes
    BY <1>3, <1>5 DEF Repeats, TypeOK
  <2>2. /\ s \in Locals /\ s.pc = "close" /\ s.returned = last[t.line] /\ s.line = t.line
        /\ s.row = p.row /\ s.match = p.match /\ s.queue = p.queue
    BY <1>1, <1>3, <2>1 DEF Locals
  <2>3. Become(w, s)
    BY <1>5
  <2> HIDE DEF s
  <2> QED
    BY <1>1, <1>2, <1>4, <1>5, <2>1, <2>2, <2>3, Becomes DEF Keeps, TypeOK
<1>6. CASE /\ ~Repeats(w, t) /\ Become(w, [p EXCEPT !.pc = "close", !.line = t.line, !.returned = t.code])
           /\ rows' = rows \cup {<<t.code, t.line>>}
           /\ last' = [last EXCEPT ![t.line] = IF t.code \in Fit[t.line] THEN t.code ELSE None]
  <2> DEFINE s == [p EXCEPT !.pc = "close", !.line = t.line, !.returned = t.code]
  <2>1. /\ s \in Locals /\ s.pc = "close" /\ s.returned = t.code /\ s.line = t.line
        /\ s.row = p.row /\ s.match = p.match /\ s.queue = p.queue
    BY <1>1, <1>3 DEF Locals
  <2>2. Become(w, s)
    BY <1>6
  <2>3. last' \in [Lines -> Codes \cup {None}] /\ rows' \subseteq Codes \X Lines
    BY <1>3, <1>6 DEF TypeOK
  <2> HIDE DEF s
  <2> QED
    BY <1>1, <1>2, <1>3, <1>4, <1>6, <2>1, <2>2, <2>3, Becomes DEF Keeps
<1> QED
  BY <1>5, <1>6 DEF MarkPaid

LEMMA RefuseEffect ==
  ASSUME TypeOK, NEW w \in Workers, NEW t \in proc[w].queue, Refuse(w, t)
  PROVE  /\ proc[w].pc = "report" /\ proc'[w].pc = "report" /\ Others(w)
         /\ proc'[w].row = proc[w].row /\ proc'[w].match = proc[w].match
         /\ proc'[w].queue = proc[w].queue \ {t} /\ proc' \in [Workers -> Locals]
         /\ t \in Tasks /\ last' = [last EXCEPT ![t.line] = None]
         /\ UNCHANGED <<bank, entry, ids, orders, rows, reported>>
<1> DEFINE p == proc[w]
           s == [p EXCEPT !.queue = @ \ {t}]
<1>1. p \in Locals /\ p.pc = "report"
  BY DEF TypeOK, Refuse, At
<1>2. t \in Tasks
  BY <1>1 DEF Locals
<1>3. /\ Become(w, s) /\ last' = [last EXCEPT ![t.line] = None]
      /\ UNCHANGED <<bank, entry, ids, orders, rows, reported>>
  BY DEF Refuse, entryVars
<1>4. s \in Locals /\ s.pc = p.pc /\ s.row = p.row /\ s.match = p.match /\ s.queue = p.queue \ {t}
  BY <1>1 DEF Locals
<1> HIDE DEF s
<1> QED
  BY <1>1, <1>2, <1>3, <1>4, Becomes

LEMMA CloseEntryEffect ==
  ASSUME TypeOK, NEW w \in Workers, NEW t \in proc[w].queue, CloseEntry(w, t)
  PROVE  /\ proc[w].pc = "close" /\ proc'[w].pc = "report" /\ Others(w)
         /\ proc'[w].row = proc[w].row /\ proc'[w].match = proc[w].match
         /\ proc'[w].queue = proc[w].queue \ {t} /\ proc' \in [Workers -> Locals]
         /\ t \in Tasks /\ t.line = proc[w].line
         /\ entry' = [entry EXCEPT ![t.line] = Saved(t.line, t.row, Closed(t.row, proc[w].returned))]
         /\ UNCHANGED <<bank, ids, orders, last, rows, reported>>
<1> DEFINE p == proc[w]
           s == [p EXCEPT !.pc = "report", !.line = None, !.queue = @ \ {t}, !.returned = None]
<1>1. p \in Locals /\ p.pc = "close"
  BY DEF TypeOK, CloseEntry, At
<1>2. t \in Tasks
  BY <1>1 DEF Locals
<1>3. /\ Become(w, s) /\ t.line = p.line
      /\ entry' = [entry EXCEPT ![t.line] = Saved(t.line, t.row, Closed(t.row, p.returned))]
      /\ UNCHANGED <<bank, ids, orders, last, rows, reported>>
  BY DEF CloseEntry, orderVars
<1>4. s \in Locals /\ s.pc = "report" /\ s.row = p.row /\ s.match = p.match /\ s.queue = p.queue \ {t}
  BY <1>1 DEF Locals
<1> HIDE DEF s
<1> QED
  BY <1>1, <1>2, <1>3, <1>4, Becomes

LEMMA EndEffect ==
  ASSUME TypeOK, NEW w \in Workers, EndReport(w) \/ Crash(w)
  PROVE  /\ Rests(w) /\ Others(w) /\ proc' \in [Workers -> Locals]
         /\ UNCHANGED <<bank, entry, ids, orders, last, rows, reported>>
<1>1. Become(w, Idle)
  BY DEF EndReport, Crash
<1>2. Idle \in Locals
  BY DEF Idle, Locals
<1>3. Rests(w)
  BY <1>1, Becomes DEF Rests, Idle
<1> QED
  BY <1>1, <1>2, <1>3, Becomes DEF EndReport, Crash, entryVars, orderVars

LEMMA AroundEffect ==
  ASSUME TypeOK, Around
  PROVE  /\ UNCHANGED <<entry, ids, proc, last, rows, reported>>
         /\ orders' \in [Codes -> Statuses \cup {None}]
         /\ bank' \in [Lines -> {"coming", "window", "past"}]
BY DEF Around, Deliver, Expire, ImportOrder, TypeOK, entryVars, orderVars

LEMMA TypeStep == TypeOK /\ Held /\ [Next]_vars => TypeOK'
<1> SUFFICES ASSUME TypeOK, Held, [Next]_vars PROVE TypeOK'
  OBVIOUS
<1> USE DEF TypeOK, Workers
<1>1. ASSUME NEW w \in Pulls, BeginPull(w) PROVE TypeOK'
  BY <1>1, BeginPullEffect
<1>2. ASSUME NEW w \in Workers, NEW l \in Lines, TakeLine(w, l) PROVE TypeOK'
  <2>1. proc' \in [Workers -> Locals] /\ UNCHANGED <<bank, orders, last, rows, reported>>
    BY <1>2, TakeLineEffect
  <2>2. UNCHANGED <<entry, ids>> \/ (ids' = Append(ids, l) /\ \E m \in MatchResults : entry' = [entry EXCEPT ![l] = New(m)])
    BY <1>2, TakeLineEffect
  <2>3. ids' \in Seq(Lines) /\ entry' \in [Lines -> Entries \cup {None}]
    BY <2>2, NewType
  <2> QED
    BY <2>1, <2>3
<1>3. ASSUME NEW w \in Workers, Reexamine(w) PROVE TypeOK'
  <2> DEFINE p == proc[w]
             new == Reexamined(p.row, p.match)
  <2>1. p.pc = "compare"
    BY <1>3, ReexamineEffect
  <2>2. p.row \in Entries /\ p.match \in MatchResults /\ p.line \in Lines /\ entry[p.line] \in Entries
    BY <1>3, <2>1 DEF Held, HeldBy, At
  <2>3. Saved(p.line, p.row, new) \in Entries
    <3>1. new \in Entries
      BY <2>2, ReexaminedType
    <3> HIDE DEF new
    <3> QED
      BY <2>2, <3>1, SavedFields
  <2>4. entry' \in [Lines -> Entries \cup {None}]
    BY <1>3, <2>3, ReexamineEffect
  <2> QED
    BY <1>3, <2>4, ReexamineEffect
<1>4. ASSUME NEW w \in Workers, FlagSibling(w) PROVE TypeOK'
  <2>1. entry' \in [Lines -> Entries \cup {None}]
    <3>1. CASE entry' = entry
      BY <3>1
    <3>2. ASSUME NEW k \in Siblings(proc[w].line, proc[w].row.code), entry' = [entry EXCEPT ![k].flag = TRUE]
          PROVE  entry' \in [Lines -> Entries \cup {None}]
      <4>1. k \in Lines /\ entry[k] \in Entries
        BY JournalAssumption DEF Siblings
      <4>2. [entry[k] EXCEPT !.flag = TRUE] \in Entries
        BY <4>1 DEF Entries
      <4> QED
        BY <3>2, <4>1, <4>2
    <3> QED
      BY <1>4, <3>1, <3>2, FlagSiblingEffect
  <2> QED
    BY <1>4, <2>1, FlagSiblingEffect
<1>5. ASSUME NEW w \in Workers, FlagOwn(w) PROVE TypeOK'
  <2>1. proc[w].line \in Lines /\ entry[proc[w].line] \in Entries
    BY <1>5, FlagOwnEffect DEF Held, HeldBy
  <2>2. [entry[proc[w].line] EXCEPT !.flag = TRUE] \in Entries
    BY <2>1 DEF Entries
  <2>3. entry' \in [Lines -> Entries \cup {None}]
    BY <1>5, <2>1, <2>2, FlagOwnEffect
  <2> QED
    BY <1>5, <2>3, FlagOwnEffect
<1>6. ASSUME NEW w \in Workers, BeginReport(w) PROVE TypeOK'
  BY <1>6, BeginReportEffect
<1>7. ASSUME NEW w \in Clerks, NEW l \in Lines, NEW c \in Codes, NEW a \in BOOLEAN, BeginByHand(w, l, c, a) PROVE TypeOK'
  BY <1>7, BeginByHandEffect
<1>8. ASSUME NEW w \in Workers, NEW t \in proc[w].queue, MarkPaid(w, t) PROVE TypeOK'
  BY <1>8, MarkPaidEffect
<1>9. ASSUME NEW w \in Workers, NEW t \in proc[w].queue, Refuse(w, t) PROVE TypeOK'
  <2>1. t.line \in Lines
    BY <1>9, RefuseEffect DEF Tasks
  <2> QED
    BY <1>9, <2>1, RefuseEffect
<1>10. ASSUME NEW w \in Workers, NEW t \in proc[w].queue, CloseEntry(w, t) PROVE TypeOK'
  <2> DEFINE new == Closed(t.row, proc[w].returned)
  <2>1. t.line \in Lines /\ t.row \in Entries /\ entry[t.line] \in Entries /\ proc[w].returned \in Codes
    <3>1. t \in Tasks /\ proc[w].pc = "close"
      BY <1>10, CloseEntryEffect
    <3>2. proc[w].returned \in Codes \cup {None}
      BY DEF Locals
    <3> QED
      BY <3>1, <3>2 DEF Tasks, Held, HeldBy, At
  <2>2. new \in Entries
    BY <2>1, ClosedType
  <2> HIDE DEF new
  <2>3. Saved(t.line, t.row, new) \in Entries
    BY <2>1, <2>2, SavedFields
  <2>4. entry' \in [Lines -> Entries \cup {None}]
    BY <1>10, <2>3, CloseEntryEffect DEF new
  <2> QED
    BY <1>10, <2>4, CloseEntryEffect
<1>11. ASSUME NEW w \in Workers, EndReport(w) \/ Crash(w) PROVE TypeOK'
  BY <1>11, EndEffect
<1>12. ASSUME Around PROVE TypeOK'
  BY <1>12, AroundEffect
<1>13. ASSUME UNCHANGED vars PROVE TypeOK'
  BY <1>13 DEF vars
<1> QED
  BY <1>1, <1>2, <1>3, <1>4, <1>5, <1>6, <1>7, <1>8, <1>9, <1>10, <1>11, <1>12, <1>13
  DEF Next, Work, ByHand, Workers

(***************************************************************************)
(* A row is never deleted, and a code never emptied.                       *)
(***************************************************************************)

CodesStay ==
  \A l \in Lines : entry[l] # None =>
    entry'[l] # None /\ (entry[l].code # None => entry'[l].code # None)

LEMMA NoneNoEntry == None \notin Entries
BY JournalAssumption

LEMMA QueueType == ASSUME TypeOK, NEW w \in Workers, NEW t \in proc[w].queue PROVE t \in Tasks
<1>1. proc[w].queue \subseteq Tasks
  BY DEF TypeOK, Locals
<1> QED
  BY <1>1

LEMMA TaskType ==
  ASSUME NEW t \in Tasks
  PROVE  t.line \in Lines /\ t.row \in Entries /\ t.code \in Codes \cup {None}
BY DEF Tasks

LEMMA OneEntry ==
  ASSUME TypeOK, NEW k \in Lines, NEW e \in Entries, entry' = [entry EXCEPT ![k] = e],
         entry[k] # None /\ entry[k].code # None => e.code # None
  PROVE  CodesStay
BY NoneNoEntry DEF TypeOK, CodesStay

LEMMA Flagged ==
  ASSUME NEW e \in Entries
  PROVE  LET f == [e EXCEPT !.flag = TRUE] IN
         /\ f \in Entries /\ f.code = e.code /\ f.method = e.method
         /\ f.status = e.status /\ f.suggested = e.suggested /\ f.flag = TRUE
BY DEF Entries

LEMMA OneFlagged ==
  ASSUME TypeOK, NEW k \in Lines, entry[k] # None, entry' = [entry EXCEPT ![k].flag = TRUE]
  PROVE  /\ CodesStay
         /\ \A l \in Lines : entry[l] # None => entry'[l].code = entry[l].code
              /\ entry'[l].method = entry[l].method /\ entry'[l].suggested = entry[l].suggested
              /\ entry'[l].status = entry[l].status /\ (entry[l].flag => entry'[l].flag)
         /\ \A l \in Lines : (entry'[l] # None <=> entry[l] # None) /\ (l # k => entry'[l] = entry[l])
         /\ entry'[k].flag
<1> DEFINE f == [entry[k] EXCEPT !.flag = TRUE]
<1>1. entry[k] \in Entries
  BY DEF TypeOK
<1>2. /\ f \in Entries /\ f.code = entry[k].code /\ f.method = entry[k].method
      /\ f.status = entry[k].status /\ f.suggested = entry[k].suggested /\ f.flag = TRUE
  BY <1>1, Flagged
<1>3. entry' = [entry EXCEPT ![k] = f]
  OBVIOUS
<1> HIDE DEF f
<1> QED
  BY <1>2, <1>3, NoneNoEntry DEF TypeOK, CodesStay

LEMMA OneReexamined ==
  ASSUME TypeOK, Held, NEW w \in Workers, proc[w].pc = "compare",
         entry' = [entry EXCEPT ![proc[w].line] =
                     Saved(proc[w].line, proc[w].row, Reexamined(proc[w].row, proc[w].match))]
  PROVE  /\ CodesStay
         /\ entry'[proc[w].line].code # None \/ Reexamined(proc[w].row, proc[w].match).code = None
<1> DEFINE p == proc[w]
           new == Reexamined(p.row, p.match)
           s == Saved(p.line, p.row, new)
<1>1. /\ p.row \in Entries /\ p.match \in MatchResults /\ p.line \in Lines
      /\ entry[p.line] # None /\ (p.row.code # None => entry[p.line].code # None)
  BY DEF Held, HeldBy, At, KeepsCode
<1>2. entry[p.line] \in Entries
  BY <1>1 DEF TypeOK
<1>3. new \in Entries /\ new.code = IF p.match.code = None THEN p.row.code ELSE p.match.code
  BY <1>1, ReexaminedType
<1>4. entry' = [entry EXCEPT ![p.line] = s]
  OBVIOUS
<1> HIDE DEF new
<1>5. s \in Entries /\ s.code = IF new.code # p.row.code THEN new.code ELSE entry[p.line].code
  BY <1>1, <1>2, <1>3, SavedFields
<1> HIDE DEF s
<1>6. (entry[p.line].code # None => s.code # None) /\ (s.code # None \/ new.code = None)
  BY <1>1, <1>3, <1>5
<1>7. CodesStay
  BY <1>1, <1>4, <1>5, <1>6, OneEntry
<1>8. entry'[p.line] = s
  BY <1>1, <1>4 DEF TypeOK
<1> QED
  BY <1>6, <1>7, <1>8 DEF new

LEMMA OneClosed ==
  ASSUME TypeOK, Held, NEW w \in Workers, NEW t \in proc[w].queue, proc[w].pc = "close",
         entry' = [entry EXCEPT ![t.line] = Saved(t.line, t.row, Closed(t.row, proc[w].returned))]
  PROVE  CodesStay /\ entry'[t.line].code # None
<1> DEFINE new == Closed(t.row, proc[w].returned)
           s == Saved(t.line, t.row, new)
<1>1. t \in Tasks /\ t.line \in Lines /\ t.row \in Entries
  BY QueueType, TaskType
<1>2. proc[w].returned \in Codes /\ entry[t.line] # None /\ (t.row.code # None => entry[t.line].code # None)
  <2>1. proc[w].returned \in Codes \cup {None}
    BY DEF TypeOK, Locals
  <2> QED
    BY <2>1 DEF Held, HeldBy, At, KeepsCode
<1>3. entry[t.line] \in Entries
  BY <1>1, <1>2 DEF TypeOK
<1>4. new \in Entries /\ new.code = proc[w].returned
  BY <1>1, <1>2, ClosedType
<1>5. entry' = [entry EXCEPT ![t.line] = s]
  OBVIOUS
<1> HIDE DEF new
<1>6. s \in Entries /\ s.code = IF new.code # t.row.code THEN new.code ELSE entry[t.line].code
  BY <1>1, <1>3, <1>4, SavedFields
<1> HIDE DEF s
<1>7. s.code # None
  BY <1>2, <1>4, <1>6, NoneApart
<1>8. CodesStay
  BY <1>1, <1>5, <1>6, <1>7, OneEntry
<1>9. entry'[t.line] = s
  BY <1>1, <1>5 DEF TypeOK
<1> QED
  BY <1>7, <1>8, <1>9

LEMMA LineFlagged ==
  ASSUME TypeOK, NEW l, NEW c, NEW k \in Siblings(l, c)
  PROVE  k \in Lines /\ entry[k] # None /\ k # l /\ k \in Credits /\ entry[k].code = c
BY JournalAssumption DEF Siblings

LEMMA CodesStep == TypeOK /\ Held /\ [Next]_vars => CodesStay
<1> SUFFICES ASSUME TypeOK, Held, [Next]_vars PROVE CodesStay
  OBVIOUS
<1>1. ASSUME NEW w \in Pulls, BeginPull(w) PROVE CodesStay
  BY <1>1, BeginPullEffect DEF CodesStay, Workers
<1>2. ASSUME NEW w \in Workers, NEW l \in Lines, TakeLine(w, l) PROVE CodesStay
  <2>1. CASE entry' = entry
    BY <2>1 DEF CodesStay
  <2>2. ASSUME NEW m \in MatchResults, entry[l] = None, entry' = [entry EXCEPT ![l] = New(m)]
        PROVE  CodesStay
    BY <2>2, NewType, OneEntry
  <2> QED
    BY <1>2, <2>1, <2>2, TakeLineEffect
<1>3. ASSUME NEW w \in Workers, Reexamine(w) PROVE CodesStay
  <2>1. CASE entry' = entry
    BY <2>1 DEF CodesStay
  <2> QED
    BY <1>3, <2>1, ReexamineEffect, OneReexamined
<1>4. ASSUME NEW w \in Workers, FlagSibling(w) PROVE CodesStay
  <2>1. CASE entry' = entry
    BY <2>1 DEF CodesStay
  <2> QED
    BY <1>4, <2>1, FlagSiblingEffect, LineFlagged, OneFlagged
<1>5. ASSUME NEW w \in Workers, FlagOwn(w) PROVE CodesStay
  <2>1. proc[w].line \in Lines /\ entry[proc[w].line] # None
    BY <1>5, FlagOwnEffect DEF Held, HeldBy
  <2> QED
    BY <1>5, <2>1, FlagOwnEffect, OneFlagged
<1>6. ASSUME NEW w \in Workers, BeginReport(w) PROVE CodesStay
  BY <1>6, BeginReportEffect DEF CodesStay
<1>7. ASSUME NEW w \in Clerks, NEW l \in Lines, NEW c \in Codes, NEW a \in BOOLEAN, BeginByHand(w, l, c, a) PROVE CodesStay
  BY <1>7, BeginByHandEffect DEF CodesStay, Workers
<1>8. ASSUME NEW w \in Workers, NEW t \in proc[w].queue, MarkPaid(w, t) PROVE CodesStay
  BY <1>8, MarkPaidEffect DEF CodesStay
<1>9. ASSUME NEW w \in Workers, NEW t \in proc[w].queue, Refuse(w, t) PROVE CodesStay
  BY <1>9, RefuseEffect DEF CodesStay
<1>10. ASSUME NEW w \in Workers, NEW t \in proc[w].queue, CloseEntry(w, t) PROVE CodesStay
  BY <1>10, CloseEntryEffect, OneClosed
<1>11. ASSUME NEW w \in Workers, EndReport(w) \/ Crash(w) PROVE CodesStay
  BY <1>11, EndEffect DEF CodesStay
<1>12. ASSUME Around PROVE CodesStay
  BY <1>12, AroundEffect DEF CodesStay
<1>13. ASSUME UNCHANGED vars PROVE CodesStay
  BY <1>13 DEF vars, CodesStay
<1> QED
  BY <1>1, <1>2, <1>3, <1>4, <1>5, <1>6, <1>7, <1>8, <1>9, <1>10, <1>11, <1>12, <1>13
  DEF Next, Work, ByHand, Workers

LEMMA QueueHeld ==
  ASSUME TypeOK, Held, CodesStay, NEW w \in Workers, NEW t \in proc[w].queue
  PROVE  entry'[t.line] # None /\ KeepsCode(t.line, t.row)'
<1>1. t.line \in Lines
  BY QueueType, TaskType
<1> QED
  BY <1>1 DEF Held, HeldBy, KeepsCode, CodesStay

LEMMA OtherHeld ==
  ASSUME TypeOK, Held, CodesStay, NEW w \in Workers, proc'[w] = proc[w]
  PROVE  HeldBy(w)'
<1>1. \A t \in proc'[w].queue : entry'[t.line] # None /\ KeepsCode(t.line, t.row)'
  BY QueueHeld
<1>2. proc[w].pc \in {"compare", "flag", "flagown"} => proc[w].line \in Lines /\ entry'[proc[w].line] # None
  BY DEF Held, HeldBy, CodesStay
<1>3. At(w, "compare") => proc[w].match \in MatchResults /\ KeepsCode(proc[w].line, proc[w].row)'
  BY DEF Held, HeldBy, CodesStay, KeepsCode, At
<1> QED
  BY <1>1, <1>2, <1>3 DEF Held, HeldBy, At, KeepsCode

LEMMA HeldFromOne ==
  ASSUME TypeOK, Held, CodesStay, NEW w \in Workers, Others(w), HeldBy(w)'
  PROVE  Held'
BY OtherHeld DEF Held, Others

LEMMA HeldStep == TypeOK /\ Held /\ CodesStay /\ [Next]_vars => Held'
<1> SUFFICES ASSUME TypeOK, Held, CodesStay, [Next]_vars PROVE Held'
  OBVIOUS
<1>1. ASSUME NEW w \in Pulls, BeginPull(w) PROVE Held'
  <2>7. HeldBy(w)'
    BY <1>1, BeginPullEffect DEF HeldBy, At, Workers
  <2> QED
    BY <1>1, <2>7, BeginPullEffect, HeldFromOne DEF Workers
<1>2. ASSUME NEW w \in Workers, NEW l \in Lines, TakeLine(w, l) PROVE Held'
  <2>6. \A u \in proc[w].queue : entry'[u.line] # None /\ KeepsCode(u.line, u.row)'
    BY QueueHeld
  <2>5. proc'[w].queue = proc[w].queue
    BY <1>2, TakeLineEffect
  <2>1. ASSUME proc'[w].pc = "record" PROVE HeldBy(w)'
    BY <2>1, <2>5, <2>6 DEF HeldBy, At
  <2>2. ASSUME NEW m \in MatchResults, entry[l] = None, entry' = [entry EXCEPT ![l] = New(m)],
               proc'[w].pc = "flag", proc'[w].line = l, proc'[w].row = New(m)
        PROVE  HeldBy(w)'
    <3>1. entry'[l] # None
      BY <2>2, NewType, NoneNoEntry DEF TypeOK
    <3> QED
      BY <2>2, <2>5, <2>6, <3>1, NewType DEF HeldBy, At
  <2>3. ASSUME NEW m \in MatchResults, entry[l] # None, UNCHANGED entry,
               proc'[w].pc = "compare", proc'[w].line = l, proc'[w].row = entry[l], proc'[w].match = m
        PROVE  HeldBy(w)'
    BY <2>3, <2>5, <2>6, Entry DEF HeldBy, At, KeepsCode
  <2>4. \/ proc'[w].pc = "record"
        \/ \E m \in MatchResults :
             /\ entry[l] = None /\ entry' = [entry EXCEPT ![l] = New(m)]
             /\ proc'[w].pc = "flag" /\ proc'[w].line = l /\ proc'[w].row = New(m)
        \/ \E m \in MatchResults :
             /\ entry[l] # None /\ UNCHANGED entry
             /\ proc'[w].pc = "compare" /\ proc'[w].line = l /\ proc'[w].row = entry[l]
             /\ proc'[w].match = m
    BY <1>2, TakeLineEffect
  <2>7. HeldBy(w)'
    BY <2>1, <2>2, <2>3, <2>4
  <2> QED
    BY <1>2, <2>7, TakeLineEffect, HeldFromOne
<1>3. ASSUME NEW w \in Workers, Reexamine(w) PROVE Held'
  <2>6. \A u \in proc[w].queue : entry'[u.line] # None /\ KeepsCode(u.line, u.row)'
    BY QueueHeld
  <2>1. proc[w].line \in Lines /\ entry'[proc[w].line] # None
    BY <1>3, ReexamineEffect DEF Held, HeldBy, CodesStay
  <2>2. Reexamined(proc[w].row, proc[w].match) \in Entries
    BY <1>3, ReexamineEffect, ReexaminedType DEF Held, HeldBy, At
  <2>7. HeldBy(w)'
    BY <1>3, ReexamineEffect, <2>1, <2>2, <2>6 DEF HeldBy, At
  <2> QED
    BY <1>3, <2>7, ReexamineEffect, HeldFromOne DEF Workers
<1>4. ASSUME NEW w \in Workers, FlagSibling(w) PROVE Held'
  <2>6. \A u \in proc[w].queue : entry'[u.line] # None /\ KeepsCode(u.line, u.row)'
    BY QueueHeld
  <2>1. proc[w].line \in Lines /\ entry'[proc[w].line] # None
    BY <1>4, FlagSiblingEffect DEF Held, HeldBy, CodesStay
  <2>7. HeldBy(w)'
    BY <1>4, FlagSiblingEffect, <2>1, <2>6 DEF HeldBy, At
  <2> QED
    BY <1>4, <2>7, FlagSiblingEffect, HeldFromOne DEF Workers
<1>5. ASSUME NEW w \in Workers, FlagOwn(w) PROVE Held'
  <2>6. \A u \in proc[w].queue : entry'[u.line] # None /\ KeepsCode(u.line, u.row)'
    BY QueueHeld
  <2>7. HeldBy(w)'
    BY <1>5, FlagOwnEffect, <2>6 DEF HeldBy, At, Keeps
  <2> QED
    BY <1>5, <2>7, FlagOwnEffect, HeldFromOne DEF Workers
<1>6. ASSUME NEW w \in Workers, BeginReport(w) PROVE Held'
  <2>6. \A t \in OpenTasks : entry[t.line] # None /\ t.row = entry[t.line]
    BY JournalAssumption DEF OpenTasks, Task
  <2>7. HeldBy(w)'
    BY <1>6, BeginReportEffect, <2>6 DEF HeldBy, At, KeepsCode
  <2> QED
    BY <1>6, <2>7, BeginReportEffect, HeldFromOne DEF Workers
<1>7. ASSUME NEW w \in Clerks, NEW l \in Lines, NEW c \in Codes, NEW a \in BOOLEAN, BeginByHand(w, l, c, a) PROVE Held'
  <2>6. Task(l, c).line = l /\ Task(l, c).row = entry[l]
    BY DEF Task
  <2>7. HeldBy(w)'
    BY <1>7, BeginByHandEffect, <2>6 DEF HeldBy, At, KeepsCode, Workers
  <2> QED
    BY <1>7, <2>7, BeginByHandEffect, HeldFromOne DEF Workers
<1>8. ASSUME NEW w \in Workers, NEW t \in proc[w].queue, MarkPaid(w, t) PROVE Held'
  <2>6. \A u \in proc[w].queue : entry'[u.line] # None /\ KeepsCode(u.line, u.row)'
    BY QueueHeld
  <2>7. HeldBy(w)'
    BY <1>8, MarkPaidEffect, <2>6, NoneApart DEF HeldBy, At, Keeps
  <2> QED
    BY <1>8, <2>7, MarkPaidEffect, HeldFromOne DEF Workers
<1>9. ASSUME NEW w \in Workers, NEW t \in proc[w].queue, Refuse(w, t) PROVE Held'
  <2>6. \A u \in proc[w].queue : entry'[u.line] # None /\ KeepsCode(u.line, u.row)'
    BY QueueHeld
  <2>7. HeldBy(w)'
    BY <1>9, RefuseEffect, <2>6 DEF HeldBy, At
  <2> QED
    BY <1>9, <2>7, RefuseEffect, HeldFromOne DEF Workers
<1>10. ASSUME NEW w \in Workers, NEW t \in proc[w].queue, CloseEntry(w, t) PROVE Held'
  <2>6. \A u \in proc[w].queue : entry'[u.line] # None /\ KeepsCode(u.line, u.row)'
    BY QueueHeld
  <2>7. HeldBy(w)'
    BY <1>10, CloseEntryEffect, <2>6 DEF HeldBy, At
  <2> QED
    BY <1>10, <2>7, CloseEntryEffect, HeldFromOne DEF Workers
<1>11. ASSUME NEW w \in Workers, EndReport(w) \/ Crash(w) PROVE Held'
  <2>7. HeldBy(w)'
    BY <1>11, EndEffect DEF HeldBy, At, Rests
  <2> QED
    BY <1>11, <2>7, EndEffect, HeldFromOne DEF Workers
<1>12. ASSUME Around PROVE Held'
  BY <1>12, AroundEffect DEF Held, HeldBy, At, KeepsCode
<1>13. ASSUME UNCHANGED vars PROVE Held'
  BY <1>13 DEF vars, Held, HeldBy, At, KeepsCode
<1> QED
  BY <1>1, <1>2, <1>3, <1>4, <1>5, <1>6, <1>7, <1>8, <1>9, <1>10, <1>11, <1>12, <1>13
  DEF Next, Work, ByHand, Workers

LEMMA PlainFromOne ==
  ASSUME TypeOK, AllPlain, NEW w \in Workers, Others(w), PlainBy(w)',
         \A l \in Lines : entry'[l] # None => Plain(entry'[l])
  PROVE  AllPlain'
<1>1. ASSUME NEW v \in Workers, v # w PROVE PlainBy(v)'
  BY <1>1 DEF AllPlain, PlainBy, Others, Plain
<1> QED
  BY <1>1 DEF AllPlain, Plain

LEMMA OnePlain ==
  ASSUME TypeOK, AllPlain, NEW k \in Lines, NEW e \in Entries, entry' = [entry EXCEPT ![k] = e], Plain(e)
  PROVE  \A l \in Lines : entry'[l] # None => Plain(entry'[l])
BY DEF TypeOK, AllPlain

LEMMA MatchesPlain ==
  ASSUME NEW l \in Lines, NEW known, NEW m \in Matches(l, known)
  PROVE  m \in MatchResults /\ Plain(m)
<1>1. \A s \in Stages : Best(l, s, known) \subseteq Codes
  BY JournalAssumption DEF Best, Hits
<1>2. m \in MatchResults
  BY DEF Matches
<1>3. m.method \in {"exact", "normalised"} /\ m.code \in Best(l, m.method, known) => m.code # None
  BY <1>1, NoneApart DEF Stages, Before
<1> QED
  BY <1>2, <1>3 DEF Matches, Plain

LEMMA ReexaminedPlain ==
  ASSUME TypeOK, Held, AllPlain, NEW w \in Workers, proc[w].pc = "compare", ~LeftAlone(proc[w].row, proc[w].match)
  PROVE  Plain(Saved(proc[w].line, proc[w].row, Reexamined(proc[w].row, proc[w].match)))
<1> DEFINE p == proc[w]
           new == Reexamined(p.row, p.match)
           s == Saved(p.line, p.row, new)
<1>1. /\ p.row \in Entries /\ p.match \in MatchResults /\ p.line \in Lines
      /\ entry[p.line] # None /\ (p.row.code # None => entry[p.line].code # None)
      /\ Plain(p.row) /\ Plain(p.match)
  BY DEF Held, HeldBy, At, KeepsCode, AllPlain, PlainBy
<1>2. entry[p.line] \in Entries /\ Plain(entry[p.line])
  BY <1>1 DEF TypeOK, AllPlain
<1>3. /\ new \in Entries /\ new.code = IF p.match.code = None THEN p.row.code ELSE p.match.code
      /\ new.method = p.match.method /\ new.suggested = p.match.suggested
  BY <1>1, ReexaminedType
<1> HIDE DEF new
<1>4. /\ s.code = IF new.code # p.row.code THEN new.code ELSE entry[p.line].code
      /\ s.method = IF new.method # p.row.method THEN new.method ELSE entry[p.line].method
      /\ s.suggested = IF new.suggested # p.row.suggested THEN new.suggested ELSE entry[p.line].suggested
  BY <1>1, <1>2, <1>3, SavedFields
<1>5. p.row.suggested \in BOOLEAN /\ new.suggested \in BOOLEAN /\ entry[p.line].suggested \in BOOLEAN
  BY <1>1, <1>2, <1>3 DEF Entries
<1>6. ASSUME s.code = None
      PROVE  /\ entry[p.line].code = None /\ p.row.code = None /\ new.code = None /\ p.match.code = None
  BY <1>1, <1>3, <1>4, <1>6
<1> HIDE DEF s
<1> QED
  BY <1>1, <1>2, <1>3, <1>4, <1>5, <1>6 DEF Plain, new, s

LEMMA PlainStep == TypeOK /\ Held /\ AllPlain /\ [Next]_vars => AllPlain'
<1> SUFFICES ASSUME TypeOK, Held, AllPlain, [Next]_vars PROVE AllPlain'
  OBVIOUS
<1>1. ASSUME NEW w \in Pulls, BeginPull(w) PROVE AllPlain'
  <2>1. PlainBy(w)'
    BY <1>1, BeginPullEffect DEF PlainBy, AllPlain, Workers
  <2> QED
    BY <1>1, <2>1, BeginPullEffect, PlainFromOne DEF AllPlain, Workers
<1>2. ASSUME NEW w \in Workers, NEW l \in Lines, TakeLine(w, l) PROVE AllPlain'
  <2>1. proc'[w].queue = proc[w].queue
    BY <1>2, TakeLineEffect
  <2>2. ASSUME proc'[w].pc = "record", UNCHANGED entry PROVE AllPlain'
    <3>1. PlainBy(w)'
      BY <2>1, <2>2 DEF AllPlain, PlainBy
    <3> QED
      BY <1>2, <2>2, <3>1, TakeLineEffect, PlainFromOne DEF AllPlain
  <2>3. ASSUME NEW m \in Matches(l, proc[w].known), entry' = [entry EXCEPT ![l] = New(m)],
               proc'[w].pc = "flag"
        PROVE  AllPlain'
    <3>1. New(m) \in Entries /\ Plain(New(m))
      BY MatchesPlain, NewType DEF Plain
    <3>2. \A k \in Lines : entry'[k] # None => Plain(entry'[k])
      BY <2>3, <3>1, OnePlain
    <3>3. PlainBy(w)'
      BY <2>1, <2>3 DEF AllPlain, PlainBy
    <3> QED
      BY <1>2, <3>2, <3>3, TakeLineEffect, PlainFromOne
  <2>4. ASSUME NEW m \in Matches(l, proc[w].known), entry[l] # None, UNCHANGED entry,
               proc'[w].row = entry[l], proc'[w].match = m
        PROVE  AllPlain'
    <3>1. PlainBy(w)'
      BY <2>1, <2>4, MatchesPlain DEF AllPlain, PlainBy
    <3> QED
      BY <1>2, <2>4, <3>1, TakeLineEffect, PlainFromOne DEF AllPlain
  <2>5. \/ proc'[w].pc = "record" /\ UNCHANGED entry
        \/ \E m \in Matches(l, proc[w].known) :
             entry' = [entry EXCEPT ![l] = New(m)] /\ proc'[w].pc = "flag"
        \/ \E m \in Matches(l, proc[w].known) :
             /\ entry[l] # None /\ UNCHANGED entry
             /\ proc'[w].row = entry[l] /\ proc'[w].match = m
    BY <1>2, TakeLineEffect
  <2> QED
    BY <2>2, <2>3, <2>4, <2>5
<1>3. ASSUME NEW w \in Workers, Reexamine(w) PROVE AllPlain'
  <2>1. PlainBy(w)'
    BY <1>3, ReexamineEffect DEF PlainBy, AllPlain
  <2>2. \A l \in Lines : entry'[l] # None => Plain(entry'[l])
    <3>1. CASE entry' = entry
      BY <3>1 DEF AllPlain
    <3>2. ASSUME ~LeftAlone(proc[w].row, proc[w].match)
          PROVE  \A l \in Lines : entry'[l] # None => Plain(entry'[l])
      <4> DEFINE s == Saved(proc[w].line, proc[w].row, Reexamined(proc[w].row, proc[w].match))
      <4>1. /\ proc[w].pc = "compare" /\ proc[w].line \in Lines /\ proc[w].row \in Entries
            /\ proc[w].match \in MatchResults /\ entry[proc[w].line] \in Entries
        BY <1>3, ReexamineEffect DEF Held, HeldBy, At, TypeOK
      <4>2. s \in Entries
        <5>1. Reexamined(proc[w].row, proc[w].match) \in Entries
          BY <4>1, ReexaminedType
        <5> QED
          BY <4>1, <5>1, SavedFields
      <4>3. Plain(s)
        BY <3>2, <4>1, ReexaminedPlain
      <4>4. entry' = [entry EXCEPT ![proc[w].line] = s]
        BY <1>3, <3>2, ReexamineEffect
      <4> HIDE DEF s
      <4> QED
        BY <4>1, <4>2, <4>3, <4>4, OnePlain
    <3> QED
      BY <1>3, <3>1, <3>2, ReexamineEffect
  <2> QED
    BY <1>3, <2>1, <2>2, ReexamineEffect, PlainFromOne
<1>4. ASSUME NEW w \in Workers, FlagSibling(w) PROVE AllPlain'
  <2>1. PlainBy(w)'
    BY <1>4, FlagSiblingEffect DEF PlainBy, AllPlain
  <2>2. \A l \in Lines : entry'[l] # None => Plain(entry'[l])
    <3>1. CASE entry' = entry
      BY <3>1 DEF AllPlain
    <3>2. ASSUME NEW k \in Siblings(proc[w].line, proc[w].row.code), entry' = [entry EXCEPT ![k].flag = TRUE]
          PROVE  \A l \in Lines : entry'[l] # None => Plain(entry'[l])
      BY <3>2, LineFlagged, OneFlagged DEF AllPlain, Plain
    <3> QED
      BY <1>4, <3>1, <3>2, FlagSiblingEffect
  <2> QED
    BY <1>4, <2>1, <2>2, FlagSiblingEffect, PlainFromOne
<1>5. ASSUME NEW w \in Workers, FlagOwn(w) PROVE AllPlain'
  <2>1. PlainBy(w)'
    BY <1>5, FlagOwnEffect DEF PlainBy, AllPlain, Keeps
  <2>2. proc[w].line \in Lines /\ entry[proc[w].line] # None
    BY <1>5, FlagOwnEffect DEF Held, HeldBy
  <2>3. \A l \in Lines : entry'[l] # None => Plain(entry'[l])
    <3>1. \A l \in Lines : /\ entry'[l] # None <=> entry[l] # None
                           /\ entry[l] # None => entry'[l].code = entry[l].code
                                /\ entry'[l].method = entry[l].method /\ entry'[l].suggested = entry[l].suggested
      BY <1>5, <2>2, FlagOwnEffect, OneFlagged
    <3> QED
      BY <3>1 DEF AllPlain, Plain
  <2> QED
    BY <1>5, <2>1, <2>3, FlagOwnEffect, PlainFromOne
<1>6. ASSUME NEW w \in Workers, BeginReport(w) PROVE AllPlain'
  <2>1. \A t \in OpenTasks : Plain(t.row)
    BY JournalAssumption DEF OpenTasks, Task, AllPlain
  <2>2. PlainBy(w)'
    BY <1>6, <2>1, BeginReportEffect DEF PlainBy
  <2> QED
    BY <1>6, <2>2, BeginReportEffect, PlainFromOne DEF AllPlain
<1>7. ASSUME NEW w \in Clerks, NEW l \in Lines, NEW c \in Codes, NEW a \in BOOLEAN, BeginByHand(w, l, c, a) PROVE AllPlain'
  <2>1. entry[l] # None /\ Plain(entry[l]) /\ Task(l, c).row = entry[l]
    BY <1>7, BeginByHandEffect DEF Task, AllPlain, Workers
  <2>2. PlainBy(w)'
    BY <1>7, <2>1, BeginByHandEffect DEF PlainBy, Workers
  <2> QED
    BY <1>7, <2>2, BeginByHandEffect, PlainFromOne DEF AllPlain, Workers
<1>8. ASSUME NEW w \in Workers, NEW t \in proc[w].queue, MarkPaid(w, t) PROVE AllPlain'
  <2>1. PlainBy(w)'
    BY <1>8, MarkPaidEffect DEF PlainBy, AllPlain, Keeps
  <2> QED
    BY <1>8, <2>1, MarkPaidEffect, PlainFromOne DEF AllPlain, Workers
<1>9. ASSUME NEW w \in Workers, NEW t \in proc[w].queue, Refuse(w, t) PROVE AllPlain'
  <2>1. PlainBy(w)'
    BY <1>9, RefuseEffect DEF PlainBy, AllPlain
  <2> QED
    BY <1>9, <2>1, RefuseEffect, PlainFromOne DEF AllPlain, Workers
<1>10. ASSUME NEW w \in Workers, NEW t \in proc[w].queue, CloseEntry(w, t) PROVE AllPlain'
  <2>1. PlainBy(w)'
    BY <1>10, CloseEntryEffect DEF PlainBy, AllPlain
  <2>2. t.line \in Lines /\ entry'[t.line].code # None
    BY <1>10, CloseEntryEffect, QueueType, TaskType, OneClosed
  <2>3. \A l \in Lines : entry'[l] # None => Plain(entry'[l])
    BY <1>10, <2>2, CloseEntryEffect DEF AllPlain, Plain, TypeOK
  <2> QED
    BY <1>10, <2>1, <2>3, CloseEntryEffect, PlainFromOne
<1>11. ASSUME NEW w \in Workers, EndReport(w) \/ Crash(w) PROVE AllPlain'
  <2>1. PlainBy(w)'
    BY <1>11, EndEffect DEF PlainBy, AllPlain, Rests
  <2> QED
    BY <1>11, <2>1, EndEffect, PlainFromOne DEF AllPlain, Workers
<1>12. ASSUME Around PROVE AllPlain'
  BY <1>12, AroundEffect DEF AllPlain, PlainBy, Plain
<1>13. ASSUME UNCHANGED vars PROVE AllPlain'
  BY <1>13 DEF vars, AllPlain, PlainBy, Plain
<1> QED
  BY <1>1, <1>2, <1>3, <1>4, <1>5, <1>6, <1>7, <1>8, <1>9, <1>10, <1>11, <1>12, <1>13
  DEF Next, Work, ByHand, Workers

(***************************************************************************)
(* Whatever overlaps and whoever dies.                                     *)
(***************************************************************************)

LEMMA InitIInv == Init => IInv
<1> SUFFICES ASSUME Init PROVE IInv
  OBVIOUS
<1>1. Idle \in Locals /\ Idle.pc = "idle" /\ Idle.queue = {}
  BY DEF Idle, Locals
<1>2. TypeOK
  BY <1>1 DEF Init, TypeOK, Statuses
<1>3. \A w \in Workers : proc[w].pc = "idle" /\ proc[w].queue = {}
  BY <1>1 DEF Init
<1>4. Held
  BY <1>3 DEF Held, HeldBy, At
<1>5. AllPlain
  BY <1>3 DEF Init, AllPlain, PlainBy
<1> QED
  BY <1>2, <1>4, <1>5 DEF IInv

\* The types, what a process holds and the plain rows come with every state.
THEOREM Inductive == Spec => []IInv
<1>1. IInv /\ [Next]_vars => IInv'
  BY TypeStep, CodesStep, HeldStep, PlainStep DEF IInv
<1> QED
  BY InitIInv, <1>1, PTL DEF Spec

\* The columns keep their types, whatever a save mixes.
THEOREM TypeCorrect == Spec => []TypeOK
BY Inductive, PTL DEF IInv

\* Badge and model agree on every entry: no mixture of saves gives an entry without a code
\* a method that contradicts its candidates.
THEOREM BadgeAgreesAlways == Spec => []BadgeAgrees
<1>1. IInv => BadgeAgrees
  BY DEF IInv, AllPlain, Plain, BadgeAgrees, IsActionable, NeedsDecision, TypeOK, Entries
<1> QED
  BY <1>1, Inductive, PTL

(***************************************************************************)
(* In turns: a hand assignment stands.                                     *)
(***************************************************************************)

\* One at a time; what it has read is still what the table says, an entry is reported
\* at most once and never when it is paid; and who assigns by hand pays.
OneAtATime == \A v, w \in Workers : v = w \/ At(v, "idle") \/ At(w, "idle")
FreshBy(w) ==
  /\ proc[w].pc = "compare" => proc[w].row = entry[proc[w].line]
  /\ proc[w].pc \in {"report", "close"} =>
       \A t \in proc[w].queue :
         /\ t.row = entry[t.line] /\ t.row.status # "p"
         /\ \A s \in proc[w].queue : s.line = t.line => s = t
Fresh == \A w \in Workers : FreshBy(w)
ByHandIsPaid == \A l \in Lines : entry[l] # None /\ entry[l].method = "manual" => entry[l].status = "p"
InTurns == OneAtATime /\ Fresh /\ ByHandIsPaid

LEMMA SavedWhole ==
  ASSUME NEW l \in Lines, NEW new \in Entries, entry[l] \in Entries
  PROVE  Saved(l, entry[l], new) = new
<1> DEFINE s == Saved(l, entry[l], new)
<1>1. s \in Entries /\ s.code = new.code /\ s.status = new.status /\ s.method = new.method
      /\ s.suggested = new.suggested /\ s.flag = new.flag
  BY SavedFields
<1> HIDE DEF s
<1>2. s = [code |-> s.code, status |-> s.status, method |-> s.method,
           suggested |-> s.suggested, flag |-> s.flag]
  BY <1>1 DEF Entries
<1>3. new = [code |-> new.code, status |-> new.status, method |-> new.method,
             suggested |-> new.suggested, flag |-> new.flag]
  BY DEF Entries
<1> QED
  BY <1>1, <1>2, <1>3 DEF s

\* While one works, the others rest.
LEMMA OneFromOne ==
  ASSUME OneAtATime, NEW w \in Workers, Others(w),
         (~Overlap /\ MayBegin(w)) \/ proc[w].pc # "idle" \/ proc'[w].pc = "idle"
  PROVE  OneAtATime'
<1>1. \A v \in Workers : v = w \/ At(v, "idle") \/ proc'[w].pc = "idle"
  BY DEF OneAtATime, At, MayBegin
<1>2. \A v \in Workers : v = w \/ proc'[v] = proc[v]
  BY DEF Others
<1> QED
  BY <1>1, <1>2 DEF OneAtATime, At

LEMMA OneStep == ~Overlap /\ TypeOK /\ Held /\ OneAtATime /\ [Next]_vars => OneAtATime'
<1> SUFFICES ASSUME ~Overlap, TypeOK, Held, OneAtATime, [Next]_vars PROVE OneAtATime'
  OBVIOUS
<1>1. ASSUME NEW w \in Pulls, BeginPull(w) PROVE OneAtATime'
  BY <1>1, BeginPullEffect, OneFromOne DEF Workers, Rests
<1>2. ASSUME NEW w \in Workers, NEW l \in Lines, TakeLine(w, l) PROVE OneAtATime'
  BY <1>2, TakeLineEffect, OneFromOne DEF Workers, Rests
<1>3. ASSUME NEW w \in Workers, Reexamine(w) PROVE OneAtATime'
  BY <1>3, ReexamineEffect, OneFromOne DEF Workers, Rests
<1>4. ASSUME NEW w \in Workers, FlagSibling(w) PROVE OneAtATime'
  BY <1>4, FlagSiblingEffect, OneFromOne DEF Workers, Rests
<1>5. ASSUME NEW w \in Workers, FlagOwn(w) PROVE OneAtATime'
  BY <1>5, FlagOwnEffect, OneFromOne DEF Workers, Rests
<1>6. ASSUME NEW w \in Workers, BeginReport(w) PROVE OneAtATime'
  BY <1>6, BeginReportEffect, OneFromOne DEF Workers, Rests
<1>7. ASSUME NEW w \in Clerks, NEW l \in Lines, NEW c \in Codes, NEW a \in BOOLEAN, BeginByHand(w, l, c, a) PROVE OneAtATime'
  BY <1>7, BeginByHandEffect, OneFromOne DEF Workers, Rests
<1>8. ASSUME NEW w \in Workers, NEW t \in proc[w].queue, MarkPaid(w, t) PROVE OneAtATime'
  BY <1>8, MarkPaidEffect, OneFromOne DEF Workers, Rests
<1>9. ASSUME NEW w \in Workers, NEW t \in proc[w].queue, Refuse(w, t) PROVE OneAtATime'
  BY <1>9, RefuseEffect, OneFromOne DEF Workers, Rests
<1>10. ASSUME NEW w \in Workers, NEW t \in proc[w].queue, CloseEntry(w, t) PROVE OneAtATime'
  BY <1>10, CloseEntryEffect, OneFromOne DEF Workers, Rests
<1>11. ASSUME NEW w \in Workers, EndReport(w) \/ Crash(w) PROVE OneAtATime'
  BY <1>11, EndEffect, OneFromOne DEF Workers, Rests
<1>12. ASSUME Around PROVE OneAtATime'
  BY <1>12, AroundEffect DEF OneAtATime, At
<1>13. ASSUME UNCHANGED vars PROVE OneAtATime'
  BY <1>13 DEF vars, OneAtATime, At
<1> QED
  BY <1>1, <1>2, <1>3, <1>4, <1>5, <1>6, <1>7, <1>8, <1>9, <1>10, <1>11, <1>12, <1>13
  DEF Next, Work, ByHand, Workers

LEMMA FreshFromOne ==
  ASSUME OneAtATime', NEW w \in Workers, proc'[w].pc # "idle", FreshBy(w)'
  PROVE  Fresh'
BY DEF OneAtATime, At, Fresh, FreshBy

LEMMA ReexaminedFresh ==
  ASSUME TypeOK, Held, Fresh, NEW w \in Workers, proc[w].pc = "compare",
         entry' = [entry EXCEPT ![proc[w].line] =
                     Saved(proc[w].line, proc[w].row, Reexamined(proc[w].row, proc[w].match))]
  PROVE  /\ proc[w].line \in Lines /\ proc[w].row \in Entries /\ proc[w].match \in MatchResults
         /\ proc[w].row = entry[proc[w].line]
         /\ entry' = [entry EXCEPT ![proc[w].line] = Reexamined(proc[w].row, proc[w].match)]
<1> DEFINE new == Reexamined(proc[w].row, proc[w].match)
<1>1. /\ proc[w].line \in Lines /\ proc[w].row \in Entries /\ proc[w].match \in MatchResults
      /\ proc[w].row = entry[proc[w].line]
  BY DEF Held, HeldBy, Fresh, FreshBy, At
<1>2. new \in Entries
  BY <1>1, ReexaminedType
<1>3. entry' = [entry EXCEPT ![proc[w].line] = Saved(proc[w].line, proc[w].row, new)]
  OBVIOUS
<1> HIDE DEF new
<1>4. Saved(proc[w].line, proc[w].row, new) = new
  BY <1>1, <1>2, SavedWhole
<1> QED
  BY <1>1, <1>3, <1>4 DEF new

LEMMA ClosedFresh ==
  ASSUME TypeOK, Held, Fresh, NEW w \in Workers, NEW t \in proc[w].queue, proc[w].pc = "close",
         entry' = [entry EXCEPT ![t.line] = Saved(t.line, t.row, Closed(t.row, proc[w].returned))]
  PROVE  /\ t.line \in Lines /\ t.row \in Entries /\ proc[w].returned \in Codes
         /\ t.row = entry[t.line] /\ t.row.status # "p"
         /\ entry' = [entry EXCEPT ![t.line] = Closed(t.row, proc[w].returned)]
<1> DEFINE new == Closed(t.row, proc[w].returned)
<1>1. t.line \in Lines /\ t.row \in Entries
  BY QueueType, TaskType
<1>2. proc[w].returned \in Codes
  <2>1. proc[w].returned \in Codes \cup {None}
    BY DEF TypeOK, Locals
  <2> QED
    BY <2>1 DEF Held, HeldBy, At
<1>3. t.row = entry[t.line] /\ t.row.status # "p"
  BY DEF Fresh, FreshBy
<1>4. new \in Entries
  BY <1>1, <1>2, ClosedType
<1>5. entry' = [entry EXCEPT ![t.line] = Saved(t.line, t.row, new)]
  OBVIOUS
<1> HIDE DEF new
<1>6. Saved(t.line, t.row, new) = new
  BY <1>1, <1>3, <1>4, SavedWhole
<1> QED
  BY <1>1, <1>2, <1>3, <1>5, <1>6 DEF new

LEMMA OpenTaskFacts ==
  ASSUME TypeOK, NEW t \in OpenTasks
  PROVE  /\ t.line \in Credits /\ t.row = entry[t.line] /\ t.code = t.row.code /\ t.row.status = "n"
         /\ t = Task(t.line, entry[t.line].code)
<1>1. PICK l \in Credits : entry[l] # None /\ Reportable(l) /\ t = Task(l, entry[l].code)
  BY DEF OpenTasks
<1>2. t.line = l /\ t.row = entry[l] /\ t.code = entry[l].code
  BY <1>1 DEF Task
<1> QED
  BY <1>1, <1>2 DEF Reportable

LEMMA FreshStep == TypeOK /\ Held /\ Fresh /\ OneAtATime' /\ [Next]_vars => Fresh'
<1> SUFFICES ASSUME TypeOK, Held, Fresh, OneAtATime', [Next]_vars PROVE Fresh'
  OBVIOUS
<1>1. ASSUME NEW w \in Pulls, BeginPull(w) PROVE Fresh'
  <2>8. FreshBy(w)'
    BY <1>1, BeginPullEffect DEF FreshBy, Workers
  <2> QED
    BY <1>1, <2>8, BeginPullEffect, FreshFromOne DEF Workers
<1>2. ASSUME NEW w \in Workers, NEW l \in Lines, TakeLine(w, l) PROVE Fresh'
  <2>1. FreshBy(w)' /\ proc'[w].pc # "idle"
    <3>1. \/ proc'[w].pc \in {"record", "flag"}
          \/ proc'[w].pc = "compare" /\ proc'[w].line = l /\ proc'[w].row = entry'[l]
      BY <1>2, TakeLineEffect
    <3> QED
      BY <3>1 DEF FreshBy
  <2> QED
    BY <1>2, <2>1, FreshFromOne
<1>3. ASSUME NEW w \in Workers, Reexamine(w) PROVE Fresh'
  <2>8. FreshBy(w)'
    BY <1>3, ReexamineEffect DEF FreshBy
  <2> QED
    BY <1>3, <2>8, ReexamineEffect, FreshFromOne DEF Workers
<1>4. ASSUME NEW w \in Workers, FlagSibling(w) PROVE Fresh'
  <2>8. FreshBy(w)'
    BY <1>4, FlagSiblingEffect DEF FreshBy
  <2> QED
    BY <1>4, <2>8, FlagSiblingEffect, FreshFromOne DEF Workers
<1>5. ASSUME NEW w \in Workers, FlagOwn(w) PROVE Fresh'
  <2>8. FreshBy(w)'
    BY <1>5, FlagOwnEffect DEF FreshBy
  <2> QED
    BY <1>5, <2>8, FlagOwnEffect, FreshFromOne DEF Workers
<1>6. ASSUME NEW w \in Workers, BeginReport(w) PROVE Fresh'
  <2>1. \A t \in OpenTasks : /\ t.row = entry[t.line] /\ t.row.status # "p"
                             /\ \A s \in OpenTasks : s.line = t.line => s = t
    BY OpenTaskFacts
  <2>8. FreshBy(w)'
    BY <1>6, BeginReportEffect, <2>1 DEF FreshBy
  <2> QED
    BY <1>6, <2>8, BeginReportEffect, FreshFromOne DEF Workers
<1>7. ASSUME NEW w \in Clerks, NEW l \in Lines, NEW c \in Codes, NEW a \in BOOLEAN, BeginByHand(w, l, c, a) PROVE Fresh'
  <2>1. Task(l, c).line = l /\ Task(l, c).row = entry[l]
    BY DEF Task
  <2>8. FreshBy(w)'
    BY <1>7, BeginByHandEffect, <2>1 DEF FreshBy, Workers
  <2> QED
    BY <1>7, <2>8, BeginByHandEffect, FreshFromOne DEF Workers
<1>8. ASSUME NEW w \in Workers, NEW t \in proc[w].queue, MarkPaid(w, t) PROVE Fresh'
  <2>8. FreshBy(w)'
    BY <1>8, MarkPaidEffect DEF FreshBy, Fresh, Keeps
  <2> QED
    BY <1>8, <2>8, MarkPaidEffect, FreshFromOne DEF Workers
<1>9. ASSUME NEW w \in Workers, NEW t \in proc[w].queue, Refuse(w, t) PROVE Fresh'
  <2>8. FreshBy(w)'
    BY <1>9, RefuseEffect DEF FreshBy, Fresh
  <2> QED
    BY <1>9, <2>8, RefuseEffect, FreshFromOne DEF Workers
<1>10. ASSUME NEW w \in Workers, NEW t \in proc[w].queue, CloseEntry(w, t) PROVE Fresh'
  <2>1. proc[w].pc = "close" /\ proc'[w].queue = proc[w].queue \ {t} /\ proc'[w].pc = "report"
    BY <1>10, CloseEntryEffect
  <2>2. entry' = [entry EXCEPT ![t.line] = Closed(t.row, proc[w].returned)]
    BY <1>10, CloseEntryEffect, ClosedFresh
  <2>3. ASSUME NEW s \in proc[w].queue \ {t}
        PROVE  s.row = entry'[s.line]
    <3>1. s.line # t.line /\ s.row = entry[s.line]
      BY <2>1 DEF Fresh, FreshBy
    <3>2. s.line \in Lines
      BY QueueType, TaskType
    <3> QED
      BY <2>2, <3>1, <3>2 DEF TypeOK
  <2>4. FreshBy(w)'
    BY <2>1, <2>3 DEF Fresh, FreshBy
  <2> QED
    BY <1>10, <2>1, <2>4, FreshFromOne
<1>11. ASSUME NEW w \in Workers, EndReport(w) \/ Crash(w) PROVE Fresh'
  BY <1>11, EndEffect DEF Rests, Others, Fresh, FreshBy
<1>12. ASSUME Around PROVE Fresh'
  BY <1>12, AroundEffect DEF Fresh, FreshBy
<1>13. ASSUME UNCHANGED vars PROVE Fresh'
  BY <1>13 DEF vars, Fresh, FreshBy
<1> QED
  BY <1>1, <1>2, <1>3, <1>4, <1>5, <1>6, <1>7, <1>8, <1>9, <1>10, <1>11, <1>12, <1>13
  DEF Next, Work, ByHand, Workers

\* What a step does to an entry that exists: it keeps order and method, or its method is
\* one of the recognition's, or it is paid - and it was not paid, so not by hand, before.
Stands ==
  \A l \in Lines : entry[l] # None /\ entry[l].method = "manual" =>
    entry'[l].method = "manual" /\ entry'[l].code = entry[l].code

LEMMA OneStands ==
  ASSUME TypeOK, ByHandIsPaid, NEW k \in Lines, NEW e \in Entries, entry' = [entry EXCEPT ![k] = e],
         entry[k] # None => entry[k].method # "manual",
         e.method = "manual" => e.status = "p"
  PROVE  Stands /\ ByHandIsPaid'
BY DEF TypeOK, Stands, ByHandIsPaid

LEMMA FlagStands ==
  ASSUME TypeOK, ByHandIsPaid, NEW k \in Lines, entry[k] # None, entry' = [entry EXCEPT ![k].flag = TRUE]
  PROVE  Stands /\ ByHandIsPaid'
<1>1. \A l \in Lines : /\ entry'[l] # None <=> entry[l] # None
                       /\ entry[l] # None => entry'[l].code = entry[l].code
                            /\ entry'[l].method = entry[l].method /\ entry'[l].status = entry[l].status
  BY OneFlagged
<1> QED
  BY <1>1 DEF Stands, ByHandIsPaid

LEMMA HandStep == TypeOK /\ Held /\ Fresh /\ ByHandIsPaid /\ [Next]_vars => (Stands /\ ByHandIsPaid')
<1> SUFFICES ASSUME TypeOK, Held, Fresh, ByHandIsPaid, [Next]_vars PROVE (Stands /\ ByHandIsPaid')
  OBVIOUS
<1>1. ASSUME NEW w \in Pulls, BeginPull(w) PROVE (Stands /\ ByHandIsPaid')
  BY <1>1, BeginPullEffect DEF Stands, ByHandIsPaid, Workers
<1>2. ASSUME NEW w \in Workers, NEW l \in Lines, TakeLine(w, l) PROVE (Stands /\ ByHandIsPaid')
  <2>1. CASE entry' = entry
    BY <2>1 DEF Stands, ByHandIsPaid
  <2>2. ASSUME NEW m \in MatchResults, entry[l] = None, entry' = [entry EXCEPT ![l] = New(m)]
        PROVE  Stands /\ ByHandIsPaid'
    <3>1. New(m) \in Entries /\ New(m).method # "manual"
      BY NewType DEF MatchResults
    <3> QED
      BY <2>2, <3>1, OneStands
  <2> QED
    BY <1>2, <2>1, <2>2, TakeLineEffect
<1>3. ASSUME NEW w \in Workers, Reexamine(w) PROVE (Stands /\ ByHandIsPaid')
  <2>1. CASE entry' = entry
    BY <2>1 DEF Stands, ByHandIsPaid
  <2>2. ASSUME ~LeftAlone(proc[w].row, proc[w].match), proc[w].pc = "compare",
               entry' = [entry EXCEPT ![proc[w].line] =
                           Saved(proc[w].line, proc[w].row, Reexamined(proc[w].row, proc[w].match))]
        PROVE  Stands /\ ByHandIsPaid'
    <3> DEFINE new == Reexamined(proc[w].row, proc[w].match)
    <3>1. /\ proc[w].line \in Lines /\ proc[w].row \in Entries /\ proc[w].match \in MatchResults
          /\ proc[w].row = entry[proc[w].line] /\ entry' = [entry EXCEPT ![proc[w].line] = new]
      BY <2>2, ReexaminedFresh
    <3>2. new \in Entries /\ new.method # "manual"
      BY <3>1, ReexaminedType DEF MatchResults
    <3>3. entry[proc[w].line].method # "manual"
      BY <2>2, <3>1 DEF LeftAlone
    <3> HIDE DEF new
    <3> QED
      BY <3>1, <3>2, <3>3, OneStands
  <2> QED
    BY <1>3, <2>1, <2>2, ReexamineEffect
<1>4. ASSUME NEW w \in Workers, FlagSibling(w) PROVE (Stands /\ ByHandIsPaid')
  <2>1. CASE entry' = entry
    BY <2>1 DEF Stands, ByHandIsPaid
  <2> QED
    BY <1>4, <2>1, FlagSiblingEffect, LineFlagged, FlagStands
<1>5. ASSUME NEW w \in Workers, FlagOwn(w) PROVE (Stands /\ ByHandIsPaid')
  <2>1. proc[w].line \in Lines /\ entry[proc[w].line] # None
    BY <1>5, FlagOwnEffect DEF Held, HeldBy
  <2> QED
    BY <1>5, <2>1, FlagOwnEffect, FlagStands
<1>6. ASSUME NEW w \in Workers, BeginReport(w) PROVE (Stands /\ ByHandIsPaid')
  BY <1>6, BeginReportEffect DEF Stands, ByHandIsPaid, Workers
<1>7. ASSUME NEW w \in Clerks, NEW l \in Lines, NEW c \in Codes, NEW a \in BOOLEAN, BeginByHand(w, l, c, a) PROVE (Stands /\ ByHandIsPaid')
  BY <1>7, BeginByHandEffect DEF Stands, ByHandIsPaid, Workers
<1>8. ASSUME NEW w \in Workers, NEW t \in proc[w].queue, MarkPaid(w, t) PROVE (Stands /\ ByHandIsPaid')
  BY <1>8, MarkPaidEffect DEF Stands, ByHandIsPaid, Workers
<1>9. ASSUME NEW w \in Workers, NEW t \in proc[w].queue, Refuse(w, t) PROVE (Stands /\ ByHandIsPaid')
  BY <1>9, RefuseEffect DEF Stands, ByHandIsPaid, Workers
<1>10. ASSUME NEW w \in Workers, NEW t \in proc[w].queue, CloseEntry(w, t) PROVE (Stands /\ ByHandIsPaid')
  <2> DEFINE new == Closed(t.row, proc[w].returned)
  <2>1. /\ t.line \in Lines /\ t.row \in Entries /\ proc[w].returned \in Codes
        /\ t.row = entry[t.line] /\ t.row.status # "p" /\ entry' = [entry EXCEPT ![t.line] = new]
    BY <1>10, CloseEntryEffect, ClosedFresh
  <2>2. entry[t.line] # None /\ entry[t.line].method # "manual"
    BY <2>1, NoneNoEntry DEF ByHandIsPaid
  <2>3. new \in Entries /\ new.status = "p"
    BY <2>1, ClosedType
  <2> HIDE DEF new
  <2> QED
    BY <2>1, <2>2, <2>3, OneStands
<1>11. ASSUME NEW w \in Workers, EndReport(w) \/ Crash(w) PROVE (Stands /\ ByHandIsPaid')
  BY <1>11, EndEffect DEF Stands, ByHandIsPaid, Workers
<1>12. ASSUME Around PROVE (Stands /\ ByHandIsPaid')
  BY <1>12, AroundEffect DEF Stands, ByHandIsPaid, Workers
<1>13. ASSUME UNCHANGED vars PROVE (Stands /\ ByHandIsPaid')
  BY <1>13 DEF vars, Stands, ByHandIsPaid
<1> QED
  BY <1>1, <1>2, <1>3, <1>4, <1>5, <1>6, <1>7, <1>8, <1>9, <1>10, <1>11, <1>12, <1>13
  DEF Next, Work, ByHand, Workers

LEMMA InitInTurns == Init => InTurns
BY DEF Init, InTurns, OneAtATime, Fresh, FreshBy, ByHandIsPaid, At, Idle

\* Together with the inductive invariant, the turns hold as long as nothing overlaps.
THEOREM TurnsInductive == ASSUME ~Overlap PROVE Spec => [](IInv /\ InTurns)
<1>1. IInv /\ InTurns /\ [Next]_vars => (IInv /\ InTurns)'
  <2> SUFFICES ASSUME IInv, InTurns, [Next]_vars PROVE (IInv /\ InTurns)'
    OBVIOUS
  <2>1. IInv'
    BY TypeStep, CodesStep, HeldStep, PlainStep DEF IInv
  <2>2. OneAtATime'
    BY OneStep DEF IInv, InTurns
  <2> QED
    BY <2>1, <2>2, FreshStep, HandStep DEF IInv, InTurns
<1> QED
  BY <1>1, InitIInv, InitInTurns, PTL DEF Spec

\* A hand assignment outranks the recognition: when pulls and people take turns, no step
\* takes an entry off the order a person has put it on, even if processes die.
THEOREM HandOutranks == ASSUME ~Overlap PROVE Spec => HandAssignmentStands
<1>1. IInv /\ InTurns /\ [Next]_vars => [Stands]_vars
  BY HandStep DEF IInv, InTurns
<1>2. Spec => [][Stands]_vars
  BY <1>1, TurnsInductive, PTL DEF Spec
<1> QED
  BY <1>2 DEF HandAssignmentStands, Stands

(***************************************************************************)
(* One pull at a time: both entries of a pair are marked.                  *)
(***************************************************************************)

\* No second pull, nobody at the button, no crash, and no line that fits two orders.
Undisturbed == ~Overlap /\ ~Crashes /\ Clerks = {} /\ \A l \in Lines : \A c, d \in Fit[l] : c = d

\* The code a pull carries is the code of the entry, and what mark() returns names it.
CarriesBy(w) ==
  /\ proc[w].pc = "flag" => proc[w].row.code = entry[proc[w].line].code
  /\ proc[w].pc \in {"report", "close"} => \A t \in proc[w].queue : t.code = t.row.code
  /\ proc[w].pc = "close" => \A t \in proc[w].queue : t.line = proc[w].line => proc[w].returned = t.code
Carries ==
  /\ \A w \in Workers : CarriesBy(w)
  /\ \A l \in Lines : last[l] # None => last[l] \in Fit[l]

\* Of two credits on one order each is marked, or the pull that wrote one of them is about
\* to mark it: both at first, then only its own.
Pending(l, k) ==
  \E w \in Workers : \/ proc[w].pc \in {"flag", "flagown"} /\ proc[w].line = l
                     \/ proc[w].pc = "flag" /\ proc[w].line = k
Pair(l, k) ==
  /\ entry[l] # None /\ entry[k] # None /\ l # k
  /\ entry[l].code # None /\ entry[l].code = entry[k].code
PairsMarked == \A l, k \in Credits : Pair(l, k) => entry[l].flag \/ Pending(l, k)

LEMMA CarriesFromOne ==
  ASSUME OneAtATime', NEW w \in Workers, proc'[w].pc # "idle", CarriesBy(w)',
         \A l \in Lines : last'[l] # None => last'[l] \in Fit[l]
  PROVE  Carries'
BY DEF OneAtATime, At, Carries, CarriesBy

LEMMA CarriesStep == Undisturbed /\ TypeOK /\ Held /\ Fresh /\ OneAtATime' /\ Carries /\ [Next]_vars => Carries'
<1> SUFFICES ASSUME Undisturbed, TypeOK, Held, Fresh, OneAtATime', Carries, [Next]_vars PROVE Carries'
  OBVIOUS
<1>1. ASSUME NEW w \in Pulls, BeginPull(w) PROVE Carries'
  <2>8. CarriesBy(w)' /\ proc'[w].pc # "idle" /\ last' = last
    BY <1>1, BeginPullEffect DEF CarriesBy, Workers
  <2> QED
    BY <1>1, <2>8, CarriesFromOne DEF Carries, Workers
<1>2. ASSUME NEW w \in Workers, NEW l \in Lines, TakeLine(w, l) PROVE Carries'
  <2>1. CarriesBy(w)' /\ proc'[w].pc # "idle"
    <3>1. \/ proc'[w].pc \in {"record", "compare"}
          \/ \E m \in MatchResults :
               /\ entry[l] = None /\ entry' = [entry EXCEPT ![l] = New(m)]
               /\ proc'[w].pc = "flag" /\ proc'[w].line = l /\ proc'[w].row = New(m)
      BY <1>2, TakeLineEffect
    <3> QED
      BY <3>1 DEF CarriesBy, TypeOK
  <2> QED
    BY <1>2, <2>1, TakeLineEffect, CarriesFromOne DEF Carries
<1>3. ASSUME NEW w \in Workers, Reexamine(w) PROVE Carries'
  <2>1. CarriesBy(w)' /\ proc'[w].pc # "idle"
    <3>1. ASSUME proc'[w].pc = "record" PROVE CarriesBy(w)' /\ proc'[w].pc # "idle"
      BY <3>1 DEF CarriesBy
    <3>2. ASSUME ~LeftAlone(proc[w].row, proc[w].match)
          PROVE  CarriesBy(w)' /\ proc'[w].pc # "idle"
      <4> DEFINE new == Reexamined(proc[w].row, proc[w].match)
      <4>1. /\ proc[w].line \in Lines /\ entry' = [entry EXCEPT ![proc[w].line] = new]
        BY <1>3, <3>2, ReexamineEffect, ReexaminedFresh
      <4>2. proc'[w].pc = "flag" /\ proc'[w].line = proc[w].line /\ proc'[w].row = new
        BY <1>3, <3>2, ReexamineEffect
      <4> HIDE DEF new
      <4> QED
        BY <4>1, <4>2 DEF CarriesBy, TypeOK
    <3> QED
      BY <1>3, <3>1, <3>2, ReexamineEffect
  <2> QED
    BY <1>3, <2>1, ReexamineEffect, CarriesFromOne DEF Carries
<1>4. ASSUME NEW w \in Workers, FlagSibling(w) PROVE Carries'
  <2>8. CarriesBy(w)' /\ proc'[w].pc # "idle" /\ last' = last
    BY <1>4, FlagSiblingEffect DEF CarriesBy
  <2> QED
    BY <1>4, <2>8, CarriesFromOne DEF Carries, Workers
<1>5. ASSUME NEW w \in Workers, FlagOwn(w) PROVE Carries'
  <2>8. CarriesBy(w)' /\ proc'[w].pc # "idle" /\ last' = last
    BY <1>5, FlagOwnEffect DEF CarriesBy
  <2> QED
    BY <1>5, <2>8, CarriesFromOne DEF Carries, Workers
<1>6. ASSUME NEW w \in Workers, BeginReport(w) PROVE Carries'
  <2>1. \A t \in OpenTasks : t.code = t.row.code
    BY OpenTaskFacts
  <2>8. CarriesBy(w)' /\ proc'[w].pc # "idle" /\ last' = last
    BY <1>6, BeginReportEffect, <2>1 DEF CarriesBy
  <2> QED
    BY <1>6, <2>8, CarriesFromOne DEF Carries, Workers
<1>7. ASSUME NEW w \in Clerks, NEW l \in Lines, NEW c \in Codes, NEW a \in BOOLEAN, BeginByHand(w, l, c, a) PROVE Carries'
  BY <1>7 DEF Undisturbed
<1>8. ASSUME NEW w \in Workers, NEW t \in proc[w].queue, MarkPaid(w, t) PROVE Carries'
  <2>1. /\ t \in Tasks /\ t.line \in Lines /\ t.code \in Fit[t.line] /\ t.code # None
    <3>1. t \in Tasks /\ Allowed(w, t)
      BY <1>8, MarkPaidEffect
    <3>2. Automatic(w)
      BY DEF Undisturbed, Workers, Automatic
    <3> QED
      BY <3>1, <3>2, TaskType DEF Allowed
  <2>2. proc'[w].returned = t.code
    <3>1. last[t.line] # None => last[t.line] = t.code
      BY <2>1 DEF Carries, Undisturbed
    <3> QED
      BY <1>8, <2>1, <3>1, MarkPaidEffect DEF Repeats
  <2>3. \A l \in Lines : last'[l] # None => last'[l] \in Fit[l]
    BY <1>8, <2>1, MarkPaidEffect DEF Carries, TypeOK
  <2>4. \A s \in proc[w].queue : s.line = t.line => s = t
    BY <1>8, MarkPaidEffect DEF Fresh, FreshBy
  <2>5. CarriesBy(w)' /\ proc'[w].pc # "idle"
    BY <1>8, <2>2, <2>4, MarkPaidEffect DEF Carries, CarriesBy, Keeps
  <2> QED
    BY <2>3, <2>5, CarriesFromOne
<1>9. ASSUME NEW w \in Workers, NEW t \in proc[w].queue, Refuse(w, t) PROVE Carries'
  <2>1. \A l \in Lines : last'[l] # None => last'[l] \in Fit[l]
    BY <1>9, RefuseEffect, TaskType DEF Carries, TypeOK
  <2>2. CarriesBy(w)' /\ proc'[w].pc # "idle"
    BY <1>9, RefuseEffect DEF Carries, CarriesBy
  <2> QED
    BY <2>1, <2>2, CarriesFromOne
<1>10. ASSUME NEW w \in Workers, NEW t \in proc[w].queue, CloseEntry(w, t) PROVE Carries'
  <2>8. CarriesBy(w)' /\ proc'[w].pc # "idle" /\ last' = last
    BY <1>10, CloseEntryEffect DEF CarriesBy, Carries
  <2> QED
    BY <1>10, <2>8, CarriesFromOne DEF Carries, Workers
<1>11. ASSUME NEW w \in Workers, EndReport(w) \/ Crash(w) PROVE Carries'
  BY <1>11, EndEffect DEF Rests, Others, Carries, CarriesBy
<1>12. ASSUME Around PROVE Carries'
  BY <1>12, AroundEffect DEF Carries, CarriesBy
<1>13. ASSUME UNCHANGED vars PROVE Carries'
  BY <1>13 DEF vars, Carries, CarriesBy
<1> QED
  BY <1>1, <1>2, <1>3, <1>4, <1>5, <1>6, <1>7, <1>8, <1>9, <1>10, <1>11, <1>12, <1>13
  DEF Next, Work, ByHand, Workers

KeepsMarks ==
  \A l \in Lines : /\ entry'[l] # None <=> entry[l] # None
                   /\ entry[l] # None => entry'[l].code = entry[l].code /\ (entry[l].flag => entry'[l].flag)

LEMMA SameMarks ==
  ASSUME TypeOK, PairsMarked, NEW w \in Workers, Others(w), proc[w].pc \notin {"flag", "flagown"},
         KeepsMarks
  PROVE  PairsMarked'
<1>1. ASSUME NEW l \in Credits, NEW k \in Credits, Pair(l, k)'
      PROVE  entry'[l].flag \/ Pending(l, k)'
  <2>1. Pair(l, k) /\ l \in Lines /\ (entry[l].flag => entry'[l].flag)
    BY <1>1, JournalAssumption DEF Pair, KeepsMarks
  <2>2. Pending(l, k) => Pending(l, k)'
    BY DEF Pending, Others
  <2> QED
    BY <2>1, <2>2 DEF PairsMarked
<1> QED
  BY <1>1 DEF PairsMarked

LEMMA UnderWay ==
  ASSUME TypeOK, PairsMarked, NEW w \in Workers, Others(w), proc[w].pc \notin {"flag", "flagown"},
         NEW a \in Lines, NEW e, entry' = [entry EXCEPT ![a] = e], proc'[w].pc = "flag", proc'[w].line = a
  PROVE  PairsMarked'
<1>1. ASSUME NEW l \in Credits, NEW k \in Credits, Pair(l, k)'
      PROVE  entry'[l].flag \/ Pending(l, k)'
  <2>1. CASE l = a \/ k = a
    BY <2>1 DEF Pending
  <2>2. CASE l # a /\ k # a
    <3>1. Pair(l, k) /\ entry'[l] = entry[l]
      BY <1>1, <2>2, JournalAssumption DEF Pair, TypeOK
    <3>2. Pending(l, k) => Pending(l, k)'
      BY DEF Pending, Others
    <3> QED
      BY <3>1, <3>2 DEF PairsMarked
  <2> QED
    BY <2>1, <2>2
<1> QED
  BY <1>1 DEF PairsMarked

\* Alone, a pull that is marking is the only reason for an unmarked entry.
LEMMA OnlyPending ==
  ASSUME OneAtATime, NEW w \in Workers, proc[w].pc \in {"flag", "flagown"}, NEW l, NEW k, Pending(l, k)
  PROVE  l = proc[w].line \/ (proc[w].pc = "flag" /\ k = proc[w].line)
BY DEF OneAtATime, At, Pending

LEMMA PairsStep == Undisturbed /\ TypeOK /\ Held /\ OneAtATime /\ Fresh /\ Carries /\ PairsMarked /\ [Next]_vars => PairsMarked'
<1> SUFFICES ASSUME Undisturbed, TypeOK, Held, OneAtATime, Fresh, Carries, PairsMarked, [Next]_vars PROVE PairsMarked'
  OBVIOUS
<1>1. ASSUME NEW w \in Pulls, BeginPull(w) PROVE PairsMarked'
  <2>1. /\ proc[w].pc \notin {"flag", "flagown"} /\ Others(w) /\ UNCHANGED entry
    BY <1>1, BeginPullEffect DEF Workers, MayBegin, At
  <2> QED
    BY <2>1, SameMarks DEF Workers, KeepsMarks
<1>2. ASSUME NEW w \in Workers, NEW l \in Lines, TakeLine(w, l) PROVE PairsMarked'
  <2>1. proc[w].pc \notin {"flag", "flagown"} /\ Others(w)
    BY <1>2, TakeLineEffect
  <2>2. CASE entry' = entry
    BY <2>1, <2>2, SameMarks DEF KeepsMarks
  <2>3. ASSUME NEW m \in MatchResults, entry' = [entry EXCEPT ![l] = New(m)],
               proc'[w].pc = "flag", proc'[w].line = l
        PROVE  PairsMarked'
    BY <2>1, <2>3, UnderWay
  <2>4. \/ entry' = entry
        \/ \E m \in MatchResults : /\ entry' = [entry EXCEPT ![l] = New(m)]
                                  /\ proc'[w].pc = "flag" /\ proc'[w].line = l
    BY <1>2, TakeLineEffect
  <2> QED
    BY <2>2, <2>3, <2>4
<1>3. ASSUME NEW w \in Workers, Reexamine(w) PROVE PairsMarked'
  <2>1. proc[w].pc \notin {"flag", "flagown"} /\ Others(w)
    BY <1>3, ReexamineEffect
  <2>2. CASE entry' = entry
    BY <2>1, <2>2, SameMarks DEF KeepsMarks
  <2>3. proc[w].line \in Lines
    BY <1>3, ReexamineEffect DEF Held, HeldBy
  <2> QED
    BY <1>3, <2>1, <2>2, <2>3, ReexamineEffect, UnderWay
<1>4. ASSUME NEW w \in Workers, FlagSibling(w) PROVE PairsMarked'
  <2> DEFINE p == proc[w]
  <2>1. /\ p.pc = "flag" /\ p.line \in Lines /\ p.row.code = entry[p.line].code
    BY <1>4, FlagSiblingEffect DEF Held, HeldBy, Carries, CarriesBy
  <2>2. ASSUME NEW k \in Siblings(p.line, p.row.code), Collides(p.line, p.row),
               entry' = [entry EXCEPT ![k].flag = TRUE], proc'[w].pc = "flagown", proc'[w].line = p.line
        PROVE  PairsMarked'
    <3>1. k \in Lines /\ entry[k] # None /\ k # p.line /\ k \in Credits /\ entry[k].code = p.row.code
      BY LineFlagged
    <3>2. /\ entry'[k].flag
          /\ \A l \in Lines : /\ entry'[l] # None <=> entry[l] # None
                              /\ entry[l] # None => entry'[l].code = entry[l].code /\ (entry[l].flag => entry'[l].flag)
      BY <2>2, <3>1, OneFlagged
    <3>3. ASSUME NEW a \in Credits, NEW b \in Credits, Pair(a, b)'
          PROVE  entry'[a].flag \/ Pending(a, b)'
      <4>1. Pair(a, b) /\ a \in Lines /\ b \in Lines /\ (entry[a].flag => entry'[a].flag)
        BY <3>2, <3>3, JournalAssumption DEF Pair
      <4>2. CASE a = p.line
        BY <2>2, <4>2 DEF Pending
      <4>3. CASE a = k
        BY <3>2, <4>3
      <4>4. CASE a # p.line /\ a # k /\ b = p.line
        <5>1. Pair(a, k)
          BY <2>1, <3>1, <4>1, <4>4 DEF Pair
        <5>2. ~Pending(a, k)
          BY <2>1, <3>1, <4>4, OnlyPending
        <5> QED
          BY <3>1, <4>1, <5>1, <5>2 DEF PairsMarked
      <4>5. CASE a # p.line /\ b # p.line
        <5>1. ~Pending(a, b)
          BY <2>1, <4>5, OnlyPending
        <5> QED
          BY <4>1, <5>1 DEF PairsMarked
      <4> QED
        BY <4>2, <4>3, <4>4, <4>5
    <3> QED
      BY <3>3 DEF PairsMarked
  <2>3. ASSUME ~Collides(p.line, p.row), entry' = entry
        PROVE  PairsMarked'
    <3>1. ASSUME NEW a \in Credits, NEW b \in Credits, Pair(a, b)
          PROVE  entry[a].flag
      <4>1. a # p.line
        BY <2>1, <2>3, <3>1 DEF Collides, Siblings, Pair
      <4>2. b # p.line
        BY <2>1, <2>3, <3>1 DEF Collides, Siblings, Pair
      <4>3. ~Pending(a, b)
        BY <2>1, <4>1, <4>2, OnlyPending
      <4> QED
        BY <3>1, <4>3 DEF PairsMarked
    <3> QED
      BY <2>3, <3>1 DEF PairsMarked, Pair
  <2> QED
    BY <1>4, <2>2, <2>3, FlagSiblingEffect
<1>5. ASSUME NEW w \in Workers, FlagOwn(w) PROVE PairsMarked'
  <2> DEFINE p == proc[w]
  <2>1. /\ p.pc = "flagown" /\ p.line \in Lines /\ entry[p.line] # None
        /\ entry' = [entry EXCEPT ![p.line].flag = TRUE]
    BY <1>5, FlagOwnEffect DEF Held, HeldBy
  <2>2. /\ entry'[p.line].flag
        /\ \A l \in Lines : /\ entry'[l] # None <=> entry[l] # None
                            /\ entry[l] # None => entry'[l].code = entry[l].code /\ (entry[l].flag => entry'[l].flag)
    BY <2>1, OneFlagged
  <2>3. ASSUME NEW a \in Credits, NEW b \in Credits, Pair(a, b)'
        PROVE  entry'[a].flag
    <3>1. Pair(a, b) /\ a \in Lines /\ (entry[a].flag => entry'[a].flag)
      BY <2>2, <2>3, JournalAssumption DEF Pair
    <3>2. CASE a = p.line
      BY <2>2, <3>2
    <3>3. CASE a # p.line
      <4>1. ~Pending(a, b)
        BY <2>1, <3>3, OnlyPending
      <4> QED
        BY <3>1, <4>1 DEF PairsMarked
    <3> QED
      BY <3>2, <3>3
  <2> QED
    BY <2>3 DEF PairsMarked
<1>6. ASSUME NEW w \in Workers, BeginReport(w) PROVE PairsMarked'
  <2>1. /\ proc[w].pc \notin {"flag", "flagown"} /\ Others(w) /\ UNCHANGED entry
    BY <1>6, BeginReportEffect
  <2> QED
    BY <2>1, SameMarks DEF Workers, KeepsMarks
<1>7. ASSUME NEW w \in Clerks, NEW l \in Lines, NEW c \in Codes, NEW a \in BOOLEAN, BeginByHand(w, l, c, a) PROVE PairsMarked'
  BY <1>7 DEF Undisturbed
<1>8. ASSUME NEW w \in Workers, NEW t \in proc[w].queue, MarkPaid(w, t) PROVE PairsMarked'
  <2>1. /\ proc[w].pc \notin {"flag", "flagown"} /\ Others(w) /\ UNCHANGED entry
    BY <1>8, MarkPaidEffect
  <2> QED
    BY <2>1, SameMarks DEF Workers, KeepsMarks
<1>9. ASSUME NEW w \in Workers, NEW t \in proc[w].queue, Refuse(w, t) PROVE PairsMarked'
  <2>1. /\ proc[w].pc \notin {"flag", "flagown"} /\ Others(w) /\ UNCHANGED entry
    BY <1>9, RefuseEffect
  <2> QED
    BY <2>1, SameMarks DEF Workers, KeepsMarks
<1>10. ASSUME NEW w \in Workers, NEW t \in proc[w].queue, CloseEntry(w, t) PROVE PairsMarked'
  <2> DEFINE new == Closed(t.row, proc[w].returned)
  <2>1. proc[w].pc = "close" /\ Others(w) /\ t.line = proc[w].line
    BY <1>10, CloseEntryEffect
  <2>2. /\ t.line \in Lines /\ t.row \in Entries /\ proc[w].returned \in Codes
        /\ t.row = entry[t.line] /\ entry' = [entry EXCEPT ![t.line] = new]
    BY <1>10, CloseEntryEffect, ClosedFresh
  <2>3. new.code = entry[t.line].code /\ new.flag = entry[t.line].flag /\ new \in Entries
    <3>1. new.code = proc[w].returned /\ new.flag = t.row.flag /\ new \in Entries
      BY <2>2, ClosedType
    <3>2. proc[w].returned = t.row.code
      BY <2>1 DEF Carries, CarriesBy
    <3> QED
      BY <2>2, <3>1, <3>2
  <2> HIDE DEF new
  <2>4. KeepsMarks
    BY <2>2, <2>3, NoneNoEntry DEF TypeOK, KeepsMarks
  <2>5. proc[w].pc \notin {"flag", "flagown"} /\ Others(w)
    BY <2>1
  <2> QED
    BY <2>4, <2>5, SameMarks
<1>11. ASSUME NEW w \in Workers, EndReport(w) \/ Crash(w) PROVE PairsMarked'
  <2>1. /\ proc[w].pc \notin {"flag", "flagown"} /\ Others(w) /\ UNCHANGED entry
    <3>1. proc[w].pc = "report"
      BY <1>11 DEF EndReport, Crash, Undisturbed, At
    <3> QED
      BY <1>11, <3>1, EndEffect
  <2> QED
    BY <2>1, SameMarks DEF KeepsMarks
<1>12. ASSUME Around PROVE PairsMarked'
  BY <1>12, AroundEffect DEF PairsMarked, Pair, Pending
<1>13. ASSUME UNCHANGED vars PROVE PairsMarked'
  BY <1>13 DEF vars, PairsMarked, Pair, Pending
<1> QED
  BY <1>1, <1>2, <1>3, <1>4, <1>5, <1>6, <1>7, <1>8, <1>9, <1>10, <1>11, <1>12, <1>13
  DEF Next, Work, ByHand, Workers

\* Both entries get marked (flagSecondCredit()): one pull at a time, nobody at the button,
\* nobody who dies and no line that fits two orders - however many lines name one order,
\* and however often they are recognised anew.
THEOREM DoublesMarked == ASSUME Undisturbed PROVE Spec => []DoublesAreMarked
<1> DEFINE J == IInv /\ InTurns /\ Carries /\ PairsMarked
<1>1. Init => J
  <2>1. Init => Carries /\ PairsMarked
    BY JournalAssumption DEF Init, Carries, CarriesBy, PairsMarked, Pair, Idle
  <2> QED
    BY <2>1, InitIInv, InitInTurns
<1>2. J /\ [Next]_vars => J'
  <2> SUFFICES ASSUME J, [Next]_vars PROVE J'
    OBVIOUS
  <2>1. IInv' /\ OneAtATime'
    BY TypeStep, CodesStep, HeldStep, PlainStep, OneStep DEF IInv, InTurns, Undisturbed
  <2>2. InTurns'
    BY <2>1, FreshStep, HandStep DEF IInv, InTurns
  <2> QED
    BY <2>1, <2>2, CarriesStep, PairsStep DEF IInv, InTurns
<1>3. J => DoublesAreMarked
  BY DEF PairsMarked, Pair, Pending, DoublesAreMarked, Settled, At
<1> QED
  BY <1>1, <1>2, <1>3, PTL DEF Spec

(***************************************************************************)
(* In turns: what is shown as paid is paid.                                *)
(***************************************************************************)

\* pretix takes no payment back.
NoReversal == \A x \in Changes : x[1] # "p"
PaidStays == \A c \in Codes : orders[c] = "p" => orders'[c] = "p"

\* Entries, recognitions and the orders a pull has loaded may say "paid" of paid orders only;
\* the code mark() returned, and the one of the latest record about a line, is of such an order.
PaidSays(e) == e.status = "p" => e.code # None /\ orders[e.code] = "p"
Reading == {"record", "compare", "flag", "flagown"}
PaidBy(w) ==
  /\ proc[w].pc \in Reading => \A c \in Codes : proc[w].known[c] = "p" => orders[c] = "p"
  /\ proc[w].pc = "compare" =>
       PaidSays(proc[w].match) /\ (proc[w].match.code = None <=> proc[w].match.status = None)
  /\ proc[w].pc = "close" => orders[proc[w].returned] = "p"
LastPaid == \A l \in Lines : last[l] # None => orders[last[l]] = "p"
PaidInv == ShownPaidIsPaid /\ LastPaid /\ \A w \in Workers : PaidBy(w)

LEMMA PaidStep == TypeOK /\ NoReversal /\ [Next]_vars => PaidStays
<1> SUFFICES ASSUME TypeOK, NoReversal, [Next]_vars PROVE PaidStays
  OBVIOUS
<1>1. ASSUME UNCHANGED orders PROVE PaidStays
  BY <1>1 DEF PaidStays
<1>2. ASSUME NEW w \in Workers, NEW t, MarkPaid(w, t) PROVE PaidStays
  BY <1>2 DEF MarkPaid, PaidStays, TypeOK
<1>3. ASSUME NEW c \in Codes, ImportOrder(c) PROVE PaidStays
  <2>1. PICK s \in Statuses : <<orders[c], s>> \in Changes /\ orders' = [orders EXCEPT ![c] = s]
    BY <1>3 DEF ImportOrder
  <2>2. orders[c] # "p"
    BY <2>1 DEF NoReversal
  <2> QED
    BY <2>1, <2>2 DEF PaidStays, TypeOK
<1>4. ASSUME NEW l \in Lines, Deliver(l) \/ Expire(l) PROVE PaidStays
  BY <1>1, <1>4 DEF Deliver, Expire, orderVars
<1>5. ASSUME NEW w \in Workers,
             \/ BeginPull(w) \/ BeginReport(w) \/ EndReport(w) \/ Crash(w) \/ Reexamine(w)
             \/ FlagSibling(w) \/ FlagOwn(w)
             \/ \E l \in Lines : TakeLine(w, l)
             \/ \E t \in proc[w].queue : Refuse(w, t) \/ CloseEntry(w, t)
             \/ ByHand(w)
      PROVE  PaidStays
  BY <1>1, <1>5 DEF BeginPull, BeginReport, EndReport, Crash, Reexamine, FlagSibling, FlagOwn,
     TakeLine, Refuse, CloseEntry, ByHand, BeginByHand, orderVars
<1>6. CASE UNCHANGED vars
  BY <1>1, <1>6 DEF vars
<1> QED
  BY <1>2, <1>3, <1>4, <1>5, <1>6 DEF Next, Work, Around, Workers

\* What a process knows of paid orders stays true while others work.
LEMMA PaidByStands ==
  ASSUME TypeOK, Held, PaidStays, NEW w \in Workers, PaidBy(w), proc'[w] = proc[w]
  PROVE  PaidBy(w)'
<1>1. proc[w].pc = "close" => proc[w].returned \in Codes
  BY DEF TypeOK, Locals, Held, HeldBy, At
<1>2. proc[w].pc = "compare" => proc[w].match \in MatchResults
  BY DEF Held, HeldBy, At
<1> QED
  BY <1>1, <1>2 DEF PaidBy, PaidStays, PaidSays, MatchResults

LEMMA EntryPaidStands ==
  ASSUME TypeOK, PaidStays, ShownPaidIsPaid, NEW l \in Lines, entry[l] # None, entry[l].status = "p"
  PROVE  entry[l].code # None /\ orders'[entry[l].code] = "p"
BY DEF TypeOK, PaidStays, ShownPaidIsPaid, Entries

\* A step that writes at most the mark, or one entry that tells the truth.
LEMMA EntriesPaid ==
  ASSUME TypeOK, PaidStays, ShownPaidIsPaid,
         \/ UNCHANGED entry
         \/ \E k \in Lines : entry[k] # None /\ entry' = [entry EXCEPT ![k].flag = TRUE]
         \/ \E k \in Lines, e \in Entries :
              /\ entry' = [entry EXCEPT ![k] = e]
              /\ e.status = "p" => e.code # None /\ orders'[e.code] = "p"
  PROVE  ShownPaidIsPaid'
<1>1. CASE UNCHANGED entry
  BY <1>1, EntryPaidStands DEF ShownPaidIsPaid
<1>2. CASE \E k \in Lines : entry[k] # None /\ entry' = [entry EXCEPT ![k].flag = TRUE]
  <2>1. \A l \in Lines : /\ entry'[l] # None <=> entry[l] # None
                         /\ entry[l] # None => entry'[l].code = entry[l].code
                              /\ entry'[l].status = entry[l].status
    BY <1>2, OneFlagged
  <2> QED
    BY <2>1, EntryPaidStands DEF ShownPaidIsPaid
<1>3. CASE \E k \in Lines, e \in Entries :
              /\ entry' = [entry EXCEPT ![k] = e]
              /\ e.status = "p" => e.code # None /\ orders'[e.code] = "p"
  <2>1. PICK k \in Lines, e \in Entries :
              /\ entry' = [entry EXCEPT ![k] = e]
              /\ e.status = "p" => e.code # None /\ orders'[e.code] = "p"
    BY <1>3
  <2>2. entry'[k] = e /\ \A l \in Lines : l # k => entry'[l] = entry[l]
    BY <2>1 DEF TypeOK
  <2> QED
    BY <2>1, <2>2, EntryPaidStands DEF ShownPaidIsPaid
<1> QED
  BY <1>1, <1>2, <1>3

\* A recognition takes the status from the orders the pull has loaded, with the code.
LEMMA MatchPaid ==
  ASSUME NEW w \in Workers, PaidBy(w), proc[w].pc = "record", NEW l \in Lines,
         NEW m \in Matches(l, proc[w].known)
  PROVE  PaidSays(m) /\ (m.code = None <=> m.status = None)
<1> DEFINE k == proc[w].known
<1>1. \A c \in Codes : k[c] = "p" => orders[c] = "p"
  BY DEF PaidBy, Reading
<1>2. CASE m.method \in {"exact", "normalised"} /\ m.code \in Best(l, m.method, k) /\ m.status = k[m.code]
  <2>0. m.method \in Stages
    BY <1>2 DEF Stages, Before
  <2>1. m.code \in Codes /\ k[m.code] # None
    BY <1>2, <2>0, JournalAssumption DEF Best, Hits
  <2> QED
    BY <1>1, <1>2, <2>1, NoneApart DEF PaidSays
<1>3. CASE m.code = None /\ m.status = None
  BY <1>3, NoneApart DEF PaidSays, Statuses
<1> QED
  BY <1>2, <1>3 DEF Matches

\* The orders stay loaded while the pull records.
LEMMA KnownStays ==
  ASSUME TypeOK, NEW w \in Workers,
         (\E l \in Lines : TakeLine(w, l)) \/ Reexamine(w) \/ FlagSibling(w) \/ FlagOwn(w)
  PROVE  proc'[w].known = proc[w].known
<1>1. proc[w] \in Locals
  BY DEF TypeOK
<1>2. \A s : Become(w, s) => proc'[w] = s
  BY Becomes
<1>3. ASSUME NEW l \in Lines, TakeLine(w, l) PROVE proc'[w].known = proc[w].known
  <2> DEFINE q == [proc[w] EXCEPT !.todo = @ \ {l}]
  <2>1. q.known = proc[w].known /\ q \in Locals
    BY <1>1 DEF Locals
  <2> HIDE DEF q
  <2>2. PICK m : \/ Become(w, q)
                 \/ Become(w, [q EXCEPT !.pc = "flag", !.line = l, !.row = New(m)])
                 \/ Become(w, [q EXCEPT !.pc = "compare", !.line = l, !.row = entry[l], !.match = m])
    BY <1>3 DEF TakeLine, q
  <2>3. /\ [q EXCEPT !.pc = "flag", !.line = l, !.row = New(m)].known = q.known
        /\ [q EXCEPT !.pc = "compare", !.line = l, !.row = entry[l], !.match = m].known = q.known
    BY <2>1 DEF Locals
  <2> QED
    BY <1>2, <2>1, <2>2, <2>3
<1>4. ASSUME Reexamine(w) PROVE proc'[w].known = proc[w].known
  <2>1. PICK new : \/ Become(w, [proc[w] EXCEPT !.pc = "record", !.line = None, !.row = None, !.match = None])
                   \/ Become(w, [proc[w] EXCEPT !.pc = "flag", !.row = new, !.match = None])
    BY <1>4 DEF Reexamine
  <2>2. /\ [proc[w] EXCEPT !.pc = "record", !.line = None, !.row = None, !.match = None].known = proc[w].known
        /\ [proc[w] EXCEPT !.pc = "flag", !.row = new, !.match = None].known = proc[w].known
    BY <1>1 DEF Locals
  <2> QED
    BY <1>2, <2>1, <2>2
<1>5. ASSUME FlagSibling(w) PROVE proc'[w].known = proc[w].known
  <2>1. \/ Become(w, [proc[w] EXCEPT !.pc = "flagown", !.row = None])
        \/ Become(w, [proc[w] EXCEPT !.pc = "record", !.line = None, !.row = None])
    BY <1>5 DEF FlagSibling
  <2>2. /\ [proc[w] EXCEPT !.pc = "flagown", !.row = None].known = proc[w].known
        /\ [proc[w] EXCEPT !.pc = "record", !.line = None, !.row = None].known = proc[w].known
    BY <1>1 DEF Locals
  <2> QED
    BY <1>2, <2>1, <2>2
<1>6. ASSUME FlagOwn(w) PROVE proc'[w].known = proc[w].known
  <2>1. [proc[w] EXCEPT !.pc = "record", !.line = None].known = proc[w].known
    BY <1>1 DEF Locals
  <2> QED
    BY <1>2, <1>6, <2>1 DEF FlagOwn
<1> QED
  BY <1>3, <1>4, <1>5, <1>6

LEMMA TakePaid ==
  ASSUME TypeOK, Held, PaidStays, PaidInv, UNCHANGED orders, NEW w \in Workers, NEW l \in Lines,
         TakeLine(w, l)
  PROVE  ShownPaidIsPaid' /\ PaidBy(w)'
<1>1. /\ proc[w].pc = "record" /\ PaidBy(w) /\ proc'[w].known = proc[w].known
  BY TakeLineEffect, KnownStays DEF PaidInv
<1>2. \A c \in Codes : proc'[w].known[c] = "p" => orders'[c] = "p"
  BY <1>1 DEF PaidBy, Reading
<1>3. CASE proc'[w].pc = "record" /\ UNCHANGED entry
  BY <1>2, <1>3, EntriesPaid DEF PaidBy, Reading, PaidInv
<1>4. ASSUME NEW m \in MatchResults, m \in Matches(l, proc[w].known),
             entry' = [entry EXCEPT ![l] = New(m)], proc'[w].pc = "flag"
      PROVE  ShownPaidIsPaid' /\ PaidBy(w)'
  <2>1. PaidSays(m)
    BY <1>1, <1>4, MatchPaid
  <2>2. New(m) \in Entries /\ New(m).code = m.code /\ New(m).status = m.status
    BY NewType DEF New
  <2>3. ShownPaidIsPaid'
    BY <1>4, <2>1, <2>2, EntriesPaid DEF PaidInv, PaidSays
  <2> QED
    BY <1>2, <1>4, <2>3 DEF PaidBy, Reading
<1>5. ASSUME NEW m \in MatchResults, m \in Matches(l, proc[w].known), UNCHANGED entry,
             proc'[w].pc = "compare", proc'[w].match = m
      PROVE  ShownPaidIsPaid' /\ PaidBy(w)'
  <2>1. PaidSays(m) /\ (m.code = None <=> m.status = None)
    BY <1>1, <1>5, MatchPaid
  <2>2. ShownPaidIsPaid'
    BY <1>5, EntriesPaid DEF PaidInv
  <2> QED
    BY <1>2, <1>5, <2>1, <2>2 DEF PaidBy, Reading, PaidSays
<1> QED
  BY <1>3, <1>4, <1>5, TakeLineEffect

\* A row is brought up to date as a whole, or keeps code and status together.
LEMMA ReexaminePaid ==
  ASSUME TypeOK, Held, Fresh, PaidStays, PaidInv, NEW w \in Workers, Reexamine(w)
  PROVE  ShownPaidIsPaid' /\ PaidBy(w)'
<1> DEFINE p == proc[w]
           new == Reexamined(p.row, p.match)
<1>1. /\ p.pc = "compare" /\ PaidBy(w) /\ proc'[w].known = p.known /\ UNCHANGED orders
      /\ proc'[w].pc \in {"record", "flag"}
  BY ReexamineEffect, KnownStays DEF PaidInv
<1>2. PaidBy(w)'
  BY <1>1 DEF PaidBy, Reading
<1>3. CASE entry' = entry
  <2>1. ShownPaidIsPaid'
    BY <1>3, EntriesPaid DEF PaidInv
  <2> QED
    BY <1>2, <2>1
<1>4. CASE entry' = [entry EXCEPT ![p.line] = Saved(p.line, p.row, new)]
  <2>1. /\ p.line \in Lines /\ p.row \in Entries /\ p.match \in MatchResults
        /\ p.row = entry[p.line] /\ entry' = [entry EXCEPT ![p.line] = new]
    BY <1>1, <1>4, ReexaminedFresh
  <2>2. /\ new \in Entries /\ new.code = IF p.match.code = None THEN p.row.code ELSE p.match.code
        /\ new.status = IF p.match.status = None THEN p.row.status ELSE p.match.status
    BY <2>1, ReexaminedType DEF Reexamined, Entries
  <2>3. PaidSays(p.match) /\ (p.match.code = None <=> p.match.status = None)
    BY <1>1 DEF PaidBy
  <2>4. entry[p.line] # None
    BY <2>1, NoneNoEntry
  <2> HIDE DEF new
  <2>5. new.status = "p" => new.code # None /\ orders'[new.code] = "p"
    BY <1>1, <2>1, <2>2, <2>3, <2>4 DEF PaidInv, ShownPaidIsPaid, PaidSays
  <2> QED
    BY <1>2, <2>1, <2>2, <2>5, EntriesPaid DEF PaidInv
<1> QED
  BY <1>2, <1>3, <1>4, ReexamineEffect

LEMMA MarkPaidPaid ==
  ASSUME TypeOK, Held, PaidStays, PaidInv, NEW w \in Workers, NEW t \in proc[w].queue, MarkPaid(w, t)
  PROVE  ShownPaidIsPaid' /\ PaidBy(w)' /\ LastPaid'
<1>1. /\ UNCHANGED entry /\ proc'[w].pc = "close" /\ t \in Tasks /\ t.line \in Lines /\ t.code \in Codes
  BY MarkPaidEffect, TaskType DEF Allowed
<1>2. orders'[t.code] = "p"
  BY <1>1 DEF MarkPaid, TypeOK
<1>3. \A l \in Lines : last[l] # None => orders'[last[l]] = "p"
  BY DEF TypeOK, PaidInv, LastPaid, PaidStays
<1>4. orders'[proc'[w].returned] = "p"
  BY <1>1, <1>2, <1>3, MarkPaidEffect DEF Repeats
<1>5. LastPaid'
  <2>1. last' = last \/ last' = [last EXCEPT ![t.line] = IF t.code \in Fit[t.line] THEN t.code ELSE None]
    BY MarkPaidEffect
  <2>2. \A l \in Lines : last'[l] = last[l] \/ last'[l] = t.code \/ last'[l] = None
    BY <2>1 DEF TypeOK
  <2> QED
    BY <1>2, <1>3, <2>2 DEF LastPaid
<1>6. ShownPaidIsPaid'
  BY <1>1, EntriesPaid DEF PaidInv
<1> QED
  BY <1>1, <1>4, <1>5, <1>6 DEF PaidBy, Reading

LEMMA ClosePaid ==
  ASSUME TypeOK, Held, Fresh, PaidStays, PaidInv, NEW w \in Workers, NEW t \in proc[w].queue,
         CloseEntry(w, t)
  PROVE  ShownPaidIsPaid' /\ PaidBy(w)'
<1> DEFINE new == Closed(t.row, proc[w].returned)
<1>1. proc[w].pc = "close" /\ proc'[w].pc = "report" /\ UNCHANGED orders
  BY CloseEntryEffect
<1>2. /\ t.line \in Lines /\ t.row \in Entries /\ proc[w].returned \in Codes
      /\ entry' = [entry EXCEPT ![t.line] = new]
  BY <1>1, CloseEntryEffect, ClosedFresh
<1>3. new \in Entries /\ new.code = proc[w].returned
  BY <1>2, ClosedType
<1>4. orders'[proc[w].returned] = "p"
  BY <1>1 DEF PaidInv, PaidBy
<1> HIDE DEF new
<1>5. new.code # None /\ orders'[new.code] = "p"
  BY <1>2, <1>3, <1>4, NoneApart
<1>6. ShownPaidIsPaid'
  BY <1>2, <1>3, <1>5, EntriesPaid DEF PaidInv
<1> QED
  BY <1>1, <1>6 DEF PaidBy, Reading

LEMMA PaidInvStep ==
  NoReversal /\ TypeOK /\ Held /\ Fresh /\ PaidInv /\ [Next]_vars => PaidInv'
<1> SUFFICES ASSUME NoReversal, TypeOK, Held, Fresh, PaidInv, [Next]_vars PROVE PaidInv'
  OBVIOUS
<1>1. PaidStays
  BY PaidStep
<1>2. ASSUME NEW w \in Workers, Others(w), PaidBy(w)', ShownPaidIsPaid', LastPaid' PROVE PaidInv'
  BY <1>1, <1>2, PaidByStands DEF Others, PaidInv
<1>3. ASSUME UNCHANGED last PROVE LastPaid'
  BY <1>1, <1>3 DEF PaidInv, LastPaid, PaidStays, TypeOK
<1>4. ASSUME UNCHANGED entry PROVE ShownPaidIsPaid'
  BY <1>1, <1>4, EntriesPaid DEF PaidInv
<1>5. ASSUME NEW w \in Workers, proc'[w].pc \in {"idle", "report"} PROVE PaidBy(w)'
  BY <1>5 DEF PaidBy, Reading
<1>6. ASSUME NEW w \in Pulls, BeginPull(w) PROVE PaidInv'
  <2>1. w \in Workers
    BY DEF Workers
  <2> DEFINE s == [Idle EXCEPT !.pc = "record", !.known = orders,
                               !.todo = {l \in Lines : bank[l] = "window"}]
  <2>2. s.known = orders
    BY DEF Idle
  <2>3. proc'[w] = s
    BY <1>6, <2>1, Becomes DEF BeginPull
  <2>4. proc'[w].known = orders
    BY <2>2, <2>3
  <2> QED
    BY <1>1, <1>2, <1>3, <1>4, <1>6, <2>1, <2>4, BeginPullEffect DEF PaidBy, Reading, PaidStays, PaidInv
<1>7. ASSUME NEW w \in Workers, NEW l \in Lines, TakeLine(w, l) PROVE PaidInv'
  <2>1. UNCHANGED orders /\ UNCHANGED last /\ Others(w)
    BY <1>7, TakeLineEffect
  <2> QED
    BY <1>1, <1>2, <1>3, <1>7, <2>1, TakePaid
<1>8. ASSUME NEW w \in Workers, Reexamine(w) PROVE PaidInv'
  BY <1>1, <1>2, <1>3, <1>8, ReexamineEffect, ReexaminePaid
<1>9. ASSUME NEW w \in Workers, FlagSibling(w) \/ FlagOwn(w) PROVE PaidInv'
  <2>1. /\ proc[w].pc \in {"flag", "flagown"} /\ proc'[w].pc \in {"flagown", "record"} /\ Others(w)
        /\ proc'[w].known = proc[w].known /\ UNCHANGED orders /\ UNCHANGED last
    BY <1>9, FlagSiblingEffect, FlagOwnEffect, KnownStays
  <2>2. PaidBy(w)'
    BY <2>1 DEF PaidInv, PaidBy, Reading
  <2>3. ShownPaidIsPaid'
    <3>1. CASE FlagOwn(w)
      <4>1. proc[w].line \in Lines /\ entry[proc[w].line] # None
        BY <3>1, FlagOwnEffect DEF Held, HeldBy
      <4> QED
        BY <1>1, <3>1, <4>1, FlagOwnEffect, EntriesPaid DEF PaidInv
    <3>2. CASE FlagSibling(w)
      <4>1. UNCHANGED entry \/ \E k \in Lines : entry[k] # None /\ entry' = [entry EXCEPT ![k].flag = TRUE]
        BY <3>2, FlagSiblingEffect, LineFlagged
      <4> QED
        BY <1>1, <4>1, EntriesPaid DEF PaidInv
    <3> QED
      BY <1>9, <3>1, <3>2
  <2> QED
    BY <1>2, <1>3, <2>1, <2>2, <2>3
<1>10. ASSUME NEW w \in Workers, BeginReport(w) PROVE PaidInv'
  BY <1>2, <1>3, <1>4, <1>5, <1>10, BeginReportEffect
<1>11. ASSUME NEW w \in Clerks, NEW l \in Lines, NEW c \in Codes, NEW a \in BOOLEAN, BeginByHand(w, l, c, a)
       PROVE  PaidInv'
  BY <1>2, <1>3, <1>4, <1>5, <1>11, BeginByHandEffect DEF Workers
<1>12. ASSUME NEW w \in Workers, NEW t \in proc[w].queue, MarkPaid(w, t) PROVE PaidInv'
  BY <1>1, <1>2, <1>12, MarkPaidEffect, MarkPaidPaid
<1>13. ASSUME NEW w \in Workers, NEW t \in proc[w].queue, Refuse(w, t) PROVE PaidInv'
  <2>1. LastPaid'
    <3>1. /\ t.line \in Lines /\ last' = [last EXCEPT ![t.line] = None] /\ UNCHANGED orders
      BY <1>13, RefuseEffect, TaskType
    <3> QED
      BY <3>1 DEF PaidInv, LastPaid, TypeOK
  <2> QED
    BY <1>2, <1>4, <1>5, <1>13, <2>1, RefuseEffect
<1>14. ASSUME NEW w \in Workers, NEW t \in proc[w].queue, CloseEntry(w, t) PROVE PaidInv'
  BY <1>1, <1>2, <1>3, <1>14, CloseEntryEffect, ClosePaid
<1>15. ASSUME NEW w \in Workers, EndReport(w) \/ Crash(w) PROVE PaidInv'
  BY <1>2, <1>3, <1>4, <1>5, <1>15, EndEffect DEF Rests
<1>16. ASSUME UNCHANGED <<entry, proc, last>> PROVE PaidInv'
  BY <1>1, <1>3, <1>4, <1>16, PaidByStands DEF PaidInv
<1>17. CASE Around \/ UNCHANGED vars
  BY <1>16, <1>17, AroundEffect DEF vars
<1> QED
  BY <1>6, <1>7, <1>8, <1>9, <1>10, <1>11, <1>12, <1>13, <1>14, <1>15, <1>17
     DEF Next, Work, ByHand, Workers

\* What is shown as paid is paid: when pulls and people take turns, even if processes die,
\* and as long as pretix takes no payment back, no entry says "paid" next to an order that
\* is not - although the status was written with one code and may be read with another.
THEOREM ShownPaidHolds == ASSUME ~Overlap, NoReversal PROVE Spec => []ShownPaidIsPaid
<1>1. Init => PaidInv
  BY NoneApart DEF Init, PaidInv, ShownPaidIsPaid, LastPaid, PaidBy, Reading, Idle
<1>2. IInv /\ InTurns /\ PaidInv /\ [Next]_vars => PaidInv'
  BY PaidInvStep DEF IInv, InTurns
<1>3. PaidInv => ShownPaidIsPaid
  BY DEF PaidInv
<1> QED
  BY <1>1, <1>2, <1>3, TurnsInductive, PTL DEF Spec
=============================================================================
