-------------------------- MODULE PlannerClockProofs --------------------------
(***************************************************************************)
(* Theorems about PlannerClock for days of any length, any reset settings  *)
(* and any number of toggles and changes.  They rest on KeyBounds: the key *)
(* of a time is the day of the latest reset that is not after it.          *)
(***************************************************************************)
EXTENDS PlannerClock, FiniteSetTheorems, TLAPS

Reset(day, s) == [day |-> day, minute |-> ParseHhmm(s.hhmm)]
Length(kind) == IF kind = "DAILY" THEN 1 ELSE 7

-----------------------------------------------------------------------------
(***************************************************************************)
(* Period keys.                                                            *)
(***************************************************************************)

\* Whatever the user entered, parseHhmm and the clamped reset day are in range.
LEMMA InRange ==
    ASSUME NEW s \in [hhmm : Int, day : Int]
    PROVE  ParseHhmm(s.hhmm) \in Minutes /\ ResetDay(s.day) \in 0..6
BY PeriodAssumption DEF ParseHhmm, ResetDay, Minutes

\* The key of a time (dailyPeriodKey, weeklyPeriodKey) is the day of a reset,
\* that reset is not after the time, and the next one is.
LEMMA KeyBounds ==
    ASSUME NEW s \in [hhmm : Int, day : Int], NEW t \in Times, NEW kind \in Kinds
    PROVE  /\ Key(kind, t, s) \in Int
           /\ kind = "WEEKLY" => Key(kind, t, s) % 7 = ResetDay(s.day)
           /\ ~Before(t, Reset(Key(kind, t, s), s))
           /\ Before(t, Reset(Key(kind, t, s) + Length(kind), s))
<1> DEFINE h == ParseHhmm(s.hhmm)
           r == ResetDay(s.day)
<1>1. h \in Minutes /\ r \in 0..6
  BY InRange
<1>2. t.day \in Int /\ t.minute \in Minutes /\ Minutes \subseteq Int
  BY DEF Times, Minutes
<1>3. CASE kind = "DAILY"
  <2>1. Key(kind, t, s) = IF Before(t, [day |-> t.day, minute |-> h]) THEN t.day - 1 ELSE t.day
    BY <1>3 DEF Key, dailyPeriodKey, DailyStart
  <2> HIDE DEF h
  <2> QED
    BY <1>1, <1>2, <1>3, <2>1 DEF Before, Reset, Length, h, Minutes
<1>4. CASE kind = "WEEKLY"
  <2> DEFINE since == ((t.day % 7) - r + 7) % 7
             first == t.day - since
  <2>1. Key(kind, t, s) = IF Before(t, [day |-> first, minute |-> h]) THEN first - 7 ELSE first
    BY <1>4 DEF Key, weeklyPeriodKey, WeeklyStart
  <2>2. since \in 0..6 /\ first \in Int /\ first % 7 = r /\ (first - 7) % 7 = r
    <3> DEFINE w == t.day % 7
    <3>1. w \in 0..6
      BY <1>2
    <3>2. since = IF w >= r THEN w - r ELSE w - r + 7
      <4> HIDE DEF r, w
      <4>1. w - r + 7 \in 1..13
        BY <1>1, <3>1
      <4>2. since = (w - r + 7) % 7
        BY DEF w
      <4> QED
        BY <1>1, <3>1, <4>1, <4>2
    <3> HIDE DEF r, since
    <3>3. since \in 0..6
      BY <1>1, <3>1, <3>2
    <3>4. first % 7 = r
      BY <1>1, <1>2, <3>1, <3>2
    <3> QED
      BY <1>1, <1>2, <3>3, <3>4
  <2> HIDE DEF h, r, first, since
  <2>3. first <= t.day /\ t.day < first + 7
    BY <1>2, <2>2 DEF first
  <2> QED
    BY <1>1, <1>2, <1>4, <2>1, <2>2, <2>3 DEF Before, Reset, Length, h, r, Minutes
<1> QED
  BY <1>3, <1>4 DEF Kinds

\* Two times have one key exactly if no reset falls between them.
LEMMA SameKey ==
    ASSUME NEW s \in [hhmm : Int, day : Int], NEW t \in Times, NEW u \in Times,
           NEW kind \in Kinds, ~Before(u, t)
    PROVE  Key(kind, t, s) = Key(kind, u, s) <=> Resets(kind, s, t, u) = {}
<1> DEFINE a == Key(kind, t, s)
           b == Key(kind, u, s)
           h == ParseHhmm(s.hhmm)
           r == ResetDay(s.day)
<1>1. h \in Minutes /\ r \in 0..6 /\ Minutes \subseteq Int
  BY InRange DEF Minutes
<1>2. t.day \in Int /\ t.minute \in Int /\ u.day \in Int /\ u.minute \in Int
  BY DEF Times, Minutes
<1>3. /\ a \in Int /\ b \in Int
      /\ kind = "WEEKLY" => a % 7 = r /\ b % 7 = r
  BY KeyBounds
<1>4. /\ t.day < a + Length(kind) \/ (t.day = a + Length(kind) /\ t.minute < h)
      /\ u.day < b + Length(kind) \/ (u.day = b + Length(kind) /\ u.minute < h)
  BY KeyBounds DEF Before, Reset
<1>5. h \in Int
  BY <1>1
<1>6. a < t.day \/ (a = t.day /\ h <= t.minute)
  <2>1. ~Before(t, Reset(a, s)) /\ a \in Int
    BY KeyBounds
  <2> HIDE DEF a, h
  <2> QED
    BY <1>2, <1>5, <2>1 DEF Before, Reset, h
<1>7. b < u.day \/ (b = u.day /\ h <= u.minute)
  <2>1. ~Before(u, Reset(b, s)) /\ b \in Int
    BY KeyBounds
  <2> HIDE DEF b, h
  <2> QED
    BY <1>2, <1>5, <2>1 DEF Before, Reset, h
<1>8. t.day < u.day \/ (t.day = u.day /\ t.minute <= u.minute)
  BY <1>2, ~Before(u, t) DEF Before
<1>9. Length(kind) \in {1, 7}
  BY DEF Length
<1> HIDE DEF a, b, r, h
<1>10. ASSUME a = b, Resets(kind, s, t, u) # {}  PROVE FALSE
  <2>1. PICK d \in t.day..u.day :
           /\ kind = "WEEKLY" => d % 7 = r
           /\ Before(t, Reset(d, s)) /\ ~Before(u, Reset(d, s))
    BY <1>10 DEF Resets, Reset, r
  <2>2. d \in Int
    BY <1>2
  <2>3. /\ t.day < d \/ (t.day = d /\ t.minute < h)
        /\ d < u.day \/ (d = u.day /\ h <= u.minute)
    <3>1. Before(t, Reset(d, s)) /\ ~Before(u, Reset(d, s))
      BY <2>1
    <3> QED
      BY <1>2, <1>5, <2>2, <3>1 DEF Before, Reset, h
  <2>4. a < d /\ d < b + Length(kind)
    <3>1. a < d
      BY <1>2, <1>3, <1>5, <1>6, <2>2, <2>3
    <3>2. d < b + Length(kind)
      BY <1>2, <1>3, <1>4, <1>9, <1>5, <2>2, <2>3
    <3> QED
      BY <3>1, <3>2
  <2> QED
    BY <1>1, <1>3, <1>10, <2>1, <2>2, <2>4 DEF Kinds, Length
<1>11. ASSUME a # b  PROVE Resets(kind, s, t, u) # {}
  <2>1. a < b + Length(kind)
    BY <1>2, <1>3, <1>4, <1>9, <1>5, <1>6, <1>8
  <2>2. a + Length(kind) <= b
    BY <1>1, <1>3, <1>11, <2>1 DEF Kinds, Length
  <2>3. Before(t, Reset(b, s)) /\ ~Before(u, Reset(b, s)) /\ b \in t.day..u.day
    BY <1>2, <1>3, <1>4, <1>9, <1>5, <1>7, <2>2 DEF Before, Reset, h
  <2> QED
    BY <1>3, <2>3 DEF Resets, Reset, r
<1> QED
  BY <1>10, <1>11 DEF a, b

-----------------------------------------------------------------------------
(***************************************************************************)
(* The clock.                                                              *)
(***************************************************************************)

\* The key of a time is an integer, for settings in use.
LEMMA KeyIsInt ==
    ASSUME NEW s \in Settings, NEW t \in Times, NEW kind \in Kinds
    PROVE  Key(kind, t, s) \in Int
BY ClockAssumption, KeyBounds

\* Before is a strict total order of the times.
LEMMA BeforeOrders ==
    ASSUME NEW s \in Times, NEW t \in Times, NEW u \in Times
    PROVE  /\ ~Before(s, s)
           /\ ~Before(t, s) /\ ~Before(u, t) => ~Before(u, s)
BY DEF Before, Times, Minutes

\* Every step keeps the types and never turns the clock back.
LEMMA TypeStep ==
    ASSUME TypeOK, [Next]_vars
    PROVE  TypeOK' /\ ~Before(now', now)
<1> USE ClockAssumption DEF TypeOK
<1>1. Effective \in Settings
  <2>1. server # None => server \in Settings
    OBVIOUS
  <2> QED
    BY <2>1 DEF Effective
<1>2. CASE Tick
  <2>1. now.day \in Int /\ now.minute \in Minutes
    BY DEF Times
  <2>2. now' \in Times /\ ~Before(now', now)
    <3>1. CASE now.minute + 1 \in Minutes
      <4>1. now' = [day |-> now.day, minute |-> now.minute + 1]
        BY <1>2, <3>1 DEF Tick, Times
      <4> QED
        BY <2>1, <3>1, <4>1 DEF Times, Before, Minutes
    <3>2. CASE now.minute + 1 \notin Minutes
      <4>1. now' = [day |-> now.day + 1, minute |-> 0]
        BY <1>2, <3>2 DEF Tick
      <4> QED
        BY <2>1, <4>1, PeriodAssumption DEF Times, Before, Minutes
    <3> QED
      BY <3>1, <3>2
  <2> QED
    BY <1>2, <2>2 DEF Tick
<1>3. ~Before(now, now)
  BY BeforeOrders
<1>4. ASSUME NEW a \in Settings, NEW b \in Settings \cup {None}, Change(a, b)
      PROVE  TypeOK' /\ ~Before(now', now)
  <2>1. changes' \in 0..MaxChanges
    BY <1>4 DEF Change
  <2> QED
    BY <1>3, <1>4, <2>1 DEF Change
<1>5. ASSUME NEW kind \in Kinds, NEW completed \in BOOLEAN, Toggle(kind, completed)
      PROVE  TypeOK' /\ ~Before(now', now)
  <2>1. Key(kind, now, Effective) \in Int
    BY <1>1, KeyIsInt
  <2>2. rows' \subseteq Rows
    <3>1. [kind |-> kind, key |-> Key(kind, now, Effective), at |-> now, by |-> Effective] \in Rows
      BY <1>1, <2>1 DEF Rows
    <3> QED
      BY <1>5, <3>1 DEF Toggle, SetCompletion
  <2>3. last' \in [Kinds -> [at : Times, by : Settings, completed : BOOLEAN] \cup {None}]
    BY <1>1, <1>5 DEF Toggle, Toggled
  <2>4. toggles' \in 0..MaxToggles
    BY <1>5 DEF Toggle, Toggled
  <2> QED
    BY <1>3, <1>5, <2>2, <2>3, <2>4 DEF Toggle, Toggled
<1>6. CASE UseCharge
  <2>1. toggles' \in 0..MaxToggles /\ toggles \in Nat
    BY <1>6 DEF UseCharge
  <2>2. uses' \subseteq [n : Nat, at : Times]
    BY <1>6, <2>1 DEF UseCharge
  <2> QED
    BY <1>3, <1>6, <2>1, <2>2 DEF UseCharge
<1>7. CASE UndoCharge
  BY <1>3, <1>7 DEF UndoCharge
<1>8. CASE UNCHANGED vars
  BY <1>3, <1>8 DEF vars
<1> QED
  BY <1>2, <1>4, <1>5, <1>6, <1>7, <1>8 DEF Next, SetDefault, SetServer, ClearServer

\* The clock, the settings, the rows and the history keep their types, for
\* every order of toggles, charges, changes of the settings and minutes.
THEOREM TypeCorrect == Spec => []TypeOK
<1>1. Init => TypeOK
  BY PeriodAssumption, ClockAssumption DEF Init, TypeOK, Times, Minutes
<1>2. TypeOK /\ [Next]_vars => TypeOK'
  BY TypeStep
<1> QED
  BY <1>1, <1>2, PTL DEF Spec

-----------------------------------------------------------------------------
(***************************************************************************)
(* Tasks.                                                                  *)
(***************************************************************************)

\* A row's key is that of the time and the settings it was made with, and
\* neither a row nor the last toggle of a kind lies in the future.
RowsInv == \A r \in rows : r.key = Key(r.kind, r.at, r.by) /\ ~Before(now, r.at)

\* There is a row under the key of the last toggle exactly if that toggle
\* completed the task: only a toggle of the kind touches its rows.
LastInv ==
    \A kind \in Kinds :
        last[kind] # None =>
            /\ ~Before(now, last[kind].at)
            /\ last[kind].completed <=>
                 \E r \in rows : /\ r.kind = kind
                                 /\ r.key = Key(kind, last[kind].at, last[kind].by)

\* A time that was not after the clock is not after it after a step either.
LEMMA StaysPast ==
    ASSUME TypeOK, [Next]_vars, NEW t \in Times, ~Before(now, t)
    PROVE  ~Before(now', t)
<1>1. now \in Times /\ now' \in Times /\ ~Before(now', now)
  BY TypeStep DEF TypeOK
<1> QED
  BY <1>1, BeforeOrders

\* A step that is no toggle leaves completions and the last toggles alone.
LEMMA NoToggle ==
    ASSUME [Next]_vars, \A kind \in Kinds, completed \in BOOLEAN : ~Toggle(kind, completed)
    PROVE  UNCHANGED <<rows, last>>
BY DEF Next, vars, Tick, SetDefault, SetServer, ClearServer, Change, UseCharge, UndoCharge

\* Every step keeps RowsInv.
LEMMA RowsStep ==
    ASSUME TypeOK, RowsInv, [Next]_vars
    PROVE  RowsInv'
<1>1. now \in Times /\ rows \subseteq Rows
  BY DEF TypeOK
<1>2. SUFFICES ASSUME NEW r \in rows'  PROVE r.key = Key(r.kind, r.at, r.by) /\ ~Before(now', r.at)
  BY DEF RowsInv, Key
<1>3. CASE r \in rows
  <2>1. r.at \in Times
    BY <1>1, <1>3 DEF Rows
  <2> QED
    BY <1>3, <2>1, StaysPast DEF RowsInv
<1>4. CASE r \notin rows
  <2>1. PICK kind \in Kinds : \E completed \in BOOLEAN : Toggle(kind, completed)
    BY <1>4, NoToggle
  <2>2. PICK completed \in BOOLEAN : Toggle(kind, completed)
    BY <2>1
  <2>3. r = [kind |-> kind, key |-> Key(kind, now, Effective), at |-> now, by |-> Effective]
    BY <1>4, <2>2 DEF Toggle, SetCompletion
  <2>4. now' = now /\ ~Before(now, now)
    BY <1>1, <2>2, BeforeOrders DEF Toggle, Toggled
  <2> QED
    BY <2>3, <2>4
<1> QED
  BY <1>3, <1>4

\* Every step keeps LastInv.
LEMMA LastStep ==
    ASSUME TypeOK, LastInv, [Next]_vars
    PROVE  LastInv'
<1>1. /\ now \in Times
      /\ last \in [Kinds -> [at : Times, by : Settings, completed : BOOLEAN] \cup {None}]
  BY DEF TypeOK
<1>2. SUFFICES ASSUME NEW kind \in Kinds, last'[kind] # None
      PROVE  /\ ~Before(now', last'[kind].at)
             /\ last'[kind].completed <=>
                  \E r \in rows' : /\ r.kind = kind
                                   /\ r.key = Key(kind, last'[kind].at, last'[kind].by)
  BY DEF LastInv, Key
<1>3. ASSUME last'[kind] = last[kind], \A r : r.kind = kind => (r \in rows' <=> r \in rows)
      PROVE  /\ ~Before(now', last'[kind].at)
             /\ last'[kind].completed <=>
                  \E r \in rows' : /\ r.kind = kind
                                   /\ r.key = Key(kind, last'[kind].at, last'[kind].by)
  <2>1. last[kind] # None /\ last[kind].at \in Times
    BY <1>1, <1>2, <1>3
  <2> QED
    BY <1>3, <2>1, StaysPast DEF LastInv
<1>4. CASE \A k \in Kinds, completed \in BOOLEAN : ~Toggle(k, completed)
  <2>1. last' = last /\ rows' = rows
    BY <1>4, NoToggle
  <2> QED
    BY <1>3, <2>1
<1>5. ASSUME NEW k \in Kinds, NEW completed \in BOOLEAN, Toggle(k, completed)
      PROVE  /\ ~Before(now', last'[kind].at)
             /\ last'[kind].completed <=>
                  \E r \in rows' : /\ r.kind = kind
                                   /\ r.key = Key(kind, last'[kind].at, last'[kind].by)
  <2> DEFINE key == Key(k, now, Effective)
             new == [kind |-> k, key |-> key, at |-> now, by |-> Effective]
             taken == {r \in rows : r.kind = k /\ r.key = key}
  <2>1. /\ rows' = IF ~completed THEN rows \ taken
                   ELSE IF taken # {} THEN rows ELSE rows \cup {new}
        /\ last' = [last EXCEPT ![k] = [at |-> now, by |-> Effective, completed |-> completed]]
        /\ now' = now
    BY <1>5 DEF Toggle, SetCompletion, Toggled
  <2>2. CASE k # kind
    <3>1. last'[kind] = last[kind]
      BY <1>1, <2>1, <2>2
    <3>2. \A r : r.kind = kind => (r \in rows' <=> r \in rows)
      <4> HIDE DEF key
      <4> QED  BY <2>1, <2>2
    <3> QED
      BY <1>3, <3>1, <3>2
  <2>3. CASE k = kind
    <3>1. last'[kind] = [at |-> now, by |-> Effective, completed |-> completed]
      BY <1>1, <2>1, <2>3
    <3>2. ~Before(now', now)
      BY <1>1, <2>1, BeforeOrders
    <3>3. completed <=> \E r \in rows' : r.kind = k /\ r.key = key
      <4>1. new.kind = k /\ new.key = key
        OBVIOUS
      <4> HIDE DEF key, new
      <4> QED  BY <2>1, <4>1
    <3>4. last'[kind].completed <=>
            \E r \in rows' : r.kind = kind /\ r.key = Key(kind, last'[kind].at, last'[kind].by)
      BY <2>3, <3>1, <3>3
    <3> QED
      BY <3>1, <3>2, <3>4
  <2> QED
    BY <2>2, <2>3
<1> QED
  BY <1>4, <1>5

\* The invariants of the tasks.
LEMMA TasksInv == Spec => [](TypeOK /\ RowsInv /\ LastInv)
<1>1. Init => RowsInv /\ LastInv
  BY DEF Init, RowsInv, LastInv
<1>2. TypeOK /\ RowsInv /\ LastInv /\ [Next]_vars => RowsInv' /\ LastInv'
  BY RowsStep, LastStep
<1> QED
  BY <1>1, <1>2, TypeCorrect, PTL DEF Spec

\* The settings in force are among those entered.
LEMMA EffectiveIsSettings ==
    ASSUME TypeOK
    PROVE  Effective \in Settings /\ Effective \in [hhmm : Int, day : Int]
<1>1. server # None => server \in Settings
  BY DEF TypeOK
<1> QED
  BY <1>1, ClockAssumption DEF TypeOK, Effective

\* A day of the week falls on one day of every seven.
LEMMA OneDayOfTheWeek ==
    ASSUME NEW a \in Int, NEW b \in Int, NEW x \in Int, NEW r \in 0..6,
           a % 7 = r, b % 7 = r, a <= x, x < a + 7, b <= x, x < b + 7
    PROVE  a = b
OBVIOUS

\* One key, under any settings then and now: a reset in between is that of
\* the day of the key.
LEMMA OneResetOutlived ==
    ASSUME NEW s \in [hhmm : Int, day : Int], NEW e \in [hhmm : Int, day : Int],
           NEW t \in Times, NEW u \in Times, NEW kind \in Kinds,
           Key(kind, t, e) = Key(kind, u, s)
    PROVE  Resets(kind, s, t, u) \subseteq {Key(kind, u, s)}
<1> DEFINE k == Key(kind, u, s)
           h == ParseHhmm(s.hhmm)
           g == ParseHhmm(e.hhmm)
<1>1. /\ k \in Int
      /\ kind = "WEEKLY" => k % 7 = ResetDay(s.day)
      /\ ~Before(t, Reset(k, e)) /\ Before(u, Reset(k + Length(kind), s))
  BY KeyBounds
<1>2. h \in Int /\ g \in Int
  BY InRange DEF Minutes
<1>3. t.day \in Int /\ t.minute \in Int /\ u.day \in Int /\ u.minute \in Int
  BY DEF Times, Minutes
<1> HIDE DEF k, h, g
<1>4. ASSUME NEW d \in Resets(kind, s, t, u)  PROVE d = k
  <2>1. /\ d \in Int
        /\ kind = "WEEKLY" => d % 7 = ResetDay(s.day)
        /\ Before(t, Reset(d, s)) /\ ~Before(u, Reset(d, s))
    BY <1>3 DEF Resets, Reset
  <2>2. k <= d
    <3>1. k < t.day \/ (k = t.day /\ g <= t.minute)
      <4>1. ~Before(t, Reset(k, e)) /\ k \in Int
        BY <1>1
      <4> QED
        BY <1>2, <1>3, <4>1 DEF Before, Reset, g
    <3>2. t.day < d \/ (t.day = d /\ t.minute < h)
      <4>1. Before(t, Reset(d, s)) /\ d \in Int
        BY <2>1
      <4> QED
        BY <1>2, <1>3, <4>1 DEF Before, Reset, h
    <3>3. k \in Int /\ d \in Int
      BY <1>1, <2>1
    <3> QED
      BY <1>3, <3>1, <3>2, <3>3
  <2>3. d < k + Length(kind)
    <3>0. k \in Int /\ d \in Int /\ Length(kind) \in Int
      BY <1>1, <2>1 DEF Length
    <3>1. d < u.day \/ (d = u.day /\ h <= u.minute)
      <4>1. ~Before(u, Reset(d, s))
        BY <2>1
      <4> QED
        BY <1>2, <1>3, <3>0, <4>1 DEF Before, Reset, h
    <3>2. u.day < k + Length(kind) \/ (u.day = k + Length(kind) /\ u.minute < h)
      <4>1. Before(u, Reset(k + Length(kind), s))
        BY <1>1
      <4> QED
        BY <1>2, <1>3, <3>0, <4>1 DEF Before, Reset, h
    <3> QED
      BY <1>2, <1>3, <3>0, <3>1, <3>2
  <2>4. CASE kind = "DAILY"
    BY <1>1, <2>1, <2>2, <2>3, <2>4 DEF Length
  <2>5. CASE kind = "WEEKLY"
    <3>1. k \in Int /\ d \in Int
      BY <1>1, <2>1
    <3>2. d < k + 7
      BY <2>3, <2>5 DEF Length
    <3>3. d <= d /\ d < d + 7
      BY <3>1
    <3>4. k % 7 = ResetDay(s.day)
      BY <1>1, <2>5
    <3>5. d % 7 = ResetDay(s.day)
      BY <2>1, <2>5
    <3>6. ResetDay(s.day) \in 0..6
      BY InRange
    <3> QED
      BY <2>2, <3>1, <3>2, <3>3, <3>4, <3>5, <3>6, OneDayOfTheWeek
  <2> QED
    BY <2>4, <2>5 DEF Kinds
<1> QED
  BY <1>4 DEF k

\* A task shown as completed has outlived no reset of the settings it was
\* completed under, and of other settings at most that of the day its period
\* began on (period keys in getPlannerOverview).
THEOREM ReopensAtResetHolds == Spec => []ReopensAtReset
<1>1. ASSUME TypeOK, RowsInv  PROVE ReopensAtReset
  <2>1. SUFFICES ASSUME NEW r \in rows, r.key = Key(r.kind, now, Effective)
        PROVE  Resets(r.kind, Effective, r.at, now)
                 \subseteq (IF r.by = Effective THEN {} ELSE {r.key})
    BY DEF ReopensAtReset
  <2>2. now \in Times /\ r.at \in Times /\ r.kind \in Kinds /\ r.by \in [hhmm : Int, day : Int]
    BY <1>1, ClockAssumption DEF TypeOK, Rows
  <2>3. Key(r.kind, r.at, r.by) = Key(r.kind, now, Effective) /\ ~Before(now, r.at)
    BY <1>1, <2>1 DEF RowsInv
  <2>4. CASE r.by = Effective
    <3>1. Resets(r.kind, Effective, r.at, now) = {}
      BY <1>1, <2>2, <2>3, <2>4, SameKey, EffectiveIsSettings
    <3> QED
      BY <2>4, <3>1
  <2>5. CASE r.by # Effective
    <3>1. Resets(r.kind, Effective, r.at, now) \subseteq {r.key}
      BY <1>1, <2>1, <2>2, <2>3, OneResetOutlived, EffectiveIsSettings
    <3> QED
      BY <2>5, <3>1
  <2> QED
    BY <2>4, <2>5
<1> QED
  BY <1>1, TasksInv, PTL

\* What the user last made of a task is shown until the next reset, over any
\* changes of the settings that were taken back (setPlannerCompletion).
THEOREM KeptUntilResetHolds == Spec => []KeptUntilReset
<1>1. ASSUME TypeOK, LastInv  PROVE KeptUntilReset
  <2>1. SUFFICES ASSUME NEW kind \in Kinds, last[kind] # None, last[kind].by = Effective,
                        Resets(kind, Effective, last[kind].at, now) = {}
        PROVE  Completed(kind, now) <=> last[kind].completed
    BY DEF KeptUntilReset
  <2>2. now \in Times /\ last[kind].at \in Times
    BY <1>1, <2>1 DEF TypeOK
  <2>3. /\ ~Before(now, last[kind].at)
        /\ last[kind].completed <=>
             \E r \in rows : r.kind = kind /\ r.key = Key(kind, last[kind].at, Effective)
    BY <1>1, <2>1 DEF LastInv
  <2>4. Key(kind, last[kind].at, Effective) = Key(kind, now, Effective)
    BY <1>1, <2>1, <2>2, <2>3, SameKey, EffectiveIsSettings
  <2> QED
    BY <2>3, <2>4 DEF Completed
<1> QED
  BY <1>1, TasksInv, PTL

-----------------------------------------------------------------------------
(***************************************************************************)
(* The countdown.                                                          *)
(***************************************************************************)

\* The next reset of reset.ts is one period after the key of period.ts.
LEMMA NextReset ==
    ASSUME NEW s \in [hhmm : Int, day : Int], NEW t \in Times
    PROVE  /\ NextDailyReset(t, s.hhmm) = Reset(Key("DAILY", t, s) + 1, s)
           /\ NextWeeklyReset(t, s.hhmm, s.day) = Reset(Key("WEEKLY", t, s) + 7, s)
<1> DEFINE h == ParseHhmm(s.hhmm)
<1>1. t.day \in Int
  BY DEF Times
<1>2. NextDailyReset(t, s.hhmm) = Reset(Key("DAILY", t, s) + 1, s)
  <2>1. Key("DAILY", t, s) = IF Before(t, [day |-> t.day, minute |-> h]) THEN t.day - 1 ELSE t.day
    BY DEF Key, dailyPeriodKey, DailyStart
  <2> HIDE DEF h
  <2> QED
    BY <1>1, <2>1 DEF NextDailyReset, Reset, h
<1>3. NextWeeklyReset(t, s.hhmm, s.day) = Reset(Key("WEEKLY", t, s) + 7, s)
  <2> DEFINE first == t.day - (((t.day % 7) - ResetDay(s.day) + 7) % 7)
  <2>1. WeeklyStart(t, s.hhmm, s.day) =
          IF Before(t, [day |-> first, minute |-> h]) THEN [day |-> first - 7, minute |-> h]
                                                      ELSE [day |-> first, minute |-> h]
    BY DEF WeeklyStart
  <2> HIDE DEF first, h
  <2>2. Key("WEEKLY", t, s) = WeeklyStart(t, s.hhmm, s.day).day
    BY DEF Key, weeklyPeriodKey
  <2> QED
    BY <2>1, <2>2 DEF NextWeeklyReset, Reset, h
<1> QED
  BY <1>2, <1>3

\* The key changes at that reset, to a later one, and nowhere before it.
LEMMA PeriodEnds ==
    ASSUME NEW s \in [hhmm : Int, day : Int], NEW t \in Times, NEW kind \in Kinds
    PROVE  LET next == Reset(Key(kind, t, s) + Length(kind), s)
           IN  /\ next \in Times
               /\ Key(kind, next, s) > Key(kind, t, s)
               /\ \A u \in Times : ~Before(u, t) /\ Before(u, next)
                                    => Key(kind, u, s) = Key(kind, t, s)
<1> DEFINE a == Key(kind, t, s)
           h == ParseHhmm(s.hhmm)
           next == Reset(a + Length(kind), s)
<1>1. h \in Minutes /\ h \in Int /\ Length(kind) \in {1, 7}
  BY InRange DEF Minutes, Length
<1>2. a \in Int
  BY KeyBounds
<1>3. next \in Times /\ next.day = a + Length(kind) /\ next.minute = h
  <2> HIDE DEF a, h
  <2> QED  BY <1>1, <1>2 DEF Reset, Times, h
<1>4. Key(kind, next, s) > a
  <2> DEFINE b == Key(kind, next, s)
  <2> HIDE DEF b, next
  <2>1. b \in Int /\ Before(next, Reset(b + Length(kind), s))
    BY <1>3, KeyBounds DEF b
  <2> HIDE DEF a, h
  <2>2. a + Length(kind) < b + Length(kind)
    BY <1>1, <1>2, <1>3, <2>1 DEF Before, Reset, h
  <2> QED
    BY <1>1, <1>2, <2>1, <2>2 DEF b
<1>5. ASSUME NEW u \in Times, ~Before(u, t), Before(u, next)
      PROVE  Key(kind, u, s) = a
  <2> DEFINE b == Key(kind, u, s)
  <2>1. /\ b \in Int
        /\ kind = "WEEKLY" => a % 7 = ResetDay(s.day) /\ b % 7 = ResetDay(s.day)
    BY KeyBounds
  <2>2. /\ ~Before(t, Reset(a, s)) /\ Before(t, Reset(a + Length(kind), s))
        /\ ~Before(u, Reset(b, s)) /\ Before(u, Reset(b + Length(kind), s))
    BY KeyBounds
  <2>3. /\ t.day \in Int /\ t.minute \in Int /\ u.day \in Int /\ u.minute \in Int
    BY DEF Times, Minutes
  <2>4. ResetDay(s.day) \in Int
    BY InRange
  <2> HIDE DEF a, b, h, next
  <2>5. b < a + Length(kind)
    <3>1. u.day < a + Length(kind) \/ (u.day = a + Length(kind) /\ u.minute < h)
      BY <1>3, <1>5 DEF Before
    <3>2. b < u.day \/ (b = u.day /\ h <= u.minute)
      BY <1>1, <2>1, <2>2, <2>3 DEF Before, Reset, h
    <3> QED
      BY <1>1, <1>2, <2>1, <2>3, <3>1, <3>2
  <2>6. a < b + Length(kind)
    <3>1. a < t.day \/ (a = t.day /\ h <= t.minute)
      BY <1>1, <1>2, <2>2, <2>3 DEF Before, Reset, h
    <3>2. u.day < b + Length(kind) \/ (u.day = b + Length(kind) /\ u.minute < h)
      BY <2>2 DEF Before, Reset, h
    <3>3. t.day < u.day \/ (t.day = u.day /\ t.minute <= u.minute)
      BY <1>5, <2>3 DEF Before
    <3> QED
      BY <1>1, <1>2, <2>1, <2>3, <3>1, <3>2, <3>3
  <2>7. a = b
    BY <1>2, <2>1, <2>4, <2>5, <2>6 DEF Kinds, Length
  <2> QED
    BY <2>7 DEF b
<1> QED
  BY <1>3, <1>4, <1>5

\* The reset the renderer counts down to (reset.ts) is the moment the main
\* process moves to the next key (period.ts), for every time and setting.
THEOREM CountdownEndsPeriodHolds == Spec => []CountdownEndsPeriod
<1>1. ASSUME TypeOK  PROVE CountdownEndsPeriod
  <2> DEFINE s == Effective
             Next_(kind) == IF kind = "DAILY" THEN NextDailyReset(now, s.hhmm)
                                              ELSE NextWeeklyReset(now, s.hhmm, s.day)
  <2>1. now \in Times /\ s \in [hhmm : Int, day : Int]
    BY <1>1, EffectiveIsSettings DEF TypeOK
  <2>2. SUFFICES ASSUME NEW kind \in Kinds
        PROVE  /\ Before(now, Next_(kind))
               /\ Key(kind, Next_(kind), s) > Key(kind, now, s)
               /\ \A day \in now.day..Next_(kind).day, minute \in Minutes :
                     LET t == [day |-> day, minute |-> minute]
                     IN  ~Before(t, now) /\ Before(t, Next_(kind)) => Key(kind, t, s) = Key(kind, now, s)
    BY DEF CountdownEndsPeriod
  <2>3. Next_(kind) = Reset(Key(kind, now, s) + Length(kind), s)
    <3> HIDE DEF s
    <3> QED  BY <2>1, NextReset DEF Kinds, Length
  <2> HIDE DEF s, Next_
  <2>4. Before(now, Next_(kind))
    BY <2>1, <2>3, KeyBounds
  <2>5. /\ Key(kind, Next_(kind), s) > Key(kind, now, s)
        /\ \A u \in Times : ~Before(u, now) /\ Before(u, Next_(kind))
                             => Key(kind, u, s) = Key(kind, now, s)
    BY <2>1, <2>3, PeriodEnds
  <2>6. ASSUME NEW day \in now.day..Next_(kind).day, NEW minute \in Minutes
        PROVE  [day |-> day, minute |-> minute] \in Times
    BY <2>1, <2>6 DEF Times
  <2> QED
    BY <2>4, <2>5, <2>6
<1> QED
  BY <1>1, TypeCorrect, PTL

-----------------------------------------------------------------------------
(***************************************************************************)
(* Charges.                                                                *)
(***************************************************************************)

\* There are finitely many uses, and every set of some has an earliest one.
UsesInv ==
    /\ IsFiniteSet(uses)
    /\ \A S \in SUBSET uses :
          S # {} => \E u \in S : \A v \in S : Clock(u.at) <= Clock(v.at)

\* The minute a time stands for is an integer.
LEMMA ClockIsInt ==
    ASSUME NEW t \in Times
    PROVE  Clock(t) \in Int
BY PeriodAssumption DEF Clock, Times, Minutes

\* A use more or less keeps UsesInv.
LEMMA UsesStep ==
    ASSUME TypeOK, UsesInv, [Next]_vars
    PROVE  UsesInv'
<1>1. CASE UseCharge
  <2> DEFINE x == [n |-> toggles, at |-> now]
  <2>1. uses' = uses \cup {x}
    BY <1>1 DEF UseCharge
  <2>2. IsFiniteSet(uses')
    BY <2>1, FS_AddElement DEF UsesInv
  <2>3. \A u \in uses \cup {x} : Clock(u.at) \in Int
    BY ClockIsInt DEF TypeOK
  <2>4. ASSUME NEW S \in SUBSET uses', S # {}
        PROVE  \E u \in S : \A v \in S : Clock(u.at) <= Clock(v.at)
    <3>1. CASE S \subseteq {x}
      BY <2>3, <2>4, <3>1
    <3>2. CASE ~(S \subseteq {x})
      <4> DEFINE T == S \ {x}
      <4>1. T \in SUBSET uses /\ T # {}
        BY <2>1, <3>2
      <4>2. PICK u \in T : \A v \in T : Clock(u.at) <= Clock(v.at)
        BY <4>1 DEF UsesInv
      <4>3. u \in S /\ u \in uses
        BY <4>1
      <4> HIDE DEF x
      <4>4. \A v \in S : v \in T \/ v = x
        OBVIOUS
      <4> HIDE DEF T
      <4>5. CASE x \in S /\ Clock(x.at) < Clock(u.at)
        <5>1. \A v \in S : Clock(x.at) <= Clock(v.at)
          BY <2>1, <2>3, <4>1, <4>2, <4>3, <4>4, <4>5
        <5> QED BY <4>5, <5>1
      <4>6. CASE ~(x \in S /\ Clock(x.at) < Clock(u.at))
        <5>1. \A v \in S : Clock(u.at) <= Clock(v.at)
          BY <2>1, <2>3, <4>1, <4>2, <4>3, <4>4, <4>6
        <5> QED BY <4>3, <5>1
      <4> QED BY <4>5, <4>6
    <3> QED BY <3>1, <3>2
  <2> QED BY <2>2, <2>4 DEF UsesInv, Clock
<1>2. CASE UndoCharge
  <2>1. PICK u \in uses : uses' = uses \ {u}
    BY <1>2 DEF UndoCharge
  <2> QED BY <2>1, FS_RemoveElement DEF UsesInv, Clock
<1>3. CASE ~UseCharge /\ ~UndoCharge
  <2>1. uses' = uses
    BY <1>3 DEF Next, vars, Tick, SetDefault, SetServer, ClearServer, Change, Toggle, Toggled
  <2> QED BY <2>1 DEF UsesInv, Clock
<1> QED BY <1>1, <1>2, <1>3

\* At the time nextRechargeAt announces the earliest use that counts ceases to,
\* and none ceases before (the cutoff used_at > $cutoff of getPlannerOverview).
THEOREM RechargeOnTimeHolds == Spec => []RechargeOnTime
<1>1. ASSUME TypeOK, UsesInv PROVE RechargeOnTime
  <2> SUFFICES ASSUME NextRecharge # None, NEW m \in Clock(now)..NextRecharge
               PROVE  Cardinality(UsedAt(m)) < Cardinality(UsedAt(Clock(now))) <=> m = NextRecharge
    BY DEF RechargeOnTime
  <2> DEFINE used == UsedAt(Clock(now))
             C == {Clock(u.at) : u \in used}
  <2>1. used # {} /\ used \subseteq uses /\ Window \in Int /\ Clock(now) \in Int
    BY <1>1, ClockAssumption, ClockIsInt DEF NextRecharge, UsedAt, TypeOK
  <2>2. PICK first \in used : \A v \in used : Clock(first.at) <= Clock(v.at)
    BY <1>1, <2>1 DEF UsesInv
  <2>3. \A u \in uses : Clock(u.at) \in Int
    BY <1>1, ClockIsInt DEF TypeOK
  <2>4. NextRecharge = Clock(first.at) + Window
    <3>1. NextRecharge = (CHOOSE k \in C : \A u \in used : k <= Clock(u.at)) + Window
      BY <2>1 DEF NextRecharge
    <3>2. \A k \in C : (\A u \in used : k <= Clock(u.at)) => k = Clock(first.at)
      BY <2>1, <2>2, <2>3
    <3>3. Clock(first.at) \in C /\ \A u \in used : Clock(first.at) <= Clock(u.at)
      BY <2>2
    <3> HIDE DEF C, used
    <3> QED BY <3>1, <3>2, <3>3
  <2>5. first \in uses /\ Clock(first.at) \in Int /\ Clock(first.at) > Clock(now) - Window
    BY <2>1, <2>2, <2>3 DEF UsedAt
  <2>6. m \in Int /\ Clock(now) <= m /\ m <= Clock(first.at) + Window
    BY <2>1, <2>4, <2>5
  <2>7. UsedAt(m) \in SUBSET used
    BY <2>1, <2>3, <2>6 DEF UsedAt
  <2>8. IsFiniteSet(used)
    BY <1>1, <2>1, FS_Subset DEF UsesInv
  <2> HIDE DEF used
  <2>9. /\ Cardinality(UsedAt(m)) <= Cardinality(used)
        /\ Cardinality(used) = Cardinality(UsedAt(m)) => used = UsedAt(m)
        /\ Cardinality(UsedAt(m)) \in Nat /\ Cardinality(used) \in Nat
    BY <2>7, <2>8, FS_Subset, FS_CardinalityType
  <2>10. ASSUME m = NextRecharge PROVE UsedAt(m) # used
    <3>1. first \notin UsedAt(m)
      BY <2>1, <2>4, <2>5, <2>10 DEF UsedAt
    <3> QED BY <2>2, <3>1
  <2>11. ASSUME m # NextRecharge PROVE UsedAt(m) = used
    <3>1. m < Clock(first.at) + Window
      BY <2>1, <2>4, <2>5, <2>6, <2>11
    <3>2. \A u \in used : u \in uses /\ Clock(u.at) > m - Window
      BY <2>1, <2>2, <2>3, <2>5, <2>6, <3>1
    <3>3. used \subseteq UsedAt(m)
      BY <3>2 DEF UsedAt
    <3> QED BY <2>7, <3>3
  <2>12. CASE m = NextRecharge
    BY <2>9, <2>10, <2>12 DEF used
  <2>13. CASE m # NextRecharge
    BY <2>9, <2>11, <2>13 DEF used
  <2> QED BY <2>12, <2>13
<1>2. Init => UsesInv
  BY FS_EmptySet DEF Init, UsesInv
<1>3. TypeOK /\ UsesInv /\ [Next]_vars => UsesInv'
  BY UsesStep
<1> QED BY <1>1, <1>2, <1>3, TypeCorrect, PTL DEF Spec

-----------------------------------------------------------------------------
(***************************************************************************)
(* The web application's planner.                                          *)
(***************************************************************************)

\* Days since, and days to, a day of the week.
LEMMA DaysSince ==
    ASSUME NEW x \in Int, NEW r \in 0..6
    PROVE  LET since == ((x % 7) - r + 7) % 7
           IN  since \in 0..6 /\ (x - since) % 7 = r
<1> DEFINE w == x % 7
           y == w - r + 7
<1>1. w \in 0..6
  OBVIOUS
<1>2. y \in 1..13
  BY <1>1
<1>3. y % 7 = IF w >= r THEN w - r ELSE w - r + 7
  <2> HIDE DEF w
  <2> QED BY <1>1, <1>2
<1>4. (x - (y % 7)) % 7 = r
  BY <1>1, <1>3
<1> QED BY <1>1, <1>3, <1>4

LEMMA DaysTo ==
    ASSUME NEW x \in Int, NEW r \in 0..6
    PROVE  LET to == (r - (x % 7) + 7) % 7
           IN  to \in 0..6 /\ (x + to) % 7 = r /\ (x + to + 7) % 7 = r
<1> DEFINE w == x % 7
           y == r - w + 7
<1>1. w \in 0..6
  OBVIOUS
<1>2. y \in 1..13
  BY <1>1
<1>3. y % 7 = IF r >= w THEN r - w ELSE r - w + 7
  <2> HIDE DEF w
  <2> QED BY <1>1, <1>2
<1>4. (x + (y % 7)) % 7 = r /\ (x + (y % 7) + 7) % 7 = r
  BY <1>1, <1>3
<1> QED BY <1>1, <1>3, <1>4

\* Both computations of the periods agree for every time and every reset on
\* a day of the week (period.ts of the main process and of the web module).
LEMMA SamePeriods ==
    ASSUME NEW t \in Times, NEW h \in Minutes, NEW d \in 0..6
    PROVE  /\ getDailyPeriodKey(t, h) = dailyPeriodKey(t, h)
           /\ getWeeklyPeriodKey(t, d, h) = weeklyPeriodKey(t, h, d)
           /\ getNextDailyResetAt(t, h) = NextDailyReset(t, h)
           /\ getNextWeeklyResetAt(t, d, h) = NextWeeklyReset(t, h, d)
<1> DEFINE s == [hhmm |-> h, day |-> d]
           k == weeklyPeriodKey(t, h, d)
           x == ShiftedDay(t, h)
<1>0. /\ t.day \in Int /\ t.minute \in Int /\ h \in Int /\ x \in Int
      /\ t = [day |-> t.day, minute |-> t.minute]
  BY DEF Times, Minutes, ShiftedDay
<1>1. ParseHhmm(h) = h /\ ResetDay(d) = d
  BY DEF ParseHhmm, ResetDay
<1>2. k \in Int /\ k % 7 = d /\ k <= x /\ x < k + 7
  <2>1. s \in [hhmm : Int, day : Int] /\ k = Key("WEEKLY", t, s)
    BY <1>0 DEF Key
  <2>2. /\ k \in Int /\ k % 7 = d
        /\ ~Before(t, Reset(k, s)) /\ Before(t, Reset(k + 7, s))
    BY <1>1, <2>1, KeyBounds DEF Kinds, Length
  <2> HIDE DEF k
  <2> QED BY <1>0, <1>1, <2>2 DEF Before, Reset, ShiftedDay
<1> HIDE DEF k
<1>3. getDailyPeriodKey(t, h) = dailyPeriodKey(t, h)
  BY <1>0, <1>1 DEF getDailyPeriodKey, dailyPeriodKey, DailyStart, ShiftedDay, Before
<1>4. getWeeklyPeriodKey(t, d, h) = k
  <2> DEFINE since == ((x % 7) - d + 7) % 7
  <2>1. getWeeklyPeriodKey(t, d, h) = x - since
    BY DEF getWeeklyPeriodKey
  <2>2. since \in 0..6 /\ (x - since) % 7 = d
    BY <1>0, DaysSince
  <2> HIDE DEF since, x
  <2> DEFINE w == x - since
  <2>2a. since \in Int /\ 0 <= since /\ since <= 6
    BY <2>2
  <2>3. w \in Int /\ w <= x /\ x < w + 7
    BY <1>0, <2>2a
  <2>4. w % 7 = d
    BY <2>2
  <2> HIDE DEF w
  <2>5. w = k
    BY <1>0, <1>2, <2>3, <2>4, OneDayOfTheWeek
  <2> QED BY <2>1, <2>5 DEF w
<1>5. getNextDailyResetAt(t, h) = NextDailyReset(t, h)
  BY <1>1 DEF getNextDailyResetAt, NextDailyReset
<1>6. getNextWeeklyResetAt(t, d, h) = NextWeeklyReset(t, h, d)
  <2> DEFINE to == (d - (t.day % 7) + 7) % 7
             n == t.day + IF to = 0 /\ ~Before(t, [day |-> t.day, minute |-> h]) THEN 7 ELSE to
  <2>1. getNextWeeklyResetAt(t, d, h) = [day |-> n, minute |-> h]
    BY DEF getNextWeeklyResetAt
  <2>2. to \in 0..6 /\ (t.day + to) % 7 = d /\ (t.day + to + 7) % 7 = d
    BY <1>0, DaysTo
  <2> HIDE DEF to
  <2>2a. to \in Int /\ 0 <= to /\ to <= 6
    BY <2>2
  <2>3. n \in Int /\ n % 7 = d /\ n - 7 <= x /\ x < n
    <3>1. CASE to = 0 /\ ~Before(t, [day |-> t.day, minute |-> h])
      <4>1. n = t.day + to + 7 /\ x = t.day
        BY <1>0, <2>2, <3>1 DEF Before, ShiftedDay
      <4> HIDE DEF n, x
      <4>2. n \in Int /\ n - 7 <= x /\ x < n
        BY <1>0, <2>2a, <3>1, <4>1
      <4> QED BY <2>2, <4>1, <4>2
    <3>2. CASE to = 0 /\ Before(t, [day |-> t.day, minute |-> h])
      <4>1. n = t.day + to /\ x = t.day - 1
        BY <1>0, <3>2 DEF Before, ShiftedDay
      <4> HIDE DEF n, x
      <4>2. n \in Int /\ n - 7 <= x /\ x < n
        BY <1>0, <2>2a, <3>2, <4>1
      <4> QED BY <2>2, <4>1, <4>2
    <3>3. CASE to # 0
      <4>1. n = t.day + to /\ x \in {t.day, t.day - 1}
        BY <1>0, <3>3 DEF ShiftedDay
      <4> HIDE DEF n, x
      <4>2. to \in Int /\ 1 <= to /\ to <= 6
        BY <2>2, <3>3
      <4>3. n \in Int /\ n - 7 <= x /\ x < n
        BY <1>0, <4>1, <4>2
      <4> QED BY <2>2, <4>1, <4>3
    <3> QED BY <3>1, <3>2, <3>3
  <2> HIDE DEF n, x
  <2>4. (n - 7) % 7 = d /\ n - 7 \in Int
    BY <2>3
  <2>5. n - 7 = k
    <3>1. x < (n - 7) + 7
      BY <1>0, <2>3
    <3> QED BY <1>0, <1>2, <2>3, <2>4, <3>1, OneDayOfTheWeek
  <2>6. NextWeeklyReset(t, h, d) = [day |-> k + 7, minute |-> h]
    <3> DEFINE start == [day |-> t.day - (((t.day % 7) - d + 7) % 7), minute |-> h]
    <3>0. WeeklyStart(t, h, d) = IF Before(t, start) THEN [start EXCEPT !.day = @ - 7] ELSE start
      BY <1>1 DEF WeeklyStart
    <3>1. \E day : WeeklyStart(t, h, d) = [day |-> day, minute |-> h]
      <4>1. CASE Before(t, start)
        <5>1. WeeklyStart(t, h, d) = [day |-> start.day - 7, minute |-> h]
          BY <3>0, <4>1
        <5> QED BY <5>1
      <4>2. CASE ~Before(t, start)
        <5>1. WeeklyStart(t, h, d) = start
          BY <3>0, <4>2
        <5> QED BY <5>1
      <4> QED BY <4>1, <4>2
    <3> QED BY <3>1 DEF NextWeeklyReset, k, weeklyPeriodKey
  <2> QED BY <1>2, <2>1, <2>3, <2>5, <2>6
<1> QED BY <1>3, <1>4, <1>5, <1>6 DEF k

\* Set to the same reset, the web application's planner and the desktop
\* application's count the same periods at every time.
THEOREM WebCountsTheSameHolds == Spec => []WebCountsTheSame
<1>1. ASSUME TypeOK PROVE WebCountsTheSame
  <2>1. now \in Times /\ Effective \in [hhmm : Int, day : Int]
    BY <1>1, EffectiveIsSettings DEF TypeOK
  <2>2. ParseHhmm(Effective.hhmm) \in Minutes /\ ResetDay(Effective.day) \in 0..6
    BY <2>1, InRange
  <2> QED BY <2>1, <2>2, SamePeriods DEF WebCountsTheSame
<1> QED BY <1>1, TypeCorrect, PTL
=============================================================================
