----------------------------- MODULE PlannerClock -----------------------------
(***************************************************************************)
(* The planner over time, for one character with a daily, a weekly and a   *)
(* charge template: completions are kept under the key of their period, so *)
(* that a reset reopens the tasks without touching a row; uses of a charge *)
(* count for a window of time.  The resets are those of the character's    *)
(* server or, without an entry for it, the default, and the user may       *)
(* change either at any moment.                                            *)
(***************************************************************************)
EXTENDS PeriodKeys, FiniteSets

CONSTANTS
    Settings,       \* reset times and days the user enters, malformed ones too
    None,
    Window,         \* minutes until a use is recharged
    MaxStacks,      \* of the charge template
    Horizon,        \* bound: days the clock runs
    MaxToggles,     \* bound: completions and uses recorded
    MaxChanges      \* bound: changes of the settings

ASSUME ClockAssumption ==
    /\ Settings \subseteq [hhmm : Int, day : Int]
    /\ {Window, MaxStacks, Horizon, MaxToggles, MaxChanges} \subseteq Nat

VARIABLES
    now,
    base, server,   \* planner_settings: default, and of the character's server
    rows,           \* planner_completion
    uses,           \* planner_charge_use
    last,           \* history: the last toggle of each kind
    toggles, changes

vars == <<now, base, server, rows, uses, last, toggles, changes>>

Kinds == {"DAILY", "WEEKLY"}

\* by is a history field: the settings that gave the row its key.
Rows == [kind : Kinds, key : Int, at : Times, by : Settings]

TypeOK ==
    /\ now \in Times
    /\ base \in Settings
    /\ server \in Settings \cup {None}
    /\ rows \in SUBSET Rows
    /\ uses \in SUBSET [n : Nat, at : Times]
    /\ last \in [Kinds -> [at : Times, by : Settings, completed : BOOLEAN] \cup {None}]
    /\ toggles \in 0..MaxToggles
    /\ changes \in 0..MaxChanges

\* The first day is a Friday; the default settings are those of an earlier session.
Init ==
    /\ now = [day |-> 5, minute |-> 0]
    /\ base \in Settings
    /\ server = None
    /\ rows = {}
    /\ uses = {}
    /\ last = [kind \in Kinds |-> None]
    /\ toggles = 0
    /\ changes = 0

Tick ==
    /\ now.day < 5 + Horizon
    /\ now' = IF now.minute + 1 \in Minutes THEN [now EXCEPT !.minute = @ + 1]
                                            ELSE [day |-> now.day + 1, minute |-> 0]
    /\ UNCHANGED <<base, server, rows, uses, last, toggles, changes>>

-----------------------------------------------------------------------------
(***************************************************************************)
(* Settings.                                                               *)
(***************************************************************************)
Effective == IF server = None THEN base ELSE server

Change(newBase, newServer) ==
    /\ changes < MaxChanges
    /\ changes' = changes + 1
    /\ base' = newBase
    /\ server' = newServer
    /\ UNCHANGED <<now, rows, uses, last, toggles>>

SetDefault(s) == Change(s, server)
SetServer(s) == Change(base, s)
ClearServer == Change(base, None)

-----------------------------------------------------------------------------
(***************************************************************************)
(* Completions.                                                            *)
(***************************************************************************)
Key(kind, t, s) ==
    IF kind = "DAILY" THEN dailyPeriodKey(t, s.hhmm) ELSE weeklyPeriodKey(t, s.hhmm, s.day)

\* The overview at the time t: is the task shown as completed?
Completed(kind, t) == \E r \in rows : r.kind = kind /\ r.key = Key(kind, t, Effective)

\* The completions after one is set, unless its key is taken, or unset.
SetCompletion(kind, key, by, completed) ==
    LET taken == {r \in rows : r.kind = kind /\ r.key = key}
    IN  rows' = IF ~completed THEN rows \ taken
                ELSE IF taken # {} THEN rows
                ELSE rows \cup {[kind |-> kind, key |-> key, at |-> now, by |-> by]}

Toggled(kind, by, completed) ==
    /\ toggles < MaxToggles
    /\ toggles' = toggles + 1
    /\ last' = [last EXCEPT ![kind] = [at |-> now, by |-> by, completed |-> completed]]
    /\ UNCHANGED <<now, base, server, uses, changes>>

\* Variant: the default settings are taken for every server.
ToggleByDefault(kind, completed) ==
    /\ SetCompletion(kind, Key(kind, now, base), Effective, completed)
    /\ Toggled(kind, Effective, completed)

\* planner:toggleComplete; the key is that of the time the call arrives.
Toggle(kind, completed) ==
    /\ SetCompletion(kind, Key(kind, now, Effective), Effective, completed)
    /\ Toggled(kind, Effective, completed)

-----------------------------------------------------------------------------
(***************************************************************************)
(* Charges.                                                                *)
(***************************************************************************)
Clock(t) == t.day * DayMinutes + t.minute

\* Variant: used_at >= $cutoff.
UsedAtClosed(m) == {u \in uses : Clock(u.at) >= m - Window}

\* The uses that count at the minute m.
UsedAt(m) == {u \in uses : Clock(u.at) > m - Window}

\* nextRechargeAt of the overview.
NextRecharge ==
    LET used == UsedAt(Clock(now))
    IN  IF used = {} \/ MaxStacks = 0 THEN None
        ELSE (CHOOSE m \in {Clock(u.at) : u \in used} :
                 \A u \in used : m <= Clock(u.at)) + Window

\* The handler records the use also when no stack is left.
UseCharge ==
    /\ toggles < MaxToggles
    /\ toggles' = toggles + 1
    /\ uses' = uses \cup {[n |-> toggles, at |-> now]}
    /\ UNCHANGED <<now, base, server, rows, last, changes>>

UndoCharge ==
    \E u \in uses :
        /\ \A v \in uses : ~Before(u.at, v.at)
        /\ uses' = uses \ {u}
        /\ UNCHANGED <<now, base, server, rows, last, toggles, changes>>

-----------------------------------------------------------------------------
Next ==
    \/ Tick
    \/ \E s \in Settings : SetDefault(s) \/ SetServer(s)
    \/ ClearServer
    \/ \E kind \in Kinds, completed \in BOOLEAN : Toggle(kind, completed)
    \/ UseCharge
    \/ UndoCharge

Spec == Init /\ [][Next]_vars

-----------------------------------------------------------------------------
(***************************************************************************)
(* Properties.                                                             *)
(***************************************************************************)

\* The definition of the periods: the days of the resets after the one time
\* and not after the other.
Resets(kind, s, from, to) ==
    {day \in from.day..to.day :
        LET reset == [day |-> day, minute |-> ParseHhmm(s.hhmm)]
        IN  /\ kind = "WEEKLY" => day % 7 = ResetDay(s.day)
            /\ Before(from, reset) /\ ~Before(to, reset)}

\* A task that is shown as completed was completed after the latest reset of
\* the settings in force: it reopens with every reset, in its minute.  Where
\* the reset was moved since it was completed it may outlive one reset, that
\* of the day its period began on, now later that day, and no second one
\* (the period keys of getPlannerOverview).
ReopensAtReset ==
    \A r \in rows :
        r.key = Key(r.kind, now, Effective)
            => Resets(r.kind, Effective, r.at, now)
                 \subseteq (IF r.by = Effective THEN {} ELSE {r.key})

\* What the user last made of a task is what is shown until the next reset,
\* and survives settings that were changed and changed back.
KeptUntilReset ==
    \A kind \in Kinds :
        last[kind] # None =>
            (last[kind].by = Effective /\ Resets(kind, Effective, last[kind].at, now) = {}
                => (Completed(kind, now) <=> last[kind].completed))

\* The reset the pages count down to (reset.ts in the renderer) is the moment
\* the main process moves to the next key (period.ts), and not before.
CountdownEndsPeriod ==
    \A kind \in Kinds :
        LET s == Effective
            next == IF kind = "DAILY" THEN NextDailyReset(now, s.hhmm)
                                      ELSE NextWeeklyReset(now, s.hhmm, s.day)
        IN  /\ Before(now, next)
            /\ Key(kind, next, s) > Key(kind, now, s)
            /\ \A day \in now.day..next.day, minute \in Minutes :
                  LET t == [day |-> day, minute |-> minute]
                  IN  ~Before(t, now) /\ Before(t, next) => Key(kind, t, s) = Key(kind, now, s)

\* At the time the overview announces a recharge a use ceases to count, and
\* none does before.
RechargeOnTime ==
    NextRecharge # None =>
        \A m \in Clock(now)..NextRecharge :
            Cardinality(UsedAt(m)) < Cardinality(UsedAt(Clock(now))) <=> m = NextRecharge

\* Set to the same reset, the web application's planner counts the same days
\* and weeks and counts down to the same resets as the desktop application's,
\* although it computes them another way (modules/planner/lib/period.ts).
WebCountsTheSame ==
    LET hour == ParseHhmm(Effective.hhmm)
        d == ResetDay(Effective.day)
    IN  /\ getDailyPeriodKey(now, hour) = dailyPeriodKey(now, hour)
        /\ getWeeklyPeriodKey(now, d, hour) = weeklyPeriodKey(now, hour, d)
        /\ getNextDailyResetAt(now, hour) = NextDailyReset(now, hour)
        /\ getNextWeeklyResetAt(now, d, hour) = NextWeeklyReset(now, hour, d)
=============================================================================
