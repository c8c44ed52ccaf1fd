----------------------------- MODULE WebPlanner -----------------------------
(***************************************************************************)
(* The planner of the web application (packages/modules/planner): its today *)
(* page in a tab of the browser, over its IndexedDB database.               *)
(*                                                                         *)
(* A page that calls the database goes on when the call ends; the user may  *)
(* click in between.  `calls` holds the calls in the order they were made.  *)
(* Each is a transaction of its own on one of three stores, and the         *)
(* database orders only those of the same store: a read waits for the       *)
(* writes before it, a write for the reads, too.  A reload reads two stores *)
(* and is settled when both have answered, so that one may overtake another *)
(* and show an older list.                                                  *)
(*                                                                         *)
(* The model begins when the page has loaded the settings and the           *)
(* templates.  One checklist period stands for the day and the week (their  *)
(* completions are read by two transactions that no write comes between);   *)
(* the used stacks of a charge do not come back.                            *)
(***************************************************************************)
EXTENDS Integers, Sequences, FiniteSets, FiniteSetsExt, SequencesExt, Nothing

CONSTANTS
  Characters,
  Tasks,        \* the checklist templates
  Ticket,       \* the charge template
  MaxStacks,    \* its stacks
  Estimate,     \* by template: the seconds it takes
  Budgets,      \* the budgets of the recommendation, in seconds
  MaxInputs,    \* bound: clicks of the user
  MaxPeriod     \* bound: the last period

Templates == Tasks \cup {Ticket}

ASSUME TemplateAssumption ==
  /\ Ticket \notin Tasks
  /\ MaxStacks \in Nat \ {0}
  /\ IsFiniteSet(Tasks) /\ Budgets \subseteq Nat
  /\ Estimate \in [Templates -> Nat]

VARIABLES
  now,          \* the current period
  completions,  \* database: [char, task, period]
  uses,         \* database: by character, the uses of the ticket
  durations,    \* database: [char, task, for]; `for` is the character that
                \*   was selected when the timer was started (history)
  calls,        \* the database calls under way: [kind, char, ...]
  today,        \* the today page: selected, the tasks it shows as done, the
                \*   stacks it shows, its timer, the period it was drawn in,
                \*   the recommendation
  last,         \* the reload whose list it shows: its character and period,
                \*   was it overtaken; the character of the stacks (history)
  inputs

database == <<completions, uses, durations>>
webVars  == <<now, database, calls, today, last, inputs>>

Stacks(c) == IF uses[c] >= MaxStacks THEN 0 ELSE MaxStacks - uses[c]

Done(c, p) == {t \in Tasks : [char |-> c, task |-> t, period |-> p] \in completions}

(* reloadStatus: the list and the recorded times are read.  `late` tells     *)
(* that a newer reload of the same character was settled before (history).   *)
ReloadOf(c) == [kind |-> "reload", char |-> c, period |-> now,
                list |-> None, times |-> FALSE, late |-> FALSE]

Reads(call, store) ==
  \/ store = "completions" /\ call.kind = "reload" /\ call.list = None
  \/ store = "durations" /\ call.kind = "reload" /\ ~call.times
  \/ store = "chargeUses" /\ call.kind \in {"stacks", "latest"}

Writes(call, store) ==
  \/ store = "completions" /\ call.kind \in {"put", "delete"}
  \/ store = "durations" /\ call.kind = "duration"
  \/ store = "chargeUses" /\ call.kind \in {"use", "undo"}

(* The i-th call may read, or write, the store now.                          *)
MayRead(i, store)  == \A j \in 1 .. i - 1 : ~Writes(calls[j], store)
MayWrite(i, store) == \A j \in 1 .. i - 1 : ~Writes(calls[j], store) /\ ~Reads(calls[j], store)

(* It ends, and the page that made it calls the database again.              *)
Continue(i, next) == calls' = RemoveAt(calls, i) \o next

Call(c) == calls' = Append(calls, c)

(* Every change of its state draws the page anew.                            *)
Draw(p) == today' = [p EXCEPT !.drawn = now]

Click == inputs < MaxInputs /\ inputs' = inputs + 1

WebInit ==
  /\ now = 0
  /\ completions = {} /\ durations = {}
  /\ uses = [c \in Characters |-> 0]
  /\ \E c \in Characters :
       /\ today = [selected |-> c, done |-> {}, stacks |-> None, timer |-> None,
                   drawn |-> 0, picks |-> None]
       /\ calls = <<ReloadOf(c)>>
       /\ last = [char |-> c, period |-> 0, late |-> FALSE, stacks |-> c]
  /\ inputs = 0

(* The period ends; nothing draws the page.                                  *)
Tick ==
  /\ now < MaxPeriod
  /\ now' = now + 1
  /\ UNCHANGED <<database, calls, today, last, inputs>>

-----------------------------------------------------------------------------
(* The today page.                                                           *)

(* Variant: the list is never disabled.                                      *)
SelectCharacterAnyTime(c) ==
  /\ Click
  /\ c # today.selected
  /\ Draw([today EXCEPT !.selected = c, !.picks = None])
  /\ Call(ReloadOf(c))
  /\ UNCHANGED <<now, database, last>>

(* selectCharacter; the list is disabled while the timer runs.               *)
SelectCharacter(c) ==
  /\ Click
  /\ today.timer = None
  /\ c # today.selected
  /\ Draw([today EXCEPT !.selected = c, !.picks = None])
  /\ Call(ReloadOf(c))
  /\ UNCHANGED <<now, database, last>>

(* toggleCompletion, in the period the page was drawn in.                    *)
ToggleCompletion(t) ==
  /\ Click
  /\ Call([kind |-> IF t \in today.done THEN "delete" ELSE "put",
           char |-> today.selected, task |-> t, period |-> today.drawn])
  /\ UNCHANGED <<now, database, today, last>>

(* useCharge, on the stacks the page shows.                                  *)
UseCharge ==
  /\ Click
  /\ today.stacks # None /\ today.stacks > 0
  /\ Call([kind |-> "use", char |-> today.selected])
  /\ UNCHANGED <<now, database, today, last>>

(* undoCharge looks for the latest use first.                                *)
UndoCharge ==
  /\ Click
  /\ Call([kind |-> "latest", char |-> today.selected])
  /\ UNCHANGED <<now, database, today, last>>

(* startTimer; its buttons are disabled while a timer runs.                  *)
StartTimer(t) ==
  /\ Click
  /\ today.timer = None
  /\ Draw([today EXCEPT !.timer = [task |-> t, for |-> today.selected]])
  /\ UNCHANGED <<now, database, calls, last>>

(* stopTimer; the timer runs until the duration is stored.                   *)
StopTimer ==
  /\ Click
  /\ today.timer # None
  /\ Call([kind |-> "duration", char |-> today.selected,
           task |-> today.timer.task, for |-> today.timer.for])
  /\ UNCHANGED <<now, database, today, last>>

(* buildCandidatesForRecommend: what the page shows as not done.             *)
Candidates ==
  (Tasks \ today.done) \cup (IF today.stacks # None /\ today.stacks > 0 THEN {Ticket} ELSE {})

(* Variant: the longest first.                                               *)
LongestFirst(candidates) ==
  {q \in SetToSeqs({t \in candidates : Estimate[t] > 0}) :
     \A i, j \in DOMAIN q : i < j => Estimate[q[i]] >= Estimate[q[j]]}

(* The tasks that take any time, the shortest first; which of two that take  *)
(* the same comes first depends on the order of the page's lists.            *)
ShortestFirst(candidates) ==
  {q \in SetToSeqs({t \in candidates : Estimate[t] > 0}) :
     \A i, j \in DOMAIN q : i < j => Estimate[q[i]] <= Estimate[q[j]]}

(* recommendForBudget, from `sorted` on: after n of its tasks, those that    *)
(* still fitted and the seconds that remain.                                 *)
RecommendForBudget(sorted, budget) ==
  LET after[n \in 0 .. Len(sorted)] ==
        IF n = 0 THEN [ids |-> {}, left |-> budget]
        ELSE IF Estimate[sorted[n]] <= after[n - 1].left
             THEN [ids |-> after[n - 1].ids \cup {sorted[n]},
                   left |-> after[n - 1].left - Estimate[sorted[n]]]
             ELSE after[n - 1]
  IN  after[Len(sorted)].ids

(* applyRecommendation.  `from` is history.                                  *)
ApplyRecommendation(budget) ==
  /\ Click
  /\ \E sorted \in ShortestFirst(Candidates) :
       Draw([today EXCEPT !.picks = [budget |-> budget, from |-> Candidates,
                                     ids |-> RecommendForBudget(sorted, budget)]])
  /\ UNCHANGED <<now, database, calls, last>>

-----------------------------------------------------------------------------
(* The calls of the today page end.                                          *)

(* Variant: the page goes on without reading the list anew.                  *)
ToggleStoredOnly(i) ==
  /\ calls[i].kind \in {"put", "delete"} /\ MayWrite(i, "completions")
  /\ LET row == [char |-> calls[i].char, task |-> calls[i].task, period |-> calls[i].period]
     IN  completions' = IF calls[i].kind = "put" THEN completions \cup {row}
                                                 ELSE completions \ {row}
  /\ Continue(i, <<>>)
  /\ UNCHANGED <<uses, durations, today, last>>

(* The completion is stored or deleted; then reloadStatus.                   *)
ToggleStored(i) ==
  /\ calls[i].kind \in {"put", "delete"} /\ MayWrite(i, "completions")
  /\ LET row == [char |-> calls[i].char, task |-> calls[i].task, period |-> calls[i].period]
     IN  completions' = IF calls[i].kind = "put" THEN completions \cup {row}
                                                 ELSE completions \ {row}
  /\ Continue(i, <<ReloadOf(calls[i].char)>>)
  /\ UNCHANGED <<uses, durations, today, last>>

UseStored(i) ==
  /\ calls[i].kind = "use" /\ MayWrite(i, "chargeUses")
  /\ uses' = [uses EXCEPT ![calls[i].char] = @ + 1]
  /\ Continue(i, <<ReloadOf(calls[i].char)>>)
  /\ UNCHANGED <<completions, durations, today, last>>

(* The uses have been read; the latest, if there is one, is to be deleted.   *)
LatestFound(i) ==
  /\ calls[i].kind = "latest" /\ MayRead(i, "chargeUses")
  /\ Continue(i, IF uses[calls[i].char] = 0 THEN <<>>
                 ELSE <<[kind |-> "undo", char |-> calls[i].char, use |-> uses[calls[i].char]]>>)
  /\ UNCHANGED <<database, today, last>>

(* It is deleted by its id: a second deletion of it does nothing.            *)
UndoStored(i) ==
  /\ calls[i].kind = "undo" /\ MayWrite(i, "chargeUses")
  /\ uses' = [uses EXCEPT ![calls[i].char] = IF @ >= calls[i].use THEN @ - 1 ELSE @]
  /\ Continue(i, <<ReloadOf(calls[i].char)>>)
  /\ UNCHANGED <<completions, durations, today, last>>

(* The duration is stored: the timer is cleared.                             *)
DurationStored(i) ==
  /\ calls[i].kind = "duration" /\ MayWrite(i, "durations")
  /\ durations' = durations \cup {[char |-> calls[i].char, task |-> calls[i].task,
                                   for |-> calls[i].for]}
  /\ Draw([today EXCEPT !.timer = None])
  /\ Continue(i, <<ReloadOf(calls[i].char)>>)
  /\ UNCHANGED <<completions, uses, last>>

(* The reloads of the character that the i-th one overtakes.                 *)
Overtaken(i) ==
  [j \in DOMAIN calls |->
     IF j < i /\ calls[j].kind = "reload" /\ calls[j].char = calls[i].char
     THEN [calls[j] EXCEPT !.late = TRUE] ELSE calls[j]]

(* Both stores have answered: the list is shown; then the uses are read.     *)
Reloaded(i, list) ==
  /\ Draw([today EXCEPT !.done = list])
  /\ last' = [last EXCEPT !.char = calls[i].char, !.period = calls[i].period,
                          !.late = calls[i].late]
  /\ calls' = Append(RemoveAt(Overtaken(i), i), [kind |-> "stacks", char |-> calls[i].char])

Answered(i, list, times) ==
  /\ \/ /\ list = None \/ ~times
        /\ calls' = [calls EXCEPT ![i].list = list, ![i].times = times]
        /\ UNCHANGED <<today, last>>
     \/ list # None /\ times /\ Reloaded(i, list)
  /\ UNCHANGED database

ListRead(i) ==
  /\ calls[i].kind = "reload" /\ calls[i].list = None
  /\ MayRead(i, "completions")
  /\ Answered(i, Done(calls[i].char, calls[i].period), calls[i].times)

TimesRead(i) ==
  /\ calls[i].kind = "reload" /\ ~calls[i].times
  /\ MayRead(i, "durations")
  /\ Answered(i, calls[i].list, TRUE)

StacksRead(i) ==
  /\ calls[i].kind = "stacks" /\ MayRead(i, "chargeUses")
  /\ Draw([today EXCEPT !.stacks = Stacks(calls[i].char)])
  /\ last' = [last EXCEPT !.stacks = calls[i].char]
  /\ Continue(i, <<>>)
  /\ UNCHANGED database

CallEnds(i) ==
  /\ \/ ToggleStored(i) \/ UseStored(i) \/ LatestFound(i) \/ UndoStored(i)
     \/ DurationStored(i) \/ ListRead(i) \/ TimesRead(i) \/ StacksRead(i)
  /\ UNCHANGED <<now, inputs>>

WebNext ==
  \/ Tick
  \/ \E c \in Characters : SelectCharacter(c)
  \/ \E t \in Tasks : ToggleCompletion(t)
  \/ \E t \in Templates : StartTimer(t)
  \/ UseCharge \/ UndoCharge \/ StopTimer
  \/ \E b \in Budgets : ApplyRecommendation(b)
  \/ \E i \in DOMAIN calls : CallEnds(i)

WebSpec == WebInit /\ [][WebNext]_webVars
-----------------------------------------------------------------------------
(* A duration is stored for the character that was selected when its timer   *)
(* was started, whatever is clicked while it runs and while it is stored     *)
(* (today.tsx: the list of characters is disabled while activeTimer is set). *)
TimedForTheSelected == \A d \in durations : d.char = d.for

(* When no call is under way the page shows the stacks that are stored for   *)
(* the character they were read for last, and the list that is stored for    *)
(* the character and the period of the reload shown, whatever was clicked    *)
(* meanwhile (today.tsx, reloadStatus after each write).  The code promises  *)
(* no more: a reload that settles after a newer one of the same character    *)
(* leaves an older list, which may lack the last tick, and one that settles  *)
(* after another character was selected leaves its list under that one.      *)
ShownIsStored ==
  calls = <<>> => /\ last.late \/ today.done = Done(last.char, last.period)
                  /\ today.stacks = Stacks(last.stacks)

(* What a choice of tasks takes.                                             *)
Seconds(S) == MapThenSumSet(LAMBDA t : Estimate[t], S)

(* The recommendation fits the budget, and no choice of the tasks it was     *)
(* made from that fits has more of them (recommend.ts).                      *)
RecommendsTheMost ==
  today.picks # None =>
    LET fits(S) == Seconds(S) <= today.picks.budget IN
    /\ today.picks.ids \subseteq today.picks.from
    /\ fits(today.picks.ids)
    /\ \A S \in SUBSET {t \in today.picks.from : Estimate[t] > 0} :
         fits(S) => Cardinality(S) <= Cardinality(today.picks.ids)
=============================================================================
