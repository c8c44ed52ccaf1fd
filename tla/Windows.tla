------------------------------ MODULE Windows ------------------------------
(***************************************************************************)
(* The two windows of the desktop application, each running App.tsx over    *)
(* the one database of the main process: the main window on its "today"     *)
(* page (PlannerTodayPage) and the overlay on its planner tab               *)
(* (OverlayPlanner).  Each keeps a copy of the active character, polled     *)
(* every ten seconds, and the overview it last received.                    *)
(*                                                                         *)
(* A call from a window is handled by the main process at once and what it  *)
(* reads is read then; a call that writes is answered only when its save    *)
(* has left the queue of saves (WriteQueue of module DesktopDb), in order.  *)
(* Answers to one window arrive in the order they were sent.  Delaying a    *)
(* click to the moment its call is handled changes nothing another actor    *)
(* can see, so that the sending of a call and its handling are one step.    *)
(*                                                                         *)
(* Left out: changes of the list of characters, the timers and    *)
(* the averages the recommendation is made from; the stacks of the one      *)
(* charge do not come back while the windows are looked at (they do in      *)
(* module PlannerClock).                                                    *)
(***************************************************************************)
EXTENDS Integers, Sequences, FiniteSets

CONSTANTS
  Characters,    \* the characters of the list
  First,         \* the first of them, chosen when none is active
  Tasks,         \* the tasks of the current period
  MaxStacks,     \* stacks of the charge
  MaxClicks,     \* bound: clicks of the user, in both windows
  MaxFailures,   \* bound: saves that fail
  None           \* no character, no overview

ASSUME WindowsAssumption ==
  /\ First \in Characters /\ None \notin Characters
  /\ MaxClicks \in Nat /\ MaxFailures \in Nat

VARIABLES
  active,     \* the active character of the database, or None
  done,       \* the completions of the database: <<character, task>>
  used,       \* by character: the uses of the charge in the database
  saves,      \* the queue of saves: [win, kind, char]
  char,       \* by window: the active character it knows
  shown,      \* by window: the overview it shows, or None
  loading,    \* by window: a refresh is under way
  listed,     \* the windows that have the list of characters
  replies,    \* by window: the answers on their way to it
  clicks,     \* clicks so far
  failures,   \* saves that failed so far
  wrote,      \* the windows that toggled a task or used the charge (history)
  stale       \* by window: its last write was refused after the database
              \* had taken it, and no overview has arrived since (history)

database == <<active, done, used>>
page     == <<char, shown, loading, listed>>
vars     == <<active, done, used, saves, char, shown, loading, listed, replies,
              clicks, failures, wrote, stale>>

Windows == {"main", "overlay"}

Overview(c) == [char |-> c, done |-> {t \in Tasks : <<c, t>> \in done},
                used |-> used[c]]

Answer(kind, value) == [kind |-> kind, value |-> value]

Send(w, answers) == replies' = [replies EXCEPT ![w] = @ \o answers]
Rest(w, answers) == replies' = [replies EXCEPT ![w] = Tail(@) \o answers]

Answers(w, kind) ==
  /\ replies[w] # <<>>
  /\ Head(replies[w]).kind = kind

(* What getOverview answers to window w that knows c; the overlay does not   *)
(* call it without a character.                                             *)
GetOverview(w, c) ==
  LET of == IF c = None THEN active ELSE c
  IN  IF w = "overlay" /\ c = None
        THEN <<>>
        ELSE <<Answer("overview", IF of = None THEN None ELSE Overview(of))>>

Init ==
  /\ active \in Characters \cup {None}
  /\ done = {}
  /\ used = [c \in Characters |-> 0]
  /\ saves = <<>>
  /\ char = [w \in Windows |-> None]
  /\ shown = [w \in Windows |-> None]
  /\ loading = [w \in Windows |-> w = "main"]
  /\ listed = {}
  /\ replies = [w \in Windows |-> GetOverview(w, None)]
  /\ clicks = 0
  /\ failures = 0
  /\ wrote = {}
  /\ stale = [w \in Windows |-> FALSE]

-----------------------------------------------------------------------------
(* The active character.                                                     *)

(* Variant: a character the window has is kept.                              *)
LearnOnce(w, c) ==
  LET d == IF char[w] = None THEN c ELSE char[w]
      refresh == IF d = char[w] THEN <<>> ELSE GetOverview(w, d) IN
  /\ char' = [char EXCEPT ![w] = d]
  /\ loading' = [loading EXCEPT ![w] = @ \/ refresh # <<>>]
  /\ shown' = shown
  /\ Rest(w, refresh)

(* The window learns that the active character is c: a change makes the page *)
(* refresh.  The answers go to the window behind those already sent.         *)
Learn(w, c) ==
  LET refresh == IF c = char[w] THEN <<>> ELSE GetOverview(w, c) IN
  /\ char' = [char EXCEPT ![w] = c]
  /\ loading' = [loading EXCEPT ![w] = @ \/ refresh # <<>>]
  /\ shown' = IF w = "overlay" /\ c = None
                THEN [shown EXCEPT ![w] = None] ELSE shown
  /\ Rest(w, refresh)

(* refreshCharacters: on a timer.  What was answered before has arrived, and *)
(* the choice it made before is saved, when the timer fires ten seconds      *)
(* later.                                                                    *)
Poll(w) ==
  /\ replies[w] = <<>>
  /\ \A i \in DOMAIN saves : ~(saves[i].win = w /\ saves[i].kind = "first")
  /\ Send(w, <<Answer("active", active)>>)
  /\ UNCHANGED <<database, saves, page, clicks, failures, wrote, stale>>

(* ... and the rest of it: with no active character the first one is chosen. *)
Polled(w) ==
  /\ Answers(w, "active")
  /\ LET c == Head(replies[w]).value IN
       /\ Learn(w, c)
       /\ active' = IF c = None THEN First ELSE active
       /\ saves' = IF c = None
                     THEN Append(saves, [win |-> w, kind |-> "first", char |-> First])
                     ELSE saves
  /\ listed' = listed \cup {w}
  /\ UNCHANGED <<done, used, clicks, failures, wrote, stale>>

(* changeActiveCharacter, from the list of characters of the window; the     *)
(* list of the main window offers "none" too.                                *)
Choose(w, c) ==
  /\ clicks < MaxClicks
  /\ w \in listed /\ c # char[w]
  /\ c = None => w = "main"
  /\ active' = c
  /\ saves' = Append(saves, [win |-> w, kind |-> "choose", char |-> c])
  /\ clicks' = clicks + 1
  /\ UNCHANGED <<done, used, page, replies, failures, wrote, stale>>

(* The answer to setActiveCharacterId.                                       *)
Chosen(w) ==
  /\ Answers(w, "chosen")
  /\ Learn(w, Head(replies[w]).value)
  /\ UNCHANGED <<database, saves, listed, clicks, failures, wrote, stale>>

-----------------------------------------------------------------------------
(* The overview.                                                             *)

(* The Reload button of the main window, the Refresh button of the overlay.  *)
Reload(w) ==
  /\ clicks < MaxClicks
  /\ ~loading[w]
  /\ w = "overlay" => char[w] # None
  /\ loading' = [loading EXCEPT ![w] = TRUE]
  /\ Send(w, GetOverview(w, char[w]))
  /\ clicks' = clicks + 1
  /\ UNCHANGED <<database, saves, char, shown, listed, failures, wrote, stale>>

(* A refresh ends.                                                           *)
Refreshed(w) ==
  /\ Answers(w, "overview")
  /\ shown' = [shown EXCEPT ![w] = Head(replies[w]).value]
  /\ loading' = [loading EXCEPT ![w] = FALSE]
  /\ Rest(w, <<>>)
  /\ stale' = [stale EXCEPT ![w] = FALSE]
  /\ UNCHANGED <<database, saves, char, listed, clicks, failures, wrote>>

(* A call that changes rows of the character shown and waits for the save.   *)
Write(w) ==
  /\ clicks < MaxClicks
  /\ clicks' = clicks + 1
  /\ saves' = Append(saves, [win |-> w, kind |-> "write", char |-> shown[w].char])
  /\ wrote' = wrote \cup {w}

(* A box is ticked or cleared, for the character of the overview shown.  The *)
(* overlay lists the tasks that remain only.                                 *)
Toggle(w, t) ==
  /\ shown[w] # None
  /\ w = "overlay" => char[w] # None /\ t \notin shown[w].done
  /\ done' = IF t \in shown[w].done
               THEN done \ {<<shown[w].char, t>>}
               ELSE done \cup {<<shown[w].char, t>>}
  /\ Write(w)
  /\ UNCHANGED <<active, used, page, replies, failures, stale>>

(* The buttons of the charge, on the main window: each goes by the stacks    *)
(* shown, and the handlers use or undo what the database has by then.        *)
UseCharge(w) ==
  /\ w = "main" /\ shown[w] # None
  /\ shown[w].used < MaxStacks
  /\ used' = [used EXCEPT ![shown[w].char] = @ + 1]
  /\ Write(w)
  /\ UNCHANGED <<active, done, page, replies, failures, stale>>

UndoCharge(w) ==
  /\ w = "main" /\ shown[w] # None
  /\ shown[w].used > 0
  /\ used' = [used EXCEPT ![shown[w].char] = IF @ = 0 THEN 0 ELSE @ - 1]
  /\ Write(w)
  /\ UNCHANGED <<active, done, page, replies, failures, stale>>

(* Variant: the answer is not shown.                                         *)
ToggledUnseen(w) ==
  /\ Answers(w, "toggled")
  /\ Rest(w, <<>>)
  /\ stale' = [stale EXCEPT ![w] = FALSE]
  /\ UNCHANGED <<database, saves, page, clicks, failures, wrote>>

(* The answer to toggleComplete, useCharge or undoCharge: the overview of    *)
(* the character it was called for.                                          *)
Toggled(w) ==
  /\ Answers(w, "toggled")
  /\ shown' = [shown EXCEPT ![w] = Head(replies[w]).value]
  /\ Rest(w, <<>>)
  /\ stale' = [stale EXCEPT ![w] = FALSE]
  /\ UNCHANGED <<database, saves, char, loading, listed, clicks, failures, wrote>>

(* The call was refused: the error is shown, the overview is not read.       *)
ToggleRefused(w) ==
  /\ Answers(w, "refused")
  /\ Rest(w, <<>>)
  /\ stale' = [stale EXCEPT ![w] = TRUE]
  /\ UNCHANGED <<database, saves, page, clicks, failures, wrote>>

-----------------------------------------------------------------------------
(* The first save of the queue ends, and the handler that waited for it      *)
(* answers.                                                                  *)
Saved ==
  /\ saves # <<>>
  /\ LET s == Head(saves) IN
       Send(s.win, <<IF s.kind = "write" THEN Answer("toggled", Overview(s.char))
                                         ELSE Answer("chosen", s.char)>>)
  /\ saves' = Tail(saves)
  /\ UNCHANGED <<database, page, clicks, failures, wrote, stale>>

(* ... or fails, and the handler throws: nobody waits for the choice of a    *)
(* character.  The database keeps what was written.              *)
SaveFailed ==
  /\ saves # <<>>
  /\ failures < MaxFailures
  /\ Send(Head(saves).win,
          IF Head(saves).kind = "write" THEN <<Answer("refused", None)>> ELSE <<>>)
  /\ saves' = Tail(saves)
  /\ failures' = failures + 1
  /\ UNCHANGED <<database, page, clicks, wrote, stale>>

Arrives(w) ==
  Polled(w) \/ Chosen(w) \/ Refreshed(w) \/ Toggled(w) \/ ToggleRefused(w)

Next ==
  \/ \E w \in Windows :
       \/ Poll(w) \/ Arrives(w) \/ Reload(w)
       \/ \E c \in Characters \cup {None} : Choose(w, c)
       \/ \E t \in Tasks : Toggle(w, t)
       \/ UseCharge(w) \/ UndoCharge(w)
  \/ Saved
  \/ SaveFailed

(* The interval timer fires, answers arrive and saves end; nobody has to     *)
(* click, and a save need not fail.                                          *)
Fairness ==
  /\ WF_vars(Saved)
  /\ \A w \in Windows : WF_vars(Poll(w)) /\ WF_vars(Arrives(w))

Spec == Init /\ [][Next]_vars /\ Fairness
-----------------------------------------------------------------------------
Overviews == [char : Characters, done : SUBSET Tasks, used : 0 .. MaxClicks]

TypeOK ==
  /\ active \in Characters \cup {None}
  /\ done \subseteq Characters \X Tasks
  /\ used \in [Characters -> 0 .. MaxClicks]
  /\ saves \in Seq([win : Windows, kind : {"choose", "first"}, char : Characters \cup {None}]
                   \cup [win : Windows, kind : {"write"}, char : Characters])
  /\ char \in [Windows -> Characters \cup {None}]
  /\ shown \in [Windows -> Overviews \cup {None}]
  /\ loading \in [Windows -> BOOLEAN]
  /\ listed \subseteq Windows
  /\ \A w \in Windows : replies[w] \in
       Seq([kind : {"active", "chosen"}, value : Characters \cup {None}]
           \cup [kind : {"overview"}, value : Overviews \cup {None}]
           \cup [kind : {"toggled"}, value : Overviews]
           \cup [kind : {"refused"}, value : {None}])
  /\ clicks \in 0 .. MaxClicks
  /\ failures \in 0 .. MaxFailures
  /\ wrote \subseteq Windows
  /\ stale \in [Windows -> BOOLEAN]

(* No answer is on its way to the window and none of its saves waits.        *)
Quiet(w) ==
  /\ replies[w] = <<>>
  /\ \A i \in DOMAIN saves : saves[i].win # w

(* When every call of a window has been answered, none of them refused, and  *)
(* only this window has written, its boxes and stacks are the database's:    *)
(* the overview of a refresh sent before a toggle never hides the toggle     *)
(* (PlannerTodayPage.tsx, OverlayPlanner.tsx: every answer replaces the      *)
(* overview).                                                                *)
ShownIsStored ==
  \A w \in Windows :
    Quiet(w) /\ ~stale[w] /\ wrote \subseteq {w} /\ shown[w] # None
      => shown[w] = Overview(shown[w].char)

(* Once nobody clicks any more, both windows know the active character of    *)
(* the database, whoever chose it last, and a window that wrote nothing      *)
(* shows its overview (App.tsx, refreshCharacters).                          *)
WindowsFollow ==
  <>[](\A w \in Windows :
         /\ char[w] = active
         /\ w \notin wrote => shown[w] # None /\ shown[w].char = active)
=============================================================================
