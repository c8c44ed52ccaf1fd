-------------------------- MODULE AppLifecycleProofs --------------------------
(***************************************************************************)
(* The overlay in the life of the application, whatever the bounds and the *)
(* number of clicks under way: its types, that it is visible and watched   *)
(* only while it is on, and that in auto mode it is not left over another  *)
(* program.                                                                *)
(*                                                                         *)
(* Switched and Following are what the properties need to be inductive: a  *)
(* manager without a window has not started a watcher yet; and in auto     *)
(* mode a visible overlay has reported its focus, and not yet lost it.     *)
(***************************************************************************)
EXTENDS AppLifecycle, TLAPS

Switched ==
    /\ win = "none" => ~visible
    /\ win = "none" /\ disposal = "no" => watcher = "none"
    /\ win = "none" /\ watcher = "running" /\ phase # "ended" => enabled \/ disposal = "done"

Following == visible /\ watcher = "running" => overlayFocused

IInv == TypeOK /\ OnlyEnabled /\ Switched /\ Following

\* The invariant holds before the application starts.
LEMMA InitIInv == AppInit => IInv
<1> SUFFICES ASSUME AppInit PROVE IInv
  OBVIOUS
<1> USE DEF AppInit, Init
<1>1. foreground \in Titles /\ clicks \in 0..MaxClicks
  BY OverlayAssumption
<1>2. TypeOK
  BY <1>1 DEF TypeOK
<1>3. OnlyEnabled
  BY DEF OnlyEnabled
<1>4. Switched
  BY DEF Switched
<1>5. Following
  BY DEF Following
<1> QED BY <1>2, <1>3, <1>4, <1>5 DEF IInv

-----------------------------------------------------------------------------
(***************************************************************************)
(* Parts of the actions.                                                   *)
(***************************************************************************)

\* Hiding and showing keep the types; losing the focus does, too.
LEMMA SetVisibleType ==
    ASSUME TypeOK, NEW v \in BOOLEAN, SetVisible(v), UNCHANGED bounds
    PROVE  /\ visible' = v
           /\ visible' \in BOOLEAN /\ saving' \in BOOLEAN
           /\ stored' \in Bounds \cup {None} /\ foreground' \in Titles
BY DEF TypeOK, SetVisible, PersistState, LoseFocus

\* What updateVisibility makes of the window there is.
LEMMA UpdateVisibilityEffect ==
    ASSUME TypeOK, UNCHANGED bounds,
           NEW on \in BOOLEAN, NEW child \in {"none", "running"},
           NEW over \in BOOLEAN,
           UpdateVisibility(on, child, over)
    PROVE  /\ visible' \in BOOLEAN /\ saving' \in BOOLEAN
           /\ stored' \in Bounds \cup {None} /\ foreground' \in Titles
           /\ win = "none" => visible' = visible
           /\ win # "none" => visible' = (on /\ (child = "running" => over))
<1>1. CASE win = "none"
  BY <1>1 DEF UpdateVisibility, TypeOK
<1>2. CASE win # "none"
  <2> DEFINE v == on /\ (child = "running" => over)
  <2>1. v \in BOOLEAN /\ SetVisible(v)
    BY <1>2 DEF UpdateVisibility
  <2> HIDE DEF v
  <2>2. /\ visible' = v
        /\ visible' \in BOOLEAN /\ saving' \in BOOLEAN
        /\ stored' \in Bounds \cup {None} /\ foreground' \in Titles
    BY <2>1, SetVisibleType
  <2> QED BY <1>2, <2>2 DEF v
<1> QED BY <1>1, <1>2

\* ensureWatcher
LEMMA EnsureWatcherEffect ==
    ASSUME TypeOK, EnsureWatcher
    PROVE  /\ watcher' \in {"none", "running"} /\ looked' \in Titles \cup {None}
           /\ (watcher' = watcher /\ looked' = looked) \/ looked' = None
BY DEF TypeOK, EnsureWatcher

\* Switching a window that is there on or off.
LEMMA ApplyKeeps ==
    ASSUME IInv, NEW on \in BOOLEAN, win # "none", Apply(on),
           enabled' = on, win' \in {"loading", "open"}, clicks' \in 0..MaxClicks,
           UNCHANGED <<bounds, overlayFocused, disposal>>
    PROVE  IInv'
<1>0. TypeOK
  BY DEF IInv
<1>1. CASE on
  <2>1. /\ EnsureWatcher
        /\ UpdateVisibility(on, watcher', overlayFocused)
    BY <1>1 DEF Apply
  <2>2. /\ watcher' \in {"none", "running"} /\ looked' \in Titles \cup {None}
        /\ (watcher' = watcher /\ looked' = looked) \/ looked' = None
    BY <1>0, <2>1, EnsureWatcherEffect
  <2>3. /\ visible' \in BOOLEAN /\ saving' \in BOOLEAN
        /\ stored' \in Bounds \cup {None} /\ foreground' \in Titles
        /\ visible' = (on /\ (watcher' = "running" => overlayFocused))
    BY <1>0, <2>1, <2>2, UpdateVisibilityEffect DEF TypeOK
  <2>4. TypeOK'
    BY <1>0, <2>1, <2>2, <2>3 DEF TypeOK
  <2>5. OnlyEnabled'
    BY <1>1 DEF OnlyEnabled
  <2>6. Switched'
    BY DEF Switched
  <2>7. Following'
    BY <1>1, <2>1, <2>2, <2>3 DEF IInv, Following
  <2> QED BY <2>4, <2>5, <2>6, <2>7 DEF IInv
<1>2. CASE ~on
  <2>1. visible' = FALSE /\ LoseFocus /\ StopWatcher /\ PersistState
    BY <1>2 DEF Apply
  <2>2. TypeOK'
    BY <1>0, <2>1 DEF TypeOK, LoseFocus, StopWatcher, PersistState
  <2>3. OnlyEnabled' /\ Switched' /\ Following'
    BY <2>1 DEF StopWatcher, OnlyEnabled, Switched, Following
  <2> QED BY <2>2, <2>3 DEF IInv
<1> QED BY <1>1, <1>2

\* The hot-key and the Hide button, in a manager that is not disposed of.
LEMMA SetEnabledKeeps ==
    ASSUME IInv, SetEnabled(~enabled), disposal # "done", phase # "ended",
           clicks' \in 0..MaxClicks,
           UNCHANGED <<overlayFocused, disposal>>
    PROVE  IInv'
<1>0. TypeOK
  BY DEF IInv
<1>1. CASE win = "none"
  <2>1. /\ enabled' = ~enabled /\ win' = "loading" /\ bounds' \in Bounds
        /\ UNCHANGED <<visible, stored, saving, watcher, looked, foreground>>
    BY <1>0, <1>1 DEF SetEnabled, TypeOK
  <2>2. TypeOK'
    BY <1>0, <2>1 DEF TypeOK
  <2>3. ~visible /\ (watcher = "running" => enabled /\ disposal # "no")
    BY <1>0, <1>1 DEF IInv, Switched, TypeOK
  <2>4. OnlyEnabled' /\ Switched'
    BY <2>1, <2>3 DEF OnlyEnabled, Switched
  <2>5. Following'
    BY <2>1, <2>3 DEF IInv, Following
  <2> QED BY <2>2, <2>4, <2>5 DEF IInv
<1>2. CASE win # "none"
  BY <1>0, <1>2, ApplyKeeps DEF SetEnabled, TypeOK
<1> QED BY <1>1, <1>2

-----------------------------------------------------------------------------
(***************************************************************************)
(* The steps of the overlay and of the application.                        *)
(***************************************************************************)

\* Dispose stops the watcher, and hides the window or begins to save it.
LEMMA DisposeKeeps ==
    ASSUME IInv, Dispose
    PROVE  IInv'
<1>1. TypeOK'
  BY DEF IInv, TypeOK, Dispose, StopWatcher, PersistState, LoseFocus
<1>2. watcher' = "none" /\ enabled' = enabled
  BY DEF Dispose, StopWatcher
<1>3. \/ visible' = FALSE
      \/ visible' = visible /\ win' = win
      \/ enabled /\ win' = win /\ win # "none"
  BY DEF Dispose
<1>4. OnlyEnabled'
  BY <1>2, <1>3 DEF IInv, OnlyEnabled
<1>5. Switched' /\ Following'
  BY <1>2, <1>3 DEF IInv, Switched, Following
<1> QED BY <1>1, <1>4, <1>5 DEF IInv

\* Everything else the overlay does.
LEMMA WorksKeeps ==
    ASSUME IInv, Works, phase = "running", phase' \in {"running", "ended"}
    PROVE  IInv'
<1>0. TypeOK
  BY DEF IInv
<1>1. CASE Hotkey
  BY <1>0, <1>1, SetEnabledKeeps DEF Hotkey, TypeOK
<1>2. CASE ClickHide
  <2>1. clicks' \in 0..MaxClicks
    BY <1>0, <1>2, OverlayAssumption DEF ClickHide, TypeOK
  <2> QED BY <1>2, <2>1
      DEF ClickHide, IInv, TypeOK, OnlyEnabled, Switched, Following
<1>3. CASE ToggleOverlay
  <2>1. clicks' \in 0..MaxClicks
    BY <1>0, <1>3, OverlayAssumption DEF ToggleOverlay, TypeOK
  <2>2. CASE disposal = "done"
    BY <1>3, <2>1, <2>2
       DEF ToggleOverlay, IInv, TypeOK, OnlyEnabled, Switched, Following
  <2>3. CASE disposal # "done"
    BY <1>3, <2>1, <2>3, SetEnabledKeeps DEF ToggleOverlay
  <2> QED BY <2>2, <2>3
<1>4. CASE Loaded
  BY <1>0, <1>4, ApplyKeeps DEF Loaded, TypeOK
<1>5. CASE LoadFails
  BY <1>5 DEF LoadFails, IInv, TypeOK, OnlyEnabled, Switched, Following
<1>6. CASE Persisted
  <2>1. CASE disposal = "saving"
    BY <1>6, <2>1
       DEF Persisted, LoseFocus, IInv, TypeOK, OnlyEnabled, Switched, Following
  <2>2. CASE disposal # "saving"
    BY <1>6, <2>2 DEF Persisted, IInv, TypeOK, OnlyEnabled, Switched, Following
  <2> QED BY <2>1, <2>2
<1>7. ASSUME NEW title \in Titles, Focus(title) PROVE IInv'
  <2>1. foreground' = title /\ (title = "overlay" => visible)
    BY <1>7 DEF Focus
  <2> QED BY <1>7, <2>1 DEF Focus, IInv, TypeOK, OnlyEnabled, Switched, Following
<1>8. CASE FocusEvent
  <2>1. /\ overlayFocused' \in BOOLEAN
        /\ UpdateVisibility(enabled, watcher, overlayFocused')
        /\ UNCHANGED <<enabled, win, bounds, watcher, looked, clicks, disposal>>
    BY <1>8 DEF FocusEvent
  <2>2. /\ visible' \in BOOLEAN /\ saving' \in BOOLEAN
        /\ stored' \in Bounds \cup {None} /\ foreground' \in Titles
        /\ win = "none" => visible' = visible
        /\ win # "none" =>
              visible' = (enabled /\ (watcher = "running" => overlayFocused'))
    BY <1>0, <2>1, UpdateVisibilityEffect DEF TypeOK
  <2>3. TypeOK'
    BY <1>0, <2>1, <2>2 DEF TypeOK
  <2>4. OnlyEnabled' /\ Switched'
    BY <2>1, <2>2 DEF IInv, OnlyEnabled, Switched
  <2>5. Following'
    BY <2>1, <2>2 DEF IInv, Switched, Following
  <2> QED BY <2>3, <2>4, <2>5 DEF IInv
<1>9. ASSUME NEW b \in Bounds, Move(b) PROVE IInv'
  BY <1>9 DEF Move, IInv, TypeOK, OnlyEnabled, Switched, Following
<1>10. CASE Close
  <2>1. CASE disposal = "no"
    <3>1. /\ SetVisible(FALSE) /\ visible /\ foreground = "overlay" /\ overlayFocused
          /\ UNCHANGED <<enabled, win, bounds, overlayFocused, watcher, looked,
                         clicks, disposal>>
      BY <1>10, <2>1 DEF Close
    <3>2. visible' = FALSE /\ foreground' \in Titles \ {"overlay"}
      BY <3>1 DEF SetVisible, LoseFocus
    <3>3. TypeOK'
      BY <1>0, <3>1, SetVisibleType DEF TypeOK
    <3>4. OnlyEnabled' /\ Switched' /\ Following'
      BY <3>1, <3>2 DEF IInv, OnlyEnabled, Switched, Following
    <3> QED BY <3>3, <3>4 DEF IInv
  <2>2. CASE disposal # "no"
    <3>1. /\ visible' = FALSE /\ win' = "none" /\ LoseFocus /\ visible
          /\ UNCHANGED <<enabled, bounds, stored, saving, overlayFocused, watcher, looked, clicks, disposal>>
      BY <1>10, <2>2 DEF Close
    <3>2. TypeOK'
      BY <1>0, <3>1 DEF TypeOK, LoseFocus
    <3>3. OnlyEnabled' /\ Switched' /\ Following'
      BY <2>2, <3>1 DEF IInv, OnlyEnabled, Switched, Following
    <3> QED BY <3>2, <3>3 DEF IInv
  <2> QED BY <2>1, <2>2
<1>11. CASE Poll
  BY <1>11 DEF Poll, IInv, TypeOK, OnlyEnabled, Switched, Following
<1>12. CASE WatcherLost
  <2>1. /\ watcher' = "none" /\ looked' = None
        /\ UpdateVisibility(enabled, "none", overlayFocused)
        /\ UNCHANGED <<enabled, win, bounds, overlayFocused, clicks, disposal>>
    BY <1>0, <1>12 DEF WatcherLost, StopWatcher, TypeOK
  <2>2. /\ visible' \in BOOLEAN /\ saving' \in BOOLEAN
        /\ stored' \in Bounds \cup {None} /\ foreground' \in Titles
        /\ win = "none" => visible' = visible
        /\ win # "none" =>
              visible' = (enabled /\ ("none" = "running" => overlayFocused))
    <3>1. {enabled, overlayFocused} \subseteq BOOLEAN /\ "none" \in {"none", "running"}
      BY <1>0 DEF TypeOK
    <3> QED BY <1>0, <2>1, <3>1, UpdateVisibilityEffect
  <2>3. win # "none" => visible' = enabled
    BY <1>0, <2>2 DEF TypeOK
  <2>4. TypeOK'
    BY <1>0, <2>1, <2>2 DEF TypeOK
  <2>5. OnlyEnabled' /\ Switched' /\ Following'
    BY <2>1, <2>2, <2>3 DEF IInv, OnlyEnabled, Switched, Following
  <2> QED BY <2>4, <2>5 DEF IInv
<1> QED
  BY <1>1, <1>2, <1>3, <1>4, <1>5, <1>6, <1>7, <1>8, <1>9, <1>10, <1>11, <1>12
  DEF Works

\* A step that leaves the overlay alone.
LEMMA OverlayAlone ==
    ASSUME IInv, UNCHANGED vars, phase # "ended" \/ phase' = "ended"
    PROVE  IInv'
BY DEF vars, IInv, TypeOK, OnlyEnabled, Switched, Following

\* app.quit() hides the overlay, or closes it and ends the application.
LEMMA CloseWindowsKeeps ==
    ASSUME IInv, CloseWindows, phase = "running"
    PROVE  IInv'
<1>0. TypeOK
  BY DEF IInv
<1>1. CASE /\ win = "none"
           /\ MainGone("none")
           /\ UNCHANGED vars
  BY <1>1, OverlayAlone DEF MainGone
<1>2. CASE /\ win # "none" /\ disposal = "no"
           /\ MainGone(win)
           /\ SetVisible(FALSE)
           /\ UNCHANGED <<enabled, win, bounds, overlayFocused, watcher, looked,
                          clicks, disposal>>
  <2>1. TypeOK' /\ visible' = FALSE
    BY <1>0, <1>2, SetVisibleType DEF TypeOK
  <2>2. OnlyEnabled' /\ Switched' /\ Following'
    BY <1>2, <2>1 DEF IInv, OnlyEnabled, Switched, Following
  <2> QED BY <2>1, <2>2 DEF IInv
<1>3. CASE /\ win # "none" /\ disposal # "no"
           /\ win' = "none"
           /\ visible' = FALSE
           /\ MainGone("none")
           /\ LoseFocus
           /\ UNCHANGED <<enabled, bounds, stored, saving, overlayFocused,  watcher, looked, clicks, disposal>>
  <2>1. phase' = "ended"
    BY <1>3 DEF MainGone
  <2>2. TypeOK'
    BY <1>0, <1>3 DEF TypeOK, LoseFocus
  <2>3. OnlyEnabled' /\ Switched' /\ Following'
    BY <1>3, <2>1 DEF IInv, OnlyEnabled, Switched, Following
  <2> QED BY <2>2, <2>3 DEF IInv
<1> QED BY <1>1, <1>2, <1>3 DEF CloseWindows

\* The application's steps, as far as the overlay is concerned.
LEMMA AppEffects ==
    ASSUME [AppNext]_appVars
    PROVE  \/ /\ UNCHANGED vars
              /\ phase # "ended" \/ phase' = "ended"
           \/ phase = "running" /\ CloseWindows
           \/ Dispose
           \/ /\ PersistState /\ win # "none"
              /\ UNCHANGED <<enabled, win, visible, bounds, overlayFocused,     watcher, looked, foreground, clicks, disposal>>
              /\ UNCHANGED phase
           \/ /\ Works /\ phase = "running" /\ phase' \in {"running", "ended"}
<1>1. CASE Started \/ StartEnds \/ ShowMainWindow \/ CloseMain
  BY <1>1 DEF Started, StartEnds, ShowMainWindow, CloseMain, MainGone
<1>2. ASSUME NEW b \in MainStates, MoveMain(b)
      PROVE  UNCHANGED vars /\ phase # "ended"
  BY <1>2 DEF MoveMain
<1>3. CASE Quit
  BY <1>3 DEF Quit
<1>4. CASE phase = "running" /\ (CloseSaved \/ CloseSaveFails \/ Disposed)
  BY <1>4 DEF CloseSaved, CloseSaveFails, Disposed, DestroyFirst, MainGone
<1>5. CASE phase = "running" /\ (QuitSaved \/ QuitSaveFails \/ QuitAgain)
  BY <1>5 DEF QuitSaved, QuitSaveFails, QuitAgain
<1>6. CASE OverlayDoes(Works)
  BY <1>6 DEF OverlayDoes
<1>7. CASE UNCHANGED appVars
  BY <1>7 DEF appVars, life
<1> QED BY <1>1, <1>2, <1>3, <1>4, <1>5, <1>6, <1>7 DEF AppNext, Handlers

\* Every step of the application keeps the invariant.
LEMMA StepIInv == IInv /\ [AppNext]_appVars => IInv'
<1> SUFFICES ASSUME IInv, [AppNext]_appVars PROVE IInv'
  OBVIOUS
<1>1. CASE UNCHANGED vars /\ (phase # "ended" \/ phase' = "ended")
  BY <1>1, OverlayAlone
<1>2. CASE phase = "running" /\ CloseWindows
  BY <1>2, CloseWindowsKeeps
<1>3. CASE Dispose
  BY <1>3, DisposeKeeps
<1>4. CASE /\ PersistState /\ win # "none"
           /\ UNCHANGED <<enabled, win, visible, bounds, overlayFocused,  watcher, looked, foreground, clicks, disposal>>
           /\ UNCHANGED phase
  BY <1>4 DEF PersistState, IInv, TypeOK, OnlyEnabled, Switched, Following
<1>5. CASE /\ Works /\ phase = "running" /\ phase' \in {"running", "ended"}
  BY <1>5, WorksKeeps
<1> QED BY <1>1, <1>2, <1>3, <1>4, <1>5, AppEffects

\* The invariant holds as long as the application runs.
LEMMA Invariance == AppSpec => []IInv
<1>1. AppInit => IInv
  BY InitIInv
<1>2. IInv /\ [AppNext]_appVars => IInv'
  BY StepIInv
<1> QED BY <1>1, <1>2, PTL DEF AppSpec

-----------------------------------------------------------------------------
(***************************************************************************)
(* Theorems.                                                               *)
(***************************************************************************)

\* Types of the overlay's state, in the life of the application.
THEOREM TypeCorrect == AppSpec => []TypeOK
<1>1. IInv => TypeOK
  BY DEF IInv
<1> QED BY <1>1, Invariance, PTL

\* The overlay is visible, and before its disposal watched, only while it is
\* on: setEnabled reads enabled again when the window has loaded.
THEOREM OnlyEnabledHolds == AppSpec => []OnlyEnabled
<1>1. IInv => OnlyEnabled
  BY DEF IInv
<1> QED BY <1>1, Invariance, PTL

\* In auto mode the overlay is not left over another program once its focus
\* event was handled (updateVisibility after focus, blur, toggles and loads).
THEOREM HidesOffTheGameHolds == AppSpec => []HidesOffTheGame
<1>1. IInv => HidesOffTheGame
  BY DEF IInv, Following, HidesOffTheGame, IsGameTitle
<1> QED BY <1>1, Invariance, PTL

\* A switch that stops the watcher switches the overlay off.
LEMMA SetEnabledStops ==
    ASSUME TypeOK, NEW next \in BOOLEAN, SetEnabled(next), watcher = "running"
    PROVE  watcher' = "running" \/ ~enabled'
<1>1. CASE win = "none"
  BY <1>1 DEF SetEnabled
<1>2. CASE win # "none" /\ next
  <2>1. EnsureWatcher
    BY <1>2 DEF SetEnabled, Apply
  <2> QED BY <2>1 DEF EnsureWatcher
<1>3. CASE win # "none" /\ ~next
  BY <1>3 DEF SetEnabled
<1> QED BY <1>1, <1>2, <1>3

\* When the watcher is lost the overlay that is on is shown (onUnavailable
\* calls updateVisibility after autoMode is reset); no other step stops the
\* watcher of an overlay that stays on.
THEOREM FallsBackToManualHolds == AppSpec => FallsBackToManual
<1>1. ASSUME IInv, [AppNext]_appVars,
             watcher = "running", watcher' = "none", enabled', win' # "none", disposal' = "no"
      PROVE  visible'
  <2>0. TypeOK
    BY <1>1 DEF IInv
  <2>1. CASE UNCHANGED watcher
    BY <1>1, <2>1
  <2>2. CASE phase = "running" /\ CloseWindows
    BY <1>1, <2>2 DEF CloseWindows, vars
  <2>3. CASE Dispose
    BY <1>1, <2>3 DEF Dispose
  <2>4. CASE Works
    <3>1. CASE Hotkey \/ ToggleOverlay
      <4>1. SetEnabled(~enabled) \/ UNCHANGED watcher
        BY <3>1 DEF Hotkey, ToggleOverlay
      <4>2. (~enabled) \in BOOLEAN
        BY <2>0 DEF TypeOK
      <4> QED BY <1>1, <2>0, <4>1, <4>2, SetEnabledStops
    <3>2. CASE Loaded
      <4>1. Apply(enabled) /\ enabled' = enabled
        BY <3>2 DEF Loaded
      <4>2. EnsureWatcher
        BY <1>1, <4>1 DEF Apply
      <4> QED BY <1>1, <4>2 DEF EnsureWatcher
    <3>3. CASE WatcherLost
      <4>1. /\ UpdateVisibility(enabled, "none", overlayFocused)
            /\ enabled' = enabled /\ win' = win /\ bounds' = bounds
        BY <3>3 DEF WatcherLost
      <4>2. SetVisible(enabled /\ ("none" = "running" => overlayFocused))
        BY <1>1, <4>1 DEF UpdateVisibility
      <4>3. visible' = (enabled /\ ("none" = "running" => overlayFocused))
        BY <4>2 DEF SetVisible
      <4> QED BY <1>1, <4>1, <4>3
    <3>4. CASE \/ ClickHide \/ LoadFails \/ Persisted \/ FocusEvent \/ Close \/ Poll
               \/ \E title \in Titles : Focus(title)
               \/ \E b \in Bounds : Move(b)
      BY <1>1, <3>4
         DEF ClickHide, LoadFails, Persisted, FocusEvent, Close, Poll, Focus, Move
    <3> QED BY <2>4, <3>1, <3>2, <3>3, <3>4 DEF Works
  <2>5. \/ UNCHANGED watcher
        \/ phase = "running" /\ CloseWindows
        \/ Dispose
        \/ Works
    BY <1>1, AppEffects DEF vars
  <2> QED BY <2>1, <2>2, <2>3, <2>4, <2>5
<1> QED BY <1>1, Invariance, PTL DEF AppSpec, FallsBackToManual
=============================================================================
