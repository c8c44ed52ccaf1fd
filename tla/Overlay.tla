------------------------------ MODULE Overlay ------------------------------
(***************************************************************************)
(* The overlay of the desktop application (createOverlayManager and        *)
(* startForegroundWatcher): an always-on-top window that the hot-key and   *)
(* its own Hide button switch on and off, and that, while a PowerShell     *)
(* child process watches the foreground window (auto mode), is visible     *)
(* only when the game or the overlay itself has the focus.  Without the    *)
(* child (manual mode) it is visible as long as it is on.                  *)
(*                                                                         *)
(* The child is meant to write a line whenever the foreground window       *)
(* changes.  Its script assigns the read-only variable $pid, an error that *)
(* the loop swallows before it comes to Write-Output, so that no line is   *)
(* ever written: onChange is not called and gameFocused stays FALSE, and   *)
(* neither has a place in the model.                                       *)
(*                                                                         *)
(* The manager awaits the load of the renderer and the save of the bounds; *)
(* toggles, focus events, the end of the child and the disposal come in    *)
(* between.  The handlers of the hot-key, of the Hide button and of the    *)
(* window run to their first await as one step.                            *)
(***************************************************************************)
EXTENDS Naturals

CONSTANTS
    Bounds,      \* positions and sizes of the overlay
    None,
    Win32,       \* does the platform have the foreground watcher?
    MaxClicks    \* bound: clicks on Hide that are under way

\* The game, the overlay, and the rest.
Titles == {"AION2", "overlay", "other"}

ASSUME OverlayAssumption ==
    /\ None \notin Bounds /\ None \notin Titles /\ None \notin BOOLEAN
    /\ Win32 \in BOOLEAN
    /\ MaxClicks \in Nat

VARIABLES
    enabled, win, visible,
    bounds,          \* of the window
    stored,          \* the setting overlayWindowState, in the memory image
    saving,          \* persistState in flight
    overlayFocused,
    watcher,         \* the child process that was started last and not stopped
    looked,          \* the foreground window this child found last
    foreground,      \* external: the window that has the focus
    clicks,          \* calls of app:toggleOverlay under way
    disposal         \* of the manager (quitting, and overlay = null)

vars == <<enabled, win, visible, bounds, stored, saving, overlayFocused, watcher,
          looked, foreground, clicks, disposal>>

\* isGameTitle: the title contains "aion2".  The overlay loads the same page
\* as the main window, and so has its title.
IsGameTitle(title) == title # "other"

TypeOK ==
    /\ {enabled, visible, saving, overlayFocused} \subseteq BOOLEAN
    /\ win \in {"none", "loading", "open"}
    /\ bounds \in Bounds
    /\ stored \in Bounds \cup {None}
    /\ watcher \in {"none", "running"}
    /\ looked \in Titles \cup {None}
    /\ foreground \in Titles
    /\ clicks \in 0..MaxClicks
    /\ disposal \in {"no", "saving", "done"}

Init ==
    /\ enabled = FALSE
    /\ win = "none"
    /\ visible = FALSE
    /\ bounds \in Bounds           \* defaultOverlayState
    /\ stored \in Bounds \cup {None}
    /\ saving = FALSE
    /\ overlayFocused = FALSE
    /\ watcher = "none"
    /\ looked = None
    /\ foreground \in Titles \ {"overlay"}
    /\ clicks = 0
    /\ disposal = "no"

-----------------------------------------------------------------------------
(***************************************************************************)
(* Parts of the actions.                                                   *)
(***************************************************************************)

\* persistState up to its await: it does nothing while a save is in flight.
PersistState ==
    /\ stored' = IF saving THEN stored ELSE bounds
    /\ saving' = TRUE

\* The system gives the focus of a window that is hidden to another one.
LoseFocus ==
    IF foreground = "overlay" THEN foreground' \in Titles \ {"overlay"}
                              ELSE UNCHANGED foreground

\* win.hide() or win.showInactive(); hiding fires the event that saves.
SetVisible(v) ==
    /\ visible' = v
    /\ IF visible /\ ~v THEN PersistState /\ LoseFocus
                        ELSE UNCHANGED <<stored, saving, foreground>>

\* updateVisibility; autoMode is set and reset together with the watcher.
UpdateVisibility(on, child, over) ==
    IF win = "none" THEN UNCHANGED <<visible, stored, saving, foreground>>
    ELSE SetVisible(on /\ (child = "running" => over))

\* ensureWatcher
EnsureWatcher ==
    IF Win32 /\ watcher = "none"
    THEN watcher' = "running" /\ looked' = None
    ELSE UNCHANGED <<watcher, looked>>

\* stopWatcher
StopWatcher == watcher' = "none" /\ looked' = None

\* setEnabled after it has its window.
Apply(on) ==
    \/ /\ on
       /\ EnsureWatcher
       /\ UpdateVisibility(on, watcher', overlayFocused)
    \/ /\ ~on
       /\ visible' = FALSE
       /\ LoseFocus
       /\ StopWatcher
       /\ PersistState

-----------------------------------------------------------------------------
(***************************************************************************)
(* Switching the overlay on and off.                                       *)
(***************************************************************************)

\* setEnabled(next) up to the await of a new window; all of it otherwise.
SetEnabled(next) ==
    /\ enabled' = next
    /\ IF win = "none"
       THEN /\ win' = "loading"
            /\ bounds' = IF stored = None THEN bounds ELSE stored
            /\ UNCHANGED <<visible, stored, saving, watcher, looked, foreground>>
       ELSE Apply(next) /\ UNCHANGED <<win, bounds>>

Hotkey ==
    /\ disposal = "no"
    /\ SetEnabled(~enabled)
    /\ UNCHANGED <<overlayFocused, clicks, disposal>>

\* The Hide button of the overlay calls app:toggleOverlay ...
ClickHide ==
    /\ visible
    /\ clicks < MaxClicks
    /\ clicks' = clicks + 1
    /\ UNCHANGED <<enabled, win, visible, bounds, stored, saving, overlayFocused,
                   watcher, looked, foreground, disposal>>

\* ... which arrives, perhaps when the overlay is hidden by something else.
ToggleOverlay ==
    /\ clicks > 0
    /\ clicks' = clicks - 1
    /\ IF disposal = "done"
       THEN UNCHANGED <<enabled, win, visible, bounds, stored, saving, watcher, looked,
                        foreground>>
       ELSE SetEnabled(~enabled)
    /\ UNCHANGED <<overlayFocused, disposal>>

\* Variant: what was asked for when the load began is applied.
LoadedStale ==
    /\ win = "loading"
    /\ win' = "open"
    /\ Apply(TRUE)
    /\ UNCHANGED <<enabled, bounds, overlayFocused, clicks, disposal>>

\* The window is loaded: setEnabled goes on with the value enabled has now.
Loaded ==
    /\ win = "loading"
    /\ win' = "open"
    /\ Apply(enabled)
    /\ UNCHANGED <<enabled, bounds, overlayFocused, clicks, disposal>>

\* The load fails: setEnabled is rejected, the window and enabled stay.
LoadFails ==
    /\ win = "loading"
    /\ win' = "open"
    /\ UNCHANGED <<enabled, visible, bounds, stored, saving, overlayFocused, watcher,
                   looked, foreground, clicks, disposal>>

\* db.persist() is settled; its error is only logged.  dispose() ends.
Persisted ==
    /\ saving
    /\ saving' = FALSE
    /\ IF disposal = "saving"
       THEN /\ win' = "none"
            /\ visible' = FALSE
            /\ disposal' = "done"
            /\ LoseFocus
       ELSE UNCHANGED <<win, visible, disposal, foreground>>
    /\ UNCHANGED <<enabled, bounds, stored, overlayFocused, watcher, looked,
                   clicks>>

-----------------------------------------------------------------------------
(***************************************************************************)
(* The window.                                                             *)
(***************************************************************************)

\* External: another window gets the focus.
Focus(title) ==
    /\ title # foreground
    /\ title = "overlay" => visible
    /\ foreground' = title
    /\ UNCHANGED <<enabled, win, visible, bounds, stored, saving, overlayFocused,
                   watcher, looked, clicks, disposal>>

\* Variant: the overlay is not updated.
FocusEventIgnored ==
    /\ overlayFocused # (foreground = "overlay")
    /\ overlayFocused' = (foreground = "overlay")
    /\ UNCHANGED <<enabled, win, visible, bounds, stored, saving, watcher,
                   looked, foreground, clicks, disposal>>

\* The events "focus" and "blur" of the overlay.
FocusEvent ==
    /\ overlayFocused # (foreground = "overlay")
    /\ overlayFocused' = (foreground = "overlay")
    /\ UpdateVisibility(enabled, watcher, overlayFocused')
    /\ UNCHANGED <<enabled, win, bounds, watcher, looked, clicks, disposal>>

\* The user moves or resizes the overlay.
Move(b) ==
    /\ visible
    /\ b # bounds
    /\ bounds' = b
    /\ UNCHANGED <<enabled, win, visible, stored, saving, overlayFocused, watcher,
                   looked, foreground, clicks, disposal>>

\* The user closes the overlay, whose focus event came before: it hides,
\* unless the application is quitting.
Close ==
    /\ visible
    /\ foreground = "overlay"
    /\ overlayFocused
    /\ IF disposal = "no"
       THEN SetVisible(FALSE) /\ UNCHANGED win
       ELSE /\ win' = "none"
            /\ visible' = FALSE
            /\ LoseFocus
            /\ UNCHANGED <<stored, saving>>
    /\ UNCHANGED <<enabled, bounds, overlayFocused, watcher, looked, clicks,
                   disposal>>

-----------------------------------------------------------------------------
(***************************************************************************)
(* The foreground watcher.                                                 *)
(***************************************************************************)

\* The child looks at the foreground window, finds it changed, and fails to
\* write the line.
Poll ==
    /\ watcher = "running"
    /\ looked # foreground
    /\ looked' = foreground
    /\ UNCHANGED <<enabled, win, visible, bounds, stored, saving, overlayFocused,
                   watcher, foreground, clicks, disposal>>

\* Variant: the overlay is not updated.
WatcherLostQuietly ==
    /\ watcher = "running"
    /\ StopWatcher
    /\ UNCHANGED <<enabled, win, visible, bounds, stored, saving, overlayFocused,
                   foreground, clicks, disposal>>

\* The child cannot be started or exits by itself: onUnavailable.
WatcherLost ==
    /\ watcher = "running"
    /\ StopWatcher
    /\ UpdateVisibility(enabled, "none", overlayFocused)
    /\ UNCHANGED <<enabled, win, bounds, overlayFocused, clicks, disposal>>

-----------------------------------------------------------------------------
\* dispose() up to its await; without a window, or while another save is in
\* flight, persistState has nothing to await, and it ends at once.  When the
\* child cannot be killed its "error" event, which stop() does not silence,
\* calls onUnavailable before that: an overlay that is on is shown.  (After
\* setEnabled(false), where it can happen as well, it changes nothing.)
Dispose ==
    /\ disposal = "no"
    /\ StopWatcher
    /\ IF win = "none" \/ saving
       THEN /\ disposal' = "done"
            /\ win' = "none"
            /\ visible' = FALSE
            /\ LoseFocus
            /\ UNCHANGED <<stored, saving>>
       ELSE /\ disposal' = "saving"
            /\ PersistState
            /\ \/ UNCHANGED visible
               \/ watcher = "running" /\ enabled /\ visible' = TRUE
            /\ UNCHANGED <<win, foreground>>
    /\ UNCHANGED <<enabled, bounds, overlayFocused, clicks>>

Works ==
    \/ Hotkey
    \/ ClickHide
    \/ ToggleOverlay
    \/ Loaded
    \/ LoadFails
    \/ Persisted
    \/ \E title \in Titles : Focus(title)
    \/ FocusEvent
    \/ \E b \in Bounds : Move(b)
    \/ Close
    \/ Poll
    \/ WatcherLost

Next == Works \/ Dispose

Spec == Init /\ [][Next]_vars

-----------------------------------------------------------------------------
(***************************************************************************)
(* Properties.                                                             *)
(***************************************************************************)

\* The overlay is visible only while it is on, and until the manager is
\* disposed of its child process runs only then ("Best-effort watcher runs
\* only when overlay is enabled", overlay design), whatever was switched while
\* the window was loading and whatever the watcher and the focus report
\* (setEnabled reads enabled again after ensureWindow).
OnlyEnabled ==
    /\ visible => enabled
    /\ disposal = "no" /\ watcher = "running" => enabled

\* In auto mode the overlay is not left over another program: as soon as the
\* focus event of the overlay was handled, one that is visible has the game
\* or itself in the foreground, after every order of toggles, loads, focus
\* events, lost watchers and hides ("auto-shown only while AION2 is the
\* foreground window", implementation plan).
HidesOffTheGame ==
    watcher = "running" /\ visible /\ overlayFocused = (foreground = "overlay")
        => IsGameTitle(foreground)

\* What the overlay design promises for the other direction ("When enabled,
\* overlay is shown ... when AION2 is the foreground window", and the watcher
\* "emits a line when foreground changes"): once the child has looked at the
\* game, and has nothing left to write, the overlay of a loaded window is
\* visible.  The code breaks it.
ShownOverTheGame ==
    enabled /\ win = "open" /\ watcher = "running" /\ foreground = "AION2" /\ looked = "AION2"
        => visible

\* When the watcher is lost while the overlay is on, the overlay is shown:
\* auto-hide is disabled ("If watcher fails: overlay manager switches to
\* manual mode", implementation plan).
FallsBackToManual ==
    [][watcher = "running" /\ watcher' = "none" /\ enabled' /\ win' # "none" /\ disposal' = "no"
         => visible']_vars
=============================================================================
