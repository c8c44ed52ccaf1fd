---------------------------- MODULE AppLifecycle ----------------------------
(***************************************************************************)
(* The life of the desktop application's main process (main/index.ts): it   *)
(* starts with a splash window and no database, runs with its main window   *)
(* and the overlay of module Overlay, and ends when its last window is      *)
(* closed.  Closing the main window and quitting both save the state of the *)
(* main window first; the save is awaited, and everything else goes on.     *)
(*                                                                         *)
(* External, as Electron documents it: app.quit() emits before-quit; unless *)
(* that was prevented it asks every window to close, and when one refuses   *)
(* the application goes on without those that did not.  The application     *)
(* quits when the last window is closed or destroyed.                       *)
(***************************************************************************)
EXTENDS Overlay

CONSTANTS
    MainStates     \* bounds of the main window, maximized or not

VARIABLES
    phase,          \* "starting", "running", "ended"
    main,           \* the main window: "none", the "first" one, or one "reopened"
    mainState,      \* its state
    mainStored,     \* the setting mainWindowState, in the memory image
    savingWindowState,
    closing,        \* the close handler: "no", "saving", "disposing"
    quitting,       \* the before-quit handler: "no", "saving", "overlay", "quit"
    saveFailed      \* the save of the main window's state failed (history)

life    == <<phase, main, mainState, mainStored, savingWindowState, closing,
             quitting, saveFailed>>
appVars == <<vars, life>>

AppInit ==
    /\ Init
    /\ phase = "starting"
    /\ main = "first"
    /\ mainState \in MainStates      \* defaultWindowState
    /\ mainStored \in MainStates \cup {None}
    /\ savingWindowState = FALSE
    /\ closing = "no"
    /\ quitting = "no"
    /\ saveFailed = FALSE

-----------------------------------------------------------------------------
(***************************************************************************)
(* Parts of the actions.                                                   *)
(***************************************************************************)

\* The main window is gone; without the overlay's it was the last one.
MainGone(overlayWindow) ==
    /\ main' = "none"
    /\ phase' = IF overlayWindow = "none" THEN "ended" ELSE phase

\* win.destroy() in the close handler of the first window: it may be gone, and
\* a window reopened meanwhile stays.
DestroyFirst ==
    IF main = "reopened" THEN UNCHANGED <<main, phase>> ELSE MainGone(win)

\* persistWindowState up to its await; closing and quitting share the flag.
PersistWindowState ==
    /\ savingWindowState' = TRUE
    /\ mainStored' = mainState

\* app.quit(): the windows are asked to close.  The overlay hides instead,
\* unless its manager is being disposed of.
CloseWindows ==
    \/ /\ win = "none"
       /\ MainGone("none")
       /\ UNCHANGED vars
    \/ /\ win # "none" /\ disposal = "no"
       /\ MainGone(win)
       /\ SetVisible(FALSE)
       /\ UNCHANGED <<enabled, win, bounds, overlayFocused, watcher, looked,
                      clicks, disposal>>
    \/ /\ win # "none" /\ disposal # "no"
       /\ win' = "none"
       /\ visible' = FALSE
       /\ MainGone("none")
       /\ LoseFocus
       /\ UNCHANGED <<enabled, bounds, stored, saving, overlayFocused, watcher,
                      looked, clicks, disposal>>

-----------------------------------------------------------------------------
(***************************************************************************)
(* Starting, moving and opening the main window.                           *)
(***************************************************************************)

\* run(): the database is open, the stored state applied, the scheduler, the
\* overlay manager and the handlers are there.
Started ==
    /\ phase = "starting"
    /\ phase' = "running"
    /\ mainState' = IF mainStored = None THEN mainState ELSE mainStored
    /\ UNCHANGED <<vars, main, mainStored, savingWindowState, closing, quitting,
                   saveFailed>>

\* run() fails, or the splash window is closed.
StartEnds ==
    /\ phase = "starting"
    /\ phase' = "ended"
    /\ main' = "none"
    /\ UNCHANGED <<vars, mainState, mainStored, savingWindowState, closing, quitting,
                   saveFailed>>

MoveMain(b) ==
    /\ phase = "running" /\ main # "none"
    /\ b # mainState
    /\ mainState' = b
    /\ UNCHANGED <<vars, phase, main, mainStored, savingWindowState, closing, quitting,
                   saveFailed>>

\* app:showMainWindow, from the overlay: a main window is created only when
\* there is none.
ShowMainWindow ==
    /\ phase = "running"
    /\ visible
    /\ main = "none"
    /\ main' = "reopened"
    /\ mainState' \in IF mainStored = None THEN MainStates ELSE {mainStored}
    /\ UNCHANGED <<vars, phase, mainStored, savingWindowState, closing, quitting,
                   saveFailed>>

-----------------------------------------------------------------------------
(***************************************************************************)
(* Closing the main window.                                                *)
(***************************************************************************)

\* The close event: the first one saves, the others just close.
CloseMain ==
    /\ phase = "running" /\ main # "none"
    /\ \/ /\ ~savingWindowState
          /\ PersistWindowState
          /\ closing' = "saving"
          /\ UNCHANGED <<phase, main>>
       \/ /\ savingWindowState
          /\ MainGone(win)
          /\ UNCHANGED <<mainStored, savingWindowState, closing>>
    /\ UNCHANGED <<vars, mainState, quitting, saveFailed>>

\* Variant: the overlay is not disposed of.
CloseSavedNoDispose ==
    /\ closing = "saving"
    /\ DestroyFirst
    /\ closing' = "no"
    /\ UNCHANGED <<vars, mainState, mainStored, savingWindowState, quitting, saveFailed>>

\* The save has ended: the overlay is disposed of ...
CloseSaved ==
    /\ closing = "saving"
    /\ IF disposal = "no" THEN Dispose ELSE UNCHANGED vars
    /\ closing' = "disposing"
    /\ UNCHANGED <<phase, main, mainState, mainStored, savingWindowState, quitting,
                   saveFailed>>

\* ... and then the window destroyed, the last one unless another was reopened.
Disposed ==
    /\ closing = "disposing"
    /\ disposal = "done"
    /\ closing' = "no"
    /\ DestroyFirst
    /\ UNCHANGED <<vars, mainState, mainStored, savingWindowState, quitting, saveFailed>>

\* The save fails: only the window is destroyed.
CloseSaveFails ==
    /\ closing = "saving"
    /\ closing' = "no"
    /\ DestroyFirst
    /\ saveFailed' = TRUE
    /\ UNCHANGED <<vars, mainState, mainStored, savingWindowState, quitting>>

-----------------------------------------------------------------------------
(***************************************************************************)
(* Quitting.                                                               *)
(***************************************************************************)

\* The user quits: before-quit saves, unless it was done or there is no main
\* window.
Quit ==
    /\ phase = "running"
    /\ quitting = "no"
    /\ \/ /\ ~savingWindowState /\ main # "none"
          /\ PersistWindowState
          /\ quitting' = "saving"
          /\ UNCHANGED <<vars, phase, main>>
       \/ /\ savingWindowState \/ main = "none"
          /\ CloseWindows
          /\ UNCHANGED <<mainStored, savingWindowState, quitting>>
    /\ UNCHANGED <<mainState, closing, saveFailed>>

\* The save has ended: the bounds of the overlay are saved, if it has a
\* window that is not being saved.
QuitSaved ==
    /\ quitting = "saving"
    /\ IF win = "none" \/ saving
       THEN quitting' = "quit" /\ UNCHANGED vars
       ELSE /\ quitting' = "overlay"
            /\ PersistState
            /\ UNCHANGED <<enabled, win, visible, bounds, overlayFocused, watcher,
                           looked, foreground, clicks, disposal>>
    /\ UNCHANGED <<phase, main, mainState, mainStored, savingWindowState, closing,
                   saveFailed>>

QuitSaveFails ==
    /\ quitting = "saving"
    /\ quitting' = "quit"
    /\ saveFailed' = TRUE
    /\ UNCHANGED <<vars, phase, main, mainState, mainStored, savingWindowState, closing>>

\* app.quit() again; before-quit finds the flag set.
QuitAgain ==
    /\ quitting = "quit"
    /\ quitting' = "no"
    /\ CloseWindows
    /\ UNCHANGED <<mainState, mainStored, savingWindowState, closing, saveFailed>>

-----------------------------------------------------------------------------
\* The overlay works on from the start to the end.  The save that ends may be
\* the one before-quit waits for; the last window may go with it.
OverlayDoes(action) ==
    /\ phase = "running"
    /\ action
    /\ quitting' = IF quitting = "overlay" /\ saving /\ ~saving' THEN "quit" ELSE quitting
    /\ phase' = IF main = "none" /\ win # "none" /\ win' = "none" THEN "ended" ELSE phase
    /\ UNCHANGED <<main, mainState, mainStored, savingWindowState, closing, saveFailed>>

Handlers ==
    \/ CloseSaved \/ CloseSaveFails \/ Disposed
    \/ QuitSaved \/ QuitSaveFails \/ QuitAgain

AppNext ==
    \/ Started \/ StartEnds
    \/ \E b \in MainStates : MoveMain(b)
    \/ ShowMainWindow
    \/ CloseMain \/ Quit
    \/ phase = "running" /\ Handlers
    \/ OverlayDoes(Works)

\* Saves end, and the handlers that wait for them go on.
AppFairness ==
    /\ WF_appVars(phase = "running" /\ Handlers)
    /\ WF_appVars(OverlayDoes(Persisted))

AppSpec == AppInit /\ [][AppNext]_appVars /\ AppFairness

-----------------------------------------------------------------------------
\* Closing the main window ends the application when the state could be
\* saved, also when the overlay is switched, loading or being saved, or the
\* user quits, in between (index.ts: the close handler disposes of the
\* overlay, whose window would keep the process alive).  Only a main window
\* that was opened again from the overlay while the first one's state was
\* being saved is left, without the overlay: the handler destroys the window
\* it was called for.
CloseEndsTheApp ==
    closing = "saving" ~>
        \/ phase = "ended"
        \/ saveFailed
        \/ main = "reopened" /\ win = "none"
=============================================================================
