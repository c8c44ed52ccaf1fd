# AION2 HUB: specifications of the desktop application, its server sync and its web pages

AION2 HUB is a portable Electron application for players of AION2: a feed of
the game's notices and updates with the differences between their versions, a
planner of daily and weekly tasks, price lists and a loot log, build scores, and
an overlay over the game. A worker, an API and a web application do the notices
and the planner on a server and in the browser. This directory holds TLA+ models of the parts of
it whose steps interleave, fail or are undone, what TLC checks of them, and
theorems that TLAPS proves.

Paths below are relative to `src/apps/desktop/src/` unless they begin with `src/`.

## 1. The system

### Components, their state and their operations

| Component | Source | State | Operations | What makes it correct |
|---|---|---|---|---|
| Desktop persistence | `main/storage/db.ts` | the sql.js image in memory, the chain of saves `#persistChain`, the file `aion2-hub.sqlite` and its temporary file | `openDesktopDb`, `persist`, `close` | what a handler answered is in the file; the file is whole and never older than it was |
| Planner tables and handlers | `main/storage/domains/planner.ts`, `schema.ts`, `main/ipcHandlers/plannerHandlers.ts` | templates, assignments, completions, charge uses, durations | create, update and delete templates, presets, toggle, use and undo a charge, durations, the overview | every template is assigned to every character; nothing is written for what is gone; undo takes the latest |
| Characters, active character | `domains/characters.ts`, `appSettings.ts`, `charactersHandlers.ts`, `appHandlers.ts` | `app_character`, the setting `activeCharacterId` | create, rename, delete, make active | a deletion takes its records along; all windows come to agree on the active one |
| User backup | `domains/backup.ts`, `backupHandlers.ts` | a JSON file | export, import | an import brings back what the backup holds, whatever is in its way |
| Notices scheduler | `main/scheduler.ts`, `noticesHandlers.ts` | the run in flight, the status of the last | start-up, timer and manual runs | one run at a time; all who joined are answered |
| Notices sync | `main/notices/sync.ts`, `domains/notices.ts`, `src/packages/notices-client` | articles, snapshots, diffs | list, fetch, store, save | no change is hidden by one that was stored; snapshots and diffs agree; all is stored in the end |
| Overlay | `main/overlay/overlayManager.ts`, `foregroundWatcher.ts` | the window, whether it is on, its bounds, the child process | toggle, load, focus, hide, lose the watcher, dispose | visible only when on, and in auto mode not over another program |
| Application life cycle | `main/index.ts` | windows, `quitting`, `savingWindowState` | start, close, `before-quit`, quit | closing the main window saves, disposes of the overlay and ends the application |
| Period keys | `main/planner/period.ts`, `renderer/src/planner/reset.ts`, `src/packages/modules/planner/lib/period.ts` | none | daily and weekly key of a time, next resets | one key per period; a period begins at its reset; the three copies agree |
| Economy | `domains/economy.ts` | items, prices, watches, alerts | record a price, watch, raise and read alerts | every watch a price meets leaves an alert; the latest price counts |
| Loot | `domains/loot.ts` | runs with drops and costs | record, delete, weekly report | a run is written as a whole |
| Build score | `domains/buildScore.ts`, `BuildScorePage.tsx` | scores, presets, the page | save, reset, presets, import | what the page shows as saved is saved, and a preset is its character's |
| Today page, overlay planner | `PlannerTodayPage.tsx`, `OverlayPlanner.tsx`, `App.tsx` | the overview shown, the active character each window knows | toggle, charges, refresh, poll, choose | what is shown is what is stored; the windows follow the active character |
| Notice lists | `FeedPage.tsx`, `src/packages/modules/notices/pages/feed.tsx` | filter, page, list shown | filter, search, pages | the list at rest is that of the filter and page chosen |
| Web planner | `src/packages/modules/planner` | an IndexedDB database, the today page | toggle, charges, timer, recommend | shown is stored; a duration is its character's; the recommendation is the best |
| Worker sync | `src/apps/worker/src/notices` | the server's tables | the sync, row by row | what a run leaves unfinished the next makes good |
| API routes | `src/apps/api/src/routes/notices.ts` | none | count and list | - |
| Module registry, other pages, logs, portable directory | `src/packages/core`, `renderer/src`, `main/log.ts`, `main/portableDataDir.ts` | none of their own | lookup; forms; appends and probes | - |

### How they interact

* All handlers run in the one thread of Electron's main process. A handler
  changes the image in one synchronous stretch and then awaits `persist()`; other
  handlers run at every await. So each handler is one atomic step up to its
  await, and the interleavings are those between awaits.
* The handlers and the sync share one image. The sync awaits the network for
  every list and article, so that the saves of other handlers export its
  unfinished work.
* The renderer keeps identifiers and passes them back later, when the rows may
  be gone. Two windows (the main one and the overlay) do this at once, and each
  shows the overview it received last.
* The overlay is driven by the hot-key, by its own page through IPC, by focus
  events of the window system and by a PowerShell child process that is meant to
  write a line when the foreground window changes. The application's life cycle
  disposes of the overlay when the main window is closed.
* At the end `will-quit` closes the database without waiting for anything.
* The worker's runs are processes; nothing keeps two from running at once, and
  PostgreSQL commits each of their statements at once.

### What is hard

The list `hazards` of `PROJECT.json` names each hazard at its line. In short:
saves that queue, fail or are cut off by an exit; syncs whose articles change
between their list and their details, whose work is half saved, or that overlap; stale
identifiers; the schema's cascades, which depend on whether a save came before;
imports over rows that are in the way; an
overlay that is switched while it loads, hears of the focus late and is
disposed of during a save; closing and quitting that overlap; period boundaries and three copies
of their arithmetic; answers that overtake each other in the pages.

## 2. The modules

| Module | What it is | Run | Theorems |
|---|---|---|---|
| `DurableStore` | what the database promises: a stable prefix of a volatile sequence | the property `ImplementsDurableStore` of `desktop_db` | |
| `DesktopDb` | `openDesktopDb`, the chain of `persist()`, its callers, crashes | `desktop_db` | `DesktopDbProofs` |
| `PlannerStore` | planner, characters, active character, backup | `planner_store`, `planner_orphans` | `PlannerStoreProofs` |
| `NoticesSync` | scheduler, sync, stored snapshots and diffs, exits | `notices_sync` | `NoticesSyncProofs` |
| `PeriodKeys` | daily and weekly keys and the next resets, as operators on times | through `PlannerClock` | |
| `PlannerClock` | a character's completions and charges over time, under changing settings | `planner_clock` | `PlannerClockProofs` |
| `Ledger` | loot runs, items, prices, watches, alerts and their part of the backup | `ledger` | `FeatureProofs` |
| `BuildScore` | the handlers of the build score and the page over them | `build_score` | `FeatureProofs` |
| `Windows` | the main window and the overlay's page over one database and its queue of saves | `windows` | `WindowsProofs` |
| `Overlay` | overlay manager and foreground watcher | `overlay_watcher`, and through `AppLifecycle` | |
| `AppLifecycle` | the life of the application: `Overlay` composed with the main window, close and quit | `app_lifecycle` | `AppLifecycleProofs` |
| `WebPlanner` | the web's today page over IndexedDB | `web_pages` | `FeatureProofs` |
| `WorkerSync` | runs of the worker's command that overlap | `worker_sync` | `WorkerSyncProofs` |
| `NoticeFeed` | the notice lists of the web and of the application, over the API and the handler | `web_pages` | `FeatureProofs` |
| `Nothing` | the constant `None` that the four modules of features share | through them | |

`MC...` modules hold the symmetry sets and function-valued constants of the
runs. `MCWeb` runs `NoticeFeed` and `WebPlanner`, which share no state, as two
pages of which one is shown. Definitions that follow "Variant:" are used by no action: each is the
form a plausible bug would give the definition it stands before, and shows that
a property can tell the two apart. Each module has one type invariant; where
it is proved (section 4) no run repeats it. 

### DesktopDb

The contents of the database are the sequence of operations applied to it
(`mem` for the image, `file.data` for the file), which is all the persistence
layer can confuse: whose operations, and in which order. `chain` is
`#persistChain`, as the callers of the saves that have not settled. A save is
three steps, `RunExport` (`db.export()`), `RunWritten` (`writeFile` of the temporary
file) and `RunRenamed` (`rename`), and either file operation may fail
(`RunFails`). `Handle` is any handler that changes the database and
`SyncUpsert`, `SyncPersist`, `SyncFetchFails` are a sync; `Reply` is the
continuation after the await. `Exit` is a crash or a quit at any moment.
`openDesktopDb` reads the file (`OpenRead`) and saves once as the caller `Boot`;
its `catch` takes every error for a missing file, which is `OpenUnread`, enabled
by `ReadMayFail`. A failed save leaves its operation in the image: a later
save stores it although its caller was told it failed. The file never holds
less than what was acknowledged, but may hold more, and `DurableStore` says so.

### PlannerStore

`db` is a record of the tables; rows are tuples of the columns that are keys or
foreign keys. A template is its key (type and lower-cased title, what presets compare). `Admits` and
`Cascade` are the foreign keys: they act only if `PragmaSurvivesExport`. sql.js
(external) closes and reopens the database in `export()`, which resets
`PRAGMA foreign_keys`, and `openDesktopDb` exports before it hands the database
out, so FALSE is the program and TRUE is the database its schema describes.
`known` holds the identifiers given out so far, any of which a renderer may
still pass. A stamp numbers charge uses and durations in the order they were made.
An overview asked for with a stale identifier clears the active character even
when that one exists (`GetOverview`); the plan
`src/docs/plans/2026-01-30-ipc-scheduler-zod-hardening.md:7` wants only the
"active character missing" case to do so.

### NoticesSync

`web` is the board (external): `Edit` publishes an article or changes its content and
moves its `updatedAt`. `run` is the sync in flight, whose `at` says which await
it stands at: a list (`Listed`), a detail (`Fetched`) or the save (`Saved`).
`Continue` is the loop from one await to the next, with the test that skips
an article. `Store` is the three upserts of one article. `Settle` ends the run
for all calls of `notices:syncNow` that joined it. `SavedByOthers` is a
`persist()` by any handler in between, and `Exit` restarts on the file.
`run.start` and `seen` are history variables: nothing reads them but properties.
A snapshot is its content hash, and `fetched_at` is its place in the sequence:
a content that is stored already gets no new snapshot and keeps its place. So after
contents A, B, A, C the last diff is from B to C, where
`src/docs/plans/2026-01-29-desktop-portable-exe.md:78` asks for a diff at each change
of the hash.

### PeriodKeys and PlannerClock

A time is a local calendar day and a minute of it, which is what `setHours` and
`setDate` work on; the key of a period is the day its reset falls on (its text,
`D:` or `W:` and the date, tells days apart and no more). `DailyStart` and
`WeeklyStart` are `dailyPeriodKey` and `weeklyPeriodKey` before the formatting,
`NextDailyReset` and `NextWeeklyReset` the renderer's own copy of the
arithmetic, `getDailyPeriodKey` to `getNextWeeklyResetAt` the web's, which moves the time back by the reset hour first. A reset time that does not parse is a number outside the day, which
`ParseHhmm` takes for the default as the code does.

In `PlannerClock` the clock ticks by minutes, and `Toggle` computes the key when
the call arrives and with the settings in force (`Effective`: those of the
character's server, or the default), as `planner:toggleComplete` does. Nothing
happens to a row at a reset: the overview (`Completed`) merely asks for another
key. The tables are those of one character and one template of each kind;
`PlannerStore` has them for several, without the time. `rows[..].at`, `.by` and `last` are
history: no action reads them. `Resets` is the definition the properties
compare with: the days between two times on which a reset falls after the one and not
after the other. A key is a day, so a reset that is moved to a later minute of the day a
period began on does not reopen what was completed before the move: complete a task at
00:01 of a day under a reset at 00:00, set the reset to 00:02, and at 00:02 the key is the
same. `ReopensAtReset` says for any settings that this one reset, of that one day, is all that can be
outlived, and none when the settings are those the task was completed under.

### Ledger

Each handler runs its statements in one synchronous stretch and is one action. An item is its
identifier and name: `Upserted` is `upsertEconomyItemByName`, for one name or for
all the lines of a run, with any new identifiers (an injection) for the names that are new. `CreateRun` and `CreateRunFails` are the transaction of
`createLootRun` with its commit and its rollback; a price and its alerts are
written without one, so that `AddPriceFails` leaves the price without alerts.
`Triggered` is the selection of `triggerWatchesForPrice`, `Latest` that of
`getLatestPricesByItemId`, `Net` a run's part of the weekly report.
`Own` is what an import keeps of a file and `ImportBackup` how it inserts it:
runs and lines replace rows of the same key, the others are cleared first. The
number `asked` of a run is history.

### BuildScore

`Switch`, `Reload`, `Save`, the preset buttons and the import's dialog are the page;
a reading handler answers at once, a writing one when its save has ended
(`Persisted`), so that reads overtake writes. Each answer goes on in the closure that
made the call, with the character it captured (`Write.char`, `Reply.char`). The page
replaces what it shows without asking whether its character is still active: a
refresh of an old closure shows another character's score
(`BuildScorePage.tsx:194`, against "per character" in `BuildScoreHeader.tsx:27`). The
model keeps the character a shown score was loaded for (`state.of`), and
the property is about that one.

### Windows

The composition of two copies of `App.tsx` over the main process: each window's page,
the answers on their way to it in order, the database and the queue of saves that
`DesktopDb` details. A write is answered when its save ends (`Saved`), or refused (`SaveFailed`)
while the image keeps it. `Polled` is `refreshCharacters`, which also chooses
the first character when none is active; `Choose` is the list of characters, in which
the main window also offers none. An answer to a toggle may arrive after the
refresh for a newly chosen character and replace it (`PlannerTodayPage.tsx:170`, against
`CharactersPage.tsx:47`, "shown by the active character"): `WindowsFollow` therefore
promises the overview of the active character only to a window that wrote
nothing, and `ShownIsStored` is about the character shown. `wrote` and `stale` are history.

### Overlay and AppLifecycle

`SetEnabled` is `setEnabled` up to the await of a new window's load, `Loaded`
what it does after it, with the value `enabled` has by then. `UpdateVisibility`
is the function of that name; hiding fires the window's event that saves the bounds
(`PersistState`), and `persistState` does nothing while a save is in flight.
`Poll` is one round of the child's loop that finds another window in the foreground. Its
script assigns the read-only variable `$pid` (`foregroundWatcher.ts:54`); the error is swallowed
(line 63) before `Write-Output`, so that `onChange` is never called and `gameFocused` stays
false, and neither is in the model. (A line would not be understood either: `"\\t"` at line 58
reaches PowerShell as a backslash and a t, which is no tab there, and `parseForegroundLine`
splits at tabs.) On Windows an overlay that is on is therefore hidden, but for the focus it may still be
thought to have from before, until the watcher is lost; elsewhere there is no watcher and it is always
visible. `ClickHide` and `ToggleOverlay` are the sending and the arrival of
`app:toggleOverlay`. `Dispose` runs to the await of the save and `Persisted` ends
it; a child that cannot be killed reports an error that `stop()` does not silence, and
`onUnavailable` then shows the overlay once more. Assumed of the window system: the focus event of a window comes before the
user's click on its close button, and hiding a focused window gives the focus
to another.

`AppLifecycle` adds the main window and runs the overlay's steps (`OverlayDoes`) from start to end.
`CloseMain`, `CloseSaved`, `Disposed` are the close handler of the main window, `Quit`,
`QuitSaved`, `QuitAgain` the `before-quit` handler; the two share `savingWindowState`,
and each await is a step. The close handler destroys the window it was called for
(`DestroyFirst`): when that one was closed by a second click and the overlay's "Open Main" made a new
window before the save ended, the new one stays (`main` = "reopened"). `CloseWindows` is what Electron (external) does when it quits:
the overlay's close handler hides the overlay instead, unless it is being
disposed of.

Besides, the overlay's design
(`src/docs/plans/2026-01-30-desktop-overlay-planner-loot-design.md`, line 29) wants a watcher "only when overlay is
enabled", but a load or toggle that ends while
`dispose()` awaits its save starts a watcher that nothing stops, so that `OnlyEnabled` speaks of
the time before the disposal. The test of the title also matches the application's own main window
("AION2 HUB"), which `IsGameTitle` keeps.

### WebPlanner, WorkerSync, NoticeFeed

`WebPlanner` is the today page of the web. `calls` are its IndexedDB requests in the order they were
made. Each has a transaction of its own on one store, and IndexedDB orders only those of
one store (`MayRead`, `MayWrite`): a read waits for earlier writes, a write for earlier reads
as well. `reloadStatus` reads two stores (`ListRead`, `TimesRead`) and shows the list it read when both have
answered (`Reloaded`); then it reads the stacks. So a reload may settle after a newer one and
put an older list in the place of one with the last tick, or show the list of the character selected
before. `late` and `last` are history that tells these cases; `ShownIsStored` states what the code does
guarantee. Of the durations only when they are read is modelled, not the averages.
`today.drawn` is the period the
page was last drawn in, which a toggle uses. `ShortestFirst` and `RecommendForBudget` are
the sort and the loop of `recommend.ts`; two tasks that take the same time may come in either order.

`WorkerSync` is `syncNotices`, statement by statement: `Listed`, `Looked` (the latest
snapshot), `Fetched`, `ItemStored`, `SnapshotStored`, `DiffStored`, with `Fails` at each of them. `torn`,
`same` and `alone` are history. As in `NoticesSync` a content that returns gets no new snapshot:
of the contents A, B, A, C the diffs are A to B, B to A and B to C, where
`src/docs/plans/2026-01-29-notices-feed-diff.md:7` asks for a diff whenever the hash changes.
`OnlyTornMisses` therefore speaks of snapshots that follow each other in the table, not of the contents
the board had.

`NoticeFeed` has both pages, told apart by `kind`: the web's effect aborts the request
before, the desktop's lets it end; the server answers in any order, the main
process in the order asked. `stored` are the titles: a sync adds notices and, as
`upsertItem` does, replaces titles (`Sync`), so that a search for text can lose a notice while
its list is on the way. The page is then left beyond the last one (total 21, Next, a title
changes, page 2 of 20); `PageExists` is about the filters that search no text.

## 3. The runs

| Run | States | Shows |
|---|---|---|
| `desktop_db` | 95,217 | `AckedIsDurable`: an answered operation is in the file and stays there. `FileIsEarlierState`: the file is whole and a state the image went through. `NoRollback`: no older export replaces a newer. `OneCallerPerFailure`: a failed write rejects one caller. `ImplementsDurableStore`: refinement. `EverySaveSettles`: liveness. |
| `planner_store` | 511,467 | On the database as it runs, over every order of handlers, stale identifiers, exports and imports: `EveryTemplateAssigned`, `NoCompletionForTheDeleted`, `UndoTakesTheLatest`, and `ImportRestores`, over rows of what was deleted that are in the import's way. |
| `notices_sync` | 194,008 | `SkippedIsStored`: no article is skipped whose content is not stored. `DiffsLinkSnapshots`, in the image and in the file. `SuccessIsCurrent`: a run that succeeds has stored what was not edited meanwhile. Liveness: `SyncNowReturns`, `CaughtUp`. |
| `planner_clock` | 927,558 | `KeptUntilReset`: a task is shown as the user left it until the reset, also when the settings were changed and changed back. `ReopensAtReset`: it reopens in the minute of the reset, or, where the reset was moved since, outlives one at most. `CountdownEndsPeriod`: the renderer's countdown and the main process's keys agree. `RechargeOnTime`: a use counts up to the announced recharge and not longer. `WebCountsTheSame`: the web's keys and resets are the desktop's. |
| `ledger` | 1,349,402 | `RunsWhole`: a run has all its lines, over rollbacks, deletions and imports. `NoAlertWithoutPrice`. `ListedWatchesFire`: a price alerts every watch listed under its name, however items were renamed, deleted and added again. `ValueFollowsPrices`: a price entered late or elsewhere does not move a run's value. `ImportRestores`. |
| `build_score` | 1,899,387 | `SavedIsStored`: at rest a page that says "saved" shows what is stored for the character the score was loaded for. `PresetsForTheChosen`: a preset made, copied or imported is its character's, also when the active one changed while the dialog was open. |
| `windows` | 207,729 | `ShownIsStored`: a window at rest that alone has written shows the database, so that no refresh hides a toggle. `WindowsFollow` (liveness): both windows come to know the active character, whichever chose last. |
| `app_lifecycle` | 116,864 | `OnlyEnabled`, `HidesOffTheGame` (in auto mode the overlay is not left over another program), `FallsBackToManual` of the overlay in an application that starts, closes and quits. `CloseEndsTheApp` (liveness): closing the main window ends the application, unless its state could not be saved or a main window was opened again meanwhile. |
| `worker_sync` | 1,155,204 | `OnlyTornMisses`: only a failure between two statements, or a race, loses a diff. `EndIsCurrent`: a run that ends has stored every article not edited meanwhile. |
| `web_pages` | 1,819,301 | `ShowsTheChosen`: the list of notices at rest is that of the filter and page chosen, on both pages. `PageExists`: the web's page is never left beyond the last of a filter that searches no text. `ShownIsStored` of the today page, over reloads that overlap writes and each other. `TimedForTheSelected`. `RecommendsTheMost`: the greedy choice fits the budget and no choice that fits has more tasks (the reference definition ranges over all subsets). |

Two runs find disagreements, with their findings in `PROJECT.json`. `planner_orphans` checks
`NoOrphans`, which is the schema's `ON DELETE CASCADE`, and TLC finds the
assignment that a deleted character leaves behind: foreign keys are off once the database was exported.
`overlay_watcher` checks `ShownOverTheGame`, the design's "When enabled, overlay is shown" over the game with a
watcher that "emits a line when foreground changes", and TLC finds the overlay hidden there: the child
looked at the game and could not write its line.

### Bounds, and why they are enough

* `desktop_db`: three handlers and one sync, each once; any number of sessions.
  Three saves are the least with one in flight, one queued behind it and one
  that finds both; the sync adds changes that are saved by others.
* `planner_store`: two templates of one key, which a preset takes for the same, one character,
  `MaxRecords` = 3 uses and durations, `MaxExports` = 1: one file exported
  at any point and imported any number of times. Three records are the least
  with one in the file, one of the same template made after it and one of another. One character that is deleted and whose rows stay is enough for the stale identifiers; all four properties are proved for any number. `planner_orphans` has the
  least instance that shows the orphan.
* `notices_sync`: two boards with an article each, two contents, `MaxEdits` = 2
  (publication and one edit of each article), `MaxFailures` = 1 and `MaxExits` = 1, one
  caller of `notices:syncNow`. An edit, a failure and an exit can each fall
  between a list, a detail and the save.
* `planner_clock`: a day has three minutes, so that a reset falls on its first,
  inside it or on its last; four days from a Friday on hold the
  daily resets and the weekly reset of each setting. Three settings: one late on
  Monday, one at midnight on Monday, and one whose time does not parse and whose
  day is clamped to Saturday. `MaxChanges` = 2 is a change and its reversal,
  `MaxToggles` = 2 a completion and its removal, or two uses in one window of
  `Window` = 4 minutes, longer than a day. The real values (1440 minutes, any
  settings, any number of each) are the theorems' matter.
* `ledger`: one character and server, two items and two names, so that names can be
  swapped between items; `MaxRecords` = 3 runs, prices and watches in all, of which at most one
  run of one line, two prices and one watch exist at a time: a watch, a price
  and a price entered late, or a run and two prices. One backup.
* `build_score`: two characters, two presets, two contents, `MaxCalls` = 2 calls
  whose answer is awaited: a switch alone makes two, and a save of the character
  before may be under way at a switch to none and back.
* `windows`: two characters, one task, one charge of one stack, `MaxClicks` = 2 in
  both windows together, `MaxFailures` = 1. Two clicks are a toggle
  and a switch, or one in each window; polls and answers are unbounded, but for a
  window whose own choice of the first character has yet to be saved, which takes less than the ten seconds to its next poll. More clicks are the theorem's matter.
* `web_pages`, the today page: two characters, two tasks and a ticket, `MaxInputs` = 3 (start a timer, stop it, switch; or a
  toggle with a switch there and back),
  one end of a period; estimates 1, 2, 3 and budgets 2 and 3, where the shortest first and the
  longest first differ.
* `app_lifecycle`: two states of the main window, one of the overlay, `MaxClicks` = 1
  call of `app:toggleOverlay` under way. Everything else is unbounded.
* `worker_sync`: two overlapping runs, a notice and an update, two versions, `MaxEdits` = 3, `MaxFailures` = 1.
  A, B, A, C takes a third content and a fourth edit, which is out of TLC's reach here; `OnlyTornMissesHolds` covers it.
* `web_pages`, the notices: three notices with one of two titles, a search that finds one of them, pages of one, `MaxClicks` = 4, one failed request.
* `CHECK_DEADLOCK FALSE` is where a behaviour really stops: identifiers or records run
  out (`planner_store`, `ledger`, `build_score`), the clock reaches `Horizon`, the
  application has ended, or the user clicks no more and all is answered.

### Fairness

Safety is stated without fairness wherever a run has no liveness property. The liveness properties assume

* `DesktopDb`: `WF(RunStep)`, a file operation that was started ends, and
  the promise chain then runs the next save (`db.ts:178`); `WF` of the end of a sync's request
  (a fetch ends or fails); `WF(Reply)`, the event loop resumes a handler whose await is done.
  Nothing makes an application start again or end.
* `NoticesSync`: `WF(Timer)`, the interval fires again and again
  (`scheduler.ts:57`), and `WF(SyncStep)`, a request or save in flight ends.
  That failures and exits cease is the bound `MaxFailures`, `MaxExits`;
  that edits cease is `MaxEdits`. `CaughtUp` is therefore a statement about
  the time after the last of them.
* `Windows`: `WF(Saved)`, the first save of the queue ends (`EverySaveSettles` of
  `DesktopDb`), and for each window `WF(Poll)`, its interval fires (`App.tsx:137`), and
  `WF(Arrives)`, an answer sent arrives. No click and no failure is assumed.
* `AppLifecycle`: the saves that the close handlers await end, and the handlers go on. The
  close handler is one chain of awaits, of which one step at a time is enabled.

## 4. What is proved

For every value of the constants, by TLAPS. Each proof module states its
inductive invariant first; a type invariant is part of each and proved with it.

**`DesktopDbProofs`**, from `CallsAssumption` (handlers, syncs and `Boot` are
distinct). `TypeCorrect`, `FileIsEarlierStateHolds`, `OneCallerPerFailureHolds` and
`NoRollbackInSessionHolds` hold for the program as it is; `AckedIsDurableHolds`,
`NoRollbackHolds` and `ImplementsDurableStoreHolds` assume `~ReadMayFail`. That
the file is a prefix of the image is not inductive: what a save renames is an
export taken earlier. The invariant has three parts. `AppInv`: calls are in
flight only while the application runs, a closed one has an empty chain, and
an opening one has `Boot` alone in it. `ChainInv`: the saves in the chain belong
to distinct calls that wait for them, and whose operations are in the image.
`FileInv`: the file is whole; while the image is known to extend the file
(`Extending`), the file is a prefix of the image and of the export in flight; the
export is a prefix of the image and holds the operation of the caller at the head. Without the
first, a rename could be that of a session that is over. For acknowledgements `FileInv` has
`AckedIsDurable` itself, which `Exit` keeps because it empties the image but not the file. The refinement maps the image of a closed
application to the file: `Exit` is `LoseVolatile`, `RunRenamed` is `Save`,
`Reply` is `Acknowledge`, and the rest apply or stutter.

**`PlannerStoreProofs`**, from `IdsAssumption`. `TypeCorrect` and
`EveryTemplateAssignedHolds`, with foreign keys on or off: `db.chars \X
Live(db) \subseteq db.assigned` is inductive with the types; the import needs
that `Own` keeps the assignments of its own characters and that `ImportBackup` adds the rest.
`NoCompletionForTheDeletedHolds`, `UndoTakesTheLatestHolds` and `ImportRestoresHolds` are about the
records. `Effects` says once what each step may do to them (it deletes, adds one row, or
imports), and the theorems follow from it and `RInv`: row numbers are handed
out in order and once (`Numbered`), so that a use in the backup is older than any use
made since; and a duration of the database and one of the backup with the same number are the same row
(`DurationsAgree`), so that what `INSERT OR IGNORE` passes over is already there.

**`NoticesSyncProofs`**, from `SyncAssumption`. `TypeCorrect`,
`SkippedIsStoredHolds`, `DiffsLinkSnapshotsHolds` and `SuccessIsCurrentHolds`. `SkippedIsStored`
is not inductive: it compares a row with the board, while the run writes
the `updatedAt` of a list that was read earlier. `BoardInv` and `ListInv` say that a
row, and an entry in hand, are never ahead of the board. So an edit leaves no
row fresh, and a detail is at least as new as the entry it is stored under:
if that entry is still current, the content is the board's. `StoreLinked` shows
that the three upserts, taken together, keep snapshots and diffs in agreement. `SuccessIsCurrent` is about the end of a
run; `RunInv` spreads it over the run: an article as new as at the start is stored or still ahead (`Ahead`), in a board yet to be
listed or among the entries yet to be fetched.

**`PlannerClockProofs`**, from `PeriodAssumption` (a day has minutes, the
default is one of them) and `ClockAssumption`. `KeyBounds` says that the key of a
time is the day of a reset that is not after it while the next one is; `SameKey`, that two times have
one key exactly if no reset falls between them; `OneResetOutlived`, that if they have one key under
any two settings only the reset on the day of the key may; `PeriodEnds`, that the key next changes one period on.
`CountdownEndsPeriodHolds` needs no more than these and the types. For
`ReopensAtResetHolds` the invariant is that a row's key is that of its time and
settings and its time is not in the future (`RowsInv`); for `KeptUntilResetHolds`, that a
row with the key of the last toggle exists exactly if that toggle completed the
task (`LastInv`), which only a toggle of the same kind could disturb. For `RechargeOnTimeHolds` it is
`UsesInv`: the uses are finite, and every set of them has an earliest one, which the recharge
is computed from. `WebCountsTheSameHolds` is arithmetic (`DaysSince`, `DaysTo`, `SamePeriods`): to
move the time back by the reset hour and then to count from midnight is the same as to compare with
the reset, because a week has only one day of each name.

**`WindowsProofs`**, from `WindowsAssumption`. `TypeCorrect` needs that no use count
exceeds the clicks. `ShownIsStored` speaks of windows at rest only; `Coherent` says
the same of everything on its way: unless a write of the window waits for its save, the last
answer that tells the window something is a fresh overview, or a refusal, and without such
an answer the overview shown is fresh or known to be stale (`Settled`). `SentSettles`
and `ReceivedSettles` are about sequences of answers alone, and each action is
one of three kinds: it sends, it receives, or it writes and then awaits (`WriteAwaits`).

**`AppLifecycleProofs`**, from `OverlayAssumption`, about the overlay under `AppSpec`:
`TypeCorrect`, `OnlyEnabledHolds`, `HidesOffTheGameHolds`, `FallsBackToManualHolds`. `Switched`: a
manager without a window has started no watcher. `Following`: while the watcher runs a visible overlay has had its focus event and not yet the
one of its loss, because `updateVisibility` runs in each.

**`WorkerSyncProofs`**, from `WorkerAssumption`. `TypeCorrect`, `OnlyTornMissesHolds`,
`EndIsCurrentHolds`, for any number of overlapping runs. `OnlyTornMisses` needs only that a
run about to store a diff holds what its snapshot was (`WellFormed`). `EndIsCurrent` is a statement about the
last step of a run; `Covers` spreads it over the run: an article it has to sync and that
was not edited is still ahead of it, or stored. For the item's row the run must have been
alone, and of two active runs none is (`NotAlone`).

**`FeatureProofs`** proves every property that the runs of the four modules of features check.

* *Notices*, from `FeedAssumption`. `ShowsTheChosenHolds`, for both pages: the request asked last is
  the one for what is chosen (`Asked`); it is the only one left on the web, and the last to
  arrive on the desktop. `PageExistsHolds` needs that the list of a filter that searches no text only grows, whatever titles change (`TotalGrows`, `PagesGrow`): the page
  chosen exists on the server, but on the page shown only once its answer is in, and
  `PageInv` says so of the answer on its way too. Its core is that the buttons are live only
  while nothing is in flight.
* *Web planner*, from `TemplateAssumption` (finitely many tasks, natural estimates and budgets).
  `TimedForTheSelectedHolds`: while a timer runs the selected character is the one it was
  started for (`TimedInv`). `ShownIsStoredHolds`: a list that a reload has read, or that is shown, is that of the
  store, or it was overtaken, or a later reload of the same character is under way, which every write brings about
  (`ListsRead`, `ListShown`); and unless a reload or its second half is under way so are the stacks (`StacksShown`). That a call which ends disturbs none of the others
  is a fact about sequences (`RemoveShape`, `RemoveThenAppend`).
  `RecommendsTheMostHolds` is about two recursions, the sum of the estimates and the loop of
  `recommend.ts`. Induction is done by hand, as a least counterexample: every nonempty set of subsets of a
  finite set has a smallest member (`LeastSubset`, from the well-foundedness of the library), every
  nonempty set of numbers a least (`LeastNumber`). The first n tasks of the
  order are the cheapest choice of n (`FirstIsCheapest`), and the loop takes a first part of the
  order, although it goes on after a task that does not fit (`LoopTakesFirst`): the tasks after it
  are not shorter. A larger choice would then hold a part that fits and is dearer than the budget (`GreedyIsBest`).
* *Build score*, from `BuildScoreAssumption`. `PresetsForTheChosenHolds`: a call and a dialog carry the character
  of their closure, so the types with the character in them suffice. `SavedIsStoredHolds`: a score that
  the page shows, or that a reply is bringing, is the stored one unless the page loads again
  after it, because a reply behind it says so or a save has yet to end (`SavedInv`,
  `LoadsAfter`). Replies are added behind (`SavedGrows`) and taken from the front (`SavedShifts`).
* *Logbook and price book*, from `LedgerAssumption`. `BookInv` holds the types and that no two items of the
  database or of the backup have one name (`ItemsInv`): so a price and the watches listed
  under its name are of one item (`ListedWatchesFireHolds`). The backup has no alerts, which is
  why the import's replacement of the prices leaves none without (`NoAlertWithoutPriceHolds`, `AlertsInv`).
  `RunsWholeHolds` counts lines; the invariant gives each position of a run its one line (`Logged`),
  and, because an import lays lines of the file beside lines of the database, says of
  both together that a line of a run lies within it (`Within`); `LinesCounted` is the
  bijection with the positions. `ValueFollowsPricesHolds`: a run's value depends on the latest price of each item alone (`NetFollows`),
  and that of an item with a later price on record, or at another server, stays (`LatestKept`).
  `ImportRestoresHolds` shows that rows in the way of the file's runs and lines are replaced and that the lines of a restored run
  are the file's alone, so that it is worth what it was.

### What is only model-checked

Liveness: `EverySaveSettles`, `SyncNowReturns`, `CaughtUp`, `WindowsFollow` and `CloseEndsTheApp`. They
rest on fairness and `ENABLED`, which the prover does not handle. All invariants and action
properties of the passing runs are proved. `NoOrphans` and `ShownOverTheGame` are violated by the
code. `RunsWhole` sees a statement that fails and the rollback, as the code has them in one stretch; a
transaction that is left open is no state of the model.

## 5. What is not modelled

* Payloads: titles, notes, dates, the HTML of articles and the text of a diff; the
  arithmetic of a build score.
* The pages of a board beyond the first, malformed answers (as failures
  only), and the versions and validation of backup files and of IPC arguments.
* The planner's statistics and the sums of the weekly loot report; renaming a character, which changes no row another depends on.
* The desktop page's timer and recommendation, whose form is that of the web's page in `WebPlanner`.
* Forms and tables that render what handlers return (economy, loot, statistics, diff pages).
* Summer time: the day on which an hour is missing or doubled counts as any other.
* Clamping the overlay to its display; tray and menu entries other than quit.
* Two processes of the application on one database file: nothing takes a lock and the later
  save undoes the other's. Neither code nor docs promise anything that could be stated.
* Pure I/O: logs, the portable directory; the module registry, a static table.

## 6. Where it could go on

Every component with state of its own that changes under concurrency, failure or
stale data has its module. What would add most from here:

1. Pages of a board: the sync's loop over pages while articles move between them.
2. The desktop page's timer over `Windows`, beside the web's.
3. The statistics of durations and the weekly report as sums checked against
   a reference definition.
