------------------------------ MODULE DesktopDb ------------------------------
(***************************************************************************)
(* The desktop hub keeps its whole database as a sql.js image in the       *)
(* memory of the main process and saves it by writing the exported image   *)
(* to a temporary file that it renames over aion2-hub.sqlite.              *)
(* DesktopDb.persist() chains the saves: one runs at a time, in the order  *)
(* they were asked for, and a failed save does not stop the later ones.    *)
(*                                                                         *)
(* The contents of the database are abstracted to the sequence of          *)
(* operations applied to it.  An IPC handler (Handlers) changes the image  *)
(* and calls persist() in one synchronous stretch, then replies when its   *)
(* save settled.  A notices sync (Syncs) changes the image first and       *)
(* awaits the network before it calls persist(), so that other saves       *)
(* export its changes in between.                                          *)
(***************************************************************************)
EXTENDS Naturals, SequencesExt

CONSTANTS
    Handlers,      \* calls of the IPC handlers that change the database
    Syncs,         \* runs of the notices sync
    Boot,          \* stands for openDesktopDb as the caller of the first save
    ReadMayFail    \* can readFile fail although the database file exists?

ASSUME CallsAssumption ==
    /\ Handlers \cap Syncs = {}
    /\ Boot \notin Handlers \cup Syncs
    /\ ReadMayFail \in BOOLEAN

Calls == Handlers \cup Syncs

VARIABLES
    app,           \* "closed", "opening" (in openDesktopDb) or "running"
    mem,           \* operations the in-memory image holds (db.db)
    chain,         \* callers of the saves not settled yet (#persistChain)
    phase,         \* what the first of them does: "queued", "writing", "renaming"
    image,         \* what its export() returned
    file,          \* aion2-hub.sqlite: its operations, and whether it is whole
    call           \* where each call stands

vars == <<app, mem, chain, phase, image, file, call>>

InFlight == {"syncing", "waiting", "saved"}
CallState == InFlight \cup {"idle", "replied", "rejected", "lost"}

TypeOK ==
    /\ app \in {"closed", "opening", "running"}
    /\ mem \in Seq(Calls)
    /\ chain \in Seq(Calls \cup {Boot})
    /\ phase \in {"queued", "writing", "renaming"}
    /\ image \in Seq(Calls)
    /\ file \in [data : Seq(Calls), whole : BOOLEAN]
    /\ call \in [Calls -> CallState]

\* A missing file is read as an empty one, so the two are not told apart.
Init ==
    /\ app = "closed"
    /\ mem = << >>
    /\ chain = << >>
    /\ phase = "queued"
    /\ image = << >>
    /\ file = [data |-> << >>, whole |-> TRUE]
    /\ call = [c \in Calls |-> "idle"]

-----------------------------------------------------------------------------
(***************************************************************************)
(* openDesktopDb: read the file, create the tables and the default         *)
(* settings, save once.  The database is handed out when that save is done. *)
(***************************************************************************)
Open(contents) ==
    /\ app = "closed"
    /\ app' = "opening"
    /\ mem' = contents
    /\ chain' = <<Boot>>
    /\ UNCHANGED <<phase, image, file, call>>

\* Variant: the result of readFile is dropped.
OpenEmpty == Open(<< >>)

\* readFile returns the file.  When it rejects for another reason than a
\* missing file, the catch clause starts from a new database all the same.
ReadResults == {file.data} \cup (IF ReadMayFail THEN {<< >>} ELSE {})

OpenRead == \E contents \in ReadResults : Open(contents)

-----------------------------------------------------------------------------
(***************************************************************************)
(* Callers.                                                                *)
(***************************************************************************)

\* Variant: a call that finds a save under way leaves it at that.
PersistCoalesced(c) == chain' = IF chain = << >> THEN <<c>> ELSE chain

\* persist(): one more save at the end of the chain.
Persist(c) == chain' = Append(chain, c)

\* Variant: the handler does not await persist().
HandleNoAwait(c) ==
    /\ app = "running"
    /\ call[c] = "idle"
    /\ mem' = Append(mem, c)
    /\ Persist(c)
    /\ call' = [call EXCEPT ![c] = "saved"]
    /\ UNCHANGED <<app, phase, image, file>>

\* A handler applies its change and asks for a save.
Handle(c) ==
    /\ app = "running"
    /\ call[c] = "idle"
    /\ mem' = Append(mem, c)
    /\ Persist(c)
    /\ call' = [call EXCEPT ![c] = "waiting"]
    /\ UNCHANGED <<app, phase, image, file>>

\* The sync stores the notices it fetched so far and awaits the next answer.
SyncUpsert(s) ==
    /\ app = "running"
    /\ call[s] = "idle"
    /\ mem' = Append(mem, s)
    /\ call' = [call EXCEPT ![s] = "syncing"]
    /\ UNCHANGED <<app, chain, phase, image, file>>

\* The last notice is stored; the sync saves.
SyncPersist(s) ==
    /\ call[s] = "syncing"
    /\ Persist(s)
    /\ call' = [call EXCEPT ![s] = "waiting"]
    /\ UNCHANGED <<app, mem, phase, image, file>>

\* A request fails: the sync rejects without a save, its changes stay in memory.
SyncFetchFails(s) ==
    /\ call[s] = "syncing"
    /\ call' = [call EXCEPT ![s] = "rejected"]
    /\ UNCHANGED <<app, mem, chain, phase, image, file>>

\* Variant: the caller answers while its save is still queued.
ReplyEarly(c) ==
    /\ call[c] \in {"waiting", "saved"}
    /\ call' = [call EXCEPT ![c] = "replied"]
    /\ UNCHANGED <<app, mem, chain, phase, image, file>>

\* The caller's await returns and it answers the renderer.
Reply(c) ==
    /\ call[c] = "saved"
    /\ call' = [call EXCEPT ![c] = "replied"]
    /\ UNCHANGED <<app, mem, chain, phase, image, file>>

-----------------------------------------------------------------------------
(***************************************************************************)
(* The save at the head of the chain.                                      *)
(***************************************************************************)
\* Variant: the export is written over the database file itself.
RunExportInPlace ==
    /\ chain # << >>
    /\ phase = "queued"
    /\ image' = mem
    /\ file' = [data |-> mem, whole |-> FALSE]
    /\ phase' = "writing"
    /\ UNCHANGED <<app, mem, chain, call>>

RunExport ==
    /\ chain # << >>
    /\ phase = "queued"
    /\ image' = mem
    /\ phase' = "writing"
    /\ UNCHANGED <<app, mem, chain, file, call>>

RunWritten ==
    /\ phase = "writing"
    /\ phase' = "renaming"
    /\ UNCHANGED <<app, mem, chain, image, file, call>>

\* Variant: then(run) without a rejection handler, one failure fails them all.
SettlePoisoned(outcome) ==
    /\ chain' = IF outcome = "rejected" THEN << >> ELSE Tail(chain)
    /\ phase' = "queued"
    /\ call' = [c \in Calls |->
                  IF c = Head(chain) \/ (outcome = "rejected" /\ Contains(chain, c))
                  THEN outcome ELSE call[c]]

\* The head's save settles with the given outcome; the next one may start.
Settle(outcome) ==
    /\ chain' = Tail(chain)
    /\ phase' = "queued"
    /\ call' = IF Head(chain) = Boot THEN call
               ELSE [call EXCEPT ![Head(chain)] = outcome]

RunRenamed ==
    /\ phase = "renaming"
    /\ file' = [data |-> image, whole |-> TRUE]
    /\ Settle("saved")
    /\ app' = "running"
    /\ UNCHANGED <<mem, image>>

\* writeFile or rename rejects.  When it was the save of openDesktopDb, the
\* startup fails and the process ends.
RunFails ==
    /\ phase \in {"writing", "renaming"}
    /\ Settle("rejected")
    /\ app' = IF Head(chain) = Boot THEN "closed" ELSE app
    /\ mem' = IF Head(chain) = Boot THEN << >> ELSE mem
    /\ UNCHANGED <<image, file>>

\* The process ends, by a crash or by quitting with work still under way
\* (will-quit closes the database and waits for nothing).
Exit ==
    /\ app # "closed"
    /\ app' = "closed"
    /\ mem' = << >>
    /\ chain' = << >>
    /\ phase' = "queued"
    /\ image' = << >>
    /\ call' = [c \in Calls |-> IF call[c] \in InFlight THEN "lost" ELSE call[c]]
    /\ UNCHANGED file

RunStep == RunExport \/ RunWritten \/ RunRenamed \/ RunFails

Next ==
    \/ OpenRead
    \/ \E c \in Handlers : Handle(c)
    \/ \E s \in Syncs : SyncUpsert(s) \/ SyncPersist(s) \/ SyncFetchFails(s)
    \/ \E c \in Calls : Reply(c)
    \/ RunExport \/ RunWritten \/ RunRenamed \/ RunFails
    \/ Exit

Spec == Init /\ [][Next]_vars

\* File operations end, requests end, and the event loop runs what is ready.
Fairness ==
    /\ WF_vars(RunStep)
    /\ \A s \in Syncs : WF_vars(SyncPersist(s) \/ SyncFetchFails(s))
    /\ \A c \in Calls : WF_vars(Reply(c))

FairSpec == Spec /\ Fairness

-----------------------------------------------------------------------------
(***************************************************************************)
(* Properties.                                                             *)
(***************************************************************************)
DS == INSTANCE DurableStore WITH
        Ops <- Calls,
        volatile <- IF app = "closed" THEN file.data ELSE mem,
        stable <- file.data,
        acked <- {c \in Calls : call[c] = "replied"}

\* An operation whose handler replied is in the database file, whatever saves
\* were queued, failed or lost around it, and stays there over restarts.
AckedIsDurable ==
    \A c \in Calls : call[c] \in {"saved", "replied"} => Contains(file.data, c)

\* While the database is in use the file holds a whole export of a state the
\* image went through, never a torn one and never one with an operation but
\* not those applied before it.
FileIsEarlierState ==
    /\ file.whole
    /\ app = "running" => IsPrefix(file.data, mem)

\* No save puts back an older export over a newer one.
NoRollback ==
    [][IsPrefix(file.data, file'.data)]_vars

\* The same from the first answer of a session to its last, also when the
\* session began with a database file it could not read.
NoRollbackInSession ==
    [][app = "running" /\ app' # "closed" => IsPrefix(file.data, file'.data)]_vars

\* A failed write rejects the one caller whose save it was.
OneCallerPerFailure ==
    [][\A c, d \in Calls :
         /\ call[c] = "waiting" /\ call'[c] = "rejected"
         /\ call[d] = "waiting" /\ call'[d] = "rejected"
         => c = d]_vars

\* The persistence layer implements DurableStore.
ImplementsDurableStore == DS!Spec

\* Every save that was asked for settles: its caller gets an answer or ends
\* with the process.
EverySaveSettles ==
    \A c \in Calls : call[c] = "waiting" ~> call[c] \in {"replied", "rejected", "lost"}
=============================================================================
