----------------------------- MODULE NoticesSync -----------------------------
(***************************************************************************)
(* The notices of the PlayNC boards in the desktop database: the scheduler *)
(* that runs one sync at a time (at start-up, every 30 minutes and when    *)
(* the renderer asks) and the sync itself, which lists the boards, fetches *)
(* the articles that were updated, stores a snapshot of each content and a *)
(* diff from the snapshot before, and saves the database at its end.       *)
(*                                                                         *)
(* The sync awaits the network for every list and every article.  In       *)
(* between, articles are edited, other handlers save the database with     *)
(* what the sync stored so far, and the application may exit.              *)
(***************************************************************************)
EXTENDS Naturals, FiniteSets, SequencesExt

CONSTANTS
    Sources,       \* boards ("NOTICE", "UPDATE")
    Articles,      \* external identifiers
    SourceOf,      \* [Articles -> Sources]
    Contents,      \* content hashes
    Callers,       \* calls of notices:syncNow
    None,
    MaxEdits,      \* bound: publications and edits of an article
    MaxFailures,   \* bound: requests and saves that fail
    MaxExits       \* bound: exits of the application

ASSUME SyncAssumption ==
    /\ SourceOf \in [Articles -> Sources]
    /\ None \notin Contents \cup Articles
    /\ {MaxEdits, MaxFailures, MaxExits} \subseteq Nat

VARIABLES
    web,        \* the boards: content of each article and its updatedAt
    mem, disk,  \* notice tables in the memory image and in the file
    run,        \* the sync in flight (inFlight of the scheduler)
    call,       \* where each call of notices:syncNow stands
    failures, exits,
    seen        \* history: the content last fetched of an article

vars == <<web, mem, disk, run, call, failures, exits, seen>>

\* updatedAt is the number of the edit; 0 is an article not published yet,
\* or not stored yet.
Notice ==
    [updatedAt : 0..MaxEdits,
     snaps     : Seq(Contents),               \* by fetched_at
     diffs     : SUBSET (Contents \X Contents)]

NoNotice == [updatedAt |-> 0, snaps |-> << >>, diffs |-> {}]

\* A list entry (meta): an article and the updatedAt it was listed with.
Metas == Articles \X (1..MaxEdits)

Idle == [at |-> "idle", left |-> {}, metas |-> {}, meta |-> None,
         start |-> [a \in Articles |-> 0]]

WebArticle == [content : Contents \cup {None}, updatedAt : 0..MaxEdits]

Runs ==
    [at    : {"idle", "listing", "fetching", "saving"},
     left  : SUBSET Sources,             \* boards not listed yet
     metas : SUBSET Metas,               \* entries of this board to do
     meta  : Metas \cup {None},          \* the entry being fetched
     start : [Articles -> 0..MaxEdits]]  \* history: web when it started

TypeOK ==
    /\ web \in [Articles -> WebArticle]
    /\ mem \in [Articles -> Notice]
    /\ disk \in [Articles -> Notice]
    /\ run \in Runs
    /\ call \in [Callers -> {"idle", "waiting", "ok", "failed", "lost"}]
    /\ failures \in 0..MaxFailures
    /\ exits \in 0..MaxExits
    /\ seen \in [Articles -> Contents \cup {None}]

Init ==
    /\ web = [a \in Articles |-> [content |-> None, updatedAt |-> 0]]
    /\ mem = [a \in Articles |-> NoNotice]
    /\ disk = mem
    /\ run = Idle
    /\ call = [c \in Callers |-> "idle"]
    /\ failures = 0
    /\ exits = 0
    /\ seen = [a \in Articles |-> None]

-----------------------------------------------------------------------------
(***************************************************************************)
(* PlayNC (external): an article is published or edited.  Every edit moves *)
(* its updatedAt; lists and details show both at once.                     *)
(***************************************************************************)
Edit(a, content) ==
    /\ web[a].updatedAt < MaxEdits
    /\ content # web[a].content
    /\ web' = [web EXCEPT ![a] = [content |-> content, updatedAt |-> @.updatedAt + 1]]
    /\ UNCHANGED <<mem, disk, run, call, failures, exits, seen>>

-----------------------------------------------------------------------------
(***************************************************************************)
(* The scheduler.                                                          *)
(***************************************************************************)

\* run(): nothing starts while a run is in flight.
StartRun ==
    /\ run.at = "idle"
    /\ run' = [Idle EXCEPT !.at = "listing", !.left = Sources,
                           !.start = [a \in Articles |-> web[a].updatedAt]]

\* At start-up and whenever the interval timer fires.
Timer ==
    /\ StartRun
    /\ UNCHANGED <<web, mem, disk, call, failures, exits, seen>>

\* notices:syncNow starts a run or joins the one in flight.
SyncNow(c) ==
    /\ call[c] = "idle"
    /\ call' = [call EXCEPT ![c] = "waiting"]
    /\ StartRun \/ (run.at # "idle" /\ UNCHANGED run)
    /\ UNCHANGED <<web, mem, disk, failures, exits, seen>>

\* Variant: inFlight is not reset.
SettleKept(outcome) ==
    /\ run' = [run EXCEPT !.at = "settled"]
    /\ call' = [c \in Callers |-> IF call[c] = "waiting" THEN outcome ELSE call[c]]

\* The promise of the run settles: it never rejects, the error is in the
\* status that is returned to all who joined.
Settle(outcome) ==
    /\ run' = Idle
    /\ call' = [c \in Callers |-> IF call[c] = "waiting" THEN outcome ELSE call[c]]

-----------------------------------------------------------------------------
(***************************************************************************)
(* The sync.                                                               *)
(***************************************************************************)

\* Variant: updatedAt is not compared.
SkippedOnce(m) == mem[m[1]].snaps # << >>

\* Is the detail of a listed article not fetched?
Skipped(m) ==
    /\ mem[m[1]].updatedAt = m[2]
    /\ mem[m[1]].snaps # << >>

\* The part of the loop between two awaits: on to the first entry that is
\* not skipped, else to the next board, else to the save.  Entries are done
\* in the order of the list, which is any order.
Continue(left, metas) ==
    \/ \E m \in metas :
          /\ ~Skipped(m)
          /\ run' = [run EXCEPT !.at = "fetching", !.left = left,
                                !.metas = metas \ {m}, !.meta = m]
    \/ /\ \A m \in metas : Skipped(m)
       /\ run' = [run EXCEPT !.at = IF left = {} THEN "saving" ELSE "listing",
                             !.left = left, !.metas = {}, !.meta = None]

\* The list of the next board arrives (pinned articles and the newest page).
Listed(s) ==
    /\ run.at = "listing"
    /\ s \in run.left
    /\ Continue(run.left \ {s},
                {<<a, web[a].updatedAt>> : a \in
                    {x \in Articles : SourceOf[x] = s /\ web[x].updatedAt > 0}})
    /\ UNCHANGED <<web, mem, disk, call, failures, exits, seen>>

\* Variant: a snapshot is looked up by its article only.
StoreFirst(notice, updatedAt, content) ==
    [notice EXCEPT !.updatedAt = updatedAt,
                   !.snaps = IF @ = << >> THEN <<content>> ELSE @]

\* Variant: the latest snapshot is read after the new one was inserted.
StoreThenRead(notice, updatedAt, content) ==
    [notice EXCEPT !.updatedAt = updatedAt,
                   !.snaps = IF Contains(@, content) THEN @ ELSE Append(@, content)]

\* upsertNoticeItem, upsertSnapshot and upsertDiff of one article.
Store(notice, updatedAt, content) ==
    LET isNew == ~Contains(notice.snaps, content)
        hadSnap == notice.snaps # << >>
    IN  [updatedAt |-> updatedAt,
         snaps |-> IF isNew THEN Append(notice.snaps, content) ELSE notice.snaps,
         diffs |-> IF hadSnap /\ Last(notice.snaps) # content
                   THEN notice.diffs \cup {<<Last(notice.snaps), content>>}
                   ELSE notice.diffs]

\* The detail arrives: it may be newer than the entry of the list was.  It
\* is stored, and the loop goes on, in one synchronous stretch.
Fetched ==
    /\ run.at = "fetching"
    /\ LET a == run.meta[1]
           content == web[a].content
       IN  /\ mem' = [mem EXCEPT ![a] = Store(@, run.meta[2], content)]
           /\ seen' = [seen EXCEPT ![a] = content]
    /\ Continue(run.left, run.metas)
    /\ UNCHANGED <<web, disk, call, failures, exits>>

\* Variant: the error is not kept in the status.
RunFailsSilently ==
    /\ run.at # "idle"
    /\ failures < MaxFailures
    /\ failures' = failures + 1
    /\ Settle("ok")
    /\ UNCHANGED <<web, mem, disk, exits, seen>>

\* A request is rejected, its answer is malformed or the save fails: so does
\* the run, and what it stored stays in the image.
RunFails ==
    /\ run.at # "idle"
    /\ failures < MaxFailures
    /\ failures' = failures + 1
    /\ Settle("failed")
    /\ UNCHANGED <<web, mem, disk, exits, seen>>

\* The final persist() is done.
Saved ==
    /\ run.at = "saving"
    /\ disk' = mem
    /\ Settle("ok")
    /\ UNCHANGED <<web, mem, failures, exits, seen>>

-----------------------------------------------------------------------------
(***************************************************************************)
(* The rest of the application.                                            *)
(***************************************************************************)

\* Another handler persists the image with what the sync stored so far.
SavedByOthers ==
    /\ disk' = mem
    /\ UNCHANGED <<web, mem, run, call, failures, exits, seen>>

\* The application exits and is started again on the file.
Exit ==
    /\ exits < MaxExits
    /\ exits' = exits + 1
    /\ mem' = disk
    /\ run' = Idle
    /\ call' = [c \in Callers |-> IF call[c] = "waiting" THEN "lost" ELSE call[c]]
    /\ seen' = [a \in Articles |-> IF disk[a] = mem[a] THEN seen[a] ELSE None]
    /\ UNCHANGED <<web, disk, failures>>

-----------------------------------------------------------------------------
SyncStep == (\E s \in Sources : Listed(s)) \/ Fetched \/ Saved

Next ==
    \/ \E a \in Articles, content \in Contents : Edit(a, content)
    \/ Timer
    \/ \E c \in Callers : SyncNow(c)
    \/ SyncStep
    \/ RunFails
    \/ SavedByOthers
    \/ Exit

Spec == Init /\ [][Next]_vars

\* The interval timer fires again and again, and requests are answered or
\* fail.
Fairness == WF_vars(Timer) /\ WF_vars(SyncStep)
FairSpec == Spec /\ Fairness

-----------------------------------------------------------------------------
(***************************************************************************)
(* Properties.                                                             *)
(***************************************************************************)
Published == {a \in Articles : web[a].updatedAt > 0}

\* An article the next sync would skip has no content that was never stored,
\* be it on the image as it is or on the file after a restart: an edit between
\* the list and the detail, a failed request or an exit in the middle of a run
\* never hides a change (the test of existing.updatedAt and getLatestSnapshot).
SkippedIsStored ==
    \A a \in Published : \A n \in {mem[a], disk[a]} :
        n.updatedAt = web[a].updatedAt /\ n.snaps # << >>
            => Contains(n.snaps, web[a].content)

\* Snapshots and diffs agree: each snapshot after the first was stored with
\* the diff from the one before, and a diff joins two different snapshots --
\* in the image as in the file, wherever a run broke off.
Linked(n) ==
    /\ \A i \in 2..Len(n.snaps) : <<n.snaps[i - 1], n.snaps[i]>> \in n.diffs
    /\ \A d \in n.diffs : /\ d[1] # d[2]
                          /\ Contains(n.snaps, d[1]) /\ Contains(n.snaps, d[2])
DiffsLinkSnapshots == \A a \in Articles : Linked(mem[a]) /\ Linked(disk[a])

\* A sync that succeeds has brought every article at least to where it was
\* when the sync started, also after runs that failed half-way, and saved it.
SuccessIsCurrent ==
    [][\A c \in Callers : call[c] = "waiting" /\ call'[c] = "ok" =>
          \A a \in Articles : disk'[a].updatedAt >= run.start[a]]_vars

\* Every call of notices:syncNow is answered, unless the application exits.
SyncNowReturns ==
    \A c \in Callers : (call[c] = "waiting") ~> (call[c] \in {"ok", "failed", "lost"})

\* Once edits cease, every published article is stored and saved as it is,
\* in spite of failed requests and exits.
CaughtUp ==
    <>[](\A a \in Published :
            /\ disk[a].updatedAt = web[a].updatedAt
            /\ Contains(disk[a].snaps, web[a].content))
=============================================================================
