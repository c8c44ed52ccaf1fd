----------------------------- MODULE WorkerSync -----------------------------
(***************************************************************************)
(* The notices sync of the server (apps/worker): a command that lists the   *)
(* boards and, for every article listed, looks for the latest snapshot,     *)
(* fetches the detail and stores the item, the snapshot and the diff, each  *)
(* by a statement of its own that PostgreSQL commits at once.  Unlike the   *)
(* desktop's sync (module NoticesSync) it skips no article, runs in no      *)
(* transaction and takes no lock: several runs of the command may overlap,  *)
(* and one may break off between any two statements.                        *)
(*                                                                         *)
(* A version of an article is its content's hash, and stands for the title  *)
(* and the date that go with it.  Identifiers of rows are left out: an item *)
(* is its article, a snapshot its article and hash (the unique keys of the  *)
(* schema).  One page of a board is listed.                                 *)
(***************************************************************************)
EXTENDS Naturals, SequencesExt

CONSTANTS
    Runners,       \* processes that run the command
    Sources,       \* boards
    Articles,      \* external identifiers
    SourceOf,      \* [Articles -> Sources]
    Contents,      \* versions of an article
    None,
    MaxEdits,      \* bound: publications and edits, of all articles
    MaxFailures    \* bound: requests and statements that fail, processes killed

ASSUME WorkerAssumption ==
    /\ SourceOf \in [Articles -> Sources]
    /\ None \notin Contents \cup Articles
    /\ {MaxEdits, MaxFailures} \subseteq Nat

VARIABLES
    board,      \* the version of each article on its board
    item,       \* noticeItem: the version its row was last updated with
    snaps,      \* noticeSnapshot, by fetchedAt
    diffs,      \* noticeDiff: <<from, to>>
    run,        \* where each runner stands
    edits, failures,
    torn        \* history: articles whose diff was lost to a failure or a race

tables == <<item, snaps, diffs>>
vars == <<board, item, snaps, diffs, run, edits, failures, torn>>

Idle == [at |-> "idle", dry |-> FALSE, left |-> {}, todo |-> {}, article |-> None,
         latest |-> None, content |-> None, same |-> {}, alone |-> TRUE]

Runs == [at : {"idle", "listing", "looking", "fetching", "item", "snapshot", "diff"},
         dry     : BOOLEAN,                 \* --dryRun
         left    : SUBSET Sources,          \* boards not listed yet
         todo    : SUBSET Articles,         \* articles of this board to do
         article : Articles \cup {None},
         latest  : Contents \cup {None},    \* existingLatest
         content : Contents \cup {None},    \* detail
         same    : SUBSET Articles,         \* history: to be synced and not edited since
         alone   : BOOLEAN]                 \* history: no other run since the start

TypeOK ==
    /\ board \in [Articles -> Contents \cup {None}]
    /\ item \in [Articles -> Contents \cup {None}]
    /\ snaps \in [Articles -> Seq(Contents)]
    /\ diffs \in [Articles -> SUBSET (Contents \X Contents)]
    /\ run \in [Runners -> Runs]
    /\ edits \in 0..MaxEdits
    /\ failures \in 0..MaxFailures
    /\ torn \subseteq Articles

Init ==
    /\ board = [a \in Articles |-> None]
    /\ item = [a \in Articles |-> None]
    /\ snaps = [a \in Articles |-> << >>]
    /\ diffs = [a \in Articles |-> {}]
    /\ run = [r \in Runners |-> Idle]
    /\ edits = 0
    /\ failures = 0
    /\ torn = {}

-----------------------------------------------------------------------------
\* PlayNC (external): an article is published or edited, perhaps back to an
\* earlier version.
Edit(a, content) ==
    /\ edits < MaxEdits
    /\ content # board[a]
    /\ board' = [board EXCEPT ![a] = content]
    /\ edits' = edits + 1
    /\ run' = [r \in Runners |-> [run[r] EXCEPT !.same = @ \ {a}]]
    /\ UNCHANGED <<tables, failures, torn>>

\* The command is started on all boards or on one (--source, --dryRun).
Start(r, sources, dry) ==
    /\ run[r].at = "idle"
    /\ LET others == {q \in Runners : run[q].at # "idle"}
       IN  run' = [q \in Runners |->
             IF q # r THEN [run[q] EXCEPT !.alone = @ /\ q \notin others]
             ELSE [Idle EXCEPT !.at = "listing", !.dry = dry, !.left = sources,
                     !.same = {a \in Articles : board[a] # None /\ SourceOf[a] \in sources},
                     !.alone = others = {}]]
    /\ UNCHANGED <<board, tables, edits, failures, torn>>

\* What comes after the work on an article: the next of the list, the next
\* board, or the end of the run.
Continue(r, left, todo) ==
    LET next == [run[r] EXCEPT !.left = left, !.article = None,
                               !.latest = None, !.content = None]
    IN  \/ \E a \in todo :
              run' = [run EXCEPT ![r] = [next EXCEPT
                        !.at = IF next.dry THEN "fetching" ELSE "looking",
                        !.todo = todo \ {a}, !.article = a]]
        \/ /\ todo = {} /\ left # {}
           /\ run' = [run EXCEPT ![r] = [next EXCEPT !.at = "listing"]]
        \/ todo = {} /\ left = {} /\ run' = [run EXCEPT ![r] = Idle]

At(r, where) == run[r].at = where

Published == {a \in Articles : board[a] # None}

\* The list of the next board arrives.
Listed(r, s) ==
    /\ At(r, "listing")
    /\ s \in run[r].left
    /\ Continue(r, run[r].left \ {s}, {a \in Published : SourceOf[a] = s})
    /\ UNCHANGED <<board, tables, edits, failures, torn>>

\* findLatestSnapshot.
Looked(r) ==
    /\ At(r, "looking")
    /\ LET before == snaps[run[r].article]
       IN  run' = [run EXCEPT ![r].at = "fetching",
                     ![r].latest = IF before = << >> THEN None ELSE Last(before)]
    /\ UNCHANGED <<board, tables, edits, failures, torn>>

\* fetchArticleDetail: a dry run goes on to the next article.
Fetched(r) ==
    /\ At(r, "fetching")
    /\ IF run[r].dry
         THEN Continue(r, run[r].left, run[r].todo)
         ELSE run' = [run EXCEPT ![r].at = "item", ![r].content = board[run[r].article]]
    /\ UNCHANGED <<board, tables, edits, failures, torn>>

\* Variant: a row that exists is not updated.
ItemStoredOnce(r) ==
    /\ At(r, "item")
    /\ item' = [item EXCEPT ![run[r].article] = IF @ = None THEN run[r].content ELSE @]
    /\ run' = [run EXCEPT ![r].at = "snapshot"]
    /\ UNCHANGED <<board, snaps, diffs, edits, failures, torn>>

\* upsertItem.
ItemStored(r) ==
    /\ At(r, "item")
    /\ item' = [item EXCEPT ![run[r].article] = run[r].content]
    /\ run' = [run EXCEPT ![r].at = "snapshot"]
    /\ UNCHANGED <<board, snaps, diffs, edits, failures, torn>>

\* Variant: a content stored before becomes the latest again (fetchedAt is
\* updated, too).
SnapshotTouched(r) ==
    LET a == run[r].article
        latest == run[r].latest
        content == run[r].content
        isNew == ~Contains(snaps[a], content)
        raced == snaps[a] # << >> /\ Last(snaps[a]) # latest
    IN  /\ At(r, "snapshot")
        /\ snaps' = [snaps EXCEPT ![a] = Append(SelectSeq(@, LAMBDA c : c # content), content)]
        /\ IF latest \notin {None, content}
             THEN run' = [run EXCEPT ![r].at = "diff"]
             ELSE Continue(r, run[r].left, run[r].todo)
        /\ torn' = IF isNew /\ raced THEN torn \cup {a} ELSE torn
        /\ UNCHANGED <<board, item, diffs, edits, failures>>

\* upsertSnapshot: a content stored before keeps its row and its fetchedAt.
\* The diff is made when the run found an earlier snapshot, of another
\* content.  Another run may have stored a snapshot since the look.
SnapshotStored(r) ==
    LET a == run[r].article
        latest == run[r].latest
        content == run[r].content
        isNew == ~Contains(snaps[a], content)
        raced == snaps[a] # << >> /\ Last(snaps[a]) # latest
    IN  /\ At(r, "snapshot")
        /\ snaps' = [snaps EXCEPT ![a] = IF isNew THEN Append(@, content) ELSE @]
        /\ IF latest \notin {None, content}
             THEN run' = [run EXCEPT ![r].at = "diff"]
             ELSE Continue(r, run[r].left, run[r].todo)
        /\ torn' = IF isNew /\ raced THEN torn \cup {a} ELSE torn
        /\ UNCHANGED <<board, item, diffs, edits, failures>>

\* upsertDiff.
DiffStored(r) ==
    /\ At(r, "diff")
    /\ diffs' = [diffs EXCEPT ![run[r].article] = @ \cup {<<run[r].latest, run[r].content>>}]
    /\ Continue(r, run[r].left, run[r].todo)
    /\ UNCHANGED <<board, item, snaps, edits, failures, torn>>

\* A request or a statement is rejected, or the process is killed: the run
\* is over, and what it committed stays.
Fails(r) ==
    /\ run[r].at # "idle"
    /\ failures < MaxFailures
    /\ failures' = failures + 1
    /\ run' = [run EXCEPT ![r] = Idle]
    /\ torn' = IF At(r, "diff") THEN torn \cup {run[r].article} ELSE torn
    /\ UNCHANGED <<board, tables, edits>>

Step(r) ==
    \/ \E s \in Sources : Listed(r, s)
    \/ Looked(r) \/ Fetched(r) \/ ItemStored(r) \/ SnapshotStored(r) \/ DiffStored(r)

Next ==
    \/ \E a \in Articles, content \in Contents : Edit(a, content)
    \/ \E r \in Runners :
          \/ \E sources \in (SUBSET Sources) \ {{}}, dry \in BOOLEAN : Start(r, sources, dry)
          \/ Step(r)
          \/ Fails(r)

Spec == Init /\ [][Next]_vars

-----------------------------------------------------------------------------
(***************************************************************************)
(* Properties.                                                             *)
(***************************************************************************)
\* Each snapshot after the first has the diff from the one before it, or the
\* run that stored it is about to make it -- unless a run broke off between
\* the two statements or stored its snapshot after another run's: nothing
\* else leaves two snapshots in a row without their diff (sync.ts compares
\* with the snapshot found before the detail was fetched; later runs never
\* make up for a diff that is missing).  That is less than a diff for every
\* change of the hash (docs/plans/2026-01-29-notices-feed-diff.md:7): an
\* article that returns to an earlier content gets no new snapshot, so that
\* of A, B, A, C the diffs are A to B, B to A and B to C, and none is A to C.
Pending(a, d) ==
    \E r \in Runners : /\ At(r, "diff") /\ run[r].article = a
                       /\ <<run[r].latest, run[r].content>> = d
OnlyTornMisses ==
    \A a \in Articles \ torn : \A i \in 2..Len(snaps[a]) :
        LET d == <<snaps[a][i - 1], snaps[a][i]>> IN d \in diffs[a] \/ Pending(a, d)

\* A run that ends without an error has stored the version of every article
\* of its boards that was not edited meanwhile, and if no other run was under
\* way the item's row is of that version too: whatever earlier runs left
\* unfinished is made good by the next one (sync.ts skips no article).
EndIsCurrent ==
    [][\A r \in Runners :
          run[r].at # "idle" /\ run'[r].at = "idle" /\ failures' = failures /\ ~run[r].dry
             => \A a \in run[r].same : /\ Contains(snaps'[a], board[a])
                                       /\ run[r].alone => item'[a] = board[a]]_vars
=============================================================================
