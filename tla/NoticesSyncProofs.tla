-------------------------- MODULE NoticesSyncProofs --------------------------
(***************************************************************************)
(* Proofs about the notices sync, for every set of boards, articles and    *)
(* callers and all bounds.                                                 *)
(***************************************************************************)
EXTENDS NoticesSync, TLAPS

-----------------------------------------------------------------------------
(***************************************************************************)
(* What the upserts of one article do to its rows.                         *)
(***************************************************************************)

\* The rows stay rows, and hold the content that was fetched.
LEMMA StoreType ==
    ASSUME NEW n \in Notice, NEW u \in 0..MaxEdits, NEW c \in Contents
    PROVE  /\ Store(n, u, c) \in Notice
           /\ Store(n, u, c).updatedAt = u
           /\ Store(n, u, c).snaps # << >>
           /\ Contains(Store(n, u, c).snaps, c)
  <1> DEFINE s == Store(n, u, c).snaps
  <1>1. n.snaps \in Seq(Contents) /\ n.diffs \in SUBSET (Contents \X Contents)
    BY DEF Notice
  <1>2. s \in Seq(Contents) /\ Contains(s, c) /\ s # << >>
    <2>1. CASE Contains(n.snaps, c)
      <3>1. s = n.snaps
        BY <2>1 DEF Store
      <3>2. QED
        BY <2>1, <3>1, <1>1 DEF Contains
    <2>2. CASE ~Contains(n.snaps, c)
      <3>1. s = Append(n.snaps, c)
        BY <2>2 DEF Store
      <3>2. /\ Append(n.snaps, c) \in Seq(Contents)
            /\ Len(Append(n.snaps, c)) = Len(n.snaps) + 1
            /\ Append(n.snaps, c)[Len(n.snaps) + 1] = c
        BY <1>1
      <3>3. Len(n.snaps) + 1 \in 1..Len(Append(n.snaps, c))
        BY <1>1, <3>2
      <3>4. QED
        BY <3>1, <3>2, <3>3, <1>1 DEF Contains
    <2>3. QED
      BY <2>1, <2>2
  <1>3. n.snaps # << >> => Last(n.snaps) \in Contents
    BY <1>1 DEF Last
  <1>4. Store(n, u, c).diffs \in SUBSET (Contents \X Contents)
    BY <1>1, <1>3 DEF Store
  <1>5. Store(n, u, c) = [updatedAt |-> Store(n, u, c).updatedAt, snaps |-> s,
                          diffs |-> Store(n, u, c).diffs]
        /\ Store(n, u, c).updatedAt = u
    BY DEF Store
  <1> HIDE DEF s
  <1>6. Store(n, u, c) \in Notice
    BY <1>2, <1>4, <1>5 DEF Notice
  <1>7. QED
    BY <1>2, <1>5, <1>6 DEF s

\* A snapshot that is new comes with the diff from the one before it.
LEMMA StoreLinked ==
    ASSUME NEW n \in Notice, NEW u \in 0..MaxEdits, NEW c \in Contents, Linked(n)
    PROVE  Linked(Store(n, u, c))
  <1> DEFINE k == Len(n.snaps)
             m == Store(n, u, c)
             last == Last(n.snaps)
  <1>1. n.snaps \in Seq(Contents) /\ k \in Nat
    BY DEF Notice
  <1>2. n.snaps # << >> => k > 0 /\ last = n.snaps[k] /\ Contains(n.snaps, last)
    BY <1>1 DEF Last, Contains
  <1>3. /\ Contains(m.snaps, c)
        /\ \A x : Contains(n.snaps, x) => Contains(m.snaps, x)
    <2>1. Contains(m.snaps, c)
      BY StoreType
    <2>2. CASE Contains(n.snaps, c)
      BY <2>1, <2>2 DEF Store
    <2>3. CASE ~Contains(n.snaps, c)
      <3>1. m.snaps = Append(n.snaps, c)
        BY <2>3 DEF Store
      <3>2. \A x : Contains(n.snaps, x) => Contains(Append(n.snaps, c), x)
        BY <1>1 DEF Contains
      <3>3. QED
        BY <2>1, <3>1, <3>2
    <2>4. QED
      BY <2>2, <2>3
  <1>4. m.diffs = IF n.snaps # << >> /\ last # c
                  THEN n.diffs \cup {<<last, c>>} ELSE n.diffs
    BY DEF Store
  <1>5. \A d \in m.diffs : /\ d[1] # d[2]
                           /\ Contains(m.snaps, d[1]) /\ Contains(m.snaps, d[2])
    <2> SUFFICES ASSUME NEW d \in m.diffs
                 PROVE  d[1] # d[2] /\ Contains(m.snaps, d[1]) /\ Contains(m.snaps, d[2])
      OBVIOUS
    <2>1. CASE d \in n.diffs
      BY <2>1, <1>3 DEF Linked
    <2>2. CASE n.snaps # << >> /\ last # c /\ d = <<last, c>>
      BY <2>2, <1>2, <1>3
    <2>3. QED
      BY <2>1, <2>2, <1>4
  <1>6. \A i \in 2..Len(m.snaps) : <<m.snaps[i - 1], m.snaps[i]>> \in m.diffs
    <2> SUFFICES ASSUME NEW i \in 2..Len(m.snaps)
                 PROVE  <<m.snaps[i - 1], m.snaps[i]>> \in m.diffs
      OBVIOUS
    <2>1. CASE Contains(n.snaps, c)
      <3>1. m.snaps = n.snaps
        BY <2>1 DEF Store
      <3>2. <<n.snaps[i - 1], n.snaps[i]>> \in n.diffs
        BY <3>1 DEF Linked
      <3>3. QED
        BY <3>1, <3>2, <1>4
    <2>2. CASE ~Contains(n.snaps, c)
      <3>1. m.snaps = Append(n.snaps, c)
        BY <2>2 DEF Store
      <3>2. /\ Len(Append(n.snaps, c)) = k + 1
            /\ Append(n.snaps, c)[k + 1] = c
            /\ \A j \in 1..k : Append(n.snaps, c)[j] = n.snaps[j]
        BY <1>1
      <3>3. CASE i = k + 1
        <4>1. n.snaps # << >> /\ m.snaps[i - 1] = last /\ m.snaps[i] = c
          BY <3>1, <3>2, <3>3, <1>1, <1>2
        <4>2. last # c
          BY <4>1, <1>2, <2>2
        <4>3. QED
          BY <4>1, <4>2, <1>4
      <3>4. CASE i # k + 1
        <4>1. i \in 2..k /\ i - 1 \in 1..k /\ i \in 1..k
          BY <3>1, <3>2, <3>4, <1>1
        <4>2. m.snaps[i - 1] = n.snaps[i - 1] /\ m.snaps[i] = n.snaps[i]
          BY <3>1, <3>2, <4>1
        <4>3. <<n.snaps[i - 1], n.snaps[i]>> \in n.diffs
          BY <4>1 DEF Linked
        <4>4. QED
          BY <4>2, <4>3, <1>4
      <3>5. QED
        BY <3>3, <3>4
    <2>3. QED
      BY <2>1, <2>2
  <1> HIDE DEF m
  <1>7. Linked(m)
    BY <1>5, <1>6 DEF Linked
  <1>8. QED
    BY <1>7 DEF m

-----------------------------------------------------------------------------
(***************************************************************************)
(* The inductive invariant.  That a skipped article hides nothing rests on *)
(* an order between the three places an updatedAt is kept: a row, and an   *)
(* entry of a list, are never ahead of the board, so that whatever a       *)
(* detail brings is at least as new as the updatedAt stored with it.       *)
(***************************************************************************)

\* The board holds the content of what it published, and no row is ahead.
BoardInv ==
    \A a \in Articles :
        /\ web[a].updatedAt > 0 => web[a].content \in Contents
        /\ mem[a].updatedAt <= web[a].updatedAt
        /\ disk[a].updatedAt <= web[a].updatedAt

\* Nor is an entry of the list the run has in hand.
ListInv ==
    /\ \A m \in run.metas : m[2] <= web[m[1]].updatedAt
    /\ run.at = "fetching" => /\ run.meta \in Metas
                             /\ run.meta[2] <= web[run.meta[1]].updatedAt

\* What SkippedIsStored says of the row n of the article a.
Fresh(n, a) ==
    web[a].updatedAt > 0 /\ n.updatedAt = web[a].updatedAt /\ n.snaps # << >>
        => Contains(n.snaps, web[a].content)

RowInv ==
    \A a \in Articles :
        /\ Fresh(mem[a], a) /\ Fresh(disk[a], a)
        /\ Linked(mem[a]) /\ Linked(disk[a])

IInv == TypeOK /\ BoardInv /\ ListInv /\ RowInv

\* Initially nothing is published and nothing is stored.
LEMMA InitIInv == Init => IInv
  <1> SUFFICES ASSUME Init
               PROVE  IInv
    OBVIOUS
  <1> USE SyncAssumption
  <1>1. NoNotice \in Notice /\ Linked(NoNotice)
    <2>1. << >> \in Seq(Contents) /\ Len(<< >>) = 0
      OBVIOUS
    <2>2. NoNotice \in Notice
      BY <2>1 DEF NoNotice, Notice
    <2>3. Linked(NoNotice)
      BY <2>1 DEF NoNotice, Linked
    <2>4. QED
      BY <2>2, <2>3
  <1>2. Idle \in Runs /\ Idle.metas = {} /\ Idle.at = "idle"
    BY DEF Idle, Runs
  <1>3. TypeOK
    BY <1>1, <1>2 DEF Init, TypeOK, WebArticle
  <1>4. BoardInv
    BY DEF Init, BoardInv, NoNotice
  <1>5. ListInv
    BY <1>2 DEF Init, ListInv
  <1>6. RowInv
    BY <1>1 DEF Init, RowInv, Fresh
  <1>7. QED
    BY <1>3, <1>4, <1>5, <1>6 DEF IInv

\* An edit moves updatedAt past every row and entry: none is fresh any more.
LEMMA EditIInv ==
    ASSUME IInv, NEW a \in Articles, NEW content \in Contents, Edit(a, content)
    PROVE  IInv'
  <1> USE SyncAssumption DEF IInv
  <1> DEFINE new == [content |-> content, updatedAt |-> web[a].updatedAt + 1]
  <1>1. /\ web' = [web EXCEPT ![a] = new]
        /\ UNCHANGED <<mem, disk, run, call, failures, exits, seen>>
        /\ web[a].updatedAt < MaxEdits
    BY DEF Edit
  <1>2. web[a] \in WebArticle
    BY DEF TypeOK
  <1>3. new \in WebArticle /\ new.updatedAt = web[a].updatedAt + 1 /\ new.content = content
    BY <1>1, <1>2 DEF WebArticle
  <1> HIDE DEF new
  <1>4. /\ web' \in [Articles -> WebArticle]
        /\ web'[a] = new
        /\ \A b \in Articles : b # a => web'[b] = web[b]
    BY <1>1, <1>3 DEF TypeOK
  <1>5. TypeOK'
    BY <1>1, <1>4 DEF TypeOK
  <1>6. \A b \in Articles : web[b].updatedAt \in Nat /\ web[b].updatedAt <= web'[b].updatedAt
    BY <1>2, <1>3, <1>4 DEF TypeOK, WebArticle
  <1>7. \A b \in Articles : mem[b].updatedAt \in Nat /\ disk[b].updatedAt \in Nat
    BY DEF TypeOK, Notice
  <1>8. BoardInv'
    <2> SUFFICES ASSUME NEW b \in Articles
                 PROVE  /\ web'[b].updatedAt > 0 => web'[b].content \in Contents
                        /\ mem[b].updatedAt <= web'[b].updatedAt
                        /\ disk[b].updatedAt <= web'[b].updatedAt
      BY <1>1 DEF BoardInv
    <2>1. web'[b].updatedAt > 0 => web'[b].content \in Contents
      BY <1>3, <1>4 DEF BoardInv
    <2>2. web'[b].updatedAt \in Nat
      BY <1>4 DEF WebArticle
    <2>3. QED
      BY <2>1, <2>2, <1>6, <1>7 DEF BoardInv
  <1>9. ListInv'
    <2>1. ASSUME NEW m \in Metas, m[2] <= web[m[1]].updatedAt
          PROVE  m[2] <= web'[m[1]].updatedAt
      <3>1. m[1] \in Articles /\ m[2] \in Nat
        BY DEF Metas
      <3>2. web'[m[1]].updatedAt \in Nat
        BY <1>4, <3>1 DEF WebArticle
      <3>3. QED
        BY <2>1, <3>1, <3>2, <1>6
    <2>2. run.metas \subseteq Metas
      BY DEF TypeOK, Runs
    <2>3. QED
      BY <1>1, <2>1, <2>2 DEF ListInv
  <1>10. RowInv'
    <2> SUFFICES ASSUME NEW b \in Articles
                 PROVE  Fresh(mem[b], b)' /\ Fresh(disk[b], b)'
      BY <1>1 DEF RowInv, Linked
    <2>1. CASE b = a
      BY <2>1, <1>1, <1>3, <1>4, <1>6, <1>7 DEF Fresh, BoardInv
    <2>2. CASE b # a
      BY <2>2, <1>1, <1>4 DEF Fresh, RowInv
    <2>3. QED
      BY <2>1, <2>2
  <1>11. QED
    BY <1>5, <1>8, <1>9, <1>10

\* A run that begins, or ends, has no entry in hand.
LEMMA ControlIInv ==
    ASSUME IInv, UNCHANGED <<web, mem, disk>>,
           run' \in Runs, run'.metas = {}, run'.at # "fetching",
           call' \in [Callers -> {"idle", "waiting", "ok", "failed", "lost"}],
           failures' \in 0..MaxFailures, exits' \in 0..MaxExits, UNCHANGED seen
    PROVE  IInv'
  <1> USE DEF IInv
  <1>1. TypeOK'
    BY DEF TypeOK
  <1>2. ListInv'
    BY DEF ListInv
  <1>3. BoardInv' /\ RowInv'
    BY DEF BoardInv, RowInv, Fresh
  <1>4. QED
    BY <1>1, <1>2, <1>3

\* The loop goes on: the entries it keeps are entries it had.
LEMMA ContinueRun ==
    ASSUME TypeOK, NEW left \in SUBSET Sources, NEW metas \in SUBSET Metas,
           Continue(left, metas)
    PROVE  /\ run' \in Runs
           /\ run'.metas \subseteq metas
           /\ run'.at = "fetching" => run'.meta \in metas
  <1>0. run \in Runs
    BY DEF TypeOK
  <1>1. ASSUME NEW m \in metas,
               run' = [run EXCEPT !.at = "fetching", !.left = left,
                                  !.metas = metas \ {m}, !.meta = m]
        PROVE  /\ run' \in Runs
               /\ run'.metas \subseteq metas
               /\ run'.at = "fetching" => run'.meta \in metas
    BY <1>0, <1>1 DEF Runs
  <1>2. ASSUME NEW at \in {"saving", "listing"},
               run' = [run EXCEPT !.at = at, !.left = left, !.metas = {}, !.meta = None]
        PROVE  /\ run' \in Runs
               /\ run'.metas \subseteq metas
               /\ run'.at = "fetching" => run'.meta \in metas
    BY <1>0, <1>2 DEF Runs
  <1>3. QED
    BY <1>1, <1>2 DEF Continue

\* A list brings entries as new as the board: the run has them in hand.
LEMMA ListedIInv ==
    ASSUME IInv, NEW s \in Sources, Listed(s)
    PROVE  IInv'
  <1> USE DEF IInv
  <1> DEFINE metas == {<<a, web[a].updatedAt>> : a \in
                          {x \in Articles : SourceOf[x] = s /\ web[x].updatedAt > 0}}
  <1>1. /\ Continue(run.left \ {s}, metas)
        /\ UNCHANGED <<web, mem, disk, call, failures, exits, seen>>
    BY DEF Listed
  <1>2. /\ metas \in SUBSET Metas
        /\ \A m \in metas : m[2] <= web[m[1]].updatedAt
    <2> SUFFICES ASSUME NEW a \in Articles, web[a].updatedAt > 0
                 PROVE  /\ <<a, web[a].updatedAt>> \in Metas
                        /\ web[a].updatedAt <= web[a].updatedAt
      OBVIOUS
    <2>1. web[a].updatedAt \in 0..MaxEdits
      BY DEF TypeOK, WebArticle
    <2>2. QED
      BY <2>1, SyncAssumption DEF Metas
  <1>3. run.left \ {s} \in SUBSET Sources
    BY DEF TypeOK, Runs
  <1> HIDE DEF metas
  <1>4. /\ run' \in Runs
        /\ run'.metas \subseteq metas
        /\ run'.at = "fetching" => run'.meta \in metas
    BY <1>1, <1>2, <1>3, ContinueRun
  <1>5. TypeOK'
    BY <1>1, <1>4 DEF TypeOK
  <1>6. ListInv'
    BY <1>1, <1>2, <1>4 DEF ListInv
  <1>7. BoardInv' /\ RowInv'
    BY <1>1 DEF BoardInv, RowInv, Fresh
  <1>8. QED
    BY <1>5, <1>6, <1>7

\* A detail is at least as new as its entry, so that the row that is stored
\* holds the content of the board if its updatedAt is the board's.
LEMMA FetchedIInv ==
    ASSUME IInv, Fetched
    PROVE  IInv'
  <1> USE DEF IInv
  <1> DEFINE a == run.meta[1]
             u == run.meta[2]
             c == web[a].content
             row == Store(mem[a], u, c)
  <1>1. /\ run.at = "fetching"
        /\ mem' = [mem EXCEPT ![a] = row]
        /\ seen' = [seen EXCEPT ![a] = c]
        /\ Continue(run.left, run.metas)
        /\ UNCHANGED <<web, disk, call, failures, exits>>
    BY DEF Fetched
  <1>2. run.meta \in Metas /\ u <= web[a].updatedAt
    BY <1>1 DEF ListInv
  <1>3. a \in Articles /\ u \in 1..MaxEdits
    BY <1>2 DEF Metas
  <1>4. web[a].updatedAt \in 0..MaxEdits /\ mem[a] \in Notice
    BY <1>3 DEF TypeOK, WebArticle
  <1>5. c \in Contents /\ u \in 0..MaxEdits
    BY <1>2, <1>3, <1>4, SyncAssumption DEF BoardInv
  <1>6. row \in Notice /\ row.updatedAt = u /\ Contains(row.snaps, c)
    BY <1>4, <1>5, StoreType
  <1>7. Linked(row)
    BY <1>3, <1>4, <1>5, StoreLinked DEF RowInv
  <1>8. Fresh(row, a)
    BY <1>6 DEF Fresh
  <1> HIDE DEF row, u
  <1>9. /\ run' \in Runs
        /\ run'.metas \subseteq run.metas
        /\ run'.at = "fetching" => run'.meta \in run.metas
    BY <1>1, ContinueRun DEF TypeOK, Runs
  <1>10. /\ mem' \in [Articles -> Notice]
         /\ mem'[a] = row
         /\ \A b \in Articles : b # a => mem'[b] = mem[b]
    BY <1>1, <1>3, <1>6 DEF TypeOK
  <1>11. seen' \in [Articles -> Contents \cup {None}]
    BY <1>1, <1>5 DEF TypeOK
  <1>12. TypeOK'
    BY <1>1, <1>9, <1>10, <1>11 DEF TypeOK
  <1>13. ListInv'
    <2>1. run.metas \subseteq Metas
      BY DEF TypeOK, Runs
    <2>2. QED
      BY <2>1, <1>1, <1>9 DEF ListInv
  <1>14. BoardInv'
    <2> SUFFICES ASSUME NEW b \in Articles
                 PROVE  mem'[b].updatedAt <= web[b].updatedAt
      BY <1>1 DEF BoardInv
    <2>1. CASE b = a
      BY <2>1, <1>2, <1>6, <1>10 DEF u
    <2>2. CASE b # a
      BY <2>2, <1>10 DEF BoardInv
    <2>3. QED
      BY <2>1, <2>2
  <1>15. RowInv'
    <2> SUFFICES ASSUME NEW b \in Articles
                 PROVE  Fresh(mem'[b], b) /\ Linked(mem'[b])
      BY <1>1 DEF RowInv, Fresh
    <2>1. CASE b = a
      BY <2>1, <1>7, <1>8, <1>10
    <2>2. CASE b # a
      BY <2>2, <1>10 DEF RowInv
    <2>3. QED
      BY <2>1, <2>2
  <1>16. QED
    BY <1>12, <1>13, <1>14, <1>15

\* The steps of the scheduler take nothing in hand and store nothing.
LEMMA SchedulerIInv ==
    ASSUME IInv, Timer \/ (\E c \in Callers : SyncNow(c)) \/ RunFails
    PROVE  IInv'
  <1> USE SyncAssumption
  <1>1. Idle \in Runs /\ Idle.metas = {} /\ Idle.at = "idle"
    BY DEF Idle, Runs
  <1>2. TypeOK
    BY DEF IInv
  <1>3. ASSUME StartRun
        PROVE  run' \in Runs /\ run'.metas = {} /\ run'.at # "fetching"
    <2>1. [a \in Articles |-> web[a].updatedAt] \in [Articles -> 0..MaxEdits]
      BY <1>2 DEF TypeOK, WebArticle
    <2>2. run' = [Idle EXCEPT !.at = "listing", !.left = Sources,
                              !.start = [a \in Articles |-> web[a].updatedAt]]
      BY <1>3 DEF StartRun
    <2>3. QED
      BY <2>1, <2>2, <1>1 DEF Runs
  <1>4. CASE Timer
    <2>1. /\ StartRun
          /\ UNCHANGED <<web, mem, disk, call, failures, exits, seen>>
      BY <1>4 DEF Timer
    <2>2. run' \in Runs /\ run'.metas = {} /\ run'.at # "fetching"
      BY <2>1, <1>3
    <2>3. /\ call' \in [Callers -> {"idle", "waiting", "ok", "failed", "lost"}]
          /\ failures' \in 0..MaxFailures
          /\ exits' \in 0..MaxExits
      BY <2>1, <1>2 DEF TypeOK
    <2>4. QED
      BY <2>1, <2>2, <2>3, ControlIInv
  <1>5. ASSUME NEW c \in Callers, SyncNow(c)
        PROVE  IInv'
    <2>1. /\ call' = [call EXCEPT ![c] = "waiting"]
          /\ StartRun \/ (run.at # "idle" /\ UNCHANGED run)
          /\ UNCHANGED <<web, mem, disk, failures, exits, seen>>
      BY <1>5 DEF SyncNow
    <2>2. /\ call' \in [Callers -> {"idle", "waiting", "ok", "failed", "lost"}]
          /\ failures' \in 0..MaxFailures
          /\ exits' \in 0..MaxExits
      BY <2>1, <1>2 DEF TypeOK
    <2>3. CASE StartRun
      <3>1. run' \in Runs /\ run'.metas = {} /\ run'.at # "fetching"
        BY <2>3, <1>3
      <3>2. QED
        BY <3>1, <2>1, <2>2, ControlIInv
    <2>4. CASE UNCHANGED run
      <3>1. TypeOK'
        BY <2>1, <2>2, <2>4, <1>2 DEF TypeOK
      <3>2. BoardInv' /\ ListInv' /\ RowInv'
        BY <2>1, <2>4 DEF IInv, BoardInv, ListInv, RowInv, Fresh
      <3>3. QED
        BY <3>1, <3>2 DEF IInv
    <2>5. QED
      BY <2>1, <2>3, <2>4
  <1>6. CASE RunFails
    <2>1. /\ failures < MaxFailures
          /\ failures' = failures + 1
          /\ run' = Idle
          /\ call' = [c \in Callers |-> IF call[c] = "waiting" THEN "failed" ELSE call[c]]
          /\ UNCHANGED <<web, mem, disk, exits, seen>>
      BY <1>6 DEF RunFails, Settle
    <2>2. /\ call' \in [Callers -> {"idle", "waiting", "ok", "failed", "lost"}]
          /\ failures' \in 0..MaxFailures
          /\ exits' \in 0..MaxExits
      BY <2>1, <1>2 DEF TypeOK
    <2>3. run' \in Runs /\ run'.metas = {} /\ run'.at # "fetching"
      BY <2>1, <1>1
    <2>4. QED
      BY <2>1, <2>2, <2>3, ControlIInv
  <1>7. QED
    BY <1>4, <1>5, <1>6

\* A save makes the file what the image is, which has the same invariant.
LEMMA SaveIInv ==
    ASSUME IInv, Saved \/ SavedByOthers
    PROVE  IInv'
  <1> USE SyncAssumption
  <1>1. Idle \in Runs /\ Idle.metas = {} /\ Idle.at = "idle"
    BY DEF Idle, Runs
  <1>2. TypeOK
    BY DEF IInv
  <1>3. disk' = mem /\ UNCHANGED <<web, mem, failures, exits, seen>>
    BY DEF Saved, SavedByOthers
  <1>4. BoardInv' /\ RowInv'
    BY <1>3 DEF IInv, BoardInv, RowInv, Fresh
  <1>5. CASE Saved
    <2>1. run' = Idle
          /\ call' = [c \in Callers |-> IF call[c] = "waiting" THEN "ok" ELSE call[c]]
      BY <1>5 DEF Saved, Settle
    <2>2. call' \in [Callers -> {"idle", "waiting", "ok", "failed", "lost"}]
      BY <2>1, <1>2 DEF TypeOK
    <2>3. TypeOK' /\ ListInv'
      BY <2>1, <2>2, <1>1, <1>2, <1>3 DEF TypeOK, ListInv
    <2>4. QED
      BY <2>3, <1>4 DEF IInv
  <1>6. CASE SavedByOthers
    <2>1. TypeOK' /\ ListInv'
      BY <1>2, <1>3, <1>6 DEF SavedByOthers, IInv, TypeOK, ListInv
    <2>2. QED
      BY <2>1, <1>4 DEF IInv
  <1>7. QED
    BY <1>5, <1>6

\* A restart makes the image what the file was.
LEMMA ExitIInv ==
    ASSUME IInv, Exit
    PROVE  IInv'
  <1> USE SyncAssumption
  <1>1. Idle \in Runs /\ Idle.metas = {} /\ Idle.at = "idle"
    BY DEF Idle, Runs
  <1>2. TypeOK
    BY DEF IInv
  <1>3. /\ exits < MaxExits
        /\ exits' = exits + 1
        /\ mem' = disk
        /\ run' = Idle
        /\ call' = [c \in Callers |-> IF call[c] = "waiting" THEN "lost" ELSE call[c]]
        /\ seen' = [a \in Articles |-> IF disk[a] = mem[a] THEN seen[a] ELSE None]
        /\ UNCHANGED <<web, disk, failures>>
    BY DEF Exit
  <1>4. /\ call' \in [Callers -> {"idle", "waiting", "ok", "failed", "lost"}]
        /\ seen' \in [Articles -> Contents \cup {None}]
        /\ exits' \in 0..MaxExits
    BY <1>2, <1>3 DEF TypeOK
  <1>5. TypeOK' /\ ListInv'
    BY <1>1, <1>2, <1>3, <1>4 DEF TypeOK, ListInv
  <1>6. BoardInv' /\ RowInv'
    BY <1>3 DEF IInv, BoardInv, RowInv, Fresh
  <1>7. QED
    BY <1>5, <1>6 DEF IInv

\* Every step keeps the invariant.
LEMMA StepIInv ==
    ASSUME IInv, [Next]_vars
    PROVE  IInv'
  <1>1. ASSUME NEW a \in Articles, NEW content \in Contents, Edit(a, content)
        PROVE  IInv'
    BY <1>1, EditIInv
  <1>2. CASE Timer \/ (\E c \in Callers : SyncNow(c)) \/ RunFails
    BY <1>2, SchedulerIInv
  <1>3. ASSUME NEW s \in Sources, Listed(s)
        PROVE  IInv'
    BY <1>3, ListedIInv
  <1>4. CASE Fetched
    BY <1>4, FetchedIInv
  <1>5. CASE Saved \/ SavedByOthers
    BY <1>5, SaveIInv
  <1>6. CASE Exit
    BY <1>6, ExitIInv
  <1>7. CASE UNCHANGED vars
    <2>1. UNCHANGED <<web, mem, disk, run, call, failures, exits, seen>>
      BY <1>7 DEF vars
    <2>2. QED
      BY <2>1 DEF IInv, TypeOK, BoardInv, ListInv, RowInv, Fresh
  <1>8. QED
    BY <1>1, <1>2, <1>3, <1>4, <1>5, <1>6, <1>7 DEF Next, SyncStep

\* The invariant holds in every state the application reaches.
LEMMA Invariance == Spec => []IInv
  <1>1. IInv /\ [Next]_vars => IInv'
    BY StepIInv
  <1>2. QED
    BY <1>1, InitIInv, PTL DEF Spec

-----------------------------------------------------------------------------
\* The tables, the run in flight and the calls keep their types, whatever
\* the order of edits, requests, saves, failures and exits.
THEOREM TypeCorrect == Spec => []TypeOK
  <1>1. IInv => TypeOK
    BY DEF IInv
  <1>2. QED
    BY <1>1, Invariance, PTL

\* The sync never skips an article whose content it has not stored: neither
\* an edit between list and detail, nor a failed run, nor a restart on a file
\* saved in the middle of a run, hides a change.
THEOREM SkippedIsStoredHolds == Spec => []SkippedIsStored
  <1>1. IInv => SkippedIsStored
    <2> SUFFICES ASSUME IInv, NEW a \in Published, NEW n \in {mem[a], disk[a]},
                        n.updatedAt = web[a].updatedAt /\ n.snaps # << >>
                 PROVE  Contains(n.snaps, web[a].content)
      BY DEF SkippedIsStored
    <2>1. a \in Articles /\ web[a].updatedAt > 0
      BY DEF Published
    <2>2. QED
      BY <2>1 DEF IInv, RowInv, Fresh
  <1>2. QED
    BY <1>1, Invariance, PTL

\* Snapshots and diffs of an article agree in the image and in the file,
\* wherever a run broke off: each snapshot has the diff from the one before,
\* and no diff names a content that is not stored.
THEOREM DiffsLinkSnapshotsHolds == Spec => []DiffsLinkSnapshots
  <1>1. IInv => DiffsLinkSnapshots
    BY DEF IInv, RowInv, DiffsLinkSnapshots
  <1>2. QED
    BY <1>1, Invariance, PTL

-----------------------------------------------------------------------------
(***************************************************************************)
(* What a run under way has still ahead of it.  start says where the board *)
(* was when the run began: every article is either stored at least as new, *)
(* or its board is not listed yet, or its entry is still to be fetched.    *)
(***************************************************************************)
Ahead(a) ==
    \/ SourceOf[a] \in run.left
    \/ \E m \in run.metas : m[1] = a
    \/ run.at = "fetching" /\ run.meta[1] = a

\* Entries are as new as the board was at the start, the boards only move on.
RunInv ==
    /\ run.at \in {"listing", "saving"} => run.metas = {}
    /\ run.at = "saving" => run.left = {}
    /\ \A m \in run.metas : m[2] >= run.start[m[1]]
    /\ run.at = "fetching" => run.meta[2] >= run.start[run.meta[1]]
    /\ \A a \in Articles :
          /\ run.start[a] <= web[a].updatedAt
          /\ run.at # "idle" => mem[a].updatedAt >= run.start[a] \/ Ahead(a)

\* The numbers the invariant compares.
LEMMA Numbers ==
    ASSUME TypeOK, NEW a \in Articles
    PROVE  web[a].updatedAt \in Nat /\ mem[a].updatedAt \in Nat /\ run.start[a] \in Nat
  BY SyncAssumption DEF TypeOK, WebArticle, Notice, Runs

\* A run that begins has every board ahead of it.
LEMMA StartRunInv ==
    ASSUME TypeOK, StartRun, UNCHANGED <<web, mem>>
    PROVE  RunInv'
  <1>1. run' = [Idle EXCEPT !.at = "listing", !.left = Sources,
                            !.start = [a \in Articles |-> web[a].updatedAt]]
    BY DEF StartRun
  <1>2. /\ run'.at = "listing" /\ run'.left = Sources /\ run'.metas = {}
        /\ run'.start = [a \in Articles |-> web[a].updatedAt]
    BY <1>1 DEF Idle
  <1>3. \A a \in Articles : Ahead(a)'
    BY <1>2, SyncAssumption DEF Ahead
  <1>4. \A a \in Articles : run'.start[a] <= web'[a].updatedAt
    BY <1>2, Numbers
  <1>5. QED
    BY <1>2, <1>3, <1>4 DEF RunInv

\* A run that is over has promised nothing.
LEMMA IdleRunInv ==
    ASSUME TypeOK, run' = Idle, UNCHANGED web
    PROVE  RunInv'
  <1>1. run'.at = "idle" /\ run'.metas = {} /\ run'.start = [a \in Articles |-> 0]
    BY DEF Idle
  <1>2. \A a \in Articles : run'.start[a] <= web'[a].updatedAt
    BY <1>1, Numbers
  <1>3. QED
    BY <1>1, <1>2 DEF RunInv

\* The loop leaves behind only entries that are skipped: those are stored.
LEMMA ContinueRunInv ==
    ASSUME TypeOK, NEW left \in SUBSET Sources, NEW metas \in SUBSET Metas,
           Continue(left, metas), UNCHANGED web,
           \A m \in metas : m[2] >= run.start[m[1]],
           \A a \in Articles : run.start[a] <= web[a].updatedAt,
           \A a \in Articles : \/ mem'[a].updatedAt >= run.start[a]
                               \/ SourceOf[a] \in left
                               \/ mem'[a] = mem[a] /\ \E m \in metas : m[1] = a
    PROVE  RunInv'
  <1>0. run \in Runs
    BY DEF TypeOK
  <1>1. ASSUME NEW m \in metas,
               run' = [run EXCEPT !.at = "fetching", !.left = left,
                                  !.metas = metas \ {m}, !.meta = m]
        PROVE  RunInv'
    <2>1. /\ run'.at = "fetching" /\ run'.left = left /\ run'.metas = metas \ {m}
          /\ run'.meta = m /\ run'.start = run.start
      BY <1>0, <1>1 DEF Runs
    <2>2. ASSUME NEW a \in Articles
          PROVE  mem'[a].updatedAt >= run'.start[a] \/ Ahead(a)'
      BY <2>1 DEF Ahead
    <2>3. QED
      BY <2>1, <2>2 DEF RunInv
  <1>2. ASSUME \A m \in metas : Skipped(m),
               run' = [run EXCEPT !.at = IF left = {} THEN "saving" ELSE "listing",
                                  !.left = left, !.metas = {}, !.meta = None]
        PROVE  RunInv'
    <2>1. /\ run'.at = IF left = {} THEN "saving" ELSE "listing"
          /\ run'.left = left /\ run'.metas = {} /\ run'.start = run.start
      BY <1>0, <1>2 DEF Runs
    <2>2. ASSUME NEW a \in Articles
          PROVE  mem'[a].updatedAt >= run'.start[a] \/ Ahead(a)'
      <3>1. CASE mem'[a] = mem[a] /\ \E m \in metas : m[1] = a
        <4>1. PICK m \in metas : m[1] = a
          BY <3>1
        <4>2. mem[a].updatedAt = m[2] /\ m[2] >= run.start[a]
          BY <4>1, <1>2 DEF Skipped
        <4>3. QED
          BY <3>1, <4>2, <2>1
      <3>2. QED
        BY <3>1, <2>1 DEF Ahead
    <2>3. QED
      BY <2>1, <2>2 DEF RunInv
  <1>3. QED
    BY <1>1, <1>2 DEF Continue

\* A list has an entry for every article of its board that is published.
LEMMA ListedRunInv ==
    ASSUME IInv, RunInv, NEW s \in Sources, Listed(s)
    PROVE  RunInv'
  <1> DEFINE metas == {<<a, web[a].updatedAt>> : a \in
                          {x \in Articles : SourceOf[x] = s /\ web[x].updatedAt > 0}}
  <1>1. /\ run.at = "listing"
        /\ Continue(run.left \ {s}, metas)
        /\ UNCHANGED <<web, mem, disk, call, failures, exits, seen>>
    BY DEF Listed
  <1>2. TypeOK /\ run.left \ {s} \in SUBSET Sources
    BY DEF IInv, TypeOK, Runs
  <1>3. metas \in SUBSET Metas
    <2> SUFFICES ASSUME NEW a \in Articles, web[a].updatedAt > 0
                 PROVE  <<a, web[a].updatedAt>> \in Metas
      OBVIOUS
    <2>1. web[a].updatedAt \in 0..MaxEdits
      BY <1>2 DEF TypeOK, WebArticle
    <2>2. QED
      BY <2>1, SyncAssumption DEF Metas
  <1>4. \A m \in metas : m[2] >= run.start[m[1]]
    <2> SUFFICES ASSUME NEW a \in Articles
                 PROVE  web[a].updatedAt >= run.start[a]
      OBVIOUS
    <2>1. QED
      BY <1>2, Numbers DEF RunInv
  <1>5. ASSUME NEW a \in Articles
        PROVE  \/ mem[a].updatedAt >= run.start[a]
               \/ SourceOf[a] \in run.left \ {s}
               \/ \E m \in metas : m[1] = a
    <2>1. CASE SourceOf[a] = s /\ web[a].updatedAt > 0
      <3>1. <<a, web[a].updatedAt>> \in metas
        BY <2>1
      <3>2. QED
        BY <3>1
    <2>2. CASE SourceOf[a] = s /\ ~(web[a].updatedAt > 0)
      <3>1. run.start[a] = 0
        BY <2>2, <1>2, Numbers DEF RunInv
      <3>2. QED
        BY <3>1, <1>2, Numbers
    <2>3. CASE SourceOf[a] # s
      <3>1. mem[a].updatedAt >= run.start[a] \/ SourceOf[a] \in run.left
        BY <1>1 DEF RunInv, Ahead
      <3>2. QED
        BY <3>1, <2>3
    <2>4. QED
      BY <2>1, <2>2, <2>3
  <1> HIDE DEF metas
  <1>6. \A a \in Articles : run.start[a] <= web[a].updatedAt
    BY DEF RunInv
  <1>7. QED
    BY <1>1, <1>2, <1>3, <1>4, <1>5, <1>6, ContinueRunInv

\* The article whose detail arrived is stored as new as its entry was.
LEMMA FetchedRunInv ==
    ASSUME IInv, RunInv, Fetched
    PROVE  RunInv'
  <1> DEFINE a == run.meta[1]
             row == Store(mem[a], run.meta[2], web[a].content)
  <1>1. /\ run.at = "fetching"
        /\ mem' = [mem EXCEPT ![a] = row]
        /\ Continue(run.left, run.metas)
        /\ UNCHANGED <<web, disk, call, failures, exits>>
    BY DEF Fetched
  <1>2. TypeOK /\ run.left \in SUBSET Sources /\ run.metas \in SUBSET Metas
    BY DEF IInv, TypeOK, Runs
  <1>3. run.meta \in Metas /\ a \in Articles /\ mem \in [Articles -> Notice]
    BY <1>1, <1>2 DEF IInv, ListInv, Metas, TypeOK
  <1>4. row.updatedAt = run.meta[2]
    BY DEF Store
  <1> HIDE DEF row
  <1>5. mem'[a] = row /\ \A b \in Articles \ {a} : mem'[b] = mem[b]
    BY <1>1, <1>3
  <1>6. mem'[a].updatedAt >= run.start[a]
    BY <1>1, <1>4, <1>5 DEF RunInv
  <1>7. ASSUME NEW b \in Articles
        PROVE  \/ mem'[b].updatedAt >= run.start[b]
               \/ SourceOf[b] \in run.left
               \/ mem'[b] = mem[b] /\ \E m \in run.metas : m[1] = b
    BY <1>1, <1>5, <1>6 DEF RunInv, Ahead
  <1>8. /\ \A m \in run.metas : m[2] >= run.start[m[1]]
        /\ \A b \in Articles : run.start[b] <= web[b].updatedAt
    BY DEF RunInv
  <1> HIDE DEF a
  <1>9. QED
    BY <1>1, <1>2, <1>7, <1>8, ContinueRunInv

\* Every step keeps what is ahead ahead.
LEMMA StepRunInv ==
    ASSUME IInv, RunInv, [Next]_vars
    PROVE  RunInv'
  <1>0. TypeOK
    BY DEF IInv
  <1>1. ASSUME NEW a \in Articles, NEW content \in Contents, Edit(a, content)
        PROVE  RunInv'
    <2>1. /\ web' = [web EXCEPT ![a] = [content |-> content,
                                        updatedAt |-> web[a].updatedAt + 1]]
          /\ UNCHANGED <<mem, run>>
      BY <1>1 DEF Edit
    <2>2. \A b \in Articles : web'[b].updatedAt >= web[b].updatedAt
                              /\ web'[b].updatedAt \in Nat
      BY <2>1, <1>0, Numbers DEF TypeOK
    <2>3. \A b \in Articles : run'.start[b] <= web'[b].updatedAt
      BY <2>1, <2>2, <1>0, Numbers DEF RunInv
    <2>4. QED
      BY <2>1, <2>3 DEF RunInv, Ahead
  <1>2. CASE Timer
    BY <1>0, <1>2, StartRunInv DEF Timer
  <1>3. ASSUME NEW c \in Callers, SyncNow(c)
        PROVE  RunInv'
    <2>1. CASE StartRun
      BY <1>0, <1>3, <2>1, StartRunInv DEF SyncNow
    <2>2. CASE UNCHANGED run
      BY <1>3, <2>2 DEF SyncNow, RunInv, Ahead
    <2>3. QED
      BY <1>3, <2>1, <2>2 DEF SyncNow
  <1>4. ASSUME NEW s \in Sources, Listed(s)
        PROVE  RunInv'
    BY <1>4, ListedRunInv
  <1>5. CASE Fetched
    BY <1>5, FetchedRunInv
  <1>6. CASE Saved \/ RunFails \/ Exit
    BY <1>0, <1>6, IdleRunInv DEF Saved, RunFails, Exit, Settle
  <1>7. CASE SavedByOthers
    BY <1>7 DEF SavedByOthers, RunInv, Ahead
  <1>8. CASE UNCHANGED vars
    BY <1>8 DEF vars, RunInv, Ahead
  <1>9. QED
    BY <1>1, <1>2, <1>3, <1>4, <1>5, <1>6, <1>7, <1>8 DEF Next, SyncStep

LEMMA RunInvariance == Spec => [](IInv /\ RunInv)
  <1>1. Init => RunInv
    <2>1. ASSUME Init
          PROVE  run = Idle /\ \A a \in Articles : web[a].updatedAt = 0
      BY <2>1 DEF Init
    <2>2. Idle.at = "idle" /\ Idle.metas = {} /\ Idle.start = [a \in Articles |-> 0]
      BY DEF Idle
    <2>3. QED
      BY <2>1, <2>2 DEF RunInv
  <1>2. IInv /\ RunInv /\ [Next]_vars => IInv' /\ RunInv'
    BY StepIInv, StepRunInv
  <1>3. QED
    BY <1>1, <1>2, InitIInv, PTL DEF Spec

\* A sync that ends well has brought every article at least to where it was
\* when the sync started, and saved it, also after runs that failed half-way:
\* at the save nothing is left ahead of the run.
THEOREM SuccessIsCurrentHolds == Spec => SuccessIsCurrent
  <1> DEFINE Ended == \A c \in Callers : call[c] = "waiting" /\ call'[c] = "ok" =>
                         \A a \in Articles : disk'[a].updatedAt >= run.start[a]
  <1>1. ASSUME IInv, RunInv, [Next]_vars
        PROVE  Ended
    <2> SUFFICES ASSUME NEW c \in Callers, call[c] = "waiting", call'[c] = "ok",
                        NEW a \in Articles
                 PROVE  disk'[a].updatedAt >= run.start[a]
      OBVIOUS
    <2>1. call \in [Callers -> {"idle", "waiting", "ok", "failed", "lost"}]
      BY <1>1 DEF IInv, TypeOK
    <2>2. Saved
      BY <1>1, <2>1 DEF Next, vars, Edit, Timer, SyncNow, SyncStep, Listed, Fetched,
                        RunFails, Settle, SavedByOthers, Exit
    <2>3. disk' = mem /\ run.at = "saving"
      BY <2>2 DEF Saved
    <2>4. ~Ahead(a)
      BY <1>1, <2>3 DEF RunInv, Ahead
    <2>5. QED
      BY <1>1, <2>3, <2>4 DEF RunInv
  <1>2. IInv /\ RunInv /\ [Next]_vars => [Ended]_vars
    BY <1>1
  <1>3. QED
    BY <1>2, RunInvariance, PTL DEF Spec, SuccessIsCurrent
=============================================================================
