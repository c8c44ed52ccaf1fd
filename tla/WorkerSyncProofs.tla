-------------------------- MODULE WorkerSyncProofs --------------------------
(***************************************************************************)
(* Proofs about the worker's notices sync, for every number of runs that   *)
(* overlap, every set of boards and articles, and all bounds.              *)
(***************************************************************************)
EXTENDS WorkerSync, TLAPS

Active(x) == x.at # "idle"
OnArticle == {"looking", "fetching", "item", "snapshot", "diff"}
HasDetail == {"item", "snapshot", "diff"}

\* What a run holds at each of its steps; an article that is still to be
\* synced and was not edited is stored as it was fetched.
WellFormed(x) ==
    /\ x.at \in OnArticle => x.article \in Articles
    /\ x.at \in HasDetail => x.content \in Contents
    /\ x.at = "diff" => x.latest \in Contents
    /\ x.at = "listing" => x.todo = {}
    /\ x.todo \subseteq Published
    /\ x.article \in Articles => x.article \in Published
    /\ x.same \subseteq Published
    /\ x.at \in HasDetail /\ x.article \in x.same => x.content = board[x.article]

\* Of two runs under way none is alone.
NotAlone ==
    \A r, q \in Runners : r # q /\ Active(run[r]) /\ Active(run[q]) => ~run[r].alone

\* Where a run stands with an article that was not edited since its start.
Current(x, a) == x.alone => item[a] = board[a]
Stored(x, a) == Contains(snaps[a], board[a]) /\ Current(x, a)
Ahead(x, a) ==
    \/ SourceOf[a] \in x.left
    \/ a \in x.todo
    \/ x.article = a /\ x.at \in {"looking", "fetching", "item"}
    \/ x.article = a /\ x.at = "snapshot" /\ Current(x, a)
Covers(x) == Active(x) /\ ~x.dry => \A a \in x.same : Ahead(x, a) \/ Stored(x, a)

RunsWellFormed == \A r \in Runners : WellFormed(run[r])
RunsCover == \A r \in Runners : Covers(run[r])

IInv == TypeOK /\ RunsWellFormed /\ NotAlone /\ OnlyTornMisses /\ RunsCover

-----------------------------------------------------------------------------
(***************************************************************************)
(* Single steps.                                                           *)
(***************************************************************************)

LEMMA InitIInv == Init => IInv
  BY WorkerAssumption
     DEF Init, IInv, TypeOK, RunsWellFormed, WellFormed, NotAlone, Active, Idle, Runs,
         OnlyTornMisses, RunsCover, Covers, OnArticle, HasDetail, Published

\* Where a run goes when it is done with a list or an article, and what it
\* keeps on the way.
Onward(x, y, left, todo) ==
    /\ y.at \in {"looking", "fetching", "listing", "idle"}
    /\ y.at = "idle" => y = Idle /\ todo = {} /\ left = {}
    /\ y.at # "idle" => /\ y.dry = x.dry /\ y.left = left
                        /\ y.same = x.same /\ y.alone = x.alone
    /\ y.at \in {"looking", "fetching"} => y.article \in todo /\ y.todo = todo \ {y.article}
    /\ y.at = "listing" => todo = {} /\ y.todo = x.todo /\ y.article = None

LEMMA ContinueStep ==
    ASSUME TypeOK, NEW r \in Runners, NEW left \in SUBSET Sources,
           NEW todo \in SUBSET Articles, Continue(r, left, todo)
    PROVE  \E y \in Runs : run' = [run EXCEPT ![r] = y] /\ Onward(run[r], y, left, todo)
  <1> DEFINE next == [run[r] EXCEPT !.left = left, !.article = None,
                                    !.latest = None, !.content = None]
  <1>1. run[r] \in Runs
    BY DEF TypeOK
  <1>2. CASE \E a \in todo :
               run' = [run EXCEPT ![r] = [next EXCEPT
                         !.at = IF next.dry THEN "fetching" ELSE "looking",
                         !.todo = todo \ {a}, !.article = a]]
    <2>1. PICK a \in todo :
               run' = [run EXCEPT ![r] = [next EXCEPT
                         !.at = IF next.dry THEN "fetching" ELSE "looking",
                         !.todo = todo \ {a}, !.article = a]]
      BY <1>2
    <2> DEFINE y == [next EXCEPT !.at = IF next.dry THEN "fetching" ELSE "looking",
                                 !.todo = todo \ {a}, !.article = a]
    <2>2. y \in Runs
      BY <1>1 DEF Runs
    <2>3. Onward(run[r], y, left, todo)
      BY <1>1 DEF Runs, Onward
    <2>4. QED
      BY <2>1, <2>2, <2>3
  <1>3. CASE todo = {} /\ left # {} /\ run' = [run EXCEPT ![r] = [next EXCEPT !.at = "listing"]]
    <2> DEFINE y == [next EXCEPT !.at = "listing"]
    <2>1. y \in Runs
      BY <1>1 DEF Runs
    <2>2. Onward(run[r], y, left, todo)
      BY <1>1, <1>3 DEF Runs, Onward
    <2>3. QED
      BY <1>3, <2>1, <2>2
  <1>4. CASE todo = {} /\ left = {} /\ run' = [run EXCEPT ![r] = Idle]
    <2>1. Idle \in Runs /\ Onward(run[r], Idle, left, todo)
      BY <1>4 DEF Idle, Runs, Onward
    <2>2. QED
      BY <1>4, <2>1
  <1>5. QED
    BY <1>2, <1>3, <1>4 DEF Continue

LEMMA OnwardWellFormed ==
    ASSUME NEW x \in Runs, NEW y \in Runs, NEW left, NEW todo \in SUBSET Published,
           Onward(x, y, left, todo), WellFormed(x), todo = {} => x.todo = {}
    PROVE  WellFormed(y)
  <1>1. x.same \subseteq Published /\ Published \subseteq Articles
    BY DEF WellFormed, Published
  <1>2. CASE y.at = "idle"
    BY <1>2, WorkerAssumption DEF Onward, WellFormed, Idle, OnArticle, HasDetail
  <1>3. CASE y.at \in {"looking", "fetching"}
    BY <1>1, <1>3 DEF Onward, WellFormed, OnArticle, HasDetail
  <1>4. CASE y.at = "listing"
    BY <1>1, <1>4, WorkerAssumption DEF Onward, WellFormed, OnArticle, HasDetail
  <1>5. QED
    BY <1>2, <1>3, <1>4 DEF Onward

\* An article that is still to be listed, on the list or stored stays so, and
\* a run that ends has stored it.
LEMMA OnwardCovers ==
    ASSUME NEW x \in Runs, NEW y \in Runs, NEW left, NEW todo, NEW a,
           Onward(x, y, left, todo),
           SourceOf[a] \in left \/ a \in todo \/ Stored(x, a)'
    PROVE  /\ Active(y) => Ahead(y, a)' \/ Stored(y, a)'
           /\ ~Active(y) => Stored(x, a)'
  BY DEF Onward, Active, Ahead, Stored, Current

\* A step takes the run r from x to y, and what it has to store it covers
\* still.
Moves(r, x, y) ==
    /\ x = run[r] /\ run' = [run EXCEPT ![r] = y]
    /\ board' = board
    /\ WellFormed(y)
    /\ Active(x)
    /\ Active(y) => y.same = x.same /\ y.alone = x.alone /\ y.dry = x.dry
    /\ ~x.dry => \A a \in x.same : /\ Active(y) => Ahead(y, a)' \/ Stored(y, a)'
                                   /\ ~Active(y) => Stored(x, a)'

LEMMA ListedMoves ==
    ASSUME IInv, NEW r \in Runners, NEW s \in Sources, Listed(r, s)
    PROVE  \E x, y \in Runs : Moves(r, x, y) /\ y.at # "diff"
  <1>0. PICK x \in Runs : x = run[r]
    BY DEF IInv, TypeOK
  <1> DEFINE left == x.left \ {s}
             todo == {a \in Published : SourceOf[a] = s}
  <1>1. x \in Runs /\ WellFormed(x) /\ Covers(x) /\ x.at = "listing" /\ x.todo = {}
    BY <1>0 DEF IInv, RunsWellFormed, RunsCover, Listed, At, WellFormed
  <1>2. left \in SUBSET Sources /\ todo \in SUBSET Articles /\ todo \in SUBSET Published
    BY <1>1 DEF Runs, Published
  <1>3. PICK y \in Runs : run' = [run EXCEPT ![r] = y] /\ Onward(x, y, left, todo)
    <2>1. TypeOK /\ Continue(r, left, todo)
      BY <1>0 DEF IInv, Listed
    <2> HIDE DEF left, todo
    <2>2. QED
      BY <1>0, <1>2, <2>1, ContinueStep
  <1>4. board' = board /\ item' = item /\ snaps' = snaps
    BY DEF Listed, tables
  <1>5. WellFormed(y)
    <2> HIDE DEF left, todo
    <2>1. QED
      BY <1>1, <1>2, <1>3, OnwardWellFormed
  <1>6. ASSUME ~x.dry, NEW a \in x.same
        PROVE  /\ Active(y) => Ahead(y, a)' \/ Stored(y, a)'
               /\ ~Active(y) => Stored(x, a)'
    <2>1. a \in Published
      BY <1>1, <1>6 DEF WellFormed
    <2>2. Ahead(x, a) \/ Stored(x, a)
      BY <1>1, <1>6 DEF Covers, Active
    <2>3. Stored(x, a) => Stored(x, a)'
      BY <1>4 DEF Stored, Current
    <2>4. SourceOf[a] \in left \/ a \in todo \/ Stored(x, a)'
      BY <1>1, <2>1, <2>2, <2>3 DEF Ahead
    <2> HIDE DEF left, todo
    <2>5. QED
      BY <1>1, <1>3, <2>4, OnwardCovers
  <1>7. Moves(r, x, y) /\ y.at # "diff"
    BY <1>0, <1>1, <1>3, <1>4, <1>5, <1>6 DEF Moves, Active, Onward
  <1>8. QED
    BY <1>7

LEMMA LookedMoves ==
    ASSUME IInv, NEW r \in Runners, Looked(r)
    PROVE  \E x, y \in Runs : Moves(r, x, y) /\ y.at # "diff"
  <1>1. PICK x \in Runs : x = run[r]
    BY DEF IInv, TypeOK
  <1>2. WellFormed(x) /\ Covers(x) /\ x.at = "looking" /\ x.article \in Articles
    BY <1>1 DEF IInv, RunsWellFormed, RunsCover, Looked, At, WellFormed, OnArticle
  <1> DEFINE before == snaps[x.article]
             latest == IF before = << >> THEN None ELSE Last(before)
             y == [x EXCEPT !.at = "fetching", !.latest = latest]
  <1>3. latest \in Contents \cup {None}
    <2>1. before \in Seq(Contents)
      BY <1>2 DEF IInv, TypeOK
    <2>2. QED
      BY <2>1 DEF Last
  <1>4. y \in Runs
    BY <1>3 DEF Runs
  <1>5. run' = [run EXCEPT ![r] = y] /\ board' = board /\ item' = item /\ snaps' = snaps
    BY <1>1 DEF Looked, tables, IInv, TypeOK, Runs
  <1>6. PICK z \in Runs : z = y
    BY <1>4
  <1>7. /\ z.at = "fetching" /\ z.article = x.article /\ z.todo = x.todo /\ z.left = x.left
        /\ z.same = x.same /\ z.alone = x.alone /\ z.dry = x.dry
    BY <1>6 DEF Runs
  <1> HIDE DEF y
  <1>8. WellFormed(z)
    BY <1>2, <1>7 DEF WellFormed, OnArticle, HasDetail
  <1>9. ASSUME ~x.dry, NEW a \in x.same
        PROVE  Ahead(z, a)' \/ Stored(z, a)'
    <2>1. Ahead(x, a) \/ Stored(x, a)
      BY <1>2, <1>9 DEF Covers, Active
    <2>2. QED
      BY <1>2, <1>5, <1>7, <2>1 DEF Ahead, Stored, Current
  <1>10. Moves(r, x, z) /\ z.at # "diff"
    BY <1>1, <1>2, <1>5, <1>6, <1>7, <1>8, <1>9 DEF Moves, Active
  <1>11. QED
    BY <1>10

LEMMA FetchedMoves ==
    ASSUME IInv, NEW r \in Runners, Fetched(r)
    PROVE  \E x, y \in Runs : Moves(r, x, y) /\ y.at # "diff"
  <1>1. PICK x \in Runs : x = run[r]
    BY DEF IInv, TypeOK
  <1>2. /\ WellFormed(x) /\ Covers(x) /\ x.at = "fetching"
        /\ x.article \in Articles /\ x.article \in Published
    BY <1>1 DEF IInv, RunsWellFormed, RunsCover, Fetched, At, WellFormed, OnArticle
  <1>3. board' = board /\ item' = item /\ snaps' = snaps
    BY DEF Fetched, tables
  <1>4. CASE x.dry
    <2>1. x.left \in SUBSET Sources /\ x.todo \in SUBSET Articles /\ x.todo \in SUBSET Published
      BY <1>2 DEF Runs, WellFormed
    <2>2. PICK y \in Runs : run' = [run EXCEPT ![r] = y] /\ Onward(x, y, x.left, x.todo)
      <3>1. TypeOK /\ Continue(r, x.left, x.todo)
        BY <1>1, <1>4 DEF IInv, Fetched
      <3>2. QED
        BY <1>1, <2>1, <3>1, ContinueStep
    <2>3. WellFormed(y)
      BY <1>2, <2>1, <2>2, OnwardWellFormed
    <2>4. Moves(r, x, y) /\ y.at # "diff"
      BY <1>1, <1>2, <1>3, <1>4, <2>2, <2>3 DEF Moves, Active, Onward
    <2>5. QED
      BY <2>4
  <1>5. CASE ~x.dry
    <2> DEFINE y == [x EXCEPT !.at = "item", !.content = board[x.article]]
    <2>1. board[x.article] \in Contents
      BY <1>2 DEF IInv, TypeOK, Published
    <2>2. PICK z \in Runs : z = y
      BY <2>1 DEF Runs
    <2>3. /\ z.at = "item" /\ z.article = x.article /\ z.todo = x.todo /\ z.left = x.left
          /\ z.same = x.same /\ z.alone = x.alone /\ z.dry = x.dry
          /\ z.content = board[x.article]
      BY <2>2 DEF Runs
    <2>4. run' = [run EXCEPT ![r] = z]
      BY <1>1, <1>5, <2>2 DEF Fetched, IInv, TypeOK, Runs
    <2> HIDE DEF y
    <2>5. WellFormed(z)
      BY <1>2, <2>1, <2>3 DEF WellFormed, OnArticle, HasDetail
    <2>6. ASSUME NEW a \in x.same
          PROVE  Ahead(z, a)' \/ Stored(z, a)'
      <3>1. Ahead(x, a) \/ Stored(x, a)
        BY <1>2, <1>5 DEF Covers, Active
      <3>2. QED
        BY <1>2, <1>3, <2>3, <3>1 DEF Ahead, Stored, Current
    <2>7. Moves(r, x, z) /\ z.at # "diff"
      BY <1>1, <1>2, <1>3, <2>3, <2>4, <2>5, <2>6 DEF Moves, Active
    <2>8. QED
      BY <2>7
  <1>6. QED
    BY <1>4, <1>5

LEMMA ItemStoredMoves ==
    ASSUME IInv, NEW r \in Runners, ItemStored(r)
    PROVE  /\ \E x, y \in Runs : Moves(r, x, y) /\ y.at # "diff"
           /\ item' \in [Articles -> Contents \cup {None}]
  <1>1. PICK x \in Runs : x = run[r]
    BY DEF IInv, TypeOK
  <1>2. /\ WellFormed(x) /\ Covers(x) /\ x.at = "item"
        /\ x.article \in Articles /\ x.content \in Contents
    BY <1>1 DEF IInv, RunsWellFormed, RunsCover, ItemStored, At, WellFormed, OnArticle, HasDetail
  <1>3. /\ board' = board /\ snaps' = snaps
        /\ item' = [item EXCEPT ![x.article] = x.content]
    BY <1>1 DEF ItemStored
  <1>4. item \in [Articles -> Contents \cup {None}]
    BY DEF IInv, TypeOK
  <1> DEFINE y == [x EXCEPT !.at = "snapshot"]
  <1>5. PICK z \in Runs : z = y
    BY DEF Runs
  <1>6. /\ z.at = "snapshot" /\ z.article = x.article /\ z.todo = x.todo /\ z.left = x.left
        /\ z.same = x.same /\ z.alone = x.alone /\ z.dry = x.dry /\ z.content = x.content
    BY <1>5 DEF Runs
  <1>7. run' = [run EXCEPT ![r] = z]
    BY <1>1, <1>5 DEF ItemStored, IInv, TypeOK, Runs
  <1> HIDE DEF y
  <1>8. WellFormed(z)
    BY <1>2, <1>6 DEF WellFormed, OnArticle, HasDetail
  <1>9. ASSUME ~x.dry, NEW a \in x.same
        PROVE  Ahead(z, a)' \/ Stored(z, a)'
    <2>1. Ahead(x, a) \/ Stored(x, a)
      BY <1>2, <1>9 DEF Covers, Active
    <2>2. CASE a = x.article
      <3>1. item'[a] = board'[a]
        BY <1>2, <1>3, <1>4, <2>2 DEF WellFormed, HasDetail
      <3>2. QED
        BY <1>6, <2>2, <3>1 DEF Ahead, Current
    <2>3. CASE a # x.article
      <3>1. item'[a] = item[a]
        BY <1>3, <1>4, <2>3
      <3>2. QED
        BY <1>2, <1>3, <1>6, <2>1, <2>3, <3>1 DEF Ahead, Stored, Current
    <2>4. QED
      BY <2>2, <2>3
  <1>10. Moves(r, x, z) /\ z.at # "diff"
    BY <1>1, <1>2, <1>3, <1>6, <1>7, <1>8, <1>9 DEF Moves, Active
  <1>11. QED
    BY <1>2, <1>3, <1>4, <1>10

\* A content appended to a sequence is in it, and so is what was there.
LEMMA AppendContains ==
    ASSUME NEW S, NEW s \in Seq(S), NEW c \in S
    PROVE  /\ Append(s, c) \in Seq(S)
           /\ Contains(Append(s, c), c)
           /\ \A e : Contains(s, e) => Contains(Append(s, c), e)
  <1>1. /\ Len(s) \in Nat
        /\ Len(Append(s, c)) = Len(s) + 1
        /\ Append(s, c)[Len(s) + 1] = c
        /\ \A i \in 1..Len(s) : Append(s, c)[i] = s[i]
        /\ Append(s, c) \in Seq(S)
    OBVIOUS
  <1>2. Len(s) + 1 \in 1..Len(Append(s, c)) /\ 1..Len(s) \subseteq 1..Len(Append(s, c))
    BY <1>1
  <1>3. QED
    BY <1>1, <1>2 DEF Contains

\* The snapshot of an article is stored once, and no snapshot is lost.
LEMMA SnapshotStoredSnaps ==
    ASSUME IInv, NEW r \in Runners, SnapshotStored(r)
    PROVE  /\ snaps' \in [Articles -> Seq(Contents)]
           /\ Contains(snaps'[run[r].article], run[r].content)
           /\ \A a \in Articles : \A c : Contains(snaps[a], c) => Contains(snaps'[a], c)
  <1>1. run[r].article \in Articles /\ run[r].content \in Contents
    BY DEF IInv, RunsWellFormed, WellFormed, SnapshotStored, At, OnArticle, HasDetail
  <1>2. snaps \in [Articles -> Seq(Contents)]
    BY DEF IInv, TypeOK
  <1> DEFINE a == run[r].article
             c == run[r].content
  <1>3. snaps' = [snaps EXCEPT ![a] = IF Contains(snaps[a], c) THEN snaps[a] ELSE Append(snaps[a], c)]
    BY <1>1, <1>2 DEF SnapshotStored
  <1>4. snaps[a] \in Seq(Contents)
    BY <1>1, <1>2
  <1> HIDE DEF a, c
  <1>5. CASE Contains(snaps[a], c)
    <2>1. snaps' = snaps
      BY <1>2, <1>3, <1>5
    <2>2. QED
      BY <1>2, <1>5, <2>1 DEF a, c
  <1>6. CASE ~Contains(snaps[a], c)
    <2>1. snaps' = [snaps EXCEPT ![a] = Append(snaps[a], c)]
      BY <1>3, <1>6
    <2>2. /\ Append(snaps[a], c) \in Seq(Contents) /\ Contains(Append(snaps[a], c), c)
          /\ \A e : Contains(snaps[a], e) => Contains(Append(snaps[a], c), e)
      BY <1>1, <1>4, AppendContains DEF c
    <2>3. QED
      BY <1>1, <1>2, <2>1, <2>2 DEF a, c
  <1>7. QED
    BY <1>5, <1>6

LEMMA SnapshotStoredMoves ==
    ASSUME IInv, NEW r \in Runners, SnapshotStored(r)
    PROVE  \E x, y \in Runs :
              /\ Moves(r, x, y) /\ x.at = "snapshot"
              /\ IF x.latest \in {None, x.content} THEN y.at # "diff"
                 ELSE y.at = "diff" /\ y.latest = x.latest /\ y.content = x.content
                                    /\ y.article = x.article
  <1>1. PICK x \in Runs : x = run[r]
    BY DEF IInv, TypeOK
  <1>2. /\ WellFormed(x) /\ Covers(x) /\ x.at = "snapshot"
        /\ x.article \in Articles /\ x.content \in Contents /\ x.same \subseteq Articles
    BY <1>1 DEF IInv, RunsWellFormed, RunsCover, SnapshotStored, At, WellFormed,
                OnArticle, HasDetail, Published
  <1>3. board' = board /\ item' = item
    BY DEF SnapshotStored
  <1>4. /\ Contains(snaps'[x.article], x.content)
        /\ \A a \in Articles : \A c : Contains(snaps[a], c) => Contains(snaps'[a], c)
    BY <1>1, SnapshotStoredSnaps
  <1>5. ASSUME ~x.dry, NEW a \in x.same
        PROVE  SourceOf[a] \in x.left \/ a \in x.todo \/ Stored(x, a)'
    <2>1. Ahead(x, a) \/ Stored(x, a)
      BY <1>2, <1>5 DEF Covers, Active
    <2>2. Stored(x, a) => Stored(x, a)'
      BY <1>2, <1>3, <1>4, <1>5 DEF Stored, Current
    <2>3. a = x.article => Contains(snaps'[a], board'[a])
      BY <1>2, <1>3, <1>4, <1>5 DEF WellFormed, HasDetail
    <2>4. QED
      BY <1>2, <1>3, <2>1, <2>2, <2>3 DEF Ahead, Stored, Current
  <1>6. CASE x.latest \in {None, x.content}
    <2>1. x.left \in SUBSET Sources /\ x.todo \in SUBSET Articles /\ x.todo \in SUBSET Published
      BY <1>2 DEF Runs, WellFormed
    <2>2. PICK y \in Runs : run' = [run EXCEPT ![r] = y] /\ Onward(x, y, x.left, x.todo)
      <3>1. TypeOK /\ Continue(r, x.left, x.todo)
        BY <1>1, <1>6 DEF IInv, SnapshotStored
      <3>2. QED
        BY <1>1, <2>1, <3>1, ContinueStep
    <2>3. WellFormed(y)
      BY <1>2, <2>1, <2>2, OnwardWellFormed
    <2>4. ASSUME ~x.dry, NEW a \in x.same
          PROVE  /\ Active(y) => Ahead(y, a)' \/ Stored(y, a)'
                 /\ ~Active(y) => Stored(x, a)'
      BY <1>5, <2>2, <2>4, OnwardCovers
    <2>5. Moves(r, x, y) /\ y.at # "diff"
      BY <1>1, <1>2, <1>3, <2>2, <2>3, <2>4 DEF Moves, Active, Onward
    <2>6. QED
      BY <1>2, <1>6, <2>5
  <1>7. CASE x.latest \notin {None, x.content}
    <2> DEFINE y == [x EXCEPT !.at = "diff"]
    <2>1. PICK z \in Runs : z = y
      BY DEF Runs
    <2>2. /\ z.at = "diff" /\ z.article = x.article /\ z.todo = x.todo /\ z.left = x.left
          /\ z.same = x.same /\ z.alone = x.alone /\ z.dry = x.dry
          /\ z.content = x.content /\ z.latest = x.latest /\ x.latest \in Contents
      BY <1>7, <2>1 DEF Runs
    <2>3. run' = [run EXCEPT ![r] = z]
      BY <1>1, <1>7, <2>1 DEF SnapshotStored, IInv, TypeOK, Runs
    <2> HIDE DEF y
    <2>4. WellFormed(z)
      BY <1>2, <2>2 DEF WellFormed, OnArticle, HasDetail
    <2>5. ASSUME ~x.dry, NEW a \in x.same
          PROVE  Ahead(z, a)' \/ Stored(z, a)'
      BY <1>5, <2>2, <2>5 DEF Ahead, Stored, Current
    <2>6. Moves(r, x, z)
      BY <1>1, <1>2, <1>3, <2>2, <2>3, <2>4, <2>5 DEF Moves, Active
    <2>7. QED
      BY <1>2, <1>7, <2>2, <2>6
  <1>8. QED
    BY <1>6, <1>7

LEMMA DiffStoredMoves ==
    ASSUME IInv, NEW r \in Runners, DiffStored(r)
    PROVE  \E x, y \in Runs : Moves(r, x, y) /\ y.at # "diff"
  <1>1. PICK x \in Runs : x = run[r]
    BY DEF IInv, TypeOK
  <1>2. WellFormed(x) /\ Covers(x) /\ x.at = "diff"
    BY <1>1 DEF IInv, RunsWellFormed, RunsCover, DiffStored, At
  <1>3. board' = board /\ item' = item /\ snaps' = snaps
    BY DEF DiffStored
  <1>4. x.left \in SUBSET Sources /\ x.todo \in SUBSET Articles /\ x.todo \in SUBSET Published
    BY <1>2 DEF Runs, WellFormed, Published
  <1>5. PICK y \in Runs : run' = [run EXCEPT ![r] = y] /\ Onward(x, y, x.left, x.todo)
    <2>1. TypeOK /\ Continue(r, x.left, x.todo)
      BY <1>1 DEF IInv, DiffStored
    <2>2. QED
      BY <1>1, <1>4, <2>1, ContinueStep
  <1>6. WellFormed(y)
    BY <1>2, <1>4, <1>5, OnwardWellFormed
  <1>7. ASSUME ~x.dry, NEW a \in x.same
        PROVE  /\ Active(y) => Ahead(y, a)' \/ Stored(y, a)'
               /\ ~Active(y) => Stored(x, a)'
    <2>1. Ahead(x, a) \/ Stored(x, a)
      BY <1>2, <1>7 DEF Covers, Active
    <2>2. SourceOf[a] \in x.left \/ a \in x.todo \/ Stored(x, a)'
      BY <1>2, <1>3, <2>1 DEF Ahead, Stored, Current
    <2>3. QED
      BY <1>5, <2>2, OnwardCovers
  <1>8. Moves(r, x, y) /\ y.at # "diff"
    BY <1>1, <1>2, <1>3, <1>5, <1>6, <1>7 DEF Moves, Active, Onward
  <1>9. QED
    BY <1>8

-----------------------------------------------------------------------------
(***************************************************************************)
(* The invariant over the steps of the runs.                               *)
(***************************************************************************)

LEMMA StepMoves ==
    ASSUME IInv, NEW r \in Runners, Step(r)
    PROVE  \E x, y \in Runs : Moves(r, x, y)
  BY ListedMoves, LookedMoves, FetchedMoves, ItemStoredMoves, SnapshotStoredMoves,
     DiffStoredMoves DEF Step

\* The tables keep their types, and no snapshot is lost.
LEMMA StepTables ==
    ASSUME IInv, NEW r \in Runners, Step(r)
    PROVE  /\ item' \in [Articles -> Contents \cup {None}]
           /\ snaps' \in [Articles -> Seq(Contents)]
           /\ diffs' \in [Articles -> SUBSET (Contents \X Contents)]
           /\ edits' = edits /\ failures' = failures
           /\ torn' \subseteq Articles
           /\ \A a \in Articles : \A c : Contains(snaps[a], c) => Contains(snaps'[a], c)
  <1> USE DEF IInv, TypeOK
  <1>1. CASE (\E s \in Sources : Listed(r, s)) \/ Looked(r) \/ Fetched(r)
    BY <1>1 DEF Listed, Looked, Fetched, tables
  <1>2. CASE ItemStored(r)
    BY <1>2, ItemStoredMoves DEF ItemStored
  <1>3. CASE SnapshotStored(r)
    <2>1. run[r].article \in Articles
      BY <1>3 DEF SnapshotStored, At, RunsWellFormed, WellFormed, OnArticle
    <2>2. torn' \subseteq Articles
      BY <1>3, <2>1 DEF SnapshotStored
    <2>3. item' = item /\ diffs' = diffs /\ edits' = edits /\ failures' = failures
      BY <1>3 DEF SnapshotStored
    <2>4. QED
      BY <1>3, <2>2, <2>3, SnapshotStoredSnaps
  <1>4. CASE DiffStored(r)
    <2>1. /\ run[r].latest \in Contents /\ run[r].content \in Contents
          /\ run[r].article \in Articles
      BY <1>4 DEF DiffStored, At, RunsWellFormed, WellFormed, HasDetail, OnArticle
    <2> DEFINE new == diffs[run[r].article] \cup {<<run[r].latest, run[r].content>>}
    <2>2. diffs' \in [Articles -> SUBSET (Contents \X Contents)]
      <3>1. diffs' = [diffs EXCEPT ![run[r].article] = new]
        BY <1>4 DEF DiffStored
      <3>2. new \in SUBSET (Contents \X Contents)
        BY <2>1
      <3> HIDE DEF new
      <3>3. QED
        BY <3>1, <3>2
    <2>3. QED
      BY <1>4, <2>2 DEF DiffStored
  <1>5. QED
    BY <1>1, <1>2, <1>3, <1>4 DEF Step

\* Only the run that stores an item changes the items, and then it is not
\* alone with another one.
LEMMA StepCoversOthers ==
    ASSUME IInv, NEW r \in Runners, Step(r), NEW q \in Runners, q # r
    PROVE  Covers(run[q]) => Covers(run[q])'
  <1>1. PICK x, y \in Runs : Moves(r, x, y)
    BY StepMoves
  <1>2. run'[q] = run[q] /\ Active(run[r]) /\ board' = board
    BY <1>1 DEF Moves, IInv, TypeOK
  <1>3. Active(run[q]) => ~run[q].alone
    BY <1>2 DEF IInv, NotAlone
  <1>4. \A a \in Articles : \A c : Contains(snaps[a], c) => Contains(snaps'[a], c)
    BY StepTables
  <1>5. run[q].same \subseteq Articles
    BY DEF IInv, TypeOK, Runs
  <1>6. QED
    BY <1>2, <1>3, <1>4, <1>5 DEF Covers, Ahead, Stored, Current, Active

LEMMA StepIInv ==
    ASSUME IInv, NEW r \in Runners, Step(r)
    PROVE  TypeOK' /\ RunsWellFormed' /\ NotAlone' /\ RunsCover'
  <1>1. PICK x, y \in Runs : Moves(r, x, y)
    BY StepMoves
  <1>2. run \in [Runners -> Runs]
    BY DEF IInv, TypeOK
  <1>3. /\ run' \in [Runners -> Runs] /\ run'[r] = y /\ x = run[r] /\ board' = board
        /\ \A q \in Runners : q # r => run'[q] = run[q]
    BY <1>1, <1>2 DEF Moves
  <1>4. TypeOK'
    BY <1>3, StepTables DEF IInv, TypeOK
  <1>5. RunsWellFormed'
    <2>1. \A z : WellFormed(z) => /\ z.at \in OnArticle => z.article \in Articles
                                  /\ z.at \in HasDetail => z.content \in Contents
                                  /\ z.at = "diff" => z.latest \in Contents
                                  /\ z.at = "listing" => z.todo = {}
                                  /\ z.todo \subseteq Published'
                                  /\ z.article \in Articles => z.article \in Published'
                                  /\ z.same \subseteq Published'
                                  /\ z.at \in HasDetail /\ z.article \in z.same
                                        => z.content = board'[z.article]
      BY <1>3 DEF WellFormed, Published
    <2>2. \A q \in Runners : WellFormed(run'[q])
      BY <1>1, <1>3 DEF IInv, RunsWellFormed, Moves
    <2>3. QED
      BY <2>1, <2>2 DEF RunsWellFormed, WellFormed
  <1>6. NotAlone'
    <2>1. Active(y) => Active(x) /\ y.alone = x.alone
      BY <1>1 DEF Moves
    <2>2. QED
      BY <1>3, <2>1 DEF IInv, NotAlone, Active
  <1>7. RunsCover'
    <2>1. ASSUME NEW q \in Runners, q # r
          PROVE  Covers(run[q])'
      BY <2>1, StepCoversOthers DEF IInv, RunsCover
    <2>2. Covers(run[r])'
      <3>1. Covers(y)'
        BY <1>1 DEF Moves, Covers, Active
      <3>2. QED
        BY <1>3, <3>1 DEF Covers, Active, Ahead, Stored, Current
    <2>3. QED
      BY <2>1, <2>2 DEF RunsCover
  <1>8. QED
    BY <1>4, <1>5, <1>6, <1>7

\* An edit, a start and a failure keep what the steps keep.
LEMMA EditIInv ==
    ASSUME IInv, NEW a \in Articles, NEW content \in Contents, Edit(a, content)
    PROVE  TypeOK' /\ RunsWellFormed' /\ NotAlone' /\ RunsCover'
  <1> DEFINE y(r) == [run[r] EXCEPT !.same = @ \ {a}]
  <1>1. run \in [Runners -> Runs] /\ board \in [Articles -> Contents \cup {None}]
    BY DEF IInv, TypeOK
  <1>2. \A r \in Runners : y(r) \in Runs /\ run'[r] = y(r)
    BY <1>1 DEF Edit, Runs
  <1>3. \A r \in Runners :
           /\ run'[r].at = run[r].at /\ run'[r].dry = run[r].dry /\ run'[r].left = run[r].left
           /\ run'[r].todo = run[r].todo /\ run'[r].article = run[r].article
           /\ run'[r].latest = run[r].latest /\ run'[r].content = run[r].content
           /\ run'[r].same = run[r].same \ {a} /\ run'[r].alone = run[r].alone
    <2> SUFFICES ASSUME NEW r \in Runners
                 PROVE  run[r] \in Runs /\ run'[r] = [run[r] EXCEPT !.same = run[r].same \ {a}]
      BY DEF Runs
    <2>1. QED
      BY <1>1, <1>2
  <1>4. /\ board' = [board EXCEPT ![a] = content] /\ item' = item /\ snaps' = snaps
        /\ Published \subseteq Published' /\ content # None
    BY <1>1, WorkerAssumption DEF Edit, tables, Published
  <1>5. TypeOK'
    <2>1. run' \in [Runners -> Runs]
      BY <1>2 DEF Edit
    <2>2. board' \in [Articles -> Contents \cup {None}]
      BY <1>1, <1>4
    <2>3. edits' \in 0..MaxEdits
      BY WorkerAssumption DEF Edit, IInv, TypeOK
    <2>4. QED
      BY <2>1, <2>2, <2>3 DEF Edit, tables, IInv, TypeOK
  <1> HIDE DEF y
  <1>6. RunsWellFormed'
    <2> SUFFICES ASSUME NEW r \in Runners
                 PROVE  WellFormed(run[r])'
      BY DEF RunsWellFormed
    <2>1. WellFormed(run[r])
      BY DEF IInv, RunsWellFormed
    <2>2. run'[r].at \in HasDetail /\ run'[r].article \in run'[r].same
             => run'[r].content = board'[run'[r].article]
      BY <1>1, <1>3, <1>4, <2>1 DEF WellFormed
    <2>3. QED
      BY <1>3, <1>4, <2>1, <2>2 DEF WellFormed
  <1>7. NotAlone'
    BY <1>3 DEF IInv, NotAlone, Active
  <1>8. RunsCover'
    <2> SUFFICES ASSUME NEW r \in Runners, NEW b \in run'[r].same,
                        Active(run'[r]), ~run'[r].dry
                 PROVE  (Ahead(run[r], b) \/ Stored(run[r], b))'
      BY DEF RunsCover, Covers, Active
    <2>1. b \in run[r].same /\ b # a /\ b \in Articles
      BY <1>1, <1>3 DEF Runs
    <2>2. Ahead(run[r], b) \/ Stored(run[r], b)
      BY <1>3, <2>1 DEF IInv, RunsCover, Covers, Active
    <2>3. board'[b] = board[b]
      BY <1>1, <1>4, <2>1
    <2>4. QED
      BY <1>3, <1>4, <2>2, <2>3 DEF Ahead, Stored, Current
  <1>9. QED
    BY <1>5, <1>6, <1>7, <1>8

LEMMA StartIInv ==
    ASSUME IInv, NEW r \in Runners, NEW sources \in SUBSET Sources, NEW dry \in BOOLEAN,
           Start(r, sources, dry)
    PROVE  TypeOK' /\ RunsWellFormed' /\ NotAlone' /\ RunsCover'
  <1> DEFINE others == {q \in Runners : run[q].at # "idle"}
             same == {a \in Articles : board[a] # None /\ SourceOf[a] \in sources}
             new == [Idle EXCEPT !.at = "listing", !.dry = dry, !.left = sources,
                                 !.same = same, !.alone = others = {}]
  <1>1. run \in [Runners -> Runs]
    BY DEF IInv, TypeOK
  <1>2. run' = [q \in Runners |-> IF q # r THEN [run[q] EXCEPT !.alone = @ /\ q \notin others]
                                  ELSE new]
    BY DEF Start
  <1>3. /\ new \in Runs /\ new.at = "listing" /\ new.left = sources /\ new.todo = {}
        /\ new.article = None /\ new.same = same /\ new.alone = (others = {})
    BY DEF Idle, Runs
  <1>4. board' = board /\ item' = item /\ snaps' = snaps /\ run[r].at = "idle"
    BY DEF Start, tables
  <1> HIDE DEF new
  <1>5. \A q \in Runners : q # r =>
           /\ run'[q] \in Runs
           /\ run'[q].at = run[q].at /\ run'[q].dry = run[q].dry /\ run'[q].left = run[q].left
           /\ run'[q].todo = run[q].todo /\ run'[q].article = run[q].article
           /\ run'[q].latest = run[q].latest /\ run'[q].content = run[q].content
           /\ run'[q].same = run[q].same /\ run'[q].alone = (run[q].alone /\ q \notin others)
    BY <1>1, <1>2 DEF Runs
  <1>6. run'[r] = new
    BY <1>2
  <1>7. TypeOK'
    <2>1. run' \in [Runners -> Runs]
      BY <1>2, <1>3, <1>5, <1>6
    <2>2. QED
      BY <1>4, <2>1 DEF Start, tables, IInv, TypeOK
  <1>8. RunsWellFormed'
    <2>1. WellFormed(run[r])'
      BY <1>3, <1>4, <1>6, WorkerAssumption DEF WellFormed, Published, OnArticle, HasDetail
    <2>2. ASSUME NEW q \in Runners, q # r
          PROVE  WellFormed(run[q])'
      BY <1>4, <1>5, <2>2 DEF IInv, RunsWellFormed, WellFormed, Published
    <2>3. QED
      BY <2>1, <2>2 DEF RunsWellFormed
  <1>9. NotAlone'
    <2> SUFFICES ASSUME NEW p \in Runners, NEW q \in Runners, p # q,
                        Active(run'[p]), Active(run'[q])
                 PROVE  ~run'[p].alone
      BY DEF NotAlone, Active
    <2>1. CASE p = r
      <3>1. q \in others
        BY <1>5, <2>1 DEF Active
      <3>2. QED
        BY <1>3, <1>6, <2>1, <3>1
    <2>2. CASE p # r
      <3>1. CASE q = r
        BY <1>5, <2>2 DEF Active
      <3>2. CASE q # r
        BY <1>5, <2>2, <3>2 DEF Active
      <3>3. QED
        BY <3>1, <3>2
    <2>3. QED
      BY <2>1, <2>2
  <1>10. RunsCover'
    <2>1. Covers(run[r])'
      BY <1>3, <1>6 DEF Covers, Ahead
    <2>2. ASSUME NEW q \in Runners, q # r
          PROVE  Covers(run[q])'
      BY <1>4, <1>5, <2>2 DEF IInv, RunsCover, Covers, Active, Ahead, Stored, Current
    <2>3. QED
      BY <2>1, <2>2 DEF RunsCover
  <1>11. QED
    BY <1>7, <1>8, <1>9, <1>10

LEMMA FailsIInv ==
    ASSUME IInv, NEW r \in Runners, Fails(r)
    PROVE  TypeOK' /\ RunsWellFormed' /\ NotAlone' /\ RunsCover'
  <1>1. run \in [Runners -> Runs] /\ Idle \in Runs
    BY DEF IInv, TypeOK, Idle, Runs
  <1>2. /\ run'[r] = Idle /\ \A q \in Runners : q # r => run'[q] = run[q]
        /\ run' \in [Runners -> Runs]
        /\ board' = board /\ item' = item /\ snaps' = snaps
    BY <1>1 DEF Fails, tables
  <1>3. TypeOK'
    <2>1. failures' \in 0..MaxFailures
      BY WorkerAssumption DEF Fails, IInv, TypeOK
    <2>2. torn' \subseteq Articles
      BY DEF Fails, IInv, TypeOK, RunsWellFormed, WellFormed, At, OnArticle
    <2>3. QED
      BY <1>2, <2>1, <2>2 DEF Fails, tables, IInv, TypeOK
  <1>4. RunsWellFormed'
    BY <1>2, WorkerAssumption
       DEF IInv, RunsWellFormed, WellFormed, Published, Idle, OnArticle, HasDetail
  <1>5. NotAlone' /\ RunsCover'
    BY <1>2 DEF IInv, NotAlone, RunsCover, Covers, Active, Ahead, Stored, Current, Idle
  <1>6. QED
    BY <1>3, <1>4, <1>5

-----------------------------------------------------------------------------
(***************************************************************************)
(* Only failures and races lose a diff.                                    *)
(***************************************************************************)
HasDiff(a, d) == d \in diffs[a] \/ Pending(a, d)

\* A diff that is about to be made stays so, is made, or is lost to a failure.
DiffsKept ==
    \A q \in Runners : At(q, "diff") =>
        \/ /\ run'[q].at = "diff" /\ run'[q].article = run[q].article
           /\ run'[q].latest = run[q].latest /\ run'[q].content = run[q].content
        \/ <<run[q].latest, run[q].content>> \in diffs'[run[q].article]
        \/ run[q].article \in torn'

LEMMA HasDiffKept ==
    ASSUME DiffsKept, NEW a, diffs[a] \subseteq diffs'[a], a \notin torn', NEW d, HasDiff(a, d)
    PROVE  HasDiff(a, d)'
  BY DEF HasDiff, Pending, DiffsKept, At

\* A step that leaves the snapshots alone.
LEMMA OldPairs ==
    ASSUME OnlyTornMisses, DiffsKept, torn \subseteq torn', snaps' = snaps,
           \A a \in Articles : diffs[a] \subseteq diffs'[a]
    PROVE  OnlyTornMisses'
  <1> SUFFICES ASSUME NEW a \in Articles \ torn', NEW i \in 2..Len(snaps[a])
               PROVE  HasDiff(a, <<snaps[a][i - 1], snaps[a][i]>>)'
    BY DEF OnlyTornMisses, HasDiff
  <1>1. HasDiff(a, <<snaps[a][i - 1], snaps[a][i]>>)
    BY DEF OnlyTornMisses, HasDiff
  <1>2. QED
    BY <1>1, HasDiffKept

\* What a step of the run r leaves of the diffs that are about to be made.
LEMMA StepDiffsKept ==
    ASSUME IInv, NEW r \in Runners, Step(r)
    PROVE  /\ DiffsKept /\ torn \subseteq torn'
           /\ \A a \in Articles : diffs[a] \subseteq diffs'[a]
  <1>1. PICK x, y \in Runs : Moves(r, x, y)
    BY StepMoves
  <1>2. \A q \in Runners : q # r => run'[q] = run[q]
    BY <1>1 DEF Moves, IInv, TypeOK
  <1>3. diffs \in [Articles -> SUBSET (Contents \X Contents)]
    BY DEF IInv, TypeOK
  <1>4. CASE DiffStored(r)
    <2>1. run[r].article \in Articles
      BY <1>4 DEF IInv, RunsWellFormed, WellFormed, DiffStored, At, OnArticle
    <2>2. /\ <<run[r].latest, run[r].content>> \in diffs'[run[r].article]
          /\ \A a \in Articles : diffs[a] \subseteq diffs'[a]
      BY <1>3, <1>4, <2>1 DEF DiffStored
    <2>3. torn' = torn
      BY <1>4 DEF DiffStored
    <2>4. QED
      BY <1>2, <2>2, <2>3 DEF DiffsKept, At
  <1>5. CASE ~DiffStored(r)
    <2>1. ~At(r, "diff") /\ diffs' = diffs /\ torn \subseteq torn'
      BY <1>5 DEF Step, Listed, Looked, Fetched, ItemStored, SnapshotStored, At, tables
    <2>2. QED
      BY <1>2, <2>1 DEF DiffsKept, At
  <1>6. QED
    BY <1>4, <1>5

\* A new snapshot that was not raced comes with the diff its run is about to
\* make.
LEMMA SnapshotPairs ==
    ASSUME IInv, NEW r \in Runners, SnapshotStored(r)
    PROVE  OnlyTornMisses'
  <1>1. PICK x, y \in Runs :
              /\ Moves(r, x, y) /\ x.at = "snapshot"
              /\ x.latest \notin {None, x.content} =>
                    y.at = "diff" /\ y.latest = x.latest /\ y.content = x.content
                                  /\ y.article = x.article
    BY SnapshotStoredMoves
  <1>2. x = run[r] /\ run'[r] = y
    BY <1>1 DEF Moves, IInv, TypeOK
  <1>3. DiffsKept /\ torn \subseteq torn' /\ \A a \in Articles : diffs[a] \subseteq diffs'[a]
    BY StepDiffsKept DEF Step
  <1>4. x.article \in Articles /\ x.content \in Contents
    BY <1>1, <1>2 DEF IInv, RunsWellFormed, WellFormed, OnArticle, HasDetail
  <1>5. snaps \in [Articles -> Seq(Contents)] /\ OnlyTornMisses
    BY DEF IInv, TypeOK
  <1>6. CASE Contains(snaps[x.article], x.content)
    <2>1. snaps' = snaps
      BY <1>2, <1>5, <1>6 DEF SnapshotStored
    <2>2. QED
      BY <1>3, <1>5, <2>1, OldPairs
  <1>7. CASE ~Contains(snaps[x.article], x.content)
    <2> DEFINE old == snaps[x.article]
    <2>1. /\ snaps' = [snaps EXCEPT ![x.article] = Append(old, x.content)]
          /\ old # << >> /\ Last(old) # x.latest => x.article \in torn'
      BY <1>2, <1>5, <1>7 DEF SnapshotStored
    <2>2. old \in Seq(Contents)
      BY <1>4, <1>5
    <2> SUFFICES ASSUME NEW a \in Articles \ torn', NEW i \in 2..Len(snaps'[a])
                 PROVE  HasDiff(a, <<snaps[a][i - 1], snaps[a][i]>>)'
      BY DEF OnlyTornMisses, HasDiff
    <2>3. ASSUME i \in 2..Len(snaps[a]), snaps'[a][i - 1] = snaps[a][i - 1],
                 snaps'[a][i] = snaps[a][i]
          PROVE  HasDiff(a, <<snaps[a][i - 1], snaps[a][i]>>)'
      <3>1. HasDiff(a, <<snaps[a][i - 1], snaps[a][i]>>)
        BY <1>3, <1>5, <2>3 DEF OnlyTornMisses, HasDiff
      <3>2. PICK d : d = <<snaps[a][i - 1], snaps[a][i]>>
        OBVIOUS
      <3>3. HasDiff(a, d)'
        BY <1>3, <3>1, <3>2, HasDiffKept
      <3>4. QED
        BY <2>3, <3>2, <3>3 DEF HasDiff, Pending
    <2>4. CASE a # x.article
      BY <1>5, <2>1, <2>3, <2>4
    <2>5. CASE a = x.article
      <3> HIDE DEF old
      <3>1. snaps'[a] = Append(old, x.content)
        BY <1>4, <1>5, <2>1, <2>5
      <3>2. /\ Len(snaps'[a]) = Len(old) + 1 /\ Len(old) \in Nat
            /\ snaps'[a][Len(old) + 1] = x.content
            /\ \A j \in 1..Len(old) : snaps'[a][j] = old[j] /\ old[j] \in Contents
        BY <1>4, <2>2, <3>1
      <3>3. CASE i \in 2..Len(old)
        BY <2>3, <2>5, <3>2, <3>3 DEF old
      <3>4. CASE i = Len(old) + 1
        <4>1. Len(old) >= 1 /\ old # << >> /\ i - 1 = Len(old)
          BY <3>2, <3>4
        <4>2. old[Len(old)] = x.latest
          BY <2>1, <2>5, <4>1 DEF Last
        <4>3. x.latest \in Contents /\ x.latest # x.content
          <5>1. Len(old) \in 1..Len(old)
            BY <3>2, <4>1
          <5>2. x.latest = x.content => Contains(old, x.content)
            BY <4>2, <5>1 DEF Contains
          <5>3. QED
            BY <1>7, <3>2, <4>2, <5>1, <5>2 DEF old
        <4>4. /\ y.at = "diff" /\ y.article = a
              /\ <<y.latest, y.content>> = <<snaps'[a][i - 1], snaps'[a][i]>>
          <5>1. x.latest \notin {None, x.content}
            BY <4>3, WorkerAssumption
          <5>2. snaps'[a][i - 1] = x.latest /\ snaps'[a][i] = x.content
            BY <3>2, <3>4, <4>1, <4>2
          <5>3. QED
            BY <1>1, <2>5, <5>1, <5>2
        <4>5. At(r, "diff")' /\ run'[r].article = a
              /\ <<run'[r].latest, run'[r].content>> = <<snaps'[a][i - 1], snaps'[a][i]>>
          BY <1>2, <4>4 DEF At
        <4>6. QED
          BY <4>5 DEF HasDiff, Pending
      <3>5. QED
        BY <3>2, <3>3, <3>4
    <2>6. QED
      BY <2>4, <2>5
  <1>8. QED
    BY <1>6, <1>7

LEMMA PairsStep ==
    ASSUME IInv, [Next]_vars
    PROVE  OnlyTornMisses'
  <1> USE DEF IInv
  <1>1. CASE \E r \in Runners : SnapshotStored(r)
    BY <1>1, SnapshotPairs
  <1>2. CASE \E r \in Runners : Step(r) /\ ~SnapshotStored(r)
    <2>1. PICK r \in Runners : Step(r) /\ ~SnapshotStored(r)
      BY <1>2
    <2>2. snaps' = snaps
      BY <2>1 DEF Step, Listed, Looked, Fetched, ItemStored, DiffStored, tables
    <2>3. QED
      BY <2>1, <2>2, StepDiffsKept, OldPairs
  <1>3. CASE \E a \in Articles, content \in Contents : Edit(a, content)
    <2>1. PICK a \in Articles, content \in Contents : Edit(a, content)
      BY <1>3
    <2>2. DiffsKept
      BY <2>1 DEF DiffsKept, Edit, TypeOK, Runs, At
    <2>3. QED
      BY <2>1, <2>2, OldPairs DEF Edit, tables
  <1>4. CASE \E r \in Runners, sources \in (SUBSET Sources) \ {{}}, dry \in BOOLEAN :
               Start(r, sources, dry)
    <2>1. PICK r \in Runners, sources \in (SUBSET Sources) \ {{}}, dry \in BOOLEAN :
               Start(r, sources, dry)
      BY <1>4
    <2>2. DiffsKept
      BY <2>1 DEF DiffsKept, Start, TypeOK, Runs, At
    <2>3. QED
      BY <2>1, <2>2, OldPairs DEF Start, tables
  <1>5. CASE \E r \in Runners : Fails(r)
    <2>1. PICK r \in Runners : Fails(r)
      BY <1>5
    <2>2. DiffsKept /\ torn \subseteq torn'
      BY <2>1 DEF DiffsKept, Fails, TypeOK, At
    <2>3. QED
      BY <2>1, <2>2, OldPairs DEF Fails, tables
  <1>6. CASE UNCHANGED vars
    BY <1>6, OldPairs DEF DiffsKept, vars, tables, At
  <1>7. QED
    BY <1>1, <1>2, <1>3, <1>4, <1>5, <1>6 DEF Next

LEMMA IInvStep ==
    ASSUME IInv, [Next]_vars
    PROVE  IInv'
  <1>1. OnlyTornMisses'
    BY PairsStep
  <1>2. TypeOK' /\ RunsWellFormed' /\ NotAlone' /\ RunsCover'
    <2>1. CASE \E r \in Runners : Step(r)
      BY <2>1, StepIInv
    <2>2. CASE \E a \in Articles, content \in Contents : Edit(a, content)
      BY <2>2, EditIInv
    <2>3. CASE \E r \in Runners, sources \in (SUBSET Sources) \ {{}}, dry \in BOOLEAN :
                 Start(r, sources, dry)
      BY <2>3, StartIInv
    <2>4. CASE \E r \in Runners : Fails(r)
      BY <2>4, FailsIInv
    <2>5. CASE UNCHANGED vars
      BY <2>5 DEF IInv, TypeOK, RunsWellFormed, WellFormed, Published, NotAlone, Active,
                  RunsCover, Covers, Ahead, Stored, Current, vars, tables
    <2>6. QED
      BY <2>1, <2>2, <2>3, <2>4, <2>5 DEF Next
  <1>3. QED
    BY <1>1, <1>2 DEF IInv

LEMMA Invariance == Spec => []IInv
  BY InitIInv, IInvStep, PTL DEF Spec

-----------------------------------------------------------------------------
(***************************************************************************)
(* Theorems.                                                               *)
(***************************************************************************)

\* The tables and the runs of the worker keep their types.
THEOREM TypeCorrect == Spec => []TypeOK
  BY Invariance, PTL DEF IInv

\* Between two snapshots a diff is missing only where a run broke off between
\* its two statements or stored its snapshot after another run's, for any
\* number of runs that overlap.
THEOREM OnlyTornMissesHolds == Spec => []OnlyTornMisses
  BY Invariance, PTL DEF IInv

\* What a run that ends without an error leaves: a step of its own took it to
\* the end, and everything it had to store was covered.
LEMMA EndStep ==
    ASSUME IInv, Next, NEW r \in Runners, NEW a \in run[r].same,
           run[r].at # "idle", run'[r].at = "idle", failures' = failures, ~run[r].dry
    PROVE  Contains(snaps'[a], board[a]) /\ (run[r].alone => item'[a] = board[a])
  <1>1. run \in [Runners -> Runs] /\ failures \in Nat
    BY WorkerAssumption DEF IInv, TypeOK
  <1>2. ASSUME NEW b \in Articles, NEW content \in Contents, Edit(b, content)
        PROVE  FALSE
    BY <1>1, <1>2 DEF Edit, Runs
  <1>3. ASSUME NEW q \in Runners, NEW sources \in (SUBSET Sources) \ {{}}, NEW dry \in BOOLEAN,
               Start(q, sources, dry)
        PROVE  FALSE
    BY <1>1, <1>3 DEF Start, Runs
  <1>4. ASSUME NEW q \in Runners, Fails(q)
        PROVE  FALSE
    BY <1>1, <1>4 DEF Fails
  <1>5. PICK q \in Runners : Step(q)
    BY <1>2, <1>3, <1>4 DEF Next
  <1>6. PICK x, y \in Runs : Moves(q, x, y)
    BY <1>5, StepMoves
  <1>7. q = r
    BY <1>1, <1>6 DEF Moves
  <1>8. x = run[r] /\ run'[r] = y /\ board' = board
    BY <1>1, <1>6, <1>7 DEF Moves
  <1>9. Stored(x, a)'
    BY <1>6, <1>8 DEF Moves, Active
  <1>10. QED
    BY <1>8, <1>9 DEF Stored, Current

\* A run that ends without an error has stored every article of its boards
\* that was not edited meanwhile, whatever earlier and overlapping runs did.
THEOREM EndIsCurrentHolds == Spec => EndIsCurrent
  <1>1. IInv /\ [Next]_vars =>
          [\A r \in Runners :
             run[r].at # "idle" /\ run'[r].at = "idle" /\ failures' = failures /\ ~run[r].dry
                => \A a \in run[r].same : /\ Contains(snaps'[a], board[a])
                                          /\ run[r].alone => item'[a] = board[a]]_vars
    BY EndStep
  <1>2. QED
    BY <1>1, Invariance, PTL DEF Spec, EndIsCurrent
=============================================================================
