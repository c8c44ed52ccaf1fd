----------------------------- MODULE WindowsProofs -----------------------------
(***************************************************************************)
(* The two windows over one database, for any number of characters, tasks,  *)
(* clicks and failed saves: a window at rest that alone has written shows   *)
(* what is stored.  The invariant looks at everything on its way to a       *)
(* window: unless one of its writes waits for its save, the last answer     *)
(* that tells it something is a fresh overview or a refusal, and with no    *)
(* such answer the overview it shows is fresh or known to be stale.         *)
(***************************************************************************)
EXTENDS Windows, SequenceTheorems, TLAPS

AnswerSet ==
  [kind : {"active", "chosen"}, value : Characters \cup {None}]
    \cup [kind : {"overview"}, value : Overviews \cup {None}]
    \cup [kind : {"toggled"}, value : Overviews]
    \cup [kind : {"refused"}, value : {None}]

SaveSet ==
  [win : Windows, kind : {"choose", "first"}, char : Characters \cup {None}]
    \cup [win : Windows, kind : {"write"}, char : Characters]

Typed ==
  /\ TypeOK
  /\ replies \in [Windows -> Seq(AnswerSet)]
  /\ \A c \in Characters : used[c] <= clicks

View(a)  == a.kind \in {"overview", "toggled"}
Tells(a) == View(a) \/ a.kind = "refused"

\* The overview v is what the completions d and the uses u say.
Fresh(v, d, u) ==
  \/ v = None
  \/ v = [char |-> v.char, done |-> {t \in Tasks : <<v.char, t>> \in d}, used |-> u[v.char]]

\* A window that shows v, known to be stale or not, with the answers r on
\* their way to it, will show an overview of d and u, or know it is stale.
Settled(r, v, known, d, u) ==
  /\ \A i \in 1 .. Len(r) :
       View(r[i]) /\ (\A j \in i + 1 .. Len(r) : ~Tells(r[j])) => Fresh(r[i].value, d, u)
  /\ (\A i \in 1 .. Len(r) : ~Tells(r[i])) /\ ~known => Fresh(v, d, u)

Awaiting(w) == \E i \in 1 .. Len(saves) : saves[i].win = w /\ saves[i].kind = "write"

Coherent(w) ==
  wrote \subseteq {w} /\ ~Awaiting(w)
    => Settled(replies[w], shown[w], stale[w], done, used)

IInv == Typed /\ \A w \in Windows : Coherent(w)

-----------------------------------------------------------------------------
(* Answers sent and received.                                                *)

(* A fresh overview or a refusal, sent last, settles a window; an answer     *)
(* that tells nothing changes nothing.                                       *)
LEMMA SentSettles ==
  ASSUME NEW r \in Seq(AnswerSet), NEW a \in AnswerSet, NEW v, NEW known, NEW d, NEW u,
         Tells(a) \/ Settled(r, v, known, d, u),
         View(a) => Fresh(a.value, d, u)
  PROVE  Settled(Append(r, a), v, known, d, u)
<1> DEFINE s == Append(r, a)
<1>1. /\ Len(r) \in Nat /\ Len(s) = Len(r) + 1 /\ s[Len(r) + 1] = a
      /\ \A i \in 1 .. Len(r) : s[i] = r[i]
  OBVIOUS
<1> HIDE DEF s
<1>2. ASSUME NEW i \in 1 .. Len(s), View(s[i]), \A j \in i + 1 .. Len(s) : ~Tells(s[j])
      PROVE  Fresh(s[i].value, d, u)
  <2>1. CASE i = Len(r) + 1
    BY <1>1, <1>2, <2>1
  <2>2. CASE i # Len(r) + 1
    <3>1. i \in 1 .. Len(r) /\ Len(s) \in i + 1 .. Len(s)
      BY <1>1, <2>2
    <3>2. ~Tells(a)
      BY <1>1, <1>2, <3>1
    <3>3. \A j \in i + 1 .. Len(r) : j \in i + 1 .. Len(s) /\ r[j] = s[j]
      BY <1>1, <3>1
    <3>4. \A j \in i + 1 .. Len(r) : ~Tells(r[j])
      BY <1>2, <3>3
    <3> QED BY <1>1, <1>2, <3>1, <3>2, <3>4 DEF Settled
  <2> QED BY <2>1, <2>2
<1>3. ASSUME \A i \in 1 .. Len(s) : ~Tells(s[i]), ~known
      PROVE  Fresh(v, d, u)
  <2>1. Len(s) \in 1 .. Len(s) /\ \A i \in 1 .. Len(r) : i \in 1 .. Len(s)
    BY <1>1
  <2>2. ~Tells(a) /\ \A i \in 1 .. Len(r) : ~Tells(r[i])
    BY <1>1, <1>3, <2>1
  <2> QED BY <1>3, <2>2 DEF Settled
<1> QED BY <1>2, <1>3 DEF Settled, s

(* An answer received leaves the window settled: a view is shown, a refusal  *)
(* is known, anything else changes nothing or clears the page.               *)
LEMMA ReceivedSettles ==
  ASSUME NEW r \in Seq(AnswerSet), r # <<>>, NEW v, NEW known, NEW w, NEW now, NEW d, NEW u,
         Settled(r, v, known, d, u),
         \/ View(r[1]) /\ w = r[1].value
         \/ now = TRUE
         \/ ~Tells(r[1]) /\ w \in {v, None} /\ now = known
  PROVE  Settled(Tail(r), w, now, d, u)
<1> DEFINE s == Tail(r)
<1>1. /\ Len(r) \in Nat \ {0} /\ Len(s) = Len(r) - 1
      /\ \A i \in 1 .. Len(s) : s[i] = r[i + 1]
  BY HeadTailProperties
<1> HIDE DEF s
<1>2. ASSUME NEW i \in 1 .. Len(s), View(s[i]), \A j \in i + 1 .. Len(s) : ~Tells(s[j])
      PROVE  Fresh(s[i].value, d, u)
  <2>1. i + 1 \in 1 .. Len(r) /\ s[i] = r[i + 1]
    BY <1>1
  <2>2. \A j \in (i + 1) + 1 .. Len(r) : j - 1 \in i + 1 .. Len(s) /\ s[j - 1] = r[j]
    BY <1>1
  <2>3. \A j \in (i + 1) + 1 .. Len(r) : ~Tells(r[j])
    BY <1>2, <2>2
  <2> QED BY <1>2, <2>1, <2>3 DEF Settled
<1>3. ASSUME \A i \in 1 .. Len(s) : ~Tells(s[i]), ~now
      PROVE  Fresh(w, d, u)
  <2>1. \A i \in 2 .. Len(r) : i - 1 \in 1 .. Len(s) /\ s[i - 1] = r[i]
    BY <1>1
  <2>2. \A i \in 2 .. Len(r) : ~Tells(r[i])
    BY <1>3, <2>1
  <2>3. 1 \in 1 .. Len(r) /\ \A i \in 1 .. Len(r) : i = 1 \/ i \in 2 .. Len(r)
    BY <1>1
  <2>4. CASE View(r[1]) /\ w = r[1].value
    <3>1. \A i \in 1 + 1 .. Len(r) : ~Tells(r[i])
      BY <2>2
    <3> QED BY <2>3, <2>4, <3>1 DEF Settled
  <2>5. CASE ~Tells(r[1]) /\ w \in {v, None} /\ now = known
    <3>1. \A i \in 1 .. Len(r) : ~Tells(r[i])
      BY <2>2, <2>3, <2>5
    <3>2. Fresh(v, d, u)
      BY <1>3, <2>5, <3>1 DEF Settled
    <3> QED BY <2>5, <3>2 DEF Fresh
  <2> QED BY <1>3, <2>4, <2>5
<1> QED BY <1>2, <1>3 DEF Settled, s

-----------------------------------------------------------------------------
(* What the main process answers.                                            *)

Sendable(s) ==
  \/ s = <<>>
  \/ \E a \in AnswerSet : s = <<a>> /\ (View(a) => Fresh(a.value, done, used))

LEMMA OverviewIsFresh ==
  ASSUME Typed, NEW c \in Characters
  PROVE  Overview(c) \in Overviews /\ Fresh(Overview(c), done, used)
<1>1. used[c] \in 0 .. MaxClicks
  BY DEF Typed, TypeOK
<1>2. Overview(c) \in Overviews
  BY <1>1 DEF Overview, Overviews
<1>3. Overview(c).char = c
  BY DEF Overview
<1>4. Fresh(Overview(c), done, used)
  BY <1>3 DEF Fresh, Overview
<1> QED BY <1>2, <1>4

LEMMA GetOverviewIsFresh ==
  ASSUME Typed, NEW w \in Windows, NEW c \in Characters \cup {None}
  PROVE  Sendable(GetOverview(w, c))
<1> DEFINE of == IF c = None THEN active ELSE c
           v == IF of = None THEN None ELSE Overview(of)
           a == Answer("overview", v)
<1>1. of \in Characters \cup {None}
  BY DEF Typed, TypeOK
<1> HIDE DEF of
<1>2. v \in Overviews \cup {None} /\ Fresh(v, done, used)
  <2>1. CASE of = None
    BY <2>1 DEF Fresh
  <2>2. CASE of # None
    BY <1>1, <2>2, OverviewIsFresh
  <2> QED BY <2>1, <2>2
<1> HIDE DEF v
<1>3. a \in AnswerSet /\ a.value = v
  BY <1>2 DEF Answer, AnswerSet
<1>4. GetOverview(w, c) = <<>> \/ GetOverview(w, c) = <<a>>
  BY DEF GetOverview, of, v
<1> HIDE DEF a
<1> QED BY <1>2, <1>3, <1>4 DEF Sendable

(* What is sent keeps a window settled.                                      *)
LEMMA SentKeepsSettled ==
  ASSUME NEW r \in Seq(AnswerSet), NEW s, Sendable(s), NEW v, NEW known
  PROVE  /\ r \o s \in Seq(AnswerSet)
         /\ Settled(r, v, known, done, used) => Settled(r \o s, v, known, done, used)
<1>1. CASE s = <<>>
  BY <1>1, ConcatEmptySeq
<1>2. ASSUME NEW a \in AnswerSet, s = <<a>>, View(a) => Fresh(a.value, done, used)
      PROVE  /\ r \o s \in Seq(AnswerSet)
             /\ Settled(r, v, known, done, used) => Settled(r \o s, v, known, done, used)
  <2>1. r \o s = Append(r, a) /\ Append(r, a) \in Seq(AnswerSet)
    BY <1>2
  <2>2. Settled(r, v, known, done, used) => Settled(Append(r, a), v, known, done, used)
    BY <1>2, SentSettles
  <2> QED BY <2>1, <2>2
<1> QED BY <1>1, <1>2 DEF Sendable

(* An answer is sent to w, while no row changes and no write is answered.    *)
LEMMA SendingKeeps ==
  ASSUME IInv, NEW w \in Windows, NEW s, Sendable(s), Send(w, s),
         UNCHANGED <<done, used, wrote, shown, stale>>,
         \A x \in Windows : Awaiting(x) => Awaiting(x)'
  PROVE  /\ replies' \in [Windows -> Seq(AnswerSet)]
         /\ \A x \in Windows : Coherent(x)'
<1>1. replies \in [Windows -> Seq(AnswerSet)]
  BY DEF IInv, Typed
<1>2. \A x \in Windows : replies'[x] = IF x = w THEN replies[x] \o s ELSE replies[x]
  BY <1>1 DEF Send
<1>3. \A x \in Windows :
        /\ replies'[x] \in Seq(AnswerSet)
        /\ \A v, known : Settled(replies[x], v, known, done, used)
                           => Settled(replies'[x], v, known, done, used)
  BY <1>1, <1>2, SentKeepsSettled
<1>4. replies' \in [Windows -> Seq(AnswerSet)]
  BY <1>1, <1>3 DEF Send
<1>5. ASSUME NEW x \in Windows PROVE Coherent(x)'
  <2>1. Coherent(x)
    BY DEF IInv
  <2> QED BY <1>3, <2>1 DEF Coherent
<1> QED BY <1>4, <1>5

(* An answer is received by w, which may send another call.                  *)
LEMMA ReceivingKeeps ==
  ASSUME IInv, NEW w \in Windows, NEW s, Sendable(s), Rest(w, s), replies[w] # <<>>,
         UNCHANGED <<done, used, wrote>>,
         \A x \in Windows : Awaiting(x) => Awaiting(x)',
         \A x \in Windows \ {w} : shown'[x] = shown[x] /\ stale'[x] = stale[x],
         \/ View(Head(replies[w])) /\ shown'[w] = Head(replies[w]).value
         \/ stale'[w] = TRUE
         \/ /\ ~Tells(Head(replies[w]))
            /\ shown'[w] \in {shown[w], None} /\ stale'[w] = stale[w]
  PROVE  /\ replies' \in [Windows -> Seq(AnswerSet)]
         /\ \A x \in Windows : Coherent(x)'
<1>1. replies \in [Windows -> Seq(AnswerSet)] /\ replies[w] \in Seq(AnswerSet)
  BY DEF IInv, Typed
<1>2. Tail(replies[w]) \in Seq(AnswerSet) /\ Head(replies[w]) = replies[w][1]
  BY <1>1
<1>3. \A x \in Windows : replies'[x] = IF x = w THEN Tail(replies[w]) \o s ELSE replies[x]
  BY <1>1 DEF Rest
<1>4. \A x \in Windows : replies'[x] \in Seq(AnswerSet)
  BY <1>1, <1>2, <1>3, SentKeepsSettled
<1>5. replies' \in [Windows -> Seq(AnswerSet)]
  BY <1>1, <1>4 DEF Rest
<1>6. Coherent(w)'
  <2>1. SUFFICES ASSUME wrote \subseteq {w}, ~Awaiting(w)'
                 PROVE  Settled(replies'[w], shown'[w], stale'[w], done, used)
    BY DEF Coherent
  <2>2. Settled(replies[w], shown[w], stale[w], done, used)
    BY <2>1 DEF IInv, Coherent
  <2>3. Settled(Tail(replies[w]), shown'[w], stale'[w], done, used)
    BY <1>1, <1>2, <2>2, ReceivedSettles
  <2> QED BY <1>2, <1>3, <2>3, SentKeepsSettled
<1>7. ASSUME NEW x \in Windows \ {w} PROVE Coherent(x)'
  <2>1. Coherent(x)
    BY DEF IInv
  <2> QED BY <1>3, <2>1 DEF Coherent
<1> QED BY <1>5, <1>6, <1>7

-----------------------------------------------------------------------------
(* The invariant holds initially and is kept by every step.                  *)

LEMMA InitIInv == Init => IInv
<1> SUFFICES ASSUME Init PROVE IInv
  OBVIOUS
<1> DEFINE a == Answer("overview", IF active = None THEN None ELSE Overview(active))
<1>1. /\ active \in Characters \cup {None} /\ done = {} /\ saves = <<>> /\ clicks = 0
      /\ used \in [Characters -> 0 .. MaxClicks] /\ \A c \in Characters : used[c] <= clicks
  BY WindowsAssumption DEF Init
<1>2. active # None => Overview(active) \in Overviews /\ Fresh(Overview(active), done, used)
  BY <1>1 DEF Overview, Overviews, Fresh
<1>3. a \in AnswerSet /\ Fresh(a.value, done, used)
  BY <1>1, <1>2 DEF Answer, AnswerSet, Fresh
<1>4. replies = [w \in Windows |-> IF w = "overlay" THEN <<>> ELSE <<a>>]
  BY DEF Init, GetOverview, Windows
<1> HIDE DEF a
<1>5. replies \in [Windows -> Seq(AnswerSet)]
  BY <1>3, <1>4
<1>6. \A w \in Windows : shown[w] = None /\ (replies[w] = <<>> \/ replies[w] = <<a>>)
  BY <1>4 DEF Init
<1>7. Typed
  BY <1>1, <1>5, WindowsAssumption DEF Init, Typed, TypeOK, AnswerSet
<1>8. ASSUME NEW w \in Windows PROVE Coherent(w)
  <2>1. CASE replies[w] = <<>>
    BY <1>6, <2>1 DEF Coherent, Settled, Fresh
  <2>2. CASE replies[w] = <<a>>
    <3>1. Len(replies[w]) = 1 /\ replies[w][1] = a
      BY <2>2
    <3>2. \A i \in 1 .. Len(replies[w]) : replies[w][i] = a
      BY <3>1
    <3>3. Fresh(shown[w], done, used)
      BY <1>6 DEF Fresh
    <3> QED BY <1>3, <3>2, <3>3 DEF Coherent, Settled
  <2> QED BY <1>6, <2>1, <2>2
<1> QED BY <1>7, <1>8 DEF IInv

LEMMA ChoosingAwaitsNothing ==
  ASSUME IInv, NEW s \in SaveSet, saves' = Append(saves, s)
  PROVE  saves' \in Seq(SaveSet) /\ \A x \in Windows : Awaiting(x) => Awaiting(x)'
<1>1. saves \in Seq(SaveSet)
  BY DEF IInv, Typed, TypeOK, SaveSet
<1>2. /\ saves' \in Seq(SaveSet) /\ Len(saves') = Len(saves) + 1
      /\ \A i \in 1 .. Len(saves) : i \in 1 .. Len(saves') /\ saves'[i] = saves[i]
  BY <1>1
<1> QED BY <1>2 DEF Awaiting

LEMMA PollKeeps ==
  ASSUME IInv, NEW w \in Windows, Poll(w)
  PROVE  IInv'
<1> DEFINE a == Answer("active", active)
<1>1. a \in AnswerSet /\ ~View(a)
  BY DEF IInv, Typed, TypeOK, Answer, AnswerSet, View
<1>2. Send(w, <<a>>) /\ UNCHANGED <<done, used, wrote, shown, stale, saves>>
  BY DEF Poll, database, page
<1> HIDE DEF a
<1>3. Sendable(<<a>>)
  BY <1>1 DEF Sendable
<1>4. \A x \in Windows : Awaiting(x) => Awaiting(x)'
  BY <1>2 DEF Awaiting
<1>5. replies' \in [Windows -> Seq(AnswerSet)] /\ \A x \in Windows : Coherent(x)'
  BY <1>2, <1>3, <1>4, SendingKeeps
<1>6. Typed'
  BY <1>5 DEF IInv, Typed, TypeOK, AnswerSet, Poll, database, page
<1> QED BY <1>5, <1>6 DEF IInv

LEMMA ChooseKeeps ==
  ASSUME IInv, NEW w \in Windows, NEW c \in Characters \cup {None}, Choose(w, c)
  PROVE  IInv'
<1> DEFINE s == [win |-> w, kind |-> "choose", char |-> c]
<1>1. s \in SaveSet /\ saves' = Append(saves, s)
  BY DEF SaveSet, Choose
<1>2. UNCHANGED <<done, used, wrote, shown, stale, replies>>
  BY DEF Choose, page
<1> HIDE DEF s
<1>3. saves' \in Seq(SaveSet) /\ \A x \in Windows : Awaiting(x) => Awaiting(x)'
  BY <1>1, ChoosingAwaitsNothing
<1>4. \A x \in Windows : Coherent(x)'
  BY <1>2, <1>3 DEF IInv, Coherent
<1>5. clicks' \in 0 .. MaxClicks /\ clicks <= clicks' /\ active' = c
  BY WindowsAssumption DEF Choose, IInv, Typed, TypeOK
<1>6. \A d \in Characters : used'[d] <= clicks'
  <2>1. \A d \in Characters : used[d] \in 0 .. MaxClicks /\ used[d] <= clicks
    BY DEF IInv, Typed, TypeOK
  <2> QED BY <1>2, <1>5, <2>1 DEF IInv, Typed, TypeOK
<1>7. Typed'
  BY <1>2, <1>3, <1>5, <1>6 DEF IInv, Typed, TypeOK, SaveSet, Choose, page
<1> QED BY <1>4, <1>7 DEF IInv

LEMMA ReloadKeeps ==
  ASSUME IInv, NEW w \in Windows, Reload(w)
  PROVE  IInv'
<1>1. char[w] \in Characters \cup {None}
  BY DEF IInv, Typed, TypeOK
<1>2. Sendable(GetOverview(w, char[w])) /\ Send(w, GetOverview(w, char[w]))
  BY <1>1, GetOverviewIsFresh DEF IInv, Reload
<1>3. UNCHANGED <<done, used, wrote, shown, stale, saves>>
  BY DEF Reload, database
<1>4. \A x \in Windows : Awaiting(x) => Awaiting(x)'
  BY <1>3 DEF Awaiting
<1>5. replies' \in [Windows -> Seq(AnswerSet)] /\ \A x \in Windows : Coherent(x)'
  BY <1>2, <1>3, <1>4, SendingKeeps
<1>6. clicks' \in 0 .. MaxClicks /\ clicks <= clicks' /\ clicks \in Int
  BY WindowsAssumption DEF Reload, IInv, Typed, TypeOK
<1>7. \A d \in Characters : used'[d] <= clicks'
  <2>1. \A d \in Characters : used[d] \in 0 .. MaxClicks /\ used[d] <= clicks
    BY DEF IInv, Typed, TypeOK
  <2> QED BY <1>3, <1>6, <2>1
<1>8. Typed'
  BY <1>5, <1>6, <1>7 DEF IInv, Typed, TypeOK, AnswerSet, Reload, database
<1> QED BY <1>5, <1>8 DEF IInv

(* The oldest answer of a window.                                            *)
LEMMA HeadTyped ==
  ASSUME IInv, NEW w \in Windows, replies[w] # <<>>
  PROVE  Head(replies[w]) \in AnswerSet
<1>1. replies[w] \in Seq(AnswerSet)
  BY DEF IInv, Typed
<1> QED BY <1>1, HeadTailProperties

(* Learning of the active character.                                         *)
LEMMA LearningKeeps ==
  ASSUME IInv, NEW w \in Windows, replies[w] # <<>>,
         Head(replies[w]).kind \in {"active", "chosen"},
         Learn(w, Head(replies[w]).value),
         UNCHANGED <<done, used, wrote, stale>>,
         \A x \in Windows : Awaiting(x) => Awaiting(x)'
  PROVE  /\ replies' \in [Windows -> Seq(AnswerSet)]
         /\ \A x \in Windows : Coherent(x)'
         /\ char' \in [Windows -> Characters \cup {None}]
         /\ shown' \in [Windows -> Overviews \cup {None}]
         /\ loading' \in [Windows -> BOOLEAN]
<1> DEFINE c == Head(replies[w]).value
           refresh == IF c = char[w] THEN <<>> ELSE GetOverview(w, c)
<1>1. c \in Characters \cup {None}
  BY HeadTyped DEF AnswerSet
<1>2. ~Tells(Head(replies[w]))
  BY DEF Tells, View
<1>3. Learn(w, c)
  OBVIOUS
<1> HIDE DEF c
<1>4. Sendable(refresh)
  BY <1>1, GetOverviewIsFresh DEF IInv, Sendable
<1>5. Rest(w, refresh)
  BY <1>3 DEF Learn
<1>6. /\ char' = [char EXCEPT ![w] = c]
      /\ loading' = [loading EXCEPT ![w] = @ \/ refresh # <<>>]
      /\ shown' = shown \/ shown' = [shown EXCEPT ![w] = None]
  BY <1>3 DEF Learn
<1> HIDE DEF refresh
<1>7. /\ shown \in [Windows -> Overviews \cup {None}]
      /\ char \in [Windows -> Characters \cup {None}]
      /\ loading \in [Windows -> BOOLEAN]
  BY DEF IInv, Typed, TypeOK
<1>8. /\ \A x \in Windows \ {w} : shown'[x] = shown[x]
      /\ shown'[w] \in {shown[w], None}
  BY <1>6, <1>7
<1>9. replies' \in [Windows -> Seq(AnswerSet)] /\ \A x \in Windows : Coherent(x)'
  BY <1>2, <1>4, <1>5, <1>8, ReceivingKeeps
<1> QED BY <1>1, <1>6, <1>7, <1>9

LEMMA PolledKeeps ==
  ASSUME IInv, NEW w \in Windows, Polled(w)
  PROVE  IInv'
<1> DEFINE c == Head(replies[w]).value
           s == [win |-> w, kind |-> "first", char |-> First]
<1>1. /\ replies[w] # <<>> /\ Head(replies[w]).kind = "active" /\ Learn(w, c)
      /\ active' = (IF c = None THEN First ELSE active)
      /\ saves' = (IF c = None THEN Append(saves, s) ELSE saves)
      /\ listed' = listed \cup {w}
      /\ UNCHANGED <<done, used, clicks, failures, wrote, stale>>
  BY DEF Polled, Answers
<1>2. s \in SaveSet
  BY WindowsAssumption DEF SaveSet
<1>3. saves \in Seq(SaveSet)
  BY DEF IInv, Typed, TypeOK, SaveSet
<1> HIDE DEF s
<1>4. saves' \in Seq(SaveSet) /\ \A x \in Windows : Awaiting(x) => Awaiting(x)'
  <2>1. CASE c = None
    BY <1>1, <1>2, <2>1, ChoosingAwaitsNothing
  <2>2. CASE c # None
    BY <1>1, <1>3, <2>2 DEF Awaiting
  <2> QED BY <2>1, <2>2
<1>5. /\ replies' \in [Windows -> Seq(AnswerSet)]
      /\ \A x \in Windows : Coherent(x)'
      /\ char' \in [Windows -> Characters \cup {None}]
      /\ shown' \in [Windows -> Overviews \cup {None}]
      /\ loading' \in [Windows -> BOOLEAN]
  BY <1>1, <1>4, LearningKeeps
<1>6. active' \in Characters \cup {None}
  BY <1>1, WindowsAssumption DEF IInv, Typed, TypeOK
<1>7. Typed'
  BY <1>1, <1>4, <1>5, <1>6 DEF IInv, Typed, TypeOK, AnswerSet, SaveSet
<1> QED BY <1>5, <1>7 DEF IInv

LEMMA ChosenKeeps ==
  ASSUME IInv, NEW w \in Windows, Chosen(w)
  PROVE  IInv'
<1>1. /\ replies[w] # <<>> /\ Head(replies[w]).kind = "chosen"
      /\ Learn(w, Head(replies[w]).value)
      /\ UNCHANGED <<active, done, used, saves, listed, clicks, failures, wrote, stale>>
  BY DEF Chosen, Answers, database
<1>2. \A x \in Windows : Awaiting(x) => Awaiting(x)'
  BY <1>1 DEF Awaiting
<1>3. /\ replies' \in [Windows -> Seq(AnswerSet)]
      /\ \A x \in Windows : Coherent(x)'
      /\ char' \in [Windows -> Characters \cup {None}]
      /\ shown' \in [Windows -> Overviews \cup {None}]
      /\ loading' \in [Windows -> BOOLEAN]
  BY <1>1, <1>2, LearningKeeps
<1>4. Typed'
  BY <1>1, <1>3 DEF IInv, Typed, TypeOK, AnswerSet
<1> QED BY <1>3, <1>4 DEF IInv

(* An overview or a refusal arrives.                                         *)
LEMMA ToldKeeps ==
  ASSUME IInv, NEW w \in Windows, Refreshed(w) \/ Toggled(w) \/ ToggleRefused(w)
  PROVE  IInv'
<1> DEFINE a == Head(replies[w])
<1>1. /\ replies[w] # <<>> /\ Rest(w, <<>>)
      /\ UNCHANGED <<active, done, used, saves, char, listed, clicks, failures, wrote>>
  BY DEF Refreshed, Toggled, ToggleRefused, Answers, database, page
<1>2. a \in AnswerSet
  BY <1>1, HeadTyped
<1>3. /\ shown \in [Windows -> Overviews \cup {None}]
      /\ loading \in [Windows -> BOOLEAN] /\ stale \in [Windows -> BOOLEAN]
  BY DEF IInv, Typed, TypeOK
<1>4. \/ /\ View(a) /\ shown' = [shown EXCEPT ![w] = a.value]
         /\ stale' = [stale EXCEPT ![w] = FALSE]
      \/ shown' = shown /\ stale' = [stale EXCEPT ![w] = TRUE]
  BY DEF Refreshed, Toggled, ToggleRefused, Answers, View, page
<1>5. View(a) => a.value \in Overviews \cup {None}
  BY <1>2 DEF View, AnswerSet
<1>6. loading' = loading \/ loading' = [loading EXCEPT ![w] = FALSE]
  BY DEF Refreshed, Toggled, ToggleRefused, page
<1> HIDE DEF a
<1>7. /\ shown' \in [Windows -> Overviews \cup {None}]
      /\ loading' \in [Windows -> BOOLEAN] /\ stale' \in [Windows -> BOOLEAN]
      /\ \A x \in Windows \ {w} : shown'[x] = shown[x] /\ stale'[x] = stale[x]
      /\ (View(a) /\ shown'[w] = a.value) \/ stale'[w] = TRUE
  BY <1>3, <1>4, <1>5, <1>6
<1>8. Sendable(<<>>) /\ \A x \in Windows : Awaiting(x) => Awaiting(x)'
  BY <1>1 DEF Sendable, Awaiting
<1>9. replies' \in [Windows -> Seq(AnswerSet)] /\ \A x \in Windows : Coherent(x)'
  BY <1>1, <1>7, <1>8, ReceivingKeeps DEF a
<1>10. Typed'
  BY <1>1, <1>7, <1>9 DEF IInv, Typed, TypeOK, AnswerSet
<1> QED BY <1>9, <1>10 DEF IInv

(* A write waits for its save: whatever is on its way to the window, its     *)
(* answer will follow.                                                       *)
LEMMA WriteAwaits ==
  ASSUME IInv, NEW w \in Windows, shown[w] # None, Write(w),
         UNCHANGED <<active, page, replies, failures, stale>>,
         done' \subseteq Characters \X Tasks,
         used' \in [Characters -> Nat],
         \A c \in Characters : used'[c] <= used[c] + 1
  PROVE  IInv'
<1> DEFINE s == [win |-> w, kind |-> "write", char |-> shown[w].char]
<1>1. shown[w] \in Overviews /\ shown[w].char \in Characters
  BY DEF IInv, Typed, TypeOK, Overviews
<1>2. /\ s \in SaveSet /\ s.win = w /\ s.kind = "write"
      /\ saves' = Append(saves, s) /\ wrote' = wrote \cup {w}
      /\ clicks < MaxClicks /\ clicks' = clicks + 1
  BY <1>1 DEF SaveSet, Write
<1> HIDE DEF s
<1>3. saves \in Seq(SaveSet)
  BY DEF IInv, Typed, TypeOK, SaveSet
<1>4. /\ saves' \in Seq(SaveSet) /\ Len(saves) + 1 \in 1 .. Len(saves')
      /\ saves'[Len(saves) + 1] = s
  BY <1>2, <1>3
<1>5. Awaiting(w)'
  BY <1>2, <1>4 DEF Awaiting
<1>6. \A x \in Windows : Coherent(x)'
  BY <1>2, <1>5 DEF Coherent
<1>7. clicks' \in 0 .. MaxClicks
  BY <1>2, WindowsAssumption DEF IInv, Typed, TypeOK
<1>8. \A c \in Characters : used'[c] <= clicks' /\ used'[c] \in 0 .. MaxClicks
  <2>1. \A c \in Characters : used[c] \in 0 .. MaxClicks /\ used[c] <= clicks
    BY DEF IInv, Typed, TypeOK
  <2>2. clicks \in Int /\ MaxClicks \in Int
    BY WindowsAssumption DEF IInv, Typed, TypeOK
  <2> QED BY <1>2, <1>7, <2>1, <2>2
<1>9. used' \in [Characters -> 0 .. MaxClicks]
  BY <1>8
<1>10. Typed'
  BY <1>2, <1>4, <1>7, <1>8, <1>9 DEF IInv, Typed, TypeOK, AnswerSet, SaveSet, page
<1> QED BY <1>6, <1>10 DEF IInv

LEMMA ToggleKeeps ==
  ASSUME IInv, NEW w \in Windows, NEW t \in Tasks, Toggle(w, t)
  PROVE  IInv'
<1>1. shown[w] # None /\ Write(w) /\ UNCHANGED <<active, used, page, replies, failures, stale>>
  BY DEF Toggle
<1>2. shown[w].char \in Characters
  BY <1>1 DEF IInv, Typed, TypeOK, Overviews
<1>3. done' \subseteq Characters \X Tasks
  BY <1>2 DEF Toggle, IInv, Typed, TypeOK
<1>4. used \in [Characters -> 0 .. MaxClicks]
  BY DEF IInv, Typed, TypeOK
<1>5. used' \in [Characters -> Nat] /\ \A c \in Characters : used'[c] <= used[c] + 1
  BY <1>1, <1>4, WindowsAssumption
<1> QED BY <1>1, <1>3, <1>5, WriteAwaits

LEMMA ChargeKeeps ==
  ASSUME IInv, NEW w \in Windows, UseCharge(w) \/ UndoCharge(w)
  PROVE  IInv'
<1> DEFINE c == shown[w].char
<1>1. shown[w] # None /\ Write(w) /\ UNCHANGED <<active, done, page, replies, failures, stale>>
  BY DEF UseCharge, UndoCharge
<1>2. c \in Characters
  BY <1>1 DEF IInv, Typed, TypeOK, Overviews
<1>3. used \in [Characters -> 0 .. MaxClicks] /\ done \subseteq Characters \X Tasks
  BY DEF IInv, Typed, TypeOK
<1>4. \/ used' = [used EXCEPT ![c] = @ + 1]
      \/ used' = [used EXCEPT ![c] = IF @ = 0 THEN 0 ELSE @ - 1]
  BY DEF UseCharge, UndoCharge
<1> HIDE DEF c
<1>5. used' \in [Characters -> Nat] /\ \A d \in Characters : used'[d] <= used[d] + 1
  BY <1>2, <1>3, <1>4, WindowsAssumption
<1> QED BY <1>1, <1>3, <1>5, WriteAwaits

(* The first save ends: its handler answers a write with a fresh overview or *)
(* a refusal.                                                                *)
LEMMA AnsweringKeeps ==
  ASSUME IInv, saves # <<>>, saves' = Tail(saves),
         NEW s, Sendable(s), Send(Head(saves).win, s),
         Head(saves).kind = "write" =>
           \E a \in AnswerSet : s = <<a>> /\ Tells(a) /\ (View(a) => Fresh(a.value, done, used)),
         UNCHANGED <<database, page, clicks, wrote, stale>>, failures' \in 0 .. MaxFailures
  PROVE  IInv'
<1> DEFINE w == Head(saves).win
<1>1. saves \in Seq(SaveSet) /\ replies \in [Windows -> Seq(AnswerSet)]
  BY DEF IInv, Typed, TypeOK, SaveSet
<1>2. /\ Head(saves) \in SaveSet /\ Head(saves) = saves[1] /\ saves' \in Seq(SaveSet)
      /\ Len(saves) \in Nat \ {0} /\ Len(saves') = Len(saves) - 1
      /\ \A i \in 1 .. Len(saves') : saves'[i] = saves[i + 1]
  BY <1>1, HeadTailProperties
<1>3. w \in Windows
  BY <1>2 DEF SaveSet
<1>4. \A x \in Windows : replies'[x] = IF x = w THEN replies[x] \o s ELSE replies[x]
  BY <1>1 DEF Send
<1>5. \A x \in Windows : replies'[x] \in Seq(AnswerSet)
  BY <1>1, <1>4, SentKeepsSettled
<1>6. replies' \in [Windows -> Seq(AnswerSet)]
  BY <1>1, <1>5 DEF Send
<1>7. ASSUME NEW x \in Windows, Awaiting(x), ~Awaiting(x)'
      PROVE  x = w /\ Head(saves).kind = "write"
  <2>1. PICK i \in 1 .. Len(saves) : saves[i].win = x /\ saves[i].kind = "write"
    BY <1>7 DEF Awaiting
  <2>2. CASE i = 1
    BY <1>2, <2>1, <2>2
  <2>3. CASE i # 1
    <3>1. i - 1 \in 1 .. Len(saves') /\ saves'[i - 1] = saves[i]
      BY <1>2, <2>3
    <3> QED BY <1>7, <2>1, <3>1 DEF Awaiting
  <2> QED BY <2>2, <2>3
<1>8. UNCHANGED <<done, used, shown, stale, wrote>>
  BY DEF database, page
<1> HIDE DEF w
<1>9. ASSUME NEW x \in Windows PROVE Coherent(x)'
  <2>1. SUFFICES ASSUME wrote \subseteq {x}, ~Awaiting(x)'
                 PROVE  Settled(replies'[x], shown[x], stale[x], done, used)
    BY <1>8 DEF Coherent
  <2>2. CASE ~Awaiting(x)
    <3>1. Settled(replies[x], shown[x], stale[x], done, used)
      BY <2>1, <2>2 DEF IInv, Coherent
    <3> QED BY <1>1, <1>4, <3>1, SentKeepsSettled
  <2>3. CASE Awaiting(x)
    <3>1. x = w /\ Head(saves).kind = "write"
      BY <1>7, <2>1, <2>3
    <3>2. PICK a \in AnswerSet :
            s = <<a>> /\ Tells(a) /\ (View(a) => Fresh(a.value, done, used))
      BY <3>1
    <3>3. replies[x] \in Seq(AnswerSet)
      BY <1>1
    <3>4. replies'[x] = Append(replies[x], a)
      <4>1. replies'[x] = replies[x] \o <<a>>
        BY <1>4, <3>1, <3>2
      <4>2. replies[x] \o <<a>> = Append(replies[x], a)
        BY <3>3
      <4> QED BY <4>1, <4>2
    <3> QED BY <3>2, <3>3, <3>4, SentSettles
  <2> QED BY <2>2, <2>3
<1>10. Typed'
  BY <1>2, <1>6 DEF IInv, Typed, TypeOK, AnswerSet, SaveSet, database, page
<1> QED BY <1>9, <1>10 DEF IInv

LEMMA SavedKeeps ==
  ASSUME IInv, Saved
  PROVE  IInv'
<1> DEFINE h == Head(saves)
           a == IF h.kind = "write" THEN Answer("toggled", Overview(h.char))
                                    ELSE Answer("chosen", h.char)
<1>1. /\ saves # <<>> /\ saves' = Tail(saves) /\ Send(h.win, <<a>>)
      /\ UNCHANGED <<database, page, clicks, failures, wrote, stale>>
  BY DEF Saved
<1>2. saves \in Seq(SaveSet)
  BY DEF IInv, Typed, TypeOK, SaveSet
<1>3. h \in SaveSet
  BY <1>1, <1>2, HeadTailProperties
<1>4. /\ h.char \in Characters \cup {None}
      /\ h.kind = "write" => h.char \in Characters
  BY <1>3 DEF SaveSet
<1>5. h.kind = "write" => Overview(h.char) \in Overviews
                            /\ Fresh(Overview(h.char), done, used)
  BY <1>4, OverviewIsFresh DEF IInv
<1>6. /\ a \in AnswerSet /\ (View(a) => Fresh(a.value, done, used))
      /\ h.kind = "write" => Tells(a)
  <2>1. CASE h.kind # "write"
    BY <1>4, <2>1 DEF Answer, AnswerSet, View
  <2>2. CASE h.kind = "write"
    BY <1>5, <2>2 DEF Answer, AnswerSet, View, Tells
  <2> QED BY <1>4, <2>1, <2>2
<1> HIDE DEF a
<1>7. Sendable(<<a>>) /\ failures' \in 0 .. MaxFailures
  BY <1>1, <1>6 DEF Sendable, IInv, Typed, TypeOK
<1> QED BY <1>1, <1>6, <1>7, AnsweringKeeps

LEMMA SaveFailedKeeps ==
  ASSUME IInv, SaveFailed
  PROVE  IInv'
<1> DEFINE h == Head(saves)
           a == Answer("refused", None)
           s == IF h.kind = "write" THEN <<a>> ELSE <<>>
<1>1. /\ saves # <<>> /\ saves' = Tail(saves) /\ Send(h.win, s)
      /\ UNCHANGED <<database, page, clicks, wrote, stale>>
  BY DEF SaveFailed
<1>2. a \in AnswerSet /\ ~View(a) /\ Tells(a)
  BY DEF Answer, AnswerSet, View, Tells
<1>3. failures' \in 0 .. MaxFailures
  BY WindowsAssumption DEF SaveFailed, IInv, Typed, TypeOK
<1>4. s = <<>> \/ s = <<a>>
  OBVIOUS
<1>5. h.kind = "write" => s = <<a>>
  OBVIOUS
<1> HIDE DEF a, s
<1>6. Sendable(s)
  BY <1>2, <1>4 DEF Sendable
<1> QED BY <1>1, <1>2, <1>3, <1>5, <1>6, AnsweringKeeps

LEMMA NextKeeps == IInv /\ [Next]_vars => IInv'
<1> SUFFICES ASSUME IInv, [Next]_vars PROVE IInv'
  OBVIOUS
<1>1. ASSUME NEW w \in Windows, Poll(w) PROVE IInv'
  BY <1>1, PollKeeps
<1>2. ASSUME NEW w \in Windows, Arrives(w) PROVE IInv'
  BY <1>2, PolledKeeps, ChosenKeeps, ToldKeeps DEF Arrives
<1>3. ASSUME NEW w \in Windows, Reload(w) PROVE IInv'
  BY <1>3, ReloadKeeps
<1>4. ASSUME NEW w \in Windows, NEW c \in Characters \cup {None}, Choose(w, c) PROVE IInv'
  BY <1>4, ChooseKeeps
<1>5. ASSUME NEW w \in Windows, NEW t \in Tasks, Toggle(w, t) PROVE IInv'
  BY <1>5, ToggleKeeps
<1>6. ASSUME NEW w \in Windows, UseCharge(w) \/ UndoCharge(w) PROVE IInv'
  BY <1>6, ChargeKeeps
<1>7. CASE Saved
  BY <1>7, SavedKeeps
<1>8. CASE SaveFailed
  BY <1>8, SaveFailedKeeps
<1>9. CASE UNCHANGED vars
  <2>1. Typed'
    BY <1>9 DEF vars, IInv, Typed, TypeOK, AnswerSet
  <2>2. \A w \in Windows : Coherent(w)'
    BY <1>9 DEF vars, IInv, Coherent, Awaiting
  <2> QED BY <2>1, <2>2 DEF IInv
<1> QED BY <1>1, <1>2, <1>3, <1>4, <1>5, <1>6, <1>7, <1>8, <1>9 DEF Next

LEMMA IInvShows == IInv => TypeOK /\ ShownIsStored
<1> SUFFICES ASSUME IInv PROVE TypeOK /\ ShownIsStored
  OBVIOUS
<1>1. ASSUME NEW w \in Windows, Quiet(w), ~stale[w], wrote \subseteq {w}, shown[w] # None
      PROVE  shown[w] = Overview(shown[w].char)
  <2>1. saves \in Seq(SaveSet)
    BY DEF IInv, Typed, TypeOK, SaveSet
  <2>2. ~Awaiting(w)
    BY <1>1, <2>1 DEF Quiet, Awaiting
  <2>3. Settled(<<>>, shown[w], FALSE, done, used)
    <3>1. stale[w] = FALSE /\ replies[w] = <<>>
      BY <1>1 DEF IInv, Typed, TypeOK, Quiet
    <3> QED BY <1>1, <2>2, <3>1 DEF IInv, Coherent
  <2>4. Fresh(shown[w], done, used)
    BY <2>3 DEF Settled
  <2> QED BY <1>1, <2>4 DEF Fresh, Overview
<1> QED BY <1>1 DEF IInv, Typed, ShownIsStored

-----------------------------------------------------------------------------
(* Theorems.                                                                 *)

(* Every variable keeps its type: the uses of a charge never go below zero   *)
(* or above the clicks (the buttons go by the stacks shown, which may be     *)
(* old), and every answer is of a kind its window handles.                   *)
THEOREM TypeCorrect == Spec => []TypeOK
<1>1. IInv => TypeOK
  BY IInvShows
<1> QED BY <1>1, InitIInv, NextKeeps, PTL DEF Spec

(* A window at rest that alone has written, and whose last write was not     *)
(* refused, shows what is stored, for any number of clicks and failed saves  *)
(* in both windows (PlannerTodayPage.tsx, OverlayPlanner.tsx).               *)
THEOREM ShownIsStoredHolds == Spec => []ShownIsStored
<1>1. IInv => ShownIsStored
  BY IInvShows
<1> QED BY <1>1, InitIInv, NextKeeps, PTL DEF Spec
=============================================================================
