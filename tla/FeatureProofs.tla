---------------------------- MODULE FeatureProofs ----------------------------
(***************************************************************************)
(* The pages and books of the features, in the order of this module: the   *)
(* page of the notices, the web's today page with its recommendation, the  *)
(* page of the build scores, and the logbook with the price book.  Every   *)
(* property that a run of them checks is proved here.                      *)
(*                                                                         *)
(* The page of the notices first, for any number of notices, filters,      *)
(* clicks and failures: at rest the list is that of the filter and the     *)
(* page chosen.  The invariant says why: the request asked last is the one *)
(* for what is chosen, and nothing overtakes it.  On the web it is the     *)
(* only one left (feed.tsx, abort); on the desktop the answers come in     *)
(* order.                                                                  *)
(***************************************************************************)
EXTENDS NoticeFeed, BuildScore, WebPlanner, Ledger, FiniteSetTheorems, SequenceTheorems,
        WellFoundedInduction, TLAPS

FeedCalls == [asked : [filter : Filters, page : Int], answer : [total : Int]]

Asked ==
  /\ kind \in {"web", "desktop"}
  /\ filter \in Filters /\ page \in Int
  /\ flight \in Seq(FeedCalls)
  /\ kind = "web" => Len(flight) <= 1
  /\ flight # <<>> => flight[Len(flight)].asked = Current

FeedInv == Asked /\ ShowsTheChosen

(* The page asks for the first list.                                         *)
LEMMA FeedInitInv == FeedInit => FeedInv
<1> SUFFICES ASSUME FeedInit PROVE FeedInv
  OBVIOUS
<1> DEFINE first == [asked |-> Current, answer |-> NotYet]
<1>1. filter \in Filters /\ page \in Int /\ kind \in {"web", "desktop"}
  BY FeedAssumption DEF FeedInit
<1>2. first \in FeedCalls
  BY <1>1 DEF FeedCalls, Current, Request, NotYet
<1>3. flight = <<first>> /\ data = None
  BY DEF FeedInit
<1> HIDE DEF first
<1>4. flight \in Seq(FeedCalls) /\ Len(flight) = 1 /\ flight[1] = first /\ flight # <<>>
  BY <1>2, <1>3
<1> QED BY <1>1, <1>3, <1>4 DEF FeedInv, Asked, ShowsTheChosen, first

(* A click asks for what it chooses, last.                                   *)
LEMMA AskKeeps ==
  ASSUME FeedInv, NEW f \in Filters, NEW p \in Int, Ask(f, p)
  PROVE  FeedInv'
<1> DEFINE call == [asked |-> Request(f, p), answer |-> NotYet]
           before == IF kind = "web" THEN <<>> ELSE flight
<1>1. /\ filter' = f /\ page' = p /\ kind' = kind
      /\ flight' = Append(before, call)
  BY DEF Ask
<1>2. call \in FeedCalls
  BY DEF FeedCalls, Request, NotYet
<1>3. before \in Seq(FeedCalls) /\ (kind = "web" => Len(before) = 0)
  BY DEF FeedInv, Asked
<1>4. call.asked = Current'
  BY <1>1 DEF Current, Request
<1> HIDE DEF call, before
<1>5. /\ flight' \in Seq(FeedCalls) /\ Len(flight') = Len(before) + 1
      /\ flight' # <<>> /\ flight'[Len(flight')] = call
  BY <1>1, <1>2, <1>3
<1>6. Asked'
  BY <1>1, <1>3, <1>4, <1>5 DEF FeedInv, Asked
<1>7. ShowsTheChosen'
  BY <1>5 DEF ShowsTheChosen
<1> QED BY <1>6, <1>7 DEF FeedInv

(* A request that is handled keeps its place and what it asked for.          *)
LEMMA HandledKeeps ==
  ASSUME FeedInv, NEW i \in DOMAIN flight, NEW n \in Int,
         flight' = [flight EXCEPT ![i].answer = [total |-> n]],
         UNCHANGED <<kind, filter, page, data>>
  PROVE  FeedInv'
<1>1. flight \in Seq(FeedCalls) /\ i \in 1 .. Len(flight)
  BY DEF FeedInv, Asked
<1>2. [flight[i] EXCEPT !.answer = [total |-> n]] \in FeedCalls
  <2>1. flight[i] \in FeedCalls
    BY <1>1
  <2>2. [total |-> n] \in [total : Int]
    OBVIOUS
  <2> QED BY <2>1, <2>2 DEF FeedCalls
<1>3. /\ flight' \in Seq(FeedCalls) /\ Len(flight') = Len(flight)
      /\ \A j \in 1 .. Len(flight) : flight'[j].asked = flight[j].asked
  <2> DEFINE e == [flight[i] EXCEPT !.answer = [total |-> n]]
  <2>1. flight' = [flight EXCEPT ![i] = e]
    OBVIOUS
  <2>2. e \in FeedCalls /\ e.asked = flight[i].asked
    BY <1>1, <1>2 DEF FeedCalls
  <2> HIDE DEF e
  <2> QED BY <1>1, <2>1, <2>2
<1>4. flight' = <<>> <=> flight = <<>>
  BY <1>1, <1>3
<1>5. Asked'
  BY <1>1, <1>3, <1>4 DEF FeedInv, Asked, Current
<1>6. ShowsTheChosen'
  BY <1>4 DEF FeedInv, ShowsTheChosen, Current
<1> QED BY <1>5, <1>6 DEF FeedInv

(* An answer that arrives is that of the oldest request.                     *)
LEMMA ArrivesKeeps ==
  ASSUME FeedInv, NEW i \in DOMAIN flight, Arrives(i)
  PROVE  FeedInv'
<1>1. flight \in Seq(FeedCalls) /\ i \in 1 .. Len(flight) /\ filter' = filter /\ page' = page
  BY DEF FeedInv, Asked, Arrives
<1>2. i = 1
  BY <1>1 DEF FeedInv, Asked, Arrives
<1>3. flight' = SubSeq(flight, 1, 0) \o SubSeq(flight, 2, Len(flight))
  BY <1>2 DEF Arrives, RemoveAt
<1>4. /\ flight' \in Seq(FeedCalls) /\ Len(flight') = Len(flight) - 1
      /\ \A j \in 1 .. Len(flight) - 1 : flight'[j] = flight[j + 1]
  <2> DEFINE rest == SubSeq(flight, 2, Len(flight))
  <2>1. SubSeq(flight, 1, 0) = <<>>
    BY <1>1
  <2>2. /\ rest \in Seq(FeedCalls) /\ Len(rest) = Len(flight) - 1
        /\ \A j \in 1 .. Len(flight) - 1 : rest[j] = flight[j + 1]
    <3>1. flight # <<>>
      BY <1>1
    <3>2. rest = Tail(flight)
      BY <1>1, <3>1, TailIsSubSeq
    <3> QED BY <1>1, <3>1, <3>2, HeadTailProperties
  <2> HIDE DEF rest
  <2>3. <<>> \o rest = rest
    BY <2>2
  <2> QED BY <1>3, <2>1, <2>2, <2>3 DEF rest
<1>5. Asked'
  <2>1. flight' # <<>> => flight'[Len(flight')] = flight[Len(flight)]
    BY <1>1, <1>4
  <2>2. kind' = kind
    BY DEF Arrives
  <2> QED BY <1>1, <1>4, <2>1, <2>2 DEF FeedInv, Asked, Current
<1>6. ShowsTheChosen'
  <2>1. CASE flight' = <<>>
    <3>1. Len(flight) = 1
      BY <1>1, <1>4, <2>1
    <3>2. flight[1].asked = Current
      BY <1>1, <3>1 DEF FeedInv, Asked
    <3>3. data' # None => data'.asked = flight[1].asked
      BY <1>2 DEF Arrives
    <3> QED BY <1>1, <3>2, <3>3 DEF ShowsTheChosen, Current
  <2>2. CASE flight' # <<>>
    BY <2>2 DEF ShowsTheChosen
  <2> QED BY <2>1, <2>2
<1> QED BY <1>5, <1>6 DEF FeedInv

(* The notices a filter finds.                                               *)
Found(f) == {i \in Items : <<i, stored[i]>> \in Matches[f]}

(* The total of a list is a number.                                          *)
LEMMA TotalType ==
  ASSUME NEW f \in Filters
  PROVE  Total(f) \in Nat
<1>1. IsFiniteSet(Found(f))
  BY FeedAssumption, FS_Subset DEF Found
<1> QED BY <1>1, FS_CardinalityType DEF Total, Found

(* Every step keeps the invariant.                                           *)
LEMMA FeedStepInv == FeedInv /\ [FeedNext]_feedVars => FeedInv'
<1> SUFFICES ASSUME FeedInv, [FeedNext]_feedVars PROVE FeedInv'
  OBVIOUS
<1>1. ASSUME NEW n \in Items, NEW title \in Titles, Sync(n, title) PROVE FeedInv'
  BY <1>1 DEF Sync, pageState, FeedInv, Asked, ShowsTheChosen, Current
<1>2. ASSUME NEW f \in Filters, ChooseFilter(f) PROVE FeedInv'
  BY <1>2, AskKeeps DEF ChooseFilter
<1>3. CASE PrevPage \/ NextPage
  <2>1. filter \in Filters /\ page - 1 \in Int /\ page + 1 \in Int
    BY DEF FeedInv, Asked
  <2> QED BY <1>3, <2>1, AskKeeps DEF PrevPage, NextPage
<1>4. ASSUME NEW i \in DOMAIN flight, Handled(i) PROVE FeedInv'
  <2>1. flight[i].asked.filter \in Filters
    <3>1. flight[i] \in FeedCalls
      BY DEF FeedInv, Asked
    <3> QED BY <3>1 DEF FeedCalls
  <2>2. Total(flight[i].asked.filter) \in Int
    BY <2>1, TotalType
  <2> QED BY <1>4, <2>2, HandledKeeps DEF Handled, pageState
<1>5. ASSUME NEW i \in DOMAIN flight, NotHandled(i) PROVE FeedInv'
  <2>1. Failed = [total |-> -2] /\ -2 \in Int
    BY DEF Failed
  <2> QED BY <1>5, <2>1, HandledKeeps DEF NotHandled, pageState
<1>6. ASSUME NEW i \in DOMAIN flight, Arrives(i) PROVE FeedInv'
  BY <1>6, ArrivesKeeps
<1>7. CASE UNCHANGED feedVars
  BY <1>7 DEF feedVars, pageState, FeedInv, Asked, ShowsTheChosen, Current
<1> QED BY <1>1, <1>2, <1>3, <1>4, <1>5, <1>6, <1>7 DEF FeedNext

(* When no request is under way the list shown is that of the filter and the *)
(* page chosen, on the web and on the desktop (feed.tsx, FeedPage.tsx).      *)
THEOREM ShowsTheChosenHolds == FeedSpec => []ShowsTheChosen
<1>1. FeedInit => FeedInv
  BY FeedInitInv
<1>2. FeedInv /\ [FeedNext]_feedVars => FeedInv'
  BY FeedStepInv
<1>3. FeedInv => ShowsTheChosen
  BY DEF FeedInv
<1> QED BY <1>1, <1>2, <1>3, PTL DEF FeedSpec

-----------------------------------------------------------------------------
(* The page that exists.  The buttons go by the list shown, which may be old,*)
(* but the list of a filter that searches no text never shrinks: a page that *)
(* existed when it was counted exists in every later list of that filter.    *)

(* The pages of a list of n notices.                                         *)
PagesOf(n) == Max({1, (n + PageSize - 1) \div PageSize})

(* The greater of one and a number.                                          *)
LEMMA MaxWithOne ==
  ASSUME NEW x \in Int
  PROVE  Max({1, x}) = IF x > 1 THEN x ELSE 1
<1>1. \E m \in {1, x} : \A y \in {1, x} : m >= y
  OBVIOUS
<1>2. Max({1, x}) \in {1, x} /\ \A y \in {1, x} : Max({1, x}) >= y
  BY <1>1 DEF Max
<1> QED BY <1>2

(* Division is monotonic.                                                    *)
LEMMA DivGrows ==
  ASSUME NEW m \in Nat, NEW n \in Nat, m <= n, NEW k \in Nat \ {0}
  PROVE  /\ m \div k \in Int /\ n \div k \in Int
         /\ m \div k <= n \div k
<1> DEFINE a == m \div k
           b == n \div k
<1>1. a \in Int /\ b \in Int /\ m = k * a + (m % k) /\ n = k * b + (n % k)
  OBVIOUS
<1>2. m % k \in 0 .. k - 1 /\ n % k \in 0 .. k - 1
  OBVIOUS
<1> HIDE DEF a, b
<1>3. ASSUME b < a PROVE FALSE
  <2>1. b + 1 <= a
    BY <1>1, <1>3
  <2>2. k * (b + 1) <= k * a
    BY <1>1, <2>1
  <2>3. k * (b + 1) = k * b + k
    BY <1>1
  <2> QED BY <1>1, <1>2, <2>2, <2>3
<1> QED BY <1>1, <1>3 DEF a, b

(* A list that grows has no fewer pages, and always a first one.             *)
LEMMA PagesGrow ==
  ASSUME NEW m \in Nat, NEW n \in Nat, m <= n
  PROVE  /\ PagesOf(m) \in Nat /\ PagesOf(n) \in Nat
         /\ 1 <= PagesOf(m) /\ PagesOf(m) <= PagesOf(n)
<1> DEFINE q(k) == (k + PageSize - 1) \div PageSize
<1>1. m + PageSize - 1 \in Nat /\ n + PageSize - 1 \in Nat /\ m + PageSize - 1 <= n + PageSize - 1
  BY FeedAssumption
<1>2. q(m) \in Int /\ q(n) \in Int /\ q(m) <= q(n)
  BY <1>1, FeedAssumption, DivGrows
<1> HIDE DEF q
<1>3. /\ Max({1, q(m)}) = IF q(m) > 1 THEN q(m) ELSE 1
      /\ Max({1, q(n)}) = IF q(n) > 1 THEN q(n) ELSE 1
  BY <1>2, MaxWithOne
<1>4. PagesOf(m) = Max({1, q(m)}) /\ PagesOf(n) = Max({1, q(n)})
  BY DEF PagesOf, q
<1> QED BY <1>2, <1>3, <1>4

(* A sync makes no list shorter when no text is searched.                    *)
LEMMA TotalGrows ==
  ASSUME NEW f \in Filters, SearchesNoText(f), stored \in [Items -> Titles \cup {None}],
         NEW n \in Items, NEW title \in Titles, Sync(n, title)
  PROVE  Total(f) \in Nat /\ Total(f)' \in Nat /\ Total(f) <= Total(f)'
<1>1. IsFiniteSet(Found(f)) /\ IsFiniteSet(Found(f)')
  <2>1. Found(f) \subseteq Items /\ Found(f)' \subseteq Items
    BY DEF Found
  <2> QED BY <2>1, FeedAssumption, FS_Subset
<1>2. ASSUME NEW i \in Found(f) PROVE i \in Found(f)'
  <2>1. i \in Items /\ <<i, stored[i]>> \in Matches[f] /\ Matches[f] \subseteq Items \X Titles
    BY FeedAssumption DEF Found
  <2>2. stored[i] \in Titles
    BY <2>1
  <2>3. stored'[i] = IF i = n THEN title ELSE stored[i]
    BY <2>1 DEF Sync
  <2>4. <<i, stored'[i]>> \in Matches[f]
    BY <2>1, <2>2, <2>3 DEF SearchesNoText
  <2> QED BY <2>1, <2>4 DEF Found
<1>3. Cardinality(Found(f)) <= Cardinality(Found(f)')
  BY <1>1, <1>2, FS_Subset
<1>4. Cardinality(Found(f)) \in Nat /\ Cardinality(Found(f)') \in Nat
  BY <1>1, FS_CardinalityType
<1>5. Total(f) = Cardinality(Found(f)) /\ Total(f)' = Cardinality(Found(f)')
  BY DEF Total, Found
<1> QED BY <1>3, <1>4, <1>5

(* A list of n notices of the filter chosen has the page chosen.             *)
HasPage(n) == n \in Nat /\ n <= Total(filter) /\ page <= PagesOf(n)

PageInv ==
  /\ page >= 1
  /\ stored \in [Items -> Titles \cup {None}]
  /\ kind = "web" /\ ~loading => flight = <<>>
  /\ kind = "web" /\ SearchesNoText(filter) =>
       /\ page <= PagesOf(Total(filter))
       /\ flight # <<>> => flight[1].answer \in {NotYet, Failed} \/ HasPage(flight[1].answer.total)
       /\ flight = <<>> /\ data # None => HasPage(data.total)

(* A click on a page that exists keeps the invariant.                        *)
LEMMA AskPageInv ==
  ASSUME FeedInv, NEW f \in Filters, NEW p \in Int, Ask(f, p), p >= 1,
         stored \in [Items -> Titles \cup {None}],
         kind = "web" /\ SearchesNoText(f) => p <= PagesOf(Total(f))
  PROVE  PageInv'
<1> DEFINE call == [asked |-> Request(f, p), answer |-> NotYet]
<1>1. /\ filter' = f /\ page' = p /\ kind' = kind /\ loading' = TRUE /\ stored' = stored
      /\ kind = "web" => flight' = Append(<<>>, call)
  BY DEF Ask
<1>2. kind = "web" => flight' # <<>> /\ flight'[1] = call
  BY <1>1
<1>3. Total(filter)' = Total(f)
  <2>1. {i \in Items : <<i, stored'[i]>> \in Matches[filter']}
          = {i \in Items : <<i, stored[i]>> \in Matches[f]}
    BY <1>1
  <2> QED BY <2>1 DEF Total
<1>4. SearchesNoText(filter)' = SearchesNoText(f)
  BY <1>1 DEF SearchesNoText
<1> QED BY <1>1, <1>2, <1>3, <1>4 DEF PageInv

(* Every step keeps the page within the lists there are.                     *)
LEMMA PageStepInv ==
  ASSUME FeedInv, PageInv, [FeedNext]_feedVars
  PROVE  PageInv'
<1>0. /\ filter \in Filters /\ page \in Int /\ flight \in Seq(FeedCalls)
      /\ kind = "web" => Len(flight) <= 1
      /\ Total(filter) \in Nat
      /\ DOMAIN flight = 1 .. Len(flight) /\ Len(flight) \in Nat
  BY TotalType DEF FeedInv, Asked
<1>1. ASSUME NEW n \in Items, NEW title \in Titles, Sync(n, title) PROVE PageInv'
  <2>1. /\ stored' = [stored EXCEPT ![n] = title]
        /\ UNCHANGED <<kind, filter, page, data, loading, flight>>
    BY <1>1 DEF Sync, pageState
  <2>2. stored' \in [Items -> Titles \cup {None}] /\ page' >= 1
    BY <1>1, <2>1 DEF PageInv
  <2>3. (kind = "web" /\ ~loading => flight = <<>>)'
    BY <2>1 DEF PageInv
  <2>4. SearchesNoText(filter)' = SearchesNoText(filter)
    BY <2>1 DEF SearchesNoText
  <2>5. ASSUME kind = "web", SearchesNoText(filter)
        PROVE  /\ page <= PagesOf(Total(filter)')
               /\ \A m \in Int : HasPage(m) => HasPage(m)'
    <3>1. Total(filter)' \in Nat /\ Total(filter) <= Total(filter)'
      <4>1. /\ Total(filter) <= Cardinality({i \in Items : <<i, stored'[i]>> \in Matches[filter]})
            /\ Cardinality({i \in Items : <<i, stored'[i]>> \in Matches[filter]}) \in Nat
        BY <1>0, <1>1, <2>5, TotalGrows DEF PageInv, Total
      <4> QED BY <2>1, <4>1 DEF Total
    <3>2. /\ PagesOf(Total(filter)) <= PagesOf(Total(filter)') /\ PagesOf(Total(filter)) \in Nat
          /\ PagesOf(Total(filter)') \in Nat
      BY <1>0, <3>1, PagesGrow
    <3>3. page <= PagesOf(Total(filter))
      BY <2>5 DEF PageInv
    <3> QED BY <1>0, <2>1, <3>1, <3>2, <3>3 DEF HasPage
  <2>6. ASSUME kind = "web", SearchesNoText(filter)
        PROVE  /\ HasPage(flight[1].answer.total) => HasPage(flight[1].answer.total)'
               /\ HasPage(data.total) => HasPage(data.total)'
    BY <2>1, <2>5, <2>6 DEF HasPage
  <2> QED BY <2>1, <2>2, <2>3, <2>4, <2>5, <2>6 DEF PageInv
<1>2. ASSUME NEW f \in Filters, ChooseFilter(f) PROVE PageInv'
  <2>1. Total(f) \in Nat
    BY TotalType
  <2>2. 1 <= PagesOf(Total(f))
    BY <2>1, PagesGrow
  <2> QED BY <1>2, <2>2, AskPageInv DEF ChooseFilter, PageInv
<1>3. CASE PrevPage
  <2>1. PagesOf(Total(filter)) \in Nat
    BY <1>0, PagesGrow
  <2>2. /\ page - 1 \in Int /\ page - 1 >= 1
        /\ kind = "web" /\ SearchesNoText(filter) => page - 1 <= PagesOf(Total(filter))
    BY <1>0, <1>3, <2>1 DEF PrevPage, PageInv
  <2> QED BY <1>0, <1>3, <2>2, AskPageInv DEF PrevPage, PageInv
<1>4. CASE NextPage
  <2>1. ~loading /\ page < Pages(data) /\ Ask(filter, page + 1)
    BY <1>4 DEF NextPage
  <2>2. page + 1 \in Int /\ page + 1 >= 1 /\ page >= 1
    BY <1>0 DEF PageInv
  <2>3. ASSUME kind = "web", SearchesNoText(filter) PROVE page + 1 <= PagesOf(Total(filter))
    <3>1. data # None
      BY <2>1, <2>2, <1>0 DEF Pages
    <3>2. data.total \in Nat /\ data.total <= Total(filter)
      BY <2>1, <2>3, <3>1 DEF PageInv, HasPage
    <3>3. page < PagesOf(data.total)
      BY <2>1, <3>1 DEF Pages, PagesOf
    <3>4. /\ PagesOf(data.total) <= PagesOf(Total(filter))
          /\ PagesOf(data.total) \in Nat /\ PagesOf(Total(filter)) \in Nat
      BY <1>0, <3>2, PagesGrow
    <3> QED BY <1>0, <3>3, <3>4
  <2> QED BY <1>0, <2>1, <2>2, <2>3, AskPageInv DEF PageInv
<1>5. ASSUME NEW i \in DOMAIN flight, Handled(i) PROVE PageInv'
  <2>1. /\ flight' = [flight EXCEPT ![i].answer = [total |-> Total(flight[i].asked.filter)]]
        /\ UNCHANGED <<kind, stored, filter, page, data, loading>>
    BY <1>5 DEF Handled, pageState
  <2>2. ASSUME kind = "web" PROVE i = 1 /\ Len(flight) = 1 /\ flight[i].asked = Current
    BY <1>0, <2>2 DEF FeedInv, Asked
  <2>3. ASSUME kind = "web"
        PROVE  flight' # <<>> /\ flight # <<>> /\ flight'[1].answer = [total |-> Total(filter)]
    <3>1. flight[1] \in FeedCalls
      BY <1>0, <2>2, <2>3
    <3>2. flight[1].asked.filter = filter
      BY <2>2, <2>3 DEF Current, Request
    <3> QED BY <1>0, <2>1, <2>2, <2>3, <3>1, <3>2 DEF FeedCalls
  <2>4. Total(filter)' = Total(filter) /\ SearchesNoText(filter)' = SearchesNoText(filter)
    BY <2>1 DEF Total, SearchesNoText
  <2> QED BY <1>0, <2>1, <2>3, <2>4 DEF PageInv, HasPage
<1>6. ASSUME NEW i \in DOMAIN flight, NotHandled(i) PROVE PageInv'
  <2>1. /\ flight' = [flight EXCEPT ![i].answer = Failed]
        /\ UNCHANGED <<kind, stored, filter, page, data, loading>>
    BY <1>6 DEF NotHandled, pageState
  <2>2. ASSUME kind = "web"
        PROVE  flight' # <<>> /\ flight # <<>> /\ flight'[1].answer = Failed
    BY <1>0, <2>1, <2>2
  <2>3. Total(filter)' = Total(filter) /\ SearchesNoText(filter)' = SearchesNoText(filter)
    BY <2>1 DEF Total, SearchesNoText
  <2> QED BY <2>1, <2>2, <2>3 DEF PageInv, HasPage
<1>7. ASSUME NEW i \in DOMAIN flight, Arrives(i) PROVE PageInv'
  <2>1. /\ flight[i].answer # NotYet
        /\ data' = IF flight[i].answer = Failed THEN None
                   ELSE [asked |-> flight[i].asked, total |-> flight[i].answer.total]
        /\ flight' = RemoveAt(flight, i)
        /\ UNCHANGED <<kind, stored, filter, page>>
    BY <1>7 DEF Arrives
  <2>2. Total(filter)' = Total(filter) /\ SearchesNoText(filter)' = SearchesNoText(filter)
    BY <2>1 DEF Total, SearchesNoText
  <2>3. ASSUME kind = "web"
        PROVE  flight' = <<>> /\ (SearchesNoText(filter) /\ data' # None => HasPage(data.total)')
    <3>1. i = 1 /\ Len(flight) = 1 /\ flight # <<>>
      BY <1>0, <2>3
    <3>2. flight' = <<>>
      <4>1. flight' = SubSeq(flight, 1, 0) \o SubSeq(flight, 2, 1)
        BY <2>1, <3>1 DEF RemoveAt
      <4>2. SubSeq(flight, 1, 0) = <<>> /\ SubSeq(flight, 2, 1) = <<>>
        BY <1>0, <3>1
      <4> QED BY <4>1, <4>2
    <3>3. SearchesNoText(filter) /\ data' # None => HasPage(data'.total)
      BY <2>1, <2>3, <3>1 DEF PageInv
    <3> QED BY <2>1, <2>2, <3>2, <3>3 DEF HasPage
  <2> QED BY <2>1, <2>2, <2>3 DEF PageInv, HasPage
<1>8. CASE UNCHANGED feedVars
  BY <1>8 DEF feedVars, pageState, PageInv, HasPage, Total, SearchesNoText
<1> QED BY <1>1, <1>2, <1>3, <1>4, <1>5, <1>6, <1>7, <1>8 DEF FeedNext

(* The web's page never comes to rest on a page beyond the last of the list  *)
(* of a source, however filters and pages change, notices come in and        *)
(* answers are lost.                                                         *)
THEOREM PageExistsHolds == FeedSpec => []PageExists
<1>1. FeedInit => FeedInv /\ PageInv
  <2>1. ASSUME FeedInit PROVE PageInv
    <3>1. Total(filter) \in Nat
      BY <2>1, FeedAssumption, TotalType DEF FeedInit
    <3>2. 1 <= PagesOf(Total(filter))
      BY <3>1, PagesGrow
    <3>3. flight[1].answer = NotYet /\ flight # <<>>
      BY <2>1 DEF FeedInit
    <3> QED BY <2>1, <3>2, <3>3 DEF FeedInit, PageInv
  <2> QED BY <2>1, FeedInitInv
<1>2. FeedInv /\ PageInv /\ [FeedNext]_feedVars => FeedInv' /\ PageInv'
  BY FeedStepInv, PageStepInv
<1>3. PageInv => PageExists
  BY DEF PageInv, HasPage, PageExists, Pages, PagesOf
<1> QED BY <1>1, <1>2, <1>3, PTL DEF FeedSpec

-----------------------------------------------------------------------------
(* The planner of the web, for any characters, tasks, stacks and clicks.     *)

(* What is left of a sequence without its i-th element.                      *)
LEMMA RemoveShape ==
  ASSUME NEW S, NEW s \in Seq(S), NEW i \in 1 .. Len(s)
  PROVE  /\ RemoveAt(s, i) \in Seq(S)
         /\ Len(RemoveAt(s, i)) = Len(s) - 1
         /\ \A j \in 1 .. Len(s) - 1 : RemoveAt(s, i)[j] = IF j < i THEN s[j] ELSE s[j + 1]
<1> DEFINE a == SubSeq(s, 1, i - 1)
           b == SubSeq(s, i + 1, Len(s))
<1>1. Len(s) \in Nat /\ i \in Nat /\ i >= 1 /\ i <= Len(s)
  OBVIOUS
<1>2. /\ a \in Seq(S) /\ Len(a) = i - 1
      /\ \A j \in 1 .. i - 1 : a[j] = s[j]
  BY <1>1
<1>3. /\ b \in Seq(S) /\ Len(b) = Len(s) - i
      /\ \A j \in 1 .. Len(s) - i : b[j] = s[j + i]
  BY <1>1
<1>4. RemoveAt(s, i) = a \o b
  BY DEF RemoveAt
<1> HIDE DEF a, b
<1>5. /\ a \o b \in Seq(S) /\ Len(a \o b) = Len(a) + Len(b)
      /\ \A j \in 1 .. Len(a) + Len(b) : (a \o b)[j] = IF j <= Len(a) THEN a[j] ELSE b[j - Len(a)]
  BY <1>2, <1>3, ConcatProperties
<1>6. Len(a) + Len(b) = Len(s) - 1
  BY <1>1, <1>2, <1>3
<1>7. ASSUME NEW j \in 1 .. Len(s) - 1
      PROVE  (a \o b)[j] = IF j < i THEN s[j] ELSE s[j + 1]
  <2>1. CASE j < i
    <3>1. j \in 1 .. i - 1 /\ j <= Len(a) /\ j \in 1 .. Len(a) + Len(b)
      BY <1>1, <1>2, <1>6, <2>1
    <3> QED BY <1>2, <1>5, <2>1, <3>1
  <2>2. CASE ~(j < i)
    <3>1. /\ j - Len(a) \in 1 .. Len(s) - i /\ ~(j <= Len(a)) /\ j \in 1 .. Len(a) + Len(b)
          /\ j - Len(a) + i = j + 1
      BY <1>1, <1>2, <1>6, <2>2
    <3>2. b[j - Len(a)] = s[j + 1]
      BY <1>3, <3>1
    <3> QED BY <1>5, <2>2, <3>1, <3>2
  <2> QED BY <2>1, <2>2
<1> QED BY <1>4, <1>5, <1>6, <1>7

(* What is left, and a sequence that follows it.                             *)
Rest(s, i, t) == RemoveAt(s, i) \o t

(* The elements of s but one, in their order, and those of t.                *)
LEMMA RestShape ==
  ASSUME NEW S, NEW s \in Seq(S), NEW i \in DOMAIN s, NEW t \in Seq(S)
  PROVE  /\ Rest(s, i, t) \in Seq(S)
         /\ \E m, n \in Nat :
              /\ DOMAIN s = 1 .. m + 1 /\ DOMAIN t = 1 .. n /\ DOMAIN Rest(s, i, t) = 1 .. m + n
              /\ \A k \in 1 .. m + n :
                   Rest(s, i, t)[k] = IF k <= m THEN IF k < i THEN s[k] ELSE s[k + 1]
                                                ELSE t[k - m]
<1> DEFINE r == RemoveAt(s, i)
           w == Rest(s, i, t)
           m == Len(s) - 1
           n == Len(t)
<1>1. Len(s) \in Nat /\ n \in Nat /\ DOMAIN s = 1 .. Len(s) /\ DOMAIN t = 1 .. n
  OBVIOUS
<1>2. i \in Nat /\ i >= 1 /\ i <= Len(s) /\ m \in Nat /\ Len(s) = m + 1
  BY <1>1
<1>3. /\ r \in Seq(S) /\ Len(r) = m
      /\ \A j \in 1 .. m : r[j] = IF j < i THEN s[j] ELSE s[j + 1]
  BY <1>1, RemoveShape
<1>4. /\ w \in Seq(S) /\ Len(w) = Len(r) + n
      /\ \A k \in 1 .. Len(r) + n : w[k] = IF k <= Len(r) THEN r[k] ELSE t[k - Len(r)]
  <2> HIDE DEF r
  <2>1. r \in Seq(S) /\ w = r \o t
    BY <1>3 DEF r, Rest
  <2> HIDE DEF w
  <2> QED BY <2>1, ConcatProperties
<1> HIDE DEF r, w, m, n
<1>5. /\ DOMAIN w = 1 .. m + n
      /\ \A k \in 1 .. m + n : w[k] = IF k <= m THEN IF k < i THEN s[k] ELSE s[k + 1] ELSE t[k - m]
  <2>1. DOMAIN w = 1 .. Len(w)
    BY <1>4
  <2>2. ASSUME NEW k \in 1 .. m + n
        PROVE  w[k] = IF k <= m THEN IF k < i THEN s[k] ELSE s[k + 1] ELSE t[k - m]
    <3>1. w[k] = IF k <= m THEN r[k] ELSE t[k - m]
      BY <1>3, <1>4
    <3>2. k <= m => k \in 1 .. m
      BY <1>1, <1>2
    <3> QED BY <1>3, <3>1, <3>2
  <2> QED BY <1>3, <1>4, <2>1, <2>2
<1>6. DOMAIN s = 1 .. m + 1
  BY <1>1, <1>2
<1> QED BY <1>1, <1>2, <1>4, <1>5, <1>6 DEF w

(* The others stay in their order, and what follows comes after them.        *)
LEMMA RestOrder ==
  ASSUME NEW S, NEW s \in Seq(S), NEW i \in DOMAIN s, NEW t \in Seq(S),
         NEW w, w = Rest(s, i, t), NEW k \in DOMAIN w
  PROVE  \/ \E q \in DOMAIN t : w[k] = t[q]
         \/ \E j \in DOMAIN s :
              /\ j # i /\ w[k] = s[j]
              /\ \A g \in DOMAIN s : g > j /\ g # i => \E h \in DOMAIN w : h > k /\ w[h] = s[g]
              /\ \A q \in DOMAIN t : \E h \in DOMAIN w : h > k /\ w[h] = t[q]
<1>1. PICK m, n \in Nat :
      /\ DOMAIN s = 1 .. m + 1 /\ DOMAIN t = 1 .. n /\ DOMAIN w = 1 .. m + n
      /\ \A x \in 1 .. m + n :
           w[x] = IF x <= m THEN IF x < i THEN s[x] ELSE s[x + 1] ELSE t[x - m]
  BY RestShape
<1>2. i \in Nat /\ k \in Nat /\ k >= 1 /\ k <= m + n
  BY <1>1
<1>3. CASE k > m
  <2>1. k - m \in 1 .. n /\ w[k] = t[k - m]
    BY <1>1, <1>2, <1>3
  <2> QED BY <1>1, <2>1
<1>4. CASE k <= m
  <2> DEFINE j == IF k < i THEN k ELSE k + 1
  <2>1. j \in DOMAIN s /\ j # i /\ w[k] = s[j]
    BY <1>1, <1>2, <1>4
  <2>2. ASSUME NEW g \in DOMAIN s, g > j, g # i PROVE \E h \in DOMAIN w : h > k /\ w[h] = s[g]
    <3> DEFINE h == IF g < i THEN g ELSE g - 1
    <3>1. g \in Nat /\ g <= m + 1
      BY <1>1
    <3>2. h \in 1 .. m + n /\ h > k /\ h <= m
      BY <1>1, <1>2, <1>4, <2>2, <3>1
    <3>3. w[h] = s[g]
      BY <1>1, <1>2, <2>2, <3>1, <3>2
    <3> QED BY <1>1, <3>2, <3>3
  <2>3. ASSUME NEW q \in DOMAIN t PROVE \E h \in DOMAIN w : h > k /\ w[h] = t[q]
    <3>1. /\ m + q \in 1 .. m + n /\ m + q > k /\ ~(m + q <= m) /\ m + q - m = q
      BY <1>1, <1>4
    <3>2. w[m + q] = t[m + q - m]
      BY <1>1, <3>1
    <3> QED BY <1>1, <3>1, <3>2
  <2> HIDE DEF j
  <2> QED BY <2>1, <2>2, <2>3
<1> QED BY <1>1, <1>2, <1>3, <1>4

(* They are the other elements, those that follow, and nothing else.         *)
LEMMA RemoveThenAppend ==
  ASSUME NEW S, NEW s \in Seq(S), NEW i \in DOMAIN s, NEW t \in Seq(S),
         NEW w, w = Rest(s, i, t)
  PROVE  /\ w \in Seq(S)
         /\ \A j \in DOMAIN s : j # i => \E k \in DOMAIN w : w[k] = s[j]
         /\ \A j \in DOMAIN t : \E k \in DOMAIN w : w[k] = t[j]
         /\ \A k \in DOMAIN w : \/ \E j \in DOMAIN s : w[k] = s[j]
                                \/ \E j \in DOMAIN t : w[k] = t[j]
<1>4. PICK m, n \in Nat :
      /\ DOMAIN s = 1 .. m + 1 /\ DOMAIN t = 1 .. n /\ DOMAIN w = 1 .. m + n
      /\ \A k \in 1 .. m + n : w[k] = IF k <= m THEN IF k < i THEN s[k] ELSE s[k + 1] ELSE t[k - m]
  BY RestShape
<1>1. DOMAIN s = 1 .. m + 1 /\ DOMAIN t = 1 .. n
  BY <1>4
<1>2. i \in Nat /\ i >= 1 /\ i <= m + 1
  BY <1>1
<1>5. /\ DOMAIN w = 1 .. m + n
      /\ \A k \in 1 .. m + n : w[k] = IF k <= m THEN IF k < i THEN s[k] ELSE s[k + 1] ELSE t[k - m]
  BY <1>4
<1>6. ASSUME NEW j \in DOMAIN s, j # i PROVE \E k \in DOMAIN w : w[k] = s[j]
  <2>0. j \in 1 .. m + 1
    BY <1>1, <1>2
  <2>1. CASE j < i
    <3>1. j \in 1 .. m + n /\ j <= m
      BY <1>1, <1>2, <2>0, <2>1
    <3> QED BY <1>5, <2>1, <3>1
  <2>2. CASE j > i
    <3>1. j - 1 \in 1 .. m + n /\ j - 1 <= m /\ ~(j - 1 < i) /\ (j - 1) + 1 = j
      BY <1>1, <1>2, <2>0, <2>2
    <3>2. w[j - 1] = s[j]
      BY <1>5, <3>1
    <3> QED BY <1>5, <3>1, <3>2
  <2> QED BY <1>2, <1>6, <2>0, <2>1, <2>2
<1>7. ASSUME NEW j \in DOMAIN t PROVE \E k \in DOMAIN w : w[k] = t[j]
  <2>1. m + j \in 1 .. m + n /\ ~(m + j <= m) /\ m + j - m = j
    BY <1>1, <1>2
  <2>2. \A k \in 1 .. m + n : ~(k <= m) => w[k] = t[k - m]
    BY <1>5
  <2>3. w[m + j] = t[j]
    BY <1>1, <1>2, <2>1, <2>2
  <2> QED BY <1>5, <2>1, <2>3
<1>8. ASSUME NEW k \in DOMAIN w
      PROVE  (\E j \in DOMAIN s : w[k] = s[j]) \/ (\E j \in DOMAIN t : w[k] = t[j])
  <2>0. k \in 1 .. m + n
    BY <1>5
  <2>1. CASE k <= m
    <3>1. k \in 1 .. m + 1 /\ k + 1 \in 1 .. m + 1
      BY <1>1, <1>2, <2>0, <2>1
    <3>2. w[k] = IF k < i THEN s[k] ELSE s[k + 1]
      BY <1>5, <2>0, <2>1
    <3> QED BY <1>1, <3>1, <3>2
  <2>2. CASE ~(k <= m)
    <3>1. k - m \in 1 .. n
      BY <1>1, <1>2, <2>0, <2>2
    <3>2. w[k] = t[k - m]
      BY <1>5, <2>0, <2>2
    <3> QED BY <1>1, <3>1, <3>2
  <2> QED BY <2>1, <2>2
<1>9. w \in Seq(S)
  BY RestShape
<1> QED BY <1>6, <1>7, <1>8, <1>9

WebCalls ==
  [kind : {"reload"}, char : Characters, period : Nat, list : (SUBSET Tasks) \cup {None},
   times : BOOLEAN, late : BOOLEAN]
  \cup [kind : {"put", "delete"}, char : Characters, task : Templates, period : Nat]
  \cup [kind : {"use", "latest", "stacks"}, char : Characters]
  \cup [kind : {"undo"}, char : Characters, use : Int]
  \cup [kind : {"duration"}, char : Characters, task : Templates, for : Characters]

WebTyped ==
  /\ now \in Nat
  /\ uses \in [Characters -> Int]
  /\ calls \in Seq(WebCalls)
  /\ DOMAIN today = {"selected", "done", "stacks", "timer", "drawn", "picks"}
  /\ today.selected \in Characters /\ today.drawn \in Nat
  /\ today.timer = None \/ today.timer \in [task : Templates, for : Characters]
  /\ DOMAIN last = {"char", "period", "late", "stacks"}

(* The calls after a call is made: those there were, and it.                 *)
LEMMA CallAdds ==
  ASSUME calls \in Seq(WebCalls), NEW c \in WebCalls, Call(c)
  PROVE  /\ calls' \in Seq(WebCalls)
         /\ \A j \in DOMAIN calls : \E k \in DOMAIN calls' : calls'[k] = calls[j]
         /\ \E k \in DOMAIN calls' : calls'[k] = c
         /\ \A k \in DOMAIN calls' : calls'[k] = c \/ \E j \in DOMAIN calls : calls'[k] = calls[j]
<1>1. calls' = Append(calls, c)
  BY DEF Call
<1>2. /\ calls' \in Seq(WebCalls) /\ Len(calls') = Len(calls) + 1 /\ Len(calls) \in Nat
      /\ DOMAIN calls = 1 .. Len(calls) /\ DOMAIN calls' = 1 .. Len(calls) + 1
      /\ \A j \in 1 .. Len(calls) : calls'[j] = calls[j]
      /\ calls'[Len(calls) + 1] = c
  BY <1>1
<1>3. /\ \A j \in DOMAIN calls : j \in DOMAIN calls'
      /\ Len(calls) + 1 \in DOMAIN calls'
      /\ \A k \in DOMAIN calls' : k = Len(calls) + 1 \/ k \in DOMAIN calls
  BY <1>2
<1> QED BY <1>2, <1>3

(* The calls after the i-th has ended: the others, and what the page calls   *)
(* next.                                                                     *)
LEMMA ContinueAdds ==
  ASSUME calls \in Seq(WebCalls), NEW i \in DOMAIN calls, NEW next \in Seq(WebCalls),
         Continue(i, next)
  PROVE  /\ calls' \in Seq(WebCalls)
         /\ \A j \in DOMAIN calls : j # i => \E k \in DOMAIN calls' : calls'[k] = calls[j]
         /\ \A j \in DOMAIN next : \E k \in DOMAIN calls' : calls'[k] = next[j]
         /\ \A k \in DOMAIN calls' : \/ \E j \in DOMAIN calls : calls'[k] = calls[j]
                                     \/ \E j \in DOMAIN next : calls'[k] = next[j]
<1>1. calls' = Rest(calls, i, next)
  BY DEF Continue, Rest
<1> QED BY <1>1, RemoveThenAppend

(* A page that goes on with one call, or with none.                          *)
LEMMA ContinueWithOne ==
  ASSUME calls \in Seq(WebCalls), NEW i \in DOMAIN calls, NEW c \in WebCalls,
         Continue(i, <<c>>)
  PROVE  /\ calls' \in Seq(WebCalls)
         /\ \A j \in DOMAIN calls : j # i => \E k \in DOMAIN calls' : calls'[k] = calls[j]
         /\ \E k \in DOMAIN calls' : calls'[k] = c
         /\ \A k \in DOMAIN calls' : calls'[k] = c \/ \E j \in DOMAIN calls : calls'[k] = calls[j]
<1> DEFINE next == <<c>>
<1>1. next \in Seq(WebCalls) /\ DOMAIN next = {1} /\ next[1] = c
  OBVIOUS
<1>2. Continue(i, next)
  OBVIOUS
<1> HIDE DEF next
<1>3. /\ calls' \in Seq(WebCalls)
      /\ \A j \in DOMAIN calls : j # i => \E k \in DOMAIN calls' : calls'[k] = calls[j]
      /\ \A j \in DOMAIN next : \E k \in DOMAIN calls' : calls'[k] = next[j]
      /\ \A k \in DOMAIN calls' : \/ \E j \in DOMAIN calls : calls'[k] = calls[j]
                                  \/ \E j \in DOMAIN next : calls'[k] = next[j]
  BY <1>1, <1>2, ContinueAdds
<1> QED BY <1>1, <1>3

LEMMA ContinueWithNone ==
  ASSUME calls \in Seq(WebCalls), NEW i \in DOMAIN calls, Continue(i, <<>>)
  PROVE  /\ calls' \in Seq(WebCalls)
         /\ \A j \in DOMAIN calls : j # i => \E k \in DOMAIN calls' : calls'[k] = calls[j]
         /\ \A k \in DOMAIN calls' : \E j \in DOMAIN calls : calls'[k] = calls[j]
<1> DEFINE next == <<>>
<1>1. next \in Seq(WebCalls) /\ DOMAIN next = {}
  OBVIOUS
<1>2. Continue(i, next)
  OBVIOUS
<1> HIDE DEF next
<1> QED BY <1>1, <1>2, ContinueAdds

LEMMA ReloadTyped ==
  ASSUME now \in Nat, NEW c \in Characters
  PROVE  ReloadOf(c) \in WebCalls
<1>1. None \in (SUBSET Tasks) \cup {None}
  OBVIOUS
<1>2. ReloadOf(c) \in [kind : {"reload"}, char : Characters, period : Nat,
                      list : (SUBSET Tasks) \cup {None}, times : BOOLEAN, late : BOOLEAN]
  BY <1>1 DEF ReloadOf
<1> QED BY <1>2 DEF WebCalls

(* The calls the page makes.                                                 *)
LEMMA WebCallTypes ==
  ASSUME WebTyped
  PROVE  /\ \A c \in Characters : /\ ReloadOf(c) \in WebCalls
                                  /\ [kind |-> "stacks", char |-> c] \in WebCalls
                                  /\ [kind |-> "undo", char |-> c, use |-> uses[c]] \in WebCalls
         /\ \A i \in DOMAIN calls :
              /\ calls[i].char \in Characters
              /\ calls[i].kind = "reload" => calls[i].period \in Nat
<1>1. ASSUME NEW c \in Characters
      PROVE  /\ ReloadOf(c) \in WebCalls
             /\ [kind |-> "stacks", char |-> c] \in WebCalls
             /\ [kind |-> "undo", char |-> c, use |-> uses[c]] \in WebCalls
  <2>1. ReloadOf(c) \in WebCalls
    BY ReloadTyped DEF WebTyped
  <2>2. [kind |-> "stacks", char |-> c] \in WebCalls
    BY DEF WebCalls
  <2>3. uses[c] \in Int
    BY DEF WebTyped
  <2>4. [kind |-> "undo", char |-> c, use |-> uses[c]] \in WebCalls
    BY <2>3 DEF WebCalls
  <2> QED BY <2>1, <2>2, <2>4
<1>2. ASSUME NEW i \in DOMAIN calls
      PROVE  /\ calls[i].char \in Characters
             /\ calls[i].kind = "reload" => calls[i].period \in Nat
  <2>1. calls[i] \in WebCalls
    BY DEF WebTyped
  <2> QED BY <2>1 DEF WebCalls
<1> QED BY <1>1, <1>2

(* A reload stays one of the page's calls, whatever its stores answer.       *)
LEMMA ReloadFields ==
  ASSUME NEW c \in WebCalls, c.kind = "reload",
         NEW list \in (SUBSET Tasks) \cup {None}, NEW times \in BOOLEAN
  PROVE  /\ c.list \in (SUBSET Tasks) \cup {None} /\ c.times \in BOOLEAN
         /\ c.char \in Characters /\ c.period \in Nat /\ c.late \in BOOLEAN
         /\ [c EXCEPT !.late = TRUE] \in WebCalls
         /\ [[c EXCEPT !.list = list] EXCEPT !.times = times] \in WebCalls
<1>1. c \in [kind : {"reload"}, char : Characters, period : Nat, list : (SUBSET Tasks) \cup {None},
             times : BOOLEAN, late : BOOLEAN]
  BY DEF WebCalls
<1>2. /\ [c EXCEPT !.late = TRUE]
           \in [kind : {"reload"}, char : Characters, period : Nat, list : (SUBSET Tasks) \cup {None},
                times : BOOLEAN, late : BOOLEAN]
      /\ [[c EXCEPT !.list = list] EXCEPT !.times = times]
           \in [kind : {"reload"}, char : Characters, period : Nat, list : (SUBSET Tasks) \cup {None},
                times : BOOLEAN, late : BOOLEAN]
  BY <1>1
<1> QED BY <1>1, <1>2 DEF WebCalls

(* What a reload that is settled makes of the calls under way.               *)
LEMMA OvertakenShape ==
  ASSUME WebTyped, NEW i \in DOMAIN calls
  PROVE  /\ Overtaken(i) \in Seq(WebCalls) /\ DOMAIN Overtaken(i) = DOMAIN calls
         /\ \A j \in DOMAIN calls :
              /\ Overtaken(i)[j].kind = calls[j].kind /\ Overtaken(i)[j].char = calls[j].char
              /\ \/ /\ Overtaken(i)[j] = calls[j]
                    /\ ~(j < i /\ calls[j].kind = "reload" /\ calls[j].char = calls[i].char)
                 \/ Overtaken(i)[j].late = TRUE /\ calls[j].kind = "reload"
<1> DEFINE o == Overtaken(i)
<1>1. /\ calls \in Seq(WebCalls) /\ Len(calls) \in Nat /\ DOMAIN calls = 1 .. Len(calls)
      /\ DOMAIN o = DOMAIN calls
  BY DEF WebTyped, Overtaken
<1>2. ASSUME NEW j \in DOMAIN calls
      PROVE  /\ o[j] \in WebCalls
             /\ o[j].kind = calls[j].kind /\ o[j].char = calls[j].char
             /\ \/ /\ o[j] = calls[j]
                   /\ ~(j < i /\ calls[j].kind = "reload" /\ calls[j].char = calls[i].char)
                \/ o[j].late = TRUE /\ calls[j].kind = "reload"
  <2>1. calls[j] \in WebCalls
    BY <1>1
  <2>2. CASE j < i /\ calls[j].kind = "reload" /\ calls[j].char = calls[i].char
    <3>1. o[j] = [calls[j] EXCEPT !.late = TRUE]
      BY <2>2 DEF Overtaken
    <3>2. o[j] \in WebCalls
      BY <2>1, <2>2, <3>1, ReloadFields
    <3>3. DOMAIN calls[j] = {"kind", "char", "period", "list", "times", "late"}
      BY <2>1, <2>2 DEF WebCalls
    <3>4. o[j].kind = calls[j].kind /\ o[j].char = calls[j].char /\ o[j].late = TRUE
      BY <3>1, <3>3
    <3> QED BY <2>2, <3>2, <3>4
  <2>3. CASE ~(j < i /\ calls[j].kind = "reload" /\ calls[j].char = calls[i].char)
    <3>1. o[j] = calls[j]
      BY <2>3 DEF Overtaken
    <3> QED BY <2>1, <2>3, <3>1
  <2> QED BY <2>2, <2>3
<1>3. o \in Seq(WebCalls)
  <2>1. o = [j \in 1 .. Len(calls) |-> o[j]]
    BY <1>1 DEF Overtaken
  <2> HIDE DEF o
  <2>2. o \in [1 .. Len(calls) -> WebCalls]
    BY <1>1, <1>2, <2>1
  <2> QED BY <1>1, <2>2, SeqDef
<1> QED BY <1>1, <1>2, <1>3

(* One of the two stores has answered.                                       *)
LEMMA AnswerEffect ==
  ASSUME WebTyped, NEW i \in DOMAIN calls, ListRead(i) \/ TimesRead(i)
  PROVE  /\ calls[i].kind = "reload" /\ UNCHANGED database
         /\ \E list \in (SUBSET Tasks) \cup {None} :
              /\ list = calls[i].list \/ list = Done(calls[i].char, calls[i].period)
              /\ \/ \E times \in BOOLEAN :
                      /\ calls' = [calls EXCEPT ![i] = [[@ EXCEPT !.list = list] EXCEPT !.times = times]]
                      /\ UNCHANGED <<today, last>>
                 \/ list # None /\ Reloaded(i, list)
<1>1. calls[i].kind = "reload"
  BY DEF ListRead, TimesRead
<1>2. /\ calls \in Seq(WebCalls)
      /\ calls[i].list \in (SUBSET Tasks) \cup {None} /\ calls[i].times \in BOOLEAN
  <2>1. calls \in Seq(WebCalls) /\ calls[i] \in WebCalls
    BY DEF WebTyped
  <2> QED BY <1>1, <2>1, ReloadFields
<1>3. Done(calls[i].char, calls[i].period) \in SUBSET Tasks
  BY DEF Done
<1>4. PICK list \in (SUBSET Tasks) \cup {None}, times \in BOOLEAN :
        /\ list = calls[i].list \/ list = Done(calls[i].char, calls[i].period)
        /\ Answered(i, list, times)
  BY <1>2, <1>3 DEF ListRead, TimesRead
<1>5. /\ \/ calls' = [calls EXCEPT ![i].list = list, ![i].times = times] /\ UNCHANGED <<today, last>>
         \/ list # None /\ Reloaded(i, list)
      /\ UNCHANGED database
  BY <1>4 DEF Answered
<1>6. [calls EXCEPT ![i].list = list, ![i].times = times]
        = [calls EXCEPT ![i] = [[@ EXCEPT !.list = list] EXCEPT !.times = times]]
  BY <1>2
<1> QED BY <1>1, <1>4, <1>5, <1>6

(* It adds no call but the reading of the stacks.                            *)
LEMMA AnswerTyped ==
  ASSUME WebTyped, NEW i \in DOMAIN calls, ListRead(i) \/ TimesRead(i)
  PROVE  /\ calls' \in Seq(WebCalls)
         /\ \A k \in DOMAIN calls' : \/ calls'[k].kind \in {"reload", "stacks"}
                                     \/ \E j \in DOMAIN calls : calls'[k] = calls[j]
<1>1. calls \in Seq(WebCalls) /\ calls[i] \in WebCalls /\ calls[i].kind = "reload"
  <2>1. calls[i].kind = "reload"
    BY AnswerEffect
  <2> QED BY <2>1 DEF WebTyped
<1>2. PICK list \in (SUBSET Tasks) \cup {None} :
        \/ \E times \in BOOLEAN :
             calls' = [calls EXCEPT ![i] = [[@ EXCEPT !.list = list] EXCEPT !.times = times]]
        \/ Reloaded(i, list)
  BY AnswerEffect
<1>3. CASE \E times \in BOOLEAN :
             calls' = [calls EXCEPT ![i] = [[@ EXCEPT !.list = list] EXCEPT !.times = times]]
  <2>1. PICK times \in BOOLEAN :
          calls' = [calls EXCEPT ![i] = [[@ EXCEPT !.list = list] EXCEPT !.times = times]]
    BY <1>3
  <2> DEFINE c == [[calls[i] EXCEPT !.list = list] EXCEPT !.times = times]
  <2>2. c \in WebCalls /\ calls' = [calls EXCEPT ![i] = c]
    BY <1>1, <2>1, ReloadFields
  <2>3. c.kind = "reload"
    <3>1. DOMAIN calls[i] = {"kind", "char", "period", "list", "times", "late"}
      BY <1>1 DEF WebCalls
    <3> QED BY <1>1, <3>1
  <2> HIDE DEF c
  <2>4. calls' \in Seq(WebCalls) /\ DOMAIN calls' = DOMAIN calls
        /\ \A k \in DOMAIN calls : calls'[k] = IF k = i THEN c ELSE calls[k]
    BY <1>1, <2>2
  <2> QED BY <2>3, <2>4
<1>4. CASE Reloaded(i, list)
  <2> DEFINE o == Overtaken(i)
             s == [kind |-> "stacks", char |-> calls[i].char]
             next == <<s>>
  <2>1. s \in WebCalls
    BY <1>1, ReloadFields DEF WebCalls
  <2>2. /\ o \in Seq(WebCalls) /\ DOMAIN o = DOMAIN calls
        /\ \A j \in DOMAIN calls : o[j] = calls[j] \/ o[j].kind = "reload"
    BY OvertakenShape
  <2>3. next \in Seq(WebCalls) /\ DOMAIN next = {1} /\ next[1] = s
    BY <2>1
  <2>4. s.kind = "stacks"
    OBVIOUS
  <2>5. calls' = Rest(o, i, next)
    <3>1. calls' = Append(RemoveAt(o, i), s)
      BY <1>4 DEF Reloaded
    <3>2. RemoveAt(o, i) \in Seq(WebCalls)
      <4>1. i \in 1 .. Len(o)
        BY <2>2
      <4> HIDE DEF o
      <4> QED BY <2>2, <4>1, RemoveShape
    <3> HIDE DEF o, s
    <3>3. \A r \in Seq(WebCalls) : Append(r, s) = r \o <<s>>
      BY <2>1, AppendIsConcat
    <3> QED BY <3>1, <3>2, <3>3 DEF Rest
  <2> HIDE DEF o, s, next
  <2>6. /\ calls' \in Seq(WebCalls)
        /\ \A k \in DOMAIN calls' : \/ \E j \in DOMAIN o : calls'[k] = o[j]
                                    \/ \E j \in DOMAIN next : calls'[k] = next[j]
    BY <2>2, <2>3, <2>5, RemoveThenAppend
  <2> QED BY <2>2, <2>3, <2>4, <2>6
<1> QED BY <1>2, <1>3, <1>4

(* The steps: a click, or the end of one call.                               *)
LEMMA WebStepCases ==
  ASSUME [WebNext]_webVars
  PROVE  \/ UNCHANGED webVars
         \/ Tick
         \/ \E c \in Characters : SelectCharacter(c)
         \/ \E t \in Tasks : ToggleCompletion(t)
         \/ \E t \in Templates : StartTimer(t)
         \/ UseCharge \/ UndoCharge \/ StopTimer
         \/ \E b \in Budgets : ApplyRecommendation(b)
         \/ \E i \in DOMAIN calls :
              /\ UNCHANGED <<now, inputs>>
              /\ \/ ToggleStored(i) \/ UseStored(i) \/ LatestFound(i) \/ UndoStored(i)
                 \/ DurationStored(i) \/ ListRead(i) \/ TimesRead(i) \/ StacksRead(i)
  BY Zenon DEF WebNext, CallEnds

(* Typed: the page's steps.                                                  *)
LEMMA WebClickTyped ==
  ASSUME WebTyped,
         \/ Tick
         \/ \E c \in Characters : SelectCharacter(c)
         \/ \E t \in Tasks : ToggleCompletion(t)
         \/ \E t \in Templates : StartTimer(t)
         \/ UseCharge \/ UndoCharge \/ StopTimer
         \/ \E b \in Budgets : ApplyRecommendation(b)
  PROVE  WebTyped'
<1> USE DEF WebTyped
<1>1. CASE Tick
  BY <1>1 DEF Tick, database
<1>2. ASSUME NEW c \in Characters, SelectCharacter(c) PROVE WebTyped'
  <2>1. calls' \in Seq(WebCalls)
    <3>1. Call(ReloadOf(c)) /\ ReloadOf(c) \in WebCalls
      BY <1>2, WebCallTypes DEF SelectCharacter
    <3> QED BY <3>1, CallAdds
  <2> QED BY <1>2, <2>1 DEF SelectCharacter, Draw, database
<1>3. ASSUME NEW t \in Tasks, ToggleCompletion(t) PROVE WebTyped'
  <2> DEFINE c == [kind |-> IF t \in today.done THEN "delete" ELSE "put",
                   char |-> today.selected, task |-> t, period |-> today.drawn]
  <2>1. c \in WebCalls
    <3>1. t \in Templates
      BY DEF Templates
    <3> QED BY <3>1 DEF WebCalls
  <2> HIDE DEF c
  <2>2. calls' \in Seq(WebCalls)
    <3>1. Call(c)
      BY <1>3 DEF ToggleCompletion, c
    <3> QED BY <2>1, <3>1, CallAdds
  <2> QED BY <1>3, <2>2 DEF ToggleCompletion, database
<1>4. ASSUME NEW t \in Templates, StartTimer(t) PROVE WebTyped'
  <2>1. today' = [[today EXCEPT !.timer = [task |-> t, for |-> today.selected]] EXCEPT !.drawn = now]
    BY <1>4 DEF StartTimer, Draw
  <2>2. /\ today'.timer = [task |-> t, for |-> today.selected]
        /\ today'.selected = today.selected /\ today'.drawn = now
        /\ DOMAIN today' = DOMAIN today
    BY <2>1
  <2>3. today'.timer \in [task : Templates, for : Characters]
    BY <2>2
  <2> QED BY <1>4, <2>2, <2>3 DEF StartTimer, database
<1>5. CASE UseCharge \/ UndoCharge
  <2> DEFINE c(k) == [kind |-> k, char |-> today.selected]
  <2>1. \A k \in {"use", "latest"} : c(k) \in WebCalls
    BY DEF WebCalls
  <2> HIDE DEF c
  <2>2. calls' \in Seq(WebCalls)
    <3>1. PICK k \in {"use", "latest"} : Call(c(k))
      BY <1>5 DEF UseCharge, UndoCharge, c
    <3> QED BY <2>1, <3>1, CallAdds
  <2> QED BY <1>5, <2>2 DEF UseCharge, UndoCharge, database
<1>6. CASE StopTimer
  <2> DEFINE c == [kind |-> "duration", char |-> today.selected,
                   task |-> today.timer.task, for |-> today.timer.for]
  <2>1. c \in WebCalls
    <3>1. today.timer \in [task : Templates, for : Characters]
      BY <1>6 DEF StopTimer
    <3> QED BY <3>1 DEF WebCalls
  <2> HIDE DEF c
  <2>2. calls' \in Seq(WebCalls)
    <3>1. Call(c)
      BY <1>6 DEF StopTimer, c
    <3> QED BY <2>1, <3>1, CallAdds
  <2> QED BY <1>6, <2>2 DEF StopTimer, database
<1>7. ASSUME NEW b \in Budgets, ApplyRecommendation(b) PROVE WebTyped'
  BY <1>7 DEF ApplyRecommendation, Draw, database
<1> QED BY <1>1, <1>2, <1>3, <1>4, <1>5, <1>6, <1>7

(* Typed: the ends of the calls.                                             *)
LEMMA WebCallEndTyped ==
  ASSUME WebTyped, NEW i \in DOMAIN calls, UNCHANGED <<now, inputs>>,
         \/ ToggleStored(i) \/ UseStored(i) \/ LatestFound(i) \/ UndoStored(i)
         \/ DurationStored(i) \/ ListRead(i) \/ TimesRead(i) \/ StacksRead(i)
  PROVE  WebTyped'
<1> DEFINE c == calls[i].char
<1>1. /\ calls \in Seq(WebCalls) /\ c \in Characters /\ ReloadOf(c) \in WebCalls
      /\ [kind |-> "stacks", char |-> c] \in WebCalls
      /\ [kind |-> "undo", char |-> c, use |-> uses[c]] \in WebCalls
      /\ calls[i].kind = "reload" => calls[i].period \in Nat
  BY WebCallTypes DEF WebTyped
<1>2. calls' \in Seq(WebCalls)
  <2>1. CASE Continue(i, <<ReloadOf(c)>>)
    BY <1>1, <2>1, ContinueWithOne
  <2>3. CASE Continue(i, <<[kind |-> "undo", char |-> c, use |-> uses[c]]>>)
    BY <1>1, <2>3, ContinueWithOne
  <2>6. CASE ListRead(i) \/ TimesRead(i)
    BY <2>6, AnswerTyped
  <2>4. CASE Continue(i, <<>>)
    BY <1>1, <2>4, ContinueWithNone
  <2>5. LatestFound(i) => \/ Continue(i, <<>>)
                          \/ Continue(i, <<[kind |-> "undo", char |-> c, use |-> uses[c]]>>)
    BY DEF LatestFound
  <2> QED BY <2>1, <2>3, <2>4, <2>5, <2>6
          DEF ToggleStored, UseStored, UndoStored, DurationStored, StacksRead
<1>3. CASE ToggleStored(i)
  BY <1>2, <1>3 DEF ToggleStored, WebTyped
<1>4. CASE UseStored(i) \/ UndoStored(i)
  <2>1. uses' \in [Characters -> Int]
    <3>1. \/ uses' = [uses EXCEPT ![c] = @ + 1]
          \/ uses' = [uses EXCEPT ![c] = @ - 1]
          \/ uses' = [uses EXCEPT ![c] = @]
      BY <1>4 DEF UseStored, UndoStored
    <3> QED BY <1>1, <3>1 DEF WebTyped
  <2> QED BY <1>2, <1>4, <2>1 DEF UseStored, UndoStored, WebTyped
<1>5. CASE LatestFound(i)
  BY <1>2, <1>5 DEF LatestFound, WebTyped, database
<1>6. CASE DurationStored(i) \/ StacksRead(i)
  <2>1. /\ DOMAIN today' = DOMAIN today /\ today'.selected = today.selected
        /\ today'.drawn = now /\ today'.timer \in {None, today.timer}
    BY <1>6 DEF DurationStored, StacksRead, Draw, WebTyped
  <2>2. DOMAIN last' = DOMAIN last
    BY <1>6 DEF DurationStored, StacksRead
  <2>3. uses' = uses
    BY <1>6 DEF DurationStored, StacksRead, database
  <2> QED BY <1>2, <2>1, <2>2, <2>3 DEF WebTyped
<1>7. CASE ListRead(i) \/ TimesRead(i)
  <2>1. PICK list : UNCHANGED <<today, last>> \/ Reloaded(i, list)
    BY <1>7, AnswerEffect
  <2>2. /\ DOMAIN today' = DOMAIN today /\ today'.selected = today.selected
        /\ today'.drawn \in {now, today.drawn} /\ today'.timer = today.timer
    BY <2>1 DEF Reloaded, Draw, WebTyped
  <2>3. DOMAIN last' = DOMAIN last
    BY <2>1 DEF Reloaded
  <2>4. uses' = uses
    BY <1>7, AnswerEffect DEF database
  <2> QED BY <1>2, <2>2, <2>3, <2>4 DEF WebTyped
<1> QED BY <1>3, <1>4, <1>5, <1>6, <1>7

(* Every step keeps the types; they hold at the start.                       *)
LEMMA WebTypedKept ==
  /\ WebInit => WebTyped
  /\ WebTyped /\ [WebNext]_webVars => WebTyped'
<1>1. WebInit => WebTyped
  <2> SUFFICES ASSUME WebInit PROVE WebTyped
    OBVIOUS
  <2>1. now = 0 /\ uses = [c \in Characters |-> 0]
    BY DEF WebInit
  <2>2. PICK c \in Characters :
          /\ today = [selected |-> c, done |-> {}, stacks |-> None, timer |-> None,
                      drawn |-> 0, picks |-> None]
          /\ calls = <<ReloadOf(c)>>
          /\ last = [char |-> c, period |-> 0, late |-> FALSE, stacks |-> c]
    BY DEF WebInit
  <2>3. ReloadOf(c) \in WebCalls
    BY <2>1, ReloadTyped
  <2>4. calls \in Seq(WebCalls)
    BY <2>2, <2>3
  <2> QED BY <2>1, <2>2, <2>4 DEF WebTyped
<1>2. ASSUME WebTyped, [WebNext]_webVars PROVE WebTyped'
  <2>1. CASE UNCHANGED webVars
    BY <1>2, <2>1 DEF webVars, WebTyped, database
  <2> QED BY <1>2, <2>1, WebStepCases, WebClickTyped, WebCallEndTyped
<1> QED BY <1>1, <1>2

-----------------------------------------------------------------------------
(* The timer and the character it was started for go together from the click *)
(* that starts it to the end of the call that stores its duration.           *)
TimedInv ==
  /\ WebTyped
  /\ today.timer # None => today.timer.for = today.selected
  /\ \A i \in DOMAIN calls : calls[i].kind = "duration" => calls[i].char = calls[i].for
  /\ TimedForTheSelected

LEMMA TimedStep ==
  ASSUME TimedInv, [WebNext]_webVars
  PROVE  TimedInv'
<1>0. WebTyped /\ WebTyped'
  BY WebTypedKept DEF TimedInv
<1> DEFINE Calls == \A i \in DOMAIN calls : calls[i].kind = "duration" => calls[i].char = calls[i].for
<1>1. Calls'
  <2>1. ASSUME NEW c \in WebCalls, Call(c), c.kind = "duration" => c.char = c.for
        PROVE  Calls'
    <3>1. \A k \in DOMAIN calls' : calls'[k] = c \/ \E j \in DOMAIN calls : calls'[k] = calls[j]
      BY <1>0, <2>1, CallAdds DEF WebTyped
    <3> QED BY <2>1, <3>1 DEF TimedInv
  <2>2. ASSUME NEW i \in DOMAIN calls, NEW c \in WebCalls, Continue(i, <<c>>), c.kind # "duration"
        PROVE  Calls'
    <3>1. \A k \in DOMAIN calls' : calls'[k] = c \/ \E j \in DOMAIN calls : calls'[k] = calls[j]
      BY <1>0, <2>2, ContinueWithOne DEF WebTyped
    <3> QED BY <2>2, <3>1 DEF TimedInv
  <2>3. ASSUME NEW i \in DOMAIN calls, Continue(i, <<>>)
        PROVE  Calls'
    <3>1. \A k \in DOMAIN calls' : \E j \in DOMAIN calls : calls'[k] = calls[j]
      BY <1>0, <2>3, ContinueWithNone DEF WebTyped
    <3> QED BY <3>1 DEF TimedInv
  <2>4. ASSUME UNCHANGED calls PROVE Calls'
    BY <2>4 DEF TimedInv
  <2>5. /\ today.selected \in Characters /\ today.drawn \in Nat
        /\ today.timer # None => today.timer \in [task : Templates, for : Characters]
    BY <1>0 DEF WebTyped
  <2>6. ASSUME NEW c \in Characters, SelectCharacter(c) PROVE Calls'
    <3>1. Call(ReloadOf(c)) /\ ReloadOf(c) \in WebCalls /\ ReloadOf(c).kind = "reload"
      BY <1>0, <2>6, WebCallTypes DEF SelectCharacter, ReloadOf
    <3> QED BY <2>1, <3>1
  <2>7. ASSUME NEW t \in Tasks, ToggleCompletion(t) PROVE Calls'
    <3> DEFINE c == [kind |-> IF t \in today.done THEN "delete" ELSE "put",
                     char |-> today.selected, task |-> t, period |-> today.drawn]
    <3>1. c \in WebCalls /\ c.kind # "duration"
      <4>1. t \in Templates
        BY DEF Templates
      <4> QED BY <2>5, <4>1 DEF WebCalls
    <3>2. Call(c)
      BY <2>7 DEF ToggleCompletion
    <3> HIDE DEF c
    <3> QED BY <2>1, <3>1, <3>2
  <2>8. ASSUME UseCharge \/ UndoCharge PROVE Calls'
    <3> DEFINE c(k) == [kind |-> k, char |-> today.selected]
    <3>1. \A k \in {"use", "latest"} : c(k) \in WebCalls /\ c(k).kind # "duration"
      BY <2>5 DEF WebCalls
    <3>2. PICK k \in {"use", "latest"} : Call(c(k))
      BY <2>8 DEF UseCharge, UndoCharge
    <3> HIDE DEF c
    <3> QED BY <2>1, <3>1, <3>2
  <2>9. ASSUME StopTimer PROVE Calls'
    <3> DEFINE c == [kind |-> "duration", char |-> today.selected,
                     task |-> today.timer.task, for |-> today.timer.for]
    <3>1. c \in WebCalls /\ c.char = c.for
      <4>1. today.timer # None
        BY <2>9 DEF StopTimer
      <4> QED BY <2>5, <4>1 DEF WebCalls, TimedInv
    <3>2. Call(c)
      BY <2>9 DEF StopTimer
    <3> HIDE DEF c
    <3> QED BY <2>1, <3>1, <3>2
  <2>10. ASSUME NEW i \in DOMAIN calls,
                \/ ToggleStored(i) \/ UseStored(i) \/ LatestFound(i) \/ UndoStored(i)
                \/ DurationStored(i) \/ ListRead(i) \/ TimesRead(i) \/ StacksRead(i)
         PROVE  Calls'
    <3> DEFINE c == calls[i].char
               u == [kind |-> "undo", char |-> c, use |-> uses[c]]
               r == ReloadOf(c)
    <3>1. /\ u \in WebCalls /\ r \in WebCalls
          /\ u.kind # "duration" /\ r.kind # "duration"
      BY <1>0, WebCallTypes DEF ReloadOf
    <3>2. CASE ListRead(i) \/ TimesRead(i)
      BY <1>0, <3>2, AnswerTyped DEF TimedInv
    <3>3. \/ Continue(i, <<r>>) \/ Continue(i, <<u>>) \/ Continue(i, <<>>)
          \/ ListRead(i) \/ TimesRead(i)
      BY <2>10 DEF ToggleStored, UseStored, LatestFound, UndoStored, DurationStored, StacksRead
    <3> HIDE DEF u, r, Calls
    <3> QED BY <2>2, <2>3, <3>1, <3>2, <3>3
  <2>11. ASSUME \/ Tick
                \/ UNCHANGED webVars
                \/ \E t \in Templates : StartTimer(t)
                \/ \E b \in Budgets : ApplyRecommendation(b)
         PROVE  Calls'
    BY <2>4, <2>11 DEF Tick, webVars, StartTimer, ApplyRecommendation
  <2> HIDE DEF Calls
  <2> QED BY <2>6, <2>7, <2>8, <2>9, <2>10, <2>11, WebStepCases
<1>2. (today.timer # None => today.timer.for = today.selected)'
  <2>1. ASSUME NEW c \in Characters, SelectCharacter(c)
        PROVE  today'.timer = None
    BY <1>0, <2>1 DEF SelectCharacter, Draw, WebTyped
  <2>2. ASSUME NEW t \in Templates, StartTimer(t)
        PROVE  today'.timer.for = today'.selected
    BY <1>0, <2>2 DEF StartTimer, Draw, WebTyped
  <2>3. ASSUME \/ \E b \in Budgets : ApplyRecommendation(b)
               \/ \E i \in DOMAIN calls : StacksRead(i) \/ \E list : Reloaded(i, list)
        PROVE  today'.timer = today.timer /\ today'.selected = today.selected
    BY <1>0, <2>3 DEF ApplyRecommendation, Reloaded, StacksRead, Draw, WebTyped
  <2>7. ASSUME NEW i \in DOMAIN calls, ListRead(i) \/ TimesRead(i)
        PROVE  today' = today \/ \E list : Reloaded(i, list)
    BY <1>0, <2>7, AnswerEffect
  <2>4. ASSUME NEW i \in DOMAIN calls, DurationStored(i)
        PROVE  today'.timer = None
    BY <1>0, <2>4 DEF DurationStored, Draw, WebTyped
  <2>5. ASSUME \/ Tick \/ UNCHANGED webVars \/ UseCharge \/ UndoCharge \/ StopTimer
               \/ \E t \in Tasks : ToggleCompletion(t)
               \/ \E i \in DOMAIN calls : \/ ToggleStored(i) \/ UseStored(i)
                                          \/ LatestFound(i) \/ UndoStored(i)
        PROVE  today' = today
    BY <2>5 DEF Tick, webVars, UseCharge, UndoCharge, StopTimer, ToggleCompletion,
                ToggleStored, UseStored, LatestFound, UndoStored
  <2>6. today.timer # None => today.timer.for = today.selected
    BY DEF TimedInv
  <2> QED BY <2>1, <2>2, <2>3, <2>4, <2>5, <2>6, <2>7, WebStepCases
<1>3. TimedForTheSelected'
  <2>1. ASSUME NEW i \in DOMAIN calls, DurationStored(i)
        PROVE  TimedForTheSelected'
    <3> DEFINE d == [char |-> calls[i].char, task |-> calls[i].task, for |-> calls[i].for]
    <3>1. durations' = durations \cup {d} /\ d.char = d.for
      BY <2>1 DEF DurationStored, TimedInv
    <3> HIDE DEF d
    <3> QED BY <3>1 DEF TimedInv, TimedForTheSelected
  <2>2. ASSUME \/ Tick \/ UNCHANGED webVars \/ UseCharge \/ UndoCharge \/ StopTimer
               \/ \E c \in Characters : SelectCharacter(c)
               \/ \E t \in Tasks : ToggleCompletion(t)
               \/ \E t \in Templates : StartTimer(t)
               \/ \E b \in Budgets : ApplyRecommendation(b)
               \/ \E i \in DOMAIN calls : \/ ToggleStored(i) \/ UseStored(i) \/ LatestFound(i)
                                          \/ UndoStored(i) \/ StacksRead(i)
        PROVE  durations' = durations
    BY <2>2 DEF Tick, webVars, UseCharge, UndoCharge, StopTimer, SelectCharacter,
                ToggleCompletion, StartTimer, ApplyRecommendation, ToggleStored, UseStored,
                LatestFound, UndoStored, StacksRead, database
  <2>4. ASSUME NEW i \in DOMAIN calls, ListRead(i) \/ TimesRead(i)
        PROVE  durations' = durations
    BY <1>0, <2>4, AnswerEffect DEF database
  <2>3. durations' = durations => TimedForTheSelected'
    BY DEF TimedInv, TimedForTheSelected
  <2> QED BY <2>1, <2>2, <2>3, <2>4, WebStepCases
<1> QED BY <1>0, <1>1, <1>2, <1>3 DEF TimedInv

(* A duration is stored for the character its timer was started for,         *)
(* whatever is clicked while it runs and while it is stored (today.tsx).     *)
THEOREM TimedForTheSelectedHolds == WebSpec => []TimedForTheSelected
<1>1. WebInit => TimedInv
  <2>1. ASSUME WebInit PROVE TimedInv
    <3>1. durations = {} /\ today.timer = None
      BY <2>1 DEF WebInit
    <3>2. \A i \in DOMAIN calls : calls[i].kind = "reload"
      BY <2>1 DEF WebInit, ReloadOf
    <3> QED BY <2>1, <3>1, <3>2, WebTypedKept DEF TimedInv, TimedForTheSelected
  <2> QED BY <2>1
<1>2. TimedInv /\ [WebNext]_webVars => TimedInv'
  BY TimedStep
<1>3. TimedInv => TimedForTheSelected
  BY DEF TimedInv
<1> QED BY <1>1, <1>2, <1>3, PTL DEF WebSpec

-----------------------------------------------------------------------------
(* What is shown differs from what is stored only while a call that will     *)
(* read it anew is under way, or when the reload shown was overtaken: a      *)
(* write leaves a reload behind, a reload the reading of the stacks; and a   *)
(* list that a reload has read before a write is shown after it only where   *)
(* a newer reload is still to be settled.                                    *)
LaterReload(s, k, c) == \E j \in DOMAIN s : j > k /\ s[j].kind = "reload" /\ s[j].char = c

Holds(s, k) ==
  s[k].kind = "reload" /\ s[k].list # None /\ ~s[k].late
    => s[k].list = Done(s[k].char, s[k].period) \/ LaterReload(s, k, s[k].char)

ListsRead == \A k \in DOMAIN calls : Holds(calls, k)

ListShown ==
  last.late \/ today.done = Done(last.char, last.period) \/ LaterReload(calls, 0, last.char)

StacksShown ==
  \/ \E i \in DOMAIN calls : calls[i].kind \in {"reload", "stacks"}
  \/ today.stacks = Stacks(last.stacks)

ShownInv == WebTyped /\ ListsRead /\ ListShown /\ StacksShown

LEMMA CallPlaces ==
  ASSUME WebTyped
  PROVE  /\ calls \in Seq(WebCalls) /\ Len(calls) \in Nat /\ DOMAIN calls = 1 .. Len(calls)
         /\ \A i \in DOMAIN calls : i > 0
  BY DEF WebTyped

(* A click adds a call or none, and touches neither the list nor the store.  *)
LEMMA ShownClick ==
  ASSUME ShownInv, WebTyped',
         \A j \in DOMAIN calls : j \in DOMAIN calls' /\ calls'[j] = calls[j],
         \A k \in DOMAIN calls' : \/ k \in DOMAIN calls
                                  \/ calls'[k].kind # "reload"
                                  \/ calls'[k].list = None,
         UNCHANGED <<database, last, today.done, today.stacks>>
  PROVE  ShownInv'
<1>1. \A c, p : Done(c, p)' = Done(c, p)
  BY DEF Done, database
<1>2. Stacks(last.stacks)' = Stacks(last.stacks)
  BY DEF Stacks, database
<1>3. \A k, c : LaterReload(calls, k, c) => LaterReload(calls, k, c)'
  BY DEF LaterReload
<1>4. ListsRead'
  <2> SUFFICES ASSUME NEW k \in DOMAIN calls' PROVE Holds(calls, k)'
    BY DEF ListsRead
  <2>1. CASE k \in DOMAIN calls
    <3>1. Holds(calls, k) /\ calls'[k] = calls[k]
      BY <2>1 DEF ShownInv, ListsRead
    <3> QED BY <1>1, <1>3, <3>1 DEF Holds
  <2>2. CASE k \notin DOMAIN calls
    BY <2>2 DEF Holds
  <2> QED BY <2>1, <2>2
<1>5. ListShown'
  BY <1>1, <1>3 DEF ShownInv, ListShown
<1>6. StacksShown'
  <2>1. (\E i \in DOMAIN calls : calls[i].kind \in {"reload", "stacks"})
           => \E i \in DOMAIN calls' : calls'[i].kind \in {"reload", "stacks"}
    OBVIOUS
  <2> QED BY <1>2, <2>1 DEF ShownInv, StacksShown
<1> QED BY <1>4, <1>5, <1>6 DEF ShownInv

LEMMA ShownCall ==
  ASSUME ShownInv, WebTyped', NEW c \in WebCalls, Call(c),
         c.kind # "reload" \/ c.list = None,
         UNCHANGED <<database, last, today.done, today.stacks>>
  PROVE  ShownInv'
<1>1. /\ calls \in Seq(WebCalls) /\ calls' = Append(calls, c)
  BY CallPlaces DEF ShownInv, Call
<1>2. /\ Len(calls) \in Nat /\ DOMAIN calls = 1 .. Len(calls)
      /\ DOMAIN calls' = 1 .. Len(calls) + 1
      /\ \A j \in 1 .. Len(calls) : calls'[j] = calls[j]
      /\ calls'[Len(calls) + 1] = c
  BY <1>1
<1>3. /\ \A j \in DOMAIN calls : j \in DOMAIN calls' /\ calls'[j] = calls[j]
      /\ \A k \in DOMAIN calls' : k \in DOMAIN calls \/ k = Len(calls) + 1
  BY <1>2
<1> QED BY <1>2, <1>3, ShownClick

(* The end of a call that is no reload: what the page calls next makes up    *)
(* for what it has changed.                                                  *)
LEMMA ShownGoesOn ==
  ASSUME ShownInv, WebTyped', NEW i \in DOMAIN calls, calls[i].kind # "reload",
         NEW next \in Seq(WebCalls), Continue(i, next),
         \A q \in DOMAIN next : next[q].kind = "reload" => next[q].list = None,
         NEW c,
         \A d, p : \/ Done(d, p)' = Done(d, p)
                   \/ d = c /\ \E q \in DOMAIN next : next[q].kind = "reload" /\ next[q].char = c,
         UNCHANGED <<last.char, last.period, last.late, today.done>>
  PROVE  ListsRead' /\ ListShown'
<1>1. calls \in Seq(WebCalls) /\ calls' = Rest(calls, i, next)
  BY CallPlaces DEF ShownInv, Continue, Rest
<1>2. \A d, p : \/ Done(d, p)' = Done(d, p)
                \/ d = c /\ \E q \in DOMAIN next : next[q].kind = "reload" /\ next[q].char = c
  OBVIOUS
<1>3. ASSUME NEW k \in DOMAIN calls' PROVE Holds(calls, k)'
  <2>1. CASE \E q \in DOMAIN next : calls'[k] = next[q]
    BY <2>1 DEF Holds
  <2>2. ASSUME NEW j \in DOMAIN calls, j # i, calls'[k] = calls[j],
               \A g \in DOMAIN calls : g > j /\ g # i => \E h \in DOMAIN calls' : h > k /\ calls'[h] = calls[g],
               \A q \in DOMAIN next : \E h \in DOMAIN calls' : h > k /\ calls'[h] = next[q]
        PROVE  Holds(calls, k)'
    <3>1. Holds(calls, j)
      BY DEF ShownInv, ListsRead
    <3>2. \A d : LaterReload(calls, j, d) => LaterReload(calls, k, d)'
      BY <2>2 DEF LaterReload
    <3>3. (\E q \in DOMAIN next : next[q].kind = "reload" /\ next[q].char = c)
             => LaterReload(calls, k, c)'
      BY <2>2 DEF LaterReload
    <3>4. \A d, p : Done(d, p)' = Done(d, p) \/ (d = c /\ LaterReload(calls, k, c)')
      BY <1>2, <3>3
    <3>5. CASE calls[j].kind = "reload" /\ calls[j].list # None /\ ~calls[j].late
      <4>1. \/ calls[j].list = Done(calls[j].char, calls[j].period)
            \/ LaterReload(calls, j, calls[j].char)
        BY <3>1, <3>5 DEF Holds
      <4>2. \A d, p : d = calls[j].char /\ p = calls[j].period
                      => calls[j].list = Done(d, p)' \/ LaterReload(calls, k, d)'
        BY <3>2, <3>4, <4>1
      <4> QED BY <2>2, <4>2 DEF Holds
    <3> QED BY <2>2, <3>5 DEF Holds
  <2> QED BY <1>1, <2>1, <2>2, RestOrder
<1>4. ListShown'
  <2>1. /\ \A j \in DOMAIN calls : j # i => \E k \in DOMAIN calls' : calls'[k] = calls[j]
        /\ \A q \in DOMAIN next : \E k \in DOMAIN calls' : calls'[k] = next[q]
        /\ \A k \in DOMAIN calls' : k > 0
    BY <1>1, RemoveThenAppend, CallPlaces
  <2>2. \A d : LaterReload(calls, 0, d) => LaterReload(calls, 0, d)'
    BY <2>1 DEF LaterReload
  <2>3. (\E q \in DOMAIN next : next[q].kind = "reload" /\ next[q].char = c)
           => LaterReload(calls, 0, c)'
    BY <2>1 DEF LaterReload
  <2>4. \/ Done(last.char, last.period)' = Done(last.char, last.period)
        \/ last.char = c /\ LaterReload(calls, 0, c)'
    <3>1. last'.char = last.char /\ last'.period = last.period
      OBVIOUS
    <3> QED BY <1>2, <2>3, <3>1
  <2> QED BY <2>2, <2>4 DEF ShownInv, ListShown
<1> QED BY <1>3, <1>4 DEF ListsRead

(* After a write the page reads anew.                                        *)
LEMMA ShownWrite ==
  ASSUME ShownInv, WebTyped', NEW i \in DOMAIN calls, calls[i].kind # "reload",
         NEW c \in Characters, Continue(i, <<ReloadOf(c)>>),
         \A d, p : d # c => Done(d, p)' = Done(d, p),
         UNCHANGED <<last, today.done>>
  PROVE  ShownInv'
<1> DEFINE next == <<ReloadOf(c)>>
<1>1. /\ ReloadOf(c) \in WebCalls /\ calls \in Seq(WebCalls)
      /\ ReloadOf(c).kind = "reload" /\ ReloadOf(c).list = None /\ ReloadOf(c).char = c
  BY WebCallTypes, CallPlaces DEF ShownInv, ReloadOf
<1>2. next \in Seq(WebCalls) /\ DOMAIN next = {1} /\ next[1] = ReloadOf(c)
  BY <1>1
<1>3. Continue(i, next)
  OBVIOUS
<1> HIDE DEF next
<1>4. ListsRead' /\ ListShown'
  <2>1. \A d, p : \/ Done(d, p)' = Done(d, p)
                  \/ d = c /\ \E q \in DOMAIN next : next[q].kind = "reload" /\ next[q].char = c
    BY <1>1, <1>2
  <2>2. \A q \in DOMAIN next : next[q].kind = "reload" => next[q].list = None
    BY <1>1, <1>2
  <2>3. UNCHANGED <<last.char, last.period, last.late, today.done>>
    OBVIOUS
  <2> QED BY <1>2, <1>3, <2>1, <2>2, <2>3, ShownGoesOn
<1>5. StacksShown'
  <2>1. \E k \in DOMAIN calls' : calls'[k] = ReloadOf(c)
    <3>1. \A q \in DOMAIN next : \E k \in DOMAIN calls' : calls'[k] = next[q]
      BY <1>1, <1>2, <1>3, ContinueAdds
    <3> QED BY <1>2, <3>1
  <2> QED BY <1>1, <2>1 DEF StacksShown
<1> QED BY <1>4, <1>5 DEF ShownInv

(* A reload that waits for its other store, and one that is settled: it is   *)
(* shown, and the older ones of the same character are too late.             *)
LEMMA ShownWaits ==
  ASSUME ShownInv, WebTyped', NEW i \in DOMAIN calls, calls[i].kind = "reload",
         NEW list \in (SUBSET Tasks) \cup {None},
         list = calls[i].list \/ list = Done(calls[i].char, calls[i].period),
         NEW times \in BOOLEAN,
         calls' = [calls EXCEPT ![i] = [[@ EXCEPT !.list = list] EXCEPT !.times = times]],
         UNCHANGED <<database, today, last>>
  PROVE  ShownInv'
<1> DEFINE r == [[calls[i] EXCEPT !.list = list] EXCEPT !.times = times]
<1>1. calls \in Seq(WebCalls) /\ calls[i] \in WebCalls
  BY CallPlaces DEF ShownInv
<1>2. /\ r.kind = "reload" /\ r.char = calls[i].char /\ r.period = calls[i].period
      /\ r.late = calls[i].late /\ r.list = list
  <2>1. DOMAIN calls[i] = {"kind", "char", "period", "list", "times", "late"}
    BY <1>1 DEF WebCalls
  <2> QED BY <2>1
<1>3. calls' = [calls EXCEPT ![i] = r]
  OBVIOUS
<1> HIDE DEF r
<1>4. /\ DOMAIN calls' = DOMAIN calls /\ calls'[i] = r
      /\ \A k \in DOMAIN calls : k # i => calls'[k] = calls[k]
  BY <1>1, <1>3
<1>5. \A k, c : LaterReload(calls, k, c)' = LaterReload(calls, k, c)
  BY <1>2, <1>4 DEF LaterReload
<1>6. \A c, p : Done(c, p)' = Done(c, p)
  BY DEF Done, database
<1>7. Stacks(last.stacks)' = Stacks(last.stacks)
  BY DEF Stacks, database
<1>8. ASSUME NEW k \in DOMAIN calls PROVE Holds(calls, k)'
  <2>1. Holds(calls, k)
    BY DEF ShownInv, ListsRead
  <2>2. CASE k # i
    BY <1>4, <1>5, <1>6, <2>1, <2>2 DEF Holds
  <2>3. CASE k = i
    <3>1. calls'[k] = r
      BY <1>4, <2>3
    <3>2. CASE list = calls[i].list
      <4>1. CASE list # None /\ ~calls[i].late
        <5>1. list = Done(calls[i].char, calls[i].period) \/ LaterReload(calls, i, calls[i].char)
          BY <2>1, <2>3, <3>2, <4>1 DEF Holds
        <5>2. \A d, p : d = calls[i].char /\ p = calls[i].period
                        => list = Done(d, p)' \/ LaterReload(calls, i, d)'
          BY <1>5, <1>6, <5>1
        <5> QED BY <1>2, <2>3, <3>1, <5>2 DEF Holds
      <4> QED BY <1>2, <3>1, <4>1 DEF Holds
    <3>3. CASE list = Done(calls[i].char, calls[i].period)
      <4>1. \A d, p : d = calls[i].char /\ p = calls[i].period => list = Done(d, p)'
        BY <1>6, <3>3
      <4> QED BY <1>2, <3>1, <4>1 DEF Holds
    <3> QED BY <3>2, <3>3
  <2> QED BY <2>2, <2>3
<1>9. StacksShown'
  BY <1>2, <1>4, <1>7 DEF ShownInv, StacksShown
<1>10. ListShown'
  BY <1>5, <1>6 DEF ShownInv, ListShown
<1> QED BY <1>4, <1>8, <1>9, <1>10 DEF ShownInv, ListsRead

LEMMA ShownSettles ==
  ASSUME ShownInv, WebTyped', NEW i \in DOMAIN calls, calls[i].kind = "reload",
         NEW list, list # None,
         list = calls[i].list \/ list = Done(calls[i].char, calls[i].period),
         UNCHANGED database, Reloaded(i, list)
  PROVE  ShownInv'
<1> DEFINE o == Overtaken(i)
           s == [kind |-> "stacks", char |-> calls[i].char]
           next == <<s>>
<1>1. calls \in Seq(WebCalls) /\ calls[i] \in WebCalls /\ calls[i].char \in Characters
  BY CallPlaces, WebCallTypes DEF ShownInv
<1>2. s \in WebCalls /\ s.kind = "stacks"
  BY <1>1 DEF WebCalls
<1>3. /\ o \in Seq(WebCalls) /\ DOMAIN o = DOMAIN calls
      /\ \A j \in DOMAIN calls :
           /\ o[j].kind = calls[j].kind /\ o[j].char = calls[j].char
           /\ \/ /\ o[j] = calls[j]
                 /\ ~(j < i /\ calls[j].kind = "reload" /\ calls[j].char = calls[i].char)
              \/ o[j].late = TRUE /\ calls[j].kind = "reload"
  BY OvertakenShape DEF ShownInv
<1>4. calls' = Rest(o, i, next)
  <2>1. calls' = Append(RemoveAt(o, i), s)
    BY DEF Reloaded
  <2>2. RemoveAt(o, i) \in Seq(WebCalls)
    <3>1. i \in 1 .. Len(o)
      BY <1>3
    <3> HIDE DEF o
    <3> QED BY <1>3, <3>1, RemoveShape
  <2> HIDE DEF o, s
  <2>3. \A q \in Seq(WebCalls) : Append(q, s) = q \o <<s>>
    BY <1>2, AppendIsConcat
  <2> QED BY <2>1, <2>2, <2>3 DEF Rest
<1>5. next \in Seq(WebCalls) /\ DOMAIN next = {1} /\ next[1] = s
  BY <1>2
<1>6. /\ today'.done = list /\ last'.char = calls[i].char /\ last'.period = calls[i].period
      /\ last'.late = calls[i].late
  BY DEF Reloaded, Draw, ShownInv, WebTyped
<1>7. \A c, p : Done(c, p)' = Done(c, p)
  BY DEF Done, database
<1> HIDE DEF o, s, next
<1>8. /\ \A j \in DOMAIN calls : j # i => \E k \in DOMAIN calls' : calls'[k] = o[j]
      /\ \E k \in DOMAIN calls' : calls'[k] = s
      /\ \A k \in DOMAIN calls' : k > 0
  <2>1. /\ \A j \in DOMAIN o : j # i => \E k \in DOMAIN calls' : calls'[k] = o[j]
        /\ \A q \in DOMAIN next : \E k \in DOMAIN calls' : calls'[k] = next[q]
    BY <1>3, <1>4, <1>5, RemoveThenAppend
  <2>2. \A k \in DOMAIN calls' : k > 0
    BY CallPlaces DEF ShownInv, WebTyped
  <2> QED BY <1>3, <1>5, <2>1, <2>2
<1>9. ASSUME NEW k \in DOMAIN calls' PROVE Holds(calls, k)'
  <2>1. CASE \E q \in DOMAIN next : calls'[k] = next[q]
    BY <1>2, <1>5, <2>1 DEF Holds
  <2>2. ASSUME NEW j \in DOMAIN o, j # i, calls'[k] = o[j],
               \A g \in DOMAIN o : g > j /\ g # i => \E h \in DOMAIN calls' : h > k /\ calls'[h] = o[g]
        PROVE  Holds(calls, k)'
    <3>1. Holds(calls, j)
      BY <1>3, <2>2 DEF ShownInv, ListsRead
    <3>2. CASE o[j].late = TRUE
      BY <2>2, <3>2 DEF Holds
    <3>3. CASE /\ o[j] = calls[j]
               /\ ~(j < i /\ calls[j].kind = "reload" /\ calls[j].char = calls[i].char)
      <4>1. i \in Nat /\ j \in Nat
        BY <1>1, <1>3, <2>2
      <4>2. ASSUME NEW d, d = calls[j].char, calls[j].kind = "reload", LaterReload(calls, j, d)
            PROVE  LaterReload(calls, k, d)'
        <5>1. PICK g \in DOMAIN calls : g > j /\ calls[g].kind = "reload" /\ calls[g].char = d
          BY <4>2 DEF LaterReload
        <5>2. g # i
          BY <3>3, <4>1, <4>2, <5>1
        <5>3. PICK h \in DOMAIN calls' : h > k /\ calls'[h] = o[g]
          BY <1>3, <2>2, <5>1, <5>2
        <5>4. o[g].kind = "reload" /\ o[g].char = d
          BY <1>3, <5>1
        <5> QED BY <5>3, <5>4 DEF LaterReload
      <4>3. CASE calls[j].kind = "reload" /\ calls[j].list # None /\ ~calls[j].late
        <5>1. \/ calls[j].list = Done(calls[j].char, calls[j].period)
              \/ LaterReload(calls, j, calls[j].char)
          BY <3>1, <4>3 DEF Holds
        <5>2. \A d, p : d = calls[j].char /\ p = calls[j].period
                        => calls[j].list = Done(d, p)' \/ LaterReload(calls, k, d)'
          BY <1>7, <4>2, <4>3, <5>1
        <5> QED BY <2>2, <3>3, <5>2 DEF Holds
      <4> QED BY <2>2, <3>3, <4>3 DEF Holds
    <3> QED BY <1>3, <2>2, <3>2, <3>3
  <2> QED BY <1>3, <1>4, <1>5, <2>1, <2>2, RestOrder
<1>10. ListShown'
  <2>1. CASE list = Done(calls[i].char, calls[i].period)
    BY <1>6, <1>7, <2>1 DEF ListShown
  <2>2. CASE calls[i].late
    BY <1>6, <2>2 DEF ListShown
  <2>3. CASE list = calls[i].list /\ ~calls[i].late /\ list # Done(calls[i].char, calls[i].period)
    <3>1. LaterReload(calls, i, calls[i].char)
      BY <2>3 DEF ShownInv, ListsRead, Holds
    <3>2. PICK g \in DOMAIN calls : g > i /\ calls[g].kind = "reload" /\ calls[g].char = calls[i].char
      BY <3>1 DEF LaterReload
    <3>3. g # i
      BY <1>1, <3>2
    <3>4. PICK k \in DOMAIN calls' : calls'[k] = o[g]
      BY <1>8, <3>3
    <3>5. k > 0 /\ calls'[k].kind = "reload" /\ calls'[k].char = last'.char
      BY <1>3, <1>6, <1>8, <3>2, <3>4
    <3> QED BY <3>5 DEF ListShown, LaterReload
  <2> QED BY <2>1, <2>2, <2>3
<1>11. StacksShown'
  BY <1>2, <1>8 DEF StacksShown
<1> QED BY <1>9, <1>10, <1>11 DEF ShownInv, ListsRead

LEMMA ShownStep ==
  ASSUME ShownInv, [WebNext]_webVars
  PROVE  ShownInv'
<1>0. WebTyped /\ WebTyped' /\ calls \in Seq(WebCalls)
  BY WebTypedKept, CallPlaces DEF ShownInv
<1>1. ASSUME NEW c \in Characters, SelectCharacter(c) PROVE ShownInv'
  <2>1. Call(ReloadOf(c)) /\ ReloadOf(c) \in WebCalls /\ ReloadOf(c).list = None
    BY <1>0, <1>1, WebCallTypes DEF SelectCharacter, ReloadOf
  <2>2. UNCHANGED <<database, last, today.done, today.stacks>>
    BY <1>0, <1>1 DEF SelectCharacter, Draw, WebTyped
  <2> QED BY <1>0, <2>1, <2>2, ShownCall
<1>2. ASSUME \/ \E t \in Tasks : ToggleCompletion(t)
             \/ UseCharge \/ UndoCharge \/ StopTimer
      PROVE  ShownInv'
  <2>1. UNCHANGED <<database, last, today>>
    BY <1>2 DEF ToggleCompletion, UseCharge, UndoCharge, StopTimer, database
  <2>2. PICK c : c.kind # "reload" /\ calls' = Append(calls, c)
    BY <1>2 DEF ToggleCompletion, UseCharge, UndoCharge, StopTimer, Call
  <2>3. /\ Len(calls) \in Nat /\ DOMAIN calls = 1 .. Len(calls)
        /\ DOMAIN calls' = 1 .. Len(calls) + 1
        /\ \A j \in 1 .. Len(calls) : calls'[j] = calls[j]
        /\ calls'[Len(calls) + 1] = c
    BY <1>0, <2>2
  <2>4. /\ \A j \in DOMAIN calls : j \in DOMAIN calls' /\ calls'[j] = calls[j]
        /\ \A k \in DOMAIN calls' : k \in DOMAIN calls \/ calls'[k].kind # "reload"
    BY <2>2, <2>3
  <2> QED BY <1>0, <2>1, <2>4, ShownClick
<1>3. ASSUME \/ Tick
             \/ UNCHANGED webVars
             \/ \E t \in Templates : StartTimer(t)
             \/ \E b \in Budgets : ApplyRecommendation(b)
      PROVE  ShownInv'
  <2>1. UNCHANGED <<database, last, calls, today.done, today.stacks>>
    BY <1>0, <1>3 DEF Tick, webVars, StartTimer, ApplyRecommendation, Draw, WebTyped
  <2> QED BY <1>0, <2>1, ShownClick
<1>4. ASSUME NEW i \in DOMAIN calls,
             ToggleStored(i) \/ UseStored(i) \/ UndoStored(i) \/ DurationStored(i)
      PROVE  ShownInv'
  <2>1. Continue(i, <<ReloadOf(calls[i].char)>>) /\ calls[i].kind # "reload"
    BY <1>4 DEF ToggleStored, UseStored, UndoStored, DurationStored
  <2>2. calls[i].char \in Characters
    BY <1>0, WebCallTypes
  <2>3. last' = last /\ today'.done = today.done
    BY <1>0, <1>4 DEF ToggleStored, UseStored, UndoStored, DurationStored, Draw, WebTyped
  <2>4. \A d, p : d # calls[i].char => Done(d, p)' = Done(d, p)
    <3>1. CASE UseStored(i) \/ UndoStored(i) \/ DurationStored(i)
      BY <3>1 DEF UseStored, UndoStored, DurationStored, Done
    <3>2. CASE ToggleStored(i)
      <4>1. PICK row : /\ row.char = calls[i].char
                       /\ completions' \in {completions \cup {row}, completions \ {row}}
        BY <3>2 DEF ToggleStored
      <4>2. ASSUME NEW d, NEW p, NEW t, d # calls[i].char
            PROVE  [char |-> d, task |-> t, period |-> p] \in completions'
                     <=> [char |-> d, task |-> t, period |-> p] \in completions
        <5>1. [char |-> d, task |-> t, period |-> p].char # row.char
          BY <4>1, <4>2
        <5> QED BY <4>1, <5>1
      <4>3. ASSUME NEW d, NEW p, d # calls[i].char PROVE Done(d, p)' = Done(d, p)
        BY <4>2, <4>3 DEF Done
      <4> QED BY <4>3
    <3> QED BY <1>4, <3>1, <3>2
  <2> QED BY <1>0, <2>1, <2>2, <2>3, <2>4, ShownWrite
<1>5. ASSUME NEW i \in DOMAIN calls, LatestFound(i) PROVE ShownInv'
  <2> DEFINE u == [kind |-> "undo", char |-> calls[i].char, use |-> uses[calls[i].char]]
  <2>1. UNCHANGED <<database, last, today>> /\ calls[i].kind = "latest"
    BY <1>5 DEF LatestFound
  <2>2. u \in WebCalls /\ u.kind # "reload"
    BY <1>0, WebCallTypes
  <2>3. Continue(i, <<>>) \/ Continue(i, <<u>>)
    BY <1>5 DEF LatestFound
  <2> HIDE DEF u
  <2>4. PICK next \in Seq(WebCalls) :
          Continue(i, next) /\ \A q \in DOMAIN next : next[q].kind # "reload"
    <3>1. CASE Continue(i, <<>>)
      <4>1. <<>> \in Seq(WebCalls) /\ \A q \in DOMAIN <<>> : <<>>[q].kind # "reload"
        OBVIOUS
      <4> QED BY <3>1, <4>1
    <3>2. CASE Continue(i, <<u>>)
      <4>1. <<u>> \in Seq(WebCalls) /\ \A q \in DOMAIN <<u>> : <<u>>[q].kind # "reload"
        BY <2>2
      <4> QED BY <3>2, <4>1
    <3> QED BY <2>3, <3>1, <3>2
  <2>5. ListsRead' /\ ListShown'
    <3>1. /\ \A d, p : Done(d, p)' = Done(d, p)
          /\ UNCHANGED <<last.char, last.period, last.late, today.done>>
      BY <2>1 DEF database, Done
    <3> QED BY <1>0, <2>1, <2>4, <3>1, ShownGoesOn
  <2>6. StacksShown'
    <3>1. \A j \in DOMAIN calls : j # i => \E k \in DOMAIN calls' : calls'[k] = calls[j]
      BY <1>0, <2>4, ContinueAdds
    <3>2. Stacks(last.stacks)' = Stacks(last.stacks)
      BY <2>1 DEF Stacks, database
    <3>3. \A j \in DOMAIN calls : calls[j].kind \in {"reload", "stacks"} => j # i
      BY <2>1
    <3> QED BY <2>1, <3>1, <3>2, <3>3 DEF ShownInv, StacksShown
  <2> QED BY <1>0, <2>5, <2>6 DEF ShownInv
<1>6. ASSUME NEW i \in DOMAIN calls, ListRead(i) \/ TimesRead(i) PROVE ShownInv'
  BY <1>0, <1>6, AnswerEffect, ShownWaits, ShownSettles
<1>7. ASSUME NEW i \in DOMAIN calls, StacksRead(i) PROVE ShownInv'
  <2>1. /\ today'.stacks = Stacks(calls[i].char) /\ last'.stacks = calls[i].char
        /\ UNCHANGED <<last.char, last.period, last.late, today.done>>
        /\ UNCHANGED database /\ calls[i].kind = "stacks" /\ Continue(i, <<>>)
    BY <1>0, <1>7 DEF StacksRead, Draw, WebTyped
  <2>2. ListsRead' /\ ListShown'
    <3> DEFINE next == <<>>
    <3>1. next \in Seq(WebCalls) /\ DOMAIN next = {} /\ Continue(i, next)
      BY <2>1
    <3> HIDE DEF next
    <3>2. \A d, p : Done(d, p)' = Done(d, p)
      BY <2>1 DEF database, Done
    <3> QED BY <1>0, <2>1, <3>1, <3>2, ShownGoesOn
  <2>3. StacksShown'
    BY <2>1 DEF Stacks, database, StacksShown
  <2> QED BY <1>0, <2>2, <2>3 DEF ShownInv
<1> QED BY <1>1, <1>2, <1>3, <1>4, <1>5, <1>6, <1>7, WebStepCases

(* At rest the page shows what is stored, unless the reload it shows was     *)
(* overtaken: only a reload that settles after a newer one of its character  *)
(* leaves an older list (today.tsx, reloadStatus).                           *)
THEOREM ShownIsStoredHolds == WebSpec => []ShownIsStored
<1>1. WebInit => ShownInv
  <2>1. ASSUME WebInit PROVE ShownInv
    <3>1. PICK c \in Characters : /\ calls = <<ReloadOf(c)>>
                                  /\ last = [char |-> c, period |-> 0, late |-> FALSE, stacks |-> c]
      BY <2>1 DEF WebInit
    <3>2. /\ DOMAIN calls = {1} /\ calls[1].kind = "reload" /\ calls[1].list = None
          /\ calls[1].char = last.char
      BY <3>1 DEF ReloadOf
    <3>3. ListsRead /\ ListShown /\ StacksShown
      BY <3>2 DEF ListsRead, Holds, ListShown, LaterReload, StacksShown
    <3> QED BY <2>1, <3>3, WebTypedKept DEF ShownInv
  <2> QED BY <2>1
<1>2. ShownInv /\ [WebNext]_webVars => ShownInv'
  BY ShownStep
<1>3. ShownInv => ShownIsStored
  <2>1. calls = <<>> => DOMAIN calls = {}
    OBVIOUS
  <2> QED BY <2>1 DEF ShownInv, ListShown, StacksShown, LaterReload, ShownIsStored
<1> QED BY <1>1, <1>2, <1>3, PTL DEF WebSpec

-----------------------------------------------------------------------------
(* The recommendation, for any tasks, estimates and budget.  What it and the *)
(* sum of the estimates compute is found by induction, in the form of a      *)
(* least counterexample: the subsets of a finite set are well founded.       *)

Smallest(U, T) == U \in T /\ \A V \in T : V \subseteq U => V = U

LEMMA LeastSubset ==
  ASSUME NEW S, IsFiniteSet(S), NEW T \in SUBSET (SUBSET S), T # {}
  PROVE  \E U : Smallest(U, T)
<1>1. T \subseteq FiniteSubsetsOf(S)
  BY FS_FiniteSubsetsOfFinite
<1>2. PICK U \in T : \A V \in T : <<V, U>> \notin StrictSubsetOrdering(S)
  BY <1>1, FS_StrictSubsetOrderingWellFounded, WFMin
<1> QED BY <1>2 DEF StrictSubsetOrdering, Smallest

LEMMA LeastNumber ==
  ASSUME NEW N \in Nat, NEW A \in SUBSET (0 .. N), A # {}
  PROVE  \E m \in A : \A k \in A : m <= k
<1> DEFINE T == {1 .. n : n \in A}
<1>1. IsFiniteSet(1 .. N)
  BY FS_Interval
<1>2. \A n \in A : 1 .. n \in SUBSET (1 .. N)
  OBVIOUS
<1>3. PICK U : Smallest(U, T)
  <2>1. T \subseteq SUBSET (1 .. N) /\ T # {}
    BY <1>2
  <2> DEFINE S == 1 .. N
  <2>2. IsFiniteSet(S) /\ T \subseteq SUBSET S
    BY <1>1, <2>1
  <2> HIDE DEF T, S
  <2> QED BY <2>1, <2>2, LeastSubset
<1>4. PICK m \in A : U = 1 .. m
  BY <1>3 DEF Smallest
<1>5. ASSUME NEW k \in A, k < m PROVE FALSE
  <2>1. 1 .. k \in T /\ 1 .. k \subseteq 1 .. m /\ k \in Nat /\ m \in Nat
    BY <1>5
  <2>2. 1 .. k = 1 .. m
    BY <1>3, <1>4, <2>1 DEF Smallest
  <2>3. m \in 1 .. m /\ m \notin 1 .. k
    BY <1>5, <2>1
  <2> QED BY <2>2, <2>3
<1> QED BY <1>4, <1>5

(* The sum over every subset of the templates, as a function.                *)
Summed(it, D) ==
  it = [s \in D |-> IF s = {} THEN 0
                    ELSE LET x == CHOOSE x \in s : TRUE IN Estimate[x] + it[s \ {x}]]

LEMMA SummedExists ==
  ASSUME NEW S, IsFiniteSet(S)
  PROVE  \E it : Summed(it, SUBSET S)
<1> DEFINE N == Cardinality(S)
           D(n) == {s \in SUBSET S : Cardinality(s) <= n}
           A == {n \in 0 .. N : ~ \E it : Summed(it, D(n))}
           c(s) == CHOOSE x \in s : TRUE
<1>1. N \in Nat /\ \A s \in SUBSET S : IsFiniteSet(s) /\ Cardinality(s) \in Nat /\ Cardinality(s) <= N
  BY FS_CardinalityType, FS_Subset
<1>2. D(N) = SUBSET S
  BY <1>1
<1>3. 0 \notin A
  <2> DEFINE it == [s \in D(0) |-> 0]
  <2>1. \A s \in D(0) : s = {}
    BY <1>1, FS_EmptySet
  <2>2. Summed(it, D(0))
    BY <2>1 DEF Summed
  <2> HIDE DEF it
  <2> QED BY <2>2
<1>4. ASSUME NEW n \in 0 .. N, n \notin A, n + 1 \in 0 .. N PROVE n + 1 \notin A
  <2>1. PICK f : Summed(f, D(n))
    BY <1>4
  <2> DEFINE g == [s \in D(n + 1) |-> IF s = {} THEN 0 ELSE Estimate[c(s)] + f[s \ {c(s)}]]
  <2>2. n \in Nat
    BY <1>1
  <2>3. ASSUME NEW s \in D(n + 1), s # {} PROVE s \ {c(s)} \in D(n)
    <3>1. c(s) \in s /\ s \in SUBSET S /\ Cardinality(s) <= n + 1
      BY <2>3
    <3>2. Cardinality(s \ {c(s)}) = Cardinality(s) - 1
      BY <1>1, <3>1, FS_RemoveElement
    <3> QED BY <1>1, <2>2, <3>1, <3>2
  <2>4. \A s \in D(n) : s \in D(n + 1)
    BY <1>1, <2>2
  <2>5. \A s \in D(n) : f[s] = IF s = {} THEN 0 ELSE Estimate[c(s)] + f[s \ {c(s)}]
    BY <2>1 DEF Summed
  <2> HIDE DEF D, c
  <2>6. \A s \in D(n) : g[s] = f[s]
    BY <2>4, <2>5
  <2>7. \A s \in D(n + 1) : g[s] = IF s = {} THEN 0 ELSE Estimate[c(s)] + g[s \ {c(s)}]
    BY <2>3, <2>6
  <2>8. g = [s \in D(n + 1) |-> IF s = {} THEN 0 ELSE Estimate[c(s)] + g[s \ {c(s)}]]
    <3> DEFINE h == [s \in D(n + 1) |-> IF s = {} THEN 0 ELSE Estimate[c(s)] + g[s \ {c(s)}]]
    <3>1. DOMAIN g = D(n + 1) /\ g = [s \in D(n + 1) |-> g[s]]
      OBVIOUS
    <3> HIDE DEF g
    <3> QED BY <2>7, <3>1
  <2> HIDE DEF g
  <2>9. Summed(g, D(n + 1))
    BY <2>8 DEF Summed, c
  <2> QED BY <2>9
<1>5. A = {}
  <2> SUFFICES ASSUME A # {} PROVE FALSE
    OBVIOUS
  <2> HIDE DEF D
  <2>1. A \in SUBSET (0 .. N)
    OBVIOUS
  <2> HIDE DEF A, N
  <2>2. PICK m \in A : \A k \in A : m <= k
    BY <1>1, <2>1, LeastNumber
  <2>3. m \in Nat /\ m # 0 /\ m \in 0 .. N
    BY <1>1, <1>3, <2>1
  <2>4. m - 1 \in 0 .. N /\ m - 1 \notin A /\ (m - 1) + 1 = m
    BY <1>1, <2>2, <2>3
  <2> QED BY <1>4, <2>3, <2>4
<1>6. N \in 0 .. N
  BY <1>1
<1> HIDE DEF D
<1>7. \E it : Summed(it, D(N))
  BY <1>5, <1>6
<1> QED BY <1>2, <1>7

(* The sum of a smaller set is found in the sums over a larger one.          *)
LEMMA SummedAgree ==
  ASSUME NEW S, IsFiniteSet(S), NEW T \in SUBSET S,
         NEW f, Summed(f, SUBSET S), NEW g, Summed(g, SUBSET T)
  PROVE  f[T] = g[T]
<1> DEFINE Bad == {U \in SUBSET T : f[U] # g[U]}
           c(s) == CHOOSE x \in s : TRUE
<1>1. IsFiniteSet(T)
  BY FS_Subset
<1>2. /\ \A s \in SUBSET S : f[s] = IF s = {} THEN 0 ELSE Estimate[c(s)] + f[s \ {c(s)}]
      /\ \A s \in SUBSET T : g[s] = IF s = {} THEN 0 ELSE Estimate[c(s)] + g[s \ {c(s)}]
  BY DEF Summed
<1>3. \A s : s # {} => c(s) \in s
  OBVIOUS
<1>4. Bad = {}
  <2> SUFFICES ASSUME Bad # {} PROVE FALSE
    OBVIOUS
  <2>1. Bad \in SUBSET (SUBSET T)
    OBVIOUS
  <2>2. PICK U : Smallest(U, Bad)
    <3> HIDE DEF Bad
    <3> QED BY <1>1, <2>1, LeastSubset
  <2>3. U \in SUBSET T /\ U \in SUBSET S /\ f[U] # g[U]
    BY <2>2 DEF Smallest
  <2>4. U # {}
    BY <1>2, <2>3
  <2> DEFINE V == U \ {c(U)}
  <2>5. V \subseteq U /\ V # U
    BY <1>3, <2>4
  <2>6. V \in SUBSET T
    BY <2>3
  <2>7. f[V] = g[V]
    BY <2>2, <2>5, <2>6 DEF Smallest
  <2> QED BY <1>2, <2>3, <2>4, <2>7
<1>5. T \notin Bad
  BY <1>4
<1> QED BY <1>5

LEMMA SecondsOf ==
  ASSUME NEW S, IsFiniteSet(S), NEW f, Summed(f, SUBSET S), NEW T \in SUBSET S
  PROVE  Seconds(T) = f[T]
<1> DEFINE g == CHOOSE it : Summed(it, SUBSET T)
<1>1. IsFiniteSet(T)
  BY FS_Subset
<1>2. Summed(g, SUBSET T)
  BY <1>1, SummedExists
<1>3. Seconds(T) = g[T]
  BY DEF Seconds, MapThenSumSet, MapThenFoldSet, Summed
<1> HIDE DEF g
<1>4. f[T] = g[T]
  BY <1>2, SummedAgree
<1> QED BY <1>3, <1>4

(* What a choice takes, in steps: any of its tasks and the others.           *)
LEMMA SecondsChosen ==
  ASSUME NEW S \in SUBSET Templates, IsFiniteSet(Templates)
  PROVE  /\ S = {} => Seconds(S) = 0
         /\ S # {} => \E x \in S : Seconds(S) = Estimate[x] + Seconds(S \ {x})
<1> DEFINE c(s) == CHOOSE x \in s : TRUE
<1>1. PICK f : Summed(f, SUBSET Templates)
  BY SummedExists
<1>2. \A s \in SUBSET Templates : f[s] = IF s = {} THEN 0 ELSE Estimate[c(s)] + f[s \ {c(s)}]
  BY <1>1 DEF Summed
<1>3. \A s \in SUBSET Templates : Seconds(s) = f[s]
  BY <1>1, SecondsOf
<1>4. S # {} => c(S) \in S /\ S \ {c(S)} \in SUBSET Templates
  OBVIOUS
<1> HIDE DEF c
<1> QED BY <1>2, <1>3, <1>4

LEMMA SecondsType ==
  ASSUME IsFiniteSet(Templates)
  PROVE  \A S \in SUBSET Templates : Seconds(S) \in Nat
<1> DEFINE Bad == {S \in SUBSET Templates : Seconds(S) \notin Nat}
<1>1. Bad = {}
  <2> SUFFICES ASSUME Bad # {} PROVE FALSE
    OBVIOUS
  <2>1. PICK U : Smallest(U, Bad)
    <3>1. Bad \in SUBSET (SUBSET Templates)
      OBVIOUS
    <3> HIDE DEF Bad
    <3> QED BY <3>1, LeastSubset
  <2>2. U \in SUBSET Templates /\ Seconds(U) \notin Nat
    BY <2>1 DEF Smallest
  <2>3. U # {}
    BY <2>2, SecondsChosen
  <2>4. PICK x \in U : Seconds(U) = Estimate[x] + Seconds(U \ {x})
    BY <2>2, <2>3, SecondsChosen
  <2>5. Seconds(U \ {x}) \in Nat
    BY <2>1, <2>2 DEF Smallest
  <2>6. Estimate[x] \in Nat
    BY <2>2, TemplateAssumption
  <2> QED BY <2>2, <2>4, <2>5, <2>6
<1> QED BY <1>1

LEMMA SecondsWithout ==
  ASSUME IsFiniteSet(Templates)
  PROVE  \A S \in SUBSET Templates : \A t \in S : Seconds(S) = Seconds(S \ {t}) + Estimate[t]
<1> DEFINE Bad == {S \in SUBSET Templates : \E t \in S : Seconds(S) # Seconds(S \ {t}) + Estimate[t]}
<1>1. Bad = {}
  <2> SUFFICES ASSUME Bad # {} PROVE FALSE
    OBVIOUS
  <2>1. PICK U : Smallest(U, Bad)
    <3>1. Bad \in SUBSET (SUBSET Templates)
      OBVIOUS
    <3> HIDE DEF Bad
    <3> QED BY <3>1, LeastSubset
  <2>2. U \in SUBSET Templates
    BY <2>1 DEF Smallest
  <2>3. PICK t \in U : Seconds(U) # Seconds(U \ {t}) + Estimate[t]
    BY <2>1 DEF Smallest
  <2>4. PICK x \in U : Seconds(U) = Estimate[x] + Seconds(U \ {x})
    BY <2>2, SecondsChosen
  <2>5. /\ Estimate[x] \in Nat /\ Estimate[t] \in Nat
        /\ Seconds(U \ {x}) \in Nat /\ Seconds(U \ {t}) \in Nat
        /\ Seconds((U \ {x}) \ {t}) \in Nat
    BY <2>2, TemplateAssumption, SecondsType
  <2>6. x # t
    BY <2>3, <2>4, <2>5
  <2>7. ASSUME NEW y \in U, NEW z \in U, y # z
        PROVE  Seconds(U \ {y}) = Seconds((U \ {y}) \ {z}) + Estimate[z]
    <3>1. U \ {y} \notin Bad
      BY <2>1, <2>2 DEF Smallest
    <3> QED BY <2>2, <2>7, <3>1
  <2>8. (U \ {x}) \ {t} = (U \ {t}) \ {x}
    OBVIOUS
  <2>9. /\ Seconds(U \ {x}) = Seconds((U \ {x}) \ {t}) + Estimate[t]
        /\ Seconds(U \ {t}) = Seconds((U \ {x}) \ {t}) + Estimate[x]
    BY <2>6, <2>7, <2>8
  <2> QED BY <2>3, <2>4, <2>5, <2>9
<1> QED BY <1>1

(* The first tasks of an order are the cheapest choice of their number.      *)
First(q, n) == {q[i] : i \in 1 .. n}

Ordered(q, N) ==
  /\ N \in Nat /\ q \in [1 .. N -> Templates]
  /\ \A i, j \in 1 .. N : i # j => q[i] # q[j]
  /\ \A i, j \in 1 .. N : i < j => Estimate[q[i]] <= Estimate[q[j]]

LEMMA FirstGrows ==
  ASSUME IsFiniteSet(Templates), NEW q, NEW N, Ordered(q, N)
  PROVE  /\ First(q, 0) = {} /\ Seconds({}) = 0
         /\ \A n \in 0 .. N : First(q, n) \in SUBSET Templates
         /\ \A n \in 0 .. N : n < N =>
              /\ q[n + 1] \notin First(q, n)
              /\ First(q, n + 1) = First(q, n) \cup {q[n + 1]}
              /\ Seconds(First(q, n + 1)) = Seconds(First(q, n)) + Estimate[q[n + 1]]
<1>1. First(q, 0) = {} /\ Seconds({}) = 0
  BY SecondsChosen DEF First
<1>2. ASSUME NEW n \in 0 .. N PROVE First(q, n) \in SUBSET Templates
  BY DEF First, Ordered
<1>3. ASSUME NEW n \in 0 .. N, n < N
      PROVE  /\ q[n + 1] \notin First(q, n)
             /\ First(q, n + 1) = First(q, n) \cup {q[n + 1]}
             /\ Seconds(First(q, n + 1)) = Seconds(First(q, n)) + Estimate[q[n + 1]]
  <2>1. N \in Nat /\ n \in Nat /\ n + 1 \in 1 .. N /\ 1 .. n \subseteq 1 .. N /\ n + 1 \in 0 .. N
    BY <1>3 DEF Ordered
  <2>2. q[n + 1] \notin First(q, n)
    BY <2>1 DEF First, Ordered
  <2>3. First(q, n + 1) = First(q, n) \cup {q[n + 1]}
    <3>1. \A i : i \in 1 .. n + 1 <=> i \in 1 .. n \/ i = n + 1
      BY <2>1
    <3> QED BY <3>1 DEF First
  <2>4. First(q, n + 1) \ {q[n + 1]} = First(q, n)
    BY <2>2, <2>3
  <2>5. First(q, n + 1) \in SUBSET Templates /\ q[n + 1] \in First(q, n + 1)
    BY <1>2, <2>1, <2>3
  <2>6. Seconds(First(q, n + 1)) = Seconds(First(q, n + 1) \ {q[n + 1]}) + Estimate[q[n + 1]]
    BY <2>5, SecondsWithout
  <2> QED BY <2>2, <2>3, <2>4, <2>6
<1> QED BY <1>1, <1>2, <1>3

LEMMA FirstCounted ==
  ASSUME IsFiniteSet(Templates), NEW q, NEW N, Ordered(q, N)
  PROVE  \A n \in 0 .. N : IsFiniteSet(First(q, n)) /\ Cardinality(First(q, n)) = n
<1> DEFINE Bad == {n \in 0 .. N : Cardinality(First(q, n)) # n}
<1>0. N \in Nat /\ \A n \in 0 .. N : IsFiniteSet(First(q, n))
  BY FirstGrows, FS_Subset DEF Ordered
<1>1. Bad = {}
  <2> SUFFICES ASSUME Bad # {} PROVE FALSE
    OBVIOUS
  <2>1. PICK m \in Bad : \A k \in Bad : m <= k
    <3>1. Bad \in SUBSET (0 .. N)
      OBVIOUS
    <3> HIDE DEF Bad
    <3> QED BY <1>0, <3>1, LeastNumber
  <2>2. m \in 0 .. N /\ Cardinality(First(q, m)) # m
    OBVIOUS
  <2>3. m # 0
    BY <2>2, FirstGrows, FS_EmptySet
  <2>4. m - 1 \in 0 .. N /\ m - 1 < N /\ (m - 1) + 1 = m /\ m - 1 < m
    BY <1>0, <2>2, <2>3
  <2>5. Cardinality(First(q, m - 1)) = m - 1
    BY <1>0, <2>1, <2>4
  <2>6. /\ q[m] \notin First(q, m - 1)
        /\ First(q, m) = First(q, m - 1) \cup {q[m]}
    <3> DEFINE n == m - 1
    <3>1. n \in 0 .. N /\ n < N /\ n + 1 = m
      BY <2>4
    <3> HIDE DEF n
    <3>2. /\ q[n + 1] \notin First(q, n)
          /\ First(q, n + 1) = First(q, n) \cup {q[n + 1]}
      BY <3>1, FirstGrows
    <3> QED BY <3>1, <3>2 DEF n
  <2>7. Cardinality(First(q, m)) = (m - 1) + 1
    BY <1>0, <2>4, <2>5, <2>6, FS_AddElement
  <2> QED BY <2>2, <2>4, <2>7
<1> QED BY <1>0, <1>1

LEMMA FirstIsCheapest ==
  ASSUME IsFiniteSet(Templates), NEW q, NEW N, Ordered(q, N)
  PROVE  \A n \in 0 .. N : \A S \in SUBSET First(q, N) :
           Cardinality(S) >= n => Seconds(S) >= Seconds(First(q, n))
<1> DEFINE Bad == {n \in 0 .. N : \E S \in SUBSET First(q, N) :
                      Cardinality(S) >= n /\ ~(Seconds(S) >= Seconds(First(q, n)))}
<1>0. /\ N \in Nat /\ First(q, N) \in SUBSET Templates /\ IsFiniteSet(First(q, N))
      /\ \A t \in Templates : Estimate[t] \in Nat
      /\ \A S \in SUBSET First(q, N) : IsFiniteSet(S) /\ Cardinality(S) \in Nat
                                       /\ S \in SUBSET Templates /\ Seconds(S) \in Nat
  <2>1. N \in Nat /\ N \in 0 .. N
    BY DEF Ordered
  <2>2. First(q, N) \in SUBSET Templates
    BY <2>1, FirstGrows
  <2>3. \A t \in Templates : Estimate[t] \in Nat
    BY TemplateAssumption
  <2> QED BY <2>1, <2>2, <2>3, SecondsType, FS_Subset, FS_CardinalityType
<1>1. Bad = {}
  <2> SUFFICES ASSUME Bad # {} PROVE FALSE
    OBVIOUS
  <2>1. PICK m \in Bad : \A k \in Bad : m <= k
    <3>1. Bad \in SUBSET (0 .. N)
      OBVIOUS
    <3> HIDE DEF Bad
    <3> QED BY <1>0, <3>1, LeastNumber
  <2>2. PICK S \in SUBSET First(q, N) : Cardinality(S) >= m /\ ~(Seconds(S) >= Seconds(First(q, m)))
    OBVIOUS
  <2>3. m \in 0 .. N /\ m # 0
    <3>1. Seconds(First(q, 0)) = 0
      BY FirstGrows
    <3>2. Seconds(S) \in Nat
      BY <1>0, <2>2
    <3>3. Seconds(S) >= 0
      BY <3>2
    <3> QED BY <2>1, <2>2, <3>1, <3>3
  <2> DEFINE n == m - 1
  <2>4. n \in 0 .. N /\ n < N /\ n + 1 = m /\ n \notin Bad /\ m \in 1 .. N /\ n \in Nat
    BY <1>0, <2>1, <2>3
  <2>5. \A V \in SUBSET First(q, N) : Cardinality(V) >= n => Seconds(V) >= Seconds(First(q, n))
    BY <2>4
  <2> HIDE DEF Bad, n
  <2>6. /\ First(q, n) \in SUBSET Templates
        /\ Seconds(First(q, m)) = Seconds(First(q, n)) + Estimate[q[m]]
    BY <2>4, FirstGrows
  <2>7. PICK t \in S : t \notin First(q, n)
    <3>1. IsFiniteSet(First(q, n)) /\ Cardinality(First(q, n)) = n
      BY <2>4, FirstCounted
    <3>2. ~(S \subseteq First(q, n))
      <4> SUFFICES ASSUME S \subseteq First(q, n) PROVE FALSE
        OBVIOUS
      <4>1. Cardinality(S) <= n
        BY <3>1, FS_Subset
      <4> QED BY <1>0, <2>2, <2>4, <4>1
    <3> QED BY <3>2
  <2>8. PICK j \in 1 .. N : t = q[j] /\ m <= j
    <3>1. PICK j \in 1 .. N : t = q[j]
      BY <2>2, <2>7 DEF First
    <3>2. ~(j <= n)
      BY <1>0, <2>4, <2>7, <3>1 DEF First
    <3> QED BY <2>4, <3>1, <3>2
  <2>9. Estimate[q[m]] <= Estimate[t]
    BY <1>0, <2>2, <2>4, <2>7, <2>8 DEF Ordered
  <2>10. Seconds(S) = Seconds(S \ {t}) + Estimate[t]
    BY <1>0, <2>2, <2>7, SecondsWithout
  <2>11. Seconds(S \ {t}) >= Seconds(First(q, n))
    <3>1. Cardinality(S \ {t}) = Cardinality(S) - 1
      BY <1>0, <2>2, <2>7, FS_RemoveElement
    <3>2. Cardinality(S \ {t}) >= n
      BY <1>0, <2>2, <2>4, <3>1
    <3> QED BY <2>2, <2>5, <3>2
  <2>12. Seconds(First(q, n)) \in Nat /\ Estimate[q[m]] \in Nat /\ Estimate[t] \in Nat
         /\ Seconds(S \ {t}) \in Nat
    BY <1>0, <2>2, <2>4, <2>6, <2>7, SecondsType DEF Ordered
  <2> QED BY <2>2, <2>6, <2>9, <2>10, <2>11, <2>12
<1> QED BY <1>0, <1>1

(* The loop of recommendForBudget, as the function of its steps.             *)
Loop(f, q, N, budget) ==
  f = [n \in 0 .. N |->
         IF n = 0 THEN [ids |-> {}, left |-> budget]
         ELSE IF Estimate[q[n]] <= f[n - 1].left
              THEN [ids |-> f[n - 1].ids \cup {q[n]}, left |-> f[n - 1].left - Estimate[q[n]]]
              ELSE f[n - 1]]

LEMMA LoopExists ==
  ASSUME NEW q, NEW N \in Nat, NEW budget
  PROVE  \E f : Loop(f, q, N, budget)
<1> DEFINE Bad == {n \in 0 .. N : ~ \E f : Loop(f, q, n, budget)}
           step(f, n) == IF n = 0 THEN [ids |-> {}, left |-> budget]
                         ELSE IF Estimate[q[n]] <= f[n - 1].left
                              THEN [ids |-> f[n - 1].ids \cup {q[n]},
                                    left |-> f[n - 1].left - Estimate[q[n]]]
                              ELSE f[n - 1]
<1>1. 0 \notin Bad
  <2> DEFINE f == [n \in 0 .. 0 |-> [ids |-> {}, left |-> budget]]
  <2>1. \A n \in 0 .. 0 : n = 0
    OBVIOUS
  <2>2. f = [n \in 0 .. 0 |-> step(f, n)]
    BY <2>1
  <2>3. Loop(f, q, 0, budget)
    BY <2>2 DEF Loop
  <2> HIDE DEF f
  <2> QED BY <2>3
<1>2. ASSUME NEW m \in 1 .. N, m - 1 \notin Bad PROVE m \notin Bad
  <2>1. m \in Nat /\ m - 1 \in 0 .. N /\ 0 .. m - 1 \subseteq 0 .. m
    OBVIOUS
  <2>2. PICK f : Loop(f, q, m - 1, budget)
    BY <1>2, <2>1
  <2>3. \A n \in 0 .. m - 1 : f[n] = step(f, n)
    BY <2>2 DEF Loop
  <2> DEFINE g == [n \in 0 .. m |-> step(f, n)]
  <2>4. \A n \in 0 .. m - 1 : g[n] = f[n]
    <3> HIDE DEF step
    <3> QED BY <2>1, <2>3
  <2>5. \A n \in 0 .. m : n # 0 => g[n - 1] = f[n - 1]
    <3>1. \A n \in 0 .. m : n # 0 => n - 1 \in 0 .. m - 1
      BY <2>1
    <3> HIDE DEF g
    <3> QED BY <2>4, <3>1
  <2>6. \A n \in 0 .. m : step(g, n) = step(f, n)
    <3> HIDE DEF g
    <3> QED BY <2>5
  <2>7. g = [n \in 0 .. m |-> step(g, n)]
    <3>1. g = [n \in 0 .. m |-> step(f, n)]
      OBVIOUS
    <3> HIDE DEF step, g
    <3> QED BY <2>6, <3>1
  <2> HIDE DEF g
  <2>8. Loop(g, q, m, budget)
    BY <2>7 DEF Loop
  <2> QED BY <2>8
<1>3. Bad = {}
  <2> SUFFICES ASSUME Bad # {} PROVE FALSE
    OBVIOUS
  <2>1. PICK m \in Bad : \A k \in Bad : m <= k
    <3>1. Bad \in SUBSET (0 .. N)
      OBVIOUS
    <3> HIDE DEF Bad
    <3> QED BY <3>1, LeastNumber
  <2>2. m \in 0 .. N
    OBVIOUS
  <2> HIDE DEF Bad
  <2>3. m \in 1 .. N /\ ~(m <= m - 1)
    BY <1>1, <2>2
  <2> QED BY <1>2, <2>1, <2>3
<1> QED BY <1>3

(* The loop takes the first m tasks, and stops at one that does not fit.     *)
LEMMA LoopTakesFirst ==
  ASSUME IsFiniteSet(Templates), NEW q, NEW N, Ordered(q, N), NEW budget \in Nat,
         NEW f, Loop(f, q, N, budget)
  PROVE  \A n \in 0 .. N : \E m \in 0 .. n :
            /\ f[n] = [ids |-> First(q, m), left |-> budget - Seconds(First(q, m))]
            /\ Seconds(First(q, m)) <= budget
            /\ m < n => budget < Seconds(First(q, m + 1))
<1> DEFINE P(n, m) ==
      /\ f[n] = [ids |-> First(q, m), left |-> budget - Seconds(First(q, m))]
      /\ Seconds(First(q, m)) <= budget
      /\ m < n => budget < Seconds(First(q, m + 1))
           Bad == {n \in 0 .. N : ~ \E m \in 0 .. n : P(n, m)}
<1>0. /\ N \in Nat
      /\ \A n \in 0 .. N : First(q, n) \in SUBSET Templates /\ Seconds(First(q, n)) \in Nat
      /\ \A n \in 1 .. N : Estimate[q[n]] \in Nat
  <2>1. \A n \in 1 .. N : Estimate[q[n]] \in Nat
    BY TemplateAssumption DEF Ordered
  <2> QED BY <2>1, FirstGrows, SecondsType DEF Ordered
<1>1. f[0] = [ids |-> {}, left |-> budget]
  BY <1>0 DEF Loop
<1>2. \A n \in 1 .. N :
        f[n] = IF Estimate[q[n]] <= f[n - 1].left
               THEN [ids |-> f[n - 1].ids \cup {q[n]}, left |-> f[n - 1].left - Estimate[q[n]]]
               ELSE f[n - 1]
  <2>1. \A n \in 0 .. N :
          f[n] = IF n = 0 THEN [ids |-> {}, left |-> budget]
                 ELSE IF Estimate[q[n]] <= f[n - 1].left
                      THEN [ids |-> f[n - 1].ids \cup {q[n]},
                            left |-> f[n - 1].left - Estimate[q[n]]]
                      ELSE f[n - 1]
    BY DEF Loop
  <2>2. \A n \in 1 .. N : n \in 0 .. N /\ n # 0
    BY <1>0
  <2> QED BY <2>1, <2>2
<1>3. 0 \notin Bad
  <2>1. First(q, 0) = {} /\ Seconds(First(q, 0)) = 0
    BY FirstGrows
  <2>2. P(0, 0)
    BY <1>1, <2>1
  <2>3. 0 \in 0 .. 0
    OBVIOUS
  <2> HIDE DEF P
  <2> QED BY <2>2, <2>3
<1>4. ASSUME NEW k \in 1 .. N, k - 1 \notin Bad PROVE k \notin Bad
  <2> DEFINE n == k - 1
  <2>1. k \in Nat /\ n \in 0 .. N /\ n + 1 = k /\ n < N /\ n \in Nat /\ N \in Nat
    BY <1>0
  <2> HIDE DEF n
  <2>2. PICK m \in 0 .. n : P(n, m)
    BY <1>4, <2>1 DEF n
  <2>3. m \in Nat /\ m \in 0 .. N /\ m < N /\ m + 1 \in 0 .. N /\ m + 1 \in 1 .. N
    BY <2>1
  <2>4. /\ First(q, m + 1) = First(q, m) \cup {q[m + 1]}
        /\ Seconds(First(q, m + 1)) = Seconds(First(q, m)) + Estimate[q[m + 1]]
    BY <2>3, FirstGrows
  <2>5. f[k] = IF Estimate[q[k]] <= f[n].left
               THEN [ids |-> f[n].ids \cup {q[k]}, left |-> f[n].left - Estimate[q[k]]]
               ELSE f[n]
    BY <1>2 DEF n
  <2>6. /\ Seconds(First(q, m)) \in Nat /\ Seconds(First(q, m + 1)) \in Nat
        /\ Estimate[q[k]] \in Nat /\ Estimate[q[m + 1]] \in Nat
    BY <1>0, <2>3
  <2>7. f[n].ids = First(q, m) /\ f[n].left = budget - Seconds(First(q, m))
    BY <2>2
  <2>8. CASE m = n /\ Estimate[q[k]] <= f[n].left
    <3>1. f[k] = [ids |-> First(q, k), left |-> budget - Seconds(First(q, k))]
      <4>1. f[k] = [ids |-> First(q, m) \cup {q[k]},
                    left |-> (budget - Seconds(First(q, m))) - Estimate[q[k]]]
        BY <2>5, <2>7, <2>8
      <4>2. m + 1 = k
        BY <2>1, <2>8
      <4>3. /\ First(q, k) = First(q, m) \cup {q[k]}
            /\ Seconds(First(q, k)) = Seconds(First(q, m)) + Estimate[q[k]]
        BY <2>4, <4>2
      <4>4. budget - Seconds(First(q, k)) = (budget - Seconds(First(q, m))) - Estimate[q[k]]
        BY <2>6, <4>3
      <4> QED BY <4>1, <4>3, <4>4
    <3>2. Seconds(First(q, k)) <= budget
      <4>1. m + 1 = k
        BY <2>1, <2>8
      <4>2. Seconds(First(q, k)) = Seconds(First(q, m)) + Estimate[q[k]]
        BY <2>4, <4>1
      <4>3. Estimate[q[k]] <= budget - Seconds(First(q, m))
        BY <2>7, <2>8
      <4> QED BY <1>0, <2>6, <4>2, <4>3
    <3>3. P(k, k) /\ k \in 0 .. k
      BY <2>1, <3>1, <3>2
    <3> HIDE DEF P
    <3> QED BY <3>3
  <2>9. CASE m = n /\ ~(Estimate[q[k]] <= f[n].left)
    <3>1. budget < Seconds(First(q, m + 1))
      <4>1. Seconds(First(q, m + 1)) = Seconds(First(q, m)) + Estimate[q[k]]
        BY <2>1, <2>4, <2>9
      <4>2. ~(Estimate[q[k]] <= budget - Seconds(First(q, m)))
        BY <2>7, <2>9
      <4> QED BY <1>0, <2>6, <4>1, <4>2
    <3>2. P(k, m) /\ m \in 0 .. k
      BY <2>1, <2>2, <2>5, <2>9, <3>1
    <3> HIDE DEF P
    <3> QED BY <3>2
  <2>10. CASE m < n
    <3>1. budget < Seconds(First(q, m + 1))
      BY <2>2, <2>10
    <3>2. Estimate[q[m + 1]] <= Estimate[q[k]]
      BY <2>1, <2>3, <2>10 DEF Ordered
    <3>3. ~(Estimate[q[k]] <= f[n].left)
      BY <2>4, <2>6, <2>7, <3>1, <3>2
    <3>4. P(k, m) /\ m \in 0 .. k
      BY <2>1, <2>2, <2>5, <3>1, <3>3
    <3> HIDE DEF P
    <3> QED BY <3>4
  <2>11. m = n \/ m < n
    BY <2>1
  <2> QED BY <2>8, <2>9, <2>10, <2>11
<1>5. Bad = {}
  <2> SUFFICES ASSUME Bad # {} PROVE FALSE
    OBVIOUS
  <2>1. PICK m \in Bad : \A k \in Bad : m <= k
    <3>1. Bad \in SUBSET (0 .. N)
      OBVIOUS
    <3> HIDE DEF Bad
    <3> QED BY <1>0, <3>1, LeastNumber
  <2>2. m \in 0 .. N
    OBVIOUS
  <2> HIDE DEF Bad
  <2>3. m \in 1 .. N /\ ~(m <= m - 1)
    BY <1>0, <1>3, <2>2
  <2> QED BY <1>4, <2>1, <2>3
<1> QED BY <1>5

(* The choice recommendForBudget makes: it fits, and none that fits is       *)
(* larger.                                                                   *)
LEMMA GreedyIsBest ==
  ASSUME NEW C \in SUBSET Templates, NEW q \in ShortestFirst(C), NEW budget \in Nat
  PROVE  /\ RecommendForBudget(q, budget) \subseteq C
         /\ Seconds(RecommendForBudget(q, budget)) <= budget
         /\ \A S \in SUBSET {t \in C : Estimate[t] > 0} :
              Seconds(S) <= budget => Cardinality(S) <= Cardinality(RecommendForBudget(q, budget))
<1> DEFINE all == {t \in C : Estimate[t] > 0}
           N == Cardinality(all)
           f == CHOOSE it : Loop(it, q, N, budget)
<1>1. IsFiniteSet(Templates)
  BY TemplateAssumption, FS_AddElement DEF Templates
<1>2. /\ all \in SUBSET Templates /\ IsFiniteSet(all) /\ N \in Nat
      /\ \A S \in SUBSET all : IsFiniteSet(S) /\ Cardinality(S) \in Nat /\ Cardinality(S) <= N
                               /\ S \in SUBSET Templates /\ Seconds(S) \in Nat
  <2>1. all \in SUBSET Templates
    OBVIOUS
  <2> HIDE DEF all
  <2>2. IsFiniteSet(all)
    BY <1>1, <2>1, FS_Subset
  <2> QED BY <1>1, <2>1, <2>2, FS_Subset, FS_CardinalityType, SecondsType
<1>3. /\ q \in [1 .. N -> all]
      /\ \A i, j \in 1 .. N : i # j => q[i] # q[j]
      /\ \A i, j \in DOMAIN q : i < j => Estimate[q[i]] <= Estimate[q[j]]
  BY DEF ShortestFirst, SetToSeqs
<1> HIDE DEF all
<1>4. Ordered(q, N) /\ Len(q) = N
  BY <1>2, <1>3 DEF Ordered
<1> HIDE DEF N
<1>5. RecommendForBudget(q, budget) = f[N].ids
  BY <1>4 DEF RecommendForBudget, Loop
<1>6. Loop(f, q, N, budget)
  BY <1>2, LoopExists
<1> HIDE DEF f
<1>7. N \in 0 .. N
  BY <1>2
<1>8. PICK m \in 0 .. N :
        /\ f[N] = [ids |-> First(q, m), left |-> budget - Seconds(First(q, m))]
        /\ Seconds(First(q, m)) <= budget
        /\ m < N => budget < Seconds(First(q, m + 1))
  BY <1>1, <1>4, <1>6, <1>7, LoopTakesFirst
<1>9. RecommendForBudget(q, budget) = First(q, m)
  BY <1>5, <1>8
<1>10. m \in Nat /\ \A n \in 0 .. N : First(q, n) \subseteq all /\ Cardinality(First(q, n)) = n
  BY <1>1, <1>2, <1>3, <1>4, FirstCounted DEF First
<1>11. First(q, N) = all
  BY <1>2, <1>7, <1>10, FS_Subset DEF N
<1>12. ASSUME NEW S \in SUBSET all, Seconds(S) <= budget
       PROVE  Cardinality(S) <= m
  <2>1. CASE m = N
    BY <1>2, <2>1
  <2>2. CASE m < N
    <3> SUFFICES ASSUME ~(Cardinality(S) <= m) PROVE FALSE
      OBVIOUS
    <3>1. m + 1 \in 0 .. N /\ Cardinality(S) >= m + 1
      BY <1>2, <1>10, <2>2
    <3>2. Seconds(S) >= Seconds(First(q, m + 1))
      BY <1>1, <1>4, <1>11, <3>1, FirstIsCheapest
    <3>3. Seconds(First(q, m + 1)) \in Nat /\ Seconds(S) \in Nat
      BY <1>2, <1>10, <3>1
    <3> QED BY <1>8, <1>12, <2>2, <3>2, <3>3
  <2> QED BY <1>2, <2>1, <2>2
<1>13. all \subseteq C /\ Cardinality(First(q, m)) = m /\ First(q, m) \subseteq all
  BY <1>10 DEF all
<1> QED BY <1>8, <1>9, <1>12, <1>13 DEF all

LEMMA RecommendsStep ==
  ASSUME WebTyped, RecommendsTheMost, [WebNext]_webVars
  PROVE  RecommendsTheMost'
<1>1. CASE today'.picks = today.picks \/ today'.picks = None
  BY <1>1 DEF RecommendsTheMost
<1>2. ASSUME NEW b \in Budgets, ApplyRecommendation(b) PROVE RecommendsTheMost'
  <2>1. PICK q \in ShortestFirst(Candidates) :
          today' = [today EXCEPT !.picks = [budget |-> b, from |-> Candidates,
                                            ids |-> RecommendForBudget(q, b)], !.drawn = now]
    BY <1>2 DEF ApplyRecommendation, Draw
  <2>2. today'.picks = [budget |-> b, from |-> Candidates, ids |-> RecommendForBudget(q, b)]
    BY <2>1 DEF WebTyped
  <2>3. Candidates \in SUBSET Templates /\ b \in Nat
    BY TemplateAssumption DEF Candidates, Templates
  <2> HIDE DEF Candidates
  <2>4. /\ today'.picks.budget = b /\ today'.picks.from = Candidates
        /\ today'.picks.ids = RecommendForBudget(q, b)
    BY <2>2
  <2> QED BY <2>3, <2>4, GreedyIsBest DEF RecommendsTheMost
<1>3. ASSUME \/ \E c \in Characters : SelectCharacter(c)
             \/ \E t \in Templates : StartTimer(t)
             \/ \E i \in DOMAIN calls :
                  DurationStored(i) \/ StacksRead(i) \/ \E list : Reloaded(i, list)
      PROVE  today'.picks = today.picks \/ today'.picks = None
  BY <1>3 DEF SelectCharacter, StartTimer, DurationStored, Reloaded, StacksRead, Draw, WebTyped
<1>5. ASSUME NEW i \in DOMAIN calls, ListRead(i) \/ TimesRead(i)
      PROVE  today' = today \/ \E list : Reloaded(i, list)
  BY <1>5, AnswerEffect
<1>4. ASSUME \/ Tick \/ UNCHANGED webVars
             \/ \E t \in Tasks : ToggleCompletion(t)
             \/ UseCharge \/ UndoCharge \/ StopTimer
             \/ \E i \in DOMAIN calls :
                  ToggleStored(i) \/ UseStored(i) \/ LatestFound(i) \/ UndoStored(i)
      PROVE  today'.picks = today.picks
  BY <1>4 DEF Tick, webVars, ToggleCompletion, UseCharge, UndoCharge, StopTimer, ToggleStored,
              UseStored, LatestFound, UndoStored
<1> QED BY <1>1, <1>2, <1>3, <1>4, <1>5, WebStepCases

(* The greedy choice of recommendForBudget fits the budget, and no choice of *)
(* the page's open tasks that fits has more of them.                         *)
THEOREM RecommendsTheMostHolds == WebSpec => []RecommendsTheMost
<1>1. WebInit => WebTyped /\ RecommendsTheMost
  <2>1. WebInit => RecommendsTheMost
    BY DEF WebInit, RecommendsTheMost
  <2> QED BY <2>1, WebTypedKept
<1>2. WebTyped /\ RecommendsTheMost /\ [WebNext]_webVars => (WebTyped /\ RecommendsTheMost)'
  BY RecommendsStep, WebTypedKept
<1> QED BY <1>1, <1>2, PTL DEF WebSpec

-----------------------------------------------------------------------------
(* The build score, for any characters, contents, presets and calls.         *)

(* Types: what the page sends and what a reply brings.                       *)
LEMMA ScoreReads ==
  ASSUME ScoreTypeOK, NEW c \in Chars, NEW ends \in BOOLEAN
  PROVE  /\ GetBuildScore(scores, c) \in Contents
         /\ Got(scores, c, ends) \in Reply
         /\ GotList(c, ends) \in Reply
<1>1. GetBuildScore(scores, c) \in Contents
  BY BuildScoreAssumption DEF ScoreTypeOK, GetBuildScore
<1>2. Got(scores, c, ends) \in Reply
  BY <1>1 DEF Got, Reply
<1>3. ListPresets(c) \subseteq PresetIds
  BY DEF ListPresets, ScoreTypeOK, Preset
<1>4. GotList(c, ends) \in Reply
  BY <1>3 DEF GotList, Reply
<1> QED BY <1>1, <1>2, <1>4

LEMMA ScoreWrites ==
  ASSUME ScoreTypeOK, NEW c \in Chars \cup {None}
  PROVE  /\ c \in Chars => Append(writes, [kind |-> "score", char |-> c]) \in Seq(Write)
         /\ Append(writes, [kind |-> "presets", char |-> c]) \in Seq(Write)
<1>1. /\ c \in Chars => [kind |-> "score", char |-> c] \in Write
      /\ [kind |-> "presets", char |-> c] \in Write
  BY DEF Write
<1> QED BY <1>1 DEF ScoreTypeOK

LEMMA ScoreInitType == ScoreInit => ScoreTypeOK
<1> SUFFICES ASSUME ScoreInit PROVE ScoreTypeOK
  OBVIOUS
<1>1. ui \in Page
  BY DEF ScoreInit, Page
<1>2. replies \in Seq(Reply) /\ writes \in Seq(Write)
  BY DEF ScoreInit
<1> QED BY <1>1, <1>2 DEF ScoreInit, ScoreTypeOK

(* Typed: the page loads and edits.                                          *)
LEMMA ScoreEditTyped ==
  ASSUME ScoreTypeOK,
         \/ \E c \in Chars \cup {None} : Switch(c)
         \/ Reload \/ Save \/ Reset
         \/ \E content \in Contents : Edit(content)
  PROVE  ScoreTypeOK'
<1> USE DEF ScoreTypeOK
<1>1. ASSUME NEW c \in Chars \cup {None}, Switch(c) PROVE ScoreTypeOK'
  <2>1. CASE c = None
    BY <1>1, <2>1 DEF Switch, Page
  <2>2. CASE c # None
    <3>1. c \in Chars
      BY <2>2
    <3>2. ui' \in Page
      BY <1>1, <3>1, <2>2 DEF Switch, Page
    <3>3. << Got(scores, c, FALSE), GotList(c, FALSE) >> \in Seq(Reply)
      <4> DEFINE g == Got(scores, c, FALSE)
                 l == GotList(c, FALSE)
      <4>1. g \in Reply /\ l \in Reply
        BY <3>1, ScoreReads
      <4> HIDE DEF g, l
      <4>2. <<g, l>> \in Seq(Reply)
        BY <4>1
      <4> QED BY <4>2 DEF g, l
    <3>4. replies' \in Seq(Reply)
      <4> DEFINE two == << Got(scores, c, FALSE), GotList(c, FALSE) >>
      <4>1. replies' = replies \o two
        BY <1>1, <2>2 DEF Switch
      <4> HIDE DEF two
      <4> QED BY <3>3, <4>1, ConcatProperties DEF two
    <3> QED BY <1>1, <3>2, <3>4 DEF Switch
  <2> QED BY <2>1, <2>2
<1>2. CASE Reload
  <2>1. Got(scores, ui.char, FALSE) \in Reply
    BY <1>2, ScoreReads DEF Reload, Page
  <2>2. ui' \in Page
    BY <1>2 DEF Reload, Page
  <2>3. Append(replies, Got(scores, ui.char, FALSE)) \in Seq(Reply)
    BY <2>1, AppendProperties
  <2> QED BY <1>2, <2>2, <2>3 DEF Reload
<1>3. CASE Save \/ Reset
  <2>1. ui.char \in Chars /\ ui.state \in Shown
    BY <1>3 DEF Save, Reset, IsDirty, Page
  <2>2. ui.state.content \in Contents
    BY <2>1 DEF Shown
  <2>3. writes' \in Seq(Write)
    <3>1. writes' = Append(writes, [kind |-> "score", char |-> ui.char])
      BY <1>3 DEF Save, Reset
    <3> QED BY <2>1, <3>1, ScoreWrites
  <2>4. ui' \in Page
    BY <1>3 DEF Save, Reset, Page
  <2>5. scores' \in [Chars -> Contents \cup {None}]
    BY <1>3, <2>1, <2>2 DEF Save, Reset
  <2> QED BY <1>3, <2>3, <2>4, <2>5 DEF Save, Reset
<1>4. ASSUME NEW content \in Contents, Edit(content) PROVE ScoreTypeOK'
  <2>1. ui' = [ui EXCEPT !.state = [ui.state EXCEPT !.content = content]]
    BY <1>4 DEF Edit
  <2>2. [ui.state EXCEPT !.content = content] \in Shown
    BY <1>4 DEF Edit, Page, Shown
  <2>3. ui' \in Page
    BY <2>1, <2>2 DEF Page
  <2> QED BY <1>4, <2>3 DEF Edit
<1> QED BY <1>1, <1>2, <1>3, <1>4

(* Typed: the replies.                                                       *)
LEMMA ScoreReplyTyped ==
  ASSUME ScoreTypeOK, ReplyArrives \/ \E ok \in BOOLEAN : Persisted(ok)
  PROVE  ScoreTypeOK'
<1> USE DEF ScoreTypeOK
<1>1. ASSUME NEW ok \in BOOLEAN, Persisted(ok) PROVE ScoreTypeOK'
  <2>1. Head(writes) \in Write /\ Tail(writes) \in Seq(Write)
    BY <1>1, HeadTailProperties DEF Persisted
  <2>2. [kind |-> IF ok THEN "saved" ELSE "failed", write |-> Head(writes)] \in Reply
    BY <2>1 DEF Reply
  <2> QED BY <1>1, <2>1, <2>2 DEF Persisted
<1>2. CASE ReplyArrives
  <2> DEFINE r == Head(replies)
  <2>1. r \in Reply /\ Tail(replies) \in Seq(Reply)
    BY <1>2, HeadTailProperties DEF ReplyArrives
  <2>2. /\ ScoreArrives(r) \/ ListArrives(r) \/ PresetArrives(r)
           \/ ScoreSaved(r) \/ PresetsSaved(r) \/ SaveFailed(r)
        /\ UNCHANGED <<scores, presets, writes, dialog>>
    BY <1>2 DEF ReplyArrives
  <2> HIDE DEF r
  <2>3. CASE ScoreArrives(r)
    <3>1. r.char \in Chars /\ r.content \in Contents /\ r.ends \in BOOLEAN
      BY <2>1, <2>3 DEF ScoreArrives, Reply
    <3>2. [of |-> r.char, content |-> r.content] \in Shown
      BY <3>1 DEF Shown
    <3>3. ui' \in Page
      BY <2>3, <3>1, <3>2 DEF ScoreArrives, Page
    <3> QED BY <2>1, <2>2, <2>3, <3>3 DEF ScoreArrives, r
  <2>4. CASE ListArrives(r)
    <3>1. r.ids \in SUBSET PresetIds /\ r.ends \in BOOLEAN
      BY <2>1, <2>4 DEF ListArrives, Reply
    <3>2. ui' \in Page
      BY <2>4, <3>1 DEF ListArrives, Page
    <3> QED BY <2>1, <2>2, <2>4, <3>2 DEF ListArrives, r
  <2>5. CASE PresetArrives(r)
    <3>1. r.content \in Contents
      BY <2>1, <2>5 DEF PresetArrives, Reply
    <3>2. (IF ui.state = None THEN None ELSE [ui.state EXCEPT !.content = r.content])
            \in Shown \cup {None}
      BY <3>1 DEF Page, Shown
    <3>3. ui' \in Page
      BY <2>5, <3>2 DEF PresetArrives, Page
    <3> QED BY <2>1, <2>2, <2>5, <3>3 DEF PresetArrives, r
  <2>6. CASE ScoreSaved(r)
    <3>0. r.write.char \in Chars
      <4>1. r.write \in Write
        BY <2>1, <2>6 DEF ScoreSaved, Reply
      <4> QED BY <2>6, <4>1 DEF ScoreSaved, Write
    <3>1. ui' \in Page
      BY <2>6 DEF ScoreSaved, Page
    <3>2. Got(scores, r.write.char, TRUE) \in Reply
      BY <3>0, ScoreReads
    <3>3. Append(Tail(replies), Got(scores, r.write.char, TRUE)) \in Seq(Reply)
      BY <2>1, <3>2, AppendProperties
    <3> QED BY <2>2, <2>6, <3>1, <3>3 DEF ScoreSaved
  <2>8. CASE PresetsSaved(r)
    <3>0. r.write.char \in Chars \cup {None}
      <4>1. r.write \in Write
        BY <2>1, <2>8 DEF PresetsSaved, Reply
      <4> QED BY <2>8, <4>1 DEF PresetsSaved, Write
    <3>1. ui' \in Page
      BY <2>8 DEF PresetsSaved, Page
    <3>2. r.write.char # None => GotList(r.write.char, TRUE) \in Reply
      BY <3>0, ScoreReads
    <3>3. r.write.char # None => Append(Tail(replies), GotList(r.write.char, TRUE)) \in Seq(Reply)
      BY <2>1, <3>2, AppendProperties
    <3>4. replies' \in Seq(Reply)
      BY <2>1, <2>8, <3>3 DEF PresetsSaved
    <3> QED BY <2>2, <2>8, <3>1, <3>4 DEF PresetsSaved
  <2>7. CASE SaveFailed(r)
    <3>1. ui' \in Page
      BY <2>7 DEF SaveFailed, Page
    <3> QED BY <2>1, <2>2, <2>7, <3>1 DEF SaveFailed, r
  <2> QED BY <2>2, <2>3, <2>4, <2>5, <2>6, <2>7, <2>8
<1> QED BY <1>1, <1>2

(* Typed: the presets and their dialog.                                      *)
LEMMA ScorePresetTyped ==
  ASSUME ScoreTypeOK,
         \/ \E id \in PresetIds :
              \/ CreatePreset(id) \/ RenamePreset(id) \/ PresetGone(id)
              \/ ApplyPreset(id) \/ DeletePreset(id)
              \/ \E new \in PresetIds : ClonePreset(id, new)
         \/ ImportPresets \/ ImportCancelled
         \/ \E ids \in SUBSET PresetIds, content \in Contents :
              ImportChosen(ids, content) \/ ImportFails(ids, content)
  PROVE  ScoreTypeOK'
<1> USE DEF ScoreTypeOK
<1>0. ui.char \in Chars \cup {None} /\ Saving \in Page
  BY DEF Page, Saving
<1>1. ASSUME NEW id \in PresetIds, CreatePreset(id) PROVE ScoreTypeOK'
  <2>1. ui.char \in Chars /\ ui.state.content \in Contents
    BY <1>1 DEF CreatePreset, Page, Shown
  <2>2. [id |-> id, char |-> ui.char, for |-> ui.char, content |-> ui.state.content] \in Preset
    BY <2>1 DEF Preset
  <2>3. writes' \in Seq(Write)
    BY <1>1, <2>1, ScoreWrites DEF CreatePreset
  <2> QED BY <1>0, <1>1, <2>2, <2>3 DEF CreatePreset
<1>2. ASSUME NEW id \in PresetIds, NEW new \in PresetIds, ClonePreset(id, new) PROVE ScoreTypeOK'
  <2>1. PresetOf(id) \in presets
    BY <1>2 DEF ClonePreset, Exists, PresetOf
  <2>2. [PresetOf(id) EXCEPT !.id = new] \in Preset
    BY <2>1 DEF Preset
  <2>3. writes' \in Seq(Write)
    BY <1>0, <1>2, ScoreWrites DEF ClonePreset
  <2> QED BY <1>0, <1>2, <2>2, <2>3 DEF ClonePreset
<1>3. ASSUME NEW id \in PresetIds, RenamePreset(id) \/ DeletePreset(id) PROVE ScoreTypeOK'
  <2>1. writes' \in Seq(Write)
    BY <1>0, <1>3, ScoreWrites DEF RenamePreset, DeletePreset
  <2>2. presets' \subseteq presets
    BY <1>3 DEF RenamePreset, DeletePreset
  <2> QED BY <1>0, <1>3, <2>1, <2>2 DEF RenamePreset, DeletePreset
<1>4. ASSUME NEW id \in PresetIds, ApplyPreset(id) PROVE ScoreTypeOK'
  <2>1. PresetOf(id) \in presets
    BY <1>4 DEF ApplyPreset, Exists, PresetOf
  <2>2. PresetOf(id).content \in Contents
    BY <2>1 DEF Preset
  <2>3. [kind |-> "preset", content |-> PresetOf(id).content] \in Reply
    BY <2>2 DEF Reply
  <2>4. replies' \in Seq(Reply)
    BY <1>4, <2>3 DEF ApplyPreset
  <2> QED BY <1>0, <1>4, <2>4 DEF ApplyPreset
<1>5. ASSUME NEW id \in PresetIds, PresetGone(id) PROVE ScoreTypeOK'
  BY <1>5 DEF PresetGone, Page
<1>6. CASE ImportPresets \/ ImportCancelled
  <2>1. ui' \in Page /\ dialog' \in Chars \cup {None}
    BY <1>0, <1>6 DEF ImportPresets, ImportCancelled, Page
  <2> QED BY <1>6, <2>1 DEF ImportPresets, ImportCancelled
<1>7. ASSUME NEW ids \in SUBSET PresetIds, NEW content \in Contents,
             ImportChosen(ids, content) \/ ImportFails(ids, content)
      PROVE  ScoreTypeOK'
  <2>1. dialog \in Chars
    BY <1>7 DEF ImportChosen, ImportFails
  <2>2. presets' \in SUBSET Preset
    <3>1. {[id |-> id, char |-> dialog, for |-> dialog, content |-> content] : id \in ids}
            \subseteq Preset
      BY <2>1 DEF Preset
    <3> QED BY <1>7, <3>1 DEF ImportChosen, ImportFails
  <2>3. writes' \in Seq(Write)
    BY <1>7, <2>1, ScoreWrites DEF ImportChosen, ImportFails
  <2>4. ui' \in Page
    BY <1>7 DEF ImportChosen, ImportFails, Page
  <2> QED BY <1>7, <2>2, <2>3, <2>4 DEF ImportChosen, ImportFails
<1> QED BY <1>1, <1>2, <1>3, <1>4, <1>5, <1>6, <1>7

(* The steps, by what they are about.                                        *)
LEMMA ScoreStepType == ScoreTypeOK /\ [ScoreNext]_scoreVars => ScoreTypeOK'
<1> SUFFICES ASSUME ScoreTypeOK, [ScoreNext]_scoreVars PROVE ScoreTypeOK'
  OBVIOUS
<1>1. CASE UNCHANGED scoreVars
  BY <1>1 DEF scoreVars, ScoreTypeOK
<1>2. CASE ScoreNext
  BY <1>2, ScoreEditTyped, ScoreReplyTyped, ScorePresetTyped DEF ScoreNext
<1> QED BY <1>1, <1>2

(* A preset belongs to the character it was made for, whichever is active    *)
(* when it is copied or its dialog closes (importJson, clone).               *)
THEOREM PresetsForTheChosenHolds == ScoreSpec => []PresetsForTheChosen
<1>1. ScoreInit => ScoreTypeOK /\ PresetsForTheChosen
  <2>1. ScoreInit => PresetsForTheChosen
    BY DEF ScoreInit, PresetsForTheChosen
  <2> QED BY <2>1, ScoreInitType
<1>2. ASSUME ScoreTypeOK, PresetsForTheChosen, [ScoreNext]_scoreVars
      PROVE  PresetsForTheChosen'
  <2>1. ASSUME NEW id \in PresetIds, CreatePreset(id) PROVE PresetsForTheChosen'
    BY <1>2, <2>1 DEF CreatePreset, PresetsForTheChosen
  <2>2. ASSUME NEW id \in PresetIds, NEW new \in PresetIds, ClonePreset(id, new)
        PROVE  PresetsForTheChosen'
    <3>1. PresetOf(id) \in presets
      BY <2>2 DEF ClonePreset, Exists, PresetOf
    <3> DEFINE p == [PresetOf(id) EXCEPT !.id = new]
    <3>2. p.char = p.for
      BY <1>2, <3>1 DEF ScoreTypeOK, Preset, PresetsForTheChosen
    <3>3. presets' = presets \cup {p}
      BY <2>2 DEF ClonePreset
    <3> HIDE DEF p
    <3> QED BY <1>2, <3>2, <3>3 DEF PresetsForTheChosen
  <2>3. ASSUME NEW ids \in SUBSET PresetIds, NEW content \in Contents,
               ImportChosen(ids, content) \/ ImportFails(ids, content)
        PROVE  PresetsForTheChosen'
    BY <1>2, <2>3 DEF ImportChosen, ImportFails, PresetsForTheChosen
  <2>4. ASSUME \/ UNCHANGED scoreVars
               \/ \E c \in Chars \cup {None} : Switch(c)
               \/ Reload \/ Save \/ Reset
               \/ \E content \in Contents : Edit(content)
               \/ ReplyArrives
               \/ \E ok \in BOOLEAN : Persisted(ok)
               \/ \E id \in PresetIds : RenamePreset(id) \/ PresetGone(id)
                                        \/ ApplyPreset(id) \/ DeletePreset(id)
               \/ ImportPresets \/ ImportCancelled
        PROVE  presets' \subseteq presets
    BY <2>4 DEF scoreVars, Switch, Reload, Save, Reset, Edit, ReplyArrives, Persisted,
                RenamePreset, PresetGone, ApplyPreset, DeletePreset, ImportPresets,
                ImportCancelled
  <2>5. presets' \subseteq presets => PresetsForTheChosen'
    BY <1>2 DEF PresetsForTheChosen
  <2> QED BY <1>2, <2>1, <2>2, <2>3, <2>4, <2>5 DEF ScoreNext
<1> QED BY <1>1, <1>2, ScoreStepType, PTL DEF ScoreSpec

-----------------------------------------------------------------------------
(* What is stored and what the page shows.  A score the page shows, or a     *)
(* reply is bringing, is the stored one unless the page loads again after    *)
(* it: a reply further back, or a save that has not ended, sees to that.     *)
IsStored(c, content) == content = GetBuildScore(scores, c)

ReadsAnew(r) == r.kind \in {"get", "failed"} \/ (r.kind = "saved" /\ r.write.kind = "score")

LoadsAfter(k) ==
  \/ \E j \in DOMAIN replies : j > k /\ ReadsAnew(replies[j])
  \/ \E j \in DOMAIN writes : writes[j].kind = "score"

SavedInv ==
  /\ ui.state # None =>
       /\ ui.baseline # None
       /\ failed \/ LoadsAfter(0) \/ IsStored(ui.state.of, ui.baseline)
  /\ \A k \in DOMAIN replies : replies[k].kind = "get" =>
       LoadsAfter(k) \/ IsStored(replies[k].char, replies[k].content)

(* The page keeps the score it has loaded.                                   *)
KeepsLoaded ==
  ui'.state # None => /\ ui.state # None /\ ui'.state.of = ui.state.of
                      /\ ui'.baseline = ui.baseline

(* Calls and the ends of saves: replies queue up behind those there are.     *)
LEMMA SavedGrows ==
  ASSUME SavedInv, replies \in Seq(Reply), replies' \in Seq(Reply),
         Len(replies) <= Len(replies'),
         \A j \in 1 .. Len(replies) : replies'[j] = replies[j],
         \A j \in 1 .. Len(replies') : j > Len(replies) /\ replies'[j].kind = "get" =>
            IsStored(replies'[j].char, replies'[j].content),
         (\E j \in DOMAIN writes : writes[j].kind = "score") =>
            \/ \E j \in DOMAIN writes' : writes'[j].kind = "score"
            \/ \E j \in 1 .. Len(replies') : j > Len(replies) /\ ReadsAnew(replies'[j]),
         KeepsLoaded, scores' = scores, failed' = failed
  PROVE  SavedInv'
<1>1. /\ DOMAIN replies = 1 .. Len(replies) /\ Len(replies) \in Nat
      /\ DOMAIN replies' = 1 .. Len(replies') /\ Len(replies') \in Nat
  OBVIOUS
<1>2. \A c, content : IsStored(c, content) => IsStored(c, content)'
  BY DEF IsStored, GetBuildScore
<1>3. ASSUME NEW k \in 0 .. Len(replies), LoadsAfter(k)
      PROVE  LoadsAfter(k)'
  <2>1. ASSUME NEW j \in DOMAIN replies, j > k, ReadsAnew(replies[j])
        PROVE  LoadsAfter(k)'
    <3>1. j \in DOMAIN replies' /\ replies'[j] = replies[j]
      BY <1>1
    <3>2. ReadsAnew(replies'[j])
      BY <2>1, <3>1
    <3> QED BY <2>1, <3>1, <3>2 DEF LoadsAfter, ReadsAnew
  <2>2. ASSUME NEW j \in 1 .. Len(replies'), j > Len(replies), ReadsAnew(replies'[j])
        PROVE  LoadsAfter(k)'
    <3>1. j \in DOMAIN replies' /\ j > k
      BY <1>1, <2>2
    <3> QED BY <2>2, <3>1 DEF LoadsAfter, ReadsAnew
  <2>3. (\E j \in DOMAIN writes' : writes'[j].kind = "score") => LoadsAfter(k)'
    BY DEF LoadsAfter
  <2> QED BY <1>3, <2>1, <2>2, <2>3 DEF LoadsAfter
<1>4. (ui.state # None => /\ ui.baseline # None
                          /\ failed \/ LoadsAfter(0) \/ IsStored(ui.state.of, ui.baseline))'
  <2>1. LoadsAfter(0) => LoadsAfter(0)'
    BY <1>1, <1>3
  <2>2. ui'.state # None =>
          /\ ui.state # None /\ ui'.state.of = ui.state.of /\ ui'.baseline = ui.baseline
    BY DEF KeepsLoaded
  <2>3. ui'.state # None => (IsStored(ui.state.of, ui.baseline) => IsStored(ui.state.of, ui.baseline)')
    BY <2>2 DEF IsStored, GetBuildScore
  <2> QED BY <2>1, <2>2, <2>3 DEF SavedInv
<1>5. ASSUME NEW k \in DOMAIN replies', replies'[k].kind = "get"
      PROVE  LoadsAfter(k)' \/ IsStored(replies[k].char, replies[k].content)'
  <2>1. CASE k \in 1 .. Len(replies)
    <3>1. replies'[k] = replies[k] /\ k \in DOMAIN replies /\ k \in 0 .. Len(replies)
      BY <1>1, <2>1
    <3>2. LoadsAfter(k) \/ IsStored(replies[k].char, replies[k].content)
      BY <1>5, <3>1 DEF SavedInv
    <3>3. IsStored(replies[k].char, replies[k].content)
            => IsStored(replies[k].char, replies[k].content)'
      BY <3>1 DEF IsStored, GetBuildScore
    <3> QED BY <1>3, <3>1, <3>2, <3>3
  <2>2. CASE k > Len(replies)
    <3>1. IsStored(replies'[k].char, replies'[k].content)
      BY <1>1, <1>5, <2>2
    <3> QED BY <3>1 DEF IsStored, GetBuildScore
  <2> QED BY <1>1, <2>1, <2>2
<1> QED BY <1>4, <1>5 DEF SavedInv

(* A reply that brings no score: the others come forward.                    *)
LEMMA SavedShifts ==
  ASSUME SavedInv, replies \in Seq(Reply), replies' \in Seq(Reply), replies # <<>>,
         Len(replies) - 1 <= Len(replies'),
         \A j \in 1 .. Len(replies) - 1 : replies'[j] = replies[j + 1],
         \A j \in 1 .. Len(replies') : j >= Len(replies) /\ replies'[j].kind = "get" =>
            IsStored(replies'[j].char, replies'[j].content),
         ReadsAnew(replies[1]) =>
            \/ failed'
            \/ \E j \in 1 .. Len(replies') : j >= Len(replies) /\ ReadsAnew(replies'[j]),
         failed => failed',
         KeepsLoaded, scores' = scores, writes' = writes
  PROVE  SavedInv'
<1>1. /\ DOMAIN replies = 1 .. Len(replies) /\ Len(replies) \in Nat /\ Len(replies) >= 1
      /\ DOMAIN replies' = 1 .. Len(replies') /\ Len(replies') \in Nat
  OBVIOUS
<1>2. ASSUME NEW k \in 0 .. Len(replies) - 1, LoadsAfter(k + 1)
      PROVE  LoadsAfter(k)'
  <2>1. ASSUME NEW j \in DOMAIN replies, j > k + 1, ReadsAnew(replies[j])
        PROVE  LoadsAfter(k)'
    <3>1. j - 1 \in 1 .. Len(replies) - 1 /\ (j - 1) + 1 = j /\ j - 1 > k
          /\ j - 1 \in DOMAIN replies'
      BY <1>1, <2>1
    <3>2. replies'[j - 1] = replies[j]
      BY <3>1
    <3>3. ReadsAnew(replies'[j - 1])
      BY <2>1, <3>2
    <3> QED BY <3>1, <3>3 DEF LoadsAfter, ReadsAnew
  <2>2. (\E j \in DOMAIN writes : writes[j].kind = "score") => LoadsAfter(k)'
    BY DEF LoadsAfter
  <2> QED BY <1>2, <2>1, <2>2 DEF LoadsAfter
<1>3. ASSUME LoadsAfter(0) PROVE failed' \/ LoadsAfter(0)'
  <2>1. ASSUME NEW j \in DOMAIN replies, j > 0, ReadsAnew(replies[j]), j # 1
        PROVE  LoadsAfter(1)
    <3>1. j > 1
      BY <1>1, <2>1
    <3> QED BY <2>1, <3>1 DEF LoadsAfter
  <2>2. (\E j \in DOMAIN writes : writes[j].kind = "score") => LoadsAfter(1)
    BY DEF LoadsAfter
  <2>3. ReadsAnew(replies[1]) \/ LoadsAfter(1)
    BY <1>3, <2>1, <2>2 DEF LoadsAfter
  <2>4. LoadsAfter(1) => LoadsAfter(0)'
    <3>1. 0 \in 0 .. Len(replies) - 1 /\ 0 + 1 = 1
      BY <1>1
    <3> QED BY <1>2, <3>1
  <2>5. (\E j \in 1 .. Len(replies') : j >= Len(replies) /\ ReadsAnew(replies'[j])) => LoadsAfter(0)'
    BY <1>1 DEF LoadsAfter, ReadsAnew
  <2> QED BY <2>3, <2>4, <2>5
<1>4. (ui.state # None => /\ ui.baseline # None
                          /\ failed \/ LoadsAfter(0) \/ IsStored(ui.state.of, ui.baseline))'
  <2>1. ui'.state # None =>
          /\ ui.state # None /\ ui'.state.of = ui.state.of /\ ui'.baseline = ui.baseline
    BY DEF KeepsLoaded
  <2>2. ui'.state # None => (IsStored(ui.state.of, ui.baseline) => IsStored(ui.state.of, ui.baseline)')
    BY <2>1 DEF IsStored, GetBuildScore
  <2> QED BY <1>3, <2>1, <2>2 DEF SavedInv
<1>5. ASSUME NEW k \in DOMAIN replies', replies'[k].kind = "get"
      PROVE  LoadsAfter(k)' \/ IsStored(replies[k].char, replies[k].content)'
  <2>1. CASE k \in 1 .. Len(replies) - 1
    <3>1. /\ replies'[k] = replies[k + 1] /\ k + 1 \in DOMAIN replies
          /\ k \in 0 .. Len(replies) - 1
      BY <1>1, <2>1
    <3>2. LoadsAfter(k + 1) \/ IsStored(replies[k + 1].char, replies[k + 1].content)
      BY <1>5, <3>1 DEF SavedInv
    <3>3. IsStored(replies[k + 1].char, replies[k + 1].content)
            => IsStored(replies[k].char, replies[k].content)'
      BY <3>1 DEF IsStored, GetBuildScore
    <3> QED BY <1>2, <3>1, <3>2, <3>3
  <2>2. CASE k >= Len(replies)
    <3>1. IsStored(replies'[k].char, replies'[k].content)
      BY <1>1, <1>5, <2>2
    <3> QED BY <3>1 DEF IsStored, GetBuildScore
  <2> QED BY <1>1, <2>1, <2>2
<1> QED BY <1>4, <1>5 DEF SavedInv

(* The score of a reply is shown: what was known of the reply is now known   *)
(* of the page.                                                              *)
LEMMA SavedLoads ==
  ASSUME SavedInv, ScoreTypeOK, replies # <<>>, ScoreArrives(Head(replies)),
         scores' = scores, writes' = writes
  PROVE  SavedInv'
<1> DEFINE r == Head(replies)
<1>1. /\ DOMAIN replies = 1 .. Len(replies) /\ Len(replies) \in Nat /\ Len(replies) >= 1
      /\ r = replies[1] /\ r \in Reply
      /\ replies' = Tail(replies) /\ replies' \in Seq(Reply)
      /\ Len(replies') = Len(replies) - 1 /\ DOMAIN replies' = 1 .. Len(replies) - 1
      /\ \A j \in 1 .. Len(replies) - 1 : replies'[j] = replies[j + 1]
  BY HeadTailProperties DEF ScoreTypeOK, ScoreArrives
<1>2. r.kind = "get" /\ r.char \in Chars /\ r.content \in Contents
  BY <1>1 DEF ScoreArrives, Reply
<1>3. ui'.state = [of |-> r.char, content |-> r.content] /\ ui'.baseline = r.content
  BY DEF ScoreArrives, ScoreTypeOK, Page
<1> HIDE DEF r
<1>4. ASSUME NEW k \in 0 .. Len(replies) - 1, LoadsAfter(k + 1)
      PROVE  LoadsAfter(k)'
  <2>1. ASSUME NEW j \in DOMAIN replies, j > k + 1, ReadsAnew(replies[j])
        PROVE  LoadsAfter(k)'
    <3>1. j - 1 \in 1 .. Len(replies) - 1 /\ (j - 1) + 1 = j /\ j - 1 > k
          /\ j - 1 \in DOMAIN replies'
      BY <1>1, <2>1
    <3>2. replies'[j - 1] = replies[j]
      BY <1>1, <3>1
    <3>3. ReadsAnew(replies'[j - 1])
      BY <2>1, <3>2
    <3> QED BY <3>1, <3>3 DEF LoadsAfter, ReadsAnew
  <2>2. (\E j \in DOMAIN writes : writes[j].kind = "score") => LoadsAfter(k)'
    BY DEF LoadsAfter
  <2> QED BY <1>4, <2>1, <2>2 DEF LoadsAfter
<1>5. (ui.state # None => /\ ui.baseline # None
                          /\ failed \/ LoadsAfter(0) \/ IsStored(ui.state.of, ui.baseline))'
  <2>1. ui'.baseline # None
    BY <1>2, <1>3, BuildScoreAssumption
  <2>2. LoadsAfter(1) \/ IsStored(r.char, r.content)
    BY <1>1, <1>2 DEF SavedInv
  <2>3. LoadsAfter(1) => LoadsAfter(0)'
    <3>1. 0 \in 0 .. Len(replies) - 1 /\ 0 + 1 = 1
      BY <1>1
    <3> QED BY <1>4, <3>1
  <2>4. IsStored(r.char, r.content) => IsStored(ui.state.of, ui.baseline)'
    BY <1>3 DEF IsStored, GetBuildScore
  <2> QED BY <2>1, <2>2, <2>3, <2>4
<1>6. ASSUME NEW k \in DOMAIN replies', replies'[k].kind = "get"
      PROVE  LoadsAfter(k)' \/ IsStored(replies[k].char, replies[k].content)'
  <2>1. /\ replies'[k] = replies[k + 1] /\ k + 1 \in DOMAIN replies
        /\ k \in 0 .. Len(replies) - 1
    BY <1>1
  <2>2. LoadsAfter(k + 1) \/ IsStored(replies[k + 1].char, replies[k + 1].content)
    BY <1>6, <2>1 DEF SavedInv
  <2>3. IsStored(replies[k + 1].char, replies[k + 1].content)
          => IsStored(replies[k].char, replies[k].content)'
    BY <2>1 DEF IsStored, GetBuildScore
  <2> QED BY <1>4, <2>1, <2>2, <2>3
<1> QED BY <1>5, <1>6 DEF SavedInv

(* A save or a reset: the page loads once it has ended.                      *)
LEMMA SavedWrites ==
  ASSUME SavedInv, ScoreTypeOK, Save \/ Reset
  PROVE  SavedInv'
<1> DEFINE w == [kind |-> "score", char |-> ui.char]
<1>1. writes' = Append(writes, w) /\ w.kind = "score"
  BY DEF Save, Reset
<1> HIDE DEF w
<1>2. writes \in Seq(Write) /\ Len(writes) \in Nat
  BY DEF ScoreTypeOK
<1>3. Len(writes) + 1 \in DOMAIN writes' /\ writes'[Len(writes) + 1] = w
  BY <1>1, <1>2
<1>4. \E j \in DOMAIN writes' : writes'[j].kind = "score"
  BY <1>1, <1>3
<1>5. \A k : LoadsAfter(k)'
  BY <1>4 DEF LoadsAfter
<1>6. ui'.state = ui.state /\ ui'.baseline = ui.baseline
  BY DEF Save, Reset, ScoreTypeOK, Page
<1> QED BY <1>5, <1>6 DEF SavedInv

(* Replies that are called for now bring what is stored now.                 *)
LEMMA SavedCalls ==
  ASSUME SavedInv, ScoreTypeOK, NEW more \in Seq(Reply), replies' = replies \o more,
         \A j \in DOMAIN more : more[j].kind = "get" => IsStored(more[j].char, more[j].content),
         (\E j \in DOMAIN writes : writes[j].kind = "score") =>
            \/ \E j \in DOMAIN writes' : writes'[j].kind = "score"
            \/ \E j \in DOMAIN more : ReadsAnew(more[j]),
         KeepsLoaded, scores' = scores, failed' = failed
  PROVE  SavedInv'
<1>1. /\ replies \in Seq(Reply) /\ Len(replies) \in Nat /\ Len(more) \in Nat
      /\ DOMAIN more = 1 .. Len(more)
  BY DEF ScoreTypeOK
<1>2. /\ replies' \in Seq(Reply) /\ Len(replies') = Len(replies) + Len(more)
      /\ \A j \in 1 .. Len(replies) + Len(more) :
            replies'[j] = IF j <= Len(replies) THEN replies[j] ELSE more[j - Len(replies)]
  BY <1>1, ConcatProperties
<1>3. \A j \in 1 .. Len(replies) : replies'[j] = replies[j]
  <2> TAKE j \in 1 .. Len(replies)
  <2>1. j \in 1 .. Len(replies) + Len(more) /\ j <= Len(replies)
    BY <1>1
  <2> QED BY <1>2, <2>1
<1>4. ASSUME NEW j \in 1 .. Len(replies'), j > Len(replies), replies'[j].kind = "get"
      PROVE  IsStored(replies'[j].char, replies'[j].content)
  <2>1. /\ j \in 1 .. Len(replies) + Len(more) /\ ~(j <= Len(replies))
        /\ j - Len(replies) \in DOMAIN more
    BY <1>1, <1>2, <1>4
  <2>2. replies'[j] = more[j - Len(replies)]
    BY <1>2, <2>1
  <2> QED BY <1>4, <2>1, <2>2
<1>5. ASSUME NEW j \in DOMAIN more, ReadsAnew(more[j])
      PROVE  \E i \in 1 .. Len(replies') : i > Len(replies) /\ ReadsAnew(replies'[i])
  <2>1. /\ Len(replies) + j \in 1 .. Len(replies) + Len(more)
        /\ ~(Len(replies) + j <= Len(replies)) /\ Len(replies) + j > Len(replies)
    BY <1>1
  <2>2. replies'[Len(replies) + j] = more[j]
    BY <1>1, <1>2, <2>1
  <2>3. ReadsAnew(replies'[Len(replies) + j])
    BY <1>5, <2>2
  <2> QED BY <1>2, <2>1, <2>3
<1> QED BY <1>1, <1>2, <1>3, <1>4, <1>5, SavedGrows

(* The replies are let be.                                                   *)
LEMMA SavedKept ==
  ASSUME SavedInv, ScoreTypeOK, replies' = replies, KeepsLoaded, scores' = scores,
         failed' = failed,
         (\E j \in DOMAIN writes : writes[j].kind = "score") =>
            \E j \in DOMAIN writes' : writes'[j].kind = "score"
  PROVE  SavedInv'
<1>1. replies \in Seq(Reply) /\ Len(replies) \in Nat
  BY DEF ScoreTypeOK
<1>2. /\ replies' \in Seq(Reply) /\ Len(replies) <= Len(replies')
      /\ \A j \in 1 .. Len(replies) : replies'[j] = replies[j]
      /\ \A j \in 1 .. Len(replies') : ~(j > Len(replies))
  BY <1>1
<1> QED BY <1>1, <1>2, SavedGrows

(* A write that is called for keeps those under way.                         *)
LEMMA WritesQueue ==
  ASSUME ScoreTypeOK, NEW w, writes' = Append(writes, w),
         \E j \in DOMAIN writes : writes[j].kind = "score"
  PROVE  \E j \in DOMAIN writes' : writes'[j].kind = "score"
<1>1. /\ DOMAIN writes = 1 .. Len(writes) /\ Len(writes) \in Nat
      /\ DOMAIN writes' = 1 .. Len(writes) + 1
      /\ \A j \in 1 .. Len(writes) : writes'[j] = writes[j]
  BY DEF ScoreTypeOK
<1> QED BY <1>1

(* The steps of the page and of its presets: calls, or nothing.              *)
LEMMA SavedPage ==
  ASSUME SavedInv, ScoreTypeOK, ScoreTypeOK',
         \/ \E c \in Chars \cup {None} : Switch(c)
         \/ Reload
         \/ \E content \in Contents : Edit(content)
         \/ \E id \in PresetIds :
              \/ CreatePreset(id) \/ RenamePreset(id) \/ PresetGone(id)
              \/ ApplyPreset(id) \/ DeletePreset(id)
              \/ \E new \in PresetIds : ClonePreset(id, new)
         \/ ImportPresets \/ ImportCancelled
         \/ \E ids \in SUBSET PresetIds, content \in Contents :
              ImportChosen(ids, content) \/ ImportFails(ids, content)
  PROVE  SavedInv'
<1>1. ASSUME NEW c \in Chars \cup {None}, Switch(c) PROVE SavedInv'
  <2>1. CASE c = None
    <3>1. ui'.state = None
      BY <1>1, <2>1 DEF Switch, ScoreTypeOK, Page
    <3> QED BY <1>1, <2>1, <3>1, SavedKept DEF Switch, KeepsLoaded
  <2>2. CASE c # None
    <3> DEFINE g == Got(scores, c, FALSE)
               l == GotList(c, FALSE)
               more == <<g, l>>
    <3>1. /\ g \in Reply /\ l \in Reply /\ l.kind = "list"
          /\ IsStored(g.char, g.content)
      <4>1. c \in Chars
        BY <2>2
      <4> QED BY <4>1, ScoreReads DEF Got, GotList, IsStored
    <3>2. replies' = replies \o more
      BY <1>1, <2>2 DEF Switch
    <3>3. /\ UNCHANGED <<scores, presets, writes, dialog, failed>>
          /\ KeepsLoaded
      BY <1>1, <2>2 DEF Switch, KeepsLoaded, ScoreTypeOK, Page
    <3> HIDE DEF g, l
    <3>4. more \in Seq(Reply) /\ DOMAIN more = {1, 2} /\ more[1] = g /\ more[2] = l
      BY <3>1
    <3> HIDE DEF more
    <3>5. \A j \in DOMAIN more : more[j].kind = "get" => IsStored(more[j].char, more[j].content)
      BY <3>1, <3>4
    <3> QED BY <3>2, <3>3, <3>4, <3>5, SavedCalls
  <2> QED BY <2>1, <2>2
<1>2. CASE Reload
  <2> DEFINE g == Got(scores, ui.char, FALSE)
             more == <<g>>
  <2>1. g \in Reply /\ IsStored(g.char, g.content)
    <3>1. ui.char \in Chars
      BY <1>2 DEF Reload, ScoreTypeOK, Page
    <3> QED BY <3>1, ScoreReads DEF Got, IsStored
  <2>2. replies' = Append(replies, g) /\ UNCHANGED <<scores, writes, failed>> /\ KeepsLoaded
    BY <1>2 DEF Reload, KeepsLoaded, ScoreTypeOK, Page
  <2> HIDE DEF g
  <2>3. more \in Seq(Reply) /\ DOMAIN more = {1} /\ more[1] = g
    BY <2>1
  <2>4. replies' = replies \o more
    BY <2>1, <2>2, AppendIsConcat DEF ScoreTypeOK
  <2> HIDE DEF more
  <2> QED BY <2>1, <2>2, <2>3, <2>4, SavedCalls
<1>3. ASSUME NEW id \in PresetIds, ApplyPreset(id) PROVE SavedInv'
  <2> DEFINE p == [kind |-> "preset", content |-> PresetOf(id).content]
             more == <<p>>
  <2>1. p \in Reply /\ p.kind = "preset"
    <3>1. PresetOf(id) \in presets
      BY <1>3 DEF ApplyPreset, Exists, PresetOf
    <3>2. PresetOf(id).content \in Contents
      BY <3>1 DEF ScoreTypeOK, Preset
    <3> QED BY <3>2 DEF Reply
  <2>2. replies' = Append(replies, p) /\ UNCHANGED <<scores, writes, failed>> /\ KeepsLoaded
    BY <1>3 DEF ApplyPreset, KeepsLoaded, Saving, ScoreTypeOK, Page
  <2> HIDE DEF p
  <2>3. more \in Seq(Reply) /\ DOMAIN more = {1} /\ more[1] = p
    BY <2>1
  <2>4. replies' = replies \o more
    BY <2>1, <2>2, AppendIsConcat DEF ScoreTypeOK
  <2> HIDE DEF more
  <2> QED BY <2>1, <2>2, <2>3, <2>4, SavedCalls
<1>4. ASSUME NEW content \in Contents, Edit(content) PROVE SavedInv'
  <2>1. KeepsLoaded
    BY <1>4 DEF Edit, KeepsLoaded, ScoreTypeOK, Page, Shown
  <2> QED BY <1>4, <2>1, SavedKept DEF Edit
<1>5. ASSUME NEW id \in PresetIds,
             \/ CreatePreset(id) \/ RenamePreset(id) \/ DeletePreset(id)
             \/ \E new \in PresetIds : ClonePreset(id, new)
      PROVE  SavedInv'
  <2>1. KeepsLoaded /\ UNCHANGED <<scores, replies, failed>>
    BY <1>5 DEF CreatePreset, RenamePreset, DeletePreset, ClonePreset, Saving, KeepsLoaded,
                ScoreTypeOK, Page
  <2>2. writes' = Append(writes, [kind |-> "presets", char |-> ui.char])
    BY <1>5 DEF CreatePreset, RenamePreset, DeletePreset, ClonePreset
  <2> QED BY <2>1, <2>2, WritesQueue, SavedKept
<1>6. ASSUME \/ \E id \in PresetIds : PresetGone(id)
             \/ ImportPresets \/ ImportCancelled
             \/ \E ids \in SUBSET PresetIds, content \in Contents : ImportFails(ids, content)
      PROVE  SavedInv'
  <2>1. KeepsLoaded /\ UNCHANGED <<scores, replies, failed, writes>>
    BY <1>6 DEF PresetGone, ImportPresets, ImportCancelled, ImportFails, Saving, KeepsLoaded,
                ScoreTypeOK, Page
  <2> QED BY <2>1, SavedKept
<1>7. ASSUME NEW ids \in SUBSET PresetIds, NEW content \in Contents, ImportChosen(ids, content)
      PROVE  SavedInv'
  <2>1. KeepsLoaded /\ UNCHANGED <<scores, replies, failed>>
    BY <1>7 DEF ImportChosen, KeepsLoaded
  <2>2. writes' = Append(writes, [kind |-> "presets", char |-> dialog])
    BY <1>7 DEF ImportChosen
  <2> QED BY <2>1, <2>2, WritesQueue, SavedKept
<1> QED BY <1>1, <1>2, <1>3, <1>4, <1>5, <1>6, <1>7

(* A save ends: its reply takes its place.                                   *)
LEMMA SavedPersists ==
  ASSUME SavedInv, ScoreTypeOK, NEW ok \in BOOLEAN, Persisted(ok)
  PROVE  SavedInv'
<1> DEFINE p == [kind |-> IF ok THEN "saved" ELSE "failed", write |-> Head(writes)]
           more == <<p>>
<1>1. /\ writes # <<>> /\ writes' = Tail(writes) /\ replies' = Append(replies, p)
      /\ UNCHANGED <<scores, ui, failed>>
  BY DEF Persisted
<1>2. /\ DOMAIN writes = 1 .. Len(writes) /\ Len(writes) \in Nat /\ Len(writes) >= 1
      /\ Head(writes) = writes[1] /\ Head(writes) \in Write
      /\ DOMAIN writes' = 1 .. Len(writes) - 1
      /\ \A j \in 1 .. Len(writes) - 1 : writes'[j] = writes[j + 1]
  BY <1>1, HeadTailProperties DEF ScoreTypeOK
<1>3. /\ p \in Reply /\ p.kind # "get"
      /\ writes[1].kind = "score" => ReadsAnew(p)
  BY <1>2 DEF Reply, ReadsAnew
<1> HIDE DEF p
<1>4. more \in Seq(Reply) /\ DOMAIN more = {1} /\ more[1] = p
  BY <1>3
<1>5. replies' = replies \o more
  BY <1>1, <1>3, AppendIsConcat DEF ScoreTypeOK
<1> HIDE DEF more
<1>6. ASSUME NEW j \in DOMAIN writes, writes[j].kind = "score"
      PROVE  \/ \E i \in DOMAIN writes' : writes'[i].kind = "score"
             \/ \E i \in DOMAIN more : ReadsAnew(more[i])
  <2>1. CASE j = 1
    BY <1>3, <1>4, <1>6, <2>1
  <2>2. CASE j # 1
    <3>1. j - 1 \in 1 .. Len(writes) - 1 /\ (j - 1) + 1 = j
      BY <1>2, <2>2
    <3>2. writes'[j - 1] = writes[j]
      BY <1>2, <3>1
    <3> QED BY <1>2, <1>6, <3>1, <3>2
  <2> QED BY <2>1, <2>2
<1>7. KeepsLoaded
  BY <1>1 DEF KeepsLoaded
<1> QED BY <1>1, <1>3, <1>4, <1>5, <1>6, <1>7, SavedCalls

(* A reply arrives.                                                          *)
LEMMA SavedReplies ==
  ASSUME SavedInv, ScoreTypeOK, ScoreTypeOK', ReplyArrives
  PROVE  SavedInv'
<1> DEFINE r == Head(replies)
           n == Len(replies)
<1>1. /\ replies \in Seq(Reply) /\ replies # <<>> /\ n \in Nat /\ n >= 1
      /\ r = replies[1] /\ r \in Reply
      /\ Tail(replies) \in Seq(Reply) /\ Len(Tail(replies)) = n - 1
      /\ \A j \in 1 .. n - 1 : Tail(replies)[j] = replies[j + 1]
      /\ replies' \in Seq(Reply)
      /\ UNCHANGED <<scores, writes>>
  BY HeadTailProperties DEF ScoreTypeOK, ReplyArrives
<1>2. ScoreArrives(r) \/ ListArrives(r) \/ PresetArrives(r)
        \/ ScoreSaved(r) \/ PresetsSaved(r) \/ SaveFailed(r)
  BY DEF ReplyArrives
<1>3. CASE ScoreArrives(r)
  BY <1>1, <1>3, SavedLoads
<1> HIDE DEF r, n
<1>4. ASSUME replies' = Tail(replies), KeepsLoaded, failed => failed',
             ReadsAnew(r) => failed'
      PROVE  SavedInv'
  <2>1. Len(replies) - 1 <= Len(replies')
    BY <1>1, <1>4 DEF n
  <2>2. \A j \in 1 .. Len(replies) - 1 : replies'[j] = replies[j + 1]
    BY <1>1, <1>4 DEF n
  <2>3. \A j \in 1 .. Len(replies') : ~(j >= Len(replies))
    BY <1>1, <1>4 DEF n
  <2> QED BY <1>1, <1>4, <2>1, <2>2, <2>3, SavedShifts
<1>5. ASSUME NEW g \in Reply, replies' = Append(Tail(replies), g), KeepsLoaded, failed' = failed,
             g.kind = "get" => IsStored(g.char, g.content), ReadsAnew(r) => ReadsAnew(g)
      PROVE  SavedInv'
  <2>1. Len(replies') = n /\ replies'[n] = g
    <3>1. (n - 1) + 1 = n
      BY <1>1
    <3> QED BY <1>1, <1>5, <3>1, AppendProperties
  <2>2. \A j \in 1 .. n - 1 : replies'[j] = replies[j + 1]
    BY <1>1, <1>5, AppendProperties
  <2>3. \A j \in 1 .. n : j >= n => j = n
    BY <1>1
  <2>4. n \in 1 .. n /\ n >= n /\ n - 1 <= n
    BY <1>1
  <2>5. \A j \in 1 .. n : j >= n /\ replies'[j].kind = "get" =>
           IsStored(replies'[j].char, replies'[j].content)
    BY <1>5, <2>1, <2>3
  <2>6. ReadsAnew(r) => \E j \in 1 .. n : j >= n /\ ReadsAnew(replies'[j])
    BY <1>5, <2>1, <2>4
  <2>7. n = Len(replies)
    BY DEF n
  <2> QED BY <1>1, <1>5, <2>1, <2>2, <2>4, <2>5, <2>6, <2>7, SavedShifts
<1>6. CASE ListArrives(r)
  <2>1. ~ReadsAnew(r) /\ KeepsLoaded
    BY <1>6 DEF ListArrives, ReadsAnew, KeepsLoaded, ScoreTypeOK, Page
  <2> QED BY <1>4, <1>6, <2>1 DEF ListArrives
<1>7. CASE PresetArrives(r)
  <2>1. ~ReadsAnew(r) /\ KeepsLoaded
    BY <1>7 DEF PresetArrives, ReadsAnew, KeepsLoaded, ScoreTypeOK, Page, Shown
  <2> QED BY <1>4, <1>7, <2>1 DEF PresetArrives
<1>8. CASE ScoreSaved(r)
  <2> DEFINE g == Got(scores, r.write.char, TRUE)
  <2>1. r.write.char \in Chars
    <3>1. r.write \in Write
      BY <1>1, <1>8 DEF ScoreSaved, Reply
    <3> QED BY <1>8, <3>1 DEF ScoreSaved, Write
  <2>2. g \in Reply /\ IsStored(g.char, g.content) /\ ReadsAnew(g)
    BY <2>1, ScoreReads DEF Got, IsStored, ReadsAnew
  <2>3. KeepsLoaded /\ failed' = failed /\ replies' = Append(Tail(replies), g)
    BY <1>8 DEF ScoreSaved, KeepsLoaded, ScoreTypeOK, Page
  <2> HIDE DEF g
  <2> QED BY <1>5, <2>2, <2>3
<1>9. CASE PresetsSaved(r)
  <2>1. ~ReadsAnew(r) /\ KeepsLoaded /\ failed' = failed
    BY <1>9 DEF PresetsSaved, ReadsAnew, KeepsLoaded, ScoreTypeOK, Page
  <2>2. CASE r.write.char = None
    BY <1>4, <1>9, <2>1, <2>2 DEF PresetsSaved
  <2>3. CASE r.write.char # None
    <3> DEFINE l == GotList(r.write.char, TRUE)
    <3>1. l \in Reply /\ l.kind = "list"
      <4>1. r.write \in Write
        BY <1>1, <1>9 DEF PresetsSaved, Reply
      <4>2. r.write.char \in Chars
        BY <2>3, <4>1 DEF Write
      <4> QED BY <4>2, ScoreReads DEF GotList
    <3>2. replies' = Append(Tail(replies), l)
      BY <1>9, <2>3 DEF PresetsSaved
    <3> HIDE DEF l
    <3> QED BY <1>5, <2>1, <3>1, <3>2
  <2> QED BY <2>2, <2>3
<1>10. CASE SaveFailed(r)
  <2>1. KeepsLoaded /\ failed' /\ replies' = Tail(replies)
    BY <1>10 DEF SaveFailed, KeepsLoaded, ScoreTypeOK, Page
  <2> QED BY <1>4, <2>1
<1> QED BY <1>2, <1>3, <1>6, <1>7, <1>8, <1>9, <1>10

LEMMA SavedStep ==
  ASSUME SavedInv, ScoreTypeOK, [ScoreNext]_scoreVars
  PROVE  SavedInv'
<1>0. ScoreTypeOK'
  BY ScoreStepType
<1>1. CASE UNCHANGED scoreVars
  <2>1. KeepsLoaded /\ UNCHANGED <<scores, replies, writes, failed>>
    BY <1>1 DEF scoreVars, KeepsLoaded
  <2> QED BY <2>1, SavedKept
<1>2. CASE ScoreNext
  BY <1>0, <1>2, SavedPage, SavedWrites, SavedReplies, SavedPersists DEF ScoreNext
<1> QED BY <1>1, <1>2

(* When nothing is under way and no save has failed, a page without unsaved  *)
(* edits shows what is stored for the character its score was loaded for     *)
(* (handleSave, handleReset, refresh).                                       *)
THEOREM SavedIsStoredHolds == ScoreSpec => []SavedIsStored
<1>1. ScoreInit => ScoreTypeOK /\ SavedInv
  <2>1. ScoreInit => SavedInv
    BY DEF ScoreInit, SavedInv
  <2> QED BY <2>1, ScoreInitType
<1>2. ScoreTypeOK /\ SavedInv /\ [ScoreNext]_scoreVars => ScoreTypeOK' /\ SavedInv'
  BY ScoreStepType, SavedStep
<1>3. ScoreTypeOK /\ SavedInv => SavedIsStored
  <2> SUFFICES ASSUME ScoreTypeOK, SavedInv, replies = <<>>, writes = <<>>, ~failed,
                      ui.state # None, ~IsDirty
               PROVE  ui.state.content = GetBuildScore(scores, ui.state.of)
    BY DEF SavedIsStored
  <2>1. ~LoadsAfter(0)
    BY DEF LoadsAfter
  <2>2. ui.state.content = ui.baseline
    BY DEF IsDirty, SavedInv
  <2> QED BY <2>1, <2>2 DEF SavedInv, IsStored
<1> QED BY <1>1, <1>2, <1>3, PTL DEF ScoreSpec

-----------------------------------------------------------------------------
(* The logbook and the price book, for any items, lines, prices and times.   *)

(* What holds of the items of the tables and of the backup: no two have one  *)
(* name, and none has an identifier that is still to be given out.           *)
Named(d) ==
  /\ \A i, j \in ItemIds : d.items[i] # None /\ d.items[i] = d.items[j] => i = j
  /\ ItemsOf(d) \subseteq known

ItemsInv == Named(db) /\ (backup # None => Named(backup))

(* Looking names up keeps the items there are and adds one for each name     *)
(* that is missing.                                                          *)
LEMMA UpsertedShape ==
  ASSUME LedgerTypeOK, Named(db), NEW names \in SUBSET Names, NEW items \in Upserted(names)
  PROVE  /\ items \in [ItemIds -> Names \cup {None}]
         /\ \A i \in ItemsOf(db) : items[i] = db.items[i]
         /\ \A n \in names : \E i \in ItemIds : items[i] = n
         /\ \A i, j \in ItemIds : items[i] # None /\ items[i] = items[j] => i = j
<1> DEFINE missing == names \ {db.items[i] : i \in ItemsOf(db)}
<1>1. PICK new \in Injection(missing, ItemIds \ known) :
        items = [i \in ItemIds |-> IF \E n \in missing : new[n] = i
                                   THEN CHOOSE n \in missing : new[n] = i ELSE db.items[i]]
  BY DEF Upserted
<1>2. /\ \A n \in missing : new[n] \in ItemIds /\ new[n] \notin known
      /\ \A m, n \in missing : new[m] = new[n] => m = n
  BY DEF Injection, IsInjective
<1>3. /\ db.items \in [ItemIds -> Names \cup {None}]
      /\ ItemsOf(db) \subseteq known
      /\ \A i, j \in ItemIds : db.items[i] # None /\ db.items[i] = db.items[j] => i = j
  BY DEF LedgerTypeOK, Tables, Named
<1>4. \A n \in names : n \in missing \/ \E i \in ItemsOf(db) : db.items[i] = n
  OBVIOUS
<1>5. \A n \in missing : n \in Names /\ n # None /\ \A i \in ItemsOf(db) : db.items[i] # n
  BY LedgerAssumption
<1> HIDE DEF missing
<1>6. ASSUME NEW n \in missing PROVE items[new[n]] = n
  <2>1. (CHOOSE m \in missing : new[m] = new[n]) = n
    BY <1>2
  <2> QED BY <1>1, <1>2, <2>1
<1>7. ASSUME NEW i \in ItemIds, \A n \in missing : new[n] # i
      PROVE  items[i] = db.items[i]
  BY <1>1, <1>7
<1>8. \A i \in ItemsOf(db) : items[i] = db.items[i]
  BY <1>2, <1>3, <1>7 DEF ItemsOf
<1>9. items \in [ItemIds -> Names \cup {None}]
  <2>1. \A i \in ItemIds : items[i] \in Names \cup {None}
    BY <1>3, <1>5, <1>6, <1>7
  <2> QED BY <1>1, <2>1
<1>10. ASSUME NEW n \in names PROVE \E i \in ItemIds : items[i] = n
  <2>1. CASE n \in missing
    BY <1>2, <1>6, <2>1
  <2>2. CASE n \notin missing
    BY <1>4, <1>8, <2>2 DEF ItemsOf
  <2> QED BY <2>1, <2>2
<1>11. ASSUME NEW i \in ItemIds, NEW j \in ItemIds, items[i] # None, items[i] = items[j]
       PROVE  i = j
  <2>1. ASSUME NEW k \in ItemIds, items[k] # None
        PROVE  (\E n \in missing : k = new[n] /\ items[k] = n)
               \/ (k \in ItemsOf(db) /\ items[k] = db.items[k])
    BY <1>6, <1>7, <2>1 DEF ItemsOf
  <2>2. (\E n \in missing : i = new[n] /\ items[i] = n) \/ (i \in ItemsOf(db) /\ items[i] = db.items[i])
    BY <1>11, <2>1
  <2>3. (\E n \in missing : j = new[n] /\ items[j] = n) \/ (j \in ItemsOf(db) /\ items[j] = db.items[j])
    BY <1>11, <2>1
  <2> QED BY <1>3, <1>5, <1>11, <2>2, <2>3 DEF ItemsOf
<1> QED BY <1>8, <1>9, <1>10, <1>11

LEMMA ItemNamedType ==
  ASSUME NEW items, NEW n, \E i \in ItemIds : items[i] = n
  PROVE  ItemNamed(items, n) \in ItemIds /\ items[ItemNamed(items, n)] = n
BY DEF ItemNamed

(* The tables after the items have been looked up and rows added.            *)
LEMMA TablesType ==
  ASSUME NEW d
  PROVE  d \in Tables <=>
           /\ d = [chars |-> d.chars, items |-> d.items, runs |-> d.runs, lines |-> d.lines,
                   prices |-> d.prices, watches |-> d.watches, alerts |-> d.alerts]
           /\ d.chars \subseteq CharIds /\ d.items \in [ItemIds -> Names \cup {None}]
           /\ d.runs \subseteq RunRows /\ d.lines \subseteq LineRows
           /\ d.prices \subseteq PriceRows /\ d.watches \subseteq WatchRows
           /\ d.alerts \subseteq AlertRows
BY DEF Tables

(* Typed: the steps that look names up.                                      *)
LEMMA RecordTyped ==
  ASSUME LedgerTypeOK, Named(db),
         \/ \E c \in CharIds, input \in UNION {[1..k -> LineInputs] : k \in 0..MaxLines} :
              CreateRun(c, input)
         \/ \E s \in Servers, n \in Names, p \in Prices, at \in Times :
              AddPrice(s, n, p, at) \/ AddPriceFails(s, n, p, at)
         \/ \E n \in Names : OnlyItemAdded(n)
         \/ \E s \in Servers, n \in Names, rule \in Rules : CreateWatch(s, n, rule)
  PROVE  LedgerTypeOK'
<1>0. /\ db \in Tables /\ MaxRecords \in Nat /\ MaxLines \in Nat /\ stamp \in 0 .. MaxRecords
      /\ known \subseteq ItemIds
      /\ stamp < MaxRecords => stamp + 1 \in Stamps
  BY LedgerAssumption DEF LedgerTypeOK, Stamps
<1>1. ASSUME NEW c \in CharIds,
             NEW k \in 0 .. MaxLines, NEW input \in [1 .. k -> LineInputs], CreateRun(c, input)
      PROVE  LedgerTypeOK'
  <2> DEFINE id == stamp + 1
             names == {input[j].name : j \in DOMAIN input} \ {None}
  <2>1. PICK items \in Upserted(names) :
          /\ db' = [db EXCEPT !.items = items,
                              !.runs = @ \cup {[id |-> id, char |-> c, asked |-> Len(input)]},
                              !.lines = @ \cup LinesOf(id, items, input)]
          /\ known' = known \cup {i \in ItemIds : items[i] # None}
    BY <1>1 DEF CreateRun
  <2>2. id \in Stamps /\ stamp' = id /\ backup' = backup /\ id \in 0 .. MaxRecords
    <3>1. stamp < MaxRecords /\ stamp' = id /\ backup' = backup
      BY <1>1 DEF CreateRun
    <3> QED BY <1>0, <3>1
  <2>3. /\ k \in Nat /\ DOMAIN input = 1 .. k /\ Len(input) = k
        /\ \A j \in 1 .. k : input[j] \in LineInputs
    BY <1>0
  <2>4. \A j \in 1 .. k : input[j].name \in Names \cup {None} /\ input[j].kind \in {"drop", "cost"}
    BY <2>3 DEF LineInputs
  <2>5. names \subseteq Names
    BY <2>3, <2>4
  <2>6. /\ items \in [ItemIds -> Names \cup {None}]
        /\ \A n \in names : \E i \in ItemIds : items[i] = n
    BY <2>1, <2>5, UpsertedShape
  <2>7. ASSUME NEW j \in 1 .. k
        PROVE  (IF input[j].name = None THEN None ELSE ItemNamed(items, input[j].name))
                 \in ItemIds \cup {None}
    <3>1. CASE input[j].name = None
      BY <3>1
    <3>2. CASE input[j].name # None
      <4>1. input[j].name \in names
        BY <2>3, <3>2
      <4> QED BY <2>6, <3>2, <4>1, ItemNamedType
    <3> QED BY <3>1, <3>2
  <2> HIDE DEF id, names
  <2>8. LinesOf(id, items, input) \subseteq LineRows
    <3>1. ASSUME NEW j \in 1 .. k
          PROVE  [run |-> id, pos |-> j, kind |-> input[j].kind,
                  item |-> IF input[j].name = None THEN None ELSE ItemNamed(items, input[j].name)]
                   \in LineRows
      <4>1. j \in 1 .. MaxLines
        BY <1>0
      <4> QED BY <2>2, <2>4, <2>7, <4>1 DEF LineRows
    <3> QED BY <2>3, <3>1 DEF LinesOf
  <2>9. [id |-> id, char |-> c, asked |-> Len(input)] \in RunRows
    BY <2>2, <2>3 DEF RunRows
  <2>10. db' \in Tables
    <3> DEFINE L == LinesOf(id, items, input)
               r == [id |-> id, char |-> c, asked |-> Len(input)]
    <3>1. db' = [db EXCEPT !.items = items, !.runs = @ \cup {r}, !.lines = @ \cup L]
      BY <2>1
    <3>2. L \subseteq LineRows /\ r \in RunRows
      BY <2>8, <2>9
    <3> HIDE DEF L, r
    <3> QED BY <1>0, <2>6, <3>1, <3>2 DEF Tables
  <2> QED BY <1>0, <2>1, <2>2, <2>10 DEF LedgerTypeOK
<1>2. ASSUME NEW s \in Servers, NEW n \in Names, NEW p \in Prices, NEW at \in Times,
             AddPrice(s, n, p, at) \/ AddPriceFails(s, n, p, at)
      PROVE  LedgerTypeOK'
  <2>1. PICK items \in Upserted({n}), alerts \in SUBSET AlertRows :
          /\ db' = [db EXCEPT !.items = items,
                              !.prices = @ \cup {Priced(items, s, n, p, at)},
                              !.alerts = @ \cup alerts]
          /\ known' = known \cup {i \in ItemIds : items[i] # None}
    <3>1. CASE AddPrice(s, n, p, at)
      <4>1. PICK items \in Upserted({n}) :
              /\ db' = [db EXCEPT !.items = items,
                                  !.prices = @ \cup {Priced(items, s, n, p, at)},
                                  !.alerts = @ \cup
                                      {[price |-> stamp + 1, watch |-> w.id, read |-> FALSE] :
                                          w \in Triggered(db, s, ItemNamed(items, n), p)}]
              /\ known' = known \cup {i \in ItemIds : items[i] # None}
        BY <3>1 DEF AddPrice
      <4> DEFINE a(w) == [price |-> stamp + 1, watch |-> w.id, read |-> FALSE]
                 T == Triggered(db, s, ItemNamed(items, n), p)
                 A == {a(w) : w \in T}
      <4>2. A \in SUBSET AlertRows
        <5>1. \A w \in T : w.id \in Stamps
          BY <1>0, TablesType DEF Triggered, WatchRows
        <5>2. stamp + 1 \in Stamps
          <6>1. stamp < MaxRecords
            BY <3>1 DEF AddPrice
          <6> QED BY <1>0, <6>1
        <5> HIDE DEF T
        <5>3. \A w \in T : a(w) \in AlertRows
          BY <5>1, <5>2 DEF AlertRows
        <5> HIDE DEF a
        <5> QED BY <5>3
      <4>3. db' = [db EXCEPT !.items = items,
                             !.prices = @ \cup {Priced(items, s, n, p, at)},
                             !.alerts = @ \cup A]
        BY <4>1
      <4> HIDE DEF A
      <4> QED BY <4>1, <4>2, <4>3
    <3>2. CASE AddPriceFails(s, n, p, at)
      <4>1. PICK items \in Upserted({n}) :
              /\ db' = [db EXCEPT !.items = items,
                                  !.prices = @ \cup {Priced(items, s, n, p, at)}]
              /\ known' = known \cup {i \in ItemIds : items[i] # None}
        BY <3>2 DEF AddPriceFails
      <4> DEFINE A == {}
      <4>2. db' = [db EXCEPT !.items = items,
                             !.prices = @ \cup {Priced(items, s, n, p, at)},
                             !.alerts = @ \cup A]
        BY <1>0, <4>1, TablesType
      <4>3. A \in SUBSET AlertRows
        OBVIOUS
      <4> HIDE DEF A
      <4> QED BY <4>1, <4>2, <4>3
    <3> QED BY <1>2, <3>1, <3>2
  <2>2. stamp + 1 \in Stamps /\ stamp' = stamp + 1 /\ backup' = backup /\ stamp' \in 0 .. MaxRecords
    <3>1. stamp < MaxRecords /\ stamp' = stamp + 1 /\ backup' = backup
      BY <1>2 DEF AddPrice, AddPriceFails
    <3> QED BY <1>0, <3>1
  <2>3. items \in [ItemIds -> Names \cup {None}] /\ ItemNamed(items, n) \in ItemIds
    BY <2>1, UpsertedShape, ItemNamedType
  <2>4. Priced(items, s, n, p, at) \in PriceRows
    BY <2>2, <2>3 DEF Priced, PriceRows
  <2>5. db' \in Tables
    BY <1>0, <2>1, <2>3, <2>4 DEF Tables
  <2> QED BY <1>0, <2>1, <2>2, <2>5 DEF LedgerTypeOK
<1>3. ASSUME NEW n \in Names, OnlyItemAdded(n) PROVE LedgerTypeOK'
  <2>1. PICK items \in Upserted({n}) :
          /\ db' = [db EXCEPT !.items = items]
          /\ known' = known \cup {i \in ItemIds : items[i] # None}
    BY <1>3 DEF OnlyItemAdded
  <2>2. items \in [ItemIds -> Names \cup {None}]
    BY <2>1, UpsertedShape
  <2>3. db' \in Tables
    BY <1>0, <2>1, <2>2, TablesType
  <2> QED BY <1>0, <1>3, <2>1, <2>3 DEF LedgerTypeOK, OnlyItemAdded
<1>4. ASSUME NEW s \in Servers, NEW n \in Names, NEW rule \in Rules, CreateWatch(s, n, rule)
      PROVE  LedgerTypeOK'
  <2>1. PICK items \in Upserted({n}) :
          /\ db' = [db EXCEPT !.items = items,
                              !.watches = @ \cup {[id |-> stamp + 1, server |-> s,
                                                   item |-> ItemNamed(items, n),
                                                   rule |-> rule, active |-> TRUE]}]
          /\ known' = known \cup {i \in ItemIds : items[i] # None}
    BY <1>4 DEF CreateWatch
  <2>2. stamp + 1 \in Stamps /\ stamp' = stamp + 1 /\ backup' = backup /\ stamp' \in 0 .. MaxRecords
    <3>1. stamp < MaxRecords /\ stamp' = stamp + 1 /\ backup' = backup
      BY <1>4 DEF CreateWatch
    <3> QED BY <1>0, <3>1
  <2>3. items \in [ItemIds -> Names \cup {None}] /\ ItemNamed(items, n) \in ItemIds
    BY <2>1, UpsertedShape, ItemNamedType
  <2>4. [id |-> stamp + 1, server |-> s, item |-> ItemNamed(items, n), rule |-> rule,
         active |-> TRUE] \in WatchRows
    BY <2>2, <2>3 DEF WatchRows
  <2>5. db' \in Tables
    <3> DEFINE w == [id |-> stamp + 1, server |-> s, item |-> ItemNamed(items, n), rule |-> rule,
                     active |-> TRUE]
    <3>1. db' = [db EXCEPT !.items = items, !.watches = @ \cup {w}] /\ w \in WatchRows
      BY <2>1, <2>4
    <3> HIDE DEF w
    <3> QED BY <1>0, <2>3, <3>1 DEF Tables
  <2> QED BY <1>0, <2>1, <2>2, <2>5 DEF LedgerTypeOK
<1> QED BY <1>1, <1>2, <1>3, <1>4

(* What the import keeps of a backup.                                        *)
LEMMA OwnShape ==
  ASSUME NEW b \in Tables
  PROVE  /\ Own(b) \in Tables
         /\ Own(b).items = b.items /\ Own(b).alerts = b.alerts
         /\ Own(b).runs = {r \in b.runs : r.char \in b.chars}
         /\ \A l \in Own(b).lines : \E k \in b.lines :
               /\ l.run = k.run /\ l.pos = k.pos /\ l.kind = k.kind
               /\ l = [k EXCEPT !.item = IF @ \in ItemsOf(b) THEN @ ELSE None]
         /\ \A k \in b.lines : (\E r \in Own(b).runs : r.id = k.run) =>
               \E l \in Own(b).lines : l.run = k.run /\ l.pos = k.pos
<1> DEFINE runs == {r \in b.runs : r.char \in b.chars}
           e(l) == [l EXCEPT !.item = IF @ \in ItemsOf(b) THEN @ ELSE None]
           kept == {k \in b.lines : \E r \in runs : r.id = k.run}
           lines == {e(l) : l \in kept}
           prices == {p \in b.prices : p.item \in ItemsOf(b)}
           watches == {w \in b.watches : w.item \in ItemsOf(b)}
<1>1. Own(b) = [b EXCEPT !.runs = runs, !.lines = lines, !.prices = prices, !.watches = watches]
  BY DEF Own
<1>2. runs \subseteq RunRows /\ prices \subseteq PriceRows /\ watches \subseteq WatchRows
  BY DEF Tables
<1>3. ASSUME NEW k \in b.lines
      PROVE  e(k) \in LineRows /\ e(k).run = k.run /\ e(k).pos = k.pos /\ e(k).kind = k.kind
  <2>1. k \in LineRows
    BY DEF Tables
  <2> QED BY <2>1 DEF LineRows
<1>4. lines \subseteq LineRows
  BY <1>3
<1>5. \A l \in lines : \E k \in b.lines : l = e(k)
  OBVIOUS
<1>6. \A k \in b.lines : (\E r \in runs : r.id = k.run) => e(k) \in lines
  OBVIOUS
<1> HIDE DEF runs, lines, prices, watches
<1>7. /\ Own(b) \in Tables
      /\ Own(b).items = b.items /\ Own(b).alerts = b.alerts
      /\ Own(b).runs = runs /\ Own(b).lines = lines
  BY <1>1, <1>2, <1>4 DEF Tables
<1>8. \A l \in lines : \E k \in b.lines :
               /\ l.run = k.run /\ l.pos = k.pos /\ l.kind = k.kind /\ l = e(k)
  BY <1>3, <1>5
<1>9. \A k \in b.lines : (\E r \in runs : r.id = k.run) =>
               \E l \in lines : l.run = k.run /\ l.pos = k.pos
  BY <1>3, <1>6
<1> QED BY <1>7, <1>8, <1>9 DEF runs

(* The import: the tables of the backup, and the runs and lines there were.  *)
LEMMA ImportShape ==
  ASSUME LedgerTypeOK, ImportBackup
  PROVE  /\ backup \in Tables /\ backup # None
         /\ UNCHANGED <<backup, known, stamp>>
         /\ db' \in Tables
         /\ db'.items = backup.items /\ db'.alerts = backup.alerts
         /\ db'.prices = Own(backup).prices
         /\ db'.runs = Own(backup).runs \cup db.runs
         /\ db'.lines = Own(backup).lines \cup
               {l \in db.lines : \A k \in Own(backup).lines : k.run # l.run \/ k.pos # l.pos}
<1> DEFINE own == Own(backup)
           rest == {l \in db.lines : \A k \in own.lines : k.run # l.run \/ k.pos # l.pos}
<1>1. backup \in Tables /\ backup # None /\ UNCHANGED <<backup, known, stamp>> /\ db \in Tables
  BY DEF ImportBackup, LedgerTypeOK
<1>2. own \in Tables /\ own.items = backup.items /\ own.alerts = backup.alerts
  BY <1>1, OwnShape
<1>3. db' = [own EXCEPT !.runs = @ \cup db.runs, !.lines = @ \cup rest]
  BY DEF ImportBackup
<1>4. rest \subseteq LineRows /\ db.runs \subseteq RunRows
  BY <1>1 DEF Tables
<1> HIDE DEF own, rest
<1>5. /\ db' \in Tables /\ db'.items = own.items /\ db'.alerts = own.alerts
      /\ db'.prices = own.prices /\ db'.runs = own.runs \cup db.runs
      /\ db'.lines = own.lines \cup rest
  BY <1>2, <1>3, <1>4 DEF Tables
<1> QED BY <1>1, <1>2, <1>5 DEF own, rest

(* Typed: the other steps.                                                   *)
LEMMA LedgerStepTyped ==
  ASSUME LedgerTypeOK, Named(db), [LedgerNext]_ledgerVars
  PROVE  LedgerTypeOK'
<1>0. db \in Tables
  BY DEF LedgerTypeOK
<1>1. ASSUME NEW c \in CharIds, DeleteCharacter(c) PROVE LedgerTypeOK'
  <2>1. db' \in Tables
    BY <1>0, <1>1 DEF DeleteCharacter, Tables
  <2> QED BY <1>1, <2>1 DEF DeleteCharacter, LedgerTypeOK
<1>2. ASSUME NEW i \in ItemIds, DeleteItem(i) \/ \E n \in Names : UpdateItem(i, n)
      PROVE  LedgerTypeOK'
  <2>1. PICK v \in Names \cup {None} : db' = [db EXCEPT !.items = [db.items EXCEPT ![i] = v]]
    BY <1>0, <1>2 DEF DeleteItem, UpdateItem
  <2>2. [db.items EXCEPT ![i] = v] \in [ItemIds -> Names \cup {None}]
    BY <1>0, <2>1 DEF Tables
  <2>3. db' \in Tables
    BY <1>0, <2>1, <2>2 DEF Tables
  <2> QED BY <1>2, <2>3 DEF DeleteItem, UpdateItem, LedgerTypeOK
<1>3. ASSUME NEW id \in Stamps, NEW c \in CharIds, DeleteRun(id, c) PROVE LedgerTypeOK'
  <2>1. db' \in Tables
    BY <1>0, <1>3 DEF DeleteRun, Tables
  <2> QED BY <1>3, <2>1 DEF DeleteRun, LedgerTypeOK
<1>4. ASSUME NEW w \in db.watches, DeleteWatch(w) \/ \E b \in BOOLEAN : SetWatchActive(w, b)
      PROVE  LedgerTypeOK'
  <2>1. PICK new \in SUBSET WatchRows : db' = [db EXCEPT !.watches = (@ \ {w}) \cup new]
    <3>1. CASE DeleteWatch(w)
      <4> DEFINE new == {}
      <4>1. db' = [db EXCEPT !.watches = (@ \ {w}) \cup new]
        BY <3>1 DEF DeleteWatch
      <4>2. new \in SUBSET WatchRows
        OBVIOUS
      <4> HIDE DEF new
      <4> QED BY <4>1, <4>2
    <3>2. ASSUME NEW b \in BOOLEAN, SetWatchActive(w, b)
          PROVE  \E new \in SUBSET WatchRows : db' = [db EXCEPT !.watches = (@ \ {w}) \cup new]
      <4> DEFINE v == [w EXCEPT !.active = b]
                 new == {v}
      <4>1. v \in WatchRows
        <5>1. w \in WatchRows
          BY <1>0 DEF Tables
        <5> QED BY <5>1 DEF WatchRows
      <4>2. db' = [db EXCEPT !.watches = (@ \ {w}) \cup new]
        BY <3>2 DEF SetWatchActive
      <4> HIDE DEF v
      <4>3. new \in SUBSET WatchRows
        BY <4>1
      <4> HIDE DEF new
      <4> QED BY <4>2, <4>3
    <3> QED BY <1>4, <3>1, <3>2
  <2>2. db' \in Tables
    BY <1>0, <2>1 DEF Tables
  <2> QED BY <1>4, <2>2 DEF DeleteWatch, SetWatchActive, LedgerTypeOK
<1>5. ASSUME NEW a \in db.alerts, MarkRead(a) PROVE LedgerTypeOK'
  <2> DEFINE v == [a EXCEPT !.read = TRUE]
  <2>1. v \in AlertRows
    <3>1. a \in AlertRows
      BY <1>0 DEF Tables
    <3> QED BY <3>1 DEF AlertRows
  <2>2. db' = [db EXCEPT !.alerts = (@ \ {a}) \cup {v}]
    BY <1>5 DEF MarkRead
  <2> HIDE DEF v
  <2>3. db' \in Tables
    BY <1>0, <2>1, <2>2 DEF Tables
  <2> QED BY <1>5, <2>3 DEF MarkRead, LedgerTypeOK
<1>6. CASE ExportBackup
  <2>1. backup' \in Tables
    BY <1>0, <1>6 DEF ExportBackup, Tables
  <2> QED BY <1>6, <2>1 DEF ExportBackup, LedgerTypeOK
<1>7. CASE ImportBackup
  BY <1>7, ImportShape DEF LedgerTypeOK
<1>8. CASE UNCHANGED ledgerVars
  BY <1>8 DEF ledgerVars, LedgerTypeOK
<1>9. ASSUME NEW c \in CharIds, NEW input \in UNION {[1..k -> LineInputs] : k \in 0..MaxLines},
             CreateRunFails(c, input)
      PROVE  LedgerTypeOK'
  BY <1>9, <1>8 DEF CreateRunFails
<1> QED BY <1>1, <1>2, <1>3, <1>4, <1>5, <1>6, <1>7, <1>8, <1>9, RecordTyped DEF LedgerNext

(* What a step does to the items: nothing, a change of one, a lookup, or the *)
(* import.                                                                   *)
LEMMA ItemsStep ==
  ASSUME LedgerTypeOK, ItemsInv, [LedgerNext]_ledgerVars
  PROVE  ItemsInv'
<1>0. /\ db \in Tables /\ known \subseteq ItemIds /\ Named(db)
      /\ db.items \in [ItemIds -> Names \cup {None}]
  BY DEF LedgerTypeOK, Tables, ItemsInv
<1>1. ASSUME NEW items, db'.items = items, backup' = backup, known \subseteq known',
             \A i, j \in ItemIds : items[i] # None /\ items[i] = items[j] => i = j,
             \A i \in ItemIds : items[i] # None => i \in known'
      PROVE  ItemsInv'
  BY <1>1 DEF ItemsInv, Named, ItemsOf
<1>2. ASSUME NEW names \in SUBSET Names, NEW items \in Upserted(names), db'.items = items,
             known' = known \cup {i \in ItemIds : items[i] # None}, backup' = backup
      PROVE  ItemsInv'
  <2>1. \A i, j \in ItemIds : items[i] # None /\ items[i] = items[j] => i = j
    BY <1>0, <1>2, UpsertedShape
  <2> QED BY <1>1, <1>2, <2>1
<1>3. ASSUME NEW c \in CharIds, NEW k \in 0 .. MaxLines, NEW input \in [1 .. k -> LineInputs],
             CreateRun(c, input)
      PROVE  ItemsInv'
  <2> DEFINE names == {input[j].name : j \in DOMAIN input} \ {None}
  <2>1. PICK items \in Upserted(names) :
          /\ db' = [db EXCEPT !.items = items,
                              !.runs = @ \cup {[id |-> stamp + 1, char |-> c, asked |-> Len(input)]},
                              !.lines = @ \cup LinesOf(stamp + 1, items, input)]
          /\ known' = known \cup {i \in ItemIds : items[i] # None}
    BY <1>3 DEF CreateRun
  <2>2. names \subseteq Names
    <3>1. \A j \in DOMAIN input : input[j].name \in Names \cup {None}
      BY DEF LineInputs
    <3> QED BY <3>1
  <2>3. db'.items = items
    BY <1>0, <2>1 DEF Tables
  <2>4. backup' = backup
    BY <1>3 DEF CreateRun
  <2> HIDE DEF names
  <2> QED BY <1>2, <2>1, <2>2, <2>3, <2>4
<1>4. ASSUME NEW n \in Names,
             \/ \E s \in Servers, p \in Prices, at \in Times :
                  AddPrice(s, n, p, at) \/ AddPriceFails(s, n, p, at)
             \/ OnlyItemAdded(n)
             \/ \E s \in Servers, rule \in Rules : CreateWatch(s, n, rule)
      PROVE  ItemsInv'
  <2>1. PICK items \in Upserted({n}) :
          db'.items = items /\ known' = known \cup {i \in ItemIds : items[i] # None}
    BY <1>0, <1>4 DEF AddPrice, AddPriceFails, OnlyItemAdded, CreateWatch, Tables
  <2>2. backup' = backup
    BY <1>4 DEF AddPrice, AddPriceFails, OnlyItemAdded, CreateWatch
  <2>3. {n} \in SUBSET Names
    OBVIOUS
  <2> QED BY <1>2, <2>1, <2>2, <2>3
<1>5. ASSUME NEW i \in ItemIds, DeleteItem(i) \/ \E n \in Names : UpdateItem(i, n)
      PROVE  ItemsInv'
  <2>1. CASE DeleteItem(i)
    <3>1. db'.items = [db.items EXCEPT ![i] = None] /\ UNCHANGED <<backup, known>>
      BY <1>0, <2>1 DEF DeleteItem, Tables
    <3> DEFINE items == [db.items EXCEPT ![i] = None]
    <3>2. /\ \A j, k \in ItemIds : items[j] # None /\ items[j] = items[k] => j = k
          /\ \A j \in ItemIds : items[j] # None => j \in known
      BY <1>0 DEF Named, ItemsOf
    <3> HIDE DEF items
    <3> QED BY <1>1, <3>1, <3>2 DEF items
  <2>2. ASSUME NEW n \in Names, UpdateItem(i, n) PROVE ItemsInv'
    <3>1. db'.items = [db.items EXCEPT ![i] = n] /\ UNCHANGED <<backup, known>>
          /\ i \in ItemsOf(db) /\ \A j \in ItemsOf(db) \ {i} : db.items[j] # n
      BY <1>0, <2>2 DEF UpdateItem, Tables
    <3> DEFINE items == [db.items EXCEPT ![i] = n]
    <3>2. \A j \in ItemIds : items[j] = IF j = i THEN n ELSE db.items[j]
      BY <1>0
    <3> HIDE DEF items
    <3>3. \A j \in ItemIds : items[j] # None => j \in known
      BY <1>0, <3>1, <3>2 DEF Named, ItemsOf
    <3>4. n # None
      BY LedgerAssumption
    <3>5. \A j \in ItemIds : j # i => db.items[j] # n
      BY <3>1, <3>4 DEF ItemsOf
    <3>6. \A j, k \in ItemIds : items[j] # None /\ items[j] = items[k] => j = k
      BY <1>0, <3>2, <3>5 DEF Named
    <3> QED BY <1>1, <3>1, <3>3, <3>6 DEF items
  <2> QED BY <1>5, <2>1, <2>2
<1>6. ASSUME db'.items = db.items, UNCHANGED <<backup, known>> PROVE ItemsInv'
  BY <1>6 DEF ItemsInv, Named, ItemsOf
<1>7. ASSUME \/ UNCHANGED ledgerVars
             \/ \E c \in CharIds : DeleteCharacter(c)
             \/ \E c \in CharIds, input \in UNION {[1..k -> LineInputs] : k \in 0..MaxLines} :
                  CreateRunFails(c, input)
             \/ \E id \in Stamps, c \in CharIds : DeleteRun(id, c)
             \/ \E w \in db.watches : DeleteWatch(w) \/ \E b \in BOOLEAN : SetWatchActive(w, b)
             \/ \E a \in db.alerts : MarkRead(a)
      PROVE  ItemsInv'
  <2>1. db'.items = db.items /\ UNCHANGED <<backup, known>>
    BY <1>0, <1>7 DEF ledgerVars, DeleteCharacter, CreateRunFails, DeleteRun, DeleteWatch,
                      SetWatchActive, MarkRead, Tables
  <2> QED BY <1>6, <2>1
<1>8. CASE ExportBackup
  <2>1. backup'.items = db.items /\ UNCHANGED <<db, known>>
    BY <1>0, <1>8 DEF ExportBackup, Tables
  <2> QED BY <2>1 DEF ItemsInv, Named, ItemsOf
<1>9. CASE ImportBackup
  <2>1. db'.items = backup.items /\ UNCHANGED <<backup, known>> /\ backup # None
    BY <1>9, ImportShape
  <2> QED BY <2>1 DEF ItemsInv, Named, ItemsOf
<1> QED BY <1>3, <1>4, <1>5, <1>7, <1>8, <1>9 DEF LedgerNext

(* What the theorems about the logbook rest on.                              *)
BookInv == LedgerTypeOK /\ ItemsInv

LEMMA BookInvariance ==
  /\ LedgerInit => BookInv
  /\ BookInv /\ [LedgerNext]_ledgerVars => BookInv'
<1>1. LedgerInit => BookInv
  <2> SUFFICES ASSUME LedgerInit PROVE BookInv
    OBVIOUS
  <2>1. db \in Tables
    BY DEF LedgerInit, Tables
  <2>2. ItemsOf(db) = {}
    BY DEF LedgerInit, ItemsOf
  <2>3. MaxRecords \in Nat
    BY LedgerAssumption
  <2> QED BY <2>1, <2>2, <2>3 DEF LedgerInit, BookInv, LedgerTypeOK, ItemsInv, Named
<1>2. BookInv /\ [LedgerNext]_ledgerVars => BookInv'
  BY LedgerStepTyped, ItemsStep DEF BookInv, ItemsInv
<1> QED BY <1>1, <1>2

(* The alerts of an import are those of the file, which has none.            *)
AlertsInv == NoAlertWithoutPrice /\ (backup # None => backup.alerts = {})

LEMMA AlertsStep ==
  ASSUME BookInv, AlertsInv, [LedgerNext]_ledgerVars
  PROVE  AlertsInv'
<1>0. db \in Tables /\ LedgerTypeOK
  BY DEF BookInv, LedgerTypeOK
<1>1. ASSUME \A a \in db'.alerts : \E b \in db.alerts : b.price = a.price,
             db.prices \subseteq db'.prices, backup' = backup
      PROVE  AlertsInv'
  BY <1>1 DEF AlertsInv, NoAlertWithoutPrice
<1>2. ASSUME db'.alerts = db.alerts, db.prices \subseteq db'.prices, backup' = backup
      PROVE  AlertsInv'
  BY <1>1, <1>2
<1>3. ASSUME NEW s \in Servers, NEW n \in Names, NEW p \in Prices, NEW at \in Times,
             AddPrice(s, n, p, at)
      PROVE  AlertsInv'
  <2>1. PICK items \in Upserted({n}) :
          db' = [db EXCEPT !.items = items,
                           !.prices = @ \cup {Priced(items, s, n, p, at)},
                           !.alerts = @ \cup
                               {[price |-> stamp + 1, watch |-> w.id, read |-> FALSE] :
                                   w \in Triggered(db, s, ItemNamed(items, n), p)}]
    BY <1>3 DEF AddPrice
  <2> DEFINE a(w) == [price |-> stamp + 1, watch |-> w.id, read |-> FALSE]
             A == {a(w) : w \in Triggered(db, s, ItemNamed(items, n), p)}
             q == Priced(items, s, n, p, at)
  <2>2. db' = [db EXCEPT !.items = items, !.prices = @ \cup {q}, !.alerts = @ \cup A]
    BY <2>1
  <2>3. \A b \in A : b.price = q.id
    BY DEF Priced
  <2> HIDE DEF A, q
  <2>4. db'.alerts = db.alerts \cup A /\ db'.prices = db.prices \cup {q}
    BY <1>0, <2>2, TablesType
  <2>5. backup' = backup
    BY <1>3 DEF AddPrice
  <2> QED BY <2>3, <2>4, <2>5 DEF AlertsInv, NoAlertWithoutPrice
<1>4. ASSUME NEW s \in Servers, NEW n \in Names, NEW p \in Prices, NEW at \in Times,
             AddPriceFails(s, n, p, at)
      PROVE  AlertsInv'
  <2>1. db'.alerts = db.alerts /\ db.prices \subseteq db'.prices /\ backup' = backup
    BY <1>0, <1>4, TablesType DEF AddPriceFails
  <2> QED BY <1>2, <2>1
<1>5. ASSUME NEW c \in CharIds, NEW input, CreateRun(c, input) PROVE AlertsInv'
  <2>1. PICK items \in Upserted({input[k].name : k \in DOMAIN input} \ {None}) :
          db' = [db EXCEPT !.items = items,
                           !.runs = @ \cup {[id |-> stamp + 1, char |-> c, asked |-> Len(input)]},
                           !.lines = @ \cup LinesOf(stamp + 1, items, input)]
    BY <1>5 DEF CreateRun
  <2>2. db'.alerts = db.alerts /\ db'.prices = db.prices /\ backup' = backup
    BY <1>0, <1>5, <2>1, TablesType DEF CreateRun
  <2> QED BY <1>2, <2>2
<1>6. ASSUME NEW a \in db.alerts, MarkRead(a) PROVE AlertsInv'
  <2>1. a \in AlertRows
    BY <1>0, TablesType
  <2>2. [a EXCEPT !.read = TRUE].price = a.price
    BY <2>1 DEF AlertRows
  <2>3. /\ db'.alerts = (db.alerts \ {a}) \cup {[a EXCEPT !.read = TRUE]}
        /\ db'.prices = db.prices /\ backup' = backup
    BY <1>0, <1>6, TablesType DEF MarkRead
  <2> QED BY <1>1, <2>2, <2>3
<1>7. CASE ExportBackup
  <2>1. db' = db /\ backup'.alerts = {}
    BY <1>0, <1>7, TablesType DEF ExportBackup
  <2> QED BY <2>1 DEF AlertsInv, NoAlertWithoutPrice
<1>8. CASE ImportBackup
  <2>1. db'.alerts = {} /\ backup' = backup
    BY <1>0, <1>8, ImportShape DEF AlertsInv
  <2> QED BY <2>1 DEF AlertsInv, NoAlertWithoutPrice
<1>9. ASSUME \/ UNCHANGED ledgerVars
             \/ \E c \in CharIds : DeleteCharacter(c)
             \/ \E i \in ItemIds : DeleteItem(i) \/ \E n \in Names : UpdateItem(i, n)
             \/ \E c \in CharIds, input \in UNION {[1..k -> LineInputs] : k \in 0..MaxLines} :
                  CreateRunFails(c, input)
             \/ \E id \in Stamps, c \in CharIds : DeleteRun(id, c)
             \/ \E n \in Names : OnlyItemAdded(n)
             \/ \E s \in Servers, n \in Names, rule \in Rules : CreateWatch(s, n, rule)
             \/ \E w \in db.watches : DeleteWatch(w) \/ \E b \in BOOLEAN : SetWatchActive(w, b)
      PROVE  AlertsInv'
  <2>1. CASE UNCHANGED ledgerVars
    BY <1>2, <2>1 DEF ledgerVars
  <2>2. ASSUME NEW c \in CharIds, NEW input, CreateRunFails(c, input) PROVE AlertsInv'
    BY <2>1, <2>2 DEF CreateRunFails
  <2>3. ASSUME NEW n \in Names,
               OnlyItemAdded(n) \/ \E s \in Servers, rule \in Rules : CreateWatch(s, n, rule)
        PROVE  AlertsInv'
    <3>1. db'.alerts = db.alerts /\ db'.prices = db.prices /\ backup' = backup
      <4>1. backup' = backup
        BY <2>3 DEF OnlyItemAdded, CreateWatch
      <4>2. CASE OnlyItemAdded(n)
        BY <1>0, <4>1, <4>2, TablesType DEF OnlyItemAdded
      <4>3. ASSUME NEW s \in Servers, NEW rule \in Rules, CreateWatch(s, n, rule)
            PROVE  db'.alerts = db.alerts /\ db'.prices = db.prices
        <5> DEFINE w(items) == [id |-> stamp + 1, server |-> s, item |-> ItemNamed(items, n),
                                rule |-> rule, active |-> TRUE]
        <5>1. PICK items \in Upserted({n}) :
                db' = [db EXCEPT !.items = items, !.watches = @ \cup {w(items)}]
          BY <4>3 DEF CreateWatch
        <5> HIDE DEF w
        <5> QED BY <1>0, <5>1, TablesType
      <4> QED BY <2>3, <4>1, <4>2, <4>3
    <3> QED BY <1>2, <3>1
  <2>4. ASSUME \/ \E c \in CharIds : DeleteCharacter(c)
               \/ \E i \in ItemIds : DeleteItem(i) \/ \E n \in Names : UpdateItem(i, n)
               \/ \E id \in Stamps, c \in CharIds : DeleteRun(id, c)
               \/ \E w \in db.watches : DeleteWatch(w) \/ \E b \in BOOLEAN : SetWatchActive(w, b)
        PROVE  AlertsInv'
    <3>1. db'.alerts = db.alerts /\ db'.prices = db.prices /\ backup' = backup
      BY <1>0, <2>4, TablesType
         DEF DeleteCharacter, DeleteItem, UpdateItem, DeleteRun, DeleteWatch, SetWatchActive
    <3> QED BY <1>2, <3>1
  <2> QED BY <1>9, <2>1, <2>2, <2>3, <2>4
<1> QED BY <1>3, <1>4, <1>5, <1>6, <1>7, <1>8, <1>9 DEF LedgerNext

(* An alert is about a price that is in the book (createEconomyPriceSnapshot *)
(* writes it with its price, importUserBackup deletes both).                 *)
THEOREM NoAlertWithoutPriceHolds == LedgerSpec => []NoAlertWithoutPrice
<1>1. LedgerInit => BookInv /\ AlertsInv
  <2>1. LedgerInit => AlertsInv
    BY DEF LedgerInit, AlertsInv, NoAlertWithoutPrice
  <2> QED BY <2>1, BookInvariance
<1>2. BookInv /\ AlertsInv /\ [LedgerNext]_ledgerVars => (BookInv /\ AlertsInv)'
  BY AlertsStep, BookInvariance
<1>3. BookInv /\ AlertsInv => NoAlertWithoutPrice
  BY DEF AlertsInv
<1> QED BY <1>1, <1>2, <1>3, PTL DEF LedgerSpec

(* The lines of the runs in the tables and in the backup: one for every      *)
(* position a run was recorded with and none beyond, also when the run is in *)
(* the one and the line in the other.                                        *)
Logged(d) ==
  /\ \A l \in d.lines : l.run <= stamp
  /\ \A r \in d.runs : r.id <= stamp
  /\ \A l, k \in d.lines : l.run = k.run /\ l.pos = k.pos => l = k
  /\ \A r \in d.runs : \A n \in 1 .. r.asked : \E l \in d.lines : l.run = r.id /\ l.pos = n

Within(d, e) == \A r \in d.runs, l \in e.lines : l.run = r.id => l.pos <= r.asked

LinesInv ==
  /\ Logged(db) /\ Within(db, db)
  /\ backup # None => /\ Logged(backup) /\ Within(backup, backup)
                      /\ Within(db, backup) /\ Within(backup, db)

(* Rows of the tables are numbers where the invariant compares them.         *)
LEMMA RowNumbers ==
  ASSUME LedgerTypeOK, NEW d \in Tables
  PROVE  /\ stamp \in Nat
         /\ \A l \in d.lines : l.run \in Nat /\ l.pos \in Nat
         /\ \A r \in d.runs : r.id \in Nat /\ r.asked \in Nat
<1>1. d.lines \subseteq LineRows /\ d.runs \subseteq RunRows /\ MaxRecords \in Nat /\ MaxLines \in Nat
  BY LedgerAssumption DEF Tables
<1> QED BY <1>1 DEF LedgerTypeOK, LineRows, RunRows, Stamps

(* The lines of a new run: one for each position.                            *)
LEMMA NewLines ==
  ASSUME NEW id, NEW items, NEW k, NEW input, DOMAIN input = 1 .. k
  PROVE  /\ \A l \in LinesOf(id, items, input) : l.run = id /\ l.pos \in 1 .. k
         /\ \A l, m \in LinesOf(id, items, input) : l.pos = m.pos => l = m
         /\ \A n \in 1 .. k : \E l \in LinesOf(id, items, input) : l.run = id /\ l.pos = n
<1> DEFINE row(n) ==
      [run |-> id, pos |-> n, kind |-> input[n].kind,
       item |-> IF input[n].name = None THEN None ELSE ItemNamed(items, input[n].name)]
<1>1. LinesOf(id, items, input) = {row(n) : n \in 1 .. k}
  BY DEF LinesOf
<1>2. \A n : row(n).run = id /\ row(n).pos = n
  OBVIOUS
<1> HIDE DEF row
<1> QED BY <1>1, <1>2

(* A new run, with the lines it is recorded with.                            *)
LEMMA RunAddsLines ==
  ASSUME LedgerTypeOK, LinesInv, LedgerTypeOK',
         NEW c \in CharIds, NEW k \in 0 .. MaxLines, NEW input \in [1 .. k -> LineInputs],
         CreateRun(c, input)
  PROVE  LinesInv'
<1> DEFINE id == stamp + 1
           run == [id |-> id, char |-> c, asked |-> Len(input)]
<1>0. k \in Nat /\ Len(input) = k /\ DOMAIN input = 1 .. k /\ db \in Tables /\ db' \in Tables
  BY LedgerAssumption DEF LedgerTypeOK
<1>1. PICK items : db' = [db EXCEPT !.items = items, !.runs = @ \cup {run},
                                    !.lines = @ \cup LinesOf(id, items, input)]
  BY DEF CreateRun
<1> DEFINE L == LinesOf(id, items, input)
<1>2. stamp' = id /\ backup' = backup
  BY DEF CreateRun
<1>3. /\ \A l \in L : l.run = id /\ l.pos \in 1 .. k
      /\ \A l, m \in L : l.pos = m.pos => l = m
      /\ \A n \in 1 .. k : \E l \in L : l.run = id /\ l.pos = n
  <2> HIDE DEF id
  <2> QED BY <1>0, NewLines
<1>4. run.id = id /\ run.asked = k
  BY <1>0
<1>5. stamp \in Nat /\ id \in Nat /\ stamp < id
  BY LedgerAssumption DEF LedgerTypeOK
<1>6. ASSUME backup # None
      PROVE  backup \in Tables /\ Logged(backup) /\ Within(backup, backup)
             /\ Within(db, backup) /\ Within(backup, db)
  BY <1>6 DEF LedgerTypeOK, LinesInv
<1> HIDE DEF id, run, L
<1>7. db'.runs = db.runs \cup {run} /\ db'.lines = db.lines \cup L
  BY <1>0, <1>1, TablesType DEF L
<1>8. Logged(db) /\ Within(db, db)
  BY DEF LinesInv
<1>9. /\ \A l \in db.lines : l.run \in Nat /\ l.run <= stamp /\ l.run < id
      /\ \A r \in db.runs : r.id \in Nat /\ r.id <= stamp /\ r.id < id
  BY <1>0, <1>5, <1>8, RowNumbers DEF Logged
<1>10. Logged(db)'
  <2>1. /\ \A l \in db'.lines : l.run <= stamp'
        /\ \A r \in db'.runs : r.id <= stamp'
    BY <1>2, <1>3, <1>4, <1>5, <1>7, <1>9
  <2>2. ASSUME NEW l \in db'.lines, NEW m \in db'.lines, l.run = m.run, l.pos = m.pos
        PROVE  l = m
    BY <1>3, <1>5, <1>7, <1>8, <1>9, <2>2 DEF Logged
  <2>3. ASSUME NEW r \in db'.runs, NEW n \in 1 .. r.asked
        PROVE  \E l \in db'.lines : l.run = r.id /\ l.pos = n
    <3>1. CASE r \in db.runs
      BY <1>7, <1>8, <2>3, <3>1 DEF Logged
    <3>2. CASE r = run
      BY <1>3, <1>4, <1>7, <2>3, <3>2
    <3> QED BY <1>7, <3>1, <3>2
  <2> QED BY <2>1, <2>2, <2>3 DEF Logged
<1>11. Within(db, db)'
  <2>1. ASSUME NEW r \in db'.runs, NEW l \in db'.lines, l.run = r.id
        PROVE  l.pos <= r.asked
    <3>1. CASE r \in db.runs /\ l \in db.lines
      BY <1>8, <2>1, <3>1 DEF Within
    <3>2. CASE r = run /\ l \in L
      BY <1>3, <1>4, <3>2
    <3>3. CASE r = run /\ l \in db.lines
      BY <1>4, <1>5, <1>9, <2>1, <3>3
    <3>4. CASE r \in db.runs /\ l \in L
      BY <1>3, <1>5, <1>9, <2>1, <3>4
    <3> QED BY <1>7, <3>1, <3>2, <3>3, <3>4
  <2> QED BY <2>1 DEF Within
<1>12. ASSUME backup # None
       PROVE  (Logged(backup) /\ Within(backup, backup)
              /\ Within(db, backup) /\ Within(backup, db))'
  <2>1. /\ \A l \in backup.lines : l.run \in Nat /\ l.run <= stamp /\ l.run < id
        /\ \A r \in backup.runs : r.id \in Nat /\ r.id <= stamp /\ r.id < id
    BY <1>5, <1>6, <1>12, RowNumbers DEF Logged
  <2>2. Logged(backup)'
    BY <1>2, <1>5, <1>6, <1>12, <2>1 DEF Logged
  <2>3. Within(backup, backup)'
    BY <1>2, <1>6, <1>12 DEF Within
  <2>4. Within(db, backup)'
    BY <1>2, <1>4, <1>5, <1>6, <1>7, <1>12, <2>1 DEF Within
  <2>5. Within(backup, db)'
    BY <1>2, <1>3, <1>5, <1>6, <1>7, <1>12, <2>1 DEF Within
  <2> QED BY <2>2, <2>3, <2>4, <2>5
<1> QED BY <1>2, <1>10, <1>11, <1>12 DEF LinesInv

(* The import puts the lines of the file over those there are.               *)
LEMMA ImportKeepsLines ==
  ASSUME LedgerTypeOK, LinesInv, ImportBackup
  PROVE  LinesInv'
<1> DEFINE own == Own(backup)
           rest == {l \in db.lines : \A k \in own.lines : k.run # l.run \/ k.pos # l.pos}
<1>1. /\ backup \in Tables /\ backup # None /\ UNCHANGED <<backup, known, stamp>>
      /\ db'.runs = own.runs \cup db.runs /\ db'.lines = own.lines \cup rest
  BY ImportShape
<1>2. /\ Logged(db) /\ Within(db, db) /\ Logged(backup) /\ Within(backup, backup)
      /\ Within(db, backup) /\ Within(backup, db)
  BY <1>1 DEF LinesInv
<1>3. /\ own.runs \subseteq backup.runs
      /\ \A l \in own.lines : \E k \in backup.lines :
            /\ l.run = k.run /\ l.pos = k.pos
            /\ l = [k EXCEPT !.item = IF @ \in ItemsOf(backup) THEN @ ELSE None]
      /\ \A k \in backup.lines : (\E r \in own.runs : r.id = k.run) =>
            \E l \in own.lines : l.run = k.run /\ l.pos = k.pos
  BY <1>1, OwnShape
<1>4. /\ rest \subseteq db.lines
      /\ \A l \in rest, k \in own.lines : k.run # l.run \/ k.pos # l.pos
      /\ \A l \in db.lines : l \in rest \/ \E k \in own.lines : k.run = l.run /\ k.pos = l.pos
  OBVIOUS
<1> HIDE DEF own, rest
<1>5. \A l, m \in own.lines : l.run = m.run /\ l.pos = m.pos => l = m
  BY <1>2, <1>3 DEF Logged
<1>6. Logged(db)'
  <2>1. /\ \A l \in db'.lines : l.run <= stamp'
        /\ \A r \in db'.runs : r.id <= stamp'
    BY <1>1, <1>2, <1>3, <1>4 DEF Logged
  <2>2. ASSUME NEW l \in db'.lines, NEW m \in db'.lines, l.run = m.run, l.pos = m.pos
        PROVE  l = m
    BY <1>1, <1>2, <1>4, <1>5, <2>2 DEF Logged
  <2>3. ASSUME NEW r \in db'.runs, NEW n \in 1 .. r.asked
        PROVE  \E l \in db'.lines : l.run = r.id /\ l.pos = n
    <3>1. CASE r \in own.runs
      <4>1. PICK k \in backup.lines : k.run = r.id /\ k.pos = n
        BY <1>2, <1>3, <2>3, <3>1 DEF Logged
      <4> QED BY <1>1, <1>3, <3>1, <4>1
    <3>2. CASE r \in db.runs
      <4>1. PICK k \in db.lines : k.run = r.id /\ k.pos = n
        BY <1>2, <2>3, <3>2 DEF Logged
      <4> QED BY <1>1, <1>4, <4>1
    <3> QED BY <1>1, <3>1, <3>2
  <2> QED BY <2>1, <2>2, <2>3 DEF Logged
<1>7. /\ \A r \in db'.runs : r \in backup.runs \/ r \in db.runs
      /\ \A l \in db'.lines : \/ \E k \in backup.lines : l.run = k.run /\ l.pos = k.pos
                              \/ l \in db.lines
  BY <1>1, <1>3, <1>4
<1>8. Within(db, db)'
  BY <1>2, <1>7 DEF Within
<1>9. Within(db, backup)' /\ Within(backup, db)'
  BY <1>1, <1>2, <1>7 DEF Within
<1>10. Logged(backup)' /\ Within(backup, backup)'
  BY <1>1, <1>2 DEF Logged, Within
<1> QED BY <1>6, <1>8, <1>9, <1>10 DEF LinesInv

LEMMA LinesStep ==
  ASSUME BookInv, LinesInv, [LedgerNext]_ledgerVars, LedgerTypeOK'
  PROVE  LinesInv'
<1>0. db \in Tables /\ LedgerTypeOK /\ stamp \in Nat
  BY LedgerAssumption DEF BookInv, LedgerTypeOK
<1>1. ASSUME db'.runs \subseteq db.runs, db'.lines = db.lines, backup' = backup,
             stamp' = stamp \/ stamp' = stamp + 1
      PROVE  LinesInv'
  <2>1. ASSUME NEW d \in Tables, Logged(d), NEW e, e.runs \subseteq d.runs, e.lines = d.lines
        PROVE  /\ \A l \in e.lines : l.run <= stamp'
               /\ \A r \in e.runs : r.id <= stamp'
               /\ \A l, k \in e.lines : l.run = k.run /\ l.pos = k.pos => l = k
               /\ \A r \in e.runs : \A n \in 1 .. r.asked :
                    \E l \in e.lines : l.run = r.id /\ l.pos = n
    <3>1. /\ \A l \in d.lines : l.run \in Nat /\ l.run <= stamp
          /\ \A r \in d.runs : r.id \in Nat /\ r.id <= stamp
      BY <1>0, <2>1, RowNumbers DEF Logged
    <3>2. /\ \A l \in e.lines : l.run <= stamp'
          /\ \A r \in e.runs : r.id <= stamp'
      BY <1>0, <1>1, <2>1, <3>1
    <3> QED BY <2>1, <3>2 DEF Logged
  <2>2. Logged(db)'
    BY <1>0, <1>1, <2>1 DEF LinesInv, Logged
  <2>3. backup # None => Logged(backup)'
    <3>1. backup # None => backup \in Tables /\ Logged(backup)
      BY <1>0 DEF LedgerTypeOK, LinesInv
    <3> QED BY <1>1, <2>1, <3>1 DEF Logged
  <2>4. /\ Within(db, db)'
        /\ backup # None =>
             (Within(backup, backup) /\ Within(db, backup) /\ Within(backup, db))'
    BY <1>1 DEF LinesInv, Within
  <2> QED BY <1>1, <2>2, <2>3, <2>4 DEF LinesInv
<1>2. ASSUME NEW c \in CharIds,
             NEW input \in UNION {[1 .. k -> LineInputs] : k \in 0 .. MaxLines},
             CreateRun(c, input)
      PROVE  LinesInv'
  <2>1. PICK k \in 0 .. MaxLines : input \in [1 .. k -> LineInputs]
    OBVIOUS
  <2> QED BY <1>0, <1>2, <2>1, RunAddsLines
<1>3. CASE ImportBackup
  BY <1>0, <1>3, ImportKeepsLines
<1>4. CASE ExportBackup
  <2>1. /\ db' = db /\ stamp' = stamp
        /\ backup'.runs = db.runs /\ backup'.lines = db.lines
    BY <1>0, <1>4, TablesType DEF ExportBackup
  <2> QED BY <2>1 DEF LinesInv, Logged, Within
<1>5. ASSUME NEW id \in Stamps, NEW c \in CharIds, DeleteRun(id, c) PROVE LinesInv'
  <2>1. /\ db'.runs \subseteq db.runs /\ db'.lines = db.lines
        /\ backup' = backup /\ stamp' = stamp
    BY <1>0, <1>5, TablesType DEF DeleteRun
  <2> QED BY <1>1, <2>1
<1>6. ASSUME NEW s \in Servers, NEW n \in Names, NEW p \in Prices, NEW at \in Times,
             AddPrice(s, n, p, at) \/ AddPriceFails(s, n, p, at)
      PROVE  LinesInv'
  <2>1. backup' = backup /\ stamp' = stamp + 1
    BY <1>6 DEF AddPrice, AddPriceFails
  <2>2. db'.runs = db.runs /\ db'.lines = db.lines
    <3>1. CASE AddPrice(s, n, p, at)
      <4> DEFINE A(items) == {[price |-> stamp + 1, watch |-> w.id, read |-> FALSE] :
                                 w \in Triggered(db, s, ItemNamed(items, n), p)}
      <4>1. PICK items \in Upserted({n}) :
              db' = [db EXCEPT !.items = items,
                               !.prices = @ \cup {Priced(items, s, n, p, at)},
                               !.alerts = @ \cup A(items)]
        BY <3>1 DEF AddPrice
      <4> HIDE DEF A
      <4> QED BY <1>0, <4>1, TablesType
    <3>2. CASE AddPriceFails(s, n, p, at)
      BY <1>0, <3>2, TablesType DEF AddPriceFails
    <3> QED BY <1>6, <3>1, <3>2
  <2> QED BY <1>1, <2>1, <2>2
<1>7. ASSUME NEW s \in Servers, NEW n \in Names, NEW rule \in Rules, CreateWatch(s, n, rule)
      PROVE  LinesInv'
  <2> DEFINE w(items) == [id |-> stamp + 1, server |-> s, item |-> ItemNamed(items, n),
                          rule |-> rule, active |-> TRUE]
  <2>1. PICK items \in Upserted({n}) :
          db' = [db EXCEPT !.items = items, !.watches = @ \cup {w(items)}]
    BY <1>7 DEF CreateWatch
  <2>2. backup' = backup /\ stamp' = stamp + 1
    BY <1>7 DEF CreateWatch
  <2> HIDE DEF w
  <2>3. db'.runs = db.runs /\ db'.lines = db.lines
    BY <1>0, <2>1, TablesType
  <2> QED BY <1>1, <2>2, <2>3
<1>8. CASE UNCHANGED ledgerVars
  BY <1>1, <1>8 DEF ledgerVars
<1>9. ASSUME NEW c \in CharIds, NEW input, CreateRunFails(c, input) PROVE LinesInv'
  BY <1>8, <1>9 DEF CreateRunFails
<1>10. ASSUME \/ \E c \in CharIds : DeleteCharacter(c)
              \/ \E i \in ItemIds : DeleteItem(i) \/ \E n \in Names : UpdateItem(i, n)
              \/ \E w \in db.watches : DeleteWatch(w) \/ \E b \in BOOLEAN : SetWatchActive(w, b)
              \/ \E a \in db.alerts : MarkRead(a)
       PROVE  LinesInv'
  <2>1. /\ db'.runs = db.runs /\ db'.lines = db.lines
        /\ backup' = backup /\ stamp' = stamp
    BY <1>0, <1>10, TablesType
       DEF DeleteCharacter, DeleteItem, UpdateItem, DeleteWatch, SetWatchActive, MarkRead
  <2> QED BY <1>1, <2>1
<1>11. ASSUME NEW n \in Names, OnlyItemAdded(n) PROVE LinesInv'
  <2>1. /\ db'.runs = db.runs /\ db'.lines = db.lines
        /\ backup' = backup /\ stamp' = stamp
    BY <1>0, <1>11, TablesType DEF OnlyItemAdded
  <2> QED BY <1>1, <2>1
<1> QED BY <1>2, <1>3, <1>4, <1>5, <1>6, <1>7, <1>8, <1>9, <1>10, <1>11 DEF LedgerNext

(* As many lines as were recorded.                                           *)
LEMMA LinesCounted ==
  ASSUME LedgerTypeOK, LinesInv
  PROVE  RunsWhole
<1> SUFFICES ASSUME NEW r \in db.runs
             PROVE  Cardinality({l \in db.lines : l.run = r.id}) = r.asked
  BY DEF RunsWhole
<1> DEFINE of == {l \in db.lines : l.run = r.id}
           at == [n \in 1 .. r.asked |-> CHOOSE l \in of : l.pos = n]
<1>1. db \in Tables /\ Logged(db) /\ Within(db, db)
  BY DEF LedgerTypeOK, LinesInv
<1>2. /\ r.asked \in Nat
      /\ \A l \in of : l.pos \in Nat \ {0}
  <2>1. db.lines \subseteq LineRows /\ MaxLines \in Nat
    BY <1>1, LedgerAssumption DEF Tables
  <2> QED BY <1>1, <2>1, RowNumbers DEF LineRows
<1>3. \A n \in 1 .. r.asked : \E l \in of : l.pos = n
  BY <1>1 DEF Logged
<1>4. \A l, k \in of : l.pos = k.pos => l = k
  BY <1>1 DEF Logged
<1>5. \A l \in of : l.pos \in 1 .. r.asked
  BY <1>1, <1>2 DEF Within
<1> HIDE DEF of
<1>6. \A n \in 1 .. r.asked : at[n] \in of /\ at[n].pos = n
  BY <1>3
<1>7. at \in [1 .. r.asked -> of]
  BY <1>6
<1>8. \A m, n \in 1 .. r.asked : at[m] = at[n] => m = n
  BY <1>6
<1>9. \A l \in of : \E n \in 1 .. r.asked : at[n] = l
  BY <1>4, <1>5, <1>6
<1> HIDE DEF at
<1>10. at \in Bijection(1 .. r.asked, of)
  BY <1>7, <1>8, <1>9 DEF Bijection, Injection, Surjection, IsInjective
<1>11. ExistsBijection(1 .. r.asked, of)
  BY <1>10 DEF ExistsBijection
<1>12. IsFiniteSet(1 .. r.asked) /\ Cardinality(1 .. r.asked) = r.asked
  BY <1>2, FS_Interval
<1>13. Cardinality(of) = r.asked
  BY <1>11, <1>12, FS_Bijection
<1> QED BY <1>13 DEF of

LEMMA LinesInvariance == LedgerSpec => [](BookInv /\ LinesInv)
<1>1. LedgerInit => BookInv /\ LinesInv
  <2>1. LedgerInit => LinesInv
    BY DEF LedgerInit, LinesInv, Logged, Within
  <2> QED BY <2>1, BookInvariance
<1>2. BookInv /\ LinesInv /\ [LedgerNext]_ledgerVars => (BookInv /\ LinesInv)'
  <2> SUFFICES ASSUME BookInv, LinesInv, [LedgerNext]_ledgerVars PROVE (BookInv /\ LinesInv)'
    OBVIOUS
  <2>1. BookInv'
    BY BookInvariance
  <2>2. LedgerTypeOK'
    BY <2>1 DEF BookInv
  <2> QED BY <2>1, <2>2, LinesStep
<1> QED BY <1>1, <1>2, PTL DEF LedgerSpec

(* A run in the logbook has every line it was recorded with (createLootRun   *)
(* is one transaction, importUserBackup replaces lines by run and position,  *)
(* deleteLootRun leaves them).                                               *)
THEOREM RunsWholeHolds == LedgerSpec => []RunsWhole
<1>1. BookInv /\ LinesInv => RunsWhole
  BY LinesCounted DEF BookInv
<1> QED BY <1>1, LinesInvariance, PTL

(* What a recorded price adds, its type aside.                               *)
LEMMA AddPriceShape ==
  ASSUME BookInv, NEW s, NEW n \in Names, NEW p, NEW at, AddPrice(s, n, p, at)
  PROVE  \E items \in [ItemIds -> Names \cup {None}] :
            /\ \A i \in ItemsOf(db) : items[i] = db.items[i]
            /\ \A i, j \in ItemIds : items[i] # None /\ items[i] = items[j] => i = j
            /\ ItemNamed(items, n) \in ItemIds /\ items[ItemNamed(items, n)] = n
            /\ db'.prices = db.prices \cup {Priced(items, s, n, p, at)}
            /\ db'.alerts = db.alerts \cup
                  {[price |-> stamp + 1, watch |-> w.id, read |-> FALSE] :
                      w \in Triggered(db, s, ItemNamed(items, n), p)}
            /\ db'.runs = db.runs /\ db'.lines = db.lines
<1> DEFINE A(items) == {[price |-> stamp + 1, watch |-> w.id, read |-> FALSE] :
                           w \in Triggered(db, s, ItemNamed(items, n), p)}
<1>0. db \in Tables /\ LedgerTypeOK /\ Named(db) /\ {n} \in SUBSET Names
  BY DEF BookInv, LedgerTypeOK, ItemsInv
<1>1. PICK items \in Upserted({n}) :
        db' = [db EXCEPT !.items = items,
                         !.prices = @ \cup {Priced(items, s, n, p, at)},
                         !.alerts = @ \cup A(items)]
  BY DEF AddPrice
<1>2. /\ items \in [ItemIds -> Names \cup {None}]
      /\ \A i \in ItemsOf(db) : items[i] = db.items[i]
      /\ \E i \in ItemIds : items[i] = n
      /\ \A i, j \in ItemIds : items[i] # None /\ items[i] = items[j] => i = j
  BY <1>0, UpsertedShape
<1>3. ItemNamed(items, n) \in ItemIds /\ items[ItemNamed(items, n)] = n
  BY <1>2, ItemNamedType
<1>4. db'.alerts = db.alerts \cup A(items)
  <2> HIDE DEF A
  <2> QED BY <1>0, <1>1, TablesType
<1> DEFINE B == A(items)
<1>5. db' = [db EXCEPT !.items = items,
                       !.prices = @ \cup {Priced(items, s, n, p, at)},
                       !.alerts = @ \cup B]
  BY <1>1
<1> HIDE DEF A, B
<1>6. /\ db'.prices = db.prices \cup {Priced(items, s, n, p, at)}
      /\ db'.runs = db.runs /\ db'.lines = db.lines
  BY <1>0, <1>5, TablesType
<1> QED BY <1>2, <1>3, <1>4, <1>6 DEF A

(* A price entered under the name the page lists for a watch is a price of   *)
(* the watch's own item: the name is unique and found again                  *)
(* (upsertEconomyItemByName), however often the item was renamed.            *)
THEOREM ListedWatchesFireHolds == LedgerSpec => ListedWatchesFire
<1>1. ASSUME BookInv, [LedgerNext]_ledgerVars,
             NEW new \in db'.prices \ db.prices, NEW w \in Listed(db),
             w.active /\ w.server = new.server /\ Meets(new.price, w.rule),
             [price |-> new.id, watch |-> w.id, read |-> FALSE] \notin db'.alerts,
             AddPrice(new.server, db.items[w.item], new.price, new.at)
      PROVE  FALSE
  <2> DEFINE n == db.items[w.item]
             s == new.server
             p == new.price
  <2>1. db \in Tables
    BY <1>1 DEF BookInv, LedgerTypeOK
  <2>2. w \in db.watches /\ w.item \in ItemIds /\ n \in Names /\ n # None
    BY <2>1 DEF Listed, Tables, WatchRows
  <2>3. AddPrice(s, n, p, new.at)
    BY <1>1
  <2> HIDE DEF s, n, p
  <2>4. PICK items \in [ItemIds -> Names \cup {None}] :
          /\ \A i \in ItemsOf(db) : items[i] = db.items[i]
          /\ \A i, j \in ItemIds : items[i] # None /\ items[i] = items[j] => i = j
          /\ ItemNamed(items, n) \in ItemIds /\ items[ItemNamed(items, n)] = n
          /\ db'.prices = db.prices \cup {Priced(items, s, n, p, new.at)}
          /\ db'.alerts = db.alerts \cup
                {[price |-> stamp + 1, watch |-> v.id, read |-> FALSE] :
                    v \in Triggered(db, s, ItemNamed(items, n), p)}
    BY <1>1, <2>2, <2>3, AddPriceShape
  <2>5. ItemNamed(items, n) = w.item
    <3>1. items[w.item] = n
      BY <2>2, <2>4 DEF ItemsOf, n
    <3> QED BY <2>2, <2>4, <3>1
  <2>6. w \in Triggered(db, s, ItemNamed(items, n), p)
    BY <1>1, <2>2, <2>5 DEF Triggered, s, p
  <2>7. new = Priced(items, s, n, p, new.at)
    BY <1>1, <2>4
  <2>8. new.id = stamp + 1
    BY <2>7 DEF Priced
  <2>9. [price |-> stamp + 1, watch |-> w.id, read |-> FALSE] \in db'.alerts
    BY <2>4, <2>6
  <2> QED BY <1>1, <2>8, <2>9
<1>2. ASSUME BookInv, [LedgerNext]_ledgerVars
      PROVE  \A new \in db'.prices \ db.prices, w \in Listed(db) :
                /\ w.active /\ w.server = new.server /\ Meets(new.price, w.rule)
                /\ [price |-> new.id, watch |-> w.id, read |-> FALSE] \notin db'.alerts
                => ~AddPrice(new.server, db.items[w.item], new.price, new.at)
  BY <1>1, <1>2
<1> QED BY <1>2, BookInvariance, PTL DEF LedgerSpec, ListedWatchesFire

(* What a report counts depends on the newest prices and on the lines.       *)
LEMMA NetFollows ==
  ASSUME NEW d, NEW e, NEW id, NEW s,
         \A i \in ItemIds : Latest(d, s, i) = Latest(e, s, i),
         \A k \in {"drop", "cost"} : LinesWith(d, id, k) = LinesWith(e, id, k)
  PROVE  Net(d, id, s) = Net(e, id, s)
<1> DEFINE at(S) == IF S = {} THEN 0 ELSE CHOOSE p \in S : TRUE
<1>1. Worth(d, s) = Worth(e, s)
  <2>1. /\ Worth(d, s) = [i \in ItemIds |-> at(Latest(d, s, i))]
        /\ Worth(e, s) = [i \in ItemIds |-> at(Latest(e, s, i))]
    BY DEF Worth
  <2> HIDE DEF at
  <2> QED BY <2>1
<1> QED BY <1>1 DEF Net

(* A new price of another item, of another server or older than one there is *)
(* is not the newest.                                                        *)
LEMMA LatestKept ==
  ASSUME NEW d \in Tables, NEW e, NEW new, NEW t, NEW i,
         e.prices = d.prices \cup {new}, new.at \in Nat,
         new.server = t /\ new.item = i =>
            \E q \in d.prices : q.server = t /\ q.item = i /\ q.at > new.at
  PROVE  Latest(e, t, i) = Latest(d, t, i)
<1> DEFINE on(f) == {p \in f.prices : p.server = t /\ p.item = i}
           best(f) == {q \in on(f) : \A r \in on(f) : r.at < q.at \/ (r.at = q.at /\ r.id <= q.id)}
<1>1. \A p \in d.prices : p.at \in Nat /\ p.id \in Nat
  <2>1. d.prices \subseteq PriceRows /\ Times \subseteq Nat
    BY TablesType, LedgerAssumption
  <2>2. \A p \in d.prices : p.at \in Times /\ p.id \in 1 .. MaxRecords
    BY <2>1 DEF PriceRows, Stamps
  <2>3. 1 .. MaxRecords \subseteq Nat
    OBVIOUS
  <2> QED BY <2>1, <2>2, <2>3
<1>2. CASE ~(new.server = t /\ new.item = i)
  <2>1. on(e) = on(d)
    BY <1>2
  <2> QED BY <2>1 DEF Latest
<1>3. CASE new.server = t /\ new.item = i
  <2>1. on(e) = on(d) \cup {new} /\ \A p \in on(d) : p.at \in Nat /\ p.id \in Nat
    BY <1>1, <1>3
  <2>2. PICK q \in on(d) : q.at > new.at
    BY <1>3
  <2> HIDE DEF on
  <2>3. ASSUME NEW x \in best(e) PROVE x \in best(d)
    <3>1. x # new
      <4> SUFFICES ASSUME x = new PROVE FALSE
        OBVIOUS
      <4>1. q.at < new.at \/ q.at = new.at
        BY <2>1, <2>2
      <4> QED BY <2>1, <2>2, <4>1
    <3> QED BY <2>1, <3>1
  <2>4. ASSUME NEW x \in best(d) PROVE x \in best(e)
    <3>1. x \in on(d) /\ (q.at < x.at \/ q.at = x.at)
      BY <2>2
    <3>2. new.at < x.at
      BY <2>1, <2>2, <3>1
    <3> QED BY <2>1, <3>1, <3>2
  <2>5. best(e) = best(d)
    BY <2>3, <2>4
  <2> QED BY <2>5 DEF Latest, on
<1> QED BY <1>2, <1>3

(* A price moves the values on its own server only, and not those of an item *)
(* with a later price (getLatestPricesByItemId orders by recorded_at first). *)
THEOREM ValueFollowsPricesHolds == LedgerSpec => ValueFollowsPrices
<1>1. ASSUME BookInv, [LedgerNext]_ledgerVars, LedgerTypeOK',
             NEW new \in db'.prices \ db.prices, NEW r \in db.runs, NEW t \in Servers,
             t # new.server \/ \E q \in db.prices :
                                  q.server = t /\ q.item = new.item /\ q.at > new.at,
             NEW n \in Names, AddPrice(new.server, n, new.price, new.at)
      PROVE  Net(db', r.id, t) = Net(db, r.id, t)
  <2>1. db \in Tables /\ db' \in Tables
    BY <1>1 DEF BookInv, LedgerTypeOK
  <2>2. new \in PriceRows /\ new.at \in Nat
    <3>1. new \in PriceRows /\ Times \subseteq Nat
      BY <1>1, <2>1, TablesType, LedgerAssumption
    <3>2. new.at \in Times
      BY <3>1 DEF PriceRows
    <3> QED BY <3>1, <3>2
  <2>3. PICK q : db'.prices = db.prices \cup {q} /\ db'.lines = db.lines
    BY <1>1, AddPriceShape
  <2>4. q = new
    BY <1>1, <2>3
  <2>5. \A i \in ItemIds : Latest(db', t, i) = Latest(db, t, i)
    BY <1>1, <2>1, <2>2, <2>3, <2>4, LatestKept
  <2>6. \A k \in {"drop", "cost"} : LinesWith(db', r.id, k) = LinesWith(db, r.id, k)
    BY <2>3 DEF LinesWith
  <2> QED BY <2>5, <2>6, NetFollows
<1>2. ASSUME BookInv, [LedgerNext]_ledgerVars
      PROVE  \A new \in db'.prices \ db.prices, r \in db.runs, t \in Servers :
                /\ Net(db', r.id, t) # Net(db, r.id, t)
                /\ t # new.server \/ \E q \in db.prices :
                                        q.server = t /\ q.item = new.item /\ q.at > new.at
                => \A n \in Names : ~AddPrice(new.server, n, new.price, new.at)
  <2>1. LedgerTypeOK'
    BY <1>2, BookInvariance DEF BookInv
  <2> QED BY <1>1, <1>2, <2>1
<1> QED BY <1>2, BookInvariance, PTL DEF LedgerSpec, ValueFollowsPrices

(* A line there was of a run in the file has a position the run was recorded *)
(* with, so that the file has a line in its place.                           *)
THEOREM ImportRestoresHolds == LedgerSpec => ImportRestores
<1>1. ASSUME BookInv, LinesInv, ImportBackup
      PROVE  /\ Own(backup).runs \subseteq db'.runs
             /\ Own(backup).lines \subseteq db'.lines
             /\ \A r \in Own(backup).runs, s \in Servers :
                   Net(db', r.id, s) = Net(Own(backup), r.id, s)
  <2> DEFINE own == Own(backup)
             rest == {l \in db.lines : \A k \in own.lines : k.run # l.run \/ k.pos # l.pos}
  <2>1. LedgerTypeOK /\ db \in Tables
    BY <1>1 DEF BookInv, LedgerTypeOK
  <2>2. /\ backup \in Tables /\ backup # None
        /\ db'.prices = own.prices
        /\ db'.runs = own.runs \cup db.runs
        /\ db'.lines = own.lines \cup rest
    BY <1>1, <2>1, ImportShape
  <2>3. Logged(backup) /\ Within(backup, db)
    BY <1>1, <2>2 DEF LinesInv
  <2>4. /\ own.runs \subseteq backup.runs
        /\ \A k \in backup.lines : (\E r \in own.runs : r.id = k.run) =>
              \E l \in own.lines : l.run = k.run /\ l.pos = k.pos
    BY <2>2, OwnShape
  <2>5. /\ \A l \in db.lines : l.pos \in Nat /\ 1 <= l.pos
        /\ \A r \in backup.runs : r.asked \in Nat
    <3>1. db.lines \subseteq LineRows /\ MaxLines \in Nat
      BY <2>1, TablesType, LedgerAssumption
    <3>2. \A l \in db.lines : l.pos \in 1 .. MaxLines
      BY <3>1 DEF LineRows
    <3> QED BY <2>1, <2>2, <3>1, <3>2, RowNumbers
  <2>6. ASSUME NEW r \in own.runs, NEW l \in db.lines, l.run = r.id
        PROVE  \E k \in own.lines : k.run = l.run /\ k.pos = l.pos
    <3> HIDE DEF own
    <3>1. r \in backup.runs
      BY <2>4
    <3>2. l.pos <= r.asked
      BY <2>3, <2>6, <3>1 DEF Within
    <3>3. l.pos \in 1 .. r.asked
      BY <2>5, <3>1, <3>2
    <3>4. \E k \in backup.lines : k.run = r.id /\ k.pos = l.pos
      BY <2>3, <3>1, <3>3 DEF Logged
    <3> QED BY <2>4, <2>6, <3>4
  <2>7. ASSUME NEW r \in own.runs, NEW s \in Servers
        PROVE  Net(db', r.id, s) = Net(own, r.id, s)
    <3>1. \A l \in rest : l.run # r.id
      BY <2>6
    <3> HIDE DEF own, rest
    <3>2. \A k \in {"drop", "cost"} : LinesWith(db', r.id, k) = LinesWith(own, r.id, k)
      BY <2>2, <3>1 DEF LinesWith
    <3>3. \A i \in ItemIds : Latest(db', s, i) = Latest(own, s, i)
      BY <2>2 DEF Latest
    <3> QED BY <3>2, <3>3, NetFollows
  <2> HIDE DEF rest
  <2> QED BY <2>2, <2>7
<1> QED BY <1>1, LinesInvariance, PTL DEF LedgerSpec, ImportRestores
=============================================================================
