----------------------------- MODULE NoticeFeed -----------------------------
(***************************************************************************)
(* The page that lists the notices, in its two versions: on the web         *)
(* (modules/notices/pages/feed.tsx over the route GET /notices of the API)  *)
(* and in the desktop application (FeedPage.tsx over the handler            *)
(* notices:list).  Each change of the filter or the page asks for a new     *)
(* list.  On the web requests overtake each other, and the effect's         *)
(* clean-up aborts the one before; the desktop's page lets all of them end, *)
(* and its handler answers them in order.                                   *)
(*                                                                         *)
(* A filter (source and text searched) is the set of the notices, with      *)
(* their titles, that it matches; a list is its request and the total.      *)
(* Syncs add notices, and give those that are stored new titles.            *)
(***************************************************************************)
EXTENDS Integers, FiniteSetsExt, SequencesExt, Nothing

CONSTANTS
  Items,         \* notices
  Titles,
  Filters,       \* source and text searched
  Matches,       \* by filter, the notices it matches under a title
  AllItems,      \* the filter of a new page
  PageSize,      \* 20 in the code
  MaxClicks,     \* bound: clicks of the user
  MaxFailures    \* bound: requests that fail

ASSUME FeedAssumption ==
  /\ IsFiniteSet(Items) /\ None \notin Titles
  /\ Matches \in [Filters -> SUBSET (Items \X Titles)] /\ AllItems \in Filters
  /\ PageSize \in Nat \ {0}

VARIABLES
  kind,       \* which of the two pages this is
  stored,     \* the database: by notice its title, None when it is not there
  filter, page, data, loading,     \* the page's state
  flight,     \* its requests: [asked, answer], oldest first
  clicks, failures

pageState == <<filter, page, data, loading>>
feedVars == <<kind, stored, pageState, flight, clicks, failures>>

Total(f) == Cardinality({i \in Items : <<i, stored[i]>> \in Matches[f]})

Request(f, p) == [filter |-> f, page |-> p]
Current == Request(filter, page)

NotYet == [total |-> -1]
Failed == [total |-> -2]

(* totalPages of a list, 1 without one.                                      *)
Pages(d) == IF d = None THEN 1 ELSE Max({1, (d.total + PageSize - 1) \div PageSize})

FeedInit ==
  /\ kind \in {"web", "desktop"}
  /\ stored \in [Items -> Titles \cup {None}]
  /\ filter = AllItems
  /\ page = 1
  /\ data = None
  /\ loading = TRUE
  /\ flight = <<[asked |-> Current, answer |-> NotYet]>>
  /\ clicks = 0
  /\ failures = 0

(* A sync stores a notice, or its new title.                                 *)
Sync(i, title) ==
  /\ stored' = [stored EXCEPT ![i] = title]
  /\ UNCHANGED <<kind, pageState, flight, clicks, failures>>

(* Variant: nothing is aborted.                                              *)
AskNoAbort(f, p) ==
  /\ Request(f, p) # Current
  /\ clicks < MaxClicks
  /\ clicks' = clicks + 1
  /\ filter' = f
  /\ page' = p
  /\ loading' = TRUE
  /\ flight' = Append(flight, [asked |-> Request(f, p), answer |-> NotYet])
  /\ UNCHANGED <<kind, stored, data, failures>>

(* A click that makes the request another one: the effect runs again, on the *)
(* web after the clean-up of the one before.                                 *)
Ask(f, p) ==
  /\ Request(f, p) # Current
  /\ clicks < MaxClicks
  /\ clicks' = clicks + 1
  /\ filter' = f
  /\ page' = p
  /\ loading' = TRUE
  /\ flight' = Append(IF kind = "web" THEN <<>> ELSE flight,
                      [asked |-> Request(f, p), answer |-> NotYet])
  /\ UNCHANGED <<kind, stored, data, failures>>

(* Variant: the page is kept.                                                *)
ChooseFilterOnly(f) == Ask(f, page)

(* The select and the Search button: back to the first page.                 *)
ChooseFilter(f) == Ask(f, 1)

(* The Prev button.                                                          *)
PrevPage ==
  /\ ~loading /\ page > 1
  /\ Ask(filter, page - 1)

(* The Next button, enabled by the list shown.                               *)
NextPage ==
  /\ ~loading /\ page < Pages(data)
  /\ Ask(filter, page + 1)

(* The main process takes the requests in the order they were sent; to the   *)
(* server they come in any.                                                  *)
InOrder(i) == kind = "web" \/ \A j \in 1 .. i - 1 : flight[j].answer # NotYet

(* GET /notices, notices:list: count and list of the database as it is.      *)
Handled(i) ==
  /\ flight[i].answer = NotYet
  /\ InOrder(i)
  /\ flight' = [flight EXCEPT ![i].answer = [total |-> Total(flight[i].asked.filter)]]
  /\ UNCHANGED <<kind, stored, pageState, clicks, failures>>

(* ... or an error.                                                          *)
NotHandled(i) ==
  /\ flight[i].answer = NotYet
  /\ InOrder(i)
  /\ failures < MaxFailures
  /\ failures' = failures + 1
  /\ flight' = [flight EXCEPT ![i].answer = Failed]
  /\ UNCHANGED <<kind, stored, pageState, clicks>>

(* An answer arrives.  Whichever it is, it ends the loading: on the web none *)
(* but the last is left, on the desktop a later one may be under way.        *)
Arrives(i) ==
  /\ flight[i].answer # NotYet
  /\ kind = "desktop" => i = 1
  /\ data' = IF flight[i].answer = Failed THEN None
             ELSE [asked |-> flight[i].asked, total |-> flight[i].answer.total]
  /\ loading' = FALSE
  /\ flight' = RemoveAt(flight, i)
  /\ UNCHANGED <<kind, stored, filter, page, clicks, failures>>

FeedNext ==
  \/ \E i \in Items, title \in Titles : Sync(i, title)
  \/ \E f \in Filters : ChooseFilter(f)
  \/ PrevPage
  \/ NextPage
  \/ \E i \in DOMAIN flight : Handled(i) \/ NotHandled(i) \/ Arrives(i)

FeedSpec == FeedInit /\ [][FeedNext]_feedVars
-----------------------------------------------------------------------------
Requests == [filter : Filters, page : 1 .. Cardinality(Items) + 1]

FeedTypeOK ==
  /\ kind \in {"web", "desktop"}
  /\ stored \in [Items -> Titles \cup {None}]
  /\ Current \in Requests
  /\ data \in [asked : Requests, total : 0 .. Cardinality(Items)] \cup {None}
  /\ loading \in BOOLEAN
  /\ flight \in Seq([asked : Requests, answer : [total : -2 .. Cardinality(Items)]])
  /\ clicks \in 0 .. MaxClicks
  /\ failures \in 0 .. MaxFailures

(* When no request is under way the list shown, if any, is that of the       *)
(* filter and the page chosen, however the answers overtook each other       *)
(* (feed.tsx, abort; FeedPage.tsx, every answer is shown).                   *)
ShowsTheChosen ==
  flight = <<>> /\ data # None => data.asked = Current

(* A filter that searches no text matches a notice under every title.        *)
SearchesNoText(f) ==
  \A i \in Items : \A t, u \in Titles : <<i, t>> \in Matches[f] <=> <<i, u>> \in Matches[f]

(* The web's page never comes to rest on a page beyond the last of the list  *)
(* of a source: filters change and notices come in while the buttons go by   *)
(* the list shown (feed.tsx, setPage and disabled).  The list of a text      *)
(* search may get shorter between two answers when a sync changes a title,   *)
(* and the page chosen by the older one may be gone.                         *)
PageExists ==
  kind = "web" /\ flight = <<>> /\ SearchesNoText(filter) => page <= Pages(data) \/ data = None
=============================================================================
