------------------------------- MODULE MCWeb -------------------------------
(***************************************************************************)
(* Two pages that share no state, in one tab that shows one of them: the   *)
(* page of the notices (module NoticeFeed) on three notices, of which a    *)
(* search finds those whose title holds the word, and the planner's today  *)
(* page (module WebPlanner) on two characters, two tasks and a ticket of   *)
(* one stack.                                                              *)
(***************************************************************************)
EXTENDS NoticeFeed, WebPlanner, TLC

CONSTANTS n1, n2, u1, word, plain, a, b, t1, t2, ticket

MCItems == {n1, n2, u1}
MCTitles == {word, plain}
MCMatches == [f \in {"all", "NOTICE", "search"} |->
  CASE f = "all" -> MCItems \X MCTitles
    [] f = "NOTICE" -> {n1, n2} \X MCTitles
    [] OTHER -> MCItems \X {word}]

MCCharacters == {a, b}
MCTasks == {t1, t2}
MCEstimate == (t1 :> 1) @@ (t2 :> 2) @@ (ticket :> 3)
MCBudgets == {2, 3}
Same == Permutations(MCCharacters)

VARIABLE tab     \* the page that is shown

pages == <<feedVars, webVars, tab>>

(* A page that is not shown stays as it begins.                              *)
TabInit ==
  /\ tab \in {"notices", "today"}
  /\ FeedInit /\ (tab = "today" => kind = "web" /\ \A i \in Items : stored[i] = None)
  /\ WebInit

TabNext ==
  /\ UNCHANGED tab
  /\ \/ tab = "notices" /\ FeedNext /\ UNCHANGED webVars
     \/ tab = "today" /\ WebNext /\ UNCHANGED feedVars

TabSpec == TabInit /\ [][TabNext]_pages
=============================================================================
