-------------------------------- MODULE Ledger --------------------------------
(***************************************************************************)
(* The loot logbook and the price book of the desktop database, and what a *)
(* backup does to them.                                                    *)
(*                                                                         *)
(* A run of the logbook has lines: drops, and costs in kinah or items.  An *)
(* item is looked up by its name whenever a line, a price or a watch names *)
(* it, and added when no item has the name (upsertEconomyItemByName).  A   *)
(* price that meets an active watch on its server leaves an alert.         *)
(*                                                                         *)
(* Every handler runs its statements in one synchronous stretch and is one *)
(* action.  A statement may throw (sql.js runs out of memory): the run is  *)
(* written in a transaction that is rolled back, the price is not.         *)
(* Foreign keys are off by the time a handler runs (PlannerStore), so that *)
(* a deletion takes nothing along.                                         *)
(***************************************************************************)
EXTENDS Integers, Sequences, FiniteSets, FiniteSetsExt, Functions, Nothing

CONSTANTS
    CharIds,           \* the characters (PlannerStore creates them)
    ItemIds,           \* identifiers randomUUID() gives out
    Names, Servers,
    Prices,
    Rules,             \* what watches wait for: a comparison and a threshold
    Times,             \* recorded_at, as the user may set it
    MaxLines,          \* bound: lines of a run
    MaxRecords,        \* bound: runs, prices and watches ever recorded
    MaxRuns, MaxPrices, MaxWatches   \* bounds: how many of each at a time

ASSUME LedgerAssumption ==
    /\ Prices \subseteq Nat /\ Times \subseteq Nat
    /\ {MaxLines, MaxRecords, MaxRuns, MaxPrices, MaxWatches} \subseteq Nat
    /\ Rules \subseteq [op : {"<", "<=", ">", ">="}, limit : Nat]
    /\ None \notin ItemIds \cup Names

VARIABLES
    db,        \* the tables, a record of the type Tables
    backup,    \* the tables a backup file holds, None before the export
    known,     \* identifiers of items handed out so far
    stamp      \* runs, prices and watches recorded so far: their identifiers

ledgerVars == <<db, backup, known, stamp>>

Stamps == 1..MaxRecords
\* What the caller passes for a line; a cost without a name is in kinah.
LineInputs == [kind : {"drop"}, name : Names] \cup [kind : {"cost"}, name : Names \cup {None}]

\* The asked of a run is no column: how many lines its caller passed.
RunRows == [id : Stamps, char : CharIds, asked : 0..MaxLines]
LineRows == [run : Stamps, pos : 1..MaxLines, kind : {"drop", "cost"}, item : ItemIds \cup {None}]
PriceRows == [id : Stamps, server : Servers, item : ItemIds, price : Prices, at : Times]
WatchRows == [id : Stamps, server : Servers, item : ItemIds, rule : Rules, active : BOOLEAN]
AlertRows == [price : Stamps, watch : Stamps, read : BOOLEAN]

Tables ==
    [chars : SUBSET CharIds, items : [ItemIds -> Names \cup {None}],
     runs : SUBSET RunRows, lines : SUBSET LineRows,
     prices : SUBSET PriceRows, watches : SUBSET WatchRows, alerts : SUBSET AlertRows]

LedgerTypeOK ==
    /\ db \in Tables
    /\ backup \in Tables \cup {None}
    /\ known \in SUBSET ItemIds
    /\ stamp \in 0..MaxRecords

ItemsOf(d) == {i \in ItemIds : d.items[i] # None}

LedgerInit ==
    /\ db = [chars |-> CharIds, items |-> [i \in ItemIds |-> None], runs |-> {}, lines |-> {},
             prices |-> {}, watches |-> {}, alerts |-> {}]
    /\ backup = None
    /\ known = {}
    /\ stamp = 0

-----------------------------------------------------------------------------
(***************************************************************************)
(* Characters, as far as the logbook depends on them, and items.           *)
(***************************************************************************)
DeleteCharacter(c) ==
    /\ db' = [db EXCEPT !.chars = @ \ {c}]
    /\ UNCHANGED <<backup, known, stamp>>

\* The item table once every one of the names is looked up: one new item for
\* each name that no item has.
Upserted(names) ==
    LET missing == names \ {db.items[i] : i \in ItemsOf(db)}
    IN  {[i \in ItemIds |-> IF \E n \in missing : new[n] = i
                            THEN CHOOSE n \in missing : new[n] = i ELSE db.items[i]] :
            new \in Injection(missing, ItemIds \ known)}

ItemNamed(items, n) == CHOOSE i \in ItemIds : items[i] = n

\* UNIQUE(name) refuses a name another item has; an item that is gone stays
\* gone.
UpdateItem(i, n) ==
    /\ i \in ItemsOf(db)
    /\ \A j \in ItemsOf(db) \ {i} : db.items[j] # n
    /\ db' = [db EXCEPT !.items[i] = n]
    /\ UNCHANGED <<backup, known, stamp>>

DeleteItem(i) ==
    /\ i \in known
    /\ db' = [db EXCEPT !.items[i] = None]
    /\ UNCHANGED <<backup, known, stamp>>

-----------------------------------------------------------------------------
(***************************************************************************)
(* Runs.                                                                   *)
(***************************************************************************)
LinesOf(id, items, input) ==
    {[run |-> id, pos |-> k, kind |-> input[k].kind,
      item |-> IF input[k].name = None THEN None ELSE ItemNamed(items, input[k].name)] :
        k \in DOMAIN input}

CreateRun(c, input) ==
    LET id == stamp + 1
    IN  /\ c \in db.chars
        /\ stamp < MaxRecords /\ Cardinality(db.runs) < MaxRuns
        /\ \E items \in Upserted({input[k].name : k \in DOMAIN input} \ {None}) :
              /\ db' = [db EXCEPT !.items = items,
                                  !.runs = @ \cup {[id |-> id, char |-> c, asked |-> Len(input)]},
                                  !.lines = @ \cup LinesOf(id, items, input)]
              /\ known' = known \cup {i \in ItemIds : items[i] # None}
        /\ stamp' = id
        /\ UNCHANGED backup

\* Variant: no transaction around the run; the last line is missing.
CreateRunFailsHalfway(c, input) ==
    LET id == stamp + 1
        done == SubSeq(input, 1, Len(input) - 1)
    IN  /\ c \in db.chars
        /\ stamp < MaxRecords /\ Cardinality(db.runs) < MaxRuns
        /\ input # << >>
        /\ \E items \in Upserted({done[k].name : k \in DOMAIN done} \ {None}) :
              /\ db' = [db EXCEPT !.items = items,
                                  !.runs = @ \cup {[id |-> id, char |-> c, asked |-> Len(input)]},
                                  !.lines = @ \cup LinesOf(id, items, done)]
              /\ known' = known \cup {i \in ItemIds : items[i] # None}
        /\ stamp' = id
        /\ UNCHANGED backup

\* A statement throws and the transaction is rolled back: run, lines and the
\* items added for them.
CreateRunFails(c, input) ==
    /\ c \in db.chars
    /\ stamp < MaxRecords /\ Cardinality(db.runs) < MaxRuns
    /\ input # << >>
    /\ UNCHANGED ledgerVars

\* The lines stay, as rows of no run.
DeleteRun(id, c) ==
    /\ \E r \in db.runs : r.id = id /\ r.char = c
    /\ db' = [db EXCEPT !.runs = {r \in @ : ~(r.id = id /\ r.char = c)}]
    /\ UNCHANGED <<backup, known, stamp>>

-----------------------------------------------------------------------------
(***************************************************************************)
(* Prices, watches and alerts.                                             *)
(***************************************************************************)

\* compare()
Meets(p, rule) ==
    \/ rule.op = "<" /\ p < rule.limit
    \/ rule.op = "<=" /\ p <= rule.limit
    \/ rule.op = ">" /\ p > rule.limit
    \/ rule.op = ">=" /\ p >= rule.limit

\* Variant: a watch with an unread alert stays silent.
TriggeredOnce(d, s, i, p) ==
    {w \in d.watches : /\ w.server = s /\ w.item = i /\ w.active /\ Meets(p, w.rule)
                       /\ [watch |-> w.id, read |-> FALSE] \notin
                              {[watch |-> a.watch, read |-> a.read] : a \in d.alerts}}

\* The watches triggerWatchesForPrice selects.
Triggered(d, s, i, p) ==
    {w \in d.watches : w.server = s /\ w.item = i /\ w.active /\ Meets(p, w.rule)}

Priced(items, s, n, p, at) ==
    [id |-> stamp + 1, server |-> s, item |-> ItemNamed(items, n), price |-> p, at |-> at]

AddPrice(s, n, p, at) ==
    /\ stamp < MaxRecords /\ Cardinality(db.prices) < MaxPrices
    /\ \E items \in Upserted({n}) :
          /\ db' = [db EXCEPT !.items = items,
                              !.prices = @ \cup {Priced(items, s, n, p, at)},
                              !.alerts = @ \cup
                                  {[price |-> stamp + 1, watch |-> w.id, read |-> FALSE] :
                                      w \in Triggered(db, s, ItemNamed(items, n), p)}]
          /\ known' = known \cup {i \in ItemIds : items[i] # None}
    /\ stamp' = stamp + 1
    /\ UNCHANGED backup

\* The statement for an alert throws: the price stays without its alerts.
AddPriceFails(s, n, p, at) ==
    /\ stamp < MaxRecords /\ Cardinality(db.prices) < MaxPrices
    /\ \E items \in Upserted({n}) :
          /\ db' = [db EXCEPT !.items = items, !.prices = @ \cup {Priced(items, s, n, p, at)}]
          /\ known' = known \cup {i \in ItemIds : items[i] # None}
    /\ stamp' = stamp + 1
    /\ UNCHANGED backup

\* The statement for a price or a watch throws after the item was added.
OnlyItemAdded(n) ==
    /\ \E items \in Upserted({n}) :
          /\ db' = [db EXCEPT !.items = items]
          /\ known' = known \cup {i \in ItemIds : items[i] # None}
    /\ UNCHANGED <<backup, stamp>>

CreateWatch(s, n, rule) ==
    /\ stamp < MaxRecords /\ Cardinality(db.watches) < MaxWatches
    /\ \E items \in Upserted({n}) :
          /\ db' = [db EXCEPT !.items = items,
                              !.watches = @ \cup {[id |-> stamp + 1, server |-> s,
                                                   item |-> ItemNamed(items, n),
                                                   rule |-> rule, active |-> TRUE]}]
          /\ known' = known \cup {i \in ItemIds : items[i] # None}
    /\ stamp' = stamp + 1
    /\ UNCHANGED backup

SetWatchActive(w, active) ==
    /\ w \in db.watches
    /\ db' = [db EXCEPT !.watches = (@ \ {w}) \cup {[w EXCEPT !.active = active]}]
    /\ UNCHANGED <<backup, known, stamp>>

DeleteWatch(w) ==
    /\ w \in db.watches
    /\ db' = [db EXCEPT !.watches = @ \ {w}]
    /\ UNCHANGED <<backup, known, stamp>>

MarkRead(a) ==
    /\ a \in db.alerts
    /\ db' = [db EXCEPT !.alerts = (@ \ {a}) \cup {[a EXCEPT !.read = TRUE]}]
    /\ UNCHANGED <<backup, known, stamp>>

\* What listEconomyWatches shows: the join leaves out a watch whose item is gone.
Listed(d) == {w \in d.watches : d.items[w.item] # None}

-----------------------------------------------------------------------------
(***************************************************************************)
(* The value of a run in the weekly report, at the prices of one server.   *)
(***************************************************************************)

\* Variant: ORDER BY created_at DESC.
LatestEntered(d, s, i) ==
    LET known_ == {p \in d.prices : p.server = s /\ p.item = i}
    IN  {p.price : p \in {q \in known_ : \A r \in known_ : r.id <= q.id}}

\* getLatestPricesByItemId: the newest by recorded_at, then by created_at; the
\* empty set when the item has no price there.
Latest(d, s, i) ==
    LET on == {p \in d.prices : p.server = s /\ p.item = i}
    IN  {p.price : p \in {q \in on : \A r \in on : r.at < q.at \/ (r.at = q.at /\ r.id <= q.id)}}

\* The prices of all items on a server; an item without one counts nothing and
\* is listed as missing.
Worth(d, s) ==
    [i \in ItemIds |-> IF Latest(d, s, i) = {} THEN 0 ELSE CHOOSE p \in Latest(d, s, i) : TRUE]

\* What lines come to at these prices.
SumOf(worth, lines) == MapThenSumSet(LAMBDA l : worth[l.item], lines)

LinesWith(d, id, kind) == {l \in d.lines : l.run = id /\ l.kind = kind /\ l.item # None}

\* Drops at their prices less the item costs at theirs.
Net(d, id, s) ==
    SumOf(Worth(d, s), LinesWith(d, id, "drop")) - SumOf(Worth(d, s), LinesWith(d, id, "cost"))

-----------------------------------------------------------------------------
(***************************************************************************)
(* Backup.                                                                 *)
(***************************************************************************)

\* Alerts are not exported.
ExportBackup ==
    /\ backup = None /\ stamp < MaxRecords
    /\ backup' = [db EXCEPT !.alerts = {}]
    /\ UNCHANGED <<db, known, stamp>>

\* The rows of a backup the import keeps: what belongs to its characters and
\* items; a line whose item is not in the backup loses the link.
Own(b) ==
    LET runs == {r \in b.runs : r.char \in b.chars}
    IN  [b EXCEPT
            !.runs = runs,
            !.lines = {[l EXCEPT !.item = IF @ \in ItemsOf(b) THEN @ ELSE None] :
                          l \in {k \in @ : \E r \in runs : r.id = k.run}},
            !.prices = {p \in @ : p.item \in ItemsOf(b)},
            !.watches = {w \in @ : w.item \in ItemsOf(b)}]

\* Variant: DELETE FROM economy_alert_event is missing.
ImportKeepsAlerts ==
    /\ backup # None /\ UNCHANGED <<backup, known, stamp>>
    /\ LET own == Own(backup)
       IN  db' = [own EXCEPT
                    !.runs = @ \cup db.runs,
                    !.lines = @ \cup {l \in db.lines : \A k \in own.lines :
                                          k.run # l.run \/ k.pos # l.pos},
                    !.alerts = db.alerts]

\* Variant: INSERT OR IGNORE for the lines of a run.
ImportIgnoresLines ==
    /\ backup # None /\ UNCHANGED <<backup, known, stamp>>
    /\ LET own == Own(backup)
       IN  db' = [own EXCEPT
                    !.runs = @ \cup db.runs,
                    !.lines = db.lines \cup {l \in @ : \A k \in db.lines :
                                                k.run # l.run \/ k.pos # l.pos}]

\* importUserBackup: characters, items, prices, watches and alerts are
\* replaced; runs and lines are inserted over those there are (OR REPLACE).
ImportBackup ==
    /\ backup # None /\ UNCHANGED <<backup, known, stamp>>
    /\ LET own == Own(backup)
       IN  db' = [own EXCEPT
                    !.runs = @ \cup db.runs,
                    !.lines = @ \cup {l \in db.lines : \A k \in own.lines :
                                          k.run # l.run \/ k.pos # l.pos}]

-----------------------------------------------------------------------------
LedgerNext ==
    \/ \E c \in CharIds : DeleteCharacter(c)
    \/ \E i \in ItemIds : DeleteItem(i) \/ \E n \in Names : UpdateItem(i, n)
    \/ \E c \in CharIds, input \in UNION {[1..k -> LineInputs] : k \in 0..MaxLines} :
          CreateRun(c, input) \/ CreateRunFails(c, input)
    \/ \E id \in Stamps, c \in CharIds : DeleteRun(id, c)
    \/ \E s \in Servers, n \in Names, p \in Prices, at \in Times :
          AddPrice(s, n, p, at) \/ AddPriceFails(s, n, p, at)
    \/ \E n \in Names : OnlyItemAdded(n)
    \/ \E s \in Servers, n \in Names, rule \in Rules : CreateWatch(s, n, rule)
    \/ \E w \in db.watches : DeleteWatch(w) \/ \E b \in BOOLEAN : SetWatchActive(w, b)
    \/ \E a \in db.alerts : MarkRead(a)
    \/ ExportBackup
    \/ ImportBackup

LedgerSpec == LedgerInit /\ [][LedgerNext]_ledgerVars

-----------------------------------------------------------------------------
(***************************************************************************)
(* Properties.                                                             *)
(***************************************************************************)

\* A run in the logbook has every line it was recorded with, whatever was
\* rolled back, deleted or imported around it (createLootRun, importUserBackup).
RunsWhole ==
    \A r \in db.runs : Cardinality({l \in db.lines : l.run = r.id}) = r.asked

\* An alert is about a price that is in the book: an import, which replaces
\* the prices, leaves no alert of an earlier one.
NoAlertWithoutPrice == \A a \in db.alerts : \E p \in db.prices : p.id = a.price

\* A price entered under a name alerts every watch the page lists under that
\* name as active on that server, however the item was renamed, deleted or
\* added again since the watch was made.
ListedWatchesFire ==
    [][\A new \in db'.prices \ db.prices, w \in Listed(db) :
          /\ w.active /\ w.server = new.server /\ Meets(new.price, w.rule)
          /\ [price |-> new.id, watch |-> w.id, read |-> FALSE] \notin db'.alerts
          => ~AddPrice(new.server, db.items[w.item], new.price, new.at)]_ledgerVars

\* Entering a price moves the value of a run only at the prices of its own
\* server, and not when a later price of the item is on record there.
ValueFollowsPrices ==
    [][\A new \in db'.prices \ db.prices, r \in db.runs, t \in Servers :
          /\ Net(db', r.id, t) # Net(db, r.id, t)
          /\ t # new.server \/ \E q \in db.prices :
                                  q.server = t /\ q.item = new.item /\ q.at > new.at
          => \A n \in Names : ~AddPrice(new.server, n, new.price, new.at)]_ledgerVars

\* Whatever was recorded or deleted since the export, after the import all the
\* file holds is there: its runs with their lines and its own item links.
ImportRestores ==
    [][ImportBackup =>
          /\ Own(backup).runs \subseteq db'.runs
          /\ Own(backup).lines \subseteq db'.lines
          /\ \A r \in Own(backup).runs, s \in Servers :
                Net(db', r.id, s) = Net(Own(backup), r.id, s)]_ledgerVars
=============================================================================
