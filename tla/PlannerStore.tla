----------------------------- MODULE PlannerStore -----------------------------
(***************************************************************************)
(* The planner tables of the desktop database and the IPC handlers that    *)
(* change them: characters, templates, the assignment of every template to *)
(* every character, the completions, charge uses and durations recorded    *)
(* for them, the active character, and the JSON backup.                    *)
(*                                                                         *)
(* The schema declares every child table with foreign keys (ON DELETE      *)
(* CASCADE, or SET NULL for the template of a duration), and init() sets   *)
(* PRAGMA foreign_keys = ON.  sql.js closes and reopens the database when  *)
(* it exports it, which sets the pragmas back to their defaults (OFF), and *)
(* openDesktopDb exports once before it hands the database out.            *)
(* PragmaSurvivesExport = FALSE is that behaviour; TRUE is the database    *)
(* the schema describes.                                                   *)
(*                                                                         *)
(* A handler runs to its first await without interruption, so that each    *)
(* one is an action.  The identifiers a renderer passes may be stale: any  *)
(* identifier handed out so far, of a row that may be gone.                *)
(***************************************************************************)
EXTENDS Naturals, FiniteSets

CONSTANTS
    CharIds, TmplIds,      \* identifiers randomUUID() gives out
    Keys,                  \* type and lower-cased title of a template
    Periods,               \* daily and weekly period keys
    MaxRecords,            \* bound: completions, charge uses and durations ever recorded
    MaxExports,            \* bound: backups ever exported
    None,                  \* NULL, and no row
    PragmaSurvivesExport   \* does foreign_keys = ON outlive db.export()?

ASSUME IdsAssumption ==
    /\ CharIds \cap TmplIds = {}
    /\ None \notin CharIds \cup TmplIds \cup Keys
    /\ MaxRecords \in Nat
    /\ MaxExports \in Nat
    /\ PragmaSurvivesExport \in BOOLEAN

VARIABLES
    db,         \* the tables, a record of the type Tables
    backup,     \* the tables a backup file holds, None before the export
    known,      \* identifiers of characters and templates handed out so far
    stamp,      \* records made so far
    exports     \* backups exported so far

vars == <<db, backup, known, stamp, exports>>

\* Records are numbered in the order they are made: the number stands for the
\* identifier of a charge use or duration, and for used_at.
Stamps == 1..MaxRecords

Tables ==
    [chars     : SUBSET CharIds,
     active    : CharIds \cup {None},
     tmpls     : [TmplIds -> Keys \cup {None}],
     assigned  : SUBSET (CharIds \X TmplIds),
     done      : SUBSET (CharIds \X TmplIds \X Periods),
     uses      : SUBSET (Stamps \X CharIds \X TmplIds),
     durations : SUBSET (Stamps \X CharIds \X (TmplIds \cup {None}))]

Live(d) == {t \in TmplIds : d.tmpls[t] # None}
LiveKeys(d) == {d.tmpls[t] : t \in Live(d)}

TypeOK ==
    /\ db \in Tables
    /\ backup \in Tables \cup {None}
    /\ known \in SUBSET (CharIds \cup TmplIds)
    /\ stamp \in 0..MaxRecords
    /\ exports \in 0..MaxExports

Empty ==
    [chars |-> {}, active |-> None, tmpls |-> [t \in TmplIds |-> None],
     assigned |-> {}, done |-> {}, uses |-> {}, durations |-> {}]

Init ==
    /\ db = Empty
    /\ backup = None
    /\ known = {}
    /\ stamp = 0
    /\ exports = 0

-----------------------------------------------------------------------------
(***************************************************************************)
(* Foreign keys.                                                           *)
(***************************************************************************)

\* May a row that references c and t be inserted?
Admits(d, c, t) == PragmaSurvivesExport => c \in d.chars /\ t \in Live(d)

\* What the deletion of characters and templates makes of the child tables.
Cascade(d) ==
    IF ~PragmaSurvivesExport THEN d
    ELSE [d EXCEPT
            !.assigned  = {r \in @ : r[1] \in d.chars /\ r[2] \in Live(d)},
            !.done      = {r \in @ : r[1] \in d.chars /\ r[2] \in Live(d)},
            !.uses      = {r \in @ : r[2] \in d.chars /\ r[3] \in Live(d)},
            !.durations = {<<r[1], r[2], IF r[3] \in Live(d) THEN r[3] ELSE None>> :
                              r \in {q \in @ : q[2] \in d.chars}}]

-----------------------------------------------------------------------------
(***************************************************************************)
(* Characters and the active character.                                    *)
(***************************************************************************)

\* Variant: a new character is not assigned the templates there are.
CreateCharacterBare(c) ==
    /\ c \notin known
    /\ known' = known \cup {c}
    /\ db' = [db EXCEPT !.chars = @ \cup {c}, !.active = IF @ = None THEN c ELSE @]
    /\ UNCHANGED <<backup, stamp, exports>>

\* A new character is assigned every template and becomes the active one
\* when there is none.
CreateCharacter(c) ==
    /\ c \notin known
    /\ known' = known \cup {c}
    /\ db' = [db EXCEPT !.chars = @ \cup {c},
                        !.assigned = @ \cup ({c} \X Live(db)),
                        !.active = IF @ = None THEN c ELSE @]
    /\ UNCHANGED <<backup, stamp, exports>>

DeleteCharacter(c) ==
    /\ c \in known
    /\ db' = Cascade([db EXCEPT !.chars = @ \ {c},
                                !.active = IF @ = c THEN None ELSE @])
    /\ UNCHANGED <<backup, known, stamp, exports>>

SetActiveCharacter(c) ==
    /\ c \in known \cup {None}
    /\ db' = [db EXCEPT !.active = c]
    /\ UNCHANGED <<backup, known, stamp, exports>>

\* planner:getOverview.  It changes the database only when the character it
\* resolved is not there.
GetOverview(c) ==
    /\ c \in known
    /\ c \notin db.chars
    /\ db' = [db EXCEPT !.active = None]
    /\ UNCHANGED <<backup, known, stamp, exports>>

-----------------------------------------------------------------------------
(***************************************************************************)
(* Templates.                                                              *)
(***************************************************************************)

\* Rows for the templates in the domain of new, each assigned to every
\* character.
WithTemplates(d, new) ==
    [d EXCEPT !.tmpls = [t \in TmplIds |-> IF t \in DOMAIN new THEN new[t] ELSE @[t]],
              !.assigned = @ \cup (d.chars \X DOMAIN new)]

CreateTemplate(t, k) ==
    /\ t \notin known
    /\ known' = known \cup {t}
    /\ db' = WithTemplates(db, [x \in {t} |-> k])
    /\ UNCHANGED <<backup, stamp, exports>>

UpdateTemplate(t, k) ==
    /\ t \in Live(db)
    /\ db' = [db EXCEPT !.tmpls[t] = k]
    /\ UNCHANGED <<backup, known, stamp, exports>>

DeleteTemplate(t) ==
    /\ t \in known
    /\ db' = Cascade([db EXCEPT !.tmpls[t] = None])
    /\ UNCHANGED <<backup, known, stamp, exports>>

\* One new template for every key of the preset that no template has; with
\* replace, all the templates are deleted first.
ApplyPreset(replace, preset) ==
    LET d == IF replace
             THEN Cascade([db EXCEPT !.tmpls = [t \in TmplIds |-> None]])
             ELSE db
        missing == preset \ LiveKeys(d)
    IN  \E ids \in SUBSET (TmplIds \ known) :
        \E new \in [ids -> missing] :
            /\ \A k \in missing : \E t \in ids : new[t] = k
            /\ \A t, u \in ids : t # u => new[t] # new[u]
            /\ known' = known \cup ids
            /\ db' = WithTemplates(d, new)
            /\ UNCHANGED <<backup, stamp, exports>>

-----------------------------------------------------------------------------
(***************************************************************************)
(* Records.  The character is the one the renderer names or the active one *)
(* (resolveCharacterId); either may be gone.                               *)
(***************************************************************************)

\* Variant: the character is not looked up.
ToggleUnchecked(c, t, p, completed) ==
    /\ {c, t} \subseteq known
    /\ completed
    /\ Admits(db, c, t)
    /\ stamp < MaxRecords
    /\ stamp' = stamp + 1
    /\ db' = [db EXCEPT !.done = @ \cup {<<c, t, p>>}]
    /\ UNCHANGED <<backup, known, exports>>

Toggle(c, t, p, completed) ==
    /\ c \in db.chars
    /\ t \in known
    /\ IF completed
       THEN /\ Admits(db, c, t)
            /\ stamp < MaxRecords
            /\ stamp' = stamp + 1
            /\ db' = [db EXCEPT !.done = @ \cup {<<c, t, p>>}]
       ELSE /\ db' = [db EXCEPT !.done = @ \ {<<c, t, p>>}]
            /\ UNCHANGED stamp
    /\ UNCHANGED <<backup, known, exports>>

\* Only the overview built for the reply looks the character up.
UseCharge(c, t) ==
    /\ {c, t} \subseteq known
    /\ Admits(db, c, t)
    /\ stamp < MaxRecords
    /\ stamp' = stamp + 1
    /\ db' = [db EXCEPT !.uses = @ \cup {<<stamp + 1, c, t>>}]
    /\ UNCHANGED <<backup, known, exports>>

\* Variant: ORDER BY used_at ASC.
UndoChargeOldest(c, t) ==
    \E r \in db.uses :
        /\ r[2] = c /\ r[3] = t
        /\ \A q \in db.uses : q[2] = c /\ q[3] = t => r[1] <= q[1]
        /\ db' = [db EXCEPT !.uses = @ \ {r}]
        /\ UNCHANGED <<backup, known, stamp, exports>>

\* The latest use of this character and template is taken back.
UndoCharge(c, t) ==
    \E r \in db.uses :
        /\ r[2] = c /\ r[3] = t
        /\ \A q \in db.uses : q[2] = c /\ q[3] = t => q[1] <= r[1]
        /\ db' = [db EXCEPT !.uses = @ \ {r}]
        /\ UNCHANGED <<backup, known, stamp, exports>>

AddDuration(c, t) ==
    /\ {c, t} \subseteq known
    /\ Admits(db, c, t)
    /\ stamp < MaxRecords
    /\ stamp' = stamp + 1
    /\ db' = [db EXCEPT !.durations = @ \cup {<<stamp + 1, c, t>>}]
    /\ UNCHANGED <<backup, known, exports>>

DeleteDuration(n, c) ==
    /\ db' = [db EXCEPT !.durations = {r \in @ : ~(r[1] = n /\ r[2] = c)}]
    /\ UNCHANGED <<backup, known, stamp, exports>>

-----------------------------------------------------------------------------
(***************************************************************************)
(* Backup.                                                                 *)
(***************************************************************************)

\* The last file exported is the one that is imported.
ExportBackup ==
    /\ exports < MaxExports
    /\ exports' = exports + 1
    /\ backup' = db
    /\ UNCHANGED <<db, known, stamp>>

\* The rows of a backup whose character and template are in the backup.
Own(b) ==
    [b EXCEPT
        !.assigned  = {r \in @ : r[1] \in b.chars /\ r[2] \in Live(b)},
        !.done      = {r \in @ : r[1] \in b.chars /\ r[2] \in Live(b)},
        !.uses      = {r \in @ : r[2] \in b.chars /\ r[3] \in Live(b)},
        !.durations = {r \in @ : r[2] \in b.chars /\ r[3] \in Live(b) \cup {None}}]

\* Variant: the rows are filtered by the characters that are there before.
ImportIntoPresent ==
    /\ backup # None
    /\ LET own == Own([backup EXCEPT !.chars = @ \cap db.chars])
       IN  db' = [own EXCEPT !.chars = backup.chars]
    /\ UNCHANGED <<backup, known, stamp, exports>>

\* importUserBackup: settings, characters and templates are deleted and
\* inserted again; the child tables are only inserted into (OR IGNORE).
ImportBackup ==
    /\ backup # None
    /\ LET old == Cascade([db EXCEPT !.chars = {}, !.tmpls = [t \in TmplIds |-> None]])
           own == Own(backup)
       IN  db' = [own EXCEPT
                    !.assigned  = @ \cup old.assigned \cup (own.chars \X Live(own)),
                    !.done      = @ \cup old.done,
                    !.uses      = @ \cup old.uses,
                    !.durations = old.durations \cup
                                    {r \in @ : \A q \in old.durations : q[1] # r[1]}]
    /\ UNCHANGED <<backup, known, stamp, exports>>

-----------------------------------------------------------------------------
Next ==
    \/ \E c \in CharIds :
          CreateCharacter(c) \/ DeleteCharacter(c) \/ GetOverview(c)
    \/ \E c \in CharIds \cup {None} : SetActiveCharacter(c)
    \/ \E t \in TmplIds, k \in Keys : CreateTemplate(t, k) \/ UpdateTemplate(t, k)
    \/ \E t \in TmplIds : DeleteTemplate(t)
    \/ \E replace \in BOOLEAN, preset \in SUBSET Keys : ApplyPreset(replace, preset)
    \/ \E c \in CharIds, t \in TmplIds, p \in Periods, completed \in BOOLEAN :
          Toggle(c, t, p, completed)
    \/ \E c \in CharIds, t \in TmplIds :
          UseCharge(c, t) \/ UndoCharge(c, t) \/ AddDuration(c, t)
    \/ \E n \in Stamps, c \in CharIds : DeleteDuration(n, c)
    \/ ExportBackup
    \/ ImportBackup

Spec == Init /\ [][Next]_vars

-----------------------------------------------------------------------------
(***************************************************************************)
(* Properties.                                                             *)
(***************************************************************************)

\* Every template is assigned to every character, in whatever order
\* characters and templates were created, replaced or imported: nothing of a
\* character's overview is missing (the three "auto-assign" statements).
EveryTemplateAssigned == db.chars \X Live(db) \subseteq db.assigned

\* No completion, charge use, duration or assignment belongs to a character
\* or template that is gone (FOREIGN KEY ... ON DELETE CASCADE, schema.ts).
NoOrphans ==
    /\ \A r \in db.assigned \cup db.done : r[1] \in db.chars /\ r[2] \in Live(db)
    /\ \A r \in db.uses : r[2] \in db.chars /\ r[3] \in Live(db)
    /\ \A r \in db.durations : r[2] \in db.chars /\ r[3] \in Live(db) \cup {None}

\* Everything the backup holds of a character and template is there again
\* after an import, whatever was deleted since and whatever rows with the
\* same identifiers are still in the way of INSERT OR IGNORE.
ImportRestores ==
    [][ImportBackup =>
          LET b == Own(backup)
          IN  /\ b.chars = db'.chars /\ b.tmpls = db'.tmpls /\ b.active = db'.active
              /\ b.assigned \subseteq db'.assigned
              /\ b.done \subseteq db'.done
              /\ b.uses \subseteq db'.uses
              /\ b.durations \subseteq db'.durations]_vars

\* A completion appears only for a character that exists, also when the
\* renderer that asks for it has not noticed the deletion (toggleComplete and
\* the filter of the import).  A template that is gone is taken as it is.
NoCompletionForTheDeleted ==
    [][\A r \in db'.done \ db.done : r[1] \in db'.chars]_vars

\* Undoing a charge never takes a use older than one that stays.
UndoTakesTheLatest ==
    [][\A r \in db.uses \ db'.uses :
          \/ r[2] \notin db'.chars \/ r[3] \notin Live(db')
          \/ \A q \in db'.uses : q[2] = r[2] /\ q[3] = r[3] => q[1] < r[1]]_vars
=============================================================================
