-------------------------- MODULE PlannerStoreProofs --------------------------
(***************************************************************************)
(* Every template is assigned to every character, whatever the numbers of  *)
(* characters, templates and records, with and without foreign keys.  The  *)
(* property is inductive together with the types of the tables: a deletion *)
(* only removes rows of what is gone, and each of the three statements     *)
(* that add characters or templates adds all the pairs they are part of.   *)
(***************************************************************************)
EXTENDS PlannerStore, TLAPS

\* Every template of d is assigned to every character of d.
AllAssigned(d) == d.chars \X Live(d) \subseteq d.assigned

\* What a table record is made of (used to show that an operator returns one).
LEMMA TablesIntro ==
    ASSUME NEW C \in SUBSET CharIds, NEW A \in CharIds \cup {None},
           NEW T \in [TmplIds -> Keys \cup {None}],
           NEW S \in SUBSET (CharIds \X TmplIds),
           NEW D \in SUBSET (CharIds \X TmplIds \X Periods),
           NEW U \in SUBSET (Stamps \X CharIds \X TmplIds),
           NEW R \in SUBSET (Stamps \X CharIds \X (TmplIds \cup {None}))
    PROVE  [chars |-> C, active |-> A, tmpls |-> T, assigned |-> S,
            done |-> D, uses |-> U, durations |-> R] \in Tables
BY DEF Tables

\* The effect of the foreign keys keeps the types of the tables.
LEMMA CascadeType ==
    ASSUME NEW d \in Tables
    PROVE  Cascade(d) \in Tables
<1>1. CASE ~PragmaSurvivesExport
  BY <1>1 DEF Cascade
<1>2. CASE PragmaSurvivesExport
  <2> DEFINE S == {r \in d.assigned : r[1] \in d.chars /\ r[2] \in Live(d)}
             D == {r \in d.done : r[1] \in d.chars /\ r[2] \in Live(d)}
             U == {r \in d.uses : r[2] \in d.chars /\ r[3] \in Live(d)}
             Q == {q \in d.durations : q[2] \in d.chars}
             R == {<<r[1], r[2], IF r[3] \in Live(d) THEN r[3] ELSE None>> : r \in Q}
  <2>1. S \in SUBSET (CharIds \X TmplIds)
    BY DEF Tables
  <2>2. D \in SUBSET (CharIds \X TmplIds \X Periods)
    BY DEF Tables
  <2>3. U \in SUBSET (Stamps \X CharIds \X TmplIds)
    BY DEF Tables
  <2>4. R \in SUBSET (Stamps \X CharIds \X (TmplIds \cup {None}))
    <3>1. \A r \in Q : r \in Stamps \X CharIds \X (TmplIds \cup {None})
      BY DEF Tables
    <3>2. \A r \in Q : <<r[1], r[2], IF r[3] \in Live(d) THEN r[3] ELSE None>>
                          \in Stamps \X CharIds \X (TmplIds \cup {None})
      BY <3>1
    <3> QED BY <3>2
  <2>5. Cascade(d) = [d EXCEPT !.assigned = S, !.done = D, !.uses = U, !.durations = R]
    BY <1>2 DEF Cascade
  <2> HIDE DEF S, D, U, Q, R
  <2> QED BY <2>1, <2>2, <2>3, <2>4, <2>5 DEF Tables
<1> QED BY <1>1, <1>2

\* The foreign keys remove no assignment of a character and a template that
\* are there, and change neither characters nor templates.
LEMMA CascadeKeeps ==
    ASSUME NEW d \in Tables, AllAssigned(d)
    PROVE  /\ AllAssigned(Cascade(d))
           /\ Cascade(d).chars = d.chars
           /\ Cascade(d).active = d.active
           /\ Cascade(d).tmpls = d.tmpls
<1>1. CASE ~PragmaSurvivesExport
  BY <1>1 DEF Cascade
<1>2. CASE PragmaSurvivesExport
  <2>1. /\ Cascade(d).chars = d.chars
        /\ Cascade(d).active = d.active
        /\ Cascade(d).tmpls = d.tmpls
        /\ Cascade(d).assigned = {r \in d.assigned : r[1] \in d.chars /\ r[2] \in Live(d)}
    BY <1>2 DEF Cascade, Tables
  <2>2. Live(Cascade(d)) = Live(d)
    BY <2>1 DEF Live
  <2>3. \A r \in d.chars \X Live(d) : r \in Cascade(d).assigned
    BY <2>1 DEF AllAssigned
  <2> QED BY <2>1, <2>2, <2>3 DEF AllAssigned
<1> QED BY <1>1, <1>2

\* Adding templates assigns each of them to every character.
LEMMA WithTemplatesKeeps ==
    ASSUME NEW d \in Tables, AllAssigned(d),
           NEW ids \in SUBSET TmplIds, NEW new \in [ids -> Keys]
    PROVE  WithTemplates(d, new) \in Tables /\ AllAssigned(WithTemplates(d, new))
<1> DEFINE e == WithTemplates(d, new)
           T == [t \in TmplIds |-> IF t \in ids THEN new[t] ELSE d.tmpls[t]]
<1>1. DOMAIN new = ids
  OBVIOUS
<1>2. e = [d EXCEPT !.tmpls = T, !.assigned = d.assigned \cup (d.chars \X ids)]
  BY <1>1 DEF WithTemplates
<1>3. T \in [TmplIds -> Keys \cup {None}]
  BY DEF Tables
<1>4. d.assigned \cup (d.chars \X ids) \in SUBSET (CharIds \X TmplIds)
  BY DEF Tables
<1> HIDE DEF e
<1>5. e \in Tables
  BY <1>2, <1>3, <1>4 DEF Tables
<1>6. /\ e.chars = d.chars /\ e.tmpls = T
      /\ e.assigned = d.assigned \cup (d.chars \X ids)
  BY <1>2 DEF Tables
<1>7. Live(e) \subseteq Live(d) \cup ids
  BY <1>6 DEF Live
<1>8. e.chars \X Live(e) \subseteq e.assigned
  BY <1>6, <1>7 DEF AllAssigned
<1> QED BY <1>5, <1>8 DEF AllAssigned, e

\* The rows of a backup that are inserted form tables again.
LEMMA OwnType ==
    ASSUME NEW b \in Tables
    PROVE  /\ Own(b) \in Tables
           /\ Own(b).chars = b.chars
           /\ Own(b).tmpls = b.tmpls
           /\ Own(b).active = b.active
BY DEF Own, Tables

IInv == TypeOK /\ EveryTemplateAssigned

\* The invariant holds in the empty database.
LEMMA InitIInv == Init => IInv
<1> SUFFICES ASSUME Init PROVE IInv
  OBVIOUS
<1>1. Empty \in Tables
  BY DEF Empty, Tables
<1>2. TypeOK
  BY <1>1, IdsAssumption DEF Init, TypeOK
<1>3. EveryTemplateAssigned
  BY DEF Init, Empty, EveryTemplateAssigned
<1> QED BY <1>2, <1>3 DEF IInv

\* An import assigns every template to every character (the CROSS JOIN).
LEMMA ImportIInv == IInv /\ ImportBackup => IInv'
<1> SUFFICES ASSUME IInv, ImportBackup PROVE IInv'
  OBVIOUS
<1> DEFINE cleared == [db EXCEPT !.chars = {}, !.tmpls = [t \in TmplIds |-> None]]
           old == Cascade(cleared)
           own == Own(backup)
           S == own.assigned \cup old.assigned \cup (own.chars \X Live(own))
           D == own.done \cup old.done
           U == own.uses \cup old.uses
           R == old.durations \cup
                  {r \in own.durations : \A q \in old.durations : q[1] # r[1]}
<1>1. backup \in Tables /\ db \in Tables
  BY DEF IInv, TypeOK, ImportBackup
<1>2. old \in Tables
  <2>1. cleared \in Tables
    BY <1>1 DEF Tables
  <2> QED BY <2>1, CascadeType
<1>3. own \in Tables
  BY <1>1, OwnType
<1>4. db' = [own EXCEPT !.assigned = S, !.done = D, !.uses = U, !.durations = R]
  BY DEF ImportBackup
<1> HIDE DEF cleared, old, own
<1>5. /\ S \in SUBSET (CharIds \X TmplIds)
      /\ D \in SUBSET (CharIds \X TmplIds \X Periods)
      /\ U \in SUBSET (Stamps \X CharIds \X TmplIds)
      /\ R \in SUBSET (Stamps \X CharIds \X (TmplIds \cup {None}))
  BY <1>2, <1>3 DEF Tables, Live
<1>6. own.chars \X Live(own) \subseteq S
  OBVIOUS
<1> HIDE DEF S, D, U, R
<1>7. db' \in Tables
  BY <1>3, <1>4, <1>5 DEF Tables
<1>8. db'.chars = own.chars /\ db'.tmpls = own.tmpls /\ db'.assigned = S
  BY <1>3, <1>4 DEF Tables
<1>9. EveryTemplateAssigned'
  BY <1>6, <1>8 DEF EveryTemplateAssigned, Live
<1>10. TypeOK'
  BY <1>7 DEF IInv, TypeOK, ImportBackup
<1> QED BY <1>9, <1>10 DEF IInv

\* Every step of the handlers keeps the invariant.
LEMMA StepIInv == IInv /\ [Next]_vars => IInv'
<1> SUFFICES ASSUME IInv, [Next]_vars PROVE IInv'
  OBVIOUS
<1> USE DEF IInv
<1>0. db \in Tables /\ AllAssigned(db)
  BY DEF TypeOK, EveryTemplateAssigned, AllAssigned
<1>1. ASSUME NEW c \in CharIds, CreateCharacter(c) PROVE IInv'
  <2>1. db' \in Tables
    BY <1>0, <1>1 DEF CreateCharacter, Tables, Live
  <2>2. /\ db'.chars = db.chars \cup {c} /\ db'.tmpls = db.tmpls
        /\ db'.assigned = db.assigned \cup ({c} \X Live(db))
    BY <1>0, <1>1 DEF CreateCharacter, Tables
  <2>3. EveryTemplateAssigned'
    BY <1>0, <2>2 DEF EveryTemplateAssigned, AllAssigned, Live
  <2> QED BY <1>1, <2>1, <2>3 DEF CreateCharacter, TypeOK
<1>2. ASSUME NEW c \in CharIds, DeleteCharacter(c) PROVE IInv'
  <2> DEFINE e == [db EXCEPT !.chars = @ \ {c}, !.active = IF @ = c THEN None ELSE @]
  <2>1. e \in Tables
    BY <1>0 DEF Tables
  <2>2. e.chars = db.chars \ {c} /\ e.tmpls = db.tmpls /\ e.assigned = db.assigned
    BY <1>0 DEF Tables
  <2>3. db' = Cascade(e)
    BY <1>2 DEF DeleteCharacter
  <2> HIDE DEF e
  <2>4. AllAssigned(e)
    BY <1>0, <2>2 DEF AllAssigned, Live
  <2>5. db' \in Tables /\ AllAssigned(db')
    BY <2>1, <2>3, <2>4, CascadeType, CascadeKeeps
  <2> QED BY <1>2, <2>5 DEF DeleteCharacter, TypeOK, EveryTemplateAssigned, AllAssigned
<1>3. ASSUME NEW c \in CharIds, GetOverview(c) PROVE IInv'
  <2>1. db' \in Tables /\ db'.chars = db.chars /\ db'.tmpls = db.tmpls
        /\ db'.assigned = db.assigned
    BY <1>0, <1>3 DEF GetOverview, Tables
  <2> QED BY <1>3, <2>1 DEF GetOverview, TypeOK, EveryTemplateAssigned, Live
<1>4. ASSUME NEW c \in CharIds \cup {None}, SetActiveCharacter(c) PROVE IInv'
  <2>1. db' \in Tables /\ db'.chars = db.chars /\ db'.tmpls = db.tmpls
        /\ db'.assigned = db.assigned
    BY <1>0, <1>4 DEF SetActiveCharacter, Tables
  <2> QED BY <1>4, <2>1 DEF SetActiveCharacter, TypeOK, EveryTemplateAssigned, Live
<1>5. ASSUME NEW t \in TmplIds, NEW k \in Keys, CreateTemplate(t, k) PROVE IInv'
  <2>1. [x \in {t} |-> k] \in [{t} -> Keys]
    OBVIOUS
  <2>2. db' \in Tables /\ AllAssigned(db')
    BY <1>0, <1>5, <2>1, WithTemplatesKeeps DEF CreateTemplate
  <2> QED BY <1>5, <2>2 DEF CreateTemplate, TypeOK, EveryTemplateAssigned, AllAssigned
<1>6. ASSUME NEW t \in TmplIds, NEW k \in Keys, UpdateTemplate(t, k) PROVE IInv'
  <2>1. /\ db' \in Tables /\ db'.chars = db.chars /\ db'.assigned = db.assigned
        /\ db'.tmpls = [db.tmpls EXCEPT ![t] = k]
    BY <1>0, <1>6 DEF UpdateTemplate, Tables
  <2>2. Live(db') \subseteq Live(db)
    BY <1>0, <1>6, <2>1 DEF UpdateTemplate, Live, Tables
  <2> QED BY <1>6, <2>1, <2>2 DEF UpdateTemplate, TypeOK, EveryTemplateAssigned
<1>7. ASSUME NEW t \in TmplIds, DeleteTemplate(t) PROVE IInv'
  <2> DEFINE e == [db EXCEPT !.tmpls[t] = None]
  <2>1. /\ e \in Tables /\ e.chars = db.chars /\ e.assigned = db.assigned
        /\ e.tmpls = [db.tmpls EXCEPT ![t] = None]
    BY <1>0 DEF Tables
  <2>2. db' = Cascade(e)
    BY <1>7 DEF DeleteTemplate
  <2> HIDE DEF e
  <2>3. Live(e) \subseteq Live(db)
    BY <1>0, <2>1 DEF Live, Tables
  <2>4. AllAssigned(e)
    BY <1>0, <2>1, <2>3 DEF AllAssigned
  <2>5. db' \in Tables /\ AllAssigned(db')
    BY <2>1, <2>2, <2>4, CascadeType, CascadeKeeps
  <2> QED BY <1>7, <2>5 DEF DeleteTemplate, TypeOK, EveryTemplateAssigned, AllAssigned
<1>8. ASSUME NEW replace \in BOOLEAN, NEW preset \in SUBSET Keys,
             ApplyPreset(replace, preset)
      PROVE  IInv'
  <2> DEFINE e == [db EXCEPT !.tmpls = [t \in TmplIds |-> None]]
             d == IF replace THEN Cascade(e) ELSE db
             missing == preset \ LiveKeys(d)
  <2>1. d \in Tables /\ AllAssigned(d)
    <3>1. e \in Tables /\ e.chars = db.chars /\ e.tmpls = [t \in TmplIds |-> None]
      BY <1>0 DEF Tables
    <3>2. Live(e) = {}
      BY <3>1 DEF Live
    <3>3. AllAssigned(e)
      BY <3>2 DEF AllAssigned
    <3> HIDE DEF e
    <3> QED BY <1>0, <3>1, <3>3, CascadeType, CascadeKeeps
  <2>2a. PICK ids \in SUBSET (TmplIds \ known) :
           \E new \in [ids -> missing] :
              /\ known' = known \cup ids
              /\ db' = WithTemplates(d, new)
              /\ UNCHANGED <<backup, stamp, exports>>
    BY <1>8 DEF ApplyPreset
  <2>2. PICK new \in [ids -> missing] :
           /\ known' = known \cup ids
           /\ db' = WithTemplates(d, new)
           /\ UNCHANGED <<backup, stamp, exports>>
    BY <2>2a
  <2>3. ids \in SUBSET TmplIds /\ new \in [ids -> Keys]
    OBVIOUS
  <2> HIDE DEF d, missing
  <2>4. db' \in Tables /\ AllAssigned(db')
    BY <2>1, <2>2, <2>3, WithTemplatesKeeps
  <2> QED BY <2>2, <2>3, <2>4 DEF TypeOK, EveryTemplateAssigned, AllAssigned
<1>9. ASSUME NEW c \in CharIds, NEW t \in TmplIds, NEW p \in Periods,
             NEW completed \in BOOLEAN, Toggle(c, t, p, completed)
      PROVE  IInv'
  <2>1. PICK D \in SUBSET (CharIds \X TmplIds \X Periods) : db' = [db EXCEPT !.done = D]
    BY <1>0, <1>9 DEF Toggle, Tables
  <2>2. db' \in Tables /\ db'.chars = db.chars /\ db'.tmpls = db.tmpls
        /\ db'.assigned = db.assigned
    BY <1>0, <2>1 DEF Tables
  <2>3. stamp' \in 0..MaxRecords
    BY <1>9, IdsAssumption DEF Toggle, TypeOK
  <2> QED BY <1>9, <2>2, <2>3 DEF Toggle, TypeOK, EveryTemplateAssigned, Live
<1>10. ASSUME NEW c \in CharIds, NEW t \in TmplIds, UseCharge(c, t) PROVE IInv'
  <2>1. stamp' \in 0..MaxRecords /\ stamp + 1 \in Stamps
    BY <1>10, IdsAssumption DEF UseCharge, TypeOK, Stamps
  <2>2. db' \in Tables /\ db'.chars = db.chars /\ db'.tmpls = db.tmpls
        /\ db'.assigned = db.assigned
    BY <1>0, <1>10, <2>1 DEF UseCharge, Tables
  <2> QED BY <1>10, <2>1, <2>2 DEF UseCharge, TypeOK, EveryTemplateAssigned, Live
<1>11. ASSUME NEW c \in CharIds, NEW t \in TmplIds, UndoCharge(c, t) PROVE IInv'
  <2>1. db' \in Tables /\ db'.chars = db.chars /\ db'.tmpls = db.tmpls
        /\ db'.assigned = db.assigned
    BY <1>0, <1>11 DEF UndoCharge, Tables
  <2> QED BY <1>11, <2>1 DEF UndoCharge, TypeOK, EveryTemplateAssigned, Live
<1>12. ASSUME NEW c \in CharIds, NEW t \in TmplIds, AddDuration(c, t) PROVE IInv'
  <2>1. stamp' \in 0..MaxRecords /\ stamp + 1 \in Stamps
    BY <1>12, IdsAssumption DEF AddDuration, TypeOK, Stamps
  <2>2. db' \in Tables /\ db'.chars = db.chars /\ db'.tmpls = db.tmpls
        /\ db'.assigned = db.assigned
    BY <1>0, <1>12, <2>1 DEF AddDuration, Tables
  <2> QED BY <1>12, <2>1, <2>2 DEF AddDuration, TypeOK, EveryTemplateAssigned, Live
<1>13. ASSUME NEW n \in Stamps, NEW c \in CharIds, DeleteDuration(n, c) PROVE IInv'
  <2>1. db' \in Tables /\ db'.chars = db.chars /\ db'.tmpls = db.tmpls
        /\ db'.assigned = db.assigned
    BY <1>0, <1>13 DEF DeleteDuration, Tables
  <2> QED BY <1>13, <2>1 DEF DeleteDuration, TypeOK, EveryTemplateAssigned, Live
<1>14. CASE ExportBackup
  <2>1. exports' \in 0..MaxExports
    BY <1>14, IdsAssumption DEF ExportBackup, TypeOK
  <2> QED BY <1>14, <2>1 DEF ExportBackup, TypeOK, EveryTemplateAssigned, Live
<1>15. CASE ImportBackup
  BY <1>15, ImportIInv
<1>16. CASE UNCHANGED vars
  BY <1>16 DEF vars, TypeOK, EveryTemplateAssigned, Live
<1> QED BY <1>1, <1>2, <1>3, <1>4, <1>5, <1>6, <1>7, <1>8, <1>9, <1>10, <1>11,
           <1>12, <1>13, <1>14, <1>15, <1>16 DEF Next

\* The invariant holds throughout.
LEMMA Invariance == Spec => []IInv
<1>1. Init => IInv
  BY InitIInv
<1>2. IInv /\ [Next]_vars => IInv'
  BY StepIInv
<1> QED BY <1>1, <1>2, PTL DEF Spec

\* Types of the tables: no handler writes a row of another shape.
THEOREM TypeCorrect == Spec => []TypeOK
<1>1. IInv => TypeOK
  BY DEF IInv
<1> QED BY <1>1, Invariance, PTL

\* No template is missing from the overview of any character: createCharacter,
\* createPlannerTemplate, applyPlannerPreset and importUserBackup together
\* assign every template to every character.
THEOREM EveryTemplateAssignedHolds == Spec => []EveryTemplateAssigned
<1>1. IInv => EveryTemplateAssigned
  BY DEF IInv
<1> QED BY <1>1, Invariance, PTL

-----------------------------------------------------------------------------
(***************************************************************************)
(* Records: what a step may do to completions, uses and durations.         *)
(***************************************************************************)

\* e is d after deletions: completions and uses go, a use only with its
\* character or template, and a duration keeps its number.
Deletes(d, e) ==
    /\ e.done \subseteq d.done
    /\ e.uses \subseteq d.uses
    /\ \A r \in d.uses \ e.uses : r[2] \notin e.chars \/ r[3] \notin Live(e)
    /\ \A r \in e.durations : \E q \in d.durations : q[1] = r[1]
    /\ ~PragmaSurvivesExport => e.durations \subseteq d.durations

\* ON DELETE CASCADE and SET NULL delete in this sense.
LEMMA CascadeDeletes ==
    ASSUME NEW d \in Tables
    PROVE  Deletes(d, Cascade(d))
<1>1. CASE ~PragmaSurvivesExport
  <2>1. Cascade(d) = d
    BY <1>1 DEF Cascade
  <2> QED BY <2>1 DEF Deletes
<1>2. CASE PragmaSurvivesExport
  <2> DEFINE e == Cascade(d)
             Q == {q \in d.durations : q[2] \in d.chars}
  <2>1. /\ e.chars = d.chars /\ e.tmpls = d.tmpls
        /\ e.done = {r \in d.done : r[1] \in d.chars /\ r[2] \in Live(d)}
        /\ e.uses = {r \in d.uses : r[2] \in d.chars /\ r[3] \in Live(d)}
        /\ e.durations = {<<r[1], r[2], IF r[3] \in Live(d) THEN r[3] ELSE None>> : r \in Q}
    BY <1>2 DEF Cascade, Tables
  <2> HIDE DEF e
  <2>2. Live(e) = Live(d)
    BY <2>1 DEF Live
  <2>3. \A r \in e.durations : \E q \in d.durations : q[1] = r[1]
    BY <2>1
  <2>4. e.done \subseteq d.done /\ e.uses \subseteq d.uses
    BY <2>1
  <2>5. \A r \in d.uses \ e.uses : r[2] \notin e.chars \/ r[3] \notin Live(e)
    BY <2>1, <2>2
  <2>6. Deletes(d, e)
    BY <1>2, <2>3, <2>4, <2>5 DEF Deletes
  <2> QED BY <2>6 DEF e
<1> QED BY <1>1, <1>2

\* Tables that differ from others only in characters, templates and
\* assignments, before the foreign keys take effect.
LEMMA CascadeAfter ==
    ASSUME NEW d \in Tables, NEW e \in Tables,
           e.done = d.done, e.uses = d.uses, e.durations = d.durations
    PROVE  Deletes(d, Cascade(e))
BY CascadeDeletes DEF Deletes

\* What a step that records nothing and restores nothing does.
Quiet == Deletes(db, db') /\ known \subseteq known' /\ UNCHANGED <<backup, stamp>>

\* The template of a charge use, or of one in the backup, had been created.
UsesKnown ==
    /\ \A r \in db.uses : r[3] \in known
    /\ backup # None => \A r \in backup.uses : r[3] \in known

\* The steps, as far as the records are concerned.
LEMMA Effects ==
    ASSUME IInv, UsesKnown, [Next]_vars
    PROVE  \/ \E c \in CharIds, t \in TmplIds, p \in Periods : Toggle(c, t, p, TRUE)
           \/ \E c \in CharIds, t \in TmplIds :
                 UseCharge(c, t) \/ UndoCharge(c, t) \/ AddDuration(c, t)
           \/ ExportBackup
           \/ ImportBackup
           \/ Quiet
<1>0. db \in Tables
  BY DEF IInv, TypeOK
<1>1. ASSUME NEW c \in CharIds, CreateCharacter(c) PROVE Quiet
  <2>1. db'.done = db.done /\ db'.uses = db.uses /\ db'.durations = db.durations
    BY <1>0, <1>1 DEF CreateCharacter, Tables
  <2> QED BY <1>1, <2>1 DEF CreateCharacter, Quiet, Deletes
<1>2. ASSUME NEW c \in CharIds, DeleteCharacter(c) PROVE Quiet
  <2> DEFINE e == [db EXCEPT !.chars = @ \ {c}, !.active = IF @ = c THEN None ELSE @]
  <2>1. e \in Tables /\ e.done = db.done /\ e.uses = db.uses /\ e.durations = db.durations
    BY <1>0 DEF Tables
  <2>2. db' = Cascade(e)
    BY <1>2 DEF DeleteCharacter
  <2> HIDE DEF e
  <2>3. Deletes(db, db')
    BY <1>0, <2>1, <2>2, CascadeAfter
  <2> QED BY <1>2, <2>3 DEF DeleteCharacter, Quiet
<1>3. ASSUME NEW c \in CharIds, GetOverview(c) PROVE Quiet
  <2>1. db'.done = db.done /\ db'.uses = db.uses /\ db'.durations = db.durations
    BY <1>0, <1>3 DEF GetOverview, Tables
  <2> QED BY <1>3, <2>1 DEF GetOverview, Quiet, Deletes
<1>4. ASSUME NEW c \in CharIds \cup {None}, SetActiveCharacter(c) PROVE Quiet
  <2>1. db'.done = db.done /\ db'.uses = db.uses /\ db'.durations = db.durations
    BY <1>0, <1>4 DEF SetActiveCharacter, Tables
  <2> QED BY <1>4, <2>1 DEF SetActiveCharacter, Quiet, Deletes
<1>5. ASSUME NEW t \in TmplIds, NEW k \in Keys, CreateTemplate(t, k) PROVE Quiet
  <2>1. db'.done = db.done /\ db'.uses = db.uses /\ db'.durations = db.durations
    BY <1>0, <1>5 DEF CreateTemplate, WithTemplates, Tables
  <2> QED BY <1>5, <2>1 DEF CreateTemplate, Quiet, Deletes
<1>6. ASSUME NEW t \in TmplIds, NEW k \in Keys, UpdateTemplate(t, k) PROVE Quiet
  <2>1. db'.done = db.done /\ db'.uses = db.uses /\ db'.durations = db.durations
    BY <1>0, <1>6 DEF UpdateTemplate, Tables
  <2> QED BY <1>6, <2>1 DEF UpdateTemplate, Quiet, Deletes
<1>7. ASSUME NEW t \in TmplIds, DeleteTemplate(t) PROVE Quiet
  <2> DEFINE e == [db EXCEPT !.tmpls[t] = None]
  <2>1. e \in Tables /\ e.done = db.done /\ e.uses = db.uses /\ e.durations = db.durations
    BY <1>0 DEF Tables
  <2>2. db' = Cascade(e)
    BY <1>7 DEF DeleteTemplate
  <2> HIDE DEF e
  <2>3. Deletes(db, db')
    BY <1>0, <2>1, <2>2, CascadeAfter
  <2> QED BY <1>7, <2>3 DEF DeleteTemplate, Quiet
<1>8. ASSUME NEW replace \in BOOLEAN, NEW preset \in SUBSET Keys,
             ApplyPreset(replace, preset)
      PROVE  Quiet
  <2> DEFINE e == [db EXCEPT !.tmpls = [t \in TmplIds |-> None]]
             d == IF replace THEN Cascade(e) ELSE db
             missing == preset \ LiveKeys(d)
  <2>1. e \in Tables /\ e.done = db.done /\ e.uses = db.uses /\ e.durations = db.durations
    BY <1>0 DEF Tables
  <2>2. PICK ids \in SUBSET (TmplIds \ known) :
           \E new \in [ids -> missing] :
              /\ known' = known \cup ids
              /\ db' = WithTemplates(d, new)
              /\ UNCHANGED <<backup, stamp>>
    BY <1>8 DEF ApplyPreset
  <2>3. PICK new \in [ids -> missing] :
           /\ known' = known \cup ids
           /\ db' = WithTemplates(d, new)
           /\ UNCHANGED <<backup, stamp>>
    BY <2>2
  <2>4. d \in Tables
    <3> HIDE DEF e
    <3> QED BY <1>0, <2>1, CascadeType
  <2> HIDE DEF missing
  <2>5. CASE ~replace
    <3>1. db'.done = db.done /\ db'.uses = db.uses /\ db'.durations = db.durations
      BY <1>0, <2>3, <2>5 DEF WithTemplates, Tables
    <3> QED BY <2>3, <3>1 DEF Quiet, Deletes
  <2>6. CASE replace
    <3>1. d = Cascade(e)
      BY <2>6
    <3> HIDE DEF d, e
    <3>2. Deletes(db, d)
      BY <1>0, <2>1, <3>1, CascadeAfter
    <3>3. db'.done = d.done /\ db'.uses = d.uses /\ db'.durations = d.durations
      BY <2>3, <2>4 DEF WithTemplates, Tables
    <3>4. db'.chars = d.chars /\ Live(db') \subseteq Live(d) \cup ids
      <4>1. db'.tmpls = [t \in TmplIds |-> IF t \in ids THEN new[t] ELSE d.tmpls[t]]
        BY <2>3, <2>4 DEF WithTemplates, Tables
      <4>2. db'.chars = d.chars
        BY <2>3, <2>4 DEF WithTemplates, Tables
      <4> QED BY <4>1, <4>2 DEF Live
    \* The identifiers of new templates are new: no use refers to them.
    <3>5. \A r \in db.uses : r[3] \notin ids
      BY DEF UsesKnown
    <3>6. \A r \in db.uses \ d.uses : r[2] \notin db'.chars \/ r[3] \notin Live(db')
      BY <3>2, <3>4, <3>5 DEF Deletes
    <3> QED BY <2>3, <3>2, <3>3, <3>6 DEF Quiet, Deletes
  <2> QED BY <2>5, <2>6
<1>9. ASSUME NEW c \in CharIds, NEW t \in TmplIds, NEW p \in Periods,
             Toggle(c, t, p, FALSE)
      PROVE  Quiet
  <2>1. /\ db'.done \subseteq db.done /\ db'.uses = db.uses
        /\ db'.durations = db.durations
    BY <1>0, <1>9 DEF Toggle, Tables
  <2> QED BY <1>9, <2>1 DEF Toggle, Quiet, Deletes
<1>10. ASSUME NEW n \in Stamps, NEW c \in CharIds, DeleteDuration(n, c) PROVE Quiet
  <2>1. /\ db'.done = db.done /\ db'.uses = db.uses
        /\ db'.durations \subseteq db.durations
    BY <1>0, <1>10 DEF DeleteDuration, Tables
  <2> QED BY <1>10, <2>1 DEF DeleteDuration, Quiet, Deletes
<1>11. CASE UNCHANGED vars
  BY <1>11 DEF vars, Quiet, Deletes
<1> QED
  BY <1>1, <1>2, <1>3, <1>4, <1>5, <1>6, <1>7, <1>8, <1>9, <1>10, <1>11 DEF Next

\* Numbers of rows are handed out in order and once: no row has a number yet
\* to come; of the uses, those made after the export have higher numbers than
\* those in the backup; and a duration of the database and one of the backup
\* with the same number are the same row.
Numbered ==
    /\ \A r \in db.uses \cup db.durations : r[1] <= stamp
    /\ backup # None =>
          /\ \A r \in backup.uses \cup backup.durations : r[1] <= stamp
          /\ \A r \in db.uses \ backup.uses, q \in backup.uses : q[1] < r[1]

SameRow(R, S) == \A r \in R, q \in S : r[1] = q[1] => r = q

DurationsAgree ==
    ~PragmaSurvivesExport =>
        /\ SameRow(db.durations, db.durations)
        /\ backup # None =>
              /\ SameRow(db.durations, backup.durations)
              /\ SameRow(backup.durations, backup.durations)

RInv == IInv /\ UsesKnown /\ Numbered /\ DurationsAgree

\* What an import leaves, part by part.
LEMMA ImportEffect ==
    ASSUME IInv, ImportBackup
    PROVE  \E old \in Tables :
             /\ Deletes(db, old)
             /\ PragmaSurvivesExport =>
                   old.assigned = {} /\ old.done = {} /\ old.uses = {} /\ old.durations = {}
             /\ ~PragmaSurvivesExport => old.uses = db.uses
             /\ db'.chars = backup.chars /\ db'.tmpls = backup.tmpls
             /\ db'.active = backup.active
             /\ Own(backup).assigned \subseteq db'.assigned
             /\ db'.done = Own(backup).done \cup old.done
             /\ db'.uses = Own(backup).uses \cup old.uses
             /\ db'.durations = old.durations \cup
                   {r \in Own(backup).durations : \A q \in old.durations : q[1] # r[1]}
             /\ db'.assigned = Own(backup).assigned \cup old.assigned
                                 \cup (backup.chars \X Live(backup))
<1> DEFINE cleared == [db EXCEPT !.chars = {}, !.tmpls = [t \in TmplIds |-> None]]
           old == Cascade(cleared)
           own == Own(backup)
<1>1. backup \in Tables /\ db \in Tables
  BY DEF IInv, TypeOK, ImportBackup
<1>2. /\ cleared \in Tables /\ cleared.done = db.done /\ cleared.uses = db.uses
      /\ cleared.durations = db.durations /\ cleared.chars = {}
      /\ cleared.tmpls = [t \in TmplIds |-> None]
  BY <1>1 DEF Tables
<1>3. own \in Tables /\ own.chars = backup.chars /\ own.tmpls = backup.tmpls
      /\ own.active = backup.active
  BY <1>1, OwnType
<1>4. db' = [own EXCEPT
               !.assigned  = own.assigned \cup old.assigned \cup (own.chars \X Live(own)),
               !.done      = own.done \cup old.done,
               !.uses      = own.uses \cup old.uses,
               !.durations = old.durations \cup
                    {r \in own.durations : \A q \in old.durations : q[1] # r[1]}]
  BY DEF ImportBackup
<1> HIDE DEF cleared, own
<1>5. ASSUME PragmaSurvivesExport
      PROVE  old.assigned = {} /\ old.done = {} /\ old.uses = {} /\ old.durations = {}
  <2>1. /\ old.assigned = {r \in cleared.assigned : r[1] \in {} /\ r[2] \in Live(cleared)}
        /\ old.done = {r \in cleared.done : r[1] \in {} /\ r[2] \in Live(cleared)}
        /\ old.uses = {r \in cleared.uses : r[2] \in {} /\ r[3] \in Live(cleared)}
        /\ old.durations = {<<r[1], r[2], IF r[3] \in Live(cleared) THEN r[3] ELSE None>> :
                               r \in {q \in cleared.durations : q[2] \in {}}}
    BY <1>2, <1>5 DEF Cascade, Tables
  <2> QED BY <2>1
<1>5a. ~PragmaSurvivesExport => old.uses = db.uses
  BY <1>2 DEF Cascade
<1>6. old \in Tables /\ Deletes(db, old)
  BY <1>1, <1>2, CascadeType, CascadeAfter
<1> HIDE DEF old
<1>7. Live(own) = Live(backup)
  BY <1>3 DEF Live
<1>8. /\ db'.chars = own.chars /\ db'.tmpls = own.tmpls /\ db'.active = own.active
      /\ db'.assigned = own.assigned \cup old.assigned \cup (own.chars \X Live(own))
      /\ db'.done = own.done \cup old.done
      /\ db'.uses = own.uses \cup old.uses
      /\ db'.durations = old.durations \cup
            {r \in own.durations : \A q \in old.durations : q[1] # r[1]}
  BY <1>3, <1>4 DEF Tables
<1> QED
  <2>1. own.assigned \subseteq db'.assigned
    BY <1>8
  <2> QED BY <1>3, <1>5, <1>5a, <1>6, <1>7, <1>8, <2>1 DEF own

\* The rows an import takes from the backup are rows of the backup.
LEMMA OwnRows ==
    ASSUME NEW b \in Tables
    PROVE  /\ Own(b).done = {r \in b.done : r[1] \in b.chars /\ r[2] \in Live(b)}
           /\ Own(b).uses = {r \in b.uses : r[2] \in b.chars /\ r[3] \in Live(b)}
           /\ Own(b).durations =
                 {r \in b.durations : r[2] \in b.chars /\ r[3] \in Live(b) \cup {None}}
           /\ Own(b).assigned = {r \in b.assigned : r[1] \in b.chars /\ r[2] \in Live(b)}
BY DEF Own, Tables

-----------------------------------------------------------------------------
(***************************************************************************)
(* The invariant of the records.                                           *)
(***************************************************************************)

\* The empty database has no rows.
LEMMA InitRInv == Init => RInv
<1> SUFFICES ASSUME Init PROVE RInv
  OBVIOUS
<1>1. IInv
  BY InitIInv
<1>2. db.uses = {} /\ db.durations = {} /\ backup = None
  BY DEF Init, Empty
<1>3. UsesKnown /\ Numbered /\ DurationsAgree
  BY <1>2 DEF UsesKnown, Numbered, DurationsAgree, SameRow
<1> QED BY <1>1, <1>3 DEF RInv

\* A use or a duration takes the next number; a deletion, an export and an
\* import give no row another number.
LEMMA StepRInv == RInv /\ [Next]_vars => RInv'
<1> SUFFICES ASSUME RInv, [Next]_vars PROVE RInv'
  OBVIOUS
<1>0. /\ IInv /\ UsesKnown /\ Numbered /\ DurationsAgree
      /\ db \in Tables /\ stamp \in Nat
      /\ backup # None => backup \in Tables
  BY IdsAssumption DEF RInv, IInv, TypeOK
<1>1. IInv'
  BY <1>0, StepIInv
<1>2. /\ \A r \in db.uses \cup db.durations : r[1] \in Nat
      /\ backup # None => \A r \in backup.uses \cup backup.durations : r[1] \in Nat
  BY <1>0 DEF Tables, Stamps
<1>3. ASSUME NEW c \in CharIds, NEW t \in TmplIds, NEW p \in Periods, Toggle(c, t, p, TRUE)
      PROVE  UsesKnown' /\ Numbered' /\ DurationsAgree'
  <2>1. /\ db'.uses = db.uses /\ db'.durations = db.durations
        /\ backup' = backup /\ known' = known /\ stamp' = stamp + 1
    BY <1>0, <1>3 DEF Toggle, Tables
  <2>2. UsesKnown' /\ DurationsAgree'
    BY <1>0, <2>1 DEF UsesKnown, DurationsAgree
  <2>3. Numbered'
    BY <1>0, <1>2, <2>1 DEF Numbered
  <2> QED BY <2>2, <2>3
<1>4. ASSUME NEW c \in CharIds, NEW t \in TmplIds, UseCharge(c, t)
      PROVE  UsesKnown' /\ Numbered' /\ DurationsAgree'
  <2>1. /\ db'.uses = db.uses \cup {<<stamp + 1, c, t>>} /\ db'.durations = db.durations
        /\ backup' = backup /\ known' = known /\ stamp' = stamp + 1 /\ t \in known
    BY <1>0, <1>4 DEF UseCharge, Tables
  <2>2. UsesKnown' /\ DurationsAgree'
    BY <1>0, <2>1 DEF UsesKnown, DurationsAgree
  <2>3. \A r \in db'.uses \cup db'.durations : r[1] <= stamp'
    BY <1>0, <1>2, <2>1 DEF Numbered
  <2>4. ASSUME backup # None
        PROVE  /\ \A r \in backup.uses \cup backup.durations : r[1] <= stamp + 1
               /\ \A r \in db'.uses \ backup.uses, q \in backup.uses : q[1] < r[1]
    BY <1>0, <1>2, <2>1, <2>4 DEF Numbered
  <2> QED BY <2>1, <2>2, <2>3, <2>4 DEF Numbered
<1>5. ASSUME NEW c \in CharIds, NEW t \in TmplIds, UndoCharge(c, t)
      PROVE  UsesKnown' /\ Numbered' /\ DurationsAgree'
  <2>1. /\ db'.uses \subseteq db.uses /\ db'.durations = db.durations
        /\ backup' = backup /\ known' = known /\ stamp' = stamp
    BY <1>0, <1>5 DEF UndoCharge, Tables
  <2> QED BY <1>0, <2>1 DEF UsesKnown, DurationsAgree, Numbered
<1>6. ASSUME NEW c \in CharIds, NEW t \in TmplIds, AddDuration(c, t)
      PROVE  UsesKnown' /\ Numbered' /\ DurationsAgree'
  <2> DEFINE new == <<stamp + 1, c, t>>
  <2>1. /\ db'.uses = db.uses /\ db'.durations = db.durations \cup {new}
        /\ backup' = backup /\ known' = known /\ stamp' = stamp + 1
    BY <1>0, <1>6 DEF AddDuration, Tables
  <2>2. UsesKnown'
    BY <1>0, <2>1 DEF UsesKnown
  <2>3. Numbered'
    BY <1>0, <1>2, <2>1 DEF Numbered
  <2>4. /\ \A r \in db.durations : r[1] # new[1]
        /\ backup # None => \A r \in backup.durations : r[1] # new[1]
    BY <1>0, <1>2 DEF Numbered
  <2> HIDE DEF new
  <2>5. DurationsAgree'
    BY <1>0, <2>1, <2>4 DEF DurationsAgree, SameRow
  <2> QED BY <2>2, <2>3, <2>5
<1>7. ASSUME ExportBackup
      PROVE  UsesKnown' /\ Numbered' /\ DurationsAgree'
  <2>1. db' = db /\ backup' = db /\ known' = known /\ stamp' = stamp
    BY <1>7 DEF ExportBackup
  <2> QED BY <1>0, <2>1 DEF UsesKnown, DurationsAgree, Numbered
<1>8. ASSUME ImportBackup
      PROVE  UsesKnown' /\ Numbered' /\ DurationsAgree'
  <2>1. backup # None /\ backup' = backup /\ known' = known /\ stamp' = stamp
        /\ backup \in Tables
    BY <1>0, <1>8 DEF ImportBackup
  <2>2. PICK old \in Tables :
          /\ Deletes(db, old)
          /\ PragmaSurvivesExport => old.durations = {}
          /\ db'.uses = Own(backup).uses \cup old.uses
          /\ db'.durations = old.durations \cup
                {r \in Own(backup).durations : \A q \in old.durations : q[1] # r[1]}
    BY <1>0, <1>8, ImportEffect
  <2>3. Own(backup).uses \subseteq backup.uses /\ Own(backup).durations \subseteq backup.durations
    BY <2>1, OwnRows
  <2>4. /\ db'.uses \subseteq backup.uses \cup old.uses /\ old.uses \subseteq db.uses
        /\ \A r \in old.durations : \E q \in db.durations : q[1] = r[1]
    BY <2>2, <2>3 DEF Deletes
  <2>5. UsesKnown'
    BY <1>0, <2>1, <2>4 DEF UsesKnown
  <2>6. Numbered'
    BY <1>0, <2>1, <2>2, <2>3, <2>4 DEF Numbered
  <2>7. ASSUME ~PragmaSurvivesExport
        PROVE  SameRow(db'.durations, db'.durations) /\ SameRow(db'.durations, backup.durations)
    <3>1. old.durations \subseteq db.durations
      BY <2>2, <2>7 DEF Deletes
    <3>2. /\ SameRow(db.durations, db.durations) /\ SameRow(db.durations, backup.durations)
          /\ SameRow(backup.durations, backup.durations)
      BY <1>0, <2>1, <2>7 DEF DurationsAgree
    <3>3. SameRow(db'.durations, backup.durations)
      BY <2>2, <2>3, <3>1, <3>2 DEF SameRow
    <3>4. SameRow(db'.durations, db'.durations)
      BY <2>2, <2>3, <3>1, <3>2 DEF SameRow
    <3> QED BY <3>3, <3>4
  <2>8. DurationsAgree'
    BY <1>0, <2>1, <2>7 DEF DurationsAgree
  <2> QED BY <2>5, <2>6, <2>8
<1>9. ASSUME Quiet
      PROVE  UsesKnown' /\ Numbered' /\ DurationsAgree'
  <2>1. /\ db'.uses \subseteq db.uses
        /\ \A r \in db'.durations : \E q \in db.durations : q[1] = r[1]
        /\ ~PragmaSurvivesExport => db'.durations \subseteq db.durations
        /\ known \subseteq known' /\ backup' = backup /\ stamp' = stamp
    BY <1>9 DEF Quiet, Deletes
  <2>2. UsesKnown'
    BY <1>0, <2>1 DEF UsesKnown
  <2>3. Numbered'
    BY <1>0, <2>1 DEF Numbered
  <2>4. DurationsAgree'
    BY <1>0, <2>1 DEF DurationsAgree, SameRow
  <2> QED BY <2>2, <2>3, <2>4
<1>10. UsesKnown' /\ Numbered' /\ DurationsAgree'
  BY <1>0, <1>3, <1>4, <1>5, <1>6, <1>7, <1>8, <1>9, Effects
<1> QED BY <1>1, <1>10 DEF RInv

\* Rows keep their numbers throughout.
LEMMA RecordsInvariance == Spec => []RInv
<1>1. Init => RInv
  BY InitRInv
<1>2. RInv /\ [Next]_vars => RInv'
  BY StepRInv
<1> QED BY <1>1, <1>2, PTL DEF Spec

-----------------------------------------------------------------------------
(***************************************************************************)
(* What the records promise.                                               *)
(***************************************************************************)

\* toggleComplete looks the character up, and the import filters its rows by
\* the characters of the file: neither writes a completion for a character
\* that is gone, with and without foreign keys.
THEOREM NoCompletionForTheDeletedHolds == Spec => NoCompletionForTheDeleted
<1>1. ASSUME RInv, [Next]_vars
      PROVE  \A r \in db'.done \ db.done : r[1] \in db'.chars
  <2>0. /\ IInv /\ UsesKnown /\ db \in Tables
        /\ backup # None => backup \in Tables
    BY <1>1 DEF RInv, IInv, TypeOK
  <2>1. ASSUME NEW c \in CharIds, NEW t \in TmplIds, NEW p \in Periods, Toggle(c, t, p, TRUE)
        PROVE  \A r \in db'.done \ db.done : r[1] \in db'.chars
    <3>1. db'.done = db.done \cup {<<c, t, p>>} /\ db'.chars = db.chars /\ c \in db.chars
      BY <2>0, <2>1 DEF Toggle, Tables
    <3> QED BY <3>1
  <2>2. ASSUME NEW c \in CharIds, NEW t \in TmplIds,
               UseCharge(c, t) \/ UndoCharge(c, t) \/ AddDuration(c, t)
        PROVE  db'.done = db.done
    BY <2>0, <2>2 DEF UseCharge, UndoCharge, AddDuration, Tables
  <2>3. ASSUME ExportBackup PROVE db'.done = db.done
    BY <2>3 DEF ExportBackup
  <2>4. ASSUME ImportBackup
        PROVE  \A r \in db'.done \ db.done : r[1] \in db'.chars
    <3>1. backup \in Tables
      BY <2>0, <2>4 DEF ImportBackup
    <3>2. PICK old \in Tables :
            /\ Deletes(db, old)
            /\ db'.chars = backup.chars
            /\ db'.done = Own(backup).done \cup old.done
      BY <2>0, <2>4, ImportEffect
    <3> QED BY <3>1, <3>2, OwnRows DEF Deletes
  <2>5. ASSUME Quiet PROVE db'.done \subseteq db.done
    BY <2>5 DEF Quiet, Deletes
  <2> QED BY <1>1, <2>0, <2>1, <2>2, <2>3, <2>4, <2>5, Effects
<1> QED BY <1>1, RecordsInvariance, PTL DEF Spec, NoCompletionForTheDeleted

\* undoCharge (ORDER BY used_at DESC LIMIT 1) takes the latest use; no other
\* step, an import of an older backup included, removes a use and leaves a
\* later one of the same character and template.
THEOREM UndoTakesTheLatestHolds == Spec => UndoTakesTheLatest
<1> DEFINE Latest(r) ==
      \/ r[2] \notin db'.chars \/ r[3] \notin Live(db')
      \/ \A q \in db'.uses : q[2] = r[2] /\ q[3] = r[3] => q[1] < r[1]
<1>1. ASSUME RInv, [Next]_vars
      PROVE  \A r \in db.uses \ db'.uses : Latest(r)
  <2>0. /\ IInv /\ UsesKnown /\ Numbered /\ db \in Tables
        /\ backup # None => backup \in Tables
    BY <1>1 DEF RInv, IInv, TypeOK
  <2>1. ASSUME NEW c \in CharIds, NEW t \in TmplIds, NEW p \in Periods, Toggle(c, t, p, TRUE)
        PROVE  db'.uses = db.uses
    BY <2>0, <2>1 DEF Toggle, Tables
  <2>2. ASSUME NEW c \in CharIds, NEW t \in TmplIds, UseCharge(c, t) \/ AddDuration(c, t)
        PROVE  db.uses \subseteq db'.uses
    BY <2>0, <2>2 DEF UseCharge, AddDuration, Tables
  <2>3. ASSUME NEW c \in CharIds, NEW t \in TmplIds, UndoCharge(c, t)
        PROVE  \A r \in db.uses \ db'.uses : Latest(r)
    <3>1. PICK r \in db.uses :
            /\ r[2] = c /\ r[3] = t
            /\ \A q \in db.uses : q[2] = c /\ q[3] = t => q[1] <= r[1]
            /\ db'.uses = db.uses \ {r}
      BY <2>0, <2>3 DEF UndoCharge, Tables
    <3>2. ASSUME NEW q \in db'.uses, q[2] = r[2], q[3] = r[3]
          PROVE  q[1] < r[1]
      <4>1. q \in Stamps \X CharIds \X TmplIds /\ r \in Stamps \X CharIds \X TmplIds
        BY <2>0, <3>1, <3>2 DEF Tables
      <4>2. q # r /\ q[1] <= r[1]
        BY <3>1, <3>2
      <4>3. q = <<q[1], q[2], q[3]>> /\ r = <<r[1], r[2], r[3]>>
        BY <4>1
      <4>4. q[1] # r[1]
        BY <3>2, <4>2, <4>3
      <4> QED BY <4>1, <4>2, <4>4 DEF Stamps
    <3> QED BY <3>1, <3>2
  <2>4. ASSUME ExportBackup PROVE db'.uses = db.uses
    BY <2>4 DEF ExportBackup
  <2>5. ASSUME ImportBackup
        PROVE  \A r \in db.uses \ db'.uses : Latest(r)
    <3>1. backup \in Tables /\ backup # None
      BY <2>0, <2>5 DEF ImportBackup
    <3>2. PICK old \in Tables :
            /\ PragmaSurvivesExport => old.uses = {}
            /\ ~PragmaSurvivesExport => old.uses = db.uses
            /\ db'.chars = backup.chars /\ db'.tmpls = backup.tmpls
            /\ db'.uses = Own(backup).uses \cup old.uses
      BY <2>0, <2>5, ImportEffect
    <3>3. Live(db') = Live(backup)
      BY <3>2 DEF Live
    <3>4. CASE ~PragmaSurvivesExport
      BY <3>2, <3>4
    <3>5. CASE PragmaSurvivesExport
      <4> SUFFICES ASSUME NEW r \in db.uses, r \notin Own(backup).uses PROVE Latest(r)
        BY <3>2, <3>5
      <4>1. CASE r \in backup.uses
        BY <3>1, <3>2, <3>3, <4>1, OwnRows
      <4>2. CASE r \notin backup.uses
        <5>1. \A q \in backup.uses : q[1] < r[1]
          BY <2>0, <3>1, <4>2 DEF Numbered
        <5>2. db'.uses \subseteq backup.uses
          BY <3>1, <3>2, <3>5, OwnRows
        <5> QED BY <5>1, <5>2
      <4> QED BY <4>1, <4>2
    <3> QED BY <3>4, <3>5
  <2>6. ASSUME Quiet PROVE \A r \in db.uses \ db'.uses : Latest(r)
    BY <2>6 DEF Quiet, Deletes
  <2> HIDE DEF Latest
  <2> QED BY <1>1, <2>0, <2>1, <2>2, <2>3, <2>4, <2>5, <2>6, Effects
<1> QED BY <1>1, RecordsInvariance, PTL DEF Spec, UndoTakesTheLatest

\* Every row the backup holds of its characters and templates is there after
\* the import: a duration that INSERT OR IGNORE passes over is there already,
\* the same row under the same identifier.
THEOREM ImportRestoresHolds == Spec => ImportRestores
<1>1. ASSUME RInv, ImportBackup
      PROVE  LET b == Own(backup)
             IN  /\ b.chars = db'.chars /\ b.tmpls = db'.tmpls /\ b.active = db'.active
                 /\ b.assigned \subseteq db'.assigned
                 /\ b.done \subseteq db'.done
                 /\ b.uses \subseteq db'.uses
                 /\ b.durations \subseteq db'.durations
  <2>0. IInv /\ DurationsAgree /\ backup \in Tables /\ backup # None
    BY <1>1 DEF RInv, IInv, TypeOK, ImportBackup
  <2>1. PICK old \in Tables :
          /\ Deletes(db, old)
          /\ PragmaSurvivesExport => old.durations = {}
          /\ db'.chars = backup.chars /\ db'.tmpls = backup.tmpls
          /\ db'.active = backup.active
          /\ Own(backup).assigned \subseteq db'.assigned
          /\ db'.done = Own(backup).done \cup old.done
          /\ db'.uses = Own(backup).uses \cup old.uses
          /\ db'.durations = old.durations \cup
                {r \in Own(backup).durations : \A q \in old.durations : q[1] # r[1]}
    BY <1>1, <2>0, ImportEffect
  <2>2. ASSUME NEW r \in Own(backup).durations, NEW q \in old.durations, q[1] = r[1]
        PROVE  r \in old.durations
    <3>1. ~PragmaSurvivesExport
      BY <2>1, <2>2
    <3>2. q \in db.durations /\ r \in backup.durations
      BY <2>0, <2>1, <3>1, OwnRows DEF Deletes
    <3>3. q = r
      BY <2>0, <2>2, <3>1, <3>2 DEF DurationsAgree, SameRow
    <3> QED BY <2>2, <3>3
  <2>3. Own(backup).durations \subseteq db'.durations
    BY <2>1, <2>2
  <2> QED BY <2>0, <2>1, <2>3, OwnType
<1> QED BY <1>1, RecordsInvariance, PTL DEF Spec, ImportRestores

=============================================================================
