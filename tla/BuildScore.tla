------------------------------ MODULE BuildScore ------------------------------
(***************************************************************************)
(* The build score of each character, its presets, and the page that edits *)
(* them while the active character is switched under it.                   *)
(*                                                                         *)
(* The page sends calls to the main process and goes on when the replies   *)
(* come, in the order they are sent.  A reading handler replies when it is *)
(* called, a writing handler once persist has saved, so that later reads   *)
(* overtake it.  No other window calls these handlers, and calls come in   *)
(* order: a call is handled when it is sent.                               *)
(* What the page does after a reply uses the character its closure         *)
(* captured, which a switch since does not change.                         *)
(***************************************************************************)
EXTENDS Naturals, Sequences, FiniteSets, Nothing

CONSTANTS
    Chars,
    Contents,    \* weights and sets of values a score may hold
    Default,     \* defaultBuildScoreState()
    PresetIds,   \* identifiers randomUUID() gives out; bound: presets at a time
    MaxCalls     \* bound: calls of the page that wait for a reply

ASSUME BuildScoreAssumption ==
    /\ Default \in Contents /\ MaxCalls \in Nat
    /\ None \notin Chars \cup Contents \cup PresetIds

VARIABLES
    scores,      \* the table build_score: a content, or None without a row
    presets,     \* the table build_score_preset
    ui,          \* what the page shows
    replies,     \* replies under way to the page
    writes,      \* writing calls whose save is under way
    dialog,      \* the character an import of presets was asked for, None
                 \* while its dialog is closed
    failed       \* a save failed, and the page has not loaded a score since

scoreVars == <<scores, presets, ui, replies, writes, dialog, failed>>

\* Of a preset, for is the character the user made it for; no column.
Preset == [id : PresetIds, char : Chars, for : Chars, content : Contents]

\* A score on the page: the character it was loaded for, and its content now.
Shown == [of : Chars, content : Contents]

Page ==
    [char     : Chars \cup {None},       \* props.activeCharacterId
     state    : Shown \cup {None},
     baseline : Contents \cup {None},
     saving   : BOOLEAN,
     loading  : BOOLEAN,                 \* of the score
     listing  : BOOLEAN,                 \* presetsLoading
     listed   : SUBSET PresetIds]

\* A writing call and the character of the refresh that follows it.
Write == [kind : {"score"}, char : Chars] \cup [kind : {"presets"}, char : Chars \cup {None}]

\* A reply to get, list, the get of a preset or a write; ends: its await is
\* the last of a save, which then clears saving.
Reply ==
    [kind : {"get"}, char : Chars, content : Contents, ends : BOOLEAN]
        \cup [kind : {"list"}, ids : SUBSET PresetIds, ends : BOOLEAN]
        \cup [kind : {"preset"}, content : Contents]
        \cup [kind : {"saved", "failed"}, write : Write]

ScoreTypeOK ==
    /\ scores \in [Chars -> Contents \cup {None}]
    /\ presets \in SUBSET Preset
    /\ ui \in Page
    /\ replies \in Seq(Reply)
    /\ writes \in Seq(Write)
    /\ dialog \in Chars \cup {None}
    /\ failed \in BOOLEAN

-----------------------------------------------------------------------------
(***************************************************************************)
(* What the handlers read.                                                 *)
(***************************************************************************)
GetBuildScore(table, c) == IF table[c] = None THEN Default ELSE table[c]

ListPresets(c) == {p.id : p \in {q \in presets : q.char = c}}

PresetOf(id) == CHOOSE p \in presets : p.id = id

Exists(id) == \E p \in presets : p.id = id

IsDirty == ui.state # None /\ ui.baseline # None /\ ui.state.content # ui.baseline

ScoreInit ==
    /\ scores = [c \in Chars |-> None]
    /\ presets = {}
    /\ ui = [char |-> None, state |-> None, baseline |-> None, saving |-> FALSE,
             loading |-> FALSE, listing |-> FALSE, listed |-> {}]
    /\ replies = << >> /\ writes = << >>
    /\ dialog = None
    /\ failed = FALSE

-----------------------------------------------------------------------------
(***************************************************************************)
(* Loading.                                                                *)
(***************************************************************************)
CanCall == Len(replies) + Len(writes) < MaxCalls

\* The calls refresh() and refreshPresets() of a page for c, over the table
\* new of scores.
Got(new, c, ends) ==
    [kind |-> "get", char |-> c, content |-> GetBuildScore(new, c), ends |-> ends]
GotList(c, ends) == [kind |-> "list", ids |-> ListPresets(c), ends |-> ends]

\* The user, the other window or the poll changes the active character; the
\* effects of the page load the new one's score and presets.  Without a
\* character the page is cleared and nothing is called.
Switch(c) ==
    /\ c # ui.char
    /\ IF c = None
       THEN /\ ui' = [ui EXCEPT !.char = c, !.state = None, !.baseline = None, !.listed = {}]
            /\ UNCHANGED replies
       ELSE /\ CanCall
            /\ ui' = [ui EXCEPT !.char = c, !.loading = TRUE, !.listing = TRUE]
            /\ replies' = replies \o << Got(scores, c, FALSE), GotList(c, FALSE) >>
    /\ UNCHANGED <<scores, presets, writes, dialog, failed>>

Reload ==
    /\ dialog = None /\ ui.char # None /\ ~ui.loading /\ CanCall
    /\ ui' = [ui EXCEPT !.loading = TRUE]
    /\ replies' = Append(replies, Got(scores, ui.char, FALSE))
    /\ UNCHANGED <<scores, presets, writes, dialog, failed>>

\* The save of the first writing call ends, and its handler replies.
Persisted(ok) ==
    /\ writes # << >>
    /\ writes' = Tail(writes)
    /\ replies' = Append(replies, [kind |-> IF ok THEN "saved" ELSE "failed", write |-> Head(writes)])
    /\ UNCHANGED <<scores, presets, ui, dialog, failed>>

\* A reply sets what its call was for, whatever character is active now.
ScoreArrives(r) ==
    /\ r.kind = "get"
    /\ ui' = [ui EXCEPT !.state = [of |-> r.char, content |-> r.content],
                            !.baseline = r.content, !.loading = FALSE,
                            !.saving = @ /\ ~r.ends]
    /\ failed' = FALSE
    /\ replies' = Tail(replies)

ListArrives(r) ==
    /\ r.kind = "list"
    /\ ui' = [ui EXCEPT !.listed = r.ids, !.listing = FALSE, !.saving = @ /\ ~r.ends]
    /\ replies' = Tail(replies)
    /\ UNCHANGED failed

\* applyUserPreset over the state there is.
PresetArrives(r) ==
    /\ r.kind = "preset"
    /\ ui' = [ui EXCEPT !.state = IF @ = None THEN None ELSE [@ EXCEPT !.content = r.content],
                            !.saving = FALSE]
    /\ replies' = Tail(replies)
    /\ UNCHANGED failed

\* Variant: nothing is loaded after a reset or a save.
ScoreSavedNoRefresh(r) ==
    /\ r.kind = "saved" /\ r.write.kind = "score"
    /\ ui' = [ui EXCEPT !.saving = FALSE]
    /\ replies' = Tail(replies)
    /\ UNCHANGED failed

\* After a save or a reset: the refresh of the closure that called it.
ScoreSaved(r) ==
    /\ r.kind = "saved" /\ r.write.kind = "score"
    /\ ui' = [ui EXCEPT !.loading = TRUE]
    /\ replies' = Append(Tail(replies), Got(scores, r.write.char, TRUE))
    /\ UNCHANGED failed

\* After a change of the presets: the list, cleared without a character.
PresetsSaved(r) ==
    /\ r.kind = "saved" /\ r.write.kind = "presets"
    /\ IF r.write.char = None
       THEN /\ ui' = [ui EXCEPT !.listed = {}, !.saving = FALSE]
            /\ replies' = Tail(replies)
       ELSE /\ ui' = [ui EXCEPT !.listing = TRUE]
            /\ replies' = Append(Tail(replies), GotList(r.write.char, TRUE))
    /\ UNCHANGED failed

\* The page shows the error and loads nothing.
SaveFailed(r) ==
    /\ r.kind = "failed"
    /\ ui' = [ui EXCEPT !.saving = FALSE]
    /\ failed' = TRUE
    /\ replies' = Tail(replies)

ReplyArrives ==
    /\ replies # << >>
    /\ LET r == Head(replies)
       IN  \/ ScoreArrives(r) \/ ListArrives(r) \/ PresetArrives(r)
          \/ ScoreSaved(r) \/ PresetsSaved(r) \/ SaveFailed(r)
    /\ UNCHANGED <<scores, presets, writes, dialog>>

-----------------------------------------------------------------------------
(***************************************************************************)
(* Editing and saving a score.                                             *)
(***************************************************************************)

\* The fields stay enabled while a save is under way.
Edit(content) ==
    /\ dialog = None /\ ui.state # None
    /\ ui' = [ui EXCEPT !.state.content = content]
    /\ UNCHANGED <<scores, presets, replies, writes, dialog, failed>>

\* handleSave sends the state shown for the character active now.
Save ==
    /\ dialog = None /\ ui.char # None /\ IsDirty /\ ~ui.saving /\ CanCall
    /\ scores' = [scores EXCEPT ![ui.char] = ui.state.content]
    /\ ui' = [ui EXCEPT !.saving = TRUE]
    /\ writes' = Append(writes, [kind |-> "score", char |-> ui.char])
    /\ UNCHANGED <<presets, replies, dialog, failed>>

Reset ==
    /\ dialog = None /\ ui.char # None /\ ui.state # None /\ ~ui.saving /\ CanCall
    /\ scores' = [scores EXCEPT ![ui.char] = None]
    /\ ui' = [ui EXCEPT !.saving = TRUE]
    /\ writes' = Append(writes, [kind |-> "score", char |-> ui.char])
    /\ UNCHANGED <<presets, replies, dialog, failed>>

-----------------------------------------------------------------------------
(***************************************************************************)
(* Presets.                                                                *)
(***************************************************************************)
\* An identifier is used again only when nothing refers to the preset it named.
Fresh(id) ==
    /\ ~Exists(id) /\ id \notin ui.listed
    /\ \A k \in DOMAIN replies : replies[k].kind = "list" => id \notin replies[k].ids

Saving == [ui EXCEPT !.saving = TRUE]

CreatePreset(id) ==
    /\ dialog = None /\ ui.char # None /\ ui.state # None /\ CanCall
    /\ ~ui.saving /\ ~ui.listing /\ Fresh(id)
    /\ presets' = presets \cup
          {[id |-> id, char |-> ui.char, for |-> ui.char, content |-> ui.state.content]}
    /\ ui' = Saving
    /\ writes' = Append(writes, [kind |-> "presets", char |-> ui.char])
    /\ UNCHANGED <<scores, replies, dialog, failed>>

\* A copy belongs to the character of its original, whichever the page shows.
ClonePreset(id, new) ==
    /\ dialog = None /\ ui.state # None /\ CanCall
    /\ id \in ui.listed /\ Exists(id) /\ Fresh(new)
    /\ presets' = presets \cup {[PresetOf(id) EXCEPT !.id = new]}
    /\ ui' = Saving
    /\ writes' = Append(writes, [kind |-> "presets", char |-> ui.char])
    /\ UNCHANGED <<scores, replies, dialog, failed>>

\* Renaming an existing preset saves and lists the presets again.
RenamePreset(id) ==
    /\ dialog = None /\ ui.state # None /\ CanCall
    /\ id \in ui.listed /\ Exists(id)
    /\ ui' = Saving
    /\ writes' = Append(writes, [kind |-> "presets", char |-> ui.char])
    /\ UNCHANGED <<scores, presets, replies, dialog, failed>>

\* not_found: the page shows the error.
PresetGone(id) ==
    /\ dialog = None /\ ui.state # None
    /\ id \in ui.listed /\ ~Exists(id)
    /\ ui' = [ui EXCEPT !.saving = FALSE]
    /\ UNCHANGED <<scores, presets, replies, writes, dialog, failed>>

ApplyPreset(id) ==
    /\ dialog = None /\ ui.state # None /\ CanCall
    /\ id \in ui.listed /\ Exists(id)
    /\ ui' = Saving
    /\ replies' = Append(replies, [kind |-> "preset", content |-> PresetOf(id).content])
    /\ UNCHANGED <<scores, presets, writes, dialog, failed>>

DeletePreset(id) ==
    /\ dialog = None /\ ui.state # None /\ CanCall
    /\ id \in ui.listed
    /\ presets' = {p \in presets : p.id # id}
    /\ ui' = Saving
    /\ writes' = Append(writes, [kind |-> "presets", char |-> ui.char])
    /\ UNCHANGED <<scores, replies, dialog, failed>>

\* The handler resolves the character, then shows the dialog, which keeps the
\* user from the page but not the active character from changing.
ImportPresets ==
    /\ dialog = None /\ ui.char # None /\ ui.state # None /\ CanCall
    /\ dialog' = ui.char
    /\ ui' = Saving
    /\ UNCHANGED <<scores, presets, replies, writes, failed>>

ImportCancelled ==
    /\ dialog # None
    /\ dialog' = None
    /\ ui' = [ui EXCEPT !.saving = FALSE]
    /\ UNCHANGED <<scores, presets, replies, writes, failed>>

\* Variant: the character is resolved once a file is chosen.
ImportChosenForActive(ids, content) ==
    /\ dialog # None /\ ui.char # None /\ CanCall
    /\ \A id \in ids : Fresh(id)
    /\ presets' = presets \cup
          {[id |-> id, char |-> ui.char, for |-> dialog, content |-> content] : id \in ids}
    /\ writes' = Append(writes, [kind |-> "presets", char |-> dialog])
    /\ dialog' = None
    /\ UNCHANGED <<scores, ui, replies, failed>>

\* The presets of the file chosen are inserted one by one, without a
\* transaction; all have the same content here.
ImportChosen(ids, content) ==
    /\ dialog # None /\ CanCall
    /\ \A id \in ids : Fresh(id)
    /\ presets' = presets \cup
          {[id |-> id, char |-> dialog, for |-> dialog, content |-> content] : id \in ids}
    /\ writes' = Append(writes, [kind |-> "presets", char |-> dialog])
    /\ dialog' = None
    /\ UNCHANGED <<scores, ui, replies, failed>>

\* The file is no JSON, or an insertion throws after some: what was inserted
\* stays in memory, unsaved, and the page shows the error.
ImportFails(ids, content) ==
    /\ dialog # None
    /\ \A id \in ids : Fresh(id)
    /\ presets' = presets \cup
          {[id |-> id, char |-> dialog, for |-> dialog, content |-> content] : id \in ids}
    /\ dialog' = None
    /\ ui' = [ui EXCEPT !.saving = FALSE]
    /\ UNCHANGED <<scores, replies, writes, failed>>

-----------------------------------------------------------------------------
ScoreNext ==
    \/ \E c \in Chars \cup {None} : Switch(c)
    \/ Reload \/ Save \/ Reset
    \/ \E content \in Contents : Edit(content)
    \/ ReplyArrives
    \/ \E ok \in BOOLEAN : Persisted(ok)
    \/ \E id \in PresetIds :
          \/ CreatePreset(id) \/ RenamePreset(id) \/ PresetGone(id)
          \/ ApplyPreset(id) \/ DeletePreset(id)
          \/ \E new \in PresetIds : ClonePreset(id, new)
    \/ ImportPresets \/ ImportCancelled
    \/ \E ids \in SUBSET PresetIds, content \in Contents :
          ImportChosen(ids, content) \/ ImportFails(ids, content)

ScoreSpec == ScoreInit /\ [][ScoreNext]_scoreVars

-----------------------------------------------------------------------------
(***************************************************************************)
(* Properties.                                                             *)
(***************************************************************************)

\* A preset belongs to the character the user made it for, whichever was
\* active when the dialog closed or the copy was made (importJson, clone).
PresetsForTheChosen == \A p \in presets : p.char = p.for

\* When nothing is under way and no save has failed, a page that says "saved"
\* shows what is stored for the character the score was loaded for, over
\* edits, resets, presets and switches that overlap the calls.
SavedIsStored ==
    replies = << >> /\ writes = << >> /\ ~failed /\ ui.state # None /\ ~IsDirty
        => ui.state.content = GetBuildScore(scores, ui.state.of)
=============================================================================
