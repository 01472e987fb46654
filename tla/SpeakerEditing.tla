--------------------------- MODULE SpeakerEditing ---------------------------
(***************************************************************************)
(* Who speaks: the speaker dropdowns in a transcript (speaker_dropdown.tsx, *)
(* document.ts) and the paragraphs they stand in (transcription_editor.tsx), *)
(* while others edit the same document, name and choose its speakers.       *)
(*                                                                         *)
(* Slate's nodes are immutable: an edit makes a new object of a paragraph.  *)
(* A dialog keeps the object its paragraph was when it was opened, and      *)
(* ReactEditor.findPath answers for any object with the index at which it   *)
(* was last rendered: a dialog is stale when its paragraph has become another *)
(* object, and its index is then no longer kept up to date.                 *)
(***************************************************************************)
EXTENDS Integers, Sequences, FiniteSets, SequencesExt

CONSTANTS
    Options,        \* speaker_name_options of the URL
    Names,          \* what users type into the dialogs; "" stands for nothing
    MaxSpeakers,    \* bound: speakers created
    MaxEdits        \* bound: changes of others

ASSUME EditingAssumption == MaxSpeakers \in Nat \ {0} /\ MaxEdits \in Nat

VARIABLES
    readOnly,       \* may the user only read?
    children,       \* doc.children
    speakerNames,   \* doc.speaker_names, a function on the ids given so far
    dialog,         \* the open dialog, with the object and index of its paragraph
    edits           \* history: changes of others so far

editingVars == <<readOnly, children, speakerNames, dialog, edits>>

Nobody == 0
Speakers == 0 .. MaxSpeakers
NoDialog == [kind |-> "none"]
Paragraph(id, speaker) == [id |-> id, speaker |-> speaker]

SpeakerIds == {children[i].speaker : i \in DOMAIN children}

\* A random UUID is neither the id of a speaker with a name nor one that the
\* worker gave to a paragraph.
FreshIds == 1 .. MaxSpeakers \ (DOMAIN speakerNames \cup SpeakerIds)
FreshId == CHOOSE s \in FreshIds : TRUE
CanAdd == FreshIds # {}
Ids == 1 .. 2 + MaxEdits

EditingTypeOK ==
    /\ readOnly \in BOOLEAN
    /\ \A i \in DOMAIN children :
          children[i] \in [id : Ids, speaker : Speakers]
    /\ IsInjective([i \in DOMAIN children |-> children[i].id])
    /\ DOMAIN speakerNames \subseteq 1 .. MaxSpeakers
    /\ dialog.kind \in {"none", "new", "rename"}
    /\ edits \in 0 .. MaxEdits

EditingInit ==
    /\ readOnly \in BOOLEAN
    /\ \E a, b \in {Nobody, 1} : children = <<Paragraph(1, a), Paragraph(2, b)>>
    /\ speakerNames \in {<<>>} \cup [{1} -> Names \ {""}]
    /\ dialog = NoDialog
    /\ edits = 0

----------------------------------------------------------------------------
(* What is shown.                                                          *)

GetSpeakerName(s) ==
    CASE s = Nobody -> "Unknown Speaker"
      [] s \in DOMAIN speakerNames -> speakerNames[s]
      [] OTHER -> "Unnamed Speaker"

\* useSpeakerNames: only speakers of some paragraph are offered.
SpeakersInUse == SpeakerIds \ {Nobody}

\* Mutant: names of the URL are offered although a speaker in use has them.
Mutant_AdditionalSpeakers == Options

\* Names of the URL that no speaker in use has.
AdditionalSpeakers == Options \ {GetSpeakerName(s) : s \in SpeakersInUse}

----------------------------------------------------------------------------
(* Changes of the document.                                                *)

\* calculateParagraphIdxOfSpeakerEnd
SpeakerEnd(idx) ==
    CHOOSE end \in idx .. Len(children) :
        /\ \A i \in idx .. end : children[i].speaker = children[idx].speaker
        /\ end = Len(children) \/ children[end + 1].speaker # children[idx].speaker

\* From a paragraph to the end of what its speaker says.
SetSpeaker(idx, speaker) ==
    children' = [i \in DOMAIN children |->
                   IF i \in idx .. SpeakerEnd(idx)
                   THEN [children[i] EXCEPT !.speaker = speaker]
                   ELSE children[i]]

ChangeSpeakerName(speaker, name) ==
    speakerNames' = [s \in DOMAIN speakerNames \cup {speaker} |->
                       IF s = speaker THEN name ELSE speakerNames[s]]

AddNewSpeaker(name) == ChangeSpeakerName(FreshId, name)

\* Mutant: the path is looked up when the dialog opens.
Mutant_Rendered(d, paragraphs, edited) ==
    IF d.kind = "new" /\ d.id \in edited THEN [d EXCEPT !.stale = TRUE] ELSE d

\* What findPath answers after others have changed the document: an object that
\* is rendered again gets its new index, one that was replaced keeps the last.
Rendered(d, paragraphs, edited) ==
    IF d.kind # "new" \/ d.stale THEN d
    ELSE LET here == {i \in DOMAIN paragraphs : paragraphs[i].id = d.id}
         IN  IF d.id \in edited \/ here = {} THEN [d EXCEPT !.stale = TRUE]
             ELSE [d EXCEPT !.index = CHOOSE i \in here : TRUE]

----------------------------------------------------------------------------
(* The dropdown of paragraph i.                                            *)

CanChoose == ~readOnly /\ dialog = NoDialog

ChooseSpeaker(i) ==
    /\ CanChoose
    /\ \E s \in SpeakersInUse : SetSpeaker(i, s)
    /\ UNCHANGED <<readOnly, speakerNames, dialog, edits>>

ChooseOption(i) ==
    /\ CanChoose /\ CanAdd
    /\ \E name \in AdditionalSpeakers : AddNewSpeaker(name)
    /\ SetSpeaker(i, FreshId)
    /\ UNCHANGED <<readOnly, dialog, edits>>

UnsetSpeaker(i) ==
    /\ CanChoose /\ children[i].speaker # Nobody
    /\ SetSpeaker(i, Nobody)
    /\ UNCHANGED <<readOnly, speakerNames, dialog, edits>>

OpenNewSpeaker(i) ==
    /\ CanChoose
    /\ dialog' = [kind |-> "new", id |-> children[i].id, index |-> i, stale |-> FALSE]
    /\ UNCHANGED <<readOnly, children, speakerNames, edits>>

OpenRename(i) ==
    /\ CanChoose /\ children[i].speaker # Nobody
    /\ dialog' = [kind |-> "rename", speaker |-> children[i].speaker]
    /\ UNCHANGED <<readOnly, children, speakerNames, edits>>

\* Cancelled, or submitted without a name.
CloseDialog ==
    /\ dialog # NoDialog
    /\ dialog' = NoDialog
    /\ UNCHANGED <<readOnly, children, speakerNames, edits>>

\* The index may be stale; beyond the end setSpeaker throws and only the name
\* is there.
SubmitNewSpeaker(name) ==
    /\ dialog.kind = "new" /\ name # "" /\ CanAdd
    /\ AddNewSpeaker(name)
    /\ IF dialog.index \in DOMAIN children
       THEN SetSpeaker(dialog.index, FreshId)
       ELSE UNCHANGED children
    /\ dialog' = NoDialog
    /\ UNCHANGED <<readOnly, edits>>

\* An empty name is accepted here.
SubmitRename(name) ==
    /\ dialog.kind = "rename"
    /\ ChangeSpeakerName(dialog.speaker, name)
    /\ dialog' = NoDialog
    /\ UNCHANGED <<readOnly, children, edits>>

----------------------------------------------------------------------------
\* Somebody else edits, splits or removes a paragraph.
OthersEdit ==
    /\ edits < MaxEdits
    /\ edits' = edits + 1
    /\ \E i \in DOMAIN children :
          \/ /\ UNCHANGED children
             /\ dialog' = Rendered(dialog, children, {children[i].id})
          \/ /\ children' \in {InsertAt(children, i, Paragraph(3 + edits, children[i].speaker)),
                              RemoveAt(children, i)}
             /\ children' # <<>>
             /\ dialog' = Rendered(dialog, children', {})
    /\ UNCHANGED <<readOnly, speakerNames>>

\* Somebody else, or the worker that tells speakers apart, says of some paragraphs
\* who speaks there, names a speaker, or both.  What is set for a range of another
\* version of the document may come to stand apart in this one.
OthersSpeak ==
    /\ edits < MaxEdits
    /\ edits' = edits + 1
    /\ \E chosen \in SUBSET DOMAIN children, speaker \in Speakers :
          /\ children' = [i \in DOMAIN children |->
                            IF i \in chosen THEN [children[i] EXCEPT !.speaker = speaker]
                            ELSE children[i]]
          /\ dialog' = Rendered(dialog, children', {children[i].id : i \in chosen})
          /\ \/ UNCHANGED speakerNames
             \/ /\ speaker # Nobody
                /\ \E name \in Names \cup Options : ChangeSpeakerName(speaker, name)
    /\ UNCHANGED readOnly

----------------------------------------------------------------------------
EditingNext ==
    \/ \E i \in DOMAIN children :
          \/ ChooseSpeaker(i) \/ ChooseOption(i) \/ UnsetSpeaker(i)
          \/ OpenNewSpeaker(i) \/ OpenRename(i)
    \/ CloseDialog
    \/ \E name \in Names : SubmitNewSpeaker(name) \/ SubmitRename(name)
    \/ OthersEdit
    \/ OthersSpeak

EditingSpec == EditingInit /\ [][EditingNext]_editingVars

----------------------------------------------------------------------------
(* Properties.                                                             *)

\* The speaker entered in a dialog goes to the paragraph the dialog was opened
\* for, wherever it has moved meanwhile, as long as nobody edited that
\* paragraph itself; and paragraphs before it are left alone.
NewSpeakerHitsParagraph ==
    [][\A i \in DOMAIN children :
          /\ dialog.kind = "new" /\ dialog' = NoDialog /\ speakerNames' # speakerNames
          /\ children[i].id = dialog.id /\ ~dialog.stale
          => /\ children'[i].speaker \in DOMAIN speakerNames' \ DOMAIN speakerNames
             /\ \A j \in 1 .. i - 1 : children'[j] = children[j]]_editingVars

\* What is chosen in the dropdown (anything but a dialog) never makes two speakers
\* of the transcript have one name who did not have it before, whoever of them was
\* named, dropped or typed by whom.  Two users who choose or type one name at the
\* same time, and a user who types a name that is there, do make two speakers of
\* it: nothing in the code prevents that.
ChoicesKeepSpeakersApart ==
    [][\A s, t \in SpeakersInUse' :
          /\ edits' = edits /\ dialog' = dialog
          /\ s # t /\ GetSpeakerName(s)' = GetSpeakerName(t)'
          => /\ {s, t} \subseteq SpeakersInUse
             /\ GetSpeakerName(s) = GetSpeakerName(t)]_editingVars

=============================================================================
