-------------------------- MODULE TranscriptExport --------------------------
(***************************************************************************)
(* The dialog "Export as ..." (editor/export/*.tsx): subtitles              *)
(* (utils/export/webvtt.ts), plain text (utils/export/plaintext.ts), and    *)
(* the upload of subtitles to Podlove (export_to_podlove.ts).               *)
(*                                                                         *)
(* An atom, which always has a text, keeps what the formats look at: its     *)
(* times and its length.  What is written is kept as a structure, not as    *)
(* text: cues with their atoms, lines with what they say.  Options are      *)
(* chosen when they are used.                                               *)
(***************************************************************************)
EXTENDS Integers, Sequences, FiniteSets, SequencesExt

CONSTANTS
    Transcripts,    \* the documents to export
    LineLimits,     \* what the length field holds; 0 for a field without a number
    Episodes,       \* settings of the upload that users enter
    Existing,       \* those for which Podlove knows the episode
    MaxSettings     \* bound: changes of these settings

NoTime == -1
Atoms == [start : Nat \cup {NoTime}, end : Nat \cup {NoTime}, length : Nat]

ASSUME ExportAssumption ==
    /\ LineLimits \subseteq Nat /\ Existing \subseteq Episodes /\ MaxSettings \in Nat
    /\ Transcripts \subseteq Seq([speaker : STRING, children : Seq(Atoms)])

VARIABLES
    transcript,     \* editor.doc.children
    exported,       \* what was handed to downloadFn or pushed last, or failed
    podlove,        \* settings, checks under way, podloveExportPossible, bound
    pushing,        \* settings of the upload under way
    posted,         \* settings with which subtitles have been posted
    open            \* is the dialog open?

exportVars == <<transcript, exported, podlove, pushing, posted, open>>

NoFile == [kind |-> "none"]

----------------------------------------------------------------------------
(* webvtt.ts                                                               *)

HasNumber(children, field) == \E k \in DOMAIN children : children[k][field] # NoTime

CanGenerateVtt(paragraphs) ==
    \A i \in DOMAIN paragraphs : /\ HasNumber(paragraphs[i].children, "start")
                                 /\ HasNumber(paragraphs[i].children, "end")

EmptyCue == [start |-> NoTime, end |-> NoTime, atoms |-> <<>>, length |-> 0]

\* Zero counts as no time here, as undefined does.
Earlier(start, atom) ==
    IF atom.start > 0 /\ (start = NoTime \/ atom.start < start) THEN atom.start ELSE start

Later(end, atom) ==
    IF atom.end > 0 /\ (end = NoTime \/ atom.end > end) THEN atom.end ELSE end

IsTimed(cue) == cue.start # NoTime /\ cue.end # NoTime

\* createVttCue: a cue lasts.
CreateVttCue(cue) == [cue EXCEPT !.end = IF cue.start >= @ THEN cue.start + 1 ELSE @]

Extend(cue, k, atom) ==
    [start |-> Earlier(cue.start, atom), end |-> Later(cue.end, atom),
     atoms |-> Append(cue.atoms, k), length |-> cue.length + atom.length]

\* What the loop has after its k-th atom: the cues made, and the one begun.
AddAtom(made, k, atom, limit) ==
    IF limit # 0 /\ IsTimed(made.cue) /\ made.cue.length + atom.length > limit
    THEN [cues |-> Append(made.cues, CreateVttCue(made.cue)), cue |-> Extend(EmptyCue, k, atom)]
    ELSE [cues |-> made.cues, cue |-> Extend(made.cue, k, atom)]

ParagraphToCues(children, limit) ==
    LET made[k \in 0 .. Len(children)] ==
            IF k = 0 THEN [cues |-> <<>>, cue |-> EmptyCue]
            ELSE AddAtom(made[k - 1], k, children[k], limit)
        all == made[Len(children)]
    IN  [timed |-> IsTimed(all.cue), cues |-> Append(all.cues, CreateVttCue(all.cue))]

GenerateWebVtt(paragraphs, limit) ==
    [i \in DOMAIN paragraphs |->
        IF paragraphs[i].children = <<>> THEN [timed |-> TRUE, cues |-> <<>>]
        ELSE ParagraphToCues(paragraphs[i].children, limit)]

\* "Paragraph contains no timings"
Throws(parts) == \E i \in DOMAIN parts : ~parts[i].timed

----------------------------------------------------------------------------
(* plaintext.ts                                                            *)

\* Mutant: the name is left out when a paragraph follows one without a speaker.
Mutant_LastSpeaker(paragraphs, i) ==
    IF i = 1 \/ paragraphs[i - 1].speaker = "null" THEN paragraphs[i].speaker
    ELSE paragraphs[i - 1].speaker

LastSpeaker(paragraphs, i) == IF i = 1 THEN "null" ELSE paragraphs[i - 1].speaker

\* The lines of paragraph i; none when nothing would be printed.
Lines(paragraphs, i, names, times) ==
    LET before == LastSpeaker(paragraphs, i)
        changes == before # paragraphs[i].speaker
        If(c, line) == IF c THEN <<line>> ELSE <<>>
    IN     If(before # "null" /\ ((names /\ changes) \/ (times /\ ~names)), <<"blank">>)
        \o If(times /\ (changes \/ ~names), <<"time", i>>)
        \o If(names /\ changes, <<"name", paragraphs[i].speaker>>)
        \o If(paragraphs[i].children # <<>>, <<"text", i>>)

\* With times an empty paragraph has no first atom to take the time from.
GeneratePlaintext(paragraphs, names, times) ==
    FlattenSeq([i \in DOMAIN paragraphs |-> Lines(paragraphs, i, names, times)])

PlaintextThrows(paragraphs, names, times) ==
    \E i \in DOMAIN paragraphs :
        /\ times /\ paragraphs[i].children = <<>>
        /\ ~names \/ LastSpeaker(paragraphs, i) # paragraphs[i].speaker

----------------------------------------------------------------------------
ExportTypeOK ==
    /\ transcript \in Transcripts
    /\ exported.kind \in {"none", "subtitles", "txt", "error"}
    /\ podlove \in [episode : Episodes, asked : SUBSET Episodes, possible : BOOLEAN,
                    changes : 0 .. MaxSettings]
    /\ pushing \in Episodes \cup {"none"}
    /\ posted \subseteq Episodes
    /\ open \in BOOLEAN

ExportInit ==
    /\ transcript \in Transcripts
    /\ exported = NoFile
    /\ \E episode \in Episodes :
          podlove = [episode |-> episode, asked |-> {}, possible |-> FALSE, changes |-> 0]
    /\ pushing = "none"
    /\ posted = {}
    /\ open = TRUE

\* Submit of the subtitles form.  The limit applies whether or not the
\* checkbox "Limit line length" is set: only the field is passed on.  The dialog
\* closes unless an exception leaves the handler.
Subtitles(limit) ==
    LET parts == GenerateWebVtt(transcript, limit)
    IN  /\ exported' = [kind |-> IF Throws(parts) THEN "error" ELSE "subtitles",
                        parts |-> parts, limit |-> limit]
        /\ open' = Throws(parts)

ExportSubtitles ==
    /\ open /\ CanGenerateVtt(transcript)
    /\ \E limit \in LineLimits : Subtitles(limit)
    /\ UNCHANGED <<transcript, podlove, pushing, posted>>

ExportPlaintext ==
    /\ open
    /\ \E names, times \in BOOLEAN :
          /\ open' = PlaintextThrows(transcript, names, times)
          /\ exported' = [kind |-> IF open' THEN "error" ELSE "txt", names |-> names,
                          lines |-> GeneratePlaintext(transcript, names, times)]
    /\ UNCHANGED <<transcript, podlove, pushing, posted>>

\* The effect of a changed setting asks Podlove; earlier questions stay open.
EnterSettings ==
    /\ open /\ podlove.changes < MaxSettings
    /\ \E episode \in Episodes :
          podlove' = [podlove EXCEPT !.episode = episode, !.asked = @ \cup {episode},
                                     !.changes = @ + 1]
    /\ UNCHANGED <<transcript, exported, pushing, posted, open>>

\* Answers come in any order, and the last to come counts; no answer is a no.
SettingsChecked ==
    /\ open
    /\ \E asked \in podlove.asked, reached \in BOOLEAN :
          podlove' = [podlove EXCEPT !.asked = @ \ {asked},
                                     !.possible = reached /\ asked \in Existing]
    /\ UNCHANGED <<transcript, exported, pushing, posted, open>>

ExportPodlove ==
    /\ open /\ CanGenerateVtt(transcript) /\ podlove.possible
    /\ \E limit \in LineLimits : Subtitles(limit)
    /\ pushing' = IF open' THEN pushing ELSE podlove.episode
    /\ UNCHANGED <<transcript, podlove, posted>>

\* Mutant: subtitles are posted without looking for the episode again.
Mutant_PushToPodlove ==
    /\ pushing # "none"
    /\ posted' = posted \cup {pushing}
    /\ pushing' = "none"
    /\ UNCHANGED <<transcript, exported, podlove, open>>

\* pushToPodlove looks for the episode once more before it posts.
PushToPodlove ==
    /\ pushing # "none"
    /\ \E reached \in BOOLEAN :
          posted' = IF reached /\ pushing \in Existing
                    THEN posted \cup {pushing} ELSE posted
    /\ pushing' = "none"
    /\ UNCHANGED <<transcript, exported, podlove, open>>

\* Cancel, or a click beside the dialog.
CloseExport ==
    /\ open
    /\ open' = FALSE
    /\ UNCHANGED <<transcript, exported, podlove, pushing, posted>>

ExportNext ==
    \/ ExportSubtitles \/ ExportPlaintext \/ EnterSettings \/ SettingsChecked
    \/ ExportPodlove \/ PushToPodlove \/ CloseExport

ExportSpec == ExportInit /\ [][ExportNext]_exportVars

----------------------------------------------------------------------------
(* Properties.                                                             *)

TotalLength(children, atoms) ==
    LET total[k \in 0 .. Len(atoms)] ==
            IF k = 0 THEN 0 ELSE total[k - 1] + children[atoms[k]].length
    IN  total[Len(atoms)]

\* The atoms that come before the last one of a cue have a start and an end.
TimedBefore(children, atoms) ==
    /\ \E k \in DOMAIN atoms : k < Len(atoms) /\ children[atoms[k]].start > 0
    /\ \E k \in DOMAIN atoms : k < Len(atoms) /\ children[atoms[k]].end > 0

CueIsSound(children, cue, limit) ==
    /\ cue.start < cue.end
    /\ \A k \in DOMAIN cue.atoms :
          LET atom == children[cue.atoms[k]]
          IN  /\ atom.start > 0 => cue.start <= atom.start
              /\ atom.end > 0 => atom.end <= cue.end
    /\ \A k \in DOMAIN cue.atoms :
          LET atoms == SubSeq(cue.atoms, 1, k)
          IN  limit # 0 /\ TimedBefore(children, atoms) => TotalLength(children, atoms) <= limit

Untimed(children, cue) ==
    \E field \in {"start", "end"} :
        \A k \in DOMAIN cue.atoms : children[cue.atoms[k]][field] <= 0

PartIsSound(children, part, limit) ==
    /\ FlattenSeq([c \in DOMAIN part.cues |-> part.cues[c].atoms]) = [k \in DOMAIN children |-> k]
    /\ \A c \in DOMAIN part.cues :
          IF c = Len(part.cues) /\ ~part.timed THEN Untimed(children, part.cues[c])
          ELSE CueIsSound(children, part.cues[c], limit)

\* Subtitles have every word of every paragraph once and in order, in cues that
\* last at least as long as their words; a cue is longer than the limit only
\* where it could not be split.  The export fails only when what is left for
\* the last cue of a paragraph has no start or no end, or only zeros.
SubtitlesAreSound ==
    "parts" \in DOMAIN exported =>
        \A i \in DOMAIN transcript :
            PartIsSound(transcript[i].children, exported.parts[i], exported.limit)

\* In plain text with names, going back from a paragraph to the last name one
\* finds who speaks; without any name before it, nobody is known to speak.
PlaintextTellsSpeakers ==
    exported.kind = "txt" /\ exported.names =>
        LET lines == exported.lines
            NamesUpTo(p) == {q \in 1 .. p : lines[q][1] = "name"}
        IN  \A i \in DOMAIN transcript : transcript[i].children # <<>> =>
               \E p \in DOMAIN lines :
                  /\ lines[p] = <<"text", i>>
                  /\ IF NamesUpTo(p) = {} THEN transcript[i].speaker = "null"
                     ELSE lines[CHOOSE q \in NamesUpTo(p) : \A r \in NamesUpTo(p) : r <= q][2]
                            = transcript[i].speaker

\* Subtitles go to no episode but one that Podlove knows under the settings
\* with which they are posted, in whatever order the checks are answered.
PostedWhereFound == posted \subseteq Existing

\* Subtitles and plain text tell who said what, and when, for every transcript the
\* dialog can be opened for; and subtitles are posted only to known episodes.
ExportsAreSound == SubtitlesAreSound /\ PlaintextTellsSpeakers /\ PostedWhereFound

============================================================================
