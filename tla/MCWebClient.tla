----------------------------- MODULE MCWebClient -----------------------------
(***************************************************************************)
(* The parts of the user interface that share no state, for TLC: a behaviour *)
(* uses one of them, while the others stay as they are when nothing has      *)
(* happened yet.                                                            *)
(***************************************************************************)
EXTENDS AudioPlayer, SpeakerEditing, TranscriptExport, Widgets, WebPages, TaskProgress, TLC

VARIABLE part

WordsAt == <<0, 2>>

\* Times of an atom: none, from zero, regular, the wrong way round, and half.
SpokenAtoms ==
         {[start |-> t[1], end |-> t[2], length |-> 1] :
            t \in {<<-1, -1>>, <<0, 1>>, <<1, 2>>, <<2, 1>>, <<-1, 2>>}}
    \cup {[start |-> 1, end |-> 2, length |-> 2]}
OneAtom == [start |-> 1, end |-> 2, length |-> 1]
SomeTranscripts ==
         {<<[speaker |-> "Ada", children |-> c]>> : c \in SeqOf(SpokenAtoms, 3)}
    \cup SeqOf([speaker : {"null", "Ada", "Bob"}, children : {<<>>, <<OneAtom>>}], 3)

FileMenu ==
       "save" :> [key |-> "s", shift |-> FALSE] @@ "save_as" :> [key |-> "s", shift |-> TRUE]
    @@ "undo" :> [key |-> "z", shift |-> FALSE]

Uses(p) == part = p

ClientInit ==
    /\ part \in {"player", "speakers", "export", "widgets", "pages", "progress"}
    /\ PlayerInit /\ (Uses("player") \/ ui.rate = 1)
    /\ EditingInit /\ (Uses("speakers") \/ (~readOnly /\ speakerNames = <<>>
                                             /\ \A i \in DOMAIN children : children[i].speaker = Nobody))
    /\ ExportInit /\ (Uses("export") \/ (transcript = <<>> /\ podlove.episode \in Existing))
    /\ WidgetsInit /\ (Uses("widgets") \/ Is("picker"))
    /\ WebInit /\ (Uses("pages") \/ (page = "login" /\ auth = 0 /\ topic = "me"))
    /\ ProgressInit /\ (Uses("progress") \/ DOMAIN tasks = {"REENCODE"})

ClientNext ==
    /\ UNCHANGED part
    /\ \/ /\ Uses("player") /\ PlayerNext
          /\ UNCHANGED <<editingVars, exportVars, widget, webVars, progressVars>>
       \/ /\ Uses("speakers") /\ EditingNext
          /\ UNCHANGED <<playerVars, exportVars, widget, webVars, progressVars>>
       \/ /\ Uses("export") /\ ExportNext
          /\ UNCHANGED <<playerVars, editingVars, widget, webVars, progressVars>>
       \/ /\ Uses("widgets") /\ WidgetsNext
          /\ UNCHANGED <<playerVars, editingVars, exportVars, webVars, progressVars>>
       \/ /\ Uses("pages") /\ WebNext
          /\ UNCHANGED <<playerVars, editingVars, exportVars, widget, progressVars>>
       \/ /\ Uses("progress") /\ ProgressNext
          /\ UNCHANGED <<playerVars, editingVars, exportVars, widget, webVars>>

clientVars ==
    <<part, playerVars, editingVars, exportVars, widget, webVars, progressVars>>

ClientSpec == ClientInit /\ [][ClientNext]_clientVars

\* The part that is used keeps to its type.
ClientTypeOK ==
    /\ Uses("player") => PlayerTypeOK
    /\ Uses("speakers") => EditingTypeOK
    /\ Uses("export") => ExportTypeOK
    /\ Uses("widgets") => WidgetsTypeOK
    /\ Uses("pages") => WebTypeOK
    /\ Uses("progress") => ProgressTypeOK

\* What the widgets settle to, and what is said of the tasks: the two small parts.
PartsTellTruth == WidgetsSettle /\ ProgressIsHonest

==============================================================================
