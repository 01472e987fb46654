----------------------------- MODULE TaskProgress -----------------------------
(***************************************************************************)
(* What a user is told of the tasks of a document: the pie, its tooltip and *)
(* the banner (transcription_progress.tsx), and the queue of the desktop    *)
(* application (home.tsx).  `tasks' is what the page was last told; how it   *)
(* changes is up to the backend and the workers.                            *)
(***************************************************************************)
EXTENDS Integers, Functions

CONSTANTS
    Steps,      \* a task is through after so many steps
    ModelSize   \* of the model to download, in parts

ASSUME ProgressAssumption == Steps \in Nat \ {0} /\ ModelSize \in Nat

VARIABLES
    tasks,      \* type -> state and progress of its current attempt; 0 is none
    download    \* parts of the model that were loaded; -1 is no download

progressVars == <<tasks, download>>

Types == {"IDENTIFY_SPEAKERS", "TRANSCRIBE", "REENCODE", "EXPORT"}
States == {"NEW", "ASSIGNED", "COMPLETED", "FAILED", "ABORTED"}

ProgressTypeOK ==
    /\ DOMAIN tasks \subseteq Types
    /\ Range(tasks) \subseteq [state : States, progress : 0 .. Steps]
    /\ download \in -1 .. ModelSize

\* Speakers may not be asked for; an imported document is only encoded anew.
ProgressInit ==
    /\ \E types \in {{"TRANSCRIBE", "REENCODE"}, {"REENCODE"},
                     {"TRANSCRIBE", "REENCODE", "IDENTIFY_SPEAKERS"}} :
          tasks = [t \in types |-> [state |-> "NEW", progress |-> 0]]
    /\ download = -1

----------------------------------------------------------------------------
(* The tasks.                                                              *)

\* What a task depends on is completed first: speakers are identified after the
\* transcription.  Where that in turn waits for the media to be encoded anew (on
\* the server, not in the desktop application), less is possible.
Ready(t) == t = "IDENTIFY_SPEAKERS" => tasks["TRANSCRIBE"].state = "COMPLETED"

Becomes(t, state, progress) ==
    tasks' = [tasks EXCEPT ![t] = [state |-> state, progress |-> progress]]

Started(t) ==
    /\ tasks[t].state = "NEW" /\ Ready(t)
    /\ Becomes(t, "ASSIGNED", 0)
    /\ download' \in {download} \cup (IF t = "TRANSCRIBE" THEN {0} ELSE {})

Downloaded ==
    /\ download \in 0 .. ModelSize - 1
    /\ download' = download + 1
    /\ UNCHANGED tasks

Progressed(t) ==
    /\ tasks[t].state = "ASSIGNED" /\ tasks[t].progress < Steps
    /\ t = "TRANSCRIBE" => download \in {-1, ModelSize}
    /\ Becomes(t, "ASSIGNED", tasks[t].progress + 1)
    /\ download' = IF t = "TRANSCRIBE" THEN -1 ELSE download

\* What was reported last stays when the task is completed.
Ended(t) ==
    /\ tasks[t].state = "ASSIGNED"
    /\ \E state \in {"COMPLETED", "FAILED", "NEW", "ABORTED"} :
          Becomes(t, state, IF state = "NEW" THEN 0 ELSE tasks[t].progress)
    /\ download' = IF t = "TRANSCRIBE" THEN -1 ELSE download

ExportAsked ==
    /\ "EXPORT" \notin DOMAIN tasks
    /\ tasks' = [t \in DOMAIN tasks \cup {"EXPORT"} |->
                   IF t = "EXPORT" THEN [state |-> "NEW", progress |-> 0] ELSE tasks[t]]
    /\ UNCHANGED download

ProgressNext ==
    \/ \E t \in DOMAIN tasks : Started(t) \/ Progressed(t) \/ Ended(t)
    \/ Downloaded \/ ExportAsked

ProgressSpec == ProgressInit /\ [][ProgressNext]_progressVars

----------------------------------------------------------------------------
(* What is shown.                                                          *)

SomeTask(states) == \E t \in DOMAIN tasks : tasks[t].state \in states
InQueue == "TRANSCRIBE" \in DOMAIN tasks /\ tasks["TRANSCRIBE"].state = "NEW"

\* Mutant: the identification of speakers counts as little as an export.
Mutant_Weight(t) == CASE t = "TRANSCRIBE" -> 20 [] t = "REENCODE" -> 1 [] OTHER -> 0

Weight(t) == CASE t = "TRANSCRIBE" -> 20 [] t = "EXPORT" -> 0 [] OTHER -> 1

StepsDone(t) ==
    IF tasks[t].progress # 0 THEN tasks[t].progress
    ELSE IF tasks[t].state = "COMPLETED" THEN Steps ELSE 0

\* The weighted sum over the tasks there are.
Weighted(value) ==
    LET Share(t) == IF t \in DOMAIN tasks THEN Weight(t) * value[t] ELSE 0
    IN  Share("TRANSCRIBE") + Share("REENCODE") + Share("IDENTIFY_SPEAKERS") + Share("EXPORT")

\* calculateTranscriptionProgress as numerator and denominator; without weights
\* (exports only) there is nothing to divide by.
Numerator == Weighted([t \in DOMAIN tasks |-> StepsDone(t)])
Denominator == Weighted([t \in DOMAIN tasks |-> Steps])
Done == Numerator = Denominator

\* The model is being downloaded until all of it is there.
WaitingForDownload == download \notin {-1, ModelSize}

\* TranscriptionProgressIndicator, and the pie it draws: a tenth at least, a tick
\* at the end.
Indicator(waiting) ==
    IF waiting THEN "waiting"
    ELSE IF SomeTask({"ABORTED", "FAILED"}) THEN "failed"
    ELSE IF InQueue THEN "in queue"
    ELSE IF Done THEN "done" ELSE "progress"

ProgressPie == IF Done THEN "ticked" ELSE IF 10 * Numerator < Denominator THEN "tenth" ELSE "part"

\* DocumentNotFinishedBanner.
Banner ==
    IF ~SomeTask(States \ {"COMPLETED"}) THEN "none"
    ELSE IF SomeTask({"ABORTED"}) THEN "aborted"
    ELSE IF SomeTask({"FAILED"}) THEN "failed"
    ELSE IF InQueue THEN "in queue" ELSE "progress"

----------------------------------------------------------------------------
(* Properties.                                                             *)

\* The banner and the picture in it agree about what failed and about what is
\* queued.  Of the rest they may differ: when all tasks have reported their last
\* step and are not yet completed, the banner says "in progress (100%)" around a
\* green pie that is ticked.
BannerFitsIndicator ==
    /\ Banner \in {"aborted", "failed"} <=> Indicator(FALSE) = "failed"
    /\ Banner = "in queue" <=> Indicator(FALSE) = "in queue"

\* "Transcription done" is said only when every task that counts is completed or
\* has reported its last step, however the weighted sum comes about.
DoneMeansDone ==
    Indicator(WaitingForDownload) = "done" =>
        \A t \in DOMAIN tasks : t # "EXPORT" =>
            \/ tasks[t].state = "COMPLETED"
            \/ tasks[t].state = "ASSIGNED" /\ tasks[t].progress = Steps

ProgressIsHonest == BannerFitsIndicator /\ DoneMeansDone

=============================================================================
