---------------------------- MODULE AudioPlayer ----------------------------
(***************************************************************************)
(* The player at the bottom of a transcript: useAudio (use_audio.ts), which *)
(* mirrors a <video> element in React state, and PlayerBar (player.tsx).    *)
(*                                                                         *)
(* `element' is what the browser keeps: position, paused, rate, whether the *)
(* sources are loaded, and the events it has queued.  `ui' is React's view. *)
(* Time is counted in ticks: the nudge into a clicked word (1e-6 s) and the *)
(* skips keep their order, not their size.                                  *)
(***************************************************************************)
EXTENDS Integers, Sequences, FiniteSets

CONSTANTS
    Duration,       \* length of the recording
    WordStarts,     \* start of every word of the transcript, 0 is second zero
    Rates,          \* playback rates to choose from; 1 is the default
    MaxEvents,      \* bound: events of the element that wait for React
    MaxSwitches     \* bound: changes of the sources

ASSUME PlayerAssumption ==
    /\ Duration \in Nat \ {0} /\ MaxEvents \in Nat \ {0} /\ MaxSwitches \in Nat
    /\ WordStarts \in Seq(0 .. Duration - 1)
    /\ \A i, j \in DOMAIN WordStarts : i < j => WordStarts[i] + 1 < WordStarts[j]
    /\ 1 \in Rates

VARIABLES
    element,    \* the <video> element
    ui,         \* React state of useAudio and PlayerBar
    last,       \* lastPlaytimeRef
    bar,        \* the seek bar: dragging, and the time under the mouse
    kept,       \* history: where playback must go on once the sources are loaded
    clicked,    \* history: start of the word clicked, while nothing has moved since
    switches    \* history: changes of the sources so far

playerVars == <<element, ui, last, bar, kept, clicked, switches>>

Times == 0 .. Duration
None == -1
Nudge == 1
ShortcutSkip == 3
ButtonSkip == 2
HoldSkip == 1

Clamp(t) == IF t < 0 THEN 0 ELSE IF t > Duration THEN Duration ELSE t

----------------------------------------------------------------------------
(* The element, as the HTML standard and the code's calls have it.  A       *)
(* handler reads the position when it runs, so equal events in a row count  *)
(* as one.                                                                  *)

Queued(e, event) ==
    IF e.events # <<>> /\ e.events[Len(e.events)] = event
    THEN e ELSE [e EXCEPT !.events = Append(@, event)]

Seeked(e, t) == Queued([e EXCEPT !.time = Clamp(t)], "timeupdate")

Played(e) ==
    IF ~e.paused THEN e
    ELSE Queued([e EXCEPT !.paused = FALSE,
                          !.time = IF e.loaded /\ @ = Duration THEN 0 ELSE @], "play")

Halted(e) == IF e.paused THEN e ELSE Queued([e EXCEPT !.paused = TRUE], "pause")

\* load() drops queued events, stops, rewinds, and sets the default rate.
Emptied(e) == [e EXCEPT !.time = 0, !.paused = TRUE, !.loaded = FALSE,
                        !.rate = 1, !.events = <<>>]

NewElement == [time |-> 0, paused |-> TRUE, loaded |-> FALSE, rate |-> 1, events |-> <<>>]

----------------------------------------------------------------------------
PlayerTypeOK ==
    /\ element \in [time : Times, paused : BOOLEAN, loaded : BOOLEAN, rate : Rates,
                    events : Seq({"play", "pause", "timeupdate", "waiting", "canplay"})]
    /\ ui \in [playing : BOOLEAN, playtime : -ShortcutSkip .. Duration + ShortcutSkip,
               duration : BOOLEAN, buffering : BOOLEAN, spinner : {"off", "armed", "on"},
               rate : Rates, tabbed : BOOLEAN]
    /\ last \in Times
    /\ bar \in [dragging : BOOLEAN, tmp : Times \cup {None}]
    /\ kept \in Times \cup {None}
    /\ clicked \in Times \cup {None}
    /\ switches \in 0 .. MaxSwitches

NewPlayer(rate) ==
    [playing |-> FALSE, playtime |-> 0, duration |-> FALSE, buffering |-> FALSE,
     spinner |-> "off", rate |-> rate, tabbed |-> FALSE]

PlayerInit ==
    /\ \E rate \in Rates :      \* what localStorage holds
          /\ ui = NewPlayer(rate)
          /\ element = [NewElement EXCEPT !.rate = rate]
    /\ last = 0
    /\ bar = [dragging |-> FALSE, tmp |-> None]
    /\ kept = 0
    /\ clicked = None
    /\ switches = 0

Room == Len(element.events) < MaxEvents

----------------------------------------------------------------------------
(* The browser.                                                            *)

\* loadeddata and durationchange: back to where the last sources were.
Loaded ==
    /\ ~element.loaded
    /\ element' = Seeked([element EXCEPT !.loaded = TRUE], last)
    /\ ui' = [ui EXCEPT !.duration = TRUE]
    /\ clicked' = None
    /\ UNCHANGED <<last, bar, kept, switches>>

\* Playback goes on; at the end the element pauses itself.
Advance ==
    /\ element.loaded /\ ~element.paused /\ ~ui.buffering /\ Room
    /\ LET moved == Seeked(element, element.time + 1)
       IN  element' = IF moved.time = Duration THEN Halted(moved) ELSE moved
    /\ clicked' = None
    /\ UNCHANGED <<ui, last, bar, kept, switches>>

\* Playback waits for data, or has it.
Stall ==
    /\ element.loaded /\ ~element.paused /\ Room
    /\ \E event \in {"waiting", "canplay"} : element' = Queued(element, event)
    /\ UNCHANGED <<ui, last, bar, kept, clicked, switches>>

\* A listener runs.  Time zero is not mirrored.
DeliverEvent ==
    /\ element.events # <<>>
    /\ element' = [element EXCEPT !.events = Tail(@)]
    /\ LET event == Head(element.events)
       IN  ui' = [ui EXCEPT
                   !.playing = IF event \in {"play", "pause"} THEN event = "play" ELSE @,
                   !.playtime = IF event = "timeupdate" /\ element.time # 0
                                THEN element.time ELSE @,
                   !.buffering = IF event \in {"waiting", "canplay"}
                                 THEN event = "waiting" ELSE @,
                   !.spinner = CASE event = "canplay" -> "off"
                                 [] event = "waiting" /\ @ = "off" -> "armed"
                                 [] OTHER -> @]
    /\ UNCHANGED <<last, bar, kept, clicked, switches>>

\* Every 100 ms while React believes that the element plays.
Interpolate ==
    /\ ui.playing /\ element.time # 0
    /\ ui' = [ui EXCEPT !.playtime = element.time]
    /\ UNCHANGED <<element, last, bar, kept, clicked, switches>>

\* The spinner shows up half a second after buffering began.
SpinnerTimer ==
    /\ ui.spinner = "armed"
    /\ ui' = [ui EXCEPT !.spinner = "on"]
    /\ UNCHANGED <<element, last, bar, kept, clicked, switches>>

----------------------------------------------------------------------------
(* Seeking.                                                                *)

\* While the sources load, a seek gives up the position that is to come back.
SeekTo(t) ==
    /\ Room
    /\ element' = Seeked(element, t)
    /\ kept' = IF element.loaded THEN kept ELSE None

SetPlaytime(t) ==
    /\ SeekTo(t)
    /\ ui' = [ui EXCEPT !.playtime = t]
    /\ UNCHANGED <<last, switches>>

\* Mutant: words are entered exactly at their start, as rounded down.
Mutant_ClickWord(start) ==
    /\ SetPlaytime(start - Nudge)
    /\ clicked' = start
    /\ UNCHANGED bar

\* SEEK_TO_EVENT: a click into the transcript.
ClickWord(start) ==
    /\ SetPlaytime(start + Nudge)
    /\ clicked' = start
    /\ UNCHANGED bar

SeekRelative(dt) == SetPlaytime(element.time + dt) /\ clicked' = None

\* Forward and backward buttons, clicked or held.
SkipButton ==
    /\ \E dt \in {-ButtonSkip, ButtonSkip, -HoldSkip, HoldSkip} : SeekRelative(dt)
    /\ UNCHANGED bar

\* The mouse may be outside the bar.
Positions == -1 .. Duration + 1

\* Mutant: what is right of the bar is not cut off.
Mutant_TimeFromPosition(x) == IF x < 0 THEN 0 ELSE x

TimeFromPosition(x) == Clamp(x)

\* MouseDown and mousemove; without a duration there is no time to show.
Drag(x) ==
    /\ bar' = [dragging |-> TRUE,
               tmp |-> IF ui.duration THEN TimeFromPosition(x) ELSE bar.tmp]
    /\ UNCHANGED <<element, ui, last, kept, clicked, switches>>

Drop(x) ==
    /\ bar.dragging /\ ui.duration
    /\ SetPlaytime(TimeFromPosition(x))
    /\ bar' = [dragging |-> FALSE, tmp |-> None]
    /\ clicked' = None

----------------------------------------------------------------------------
(* Play, pause, sources.                                                   *)

Toggled(e) == IF ui.playing THEN Halted(e) ELSE Played(e)

TogglePlaying ==
    /\ Room
    /\ element' = Toggled(element)
    /\ UNCHANGED <<ui, last, bar, kept, switches>>
    /\ clicked' = None

\* The second Tab within 250 ms skips, and toggles as well.
PressTab ==
    /\ Len(element.events) + 1 < MaxEvents
    /\ \E dt \in {0} \cup (IF ui.tabbed THEN {ShortcutSkip, -ShortcutSkip} ELSE {}) :
          IF dt = 0
          THEN /\ element' = Toggled(element)
               /\ ui' = [ui EXCEPT !.tabbed = TRUE]
               /\ UNCHANGED kept
          ELSE /\ element' = Toggled(Seeked(element, element.time + dt))
               /\ ui' = [ui EXCEPT !.playtime = element.time + dt]
               /\ kept' = IF element.loaded THEN kept ELSE None
    /\ clicked' = None
    /\ UNCHANGED <<last, bar, switches>>

\* Mutant: the rate is not set again for new sources.
Mutant_ReplaceSourcesRate ==
    LET fresh == Emptied(element)
    IN  /\ last' = element.time
        /\ element' = IF ui.playing THEN Played(fresh) ELSE Halted(fresh)

\* The effects on [sources] and on [sources, playbackRate] in one commit: note
\* the position, load, and go on as React believes it was.
ReplaceSources ==
    LET fresh == Emptied(element)
    IN  /\ last' = element.time
        /\ element' = [(IF ui.playing THEN Played(fresh) ELSE Halted(fresh))
                         EXCEPT !.rate = ui.rate]

\* A refresh of the media files, or the video is shown or hidden, which changes
\* what sortMediaFiles puts first.
SwitchSources ==
    /\ switches < MaxSwitches
    /\ ReplaceSources
    /\ kept' = IF element.loaded THEN element.time ELSE None
    /\ clicked' = None
    /\ switches' = switches + 1
    /\ UNCHANGED <<ui, bar>>

ChooseRate(rate) ==
    /\ ui' = [ui EXCEPT !.rate = rate]
    /\ element' = [element EXCEPT !.rate = rate]
    /\ UNCHANGED <<last, bar, kept, clicked, switches>>

\* The transcript is left and opened again; localStorage remembers the rate.
Reopen ==
    /\ switches < MaxSwitches
    /\ ui' = NewPlayer(ui.rate)
    /\ element' = [NewElement EXCEPT !.rate = ui.rate]
    /\ last' = 0
    /\ bar' = [dragging |-> FALSE, tmp |-> None]
    /\ kept' = 0
    /\ clicked' = None
    /\ switches' = switches + 1

----------------------------------------------------------------------------
PlayerNext ==
    \/ Loaded \/ Advance \/ Stall \/ DeliverEvent \/ Interpolate \/ SpinnerTimer
    \/ \E i \in DOMAIN WordStarts : ClickWord(WordStarts[i])
    \/ SkipButton
    \/ \E x \in Positions : Drag(x) \/ Drop(x)
    \/ TogglePlaying \/ PressTab \/ SwitchSources
    \/ \E rate \in Rates : ChooseRate(rate)
    \/ Reopen

PlayerSpec == PlayerInit /\ [][PlayerNext]_playerVars

----------------------------------------------------------------------------
(* What the player bar shows.                                              *)

\* The last word that has begun; the loop skips words that start at zero.
Highlight(time) ==
    LET begun == {i \in DOMAIN WordStarts : WordStarts[i] # 0 /\ WordStarts[i] <= time}
    IN  IF begun = {} THEN 0
        ELSE WordStarts[CHOOSE i \in begun : \A j \in begun : j <= i]

----------------------------------------------------------------------------
(* Properties.                                                             *)

\* The button shows whether the element plays as soon as React has heard of
\* everything the element did, whatever was loaded, sought or pressed meanwhile.
ButtonTellsTruth == element.events = <<>> => ui.playing = ~element.paused

\* Once React has heard of everything, the time shown is the element's, unless
\* that is zero (which onPlaytimeUpdate ignores) or it is still loading.
ShownTimeIsTrue ==
    element.events = <<>> /\ element.loaded /\ element.time # 0
        => ui.playtime = element.time

\* New sources (a refresh of the media files, video on or off) do not move the
\* listener: playback goes on at the same place and rate, unless he sought or
\* the sources changed again while they were loading.
SwitchKeepsPlace ==
    [][~element.loaded /\ element'.loaded =>
          /\ kept # None => element'.time = kept
          /\ element'.rate = ui.rate]_playerVars

\* After a click on a word this word is highlighted, not the one before it.
ClickedWordIsHighlighted == clicked # None => Highlight(ui.playtime) = clicked

\* The player bar shows what the element does, however late React hears of it,
\* and the transcript highlights the word that was clicked.
PlayerShowsElement == ButtonTellsTruth /\ ShownTimeIsTrue /\ ClickedWordIsHighlighted

============================================================================
