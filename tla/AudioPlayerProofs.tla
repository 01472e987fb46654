-------------------------- MODULE AudioPlayerProofs --------------------------
(***************************************************************************)
(* Machine-checked proofs about the player, for recordings and transcripts *)
(* of any length and any number of events that wait.                       *)
(***************************************************************************)
EXTENDS AudioPlayer, SequenceFacts

-----------------------------------------------------------------------------
(* What React has not heard of yet                                         *)

Kinds == {"play", "pause", "timeupdate", "waiting", "canplay"}
Element == [time : Times, paused : BOOLEAN, loaded : BOOLEAN, rate : Rates, events : Seq(Kinds)]
View == [playing : BOOLEAN, playtime : -ShortcutSkip .. Duration + ShortcutSkip,
         duration : BOOLEAN, buffering : BOOLEAN, spinner : {"off", "armed", "on"},
         rate : Rates, tabbed : BOOLEAN]

\* The last of the events that start or stop playback, or else what is believed.
LastSays(events, playing, believed) ==
  LET said == {i \in DOMAIN events : events[i] \in {"play", "pause"}}
  IN  IF said = {} THEN believed = playing
      ELSE \E i \in said : (events[i] = "play") = playing /\ \A j \in said : j <= i

\* React believes that the element plays if it does, up to events that wait.
PlayingInv(e, believed) == LastSays(e.events, ~e.paused, believed)

\* The time shown is the element's, unless an event tells of another.
TimeInv(e, shown) ==
  e.loaded /\ e.time # 0 /\ "timeupdate" \notin Range(e.events) => shown = e.time

\* A clicked word is left by no event that waits.
ClickInv ==
  clicked # None =>
    /\ \E i \in DOMAIN WordStarts : clicked = WordStarts[i]
    /\ ui.playtime = clicked + Nudge /\ element.time = clicked + Nudge

\* What comes back once the sources are loaded.
KeptInv ==
  /\ ~element.loaded /\ kept # None => kept = last
  /\ element.rate = ui.rate

PlayerInv ==
  /\ PlayingInv(element, ui.playing)
  /\ TimeInv(element, ui.playtime)
  /\ ClickInv
  /\ KeptInv

-----------------------------------------------------------------------------
(* The element                                                             *)

LEMMA ClampType == ASSUME NEW t \in Int PROVE Clamp(t) \in Times
  BY PlayerAssumption DEF Clamp, Times

LEMMA ClampTimes == ASSUME NEW t \in Times PROVE Clamp(t) = t /\ t \in Int
  BY PlayerAssumption DEF Clamp, Times

\* What is queued is last, once or again.
LEMMA QueuedStep ==
  ASSUME NEW e \in Element, NEW event \in Kinds
  PROVE  /\ Queued(e, event) \in Element
         /\ Queued(e, event) = [e EXCEPT !.events = Queued(e, event).events]
         /\ Range(Queued(e, event).events) = Range(e.events) \cup {event}
         /\ Queued(e, event).events = e.events \/ Queued(e, event).events = Append(e.events, event)
         /\ LET s == Queued(e, event).events IN s # <<>> /\ s[Len(s)] = event
  <1>1. e.events \in Seq(Kinds) /\ DOMAIN e = {"time", "paused", "loaded", "rate", "events"}
    BY DEF Element
  <1>2. CASE e.events # <<>> /\ e.events[Len(e.events)] = event
    <2>1. Queued(e, event) = e
      BY <1>2 DEF Queued
    <2>2. Len(e.events) \in DOMAIN e.events
      BY <1>1, <1>2, EmptySeq, LenProperties
    <2>3. event \in Range(e.events)
      BY <1>2, <2>2 DEF Range
    <2>4. e = [e EXCEPT !.events = e.events]
      BY <1>1 DEF Element
    <2> QED BY <1>2, <2>1, <2>3, <2>4
  <1>3. CASE ~(e.events # <<>> /\ e.events[Len(e.events)] = event)
    <2>1. Queued(e, event) = [e EXCEPT !.events = Append(e.events, event)]
      BY <1>3 DEF Queued
    <2>2. /\ Append(e.events, event) \in Seq(Kinds) /\ Append(e.events, event) # <<>>
          /\ Append(e.events, event)[Len(Append(e.events, event))] = event
      BY <1>1, AppendProperties
    <2>3. Range(Append(e.events, event)) = Range(e.events) \cup {event}
      BY <1>1, RangeOfAppend
    <2>4. Queued(e, event) \in Element /\ Queued(e, event).events = Append(e.events, event)
      BY <2>1, <2>2 DEF Element
    <2> QED BY <2>1, <2>2, <2>3, <2>4
  <1> QED BY <1>2, <1>3

\* The event that starts or stops playback says so; others say nothing.
LEMMA LastSaysQueued ==
  ASSUME NEW e \in Element, NEW event \in Kinds, NEW playing \in BOOLEAN, NEW believed \in BOOLEAN,
         \/ event \in {"play", "pause"} /\ (event = "play") = playing
         \/ event \notin {"play", "pause"} /\ LastSays(e.events, playing, believed)
  PROVE  LastSays(Queued(e, event).events, playing, believed)
  <1> DEFINE s == e.events
             q == Queued(e, event).events
  <1>1. /\ s \in Seq(Kinds) /\ Len(s) \in Nat /\ DOMAIN s = 1 .. Len(s)
    BY LenProperties DEF Element
  <1>2. /\ q \in Seq(Kinds) /\ q # <<>> /\ q[Len(q)] = event /\ Len(q) \in Nat
        /\ DOMAIN q = 1 .. Len(q)
    BY QueuedStep, LenProperties DEF Element
  <1>3. Len(q) \in DOMAIN q
    BY <1>2, EmptySeq
  <1>4. CASE event \in {"play", "pause"}
    <2> HIDE DEF q
    <2> QED BY <1>2, <1>3, <1>4 DEF LastSays, q
  <1>5. CASE event \notin {"play", "pause"}
    <2>1. CASE q = s
      BY <2>1, <1>5
    <2>2. CASE q = Append(s, event)
      <3> HIDE DEF s, q
      <3>1. Len(q) = Len(s) + 1 /\ \A i \in 1 .. Len(s) : q[i] = s[i]
        BY <1>1, <2>2, AppendProperties
      <3>2. {i \in DOMAIN q : q[i] \in {"play", "pause"}} = {i \in DOMAIN s : s[i] \in {"play", "pause"}}
        BY <1>1, <1>2, <1>5, <3>1
      <3>3. LastSays(s, playing, believed)
        BY <1>5 DEF s
      <3> QED BY <1>1, <3>1, <3>2, <3>3 DEF LastSays, q
    <2> QED BY <2>1, <2>2, QueuedStep
  <1> QED BY <1>4, <1>5

LEMMA LastSaysTail ==
  ASSUME NEW s \in Seq(Kinds), s # <<>>, NEW playing \in BOOLEAN,
         NEW believed \in BOOLEAN, NEW heard \in BOOLEAN,
         LastSays(s, playing, believed),
         heard = IF Head(s) \in {"play", "pause"} THEN Head(s) = "play" ELSE believed
  PROVE  LastSays(Tail(s), playing, heard)
  <1> DEFINE t == Tail(s)
             Said1 == {i \in DOMAIN s : s[i] \in {"play", "pause"}}
             Said2 == {i \in DOMAIN t : t[i] \in {"play", "pause"}}
  <1>1. /\ Len(s) \in Nat \ {0} /\ DOMAIN s = 1 .. Len(s) /\ Head(s) = s[1]
        /\ t \in Seq(Kinds) /\ DOMAIN t = 1 .. Len(s) - 1
        /\ \A i \in 1 .. Len(s) - 1 : t[i] = s[i + 1]
    <2>1. Len(s) \in Nat \ {0} /\ DOMAIN s = 1 .. Len(s)
      BY EmptySeq, LenProperties
    <2>2. t \in Seq(Kinds) /\ Len(t) = Len(s) - 1 /\ \A i \in 1 .. Len(t) : t[i] = s[i + 1]
      BY HeadTailProperties
    <2> QED BY <2>1, <2>2, LenProperties
  <1>2. \A i \in Said2 : i + 1 \in Said1
    BY <1>1
  <1>3. \A i \in Said1 : i # 1 => i - 1 \in Said2
    BY <1>1
  <1> HIDE DEF t
  <1>4. CASE Said2 = {}
    <2>1. CASE Said1 = {}
      <3>1. Head(s) \notin {"play", "pause"}
        BY <2>1, <1>1
      <3> QED BY <3>1, <2>1, <1>4 DEF LastSays, t
    <2>2. CASE Said1 # {}
      <3>1. Said1 = {1}
        BY <2>2, <1>3, <1>4, <1>1
      <3>2. (s[1] = "play") = playing /\ s[1] \in {"play", "pause"}
        BY <3>1 DEF LastSays
      <3> QED BY <3>2, <1>1, <1>4 DEF LastSays, t
    <2> QED BY <2>1, <2>2
  <1>5. CASE Said2 # {}
    <2>1. PICK i \in Said1 : (s[i] = "play") = playing /\ \A j \in Said1 : j <= i
      <3>1. Said1 # {}
        BY <1>2, <1>5
      <3> QED BY <3>1 DEF LastSays
    <2>2. i # 1 /\ i \in Nat
      BY <1>5, <1>2, <2>1, <1>1
    <2>3. /\ i - 1 \in Said2 /\ t[i - 1] = s[i]
          /\ \A j \in Said2 : j <= i - 1
      BY <2>1, <2>2, <1>1, <1>2, <1>3
    <2> QED BY <2>1, <2>3, <1>5 DEF LastSays, t
  <1> QED BY <1>4, <1>5

LEMMA SeekedStep ==
  ASSUME NEW e \in Element, NEW t \in Int, NEW believed \in BOOLEAN
  PROVE  /\ Seeked(e, t) \in Element /\ Seeked(e, t).time = Clamp(t)
         /\ Seeked(e, t).paused = e.paused /\ Seeked(e, t).loaded = e.loaded
         /\ Seeked(e, t).rate = e.rate /\ "timeupdate" \in Range(Seeked(e, t).events)
         /\ PlayingInv(e, believed) => PlayingInv(Seeked(e, t), believed)
  <1> DEFINE m == [e EXCEPT !.time = Clamp(t)]
  <1>1. /\ m \in Element /\ m.time = Clamp(t) /\ m.paused = e.paused /\ m.loaded = e.loaded
        /\ m.rate = e.rate /\ m.events = e.events
    BY ClampType DEF Element
  <1>2. Seeked(e, t) = Queued(m, "timeupdate")
    BY DEF Seeked
  <1> HIDE DEF m
  <1> DEFINE q == Queued(m, "timeupdate")
  <1>3. /\ q \in Element /\ q = [m EXCEPT !.events = q.events]
        /\ "timeupdate" \in Range(q.events)
    BY <1>1, QueuedStep DEF Kinds
  <1>4. /\ q.time = m.time /\ q.paused = m.paused /\ q.loaded = m.loaded /\ q.rate = m.rate
    BY <1>1, <1>3 DEF Element
  <1>5. m.paused \in BOOLEAN
    BY <1>1 DEF Element
  <1>6. LastSays(m.events, ~m.paused, believed) => LastSays(q.events, ~m.paused, believed)
    BY <1>1, <1>5, LastSaysQueued DEF Kinds
  <1> QED BY <1>1, <1>2, <1>3, <1>4, <1>6 DEF PlayingInv

LEMMA PlayedStep ==
  ASSUME NEW e \in Element, NEW believed \in BOOLEAN
  PROVE  /\ Played(e) \in Element /\ Played(e).time \in {e.time, 0}
         /\ Played(e).loaded = e.loaded /\ Played(e).rate = e.rate
         /\ ~e.loaded => Played(e).time = e.time
         /\ Range(e.events) \subseteq Range(Played(e).events)
         /\ PlayingInv(e, believed) \/ e.paused => PlayingInv(Played(e), believed)
  <1>1. CASE ~e.paused
    BY <1>1 DEF Played
  <1>2. CASE e.paused
    <2> DEFINE t == IF e.loaded /\ e.time = Duration THEN 0 ELSE e.time
               m == [e EXCEPT !.paused = FALSE, !.time = t]
    <2>1. /\ m \in Element /\ m.time \in {e.time, 0} /\ ~m.paused /\ m.loaded = e.loaded
          /\ m.rate = e.rate /\ m.events = e.events /\ (~e.loaded => m.time = e.time)
      <3>1. t \in Times /\ t \in {e.time, 0} /\ (~e.loaded => t = e.time)
        BY PlayerAssumption DEF Element, Times
      <3> HIDE DEF t
      <3> QED BY <3>1 DEF Element
    <2>2. Played(e) = Queued(m, "play")
      BY <1>2 DEF Played
    <2> HIDE DEF m
    <2> DEFINE q == Queued(m, "play")
    <2>0. "play" \in Kinds
      BY DEF Kinds
    <2>3. /\ q \in Element /\ q = [m EXCEPT !.events = q.events]
          /\ Range(q.events) = Range(m.events) \cup {"play"}
      BY <2>0, <2>1, QueuedStep
    <2>4. /\ q.time = m.time /\ q.paused = m.paused /\ q.loaded = m.loaded /\ q.rate = m.rate
      BY <2>1, <2>3 DEF Element
    <2>5. LastSays(q.events, TRUE, believed)
      BY <2>1, LastSaysQueued DEF Kinds
    <2> QED BY <2>1, <2>2, <2>3, <2>4, <2>5 DEF PlayingInv
  <1> QED BY <1>1, <1>2 DEF Element

LEMMA HaltedStep ==
  ASSUME NEW e \in Element, NEW believed \in BOOLEAN
  PROVE  /\ Halted(e) \in Element /\ Halted(e).time = e.time
         /\ Halted(e).loaded = e.loaded /\ Halted(e).rate = e.rate
         /\ Range(e.events) \subseteq Range(Halted(e).events)
         /\ PlayingInv(e, believed) => PlayingInv(Halted(e), believed)
  <1>1. CASE e.paused
    BY <1>1 DEF Halted
  <1>2. CASE ~e.paused
    <2> DEFINE m == [e EXCEPT !.paused = TRUE]
    <2>1. /\ m \in Element /\ m.time = e.time /\ m.paused /\ m.loaded = e.loaded
          /\ m.rate = e.rate /\ m.events = e.events
      BY DEF Element
    <2>2. Halted(e) = Queued(m, "pause")
      BY <1>2 DEF Halted
    <2> HIDE DEF m
    <2> DEFINE q == Queued(m, "pause")
    <2>0. "pause" \in Kinds
      BY DEF Kinds
    <2>3. /\ q \in Element /\ q = [m EXCEPT !.events = q.events]
          /\ Range(q.events) = Range(m.events) \cup {"pause"}
      BY <2>0, <2>1, QueuedStep
    <2>4. /\ q.time = m.time /\ q.paused = m.paused /\ q.loaded = m.loaded /\ q.rate = m.rate
      BY <2>1, <2>3 DEF Element
    <2>5. LastSays(q.events, FALSE, believed)
      BY <2>1, LastSaysQueued DEF Kinds
    <2> QED BY <2>1, <2>2, <2>3, <2>4, <2>5 DEF PlayingInv
  <1> QED BY <1>1, <1>2

LEMMA ToggledStep ==
  ASSUME NEW e \in Element, ui.playing \in BOOLEAN
  PROVE  /\ Toggled(e) \in Element /\ Toggled(e).time \in {e.time, 0}
         /\ Toggled(e).loaded = e.loaded /\ Toggled(e).rate = e.rate
         /\ Range(e.events) \subseteq Range(Toggled(e).events)
         /\ PlayingInv(e, ui.playing) => PlayingInv(Toggled(e), ui.playing)
  <1>1. CASE ui.playing
    BY <1>1, HaltedStep DEF Toggled
  <1>2. CASE ~ui.playing
    BY <1>2, PlayedStep DEF Toggled
  <1> QED BY <1>1, <1>2

\* The type invariant, by the names used here.
LEMMA TypeParts ==
  PlayerTypeOK <=> /\ element \in Element /\ ui \in View /\ last \in Times
                   /\ bar \in [dragging : BOOLEAN, tmp : Times \cup {None}]
                   /\ kept \in Times \cup {None} /\ clicked \in Times \cup {None}
                   /\ switches \in 0 .. MaxSwitches
  BY DEF PlayerTypeOK, Element, Kinds, View

-----------------------------------------------------------------------------
(* The invariant                                                           *)

TypedInv == PlayerTypeOK /\ PlayerInv

\* A player that was just opened.
LEMMA NewStep ==
  ASSUME NEW rate \in Rates, NEW e, NEW view,
         e = [NewElement EXCEPT !.rate = rate], view = NewPlayer(rate)
  PROVE  /\ e \in Element /\ e.time = 0 /\ ~e.loaded /\ e.rate = rate
         /\ view \in View /\ view.rate = rate /\ PlayingInv(e, view.playing)
  <1>1. DOMAIN <<>> = {}
    BY EmptySeq
  <1>2. e = [time |-> 0, paused |-> TRUE, loaded |-> FALSE, rate |-> rate, events |-> <<>>]
    BY DEF NewElement
  <1>3. e \in Element
    <2>1. <<>> \in Seq(Kinds)
      BY EmptySeq
    <2>2. 0 \in Times
      BY PlayerAssumption DEF Times
    <2>3. [time |-> 0, paused |-> TRUE, loaded |-> FALSE, rate |-> rate, events |-> <<>>] \in Element
      BY <2>1, <2>2 DEF Element
    <2> QED BY <1>2, <2>3
  <1>4. view \in View /\ view.playing = FALSE /\ view.rate = rate
    BY PlayerAssumption DEF NewPlayer, View, ShortcutSkip
  <1>5. LastSays(<<>>, FALSE, FALSE)
    BY <1>1 DEF LastSays
  <1>6. e.events = <<>> /\ (~e.paused) = FALSE
    BY <1>2
  <1>7. PlayingInv(e, view.playing)
    BY <1>4, <1>5, <1>6 DEF PlayingInv
  <1>8. e.time = 0 /\ ~e.loaded /\ e.rate = rate
    BY <1>2
  <1> QED BY <1>3, <1>4, <1>7, <1>8

LEMMA InvAtStart == PlayerInit => TypedInv
  <1> SUFFICES ASSUME PlayerInit PROVE TypedInv
    OBVIOUS
  <1>1. PICK rate \in Rates : ui = NewPlayer(rate) /\ element = [NewElement EXCEPT !.rate = rate]
    BY DEF PlayerInit
  <1>2. /\ element \in Element /\ element.time = 0 /\ ~element.loaded /\ element.rate = rate
        /\ ui \in View /\ ui.rate = rate /\ PlayingInv(element, ui.playing)
    BY <1>1, NewStep
  <1>3. PlayerTypeOK
    BY <1>2, TypeParts, PlayerAssumption DEF PlayerInit, Times, None
  <1> QED BY <1>2, <1>3 DEF TypedInv, PlayerInv, TimeInv, ClickInv, KeptInv, PlayerInit, None

\* A seek, wherever it comes from: the time asked for is shown, an event waits.
LEMMA SetPlaytimeStep ==
  ASSUME TypedInv, NEW t \in -ShortcutSkip .. Duration + ShortcutSkip, SetPlaytime(t)
  PROVE  /\ element' \in Element /\ ui' \in View /\ kept' \in Times \cup {None}
         /\ element'.time = Clamp(t) /\ ui'.playtime = t
         /\ PlayingInv(element', ui'.playing) /\ TimeInv(element', ui'.playtime) /\ KeptInv'
         /\ UNCHANGED <<last, switches>> /\ element'.loaded = element.loaded
  <1> USE DEF SetPlaytime, SeekTo
  <1>1. element \in Element /\ ui \in View /\ ui.playing \in BOOLEAN /\ t \in Int
    BY TypeParts DEF TypedInv, View
  <1>2. /\ element' = Seeked(element, t) /\ element' \in Element /\ element'.time = Clamp(t)
        /\ element'.loaded = element.loaded /\ element'.rate = element.rate
        /\ "timeupdate" \in Range(element'.events)
        /\ PlayingInv(element', ui.playing)
    BY <1>1, SeekedStep DEF TypedInv, PlayerInv
  <1>3. ui' \in View /\ ui'.playtime = t /\ ui'.playing = ui.playing /\ ui'.rate = ui.rate
    BY <1>1 DEF View
  <1>4. kept' \in Times \cup {None} /\ (~element.loaded => kept' = None)
    BY TypeParts DEF TypedInv
  <1>5. KeptInv'
    BY <1>2, <1>3, <1>4 DEF KeptInv, TypedInv, PlayerInv
  <1> QED BY <1>2, <1>3, <1>4, <1>5 DEF TimeInv

LEMMA LoadedStep == ASSUME TypedInv, Loaded PROVE TypedInv'
  <1> USE DEF Loaded
  <1> DEFINE m == [element EXCEPT !.loaded = TRUE]
  <1>1. element \in Element /\ ui \in View /\ last \in Int /\ ui.playing \in BOOLEAN
    BY TypeParts DEF TypedInv, View, Times
  <1>2. m \in Element /\ m.loaded /\ m.rate = element.rate /\ m.paused = element.paused
        /\ m.events = element.events
    BY <1>1 DEF Element
  <1>3. PlayingInv(m, ui.playing)
    BY <1>2 DEF PlayingInv, TypedInv, PlayerInv
  <1>4. element' = Seeked(m, last)
    OBVIOUS
  <1> HIDE DEF m
  <1>5. /\ element' \in Element /\ element'.loaded /\ element'.rate = element.rate
        /\ "timeupdate" \in Range(element'.events) /\ PlayingInv(element', ui.playing)
    BY <1>1, <1>2, <1>3, <1>4, SeekedStep
  <1>6. ui' \in View /\ ui'.playing = ui.playing /\ ui'.rate = ui.rate
    BY <1>1 DEF View
  <1>7. PlayerTypeOK'
    BY <1>5, <1>6, TypeParts DEF TypedInv, PlayerTypeOK, Element, Kinds, View
  <1> QED BY <1>5, <1>6, <1>7 DEF TypedInv, PlayerInv, TimeInv, ClickInv, KeptInv

LEMMA AdvanceStep == ASSUME TypedInv, Advance PROVE TypedInv'
  <1> USE DEF Advance
  <1> DEFINE m == Seeked(element, element.time + 1)
  <1>1. element \in Element /\ element.time + 1 \in Int /\ ui.playing \in BOOLEAN
    BY TypeParts DEF TypedInv, View, Times, Element
  <1>2. /\ m \in Element /\ m.loaded = element.loaded /\ m.rate = element.rate
        /\ "timeupdate" \in Range(m.events) /\ PlayingInv(m, ui.playing)
    BY <1>1, SeekedStep DEF TypedInv, PlayerInv
  <1>3. element' = m \/ element' = Halted(m)
    OBVIOUS
  <1> HIDE DEF m
  <1>4. /\ element' \in Element /\ element'.loaded = element.loaded /\ element'.rate = element.rate
        /\ "timeupdate" \in Range(element'.events) /\ PlayingInv(element', ui.playing)
    BY <1>1, <1>2, <1>3, HaltedStep
  <1>5. PlayerTypeOK'
    BY <1>4 DEF TypedInv, PlayerTypeOK, Element, Kinds, View, None
  <1> QED BY <1>4, <1>5 DEF TypedInv, PlayerInv, TimeInv, ClickInv, KeptInv

LEMMA StallStep == ASSUME TypedInv, Stall PROVE TypedInv'
  <1> USE DEF Stall
  <1>1. element \in Element /\ ui.playing \in BOOLEAN /\ element.paused \in BOOLEAN
    BY TypeParts DEF TypedInv, View, Element
  <1>2. PICK event \in {"waiting", "canplay"} : element' = Queued(element, event)
    OBVIOUS
  <1>3. event \in Kinds /\ event \notin {"play", "pause"}
    BY DEF Kinds
  <1>4. /\ element' \in Element /\ element' = [element EXCEPT !.events = element'.events]
        /\ Range(element'.events) = Range(element.events) \cup {event}
    BY <1>1, <1>2, <1>3, QueuedStep
  <1>5. /\ element'.time = element.time /\ element'.paused = element.paused
        /\ element'.loaded = element.loaded /\ element'.rate = element.rate
    BY <1>1, <1>4 DEF Element
  <1>6. PlayingInv(element', ui.playing)
    <2>1. LastSays(element.events, ~element.paused, ui.playing)
      BY DEF TypedInv, PlayerInv, PlayingInv
    <2>2. LastSays(element'.events, ~element.paused, ui.playing)
      BY <1>1, <1>2, <1>3, <2>1, LastSaysQueued
    <2> QED BY <1>5, <2>2 DEF PlayingInv
  <1>7. PlayerTypeOK'
    BY <1>4 DEF TypedInv, PlayerTypeOK, Element, Kinds, View
  <1> QED BY <1>4, <1>5, <1>6, <1>7 DEF TypedInv, PlayerInv, TimeInv, ClickInv, KeptInv

LEMMA DeliverEventStep == ASSUME TypedInv, DeliverEvent PROVE TypedInv'
  <1> USE DEF DeliverEvent
  <1> DEFINE s == element.events
             event == Head(s)
  <1>1. /\ element \in Element /\ ui \in View /\ s \in Seq(Kinds) /\ s # <<>>
        /\ element.paused \in BOOLEAN /\ ui.playing \in BOOLEAN
    BY TypeParts DEF TypedInv, View, Element
  <1>2. /\ event \in Kinds /\ Tail(s) \in Seq(Kinds) /\ Range(s) = {event} \cup Range(Tail(s))
    <2>1. Head(s) \in Kinds /\ Tail(s) \in Seq(Kinds)
      BY <1>1, HeadTailProperties
    <2> QED BY <1>1, <2>1, RangeOfTail
  <1>3. /\ element' \in Element /\ element'.events = Tail(s) /\ element'.time = element.time
        /\ element'.paused = element.paused /\ element'.loaded = element.loaded
        /\ element'.rate = element.rate
    BY <1>1, <1>2 DEF Element
  <1>4. /\ ui' \in View /\ ui'.rate = ui.rate
        /\ ui'.playing = IF event \in {"play", "pause"} THEN event = "play" ELSE ui.playing
        /\ ui'.playtime = IF event = "timeupdate" /\ element.time # 0
                          THEN element.time ELSE ui.playtime
    <2>1. element.time \in -ShortcutSkip .. Duration + ShortcutSkip
      BY <1>1, PlayerAssumption DEF Element, Times, ShortcutSkip
    <2> QED BY <1>1, <2>1 DEF View
  <1>5. PlayingInv(element', ui'.playing)
    <2>1. LastSays(s, ~element.paused, ui.playing)
      BY DEF TypedInv, PlayerInv, PlayingInv
    <2>2. ui'.playing \in BOOLEAN
      BY <1>4 DEF View
    <2>3. LastSays(Tail(s), ~element.paused, ui'.playing)
      BY <1>1, <1>4, <2>1, <2>2, LastSaysTail
    <2> QED BY <1>3, <2>3 DEF PlayingInv
  <1>6. TimeInv(element', ui'.playtime)
    BY <1>2, <1>3, <1>4 DEF TimeInv, TypedInv, PlayerInv
  <1>7. PlayerTypeOK'
    BY <1>3, <1>4 DEF TypedInv, PlayerTypeOK, Element, Kinds, View
  <1>8. ClickInv' /\ KeptInv'
    BY <1>3, <1>4 DEF TypedInv, PlayerInv, ClickInv, KeptInv
  <1> QED BY <1>5, <1>6, <1>7, <1>8 DEF TypedInv, PlayerInv

LEMMA UnheardStep ==
  ASSUME TypedInv, Interpolate \/ SpinnerTimer \/ \E x \in Positions : Drag(x)
  PROVE  TypedInv'
  <1>1. element \in Element /\ ui \in View /\ element.time \in -ShortcutSkip .. Duration + ShortcutSkip
    BY TypeParts, PlayerAssumption DEF TypedInv, Element, Times, ShortcutSkip
  <1>2. /\ UNCHANGED <<element, last, kept, clicked, switches>> /\ ui' \in View
        /\ ui'.playing = ui.playing /\ ui'.rate = ui.rate
        /\ ui'.playtime = ui.playtime \/ ui'.playtime = element.time
    BY <1>1 DEF Interpolate, SpinnerTimer, Drag, View
  <1>3. bar' \in [dragging : BOOLEAN, tmp : Times \cup {None}]
    <2>1. bar \in [dragging : BOOLEAN, tmp : Times \cup {None}]
      BY TypeParts DEF TypedInv
    <2>2. CASE \E x \in Positions : Drag(x)
      <3>1. PICK x \in Positions : Drag(x)
        BY <2>2
      <3>2. x \in Int
        BY PlayerAssumption DEF Positions
      <3>3. TimeFromPosition(x) \in Times
        BY <3>2, ClampType DEF TimeFromPosition
      <3> QED BY <2>1, <3>1, <3>3 DEF Drag
    <2>3. CASE Interpolate \/ SpinnerTimer
      BY <2>1, <2>3 DEF Interpolate, SpinnerTimer
    <2> QED BY <2>2, <2>3
  <1>4. PlayerTypeOK'
    BY <1>2, <1>3 DEF TypedInv, PlayerTypeOK, View
  <1> QED BY <1>2, <1>4 DEF TypedInv, PlayerInv, PlayingInv, TimeInv, ClickInv, KeptInv

LEMMA SkipStep ==
  ASSUME TypedInv, (\E i \in DOMAIN WordStarts : ClickWord(WordStarts[i])) \/ SkipButton
                   \/ \E x \in Positions : Drop(x)
  PROVE  TypedInv'
  <1>0. PlayerTypeOK /\ element.time \in Times
    BY TypeParts DEF TypedInv, Element
  <1>1. CASE SkipButton
    <2>1. PICK dt \in {-ButtonSkip, ButtonSkip, -HoldSkip, HoldSkip} : SeekRelative(dt)
      BY <1>1 DEF SkipButton
    <2>2. element.time + dt \in -ShortcutSkip .. Duration + ShortcutSkip
      <3>1. dt \in -ShortcutSkip .. ShortcutSkip /\ ShortcutSkip \in Nat
        BY DEF ShortcutSkip, ButtonSkip, HoldSkip
      <3>2. element.time \in 0 .. Duration /\ Duration \in Nat
        BY <1>0, PlayerAssumption DEF Times
      <3> QED BY <3>1, <3>2
    <2>3. SetPlaytime(element.time + dt) /\ clicked' = None /\ UNCHANGED bar
      BY <1>1, <2>1 DEF SkipButton, SeekRelative
    <2>4. PlayerTypeOK'
      BY <1>0, <2>2, <2>3, SetPlaytimeStep DEF PlayerTypeOK, Element, Kinds, View, None
    <2> QED BY <2>2, <2>3, <2>4, SetPlaytimeStep DEF TypedInv, PlayerInv, ClickInv
  <1>2. CASE \E x \in Positions : Drop(x)
    <2>1. PICK x \in Positions : Drop(x)
      BY <1>2
    <2>2. TimeFromPosition(x) \in Times
      BY PlayerAssumption, ClampType DEF Positions, TimeFromPosition
    <2>3. TimeFromPosition(x) \in -ShortcutSkip .. Duration + ShortcutSkip
      BY <2>2, PlayerAssumption DEF Times, ShortcutSkip
    <2>4. /\ SetPlaytime(TimeFromPosition(x)) /\ clicked' = None
          /\ bar' = [dragging |-> FALSE, tmp |-> None]
      BY <2>1 DEF Drop
    <2>5. PlayerTypeOK'
      BY <1>0, <2>3, <2>4, SetPlaytimeStep DEF PlayerTypeOK, Element, Kinds, View, None
    <2> QED BY <2>3, <2>4, <2>5, SetPlaytimeStep DEF TypedInv, PlayerInv, ClickInv
  <1>3. CASE \E i \in DOMAIN WordStarts : ClickWord(WordStarts[i])
    <2>1. PICK i \in DOMAIN WordStarts : ClickWord(WordStarts[i])
      BY <1>3
    <2> DEFINE c == WordStarts[i]
    <2>2. c \in 0 .. Duration - 1
      BY PlayerAssumption, LenProperties, ElementOfSeq
    <2> HIDE DEF c
    <2>3. /\ c + Nudge \in -ShortcutSkip .. Duration + ShortcutSkip /\ c + Nudge \in Times
          /\ c \in Times
      BY <2>2, PlayerAssumption DEF Times, ShortcutSkip, Nudge
    <2>4. SetPlaytime(c + Nudge) /\ clicked' = c /\ UNCHANGED bar
      BY <2>1 DEF ClickWord, c
    <2>5. ClickInv'
      BY <2>3, <2>4, SetPlaytimeStep, ClampTimes DEF ClickInv, c
    <2>6. PlayerTypeOK'
      BY <1>0, <2>3, <2>4, SetPlaytimeStep DEF PlayerTypeOK, Element, Kinds, View, None
    <2> QED BY <2>3, <2>4, <2>5, <2>6, SetPlaytimeStep DEF TypedInv, PlayerInv
  <1> QED BY <1>1, <1>2, <1>3

LEMMA ToggleStep == ASSUME TypedInv, TogglePlaying \/ PressTab PROVE TypedInv'
  <1>0. /\ PlayerTypeOK /\ element \in Element /\ ui \in View /\ ui.playing \in BOOLEAN
        /\ PlayingInv(element, ui.playing) /\ TimeInv(element, ui.playtime) /\ KeptInv
    BY TypeParts DEF TypedInv, View, PlayerInv
  <1>1. CASE element' = Toggled(element) /\ UNCHANGED <<last, bar, kept, switches>>
             /\ clicked' = None /\ (ui' = ui \/ ui' = [ui EXCEPT !.tabbed = TRUE])
    <2>1. ui' \in View /\ ui'.playing = ui.playing /\ ui'.rate = ui.rate /\ ui'.playtime = ui.playtime
      BY <1>0, <1>1 DEF View
    <2>2. /\ element' \in Element /\ element'.time \in {element.time, 0}
          /\ element'.loaded = element.loaded /\ element'.rate = element.rate
          /\ Range(element.events) \subseteq Range(element'.events)
          /\ PlayingInv(element', ui.playing)
      BY <1>0, <1>1, ToggledStep
    <2>3. TimeInv(element', ui'.playtime) /\ KeptInv'
      BY <1>0, <1>1, <2>1, <2>2 DEF TimeInv, KeptInv
    <2>4. PlayerTypeOK'
      BY <1>0, <1>1, <2>1, <2>2 DEF PlayerTypeOK, Element, Kinds, View, None
    <2> QED BY <1>1, <2>1, <2>2, <2>3, <2>4 DEF TypedInv, PlayerInv, ClickInv
  <1>2. ASSUME NEW dt \in {ShortcutSkip, -ShortcutSkip},
               element' = Toggled(Seeked(element, element.time + dt)),
               ui' = [ui EXCEPT !.playtime = element.time + dt],
               kept' = IF element.loaded THEN kept ELSE None,
               UNCHANGED <<last, bar, switches>>, clicked' = None
        PROVE  TypedInv'
    <2> DEFINE m == Seeked(element, element.time + dt)
    <2>1. /\ element.time + dt \in -ShortcutSkip .. Duration + ShortcutSkip
          /\ element.time + dt \in Int
      BY <1>0, PlayerAssumption DEF Element, Times, ShortcutSkip
    <2>2. ui' \in View /\ ui'.playing = ui.playing /\ ui'.rate = ui.rate
      BY <1>0, <1>2, <2>1 DEF View
    <2>3. /\ m \in Element /\ m.loaded = element.loaded /\ m.rate = element.rate
          /\ "timeupdate" \in Range(m.events) /\ PlayingInv(m, ui.playing)
      BY <1>0, <2>1, SeekedStep
    <2>4. element' = Toggled(m)
      BY <1>2
    <2> HIDE DEF m
    <2>5. /\ element' \in Element /\ element'.loaded = element.loaded
          /\ element'.rate = element.rate /\ "timeupdate" \in Range(element'.events)
          /\ PlayingInv(element', ui.playing)
      BY <1>0, <2>3, <2>4, ToggledStep
    <2>6. kept' \in Times \cup {None} /\ (~element.loaded => kept' = None)
      BY <1>0, <1>2, TypeParts
    <2>7. TimeInv(element', ui'.playtime) /\ KeptInv'
      BY <1>0, <1>2, <2>2, <2>5, <2>6 DEF TimeInv, KeptInv
    <2>8. PlayerTypeOK'
      BY <1>0, <1>2, <2>2, <2>5, <2>6 DEF PlayerTypeOK, Element, Kinds, View, None
    <2> QED BY <1>2, <2>2, <2>5, <2>7, <2>8 DEF TypedInv, PlayerInv, ClickInv
  <1>3. CASE TogglePlaying
    BY <1>1, <1>3 DEF TogglePlaying
  <1>4. CASE PressTab
    <2>1. PICK dt \in {0} \cup {ShortcutSkip, -ShortcutSkip} :
            IF dt = 0
            THEN /\ element' = Toggled(element)
                 /\ ui' = [ui EXCEPT !.tabbed = TRUE]
                 /\ UNCHANGED kept
            ELSE /\ element' = Toggled(Seeked(element, element.time + dt))
                 /\ ui' = [ui EXCEPT !.playtime = element.time + dt]
                 /\ kept' = IF element.loaded THEN kept ELSE None
      BY <1>4 DEF PressTab
    <2>2. clicked' = None /\ UNCHANGED <<last, bar, switches>>
      BY <1>4 DEF PressTab
    <2>3. CASE dt = 0
      BY <1>1, <2>1, <2>2, <2>3
    <2>4. CASE dt # 0
      BY <1>2, <2>1, <2>2, <2>4
    <2> QED BY <2>3, <2>4
  <1> QED BY <1>3, <1>4

LEMMA SwitchStep == ASSUME TypedInv, SwitchSources PROVE TypedInv'
  <1> USE DEF SwitchSources, ReplaceSources
  <1> DEFINE fresh == Emptied(element)
             m == IF ui.playing THEN Played(fresh) ELSE Halted(fresh)
  <1>0. /\ PlayerTypeOK /\ element \in Element /\ ui \in View /\ ui.playing \in BOOLEAN
        /\ ui.rate \in Rates /\ element.time \in Times
    BY TypeParts DEF TypedInv, View, Element
  <1>1. <<>> \in Seq(Kinds) /\ DOMAIN <<>> = {}
    BY EmptySeq
  <1>2. /\ fresh \in Element /\ fresh.paused /\ ~fresh.loaded /\ fresh.events = <<>>
    <2>1. 0 \in Times
      BY PlayerAssumption DEF Times
    <2> QED BY <1>0, <1>1, <2>1, PlayerAssumption DEF Emptied, Element
  <1> HIDE DEF fresh
  <1>3. m \in Element /\ ~m.loaded /\ PlayingInv(m, ui.playing)
    <2>1. CASE ui.playing
      BY <1>0, <1>2, <2>1, PlayedStep
    <2>2. CASE ~ui.playing
      <3>1. LastSays(<<>>, FALSE, FALSE)
        BY <1>1 DEF LastSays
      <3>2. PlayingInv(fresh, ui.playing)
        BY <1>2, <2>2, <3>1, <1>0 DEF PlayingInv
      <3> QED BY <1>0, <1>2, <2>2, <3>2, HaltedStep
    <2> QED BY <2>1, <2>2
  <1>4. element' = [m EXCEPT !.rate = ui.rate]
    BY DEF fresh
  <1> HIDE DEF m
  <1>5. /\ element' \in Element /\ ~element'.loaded /\ element'.rate = ui.rate
        /\ PlayingInv(element', ui.playing)
    BY <1>0, <1>3, <1>4 DEF Element, PlayingInv
  <1>6. kept' \in Times \cup {None} /\ (kept' = None \/ kept' = last') /\ last' \in Times
    BY <1>0
  <1>7. switches' \in 0 .. MaxSwitches
    BY <1>0, PlayerAssumption, TypeParts
  <1>8. PlayerTypeOK'
    BY <1>0, <1>5, <1>6, <1>7 DEF PlayerTypeOK, Element, Kinds, View, None
  <1> QED BY <1>5, <1>6, <1>8 DEF TypedInv, PlayerInv, TimeInv, ClickInv, KeptInv

LEMMA RateStep == ASSUME TypedInv, NEW rate \in Rates, ChooseRate(rate) PROVE TypedInv'
  <1> USE DEF ChooseRate
  <1>1. PlayerTypeOK /\ element \in Element /\ ui \in View
    BY TypeParts DEF TypedInv
  <1>2. /\ ui' \in View /\ ui'.playing = ui.playing /\ ui'.playtime = ui.playtime /\ ui'.rate = rate
    BY <1>1 DEF View
  <1>3. /\ element' \in Element /\ element'.time = element.time /\ element'.paused = element.paused
        /\ element'.loaded = element.loaded /\ element'.events = element.events
        /\ element'.rate = rate
    BY <1>1 DEF Element
  <1>4. PlayerTypeOK'
    BY <1>1, <1>2, <1>3 DEF PlayerTypeOK, Element, Kinds, View
  <1> QED BY <1>2, <1>3, <1>4 DEF TypedInv, PlayerInv, PlayingInv, TimeInv, ClickInv, KeptInv

LEMMA ReopenStep == ASSUME TypedInv, Reopen PROVE TypedInv'
  <1> USE DEF Reopen
  <1>0. PlayerTypeOK /\ ui.rate \in Rates
    BY TypeParts DEF TypedInv, View
  <1>1. 0 \in Times
    BY PlayerAssumption DEF Times
  <1>2. /\ element' \in Element /\ element'.time = 0 /\ ~element'.loaded
        /\ element'.rate = ui.rate /\ ui' \in View /\ ui'.rate = ui.rate
        /\ PlayingInv(element', ui'.playing)
    BY <1>0, NewStep
  <1>3. switches' \in 0 .. MaxSwitches
    BY <1>0, PlayerAssumption, TypeParts
  <1>4. PlayerTypeOK'
    BY <1>1, <1>2, <1>3 DEF PlayerTypeOK, Element, Kinds, View, None
  <1> QED BY <1>2, <1>4 DEF TypedInv, PlayerInv, TimeInv, ClickInv, KeptInv

LEMMA PlayerStep == TypedInv /\ [PlayerNext]_playerVars => TypedInv'
  <1> SUFFICES ASSUME TypedInv, [PlayerNext]_playerVars PROVE TypedInv'
    OBVIOUS
  <1>1. CASE UNCHANGED playerVars
    BY <1>1 DEF playerVars, TypedInv, PlayerTypeOK, PlayerInv, PlayingInv, TimeInv, ClickInv, KeptInv
  <1>2. CASE PlayerNext
    BY <1>2, LoadedStep, AdvanceStep, StallStep, DeliverEventStep, UnheardStep, SkipStep,
       ToggleStep, SwitchStep, RateStep, ReopenStep DEF PlayerNext
  <1> QED BY <1>1, <1>2

-----------------------------------------------------------------------------
(* What the properties need                                                *)

\* A time just inside a word finds this word and no other: the words after it
\* begin later than that.
LEMMA HighlightOfWord ==
  ASSUME NEW k \in DOMAIN WordStarts
  PROVE  Highlight(WordStarts[k] + Nudge) = WordStarts[k]
  <1> DEFINE c == WordStarts[k]
             begun == {i \in DOMAIN WordStarts : WordStarts[i] # 0 /\ WordStarts[i] <= c + Nudge}
  <1>1. /\ \A i \in DOMAIN WordStarts : WordStarts[i] \in Nat /\ i \in Nat
        /\ \A i, j \in DOMAIN WordStarts : i < j => WordStarts[i] + 1 < WordStarts[j]
    BY PlayerAssumption, LenProperties, ElementOfSeq
  <1>2. \A i \in begun : i <= k
    BY <1>1 DEF Nudge
  <1>3. CASE c = 0
    <2>1. begun = {}
      BY <1>1, <1>3 DEF Nudge
    <2> QED BY <1>3, <2>1 DEF Highlight
  <1>4. CASE c # 0
    <2>1. k \in begun
      BY <1>1, <1>4 DEF Nudge
    <2> HIDE DEF begun
    <2>2. \A i \in begun : (\A j \in begun : j <= i) => i = k
      <3>1. begun \subseteq DOMAIN WordStarts
        BY DEF begun
      <3> QED BY <1>1, <1>2, <2>1, <3>1
    <2>3. (CHOOSE i \in begun : \A j \in begun : j <= i) = k
      BY <1>2, <2>1, <2>2
    <2> QED BY <2>1, <2>3 DEF Highlight, begun
  <1> QED BY <1>3, <1>4

LEMMA PropertiesHold == TypedInv => PlayerShowsElement
  <1> SUFFICES ASSUME TypedInv PROVE PlayerShowsElement
    OBVIOUS
  <1>1. /\ element \in Element /\ ui.playing \in BOOLEAN /\ element.paused \in BOOLEAN
        /\ DOMAIN <<>> = {} /\ Range(<<>>) = {}
    BY TypeParts DEF TypedInv, View, Element, Range
  <1>2. ButtonTellsTruth
    BY <1>1 DEF ButtonTellsTruth, TypedInv, PlayerInv, PlayingInv, LastSays
  <1>3. ShownTimeIsTrue
    BY <1>1 DEF ShownTimeIsTrue, TypedInv, PlayerInv, TimeInv
  <1>4. ClickedWordIsHighlighted
    BY HighlightOfWord DEF ClickedWordIsHighlighted, TypedInv, PlayerInv, ClickInv
  <1> QED BY <1>2, <1>3, <1>4 DEF PlayerShowsElement

\* Sources that have loaded bring the listener back: only Loaded ends loading.
LEMMA SwitchStepKeepsPlace ==
  ASSUME TypedInv, PlayerNext, ~element.loaded, element'.loaded
  PROVE  (kept # None => element'.time = kept) /\ element'.rate = ui.rate
  <1>1. element \in Element /\ ui.playing \in BOOLEAN /\ last \in Times
    BY TypeParts DEF TypedInv, View
  <1>2. CASE Loaded
    <2> DEFINE m == [element EXCEPT !.loaded = TRUE]
    <2>1. m \in Element /\ m.rate = element.rate
      BY <1>1 DEF Element
    <2>2. element' = Seeked(m, last) /\ Clamp(last) = last /\ last \in Int
      BY <1>1, <1>2, ClampTimes DEF Loaded
    <2> HIDE DEF m
    <2>3. element'.time = last /\ element'.rate = element.rate
      BY <2>1, <2>2, SeekedStep
    <2> QED BY <2>3 DEF TypedInv, PlayerInv, KeptInv
  <1>3. CASE Advance \/ Stall \/ Interpolate \/ SpinnerTimer \/ DeliverEvent
    <2>1. CASE Stall
      <3>1. PICK event \in {"waiting", "canplay"} : element' = Queued(element, event)
        BY <2>1 DEF Stall
      <3> QED BY <1>1, <2>1 DEF Stall
    <2> QED BY <1>1, <1>3, <2>1 DEF Advance, Interpolate, SpinnerTimer, DeliverEvent, Element
  <1>4. ASSUME NEW t, SetPlaytime(t), t \in -ShortcutSkip .. Duration + ShortcutSkip PROVE FALSE
    BY <1>4, SetPlaytimeStep
  <1>5. \A i \in DOMAIN WordStarts : ~ClickWord(WordStarts[i])
    <2> SUFFICES ASSUME NEW i \in DOMAIN WordStarts, ClickWord(WordStarts[i]) PROVE FALSE
      OBVIOUS
    <2>1. WordStarts[i] \in 0 .. Duration - 1
      BY PlayerAssumption, LenProperties, ElementOfSeq
    <2>2. WordStarts[i] + Nudge \in -ShortcutSkip .. Duration + ShortcutSkip
      BY <2>1, PlayerAssumption DEF ShortcutSkip, Nudge
    <2> QED BY <1>4, <2>2 DEF ClickWord
  <1>6. ~SkipButton
    <2>1. \A dt \in {-ButtonSkip, ButtonSkip, -HoldSkip, HoldSkip} :
            element.time + dt \in -ShortcutSkip .. Duration + ShortcutSkip
      BY <1>1, PlayerAssumption DEF Element, Times, ShortcutSkip, ButtonSkip, HoldSkip
    <2> QED BY <1>4, <2>1 DEF SkipButton, SeekRelative
  <1>7. \A x \in Positions : ~Drag(x) /\ ~Drop(x)
    <2> SUFFICES ASSUME NEW x \in Positions, Drag(x) \/ Drop(x) PROVE FALSE
      OBVIOUS
    <2>1. TimeFromPosition(x) \in Times
      BY PlayerAssumption, ClampType DEF Positions, TimeFromPosition
    <2>2. TimeFromPosition(x) \in -ShortcutSkip .. Duration + ShortcutSkip
      BY <2>1, PlayerAssumption DEF Times, ShortcutSkip
    <2> QED BY <1>4, <2>2 DEF Drag, Drop
  <1>8. CASE TogglePlaying \/ PressTab
    <2>1. CASE element' = Toggled(element)
      BY <1>1, <2>1, ToggledStep
    <2>2. ASSUME NEW dt \in {ShortcutSkip, -ShortcutSkip},
                 element' = Toggled(Seeked(element, element.time + dt))
          PROVE  FALSE
      <3>1. element.time + dt \in Int
        BY <1>1 DEF Element, Times, ShortcutSkip
      <3>2. Seeked(element, element.time + dt) \in Element /\ ~Seeked(element, element.time + dt).loaded
        BY <1>1, <3>1, SeekedStep DEF TypedInv, PlayerInv
      <3> QED BY <1>1, <2>2, <3>2, ToggledStep
    <2> QED BY <1>8, <2>1, <2>2 DEF TogglePlaying, PressTab
  <1>9. ~SwitchSources /\ ~Reopen /\ \A rate \in Rates : ~ChooseRate(rate)
    <2>1. ~Reopen /\ \A rate \in Rates : ~ChooseRate(rate)
      BY <1>1 DEF Reopen, NewElement, ChooseRate, Element
    <2>2. ASSUME SwitchSources PROVE FALSE
      <3>1. 0 \in Times /\ <<>> \in Seq(Kinds)
        BY PlayerAssumption, EmptySeq DEF Times
      <3>2. Emptied(element) \in Element /\ ~Emptied(element).loaded
        BY <1>1, <3>1, PlayerAssumption DEF Emptied, Element
      <3>3. /\ Played(Emptied(element)) \in Element /\ ~Played(Emptied(element)).loaded
            /\ Halted(Emptied(element)) \in Element /\ ~Halted(Emptied(element)).loaded
        BY <1>1, <3>2, PlayedStep, HaltedStep
      <3> QED BY <2>2, <3>3 DEF SwitchSources, ReplaceSources, Element
    <2> QED BY <2>1, <2>2
  <1> QED BY <1>2, <1>3, <1>5, <1>6, <1>7, <1>8, <1>9 DEF PlayerNext

LEMMA InvCorrect == PlayerSpec => []TypedInv
  BY InvAtStart, PlayerStep, PTL DEF PlayerSpec

-----------------------------------------------------------------------------
(* The theorems                                                            *)

\* The player's state keeps to its type: playback, seeks and sources change in
\* any order and the position stays within the recording.
THEOREM PlayerTypeCorrect == PlayerSpec => []PlayerTypeOK
  <1>1. TypedInv => PlayerTypeOK
    BY DEF TypedInv
  <1> QED BY <1>1, InvCorrect, PTL

\* The player bar shows what the <video> element does as soon as React has
\* heard its events, and the word clicked is the word highlighted.
THEOREM PlayerShowsElementCorrect == PlayerSpec => []PlayerShowsElement
  BY PropertiesHold, InvCorrect, PTL

\* Sources that are replaced come back at the same place and rate.
THEOREM SwitchKeepsPlaceCorrect == PlayerSpec => SwitchKeepsPlace
  <1> DEFINE Keeps == ~element.loaded /\ element'.loaded =>
                        (kept # None => element'.time = kept) /\ element'.rate = ui.rate
  <1>1. TypedInv /\ [PlayerNext]_playerVars => [Keeps]_playerVars
    BY SwitchStepKeepsPlace
  <1> QED BY <1>1, InvCorrect, PTL DEF PlayerSpec, SwitchKeepsPlace

=============================================================================
