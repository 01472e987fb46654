------------------------------- MODULE Widgets -------------------------------
(***************************************************************************)
(* The small parts the pages are made of, each with its timers and events:  *)
(* dropdown, popup and tooltip (useStateDelayed), buttons that repeat while *)
(* they are held, the modal holder, the menu bar of the desktop             *)
(* application, the resizable video preview, the file picker, and the debug *)
(* mode.  They do not meet: `widget' is the one that is used.               *)
(***************************************************************************)
EXTENDS Integers, FiniteSets

CONSTANTS
    Buttons,        \* buttons of the mouse
    MaxPresses,     \* bound: presses of them, and modals shown
    Accelerators,   \* of the menus: item -> whether Shift is part of it, and the key
    WindowWidth,    \* in steps of the least height of the preview
    Accepted,       \* files the picker accepts
    Refused,        \* files it does not
    Panels          \* components that use the debug mode

ASSUME WidgetsAssumption ==
    /\ MaxPresses \in Nat /\ WindowWidth \in Nat \ {0} /\ Accepted \cap Refused = {}
    /\ "nothing" \notin Accepted \cup Refused
    /\ \A item \in DOMAIN Accelerators : Accelerators[item].shift \in BOOLEAN

VARIABLE widget

Is(kind) == widget.kind = kind
NoTimer == "none"
Titles == {"File", "Edit"}
Heights == 0 .. WindowWidth

WidgetsTypeOK ==
    \/ /\ widget.kind \in {"dropdown", "tooltip"}
       /\ {widget.now, widget.late, widget.prolonged} \subseteq BOOLEAN
       /\ widget.timer \in {NoTimer, "late", "prolong"}
    \/ /\ Is("hold")
       /\ widget.down \subseteq Buttons /\ widget.running \subseteq 1 .. MaxPresses
       /\ widget.presses \in 0 .. MaxPresses
    \/ Is("modal") /\ widget.shown \in 0 .. MaxPresses /\ widget.closing \in 0 .. MaxPresses
    \/ Is("menu") /\ widget.open \in Titles \cup {"none"} /\ widget.fired \subseteq DOMAIN Accelerators
    \/ Is("video") /\ {widget.height, widget.spacer, widget.stored} \subseteq Heights
    \/ Is("picker") /\ widget.value \in Accepted \cup Refused \cup {"nothing"}
    \/ Is("debug") /\ widget.enabled \subseteq Panels /\ widget.mounted \subseteq Panels

WidgetsInit ==
    \/ \E kind \in {"dropdown", "tooltip"} :
          widget = [kind |-> kind, now |-> FALSE, late |-> FALSE, prolonged |-> FALSE,
                    timer |-> NoTimer]
    \/ widget = [kind |-> "hold", down |-> {}, inside |-> FALSE, longPressing |-> FALSE,
                 pending |-> {}, timeout |-> 0, running |-> {}, interval |-> 0,
                 presses |-> 0, met |-> {}]
    \/ widget = [kind |-> "modal", shown |-> 0, closing |-> 0, wanted |-> 0, uses |-> 0,
                 hasty |-> FALSE]
    \/ widget = [kind |-> "menu", open |-> "none", fired |-> {}, capsLock |-> FALSE,
                 shift |-> FALSE]
    \/ \E h \in Heights : h > 0 /\
          widget = [kind |-> "video", height |-> h, spacer |-> h, stored |-> h, aspect |-> 0,
                    from |-> [x |-> 0, y |-> 0], edge |-> "initial", width |-> 0, tall |-> h]
    \/ widget = [kind |-> "picker", value |-> "nothing", indicator |-> FALSE]
    \/ \E stored \in BOOLEAN :
          widget = [kind |-> "debug", stored |-> stored, mounted |-> {}, enabled |-> {}]

----------------------------------------------------------------------------
(* useStateDelayed: dropdown.tsx, popup.tsx, tooltip.tsx.                   *)

\* Mutant: the timer of the last change goes on.
Mutant_SetShow(next) ==
    widget' = IF next
              THEN [widget EXCEPT !.now = TRUE, !.prolonged = TRUE,
                                  !.timer = IF @ = NoTimer THEN "late" ELSE @]
              ELSE [widget EXCEPT !.now = FALSE, !.late = FALSE,
                                  !.timer = IF @ = NoTimer THEN "prolong" ELSE @]

SetShow(next) ==
    widget' = IF next
              THEN [widget EXCEPT !.now = TRUE, !.prolonged = TRUE, !.timer = "late"]
              ELSE [widget EXCEPT !.now = FALSE, !.late = FALSE, !.timer = "prolong"]

DelayPasses ==
    /\ widget.kind \in {"dropdown", "tooltip"} /\ widget.timer # NoTimer
    /\ widget' = IF widget.timer = "late"
                 THEN [widget EXCEPT !.late = TRUE, !.timer = NoTimer]
                 ELSE [widget EXCEPT !.prolonged = FALSE, !.timer = NoTimer]

\* A click on the button or in the dropdown, or elsewhere.
ClickDropdown ==
    /\ Is("dropdown")
    /\ \E outside \in BOOLEAN : SetShow(~outside /\ ~widget.now)

\* Mouse or focus comes and goes, each for itself.
HoverTooltip ==
    /\ Is("tooltip")
    /\ \E next \in BOOLEAN : SetShow(next)

----------------------------------------------------------------------------
(* useButtonLongPress, useButtonHoldRepeat: button_hooks.ts.                *)

Timers(state) == state.pending \cup state.running

\* Nothing stops the timer of an earlier press; met is a history of the presses
\* that met the timer of another one.
MouseDown(b) ==
    /\ Is("hold") /\ widget.inside /\ b \notin widget.down /\ widget.presses < MaxPresses
    /\ LET n == widget.presses + 1
       IN  widget' = [widget EXCEPT !.down = @ \cup {b}, !.presses = n, !.timeout = n,
                                    !.pending = @ \cup {n},
                                    !.met = IF Timers(widget) = {} THEN @
                                            ELSE @ \cup Timers(widget) \cup {n}]

LongPress(n) ==
    /\ Is("hold") /\ n \in widget.pending
    /\ widget' = [widget EXCEPT !.pending = @ \ {n}, !.longPressing = TRUE,
                                !.running = @ \cup {n}, !.interval = n]

Released(state) ==
    [state EXCEPT !.pending = @ \ {state.timeout},
                  !.running = IF state.longPressing THEN @ \ {state.interval} ELSE @,
                  !.longPressing = FALSE]

\* A release elsewhere is not heard of.
MouseUp(b) ==
    /\ Is("hold") /\ b \in widget.down
    /\ widget' = LET up == [widget EXCEPT !.down = @ \ {b}]
                 IN  IF widget.inside THEN Released(up) ELSE up

MouseMoves ==
    /\ Is("hold")
    /\ widget' = LET moved == [widget EXCEPT !.inside = ~@]
                 IN  IF widget.inside THEN Released(moved) ELSE moved

----------------------------------------------------------------------------
(* ModalHolder: modal.tsx.  Zero is no modal; hasty is of the newest one: it   *)
(* was opened while another one was still fading.                           *)

ShowModal ==
    /\ Is("modal") /\ widget.uses < MaxPresses
    /\ widget' = [widget EXCEPT !.shown = widget.uses + 1, !.wanted = widget.uses + 1,
                                !.uses = @ + 1, !.hasty = widget.closing > 0]

\* Escape, a click beside it, or a button of it; more than once while it fades.
CloseModal ==
    /\ Is("modal") /\ widget.shown # 0 /\ widget.closing < MaxPresses
    /\ widget' = [widget EXCEPT !.wanted = 0, !.closing = @ + 1]

ModalFaded ==
    /\ Is("modal") /\ widget.closing > 0
    /\ widget' = [widget EXCEPT !.shown = 0, !.closing = @ - 1]

----------------------------------------------------------------------------
(* MenuBar: menu.tsx.                                                      *)

ClickTitle(title) ==
    /\ Is("menu")
    /\ widget' = [widget EXCEPT !.open = IF @ = title THEN "none" ELSE title, !.fired = {}]

HoverTitle(title) ==
    /\ Is("menu") /\ widget.open # "none"
    /\ widget' = [widget EXCEPT !.open = title]

\* A click on an item runs it and is a click outside of the title's button.
ClickItem(item) ==
    /\ Is("menu") /\ widget.open # "none"
    /\ widget' = [widget EXCEPT !.open = "none", !.fired = {}]

CloseMenu ==
    /\ Is("menu")
    /\ widget' = [widget EXCEPT !.open = "none", !.fired = {}]

\* Ctrl and a key: the key of the event is a capital letter with either of Shift
\* and Caps Lock; an accelerator without Shift does not ask about it.
Fired(key, shift, capsLock) ==
    {item \in DOMAIN Accelerators :
        /\ Accelerators[item].key = key
        /\ shift = capsLock
        /\ Accelerators[item].shift => shift}

PressKeys(key, shift, capsLock) ==
    /\ Is("menu")
    /\ widget' = [widget EXCEPT !.fired = Fired(key, shift, capsLock),
                                !.shift = shift, !.capsLock = capsLock]

----------------------------------------------------------------------------
(* The video preview: use_audio.ts.  Its width is its height times an       *)
(* aspect; the pointer takes it by the left or the upper edge.              *)

Aspects == {1, 2}

MaxHeight(aspect) == (WindowWidth - 1) \div aspect

TakeEdge ==
    /\ Is("video") /\ widget.edge = "initial"
    /\ \E x, y \in Heights, edge \in {"nw", "w", "n"}, aspect \in Aspects :
          widget' = [widget EXCEPT !.edge = edge, !.from = [x |-> x, y |-> y],
                                   !.aspect = aspect, !.tall = widget.height,
                                   !.width = widget.height * aspect]

\* Mutant: the least height is not kept.
Mutant_ResizedTo(height, aspect) ==
    IF height < MaxHeight(aspect) THEN height ELSE MaxHeight(aspect)

ResizedTo(height, aspect) ==
    LET most == IF height < MaxHeight(aspect) THEN height ELSE MaxHeight(aspect)
    IN  IF most > 1 THEN most ELSE 1

MoveEdge ==
    /\ Is("video") /\ widget.edge # "initial"
    /\ \E x, y \in Heights :
          LET width == widget.width + widget.from.x - x
              height == widget.tall + widget.from.y - y
              byWidth == \/ widget.edge = "w"
                         \/ widget.edge = "nw" /\ widget.aspect * height > width
              new == ResizedTo(IF byWidth THEN width \div widget.aspect ELSE height,
                               widget.aspect)
          IN  widget' = [widget EXCEPT !.height = new, !.spacer = new, !.stored = new]

LeaveEdge ==
    /\ Is("video") /\ widget.edge # "initial"
    /\ widget' = [widget EXCEPT !.edge = "initial", !.from = [x |-> 0, y |-> 0], !.width = 0,
                                !.tall = widget.height]

----------------------------------------------------------------------------
(* DropFilePicker: drop_file_picker.tsx.                                   *)

DragFile ==
    /\ Is("picker")
    /\ \E over \in BOOLEAN : widget' = [widget EXCEPT !.indicator = over]

\* Dropped at any time, or chosen while there is none; "nothing" is a drag
\* without a file, for which fileAccepted throws.
PickFile ==
    /\ Is("picker")
    /\ \E file \in Accepted \cup Refused \cup {"nothing"}, dropped \in BOOLEAN :
          /\ dropped \/ widget.value = "nothing"
          /\ widget' = [widget EXCEPT !.indicator = IF dropped THEN FALSE ELSE @,
                                      !.value = IF file \in Accepted THEN file ELSE @]

RemoveSelection ==
    /\ Is("picker") /\ widget.value # "nothing"
    /\ widget' = [widget EXCEPT !.value = "nothing"]

----------------------------------------------------------------------------
(* useDebugMode: debug_mode.ts.                                            *)

ToggleDebugMode ==
    /\ Is("debug")
    /\ widget' = [widget EXCEPT !.stored = ~@,
                                !.enabled = IF widget.stored THEN {} ELSE widget.mounted]

MountPanel(p) ==
    /\ Is("debug") /\ p \notin widget.mounted
    /\ widget' = [widget EXCEPT !.mounted = @ \cup {p},
                                !.enabled = IF widget.stored THEN @ \cup {p} ELSE @]

UnmountPanel(p) ==
    /\ Is("debug") /\ p \in widget.mounted
    /\ widget' = [widget EXCEPT !.mounted = @ \ {p}, !.enabled = @ \ {p}]

----------------------------------------------------------------------------
WidgetsNext ==
    \/ DelayPasses \/ ClickDropdown \/ HoverTooltip
    \/ \E b \in Buttons : MouseDown(b) \/ MouseUp(b)
    \/ \E n \in 1 .. MaxPresses : LongPress(n)
    \/ MouseMoves
    \/ ShowModal \/ CloseModal \/ ModalFaded
    \/ \E title \in Titles : ClickTitle(title) \/ HoverTitle(title)
    \/ \E item \in DOMAIN Accelerators : ClickItem(item)
    \/ CloseMenu
    \/ \E item \in DOMAIN Accelerators, shift, capsLock \in BOOLEAN :
          PressKeys(Accelerators[item].key, shift, capsLock)
    \/ TakeEdge \/ MoveEdge \/ LeaveEdge
    \/ DragFile \/ PickFile \/ RemoveSelection
    \/ ToggleDebugMode
    \/ \E p \in Panels : MountPanel(p) \/ UnmountPanel(p)

WidgetsSpec == WidgetsInit /\ [][WidgetsNext]_widget

----------------------------------------------------------------------------
(* Properties.                                                             *)

\* Whatever the order of clicks and timers, what fades in is mounted and wanted,
\* and without a timer all three agree (the drawing in use_state_delayed.ts).
DelaysAgree ==
    widget.kind \in {"dropdown", "tooltip"} =>
        /\ widget.late => widget.now
        /\ widget.now => widget.prolonged
        /\ widget.timer = NoTimer => widget.late = widget.now /\ widget.prolonged = widget.now

\* What is held repeats only while a button is down and the pointer on it.  The
\* exception is the code's: of two timers at a time, of two buttons of the mouse,
\* it knows only one and loses the other, whose repetition outlasts the release.
HoldingStops ==
    Is("hold") /\ (widget.down = {} \/ ~widget.inside) => Timers(widget) \subseteq widget.met

\* Once nothing fades any more, a modal that was closed is gone, and one that was
\* not closed is there, but for one opened while another was fading: the timeout of
\* the other takes it away with whatever was entered (modal.tsx:28-32).
ModalIsWanted ==
    Is("modal") /\ widget.closing = 0 =>
        \/ widget.shown = widget.wanted
        \/ widget.shown = 0 /\ widget.hasty

\* Without Caps Lock keys run only the item that shows them.
KeysAreTheItems ==
    Is("menu") /\ ~widget.capsLock =>
        \A item \in widget.fired : Accelerators[item].shift = widget.shift

\* The preview stays visible and within the window, and the space below the
\* transcript is as high as what is remembered for the next time.
PreviewFits ==
    Is("video") =>
        /\ widget.height = widget.spacer /\ widget.height = widget.stored
        /\ widget.height >= 1
        /\ widget.edge # "initial" => \/ widget.height = widget.tall
                                      \/ widget.height <= MaxHeight(widget.aspect)
                                      \/ widget.height = 1

\* Every component knows whether the debug mode is on.
DebugIsKnown == Is("debug") => widget.enabled = IF widget.stored THEN widget.mounted ELSE {}

WidgetsSettle ==
    /\ DelaysAgree /\ HoldingStops /\ ModalIsWanted
    /\ KeysAreTheItems /\ PreviewFits /\ DebugIsKnown

=============================================================================
