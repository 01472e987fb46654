--------------------------- MODULE DesktopProofs ---------------------------
(***************************************************************************)
(* Machine-checked proofs about the desktop application, for every set of  *)
(* documents and paths and any number of changes, windows and saves, and   *)
(* about its archives, write by write, for every size of a block, of media *)
(* and of documents.                                                       *)
(***************************************************************************)
EXTENDS MCDesktopApp, SequenceFacts

-----------------------------------------------------------------------------
(* The state                                                               *)

Changed == [kind : {"document_changed"}, unsaved : BOOLEAN]
Incoming == [kind : {"automerge_change"}, change : Nat]
Event == Changed \cup Incoming

Page == [at : {"closed", "reading", "loaded", "listening"}, doc : Seq(Nat),
         outbox : Seq(Nat), events : Seq(Event), reply : {"none", "*", "", "done"},
         title : BOOLEAN, heard : BOOLEAN]

Row == [save : Paths \cup {NoPath}, unsaved : BOOLEAN, media : BOOLEAN,
        from : Paths \cup {NoPath}]

Stages == {"idle", "begun", "read", "written", "kicked", "opened"}

Command == [stage : Stages, id : Ids \cup {0}, path : Paths \cup {NoPath}, as : BOOLEAN,
            from : Paths \cup {NoPath}, doc : Seq(Nat), stale : BOOLEAN]

\* A listed document has a working copy.
LibraryInv ==
  /\ Listed \subseteq Ids /\ documents \in [Listed -> Row]
  /\ contents \in [Ids -> Seq(Nat) \cup {NoFile, Removed}]
  /\ \A id \in Listed : contents[id] \in Seq(Nat)
  /\ files \in [Paths -> Seq(Nat) \cup {NoFile}]

\* Only a window that listens has events, or heard any.
Sound(page) ==
  /\ page \in Page
  /\ page.at # "listening" => page.events = <<>> /\ ~page.heard
  /\ page.at \in {"closed", "reading"} => page.outbox = <<>>

PagesInv ==
  /\ pages \in [Ids -> Page]
  /\ \A id \in Ids : Sound(pages[id]) /\ Len(pages[id].events) <= MaxEvents

\* A save is of a document that was made, and once it does not ask for a path it
\* has one.
Placed(m, copies) ==
  /\ m.stage \in {"begun", "read", "written", "kicked"} =>
       m.id \in Ids /\ copies[m.id] # NoFile
  /\ \/ m.stage = "begun" /\ ~m.as
     \/ m.stage \in {"read", "written", "kicked", "opened"}
     => m.path \in Paths
  /\ m.stage = "opened" => m.id = 0

CommandsInv ==
  /\ commands \in [Commands -> Command]
  /\ \A c \in Commands : Placed(commands[c], contents)

\* Only an open page has changes it will not show.
HistoryInv ==
  /\ asked \in Ids \cup {NotAsked} /\ changes \in Nat /\ overtaken \subseteq Ids
  /\ DOMAIN lost = Ids
  /\ \A id \in Ids :
       /\ lost[id] \subseteq 1 .. changes
       /\ pages[id].at \in {"closed", "reading"} => lost[id] = {}

StateInv == LibraryInv /\ PagesInv /\ CommandsInv /\ HistoryInv

-----------------------------------------------------------------------------
(* Windows                                                                 *)

\* The changes that events bring.
Carried(events) ==
  {e.change : e \in {d \in Range(events) : d.kind = "automerge_change"}}

\* A change to come is in no document, file or window.  (What stands for no
\* document holds -1 or -2.)
Known == -2 .. changes

KnownPage(page, known) ==
  Range(page.doc) \subseteq known /\ Range(page.outbox) \subseteq known
    /\ Carried(page.events) \subseteq known

KnownContents == \A id \in Ids : Range(contents[id]) \subseteq Known
KnownPages == \A id \in Ids : KnownPage(pages[id], Known)
KnownFiles == \A path \in Paths : Range(files[path]) \subseteq Known
KnownCommands == \A c \in Commands : Range(commands[c].doc) \subseteq Known

KnownInv == KnownContents /\ KnownPages /\ KnownFiles /\ KnownCommands

\* What a window shows or is about to be told is what the working copy of its
\* document has or is about to get, but for what is lost for it.
ShowsDocument(id) ==
  pages[id].at \in {"loaded", "listening"} =>
    /\ Range(pages[id].doc) \cap lost[id] = {}
    /\ (Range(pages[id].doc) \cup Carried(pages[id].events)) \ lost[id]
         = (Range(contents[id]) \cup Range(pages[id].outbox)) \ lost[id]

ShowInv == \A id \in Listed : ShowsDocument(id)

\* The last that events, or else the title, tell of unsaved changes.
Tells(page, unsaved) ==
  LET told == {i \in DOMAIN page.events : page.events[i].kind = "document_changed"}
  IN  IF told = {} THEN page.heard => page.title = unsaved
      ELSE \E i \in told : page.events[i].unsaved = unsaved /\ \A j \in told : j <= i

TitleInv ==
  \A id \in Listed : pages[id].at = "listening" => Tells(pages[id], documents[id].unsaved)

-----------------------------------------------------------------------------
(* Files                                                                   *)

\* What a command has read or written, while it is not stale: what the working
\* copy has, and then the file.
Current(m) ==
  /\ m.stage \in {"read", "written", "kicked"} /\ m.id \in Listed
       => Range(m.doc) = Range(contents[m.id])
  /\ \/ m.stage \in {"written", "kicked"} /\ m.id \in Listed
     \/ m.stage = "opened"
     => Range(files[m.path]) = Range(m.doc)

Right(c) == commands[c].stale \/ Current(commands[c])

SaveInv == SavedIsInFile /\ \A c \in Commands : Right(c)

-----------------------------------------------------------------------------
(* Events                                                                  *)

LEMMA CarriedAppend ==
  ASSUME NEW s \in Seq(Event), NEW e \in Event
  PROVE  Carried(Append(s, e)) =
           Carried(s) \cup IF e.kind = "automerge_change" THEN {e.change} ELSE {}
  BY RangeOfAppend DEF Carried

LEMMA CarriedTail ==
  ASSUME NEW s \in Seq(Event), s # <<>>
  PROVE  Carried(s) =
           Carried(Tail(s)) \cup IF Head(s).kind = "automerge_change" THEN {Head(s).change} ELSE {}
  BY RangeOfTail DEF Carried

LEMMA EmptyRange == Range(<<>>) = {} /\ Carried(<<>>) = {}
  BY DEF Carried, Range

\* A window that is told one more thing.
LEMMA ToldPage ==
  ASSUME NEW page, Sound(page), NEW e \in Event
  PROVE  /\ Sound(Told(page, e)) /\ Len(Told(page, e).events) <= Len(page.events) + 1
         /\ Told(page, e).at = page.at /\ Told(page, e).doc = page.doc
         /\ Told(page, e).outbox = page.outbox
         /\ Told(page, e).events =
              IF page.at = "listening" THEN Append(page.events, e) ELSE page.events
  <1>1. page \in Page /\ page.events \in Seq(Event) /\ Len(page.events) \in Nat
    BY LenProperties DEF Sound, Page
  <1>2. Append(page.events, e) \in Seq(Event) /\ Len(Append(page.events, e)) = Len(page.events) + 1
    BY <1>1, AppendProperties
  <1>3. CASE page.at = "listening"
    <2> DEFINE q == [page EXCEPT !.events = Append(page.events, e)]
    <2>1. Told(page, e) = q
      BY <1>1, <1>3 DEF Told
    <2>2. /\ q \in Page /\ q.at = page.at /\ q.doc = page.doc /\ q.outbox = page.outbox
          /\ q.events = Append(page.events, e)
      BY <1>1, <1>2 DEF Page
    <2> HIDE DEF q
    <2> QED BY <1>1, <1>2, <1>3, <2>1, <2>2 DEF Sound
  <1>4. CASE page.at # "listening"
    <2>1. Told(page, e) = page
      BY <1>4 DEF Told
    <2> QED BY <1>1, <1>4, <2>1
  <1> QED BY <1>3, <1>4

-----------------------------------------------------------------------------
(* Every step keeps the state as it should be                              *)

LEMMA NoFileIsNone ==
  /\ NoFile \notin Seq(Nat) /\ Removed \notin Seq(Nat) /\ NoFile # Removed
  /\ NoPath \notin Paths /\ 0 \notin Ids
  <1>1. ASSUME NEW s, s = NoFile \/ s = Removed, s \in Seq(Nat) PROVE FALSE
    <2>1. s[1] \in Nat
      BY <1>1, ElementOfSeq, Len(s) = 1, 1 \in 1 .. 1 DEF NoFile, Removed
    <2> QED BY <1>1, <2>1 DEF NoFile, Removed
  <1>2. NoFile[1] = -1 /\ Removed[1] = -2
    BY DEF NoFile, Removed
  <1> QED BY <1>1, <1>2, DesktopAssumption DEF NoPath

LEMMA ClosedIsSound ==
  /\ Sound(Closed) /\ Closed.at = "closed" /\ Closed.events = <<>> /\ Closed.outbox = <<>>
  /\ Sound([Closed EXCEPT !.at = "reading"])
  /\ [Closed EXCEPT !.at = "reading"].at = "reading"
  /\ [Closed EXCEPT !.at = "reading"].events = <<>>
  /\ [Closed EXCEPT !.at = "reading"].outbox = <<>>
  /\ Len(<<>>) = 0 /\ Closed.doc = <<>> /\ [Closed EXCEPT !.at = "reading"].doc = <<>>
  BY EmptySeq DEF Closed, Sound, Page

LEMMA NoCommandIsPlaced == NoCommand \in Command /\ (\A copies : Placed(NoCommand, copies)) /\ NoCommand.stage = "idle"
                             /\ NoCommand.doc = <<>>
  BY EmptySeq DEF NoCommand, Command, Stages, Placed

LEMMA StateInit == DesktopInit => StateInv
  <1> SUFFICES ASSUME DesktopInit PROVE StateInv
    OBVIOUS
  <1>1. LibraryInv
    <2>1. Listed = {} /\ documents \in [Listed -> Row]
      BY DEF DesktopInit, Listed
    <2>2. contents \in [Ids -> Seq(Nat) \cup {NoFile, Removed}]
      BY DEF DesktopInit
    <2>3. files \in [Paths -> Seq(Nat) \cup {NoFile}]
      BY EmptySeq DEF DesktopInit
    <2> QED BY <2>1, <2>2, <2>3 DEF LibraryInv
  <1>2. PagesInv
    <2>1. pages \in [Ids -> Page] /\ \A id \in Ids : pages[id] = Closed
      BY ClosedIsSound DEF DesktopInit, Sound
    <2> QED BY <2>1, ClosedIsSound, DesktopAssumption DEF PagesInv
  <1>3. CommandsInv
    BY NoCommandIsPlaced DEF DesktopInit, CommandsInv
  <1>4. HistoryInv
    BY DEF DesktopInit, HistoryInv, NotAsked
  <1> QED BY <1>1, <1>2, <1>3, <1>4 DEF StateInv

\* What the page of a window does by itself.
WindowAction(id) ==
  \/ ReadAutomerge(id) \/ Listen(id) \/ Edit(id)
  \/ GetDocument(id) \/ DeliverReply(id) \/ DeliverEvent(id) \/ CloseWindow(id)

LEMMA WindowActionKeeps ==
  ASSUME PagesInv, NEW id \in Ids, WindowAction(id)
  PROVE  /\ UNCHANGED <<documents, contents, files, commands, asked, overtaken>>
         /\ \A d \in Ids \ {id} : pages'[d] = pages[d]
  BY DEF WindowAction, ReadAutomerge, Listen, Edit, GetDocument, DeliverReply, DeliverEvent,
         CloseWindow, PagesInv

LEMMA FreshIsUnknown ==
  ASSUME StateInv, NEW id \in FreshIds
  PROVE  /\ id \in Ids \ Listed /\ pages[id].at = "closed" /\ contents[id] = NoFile
         /\ \A c \in Commands :
              commands[c].stage \in {"begun", "read", "written", "kicked"} => commands[c].id # id
  BY NoFileIsNone DEF FreshIds, StateInv, LibraryInv, CommandsInv, Placed

LEMMA RowStep ==
  ASSUME LibraryInv, NEW id \in Ids, NEW field \in {"unsaved", "media"}, NEW value \in BOOLEAN,
         UpdateDocument(id, field, value)
  PROVE  /\ Listed' = Listed /\ documents' \in [Listed -> Row]
         /\ id \in Listed =>
              /\ field = "unsaved" => documents'[id].unsaved = value
              /\ field # "unsaved" => documents'[id].unsaved = documents[id].unsaved
         /\ \A d \in Listed : documents'[d].save = documents[d].save
         /\ \A d \in Listed \ {id} : documents'[d] = documents[d]
  <1>1. CASE id \in Listed
    <2> DEFINE row == [documents[id] EXCEPT ![field] = value]
    <2>1. documents[id] \in Row /\ documents \in [Listed -> Row]
      BY <1>1 DEF LibraryInv
    <2>2. row \in Row /\ row.save = documents[id].save
          /\ (field = "unsaved" => row.unsaved = value)
          /\ (field # "unsaved" => row.unsaved = documents[id].unsaved)
      BY <2>1 DEF Row
    <2>3. documents' = [documents EXCEPT ![id] = row]
      BY <1>1 DEF UpdateDocument
    <2> HIDE DEF row
    <2> QED BY <1>1, <2>1, <2>2, <2>3 DEF Listed
  <1>2. CASE id \notin Listed
    BY <1>2 DEF UpdateDocument, LibraryInv, Listed
  <1> QED BY <1>1, <1>2

LEMMA AddStep ==
  ASSUME LibraryInv, NEW id \in Ids \ Listed, NEW row \in Row, AddDocument(id, row)
  PROVE  /\ Listed' = Listed \cup {id} /\ Listed' \subseteq Ids
         /\ documents' \in [Listed' -> Row]
         /\ documents'[id] = row /\ \A d \in Listed : documents'[d] = documents[d]
  BY DEF AddDocument, LibraryInv, Listed

LEMMA WithoutStep ==
  ASSUME LibraryInv, NEW gone, documents' = Without(documents, gone)
  PROVE  /\ Listed' = Listed \ gone /\ documents' \in [Listed' -> Row]
         /\ \A d \in Listed' : documents'[d] = documents[d]
  BY DEF Without, LibraryInv, Listed

LEMMA ForgetStep ==
  ASSUME LibraryInv, NEW id \in Ids, ForgetDocument(id), UNCHANGED files
  PROVE  /\ LibraryInv'
         /\ Listed' = Listed \ {id}
         /\ \A d \in Listed' : documents'[d] = documents[d]
         /\ \A d \in Ids \ {id} : contents'[d] = contents[d]
         /\ contents'[id] = contents[id] \/ contents'[id] = Removed
         /\ \A d \in Ids : contents[d] # NoFile => contents'[d] # NoFile
  <1>1. /\ Listed' = Listed \ {id} /\ documents' \in [Listed' -> Row]
        /\ \A d \in Listed' : documents'[d] = documents[d]
    BY WithoutStep DEF ForgetDocument
  <1>2. /\ contents' \in [Ids -> Seq(Nat) \cup {NoFile, Removed}]
        /\ \A d \in Ids \ {id} : contents'[d] = contents[d]
        /\ contents'[id] = contents[id] \/ contents'[id] = Removed
    BY DEF ForgetDocument, LibraryInv
  <1>3. \A d \in Ids : contents[d] # NoFile => contents'[d] # NoFile
    BY <1>2, NoFileIsNone
  <1> HIDE DEF NoFile, Removed
  <1> QED BY <1>1, <1>2, <1>3 DEF LibraryInv

\* Changes of documents and files.
LEMMA LibraryStep == StateInv /\ [DesktopNext]_desktopVars => LibraryInv'
  <1> SUFFICES ASSUME StateInv, [DesktopNext]_desktopVars PROVE LibraryInv'
    OBVIOUS
  <1>0. LibraryInv /\ <<>> \in Seq(Nat)
    BY EmptySeq DEF StateInv
  <1>1. ASSUME UNCHANGED <<documents, contents, files>> PROVE LibraryInv'
    BY <1>0, <1>1 DEF LibraryInv, Listed
  <1>2. ASSUME NEW id \in Ids, TranscribeFile(id) PROVE LibraryInv'
    <2> DEFINE row == [save |-> NoPath, unsaved |-> FALSE, media |-> FALSE, from |-> NoPath]
    <2>1. /\ AddDocument(id, row) /\ contents' = [contents EXCEPT ![id] = <<>>]
          /\ files' = files /\ row \in Row
      BY <1>2 DEF TranscribeFile, Row
    <2>2. id \in Ids \ Listed
      BY <1>2, FreshIsUnknown DEF TranscribeFile
    <2> HIDE DEF row
    <2> QED BY <1>0, <2>1, <2>2, AddStep DEF LibraryInv
  <1>3. ASSUME NEW c \in Commands, NEW id \in Ids, FinishOpen(c, id) PROVE LibraryInv'
    <2> DEFINE path == commands[c].path
               row == [save |-> path, unsaved |-> FALSE, media |-> TRUE, from |-> path]
    <2>1. /\ AddDocument(id, row) /\ contents' = [contents EXCEPT ![id] = commands[c].doc]
          /\ files' = files
      BY <1>3 DEF FinishOpen
    <2>2. commands[c].doc \in Seq(Nat) /\ row \in Row
      BY DEF StateInv, CommandsInv, Command, Row
    <2>3. id \in Ids \ Listed
      BY <1>3, FreshIsUnknown DEF FinishOpen
    <2> HIDE DEF row
    <2> QED BY <1>0, <2>1, <2>2, <2>3, AddStep DEF LibraryInv
  <1>4. ASSUME NEW yes \in BOOLEAN, AnswerDelete(yes) PROVE LibraryInv'
    <2>1. asked \in Ids /\ files' = files
      BY <1>4 DEF AnswerDelete, StateInv, HistoryInv
    <2> QED BY <1>0, <1>1, <1>4, <2>1, ForgetStep DEF AnswerDelete
  <1>5. ASSUME NEW id \in Ids, RemoveFromRecent(id) PROVE LibraryInv'
    BY <1>0, <1>5, ForgetStep DEF RemoveFromRecent
  <1>6. ASSUME NEW id \in Ids, WindowAction(id) PROVE LibraryInv'
    BY <1>1, <1>6, WindowActionKeeps DEF StateInv
  <1>7. ASSUME NEW id \in Listed, NEW n \in Nat, UpdateDocument(id, "unsaved", TRUE),
               contents' = [contents EXCEPT ![id] = Append(@, n)], UNCHANGED files
        PROVE  LibraryInv'
    <2>1. id \in Ids /\ contents[id] \in Seq(Nat)
      BY <1>0, <1>7 DEF LibraryInv
    <2>2. Append(contents[id], n) \in Seq(Nat)
      BY <2>1, AppendProperties
    <2>3. Listed' = Listed /\ documents' \in [Listed -> Row]
      BY <1>0, <1>7, <2>1, RowStep
    <2> HIDE DEF NoFile, Removed
    <2> QED BY <1>0, <1>7, <2>1, <2>2, <2>3 DEF LibraryInv
  <1>8. ASSUME NEW id \in Ids, AppendAutomergeChange(id) PROVE LibraryInv'
    <2>1. CASE id \in Listed
      <3>1. Head(pages[id].outbox) \in Nat
        BY <1>8, HeadTailProperties DEF AppendAutomergeChange, StateInv, PagesInv, Page
      <3> QED BY <1>7, <1>8, <2>1, <3>1 DEF AppendAutomergeChange
    <2>2. CASE id \notin Listed
      BY <1>1, <1>8, <2>2 DEF AppendAutomergeChange
    <2> QED BY <2>1, <2>2
  <1>9. ASSUME NEW id \in Ids, WorkerChange(id) PROVE LibraryInv'
    <2>1. changes' \in Nat
      BY <1>9 DEF WorkerChange, StateInv, HistoryInv
    <2> QED BY <1>7, <1>9, <2>1 DEF WorkerChange, Worked
  <1>10. ASSUME NEW id \in Ids, WorkerProgress(id) \/ MediaFileAdded(id) PROVE LibraryInv'
    <2>1. CASE WorkerProgress(id)
      BY <1>1, <2>1 DEF WorkerProgress
    <2>2. CASE MediaFileAdded(id)
      BY <1>0, <2>2, RowStep DEF MediaFileAdded, LibraryInv
    <2> QED BY <1>10, <2>1, <2>2
  <1>11. ASSUME NEW c \in Commands, WriteArchive(c) \/ WriteFails(c) PROVE LibraryInv'
    <2>1. commands[c].doc \in Seq(Nat)
      BY DEF StateInv, CommandsInv, Command
    <2>2. UNCHANGED <<documents, contents>> /\ files' \in [Paths -> Seq(Nat) \cup {NoFile}]
      BY <1>0, <1>11, <2>1 DEF WriteArchive, WriteFails, LibraryInv
    <2> QED BY <1>0, <2>2 DEF LibraryInv, Listed
  <1>12. ASSUME NEW c \in Commands, KickOut(c) PROVE LibraryInv'
    BY <1>0, <1>12, WithoutStep DEF KickOut, LibraryInv
  <1>13. ASSUME NEW c \in Commands, MarkSaved(c) PROVE LibraryInv'
    <2> DEFINE m == commands[c]
               row == [documents[m.id] EXCEPT !.save = IF m.as THEN m.path ELSE documents[m.id].save,
                                              !.unsaved = FALSE]
    <2>1. m \in Command /\ UNCHANGED <<contents, files>>
      BY <1>13 DEF MarkSaved, StateInv, CommandsInv
    <2>2. CASE m.id \in Listed
      <3>1. documents' = [documents EXCEPT ![m.id] = row]
        BY <1>13, <2>2 DEF MarkSaved
      <3>2. row \in Row
        BY <1>0, <2>1, <2>2 DEF LibraryInv, Row, Command
      <3> HIDE DEF row
      <3> QED BY <1>0, <2>1, <2>2, <3>1, <3>2 DEF LibraryInv, Listed
    <2>3. CASE m.id \notin Listed
      BY <1>1, <1>13, <2>1, <2>3 DEF MarkSaved
    <2> QED BY <2>2, <2>3
  <1>14. ASSUME NEW c \in Commands, NEW id \in Ids, SaveDocument(c, id) \/ SaveDocumentAs(c, id)
         PROVE  LibraryInv'
    BY <1>1, <1>14 DEF SaveDocument, SaveDocumentAs, BeginSaving
  <1>15. ASSUME NEW id \in Ids, OpenDocumentWindow(id) \/ AskToDelete(id) PROVE LibraryInv'
    BY <1>1, <1>15 DEF OpenDocumentWindow, AskToDelete
  <1>16. ASSUME NEW c \in Commands, CancelSave(c) \/ ReadWorkingCopy(c)
         PROVE  LibraryInv'
    BY <1>1, <1>16 DEF CancelSave, ReadWorkingCopy
  <1>17. ASSUME NEW c \in Commands, NEW path \in Paths, OpenFile(c, path) PROVE LibraryInv'
    BY <1>1, <1>17 DEF OpenFile
  <1>18. CASE UNCHANGED desktopVars
    BY <1>1, <1>18 DEF desktopVars
  <1> QED BY <1>2, <1>3, <1>4, <1>5, <1>6, <1>8, <1>9, <1>10, <1>11, <1>12, <1>13, <1>14, <1>15,
             <1>16, <1>17, <1>18 DEF DesktopNext, WindowAction

\* Steps of one window.
LEMMA PageStep ==
  ASSUME PagesInv, NEW id \in Ids, NEW p, Sound(p), Len(p.events) <= MaxEvents,
         pages' = [pages EXCEPT ![id] = p]
  PROVE  PagesInv' /\ pages'[id] = p /\ \A d \in Ids \ {id} : pages'[d] = pages[d]
  BY DEF PagesInv, Sound

LEMMA ShowWindowStep ==
  ASSUME PagesInv, NEW id \in Ids, ShowWindow(id)
  PROVE  /\ PagesInv'
         /\ \A d \in Ids :
              \/ pages'[d] = pages[d]
              \/ /\ d = id /\ pages[d].at = "closed" /\ pages'[d].at = "reading"
                 /\ pages'[d].doc = <<>> /\ pages'[d].outbox = <<>> /\ pages'[d].events = <<>>
  <1> DEFINE p == [Closed EXCEPT !.at = "reading"]
  <1>1. /\ Sound(p) /\ Len(p.events) <= MaxEvents /\ p.at = "reading"
        /\ p.doc = <<>> /\ p.outbox = <<>> /\ p.events = <<>>
    BY ClosedIsSound, DesktopAssumption
  <1>2. pages' = IF pages[id].at = "closed" THEN [pages EXCEPT ![id] = p] ELSE pages
    BY DEF ShowWindow
  <1> HIDE DEF p
  <1>3. CASE pages[id].at = "closed"
    BY <1>1, <1>2, <1>3, PageStep
  <1>4. CASE pages[id].at # "closed"
    BY <1>2, <1>4 DEF PagesInv
  <1> QED BY <1>3, <1>4

\* What a window is told of its document.
Announcement(id) == [kind |-> "document_changed", unsaved |-> documents'[id].unsaved]

LEMMA AnnouncementIsEvent ==
  ASSUME LibraryInv', NEW id \in Listed'
  PROVE  /\ Announcement(id) \in Event /\ Announcement(id).kind = "document_changed"
         /\ Announcement(id).unsaved = documents'[id].unsaved
         /\ documents'[id].unsaved \in BOOLEAN
  BY DEF Announcement, Event, Changed, LibraryInv, Row

LEMMA AnnounceStep ==
  ASSUME PagesInv, LibraryInv', NEW id \in Ids, id \in Listed', HasRoom(id),
         NEW q, Sound(q), Len(q.events) <= Len(pages[id].events) + 1,
         pages' = Announce(id, [pages EXCEPT ![id] = q])
  PROVE  /\ PagesInv' /\ pages'[id] = Told(q, Announcement(id))
         /\ \A d \in Ids \ {id} : pages'[d] = pages[d]
  <1> DEFINE p == Told(q, Announcement(id))
  <1>1. pages \in [Ids -> Page]
    BY DEF PagesInv
  <1>2. pages' = [pages EXCEPT ![id] = p]
    BY <1>1 DEF Announce, Announcement
  <1>3. Sound(p) /\ Len(p.events) <= Len(q.events) + 1
    BY AnnouncementIsEvent, ToldPage
  <1> HIDE DEF p
  <1>4. Len(p.events) \in Nat /\ Len(q.events) \in Nat /\ Len(pages[id].events) \in Nat
    BY <1>1, <1>3, LenProperties DEF Sound, Page
  <1>5. Len(p.events) <= MaxEvents
    BY <1>3, <1>4, DesktopAssumption DEF HasRoom
  <1> QED BY <1>2, <1>3, <1>5, PageStep DEF p

LEMMA AppendChangeStep ==
  ASSUME StateInv, LibraryInv', NEW id \in Ids, AppendAutomergeChange(id),
         NEW q, q = [pages[id] EXCEPT !.outbox = Tail(@)]
  PROVE  /\ PagesInv' /\ \A d \in Ids \ {id} : pages'[d] = pages[d]
         /\ Sound(q) /\ q.at = pages[id].at /\ q.at \in {"loaded", "listening"}
         /\ q.doc = pages[id].doc
         /\ q.events = pages[id].events /\ q.outbox = Tail(pages[id].outbox)
         /\ Head(pages[id].outbox) \in Nat
         /\ Range(pages[id].outbox) =
              {Head(pages[id].outbox)} \cup Range(Tail(pages[id].outbox))
         /\ Listed' = Listed
         /\ id \in Listed =>
              /\ pages'[id] = Told(q, Announcement(id)) /\ documents'[id].unsaved
              /\ Range(contents'[id]) = Range(contents[id]) \cup {Head(pages[id].outbox)}
         /\ id \notin Listed => pages'[id] = q /\ UNCHANGED <<documents, contents>>
         /\ \A d \in Ids \ {id} : contents'[d] = contents[d]
         /\ \A d \in Listed : documents'[d].save = documents[d].save
         /\ \A d \in Listed \ {id} : documents'[d] = documents[d]
  <1> DEFINE page == pages[id]
  <1>0. /\ Sound(page) /\ page.outbox # <<>> /\ Len(page.events) + 1 < MaxEvents /\ HasRoom(id)
        /\ Len(page.events) \in Nat /\ LibraryInv /\ PagesInv
        /\ page.outbox \in Seq(Nat) /\ page.events \in Seq(Event) /\ page \in Page
    BY LenProperties DEF StateInv, PagesInv, Sound, Page, AppendAutomergeChange, HasRoom
  <1>1. Tail(page.outbox) \in Seq(Nat) /\ Head(page.outbox) \in Nat
        /\ Range(page.outbox) = {Head(page.outbox)} \cup Range(Tail(page.outbox))
    BY <1>0, HeadTailProperties, RangeOfTail
  <1>2. /\ q \in Page /\ q.at = page.at /\ q.events = page.events /\ q.outbox = Tail(page.outbox)
        /\ q.heard = page.heard /\ q.doc = page.doc
    BY <1>0, <1>1 DEF Page
  <1>3. /\ Sound(q) /\ q.at \in {"loaded", "listening"}
        /\ Len(q.events) <= MaxEvents /\ Len(q.events) <= Len(page.events) + 1
    <2>1. page.at \in {"loaded", "listening"}
      BY <1>0 DEF Sound, Page
    <2>2. Sound(q)
      BY <1>0, <1>2, <2>1 DEF Sound
    <2> QED BY <1>0, <1>2, <2>1, <2>2, DesktopAssumption
  <1> HIDE DEF page
  <1>4. CASE id \in Listed
    <2>1. /\ contents' = [contents EXCEPT ![id] = Append(@, Head(page.outbox))]
          /\ UpdateDocument(id, "unsaved", TRUE)
          /\ pages' = Announce(id, [pages EXCEPT ![id] = q])
      BY <1>4 DEF AppendAutomergeChange, page
    <2>2. /\ Listed' = Listed /\ documents'[id].unsaved = TRUE
          /\ \A d \in Listed : documents'[d].save = documents[d].save
          /\ \A d \in Listed \ {id} : documents'[d] = documents[d]
      BY <1>0, <1>4, <2>1, RowStep
    <2>3. /\ contents[id] \in Seq(Nat)
          /\ Range(Append(contents[id], Head(page.outbox))) = Range(contents[id]) \cup {Head(page.outbox)}
      BY <1>0, <1>1, <1>4, RangeOfAppend DEF LibraryInv
    <2>4. /\ PagesInv' /\ pages'[id] = Told(q, Announcement(id))
          /\ \A d \in Ids \ {id} : pages'[d] = pages[d]
      BY <1>0, <1>2, <1>3, <1>4, <2>1, <2>2, AnnounceStep DEF page
    <2>5. contents'[id] = Append(contents[id], Head(page.outbox))
          /\ \A d \in Ids \ {id} : contents'[d] = contents[d]
      BY <1>0, <2>1 DEF LibraryInv
    <2> QED BY <1>1, <1>2, <1>3, <1>4, <2>2, <2>3, <2>4, <2>5 DEF page
  <1>5. CASE id \notin Listed
    <2>1. pages' = [pages EXCEPT ![id] = q] /\ UNCHANGED <<documents, contents>>
      BY <1>5 DEF AppendAutomergeChange
    <2>2. PagesInv' /\ pages'[id] = q /\ \A d \in Ids \ {id} : pages'[d] = pages[d]
      BY <1>0, <1>3, <2>1, PageStep
    <2> QED BY <1>1, <1>2, <1>3, <1>5, <2>1, <2>2 DEF page, Listed
  <1> QED BY <1>4, <1>5

LEMMA WorkerChangeStep ==
  ASSUME StateInv, LibraryInv', NEW id \in Ids, WorkerChange(id),
         NEW q, q = Told(pages[id], [kind |-> "automerge_change", change |-> changes'])
  PROVE  /\ PagesInv' /\ \A d \in Ids \ {id} : pages'[d] = pages[d]
         /\ Sound(q) /\ q.at = pages[id].at /\ q.doc = pages[id].doc
         /\ q.outbox = pages[id].outbox
         /\ Carried(q.events) = Carried(pages[id].events) \cup
              IF pages[id].at = "listening" THEN {changes'} ELSE {}
         /\ pages'[id] = Told(q, Announcement(id))
         /\ Listed' = Listed /\ id \in Listed /\ documents'[id].unsaved
         /\ Range(contents'[id]) = Range(contents[id]) \cup {changes'}
         /\ \A d \in Ids \ {id} : contents'[d] = contents[d]
         /\ \A d \in Listed : documents'[d].save = documents[d].save
         /\ \A d \in Listed \ {id} : documents'[d] = documents[d]
         /\ changes' = changes + 1 /\ changes' \in Nat
  <1> DEFINE brought == [kind |-> "automerge_change", change |-> changes']
  <1>0. /\ Sound(pages[id]) /\ HasRoom(id) /\ LibraryInv /\ PagesInv
        /\ pages[id].events \in Seq(Event)
    BY DEF StateInv, PagesInv, Sound, Page, WorkerChange
  <1>1. /\ id \in Listed /\ changes' = changes + 1 /\ changes' \in Nat
        /\ contents' = [contents EXCEPT ![id] = Append(@, changes')]
        /\ UpdateDocument(id, "unsaved", TRUE)
        /\ pages' = Announce(id, [pages EXCEPT ![id] = Told(@, brought)])
    <2>1. id \in Listed /\ changes' = changes + 1 /\ changes \in Nat
      BY DEF WorkerChange, Worked, StateInv, HistoryInv
    <2>2. /\ contents' = [contents EXCEPT ![id] = Append(@, changes')]
          /\ UpdateDocument(id, "unsaved", TRUE)
          /\ pages' = Announce(id, [pages EXCEPT ![id] = Told(@, brought)])
      BY DEF WorkerChange
    <2>3. changes' \in Nat
      BY <2>1
    <2> HIDE DEF brought
    <2> QED BY <2>1, <2>2, <2>3
  <1>2. /\ Listed' = Listed /\ documents'[id].unsaved = TRUE
        /\ \A d \in Listed : documents'[d].save = documents[d].save
        /\ \A d \in Listed \ {id} : documents'[d] = documents[d]
    BY <1>0, <1>1, RowStep
  <1>3. brought \in Event /\ brought.kind = "automerge_change" /\ brought.change = changes'
    BY <1>1 DEF Event, Incoming
  <1>4. pages' = Announce(id, [pages EXCEPT ![id] = q])
    BY <1>1
  <1> HIDE DEF brought
  <1>5. /\ Sound(q) /\ Len(q.events) <= Len(pages[id].events) + 1
        /\ q.at = pages[id].at /\ q.doc = pages[id].doc /\ q.outbox = pages[id].outbox
        /\ q.events = IF pages[id].at = "listening" THEN Append(pages[id].events, brought)
                      ELSE pages[id].events
    BY <1>0, <1>3, ToldPage DEF brought
  <1>6. Carried(q.events) = Carried(pages[id].events) \cup
          IF pages[id].at = "listening" THEN {changes'} ELSE {}
    BY <1>0, <1>3, <1>5, CarriedAppend
  <1>7. /\ PagesInv' /\ pages'[id] = Told(q, Announcement(id))
        /\ \A d \in Ids \ {id} : pages'[d] = pages[d]
    BY <1>0, <1>1, <1>2, <1>4, <1>5, AnnounceStep
  <1>8. Range(Append(contents[id], changes')) = Range(contents[id]) \cup {changes'}
    BY <1>0, <1>1, RangeOfAppend DEF LibraryInv
  <1>9. contents'[id] = Append(contents[id], changes') /\ \A d \in Ids \ {id} : contents'[d] = contents[d]
    BY <1>0, <1>1 DEF LibraryInv
  <1> QED BY <1>1, <1>2, <1>5, <1>6, <1>7, <1>8, <1>9

\* Steps that tell a window of its document, and nothing else.
Announces(id) ==
  WorkerProgress(id) \/ MediaFileAdded(id) \/ \E c \in Commands : MarkSaved(c) /\ commands[c].id = id

LEMMA AnnouncesStep ==
  ASSUME StateInv, LibraryInv', NEW id \in Ids, Announces(id)
  PROVE  /\ PagesInv' /\ \A d \in Ids \ {id} : pages'[d] = pages[d]
         /\ Listed' = Listed /\ UNCHANGED <<contents, changes, lost, files>>
         /\ id \in Listed => pages'[id] = Told(pages[id], Announcement(id))
         /\ id \notin Listed => UNCHANGED <<documents, pages>>
         /\ \A d \in Listed \ {id} : documents'[d] = documents[d]
  <1>0. LibraryInv /\ PagesInv /\ Sound(pages[id]) /\ Len(pages[id].events) <= MaxEvents
        /\ Len(pages[id].events) \in Nat /\ [pages EXCEPT ![id] = pages[id]] = pages
    BY LenProperties DEF StateInv, PagesInv, Sound, Page
  <1>1. ASSUME id \in Listed, Listed' = Listed, HasRoom(id), pages' = Announce(id, pages)
        PROVE  /\ PagesInv' /\ pages'[id] = Told(pages[id], Announcement(id))
               /\ \A d \in Ids \ {id} : pages'[d] = pages[d]
    BY <1>0, <1>1, AnnounceStep
  <1>2. CASE WorkerProgress(id)
    BY <1>1, <1>2 DEF WorkerProgress, Worked, Listed
  <1>3. CASE MediaFileAdded(id)
    <2>1. Listed' = Listed /\ \A d \in Listed \ {id} : documents'[d] = documents[d]
      BY <1>0, <1>3, RowStep DEF MediaFileAdded
    <2> QED BY <1>1, <1>3, <2>1 DEF MediaFileAdded, Worked
  <1>4. ASSUME NEW c \in Commands, MarkSaved(c), commands[c].id = id
        PROVE  /\ PagesInv' /\ \A d \in Ids \ {id} : pages'[d] = pages[d]
               /\ Listed' = Listed /\ UNCHANGED <<contents, changes, lost, files>>
               /\ id \in Listed => pages'[id] = Told(pages[id], Announcement(id))
               /\ id \notin Listed => UNCHANGED <<documents, pages>>
               /\ \A d \in Listed \ {id} : documents'[d] = documents[d]
    <2>1. HasRoom(id) /\ UNCHANGED <<contents, changes, lost, files>>
      BY <1>4 DEF MarkSaved
    <2>2. CASE id \in Listed
      <3>1. /\ Listed' = Listed /\ \A d \in Listed \ {id} : documents'[d] = documents[d]
            /\ pages' = Announce(id, pages)
        BY <1>0, <1>4, <2>2 DEF MarkSaved, Listed, LibraryInv
      <3> QED BY <1>1, <2>1, <2>2, <3>1
    <2>3. CASE id \notin Listed
      <3>1. UNCHANGED <<documents, pages>>
        BY <1>4, <2>3 DEF MarkSaved
      <3> QED BY <1>0, <2>1, <2>3, <3>1 DEF Listed, PagesInv
    <2> QED BY <2>2, <2>3
  <1> QED BY <1>2, <1>3, <1>4 DEF Announces

LEMMA PagesStep == StateInv /\ LibraryInv' /\ [DesktopNext]_desktopVars => PagesInv'
  <1> SUFFICES ASSUME StateInv, LibraryInv', [DesktopNext]_desktopVars PROVE PagesInv'
    OBVIOUS
  <1>0. PagesInv /\ LibraryInv
    BY DEF StateInv
  <1>1. ASSUME UNCHANGED pages PROVE PagesInv'
    BY <1>0, <1>1 DEF PagesInv
  <1>2. ASSUME NEW id \in Ids, WindowAction(id) PROVE PagesInv'
    <2> DEFINE page == pages[id]
    <2>0. /\ Sound(page) /\ page \in Page /\ Len(page.events) <= MaxEvents
          /\ page.doc \in Seq(Nat) /\ page.outbox \in Seq(Nat) /\ page.events \in Seq(Event)
      BY <1>0 DEF PagesInv, Sound, Page
    <2> HIDE DEF page
    <2>1. CASE ReadAutomerge(id)
      <3> DEFINE p == [page EXCEPT !.at = "loaded", !.doc = contents[id]]
      <3>1. pages' = [pages EXCEPT ![id] = p] /\ page.at = "reading" /\ contents[id] \in Seq(Nat)
        BY <1>0, <2>1 DEF ReadAutomerge, LibraryInv, page
      <3>2. Sound(p) /\ p.events = page.events
        BY <2>0, <3>1 DEF Sound, Page
      <3> HIDE DEF p
      <3> QED BY <1>0, <2>0, <3>1, <3>2, PageStep
    <2>2. CASE Listen(id)
      <3> DEFINE p == [page EXCEPT !.at = "listening"]
      <3>1. pages' = [pages EXCEPT ![id] = p] /\ page.at = "loaded"
        BY <2>2 DEF Listen, page
      <3>2. Sound(p) /\ p.events = page.events
        BY <2>0, <3>1 DEF Sound, Page
      <3> HIDE DEF p
      <3> QED BY <1>0, <2>0, <3>1, <3>2, PageStep
    <2>3. CASE Edit(id)
      <3> DEFINE p == [page EXCEPT !.doc = Append(@, changes + 1), !.outbox = Append(@, changes + 1)]
      <3>1. Append(page.doc, changes + 1) \in Seq(Nat) /\ Append(page.outbox, changes + 1) \in Seq(Nat)
        BY <2>0, AppendProperties DEF StateInv, HistoryInv
      <3>2. pages' = [pages EXCEPT ![id] = p] /\ page.at \in {"loaded", "listening"}
        BY <2>3 DEF Edit, page
      <3>3. Sound(p) /\ p.events = page.events
        BY <2>0, <3>1, <3>2 DEF Sound, Page
      <3> HIDE DEF p
      <3> QED BY <1>0, <2>0, <3>2, <3>3, PageStep
    <2>4. CASE GetDocument(id)
      <3> DEFINE p == [page EXCEPT !.reply = IF documents[id].unsaved THEN "*" ELSE ""]
      <3>1. pages' = [pages EXCEPT ![id] = p]
        BY <2>4 DEF GetDocument, page
      <3>2. Sound(p) /\ p.events = page.events
        BY <2>0 DEF Sound, Page
      <3> HIDE DEF p
      <3> QED BY <1>0, <2>0, <3>1, <3>2, PageStep
    <2>5. CASE DeliverReply(id)
      <3> DEFINE p == [page EXCEPT !.title = (page.reply = "*"), !.heard = FALSE, !.reply = "done"]
      <3>1. pages' = [pages EXCEPT ![id] = p]
        BY <2>5 DEF DeliverReply, page
      <3>2. Sound(p) /\ p.events = page.events
        BY <2>0 DEF Sound, Page
      <3> HIDE DEF p
      <3> QED BY <1>0, <2>0, <3>1, <3>2, PageStep
    <2>6. CASE DeliverEvent(id)
      <3> DEFINE event == Head(page.events)
                 rest == [page EXCEPT !.events = Tail(@)]
                 p == CASE event.kind = "document_changed" ->
                             [rest EXCEPT !.title = event.unsaved, !.heard = (rest.reply = "done")]
                       [] event.kind = "automerge_change" /\ event.change \in lost[id] -> rest
                       [] OTHER -> [rest EXCEPT !.doc = Append(@, event.change)]
      <3>1. page.events # <<>> /\ pages' = [pages EXCEPT ![id] = p]
        BY <2>6 DEF DeliverEvent, page
      <3>2. event \in Event /\ Tail(page.events) \in Seq(Event)
            /\ Len(Tail(page.events)) = Len(page.events) - 1 /\ Len(page.events) \in Nat
        BY <2>0, <3>1, HeadTailProperties, LenProperties
      <3>3. event.kind # "document_changed" => Append(page.doc, event.change) \in Seq(Nat)
        BY <2>0, <3>2, AppendProperties DEF Event, Changed, Incoming
      <3>4. page.at = "listening"
        BY <2>0, <3>1 DEF Sound
      <3>5. /\ event.kind \in {"document_changed", "automerge_change"}
            /\ event.kind = "document_changed" => event.unsaved \in BOOLEAN
        BY <3>2 DEF Event, Changed, Incoming
      <3>6. p \in Page /\ p.at = "listening" /\ p.events = Tail(page.events)
        BY <2>0, <3>2, <3>3, <3>4, <3>5 DEF Page
      <3> HIDE DEF p
      <3>7. Len(p.events) <= MaxEvents /\ Sound(p)
        BY <2>0, <3>2, <3>6, DesktopAssumption DEF Sound
      <3> QED BY <1>0, <3>1, <3>7, PageStep
    <2>7. CASE CloseWindow(id)
      <3>1. pages' = [pages EXCEPT ![id] = Closed]
        BY <2>7 DEF CloseWindow
      <3>2. Sound(Closed) /\ Len(Closed.events) <= MaxEvents
        BY ClosedIsSound, DesktopAssumption
      <3> QED BY <1>0, <3>1, <3>2, PageStep
    <2> QED BY <1>2, <2>1, <2>2, <2>3, <2>4, <2>5, <2>6, <2>7 DEF WindowAction
  <1>3. ASSUME NEW id \in Ids, ShowWindow(id) PROVE PagesInv'
    BY <1>0, <1>3, ShowWindowStep
  <1>4. ASSUME NEW c \in Commands, NEW path \in Paths, OpenFile(c, path) PROVE PagesInv'
    <2>1. CASE {id \in Listed : documents[id].save = path} # {}
      <3>1. PICK id \in Listed : ShowWindow(id)
        BY <1>4, <2>1 DEF OpenFile
      <3> QED BY <1>0, <1>3, <3>1 DEF LibraryInv
    <2>2. CASE {id \in Listed : documents[id].save = path} = {}
      BY <1>1, <1>4, <2>2 DEF OpenFile
    <2> QED BY <2>1, <2>2
  <1>5. ASSUME NEW id \in Ids, AppendAutomergeChange(id) PROVE PagesInv'
    BY <1>5, AppendChangeStep
  <1>6. ASSUME NEW id \in Ids, WorkerChange(id) PROVE PagesInv'
    BY <1>6, WorkerChangeStep
  <1>7. ASSUME NEW id \in Ids, Announces(id) PROVE PagesInv'
    BY <1>7, AnnouncesStep
  <1>8. ASSUME NEW c \in Commands, MarkSaved(c) PROVE PagesInv'
    <2>1. commands[c].id \in Ids
      BY <1>8 DEF MarkSaved, StateInv, CommandsInv, Placed
    <2> QED BY <1>7, <1>8, <2>1 DEF Announces
  <1>9. ASSUME NEW id \in Ids, TranscribeFile(id) \/ AskToDelete(id) \/ RemoveFromRecent(id)
        PROVE  PagesInv'
    BY <1>1, <1>9 DEF TranscribeFile, AskToDelete, RemoveFromRecent
  <1>10. ASSUME NEW c \in Commands,
                \/ CancelSave(c) \/ ReadWorkingCopy(c) \/ WriteArchive(c) \/ WriteFails(c) \/ KickOut(c)
         PROVE  PagesInv'
    BY <1>1, <1>10 DEF CancelSave, ReadWorkingCopy, WriteArchive, WriteFails, KickOut
  <1>11. ASSUME NEW yes \in BOOLEAN, AnswerDelete(yes) PROVE PagesInv'
    BY <1>1, <1>11 DEF AnswerDelete
  <1>12. ASSUME NEW c \in Commands, NEW id \in Ids, SaveDocument(c, id) \/ SaveDocumentAs(c, id)
         PROVE  PagesInv'
    BY <1>1, <1>12 DEF SaveDocument, SaveDocumentAs, BeginSaving
  <1>13. ASSUME NEW id \in Ids, OpenDocumentWindow(id) \/ \E c \in Commands : FinishOpen(c, id)
         PROVE  PagesInv'
    BY <1>3, <1>13 DEF OpenDocumentWindow, FinishOpen
  <1>14. ASSUME NEW id \in Ids, WorkerProgress(id) \/ MediaFileAdded(id) PROVE PagesInv'
    BY <1>7, <1>14 DEF Announces
  <1>15. CASE UNCHANGED desktopVars
    BY <1>1, <1>15 DEF desktopVars
  <1> QED BY <1>2, <1>4, <1>5, <1>6, <1>8, <1>9, <1>10, <1>11, <1>12, <1>13, <1>14, <1>15
          DEF DesktopNext, WindowAction

\* A command that is not as it was, and of a copy that is as it was or gone.
LEMMA PlacedStays ==
  ASSUME NEW m \in Command, Placed(m, contents),
         \A id \in Ids : contents[id] # NoFile => contents'[id] # NoFile
  PROVE  /\ Placed(m, contents')
         /\ [m EXCEPT !.stale = TRUE] \in Command /\ Placed([m EXCEPT !.stale = TRUE], contents')
  <1> DEFINE n == [m EXCEPT !.stale = TRUE]
  <1>1. n \in Command /\ n.stage = m.stage /\ n.id = m.id /\ n.as = m.as /\ n.path = m.path
    BY DEF Command
  <1> HIDE DEF n
  <1>2. Placed(m, contents') /\ Placed(n, contents')
    BY <1>1 DEF Placed
  <1> QED BY <1>1, <1>2 DEF n

LEMMA CopiesStay ==
  ASSUME StateInv, LibraryInv', [DesktopNext]_desktopVars
  PROVE  \A id \in Ids : contents[id] # NoFile => contents'[id] # NoFile
  <1>0. LibraryInv /\ PagesInv /\ \A s \in Seq(Nat) : s # NoFile
    BY NoFileIsNone DEF StateInv
  <1> DEFINE Stays == \A id \in Ids : contents[id] # NoFile => contents'[id] # NoFile
  <1> SUFFICES Stays
    OBVIOUS
  <1>1. ASSUME UNCHANGED contents PROVE Stays
    BY <1>1
  <1>2. ASSUME NEW id \in FreshIds, NEW s, contents' = [contents EXCEPT ![id] = s] PROVE Stays
    BY <1>0, <1>2, FreshIsUnknown DEF LibraryInv
  <1>3. ASSUME NEW id \in Ids, TranscribeFile(id) \/ \E c \in Commands : FinishOpen(c, id)
        PROVE  Stays
    BY <1>2, <1>3 DEF TranscribeFile, FinishOpen
  <1>4. ASSUME NEW id \in Ids, ForgetDocument(id), UNCHANGED files PROVE Stays
    BY <1>0, <1>4, ForgetStep
  <1>5. ASSUME NEW yes \in BOOLEAN, AnswerDelete(yes) PROVE Stays
    BY <1>1, <1>4, <1>5 DEF AnswerDelete, StateInv, HistoryInv
  <1>6. ASSUME NEW id \in Ids, RemoveFromRecent(id) PROVE Stays
    BY <1>4, <1>6 DEF RemoveFromRecent
  <1>7. ASSUME NEW id \in Ids, AppendAutomergeChange(id) PROVE Stays
    <2>1. PICK q : q = [pages[id] EXCEPT !.outbox = Tail(@)]
      OBVIOUS
    <2>2. /\ Listed' = Listed /\ \A d \in Ids \ {id} : contents'[d] = contents[d]
          /\ id \notin Listed => UNCHANGED contents
      BY <1>7, <2>1, AppendChangeStep
    <2> QED BY <1>0, <2>2 DEF LibraryInv
  <1>8. ASSUME NEW id \in Ids, WorkerChange(id) PROVE Stays
    <2>1. id \in Listed' /\ \A d \in Ids \ {id} : contents'[d] = contents[d]
      BY <1>8, WorkerChangeStep
    <2> QED BY <1>0, <2>1 DEF LibraryInv
  <1>9. ASSUME NEW id \in Ids, WindowAction(id) PROVE Stays
    BY <1>0, <1>1, <1>9, WindowActionKeeps
  <1>10. ASSUME NEW id \in Ids,
                \/ WorkerProgress(id) \/ MediaFileAdded(id)
                \/ OpenDocumentWindow(id) \/ AskToDelete(id)
                \/ \E c \in Commands : SaveDocument(c, id) \/ SaveDocumentAs(c, id)
         PROVE  Stays
    BY <1>1, <1>10 DEF WorkerProgress, MediaFileAdded, OpenDocumentWindow, AskToDelete,
       SaveDocument, SaveDocumentAs, BeginSaving
  <1>11. ASSUME NEW c \in Commands,
                \/ CancelSave(c) \/ ReadWorkingCopy(c) \/ WriteArchive(c) \/ WriteFails(c)
                \/ KickOut(c) \/ MarkSaved(c) \/ \E path \in Paths : OpenFile(c, path)
         PROVE  Stays
    BY <1>1, <1>11 DEF CancelSave, ReadWorkingCopy, WriteArchive, WriteFails, KickOut, MarkSaved,
       OpenFile
  <1>12. CASE UNCHANGED desktopVars
    BY <1>1, <1>12 DEF desktopVars
  <1> HIDE DEF Stays
  <1> QED BY <1>3, <1>5, <1>6, <1>7, <1>8, <1>9, <1>10, <1>11, <1>12 DEF DesktopNext, WindowAction

\* One command goes on, and others may have become stale.
LEMMA CommandStep ==
  ASSUME StateInv, LibraryInv', [DesktopNext]_desktopVars,
         NEW c \in Commands, NEW m \in Command, Placed(m, contents'),
         NEW cs \in [Commands -> Command],
         \A d \in Commands : cs[d] = commands[d] \/ cs[d] = [commands[d] EXCEPT !.stale = TRUE],
         commands' = cs \/ commands' = [cs EXCEPT ![c] = m]
  PROVE  CommandsInv'
  <1>1. \A d \in Commands : commands[d] \in Command /\ Placed(commands[d], contents)
    BY DEF StateInv, CommandsInv
  <1>2. \A d \in Commands : cs[d] \in Command /\ Placed(cs[d], contents')
    BY <1>1, CopiesStay, PlacedStays
  <1>3. /\ commands' \in [Commands -> Command]
        /\ \A d \in Commands : commands'[d] = m \/ commands'[d] = cs[d]
    OBVIOUS
  <1> QED BY <1>2, <1>3 DEF CommandsInv

LEMMA StaleCommands ==
  ASSUME StateInv
  PROVE  /\ commands \in [Commands -> Command]
         /\ \A id : /\ CopyChanged(id) \in [Commands -> Command]
                    /\ \A d \in Commands :
                         \/ CopyChanged(id)[d] = commands[d]
                         \/ CopyChanged(id)[d] = [commands[d] EXCEPT !.stale = TRUE]
         /\ \A c, same : /\ FileChanged(c, same) \in [Commands -> Command]
                         /\ \A d \in Commands :
                              \/ FileChanged(c, same)[d] = commands[d]
                              \/ FileChanged(c, same)[d] = [commands[d] EXCEPT !.stale = TRUE]
  <1>1. /\ commands \in [Commands -> Command]
        /\ \A d \in Commands : commands[d] \in Command /\ [commands[d] EXCEPT !.stale = TRUE] \in Command
    BY DEF StateInv, CommandsInv, Command
  <1> HIDE DEF Command
  <1> QED BY <1>1 DEF CopyChanged, FileChanged

LEMMA CommandsStep == StateInv /\ LibraryInv' /\ [DesktopNext]_desktopVars => CommandsInv'
  <1> SUFFICES ASSUME StateInv, LibraryInv', [DesktopNext]_desktopVars PROVE CommandsInv'
    OBVIOUS
  <1>0. /\ LibraryInv /\ PagesInv /\ commands \in [Commands -> Command]
        /\ \A c \in Commands : commands[c] \in Command /\ Placed(commands[c], contents)
        /\ NoCommand \in Command /\ Placed(NoCommand, contents')
    BY NoCommandIsPlaced DEF StateInv, CommandsInv
  <1>1. ASSUME UNCHANGED commands PROVE CommandsInv'
    <2>1. \A d \in Commands : Placed(commands[d], contents')
      BY <1>0, CopiesStay, PlacedStays
    <2> QED BY <1>0, <1>1, <2>1 DEF CommandsInv
  <1>2. ASSUME NEW c \in Commands, NEW m \in Command, Placed(m, contents'),
               commands' = [commands EXCEPT ![c] = m]
        PROVE  CommandsInv'
    BY <1>0, <1>2, CommandStep
  <1>3. ASSUME NEW id \in Ids, commands' = CopyChanged(id) PROVE CommandsInv'
    <2>1. /\ CopyChanged(id) \in [Commands -> Command]
          /\ \A d \in Commands : \/ CopyChanged(id)[d] = commands[d]
                                 \/ CopyChanged(id)[d] = [commands[d] EXCEPT !.stale = TRUE]
      BY StaleCommands
    <2>2. CASE Commands = {}
      BY <1>3, <2>1, <2>2 DEF CommandsInv
    <2>3. CASE Commands # {}
      BY <1>0, <1>3, <2>1, <2>3, CommandStep
    <2> QED BY <2>2, <2>3
  <1>4. ASSUME NEW c \in Commands, NEW path \in Paths, OpenFile(c, path) PROVE CommandsInv'
    <2>1. CASE {id \in Listed : documents[id].save = path} # {}
      BY <1>1, <1>4, <2>1 DEF OpenFile
    <2>2. CASE {id \in Listed : documents[id].save = path} = {}
      <3> DEFINE m == [NoCommand EXCEPT !.stage = "opened", !.path = path, !.doc = files[path]]
      <3>1. commands' = [commands EXCEPT ![c] = m] /\ files[path] \in Seq(Nat)
        BY <1>0, <1>4, <2>2 DEF OpenFile, LibraryInv
      <3>2. m \in Command /\ Placed(m, contents')
        BY <3>1 DEF NoCommand, Command, Stages, Placed
      <3> HIDE DEF m
      <3> QED BY <1>2, <3>1, <3>2
    <2> QED BY <2>1, <2>2
  <1>5. ASSUME NEW c \in Commands, NEW id \in Ids, FinishOpen(c, id) PROVE CommandsInv'
    BY <1>0, <1>2, <1>5 DEF FinishOpen
  <1>6. ASSUME NEW c \in Commands, NEW id \in Ids, NEW path \in Paths \cup {NoPath},
               BeginSaving(c, id, path)
        PROVE  CommandsInv'
    <2>0. PICK as \in BOOLEAN : as = (path = NoPath)
      OBVIOUS
    <2> DEFINE m == [NoCommand EXCEPT !.stage = "begun", !.id = id, !.path = path,
                                      !.as = as, !.from = documents[id].from]
    <2>1. /\ commands' = [commands EXCEPT ![c] = m] /\ id \in Listed
          /\ documents[id].from \in Paths \cup {NoPath} /\ contents'[id] # NoFile
      <3>1. id \in Listed /\ UNCHANGED contents /\ commands' = [commands EXCEPT ![c] = m]
        BY <1>6, <2>0 DEF BeginSaving
      <3>2. contents[id] \in Seq(Nat) /\ documents[id].from \in Paths \cup {NoPath}
        BY <1>0, <3>1 DEF LibraryInv, Row
      <3> QED BY <3>1, <3>2, NoFileIsNone
    <2>2. m \in Command /\ m.stage = "begun" /\ m.id = id /\ m.path = path /\ m.as = as
      BY <2>1, EmptySeq DEF NoCommand, Command, Stages
    <2> HIDE DEF m
    <2>3. Placed(m, contents')
      BY <2>0, <2>1, <2>2 DEF Placed
    <2> QED BY <1>2, <2>1, <2>2, <2>3
  <1>7. ASSUME NEW c \in Commands, NEW id \in Ids, SaveDocument(c, id) \/ SaveDocumentAs(c, id)
        PROVE  CommandsInv'
    BY <1>0, <1>6, <1>7 DEF SaveDocument, SaveDocumentAs, LibraryInv, Row
  <1>8. ASSUME NEW c \in Commands, CancelSave(c) PROVE CommandsInv'
    BY <1>0, <1>2, <1>8 DEF CancelSave
  <1>9. ASSUME NEW c \in Commands, ReadWorkingCopy(c) PROVE CommandsInv'
    <2>1. CASE contents[commands[c].id] = Removed
      BY <1>0, <1>2, <1>9, <2>1 DEF ReadWorkingCopy
    <2>2. CASE contents[commands[c].id] # Removed
      <3> DEFINE id == commands[c].id
      <3>1. PICK path \in IF commands[c].as THEN Paths ELSE {commands[c].path} :
              commands' = [commands EXCEPT ![c] = [@ EXCEPT !.stage = "read",
                                    !.path = path, !.doc = contents[id]]]
        BY <1>9, <2>2 DEF ReadWorkingCopy
      <3>2. /\ commands[c].stage = "begun" /\ id \in Ids /\ contents[id] \in Seq(Nat)
            /\ contents'[id] # NoFile /\ path \in Paths
        BY <1>0, <1>9, <2>2, <3>1, CopiesStay DEF ReadWorkingCopy, Placed, LibraryInv
      <3> DEFINE m == [commands[c] EXCEPT !.stage = "read", !.path = path, !.doc = contents[id]]
      <3>3. m \in Command /\ m.stage = "read" /\ m.id = id /\ m.path = path
        BY <1>0, <3>2 DEF Command, Stages
      <3>4. commands' = [commands EXCEPT ![c] = m]
        BY <3>1
      <3> HIDE DEF m
      <3>5. Placed(m, contents')
        BY <3>2, <3>3 DEF Placed
      <3> QED BY <1>2, <3>3, <3>4, <3>5
    <2> QED BY <2>1, <2>2
  <1>10. ASSUME NEW c \in Commands, WriteArchive(c) PROVE CommandsInv'
    <2> DEFINE m == [commands[c] EXCEPT !.stage = "written"]
               same == IF commands[c].stale THEN {} ELSE {commands[c].id}
    <2>1. /\ commands' = [FileChanged(c, same) EXCEPT ![c] = m] /\ commands[c].stage = "read"
          /\ UNCHANGED contents
      BY <1>10 DEF WriteArchive
    <2>2. /\ m \in Command /\ m.stage = "written" /\ m.id = commands[c].id
          /\ m.path = commands[c].path
      BY <1>0 DEF Command, Stages
    <2> HIDE DEF m
    <2>3. Placed(m, contents')
      BY <1>0, <2>1, <2>2 DEF Placed
    <2>4. PICK cs : cs = FileChanged(c, same)
      OBVIOUS
    <2>5. /\ cs \in [Commands -> Command] /\ commands' = [cs EXCEPT ![c] = m]
          /\ \A d \in Commands :
               cs[d] = commands[d] \/ cs[d] = [commands[d] EXCEPT !.stale = TRUE]
      BY <2>1, <2>4, StaleCommands
    <2> QED BY <2>2, <2>3, <2>5, CommandStep
  <1>11. ASSUME NEW c \in Commands, WriteFails(c) PROVE CommandsInv'
    <2>1. commands' = [FileChanged(c, {}) EXCEPT ![c] = NoCommand]
      BY <1>11 DEF WriteFails
    <2> DEFINE cs == FileChanged(c, {})
    <2>2. /\ cs \in [Commands -> Command]
          /\ \A d \in Commands :
               cs[d] = commands[d] \/ cs[d] = [commands[d] EXCEPT !.stale = TRUE]
      BY StaleCommands
    <2> HIDE DEF cs
    <2>3. commands' = [cs EXCEPT ![c] = NoCommand]
      BY <2>1 DEF cs
    <2> QED BY <1>0, <2>2, <2>3, CommandStep
  <1>12. ASSUME NEW c \in Commands, KickOut(c) PROVE CommandsInv'
    <2> DEFINE m == [commands[c] EXCEPT !.stage = "kicked"]
    <2>1. /\ commands' = [commands EXCEPT ![c] = m] /\ commands[c].stage = "written"
          /\ UNCHANGED contents
      BY <1>0, <1>12 DEF KickOut
    <2>2. /\ m \in Command /\ m.stage = "kicked" /\ m.id = commands[c].id
          /\ m.path = commands[c].path
      BY <1>0 DEF Command, Stages
    <2> HIDE DEF m
    <2>3. Placed(m, contents')
      BY <1>0, <2>1, <2>2 DEF Placed
    <2> QED BY <1>2, <2>1, <2>2, <2>3
  <1>13. ASSUME NEW c \in Commands, MarkSaved(c) PROVE CommandsInv'
    BY <1>0, <1>2, <1>13 DEF MarkSaved
  <1>14. ASSUME NEW id \in Ids, AppendAutomergeChange(id) \/ WorkerChange(id) PROVE CommandsInv'
    <2>1. commands' = CopyChanged(id) \/ commands' = commands
      BY <1>14 DEF AppendAutomergeChange, WorkerChange
    <2> QED BY <1>1, <1>3, <2>1
  <1>15. ASSUME NEW id \in Ids, WindowAction(id) PROVE CommandsInv'
    BY <1>0, <1>1, <1>15, WindowActionKeeps
  <1>16. ASSUME NEW id \in Ids,
                \/ TranscribeFile(id) \/ AskToDelete(id) \/ RemoveFromRecent(id)
                \/ OpenDocumentWindow(id) \/ WorkerProgress(id) \/ MediaFileAdded(id)
         PROVE  CommandsInv'
    BY <1>1, <1>16 DEF TranscribeFile, AskToDelete, RemoveFromRecent, OpenDocumentWindow,
       WorkerProgress, MediaFileAdded
  <1>17. ASSUME NEW yes \in BOOLEAN, AnswerDelete(yes) PROVE CommandsInv'
    BY <1>1, <1>17 DEF AnswerDelete
  <1>18. CASE UNCHANGED desktopVars
    BY <1>1, <1>18 DEF desktopVars
  <1> QED BY <1>4, <1>5, <1>7, <1>8, <1>9, <1>10, <1>11, <1>12, <1>13, <1>14, <1>15, <1>16, <1>17,
             <1>18 DEF DesktopNext, WindowAction

LEMMA HistoryStep == StateInv /\ LibraryInv' /\ [DesktopNext]_desktopVars => HistoryInv'
  <1> SUFFICES ASSUME StateInv, LibraryInv', [DesktopNext]_desktopVars PROVE HistoryInv'
    OBVIOUS
  <1>0. /\ LibraryInv /\ PagesInv /\ CommandsInv /\ HistoryInv
        /\ \A d \in Ids : Sound(pages[d]) /\ pages[d] \in Page
    BY DEF StateInv, PagesInv, Sound
  <1> DEFINE Away(page) == page.at \in {"closed", "reading"}
             Stays == \A d \in Ids : Away(pages'[d]) => Away(pages[d])
  <1>1. ASSUME Stays, asked' \in Ids \cup {NotAsked}, overtaken' \subseteq Ids,
               UNCHANGED <<changes, lost>>
        PROVE  HistoryInv'
    BY <1>0, <1>1 DEF HistoryInv
  <1>2. ASSUME UNCHANGED pages PROVE Stays
    BY <1>2
  <1>3. ASSUME NEW id \in Ids, ShowWindow(id) PROVE Stays
    BY <1>0, <1>3, ShowWindowStep
  <1>4. /\ asked \in Ids \cup {NotAsked} /\ overtaken \subseteq Ids /\ changes \in Nat
        /\ DOMAIN lost = Ids /\ \A d \in Ids : lost[d] \subseteq 1 .. changes
        /\ \A d \in Ids : Away(pages[d]) => lost[d] = {}
        /\ Listed \subseteq Ids
    BY <1>0 DEF HistoryInv, LibraryInv
  <1>5. ASSUME NEW id \in Ids, Edit(id) PROVE HistoryInv'
    <2>1. pages'[id].at = pages[id].at /\ \A d \in Ids \ {id} : pages'[d] = pages[d]
      BY <1>0, <1>5 DEF Edit, PagesInv, Page
    <2>2. changes' = changes + 1 /\ UNCHANGED <<asked, lost, overtaken>>
      BY <1>5 DEF Edit
    <2> QED BY <1>4, <2>1, <2>2 DEF HistoryInv
  <1>6. ASSUME NEW id \in Ids, CloseWindow(id) PROVE HistoryInv'
    <2>1. \A d \in Ids \ {id} : pages'[d] = pages[d]
      BY <1>0, <1>6, WindowActionKeeps DEF WindowAction
    <2>2. /\ lost' = [lost EXCEPT ![id] = {}]
          /\ UNCHANGED <<asked, changes, overtaken>>
      BY <1>6 DEF CloseWindow
    <2> QED BY <1>4, <2>1, <2>2 DEF HistoryInv
  <1>7. ASSUME NEW id \in Ids,
               \/ ReadAutomerge(id) \/ Listen(id)
               \/ GetDocument(id) \/ DeliverReply(id) \/ DeliverEvent(id)
        PROVE  HistoryInv'
    <2>1. \A d \in Ids \ {id} : pages'[d] = pages[d]
      BY <1>0, <1>7, WindowActionKeeps DEF WindowAction
    <2>2. Away(pages'[id]) => Away(pages[id])
      <3>1. CASE ReadAutomerge(id)
        BY <1>0, <3>1 DEF ReadAutomerge, PagesInv, Page
      <3>2. CASE Listen(id)
        BY <1>0, <3>2 DEF Listen, PagesInv, Page
      <3>3. CASE GetDocument(id)
        BY <1>0, <3>3 DEF GetDocument, PagesInv, Page
      <3>4. CASE DeliverReply(id)
        BY <1>0, <3>4 DEF DeliverReply, PagesInv, Page
      <3>5. CASE DeliverEvent(id)
        BY <1>0, <3>5 DEF DeliverEvent, PagesInv, Sound
      <3> QED BY <1>7, <3>1, <3>2, <3>3, <3>4, <3>5
    <2>3. UNCHANGED <<asked, changes, lost, overtaken>>
      BY <1>7 DEF ReadAutomerge, Listen, GetDocument, DeliverReply, DeliverEvent
    <2> QED BY <1>1, <1>4, <2>1, <2>2, <2>3
  <1>8. ASSUME NEW id \in Ids, AppendAutomergeChange(id) PROVE HistoryInv'
    <2>1. PICK q : q = [pages[id] EXCEPT !.outbox = Tail(@)]
      OBVIOUS
    <2>2. /\ \A d \in Ids \ {id} : pages'[d] = pages[d]
          /\ Sound(q) /\ q.at \in {"loaded", "listening"} /\ Listed' = Listed
          /\ id \in Listed => pages'[id] = Told(q, Announcement(id))
          /\ id \notin Listed => pages'[id] = q
      BY <1>8, <2>1, AppendChangeStep
    <2>3. id \in Listed => Told(q, Announcement(id)).at = q.at
      BY <2>2, AnnouncementIsEvent, ToldPage
    <2>4. UNCHANGED <<asked, changes, lost, overtaken>>
      BY <1>8 DEF AppendAutomergeChange
    <2> QED BY <1>1, <1>4, <2>2, <2>3, <2>4
  <1>9. ASSUME NEW id \in Ids, WorkerChange(id) PROVE HistoryInv'
    <2>1. PICK q : q = Told(pages[id], [kind |-> "automerge_change", change |-> changes'])
      OBVIOUS
    <2>2. /\ \A d \in Ids \ {id} : pages'[d] = pages[d]
          /\ Sound(q) /\ q.at = pages[id].at /\ id \in Listed'
          /\ pages'[id] = Told(q, Announcement(id)) /\ changes' = changes + 1
      BY <1>9, <2>1, WorkerChangeStep
    <2>3. pages'[id].at = pages[id].at
      BY <2>2, AnnouncementIsEvent, ToldPage
    <2>4. /\ UNCHANGED <<asked, overtaken>>
          /\ lost' = IF pages[id].at = "loaded" \/ lost[id] # {}
                     THEN [lost EXCEPT ![id] = @ \cup {changes'}] ELSE lost
      BY <1>9 DEF WorkerChange
    <2>5. DOMAIN lost' = Ids /\ \A d \in Ids : lost'[d] \subseteq 1 .. changes'
      BY <1>4, <2>2, <2>4
    <2>6. \A d \in Ids : Away(pages'[d]) => lost'[d] = {}
      BY <1>4, <2>2, <2>3, <2>4
    <2> QED BY <1>4, <2>2, <2>4, <2>5, <2>6 DEF HistoryInv
  <1>10. ASSUME NEW id \in Ids, Announces(id) PROVE Stays
    <2>1. /\ \A d \in Ids \ {id} : pages'[d] = pages[d]
          /\ id \in Listed => id \in Listed' /\ pages'[id] = Told(pages[id], Announcement(id))
          /\ id \notin Listed => UNCHANGED pages
      BY <1>10, AnnouncesStep
    <2>2. id \in Listed => pages'[id].at = pages[id].at
      BY <1>0, <2>1, AnnouncementIsEvent, ToldPage
    <2> QED BY <2>1, <2>2
  <1>11. ASSUME NEW id \in Ids, WorkerProgress(id) \/ MediaFileAdded(id) PROVE HistoryInv'
    BY <1>1, <1>4, <1>10, <1>11 DEF Announces, WorkerProgress, MediaFileAdded
  <1>12. ASSUME NEW c \in Commands, MarkSaved(c) PROVE HistoryInv'
    <2>1. commands[c].id \in Ids
      BY <1>0, <1>12 DEF MarkSaved, CommandsInv, Placed
    <2>2. Stays
      BY <1>10, <1>12, <2>1 DEF Announces
    <2>3. overtaken' \subseteq Ids /\ UNCHANGED <<asked, changes, lost>>
      <3>1. overtaken' \subseteq overtaken \cup {commands[c].id}
        BY <1>12 DEF MarkSaved
      <3>2. UNCHANGED <<asked, changes, lost>>
        BY <1>12 DEF MarkSaved
      <3> QED BY <1>4, <2>1, <3>1, <3>2
    <2> QED BY <1>1, <1>4, <2>2, <2>3
  <1>13. ASSUME NEW id \in Ids, TranscribeFile(id) \/ AskToDelete(id) \/ RemoveFromRecent(id)
         PROVE  HistoryInv'
    BY <1>1, <1>2, <1>4, <1>13 DEF TranscribeFile, AskToDelete, RemoveFromRecent
  <1>14. ASSUME NEW c \in Commands, NEW id \in Ids, SaveDocument(c, id) \/ SaveDocumentAs(c, id)
         PROVE  HistoryInv'
    BY <1>1, <1>2, <1>4, <1>14 DEF SaveDocument, SaveDocumentAs, BeginSaving
  <1>15. ASSUME NEW id \in Ids, OpenDocumentWindow(id) PROVE HistoryInv'
    BY <1>1, <1>3, <1>4, <1>15 DEF OpenDocumentWindow
  <1>16. ASSUME NEW c \in Commands, NEW id \in Ids, FinishOpen(c, id) PROVE HistoryInv'
    BY <1>1, <1>3, <1>4, <1>16 DEF FinishOpen
  <1>17. ASSUME NEW c \in Commands, NEW path \in Paths, OpenFile(c, path) PROVE HistoryInv'
    <2>1. UNCHANGED <<asked, changes, lost, overtaken>>
      BY <1>17 DEF OpenFile
    <2>2. CASE {id \in Listed : documents[id].save = path} # {}
      BY <1>1, <1>3, <1>4, <1>17, <2>1, <2>2 DEF OpenFile
    <2>3. CASE {id \in Listed : documents[id].save = path} = {}
      BY <1>1, <1>2, <1>4, <1>17, <2>1, <2>3 DEF OpenFile
    <2> QED BY <2>2, <2>3
  <1>18. ASSUME NEW c \in Commands,
                CancelSave(c) \/ ReadWorkingCopy(c) \/ WriteArchive(c) \/ WriteFails(c) \/ KickOut(c)
         PROVE  HistoryInv'
    <2>1. overtaken' \subseteq Ids /\ UNCHANGED <<pages, asked, changes, lost>>
      BY <1>4, <1>18 DEF CancelSave, ReadWorkingCopy, WriteArchive, WriteFails, KickOut, SavedAt
    <2> QED BY <1>1, <1>2, <1>4, <2>1
  <1>19. ASSUME NEW yes \in BOOLEAN, AnswerDelete(yes) PROVE HistoryInv'
    BY <1>1, <1>2, <1>4, <1>19 DEF AnswerDelete
  <1>20. CASE UNCHANGED desktopVars
    BY <1>1, <1>2, <1>4, <1>20 DEF desktopVars
  <1> QED BY <1>5, <1>6, <1>7, <1>8, <1>9, <1>11, <1>12, <1>13, <1>14, <1>15, <1>16, <1>17, <1>18,
             <1>19, <1>20 DEF DesktopNext

LEMMA StateStep == StateInv /\ [DesktopNext]_desktopVars => StateInv'
  BY LibraryStep, PagesStep, CommandsStep, HistoryStep DEF StateInv

-----------------------------------------------------------------------------
(* What windows show                                                       *)

\* What each action of a page makes of it.
WindowFields(id, page, next) ==
  \/ /\ ReadAutomerge(id) /\ page.at = "reading" /\ next.at = "loaded" /\ next.doc = contents[id]
     /\ next.outbox = page.outbox /\ next.events = page.events
     /\ UNCHANGED <<changes, lost>>
  \/ /\ Listen(id) /\ page.at = "loaded" /\ next.at = "listening" /\ next.doc = page.doc
     /\ next.outbox = page.outbox /\ next.events = page.events /\ next.heard = page.heard
     /\ UNCHANGED <<changes, lost>>
  \/ /\ Edit(id) /\ page.at \in {"loaded", "listening"} /\ next.at = page.at
     /\ next.doc = Append(page.doc, changes + 1) /\ next.outbox = Append(page.outbox, changes + 1)
     /\ next.events = page.events /\ next.heard = page.heard /\ next.title = page.title
     /\ changes' = changes + 1 /\ UNCHANGED lost
  \/ /\ GetDocument(id) /\ next.at = page.at /\ next.doc = page.doc /\ next.outbox = page.outbox
     /\ next.events = page.events /\ next.heard = page.heard /\ next.title = page.title
     /\ UNCHANGED <<changes, lost>>
  \/ /\ DeliverReply(id) /\ next.at = page.at /\ next.doc = page.doc /\ next.outbox = page.outbox
     /\ next.events = page.events /\ ~next.heard
     /\ UNCHANGED <<changes, lost>>
  \/ /\ DeliverEvent(id) /\ page.at = "listening" /\ next.at = page.at
     /\ page.events # <<>> /\ next.events = Tail(page.events) /\ next.outbox = page.outbox
     /\ IF Head(page.events).kind = "document_changed"
        THEN next.doc = page.doc /\ next.title = Head(page.events).unsaved
        ELSE /\ next.title = page.title /\ next.heard = page.heard
             /\ next.doc = IF Head(page.events).change \in lost[id] THEN page.doc
                           ELSE Append(page.doc, Head(page.events).change)
     /\ UNCHANGED <<changes, lost>>
  \/ /\ CloseWindow(id) /\ next.at = "closed"
     /\ next.doc = <<>> /\ next.outbox = <<>> /\ next.events = <<>>
     /\ UNCHANGED changes

LEMMA WindowFieldsRight ==
  ASSUME StateInv, NEW id \in Ids, WindowAction(id)
  PROVE  WindowFields(id, pages[id], pages'[id])
  <1> DEFINE page == pages[id]
             next == pages'[id]
  <1>0. /\ Sound(page) /\ page \in Page /\ pages \in [Ids -> Page] /\ page.events \in Seq(Event)
    BY DEF StateInv, PagesInv, Sound, Page
  <1>1. CASE ReadAutomerge(id)
    <2>1. next = [page EXCEPT !.at = "loaded", !.doc = contents[id]]
      BY <1>0, <1>1 DEF ReadAutomerge, Page
    <2>2. page.at = "reading" /\ UNCHANGED <<changes, lost>>
      BY <1>1 DEF ReadAutomerge
    <2> HIDE DEF next
    <2> QED BY <1>0, <1>1, <2>1, <2>2 DEF WindowFields, Page, next
  <1>2. CASE Listen(id)
    <2>1. next = [page EXCEPT !.at = "listening"]
      BY <1>0, <1>2 DEF Listen, Page
    <2>2. page.at = "loaded" /\ UNCHANGED <<changes, lost>>
      BY <1>2 DEF Listen
    <2> HIDE DEF next
    <2> QED BY <1>0, <1>2, <2>1, <2>2 DEF WindowFields, Page, next
  <1>3. CASE Edit(id)
    <2>1. next = [page EXCEPT !.doc = Append(@, changes + 1), !.outbox = Append(@, changes + 1)]
      BY <1>0, <1>3 DEF Edit, Page
    <2>2. /\ page.at \in {"loaded", "listening"} /\ changes' = changes + 1 /\ UNCHANGED lost
      BY <1>3 DEF Edit
    <2> HIDE DEF next
    <2> QED BY <1>0, <1>3, <2>1, <2>2 DEF WindowFields, Page, next
  <1>4. CASE GetDocument(id)
    <2>1. next = [page EXCEPT !.reply = IF documents[id].unsaved THEN "*" ELSE ""]
      BY <1>0, <1>4 DEF GetDocument, Page
    <2>2. UNCHANGED <<changes, lost>>
      BY <1>4 DEF GetDocument
    <2> HIDE DEF next
    <2> QED BY <1>0, <1>4, <2>1, <2>2 DEF WindowFields, Page, next
  <1>5. CASE DeliverReply(id)
    <2>1. next = [page EXCEPT !.title = (page.reply = "*"), !.heard = FALSE, !.reply = "done"]
      BY <1>0, <1>5 DEF DeliverReply, Page
    <2>2. UNCHANGED <<changes, lost>>
      BY <1>5 DEF DeliverReply
    <2> HIDE DEF next
    <2> QED BY <1>0, <1>5, <2>1, <2>2 DEF WindowFields, Page, next
  <1>6. CASE DeliverEvent(id)
    <2> DEFINE event == Head(page.events)
               rest == [page EXCEPT !.events = Tail(@)]
    <2>1. /\ page.events # <<>> /\ page.at = "listening" /\ UNCHANGED <<changes, lost>>
          /\ event \in Event
      BY <1>0, <1>6, HeadTailProperties DEF DeliverEvent, Sound
    <2>2. next = CASE event.kind = "document_changed" ->
                        [rest EXCEPT !.title = event.unsaved, !.heard = (rest.reply = "done")]
                   [] event.kind = "automerge_change" /\ event.change \in lost[id] -> rest
                   [] OTHER -> [rest EXCEPT !.doc = Append(@, event.change)]
      BY <1>0, <1>6 DEF DeliverEvent
    <2>3. event.kind \in {"document_changed", "automerge_change"}
      BY <2>1 DEF Event, Changed, Incoming
    <2> HIDE DEF next, page, event
    <2>4. /\ next.at = page.at /\ next.events = Tail(page.events) /\ next.outbox = page.outbox
      BY <1>0, <2>2 DEF Page
    <2>5. event.kind = "document_changed" => next.doc = page.doc /\ next.title = event.unsaved
      BY <1>0, <2>2 DEF Page
    <2>6. event.kind # "document_changed" =>
            /\ next.title = page.title /\ next.heard = page.heard
            /\ next.doc = IF event.change \in lost[id] THEN page.doc ELSE Append(page.doc, event.change)
      BY <1>0, <2>2, <2>3 DEF Page
    <2> QED BY <1>6, <2>1, <2>4, <2>5, <2>6 DEF WindowFields, event, next, page
  <1>7. CASE CloseWindow(id)
    <2>1. next = Closed /\ UNCHANGED changes
      BY <1>0, <1>7 DEF CloseWindow
    <2> HIDE DEF next
    <2> QED BY <1>7, <2>1, ClosedIsSound DEF WindowFields, next
  <1> QED BY <1>1, <1>2, <1>3, <1>4, <1>5, <1>6, <1>7 DEF WindowAction

\* An announcement says nothing of changes.
LEMMA AnnouncedShows ==
  ASSUME LibraryInv', NEW id \in Listed', NEW page, Sound(page)
  PROVE  /\ Told(page, Announcement(id)).at = page.at
         /\ Told(page, Announcement(id)).doc = page.doc
         /\ Told(page, Announcement(id)).outbox = page.outbox
         /\ Carried(Told(page, Announcement(id)).events) = Carried(page.events)
  <1>1. page.events \in Seq(Event)
    BY DEF Sound, Page
  <1>2. Carried(Append(page.events, Announcement(id))) = Carried(page.events)
    BY <1>1, AnnouncementIsEvent, CarriedAppend
  <1> QED BY <1>2, AnnouncementIsEvent, ToldPage

LEMMA ShowStepOfWindow ==
  ASSUME StateInv, LibraryInv', KnownInv, NEW id \in Ids, WindowAction(id)
  PROVE  /\ KnownPage(pages'[id], Known') /\ Known \subseteq Known'
         /\ id \in Listed /\ ShowsDocument(id) => ShowsDocument(id)'
  <1> DEFINE page == pages[id]
             next == pages'[id]
  <1>0. /\ Sound(page) /\ page = pages[id] /\ next = pages'[id]
        /\ page.doc \in Seq(Nat) /\ page.outbox \in Seq(Nat) /\ page.events \in Seq(Event)
        /\ lost[id] \subseteq 1 .. changes /\ changes \in Nat
        /\ page.at \in {"closed", "reading"} => lost[id] = {} /\ page.outbox = <<>>
        /\ page.at # "listening" => page.events = <<>>
    BY DEF StateInv, PagesInv, HistoryInv, Sound, Page
  <1>1. /\ Range(contents[id]) \subseteq Known /\ KnownPage(page, Known)
        /\ contents' = contents
    BY WindowActionKeeps DEF KnownInv, KnownContents, KnownPages, StateInv
  <1>2. WindowFields(id, page, next)
    BY WindowFieldsRight
  <1> HIDE DEF page, next
  <1> DEFINE Goal == /\ KnownPage(next, Known') /\ Known \subseteq Known'
                     /\ ShowsDocument(id) => ShowsDocument(id)'
  <1>3. UNCHANGED changes => Known' = Known
    BY DEF Known
  <1>4. ASSUME next.doc = page.doc, next.outbox = page.outbox, next.events = page.events,
               UNCHANGED <<changes, lost>>, next.at = page.at \/ page.at = "loaded"
        PROVE  Goal
    <2>1. KnownPage(next, Known')
      BY <1>1, <1>3, <1>4 DEF KnownPage
    <2>2. ShowsDocument(id) => ShowsDocument(id)'
      BY <1>0, <1>1, <1>4 DEF ShowsDocument, page, next
    <2> QED BY <1>3, <1>4, <2>1, <2>2
  <1>5. ASSUME page.at = "reading", next.doc = contents[id], next.outbox = page.outbox,
               next.events = page.events, UNCHANGED <<changes, lost>>
        PROVE  Goal
    <2>1. KnownPage(next, Known')
      BY <1>1, <1>3, <1>5 DEF KnownPage
    <2>2. ShowsDocument(id)'
      BY <1>0, <1>1, <1>5, EmptyRange DEF ShowsDocument, next
    <2> QED BY <1>3, <1>5, <2>1, <2>2
  <1>6. ASSUME page.at \in {"loaded", "listening"}, next.events = page.events,
               next.doc = Append(page.doc, changes + 1),
               next.outbox = Append(page.outbox, changes + 1),
               changes' = changes + 1, UNCHANGED lost
        PROVE  Goal
    <2>1. /\ Range(next.doc) = Range(page.doc) \cup {changes + 1}
          /\ Range(next.outbox) = Range(page.outbox) \cup {changes + 1}
      <3>1. changes + 1 \in Nat /\ page.doc \in Seq(Nat) /\ page.outbox \in Seq(Nat)
        BY <1>0
      <3>2. Range(Append(page.doc, changes + 1)) = Range(page.doc) \cup {changes + 1}
        BY ONLY <3>1, RangeOfAppend
      <3>3. Range(Append(page.outbox, changes + 1)) = Range(page.outbox) \cup {changes + 1}
        BY ONLY <3>1, RangeOfAppend
      <3> QED BY <1>6, <3>2, <3>3
    <2>2. Known \subseteq Known' /\ changes + 1 \in Known'
      BY <1>0, <1>6 DEF Known
    <2>3. KnownPage(next, Known')
      BY <1>1, <1>6, <2>1, <2>2 DEF KnownPage
    <2>4. changes + 1 \notin lost[id]
      BY <1>0
    <2>5. ShowsDocument(id) => ShowsDocument(id)'
      BY <1>0, <1>1, <1>6, <2>1, <2>4 DEF ShowsDocument, next
    <2> QED BY <2>2, <2>3, <2>5
  <1>7. ASSUME page.at = "listening", page.events # <<>>, next.at = page.at,
               next.events = Tail(page.events), next.outbox = page.outbox,
               IF Head(page.events).kind = "document_changed" THEN next.doc = page.doc
               ELSE next.doc = IF Head(page.events).change \in lost[id] THEN page.doc
                               ELSE Append(page.doc, Head(page.events).change),
               UNCHANGED <<changes, lost>>
        PROVE  Goal
    <2> DEFINE event == Head(page.events)
    <2>1. event \in Event
      BY <1>0, <1>7, HeadTailProperties
    <2>2. Carried(page.events) = Carried(Tail(page.events)) \cup
            IF event.kind = "automerge_change" THEN {event.change} ELSE {}
      BY <1>0, <1>7, CarriedTail
    <2>3. event.kind # "document_changed" => event.kind = "automerge_change" /\ event.change \in Nat
      BY <2>1 DEF Event, Changed, Incoming
    <2> HIDE DEF event
    <2>4. ASSUME event.kind # "document_changed"
          PROVE  Range(Append(page.doc, event.change)) = Range(page.doc) \cup {event.change}
      <3>1. event.change \in Nat /\ page.doc \in Seq(Nat)
        BY <1>0, <2>3, <2>4
      <3> QED BY <3>1, RangeOfAppend
    <2>5. /\ Range(next.doc) = Range(page.doc) \cup
               IF event.kind = "automerge_change" THEN {event.change} \ lost[id] ELSE {}
          /\ event.kind = "automerge_change" => event.kind # "document_changed"
      BY <1>7, <2>3, <2>4 DEF event
    <2>6. KnownPage(next, Known')
      BY <1>1, <1>3, <1>7, <2>2, <2>5 DEF KnownPage
    <2>7. ShowsDocument(id) => ShowsDocument(id)'
      BY <1>0, <1>1, <1>7, <2>2, <2>5 DEF ShowsDocument, next
    <2> QED BY <1>3, <1>7, <2>6, <2>7
  <1>8. ASSUME next.at = "closed", next.doc = <<>>, next.outbox = <<>>, next.events = <<>>,
               UNCHANGED changes
        PROVE  Goal
    <2>1. KnownPage(next, Known')
      BY <1>8, EmptyRange DEF KnownPage
    <2>2. ShowsDocument(id)'
      BY <1>8 DEF ShowsDocument, next
    <2> QED BY <1>3, <1>8, <2>1, <2>2
  <1>9. Goal
    BY <1>2, <1>4, <1>5, <1>6, <1>7, <1>8 DEF WindowFields
  <1> QED BY <1>9 DEF next

LEMMA ShowStep ==
  StateInv /\ LibraryInv' /\ KnownInv /\ ShowInv /\ [DesktopNext]_desktopVars => ShowInv'
  <1> SUFFICES ASSUME StateInv, LibraryInv', KnownInv, ShowInv, [DesktopNext]_desktopVars
               PROVE  ShowInv'
    OBVIOUS
  <1>0. /\ LibraryInv /\ PagesInv /\ Listed \subseteq Ids /\ \A d \in Ids : Sound(pages[d])
    BY DEF StateInv, LibraryInv, PagesInv
  <1>1. ASSUME NEW id \in Listed, contents'[id] = contents[id], lost'[id] = lost[id],
               \/ pages'[id].at \notin {"loaded", "listening"}
               \/ /\ pages[id].at = pages'[id].at
                  /\ pages'[id].doc = pages[id].doc /\ pages'[id].outbox = pages[id].outbox
                  /\ Carried(pages'[id].events) = Carried(pages[id].events)
        PROVE  ShowsDocument(id)'
    BY <1>1 DEF ShowInv, ShowsDocument
  <1>2. ASSUME Listed' \subseteq Listed, \A d \in Listed' : contents'[d] = contents[d], UNCHANGED lost,
               \A d \in Ids : pages'[d] = pages[d] \/ pages'[d].at = "reading"
        PROVE  ShowInv'
    BY <1>0, <1>1, <1>2 DEF ShowInv
  <1>3. ASSUME NEW id \in Ids \ Listed, Listed' = Listed \cup {id}, UNCHANGED lost,
               pages[id].at = "closed", \A d \in Ids \ {id} : contents'[d] = contents[d],
               \A d \in Ids : pages'[d] = pages[d] \/ pages'[d].at = "reading"
        PROVE  ShowInv'
    <2>1. ShowsDocument(id)'
      BY <1>3 DEF ShowsDocument
    <2> QED BY <1>0, <1>1, <1>3, <2>1 DEF ShowInv
  <1>4. CASE UNCHANGED desktopVars
    BY <1>2, <1>4 DEF desktopVars, Listed
  <1>5. ASSUME NEW id \in Ids, TranscribeFile(id) PROVE ShowInv'
    <2>1. id \in Ids \ Listed /\ pages[id].at = "closed"
      BY <1>5, FreshIsUnknown DEF TranscribeFile
    <2>2. /\ Listed' = Listed \cup {id} /\ UNCHANGED <<pages, lost>>
          /\ \A d \in Ids \ {id} : contents'[d] = contents[d]
      BY <1>0, <1>5 DEF TranscribeFile, AddDocument, Listed, LibraryInv
    <2> QED BY <1>3, <2>1, <2>2
  <1>6. ASSUME NEW c \in Commands, NEW id \in Ids, FinishOpen(c, id) PROVE ShowInv'
    <2>1. id \in Ids \ Listed /\ pages[id].at = "closed"
      BY <1>6, FreshIsUnknown DEF FinishOpen
    <2>2. /\ Listed' = Listed \cup {id} /\ UNCHANGED lost
          /\ \A d \in Ids \ {id} : contents'[d] = contents[d]
      BY <1>0, <1>6 DEF FinishOpen, AddDocument, Listed, LibraryInv
    <2>3. \A d \in Ids : pages'[d] = pages[d] \/ pages'[d].at = "reading"
      BY <1>0, <1>6, ShowWindowStep DEF FinishOpen
    <2> QED BY <1>3, <2>1, <2>2, <2>3
  <1>7. ASSUME NEW id \in Ids, ForgetDocument(id), UNCHANGED <<files, pages, lost>> PROVE ShowInv'
    BY <1>0, <1>2, <1>7, ForgetStep
  <1>8. ASSUME NEW yes \in BOOLEAN, AnswerDelete(yes) PROVE ShowInv'
    <2>1. asked \in Ids /\ UNCHANGED <<files, pages, lost>>
      BY <1>8 DEF AnswerDelete, StateInv, HistoryInv
    <2>2. CASE yes
      BY <1>7, <1>8, <2>1, <2>2 DEF AnswerDelete
    <2>3. CASE ~yes
      BY <1>2, <1>8, <2>1, <2>3 DEF AnswerDelete, Listed
    <2> QED BY <2>2, <2>3
  <1>9. ASSUME NEW id \in Ids, RemoveFromRecent(id) PROVE ShowInv'
    BY <1>7, <1>9 DEF RemoveFromRecent
  <1>10. ASSUME NEW id \in Ids, WindowAction(id) PROVE ShowInv'
    <2>1. /\ Listed' = Listed /\ contents' = contents
          /\ \A d \in Ids \ {id} : pages'[d] = pages[d]
      BY <1>0, <1>10, WindowActionKeeps DEF Listed
    <2>2. \A d \in Ids \ {id} : lost'[d] = lost[d]
      BY <1>10 DEF WindowAction, ReadAutomerge, Listen, Edit, GetDocument, DeliverReply, DeliverEvent,
         CloseWindow, StateInv, HistoryInv
    <2>3. id \in Listed => ShowsDocument(id)'
      BY <1>10, ShowStepOfWindow DEF ShowInv
    <2> QED BY <1>0, <1>1, <2>1, <2>2, <2>3 DEF ShowInv
  <1>11. ASSUME NEW id \in Ids, AppendAutomergeChange(id) PROVE ShowInv'
    <2>1. PICK q : q = [pages[id] EXCEPT !.outbox = Tail(@)]
      OBVIOUS
    <2>2. /\ \A d \in Ids \ {id} : pages'[d] = pages[d] /\ contents'[d] = contents[d]
          /\ Listed' = Listed /\ UNCHANGED lost
      BY <1>11, <2>1, AppendChangeStep DEF AppendAutomergeChange
    <2>3. CASE id \in Listed
      <3>1. /\ Sound(q) /\ q.at = pages[id].at /\ q.doc = pages[id].doc
            /\ q.events = pages[id].events /\ q.outbox = Tail(pages[id].outbox)
            /\ Range(pages[id].outbox) =
                 {Head(pages[id].outbox)} \cup Range(Tail(pages[id].outbox))
            /\ pages'[id] = Told(q, Announcement(id))
            /\ Range(contents'[id]) = Range(contents[id]) \cup {Head(pages[id].outbox)}
        BY <1>11, <2>1, <2>3, AppendChangeStep
      <3>2. /\ pages'[id].at = q.at /\ pages'[id].doc = q.doc /\ pages'[id].outbox = q.outbox
            /\ Carried(pages'[id].events) = Carried(q.events)
        BY <2>2, <2>3, <3>1, AnnouncedShows
      <3>3. ShowsDocument(id)
        BY <2>3 DEF ShowInv
      <3>4. ShowsDocument(id)'
        BY <2>2, <3>1, <3>2, <3>3 DEF ShowsDocument
      <3> QED BY <1>0, <1>1, <2>2, <3>4 DEF ShowInv
    <2>4. CASE id \notin Listed
      BY <1>0, <1>1, <2>2, <2>4 DEF ShowInv
    <2> QED BY <2>3, <2>4
  <1>12. ASSUME NEW id \in Ids, WorkerChange(id) PROVE ShowInv'
    <2>1. PICK q : q = Told(pages[id], [kind |-> "automerge_change", change |-> changes'])
      OBVIOUS
    <2>2. /\ \A d \in Ids \ {id} : pages'[d] = pages[d] /\ contents'[d] = contents[d]
          /\ Sound(q) /\ q.at = pages[id].at /\ q.doc = pages[id].doc
          /\ q.outbox = pages[id].outbox
          /\ Carried(q.events) = Carried(pages[id].events) \cup
               IF pages[id].at = "listening" THEN {changes'} ELSE {}
          /\ pages'[id] = Told(q, Announcement(id))
          /\ Listed' = Listed /\ id \in Listed
          /\ Range(contents'[id]) = Range(contents[id]) \cup {changes'}
          /\ changes' = changes + 1 /\ changes' \in Nat
      BY <1>12, <2>1, WorkerChangeStep
    <2>3. /\ pages'[id].at = q.at /\ pages'[id].doc = q.doc /\ pages'[id].outbox = q.outbox
          /\ Carried(pages'[id].events) = Carried(q.events)
      BY <2>2, AnnouncedShows
    <2>4. /\ \A d \in Ids \ {id} : lost'[d] = lost[d]
          /\ lost'[id] = IF pages[id].at = "loaded" \/ lost[id] # {}
                         THEN lost[id] \cup {changes'} ELSE lost[id]
          /\ lost[id] \subseteq 1 .. changes /\ changes \in Nat
          /\ pages[id].at # "listening" => Carried(pages[id].events) = {}
      <3>1. lost' = IF pages[id].at = "loaded" \/ lost[id] # {}
                    THEN [lost EXCEPT ![id] = @ \cup {changes'}] ELSE lost
        BY <1>12 DEF WorkerChange
      <3>2. DOMAIN lost = Ids /\ lost[id] \subseteq 1 .. changes /\ changes \in Nat
        BY DEF StateInv, HistoryInv
      <3> QED BY <1>0, <3>1, <3>2, EmptyRange DEF Sound
    <2>5. changes' \notin Known /\ KnownPage(pages[id], Known) /\ Range(contents[id]) \subseteq Known
      BY <2>2, <2>4 DEF Known, KnownInv, KnownPages, KnownContents
    <2>6. ShowsDocument(id)
      BY <2>2 DEF ShowInv
    <2>7. ShowsDocument(id)'
      BY <2>2, <2>3, <2>4, <2>5, <2>6 DEF ShowsDocument, KnownPage
    <2> QED BY <1>0, <1>1, <2>2, <2>4, <2>7 DEF ShowInv
  <1>13. ASSUME NEW id \in Ids, Announces(id) PROVE ShowInv'
    <2>1. /\ \A d \in Ids \ {id} : pages'[d] = pages[d]
          /\ Listed' = Listed /\ UNCHANGED <<contents, lost>>
          /\ id \in Listed => pages'[id] = Told(pages[id], Announcement(id))
          /\ id \notin Listed => UNCHANGED pages
      BY <1>13, AnnouncesStep
    <2>2. id \in Listed =>
          /\ pages'[id].at = pages[id].at
          /\ pages'[id].doc = pages[id].doc /\ pages'[id].outbox = pages[id].outbox
          /\ Carried(pages'[id].events) = Carried(pages[id].events)
      BY <1>0, <2>1, AnnouncedShows
    <2> QED BY <1>0, <1>1, <2>1, <2>2 DEF ShowInv
  <1>14. ASSUME NEW c \in Commands, MarkSaved(c) PROVE ShowInv'
    <2>1. commands[c].id \in Ids
      BY <1>14 DEF MarkSaved, StateInv, CommandsInv, Placed
    <2> QED BY <1>13, <1>14, <2>1 DEF Announces
  <1>15. ASSUME NEW id \in Ids, WorkerProgress(id) \/ MediaFileAdded(id) PROVE ShowInv'
    BY <1>13, <1>15 DEF Announces
  <1>16. ASSUME NEW id \in Ids, OpenDocumentWindow(id) \/ AskToDelete(id) PROVE ShowInv'
    <2>1. UNCHANGED <<documents, contents, lost>>
      BY <1>16 DEF OpenDocumentWindow, AskToDelete
    <2>2. \A d \in Ids : pages'[d] = pages[d] \/ pages'[d].at = "reading"
      BY <1>0, <1>16, ShowWindowStep DEF OpenDocumentWindow, AskToDelete
    <2> QED BY <1>2, <2>1, <2>2 DEF Listed
  <1>17. ASSUME NEW c \in Commands, NEW path \in Paths, OpenFile(c, path) PROVE ShowInv'
    <2>1. UNCHANGED <<documents, contents, lost>>
      BY <1>17 DEF OpenFile
    <2>2. \A d \in Ids : pages'[d] = pages[d] \/ pages'[d].at = "reading"
      <3>1. CASE {id \in Listed : documents[id].save = path} # {}
        <4>1. PICK id \in Listed : ShowWindow(id)
          BY <1>17, <3>1 DEF OpenFile
        <4> QED BY <1>0, <4>1, ShowWindowStep
      <3>2. CASE {id \in Listed : documents[id].save = path} = {}
        BY <1>17, <3>2 DEF OpenFile
      <3> QED BY <3>1, <3>2
    <2> QED BY <1>2, <2>1, <2>2 DEF Listed
  <1>18. ASSUME NEW c \in Commands, NEW id \in Ids, SaveDocument(c, id) \/ SaveDocumentAs(c, id)
         PROVE  ShowInv'
    BY <1>2, <1>18 DEF SaveDocument, SaveDocumentAs, BeginSaving, Listed
  <1>19. ASSUME NEW c \in Commands,
                CancelSave(c) \/ ReadWorkingCopy(c) \/ WriteArchive(c) \/ WriteFails(c)
         PROVE  ShowInv'
    BY <1>2, <1>19 DEF CancelSave, ReadWorkingCopy, WriteArchive, WriteFails, Listed
  <1>20. ASSUME NEW c \in Commands, KickOut(c) PROVE ShowInv'
    BY <1>0, <1>2, <1>20, WithoutStep DEF KickOut
  <1> QED BY <1>4, <1>5, <1>6, <1>8, <1>9, <1>10, <1>11, <1>12, <1>14, <1>15, <1>16, <1>17, <1>18,
             <1>19, <1>20 DEF DesktopNext, WindowAction

LEMMA StaleDocs ==
  ASSUME StateInv, NEW d \in Commands
  PROVE  /\ \A id : CopyChanged(id)[d].doc = commands[d].doc
         /\ \A c, same : FileChanged(c, same)[d].doc = commands[d].doc
  <1>1. commands[d] \in Command
    BY DEF StateInv, CommandsInv
  <1>2. [commands[d] EXCEPT !.stale = TRUE].doc = commands[d].doc
    BY <1>1 DEF Command
  <1>3. PICK m : m = [commands[d] EXCEPT !.stale = TRUE]
    OBVIOUS
  <1>4. /\ \A id : CopyChanged(id)[d] \in {commands[d], m}
        /\ \A c, same : FileChanged(c, same)[d] \in {commands[d], m}
    BY <1>3 DEF CopyChanged, FileChanged
  <1> QED BY <1>2, <1>3, <1>4

LEMMA KnownStep == StateInv /\ LibraryInv' /\ KnownInv /\ [DesktopNext]_desktopVars => KnownInv'
  <1> SUFFICES ASSUME StateInv, LibraryInv', KnownInv, [DesktopNext]_desktopVars PROVE KnownInv'
    OBVIOUS
  <1>0. /\ LibraryInv /\ PagesInv /\ \A d \in Ids : Sound(pages[d])
        /\ commands \in [Commands -> Command] /\ changes \in Nat
    BY DEF StateInv, PagesInv, CommandsInv, HistoryInv
  <1>1. /\ \A d \in Ids : Range(contents[d]) \subseteq Known
        /\ \A d \in Ids : KnownPage(pages[d], Known)
        /\ \A p \in Paths : Range(files[p]) \subseteq Known
        /\ \A c \in Commands : Range(commands[c].doc) \subseteq Known
        /\ UNCHANGED changes => Known' = Known
    BY DEF KnownInv, KnownContents, KnownPages, KnownFiles, KnownCommands, Known
  <1>2. Range(NoFile) \subseteq Known /\ Range(Removed) \subseteq Known /\ Range(<<>>) = {}
    <2>1. Range(NoFile) = {-1} /\ Range(Removed) = {-2}
      BY DEF NoFile, Removed, Range
    <2> QED BY <1>0, <2>1, EmptyRange DEF Known
  \* Steps that move what is known, and add no change.
  <1>3. ASSUME UNCHANGED changes,
               \A d \in Ids : contents'[d] = contents[d] \/ Range(contents'[d]) \subseteq Known,
               \A d \in Ids : pages'[d] = pages[d] \/ KnownPage(pages'[d], Known),
               \A p \in Paths : files'[p] = files[p] \/ Range(files'[p]) \subseteq Known,
               \A c \in Commands : \/ commands'[c].doc = commands[c].doc
                                   \/ Range(commands'[c].doc) \subseteq Known
        PROVE  KnownInv'
    <2>1. Known' = Known
      BY <1>1, <1>3
    <2> HIDE DEF KnownPage
    <2>2. KnownContents' /\ KnownPages' /\ KnownFiles' /\ KnownCommands'
      BY <1>1, <1>3, <2>1 DEF KnownContents, KnownPages, KnownFiles, KnownCommands
    <2> QED BY <2>2 DEF KnownInv
  <1>4. CASE UNCHANGED desktopVars
    BY <1>3, <1>4 DEF desktopVars
  <1>5. ASSUME NEW c \in Commands, NEW m, Range(m.doc) \subseteq Known,
               commands' = [commands EXCEPT ![c] = m]
        PROVE  \A d \in Commands : \/ commands'[d].doc = commands[d].doc
                                   \/ Range(commands'[d].doc) \subseteq Known
    BY <1>0, <1>5
  <1>6. Range(NoCommand.doc) \subseteq Known
    BY <1>2, NoCommandIsPlaced
  <1>7. ASSUME NEW id \in Ids, ShowWindow(id)
        PROVE  \A d \in Ids : pages'[d] = pages[d] \/ KnownPage(pages'[d], Known)
    BY <1>0, <1>7, ShowWindowStep, EmptyRange DEF KnownPage
  <1>8. ASSUME NEW id \in Ids, TranscribeFile(id) PROVE KnownInv'
    <2>1. /\ UNCHANGED <<changes, files, pages, commands>>
          /\ \A d \in Ids : contents'[d] = contents[d] \/ contents'[d] = <<>>
      BY <1>0, <1>8 DEF TranscribeFile, LibraryInv
    <2> QED BY <1>2, <1>3, <2>1
  <1>9. ASSUME NEW c \in Commands, NEW id \in Ids, FinishOpen(c, id) PROVE KnownInv'
    <2>1. /\ UNCHANGED <<changes, files>> /\ ShowWindow(id)
          /\ commands' = [commands EXCEPT ![c] = NoCommand]
          /\ \A d \in Ids : contents'[d] = contents[d] \/ contents'[d] = commands[c].doc
      BY <1>0, <1>9 DEF FinishOpen, LibraryInv
    <2> QED BY <1>1, <1>3, <1>5, <1>6, <1>7, <2>1
  <1>10. ASSUME NEW id \in Ids, ForgetDocument(id), UNCHANGED <<files, pages, changes, commands>>
         PROVE  KnownInv'
    <2>1. \A d \in Ids : contents'[d] = contents[d] \/ contents'[d] = Removed
      BY <1>0, <1>10, ForgetStep
    <2> QED BY <1>2, <1>3, <1>10, <2>1
  <1>11. ASSUME NEW yes \in BOOLEAN, AnswerDelete(yes) PROVE KnownInv'
    <2>1. asked \in Ids /\ UNCHANGED <<files, pages, changes, commands>>
      BY <1>11 DEF AnswerDelete, StateInv, HistoryInv
    <2> QED BY <1>3, <1>10, <1>11, <2>1 DEF AnswerDelete
  <1>12. ASSUME NEW id \in Ids, RemoveFromRecent(id) PROVE KnownInv'
    BY <1>10, <1>12 DEF RemoveFromRecent
  <1>13. ASSUME NEW id \in Ids, WindowAction(id) PROVE KnownInv'
    <2>1. /\ KnownPage(pages'[id], Known') /\ Known \subseteq Known'
      BY <1>13, ShowStepOfWindow
    <2>2. /\ UNCHANGED <<contents, files, commands>>
          /\ \A d \in Ids \ {id} : pages'[d] = pages[d]
      BY <1>0, <1>13, WindowActionKeeps
    <2>3. \A d \in Ids : KnownPage(pages'[d], Known')
      <3>1. \A d \in Ids \ {id} : KnownPage(pages'[d], Known')
        BY <1>1, <2>1, <2>2 DEF KnownPage
      <3> QED BY <2>1, <3>1
    <2>4. KnownContents' /\ KnownPages' /\ KnownFiles' /\ KnownCommands'
      BY <1>1, <2>1, <2>2, <2>3 DEF KnownContents, KnownPages, KnownFiles, KnownCommands
    <2> QED BY <2>4 DEF KnownInv
  <1>14. ASSUME NEW id \in Ids, AppendAutomergeChange(id) PROVE KnownInv'
    <2>1. PICK q : q = [pages[id] EXCEPT !.outbox = Tail(@)]
      OBVIOUS
    <2>2. /\ UNCHANGED <<changes, files>>
          /\ \A d \in Ids \ {id} : pages'[d] = pages[d] /\ contents'[d] = contents[d]
          /\ Sound(q) /\ q.doc = pages[id].doc /\ Listed' = Listed
          /\ q.events = pages[id].events /\ q.outbox = Tail(pages[id].outbox)
          /\ Range(pages[id].outbox) =
               {Head(pages[id].outbox)} \cup Range(Tail(pages[id].outbox))
          /\ id \in Listed =>
              /\ pages'[id] = Told(q, Announcement(id))
              /\ Range(contents'[id]) = Range(contents[id]) \cup {Head(pages[id].outbox)}
          /\ id \notin Listed => pages'[id] = q /\ UNCHANGED contents
      BY <1>14, <2>1, AppendChangeStep DEF AppendAutomergeChange
    <2>3. KnownPage(q, Known)
      BY <1>1, <2>2 DEF KnownPage
    <2>4. id \in Listed => KnownPage(pages'[id], Known)
      BY <2>2, <2>3, AnnouncedShows DEF KnownPage
    <2>5. id \in Listed => Range(contents'[id]) \subseteq Known
      BY <1>1, <2>2 DEF KnownPage
    <2>6. commands' = CopyChanged(id) \/ UNCHANGED commands
      BY <1>14 DEF AppendAutomergeChange
    <2>7. \A c \in Commands : commands'[c].doc = commands[c].doc
      BY <2>6, StaleDocs
    <2> QED BY <1>3, <2>2, <2>3, <2>4, <2>5, <2>7
  <1>15. ASSUME NEW id \in Ids, WorkerChange(id) PROVE KnownInv'
    <2>1. PICK q : q = Told(pages[id], [kind |-> "automerge_change", change |-> changes'])
      OBVIOUS
    <2>2. /\ \A d \in Ids \ {id} : pages'[d] = pages[d] /\ contents'[d] = contents[d]
          /\ Sound(q) /\ q.doc = pages[id].doc /\ q.outbox = pages[id].outbox
          /\ Carried(q.events) = Carried(pages[id].events) \cup
               IF pages[id].at = "listening" THEN {changes'} ELSE {}
          /\ pages'[id] = Told(q, Announcement(id)) /\ id \in Listed'
          /\ Range(contents'[id]) = Range(contents[id]) \cup {changes'}
          /\ changes' = changes + 1 /\ UNCHANGED files
      BY <1>15, <2>1, WorkerChangeStep DEF WorkerChange
    <2>3. Known \subseteq Known' /\ changes' \in Known'
      BY <1>0, <2>2 DEF Known
    <2>4. KnownPage(pages'[id], Known')
      <3>1. /\ pages'[id].doc = q.doc /\ pages'[id].outbox = q.outbox
            /\ Carried(pages'[id].events) = Carried(q.events)
        BY <2>2, AnnouncedShows
      <3> QED BY <1>1, <2>2, <2>3, <3>1 DEF KnownPage
    <2>5. \A d \in Ids \ {id} : KnownPage(pages'[d], Known')
      BY <1>1, <2>2, <2>3 DEF KnownPage
    <2>6. \A c \in Commands : commands'[c].doc = commands[c].doc
      BY <1>15, StaleDocs DEF WorkerChange
    <2>7. KnownContents' /\ KnownPages' /\ KnownFiles' /\ KnownCommands'
      BY <1>1, <2>2, <2>3, <2>4, <2>5, <2>6 DEF KnownContents, KnownPages, KnownFiles, KnownCommands
    <2> QED BY <2>7 DEF KnownInv
  <1>16. ASSUME NEW id \in Ids, Announces(id), \A c \in Commands : commands'[c].doc = commands[c].doc
                   \/ Range(commands'[c].doc) \subseteq Known
         PROVE  KnownInv'
    <2>1. /\ \A d \in Ids \ {id} : pages'[d] = pages[d]
          /\ Listed' = Listed /\ UNCHANGED <<contents, changes, files>>
          /\ id \in Listed => pages'[id] = Told(pages[id], Announcement(id))
          /\ id \notin Listed => UNCHANGED pages
      BY <1>16, AnnouncesStep
    <2>2. id \in Listed => KnownPage(pages'[id], Known)
      BY <1>0, <1>1, <2>1, AnnouncedShows DEF KnownPage
    <2> QED BY <1>3, <1>16, <2>1, <2>2
  <1>17. ASSUME NEW c \in Commands, MarkSaved(c) PROVE KnownInv'
    <2>1. commands[c].id \in Ids /\ commands' = [commands EXCEPT ![c] = NoCommand]
      BY <1>17 DEF MarkSaved, StateInv, CommandsInv, Placed
    <2> QED BY <1>5, <1>6, <1>16, <1>17, <2>1 DEF Announces
  <1>18. ASSUME NEW id \in Ids, WorkerProgress(id) \/ MediaFileAdded(id) PROVE KnownInv'
    BY <1>16, <1>18 DEF Announces, WorkerProgress, MediaFileAdded
  <1>19. ASSUME NEW id \in Ids, OpenDocumentWindow(id) \/ AskToDelete(id) PROVE KnownInv'
    BY <1>3, <1>7, <1>19 DEF OpenDocumentWindow, AskToDelete
  <1>20. ASSUME NEW c \in Commands, NEW path \in Paths, OpenFile(c, path) PROVE KnownInv'
    <2>1. UNCHANGED <<changes, contents, files>>
      BY <1>20 DEF OpenFile
    <2>2. CASE {id \in Listed : documents[id].save = path} # {}
      <3>1. PICK id \in Listed : ShowWindow(id) /\ UNCHANGED commands
        BY <1>20, <2>2 DEF OpenFile
      <3> QED BY <1>0, <1>3, <1>7, <2>1, <3>1 DEF LibraryInv
    <2>3. CASE {id \in Listed : documents[id].save = path} = {}
      <3> DEFINE m == [NoCommand EXCEPT !.stage = "opened", !.path = path, !.doc = files[path]]
      <3>1. commands' = [commands EXCEPT ![c] = m] /\ UNCHANGED pages
        BY <1>20, <2>3 DEF OpenFile
      <3>2. m.doc = files[path]
        BY DEF NoCommand
      <3> HIDE DEF m
      <3> QED BY <1>1, <1>3, <1>5, <2>1, <3>1, <3>2
    <2> QED BY <2>2, <2>3
  <1>21. ASSUME NEW c \in Commands, NEW id \in Ids, NEW path, BeginSaving(c, id, path) PROVE KnownInv'
    <2> DEFINE m == [NoCommand EXCEPT !.stage = "begun", !.id = id, !.path = path,
                                      !.as = (path = NoPath), !.from = documents[id].from]
    <2>1. /\ commands' = [commands EXCEPT ![c] = m]
          /\ UNCHANGED <<changes, contents, files, pages>>
      BY <1>21 DEF BeginSaving
    <2>2. m.doc = <<>>
      BY DEF NoCommand
    <2> HIDE DEF m
    <2> QED BY <1>2, <1>3, <1>5, <2>1, <2>2
  <1>22. ASSUME NEW c \in Commands, NEW id \in Ids, SaveDocument(c, id) \/ SaveDocumentAs(c, id)
         PROVE  KnownInv'
    BY <1>21, <1>22 DEF SaveDocument, SaveDocumentAs
  <1>23. ASSUME NEW c \in Commands, CancelSave(c) PROVE KnownInv'
    BY <1>3, <1>5, <1>6, <1>23 DEF CancelSave
  <1>24. ASSUME NEW c \in Commands, ReadWorkingCopy(c) PROVE KnownInv'
    <2>1. UNCHANGED <<changes, contents, files, pages>>
      BY <1>24 DEF ReadWorkingCopy
    <2>2. CASE contents[commands[c].id] = Removed
      BY <1>3, <1>5, <1>6, <1>24, <2>1, <2>2 DEF ReadWorkingCopy
    <2>3. CASE contents[commands[c].id] # Removed
      <3> DEFINE id == commands[c].id
      <3>1. PICK path \in IF commands[c].as THEN Paths ELSE {commands[c].path} :
              commands' = [commands EXCEPT ![c] = [@ EXCEPT !.stage = "read",
                                    !.path = path, !.doc = contents[id]]]
        BY <1>24, <2>3 DEF ReadWorkingCopy
      <3>2. id \in Ids /\ commands[c] \in Command
        BY <1>0, <1>24 DEF ReadWorkingCopy, Placed, StateInv, CommandsInv
      <3> DEFINE m == [commands[c] EXCEPT !.stage = "read", !.path = path, !.doc = contents[id]]
      <3>3. m.doc = contents[id] /\ commands' = [commands EXCEPT ![c] = m]
        BY <3>1, <3>2 DEF Command
      <3> HIDE DEF m
      <3> QED BY <1>1, <1>3, <1>5, <2>1, <3>2, <3>3
    <2> QED BY <2>2, <2>3
  <1>25. ASSUME NEW c \in Commands, WriteArchive(c) PROVE KnownInv'
    <2> DEFINE m == [commands[c] EXCEPT !.stage = "written"]
               cs == FileChanged(c, IF commands[c].stale THEN {} ELSE {commands[c].id})
    <2>1. /\ commands' = [cs EXCEPT ![c] = m] /\ UNCHANGED <<changes, contents, pages>>
          /\ \A p \in Paths : files'[p] = files[p] \/ files'[p] = commands[c].doc
      BY <1>0, <1>25 DEF WriteArchive, LibraryInv
    <2>2. m.doc = commands[c].doc /\ DOMAIN cs = Commands /\ \A d \in Commands : cs[d].doc = commands[d].doc
      <3>1. m.doc = commands[c].doc
        BY <1>0 DEF Command
      <3>2. DOMAIN cs = Commands
        BY DEF FileChanged
      <3> QED BY <3>1, <3>2, StaleDocs
    <2> HIDE DEF m, cs
    <2>3. \A d \in Commands : commands'[d].doc = commands[d].doc
      BY <2>1, <2>2
    <2> QED BY <1>1, <1>3, <2>1, <2>3
  <1>26. ASSUME NEW c \in Commands, WriteFails(c) PROVE KnownInv'
    <2> DEFINE cs == FileChanged(c, {})
    <2>1. /\ commands' = [cs EXCEPT ![c] = NoCommand] /\ UNCHANGED <<changes, contents, pages>>
          /\ \A p \in Paths : files'[p] = files[p] \/ files'[p] = NoFile
      BY <1>0, <1>26 DEF WriteFails, LibraryInv
    <2>2. DOMAIN cs = Commands /\ \A d \in Commands : cs[d].doc = commands[d].doc
      BY StaleDocs DEF FileChanged
    <2> HIDE DEF cs
    <2>3. \A d \in Commands : commands'[d].doc = commands[d].doc \/ commands'[d] = NoCommand
      BY <2>1, <2>2
    <2> QED BY <1>2, <1>3, <1>6, <2>1, <2>3
  <1>27. ASSUME NEW c \in Commands, KickOut(c) PROVE KnownInv'
    <2>1. /\ UNCHANGED <<changes, contents, files, pages>>
          /\ \A d \in Commands : commands'[d].doc = commands[d].doc
      BY <1>0, <1>27 DEF KickOut, Command
    <2> QED BY <1>3, <2>1
  <1> QED BY <1>4, <1>8, <1>9, <1>11, <1>12, <1>13, <1>14, <1>15, <1>17, <1>18, <1>19, <1>20, <1>22,
             <1>23, <1>24, <1>25, <1>26, <1>27 DEF DesktopNext, WindowAction

-----------------------------------------------------------------------------
(* What titles tell                                                        *)

\* What was told last counts.
LEMMA TellsAppend ==
  ASSUME NEW page \in Page, NEW u \in BOOLEAN, NEW e \in Event, NEW s \in Seq(Event),
         page.events = Append(s, e), e.kind = "document_changed", e.unsaved = u
  PROVE  Tells(page, u)
  BY AppendProperties DEF Tells

LEMMA TellsTail ==
  ASSUME NEW page \in Page, NEW u \in BOOLEAN, Tells(page, u), page.events # <<>>,
         NEW p \in Page, p.events = Tail(page.events),
         Head(page.events).kind = "document_changed" =>
           p.title = Head(page.events).unsaved,
         Head(page.events).kind # "document_changed" =>
           p.title = page.title /\ p.heard = page.heard
  PROVE  Tells(p, u)
  <1> DEFINE s == page.events
             t == Tail(s)
             Told1 == {i \in DOMAIN s : s[i].kind = "document_changed"}
             Told2 == {i \in DOMAIN t : t[i].kind = "document_changed"}
  <1>0. s \in Seq(Event)
    BY DEF Page
  <1>1. /\ s \in Seq(Event) /\ t \in Seq(Event) /\ Len(s) \in Nat \ {0}
        /\ DOMAIN s = 1 .. Len(s) /\ DOMAIN t = 1 .. Len(s) - 1 /\ Head(s) = s[1]
        /\ \A i \in 1 .. Len(s) - 1 : t[i] = s[i + 1]
    <2> HIDE DEF s
    <2>1. s # <<>> /\ Len(s) \in Nat \ {0} /\ DOMAIN s = 1 .. Len(s)
      BY <1>0, EmptySeq, LenProperties DEF s
    <2>2. /\ t \in Seq(Event) /\ Len(t) = Len(s) - 1
          /\ \A i \in 1 .. Len(t) : t[i] = s[i + 1]
      BY <1>0, <2>1, HeadTailProperties
    <2>3. DOMAIN t = 1 .. Len(s) - 1 /\ Head(s) = s[1]
      BY <1>0, <2>1, <2>2, LenProperties
    <2> QED BY <1>0, <2>1, <2>2, <2>3
  <1>2. \A i \in Told2 : i + 1 \in Told1
    BY <1>1
  <1>3. \A i \in Told1 : i # 1 => i - 1 \in Told2
    BY <1>1
  <1>4. CASE Told2 = {}
    <2>1. CASE Told1 = {}
      <3>1. Head(s).kind # "document_changed"
        BY <2>1, <1>1
      <3> QED BY <3>1, <2>1, <1>4 DEF Tells
    <2>2. CASE Told1 # {}
      <3>1. Told1 = {1}
        BY <2>2, <1>3, <1>4, <1>1
      <3>2. s[1].unsaved = u /\ s[1].kind = "document_changed"
        BY <3>1 DEF Tells
      <3> QED BY <3>2, <1>1, <1>4 DEF Tells
    <2> QED BY <2>1, <2>2
  <1>5. CASE Told2 # {}
    <2>1. PICK i \in Told1 : s[i].unsaved = u /\ \A j \in Told1 : j <= i
      <3>1. Told1 # {}
        BY <1>5, <1>2
      <3> QED BY <3>1 DEF Tells
    <2>2. i # 1 /\ i \in Nat
      BY <1>5, <1>2, <2>1, <1>1
    <2>3. /\ i - 1 \in Told2 /\ t[i - 1].unsaved = u
          /\ \A j \in Told2 : j <= i - 1
      BY <2>1, <2>2, <1>1, <1>2, <1>3
    <2> QED BY <2>3, <1>5 DEF Tells
  <1> QED BY <1>4, <1>5

\* A window whose document is announced tells what was announced.
LEMMA AnnouncedTells ==
  ASSUME LibraryInv', NEW id \in Listed', NEW page, Sound(page), page.at = "listening"
  PROVE  Tells(Told(page, Announcement(id)), documents'[id].unsaved)
  <1> DEFINE e == Announcement(id)
             p == Told(page, e)
  <1>1. /\ e \in Event /\ e.kind = "document_changed" /\ e.unsaved = documents'[id].unsaved
        /\ documents'[id].unsaved \in BOOLEAN
    BY AnnouncementIsEvent
  <1> HIDE DEF e
  <1>2. p \in Page /\ p.events = Append(page.events, e) /\ page.events \in Seq(Event)
    <2>1. Sound(p) /\ p.events = Append(page.events, e)
      BY <1>1, ToldPage
    <2> HIDE DEF p
    <2> QED BY <2>1 DEF Sound, Page
  <1> HIDE DEF p
  <1>3. Tells(p, documents'[id].unsaved)
    BY <1>1, <1>2, TellsAppend
  <1> QED BY <1>3 DEF p, e

LEMMA TitleStep == StateInv /\ StateInv' /\ TitleInv /\ [DesktopNext]_desktopVars => TitleInv'
  <1> SUFFICES ASSUME StateInv, StateInv', TitleInv, [DesktopNext]_desktopVars PROVE TitleInv'
    OBVIOUS
  <1>0. /\ LibraryInv /\ PagesInv /\ Listed \subseteq Ids /\ \A d \in Ids : Sound(pages[d])
        /\ LibraryInv' /\ \A d \in Ids : Sound(pages[d])'
    BY DEF StateInv, LibraryInv, PagesInv
  <1>1. ASSUME NEW id \in Listed, pages'[id] = pages[id] \/ pages'[id].at = "reading",
               documents'[id].unsaved = documents[id].unsaved
        PROVE  pages'[id].at = "listening" => Tells(pages'[id], documents'[id].unsaved)
    BY <1>1 DEF TitleInv
  <1>2. ASSUME Listed' \subseteq Listed, \A d \in Listed' : documents'[d].unsaved = documents[d].unsaved,
               \A d \in Ids : pages'[d] = pages[d] \/ pages'[d].at = "reading"
        PROVE  TitleInv'
    <2>1. \A d \in Listed' : pages'[d].at = "listening" => Tells(pages'[d], documents'[d].unsaved)
      BY <1>0, <1>1, <1>2
    <2> QED BY <2>1 DEF TitleInv, Tells
  <1>3. ASSUME NEW id \in Ids \ Listed, NEW row, AddDocument(id, row),
               pages[id].at = "closed",
               \A d \in Ids : pages'[d] = pages[d] \/ pages'[d].at = "reading"
        PROVE  TitleInv'
    <2>1. Listed' = Listed \cup {id} /\ \A d \in Listed : documents'[d] = documents[d]
      BY <1>3 DEF AddDocument, Listed
    <2>2. \A d \in Listed' : pages'[d].at = "listening" => Tells(pages'[d], documents'[d].unsaved)
      BY <1>0, <1>1, <1>3, <2>1
    <2> QED BY <2>2 DEF TitleInv, Tells
  \* Steps of one window.
  <1>4. ASSUME NEW id \in Ids, Listed' = Listed,
               \A d \in Listed \ {id} : pages'[d] = pages[d] /\ documents'[d] = documents[d],
               id \in Listed /\ pages'[id].at = "listening" => Tells(pages'[id], documents'[id].unsaved)
        PROVE  TitleInv'
    <2>1. \A d \in Listed' : pages'[d].at = "listening" => Tells(pages'[d], documents'[d].unsaved)
      BY <1>1, <1>4
    <2> QED BY <2>1 DEF TitleInv, Tells
  <1>5. ASSUME NEW id \in Ids, WindowAction(id) PROVE TitleInv'
    <2> DEFINE page == pages[id]
               next == pages'[id]
               unsaved == documents[id].unsaved
    <2>1. /\ UNCHANGED documents /\ \A d \in Ids \ {id} : pages'[d] = pages[d]
          /\ WindowFields(id, page, next)
      BY <1>0, <1>5, WindowActionKeeps, WindowFieldsRight
    <2> SUFFICES ASSUME id \in Listed, next.at = "listening" PROVE Tells(next, unsaved)
      BY <1>0, <1>4, <2>1 DEF Listed
    <2>2. /\ page \in Page /\ next \in Page /\ unsaved \in BOOLEAN
          /\ page.at # "listening" => page.events = <<>> /\ ~page.heard
          /\ page.at = "listening" => Tells(page, unsaved)
      BY <1>0 DEF Sound, TitleInv, LibraryInv, Row
    <2> HIDE DEF page, next, unsaved
    <2>3. ASSUME page.at = next.at, next.events = page.events,
                 ~next.heard \/ (next.heard = page.heard /\ next.title = page.title)
          PROVE  Tells(next, unsaved)
      BY <2>2, <2>3 DEF Tells
    <2>4. ASSUME page.at = "loaded", next.events = page.events, next.heard = page.heard
          PROVE  Tells(next, unsaved)
      <3>1. next.events = <<>> /\ ~next.heard /\ DOMAIN <<>> = {}
        BY <2>2, <2>4
      <3> QED BY <3>1 DEF Tells
    <2>5. ASSUME page.at = "listening", page.events # <<>>, next.events = Tail(page.events),
                 IF Head(page.events).kind = "document_changed"
                 THEN next.title = Head(page.events).unsaved
                 ELSE next.title = page.title /\ next.heard = page.heard
          PROVE  Tells(next, unsaved)
      BY <2>2, <2>5, TellsTail
    <2> QED BY <2>1, <2>3, <2>4, <2>5 DEF WindowFields
  <1>6. ASSUME NEW id \in Ids, AppendAutomergeChange(id) PROVE TitleInv'
    <2>1. PICK q : q = [pages[id] EXCEPT !.outbox = Tail(@)]
      OBVIOUS
    <2>2. /\ Listed' = Listed /\ \A d \in Ids \ {id} : pages'[d] = pages[d]
          /\ Sound(q)
          /\ id \in Listed => pages'[id] = Told(q, Announcement(id))
          /\ \A d \in Listed \ {id} : documents'[d] = documents[d]
      BY <1>0, <1>6, <2>1, AppendChangeStep
    <2>3. id \in Listed /\ pages'[id].at = "listening" => Tells(pages'[id], documents'[id].unsaved)
      BY <1>0, <2>2, AnnouncementIsEvent, AnnouncedTells, ToldPage
    <2> QED BY <1>0, <1>4, <2>2, <2>3
  <1>7. ASSUME NEW id \in Ids, WorkerChange(id) PROVE TitleInv'
    <2>1. PICK q : q = Told(pages[id], [kind |-> "automerge_change", change |-> changes'])
      OBVIOUS
    <2>2. /\ \A d \in Ids \ {id} : pages'[d] = pages[d]
          /\ Sound(q) /\ Listed' = Listed /\ id \in Listed
          /\ pages'[id] = Told(q, Announcement(id))
          /\ \A d \in Listed \ {id} : documents'[d] = documents[d]
      BY <1>0, <1>7, <2>1, WorkerChangeStep
    <2>3. pages'[id].at = "listening" => Tells(pages'[id], documents'[id].unsaved)
      BY <1>0, <2>2, AnnouncementIsEvent, AnnouncedTells, ToldPage
    <2> QED BY <1>0, <1>4, <2>2, <2>3
  <1>8. ASSUME NEW id \in Ids, Announces(id) PROVE TitleInv'
    <2>1. /\ \A d \in Ids \ {id} : pages'[d] = pages[d]
          /\ Listed' = Listed
          /\ id \in Listed => pages'[id] = Told(pages[id], Announcement(id))
          /\ \A d \in Listed \ {id} : documents'[d] = documents[d]
      BY <1>0, <1>8, AnnouncesStep
    <2>2. id \in Listed /\ pages'[id].at = "listening" => Tells(pages'[id], documents'[id].unsaved)
      BY <1>0, <2>1, AnnouncementIsEvent, AnnouncedTells, ToldPage
    <2> QED BY <1>0, <1>4, <2>1, <2>2
  <1>9. ASSUME NEW c \in Commands, MarkSaved(c) PROVE TitleInv'
    <2>1. commands[c].id \in Ids
      BY <1>9 DEF MarkSaved, StateInv, CommandsInv, Placed
    <2> QED BY <1>8, <1>9, <2>1 DEF Announces
  <1>10. ASSUME NEW id \in Ids, WorkerProgress(id) \/ MediaFileAdded(id) PROVE TitleInv'
    BY <1>8, <1>10 DEF Announces
  <1>11. ASSUME NEW id \in Ids, TranscribeFile(id) PROVE TitleInv'
    <2>1. PICK row : AddDocument(id, row)
      BY <1>11 DEF TranscribeFile
    <2>2. id \in Ids \ Listed /\ pages[id].at = "closed" /\ UNCHANGED pages
      BY <1>11, FreshIsUnknown DEF TranscribeFile
    <2> QED BY <1>3, <2>1, <2>2
  <1>12. ASSUME NEW c \in Commands, NEW id \in Ids, FinishOpen(c, id) PROVE TitleInv'
    <2>1. PICK row : AddDocument(id, row)
      BY <1>12 DEF FinishOpen
    <2>2. id \in Ids \ Listed /\ pages[id].at = "closed" /\ ShowWindow(id)
      BY <1>12, FreshIsUnknown DEF FinishOpen
    <2>3. \A d \in Ids : pages'[d] = pages[d] \/ pages'[d].at = "reading"
      BY <1>0, <2>2, ShowWindowStep
    <2> QED BY <1>3, <2>1, <2>2, <2>3
  <1>13. ASSUME NEW id \in Ids, ForgetDocument(id), UNCHANGED <<files, pages>> PROVE TitleInv'
    BY <1>0, <1>2, <1>13, ForgetStep
  <1>14. ASSUME NEW yes \in BOOLEAN, AnswerDelete(yes) PROVE TitleInv'
    <2>1. asked \in Ids /\ UNCHANGED <<files, pages>>
      BY <1>14 DEF AnswerDelete, StateInv, HistoryInv
    <2>2. CASE yes
      BY <1>13, <1>14, <2>1, <2>2 DEF AnswerDelete
    <2>3. CASE ~yes
      BY <1>2, <1>14, <2>1, <2>3 DEF AnswerDelete, Listed
    <2> QED BY <2>2, <2>3
  <1>15. ASSUME NEW id \in Ids, RemoveFromRecent(id) PROVE TitleInv'
    BY <1>13, <1>15 DEF RemoveFromRecent
  <1>16. ASSUME NEW id \in Ids, OpenDocumentWindow(id) \/ AskToDelete(id) PROVE TitleInv'
    <2>1. UNCHANGED documents
      BY <1>16 DEF OpenDocumentWindow, AskToDelete
    <2>2. \A d \in Ids : pages'[d] = pages[d] \/ pages'[d].at = "reading"
      BY <1>0, <1>16, ShowWindowStep DEF OpenDocumentWindow, AskToDelete
    <2> QED BY <1>2, <2>1, <2>2 DEF Listed
  <1>17. ASSUME NEW c \in Commands, NEW path \in Paths, OpenFile(c, path) PROVE TitleInv'
    <2>1. UNCHANGED documents
      BY <1>17 DEF OpenFile
    <2>2. \A d \in Ids : pages'[d] = pages[d] \/ pages'[d].at = "reading"
      <3>1. CASE {id \in Listed : documents[id].save = path} # {}
        <4>1. PICK id \in Listed : ShowWindow(id)
          BY <1>17, <3>1 DEF OpenFile
        <4> QED BY <1>0, <4>1, ShowWindowStep
      <3>2. CASE {id \in Listed : documents[id].save = path} = {}
        BY <1>17, <3>2 DEF OpenFile
      <3> QED BY <3>1, <3>2
    <2> QED BY <1>2, <2>1, <2>2 DEF Listed
  <1>18. ASSUME NEW c \in Commands, NEW id \in Ids, SaveDocument(c, id) \/ SaveDocumentAs(c, id)
         PROVE  TitleInv'
    BY <1>2, <1>18 DEF SaveDocument, SaveDocumentAs, BeginSaving, Listed
  <1>19. ASSUME NEW c \in Commands,
                CancelSave(c) \/ ReadWorkingCopy(c) \/ WriteArchive(c) \/ WriteFails(c)
         PROVE  TitleInv'
    BY <1>2, <1>19 DEF CancelSave, ReadWorkingCopy, WriteArchive, WriteFails, Listed
  <1>20. ASSUME NEW c \in Commands, KickOut(c) PROVE TitleInv'
    BY <1>0, <1>2, <1>20, WithoutStep DEF KickOut
  <1>21. CASE UNCHANGED desktopVars
    BY <1>2, <1>21 DEF desktopVars, Listed
  <1> QED BY <1>5, <1>6, <1>7, <1>9, <1>10, <1>11, <1>12, <1>14, <1>15, <1>16, <1>17, <1>18,
             <1>19, <1>20, <1>21 DEF DesktopNext, WindowAction

-----------------------------------------------------------------------------
(* What is saved                                                           *)

LEMMA SavedStep == StateInv /\ LibraryInv' /\ SaveInv /\ [DesktopNext]_desktopVars => SaveInv'
  <1> SUFFICES ASSUME StateInv, LibraryInv', SaveInv, [DesktopNext]_desktopVars PROVE SaveInv'
    OBVIOUS
  <1>0. /\ LibraryInv /\ PagesInv /\ Listed \subseteq Ids /\ SavedIsInFile
        /\ commands \in [Commands -> Command] /\ 0 \notin Ids /\ NoPath \notin Paths
        /\ \A c \in Commands : commands[c] \in Command /\ Placed(commands[c], contents) /\ Right(c)
    BY NoFileIsNone DEF StateInv, LibraryInv, CommandsInv, SaveInv
  \* Documents that are saved as they were, or have unsaved changes now.
  <1>1. ASSUME UNCHANGED files, overtaken \subseteq overtaken', Listed' \subseteq Listed,
               \A d \in Listed' :
                  /\ documents'[d].save = documents[d].save
                  /\ \/ documents'[d].unsaved
                     \/ documents'[d].unsaved = documents[d].unsaved /\ contents'[d] = contents[d]
        PROVE  SavedIsInFile'
    BY <1>0, <1>1 DEF SavedIsInFile
  \* Commands that are as they were, stale, or not yet obliged.
  <1>2. ASSUME NEW c \in Commands, commands'[c] = commands[c], UNCHANGED files,
               commands[c].stage \in {"read", "written", "kicked"} /\ commands[c].id \in Listed' =>
                 commands[c].id \in Listed /\ contents'[commands[c].id] = contents[commands[c].id]
        PROVE  Right(c)'
    BY <1>0, <1>2 DEF Right, Current
  <1>3. ASSUME NEW c \in Commands,
               commands'[c].stale \/ commands'[c].stage \in {"idle", "begun"}
        PROVE  Right(c)'
    BY <1>3 DEF Right, Current
  <1>4. ASSUME UNCHANGED <<files, overtaken, commands>>, Listed' \subseteq Listed,
               \A d \in Listed' :
                  /\ documents'[d].save = documents[d].save /\ contents'[d] = contents[d]
                  /\ documents'[d].unsaved = documents[d].unsaved
        PROVE  SaveInv'
    <2>1. \A c \in Commands : Right(c)'
      BY <1>2, <1>4
    <2> QED BY <1>1, <1>4, <2>1 DEF SaveInv
  \* One command goes on, and the rest is as it was.
  <1>5. ASSUME NEW c \in Commands, NEW m, commands' = [commands EXCEPT ![c] = m], Right(c)',
               UNCHANGED <<files, overtaken, contents>>, Listed' \subseteq Listed,
               \A d \in Listed' : documents'[d] = documents[d]
        PROVE  SaveInv'
    <2>1. \A d \in Commands \ {c} : Right(d)'
      BY <1>0, <1>2, <1>5
    <2>2. SavedIsInFile'
      BY <1>1, <1>5
    <2> QED BY <1>5, <2>1, <2>2 DEF SaveInv
  <1>6. NoCommand.stage = "idle"
    BY DEF NoCommand
  <1>7. ASSUME NEW id \in Ids, WindowAction(id) PROVE SaveInv'
    BY <1>0, <1>4, <1>7, WindowActionKeeps DEF Listed
  <1>8. ASSUME NEW id \in Ids, id \in Listed, commands' = CopyChanged(id), Listed' = Listed,
               documents'[id].unsaved, UNCHANGED <<files, overtaken>>,
               \A d \in Listed : documents'[d].save = documents[d].save,
               \A d \in Listed \ {id} : documents'[d] = documents[d],
               \A d \in Ids \ {id} : contents'[d] = contents[d]
        PROVE  SaveInv'
    <2>1. SavedIsInFile'
      BY <1>0, <1>1, <1>8
    <2>2. ASSUME NEW c \in Commands PROVE Right(c)'
      <3>1. CASE commands[c].id = id /\ commands[c].stage # "begun"
        <4>1. commands'[c] = [commands[c] EXCEPT !.stale = TRUE]
          BY <1>8, <3>1 DEF CopyChanged
        <4>2. commands'[c].stale
          BY <1>0, <4>1 DEF Command
        <4> QED BY <1>3, <4>2
      <3>2. CASE commands[c].id # id \/ commands[c].stage = "begun"
        <4>1. commands'[c] = commands[c]
          BY <1>8, <3>2 DEF CopyChanged
        <4> QED BY <1>0, <1>2, <1>3, <1>8, <3>2, <4>1
      <3> QED BY <3>1, <3>2
    <2> QED BY <2>1, <2>2 DEF SaveInv
  <1>9. ASSUME NEW id \in Ids, AppendAutomergeChange(id) PROVE SaveInv'
    <2>1. PICK q : q = [pages[id] EXCEPT !.outbox = Tail(@)]
      OBVIOUS
    <2>2. /\ Listed' = Listed
          /\ id \in Listed => documents'[id].unsaved
          /\ id \notin Listed => UNCHANGED <<documents, contents>>
          /\ \A d \in Ids \ {id} : contents'[d] = contents[d]
          /\ \A d \in Listed : documents'[d].save = documents[d].save
          /\ \A d \in Listed \ {id} : documents'[d] = documents[d]
      BY <1>9, <2>1, AppendChangeStep
    <2>3. /\ UNCHANGED <<files, overtaken>>
          /\ commands' = IF id \in Listed THEN CopyChanged(id) ELSE commands
      BY <1>9 DEF AppendAutomergeChange
    <2>4. CASE id \in Listed
      BY <1>8, <2>2, <2>3, <2>4
    <2>5. CASE id \notin Listed
      BY <1>4, <2>2, <2>3, <2>5
    <2> QED BY <2>4, <2>5
  <1>10. ASSUME NEW id \in Ids, WorkerChange(id) PROVE SaveInv'
    <2>1. PICK q : q = Told(pages[id], [kind |-> "automerge_change", change |-> changes'])
      OBVIOUS
    <2>2. /\ Listed' = Listed /\ id \in Listed /\ documents'[id].unsaved
          /\ \A d \in Ids \ {id} : contents'[d] = contents[d]
          /\ \A d \in Listed : documents'[d].save = documents[d].save
          /\ \A d \in Listed \ {id} : documents'[d] = documents[d]
      BY <1>10, <2>1, WorkerChangeStep
    <2>3. UNCHANGED <<files, overtaken>> /\ commands' = CopyChanged(id)
      BY <1>10 DEF WorkerChange
    <2> QED BY <1>8, <2>2, <2>3
  <1>11. ASSUME NEW id \in Ids, WorkerProgress(id) \/ MediaFileAdded(id) PROVE SaveInv'
    <2>1. UNCHANGED <<contents, files, commands, overtaken>>
      BY <1>11 DEF WorkerProgress, MediaFileAdded
    <2>2. CASE WorkerProgress(id)
      BY <1>4, <2>1, <2>2 DEF WorkerProgress, Listed
    <2>3. CASE MediaFileAdded(id)
      <3>1. /\ Listed' = Listed
            /\ id \in Listed => documents'[id].unsaved = documents[id].unsaved
            /\ \A d \in Listed : documents'[d].save = documents[d].save
            /\ \A d \in Listed \ {id} : documents'[d] = documents[d]
        BY <1>0, <2>3, RowStep DEF MediaFileAdded
      <3> QED BY <1>4, <2>1, <3>1
    <2> QED BY <1>11, <2>2, <2>3
  \* A document comes in, which no command knows.
  <1>12. ASSUME NEW id \in FreshIds, NEW row \in Row, AddDocument(id, row), NEW s,
                contents' = [contents EXCEPT ![id] = s], UNCHANGED files,
                overtaken \ {id} \subseteq overtaken',
                \/ row.save = NoPath \/ id \in overtaken' \/ Range(files[row.save]) = Range(s)
         PROVE  /\ SavedIsInFile'
                /\ \A c \in Commands : commands'[c] = commands[c] => Right(c)'
    <2>1. /\ id \in Ids \ Listed
          /\ \A c \in Commands :
               commands[c].stage \in {"read", "written", "kicked"} => commands[c].id # id
      BY <1>12, FreshIsUnknown
    <2>2. /\ Listed' = Listed \cup {id} /\ documents'[id] = row
          /\ \A d \in Listed : documents'[d] = documents[d] /\ contents'[d] = contents[d]
          /\ contents'[id] = s
      BY <1>0, <1>12, <2>1, AddStep DEF LibraryInv
    <2>3. SavedIsInFile'
      BY <1>0, <1>12, <2>1, <2>2 DEF SavedIsInFile
    <2>4. \A c \in Commands : commands'[c] = commands[c] => Right(c)'
      BY <1>2, <1>12, <2>1, <2>2
    <2> QED BY <2>3, <2>4
  <1>13. ASSUME NEW id \in Ids, TranscribeFile(id) PROVE SaveInv'
    <2> DEFINE row == [save |-> NoPath, unsaved |-> FALSE, media |-> FALSE, from |-> NoPath]
    <2>1. /\ id \in FreshIds /\ AddDocument(id, row) /\ contents' = [contents EXCEPT ![id] = <<>>]
          /\ UNCHANGED <<files, commands, overtaken>> /\ row \in Row /\ row.save = NoPath
      BY <1>13 DEF TranscribeFile, Row
    <2> HIDE DEF row
    <2>2. SavedIsInFile' /\ \A c \in Commands : Right(c)'
      BY <1>12, <2>1
    <2> QED BY <2>2 DEF SaveInv
  <1>14. ASSUME NEW c \in Commands, NEW id \in Ids, FinishOpen(c, id) PROVE SaveInv'
    <2> DEFINE m == commands[c]
               row == [save |-> m.path, unsaved |-> FALSE, media |-> TRUE, from |-> m.path]
    <2>1. /\ id \in FreshIds /\ AddDocument(id, row) /\ contents' = [contents EXCEPT ![id] = m.doc]
          /\ UNCHANGED files /\ commands' = [commands EXCEPT ![c] = NoCommand]
          /\ overtaken' = IF m.stale THEN overtaken \cup {id} ELSE overtaken \ {id}
          /\ m.stage = "opened"
      BY <1>14 DEF FinishOpen
    <2>2. row \in Row /\ row.save = m.path
      BY <1>0 DEF Row, Command
    <2> HIDE DEF row
    <2>3. m.stale \/ Range(files[m.path]) = Range(m.doc)
      BY <1>0, <2>1 DEF Right, Current
    <2> HIDE DEF m
    <2>4. id \in overtaken' \/ Range(files[row.save]) = Range(m.doc)
      BY <2>1, <2>2, <2>3
    <2>5. overtaken \ {id} \subseteq overtaken'
      BY <2>1
    <2>6. /\ SavedIsInFile'
          /\ \A d \in Commands : commands'[d] = commands[d] => Right(d)'
      BY <1>12, <2>1, <2>2, <2>4, <2>5
    <2>7. Right(c)'
      BY <1>0, <1>3, <1>6, <2>1
    <2> QED BY <1>0, <2>1, <2>6, <2>7 DEF SaveInv
  <1>15. ASSUME NEW id \in Ids, ForgetDocument(id), UNCHANGED <<files, commands, overtaken>>
         PROVE  SaveInv'
    BY <1>0, <1>4, <1>15, ForgetStep
  <1>16. ASSUME NEW yes \in BOOLEAN, AnswerDelete(yes) PROVE SaveInv'
    <2>1. asked \in Ids /\ UNCHANGED <<files, commands, overtaken>>
      BY <1>16 DEF AnswerDelete, StateInv, HistoryInv
    <2>2. CASE yes
      BY <1>15, <1>16, <2>1, <2>2 DEF AnswerDelete
    <2>3. CASE ~yes
      BY <1>4, <1>16, <2>1, <2>3 DEF AnswerDelete, Listed
    <2> QED BY <2>2, <2>3
  <1>17. ASSUME NEW id \in Ids, RemoveFromRecent(id) PROVE SaveInv'
    BY <1>15, <1>17 DEF RemoveFromRecent
  <1>18. ASSUME NEW id \in Ids, OpenDocumentWindow(id) \/ AskToDelete(id) PROVE SaveInv'
    BY <1>4, <1>18 DEF OpenDocumentWindow, AskToDelete, Listed
  <1>19. ASSUME NEW c \in Commands, NEW path \in Paths, OpenFile(c, path) PROVE SaveInv'
    <2>1. UNCHANGED <<documents, contents, files, overtaken>>
      BY <1>19 DEF OpenFile
    <2>2. CASE {id \in Listed : documents[id].save = path} # {}
      BY <1>4, <1>19, <2>1, <2>2 DEF OpenFile, Listed
    <2>3. CASE {id \in Listed : documents[id].save = path} = {}
      <3> DEFINE m == [NoCommand EXCEPT !.stage = "opened", !.path = path, !.doc = files[path]]
      <3>1. commands' = [commands EXCEPT ![c] = m]
        BY <1>19, <2>3 DEF OpenFile
      <3>2. m.stage = "opened" /\ m.path = path /\ m.doc = files[path]
        BY DEF NoCommand
      <3>3. commands'[c].stage = "opened" /\ commands'[c].path = path /\ commands'[c].doc = files[path]
        BY <1>0, <3>1, <3>2
      <3> HIDE DEF m
      <3>4. Right(c)'
        BY <2>1, <3>3 DEF Right, Current
      <3> QED BY <1>5, <2>1, <3>1, <3>4 DEF Listed
    <2> QED BY <2>2, <2>3
  <1>20. ASSUME NEW c \in Commands, commands'[c].stage \in {"idle", "begun"},
                \A d \in Commands \ {c} : commands'[d] = commands[d],
                UNCHANGED <<documents, contents, files, overtaken>>
         PROVE  SaveInv'
    <2>1. SavedIsInFile'
      BY <1>1, <1>20 DEF Listed
    <2>2. \A d \in Commands : Right(d)'
      BY <1>2, <1>3, <1>20 DEF Listed
    <2> QED BY <2>1, <2>2 DEF SaveInv
  <1>21. ASSUME NEW c \in Commands, NEW id \in Ids, NEW path, BeginSaving(c, id, path)
         PROVE  SaveInv'
    <2> DEFINE m == [NoCommand EXCEPT !.stage = "begun", !.id = id, !.path = path,
                                      !.as = (path = NoPath), !.from = documents[id].from]
    <2>1. m.stage = "begun"
      BY DEF NoCommand
    <2>2. /\ commands' = [commands EXCEPT ![c] = m]
          /\ UNCHANGED <<documents, contents, files, overtaken>>
      BY <1>21 DEF BeginSaving
    <2> HIDE DEF m
    <2>3. commands'[c].stage = "begun" /\ \A d \in Commands \ {c} : commands'[d] = commands[d]
      BY <1>0, <2>1, <2>2
    <2> QED BY <1>20, <2>2, <2>3
  <1>22. ASSUME NEW c \in Commands, NEW id \in Ids, SaveDocument(c, id) \/ SaveDocumentAs(c, id)
         PROVE  SaveInv'
    BY <1>21, <1>22 DEF SaveDocument, SaveDocumentAs
  <1>23. ASSUME NEW c \in Commands, CancelSave(c) PROVE SaveInv'
    BY <1>0, <1>6, <1>20, <1>23 DEF CancelSave
  <1>24. ASSUME NEW c \in Commands, ReadWorkingCopy(c) PROVE SaveInv'
    <2> DEFINE id == commands[c].id
    <2>1. UNCHANGED <<documents, contents, files, overtaken>>
      BY <1>24 DEF ReadWorkingCopy
    <2>2. CASE contents[id] = Removed
      BY <1>0, <1>6, <1>20, <1>24, <2>1, <2>2 DEF ReadWorkingCopy
    <2>3. CASE contents[id] # Removed
      <3>1. PICK path : commands' = [commands EXCEPT ![c] = [@ EXCEPT !.stage = "read",
                                    !.path = path, !.doc = contents[id]]]
        BY <1>24, <2>3 DEF ReadWorkingCopy
      <3> DEFINE m == [commands[c] EXCEPT !.stage = "read", !.path = path, !.doc = contents[id]]
      <3>2. m.stage = "read" /\ m.id = id /\ m.doc = contents[id]
        BY <1>0 DEF Command
      <3>3. commands' = [commands EXCEPT ![c] = m]
        BY <3>1
      <3>4. /\ commands'[c].stage = "read"
            /\ commands'[c].doc = contents[commands[c].id] /\ commands'[c].id = commands[c].id
        BY <1>0, <3>2, <3>3
      <3> HIDE DEF m
      <3>5. Right(c)'
        BY <2>1, <3>4 DEF Right, Current
      <3> QED BY <1>5, <2>1, <3>3, <3>5 DEF Listed
    <2> QED BY <2>2, <2>3
  \* A file is written, or emptied: what relied on it is stale or overtaken.
  <1>25. ASSUME NEW c \in Commands, NEW same, NEW m, NEW s, commands[c].stage = "read",
                commands' = [FileChanged(c, same) EXCEPT ![c] = m],
                files' = [files EXCEPT ![commands[c].path] = s],
                overtaken' = overtaken \cup (SavedAt(commands[c].path) \ same),
                UNCHANGED <<documents, contents>>,
                \A d \in same \cap Listed : Range(s) = Range(contents[d]), same \subseteq Ids
         PROVE  SavedIsInFile' /\ \A d \in Commands \ {c} : Right(d)'
    <2>1. commands[c].path \in Paths /\ DOMAIN files = Paths /\ Listed' = Listed
      BY <1>0, <1>25 DEF Placed, LibraryInv, Listed
    <2>2. ASSUME NEW d \in Listed, d \notin overtaken', documents[d].save # NoPath,
                 ~documents[d].unsaved
          PROVE  Range(files'[documents[d].save]) = Range(contents[d])
      <3>1. Range(files[documents[d].save]) = Range(contents[d]) /\ documents[d].save \in Paths
        BY <1>0, <1>25, <2>2 DEF SavedIsInFile, LibraryInv, Row
      <3>2. CASE documents[d].save = commands[c].path
        <4>1. d \in same
          BY <1>25, <2>2, <3>2 DEF SavedAt
        <4> QED BY <1>25, <2>1, <3>2, <4>1
      <3>3. CASE documents[d].save # commands[c].path
        BY <1>25, <2>1, <3>1, <3>3
      <3> QED BY <3>2, <3>3
    <2>3. SavedIsInFile'
      BY <1>25, <2>1, <2>2 DEF SavedIsInFile
    <2>4. ASSUME NEW d \in Commands \ {c} PROVE Right(d)'
      <3>1. commands'[d] = FileChanged(c, same)[d]
        BY <1>0, <1>25 DEF FileChanged
      <3> DEFINE hit == /\ commands[d].path = commands[c].path
                        /\ commands[d].stage \in {"opened", "written", "kicked"}
      <3>2. CASE hit /\ commands[d].id \notin same
        <4>1. commands'[d] = [commands[d] EXCEPT !.stale = TRUE]
          BY <3>1, <3>2 DEF FileChanged
        <4>2. commands'[d].stale
          BY <1>0, <4>1 DEF Command
        <4> QED BY <1>3, <4>2
      <3>3. CASE ~hit
        <4>1. commands'[d] = commands[d] /\ Right(d) /\ Placed(commands[d], contents)
          BY <1>0, <3>1, <3>3 DEF FileChanged
        <4>2. commands[d].stage \in {"opened", "written", "kicked"} =>
                files'[commands[d].path] = files[commands[d].path]
          BY <1>25, <2>1, <3>3, <4>1 DEF Placed
        <4> QED BY <1>25, <2>1, <4>1, <4>2 DEF Right, Current
      <3>4. CASE hit /\ commands[d].id \in same
        <4>1. commands'[d] = commands[d] /\ Right(d) /\ Placed(commands[d], contents)
          BY <1>0, <3>1, <3>4 DEF FileChanged
        <4>2. commands[d].stage # "opened" /\ files'[commands[d].path] = s
          BY <1>0, <1>25, <2>1, <3>4, <4>1 DEF Placed
        <4>3. commands[d].id \in Listed => Range(s) = Range(contents[commands[d].id])
          BY <1>25, <3>4
        <4> QED BY <1>25, <2>1, <4>1, <4>2, <4>3 DEF Right, Current
      <3> QED BY <3>2, <3>3, <3>4
    <2> QED BY <2>3, <2>4
  <1>26. ASSUME NEW c \in Commands, WriteArchive(c) PROVE SaveInv'
    <2> DEFINE save == commands[c]
               same == IF save.stale THEN {} ELSE {save.id}
               m == [save EXCEPT !.stage = "written"]
    <2>1. /\ save.stage = "read" /\ UNCHANGED <<documents, contents>>
          /\ files' = [files EXCEPT ![save.path] = save.doc]
          /\ commands' = [FileChanged(c, same) EXCEPT ![c] = m]
          /\ overtaken' = overtaken \cup (SavedAt(save.path) \ same)
      BY <1>26 DEF WriteArchive
    <2>2. \A d \in same \cap Listed : Range(save.doc) = Range(contents[d])
      BY <1>0, <2>1 DEF Right, Current
    <2>3. same \subseteq Ids
      BY <1>0, <2>1 DEF Placed
    <2>4. /\ m.stage = "written" /\ m.id = save.id /\ m.doc = save.doc /\ m.stale = save.stale
          /\ m.path = save.path /\ save.path \in Paths
      BY <1>0, <2>1 DEF Command, Placed
    <2>5. commands'[c] = m /\ files'[save.path] = save.doc /\ Listed' = Listed
      BY <1>0, <2>1, <2>4 DEF FileChanged, LibraryInv, Listed
    <2>6. Right(c)'
      <3>1. save.stale \/ (save.id \in Listed => Range(save.doc) = Range(contents[save.id]))
        BY <1>0, <2>1 DEF Right, Current
      <3>2. /\ commands'[c].stage = "written" /\ commands'[c].id = save.id
            /\ commands'[c].doc = save.doc /\ commands'[c].stale = save.stale
            /\ commands'[c].path = save.path
        BY <2>4, <2>5
      <3> QED BY <2>1, <2>5, <3>1, <3>2 DEF Right, Current
    <2>7. SavedIsInFile' /\ \A d \in Commands \ {c} : Right(d)'
      <3> HIDE DEF same, m
      <3> QED BY <1>25, <2>1, <2>2, <2>3
    <2> QED BY <2>6, <2>7 DEF SaveInv
  <1>27. ASSUME NEW c \in Commands, WriteFails(c) PROVE SaveInv'
    <2> DEFINE same == {}
    <2>1. /\ commands[c].stage = "read" /\ UNCHANGED <<documents, contents>>
          /\ files' = [files EXCEPT ![commands[c].path] = NoFile]
          /\ commands' = [FileChanged(c, same) EXCEPT ![c] = NoCommand]
          /\ overtaken' = overtaken \cup (SavedAt(commands[c].path) \ same)
      BY <1>27 DEF WriteFails
    <2>2. same \subseteq Ids /\ same \cap Listed = {}
      OBVIOUS
    <2>3. Right(c)'
      BY <1>0, <1>3, <1>6, <2>1 DEF FileChanged
    <2> HIDE DEF same
    <2>4. SavedIsInFile' /\ \A d \in Commands \ {c} : Right(d)'
      BY <1>25, <2>1, <2>2
    <2> QED BY <2>3, <2>4 DEF SaveInv
  <1>28. ASSUME NEW c \in Commands, KickOut(c) PROVE SaveInv'
    <2> DEFINE m == [commands[c] EXCEPT !.stage = "kicked"]
    <2>1. /\ commands' = [commands EXCEPT ![c] = m] /\ commands[c].stage = "written"
          /\ UNCHANGED <<contents, files, overtaken>>
      BY <1>0, <1>28 DEF KickOut
    <2>2. Listed' \subseteq Listed /\ \A d \in Listed' : documents'[d] = documents[d]
      BY <1>0, <1>28, WithoutStep DEF KickOut
    <2>3. /\ commands'[c].stage = "kicked" /\ commands'[c].id = commands[c].id
          /\ commands'[c].doc = commands[c].doc /\ commands'[c].stale = commands[c].stale
          /\ commands'[c].path = commands[c].path
      BY <1>0, <2>1 DEF Command
    <2>4. Right(c)'
      BY <1>0, <2>1, <2>2, <2>3 DEF Right, Current
    <2> HIDE DEF m
    <2> QED BY <1>5, <2>1, <2>2, <2>4
  <1>29. ASSUME NEW c \in Commands, MarkSaved(c) PROVE SaveInv'
    <2> DEFINE save == commands[c]
               id == save.id
    <2>1. /\ commands' = [commands EXCEPT ![c] = NoCommand] /\ UNCHANGED <<contents, files>>
          /\ save.stage \in {"written", "kicked"} /\ id \in Ids
      BY <1>0, <1>29 DEF MarkSaved, Placed
    <2>2. Right(c)'
      BY <1>0, <1>3, <1>6, <2>1
    <2>3. CASE id \notin Listed
      BY <1>5, <1>29, <2>1, <2>2, <2>3 DEF MarkSaved, Listed
    <2>4. CASE id \in Listed
      <3> DEFINE row == [documents[id] EXCEPT !.save = IF save.as THEN save.path ELSE documents[id].save,
                                              !.unsaved = FALSE]
      <3>1. /\ documents' = [documents EXCEPT ![id] = row]
            /\ overtaken' = IF save.stale \/ documents'[id].save # save.path
                            THEN overtaken \cup {id} ELSE overtaken \ {id}
        BY <1>29, <2>4 DEF MarkSaved
      <3> HIDE DEF row
      <3>2. Listed' = Listed /\ \A d \in Listed \ {id} : documents'[d] = documents[d]
        BY <1>0, <3>1 DEF LibraryInv, Listed
      <3>3. save.stale \/ Range(files[save.path]) = Range(contents[id])
        BY <1>0, <2>1, <2>4 DEF Right, Current
      <3>4. ASSUME id \notin overtaken' PROVE Range(files[documents'[id].save]) = Range(contents[id])
        BY <3>1, <3>3, <3>4
      <3>5. overtaken \subseteq overtaken' \cup {id}
        BY <3>1
      <3>6. SavedIsInFile'
        BY <1>0, <2>1, <3>2, <3>4, <3>5 DEF SavedIsInFile
      <3>7. \A d \in Commands \ {c} : Right(d)'
        BY <1>0, <1>2, <2>1, <3>2
      <3> QED BY <2>2, <3>6, <3>7 DEF SaveInv
    <2> QED BY <2>3, <2>4
  <1>30. CASE UNCHANGED desktopVars
    BY <1>4, <1>30 DEF desktopVars, Listed
  <1> QED BY <1>7, <1>9, <1>10, <1>11, <1>13, <1>14, <1>16, <1>17, <1>18, <1>19, <1>22, <1>23,
             <1>24, <1>26, <1>27, <1>28, <1>29, <1>30 DEF DesktopNext, WindowAction

-----------------------------------------------------------------------------
(* The working copy                                                        *)

AnyCell == [kind : {"zero"}] \cup [kind : {"data"}, value : Nat]
             \cup [kind : {"header"}, path : {"media", "document"}, size : Nat]

\* file is the header of a document and the changes xs; what follows is no header.
HoldsDocument(file, xs) ==
  /\ file \in Seq(AnyCell)
  /\ Block + Len(xs) <= Len(file)
  /\ file[1] = [kind |-> "header", path |-> "document", size |-> Len(xs)]
  /\ \A i \in 2 .. Len(file) : file[i].kind # "header"
  /\ \A i \in 1 .. Len(xs) : file[Block + i] = Cell(xs[i])

\* What a writer has ahead: to put a change behind the others, and then the header
\* that counts it; or only the header, when the change is there.
Commits(w) ==
  LET n == Len(appended)
      header == [offset |-> 0, cells |-> TarHeader("document", n + 1)]
  IN  \E c \in Changes :
        \/ jobs[w] = [writes |-> <<[offset |-> Block + n, cells |-> <<Cell(c)>>], header>>,
                      change |-> c, document |-> <<>>, continues |-> FALSE]
        \/ /\ jobs[w] = [writes |-> <<header>>,
                         change |-> c, document |-> <<>>, continues |-> FALSE]
           /\ Block + n < Len(working) /\ working[Block + n + 1] = Cell(c)

OneAtATime == \A v, w \in Writers : Working(v) /\ Working(w) => v = w

ArchiveInv ==
  /\ DOMAIN jobs = Everyone
  /\ ~raced =>
       /\ appended \in Seq(Nat)
       /\ HoldsDocument(working, appended)
       /\ OneAtATime
       /\ \A w \in Writers : Working(w) => Commits(w)

\* The function that looks for an entry exists, as the first header ends it.
LEMMA ByteRangeOfDocument ==
  ASSUME NEW file, NEW n \in Nat, Len(file) \in Nat, Block <= Len(file),
         file[1] = [kind |-> "header", path |-> "document", size |-> n],
         \A i \in 2 .. Len(file) : file[i].kind # "header"
  PROVE  ByteRange(file, "document") = [start |-> Block, end |-> Block + n]
  <1> DEFINE Offsets == 0 .. Len(file) + Block + SizeLimit
             Entry(From, offset) ==
               IF offset + Block > Len(file) \/ file[offset + 1].kind # "header" THEN NoRange
               ELSE LET header == file[offset + 1]
                        start == offset + Block
                    IN  IF header.path = "document"
                        THEN [start |-> start, end |-> start + header.size]
                        ELSE From[RoundToNextBlock(start + header.size)]
             Found(offset) == IF offset = 0 THEN [start |-> Block, end |-> Block + n] ELSE NoRange
  <1>1. Block \in Nat \ {0, 1} /\ SizeLimit \in Nat
    BY ArchiveAssumption
  <1>2. ASSUME NEW From, NEW offset \in Offsets PROVE Entry(From, offset) = Found(offset)
    <2>1. CASE offset = 0
      <3>1. /\ file[offset + 1].kind = "header" /\ file[offset + 1].path = "document"
            /\ file[offset + 1].size = n /\ ~(offset + Block > Len(file))
        BY <1>1, <2>1
      <3>2. offset + Block = Block
        BY <1>1, <2>1
      <3> QED BY <2>1, <3>1, <3>2
    <2>2. CASE offset # 0
      <3>1. offset + Block > Len(file) \/ offset + 1 \in 2 .. Len(file)
        BY <1>1, <2>2
      <3>2. offset + Block > Len(file) \/ file[offset + 1].kind # "header"
        BY <3>1
      <3> QED BY <2>2, <3>2
    <2> QED BY <2>1, <2>2
  <1> DEFINE Body(From) == [offset \in Offsets |-> Entry(From, offset)]
             Witness == [offset \in Offsets |-> Found(offset)]
  <1>3. \A From : Body(From) = Witness
    <2> HIDE DEF Entry, Found
    <2> QED BY <1>2
  <1>4. 0 \in Offsets
    BY <1>1
  <1>5. Witness[0] = [start |-> Block, end |-> Block + n]
    BY <1>4
  <1> DEFINE From == CHOOSE g : g = Body(g)
  <1>6. ByteRange(file, "document") = From[0]
    BY DEF ByteRange
  <1> HIDE DEF Body, Witness
  <1>7. From = Body(From)
    BY <1>3
  <1>8. From = Witness
    BY <1>3, <1>7
  <1> QED BY <1>5, <1>6, <1>8

\* The working copy is then read as those changes.
LEMMA DocumentIsRead ==
  ASSUME NEW file, NEW xs \in Seq(Nat), HoldsDocument(file, xs)
  PROVE  /\ ByteRange(file, "document") = [start |-> Block, end |-> Block + Len(xs)]
         /\ Document(file) = Data(xs)
  <1>1. Block \in Nat \ {0, 1} /\ Len(file) \in Nat /\ Len(xs) \in Nat
    BY ArchiveAssumption, LenProperties DEF HoldsDocument
  <1>2. ByteRange(file, "document") = [start |-> Block, end |-> Block + Len(xs)]
    <2>1. /\ Block <= Len(file)
          /\ file[1] = [kind |-> "header", path |-> "document", size |-> Len(xs)]
          /\ \A i \in 2 .. Len(file) : file[i].kind # "header"
      BY <1>1 DEF HoldsDocument
    <2> QED BY <1>1, <2>1, ByteRangeOfDocument
  <1>3. Document(file) = SubSeq(file, Block + 1, Block + Len(xs))
    <2> DEFINE range == [start |-> Block, end |-> Block + Len(xs)]
    <2>1. range # NoRange /\ range.start = Block /\ range.end = Block + Len(xs)
      BY <1>1 DEF NoRange
    <2>2. ~(range.end > Len(file))
      BY <1>1, <2>1 DEF HoldsDocument
    <2>3. ByteRange(file, "document") = range
      BY <1>2
    <2> HIDE DEF range
    <2> QED BY <2>1, <2>2, <2>3 DEF Document, BytesOfFile
  <1> DEFINE part == SubSeq(file, Block + 1, Block + Len(xs))
  <1>4. /\ part \in Seq(AnyCell) /\ Len(part) = Len(xs)
        /\ \A i \in 1 .. Len(xs) : part[i] = file[Block + i]
    <2> DEFINE m == Block + 1
               n == Block + Len(xs)
    <2>1. m \in Int /\ n \in Int /\ n - m + 1 = Len(xs)
          /\ (IF m <= n THEN n - m + 1 ELSE 0) = Len(xs)
      BY <1>1
    <2>2. \A i \in m .. n : file[i] \in AnyCell
      <3>1. file \in Seq(AnyCell) /\ \A i \in m .. n : i \in 1 .. Len(file)
        BY <1>1 DEF HoldsDocument
      <3> QED BY <3>1, ElementOfSeq
    <2>3. \A i \in 1 .. Len(xs) : m + i - 1 = Block + i
      BY <1>1
    <2>4. part = SubSeq(file, m, n)
      OBVIOUS
    <2> HIDE DEF m, n, part
    <2>5. /\ SubSeq(file, m, n) \in Seq(AnyCell)
          /\ Len(SubSeq(file, m, n)) = IF m <= n THEN n - m + 1 ELSE 0
          /\ \A i \in 1 .. n - m + 1 : SubSeq(file, m, n)[i] = file[m + i - 1]
      BY <2>1, <2>2, SubSeqProperties
    <2>6. \A i \in 1 .. Len(xs) : part[i] = file[m + i - 1]
      BY <2>1, <2>4, <2>5
    <2> QED BY <2>1, <2>3, <2>4, <2>5, <2>6
  <1> HIDE DEF part
  <1>5. part = [i \in 1 .. Len(xs) |-> part[i]]
    BY <1>4, LenProperties
  <1>6. Data(xs) = [i \in 1 .. Len(xs) |-> Cell(xs[i])]
    BY LenProperties DEF Data
  <1>7. \A i \in 1 .. Len(xs) : part[i] = Cell(xs[i])
    BY <1>4 DEF HoldsDocument
  <1>8. part = Data(xs)
    BY <1>5, <1>6, <1>7
  <1> QED BY <1>2, <1>3, <1>8 DEF part

\* A header takes a block.
HeaderOf(path, size) == [kind |-> "header", path |-> path, size |-> size]

LEMMA EntryHeader ==
  ASSUME NEW path \in {"media", "document"}, NEW n \in Nat
  PROVE  LET cells == TarHeader(path, n) IN
         /\ cells \in Seq(AnyCell) /\ Len(cells) = Block
         /\ cells[1] = HeaderOf(path, n)
         /\ \A i \in 2 .. Block : cells[i] = Zero
  <1> DEFINE header == HeaderOf(path, n)
             rest == Zeros(Block - 1)
  <1>1. Block \in Nat \ {0, 1}
    BY ArchiveAssumption
  <1>2. header \in AnyCell /\ Zero \in AnyCell
    BY DEF AnyCell, Zero, HeaderOf
  <1>3. rest \in [1 .. Block - 1 -> AnyCell] /\ \A i \in 1 .. Block - 1 : rest[i] = Zero
    BY <1>2 DEF Zeros
  <1>4. rest \in Seq(AnyCell) /\ Len(rest) = Block - 1
    BY <1>1, <1>3
  <1> DEFINE cells == TarHeader(path, n)
  <1>5. cells = <<header>> \o rest
    BY DEF TarHeader, HeaderOf
  <1> HIDE DEF header, rest, cells
  <1>6. <<header>> \in Seq(AnyCell) /\ Len(<<header>>) = 1 /\ <<header>>[1] = header
    BY <1>2
  <1>7. /\ cells \in Seq(AnyCell)
        /\ Len(cells) = 1 + (Block - 1)
        /\ \A i \in 1 .. 1 + (Block - 1) :
             cells[i] = IF i <= 1 THEN <<header>>[i] ELSE rest[i - 1]
    BY <1>4, <1>5, <1>6, ConcatProperties
  <1>8. cells[1] = header
    BY <1>1, <1>6, <1>7
  <1>9. \A i \in 2 .. Block : cells[i] = Zero
    BY <1>1, <1>3, <1>7
  <1> QED BY <1>1, <1>7, <1>8, <1>9 DEF cells, header

\* written is file with cells from offset on.
Patched(written, file, offset, cells) ==
  /\ written \in Seq(AnyCell)
  /\ Len(written) \in Nat
  /\ Len(file) <= Len(written) /\ offset + Len(cells) <= Len(written)
  /\ Len(written) = Len(file) \/ Len(written) = offset + Len(cells)
  /\ \A i \in offset + 1 .. offset + Len(cells) : written[i] = cells[i - offset]
  /\ \A i \in 1 .. Len(written) : i \notin offset + 1 .. offset + Len(cells) =>
       written[i] = IF i <= Len(file) THEN file[i] ELSE Zero

\* Emptying the file, and failing, are no writes of cells.
LEMMA NotAWrite ==
  ASSUME NEW offset, NEW cells
  PROVE  /\ [offset |-> offset, cells |-> cells] # Truncation
         /\ [offset |-> offset, cells |-> cells] # Failure
         /\ Truncation # Failure
  <1>1. DOMAIN [offset |-> offset, cells |-> cells] = {"offset", "cells"}
    OBVIOUS
  <1>2. DOMAIN Truncation = {"empties"} /\ DOMAIN Failure = {"fails"}
    BY DEF Truncation, Failure
  <1>3. "offset" \notin {"empties"} /\ "offset" \notin {"fails"} /\ "fails" \notin {"empties"}
    OBVIOUS
  <1> QED BY <1>1, <1>2, <1>3

LEMMA WriteInPlace ==
  ASSUME NEW file \in Seq(AnyCell), NEW cells \in Seq(AnyCell), NEW offset \in Nat
  PROVE  Patched(Written(file, [offset |-> offset, cells |-> cells]), file, offset, cells)
  <1> DEFINE size == IF offset + Len(cells) > Len(file) THEN offset + Len(cells) ELSE Len(file)
             At(i) == IF i \in offset + 1 .. offset + Len(cells) THEN cells[i - offset]
                      ELSE IF i <= Len(file) THEN file[i] ELSE Zero
             written == Written(file, [offset |-> offset, cells |-> cells])
  <1>1. written = [i \in 1 .. size |-> At(i)]
    <2>1. /\ [offset |-> offset, cells |-> cells] # Truncation
          /\ [offset |-> offset, cells |-> cells] # Failure
      BY NotAWrite
    <2> QED BY <2>1 DEF Written, WriteAt
  <1>2. Len(file) \in Nat /\ Len(cells) \in Nat
    BY LenProperties
  <1>3. /\ size \in Nat /\ Len(file) <= size /\ offset + Len(cells) <= size
        /\ size = Len(file) \/ size = offset + Len(cells)
    BY <1>2
  <1> HIDE DEF size
  <1>4. ASSUME NEW i \in 1 .. size PROVE At(i) \in AnyCell
    <2>1. CASE i \in offset + 1 .. offset + Len(cells)
      <3>1. i - offset \in 1 .. Len(cells)
        BY <1>2, <2>1
      <3> QED BY <2>1, <3>1, ElementOfSeq
    <2>2. CASE i \notin offset + 1 .. offset + Len(cells)
      <3>1. i <= Len(file) => file[i] \in AnyCell
        BY <1>2, <1>3, ElementOfSeq
      <3>2. Zero \in AnyCell
        BY DEF AnyCell, Zero
      <3> QED BY <2>2, <3>1, <3>2
    <2> QED BY <2>1, <2>2
  <1> HIDE DEF written
  <1>5. written \in [1 .. size -> AnyCell] /\ \A i \in 1 .. size : written[i] = At(i)
    <2> HIDE DEF At
    <2> QED BY <1>1, <1>4
  <1>6. written \in Seq(AnyCell) /\ Len(written) = size
    BY <1>3, <1>5
  <1>7. \A i \in offset + 1 .. offset + Len(cells) : i \in 1 .. size
    BY <1>2, <1>3
  <1>8. Patched(written, file, offset, cells)
    BY <1>3, <1>5, <1>6, <1>7 DEF Patched
  <1> QED BY <1>8 DEF written

LEMMA ArchiveStart == ArchiveInit => ArchiveInv
  <1> SUFFICES ASSUME ArchiveInit PROVE ArchiveInv
    OBVIOUS
  <1>1. Block \in Nat \ {0, 1}
    BY ArchiveAssumption
  <1>2. DOMAIN jobs = Everyone /\ \A w \in Writers : ~Working(w)
    BY DEF ArchiveInit, Working, Idle, Everyone
  <1>3. appended \in Seq(Nat) /\ Len(appended) \in Nat
    BY LenProperties DEF ArchiveInit
  <1> DEFINE header == TarHeader("document", Len(appended))
             rest == Data(appended)
  <1>4. /\ header \in Seq(AnyCell) /\ Len(header) = Block
        /\ header[1] = [kind |-> "header", path |-> "document", size |-> Len(appended)]
        /\ \A i \in 2 .. Block : header[i] = Zero
    BY <1>3, EntryHeader DEF HeaderOf
  <1>5. rest = [i \in 1 .. Len(appended) |-> Cell(appended[i])]
    BY <1>3, LenProperties DEF Data
  <1>6. \A i \in 1 .. Len(appended) : rest[i] = Cell(appended[i]) /\ Cell(appended[i]) \in AnyCell
    BY <1>3, <1>5, ElementOfSeq DEF Cell, AnyCell
  <1>7. rest \in Seq(AnyCell) /\ Len(rest) = Len(appended)
    BY <1>3, <1>5, <1>6
  <1>8. working = header \o rest
    BY DEF ArchiveInit
  <1> HIDE DEF header, rest
  <1>9. /\ working \in Seq(AnyCell)
        /\ Len(working) = Block + Len(appended)
        /\ \A i \in 1 .. Block + Len(appended) :
             working[i] = IF i <= Block THEN header[i] ELSE rest[i - Block]
    <2>1. /\ header \o rest \in Seq(AnyCell)
          /\ Len(header \o rest) = Len(header) + Len(rest)
          /\ \A i \in 1 .. Len(header) + Len(rest) : (header \o rest)[i] =
               IF i <= Len(header) THEN header[i] ELSE rest[i - Len(header)]
      <3>1. header \in Seq(AnyCell) /\ rest \in Seq(AnyCell)
        BY <1>4, <1>7
      <3> QED BY <3>1, ConcatProperties
    <2>2. Len(header) = Block /\ Len(rest) = Len(appended)
      BY <1>4, <1>7
    <2> QED BY <1>8, <2>1, <2>2
  <1>10. working[1] = [kind |-> "header", path |-> "document", size |-> Len(appended)]
    BY <1>1, <1>3, <1>4, <1>9
  <1>11. \A i \in 1 .. Len(appended) : working[Block + i] = Cell(appended[i])
    BY <1>1, <1>3, <1>6, <1>9
  <1>12. ASSUME NEW i \in 2 .. Len(working) PROVE working[i].kind # "header"
    <2>1. CASE i <= Block
      <3>1. working[i] = Zero
        BY <1>1, <1>3, <1>4, <1>9, <2>1
      <3> QED BY <3>1 DEF Zero
    <2>2. CASE ~(i <= Block)
      <3>1. i - Block \in 1 .. Len(appended) /\ working[i] = rest[i - Block]
        BY <1>1, <1>3, <1>9, <2>2
      <3>2. Cell(appended[i - Block]).kind = "data"
        BY DEF Cell
      <3> QED BY <1>6, <3>1, <3>2
    <2> QED BY <2>1, <2>2
  <1>13. HoldsDocument(working, appended)
    BY <1>1, <1>3, <1>9, <1>10, <1>11, <1>12 DEF HoldsDocument
  <1> QED BY <1>2, <1>3, <1>13 DEF ArchiveInv, OneAtATime

\* A change behind the others is not counted yet.
LEMMA ChangeWritten ==
  ASSUME HoldsDocument(working, appended), appended \in Seq(Nat), NEW c \in Nat,
         working' = Written(working, [offset |-> Block + Len(appended), cells |-> <<Cell(c)>>])
  PROVE  /\ HoldsDocument(working', appended)
         /\ Block + Len(appended) < Len(working')
         /\ working'[Block + Len(appended) + 1] = Cell(c)
  <1> DEFINE n == Len(appended)
             cells == <<Cell(c)>>
  <1>1. Block \in Nat \ {0, 1} /\ n \in Nat /\ Len(working) \in Nat
    BY ArchiveAssumption, LenProperties DEF HoldsDocument
  <1>2. Cell(c) \in AnyCell /\ Cell(c).kind # "header"
    BY DEF AnyCell, Cell
  <1>3. cells \in Seq(AnyCell) /\ Len(cells) = 1 /\ cells[1] = Cell(c)
    BY <1>2
  <1> HIDE DEF n, cells
  <1>4. Block + n \in Nat /\ working \in Seq(AnyCell)
    BY <1>1 DEF HoldsDocument
  <1>5. working' = Written(working, [offset |-> Block + n, cells |-> cells])
    BY DEF n, cells
  <1>6. /\ working' \in Seq(AnyCell) /\ Len(working') \in Nat
        /\ Len(working) <= Len(working') /\ Block + n + 1 <= Len(working')
        /\ Len(working') = Len(working) \/ Len(working') = Block + n + 1
        /\ working'[Block + n + 1] = cells[1]
        /\ \A i \in 1 .. Len(working') : i # Block + n + 1 =>
             working'[i] = IF i <= Len(working) THEN working[i] ELSE Zero
    <2> DEFINE offset == Block + n
    <2>1. offset \in Nat /\ working' = Written(working, [offset |-> offset, cells |-> cells])
      BY <1>4, <1>5
    <2> HIDE DEF offset
    <2>2. Patched(working', working, offset, cells)
      <3>1. cells \in Seq(AnyCell) /\ working \in Seq(AnyCell)
        BY <1>3, <1>4
      <3> QED BY <2>1, <3>1, WriteInPlace
    <2>3. offset + Len(cells) = offset + 1 /\ offset + 1 - offset = 1
      BY <1>3, <2>1
    <2>4. working'[offset + 1] = cells[1]
      <3>1. offset + 1 \in offset + 1 .. offset + Len(cells)
        BY <2>1, <2>3
      <3>2. \A i \in offset + 1 .. offset + Len(cells) : working'[i] = cells[i - offset]
        BY <2>2 DEF Patched
      <3> DEFINE i == offset + 1
      <3>3. i - offset = 1 /\ i \in offset + 1 .. offset + Len(cells)
        BY <2>1, <3>1
      <3> HIDE DEF i
      <3>4. working'[i] = cells[1]
        BY <3>2, <3>3
      <3> QED BY <3>4 DEF i
    <2>5. \A i \in 1 .. Len(working') : i # offset + 1 =>
            working'[i] = IF i <= Len(working) THEN working[i] ELSE Zero
      <3>1. \A i \in 1 .. Len(working') : i # offset + 1 => i \notin offset + 1 .. offset + Len(cells)
        BY <2>1, <2>3
      <3> QED BY <2>2, <3>1 DEF Patched
    <2> QED BY <2>2, <2>3, <2>4, <2>5 DEF offset, Patched
  <1>7. working'[Block + n + 1] = Cell(c)
    BY <1>1, <1>3, <1>6
  <1>8. \A i \in 1 .. Block + n : working'[i] = working[i]
    <2> TAKE i \in 1 .. Block + n
    <2>1. Block + n <= Len(working) /\ Len(working) <= Len(working')
      BY <1>6 DEF HoldsDocument, n, Patched
    <2>2. Len(working) \in Nat /\ Len(working') \in Nat
      BY <1>3, <1>6
    <2>3. i \in 1 .. Len(working') /\ i # Block + n + 1 /\ i <= Len(working)
      BY <1>1, <2>1, <2>2
    <2> QED BY <1>6, <2>3
  <1>9. \A i \in 1 .. Len(working') : \/ i \in 1 .. Len(working) /\ working'[i] = working[i]
                                      \/ i = Block + n + 1
    <2>1. Block + n <= Len(working)
      BY DEF HoldsDocument, n
    <2> QED BY <1>1, <1>6, <2>1
  <1>10. working'[1] = [kind |-> "header", path |-> "document", size |-> n]
    BY <1>1, <1>8 DEF HoldsDocument, n
  <1>11. ASSUME NEW i \in 2 .. Len(working') PROVE working'[i].kind # "header"
    <2>1. i \in 1 .. Len(working')
      OBVIOUS
    <2>2. CASE i \in 1 .. Len(working) /\ working'[i] = working[i]
      <3>1. i \in 2 .. Len(working)
        BY <1>1, <2>2
      <3> QED BY <2>2, <3>1 DEF HoldsDocument
    <2>3. CASE i = Block + n + 1
      BY <1>2, <1>7, <2>3
    <2> QED BY <1>9, <2>1, <2>2, <2>3
  <1>12. ASSUME NEW i \in 1 .. n PROVE working'[Block + i] = Cell(appended[i])
    <2>1. Block + i \in 1 .. Block + n
      BY <1>1
    <2>2. working[Block + i] = Cell(appended[i])
      BY DEF HoldsDocument, n
    <2> QED BY <1>8, <2>1, <2>2
  <1>13. Block + n < Len(working') /\ Block + n <= Len(working')
    BY <1>1, <1>6
  <1>14. HoldsDocument(working', appended)
    BY <1>6, <1>10, <1>11, <1>12, <1>13 DEF HoldsDocument, n
  <1> QED BY <1>7, <1>13, <1>14 DEF n

\* The header that counts it commits it.
LEMMA HeaderWritten ==
  ASSUME HoldsDocument(working, appended), appended \in Seq(Nat), NEW c \in Nat,
         Block + Len(appended) < Len(working),
         working[Block + Len(appended) + 1] = Cell(c),
         working' = Written(working, [offset |-> 0,
                                      cells |-> TarHeader("document", Len(appended) + 1)])
  PROVE  HoldsDocument(working', Append(appended, c)) /\ Append(appended, c) \in Seq(Nat)
  <1> DEFINE n == Len(appended)
             cells == TarHeader("document", n + 1)
             longer == Append(appended, c)
  <1>1. Block \in Nat \ {0, 1} /\ n \in Nat /\ Len(working) \in Nat
    BY ArchiveAssumption, LenProperties DEF HoldsDocument
  <1>2. /\ cells \in Seq(AnyCell) /\ Len(cells) = Block
        /\ cells[1] = [kind |-> "header", path |-> "document", size |-> n + 1]
        /\ \A i \in 2 .. Block : cells[i] = Zero
    BY <1>1, EntryHeader DEF HeaderOf
  <1>3. /\ longer \in Seq(Nat) /\ Len(longer) = n + 1
        /\ \A i \in 1 .. n : longer[i] = appended[i]
        /\ longer[n + 1] = c
    BY AppendProperties
  <1>4. working \in Seq(AnyCell) /\ 0 \in Nat
    BY DEF HoldsDocument
  <1>5. working' = Written(working, [offset |-> 0, cells |-> cells])
    OBVIOUS
  <1>6. Block + n < Len(working) /\ working[Block + n + 1] = Cell(c)
    OBVIOUS
  <1> HIDE DEF n, cells, longer
  <1>7. /\ working' \in Seq(AnyCell) /\ Len(working') \in Nat
        /\ Len(working) <= Len(working')
        /\ Len(working') = Len(working) \/ Len(working') = Block
        /\ \A i \in 1 .. Block : working'[i] = cells[i]
        /\ \A i \in 1 .. Len(working') : i \notin 1 .. Block =>
             working'[i] = IF i <= Len(working) THEN working[i] ELSE Zero
    <2> DEFINE offset == 0
    <2>1. offset \in Nat /\ working' = Written(working, [offset |-> offset, cells |-> cells])
      BY <1>5
    <2> HIDE DEF offset
    <2>2. Patched(working', working, offset, cells)
      <3>1. cells \in Seq(AnyCell) /\ working \in Seq(AnyCell)
        BY <1>2, <1>4
      <3> QED BY <2>1, <3>1, WriteInPlace
    <2>3. offset + 1 = 1 /\ offset + Len(cells) = Block /\ \A i \in 1 .. Block : i - offset = i
      BY <1>1, <1>2 DEF offset
    <2> QED BY <2>2, <2>3 DEF Patched
  <1>8. Len(working') = Len(working)
    BY <1>1, <1>2, <1>6, <1>7
  <1>9. \A i \in 1 .. Block : working'[i] = cells[i]
    BY <1>7
  <1>10. \A i \in Block + 1 .. Len(working) : working'[i] = working[i]
    BY <1>1, <1>2, <1>7, <1>8
  <1>11. working'[1] = [kind |-> "header", path |-> "document", size |-> Len(longer)]
    BY <1>1, <1>2, <1>3, <1>9
  <1>12. ASSUME NEW i \in 2 .. Len(working') PROVE working'[i].kind # "header"
    <2>1. CASE i <= Block
      <3>1. working'[i] = Zero
        BY <1>1, <1>2, <1>9, <2>1
      <3> QED BY <3>1 DEF Zero
    <2>2. CASE ~(i <= Block)
      <3>1. working'[i] = working[i] /\ i \in 2 .. Len(working)
        BY <1>1, <1>8, <1>10, <2>2
      <3> QED BY <3>1 DEF HoldsDocument
    <2> QED BY <2>1, <2>2
  <1>13. ASSUME NEW i \in 1 .. Len(longer) PROVE working'[Block + i] = Cell(longer[i])
    <2>1. working'[Block + i] = working[Block + i]
      <3>1. Block + i \in Block + 1 .. Len(working)
        BY <1>1, <1>3, <1>6
      <3> QED BY <1>10, <3>1
    <2>2. CASE i \in 1 .. n
      <3>1. working[Block + i] = Cell(appended[i])
        BY <2>2 DEF HoldsDocument, n
      <3> QED BY <1>3, <2>1, <2>2, <3>1
    <2>3. CASE i = n + 1
      <3>1. Block + i = Block + n + 1
        BY <1>1, <2>3
      <3> QED BY <1>3, <1>6, <2>1, <2>3, <3>1
    <2> QED BY <1>1, <1>3, <2>2, <2>3
  <1>14. Block + Len(longer) <= Len(working')
    BY <1>1, <1>3, <1>6, <1>8
  <1>15. HoldsDocument(working', longer)
    BY <1>7, <1>11, <1>12, <1>13, <1>14 DEF HoldsDocument
  <1> QED BY <1>3, <1>15 DEF longer

\* A change that was not appended yet is there to take.
LEMMA NextChange ==
  ASSUME Unused # {}
  PROVE  (CHOOSE c \in Unused : \A d \in Unused : c <= d) \in Changes
  <1>1. Unused \in SUBSET Nat /\ Unused \subseteq Changes
    BY ArchiveAssumption DEF Unused, Changes
  <1>2. \E c \in Unused : \A d \in Unused : c <= d
    BY <1>1, LeastNat
  <1> QED BY <1>1, <1>2

LEMMA BeginAppendStep ==
  ASSUME ArchiveInv, NEW w \in Writers, BeginAppend(w)
  PROVE  ArchiveInv'
  <1>1. PICK c \in Changes :
          jobs' = [jobs EXCEPT ![w] = [Idle EXCEPT !.writes = AppendChange(working, <<Cell(c)>>),
                                                   !.change = c]]
    BY NextChange DEF BeginAppend
  <1>2. /\ raced' = (raced \/ \E v \in Writers : Working(v))
        /\ UNCHANGED <<working, appended>>
    BY DEF BeginAppend
  <1>3. DOMAIN jobs' = Everyone
    BY <1>1 DEF ArchiveInv
  <1> SUFFICES ASSUME ~raced'
               PROVE  /\ appended' \in Seq(Nat) /\ HoldsDocument(working', appended')
                      /\ OneAtATime'
                      /\ \A v \in Writers : Working(v)' => Commits(v)'
    BY <1>3 DEF ArchiveInv
  <1>4. ~raced /\ \A v \in Writers : ~Working(v)
    BY <1>2
  <1>5. appended \in Seq(Nat) /\ HoldsDocument(working, appended)
    BY <1>4 DEF ArchiveInv
  <1>6. ASSUME NEW v \in Writers, v # w PROVE ~Working(v)'
    <2>1. jobs'[v] = jobs[v]
      BY <1>1, <1>6
    <2> QED BY <1>4, <2>1 DEF Working
  <1>7. Commits(w)'
    <2> DEFINE n == Len(appended)
    <2>1. Block \in Nat /\ n \in Nat
      BY <1>5, ArchiveAssumption, LenProperties
    <2>2. ByteRange(working, "document") = [start |-> Block, end |-> Block + n]
      BY <1>5, DocumentIsRead
    <2>3. AppendChange(working, <<Cell(c)>>) =
            << [offset |-> Block + n, cells |-> <<Cell(c)>>],
               [offset |-> 0, cells |-> TarHeader("document", n + 1)] >>
      <3>1. Block - Block = 0 /\ Block + n + Len(<<Cell(c)>>) - Block = n + 1
        BY <2>1
      <3> QED BY <2>2, <3>1 DEF AppendChange
    <2>4. jobs'[w] = [Idle EXCEPT !.writes = AppendChange(working, <<Cell(c)>>), !.change = c]
      BY <1>1 DEF ArchiveInv, Everyone
    <2>5. jobs'[w] = [writes |-> AppendChange(working, <<Cell(c)>>),
                      change |-> c, document |-> <<>>, continues |-> FALSE]
      BY <2>4 DEF Idle
    <2> QED BY <1>2, <2>3, <2>5 DEF Commits
  <1> QED BY <1>2, <1>5, <1>6, <1>7 DEF OneAtATime

LEMMA OtherWrites ==
  ASSUME NEW writes, NEW others, NEW c
  PROVE  [[writes |-> writes, change |-> c, document |-> <<>>, continues |-> FALSE]
            EXCEPT !.writes = others]
           = [writes |-> others, change |-> c, document |-> <<>>, continues |-> FALSE]
  <1> DEFINE old == [writes |-> writes, change |-> c, document |-> <<>>, continues |-> FALSE]
             new == [old EXCEPT !.writes = others]
             Fields == {"writes", "change", "document", "continues"}
  <1>1. /\ old = [x \in Fields |-> old[x]]
        /\ old.change = c /\ old.document = <<>> /\ old.continues = FALSE
    OBVIOUS
  <1> HIDE DEF old
  <1>2. new = [x \in Fields |-> new[x]]
    BY <1>1
  <1>3. new.writes = others /\ new.change = c /\ new.document = <<>> /\ new.continues = FALSE
    BY <1>1
  <1> HIDE DEF new
  <1>4. new = [writes |-> others, change |-> c, document |-> <<>>, continues |-> FALSE]
    BY <1>2, <1>3
  <1> QED BY <1>4 DEF new, old

LEMMA AppendWriteStep ==
  ASSUME ArchiveInv, NEW w \in Writers, AppendStep(w)
  PROVE  ArchiveInv'
  <1> DEFINE job == jobs[w]
             done == Len(job.writes) = 1
  <1>1. /\ Working(w) /\ UNCHANGED raced
        /\ working' = Written(working, Head(job.writes))
        /\ jobs' = [jobs EXCEPT ![w] = IF done THEN Idle ELSE [job EXCEPT !.writes = Tail(@)]]
        /\ appended' = IF done THEN Append(appended, job.change) ELSE appended
    BY DEF AppendStep
  <1>2. DOMAIN jobs' = Everyone
    BY <1>1 DEF ArchiveInv
  <1> SUFFICES ASSUME ~raced
               PROVE  /\ appended' \in Seq(Nat) /\ HoldsDocument(working', appended')
                      /\ OneAtATime'
                      /\ \A v \in Writers : Working(v)' => Commits(v)'
    BY <1>1, <1>2 DEF ArchiveInv
  <1>3. /\ appended \in Seq(Nat) /\ HoldsDocument(working, appended)
        /\ Commits(w)
        /\ \A v \in Writers : Working(v) => v = w
    BY <1>1 DEF ArchiveInv, OneAtATime
  <1>4. ASSUME NEW v \in Writers, v # w PROVE ~Working(v)'
    <2>1. jobs'[v] = jobs[v]
      BY <1>1, <1>4
    <2> QED BY <1>3, <1>4, <2>1 DEF Working
  <1> DEFINE n == Len(appended)
             header == [offset |-> 0, cells |-> TarHeader("document", n + 1)]
             change(c) == [offset |-> Block + n, cells |-> <<Cell(c)>>]
             Job(c, writes) == [writes |-> writes, change |-> c, document |-> <<>>, continues |-> FALSE]
  <1>5. PICK c \in Changes :
          \/ job = Job(c, <<change(c), header>>)
          \/ /\ job = Job(c, <<header>>)
             /\ Block + n < Len(working) /\ working[Block + n + 1] = Cell(c)
    BY <1>3 DEF Commits
  <1>6. c \in Nat
    BY ArchiveAssumption DEF Changes
  <1>7. CASE job = Job(c, <<change(c), header>>)
    <2>1. ~done /\ Head(job.writes) = change(c) /\ Tail(job.writes) = <<header>>
      BY <1>7
    <2>2. working' = Written(working, change(c)) /\ appended' = appended
      BY <1>1, <2>1
    <2>3. /\ HoldsDocument(working', appended)
          /\ Block + n < Len(working') /\ working'[Block + n + 1] = Cell(c)
      BY <1>3, <1>6, <2>2, ChangeWritten
    <2>4. jobs'[w] = [job EXCEPT !.writes = Tail(@)]
      BY <1>1, <2>1 DEF ArchiveInv, Everyone
    <2>5. jobs'[w] = Job(c, <<header>>)
      <3>1. [job EXCEPT !.writes = Tail(@)] = [job EXCEPT !.writes = <<header>>]
        BY <2>1
      <3>2. [job EXCEPT !.writes = <<header>>] = Job(c, <<header>>)
        <4> DEFINE before == <<change(c), header>>
                   after == <<header>>
        <4>1. job = Job(c, before)
          BY <1>7
        <4> HIDE DEF before, after
        <4>2. [Job(c, before) EXCEPT !.writes = after] = Job(c, after)
          BY OtherWrites
        <4>3. [job EXCEPT !.writes = after] = Job(c, after)
          BY <4>1, <4>2
        <4> QED BY <4>3 DEF after
      <3> QED BY <2>4, <3>1, <3>2
    <2>6. Commits(w)'
      BY <2>2, <2>3, <2>5 DEF Commits
    <2> QED BY <1>3, <1>4, <2>2, <2>3, <2>6 DEF OneAtATime
  <1>8. CASE /\ job = Job(c, <<header>>)
             /\ Block + n < Len(working) /\ working[Block + n + 1] = Cell(c)
    <2>1. done /\ Head(job.writes) = header /\ job.change = c
      BY <1>8
    <2>2. working' = Written(working, header) /\ appended' = Append(appended, c)
      BY <1>1, <2>1
    <2>3. HoldsDocument(working', appended') /\ appended' \in Seq(Nat)
      BY <1>3, <1>6, <1>8, <2>2, HeaderWritten
    <2>4. jobs'[w] = Idle
      BY <1>1, <2>1 DEF ArchiveInv, Everyone
    <2>5. ~Working(w)'
      BY <2>4 DEF Working, Idle
    <2> QED BY <1>4, <2>3, <2>5 DEF OneAtATime
  <1> QED BY <1>5, <1>7, <1>8

LEMMA ArchiveStep == ArchiveInv /\ [ArchiveNext]_archiveVars => ArchiveInv'
  <1> SUFFICES ASSUME ArchiveInv, [ArchiveNext]_archiveVars PROVE ArchiveInv'
    OBVIOUS
  <1>1. ASSUME UNCHANGED <<working, appended, raced>>, DOMAIN jobs' = Everyone,
               \A w \in Writers : jobs'[w] = jobs[w]
        PROVE  ArchiveInv'
    BY <1>1 DEF ArchiveInv, OneAtATime, Working, Commits
  <1>2. ASSUME UNCHANGED <<working, appended, raced>>, NEW s \in Savers, NEW job,
               jobs' = [jobs EXCEPT ![s] = job]
        PROVE  ArchiveInv'
    <2>1. s \notin Writers
      BY ArchiveAssumption
    <2>2. \A w \in Writers : jobs'[w] = jobs[w]
      BY <1>2, <2>1
    <2>3. DOMAIN jobs' = Everyone
      BY <1>2 DEF ArchiveInv
    <2> QED BY <1>1, <1>2, <2>2, <2>3
  <1>3. ASSUME NEW w \in Writers, BeginAppend(w) \/ AppendStep(w) PROVE ArchiveInv'
    BY <1>3, BeginAppendStep, AppendWriteStep
  <1>4. ASSUME NEW s \in Savers, BeginSave(s) PROVE ArchiveInv'
    BY <1>2, <1>4 DEF BeginSave
  <1>5. ASSUME NEW s \in Savers, BeginSaveAs(s) PROVE ArchiveInv'
    BY <1>2, <1>5 DEF BeginSaveAs
  <1>6. ASSUME NEW s \in Savers, SaveStep(s) PROVE ArchiveInv'
    BY <1>2, <1>6 DEF SaveStep
  <1>7. CASE Crash
    <2>1. UNCHANGED <<working, appended, raced>> /\ jobs' = [w \in Everyone |-> Idle]
      BY <1>7 DEF Crash
    <2>2. DOMAIN jobs' = Everyone /\ \A w \in Writers : ~Working(w)'
      BY <2>1 DEF Everyone, Working, Idle
    <2> QED BY <2>1, <2>2 DEF ArchiveInv, OneAtATime
  <1>8. CASE ReplaceSaved \/ ExportArchive \/ UNCHANGED archiveVars
    <2>1. UNCHANGED <<working, appended, raced, jobs>>
      BY <1>8 DEF ReplaceSaved, ExportArchive, archiveVars
    <2> QED BY <1>1, <2>1 DEF ArchiveInv
  <1> QED BY <1>3, <1>4, <1>5, <1>6, <1>7, <1>8 DEF ArchiveNext

-----------------------------------------------------------------------------
(* Archives                                                                *)

\* What a file consists of besides headers.
Content == [kind : {"zero"}] \cup [kind : {"data"}, value : Nat]

\* Where the document's entry begins in an archive with such a media file.
Start(size) == RoundToNextBlock(Block + size)

\* file has an entry for the media, whose header can be written, and none yet for
\* the document.
MediaOnly(file, size) ==
  /\ size <= SizeLimit
  /\ file \in Seq(AnyCell) /\ Block <= Len(file) /\ Len(file) <= Start(size)
  /\ file[1] = HeaderOf("media", size)
  /\ \A i \in 2 .. Len(file) : file[i].kind # "header"

MediaThere(file, size) == \A i \in 1 .. size : file[Block + i] = Cell(0)

\* file has an entry for the media and one for a document of n cells, which may not
\* be there yet.
TwoEntries(file, size, n) ==
  /\ file \in Seq(AnyCell) /\ Start(size) + Block <= Len(file)
  /\ file[1] = HeaderOf("media", size)
  /\ file[Start(size) + 1] = HeaderOf("document", n)
  /\ \A i \in 2 .. Len(file) : i # Start(size) + 1 => file[i].kind # "header"
  /\ MediaThere(file, size)

DocumentThere(file, size, doc) ==
  /\ Start(size) + Block + Len(doc) <= Len(file)
  /\ \A i \in 1 .. Len(doc) : file[Start(size) + Block + i] = doc[i]

\* file is an archive of that document.
Holds(file, size, doc) ==
  doc \in Seq(Content) /\ TwoEntries(file, size, Len(doc)) /\ DocumentThere(file, size, doc)

\* The working copy begins with its header even when two appended at a time, and
\* so do the writes ahead leave it.
StartsWithDocument(file) ==
  /\ file \in Seq(AnyCell) /\ Block <= Len(file)
  /\ \E n \in Nat : file[1] = HeaderOf("document", n)
  /\ \A i \in 2 .. Len(file) : file[i].kind # "header"

DocumentWrite ==
  {write \in [offset : Nat, cells : Seq(AnyCell)] :
     \/ write.offset >= Block /\ write.cells \in Seq(Content)
     \/ write.offset = 0 /\ \E n \in Nat : write.cells = TarHeader("document", n)}

WorkingInv ==
  /\ StartsWithDocument(working)
  /\ \A w \in Writers : jobs[w].writes \in Seq(DocumentWrite)

\* What is at the path of the archive, whatever ended the application.
Shape(file, size) ==
  \/ file = <<>>
  \/ MediaOnly(file, size)
  \/ \E n \in Nat : TwoEntries(file, size, n)

\* The writes of a save, all and those that are left.
MediaHeader(size) == [offset |-> 0, cells |-> TarHeader("media", size)]
MediaData(size) == [offset |-> Block, cells |-> Padded(MediaBytes(size))]
DocumentHeader(size, doc) == [offset |-> Start(size), cells |-> TarHeader("document", Len(doc))]
DocumentData(size, doc, n) == [offset |-> Start(size) + Block + n,
                               cells |-> SubSeq(doc, n + 1, Len(doc))]

\* A save that makes the file anew, or fails to, as the media were in it or do not
\* fit a header.
Creating(writes, doc, file, size) ==
  \/ writes = <<Truncation, Failure>>
  \/ writes = <<Failure>> /\ file = <<>>
  \/ /\ writes = <<Truncation, MediaHeader(size), MediaData(size), DocumentHeader(size, doc),
                   DocumentData(size, doc, 0)>>
     /\ size <= SizeLimit
  \/ /\ writes = <<MediaHeader(size), MediaData(size), DocumentHeader(size, doc),
                   DocumentData(size, doc, 0)>>
     /\ file = <<>> /\ size <= SizeLimit
  \/ /\ writes = <<MediaData(size), DocumentHeader(size, doc), DocumentData(size, doc, 0)>>
     /\ MediaOnly(file, size) /\ Len(file) = Block
  \/ /\ writes = <<DocumentHeader(size, doc), DocumentData(size, doc, 0)>>
     /\ MediaOnly(file, size) /\ MediaThere(file, size) /\ Len(file) = Start(size)
  \/ writes = <<DocumentData(size, doc, 0)>> /\ TwoEntries(file, size, Len(doc))

\* A save that replaces the document in it.
Rewriting(writes, doc, file, size) ==
  \/ /\ writes = <<DocumentData(size, doc, 0), DocumentHeader(size, doc)>>
     /\ \E n \in Nat : TwoEntries(file, size, n)
  \/ /\ writes = <<DocumentHeader(size, doc)>>
     /\ \E n \in Nat : TwoEntries(file, size, n)
     /\ DocumentThere(file, size, doc)

\* A save that continues the document: until its header is written it is the old one.
Continues(old, doc) == Len(old) <= Len(doc) /\ \A i \in 1 .. Len(old) : old[i] = doc[i]

Appending(writes, doc, file, size, old) ==
  /\ Holds(file, size, old) /\ Continues(old, doc)
  /\ \/ writes = <<DocumentData(size, doc, Len(old)), DocumentHeader(size, doc)>>
     \/ writes = <<DocumentHeader(size, doc)>> /\ DocumentThere(file, size, doc)

Ahead(writes, doc, continues, file, size, last) ==
  \/ ~continues /\ Creating(writes, doc, file, size)
  \/ ~continues /\ Rewriting(writes, doc, file, size)
  \/ continues /\ \E old \in Seq(Content) :
       /\ Appending(writes, doc, file, size, old)
       /\ last.state = "done" => last.document = old

SaverJob(job) ==
  job = [writes |-> job.writes, change |-> 0, document |-> job.document,
         continues |-> job.continues]

\* A save that is under way alone.
Saver(job, file, size, last) ==
  /\ SaverJob(job) /\ job.document \in Seq(Content) /\ job.continues \in BOOLEAN
  /\ Ahead(job.writes, job.document, job.continues, file, size, last)

\* Without a save under way the archive holds what was saved last, unless this failed.
Resting ==
  /\ \A s \in Savers : jobs[s].writes = <<>>
  /\ lastSave.state = "done" => Holds(saved, media.size, lastSave.document)

Alone(s) ==
  /\ \A t \in Savers \ {s} : jobs[t].writes = <<>>
  /\ Saver(jobs[s], saved, media.size, lastSave)

\* Only the first write of a save empties the file, and it is followed by all that
\* a new file has, whatever other saves do.
Plain(writes) == \E S : Truncation \notin S /\ writes \in Seq(S)

Anew(job) ==
  \E doc \in Seq(Content) :
    job = [writes |-> CreateNew(doc), change |-> 0, document |-> doc, continues |-> FALSE]

StartsAnew == \A s \in Savers : Plain(jobs[s].writes) \/ Anew(jobs[s])

SavedInv ==
  /\ media.size \in Nat /\ StartsAnew
  /\ ~mixed => Shape(saved, media.size) /\ (Resting \/ \E s \in Savers : Alone(s))
  /\ exported # NoExport =>
       exported.size \in Nat /\ Holds(exported.file, exported.size, exported.document)
-----------------------------------------------------------------------------
(* Blocks of any size                                                        *)

\* Integer division, which the solver takes for granted only with constants.
LEMMA Quotient ==
  ASSUME NEW x \in Nat, NEW b \in Nat, b > 0
  PROVE  /\ x \div b \in Nat
         /\ (x \div b) * b <= x /\ x < (x \div b) * b + b
  OBVIOUS

\* round_to_next_block, here and after whole blocks.
LEMMA RoundedUp ==
  ASSUME NEW x \in Nat
  PROVE  /\ RoundToNextBlock(x) \in Nat
         /\ x <= RoundToNextBlock(x) /\ RoundToNextBlock(x) < x + Block
  <1>1. Block \in Nat /\ Block > 0 /\ x + Block - 1 \in Nat
    BY ArchiveAssumption
  <1> DEFINE y == x + Block - 1
             q == y \div Block
  <1>2. q \in Nat /\ q * Block <= y /\ y < q * Block + Block
    <2>1. y \in Nat
      BY <1>1
    <2> HIDE DEF y
    <2> QED BY <1>1, <2>1, Quotient
  <1>3. RoundToNextBlock(x) = q * Block
    BY DEF RoundToNextBlock
  <1> HIDE DEF q
  <1>4. q * Block \in Nat
    BY <1>1, <1>2
  <1> QED BY <1>1, <1>2, <1>3, <1>4

LEMMA RoundedBlock ==
  ASSUME NEW x \in Nat
  PROVE  RoundToNextBlock(Block + x) = Block + RoundToNextBlock(x)
  <1>1. Block \in Nat /\ Block > 0
    BY ArchiveAssumption
  <1> DEFINE y == x + Block - 1
  <1>2. y \in Nat /\ Block + x + Block - 1 = Block + y
    BY <1>1
  <1>3. /\ RoundToNextBlock(x) = (y \div Block) * Block
        /\ RoundToNextBlock(Block + x) = ((Block + y) \div Block) * Block
    BY <1>2 DEF RoundToNextBlock
  <1> HIDE DEF y
  <1>4. (Block + y) \div Block = 1 + y \div Block
    <2> DEFINE q == y \div Block
               r == (Block + y) \div Block
    <2>1. q \in Nat /\ q * Block <= y /\ y < q * Block + Block
      BY <1>1, <1>2, Quotient
    <2>2. r \in Nat /\ r * Block <= Block + y /\ Block + y < r * Block + Block
      <3>1. Block + y \in Nat
        BY <1>1, <1>2
      <3> QED BY <1>1, <3>1, Quotient
    <2> HIDE DEF q, r
    <2>3. ASSUME NEW i \in Nat, NEW j \in Nat, i < j PROVE i * Block + Block <= j * Block
      <3>1. (j - i - 1) * Block >= 0
        BY <1>1, <2>3
      <3> QED BY <1>1, <3>1
    <2>4. q + 1 \in Nat /\ (q + 1) * Block = q * Block + Block
      BY <1>1, <2>1
    <2>5. ~(r < q + 1)
      BY <1>1, <1>2, <2>1, <2>2, <2>3, <2>4
    <2>6. ~(q + 1 < r)
      BY <1>1, <1>2, <2>1, <2>2, <2>3, <2>4
    <2>7. r = 1 + q
      BY <2>1, <2>2, <2>5, <2>6
    <2> QED BY <2>7 DEF q, r
  <1>5. y \div Block \in Nat
    BY <1>1, <1>2, Quotient
  <1> QED BY <1>1, <1>3, <1>4, <1>5

\* Where the document begins.
LEMMA StartOfDocument ==
  ASSUME NEW size \in Nat
  PROVE  /\ Start(size) \in Nat /\ Start(size) = Block + RoundToNextBlock(size)
         /\ Block + size <= Start(size) /\ Start(size) < Block + size + Block
         /\ RoundToNextBlock(size) \in Nat /\ size <= RoundToNextBlock(size)
  <1>1. Block \in Nat
    BY ArchiveAssumption
  <1> QED BY <1>1, RoundedUp, RoundedBlock DEF Start

\* A header needs no padding.
LEMMA BlockIsRound == RoundToNextBlock(Block) = Block
  <1>1. Block \in Nat /\ Block > 0 /\ RoundToNextBlock(0) \in Nat /\ RoundToNextBlock(0) < Block
    BY ArchiveAssumption, RoundedUp
  <1>2. RoundToNextBlock(Block + 0) = Block + RoundToNextBlock(0)
    BY RoundedBlock
  <1>3. RoundToNextBlock(0) = 0
    <2> DEFINE q == (0 + Block - 1) \div Block
    <2>1. RoundToNextBlock(0) = q * Block
      BY DEF RoundToNextBlock
    <2>2. q \in Nat /\ q * Block <= Block - 1
      <3> DEFINE y == 0 + Block - 1
      <3>1. y \in Nat /\ y = Block - 1
        BY <1>1
      <3> HIDE DEF y
      <3> QED BY <1>1, <3>1, Quotient DEF y
    <2> HIDE DEF q
    <2>3. q = 0
      <3> SUFFICES ASSUME q >= 1 PROVE FALSE
        BY <2>2
      <3>1. (q - 1) * Block >= 0
        BY <1>1, <2>2
      <3> QED BY <1>1, <2>2, <3>1
    <2> QED BY <1>1, <2>1, <2>3
  <1>4. Block + 0 = Block
    BY <1>1
  <1> QED BY <1>1, <1>2, <1>3, <1>4

-----------------------------------------------------------------------------
(* Reading an archive                                                      *)

\* The offsets at which the readers can be.
Offsets(file) == 0 .. Len(file) + Block + SizeLimit

\* A reader at an offset finds one of the two headers, or stops.
LEMMA EntriesAt ==
  ASSUME NEW file, NEW size \in Nat, NEW n \in Nat, TwoEntries(file, size, n)
  PROVE  /\ Len(file) \in Nat /\ 0 \in Offsets(file) /\ Start(size) \in Offsets(file)
         /\ Start(size) # 0 /\ Block < Len(file) /\ Start(size) + Block <= Len(file)
         /\ file[0 + 1] = HeaderOf("media", size)
         /\ file[Start(size) + 1] = HeaderOf("document", n)
         /\ \A o \in Nat : o \notin {0, Start(size)} =>
               o + Block > Len(file) \/ file[o + 1].kind # "header"
  <1>1. /\ Block \in Nat \ {0, 1} /\ SizeLimit \in Nat /\ Start(size) \in Nat
        /\ Block <= Start(size)
    BY ArchiveAssumption, StartOfDocument
  <1>2. /\ Len(file) \in Nat /\ Start(size) + Block <= Len(file)
        /\ file[1] = HeaderOf("media", size)
        /\ file[Start(size) + 1] = HeaderOf("document", n)
        /\ \A i \in 2 .. Len(file) : i # Start(size) + 1 => file[i].kind # "header"
    BY LenProperties DEF TwoEntries
  <1>3. ASSUME NEW o \in Nat, o \notin {0, Start(size)}
        PROVE  o + Block > Len(file) \/ file[o + 1].kind # "header"
    <2>1. o + Block > Len(file) \/ (o + 1 \in 2 .. Len(file) /\ o + 1 # Start(size) + 1)
      BY <1>1, <1>2, <1>3
    <2> QED BY <1>2, <2>1
  <1>4. 0 \in Offsets(file) /\ Start(size) \in Offsets(file)
    BY <1>1, <1>2 DEF Offsets
  <1>5. Start(size) # 0 /\ Block < Len(file)
    BY <1>1, <1>2
  <1>6. file[0 + 1] = HeaderOf("media", size)
    BY <1>2
  <1> QED BY <1>2, <1>3, <1>4, <1>5, <1>6

\* The search for the document passes the media.
LEMMA DocumentIsFound ==
  ASSUME NEW file, NEW size \in Nat, NEW n \in Nat, TwoEntries(file, size, n)
  PROVE  ByteRange(file, "document") =
           [start |-> Start(size) + Block, end |-> Start(size) + Block + n]
  <1> DEFINE start == Start(size)
             range == [start |-> start + Block, end |-> start + Block + n]
             Entry(From, offset) ==
               IF offset + Block > Len(file) \/ file[offset + 1].kind # "header" THEN NoRange
               ELSE LET header == file[offset + 1]
                        begin == offset + Block
                    IN  IF header.path = "document"
                        THEN [start |-> begin, end |-> begin + header.size]
                        ELSE From[RoundToNextBlock(begin + header.size)]
             Found(offset) == IF offset \in {0, start} THEN range ELSE NoRange
             Body(From) == [offset \in Offsets(file) |-> Entry(From, offset)]
             Witness == [offset \in Offsets(file) |-> Found(offset)]
  <1>1. Block \in Nat /\ SizeLimit \in Nat /\ start \in Nat
    BY ArchiveAssumption, StartOfDocument
  <1>2. /\ Len(file) \in Nat /\ 0 \in Offsets(file) /\ start \in Offsets(file)
        /\ start # 0 /\ Block < Len(file) /\ start + Block <= Len(file)
        /\ file[0 + 1] = HeaderOf("media", size)
        /\ file[start + 1] = HeaderOf("document", n)
        /\ \A o \in Nat : o \notin {0, start} => o + Block > Len(file) \/ file[o + 1].kind # "header"
    BY EntriesAt
  <1>3. RoundToNextBlock(0 + Block + size) = start
    <2>1. 0 + Block + size = Block + size
      BY <1>1
    <2> QED BY <2>1 DEF Start
  <1> HIDE DEF start
  <1>4. ASSUME NEW From PROVE Entry(From, 0) = From[start]
    <2>1. /\ ~(0 + Block > Len(file)) /\ file[0 + 1].kind = "header"
          /\ file[0 + 1].path # "document" /\ file[0 + 1].size = size
      BY <1>1, <1>2 DEF HeaderOf
    <2> QED BY <1>3, <2>1
  <1>5. ASSUME NEW From PROVE Entry(From, start) = range
    <2>1. /\ ~(start + Block > Len(file)) /\ file[start + 1].kind = "header"
          /\ file[start + 1].path = "document" /\ file[start + 1].size = n
      BY <1>1, <1>2 DEF HeaderOf
    <2> QED BY <2>1
  <1>6. ASSUME NEW From, NEW o \in Offsets(file), o \notin {0, start}
        PROVE  Entry(From, o) = NoRange
    <2>1. o \in Nat
      BY <1>1, <1>2 DEF Offsets
    <2> QED BY <1>2, <1>6, <2>1
  <1> HIDE DEF Entry, range
  <1>7. Witness[start] = range
    BY <1>2
  <1>8. \A o \in Offsets(file) : Entry(Witness, o) = Found(o)
    <2> HIDE DEF Witness
    <2> QED BY <1>4, <1>5, <1>6, <1>7
  <1>9. Body(Witness) = Witness
    <2> DEFINE w == Witness
    <2>1. \A o \in Offsets(file) : Entry(w, o) = Found(o)
      BY <1>8
    <2>2. w = [o \in Offsets(file) |-> Found(o)]
      OBVIOUS
    <2> HIDE DEF w, Found
    <2>3. Body(w) = w
      BY <2>1, <2>2
    <2> QED BY <2>3 DEF w
  <1> DEFINE From == CHOOSE g : g = Body(g)
  <1>10. ByteRange(file, "document") = From[0]
    BY DEF ByteRange, Offsets, Entry
  <1> HIDE DEF Witness
  <1>11. From = Body(From)
    <2> HIDE DEF Body
    <2> QED BY <1>9
  <1> HIDE DEF From
  <1>12. From[0] = Entry(From, 0) /\ From[start] = Entry(From, start)
    BY <1>2, <1>11
  <1>13. ByteRange(file, "document") = range
    BY <1>4, <1>5, <1>10, <1>12
  <1> QED BY <1>13 DEF range, start

\* Without a second entry it finds nothing.
LEMMA NoDocumentFound ==
  ASSUME NEW file, NEW size \in Nat, MediaOnly(file, size)
  PROVE  ByteRange(file, "document") = NoRange
  <1> DEFINE start == Start(size)
             Entry(From, offset) ==
               IF offset + Block > Len(file) \/ file[offset + 1].kind # "header" THEN NoRange
               ELSE LET header == file[offset + 1]
                        begin == offset + Block
                    IN  IF header.path = "document"
                        THEN [start |-> begin, end |-> begin + header.size]
                        ELSE From[RoundToNextBlock(begin + header.size)]
             Body(From) == [offset \in Offsets(file) |-> Entry(From, offset)]
             Witness == [offset \in Offsets(file) |-> NoRange]
  <1>1. /\ Block \in Nat \ {0, 1} /\ SizeLimit \in Nat /\ start \in Nat
        /\ start < Block + size + Block /\ Block <= start /\ size <= SizeLimit
    <2>1. Block \in Nat \ {0, 1} /\ SizeLimit \in Nat
      BY ArchiveAssumption
    <2>2. size <= SizeLimit
      BY DEF MediaOnly
    <2>3. start \in Nat /\ Block + size <= start /\ start < Block + size + Block
      BY StartOfDocument
    <2> HIDE DEF start
    <2> QED BY <2>1, <2>2, <2>3
  <1>2. /\ Len(file) \in Nat /\ Block <= Len(file) /\ Len(file) <= start
        /\ file[1] = HeaderOf("media", size)
        /\ \A i \in 2 .. Len(file) : file[i].kind # "header"
    BY LenProperties DEF MediaOnly
  <1>3. 0 \in Offsets(file) /\ start \in Offsets(file)
    BY <1>1, <1>2 DEF Offsets
  <1>4. RoundToNextBlock(0 + Block + size) = start
    <2>1. 0 + Block + size = Block + size
      BY <1>1
    <2> QED BY <2>1 DEF Start
  <1> HIDE DEF start
  <1>5. ASSUME NEW From PROVE Entry(From, 0) = From[start]
    <2>1. file[0 + 1] = HeaderOf("media", size) /\ ~(0 + Block > Len(file))
      BY <1>1, <1>2
    <2>2. /\ file[0 + 1].kind = "header"
          /\ file[0 + 1].path # "document" /\ file[0 + 1].size = size
      BY <2>1 DEF HeaderOf
    <2> QED BY <1>4, <2>1, <2>2
  <1>6. ASSUME NEW From, NEW o \in Offsets(file), o # 0
        PROVE  Entry(From, o) = NoRange
    <2>1. o \in Nat
      BY <1>1, <1>2 DEF Offsets
    <2>2. o + Block > Len(file) \/ o + 1 \in 2 .. Len(file)
      BY <1>1, <1>2, <1>6, <2>1
    <2> QED BY <1>2, <2>2
  <1> HIDE DEF Entry
  <1>7. Witness[start] = NoRange
    BY <1>3
  <1>8. \A o \in Offsets(file) : Entry(Witness, o) = NoRange
    <2> HIDE DEF Witness
    <2> QED BY <1>5, <1>6, <1>7
  <1>9. Body(Witness) = Witness
    <2> DEFINE w == Witness
    <2>1. \A o \in Offsets(file) : Entry(w, o) = NoRange
      BY <1>8
    <2>2. w = [o \in Offsets(file) |-> NoRange]
      OBVIOUS
    <2> HIDE DEF w
    <2>3. Body(w) = w
      BY <2>1, <2>2
    <2> QED BY <2>3 DEF w
  <1> DEFINE From == CHOOSE g : g = Body(g)
  <1>10. ByteRange(file, "document") = From[0]
    BY DEF ByteRange, Offsets, Entry
  <1> HIDE DEF Witness
  <1>11. From = Body(From)
    <2> HIDE DEF Body
    <2> QED BY <1>9
  <1> HIDE DEF From
  <1>12. From[0] = Entry(From, 0) /\ From[start] = Entry(From, start)
    BY <1>3, <1>11
  <1>13. start # 0
    BY <1>1 DEF start
  <1> QED BY <1>3, <1>5, <1>6, <1>10, <1>12, <1>13

\* After the document there are no entries.
LEMMA NothingBehind ==
  ASSUME NEW file, NEW size \in Nat, NEW doc, Holds(file, size, doc)
  PROVE  /\ Len(doc) \in Nat
         /\ RoundToNextBlock(Start(size) + Block + Len(doc)) \in Offsets(file) \ {0, Start(size)}
  <1>1. /\ Block \in Nat \ {0, 1} /\ SizeLimit \in Nat /\ Start(size) \in Nat
    BY ArchiveAssumption, StartOfDocument
  <1>2. Len(doc) \in Nat /\ Len(file) \in Nat /\ Start(size) + Block + Len(doc) <= Len(file)
    BY LenProperties DEF Holds, TwoEntries, DocumentThere
  <1> DEFINE x == Start(size) + Block + Len(doc)
  <1>3. x \in Nat /\ x <= Len(file) /\ x > Start(size) /\ x > 0
    BY <1>1, <1>2
  <1> HIDE DEF x
  <1>4. /\ RoundToNextBlock(x) \in Nat /\ x <= RoundToNextBlock(x)
        /\ RoundToNextBlock(x) < x + Block
    BY <1>3, RoundedUp
  <1>5. RoundToNextBlock(x) \in Offsets(file) \ {0, Start(size)}
    BY <1>1, <1>2, <1>3, <1>4 DEF Offsets
  <1> QED BY <1>2, <1>5 DEF x

\* The media are found at once.
LEMMA MediaAreFound ==
  ASSUME NEW file, NEW size \in Nat, NEW doc, Holds(file, size, doc)
  PROVE  ByteRange(file, "media") = [start |-> Block, end |-> Block + size]
  <1> DEFINE start == Start(size)
             n == Len(doc)
             behind == RoundToNextBlock(start + Block + n)
             range == [start |-> Block, end |-> Block + size]
             Entry(From, offset) ==
               IF offset + Block > Len(file) \/ file[offset + 1].kind # "header" THEN NoRange
               ELSE LET header == file[offset + 1]
                        begin == offset + Block
                    IN  IF header.path = "media"
                        THEN [start |-> begin, end |-> begin + header.size]
                        ELSE From[RoundToNextBlock(begin + header.size)]
             Found(offset) == IF offset = 0 THEN range ELSE NoRange
             Body(From) == [offset \in Offsets(file) |-> Entry(From, offset)]
             Witness == [offset \in Offsets(file) |-> Found(offset)]
  <1>1. Block \in Nat /\ SizeLimit \in Nat /\ start \in Nat
    BY ArchiveAssumption, StartOfDocument
  <1>2. n \in Nat /\ behind \in Offsets(file) /\ behind \notin {0, start}
    BY NothingBehind
  <1>3. TwoEntries(file, size, n)
    BY DEF Holds
  <1> HIDE DEF n
  <1>4. /\ Len(file) \in Nat /\ 0 \in Offsets(file) /\ start \in Offsets(file)
        /\ start # 0 /\ Block < Len(file) /\ start + Block <= Len(file)
        /\ file[0 + 1] = HeaderOf("media", size)
        /\ file[start + 1] = HeaderOf("document", n)
        /\ \A o \in Nat : o \notin {0, start} => o + Block > Len(file) \/ file[o + 1].kind # "header"
    BY <1>2, <1>3, EntriesAt
  <1> HIDE DEF start
  <1>5. ASSUME NEW From PROVE Entry(From, 0) = range
    <2>1. /\ ~(0 + Block > Len(file)) /\ file[0 + 1].kind = "header"
          /\ file[0 + 1].path = "media" /\ file[0 + 1].size = size
          /\ 0 + Block = Block
      BY <1>1, <1>4 DEF HeaderOf
    <2> QED BY <2>1
  <1>6. ASSUME NEW From PROVE Entry(From, start) = From[behind]
    <2>1. /\ ~(start + Block > Len(file)) /\ file[start + 1].kind = "header"
          /\ file[start + 1].path # "media" /\ file[start + 1].size = n
      BY <1>1, <1>4 DEF HeaderOf
    <2> QED BY <2>1
  <1> HIDE DEF behind
  <1>7. ASSUME NEW From, NEW o \in Offsets(file), o \notin {0, start}
        PROVE  Entry(From, o) = NoRange
    <2>1. o \in Nat
      BY <1>1, <1>4 DEF Offsets
    <2> QED BY <1>4, <1>7, <2>1
  <1> HIDE DEF Entry, range
  <1>8. Witness[behind] = NoRange
    BY <1>2
  <1>9. \A o \in Offsets(file) : Entry(Witness, o) = Found(o)
    <2> HIDE DEF Witness
    <2> QED BY <1>4, <1>5, <1>6, <1>7, <1>8
  <1>10. Body(Witness) = Witness
    <2> DEFINE w == Witness
    <2>1. \A o \in Offsets(file) : Entry(w, o) = Found(o)
      BY <1>9
    <2>2. w = [o \in Offsets(file) |-> Found(o)]
      OBVIOUS
    <2> HIDE DEF w, Found
    <2>3. Body(w) = w
      BY <2>1, <2>2
    <2> QED BY <2>3 DEF w
  <1> DEFINE From == CHOOSE g : g = Body(g)
  <1>11. ByteRange(file, "media") = From[0]
    BY DEF ByteRange, Offsets, Entry
  <1> HIDE DEF Witness
  <1>12. From = Body(From)
    <2> HIDE DEF Body
    <2> QED BY <1>10
  <1> HIDE DEF From
  <1>13. From[0] = Entry(From, 0)
    BY <1>4, <1>12
  <1>14. ByteRange(file, "media") = range
    BY <1>5, <1>11, <1>13
  <1> QED BY <1>14 DEF range

\* A part of a file is what it is cell by cell.
LEMMA PartOfFile ==
  ASSUME NEW file \in Seq(AnyCell), NEW m \in Nat, NEW T, NEW xs \in Seq(T),
         m + Len(xs) <= Len(file),
         \A i \in 1 .. Len(xs) : file[m + i] = xs[i]
  PROVE  SubSeq(file, m + 1, m + Len(xs)) = xs
  <1>1. Len(file) \in Nat /\ Len(xs) \in Nat /\ xs = [i \in 1 .. Len(xs) |-> xs[i]]
    BY LenProperties
  <1> DEFINE a == m + 1
             b == m + Len(xs)
  <1>2. /\ a \in Int /\ b \in Int /\ b - a + 1 = Len(xs)
        /\ (IF a <= b THEN b - a + 1 ELSE 0) = Len(xs)
        /\ \A i \in 1 .. Len(xs) : a + i - 1 = m + i
    <2>1. a \in Int /\ b \in Int /\ b - a + 1 = Len(xs)
      BY <1>1
    <2>2. (IF a <= b THEN b - a + 1 ELSE 0) = Len(xs)
      BY <1>1, <2>1
    <2>3. \A i \in 1 .. Len(xs) : a + i - 1 = m + i
      BY <1>1
    <2> QED BY <2>1, <2>2, <2>3
  <1>3. \A i \in a .. b : file[i] \in AnyCell
    <2>1. \A i \in a .. b : i \in 1 .. Len(file)
      BY <1>1
    <2> QED BY <2>1, ElementOfSeq
  <1> HIDE DEF a, b
  <1>4. /\ SubSeq(file, a, b) \in Seq(AnyCell)
        /\ Len(SubSeq(file, a, b)) = IF a <= b THEN b - a + 1 ELSE 0
        /\ \A i \in 1 .. b - a + 1 : SubSeq(file, a, b)[i] = file[a + i - 1]
    BY <1>2, <1>3, SubSeqProperties
  <1>5. \A i \in 1 .. Len(xs) : SubSeq(file, a, b)[i] = xs[i]
    BY <1>2, <1>4
  <1>6. SubSeq(file, a, b) = [i \in 1 .. Len(xs) |-> SubSeq(file, a, b)[i]]
    <2>1. Len(SubSeq(file, a, b)) = Len(xs)
      BY <1>2, <1>4
    <2> QED BY <1>4, <2>1, LenProperties
  <1>7. SubSeq(file, a, b) = xs
    BY <1>1, <1>5, <1>6
  <1> QED BY <1>7 DEF a, b

\* A document is never what stands for none.
LEMMA ContentIsSomething ==
  ASSUME NEW doc \in Seq(Content)
  PROVE  doc # Nothing
  <1> SUFFICES ASSUME doc = Nothing PROVE FALSE
    OBVIOUS
  <1>1. doc[1] = [kind |-> "nothing"] /\ Len(doc) = 1
    BY DEF Nothing
  <1>2. doc[1] \in Content
    BY <1>1, ElementOfSeq
  <1> QED BY <1>1, <1>2 DEF Content

\* A media file is data of its size.
LEMMA MediaAreContent ==
  ASSUME NEW size \in Nat
  PROVE  /\ MediaBytes(size) \in Seq(Content) /\ Len(MediaBytes(size)) = size
         /\ \A i \in 1 .. size : MediaBytes(size)[i] = Cell(0)
  <1>1. Cell(0) \in Content
    BY DEF Cell, Content
  <1>2. MediaBytes(size) = [i \in 1 .. size |-> Cell(0)]
    BY DEF MediaBytes
  <1>3. MediaBytes(size) \in [1 .. size -> Content]
    BY <1>1, <1>2
  <1> QED BY <1>2, <1>3

\* What the application reads in an archive.
LEMMA ArchiveIsRead ==
  ASSUME NEW file, NEW size \in Nat, NEW doc, Holds(file, size, doc)
  PROVE  Document(file) = doc /\ BytesOfFile(file, "media") = MediaBytes(size)
  <1>1. /\ Block \in Nat /\ Start(size) \in Nat /\ Block + size <= Start(size)
    BY ArchiveAssumption, StartOfDocument
  <1>2. /\ doc \in Seq(Content) /\ TwoEntries(file, size, Len(doc)) /\ DocumentThere(file, size, doc)
        /\ file \in Seq(AnyCell) /\ Start(size) + Block <= Len(file)
        /\ MediaThere(file, size)
    BY DEF Holds, TwoEntries
  <1>3. Len(doc) \in Nat /\ Len(file) \in Nat
    BY <1>2, LenProperties
  <1>4. Document(file) = doc
    <2> DEFINE m == Start(size) + Block
               range == [start |-> m, end |-> m + Len(doc)]
    <2>1. ByteRange(file, "document") = range
      BY <1>2, <1>3, DocumentIsFound
    <2>2. /\ m \in Nat /\ m + Len(doc) <= Len(file)
          /\ \A i \in 1 .. Len(doc) : file[m + i] = doc[i]
      BY <1>1, <1>2 DEF DocumentThere
    <2> HIDE DEF m
    <2>3. SubSeq(file, m + 1, m + Len(doc)) = doc
      BY <1>2, <2>2, PartOfFile
    <2>4. range.start = m /\ range.end = m + Len(doc) /\ range # NoRange /\ ~(range.end > Len(file))
      BY <1>3, <2>2 DEF NoRange
    <2> HIDE DEF range
    <2> QED BY <2>1, <2>3, <2>4 DEF Document, BytesOfFile
  <1>5. BytesOfFile(file, "media") = MediaBytes(size)
    <2> DEFINE range == [start |-> Block, end |-> Block + size]
               xs == MediaBytes(size)
    <2>1. ByteRange(file, "media") = range
      BY MediaAreFound
    <2>2. xs \in Seq(Content) /\ Len(xs) = size /\ \A i \in 1 .. size : xs[i] = Cell(0)
      BY MediaAreContent
    <2> HIDE DEF xs
    <2>3. Block + Len(xs) <= Len(file) /\ \A i \in 1 .. Len(xs) : file[Block + i] = xs[i]
      <3>1. Block + Len(xs) <= Len(file)
        BY <1>1, <1>2, <1>3, <2>2
      <3>2. \A i \in 1 .. size : file[Block + i] = Cell(0)
        BY <1>2 DEF MediaThere
      <3> QED BY <2>2, <3>1, <3>2
    <2>4. SubSeq(file, Block + 1, Block + Len(xs)) = xs
      BY <1>1, <1>2, <2>2, <2>3, PartOfFile
    <2>5. range.start = Block /\ range.end = Block + size /\ range # NoRange /\ ~(range.end > Len(file))
      BY <1>1, <1>3, <2>2, <2>3 DEF NoRange
    <2> HIDE DEF range
    <2> QED BY <2>1, <2>2, <2>4, <2>5 DEF BytesOfFile, xs
  <1> QED BY <1>4, <1>5

\* What the web page reads in it.
LEMMA ArchiveIsLoaded ==
  ASSUME NEW file, NEW size \in Nat, NEW doc, Holds(file, size, doc), doc # <<>>
  PROVE  LoadTranscribeeArchive(file) = [media |-> MediaBytes(size), document |-> doc]
  <1> DEFINE start == Start(size)
             n == Len(doc)
             behind == RoundToNextBlock(start + Block + n)
             none == [media |-> Nothing, document |-> Nothing]
             second == [media |-> Nothing, document |-> doc]
             both == [media |-> MediaBytes(size), document |-> doc]
             With(rest, header, found) ==
               [name \in DOMAIN rest |->
                  IF rest[name] = Nothing /\ header.path = name THEN found ELSE rest[name]]
             Entry(From, offset) ==
               IF offset + Block >= Len(file) \/ file[offset + 1].kind # "header" THEN none
               ELSE LET header == file[offset + 1]
                        found == Bytes(file, offset + Block, header.size)
                        rest == From[RoundToNextBlock(offset + Block + header.size)]
                    IN  With(rest, header, found)
             Found(offset) == IF offset = 0 THEN both ELSE IF offset = start THEN second ELSE none
             Body(From) == [offset \in Offsets(file) |-> Entry(From, offset)]
             Witness == [offset \in Offsets(file) |-> Found(offset)]
  <1>1. /\ Block \in Nat /\ SizeLimit \in Nat /\ start \in Nat /\ Block + size <= start
    BY ArchiveAssumption, StartOfDocument
  <1>2. n \in Nat /\ behind \in Offsets(file) /\ behind \notin {0, start}
    BY NothingBehind
  <1>3. /\ TwoEntries(file, size, n) /\ doc \in Seq(Content) /\ file \in Seq(AnyCell)
        /\ start + Block + n <= Len(file)
        /\ \A i \in 1 .. n : file[start + Block + i] = doc[i]
        /\ \A i \in 1 .. size : file[Block + i] = Cell(0)
    BY DEF Holds, DocumentThere, TwoEntries, MediaThere
  <1>4. n > 0
    BY <1>3, EmptySeq
  <1>5. /\ Len(file) \in Nat /\ 0 \in Offsets(file) /\ start \in Offsets(file)
        /\ start # 0 /\ Block < Len(file) /\ start + Block <= Len(file)
        /\ file[0 + 1] = HeaderOf("media", size)
        /\ file[start + 1] = HeaderOf("document", n)
        /\ \A o \in Nat : o \notin {0, start} => o + Block > Len(file) \/ file[o + 1].kind # "header"
    BY <1>2, <1>3, EntriesAt
  <1>6. RoundToNextBlock(0 + Block + size) = start
    <2>1. 0 + Block + size = Block + size
      BY <1>1
    <2> QED BY <2>1 DEF Start
  <1>7. Bytes(file, 0 + Block, size) = MediaBytes(size)
    <2> DEFINE xs == MediaBytes(size)
    <2>1. xs \in Seq(Content) /\ Len(xs) = size /\ \A i \in 1 .. size : xs[i] = Cell(0)
      BY MediaAreContent
    <2> HIDE DEF xs
    <2>2. /\ Block + Len(xs) <= Len(file) /\ \A i \in 1 .. Len(xs) : file[Block + i] = xs[i]
      <3>1. Block + Len(xs) <= Len(file)
        BY <1>1, <1>5, <2>1
      <3>2. \A i \in 1 .. Len(xs) : file[Block + i] = xs[i]
        BY <1>3, <2>1
      <3> QED BY <3>1, <3>2
    <2>3. SubSeq(file, Block + 1, Block + Len(xs)) = xs
      BY <1>1, <1>3, <2>1, <2>2, PartOfFile
    <2>4. 0 + Block = Block /\ ~(Block + size > Len(file))
      BY <1>1, <1>5, <2>1, <2>2
    <2> QED BY <2>1, <2>3, <2>4 DEF Bytes, xs
  <1>8. Bytes(file, start + Block, n) = doc
    <2> DEFINE m == start + Block
    <2>1. /\ m \in Nat /\ m + n <= Len(file)
          /\ \A i \in 1 .. n : file[m + i] = doc[i]
      BY <1>1, <1>3
    <2> HIDE DEF m
    <2>2. SubSeq(file, m + 1, m + n) = doc
      BY <1>3, <2>1, PartOfFile
    <2>3. ~(m + n > Len(file))
      BY <1>2, <1>5, <2>1
    <2>4. Bytes(file, m, n) = doc
      BY <2>2, <2>3 DEF Bytes
    <2> QED BY <2>4 DEF m
  <1>9. doc # Nothing
    BY <1>3, ContentIsSomething
  <1> HIDE DEF start, n
  <1>10. ASSUME NEW From, From[start] = second PROVE Entry(From, 0) = both
    <2>1. /\ ~(0 + Block >= Len(file)) /\ file[0 + 1].kind = "header"
          /\ file[0 + 1].path = "media" /\ file[0 + 1].size = size
      BY <1>1, <1>5 DEF HeaderOf
    <2>2. Entry(From, 0) = With(second, file[0 + 1], MediaBytes(size))
      <3> HIDE DEF With, second
      <3> QED BY <1>6, <1>7, <1>10, <2>1
    <2>3. With(second, file[0 + 1], MediaBytes(size)) = both
      BY <1>9, <2>1
    <2> QED BY <2>2, <2>3
  <1>11. ASSUME NEW From, From[behind] = none PROVE Entry(From, start) = second
    <2>1. /\ ~(start + Block >= Len(file)) /\ file[start + 1].kind = "header"
          /\ file[start + 1].path = "document" /\ file[start + 1].size = n
      BY <1>1, <1>2, <1>3, <1>4, <1>5 DEF HeaderOf
    <2>2. Entry(From, start) = With(none, file[start + 1], doc)
      <3> HIDE DEF With, none
      <3> QED BY <1>8, <1>11, <2>1
    <2>3. With(none, file[start + 1], doc) = second
      BY <2>1
    <2> QED BY <2>2, <2>3
  <1> HIDE DEF behind
  <1>12. ASSUME NEW From, NEW o \in Offsets(file), o \notin {0, start}
         PROVE  Entry(From, o) = none
    <2>1. o \in Nat
      BY <1>1, <1>5 DEF Offsets
    <2>2. o + Block >= Len(file) \/ file[o + 1].kind # "header"
      BY <1>1, <1>5, <1>12, <2>1
    <2> HIDE DEF With, none
    <2> QED BY <2>2
  <1> HIDE DEF Entry, none, second, both
  <1>13. Witness[behind] = none /\ Witness[start] = second
    BY <1>2, <1>5
  <1>14. \A o \in Offsets(file) : Entry(Witness, o) = Found(o)
    <2> HIDE DEF Witness
    <2> QED BY <1>5, <1>10, <1>11, <1>12, <1>13
  <1>15. Body(Witness) = Witness
    <2> DEFINE w == Witness
    <2>1. \A o \in Offsets(file) : Entry(w, o) = Found(o)
      BY <1>14
    <2>2. w = [o \in Offsets(file) |-> Found(o)]
      OBVIOUS
    <2> HIDE DEF w, Found
    <2>3. Body(w) = w
      BY <2>1, <2>2
    <2> QED BY <2>3 DEF w
  <1> DEFINE From == CHOOSE g : g = Body(g)
  <1>16. LoadTranscribeeArchive(file) = From[0]
    BY DEF LoadTranscribeeArchive, Offsets, Entry, none
  <1> HIDE DEF Witness
  <1>17. From = Body(From)
    <2> HIDE DEF Body
    <2> QED BY <1>15
  <1> HIDE DEF From
  <1>18. \A o \in Offsets(file) : From[o] = Entry(From, o)
    BY <1>17
  <1>19. From[behind] = none
    BY <1>2, <1>12, <1>18
  <1>20. From[start] = second
    BY <1>5, <1>11, <1>18, <1>19
  <1>21. From[0] = both
    BY <1>5, <1>10, <1>18, <1>20
  <1> QED BY <1>16, <1>21 DEF both

-----------------------------------------------------------------------------
(* An archive written at once                                              *)

\* What is no header is content.
LEMMA ContentIsAnyCell ==
  /\ Seq(Content) \subseteq Seq(AnyCell) /\ Zero \in Content /\ \A x \in Nat : Cell(x) \in Content
  /\ \A c \in Content : c.kind # "header"
  /\ \A c \in AnyCell : c.kind # "header" => c \in Content
  <1>1. Content \subseteq AnyCell
    BY DEF Content, AnyCell
  <1>2. \A doc \in Seq(Content) : doc \in Seq(AnyCell)
    BY <1>1, SeqMonotonic
  <1>3. Zero \in Content /\ \A x \in Nat : Cell(x) \in Content
    BY DEF Zero, Cell, Content
  <1>4. \A c \in Content : c.kind # "header"
    BY DEF Content
  <1>5. \A c \in AnyCell : c.kind # "header" => c \in Content
    BY DEF AnyCell, Content
  <1> QED BY <1>2, <1>3, <1>4, <1>5

\* Padding adds no header and leaves what is before it.
LEMMA PaddedContent ==
  ASSUME NEW xs \in Seq(Content)
  PROVE  /\ Padded(xs) \in Seq(Content) /\ Len(Padded(xs)) = RoundToNextBlock(Len(xs))
         /\ Len(xs) <= Len(Padded(xs))
         /\ \A i \in 1 .. Len(xs) : Padded(xs)[i] = xs[i]
  <1> DEFINE k == RoundToNextBlock(Len(xs)) - Len(xs)
             rest == Zeros(k)
  <1>1. Len(xs) \in Nat
    BY LenProperties
  <1>2. k \in Nat /\ RoundToNextBlock(Len(xs)) = Len(xs) + k
    <2> DEFINE x == Len(xs)
    <2> HIDE DEF x
    <2>1. x \in Nat => RoundToNextBlock(x) \in Nat /\ x <= RoundToNextBlock(x)
      BY RoundedUp
    <2>2. x \in Nat => RoundToNextBlock(x) - x \in Nat /\ RoundToNextBlock(x) = x + (RoundToNextBlock(x) - x)
      BY <2>1
    <2> QED BY <1>1, <2>2 DEF x
  <1> HIDE DEF k
  <1>3. rest \in Seq(Content) /\ Len(rest) = k
    <2>1. rest \in [1 .. k -> Content]
      BY ContentIsAnyCell DEF Zeros
    <2> QED BY <1>2, <2>1
  <1>4. Padded(xs) = xs \o rest
    BY DEF Padded, k
  <1> HIDE DEF rest
  <1>5. /\ xs \o rest \in Seq(Content) /\ Len(xs \o rest) = Len(xs) + k
        /\ \A i \in 1 .. Len(xs) + k :
             (xs \o rest)[i] = IF i <= Len(xs) THEN xs[i] ELSE rest[i - Len(xs)]
    <2>1. rest \in Seq(Content)
      BY <1>3
    <2> QED BY <1>3, <2>1, ConcatProperties
  <1> DEFINE padded == Padded(xs)
  <1>6. padded = xs \o rest
    BY <1>4
  <1> HIDE DEF padded
  <1>7. \A i \in 1 .. Len(xs) : padded[i] = xs[i]
    BY <1>1, <1>2, <1>5, <1>6
  <1>8. padded \in Seq(Content) /\ Len(padded) = RoundToNextBlock(Len(xs)) /\ Len(xs) <= Len(padded)
    BY <1>1, <1>2, <1>5, <1>6
  <1> QED BY <1>7, <1>8 DEF padded

\* Headers need no padding.
LEMMA PaddedHeader ==
  ASSUME NEW path \in {"media", "document"}, NEW n \in Nat
  PROVE  Padded(TarHeader(path, n)) = TarHeader(path, n)
  <1> DEFINE cells == TarHeader(path, n)
  <1>1. cells \in Seq(AnyCell) /\ Len(cells) = Block
    BY EntryHeader
  <1> HIDE DEF cells
  <1>2. Block - Block = 0 /\ RoundToNextBlock(Block) = Block
    BY ArchiveAssumption, BlockIsRound
  <1>3. Zeros(0) = <<>>
    BY DEF Zeros
  <1>4. Padded(cells) = cells \o <<>>
    BY <1>1, <1>2, <1>3 DEF Padded
  <1>5. cells \o <<>> = cells
    BY <1>1, ConcatEmptySeq
  <1> QED BY <1>4, <1>5 DEF cells

\* Three and four sequences, put together.
LEMMA ThreeTogether ==
  ASSUME NEW xs, Len(xs) = 3
  PROVE  FlattenSeq(xs) = (xs[1] \o xs[2]) \o xs[3]
  <1> DEFINE n == 3
             a == xs[1]
             b == xs[2]
             c == xs[3]
             witness == <<a, a \o b, (a \o b) \o c>>
  <1>1. xs[1] = a /\ xs[2] = b /\ xs[3] = c
    OBVIOUS
  <1> HIDE DEF a, b, c
  <1>2. /\ witness = [i \in 1 .. 3 |-> witness[i]]
        /\ witness[1] = a /\ witness[2] = a \o b /\ witness[3] = (a \o b) \o c
    OBVIOUS
  <1>0. n \in Nat /\ n > 0 /\ Len(xs) = n /\ n = 3 /\ witness = [i \in 1 .. n |-> witness[i]]
    BY <1>2
  <1> HIDE DEF n, witness
  <1>3. Chained(witness, xs, n)
    <2>1. ASSUME NEW i \in 1 .. n, NEW j \in 1 .. n, j = i + 1
          PROVE  witness[j] = witness[i] \o xs[j]
      <3>1. (i = 1 /\ j = 2) \/ (i = 2 /\ j = 3)
        BY <1>0, <2>1
      <3> QED BY <1>1, <1>2, <3>1
    <2> QED BY <1>0, <1>1, <1>2, <2>1, ChainOfParts
  <1>4. PICK parts : Chained(parts, xs, n) /\ FlattenSeq(xs) = parts[n]
    BY <1>0, <1>3, Flattened
  <1>5. parts[1] = xs[1]
    BY <1>0, <1>4, FirstOfChain
  <1>6. parts[2] = parts[1] \o xs[2] /\ parts[3] = parts[2] \o xs[3]
    <2>1. n \in Nat /\ n > 0 /\ Chained(parts, xs, n)
      BY <1>0, <1>4
    <2>2. parts[2] = parts[1] \o xs[2]
      <3>1. 1 \in 1 .. n /\ 2 \in 1 .. n /\ 2 = 1 + 1
        BY <1>0
      <3> QED BY <2>1, <3>1, NextOfChain
    <2>3. parts[3] = parts[2] \o xs[3]
      <3>1. 2 \in 1 .. n /\ 3 \in 1 .. n /\ 3 = 2 + 1
        BY <1>0
      <3> QED BY <2>1, <3>1, NextOfChain
    <2> QED BY <2>2, <2>3
  <1>7. parts[3] = (a \o b) \o c
    BY <1>1, <1>5, <1>6
  <1> QED BY <1>0, <1>4, <1>7 DEF a, b, c

LEMMA FourTogether ==
  ASSUME NEW xs, Len(xs) = 4
  PROVE  FlattenSeq(xs) = ((xs[1] \o xs[2]) \o xs[3]) \o xs[4]
  <1> DEFINE n == 4
             a == xs[1]
             b == xs[2]
             c == xs[3]
             d == xs[4]
             witness == <<a, a \o b, (a \o b) \o c, ((a \o b) \o c) \o d>>
  <1>1. xs[1] = a /\ xs[2] = b /\ xs[3] = c /\ xs[4] = d
    OBVIOUS
  <1> HIDE DEF a, b, c, d
  <1>2. /\ witness = [i \in 1 .. 4 |-> witness[i]]
        /\ witness[1] = a /\ witness[2] = a \o b /\ witness[3] = (a \o b) \o c
        /\ witness[4] = ((a \o b) \o c) \o d
    OBVIOUS
  <1>0. n \in Nat /\ n > 0 /\ Len(xs) = n /\ n = 4 /\ witness = [i \in 1 .. n |-> witness[i]]
    BY <1>2
  <1> HIDE DEF n, witness
  <1>3. Chained(witness, xs, n)
    <2>1. ASSUME NEW i \in 1 .. n, NEW j \in 1 .. n, j = i + 1
          PROVE  witness[j] = witness[i] \o xs[j]
      <3>1. (i = 1 /\ j = 2) \/ (i = 2 /\ j = 3) \/ (i = 3 /\ j = 4)
        BY <1>0, <2>1
      <3> QED BY <1>1, <1>2, <3>1
    <2> QED BY <1>0, <1>1, <1>2, <2>1, ChainOfParts
  <1>4. PICK parts : Chained(parts, xs, n) /\ FlattenSeq(xs) = parts[n]
    BY <1>0, <1>3, Flattened
  <1>5. parts[1] = xs[1]
    BY <1>0, <1>4, FirstOfChain
  <1>6. parts[2] = parts[1] \o xs[2] /\ parts[3] = parts[2] \o xs[3] /\ parts[4] = parts[3] \o xs[4]
    <2>1. n \in Nat /\ n > 0 /\ Chained(parts, xs, n)
      BY <1>0, <1>4
    <2>2. parts[2] = parts[1] \o xs[2]
      <3>1. 1 \in 1 .. n /\ 2 \in 1 .. n /\ 2 = 1 + 1
        BY <1>0
      <3> QED BY <2>1, <3>1, NextOfChain
    <2>3. parts[3] = parts[2] \o xs[3]
      <3>1. 2 \in 1 .. n /\ 3 \in 1 .. n /\ 3 = 2 + 1
        BY <1>0
      <3> QED BY <2>1, <3>1, NextOfChain
    <2>4. parts[4] = parts[3] \o xs[4]
      <3>1. 3 \in 1 .. n /\ 4 \in 1 .. n /\ 4 = 3 + 1
        BY <1>0
      <3> QED BY <2>1, <3>1, NextOfChain
    <2> QED BY <2>2, <2>3, <2>4
  <1>7. parts[4] = ((a \o b) \o c) \o d
    BY <1>1, <1>5, <1>6
  <1> QED BY <1>0, <1>4, <1>7 DEF a, b, c, d

\* What the exports of application and web page write.
LEMMA ArchiveHolds ==
  ASSUME NEW size \in Nat, NEW doc \in Seq(Content), NEW rest \in Seq(Content),
         Len(doc) <= Len(rest), \A i \in 1 .. Len(doc) : rest[i] = doc[i]
  PROVE  Holds(((TarHeader("media", size) \o Padded(MediaBytes(size)))
                  \o TarHeader("document", Len(doc))) \o rest, size, doc)
  <1> DEFINE a == TarHeader("media", size)
             b == Padded(MediaBytes(size))
             c == TarHeader("document", Len(doc))
             n == Len(doc)
             R == RoundToNextBlock(size)
             start == Start(size)
  <1>1. /\ Block \in Nat \ {0, 1} /\ R \in Nat /\ start = Block + R /\ size <= R
        /\ n \in Nat /\ Len(rest) \in Nat
    BY ArchiveAssumption, StartOfDocument, LenProperties
  <1>2. /\ a \in Seq(AnyCell) /\ Len(a) = Block /\ a[1] = HeaderOf("media", size)
        /\ \A i \in 2 .. Block : a[i] = Zero
    BY EntryHeader
  <1>3. /\ c \in Seq(AnyCell) /\ Len(c) = Block /\ c[1] = HeaderOf("document", n)
        /\ \A i \in 2 .. Block : c[i] = Zero
    BY <1>1, EntryHeader
  <1>4. /\ b \in Seq(Content) /\ Len(b) = R /\ \A i \in 1 .. size : b[i] = Cell(0)
    <2> DEFINE xs == MediaBytes(size)
    <2>1. xs \in Seq(Content) /\ Len(xs) = size /\ \A i \in 1 .. size : xs[i] = Cell(0)
      BY MediaAreContent
    <2> HIDE DEF xs
    <2>2. /\ Padded(xs) \in Seq(Content) /\ Len(Padded(xs)) = RoundToNextBlock(Len(xs))
          /\ \A i \in 1 .. Len(xs) : Padded(xs)[i] = xs[i]
      BY <2>1, PaddedContent
    <2> QED BY <2>1, <2>2 DEF xs
  <1>5. b \in Seq(AnyCell) /\ rest \in Seq(AnyCell)
    BY <1>4, ContentIsAnyCell
  <1> HIDE DEF a, b, c, n, R, start
  <1> DEFINE ab == a \o b
  <1>6. /\ ab \in Seq(AnyCell) /\ Len(ab) = Block + R
        /\ \A i \in 1 .. Block + R : ab[i] = IF i <= Block THEN a[i] ELSE b[i - Block]
    <2>1. /\ ab \in Seq(AnyCell) /\ Len(ab) = Len(a) + Len(b)
          /\ \A i \in 1 .. Len(a) + Len(b) : ab[i] = IF i <= Len(a) THEN a[i] ELSE b[i - Len(a)]
      <3>1. a \in Seq(AnyCell) /\ b \in Seq(AnyCell)
        BY <1>2, <1>5
      <3> QED BY <3>1, ConcatProperties
    <2> QED BY <1>2, <1>4, <2>1
  <1> HIDE DEF ab
  <1> DEFINE abc == ab \o c
  <1>7. /\ abc \in Seq(AnyCell) /\ Len(abc) = start + Block
        /\ \A i \in 1 .. start + Block : abc[i] = IF i <= start THEN ab[i] ELSE c[i - start]
    <2>1. /\ abc \in Seq(AnyCell) /\ Len(abc) = Len(ab) + Len(c)
          /\ \A i \in 1 .. Len(ab) + Len(c) : abc[i] = IF i <= Len(ab) THEN ab[i] ELSE c[i - Len(ab)]
      <3>1. ab \in Seq(AnyCell) /\ c \in Seq(AnyCell)
        BY <1>3, <1>6
      <3> QED BY <3>1, ConcatProperties
    <2>2. Len(ab) = start /\ Len(c) = Block
      BY <1>1, <1>3, <1>6
    <2> QED BY <2>1, <2>2
  <1> HIDE DEF abc
  <1> DEFINE file == abc \o rest
             m == start + Block
  <1>8. m \in Nat /\ m = start + Block /\ start \in Nat
    BY <1>1
  <1>9. Len(abc) = m
    BY <1>7
  <1>10. \A i \in 1 .. m : abc[i] = IF i <= start THEN ab[i] ELSE c[i - start]
    BY <1>7
  <1> HIDE DEF m
  <1>11. /\ file \in Seq(AnyCell) /\ Len(file) = m + Len(rest)
         /\ \A i \in 1 .. m + Len(rest) : file[i] = IF i <= m THEN abc[i] ELSE rest[i - m]
    <2>1. /\ file \in Seq(AnyCell) /\ Len(file) = Len(abc) + Len(rest)
          /\ \A i \in 1 .. Len(abc) + Len(rest) :
               file[i] = IF i <= Len(abc) THEN abc[i] ELSE rest[i - Len(abc)]
      <3>1. abc \in Seq(AnyCell) /\ rest \in Seq(AnyCell)
        BY <1>5, <1>7
      <3> QED BY <3>1, ConcatProperties
    <2> QED BY <1>9, <2>1
  <1> HIDE DEF file
  <1>12. \A i \in 1 .. Block : file[i] = a[i]
    <2> TAKE i \in 1 .. Block
    <2>1. i \in 1 .. Block + R /\ i \in 1 .. m /\ i \in 1 .. m + Len(rest) /\ i <= start /\ i <= m /\ i <= Block
      BY <1>1, <1>8
    <2>2. file[i] = abc[i] /\ abc[i] = ab[i] /\ ab[i] = a[i]
      BY <1>6, <1>10, <1>11, <2>1
    <2> QED BY <2>2
  <1>13. \A i \in Block + 1 .. start : file[i] = b[i - Block]
    <2> TAKE i \in Block + 1 .. start
    <2>1. i \in 1 .. Block + R /\ i \in 1 .. m /\ i \in 1 .. m + Len(rest) /\ i <= start /\ i <= m /\ ~(i <= Block)
      BY <1>1, <1>8
    <2>2. file[i] = abc[i] /\ abc[i] = ab[i] /\ ab[i] = b[i - Block]
      BY <1>6, <1>10, <1>11, <2>1
    <2> QED BY <2>2
  <1>14. \A i \in start + 1 .. m : file[i] = c[i - start]
    <2> TAKE i \in start + 1 .. m
    <2>1. i \in 1 .. m /\ i \in 1 .. m + Len(rest) /\ ~(i <= start) /\ i <= m
      BY <1>1, <1>8
    <2>2. file[i] = abc[i] /\ abc[i] = c[i - start]
      BY <1>10, <1>11, <2>1
    <2> QED BY <2>2
  <1>15. \A i \in m + 1 .. Len(file) : file[i] = rest[i - m]
    <2> TAKE i \in m + 1 .. Len(file)
    <2>1. i \in 1 .. m + Len(rest) /\ ~(i <= m)
      BY <1>1, <1>8, <1>11
    <2> QED BY <1>11, <2>1
  <1>16. file[1] = HeaderOf("media", size)
    <2>1. 1 \in 1 .. Block
      BY <1>1
    <2> QED BY <1>2, <1>12, <2>1
  <1>17. file[start + 1] = HeaderOf("document", n)
    <2> DEFINE i == start + 1
    <2>1. i \in start + 1 .. m
      BY <1>1, <1>8
    <2>2. i \in start + 1 .. m /\ i - start = 1
      BY <1>8, <2>1
    <2> HIDE DEF i
    <2>3. file[i] = c[1]
      BY <1>14, <2>2
    <2> QED BY <1>3, <2>3 DEF i
  <1>18. ASSUME NEW i \in 2 .. Len(file), i # start + 1 PROVE file[i].kind # "header"
    <2>1. Zero.kind # "header"
      BY DEF Zero
    <2>2. CASE i \in 1 .. Block
      <3>1. i \in 2 .. Block
        BY <2>2
      <3> QED BY <1>2, <1>12, <2>1, <2>2, <3>1
    <2>3. CASE i \in Block + 1 .. start
      <3>1. i - Block \in 1 .. Len(b)
        BY <1>1, <1>4, <2>3
      <3>2. b[i - Block] \in Content
        BY <1>4, <3>1, ElementOfSeq
      <3> QED BY <1>13, <2>3, <3>2, ContentIsAnyCell
    <2>4. CASE i \in start + 1 .. m
      <3>1. i - start \in 2 .. Block
        BY <1>1, <1>8, <1>18, <2>4
      <3> QED BY <1>3, <1>14, <2>1, <2>4, <3>1
    <2>5. CASE i \in m + 1 .. Len(file)
      <3>1. i - m \in 1 .. Len(rest)
        BY <1>1, <1>8, <1>11, <2>5
      <3>2. rest[i - m] \in Content
        BY <3>1, ElementOfSeq
      <3> QED BY <1>15, <2>5, <3>2, ContentIsAnyCell
    <2>6. i \in 1 .. Block \/ i \in Block + 1 .. start \/ i \in start + 1 .. m \/ i \in m + 1 .. Len(file)
      BY <1>1, <1>8, <1>11
    <2> QED BY <2>2, <2>3, <2>4, <2>5, <2>6
  <1>19. MediaThere(file, size)
    <2> SUFFICES ASSUME NEW i \in 1 .. size PROVE file[Block + i] = Cell(0)
      BY DEF MediaThere
    <2> DEFINE j == Block + i
    <2>1. j \in Block + 1 .. start /\ j - Block = i
      BY <1>1
    <2> HIDE DEF j
    <2>2. file[j] = b[i]
      BY <1>13, <2>1
    <2> QED BY <1>4, <2>2 DEF j
  <1>20. DocumentThere(file, size, doc)
    <2>1. ASSUME NEW i \in 1 .. n PROVE file[m + i] = doc[i]
      <3> DEFINE j == m + i
      <3>1. j \in m + 1 .. Len(file) /\ j - m = i
        BY <1>1, <1>8, <1>11 DEF n
      <3> HIDE DEF j
      <3>2. file[j] = rest[i]
        BY <1>15, <3>1
      <3> QED BY <2>1, <3>2 DEF j, n
    <2>2. m + n <= Len(file)
      BY <1>1, <1>8, <1>11 DEF n
    <2> QED BY <2>1, <2>2 DEF DocumentThere, m, n, start
  <1>21. start + Block <= Len(file)
    BY <1>1, <1>8, <1>11
  <1>22. TwoEntries(file, size, n)
    BY <1>11, <1>16, <1>17, <1>18, <1>19, <1>21 DEF TwoEntries, start
  <1>23. Holds(file, size, doc)
    BY <1>20, <1>22 DEF Holds, n
  <1> QED BY <1>23 DEF file, abc, ab, a, b, c, n

\* What concat_arrays makes of a header, media and another header.
LEMMA PaddedHeaders ==
  ASSUME NEW size \in Nat, NEW n \in Nat
  PROVE  ConcatArrays(<<TarHeader("media", size), MediaBytes(size), TarHeader("document", n)>>) =
           (TarHeader("media", size) \o Padded(MediaBytes(size))) \o TarHeader("document", n)
  <1> DEFINE a == TarHeader("media", size)
             b == MediaBytes(size)
             c == TarHeader("document", n)
             arrays == <<a, b, c>>
             padded == [i \in DOMAIN arrays |-> Padded(arrays[i])]
  <1>1. Padded(a) = a /\ Padded(c) = c
    BY PaddedHeader
  <1> HIDE DEF a, b, c
  <1>2. padded = <<Padded(a), Padded(b), Padded(c)>>
    OBVIOUS
  <1>3. ConcatArrays(arrays) = FlattenSeq(padded)
    BY DEF ConcatArrays
  <1> HIDE DEF padded, arrays
  <1>4. FlattenSeq(padded) = (Padded(a) \o Padded(b)) \o Padded(c)
    <2>1. Len(padded) = 3 /\ padded[1] = Padded(a) /\ padded[2] = Padded(b) /\ padded[3] = Padded(c)
      BY <1>2
    <2>2. FlattenSeq(padded) = (padded[1] \o padded[2]) \o padded[3]
      BY <2>1, ThreeTogether
    <2> QED BY <2>1, <2>2
  <1>5. ConcatArrays(arrays) = (a \o Padded(b)) \o c
    BY <1>1, <1>3, <1>4
  <1> QED BY <1>5 DEF arrays, a, b, c

\* An archive that was saved from elsewhere.
LEMMA SavedHolds ==
  ASSUME media.size \in Nat, NEW doc \in Seq(Content)
  PROVE  Holds(Saved(doc), media.size, doc)
  <1>1. Len(doc) \in Nat
    BY LenProperties
  <1>2. Saved(doc) = ((TarHeader("media", media.size) \o Padded(MediaBytes(media.size)))
                        \o TarHeader("document", Len(doc))) \o doc
    BY <1>1, PaddedHeaders DEF Saved
  <1> DEFINE size == media.size
  <1>3. Holds(((TarHeader("media", size) \o Padded(MediaBytes(size)))
                 \o TarHeader("document", Len(doc))) \o doc, size, doc)
    <2>1. size \in Nat /\ Len(doc) <= Len(doc)
      BY <1>1
    <2> HIDE DEF size
    <2> QED BY <2>1, ArchiveHolds
  <1> QED BY <1>2, <1>3

\* An archive exported from the web page.
LEMMA ExportHolds ==
  ASSUME NEW size \in Nat, NEW doc \in Seq(Content)
  PROVE  Holds(ConcatArrays(<<TarHeader("media", size), MediaBytes(size),
                              TarHeader("document", Len(doc)), doc>>), size, doc)
  <1> DEFINE a == TarHeader("media", size)
             b == MediaBytes(size)
             c == TarHeader("document", Len(doc))
             arrays == <<a, b, c, doc>>
             padded == [i \in DOMAIN arrays |-> Padded(arrays[i])]
  <1>1. Padded(a) = a /\ Padded(c) = c
    BY PaddedHeader, LenProperties
  <1>2. Holds(((a \o Padded(b)) \o c) \o Padded(doc), size, doc)
    <2>1. /\ Padded(doc) \in Seq(Content) /\ Len(doc) <= Len(Padded(doc))
          /\ \A i \in 1 .. Len(doc) : Padded(doc)[i] = doc[i]
      BY PaddedContent
    <2> DEFINE rest == Padded(doc)
    <2>2. /\ rest \in Seq(Content) /\ Len(doc) <= Len(rest)
          /\ \A i \in 1 .. Len(doc) : rest[i] = doc[i]
      BY <2>1
    <2> HIDE DEF rest
    <2>3. Holds(((a \o Padded(b)) \o c) \o rest, size, doc)
      BY <2>2, ArchiveHolds
    <2> QED BY <2>3 DEF rest
  <1> HIDE DEF a, b, c
  <1>3. padded = <<Padded(a), Padded(b), Padded(c), Padded(doc)>>
    OBVIOUS
  <1>4. ConcatArrays(arrays) = FlattenSeq(padded)
    BY DEF ConcatArrays
  <1> HIDE DEF padded, arrays
  <1>5. FlattenSeq(padded) = ((Padded(a) \o Padded(b)) \o Padded(c)) \o Padded(doc)
    <2>1. /\ Len(padded) = 4 /\ padded[1] = Padded(a) /\ padded[2] = Padded(b)
          /\ padded[3] = Padded(c) /\ padded[4] = Padded(doc)
      BY <1>3
    <2>2. FlattenSeq(padded) = ((padded[1] \o padded[2]) \o padded[3]) \o padded[4]
      BY <2>1, FourTogether
    <2> QED BY <2>1, <2>2
  <1>6. ConcatArrays(arrays) = ((a \o Padded(b)) \o c) \o Padded(doc)
    BY <1>1, <1>4, <1>5
  <1>7. Holds(ConcatArrays(arrays), size, doc)
    BY <1>2, <1>6
  <1> QED BY <1>7 DEF arrays, a, b, c

\* Nothing is found in what is not there.
LEMMA NothingInEmpty == Document(<<>>) = Nothing
  <1> DEFINE file == <<>>
             Entry(From, offset) ==
               IF offset + Block > Len(file) \/ file[offset + 1].kind # "header" THEN NoRange
               ELSE LET header == file[offset + 1]
                        begin == offset + Block
                    IN  IF header.path = "document"
                        THEN [start |-> begin, end |-> begin + header.size]
                        ELSE From[RoundToNextBlock(begin + header.size)]
             Body(From) == [offset \in Offsets(file) |-> Entry(From, offset)]
             Witness == [offset \in Offsets(file) |-> NoRange]
             From == CHOOSE g : g = Body(g)
  <1>1. Block \in Nat \ {0, 1} /\ SizeLimit \in Nat /\ Len(file) = 0
    BY ArchiveAssumption
  <1>2. ByteRange(file, "document") = From[0]
    BY DEF ByteRange, Offsets
  <1> HIDE DEF file
  <1>3. 0 \in Offsets(file)
    BY <1>1 DEF Offsets
  <1>4. ASSUME NEW From1, NEW o \in Offsets(file) PROVE Entry(From1, o) = NoRange
    <2>1. o + Block > Len(file)
      BY <1>1 DEF Offsets
    <2> QED BY <2>1
  <1> HIDE DEF Entry
  <1>5. \A g : Body(g) = Witness
    <2> TAKE g
    <2>1. \A o \in Offsets(file) : Entry(g, o) = NoRange
      BY <1>4
    <2> QED BY <2>1
  <1>6. Witness[0] = NoRange
    BY <1>3
  <1> HIDE DEF Witness, Body
  <1>7. From = Body(From)
    BY <1>5
  <1> HIDE DEF From
  <1>8. From[0] = NoRange
    BY <1>5, <1>6, <1>7
  <1>9. Document(file) = Nothing
    BY <1>2, <1>8 DEF Document, BytesOfFile
  <1> QED BY <1>9 DEF file

\* What is read behind the headers is content.
LEMMA PartIsContent ==
  ASSUME NEW file \in Seq(AnyCell), NEW m \in Nat, NEW n \in Nat, m + n <= Len(file),
         \A i \in m + 1 .. m + n : file[i].kind # "header"
  PROVE  LET doc == SubSeq(file, m + 1, m + n) IN
         doc \in Seq(Content) /\ Len(doc) = n /\ \A i \in 1 .. n : file[m + i] = doc[i]
  <1> DEFINE a == m + 1
             b == m + n
             doc == SubSeq(file, a, b)
  <1>1. Len(file) \in Nat
    BY LenProperties
  <1>2. a \in Int /\ b \in Int /\ b - a + 1 = n /\ \A i \in 1 .. n : a + i - 1 = m + i
    <2>1. a \in Int /\ b \in Int /\ b - a + 1 = n
      OBVIOUS
    <2>2. \A i \in 1 .. n : a + i - 1 = m + i
      OBVIOUS
    <2> QED BY <2>1, <2>2
  <1>3. (IF a <= b THEN b - a + 1 ELSE 0) = n
    BY <1>2
  <1>4. \A i \in a .. b : file[i] \in Content
    <2> TAKE i \in a .. b
    <2>1. i \in 1 .. Len(file) /\ i \in m + 1 .. m + n
      BY <1>1
    <2>2. file[i] \in AnyCell
      BY <2>1, ElementOfSeq
    <2>3. file[i].kind # "header"
      BY <2>1
    <2> QED BY <2>2, <2>3, ContentIsAnyCell
  <1>5. /\ doc \in Seq(Content)
        /\ Len(doc) = IF a <= b THEN b - a + 1 ELSE 0
        /\ \A i \in 1 .. b - a + 1 : doc[i] = file[a + i - 1]
    <2> HIDE DEF a, b
    <2> QED BY <1>2, <1>4, SubSeqProperties
  <1>6. \A i \in 1 .. n : doc[i] = file[m + i]
    <2> TAKE i \in 1 .. n
    <2>1. i \in 1 .. b - a + 1 /\ a + i - 1 = m + i
      BY <1>2
    <2> HIDE DEF a, b, doc
    <2> QED BY <1>5, <2>1
  <1> HIDE DEF a, b
  <1>7. doc \in Seq(Content) /\ Len(doc) = n
    BY <1>3, <1>5
  <1>8. \A i \in 1 .. n : file[m + i] = doc[i]
    BY <1>6
  <1> HIDE DEF doc
  <1>9. doc \in Seq(Content) /\ Len(doc) = n /\ \A i \in 1 .. n : file[m + i] = doc[i]
    BY <1>7, <1>8
  <1> QED BY <1>9 DEF doc, a, b

\* Whatever is at the path, what is read there as a document is there.
LEMMA SavedIsRead ==
  ASSUME media.size \in Nat, Shape(saved, media.size), Document(saved) # Nothing
  PROVE  Holds(saved, media.size, Document(saved))
  <1> DEFINE size == media.size
             file == saved
  <1>0. size \in Nat
    OBVIOUS
  <1>1. CASE saved = <<>>
    BY <1>1, NothingInEmpty
  <1>2. CASE MediaOnly(saved, media.size)
    <2>1. ByteRange(saved, "document") = NoRange
      <3>1. MediaOnly(file, size)
        BY <1>2
      <3> HIDE DEF size, file
      <3>2. ByteRange(file, "document") = NoRange
        BY <1>0, <3>1, NoDocumentFound
      <3> QED BY <3>2 DEF file
    <2> QED BY <2>1 DEF Document, BytesOfFile
  <1>3. ASSUME NEW n \in Nat, TwoEntries(file, size, n) PROVE Holds(file, size, Document(file))
    <2>1. Document(file) # Nothing
      OBVIOUS
    <2> HIDE DEF file, size
    <2> DEFINE m == Start(size) + Block
               range == [start |-> m, end |-> m + n]
               doc == SubSeq(file, m + 1, m + n)
    <2>2. Block \in Nat \ {0, 1} /\ Start(size) \in Nat /\ m \in Nat
      BY <1>0, ArchiveAssumption, StartOfDocument
    <2>3. ByteRange(file, "document") = range
      BY <1>0, <1>3, DocumentIsFound
    <2>4. /\ file \in Seq(AnyCell) /\ Len(file) \in Nat
          /\ \A i \in 2 .. Len(file) : i # Start(size) + 1 => file[i].kind # "header"
      BY <1>3, LenProperties DEF TwoEntries
    <2>5. range # NoRange /\ range.start = m /\ range.end = m + n
      BY <2>2 DEF NoRange
    <2> HIDE DEF range
    <2>6. ~(m + n > Len(file)) /\ Document(file) = doc
      BY <2>1, <2>3, <2>5 DEF Document, BytesOfFile
    <2>7. m + n <= Len(file)
      BY <2>2, <2>4, <2>6
    <2>8. \A i \in m + 1 .. m + n : file[i].kind # "header"
      <3> TAKE i \in m + 1 .. m + n
      <3>1. i \in Nat /\ i > m /\ i <= Len(file)
        BY <2>2, <2>4, <2>7
      <3>2. m > Start(size) + 1 /\ m > 1
        BY <2>2
      <3>3. i \in 2 .. Len(file) /\ i # Start(size) + 1
        BY <2>2, <2>4, <3>1, <3>2
      <3> QED BY <2>4, <3>3
    <2> HIDE DEF m
    <2>9. doc \in Seq(Content) /\ Len(doc) = n /\ \A i \in 1 .. n : file[m + i] = doc[i]
      BY <2>2, <2>4, <2>7, <2>8, PartIsContent
    <2> HIDE DEF doc
    <2>10. DocumentThere(file, size, doc)
      BY <2>7, <2>9 DEF DocumentThere, m
    <2> QED BY <1>3, <2>6, <2>9, <2>10 DEF Holds
  <1> QED BY <1>1, <1>2, <1>3 DEF Shape

-----------------------------------------------------------------------------
(* The working copy, whoever appends to it                                 *)

\* What is written keeps the header of the document in its place.
LEMMA StartIsKept ==
  ASSUME NEW file, StartsWithDocument(file), NEW write \in DocumentWrite
  PROVE  StartsWithDocument(Written(file, write))
  <1> DEFINE offset == write.offset
             cells == write.cells
             new == Written(file, write)
  <1>1. Block \in Nat \ {0, 1}
    BY ArchiveAssumption
  <1>2. /\ offset \in Nat /\ cells \in Seq(AnyCell) /\ write = [offset |-> offset, cells |-> cells]
        /\ \/ offset >= Block /\ cells \in Seq(Content)
           \/ offset = 0 /\ \E n \in Nat : cells = TarHeader("document", n)
    BY DEF DocumentWrite
  <1> HIDE DEF offset, cells
  <1>3. /\ file \in Seq(AnyCell) /\ Len(file) \in Nat /\ Block <= Len(file)
        /\ \A i \in 2 .. Len(file) : file[i].kind # "header"
    BY LenProperties DEF StartsWithDocument
  <1>4. PICK k \in Nat : file[1] = HeaderOf("document", k)
    BY DEF StartsWithDocument
  <1>5. Patched(new, file, offset, cells)
    <2>1. new = Written(file, [offset |-> offset, cells |-> cells])
      BY <1>2
    <2>2. Patched(Written(file, [offset |-> offset, cells |-> cells]), file, offset, cells)
      BY <1>2, <1>3, WriteInPlace
    <2> QED BY <2>1, <2>2
  <1> HIDE DEF new
  <1>6. Len(cells) \in Nat
    BY <1>2, LenProperties
  <1>7. /\ new \in Seq(AnyCell) /\ Len(new) \in Nat /\ Len(file) <= Len(new) /\ Block <= Len(new)
    BY <1>1, <1>3, <1>5 DEF Patched
  <1>8. /\ \A i \in offset + 1 .. offset + Len(cells) : new[i] = cells[i - offset]
        /\ \A i \in 1 .. Len(new) : i \notin offset + 1 .. offset + Len(cells) =>
             new[i] = IF i <= Len(file) THEN file[i] ELSE Zero
    BY <1>5 DEF Patched
  <1>9. Zero.kind # "header"
    BY DEF Zero
  <1>10. ASSUME NEW i \in 2 .. Len(new), i \notin offset + 1 .. offset + Len(cells)
         PROVE  new[i].kind # "header"
    <2>1. i \in 1 .. Len(new)
      OBVIOUS
    <2>2. CASE i <= Len(file)
      <3>1. i \in 2 .. Len(file)
        BY <1>3, <1>7, <2>2
      <3> QED BY <1>3, <1>8, <1>10, <2>1, <2>2, <3>1
    <2>3. CASE ~(i <= Len(file))
      BY <1>8, <1>9, <1>10, <2>1, <2>3
    <2> QED BY <2>2, <2>3
  <1>11. ASSUME offset >= Block, cells \in Seq(Content) PROVE StartsWithDocument(new)
    <2>1. new[1] = HeaderOf("document", k)
      <3>1. 1 \in 1 .. Len(new) /\ 1 \notin offset + 1 .. offset + Len(cells) /\ 1 <= Len(file)
        BY <1>1, <1>2, <1>3, <1>6, <1>7, <1>11
      <3> QED BY <1>4, <1>8, <3>1
    <2>2. ASSUME NEW i \in 2 .. Len(new) PROVE new[i].kind # "header"
      <3>1. CASE i \in offset + 1 .. offset + Len(cells)
        <4>1. i - offset \in 1 .. Len(cells)
          BY <1>2, <1>6, <3>1
        <4>2. cells[i - offset] \in Content
          BY <1>11, <4>1, ElementOfSeq
        <4>3. new[i] = cells[i - offset]
          BY <1>8, <3>1
        <4> QED BY <4>2, <4>3, ContentIsAnyCell
      <3> QED BY <1>10, <2>2, <3>1
    <2>3. \E m \in Nat : new[1] = HeaderOf("document", m)
      BY <2>1
    <2> QED BY <1>7, <2>2, <2>3 DEF StartsWithDocument
  <1>12. ASSUME offset = 0, NEW n \in Nat, cells = TarHeader("document", n)
         PROVE  StartsWithDocument(new)
    <2>1. Len(cells) = Block /\ cells[1] = HeaderOf("document", n) /\ \A i \in 2 .. Block : cells[i] = Zero
      BY <1>12, EntryHeader
    <2>2. \A i \in 1 .. Block : new[i] = cells[i]
      <3> TAKE i \in 1 .. Block
      <3>1. i \in offset + 1 .. offset + Len(cells) /\ i - offset = i
        BY <1>1, <1>12, <2>1
      <3> QED BY <1>8, <3>1
    <2>3. new[1] = HeaderOf("document", n)
      <3>1. 1 \in 1 .. Block
        BY <1>1
      <3> QED BY <2>1, <2>2, <3>1
    <2>4. ASSUME NEW i \in 2 .. Len(new) PROVE new[i].kind # "header"
      <3>1. CASE i \in 2 .. Block
        <4>1. i \in 1 .. Block
          BY <3>1
        <4> QED BY <1>9, <2>1, <2>2, <3>1, <4>1
      <3>2. CASE i \notin 2 .. Block
        <4>1. i \notin offset + 1 .. offset + Len(cells)
          BY <1>1, <1>7, <1>12, <2>1, <3>2
        <4> QED BY <1>10, <2>4, <4>1
      <3> QED BY <3>1, <3>2
    <2>5. \E m \in Nat : new[1] = HeaderOf("document", m)
      BY <1>12, <2>3
    <2> QED BY <1>7, <2>4, <2>5 DEF StartsWithDocument
  <1>13. StartsWithDocument(new)
    BY <1>2, <1>11, <1>12
  <1> QED BY <1>13 DEF new

\* A document in the working copy is content.
LEMMA WorkingIsRead ==
  ASSUME StartsWithDocument(working), Document(working) # Nothing
  PROVE  Document(working) \in Seq(Content)
  <1>1. Block \in Nat \ {0, 1} /\ Block + 1 >= 2
    BY ArchiveAssumption
  <1>2. /\ working \in Seq(AnyCell) /\ Len(working) \in Nat /\ Block <= Len(working)
        /\ \A i \in 2 .. Len(working) : working[i].kind # "header"
    BY LenProperties DEF StartsWithDocument
  <1>3. PICK n \in Nat : working[1] = HeaderOf("document", n)
    BY DEF StartsWithDocument
  <1> DEFINE range == [start |-> Block, end |-> Block + n]
             doc == SubSeq(working, Block + 1, Block + n)
  <1>4. ByteRange(working, "document") = range
    BY <1>2, <1>3, ByteRangeOfDocument DEF HeaderOf
  <1>5. range # NoRange /\ range.start = Block /\ range.end = Block + n
    BY <1>1 DEF NoRange
  <1> HIDE DEF range
  <1>6. ~(Block + n > Len(working)) /\ Document(working) = doc
    BY <1>4, <1>5 DEF Document, BytesOfFile
  <1>7. Block + n <= Len(working)
    BY <1>1, <1>2, <1>6
  <1>8. \A i \in Block + 1 .. Block + n : working[i].kind # "header"
    <2> TAKE i \in Block + 1 .. Block + n
    <2>1. i \in 2 .. Len(working)
      BY <1>1, <1>2, <1>7
    <2> QED BY <1>2, <2>1
  <1>9. doc \in Seq(Content)
    BY <1>1, <1>2, <1>7, <1>8, PartIsContent
  <1> QED BY <1>6, <1>9

\* Every step keeps the working copy and the writes ahead so.
LEMMA WorkingStart == ASSUME ArchiveInit PROVE WorkingInv
  <1>1. HoldsDocument(working, appended) /\ Len(appended) \in Nat
    <2>1. ~raced /\ ArchiveInv
      BY ArchiveStart DEF ArchiveInit
    <2>2. appended \in Seq(Nat) /\ HoldsDocument(working, appended)
      BY <2>1 DEF ArchiveInv
    <2> QED BY <2>2, LenProperties
  <1>2. StartsWithDocument(working)
    <2>1. /\ working \in Seq(AnyCell) /\ Len(working) \in Nat /\ Block \in Nat
          /\ Block + Len(appended) <= Len(working)
          /\ working[1] = HeaderOf("document", Len(appended))
          /\ \A i \in 2 .. Len(working) : working[i].kind # "header"
      BY <1>1, ArchiveAssumption, LenProperties DEF HoldsDocument, HeaderOf
    <2>2. Block <= Len(working)
      BY <1>1, <2>1
    <2> QED BY <1>1, <2>1, <2>2 DEF StartsWithDocument
  <1>3. \A w \in Writers : jobs[w].writes = <<>>
    BY DEF ArchiveInit, Everyone, Idle
  <1>4. <<>> \in Seq(DocumentWrite)
    OBVIOUS
  <1> QED BY <1>2, <1>3, <1>4 DEF WorkingInv

\* What a writer has ahead are such writes, and so it leaves the file.
LEMMA WorkingAppend ==
  ASSUME WorkingInv, DOMAIN jobs = Everyone, NEW w \in Writers, BeginAppend(w) \/ AppendStep(w)
  PROVE  WorkingInv'
  <1>1. Block \in Nat \ {0, 1} /\ w \in Everyone
    BY ArchiveAssumption DEF Everyone
  <1>2. StartsWithDocument(working) /\ \A v \in Writers : jobs[v].writes \in Seq(DocumentWrite)
    BY DEF WorkingInv
  <1>3. CASE BeginAppend(w)
    <2>1. UNCHANGED working
      BY <1>3 DEF BeginAppend
    <2> DEFINE c == CHOOSE c \in Unused : \A d \in Unused : c <= d
               writes == AppendChange(working, <<Cell(c)>>)
               job == [[Idle EXCEPT !.writes = writes] EXCEPT !.change = c]
    <2>2. jobs' = [jobs EXCEPT ![w] = job]
      BY <1>3 DEF BeginAppend, Idle
    <2>3. c \in Nat
      <3>1. Unused # {} /\ Unused \subseteq Nat
        BY <1>3, ArchiveAssumption DEF BeginAppend, Unused, Changes
      <3>2. PICK n \in Unused : \A m \in Unused : n <= m
        <4> DEFINE S == Unused
        <4>1. S \in SUBSET Nat /\ S # {}
          BY <3>1
        <4> HIDE DEF S
        <4>2. \E n \in S : \A m \in S : n <= m
          BY <4>1, LeastNat
        <4> QED BY <4>2 DEF S
      <3>3. c \in Unused
        BY <3>2
      <3> QED BY <3>1, <3>3
    <2> HIDE DEF c
    <2>4. writes \in Seq(DocumentWrite)
      <3>1. PICK n \in Nat : working[1] = HeaderOf("document", n)
        BY <1>2 DEF StartsWithDocument
      <3>2. /\ working \in Seq(AnyCell) /\ Len(working) \in Nat /\ Block <= Len(working)
            /\ \A i \in 2 .. Len(working) : working[i].kind # "header"
        BY <1>2, LenProperties DEF StartsWithDocument
      <3> DEFINE range == [start |-> Block, end |-> Block + n]
                 cells == <<Cell(c)>>
                 first == [offset |-> Block + n, cells |-> cells]
                 second == [offset |-> 0, cells |-> TarHeader("document", n + 1)]
      <3>3. ByteRange(working, "document") = range
        BY <3>1, <3>2, ByteRangeOfDocument DEF HeaderOf
      <3>4. cells \in Seq(Content) /\ Len(cells) = 1
        <4>1. Cell(c) \in Content
          BY <2>3, ContentIsAnyCell
        <4> QED BY <4>1
      <3>5. range.end = Block + n /\ range.start - Block = 0 /\ range.end + Len(cells) - range.start = n + 1
        BY <1>1, <3>4
      <3> HIDE DEF range
      <3>6. writes = <<first, second>>
        BY <3>3, <3>5 DEF AppendChange
      <3>7. first \in DocumentWrite
        <4>1. Block + n \in Nat /\ Block + n >= Block
          BY <1>1
        <4> HIDE DEF cells
        <4>2. cells \in Seq(AnyCell)
          BY <3>4, ContentIsAnyCell
        <4> QED BY <3>4, <4>1, <4>2 DEF DocumentWrite
      <3>8. second \in DocumentWrite
        <4> DEFINE m == n + 1
                   header == TarHeader("document", m)
        <4>1. m \in Nat
          OBVIOUS
        <4> HIDE DEF m
        <4>2. header \in Seq(AnyCell)
          BY <4>1, EntryHeader
        <4>3. \E k \in Nat : header = TarHeader("document", k)
          BY <4>1
        <4>4. second = [offset |-> 0, cells |-> header]
          BY DEF m
        <4> HIDE DEF header, second
        <4> QED BY <4>2, <4>3, <4>4 DEF DocumentWrite
      <3> HIDE DEF first, second, writes
      <3> QED BY <3>6, <3>7, <3>8
    <2> HIDE DEF writes
    <2>5. job.writes = writes
      BY DEF Idle
    <2>6. \A v \in Writers : jobs'[v].writes \in Seq(DocumentWrite)
      <3> TAKE v \in Writers
      <3> HIDE DEF job
      <3>1. CASE v = w
        BY <1>1, <2>2, <2>4, <2>5, <3>1
      <3>2. CASE v # w
        <4>1. jobs'[v] = jobs[v]
          BY <2>2, <3>2 DEF Everyone
        <4> QED BY <1>2, <4>1
      <3> QED BY <3>1, <3>2
    <2> QED BY <1>2, <2>1, <2>6 DEF WorkingInv
  <1>4. CASE AppendStep(w)
    <2> DEFINE writes == jobs[w].writes
    <2>1. writes # <<>> /\ writes \in Seq(DocumentWrite)
      BY <1>2, <1>4 DEF AppendStep, Working
    <2>2. Head(writes) \in DocumentWrite /\ Tail(writes) \in Seq(DocumentWrite)
      BY <2>1, HeadTailProperties
    <2>3. working' = Written(working, Head(writes))
      BY <1>4 DEF AppendStep
    <2>4. StartsWithDocument(working')
      BY <1>2, <2>2, <2>3, StartIsKept
    <2>5. \/ jobs' = [jobs EXCEPT ![w] = Idle]
          \/ jobs' = [jobs EXCEPT ![w] = [jobs[w] EXCEPT !.writes = Tail(writes)]]
      BY <1>4 DEF AppendStep
    <2>6. \A v \in Writers \ {w} : jobs'[v] = jobs[v]
      BY <2>5 DEF Everyone
    <2>7. jobs'[w].writes = <<>> \/ jobs'[w].writes = Tail(writes)
      <3>1. CASE jobs' = [jobs EXCEPT ![w] = Idle]
        BY <1>1, <3>1 DEF Idle
      <3>2. CASE jobs' = [jobs EXCEPT ![w] = [jobs[w] EXCEPT !.writes = Tail(writes)]]
        BY <1>1, <3>2
      <3> QED BY <2>5, <3>1, <3>2
    <2>8. jobs'[w].writes \in Seq(DocumentWrite)
      <3>1. <<>> \in Seq(DocumentWrite)
        OBVIOUS
      <3> HIDE DEF writes
      <3> QED BY <2>2, <2>7, <3>1
    <2> QED BY <1>2, <2>4, <2>6, <2>8 DEF WorkingInv
  <1> QED BY <1>3, <1>4

LEMMA WorkingStep == ArchiveInv /\ WorkingInv /\ [ArchiveNext]_archiveVars => WorkingInv'
  <1> SUFFICES ASSUME ArchiveInv, WorkingInv, [ArchiveNext]_archiveVars PROVE WorkingInv'
    OBVIOUS
  <1>1. DOMAIN jobs = Everyone
    BY DEF ArchiveInv
  <1>2. ASSUME UNCHANGED working, \A w \in Writers : jobs'[w].writes \in {jobs[w].writes, <<>>}
        PROVE  WorkingInv'
    <2>1. <<>> \in Seq(DocumentWrite)
      OBVIOUS
    <2> QED BY <1>2, <2>1 DEF WorkingInv
  <1>3. ASSUME UNCHANGED working, NEW s \in Savers, NEW job, jobs' = [jobs EXCEPT ![s] = job]
        PROVE  WorkingInv'
    <2>1. \A w \in Writers : jobs'[w] = jobs[w]
      BY <1>3, ArchiveAssumption
    <2> QED BY <1>2, <1>3, <2>1
  <1>4. CASE \E w \in Writers : BeginAppend(w) \/ AppendStep(w)
    BY <1>1, <1>4, WorkingAppend
  <1>5. ASSUME NEW s \in Savers, BeginSave(s) PROVE WorkingInv'
    BY <1>3, <1>5 DEF BeginSave
  <1>6. ASSUME NEW s \in Savers, BeginSaveAs(s) PROVE WorkingInv'
    BY <1>3, <1>6 DEF BeginSaveAs
  <1>7. ASSUME NEW s \in Savers, SaveStep(s) PROVE WorkingInv'
    BY <1>3, <1>7 DEF SaveStep
  <1>8. CASE Crash
    <2>1. UNCHANGED working /\ \A w \in Writers : jobs'[w].writes = <<>>
      BY <1>8 DEF Crash, Everyone, Idle
    <2> QED BY <1>2, <2>1
  <1>9. CASE ReplaceSaved \/ ExportArchive \/ UNCHANGED archiveVars
    <2>1. UNCHANGED <<working, jobs>>
      BY <1>9 DEF ReplaceSaved, ExportArchive, archiveVars
    <2> QED BY <1>2, <2>1
  <1> QED BY <1>4, <1>5, <1>6, <1>7, <1>8, <1>9 DEF ArchiveNext

-----------------------------------------------------------------------------
(* An archive written step by step                                         *)

\* written is file with cells from offset on, where there is no gap.
Overlaid(written, file, offset, cells) ==
  /\ written \in Seq(AnyCell) /\ Len(written) \in Nat /\ Len(file) \in Nat /\ Len(cells) \in Nat
  /\ Len(file) <= Len(written) /\ offset + Len(cells) <= Len(written)
  /\ Len(written) = Len(file) \/ Len(written) = offset + Len(cells)
  /\ \A i \in 1 .. Len(written) :
       \/ i \in offset + 1 .. offset + Len(cells) /\ written[i] = cells[i - offset]
       \/ i \notin offset + 1 .. offset + Len(cells) /\ i <= Len(file) /\ written[i] = file[i]

\* Writing where there is no gap.
LEMMA WriteOver ==
  ASSUME NEW file \in Seq(AnyCell), NEW cells \in Seq(AnyCell), NEW offset \in Nat,
         offset <= Len(file)
  PROVE  Overlaid(Written(file, [offset |-> offset, cells |-> cells]), file, offset, cells)
  <1> DEFINE new == Written(file, [offset |-> offset, cells |-> cells])
  <1>1. Patched(new, file, offset, cells)
    BY WriteInPlace
  <1>2. Len(file) \in Nat /\ Len(cells) \in Nat
    BY LenProperties
  <1> HIDE DEF new
  <1>3. /\ new \in Seq(AnyCell) /\ Len(new) \in Nat
        /\ Len(file) <= Len(new) /\ offset + Len(cells) <= Len(new)
        /\ Len(new) = Len(file) \/ Len(new) = offset + Len(cells)
    BY <1>1 DEF Patched
  <1>4. /\ \A i \in offset + 1 .. offset + Len(cells) : new[i] = cells[i - offset]
        /\ \A i \in 1 .. Len(new) : i \notin offset + 1 .. offset + Len(cells) =>
             new[i] = IF i <= Len(file) THEN file[i] ELSE Zero
    BY <1>1 DEF Patched
  <1>5. ASSUME NEW i \in 1 .. Len(new), i \notin offset + 1 .. offset + Len(cells)
        PROVE  i <= Len(file) /\ new[i] = file[i]
    <2>1. i <= Len(file)
      BY <1>2, <1>3, <1>5
    <2> QED BY <1>4, <1>5, <2>1
  <1>6. Overlaid(new, file, offset, cells)
    BY <1>2, <1>3, <1>4, <1>5 DEF Overlaid
  <1> QED BY <1>6 DEF new

\* The header of the media, in an empty file.
LEMMA MediaHeaderWritten ==
  ASSUME NEW size \in Nat, size <= SizeLimit
  PROVE  LET new == Written(<<>>, [offset |-> 0, cells |-> TarHeader("media", size)]) IN
         MediaOnly(new, size) /\ Len(new) = Block
  <1> DEFINE file == <<>>
             cells == TarHeader("media", size)
             new == Written(file, [offset |-> 0, cells |-> cells])
  <1>1. Block \in Nat \ {0, 1} /\ Start(size) \in Nat /\ Block <= Start(size)
    BY ArchiveAssumption, StartOfDocument
  <1>2. /\ cells \in Seq(AnyCell) /\ Len(cells) = Block /\ cells[1] = HeaderOf("media", size)
        /\ \A i \in 2 .. Block : cells[i] = Zero
    BY EntryHeader
  <1>3. file \in Seq(AnyCell) /\ Len(file) = 0 /\ 0 <= Len(file)
    OBVIOUS
  <1> HIDE DEF cells, file
  <1>4. Overlaid(new, file, 0, cells)
    <2>1. 0 \in Nat
      OBVIOUS
    <2> QED BY <1>2, <1>3, <2>1, WriteOver
  <1> HIDE DEF new
  <1>5. /\ new \in Seq(AnyCell) /\ Len(new) = Block
    BY <1>1, <1>2, <1>3, <1>4 DEF Overlaid
  <1>6. \A i \in 1 .. Block : new[i] = cells[i]
    <2> TAKE i \in 1 .. Block
    <2>1. i \in 1 .. Len(new) /\ i \in 0 + 1 .. 0 + Len(cells) /\ i - 0 = i
      BY <1>1, <1>2, <1>5
    <2> QED BY <1>4, <2>1 DEF Overlaid
  <1>7. new[1] = HeaderOf("media", size)
    <2>1. 1 \in 1 .. Block
      BY <1>1
    <2> QED BY <1>2, <1>6, <2>1
  <1>8. \A i \in 2 .. Len(new) : new[i].kind # "header"
    <2> TAKE i \in 2 .. Len(new)
    <2>1. i \in 2 .. Block /\ i \in 1 .. Block
      BY <1>5
    <2>2. new[i] = Zero
      BY <1>2, <1>6, <2>1
    <2> QED BY <2>2 DEF Zero
  <1>9. MediaOnly(new, size) /\ Len(new) = Block
    BY <1>1, <1>5, <1>7, <1>8 DEF MediaOnly
  <1> QED BY <1>9 DEF new, file, cells

\* The media behind their header.
LEMMA MediaWritten ==
  ASSUME NEW size \in Nat, NEW file, MediaOnly(file, size), Len(file) = Block
  PROVE  LET new == Written(file, [offset |-> Block, cells |-> Padded(MediaBytes(size))]) IN
         MediaOnly(new, size) /\ MediaThere(new, size) /\ Len(new) = Start(size)
  <1> DEFINE cells == Padded(MediaBytes(size))
             new == Written(file, [offset |-> Block, cells |-> cells])
             R == RoundToNextBlock(size)
  <1>1. /\ Block \in Nat \ {0, 1} /\ Start(size) = Block + R /\ R \in Nat /\ size <= R
    BY ArchiveAssumption, StartOfDocument
  <1>2. /\ cells \in Seq(Content) /\ Len(cells) = R /\ \A i \in 1 .. size : cells[i] = Cell(0)
    <2> DEFINE xs == MediaBytes(size)
    <2>1. xs \in Seq(Content) /\ Len(xs) = size /\ \A i \in 1 .. size : xs[i] = Cell(0)
      BY MediaAreContent
    <2> HIDE DEF xs
    <2>2. /\ Padded(xs) \in Seq(Content) /\ Len(Padded(xs)) = RoundToNextBlock(Len(xs))
          /\ \A i \in 1 .. Len(xs) : Padded(xs)[i] = xs[i]
      BY <2>1, PaddedContent
    <2> QED BY <2>1, <2>2 DEF xs
  <1> HIDE DEF cells, R
  <1>3. /\ file \in Seq(AnyCell) /\ file[1] = HeaderOf("media", size)
        /\ \A i \in 2 .. Len(file) : file[i].kind # "header"
    BY DEF MediaOnly
  <1>4. Overlaid(new, file, Block, cells)
    <2>1. Block \in Nat /\ Block <= Len(file) /\ cells \in Seq(AnyCell)
      BY <1>1, <1>2, ContentIsAnyCell
    <2> QED BY <1>3, <2>1, WriteOver
  <1> HIDE DEF new
  <1>5. new \in Seq(AnyCell) /\ Len(new) = Block + R
    BY <1>1, <1>2, <1>4 DEF Overlaid
  <1>6. \A i \in 1 .. Block : new[i] = file[i]
    <2> TAKE i \in 1 .. Block
    <2>1. i \in 1 .. Len(new) /\ i \notin Block + 1 .. Block + Len(cells)
      BY <1>1, <1>2, <1>5
    <2> QED BY <1>4, <2>1 DEF Overlaid
  <1>7. \A i \in Block + 1 .. Block + R : new[i] = cells[i - Block]
    <2> TAKE i \in Block + 1 .. Block + R
    <2>1. i \in 1 .. Len(new) /\ i \in Block + 1 .. Block + Len(cells)
      BY <1>1, <1>2, <1>5
    <2> QED BY <1>4, <2>1 DEF Overlaid
  <1>8. new[1] = HeaderOf("media", size)
    <2>1. 1 \in 1 .. Block
      BY <1>1
    <2> QED BY <1>3, <1>6, <2>1
  <1>9. ASSUME NEW i \in 2 .. Len(new) PROVE new[i].kind # "header"
    <2>1. CASE i <= Block
      <3>1. i \in 1 .. Block /\ i \in 2 .. Len(file)
        BY <1>1, <2>1
      <3> QED BY <1>3, <1>6, <3>1
    <2>2. CASE ~(i <= Block)
      <3>1. i \in Block + 1 .. Block + R /\ i - Block \in 1 .. Len(cells)
        BY <1>1, <1>2, <1>5, <2>2
      <3>2. cells[i - Block] \in Content
        BY <1>2, <3>1, ElementOfSeq
      <3> QED BY <1>7, <3>1, <3>2, ContentIsAnyCell
    <2> QED BY <2>1, <2>2
  <1>10. \A i \in 1 .. size : new[Block + i] = Cell(0)
    <2> TAKE i \in 1 .. size
    <2> DEFINE j == Block + i
    <2>1. j \in Block + 1 .. Block + R /\ j - Block = i
      BY <1>1
    <2> HIDE DEF j
    <2>2. new[j] = cells[i]
      BY <1>7, <2>1
    <2> QED BY <1>2, <2>2 DEF j
  <1>11. MediaThere(new, size)
    BY <1>10 DEF MediaThere
  <1>12. MediaOnly(new, size) /\ Len(new) = Start(size)
    BY <1>1, <1>5, <1>8, <1>9 DEF MediaOnly
  <1>13. MediaOnly(new, size) /\ MediaThere(new, size) /\ Len(new) = Start(size)
    BY <1>11, <1>12
  <1> QED BY <1>13 DEF new, cells

\* The header of the document, behind the media or over another one.
LEMMA DocumentHeaderWritten ==
  ASSUME NEW size \in Nat, NEW n \in Nat, NEW file,
         \/ MediaOnly(file, size) /\ MediaThere(file, size) /\ Len(file) = Start(size)
         \/ \E k \in Nat : TwoEntries(file, size, k)
  PROVE  LET new == Written(file, [offset |-> Start(size), cells |-> TarHeader("document", n)]) IN
         /\ TwoEntries(new, size, n)
         /\ Len(new) = Len(file) \/ Len(new) = Start(size) + Block
         /\ Len(file) <= Len(new)
         /\ \A i \in Start(size) + Block + 1 .. Len(file) : new[i] = file[i]
  <1> DEFINE start == Start(size)
             cells == TarHeader("document", n)
             new == Written(file, [offset |-> start, cells |-> cells])
  <1>1. /\ Block \in Nat \ {0, 1} /\ start \in Nat /\ Block + size <= start
    BY ArchiveAssumption, StartOfDocument
  <1>2. /\ cells \in Seq(AnyCell) /\ Len(cells) = Block /\ cells[1] = HeaderOf("document", n)
        /\ \A i \in 2 .. Block : cells[i] = Zero
    BY EntryHeader
  <1>3. /\ file \in Seq(AnyCell) /\ start <= Len(file) /\ Len(file) \in Nat
        /\ file[1] = HeaderOf("media", size) /\ MediaThere(file, size)
        /\ \A i \in 2 .. Len(file) : i # start + 1 => file[i].kind # "header"
    <2>1. CASE MediaOnly(file, size) /\ MediaThere(file, size) /\ Len(file) = start
      BY <1>1, <2>1 DEF MediaOnly
    <2>2. ASSUME NEW k \in Nat, TwoEntries(file, size, k)
          PROVE  /\ file \in Seq(AnyCell) /\ start <= Len(file) /\ Len(file) \in Nat
                 /\ file[1] = HeaderOf("media", size) /\ MediaThere(file, size)
                 /\ \A i \in 2 .. Len(file) : i # start + 1 => file[i].kind # "header"
      <3>1. /\ file \in Seq(AnyCell) /\ start + Block <= Len(file) /\ Len(file) \in Nat
            /\ file[1] = HeaderOf("media", size) /\ MediaThere(file, size)
            /\ \A i \in 2 .. Len(file) : i # start + 1 => file[i].kind # "header"
        BY <2>2, LenProperties DEF TwoEntries
      <3>2. start <= Len(file)
        BY <1>1, <3>1
      <3> QED BY <3>1, <3>2
    <2> QED BY <2>1, <2>2
  <1> HIDE DEF cells, start
  <1>4. Overlaid(new, file, start, cells)
    BY <1>1, <1>2, <1>3, WriteOver
  <1> HIDE DEF new
  <1>5. /\ new \in Seq(AnyCell) /\ Len(new) \in Nat /\ Len(file) <= Len(new)
        /\ start + Block <= Len(new)
        /\ Len(new) = Len(file) \/ Len(new) = start + Block
    BY <1>2, <1>4 DEF Overlaid
  <1>6. \A i \in 1 .. Len(new) : i \notin start + 1 .. start + Block =>
          i <= Len(file) /\ new[i] = file[i]
    BY <1>2, <1>4 DEF Overlaid
  <1>7. \A i \in start + 1 .. start + Block : new[i] = cells[i - start]
    <2> TAKE i \in start + 1 .. start + Block
    <2>1. i \in 1 .. Len(new)
      BY <1>1, <1>5
    <2> QED BY <1>2, <1>4, <2>1 DEF Overlaid
  <1>8. new[1] = HeaderOf("media", size)
    <2>1. 1 \in 1 .. Len(new) /\ 1 \notin start + 1 .. start + Block
      BY <1>1, <1>5
    <2> QED BY <1>3, <1>6, <2>1
  <1>9. new[start + 1] = HeaderOf("document", n)
    <2> DEFINE j == start + 1
    <2>1. j \in start + 1 .. start + Block
      BY <1>1
    <2>2. j - start = 1
      BY <1>1
    <2> HIDE DEF j
    <2>3. new[j] = cells[1]
      BY <1>7, <2>1, <2>2
    <2> QED BY <1>2, <2>3 DEF j
  <1>10. ASSUME NEW i \in 2 .. Len(new), i # start + 1 PROVE new[i].kind # "header"
    <2>1. CASE i \in start + 1 .. start + Block
      <3>1. i - start \in 2 .. Block
        BY <1>1, <1>10, <2>1
      <3>2. new[i] = Zero
        BY <1>2, <1>7, <2>1, <3>1
      <3> QED BY <3>2 DEF Zero
    <2>2. CASE i \notin start + 1 .. start + Block
      <3>1. i \in 1 .. Len(new)
        BY <1>5
      <3>2. i <= Len(file) /\ new[i] = file[i]
        BY <1>6, <2>2, <3>1
      <3>3. i \in 2 .. Len(file)
        BY <1>3, <3>2
      <3> QED BY <1>3, <1>10, <3>2, <3>3
    <2> QED BY <2>1, <2>2
  <1>11. MediaThere(new, size)
    <2> SUFFICES ASSUME NEW i \in 1 .. size PROVE new[Block + i] = Cell(0)
      BY DEF MediaThere
    <2> DEFINE j == Block + i
    <2>1. j \in 1 .. Len(new) /\ j \notin start + 1 .. start + Block
      BY <1>1, <1>5
    <2>2. file[j] = Cell(0)
      BY <1>3 DEF MediaThere
    <2> HIDE DEF j
    <2>3. new[j] = file[j]
      BY <1>6, <2>1
    <2> QED BY <2>2, <2>3 DEF j
  <1>12. TwoEntries(new, size, n)
    BY <1>5, <1>8, <1>9, <1>10, <1>11 DEF TwoEntries, start
  <1>13. \A i \in start + Block + 1 .. Len(file) : new[i] = file[i]
    <2> TAKE i \in start + Block + 1 .. Len(file)
    <2>1. i \in 1 .. Len(new) /\ i \notin start + 1 .. start + Block
      BY <1>1, <1>3, <1>5
    <2> QED BY <1>6, <2>1
  <1>14. /\ TwoEntries(new, size, n)
         /\ Len(new) = Len(file) \/ Len(new) = start + Block
         /\ Len(file) <= Len(new)
         /\ \A i \in start + Block + 1 .. Len(file) : new[i] = file[i]
    BY <1>5, <1>12, <1>13
  <1> QED BY <1>14 DEF new, cells, start

\* The document, or the rest of one, behind its header.
LEMMA DocumentWritten ==
  ASSUME NEW size \in Nat, NEW n \in Nat, NEW file, TwoEntries(file, size, n),
         NEW doc \in Seq(Content), NEW k \in 0 .. Len(doc),
         Start(size) + Block + k <= Len(file),
         \A i \in 1 .. k : file[Start(size) + Block + i] = doc[i]
  PROVE  LET new == Written(file, [offset |-> Start(size) + Block + k,
                                   cells |-> SubSeq(doc, k + 1, Len(doc))]) IN
         TwoEntries(new, size, n) /\ DocumentThere(new, size, doc)
  <1> DEFINE start == Start(size)
             m == start + Block
             offset == m + k
             cells == SubSeq(doc, k + 1, Len(doc))
             new == Written(file, [offset |-> offset, cells |-> cells])
  <1>1. /\ Block \in Nat \ {0, 1} /\ start \in Nat /\ Block + size <= start
        /\ Len(doc) \in Nat /\ k \in Nat /\ k <= Len(doc)
    BY ArchiveAssumption, StartOfDocument, LenProperties
  <1>2. m \in Nat /\ m = start + Block /\ offset \in Nat /\ offset = m + k
    BY <1>1
  <1>3. /\ cells \in Seq(Content) /\ Len(cells) = Len(doc) - k
        /\ \A i \in 1 .. Len(doc) - k : cells[i] = doc[k + i]
    <2> DEFINE a == k + 1
               b == Len(doc)
    <2>1. a \in Int /\ b \in Int /\ b - a + 1 = Len(doc) - k
      BY <1>1
    <2>2. (IF a <= b THEN b - a + 1 ELSE 0) = Len(doc) - k
      BY <1>1
    <2>3. \A i \in a .. b : doc[i] \in Content
      <3> TAKE i \in a .. b
      <3>1. i \in 1 .. Len(doc)
        BY <1>1
      <3> QED BY <3>1, ElementOfSeq
    <2>4. \A i \in 1 .. Len(doc) - k : a + i - 1 = k + i
      BY <1>1
    <2>5. cells = SubSeq(doc, a, b)
      OBVIOUS
    <2> HIDE DEF a, b, cells
    <2>6. /\ SubSeq(doc, a, b) \in Seq(Content)
          /\ Len(SubSeq(doc, a, b)) = IF a <= b THEN b - a + 1 ELSE 0
          /\ \A i \in 1 .. b - a + 1 : SubSeq(doc, a, b)[i] = doc[a + i - 1]
      BY <2>1, <2>3, SubSeqProperties
    <2>7. cells \in Seq(Content) /\ Len(cells) = Len(doc) - k
      BY <2>2, <2>5, <2>6
    <2>8. \A i \in 1 .. Len(doc) - k : cells[i] = doc[k + i]
      BY <2>1, <2>4, <2>5, <2>6
    <2> QED BY <2>7, <2>8
  <1> HIDE DEF cells
  <1>4. /\ file \in Seq(AnyCell) /\ Len(file) \in Nat /\ m <= Len(file) /\ offset <= Len(file)
        /\ file[1] = HeaderOf("media", size) /\ file[start + 1] = HeaderOf("document", n)
        /\ \A i \in 2 .. Len(file) : i # start + 1 => file[i].kind # "header"
        /\ MediaThere(file, size) /\ \A i \in 1 .. k : file[m + i] = doc[i]
    BY LenProperties DEF TwoEntries
  <1>5. cells \in Seq(AnyCell)
    BY <1>3, ContentIsAnyCell
  <1> HIDE DEF offset, m, start
  <1>6. Overlaid(new, file, offset, cells)
    BY <1>2, <1>4, <1>5, WriteOver
  <1> HIDE DEF new
  <1>7. offset + Len(cells) = m + Len(doc)
    BY <1>1, <1>2, <1>3
  <1>8. new \in Seq(AnyCell) /\ Len(new) \in Nat /\ Len(file) <= Len(new) /\ m + Len(doc) <= Len(new)
    BY <1>6, <1>7 DEF Overlaid
  <1>9. \A i \in 1 .. Len(new) : i \notin offset + 1 .. m + Len(doc) => i <= Len(file) /\ new[i] = file[i]
    BY <1>6, <1>7 DEF Overlaid
  <1>10. \A i \in offset + 1 .. m + Len(doc) : new[i] = cells[i - offset]
    <2> TAKE i \in offset + 1 .. m + Len(doc)
    <2>1. i \in 1 .. Len(new)
      BY <1>1, <1>2, <1>8
    <2> QED BY <1>6, <1>7, <2>1 DEF Overlaid
  <1>11. \A i \in 1 .. m : new[i] = file[i]
    <2> TAKE i \in 1 .. m
    <2>1. m <= offset /\ m <= Len(new)
      <3>1. m <= offset
        BY <1>1, <1>2
      <3>2. m <= Len(file) /\ Len(file) \in Nat
        BY <1>4
      <3> QED BY <1>2, <1>8, <3>1, <3>2
    <2>2. i \in 1 .. Len(new)
      BY <1>2, <1>8, <2>1
    <2>3. i \notin offset + 1 .. m + Len(doc)
      BY <1>2, <2>1
    <2> QED BY <1>9, <2>2, <2>3
  <1>12. new[1] = HeaderOf("media", size) /\ new[start + 1] = HeaderOf("document", n)
    <2>1. 1 \in 1 .. m
      BY <1>1, <1>2
    <2>2. start + 1 \in 1 .. m
      BY <1>1, <1>2
    <2>3. new[1] = file[1]
      BY <1>11, <2>1
    <2>4. new[start + 1] = file[start + 1]
      BY <1>11, <2>2
    <2> QED BY <1>4, <2>3, <2>4
  <1>13. ASSUME NEW i \in 2 .. Len(new), i # start + 1 PROVE new[i].kind # "header"
    <2>1. CASE i \in offset + 1 .. m + Len(doc)
      <3>1. i - offset \in 1 .. Len(cells)
        <4>1. Len(cells) = Len(doc) - k
          BY <1>3
        <4> QED BY <1>1, <1>2, <2>1, <4>1
      <3>2. cells[i - offset] \in Content
        BY <1>3, <3>1, ElementOfSeq
      <3> QED BY <1>10, <2>1, <3>2, ContentIsAnyCell
    <2>2. CASE i \notin offset + 1 .. m + Len(doc)
      <3>1. i \in 1 .. Len(new)
        BY <1>8
      <3>2. i <= Len(file) /\ new[i] = file[i]
        BY <1>9, <2>2, <3>1
      <3>3. i \in 2 .. Len(file)
        BY <1>4, <3>2
      <3> QED BY <1>4, <1>13, <3>2, <3>3
    <2> QED BY <2>1, <2>2
  <1>14. MediaThere(new, size)
    <2> SUFFICES ASSUME NEW i \in 1 .. size PROVE new[Block + i] = Cell(0)
      BY DEF MediaThere
    <2> DEFINE j == Block + i
    <2>1. j \in 1 .. m
      BY <1>1, <1>2
    <2>2. file[j] = Cell(0)
      BY <1>4 DEF MediaThere
    <2> HIDE DEF j
    <2>3. new[j] = file[j]
      BY <1>11, <2>1
    <2> QED BY <2>2, <2>3 DEF j
  <1>15. ASSUME NEW i \in 1 .. Len(doc) PROVE new[m + i] = doc[i]
    <2> DEFINE j == m + i
    <2>1. CASE i <= k
      <3>1. j \in 1 .. Len(new) /\ j \notin offset + 1 .. m + Len(doc)
        BY <1>1, <1>2, <1>8, <2>1
      <3>2. file[j] = doc[i]
        BY <1>1, <1>4, <2>1
      <3> HIDE DEF j
      <3>3. new[j] = file[j]
        BY <1>9, <3>1
      <3> QED BY <3>2, <3>3 DEF j
    <2>2. CASE ~(i <= k)
      <3> DEFINE q == i - k
      <3>1. j \in offset + 1 .. m + Len(doc) /\ j - offset = q
        BY <1>1, <1>2, <2>2
      <3>2. q \in 1 .. Len(doc) - k /\ k + q = i
        BY <1>1, <2>2
      <3> HIDE DEF j, q
      <3>3. new[j] = cells[q]
        BY <1>10, <3>1
      <3>4. cells[q] = doc[i]
        BY <1>3, <3>2
      <3> QED BY <3>3, <3>4 DEF j
    <2> QED BY <2>1, <2>2
  <1>16. TwoEntries(new, size, n)
    <2>1. start + Block <= Len(new)
      BY <1>1, <1>2, <1>8
    <2> QED BY <1>8, <1>12, <1>13, <1>14, <2>1 DEF TwoEntries, start
  <1>17. DocumentThere(new, size, doc)
    BY <1>8, <1>15 DEF DocumentThere, m, start
  <1> QED BY <1>16, <1>17 DEF new, cells, offset, m, start

\* What a write of a save leaves, and what is left to write.
Outcome(writes, doc, continues, file, size, last) ==
  /\ Shape(file, size)
  /\ \/ Head(writes) = Failure /\ Len(writes) = 1
     \/ Head(writes) # Failure /\ Len(writes) = 1 /\ Holds(file, size, doc)
     \/ /\ Head(writes) # Failure /\ Len(writes) # 1
        /\ Ahead(Tail(writes), doc, continues, file, size, last)

\* Which writes fail, and what truncating and failing leave.
LEMMA Writes ==
  ASSUME NEW size \in Nat, NEW doc, NEW n \in Nat
  PROVE  /\ Start(size) \in Nat /\ Block \in Nat
         /\ MediaHeader(size) # Failure /\ MediaData(size) # Failure /\ Truncation # Failure
         /\ DocumentHeader(size, doc) # Failure /\ DocumentData(size, doc, n) # Failure
         /\ \A file : Written(file, Truncation) = <<>> /\ Written(file, Failure) = file
  <1>1. Start(size) \in Nat /\ Block \in Nat
    BY ArchiveAssumption, StartOfDocument
  <1>2. /\ MediaHeader(size) # Failure /\ MediaData(size) # Failure /\ Truncation # Failure
        /\ DocumentHeader(size, doc) # Failure /\ DocumentData(size, doc, n) # Failure
    BY NotAWrite DEF MediaHeader, MediaData, DocumentHeader, DocumentData
  <1>6. \A file : Written(file, Truncation) = <<>> /\ Written(file, Failure) = file
    BY NotAWrite DEF Written
  <1> QED BY <1>1, <1>2, <1>6

\* A write of a save that makes the file anew.
LEMMA CreatingStep ==
  ASSUME NEW size \in Nat, NEW doc \in Seq(Content), NEW writes, NEW file, NEW last,
         Creating(writes, doc, file, size)
  PROVE  Outcome(writes, doc, FALSE, Written(file, Head(writes)), size, last)
  <1> DEFINE mh == MediaHeader(size)
             md == MediaData(size)
             dh == DocumentHeader(size, doc)
             dd == DocumentData(size, doc, 0)
             new == Written(file, Head(writes))
  <1>1. /\ mh # Failure /\ md # Failure /\ Truncation # Failure /\ dh # Failure /\ dd # Failure
        /\ Written(file, Truncation) = <<>> /\ Written(file, Failure) = file
    BY Writes
  <1>2. Len(doc) \in Nat
    BY LenProperties
  <1>3. CASE writes = <<Truncation, Failure>>
    <2>1. Head(writes) = Truncation /\ Len(writes) = 2 /\ Tail(writes) = <<Failure>>
      BY <1>3
    <2>2. new = <<>>
      BY <1>1, <2>1
    <2> HIDE DEF new
    <2>3. Creating(Tail(writes), doc, new, size)
      BY <2>1, <2>2 DEF Creating
    <2>4. Outcome(writes, doc, FALSE, new, size, last)
      BY <1>1, <2>1, <2>2, <2>3 DEF Outcome, Ahead, Shape
    <2> QED BY <2>4 DEF new
  <1>4. CASE writes = <<Failure>> /\ file = <<>>
    <2>1. Head(writes) = Failure /\ Len(writes) = 1
      BY <1>4
    <2>2. new = <<>>
      BY <1>1, <1>4, <2>1
    <2> HIDE DEF new
    <2>3. Outcome(writes, doc, FALSE, new, size, last)
      BY <2>1, <2>2 DEF Outcome, Shape
    <2> QED BY <2>3 DEF new
  <1>5. CASE writes = <<Truncation, mh, md, dh, dd>> /\ size <= SizeLimit
    <2>1. Head(writes) = Truncation /\ Len(writes) = 5 /\ Tail(writes) = <<mh, md, dh, dd>>
      <3> HIDE DEF mh, md, dh, dd
      <3> QED BY <1>5
    <2>2. new = <<>>
      BY <1>1, <2>1
    <2> HIDE DEF new
    <2>3. Creating(Tail(writes), doc, new, size)
      BY <1>5, <2>1, <2>2 DEF Creating
    <2>4. Outcome(writes, doc, FALSE, new, size, last)
      BY <1>1, <2>1, <2>2, <2>3 DEF Outcome, Ahead, Shape
    <2> QED BY <2>4 DEF new
  <1>6. CASE writes = <<mh, md, dh, dd>> /\ file = <<>> /\ size <= SizeLimit
    <2>1. Head(writes) = mh /\ Len(writes) = 4 /\ Tail(writes) = <<md, dh, dd>>
      <3> HIDE DEF mh, md, dh, dd
      <3> QED BY <1>6
    <2>2. MediaOnly(new, size) /\ Len(new) = Block
      BY <1>6, <2>1, MediaHeaderWritten DEF MediaHeader
    <2> HIDE DEF new
    <2>3. Creating(Tail(writes), doc, new, size)
      BY <2>1, <2>2 DEF Creating
    <2>4. Outcome(writes, doc, FALSE, new, size, last)
      <3> HIDE DEF mh
      <3> QED BY <1>1, <2>1, <2>2, <2>3 DEF Outcome, Ahead, Shape
    <2> QED BY <2>4 DEF new
  <1>7. CASE writes = <<md, dh, dd>> /\ MediaOnly(file, size) /\ Len(file) = Block
    <2>1. Head(writes) = md /\ Len(writes) = 3 /\ Tail(writes) = <<dh, dd>>
      <3> HIDE DEF mh, md, dh, dd
      <3> QED BY <1>7
    <2>2. MediaOnly(new, size) /\ MediaThere(new, size) /\ Len(new) = Start(size)
      BY <1>7, <2>1, MediaWritten DEF MediaData
    <2> HIDE DEF new
    <2>3. Creating(Tail(writes), doc, new, size)
      BY <2>1, <2>2 DEF Creating
    <2>4. Outcome(writes, doc, FALSE, new, size, last)
      <3> HIDE DEF md
      <3> QED BY <1>1, <2>1, <2>2, <2>3 DEF Outcome, Ahead, Shape
    <2> QED BY <2>4 DEF new
  <1>8. CASE /\ writes = <<dh, dd>>
             /\ MediaOnly(file, size) /\ MediaThere(file, size) /\ Len(file) = Start(size)
    <2>1. Head(writes) = dh /\ Len(writes) = 2 /\ Tail(writes) = <<dd>>
      <3> HIDE DEF mh, md, dh, dd
      <3> QED BY <1>8
    <2> DEFINE n == Len(doc)
    <2>2. TwoEntries(new, size, n)
      <3>1. new = Written(file, [offset |-> Start(size), cells |-> TarHeader("document", n)])
        BY <2>1 DEF DocumentHeader
      <3>2. n \in Nat
        BY <1>2
      <3> HIDE DEF n, new
      <3> QED BY <1>8, <3>1, <3>2, DocumentHeaderWritten
    <2> HIDE DEF new
    <2>3. Creating(Tail(writes), doc, new, size)
      BY <2>1, <2>2 DEF Creating
    <2>4. Shape(new, size)
      BY <1>2, <2>2 DEF Shape
    <2>5. Outcome(writes, doc, FALSE, new, size, last)
      <3> HIDE DEF dh
      <3> QED BY <1>1, <2>1, <2>3, <2>4 DEF Outcome, Ahead
    <2> QED BY <2>5 DEF new
  <1>9. CASE writes = <<dd>> /\ TwoEntries(file, size, Len(doc))
    <2>1. Head(writes) = dd /\ Len(writes) = 1
      <3> HIDE DEF mh, md, dh, dd
      <3> QED BY <1>9
    <2>2. TwoEntries(new, size, Len(doc)) /\ DocumentThere(new, size, doc)
      <3> DEFINE n == Len(doc)
                 k == 0
      <3>1. new = Written(file, [offset |-> Start(size) + Block + k,
                                 cells |-> SubSeq(doc, k + 1, Len(doc))])
        BY <2>1 DEF DocumentData
      <3>2. n \in Nat /\ k \in 0 .. Len(doc) /\ TwoEntries(file, size, n)
        BY <1>2, <1>9
      <3>3. Start(size) + Block + k <= Len(file)
        <4>1. Start(size) + Block <= Len(file)
          BY <1>9 DEF TwoEntries
        <4>2. Start(size) + Block + k = Start(size) + Block
          BY Writes
        <4> QED BY <4>1, <4>2
      <3>4. \A i \in 1 .. k : file[Start(size) + Block + i] = doc[i]
        OBVIOUS
      <3> HIDE DEF n, k, new
      <3>5. TwoEntries(new, size, n) /\ DocumentThere(new, size, doc)
        BY <3>1, <3>2, <3>3, <3>4, DocumentWritten
      <3> QED BY <3>5 DEF n
    <2> HIDE DEF new
    <2>3. Holds(new, size, doc) /\ Shape(new, size)
      BY <1>2, <2>2 DEF Holds, Shape
    <2>4. Outcome(writes, doc, FALSE, new, size, last)
      <3> HIDE DEF dd
      <3> QED BY <1>1, <2>1, <2>3 DEF Outcome
    <2> QED BY <2>4 DEF new
  <1> QED BY <1>3, <1>4, <1>5, <1>6, <1>7, <1>8, <1>9 DEF Creating

\* The header that follows the data makes the archive one of the new document.
LEMMA HeaderCommits ==
  ASSUME NEW size \in Nat, NEW doc \in Seq(Content), NEW file, NEW k \in Nat,
         TwoEntries(file, size, k), DocumentThere(file, size, doc)
  PROVE  Holds(Written(file, DocumentHeader(size, doc)), size, doc)
  <1> DEFINE n == Len(doc)
             new == Written(file, [offset |-> Start(size), cells |-> TarHeader("document", n)])
             m == Start(size) + Block
  <1>1. n \in Nat /\ m \in Nat
    <2>1. n \in Nat
      BY LenProperties
    <2>2. Start(size) \in Nat /\ Block \in Nat
      BY Writes
    <2> QED BY <2>1, <2>2
  <1>2. new = Written(file, DocumentHeader(size, doc))
    BY DEF DocumentHeader
  <1>3. \E j \in Nat : TwoEntries(file, size, j)
    OBVIOUS
  <1>4. /\ TwoEntries(new, size, n) /\ Len(file) <= Len(new)
        /\ \A i \in m + 1 .. Len(file) : new[i] = file[i]
    <2> HIDE DEF n
    <2> QED BY <1>1, <1>3, DocumentHeaderWritten
  <1> HIDE DEF new
  <1>5. /\ Len(file) \in Nat /\ Len(new) \in Nat /\ m + n <= Len(file)
        /\ \A i \in 1 .. n : file[m + i] = doc[i]
    <2>1. file \in Seq(AnyCell) /\ new \in Seq(AnyCell)
      BY <1>4 DEF TwoEntries
    <2> QED BY <2>1, LenProperties DEF DocumentThere
  <1> HIDE DEF n, m
  <1>6. ASSUME NEW i \in 1 .. n PROVE new[m + i] = doc[i]
    <2> DEFINE j == m + i
    <2>1. j \in m + 1 .. Len(file)
      BY <1>1, <1>5
    <2>2. file[j] = doc[i]
      BY <1>5
    <2> HIDE DEF j
    <2>3. new[j] = file[j]
      BY <1>4, <2>1
    <2> QED BY <2>2, <2>3 DEF j
  <1>7. m + n <= Len(new)
    BY <1>1, <1>4, <1>5
  <1>8. DocumentThere(new, size, doc)
    BY <1>6, <1>7 DEF DocumentThere, m, n
  <1> QED BY <1>2, <1>4, <1>8 DEF Holds, n

\* A write of a save that replaces the document.
LEMMA RewritingStep ==
  ASSUME NEW size \in Nat, NEW doc \in Seq(Content), NEW writes, NEW file, NEW last,
         Rewriting(writes, doc, file, size)
  PROVE  Outcome(writes, doc, FALSE, Written(file, Head(writes)), size, last)
  <1> DEFINE dh == DocumentHeader(size, doc)
             dd == DocumentData(size, doc, 0)
             new == Written(file, Head(writes))
  <1>1. dh # Failure /\ dd # Failure
    BY Writes
  <1>2. Len(doc) \in Nat
    BY LenProperties
  <1>3. PICK n \in Nat : TwoEntries(file, size, n)
    BY DEF Rewriting
  <1>4. CASE writes = <<dd, dh>>
    <2>1. Head(writes) = dd /\ Len(writes) = 2 /\ Tail(writes) = <<dh>>
      <3> HIDE DEF dh, dd
      <3> QED BY <1>4
    <2>2. TwoEntries(new, size, n) /\ DocumentThere(new, size, doc)
      <3> DEFINE k == 0
      <3>1. new = Written(file, [offset |-> Start(size) + Block + k,
                                 cells |-> SubSeq(doc, k + 1, Len(doc))])
        BY <2>1 DEF DocumentData
      <3>2. k \in 0 .. Len(doc)
        BY <1>2
      <3>3. Start(size) + Block + k <= Len(file)
        <4>1. Start(size) + Block <= Len(file)
          BY <1>3 DEF TwoEntries
        <4>2. Start(size) + Block + k = Start(size) + Block
          BY Writes
        <4> QED BY <4>1, <4>2
      <3>4. \A i \in 1 .. k : file[Start(size) + Block + i] = doc[i]
        OBVIOUS
      <3> HIDE DEF k, new
      <3> QED BY <1>3, <3>1, <3>2, <3>3, <3>4, DocumentWritten
    <2> HIDE DEF new
    <2>3. Rewriting(Tail(writes), doc, new, size)
      BY <2>1, <2>2 DEF Rewriting
    <2>4. Shape(new, size)
      BY <2>2 DEF Shape
    <2>5. Outcome(writes, doc, FALSE, new, size, last)
      <3> HIDE DEF dd
      <3> QED BY <1>1, <2>1, <2>3, <2>4 DEF Outcome, Ahead
    <2> QED BY <2>5 DEF new
  <1>5. CASE writes = <<dh>> /\ DocumentThere(file, size, doc)
    <2>1. Head(writes) = dh /\ Len(writes) = 1
      <3> HIDE DEF dh, dd
      <3> QED BY <1>5
    <2>2. Holds(new, size, doc)
      BY <1>3, <1>5, <2>1, HeaderCommits
    <2> HIDE DEF new
    <2>3. Shape(new, size)
      BY <1>2, <2>2 DEF Shape, Holds
    <2>4. Outcome(writes, doc, FALSE, new, size, last)
      <3> HIDE DEF dh
      <3> QED BY <1>1, <2>1, <2>2, <2>3 DEF Outcome
    <2> QED BY <2>4 DEF new
  <1> QED BY <1>4, <1>5 DEF Rewriting

\* A write of a save that continues the document.
LEMMA AppendingStep ==
  ASSUME NEW size \in Nat, NEW doc \in Seq(Content), NEW writes, NEW file, NEW last,
         NEW old \in Seq(Content), Appending(writes, doc, file, size, old),
         last.state = "done" => last.document = old
  PROVE  Outcome(writes, doc, TRUE, Written(file, Head(writes)), size, last)
  <1> DEFINE k == Len(old)
             dh == DocumentHeader(size, doc)
             dd == DocumentData(size, doc, k)
             new == Written(file, Head(writes))
  <1>1. k \in Nat /\ Len(doc) \in Nat
    BY LenProperties
  <1>2. dh # Failure /\ dd # Failure
    BY <1>1, Writes
  <1>3. /\ Continues(old, doc) /\ TwoEntries(file, size, k) /\ DocumentThere(file, size, old)
        /\ Holds(file, size, old)
    BY DEF Appending, Holds
  <1>4. CASE writes = <<dd, dh>>
    <2>1. Head(writes) = dd /\ Len(writes) = 2 /\ Tail(writes) = <<dh>>
      <3> HIDE DEF dh, dd
      <3> QED BY <1>4
    <2>2. TwoEntries(new, size, k) /\ DocumentThere(new, size, doc)
      <3> DEFINE n == k
      <3>1. new = Written(file, [offset |-> Start(size) + Block + k,
                                 cells |-> SubSeq(doc, k + 1, Len(doc))])
        BY <2>1 DEF DocumentData
      <3>2. k \in 0 .. Len(doc)
        BY <1>1, <1>3 DEF Continues
      <3>3. Start(size) + Block + k <= Len(file)
        BY <1>3 DEF DocumentThere
      <3>4. \A i \in 1 .. k : file[Start(size) + Block + i] = doc[i]
        BY <1>3 DEF DocumentThere, Continues
      <3>5. n \in Nat /\ TwoEntries(file, size, n)
        BY <1>1, <1>3
      <3> HIDE DEF k, new, n
      <3>6. TwoEntries(new, size, n) /\ DocumentThere(new, size, doc)
        BY <3>1, <3>2, <3>3, <3>4, <3>5, DocumentWritten
      <3> QED BY <3>6 DEF n
    <2> HIDE DEF new
    <2>3. Holds(new, size, old)
      <3> DEFINE m == Start(size) + Block
      <3>1. m \in Nat /\ k <= Len(doc)
        <4>1. Start(size) \in Nat /\ Block \in Nat
          BY Writes
        <4>2. k <= Len(doc)
          BY <1>3 DEF Continues
        <4> QED BY <4>1, <4>2
      <3>2. m + Len(doc) <= Len(new) /\ \A i \in 1 .. Len(doc) : new[m + i] = doc[i]
        BY <2>2 DEF DocumentThere
      <3>3. new \in Seq(AnyCell)
        BY <2>2 DEF TwoEntries
      <3>4. Len(new) \in Nat
        BY <3>3, LenProperties
      <3>5. ASSUME NEW i \in 1 .. k PROVE new[m + i] = old[i]
        <4>1. i \in 1 .. Len(doc)
          BY <1>1, <3>1
        <4>2. old[i] = doc[i]
          BY <1>3 DEF Continues
        <4> HIDE DEF m
        <4> QED BY <3>2, <4>1, <4>2
      <3>6. m + k <= Len(new)
        <4> HIDE DEF m, k
        <4> QED BY <1>1, <3>1, <3>2, <3>4
      <3>7. DocumentThere(new, size, old)
        BY <3>5, <3>6 DEF DocumentThere
      <3> QED BY <2>2, <3>7 DEF Holds
    <2>4. Appending(Tail(writes), doc, new, size, old)
      BY <1>3, <2>1, <2>2, <2>3 DEF Appending
    <2>5. Ahead(Tail(writes), doc, TRUE, new, size, last)
      BY <2>4 DEF Ahead
    <2>6. Shape(new, size)
      BY <1>1, <2>2 DEF Shape
    <2>7. Outcome(writes, doc, TRUE, new, size, last)
      <3>1. Head(writes) # Failure /\ Len(writes) # 1
        <4> HIDE DEF dd
        <4> QED BY <1>2, <2>1
      <3> QED BY <2>5, <2>6, <3>1, Zenon DEF Outcome
    <2> QED BY <2>7 DEF new
  <1>5. CASE writes = <<dh>> /\ DocumentThere(file, size, doc)
    <2>1. Head(writes) = dh /\ Len(writes) = 1
      <3> HIDE DEF dh, dd
      <3> QED BY <1>5
    <2>2. Holds(new, size, doc)
      BY <1>1, <1>3, <1>5, <2>1, HeaderCommits
    <2> HIDE DEF new
    <2>3. Shape(new, size)
      BY <1>1, <2>2 DEF Shape, Holds
    <2>4. Outcome(writes, doc, TRUE, new, size, last)
      <3> HIDE DEF dh
      <3> QED BY <1>2, <2>1, <2>2, <2>3 DEF Outcome
    <2> QED BY <2>4 DEF new
  <1> QED BY <1>4, <1>5 DEF Appending

\* One write of a save.
LEMMA AheadStep ==
  ASSUME NEW size \in Nat, NEW doc \in Seq(Content), NEW writes, NEW file, NEW last,
         NEW continues \in BOOLEAN, Ahead(writes, doc, continues, file, size, last)
  PROVE  Outcome(writes, doc, continues, Written(file, Head(writes)), size, last)
  <1>1. CASE ~continues
    <2>1. continues = FALSE
      BY <1>1
    <2>2. Creating(writes, doc, file, size) \/ Rewriting(writes, doc, file, size)
      BY <1>1 DEF Ahead
    <2>3. Outcome(writes, doc, FALSE, Written(file, Head(writes)), size, last)
      BY <2>2, CreatingStep, RewritingStep
    <2> QED BY <2>1, <2>3
  <1>2. CASE continues
    <2>1. continues = TRUE
      BY <1>2
    <2>2. PICK old \in Seq(Content) : /\ Appending(writes, doc, file, size, old)
                                      /\ last.state = "done" => last.document = old
      BY <1>2 DEF Ahead
    <2>3. Outcome(writes, doc, TRUE, Written(file, Head(writes)), size, last)
      BY <2>2, AppendingStep
    <2> QED BY <2>1, <2>3
  <1> QED BY <1>1, <1>2

\* A list of writes with another one before it.
LEMMA TwoInRow ==
  ASSUME NEW s, NEW t
  PROVE  <<s>> \o <<t>> = <<s, t>>
  <1> DEFINE T == {s, t}
             l == <<s>>
             r == <<t>>
             y == <<s, t>>
             x == l \o r
  <1>1. l \in Seq(T) /\ Len(l) = 1 /\ l[1] = s
    OBVIOUS
  <1>2. r \in Seq(T) /\ Len(r) = 1 /\ r[1] = t
    OBVIOUS
  <1>3. y \in Seq(T) /\ Len(y) = 2 /\ y[1] = s /\ y[2] = t
    OBVIOUS
  <1> HIDE DEF l, r, y, T
  <1>4. /\ x \in Seq(T) /\ Len(x) = Len(l) + Len(r)
        /\ \A i \in 1 .. Len(l) + Len(r) : x[i] = IF i <= Len(l) THEN l[i] ELSE r[i - Len(l)]
    BY <1>1, <1>2, ConcatProperties
  <1> HIDE DEF x
  <1>5. Len(x) = 2 /\ x[1] = s /\ x[2] = t
    BY <1>1, <1>2, <1>4
  <1>6. \A i \in 1 .. Len(x) : x[i] = y[i]
    BY <1>3, <1>5
  <1>7. x = y
    BY <1>3, <1>4, <1>5, <1>6, SeqEqual
  <1> QED BY <1>7 DEF x, y, l, r

LEMMA FiveInRow ==
  ASSUME NEW t, NEW a, NEW b, NEW c, NEW d
  PROVE  <<t>> \o <<a, b, c, d>> = <<t, a, b, c, d>>
  <1> DEFINE T == {t, a, b, c, d}
             l == <<t>>
             r == <<a, b, c, d>>
             y == <<t, a, b, c, d>>
             x == l \o r
  <1>1. l \in Seq(T) /\ Len(l) = 1 /\ l[1] = t
    OBVIOUS
  <1>2. r \in Seq(T) /\ Len(r) = 4 /\ r[1] = a /\ r[2] = b /\ r[3] = c /\ r[4] = d
    OBVIOUS
  <1>3. y \in Seq(T) /\ Len(y) = 5 /\ y[1] = t /\ y[2] = a /\ y[3] = b /\ y[4] = c /\ y[5] = d
    OBVIOUS
  <1> HIDE DEF l, r, y, T
  <1>4. /\ x \in Seq(T) /\ Len(x) = Len(l) + Len(r)
        /\ \A i \in 1 .. Len(l) + Len(r) : x[i] = IF i <= Len(l) THEN l[i] ELSE r[i - Len(l)]
    BY <1>1, <1>2, ConcatProperties
  <1> HIDE DEF x
  <1>5. Len(x) = 5 /\ x[1] = t /\ x[2] = a /\ x[3] = b /\ x[4] = c /\ x[5] = d
    BY <1>1, <1>2, <1>4
  <1>6. \A i \in 1 .. Len(x) : x[i] = y[i]
    BY <1>3, <1>5
  <1>7. x = y
    BY <1>3, <1>4, <1>5, <1>6, SeqEqual
  <1> QED BY <1>7 DEF x, y, l, r

\* What create_new has ahead.
LEMMA CreateNewWrites ==
  ASSUME media.size \in Nat, NEW doc \in Seq(Content)
  PROVE  LET size == media.size IN
         \/ CreateNew(doc) = <<Truncation, Failure>>
         \/ /\ size <= SizeLimit
            /\ CreateNew(doc) = <<Truncation, MediaHeader(size), MediaData(size),
                                  DocumentHeader(size, doc), DocumentData(size, doc, 0)>>
  <1> DEFINE size == media.size
             start == RoundToNextBlock(Block + size)
             a == [offset |-> 0, cells |-> TarHeader("media", size)]
             b == [offset |-> Block, cells |-> Padded(MediaBytes(size))]
             c == [offset |-> start, cells |-> TarHeader("document", Len(doc))]
             d == [offset |-> start + Block, cells |-> doc]
  <1>1. CASE media.place = "saved" \/ ~Encodable(size)
    <2>1. CreateNew(doc) = <<Truncation>> \o <<Failure>>
      BY <1>1 DEF CreateNew
    <2> QED BY <2>1, TwoInRow
  <1>2. CASE media.place # "saved" /\ Encodable(size)
    <2>1. CreateNew(doc) = <<Truncation>> \o <<a, b, c, d>>
      BY <1>2 DEF CreateNew
    <2>2. a = MediaHeader(size) /\ b = MediaData(size) /\ c = DocumentHeader(size, doc)
      BY DEF MediaHeader, MediaData, DocumentHeader, Start
    <2>3. d = DocumentData(size, doc, 0)
      <3> DEFINE x == start + Block + 0
                 y == SubSeq(doc, 0 + 1, Len(doc))
      <3>1. x = start + Block
        <4>1. start \in Nat /\ Block \in Nat
          BY Writes DEF Start
        <4> HIDE DEF start
        <4> QED BY <4>1
      <3>2. y = doc
        <4>1. SubSeq(doc, 1, Len(doc)) = doc
          BY SubSeqFull
        <4>2. 0 + 1 = 1
          OBVIOUS
        <4> QED BY <4>1, <4>2
      <3>3. DocumentData(size, doc, 0) = [offset |-> x, cells |-> y]
        BY DEF DocumentData, Start
      <3> HIDE DEF x, y, start
      <3> QED BY <3>1, <3>2, <3>3
    <2> HIDE DEF a, b, c, d
    <2>4. CreateNew(doc) = <<Truncation, a, b, c, d>>
      BY <2>1, FiveInRow
    <2>5. CreateNew(doc) = <<Truncation, MediaHeader(size), MediaData(size),
                             DocumentHeader(size, doc), DocumentData(size, doc, 0)>>
      BY <2>2, <2>3, <2>4
    <2> QED BY <1>2, <2>5 DEF Encodable
  <1> QED BY <1>1, <1>2

LEMMA CreateNewIsAhead ==
  ASSUME media.size \in Nat, NEW doc \in Seq(Content), NEW file
  PROVE  Creating(CreateNew(doc), doc, file, media.size)
  BY CreateNewWrites DEF Creating

\* After the first write of create_new, and in a list of two others, nothing empties
\* the file.
LEMMA CreateNewIsPlain ==
  ASSUME media.size \in Nat, NEW doc \in Seq(Content)
  PROVE  Plain(Tail(CreateNew(doc)))
  <1> DEFINE size == media.size
             mh == MediaHeader(size)
             md == MediaData(size)
             dh == DocumentHeader(size, doc)
             dd == DocumentData(size, doc, 0)
  <1>1. /\ Truncation # Failure /\ Truncation # mh /\ Truncation # md /\ Truncation # dh
        /\ Truncation # dd
    BY NotAWrite DEF MediaHeader, MediaData, DocumentHeader, DocumentData
  <1>2. CreateNew(doc) = <<Truncation, Failure>> \/ CreateNew(doc) = <<Truncation, mh, md, dh, dd>>
    BY CreateNewWrites
  <1> HIDE DEF mh, md, dh, dd, size
  <1>3. CASE CreateNew(doc) = <<Truncation, Failure>>
    <2>1. Tail(CreateNew(doc)) \in Seq({Failure})
      BY <1>3
    <2> QED BY <1>1, <2>1 DEF Plain
  <1>4. CASE CreateNew(doc) = <<Truncation, mh, md, dh, dd>>
    <2>1. Tail(CreateNew(doc)) = <<mh, md, dh, dd>>
      BY <1>4
    <2>2. <<mh, md, dh, dd>> \in Seq({mh, md, dh, dd})
      OBVIOUS
    <2>3. Truncation \notin {mh, md, dh, dd}
      BY <1>1
    <2> QED BY <2>1, <2>2, <2>3 DEF Plain
  <1> QED BY <1>2, <1>3, <1>4

LEMMA UpdateIsPlain ==
  ASSUME NEW file, NEW doc
  PROVE  Plain(UpdateFile(file, doc))
  <1>1. ASSUME NEW o1, NEW c1, NEW o2, NEW c2
        PROVE  Plain(<<[offset |-> o1, cells |-> c1], [offset |-> o2, cells |-> c2]>>)
    <2> DEFINE a == [offset |-> o1, cells |-> c1]
               b == [offset |-> o2, cells |-> c2]
    <2>1. Truncation # a /\ Truncation # b
      BY NotAWrite
    <2> HIDE DEF a, b
    <2>2. <<a, b>> \in Seq({a, b})
      OBVIOUS
    <2>3. Plain(<<a, b>>)
      BY <2>1, <2>2 DEF Plain
    <2> QED BY <2>3 DEF a, b
  <1> QED BY <1>1 DEF UpdateFile, AppendChange

LEMMA EmptyIsPlain == Plain(<<>>)
  <1>1. <<>> \in Seq({Failure}) /\ Truncation \notin {Failure}
    BY NotAWrite
  <1> QED BY <1>1 DEF Plain

\* What update_automerge_file has ahead, with an archive to change.
LEMMA UpdateIsAhead ==
  ASSUME NEW size \in Nat, NEW file, NEW old, Holds(file, size, old), NEW doc \in Seq(Content)
  PROVE  IF IsPrefix(old, doc) THEN Appending(UpdateFile(file, doc), doc, file, size, old)
         ELSE Rewriting(UpdateFile(file, doc), doc, file, size)
  <1> DEFINE n == Len(old)
             range == [start |-> Start(size) + Block, end |-> Start(size) + Block + n]
             m == Start(size) + Block
  <1>1. /\ old \in Seq(Content) /\ n \in Nat /\ Len(doc) \in Nat /\ Document(file) = old
        /\ TwoEntries(file, size, n)
    BY ArchiveIsRead, LenProperties DEF Holds
  <1>2. ByteRange(file, "document") = range
    BY <1>1, DocumentIsFound
  <1>3. /\ m \in Nat /\ Start(size) \in Nat /\ m - Block = Start(size) /\ m + 0 = m
        /\ range.start = m /\ range.end = m + n
    <2>1. Start(size) \in Nat /\ Block \in Nat
      BY Writes
    <2>2. range.start = m /\ range.end = m + n
      OBVIOUS
    <2>3. m \in Nat /\ m - Block = Start(size) /\ m + 0 = m
      BY <2>1
    <2> QED BY <2>1, <2>2, <2>3
  <1> HIDE DEF range
  <1>4. CASE IsPrefix(old, doc)
    <2> DEFINE cells == SubSeq(doc, n + 1, Len(doc))
    <2>1. UpdateFile(file, doc) =
            <<[offset |-> m + n, cells |-> cells],
              [offset |-> m - Block, cells |-> TarHeader("document", m + n + Len(cells) - m)]>>
      BY <1>1, <1>2, <1>3, <1>4 DEF UpdateFile, AppendChange
    <2>2. n <= Len(doc) /\ SubSeq(old, 1, n) = SubSeq(doc, 1, n)
      BY <1>4 DEF IsPrefix
    <2>3. Len(cells) = Len(doc) - n
      <3> DEFINE a == n + 1
                 b == Len(doc)
      <3>1. a \in Int /\ b \in Int /\ (IF a <= b THEN b - a + 1 ELSE 0) = Len(doc) - n
        BY <1>1, <2>2
      <3>2. \A i \in a .. b : doc[i] \in Content
        <4> TAKE i \in a .. b
        <4>1. i \in 1 .. Len(doc)
          BY <1>1
        <4> QED BY <4>1, ElementOfSeq
      <3>3. cells = SubSeq(doc, a, b)
        OBVIOUS
      <3> HIDE DEF a, b, cells, n
      <3>4. Len(SubSeq(doc, a, b)) = IF a <= b THEN b - a + 1 ELSE 0
        BY <3>1, <3>2, SubSeqProperties
      <3> QED BY <3>1, <3>3, <3>4
    <2>4. m + n + Len(cells) - m = Len(doc)
      <3> HIDE DEF cells, m, n
      <3> QED BY <1>1, <1>3, <2>2, <2>3
    <2>5. UpdateFile(file, doc) =
            <<DocumentData(size, doc, n), DocumentHeader(size, doc)>>
      BY <1>3, <2>1, <2>4 DEF DocumentData, DocumentHeader
    <2>6. Continues(old, doc)
      <3> SUFFICES ASSUME NEW i \in 1 .. n PROVE old[i] = doc[i]
        BY <2>2 DEF Continues
      <3>1. SubSeq(old, 1, n) = old
        BY <1>1, SubSeqFull
      <3>2. n \in 0 .. Len(doc) /\ i \in 1 .. n
        BY <1>1, <2>2
      <3> HIDE DEF n
      <3>3. SubSeq(doc, 1, n) = Restrict(doc, 1 .. n)
        BY <3>2, SubSeqRestrict
      <3>4. Restrict(doc, 1 .. n)[i] = doc[i]
        BY <3>2 DEF Restrict
      <3> QED BY <2>2, <3>1, <3>3, <3>4
    <2> QED BY <1>4, <2>5, <2>6 DEF Appending
  <1>5. CASE ~IsPrefix(old, doc)
    <2>1. UpdateFile(file, doc) =
            <<[offset |-> m, cells |-> doc],
              [offset |-> m - Block, cells |-> TarHeader("document", Len(doc))]>>
      BY <1>1, <1>2, <1>3, <1>5 DEF UpdateFile
    <2>2. SubSeq(doc, 1, Len(doc)) = doc /\ 0 + 1 = 1
      BY SubSeqFull
    <2>3. UpdateFile(file, doc) = <<DocumentData(size, doc, 0), DocumentHeader(size, doc)>>
      BY <1>3, <2>1, <2>2 DEF DocumentData, DocumentHeader
    <2> QED BY <1>1, <1>5, <2>3 DEF Rewriting
  <1> QED BY <1>4, <1>5

\* A save that has begun has something to write.
LEMMA AheadIsWork ==
  ASSUME NEW writes, NEW doc, NEW continues, NEW file, NEW size, NEW last,
         Ahead(writes, doc, continues, file, size, last)
  PROVE  writes # <<>>
  <1>1. CASE Creating(writes, doc, file, size)
    <2> DEFINE mh == MediaHeader(size)
               md == MediaData(size)
               dh == DocumentHeader(size, doc)
               dd == DocumentData(size, doc, 0)
    <2>1. \/ writes = <<Truncation, Failure>> \/ writes = <<Failure>>
          \/ writes = <<Truncation, mh, md, dh, dd>> \/ writes = <<mh, md, dh, dd>>
          \/ writes = <<md, dh, dd>> \/ writes = <<dh, dd>> \/ writes = <<dd>>
      BY <1>1, Zenon DEF Creating
    <2>2. \A a, b, c, d, e : /\ <<a>> # <<>> /\ <<a, b>> # <<>> /\ <<a, b, c>> # <<>>
                             /\ <<a, b, c, d>> # <<>> /\ <<a, b, c, d, e>> # <<>>
      OBVIOUS
    <2> HIDE DEF mh, md, dh, dd
    <2> QED BY <2>1, <2>2, Zenon
  <1>2. CASE Rewriting(writes, doc, file, size)
    <2> DEFINE d == DocumentData(size, doc, 0)
               h == DocumentHeader(size, doc)
    <2>1. writes = <<d, h>> \/ writes = <<h>>
      BY <1>2, Zenon DEF Rewriting
    <2>2. \A x, y : <<x, y>> # <<>> /\ <<x>> # <<>>
      OBVIOUS
    <2> HIDE DEF d, h
    <2> QED BY <2>1, <2>2, Zenon
  <1>3. ASSUME NEW old \in Seq(Content), Appending(writes, doc, file, size, old) PROVE writes # <<>>
    <2> DEFINE d == DocumentData(size, doc, Len(old))
               h == DocumentHeader(size, doc)
    <2>1. writes = <<d, h>> \/ writes = <<h>>
      BY <1>3 DEF Appending
    <2>2. \A x, y : <<x, y>> # <<>> /\ <<x>> # <<>>
      OBVIOUS
    <2> HIDE DEF d, h
    <2> QED BY <2>1, <2>2, Zenon
  <1>4. CASE Creating(writes, doc, file, size) \/ Rewriting(writes, doc, file, size)
    BY <1>1, <1>2, <1>4
  <1>5. CASE \E old \in Seq(Content) : Appending(writes, doc, file, size, old)
    BY <1>3, <1>5
  <1>6. \/ Creating(writes, doc, file, size) \/ Rewriting(writes, doc, file, size)
        \/ \E old \in Seq(Content) : Appending(writes, doc, file, size, old)
    BY DEF Ahead
  <1> QED BY <1>4, <1>5, <1>6

-----------------------------------------------------------------------------
(* The archive the user saved                                              *)

\* A writer with writes ahead has a change to append.
JobsInv ==
  /\ media \in [size : MediaSizes, place : {"disk", "saved"}]
  /\ \A w \in Everyone :
       /\ jobs[w] = [writes |-> jobs[w].writes, change |-> jobs[w].change,
                     document |-> jobs[w].document, continues |-> jobs[w].continues]
       /\ jobs[w].change \in 0 .. MaxAppends
  /\ \A w \in Writers : Working(w) => jobs[w].change \in Changes
  /\ appended \in Seq(Changes)
  /\ raced \in BOOLEAN /\ mixed \in BOOLEAN
  /\ lastSave.state \in {"none", "done", "failed"}
  /\ crashes \in 0 .. MaxCrashes

\* The archive that was opened, if any, is whole.
LEMMA FileStart == ASSUME ArchiveInit PROVE SavedInv
  <1>1. media.size \in Nat
    BY ArchiveAssumption DEF ArchiveInit
  <1>2. /\ \A s \in Savers : jobs[s].writes = <<>>
        /\ lastSave.state # "done" /\ exported = NoExport
    BY DEF ArchiveInit, Everyone, Idle
  <1>3. Resting /\ StartsAnew
    BY <1>2, EmptyIsPlain DEF Resting, StartsAnew
  <1>4. Shape(saved, media.size)
    <2>1. CASE saved = <<>>
      BY <2>1 DEF Shape
    <2>2. CASE saved # <<>>
      <3> DEFINE doc == Data(appended)
      <3>1. saved = Saved(doc) /\ appended = <<1>>
        BY <2>2 DEF ArchiveInit
      <3>2. doc \in Seq(Content)
        <4>1. appended \in Seq(Nat)
          BY <3>1
        <4>2. Len(appended) \in Nat /\ DOMAIN appended = 1 .. Len(appended)
              /\ \A i \in 1 .. Len(appended) : appended[i] \in Nat
          BY <4>1, ElementOfSeq, LenProperties
        <4>3. \A i \in 1 .. Len(appended) : Cell(appended[i]) \in Content
          BY <4>2, ContentIsAnyCell
        <4>4. doc = [i \in 1 .. Len(appended) |-> Cell(appended[i])]
          BY <4>2 DEF Data
        <4> HIDE DEF doc
        <4> QED BY <4>2, <4>3, <4>4
      <3> HIDE DEF doc
      <3>3. Holds(saved, media.size, doc)
        BY <1>1, <3>1, <3>2, SavedHolds
      <3> QED BY <3>2, <3>3, LenProperties DEF Shape, Holds
    <2> QED BY <2>1, <2>2
  <1> QED BY <1>1, <1>2, <1>3, <1>4 DEF SavedInv

\* A save that begins has a list of its own, and is alone if no other is under way.
LEMMA SaveBegins ==
  ASSUME SavedInv, ArchiveInv, StartsWithDocument(working), NEW s \in Savers,
         BeginSave(s) \/ BeginSaveAs(s)
  PROVE  /\ Plain(jobs'[s].writes) \/ Anew(jobs'[s])
         /\ ~mixed' => Saver(jobs'[s], saved, media.size, lastSave)
  <1> DEFINE new == Document(working)
             old == Document(saved)
             size == media.size
             job == jobs'[s]
  <1>1. new \in Seq(Content)
    BY WorkingIsRead DEF BeginSave, BeginSaveAs
  <1>2. s \in DOMAIN jobs /\ size \in Nat /\ UNCHANGED media
    BY DEF ArchiveInv, Everyone, SavedInv, BeginSave, BeginSaveAs
  <1>3. ASSUME ~mixed'
        PROVE  Shape(saved, size) /\ (lastSave.state = "done" => Holds(saved, size, lastSave.document))
    <2>1. ~mixed /\ \A t \in Savers : jobs[t].writes = <<>>
      BY <1>3 DEF BeginSave, BeginSaveAs, OtherSaves, Working
    <2>2. \A t \in Savers : ~Alone(t)
      BY <2>1, AheadIsWork DEF Alone, Saver
    <2> QED BY <2>1, <2>2 DEF SavedInv, Resting
  <1>4. ASSUME BeginSaveAs(s) \/ (BeginSave(s) /\ old = Nothing)
        PROVE  Anew(job) /\ Saver(job, saved, size, lastSave)
    <2> DEFINE writes == CreateNew(new)
    <2>1. job = [writes |-> writes, change |-> 0, document |-> new, continues |-> FALSE]
      <3>1. CASE BeginSaveAs(s)
        BY <1>2, <3>1 DEF BeginSaveAs, Idle
      <3>2. CASE BeginSave(s) /\ old = Nothing
        BY <1>2, <3>2 DEF BeginSave
      <3> QED BY <1>4, <3>1, <3>2
    <2>2. Anew(job)
      BY <1>1, <2>1 DEF Anew
    <2> HIDE DEF writes, new, job
    <2>3. job.writes = writes /\ job.document = new /\ job.continues = FALSE /\ SaverJob(job)
      BY <2>1 DEF SaverJob
    <2>4. Creating(writes, new, saved, size)
      BY <1>1, <1>2, CreateNewIsAhead DEF writes
    <2>5. Ahead(job.writes, job.document, job.continues, saved, size, lastSave)
      BY <2>3, <2>4 DEF Ahead
    <2> QED BY <1>1, <2>2, <2>3, <2>5 DEF Saver
  <1>5. ASSUME BeginSave(s), old # Nothing
        PROVE  Plain(job.writes) /\ (~mixed' => Saver(job, saved, size, lastSave))
    <2> DEFINE writes == UpdateFile(saved, new)
               continues == old # Nothing /\ IsPrefix(old, new)
    <2>1. job = [writes |-> writes, change |-> 0, document |-> new, continues |-> continues]
      BY <1>2, <1>5 DEF BeginSave
    <2>2. continues \in BOOLEAN /\ Plain(writes)
      BY UpdateIsPlain
    <2> SUFFICES ASSUME ~mixed' PROVE Plain(job.writes) /\ Saver(job, saved, size, lastSave)
      <3>1. job.writes = writes
        BY <2>1
      <3> QED BY <2>2, <3>1
    <2>3. Holds(saved, size, old) /\ old \in Seq(Content)
      BY <1>2, <1>3, <1>5, SavedIsRead DEF Holds
    <2>4. /\ continues => Appending(writes, new, saved, size, old)
          /\ ~continues => Rewriting(writes, new, saved, size)
      BY <1>1, <1>2, <1>5, <2>3, UpdateIsAhead
    <2>5. lastSave.state = "done" => lastSave.document = old
      BY <1>2, <1>3, ArchiveIsRead
    <2> HIDE DEF writes, new, old, job, continues
    <2>6. job.writes = writes /\ job.document = new /\ job.continues = continues /\ SaverJob(job)
      BY <2>1 DEF SaverJob
    <2>7. Ahead(writes, new, continues, saved, size, lastSave)
      <3>1. CASE continues
        <4>1. \E older \in Seq(Content) : /\ Appending(writes, new, saved, size, older)
                                          /\ lastSave.state = "done" => lastSave.document = older
          BY <2>3, <2>4, <2>5, <3>1
        <4> QED BY <3>1, <4>1 DEF Ahead
      <3>2. CASE ~continues
        BY <2>4, <3>2 DEF Ahead
      <3> QED BY <3>1, <3>2
    <2>8. Ahead(job.writes, job.document, job.continues, saved, size, lastSave)
      BY <2>6, <2>7
    <2> QED BY <1>1, <2>2, <2>6, <2>8 DEF Saver
  <1>6. CASE old = Nothing
    BY <1>4, <1>6
  <1>7. CASE old # Nothing
    BY <1>4, <1>5, <1>7
  <1> QED BY <1>6, <1>7

\* A save that goes on, where what it has ahead fits the file.
LEMMA SaveGoesOn ==
  ASSUME ArchiveInv, media.size \in Nat, NEW s \in Savers, SaveStep(s),
         Saver(jobs[s], saved, media.size, lastSave)
  PROVE  /\ Shape(saved', media.size)
         /\ \/ jobs'[s].writes = <<>>
               /\ (lastSave'.state = "done" => Holds(saved', media.size, lastSave'.document))
            \/ Saver(jobs'[s], saved', media.size, lastSave')
  <1> DEFINE size == media.size
             job == jobs[s]
             next == jobs'[s]
             new == Written(saved, Head(job.writes))
  <1>1. job.writes # <<>> /\ s \in DOMAIN jobs /\ size \in Nat
    BY DEF SaveStep, Working, ArchiveInv, Everyone
  <1>2. /\ SaverJob(job) /\ job.document \in Seq(Content) /\ job.continues \in BOOLEAN
        /\ Ahead(job.writes, job.document, job.continues, saved, size, lastSave)
    BY <1>1 DEF Saver
  <1>3. Outcome(job.writes, job.document, job.continues, new, size, lastSave)
    BY <1>1, <1>2, AheadStep
  <1>4. saved' = new
    BY DEF SaveStep
  <1>5. Len(job.writes) = 1 => next = Idle
    BY <1>1 DEF SaveStep
  <1>6. Len(job.writes) # 1 => next = [job EXCEPT !.writes = Tail(job.writes)]
    BY <1>1 DEF SaveStep
  <1>7. /\ Head(job.writes) = Failure => lastSave' = [state |-> "failed"]
        /\ Head(job.writes) # Failure /\ Len(job.writes) = 1
             => lastSave' = [state |-> "done", document |-> job.document]
        /\ Head(job.writes) # Failure /\ Len(job.writes) # 1 => lastSave' = lastSave
    BY DEF SaveStep
  <1> HIDE DEF new, next, job
  <1>8. Shape(saved', size)
    BY <1>3, <1>4 DEF Outcome
  <1>9. CASE Head(job.writes) = Failure /\ Len(job.writes) = 1
    <2>1. next.writes = <<>> /\ lastSave'.state = "failed"
      BY <1>5, <1>7, <1>9 DEF Idle
    <2> QED BY <1>8, <2>1 DEF next
  <1>10. CASE Head(job.writes) # Failure /\ Len(job.writes) = 1 /\ Holds(new, size, job.document)
    <2>1. next.writes = <<>> /\ lastSave'.document = job.document
      BY <1>5, <1>7, <1>10 DEF Idle
    <2> QED BY <1>4, <1>8, <1>10, <2>1 DEF next
  <1>11. CASE /\ Head(job.writes) # Failure /\ Len(job.writes) # 1
              /\ Ahead(Tail(job.writes), job.document, job.continues, new, size, lastSave)
    <2> DEFINE rest == Tail(job.writes)
    <2> HIDE DEF rest
    <2>1. next = [job EXCEPT !.writes = rest]
      BY <1>6, <1>11 DEF rest
    <2>2. job = [writes |-> job.writes, change |-> 0, document |-> job.document,
                 continues |-> job.continues]
      BY <1>2 DEF SaverJob
    <2>3. next = [writes |-> rest, change |-> 0, document |-> job.document,
                  continues |-> job.continues]
      BY <2>1, <2>2
    <2>4. /\ next.writes = rest /\ next.document = job.document
          /\ next.continues = job.continues /\ SaverJob(next)
      BY <2>3 DEF SaverJob
    <2>5. lastSave' = lastSave
      BY <1>7, <1>11
    <2>6. Ahead(next.writes, next.document, next.continues, saved', size, lastSave')
      BY <1>4, <1>11, <2>4, <2>5 DEF rest
    <2> QED BY <1>2, <1>8, <2>4, <2>6 DEF Saver, next
  <1> QED BY <1>3, <1>9, <1>10, <1>11 DEF Outcome

\* A step of a save among others: if they do not mix, it was alone, or is now that
\* it has emptied the file.
LEMMA SaveStepKeeps ==
  ASSUME SavedInv, ArchiveInv, JobsInv, NEW s \in Savers, SaveStep(s)
  PROVE  SavedInv'
  <1> DEFINE job == jobs[s]
             size == media.size
  <1>1. /\ job.writes # <<>> /\ s \in DOMAIN jobs /\ size \in Nat
        /\ UNCHANGED <<media, exported>>
        /\ \A t \in Savers \ {s} : jobs'[t] = jobs[t]
        /\ jobs'[s] = IF Len(job.writes) = 1 THEN Idle ELSE [job EXCEPT !.writes = Tail(@)]
    BY DEF SaveStep, Working, ArchiveInv, Everyone, SavedInv
  <1>2. job = [writes |-> job.writes, change |-> job.change,
               document |-> job.document, continues |-> job.continues]
    BY DEF JobsInv, Everyone
  <1>3. StartsAnew'
    <2>1. \A doc : CreateNew(doc)' = CreateNew(doc)
      BY <1>1 DEF CreateNew
    <2>2. Plain(jobs'[s].writes)
      <3>1. CASE Len(job.writes) = 1
        <4>1. jobs'[s].writes = <<>>
          BY <1>1, <3>1 DEF Idle
        <4> QED BY <4>1, EmptyIsPlain
      <3>2. CASE Len(job.writes) # 1
        <4> DEFINE rest == Tail(job.writes)
        <4>1. Plain(rest)
          <5>1. CASE Plain(job.writes)
            <6>1. PICK S : Truncation \notin S /\ job.writes \in Seq(S)
              BY <5>1 DEF Plain
            <6>2. rest \in Seq(S)
              BY <1>1, <6>1, HeadTailProperties
            <6> HIDE DEF rest
            <6> QED BY <6>1, <6>2 DEF Plain
          <5>2. CASE Anew(job)
            BY <1>1, <5>2, CreateNewIsPlain DEF Anew
          <5> QED BY <5>1, <5>2 DEF SavedInv, StartsAnew
        <4> HIDE DEF rest
        <4>2. jobs'[s] = [job EXCEPT !.writes = rest]
          BY <1>1, <3>2 DEF rest
        <4>3. jobs'[s].writes = rest
          <5> HIDE DEF job
          <5> QED BY <1>2, <4>2
        <4> QED BY <4>1, <4>3
      <3> QED BY <3>1, <3>2
    <2>3. \A t \in Savers \ {s} : Plain(jobs'[t].writes) \/ Anew(jobs'[t])
      BY <1>1, <2>1 DEF SavedInv, StartsAnew, Anew
    <2> QED BY <2>1, <2>2, <2>3 DEF StartsAnew, Anew
  <1>4. ASSUME ~mixed' PROVE Shape(saved', size) /\ (Resting' \/ Alone(s)')
    <2>1. /\ \A t \in Savers \ {s} : jobs[t].writes = <<>>
          /\ Saver(job, saved, size, lastSave)
      <3>1. CASE ~mixed
        <4>1. ~Resting /\ \A t \in Savers : Alone(t) => t = s
          BY <1>1 DEF Resting, Alone
        <4> QED BY <3>1, <4>1 DEF SavedInv, Alone
      <3>2. CASE mixed
        <4>1. Head(job.writes) = Truncation /\ \A t \in Savers \ {s} : jobs[t].writes = <<>>
          BY <1>4, <3>2 DEF SaveStep, OtherSaves, Working
        <4>2. ~Plain(job.writes)
          <5> SUFFICES ASSUME NEW S, Truncation \notin S, job.writes \in Seq(S) PROVE FALSE
            BY DEF Plain
          <5> QED BY <1>1, <4>1, HeadTailProperties
        <4>3. Anew(job)
          BY <4>2 DEF SavedInv, StartsAnew
        <4>4. PICK doc \in Seq(Content) :
                job = [writes |-> CreateNew(doc), change |-> 0, document |-> doc, continues |-> FALSE]
          BY <4>3 DEF Anew
        <4> HIDE DEF job
        <4>5. job.writes = CreateNew(doc) /\ job.document = doc /\ job.continues = FALSE /\ SaverJob(job)
          BY <4>4 DEF SaverJob
        <4>6. Creating(job.writes, job.document, saved, size)
          BY <1>1, <4>5, CreateNewIsAhead
        <4> QED BY <4>1, <4>5, <4>6 DEF Saver, Ahead
      <3> QED BY <3>1, <3>2
    <2>2. /\ Shape(saved', size)
          /\ \/ jobs'[s].writes = <<>>
                /\ (lastSave'.state = "done" => Holds(saved', size, lastSave'.document))
             \/ Saver(jobs'[s], saved', size, lastSave')
      BY <1>1, <2>1, SaveGoesOn
    <2>3. \A t \in Savers \ {s} : jobs'[t].writes = <<>>
      BY <1>1, <2>1
    <2> QED BY <1>1, <2>2, <2>3 DEF Resting, Alone
  <1> QED BY <1>1, <1>3, <1>4 DEF SavedInv

\* The application ends in the middle of saves, or without one.
LEMMA SaveEnds ==
  ASSUME SavedInv, ArchiveInv, Crash, ~mixed
  PROVE  Resting'
  <1> DEFINE size == media.size
  <1>1. /\ \A s \in Savers : jobs'[s].writes = <<>>
        /\ UNCHANGED <<media, saved>>
    BY DEF Crash, Everyone, Idle
  <1>2. ASSUME lastSave'.state = "done" PROVE Holds(saved, size, lastSave'.document)
    <2>1. /\ lastSave' = lastSave
          /\ \A s \in Savers : Working(s) => jobs[s].continues
      BY <1>2 DEF Crash
    <2>2. CASE Resting
      BY <1>2, <2>1, <2>2 DEF Resting
    <2>3. ASSUME NEW s \in Savers, Alone(s) PROVE Holds(saved, size, lastSave'.document)
      <3> DEFINE job == jobs[s]
      <3>1. Ahead(job.writes, job.document, job.continues, saved, size, lastSave)
        BY <2>3 DEF Alone, Saver
      <3>2. job.continues
        BY <2>1, <3>1, AheadIsWork DEF Working
      <3>3. PICK old \in Seq(Content) :
              /\ Appending(job.writes, job.document, saved, size, old)
              /\ lastSave.state = "done" => lastSave.document = old
        BY <3>1, <3>2 DEF Ahead
      <3> QED BY <1>2, <2>1, <3>3 DEF Appending
    <2> QED BY <2>2, <2>3 DEF SavedInv
  <1> QED BY <1>1, <1>2 DEF Resting

\* Every step keeps what is at the path of the archive.
LEMMA FileStep ==
  ArchiveInv /\ WorkingInv /\ SavedInv /\ JobsInv /\ [ArchiveNext]_archiveVars => SavedInv'
  <1> SUFFICES ASSUME ArchiveInv, WorkingInv, SavedInv, JobsInv, [ArchiveNext]_archiveVars
               PROVE  SavedInv'
    OBVIOUS
  <1> DEFINE size == media.size
  <1>1. /\ size \in Nat /\ StartsAnew
        /\ exported # NoExport =>
             exported.size \in Nat /\ Holds(exported.file, exported.size, exported.document)
    BY DEF SavedInv
  <1>2. StartsWithDocument(working)
    BY DEF WorkingInv
  <1>3. UNCHANGED media
    BY DEF ArchiveNext, BeginAppend, AppendStep, BeginSave, BeginSaveAs, SaveStep, Crash,
           ReplaceSaved, ExportArchive, archiveVars
  <1>4. \A doc : CreateNew(doc)' = CreateNew(doc)
    BY <1>3 DEF CreateNew
  <1>5. ASSUME UNCHANGED <<saved, mixed, lastSave>>, \A s \in Savers : jobs'[s] = jobs[s]
        PROVE  /\ StartsAnew'
               /\ ~mixed' => Shape(saved', size) /\ (Resting' \/ \E s \in Savers : Alone(s)')
    <2>1. StartsAnew'
      BY <1>1, <1>4, <1>5 DEF StartsAnew, Anew
    <2>2. Resting => Resting'
      BY <1>3, <1>5 DEF Resting
    <2>3. \A s \in Savers : Alone(s) => Alone(s)'
      BY <1>3, <1>5 DEF Alone
    <2> QED BY <1>5, <2>1, <2>2, <2>3 DEF SavedInv
  <1>6. ASSUME NEW w \in Writers, BeginAppend(w) \/ AppendStep(w) PROVE SavedInv'
    <2>1. UNCHANGED <<saved, exported, mixed, lastSave>>
      BY <1>6 DEF BeginAppend, AppendStep
    <2>2. PICK new : jobs' = [jobs EXCEPT ![w] = new]
      BY <1>6 DEF BeginAppend, AppendStep
    <2>3. \A s \in Savers : jobs'[s] = jobs[s]
      BY <2>2, ArchiveAssumption DEF ArchiveInv, Everyone
    <2> QED BY <1>1, <1>3, <1>5, <2>1, <2>3 DEF SavedInv
  <1>7. ASSUME NEW s \in Savers, BeginSave(s) \/ BeginSaveAs(s) PROVE SavedInv'
    <2>1. UNCHANGED <<saved, exported, lastSave>> /\ mixed' = (mixed \/ OtherSaves(s))
      BY <1>7 DEF BeginSave, BeginSaveAs
    <2>2. \A t \in Savers \ {s} : jobs'[t] = jobs[t]
      BY <1>7 DEF BeginSave, BeginSaveAs, ArchiveInv, Everyone
    <2>3. /\ Plain(jobs'[s].writes) \/ Anew(jobs'[s])
          /\ ~mixed' => Saver(jobs'[s], saved, size, lastSave)
      BY <1>2, <1>7, SaveBegins
    <2>4. StartsAnew'
      BY <1>1, <1>4, <2>2, <2>3 DEF StartsAnew, Anew
    <2>5. ASSUME ~mixed' PROVE Shape(saved', size) /\ Alone(s)'
      <3>1. \A t \in Savers \ {s} : jobs[t].writes = <<>>
        BY <2>1, <2>5 DEF OtherSaves, Working
      <3> QED BY <1>3, <2>1, <2>2, <2>3, <2>5, <3>1 DEF SavedInv, Alone
    <2> QED BY <1>1, <1>3, <2>1, <2>4, <2>5 DEF SavedInv
  <1>8. ASSUME NEW s \in Savers, SaveStep(s) PROVE SavedInv'
    BY <1>8, SaveStepKeeps
  <1>9. CASE Crash
    <2>1. UNCHANGED <<saved, exported, mixed>> /\ \A s \in Savers : jobs'[s].writes = <<>>
      BY <1>9 DEF Crash, Everyone, Idle
    <2>2. StartsAnew'
      BY <2>1, EmptyIsPlain DEF StartsAnew
    <2> QED BY <1>1, <1>3, <1>9, <2>1, <2>2, SaveEnds DEF SavedInv
  <1>10. CASE ReplaceSaved
    <2>1. /\ UNCHANGED <<jobs, exported, mixed>> /\ \A s \in Savers : jobs[s].writes = <<>>
          /\ lastSave'.state = "failed"
      BY <1>10 DEF ReplaceSaved, Working
    <2>2. Resting' /\ StartsAnew'
      BY <2>1, EmptyIsPlain DEF Resting, StartsAnew
    <2>3. Shape(saved', size)
      <3> DEFINE doc == <<Cell(MaxAppends + 1)>>
      <3>1. saved' = <<>> \/ saved' = Saved(doc)
        BY <1>10 DEF ReplaceSaved
      <3>2. doc \in Seq(Content)
        <4>1. Cell(MaxAppends + 1) \in Content
          BY ArchiveAssumption, ContentIsAnyCell
        <4> QED BY <4>1
      <3> HIDE DEF doc
      <3>3. Holds(Saved(doc), size, doc) /\ Len(doc) \in Nat
        BY <1>1, <3>2, SavedHolds, LenProperties
      <3> QED BY <3>1, <3>3 DEF Shape, Holds
    <2> QED BY <1>1, <1>3, <2>1, <2>2, <2>3 DEF SavedInv
  <1>11. CASE ExportArchive
    <2>1. UNCHANGED <<saved, jobs, mixed, lastSave>>
      BY <1>11 DEF ExportArchive
    <2> DEFINE doc == Document(working)
    <2>2. doc \in Seq(Content)
      BY <1>2, <1>11, WorkingIsRead DEF ExportArchive
    <2>3. PICK n \in Nat :
            exported' = [file |-> ConcatArrays(<<TarHeader("media", n), MediaBytes(n),
                                                 TarHeader("document", Len(doc)), doc>>),
                         size |-> n, document |-> doc]
      <3>1. PICK best \in MediaSizes, original \in MediaSizes \cup {-1}, include \in BOOLEAN :
              LET n == IF include /\ original # -1 THEN original ELSE best IN
              exported' = [file |-> ConcatArrays(<<TarHeader("media", n), MediaBytes(n),
                                                   TarHeader("document", Len(doc)), doc>>),
                           size |-> n, document |-> doc]
        BY <1>11 DEF ExportArchive
      <3> DEFINE n == IF include /\ original # -1 THEN original ELSE best
      <3>2. n \in Nat
        BY ArchiveAssumption
      <3> HIDE DEF n, doc
      <3> WITNESS n \in Nat
      <3> QED BY <3>1 DEF n
    <2> HIDE DEF doc
    <2>4. Holds(exported'.file, exported'.size, exported'.document)
      BY <2>2, <2>3, ExportHolds
    <2>5. exported'.size \in Nat
      BY <2>3
    <2> QED BY <1>1, <1>3, <1>5, <2>1, <2>4, <2>5 DEF SavedInv
  <1>12. CASE UNCHANGED archiveVars
    <2>1. UNCHANGED <<saved, mixed, lastSave, jobs, exported>>
      BY <1>12 DEF archiveVars
    <2> QED BY <1>1, <1>3, <1>5, <2>1 DEF SavedInv
  <1> QED BY <1>6, <1>7, <1>8, <1>9, <1>10, <1>11, <1>12 DEF ArchiveNext

-----------------------------------------------------------------------------
(* The jobs                                                                *)

\* Nobody has anything ahead at first.
LEMMA JobsStart == ASSUME ArchiveInit PROVE JobsInv
  <1>1. media \in [size : MediaSizes, place : {"disk", "saved"}]
    BY DEF ArchiveInit
  <1>2. \A w \in Everyone : jobs[w] = Idle /\ ~Working(w)
    BY DEF ArchiveInit, Idle, Working
  <1>3. 0 \in 0 .. MaxAppends /\ 0 \in 0 .. MaxCrashes
    BY ArchiveAssumption
  <1>4. appended \in Seq(Changes)
    <2>1. CASE media.place = "saved"
      <3>1. MaxAppends >= 1
        BY ArchiveAssumption
      <3> QED BY <2>1, <3>1 DEF ArchiveInit, Changes
    <2>2. CASE media.place # "saved"
      BY <2>2 DEF ArchiveInit
    <2> QED BY <2>1, <2>2
  <1>5. /\ raced \in BOOLEAN /\ mixed \in BOOLEAN
        /\ lastSave.state \in {"none", "done", "failed"} /\ crashes \in 0 .. MaxCrashes
    BY <1>3 DEF ArchiveInit
  <1> QED BY <1>1, <1>2, <1>3, <1>4, <1>5 DEF JobsInv, Idle, Everyone

\* A writer that has nothing ahead takes an unused change, or its job goes on.
LEMMA JobsOfWriter ==
  ASSUME JobsInv, DOMAIN jobs = Everyone, NEW w \in Writers, BeginAppend(w) \/ AppendStep(w)
  PROVE  JobsInv'
  <1>1. /\ w \in Everyone /\ UNCHANGED <<media, mixed, lastSave, crashes>>
        /\ MaxAppends \in Nat /\ Changes = 1 .. MaxAppends
    BY ArchiveAssumption DEF BeginAppend, AppendStep, Everyone, Changes
  <1>2. /\ media \in [size : MediaSizes, place : {"disk", "saved"}]
        /\ appended \in Seq(Changes) /\ raced \in BOOLEAN /\ mixed \in BOOLEAN
        /\ lastSave.state \in {"none", "done", "failed"} /\ crashes \in 0 .. MaxCrashes
    BY DEF JobsInv
  <1>3. ASSUME NEW job, jobs' = [jobs EXCEPT ![w] = job],
               job = [writes |-> job.writes, change |-> job.change,
                      document |-> job.document, continues |-> job.continues],
               job.change \in 0 .. MaxAppends, job.writes # <<>> => job.change \in Changes,
               appended' \in Seq(Changes), raced' \in BOOLEAN
        PROVE  JobsInv'
    <2>1. \A v \in Everyone : jobs'[v] = IF v = w THEN job ELSE jobs[v]
      BY <1>3
    <2>2. \A v \in Everyone :
            /\ jobs'[v] = [writes |-> jobs'[v].writes, change |-> jobs'[v].change,
                           document |-> jobs'[v].document, continues |-> jobs'[v].continues]
            /\ jobs'[v].change \in 0 .. MaxAppends
      <3> TAKE v \in Everyone
      <3>1. CASE v = w
        BY <1>3, <2>1, <3>1
      <3>2. CASE v # w
        BY <2>1, <3>2 DEF JobsInv
      <3> QED BY <3>1, <3>2
    <2>3. \A v \in Writers : jobs'[v].writes # <<>> => jobs'[v].change \in Changes
      <3> TAKE v \in Writers
      <3>1. v \in Everyone
        BY DEF Everyone
      <3>2. CASE v = w
        BY <1>3, <2>1, <3>1, <3>2
      <3>3. CASE v # w
        BY <2>1, <3>1, <3>3 DEF JobsInv, Working
      <3> QED BY <3>2, <3>3
    <2> QED BY <1>1, <1>2, <1>3, <2>2, <2>3 DEF JobsInv, Working
  <1>4. CASE BeginAppend(w)
    <2> DEFINE c == CHOOSE c \in Unused : \A d \in Unused : c <= d
               writes == AppendChange(working, <<Cell(c)>>)
               job == [[Idle EXCEPT !.writes = writes] EXCEPT !.change = c]
    <2>1. jobs' = [jobs EXCEPT ![w] = job]
      BY <1>4 DEF BeginAppend
    <2>2. c \in Changes
      <3> DEFINE S == Unused
      <3>1. S \in SUBSET Nat /\ S # {} /\ S \subseteq Changes
        BY <1>1, <1>4 DEF BeginAppend, Unused
      <3> HIDE DEF S
      <3>2. \E n \in S : \A m \in S : n <= m
        BY <3>1, LeastNat
      <3>3. (CHOOSE n \in S : \A m \in S : n <= m) \in S
        BY <3>2
      <3> QED BY <3>1, <3>3 DEF S
    <2>3. appended' = appended /\ raced' \in BOOLEAN
      BY <1>4 DEF BeginAppend
    <2> HIDE DEF c, writes
    <2>4. /\ job = [writes |-> job.writes, change |-> job.change,
                    document |-> job.document, continues |-> job.continues]
          /\ job.change = c
      <3>1. job = [[Idle EXCEPT !.writes = writes] EXCEPT !.change = c]
        OBVIOUS
      <3> HIDE DEF job
      <3>2. job = [writes |-> writes, change |-> c, document |-> <<>>, continues |-> FALSE]
        BY <3>1 DEF Idle
      <3> QED BY <3>2
    <2>5. c \in 0 .. MaxAppends
      BY <1>1, <2>2
    <2> HIDE DEF job
    <2> QED BY <1>2, <1>3, <2>1, <2>2, <2>3, <2>4, <2>5
  <1>5. CASE AppendStep(w)
    <2> DEFINE old == jobs[w]
    <2>1. /\ old = [writes |-> old.writes, change |-> old.change,
                    document |-> old.document, continues |-> old.continues]
          /\ old.change \in Changes
      BY <1>1, <1>5 DEF AppendStep, JobsInv
    <2>2. raced' = raced
      BY <1>5 DEF AppendStep
    <2>3. CASE Len(old.writes) = 1
      <3>1. jobs' = [jobs EXCEPT ![w] = Idle] /\ appended' = Append(appended, old.change)
        BY <1>5, <2>3 DEF AppendStep
      <3>2. appended' \in Seq(Changes)
        BY <1>2, <2>1, <3>1, AppendProperties
      <3>3. /\ Idle = [writes |-> Idle.writes, change |-> Idle.change,
                       document |-> Idle.document, continues |-> Idle.continues]
            /\ Idle.change \in 0 .. MaxAppends /\ Idle.writes = <<>>
        BY <1>1 DEF Idle
      <3> QED BY <1>2, <1>3, <2>2, <3>1, <3>2, <3>3
    <2>4. CASE Len(old.writes) # 1
      <3> DEFINE rest == Tail(old.writes)
                 job == [old EXCEPT !.writes = rest]
      <3>1. jobs' = [jobs EXCEPT ![w] = job] /\ appended' = appended
        BY <1>5, <2>4 DEF AppendStep
      <3> HIDE DEF rest, old
      <3>2. job = [writes |-> rest, change |-> old.change,
                   document |-> old.document, continues |-> old.continues]
        BY <2>1
      <3>3. /\ job = [writes |-> job.writes, change |-> job.change,
                      document |-> job.document, continues |-> job.continues]
            /\ job.change = old.change
        BY <3>2
      <3>4. job.change \in 0 .. MaxAppends
        BY <1>1, <2>1, <3>3
      <3> HIDE DEF job
      <3> QED BY <1>2, <1>3, <2>1, <2>2, <3>1, <3>3, <3>4
    <2> QED BY <2>3, <2>4
  <1> QED BY <1>4, <1>5

\* Every step keeps the jobs.
LEMMA JobsStep == ArchiveInv /\ JobsInv /\ [ArchiveNext]_archiveVars => JobsInv'
  <1> SUFFICES ASSUME ArchiveInv, JobsInv, [ArchiveNext]_archiveVars PROVE JobsInv'
    OBVIOUS
  <1>1. /\ DOMAIN jobs = Everyone /\ Savers \subseteq Everyone /\ Savers \cap Writers = {}
        /\ 0 \in 0 .. MaxAppends
    BY ArchiveAssumption DEF ArchiveInv, Everyone
  <1>2. ASSUME UNCHANGED <<media, appended, raced, crashes>>, mixed' \in BOOLEAN,
               lastSave'.state \in {"none", "done", "failed"},
               UNCHANGED jobs \/ \E s \in Savers : \E job :
                 /\ jobs' = [jobs EXCEPT ![s] = job]
                 /\ job = [writes |-> job.writes, change |-> job.change,
                           document |-> job.document, continues |-> job.continues]
                 /\ job.change \in 0 .. MaxAppends
        PROVE  JobsInv'
    <2>1. CASE UNCHANGED jobs
      BY <1>2, <2>1 DEF JobsInv, Working
    <2>2. ASSUME NEW s \in Savers, NEW job, jobs' = [jobs EXCEPT ![s] = job],
                 job = [writes |-> job.writes, change |-> job.change,
                        document |-> job.document, continues |-> job.continues],
                 job.change \in 0 .. MaxAppends
          PROVE  JobsInv'
      <3>1. \A v \in Everyone : jobs'[v] = IF v = s THEN job ELSE jobs[v]
        BY <1>1, <2>2
      <3>2. \A v \in Everyone :
              /\ jobs'[v] = [writes |-> jobs'[v].writes, change |-> jobs'[v].change,
                             document |-> jobs'[v].document, continues |-> jobs'[v].continues]
              /\ jobs'[v].change \in 0 .. MaxAppends
        <4> TAKE v \in Everyone
        <4>1. CASE v = s
          BY <1>1, <2>2, <3>1, <4>1
        <4>2. CASE v # s
          BY <3>1, <4>2 DEF JobsInv
        <4> QED BY <4>1, <4>2
      <3>3. \A v \in Writers : jobs'[v] = jobs[v]
        BY <1>1, <3>1 DEF Everyone
      <3> QED BY <1>2, <3>2, <3>3 DEF JobsInv, Working
    <2> QED BY <1>2, <2>1, <2>2
  <1>3. CASE \E w \in Writers : BeginAppend(w) \/ AppendStep(w)
    BY <1>1, <1>3, JobsOfWriter
  <1>4. lastSave.state \in {"none", "done", "failed"} /\ mixed \in BOOLEAN
    BY DEF JobsInv
  <1>5. ASSUME NEW s \in Savers, BeginSave(s) PROVE JobsInv'
    <2> DEFINE writes == IF Document(saved) = Nothing THEN CreateNew(Document(working))
                         ELSE UpdateFile(saved, Document(working))
               doc == Document(working)
               continues == Document(saved) # Nothing /\ IsPrefix(Document(saved), Document(working))
               job == [writes |-> writes, change |-> 0, document |-> doc, continues |-> continues]
    <2>1. /\ jobs' = [jobs EXCEPT ![s] = job] /\ mixed' \in BOOLEAN
          /\ UNCHANGED <<media, appended, raced, crashes, lastSave>>
      BY <1>5 DEF BeginSave
    <2> HIDE DEF writes, doc, continues
    <2>2. /\ job = [writes |-> job.writes, change |-> job.change,
                    document |-> job.document, continues |-> job.continues]
          /\ job.change \in 0 .. MaxAppends
      BY <1>1
    <2> HIDE DEF job
    <2> QED BY <1>2, <1>4, <2>1, <2>2
  <1>6. ASSUME NEW s \in Savers, BeginSaveAs(s) PROVE JobsInv'
    <2> DEFINE writes == CreateNew(Document(working))
               doc == Document(working)
               job == [[Idle EXCEPT !.writes = writes] EXCEPT !.document = doc]
    <2>1. /\ jobs' = [jobs EXCEPT ![s] = job] /\ mixed' \in BOOLEAN
          /\ UNCHANGED <<media, appended, raced, crashes, lastSave>>
      BY <1>6 DEF BeginSaveAs
    <2> HIDE DEF writes, doc
    <2>2. /\ job = [writes |-> job.writes, change |-> job.change,
                    document |-> job.document, continues |-> job.continues]
          /\ job.change \in 0 .. MaxAppends
      <3>1. job = [[Idle EXCEPT !.writes = writes] EXCEPT !.document = doc]
        OBVIOUS
      <3> HIDE DEF job
      <3>2. job = [writes |-> writes, change |-> 0, document |-> doc, continues |-> FALSE]
        BY <3>1 DEF Idle
      <3> QED BY <1>1, <3>2
    <2> HIDE DEF job
    <2> QED BY <1>2, <1>4, <2>1, <2>2
  <1>7. ASSUME NEW s \in Savers, SaveStep(s) PROVE JobsInv'
    <2> DEFINE old == jobs[s]
    <2>1. UNCHANGED <<media, appended, raced, crashes>> /\ mixed' \in BOOLEAN
      BY <1>7 DEF SaveStep
    <2>2. lastSave'.state \in {"none", "done", "failed"}
      BY <1>4, <1>7 DEF SaveStep
    <2>3. /\ old = [writes |-> old.writes, change |-> old.change,
                    document |-> old.document, continues |-> old.continues]
          /\ old.change \in 0 .. MaxAppends
      BY <1>1 DEF JobsInv
    <2>4. CASE Len(old.writes) = 1
      <3>1. jobs' = [jobs EXCEPT ![s] = Idle]
        BY <1>7, <2>4 DEF SaveStep
      <3>2. /\ Idle = [writes |-> Idle.writes, change |-> Idle.change,
                       document |-> Idle.document, continues |-> Idle.continues]
            /\ Idle.change \in 0 .. MaxAppends
        BY <1>1 DEF Idle
      <3> QED BY <1>2, <2>1, <2>2, <3>1, <3>2
    <2>5. CASE Len(old.writes) # 1
      <3> DEFINE rest == Tail(old.writes)
                 job == [old EXCEPT !.writes = rest]
      <3>1. jobs' = [jobs EXCEPT ![s] = job]
        BY <1>7, <2>5 DEF SaveStep
      <3> HIDE DEF rest, old
      <3>2. job = [writes |-> rest, change |-> old.change,
                   document |-> old.document, continues |-> old.continues]
        BY <2>3
      <3>3. /\ job = [writes |-> job.writes, change |-> job.change,
                      document |-> job.document, continues |-> job.continues]
            /\ job.change \in 0 .. MaxAppends
        BY <2>3, <3>2
      <3> HIDE DEF job
      <3> QED BY <1>2, <2>1, <2>2, <3>1, <3>3
    <2> QED BY <2>4, <2>5
  <1>8. CASE Crash
    <2>1. /\ UNCHANGED <<media, appended, raced, mixed>> /\ \A w \in Everyone : jobs'[w] = Idle
          /\ lastSave' = lastSave \/ lastSave' = [state |-> "failed"]
          /\ crashes < MaxCrashes /\ crashes' = crashes + 1
      BY <1>8 DEF Crash
    <2>2. crashes' \in 0 .. MaxCrashes
      BY <2>1, ArchiveAssumption DEF JobsInv
    <2>3. lastSave'.state \in {"none", "done", "failed"}
      BY <1>4, <2>1
    <2>4. \A w \in Writers : jobs'[w].writes = <<>>
      BY <2>1 DEF Idle, Everyone
    <2>5. \A w \in Everyone :
            /\ jobs'[w] = [writes |-> jobs'[w].writes, change |-> jobs'[w].change,
                           document |-> jobs'[w].document, continues |-> jobs'[w].continues]
            /\ jobs'[w].change \in 0 .. MaxAppends
      BY <1>1, <2>1 DEF Idle
    <2> QED BY <2>1, <2>2, <2>3, <2>4, <2>5 DEF JobsInv, Working
  <1>9. CASE ReplaceSaved \/ ExportArchive \/ UNCHANGED archiveVars
    <2>1. /\ UNCHANGED <<media, jobs, appended, raced, mixed, crashes>>
          /\ lastSave' = lastSave \/ lastSave' = [state |-> "failed"]
      BY <1>9 DEF ReplaceSaved, ExportArchive, archiveVars
    <2>2. lastSave'.state \in {"none", "done", "failed"}
      BY <1>4, <2>1
    <2> QED BY <1>2, <1>4, <2>1, <2>2
  <1> QED BY <1>3, <1>5, <1>6, <1>7, <1>8, <1>9 DEF ArchiveNext

-----------------------------------------------------------------------------
(* Theorems                                                                *)

\* The state is as it should be in every behaviour.
LEMMA StateCorrect == DesktopSpec => []StateInv
  <1>1. DesktopInit => StateInv
    BY StateInit
  <1> QED BY <1>1, StateStep, PTL DEF DesktopSpec

LEMMA DesktopStart == DesktopInit => KnownInv /\ ShowInv /\ TitleInv /\ SaveInv
  <1> SUFFICES ASSUME DesktopInit PROVE KnownInv /\ ShowInv /\ TitleInv /\ SaveInv
    OBVIOUS
  <1>1. /\ Listed = {} /\ changes = 0
        /\ \A id \in Ids : contents[id] = NoFile /\ pages[id] = Closed
        /\ \A path \in Paths : files[path] = NoFile \/ files[path] = <<>>
        /\ \A c \in Commands : commands[c] = NoCommand
    BY DEF DesktopInit, Listed
  <1>2. KnownInv
    <2>1. Known = {-2, -1, 0} /\ Range(NoFile) = {-1}
      <3>1. DOMAIN NoFile = {1} /\ NoFile[1] = -1
        BY DEF NoFile
      <3> QED BY <1>1, <3>1 DEF Known, Range
    <2>2. KnownPage(Closed, Known)
      BY ClosedIsSound, EmptyRange DEF KnownPage
    <2> HIDE DEF NoFile
    <2> QED BY <1>1, <2>1, <2>2, EmptyRange, NoCommandIsPlaced
            DEF KnownInv, KnownContents, KnownPages, KnownFiles, KnownCommands
  <1>3. \A c \in Commands : Right(c)
    BY <1>1, NoCommandIsPlaced DEF Right, Current
  <1> QED BY <1>1, <1>2, <1>3 DEF ShowInv, TitleInv, SaveInv, SavedIsInFile

\* A window shows what is in the working copy of its document as soon as nothing
\* waits, whichever of the page and the worker changes it and however often it was
\* saved.  What it lacks is exactly what the worker added between the page's reading
\* and its listening, and what the worker built on that.
THEOREM WindowShowsDocumentCorrect == DesktopSpec => []WindowShowsDocument
  <1>1. ShowInv => WindowShowsDocument
    <2> SUFFICES ASSUME ShowInv, NEW id \in Listed, pages[id].at = "listening",
                        pages[id].events = <<>>, pages[id].outbox = <<>>
                 PROVE  Range(pages[id].doc) = Range(contents[id]) \ lost[id]
      BY DEF WindowShowsDocument
    <2>1. ShowsDocument(id)
      BY DEF ShowInv
    <2> QED BY <2>1, EmptyRange DEF ShowsDocument
  <1>2. /\ StateInv /\ StateInv' /\ KnownInv /\ ShowInv /\ [DesktopNext]_desktopVars
        => KnownInv' /\ ShowInv'
    BY KnownStep, ShowStep DEF StateInv
  <1> QED BY <1>1, <1>2, DesktopStart, StateCorrect, PTL DEF DesktopSpec

\* What titles and files say of what is saved is true, however the steps of several
\* saves and openings interleave with changes, forgetting and each other.
THEOREM SavedStateIsTrueCorrect == DesktopSpec => []SavedStateIsTrue
  <1>1. TitleInv => TitleTellsUnsaved
    BY DEF TitleInv, TitleTellsUnsaved, Tells
  <1>2. TitleInv /\ SaveInv => SavedStateIsTrue
    BY <1>1 DEF SavedStateIsTrue, SaveInv
  <1>3. /\ StateInv /\ StateInv' /\ TitleInv /\ SaveInv /\ [DesktopNext]_desktopVars
        => TitleInv' /\ SaveInv'
    BY TitleStep, SavedStep DEF StateInv
  <1> QED BY <1>2, <1>3, DesktopStart, StateCorrect, PTL DEF DesktopSpec

\* The pages, the table of documents and the commands under way keep their types.
THEOREM DesktopTypeCorrect == DesktopSpec => []DesktopTypeOK
  <1>1. StateInv => DesktopTypeOK
    <2> SUFFICES ASSUME StateInv PROVE DesktopTypeOK
      OBVIOUS
    <2>1. /\ Listed \subseteq Ids /\ \A id \in Listed : documents[id] \in Row
          /\ DOMAIN contents = Ids /\ DOMAIN files = Paths
      BY DEF StateInv, LibraryInv
    <2>2. \A id \in Ids :
            /\ pages[id].at \in {"closed", "reading", "loaded", "listening"}
            /\ Len(pages[id].events) <= MaxEvents
      BY DEF StateInv, PagesInv, Page
    <2>3. \A c \in Commands :
            /\ commands[c].stage \in Stages
            /\ commands[c].id \in Ids \cup {0} /\ commands[c].path \in Paths \cup {NoPath}
      BY DEF StateInv, CommandsInv, Command
    <2>4. /\ asked \in Ids \cup {NotAsked} /\ overtaken \subseteq Ids
          /\ \A id \in Ids : lost[id] \subseteq 1 .. changes
      BY DEF StateInv, HistoryInv
    <2> QED BY <2>1, <2>2, <2>3, <2>4 DEF Row, Stages, DesktopTypeOK
  <1> QED BY <1>1, StateCorrect, PTL

\* Whenever the application ends, between any two writes, the working copy holds
\* the changes appended so far and no half of another: for every block size and
\* any number of writers and changes, as long as no two append at a time.
THEOREM WorkingCopySurvivesCorrect == ArchiveSpec => []WorkingCopySurvives
  <1>1. ArchiveInv => WorkingCopySurvives
    BY DocumentIsRead DEF ArchiveInv, WorkingCopySurvives
  <1> QED BY <1>1, ArchiveStart, ArchiveStep, PTL DEF ArchiveSpec

\* What was saved or exported reads back, for the desktop application and for the web
\* page, and a save that continues a file leaves the old document or the new one,
\* wherever it stops: for media of any size, any document, any block size and any
\* number of saves, except while those that overlapped have not been followed by one
\* that makes the file anew alone, and where the last save failed.
THEOREM ArchivesReadBackCorrect == ArchiveSpec => []ArchivesReadBack
  <1>1. ArchiveInit => ArchiveInv /\ WorkingInv /\ SavedInv /\ JobsInv
    BY ArchiveStart, WorkingStart, FileStart, JobsStart
  <1>2. /\ ArchiveInv /\ WorkingInv /\ SavedInv /\ JobsInv /\ [ArchiveNext]_archiveVars
        => ArchiveInv' /\ WorkingInv' /\ SavedInv' /\ JobsInv'
    BY ArchiveStep, WorkingStep, FileStep, JobsStep, Zenon
  <1>3. SavedInv => ArchivesReadBack
    <2> SUFFICES ASSUME SavedInv PROVE ArchivesReadBack
      OBVIOUS
    <2> DEFINE ReadsBack(file, size, document) ==
                 /\ BytesOfFile(file, "media") = MediaBytes(size)
                 /\ Document(file) = document
                 /\ document # <<>> =>
                      LoadTranscribeeArchive(file) =
                        [media |-> MediaBytes(size), document |-> document]
    <2>1. ASSUME NEW file, NEW size \in Nat, NEW document, Holds(file, size, document)
          PROVE  ReadsBack(file, size, document)
      BY <2>1, ArchiveIsRead, ArchiveIsLoaded
    <2>2. media.size \in Nat
      BY DEF SavedInv
    <2>3. ASSUME ~mixed, lastSave.state = "done"
          PROVE  IF \E s \in Savers : Working(s)
                 THEN \A s \in Savers : Working(s) /\ jobs[s].continues
                         => Document(saved) \in {lastSave.document, jobs[s].document}
                 ELSE ReadsBack(saved, media.size, lastSave.document)
      <3>1. CASE Resting
        <4>1. Holds(saved, media.size, lastSave.document) /\ ~\E s \in Savers : Working(s)
          BY <2>3, <3>1 DEF Resting, Working
        <4> HIDE DEF ReadsBack
        <4> QED BY <2>1, <2>2, <4>1
      <3>2. ASSUME NEW s \in Savers, Alone(s)
            PROVE  /\ Working(s)
                   /\ \A t \in Savers : Working(t) /\ jobs[t].continues
                         => Document(saved) = lastSave.document
        <4> DEFINE job == jobs[s]
        <4>1. /\ Ahead(job.writes, job.document, job.continues, saved, media.size, lastSave)
              /\ \A t \in Savers : Working(t) => t = s
          BY <3>2 DEF Alone, Saver, Working
        <4>2. Working(s)
          BY <4>1, AheadIsWork DEF Working
        <4>3. job.continues => Document(saved) = lastSave.document
          <5> SUFFICES ASSUME job.continues PROVE Document(saved) = lastSave.document
            OBVIOUS
          <5>1. PICK old \in Seq(Content) :
                  /\ Appending(job.writes, job.document, saved, media.size, old)
                  /\ lastSave.state = "done" => lastSave.document = old
            BY <4>1 DEF Ahead
          <5>2. Holds(saved, media.size, old)
            BY <5>1 DEF Appending
          <5> QED BY <2>2, <2>3, <5>1, <5>2, ArchiveIsRead
        <4> QED BY <4>1, <4>2, <4>3
      <3> HIDE DEF ReadsBack
      <3> QED BY <2>3, <3>1, <3>2 DEF SavedInv
    <2>4. exported # NoExport => ReadsBack(exported.file, exported.size, exported.document)
      BY <2>1 DEF SavedInv
    <2> HIDE DEF ReadsBack
    <2> QED BY <2>3, <2>4 DEF ArchivesReadBack, ReadsBack
  <1> QED BY <1>1, <1>2, <1>3, PTL DEF ArchiveSpec

\* The archives, the jobs and the histories keep their types.
THEOREM ArchiveTypeCorrect == ArchiveSpec => []ArchiveTypeOK
  <1>1. ArchiveInit => ArchiveInv /\ WorkingInv /\ SavedInv /\ JobsInv
    BY ArchiveStart, WorkingStart, FileStart, JobsStart
  <1>2. /\ ArchiveInv /\ WorkingInv /\ SavedInv /\ JobsInv /\ [ArchiveNext]_archiveVars
        => ArchiveInv' /\ WorkingInv' /\ SavedInv' /\ JobsInv'
    BY ArchiveStep, WorkingStep, FileStep, JobsStep
  <1>3. ArchiveInv /\ WorkingInv /\ SavedInv /\ JobsInv => ArchiveTypeOK
    <2> SUFFICES ASSUME ArchiveInv, WorkingInv, SavedInv, JobsInv PROVE ArchiveTypeOK
      OBVIOUS
    <2>1. ASSUME NEW file \in Seq(AnyCell)
          PROVE  \A i \in DOMAIN file : file[i].kind \in {"zero", "data", "header"}
      <3>1. \A c \in AnyCell : c.kind \in {"zero", "data", "header"}
        BY DEF AnyCell
      <3>2. DOMAIN file = 1 .. Len(file)
        BY LenProperties
      <3> QED BY <3>1, <3>2, ElementOfSeq
    <2>2. working \in Seq(AnyCell)
      BY DEF WorkingInv, StartsWithDocument
    <2>3. ~mixed => saved \in Seq(AnyCell)
      <3>1. <<>> \in Seq(AnyCell)
        OBVIOUS
      <3> QED BY <3>1 DEF SavedInv, Shape, MediaOnly, TwoEntries
    <2>4. HasCells(working) /\ (mixed \/ HasCells(saved))
      BY <2>1, <2>2, <2>3 DEF HasCells
    <2>5. DOMAIN jobs = Everyone /\ \A w \in Everyone : jobs[w].change \in 0 .. MaxAppends
      BY DEF ArchiveInv, JobsInv
    <2> QED BY <2>4, <2>5 DEF ArchiveTypeOK, JobsInv
  <1> QED BY <1>1, <1>2, <1>3, PTL DEF ArchiveSpec

\* The application as it runs, at either level: its documents and windows behave
\* as that part does alone, and so do its archives; what is proved of these holds
\* of it.
THEOREM AppRunsItsParts == AppSpec => ArchiveSpec /\ DesktopSpec
  <1>1. AppInit => ArchiveInit /\ DesktopInit
    BY DEF AppInit
  <1>2. [AppNext]_appVars => [ArchiveNext]_archiveVars /\ [DesktopNext]_desktopVars
    BY DEF AppNext, appVars
  <1> QED BY <1>1, <1>2, PTL DEF AppSpec, ArchiveSpec, DesktopSpec

\* Whichever of the two is looked at keeps to its type.
THEOREM AppTypeCorrect == AppSpec => []AppTypeOK
  <1>1. ArchiveTypeOK /\ DesktopTypeOK => AppTypeOK
    BY DEF AppTypeOK
  <1> QED BY <1>1, AppRunsItsParts, ArchiveTypeCorrect, DesktopTypeCorrect, PTL

=============================================================================
