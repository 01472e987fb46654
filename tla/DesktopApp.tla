------------------------------ MODULE DesktopApp ------------------------------
(***************************************************************************)
(* The desktop application: its home window (pages/home.tsx), the windows   *)
(* of documents (pages/document.tsx, menu.tsx, util/use_tauri_event.ts),    *)
(* the dialog for new transcripts, and the commands they invoke (cmd.rs,    *)
(* file_handling.rs), while the worker changes the same documents.          *)
(*                                                                         *)
(* A document is the sequence of its changes; how an archive holds them is  *)
(* the subject of TranscribeeArchive.  A change of the document table is    *)
(* one step (update_documents).  The commands that save and open files are  *)
(* asynchronous and take no lock: several are under way at once, each at    *)
(* its own stage.                                                          *)
(***************************************************************************)
EXTENDS Integers, Sequences, FiniteSets, SequencesExt

CONSTANTS
    Ids,            \* documents that may come to be
    Paths,          \* where users save
    Commands,       \* bound: as many commands are under way at once
    MaxChanges,     \* bound: changes made to all documents
    MaxEvents       \* bound: events that wait for a window

ASSUME DesktopAssumption ==
    /\ 0 \notin Ids /\ "none" \notin Paths     \* they stand for no document and no path
    /\ MaxChanges \in Nat /\ MaxEvents \in Nat \ {0}

VARIABLES
    documents,      \* documents.json: id -> where it is saved, unsaved changes, media
    contents,       \* id -> changes in its working copy
    files,          \* path -> changes in the archive saved there
    pages,          \* id -> its window
    commands,       \* saves and openings of files that are under way
    asked,          \* the document for whose deletion home asks
    changes,        \* history: changes made so far
    lost,           \* history: id -> changes that its window will not show
    overtaken       \* history: documents saved or opened while their copy or file changed,
                    \* or whose file was written for another since

desktopVars ==
    <<documents, contents, files, pages, commands, asked, changes, lost, overtaken>>

NoPath == "none"
NoFile == <<-1>>            \* no file, or one that cannot be read
Removed == <<-2>>           \* the working copy of a document that was forgotten
NotAsked == 0

Closed == [at |-> "closed", doc |-> <<>>, outbox |-> <<>>, events |-> <<>>,
           reply |-> "none", title |-> FALSE, heard |-> FALSE]

\* A command: how far it is, the document it saves, the path, whether it asks
\* for one, where the media are, and what it has read.
NoCommand == [stage |-> "idle", id |-> 0, path |-> NoPath, as |-> FALSE, from |-> NoPath,
              doc |-> <<>>, stale |-> FALSE]

Listed == DOMAIN documents
FreshIds == {id \in Ids : pages[id].at = "closed" /\ contents[id] = NoFile}

DesktopTypeOK ==
    /\ Listed \subseteq Ids
    /\ \A id \in Listed :
          documents[id] \in [save : Paths \cup {NoPath}, unsaved : BOOLEAN,
                             media : BOOLEAN, from : Paths \cup {NoPath}]
    /\ DOMAIN contents = Ids /\ DOMAIN files = Paths
    /\ \A id \in Ids :
          /\ pages[id].at \in {"closed", "reading", "loaded", "listening"}
          /\ Len(pages[id].events) <= MaxEvents
          /\ lost[id] \subseteq 1 .. changes
    /\ \A c \in Commands :
          /\ commands[c].stage \in {"idle", "begun", "read", "written", "kicked", "opened"}
          /\ commands[c].id \in Ids \cup {0} /\ commands[c].path \in Paths \cup {NoPath}
    /\ asked \in Ids \cup {NotAsked} /\ overtaken \subseteq Ids

DesktopInit ==
    /\ documents = [id \in {} |-> 0]
    /\ contents = [id \in Ids |-> NoFile]
    /\ files \in {f \in [Paths -> {NoFile, <<>>}] : \E p \in Paths : f[p] # NoFile}
    /\ pages = [id \in Ids |-> Closed]
    /\ commands = [c \in Commands |-> NoCommand]
    /\ asked = NotAsked
    /\ changes = 0
    /\ lost = [id \in Ids |-> {}] /\ overtaken = {}

----------------------------------------------------------------------------
(* What windows are told.  Events wait until a window handles them; a       *)
(* window that does not listen yet is not told.                             *)

\* Mutant: the listeners of the page are registered twice.
Mutant_Told(page, event) ==
    IF page.at = "listening" THEN [page EXCEPT !.events = @ \o <<event, event>>] ELSE page

Told(page, event) ==
    IF page.at = "listening" THEN [page EXCEPT !.events = Append(@, event)] ELSE page

HasRoom(id) == Len(pages[id].events) + 1 < MaxEvents

\* Mutant: the window hears of the state before.
Mutant_Announce(id, ps) ==
    [ps EXCEPT ![id] = Told(@, [kind |-> "document_changed",
                                unsaved |-> id \in Listed /\ documents[id].unsaved])]

\* update_document: the window hears of the new state of its document.
Announce(id, ps) ==
    [ps EXCEPT ![id] = Told(@, [kind |-> "document_changed",
                                unsaved |-> documents'[id].unsaved])]

\* update_document does nothing for a document that is gone.
UpdateDocument(id, field, value) ==
    documents' = IF id \in Listed
                 THEN [documents EXCEPT ![id] = [@ EXCEPT ![field] = value]] ELSE documents

AddDocument(id, doc) ==
    documents' = [d \in Listed \cup {id} |-> IF d = id THEN doc ELSE documents[d]]

Without(docs, gone) == [id \in DOMAIN docs \ gone |-> docs[id]]

----------------------------------------------------------------------------
(* Home: pages/home.tsx and the dialog for new transcripts.                 *)

TranscriptionQueue == {id \in Listed : documents[id].save = NoPath}
RecentDocuments == Listed \ TranscriptionQueue

\* One file of the dialog.  Its tasks follow in an update of their own, which
\* looks like any progress of the worker.
TranscribeFile(id) ==
    /\ id \in FreshIds
    /\ AddDocument(id, [save |-> NoPath, unsaved |-> FALSE, media |-> FALSE, from |-> NoPath])
    /\ contents' = [contents EXCEPT ![id] = <<>>]
    /\ UNCHANGED <<files, pages, commands, asked, changes, lost, overtaken>>

\* create_or_focus_document_window
ShowWindow(id) ==
    pages' = IF pages[id].at = "closed"
             THEN [pages EXCEPT ![id] = [Closed EXCEPT !.at = "reading"]] ELSE pages

\* A click on a document of the lists, or its context menu.
OpenDocumentWindow(id) ==
    /\ id \in Listed
    /\ ShowWindow(id)
    /\ UNCHANGED <<documents, contents, files, commands, asked, changes, lost, overtaken>>

\* open_document_via_file_picker, from either window: a document that has the
\* path is shown; otherwise the archive is read.
OpenFile(c, path) ==
    /\ commands[c] = NoCommand /\ files[path] # NoFile
    /\ LET opened == {id \in Listed : documents[id].save = path}
       IN  IF opened # {}
           THEN (\E id \in opened : ShowWindow(id)) /\ UNCHANGED commands
           ELSE /\ commands' = [commands EXCEPT ![c] =
                      [NoCommand EXCEPT !.stage = "opened", !.path = path, !.doc = files[path]]]
                /\ UNCHANGED pages
    /\ UNCHANGED <<documents, contents, files, asked, changes, lost, overtaken>>

\* What was read becomes a document with a window, whoever has the path by now.
FinishOpen(c, id) ==
    /\ commands[c].stage = "opened" /\ id \in FreshIds
    /\ LET path == commands[c].path
       IN  AddDocument(id, [save |-> path, unsaved |-> FALSE, media |-> TRUE, from |-> path])
    /\ contents' = [contents EXCEPT ![id] = commands[c].doc]
    /\ ShowWindow(id)
    /\ commands' = [commands EXCEPT ![c] = NoCommand]
    /\ overtaken' = IF commands[c].stale THEN overtaken \cup {id} ELSE overtaken \ {id}
    /\ UNCHANGED <<files, asked, changes, lost>>

IsDocumentOpen(id) == pages[id].at # "closed"

\* forget_document: the working copy is removed, whatever is unsaved in it.
ForgetDocument(id) ==
    /\ documents' = Without(documents, {id})
    /\ contents' = IF id \in Listed THEN [contents EXCEPT ![id] = Removed] ELSE contents

AskToDelete(id) ==
    /\ id \in TranscriptionQueue /\ ~IsDocumentOpen(id) /\ asked = NotAsked
    /\ asked' = id
    /\ UNCHANGED <<documents, contents, files, pages, commands, changes, lost, overtaken>>

\* The window may have been opened, or the document saved, since the question.
AnswerDelete(yes) ==
    /\ asked # NotAsked
    /\ asked' = NotAsked
    /\ IF yes THEN ForgetDocument(asked) ELSE UNCHANGED <<documents, contents>>
    /\ UNCHANGED <<files, pages, commands, changes, lost, overtaken>>

RemoveFromRecent(id) ==
    /\ id \in RecentDocuments /\ ~IsDocumentOpen(id)
    /\ ForgetDocument(id)
    /\ UNCHANGED <<files, pages, commands, asked, changes, lost, overtaken>>

----------------------------------------------------------------------------
(* The window of a document: useAutomergeLocalFileEditor.                   *)

\* read_automerge, and the editor is made; of a forgotten document it fails.
ReadAutomerge(id) ==
    /\ pages[id].at = "reading" /\ id \in Listed
    /\ pages' = [pages EXCEPT ![id].at = "loaded", ![id].doc = contents[id]]
    /\ UNCHANGED <<documents, contents, files, commands, asked, changes, lost, overtaken>>

\* The listeners of the page are in place.
Listen(id) ==
    /\ pages[id].at = "loaded"
    /\ pages' = [pages EXCEPT ![id].at = "listening"]
    /\ UNCHANGED <<documents, contents, files, commands, asked, changes, lost, overtaken>>

\* sendDocChange: the change is on its way to the command.
Edit(id) ==
    /\ pages[id].at \in {"loaded", "listening"} /\ changes < MaxChanges
    /\ pages' = [pages EXCEPT ![id].doc = Append(@, changes + 1),
                              ![id].outbox = Append(@, changes + 1)]
    /\ changes' = changes + 1
    /\ UNCHANGED <<documents, contents, files, commands, asked, lost, overtaken>>

\* A save that has read the working copy is overtaken by its change.
CopyChanged(id) ==
    [c \in Commands |-> IF commands[c].id = id /\ commands[c].stage # "begun"
                        THEN [commands[c] EXCEPT !.stale = TRUE] ELSE commands[c]]

\* The command append_automerge_change; for a document that is gone it fails.
AppendAutomergeChange(id) ==
    /\ pages[id].outbox # <<>> /\ HasRoom(id)
    /\ LET sent == [pages EXCEPT ![id].outbox = Tail(@)]
       IN  IF id \in Listed
           THEN /\ contents' = [contents EXCEPT ![id] = Append(@, Head(pages[id].outbox))]
                /\ UpdateDocument(id, "unsaved", TRUE)
                /\ pages' = Announce(id, sent)
                /\ commands' = CopyChanged(id)
           ELSE pages' = sent /\ UNCHANGED <<documents, contents, commands>>
    /\ UNCHANGED <<files, asked, changes, lost, overtaken>>

\* The worker has tasks for the documents that were made from media.
Worked(id) == id \in Listed /\ documents[id].from = NoPath

\* Mutant: the change is passed on, and not appended to the archive.
Mutant_WorkerChange(id) ==
    /\ Worked(id) /\ changes < MaxChanges /\ HasRoom(id)
    /\ changes' = changes + 1
    /\ UpdateDocument(id, "unsaved", TRUE)
    /\ pages' = Announce(id, [pages EXCEPT ![id] =
                     Told(@, [kind |-> "automerge_change", change |-> changes'])])
    /\ UNCHANGED <<contents, files, commands, asked, lost, overtaken>>

\* The worker adapter has a change of the worker: worker_plugin.rs.  A page that
\* has read and does not listen yet never gets it; and as each change of the
\* worker builds on those before, it shows none after it either.
WorkerChange(id) ==
    /\ Worked(id) /\ changes < MaxChanges /\ HasRoom(id)
    /\ changes' = changes + 1
    /\ contents' = [contents EXCEPT ![id] = Append(@, changes')]
    /\ UpdateDocument(id, "unsaved", TRUE)
    /\ pages' = Announce(id, [pages EXCEPT ![id] =
                     Told(@, [kind |-> "automerge_change", change |-> changes'])])
    /\ lost' = IF pages[id].at = "loaded" \/ lost[id] # {}
               THEN [lost EXCEPT ![id] = @ \cup {changes'}] ELSE lost
    /\ commands' = CopyChanged(id)
    /\ UNCHANGED <<files, asked, overtaken>>

\* The state of the worker's tasks changes.
WorkerProgress(id) ==
    /\ Worked(id) /\ HasRoom(id)
    /\ UNCHANGED documents
    /\ pages' = Announce(id, pages)
    /\ UNCHANGED <<contents, files, commands, asked, changes, lost, overtaken>>

\* The worker has reencoded the media: the document can be saved.
MediaFileAdded(id) ==
    /\ Worked(id) /\ HasRoom(id)
    /\ UpdateDocument(id, "media", TRUE)
    /\ pages' = Announce(id, pages)
    /\ UNCHANGED <<contents, files, commands, asked, changes, lost, overtaken>>

\* useTauriState: the question for the title, and its answer, which may come
\* after events that are younger.
GetDocument(id) ==
    /\ pages[id].at # "closed" /\ pages[id].reply = "none" /\ id \in Listed
    /\ pages' = [pages EXCEPT ![id].reply = IF documents[id].unsaved THEN "*" ELSE ""]
    /\ UNCHANGED <<documents, contents, files, commands, asked, changes, lost, overtaken>>

DeliverReply(id) ==
    /\ pages[id].reply \in {"*", ""}
    /\ pages' = [pages EXCEPT ![id].title = (pages[id].reply = "*"), ![id].heard = FALSE,
                              ![id].reply = "done"]
    /\ UNCHANGED <<documents, contents, files, commands, asked, changes, lost, overtaken>>

DeliverEvent(id) ==
    /\ pages[id].events # <<>>
    /\ LET event == Head(pages[id].events)
           page == [pages[id] EXCEPT !.events = Tail(@)]
       IN  pages' = [pages EXCEPT ![id] =
              CASE event.kind = "document_changed" ->
                      [page EXCEPT !.title = event.unsaved, !.heard = (page.reply = "done")]
                [] event.kind = "automerge_change" /\ event.change \in lost[id] -> page
                [] OTHER -> [page EXCEPT !.doc = Append(@, event.change)]]
    /\ UNCHANGED <<documents, contents, files, commands, asked, changes, lost, overtaken>>

CloseWindow(id) ==
    /\ pages[id].at # "closed" /\ pages[id].outbox = <<>>
    /\ pages' = [pages EXCEPT ![id] = Closed]
    /\ lost' = [lost EXCEPT ![id] = {}]
    /\ UNCHANGED <<documents, contents, files, commands, asked, changes, overtaken>>

----------------------------------------------------------------------------
(* Saving: the menu of a document's window.                                 *)

\* save_document and save_document_as_dialog take what the table says of the
\* document; without media there is nothing to save.
BeginSaving(c, id, path) ==
    /\ commands[c] = NoCommand
    /\ IsDocumentOpen(id) /\ id \in Listed /\ documents[id].media
    /\ commands' = [commands EXCEPT ![c] =
           [NoCommand EXCEPT !.stage = "begun", !.id = id, !.path = path,
                             !.as = (path = NoPath), !.from = documents[id].from]]
    /\ UNCHANGED <<documents, contents, files, pages, asked, changes, lost, overtaken>>

\* Without a path it asks for one.
SaveDocument(c, id) == id \in Listed /\ BeginSaving(c, id, documents[id].save)

SaveDocumentAs(c, id) == BeginSaving(c, id, NoPath)

CancelSave(c) ==
    /\ commands[c].stage = "begun" /\ commands[c].as
    /\ commands' = [commands EXCEPT ![c] = NoCommand]
    /\ UNCHANGED <<documents, contents, files, pages, asked, changes, lost, overtaken>>

\* The path is chosen and the working copy read, if it is still there.
ReadWorkingCopy(c) ==
    /\ commands[c].stage = "begun"
    /\ LET id == commands[c].id
       IN  IF contents[id] = Removed
           THEN commands' = [commands EXCEPT ![c] = NoCommand]
           ELSE \E path \in IF commands[c].as THEN Paths ELSE {commands[c].path} :
                   commands' = [commands EXCEPT ![c] = [@ EXCEPT !.stage = "read",
                                    !.path = path, !.doc = contents[id]]]
    /\ UNCHANGED <<documents, contents, files, pages, asked, changes, lost, overtaken>>

\* Save puts the changes into the archive that is there.  Otherwise create_new
\* empties the file, and then needs the media, which may be in an archive.
Archived(save) ==
    \/ ~save.as /\ files[save.path] # NoFile
    \/ save.from = NoPath
    \/ save.from \in Paths \ {save.path} /\ files[save.from] # NoFile

\* What others have read from the file, or written to it, is no longer there,
\* but for the saves of a document that is the same there as it was.
FileChanged(c, same) ==
    [d \in Commands |->
        IF /\ d # c /\ commands[d].path = commands[c].path
           /\ commands[d].stage \in {"opened", "written", "kicked"}
           /\ commands[d].id \notin same
        THEN [commands[d] EXCEPT !.stale = TRUE] ELSE commands[d]]

SavedAt(path) == {id \in Listed : documents[id].save = path}

WriteArchive(c) ==
    /\ commands[c].stage = "read" /\ Archived(commands[c])
    /\ LET save == commands[c]
           same == IF save.stale THEN {} ELSE {save.id}
       IN  /\ files' = [files EXCEPT ![save.path] = save.doc]
           /\ commands' = [FileChanged(c, same) EXCEPT ![c] = [save EXCEPT !.stage = "written"]]
           /\ overtaken' = overtaken \cup (SavedAt(save.path) \ same)
    /\ UNCHANGED <<documents, contents, pages, asked, changes, lost>>

WriteFails(c) ==
    /\ commands[c].stage = "read" /\ ~Archived(commands[c])
    /\ files' = [files EXCEPT ![commands[c].path] = NoFile]
    /\ commands' = [FileChanged(c, {}) EXCEPT ![c] = NoCommand]
    /\ overtaken' = overtaken \cup SavedAt(commands[c].path)
    /\ UNCHANGED <<documents, contents, pages, asked, changes, lost>>

\* update_documents of save_document_as_dialog: every document saved there goes.
KickOut(c) ==
    /\ commands[c].stage = "written" /\ commands[c].as
    /\ documents' = Without(documents, SavedAt(commands[c].path))
    /\ commands' = [commands EXCEPT ![c].stage = "kicked"]
    /\ UNCHANGED <<contents, files, pages, asked, changes, lost, overtaken>>

\* The document counts as saved, at the path chosen or wherever it is by now.
MarkSaved(c) ==
    /\ commands[c].stage = IF commands[c].as THEN "kicked" ELSE "written"
    /\ LET save == commands[c]
           id == save.id
       IN  /\ HasRoom(id)
           /\ IF id \in Listed
              THEN /\ documents' = [documents EXCEPT ![id] =
                         [@ EXCEPT !.save = IF save.as THEN save.path ELSE documents[id].save,
                                   !.unsaved = FALSE]]
                   /\ pages' = Announce(id, pages)
                   /\ overtaken' = IF save.stale \/ documents'[id].save # save.path
                                   THEN overtaken \cup {id} ELSE overtaken \ {id}
              ELSE UNCHANGED <<documents, pages, overtaken>>
    /\ commands' = [commands EXCEPT ![c] = NoCommand]
    /\ UNCHANGED <<contents, files, asked, changes, lost>>

DesktopNext ==
    \/ \E yes \in BOOLEAN : AnswerDelete(yes)
    \/ \E id \in Ids :
          \/ TranscribeFile(id) \/ OpenDocumentWindow(id) \/ AskToDelete(id) \/ RemoveFromRecent(id)
          \/ ReadAutomerge(id) \/ Listen(id) \/ Edit(id) \/ AppendAutomergeChange(id)
          \/ WorkerChange(id) \/ WorkerProgress(id) \/ MediaFileAdded(id)
          \/ GetDocument(id) \/ DeliverReply(id) \/ DeliverEvent(id) \/ CloseWindow(id)
    \/ \E c \in Commands :
          \/ \E path \in Paths : OpenFile(c, path)
          \/ \E id \in Ids : FinishOpen(c, id) \/ SaveDocument(c, id) \/ SaveDocumentAs(c, id)
          \/ CancelSave(c) \/ ReadWorkingCopy(c) \/ WriteArchive(c) \/ WriteFails(c)
          \/ KickOut(c) \/ MarkSaved(c)

DesktopSpec == DesktopInit /\ [][DesktopNext]_desktopVars

----------------------------------------------------------------------------
(* Properties.                                                             *)

\* Once nothing waits, a window shows what is in the working copy of its
\* document: the worker's changes, before and after it was saved, and its own.
\* The only ones it lacks are those the worker made between the page's reading
\* and its listening, and what the worker built on them.
WindowShowsDocument ==
    \A id \in Listed :
        pages[id].at = "listening" /\ pages[id].events = <<>> /\ pages[id].outbox = <<>>
            => Range(pages[id].doc) = Range(contents[id]) \ lost[id]

\* The star in the title tells of unsaved changes once the page has heard an
\* event after the answer to its question, and no event waits.  (Before that
\* event the answer may be older than what was announced, and the title wrong.)
TitleTellsUnsaved ==
    \A id \in Listed :
        pages[id].at = "listening" /\ pages[id].heard /\ pages[id].events = <<>>
            => pages[id].title = documents[id].unsaved

\* A document without unsaved changes is in the file where it was saved, with
\* every change, however many saves are under way, of it and of others: unless
\* it was changed after the save that counts had read it, another document or an
\* older save has been written over it, or a save failed there.
SavedIsInFile ==
    \A id \in Listed \ overtaken :
        documents[id].save # NoPath /\ ~documents[id].unsaved
            => Range(files[documents[id].save]) = Range(contents[id])

\* Saving a document under a path removes others that were saved there, and not
\* the document itself (cmd.rs, save_document_as_dialog).
OthersAreKickedOut ==
    [][\A c \in Commands :
          commands[c].stage = "written" /\ commands'[c].stage = "kicked"
              /\ commands[c].id \in Listed
            => commands[c].id \in DOMAIN documents']_desktopVars

\* What the user is told of what is saved is true: in the title of a window, and
\* in the file.
SavedStateIsTrue == TitleTellsUnsaved /\ SavedIsInFile

=============================================================================
