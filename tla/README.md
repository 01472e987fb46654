# transcribee in TLA+

[transcribee](../src/README.md) turns recordings into transcripts: a backend
keeps documents and a queue of tasks, worker processes transcribe, recognise
speakers, reencode and export, and browsers edit the transcripts together
through Automerge. A desktop application does the same on one machine.

This directory holds TLA+ models of its core, TLC configurations that check them
on small instances, and proofs that TLAPS checks. `PROJECT.json` lists the parts
of the system, the runs, the hazards, the source lines that each definition
models and the theorems.

    tlc -workers 2 -config TaskQueue_races.cfg MCTaskQueue.tla
    tlapm TaskQueueProofs.tla

## 1. Inventory

### Backend (`src/backend/transcribee_backend`)

| part | state | operations | what is hard |
|---|---|---|---|
| task queue: `routers/task.py`, `helpers/tasks.py`, `models/task.py` | tables `task`, `taskattempt`, `taskdependency` | create, claim, keepalive, mark_completed, mark_failed, timeout_attempts every few seconds, admin reset | requests read a task without locking it and write it later; the periodic job commits, and so unlocks, in the middle of its loop; workers die |
| documents and permissions: `routers/document.py`, `auth.py` | tables `document`, `documentmediafile`, `documentsharetoken` | create with default tasks, delete, share, import, export | deletion while workers and editors are at work |
| synchronisation: `helpers/sync.py` | table `documentupdate`, one consumer per websocket, the subscriptions of `sync_manager` | backlog, broadcast, store, disconnect | backlog against broadcasts; commits and connections that fail half way |
| export channel: `util/redis_task_channel.py` | a Redis list per task | put_result, wait_for_result | a result that comes twice or never |
| media storage: `media_storage.py` | files and their rows | store, serve | file and row are not written together |
| users, workers, metrics, admin commands | tables `user`, `usertoken`, `apitoken`, `worker` | one short transaction each | nothing interleaves but the deactivation of a worker |

One server process runs (`packaging/docker/run.sh`), with an event loop and a
thread pool: synchronous handlers run in threads and overlap, coroutines
interleave at each `await`.

### Worker (`src/worker/transcribee_worker`)

| part | state | operations | what is hard |
|---|---|---|---|
| loop: `worker.py`, `run.py` | the claimed task, `_result_data`, an asyncio task, `finish_event` | claim, keepalive, report, signals | lost requests, leases taken back, tasks deleted meanwhile, coroutines that outlive their task |
| document access: `document.py`, `api_client.py` | an Automerge document | open, change, close | broken connections |
| transcription: `whisper_transcribe.py`, `util.py` | a queue between thread and loop | bars to sentences | retry where the last attempt stopped; the fallback for endless sentences |
| speakers, reencoding, subtitles | none between tasks | pure, or ffmpeg's | repeated side effects on retry |

### User interface (`src/frontend`, `src/ui-common`)

| part | state | operations | what is hard |
|---|---|---|---|
| page of a document: `automerge_websocket_editor.ts` | the document, its connection, the changes sent | load, apply, send | messages whose bytes are awaited in no order, and that are read before React has rendered the editor they are for |
| player: `editor/player.tsx`, `utils/use_audio.ts` | a media element, and React's copy of its state | play, seek, skip, drag, change sources and rate | the element changes at once, React hears of it later; sources are replaced while others load |
| speakers: `editor/speaker_dropdown.tsx`, `utils/document.ts` | speakers of paragraphs, names, an open dialog | choose, create, rename, unset | the dialog is older than the document; others name and choose speakers, too |
| export: `editor/export`, `utils/export`, `export_to_podlove.ts` | dialog, settings | subtitles, text, upload | atoms without times, checks answered out of order |
| task progress: `transcription_progress.tsx` | none | tasks to pie, indicator, banner | many states, two independent texts |
| widgets: modal, dropdown, tooltip, menu, file picker, held buttons, video preview, debug mode | timers and flags | clicks, keys, timers | timers that outlive their cause |
| pages: `pages/`, `app.tsx`, `api/`, `share.tsx` | SWR's cache, the session in `localStorage` | fetch, rename, share, delete, create, log in and out | answers that are late, lost, refused or overtaken |

### Desktop (`src/desktop`)

| part | state | operations | what is hard |
|---|---|---|---|
| worker adapter: `worker-adapter/src` | an in-memory task container behind a lock, listeners | the worker API in Rust | tasks of workers that crash, order of notifications |
| application: `src-tauri/src/{cmd,file_handling,worker_plugin,window}.rs` | table of documents on disk | open, save, save as, forget, transcribe | commands without a lock that overlap each other, the worker and the page |
| windows: `src/pages`, `src/util/use_tauri_event.ts` | the document of a window, what it last heard | edit, listen, ask | events before the listener, answers after events |
| archive: `transcribee_archive.rs`, `tar.rs`, `utils/tar.ts`, `export/transcribee.tsx`, `transcribee_archive_reader.ts` | one file | append a change in place, rewrite, create, read | a crash between two writes; several saves at once |
| media server: `http_partial_content.rs`, `range_util.rs` | none | byte ranges | off-by-one at the ends |

### How the parts interact

Browsers and workers call the backend over HTTP; both edit documents over
websockets. `create_document` creates the tasks REENCODE, TRANSCRIBE and
IDENTIFY_SPEAKERS with their dependencies. A worker claims a task (a new
*attempt*), keeps it by keepalives, writes its results into the document over a
websocket, and reports the attempt as completed or failed; the periodic job takes
back attempts without keepalive. Automerge changes are stored in the order they
come and broadcast to everyone connected.

### What makes each part correct

* queue: one holder per task; attempts numbered; a finished task stays finished;
  the attempt limit; the order of dependencies; silent workers lose their task;
  every task ends.
* worker: never reports on a lease that it does not know; one task at a time;
  gives leases back; ends when asked to, and only then.
* synchronisation: nothing is seen that is not stored; nothing is missed between
  backlog and broadcast; nobody is sent a change without its causes; readers write nothing; everything stored
  reaches every page.
* archive: readable after every crash; nothing acknowledged is lost; application
  and web page read what either has written.
* desktop windows: they show their document; what they say of what is saved is true.
* player: what is shown is what is played; new sources do not move the listener.
* pages: once nothing is under way they show what the backend has.
* speakers and exports: the right paragraph gets the speaker; no word is lost.
* pure algorithms: no atom is lost, repeated or reordered.

## 2. Modules

    TaskLease              numbered leases: what the queue promises
      ^ implemented by TaskQueue       (TaskQueue.tla, LeaseSpec)
      ^ proved in TaskQueueProofs
      ^ extended by WorkerLoop         worker processes on top of the leases
    TaskQueue              tables, requests, periodic job, resets, restarts
    TaskQueueProofs        theorems about TaskQueue, with the refinement
    WorkerLoopProofs       theorems about WorkerLoop
    DocumentSync           changes between pages, workers and the backend
    DocumentSyncProofs     theorems about DocumentSync
    SentenceParagraphs     from whisper's bars to paragraphs
    SentenceProofs         theorems about SentenceParagraphs
    SequenceFacts          lemmas about sequences and numbers, for the proofs
    AudioPlayer            the player bar and its media element
    AudioPlayerProofs      theorems about AudioPlayer
    SpeakerEditing         speakers of paragraphs, with concurrent edits
    TranscriptExport       subtitles, plain text, upload
    TaskProgress           what is said of the tasks of a document
    Widgets                the parts with timers
    WebPages               one tab: session, cache, requests
    TranscribeeArchive     archives, write by write
    DesktopApp             documents, windows and saves of the desktop application
    DesktopProofs          theorems about DesktopApp, TranscribeeArchive and both together
    WebClientProofs        theorems about SpeakerEditing, WebPages, Widgets, TaskProgress,
                           TranscriptExport and the instance of them (extends AudioPlayerProofs)
    MCTaskQueue, MCWorkerLoop, MCDocumentSync, MCSentenceParagraphs,
    MCWebClient (the parts of the interface), MCDesktopApp (the last two)
                           instances for TLC

Definitions that start with `Mutant_` are the changes of the code that a property
is meant to notice; no specification uses them.

### TaskQueue

`task[t]` is the row in `task`, `attempts[t]` the rows in `taskattempt`, in order
of creation. Of a row, only `state`, `current_attempt`, `attempt_counter` and
`remaining_attempts` matter; of an attempt, its number, its worker, whether it
ended and whether its last keepalive is too old (`expired`, set by `Expire`, the
passing of time). `active` is the set of workers that are not deactivated.

A request is two steps: `Begin` (`get_authorized_task`: read and authorise,
without lock) and `CommitKeepalive` or `CommitFinish`. Between them anything may
happen, and `request[h]` is what the handler in thread `h` has read. SQLAlchemy
writes only the columns whose value changed compared to what was read, hence
`FinishedRow`. Claims are one step because `SELECT ... FOR UPDATE` excludes each
other. The periodic job is `SweepSelect` (lock the overdue rows), then for each
row `SweepRead` and `SweepCommit`; the commit releases *all* locks, which
`locked' = {}` says.

History: `overtaken` collects the tasks on which some commit wrote after the row
had changed since it was read. Several properties hold except for those tasks:
that is what the code guarantees, and no more. `resets` counts the admin's
resets and is the bound on them.

### TaskLease and the refinement

`TaskLease` says: tasks open and are withdrawn; a lease with the next number is
granted when nobody holds the task; a lease that was handed out can be released,
by which the task is with nobody. `Release(t, n)` allows `n` not to be the lease
in force: a report that was overtaken closes an old attempt but takes the task
from the new holder, and the code does exactly that. `TaskQueue` maps
`attempt_counter` to `granted`, the current attempt to `holder` and ended
attempts to `closed`.

### WorkerLoop

Processes as in `run.py` and `worker.py`, above the leases. `loop[w]` is where
`run` and `run_task` are, `computing[w]` the coroutines `perform_task` that exist
in the process, `latest[w]` whose entry is the last in `_result_data["progress"]`
(the body of keepalives), `finish[w]` is `finish_event`. Requests block the
process. A report that fails to connect may or may not have been accepted. What
the server authorises is `Accepted`: the task is with this worker, under whatever
attempt.

### DocumentSync

A change is its author and number; `made[c][n]` is what the n-th change of `c`
depends on: all that its author had applied. `Applied(S)` is what Automerge shows
of `S`. The server's side of a connection is `accepted` (subscribed; the backlog
is not read yet), `sending` (backlog read) and `live`. `queue` is `_msg_queue`;
`down` and `up` are the wires; `late` is what a broken connection still delivers
to its consumer; `reading` are the messages whose bytes a page awaits (`onMessage`
awaits `arrayBuffer()`, and nothing orders these awaits: `Read` takes any of them);
`deaf` are the connections whose listener died with a commit
(`run` looks only for `WebSocketDisconnect`, so they stay open). A page is
`loading`, `rendering` (it has a document; React has not set `editorRef`) or
`ready`.

### SentenceParagraphs

`strict_sentence_paragraphs` is a generator; a step is a bar taken by its outer
loop (`StartBar`, `SpecialBar`), an atom visited by the inner one (`VisitAtom`)
or the end. Atoms are numbered as they come. Of their text there is left what
decides: whether ICU sees a sentence end after an atom, whether
`DONT_SPLIT_HERE_RES` protects that place, and whether the bar is a special one
such as "[MUSIC]" (`DONT_COMBINE_RES`). `acc`, `used` and `kept` are
`acc_paragraph`, `acc_used_paras` and the children from `acc_yield_offset` on.
Bars are not empty: `whisper_segment_to_transcribee_segment` drops empty ones. A
special bar is one word, since its text holds no space. The function compares
language and speaker of successive bars; whisper as it is called sets one language
per recording and no speaker. `Languages` stands for both.

### AudioPlayer

`element` is the browser's: position, paused, rate, whether the sources are
loaded, and the queue of events it has not delivered. `ui` is React's view,
`last` is `lastPlaytimeRef`. Each control is an action on the element; React
follows with `DeliverEvent`, `Interpolate` (the timer of 100 ms) and the answers
of `Loaded`. Time is in ticks. That `load()` resets position, rate and queue is
the HTML standard's.

### SpeakerEditing

A paragraph is an object with a speaker. `dialog` keeps the object for which it
was opened, as the component's props do, and the index under which that object
was last rendered, which is what `ReactEditor.findPath` answers. What comes through
Automerge is `OthersEdit`, an insertion, a removal, or a new object for a paragraph,
and `OthersSpeak`, by which other users and the worker set the speaker of any
paragraphs, name a speaker, with names of the URL, too, or do both. A user may type
any name, also one that the URL offers.

### TranscriptExport

The formats are operators (`ParagraphToCues`, `GeneratePlaintext`); the dialog's
buttons and Podlove's answers are actions. `exported` keeps the structure that was
written. An option, such as whether names are included, is chosen when it is used.
The field that limits the length of a line takes effect even if its checkbox is
off, as in the code.

### TaskProgress, Widgets

`tasks` is what the page was last told. `calculateTranscriptionProgress` is kept
as a fraction. `Widgets` has one variable, the widget in use, since they do not
meet; each timer is an action. `met` has the presses of a held button whose timer met
that of another press, `hasty` says that a modal was opened while another faded: for
these the code keeps no promise (section 7).

### WebPages

One tab with a backend whose handlers are atomic. A fetch is sent (`asked`), read
by the backend (`read`) and delivered; a request of the user may be refused, lost
before it or lost after it. `Mutated`, `Overwritten` and `Appeared` are the parts of SWR
that the code relies on. All requests of a behaviour concern one `topic`: the
cache has no relation between its keys but the session. After `mutate()` the
answer of an older fetch is dropped, but its error is not: SWR looks for a newer
fetch only when there is an answer. `older` has those fetches of `me` that a login
superseded, and `OlderEnds` is the end of one: after an error nothing counts as
loading although the newer fetch is under way. `unheard` collects the
keys of which the tab knows that they changed but does not fetch (see section 7).

### TranscribeeArchive

A file is a sequence of cells; a block is two of them, so that every size is full,
half or over. `jobs` holds the writes that a command still has to make; `Crash`
drops them. Writers are the page's command and the worker adapter, which run in
different threads. Several saves may be under way at once, each with writes of its
own; `mixed` says that two were, until one alone makes the file anew. A save that
makes the file empties it first, and then fails if the media were in this very file or
do not fit into a header. `Document` and `BytesOfFile` read as tar.rs does,
`LoadTranscribeeArchive` as the web page does; the two differ (last entry against
first, and an entry of no bytes at the end).

### DesktopApp

`documents` is the table in `documents.json`, `contents` the working copies,
`files` what users saved, `pages` the windows. An event goes to a window that
listens; between `ReadAutomerge` and `Listen` none does.

`commands` are the saves and openings of files that are under way: they are `async`
and take no lock. A save is asked for (`BeginSaving`), its dialog is answered and the
working copy read (`ReadWorkingCopy`), the file is written (`WriteArchive`, or
`WriteFails`, after which the file is empty), others on its path are removed (`KickOut`,
Save As only) and the document is marked (`MarkSaved`); a file is read (`OpenFile`)
and becomes a document (`FinishOpen`). Anything may happen between these. `Worked`
says for which documents the worker has tasks: those made from media, saved or not.

`lost` has the changes that a window will not show: what the worker made between the
page's reading and its listening, and what it made afterwards, as Automerge keeps back
what builds on a change that is missing. `overtaken` has the documents that were
changed after the save that counts had read them, and those over whose file something
else was written since, or which a failed save has emptied; of these alone the code does
not promise that the file has them.

## 3. Runs

| run | instance | what it shows |
|---|---|---|
| queue_races | 1 task, 2 workers, 2 threads, 2 attempts | types, `QueueInv`, `CurrentIsNewest`, `OverrunBound`; implements `TaskLease` |
| queue_pipeline | 2 dependent tasks, 2 workers, 1 thread, 1 attempt, 1 reset | `BudgetUnlessOvertaken`, `LockedRowsAreHeld`, `PipelineOrder`, `CompletedIsStable` |
| queue_live | 2 dependent tasks, 1 worker, 1 thread, 2 attempts | `OverdueIsReclaimed` with a fair server; `ReadyTaskFinishes` with fair workers, too |
| worker_two | 2 processes, 1 task, 2 failures, 2 leases, fair | `ReportsOwnLease`, `OneAtATime`, `LeasesEnd`, `FinishesGracefully` |
| worker_deleted | 1 process, 1 task, no failure | **violates** `ProcessSurvives` |
| sentences_bars | bars of 1 or 2 atoms, 5 atoms, 2 languages, limit 1 | `NothingLost`, `SentencesInOrder`, `SplitsAreRight`, `ParagraphsAreBounded` |
| sync_faults | 2 pages, 2 changes, 2 faults | `StoreIsAhead`, `NothingMissed`, `CausalDelivery` |
| sync_reach | a reading page and a worker, 2 changes, 2 faults, fair | `StoredReachesPages` |
| sync_synced | 2 pages, no fault | **violates** `AllChangesSynced` |
| web_client | each part of the interface by itself, see below | `PlayerShowsElement`, `SwitchKeepsPlace`, `ChoicesKeepSpeakersApart`, `NewSpeakerHitsParagraph`, `ExportsAreSound`, `PartsTellTruth`, `QuietPagesAreCurrent`, `SignedInIsNotSentToLogin` |
| desktop_app | 2 levels of archives and 3 of windows, see Bounds | `WorkingCopySurvives`, `ArchivesReadBack`, `WindowShowsDocument`, `SavedStateIsTrue` |
| desktop_resave | the same | **violates** `OthersAreKickedOut` |

Each passing run has the type invariant of its modules, too. `StoreIsAhead` stands for
`SeenIsStored` (what anyone has of others is in the database) and `GapsAreLosses`;
`SplitsAreRight` for `OneSentenceEach` and `BreaksHaveReason`; `PartsTellTruth` for
the properties of `Widgets` and of `TaskProgress`; `SavedStateIsTrue` for
`TitleTellsUnsaved` and `SavedIsInFile`.

`web_client` and `desktop_app` each put modules into one instance that share no
state: a behaviour uses one of them (`part`, `level`), and the others stay in one
of their initial states. That costs nothing, as the sets of states add up.

### The three violations

* `worker_deleted`: deleting a document while a worker is at work on it ends the
  worker process. Keepalive answers 404, `run_task` cancels the asyncio task and
  awaits it, and `CancelledError` is no `Exception`: neither `run_task` nor `run`
  catches it. The comment in `keepalive` wants the task aborted.
* `sync_synced`: a change that reaches a page between the full document and the
  rendering of its editor is thrown away, and with it all that depends on it,
  until the page reconnects. The README promises that all changes are synced.
* `desktop_resave`: Save As onto the file where a document is stored already drops
  the document itself from the table, with the others that were to be kicked out.
  It disappears from the list, its window stays, and every later change fails.

### Bounds

* Two threads and the periodic job (queue_races) are the smallest set in which a
  request can be overtaken by another request, by the job, or by both; two attempts
  let a task be retried once, overtaken, and overrun its limit. With resets and
  dependencies one thread and the job already overtake each other. `OverrunBound` depends on
  the number of threads and is checked with two of them.
* One document suffices: tasks of different documents share nothing but the
  workers.
* Two leases per task let a process meet a later lease of its own or of another
  worker; processes share nothing else, and a coroutine that outlived its task is
  as much in the way of a later lease of the same task as of another task. Two
  failures let the answer to a claim get lost and a keepalive fail in
  one behaviour.
* Two changes make a chain through two authors, or of one author over two
  connections; two faults break a connection while the other one is deaf.
* The limit of 161 atoms is only ever compared with the length of what was
  collected, so 1 stands for it; five atoms in bars of one or two make a sentence
  that ends inside a bar, an endless one after it, and a bar that follows.
* Player: two words, three seconds, two events under way and one change of sources
  let every control meet a loading element and a late event.
* Speakers: two edits of others are enough to move, replace and remove the paragraph
  of an open dialog, or to name a speaker and give him a paragraph; a name can be chosen,
  dropped and chosen again. One name is offered by the URL, and can be typed as well.
* Exports: up to three atoms of one paragraph, of six kinds (no times, from zero,
  regular, reversed, half, longer), and up to three paragraphs of three speakers.
* Pages: two requests, which is what it takes to overtake; one document and link.
* `desktop_app` looks at one level in each behaviour (`MCDesktopApp`). Archives, with media of
  half a block, one and two, of which the last is beyond what a header can say: two that
  append, while one saves, with a crash (`appending`); two saves at once, while one appends,
  without a crash (`resaving`). Windows, on one path: two changes of one document and one command
  (`editing`); two commands on one document (`saving`); two documents of which one has a window,
  and one command (`documents`). What two documents do on two paths while two commands are under way,
  and saves that overlap with a crash, are left to the proofs, which have no bounds.
* `MaxEvents`, `MaxSwitches`, `MaxEdits`, `MaxSpeakers`, `MaxSettings`, `MaxPresses`,
  `MaxAsked`, `MaxAppends`, `MaxCrashes`, `Commands`, `Savers`,
  `MaxBar`, `MaxAtoms`, `MaxResets`, `MaxErrors`, `MaxLeases`, `MaxChanges` and `MaxFaults` are bounds
  in the guards of actions, and `WithinBounds` is one for the levels of the desktop application;
  nothing else is cut off.

### Deadlock

The queue and the synchronisation may stop (nothing left to do at the bounds), and
the generator of paragraphs ends; their runs say `CHECK_DEADLOCK FALSE`. A worker process can always take a step;
its runs check for deadlock.
Users of the interface and of the desktop application need not do anything more.

### Fairness, and why the code justifies it

* `ServerFairness`: the periodic job is started with the server and runs every
  `min(30, worker_timeout)` seconds; handlers have no unbounded waits; the server
  does not crash for ever (`<>[][Step]_vars`).
* `WorkerFairness` (a premise of `ReadyTaskFinishes` only): workers poll every 5 seconds,
  and report or fall silent. Reports are strongly fair, since a thread may be
  busy when the worker reports and free again later.
* WorkerLoop: the process itself goes on and `perform_task` ends. Nothing is
  assumed of the network but that a request returns.
* DocumentSync: asyncio runs what is ready, a connection that stays delivers, the
  bytes of what has arrived can be read, the browser renders, `ReconnectingWebSocket`
  retries for ever. Nothing is assumed of users: no edit has to be made.

## 4. Proofs

Every safety property the passing runs check is a theorem.
`TaskQueueProofs` proves for all sets of documents, tasks, workers and threads, every attempt limit and every number of resets, from the
assumptions stated in `TaskQueue` alone:

| theorem | says |
|---|---|
| `TypeCorrect` | `Spec => []TypeOK` |
| `QueueInvCorrect` | `Spec => []QueueInv` |
| `AttemptNumberingCorrect`, `CurrentIsNewestCorrect` | attempts are numbered without gap; only the newest can be current |
| `BudgetUnlessOvertakenCorrect` | states and remaining attempts agree unless a commit was overtaken |
| `CompletedIsStableCorrect` | completed tasks stay completed |
| `PipelineOrderCorrect` | nothing starts before what it depends on |
| `LockedRowsAreHeldCorrect` | the periodic job never judges a locked row on outdated columns |
| `OverrunBoundCorrect` | a task overruns its limit at most once per thread |
| `LeaseSpecCorrect` | `TaskQueue` implements `TaskLease` |

`SentenceProofs` proves, for every limit, any number of languages and bars and
inputs of any length:

| theorem | says |
|---|---|
| `SentenceTypeCorrect` | types; no list refers to an atom that does not exist |
| `NothingLostCorrect` | no atom is lost |
| `SentencesInOrderCorrect` | sentences come out once and in order |
| `ParagraphsAreBoundedCorrect` | no paragraph exceeds the limit by more than a bar |
| `SplitsAreRightCorrect` | a paragraph is of one language, no sentence ends inside it, bars that stand alone do so, and it ends with a sentence, a language, a special bar or the input, or at a protected place that ends a bar |

`DocumentSyncProofs` proves for any number of pages, workers,
changes and faults, from the assumptions stated in `DocumentSync`:

| theorem | says |
|---|---|
| `TypeCorrect` | `Spec => []TypeOK` |
| `StoreIsAheadCorrect` | what others see is stored; gaps in the stored history are losses |
| `NothingMissedCorrect` | nothing falls between backlog and broadcasts |
| `CausalDeliveryCorrect` | without faults what a page has received, in whatever order it reads it, has all that it depends on |

`WorkerLoopProofs` proves for any number of processes, tasks, leases and failures:

| theorem | says |
|---|---|
| `WorkerTypeCorrect` | types |
| `ReportsOwnLeaseCorrect` | a report never ends a lease that its worker does not know of |
| `OneAtATimeCorrect` | one coroutine at a time, unless the connection was lost in a keepalive |

`AudioPlayerProofs` proves for media of any length, any words, rates and number of
events:

| theorem | says |
|---|---|
| `PlayerTypeCorrect` | types |
| `PlayerShowsElementCorrect` | with no event under way the bar shows what the element does |
| `SwitchKeepsPlaceCorrect` | new sources leave the listener where it was |

`WebClientProofs` proves for any speakers, edits, pages, accelerators and transcripts:

| theorem | says |
|---|---|
| `EditingTypeCorrect`, `WebTypeCorrect`, `ClientTypeCorrect` | types |
| `ChoicesKeepSpeakersApartCorrect` | no choice in the dropdown gives two speakers one name, whatever others have named and chosen; nothing is assumed of names |
| `NewSpeakerHitsParagraphCorrect` | a new speaker goes to the paragraph for which the dialog was opened, wherever it moved, and those before it are left alone |
| `QuietPagesAreCurrentCorrect` | with nothing under way the tab shows what the backend has |
| `SignedInIsNotSentToLoginCorrect` | a tab with a session is sent to the login only by an error: of the last fetch of `me`, or of one that the login superseded |
| `PartsTellTruthCorrect` | delayed parts, menus, the preview and the debug mode settle as the last input wants it, held buttons and modals, too, but for presses whose timers met and a modal opened while one fades; banner and picture agree on failure and queue; done is what has reported all |
| `ExportsAreSoundCorrect` | subtitles have every word once and in order, in cues that last and keep to the limit where they can; plain text tells who speaks; posted is only to known episodes |

`DesktopProofs` proves for any documents, paths, windows and commands under way, and for
blocks, media and documents of any size:

| theorem | says |
|---|---|
| `DesktopTypeCorrect`, `ArchiveTypeCorrect`, `AppTypeCorrect` | types |
| `WindowShowsDocumentCorrect` | a window with nothing under way shows its working copy, but for what is lost for it |
| `SavedStateIsTrueCorrect` | a document that counts as saved is in its file, with the steps of any number of saves and openings interleaved, unless it was overtaken; a title that has heard an event tells of unsaved changes |
| `WorkingCopySurvivesCorrect` | after a crash between any two writes the working copy is whole, unless page and worker wrote at once |
| `ArchivesReadBackCorrect` | what was saved or exported is read back by application and web page, wherever earlier saves stopped; except after saves that overlapped, until one alone makes the file anew, and after one that failed |
| `AppRunsItsParts` | the application at each level behaves as `ArchiveSpec` and `DesktopSpec` |

The inductive invariant of the queue is `IInv`: types, `QueueInv`, `AttemptNumbering` and
`CurrentIsNewest`. None of them is inductive alone. A commit writes to the attempt
its request remembers, so `QueueInv` must say that this attempt still exists; for
that attempts must never be removed but with their document, and a document must
never come back. That the newest attempt is the current one needs the numbering,
because a claim computes the number from `attempt_counter` and not from the
attempts. The proof goes row by row: `RowInv(t)` and `RequestInv(a)` are the
shares of one task and one agent, each action disturbs the rows that
`RowSteps` lists, and `NextIInv` collects them. `BudgetUnlessOvertaken` and
`PipelineOrder` are proved on top of `IInv`.

That of the paragraphs is `SentenceInv`. `NothingLost` is not inductive: the
fallback drops what was collected, and that is sound only because the bars noted,
with what of the current bar will be noted, cover it (`BarsCoverAcc`). This in
turn needs to know that the atoms still to be visited end with the end of a bar
(`PendingIsRest`). The bound needs one for each list (`ListsAreBounded`). For the
order, what was yielded, what was collected and what is still to come must be in
line (`FlowInOrder`).

The refinement of the queue has one lemma per kind of step: which step of `TaskLease` it is,
or that it changes no lease.

`LockedRowsAreHeld` is inductive together with this: while there are locks, all that the
job has yet to look at is locked. `OverrunBound` needs an account of what can still go
wrong. A *ticket* is a request in flight that has read an attempt left and will return its
task to the queue (`Tickets`). Tickets are given only for a task that is held. So when nobody
holds it, some agent has none (`FreeAgent`), and once the attempts are used up, each
ticket pays for at most one more (`TicketsPay`).

Of the documents, `StoreInv` carries `StoreIsAhead`. That a stored change leaves no gap but
losses rests on the order in which its author sends changes, across a reconnection
(`SentInOrder`), and on none disappearing without trace (`NoneForgotten`). `NothingMissed` needs
to know where the stored document is while it is on its way, since it replaces what the page
has when it arrives (`PageInv`). For `CausalDelivery`, everything on its way to a page, in the
order in which it will arrive, must follow what it depends on, or what has arrived before,
read or not (`CausalPage`); and as long
as nothing broke, what is stored of an author is older than what it has yet to deliver
(`FaultlessInv`).

Of the workers, `WorkerInv` says besides the properties that only existing tasks are held
(otherwise a task that comes into being could be reported on at once), and what a process is
computing in each place of its loop (`OneJobEach`): `OneAtATime` alone would let a claim
find a coroutine still there.

Of the player, `PlayingInv` says that the last event of play or pause that waits, or else
the bar, is what the element does; `TimeInv` that the time shown is the element's unless
an event will correct it. `ClickInv` keeps the events that wait from undoing a click on a
word, and `KeptInv` says that what is kept over a change of sources is what was last
played, at the same rate, which the property needs when a click comes while the element
loads.

Of the tab, `MeInv` says that who is known not to be signed in has no session, and
`WebInv` of every other key that what is shown of it, and the answer about to be shown,
are of the last change that was heard of, unless a request is under way that will have it
fetched again (`FreshAt`). Of the speakers, `ParagraphInv` says that ids of paragraphs are
given once and `DialogInv` that a dialog that is not stale knows where its paragraph is;
`ChoicesKeepSpeakersApart` is about single steps and needs of these that the new speaker is
nobody who is there. The widgets need one invariant each, since
a timer that is running must belong to the change that started it, or have met another. `ProgressInv` says that
a task that has not begun has nothing done, and that media are encoded for every document,
without which there would be nothing to weigh.

Of exports, nearly everything is said of the operators; `ExportInv` only adds that what was
exported was made by them. Subtitles are made atom by atom, and the claim about what the
loop has after some of them is `MadeSound`: the cues made are sound and end where the next
begins, and the one begun has what comes after the last of them (`OpenCue`): its times span
its atoms, and it is within the limit, except by atoms added while it had no start or no
end (`FitsLimit`). The parts of the cues then join to all atoms (`ChainOfParts`). Of plain
text, `Tells` says that the last name printed up to a line, or else the one before the first
line, is who speaks; lines are joined by composing this. `ParagraphToCues` and `TotalLength`
are recursive functions; `SequenceFacts` derives from the least element of a set of numbers
that such a function has the values its definition gives (`Recursion`), and an induction over
sets (`Induction`) for what they have in common.

Of the desktop application, `StateInv` says which parts of a window exist in which phase and
what a command knows at each of its stages. `KnownInv` says that a change yet to be made is
nowhere. `ShowInv` compares what a window has, with its events, to the working copy with what the window
has yet to send, both without what is lost for it; `TitleInv` says that the last event that
waits, or else a title that has heard one, tells of unsaved changes. `SavedIsInFile` is not
inductive: of each command that is not stale, `SaveInv` says that what it has read is the working
copy, and that what it has written, or an opening has read, is the file (`Right`). Whatever
changes one of the two makes the command stale, which the proof shows for every pair of stages.

Of the working copy, `ArchiveInv` says what a writer has ahead: a change at the end of the
document and then the header that counts it (`Commits`). Of archives, `SavedInv` says what
a save has ahead in every place where the application may end: one that makes the file
anew may leave a header of the media, or media without a document, or a document that is
announced and not there (`Creating`); one that replaces a document may leave anything
behind the header (`Rewriting`); one that continues leaves the old one until its last
write (`Appending`). All this is said of a save that has the file for itself (`Alone`): while
`mixed` holds, nothing is said of the file, and `StartsAnew` alone says of every save under way
that it begins by emptying the file or will never do so. `Shape` is what this has in common, and what the next save finds: the
readers see no header in it but the two that belong there. The readers are recursive
functions over offsets, whose values the prover does not know; since they stop
everywhere but at the two entries (`EntriesAt`), a function with those values can be given.
`ConcatArrays` is a fold, determined by the chain of its partial results (`Chained`).

Attempted proofs changed the models where these were wrong. When a save fails, the
documents saved on its path count as overtaken (`DesktopApp!WriteFails`). The UUID of a new speaker is
neither that of a speaker with a name nor one that the worker gave to a paragraph
(`SpeakerEditing!FreshId`). An archive that was opened has a change, so there is at least one
(`ArchiveAssumption`).

Only model-checked are the liveness properties (`OverdueIsReclaimed`, `ReadyTaskFinishes`,
`StoredReachesPages`, `LeasesEnd`, `FinishesGracefully`): fairness and ENABLED are beyond
the prover.

## 5. Not modelled

* What happens inside `perform_task` but for the making of paragraphs: it is one step
  that ends or fails. What whisper, clustering and ffmpeg compute is numerical.
* Media storage, the export channel, metrics, the media server: requests without
  state of their own that others could see half done.
* The worker's own version of the subtitles; the old zip format of archives; a write
  torn in itself, and a crash of the machine that reorders writes.
* The adapter's HTTP interface: it is the backend's queue without leases, for one worker.
  Its effects on documents are actions of `DesktopApp`.
* Two commands that change the table of the desktop application at once: it is read,
  changed and written back without a lock (`file_handling.rs:187`). In the model such a
  change is one step, so its properties hold for the application as long as no two meet.
  A change's append to the archive and the flag that follows it are one step, too; the
  writes of the append are steps of `TranscribeeArchive`. Of a document's tasks there is left
  that the worker works on it; `transcribe_files` makes the document, and the table's update
  that adds the tasks is like any of `WorkerProgress`. What home says of tasks, and the text of its
  context menu for those that were aborted, are left out.
* The colours of speakers (`speaker_colors.tsx`), which depend on the order of a list.
* Text: slate, slate-automerge-doc and Automerge merge it; undo. Wording, layout, password
  hashing, forms, static pages. `openapi-schema.ts` is generated.
* `--reload` and `--run-once-and-dont-complete` of the worker are for development.

## 6. What is left

No safety property is left without a proof. Of models, the retry of a transcription, which
continues where the last attempt stopped, and the table of the desktop application under
concurrent commands would add most, each with its properties and their proofs.

## 7. What modelling brought up

Besides the three violations, where the code does something that its users may not
expect; the properties are stated such that they hold with it:

* A change under way when the connection breaks is never sent again
  (`automerge_websocket_editor.ts:39`): it stays on its page and is not stored.
* A sentence that ends inside a bar and is followed by more than 161 atoms without an
  end is emitted twice (`whisper_transcribe.py:147`).
* Subtitles: the export is offered when a paragraph has one start and one end, and
  fails when the only one is zero, or when splitting leaves a rest without
  (`webvtt.ts:126`). The length of lines is limited even if the checkbox is off.
* Renames that overtake each other leave the earlier title on the server. Share links
  and the list of documents are not fetched again when an answer is lost or comes after
  the component has gone.
* A tab that has changed its password keeps its dead token until it is redirected.
* Users' documents are polled every second when some task is *finished*, against
  the comment in `user_home.tsx:36`.
* A task keeps the progress reported last when it is completed, so the indicator may stay
  short of 100 %. When all have reported their last step and none is completed yet, the banner
  says "in progress (100%)" around a green pie that is ticked. A failed export makes the page say that the transcription did not
  complete. In `transcription_progress.tsx:170-172` the alternative of states is not
  bound to the type of the task: `hasUnfinishedSpeakerIdentification`, and with it the warning
  that speakers will be overwritten, holds for any task that is assigned.
* Menu accelerators with Shift compare lower-case letters with the key pressed
  (`menu.tsx:45`): they work with Caps Lock only, and the others without it only.
* The expressions that "prevent the sentence splitting logic from breaking here"
  (`whisper_transcribe.py:17-23`) are not asked where a sentence ends with its bar (line 128):
  "the 20." at the end of a bar and "century" in the next one become two paragraphs.
  `BreaksHaveReason` names that case.
* An error of a fetch of `me` that was sent before a login and ends after it makes SWR say
  that nothing is loading, while the fetch that follows the login is still under way:
  `app.tsx:55-60` sends the user back to the login page, although the session is valid, until
  that answer comes. `SignedInIsNotSentToLogin` names that case.
* Two users who choose the same name of the URL at the same time make two speakers of it,
  and so does a user who types a name that is there (`speaker_dropdown.tsx:112-126, 174-178`).
* A modal opened while another one fades is taken away by the other's timeout
  (`modal.tsx:28-32`). Of two timers of a held button, as of two buttons of the mouse, the code
  knows one; the other goes on after the release (`button_hooks.ts:63-71`).
* No two saves exclude each other (`cmd.rs:200-259`): an older save that is written last
  replaces a newer one that was acknowledged, two that continue or make one file may leave a
  mixture of both, and a change appended while a save is under way counts as saved
  (`cmd.rs:217`). Two openings of one file, or an opening between the two updates of a Save As,
  make two documents with one path, which the comment at `cmd.rs:246` wants to avoid.
* A document among the recent ones is forgotten without a question, with what is unsaved in
  it (`home.tsx:311-328`), although `cmd.rs:62-65` asks for a confirmation.
* A save that makes its file empties it before it looks for the media
  (`transcribee_archive.rs:22-36`). Save As over the archive that holds the document's own media
  destroys it; so does one to another path when the archive with the media has been moved,
  or when the media are too large for a header. Saving another document over that archive
  changes its media.
* The working copy is damaged if the page and the worker append at the same time:
  both compute the same offset (`transcribee_archive.rs:61`).
* A change of the worker between a window's reading of its document and its listening
  is missed by that window, and all that the worker builds on it.
* The answer to a window's first question is taken although events that came before it
  are younger (`use_tauri_event.ts:67`): the title may be wrong until the next event.
