-------------------------- MODULE TranscribeeArchive --------------------------
(***************************************************************************)
(* A .transcribee archive: a tar file with the media file and the Automerge *)
(* document of a transcript.  The web page writes one whole                 *)
(* (editor/export/transcribee.tsx, utils/tar.ts) and reads one              *)
(* (transcribee_archive_reader.ts).  The desktop application keeps one as   *)
(* the working copy of each document, which it changes in place, and one    *)
(* where the user saved it (transcribee_archive.rs, tar.rs, cmd.rs).        *)
(*                                                                         *)
(* A file is a sequence of cells.  A header takes a block, its first cell   *)
(* says what is in it.  Whoever changes a file has a list of writes ahead;  *)
(* the application may end between any two.                                 *)
(***************************************************************************)
EXTENDS Integers, Sequences, FiniteSets, SequencesExt

CONSTANTS
    Writers,        \* who appends changes: the page and the worker adapter
    Savers,         \* bound: as many saves are under way at once
    MaxAppends,     \* bound: changes appended
    Block,          \* TAR_BLOCK_SIZE, in cells
    MediaSizes,     \* sizes of media files, in cells
    SizeLimit,      \* the largest size the octal field of a header holds
    MaxCrashes      \* bound: crashes of the application

ASSUME ArchiveAssumption ==
    /\ MaxAppends \in Nat \ {0} /\ Block \in Nat \ {0, 1} /\ MediaSizes \subseteq Nat
    /\ SizeLimit \in Nat /\ MaxCrashes \in Nat /\ Writers \cap Savers = {}

VARIABLES
    working,        \* the archive in the application's data directory
    saved,          \* the archive the user saved; empty if there is none
    media,          \* size of the media file, and where the application has it
    jobs,           \* for each writer and each save: the writes ahead
    appended,       \* history: changes that were appended to the end
    raced,          \* history: were two changes ever appended at a time?
    mixed,          \* history: were two saves under way, and none alone since
                    \* that emptied the file?
    lastSave,       \* history: the document as last saved, or how this failed
    exported,       \* the archive downloaded from the web page
    crashes         \* history: crashes so far

archiveVars ==
    <<working, saved, media, jobs, appended, raced, mixed, lastSave, exported, crashes>>

Zero == [kind |-> "zero"]
Cell(x) == [kind |-> "data", value |-> x]
Data(xs) == [i \in DOMAIN xs |-> Cell(xs[i])]
MediaBytes(size) == [i \in 1 .. size |-> Cell(0)]
Zeros(n) == [i \in 1 .. n |-> Zero]

----------------------------------------------------------------------------
(* Writing: tar.ts, tar.rs.                                                *)

Encodable(size) == size <= SizeLimit

\* Mutant: a block more when the size is a multiple already.
Mutant_RoundsPast(x) == (x \div Block + 1) * Block

RoundToNextBlock(x) == ((x + Block - 1) \div Block) * Block

TarHeader(path, size) ==
    <<[kind |-> "header", path |-> path, size |-> size]>> \o Zeros(Block - 1)

Padded(cells) == cells \o Zeros(RoundToNextBlock(Len(cells)) - Len(cells))

ConcatArrays(arrays) == FlattenSeq([i \in DOMAIN arrays |-> Padded(arrays[i])])

\* seek and write_all; a gap reads as zeros.
WriteAt(file, offset, cells) ==
    [i \in 1 .. (IF offset + Len(cells) > Len(file) THEN offset + Len(cells) ELSE Len(file)) |->
        IF i \in offset + 1 .. offset + Len(cells) THEN cells[i - offset]
        ELSE IF i <= Len(file) THEN file[i] ELSE Zero]

----------------------------------------------------------------------------
(* Reading.  Where an entry begins, the cells from there on are a header or *)
(* what the readers make of something else: garbage.                        *)

Bytes(file, offset, size) ==
    SubSeq(file, offset + 1, IF offset + size > Len(file) THEN Len(file) ELSE offset + size)

Nothing == <<[kind |-> "nothing"]>>
NoRange == [start |-> -1, end |-> -1]
NoExport == [size |-> -1]

\* get_byte_range_of_file_in_tar; anything but a header is an error.
ByteRange(file, path) ==
    LET From[offset \in 0 .. Len(file) + Block + SizeLimit] ==
            IF offset + Block > Len(file) \/ file[offset + 1].kind # "header" THEN NoRange
            ELSE LET header == file[offset + 1]
                     start == offset + Block
                 IN  IF header.path = path
                     THEN [start |-> start, end |-> start + header.size]
                     ELSE From[RoundToNextBlock(start + header.size)]
    IN  From[0]

\* get_bytes_of_file_in_tar: read_exact fails when the file is too short.
BytesOfFile(file, path) ==
    LET range == ByteRange(file, path)
    IN  IF range = NoRange \/ range.end > Len(file) THEN Nothing
        ELSE SubSeq(file, range.start + 1, range.end)

\* loadTranscribeeArchive: the last entry of a name counts, an entry that begins
\* with the last block is not looked at, and what is no header has no size,
\* which ends the loop.
LoadTranscribeeArchive(file) ==
    LET From[offset \in 0 .. Len(file) + Block + SizeLimit] ==
            IF offset + Block >= Len(file) \/ file[offset + 1].kind # "header"
            THEN [media |-> Nothing, document |-> Nothing]
            ELSE LET header == file[offset + 1]
                     found == Bytes(file, offset + Block, header.size)
                     rest == From[RoundToNextBlock(offset + Block + header.size)]
                 IN  [name \in DOMAIN rest |->
                        IF rest[name] = Nothing /\ header.path = name THEN found ELSE rest[name]]
    IN  From[0]

----------------------------------------------------------------------------
(* Changing archives on disk: transcribee_archive.rs.                       *)

Document(file) == BytesOfFile(file, "document")

Truncation == [empties |-> TRUE]
Failure == [fails |-> TRUE]

\* create_new: the file is emptied before the media is looked for, which may be
\* in this very file, or too large for a header.
CreateNew(document) ==
    LET start == RoundToNextBlock(Block + media.size)
    IN  <<Truncation>> \o
        IF media.place = "saved" \/ ~Encodable(media.size) THEN <<Failure>>
        ELSE << [offset |-> 0, cells |-> TarHeader("media", media.size)],
                [offset |-> Block, cells |-> Padded(MediaBytes(media.size))],
                [offset |-> start, cells |-> TarHeader("document", Len(document))],
                [offset |-> start + Block, cells |-> document] >>

\* Mutant: the header is patched before the data are there.
Mutant_HeaderFirst(file, cells) ==
    LET range == ByteRange(file, "document")
    IN  << [offset |-> range.start - Block,
            cells |-> TarHeader("document", range.end + Len(cells) - range.start)],
           [offset |-> range.end, cells |-> cells] >>

\* append_automerge_change: the data first, then the header that commits it.
AppendChange(file, cells) ==
    LET range == ByteRange(file, "document")
    IN  << [offset |-> range.end, cells |-> cells],
           [offset |-> range.start - Block,
            cells |-> TarHeader("document", range.end + Len(cells) - range.start)] >>

\* update_automerge_file
UpdateFile(file, document) ==
    LET old == Document(file)
        range == ByteRange(file, "document")
    IN  IF IsPrefix(old, document)
        THEN AppendChange(file, SubSeq(document, Len(old) + 1, Len(document)))
        ELSE << [offset |-> range.start, cells |-> document],
                [offset |-> range.start - Block,
                 cells |-> TarHeader("document", Len(document))] >>

Written(file, write) ==
    CASE write = Truncation -> <<>>
      [] write = Failure -> file
      [] OTHER -> WriteAt(file, write.offset, write.cells)

----------------------------------------------------------------------------
Idle == [writes |-> <<>>, change |-> 0, document |-> <<>>, continues |-> FALSE]
Everyone == Writers \cup Savers
Changes == 1 .. MaxAppends

HasCells(file) == \A i \in DOMAIN file : file[i].kind \in {"zero", "data", "header"}

ArchiveTypeOK ==
    /\ HasCells(working) /\ (mixed \/ HasCells(saved))
    /\ media \in [size : MediaSizes, place : {"disk", "saved"}]
    /\ DOMAIN jobs = Everyone
    /\ \A w \in Everyone : jobs[w].change \in 0 .. MaxAppends
    /\ appended \in Seq(Changes)
    /\ raced \in BOOLEAN /\ mixed \in BOOLEAN
    /\ lastSave.state \in {"none", "done", "failed"}
    /\ crashes \in 0 .. MaxCrashes

Saved(document) ==
    ConcatArrays(<<TarHeader("media", media.size), MediaBytes(media.size),
                   TarHeader("document", Len(document))>>) \o document

\* A new document (create_new_document), or an archive of the user's that was
\* opened (open_document), with one change.
ArchiveInit ==
    /\ media \in [size : MediaSizes, place : {"disk", "saved"}]
    /\ media.place = "saved" => Encodable(media.size)
    /\ appended = IF media.place = "saved" THEN <<1>> ELSE <<>>
    /\ working = TarHeader("document", Len(appended)) \o Data(appended)
    /\ saved = IF media.place = "saved" THEN Saved(Data(appended)) ELSE <<>>
    /\ jobs = [w \in Everyone |-> Idle]
    /\ raced = FALSE /\ mixed = FALSE
    /\ lastSave = [state |-> "none"]
    /\ exported = NoExport
    /\ crashes = 0

Unused == {c \in Changes : /\ ~\E i \in DOMAIN appended : appended[i] = c
                          /\ \A w \in Writers : jobs[w].change # c}

Working(w) == jobs[w].writes # <<>>

----------------------------------------------------------------------------
(* Actions.                                                                *)

\* The command of the page, or the listener of the worker adapter, runs.
BeginAppend(w) ==
    /\ ~Working(w) /\ Unused # {}
    /\ LET c == CHOOSE c \in Unused : \A d \in Unused : c <= d
       IN  jobs' = [jobs EXCEPT ![w] = [Idle EXCEPT !.writes = AppendChange(working, <<Cell(c)>>),
                                                  !.change = c]]
    /\ raced' = (raced \/ \E v \in Writers : Working(v))
    /\ UNCHANGED <<working, saved, media, appended, mixed, lastSave, exported, crashes>>

\* One write_all of an append; with the last one the command is done.
AppendStep(w) ==
    /\ Working(w)
    /\ LET job == jobs[w]
           done == Len(job.writes) = 1
       IN  /\ working' = Written(working, Head(job.writes))
           /\ jobs' = [jobs EXCEPT ![w] = IF done THEN Idle
                                          ELSE [job EXCEPT !.writes = Tail(@)]]
           /\ appended' = IF done THEN Append(appended, job.change) ELSE appended
    /\ UNCHANGED <<saved, media, raced, mixed, lastSave, exported, crashes>>

\* save_path is set: the document was opened from there, or saved there once.
HasPath == media.place = "saved" \/ lastSave.state # "none"

OtherSaves(s) == \E t \in Savers \ {s} : Working(t)

\* save_document: a damaged or missing file is made anew.  Nothing keeps it from
\* running while another save is under way.
BeginSave(s) ==
    /\ ~Working(s) /\ HasPath /\ Document(working) # Nothing
    /\ LET old == Document(saved)
           new == Document(working)
       IN  jobs' = [jobs EXCEPT ![s] =
                      [writes |-> IF old = Nothing THEN CreateNew(new) ELSE UpdateFile(saved, new),
                       change |-> 0, document |-> new,
                       continues |-> old # Nothing /\ IsPrefix(old, new)]]
    /\ mixed' = (mixed \/ OtherSaves(s))
    /\ UNCHANGED <<working, saved, media, appended, raced, lastSave, exported, crashes>>

\* save_document_as_dialog: always a new file, perhaps over the old one.
BeginSaveAs(s) ==
    /\ ~Working(s) /\ Document(working) # Nothing
    /\ jobs' = [jobs EXCEPT ![s] = [Idle EXCEPT !.writes = CreateNew(Document(working)),
                                            !.document = Document(working)]]
    /\ mixed' = (mixed \/ OtherSaves(s))
    /\ UNCHANGED <<working, saved, media, appended, raced, lastSave, exported, crashes>>

\* One write of a save; one that empties the file while no other save is under
\* way starts from nothing.
SaveStep(s) ==
    /\ Working(s)
    /\ LET job == jobs[s]
           done == Len(job.writes) = 1
       IN  /\ saved' = Written(saved, Head(job.writes))
           /\ jobs' = [jobs EXCEPT ![s] = IF done THEN Idle
                                          ELSE [job EXCEPT !.writes = Tail(@)]]
           /\ lastSave' = IF Head(job.writes) = Failure THEN [state |-> "failed"]
                          ELSE IF done THEN [state |-> "done", document |-> job.document]
                          ELSE lastSave
           /\ mixed' = (mixed /\ (Head(job.writes) # Truncation \/ OtherSaves(s)))
    /\ UNCHANGED <<working, media, appended, raced, exported, crashes>>

\* The application ends, and is started again.
Crash ==
    /\ crashes < MaxCrashes
    /\ crashes' = crashes + 1
    /\ jobs' = [w \in Everyone |-> Idle]
    /\ lastSave' = IF /\ \E s \in Savers : Working(s) /\ ~jobs[s].continues
                      /\ lastSave.state = "done"
                   THEN [state |-> "failed"] ELSE lastSave
    /\ UNCHANGED <<working, saved, media, appended, raced, mixed, exported>>

\* Somebody puts another archive where the document is saved, or removes it.
ReplaceSaved ==
    /\ \A s \in Savers : ~Working(s)
    /\ HasPath /\ saved # <<>>
    /\ saved' \in {<<>>, Saved(<<Cell(MaxAppends + 1)>>)}
    /\ lastSave' = [state |-> "failed"]
    /\ UNCHANGED <<working, media, jobs, appended, raced, mixed, exported, crashes>>

\* The dialog of the web page: the original or the best media file, as fetched;
\* a file too large for a header ends in the catch clause.
ExportArchive ==
    /\ exported = NoExport /\ Document(working) # Nothing
    /\ \E best \in MediaSizes, original \in MediaSizes \cup {-1}, include \in BOOLEAN :
          LET size == IF include /\ original # -1 THEN original ELSE best
          IN  /\ Encodable(size)
              /\ exported' =
                    [file |-> ConcatArrays(<<TarHeader("media", size), MediaBytes(size),
                                             TarHeader("document", Len(Document(working))),
                                             Document(working)>>),
                     size |-> size, document |-> Document(working)]
    /\ UNCHANGED <<working, saved, media, jobs, appended, raced, mixed, lastSave, crashes>>

ArchiveNext ==
    \/ \E w \in Writers : BeginAppend(w) \/ AppendStep(w)
    \/ \E s \in Savers : BeginSave(s) \/ BeginSaveAs(s) \/ SaveStep(s)
    \/ Crash \/ ReplaceSaved \/ ExportArchive

ArchiveSpec == ArchiveInit /\ [][ArchiveNext]_archiveVars

----------------------------------------------------------------------------
(* Properties.                                                             *)

\* Whenever the application ends, even between two writes, the working copy
\* holds the changes appended so far, in order, and no half of another; as long
\* as the page and the worker adapter never append at the same time.
WorkingCopySurvives == ~raced => Document(working) = Data(appended)

\* What was saved or exported reads back, for the desktop application and for
\* the web page, except that the page overlooks an empty document at the end;
\* and while a save continues a file, whoever opens it finds what was saved last
\* or what is being saved.  Two things are excepted.  Saves that are under way
\* at once may leave any mixture of their writes, until one alone makes the file
\* anew; and a save that fails, since it empties the file first, leaves nothing,
\* not even of the media if they were in this file alone.
ArchivesReadBack ==
    LET ReadsBack(file, size, document) ==
            /\ BytesOfFile(file, "media") = MediaBytes(size)
            /\ Document(file) = document
            /\ document # <<>> =>
                  LoadTranscribeeArchive(file) = [media |-> MediaBytes(size), document |-> document]
    IN  /\ ~mixed /\ lastSave.state = "done"
              => IF \E s \in Savers : Working(s)
                 THEN \A s \in Savers : Working(s) /\ jobs[s].continues
                         => Document(saved) \in {lastSave.document, jobs[s].document}
                 ELSE ReadsBack(saved, media.size, lastSave.document)
        /\ exported # NoExport => ReadsBack(exported.file, exported.size, exported.document)

=============================================================================
