----------------------------- MODULE MCDesktopApp -----------------------------
(***************************************************************************)
(* The desktop application for TLC: either its documents and windows, where  *)
(* an archive is the sequence of its changes, or the archives themselves,    *)
(* write by write.  One run looks at several levels, each with bounds of its *)
(* own on what happens at once.                                             *)
(***************************************************************************)
EXTENDS TranscribeeArchive, DesktopApp

VARIABLE level

appVars == <<level, archiveVars, desktopVars>>

\* Several changes of one document; several saves of one document; several
\* documents, of which one has a window.
Windows ==
    [editing   |-> [documents |-> 1, windows |-> 1, commands |-> 1, changes |-> 2],
     saving    |-> [documents |-> 1, windows |-> 1, commands |-> 2, changes |-> 1],
     documents |-> [documents |-> 2, windows |-> 1, commands |-> 1, changes |-> 1]]

\* Two that append, while one saves; two saves, while one appends.
Archives ==
    [appending |-> [writers |-> 2, savers |-> 1, crashes |-> 1],
     resaving  |-> [writers |-> 1, savers |-> 2, crashes |-> 0]]

WithinBounds ==
    IF level \in DOMAIN Windows
    THEN /\ Cardinality({id \in Ids : contents[id] # NoFile}) <= Windows[level].documents
         /\ Cardinality({id \in Ids : IsDocumentOpen(id)}) <= Windows[level].windows
         /\ Cardinality({c \in Commands : commands[c] # NoCommand}) <= Windows[level].commands
         /\ changes <= Windows[level].changes
    ELSE /\ Cardinality({w \in Writers : Working(w)}) <= Archives[level].writers
         /\ Cardinality({s \in Savers : Working(s)}) <= Archives[level].savers
         /\ crashes <= Archives[level].crashes

\* The level that is not looked at rests in one state.
AppInit ==
    /\ ArchiveInit /\ DesktopInit
    /\ \/ level \in DOMAIN Windows /\ media.place = "disk" /\ media.size = 1
       \/ level \in DOMAIN Archives /\ \A path \in Paths : files[path] # NoFile

AppNext ==
    /\ \/ level \in DOMAIN Windows /\ DesktopNext /\ UNCHANGED archiveVars
       \/ level \in DOMAIN Archives /\ ArchiveNext /\ UNCHANGED desktopVars
    /\ UNCHANGED level
    /\ WithinBounds'

AppSpec == AppInit /\ [][AppNext]_appVars

\* Documents, paths, commands and saves are interchangeable.
Symmetry ==
    Permutations(Ids) \cup Permutations(Paths) \cup Permutations(Commands)
        \cup Permutations(Savers)

\* Each level keeps to its type.
AppTypeOK ==
    /\ level \in DOMAIN Windows => DesktopTypeOK
    /\ level \in DOMAIN Archives => ArchiveTypeOK

===============================================================================
