---------------------------- MODULE DocumentSync ----------------------------
(***************************************************************************)
(* How the Automerge changes of one document travel between the pages that *)
(* edit it, the workers that write to it and the backend that stores them: *)
(* DocumentSyncConsumer and DocumentSyncManager in the backend,            *)
(* useAutomergeWebsocketEditor in the page, SyncedDocument in the worker.  *)
(*                                                                         *)
(* A change is known by its author and its number; what it contains does   *)
(* not matter, but what it depends on does: Automerge keeps a change back  *)
(* until it has everything its author had applied when making it.          *)
(*                                                                         *)
(* A page's message handler first awaits the bytes of its message, and     *)
(* nothing orders these awaits: what a page has received it reads in any   *)
(* order, also after the connection it came over has closed.               *)
(***************************************************************************)
EXTENDS Naturals, Sequences, FiniteSets, Functions

CONSTANTS
  Pages,       \* browser tabs that show the document
  Writers,     \* workers that write to the document while they have a task
  CanWrite,    \* the clients whose credentials allow writing
  MaxChanges,  \* bound: how many changes are made
  MaxFaults    \* bound: how many connections break and commits fail

ASSUME ClientsAssumption ==
  /\ IsFiniteSet(Pages) /\ IsFiniteSet(Writers)
  /\ Pages \cap Writers = {}
  /\ Writers \subseteq CanWrite /\ CanWrite \subseteq Pages \cup Writers

ASSUME BoundsAssumption == MaxChanges \in Nat /\ MaxFaults \in Nat

VARIABLES
  made,     \* of each client: for each of its changes what that one depends on
  store,    \* the changes in the table documentupdate
  conn,     \* the server's side of each client's connection
  deaf,     \* the clients whose listener task has died
  queue,    \* _msg_queue: changes broadcast to a client and not sent to it yet
  down,     \* messages on the way to each client
  reading,  \* messages a page has received and whose bytes it awaits
  up,       \* changes on the way to the server; of a page without connection:
            \* those that ReconnectingWebSocket keeps for the next one
  late,     \* changes the server got over a broken connection, not read yet
  page,     \* does the client have a document?
  doc,      \* the changes in the client's document, also those kept back
  skipped,  \* history: changes the client was sent and threw away
  lost,     \* history: changes that were sent and will never be stored
  faults

vars == <<made, store, conn, deaf, queue, down, reading, up, late, page, doc,
          skipped, lost, faults>>

-----------------------------------------------------------------------------
(* Changes and messages                                                    *)

Clients == Pages \cup Writers

Change == [actor : Clients, seq : 1 .. MaxChanges]

Message == [type : {"full"}, changes : SUBSET Change]
             \cup [type : {"change"}, change : Change]

\* What Automerge has applied when it was given the changes S.
Applied(S) == {c \in S : made[c.actor][c.seq] \subseteq S}

\* The changes a message carries.
Carried(m) == IF m.type = "full" THEN m.changes ELSE {m.change}

\* The changes that have left the store for client c and are still under way.
UnderWay(c) ==
  Range(queue[c]) \cup UNION {Carried(m) : m \in Range(down[c]) \cup reading[c]}

AllMade == {c \in Change : c.seq <= Len(made[c.actor])}

TypeOK ==
  /\ made \in [Clients -> Seq(SUBSET Change)]
  /\ store \subseteq Change
  /\ conn \in [Clients -> {"closed", "accepted", "sending", "live"}]
  /\ deaf \subseteq Clients
  /\ queue \in [Clients -> Seq(Change)]
  /\ down \in [Clients -> Seq(Message)]
  /\ reading \in [Clients -> SUBSET Message]
  /\ \A c \in Writers : reading[c] = {}
  /\ up \in [Clients -> Seq(Change)]
  /\ late \in [Clients -> Seq(Change)]
  /\ page \in [Clients -> {"loading", "rendering", "ready", "over"}]
  /\ \A c \in Pages : page[c] # "over"
  /\ doc \in [Clients -> SUBSET Change]
  /\ skipped \in [Clients -> SUBSET Change]
  /\ lost \subseteq Change
  /\ faults \in 0 .. MaxFaults

Init ==
  /\ made = [c \in Clients |-> <<>>]
  /\ store = {}
  /\ conn = [c \in Clients |-> "closed"]
  /\ deaf = {}
  /\ queue = [c \in Clients |-> <<>>]
  /\ down = [c \in Clients |-> <<>>]
  /\ reading = [c \in Clients |-> {}]
  /\ up = [c \in Clients |-> <<>>]
  /\ late = [c \in Clients |-> <<>>]
  /\ page = [c \in Clients |-> "loading"]
  /\ doc = [c \in Clients |-> {}]
  /\ skipped = [c \in Clients |-> {}]
  /\ lost = {}
  /\ faults = 0

-----------------------------------------------------------------------------
(* The server: DocumentSyncConsumer                                        *)

Mutant_SubscribesAfterBacklog(c) == conn[c] = "live"

\* run subscribes the consumer before it starts listener and broadcast_sender.
Subscribed(c) == conn[c] # "closed"

\* A page connects, and connects again whenever its connection breaks; a worker
\* connects once per task.
Connect(c) ==
  /\ conn[c] = "closed"
  /\ page[c] # "over"
  /\ conn' = [conn EXCEPT ![c] = "accepted"]
  /\ UNCHANGED <<made, store, deaf, queue, down, reading, up, late, page, doc,
                 skipped, lost, faults>>

\* broadcast_sender reads the stored changes, all in one go, and starts sending
\* them as one message.
ReadBacklog(c) ==
  /\ conn[c] = "accepted"
  /\ conn' = [conn EXCEPT ![c] = "sending"]
  /\ down' = [down EXCEPT ![c] = Append(@, [type |-> "full", changes |-> store])]
  /\ UNCHANGED <<made, store, deaf, queue, reading, up, late, page, doc, skipped,
                 lost, faults>>

\* The full document, and CHANGE_BACKLOG_COMPLETE after it, have been written.
BacklogSent(c) ==
  /\ conn[c] = "sending"
  /\ conn' = [conn EXCEPT ![c] = "live"]
  /\ UNCHANGED <<made, store, deaf, queue, down, reading, up, late, page, doc,
                 skipped, lost, faults>>

\* The loop of broadcast_sender.
Forward(c) ==
  /\ conn[c] = "live"
  /\ queue[c] # <<>>
  /\ queue' = [queue EXCEPT ![c] = Tail(@)]
  /\ down' = [down EXCEPT ![c] =
                Append(@, [type |-> "change", change |-> Head(queue[c])])]
  /\ UNCHANGED <<made, store, conn, deaf, reading, up, late, page, doc, skipped,
                 lost, faults>>

Mutant_BroadcastsOnly(ch) ==
  /\ queue' = [c \in Clients |->
                 IF Subscribed(c) THEN Append(queue[c], ch) ELSE queue[c]]
  /\ UNCHANGED store

Mutant_JumpsQueue(ch) ==
  /\ store' = store \cup {ch}
  /\ queue' = [c \in Clients |->
                 IF Subscribed(c) THEN <<ch>> \o queue[c] ELSE queue[c]]

\* on_message: the change is committed, then put into the queue of everybody who
\* is subscribed, its author included.  Nothing else runs in between.
StoreAndBroadcast(ch) ==
  /\ store' = store \cup {ch}
  /\ queue' = [c \in Clients |->
                 IF Subscribed(c) THEN Append(queue[c], ch) ELSE queue[c]]

\* listener hands the next message of the client to on_message.
Receive(c) ==
  /\ conn[c] # "closed"
  /\ c \in CanWrite \ deaf
  /\ up[c] # <<>>
  /\ StoreAndBroadcast(Head(up[c]))
  /\ up' = [up EXCEPT ![c] = Tail(@)]
  /\ UNCHANGED <<made, conn, deaf, down, reading, late, page, doc, skipped, lost,
                 faults>>

\* The consumer of a broken connection still reads what it had received before
\* it learns that the connection is gone.
ReceiveLate(c) ==
  /\ late[c] # <<>>
  /\ StoreAndBroadcast(Head(late[c]))
  /\ late' = [late EXCEPT ![c] = Tail(@)]
  /\ UNCHANGED <<made, conn, deaf, down, reading, up, page, doc, skipped, lost,
                 faults>>

\* The commit raises.  The listener dies; run looks only for
\* WebSocketDisconnect, so the connection stays and nobody reads it any more.
\* (Before the backlog is read, the failed session would end the sender, too.)
CommitFails(c) ==
  /\ conn[c] \in {"sending", "live"}
  /\ c \in CanWrite \ deaf
  /\ up[c] # <<>>
  /\ faults < MaxFaults
  /\ faults' = faults + 1
  /\ deaf' = deaf \cup {c}
  /\ lost' = lost \cup {Head(up[c])}
  /\ up' = [up EXCEPT ![c] = Tail(@)]
  /\ UNCHANGED <<made, store, conn, queue, down, reading, late, page, doc, skipped>>

\* The connections of C are gone.  Of the changes under way from c, the first
\* kept[c] ones reach the server.  A page keeps its document, a worker's task
\* fails.
Close(C, kept) ==
  /\ conn' = [c \in Clients |-> IF c \in C THEN "closed" ELSE conn[c]]
  /\ deaf' = deaf \ C
  /\ queue' = [c \in Clients |-> IF c \in C THEN <<>> ELSE queue[c]]
  /\ down' = [c \in Clients |-> IF c \in C THEN <<>> ELSE down[c]]
  /\ up' = [c \in Clients |-> IF c \in C THEN <<>> ELSE up[c]]
  /\ lost' = lost \cup
       UNION {Range(SubSeq(up[c], kept[c] + 1, Len(up[c]))) : c \in C}
  /\ page' = [c \in Clients |->
                IF c \in C \cap Writers THEN "over" ELSE page[c]]
  /\ UNCHANGED <<made, store, reading, doc, skipped>>

\* on_message without the right to write: the server closes the connection and
\* reads nothing more.
Reject(c) ==
  /\ conn[c] # "closed"
  /\ c \notin CanWrite
  /\ up[c] # <<>>
  /\ Close({c}, [x \in {c} |-> 0])
  /\ UNCHANGED <<late, faults>>

\* A connection breaks.
Break(c) ==
  /\ conn[c] # "closed"
  /\ faults < MaxFaults
  /\ faults' = faults + 1
  /\ \E k \in IF c \in CanWrite \ deaf THEN 0 .. Len(up[c]) ELSE {0} :
       /\ Close({c}, [x \in {c} |-> k])
       /\ late' = [late EXCEPT ![c] = @ \o SubSeq(up[c], 1, k)]

\* A worker is done with its task.  What it wrote is flushed before the
\* connection closes.
Finish(c) ==
  /\ c \in Writers
  /\ conn[c] # "closed"
  /\ Close({c}, [x \in {c} |-> IF c \in deaf THEN 0 ELSE Len(up[c])])
  /\ late' = [late EXCEPT ![c] = IF c \in deaf THEN @ ELSE @ \o up[c]]
  /\ UNCHANGED faults

\* The server process ends, and all connections with it.
Restart ==
  /\ faults < MaxFaults
  /\ faults' = faults + 1
  /\ late' = [c \in Clients |-> <<>>]
  /\ LET connected == {c \in Clients : conn[c] # "closed"}
         late0 == UNION {Range(late[c]) : c \in Clients}
     IN /\ conn' = [c \in Clients |-> "closed"]
        /\ deaf' = {}
        /\ queue' = [c \in Clients |-> <<>>]
        /\ down' = [c \in Clients |-> <<>>]
        /\ up' = [c \in Clients |-> IF c \in connected THEN <<>> ELSE up[c]]
        /\ lost' = lost \cup late0 \cup UNION {Range(up[c]) : c \in connected}
        /\ page' = [c \in Clients |->
                      IF c \in connected \cap Writers THEN "over" ELSE page[c]]
        /\ UNCHANGED <<made, store, reading, doc, skipped>>

-----------------------------------------------------------------------------
(* The clients                                                             *)

Mutant_NumbersFromZero(c) == [actor |-> c, seq |-> Len(made[c])]

NextChange(c) == [actor |-> c, seq |-> Len(made[c]) + 1]

\* A change is made and sent.  Read-only pages make at most one, when
\* migrateDocument converts an old document as it is opened.
Edit(c) ==
  /\ page[c] = "ready"
  /\ Cardinality(AllMade) < MaxChanges
  /\ c \in CanWrite \/ made[c] = <<>>
  /\ made' = [made EXCEPT ![c] = Append(@, Applied(doc[c]))]
  /\ doc' = [doc EXCEPT ![c] = @ \cup {NextChange(c)}]
  /\ up' = [up EXCEPT ![c] = Append(@, NextChange(c))]
  /\ UNCHANGED <<store, conn, deaf, queue, down, reading, late, page, skipped, lost,
                 faults>>

\* FULL_DOCUMENT.  It becomes the document; a page that has an editor only takes
\* from it the changes that could be applied.
ArriveFull(c, S) ==
  LET known == IF page[c] = "ready" THEN doc[c] \cup Applied(S) ELSE S IN
  /\ doc' = [doc EXCEPT ![c] = known]
  /\ skipped' = [skipped EXCEPT ![c] = (@ \cup doc[c] \cup S) \ known]
  /\ page' = [page EXCEPT ![c] = IF c \in Writers THEN "ready"
                                 ELSE IF @ = "ready" THEN @ ELSE "rendering"]

\* CHANGE.  A page's own changes come back to it and are ignored.  A page whose
\* editor has not been rendered yet throws every change away, and so does a
\* worker at any time.
ArriveChange(c, ch) ==
  /\ doc' = [doc EXCEPT ![c] =
               IF c \in Pages /\ page[c] = "ready" /\ ch.actor # c
               THEN @ \cup {ch} ELSE @]
  /\ skipped' = [skipped EXCEPT ![c] =
                   IF c \in Pages /\ page[c] # "ready"
                   THEN @ \cup ({ch} \ doc[c]) ELSE @]
  /\ UNCHANGED page

\* What the client does with a message once it has its bytes.
Handle(c, m) ==
  /\ \/ m.type = "full" /\ ArriveFull(c, m.changes)
     \/ m.type = "change" /\ ArriveChange(c, m.change)
  /\ UNCHANGED <<made, store, conn, deaf, queue, up, late, lost, faults>>

\* A message event: onMessage starts, and awaits the bytes of the message.
Arrive(c) ==
  /\ c \in Pages
  /\ down[c] # <<>>
  /\ down' = [down EXCEPT ![c] = Tail(@)]
  /\ reading' = [reading EXCEPT ![c] = @ \cup {Head(down[c])}]
  /\ UNCHANGED <<made, store, conn, deaf, queue, up, late, page, doc, skipped,
                 lost, faults>>

\* One of the calls of onMessage has its bytes and goes on.
Read(c) ==
  \E m \in reading[c] :
    /\ Handle(c, m)
    /\ reading' = [reading EXCEPT ![c] = @ \ {m}]
    /\ UNCHANGED down

\* A worker reads one message after the other.
WorkerReads(c) ==
  /\ c \in Writers
  /\ down[c] # <<>>
  /\ Handle(c, Head(down[c]))
  /\ down' = [down EXCEPT ![c] = Tail(@)]
  /\ UNCHANGED reading

\* React renders the page with the new editor, which sets editorRef.
Render(c) ==
  /\ page[c] = "rendering"
  /\ page' = [page EXCEPT ![c] = "ready"]
  /\ UNCHANGED <<made, store, conn, deaf, queue, down, reading, up, late, doc,
                 skipped, lost, faults>>

-----------------------------------------------------------------------------
Next ==
  \/ \E c \in Clients :
       \/ Connect(c) \/ ReadBacklog(c) \/ BacklogSent(c) \/ Forward(c)
       \/ Receive(c) \/ ReceiveLate(c) \/ CommitFails(c)
       \/ Reject(c) \/ Break(c) \/ Finish(c)
       \/ Edit(c) \/ Arrive(c) \/ Read(c) \/ WorkerReads(c) \/ Render(c)
  \/ Restart

Spec == Init /\ [][Next]_vars

\* Whoever has something to do does it: asyncio runs every ready task, the
\* network delivers over a connection that stays, the browser renders, and
\* ReconnectingWebSocket retries forever.
Fairness ==
  \A c \in Clients :
    /\ WF_vars(Connect(c)) /\ WF_vars(ReadBacklog(c)) /\ WF_vars(BacklogSent(c))
    /\ WF_vars(Forward(c)) /\ WF_vars(Receive(c)) /\ WF_vars(ReceiveLate(c))
    /\ WF_vars(Reject(c)) /\ WF_vars(Arrive(c)) /\ WF_vars(Read(c))
    /\ WF_vars(WorkerReads(c)) /\ WF_vars(Render(c))

FairSpec == Spec /\ Fairness

(***************************************************************************)
(* Safety                                                                  *)
(***************************************************************************)

\* What a client has of others is in the database: nobody ever sees a change
\* that a crash of the server could still take back.
SeenIsStored ==
  \A c \in Clients : \A ch \in doc[c] \cup UnderWay(c) :
    ch \in store \/ ch.actor = c

\* No gap between the backlog and the broadcasts: once a page has been sent the
\* stored document, every stored change is in its document, under way to it, or
\* one that the page itself threw away.
NothingMissed ==
  \A c \in Pages : conn[c] \in {"sending", "live"} =>
    store \subseteq doc[c] \cup skipped[c] \cup UnderWay(c)

\* The stored history has a gap only where a connection or a commit lost
\* something: whatever a stored change depends on is stored, about to be read
\* from a broken connection, or lost for good.
GapsAreLosses ==
  \A ch \in store :
    made[ch.actor][ch.seq] \subseteq
      store \cup lost \cup UNION {Range(late[c]) : c \in Clients}

\* The database is ahead of every client, and has gaps in its history only where
\* a broken connection or a failed commit lost something (helpers/sync.py).
StoreIsAhead == SeenIsStored /\ GapsAreLosses

\* What a page has received, whether it has read it or not.
Received(c) ==
  doc[c] \cup skipped[c] \cup UNION {Carried(m) : m \in reading[c]}

\* As long as no connection broke and no commit failed, a page is never sent a
\* change before those that it depends on, over however many connections.  The
\* page may read them the other way round; but once it has read what it received,
\* Automerge keeps no change back, except for want of one the page threw away.
CausalDelivery ==
  faults = 0 => \A c \in Pages : Applied(Received(c)) = Received(c)

(***************************************************************************)
(* Liveness                                                                *)
(***************************************************************************)

\* A stored change reaches every page, or the page threw it away.
StoredReachesPages ==
  \A ch \in Change : \A c \in Pages :
    ch \in store ~> ch \in doc[c] \cup skipped[c]

\* README.md: "All changes are instantly synced with everyone working on the
\* transcript."  A weak reading of that: whatever somebody allowed to write
\* changes is eventually applied on every page.
AllChangesSynced ==
  \A ch \in Change : \A c \in Pages :
    ch \in AllMade /\ ch.actor \in CanWrite ~> ch \in Applied(doc[c])

=============================================================================
