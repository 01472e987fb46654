-------------------------- MODULE DocumentSyncProofs --------------------------
(***************************************************************************)
(* Machine-checked proofs about DocumentSync, for every set of pages and   *)
(* workers and any number of changes, broken connections and restarts; and *)
(* that what a page receives is causally complete as long as no connection *)
(* breaks and no commit fails.                                             *)
(***************************************************************************)
EXTENDS DocumentSync, SequenceFacts, FiniteSetTheorems

-----------------------------------------------------------------------------
(* Changes                                                                 *)

\* There are finitely many changes, so a client that made as many as there may
\* be leaves no room for one more.
LEMMA ChangesAreFinite == IsFiniteSet(Change)
  <1> DEFINE T == Clients \X (1 .. MaxChanges)
             f == [ch \in Change |-> <<ch.actor, ch.seq>>]
  <1>1. IsFiniteSet(Clients)
    BY ClientsAssumption, FS_Union DEF Clients
  <1>2. MaxChanges \in Int /\ 1 \in Int
    BY BoundsAssumption
  <1>3. IsFiniteSet(1 .. MaxChanges)
    BY <1>2, FS_Interval
  <1>4. IsFiniteSet(T)
    BY <1>1, <1>3, FS_Product
  <1>5. f \in Injection(Change, T)
    BY DEF Change, Injection, IsInjective
  <1> HIDE DEF T, f
  <1> QED BY <1>4, <1>5, FS_Injection

LEMMA RoomForChange ==
  ASSUME TypeOK, NEW c \in Clients, Cardinality(AllMade) < MaxChanges
  PROVE  /\ Len(made[c]) \in Nat /\ Len(made[c]) < MaxChanges
         /\ NextChange(c) \in Change
  <1>1. Len(made[c]) \in Nat /\ MaxChanges \in Nat
    BY BoundsAssumption, LenProperties DEF TypeOK
  <1>2. AllMade \subseteq Change
    BY DEF AllMade
  <1>3. IsFiniteSet(AllMade)
    BY <1>2, ChangesAreFinite, FS_Subset
  <1>4. ASSUME Len(made[c]) >= MaxChanges PROVE FALSE
    <2> DEFINE f == [i \in 1 .. MaxChanges |-> [actor |-> c, seq |-> i]]
    <2>1. ASSUME NEW i \in 1 .. MaxChanges PROVE f[i] \in AllMade
      BY <1>1, <1>4 DEF AllMade, Change
    <2>2. \A i, j \in 1 .. MaxChanges : f[i] = f[j] => i = j
      OBVIOUS
    <2>3. f \in [1 .. MaxChanges -> AllMade]
      BY <2>1
    <2>4. DOMAIN f = 1 .. MaxChanges
      OBVIOUS
    <2> HIDE DEF f
    <2>5. f \in Injection(1 .. MaxChanges, AllMade)
      BY <2>2, <2>3, <2>4 DEF Injection, IsInjective
    <2>6. Cardinality(1 .. MaxChanges) <= Cardinality(AllMade)
      BY <2>5, <1>3, FS_Injection
    <2>7. 1 \in Int /\ MaxChanges \in Int
      BY <1>1
    <2>8. Cardinality(1 .. MaxChanges) = MaxChanges
      BY <1>1, <2>7, FS_Interval
    <2>9. Cardinality(AllMade) \in Nat
      BY <1>3, FS_CardinalityType
    <2> QED BY <1>1, <2>6, <2>8, <2>9
  <1>5. Len(made[c]) < MaxChanges
    BY <1>1, <1>4
  <1> QED BY <1>1, <1>5 DEF NextChange, Change

\* The changes of one client.
Own(c) == {ch \in AllMade : ch.actor = c}

\* An edit makes one change more, and leaves those made before as they were.
LEMMA EditMakes ==
  ASSUME TypeOK, NEW c \in Clients, Edit(c)
  PROVE  /\ NextChange(c) \in Change
         /\ NextChange(c).actor = c
         /\ AllMade' = AllMade \cup {NextChange(c)}
         /\ Own(c)' = Own(c) \cup {NextChange(c)}
         /\ \A d \in Clients \ {c} : Own(d)' = Own(d)
         /\ \A ch \in Own(c) : ch.seq < NextChange(c).seq
         /\ \A ch \in AllMade : made'[ch.actor][ch.seq] = made[ch.actor][ch.seq]
         /\ made'[c][NextChange(c).seq] = Applied(doc[c])
  <1> DEFINE new == NextChange(c)
             n == Len(made[c])
  <1>1. n \in Nat /\ n < MaxChanges /\ new \in Change
    BY RoomForChange DEF Edit
  <1>2. new = [actor |-> c, seq |-> n + 1]
    BY DEF NextChange
  <1>3. \A d \in Clients : made[d] \in Seq(SUBSET Change) /\ Len(made[d]) \in Nat
    BY LenProperties DEF TypeOK
  <1>4. Applied(doc[c]) \in SUBSET Change
    BY DEF Applied, TypeOK
  <1>5. made' = [made EXCEPT ![c] = Append(made[c], Applied(doc[c]))]
    BY DEF Edit
  <1>6. /\ made' \in [Clients -> Seq(SUBSET Change)]
        /\ made'[c] = Append(made[c], Applied(doc[c]))
        /\ \A d \in Clients \ {c} : made'[d] = made[d]
    BY <1>3, <1>4, <1>5 DEF TypeOK
  <1>7. /\ Len(made'[c]) = n + 1
        /\ \A i \in 1 .. n : made'[c][i] = made[c][i]
        /\ made'[c][n + 1] = Applied(doc[c])
    BY <1>3, <1>4, <1>6, AppendProperties
  <1>8. \A ch \in Change : ch.actor \in Clients /\ ch.seq \in 1 .. MaxChanges
                           /\ ch = [actor |-> ch.actor, seq |-> ch.seq]
    BY DEF Change
  <1>9. AllMade' = {ch \in Change : ch.seq <= Len(made'[ch.actor])}
    BY DEF AllMade, Change, Clients
  <1>10. \A ch \in Change : ch \in AllMade' <=> ch \in AllMade \/ ch = new
    <2> TAKE ch \in Change
    <2>1. CASE ch.actor = c
      <3>1. ch.seq <= n + 1 <=> ch.seq <= n \/ ch.seq = n + 1
        BY <1>1, <1>8
      <3>2. ch = new <=> ch.seq = n + 1
        BY <1>2, <1>8, <2>1
      <3> QED BY <1>7, <1>9, <2>1, <3>1, <3>2 DEF AllMade
    <2>2. CASE ch.actor # c
      BY <1>2, <1>6, <1>8, <1>9, <2>2 DEF AllMade
    <2> QED BY <2>1, <2>2
  <1>11. AllMade' = AllMade \cup {new}
    BY <1>1, <1>9, <1>10 DEF AllMade
  <1>12. \A d \in Clients : Own(d)' = {ch \in AllMade' : ch.actor = d}
    BY DEF Own
  <1>13. \A ch \in AllMade : ch.seq \in 1 .. Len(made[ch.actor]) /\ ch.actor \in Clients
    BY <1>3, <1>8 DEF AllMade
  <1>14. \A ch \in Own(c) : ch.seq < new.seq
    BY <1>1, <1>2, <1>13 DEF Own
  <1>15. \A ch \in AllMade : made'[ch.actor][ch.seq] = made[ch.actor][ch.seq]
    BY <1>6, <1>7, <1>13
  <1>16. /\ new.actor = c /\ new.seq = n + 1
         /\ Own(c)' = Own(c) \cup {new}
         /\ \A d \in Clients \ {c} : Own(d)' = Own(d)
    BY <1>2, <1>11, <1>12 DEF Own
  <1> HIDE DEF new
  <1>17. QED
    BY <1>1, <1>7, <1>11, <1>14, <1>15, <1>16 DEF new

-----------------------------------------------------------------------------
(* Connections that end                                                    *)

\* What rejecting a client, losing it and a worker's end have in common: the
\* connection closes, the first k of the changes under way reach the server.
Disconnects(c, k) ==
  /\ conn' = [conn EXCEPT ![c] = "closed"]
  /\ deaf' = deaf \ {c}
  /\ queue' = [queue EXCEPT ![c] = <<>>]
  /\ down' = [down EXCEPT ![c] = <<>>]
  /\ up' = [up EXCEPT ![c] = <<>>]
  /\ late' = [late EXCEPT ![c] = @ \o SubSeq(up[c], 1, k)]
  /\ lost' = lost \cup Range(SubSeq(up[c], k + 1, Len(up[c])))
  /\ page' = [page EXCEPT ![c] = IF c \in Writers THEN "over" ELSE @]
  /\ faults' \in 0 .. MaxFaults
  /\ UNCHANGED <<made, store, reading, doc, skipped>>

LEMMA CloseOne ==
  ASSUME TypeOK, NEW c \in Clients, NEW k \in 0 .. Len(up[c]),
         Close({c}, [x \in {c} |-> k]),
         late' = [late EXCEPT ![c] = @ \o SubSeq(up[c], 1, k)],
         faults' \in 0 .. MaxFaults
  PROVE  Disconnects(c, k)
  <1>1. UNION {Range(SubSeq(up[d], [x \in {c} |-> k][d] + 1, Len(up[d]))) : d \in {c}}
          = Range(SubSeq(up[c], k + 1, Len(up[c])))
    OBVIOUS
  <1>2. lost' = lost \cup Range(SubSeq(up[c], k + 1, Len(up[c])))
    BY <1>1 DEF Close
  <1>3. /\ conn' = [conn EXCEPT ![c] = "closed"]
        /\ queue' = [queue EXCEPT ![c] = <<>>]
        /\ down' = [down EXCEPT ![c] = <<>>]
        /\ up' = [up EXCEPT ![c] = <<>>]
    BY DEF Close, TypeOK
  <1>4. page' = [page EXCEPT ![c] = IF c \in Writers THEN "over" ELSE @]
    BY DEF Close, TypeOK
  <1>5. deaf' = deaf \ {c} /\ UNCHANGED <<made, store, reading, doc, skipped>>
    BY DEF Close
  <1> QED BY <1>2, <1>3, <1>4, <1>5 DEF Disconnects

LEMMA DisconnectCases ==
  ASSUME TypeOK, NEW c \in Clients, Reject(c) \/ Break(c) \/ Finish(c)
  PROVE  \E k \in 0 .. Len(up[c]) : Disconnects(c, k)
  <1>1. /\ up[c] \in Seq(Change) /\ late[c] \in Seq(Change)
        /\ Len(up[c]) \in Nat /\ faults \in 0 .. MaxFaults /\ MaxFaults \in Nat
    BY BoundsAssumption, LenProperties DEF TypeOK
  <1>2. /\ SubSeq(up[c], 1, 0) = <<>>
        /\ SubSeq(up[c], 1, Len(up[c])) = up[c]
        /\ late[c] \o <<>> = late[c]
    <2>1. 1 \in Int /\ 0 \in Int /\ 0 < 1
      OBVIOUS
    <2> QED BY <1>1, <2>1, SubSeqEmpty, SubSeqFull, ConcatEmptySeq
  <1>3. late = [late EXCEPT ![c] = @ \o SubSeq(up[c], 1, 0)]
    BY <1>2 DEF TypeOK
  <1>4. CASE Reject(c)
    <2>1. late' = [late EXCEPT ![c] = @ \o SubSeq(up[c], 1, 0)]
      BY <1>3, <1>4 DEF Reject
    <2>2. Close({c}, [x \in {c} |-> 0]) /\ faults' \in 0 .. MaxFaults
      BY <1>1, <1>4 DEF Reject
    <2>3. 0 \in 0 .. Len(up[c])
      BY <1>1
    <2>4. Disconnects(c, 0)
      BY <2>1, <2>2, <2>3, CloseOne
    <2> QED BY <2>3, <2>4
  <1>5. CASE Break(c)
    <2>1. PICK k \in IF c \in CanWrite \ deaf THEN 0 .. Len(up[c]) ELSE {0} :
            /\ Close({c}, [x \in {c} |-> k])
            /\ late' = [late EXCEPT ![c] = @ \o SubSeq(up[c], 1, k)]
      BY <1>5 DEF Break
    <2>2. k \in 0 .. Len(up[c])
      BY <1>1
    <2>3. faults' \in 0 .. MaxFaults
      BY <1>1, <1>5 DEF Break
    <2>4. Disconnects(c, k)
      BY <2>1, <2>2, <2>3, CloseOne
    <2> QED BY <2>2, <2>4
  <1>6. CASE Finish(c)
    <2> DEFINE k == IF c \in deaf THEN 0 ELSE Len(up[c])
    <2>1. k \in 0 .. Len(up[c])
      BY <1>1
    <2>2. late' = [late EXCEPT ![c] = @ \o SubSeq(up[c], 1, k)]
      BY <1>2, <1>3, <1>6 DEF Finish
    <2>3. faults' \in 0 .. MaxFaults
      BY <1>1, <1>6 DEF Finish
    <2>4. Close({c}, [x \in {c} |-> k])
      BY <1>6 DEF Finish
    <2> HIDE DEF k
    <2>5. Disconnects(c, k)
      BY <2>1, <2>2, <2>3, <2>4, CloseOne
    <2> QED BY <2>1, <2>5
  <1> QED BY <1>4, <1>5, <1>6

-----------------------------------------------------------------------------
(* Type correctness                                                        *)

LEMMA InitTypeOK == Init => TypeOK
  BY BoundsAssumption, EmptySeq DEF Init, TypeOK, Clients

LEMMA StoreAndBroadcastTypes ==
  ASSUME TypeOK, NEW ch \in Change, StoreAndBroadcast(ch)
  PROVE  store' \subseteq Change /\ queue' \in [Clients -> Seq(Change)]
  <1>1. \A c \in Clients : queue[c] \in Seq(Change) /\ Append(queue[c], ch) \in Seq(Change)
    BY AppendProperties DEF TypeOK
  <1> QED BY <1>1 DEF StoreAndBroadcast, TypeOK

\* The first of a list and the rest of it.
LEMMA HeadTailTypes ==
  ASSUME NEW S, NEW f \in [Clients -> Seq(S)], NEW c \in Clients, f[c] # <<>>
  PROVE  /\ Head(f[c]) \in S
         /\ Tail(f[c]) \in Seq(S)
         /\ [f EXCEPT ![c] = Tail(@)] \in [Clients -> Seq(S)]
  BY HeadTailProperties

\* A message that is handled leaves document, skipped changes and page well-typed.
LEMMA HandleTypes ==
  ASSUME TypeOK, NEW c \in Clients, NEW m \in Message, Handle(c, m)
  PROVE  /\ doc' \in [Clients -> SUBSET Change] /\ skipped' \in [Clients -> SUBSET Change]
         /\ page' \in [Clients -> {"loading", "rendering", "ready", "over"}]
         /\ \A d \in Pages : page'[d] # "over"
         /\ UNCHANGED <<made, store, conn, deaf, queue, up, late, lost, faults>>
  <1>1. UNCHANGED <<made, store, conn, deaf, queue, up, late, lost, faults>>
    BY DEF Handle
  <1>2. CASE m.type = "full" /\ ArriveFull(c, m.changes)
    <2>1. m.changes \subseteq Change
      BY <1>2 DEF Message
    <2>2. Applied(m.changes) \subseteq Change
      BY <2>1 DEF Applied
    <2>3. /\ doc' \in [Clients -> SUBSET Change] /\ skipped' \in [Clients -> SUBSET Change]
          /\ page' \in [Clients -> {"loading", "rendering", "ready", "over"}]
      BY <1>2, <2>1, <2>2 DEF ArriveFull, TypeOK
    <2>4. \A d \in Pages : page'[d] # "over"
      BY <1>2, ClientsAssumption DEF ArriveFull, TypeOK, Clients
    <2> QED BY <1>1, <2>3, <2>4
  <1>3. CASE m.type = "change" /\ ArriveChange(c, m.change)
    <2>1. m.change \in Change
      BY <1>3 DEF Message
    <2>2. /\ doc' \in [Clients -> SUBSET Change] /\ skipped' \in [Clients -> SUBSET Change]
          /\ page' = page
      BY <1>3, <2>1 DEF ArriveChange, TypeOK
    <2> QED BY <1>1, <2>2 DEF TypeOK
  <1> QED BY <1>2, <1>3 DEF Handle

LEMMA NextTypeOK == TypeOK /\ [Next]_vars => TypeOK'
  <1> SUFFICES ASSUME TypeOK, [Next]_vars
               PROVE  TypeOK'
    OBVIOUS
  <1>1. ASSUME NEW c \in Clients, Connect(c) PROVE TypeOK'
    BY <1>1 DEF TypeOK, Connect
  <1>2. ASSUME NEW c \in Clients, ReadBacklog(c) PROVE TypeOK'
    <2>1. [type |-> "full", changes |-> store] \in Message
      BY DEF Message, TypeOK
    <2>2. Append(down[c], [type |-> "full", changes |-> store]) \in Seq(Message)
      BY <2>1, AppendProperties DEF TypeOK
    <2> QED BY <1>2, <2>2 DEF TypeOK, ReadBacklog
  <1>3. ASSUME NEW c \in Clients, BacklogSent(c) PROVE TypeOK'
    BY <1>3 DEF TypeOK, BacklogSent
  <1>4. ASSUME NEW c \in Clients, Forward(c) PROVE TypeOK'
    <2>1. /\ Head(queue[c]) \in Change
          /\ queue' \in [Clients -> Seq(Change)]
      BY <1>4, HeadTailTypes DEF Forward, TypeOK
    <2>2. [type |-> "change", change |-> Head(queue[c])] \in Message
      BY <2>1 DEF Message
    <2>3. Append(down[c], [type |-> "change", change |-> Head(queue[c])]) \in Seq(Message)
      BY <2>2, AppendProperties DEF TypeOK
    <2> QED BY <1>4, <2>1, <2>3 DEF TypeOK, Forward
  <1>5. ASSUME NEW c \in Clients, Receive(c) PROVE TypeOK'
    <2>1. Head(up[c]) \in Change /\ up' \in [Clients -> Seq(Change)]
      BY <1>5, HeadTailTypes DEF Receive, TypeOK
    <2>2. store' \subseteq Change /\ queue' \in [Clients -> Seq(Change)]
      BY <1>5, <2>1, StoreAndBroadcastTypes DEF Receive
    <2> QED BY <1>5, <2>1, <2>2 DEF TypeOK, Receive
  <1>6. ASSUME NEW c \in Clients, ReceiveLate(c) PROVE TypeOK'
    <2>1. Head(late[c]) \in Change /\ late' \in [Clients -> Seq(Change)]
      BY <1>6, HeadTailTypes DEF ReceiveLate, TypeOK
    <2>2. store' \subseteq Change /\ queue' \in [Clients -> Seq(Change)]
      BY <1>6, <2>1, StoreAndBroadcastTypes DEF ReceiveLate
    <2> QED BY <1>6, <2>1, <2>2 DEF TypeOK, ReceiveLate
  <1>7. ASSUME NEW c \in Clients, CommitFails(c) PROVE TypeOK'
    <2>1. Head(up[c]) \in Change /\ up' \in [Clients -> Seq(Change)]
      BY <1>7, HeadTailTypes DEF CommitFails, TypeOK
    <2>2. faults' \in 0 .. MaxFaults
      BY <1>7, BoundsAssumption DEF CommitFails, TypeOK
    <2> QED BY <1>7, <2>1, <2>2 DEF TypeOK, CommitFails
  <1>8. ASSUME NEW c \in Clients, Reject(c) \/ Break(c) \/ Finish(c) PROVE TypeOK'
    <2>1. PICK k \in 0 .. Len(up[c]) : Disconnects(c, k)
      BY <1>8, DisconnectCases
    <2>2. /\ SubSeq(up[c], 1, k) \in Seq(Change)
          /\ SubSeq(up[c], k + 1, Len(up[c])) \in Seq(Change)
      BY RangeOfParts DEF TypeOK
    <2>3. /\ late[c] \o SubSeq(up[c], 1, k) \in Seq(Change)
          /\ Range(SubSeq(up[c], k + 1, Len(up[c]))) \subseteq Change
      BY <2>2, ConcatProperties, RangeInSet DEF TypeOK
    <2>4. /\ late' \in [Clients -> Seq(Change)] /\ lost' \subseteq Change
      BY <2>1, <2>3 DEF TypeOK, Disconnects
    <2>5. <<>> \in Seq(Change) /\ <<>> \in Seq(Message)
      BY EmptySeq
    <2>6. \A d \in Pages : page'[d] # "over"
      BY <2>1, ClientsAssumption DEF TypeOK, Disconnects, Clients
    <2> QED BY <2>1, <2>4, <2>5, <2>6 DEF TypeOK, Disconnects
  <1>9. ASSUME NEW c \in Clients, Edit(c) PROVE TypeOK'
    <2>1. NextChange(c) \in Change
      BY <1>9, RoomForChange DEF Edit
    <2>2. Applied(doc[c]) \in SUBSET Change
      BY DEF Applied, TypeOK
    <2>3. /\ Append(made[c], Applied(doc[c])) \in Seq(SUBSET Change)
          /\ Append(up[c], NextChange(c)) \in Seq(Change)
      BY <2>1, <2>2, AppendProperties DEF TypeOK
    <2>4. /\ made' \in [Clients -> Seq(SUBSET Change)]
          /\ doc' \in [Clients -> SUBSET Change]
          /\ up' \in [Clients -> Seq(Change)]
      BY <1>9, <2>1, <2>3 DEF Edit, TypeOK
    <2> QED BY <1>9, <2>4 DEF TypeOK, Edit
  <1>10. ASSUME NEW c \in Clients, Arrive(c) \/ Read(c) \/ WorkerReads(c) PROVE TypeOK'
    <2>1. CASE Arrive(c)
      <3>1. Head(down[c]) \in Message /\ down' \in [Clients -> Seq(Message)]
        BY <2>1, HeadTailTypes DEF Arrive, TypeOK
      <3>2. /\ reading' \in [Clients -> SUBSET Message]
            /\ \A w \in Writers : reading'[w] = {}
        BY <2>1, <3>1, ClientsAssumption DEF Arrive, TypeOK, Clients
      <3> QED BY <2>1, <3>1, <3>2 DEF TypeOK, Arrive
    <2>2. CASE Read(c)
      <3>1. PICK m \in reading[c] : Handle(c, m) /\ reading' = [reading EXCEPT ![c] = @ \ {m}]
                                   /\ UNCHANGED down
        BY <2>2 DEF Read
      <3>2. m \in Message
        BY DEF TypeOK
      <3>3. /\ reading' \in [Clients -> SUBSET Message]
            /\ \A w \in Writers : reading'[w] = {}
        BY <3>1, ClientsAssumption DEF TypeOK, Clients
      <3> QED BY <3>1, <3>2, <3>3, HandleTypes DEF TypeOK
    <2>3. CASE WorkerReads(c)
      <3>1. Head(down[c]) \in Message /\ down' \in [Clients -> Seq(Message)]
        BY <2>3, HeadTailTypes DEF WorkerReads, TypeOK
      <3>2. Handle(c, Head(down[c])) /\ UNCHANGED reading
        BY <2>3 DEF WorkerReads
      <3> QED BY <3>1, <3>2, HandleTypes DEF TypeOK
    <2> QED BY <1>10, <2>1, <2>2, <2>3
  <1>11. ASSUME NEW c \in Clients, Render(c) PROVE TypeOK'
    BY <1>11 DEF TypeOK, Render
  <1>12. CASE Restart
    <2> DEFINE connected == {c \in Clients : conn[c] # "closed"}
    <2>1. \A c \in Clients : Range(late[c]) \subseteq Change /\ Range(up[c]) \subseteq Change
      BY RangeInSet DEF TypeOK
    <2>2. /\ UNION {Range(late[c]) : c \in Clients} \subseteq Change
          /\ UNION {Range(up[c]) : c \in connected} \subseteq Change
      BY <2>1
    <2>3. lost' \subseteq Change
      BY <1>12, <2>2 DEF Restart, TypeOK
    <2>4. <<>> \in Seq(Change) /\ <<>> \in Seq(Message)
      BY EmptySeq
    <2>5. /\ late' \in [Clients -> Seq(Change)] /\ queue' \in [Clients -> Seq(Change)]
          /\ up' \in [Clients -> Seq(Change)] /\ down' \in [Clients -> Seq(Message)]
      BY <1>12, <2>4 DEF Restart, TypeOK
    <2>6. /\ page' \in [Clients -> {"loading", "rendering", "ready", "over"}]
          /\ conn' \in [Clients -> {"closed", "accepted", "sending", "live"}]
          /\ deaf' \subseteq Clients
      BY <1>12 DEF Restart, TypeOK
    <2>7. faults' \in 0 .. MaxFaults
      BY <1>12, BoundsAssumption DEF Restart, TypeOK
    <2>8. UNCHANGED <<made, store, reading, doc, skipped>>
      BY <1>12 DEF Restart
    <2>9. \A c \in Pages : page'[c] # "over"
      BY <1>12, ClientsAssumption DEF Restart, TypeOK, Clients
    <2> QED BY <2>3, <2>5, <2>6, <2>7, <2>8, <2>9 DEF TypeOK
  <1>13. CASE UNCHANGED vars
    BY <1>13 DEF TypeOK, vars
  <1> QED BY <1>1, <1>2, <1>3, <1>4, <1>5, <1>6, <1>7, <1>8, <1>9, <1>10, <1>11, <1>12,
             <1>13 DEF Next

\* The variables of the document's synchronisation keep their types, whatever
\* the number of clients, changes and faults.
THEOREM TypeCorrect == Spec => []TypeOK
  BY InitTypeOK, NextTypeOK, PTL DEF Spec

-----------------------------------------------------------------------------
(* The database is ahead of every client                                   *)

\* Changes are stored, sent and lost only after they were made, by the client
\* they are sent by.
MadeFirst ==
  /\ store \subseteq AllMade
  /\ \A c \in Clients : Range(up[c]) \cup Range(late[c]) \subseteq Own(c)

\* A client's changes are received in the order it made them: what a broken
\* connection left behind is older than what the next one brings.
SentInOrder ==
  \A c \in Clients : Ascending(late[c]) /\ Ascending(up[c]) /\ Before(late[c], up[c])

\* What a client knows of others is stored.
KnownIsStored ==
  \A c \in Clients : doc[c] \subseteq store \cup Own(c) /\ UnderWay(c) \subseteq store

\* So a change depends on stored ones and on earlier ones of its author.
DependsOnStored ==
  \A ch \in AllMade :
    made[ch.actor][ch.seq] \subseteq store \cup {d \in Own(ch.actor) : d.seq < ch.seq}

\* No change disappears without a trace.
NoneForgotten ==
  \A c \in Clients :
    Own(c) \subseteq store \cup lost \cup Range(late[c]) \cup Range(up[c])

\* StoreIsAhead is not inductive: that a change received now leaves no gap rests
\* on the order the changes are sent in, and on none being forgotten.
StoreInv ==
  /\ TypeOK
  /\ MadeFirst
  /\ SentInOrder
  /\ KnownIsStored
  /\ DependsOnStored
  /\ NoneForgotten
  /\ GapsAreLosses

\* What every step but Edit does with the changes on their way to the store.
FlowStep ==
  /\ UNCHANGED made
  /\ store \subseteq store' /\ lost \subseteq lost'
  /\ \A c \in Clients :
       /\ Range(late[c]) \subseteq store' \cup lost' \cup Range(late'[c])
       /\ Range(up[c]) \subseteq store' \cup lost' \cup Range(late'[c]) \cup Range(up'[c])
       /\ Range(up'[c]) \subseteq Range(up[c])
       /\ Range(late'[c]) \subseteq Range(late[c]) \cup Range(up[c])
  /\ \A ch \in store' \ store : \E c \in Clients :
       /\ ch \in Range(late[c]) \cup Range(up[c])
       /\ \A b \in Range(up[c]) : ~(b.seq < ch.seq)

LEMMA ClientSequences ==
  ASSUME TypeOK, NEW c \in Clients
  PROVE  /\ up[c] \in Seq(Change) /\ late[c] \in Seq(Change)
         /\ queue[c] \in Seq(Change) /\ down[c] \in Seq(Message)
  BY DEF TypeOK

LEMMA NumbersAreNaturals ==
  ASSUME TypeOK, NEW c \in Clients
  PROVE  \A ch \in Range(up[c]) \cup Range(late[c]) : ch \in Change /\ ch.seq \in Nat
  <1>1. Range(up[c]) \subseteq Change /\ Range(late[c]) \subseteq Change
    BY ClientSequences, RangeInSet
  <1>2. \A ch \in Change : ch.seq \in 1 .. MaxChanges
    BY DEF Change
  <1> QED BY <1>1, <1>2, BoundsAssumption

\* The first of the changes under way from a client is received.
LEMMA ReceiveFlow ==
  ASSUME TypeOK, SentInOrder, NEW c \in Clients, Receive(c)
  PROVE  FlowStep
  <1> DEFINE ch == Head(up[c])
  <1>1. up[c] \in Seq(Change) /\ up[c] # <<>>
    BY ClientSequences DEF Receive
  <1>2. Range(up[c]) = {ch} \cup Range(Tail(up[c]))
    BY <1>1, RangeOfTail
  <1>3. store' = store \cup {ch} /\ up' = [up EXCEPT ![c] = Tail(@)]
        /\ UNCHANGED <<made, late, lost>>
    BY DEF Receive, StoreAndBroadcast
  <1>4. up'[c] = Tail(up[c]) /\ \A d \in Clients \ {c} : up'[d] = up[d]
    BY <1>3 DEF TypeOK
  <1>5. \A b \in Range(Tail(up[c])) : ch.seq < b.seq
    BY <1>1, OrderOfTail DEF SentInOrder
  <1>6. \A b \in Range(up[c]) : b.seq \in Nat
    BY NumbersAreNaturals
  <1>7. \A b \in Range(up[c]) : ~(b.seq < ch.seq)
    BY <1>2, <1>5, <1>6
  <1> HIDE DEF ch
  <1>8. \A d \in Clients : Range(up'[d]) \subseteq Range(up[d])
                          /\ Range(up[d]) \subseteq store' \cup Range(up'[d])
    BY <1>2, <1>3, <1>4
  <1>9. \A x \in store' \ store : x \in Range(up[c]) /\ \A b \in Range(up[c]) : ~(b.seq < x.seq)
    BY <1>2, <1>3, <1>7
  <1> QED BY <1>3, <1>8, <1>9 DEF FlowStep

\* What is left over from a broken connection comes before all that is under way.
LEMMA ReceiveLateFlow ==
  ASSUME TypeOK, SentInOrder, NEW c \in Clients, ReceiveLate(c)
  PROVE  FlowStep
  <1> DEFINE ch == Head(late[c])
  <1>1. late[c] \in Seq(Change) /\ late[c] # <<>>
    BY ClientSequences DEF ReceiveLate
  <1>2. Range(late[c]) = {ch} \cup Range(Tail(late[c]))
    BY <1>1, RangeOfTail
  <1>3. store' = store \cup {ch} /\ late' = [late EXCEPT ![c] = Tail(@)]
        /\ UNCHANGED <<made, up, lost>>
    BY DEF ReceiveLate, StoreAndBroadcast
  <1>4. late'[c] = Tail(late[c]) /\ \A d \in Clients \ {c} : late'[d] = late[d]
    BY <1>3 DEF TypeOK
  <1>5. \A b \in Range(up[c]) : ch.seq < b.seq /\ ch.seq \in Nat /\ b.seq \in Nat
    BY <1>2, NumbersAreNaturals DEF SentInOrder, Before
  <1>6. \A b \in Range(up[c]) : ~(b.seq < ch.seq)
    BY <1>5
  <1> HIDE DEF ch
  <1>7. \A d \in Clients : Range(late'[d]) \subseteq Range(late[d])
                          /\ Range(late[d]) \subseteq store' \cup Range(late'[d])
    BY <1>2, <1>3, <1>4
  <1>8. \A x \in store' \ store : x \in Range(late[c]) /\ \A b \in Range(up[c]) : ~(b.seq < x.seq)
    BY <1>2, <1>3, <1>6
  <1> QED BY <1>3, <1>7, <1>8 DEF FlowStep

LEMMA CommitFailsFlow ==
  ASSUME TypeOK, NEW c \in Clients, CommitFails(c)
  PROVE  FlowStep
  <1>1. up[c] \in Seq(Change) /\ up[c] # <<>>
    BY ClientSequences DEF CommitFails
  <1>2. Range(up[c]) = {Head(up[c])} \cup Range(Tail(up[c]))
    BY <1>1, RangeOfTail
  <1>3. lost' = lost \cup {Head(up[c])} /\ up' = [up EXCEPT ![c] = Tail(@)]
        /\ UNCHANGED <<made, store, late>>
    BY DEF CommitFails
  <1>4. up'[c] = Tail(up[c]) /\ \A d \in Clients \ {c} : up'[d] = up[d]
    BY <1>3 DEF TypeOK
  <1>5. \A d \in Clients : Range(up'[d]) \subseteq Range(up[d])
                          /\ Range(up[d]) \subseteq lost' \cup Range(up'[d])
    BY <1>2, <1>3, <1>4
  <1> QED BY <1>3, <1>5 DEF FlowStep

\* What was under way on a connection that ends is received late or lost.
LEMMA DisconnectFlow ==
  ASSUME TypeOK, NEW c \in Clients, NEW k \in 0 .. Len(up[c]), Disconnects(c, k)
  PROVE  FlowStep
  <1> DEFINE first == SubSeq(up[c], 1, k)
             rest == SubSeq(up[c], k + 1, Len(up[c]))
  <1>1. up[c] \in Seq(Change) /\ late[c] \in Seq(Change)
    BY ClientSequences
  <1>2. first \in Seq(Change) /\ Range(up[c]) = Range(first) \cup Range(rest)
    BY <1>1, RangeOfParts
  <1>3. /\ late' = [late EXCEPT ![c] = @ \o first]
        /\ up' = [up EXCEPT ![c] = <<>>]
        /\ lost' = lost \cup Range(rest)
        /\ UNCHANGED <<made, store>>
    BY DEF Disconnects
  <1> HIDE DEF first, rest
  <1>4. Range(late[c] \o first) = Range(late[c]) \cup Range(first)
    BY <1>1, <1>2, RangeOfConcat
  <1>5. Range(<<>>) = {}
    BY DEF Range
  <1>6. /\ late'[c] = late[c] \o first /\ up'[c] = <<>>
        /\ \A d \in Clients \ {c} : late'[d] = late[d] /\ up'[d] = up[d]
    BY <1>3 DEF TypeOK
  <1>7. \A d \in Clients :
          /\ Range(late[d]) \subseteq Range(late'[d])
          /\ Range(up[d]) \subseteq lost' \cup Range(late'[d]) \cup Range(up'[d])
          /\ Range(up'[d]) \subseteq Range(up[d])
          /\ Range(late'[d]) \subseteq Range(late[d]) \cup Range(up[d])
    BY <1>2, <1>3, <1>4, <1>5, <1>6
  <1> QED BY <1>3, <1>7 DEF FlowStep

LEMMA RestartFlow ==
  ASSUME TypeOK, Restart
  PROVE  FlowStep
  <1> DEFINE connected == {c \in Clients : conn[c] # "closed"}
             late0 == UNION {Range(late[c]) : c \in Clients}
             up0 == UNION {Range(up[c]) : c \in connected}
  <1>1. lost' = lost \cup late0 \cup up0
    BY Zenon DEF Restart
  <1>2. /\ late' = [c \in Clients |-> <<>>]
        /\ up' = [c \in Clients |-> IF c \in connected THEN <<>> ELSE up[c]]
        /\ UNCHANGED <<made, store>>
    BY DEF Restart
  <1>3. /\ \A c \in Clients : Range(late[c]) \subseteq late0
        /\ \A c \in connected : Range(up[c]) \subseteq up0
    OBVIOUS
  <1> HIDE DEF connected, late0, up0
  <1>4. Range(<<>>) = {}
    BY DEF Range
  <1>5. ASSUME NEW c \in Clients
        PROVE  /\ Range(late[c]) \subseteq lost'
               /\ Range(up[c]) \subseteq lost' \cup Range(up'[c])
               /\ Range(up'[c]) \subseteq Range(up[c])
               /\ Range(late'[c]) = {}
    <2>1. CASE c \in connected
      BY <1>1, <1>2, <1>3, <1>4, <2>1
    <2>2. CASE c \notin connected
      BY <1>1, <1>2, <1>3, <1>4, <2>2
    <2> QED BY <2>1, <2>2
  <1> QED BY <1>1, <1>2, <1>5 DEF FlowStep

LEMMA FlowSteps ==
  ASSUME TypeOK, SentInOrder, [Next]_vars
  PROVE  FlowStep \/ \E c \in Clients : Edit(c)
  <1>1. ASSUME UNCHANGED <<made, store, up, late, lost>> PROVE FlowStep
    BY <1>1 DEF FlowStep
  <1>2. ASSUME NEW c \in Clients,
               \/ Connect(c) \/ ReadBacklog(c) \/ BacklogSent(c) \/ Forward(c)
               \/ Arrive(c) \/ Read(c) \/ WorkerReads(c) \/ Render(c)
        PROVE  FlowStep
    BY <1>1, <1>2 DEF Connect, ReadBacklog, BacklogSent, Forward, Arrive, Read,
                WorkerReads, Handle, Render
  <1>3. ASSUME NEW c \in Clients, Reject(c) \/ Break(c) \/ Finish(c) PROVE FlowStep
    BY <1>3, DisconnectCases, DisconnectFlow
  <1>4. CASE UNCHANGED vars
    BY <1>1, <1>4 DEF vars
  <1> QED BY <1>2, <1>3, <1>4, ReceiveFlow, ReceiveLateFlow, CommitFailsFlow, RestartFlow
          DEF Next

\* Without an edit the changes that were made stay the same.
LEMMA MadeUnchanged ==
  ASSUME UNCHANGED made
  PROVE  /\ AllMade' = AllMade
         /\ \A c \in Clients : Own(c)' = Own(c)
  BY DEF AllMade, Own, Change, Clients

LEMMA FlowKeeps ==
  ASSUME StoreInv, FlowStep
  PROVE  MadeFirst' /\ DependsOnStored' /\ NoneForgotten' /\ GapsAreLosses'
  <1>1. AllMade' = AllMade /\ \A c \in Clients : Own(c)' = Own(c)
    BY MadeUnchanged DEF FlowStep
  <1>2. /\ made' = made /\ store \subseteq store' /\ lost \subseteq lost'
        /\ \A c \in Clients : Own(c) \subseteq AllMade
        /\ \A ch \in AllMade : ch.actor \in Clients /\ ch \in Own(ch.actor)
    BY DEF FlowStep, Own, AllMade, Change
  <1>3. store' \subseteq AllMade
    BY <1>2 DEF StoreInv, MadeFirst, FlowStep
  <1>4. MadeFirst'
    BY <1>1, <1>3 DEF StoreInv, MadeFirst, FlowStep
  <1>5. DependsOnStored'
    BY <1>1, <1>2 DEF StoreInv, DependsOnStored
  <1>6. NoneForgotten'
    <2> SUFFICES ASSUME NEW c \in Clients, NEW ch \in Own(c)
                 PROVE  ch \in store' \cup lost' \cup Range(late'[c]) \cup Range(up'[c])
      BY <1>1 DEF NoneForgotten
    <2> QED BY <1>2 DEF StoreInv, NoneForgotten, FlowStep
  <1>7. GapsAreLosses'
    <2> SUFFICES ASSUME NEW ch \in store', NEW d \in made[ch.actor][ch.seq],
                        d \notin store', d \notin lost'
                 PROVE  \E c \in Clients : d \in Range(late'[c])
      BY <1>2 DEF GapsAreLosses
    <2>1. ASSUME NEW c \in Clients, d \in Range(late[c]) PROVE d \in Range(late'[c])
      BY <2>1 DEF FlowStep
    <2>2. CASE ch \in store
      BY <1>2, <2>1, <2>2 DEF StoreInv, GapsAreLosses
    <2>3. CASE ch \notin store
      <3>1. PICK c \in Clients :
              /\ ch \in Range(late[c]) \cup Range(up[c])
              /\ \A b \in Range(up[c]) : ~(b.seq < ch.seq)
        BY <2>3 DEF FlowStep
      <3>2. ch \in Own(c) /\ ch.actor = c
        BY <3>1 DEF StoreInv, MadeFirst, Own
      <3>3. d \in Own(c) /\ d.seq < ch.seq
        BY <1>2, <3>2 DEF StoreInv, DependsOnStored
      <3>4. d \notin Range(up[c])
        BY <3>1, <3>3
      <3>5. d \in Range(late[c])
        BY <1>2, <3>3, <3>4 DEF StoreInv, NoneForgotten
      <3> QED BY <2>1, <3>5
    <2> QED BY <2>2, <2>3
  <1> QED BY <1>4, <1>5, <1>6, <1>7

LEMMA EditKeeps ==
  ASSUME StoreInv, NEW c \in Clients, Edit(c)
  PROVE  MadeFirst' /\ DependsOnStored' /\ NoneForgotten' /\ GapsAreLosses'
  <1> DEFINE new == NextChange(c)
  <1>1. /\ new \in Change /\ new.actor = c
        /\ AllMade' = AllMade \cup {new}
        /\ Own(c)' = Own(c) \cup {new}
        /\ \A d \in Clients \ {c} : Own(d)' = Own(d)
        /\ \A ch \in Own(c) : ch.seq < new.seq
        /\ \A ch \in AllMade : made'[ch.actor][ch.seq] = made[ch.actor][ch.seq]
        /\ made'[c][new.seq] = Applied(doc[c])
    BY EditMakes DEF StoreInv
  <1>2. up[c] \in Seq(Change)
    BY ClientSequences DEF StoreInv
  <1>3. up' = [up EXCEPT ![c] = Append(@, new)] /\ UNCHANGED <<store, late, lost>>
    BY DEF Edit
  <1> HIDE DEF new
  <1>4. /\ Range(up'[c]) = Range(up[c]) \cup {new}
        /\ \A d \in Clients \ {c} : up'[d] = up[d]
    BY <1>1, <1>2, <1>3, RangeOfAppend DEF StoreInv, TypeOK
  <1>5. MadeFirst'
    BY <1>1, <1>3, <1>4 DEF StoreInv, MadeFirst
  <1>6. NoneForgotten'
    BY <1>1, <1>3, <1>4 DEF StoreInv, NoneForgotten
  <1>7. DependsOnStored'
    <2>1. ASSUME NEW ch \in AllMade
          PROVE  made'[ch.actor][ch.seq] \subseteq
                   store' \cup {d \in Own(ch.actor)' : d.seq < ch.seq}
      <3>1. ch.actor \in Clients /\ Own(ch.actor) \subseteq Own(ch.actor)'
        BY <1>1 DEF AllMade, Change
      <3> QED BY <1>1, <1>3, <3>1 DEF StoreInv, DependsOnStored
    <2>2. Applied(doc[c]) \subseteq store \cup Own(c)
      BY DEF StoreInv, KnownIsStored, Applied
    <2>3. ASSUME NEW ch, ch = new
          PROVE  made'[ch.actor][ch.seq] \subseteq
                   store' \cup {d \in Own(ch.actor)' : d.seq < ch.seq}
      <3>1. ch.actor = c /\ made'[ch.actor][ch.seq] = Applied(doc[c])
        BY <1>1, <2>3
      <3>2. Own(ch.actor)' = Own(c) \cup {ch} /\ \A d \in Own(c) : d.seq < ch.seq
        BY <1>1, <2>3, <3>1
      <3> QED BY <1>3, <2>2, <3>1, <3>2
    <2>4. \A ch \in AllMade' : ch \in AllMade \/ ch = new
      BY <1>1
    <2> QED BY <2>1, <2>3, <2>4 DEF DependsOnStored
  <1>8. GapsAreLosses'
    <2>1. store' = store /\ lost' = lost /\ late' = late
      BY <1>3
    <2>2. \A ch \in store : made'[ch.actor][ch.seq] = made[ch.actor][ch.seq]
      BY <1>1 DEF StoreInv, MadeFirst
    <2> QED BY <2>1, <2>2 DEF StoreInv, GapsAreLosses
  <1> QED BY <1>5, <1>6, <1>7, <1>8

LEMMA OrderStep ==
  ASSUME TypeOK, MadeFirst, SentInOrder, [Next]_vars
  PROVE  SentInOrder'
  <1> DEFINE Orders(c) == Ascending(late'[c]) /\ Ascending(up'[c]) /\ Before(late'[c], up'[c])
  <1>1. ASSUME \A c \in Clients : Orders(c) PROVE SentInOrder'
    BY <1>1 DEF SentInOrder
  <1>2. ASSUME NEW d \in Clients, up'[d] = up[d], late'[d] = late[d] PROVE Orders(d)
    BY <1>2 DEF SentInOrder
  <1>3. ASSUME UNCHANGED <<up, late>> PROVE SentInOrder'
    BY <1>3, <1>2, <1>1
  <1>4. ASSUME NEW c \in Clients, up[c] # <<>>, up' = [up EXCEPT ![c] = Tail(@)], late' = late
        PROVE  SentInOrder'
    <2>1. up[c] \in Seq(Change) /\ up'[c] = Tail(up[c])
      BY <1>4, ClientSequences DEF TypeOK
    <2>2. Range(up'[c]) \subseteq Range(up[c]) /\ Ascending(up'[c])
      BY <1>4, <2>1, RangeOfTail, OrderOfTail DEF SentInOrder
    <2>3. Orders(c)
      BY <1>4, <2>2 DEF SentInOrder, Before
    <2>4. \A d \in Clients \ {c} : up'[d] = up[d] /\ late'[d] = late[d]
      BY <1>4 DEF TypeOK
    <2> QED BY <1>1, <1>2, <2>3, <2>4
  <1>5. ASSUME NEW c \in Clients, ReceiveLate(c) PROVE SentInOrder'
    <2>1. late[c] # <<>> /\ late' = [late EXCEPT ![c] = Tail(@)] /\ up' = up
      BY <1>5 DEF ReceiveLate
    <2>2. late[c] \in Seq(Change) /\ late'[c] = Tail(late[c])
      BY <2>1, ClientSequences DEF TypeOK
    <2>3. Range(late'[c]) \subseteq Range(late[c]) /\ Ascending(late'[c])
      BY <2>1, <2>2, RangeOfTail, OrderOfTail DEF SentInOrder
    <2>4. Orders(c)
      BY <2>1, <2>3 DEF SentInOrder, Before
    <2>5. \A d \in Clients \ {c} : up'[d] = up[d] /\ late'[d] = late[d]
      BY <2>1 DEF TypeOK
    <2> QED BY <1>1, <1>2, <2>4, <2>5
  <1>6. Ascending(<<>>) /\ \A s : Before(<<>>, s) /\ Before(s, <<>>)
    BY DEF Ascending, Before, Range
  <1>7. ASSUME NEW c \in Clients, NEW k \in 0 .. Len(up[c]), Disconnects(c, k)
        PROVE  SentInOrder'
    <2> DEFINE first == SubSeq(up[c], 1, k)
    <2>1. up[c] \in Seq(Change) /\ late[c] \in Seq(Change)
      BY ClientSequences
    <2>2. first \in Seq(Change) /\ Range(first) \subseteq Range(up[c])
      BY <2>1, RangeOfParts
    <2>3. Ascending(first)
      BY <2>1, OrderOfPart DEF SentInOrder
    <2>4. /\ up'[c] = <<>> /\ late'[c] = late[c] \o first
          /\ \A d \in Clients \ {c} : up'[d] = up[d] /\ late'[d] = late[d]
      BY <1>7 DEF Disconnects, TypeOK
    <2> HIDE DEF first
    <2>5. Ascending(late[c]) /\ Before(late[c], first)
      BY <2>2 DEF SentInOrder, Before
    <2>6. Ascending(late[c] \o first)
      BY <2>1, <2>2, <2>3, <2>5, OrderOfConcat
    <2>7. Orders(c)
      BY <1>6, <2>4, <2>6
    <2> QED BY <1>1, <1>2, <2>4, <2>7
  <1>8. CASE Restart
    <2>1. late' = [c \in Clients |-> <<>>]
          /\ \A c \in Clients : up'[c] = <<>> \/ up'[c] = up[c]
      BY <1>8 DEF Restart
    <2>2. \A c \in Clients : Orders(c)
      BY <1>6, <2>1 DEF SentInOrder
    <2> QED BY <1>1, <2>2
  <1>9. ASSUME NEW c \in Clients, Edit(c) PROVE SentInOrder'
    <2> DEFINE new == NextChange(c)
    <2>1. new \in Change /\ \A ch \in Own(c) : ch.seq < new.seq
      BY <1>9, EditMakes
    <2>2. up' = [up EXCEPT ![c] = Append(@, new)] /\ late' = late
      BY <1>9 DEF Edit
    <2> HIDE DEF new
    <2>3. /\ up[c] \in Seq(Change) /\ up'[c] = Append(up[c], new)
          /\ \A d \in Clients \ {c} : up'[d] = up[d] /\ late'[d] = late[d]
      BY <2>2, ClientSequences DEF TypeOK
    <2>4. \A ch \in Range(up[c]) \cup Range(late[c]) : ch.seq < new.seq
      BY <2>1 DEF MadeFirst
    <2>5. Range(up'[c]) = Range(up[c]) \cup {new}
      BY <2>1, <2>3, RangeOfAppend
    <2>6. Ascending(up'[c])
      BY <2>1, <2>3, <2>4, OrderOfAppend DEF SentInOrder
    <2>7. Orders(c)
      BY <2>2, <2>4, <2>5, <2>6 DEF SentInOrder, Before
    <2> QED BY <1>1, <1>2, <2>3, <2>7
  <1> HIDE DEF Orders
  <1>10. ASSUME NEW c \in Clients,
               \/ Connect(c) \/ ReadBacklog(c) \/ BacklogSent(c) \/ Forward(c)
               \/ Arrive(c) \/ Read(c) \/ WorkerReads(c) \/ Render(c)
        PROVE  SentInOrder'
    BY <1>3, <1>10 DEF Connect, ReadBacklog, BacklogSent, Forward, Arrive, Read,
                WorkerReads, Handle, Render
  <1>11. ASSUME NEW c \in Clients, Receive(c) \/ CommitFails(c) PROVE SentInOrder'
    BY <1>4, <1>11 DEF Receive, CommitFails
  <1>12. ASSUME NEW c \in Clients, Reject(c) \/ Break(c) \/ Finish(c) PROVE SentInOrder'
    BY <1>7, <1>12, DisconnectCases
  <1>13. CASE UNCHANGED vars
    BY <1>3, <1>13 DEF vars
  <1> QED BY <1>5, <1>8, <1>9, <1>10, <1>11, <1>12, <1>13 DEF Next

-----------------------------------------------------------------------------
(* What is on its way to a client                                          *)

InMessages(s) == UNION {Carried(m) : m \in Range(s)}

LEMMA InMessagesOfAppend ==
  ASSUME NEW s \in Seq(Message), NEW m \in Message
  PROVE  InMessages(Append(s, m)) = InMessages(s) \cup Carried(m)
  <1>1. Range(Append(s, m)) = Range(s) \cup {m}
    BY RangeOfAppend
  <1> QED BY <1>1 DEF InMessages

LEMMA InMessagesOfTail ==
  ASSUME NEW s \in Seq(Message), s # <<>>
  PROVE  InMessages(s) = Carried(Head(s)) \cup InMessages(Tail(s))
  <1>1. Range(s) = {Head(s)} \cup Range(Tail(s))
    BY RangeOfTail
  <1> QED BY <1>1 DEF InMessages

\* What the messages of a set carry.
InSet(M) == UNION {Carried(m) : m \in M}

LEMMA UnderWaySplit ==
  /\ \A c : UnderWay(c) = Range(queue[c]) \cup InMessages(down[c]) \cup InSet(reading[c])
  /\ \A c : UnderWay(c)' = Range(queue'[c]) \cup InMessages(down'[c]) \cup InSet(reading'[c])
  BY DEF UnderWay, InMessages, InSet, Carried

LEMMA NothingInEmpty == Range(<<>>) = {} /\ InMessages(<<>>) = {}
  BY DEF Range, InMessages

LEMMA BacklogUnderWay ==
  ASSUME TypeOK, NEW c \in Clients, ReadBacklog(c)
  PROVE  UnderWay(c)' = UnderWay(c) \cup store
  <1> DEFINE m == [type |-> "full", changes |-> store]
  <1>1. m \in Message /\ Carried(m) = store
    BY DEF Message, Carried, TypeOK
  <1>2. down' = [down EXCEPT ![c] = Append(@, m)] /\ queue' = queue /\ reading' = reading
    BY DEF ReadBacklog
  <1>3. down'[c] = Append(down[c], m) /\ down[c] \in Seq(Message)
    BY <1>2, ClientSequences DEF TypeOK
  <1> HIDE DEF m
  <1>4. InMessages(down'[c]) = InMessages(down[c]) \cup store
    BY <1>1, <1>3, InMessagesOfAppend
  <1> QED BY <1>2, <1>4, UnderWaySplit

LEMMA ForwardUnderWay ==
  ASSUME TypeOK, NEW c \in Clients, Forward(c)
  PROVE  UnderWay(c)' = UnderWay(c)
  <1> DEFINE m == [type |-> "change", change |-> Head(queue[c])]
  <1>1. queue[c] \in Seq(Change) /\ down[c] \in Seq(Message) /\ queue[c] # <<>>
    BY ClientSequences DEF Forward
  <1>2. m \in Message /\ Carried(m) = {Head(queue[c])}
    BY <1>1, HeadTailProperties DEF Message, Carried
  <1>3. /\ down' = [down EXCEPT ![c] = Append(@, m)]
        /\ queue' = [queue EXCEPT ![c] = Tail(@)] /\ reading' = reading
    BY DEF Forward
  <1>4. down'[c] = Append(down[c], m) /\ queue'[c] = Tail(queue[c])
    BY <1>3 DEF TypeOK
  <1> HIDE DEF m
  <1>5. InMessages(down'[c]) = InMessages(down[c]) \cup {Head(queue[c])}
    BY <1>1, <1>2, <1>4, InMessagesOfAppend
  <1>6. Range(queue[c]) = {Head(queue[c])} \cup Range(queue'[c])
    BY <1>1, <1>4, RangeOfTail
  <1> QED BY <1>3, <1>5, <1>6, UnderWaySplit

LEMMA BroadcastUnderWay ==
  ASSUME TypeOK, NEW ch \in Change, StoreAndBroadcast(ch), down' = down,
         reading' = reading, NEW c \in Clients
  PROVE  UnderWay(c)' = UnderWay(c) \cup (IF Subscribed(c) THEN {ch} ELSE {})
  <1>1. queue[c] \in Seq(Change)
    BY ClientSequences
  <1>2. queue'[c] = IF Subscribed(c) THEN Append(queue[c], ch) ELSE queue[c]
    BY DEF StoreAndBroadcast
  <1>3. Range(queue'[c]) = Range(queue[c]) \cup (IF Subscribed(c) THEN {ch} ELSE {})
    BY <1>1, <1>2, RangeOfAppend
  <1> QED BY <1>3, UnderWaySplit

\* A message that arrives is still under way until the page has read it.
LEMMA ArriveUnderWay ==
  ASSUME TypeOK, NEW c \in Clients, Arrive(c)
  PROVE  /\ InMessages(down[c]) = Carried(Head(down[c])) \cup InMessages(down'[c])
         /\ InSet(reading'[c]) = InSet(reading[c]) \cup Carried(Head(down[c]))
         /\ UnderWay(c)' = UnderWay(c)
  <1>1. down[c] \in Seq(Message) /\ down[c] # <<>>
    BY ClientSequences DEF Arrive
  <1>2. /\ down' = [down EXCEPT ![c] = Tail(@)] /\ queue' = queue
        /\ reading' = [reading EXCEPT ![c] = @ \cup {Head(down[c])}]
    BY DEF Arrive
  <1>3. down'[c] = Tail(down[c]) /\ reading'[c] = reading[c] \cup {Head(down[c])}
    BY <1>2 DEF TypeOK
  <1>4. InMessages(down[c]) = Carried(Head(down[c])) \cup InMessages(down'[c])
    BY <1>1, <1>3, InMessagesOfTail
  <1>5. InSet(reading'[c]) = InSet(reading[c]) \cup Carried(Head(down[c]))
    BY <1>3 DEF InSet
  <1> QED BY <1>2, <1>4, <1>5, UnderWaySplit

\* The message that a client handles was under way to it, and everything else
\* that is under way stays so.
LEMMA HandledUnderWay ==
  ASSUME TypeOK, NEW c \in Clients, Read(c) \/ WorkerReads(c)
  PROVE  \E m \in Message : /\ Handle(c, m)
                            /\ UnderWay(c) = Carried(m) \cup UnderWay(c)'
                            /\ \A d \in Clients \ {c} : UnderWay(d)' = UnderWay(d)
  <1>1. CASE Read(c)
    <2>1. PICK m \in reading[c] : Handle(c, m) /\ reading' = [reading EXCEPT ![c] = @ \ {m}]
                                 /\ down' = down
      BY <1>1 DEF Read
    <2>2. m \in Message /\ queue' = queue
      BY <2>1 DEF TypeOK, Handle
    <2>3. reading[c] = {m} \cup reading'[c]
      BY <2>1 DEF TypeOK
    <2>4. InSet(reading[c]) = Carried(m) \cup InSet(reading'[c])
      BY <2>3 DEF InSet
    <2>5. \A d \in Clients \ {c} : reading'[d] = reading[d]
      BY <2>1 DEF TypeOK
    <2> QED BY <2>1, <2>2, <2>4, <2>5, UnderWaySplit
  <1>2. CASE WorkerReads(c)
    <2>1. down[c] \in Seq(Message) /\ down[c] # <<>>
      BY <1>2, ClientSequences DEF WorkerReads
    <2>2. /\ down' = [down EXCEPT ![c] = Tail(@)] /\ reading' = reading
          /\ Handle(c, Head(down[c])) /\ queue' = queue
      BY <1>2 DEF WorkerReads, Handle
    <2>3. down'[c] = Tail(down[c]) /\ \A d \in Clients \ {c} : down'[d] = down[d]
      BY <2>2 DEF TypeOK
    <2>4. InMessages(down[c]) = Carried(Head(down[c])) \cup InMessages(down'[c])
      BY <2>1, <2>3, InMessagesOfTail
    <2>5. Head(down[c]) \in Message
      BY <2>1, HeadTailProperties
    <2> QED BY <2>2, <2>3, <2>4, <2>5, UnderWaySplit
  <1> QED BY <1>1, <1>2

\* A message adds to a document only what it carries, or replaces the document by
\* it.  Nothing is forgotten: what leaves the document is counted as thrown away.
LEMMA HandleDoc ==
  ASSUME TypeOK, NEW c \in Clients, NEW m \in Message, Handle(c, m)
  PROVE  /\ doc'[c] \subseteq doc[c] \cup Carried(m)
         /\ skipped'[c] \subseteq skipped[c] \cup doc[c] \cup Carried(m)
         /\ doc[c] \cup skipped[c] \subseteq doc'[c] \cup skipped'[c]
         /\ page[c] = "ready" => doc[c] \subseteq doc'[c]
         /\ c \in Pages => (page'[c] = "ready" <=> page[c] = "ready")
         /\ c \in Pages => \A ch \in Carried(m) :
              ch \in doc'[c] \cup skipped'[c] \/ (page[c] = "ready" /\ ch.actor = c)
         /\ \A d \in Clients \ {c} : /\ doc'[d] = doc[d] /\ skipped'[d] = skipped[d]
                                      /\ page'[d] = page[d]
  <1>1. CASE m.type = "full" /\ ArriveFull(c, m.changes)
    <2>1. Carried(m) = m.changes /\ Applied(m.changes) \subseteq m.changes
      BY <1>1 DEF Carried, Applied
    <2> QED BY <1>1, <2>1, ClientsAssumption DEF ArriveFull, TypeOK
  <1>2. CASE m.type = "change" /\ ArriveChange(c, m.change)
    <2>1. Carried(m) = {m.change}
      BY <1>2 DEF Carried
    <2> QED BY <1>2, <2>1 DEF ArriveChange, TypeOK
  <1> QED BY <1>1, <1>2 DEF Handle

\* What a step does to a client it is not about.
Aside(c) ==
  /\ Own(c)' = Own(c) /\ UnderWay(c)' = UnderWay(c)
  /\ conn'[c] = conn[c] /\ down'[c] = down[c] /\ doc'[c] = doc[c]
  /\ reading'[c] = reading[c] /\ skipped'[c] = skipped[c] /\ page'[c] = page[c]

LEMMA OthersAside ==
  ASSUME TypeOK, NEW c \in Clients, NEW d \in Clients \ {c},
         \/ Connect(c) \/ ReadBacklog(c) \/ BacklogSent(c) \/ Forward(c)
         \/ CommitFails(c) \/ Reject(c) \/ Break(c) \/ Finish(c)
         \/ Edit(c) \/ Arrive(c) \/ Read(c) \/ WorkerReads(c) \/ Render(c)
  PROVE  store' = store /\ Aside(d)
  <1>1. ASSUME queue'[d] = queue[d], down'[d] = down[d], reading'[d] = reading[d]
        PROVE  UnderWay(d)' = UnderWay(d)
    BY <1>1, UnderWaySplit
  <1>2. ASSUME made' = made PROVE Own(d)' = Own(d)
    BY <1>2, MadeUnchanged
  <1>3. ASSUME Connect(c) \/ BacklogSent(c) \/ Render(c) \/ CommitFails(c)
        PROVE  store' = store /\ Aside(d)
    BY <1>1, <1>2, <1>3 DEF Connect, BacklogSent, Render, CommitFails, Aside, TypeOK
  <1>4. ASSUME ReadBacklog(c) PROVE store' = store /\ Aside(d)
    BY <1>1, <1>2, <1>4 DEF ReadBacklog, Aside, TypeOK
  <1>5. ASSUME Forward(c) PROVE store' = store /\ Aside(d)
    BY <1>1, <1>2, <1>5 DEF Forward, Aside, TypeOK
  <1>6. ASSUME Reject(c) \/ Break(c) \/ Finish(c) PROVE store' = store /\ Aside(d)
    <2>1. PICK k \in 0 .. Len(up[c]) : Disconnects(c, k)
      BY <1>6, DisconnectCases
    <2> QED BY <1>1, <1>2, <2>1 DEF Disconnects, Aside, TypeOK
  <1>7. ASSUME Edit(c) PROVE store' = store /\ Aside(d)
    <2>1. Own(d)' = Own(d)
      BY <1>7, EditMakes
    <2> QED BY <1>1, <1>7, <2>1 DEF Edit, Aside, TypeOK
  <1>8. ASSUME Arrive(c) PROVE store' = store /\ Aside(d)
    BY <1>1, <1>2, <1>8 DEF Arrive, Aside, TypeOK
  <1>9. ASSUME Read(c) \/ WorkerReads(c) PROVE store' = store /\ Aside(d)
    <2>1. PICK m \in Message : Handle(c, m) /\ UnderWay(d)' = UnderWay(d)
      BY <1>9, HandledUnderWay
    <2>2. /\ store' = store /\ conn' = conn /\ made' = made
          /\ down'[d] = down[d] /\ reading'[d] = reading[d]
      BY <1>9, <2>1 DEF Handle, Read, WorkerReads, TypeOK
    <2>3. doc'[d] = doc[d] /\ skipped'[d] = skipped[d] /\ page'[d] = page[d]
      BY <2>1, HandleDoc
    <2> QED BY <1>2, <2>1, <2>2, <2>3 DEF Aside
  <1> QED BY <1>3, <1>4, <1>5, <1>6, <1>7, <1>8, <1>9

\* After a restart nothing is connected, and under way is only what the page has
\* received and not read yet.
LEMMA RestartEmpties ==
  ASSUME Restart, NEW c \in Clients
  PROVE  /\ Own(c)' = Own(c) /\ UnderWay(c)' = InSet(reading[c])
         /\ reading' = reading /\ skipped' = skipped
         /\ conn'[c] = "closed" /\ down'[c] = <<>>
         /\ doc' = doc /\ store' = store
         /\ c \in Pages => page'[c] = page[c]
  <1>1. /\ made' = made /\ queue'[c] = <<>> /\ down'[c] = <<>>
        /\ conn'[c] = "closed" /\ doc' = doc /\ store' = store
        /\ reading' = reading /\ skipped' = skipped
    BY DEF Restart
  <1>2. c \in Pages => page'[c] = page[c]
    BY ClientsAssumption DEF Restart
  <1> QED BY <1>1, <1>2, MadeUnchanged, UnderWaySplit, NothingInEmpty

LEMMA DisconnectEmpties ==
  ASSUME TypeOK, NEW c \in Clients, Reject(c) \/ Break(c) \/ Finish(c)
  PROVE  /\ Own(c)' = Own(c) /\ UnderWay(c)' = InSet(reading[c])
         /\ reading' = reading /\ skipped' = skipped
         /\ conn'[c] = "closed" /\ down'[c] = <<>>
         /\ doc' = doc /\ store' = store
         /\ c \in Pages => page'[c] = page[c]
  <1>1. PICK k \in 0 .. Len(up[c]) : Disconnects(c, k)
    BY DisconnectCases
  <1>2. /\ made' = made /\ queue'[c] = <<>> /\ down'[c] = <<>>
        /\ conn'[c] = "closed" /\ doc' = doc /\ store' = store
        /\ reading' = reading /\ skipped' = skipped
    BY <1>1 DEF Disconnects, TypeOK
  <1>3. c \in Pages => page'[c] = page[c]
    BY <1>1, ClientsAssumption DEF Disconnects, TypeOK
  <1> QED BY <1>2, <1>3, MadeUnchanged, UnderWaySplit, NothingInEmpty

\* What Receive and ReceiveLate do.
LEMMA ReceiveBroadcasts ==
  ASSUME TypeOK, NEW c \in Clients, Receive(c) \/ ReceiveLate(c)
  PROVE  /\ \E ch \in Change : StoreAndBroadcast(ch)
         /\ UNCHANGED <<made, conn, down, reading, page, doc, skipped>>
  <1>1. up[c] \in Seq(Change) /\ late[c] \in Seq(Change)
    BY ClientSequences
  <1>2. CASE Receive(c)
    <2>1. Head(up[c]) \in Change /\ StoreAndBroadcast(Head(up[c]))
      BY <1>1, <1>2, HeadTailProperties DEF Receive
    <2> QED BY <1>2, <2>1 DEF Receive
  <1>3. CASE ReceiveLate(c)
    <2>1. Head(late[c]) \in Change /\ StoreAndBroadcast(Head(late[c]))
      BY <1>1, <1>3, HeadTailProperties DEF ReceiveLate
    <2> QED BY <1>3, <2>1 DEF ReceiveLate
  <1> QED BY <1>2, <1>3

LEMMA KnownStep ==
  ASSUME TypeOK, KnownIsStored, [Next]_vars
  PROVE  KnownIsStored'
  <1> DEFINE Known(d) == doc'[d] \subseteq store' \cup Own(d)' /\ UnderWay(d)' \subseteq store'
  <1>1. ASSUME NEW c \in Clients, Known(c), store' = store,
               \A d \in Clients \ {c} : Aside(d)
        PROVE  KnownIsStored'
    BY <1>1 DEF KnownIsStored, Aside
  <1>2. ASSUME NEW c \in Clients, Connect(c) \/ BacklogSent(c) \/ Render(c) \/ CommitFails(c)
        PROVE  KnownIsStored'
    <2>1. UNCHANGED <<made, store, queue, down, reading, doc>>
      BY <1>2 DEF Connect, BacklogSent, Render, CommitFails
    <2> QED BY <2>1, MadeUnchanged, UnderWaySplit DEF KnownIsStored
  <1>3. ASSUME NEW c \in Clients, ReadBacklog(c) PROVE KnownIsStored'
    <2>1. UNCHANGED <<made, store, doc>>
      BY <1>3 DEF ReadBacklog
    <2>2. Known(c)
      BY <1>3, <2>1, MadeUnchanged, BacklogUnderWay DEF KnownIsStored
    <2> QED BY <1>1, <1>3, <2>1, <2>2, OthersAside
  <1>4. ASSUME NEW c \in Clients, Forward(c) PROVE KnownIsStored'
    <2>1. UNCHANGED <<made, store, doc>>
      BY <1>4 DEF Forward
    <2>2. Known(c)
      BY <1>4, <2>1, MadeUnchanged, ForwardUnderWay DEF KnownIsStored
    <2> QED BY <1>1, <1>4, <2>1, <2>2, OthersAside
  <1>5. ASSUME NEW c \in Clients, Receive(c) \/ ReceiveLate(c) PROVE KnownIsStored'
    <2>1. PICK ch \in Change : StoreAndBroadcast(ch)
      BY <1>5, ReceiveBroadcasts
    <2>2. UNCHANGED <<made, down, reading, doc>> /\ store' = store \cup {ch}
      BY <1>5, <2>1, ReceiveBroadcasts DEF StoreAndBroadcast
    <2>3. \A d \in Clients : UnderWay(d)' \subseteq UnderWay(d) \cup {ch}
      BY <2>1, <2>2, BroadcastUnderWay
    <2> QED BY <2>2, <2>3, MadeUnchanged DEF KnownIsStored
  <1>6. ASSUME NEW c \in Clients, Reject(c) \/ Break(c) \/ Finish(c) PROVE KnownIsStored'
    <2>1. Known(c) /\ store' = store
      BY <1>6, DisconnectEmpties, UnderWaySplit DEF KnownIsStored
    <2> QED BY <1>1, <1>6, <2>1, OthersAside
  <1>7. ASSUME NEW c \in Clients, Edit(c) PROVE KnownIsStored'
    <2> DEFINE new == NextChange(c)
    <2>1. Own(c)' = Own(c) \cup {new}
      BY <1>7, EditMakes
    <2>2. UNCHANGED <<store, queue, down, reading>> /\ doc' = [doc EXCEPT ![c] = @ \cup {new}]
      BY <1>7 DEF Edit
    <2> HIDE DEF new
    <2>3. doc'[c] = doc[c] \cup {new} /\ UnderWay(c)' = UnderWay(c)
      BY <2>2, UnderWaySplit DEF TypeOK
    <2>4. Known(c)
      BY <2>1, <2>2, <2>3 DEF KnownIsStored
    <2> QED BY <1>1, <1>7, <2>2, <2>4, OthersAside
  <1>8. ASSUME NEW c \in Clients, Arrive(c) PROVE KnownIsStored'
    <2>1. UNCHANGED <<store, made, doc>>
      BY <1>8 DEF Arrive
    <2>2. Known(c)
      BY <1>8, <2>1, MadeUnchanged, ArriveUnderWay DEF KnownIsStored
    <2> QED BY <1>1, <1>8, <2>1, <2>2, OthersAside
  <1>11. ASSUME NEW c \in Clients, Read(c) \/ WorkerReads(c) PROVE KnownIsStored'
    <2>1. PICK m \in Message : Handle(c, m) /\ UnderWay(c) = Carried(m) \cup UnderWay(c)'
      BY <1>11, HandledUnderWay
    <2>2. UNCHANGED <<store, made>> /\ doc'[c] \subseteq doc[c] \cup Carried(m)
      BY <2>1, HandleDoc DEF Handle
    <2>3. Known(c)
      BY <2>1, <2>2, MadeUnchanged DEF KnownIsStored
    <2> QED BY <1>1, <1>11, <2>2, <2>3, OthersAside
  <1>9. CASE Restart
    BY <1>9, RestartEmpties, UnderWaySplit DEF KnownIsStored
  <1>10. CASE UNCHANGED vars
    BY <1>10, MadeUnchanged, UnderWaySplit DEF KnownIsStored, vars
  <1> QED BY <1>2, <1>3, <1>4, <1>5, <1>6, <1>7, <1>8, <1>9, <1>10, <1>11 DEF Next

LEMMA InitStoreInv == Init => StoreInv
  <1> SUFFICES ASSUME Init PROVE StoreInv
    OBVIOUS
  <1>1. TypeOK
    BY InitTypeOK
  <1>2. \A c \in Clients : /\ up[c] = <<>> /\ late[c] = <<>> /\ queue[c] = <<>>
                          /\ down[c] = <<>> /\ doc[c] = {} /\ made[c] = <<>>
                          /\ reading[c] = {}
    BY DEF Init
  <1>3. AllMade = {}
    <2> SUFFICES ASSUME NEW ch \in AllMade PROVE FALSE
      OBVIOUS
    <2>1. ch.actor \in Clients /\ ch.seq \in 1 .. MaxChanges /\ ch.seq <= Len(made[ch.actor])
      BY DEF AllMade, Change
    <2>2. Len(<<>>) = 0
      BY EmptySeq
    <2> QED BY <1>2, <2>1, <2>2, BoundsAssumption
  <1>4. store = {} /\ \A c : Own(c) = {}
    BY <1>3 DEF Init, Own
  <1>5. \A c \in Clients : UnderWay(c) = {} /\ Range(up[c]) = {} /\ Range(late[c]) = {}
    BY <1>2, UnderWaySplit, NothingInEmpty DEF InSet
  <1>6. SentInOrder
    BY <1>2, <1>5 DEF SentInOrder, Ascending, Before
  <1> QED BY <1>1, <1>2, <1>3, <1>4, <1>5, <1>6
          DEF StoreInv, MadeFirst, KnownIsStored, DependsOnStored, NoneForgotten, GapsAreLosses

LEMMA NextStoreInv == StoreInv /\ [Next]_vars => StoreInv'
  <1> SUFFICES ASSUME StoreInv, [Next]_vars
               PROVE  StoreInv'
    OBVIOUS
  <1>1. TypeOK /\ MadeFirst /\ SentInOrder /\ KnownIsStored
    BY DEF StoreInv
  <1>2. TypeOK' /\ SentInOrder' /\ KnownIsStored'
    BY <1>1, NextTypeOK, OrderStep, KnownStep
  <1>3. MadeFirst' /\ DependsOnStored' /\ NoneForgotten' /\ GapsAreLosses'
    BY <1>1, FlowSteps, FlowKeeps, EditKeeps
  <1> QED BY <1>2, <1>3 DEF StoreInv

LEMMA StoreInvariance == Spec => []StoreInv
  BY InitStoreInv, NextStoreInv, PTL DEF Spec

\* A client has nothing of others that is not in the database, and the stored
\* history has gaps only where a connection or a commit lost something.
THEOREM StoreIsAheadCorrect == Spec => []StoreIsAhead
  <1>1. StoreInv => StoreIsAhead
    <2> SUFFICES ASSUME StoreInv PROVE StoreIsAhead
      OBVIOUS
    <2>1. \A c \in Clients : \A ch \in Own(c) : ch.actor = c
      BY DEF Own
    <2> QED BY <2>1 DEF StoreInv, StoreIsAhead, SeenIsStored, KnownIsStored
  <1> QED BY <1>1, StoreInvariance, PTL

-----------------------------------------------------------------------------
(* Nothing is missed between the backlog and the broadcasts                *)

\* NothingMissed is not inductive: a page can only ignore the changes that come
\* back to it because it has its own ones.
PageInv(c) ==
  /\ conn[c] \in {"closed", "accepted"} => down[c] = <<>>
  /\ conn[c] \in {"sending", "live"} =>
       store \subseteq doc[c] \cup skipped[c] \cup UnderWay(c)
  /\ Own(c) \subseteq IF page[c] = "ready" THEN doc[c] ELSE {}

PagesInv == StoreInv /\ \A c \in Pages : PageInv(c)

\* Every page is a client.
LEMMA PagesAreClients == Pages \subseteq Clients
  BY DEF Clients

LEMMA PageAside ==
  ASSUME NEW c \in Pages, PageInv(c), Aside(c), store' = store
  PROVE  PageInv(c)'
  BY DEF PageInv, Aside

\* A page that is not connected has nothing to reach it.
LEMMA PageOffline ==
  ASSUME NEW c \in Pages, PageInv(c), conn'[c] = "closed", down'[c] = <<>>,
         Own(c)' = Own(c), doc' = doc, page'[c] = page[c]
  PROVE  PageInv(c)'
  BY DEF PageInv

\* Connect, BacklogSent, Render, CommitFails of a page itself.
LEMMA PageQuiet ==
  ASSUME TypeOK, NEW c \in Pages, PageInv(c),
         Connect(c) \/ BacklogSent(c) \/ Render(c) \/ CommitFails(c)
  PROVE  PageInv(c)'
  <1>1. c \in Clients
    BY PagesAreClients
  <1>2. /\ UNCHANGED <<made, store, queue, down, reading, doc, skipped>>
        /\ Own(c)' = Own(c) /\ UnderWay(c)' = UnderWay(c)
    BY MadeUnchanged, UnderWaySplit, <1>1 DEF Connect, BacklogSent, Render, CommitFails
  <1>3. \/ conn'[c] = conn[c]
        \/ conn[c] = "closed" /\ conn'[c] = "accepted"
        \/ conn[c] = "sending" /\ conn'[c] = "live"
    BY <1>1 DEF Connect, BacklogSent, Render, CommitFails, TypeOK
  <1>4. page'[c] = page[c] \/ page[c] = "rendering"
    BY <1>1 DEF Connect, BacklogSent, Render, CommitFails, TypeOK
  <1>6. Own(c)' \subseteq IF page'[c] = "ready" THEN doc'[c] ELSE {}
    BY <1>2, <1>4 DEF PageInv
  <1> QED BY <1>2, <1>3, <1>6 DEF PageInv

LEMMA PageReadsBacklog ==
  ASSUME TypeOK, NEW c \in Pages, PageInv(c), ReadBacklog(c)
  PROVE  PageInv(c)'
  <1>1. c \in Clients
    BY PagesAreClients
  <1>2. /\ UNCHANGED <<made, store, doc, skipped, page>>
        /\ Own(c)' = Own(c) /\ UnderWay(c)' = UnderWay(c) \cup store
        /\ conn'[c] = "sending"
    BY <1>1, MadeUnchanged, BacklogUnderWay DEF ReadBacklog, TypeOK
  <1> QED BY <1>2 DEF PageInv

LEMMA PageForwarded ==
  ASSUME TypeOK, NEW c \in Pages, PageInv(c), Forward(c)
  PROVE  PageInv(c)'
  <1>1. c \in Clients
    BY PagesAreClients
  <1>2. /\ UNCHANGED <<made, store, conn, doc, skipped, page>>
        /\ Own(c)' = Own(c) /\ UnderWay(c)' = UnderWay(c)
        /\ conn[c] = "live"
    BY <1>1, MadeUnchanged, ForwardUnderWay DEF Forward
  <1> QED BY <1>2 DEF PageInv

LEMMA PageBroadcast ==
  ASSUME TypeOK, NEW c \in Pages, PageInv(c), NEW ch \in Change, StoreAndBroadcast(ch),
         UNCHANGED <<made, conn, down, reading, page, doc, skipped>>
  PROVE  PageInv(c)'
  <1>1. c \in Clients
    BY PagesAreClients
  <1>2. /\ UnderWay(c)' = UnderWay(c) \cup (IF Subscribed(c) THEN {ch} ELSE {})
        /\ store' = store \cup {ch} /\ Own(c)' = Own(c)
    BY <1>1, BroadcastUnderWay, MadeUnchanged DEF StoreAndBroadcast
  <1>3. Own(c)' \subseteq IF page'[c] = "ready" THEN doc'[c] ELSE {}
    BY <1>2 DEF PageInv
  <1> QED BY <1>2, <1>3 DEF PageInv, Subscribed

LEMMA PageEdits ==
  ASSUME TypeOK, NEW c \in Pages, PageInv(c), Edit(c)
  PROVE  PageInv(c)'
  <1> DEFINE new == NextChange(c)
  <1>1. c \in Clients
    BY PagesAreClients
  <1>2. Own(c)' = Own(c) \cup {new}
    BY <1>1, EditMakes
  <1>3. /\ UNCHANGED <<store, conn, queue, down, reading, page, skipped>> /\ page[c] = "ready"
        /\ doc'[c] = doc[c] \cup {new}
    BY <1>1 DEF Edit, TypeOK
  <1> HIDE DEF new
  <1>4. UnderWay(c)' = UnderWay(c)
    BY <1>3, UnderWaySplit
  <1>5. Own(c)' \subseteq IF page'[c] = "ready" THEN doc'[c] ELSE {}
    BY <1>2, <1>3 DEF PageInv
  <1> QED BY <1>3, <1>4, <1>5 DEF PageInv

LEMMA PageArrival ==
  ASSUME TypeOK, NEW c \in Pages, PageInv(c), Arrive(c)
  PROVE  PageInv(c)'
  <1>1. c \in Clients
    BY PagesAreClients
  <1>2. /\ UNCHANGED <<made, store, conn, doc, skipped, page>>
        /\ Own(c)' = Own(c) /\ UnderWay(c)' = UnderWay(c)
        /\ down[c] # <<>>
    BY <1>1, MadeUnchanged, ArriveUnderWay DEF Arrive
  <1> QED BY <1>2 DEF PageInv

\* What a page has, threw away or still has to read does not change by reading.
LEMMA PageReads ==
  ASSUME StoreInv, NEW c \in Pages, PageInv(c), Read(c) \/ WorkerReads(c)
  PROVE  /\ PageInv(c)'
         /\ \E m \in reading[c] : /\ reading'[c] = reading[c] \ {m}
                                  /\ Carried(m) \subseteq doc'[c] \cup skipped'[c]
                                  /\ skipped'[c] \subseteq skipped[c] \cup doc[c] \cup Carried(m)
                                  /\ doc'[c] \subseteq doc[c] \cup Carried(m)
         /\ doc[c] \cup skipped[c] \subseteq doc'[c] \cup skipped'[c]
         /\ UNCHANGED <<made, store, conn, queue, down>>
  <1>1. c \in Clients /\ c \notin Writers /\ TypeOK
    BY PagesAreClients, ClientsAssumption DEF StoreInv
  <1>2. PICK m \in reading[c] : Handle(c, m) /\ reading' = [reading EXCEPT ![c] = @ \ {m}]
                               /\ UNCHANGED down
    BY <1>1 DEF Read, WorkerReads
  <1>3. m \in Message /\ reading'[c] = reading[c] \ {m} /\ reading[c] = reading'[c] \cup {m}
    BY <1>1, <1>2 DEF TypeOK
  <1>4. /\ UNCHANGED <<made, store, conn, queue, down>> /\ Own(c)' = Own(c)
    BY <1>2, MadeUnchanged, <1>1 DEF Handle
  <1>5. InSet(reading[c]) = Carried(m) \cup InSet(reading'[c])
    BY <1>3 DEF InSet
  <1>6. UnderWay(c) = Carried(m) \cup UnderWay(c)'
    BY <1>4, <1>5, UnderWaySplit
  <1>7. /\ doc'[c] \subseteq doc[c] \cup Carried(m)
        /\ skipped'[c] \subseteq skipped[c] \cup doc[c] \cup Carried(m)
        /\ doc[c] \cup skipped[c] \subseteq doc'[c] \cup skipped'[c]
        /\ page[c] = "ready" => doc[c] \subseteq doc'[c]
        /\ page'[c] = "ready" <=> page[c] = "ready"
        /\ \A ch \in Carried(m) :
             ch \in doc'[c] \cup skipped'[c] \/ (page[c] = "ready" /\ ch.actor = c)
    BY <1>1, <1>2, <1>3, HandleDoc
  <1>8. Carried(m) \subseteq doc'[c] \cup skipped'[c]
    <2> SUFFICES ASSUME NEW ch \in Carried(m), page[c] = "ready", ch.actor = c
                 PROVE  ch \in doc'[c]
      BY <1>7
    <2>1. ch \in AllMade
      BY <1>1, <1>6 DEF StoreInv, KnownIsStored, MadeFirst
    <2> QED BY <1>7, <2>1 DEF PageInv, Own
  <1>9. Own(c)' \subseteq IF page'[c] = "ready" THEN doc'[c] ELSE {}
    BY <1>4, <1>7 DEF PageInv
  <1>10. PageInv(c)'
    BY <1>4, <1>6, <1>7, <1>8, <1>9 DEF PageInv
  <1> QED BY <1>3, <1>4, <1>7, <1>8, <1>10

LEMMA InitPagesInv == Init => PagesInv
  <1> SUFFICES ASSUME Init, NEW c \in Pages PROVE PageInv(c)
    BY InitStoreInv DEF PagesInv
  <1>1. c \in Clients /\ StoreInv
    BY PagesAreClients, InitStoreInv
  <1>2. made[c] = <<>> /\ down[c] = <<>> /\ conn[c] = "closed" /\ Len(<<>>) = 0
    BY <1>1, EmptySeq DEF Init
  <1>3. Own(c) = {}
    <2> SUFFICES ASSUME NEW ch \in Change, ch.actor = c, ch.seq <= Len(made[c]) PROVE FALSE
      BY DEF Own, AllMade
    <2>1. ch.seq \in 1 .. MaxChanges
      BY DEF Change
    <2> QED BY <1>2, <2>1, BoundsAssumption
  <1> QED BY <1>2, <1>3 DEF PageInv

LEMMA NextPagesInv == PagesInv /\ [Next]_vars => PagesInv'
  <1> SUFFICES ASSUME StoreInv, [Next]_vars, NEW p \in Pages, PageInv(p)
               PROVE  PageInv(p)'
    BY NextStoreInv DEF PagesInv
  <1>1. TypeOK /\ p \in Clients
    BY PagesAreClients DEF StoreInv
  <1>2. ASSUME NEW c \in Clients,
               \/ Connect(c) \/ ReadBacklog(c) \/ BacklogSent(c) \/ Forward(c)
               \/ CommitFails(c) \/ Reject(c) \/ Break(c) \/ Finish(c)
               \/ Edit(c) \/ Arrive(c) \/ Read(c) \/ WorkerReads(c) \/ Render(c)
        PROVE  PageInv(p)'
    <2>1. CASE c # p
      BY <1>1, <1>2, <2>1, OthersAside, PageAside
    <2>2. ASSUME c = p, Reject(p) \/ Break(p) \/ Finish(p) PROVE PageInv(p)'
      BY <1>1, <2>2, DisconnectEmpties, PageOffline
    <2> QED BY <1>1, <1>2, <2>1, <2>2, PageQuiet, PageReadsBacklog, PageForwarded, PageEdits,
               PageArrival, PageReads
  <1>3. ASSUME NEW c \in Clients, Receive(c) \/ ReceiveLate(c) PROVE PageInv(p)'
    BY <1>1, <1>3, ReceiveBroadcasts, PageBroadcast
  <1>4. CASE Restart
    BY <1>1, <1>4, RestartEmpties, PageOffline
  <1>5. CASE UNCHANGED vars
    <2>1. Aside(p) /\ store' = store
      BY <1>5, MadeUnchanged, UnderWaySplit, <1>1 DEF Aside, vars
    <2> QED BY <2>1, PageAside
  <1> QED BY <1>2, <1>3, <1>4, <1>5 DEF Next

LEMMA PagesInvariance == Spec => []PagesInv
  BY InitPagesInv, NextPagesInv, PTL DEF Spec

\* Between the stored document and the broadcasts no change is missed: once a
\* page was sent the document it has, is being sent or threw away itself all
\* that is stored.
THEOREM NothingMissedCorrect == Spec => []NothingMissed
  <1>1. PagesInv => NothingMissed
    BY DEF PagesInv, PageInv, NothingMissed
  <1> QED BY <1>1, PagesInvariance, PTL

-----------------------------------------------------------------------------
(* Dependencies; m is what was made                                        *)

DepsOf(m, ch) == m[ch.actor][ch.seq]

Closed(m, S) == \A ch \in S : DepsOf(m, ch) \subseteq S

\* What each change of s depends on is in B or before it in s.
ChangesFollow(m, B, s) ==
  \A i \in DOMAIN s : \A d \in DepsOf(m, s[i]) :
    d \in B \/ \E j \in DOMAIN s : j < i /\ d = s[j]

\* The same of messages; the full document needs nothing.
MessagesFollow(m, B, s) ==
  \A i \in DOMAIN s : s[i].type = "change" =>
    \A d \in DepsOf(m, s[i].change) :
      d \in B \/ \E j \in DOMAIN s : j < i /\ d \in Carried(s[j])

LEMMA ChangesFollowTail ==
  ASSUME NEW m, NEW B, NEW C, NEW s \in Seq(Change), s # <<>>,
         ChangesFollow(m, B, s), B \cup {Head(s)} \subseteq C
  PROVE  DepsOf(m, Head(s)) \subseteq B /\ ChangesFollow(m, C, Tail(s))
  <1>1. /\ Len(s) \in Nat \ {0} /\ DOMAIN s = 1 .. Len(s) /\ Head(s) = s[1]
        /\ Tail(s) \in Seq(Change) /\ DOMAIN Tail(s) = 1 .. Len(s) - 1
        /\ \A i \in 1 .. Len(s) - 1 : Tail(s)[i] = s[i + 1]
    BY LenProperties, EmptySeq, HeadTailProperties
  <1>2. DepsOf(m, Head(s)) \subseteq B
    <2>1. 1 \in DOMAIN s /\ ~\E j \in DOMAIN s : j < 1
      BY <1>1
    <2> QED BY <1>1, <2>1 DEF ChangesFollow
  <1>3. ASSUME NEW i \in 1 .. Len(s) - 1, NEW d \in DepsOf(m, Tail(s)[i]), d \notin C
        PROVE  \E j \in DOMAIN Tail(s) : j < i /\ d = Tail(s)[j]
    <2>1. i + 1 \in DOMAIN s /\ d \in DepsOf(m, s[i + 1]) /\ d \notin B
      BY <1>1, <1>3
    <2>2. PICK j \in 1 .. Len(s) : j < i + 1 /\ d = s[j]
      BY <1>1, <2>1 DEF ChangesFollow
    <2>3. j # 1
      BY <1>1, <1>3, <2>2
    <2>4. j - 1 \in 1 .. Len(s) - 1 /\ j - 1 < i
      BY <1>1, <2>2, <2>3
    <2>5. Tail(s)[j - 1] = d
      BY <1>1, <2>2, <2>4
    <2> QED BY <1>1, <2>4, <2>5
  <1> QED BY <1>1, <1>2, <1>3 DEF ChangesFollow

LEMMA ChangesFollowAppend ==
  ASSUME NEW m, NEW B, NEW s \in Seq(Change), NEW e \in Change,
         ChangesFollow(m, B, s), DepsOf(m, e) \subseteq B \cup Range(s)
  PROVE  ChangesFollow(m, B, Append(s, e))
  <1> DEFINE t == Append(s, e)
  <1>1. /\ Len(s) \in Nat /\ DOMAIN s = 1 .. Len(s) /\ DOMAIN t = 1 .. Len(s) + 1
        /\ \A i \in 1 .. Len(s) : t[i] = s[i]
        /\ t[Len(s) + 1] = e
    BY LenProperties, AppendProperties
  <1> HIDE DEF t
  <1> SUFFICES ASSUME NEW i \in 1 .. Len(s) + 1, NEW d \in DepsOf(m, t[i]), d \notin B
               PROVE  \E j \in DOMAIN t : j < i /\ d = t[j]
    BY <1>1 DEF ChangesFollow, t
  <1>2. CASE i = Len(s) + 1
    <2>1. PICK j \in 1 .. Len(s) : d = s[j]
      BY <1>1, <1>2 DEF Range
    <2>2. j \in DOMAIN t /\ j < i /\ d = t[j]
      BY <1>1, <1>2, <2>1
    <2> QED BY <2>2
  <1>3. CASE i # Len(s) + 1
    <2>1. i \in DOMAIN s /\ d \in DepsOf(m, s[i])
      BY <1>1, <1>3
    <2>2. PICK j \in DOMAIN s : j < i /\ d = s[j]
      BY <2>1 DEF ChangesFollow
    <2>3. j \in DOMAIN t /\ d = t[j]
      BY <1>1, <2>2
    <2> QED BY <2>2, <2>3
  <1> QED BY <1>2, <1>3

LEMMA MessagesFollowTail ==
  ASSUME NEW m, NEW B, NEW C, NEW s \in Seq(Message), s # <<>>,
         MessagesFollow(m, B, s), B \cup Carried(Head(s)) \subseteq C
  PROVE  /\ Head(s).type = "change" => DepsOf(m, Head(s).change) \subseteq B
         /\ MessagesFollow(m, C, Tail(s))
  <1>1. /\ Len(s) \in Nat \ {0} /\ DOMAIN s = 1 .. Len(s) /\ Head(s) = s[1]
        /\ Tail(s) \in Seq(Message) /\ DOMAIN Tail(s) = 1 .. Len(s) - 1
        /\ \A i \in 1 .. Len(s) - 1 : Tail(s)[i] = s[i + 1]
    BY LenProperties, EmptySeq, HeadTailProperties
  <1>2. ASSUME Head(s).type = "change" PROVE DepsOf(m, Head(s).change) \subseteq B
    <2>1. 1 \in DOMAIN s /\ ~\E j \in DOMAIN s : j < 1
      BY <1>1
    <2> QED BY <1>1, <1>2, <2>1 DEF MessagesFollow
  <1>3. ASSUME NEW i \in 1 .. Len(s) - 1, Tail(s)[i].type = "change",
               NEW d \in DepsOf(m, Tail(s)[i].change), d \notin C
        PROVE  \E j \in DOMAIN Tail(s) : j < i /\ d \in Carried(Tail(s)[j])
    <2>1. /\ i + 1 \in DOMAIN s /\ s[i + 1].type = "change"
          /\ d \in DepsOf(m, s[i + 1].change) /\ d \notin B
      BY <1>1, <1>3
    <2>2. PICK j \in 1 .. Len(s) : j < i + 1 /\ d \in Carried(s[j])
      BY <1>1, <2>1 DEF MessagesFollow
    <2>3. j # 1
      BY <1>1, <1>3, <2>2
    <2>4. j - 1 \in 1 .. Len(s) - 1 /\ j - 1 < i
      BY <1>1, <2>2, <2>3
    <2>5. Tail(s)[j - 1] = s[j]
      BY <1>1, <2>4
    <2> QED BY <1>1, <2>2, <2>4, <2>5
  <1> QED BY <1>1, <1>2, <1>3 DEF MessagesFollow

LEMMA MessagesFollowAppend ==
  ASSUME NEW m, NEW B, NEW s \in Seq(Message), NEW e \in Message,
         MessagesFollow(m, B, s), e.type = "change",
         DepsOf(m, e.change) \subseteq B \cup InMessages(s)
  PROVE  MessagesFollow(m, B, Append(s, e))
  <1> DEFINE t == Append(s, e)
  <1>1. /\ Len(s) \in Nat /\ DOMAIN s = 1 .. Len(s) /\ DOMAIN t = 1 .. Len(s) + 1
        /\ \A i \in 1 .. Len(s) : t[i] = s[i]
        /\ t[Len(s) + 1] = e
    BY LenProperties, AppendProperties
  <1> HIDE DEF t
  <1> SUFFICES ASSUME NEW i \in 1 .. Len(s) + 1, t[i].type = "change",
                      NEW d \in DepsOf(m, t[i].change), d \notin B
               PROVE  \E j \in DOMAIN t : j < i /\ d \in Carried(t[j])
    BY <1>1 DEF MessagesFollow, t
  <1>2. CASE i = Len(s) + 1
    <2>1. PICK j \in 1 .. Len(s) : d \in Carried(s[j])
      BY <1>1, <1>2 DEF Range, InMessages
    <2>2. j \in DOMAIN t /\ j < i /\ t[j] = s[j]
      BY <1>1, <1>2, <2>1
    <2> QED BY <2>1, <2>2
  <1>3. CASE i # Len(s) + 1
    <2>1. i \in DOMAIN s /\ s[i].type = "change" /\ d \in DepsOf(m, s[i].change)
      BY <1>1, <1>3
    <2>2. PICK j \in DOMAIN s : j < i /\ d \in Carried(s[j])
      BY <2>1 DEF MessagesFollow
    <2>3. j \in DOMAIN t /\ t[j] = s[j]
      BY <1>1, <2>2
    <2> QED BY <2>2, <2>3
  <1> QED BY <1>2, <1>3

\* More may be known, and changes that were made keep what they depend on.
LEMMA FollowMonotone ==
  ASSUME NEW m, NEW n, NEW B, NEW C, B \subseteq C
  PROVE  /\ \A s : /\ ChangesFollow(m, B, s)
                   /\ \A i \in DOMAIN s : DepsOf(n, s[i]) = DepsOf(m, s[i])
                   => ChangesFollow(n, C, s)
         /\ \A s : /\ MessagesFollow(m, B, s)
                   /\ \A i \in DOMAIN s : s[i].type = "change" =>
                        DepsOf(n, s[i].change) = DepsOf(m, s[i].change)
                   => MessagesFollow(n, C, s)
  <1>1. ASSUME NEW s, ChangesFollow(m, B, s),
               \A i \in DOMAIN s : DepsOf(n, s[i]) = DepsOf(m, s[i])
        PROVE  ChangesFollow(n, C, s)
    BY <1>1 DEF ChangesFollow
  <1>2. ASSUME NEW s, MessagesFollow(m, B, s),
               \A i \in DOMAIN s : s[i].type = "change" =>
                 DepsOf(n, s[i].change) = DepsOf(m, s[i].change)
        PROVE  MessagesFollow(n, C, s)
    BY <1>2 DEF MessagesFollow
  <1> QED BY <1>1, <1>2

-----------------------------------------------------------------------------
(* Without faults nothing is overtaken                                     *)

\* A client that was cut off, with something of it still to be read, is a worker
\* that is done: nothing it could send will overtake that.
LateIsOver(c) ==
  late[c] = <<>> \/ (c \in CanWrite /\ conn[c] = "closed" /\ page[c] = "over")

\* What is stored of a client is older than what is still to be received from it.
Settled(c) ==
  \A a \in store \cap Own(c), b \in Range(late[c]) \cup Range(up[c]) : a.seq < b.seq

FaultlessInv ==
  /\ deaf = {}
  /\ \A ch \in lost : ch.actor \notin CanWrite
  /\ \A ch \in store : ch.actor \in CanWrite
  /\ \A c \in Clients :
       /\ conn[c] = "closed" => down[c] = <<>>
       /\ LateIsOver(c)
       /\ Settled(c)

\* So the database has no gaps at all.
LEMMA StoreIsClosed == StoreInv /\ FaultlessInv => Closed(made, store)
  <1> SUFFICES ASSUME StoreInv, FaultlessInv,
                      NEW ch \in store,
                      NEW d \in DepsOf(made, ch), d \notin store
               PROVE  FALSE
    BY DEF Closed
  <1>1. ch \in AllMade /\ ch.actor \in Clients /\ ch \in Own(ch.actor)
    BY DEF StoreInv, MadeFirst, Own, AllMade, Change
  <1>2. d \in Own(ch.actor) /\ d.seq < ch.seq
    BY <1>1 DEF DepsOf, StoreInv, DependsOnStored
  <1>3. d \notin lost
    BY <1>2 DEF FaultlessInv, Own
  <1>4. d \in Range(late[ch.actor]) \cup Range(up[ch.actor])
    BY <1>1, <1>2, <1>3 DEF StoreInv, NoneForgotten
  <1>5. ch.seq < d.seq
    BY <1>1, <1>4 DEF FaultlessInv, Settled
  <1>6. ch.seq \in Nat /\ d.seq \in Nat
    BY <1>1, <1>2, BoundsAssumption DEF Own, AllMade, Change
  <1> QED BY <1>2, <1>5, <1>6

\* Steps that leave a client's connection, and what is stored and still to be
\* received of it, as they are.
LEMMA FaultlessAside ==
  ASSUME FaultlessInv, NEW d \in Clients, store' = store, Aside(d),
         up'[d] = up[d], late'[d] = late[d]
  PROVE  /\ conn'[d] = "closed" => down'[d] = <<>>
         /\ LateIsOver(d)' /\ Settled(d)'
  BY DEF FaultlessInv, Aside, LateIsOver, Settled

LEMMA FaultlessQuiet ==
  ASSUME StoreInv, FaultlessInv, NEW c \in Clients,
         \/ Connect(c) \/ ReadBacklog(c) \/ BacklogSent(c) \/ Forward(c)
         \/ Arrive(c) \/ Read(c) \/ WorkerReads(c) \/ Render(c)
  PROVE  FaultlessInv'
  <1>1. UNCHANGED <<made, store, deaf, lost, up, late>> /\ TypeOK
    BY DEF Connect, ReadBacklog, BacklogSent, Forward, Arrive, Read,
                WorkerReads, Handle, Render, StoreInv
  <1>2. \A d \in Clients \ {c} : Aside(d)
    BY <1>1, OthersAside
  <1>3. conn'[c] = "closed" => down'[c] = <<>>
    BY <1>1 DEF Connect, ReadBacklog, BacklogSent, Forward, Arrive, Read,
                WorkerReads, Handle, Render, FaultlessInv, TypeOK
  <1>4. conn[c] # "closed" \/ page[c] # "over"
    <2>1. CASE Read(c)
      BY <1>1, <2>1 DEF Read, TypeOK, Clients
    <2>2. CASE ~Read(c)
      BY <1>1, <2>2 DEF Connect, ReadBacklog, BacklogSent, Forward, Arrive, WorkerReads, Render,
                        FaultlessInv
    <2> QED BY <2>1, <2>2
  <1>5. late[c] = <<>>
    BY <1>4 DEF FaultlessInv, LateIsOver
  <1>6. LateIsOver(c)' /\ Settled(c)'
    BY <1>1, <1>5, MadeUnchanged DEF FaultlessInv, LateIsOver, Settled
  <1> QED BY <1>1, <1>2, <1>3, <1>6, FaultlessAside DEF FaultlessInv

LEMMA FaultlessReceive ==
  ASSUME StoreInv, FaultlessInv, NEW c \in Clients, Receive(c) \/ ReceiveLate(c)
  PROVE  FaultlessInv'
  <1>1. /\ TypeOK /\ UNCHANGED <<made, conn, deaf, down, page, lost>>
        /\ up[c] \in Seq(Change) /\ late[c] \in Seq(Change)
        /\ Ascending(up[c]) /\ Ascending(late[c]) /\ Before(late[c], up[c])
        /\ Range(up[c]) \cup Range(late[c]) \subseteq Own(c)
    BY ClientSequences DEF Receive, ReceiveLate, StoreInv, SentInOrder, MadeFirst
  <1>2. \A d \in Clients : Own(d)' = Own(d)
    BY <1>1, MadeUnchanged
  <1>3. ASSUME NEW ch \in Own(c), c \in CanWrite, store' = store \cup {ch},
               \A d \in Clients \ {c} : up'[d] = up[d] /\ late'[d] = late[d],
               LateIsOver(c)',
               \A b \in Range(late'[c]) \cup Range(up'[c]) :
                 ch.seq < b.seq /\ b \in Range(late[c]) \cup Range(up[c])
        PROVE  FaultlessInv'
    <2>1. \A x \in store' : x.actor \in CanWrite
      BY <1>3 DEF FaultlessInv, Own
    <2>2. Settled(c)'
      BY <1>2, <1>3 DEF FaultlessInv, Settled
    <2>3. ASSUME NEW d \in Clients \ {c} PROVE LateIsOver(d)' /\ Settled(d)'
      <3>1. ch \notin Own(d)
        BY DEF Own
      <3> QED BY <1>1, <1>2, <1>3, <3>1 DEF FaultlessInv, LateIsOver, Settled
    <2> QED BY <1>1, <1>3, <2>1, <2>2, <2>3 DEF FaultlessInv
  <1>4. CASE Receive(c)
    <2>1. /\ c \in CanWrite /\ conn[c] # "closed" /\ up[c] # <<>>
          /\ store' = store \cup {Head(up[c])}
          /\ up' = [up EXCEPT ![c] = Tail(@)] /\ late' = late
      BY <1>4 DEF Receive, StoreAndBroadcast
    <2>2. late[c] = <<>>
      BY <2>1 DEF FaultlessInv, LateIsOver
    <2>3. up'[c] = Tail(up[c]) /\ \A d \in Clients \ {c} : up'[d] = up[d]
      BY <1>1, <2>1 DEF TypeOK
    <2>4. Range(up[c]) = {Head(up[c])} \cup Range(Tail(up[c]))
      BY <1>1, <2>1, RangeOfTail
    <2>5. \A b \in Range(Tail(up[c])) : Head(up[c]).seq < b.seq
      BY <1>1, <2>1, OrderOfTail
    <2>6. LateIsOver(c)'
      BY <2>1, <2>2 DEF LateIsOver
    <2>7. Range(late'[c]) = {}
      BY <2>1, <2>2, NothingInEmpty
    <2> QED BY <1>1, <1>3, <2>1, <2>3, <2>4, <2>5, <2>6, <2>7
  <1>5. CASE ReceiveLate(c)
    <2>1. /\ late[c] # <<>> /\ store' = store \cup {Head(late[c])}
          /\ late' = [late EXCEPT ![c] = Tail(@)] /\ up' = up
      BY <1>5 DEF ReceiveLate, StoreAndBroadcast
    <2>2. c \in CanWrite /\ conn[c] = "closed" /\ page[c] = "over"
      BY <2>1 DEF FaultlessInv, LateIsOver
    <2>3. late'[c] = Tail(late[c]) /\ \A d \in Clients \ {c} : late'[d] = late[d]
      BY <1>1, <2>1 DEF TypeOK
    <2>4. Range(late[c]) = {Head(late[c])} \cup Range(Tail(late[c]))
      BY <1>1, <2>1, RangeOfTail
    <2>5. \A b \in Range(Tail(late[c])) : Head(late[c]).seq < b.seq
      BY <1>1, <2>1, OrderOfTail
    <2>6. LateIsOver(c)'
      BY <1>1, <2>2 DEF LateIsOver
    <2>7. \A b \in Range(up[c]) : Head(late[c]).seq < b.seq
      BY <1>1, <2>4 DEF Before
    <2> QED BY <1>1, <1>3, <2>1, <2>2, <2>3, <2>4, <2>5, <2>6, <2>7
  <1> QED BY <1>4, <1>5

LEMMA FaultlessEnd ==
  ASSUME StoreInv, FaultlessInv, NEW c \in Clients, Reject(c) \/ Finish(c)
  PROVE  FaultlessInv'
  <1>1. /\ TypeOK /\ up[c] \in Seq(Change) /\ late[c] \in Seq(Change)
        /\ Range(up[c]) \subseteq Own(c)
    BY ClientSequences DEF StoreInv, MadeFirst
  <1>2. /\ conn'[c] = "closed" /\ down'[c] = <<>> /\ store' = store
        /\ \A d \in Clients : Own(d)' = Own(d)
        /\ \A d \in Clients \ {c} : Aside(d)
    <2>1. \A d \in Clients \ {c} : Aside(d)
      BY <1>1, OthersAside
    <2> QED BY <1>1, <2>1, DisconnectEmpties DEF Aside
  <1>3. /\ deaf' = {} /\ conn[c] # "closed"
        /\ up'[c] = <<>> /\ \A d \in Clients \ {c} : up'[d] = up[d]
    BY <1>1 DEF Reject, Finish, Close, FaultlessInv
  <1>4. late[c] = <<>>
    BY <1>3 DEF FaultlessInv, LateIsOver
  <1>5. Range(<<>>) = {}
    BY NothingInEmpty
  <1>6. CASE Reject(c)
    <2>1. c \notin CanWrite /\ late' = late /\ Close({c}, [x \in {c} |-> 0])
      BY <1>6 DEF Reject
    <2>2. \A d \in {c} : Range(SubSeq(up[d], [x \in {c} |-> 0][d] + 1, Len(up[d])))
                            \subseteq Range(up[c])
      <3>1. 0 \in 0 .. Len(up[c])
        BY <1>1, LenProperties
      <3> QED BY <1>1, <3>1, RangeOfParts
    <2>3. lost' \subseteq lost \cup Range(up[c])
      BY <2>1, <2>2 DEF Close
    <2>4. \A ch \in lost' : ch.actor \notin CanWrite
      BY <1>1, <2>1, <2>3 DEF FaultlessInv, Own
    <2>5. LateIsOver(c)' /\ Settled(c)'
      BY <1>2, <1>3, <1>4, <1>5, <2>1 DEF LateIsOver, Settled
    <2>6. \A d \in Clients \ {c} : late'[d] = late[d]
      BY <2>1
    <2> QED BY <1>2, <1>3, <2>4, <2>5, <2>6, FaultlessAside DEF FaultlessInv
  <1>7. CASE Finish(c)
    <2>1. /\ c \in Writers /\ c \in CanWrite
          /\ Close({c}, [x \in {c} |-> Len(up[c])])
          /\ late' = [late EXCEPT ![c] = @ \o up[c]]
      BY <1>7, ClientsAssumption DEF Finish, FaultlessInv
    <2>2. \A d \in {c} : Range(SubSeq(up[d], [x \in {c} |-> Len(up[c])][d] + 1, Len(up[d]))) = {}
      <3>1. Len(up[c]) \in Nat
        BY <1>1, LenProperties
      <3>2. /\ Len(up[c]) + 1 \in Int /\ Len(up[c]) \in Int /\ Len(up[c]) < Len(up[c]) + 1
        BY <3>1
      <3>3. SubSeq(up[c], Len(up[c]) + 1, Len(up[c])) = <<>>
        BY <3>2, SubSeqEmpty
      <3> QED BY <1>5, <3>3
    <2>3. lost' = lost
      BY <2>1, <2>2 DEF Close
    <2>4. late'[c] = up[c] /\ \A d \in Clients \ {c} : late'[d] = late[d]
      BY <1>1, <1>4, <2>1, ConcatEmptySeq DEF TypeOK
    <2>5. page'[c] = "over"
      BY <2>1 DEF Close, Clients
    <2>6. LateIsOver(c)'
      BY <1>2, <2>1, <2>5 DEF LateIsOver
    <2>7. Settled(c)'
      BY <1>2, <1>3, <1>5, <2>4 DEF FaultlessInv, Settled
    <2>8. \A ch \in lost' : ch.actor \notin CanWrite
      BY <2>3 DEF FaultlessInv
    <2> QED BY <1>2, <1>3, <2>4, <2>6, <2>7, <2>8, FaultlessAside DEF FaultlessInv
  <1> QED BY <1>6, <1>7

LEMMA FaultlessEdit ==
  ASSUME StoreInv, FaultlessInv, NEW c \in Clients, Edit(c)
  PROVE  FaultlessInv'
  <1> DEFINE new == NextChange(c)
  <1>1. /\ TypeOK /\ new \in Change /\ new.actor = c
        /\ Own(c)' = Own(c) \cup {new}
        /\ \A ch \in Own(c) : ch.seq < new.seq
    BY EditMakes DEF StoreInv
  <1>2. /\ UNCHANGED <<store, conn, deaf, down, late, page, lost>>
        /\ up' = [up EXCEPT ![c] = Append(@, new)]
    BY DEF Edit
  <1> HIDE DEF new
  <1>3. /\ up'[c] = Append(up[c], new) /\ up[c] \in Seq(Change)
        /\ \A d \in Clients \ {c} : up'[d] = up[d] /\ Aside(d)
    BY <1>1, <1>2, ClientSequences, OthersAside DEF TypeOK
  <1>4. Range(up'[c]) = Range(up[c]) \cup {new}
    BY <1>1, <1>3, RangeOfAppend
  <1>5. Settled(c)'
    <2> SUFFICES ASSUME NEW a \in store, a \in Own(c)',
                        NEW b \in Range(late[c]) \cup Range(up[c]) \cup {new}
                 PROVE  a.seq < b.seq
      BY <1>2, <1>4 DEF Settled
    <2>1. a \in Own(c)
      <3>1. a \in AllMade
        BY DEF StoreInv, MadeFirst
      <3>2. a.actor = c
        BY DEF Own
      <3> QED BY <3>1, <3>2 DEF Own
    <2> QED BY <1>1, <2>1 DEF FaultlessInv, Settled
  <1>6. LateIsOver(c)' /\ (conn'[c] = "closed" => down'[c] = <<>>)
    BY <1>2 DEF FaultlessInv, LateIsOver
  <1> QED BY <1>2, <1>3, <1>5, <1>6, FaultlessAside DEF FaultlessInv

\* The steps that are no fault.
LEMMA FaultlessCases ==
  ASSUME TypeOK, [Next]_vars, faults' = 0
  PROVE  /\ faults = 0
         /\ ~Restart /\ \A c \in Clients : ~Break(c) /\ ~CommitFails(c)
  <1>1. faults \in Nat
    BY BoundsAssumption DEF TypeOK
  <1>2. ~Restart /\ \A c \in Clients : ~Break(c) /\ ~CommitFails(c)
    BY <1>1 DEF Restart, Break, CommitFails
  <1>3. faults' = faults
    BY <1>2 DEF Next, vars, Connect, ReadBacklog, BacklogSent, Forward, Receive, ReceiveLate,
                Reject, Finish, Edit, Arrive, Read, WorkerReads, Handle, Render
  <1> QED BY <1>2, <1>3

LEMMA FaultlessStep ==
  ASSUME StoreInv, FaultlessInv, [Next]_vars, faults' = 0
  PROVE  FaultlessInv'
  <1>1. ~Restart /\ \A c \in Clients : ~Break(c) /\ ~CommitFails(c)
    BY FaultlessCases DEF StoreInv
  <1>2. CASE UNCHANGED vars
    <2>1. \A c \in Clients : Own(c)' = Own(c)
      BY <1>2, MadeUnchanged DEF vars
    <2> QED BY <1>2, <2>1 DEF vars, FaultlessInv, LateIsOver, Settled
  <1> QED BY <1>1, <1>2, FaultlessQuiet, FaultlessReceive, FaultlessEnd, FaultlessEdit DEF Next

-----------------------------------------------------------------------------
(* What a page gets is in causal order                                     *)

\* CausalDelivery is not inductive: it needs the same of all that is on its way
\* to the page, in the order in which it will arrive, and that a stored document
\* on its way has no gaps.
CausalPage(c) ==
  /\ skipped[c] \subseteq AllMade
  /\ Closed(made, Received(c))
  /\ \A i \in DOMAIN down[c] :
       down[c][i].type = "full" => Closed(made, Carried(down[c][i]))
  /\ conn[c] \in {"sending", "live"} =>
       /\ MessagesFollow(made, Received(c), down[c])
       /\ ChangesFollow(made, Received(c) \cup InMessages(down[c]), queue[c])

CausalInv ==
  /\ PagesInv
  /\ faults = 0 => FaultlessInv /\ \A c \in Pages : CausalPage(c)

LEMMA ReceivedSplit ==
  /\ \A c : Received(c) = doc[c] \cup skipped[c] \cup InSet(reading[c])
  /\ \A c : Received(c)' = doc'[c] \cup skipped'[c] \cup InSet(reading'[c])
  BY DEF Received, InSet, Carried

\* Changes that were made keep what they depend on.
DepsKept == \A ch \in AllMade : DepsOf(made', ch) = DepsOf(made, ch)

\* Whatever a page has or is sent was made.
LEMMA PageHasMade ==
  ASSUME StoreInv, NEW c \in Pages
  PROVE  /\ doc[c] \subseteq AllMade /\ InSet(reading[c]) \subseteq store
         /\ \A i \in DOMAIN queue[c] : queue[c][i] \in store
         /\ \A i \in DOMAIN down[c] : Carried(down[c][i]) \subseteq store
         /\ store \subseteq AllMade
  <1>1. c \in Clients /\ store \subseteq AllMade
    BY PagesAreClients DEF StoreInv, MadeFirst
  <1>2. UnderWay(c) \subseteq store /\ doc[c] \subseteq store \cup Own(c) /\ Own(c) \subseteq AllMade
    BY <1>1 DEF StoreInv, KnownIsStored, Own
  <1>3. \A i \in DOMAIN queue[c] : queue[c][i] \in UnderWay(c)
    BY UnderWaySplit DEF Range
  <1>4. ASSUME NEW i \in DOMAIN down[c] PROVE Carried(down[c][i]) \subseteq UnderWay(c)
    <2>1. down[c][i] \in Range(down[c])
      BY DEF Range
    <2> QED BY <2>1, UnderWaySplit DEF InMessages
  <1> QED BY <1>1, <1>2, <1>3, <1>4, UnderWaySplit

\* Steps that change nothing for the page but, perhaps, the state of its
\* connection, what is stored and what its document has of its own.
LEMMA CausalKept ==
  ASSUME StoreInv, NEW c \in Pages, CausalPage(c), DepsKept, AllMade \subseteq AllMade',
         down'[c] = down[c], queue'[c] = queue[c], reading'[c] = reading[c],
         skipped'[c] = skipped[c], doc[c] \subseteq doc'[c],
         \A ch \in doc'[c] \ doc[c] : DepsOf(made', ch) \subseteq doc[c],
         conn'[c] \in {"sending", "live"} => conn[c] \in {"sending", "live"}
  PROVE  CausalPage(c)'
  <1>1. /\ doc[c] \subseteq AllMade /\ InSet(reading[c]) \subseteq AllMade
        /\ skipped[c] \subseteq AllMade
        /\ \A i \in DOMAIN queue[c] : queue[c][i] \in AllMade
        /\ \A i \in DOMAIN down[c] : Carried(down[c][i]) \subseteq AllMade
    BY PageHasMade DEF CausalPage
  <1>2. /\ Received(c)' = Received(c) \cup (doc'[c] \ doc[c]) /\ Received(c) \subseteq AllMade
        /\ doc[c] \subseteq Received(c)
        /\ InMessages(down'[c]) = InMessages(down[c])
    BY <1>1, ReceivedSplit
  <1>3. Closed(made', Received(c)')
    <2> SUFFICES ASSUME NEW ch \in Received(c)'
                 PROVE  DepsOf(made', ch) \subseteq Received(c)'
      BY DEF Closed
    <2>1. CASE ch \in Received(c)
      BY <1>2, <2>1 DEF CausalPage, Closed, DepsKept
    <2>2. CASE ch \in doc'[c] \ doc[c]
      BY <1>2, <2>2
    <2> QED BY <1>2, <2>1, <2>2
  <1>4. \A i \in DOMAIN down'[c] :
          down'[c][i].type = "full" => Closed(made', Carried(down'[c][i]))
    BY <1>1 DEF CausalPage, Closed, DepsKept
  <1>5. ASSUME conn'[c] \in {"sending", "live"}
        PROVE  /\ MessagesFollow(made', Received(c)', down'[c])
               /\ ChangesFollow(made', Received(c)' \cup InMessages(down'[c]), queue'[c])
    <2>1. \A i \in DOMAIN queue[c] : DepsOf(made', queue[c][i]) = DepsOf(made, queue[c][i])
      BY <1>1 DEF DepsKept
    <2>2. \A i \in DOMAIN down[c] : down[c][i].type = "change" =>
            DepsOf(made', down[c][i].change) = DepsOf(made, down[c][i].change)
      BY <1>1 DEF DepsKept, Carried
    <2>3. /\ MessagesFollow(made, Received(c), down[c])
          /\ ChangesFollow(made, Received(c) \cup InMessages(down[c]), queue[c])
      BY <1>5 DEF CausalPage
    <2>4. Received(c) \subseteq Received(c)'
      BY <1>2
    <2>5. MessagesFollow(made', Received(c)', down[c])
      BY <2>2, <2>3, <2>4, FollowMonotone
    <2>6. Received(c) \cup InMessages(down[c]) \subseteq Received(c)' \cup InMessages(down'[c])
      BY <1>2
    <2>7. ChangesFollow(made', Received(c)' \cup InMessages(down'[c]), queue[c])
      BY <2>1, <2>3, <2>6, FollowMonotone
    <2> QED BY <2>5, <2>7
  <1>6. skipped'[c] \subseteq AllMade'
    BY <1>1
  <1> QED BY <1>3, <1>4, <1>5, <1>6 DEF CausalPage

LEMMA SameDeps == UNCHANGED made => DepsKept /\ AllMade' = AllMade
  BY MadeUnchanged DEF DepsKept

LEMMA CausalOffline ==
  ASSUME TypeOK, NEW c \in Pages, CausalPage(c),
         UNCHANGED <<made, store, doc, skipped, reading>>,
         conn'[c] = "closed", down'[c] = <<>>
  PROVE  CausalPage(c)'
  <1>1. Received(c)' = Received(c) /\ AllMade' = AllMade
    BY ReceivedSplit, MadeUnchanged
  <1> QED BY <1>1 DEF CausalPage

LEMMA CausalBacklog ==
  ASSUME StoreInv, FaultlessInv, NEW c \in Pages, PageInv(c), CausalPage(c), ReadBacklog(c)
  PROVE  CausalPage(c)'
  <1> DEFINE m == [type |-> "full", changes |-> store]
  <1>1. c \in Clients /\ TypeOK /\ down[c] = <<>>
    BY PagesAreClients DEF StoreInv, ReadBacklog, PageInv
  <1>2. m \in Message /\ m.type = "full" /\ Carried(m) = store
    BY <1>1 DEF Message, TypeOK, Carried
  <1>3. /\ UNCHANGED <<made, store, queue, reading, doc, skipped>>
        /\ down'[c] = Append(<<>>, m)
    BY <1>1 DEF ReadBacklog, TypeOK
  <1> HIDE DEF m
  <1>4. DOMAIN down'[c] = 1 .. 1 /\ down'[c][1] = m
    BY <1>2, <1>3, EmptySeq, AppendProperties, LenProperties
  <1>5. Received(c)' = Received(c) /\ AllMade' = AllMade
    BY <1>3, ReceivedSplit, MadeUnchanged
  <1>6. Closed(made, store)
    BY StoreIsClosed
  <1>7. MessagesFollow(made', Received(c)', down'[c])
    BY <1>2, <1>4 DEF MessagesFollow
  <1>8. \A i \in DOMAIN queue[c] : DepsOf(made, queue[c][i]) \subseteq store
    BY <1>6, PageHasMade DEF Closed
  <1>9. InMessages(down'[c]) = store
    BY <1>2, <1>4 DEF InMessages, Range
  <1>10. ChangesFollow(made', Received(c)' \cup InMessages(down'[c]), queue'[c])
    BY <1>3, <1>8, <1>9 DEF ChangesFollow
  <1>11. \A i \in DOMAIN down'[c] : Closed(made', Carried(down'[c][i]))
    BY <1>2, <1>3, <1>4, <1>6
  <1> QED BY <1>3, <1>5, <1>7, <1>10, <1>11 DEF CausalPage

LEMMA CausalForward ==
  ASSUME StoreInv, NEW c \in Pages, CausalPage(c), Forward(c)
  PROVE  CausalPage(c)'
  <1> DEFINE ch == Head(queue[c])
             m == [type |-> "change", change |-> ch]
             B == Received(c)
  <1>1. /\ c \in Clients /\ TypeOK /\ queue[c] # <<>> /\ conn[c] = "live"
        /\ queue[c] \in Seq(Change) /\ down[c] \in Seq(Message)
    BY PagesAreClients, ClientSequences DEF StoreInv, Forward
  <1>2. m \in Message /\ m.type = "change" /\ m.change = ch /\ Carried(m) = {ch}
    BY <1>1, HeadTailProperties DEF Message, Carried
  <1>3. /\ UNCHANGED <<made, store, conn, reading, doc, skipped>>
        /\ down'[c] = Append(down[c], m) /\ queue'[c] = Tail(queue[c])
    BY <1>1 DEF Forward, TypeOK
  <1> HIDE DEF m, ch
  <1>4. /\ Len(down[c]) \in Nat /\ DOMAIN down[c] = 1 .. Len(down[c])
        /\ DOMAIN down'[c] = 1 .. Len(down[c]) + 1
        /\ \A i \in 1 .. Len(down[c]) : down'[c][i] = down[c][i]
        /\ down'[c][Len(down[c]) + 1] = m
    BY <1>1, <1>2, <1>3, LenProperties, AppendProperties
  <1>5. \A i \in DOMAIN down'[c] :
          down'[c][i].type = "full" => Closed(made', Carried(down'[c][i]))
    <2> SUFFICES ASSUME NEW i \in 1 .. Len(down[c]) + 1, down'[c][i].type = "full"
                 PROVE  Closed(made, Carried(down'[c][i]))
      BY <1>3, <1>4
    <2>1. i # Len(down[c]) + 1
      BY <1>2, <1>4
    <2>2. i \in DOMAIN down[c] /\ down'[c][i] = down[c][i]
      BY <1>4, <2>1
    <2> QED BY <2>2 DEF CausalPage
  <1>6. Received(c)' = B /\ AllMade' = AllMade
    BY <1>3, ReceivedSplit, MadeUnchanged
  <1> HIDE DEF B
  <1>7. InMessages(down'[c]) = InMessages(down[c]) \cup {ch}
    BY <1>1, <1>2, <1>3, InMessagesOfAppend
  <1>8. /\ MessagesFollow(made, B, down[c])
        /\ ChangesFollow(made, B \cup InMessages(down[c]), queue[c])
    BY <1>1 DEF CausalPage, B
  <1>9. B \cup InMessages(down[c]) \cup {Head(queue[c])} \subseteq B \cup InMessages(down'[c])
    BY <1>7 DEF ch
  <1>10. /\ DepsOf(made, ch) \subseteq B \cup InMessages(down[c])
         /\ ChangesFollow(made, B \cup InMessages(down'[c]), Tail(queue[c]))
    BY <1>1, <1>8, <1>9, ChangesFollowTail DEF ch
  <1>11. MessagesFollow(made, B, Append(down[c], m))
    BY <1>1, <1>2, <1>8, <1>10, MessagesFollowAppend
  <1> QED BY <1>3, <1>5, <1>6, <1>10, <1>11 DEF CausalPage, B

LEMMA CausalBroadcast ==
  ASSUME StoreInv, StoreInv', FaultlessInv', NEW c \in Pages, PageInv(c), CausalPage(c),
         NEW ch \in Change, StoreAndBroadcast(ch),
         UNCHANGED <<made, conn, down, reading, page, doc, skipped>>
  PROVE  CausalPage(c)'
  <1>1. /\ c \in Clients /\ TypeOK
        /\ queue[c] \in Seq(Change) /\ down[c] \in Seq(Message)
    BY PagesAreClients, ClientSequences DEF StoreInv
  <1>2. /\ store' = store \cup {ch}
        /\ queue'[c] = IF Subscribed(c) THEN Append(queue[c], ch) ELSE queue[c]
    BY <1>1 DEF StoreAndBroadcast
  <1>3. Closed(made, store)'
    BY StoreIsClosed, PTL
  <1>4. DepsOf(made, ch) \subseteq store
    <2> SUFFICES ASSUME NEW d \in DepsOf(made, ch), d \notin store PROVE FALSE
      OBVIOUS
    <2>1. d = ch
      BY <1>2, <1>3 DEF Closed
    <2>2. ch \in AllMade
      <3>1. ch \in AllMade'
        BY <1>2 DEF StoreInv, MadeFirst
      <3> QED BY <3>1, MadeUnchanged
    <2>3. d.seq < ch.seq
      BY <2>2 DEF DepsOf, StoreInv, DependsOnStored
    <2>4. ch.seq \in Nat
      BY BoundsAssumption DEF Change
    <2> QED BY <2>1, <2>3, <2>4
  <1>5. Received(c)' = Received(c) /\ AllMade' = AllMade
    BY ReceivedSplit, MadeUnchanged
  <1>6. ASSUME conn[c] \in {"sending", "live"}
        PROVE  ChangesFollow(made, Received(c) \cup InMessages(down[c]), queue'[c])
    <2>1. queue'[c] = Append(queue[c], ch)
      BY <1>2, <1>6 DEF Subscribed
    <2>2. store \subseteq Received(c) \cup InMessages(down[c]) \cup Range(queue[c])
      BY <1>6, UnderWaySplit, ReceivedSplit DEF PageInv
    <2>3. ChangesFollow(made, Received(c) \cup InMessages(down[c]), queue[c])
      BY <1>6 DEF CausalPage
    <2>4. DepsOf(made, ch) \subseteq Received(c) \cup InMessages(down[c]) \cup Range(queue[c])
      BY <1>4, <2>2
    <2> QED BY <1>1, <2>1, <2>3, <2>4, ChangesFollowAppend
  <1> QED BY <1>5, <1>6 DEF CausalPage

LEMMA CausalArrival ==
  ASSUME StoreInv, NEW c \in Pages, PageInv(c), CausalPage(c), Arrive(c)
  PROVE  CausalPage(c)'
  <1> DEFINE m == Head(down[c])
             B == Received(c)
             C == Received(c)'
  <1>1. /\ c \in Clients /\ TypeOK /\ down[c] \in Seq(Message) /\ down[c] # <<>>
    BY PagesAreClients, ClientSequences DEF StoreInv, Arrive
  <1>2. /\ UNCHANGED <<made, store, conn, queue, doc, skipped>> /\ down'[c] = Tail(down[c])
    BY <1>1 DEF Arrive, TypeOK
  <1>3. /\ InMessages(down[c]) = Carried(m) \cup InMessages(down'[c])
        /\ InSet(reading'[c]) = InSet(reading[c]) \cup Carried(m)
    BY <1>1, ArriveUnderWay
  <1>4. /\ Len(down[c]) \in Nat \ {0} /\ DOMAIN down[c] = 1 .. Len(down[c])
        /\ m = down[c][1] /\ m \in Message
        /\ DOMAIN down'[c] = 1 .. Len(down[c]) - 1
        /\ \A i \in 1 .. Len(down[c]) - 1 : down'[c][i] = down[c][i + 1]
    BY <1>1, <1>2, LenProperties, EmptySeq, HeadTailProperties
  <1>5. C = B \cup Carried(m) /\ AllMade' = AllMade
    BY <1>2, <1>3, ReceivedSplit, MadeUnchanged
  <1>6. conn[c] \in {"sending", "live"}
    BY <1>1 DEF PageInv, TypeOK
  <1>7. /\ MessagesFollow(made, B, down[c])
        /\ ChangesFollow(made, B \cup InMessages(down[c]), queue[c])
        /\ Closed(made, B)
    BY <1>6 DEF CausalPage
  <1>8. \A i \in DOMAIN down'[c] :
          down'[c][i].type = "full" => Closed(made', Carried(down'[c][i]))
    <2> TAKE i \in DOMAIN down'[c]
    <2>1. i + 1 \in DOMAIN down[c] /\ down'[c][i] = down[c][i + 1]
      BY <1>4
    <2> QED BY <1>2, <2>1 DEF CausalPage
  <1>9. m.type = "full" => Closed(made, Carried(m))
    <2>1. 1 \in DOMAIN down[c]
      BY <1>4
    <2> QED BY <1>4, <2>1 DEF CausalPage
  <1> HIDE DEF m, B, C
  <1>10. /\ m.type = "change" => DepsOf(made, m.change) \subseteq B
         /\ MessagesFollow(made, C, Tail(down[c]))
    BY <1>1, <1>5, <1>7, MessagesFollowTail DEF m
  <1>11. ChangesFollow(made, C \cup InMessages(down'[c]), queue[c])
    <2>1. B \cup InMessages(down[c]) \subseteq C \cup InMessages(down'[c])
      BY <1>3, <1>5
    <2> QED BY <1>7, <2>1, FollowMonotone
  <1>12. Closed(made, C)
    <2>1. CASE m.type = "full"
      BY <1>5, <1>7, <1>9, <2>1 DEF Closed
    <2>2. CASE m.type = "change"
      <3>1. Carried(m) = {m.change}
        BY <2>2 DEF Carried
      <3> QED BY <1>5, <1>7, <1>10, <2>2, <3>1 DEF Closed
    <2> QED BY <1>4, <2>1, <2>2 DEF Message
  <1> QED BY <1>2, <1>5, <1>8, <1>10, <1>11, <1>12 DEF CausalPage, C

\* Reading changes nothing of what was received.
LEMMA CausalReads ==
  ASSUME StoreInv, NEW c \in Pages, PageInv(c), CausalPage(c), Read(c) \/ WorkerReads(c)
  PROVE  CausalPage(c)'
  <1>1. PICK m \in reading[c] : /\ reading'[c] = reading[c] \ {m}
                               /\ Carried(m) \subseteq doc'[c] \cup skipped'[c]
                               /\ skipped'[c] \subseteq skipped[c] \cup doc[c] \cup Carried(m)
                               /\ doc'[c] \subseteq doc[c] \cup Carried(m)
    BY PageReads
  <1>2. /\ doc[c] \cup skipped[c] \subseteq doc'[c] \cup skipped'[c]
        /\ UNCHANGED <<made, store, conn, queue, down>>
    BY PageReads
  <1>3. reading[c] = reading'[c] \cup {m}
    BY <1>1
  <1>4. InSet(reading[c]) = InSet(reading'[c]) \cup Carried(m)
    BY <1>3 DEF InSet
  <1>5. Received(c)' = Received(c) /\ AllMade' = AllMade
    BY <1>1, <1>2, <1>4, ReceivedSplit, MadeUnchanged
  <1>6. skipped'[c] \subseteq AllMade
    BY <1>1, <1>4, PageHasMade DEF CausalPage
  <1> QED BY <1>2, <1>5, <1>6 DEF CausalPage

LEMMA EditKeepsDeps ==
  ASSUME TypeOK, NEW c \in Clients, Edit(c)
  PROVE  DepsKept /\ AllMade \subseteq AllMade'
  BY EditMakes DEF DepsKept, DepsOf

LEMMA CausalEdit ==
  ASSUME StoreInv, NEW c \in Pages, CausalPage(c), Edit(c)
  PROVE  CausalPage(c)'
  <1> DEFINE new == NextChange(c)
  <1>1. c \in Clients /\ TypeOK
    BY PagesAreClients DEF StoreInv
  <1>2. new.actor = c /\ made'[c][new.seq] = Applied(doc[c])
    BY <1>1, EditMakes
  <1>3. /\ UNCHANGED <<store, conn, queue, down, reading, skipped>>
        /\ doc'[c] = doc[c] \cup {new}
    BY <1>1 DEF Edit, TypeOK
  <1> HIDE DEF new
  <1>4. DepsOf(made', new) \subseteq doc[c]
    BY <1>2 DEF DepsOf, Applied
  <1>5. \A ch \in doc'[c] \ doc[c] : DepsOf(made', ch) \subseteq doc[c]
    BY <1>3, <1>4
  <1>6. DepsKept /\ AllMade \subseteq AllMade'
    BY <1>1, EditKeepsDeps
  <1> QED BY <1>3, <1>5, <1>6, CausalKept

\* Steps of another client that are neither a fault nor a change being stored.
LEMMA CausalAside ==
  ASSUME StoreInv, NEW p \in Pages, CausalPage(p), NEW c \in Clients \ {p},
         \/ Connect(c) \/ ReadBacklog(c) \/ BacklogSent(c) \/ Forward(c)
         \/ Reject(c) \/ Finish(c) \/ Edit(c)
         \/ Arrive(c) \/ Read(c) \/ WorkerReads(c) \/ Render(c)
  PROVE  CausalPage(p)'
  <1>1. TypeOK /\ p \in Clients \ {c}
    BY PagesAreClients DEF StoreInv
  <1>2. store' = store /\ Aside(p)
    BY <1>1, OthersAside
  <1>3. queue'[p] = queue[p]
    BY <1>1 DEF Connect, ReadBacklog, BacklogSent, Forward, Reject, Finish, Close, Edit, Arrive,
                Read, WorkerReads, Handle, Render, TypeOK
  <1>4. DepsKept /\ AllMade \subseteq AllMade'
    <2>1. CASE Edit(c)
      BY <1>1, <2>1, EditKeepsDeps
    <2>2. CASE ~Edit(c)
      BY <2>2, SameDeps DEF Connect, ReadBacklog, BacklogSent, Forward, Reject, Finish, Close,
                            Arrive, Read, WorkerReads, Handle, Render
    <2> QED BY <2>1, <2>2
  <1> QED BY <1>2, <1>3, <1>4, CausalKept DEF Aside

LEMMA CausalStep ==
  ASSUME StoreInv, StoreInv', FaultlessInv, FaultlessInv', [Next]_vars, faults' = 0,
         NEW p \in Pages, PageInv(p), PageInv(p)', CausalPage(p)
  PROVE  CausalPage(p)'
  <1>1. TypeOK /\ p \in Clients
    BY PagesAreClients DEF StoreInv
  <1>2. ~Restart /\ \A c \in Clients : ~Break(c) /\ ~CommitFails(c)
    BY <1>1, FaultlessCases
  <1>3. ASSUME NEW c \in Clients,
               \/ Connect(c) \/ ReadBacklog(c) \/ BacklogSent(c) \/ Forward(c)
               \/ Reject(c) \/ Finish(c) \/ Edit(c) \/ Arrive(c) \/ Read(c) \/ WorkerReads(c) \/ Render(c)
        PROVE  CausalPage(p)'
    <2>1. CASE c # p
      BY <1>3, <2>1, CausalAside
    <2>2. ASSUME Connect(p) \/ BacklogSent(p) \/ Render(p) PROVE CausalPage(p)'
      <3>1. UNCHANGED <<made, store, queue, down, reading, doc, skipped>>
        BY <2>2 DEF Connect, BacklogSent, Render
      <3>2. conn'[p] \in {"sending", "live"} => conn[p] \in {"sending", "live"}
        BY <1>1, <2>2 DEF Connect, BacklogSent, Render, TypeOK
      <3> QED BY <3>1, <3>2, SameDeps, CausalKept
    <2>3. ASSUME Reject(p) \/ Finish(p) PROVE CausalPage(p)'
      <3>1. UNCHANGED <<made, store, doc, skipped, reading>>
        BY <2>3 DEF Reject, Finish, Close
      <3>2. conn'[p] = "closed" /\ down'[p] = <<>>
        BY <1>1, <2>3, DisconnectEmpties
      <3> QED BY <1>1, <3>1, <3>2, CausalOffline
    <2> QED BY <1>3, <2>1, <2>2, <2>3, CausalBacklog, CausalForward, CausalEdit,
               CausalArrival, CausalReads
  <1>4. ASSUME NEW c \in Clients, Receive(c) \/ ReceiveLate(c) PROVE CausalPage(p)'
    BY <1>1, <1>4, ReceiveBroadcasts, CausalBroadcast
  <1>5. CASE UNCHANGED vars
    BY <1>5, SameDeps, CausalKept DEF vars
  <1> QED BY <1>2, <1>3, <1>4, <1>5 DEF Next

LEMMA InitCausalInv == Init => CausalInv
  <1> SUFFICES ASSUME Init PROVE FaultlessInv /\ \A c \in Pages : CausalPage(c)
    BY InitPagesInv DEF CausalInv
  <1>1. /\ store = {} /\ lost = {} /\ deaf = {}
        /\ \A c \in Clients : /\ down[c] = <<>> /\ late[c] = <<>> /\ conn[c] = "closed"
                              /\ doc[c] = {} /\ skipped[c] = {} /\ reading[c] = {}
    BY DEF Init
  <1>2. ASSUME NEW c \in Pages PROVE CausalPage(c)
    <2>1. c \in Clients /\ down[c] = <<>> /\ conn[c] = "closed" /\ skipped[c] = {}
      BY <1>1, PagesAreClients
    <2>2. Received(c) = {}
      BY <1>1, <2>1, ReceivedSplit DEF InSet
    <2>3. DOMAIN down[c] = {}
      BY <2>1, EmptySeq, LenProperties
    <2> QED BY <2>1, <2>2, <2>3 DEF CausalPage, Closed
  <1> QED BY <1>1, <1>2 DEF FaultlessInv, LateIsOver, Settled

LEMMA NextCausalInv == CausalInv /\ [Next]_vars => CausalInv'
  <1> SUFFICES ASSUME CausalInv, [Next]_vars
               PROVE  CausalInv'
    OBVIOUS
  <1>1. PagesInv /\ PagesInv' /\ StoreInv /\ StoreInv' /\ TypeOK
    BY NextPagesInv, NextStoreInv DEF CausalInv, PagesInv, StoreInv
  <1>2. ASSUME faults' = 0 PROVE FaultlessInv' /\ \A p \in Pages : CausalPage(p)'
    <2>1. FaultlessInv /\ \A p \in Pages : CausalPage(p)
      BY <1>1, <1>2, FaultlessCases DEF CausalInv
    <2>2. FaultlessInv'
      BY <1>1, <1>2, <2>1, FaultlessStep
    <2>3. ASSUME NEW p \in Pages PROVE CausalPage(p)'
      <3>1. PageInv(p) /\ PageInv(p)'
        BY <1>1 DEF PagesInv
      <3> QED BY <1>1, <1>2, <2>1, <2>2, <3>1, CausalStep
    <2> QED BY <2>2, <2>3
  <1> QED BY <1>1, <1>2 DEF CausalInv

\* As long as no connection broke and no commit failed, what a page has received,
\* in whatever order it reads it, contains all that it depends on.
THEOREM CausalDeliveryCorrect == Spec => []CausalDelivery
  <1>1. CausalInv => CausalDelivery
    <2> SUFFICES ASSUME CausalInv, faults = 0, NEW c \in Pages
                 PROVE  Applied(Received(c)) = Received(c)
      BY DEF CausalDelivery
    <2>1. \A ch \in Received(c) : made[ch.actor][ch.seq] \subseteq Received(c)
      BY DEF CausalInv, CausalPage, Closed, DepsOf
    <2> QED BY <2>1 DEF Applied
  <1>2. Spec => []CausalInv
    BY InitCausalInv, NextCausalInv, PTL DEF Spec
  <1> QED BY <1>1, <1>2, PTL

=============================================================================
