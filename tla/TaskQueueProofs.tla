-------------------------- MODULE TaskQueueProofs --------------------------
(***************************************************************************)
(* Machine-checked proofs about TaskQueue, for every number of documents,  *)
(* tasks, workers and request threads and every attempt limit: what rows,  *)
(* requests and attempts have to do with each other, what requests that    *)
(* overlap cannot do, and that the queue implements TaskLease.             *)
(***************************************************************************)
EXTENDS TaskQueue, TLAPS, SequenceTheorems, FiniteSetTheorems

-----------------------------------------------------------------------------
(* Rows, requests and attempts                                             *)

\* Changing one attempt of a task changes neither their number nor the others.
LEMMA ChangeAttempt ==
  ASSUME NEW s \in Seq(AttemptRow), NEW n \in 1 .. Len(s), NEW e \in AttemptRow
  PROVE  /\ [s EXCEPT ![n] = e] \in Seq(AttemptRow)
         /\ Len([s EXCEPT ![n] = e]) = Len(s)
         /\ \A i \in 1 .. Len(s) :
              [s EXCEPT ![n] = e][i] = IF i = n THEN e ELSE s[i]
  BY ExceptSeq

\* A write to an attempt that does not exist changes nothing.
LEMMA ChangeAttemptType ==
  ASSUME NEW s \in Seq(AttemptRow), NEW n, NEW e,
         n \in 1 .. Len(s) => e \in AttemptRow
  PROVE  [s EXCEPT ![n] = e] \in Seq(AttemptRow)
  <1>1. CASE n \in 1 .. Len(s)
    BY <1>1, ChangeAttempt
  <1>2. CASE n \notin 1 .. Len(s)
    <2>1. s \in [1 .. Len(s) -> AttemptRow]
      BY LenProperties
    <2>2. [s EXCEPT ![n] = e] = s
      BY <1>2, <2>1
    <2> QED BY <2>2
  <1> QED BY <1>1, <1>2

\* A claim appends its attempt behind the existing ones.
LEMMA AppendAttempt ==
  ASSUME NEW s \in Seq(AttemptRow), NEW e \in AttemptRow
  PROVE  /\ Append(s, e) \in Seq(AttemptRow)
         /\ Len(Append(s, e)) = Len(s) + 1
         /\ \A i \in 1 .. Len(s) : Append(s, e)[i] = s[i]
         /\ Append(s, e)[Len(s) + 1] = e
  BY AppendProperties

\* The rows written for new, claimed and finished tasks are rows.
LEMMA RowTypes ==
  /\ NoRow \in TaskRow /\ NewRow \in TaskRow
  /\ \A row \in TaskRow : ClaimedRow(row) \in TaskRow
  /\ \A row \in TaskRow : ResetRow(row) \in TaskRow
  /\ \A row \in TaskRow, r \in Request : FinishedRow(row, r) \in TaskRow
  /\ \A row \in TaskRow, w \in Workers : NewAttempt(w, row) \in AttemptRow
  <1>1. NoRow \in TaskRow /\ NewRow \in TaskRow
    BY LimitAssumption DEF NoRow, NewRow, TaskRow, TaskStates
  <1>2. \A row \in TaskRow : ClaimedRow(row) \in TaskRow
    BY DEF ClaimedRow, TaskRow, TaskStates
  <1>3. \A row \in TaskRow, r \in Request : FinishedRow(row, r) \in TaskRow
    <2> SUFFICES ASSUME NEW row \in TaskRow, NEW r \in Request
                 PROVE  FinishedRow(row, r) \in TaskRow
      OBVIOUS
    <2>1. FinalState(r) \in TaskStates
      BY DEF FinalState, TaskStates
    <2> QED BY <2>1 DEF FinishedRow, TaskRow
  <1>4. \A row \in TaskRow, w \in Workers : NewAttempt(w, row) \in AttemptRow
    BY DEF NewAttempt, TaskRow, AttemptRow
  <1>5. \A row \in TaskRow : ResetRow(row) \in TaskRow
    <2> SUFFICES ASSUME NEW row \in TaskRow PROVE ResetRow(row) \in TaskRow
      OBVIOUS
    <2>1. AttemptLimit \in Int
      BY LimitAssumption
    <2> QED BY <2>1 DEF ResetRow, TaskRow, TaskStates
  <1> QED BY <1>1, <1>2, <1>3, <1>4, <1>5

\* What claims, finished attempts and resets do to a row: attempt_counter only
\* grows, and a row stays a row.
LEMMA RowEffects ==
  \A row \in TaskRow :
    /\ ClaimedRow(row).counter = row.counter + 1
    /\ ClaimedRow(row).state # "ABSENT"
    /\ ResetRow(row).counter = row.counter
    /\ ResetRow(row).state # "ABSENT"
    /\ \A r : /\ FinishedRow(row, r).counter = row.counter
              /\ row.state # "ABSENT" => FinishedRow(row, r).state # "ABSENT"
  BY DEF ClaimedRow, ResetRow, FinishedRow, FinalState, TaskRow

\* What an agent reads is a request, and not the idle one.
LEMMA RequestTypes ==
  /\ Idle \notin Request
  /\ TypeOK => \A op \in FinishOps \cup {"keepalive"}, t \in Tasks :
                 Snapshot(op, t) \in Request
  <1>1. Idle \notin Request
    BY DEF Idle, Request, FinishOps
  <1>2. TypeOK => \A op \in FinishOps \cup {"keepalive"}, t \in Tasks :
                    Snapshot(op, t) \in Request
    BY DEF TypeOK, Snapshot, Request, TaskRow
  <1> QED BY <1>1, <1>2

-----------------------------------------------------------------------------
(* Types                                                                   *)

\* The writes of finish_current_attempt keep the tables well-typed, whether or
\* not what the request read is still true.
LEMMA WriteFinishTypes ==
  ASSUME TypeOK, NEW a \in Agents, request[a] # Idle, WriteFinish(request[a])
  PROVE  /\ task' \in [Tasks -> TaskRow]
         /\ attempts' \in [Tasks -> Seq(AttemptRow)]
         /\ overtaken' \in SUBSET Tasks
  <1> DEFINE r == request[a]
             e == [attempts[r.task][r.attempt] EXCEPT !.ended = TRUE, !.expired = FALSE]
  <1>1. r \in Request /\ r.task \in Tasks
    BY DEF TypeOK, Request
  <1>2. CASE ~Exists(r.task)
    BY <1>2 DEF WriteFinish, TypeOK
  <1>3. CASE Exists(r.task)
    <2>1. /\ task' = [task EXCEPT ![r.task] = FinishedRow(task[r.task], r)]
          /\ attempts' = [attempts EXCEPT ![r.task] = [@ EXCEPT ![r.attempt] = e]]
          /\ overtaken' \in {overtaken, overtaken \cup {r.task}}
      BY <1>3 DEF WriteFinish
    <2>2. FinishedRow(task[r.task], r) \in TaskRow
      BY <1>1, RowTypes DEF TypeOK
    <2>3. attempts[r.task] \in Seq(AttemptRow)
      BY <1>1 DEF TypeOK
    <2>4. r.attempt \in 1 .. Len(attempts[r.task]) => e \in AttemptRow
      <3> HAVE r.attempt \in 1 .. Len(attempts[r.task])
      <3>1. attempts[r.task][r.attempt] \in AttemptRow
        BY <2>3, ElementOfSeq
      <3> QED BY <3>1 DEF AttemptRow
    <2>5. [attempts[r.task] EXCEPT ![r.attempt] = e] \in Seq(AttemptRow)
      BY <2>3, <2>4, ChangeAttemptType
    <2> HIDE DEF r, e
    <2> QED BY <1>1, <2>1, <2>2, <2>5 DEF TypeOK
  <1> QED BY <1>2, <1>3

\* Touching the expiry of one attempt keeps the table well-typed.
LEMMA ExpiryTypes ==
  ASSUME TypeOK, NEW t \in Tasks, NEW n \in Nat, NEW b \in BOOLEAN
  PROVE  [attempts EXCEPT ![t][n].expired = b] \in [Tasks -> Seq(AttemptRow)]
  <1> DEFINE e == [attempts[t][n] EXCEPT !.expired = b]
  <1>1. attempts[t] \in Seq(AttemptRow)
    BY DEF TypeOK
  <1>2. n \in 1 .. Len(attempts[t]) => e \in AttemptRow
    <2> HAVE n \in 1 .. Len(attempts[t])
    <2>1. attempts[t][n] \in AttemptRow
      BY <1>1, ElementOfSeq
    <2> QED BY <2>1 DEF AttemptRow
  <1>3. [attempts[t] EXCEPT ![n] = e] \in Seq(AttemptRow)
    BY <1>1, <1>2, ChangeAttemptType
  <1> QED BY <1>3 DEF TypeOK

LEMMA InitTypeOK == Init => TypeOK
  BY LimitAssumption, EmptySeq, RowTypes DEF Init, TypeOK

LEMMA NextTypeOK == TypeOK /\ [Next]_vars => TypeOK'
  <1> SUFFICES ASSUME TypeOK, [Next]_vars PROVE TypeOK'
    OBVIOUS
  <1> USE DEF TypeOK
  <1>1. ASSUME NEW d \in Documents, CreateDocument(d) PROVE TypeOK'
    BY <1>1, RowTypes DEF CreateDocument
  <1>2. ASSUME NEW d \in Documents, DeleteDocument(d) PROVE TypeOK'
    BY <1>2, RowTypes, EmptySeq DEF DeleteDocument
  <1>3. ASSUME NEW t \in Tasks, CreateTask(t) PROVE TypeOK'
    BY <1>3, RowTypes DEF CreateTask
  <1>4. ASSUME NEW t \in Tasks, Expire(t) PROVE TypeOK'
    <2>1. task[t].current \in Nat
      BY DEF TaskRow
    <2> QED BY <1>4, <2>1, ExpiryTypes DEF Expire
  <1>5. ASSUME NEW w \in Workers, Deactivate(w) PROVE TypeOK'
    BY <1>5 DEF Deactivate
  <1>6. ASSUME NEW w \in Workers, NEW t \in Tasks, Claim(w, t) PROVE TypeOK'
    <2>1. task' \in [Tasks -> TaskRow]
      BY <1>6, RowTypes DEF Claim
    <2>2. Append(attempts[t], NewAttempt(w, task[t])) \in Seq(AttemptRow)
      BY RowTypes, AppendAttempt
    <2>3. attempts' \in [Tasks -> Seq(AttemptRow)]
      BY <1>6, <2>2 DEF Claim
    <2> QED BY <1>6, <2>1, <2>3 DEF Claim
  <1>7. ASSUME NEW h \in Handlers, NEW op \in {"keepalive", "completed", "failed"},
               NEW w \in Workers, NEW t \in Tasks, Begin(h, op, w, t)
        PROVE TypeOK'
    <2>1. Snapshot(op, t) \in Request
      BY RequestTypes DEF FinishOps
    <2> QED BY <1>7, <2>1 DEF Begin, Agents
  <1>8. ASSUME NEW h \in Handlers, CommitKeepalive(h) PROVE TypeOK'
    <2>1. request[h] \in Request
      BY <1>8 DEF CommitKeepalive, Agents, Idle
    <2>2. request[h].task \in Tasks /\ request[h].attempt \in Nat
      BY <2>1 DEF Request
    <2>3. attempts' \in [Tasks -> Seq(AttemptRow)]
      BY <1>8, <2>2, ExpiryTypes DEF CommitKeepalive
    <2> QED BY <1>8, <2>3 DEF CommitKeepalive
  <1>9. ASSUME NEW h \in Handlers, CommitFinish(h) PROVE TypeOK'
    <2>1. h \in Agents /\ request[h] # Idle
      BY <1>9 DEF CommitFinish, Agents, Idle, FinishOps
    <2> QED BY <1>9, <2>1, WriteFinishTypes DEF CommitFinish
  <1>10. ASSUME SweepSelect PROVE TypeOK'
    BY <1>10 DEF SweepSelect, TimeoutedTasks
  <1>11. ASSUME NEW t \in Tasks, SweepRead(t) PROVE TypeOK'
    <2>1. Snapshot("timeout", t) \in Request
      BY RequestTypes DEF FinishOps
    <2> QED BY <1>11, <2>1 DEF SweepRead, Agents
  <1>12. ASSUME SweepCommit PROVE TypeOK'
    <2>1. Sweeper \in Agents /\ request[Sweeper] # Idle
      BY <1>12 DEF SweepCommit, Agents
    <2> QED BY <1>12, <2>1, WriteFinishTypes DEF SweepCommit
  <1>13. ASSUME Reset PROVE TypeOK'
    <2>1. PICK T \in SUBSET Tasks, s \in TaskStates : ResetTasks(T, s)
      BY <1>13 DEF Reset, TasksOf
    <2>3. task' \in [Tasks -> TaskRow]
      BY <2>1, RowTypes DEF ResetTasks
    <2>4. resets < MaxResets /\ resets' = resets + 1
      BY <2>1 DEF ResetTasks
    <2>5. resets' \in 0 .. MaxResets
      BY <2>4, LimitAssumption
    <2> QED BY <2>1, <2>3, <2>5 DEF ResetTasks
  <1>14. ASSUME Restart PROVE TypeOK'
    BY <1>14 DEF Restart
  <1>15. CASE UNCHANGED vars
    BY <1>15 DEF vars
  <1> QED
    BY <1>1, <1>2, <1>3, <1>4, <1>5, <1>6, <1>7, <1>8, <1>9, <1>10, <1>11,
       <1>12, <1>13, <1>14, <1>15 DEF Next, Step, Sweep

\* Every reachable state of the queue is well-typed.
THEOREM TypeCorrect == Spec => []TypeOK
  BY InitTypeOK, NextTypeOK, PTL DEF Spec

-----------------------------------------------------------------------------
(* What one step can do to one task.  Every later proof goes by these six   *)
(* cases instead of by the fourteen actions.                                *)

SameAttempts(t) ==
  /\ Len(attempts'[t]) = Len(attempts[t])
  /\ \A i \in 1 .. Len(attempts[t]) :
       /\ attempts'[t][i].number = attempts[t][i].number
       /\ attempts'[t][i].worker = attempts[t][i].worker
       /\ attempts'[t][i].ended = attempts[t][i].ended

Kept(t) == task'[t] = task[t] /\ SameAttempts(t)

Appeared(t) ==
  /\ ~Exists(t)
  /\ task'[t] = NewRow
  /\ attempts'[t] = attempts[t]
  /\ document[DocumentOf[t]] # "deleted"
  /\ document'[DocumentOf[t]] = "open"

Vanished(t) ==
  /\ task'[t] = NoRow
  /\ attempts'[t] = <<>>
  /\ document'[DocumentOf[t]] = "deleted"

Claimed(t) ==
  \E w \in active :
    /\ Ready(t)
    /\ task'[t] = ClaimedRow(task[t])
    /\ attempts'[t] = Append(attempts[t], NewAttempt(w, task[t]))

EndedAttempt(r) ==
  [attempts[r.task][r.attempt] EXCEPT !.ended = TRUE, !.expired = FALSE]

Finished(t) ==
  \E a \in Agents :
    /\ request[a] # Idle
    /\ request[a].op \in FinishOps
    /\ request[a].task = t
    /\ Exists(t)
    /\ task'[t] = FinishedRow(task[t], request[a])
    /\ attempts'[t] = [attempts[t] EXCEPT ![request[a].attempt] =
                         EndedAttempt(request[a])]
    /\ Outdated(request[a]) => t \in overtaken'
    /\ request'[a] = Idle

WasReset(t) ==
  /\ Exists(t)
  /\ task'[t] = ResetRow(task[t])
  /\ attempts'[t] = attempts[t]
  /\ resets' > resets

SameDocument(t) ==
  Exists(t) => document'[DocumentOf[t]] = document[DocumentOf[t]]

RowStep(t) ==
  \/ (Kept(t) \/ Claimed(t) \/ Finished(t) \/ WasReset(t)) /\ SameDocument(t)
  \/ Appeared(t)
  \/ Vanished(t)

HistoryGrows ==
  /\ overtaken \subseteq overtaken'
  /\ resets' >= resets
  /\ \A d \in Documents : document[d] = "deleted" => document'[d] = "deleted"

LEMMA KeptIfUnchanged ==
  ASSUME NEW t \in Tasks, task'[t] = task[t], attempts'[t] = attempts[t]
  PROVE  Kept(t)
  BY DEF Kept, SameAttempts

\* A write to the expiry of an attempt keeps its task.
LEMMA KeptIfExpiry ==
  ASSUME TypeOK, NEW u \in Tasks, NEW n \in Nat, NEW b \in BOOLEAN,
         task' = task, attempts' = [attempts EXCEPT ![u][n].expired = b],
         NEW t \in Tasks
  PROVE  Kept(t)
  <1> DEFINE e == [attempts[u][n] EXCEPT !.expired = b]
  <1>1. attempts'[t] = IF t = u THEN [attempts[u] EXCEPT ![n] = e] ELSE attempts[t]
    BY DEF TypeOK
  <1>2. CASE t # u
    BY <1>1, <1>2, KeptIfUnchanged
  <1>3. CASE t = u /\ n \in 1 .. Len(attempts[u])
    <2>1. attempts[u] \in Seq(AttemptRow)
      BY DEF TypeOK
    <2>2. attempts[u][n] \in AttemptRow
      BY <1>3, <2>1, ElementOfSeq
    <2>3. /\ e \in AttemptRow
          /\ e.number = attempts[u][n].number
          /\ e.worker = attempts[u][n].worker
          /\ e.ended = attempts[u][n].ended
      BY <2>2 DEF AttemptRow
    <2> HIDE DEF e
    <2>4. /\ Len(attempts'[u]) = Len(attempts[u])
          /\ \A i \in 1 .. Len(attempts[u]) :
               attempts'[u][i] = IF i = n THEN e ELSE attempts[u][i]
      <3>1. attempts'[u] = [attempts[u] EXCEPT ![n] = e]
        BY <1>1, <1>3
      <3>2. e \in AttemptRow /\ n \in 1 .. Len(attempts[u])
        BY <1>3, <2>3
      <3> QED BY <2>1, <3>1, <3>2, ChangeAttempt
    <2> QED BY <1>3, <2>3, <2>4 DEF Kept, SameAttempts
  <1>4. CASE t = u /\ n \notin 1 .. Len(attempts[u])
    <2>1. attempts[u] \in [1 .. Len(attempts[u]) -> AttemptRow]
      BY LenProperties DEF TypeOK
    <2>2. attempts'[u] = attempts[u]
      BY <1>1, <1>4, <2>1
    <2> QED BY <1>4, <2>2, KeptIfUnchanged
  <1> QED BY <1>2, <1>3, <1>4

\* finish_current_attempt finishes the task of its request and no other.
LEMMA WriteFinishStep ==
  ASSUME TypeOK, NEW a \in Agents, request[a] # Idle,
         request[a].op \in FinishOps, WriteFinish(request[a]), request'[a] = Idle
  PROVE  /\ \A t \in Tasks : Kept(t) \/ Finished(t)
         /\ overtaken \subseteq overtaken'
  <1> DEFINE r == request[a]
  <1>1. r.task \in Tasks
    BY DEF TypeOK, Request
  <1>2. CASE ~Exists(r.task)
    BY <1>2, KeptIfUnchanged DEF WriteFinish
  <1>3. CASE Exists(r.task)
    <2>1. /\ task' = [task EXCEPT ![r.task] = FinishedRow(task[r.task], r)]
          /\ attempts' = [attempts EXCEPT ![r.task] =
                            [@ EXCEPT ![r.attempt] = EndedAttempt(r)]]
          /\ overtaken' = IF Outdated(r) THEN overtaken \cup {r.task} ELSE overtaken
      BY <1>3 DEF WriteFinish, EndedAttempt
    <2>2. ASSUME NEW t \in Tasks, t # r.task PROVE Kept(t)
      BY <2>1, <2>2, KeptIfUnchanged DEF TypeOK
    <2>3. /\ task'[r.task] = FinishedRow(task[r.task], r)
          /\ attempts'[r.task] = [attempts[r.task] EXCEPT ![r.attempt] = EndedAttempt(r)]
          /\ Outdated(r) => r.task \in overtaken'
      BY <1>1, <2>1 DEF TypeOK
    <2>4. Finished(r.task)
      BY <1>3, <2>3 DEF Finished
    <2> QED BY <2>1, <2>2, <2>4
  <1> QED BY <1>2, <1>3

LEMMA RowSteps ==
  TypeOK /\ QueueInv /\ [Next]_vars => (\A t \in Tasks : RowStep(t)) /\ HistoryGrows
  <1> SUFFICES ASSUME TypeOK, QueueInv, [Next]_vars
               PROVE  (\A t \in Tasks : RowStep(t)) /\ HistoryGrows
    OBVIOUS
  <1> DEFINE Goal == (\A t \in Tasks : RowStep(t)) /\ HistoryGrows
  <1>0. resets \in Int
    BY LimitAssumption DEF TypeOK
  <1>a. ASSUME task' = task, attempts' = attempts, overtaken' = overtaken,
               resets' = resets, document' = document
        PROVE  Goal
    BY <1>0, <1>a, KeptIfUnchanged DEF RowStep, SameDocument, HistoryGrows
  <1>1. ASSUME NEW d \in Documents, CreateDocument(d) PROVE Goal
    <2>1. ASSUME NEW t \in Tasks PROVE RowStep(t)
      <3>1. CASE t \in TasksOf(d) \ Requested
        <4>1. ~Exists(t)
          BY <1>1, <3>1 DEF CreateDocument, QueueInv, TasksOf
        <4> QED BY <1>1, <3>1, <4>1 DEF CreateDocument, RowStep, Appeared, TypeOK, TasksOf
      <3>2. CASE t \notin TasksOf(d) \ Requested
        BY <1>1, <3>2, KeptIfUnchanged, DocumentOfAssumption
          DEF CreateDocument, RowStep, SameDocument, QueueInv, TypeOK
      <3> QED BY <3>1, <3>2
    <2> QED BY <1>0, <1>1, <2>1 DEF CreateDocument, HistoryGrows, TypeOK
  <1>2. ASSUME NEW d \in Documents, DeleteDocument(d) PROVE Goal
    <2>1. ASSUME NEW t \in Tasks PROVE RowStep(t)
      <3>1. CASE t \in TasksOf(d)
        BY <1>2, <3>1 DEF DeleteDocument, RowStep, Vanished, TasksOf, TypeOK
      <3>2. CASE t \notin TasksOf(d)
        BY <1>2, <3>2, KeptIfUnchanged, DocumentOfAssumption
          DEF DeleteDocument, RowStep, SameDocument, TasksOf, TypeOK
      <3> QED BY <3>1, <3>2
    <2> QED BY <1>0, <1>2, <2>1 DEF DeleteDocument, HistoryGrows, TypeOK
  <1>3. ASSUME NEW u \in Tasks, CreateTask(u) PROVE Goal
    <2>1. ASSUME NEW t \in Tasks PROVE RowStep(t)
      <3>1. CASE t = u
        BY <1>3, <3>1 DEF CreateTask, RowStep, Appeared, TypeOK
      <3>2. CASE t # u
        BY <1>3, <3>2, KeptIfUnchanged DEF CreateTask, RowStep, SameDocument, TypeOK
      <3> QED BY <3>1, <3>2
    <2> QED BY <1>0, <1>3, <2>1 DEF CreateTask, HistoryGrows
  <1>4. ASSUME NEW u \in Tasks, Expire(u) PROVE Goal
    <2>1. task[u].current \in Nat
      BY DEF TypeOK, TaskRow
    <2>2. \A t \in Tasks : Kept(t)
      BY <1>4, <2>1, KeptIfExpiry DEF Expire
    <2> QED BY <1>0, <1>4, <2>2 DEF Expire, RowStep, SameDocument, HistoryGrows
  <1>5. ASSUME NEW w \in Workers, Deactivate(w) PROVE Goal
    BY <1>5, <1>a DEF Deactivate
  <1>6. ASSUME NEW w \in Workers, NEW u \in Tasks, Claim(w, u) PROVE Goal
    <2>1. ASSUME NEW t \in Tasks PROVE RowStep(t)
      <3>1. CASE t = u
        BY <1>6, <3>1 DEF Claim, RowStep, SameDocument, Claimed, TypeOK
      <3>2. CASE t # u
        BY <1>6, <3>2, KeptIfUnchanged DEF Claim, RowStep, SameDocument, TypeOK
      <3> QED BY <3>1, <3>2
    <2> QED BY <1>0, <1>6, <2>1 DEF Claim, HistoryGrows
  <1>7. ASSUME NEW h \in Handlers, NEW op \in {"keepalive", "completed", "failed"},
               NEW w \in Workers, NEW t \in Tasks, Begin(h, op, w, t)
        PROVE  Goal
    BY <1>7, <1>a DEF Begin
  <1>8. ASSUME NEW h \in Handlers, CommitKeepalive(h) PROVE Goal
    <2>1. request[h].task \in Tasks /\ request[h].attempt \in Nat
      BY <1>8 DEF CommitKeepalive, TypeOK, Agents, Idle, Request
    <2>2. CASE Exists(request[h].task)
      <3>1. \A t \in Tasks : Kept(t)
        BY <1>8, <2>1, <2>2, KeptIfExpiry DEF CommitKeepalive
      <3> QED BY <1>0, <1>8, <3>1 DEF CommitKeepalive, RowStep, SameDocument, HistoryGrows
    <2>3. CASE ~Exists(request[h].task)
      BY <1>8, <2>3, <1>a DEF CommitKeepalive
    <2> QED BY <2>2, <2>3
  <1>9. ASSUME NEW h \in Handlers, CommitFinish(h) PROVE Goal
    <2>1. h \in Agents /\ request[h] # Idle /\ request[h].op \in FinishOps
      BY <1>9 DEF CommitFinish, Agents, Idle, FinishOps
    <2>2. request'[h] = Idle
      BY <1>9, <2>1 DEF CommitFinish, TypeOK
    <2>3. (\A t \in Tasks : Kept(t) \/ Finished(t)) /\ overtaken \subseteq overtaken'
      BY <1>9, <2>1, <2>2, WriteFinishStep DEF CommitFinish
    <2> QED BY <1>0, <1>9, <2>3 DEF CommitFinish, RowStep, SameDocument, HistoryGrows
  <1>10. ASSUME SweepSelect PROVE Goal
    BY <1>10, <1>a DEF SweepSelect
  <1>11. ASSUME NEW t \in Tasks, SweepRead(t) PROVE Goal
    BY <1>11, <1>a DEF SweepRead
  <1>12. ASSUME SweepCommit PROVE Goal
    <2>1. /\ Sweeper \in Agents
          /\ request[Sweeper] # Idle
          /\ request[Sweeper].op \in FinishOps
      BY <1>12 DEF SweepCommit, Agents, QueueInv, FinishOps
    <2>2. request'[Sweeper] = Idle
      BY <1>12, <2>1 DEF SweepCommit, TypeOK
    <2>3. (\A t \in Tasks : Kept(t) \/ Finished(t)) /\ overtaken \subseteq overtaken'
      BY <1>12, <2>1, <2>2, WriteFinishStep DEF SweepCommit
    <2> QED BY <1>0, <1>12, <2>3 DEF SweepCommit, RowStep, SameDocument, HistoryGrows
  <1>13. ASSUME Reset PROVE Goal
    <2>1. PICK T \in SUBSET Tasks, s \in TaskStates \ {"ABSENT"} : ResetTasks(T, s)
      BY <1>13 DEF Reset, TasksOf
    <2>2. ASSUME NEW t \in Tasks PROVE RowStep(t)
      <3>1. CASE t \in T /\ task[t].state = s
        BY <1>0, <2>1, <3>1 DEF ResetTasks, RowStep, SameDocument, WasReset, Exists
      <3>2. CASE ~(t \in T /\ task[t].state = s)
        BY <2>1, <3>2, KeptIfUnchanged DEF ResetTasks, RowStep, SameDocument
      <3> QED BY <3>1, <3>2
    <2> QED BY <1>0, <2>1, <2>2 DEF ResetTasks, HistoryGrows
  <1>14. ASSUME Restart PROVE Goal
    BY <1>14, <1>a DEF Restart
  <1>15. CASE UNCHANGED vars
    BY <1>15, <1>a DEF vars
  <1> QED
    BY <1>1, <1>2, <1>3, <1>4, <1>5, <1>6, <1>7, <1>8, <1>9, <1>10, <1>11,
       <1>12, <1>13, <1>14, <1>15 DEF Next, Step, Sweep

-----------------------------------------------------------------------------
(* The inductive invariant                                                 *)

IInv == TypeOK /\ QueueInv /\ AttemptNumbering /\ CurrentIsNewest

\* What the three parts of QueueInv, AttemptNumbering and CurrentIsNewest say of
\* one task.
RowInv(t) ==
  /\ IF Exists(t) THEN document[DocumentOf[t]] = "open"
                  ELSE task[t] = NoRow /\ attempts[t] = <<>>
  /\ Held(t) => Unfinished(t)
  /\ task[t].counter = Len(attempts[t])
  /\ \A i \in 1 .. Len(attempts[t]) : attempts[t][i].number = i
  /\ Held(t) => task[t].current = Len(attempts[t]) /\ ~CurrentAttempt(t).ended

LEMMA IInvRows == IInv => \A t \in Tasks : RowInv(t)
  BY DEF IInv, QueueInv, AttemptNumbering, CurrentIsNewest, RowInv

\* A request in flight names an existing attempt of its task, as long as the
\* task exists.
RequestInv(a) ==
  request[a] # Idle =>
    IF Exists(request[a].task)
    THEN /\ request[a].attempt \in 1 .. Len(attempts[request[a].task])
         /\ request[a].state \in {"NEW", "ASSIGNED"}
    ELSE document[DocumentOf[request[a].task]] = "deleted"

LEMMA IInvRequests == IInv => \A a \in Agents : RequestInv(a)
  BY DEF IInv, QueueInv, RequestInv

LEMMA InitIInv == Init => IInv
  <1> SUFFICES ASSUME Init PROVE IInv
    OBVIOUS
  <1>1. TypeOK
    BY InitTypeOK
  <1>2. Sweeper \in Agents /\ Handlers \subseteq Agents
    BY DEF Agents
  <1> QED
    BY <1>1, <1>2 DEF Init, IInv, QueueInv, AttemptNumbering, CurrentIsNewest,
       Exists, Held, NoRow, Idle

\* The attempts and rows of one task, over one step.
LEMMA RowInvStep ==
  ASSUME IInv, TypeOK', NEW t \in Tasks, RowStep(t)
  PROVE  RowInv(t)'
  <1> DEFINE s == attempts[t]
  <1>1. /\ task[t] \in TaskRow /\ task'[t] \in TaskRow
        /\ attempts[t] \in Seq(AttemptRow) /\ attempts'[t] \in Seq(AttemptRow)
        /\ Len(attempts[t]) \in Nat
    BY LenProperties DEF IInv, TypeOK
  <1>2. RowInv(t)
    BY IInvRows
  <1>3. CASE Kept(t) /\ SameDocument(t)
    <2>1. Len(attempts'[t]) = 0 => attempts'[t] = <<>>
      BY <1>1, EmptySeq
    <2>2. /\ task'[t] = task[t] /\ Len(attempts'[t]) = Len(attempts[t])
          /\ \A i \in 1 .. Len(attempts[t]) :
               attempts'[t][i].number = attempts[t][i].number /\ attempts'[t][i].ended = attempts[t][i].ended
          /\ Exists(t) => document'[DocumentOf[t]] = document[DocumentOf[t]]
      BY <1>3 DEF Kept, SameAttempts, SameDocument
    <2> QED BY <1>1, <1>2, <2>1, <2>2
          DEF RowInv, Exists, Held, CurrentAttempt, Unfinished, NoRow, TaskRow
  <1>4. CASE Appeared(t)
    BY <1>1, <1>2, <1>4, EmptySeq
       DEF Appeared, RowInv, Exists, Held, Unfinished, NewRow, NoRow
  <1>5. CASE Vanished(t)
    BY <1>5, EmptySeq DEF Vanished, RowInv, Exists, Held, NoRow
  <1>6. CASE Claimed(t) /\ SameDocument(t)
    <2>1. PICK w \in Workers :
            /\ Ready(t)
            /\ task'[t] = ClaimedRow(task[t])
            /\ attempts'[t] = Append(attempts[t], NewAttempt(w, task[t]))
      BY <1>6 DEF Claimed, IInv, TypeOK
    <2> DEFINE e == NewAttempt(w, task[t])
    <2>2. e \in AttemptRow /\ e.number = task[t].counter + 1 /\ e.ended = FALSE
      BY <1>1, RowTypes DEF NewAttempt
    <2> HIDE DEF e
    <2>3. /\ Len(attempts'[t]) = Len(attempts[t]) + 1
          /\ \A i \in 1 .. Len(attempts[t]) : attempts'[t][i] = attempts[t][i]
          /\ attempts'[t][Len(attempts[t]) + 1] = e
      BY <1>1, <2>1, <2>2, AppendAttempt DEF e
    <2>4. /\ task'[t].state = "ASSIGNED"
          /\ task'[t].current = Len(attempts[t]) + 1
          /\ task'[t].counter = Len(attempts[t]) + 1
      BY <1>2, <2>1 DEF ClaimedRow, RowInv
    <2>5. ASSUME NEW i \in 1 .. Len(attempts'[t]) PROVE attempts'[t][i].number = i
      <3>1. CASE i \in 1 .. Len(attempts[t])
        BY <1>2, <2>3, <3>1 DEF RowInv
      <3>2. CASE i = Len(attempts[t]) + 1
        <4>1. task[t].counter = Len(attempts[t])
          BY <1>2 DEF RowInv
        <4> QED BY <2>2, <2>3, <3>2, <4>1
      <3>3. i \in 1 .. Len(attempts[t]) \/ i = Len(attempts[t]) + 1
        BY <1>1, <2>3
      <3> QED BY <3>1, <3>2, <3>3
    <2>6. document'[DocumentOf[t]] = "open"
      BY <1>2, <1>6, <2>1 DEF RowInv, SameDocument, Ready, Unfinished, Exists
    <2> QED BY <1>1, <2>2, <2>3, <2>4, <2>5, <2>6
          DEF RowInv, Exists, Held, Unfinished, CurrentAttempt
  <1>7. CASE Finished(t) /\ SameDocument(t)
    <2>1. PICK a \in Agents :
            /\ request[a] # Idle
            /\ request[a].task = t
            /\ Exists(t)
            /\ task'[t] = FinishedRow(task[t], request[a])
            /\ attempts'[t] = [attempts[t] EXCEPT ![request[a].attempt] =
                                 EndedAttempt(request[a])]
      BY <1>7 DEF Finished
    <2> DEFINE n == request[a].attempt
               e == EndedAttempt(request[a])
    <2>2. n \in 1 .. Len(attempts[t])
      BY <2>1, IInvRequests DEF RequestInv
    <2>3. attempts[t][n] \in AttemptRow
      BY <1>1, <2>2, ElementOfSeq
    <2>4. e \in AttemptRow /\ e.number = attempts[t][n].number
      BY <2>1, <2>3 DEF EndedAttempt, AttemptRow
    <2> HIDE DEF e, n
    <2>5. /\ Len(attempts'[t]) = Len(attempts[t])
          /\ \A i \in 1 .. Len(attempts[t]) :
               attempts'[t][i] = IF i = n THEN e ELSE attempts[t][i]
      BY <1>1, <2>1, <2>2, <2>4, ChangeAttempt DEF e, n
    <2>6. \A i \in 1 .. Len(attempts'[t]) : attempts'[t][i].number = i
      BY <1>2, <2>2, <2>4, <2>5 DEF RowInv
    <2>7. /\ task'[t].current = 0
          /\ task'[t].counter = task[t].counter
          /\ task'[t].state # "ABSENT"
      BY <1>1, <2>1 DEF FinishedRow, FinalState, TaskRow, Exists
    <2> QED BY <1>1, <1>2, <1>7, <2>1, <2>5, <2>6, <2>7
          DEF RowInv, Exists, Held, SameDocument
  <1>8. CASE WasReset(t) /\ SameDocument(t)
    <2>1. /\ task'[t].state = "NEW"
          /\ task'[t].current = task[t].current
          /\ task'[t].counter = task[t].counter
      BY <1>1, <1>8 DEF WasReset, ResetRow, TaskRow
    <2> QED BY <1>2, <1>8, <2>1
          DEF WasReset, SameDocument, RowInv, Exists, Held, Unfinished, CurrentAttempt
  <1> QED BY <1>3, <1>4, <1>5, <1>6, <1>7, <1>8 DEF RowStep

\* A request that stays in flight still names an existing attempt.
LEMMA PendingRequestStep ==
  ASSUME IInv, TypeOK', HistoryGrows, NEW a \in Agents, request[a] # Idle,
         request'[a] = request[a], RowStep(request[a].task)
  PROVE  RequestInv(a)'
  <1> DEFINE r == request[a]
             t == r.task
  <1>1. r \in Request /\ t \in Tasks /\ DocumentOf[t] \in Documents
    BY DocumentOfAssumption DEF IInv, TypeOK, Request
  <1>2. RowInv(t) /\ RowInv(t)'
    BY <1>1, IInvRows, RowInvStep
  <1>3. RequestInv(a)
    BY IInvRequests
  <1>4. CASE Exists(t)
    <2>1. Len(attempts[t]) \in Nat
      BY <1>1, LenProperties DEF IInv, TypeOK
    <2>2. CASE Vanished(t)
      BY <1>4, <2>2 DEF Vanished, RequestInv, Exists, NoRow
    <2>3. CASE ~Vanished(t)
      <3>1. task'[t].counter \in Nat /\ task[t].counter \in Nat
        BY <1>1 DEF IInv, TypeOK, TaskRow
      <3>2. \/ task'[t] = task[t]
            \/ task'[t] = ClaimedRow(task[t])
            \/ \E b \in Agents : task'[t] = FinishedRow(task[t], request[b])
            \/ task'[t] = ResetRow(task[t])
        BY <1>1, <1>4, <2>3 DEF RowStep, Kept, Appeared, Claimed, Finished, WasReset
      <3>6. task'[t].counter >= task[t].counter /\ Exists(t)'
        <4>1. task[t] \in TaskRow /\ task[t].state # "ABSENT"
          BY <1>1, <1>4 DEF IInv, TypeOK, Exists
        <4>2. \/ task'[t].counter = task[t].counter
              \/ task'[t].counter = task[t].counter + 1
          BY <3>2, <4>1, RowEffects
        <4>3. task'[t].state # "ABSENT"
          BY <3>2, <4>1, RowEffects
        <4> QED BY <3>1, <4>2, <4>3 DEF Exists
      <3>3. Len(attempts'[t]) >= Len(attempts[t])
        BY <1>2, <3>6 DEF RowInv
      <3>5. Len(attempts'[t]) \in Nat
        BY <1>1, LenProperties DEF TypeOK
      <3> QED BY <1>3, <1>4, <2>1, <3>3, <3>5, <3>6 DEF RequestInv
    <2> QED BY <2>2, <2>3
  <1>5. CASE ~Exists(t)
    <2>1. document'[DocumentOf[t]] = "deleted"
      BY <1>1, <1>3, <1>5 DEF RequestInv, HistoryGrows
    <2>2. ~Exists(t)'
      BY <1>2, <2>1 DEF RowInv
    <2> QED BY <2>1, <2>2 DEF RequestInv
  <1> QED BY <1>4, <1>5

\* The request an agent has just read names the current attempt.
LEMMA NewRequestStep ==
  ASSUME IInv, NEW t \in Tasks, Held(t), NEW op, NEW a \in Agents,
         request'[a] = Snapshot(op, t), task' = task, attempts' = attempts
  PROVE  RequestInv(a)'
  <1>1. RowInv(t) /\ Len(attempts[t]) \in Nat /\ task[t].current \in Nat
    BY IInvRows, LenProperties DEF IInv, TypeOK, TaskRow
  <1>2. /\ Exists(t)
        /\ task[t].current \in 1 .. Len(attempts[t])
        /\ task[t].state \in {"NEW", "ASSIGNED"}
    BY <1>1 DEF RowInv, Unfinished, Held, Exists
  <1> QED BY <1>2 DEF RequestInv, Snapshot, Exists

\* Handlers and the sweeper start, keep and drop requests.
RequestStep ==
  \A a \in Agents :
    \/ request'[a] = Idle
    \/ request'[a] = request[a]
    \/ /\ task' = task /\ attempts' = attempts
       /\ \E t \in Tasks, op \in {"keepalive", "completed", "failed", "timeout"} :
            /\ Held(t)
            /\ op = "timeout" <=> a = Sweeper
            /\ request'[a] = Snapshot(op, t)

LEMMA RequestSteps == TypeOK /\ [Next]_vars => RequestStep
  <1> SUFFICES ASSUME TypeOK, [Next]_vars PROVE RequestStep
    OBVIOUS
  <1>a. ASSUME request' = request PROVE RequestStep
    BY <1>a DEF RequestStep
  <1>b. ASSUME NEW b \in Agents, request' = [request EXCEPT ![b] = Idle]
        PROVE  RequestStep
    BY <1>b DEF RequestStep, TypeOK
  <1>1. ASSUME NEW d \in Documents, CreateDocument(d) \/ DeleteDocument(d)
        PROVE RequestStep
    BY <1>1, <1>a DEF CreateDocument, DeleteDocument
  <1>2. ASSUME NEW t \in Tasks, CreateTask(t) \/ Expire(t) PROVE RequestStep
    BY <1>2, <1>a DEF CreateTask, Expire
  <1>3. ASSUME NEW w \in Workers, Deactivate(w) PROVE RequestStep
    BY <1>3, <1>a DEF Deactivate
  <1>4. ASSUME NEW w \in Workers, NEW t \in Tasks, Claim(w, t) PROVE RequestStep
    BY <1>4, <1>a DEF Claim
  <1>5. ASSUME NEW h \in Handlers, NEW op \in {"keepalive", "completed", "failed"},
               NEW w \in Workers, NEW t \in Tasks, Begin(h, op, w, t)
        PROVE  RequestStep
    <2>1. h # Sweeper /\ op # "timeout"
      BY AgentsAssumption
    <2>2. Held(t) /\ task' = task /\ attempts' = attempts
      BY <1>5 DEF Begin, Authorized
    <2>3. request' = [request EXCEPT ![h] = Snapshot(op, t)]
      BY <1>5 DEF Begin
    <2> QED BY <2>1, <2>2, <2>3 DEF RequestStep, TypeOK
  <1>6. ASSUME NEW h \in Handlers, CommitKeepalive(h) PROVE RequestStep
    BY <1>6, <1>b DEF CommitKeepalive, Agents
  <1>7. ASSUME NEW h \in Handlers, CommitFinish(h) PROVE RequestStep
    BY <1>7, <1>b DEF CommitFinish, Agents
  <1>8. ASSUME SweepSelect PROVE RequestStep
    BY <1>8, <1>a DEF SweepSelect
  <1>9. ASSUME NEW t \in Tasks, SweepRead(t) PROVE RequestStep
    <2>1. CASE Held(t)
      <3>1. request' = [request EXCEPT ![Sweeper] = Snapshot("timeout", t)]
        BY <1>9, <2>1 DEF SweepRead
      <3>2. task' = task /\ attempts' = attempts
        BY <1>9 DEF SweepRead
      <3> QED BY <2>1, <3>1, <3>2 DEF RequestStep, TypeOK
    <2>2. CASE ~Held(t)
      BY <1>9, <2>2, <1>a DEF SweepRead
    <2> QED BY <2>1, <2>2
  <1>10. ASSUME SweepCommit PROVE RequestStep
    BY <1>10, <1>b DEF SweepCommit, Agents
  <1>11. ASSUME Reset PROVE RequestStep
    BY <1>11, <1>a DEF Reset, ResetTasks
  <1>12. ASSUME Restart PROVE RequestStep
    BY <1>12 DEF Restart, RequestStep
  <1>13. CASE UNCHANGED vars
    BY <1>13, <1>a DEF vars
  <1> QED
    BY <1>1, <1>2, <1>3, <1>4, <1>5, <1>6, <1>7, <1>8, <1>9, <1>10, <1>11,
       <1>12, <1>13 DEF Next, Step, Sweep

LEMMA NextIInv == IInv /\ [Next]_vars => IInv'
  <1> SUFFICES ASSUME IInv, [Next]_vars PROVE IInv'
    OBVIOUS
  <1>1. TypeOK'
    BY NextTypeOK DEF IInv
  <1>2. (\A t \in Tasks : RowStep(t)) /\ HistoryGrows
    BY RowSteps DEF IInv
  <1>3. \A t \in Tasks : RowInv(t)'
    BY <1>1, <1>2, RowInvStep
  <1>4. RequestStep
    BY RequestSteps DEF IInv
  <1>5. ASSUME NEW a \in Agents PROVE RequestInv(a)'
    <2>1. CASE request'[a] = Idle
      BY <2>1 DEF RequestInv
    <2>2. CASE request'[a] = request[a] /\ request[a] # Idle
      <3>1. request[a].task \in Tasks
        BY <2>2 DEF IInv, TypeOK, Request
      <3> QED BY <1>1, <1>2, <2>2, <3>1, PendingRequestStep
    <2>3. CASE request'[a] # Idle /\ request'[a] # request[a]
      <3>1. PICK t \in Tasks, op \in {"keepalive", "completed", "failed", "timeout"} :
              /\ task' = task /\ attempts' = attempts
              /\ Held(t)
              /\ request'[a] = Snapshot(op, t)
        BY <1>4, <2>3 DEF RequestStep
      <3> QED BY <3>1, NewRequestStep
    <2> QED BY <2>1, <2>2, <2>3
  <1>6. /\ request'[Sweeper] # Idle => request'[Sweeper].op = "timeout"
        /\ \A h \in Handlers : request'[h].op # "timeout"
    <2>1. Idle.op # "timeout"
      BY DEF Idle
    <2>2. \A op, t : Snapshot(op, t).op = op
      BY DEF Snapshot
    <2> QED BY <1>4, <2>1, <2>2, AgentsAssumption
          DEF RequestStep, IInv, QueueInv, Agents
  <1> QED
    BY <1>1, <1>3, <1>5, <1>6
       DEF IInv, QueueInv, AttemptNumbering, CurrentIsNewest, RowInv, RequestInv

LEMMA Invariance == Spec => []IInv
  BY InitIInv, NextIInv, PTL DEF Spec

\* The rows, requests and attempts of the queue always fit together.
THEOREM QueueInvCorrect == Spec => []QueueInv
  <1>1. IInv => QueueInv
    BY DEF IInv
  <1> QED BY Invariance, <1>1, PTL

\* However claims, outdated commits, timeouts and resets interleave, attempts of
\* a task are numbered 1, 2, 3, ... and attempt_counter counts them.
THEOREM AttemptNumberingCorrect == Spec => []AttemptNumbering
  <1>1. IInv => AttemptNumbering
    BY DEF IInv
  <1> QED BY Invariance, <1>1, PTL

\* The attempt that authorises a worker's requests is always the newest one,
\* and has not ended.
THEOREM CurrentIsNewestCorrect == Spec => []CurrentIsNewest
  <1>1. IInv => CurrentIsNewest
    BY DEF IInv
  <1> QED BY Invariance, <1>1, PTL

-----------------------------------------------------------------------------
(* States and attempts left, while no commit was overtaken                 *)

\* BudgetUnlessOvertaken, of one task.
RowBudget(t) ==
  /\ task[t].remaining \in 0 .. AttemptLimit
  /\ task[t].state = "ASSIGNED" => Held(t)
  /\ task[t].state \in {"ABSENT", "COMPLETED", "FAILED"} => ~Held(t)
  /\ task[t].state = "FAILED" => task[t].remaining = 0
  /\ Unfinished(t) /\ ~Held(t) => task[t].remaining > 0

LEMMA RowBudgetStep ==
  ASSUME IInv, TypeOK', NEW t \in Tasks, RowStep(t), RowBudget(t), t \notin overtaken'
  PROVE  RowBudget(t)'
  <1>1. task[t] \in TaskRow /\ AttemptLimit \in Nat \ {0}
    BY LimitAssumption DEF IInv, TypeOK
  <1>2. CASE Kept(t)
    BY <1>2 DEF Kept, RowBudget, Held, Unfinished
  <1>3. CASE Appeared(t)
    BY <1>1, <1>3 DEF Appeared, NewRow, RowBudget, Held, Unfinished
  <1>4. CASE Vanished(t)
    BY <1>1, <1>4 DEF Vanished, NoRow, RowBudget, Held, Unfinished
  <1>5. CASE Claimed(t)
    <2>1. Ready(t) /\ task'[t] = ClaimedRow(task[t])
      BY <1>5 DEF Claimed
    <2>2. task[t].remaining \in 1 .. AttemptLimit /\ task[t].counter \in Nat
      BY <1>1, <2>1 DEF RowBudget, Ready, TaskRow
    <2> QED BY <1>1, <2>1, <2>2 DEF ClaimedRow, RowBudget, Held, Unfinished
  <1>6. CASE Finished(t)
    <2>1. PICK a \in Agents :
            /\ request[a] # Idle
            /\ request[a].op \in FinishOps
            /\ request[a].task = t
            /\ Exists(t)
            /\ task'[t] = FinishedRow(task[t], request[a])
            /\ ~Outdated(request[a])
      BY <1>6 DEF Finished
    <2> DEFINE r == request[a]
    <2>2. r.state = task[t].state /\ r.remaining = task[t].remaining
      BY <2>1 DEF Outdated, Snapshot
    <2>3. /\ task'[t].state = FinalState(r)
          /\ task'[t].current = 0
          /\ task'[t].remaining = task[t].remaining
      BY <1>1, <2>1, <2>2 DEF FinishedRow, TaskRow
    <2>4. task[t].remaining \in Int
      BY <1>1 DEF TaskRow
    <2> QED BY <1>1, <2>2, <2>3, <2>4 DEF FinalState, RowBudget, Held, Unfinished
  <1>7. CASE WasReset(t)
    <2>1. /\ task'[t].state = "NEW"
          /\ task'[t].remaining = AttemptLimit
      BY <1>1, <1>7 DEF WasReset, ResetRow, TaskRow
    <2> QED BY <1>1, <2>1 DEF RowBudget, Held, Unfinished
  <1> QED BY <1>2, <1>3, <1>4, <1>5, <1>6, <1>7 DEF RowStep

LEMMA BudgetStep ==
  IInv /\ TypeOK' /\ BudgetUnlessOvertaken /\ [Next]_vars => BudgetUnlessOvertaken'
  <1> SUFFICES ASSUME IInv, TypeOK', BudgetUnlessOvertaken, [Next]_vars,
                      NEW t \in Tasks, t \notin overtaken'
               PROVE  RowBudget(t)'
    BY DEF BudgetUnlessOvertaken, RowBudget
  <1>1. RowStep(t) /\ t \notin overtaken
    BY RowSteps DEF IInv, HistoryGrows
  <1>2. RowBudget(t)
    BY <1>1 DEF BudgetUnlessOvertaken, RowBudget
  <1> QED BY <1>1, <1>2, RowBudgetStep

\* As long as no commit on a task was decided from outdated columns, the task's
\* state tells who has it and remaining_attempts stays within its limit.
THEOREM BudgetUnlessOvertakenCorrect == Spec => []BudgetUnlessOvertaken
  <1>1. Init => BudgetUnlessOvertaken
    BY LimitAssumption DEF Init, BudgetUnlessOvertaken, NoRow, Held, Unfinished
  <1> QED BY <1>1, BudgetStep, TypeCorrect, Invariance, PTL DEF Spec

\* No step takes a completed task back to work, except a reset, the deletion of
\* its document, or a commit that was overtaken.
THEOREM CompletedIsStableCorrect == Spec => CompletedIsStable
  <1> DEFINE A(t) == task[t].state = "COMPLETED" /\ task'[t].state # "COMPLETED" =>
                       \/ task'[t].state = "ABSENT"
                       \/ resets' > resets
                       \/ t \in overtaken'
  <1>1. ASSUME IInv, BudgetUnlessOvertaken, [Next]_vars, NEW t \in Tasks PROVE A(t)
    <2> SUFFICES ASSUME task[t].state = "COMPLETED", task'[t].state # "COMPLETED",
                        task'[t].state # "ABSENT", ~(resets' > resets),
                        t \notin overtaken'
                 PROVE  FALSE
      OBVIOUS
    <2>1. RowStep(t) /\ t \notin overtaken /\ task[t] \in TaskRow
      BY <1>1, RowSteps DEF IInv, HistoryGrows, TypeOK
    <2>2. ~Held(t)
      BY <1>1, <2>1 DEF BudgetUnlessOvertaken
    <2>3. Finished(t)
      BY <2>1 DEF RowStep, Kept, Appeared, Vanished, Claimed, WasReset, Exists,
                  NoRow, Ready, Unfinished
    <2>4. PICK a \in Agents : /\ request[a] # Idle
                              /\ request[a].task = t
                              /\ Exists(t)
                              /\ ~Outdated(request[a])
      BY <2>3 DEF Finished
    <2>5. request[a].attempt = 0
      BY <2>2, <2>4 DEF Outdated, Snapshot, Held
    <2>6. request[a].attempt \in 1 .. Len(attempts[t])
      BY <1>1, <2>4, IInvRequests DEF RequestInv
    <2> QED BY <2>5, <2>6
  <1>2. IInv /\ BudgetUnlessOvertaken /\ [Next]_vars => [\A t \in Tasks : A(t)]_vars
    BY <1>1
  <1> QED
    BY <1>2, Invariance, BudgetUnlessOvertakenCorrect, PTL DEF Spec, CompletedIsStable

\* Without resets and overtaken commits a task is only ever started once
\* everything it depends on is completed, and that stays true.
THEOREM PipelineOrderCorrect == Spec => []PipelineOrder
  <1>1. Init => PipelineOrder
    BY DEF Init, PipelineOrder, NoRow
  <1>2. ASSUME IInv, TypeOK', BudgetUnlessOvertaken, PipelineOrder, [Next]_vars
        PROVE  PipelineOrder'
    <2> SUFFICES ASSUME resets' = 0, overtaken' = {},
                        NEW t \in Tasks, task'[t].counter > 0, NEW d \in DependsOn[t]
                 PROVE  task'[d].state = "COMPLETED"
      BY DEF PipelineOrder, DependenciesCompleted
    <2>1. d \in Tasks /\ DocumentOf[d] = DocumentOf[t]
      BY DependsOnAssumption
    <2>2. /\ RowStep(t) /\ RowStep(d)
          /\ resets = 0 /\ ~(resets' > resets)
          /\ overtaken = {}
      BY <1>2, <2>1, RowSteps, LimitAssumption DEF IInv, HistoryGrows, TypeOK
    <2>3. task[t] \in TaskRow /\ task[d] \in TaskRow
      BY <1>2, <2>1 DEF IInv, TypeOK
    <2>4. task[d].state = "COMPLETED"
      <3>1. CASE task[t].counter > 0
        BY <1>2, <2>2, <3>1 DEF PipelineOrder, DependenciesCompleted
      <3>2. CASE ~(task[t].counter > 0)
        <4>1. task'[t].counter # task[t].counter /\ task'[t].counter # 0
          BY <2>3, <3>2 DEF TaskRow
        <4>2. ~Finished(t)
          <5>1. \A r : FinishedRow(task[t], r).counter = task[t].counter
            BY <2>3 DEF FinishedRow, TaskRow
          <5> QED BY <4>1, <5>1 DEF Finished
        <4>3. ~Kept(t) /\ ~Appeared(t) /\ ~Vanished(t) /\ ~WasReset(t)
          BY <2>3, <4>1, RowEffects DEF Kept, Appeared, Vanished, WasReset, NewRow, NoRow
        <4>4. Claimed(t)
          BY <2>2, <4>2, <4>3 DEF RowStep
        <4> QED BY <4>4 DEF Claimed, Ready, DependenciesCompleted
      <3> QED BY <3>1, <3>2
    <2>5. ~Held(d)
      BY <1>2, <2>1, <2>2, <2>4 DEF BudgetUnlessOvertaken
    <2>6. ~Finished(d)
      <3> SUFFICES ASSUME Finished(d) PROVE FALSE
        OBVIOUS
      <3>1. PICK a \in Agents : /\ request[a] # Idle
                                /\ request[a].task = d
                                /\ Exists(d)
                                /\ ~Outdated(request[a])
        BY DEF Finished
      <3>2. request[a].attempt = 0
        BY <2>5, <3>1 DEF Outdated, Snapshot, Held
      <3>3. request[a].attempt \in 1 .. Len(attempts[d])
        BY <1>2, <3>1, IInvRequests DEF RequestInv
      <3> QED BY <3>2, <3>3
    <2>7. ~Vanished(d)
      <3> SUFFICES ASSUME Vanished(d) PROVE FALSE
        OBVIOUS
      <3>1. document'[DocumentOf[t]] = "deleted"
        BY <2>1 DEF Vanished
      <3>2. RowInv(t)'
        BY <1>2, <2>2, RowInvStep
      <3>3. task'[t] = NoRow
        BY <3>1, <3>2 DEF RowInv
      <3> QED BY <3>3 DEF NoRow
    <2> QED BY <2>2, <2>4, <2>6, <2>7
          DEF RowStep, Kept, Appeared, Claimed, WasReset, Ready, Unfinished, Exists
  <1>3. IInv /\ TypeOK' /\ BudgetUnlessOvertaken /\ PipelineOrder /\ [Next]_vars
          => PipelineOrder'
    BY <1>2
  <1> QED
    BY <1>1, <1>3, TypeCorrect, Invariance, BudgetUnlessOvertakenCorrect, PTL DEF Spec

-----------------------------------------------------------------------------
(* The locks of the periodic job                                           *)

\* While the sweeper has locks, it has locked all it has yet to look at.
LockInv == LockedRowsAreHeld /\ (locked = {} \/ overdue \subseteq locked)

\* Steps that leave the sweeper and the locked rows alone.
LEMMA SweeperUntouched ==
  ASSUME LockInv, UNCHANGED <<overdue, locked>>, request'[Sweeper] = request[Sweeper],
         \A t \in locked : task'[t] = task[t]
  PROVE  LockInv'
  BY DEF LockInv, LockedRowsAreHeld, Held, Outdated, Snapshot

LEMMA NoLocks ==
  ASSUME locked' = {}
  PROVE  LockInv'
  BY DEF LockInv, LockedRowsAreHeld

LEMMA WriteElsewhere ==
  ASSUME TypeOK, NEW a \in Agents, request[a] # Idle, WriteFinish(request[a])
  PROVE  \A t \in Tasks \ {request[a].task} : task'[t] = task[t]
  BY DEF TypeOK, WriteFinish

LEMMA LockStep == IInv /\ LockInv /\ [Next]_vars => LockInv'
  <1> SUFFICES ASSUME IInv, LockInv, [Next]_vars PROVE LockInv'
    OBVIOUS
  <1>0. /\ TypeOK /\ locked \subseteq Tasks
        /\ \A t \in locked : Held(t) /\ Exists(t) /\ document[DocumentOf[t]] = "open"
    BY IInvRows DEF IInv, TypeOK, LockInv, LockedRowsAreHeld, RowInv, Unfinished, Exists
  <1>1. ASSUME NEW d \in Documents, CreateDocument(d) PROVE LockInv'
    <2>1. \A t \in locked : DocumentOf[t] # d
      BY <1>0, <1>1 DEF CreateDocument
    <2>2. \A t \in locked : task'[t] = task[t]
      BY <1>0, <1>1, <2>1 DEF CreateDocument, TasksOf
    <2> QED BY <1>1, <2>2, SweeperUntouched DEF CreateDocument
  <1>2. ASSUME NEW d \in Documents, DeleteDocument(d) PROVE LockInv'
    BY <1>0, <1>2, SweeperUntouched DEF DeleteDocument
  <1>3. ASSUME NEW u \in Tasks, CreateTask(u) \/ Expire(u) PROVE LockInv'
    <2>1. UNCHANGED <<request, overdue, locked>>
      BY <1>3 DEF CreateTask, Expire
    <2>2. \A t \in locked : task'[t] = task[t]
      <3>1. CASE CreateTask(u)
        BY <1>0, <3>1 DEF CreateTask, TypeOK
      <3>2. CASE Expire(u)
        BY <3>2 DEF Expire
      <3> QED BY <1>3, <3>1, <3>2
    <2> QED BY <2>1, <2>2, SweeperUntouched
  <1>4. ASSUME NEW w \in Workers, Deactivate(w) PROVE LockInv'
    BY <1>4, SweeperUntouched DEF Deactivate
  <1>5. ASSUME NEW w \in Workers, NEW t \in Tasks, Claim(w, t) PROVE LockInv'
    BY <1>0, <1>5, SweeperUntouched DEF Claim, Ready
  <1>6. ASSUME NEW h \in Handlers, NEW op \in {"keepalive", "completed", "failed"},
               NEW w \in Workers, NEW t \in Tasks, Begin(h, op, w, t)
        PROVE  LockInv'
    <2>1. request'[Sweeper] = request[Sweeper]
      BY <1>0, <1>6, AgentsAssumption DEF Begin, TypeOK, Agents
    <2> QED BY <1>6, <2>1, SweeperUntouched DEF Begin
  <1>7. ASSUME NEW h \in Handlers, CommitKeepalive(h) \/ CommitFinish(h) PROVE LockInv'
    <2>1. request'[Sweeper] = request[Sweeper] /\ UNCHANGED <<overdue, locked>>
      BY <1>0, <1>7, AgentsAssumption DEF CommitKeepalive, CommitFinish, TypeOK, Agents
    <2>2. CASE CommitKeepalive(h)
      BY <2>1, <2>2, SweeperUntouched DEF CommitKeepalive
    <2>3. CASE CommitFinish(h)
      <3>1. h \in Agents /\ request[h] # Idle /\ WriteFinish(request[h])
        BY <2>3 DEF CommitFinish, Agents, Idle, FinishOps
      <3>2. request[h].task \notin locked
        BY <2>3 DEF CommitFinish
      <3> QED BY <1>0, <2>1, <3>1, <3>2, WriteElsewhere, SweeperUntouched
    <2> QED BY <1>7, <2>2, <2>3
  <1>8. ASSUME SweepSelect PROVE LockInv'
    BY <1>8 DEF SweepSelect, TimeoutedTasks, LockInv, LockedRowsAreHeld, Held
  <1>9. ASSUME NEW u \in Tasks, SweepRead(u) PROVE LockInv'
    <2>1. CASE locked = {}
      BY <1>9, <2>1, NoLocks DEF SweepRead
    <2>2. CASE locked # {}
      <3>1. u \in locked /\ Held(u) /\ Exists(u) /\ overdue \subseteq locked
        BY <1>0, <1>9, <2>2 DEF SweepRead, LockInv
      <3>2. /\ overdue' = overdue \ {u}
            /\ request' = [request EXCEPT ![Sweeper] = Snapshot("timeout", u)]
            /\ UNCHANGED <<task, locked>> /\ request[Sweeper] = Idle
        BY <1>9, <3>1 DEF SweepRead
      <3>3. request'[Sweeper] = Snapshot("timeout", u)
        BY <1>0, <3>2 DEF TypeOK, Agents
      <3>4. Snapshot("timeout", u).op = "timeout" /\ Snapshot("timeout", u).task = u
        BY DEF Snapshot
      <3>5. request'[Sweeper] # Idle
        BY <3>3, <3>4 DEF Idle
      <3>6. ~Outdated(request[Sweeper])'
        BY <3>2, <3>3 DEF Outdated, Snapshot
      <3>7. \A t \in locked : Held(t)' /\ (t \in overdue' \/ t = u)
        BY <3>2 DEF LockInv, LockedRowsAreHeld, Held
      <3> QED BY <3>1, <3>2, <3>3, <3>4, <3>5, <3>6, <3>7 DEF LockInv, LockedRowsAreHeld
    <2> QED BY <2>1, <2>2
  <1>10. ASSUME SweepCommit PROVE LockInv'
    BY <1>10, NoLocks DEF SweepCommit
  <1>11. ASSUME Reset PROVE LockInv'
    <2>1. PICK T \in SUBSET Tasks, s \in TaskStates \ {"ABSENT"} : ResetTasks(T, s)
      BY <1>11 DEF Reset, TasksOf
    <2>2. \A t \in locked : task'[t] = task[t]
      BY <1>0, <2>1 DEF ResetTasks
    <2> QED BY <2>1, <2>2, SweeperUntouched DEF ResetTasks
  <1>12. ASSUME Restart PROVE LockInv'
    BY <1>12, NoLocks DEF Restart
  <1>13. CASE UNCHANGED vars
    BY <1>13, SweeperUntouched DEF vars
  <1> QED
    BY <1>1, <1>2, <1>3, <1>4, <1>5, <1>6, <1>7, <1>8, <1>9, <1>10, <1>11,
       <1>12, <1>13 DEF Next, Step, Sweep

\* Whatever else happens meanwhile, the tasks the sweeper has locked still have
\* the attempt it found overdue.
THEOREM LockedRowsAreHeldCorrect == Spec => []LockedRowsAreHeld
  <1>1. Init => LockInv
    BY DEF Init, LockInv, LockedRowsAreHeld
  <1>2. LockInv => LockedRowsAreHeld
    BY DEF LockInv
  <1> QED BY <1>1, <1>2, LockStep, Invariance, PTL DEF Spec

-----------------------------------------------------------------------------
(* Attempts beyond the limit                                               *)

\* The requests that will return t to the queue although by then it may have no
\* attempt left: they read that it had one.
Tickets(t) ==
  {a \in Agents : /\ request[a] # Idle
                  /\ request[a].task = t
                  /\ request[a].op \in FinishOps \ {"completed"}
                  /\ request[a].remaining > 0}

\* One more attempt can be started right now.
Open(t) == IF Unfinished(t) /\ ~Held(t) THEN 1 ELSE 0

\* Some agent has no ticket for a task that nobody holds: the one that finished
\* its last attempt, and tickets are given for held tasks only.
FreeAgent(t) == Exists(t) /\ ~Held(t) => Tickets(t) # Agents

\* Once the attempts are used up there are no new tickets, and each pays for at
\* most one more attempt.
TicketsPay(t) ==
  Exists(t) /\ task[t].remaining <= 0 =>
    Cardinality(Tickets(t)) + Open(t) <= Cardinality(Handlers) + task[t].remaining

RaceInv == \A t \in Tasks : FreeAgent(t) /\ TicketsPay(t)

LEMMA AgentCount ==
  /\ IsFiniteSet(Agents) /\ Cardinality(Handlers) \in Nat
  /\ Cardinality(Agents) = Cardinality(Handlers) + 1
  BY AgentsAssumption, FS_AddElement, FS_CardinalityType DEF Agents

LEMMA TicketCount ==
  ASSUME NEW t
  PROVE  /\ IsFiniteSet(Tickets(t)) /\ Cardinality(Tickets(t)) \in Nat
         /\ Tickets(t) # Agents => Cardinality(Tickets(t)) <= Cardinality(Handlers)
  <1>1. Tickets(t) \in SUBSET Agents
    BY DEF Tickets
  <1>2. /\ IsFiniteSet(Tickets(t))
        /\ Cardinality(Tickets(t)) <= Cardinality(Agents)
        /\ Cardinality(Agents) = Cardinality(Tickets(t)) => Agents = Tickets(t)
    BY <1>1, AgentCount, FS_Subset
  <1>3. Cardinality(Tickets(t)) \in Nat
    BY <1>2, FS_CardinalityType
  <1> QED BY <1>2, <1>3, AgentCount

\* New tickets are given only for a task that is held and has an attempt left.
LEMMA NewTickets ==
  ASSUME IInv, RequestStep, NEW t \in Tasks, NEW a \in Tickets(t)', a \notin Tickets(t)
  PROVE  /\ Held(t) /\ task[t].remaining > 0
         /\ task' = task
  <1>1. a \in Agents
    BY DEF Tickets
  <1>2. request'[a] # Idle /\ request'[a] # request[a]
    BY DEF Tickets
  <1>3. PICK u \in Tasks, op \in {"keepalive", "completed", "failed", "timeout"} :
          Held(u) /\ request'[a] = Snapshot(op, u) /\ task' = task
    BY <1>1, <1>2 DEF RequestStep
  <1>4. request'[a].task = u /\ request'[a].remaining = task[u].remaining
    BY <1>3 DEF Snapshot
  <1>5. request'[a].task = t /\ request'[a].remaining > 0
    BY DEF Tickets
  <1> QED BY <1>3, <1>4, <1>5

\* A finished attempt takes the task out of the queue unless it had a ticket.
LEMMA ClosedWithoutTicket ==
  ASSUME IInv, NEW t \in Tasks, Exists(t), NEW a \in Agents \ Tickets(t),
         request[a] # Idle, request[a].op \in FinishOps, request[a].task = t
  PROVE  FinishedRow(task[t], request[a]).state \notin {"NEW", "ASSIGNED"}
  <1> DEFINE r == request[a]
  <1>1. r \in Request /\ task[t] \in TaskRow
    BY DEF IInv, TypeOK
  <1>2. r.state \in {"NEW", "ASSIGNED"}
    BY IInvRequests DEF RequestInv
  <1>3. r.op = "completed" \/ ~(r.remaining > 0)
    BY <1>1 DEF Tickets, FinishOps
  <1>4. FinalState(r) \in {"COMPLETED", "FAILED"}
    BY <1>3 DEF FinalState
  <1>5. FinishedRow(task[t], r).state = FinalState(r)
    BY <1>1, <1>2, <1>4 DEF FinishedRow, TaskRow
  <1> QED BY <1>4, <1>5

LEMMA FreeAgentStep ==
  ASSUME IInv, TypeOK', RaceInv, [Next]_vars, NEW t \in Tasks
  PROVE  FreeAgent(t)'
  <1> SUFFICES ASSUME Exists(t)', ~Held(t)' PROVE Tickets(t)' # Agents
    BY DEF FreeAgent
  <1>1. RowStep(t) /\ RequestStep
    BY RowSteps, RequestSteps DEF IInv
  <1>2. RowInv(t) /\ task[t] \in TaskRow
    BY IInvRows DEF IInv, TypeOK
  <1>3. CASE Held(t)
    <2>1. Exists(t)
      BY <1>2, <1>3 DEF RowInv, Unfinished, Exists
    <2>2. Finished(t)
      <3>1. ~Kept(t)
        BY <1>3 DEF Kept, Held
      <3>2. ~Claimed(t)
        BY <1>3 DEF Claimed, Ready
      <3>3. ~WasReset(t)
        BY <1>2, <1>3 DEF WasReset, ResetRow, Held, TaskRow
      <3>4. ~Appeared(t) /\ ~Vanished(t)
        BY <2>1 DEF Appeared, Vanished, Exists, NoRow
      <3> QED BY <1>1, <3>1, <3>2, <3>3, <3>4 DEF RowStep
    <2>3. PICK a \in Agents : request'[a] = Idle
      BY <2>2 DEF Finished
    <2>4. a \notin Tickets(t)'
      BY <2>3 DEF Tickets
    <2> QED BY <2>3, <2>4
  <1>4. CASE ~Held(t) /\ Exists(t)
    <2>1. PICK a \in Agents : a \notin Tickets(t)
      BY <1>4 DEF RaceInv, FreeAgent, Tickets
    <2>2. a \notin Tickets(t)'
      BY <1>1, <1>4, <2>1, NewTickets
    <2> QED BY <2>1, <2>2
  <1>5. CASE ~Exists(t)
    <2>1. Appeared(t)
      <3>1. ~Kept(t) /\ ~Vanished(t)
        BY <1>5 DEF Kept, Vanished, Exists, NoRow
      <3>2. ~Claimed(t) /\ ~Finished(t) /\ ~WasReset(t)
        BY <1>5 DEF Claimed, Ready, Unfinished, Finished, WasReset, Exists
      <3> QED BY <1>1, <3>1, <3>2 DEF RowStep
    <2>2. Sweeper \notin Tickets(t)
      BY <1>5, <2>1, IInvRequests DEF RequestInv, Appeared, Tickets, Agents
    <2>3. ~Held(t)
      BY <1>2, <1>5 DEF RowInv, Held, NoRow
    <2>4. Sweeper \notin Tickets(t)'
      BY <1>1, <2>2, <2>3, NewTickets
    <2> QED BY <2>4 DEF Agents
  <1> QED BY <1>3, <1>4, <1>5

LEMMA TicketsPayStep ==
  ASSUME IInv, TypeOK', RaceInv, [Next]_vars, NEW t \in Tasks
  PROVE  TicketsPay(t)'
  <1> DEFINE n == Cardinality(Tickets(t))
             N == Cardinality(Tickets(t)')
             H == Cardinality(Handlers)
             rem == task[t].remaining
  <1> SUFFICES ASSUME Exists(t)', task'[t].remaining <= 0
               PROVE  N + Open(t)' <= H + task'[t].remaining
    BY DEF TicketsPay
  <1>1. RowStep(t) /\ RequestStep
    BY RowSteps, RequestSteps DEF IInv
  <1>2. RowInv(t) /\ task[t] \in TaskRow /\ task'[t] \in TaskRow
    BY IInvRows DEF IInv, TypeOK
  <1>3. rem \in Int /\ task'[t].remaining \in Int
    BY <1>2 DEF TaskRow
  <1>4. IsFiniteSet(Tickets(t)) /\ n \in Nat /\ H \in Nat
    BY TicketCount, AgentCount
  <1>5. Open(t) \in 0 .. 1 /\ Open(t)' \in 0 .. 1
    BY DEF Open
  <1>6. Tickets(t)' \subseteq Tickets(t)
    BY <1>1, <1>3, NewTickets
  <1>7. N \in Nat /\ N <= n
    BY <1>4, <1>6, FS_Subset, FS_CardinalityType
  <1>8. Exists(t) /\ rem <= 0 => n + Open(t) <= H + rem
    BY DEF RaceInv, TicketsPay
  <1> HIDE DEF n, N, H
  <1>9. CASE Kept(t)
    <2>1. task'[t] = task[t]
      BY <1>9 DEF Kept
    <2>2. Exists(t) /\ rem <= 0 /\ Open(t)' = Open(t)
      BY <2>1 DEF Exists, Open, Unfinished, Held
    <2> QED BY <1>3, <1>4, <1>5, <1>7, <1>8, <2>1, <2>2
  <1>10. CASE Claimed(t)
    <2>1. Ready(t) /\ task'[t] = ClaimedRow(task[t])
      BY <1>10 DEF Claimed
    <2>2. Open(t) = 1 /\ Exists(t) /\ ~Held(t)
      BY <2>1 DEF Ready, Open, Exists, Unfinished
    <2>3. task'[t].remaining = rem - 1 /\ Open(t)' = 0
      BY <1>2, <2>1 DEF ClaimedRow, Open, Held, TaskRow
    <2>4. n <= H
      BY <2>2, TicketCount DEF RaceInv, FreeAgent, n, H
    <2>5. CASE rem <= 0
      BY <1>3, <1>4, <1>7, <1>8, <2>2, <2>3, <2>5
    <2>6. CASE ~(rem <= 0)
      BY <1>3, <1>4, <1>7, <2>3, <2>4, <2>6
    <2> QED BY <2>5, <2>6
  <1>11. CASE Finished(t)
    <2>1. PICK a \in Agents :
            /\ request[a] # Idle
            /\ request[a].op \in FinishOps
            /\ request[a].task = t
            /\ Exists(t)
            /\ task'[t] = FinishedRow(task[t], request[a])
            /\ request'[a] = Idle
      BY <1>11 DEF Finished
    <2>2. task'[t].remaining = rem
      BY <1>2, <2>1 DEF FinishedRow, TaskRow
    <2>3. CASE a \in Tickets(t)
      <3>1. Tickets(t)' \in SUBSET (Tickets(t) \ {a})
        BY <1>6, <2>1 DEF Tickets
      <3>2. IsFiniteSet(Tickets(t) \ {a}) /\ Cardinality(Tickets(t) \ {a}) = n - 1
        BY <1>4, <2>3, FS_RemoveElement DEF n
      <3>3. N <= n - 1
        BY <3>1, <3>2, FS_Subset DEF N
      <3> QED BY <1>3, <1>4, <1>5, <1>7, <1>8, <2>1, <2>2, <3>3
    <2>4. CASE a \notin Tickets(t)
      <3>1. task'[t].state \notin {"NEW", "ASSIGNED"}
        BY <2>1, <2>4, ClosedWithoutTicket
      <3>2. Open(t)' = 0
        BY <3>1 DEF Open, Unfinished
      <3> QED BY <1>3, <1>4, <1>5, <1>7, <1>8, <2>1, <2>2, <3>2
    <2> QED BY <2>3, <2>4
  <1>12. CASE WasReset(t) \/ Appeared(t)
    <2>1. task'[t].remaining = AttemptLimit
      <3>1. CASE WasReset(t)
        BY <1>2, <3>1 DEF WasReset, ResetRow, TaskRow
      <3>2. CASE Appeared(t)
        BY <3>2 DEF Appeared, NewRow
      <3> QED BY <1>12, <3>1, <3>2
    <2> QED BY <2>1, LimitAssumption
  <1>13. CASE Vanished(t)
    BY <1>13 DEF Vanished, Exists, NoRow
  <1> QED BY <1>1, <1>9, <1>10, <1>11, <1>12, <1>13 DEF RowStep

\* However many failures and timeouts overlap, each agent but one adds at most
\* one attempt to those that a task is allowed.
THEOREM OverrunBoundCorrect == Spec => []OverrunBound
  <1>1. Init => RaceInv
    BY DEF Init, RaceInv, FreeAgent, TicketsPay, Exists, NoRow
  <1>2. IInv /\ TypeOK' /\ RaceInv /\ [Next]_vars => RaceInv'
    BY FreeAgentStep, TicketsPayStep DEF RaceInv
  <1>3. IInv /\ RaceInv => OverrunBound
    <2> SUFFICES ASSUME IInv, RaceInv, NEW t \in Tasks
                 PROVE  task[t].remaining >= - Cardinality(Handlers)
      BY DEF OverrunBound
    <2>1. task[t].remaining \in Int /\ RowInv(t)
      BY IInvRows DEF IInv, TypeOK, TaskRow
    <2>2. Cardinality(Tickets(t)) \in Nat /\ Cardinality(Handlers) \in Nat /\ Open(t) \in 0 .. 1
      BY TicketCount, AgentCount DEF Open
    <2>3. CASE Exists(t)
      BY <2>1, <2>2, <2>3 DEF RaceInv, TicketsPay
    <2>4. CASE ~Exists(t)
      BY <2>1, <2>2, <2>4 DEF RowInv, NoRow
    <2> QED BY <2>3, <2>4
  <1> QED BY <1>1, <1>2, <1>3, TypeCorrect, Invariance, PTL DEF Spec

-----------------------------------------------------------------------------
(* The refinement: every step of the queue is a step of the leases, or      *)
(* leaves them as they are.                                                *)

\* The four parts of the refinement mapping, of one task.
LeasePhase(t) ==
  IF Exists(t) THEN "open"
  ELSE IF document[DocumentOf[t]] = "deleted" THEN "gone" ELSE "none"

EndedAttempts(t) == {i \in 1 .. Len(attempts[t]) : attempts[t][i].ended}

SameLease(t) ==
  /\ LeasePhase(t)' = LeasePhase(t)
  /\ task'[t].counter = task[t].counter
  /\ task'[t].current = task[t].current
  /\ EndedAttempts(t)' = EndedAttempts(t)

LeaseStutter == UNCHANGED Lease!leaseVars

LEMMA SameLeases ==
  ASSUME \A t \in Tasks : SameLease(t)
  PROVE  LeaseStutter
  BY DEF LeaseStutter, Lease!leaseVars, SameLease, LeasePhase, EndedAttempts

\* A task whose row and document stay, and none of whose attempts ends, keeps
\* its lease.
LEMMA KeptLease ==
  ASSUME NEW t \in Tasks, Kept(t),
         Exists(t) \/ document'[DocumentOf[t]] = document[DocumentOf[t]]
  PROVE  SameLease(t)
  BY DEF Kept, SameAttempts, SameLease, LeasePhase, EndedAttempts, Exists

LEMMA LeaseInitMaps == Init => Lease!LeaseInit
  <1> SUFFICES ASSUME Init PROVE Lease!LeaseInit
    OBVIOUS
  <1>1. \A t \in Tasks : /\ ~Exists(t) /\ document[DocumentOf[t]] = "none"
                         /\ task[t] = NoRow
                         /\ EndedAttempts(t) = {}
    BY DocumentOfAssumption DEF Init, Exists, NoRow, EndedAttempts
  <1> QED BY <1>1 DEF Lease!LeaseInit, EndedAttempts, NoRow

\* Document creation, task creation and deletion open and withdraw leases.
LEMMA OpenStep ==
  ASSUME IInv, NEW T \in SUBSET Tasks, \A t \in T : LeasePhase(t) = "none",
         \A t \in T : task'[t] = NewRow,
         \A t \in Tasks \ T : task'[t] = task[t] /\ LeasePhase(t)' = LeasePhase(t),
         attempts' = attempts
  PROVE  Lease!Open(T)
  <1>1. \A t \in T : task[t].counter = 0 /\ task[t].current = 0
    <2> TAKE t \in T
    <2>1. ~Exists(t) /\ RowInv(t)
      BY IInvRows DEF LeasePhase
    <2> QED BY <2>1 DEF RowInv, NoRow
  <1>2. \A t \in Tasks : /\ task'[t].counter = task[t].counter
                         /\ task'[t].current = task[t].current
                         /\ EndedAttempts(t)' = EndedAttempts(t)
    BY <1>1 DEF NewRow, EndedAttempts
  <1>3. \A t \in T : LeasePhase(t)' = "open"
    BY DEF LeasePhase, Exists, NewRow
  <1> QED BY <1>2, <1>3 DEF Lease!Open, LeasePhase, EndedAttempts

LEMMA CreateDocumentOpens ==
  ASSUME IInv, NEW d \in Documents, CreateDocument(d)
  PROVE  Lease!Open(TasksOf(d) \ Requested)
  <1> DEFINE T == TasksOf(d) \ Requested
  <1>1. \A t \in Tasks : RowInv(t) /\ DocumentOf[t] \in Documents
    BY IInvRows, DocumentOfAssumption
  <1>2. document[d] = "none" /\ \A t \in TasksOf(d) : ~Exists(t)
    BY <1>1 DEF CreateDocument, RowInv, TasksOf
  <1>3. \A t \in T : LeasePhase(t) = "none"
    BY <1>2 DEF LeasePhase, TasksOf
  <1>4. \A t \in Tasks \ T : task'[t] = task[t]
    BY DEF CreateDocument
  <1>5. \A t \in Tasks \ T : LeasePhase(t)' = LeasePhase(t)
    BY <1>1, <1>2, <1>4 DEF CreateDocument, LeasePhase, Exists, TasksOf, IInv, TypeOK
  <1>6. (\A t \in T : task'[t] = NewRow) /\ attempts' = attempts /\ T \subseteq Tasks
    BY DEF CreateDocument, TasksOf
  <1> QED BY <1>3, <1>4, <1>5, <1>6, OpenStep

LEMMA CreateTaskOpens ==
  ASSUME IInv, NEW u \in Tasks, CreateTask(u)
  PROVE  Lease!Open({u})
  <1>1. LeasePhase(u) = "none"
    BY DEF CreateTask, LeasePhase
  <1>2. \A t \in Tasks \ {u} : task'[t] = task[t] /\ LeasePhase(t)' = LeasePhase(t)
    BY DEF CreateTask, LeasePhase, Exists, IInv, TypeOK
  <1>3. task'[u] = NewRow /\ attempts' = attempts
    BY DEF CreateTask, IInv, TypeOK
  <1> QED BY <1>1, <1>2, <1>3, OpenStep

LEMMA DeleteDocumentWithdraws ==
  ASSUME IInv, NEW d \in Documents, DeleteDocument(d)
  PROVE  Lease!Withdraw(TasksOf(d))
  <1> DEFINE T == TasksOf(d)
  <1>1. \A t \in Tasks : DocumentOf[t] \in Documents
    BY DocumentOfAssumption
  <1>2. \A t \in T : LeasePhase(t) \in {"open", "none"}
    BY DEF DeleteDocument, LeasePhase, TasksOf
  <1>3. ASSUME NEW t \in T
        PROVE  /\ LeasePhase(t)' = "gone"
               /\ task'[t].counter = 0 /\ task'[t].current = 0
               /\ EndedAttempts(t)' = {}
    BY DEF DeleteDocument, LeasePhase, Exists, EndedAttempts, TasksOf, NoRow,
           IInv, TypeOK
  <1>4. ASSUME NEW t \in Tasks \ T PROVE SameLease(t)
    <2>1. task'[t] = task[t] /\ attempts'[t] = attempts[t]
      BY DEF DeleteDocument
    <2>2. DocumentOf[t] # d
      BY DEF TasksOf
    <2>3. document' = [document EXCEPT ![d] = "deleted"]
      BY DEF DeleteDocument
    <2>4. document'[DocumentOf[t]] = document[DocumentOf[t]]
      BY <1>1, <2>2, <2>3 DEF IInv, TypeOK
    <2> QED BY <2>1, <2>4, KeptIfUnchanged, KeptLease
  <1>5. T \subseteq Tasks
    BY DEF TasksOf
  <1> HIDE DEF T
  <1>6. Lease!Withdraw(T)
    BY <1>2, <1>3, <1>4, <1>5
       DEF Lease!Withdraw, LeasePhase, EndedAttempts, SameLease
  <1> QED BY <1>6 DEF T

\* A claim hands out the next lease.
LEMMA ClaimGrants ==
  ASSUME IInv, NEW w \in Workers, NEW u \in Tasks, Claim(w, u)
  PROVE  Lease!Grant(u)
  <1> DEFINE e == NewAttempt(w, task[u])
  <1>1. task[u] \in TaskRow /\ attempts[u] \in Seq(AttemptRow)
    BY DEF IInv, TypeOK
  <1>2. e \in AttemptRow /\ e.ended = FALSE
    BY <1>1, RowTypes DEF NewAttempt
  <1>3. /\ LeasePhase(u) = "open"
        /\ task[u].current = 0
    BY DEF Claim, Ready, Held, Unfinished, LeasePhase, Exists
  <1>4. /\ task'[u].counter = task[u].counter + 1
        /\ task'[u].current = task[u].counter + 1
        /\ Exists(u)'
    BY DEF Claim, ClaimedRow, Exists, IInv, TypeOK
  <1>5. attempts'[u] = Append(attempts[u], e)
    BY DEF Claim, IInv, TypeOK
  <1>6. EndedAttempts(u)' = EndedAttempts(u)
    <2> HIDE DEF e
    <2>1. /\ Len(attempts[u]) \in Nat
          /\ Len(attempts'[u]) = Len(attempts[u]) + 1
          /\ \A i \in 1 .. Len(attempts[u]) : attempts'[u][i] = attempts[u][i]
          /\ attempts'[u][Len(attempts[u]) + 1] = e
      BY <1>1, <1>2, <1>5, AppendAttempt, LenProperties
    <2> QED BY <1>2, <2>1 DEF EndedAttempts
  <1>7. \A t \in Tasks \ {u} : SameLease(t)
    BY KeptIfUnchanged, KeptLease DEF Claim, IInv, TypeOK
  <1>8. LeasePhase(u)' = "open"
    BY <1>4 DEF LeasePhase
  <1> QED BY <1>3, <1>4, <1>6, <1>7, <1>8
        DEF Lease!Grant, LeasePhase, EndedAttempts, SameLease

\* Any write of finish_current_attempt releases its task and closes the attempt
\* the request names.
LEMMA WriteFinishReleases ==
  ASSUME IInv, NEW a \in Agents, NEW u \in Tasks, NEW n, request[a] # Idle,
         u = request[a].task, n = request[a].attempt, Exists(u),
         WriteFinish(request[a]), document' = document
  PROVE  n \in 1 .. task[u].counter /\ Lease!Release(u, n)
  <1> DEFINE r == request[a]
             e == EndedAttempt(r)
  <1>1. /\ r \in Request
        /\ task[u] \in TaskRow /\ attempts[u] \in Seq(AttemptRow)
        /\ RowInv(u)
    BY IInvRows DEF IInv, TypeOK
  <1>2. n \in 1 .. Len(attempts[u]) /\ task[u].counter = Len(attempts[u])
    BY <1>1, IInvRequests DEF RequestInv, RowInv
  <1>3. /\ task' = [task EXCEPT ![u] = FinishedRow(task[u], r)]
        /\ attempts' = [attempts EXCEPT ![u] = [@ EXCEPT ![n] = e]]
        /\ task \in [Tasks -> TaskRow] /\ attempts \in [Tasks -> Seq(AttemptRow)]
    BY DEF WriteFinish, EndedAttempt, IInv, TypeOK
  <1>4. /\ task'[u].counter = task[u].counter
        /\ task'[u].current = 0
        /\ Exists(u)'
    <2>1. task'[u] = FinishedRow(task[u], r)
      BY <1>1, <1>3
    <2>2. FinishedRow(task[u], r).current = 0
      BY <1>1 DEF FinishedRow, TaskRow
    <2>3. FinishedRow(task[u], r).counter = task[u].counter
      BY <1>1, RowEffects
    <2>4. FinishedRow(task[u], r).state # "ABSENT"
      BY <1>1, RowEffects DEF Exists
    <2> QED BY <2>1, <2>2, <2>3, <2>4 DEF Exists
  <1>5. EndedAttempts(u)' = EndedAttempts(u) \cup {n}
    <2>1. attempts[u][n] \in AttemptRow
      BY <1>1, <1>2, ElementOfSeq
    <2>2. e \in AttemptRow /\ e.ended = TRUE
      BY <2>1 DEF EndedAttempt, AttemptRow
    <2>3. attempts'[u] = [attempts[u] EXCEPT ![n] = e]
      BY <1>1, <1>3
    <2> HIDE DEF e, r
    <2>4. /\ Len(attempts'[u]) = Len(attempts[u])
          /\ \A i \in 1 .. Len(attempts[u]) :
               attempts'[u][i] = IF i = n THEN e ELSE attempts[u][i]
      BY <1>1, <1>2, <2>2, <2>3, ChangeAttempt
    <2> QED BY <1>2, <2>2, <2>4 DEF EndedAttempts
  <1>6. ASSUME NEW t \in Tasks \ {u} PROVE SameLease(t)
    <2>1. task'[t] = task[t] /\ attempts'[t] = attempts[t]
      BY <1>3
    <2> QED BY <2>1, KeptIfUnchanged, KeptLease
  <1>7. LeasePhase(u) = "open" /\ LeasePhase(u)' = "open"
    BY <1>4 DEF LeasePhase
  <1>8. task[u].current # 0 => task[u].current \in Nat
    BY <1>1 DEF TaskRow
  <1> HIDE DEF e, r
  <1>9. Lease!Release(u, n)
    <2>1. n \in 1 .. task[u].counter
      BY <1>2
    <2>2. \A t \in Tasks : /\ LeasePhase(t)' = LeasePhase(t)
                           /\ task'[t].counter = task[t].counter
      BY <1>4, <1>6, <1>7 DEF SameLease
    <2>3. \A t \in Tasks : task'[t].current = IF t = u THEN 0 ELSE task[t].current
      BY <1>4, <1>6 DEF SameLease
    <2>4. \A t \in Tasks : EndedAttempts(t)' = IF t = u THEN EndedAttempts(u) \cup {n}
                                                         ELSE EndedAttempts(t)
      BY <1>5, <1>6 DEF SameLease
    <2> QED BY <1>7, <2>1, <2>2, <2>3, <2>4
          DEF Lease!Release, LeasePhase, EndedAttempts
  <1> QED BY <1>2, <1>9

\* A commit of finish_current_attempt is a release, or it comes too late to
\* write anything.
LEMMA FinishStep ==
  ASSUME IInv, NEW a \in Agents, request[a] # Idle,
         WriteFinish(request[a]), document' = document
  PROVE  Lease!LeaseNext \/ LeaseStutter
  <1>1. CASE Exists(request[a].task)
    <2>1. request[a].task \in Tasks /\ request[a].attempt \in Nat
      BY DEF IInv, TypeOK, Request
    <2>2. \A u \in Tasks, n \in Nat :
            u = request[a].task /\ n = request[a].attempt =>
              n \in 1 .. task[u].counter /\ Lease!Release(u, n)
      <3> SUFFICES ASSUME NEW u \in Tasks, NEW n \in Nat,
                          u = request[a].task, n = request[a].attempt
                   PROVE  n \in 1 .. task[u].counter /\ Lease!Release(u, n)
        OBVIOUS
      <3>1. Exists(u)
        BY <1>1
      <3> QED BY <3>1, WriteFinishReleases
    <2>3. \E u \in Tasks : \E n \in 1 .. task[u].counter : Lease!Release(u, n)
      BY <2>1, <2>2
    <2> QED BY <2>3 DEF Lease!LeaseNext
  <1>2. CASE ~Exists(request[a].task)
    BY <1>2, KeptIfUnchanged, KeptLease, SameLeases DEF WriteFinish
  <1> QED BY <1>1, <1>2

LEMMA LeaseStep == IInv /\ [Next]_vars => Lease!LeaseNext \/ LeaseStutter
  <1> SUFFICES ASSUME IInv, [Next]_vars PROVE Lease!LeaseNext \/ LeaseStutter
    OBVIOUS
  <1>a. ASSUME task' = task, attempts' = attempts, document' = document
        PROVE  LeaseStutter
    BY <1>a, KeptIfUnchanged, KeptLease, SameLeases
  <1>b. ASSUME NEW u \in Tasks, NEW n \in Nat, NEW b \in BOOLEAN, task' = task,
               attempts' = [attempts EXCEPT ![u][n].expired = b], document' = document
        PROVE  LeaseStutter
    BY <1>b, KeptIfExpiry, KeptLease, SameLeases DEF IInv
  <1>1. ASSUME NEW d \in Documents, CreateDocument(d) PROVE Lease!LeaseNext
    <2>1. TasksOf(d) \ Requested \in SUBSET Tasks
      BY DEF TasksOf
    <2> QED BY <1>1, <2>1, CreateDocumentOpens DEF Lease!LeaseNext
  <1>2. ASSUME NEW d \in Documents, DeleteDocument(d) PROVE Lease!LeaseNext
    <2>1. TasksOf(d) \in SUBSET Tasks
      BY DEF TasksOf
    <2> QED BY <1>2, <2>1, DeleteDocumentWithdraws DEF Lease!LeaseNext
  <1>3. ASSUME NEW u \in Tasks, CreateTask(u) PROVE Lease!LeaseNext
    <2>1. {u} \in SUBSET Tasks
      OBVIOUS
    <2> QED BY <1>3, <2>1, CreateTaskOpens DEF Lease!LeaseNext
  <1>4. ASSUME NEW u \in Tasks, Expire(u) PROVE LeaseStutter
    <2>1. task[u].current \in Nat
      BY DEF IInv, TypeOK, TaskRow
    <2> QED BY <1>4, <1>b, <2>1 DEF Expire
  <1>5. ASSUME NEW w \in Workers, Deactivate(w) PROVE LeaseStutter
    BY <1>5, <1>a DEF Deactivate
  <1>6. ASSUME NEW w \in Workers, NEW u \in Tasks, Claim(w, u) PROVE Lease!LeaseNext
    BY <1>6, ClaimGrants DEF Lease!LeaseNext
  <1>7. ASSUME NEW h \in Handlers, NEW op \in {"keepalive", "completed", "failed"},
               NEW w \in Workers, NEW t \in Tasks, Begin(h, op, w, t)
        PROVE  LeaseStutter
    BY <1>7, <1>a DEF Begin
  <1>8. ASSUME NEW h \in Handlers, CommitKeepalive(h) PROVE LeaseStutter
    <2>1. request[h].task \in Tasks /\ request[h].attempt \in Nat
      BY <1>8 DEF CommitKeepalive, IInv, TypeOK, Agents, Idle, Request
    <2> QED BY <1>8, <1>a, <1>b, <2>1 DEF CommitKeepalive
  <1>9. ASSUME NEW h \in Handlers, CommitFinish(h)
        PROVE  Lease!LeaseNext \/ LeaseStutter
    <2>1. h \in Agents /\ request[h] # Idle
      BY <1>9 DEF CommitFinish, Agents, Idle, FinishOps
    <2> QED BY <1>9, <2>1, FinishStep DEF CommitFinish
  <1>10. ASSUME SweepSelect PROVE LeaseStutter
    BY <1>10, <1>a DEF SweepSelect
  <1>11. ASSUME NEW t \in Tasks, SweepRead(t) PROVE LeaseStutter
    BY <1>11, <1>a DEF SweepRead
  <1>12. ASSUME SweepCommit PROVE Lease!LeaseNext \/ LeaseStutter
    <2>1. Sweeper \in Agents /\ request[Sweeper] # Idle
      BY <1>12 DEF SweepCommit, Agents
    <2> QED BY <1>12, <2>1, FinishStep DEF SweepCommit
  <1>13. ASSUME Reset PROVE LeaseStutter
    <2>1. PICK T \in SUBSET Tasks, s \in TaskStates \ {"ABSENT"} : ResetTasks(T, s)
      BY <1>13 DEF Reset, TasksOf
    <2>2. ASSUME NEW t \in Tasks PROVE SameLease(t)
      <3>1. task'[t] = task[t] \/ (Exists(t) /\ task'[t] = ResetRow(task[t]))
        <4>1. CASE t \in T /\ task[t].state = s
          BY <2>1, <4>1 DEF ResetTasks, Exists
        <4>2. CASE ~(t \in T /\ task[t].state = s)
          <5>1. task'[t] = task[t]
            BY <2>1, <4>2 DEF ResetTasks
          <5> QED BY <5>1
        <4> QED BY <4>1, <4>2
      <3>2. /\ ResetRow(task[t]).counter = task[t].counter
            /\ ResetRow(task[t]).current = task[t].current
            /\ ResetRow(task[t]).state # "ABSENT"
        BY DEF ResetRow, IInv, TypeOK, TaskRow
      <3>3. attempts' = attempts /\ document' = document
        BY <2>1 DEF ResetTasks
      <3>4. EndedAttempts(t)' = EndedAttempts(t)
        BY <3>3 DEF EndedAttempts
      <3>5. LeasePhase(t)' = LeasePhase(t)
        BY <3>1, <3>2, <3>3 DEF LeasePhase, Exists
      <3> QED BY <3>1, <3>2, <3>4, <3>5 DEF SameLease
    <2> QED BY <2>2, SameLeases
  <1>14. ASSUME Restart PROVE LeaseStutter
    BY <1>14, <1>a DEF Restart
  <1>15. CASE UNCHANGED vars
    BY <1>15, <1>a DEF vars
  <1> QED
    BY <1>1, <1>2, <1>3, <1>4, <1>5, <1>6, <1>7, <1>8, <1>9, <1>10, <1>11,
       <1>12, <1>13, <1>14, <1>15 DEF Next, Step, Sweep

\* The queue hands tasks out under numbered leases: it never gives a task to two
\* workers at once and never puts an attempt back in force.
THEOREM LeaseSpecCorrect == Spec => LeaseSpec
  <1>1. IInv /\ [Next]_vars => [Lease!LeaseNext]_(Lease!leaseVars)
    BY LeaseStep DEF LeaseStutter
  <1> QED BY <1>1, LeaseInitMaps, Invariance, PTL
        DEF Spec, LeaseSpec, Lease!LeaseSpec

=============================================================================
