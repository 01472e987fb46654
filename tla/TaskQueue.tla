----------------------------- MODULE TaskQueue -----------------------------
(***************************************************************************)
(* The backend's task queue: the rows of the tables task, taskattempt and  *)
(* taskdependency, the HTTP handlers of routers/task.py that change them,  *)
(* the periodic job that takes overdue attempts away from their workers,   *)
(* deletion of documents and the admin command that resets tasks.          *)
(*                                                                         *)
(* The database runs at READ COMMITTED.  keepalive, mark_completed and     *)
(* mark_failed read the task without a row lock, decide from what they     *)
(* read, and write later: each is a Begin step and a commit step, between  *)
(* which anything may happen.  claim_unassigned_task locks its row before  *)
(* it reads, so it is one step.  The periodic job locks the overdue tasks, *)
(* but its first commit releases all the locks while the loop goes on.     *)
(***************************************************************************)
EXTENDS Integers, Sequences, FiniteSets

CONSTANTS
  Documents,     \* documents that users may create
  Tasks,         \* tasks that may come into being
  Workers,       \* registered workers, one token each
  Handlers,      \* server threads, each executing one request at a time
  Sweeper,       \* the periodic job
  DocumentOf,    \* the document a task belongs to
  DependsOn,     \* the tasks a task depends on (taskdependency)
  Requested,     \* tasks a user asks for later; the others come with the document
  Serves,        \* the tasks whose type a worker asks for
  AttemptLimit,  \* settings.task_attempt_limit
  MaxResets      \* bound: how often an admin resets tasks

ASSUME DocumentOfAssumption == DocumentOf \in [Tasks -> Documents]

\* taskdependency rows are written only when a document's default tasks are.
ASSUME DependsOnAssumption ==
  /\ DependsOn \in [Tasks -> SUBSET (Tasks \ Requested)]
  /\ \A t \in Tasks : \A d \in DependsOn[t] : DocumentOf[d] = DocumentOf[t]

ASSUME ServesAssumption == Serves \in [Workers -> SUBSET Tasks]

ASSUME AgentsAssumption == IsFiniteSet(Handlers) /\ Sweeper \notin Handlers

ASSUME LimitAssumption == AttemptLimit \in Nat \ {0} /\ MaxResets \in Nat

VARIABLES
  document,   \* has the document been created, has it been deleted?
  task,       \* the row of each task
  attempts,   \* the attempts of each task, oldest first (taskattempt)
  active,     \* the workers that are not deactivated
  request,    \* what each handler, and the sweeper, read and will write back
  overdue,    \* the tasks the sweeper selected and has not looked at again
  locked,     \* the tasks whose rows the sweeper's transaction has locked
  resets,     \* how often tasks were reset (only to bound it by MaxResets)
  overtaken   \* history: tasks some commit wrote after its read was outdated

vars == <<document, task, attempts, active, request, overdue, locked,
          resets, overtaken>>

-----------------------------------------------------------------------------
(* Rows and requests                                                       *)

Agents == Handlers \cup {Sweeper}

\* TaskState; "ABSENT" says there is no row.
TaskStates == {"ABSENT", "NEW", "ASSIGNED", "COMPLETED", "FAILED"}

\* current is the number of the current attempt, 0 for NULL.
TaskRow == [state : TaskStates, current : Nat, counter : Nat, remaining : Int]

NoRow  == [state |-> "ABSENT", current |-> 0, counter |-> 0, remaining |-> 0]
NewRow == [state |-> "NEW", current |-> 0, counter |-> 0,
           remaining |-> AttemptLimit]

\* expired: last_keepalive is more than worker_timeout ago.
AttemptRow == [number : Nat, worker : Workers, ended : BOOLEAN,
               expired : BOOLEAN]

FinishOps == {"completed", "failed", "timeout"}

\* The columns a handler decides from, as it read them.
Request == [op : FinishOps \cup {"keepalive"}, task : Tasks, attempt : Nat,
            state : TaskStates, remaining : Int]

Idle == [op |-> "idle"]

Exists(t) == task[t].state # "ABSENT"

TasksOf(d) == {t \in Tasks : DocumentOf[t] = d}

Held(t) == task[t].current # 0

CurrentAttempt(t) == attempts[t][task[t].current]

TypeOK ==
  /\ document \in [Documents -> {"none", "open", "deleted"}]
  /\ task \in [Tasks -> TaskRow]
  /\ attempts \in [Tasks -> Seq(AttemptRow)]
  /\ active \in SUBSET Workers
  /\ request \in [Agents -> Request \cup {Idle}]
  /\ overdue \in SUBSET Tasks
  /\ locked \in SUBSET Tasks
  /\ resets \in 0 .. MaxResets
  /\ overtaken \in SUBSET Tasks

Init ==
  /\ document = [d \in Documents |-> "none"]
  /\ task = [t \in Tasks |-> NoRow]
  /\ attempts = [t \in Tasks |-> <<>>]
  /\ active = Workers
  /\ request = [a \in Agents |-> Idle]
  /\ overdue = {}
  /\ locked = {}
  /\ resets = 0
  /\ overtaken = {}

-----------------------------------------------------------------------------
(* Users: documents and tasks come and go                                  *)

\* create_document: the document and its default tasks, in one transaction.
CreateDocument(d) ==
  /\ document[d] = "none"
  /\ document' = [document EXCEPT ![d] = "open"]
  /\ task' = [t \in Tasks |->
                IF t \in TasksOf(d) \ Requested THEN NewRow ELSE task[t]]
  /\ UNCHANGED <<attempts, active, request, overdue, locked, resets, overtaken>>

\* create_task and export: one more task, without dependencies.
CreateTask(t) ==
  /\ t \in Requested
  /\ document[DocumentOf[t]] = "open"
  /\ ~Exists(t)
  /\ task' = [task EXCEPT ![t] = NewRow]
  /\ UNCHANGED <<document, attempts, active, request, overdue, locked, resets,
                 overtaken>>

\* delete_document: ON DELETE CASCADE takes the tasks and their attempts along.
\* The statement waits for rows the sweeper has locked.
DeleteDocument(d) ==
  /\ document[d] = "open"
  /\ locked \cap TasksOf(d) = {}
  /\ document' = [document EXCEPT ![d] = "deleted"]
  /\ task' = [t \in Tasks |-> IF t \in TasksOf(d) THEN NoRow ELSE task[t]]
  /\ attempts' = [t \in Tasks |-> IF t \in TasksOf(d) THEN <<>> ELSE attempts[t]]
  /\ UNCHANGED <<active, request, overdue, locked, resets, overtaken>>

-----------------------------------------------------------------------------
(* Workers: claiming                                                       *)

DependenciesCompleted(t) ==
  \A d \in DependsOn[t] : task[d].state = "COMPLETED"

Mutant_CompletedIsUnfinished(t) ==
  task[t].state \in {"NEW", "ASSIGNED", "COMPLETED"}

Unfinished(t) == task[t].state \in {"NEW", "ASSIGNED"}

Mutant_IgnoresDependencies(t) == ~Held(t) /\ Unfinished(t)

Mutant_IgnoresHolder(t) == Unfinished(t) /\ DependenciesCompleted(t)

\* get_ready_task
Ready(t) == ~Held(t) /\ Unfinished(t) /\ DependenciesCompleted(t)

\* The row claim_unassigned_task writes for its task.
ClaimedRow(row) ==
  [state |-> "ASSIGNED", current |-> row.counter + 1,
   counter |-> row.counter + 1, remaining |-> row.remaining - 1]

NewAttempt(w, row) ==
  [number |-> row.counter + 1, worker |-> w, ended |-> FALSE, expired |-> FALSE]

Mutant_NeverRetries(w, t) ==
  /\ w \in active
  /\ t \in Serves[w]
  /\ Ready(t)
  /\ task[t].counter = 0
  /\ task' = [task EXCEPT ![t] = ClaimedRow(@)]
  /\ attempts' = [attempts EXCEPT ![t] = Append(@, NewAttempt(w, task[t]))]
  /\ UNCHANGED <<document, active, request, overdue, locked, resets, overtaken>>

\* claim_unassigned_task: the query has no ORDER BY, any ready task may come
\* first.
Claim(w, t) ==
  /\ w \in active
  /\ t \in Serves[w]
  /\ Ready(t)
  /\ task' = [task EXCEPT ![t] = ClaimedRow(@)]
  /\ attempts' = [attempts EXCEPT ![t] = Append(@, NewAttempt(w, task[t]))]
  /\ UNCHANGED <<document, active, request, overdue, locked, resets, overtaken>>

-----------------------------------------------------------------------------
(* Workers: keepalive, mark_completed, mark_failed                         *)

\* get_authorized_worker and get_authorized_task let the request through.
Authorized(w, t) ==
  /\ w \in active
  /\ Exists(t)
  /\ Held(t)
  /\ CurrentAttempt(t).worker = w

\* The columns of t that an agent carrying out op now has in hand.
Snapshot(op, t) ==
  [op |-> op, task |-> t, attempt |-> task[t].current,
   state |-> task[t].state, remaining |-> task[t].remaining]

\* A handler has read and authorised its task; it holds no lock.
Begin(h, op, w, t) ==
  /\ request[h] = Idle
  /\ Authorized(w, t)
  /\ request' = [request EXCEPT ![h] = Snapshot(op, t)]
  /\ UNCHANGED <<document, task, attempts, active, overdue, locked, resets,
                 overtaken>>

\* keepalive writes to the attempt it read, which need not be the current one
\* any more.  If the document is gone the UPDATE matches no row and fails.
CommitKeepalive(h) ==
  LET r == request[h] IN
  /\ r.op = "keepalive"
  /\ attempts' = IF Exists(r.task)
                 THEN [attempts EXCEPT ![r.task][r.attempt].expired = FALSE]
                 ELSE attempts
  /\ request' = [request EXCEPT ![h] = Idle]
  /\ UNCHANGED <<document, task, active, overdue, locked, resets, overtaken>>

Mutant_OneAttemptTooMany(r) ==
  IF r.op = "completed" THEN "COMPLETED"
  ELSE IF r.remaining >= 0 THEN "NEW" ELSE "FAILED"

Mutant_AbortsLastAttempt(r) ==
  IF r.op = "completed" THEN "COMPLETED"
  ELSE IF r.remaining > 0 THEN "NEW" ELSE "ABORTED"

\* The state finish_current_attempt decides on, from the row it read.
FinalState(r) ==
  IF r.op = "completed" THEN "COMPLETED"
  ELSE IF r.remaining > 0 THEN "NEW" ELSE "FAILED"

Mutant_KeepsAttemptForRetry(row, r) ==
  [row EXCEPT !.state = IF FinalState(r) = r.state THEN @ ELSE FinalState(r),
              !.current = IF FinalState(r) = "NEW" THEN @ ELSE 0]

Mutant_KeepsLastAttempt(row, r) ==
  [row EXCEPT !.state = IF FinalState(r) = r.state THEN @ ELSE FinalState(r),
              !.current = IF FinalState(r) = "NEW" THEN 0 ELSE @]

\* The session writes only the columns whose value it changed: if the state it
\* read is the one it decided on, the stored state stays as it is by now.
FinishedRow(row, r) ==
  [row EXCEPT !.state = IF FinalState(r) = r.state THEN @ ELSE FinalState(r),
              !.current = 0]

\* Is the row not the one the request was decided from?
Outdated(r) == r # Snapshot(r.op, r.task)

\* The writes of finish_current_attempt; they touch no row once the document is
\* gone.
WriteFinish(r) ==
  IF Exists(r.task)
  THEN /\ task' = [task EXCEPT ![r.task] = FinishedRow(@, r)]
       /\ attempts' = [attempts EXCEPT ![r.task][r.attempt] =
                         [@ EXCEPT !.ended = TRUE, !.expired = FALSE]]
       /\ overtaken' = IF Outdated(r) THEN overtaken \cup {r.task} ELSE overtaken
  ELSE UNCHANGED <<task, attempts, overtaken>>

Mutant_CommitsPastLock(h) ==
  LET r == request[h] IN
  /\ r.op \in FinishOps
  /\ WriteFinish(r)
  /\ request' = [request EXCEPT ![h] = Idle]
  /\ UNCHANGED <<document, active, overdue, locked, resets>>

\* mark_completed and mark_failed: the commit waits for the sweeper's lock.
CommitFinish(h) ==
  LET r == request[h] IN
  /\ r.op \in FinishOps
  /\ r.task \notin locked
  /\ WriteFinish(r)
  /\ request' = [request EXCEPT ![h] = Idle]
  /\ UNCHANGED <<document, active, overdue, locked, resets>>

-----------------------------------------------------------------------------
(* timeout_attempts                                                        *)

\* Time passes and the current attempt's last keepalive is too old.
Expire(t) ==
  /\ Held(t)
  /\ ~CurrentAttempt(t).expired
  /\ attempts' = [attempts EXCEPT ![t][task[t].current].expired = TRUE]
  /\ UNCHANGED <<document, task, active, request, overdue, locked, resets,
                 overtaken>>

TimeoutedTasks == {t \in Tasks : Held(t) /\ CurrentAttempt(t).expired}

\* timeouted_tasks: SELECT ... FOR UPDATE.
SweepSelect ==
  /\ request[Sweeper] = Idle
  /\ overdue = {}
  /\ TimeoutedTasks # {}
  /\ overdue' = TimeoutedTasks
  /\ locked' = TimeoutedTasks
  /\ UNCHANGED <<document, task, attempts, active, request, resets, overtaken>>

Mutant_SweepsOnlyRetryable(t) ==
  /\ request[Sweeper] = Idle
  /\ t \in overdue
  /\ overdue' = IF Exists(t) THEN overdue \ {t} ELSE {}
  /\ request' = IF Held(t) /\ task[t].remaining > 0
                THEN [request EXCEPT ![Sweeper] = Snapshot("timeout", t)]
                ELSE request
  /\ locked' = locked \ {t}
  /\ UNCHANGED <<document, task, attempts, active, resets, overtaken>>

\* The loop turns to the next task.  Its attributes are read again, and without
\* a lock after the first commit.  A task that has no current attempt any more
\* is skipped; one whose row is gone raises, which ends this run of the job.
SweepRead(t) ==
  /\ request[Sweeper] = Idle
  /\ t \in overdue
  /\ overdue' = IF Exists(t) THEN overdue \ {t} ELSE {}
  /\ request' = IF Held(t)
                THEN [request EXCEPT ![Sweeper] = Snapshot("timeout", t)]
                ELSE request
  /\ UNCHANGED <<document, task, attempts, active, locked, resets, overtaken>>

\* finish_current_attempt inside the loop: its commit ends the transaction and
\* so releases every lock.
SweepCommit ==
  LET r == request[Sweeper] IN
  /\ r # Idle
  /\ WriteFinish(r)
  /\ overdue' = IF Exists(r.task) THEN overdue ELSE {}
  /\ locked' = {}
  /\ request' = [request EXCEPT ![Sweeper] = Idle]
  /\ UNCHANGED <<document, active, resets>>

-----------------------------------------------------------------------------
(* Operators of the service                                                *)

\* The values reset_task writes.  The current attempt is left alone.
ResetRow(row) == [row EXCEPT !.state = "NEW", !.remaining = AttemptLimit]

\* The UPDATE of reset_task: tasks T, by task or document id, in state s.
ResetTasks(T, s) ==
  LET matching == {t \in T : task[t].state = s} IN
  /\ resets < MaxResets
  /\ matching # {}
  /\ matching \cap locked = {}
  /\ task' = [t \in Tasks |->
                IF t \in matching THEN ResetRow(task[t]) ELSE task[t]]
  /\ resets' = resets + 1
  /\ UNCHANGED <<document, attempts, active, request, overdue, locked, overtaken>>

Reset ==
  \E s \in TaskStates \ {"ABSENT"} :
    \/ \E t \in Tasks : ResetTasks({t}, s)
    \/ \E d \in Documents : ResetTasks(TasksOf(d), s)

\* deactivate_worker_endpoint: there is no way back.
Deactivate(w) ==
  /\ w \in active
  /\ active' = active \ {w}
  /\ UNCHANGED <<document, task, attempts, request, overdue, locked, resets,
                 overtaken>>

\* The server process ends: what was not committed is gone.
Restart ==
  /\ request' = [a \in Agents |-> Idle]
  /\ overdue' = {}
  /\ locked' = {}
  /\ UNCHANGED <<document, task, attempts, active, resets, overtaken>>

-----------------------------------------------------------------------------
Sweep == SweepSelect \/ (\E t \in Tasks : SweepRead(t)) \/ SweepCommit

\* Everything but the crash of the server.
Step ==
  \/ \E d \in Documents : CreateDocument(d) \/ DeleteDocument(d)
  \/ \E t \in Tasks : CreateTask(t) \/ Expire(t)
  \/ \E w \in Workers : Deactivate(w) \/ \E t \in Tasks : Claim(w, t)
  \/ \E h \in Handlers, op \in {"keepalive", "completed", "failed"},
        w \in Workers, t \in Tasks : Begin(h, op, w, t)
  \/ \E h \in Handlers : CommitKeepalive(h) \/ CommitFinish(h)
  \/ Sweep
  \/ Reset

Next == Step \/ Restart

Spec == Init /\ [][Next]_vars


(***************************************************************************)
(* Safety.  Two requests for one task, or a request and the sweeper, may   *)
(* both be authorised before either commits; what the code keeps in every  *)
(* such interleaving, and what it keeps unless one of them is overtaken.   *)
(***************************************************************************)

\* Attempts of a task are numbered 1, 2, 3, ... without gap or repetition, and
\* attempt_counter is their number: claims are serialised by FOR UPDATE even
\* when outdated requests reset current_attempt in between.
AttemptNumbering ==
  \A t \in Tasks :
    /\ task[t].counter = Len(attempts[t])
    /\ \A i \in 1 .. Len(attempts[t]) : attempts[t][i].number = i

\* The current attempt is the newest one and has not ended: whichever worker
\* keepalive and mark_* authorise, it is the one that claimed last.
CurrentIsNewest ==
  \A t \in Tasks : Held(t) =>
    /\ task[t].current = Len(attempts[t])
    /\ ~CurrentAttempt(t).ended

\* While no commit on the task was overtaken, the states of the task table mean
\* what their names say: ASSIGNED tasks are with a worker, finished ones are
\* not, a FAILED one has used up its attempts, and a task that can be claimed
\* has an attempt left, so remaining_attempts never drops below zero.
BudgetUnlessOvertaken ==
  \A t \in Tasks \ overtaken :
    /\ task[t].remaining \in 0 .. AttemptLimit
    /\ task[t].state = "ASSIGNED" => Held(t)
    /\ task[t].state \in {"ABSENT", "COMPLETED", "FAILED"} => ~Held(t)
    /\ task[t].state = "FAILED" => task[t].remaining = 0
    /\ Unfinished(t) /\ ~Held(t) => task[t].remaining > 0

\* Without resets and overtaken commits, no task is ever started before the
\* tasks it depends on are completed, and they stay so: transcribe works on a
\* reencoded file, identify_speakers on a finished transcript.
PipelineOrder ==
  resets = 0 /\ overtaken = {} =>
    \A t \in Tasks : task[t].counter > 0 => DependenciesCompleted(t)

\* Overtaken failures may return a task to the queue more often than its limit
\* allows, but only as often as there were requests in flight: each thread, and
\* the sweeper, can add one attempt.
OverrunBound ==
  \A t \in Tasks : task[t].remaining >= - Cardinality(Handlers)

\* Rows the sweeper has locked still have the attempt it found overdue; so the
\* first task of each run of the job is never judged on outdated columns.
LockedRowsAreHeld ==
  \A t \in locked :
    /\ Held(t)
    /\ t \in overdue \/ (request[Sweeper] # Idle /\ request[Sweeper].task = t)
    /\ request[Sweeper] # Idle /\ request[Sweeper].task = t
         => ~Outdated(request[Sweeper])

\* The inductive invariant behind the above: rows belong to a document that
\* exists, only unfinished tasks have a current attempt, and every request in
\* flight names an attempt of its task as long as the task exists.
QueueInv ==
  /\ \A t \in Tasks :
       IF Exists(t) THEN document[DocumentOf[t]] = "open"
                    ELSE task[t] = NoRow /\ attempts[t] = <<>>
  /\ \A t \in Tasks : Held(t) => Unfinished(t)
  /\ \A a \in Agents : request[a] # Idle =>
       LET r == request[a] IN
       IF Exists(r.task)
       THEN r.attempt \in 1 .. Len(attempts[r.task]) /\ r.state \in {"NEW", "ASSIGNED"}
       ELSE document[DocumentOf[r.task]] = "deleted"
  /\ request[Sweeper] # Idle => request[Sweeper].op = "timeout"
  /\ \A h \in Handlers : request[h].op # "timeout"

(***************************************************************************)
(* What a step may never do                                                *)
(***************************************************************************)

\* A completed task leaves COMPLETED only through reset_task, with its document,
\* or by a commit that was overtaken.
CompletedIsStable ==
  [][\A t \in Tasks :
       task[t].state = "COMPLETED" /\ task'[t].state # "COMPLETED" =>
         \/ task'[t].state = "ABSENT"
         \/ resets' > resets
         \/ t \in overtaken']_vars

\* An attempt that ended never becomes current again, and a task passes from
\* one worker to the next only by way of having none: the queue implements
\* numbered leases.
Lease == INSTANCE TaskLease WITH
  phase   <- [t \in Tasks |->
                IF Exists(t) THEN "open"
                ELSE IF document[DocumentOf[t]] = "deleted" THEN "gone" ELSE "none"],
  granted <- [t \in Tasks |-> task[t].counter],
  holder  <- [t \in Tasks |-> task[t].current],
  closed  <- [t \in Tasks |-> {i \in 1 .. Len(attempts[t]) : attempts[t][i].ended}]

LeaseSpec == Lease!LeaseSpec

(***************************************************************************)
(* Liveness                                                                *)
(***************************************************************************)

\* Threads finish their requests, the periodic job runs every
\* min(30, worker_timeout) seconds, time passes, and the server does not crash
\* again and again.
ServerFairness ==
  /\ WF_vars(SweepSelect)
  /\ WF_vars(\E t \in Tasks : SweepRead(t))
  /\ WF_vars(SweepCommit)
  /\ \A h \in Handlers : WF_vars(CommitKeepalive(h) \/ CommitFinish(h))
  /\ <>[][Step]_vars

\* Workers ask for work, and the one that has an attempt eventually reports, or
\* stops sending keepalives.
WorkerFairness ==
  /\ \A w \in Workers : \A t \in Tasks :
       /\ WF_vars(Claim(w, t))
       /\ SF_vars(\E h \in Handlers, op \in {"completed", "failed"} : Begin(h, op, w, t))
  /\ \A t \in Tasks : WF_vars(Expire(t))

FairSpec == Spec /\ ServerFairness

\* An attempt whose worker has gone silent is taken back (or the worker turns
\* out not to be silent): no task stays with a crashed worker.
OverdueIsReclaimed ==
  \A t \in Tasks : t \in TimeoutedTasks ~> t \notin TimeoutedTasks

\* If the workers are fair, a task that can be claimed is eventually finished,
\* unless a dependency is reopened, its document is deleted or no worker for it
\* is left.
ReadyTaskFinishes ==
  WorkerFairness =>
    \A t \in Tasks :
      Ready(t) ~> \/ ~Unfinished(t)
                  \/ ~DependenciesCompleted(t)
                  \/ \A w \in active : t \notin Serves[w]

=============================================================================
