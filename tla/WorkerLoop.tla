----------------------------- MODULE WorkerLoop -----------------------------
(***************************************************************************)
(* Worker processes (worker.py, run.py) at work on the tasks that the      *)
(* backend leases to them.  The backend is what TaskLease says of it; that *)
(* TaskQueue implements TaskLease is shown there.                          *)
(*                                                                         *)
(* A process is one thread with an asyncio loop.  run_task claims a task,  *)
(* starts perform_task as an asyncio task of its own and sends keepalives  *)
(* until that is done.  Requests block the whole process, so a signal is   *)
(* seen only while run_task or run sleeps.                                 *)
(***************************************************************************)
EXTENDS TaskLease, FiniteSets

CONSTANTS
  Workers,    \* worker processes, each with a token of its own
  MaxErrors,  \* bound: how many requests of all workers fail to connect
  MaxLeases   \* bound: how often one task is handed out

ASSUME WorkersAssumption == IsFiniteSet(Workers) /\ Workers # {}

ASSUME ErrorsAssumption == MaxErrors \in Nat /\ MaxLeases \in Nat

VARIABLES
  owner,     \* the worker that the lease in force was handed to
  loop,      \* where run_task and run are
  job,       \* the task and lease of the last claim
  computing, \* the perform_task coroutines of each process: job and status
  latest,    \* the job whose coroutine wrote the last entry of _result_data
  finish,    \* finish_event
  errors,    \* how many requests failed to connect so far
  orphaned   \* history: the processes that lost the connection in a keepalive

workerVars == <<owner, loop, job, computing, latest, finish, errors, orphaned>>

vars == <<leaseVars, workerVars>>

-----------------------------------------------------------------------------
Job == [task : Tasks, lease : 1 .. MaxLeases]

NoJob == [task |-> "none", lease |-> 0]

Statuses == {"running", "cancelling", "done", "failed", "cancelled"}

WorkerTypeOK ==
  /\ LeaseTypeOK
  /\ owner \in [Tasks -> Workers \cup {"nobody"}]
  /\ loop \in [Workers -> {"idle", "running", "failing", "waiting", "exited", "died", "killed"}]
  /\ job \in [Workers -> Job \cup {NoJob}]
  /\ computing \in [Workers -> SUBSET [job : Job, status : Statuses]]
  /\ latest \in [Workers -> Job \cup {NoJob}]
  /\ finish \in [Workers -> BOOLEAN]
  /\ errors \in 0 .. MaxErrors
  /\ orphaned \subseteq Workers

Init ==
  /\ LeaseInit
  /\ owner = [t \in Tasks |-> "nobody"]
  /\ loop = [w \in Workers |-> "idle"]
  /\ job = [w \in Workers |-> NoJob]
  /\ computing = [w \in Workers |-> {}]
  /\ latest = [w \in Workers |-> NoJob]
  /\ finish = [w \in Workers |-> FALSE]
  /\ errors = 0
  /\ orphaned = {}

Computation(j, status) == [job |-> j, status |-> status]

\* The coroutine that run_task waits for is in one of the given states.
Awaited(w, statuses) ==
  \E s \in statuses : Computation(job[w], s) \in computing[w]

\* The server lets w's requests about t through.
Accepted(w, t) == phase[t] = "open" /\ holder[t] # 0 /\ owner[t] = w

Goto(w, place) == loop' = [loop EXCEPT ![w] = place]

-----------------------------------------------------------------------------
(* The service around the workers                                          *)

\* A user brings a task into being, or deletes it.
CreateTask(t) ==
  /\ Open({t})
  /\ UNCHANGED workerVars

DeleteTask(t) ==
  /\ phase[t] = "open"
  /\ Withdraw({t})
  /\ UNCHANGED workerVars

\* The backend takes a lease back: the keepalives were too slow, a claim's answer
\* got lost, or a process has died.
TakeBack(t) ==
  /\ holder[t] # 0
  /\ Release(t, holder[t])
  /\ UNCHANGED workerVars

-----------------------------------------------------------------------------
(* run and run_task                                                        *)

\* The loop condition of run.  asyncio.run cancels what is left.
Leave(w) ==
  /\ loop[w] = "idle"
  /\ finish[w]
  /\ Goto(w, "exited")
  /\ computing' = [computing EXCEPT ![w] = {}]
  /\ UNCHANGED <<leaseVars, owner, job, latest, finish, errors, orphaned>>

\* The server hands out t to w.
Lease(w, t) ==
  /\ granted[t] < MaxLeases
  /\ Grant(t)
  /\ owner' = [owner EXCEPT ![t] = w]

Mutant_NumbersLeaseTwice(t) == [task |-> t, lease |-> granted[t] + 2]

\* What w knows of t, as claim_task parses it from the answer.
AssignedTask(t) == [task |-> t, lease |-> granted[t] + 1]

\* claim_task brings a task: run_task starts perform_task.
Claim(w, t) ==
  LET j == AssignedTask(t) IN
  /\ loop[w] = "idle"
  /\ ~finish[w]
  /\ Lease(w, t)
  /\ job' = [job EXCEPT ![w] = j]
  /\ computing' = [computing EXCEPT ![w] = @ \cup {Computation(j, "running")}]
  /\ latest' = [latest EXCEPT ![w] = j]
  /\ Goto(w, "running")
  /\ UNCHANGED <<finish, errors, orphaned>>

Mutant_PollsWhenFinishing(w) ==
  /\ loop[w] = "idle"
  /\ Goto(w, "waiting")
  /\ UNCHANGED <<leaseVars, owner, job, computing, latest, finish, errors, orphaned>>

\* claim_task brings nothing: no task of the types w asks for is ready.
ClaimNothing(w) ==
  /\ loop[w] = "idle"
  /\ ~finish[w]
  /\ Goto(w, "waiting")
  /\ UNCHANGED <<leaseVars, owner, job, computing, latest, finish, errors, orphaned>>

\* A request fails with requests.exceptions.ConnectionError.
Disconnected ==
  /\ errors < MaxErrors
  /\ errors' = errors + 1

Mutant_ClaimsAhead(w) ==
  /\ loop[w] \in {"idle", "running"}
  /\ ~finish[w]
  /\ Disconnected
  /\ \/ UNCHANGED <<leaseVars, owner>>
     \/ \E t \in Tasks : Lease(w, t)
  /\ loop' = [loop EXCEPT ![w] = IF @ = "idle" THEN "waiting" ELSE @]
  /\ UNCHANGED <<job, computing, latest, finish, orphaned>>

\* The claim fails; the server may have handed out a task nevertheless.
ClaimFails(w) ==
  /\ loop[w] = "idle"
  /\ ~finish[w]
  /\ Disconnected
  /\ \/ UNCHANGED <<leaseVars, owner>>
     \/ \E t \in Tasks : Lease(w, t)
  /\ Goto(w, "waiting")
  /\ UNCHANGED <<job, computing, latest, finish, orphaned>>

Mutant_GivesUpLostLease(w) ==
  /\ loop[w] = "running"
  /\ Awaited(w, {"running", "cancelling"})
  /\ IF ~Accepted(w, job[w].task) /\ phase[job[w].task] = "open"
     THEN Goto(w, "idle") /\ UNCHANGED computing
     ELSE /\ phase[job[w].task] = "gone"
          /\ computing' = [computing EXCEPT ![w] =
                             (@ \ {Computation(job[w], "running")})
                                \cup {Computation(job[w], "cancelling")}]
          /\ UNCHANGED loop
  /\ UNCHANGED <<leaseVars, owner, job, latest, finish, errors, orphaned>>

\* keepalive got an answer.  404 cancels the coroutine; any other error is only
\* logged, also 403, when the lease is not w's any more.
Keepalive(w) ==
  /\ loop[w] = "running"
  /\ Awaited(w, {"running", "cancelling"})
  /\ phase[job[w].task] = "gone"
  /\ computing' = [computing EXCEPT ![w] =
                     (@ \ {Computation(job[w], "running")})
                        \cup {Computation(job[w], "cancelling")}]
  /\ UNCHANGED <<leaseVars, owner, loop, job, latest, finish, errors, orphaned>>

\* keepalive did not get through.  That exception it does not catch: run_task
\* gives up on the task and leaves the coroutine running.
KeepaliveFails(w) ==
  /\ loop[w] = "running"
  /\ Awaited(w, {"running", "cancelling"})
  /\ Disconnected
  /\ orphaned' = orphaned \cup {w}
  /\ Goto(w, "failing")
  /\ UNCHANGED <<leaseVars, owner, job, computing, latest, finish>>

\* A request to give the lease back, and whether it was accepted.
Report(w) ==
  LET t == job[w].task IN
  IF Accepted(w, t) THEN Release(t, holder[t]) ELSE UNCHANGED leaseVars

\* mark_completed.  If it is answered with an error or not at all, run_task
\* reports the same task as failed.
MarkCompleted(w) ==
  /\ loop[w] = "running"
  /\ Awaited(w, {"done"})
  /\ \/ /\ Report(w)
        /\ Goto(w, IF Accepted(w, job[w].task) THEN "idle" ELSE "failing")
        /\ UNCHANGED errors
     \/ /\ Disconnected
        /\ UNCHANGED leaseVars \/ Report(w)
        /\ Goto(w, "failing")
  /\ computing' = [computing EXCEPT ![w] = @ \ {Computation(job[w], "done")}]
  /\ UNCHANGED <<owner, job, latest, finish, orphaned>>

Mutant_FailsSilently(w) ==
  /\ loop[w] = "running"
  /\ Awaited(w, {"failed"})
  /\ computing' = [computing EXCEPT ![w] = @ \ {Computation(job[w], "failed")}]
  /\ Goto(w, "waiting")
  /\ UNCHANGED <<leaseVars, owner, job, latest, finish, errors, orphaned>>

\* perform_task has raised.
NoticeFailure(w) ==
  /\ loop[w] = "running"
  /\ Awaited(w, {"failed"})
  /\ computing' = [computing EXCEPT ![w] = @ \ {Computation(job[w], "failed")}]
  /\ Goto(w, "failing")
  /\ UNCHANGED <<leaseVars, owner, job, latest, finish, errors, orphaned>>

\* perform_task was cancelled: CancelledError is not an Exception, so neither
\* run_task nor run catches it, and the process ends.
NoticeCancellation(w) ==
  /\ loop[w] = "running"
  /\ Awaited(w, {"cancelled"})
  /\ computing' = [computing EXCEPT ![w] = {}]
  /\ Goto(w, "died")
  /\ UNCHANGED <<leaseVars, owner, job, latest, finish, errors, orphaned>>

\* mark_failed; an error takes run to its next attempt, after a pause.
MarkFailed(w) ==
  /\ loop[w] = "failing"
  /\ \/ /\ Report(w)
        /\ Goto(w, IF Accepted(w, job[w].task) THEN "idle" ELSE "waiting")
        /\ UNCHANGED errors
     \/ /\ Disconnected
        /\ UNCHANGED leaseVars \/ Report(w)
        /\ Goto(w, "waiting")
  /\ UNCHANGED <<owner, job, computing, latest, finish, orphaned>>

\* wait_for_event ends.
Wake(w) ==
  /\ loop[w] = "waiting"
  /\ Goto(w, "idle")
  /\ UNCHANGED <<leaseVars, owner, job, computing, latest, finish, errors, orphaned>>

\* SIGTERM sets finish_event, SIGUSR1 clears it.
Signal(w) ==
  /\ loop[w] \in {"running", "waiting"}
  /\ finish' = [finish EXCEPT ![w] = ~@]
  /\ UNCHANGED <<leaseVars, owner, loop, job, computing, latest, errors, orphaned>>

-----------------------------------------------------------------------------
(* perform_task, also when run_task does not wait for it any more          *)

\* It reports progress into the list that belongs to the process.
Progress(w) ==
  /\ \E j \in Job : /\ Computation(j, "running") \in computing[w]
                    /\ latest' = [latest EXCEPT ![w] = j]
  /\ UNCHANGED <<leaseVars, owner, loop, job, computing, finish, errors, orphaned>>

\* How a coroutine may end, and when it was cancelled.
Ends(status) ==
  CASE status = "running"    -> {"done", "failed"}
    [] status = "cancelling" -> {"cancelled"}
    [] OTHER                 -> {}

\* It returns or raises, while the process sleeps.  The result of one that
\* run_task does not wait for is dropped.
EndOfTask(w) ==
  /\ loop[w] \in {"running", "waiting"}
  /\ \E c \in computing[w] : \E s \in Ends(c.status) :
       computing' = [computing EXCEPT ![w] =
         (@ \ {c}) \cup {d \in {Computation(c.job, s)} :
                           loop[w] = "running" /\ c.job = job[w]}]
  /\ UNCHANGED <<leaseVars, owner, loop, job, latest, finish, errors, orphaned>>

-----------------------------------------------------------------------------
(* Processes                                                               *)

\* The process is killed, or the machine fails.
Kill(w) ==
  /\ loop[w] \notin {"exited", "died", "killed"}
  /\ Disconnected
  /\ Goto(w, "killed")
  /\ computing' = [computing EXCEPT ![w] = {}]
  /\ UNCHANGED <<leaseVars, owner, job, latest, finish, orphaned>>

\* Whoever runs the process starts it again.
Start(w) ==
  /\ loop[w] \in {"exited", "died", "killed"}
  /\ Goto(w, "idle")
  /\ job' = [job EXCEPT ![w] = NoJob]
  /\ latest' = [latest EXCEPT ![w] = NoJob]
  /\ finish' = [finish EXCEPT ![w] = FALSE]
  /\ orphaned' = orphaned \ {w}
  /\ UNCHANGED <<leaseVars, owner, computing, errors>>

Next ==
  \/ \E t \in Tasks : CreateTask(t) \/ DeleteTask(t) \/ TakeBack(t)
  \/ \E w \in Workers :
       \/ Leave(w) \/ ClaimNothing(w) \/ ClaimFails(w)
       \/ \E t \in Tasks : Claim(w, t)
       \/ Keepalive(w) \/ KeepaliveFails(w)
       \/ MarkCompleted(w) \/ MarkFailed(w)
       \/ NoticeFailure(w) \/ NoticeCancellation(w)
       \/ Wake(w) \/ Signal(w) \/ Progress(w) \/ EndOfTask(w)
       \/ Kill(w) \/ Start(w)

Spec == Init /\ [][Next]_vars

\* The process goes on as long as it lives, and perform_task ends.  Nothing is
\* assumed of the backend but that it answers.
Fairness ==
  \A w \in Workers :
    /\ WF_vars(Leave(w)) /\ WF_vars(Wake(w))
    /\ WF_vars(Keepalive(w)) /\ WF_vars(EndOfTask(w))
    /\ WF_vars(MarkCompleted(w)) /\ WF_vars(MarkFailed(w))
    /\ WF_vars(NoticeFailure(w)) /\ WF_vars(NoticeCancellation(w))

FairSpec == Spec /\ Fairness

(***************************************************************************)
(* Safety                                                                  *)
(***************************************************************************)

\* The backend authorises reports by worker and task only, not by attempt.
\* Still the lease that a report of w would end is the one w was working under:
\* never a later one of the same worker, of which it knows nothing.
ReportsOwnLease ==
  \A w \in Workers :
    loop[w] \in {"running", "failing"} /\ Accepted(w, job[w].task)
      => holder[job[w].task] = job[w].lease

\* A process that has not lost the connection in the middle of a task runs one
\* coroutine at a time, and sends only its own progress with keepalives.
OneAtATime ==
  \A w \in Workers : w \notin orphaned =>
    /\ Cardinality(computing[w]) <= 1
    /\ \A c \in computing[w] : c.job = job[w]
    /\ latest[w] = job[w]

\* worker.py: "The Task does not exist anymore and we should abort the task".
\* The task, not the worker: a process ends when it is asked to or killed.
ProcessSurvives == \A w \in Workers : loop[w] # "died"

(***************************************************************************)
(* Liveness                                                                *)
(***************************************************************************)

\* Unless requests fail to connect or processes are killed, a worker that has a
\* task gives the lease back, or learns that it is not its lease any more.
LeasesEnd ==
  \A w \in Workers : \A t \in Tasks : \A n \in 1 .. MaxLeases :
    loop[w] = "running" /\ job[w] = [task |-> t, lease |-> n]
      ~> holder[t] # n \/ errors > 0

\* A process that was asked to finish ends, unless it is asked to go on.
FinishesGracefully ==
  \A w \in Workers :
    finish[w] ~> loop[w] \in {"exited", "died", "killed"} \/ ~finish[w]

=============================================================================
