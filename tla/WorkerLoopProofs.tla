--------------------------- MODULE WorkerLoopProofs ---------------------------
(***************************************************************************)
(* Machine-checked proofs about WorkerLoop, for every set of worker          *)
(* processes and tasks and any number of leases and failing requests.        *)
(***************************************************************************)
EXTENDS WorkerLoop, FiniteSetTheorems, TLAPS

-----------------------------------------------------------------------------
(* Types                                                                   *)

\* The types, and that no lease is in force that was not handed out.
WorkerTypes ==
  /\ WorkerTypeOK
  /\ \A t \in Tasks : granted[t] \in 0 .. MaxLeases

LEMMA InitWorkerTypes == Init => WorkerTypes
  BY WorkersAssumption, ErrorsAssumption
     DEF Init, LeaseInit, WorkerTypes, WorkerTypeOK, LeaseTypeOK, Job, NoJob

LEMMA LeaseTypes ==
  ASSUME WorkerTypes, NEW w \in Workers, NEW t \in Tasks, Lease(w, t)
  PROVE  /\ LeaseTypeOK'
         /\ owner' \in [Tasks -> Workers \cup {"nobody"}]
         /\ \A u \in Tasks : granted'[u] \in 0 .. MaxLeases
         /\ AssignedTask(t) \in Job
  BY ErrorsAssumption
     DEF WorkerTypes, WorkerTypeOK, LeaseTypeOK, Lease, Grant, AssignedTask, Job

LEMMA ReleaseTypes ==
  ASSUME WorkerTypes, NEW t \in Tasks, NEW n \in Nat, Release(t, n)
  PROVE  LeaseTypeOK' /\ granted' = granted
  BY DEF WorkerTypes, WorkerTypeOK, LeaseTypeOK, Release

LEMMA ReportTypes ==
  ASSUME WorkerTypes, NEW w \in Workers, job[w] \in Job, Report(w) \/ UNCHANGED leaseVars
  PROVE  LeaseTypeOK' /\ granted' = granted
  <1> DEFINE t == job[w].task
  <1>1. t \in Tasks /\ holder[t] \in Nat
    BY DEF Job, WorkerTypes, WorkerTypeOK, LeaseTypeOK
  <1>2. CASE UNCHANGED leaseVars
    BY <1>2 DEF leaseVars, LeaseTypeOK, WorkerTypes, WorkerTypeOK
  <1>3. CASE Report(w)
    <2>1. Release(t, holder[t]) \/ UNCHANGED leaseVars
      BY <1>3 DEF Report
    <2> QED BY <1>1, <1>2, <2>1, ReleaseTypes
  <1> QED BY <1>2, <1>3

\* In the middle of a task a process knows which one it is.
LEMMA JobKnown ==
  ASSUME WorkerTypes, NEW w \in Workers, NEW S, Awaited(w, S)
  PROVE  job[w] \in Job
  <1>1. PICK s \in S : Computation(job[w], s) \in computing[w]
    BY DEF Awaited
  <1>2. computing[w] \subseteq [job : Job, status : Statuses]
    BY DEF WorkerTypes, WorkerTypeOK
  <1>3. Computation(job[w], s).job \in Job
    BY <1>1, <1>2
  <1> QED BY <1>3 DEF Computation

-----------------------------------------------------------------------------
(* The inductive invariant                                                 *)

\* A report is about a task that was claimed.
HasJob == \A w \in Workers : loop[w] \in {"running", "failing"} => job[w] \in Job

\* Only tasks that exist are held.
HeldExists == \A t \in Tasks : holder[t] # 0 => phase[t] = "open"

\* What a process is computing: nothing once it has ended, and nothing but the
\* task it waits for unless it has lost the connection.
OneJobEach ==
  \A w \in Workers :
    /\ loop[w] \in {"exited", "died", "killed"} => computing[w] = {}
    /\ w \notin orphaned =>
         /\ latest[w] = job[w]
         /\ loop[w] # "running" => computing[w] = {}
         /\ \E s \in Statuses : computing[w] \subseteq {Computation(job[w], s)}

WorkerInv == WorkerTypes /\ HasJob /\ HeldExists /\ ReportsOwnLease /\ OneJobEach

LEMMA InitWorkerInv == Init => WorkerInv
  <1> SUFFICES ASSUME Init PROVE WorkerInv
    OBVIOUS
  <1>1. WorkerTypes
    BY InitWorkerTypes
  <1>2. HasJob /\ HeldExists /\ ReportsOwnLease
    BY DEF Init, LeaseInit, HasJob, HeldExists, ReportsOwnLease
  <1>3. OneJobEach
    BY DEF Init, OneJobEach, Statuses
  <1> QED BY <1>1, <1>2, <1>3 DEF WorkerInv

-----------------------------------------------------------------------------
(* Leases                                                                  *)

\* The leases are those of before, or fewer.
NoNewLease ==
  /\ owner' = owner
  /\ \A t \in Tasks : holder'[t] # 0 => /\ holder'[t] = holder[t]
                                        /\ phase'[t] = phase[t]

\* A worker that may report may have done so before, about the same task.
SameJobs ==
  \A w \in Workers : loop'[w] \in {"running", "failing"} =>
    loop[w] \in {"running", "failing"} /\ job'[w] = job[w]

LEMMA SameReports ==
  ASSUME WorkerInv, NoNewLease, SameJobs
  PROVE  HasJob' /\ HeldExists' /\ ReportsOwnLease'
  <1>1. HasJob'
    BY DEF WorkerInv, HasJob, SameJobs
  <1>2. HeldExists'
    BY DEF WorkerInv, HeldExists, NoNewLease
  <1>3. ASSUME NEW w \in Workers, loop'[w] \in {"running", "failing"},
               Accepted(w, job[w].task)'
        PROVE  holder'[job'[w].task] = job'[w].lease
    <2>1. job'[w] = job[w] /\ job[w].task \in Tasks /\ loop[w] \in {"running", "failing"}
      BY <1>3 DEF SameJobs, WorkerInv, HasJob, Job
    <2>2. Accepted(w, job[w].task) /\ holder'[job[w].task] = holder[job[w].task]
      BY <1>3, <2>1 DEF Accepted, NoNewLease
    <2> QED BY <2>1, <2>2 DEF WorkerInv, ReportsOwnLease
  <1> QED BY <1>1, <1>2, <1>3 DEF ReportsOwnLease

LEMMA LeasesUnchanged ==
  ASSUME UNCHANGED leaseVars, owner' = owner
  PROVE  NoNewLease
  BY DEF leaseVars, NoNewLease

LEMMA ReportLeases ==
  ASSUME WorkerTypes, NEW w \in Workers, Report(w) \/ UNCHANGED leaseVars, owner' = owner
  PROVE  NoNewLease
  BY LeasesUnchanged
     DEF Report, Release, NoNewLease, WorkerTypes, WorkerTypeOK, LeaseTypeOK

\* A task that is handed out is the only one with a new lease, and only the
\* worker it is handed out to may report about it.
LEMMA LeaseLeases ==
  ASSUME WorkerTypes, NEW w \in Workers, NEW t \in Tasks, Lease(w, t)
  PROVE  /\ \A u \in Tasks \ {t} : /\ holder'[u] = holder[u]
                                   /\ phase'[u] = phase[u]
                                   /\ owner'[u] = owner[u]
         /\ holder'[t] = granted[t] + 1
         /\ phase'[t] = "open"
         /\ owner'[t] = w
  BY DEF Lease, Grant, WorkerTypes, WorkerTypeOK, LeaseTypeOK

-----------------------------------------------------------------------------
(* The service around the workers                                          *)

LEMMA ServiceStep ==
  ASSUME WorkerInv, NEW t \in Tasks, CreateTask(t) \/ DeleteTask(t) \/ TakeBack(t)
  PROVE  WorkerInv'
  <1>1. UNCHANGED workerVars
    BY DEF CreateTask, DeleteTask, TakeBack
  <1>2. LeaseTypeOK' /\ \A u \in Tasks : granted'[u] \in 0 .. MaxLeases
    <2>1. CASE CreateTask(t)
      BY <2>1 DEF CreateTask, Open, WorkerInv, WorkerTypes, WorkerTypeOK, LeaseTypeOK
    <2>2. CASE DeleteTask(t)
      BY <2>2, ErrorsAssumption
         DEF DeleteTask, Withdraw, WorkerInv, WorkerTypes, WorkerTypeOK, LeaseTypeOK
    <2>3. CASE TakeBack(t)
      BY <2>3, ReleaseTypes DEF TakeBack, WorkerInv, WorkerTypes, WorkerTypeOK, LeaseTypeOK
    <2> QED BY <2>1, <2>2, <2>3
  <1>3. WorkerTypes'
    BY <1>1, <1>2 DEF WorkerInv, WorkerTypes, WorkerTypeOK, workerVars
  <1>4. NoNewLease
    BY <1>1 DEF CreateTask, DeleteTask, TakeBack, Open, Withdraw, Release, NoNewLease,
                WorkerInv, WorkerTypes, WorkerTypeOK, LeaseTypeOK, HeldExists, workerVars
  <1>5. SameJobs /\ OneJobEach'
    BY <1>1 DEF SameJobs, OneJobEach, WorkerInv, workerVars
  <1> QED BY <1>3, <1>4, <1>5, SameReports DEF WorkerInv

-----------------------------------------------------------------------------
(* run and run_task                                                        *)

\* Steps that hand out nothing.
LEMMA ReportTypesKept ==
  ASSUME WorkerInv, NEW w \in Workers, job[w] \in Job, Report(w) \/ UNCHANGED leaseVars,
         owner' = owner
  PROVE  LeaseTypeOK' /\ granted' = granted /\ NoNewLease
  BY ReportTypes, ReportLeases DEF WorkerInv

LEMMA QuietTypesKept ==
  ASSUME WorkerInv, UNCHANGED leaseVars, owner' = owner
  PROVE  LeaseTypeOK' /\ granted' = granted /\ NoNewLease
  BY LeasesUnchanged DEF WorkerInv, WorkerTypes, WorkerTypeOK, LeaseTypeOK, leaseVars

\* The part of a step that is about one process.
LocalTypes ==
  /\ loop' \in [Workers -> {"idle", "running", "failing", "waiting", "exited", "died", "killed"}]
  /\ job' \in [Workers -> Job \cup {NoJob}]
  /\ computing' \in [Workers -> SUBSET [job : Job, status : Statuses]]
  /\ latest' \in [Workers -> Job \cup {NoJob}]
  /\ finish' \in [Workers -> BOOLEAN]
  /\ errors' \in 0 .. MaxErrors
  /\ orphaned' \subseteq Workers

LEMMA LocalStep ==
  ASSUME WorkerInv, LeaseTypeOK', granted' = granted, NoNewLease,
         LocalTypes, SameJobs, OneJobEach'
  PROVE  WorkerInv'
  <1>1. WorkerTypes'
    BY DEF WorkerInv, WorkerTypes, WorkerTypeOK, LocalTypes, NoNewLease
  <1> QED BY <1>1, SameReports DEF WorkerInv

\* Steps that end nothing but a pause, and the end of the process.
LEMMA PauseStep ==
  ASSUME WorkerInv, NEW w \in Workers,
         Leave(w) \/ ClaimNothing(w) \/ Wake(w) \/ Signal(w) \/ Kill(w) \/ Start(w)
  PROVE  WorkerInv'
  <1>1. LeaseTypeOK' /\ granted' = granted /\ NoNewLease
    BY QuietTypesKept DEF Leave, ClaimNothing, Wake, Signal, Kill, Start
  <1>2. LocalTypes
    <2> USE DEF LocalTypes, Goto, WorkerInv, WorkerTypes, WorkerTypeOK
    <2>1. CASE Leave(w)
      BY <2>1 DEF Leave
    <2>2. CASE ClaimNothing(w) \/ Wake(w)
      BY <2>2 DEF ClaimNothing, Wake
    <2>3. CASE Signal(w)
      BY <2>3 DEF Signal
    <2>4. CASE Kill(w)
      BY <2>4, ErrorsAssumption DEF Kill, Disconnected
    <2>5. CASE Start(w)
      BY <2>5 DEF Start
    <2> QED BY <2>1, <2>2, <2>3, <2>4, <2>5
  <1>3. SameJobs
    BY DEF Leave, ClaimNothing, Wake, Signal, Kill, Start, Goto, SameJobs,
           WorkerInv, WorkerTypes, WorkerTypeOK
  <1>4. OneJobEach'
    BY DEF Leave, ClaimNothing, Wake, Signal, Kill, Start, Goto, OneJobEach, Statuses,
           WorkerInv, WorkerTypes, WorkerTypeOK
  <1> QED BY <1>1, <1>2, <1>3, <1>4, LocalStep

LEMMA ReportStep ==
  ASSUME WorkerInv, NEW w \in Workers, MarkCompleted(w) \/ MarkFailed(w)
  PROVE  WorkerInv'
  <1>1. job[w] \in Job
    BY DEF WorkerInv, HasJob, MarkCompleted, MarkFailed
  <1>2. LeaseTypeOK' /\ granted' = granted /\ NoNewLease
    BY <1>1, ReportTypesKept DEF MarkCompleted, MarkFailed
  <1>3. LocalTypes
    BY ErrorsAssumption
       DEF MarkCompleted, MarkFailed, Goto, Disconnected, LocalTypes,
           WorkerInv, WorkerTypes, WorkerTypeOK
  <1>4. SameJobs
    BY DEF MarkCompleted, MarkFailed, Goto, SameJobs, WorkerInv, WorkerTypes, WorkerTypeOK
  <1>5. OneJobEach'
    <2>1. CASE MarkCompleted(w)
      <3>1. Computation(job[w], "done") \in computing[w]
        BY <2>1 DEF MarkCompleted, Awaited
      <3>2. w \notin orphaned => computing'[w] = {}
        BY <2>1, <3>1 DEF MarkCompleted, OneJobEach, WorkerInv, WorkerTypes, WorkerTypeOK
      <3>3. loop'[w] \in {"idle", "failing"}
        BY <2>1 DEF MarkCompleted, Goto, WorkerInv, WorkerTypes, WorkerTypeOK
      <3>4. \A v \in Workers \ {w} : computing'[v] = computing[v] /\ loop'[v] = loop[v]
        BY <2>1 DEF MarkCompleted, Goto, WorkerInv, WorkerTypes, WorkerTypeOK
      <3>5. UNCHANGED <<job, latest, orphaned>>
        BY <2>1 DEF MarkCompleted
      <3> QED BY <3>2, <3>3, <3>4, <3>5 DEF OneJobEach, WorkerInv, Statuses
    <2>2. CASE MarkFailed(w)
      BY <2>2 DEF MarkFailed, Goto, OneJobEach, WorkerInv, WorkerTypes, WorkerTypeOK
    <2> QED BY <2>1, <2>2
  <1> QED BY <1>2, <1>3, <1>4, <1>5, LocalStep

\* Steps of run_task while it waits, and of perform_task.
LEMMA KeepaliveStep ==
  ASSUME WorkerInv, NEW w \in Workers, Keepalive(w) \/ KeepaliveFails(w)
  PROVE  WorkerInv'
  <1>1. LeaseTypeOK' /\ granted' = granted /\ NoNewLease
    BY QuietTypesKept DEF Keepalive, KeepaliveFails
  <1>2. job[w] \in Job
    BY DEF WorkerInv, HasJob, Keepalive, KeepaliveFails
  <1>3. LocalTypes
    BY <1>2, ErrorsAssumption
       DEF Keepalive, KeepaliveFails, Goto, Disconnected, LocalTypes, Computation, Statuses,
           WorkerInv, WorkerTypes, WorkerTypeOK
  <1>4. SameJobs
    BY DEF Keepalive, KeepaliveFails, Goto, SameJobs, WorkerInv, WorkerTypes, WorkerTypeOK
  <1>5. OneJobEach'
    <2>1. CASE Keepalive(w)
      <3>1. PICK s \in {"running", "cancelling"} : Computation(job[w], s) \in computing[w]
        BY <2>1 DEF Keepalive, Awaited
      <3>2. w \notin orphaned => computing[w] = {Computation(job[w], s)}
        BY <3>1 DEF OneJobEach, WorkerInv
      <3>3. w \notin orphaned => computing'[w] \subseteq {Computation(job[w], "cancelling")}
        BY <2>1, <3>2 DEF Keepalive, WorkerInv, WorkerTypes, WorkerTypeOK
      <3>4. \A v \in Workers \ {w} : computing'[v] = computing[v]
        BY <2>1 DEF Keepalive, WorkerInv, WorkerTypes, WorkerTypeOK
      <3>5. UNCHANGED <<loop, job, latest, orphaned>> /\ loop[w] = "running"
        BY <2>1 DEF Keepalive
      <3> QED BY <3>3, <3>4, <3>5 DEF OneJobEach, WorkerInv, Statuses
    <2>2. CASE KeepaliveFails(w)
      BY <2>2 DEF KeepaliveFails, Goto, OneJobEach, WorkerInv, WorkerTypes, WorkerTypeOK
    <2> QED BY <2>1, <2>2
  <1> QED BY <1>1, <1>3, <1>4, <1>5, LocalStep

LEMMA NoticeStep ==
  ASSUME WorkerInv, NEW w \in Workers, NoticeFailure(w) \/ NoticeCancellation(w)
  PROVE  WorkerInv'
  <1>1. LeaseTypeOK' /\ granted' = granted /\ NoNewLease
    BY QuietTypesKept DEF NoticeFailure, NoticeCancellation
  <1>2. LocalTypes /\ SameJobs
    BY DEF NoticeFailure, NoticeCancellation, Goto, LocalTypes, SameJobs,
           WorkerInv, WorkerTypes, WorkerTypeOK
  <1>3. OneJobEach'
    <2>1. CASE NoticeFailure(w)
      <3>1. Computation(job[w], "failed") \in computing[w]
        BY <2>1 DEF NoticeFailure, Awaited
      <3>2. w \notin orphaned => computing'[w] = {}
        BY <2>1, <3>1 DEF NoticeFailure, OneJobEach, WorkerInv, WorkerTypes, WorkerTypeOK
      <3>3. loop'[w] = "failing"
        BY <2>1 DEF NoticeFailure, Goto, WorkerInv, WorkerTypes, WorkerTypeOK
      <3>4. \A v \in Workers \ {w} : computing'[v] = computing[v] /\ loop'[v] = loop[v]
        BY <2>1 DEF NoticeFailure, Goto, WorkerInv, WorkerTypes, WorkerTypeOK
      <3>5. UNCHANGED <<job, latest, orphaned>>
        BY <2>1 DEF NoticeFailure
      <3> QED BY <3>2, <3>3, <3>4, <3>5 DEF OneJobEach, WorkerInv, Statuses
    <2>2. CASE NoticeCancellation(w)
      BY <2>2 DEF NoticeCancellation, Goto, OneJobEach, Statuses,
                  WorkerInv, WorkerTypes, WorkerTypeOK
    <2> QED BY <2>1, <2>2
  <1> QED BY <1>1, <1>2, <1>3, LocalStep

-----------------------------------------------------------------------------
(* perform_task                                                            *)

LEMMA ProgressStep ==
  ASSUME WorkerInv, NEW w \in Workers, Progress(w)
  PROVE  WorkerInv'
  <1>1. LeaseTypeOK' /\ granted' = granted /\ NoNewLease
    BY QuietTypesKept DEF Progress
  <1>2. PICK j \in Job : /\ Computation(j, "running") \in computing[w]
                         /\ latest' = [latest EXCEPT ![w] = j]
    BY DEF Progress
  <1>3. LocalTypes /\ SameJobs
    BY <1>2 DEF Progress, LocalTypes, SameJobs, WorkerInv, WorkerTypes, WorkerTypeOK
  <1>4. w \notin orphaned => j = job[w]
    BY <1>2 DEF OneJobEach, WorkerInv, Computation
  <1>5. OneJobEach'
    BY <1>2, <1>4 DEF Progress, OneJobEach, WorkerInv, WorkerTypes, WorkerTypeOK
  <1> QED BY <1>1, <1>3, <1>5, LocalStep

LEMMA EndOfTaskStep ==
  ASSUME WorkerInv, NEW w \in Workers, EndOfTask(w)
  PROVE  WorkerInv'
  <1>1. LeaseTypeOK' /\ granted' = granted /\ NoNewLease
    BY QuietTypesKept DEF EndOfTask
  <1>2. PICK c \in computing[w] : \E s \in Ends(c.status) :
          computing' = [computing EXCEPT ![w] =
            (@ \ {c}) \cup {d \in {Computation(c.job, s)} :
                              loop[w] = "running" /\ c.job = job[w]}]
    BY DEF EndOfTask
  <1>3. PICK s \in Ends(c.status) :
          computing' = [computing EXCEPT ![w] =
            (@ \ {c}) \cup {d \in {Computation(c.job, s)} :
                              loop[w] = "running" /\ c.job = job[w]}]
    BY <1>2
  <1>4. c.job \in Job /\ c.status \in Statuses
    BY DEF WorkerInv, WorkerTypes, WorkerTypeOK
  <1>5. s \in Statuses
    BY <1>4 DEF Ends, Statuses
  <1>6. Computation(c.job, s) \in [job : Job, status : Statuses]
    BY <1>4, <1>5 DEF Computation
  <1>7. LocalTypes /\ SameJobs
    BY <1>3, <1>6 DEF EndOfTask, LocalTypes, SameJobs, WorkerInv, WorkerTypes, WorkerTypeOK
  <1>8. w \notin orphaned => computing'[w] \subseteq {Computation(job[w], s)}
    <2> SUFFICES ASSUME w \notin orphaned PROVE computing'[w] \subseteq {Computation(job[w], s)}
      OBVIOUS
    <2>1. computing[w] = {c}
      BY DEF OneJobEach, WorkerInv
    <2> QED BY <1>3, <2>1 DEF WorkerInv, WorkerTypes, WorkerTypeOK
  <1>9. w \notin orphaned => loop[w] = "running"
    BY DEF OneJobEach, WorkerInv
  <1>10. UNCHANGED <<loop, job, latest, orphaned>> /\ loop[w] \in {"running", "waiting"}
    BY DEF EndOfTask
  <1>11. \A v \in Workers \ {w} : computing'[v] = computing[v]
    BY <1>3 DEF WorkerInv, WorkerTypes, WorkerTypeOK
  <1>12. OneJobEach'
    BY <1>5, <1>8, <1>9, <1>10, <1>11 DEF OneJobEach, WorkerInv
  <1> QED BY <1>1, <1>7, <1>12, LocalStep

-----------------------------------------------------------------------------
(* Claims                                                                  *)

LEMMA ClaimStep ==
  ASSUME WorkerInv, NEW w \in Workers, NEW t \in Tasks, Claim(w, t)
  PROVE  WorkerInv'
  <1> DEFINE j == AssignedTask(t)
  <1>1. Lease(w, t) /\ loop[w] = "idle"
    BY DEF Claim
  <1>2. /\ LeaseTypeOK' /\ owner' \in [Tasks -> Workers \cup {"nobody"}] /\ j \in Job
        /\ \A u \in Tasks : granted'[u] \in 0 .. MaxLeases
    BY <1>1, LeaseTypes DEF WorkerInv
  <1>3. /\ job' = [job EXCEPT ![w] = j]
        /\ computing' = [computing EXCEPT ![w] = @ \cup {Computation(j, "running")}]
        /\ latest' = [latest EXCEPT ![w] = j]
        /\ loop' = [loop EXCEPT ![w] = "running"]
        /\ UNCHANGED <<finish, errors, orphaned>>
    BY DEF Claim, Goto
  <1>4. Computation(j, "running") \in [job : Job, status : Statuses]
    BY <1>2 DEF Computation, Statuses
  <1> HIDE DEF j
  <1>5. WorkerTypes'
    BY <1>2, <1>3, <1>4 DEF WorkerInv, WorkerTypes, WorkerTypeOK
  <1>6. /\ job'[w] = j /\ latest'[w] = j /\ loop'[w] = "running"
        /\ computing'[w] = computing[w] \cup {Computation(j, "running")}
        /\ \A v \in Workers \ {w} : /\ job'[v] = job[v] /\ latest'[v] = latest[v]
                                    /\ loop'[v] = loop[v] /\ computing'[v] = computing[v]
    BY <1>3 DEF WorkerInv, WorkerTypes, WorkerTypeOK
  <1>7. HasJob'
    BY <1>2, <1>6 DEF HasJob, WorkerInv
  <1>8. /\ \A u \in Tasks \ {t} : /\ holder'[u] = holder[u]
                                  /\ phase'[u] = phase[u]
                                  /\ owner'[u] = owner[u]
        /\ holder'[t] = granted[t] + 1 /\ phase'[t] = "open" /\ owner'[t] = w
    BY <1>1, LeaseLeases DEF WorkerInv
  <1>9. HeldExists'
    BY <1>8 DEF HeldExists, WorkerInv
  <1>10. j.task = t /\ j.lease = granted[t] + 1
    BY DEF j, AssignedTask
  <1>11. ReportsOwnLease'
    <2> SUFFICES ASSUME NEW v \in Workers, loop'[v] \in {"running", "failing"},
                        Accepted(v, job[v].task)'
                 PROVE  holder'[job'[v].task] = job'[v].lease
      BY DEF ReportsOwnLease
    <2>1. CASE v = w
      BY <2>1, <1>6, <1>8, <1>10
    <2>2. CASE v # w
      <3>1. job'[v] = job[v] /\ loop'[v] = loop[v] /\ job[v].task \in Tasks
        BY <2>2, <1>6 DEF HasJob, WorkerInv, Job
      <3>2. job[v].task # t
        BY <2>2, <3>1, <1>8 DEF Accepted
      <3>3. Accepted(v, job[v].task) /\ holder'[job[v].task] = holder[job[v].task]
        BY <3>1, <3>2, <1>8 DEF Accepted
      <3> QED BY <3>1, <3>3 DEF ReportsOwnLease, WorkerInv
    <2> QED BY <2>1, <2>2
  <1>12. w \notin orphaned => computing'[w] = {Computation(j, "running")}
    BY <1>1, <1>6 DEF OneJobEach, WorkerInv
  <1>13. OneJobEach'
    BY <1>3, <1>6, <1>12 DEF OneJobEach, WorkerInv, Statuses
  <1> QED BY <1>5, <1>7, <1>9, <1>11, <1>13 DEF WorkerInv

\* The worker does not learn of the task that it was given.
LEMMA ClaimFailsStep ==
  ASSUME WorkerInv, NEW w \in Workers, ClaimFails(w)
  PROVE  WorkerInv'
  <1>1. /\ loop[w] = "idle"
        /\ loop' = [loop EXCEPT ![w] = "waiting"]
        /\ Disconnected
        /\ UNCHANGED <<job, computing, latest, finish, orphaned>>
    BY DEF ClaimFails, Goto
  <1>2. LocalTypes /\ SameJobs
    BY <1>1, ErrorsAssumption
       DEF Disconnected, LocalTypes, SameJobs, WorkerInv, WorkerTypes, WorkerTypeOK
  <1>3. OneJobEach'
    BY <1>1 DEF OneJobEach, WorkerInv, WorkerTypes, WorkerTypeOK
  <1>4. CASE UNCHANGED <<leaseVars, owner>>
    <2>1. LeaseTypeOK' /\ granted' = granted /\ NoNewLease
      BY <1>4, QuietTypesKept
    <2> QED BY <2>1, <1>2, <1>3, LocalStep
  <1>5. CASE \E t \in Tasks : Lease(w, t)
    <2>1. PICK t \in Tasks : Lease(w, t)
      BY <1>5
    <2>2. /\ LeaseTypeOK' /\ owner' \in [Tasks -> Workers \cup {"nobody"}]
          /\ \A u \in Tasks : granted'[u] \in 0 .. MaxLeases
      BY <2>1, LeaseTypes DEF WorkerInv
    <2>3. WorkerTypes'
      BY <2>2, <1>2 DEF WorkerTypes, WorkerTypeOK, LocalTypes
    <2>4. HasJob'
      BY <1>2 DEF HasJob, SameJobs, WorkerInv
    <2>5. /\ \A u \in Tasks \ {t} : /\ holder'[u] = holder[u]
                                    /\ phase'[u] = phase[u]
                                    /\ owner'[u] = owner[u]
          /\ holder'[t] = granted[t] + 1 /\ phase'[t] = "open" /\ owner'[t] = w
      BY <2>1, LeaseLeases DEF WorkerInv
    <2>6. HeldExists'
      BY <2>5 DEF HeldExists, WorkerInv
    <2>7. ReportsOwnLease'
      <3> SUFFICES ASSUME NEW v \in Workers, loop'[v] \in {"running", "failing"},
                          Accepted(v, job[v].task)'
                   PROVE  holder'[job'[v].task] = job'[v].lease
        BY DEF ReportsOwnLease
      <3>1. v # w
        BY <1>1 DEF WorkerInv, WorkerTypes, WorkerTypeOK
      <3>2. job'[v] = job[v] /\ loop[v] \in {"running", "failing"} /\ job[v].task \in Tasks
        BY <1>2 DEF SameJobs, HasJob, WorkerInv, Job
      <3>3. job[v].task # t
        BY <3>1, <3>2, <2>5 DEF Accepted
      <3>4. Accepted(v, job[v].task) /\ holder'[job[v].task] = holder[job[v].task]
        BY <3>2, <3>3, <2>5 DEF Accepted
      <3> QED BY <3>2, <3>4 DEF ReportsOwnLease, WorkerInv
    <2> QED BY <2>3, <2>4, <2>6, <2>7, <1>3 DEF WorkerInv
  <1> QED BY <1>4, <1>5 DEF ClaimFails

-----------------------------------------------------------------------------
(* The theorems                                                            *)

LEMMA WorkerStep == WorkerInv /\ [Next]_vars => WorkerInv'
  <1> SUFFICES ASSUME WorkerInv, [Next]_vars PROVE WorkerInv'
    OBVIOUS
  <1>1. CASE UNCHANGED vars
    BY <1>1 DEF vars, workerVars, leaseVars, WorkerInv, WorkerTypes, WorkerTypeOK,
                LeaseTypeOK, HasJob, HeldExists, ReportsOwnLease, Accepted, OneJobEach
  <1>2. CASE \E t \in Tasks : CreateTask(t) \/ DeleteTask(t) \/ TakeBack(t)
    BY <1>2, ServiceStep
  <1>3. CASE \E w \in Workers : \E t \in Tasks : Claim(w, t)
    BY <1>3, ClaimStep
  <1>4. CASE \E w \in Workers : ClaimFails(w)
    BY <1>4, ClaimFailsStep
  <1>5. CASE \E w \in Workers : \/ Leave(w) \/ ClaimNothing(w) \/ Wake(w)
                                \/ Signal(w) \/ Kill(w) \/ Start(w)
    BY <1>5, PauseStep
  <1>6. CASE \E w \in Workers : \/ MarkCompleted(w) \/ MarkFailed(w)
                                \/ Keepalive(w) \/ KeepaliveFails(w)
                                \/ NoticeFailure(w) \/ NoticeCancellation(w)
                                \/ Progress(w) \/ EndOfTask(w)
    BY <1>6, ReportStep, KeepaliveStep, NoticeStep, ProgressStep, EndOfTaskStep
  <1> QED BY <1>1, <1>2, <1>3, <1>4, <1>5, <1>6 DEF Next

\* The inductive invariant of the worker processes.
THEOREM WorkerInvCorrect == Spec => []WorkerInv
  BY InitWorkerInv, WorkerStep, PTL DEF Spec

\* Every reachable state of the workers is well-typed, whichever requests fail
\* and whichever processes are killed.
THEOREM WorkerTypeCorrect == Spec => []WorkerTypeOK
  <1>1. WorkerInv => WorkerTypeOK
    BY DEF WorkerInv, WorkerTypes
  <1> QED BY <1>1, WorkerInvCorrect, PTL

\* A report of a worker, which names the task only, never ends another lease
\* than the one the worker knows of.
THEOREM ReportsOwnLeaseCorrect == Spec => []ReportsOwnLease
  <1>1. WorkerInv => ReportsOwnLease
    BY DEF WorkerInv
  <1> QED BY <1>1, WorkerInvCorrect, PTL

\* A process that kept its connection runs one coroutine at a time.
THEOREM OneAtATimeCorrect == Spec => []OneAtATime
  <1>1. WorkerInv => OneAtATime
    <2> SUFFICES ASSUME WorkerInv, NEW w \in Workers, w \notin orphaned
                 PROVE  /\ Cardinality(computing[w]) <= 1
                        /\ \A c \in computing[w] : c.job = job[w]
                        /\ latest[w] = job[w]
      BY DEF OneAtATime
    <2>1. PICK s \in Statuses : computing[w] \subseteq {Computation(job[w], s)}
      BY DEF WorkerInv, OneJobEach
    <2>2. Cardinality(computing[w]) <= 1
      <3>1. computing[w] = {} \/ computing[w] = {Computation(job[w], s)}
        BY <2>1
      <3>2. Cardinality({}) = 0 /\ Cardinality({Computation(job[w], s)}) = 1
        BY FS_EmptySet, FS_Singleton
      <3> QED BY <3>1, <3>2
    <2>3. \A c \in computing[w] : c.job = job[w]
      BY <2>1 DEF Computation
    <2> QED BY <2>2, <2>3 DEF WorkerInv, OneJobEach
  <1> QED BY <1>1, WorkerInvCorrect, PTL

=============================================================================
