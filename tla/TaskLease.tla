----------------------------- MODULE TaskLease -----------------------------
(***************************************************************************)
(* What the backend's task queue promises, without its tables, requests    *)
(* and locks: a task is handed out under numbered leases (the code's       *)
(* attempts), one lease at a time, and a lease that was taken back is      *)
(* never in force again.                                                   *)
(***************************************************************************)
EXTENDS Naturals

CONSTANT Tasks

VARIABLES
  phase,    \* has the task been created, has it been removed again?
  granted,  \* the number of leases handed out for the task so far
  holder,   \* the lease in force, 0 if the task is with nobody
  closed    \* the leases that were taken back or given back

leaseVars == <<phase, granted, holder, closed>>

LeaseTypeOK ==
  /\ phase \in [Tasks -> {"none", "open", "gone"}]
  /\ granted \in [Tasks -> Nat]
  /\ holder \in [Tasks -> Nat]
  /\ closed \in [Tasks -> SUBSET Nat]

LeaseInit ==
  /\ phase = [t \in Tasks |-> "none"]
  /\ granted = [t \in Tasks |-> 0]
  /\ holder = [t \in Tasks |-> 0]
  /\ closed = [t \in Tasks |-> {}]

\* A set of tasks comes into being.
Open(T) ==
  /\ \A t \in T : phase[t] = "none"
  /\ phase' = [t \in Tasks |-> IF t \in T THEN "open" ELSE phase[t]]
  /\ UNCHANGED <<granted, holder, closed>>

\* The next lease of a task that nobody holds.
Grant(t) ==
  /\ phase[t] = "open"
  /\ holder[t] = 0
  /\ granted' = [granted EXCEPT ![t] = @ + 1]
  /\ holder' = [holder EXCEPT ![t] = granted[t] + 1]
  /\ UNCHANGED <<phase, closed>>

\* Nobody holds the task any more; lease n, one that was really handed out,
\* is closed.  It need not be the one in force.
Release(t, n) ==
  /\ phase[t] = "open"
  /\ n \in 1 .. granted[t]
  /\ holder' = [holder EXCEPT ![t] = 0]
  /\ closed' = [closed EXCEPT ![t] = @ \cup {n}]
  /\ UNCHANGED <<phase, granted>>

\* The tasks are removed together with everything known about them.
Withdraw(T) ==
  /\ \A t \in T : phase[t] \in {"open", "none"}
  /\ phase' = [t \in Tasks |-> IF t \in T THEN "gone" ELSE phase[t]]
  /\ granted' = [t \in Tasks |-> IF t \in T THEN 0 ELSE granted[t]]
  /\ holder' = [t \in Tasks |-> IF t \in T THEN 0 ELSE holder[t]]
  /\ closed' = [t \in Tasks |-> IF t \in T THEN {} ELSE closed[t]]

LeaseNext ==
  \/ \E T \in SUBSET Tasks : Open(T) \/ Withdraw(T)
  \/ \E t \in Tasks : Grant(t) \/ \E n \in 1 .. granted[t] : Release(t, n)

LeaseSpec == LeaseInit /\ [][LeaseNext]_leaseVars

=============================================================================
