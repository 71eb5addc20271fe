----------------------------- MODULE Scheduler -----------------------------
(***************************************************************************)
(* The scheduled jobs of the worker processes: runSchedulerTick of          *)
(* apps/workers/src/lib/scheduler.ts.                                       *)
(*                                                                         *)
(* Every minute a worker reads when each job last ran, and for every job   *)
(* that is due takes an advisory lock, runs the job, stamps the run and     *)
(* gives the lock back.  What a job does is left to the module that         *)
(* composes this one: it takes JobReturns or JobThrows when a run is over.  *)
(*                                                                         *)
(* The database is reached through a pooler in transaction mode             *)
(* (packages/db/src/client.ts), so a statement runs on any server           *)
(* connection; an advisory lock belongs to the connection it was taken on,  *)
(* may be taken there again, and is given back there only.                  *)
(***************************************************************************)
EXTENDS Integers, FiniteSets

CONSTANTS
    Workers,        \* worker processes
    Jobs,           \* scheduled jobs
    Connections,    \* server connections of the pooler
    MaxLocks,       \* bound: times a lock is held on one connection
    MaxFaults       \* bound: worker deaths, failed stamps and jobs that throw

ASSUME SchedulerAssumption == MaxLocks \in Nat /\ MaxFaults \in Nat

VARIABLES
    due,        \* the jobs whose last_run_at is older than their interval
    locks,      \* locks[c][j]: how often connection c holds the lock of j
    worker,     \* where the tick of each worker is, and the jobs it has yet to see
    faults      \* worker deaths, failed stamps and jobs that threw so far

schedulerVars == <<due, locks, worker, faults>>

Idle == [pc |-> "idle", todo |-> {}, job |-> "none"]

SchedulerInit ==
    /\ due = Jobs
    /\ locks = [c \in Connections |-> [j \in Jobs |-> 0]]
    /\ worker = [w \in Workers |-> Idle]
    /\ faults = 0

Running(w, j) == worker[w].pc = "run" /\ worker[w].job = j
Goes(w, pc) == worker' = [worker EXCEPT ![w].pc = pc]

\* The tick of a worker is over when it has looked at every job.
NextJob(w) ==
    worker' = [worker EXCEPT ![w] =
        IF @.todo \ {@.job} = {} THEN Idle
        ELSE [pc |-> "scan", todo |-> @.todo \ {@.job}, job |-> "none"]]

\* The last runs are read once for the whole tick.
StartTick(w) ==
    /\ worker[w].pc = "idle"
    /\ due # {}
    /\ worker' = [worker EXCEPT ![w] = [pc |-> "scan", todo |-> due, job |-> "none"]]
    /\ UNCHANGED <<due, locks, faults>>

HeldElsewhere(c, j) == \E d \in Connections \ {c} : locks[d][j] > 0

\* pg_try_advisory_lock, on whatever connection the pooler picks.
TryLock(w, c, j) ==
    /\ worker[w].pc = "scan"
    /\ j \in worker[w].todo
    /\ locks[c][j] < MaxLocks
    /\ IF HeldElsewhere(c, j)
       THEN /\ worker' = [worker EXCEPT ![w] =
                    IF worker[w].todo = {j} THEN Idle
                    ELSE [worker[w] EXCEPT !.todo = @ \ {j}]]
            /\ UNCHANGED locks
       ELSE /\ worker' = [worker EXCEPT ![w].pc = "run", ![w].job = j]
            /\ locks' = [locks EXCEPT ![c][j] = @ + 1]
    /\ UNCHANGED <<due, faults>>

\* The job has returned or thrown: either way the run is stamped.
JobDone(w) ==
    /\ worker[w].pc = "run"
    /\ Goes(w, "stamp")
    /\ UNCHANGED <<due, locks>>

JobReturns(w) == JobDone(w) /\ UNCHANGED faults
JobThrows(w) == faults < MaxFaults /\ faults' = faults + 1 /\ JobDone(w)

Stamp(w) ==
    /\ worker[w].pc = "stamp"
    /\ due' = due \ {worker[w].job}
    /\ Goes(w, "unlock")
    /\ UNCHANGED <<locks, faults>>

\* The stamp throws out of the finally block: the tick ends and the lock is kept.
StampFails(w) ==
    /\ worker[w].pc = "stamp"
    /\ faults < MaxFaults
    /\ faults' = faults + 1
    /\ worker' = [worker EXCEPT ![w] = Idle]
    /\ UNCHANGED <<due, locks>>

\* pg_advisory_unlock, on whatever connection: elsewhere it is a warning only.
Unlock(w, c) ==
    /\ worker[w].pc = "unlock"
    /\ locks' = [locks EXCEPT ![c][worker[w].job] = IF @ > 0 THEN @ - 1 ELSE 0]
    /\ NextJob(w)
    /\ UNCHANGED <<due, faults>>

\* The process dies; the pooler keeps its server connections, and their locks.
Die(w) ==
    /\ worker[w].pc # "idle"
    /\ faults < MaxFaults
    /\ faults' = faults + 1
    /\ worker' = [worker EXCEPT ![w] = Idle]
    /\ UNCHANGED <<due, locks>>

\* The pooler closes a server connection, which frees its locks.
Recycle(c) ==
    /\ \E j \in Jobs : locks[c][j] > 0
    /\ locks' = [locks EXCEPT ![c] = [j \in Jobs |-> 0]]
    /\ UNCHANGED <<due, worker, faults>>

\* The interval of a job runs out.
Elapse(j) ==
    /\ j \notin due
    /\ due' = due \union {j}
    /\ UNCHANGED <<locks, worker, faults>>

\* A step of the scheduler of worker w that does not end a job's run.
TickStep(w) ==
    \/ StartTick(w) \/ Stamp(w)
    \/ \E c \in Connections : Unlock(w, c) \/ \E j \in Jobs : TryLock(w, c, j)

SchedulerEnvironment ==
    \/ \E w \in Workers : StampFails(w) \/ Die(w)
    \/ \E c \in Connections : Recycle(c)
    \/ \E j \in Jobs : Elapse(j)

SchedulerTypeOK ==
    /\ due \subseteq Jobs
    /\ locks \in [Connections -> [Jobs -> 0 .. MaxLocks]]
    /\ worker \in [Workers -> [pc : {"idle", "scan", "run", "stamp", "unlock"},
                               todo : SUBSET Jobs, job : Jobs \union {"none"}]]
    /\ faults \in 0 .. MaxFaults

=============================================================================
