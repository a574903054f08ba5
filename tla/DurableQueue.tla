---------------------------- MODULE DurableQueue ----------------------------
(***************************************************************************)
(* The slow-path job queue of one partition (worker/queue.py) with what    *)
(* runs on it: the executor and its retry policy, resume after a kill, and *)
(* the dead-letter re-drive.                                               *)
(*                                                                         *)
(* The queue is an SQLite file; every action that changes jobs is one      *)
(* committed statement.  A lease is two: the oldest queued row is read,    *)
(* then updated.  A worker may be killed between any two actions, and one  *)
(* that comes back calls resume() before it leases again.                  *)
(***************************************************************************)
EXTENDS Integers, Sequences

CONSTANTS Hashes,       \* content hashes, the identity of a job
          NoHash,
          Workers,      \* processes that opened the file
          MaxAttempts,  \* RetryPolicy.max_attempts
          MaxCrashes,   \* bound: how often workers are killed
          MaxCalls      \* bound: how often an operator runs or re-drives jobs

ASSUME NoHashAssumption == NoHash \notin Hashes
ASSUME MaxAttemptsAssumption == MaxAttempts \in Nat \ {0}
ASSUME BoundsAssumption == MaxCrashes \in Nat /\ MaxCalls \in Nat

VARIABLES jobs,        \* the rows of processing_manifest
          order,       \* hashes by rowid, that is by insertion
          proc,        \* proc[w]: what worker w is doing
          executions,  \* runs of the runner since the job was enqueued or re-driven
          finished,    \* hashes whose runner has returned
          crashes, calls

vars == <<jobs, order, proc, executions, finished, crashes, calls>>

Statuses == {"absent", "queued", "running", "failed", "done", "dead"}
Failures == {"none", "transient", "permanent"}
Job == [status : Statuses, attempts : Nat, failure : Failures]

\* The order in which resume() visits the statuses it brings back.
Resumable == <<"queued", "running", "failed">>

PCs == {"idle", "leasing", "get", "mark", "run", "commit", "fail", "bury",
        "down", "list", "requeue"}
Proc == [pc : PCs, hash : Hashes \cup {NoHash}, attempt : 0..MaxAttempts,
         failure : Failures,
         pending : {<<>>, <<"failed">>, <<"running", "failed">>, Resumable},
         todo : SUBSET Hashes]

Idle == [pc |-> "idle", hash |-> NoHash, attempt |-> 0, failure |-> "none",
         pending |-> <<>>, todo |-> {}]

TypeOK == /\ jobs \in [Hashes -> Job]
          /\ \A i \in DOMAIN order : order[i] \in Hashes
          /\ {order[i] : i \in DOMAIN order} = {h \in Hashes : jobs[h].status # "absent"}
          /\ proc \in [Workers -> Proc]
          /\ executions \in [Hashes -> Nat]
          /\ finished \subseteq Hashes
          /\ crashes \in 0..MaxCrashes
          /\ calls \in 0..MaxCalls

Init == /\ jobs = [h \in Hashes |-> [status |-> "absent", attempts |-> 0,
                                     failure |-> "none"]]
        /\ order = <<>>
        /\ proc = [w \in Workers |-> Idle]
        /\ executions = [h \in Hashes |-> 0]
        /\ finished = {}
        /\ crashes = 0
        /\ calls = 0

At(w, pc) == proc[w].pc = pc
Goto(w, pc) == proc' = [proc EXCEPT ![w].pc = pc]
Return(w) == proc' = [proc EXCEPT ![w] = Idle]

\* One UPDATE of a row.  Stage and reason are overwritten by every one of them.
Update(h, status, failure, attempts) ==
    jobs' = [jobs EXCEPT ![h] = [status |-> status, attempts |-> attempts,
                                 failure |-> failure]]

-----------------------------------------------------------------------------
(* The queue *)

\* A hash that is known, in whatever state, is left alone.
Enqueue(h) ==
    /\ jobs[h].status = "absent"
    /\ Update(h, "queued", "none", 0)
    /\ order' = Append(order, h)
    /\ UNCHANGED <<proc, executions, finished, crashes, calls>>

\* Row i is the oldest that is queued.
OldestQueued(i) == /\ jobs[order[i]].status = "queued"
                   /\ \A j \in 1..(i - 1) : jobs[order[j]].status # "queued"

LeaseSelect(w) ==
    /\ At(w, "idle")
    /\ \E i \in DOMAIN order :
         /\ OldestQueued(i)
         /\ proc' = [proc EXCEPT ![w] = [@ EXCEPT !.pc = "leasing", !.hash = order[i]]]
    /\ UNCHANGED <<jobs, order, executions, finished, crashes, calls>>

\* The claim does not look at the status again.
LeaseClaim(w) ==
    /\ At(w, "leasing")
    /\ Update(proc[w].hash, "running", "none", jobs[proc[w].hash].attempts)
    /\ Goto(w, "get")
    /\ UNCHANGED <<order, executions, finished, crashes, calls>>

-----------------------------------------------------------------------------
(* The executor *)

\* Executor.run of a job the caller knows by hash, leased or not.
RunByHash(w, h) ==
    /\ At(w, "idle")
    /\ calls < MaxCalls
    /\ jobs[h].status # "absent"
    /\ proc' = [proc EXCEPT ![w] = [@ EXCEPT !.pc = "get", !.hash = h]]
    /\ calls' = calls + 1
    /\ UNCHANGED <<jobs, order, executions, finished, crashes>>

\* A job that is done or dead is returned as it is.  (The variant runs it again.)
GetAlways(w) ==
    /\ At(w, "get")
    /\ Goto(w, "mark")
    /\ UNCHANGED <<jobs, order, executions, finished, crashes, calls>>

Get(w) ==
    /\ At(w, "get")
    /\ IF jobs[proc[w].hash].status \in {"done", "dead"} THEN Return(w) ELSE Goto(w, "mark")
    /\ UNCHANGED <<jobs, order, executions, finished, crashes, calls>>

\* (The variant records the job done before its runner is called.)
MarkRunningDone(w) ==
    LET h == proc[w].hash
    IN  /\ At(w, "mark")
        /\ Update(h, "done", "none", jobs[h].attempts)
        /\ executions' = [executions EXCEPT ![h] = @ + 1]
        /\ proc' = [proc EXCEPT ![w] = [@ EXCEPT !.pc = "run", !.attempt = proc[w].attempt + 1]]
        /\ UNCHANGED <<order, finished, crashes, calls>>

MarkRunning(w) ==
    LET h == proc[w].hash
    IN  /\ At(w, "mark")
        /\ Update(h, "running", "none", jobs[h].attempts)
        /\ executions' = [executions EXCEPT ![h] = @ + 1]
        /\ proc' = [proc EXCEPT ![w] = [@ EXCEPT !.pc = "run", !.attempt = proc[w].attempt + 1]]
        /\ UNCHANGED <<order, finished, crashes, calls>>

RunnerReturns(w) ==
    /\ At(w, "run")
    /\ finished' = finished \cup {proc[w].hash}
    /\ Goto(w, "commit")
    /\ UNCHANGED <<jobs, order, executions, crashes, calls>>

\* RetryPolicy.should_retry.  (The variants are one attempt short and one over.)
ShouldRetryShort(attempt) == attempt + 1 < MaxAttempts
ShouldRetryOver(attempt) == attempt <= MaxAttempts
ShouldRetry(attempt) == attempt < MaxAttempts

RunnerFails(w) ==
    /\ At(w, "run")
    /\ \/ proc' = [proc EXCEPT ![w] =
             [@ EXCEPT !.pc = IF ShouldRetry(proc[w].attempt) THEN "fail" ELSE "bury",
                       !.failure = "transient"]]
       \/ proc' = [proc EXCEPT ![w] = [@ EXCEPT !.pc = "bury", !.failure = "permanent"]]
    /\ UNCHANGED <<jobs, order, executions, finished, crashes, calls>>

MarkDone(w) ==
    LET h == proc[w].hash
    IN  /\ At(w, "commit")
        /\ Update(h, "done", "none", jobs[h].attempts)
        /\ Return(w)
        /\ UNCHANGED <<order, executions, finished, crashes, calls>>

\* Only a failure that will be retried adds to the attempts of the row.
MarkFailed(w) ==
    LET h == proc[w].hash
    IN  /\ At(w, "fail")
        /\ Update(h, "failed", proc[w].failure, jobs[h].attempts + 1)
        /\ Goto(w, "mark")
        /\ UNCHANGED <<order, executions, finished, crashes, calls>>

MarkDead(w) ==
    LET h == proc[w].hash
    IN  /\ At(w, "bury")
        /\ Update(h, "dead", proc[w].failure, jobs[h].attempts)
        /\ Return(w)
        /\ UNCHANGED <<order, executions, finished, crashes, calls>>

-----------------------------------------------------------------------------
(* Kill, resume, re-drive *)

Crash(w) ==
    /\ ~At(w, "down")
    /\ crashes < MaxCrashes
    /\ proc' = [proc EXCEPT ![w] = [Idle EXCEPT !.pc = "down"]]
    /\ crashes' = crashes + 1
    /\ UNCHANGED <<jobs, order, executions, finished, calls>>

\* The new process calls resume().  (The variant's forgets the failed jobs.)
RestartSkipsFailed(w) ==
    /\ At(w, "down")
    /\ proc' = [proc EXCEPT ![w] = [@ EXCEPT !.pc = "list",
                                             !.pending = SubSeq(Resumable, 1, 2)]]
    /\ UNCHANGED <<jobs, order, executions, finished, crashes, calls>>

Restart(w) ==
    /\ At(w, "down")
    /\ proc' = [proc EXCEPT ![w] = [@ EXCEPT !.pc = "list", !.pending = Resumable]]
    /\ UNCHANGED <<jobs, order, executions, finished, crashes, calls>>

ListByStatus(w) ==
    /\ At(w, "list")
    /\ proc' = [proc EXCEPT ![w] =
         [@ EXCEPT !.pc = "requeue", !.pending = Tail(proc[w].pending),
                   !.todo = {h \in Hashes : jobs[h].status = Head(proc[w].pending)}]]
    /\ UNCHANGED <<jobs, order, executions, finished, crashes, calls>>

\* An operator lists the dead jobs and re-drives some of them.
ListDead(w) ==
    /\ At(w, "idle")
    /\ calls < MaxCalls
    /\ \E chosen \in SUBSET {h \in Hashes : jobs[h].status = "dead"} :
         /\ chosen # {}
         /\ proc' = [proc EXCEPT ![w] = [@ EXCEPT !.pc = "requeue", !.todo = chosen]]
    /\ calls' = calls + 1
    /\ UNCHANGED <<jobs, order, executions, finished, crashes>>

\* requeue() asks nothing about the status the job has by now.
Requeue(w) ==
    /\ At(w, "requeue")
    /\ \E h \in proc[w].todo :
         /\ Update(h, "queued", "none", 0)
         /\ executions' = [executions EXCEPT ![h] = IF jobs[h].status = "dead" THEN 0 ELSE @]
         /\ proc' = [proc EXCEPT ![w].todo = @ \ {h}]
    /\ UNCHANGED <<order, finished, crashes, calls>>

EndRequeue(w) ==
    /\ At(w, "requeue")
    /\ proc[w].todo = {}
    /\ IF proc[w].pending = <<>> THEN Return(w) ELSE Goto(w, "list")
    /\ UNCHANGED <<jobs, order, executions, finished, crashes, calls>>

-----------------------------------------------------------------------------
\* What a worker does of its own accord; the rest is its environment.
Work(w) ==
    \/ LeaseSelect(w) \/ LeaseClaim(w)
    \/ Get(w) \/ MarkRunning(w) \/ RunnerReturns(w) \/ RunnerFails(w)
    \/ MarkDone(w) \/ MarkFailed(w) \/ MarkDead(w)
    \/ Restart(w) \/ ListByStatus(w) \/ Requeue(w) \/ EndRequeue(w)

Next == \/ \E h \in Hashes : Enqueue(h)
        \/ \E w \in Workers : \/ Work(w) \/ Crash(w) \/ ListDead(w)
                              \/ \E h \in Hashes : RunByHash(w, h)

\* A worker loops on lease() and run(), its runner returns or raises, and a
\* killed worker is started again.
Fairness == \A w \in Workers : WF_vars(Work(w))

Spec == Init /\ [][Next]_vars /\ Fairness

-----------------------------------------------------------------------------
(* Properties *)

\* JobStatus: "done and dead are terminal (dead is re-drivable)".  No retry, no
\* resume and no re-run takes a finished job up again.
TerminalStays ==
    [][\A h \in Hashes :
         /\ jobs[h].status = "done" => jobs'[h].status = "done"
         /\ jobs[h].status = "dead" => jobs'[h].status \in {"dead", "queued"}]_vars

\* A job recorded done has been run to the end, wherever the worker was killed.
DoneHasRun == \A h \in Hashes : jobs[h].status = "done" => h \in finished

\* A transient failure dead-letters a job only after every attempt it was allowed.
DeadAfterAllAttempts ==
    \A h \in Hashes :
        jobs[h].status = "dead" /\ jobs[h].failure = "transient" =>
            executions[h] >= MaxAttempts

\* resume(): once every worker is back and idle no job is left behind in a state
\* that no lease would ever pick up.
NoneStranded ==
    (\A w \in Workers : At(w, "idle")) =>
        \A h \in Hashes : jobs[h].status \notin {"running", "failed"}

\* A kill grants a job one more round of attempts and never more than that.
AttemptsPerKill == \A h \in Hashes : executions[h] <= MaxAttempts * (1 + crashes)

\* A queued job is eventually run to an end, however its attempts fail and
\* whenever its worker is killed.
EventuallySettled ==
    \A h \in Hashes : jobs[h].status = "queued" ~> jobs[h].status \in {"done", "dead"}

\* RetryPolicy: "max_attempts bounds the total number of executions (not just
\* retries): after the max_attempts-th failure the executor dead-letters the job."
AttemptsBounded == \A h \in Hashes : executions[h] <= MaxAttempts
=============================================================================
