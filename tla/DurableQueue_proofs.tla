-------------------------- MODULE DurableQueue_proofs --------------------------
(***************************************************************************)
(* What holds of the job queue for any jobs, attempts, kills and calls:    *)
(* first for any number of workers on one file, then for a sole worker,    *)
(* which is what a partition is meant to have.                             *)
(***************************************************************************)
EXTENDS DurableQueue, SequenceTheorems, TLAPS

-----------------------------------------------------------------------------
(* Any number of workers *)

\* The points at which a worker works on the job it has the hash of.
Holding == {"leasing", "get", "mark", "run", "commit", "fail", "bury"}

Known(h) == h \in Hashes /\ jobs[h].status # "absent"

StateInv == /\ jobs \in [Hashes -> Job]
            /\ order \in Seq(Hashes)
            /\ {order[i] : i \in DOMAIN order} = {h \in Hashes : jobs[h].status # "absent"}
            /\ proc \in [Workers -> Proc]
            /\ executions \in [Hashes -> Nat]
            /\ finished \subseteq Hashes
            /\ crashes \in 0..MaxCrashes
            /\ calls \in 0..MaxCalls

\* What a worker holds was enqueued once; it starts with no attempt, never begins one
\* too many, and records a job done only when its runner has returned.
WorkerInv(w) == /\ proc[w].pc \in Holding => Known(proc[w].hash)
                /\ proc[w].pc \in {"idle", "leasing", "get", "down"} => proc[w].attempt = 0
                /\ proc[w].pc \in {"mark", "fail"} => proc[w].attempt < MaxAttempts
                /\ proc[w].pc = "commit" => proc[w].hash \in finished
                /\ proc[w].pc = "list" => proc[w].pending # <<>>
                /\ \A h \in proc[w].todo : Known(h)

QueueInv == /\ StateInv
            /\ \A w \in Workers : WorkerInv(w)
            /\ DoneHasRun

LEMMA UpdateFacts ==
    ASSUME jobs \in [Hashes -> Job], NEW h \in Hashes, NEW status \in Statuses \ {"absent"},
           NEW failure \in Failures, NEW attempts \in Nat,
           Update(h, status, failure, attempts)
    PROVE  /\ jobs' \in [Hashes -> Job]
           /\ jobs'[h] = [status |-> status, attempts |-> attempts, failure |-> failure]
           /\ \A g \in Hashes : g # h => jobs'[g] = jobs[g]
           /\ \A g \in Hashes : jobs[g].status # "absent" => jobs'[g].status # "absent"
           /\ \A g \in Hashes : jobs'[g].status = "done" =>
                 jobs[g].status = "done" \/ (g = h /\ status = "done")
<1> DEFINE r == [status |-> status, attempts |-> attempts, failure |-> failure]
<1>1. r \in Job /\ r.status = status
  BY DEF Job
<1>2. jobs' = [jobs EXCEPT ![h] = r]
  BY DEF Update
<1> HIDE DEF r
<1>3. /\ jobs' \in [Hashes -> Job]
      /\ jobs'[h] = r
      /\ \A g \in Hashes : g # h => jobs'[g] = jobs[g]
  BY <1>1, <1>2
<1> QED
  BY <1>1, <1>3 DEF r

\* What is left of the statuses that resume() goes through.
LEMMA PendingFacts ==
    ASSUME NEW p \in {<<>>, <<"failed">>, <<"running", "failed">>, Resumable}, p # <<>>
    PROVE  /\ Head(p) \in {"queued", "running", "failed"}
           /\ Tail(p) \in {<<>>, <<"failed">>, <<"running", "failed">>, Resumable}
<1>1. CASE p = <<"failed">>
  BY <1>1
<1>2. CASE p = <<"running", "failed">>
  BY <1>2
<1>3. CASE p = <<"queued", "running", "failed">>
  BY <1>3
<1> QED
  BY <1>1, <1>2, <1>3 DEF Resumable

\* A row is never deleted, and a job that was run to the end stays so.
LEMMA RowsStay ==
    ASSUME StateInv, \A w \in Workers : WorkerInv(w), [Next]_vars
    PROVE  /\ jobs' \in [Hashes -> Job]
           /\ \A h \in Hashes : Known(h) => Known(h)'
           /\ finished \subseteq finished'
           /\ finished' \subseteq Hashes
           /\ \A h \in Hashes : jobs'[h].status = "done" =>
                 jobs[h].status = "done" \/ h \in finished
<1> USE DEF StateInv
<1>1. CASE UNCHANGED <<jobs, finished>>
  BY <1>1 DEF Known
<1>2. ASSUME NEW h \in Hashes, NEW status \in Statuses \ {"absent"}, NEW failure \in Failures,
             NEW attempts \in Nat, Update(h, status, failure, attempts),
             status = "done" => h \in finished, UNCHANGED finished
      PROVE  /\ jobs' \in [Hashes -> Job]
             /\ \A g \in Hashes : Known(g) => Known(g)'
             /\ finished \subseteq finished'
             /\ finished' \subseteq Hashes
             /\ \A g \in Hashes : jobs'[g].status = "done" =>
                   jobs[g].status = "done" \/ g \in finished
  BY <1>2, UpdateFacts DEF Known
<1>3. \A h \in Hashes : jobs[h].attempts \in Nat
  BY DEF Job
<1>4. ASSUME NEW h \in Hashes, Enqueue(h)
      PROVE  /\ Update(h, "queued", "none", 0) /\ UNCHANGED finished
  BY <1>4 DEF Enqueue
<1>5. CASE \E h \in Hashes : Enqueue(h)
  BY <1>2, <1>4, <1>5 DEF Statuses, Failures
<1>6. ASSUME NEW w \in Workers, Work(w) \/ Crash(w) \/ ListDead(w) \/ \E h \in Hashes : RunByHash(w, h)
      PROVE  /\ jobs' \in [Hashes -> Job]
             /\ \A g \in Hashes : Known(g) => Known(g)'
             /\ finished \subseteq finished'
             /\ finished' \subseteq Hashes
             /\ \A g \in Hashes : jobs'[g].status = "done" =>
                   jobs[g].status = "done" \/ g \in finished
  <2> DEFINE h == proc[w].hash
  <2>0. /\ WorkerInv(w)
        /\ At(w, "leasing") \/ At(w, "mark") \/ At(w, "commit") \/ At(w, "fail")
              \/ At(w, "bury") \/ At(w, "run") => h \in Hashes
        /\ proc[w].failure \in Failures
    BY <1>6 DEF WorkerInv, Holding, Known, At, Proc
  <2>1. CASE LeaseClaim(w)
    <3>1. Update(h, "running", "none", jobs[h].attempts) /\ h \in Hashes /\ UNCHANGED finished
      BY <2>0, <2>1 DEF LeaseClaim
    <3> QED
      BY <1>2, <1>3, <3>1 DEF Statuses, Failures
  <2>2. CASE MarkRunning(w)
    <3>1. Update(h, "running", "none", jobs[h].attempts) /\ h \in Hashes /\ UNCHANGED finished
      BY <2>0, <2>2 DEF MarkRunning
    <3> QED
      BY <1>2, <1>3, <3>1 DEF Statuses, Failures
  <2>3. CASE MarkDone(w)
    <3>1. /\ Update(h, "done", "none", jobs[h].attempts) /\ h \in Hashes /\ UNCHANGED finished
          /\ h \in finished
      BY <2>0, <2>3 DEF MarkDone, At, WorkerInv
    <3> QED
      BY <1>2, <1>3, <3>1 DEF Statuses, Failures
  <2>4. CASE MarkFailed(w)
    <3>1. /\ Update(h, "failed", proc[w].failure, jobs[h].attempts + 1) /\ h \in Hashes
          /\ UNCHANGED finished
      BY <2>0, <2>4 DEF MarkFailed
    <3>2. jobs[h].attempts + 1 \in Nat
      BY <1>3, <3>1
    <3> QED
      BY <1>2, <2>0, <3>1, <3>2 DEF Statuses
  <2>5. CASE MarkDead(w)
    <3>1. /\ Update(h, "dead", proc[w].failure, jobs[h].attempts) /\ h \in Hashes
          /\ UNCHANGED finished
      BY <2>0, <2>5 DEF MarkDead
    <3> QED
      BY <1>2, <1>3, <2>0, <3>1 DEF Statuses
  <2>6. CASE Requeue(w)
    <3>1. PICK g \in proc[w].todo : Update(g, "queued", "none", 0)
      BY <2>6 DEF Requeue
    <3>2. g \in Hashes /\ UNCHANGED finished
      BY <2>0, <2>6 DEF WorkerInv, Known, Requeue
    <3> QED
      BY <1>2, <3>1, <3>2 DEF Statuses, Failures
  <2>7. CASE RunnerReturns(w)
    <3>1. jobs' = jobs /\ finished' = finished \cup {h} /\ h \in Hashes
      BY <2>0, <2>7 DEF RunnerReturns
    <3> QED
      BY <3>1 DEF Known
  <2>8. CASE \/ LeaseSelect(w) \/ Get(w) \/ RunnerFails(w) \/ Restart(w) \/ ListByStatus(w)
             \/ EndRequeue(w) \/ Crash(w) \/ ListDead(w) \/ \E g \in Hashes : RunByHash(w, g)
    BY <1>1, <2>8 DEF LeaseSelect, Get, RunnerFails, Restart, ListByStatus, EndRequeue, Crash,
                      ListDead, RunByHash
  <2> QED
    BY <1>6, <2>1, <2>2, <2>3, <2>4, <2>5, <2>6, <2>7, <2>8 DEF Work
<1>7. CASE UNCHANGED vars
  BY <1>1, <1>7 DEF vars
<1> QED
  BY <1>5, <1>6, <1>7 DEF Next

KnownNext(h) == h \in Hashes /\ jobs'[h].status # "absent"

\* A step of one worker leaves the others as they are, and itself in order.
LEMMA WorkerStep ==
    ASSUME StateInv, NEW w \in Workers, WorkerInv(w),
           \A h \in Hashes : Known(h) => KnownNext(h), finished \subseteq finished',
           Work(w) \/ Crash(w) \/ ListDead(w) \/ \E h \in Hashes : RunByHash(w, h)
    PROVE  /\ proc' \in [Workers -> Proc]
           /\ \A v \in Workers : v # w => proc'[v] = proc[v]
           /\ WorkerInv(w)'
<1> DEFINE p == proc[w]
           Stepped == /\ proc' \in [Workers -> Proc]
                      /\ \A v \in Workers : v # w => proc'[v] = proc[v]
                      /\ WorkerInv(w)'
<1>0. /\ proc \in [Workers -> Proc] /\ p \in Proc
      /\ jobs \in [Hashes -> Job]
      /\ p.hash \in Hashes \cup {NoHash} /\ p.attempt \in 0..MaxAttempts /\ p.failure \in Failures
      /\ p.pending \in {<<>>, <<"failed">>, <<"running", "failed">>, Resumable}
      /\ p.todo \in SUBSET Hashes /\ p.pc \in PCs
      /\ MaxAttempts \in Nat /\ MaxAttempts > 0
  BY MaxAttemptsAssumption DEF StateInv, Proc
<1>1. ASSUME NEW q \in Proc, proc' = [proc EXCEPT ![w] = q],
             q.pc \in Holding => KnownNext(q.hash),
             q.pc \in {"idle", "leasing", "get", "down"} => q.attempt = 0,
             q.pc \in {"mark", "fail"} => q.attempt < MaxAttempts,
             q.pc = "commit" => q.hash \in finished',
             q.pc = "list" => q.pending # <<>>,
             \A h \in q.todo : KnownNext(h)
      PROVE  Stepped
  <2>1. proc'[w] = q /\ proc' \in [Workers -> Proc] /\ \A v \in Workers : v # w => proc'[v] = proc[v]
    BY <1>0, <1>1
  <2> QED
    BY <1>1, <2>1 DEF WorkerInv, Known, KnownNext
<1>2. p.pc \in Holding => p.hash \in Hashes /\ KnownNext(p.hash)
  BY <1>0 DEF WorkerInv, Known
<1>3. \A h \in p.todo : KnownNext(h)
  BY <1>0 DEF WorkerInv, Known
<1>4. Idle \in Proc /\ [Idle EXCEPT !.pc = "down"] \in Proc
  BY <1>0 DEF Idle, Proc, PCs, Failures
<1>5. ASSUME Return(w) PROVE Stepped
  <2>1. proc' = [proc EXCEPT ![w] = Idle]
    BY <1>5 DEF Return
  <2>2. Idle.pc = "idle" /\ Idle.attempt = 0 /\ Idle.todo = {}
    BY DEF Idle
  <2> QED
    BY <1>1, <1>4, <2>1, <2>2 DEF Holding
<1>6. ASSUME NEW pc \in PCs, Goto(w, pc),
             pc \in Holding => KnownNext(p.hash),
             pc \in {"idle", "leasing", "get", "down"} => p.attempt = 0,
             pc \in {"mark", "fail"} => p.attempt < MaxAttempts,
             pc = "commit" => p.hash \in finished',
             pc = "list" => p.pending # <<>>
      PROVE  Stepped
  <2> DEFINE q == [p EXCEPT !.pc = pc]
  <2>1. q \in Proc /\ q.pc = pc /\ q.hash = p.hash /\ q.attempt = p.attempt
        /\ q.pending = p.pending /\ q.todo = p.todo
    BY <1>0 DEF Proc
  <2>2. proc' = [proc EXCEPT ![w] = q]
    BY <1>6 DEF Goto
  <2> HIDE DEF q, Stepped
  <2> QED
    BY <1>1, <1>3, <1>6, <2>1, <2>2
<1> SUFFICES Stepped
  OBVIOUS
<1> HIDE DEF Stepped
<1>7. ASSUME NEW h \in Hashes, Known(h), NEW pc \in {"leasing", "get"}, At(w, "idle"),
             proc' = [proc EXCEPT ![w] = [@ EXCEPT !.pc = pc, !.hash = h]]
      PROVE  Stepped
  <2> DEFINE q == [p EXCEPT !.pc = pc, !.hash = h]
  <2>1. /\ q \in Proc /\ q.pc = pc /\ q.hash = h /\ q.attempt = p.attempt
        /\ q.todo = p.todo
    BY <1>0 DEF Proc, PCs
  <2>2. proc' = [proc EXCEPT ![w] = q] /\ p.attempt = 0
    BY <1>7 DEF WorkerInv, At
  <2>3. KnownNext(h)
    BY <1>7
  <2> HIDE DEF q
  <2> QED
    BY <1>1, <1>3, <2>1, <2>2, <2>3 DEF Holding
<1>8. CASE LeaseSelect(w)
  <2>1. PICK i \in DOMAIN order :
          /\ jobs[order[i]].status = "queued"
          /\ proc' = [proc EXCEPT ![w] = [@ EXCEPT !.pc = "leasing", !.hash = order[i]]]
    BY <1>8 DEF LeaseSelect, OldestQueued
  <2>2. order[i] \in Hashes /\ Known(order[i])
    BY <2>1 DEF StateInv, Known
  <2> QED
    BY <1>7, <1>8, <2>1, <2>2 DEF LeaseSelect
<1>9. CASE \E h \in Hashes : RunByHash(w, h)
  BY <1>7, <1>9 DEF RunByHash, Known
<1>10. CASE LeaseClaim(w)
  BY <1>2, <1>6, <1>10 DEF LeaseClaim, At, Holding, PCs, WorkerInv
<1>11. CASE Get(w)
  BY <1>0, <1>2, <1>5, <1>6, <1>11 DEF Get, At, Holding, PCs, WorkerInv
<1>12. CASE MarkRunning(w)
  <2> DEFINE q == [p EXCEPT !.pc = "run", !.attempt = p.attempt + 1]
  <2>1. p.pc = "mark" /\ p.attempt + 1 \in 0..MaxAttempts
    BY <1>0, <1>12 DEF MarkRunning, At, WorkerInv
  <2>2. /\ q \in Proc /\ q.pc = "run" /\ q.hash = p.hash /\ q.todo = p.todo
    BY <1>0, <2>1 DEF Proc, PCs
  <2>3. proc' = [proc EXCEPT ![w] = q]
    BY <1>12 DEF MarkRunning
  <2> HIDE DEF q
  <2> QED
    BY <1>1, <1>2, <1>3, <2>1, <2>2, <2>3 DEF Holding
<1>13. CASE RunnerReturns(w)
  BY <1>2, <1>6, <1>13 DEF RunnerReturns, At, Holding, PCs
<1>14. ASSUME NEW pc \in {"fail", "bury"}, NEW failure \in Failures, At(w, "run"),
              pc = "fail" => p.attempt < MaxAttempts,
              proc' = [proc EXCEPT ![w] = [@ EXCEPT !.pc = pc, !.failure = failure]]
       PROVE  Stepped
  <2> DEFINE q == [p EXCEPT !.pc = pc, !.failure = failure]
  <2>1. /\ q \in Proc /\ q.pc = pc /\ q.hash = p.hash /\ q.attempt = p.attempt
        /\ q.todo = p.todo
    BY <1>0 DEF Proc, PCs
  <2>2. proc' = [proc EXCEPT ![w] = q] /\ p.pc = "run"
    BY <1>14 DEF At
  <2> HIDE DEF q
  <2> QED
    BY <1>1, <1>2, <1>3, <1>14, <2>1, <2>2 DEF Holding
<1>15. CASE RunnerFails(w)
  BY <1>14, <1>15 DEF RunnerFails, ShouldRetry, Failures
<1>16. CASE MarkDone(w) \/ MarkDead(w)
  BY <1>5, <1>16 DEF MarkDone, MarkDead
<1>17. CASE MarkFailed(w)
  BY <1>2, <1>6, <1>17 DEF MarkFailed, At, Holding, PCs, WorkerInv
<1>18. CASE Crash(w)
  <2> DEFINE q == [Idle EXCEPT !.pc = "down"]
  <2>1. q \in Proc /\ q.pc = "down" /\ q.attempt = 0 /\ q.todo = {}
    BY <1>4 DEF Idle
  <2>2. proc' = [proc EXCEPT ![w] = q]
    BY <1>18 DEF Crash
  <2> HIDE DEF q
  <2> QED
    BY <1>1, <2>1, <2>2 DEF Holding
<1>19. CASE Restart(w)
  <2> DEFINE q == [p EXCEPT !.pc = "list", !.pending = Resumable]
  <2>1. q \in Proc /\ q.pc = "list" /\ q.pending = Resumable /\ q.todo = p.todo
    BY <1>0 DEF Proc, PCs
  <2>2. proc' = [proc EXCEPT ![w] = q] /\ Resumable # <<>>
    BY <1>19 DEF Restart, Resumable
  <2> HIDE DEF q
  <2> QED
    BY <1>1, <1>3, <2>1, <2>2 DEF Holding
<1>20. CASE ListByStatus(w)
  <2> DEFINE t == {h \in Hashes : jobs[h].status = Head(p.pending)}
             q == [p EXCEPT !.pc = "requeue", !.pending = Tail(p.pending), !.todo = t]
  <2>1. p.pending # <<>>
    BY <1>20 DEF ListByStatus, At, WorkerInv
  <2>2. /\ Tail(p.pending) \in {<<>>, <<"failed">>, <<"running", "failed">>, Resumable}
        /\ Head(p.pending) # "absent"
    BY <1>0, <2>1, PendingFacts
  <2>3. t \in SUBSET Hashes /\ \A h \in t : KnownNext(h)
    BY <2>2 DEF Known
  <2>4. proc' = [proc EXCEPT ![w] = q]
    BY <1>20 DEF ListByStatus
  <2> HIDE DEF t
  <2>5. q \in Proc /\ q.pc = "requeue" /\ q.todo = t
    BY <1>0, <2>2, <2>3 DEF Proc, PCs
  <2> HIDE DEF q
  <2> QED
    BY <1>1, <2>3, <2>4, <2>5 DEF Holding
<1>21. CASE ListDead(w)
  <2>1. PICK chosen \in SUBSET {h \in Hashes : jobs[h].status = "dead"} :
          proc' = [proc EXCEPT ![w] = [@ EXCEPT !.pc = "requeue", !.todo = chosen]]
    BY <1>21 DEF ListDead
  <2> DEFINE q == [p EXCEPT !.pc = "requeue", !.todo = chosen]
  <2>2. q \in Proc /\ q.pc = "requeue" /\ q.todo = chosen
    BY <1>0 DEF Proc, PCs
  <2>3. \A h \in chosen : KnownNext(h)
    BY DEF Known
  <2>4. proc' = [proc EXCEPT ![w] = q]
    BY <2>1
  <2> HIDE DEF q
  <2> QED
    BY <1>1, <2>2, <2>3, <2>4 DEF Holding
<1>22. CASE Requeue(w)
  <2>1. PICK h \in p.todo : proc' = [proc EXCEPT ![w].todo = @ \ {h}]
    BY <1>22 DEF Requeue
  <2> DEFINE q == [p EXCEPT !.todo = p.todo \ {h}]
  <2>2. q \in Proc /\ q.pc = p.pc /\ q.todo = p.todo \ {h}
    BY <1>0 DEF Proc
  <2>3. proc' = [proc EXCEPT ![w] = q] /\ p.pc = "requeue"
    BY <1>22, <2>1 DEF Requeue, At
  <2> HIDE DEF q
  <2> QED
    BY <1>1, <1>3, <2>2, <2>3 DEF Holding
<1>23. CASE EndRequeue(w)
  BY <1>5, <1>6, <1>23 DEF EndRequeue, At, Holding, PCs
<1> QED
  BY <1>8, <1>9, <1>10, <1>11, <1>12, <1>13, <1>15, <1>16, <1>17, <1>18, <1>19, <1>20,
     <1>21, <1>22, <1>23 DEF Work

LEMMA WorkersStep ==
    ASSUME StateInv, \A w \in Workers : WorkerInv(w), [Next]_vars
    PROVE  proc' \in [Workers -> Proc] /\ \A w \in Workers : WorkerInv(w)'
<1>0. proc \in [Workers -> Proc]
  BY DEF StateInv
<1>1. (\A h \in Hashes : Known(h) => KnownNext(h)) /\ finished \subseteq finished'
  BY RowsStay DEF Known, KnownNext
<1>2. ASSUME NEW v \in Workers, proc'[v] = proc[v] PROVE WorkerInv(v)'
  <2>1. proc[v].todo \subseteq Hashes
    BY <1>0 DEF Proc
  <2> QED
    BY <1>1, <1>2, <2>1 DEF WorkerInv, Known, KnownNext
<1>3. CASE \E h \in Hashes : Enqueue(h)
  BY <1>0, <1>2, <1>3 DEF Enqueue
<1>4. ASSUME NEW w \in Workers, Work(w) \/ Crash(w) \/ ListDead(w) \/ \E h \in Hashes : RunByHash(w, h)
      PROVE  proc' \in [Workers -> Proc] /\ \A v \in Workers : WorkerInv(v)'
  BY <1>1, <1>2, <1>4, WorkerStep
<1>5. CASE UNCHANGED vars
  BY <1>0, <1>2, <1>5 DEF vars
<1> QED
  BY <1>3, <1>4, <1>5 DEF Next

\* A row is inserted once, by enqueue.
LEMMA OrderStep ==
    ASSUME StateInv, \A w \in Workers : WorkerInv(w), [Next]_vars
    PROVE  /\ order' \in Seq(Hashes)
           /\ {order'[i] : i \in DOMAIN order'} = {h \in Hashes : jobs'[h].status # "absent"}
<1> DEFINE S == {order[i] : i \in DOMAIN order}
<1>0. order \in Seq(Hashes) /\ S = {h \in Hashes : jobs[h].status # "absent"} /\ jobs \in [Hashes -> Job]
  BY DEF StateInv
<1>1. ASSUME NEW h \in Hashes, Enqueue(h)
      PROVE  /\ order' \in Seq(Hashes)
             /\ {order'[i] : i \in DOMAIN order'} = {g \in Hashes : jobs'[g].status # "absent"}
  <2>1. order' = Append(order, h) /\ Update(h, "queued", "none", 0)
    BY <1>1 DEF Enqueue
  <2>2. /\ order' \in Seq(Hashes) /\ Len(order') = Len(order) + 1
        /\ DOMAIN order' = 1..(Len(order) + 1) /\ DOMAIN order = 1..Len(order)
        /\ order'[Len(order) + 1] = h
        /\ \A i \in DOMAIN order : order'[i] = order[i]
    BY <1>0, <2>1
  <2>3. {order'[i] : i \in DOMAIN order'} = S \cup {h}
    <3>1. DOMAIN order' = DOMAIN order \cup {Len(order) + 1}
      BY <2>2
    <3> QED
      BY <2>2, <3>1
  <2>4. jobs'[h].status = "queued" /\ \A g \in Hashes : g # h => jobs'[g] = jobs[g]
    BY <1>0, <2>1 DEF Update
  <2> QED
    BY <1>0, <2>2, <2>3, <2>4
<1>2. ASSUME UNCHANGED order, \A h \in Hashes : jobs'[h].status # "absent" => jobs[h].status # "absent"
      PROVE  /\ order' \in Seq(Hashes)
             /\ {order'[i] : i \in DOMAIN order'} = {g \in Hashes : jobs'[g].status # "absent"}
  BY <1>0, <1>2, RowsStay DEF Known
<1>3. ASSUME NEW h \in Hashes, jobs[h].status # "absent", UNCHANGED order,
             NEW r, jobs' = [jobs EXCEPT ![h] = r]
      PROVE  /\ order' \in Seq(Hashes)
             /\ {order'[i] : i \in DOMAIN order'} = {g \in Hashes : jobs'[g].status # "absent"}
  BY <1>0, <1>2, <1>3
<1>4. ASSUME NEW w \in Workers, Work(w) \/ Crash(w) \/ ListDead(w) \/ \E h \in Hashes : RunByHash(w, h)
      PROVE  /\ order' \in Seq(Hashes)
             /\ {order'[i] : i \in DOMAIN order'} = {g \in Hashes : jobs'[g].status # "absent"}
  <2>1. CASE LeaseClaim(w) \/ MarkRunning(w) \/ MarkDone(w) \/ MarkFailed(w) \/ MarkDead(w)
    <3>1. Known(proc[w].hash)
      BY <2>1 DEF LeaseClaim, MarkRunning, MarkDone, MarkFailed, MarkDead, At, WorkerInv, Holding
    <3>2. UNCHANGED order /\ \E r : jobs' = [jobs EXCEPT ![proc[w].hash] = r]
      BY <2>1 DEF LeaseClaim, MarkRunning, MarkDone, MarkFailed, MarkDead, Update
    <3> QED
      BY <1>3, <3>1, <3>2 DEF Known
  <2>2. CASE Requeue(w)
    <3>1. PICK h \in proc[w].todo : Update(h, "queued", "none", 0)
      BY <2>2 DEF Requeue
    <3>2. Known(h) /\ UNCHANGED order
      BY <2>2 DEF WorkerInv, Requeue
    <3> QED
      BY <1>3, <3>1, <3>2 DEF Known, Update
  <2>3. CASE UNCHANGED <<jobs, order>>
    BY <1>2, <2>3
  <2> QED
    BY <1>4, <2>1, <2>2, <2>3 DEF Work, LeaseSelect, Get, RunnerReturns, RunnerFails, Restart,
       ListByStatus, EndRequeue, Crash, ListDead, RunByHash
<1>5. CASE UNCHANGED vars
  BY <1>2, <1>5 DEF vars
<1> QED
  BY <1>1, <1>4, <1>5 DEF Next

LEMMA CountsStep ==
    ASSUME StateInv, \A w \in Workers : WorkerInv(w), [Next]_vars
    PROVE  executions' \in [Hashes -> Nat] /\ crashes' \in 0..MaxCrashes /\ calls' \in 0..MaxCalls
<1>0. /\ executions \in [Hashes -> Nat] /\ crashes \in 0..MaxCrashes /\ calls \in 0..MaxCalls
      /\ MaxCrashes \in Nat /\ MaxCalls \in Nat
  BY BoundsAssumption DEF StateInv
<1>1. CASE \E w \in Workers : MarkRunning(w)
  <2>1. PICK w \in Workers : MarkRunning(w)
    BY <1>1
  <2>2. proc[w].hash \in Hashes
    BY <2>1 DEF MarkRunning, At, WorkerInv, Holding, Known
  <2>3. executions' = [executions EXCEPT ![proc[w].hash] = @ + 1] /\ UNCHANGED <<crashes, calls>>
    BY <2>1 DEF MarkRunning
  <2> QED
    BY <1>0, <2>2, <2>3
<1>2. CASE \E w \in Workers : Requeue(w)
  <2>0. PICK w \in Workers : Requeue(w)
    BY <1>2
  <2>1. PICK h \in proc[w].todo :
          executions' = [executions EXCEPT ![h] = IF jobs[h].status = "dead" THEN 0 ELSE @]
    BY <2>0 DEF Requeue
  <2>2. h \in Hashes /\ UNCHANGED <<crashes, calls>>
    BY <2>0, <2>1 DEF WorkerInv, Known, Requeue
  <2> QED
    BY <1>0, <2>1, <2>2
<1>3. CASE \E w \in Workers : Crash(w)
  BY <1>0, <1>3 DEF Crash
<1>4. CASE \E w \in Workers : ListDead(w) \/ \E h \in Hashes : RunByHash(w, h)
  <2>1. UNCHANGED <<executions, crashes>> /\ calls < MaxCalls /\ calls' = calls + 1
    BY <1>4 DEF ListDead, RunByHash
  <2> QED
    BY <1>0, <2>1
<1>5. CASE UNCHANGED <<executions, crashes, calls>>
  BY <1>0, <1>5
<1> QED
  BY <1>1, <1>2, <1>3, <1>4, <1>5 DEF Next, Work, Enqueue, LeaseSelect, LeaseClaim, Get,
     RunnerReturns, RunnerFails, MarkDone, MarkFailed, MarkDead, Restart, ListByStatus,
     EndRequeue, vars

LEMMA QueueInit == Init => QueueInv
<1> SUFFICES ASSUME Init PROVE QueueInv
  OBVIOUS
<1>1. [status |-> "absent", attempts |-> 0, failure |-> "none"] \in Job
  BY DEF Job, Statuses, Failures
<1>2. Idle \in Proc /\ Idle.pc = "idle" /\ Idle.attempt = 0 /\ Idle.todo = {}
  BY MaxAttemptsAssumption DEF Idle, Proc, PCs, Failures
<1>3. jobs \in [Hashes -> Job] /\ \A h \in Hashes : jobs[h].status = "absent"
  BY <1>1 DEF Init
<1>4. StateInv
  <2>1. order = <<>> /\ executions \in [Hashes -> Nat] /\ finished = {}
        /\ crashes \in 0..MaxCrashes /\ calls \in 0..MaxCalls
    BY BoundsAssumption DEF Init
  <2>2. proc \in [Workers -> Proc]
    BY <1>2 DEF Init
  <2> QED
    BY <1>3, <2>1, <2>2 DEF StateInv
<1>5. \A w \in Workers : WorkerInv(w)
  BY <1>2 DEF Init, WorkerInv, Holding
<1>6. DoneHasRun
  BY <1>3 DEF DoneHasRun
<1> QED
  BY <1>4, <1>5, <1>6 DEF QueueInv

LEMMA QueueStep == QueueInv /\ [Next]_vars => QueueInv'
<1> SUFFICES ASSUME QueueInv, [Next]_vars PROVE QueueInv'
  OBVIOUS
<1>1. StateInv /\ (\A w \in Workers : WorkerInv(w)) /\ DoneHasRun
  BY DEF QueueInv
<1>2. StateInv'
  BY <1>1, RowsStay, WorkersStep, OrderStep, CountsStep DEF StateInv
<1>3. DoneHasRun'
  BY <1>1, RowsStay DEF DoneHasRun
<1> QED
  BY <1>1, <1>2, <1>3, WorkersStep DEF QueueInv

LEMMA QueueInvariance == Spec => []QueueInv
BY QueueInit, QueueStep, PTL DEF Spec

\* However many workers share the file, every row, every worker and every counter is
\* of its type, and the rows are exactly the jobs that were enqueued.
THEOREM QueueTypeCorrect == Spec => []TypeOK
<1>1. QueueInv => TypeOK
  BY DEF QueueInv, StateInv, TypeOK
<1> QED
  BY QueueInvariance, <1>1, PTL

\* However many workers share the file and whenever they are killed, a job recorded
\* done has been run to the end.
THEOREM QueueDoneHasRun == Spec => []DoneHasRun
<1>1. QueueInv => DoneHasRun
  BY DEF QueueInv
<1> QED
  BY QueueInvariance, <1>1, PTL


-----------------------------------------------------------------------------
(* A sole worker *)

Open == {"queued", "running", "failed"}
Working == {"mark", "run", "commit", "fail", "bury"}

\* What one step writes into a row, and into what a worker holds.
Wrote(h, status, failure) ==
    /\ h \in Hashes
    /\ jobs'[h].status = status
    /\ jobs'[h].failure = failure
    /\ \A g \in Hashes : g # h => jobs'[g] = jobs[g]

Moved(w, pc, hash, attempt) ==
    proc'[w].pc = pc /\ proc'[w].hash = hash /\ proc'[w].attempt = attempt

LEMMA WroteFacts ==
    ASSUME jobs \in [Hashes -> Job], NEW h \in Hashes, NEW status, NEW failure, NEW attempts,
           Update(h, status, failure, attempts)
    PROVE  Wrote(h, status, failure)
BY DEF Update, Wrote

\* Every step of a worker, by what it reads and what it writes.
LEMMA Effects ==
    ASSUME StateInv, NEW w \in Workers, WorkerInv(w)
    PROVE
      /\ LeaseSelect(w) =>
           /\ UNCHANGED <<jobs, executions, crashes>> /\ proc[w].pc = "idle"
           /\ \E h \in Hashes : jobs[h].status = "queued" /\ Moved(w, "leasing", h, 0)
      /\ LeaseClaim(w) =>
           /\ proc[w].pc = "leasing" /\ UNCHANGED <<executions, crashes>>
           /\ Wrote(proc[w].hash, "running", "none") /\ Moved(w, "get", proc[w].hash, 0)
      /\ (\E h \in Hashes : RunByHash(w, h)) =>
           /\ UNCHANGED <<jobs, executions, crashes>> /\ proc[w].pc = "idle"
           /\ \E h \in Hashes : Moved(w, "get", h, 0)
      /\ Get(w) =>
           /\ UNCHANGED <<jobs, executions, crashes>> /\ proc[w].pc = "get"
           /\ \/ jobs[proc[w].hash].status \in {"done", "dead"} /\ proc'[w].pc = "idle"
              \/ /\ jobs[proc[w].hash].status \notin {"done", "dead"}
                 /\ Moved(w, "mark", proc[w].hash, 0)
      /\ MarkRunning(w) =>
           /\ proc[w].pc = "mark" /\ UNCHANGED crashes
           /\ Wrote(proc[w].hash, "running", "none")
           /\ executions' = [executions EXCEPT ![proc[w].hash] = @ + 1]
           /\ Moved(w, "run", proc[w].hash, proc[w].attempt + 1)
      /\ RunnerReturns(w) =>
           /\ UNCHANGED <<jobs, executions, crashes>> /\ proc[w].pc = "run"
           /\ Moved(w, "commit", proc[w].hash, proc[w].attempt)
      /\ RunnerFails(w) =>
           /\ UNCHANGED <<jobs, executions, crashes>> /\ proc[w].pc = "run"
           /\ \/ Moved(w, "fail", proc[w].hash, proc[w].attempt)
              \/ /\ Moved(w, "bury", proc[w].hash, proc[w].attempt)
                 /\ proc'[w].failure = "transient" => ~(proc[w].attempt < MaxAttempts)
      /\ MarkDone(w) =>
           /\ UNCHANGED <<executions, crashes>> /\ proc[w].pc = "commit"
           /\ Wrote(proc[w].hash, "done", "none") /\ proc'[w].pc = "idle"
      /\ MarkFailed(w) =>
           /\ UNCHANGED <<executions, crashes>> /\ proc[w].pc = "fail"
           /\ Wrote(proc[w].hash, "failed", proc[w].failure)
           /\ Moved(w, "mark", proc[w].hash, proc[w].attempt)
      /\ MarkDead(w) =>
           /\ UNCHANGED <<executions, crashes>> /\ proc[w].pc = "bury"
           /\ Wrote(proc[w].hash, "dead", proc[w].failure) /\ proc'[w].pc = "idle"
      /\ Crash(w) =>
           UNCHANGED <<jobs, executions>> /\ crashes' = crashes + 1 /\ proc'[w].pc = "down"
      /\ Restart(w) =>
           /\ UNCHANGED <<jobs, executions, crashes>> /\ proc[w].pc = "down"
           /\ proc'[w].pc = "list" /\ proc'[w].pending = Resumable
      /\ ListByStatus(w) =>
           /\ UNCHANGED <<jobs, executions, crashes>> /\ proc[w].pc = "list"
           /\ proc'[w].pc = "requeue" /\ proc[w].pending # <<>>
           /\ proc'[w].pending = Tail(proc[w].pending)
           /\ proc'[w].todo = {h \in Hashes : jobs[h].status = Head(proc[w].pending)}
      /\ ListDead(w) =>
           /\ UNCHANGED <<jobs, executions, crashes>> /\ proc[w].pc = "idle"
           /\ proc'[w].pc = "requeue" /\ \A h \in proc'[w].todo : h \in Hashes /\ jobs[h].status = "dead"
      /\ Requeue(w) =>
           /\ UNCHANGED crashes /\ proc[w].pc = "requeue" /\ proc'[w].pc = "requeue"
           /\ proc'[w].pending = proc[w].pending
           /\ \E h \in proc[w].todo :
                /\ Wrote(h, "queued", "none")
                /\ executions' = [executions EXCEPT ![h] = IF jobs[h].status = "dead" THEN 0 ELSE @]
                /\ proc'[w].todo = proc[w].todo \ {h}
      /\ EndRequeue(w) =>
           /\ UNCHANGED <<jobs, executions, crashes>> /\ proc[w].pc = "requeue" /\ proc[w].todo = {}
           /\ \/ proc[w].pending = <<>> /\ proc'[w].pc = "idle"
              \/ proc'[w].pc = "list" /\ proc'[w].pending = proc[w].pending
<1> DEFINE p == proc[w]
<1>0. /\ proc \in [Workers -> Proc] /\ p \in Proc /\ jobs \in [Hashes -> Job] /\ order \in Seq(Hashes)
      /\ p.pc \in Holding => p.hash \in Hashes
  BY DEF StateInv, WorkerInv, Known
<1>1. ASSUME NEW h, NEW pc, proc' = [proc EXCEPT ![w] = [@ EXCEPT !.pc = pc, !.hash = h]]
      PROVE  Moved(w, pc, h, p.attempt)
  BY <1>0, <1>1 DEF Moved, Proc
<1>2. ASSUME NEW pc, Goto(w, pc)
      PROVE  Moved(w, pc, p.hash, p.attempt) /\ proc'[w].pending = p.pending
  BY <1>0, <1>2 DEF Goto, Moved, Proc
<1>3. Return(w) => proc'[w].pc = "idle"
  BY <1>0 DEF Return, Idle
<1>4. p.pc \in {"idle", "leasing", "get"} => p.attempt = 0
  BY DEF WorkerInv
<1>5. LeaseSelect(w) =>
        /\ UNCHANGED <<jobs, executions, crashes>> /\ p.pc = "idle"
        /\ \E h \in Hashes : jobs[h].status = "queued" /\ Moved(w, "leasing", h, 0)
  <2> SUFFICES ASSUME LeaseSelect(w)
               PROVE  \E h \in Hashes : jobs[h].status = "queued" /\ Moved(w, "leasing", h, 0)
    BY DEF LeaseSelect, At
  <2>1. PICK i \in DOMAIN order :
          /\ jobs[order[i]].status = "queued"
          /\ proc' = [proc EXCEPT ![w] = [@ EXCEPT !.pc = "leasing", !.hash = order[i]]]
    BY DEF LeaseSelect, OldestQueued
  <2>2. order[i] \in Hashes /\ p.attempt = 0
    BY <1>0, <1>4, <2>1 DEF LeaseSelect, At
  <2> QED
    BY <1>1, <2>1, <2>2
<1>6. LeaseClaim(w) =>
        /\ p.pc = "leasing" /\ UNCHANGED <<executions, crashes>>
        /\ Wrote(p.hash, "running", "none") /\ Moved(w, "get", p.hash, 0)
  BY <1>0, <1>2, <1>4, WroteFacts DEF LeaseClaim, At, Holding
<1>7. (\E h \in Hashes : RunByHash(w, h)) =>
        /\ UNCHANGED <<jobs, executions, crashes>> /\ p.pc = "idle"
        /\ \E h \in Hashes : Moved(w, "get", h, 0)
  BY <1>1, <1>4 DEF RunByHash, At
<1>8. Get(w) =>
        /\ UNCHANGED <<jobs, executions, crashes>> /\ p.pc = "get"
        /\ \/ jobs[p.hash].status \in {"done", "dead"} /\ proc'[w].pc = "idle"
           \/ jobs[p.hash].status \notin {"done", "dead"} /\ Moved(w, "mark", p.hash, 0)
  BY <1>2, <1>3, <1>4 DEF Get, At
<1>9. MarkRunning(w) =>
        /\ p.pc = "mark" /\ UNCHANGED crashes
        /\ Wrote(p.hash, "running", "none")
        /\ executions' = [executions EXCEPT ![p.hash] = @ + 1]
        /\ Moved(w, "run", p.hash, p.attempt + 1)
  <2> SUFFICES ASSUME MarkRunning(w)
               PROVE  Wrote(p.hash, "running", "none") /\ Moved(w, "run", p.hash, p.attempt + 1)
    BY DEF MarkRunning, At
  <2>1. proc' = [proc EXCEPT ![w] = [p EXCEPT !.pc = "run", !.attempt = p.attempt + 1]]
    BY DEF MarkRunning
  <2>2. Moved(w, "run", p.hash, p.attempt + 1)
    BY <1>0, <2>1 DEF Moved, Proc
  <2> QED
    BY <1>0, <2>2, WroteFacts DEF MarkRunning, At, Holding
<1>10. RunnerReturns(w) =>
         /\ UNCHANGED <<jobs, executions, crashes>> /\ p.pc = "run"
         /\ Moved(w, "commit", p.hash, p.attempt)
  BY <1>2 DEF RunnerReturns, At
<1>11. RunnerFails(w) =>
         /\ UNCHANGED <<jobs, executions, crashes>> /\ p.pc = "run"
         /\ \/ Moved(w, "fail", p.hash, p.attempt)
            \/ /\ Moved(w, "bury", p.hash, p.attempt)
               /\ proc'[w].failure = "transient" => ~(p.attempt < MaxAttempts)
  <2>1. ASSUME NEW pc, NEW failure,
               proc' = [proc EXCEPT ![w] = [@ EXCEPT !.pc = pc, !.failure = failure]]
        PROVE  Moved(w, pc, p.hash, p.attempt) /\ proc'[w].failure = failure
    BY <1>0, <2>1 DEF Moved, Proc
  <2>2. ASSUME RunnerFails(w)
        PROVE  \/ Moved(w, "fail", p.hash, p.attempt)
               \/ /\ Moved(w, "bury", p.hash, p.attempt)
                  /\ proc'[w].failure = "transient" => ~(p.attempt < MaxAttempts)
    <3>1. CASE proc' = [proc EXCEPT ![w] =
                 [@ EXCEPT !.pc = IF ShouldRetry(p.attempt) THEN "fail" ELSE "bury",
                           !.failure = "transient"]]
      <4>1. CASE ShouldRetry(p.attempt)
        BY <2>1, <3>1, <4>1
      <4>2. CASE ~ShouldRetry(p.attempt)
        BY <2>1, <3>1, <4>2 DEF ShouldRetry
      <4> QED
        BY <4>1, <4>2
    <3>2. CASE proc' = [proc EXCEPT ![w] = [@ EXCEPT !.pc = "bury", !.failure = "permanent"]]
      <4>1. Moved(w, "bury", p.hash, p.attempt) /\ proc'[w].failure = "permanent"
        BY <2>1, <3>2
      <4> QED
        BY <4>1
    <3> QED
      BY <2>2, <3>1, <3>2 DEF RunnerFails
  <2> QED
    BY <2>2 DEF RunnerFails, At
<1>12. MarkDone(w) =>
         /\ UNCHANGED <<executions, crashes>> /\ p.pc = "commit"
         /\ Wrote(p.hash, "done", "none") /\ proc'[w].pc = "idle"
  BY <1>0, <1>3, WroteFacts DEF MarkDone, At, Holding
<1>13. MarkFailed(w) =>
         /\ UNCHANGED <<executions, crashes>> /\ p.pc = "fail"
         /\ Wrote(p.hash, "failed", p.failure) /\ Moved(w, "mark", p.hash, p.attempt)
  BY <1>0, <1>2, WroteFacts DEF MarkFailed, At, Holding
<1>14. MarkDead(w) =>
         /\ UNCHANGED <<executions, crashes>> /\ p.pc = "bury"
         /\ Wrote(p.hash, "dead", p.failure) /\ proc'[w].pc = "idle"
  BY <1>0, <1>3, WroteFacts DEF MarkDead, At, Holding
<1>15. Crash(w) =>
         UNCHANGED <<jobs, executions>> /\ crashes' = crashes + 1 /\ proc'[w].pc = "down"
  BY <1>0 DEF Crash, Idle
<1>16. Restart(w) =>
         /\ UNCHANGED <<jobs, executions, crashes>> /\ p.pc = "down"
         /\ proc'[w].pc = "list" /\ proc'[w].pending = Resumable
  BY <1>0 DEF Restart, At, Proc
<1>17. ListByStatus(w) =>
         /\ UNCHANGED <<jobs, executions, crashes>> /\ p.pc = "list"
         /\ proc'[w].pc = "requeue" /\ p.pending # <<>>
         /\ proc'[w].pending = Tail(p.pending)
         /\ proc'[w].todo = {h \in Hashes : jobs[h].status = Head(p.pending)}
  <2> SUFFICES ASSUME ListByStatus(w)
               PROVE  /\ p.pending # <<>>
                      /\ proc'[w].pc = "requeue"
                      /\ proc'[w].pending = Tail(p.pending)
                      /\ proc'[w].todo = {h \in Hashes : jobs[h].status = Head(p.pending)}
    BY DEF ListByStatus, At
  <2> DEFINE t == {h \in Hashes : jobs[h].status = Head(p.pending)}
             rest == Tail(p.pending)
  <2>1. proc' = [proc EXCEPT ![w] = [p EXCEPT !.pc = "requeue", !.pending = rest, !.todo = t]]
    BY DEF ListByStatus
  <2> HIDE DEF t, rest
  <2>2. proc'[w].pc = "requeue" /\ proc'[w].pending = rest /\ proc'[w].todo = t
    BY <1>0, <2>1 DEF Proc
  <2> QED
    BY <2>2 DEF t, rest, ListByStatus, At, WorkerInv
<1>18. ListDead(w) =>
         /\ UNCHANGED <<jobs, executions, crashes>> /\ p.pc = "idle"
         /\ proc'[w].pc = "requeue" /\ \A h \in proc'[w].todo : h \in Hashes /\ jobs[h].status = "dead"
  <2> SUFFICES ASSUME ListDead(w)
               PROVE  proc'[w].pc = "requeue" /\ \A h \in proc'[w].todo : h \in Hashes /\ jobs[h].status = "dead"
    BY DEF ListDead, At
  <2>1. PICK chosen \in SUBSET {h \in Hashes : jobs[h].status = "dead"} :
          proc' = [proc EXCEPT ![w] = [@ EXCEPT !.pc = "requeue", !.todo = chosen]]
    BY DEF ListDead
  <2>2. proc'[w].pc = "requeue" /\ proc'[w].todo = chosen
    BY <1>0, <2>1 DEF Proc
  <2> QED
    BY <2>2
<1>19. Requeue(w) =>
         /\ UNCHANGED crashes /\ p.pc = "requeue" /\ proc'[w].pc = "requeue"
         /\ proc'[w].pending = p.pending
         /\ \E h \in p.todo :
              /\ Wrote(h, "queued", "none")
              /\ executions' = [executions EXCEPT ![h] = IF jobs[h].status = "dead" THEN 0 ELSE @]
              /\ proc'[w].todo = p.todo \ {h}
  <2> SUFFICES ASSUME Requeue(w)
               PROVE  /\ proc'[w].pc = p.pc /\ proc'[w].pending = p.pending
                      /\ \E h \in p.todo :
                           /\ Wrote(h, "queued", "none")
                           /\ executions' = [executions EXCEPT ![h] = IF jobs[h].status = "dead"
                                                                      THEN 0 ELSE @]
                           /\ proc'[w].todo = p.todo \ {h}
    BY DEF Requeue, At
  <2>1. PICK h \in p.todo :
          /\ Update(h, "queued", "none", 0)
          /\ executions' = [executions EXCEPT ![h] = IF jobs[h].status = "dead" THEN 0 ELSE @]
          /\ proc' = [proc EXCEPT ![w].todo = @ \ {h}]
    BY DEF Requeue
  <2>2. proc'[w].pc = p.pc /\ proc'[w].pending = p.pending /\ proc'[w].todo = p.todo \ {h}
    BY <1>0, <2>1 DEF Proc
  <2>3. h \in Hashes
    BY DEF WorkerInv, Known
  <2> QED
    BY <1>0, <2>1, <2>2, <2>3, WroteFacts
<1>20. EndRequeue(w) =>
         /\ UNCHANGED <<jobs, executions, crashes>> /\ p.pc = "requeue" /\ p.todo = {}
         /\ \/ p.pending = <<>> /\ proc'[w].pc = "idle"
            \/ proc'[w].pc = "list" /\ proc'[w].pending = p.pending
  BY <1>2, <1>3 DEF EndRequeue, At, Moved
<1> QED
  BY <1>5, <1>6, <1>7, <1>8, <1>9, <1>10, <1>11, <1>12, <1>13, <1>14, <1>15, <1>16, <1>17,
     <1>18, <1>19, <1>20


Sole == \E w : Workers = {w}

Terminal == {"done", "dead"}

\* Nobody else touches the job that the sole worker holds: what it leased is queued,
\* what it runs is open, what it requeues is not done.  A run counts as an execution,
\* and only the last attempt buries a job for a transient failure.
HeldInv(w) ==
    /\ proc[w].pc = "leasing" => jobs[proc[w].hash].status = "queued"
    /\ proc[w].pc \in Working => /\ jobs[proc[w].hash].status \in Open
                                 /\ executions[proc[w].hash] >= proc[w].attempt
    /\ proc[w].pc = "bury" /\ proc[w].failure = "transient" => ~(proc[w].attempt < MaxAttempts)
    /\ proc[w].pc = "requeue" => \A h \in proc[w].todo : jobs[h].status \in Open \cup {"dead"}

Round(w, h) == IF proc[w].pc \in Working /\ proc[w].hash = h THEN proc[w].attempt ELSE 0

\* What an open job was executed before the last kill, and in this round.
CountInv(w) ==
    \A h \in Hashes :
        /\ jobs[h].status \in Terminal => executions[h] <= MaxAttempts * crashes + MaxAttempts
        /\ jobs[h].status \notin Terminal => executions[h] <= MaxAttempts * crashes + Round(w, h)
        /\ jobs[h].status = "dead" /\ jobs[h].failure = "transient" => executions[h] >= MaxAttempts

Rest(p) == {p[i] : i \in DOMAIN p}

\* A job that no lease would pick up is being run, or will be brought back.
CaredFor(w, h) ==
    \/ proc[w].pc = "down"
    \/ proc[w].pc \in Working \cup {"get"} /\ proc[w].hash = h
    \/ proc[w].pc \in {"list", "requeue"} /\ jobs[h].status \in Rest(proc[w].pending)
    \/ proc[w].pc = "requeue" /\ h \in proc[w].todo

CareInv(w) == \A h \in Hashes : jobs[h].status \in {"running", "failed"} => CaredFor(w, h)

Steps(w) == Work(w) \/ Crash(w) \/ ListDead(w) \/ \E h \in Hashes : RunByHash(w, h)

LEMMA ProcFacts ==
    ASSUME StateInv, NEW w \in Workers, WorkerInv(w)
    PROVE  /\ proc[w].attempt \in Nat /\ proc[w].attempt <= MaxAttempts
           /\ proc[w].todo \subseteq Hashes
           /\ proc[w].pc \in Holding => proc[w].hash \in Hashes
           /\ proc[w].pending \in {<<>>, <<"failed">>, <<"running", "failed">>, Resumable}
           /\ MaxAttempts \in Nat /\ crashes \in Nat
           /\ \A h \in Hashes : executions[h] \in Nat /\ jobs[h].status \in Statuses
BY MaxAttemptsAssumption, BoundsAssumption DEF StateInv, WorkerInv, Known, Proc, Job

LEMMA HeldStep ==
    ASSUME StateInv, NEW w \in Workers, WorkerInv(w), HeldInv(w), Steps(w)
    PROVE  HeldInv(w)'
<1> DEFINE p == proc[w]
<1>0. /\ p.attempt \in Nat /\ p.todo \subseteq Hashes
      /\ p.pc \in Holding => p.hash \in Hashes
      /\ p.pending \in {<<>>, <<"failed">>, <<"running", "failed">>, Resumable}
      /\ \A h \in Hashes : executions[h] \in Nat /\ jobs[h].status \in Statuses
      /\ executions \in [Hashes -> Nat]
  BY ProcFacts DEF StateInv
<1> USE DEF HeldInv, Working, Open
<1>1. CASE LeaseSelect(w) \/ \E h \in Hashes : RunByHash(w, h)
  BY <1>1, Effects DEF Moved
<1>2. CASE LeaseClaim(w)
  BY <1>2, Effects DEF Moved
<1>3. CASE Get(w)
  <2>1. CASE proc'[w].pc = "idle"
    BY <2>1
  <2>2. CASE jobs[p.hash].status \notin {"done", "dead"} /\ Moved(w, "mark", p.hash, 0)
    <3>1. p.hash \in Hashes /\ jobs[p.hash].status # "absent" /\ UNCHANGED <<jobs, executions>>
      BY <1>3, Effects DEF WorkerInv, Known, Holding
    <3>2. jobs[p.hash].status \in Open /\ executions[p.hash] >= 0
      BY <1>0, <2>2, <3>1 DEF Statuses
    <3> QED
      BY <2>2, <3>1, <3>2 DEF Moved
  <2> QED
    BY <1>3, <2>1, <2>2, Effects
<1>4. CASE MarkRunning(w)
  <2>1. /\ p.pc = "mark" /\ Wrote(p.hash, "running", "none")
        /\ executions' = [executions EXCEPT ![p.hash] = @ + 1]
        /\ Moved(w, "run", p.hash, p.attempt + 1)
    BY <1>4, Effects
  <2>2. p.hash \in Hashes /\ executions[p.hash] >= p.attempt
    BY <1>0, <2>1 DEF Holding
  <2>3. executions'[p.hash] >= p.attempt + 1
    BY <1>0, <2>1, <2>2
  <2> QED
    BY <2>1, <2>3 DEF Moved, Wrote
<1>5. CASE RunnerReturns(w)
  BY <1>5, Effects DEF Moved
<1>6. CASE RunnerFails(w)
  BY <1>6, Effects DEF Moved
<1>7. CASE MarkDone(w) \/ MarkDead(w) \/ Crash(w) \/ Restart(w)
  BY <1>7, Effects
<1>8. CASE MarkFailed(w)
  BY <1>8, Effects DEF Moved, Wrote
<1>9. CASE ListByStatus(w)
  <2>1. /\ UNCHANGED jobs /\ proc'[w].pc = "requeue" /\ p.pending # <<>>
        /\ proc'[w].todo = {h \in Hashes : jobs[h].status = Head(p.pending)}
    BY <1>9, Effects
  <2>2. Head(p.pending) \in {"queued", "running", "failed"}
    BY <1>0, <2>1, PendingFacts
  <2> QED
    BY <2>1, <2>2
<1>10. CASE ListDead(w)
  BY <1>10, Effects
<1>11. CASE Requeue(w)
  <2>1. /\ p.pc = "requeue" /\ proc'[w].pc = "requeue"
        /\ \E h \in p.todo : Wrote(h, "queued", "none") /\ proc'[w].todo = p.todo \ {h}
    BY <1>11, Effects
  <2> QED
    BY <1>0, <2>1 DEF Wrote
<1>12. CASE EndRequeue(w)
  BY <1>12, Effects
<1> QED
  BY <1>1, <1>2, <1>3, <1>4, <1>5, <1>6, <1>7, <1>8, <1>9, <1>10, <1>11, <1>12
     DEF Steps, Work

LEMMA Products ==
    \A m, n \in Nat : m * n \in Nat /\ m * (n + 1) = m * n + m /\ m * (1 + n) = m * n + m
OBVIOUS

LEMMA CountStep ==
    ASSUME StateInv, NEW w \in Workers, WorkerInv(w), HeldInv(w), CountInv(w), Steps(w)
    PROVE  CountInv(w)'
<1> DEFINE p == proc[w]
           B == MaxAttempts * crashes
<1>0. /\ p.attempt \in Nat /\ p.attempt <= MaxAttempts /\ p.todo \subseteq Hashes
      /\ p.pc \in Holding => p.hash \in Hashes
      /\ MaxAttempts \in Nat /\ crashes \in Nat
      /\ \A h \in Hashes : executions[h] \in Nat
      /\ executions \in [Hashes -> Nat]
  BY ProcFacts DEF StateInv
<1>0a. B \in Nat /\ MaxAttempts * (crashes + 1) = B + MaxAttempts
  BY <1>0, Products
<1> HIDE DEF B
<1>0b. \A h \in Hashes :
        /\ jobs[h].status \in Terminal => executions[h] <= B + MaxAttempts
        /\ jobs[h].status \notin Terminal => executions[h] <= B + Round(w, h)
        /\ jobs[h].status = "dead" /\ jobs[h].failure = "transient" => executions[h] >= MaxAttempts
        /\ Round(w, h) \in Nat /\ Round(w, h) <= MaxAttempts
  <2>1. \A h \in Hashes : Round(w, h) \in Nat /\ Round(w, h) <= MaxAttempts
    <3>1. \A h \in Hashes : Round(w, h) = p.attempt \/ Round(w, h) = 0
      BY DEF Round
    <3>2. 0 <= MaxAttempts
      BY <1>0
    <3> HIDE DEF p
    <3> TAKE h \in Hashes
    <3>3. CASE Round(w, h) = 0
      BY <3>2, <3>3
    <3>4. CASE Round(w, h) = p.attempt
      BY <1>0, <3>4
    <3> QED
      BY <3>1, <3>3, <3>4
  <2> QED
    BY <2>1 DEF CountInv, B
<1>1. ASSUME UNCHANGED <<jobs, executions, crashes>>,
             \A h \in Hashes : jobs[h].status \notin Terminal => Round(w, h)' = Round(w, h)
      PROVE  CountInv(w)'
  BY <1>0b, <1>1 DEF CountInv, B
<1>2. ASSUME NEW h, NEW status, NEW failure, Wrote(h, status, failure), UNCHANGED <<executions, crashes>>,
             \A g \in Hashes \ {h} : Round(w, g)' = Round(w, g),
             status \in Terminal => executions[h] <= B + MaxAttempts,
             status \notin Terminal => executions[h] <= B + Round(w, h)',
             status = "dead" /\ failure = "transient" => executions[h] >= MaxAttempts
      PROVE  CountInv(w)'
  BY <1>0b, <1>2 DEF CountInv, B, Wrote
<1>3. CASE LeaseSelect(w) \/ \E h \in Hashes : RunByHash(w, h)
  BY <1>1, <1>3, Effects DEF Moved, Round, Working
<1>4. CASE LeaseClaim(w)
  <2>1. /\ UNCHANGED <<executions, crashes>> /\ p.pc = "leasing"
        /\ Wrote(p.hash, "running", "none") /\ Moved(w, "get", p.hash, 0)
    BY <1>4, Effects
  <2>2. p.hash \in Hashes /\ jobs[p.hash].status = "queued"
    BY <1>0, <2>1 DEF HeldInv, Holding
  <2>3. \A h \in Hashes : Round(w, h)' = 0 /\ Round(w, h) = 0
    BY <2>1 DEF Round, Moved, Working
  <2>4. executions[p.hash] <= B + 0
    BY <1>0b, <2>2, <2>3 DEF Terminal
  <2> QED
    BY <1>2, <2>1, <2>2, <2>3, <2>4 DEF Terminal
<1>5. CASE Get(w)
  BY <1>1, <1>5, Effects DEF Moved, Round, Working
<1>6. CASE MarkRunning(w)
  <2>1. /\ UNCHANGED crashes /\ p.pc = "mark" /\ Wrote(p.hash, "running", "none")
        /\ executions' = [executions EXCEPT ![p.hash] = @ + 1]
        /\ Moved(w, "run", p.hash, p.attempt + 1)
    BY <1>6, Effects
  <2>2. PICK h \in Hashes : h = p.hash /\ jobs[h].status \in Open
    BY <1>0, <2>1 DEF HeldInv, Holding, Working
  <2>3. /\ Round(w, h) = p.attempt /\ Round(w, h)' = p.attempt + 1
        /\ \A g \in Hashes \ {h} : Round(w, g)' = Round(w, g)
    BY <2>1, <2>2 DEF Round, Moved, Working
  <2>4. executions[h] <= B + p.attempt
    BY <1>0b, <2>2, <2>3 DEF Terminal, Open
  <2>5. /\ executions'[h] <= B + (p.attempt + 1)
        /\ \A g \in Hashes \ {h} : executions'[g] = executions[g]
    BY <1>0, <1>0a, <2>1, <2>2, <2>4
  <2>6. jobs'[h].status = "running" /\ \A g \in Hashes \ {h} : jobs'[g] = jobs[g]
    BY <2>1, <2>2 DEF Wrote
  <2> HIDE DEF p
  <2>7. /\ "running" \notin Terminal
        /\ executions'[h] <= B + Round(w, h)'
        /\ \A g \in Hashes \ {h} :
              executions'[g] = executions[g] /\ jobs'[g] = jobs[g] /\ Round(w, g)' = Round(w, g)
    BY <2>3, <2>5, <2>6 DEF Terminal
  <2> QED
    BY <1>0b, <2>1, <2>6, <2>7 DEF CountInv, B
<1>7. CASE RunnerReturns(w) \/ RunnerFails(w)
  BY <1>1, <1>7, Effects DEF Moved, Round, Working
<1>8. CASE MarkDone(w) \/ MarkDead(w)
  <2>1. /\ UNCHANGED <<executions, crashes>> /\ p.pc \in {"commit", "bury"}
        /\ \/ Wrote(p.hash, "done", "none")
           \/ Wrote(p.hash, "dead", p.failure) /\ p.pc = "bury"
        /\ proc'[w].pc = "idle"
    BY <1>8, Effects
  <2>2. /\ p.hash \in Hashes /\ jobs[p.hash].status \in Open
        /\ executions[p.hash] >= p.attempt
    BY <1>0, <2>1 DEF HeldInv, Holding, Working
  <2>3. /\ Round(w, p.hash) = p.attempt
        /\ \A h \in Hashes \ {p.hash} : Round(w, h)' = Round(w, h)
    BY <2>1 DEF Round, Working
  <2>4. executions[p.hash] <= B + MaxAttempts
    <3>1. executions[p.hash] <= B + p.attempt
      BY <1>0b, <2>2, <2>3 DEF Terminal, Open
    <3> QED
      BY <1>0, <1>0a, <2>2, <3>1
  <2>5. p.pc = "bury" /\ p.failure = "transient" => executions[p.hash] >= MaxAttempts
    <3>1. p.pc = "bury" /\ p.failure = "transient" => ~(p.attempt < MaxAttempts)
      BY DEF HeldInv
    <3> QED
      BY <1>0, <2>2, <3>1
  <2>6. CASE Wrote(p.hash, "done", "none")
    BY <1>2, <2>1, <2>3, <2>4, <2>6 DEF Terminal
  <2>7. CASE Wrote(p.hash, "dead", p.failure) /\ p.pc = "bury"
    BY <1>2, <2>1, <2>3, <2>4, <2>5, <2>7 DEF Terminal
  <2> QED
    BY <2>1, <2>6, <2>7
<1>9. CASE MarkFailed(w)
  <2>1. /\ UNCHANGED <<executions, crashes>> /\ p.pc = "fail"
        /\ Wrote(p.hash, "failed", p.failure) /\ Moved(w, "mark", p.hash, p.attempt)
    BY <1>9, Effects
  <2>2. PICK h \in Hashes : h = p.hash /\ jobs[h].status \in Open
    BY <1>0, <2>1 DEF HeldInv, Holding, Working
  <2>3. \A g \in Hashes : Round(w, g)' = Round(w, g)
    BY <2>1 DEF Round, Moved, Working
  <2>4. executions[h] <= B + Round(w, h)'
    BY <1>0b, <2>2, <2>3 DEF Terminal, Open
  <2>5. Wrote(h, "failed", p.failure)
    BY <2>1, <2>2
  <2> QED
    BY <1>2, <2>1, <2>3, <2>4, <2>5 DEF Terminal
<1>10. CASE Crash(w)
  <2>1. UNCHANGED <<jobs, executions>> /\ crashes' = crashes + 1 /\ proc'[w].pc = "down"
    BY <1>10, Effects
  <2>2. \A h \in Hashes : Round(w, h)' = 0
    BY <2>1 DEF Round, Working
  <2>3. MaxAttempts * crashes' = B + MaxAttempts
    BY <1>0a, <2>1
  <2>4. \A h \in Hashes :
          /\ executions[h] <= B + MaxAttempts
          /\ executions[h] <= (B + MaxAttempts) + MaxAttempts
          /\ executions[h] <= (B + MaxAttempts) + 0
    <3> TAKE h \in Hashes
    <3>1. executions[h] <= B + MaxAttempts \/ executions[h] <= B + Round(w, h)
      BY <1>0b
    <3> QED
      BY <1>0, <1>0a, <1>0b, <3>1
  <2> QED
    BY <1>0b, <2>1, <2>2, <2>3, <2>4 DEF CountInv
<1>11. CASE Restart(w) \/ ListByStatus(w) \/ ListDead(w) \/ EndRequeue(w)
  BY <1>1, <1>11, Effects DEF Round, Working
<1>12. CASE Requeue(w)
  <2>1. PICK h \in p.todo :
          /\ Wrote(h, "queued", "none") /\ UNCHANGED crashes
          /\ executions' = [executions EXCEPT ![h] = IF jobs[h].status = "dead" THEN 0 ELSE @]
          /\ p.pc = "requeue" /\ proc'[w].pc = "requeue"
    BY <1>12, Effects
  <2>2. h \in Hashes /\ jobs[h].status \in Open \cup {"dead"}
    BY <1>0, <2>1 DEF HeldInv
  <2>3. \A g \in Hashes : Round(w, g)' = 0 /\ Round(w, g) = 0
    BY <2>1 DEF Round, Working
  <2>4. /\ executions'[h] <= B + 0
        /\ \A g \in Hashes \ {h} : executions'[g] = executions[g]
    <3>1. jobs[h].status \in Open => executions[h] <= B + 0
      BY <1>0b, <2>2, <2>3 DEF Open, Terminal
    <3> QED
      BY <1>0, <1>0a, <2>1, <2>2, <3>1 DEF Open
  <2>5. jobs'[h].status \notin Terminal /\ \A g \in Hashes \ {h} : jobs'[g] = jobs[g]
    BY <2>1 DEF Wrote, Terminal
  <2> QED
    BY <1>0b, <2>1, <2>3, <2>4, <2>5 DEF CountInv, B, Terminal
<1> QED
  BY <1>3, <1>4, <1>5, <1>6, <1>7, <1>8, <1>9, <1>10, <1>11, <1>12 DEF Steps, Work


LEMMA RestFacts ==
    ASSUME NEW p \in {<<>>, <<"failed">>, <<"running", "failed">>, Resumable}, p # <<>>
    PROVE  \A s \in Rest(p) : s = Head(p) \/ s \in Rest(Tail(p))
<1>1. CASE p = <<"failed">>
  BY <1>1 DEF Rest
<1>2. CASE p = <<"running", "failed">>
  BY <1>2 DEF Rest
<1>3. CASE p = <<"queued", "running", "failed">>
  BY <1>3 DEF Rest
<1> QED
  BY <1>1, <1>2, <1>3 DEF Resumable

LEMMA CareStep ==
    ASSUME StateInv, NEW w \in Workers, WorkerInv(w), CareInv(w), Steps(w)
    PROVE  CareInv(w)'
<1> DEFINE p == proc[w]
<1>0. /\ p.todo \subseteq Hashes
      /\ p.pending \in {<<>>, <<"failed">>, <<"running", "failed">>, Resumable}
  BY ProcFacts
<1>1. ASSUME UNCHANGED jobs, \A h \in Hashes : CaredFor(w, h) => CaredFor(w, h)'
      PROVE  CareInv(w)'
  BY <1>1 DEF CareInv
<1>2. ASSUME NEW h, NEW status, NEW failure, Wrote(h, status, failure),
             \A g \in Hashes \ {h} : jobs[g].status \in {"running", "failed"} /\ CaredFor(w, g) =>
                                        CaredFor(w, g)',
             status \in {"running", "failed"} => CaredFor(w, h)'
      PROVE  CareInv(w)'
  BY <1>2 DEF CareInv, Wrote
<1>3. CASE LeaseSelect(w) \/ \E h \in Hashes : RunByHash(w, h)
  BY <1>1, <1>3, Effects DEF CaredFor, Working
<1>4. CASE Get(w)
  <2>1. UNCHANGED jobs /\ p.pc = "get"
    BY <1>4, Effects
  <2>2. CASE jobs[p.hash].status \in {"done", "dead"}
    BY <2>1, <2>2 DEF CareInv, CaredFor, Working
  <2>3. CASE jobs[p.hash].status \notin {"done", "dead"}
    <3>1. Moved(w, "mark", p.hash, 0)
      BY <1>4, <2>3, Effects
    <3> QED
      BY <1>1, <2>1, <3>1 DEF CaredFor, Working, Moved
  <2> QED
    BY <2>2, <2>3
<1>5. ASSUME NEW status, NEW failure, NEW pc \in Working \cup {"get"}, NEW attempt,
             p.pc \in Working \cup {"leasing"},
             Wrote(p.hash, status, failure), Moved(w, pc, p.hash, attempt)
      PROVE  CareInv(w)'
  <2>1. PICK h \in Hashes : h = p.hash
    BY <1>5 DEF Wrote
  <2>2. CaredFor(w, h)'
    BY <1>5, <2>1 DEF CaredFor, Moved
  <2>3. \A g \in Hashes \ {h} : ~CaredFor(w, g)
    BY <1>5, <2>1 DEF CaredFor, Working
  <2> QED
    BY <1>2, <1>5, <2>1, <2>2, <2>3
<1>6. CASE LeaseClaim(w) \/ MarkRunning(w) \/ MarkFailed(w)
  <2>1. /\ \E failure : Wrote(p.hash, "running", failure) \/ Wrote(p.hash, "failed", failure)
        /\ \E attempt : \E pc \in Working \cup {"get"} : Moved(w, pc, p.hash, attempt)
        /\ p.pc \in Working \cup {"leasing"}
    BY <1>6, Effects DEF Working
  <2> QED
    BY <1>5, <2>1
<1>7. CASE RunnerReturns(w) \/ RunnerFails(w)
  BY <1>1, <1>7, Effects DEF CaredFor, Working, Moved
<1>8. CASE MarkDone(w) \/ MarkDead(w)
  <2>1. /\ \E failure : Wrote(p.hash, "done", failure) \/ Wrote(p.hash, "dead", failure)
        /\ p.pc \in Working
    BY <1>8, Effects DEF Working
  <2>2. \A g \in Hashes : g # p.hash => ~CaredFor(w, g)
    BY <2>1 DEF CaredFor, Working
  <2> QED
    BY <1>2, <2>1, <2>2
<1>9. CASE Crash(w)
  BY <1>1, <1>9, Effects DEF CaredFor
<1>10. CASE Restart(w)
  <2>1. UNCHANGED jobs /\ proc'[w].pc = "list" /\ proc'[w].pending = Resumable
    BY <1>10, Effects
  <2>2. "running" \in Rest(Resumable) /\ "failed" \in Rest(Resumable)
    <3>1. 2 \in DOMAIN Resumable /\ 3 \in DOMAIN Resumable
      BY DEF Resumable
    <3>2. Resumable[2] = "running" /\ Resumable[3] = "failed"
      BY DEF Resumable
    <3> QED
      BY <3>1, <3>2 DEF Rest
  <2> QED
    BY <2>1, <2>2 DEF CareInv, CaredFor
<1>11. CASE ListByStatus(w)
  <2>1. /\ UNCHANGED jobs /\ p.pc = "list" /\ p.pending # <<>> /\ proc'[w].pc = "requeue"
        /\ proc'[w].pending = Tail(p.pending)
        /\ proc'[w].todo = {h \in Hashes : jobs[h].status = Head(p.pending)}
    BY <1>11, Effects
  <2>2. \A s \in Rest(p.pending) : s = Head(p.pending) \/ s \in Rest(Tail(p.pending))
    BY <1>0, <2>1, RestFacts
  <2>3. \A h \in Hashes : jobs[h].status \in {"running", "failed"} => jobs[h].status \in Rest(p.pending)
    BY <2>1 DEF CareInv, CaredFor, Working
  <2> QED
    BY <2>1, <2>2, <2>3 DEF CareInv, CaredFor
<1>12. CASE ListDead(w)
  <2>1. UNCHANGED jobs /\ p.pc = "idle"
    BY <1>12, Effects
  <2> QED
    BY <2>1 DEF CareInv, CaredFor, Working
<1>13. CASE Requeue(w)
  <2>1. PICK h \in p.todo :
          /\ Wrote(h, "queued", "none") /\ p.pc = "requeue" /\ proc'[w].pc = "requeue"
          /\ proc'[w].pending = p.pending /\ proc'[w].todo = p.todo \ {h}
    BY <1>13, Effects
  <2>2. \A g \in Hashes \ {h} : CaredFor(w, g) => jobs[g].status \in Rest(p.pending) \/ g \in p.todo
    BY <2>1 DEF CaredFor, Working
  <2>3. \A g \in Hashes \ {h} : jobs'[g] = jobs[g]
    BY <2>1 DEF Wrote
  <2>4. \A g \in Hashes \ {h} : CaredFor(w, g) => CaredFor(w, g)'
    BY <2>1, <2>2, <2>3 DEF CaredFor
  <2> QED
    BY <1>2, <2>1, <2>4
<1>14. CASE EndRequeue(w)
  <2>1. /\ UNCHANGED jobs /\ p.pc = "requeue" /\ p.todo = {}
        /\ \/ p.pending = <<>> /\ proc'[w].pc = "idle"
           \/ proc'[w].pc = "list" /\ proc'[w].pending = p.pending
    BY <1>14, Effects
  <2>2. Rest(<<>>) = {}
    BY DEF Rest
  <2> QED
    BY <2>1, <2>2 DEF CareInv, CaredFor, Working
<1> QED
  BY <1>3, <1>4, <1>6, <1>7, <1>8, <1>9, <1>10, <1>11, <1>12, <1>13, <1>14 DEF Steps, Work

SoleInv == \A w \in Workers : HeldInv(w) /\ CountInv(w) /\ CareInv(w)

LEMMA SoleInit == Init => SoleInv
<1> SUFFICES ASSUME Init, NEW w \in Workers PROVE HeldInv(w) /\ CountInv(w) /\ CareInv(w)
  BY DEF SoleInv
<1>1. /\ proc[w] = Idle /\ crashes = 0
      /\ \A h \in Hashes : jobs[h].status = "absent" /\ executions[h] = 0
  BY DEF Init
<1>2. Idle.pc = "idle" /\ MaxAttempts * 0 = 0
  BY MaxAttemptsAssumption DEF Idle
<1>3. HeldInv(w) /\ CareInv(w)
  BY <1>1, <1>2 DEF HeldInv, CareInv, Working
<1>4. \A h \in Hashes : Round(w, h) = 0
  BY <1>1, <1>2 DEF Round, Working
<1> QED
  BY <1>1, <1>2, <1>3, <1>4 DEF CountInv, Terminal

\* What another client enqueues is a new row, which nobody holds yet.
LEMMA EnqueueKeeps ==
    ASSUME StateInv, NEW w \in Workers, WorkerInv(w), HeldInv(w), CountInv(w), CareInv(w),
           NEW h \in Hashes, Enqueue(h)
    PROVE  HeldInv(w)' /\ CountInv(w)' /\ CareInv(w)'
<1>1. /\ UNCHANGED <<proc, executions, crashes>> /\ jobs[h].status = "absent"
      /\ Wrote(h, "queued", "none")
  BY WroteFacts DEF Enqueue, StateInv
<1>2. /\ proc[w].pc \in Holding => proc[w].hash \in Hashes \ {h}
      /\ proc[w].todo \subseteq Hashes \ {h}
  BY <1>1 DEF WorkerInv, Known
<1>3. jobs'[h].status = "queued" /\ \A g \in Hashes \ {h} : jobs'[g] = jobs[g]
  BY <1>1 DEF Wrote
<1>4. \A g \in Hashes : Round(w, g)' = Round(w, g)
  BY <1>1 DEF Round
<1>5. HeldInv(w)'
  BY <1>1, <1>2, <1>3 DEF HeldInv, Holding, Working, Open
<1>6. CountInv(w)'
  BY <1>1, <1>3, <1>4 DEF CountInv, Terminal
<1>7. CareInv(w)'
  BY <1>1, <1>3 DEF CareInv, CaredFor
<1> QED
  BY <1>5, <1>6, <1>7

LEMMA SoleStep == Sole /\ QueueInv /\ SoleInv /\ [Next]_vars => SoleInv'
<1> SUFFICES ASSUME Sole, QueueInv, SoleInv, [Next]_vars, NEW w \in Workers
             PROVE  HeldInv(w)' /\ CountInv(w)' /\ CareInv(w)'
  BY DEF SoleInv
<1>1. StateInv /\ WorkerInv(w) /\ HeldInv(w) /\ CountInv(w) /\ CareInv(w)
  BY DEF QueueInv, SoleInv
<1>2. CASE \E h \in Hashes : Enqueue(h)
  BY <1>1, <1>2, EnqueueKeeps
<1>3. CASE \E v \in Workers : Steps(v)
  <2>1. Steps(w)
    BY <1>3 DEF Sole
  <2> QED
    BY <1>1, <2>1, HeldStep, CountStep, CareStep
<1>4. CASE UNCHANGED vars
  <2>1. UNCHANGED <<jobs, proc, executions, crashes>>
    BY <1>4 DEF vars
  <2> QED
    BY <1>1, <2>1 DEF HeldInv, CountInv, CareInv, Round, CaredFor
<1> QED
  BY <1>2, <1>3, <1>4 DEF Next, Steps

LEMMA SoleInvariance == ASSUME Sole PROVE Spec => [](QueueInv /\ SoleInv)
<1>1. QueueInv /\ SoleInv /\ [Next]_vars => (QueueInv /\ SoleInv)'
  BY QueueStep, SoleStep
<1>2. Init => QueueInv /\ SoleInv
  BY QueueInit, SoleInit
<1> QED
  BY <1>1, <1>2, PTL DEF Spec

\* What any count comes to, in a round or out of it.
LEMMA Bounded ==
    ASSUME QueueInv, SoleInv, Sole, NEW h \in Hashes
    PROVE  executions[h] <= MaxAttempts * (1 + crashes)
<1>1. PICK w \in Workers : StateInv /\ WorkerInv(w) /\ CountInv(w)
  BY DEF QueueInv, SoleInv, Sole
<1> DEFINE B == MaxAttempts * crashes
<1>2. /\ MaxAttempts \in Nat /\ B \in Nat /\ executions[h] \in Nat
      /\ proc[w].attempt \in Nat /\ proc[w].attempt <= MaxAttempts
      /\ MaxAttempts * (1 + crashes) = B + MaxAttempts
  BY <1>1, ProcFacts, Products
<1>3. \/ executions[h] <= B + MaxAttempts
      \/ executions[h] <= B + proc[w].attempt
      \/ executions[h] <= B + 0
  BY <1>1 DEF CountInv, Round
<1> HIDE DEF B
<1>4. executions[h] <= B + MaxAttempts
  BY <1>2, <1>3
<1> QED
  BY <1>2, <1>4

\* With a sole worker a job is executed at most max_attempts times for its enqueue or
\* re-drive and as often again for each kill, whatever an operator runs in between.
THEOREM QueueAttemptsPerKill == ASSUME Sole PROVE Spec => []AttemptsPerKill
<1>1. QueueInv /\ SoleInv => AttemptsPerKill
  BY Bounded DEF AttemptsPerKill
<1> QED
  BY SoleInvariance, <1>1, PTL

\* With a sole worker no transient failure dead-letters a job that was not executed
\* max_attempts times since it was enqueued or re-driven.
THEOREM QueueDeadAfterAllAttempts == ASSUME Sole PROVE Spec => []DeadAfterAllAttempts
<1>1. QueueInv /\ SoleInv => DeadAfterAllAttempts
  BY DEF SoleInv, Sole, CountInv, DeadAfterAllAttempts
<1> QED
  BY SoleInvariance, <1>1, PTL

\* A sole worker that is idle has left no job in a state that no lease would pick up,
\* wherever it was killed before.
THEOREM QueueNoneStranded == ASSUME Sole PROVE Spec => []NoneStranded
<1>1. QueueInv /\ SoleInv => NoneStranded
  BY DEF SoleInv, Sole, CareInv, CaredFor, Working, NoneStranded, At
<1> QED
  BY SoleInvariance, <1>1, PTL

\* With a sole worker nothing takes up a job that is done, and only a re-drive one that
\* is dead.
THEOREM QueueTerminalStays == ASSUME Sole PROVE Spec => TerminalStays
<1> DEFINE Act == \A h \in Hashes :
                    /\ jobs[h].status = "done" => jobs'[h].status = "done"
                    /\ jobs[h].status = "dead" => jobs'[h].status \in {"dead", "queued"}
<1>1. QueueInv /\ SoleInv /\ [Next]_vars => [Act]_vars
  <2> SUFFICES ASSUME QueueInv, SoleInv, Next PROVE Act
    OBVIOUS
  <2>1. CASE UNCHANGED jobs
    BY <2>1
  <2>2. ASSUME NEW g \in Hashes, NEW status, NEW failure, Wrote(g, status, failure),
               \/ jobs[g].status \in Open \cup {"absent"}
               \/ jobs[g].status = "dead" /\ status = "queued"
        PROVE  Act
    BY <2>2 DEF Wrote, Open
  <2>3. ASSUME NEW g \in Hashes, Enqueue(g) PROVE Act
    BY <2>2, <2>3, WroteFacts DEF Enqueue, QueueInv, StateInv
  <2>4. ASSUME NEW w \in Workers, Steps(w) PROVE Act
    <3>1. StateInv /\ WorkerInv(w) /\ HeldInv(w)
      BY DEF QueueInv, SoleInv
    <3>2. CASE LeaseClaim(w) \/ MarkRunning(w) \/ MarkDone(w) \/ MarkFailed(w) \/ MarkDead(w)
      <4>1. /\ proc[w].pc \in Working \cup {"leasing"}
            /\ \E status, failure : Wrote(proc[w].hash, status, failure)
        BY <3>1, <3>2, Effects DEF Working
      <4>2. jobs[proc[w].hash].status \in Open /\ proc[w].hash \in Hashes
        BY <3>1, <4>1 DEF HeldInv, Open, Wrote
      <4> QED
        BY <2>2, <4>1, <4>2
    <3>3. CASE Requeue(w)
      <4>1. PICK h \in proc[w].todo : Wrote(h, "queued", "none") /\ proc[w].pc = "requeue"
        BY <3>1, <3>3, Effects
      <4>2. h \in Hashes /\ jobs[h].status \in Open \cup {"dead"}
        BY <3>1, <4>1 DEF HeldInv, Wrote
      <4> QED
        BY <2>2, <4>1, <4>2
    <3>4. CASE UNCHANGED jobs
      BY <2>1, <3>4
    <3> QED
      BY <2>4, <3>2, <3>3, <3>4 DEF Steps, Work, LeaseSelect, Get, RunnerReturns, RunnerFails,
         Restart, ListByStatus, EndRequeue, Crash, ListDead, RunByHash
  <2> QED
    BY <2>3, <2>4 DEF Next, Steps
<1> QED
  BY SoleInvariance, <1>1, PTL DEF Spec, TerminalStays

=============================================================================
