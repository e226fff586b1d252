--------------------------- MODULE DownloadManager ---------------------------
(***************************************************************************)
(* The model-download scheduler of scala-model-library: the job table kept *)
(* under one mutex (download_manager.rs), the spawned attempt tasks that   *)
(* resolve, transfer, verify and install one acquisition (lib.rs), the     *)
(* per-acquisition file lock and the tasks that delete partial files.      *)
(*                                                                         *)
(* Bytes, rates, messages and paths are abstracted: a partial file is the  *)
(* pair of the model reference and the acquisition it resolved to.         *)
(***************************************************************************)
EXTENDS Integers, Sequences, FiniteSets

CONSTANTS
  JobIds,       \* job identifiers (fresh UUIDs); their number bounds admissions
  Refs,         \* model references a user can ask for
  Acqs,         \* canonical acquisition identities
  Resolves,     \* Resolves[r]: the acquisitions reference r may resolve to
  Limits,       \* values of server.max_parallel_model_downloads
  Keep,         \* MAX_RECENT_TERMINAL_JOBS
  MaxAttempts,  \* bound on the attempts of one job (its generation)
  MaxFiles,     \* bound on the files of one acquisition
  NoOne         \* the holder of a free acquisition lock

ASSUME ConstantsAssumption ==
  /\ Resolves \in [Refs -> SUBSET Acqs]
  /\ Limits \subseteq Nat
  /\ Keep \in Nat
  /\ MaxAttempts \in Nat \ {0}
  /\ MaxFiles \in Nat \ {0}

\* A free lock is told apart from a holder.
ASSUME NoOneAssumption == NoOne \notin JobIds \X (1..MaxAttempts)

VARIABLES
  maximum_parallel, \* State.maximum_parallel
  jobs,             \* State.jobs; phase "none" is an absent record
  order,            \* State.order
  queue,            \* State.queue
  active,           \* State.active
  issued,           \* the identifiers ModelDownloadJobId::new() has returned
  worker,           \* the spawned attempt tasks, by job and generation
  lock,             \* holder of each acquisition's file lock
  part,             \* partial files on disk
  installed,        \* acquisitions present below the managed root
  tidy,             \* partial files an Installed job's clean-up will delete
  cleanup           \* cancellation clean-up tasks, by job

manager == <<maximum_parallel, jobs, order, queue, active, issued>>
vars == <<maximum_parallel, jobs, order, queue, active, issued, worker,
          lock, part, installed, tidy, cleanup>>

Terminal == {"Installed", "Failed", "Cancelled"}
Phases == {"none", "Queued", "Resolving", "Downloading", "Paused",
           "Verifying", "Validating", "Installing"} \cup Terminal

Generations == 1..MaxAttempts
Attempts == JobIds \X Generations

\* A JobRecord. control is the generation of active_control, 0 for None.
Records == [ref : Refs \cup {NoOne}, phase : Phases, generation : Nat, control : Nat,
            resume : BOOLEAN, partials : SUBSET Acqs, pending : BOOLEAN]

NoRecord == [ref |-> NoOne, phase |-> "none", generation |-> 0, control |-> 0,
             resume |-> FALSE, partials |-> {}, pending |-> FALSE]

NewRecord(r) == [NoRecord EXCEPT !.ref = r, !.phase = "Queued"]

\* One attempt task. stop is the value its watch receiver would read.
Pcs == {"none", "resolve", "lock", "transfer", "verify", "validate",
        "install", "finish"}
Workers == [pc : Pcs, stop : BOOLEAN, acq : Acqs \cup {NoOne}, left : Nat,
            result : {"none", "Installed", "Failed"}]

NoWorker == [pc |-> "none", stop |-> FALSE, acq |-> NoOne, left |-> 0,
             result |-> "none"]

NoCleanup == [on |-> FALSE, acqs |-> {}, complete |-> TRUE]

AtLeastOne(n) == IF n > 1 THEN n ELSE 1

Init ==
  /\ maximum_parallel \in {AtLeastOne(n) : n \in Limits}
  /\ jobs = [id \in JobIds |-> NoRecord]
  /\ order = <<>>
  /\ queue = <<>>
  /\ active = {}
  /\ issued = {}
  /\ worker = [k \in Attempts |-> NoWorker]
  /\ lock = [a \in Acqs |-> NoOne]
  /\ part = {}
  /\ installed = {}
  /\ tidy = {}
  /\ cleanup = [id \in JobIds |-> NoCleanup]

-----------------------------------------------------------------------------
(* schedule_locked and prune_locked, which end every operation.            *)

\* retain: the entries of q that are in S, in their order.
Retaining(q, S) ==
  LET kept[n \in 0..Len(q)] ==
        IF n = 0 THEN <<>>
        ELSE IF q[n] \in S THEN Append(kept[n-1], q[n]) ELSE kept[n-1]
  IN  kept[Len(q)]

\* The jobs that popping the queue would start; the others are skipped.
Eligible(js) == {id \in JobIds : js[id].phase = "Queued" /\ js[id].control = 0}

StartedBy(js, q, n) == {q[i] : i \in 1..n} \cap Eligible(js)

Full(act, mx) == Cardinality(act) >= mx

\* How many entries the loop pops: until the slots are full or the queue is
\* empty.
Popped(js, q, act, mx) ==
  CHOOSE n \in 0..Len(q) :
    /\ n = Len(q) \/ Full(act \cup StartedBy(js, q, n), mx)
    /\ \A m \in 0..(n-1) : ~Full(act \cup StartedBy(js, q, m), mx)

Starting(js, S) ==
  [id \in JobIds |->
     IF id \in S
     THEN [js[id] EXCEPT !.phase = "Resolving", !.generation = @ + 1,
                         !.control = js[id].generation + 1]
     ELSE js[id]]

\* spawn_download_jobs: one task for each started attempt.
Spawning(wk, js, S) ==
  [k \in Attempts |->
     IF k[1] \in S /\ k[2] = js[k[1]].generation + 1
     THEN [NoWorker EXCEPT !.pc = "resolve"]
     ELSE wk[k]]

\* Mutant: a record is dropped although its attempt has not ended.
MUT_Prunable(rec) == rec.phase \in Terminal /\ ~rec.pending

Prunable(rec) == rec.phase \in Terminal /\ rec.control = 0 /\ ~rec.pending

\* The oldest terminal records: those with Keep or more behind them.
PrunedBy(js, ord) ==
  LET old == {i \in 1..Len(ord) : Prunable(js[ord[i]])}
  IN  {ord[i] : i \in {j \in old : Cardinality({l \in old : l > j}) >= Keep}}

\* Fill the free slots from the queue, then, if prune, drop old records.
schedule_locked(js, q, act, wk, ord, mx, prune) ==
  LET n == Popped(js, q, act, mx)
      S == StartedBy(js, q, n)
      started == Starting(js, S)
      gone == IF prune THEN PrunedBy(started, ord) ELSE {}
  IN  /\ queue' = SubSeq(q, n + 1, Len(q))
      /\ active' = act \cup S
      /\ worker' = Spawning(wk, js, S)
      /\ jobs' = [id \in JobIds |-> IF id \in gone THEN NoRecord ELSE started[id]]
      /\ order' = Retaining(ord, JobIds \ gone)

-----------------------------------------------------------------------------
(* The operations of the manager.                                          *)

\* Mutant: a cancelled job does not keep its reference.
MUT_Unsettled(rec) == rec.phase \notin Terminal \cup {"none"}

\* An unfinished job, or one whose cancellation clean-up is pending.
Unsettled(rec) == rec.phase \notin Terminal \cup {"none"} \/ rec.pending

Duplicate(r) == \E id \in JobIds : jobs[id].ref = r /\ Unsettled(jobs[id])

Admit(r) ==
  /\ ~Duplicate(r)
  /\ \E id \in JobIds \ issued :
       /\ issued' = issued \cup {id}
       /\ maximum_parallel' = maximum_parallel
       /\ schedule_locked([jobs EXCEPT ![id] = NewRecord(r)], Append(queue, id),
                          active, worker, Append(order, id), maximum_parallel, FALSE)
  /\ UNCHANGED <<lock, part, installed, tidy, cleanup>>

set_maximum_parallel(n) ==
  /\ maximum_parallel' = AtLeastOne(n)
  /\ schedule_locked(jobs, queue, active, worker, order, maximum_parallel', FALSE)
  /\ UNCHANGED <<issued, lock, part, installed, tidy, cleanup>>

\* Mutant: the job stays in the queue.
MUT_Without(q, id) == q

Without(q, id) == Retaining(q, JobIds \ {id})

\* Mutant: the slot is not given back.
MUT_Release(id) == active

\* active.remove(id).
Release(id) == active \ {id}

\* The send on the attempt's stop channel, if the job has an attempt.
Stopping(id) ==
  [k \in Attempts |->
     IF k[1] = id /\ k[2] = jobs[id].control
     THEN [worker[k] EXCEPT !.stop = TRUE]
     ELSE worker[k]]

pause(id) ==
  /\ jobs[id].phase \in {"Queued", "Resolving", "Downloading"}
  /\ LET paused == [jobs EXCEPT ![id].phase = "Paused", ![id].resume = FALSE]
     IN IF jobs[id].phase = "Queued"
        THEN schedule_locked(paused, Without(queue, id), active, worker, order, maximum_parallel, FALSE)
        ELSE schedule_locked(paused, queue, Release(id), Stopping(id), order, maximum_parallel, FALSE)
  /\ UNCHANGED <<maximum_parallel, issued, lock, part, installed, tidy, cleanup>>

\* While the paused attempt still runs, the resume waits for it to finish.
resume(id) ==
  /\ jobs[id].phase = "Paused"
  /\ jobs[id].generation < MaxAttempts
  /\ IF jobs[id].control # 0
     THEN schedule_locked([jobs EXCEPT ![id].resume = TRUE], queue, active,
                          worker, order, maximum_parallel, FALSE)
     ELSE schedule_locked([jobs EXCEPT ![id].phase = "Queued"], Append(queue, id),
                          active, worker, order, maximum_parallel, FALSE)
  /\ UNCHANGED <<maximum_parallel, issued, lock, part, installed, tidy, cleanup>>

\* take_cancellation_cleanup and the task apply_download_transition spawns.
CleaningUp(id) ==
  cleanup' = [cleanup EXCEPT ![id] =
                [on |-> TRUE, acqs |-> jobs[id].partials, complete |-> TRUE]]

cancel(id) ==
  /\ jobs[id].phase \in {"Queued", "Resolving", "Downloading", "Paused"}
  /\ LET pending == jobs[id].control # 0 \/ jobs[id].partials # {}
         clean == pending /\ jobs[id].control = 0
         cancelled == [jobs EXCEPT
                         ![id].phase = "Cancelled", ![id].resume = FALSE,
                         ![id].pending = pending,
                         ![id].partials = IF clean THEN {} ELSE @]
     IN /\ schedule_locked(cancelled, Without(queue, id), Release(id),
                           Stopping(id), order, maximum_parallel, TRUE)
        /\ IF clean THEN CleaningUp(id) ELSE UNCHANGED cleanup
  /\ UNCHANGED <<maximum_parallel, issued, lock, part, installed, tidy>>

-----------------------------------------------------------------------------
(* The attempt tasks. A step of a task is the work between two awaits. The *)
(* task looks at its stop channel when it is polled, so an attempt that is *)
(* told to stop may still take steps it had begun.                         *)

\* DownloadManager::update for an attempt's own progress: ignored when it is
\* not the current attempt or the job is paused or cancelled.
update(k, phase) ==
  [jobs EXCEPT ![k[1]].phase =
     IF jobs[k[1]].control = k[2] /\ @ \notin {"Paused", "Cancelled"}
     THEN phase ELSE @]

\* The attempt's download future returns; its lock guard is dropped.
Return(k, result) ==
  /\ worker' = [worker EXCEPT ![k].pc = "finish", ![k].result = result]
  /\ lock' = [a \in Acqs |-> IF lock[a] = k THEN NoOne ELSE lock[a]]

Goto(k, pc) == worker' = [worker EXCEPT ![k].pc = pc]

PathOf(k) == <<jobs[k[1]].ref, worker[k].acq>>

\* resolve() names the acquisition; its partial paths are registered.
Resolve(k) ==
  /\ worker[k].pc = "resolve"
  /\ \E a \in Resolves[jobs[k[1]].ref] :
       /\ worker' = [worker EXCEPT ![k].pc = "lock", ![k].acq = a]
       /\ jobs' = [jobs EXCEPT ![k[1]].partials =
                     IF jobs[k[1]].control = k[2] THEN @ \cup {a} ELSE @]
  /\ UNCHANGED <<maximum_parallel, order, queue, active, issued, lock, part,
                 installed, tidy, cleanup>>

\* Mutant: the file lock excludes nobody.
MUT_Available(a) == TRUE

\* lock_exclusive on the acquisition's lock file would succeed.
Available(a) == lock[a] = NoOne

\* The file lock is obtained: an acquisition already there settles the job,
\* otherwise its files are fetched one after the other into a new stage.
AcquireLock(k) ==
  /\ worker[k].pc = "lock"
  /\ Available(worker[k].acq)
  /\ \/ /\ worker[k].acq \in installed
        /\ jobs' = update(k, "Installed")
        /\ Return(k, "Installed")
     \/ /\ worker[k].acq \notin installed
        /\ lock' = [lock EXCEPT ![worker[k].acq] = k]
        /\ \E n \in 1..MaxFiles :
             worker' = [worker EXCEPT ![k].pc = "transfer", ![k].left = n]
        /\ UNCHANGED jobs
  /\ UNCHANGED <<maximum_parallel, order, queue, active, issued, part,
                 installed, tidy, cleanup>>

\* A chunk is appended to the partial file and reported.
DownloadChunk(k) ==
  /\ worker[k].pc = "transfer"
  /\ part' = part \cup {PathOf(k)}
  /\ jobs' = update(k, "Downloading")
  /\ UNCHANGED <<maximum_parallel, order, queue, active, issued, worker, lock,
                 installed, tidy, cleanup>>

\* The response ends; or a complete partial file was found and the transfer,
\* with its reports, is skipped.
DownloadEnd(k) ==
  /\ worker[k].pc = "transfer"
  /\ Goto(k, "verify")
  /\ \/ /\ part' = part \cup {PathOf(k)}
        /\ jobs' = update(k, "Verifying")
     \/ /\ PathOf(k) \in part
        /\ UNCHANGED <<part, jobs>>
  /\ UNCHANGED <<maximum_parallel, order, queue, active, issued, lock,
                 installed, tidy, cleanup>>

\* The digest matches and the file is copied into the stage; the partial is
\* kept. After the last file the stage is validated.
StageFile(k) ==
  /\ worker[k].pc = "verify"
  /\ PathOf(k) \in part
  /\ worker' = [worker EXCEPT ![k].left = @ - 1,
                              ![k].pc = IF worker[k].left > 1 THEN "transfer"
                                                              ELSE "validate"]
  /\ jobs' = IF worker[k].left > 1 THEN jobs ELSE update(k, "Validating")
  /\ UNCHANGED <<maximum_parallel, order, queue, active, issued, lock, part,
                 installed, tidy, cleanup>>

\* A digest mismatch deletes the partial file and fails the attempt.
DigestMismatch(k) ==
  /\ worker[k].pc = "verify"
  /\ part' = part \ {PathOf(k)}
  /\ Return(k, "Failed")
  /\ UNCHANGED <<manager, installed, tidy, cleanup>>

\* The stage is valid, its receipt is written and the destination is free.
Validate(k) ==
  /\ worker[k].pc = "validate"
  /\ worker[k].acq \notin installed
  /\ Goto(k, "install")
  /\ jobs' = update(k, "Installing")
  /\ UNCHANGED <<maximum_parallel, order, queue, active, issued, lock, part,
                 installed, tidy, cleanup>>

\* activate_stage renames the stage to the destination.
Install(k) ==
  /\ worker[k].pc = "install"
  /\ installed' = installed \cup {worker[k].acq}
  /\ jobs' = update(k, "Installed")
  /\ Return(k, "Installed")
  /\ UNCHANGED <<maximum_parallel, order, queue, active, issued, part, tidy,
                 cleanup>>

\* An error anywhere in the attempt: network, digest, package or disk.
AttemptFails(k) ==
  /\ worker[k].pc \notin {"none", "finish"}
  /\ Return(k, "Failed")
  /\ UNCHANGED <<manager, part, installed, tidy, cleanup>>

\* The biased select sees the stop signal and drops the download future. A
\* rename already handed to the blocking pool still happens; here it happens in
\* the step that drops the lock, in the code it may come shortly after it.
AttemptStops(k) ==
  /\ worker[k].pc \notin {"none", "finish"}
  /\ worker[k].stop
  /\ Return(k, "none")
  /\ \/ UNCHANGED installed
     \/ /\ worker[k].pc = "install"
        /\ installed' = installed \cup {worker[k].acq}
  /\ UNCHANGED <<manager, part, tidy, cleanup>>

\* Mutant: a resume asked for while the attempt ran is forgotten.
MUT_Requeues(rec) == FALSE

\* The end of the paused attempt a resume waits for.
Requeues(rec) == rec.phase = "Paused" /\ rec.resume

\* finish_attempt: the slot is released, a resume that waited is queued, a
\* cancelled job's partials are handed to its clean-up, else the result is
\* recorded and an installed job's partials are handed to deletion.
finish_attempt(k) ==
  LET id == k[1]
      rec == jobs[id]
      result == worker[k].result
      ended == [worker EXCEPT ![k] = NoWorker]
      requeue == Requeues(rec)
      settles == rec.phase \notin {"Paused", "Cancelled"} /\ result # "none"
      done == [rec EXCEPT
                 !.control = 0,
                 !.resume = IF requeue THEN FALSE ELSE @,
                 !.phase = IF requeue THEN "Queued"
                           ELSE IF settles THEN result ELSE @,
                 !.partials = IF rec.phase = "Cancelled"
                                 \/ (settles /\ result = "Installed")
                              THEN {} ELSE @]
  IN  /\ worker[k].pc = "finish"
      /\ rec.control = k[2]
      /\ schedule_locked([jobs EXCEPT ![id] = done],
                         IF requeue THEN Append(queue, id) ELSE queue,
                         Release(id), ended, order, maximum_parallel, TRUE)
      /\ IF rec.phase = "Cancelled" THEN CleaningUp(id) ELSE UNCHANGED cleanup
      /\ tidy' = IF settles /\ result = "Installed"
                 THEN tidy \cup ({rec.ref} \X rec.partials) ELSE tidy
      /\ UNCHANGED <<maximum_parallel, issued, lock, part, installed>>

-----------------------------------------------------------------------------
(* The deletion tasks, and the removal of an installed model.              *)

\* An Installed job's partial file is deleted; no lock is taken.
TidyPartial(p) ==
  /\ p \in tidy
  /\ tidy' = tidy \ {p}
  /\ part' = part \ {p}
  /\ UNCHANGED <<manager, worker, lock, installed, cleanup>>

\* A cancelled job's partial file is deleted under its acquisition's lock, or
\* the lock or the deletion fails and the clean-up stays pending.
CleanPartial(id, a) ==
  /\ cleanup[id].on
  /\ a \in cleanup[id].acqs
  /\ \/ /\ Available(a)
        /\ part' = part \ {<<jobs[id].ref, a>>}
        /\ cleanup' = [cleanup EXCEPT ![id].acqs = @ \ {a}]
     \/ /\ cleanup' = [cleanup EXCEPT ![id].acqs = @ \ {a}, ![id].complete = FALSE]
        /\ UNCHANGED part
  /\ UNCHANGED <<manager, worker, lock, installed, tidy>>

\* The clean-up ends; only a complete one is acknowledged.
acknowledge_cancellation_cleanup(id) ==
  LET acked == [jobs EXCEPT ![id].pending =
                  IF jobs[id].phase = "Cancelled" /\ jobs[id].control = 0
                  THEN FALSE ELSE @]
      gone == PrunedBy(acked, order)
  IN  /\ cleanup[id].on
      /\ cleanup[id].acqs = {}
      /\ cleanup' = [cleanup EXCEPT ![id].on = FALSE]
      /\ \/ /\ cleanup[id].complete
            /\ jobs' = [j \in JobIds |-> IF j \in gone THEN NoRecord ELSE acked[j]]
            /\ order' = Retaining(order, JobIds \ gone)
         \/ /\ ~cleanup[id].complete
            /\ UNCHANGED <<jobs, order>>
      /\ UNCHANGED <<maximum_parallel, queue, active, issued, worker, lock, part,
                     installed, tidy>>

\* ModelLibrary::remove, under the acquisition's lock.
RemoveModel(a) ==
  /\ a \in installed
  /\ Available(a)
  /\ installed' = installed \ {a}
  /\ UNCHANGED <<manager, worker, lock, part, tidy, cleanup>>

-----------------------------------------------------------------------------
\* What users do.
Request ==
  \/ \E r \in Refs : Admit(r)
  \/ \E n \in Limits : set_maximum_parallel(n)
  \/ \E id \in JobIds : pause(id) \/ resume(id) \/ cancel(id)
  \/ \E a \in Acqs : RemoveModel(a)

\* What moves an attempt on.
AttemptStep(k) ==
  \/ Resolve(k) \/ AcquireLock(k) \/ DownloadEnd(k) \/ StageFile(k)
  \/ Validate(k) \/ Install(k) \/ DigestMismatch(k)
  \/ AttemptStops(k) \/ finish_attempt(k)

CleanupStep(id) ==
  \/ \E a \in Acqs : CleanPartial(id, a)
  \/ acknowledge_cancellation_cleanup(id)

Next ==
  \/ Request
  \/ \E k \in Attempts : AttemptStep(k) \/ DownloadChunk(k) \/ AttemptFails(k)
  \/ \E id \in JobIds : CleanupStep(id)
  \/ \E p \in Refs \X Acqs : TidyPartial(p)

Spec == Init /\ [][Next]_vars

\* resolve() was answered: with an acquisition or with an error.
Resolved(k) == Resolve(k) \/ (worker[k].pc = "resolve" /\ AttemptFails(k))

\* Spawned tasks are polled by tokio until they end; a transfer ends because
\* the server answers or its connection fails.
Fairness ==
  /\ \A k \in Attempts : WF_vars(AttemptStep(k) \/ Resolved(k))
  /\ \A id \in JobIds : WF_vars(CleanupStep(id))

FairSpec == Spec /\ Fairness

-----------------------------------------------------------------------------
(* Properties.                                                             *)

TypeOK ==
  /\ maximum_parallel \in Nat \ {0}
  /\ jobs \in [JobIds -> Records]
  /\ order \in Seq(JobIds)
  /\ queue \in Seq(JobIds)
  /\ active \in SUBSET JobIds
  /\ issued \in SUBSET JobIds
  /\ worker \in [Attempts -> Workers]
  /\ lock \in [Acqs -> Attempts \cup {NoOne}]
  /\ part \in SUBSET (Refs \X Acqs)
  /\ installed \in SUBSET Acqs
  /\ tidy \in SUBSET (Refs \X Acqs)
  /\ cleanup \in [JobIds -> [on : BOOLEAN, acqs : SUBSET Acqs, complete : BOOLEAN]]

Live(k) == worker[k].pc # "none"

\* The queue holds exactly the Queued jobs, each once, and none of them waits
\* while a slot is free: every operation ends by filling the slots.
QueueIsServed ==
  /\ \A id \in JobIds :
       (jobs[id].phase = "Queued") <=> (\E i \in 1..Len(queue) : queue[i] = id)
  /\ \A i, j \in 1..Len(queue) : queue[i] = queue[j] => i = j
  /\ queue # <<>> => Cardinality(active) >= maximum_parallel

\* An attempt task that still runs is its job's current attempt: pausing,
\* resuming and cancelling never leave two attempts of one job, nor an attempt
\* whose record was pruned, so finish_attempt and progress are never stale.
OneAttempt == \A k \in Attempts : Live(k) => jobs[k[1]].control = k[2]

\* Cancellation removes partial data before the reference is eligible again:
\* while a cancelled job's clean-up is pending, no attempt of another job of
\* that reference can touch its partial files.
CleanupExclusive ==
  \A id \in JobIds, k \in Attempts :
    /\ jobs[id].pending
    /\ worker[k].pc \notin {"none", "finish"}
    /\ jobs[k[1]].ref = jobs[id].ref
    => k[1] = id

\* One attempt at a time stages an acquisition, and a waiter settles as already
\* installed: the destination cannot appear once the lock was obtained.
ExclusiveStaging ==
  \A k \in Attempts :
    worker[k].pc \in {"transfer", "verify", "validate", "install"} =>
      /\ lock[worker[k].acq] = k
      /\ worker[k].acq \notin installed

\* A queued job is eventually started, or taken out of the queue by its user.
QueuedIsServed ==
  \A id \in JobIds : jobs[id].phase = "Queued" ~> jobs[id].phase # "Queued"

\* A resume asked for while the paused attempt still runs is not lost, and a
\* cancellation's clean-up ends: acknowledged, or left pending by an error.
StopsAreCompleted ==
  \A id \in JobIds :
    /\ (jobs[id].phase = "Paused" /\ jobs[id].resume) ~> ~jobs[id].resume
    /\ jobs[id].pending ~> (~jobs[id].pending \/ ~cleanup[id].complete)
=============================================================================
