------------------------ MODULE DownloadManagerProofs ------------------------
(***************************************************************************)
(* Proofs about DownloadManager: whatever users and tasks do, a job never  *)
(* has two attempts, and a cancelled job's clean-up never meets another    *)
(* attempt of the same reference.                                          *)
(***************************************************************************)
EXTENDS DownloadManager, WellFoundedInduction, TLAPS

(* The inductive invariant, over a job table and a task table so that the  *)
(* same formula speaks of the tables schedule_locked is given and of the   *)
(* ones it leaves.                                                         *)

TypeInv(js, wk) ==
  /\ js \in [JobIds -> Records]
  /\ wk \in [Attempts -> Workers]

AttemptInv(js, wk) ==
  \A k \in Attempts : wk[k].pc # "none" => js[k[1]].control = k[2]

\* A running attempt belongs to a job that is not settled.
WorkingInv(js, wk) ==
  \A k \in Attempts :
    wk[k].pc \notin {"none", "finish"} =>
      js[k[1]].phase \notin {"none", "Installed", "Failed"}

CancelInv(js) ==
  \A id \in JobIds :
    /\ js[id].pending => js[id].phase = "Cancelled"
    /\ js[id].phase = "Cancelled" /\ js[id].control # 0 => js[id].pending
    /\ js[id].phase # "none" => js[id].ref \in Refs
    /\ js[id].phase = "none" => js[id].control = 0

RefInv(js) ==
  \A i, j \in JobIds :
    i # j /\ Unsettled(js[i]) /\ Unsettled(js[j]) => js[i].ref # js[j].ref

TableInv(js, wk) ==
  /\ TypeInv(js, wk)
  /\ AttemptInv(js, wk)
  /\ WorkingInv(js, wk)
  /\ CancelInv(js)
  /\ RefInv(js)

FreshInv == \A id \in JobIds : id \notin issued => jobs[id] = NoRecord

IndInv == TableInv(jobs, worker) /\ FreshInv

-----------------------------------------------------------------------------
\* Starting a queued job that has no attempt keeps the tables sound.
LEMMA StartingSound ==
  ASSUME NEW js, NEW wk, TableInv(js, wk),
         NEW S, S \subseteq Eligible(js)
  PROVE  TableInv(Starting(js, S), Spawning(wk, js, S))
<1> DEFINE js2 == Starting(js, S)
           wk2 == Spawning(wk, js, S)
<1>1. TypeInv(js2, wk2)
  <2>1. js2 \in [JobIds -> Records]
    <3> SUFFICES ASSUME NEW id \in S, id \in JobIds
                 PROVE  [js[id] EXCEPT !.phase = "Resolving", !.generation = @ + 1,
                           !.control = js[id].generation + 1] \in Records
      BY DEF TableInv, TypeInv, Starting
    <3>1. js[id] \in Records
      BY DEF TableInv, TypeInv
    <3>2. js[id].generation + 1 \in Nat
      BY <3>1 DEF Records
    <3> QED  BY <3>1, <3>2 DEF Records, Phases
  <2>2. [NoWorker EXCEPT !.pc = "resolve"] \in Workers
    BY DEF NoWorker, Workers, Pcs
  <2>3. wk2 \in [Attempts -> Workers]
    BY <2>2 DEF TableInv, TypeInv, Spawning
  <2> QED  BY <2>1, <2>3 DEF TypeInv
<1>2. \A id \in JobIds \ S : js2[id] = js[id]
  BY DEF Starting
<1>3. \A id \in S : /\ js[id].phase = "Queued" /\ js[id].control = 0
                    /\ js2[id].phase = "Resolving"
                    /\ js2[id].control = js[id].generation + 1
                    /\ js2[id].ref = js[id].ref
                    /\ js2[id].pending = js[id].pending
  BY DEF Starting, Eligible, TableInv, TypeInv, Records
<1>4. AttemptInv(js2, wk2)
  <2> SUFFICES ASSUME NEW k \in Attempts, wk2[k].pc # "none"
               PROVE  js2[k[1]].control = k[2]
    BY DEF AttemptInv
  <2>1. k[1] \in JobIds /\ k[2] \in Generations /\ k[2] # 0
    BY DEF Attempts, Generations
  <2>2. CASE k[1] \in S
    <3>1. wk[k].pc = "none"
      BY <1>3, <2>1, <2>2 DEF TableInv, AttemptInv
    <3>2. k[2] = js[k[1]].generation + 1
      BY <3>1 DEF Spawning
    <3> QED  BY <3>2, <1>3, <2>2
  <2>3. CASE k[1] \notin S
    BY <2>1, <2>3, <1>2 DEF TableInv, AttemptInv, Spawning
  <2> QED  BY <2>2, <2>3
<1>5. WorkingInv(js2, wk2)
  <2> SUFFICES ASSUME NEW k \in Attempts, wk2[k].pc \notin {"none", "finish"}
               PROVE  js2[k[1]].phase \notin {"none", "Installed", "Failed"}
    BY DEF WorkingInv
  <2>1. k[1] \in JobIds
    BY DEF Attempts
  <2>2. CASE k[1] \in S
    BY <1>3, <2>2
  <2>3. CASE k[1] \notin S
    BY <2>1, <2>3, <1>2 DEF TableInv, WorkingInv, Spawning
  <2> QED  BY <2>2, <2>3
<1>6. CancelInv(js2)
  BY <1>2, <1>3 DEF TableInv, CancelInv
<1>7. RefInv(js2)
  <2>1. \A id \in JobIds : Unsettled(js2[id]) => Unsettled(js[id]) /\ js2[id].ref = js[id].ref
    BY <1>2, <1>3 DEF Unsettled, Terminal
  <2> QED  BY <2>1 DEF TableInv, RefInv
<1> QED  BY <1>1, <1>4, <1>5, <1>6, <1>7 DEF TableInv

\* Dropping settled records keeps the tables sound.
LEMMA PruningSound ==
  ASSUME NEW js, NEW wk, TableInv(js, wk),
         NEW gone, \A id \in gone : Prunable(js[id]),
         NEW js2, js2 = [id \in JobIds |-> IF id \in gone THEN NoRecord ELSE js[id]]
  PROVE  TableInv(js2, wk)
<1>1. TypeInv(js2, wk)
  BY DEF TableInv, TypeInv, Records, NoRecord, Phases
<1>2. \A id \in JobIds : \/ js2[id] = js[id]
                         \/ js2[id] = NoRecord /\ Prunable(js[id])
  OBVIOUS
<1>3. NoRecord.phase = "none" /\ NoRecord.control = 0 /\ ~NoRecord.pending
  BY DEF NoRecord
<1>4. AttemptInv(js2, wk) /\ WorkingInv(js2, wk)
  <2> SUFFICES ASSUME NEW k \in Attempts, wk[k].pc # "none"
               PROVE  js2[k[1]] = js[k[1]]
    BY DEF TableInv, AttemptInv, WorkingInv
  <2>1. k[1] \in JobIds /\ js[k[1]].control # 0
    BY DEF TableInv, AttemptInv, Attempts, Generations
  <2> QED  BY <2>1, <1>2 DEF Prunable
<1>5. CancelInv(js2)
  BY <1>2, <1>3 DEF TableInv, CancelInv
<1>6. RefInv(js2)
  BY <1>2, <1>3 DEF TableInv, RefInv, Unsettled
<1> QED  BY <1>1, <1>4, <1>5, <1>6 DEF TableInv

\* The whole of schedule_locked (with its optional prune).
LEMMA ScheduleSound ==
  ASSUME NEW js, NEW q, NEW act, NEW wk, NEW ord, NEW mx, NEW prune \in BOOLEAN,
         TableInv(js, wk),
         schedule_locked(js, q, act, wk, ord, mx, prune)
  PROVE  /\ TableInv(jobs', worker')
         /\ \A id \in JobIds : js[id] = NoRecord => jobs'[id] = NoRecord
<1> DEFINE S == StartedBy(js, q, Popped(js, q, act, mx))
           started == Starting(js, S)
           gone == IF prune THEN PrunedBy(started, ord) ELSE {}
<1>1. /\ worker' = Spawning(wk, js, S)
      /\ jobs' = [id \in JobIds |-> IF id \in gone THEN NoRecord ELSE started[id]]
  BY DEF schedule_locked
<1>2. S \subseteq Eligible(js)
  BY DEF StartedBy
<1>3. TableInv(started, worker')
  BY <1>1, <1>2, StartingSound
<1>4. \A id \in gone : Prunable(started[id])
  BY DEF PrunedBy
<1>5. TableInv(jobs', worker')
  BY <1>1, <1>3, <1>4, PruningSound
<1>6. \A id \in JobIds : js[id] = NoRecord => jobs'[id] = NoRecord
  <2> SUFFICES ASSUME NEW id \in JobIds, js[id] = NoRecord
               PROVE  started[id] = NoRecord
    BY <1>1
  <2>1. js[id].phase # "Queued"
    BY DEF NoRecord
  <2>2. id \notin S
    BY <1>2, <2>1 DEF Eligible
  <2> QED  BY <2>2 DEF Starting
<1> QED  BY <1>5, <1>6

\* A step of a working attempt: it may report a later phase of its own job,
\* unless that job is paused or cancelled, and Installed only when it returns.
LEMMA AttemptSound ==
  ASSUME TableInv(jobs, worker),
         NEW k \in Attempts, worker[k].pc \notin {"none", "finish"},
         TypeInv(jobs', worker'),
         \A k2 \in Attempts : k2 # k => worker'[k2] = worker[k2],
         worker'[k].pc # "none",
         \A id \in JobIds : id # k[1] => jobs'[id] = jobs[id],
         jobs'[k[1]].control = jobs[k[1]].control,
         jobs'[k[1]].ref = jobs[k[1]].ref,
         jobs'[k[1]].pending = jobs[k[1]].pending,
         \/ jobs'[k[1]].phase = jobs[k[1]].phase
         \/ /\ jobs[k[1]].phase \notin {"Paused", "Cancelled"}
            /\ \/ jobs'[k[1]].phase \in {"Downloading", "Verifying",
                                        "Validating", "Installing"}
               \/ jobs'[k[1]].phase = "Installed" /\ worker'[k].pc = "finish"
  PROVE  TableInv(jobs', worker')
<1>1. k[1] \in JobIds /\ k[2] # 0
  BY DEF Attempts, Generations
<1>2. jobs[k[1]].phase \notin {"none", "Installed", "Failed"}
  BY DEF TableInv, WorkingInv
<1>3. AttemptInv(jobs', worker')
  <2> SUFFICES ASSUME NEW l \in Attempts, worker'[l].pc # "none"
               PROVE  jobs'[l[1]].control = l[2]
    BY DEF AttemptInv
  <2>1. worker[l].pc # "none"
    OBVIOUS
  <2>2. l[1] \in JobIds /\ jobs[l[1]].control = l[2]
    BY <2>1 DEF TableInv, AttemptInv, Attempts
  <2> QED  BY <2>2, <1>1
<1>4. WorkingInv(jobs', worker')
  <2> SUFFICES ASSUME NEW l \in Attempts, worker'[l].pc \notin {"none", "finish"}
               PROVE  jobs'[l[1]].phase \notin {"none", "Installed", "Failed"}
    BY DEF WorkingInv
  <2>1. worker[l].pc \notin {"none", "finish"}
    OBVIOUS
  <2>2. l[1] \in JobIds /\ jobs[l[1]].phase \notin {"none", "Installed", "Failed"}
    BY <2>1 DEF TableInv, WorkingInv, Attempts
  <2>3. CASE l[1] # k[1]
    BY <2>2, <2>3
  <2>4. CASE l[1] = k[1]
    <3>1. l[2] = k[2]
      BY <2>1, <2>4 DEF TableInv, AttemptInv
    <3>2. l = k
      BY <2>4, <3>1 DEF Attempts
    <3> QED  BY <3>2, <1>2
  <2> QED  BY <2>3, <2>4
<1>5. CancelInv(jobs')
  BY <1>1, <1>2 DEF TableInv, CancelInv
<1>6. RefInv(jobs')
  <2>1. \A id \in JobIds : Unsettled(jobs'[id]) => Unsettled(jobs[id]) /\ jobs'[id].ref = jobs[id].ref
    BY <1>1, <1>2 DEF TableInv, CancelInv, Unsettled, Terminal
  <2> QED  BY <2>1 DEF TableInv, RefInv
<1> QED  BY <1>3, <1>4, <1>5, <1>6 DEF TableInv

\* The empty job table.
LEMMA InitSound == Init => IndInv
  BY DEF Init, IndInv, TableInv, TypeInv, AttemptInv, WorkingInv, CancelInv, RefInv,
     FreshInv, Unsettled, NoRecord, NoWorker, Records, Workers, Phases, Pcs, Terminal,
     Attempts

\* The operations of the manager hand schedule_locked a sound table.
LEMMA AdmitSound ==
  ASSUME IndInv, NEW r \in Refs, Admit(r)
  PROVE  IndInv'
<1>1. PICK id \in JobIds \ issued :
        /\ issued' = issued \cup {id}
        /\ schedule_locked([jobs EXCEPT ![id] = NewRecord(r)], Append(queue, id),
                           active, worker, Append(order, id), maximum_parallel, FALSE)
  BY DEF Admit
<1> DEFINE js == [jobs EXCEPT ![id] = NewRecord(r)]
<1>2. /\ NewRecord(r) \in Records
      /\ NewRecord(r).phase = "Queued" /\ NewRecord(r).control = 0
      /\ NewRecord(r).ref = r /\ NewRecord(r).pending = FALSE
  BY DEF NewRecord, NoRecord, Records, Phases
<1>3. js \in [JobIds -> Records]
  BY <1>2 DEF IndInv, TableInv, TypeInv
<1>4. js[id] = NewRecord(r) /\ \A j \in JobIds : j # id => js[j] = jobs[j]
  BY DEF IndInv, TableInv, TypeInv
<1>5. jobs[id] = NoRecord
  BY <1>1 DEF IndInv, FreshInv
<1>6. \A k \in Attempts : worker[k].pc # "none" => k[1] \in JobIds /\ k[1] # id
  BY <1>5 DEF IndInv, TableInv, AttemptInv, NoRecord, Attempts, Generations
<1>7. AttemptInv(js, worker) /\ WorkingInv(js, worker)
  BY <1>4, <1>6 DEF IndInv, TableInv, AttemptInv, WorkingInv
<1>8. CancelInv(js)
  BY <1>2, <1>4 DEF IndInv, TableInv, CancelInv
<1>9. RefInv(js)
  <2>1. \A j \in JobIds : Unsettled(jobs[j]) => jobs[j].ref # r
    BY DEF Admit, Duplicate
  <2> QED  BY <1>2, <1>4, <2>1 DEF IndInv, TableInv, RefInv
<1>10. TableInv(js, worker)
  BY <1>3, <1>7, <1>8, <1>9 DEF IndInv, TableInv, TypeInv
<1>11. /\ TableInv(jobs', worker')
       /\ \A j \in JobIds : js[j] = NoRecord => jobs'[j] = NoRecord
  BY <1>1, <1>10, ScheduleSound
<1>12. FreshInv'
  BY <1>1, <1>4, <1>11 DEF IndInv, FreshInv
<1> QED  BY <1>11, <1>12 DEF IndInv

\* Changing one job's record before schedule_locked: the new record must agree
\* with the attempts the job has.
LEMMA RecordSound ==
  ASSUME IndInv, NEW id \in JobIds, NEW rec \in Records, NEW wk,
         wk \in [Attempts -> Workers],
         \A k \in Attempts : wk[k].pc \in {worker[k].pc, "none"},
         rec.ref = jobs[id].ref, jobs[id].phase # "none",
         Unsettled(rec) => Unsettled(jobs[id]),
         rec.phase # "none",
         \/ /\ rec.control = jobs[id].control
            /\ rec.phase \notin {"Installed", "Failed"}
         \/ \A k \in Attempts : k[1] = id => wk[k].pc = "none",
         rec.pending => rec.phase = "Cancelled",
         rec.phase = "Cancelled" /\ rec.control # 0 => rec.pending
  PROVE  /\ TableInv([jobs EXCEPT ![id] = rec], wk)
         /\ \A j \in JobIds : j \notin issued => [jobs EXCEPT ![id] = rec][j] = NoRecord
<1> DEFINE js == [jobs EXCEPT ![id] = rec]
<1>1. js \in [JobIds -> Records]
  BY DEF IndInv, TableInv, TypeInv
<1>2. js[id] = rec /\ \A j \in JobIds : j # id => js[j] = jobs[j]
  BY DEF IndInv, TableInv, TypeInv
<1>3. AttemptInv(js, wk)
  <2> SUFFICES ASSUME NEW k \in Attempts, wk[k].pc # "none"
               PROVE  js[k[1]].control = k[2]
    BY DEF AttemptInv
  <2>1. k[1] \in JobIds /\ jobs[k[1]].control = k[2]
    BY DEF IndInv, TableInv, AttemptInv, Attempts
  <2> QED  BY <1>2, <2>1
<1>4. WorkingInv(js, wk)
  <2> SUFFICES ASSUME NEW k \in Attempts, wk[k].pc \notin {"none", "finish"}
               PROVE  js[k[1]].phase \notin {"none", "Installed", "Failed"}
    BY DEF WorkingInv
  <2>1. k[1] \in JobIds /\ jobs[k[1]].phase \notin {"none", "Installed", "Failed"}
    BY DEF IndInv, TableInv, WorkingInv, Attempts
  <2> QED  BY <1>2, <2>1
<1>5. CancelInv(js)
  BY <1>2 DEF IndInv, TableInv, CancelInv
<1>6. RefInv(js)
  BY <1>2 DEF IndInv, TableInv, RefInv
<1>7. TableInv(js, wk)
  BY <1>1, <1>3, <1>4, <1>5, <1>6 DEF TableInv, TypeInv
<1>8. \A j \in JobIds : j \notin issued => js[j] = NoRecord
  <2> SUFFICES ASSUME NEW j \in JobIds, j \notin issued
               PROVE  js[j] = NoRecord
    OBVIOUS
  <2>1. jobs[j] = NoRecord
    BY DEF IndInv, FreshInv
  <2>2. j # id
    BY <2>1 DEF NoRecord
  <2> QED  BY <1>2, <2>1, <2>2
<1> QED  BY <1>7, <1>8

\* schedule_locked on a sound table ends a step that issues no identifier.
LEMMA OperationSound ==
  ASSUME NEW js, NEW q, NEW act, NEW wk, NEW ord, NEW mx, NEW prune \in BOOLEAN,
         TableInv(js, wk),
         \A j \in JobIds : j \notin issued => js[j] = NoRecord,
         schedule_locked(js, q, act, wk, ord, mx, prune),
         issued' = issued
  PROVE  IndInv'
<1>1. /\ TableInv(jobs', worker')
      /\ \A j \in JobIds : js[j] = NoRecord => jobs'[j] = NoRecord
  BY ScheduleSound
<1> QED  BY <1>1 DEF IndInv, FreshInv

\* Cancelling an attempt leaves where it is in the code alone.
LEMMA StoppingKeepsPc ==
  ASSUME TypeInv(jobs, worker), NEW id \in JobIds
  PROVE  /\ Stopping(id) \in [Attempts -> Workers]
         /\ \A k \in Attempts : Stopping(id)[k].pc = worker[k].pc
  BY DEF TypeInv, Stopping, Workers

\* A pause takes the job off the queue or stops its attempt.
LEMMA PauseSound ==
  ASSUME IndInv, NEW id \in JobIds, pause(id)
  PROVE  IndInv'
<1> DEFINE rec == [jobs[id] EXCEPT !.phase = "Paused", !.resume = FALSE]
<1>1. jobs \in [JobIds -> Records] /\ worker \in [Attempts -> Workers]
  BY DEF IndInv, TableInv, TypeInv
<1>2. /\ rec \in Records /\ rec.phase = "Paused" /\ rec.ref = jobs[id].ref
      /\ rec.control = jobs[id].control /\ rec.pending = jobs[id].pending
  BY <1>1 DEF Records, Phases
<1>3. [jobs EXCEPT ![id].phase = "Paused", ![id].resume = FALSE] = [jobs EXCEPT ![id] = rec]
  BY <1>1
<1>4. Unsettled(jobs[id]) /\ jobs[id].phase # "none" /\ ~jobs[id].pending
  BY DEF pause, Unsettled, Terminal, IndInv, TableInv, CancelInv
<1>5. issued' = issued
  BY DEF pause
<1>6. CASE jobs[id].phase = "Queued"
  <2>1. schedule_locked([jobs EXCEPT ![id] = rec], Without(queue, id), active, worker,
                        order, maximum_parallel, FALSE)
    BY <1>3, <1>6 DEF pause
  <2> HIDE DEF rec
  <2>2. /\ TableInv([jobs EXCEPT ![id] = rec], worker)
        /\ \A j \in JobIds : j \notin issued => [jobs EXCEPT ![id] = rec][j] = NoRecord
    BY <1>1, <1>2, <1>4, RecordSound
  <2> QED  BY <1>5, <2>1, <2>2, OperationSound
<1>7. CASE jobs[id].phase # "Queued"
  <2>1. schedule_locked([jobs EXCEPT ![id] = rec], queue, Release(id), Stopping(id),
                        order, maximum_parallel, FALSE)
    BY <1>3, <1>7 DEF pause
  <2>2. /\ Stopping(id) \in [Attempts -> Workers]
        /\ \A k \in Attempts : Stopping(id)[k].pc = worker[k].pc
    BY StoppingKeepsPc DEF IndInv, TableInv
  <2> HIDE DEF rec
  <2>3. /\ TableInv([jobs EXCEPT ![id] = rec], Stopping(id))
        /\ \A j \in JobIds : j \notin issued => [jobs EXCEPT ![id] = rec][j] = NoRecord
    BY <1>2, <1>4, <2>2, RecordSound
  <2> QED  BY <1>5, <2>1, <2>3, OperationSound
<1> QED  BY <1>6, <1>7

\* A resume queues the job, or waits for its attempt to end.
LEMMA ResumeSound ==
  ASSUME IndInv, NEW id \in JobIds, resume(id)
  PROVE  IndInv'
<1> DEFINE waits == [jobs[id] EXCEPT !.resume = TRUE]
           queued == [jobs[id] EXCEPT !.phase = "Queued"]
<1>1. jobs \in [JobIds -> Records] /\ worker \in [Attempts -> Workers]
  BY DEF IndInv, TableInv, TypeInv
<1>2. /\ waits \in Records /\ waits.phase = jobs[id].phase /\ waits.ref = jobs[id].ref
      /\ waits.control = jobs[id].control /\ waits.pending = jobs[id].pending
  BY <1>1 DEF Records, Phases
<1>3. /\ queued \in Records /\ queued.phase = "Queued" /\ queued.ref = jobs[id].ref
      /\ queued.control = jobs[id].control /\ queued.pending = jobs[id].pending
  BY <1>1 DEF Records, Phases
<1>4. /\ [jobs EXCEPT ![id].resume = TRUE] = [jobs EXCEPT ![id] = waits]
      /\ [jobs EXCEPT ![id].phase = "Queued"] = [jobs EXCEPT ![id] = queued]
  BY <1>1
<1>5. Unsettled(jobs[id]) /\ jobs[id].phase = "Paused" /\ ~jobs[id].pending
  BY DEF resume, Unsettled, Terminal, IndInv, TableInv, CancelInv
<1>6. issued' = issued
  BY DEF resume
<1>7. CASE jobs[id].control # 0
  <2>1. schedule_locked([jobs EXCEPT ![id] = waits], queue, active, worker,
                        order, maximum_parallel, FALSE)
    BY <1>4, <1>7 DEF resume
  <2> HIDE DEF waits
  <2>2. /\ TableInv([jobs EXCEPT ![id] = waits], worker)
        /\ \A j \in JobIds : j \notin issued => [jobs EXCEPT ![id] = waits][j] = NoRecord
    BY <1>1, <1>2, <1>5, RecordSound
  <2> QED  BY <1>6, <2>1, <2>2, OperationSound
<1>8. CASE jobs[id].control = 0
  <2>1. schedule_locked([jobs EXCEPT ![id] = queued], Append(queue, id), active, worker,
                        order, maximum_parallel, FALSE)
    BY <1>4, <1>8 DEF resume
  <2> HIDE DEF queued
  <2>2. /\ TableInv([jobs EXCEPT ![id] = queued], worker)
        /\ \A j \in JobIds : j \notin issued => [jobs EXCEPT ![id] = queued][j] = NoRecord
    BY <1>1, <1>3, <1>5, RecordSound
  <2> QED  BY <1>6, <2>1, <2>2, OperationSound
<1> QED  BY <1>7, <1>8

\* A cancellation, of a queued, running or paused job.
LEMMA CancelSound ==
  ASSUME IndInv, NEW id \in JobIds, cancel(id)
  PROVE  IndInv'
<1> DEFINE pending == jobs[id].control # 0 \/ jobs[id].partials # {}
           clean == pending /\ jobs[id].control = 0
           left == IF clean THEN {} ELSE jobs[id].partials
           rec == [jobs[id] EXCEPT !.phase = "Cancelled", !.resume = FALSE,
                                   !.pending = pending, !.partials = left]
<1>1. jobs \in [JobIds -> Records] /\ worker \in [Attempts -> Workers]
  BY DEF IndInv, TableInv, TypeInv
<1>2. left \in SUBSET Acqs /\ pending \in BOOLEAN
  BY <1>1 DEF Records
<1>3. /\ rec \in Records /\ rec.phase = "Cancelled" /\ rec.ref = jobs[id].ref
      /\ rec.control = jobs[id].control /\ rec.pending = pending
  <2> HIDE DEF left, pending
  <2> QED  BY <1>1, <1>2 DEF Records, Phases, Terminal
<1>4. schedule_locked([jobs EXCEPT ![id] = rec], Without(queue, id), Release(id),
                      Stopping(id), order, maximum_parallel, TRUE)
  <2>1. [jobs EXCEPT ![id].phase = "Cancelled", ![id].resume = FALSE,
                     ![id].pending = pending, ![id].partials = left]
          = [jobs EXCEPT ![id] = rec]
    <3> HIDE DEF left, pending
    <3> QED  BY <1>1
  <2> QED  BY <2>1 DEF cancel
<1>5. Unsettled(jobs[id]) /\ jobs[id].phase # "none"
  BY DEF cancel, Unsettled, Terminal
<1>6. rec.control # 0 => rec.pending
  BY <1>3
<1>7. /\ Stopping(id) \in [Attempts -> Workers]
      /\ \A k \in Attempts : Stopping(id)[k].pc = worker[k].pc
  BY StoppingKeepsPc DEF IndInv, TableInv
<1>8. issued' = issued
  BY DEF cancel
<1> HIDE DEF rec
<1>9. /\ TableInv([jobs EXCEPT ![id] = rec], Stopping(id))
      /\ \A j \in JobIds : j \notin issued => [jobs EXCEPT ![id] = rec][j] = NoRecord
  BY <1>3, <1>5, <1>6, <1>7, RecordSound
<1> QED  BY <1>4, <1>8, <1>9, OperationSound

\* A new limit schedules queued jobs.
LEMMA SetMaximumSound ==
  ASSUME IndInv, NEW n \in Limits, set_maximum_parallel(n)
  PROVE  IndInv'
<1>1. schedule_locked(jobs, queue, active, worker, order, maximum_parallel', FALSE)
  BY DEF set_maximum_parallel
<1>2. issued' = issued
  BY DEF set_maximum_parallel
<1> QED  BY <1>1, <1>2, OperationSound DEF IndInv, FreshInv

\* Only the current attempt of a job ends it, so no attempt is left behind.
LEMMA FinishSound ==
  ASSUME IndInv, NEW k \in Attempts, finish_attempt(k)
  PROVE  IndInv'
<1> DEFINE id == k[1]
           old == jobs[id]
           result == worker[k].result
           ended == [worker EXCEPT ![k] = NoWorker]
           requeue == Requeues(old)
           settles == old.phase \notin {"Paused", "Cancelled"} /\ result # "none"
           resumes == IF requeue THEN FALSE ELSE old.resume
           phase == IF requeue THEN "Queued" ELSE IF settles THEN result ELSE old.phase
           kept == IF old.phase = "Cancelled" \/ (settles /\ result = "Installed")
                   THEN {} ELSE old.partials
           rec == [old EXCEPT !.control = 0, !.resume = resumes, !.phase = phase,
                              !.partials = kept]
<1>1. jobs \in [JobIds -> Records] /\ worker \in [Attempts -> Workers] /\ id \in JobIds
  BY DEF IndInv, TableInv, TypeInv, Attempts
<1>2. old \in Records /\ worker[k] \in Workers
  BY <1>1
<1>3. resumes \in BOOLEAN /\ phase \in Phases /\ kept \in SUBSET Acqs
  BY <1>2 DEF Records, Workers, Phases, Terminal
<1>4. /\ rec \in Records /\ rec.phase = phase /\ rec.ref = old.ref
      /\ rec.control = 0 /\ rec.pending = old.pending
  <2> HIDE DEF resumes, phase, kept, old
  <2> QED  BY <1>2, <1>3 DEF Records
<1>5. /\ worker[k].pc = "finish" /\ old.control = k[2] /\ issued' = issued
      /\ schedule_locked([jobs EXCEPT ![id] = rec],
                         IF requeue THEN Append(queue, id) ELSE queue,
                         Release(id), ended, order, maximum_parallel, TRUE)
  BY DEF finish_attempt
<1>6. ended \in [Attempts -> Workers]
  BY <1>1 DEF NoWorker, Workers, Pcs
<1>7. \A l \in Attempts : ended[l].pc \in {worker[l].pc, "none"}
  BY <1>1 DEF NoWorker
<1>8. \A l \in Attempts : l[1] = id => ended[l].pc = "none"
  <2> SUFFICES ASSUME NEW l \in Attempts, l[1] = id, worker[l].pc # "none"
               PROVE  l = k
    BY <1>1, <1>7 DEF NoWorker
  <2>1. l[2] = k[2]
    BY <1>5 DEF IndInv, TableInv, AttemptInv
  <2> QED  BY <2>1 DEF Attempts
<1>9. old.phase # "none"
  <2>1. old.control # 0
    BY <1>5 DEF Attempts, Generations
  <2> QED  BY <2>1, <1>1 DEF IndInv, TableInv, CancelInv
<1>10. /\ phase # "none"
       /\ Unsettled(rec) => Unsettled(old)
       /\ rec.pending => rec.phase = "Cancelled"
  <2>1. old.pending => old.phase = "Cancelled"
    BY <1>1 DEF IndInv, TableInv, CancelInv
  <2>2. result \in {"none", "Installed", "Failed"}
    BY <1>2 DEF Workers
  <2> QED  BY <1>4, <1>9, <2>1, <2>2 DEF Unsettled, Terminal, Requeues
<1> HIDE DEF rec, ended, phase
<1>11. /\ TableInv([jobs EXCEPT ![id] = rec], ended)
       /\ \A j \in JobIds : j \notin issued => [jobs EXCEPT ![id] = rec][j] = NoRecord
  BY <1>1, <1>4, <1>6, <1>7, <1>8, <1>9, <1>10, RecordSound
<1> QED  BY <1>5, <1>11, OperationSound

\* The clean-up is acknowledged.
LEMMA AcknowledgeSound ==
  ASSUME IndInv, NEW id \in JobIds, acknowledge_cancellation_cleanup(id)
  PROVE  IndInv'
<1> DEFINE flag == IF jobs[id].phase = "Cancelled" /\ jobs[id].control = 0
                   THEN FALSE ELSE jobs[id].pending
           rec == [jobs[id] EXCEPT !.pending = flag]
           acked == [jobs EXCEPT ![id].pending = flag]
           gone == PrunedBy(acked, order)
<1>1. jobs \in [JobIds -> Records] /\ worker \in [Attempts -> Workers]
  BY DEF IndInv, TableInv, TypeInv
<1>2. issued' = issued /\ worker' = worker
  BY DEF acknowledge_cancellation_cleanup
<1>3. CASE jobs' = jobs
  BY <1>2, <1>3 DEF IndInv, TableInv, TypeInv, AttemptInv, WorkingInv, CancelInv,
     RefInv, FreshInv
<1>4. CASE jobs' = [j \in JobIds |-> IF j \in gone THEN NoRecord ELSE acked[j]]
  <2>1. TableInv(acked, worker) /\ \A j \in JobIds : j \notin issued => acked[j] = NoRecord
    <3>1. CASE jobs[id].phase = "Cancelled" /\ jobs[id].control = 0
      <4>1. /\ rec \in Records /\ rec.phase = "Cancelled" /\ rec.ref = jobs[id].ref
            /\ rec.control = 0 /\ ~rec.pending
        BY <1>1, <3>1 DEF Records
      <4>2. acked = [jobs EXCEPT ![id] = rec]
        BY <1>1
      <4>3. ~Unsettled(rec)
        BY <4>1 DEF Unsettled, Terminal
      <4> HIDE DEF rec
      <4>4. /\ TableInv([jobs EXCEPT ![id] = rec], worker)
            /\ \A j \in JobIds : j \notin issued => [jobs EXCEPT ![id] = rec][j] = NoRecord
        BY <1>1, <3>1, <4>1, <4>3, RecordSound
      <4> QED  BY <4>2, <4>4
    <3>2. CASE ~(jobs[id].phase = "Cancelled" /\ jobs[id].control = 0)
      <4>1. acked = jobs
        BY <1>1, <3>2 DEF Records
      <4> QED  BY <4>1 DEF IndInv, FreshInv
    <3> QED  BY <3>1, <3>2
  <2>2. \A j \in gone : Prunable(acked[j])
    <3> HIDE DEF acked
    <3> QED  BY DEF PrunedBy
  <2> HIDE DEF acked, gone
  <2>3. TableInv(jobs', worker)
    BY <1>4, <2>1, <2>2, PruningSound
  <2> QED  BY <1>2, <1>4, <2>1, <2>3 DEF IndInv, FreshInv
<1> QED  BY <1>3, <1>4 DEF acknowledge_cancellation_cleanup

\* What progress may change in the job table.
LEMMA UpdateEffect ==
  ASSUME TypeInv(jobs, worker), NEW k \in Attempts, NEW ph \in Phases
  PROVE  /\ update(k, ph) \in [JobIds -> Records]
         /\ \A id \in JobIds : id # k[1] => update(k, ph)[id] = jobs[id]
         /\ update(k, ph)[k[1]].control = jobs[k[1]].control
         /\ update(k, ph)[k[1]].ref = jobs[k[1]].ref
         /\ update(k, ph)[k[1]].pending = jobs[k[1]].pending
         /\ \/ update(k, ph)[k[1]].phase = jobs[k[1]].phase
            \/ /\ jobs[k[1]].phase \notin {"Paused", "Cancelled"}
               /\ update(k, ph)[k[1]].phase = ph
<1> DEFINE new == IF jobs[k[1]].control = k[2] /\ jobs[k[1]].phase \notin {"Paused", "Cancelled"}
                  THEN ph ELSE jobs[k[1]].phase
<1>1. k[1] \in JobIds /\ jobs[k[1]] \in Records /\ jobs \in [JobIds -> Records]
  BY DEF TypeInv, Attempts
<1>2. new \in Phases
  BY <1>1 DEF Records
<1>3. update(k, ph) = [jobs EXCEPT ![k[1]].phase = new]
  BY DEF update
<1>4. new = jobs[k[1]].phase \/ (jobs[k[1]].phase \notin {"Paused", "Cancelled"} /\ new = ph)
  OBVIOUS
<1> HIDE DEF new
<1> QED  BY <1>1, <1>2, <1>3, <1>4 DEF Records

\* What a step of a working attempt changes of its task and of its job.
LEMMA AttemptStepEffect ==
  ASSUME IndInv, NEW k \in Attempts,
         \/ Resolve(k) \/ AcquireLock(k) \/ DownloadChunk(k) \/ DownloadEnd(k)
         \/ StageFile(k) \/ DigestMismatch(k) \/ Validate(k) \/ Install(k)
         \/ AttemptFails(k) \/ AttemptStops(k)
  PROVE  /\ issued' = issued /\ jobs[k[1]].phase # "none"
         /\ worker' \in [Attempts -> Workers]
         /\ \A k2 \in Attempts : k2 # k => worker'[k2] = worker[k2]
         /\ worker[k].pc \notin {"none", "finish"} /\ worker'[k].pc # "none"
         /\ jobs' \in [JobIds -> Records]
         /\ \A id \in JobIds : id # k[1] => jobs'[id] = jobs[id]
         /\ jobs'[k[1]].control = jobs[k[1]].control
         /\ jobs'[k[1]].ref = jobs[k[1]].ref
         /\ jobs'[k[1]].pending = jobs[k[1]].pending
         /\ \/ jobs'[k[1]].phase = jobs[k[1]].phase
            \/ /\ jobs[k[1]].phase \notin {"Paused", "Cancelled"}
               /\ \/ jobs'[k[1]].phase \in {"Downloading", "Verifying",
                                           "Validating", "Installing"}
                  \/ jobs'[k[1]].phase = "Installed" /\ worker'[k].pc = "finish"
<1>1. /\ TypeInv(jobs, worker) /\ k[1] \in JobIds /\ worker[k] \in Workers
      /\ jobs[k[1]] \in Records
      /\ jobs \in [JobIds -> Records] /\ worker \in [Attempts -> Workers]
  BY DEF IndInv, TableInv, TypeInv, Attempts
<1>2. issued' = issued /\ worker[k].pc \notin {"none", "finish"}
  BY DEF Resolve, AcquireLock, DownloadChunk, DownloadEnd, StageFile, DigestMismatch,
     Validate, Install, AttemptFails, AttemptStops, manager
<1>3. jobs[k[1]].phase # "none"
  BY <1>1, <1>2 DEF IndInv, TableInv, WorkingInv
<1>4. /\ worker' \in [Attempts -> Workers]
      /\ \A k2 \in Attempts : k2 # k => worker'[k2] = worker[k2]
      /\ worker'[k].pc # "none"
  <2>1. CASE Resolve(k)
    <3>1. PICK a \in Resolves[jobs[k[1]].ref] :
             worker' = [worker EXCEPT ![k].pc = "lock", ![k].acq = a]
      BY <2>1 DEF Resolve
    <3>2. a \in Acqs
      BY <1>1, <1>3, ConstantsAssumption DEF IndInv, TableInv, CancelInv
    <3> QED  BY <1>1, <3>1, <3>2 DEF Workers, Pcs
  <2>2. CASE AcquireLock(k)
    BY <1>1, <2>2 DEF AcquireLock, Return, Workers, Pcs
  <2>3. CASE DownloadChunk(k)
    BY <1>1, <1>2, <2>3 DEF DownloadChunk
  <2>4. CASE DownloadEnd(k) \/ Validate(k)
    BY <1>1, <2>4 DEF DownloadEnd, Validate, Goto, Workers, Pcs
  <2>5. CASE StageFile(k)
    BY <1>1, <2>5 DEF StageFile, Workers, Pcs
  <2>6. CASE DigestMismatch(k) \/ Install(k) \/ AttemptFails(k) \/ AttemptStops(k)
    BY <1>1, <2>6 DEF DigestMismatch, Install, AttemptFails, AttemptStops, Return,
       Workers, Pcs
  <2> QED  BY <2>1, <2>2, <2>3, <2>4, <2>5, <2>6
<1>5. /\ jobs' \in [JobIds -> Records]
      /\ \A id \in JobIds : id # k[1] => jobs'[id] = jobs[id]
      /\ jobs'[k[1]].control = jobs[k[1]].control
      /\ jobs'[k[1]].ref = jobs[k[1]].ref
      /\ jobs'[k[1]].pending = jobs[k[1]].pending
      /\ \/ jobs'[k[1]].phase = jobs[k[1]].phase
         \/ /\ jobs[k[1]].phase \notin {"Paused", "Cancelled"}
            /\ \/ jobs'[k[1]].phase \in {"Downloading", "Verifying",
                                        "Validating", "Installing"}
               \/ jobs'[k[1]].phase = "Installed" /\ worker'[k].pc = "finish"
  <2>1. CASE jobs' = jobs
    BY <1>1, <2>1
  <2>2. CASE Resolve(k)
    <3>1. PICK a \in Resolves[jobs[k[1]].ref] :
             jobs' = [jobs EXCEPT ![k[1]].partials =
                        IF jobs[k[1]].control = k[2] THEN @ \cup {a} ELSE @]
      BY <2>2 DEF Resolve
    <3>2. a \in Acqs
      BY <1>1, <1>3, ConstantsAssumption DEF IndInv, TableInv, CancelInv
    <3> QED  BY <1>1, <3>1, <3>2 DEF Records
  <2>3. CASE \E ph \in {"Downloading", "Verifying", "Validating", "Installing"} :
               jobs' = update(k, ph)
    BY <1>1, <2>3, UpdateEffect DEF Phases
  <2>4. CASE jobs' = update(k, "Installed") /\ worker'[k].pc = "finish"
    BY <1>1, <2>4, UpdateEffect DEF Phases, Terminal
  <2>5. CASE AcquireLock(k)
    BY <1>1, <2>1, <2>4, <2>5 DEF AcquireLock, Return, Workers
  <2>6. CASE Install(k)
    BY <1>1, <2>4, <2>6 DEF Install, Return, Workers
  <2> QED  BY <2>1, <2>2, <2>3, <2>5, <2>6 DEF DownloadChunk, DownloadEnd, StageFile,
           DigestMismatch, Validate, AttemptFails, AttemptStops, manager
<1> QED  BY <1>2, <1>3, <1>4, <1>5

\* The attempt's own steps keep its generation.
LEMMA AttemptStepSound ==
  ASSUME IndInv, NEW k \in Attempts,
         \/ Resolve(k) \/ AcquireLock(k) \/ DownloadChunk(k) \/ DownloadEnd(k)
         \/ StageFile(k) \/ DigestMismatch(k) \/ Validate(k) \/ Install(k)
         \/ AttemptFails(k) \/ AttemptStops(k)
  PROVE  IndInv'
<1>1. TableInv(jobs', worker')
  BY AttemptStepEffect, AttemptSound DEF IndInv, TypeInv
<1>2. FreshInv'
  <2>1. k[1] \in issued
    <3>1. k[1] \in JobIds /\ jobs[k[1]].phase # "none"
      BY AttemptStepEffect DEF Attempts
    <3> QED  BY <3>1 DEF IndInv, FreshInv, NoRecord
  <2> QED  BY <2>1, AttemptStepEffect DEF IndInv, FreshInv
<1> QED  BY <1>1, <1>2 DEF IndInv
-----------------------------------------------------------------------------
\* The invariant is inductive: one case for each operation and task step.
LEMMA NextSound == IndInv /\ [Next]_vars => IndInv'
<1> SUFFICES ASSUME IndInv, [Next]_vars
             PROVE  IndInv'
  OBVIOUS
<1>1. CASE /\ jobs' = jobs /\ worker' = worker /\ issued' = issued
  BY <1>1 DEF IndInv, TableInv, TypeInv, AttemptInv, WorkingInv, CancelInv, RefInv,
     FreshInv
<1>2. CASE \E r \in Refs : Admit(r)
  BY <1>2, AdmitSound
<1>3. CASE \E n \in Limits : set_maximum_parallel(n)
  BY <1>3, SetMaximumSound
<1>4. CASE \E id \in JobIds : pause(id) \/ resume(id) \/ cancel(id)
  BY <1>4, PauseSound, ResumeSound, CancelSound
<1>5. CASE \E a \in Acqs : RemoveModel(a)
  BY <1>1, <1>5 DEF RemoveModel, manager
<1>6. CASE \E k \in Attempts : finish_attempt(k)
  BY <1>6, FinishSound
<1>7. CASE \E k \in Attempts : \/ AttemptStep(k) /\ ~finish_attempt(k)
                               \/ DownloadChunk(k) \/ AttemptFails(k)
  BY <1>7, AttemptStepSound DEF AttemptStep
<1>8. CASE \E id \in JobIds : CleanupStep(id)
  <2>1. CASE \E id \in JobIds, a \in Acqs : CleanPartial(id, a)
    BY <1>1, <2>1 DEF CleanPartial, manager
  <2> QED  BY <1>8, <2>1, AcknowledgeSound DEF CleanupStep
<1>9. CASE \E p \in Refs \X Acqs : TidyPartial(p)
  BY <1>1, <1>9 DEF TidyPartial, manager
<1>10. CASE UNCHANGED vars
  BY <1>1, <1>10 DEF vars
<1> QED  BY <1>2, <1>3, <1>4, <1>5, <1>6, <1>7, <1>8, <1>9, <1>10 DEF Next, Request

\* Of a job's attempts only the current one runs, however pause, resume and
\* cancel race with the attempt's own end (finish_attempt).
THEOREM AttemptsAreCurrent == Spec => []OneAttempt
<1>1. IndInv => OneAttempt
  BY DEF IndInv, TableInv, AttemptInv, OneAttempt, Live
<1> QED  BY <1>1, InitSound, NextSound, PTL DEF Spec

\* While a cancellation's clean-up is pending no other job of the reference can
\* be transferring: the clean-up cannot delete a newer job's partial file.
THEOREM CleanupMeetsNoAttempt == Spec => []CleanupExclusive
<1>1. IndInv => CleanupExclusive
  <2> SUFFICES ASSUME IndInv, NEW id \in JobIds, NEW k \in Attempts,
                      jobs[id].pending, worker[k].pc \notin {"none", "finish"},
                      jobs[k[1]].ref = jobs[id].ref
               PROVE  k[1] = id
    BY DEF CleanupExclusive
  <2>1. k[1] \in JobIds /\ jobs[k[1]].control = k[2] /\ k[2] # 0
    BY DEF IndInv, TableInv, AttemptInv, Attempts, Generations
  <2>2. jobs[k[1]].phase \notin {"none", "Installed", "Failed"}
    BY DEF IndInv, TableInv, WorkingInv
  <2>3. Unsettled(jobs[k[1]])
    BY <2>1, <2>2 DEF Unsettled, Terminal, IndInv, TableInv, CancelInv
  <2>4. Unsettled(jobs[id])
    BY DEF Unsettled
  <2> QED  BY <2>1, <2>3, <2>4 DEF IndInv, TableInv, RefInv
<1> QED  BY <1>1, InitSound, NextSound, PTL DEF Spec

-----------------------------------------------------------------------------
(* Staging under the acquisition lock.                                     *)

Staging == {"transfer", "verify", "validate", "install"}

\* An attempt that waits for a lock, or has it, knows whose it is; the lock of
\* an acquisition that is being staged is the attempt's, so no other attempt can
\* have installed it in between.
StagingInv ==
  /\ lock = [a \in Acqs |-> lock[a]]
  /\ \A k \in Attempts : worker[k].pc \in {"lock"} \cup Staging => worker[k].acq \in Acqs
  /\ ExclusiveStaging

\* The manager's operations leave the place and the acquisition of an attempt.
LEMMA SpawningStages ==
  ASSUME NEW js, NEW S, NEW wk, NEW k \in Attempts
  PROVE  \/ Spawning(wk, js, S)[k] = wk[k]
         \/ Spawning(wk, js, S)[k].pc = "resolve"
  BY DEF Spawning, NoWorker

LEMMA ScheduleSpawns ==
  ASSUME NEW js, NEW q, NEW act, NEW wk, NEW ord, NEW mx, NEW prune,
         schedule_locked(js, q, act, wk, ord, mx, prune)
  PROVE  \E S : worker' = Spawning(wk, js, S)
  BY DEF schedule_locked

LEMMA ManagerStages ==
  ASSUME IndInv, StagingInv, UNCHANGED <<lock, installed>>,
         \A k \in Attempts :
           \/ worker'[k].pc = worker[k].pc /\ worker'[k].acq = worker[k].acq
           \/ worker'[k].pc \in {"none", "resolve"}
  PROVE  StagingInv'
  BY DEF StagingInv, ExclusiveStaging, Staging

LEMMA RequestStages ==
  ASSUME IndInv, StagingInv, Request
  PROVE  StagingInv'
<1>1. worker \in [Attempts -> Workers] BY DEF IndInv, TableInv, TypeInv
<1>2. CASE \E a \in Acqs : RemoveModel(a)
  BY <1>2 DEF RemoveModel, StagingInv, ExclusiveStaging, Staging
<1>3. CASE ~ \E a \in Acqs : RemoveModel(a)
  <2>1. UNCHANGED <<lock, installed>>
    BY <1>3 DEF Request, Admit, set_maximum_parallel, pause, resume, cancel
  <2>2. PICK js, S, wk :
          /\ worker' = Spawning(wk, js, S)
          /\ wk = worker \/ \E id \in JobIds : wk = Stopping(id)
    <3>1. CASE \E r \in Refs : Admit(r)
      BY <3>1, ScheduleSpawns DEF Admit
    <3>2. CASE \E n \in Limits : set_maximum_parallel(n)
      BY <3>2, ScheduleSpawns DEF set_maximum_parallel
    <3>3. ASSUME NEW id \in JobIds, pause(id)
          PROVE  \E js, S : \/ worker' = Spawning(worker, js, S)
                            \/ worker' = Spawning(Stopping(id), js, S)
      BY <3>3, ScheduleSpawns DEF pause
    <3>4. ASSUME NEW id \in JobIds, resume(id)
          PROVE  \E js, S : worker' = Spawning(worker, js, S)
      BY <3>4, ScheduleSpawns DEF resume
    <3>5. ASSUME NEW id \in JobIds, cancel(id)
          PROVE  \E js, S : worker' = Spawning(Stopping(id), js, S)
      BY <3>5, ScheduleSpawns DEF cancel
    <3> QED BY <1>3, <3>1, <3>2, <3>3, <3>4, <3>5 DEF Request
  <2>3. ASSUME NEW k \in Attempts
        PROVE  wk[k].pc = worker[k].pc /\ wk[k].acq = worker[k].acq
    BY <1>1, <2>2 DEF Stopping, Workers
  <2>4. ASSUME NEW k \in Attempts
        PROVE  worker'[k] = wk[k] \/ worker'[k].pc = "resolve"
    BY <2>2, SpawningStages
  <2> QED BY <2>1, <2>3, <2>4, ManagerStages
<1> QED BY <1>2, <1>3

LEMMA FinishStages ==
  ASSUME IndInv, StagingInv, NEW k \in Attempts, finish_attempt(k)
  PROVE  StagingInv'
<1>1. worker \in [Attempts -> Workers] BY DEF IndInv, TableInv, TypeInv
<1>2. UNCHANGED <<lock, installed>> BY DEF finish_attempt
<1>3. PICK wk : wk = [worker EXCEPT ![k] = NoWorker] OBVIOUS
<1>4. PICK js, S : worker' = Spawning(wk, js, S)
  BY <1>3 DEF finish_attempt, schedule_locked
<1>5. \A l \in Attempts : wk[l] = worker[l] \/ wk[l].pc = "none"
  BY <1>1, <1>3 DEF NoWorker
<1>6. ASSUME NEW l \in Attempts PROVE worker'[l] = wk[l] \/ worker'[l].pc = "resolve"
  BY <1>4, SpawningStages
<1> QED BY <1>2, <1>5, <1>6, ManagerStages

\* An attempt that ends gives its lock back; the locks of the others stay.
LEMMA ReturnStages ==
  ASSUME IndInv, StagingInv, NEW k \in Attempts, NEW result, Return(k, result),
         \/ UNCHANGED installed
         \/ worker[k].pc = "install" /\ installed' = installed \cup {worker[k].acq}
  PROVE  StagingInv'
<1>1. worker \in [Attempts -> Workers] BY DEF IndInv, TableInv, TypeInv
<1>2. /\ lock' = [a \in Acqs |-> IF lock[a] = k THEN NoOne ELSE lock[a]]
      /\ worker'[k].pc = "finish"
      /\ \A l \in Attempts \ {k} : worker'[l] = worker[l]
  BY <1>1 DEF Return, Workers
<1>3. ASSUME NEW l \in Attempts, worker'[l].pc \in Staging
      PROVE  lock'[worker'[l].acq] = l /\ worker'[l].acq \notin installed'
  <2>1. l # k BY <1>2, <1>3 DEF Staging
  <2>2. worker'[l] = worker[l] BY <1>2, <2>1
  <2>3. worker[l].acq \in Acqs /\ lock[worker[l].acq] = l /\ worker[l].acq \notin installed
    BY <1>3, <2>2 DEF StagingInv, ExclusiveStaging, Staging
  <2>4. lock'[worker[l].acq] = l BY <1>2, <2>1, <2>3
  <2>5. worker[k].pc = "install" => worker[k].acq # worker[l].acq
    BY <2>1, <2>3 DEF StagingInv, ExclusiveStaging
  <2> QED BY <2>2, <2>3, <2>4, <2>5
<1> QED BY <1>2, <1>3 DEF StagingInv, ExclusiveStaging, Staging

LEMMA AttemptStages ==
  ASSUME IndInv, StagingInv, NEW k \in Attempts,
         \/ Resolve(k) \/ AcquireLock(k) \/ DownloadChunk(k) \/ DownloadEnd(k)
         \/ StageFile(k) \/ DigestMismatch(k) \/ Validate(k) \/ Install(k)
         \/ AttemptFails(k) \/ AttemptStops(k)
  PROVE  StagingInv'
<1>1. worker \in [Attempts -> Workers] /\ k[1] \in JobIds
  BY DEF IndInv, TableInv, TypeInv, Attempts
<1>2. CASE Resolve(k)
  <2>1. jobs[k[1]].ref \in Refs
    BY <1>1, <1>2 DEF Resolve, IndInv, TableInv, WorkingInv, CancelInv
  <2>2. PICK a \in Acqs : worker' = [worker EXCEPT ![k].pc = "lock", ![k].acq = a]
    BY <1>2, <2>1, ConstantsAssumption DEF Resolve
  <2>3. /\ worker'[k].pc = "lock" /\ worker'[k].acq \in Acqs
        /\ \A l \in Attempts \ {k} : worker'[l] = worker[l]
    BY <1>1, <2>2 DEF Workers
  <2>4. UNCHANGED <<lock, installed>> BY <1>2 DEF Resolve
  <2> QED BY <2>3, <2>4 DEF StagingInv, ExclusiveStaging, Staging
<1>3. CASE AcquireLock(k)
  <2>1. CASE Return(k, "Installed") /\ UNCHANGED installed BY <2>1, ReturnStages
  <2>2. CASE /\ lock' = [lock EXCEPT ![worker[k].acq] = k]
             /\ \E n \in 1..MaxFiles :
                  worker' = [worker EXCEPT ![k].pc = "transfer", ![k].left = n]
             /\ worker[k].acq \notin installed /\ UNCHANGED installed
    <3>1. worker[k].acq \in Acqs /\ lock[worker[k].acq] = NoOne
      BY <1>3 DEF AcquireLock, Available, StagingInv
    <3>2. /\ worker'[k].pc = "transfer" /\ worker'[k].acq = worker[k].acq
          /\ \A l \in Attempts \ {k} : worker'[l] = worker[l]
      BY <1>1, <2>2 DEF Workers
    <3>3. NoOne \notin Attempts BY NoOneAssumption DEF Attempts, Generations
    <3>4. /\ lock' = [a \in Acqs |-> lock'[a]] /\ lock'[worker[k].acq] = k
          /\ \A a \in Acqs : a # worker[k].acq => lock'[a] = lock[a]
      BY <2>2, <3>1 DEF StagingInv
    <3>5. \A l \in Attempts \ {k} : worker[l].pc \in Staging => worker[l].acq # worker[k].acq
      BY <3>1, <3>3 DEF StagingInv, ExclusiveStaging, Staging
    <3> QED BY <2>2, <3>1, <3>2, <3>4, <3>5, ZenonT(60) DEF StagingInv, ExclusiveStaging, Staging
  <2> QED BY <1>3, <2>1, <2>2 DEF AcquireLock
<1>4. CASE DownloadChunk(k)
  BY <1>4 DEF DownloadChunk, StagingInv, ExclusiveStaging
<1>5. CASE DownloadEnd(k) \/ StageFile(k) \/ Validate(k)
  <2>1. /\ worker[k].pc \in Staging /\ worker'[k].pc \in Staging
        /\ worker'[k].acq = worker[k].acq
        /\ \A l \in Attempts \ {k} : worker'[l] = worker[l]
    BY <1>1, <1>5 DEF DownloadEnd, StageFile, Validate, Goto, Workers, Staging
  <2>2. UNCHANGED <<lock, installed>> BY <1>5 DEF DownloadEnd, StageFile, Validate
  <2> QED BY <2>1, <2>2 DEF StagingInv, ExclusiveStaging, Staging
<1>6. CASE DigestMismatch(k) \/ Install(k) \/ AttemptFails(k) \/ AttemptStops(k)
  BY <1>6, ReturnStages DEF DigestMismatch, Install, AttemptFails, AttemptStops
<1> QED BY <1>2, <1>3, <1>4, <1>5, <1>6

\* One attempt at a time stages an acquisition, under its file lock, and what
\* it stages is not installed before it is done: an attempt that had to wait for
\* the lock looks again (download_model_with_progress).
THEOREM StagesAlone == Spec => []ExclusiveStaging
<1>1. Init => StagingInv
  BY DEF Init, StagingInv, ExclusiveStaging, Staging, NoWorker
<1>2. ASSUME IndInv, StagingInv, [Next]_vars PROVE StagingInv'
  <2>1. CASE UNCHANGED <<worker, lock, installed>>
    BY <1>2, <2>1 DEF StagingInv, ExclusiveStaging
  <2>2. CASE \E id \in JobIds : CleanupStep(id)
    BY <2>1, <2>2 DEF CleanupStep, CleanPartial, acknowledge_cancellation_cleanup
  <2>3. CASE (\E p \in Refs \X Acqs : TidyPartial(p)) \/ UNCHANGED vars
    BY <2>1, <2>3 DEF TidyPartial, vars
  <2> QED BY <1>2, <2>2, <2>3, RequestStages, FinishStages, AttemptStages DEF Next, AttemptStep
<1>3. StagingInv => ExclusiveStaging BY DEF StagingInv
<1> QED BY <1>1, <1>2, <1>3, InitSound, NextSound, PTL DEF Spec

-----------------------------------------------------------------------------
(* Induction. The library's well-ordering of the naturals, said of a set,  *)
(* gives a least element, and from it induction over a set of naturals.    *)

LEMMA LeastNatural ==
  ASSUME NEW T, T \subseteq Nat, T # {}
  PROVE  \E n \in T : \A m \in T : n <= m
<1>1. \E n \in T : \A m \in T : ~(<<m, n>> \in OpToRel(<, Nat))
  BY NatLessThanWellFounded, WFMin
<1>2. PICK n \in T : \A m \in T : ~(<<m, n>> \in OpToRel(<, Nat))
  BY <1>1
<1>3. \A m \in T : ~(m < n)
  BY <1>2 DEF OpToRel
<1> QED BY <1>3

LEMMA SetInduction ==
  ASSUME NEW T, T \subseteq Nat, 0 \in T, \A n \in T : n + 1 \in T
  PROVE  T = Nat
<1> SUFFICES ASSUME T # Nat PROVE FALSE
  OBVIOUS
<1>1. PICK n \in Nat \ T : \A m \in Nat \ T : n <= m
  BY LeastNatural
<1>2. n - 1 \in Nat \ T
  BY <1>1
<1> QED BY <1>1, <1>2

-----------------------------------------------------------------------------
(* What retain leaves of a queue.                                          *)

Holds(q, id) == \E i \in 1..Len(q) : q[i] = id
Distinct(q) == \A i, j \in 1..Len(q) : q[i] = q[j] => i = j

\* The recursion of Retaining, over the first N entries.
Keeping(kept, q, S, N) ==
  kept = [n \in 0..N |-> IF n = 0 THEN <<>>
                         ELSE IF q[n] \in S THEN Append(kept[n-1], q[n]) ELSE kept[n-1]]

LEMMA KeepingExists ==
  ASSUME NEW q, NEW S, NEW N \in Nat
  PROVE  \E kept : Keeping(kept, q, S, N)
<1> DEFINE T == {k \in Nat : \E f : Keeping(f, q, S, k)}
<1>1. 0 \in T
  <2>1. PICK f : f = [n \in 0..0 |-> <<>>]
    OBVIOUS
  <2>2. Keeping(f, q, S, 0)
    BY <2>1 DEF Keeping
  <2> QED BY <2>2
<1>2. ASSUME NEW k \in T PROVE k + 1 \in T
  <2>1. PICK f : Keeping(f, q, S, k)
    OBVIOUS
  <2>2. PICK v : v = IF q[k+1] \in S THEN Append(f[k], q[k+1]) ELSE f[k]
    OBVIOUS
  <2>3. PICK g : g = [n \in 0..(k+1) |-> IF n = k + 1 THEN v ELSE f[n]]
    OBVIOUS
  <2>4. \A n \in 0..k : f[n] = IF n = 0 THEN <<>>
                               ELSE IF q[n] \in S THEN Append(f[n-1], q[n]) ELSE f[n-1]
    BY <2>1 DEF Keeping
  <2>5. /\ \A n \in 0..k : g[n] = f[n]
        /\ \A n \in 1..k : g[n-1] = f[n-1]
    BY <2>3
  <2>6. \A n \in 0..(k+1) : g[n] = IF n = 0 THEN <<>>
                                   ELSE IF q[n] \in S THEN Append(g[n-1], q[n]) ELSE g[n-1]
    <3> TAKE n \in 0..(k+1)
    <3>1. CASE n = k + 1
      <4>1. g[n] = v /\ g[n-1] = f[k] /\ n # 0
        BY <2>3, <2>5, <3>1
      <4> QED BY <4>1, <2>2, <3>1
    <3>2. CASE n \in 1..k
      BY <2>4, <2>5, <3>2
    <3>3. CASE n = 0
      BY <2>4, <2>5, <3>3
    <3> QED BY <3>1, <3>2, <3>3
  <2>7. Keeping(g, q, S, k + 1)
    BY <2>3, <2>6 DEF Keeping
  <2> QED BY <2>7
<1>3. T = Nat
  <2> HIDE DEF T
  <2> QED BY <1>1, <1>2, SetInduction DEF T
<1> QED BY <1>3

\* What s, made of the first n entries of q, has to hold.
Kept(s, q, n, S, J) ==
  /\ s \in Seq(J)
  /\ Distinct(s)
  /\ \A i \in 1..Len(s) : \E j \in 1..n : s[i] = q[j] /\ q[j] \in S
  /\ \A j \in 1..n : q[j] \in S => \E i \in 1..Len(s) : s[i] = q[j]

\* Retaining keeps exactly the entries that are in S, each as often as it was.
LEMMA RetainingKeeps ==
  ASSUME NEW J, NEW q \in Seq(J), NEW S, Distinct(q)
  PROVE  /\ Retaining(q, S) \in Seq(J)
         /\ Distinct(Retaining(q, S))
         /\ \A id : Holds(Retaining(q, S), id) <=> Holds(q, id) /\ id \in S
<1>1. Len(q) \in Nat
  OBVIOUS
<1>2. PICK kept : Keeping(kept, q, S, Len(q)) /\ Retaining(q, S) = kept[Len(q)]
  <2>1. Retaining(q, S) = (CHOOSE kept : Keeping(kept, q, S, Len(q)))[Len(q)]
    BY DEF Retaining, Keeping
  <2> QED BY <1>1, <2>1, KeepingExists
<1> DEFINE T == {n \in Nat : n <= Len(q) => Kept(kept[n], q, n, S, J)}
<1>3. 0 \in T
  <2>1. kept[0] = <<>>
    BY <1>1, <1>2 DEF Keeping
  <2>2. Kept(<<>>, q, 0, S, J)
    BY DEF Kept, Distinct
  <2> QED BY <2>1, <2>2
<1>4. ASSUME NEW n \in T PROVE n + 1 \in T
  <2> SUFFICES ASSUME n + 1 <= Len(q) PROVE Kept(kept[n + 1], q, n + 1, S, J)
    BY <1>4
  <2>1. n \in 0..Len(q) /\ n + 1 \in 1..Len(q) /\ Kept(kept[n], q, n, S, J)
    BY <1>1, <1>4
  <2>2. PICK old, v : old = kept[n] /\ v = q[n + 1]
    OBVIOUS
  <2>3. kept[n + 1] = IF v \in S THEN Append(old, v) ELSE old
    <3>1. n + 1 \in 0..Len(q) /\ n + 1 # 0 /\ (n + 1) - 1 = n
      BY <2>1
    <3>2. kept[n + 1] = IF q[n + 1] \in S THEN Append(kept[(n + 1) - 1], q[n + 1])
                        ELSE kept[(n + 1) - 1]
      BY <1>2, <3>1 DEF Keeping
    <3> QED BY <2>2, <3>1, <3>2
  <2>4. v \in J /\ old \in Seq(J) /\ \A j \in 1..n : q[j] # v
    BY <2>1, <2>2 DEF Kept, Distinct
  <2>5. CASE v \in S
    <3>1. PICK new : new = Append(old, v)
      OBVIOUS
    <3>2. /\ new \in Seq(J) /\ Len(new) = Len(old) + 1 /\ new[Len(old) + 1] = v
          /\ Len(old) \in Nat
          /\ \A i \in 1..Len(old) : new[i] = old[i]
      BY <2>4, <3>1
    <3>3. \A i \in 1..Len(new) : i \in 1..Len(old) \/ i = Len(old) + 1
      BY <3>2
    <3>4. \A i \in 1..Len(old) : old[i] # v
      BY <2>1, <2>2, <2>4 DEF Kept
    <3>5. Distinct(new)
      BY <2>1, <2>2, <3>2, <3>3, <3>4 DEF Kept, Distinct
    <3>6. \A i \in 1..Len(new) : \E j \in 1..(n + 1) : new[i] = q[j] /\ q[j] \in S
      <4> TAKE i \in 1..Len(new)
      <4>1. CASE i \in 1..Len(old)
        <5>1. PICK j \in 1..n : old[i] = q[j] /\ q[j] \in S
          BY <2>1, <2>2, <4>1 DEF Kept
        <5>2. j \in 1..(n + 1)
          BY <2>1
        <5> QED BY <3>2, <4>1, <5>1, <5>2
      <4>2. CASE i = Len(old) + 1
        BY <2>1, <2>2, <2>5, <3>2, <4>2
      <4> QED BY <3>3, <4>1, <4>2
    <3>7. \A j \in 1..(n + 1) : q[j] \in S => \E i \in 1..Len(new) : new[i] = q[j]
      <4> TAKE j \in 1..(n + 1)
      <4> HAVE q[j] \in S
      <4>1. CASE j \in 1..n
        <5>1. PICK i \in 1..Len(old) : old[i] = q[j]
          BY <2>1, <2>2, <4>1 DEF Kept
        <5>2. i \in 1..Len(new)
          BY <3>2
        <5> QED BY <3>2, <5>1, <5>2
      <4>2. CASE j = n + 1
        <5>1. Len(old) + 1 \in 1..Len(new)
          BY <3>2
        <5> QED BY <2>2, <3>2, <4>2, <5>1
      <4> QED BY <2>1, <4>1, <4>2
    <3>8. Kept(new, q, n + 1, S, J)
      BY <3>2, <3>5, <3>6, <3>7 DEF Kept
    <3> QED BY <2>3, <2>5, <3>1, <3>8
  <2>6. CASE v \notin S
    <3>1. kept[n + 1] = old
      BY <2>3, <2>6
    <3>2. \A j \in 1..(n + 1) : q[j] \in S => j \in 1..n
      BY <2>1, <2>2, <2>6
    <3>3. \A j \in 1..n : j \in 1..(n + 1)
      BY <2>1
    <3> QED BY <2>1, <2>2, <3>1, <3>2, <3>3 DEF Kept
  <2> QED BY <2>5, <2>6
<1>5. T = Nat
  <2> HIDE DEF T
  <2> QED BY <1>3, <1>4, SetInduction DEF T
<1>6. Kept(kept[Len(q)], q, Len(q), S, J)
  BY <1>1, <1>5
<1> QED BY <1>2, <1>6 DEF Kept, Holds

-----------------------------------------------------------------------------
(* The queue.                                                              *)

\* The queue is the Queued jobs, each once, and none of them has an attempt:
\* what is popped is started.
WaitingInv(js, q) ==
  /\ q \in Seq(JobIds)
  /\ Distinct(q)
  /\ \A id \in JobIds : js[id].phase = "Queued" <=> Holds(q, id)
  /\ \A id \in JobIds : js[id].phase = "Queued" => js[id].control = 0

SlotsInv == queue # <<>> => Cardinality(active) >= maximum_parallel

QueueInv == WaitingInv(jobs, queue) /\ SlotsInv

\* The loop of schedule_locked ends where Popped says.
LEMMA PoppedEnds ==
  ASSUME NEW js, NEW q \in Seq(JobIds), NEW act, NEW mx
  PROVE  LET n == Popped(js, q, act, mx)
         IN  /\ n \in 0..Len(q)
             /\ n = Len(q) \/ Full(act \cup StartedBy(js, q, n), mx)
<1> DEFINE T == {n \in 0..Len(q) : n = Len(q) \/ Full(act \cup StartedBy(js, q, n), mx)}
<1>1. Len(q) \in T /\ T \subseteq Nat
  OBVIOUS
<1>2. PICK n \in T : \A m \in T : n <= m
  <2> HIDE DEF T
  <2> QED BY <1>1, LeastNatural
<1>3. \A m \in 0..(n-1) : m \in 0..Len(q) /\ m # Len(q) /\ ~(n <= m)
  BY <1>2
<1>4. \A m \in 0..(n-1) : ~Full(act \cup StartedBy(js, q, m), mx)
  BY <1>2, <1>3
<1> QED BY <1>2, <1>4 DEF Popped

\* Whatever table and queue an operation hands to schedule_locked, if they agree
\* they agree afterwards, and nobody waits while a slot is free.
LEMMA ScheduleServes ==
  ASSUME NEW js \in [JobIds -> Records], NEW q, NEW act, NEW wk, NEW ord, NEW mx,
         NEW prune \in BOOLEAN,
         WaitingInv(js, q), schedule_locked(js, q, act, wk, ord, mx, prune),
         maximum_parallel' = mx
  PROVE  QueueInv'
<1>1. PICK n : n = Popped(js, q, act, mx)
  OBVIOUS
<1>2. PICK S : S = StartedBy(js, q, n)
  OBVIOUS
<1>3. PICK started : started = Starting(js, S)
  OBVIOUS
<1>4. PICK gone : gone = IF prune THEN PrunedBy(started, ord) ELSE {}
  OBVIOUS
<1>5. /\ queue' = SubSeq(q, n + 1, Len(q))
      /\ active' = act \cup S
      /\ jobs' = [id \in JobIds |-> IF id \in gone THEN NoRecord ELSE started[id]]
  BY <1>1, <1>2, <1>3, <1>4 DEF schedule_locked
<1>6. /\ q \in Seq(JobIds) /\ Len(q) \in Nat
      /\ n \in 0..Len(q) /\ (n = Len(q) \/ Full(act \cup S, mx))
  BY <1>1, <1>2, PoppedEnds DEF WaitingInv
<1>7. \A i \in 1..Len(q) : q[i] \in Eligible(js)
  BY <1>6 DEF WaitingInv, Eligible, Holds
<1>8. S = {q[i] : i \in 1..n}
  BY <1>2, <1>6, <1>7 DEF StartedBy
<1>9. /\ queue' \in Seq(JobIds) /\ Len(queue') = Len(q) - n
      /\ \A i \in 1..Len(queue') : queue'[i] = q[n + i] /\ n + i \in 1..Len(q)
  BY <1>5, <1>6
<1>10. ASSUME NEW id \in JobIds
       PROVE  /\ jobs'[id].phase = "Queued" <=> js[id].phase = "Queued" /\ id \notin S
              /\ jobs'[id].phase = "Queued" => jobs'[id].control = js[id].control
  <2>1. started = [j \in JobIds |->
                     IF j \in S
                     THEN [js[j] EXCEPT !.phase = "Resolving", !.generation = @ + 1,
                                        !.control = js[j].generation + 1]
                     ELSE js[j]]
    BY <1>3 DEF Starting
  <2>2. [js[id] EXCEPT !.phase = "Resolving", !.generation = @ + 1,
                       !.control = js[id].generation + 1].phase = "Resolving"
    BY DEF Records
  <2>3. id \in gone => started[id].phase \in Terminal
    BY <1>4 DEF PrunedBy, Prunable
  <2>4. NoRecord.phase = "none"
    BY DEF NoRecord
  <2>5. jobs'[id] = IF id \in gone THEN NoRecord ELSE started[id]
    BY <1>5
  <2> QED BY <2>1, <2>2, <2>3, <2>4, <2>5 DEF Terminal
<1>11. ASSUME NEW id \in JobIds
       PROVE  Holds(queue', id) <=> Holds(q, id) /\ id \notin S
  <2>1. ASSUME NEW i \in 1..Len(queue'), queue'[i] = id
        PROVE  Holds(q, id) /\ id \notin S
    <3>1. n + i \in 1..Len(q) /\ q[n + i] = id
      BY <1>9, <2>1
    <3>2. \A j \in 1..n : j \in 1..Len(q) /\ j # n + i
      BY <1>6, <1>9
    <3> QED BY <1>8, <3>1, <3>2 DEF WaitingInv, Distinct, Holds
  <2>2. ASSUME NEW i \in 1..Len(q), q[i] = id, id \notin S
        PROVE  Holds(queue', id)
    <3>1. i \notin 1..n
      BY <1>8, <2>2
    <3>2. i - n \in 1..Len(queue') /\ n + (i - n) = i
      BY <1>6, <1>9, <3>1
    <3> QED BY <1>9, <2>2, <3>2 DEF Holds
  <2> QED BY <2>1, <2>2 DEF Holds
<1>12. Distinct(queue')
  BY <1>6, <1>9 DEF WaitingInv, Distinct
<1>13. WaitingInv(jobs', queue')
  BY <1>9, <1>10, <1>11, <1>12 DEF WaitingInv
<1>14. SlotsInv'
  <2>1. CASE n = Len(q)
    <3>1. queue' = <<>>
      BY <1>9, <2>1, <1>6
    <3> QED BY <3>1 DEF SlotsInv
  <2>2. CASE Full(act \cup S, mx)
    BY <1>5, <2>2 DEF SlotsInv, Full
  <2> QED BY <1>6, <2>1, <2>2
<1> QED BY <1>13, <1>14 DEF QueueInv

\* A job that joins the queue: it was not Queued, so it was not in the queue.
LEMMA JoiningServes ==
  ASSUME NEW js, NEW q, WaitingInv(js, q), NEW id \in JobIds, js[id].phase # "Queued",
         NEW js2, js2[id].phase = "Queued", js2[id].control = 0,
         \A j \in JobIds \ {id} : js2[j] = js[j]
  PROVE  WaitingInv(js2, Append(q, id))
<1>1. PICK q2 : q2 = Append(q, id)
  OBVIOUS
<1>2. /\ q2 \in Seq(JobIds) /\ Len(q2) = Len(q) + 1 /\ q2[Len(q) + 1] = id /\ Len(q) \in Nat
      /\ \A i \in 1..Len(q) : q2[i] = q[i]
  BY <1>1 DEF WaitingInv
<1>3. \A i \in 1..Len(q2) : i \in 1..Len(q) \/ i = Len(q) + 1
  BY <1>2
<1>4. \A i \in 1..Len(q) : q[i] # id /\ i \in 1..Len(q2)
  BY <1>2 DEF WaitingInv, Holds
<1>5. Distinct(q2)
  BY <1>2, <1>3, <1>4 DEF WaitingInv, Distinct
<1>6. Len(q) + 1 \in 1..Len(q2)
  BY <1>2
<1>7. \A j \in JobIds : Holds(q2, j) <=> Holds(q, j) \/ j = id
  BY <1>2, <1>3, <1>4, <1>6 DEF Holds
<1> QED BY <1>1, <1>2, <1>5, <1>7 DEF WaitingInv

\* A job that leaves the queue, whether it was in it or not.
LEMMA LeavingServes ==
  ASSUME NEW js, NEW q, WaitingInv(js, q), NEW id \in JobIds,
         NEW js2, js2[id].phase # "Queued", \A j \in JobIds \ {id} : js2[j] = js[j]
  PROVE  WaitingInv(js2, Without(q, id))
BY RetainingKeeps DEF WaitingInv, Without

\* A job that was not in the queue and does not join it.
LEMMA OtherServes ==
  ASSUME NEW js, NEW q, WaitingInv(js, q), NEW id \in JobIds, js[id].phase # "Queued",
         NEW js2, js2[id].phase # "Queued", \A j \in JobIds \ {id} : js2[j] = js[j]
  PROVE  WaitingInv(js2, q)
BY DEF WaitingInv

\* An operation that replaces one record and hands the queue to schedule_locked.
LEMMA OperationServes ==
  ASSUME IndInv, QueueInv, NEW id \in JobIds, NEW rec \in Records,
         NEW q, NEW act, NEW wk, NEW mx, NEW prune \in BOOLEAN,
         schedule_locked([jobs EXCEPT ![id] = rec], q, act, wk, order, mx, prune),
         maximum_parallel' = mx,
         \/ /\ jobs[id].phase # "Queued" /\ rec.phase = "Queued" /\ rec.control = 0
            /\ q = Append(queue, id)
         \/ rec.phase # "Queued" /\ q = Without(queue, id)
         \/ jobs[id].phase # "Queued" /\ rec.phase # "Queued" /\ q = queue
  PROVE  QueueInv'
<1>1. PICK js : js = [jobs EXCEPT ![id] = rec]
  OBVIOUS
<1>2. /\ js \in [JobIds -> Records] /\ js[id] = rec
      /\ \A j \in JobIds \ {id} : js[j] = jobs[j]
  BY <1>1 DEF IndInv, TableInv, TypeInv
<1>3. /\ WaitingInv(jobs, queue)
      /\ schedule_locked(js, q, act, wk, order, mx, prune)
  BY <1>1 DEF QueueInv
<1>4. CASE jobs[id].phase # "Queued" /\ rec.phase = "Queued" /\ q = Append(queue, id)
  <2>1. WaitingInv(js, q)
    BY <1>2, <1>3, <1>4, JoiningServes
  <2> QED BY <1>2, <1>3, <2>1, ScheduleServes
<1>5. CASE rec.phase # "Queued" /\ q = Without(queue, id)
  <2>1. WaitingInv(js, q)
    BY <1>2, <1>3, <1>5, LeavingServes
  <2> QED BY <1>2, <1>3, <2>1, ScheduleServes
<1>6. CASE jobs[id].phase # "Queued" /\ rec.phase # "Queued" /\ q = queue
  <2>1. WaitingInv(js, q)
    BY <1>2, <1>3, <1>6, OtherServes
  <2> QED BY <1>2, <1>3, <2>1, ScheduleServes
<1> QED BY <1>4, <1>5, <1>6

LEMMA AdmitServes ==
  ASSUME IndInv, QueueInv, NEW r \in Refs, Admit(r)
  PROVE  QueueInv'
<1>1. PICK id \in JobIds \ issued :
        /\ maximum_parallel' = maximum_parallel
        /\ schedule_locked([jobs EXCEPT ![id] = NewRecord(r)], Append(queue, id), active,
                           worker, Append(order, id), maximum_parallel, FALSE)
  BY DEF Admit
<1>2. NewRecord(r) \in Records /\ NewRecord(r).phase = "Queued" /\ NewRecord(r).control = 0
  BY DEF NewRecord, NoRecord, Records, Phases
<1>3. PICK js : js = [jobs EXCEPT ![id] = NewRecord(r)]
  OBVIOUS
<1>4. /\ js \in [JobIds -> Records] /\ js[id] = NewRecord(r)
      /\ \A j \in JobIds \ {id} : js[j] = jobs[j]
  BY <1>2, <1>3 DEF IndInv, TableInv, TypeInv
<1>5. jobs[id].phase # "Queued"
  BY DEF IndInv, FreshInv, NoRecord
<1>6. WaitingInv(js, Append(queue, id))
  BY <1>2, <1>4, <1>5, JoiningServes DEF QueueInv
<1> QED BY <1>1, <1>3, <1>4, <1>6, ScheduleServes

LEMMA SetMaximumServes ==
  ASSUME IndInv, QueueInv, NEW n \in Limits, set_maximum_parallel(n)
  PROVE  QueueInv'
<1>1. schedule_locked(jobs, queue, active, worker, order, maximum_parallel', FALSE)
  BY DEF set_maximum_parallel
<1>2. jobs \in [JobIds -> Records]
  BY DEF IndInv, TableInv, TypeInv
<1> QED BY <1>1, <1>2, ScheduleServes DEF QueueInv

LEMMA PauseServes ==
  ASSUME IndInv, QueueInv, NEW id \in JobIds, pause(id)
  PROVE  QueueInv'
<1>1. jobs \in [JobIds -> Records] /\ jobs[id] \in Records
  BY DEF IndInv, TableInv, TypeInv
<1>2. PICK rec : rec = [jobs[id] EXCEPT !.phase = "Paused", !.resume = FALSE]
  OBVIOUS
<1>3. rec \in Records /\ rec.phase = "Paused"
  BY <1>1, <1>2 DEF Records, Phases
<1>4. [jobs EXCEPT ![id].phase = "Paused", ![id].resume = FALSE] = [jobs EXCEPT ![id] = rec]
  BY <1>1, <1>2
<1>5. maximum_parallel' = maximum_parallel
  BY DEF pause
<1>6. CASE jobs[id].phase = "Queued"
  <2>1. schedule_locked([jobs EXCEPT ![id] = rec], Without(queue, id), active, worker,
                        order, maximum_parallel, FALSE)
    BY <1>4, <1>6 DEF pause
  <2> QED BY <1>3, <1>5, <2>1, OperationServes
<1>7. CASE jobs[id].phase # "Queued"
  <2>1. schedule_locked([jobs EXCEPT ![id] = rec], queue, Release(id), Stopping(id),
                        order, maximum_parallel, FALSE)
    BY <1>4, <1>7 DEF pause
  <2> QED BY <1>3, <1>5, <1>7, <2>1, OperationServes
<1> QED BY <1>6, <1>7

LEMMA ResumeServes ==
  ASSUME IndInv, QueueInv, NEW id \in JobIds, resume(id)
  PROVE  QueueInv'
<1>1. jobs \in [JobIds -> Records] /\ jobs[id] \in Records /\ jobs[id].phase = "Paused"
  BY DEF IndInv, TableInv, TypeInv, resume
<1>2. maximum_parallel' = maximum_parallel
  BY DEF resume
<1>3. CASE jobs[id].control # 0
  <2>1. PICK rec : rec = [jobs[id] EXCEPT !.resume = TRUE]
    OBVIOUS
  <2>2. rec \in Records /\ rec.phase = "Paused"
    BY <1>1, <2>1 DEF Records
  <2>3. [jobs EXCEPT ![id].resume = TRUE] = [jobs EXCEPT ![id] = rec]
    BY <1>1, <2>1
  <2>4. schedule_locked([jobs EXCEPT ![id] = rec], queue, active, worker, order,
                        maximum_parallel, FALSE)
    BY <1>3, <2>3 DEF resume
  <2> QED BY <1>1, <1>2, <2>2, <2>4, OperationServes
<1>4. CASE jobs[id].control = 0
  <2>1. PICK rec : rec = [jobs[id] EXCEPT !.phase = "Queued"]
    OBVIOUS
  <2>2. rec \in Records /\ rec.phase = "Queued" /\ rec.control = 0
    BY <1>1, <1>4, <2>1 DEF Records, Phases
  <2>3. [jobs EXCEPT ![id].phase = "Queued"] = [jobs EXCEPT ![id] = rec]
    BY <1>1, <2>1
  <2>4. schedule_locked([jobs EXCEPT ![id] = rec], Append(queue, id), active, worker,
                        order, maximum_parallel, FALSE)
    BY <1>4, <2>3 DEF resume
  <2> QED BY <1>1, <1>2, <2>2, <2>4, OperationServes
<1> QED BY <1>3, <1>4

LEMMA CancelServes ==
  ASSUME IndInv, QueueInv, NEW id \in JobIds, cancel(id)
  PROVE  QueueInv'
<1>1. jobs \in [JobIds -> Records] /\ jobs[id] \in Records
  BY DEF IndInv, TableInv, TypeInv
<1>2. PICK pending : pending = (jobs[id].control # 0 \/ jobs[id].partials # {})
  OBVIOUS
<1>3. PICK left : left = IF pending /\ jobs[id].control = 0 THEN {} ELSE jobs[id].partials
  OBVIOUS
<1>4. left \in SUBSET Acqs /\ pending \in BOOLEAN
  BY <1>1, <1>2, <1>3 DEF Records
<1>5. PICK rec : rec = [jobs[id] EXCEPT !.phase = "Cancelled", !.resume = FALSE,
                                        !.pending = pending, !.partials = left]
  OBVIOUS
<1>6. rec \in Records /\ rec.phase = "Cancelled"
  BY <1>1, <1>4, <1>5 DEF Records, Phases, Terminal
<1>7. [jobs EXCEPT ![id].phase = "Cancelled", ![id].resume = FALSE,
                   ![id].pending = pending, ![id].partials = left]
        = [jobs EXCEPT ![id] = rec]
  BY <1>1, <1>5
<1>8. /\ maximum_parallel' = maximum_parallel
      /\ schedule_locked([jobs EXCEPT ![id] = rec], Without(queue, id), Release(id),
                         Stopping(id), order, maximum_parallel, TRUE)
  BY <1>2, <1>3, <1>7 DEF cancel
<1> QED BY <1>6, <1>8, OperationServes

LEMMA FinishServes ==
  ASSUME IndInv, QueueInv, NEW k \in Attempts, finish_attempt(k)
  PROVE  QueueInv'
<1>1. PICK id, old, result, requeue, settles :
        /\ id = k[1] /\ old = jobs[id] /\ result = worker[k].result
        /\ requeue = Requeues(old)
        /\ settles = (old.phase \notin {"Paused", "Cancelled"} /\ result # "none")
  OBVIOUS
<1>2. PICK resumes, phase, kept :
        /\ resumes = IF requeue THEN FALSE ELSE old.resume
        /\ phase = IF requeue THEN "Queued" ELSE IF settles THEN result ELSE old.phase
        /\ kept = IF old.phase = "Cancelled" \/ (settles /\ result = "Installed")
                  THEN {} ELSE old.partials
  OBVIOUS
<1>3. PICK rec : rec = [old EXCEPT !.control = 0, !.resume = resumes, !.phase = phase,
                                   !.partials = kept]
  OBVIOUS
<1>4. /\ id \in JobIds /\ k[2] # 0
      /\ jobs \in [JobIds -> Records] /\ old \in Records /\ worker[k] \in Workers
  BY <1>1 DEF IndInv, TableInv, TypeInv, Attempts, Generations
<1>5. result \in {"none", "Installed", "Failed"}
  BY <1>1, <1>4 DEF Workers
<1>6. old.resume \in BOOLEAN /\ old.phase \in Phases /\ old.partials \in SUBSET Acqs
  BY <1>4 DEF Records
<1>7. resumes \in BOOLEAN /\ phase \in Phases /\ kept \in SUBSET Acqs
  BY <1>1, <1>2, <1>5, <1>6 DEF Phases, Terminal
<1>8. rec \in Records /\ rec.phase = phase /\ rec.control = 0
  BY <1>3, <1>4, <1>7 DEF Records
<1>9. /\ worker[k].pc = "finish" /\ old.control = k[2]
      /\ maximum_parallel' = maximum_parallel
      /\ schedule_locked([jobs EXCEPT ![id] = rec],
                         IF requeue THEN Append(queue, id) ELSE queue, Release(id),
                         [worker EXCEPT ![k] = NoWorker], order, maximum_parallel, TRUE)
  BY <1>1, <1>2, <1>3 DEF finish_attempt
<1>10. old.phase # "Queued"
  BY <1>1, <1>4, <1>9 DEF QueueInv, WaitingInv
<1>11. CASE requeue
  BY <1>1, <1>2, <1>4, <1>8, <1>9, <1>10, <1>11, OperationServes
<1>12. CASE ~requeue
  <2>1. phase # "Queued"
    BY <1>2, <1>5, <1>10, <1>12
  <2> QED BY <1>1, <1>4, <1>8, <1>9, <1>10, <1>12, <2>1, OperationServes
<1> QED BY <1>11, <1>12

\* What leaves the queue, the slots and their number alone, and queues no job.
LEMMA OtherStepServes ==
  ASSUME QueueInv, UNCHANGED <<queue, active, maximum_parallel>>,
         \A id \in JobIds :
           \/ /\ jobs'[id].phase = jobs[id].phase
              /\ jobs'[id].control = jobs[id].control
           \/ jobs[id].phase # "Queued" /\ jobs'[id].phase # "Queued"
  PROVE  QueueInv'
<1>1. SlotsInv'
  BY DEF QueueInv, SlotsInv
<1>2. WaitingInv(jobs', queue)
  BY DEF QueueInv, WaitingInv
<1> QED BY <1>1, <1>2 DEF QueueInv

LEMMA AttemptServes ==
  ASSUME IndInv, QueueInv, NEW k \in Attempts,
         \/ Resolve(k) \/ AcquireLock(k) \/ DownloadChunk(k) \/ DownloadEnd(k)
         \/ StageFile(k) \/ DigestMismatch(k) \/ Validate(k) \/ Install(k)
         \/ AttemptFails(k) \/ AttemptStops(k)
  PROVE  QueueInv'
<1>1. UNCHANGED <<queue, active, maximum_parallel>>
  BY DEF Resolve, AcquireLock, DownloadChunk, DownloadEnd, StageFile, DigestMismatch,
     Validate, Install, AttemptFails, AttemptStops, manager
<1>2. k[1] \in JobIds /\ jobs[k[1]].control # 0
  BY AttemptStepEffect DEF IndInv, TableInv, AttemptInv, Attempts, Generations
<1>3. jobs[k[1]].phase # "Queued"
  BY <1>2 DEF QueueInv, WaitingInv
<1>4. jobs'[k[1]].phase # "Queued"
  BY <1>3, AttemptStepEffect
<1>5. \A id \in JobIds : id # k[1] => jobs'[id] = jobs[id]
  BY AttemptStepEffect
<1> QED BY <1>1, <1>3, <1>4, <1>5, OtherStepServes

LEMMA AcknowledgeServes ==
  ASSUME IndInv, QueueInv, NEW id \in JobIds, acknowledge_cancellation_cleanup(id)
  PROVE  QueueInv'
<1>1. UNCHANGED <<queue, active, maximum_parallel>>
  BY DEF acknowledge_cancellation_cleanup
<1>2. PICK flag : flag = IF jobs[id].phase = "Cancelled" /\ jobs[id].control = 0
                         THEN FALSE ELSE jobs[id].pending
  OBVIOUS
<1>3. PICK acked : acked = [jobs EXCEPT ![id].pending = flag]
  OBVIOUS
<1>4. PICK gone : gone = PrunedBy(acked, order)
  OBVIOUS
<1>5. jobs' = jobs \/ jobs' = [j \in JobIds |-> IF j \in gone THEN NoRecord ELSE acked[j]]
  BY <1>2, <1>3, <1>4 DEF acknowledge_cancellation_cleanup
<1>6. ASSUME NEW j \in JobIds
      PROVE  acked[j].phase = jobs[j].phase /\ acked[j].control = jobs[j].control
  <2>1. jobs[id] \in Records /\ jobs \in [JobIds -> Records]
    BY DEF IndInv, TableInv, TypeInv
  <2>2. /\ [jobs[id] EXCEPT !.pending = flag].phase = jobs[id].phase
        /\ [jobs[id] EXCEPT !.pending = flag].control = jobs[id].control
    BY <2>1 DEF Records
  <2>3. acked = [jobs EXCEPT ![id] = [jobs[id] EXCEPT !.pending = flag]]
    BY <1>3, <2>1
  <2> QED BY <2>1, <2>2, <2>3
<1>7. \A j \in gone : acked[j].phase \in Terminal
  BY <1>4 DEF PrunedBy, Prunable
<1>8. NoRecord.phase = "none"
  BY DEF NoRecord
<1>9. \A j \in JobIds :
        \/ jobs'[j].phase = jobs[j].phase /\ jobs'[j].control = jobs[j].control
        \/ jobs[j].phase # "Queued" /\ jobs'[j].phase # "Queued"
  BY <1>5, <1>6, <1>7, <1>8 DEF Terminal
<1> QED BY <1>1, <1>9, OtherStepServes

LEMMA NextServes ==
  ASSUME IndInv, QueueInv, [Next]_vars
  PROVE  QueueInv'
<1>1. CASE UNCHANGED <<jobs, queue, active, maximum_parallel>>
  BY <1>1, OtherStepServes
<1>2. CASE Request
  BY <1>1, <1>2, AdmitServes, SetMaximumServes, PauseServes, ResumeServes, CancelServes
     DEF Request, RemoveModel, manager
<1>3. CASE \E k \in Attempts : AttemptStep(k) \/ DownloadChunk(k) \/ AttemptFails(k)
  BY <1>3, FinishServes, AttemptServes DEF AttemptStep
<1>4. CASE \E id \in JobIds : CleanupStep(id)
  BY <1>1, <1>4, AcknowledgeServes DEF CleanupStep, CleanPartial, manager
<1>5. CASE \E p \in Refs \X Acqs : TidyPartial(p)
  BY <1>1, <1>5 DEF TidyPartial, manager
<1>6. CASE UNCHANGED vars
  BY <1>1, <1>6 DEF vars
<1> QED BY <1>2, <1>3, <1>4, <1>5, <1>6 DEF Next

\* The queue is exactly the Queued jobs, each once, whatever pauses, resumes,
\* cancellations and ends of attempts cross, and every operation hands out the
\* free slots before it ends (schedule_locked).
THEOREM NoSlotIsWasted == Spec => []QueueIsServed
<1>1. Init => QueueInv
  BY DEF Init, QueueInv, WaitingInv, SlotsInv, Distinct, Holds, NoRecord
<1>2. QueueInv => QueueIsServed
  BY DEF QueueInv, WaitingInv, SlotsInv, QueueIsServed, Distinct, Holds
<1> QED BY <1>1, <1>2, InitSound, NextSound, NextServes, PTL DEF Spec
=============================================================================
