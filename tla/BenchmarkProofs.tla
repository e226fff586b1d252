---------------------------- MODULE BenchmarkProofs ----------------------------
(***************************************************************************)
(* For every set of processes, runs, clients and any number of tasks: a    *)
(* run keeps its reservation and its backend to itself, and the record     *)
(* store keeps what BenchmarkHistory promises.                             *)
(*                                                                         *)
(* The store's part rests on its directory lock (one job writes at a time, *)
(* and what it found under the lock stays true until it lets go) and on    *)
(* the claim (recovery belongs to an owner that does not serve yet).  The  *)
(* memory's part rests on the operation mutex, which a load keeps from its *)
(* start to its end, and on the gate that a run closes.                    *)
(***************************************************************************)
EXTENDS Benchmark, TLAPS

JobPcs == {"lock", "write", "summary", "remove", "scan", "ok", "err"}

Jobs == [proc : Procs, run : Runs \cup {NoOne}, status : Final \cup {"running", "recover"},
         pc : JobPcs, heard : BOOLEAN]

RunRecord ==
  [id : Runs \cup {NoOne}, pc : {"none", "checking"} \cup Executing \cup Cleaning,
   then : {"none", "load", "build", "measure", "verify", "end"},
   status : Final \cup {"running"}, cancel : BOOLEAN, pinned : {"none", "same", "other"},
   task : Nat, request : {"none", "submitted", "running"}, observed : BOOLEAN]

Lives == {"none", "running", "stopping"} \cup Loading

TypeOK ==
  /\ active \in [Runs -> BOOLEAN]
  /\ terminal \in [Runs -> Final \cup {"none"}]
  /\ summary \in [Runs -> Final \cup {"running", "none"}]
  /\ jobs \subseteq Jobs
  /\ owner \in Procs \cup {NoOne}
  /\ server \in [Procs -> {"down", "claiming", "recovering", "serving", "draining", "closing",
                           "exiting"}]
  /\ used \subseteq Runs
  /\ run \in RunRecord
  /\ pc \in [Actors -> {"idle", "asking", "jit", "using", "manual", "unload"}]
  /\ stopper \in [Actors -> {"none", "cancel", "lock", "drain", "retire"}]
  /\ operation \in Actors \cup {NoOne}
  /\ load \in [by : Actors \cup {NoOne}, stage : {"none", "prepare", "spawn", "ready"}]
  /\ backend \in [life : Lives, process : {"none", "live", "unregistered"}]
  /\ orphan \in {"none", "submitted", "running"}
  /\ quarantined \in BOOLEAN

\* One process owns the history; only when it serves are there runs, and
\* recovery is over by then.
ServerInv ==
  /\ owner # NoOne => server[owner] \in {"recovering", "serving", "draining", "closing"}
  /\ \A p \in Procs \ {owner} : server[p] \in {"down", "claiming", "exiting"}
  /\ run.pc # "none" => Serving
  /\ \A j \in jobs : j.status = "recover" =>
       /\ j.proc = owner /\ server[owner] = "recovering"
       /\ \A k \in jobs : k.status = "recover" => k = j

\* What a run's state says of its identity.
IdInv ==
  /\ run.id = NoOne <=> run.pc = "none"
  /\ run.pc = "checking" => run.id \notin used
  /\ run.pc \in Executing \cup Cleaning => run.id \in used
  /\ run.pc = "saving" => run.then # "none"
  /\ run.pc \in Cleaning => run.status \in Final

\* What a job of the store knows while it holds the directory lock.
Alone(j) == \A k \in jobs : j.pc \in Holding /\ k.pc \in Holding => k = j

Knows(j) ==
  /\ j.status = "recover" =>
       /\ j.pc # "write"
       /\ j.pc \in {"summary", "remove"} => j.run \in Runs /\ terminal[j.run] # "none"
  /\ j.status # "recover" =>
       /\ j.pc # "scan"
       /\ j.run \in used
       /\ j.pc = "write" => terminal[j.run] = "none"
  /\ j.status = "running" =>
       /\ j.pc # "remove"
       /\ j.pc = "summary" => active[j.run]
  /\ j.status \in Final =>
       /\ j.run # run.id \/ run.pc \in Cleaning
       /\ j.pc \in {"summary", "remove"} => terminal[j.run] = j.status
  /\ j.pc = "remove" => summary[j.run] = terminal[j.run]

JobInv(j) == Alone(j) /\ Knows(j)

\* The three files of a run agree at every step of every job.
RecordInv(r) ==
  /\ active[r] => r \in used
  /\ ~active[r] /\ terminal[r] = "none" => summary[r] = "none"
  /\ ~active[r] /\ terminal[r] # "none" => summary[r] \in {terminal[r], "none"}

StoreInv == (\A j \in jobs : JobInv(j)) /\ (\A r \in Runs : RecordInv(r))

\* The operation mutex, and who is where while a run has the reservation.
OperationInv ==
  /\ load.by # NoOne => operation = load.by
  /\ \A a \in Actors : stopper[a] = "drain" => operation = a /\ load.by = NoOne
  /\ stopper[Reaper] \in {"none", "drain"}
  /\ pc[Reaper] \in {"idle", "unload"}
  /\ \A c \in Clients : pc[c] \in {"jit", "manual"} => load.by = c
  /\ run.pc = "checking" =>
       /\ operation = "run" /\ load.by = NoOne
       /\ \A a \in Actors : stopper[a] # "drain"
       /\ \A a \in Clients \cup {Reaper} : pc[a] \in {"idle", "using"}
  /\ ReservationExclusive

\* The backend's process, the run's own load and the pinned runtime.
BackendInv ==
  /\ backend.life = "none" => backend.process = "none"
  /\ load.by = "run" =>
       /\ backend.life \in {"loading", "stopping"}
       /\ run.pc \in {"loading", "stop"} \/ quarantined
  /\ backend.process = "unregistered" => load = [by |-> "run", stage |-> "spawn"]
  /\ quarantined => run.pc \in {"none"} \cup Cleaning
  /\ run.pc \in {"checking", "load", "loading"} \/ (run.pc = "saving" /\ run.then = "load") =>
       run.pinned = "none"
  /\ run.pc \in {"build", "measure", "confirm", "verify", "end"}
       \/ (run.pc = "saving" /\ run.then # "load") => run.pinned # "none"
  /\ run.pc \in Executing /\ run.pinned = "other" => backend.life = "none"

\* A request of the run, from its submission until nothing is left of it.
RequestInv ==
  /\ run.request # "none" => run.pc = "measure"
  /\ run.observed => run.request # "submitted" /\ orphan # "submitted"
  /\ run.observed => /\ run.pc = "measure" => run.request # "none"
                     /\ run.pc = "saving" => run.then # "measure"
  /\ run.pc \in Executing \ {"confirm"} => orphan = "none"
  /\ run.pc \in {"unloading", "finish", "finalize", "none", "checking"} /\ ~quarantined =>
       orphan = "none"

IInv ==
  /\ TypeOK
  /\ ServerInv
  /\ IdInv
  /\ StoreInv
  /\ OperationInv
  /\ BackendInv
  /\ RequestInv

-----------------------------------------------------------------------------
(* Types.                                                                  *)

\* The names of the run, the reaper, nobody and the clients differ.
LEMMA Names ==
  /\ "run" \in Actors /\ Reaper \in Actors /\ Clients \subseteq Actors
  /\ "run" \notin Clients /\ "run" # Reaper /\ "run" # NoOne
  /\ Reaper \notin Clients /\ Reaper # NoOne /\ NoOne \notin Clients /\ NoOne \notin Actors
  /\ NoOne \notin Procs /\ NoOne \notin Runs
  BY BenchmarkAssumption DEF Actors

\* No final status is one of the others.
LEMMA FinalStatuses == "running" \notin Final /\ "recover" \notin Final /\ "none" \notin Final
  BY DEF Final

\* A job's next point is a job.
LEMMA AdvanceType ==
  ASSUME TypeOK, NEW j \in jobs, NEW next \in JobPcs, Advance(j, next)
  PROVE  jobs' \subseteq Jobs
  BY DEF TypeOK, Advance, Jobs

LEMMA SaveType ==
  ASSUME TypeOK, owner # NoOne, NEW status \in Final \cup {"running"}, Save(status)
  PROVE  jobs' \subseteq Jobs
<1>1. Job(owner, run.id, status) \in Jobs BY DEF TypeOK, RunRecord, Job, Jobs, JobPcs
<1> QED BY <1>1 DEF TypeOK, Save

\* The end of the execution, whatever ended it.
LEMMA AbandonFacts ==
  ASSUME TypeOK, NEW reason, Abandon(reason)
  PROVE  /\ run' \in RunRecord
         /\ orphan' \in {"none", "submitted", "running"}
         /\ run'.pc = "stop" /\ run'.id = run.id /\ run'.status \in Final
         /\ run'.request = "none" /\ run'.observed = run.observed /\ run'.pinned = run.pinned
         /\ run'.then = "none"
         /\ orphan' = IF run.request = "none" THEN orphan ELSE run.request
<1>1. Outcome(reason) \in Final BY DEF Outcome, Final
<1>2. run \in RunRecord BY DEF TypeOK
<1>3. "stop" \in Cleaning BY DEF Cleaning
<1> QED BY <1>1, <1>2, <1>3 DEF Abandon, TypeOK, RunRecord

\* A job that is no longer listened to is the same job.
LEMMA DeafenFacts ==
  ASSUME TypeOK, NEW k \in Deafen
  PROVE  /\ k \in Jobs
         /\ \E j \in jobs : /\ k.proc = j.proc /\ k.run = j.run /\ k.status = j.status
                          /\ k.pc = j.pc
<1>1. PICK j \in jobs : k = [j EXCEPT !.heard = IF j \in MyJob THEN FALSE ELSE @]
  BY DEF Deafen
<1>2. j \in Jobs /\ (IF j \in MyJob THEN FALSE ELSE j.heard) \in BOOLEAN
  BY DEF TypeOK, Jobs
<1> QED BY <1>1, <1>2 DEF Jobs

\* The record store's steps.
LEMMA StoreType ==
  ASSUME TypeOK, StoreInv, IdInv, StoreStep
  PROVE  TypeOK'
<1>1. /\ UNCHANGED <<owner, server, used, run, manager, packs, orphan, quarantined>>
      /\ active \in [Runs -> BOOLEAN]
      /\ terminal \in [Runs -> Final \cup {"none"}]
      /\ summary \in [Runs -> Final \cup {"running", "none"}]
      /\ jobs \subseteq Jobs
  BY DEF StoreStep, TypeOK
<1> SUFFICES /\ active' \in [Runs -> BOOLEAN]
             /\ terminal' \in [Runs -> Final \cup {"none"}]
             /\ summary' \in [Runs -> Final \cup {"running", "none"}]
             /\ jobs' \subseteq Jobs
  BY <1>1 DEF TypeOK, manager
<1>2. PICK j \in jobs :
        \/ SaveLocks(j) \/ SaveWrites(j) \/ SaveSummarises(j) \/ SaveRemoves(j)
        \/ JobFails(j) \/ RecoverLocks(j) \/ RecoverSummarises(j)
        \/ RecoverRemoves(j) \/ RecoverEnds(j)
        \/ \E r \in Runs : RecoverWrites(j, r)
  BY DEF StoreStep
<1>3. j \in Jobs BY <1>1
<1>4. CASE \E next \in JobPcs : Advance(j, next)
  <2>1. jobs' \subseteq Jobs BY <1>4, AdvanceType
  <2>2. /\ active' \in [Runs -> BOOLEAN]
        /\ terminal' \in [Runs -> Final \cup {"none"}]
        /\ summary' \in [Runs -> Final \cup {"running", "none"}]
    <3>1. CASE SaveWrites(j) BY <1>1, <1>3, <3>1 DEF SaveWrites, Jobs
    <3>2. CASE SaveSummarises(j) BY <1>1, <1>3, <3>2 DEF SaveSummarises, Jobs
    <3>3. CASE RecoverSummarises(j) BY <1>1, <3>3 DEF RecoverSummarises
    <3>4. CASE SaveRemoves(j) \/ RecoverRemoves(j)
      BY <1>1, <3>4 DEF SaveRemoves, RecoverRemoves
    <3>5. CASE SaveLocks(j) \/ JobFails(j) \/ RecoverLocks(j) \/ RecoverEnds(j)
      BY <1>1, <3>5 DEF SaveLocks, JobFails, RecoverLocks, RecoverEnds, store
    <3>6. CASE \E r \in Runs : RecoverWrites(j, r)
      BY <1>1, <3>6 DEF RecoverWrites, Final
    <3> QED BY <1>2, <3>1, <3>2, <3>3, <3>4, <3>5, <3>6
  <2> QED BY <2>1, <2>2
<1>5. CASE \E r \in Runs : RecoverWrites(j, r)
  <2>1. PICK r \in Runs : RecoverWrites(j, r) BY <1>5
  <2>2. [j EXCEPT !.pc = "summary", !.run = r] \in Jobs BY <1>3 DEF Jobs, JobPcs
  <2> QED BY <1>1, <2>1, <2>2 DEF RecoverWrites, Final
<1> QED BY <1>2, <1>4, <1>5
    DEF SaveLocks, SaveWrites, SaveSummarises, SaveRemoves, JobFails, RecoverLocks,
        RecoverSummarises, RecoverRemoves, RecoverEnds, JobPcs

\* The steps of clients, the reaper and the tasks that stop backends.
LEMMA ClientType ==
  ASSUME TypeOK, ClientStep \/ BackendExits
  PROVE  TypeOK'
<1>1. /\ pc \in [Actors -> {"idle", "asking", "jit", "using", "manual", "unload"}]
      /\ stopper \in [Actors -> {"none", "cancel", "lock", "drain", "retire"}]
      /\ operation \in Actors \cup {NoOne}
      /\ load \in [by : Actors \cup {NoOne}, stage : {"none", "prepare", "spawn", "ready"}]
      /\ backend \in [life : Lives, process : {"none", "live", "unregistered"}]
      /\ orphan \in {"none", "submitted", "running"}
      /\ run \in RunRecord
  BY DEF TypeOK
<1>2. /\ run' \in RunRecord
      /\ orphan' \in {"none", "submitted", "running"}
      /\ UNCHANGED <<store, jobs, owner, server, used, packs, quarantined>>
  BY <1>1 DEF ClientStep, BackendExits, RunRecord
<1>3. CASE \E c \in Clients : Ask(c) \/ Target(c) \/ Refused(c) \/ FinishUse(c) \/ Unload(c)
                              \/ UnloadDropped(c)
  BY <1>1, <1>2, <1>3 DEF Ask, Target, Refused, FinishUse, Unload, UnloadDropped, TypeOK, store
<1>4. CASE \E c \in Clients : JitLoad(c) \/ ManualLoad(c)
  BY <1>1, <1>2, <1>4, Names DEF JitLoad, ManualLoad, StartLoad, TypeOK, store, Lives, Loading
<1>5. CASE \E c \in Clients : ClientLoadEnds(c) \/ JitDropped(c) \/ Retire(c)
  BY <1>1, <1>2, <1>5, Names
  DEF ClientLoadEnds, JitDropped, Retire, NoLoad, NoBackend, TypeOK, store, Lives, Loading
<1>6. CASE Reap \/ \E a \in Actors : StopperCancels(a) \/ StopperLocks(a) \/ StopperStops(a)
  BY <1>1, <1>2, <1>6, Names
  DEF Reap, StopperCancels, StopperLocks, StopperStops, NoBackend, TypeOK, store, Lives, Loading
<1>7. CASE BackendExits
  BY <1>1, <1>2, <1>7 DEF BackendExits, NoBackend, TypeOK, store, Lives
<1> QED BY <1>3, <1>4, <1>5, <1>6, <1>7 DEF ClientStep

\* The steps of a run.
LEMMA RunType ==
  ASSUME TypeOK, ServerInv, IdInv, RunStep \/ CancelRun \/ PackOperation
  PROVE  TypeOK'
<1>1. /\ pc \in [Actors -> {"idle", "asking", "jit", "using", "manual", "unload"}]
      /\ stopper \in [Actors -> {"none", "cancel", "lock", "drain", "retire"}]
      /\ operation \in Actors \cup {NoOne}
      /\ load \in [by : Actors \cup {NoOne}, stage : {"none", "prepare", "spawn", "ready"}]
      /\ backend \in [life : Lives, process : {"none", "live", "unregistered"}]
      /\ orphan \in {"none", "submitted", "running"}
      /\ run \in RunRecord
      /\ jobs \subseteq Jobs
  BY DEF TypeOK
<1>2. /\ {"stop", "kill", "unloading", "finish", "finalize"} \subseteq Cleaning
      /\ {"saving", "load", "loading", "build", "measure", "confirm", "verify", "end"}
           \subseteq Executing
      /\ NoRun \in RunRecord
      /\ NoBackend \in [life : Lives, process : {"none", "live", "unregistered"}]
      /\ NoLoad \in [by : Actors \cup {NoOne}, stage : {"none", "prepare", "spawn", "ready"}]
  BY DEF Cleaning, Executing, NoRun, RunRecord, NoBackend, NoLoad, Lives
<1>3. run.pc # "none" => owner # NoOne BY DEF ServerInv, Serving
<1>4. "run" \in Actors BY Names
<1>5. ASSUME NEW reason, Abandon(reason)
      PROVE  run' \in RunRecord /\ orphan' \in {"none", "submitted", "running"}
  BY <1>5, AbandonFacts
<1>6. ASSUME NEW status \in Final \cup {"running"}, Save(status), run.pc # "none"
      PROVE  jobs' \subseteq Jobs
  BY <1>3, <1>6, SaveType
<1>7. Deafen \subseteq Jobs BY DeafenFacts
<1>8. CASE \E r \in Runs : StartRun(r)
  <2>1. run' \in RunRecord
    <3>1. PICK r \in Runs : run' = [NoRun EXCEPT !.id = r, !.pc = "checking"]
      BY <1>8 DEF StartRun
    <3> QED BY <1>2, <3>1 DEF RunRecord
  <2> QED BY <1>1, <1>4, <1>8, <2>1 DEF StartRun, TypeOK, store
<1>9. CASE RefuseRun BY <1>1, <1>2, <1>9 DEF RefuseRun, TypeOK, store
<1>10. CASE AdmitRun
  <2>1. jobs' \subseteq Jobs BY <1>6, <1>10 DEF AdmitRun
  <2>2. run' \in RunRecord /\ run.id \in Runs
    BY <1>1, <1>2, <1>10 DEF AdmitRun, RunRecord, IdInv
  <2> QED BY <1>1, <1>10, <2>1, <2>2 DEF AdmitRun, TypeOK, store
<1>11. CASE Interrupt
  <2>1. run' \in RunRecord /\ orphan' \in {"none", "submitted", "running"}
    BY <1>5, <1>11 DEF Interrupt
  <2> QED BY <1>1, <1>7, <1>11, <2>1 DEF Interrupt, TypeOK, store, manager
<1>12. CASE Saved
  <2>1. run' \in RunRecord /\ orphan' \in {"none", "submitted", "running"}
    <3>1. CASE run' = [run EXCEPT !.pc = run.then, !.then = "none"] /\ UNCHANGED orphan
      <4>1. run.then \in Executing
        BY <1>1, <1>12 DEF Saved, RunRecord, IdInv, Executing
      <4> QED BY <1>1, <3>1, <4>1 DEF RunRecord
    <3>2. CASE Abandon("store") BY <1>5, <3>2
    <3> QED BY <1>12, <3>1, <3>2 DEF Saved
  <2> QED BY <1>1, <1>12, <2>1 DEF Saved, TypeOK, store, manager
<1>13. CASE RunLoad
  <2>1. run' \in RunRecord /\ orphan' \in {"none", "submitted", "running"}
    <3>1. CASE Abandon("busy") BY <1>5, <3>1
    <3>2. CASE run' = [run EXCEPT !.pc = "loading"] /\ UNCHANGED orphan
      BY <1>1, <1>2, <3>2 DEF RunRecord
    <3>3. CASE /\ run' = [run EXCEPT !.pc = "saving", !.then = "build", !.pinned = "same"]
               /\ UNCHANGED orphan
      BY <1>1, <1>2, <3>3 DEF RunRecord
    <3> QED BY <1>13, <3>1, <3>2, <3>3 DEF RunLoad
  <2>2. jobs' \subseteq Jobs BY <1>1, <1>6, <1>13 DEF RunLoad
  <2>3. /\ operation' \in Actors \cup {NoOne}
        /\ load' \in [by : Actors \cup {NoOne}, stage : {"none", "prepare", "spawn", "ready"}]
        /\ backend' \in [life : Lives, process : {"none", "live", "unregistered"}]
    BY <1>1, <1>4, <1>13 DEF RunLoad, StartLoad, Lives, Loading, Save
  <2> QED BY <1>13, <2>1, <2>2, <2>3 DEF RunLoad, TypeOK, store
<1>14. CASE LoadSpawns \/ LoadRegisters
  BY <1>1, <1>14 DEF LoadSpawns, LoadRegisters, TypeOK, store
<1>15. CASE RunLoadEnds
  <2>1. run' \in RunRecord /\ orphan' \in {"none", "submitted", "running"}
    <3>1. CASE Abandon("load") BY <1>5, <3>1
    <3>2. CASE UNCHANGED <<run, orphan>> BY <1>1, <3>2
    <3>3. CASE /\ run' = [run EXCEPT !.pc = "saving", !.then = "build", !.pinned = "same"]
               /\ UNCHANGED orphan
      BY <1>1, <1>2, <3>3 DEF RunRecord
    <3> QED BY <1>15, <3>1, <3>2, <3>3 DEF RunLoadEnds
  <2>2. jobs' \subseteq Jobs BY <1>1, <1>6, <1>15 DEF RunLoadEnds
  <2>3. backend' \in [life : Lives, process : {"none", "live", "unregistered"}]
    BY <1>2, <1>15 DEF RunLoadEnds, Lives
  <2> QED BY <1>2, <1>15, <2>1, <2>2, <2>3 DEF RunLoadEnds, TypeOK, store
<1>16. CASE BuildRequest
  <2>1. run' \in RunRecord /\ orphan' \in {"none", "submitted", "running"}
    <3>1. CASE Abandon("missing") BY <1>5, <3>1
    <3>2. CASE /\ run' = [run EXCEPT !.pc = "saving", !.then = "measure", !.observed = FALSE]
               /\ UNCHANGED orphan
      BY <1>1, <1>2, <3>2 DEF RunRecord
    <3> QED BY <1>16, <3>1, <3>2 DEF BuildRequest
  <2>2. jobs' \subseteq Jobs BY <1>1, <1>6, <1>16 DEF BuildRequest
  <2> QED BY <1>16, <2>1, <2>2 DEF BuildRequest, TypeOK, store, manager
<1>17. CASE Submit \/ MeasureFails \/ ConfirmFails
  <2>1. run' \in RunRecord /\ orphan' \in {"none", "submitted", "running"}
    BY <1>1, <1>5, <1>17 DEF Submit, MeasureFails, ConfirmFails, RunRecord
  <2> QED BY <1>17, <2>1 DEF Submit, MeasureFails, ConfirmFails, TypeOK, store, manager
<1>18. CASE Arrives \/ Observe \/ CancelRun \/ Complete \/ StopEnds
  <2>1. run' \in RunRecord
    <3>1. CASE Arrives BY <1>1, <3>1 DEF Arrives, RunRecord
    <3>2. CASE Observe BY <1>1, <3>2 DEF Observe, RunRecord
    <3>3. CASE CancelRun BY <1>1, <3>3 DEF CancelRun, RunRecord
    <3>4. CASE Complete BY <1>1, <1>2, <3>4 DEF Complete, RunRecord, Final
    <3>5. CASE StopEnds BY <1>1, <1>2, <3>5 DEF StopEnds, RunRecord
    <3> QED BY <1>18, <3>1, <3>2, <3>3, <3>4, <3>5
  <2> QED BY <1>18, <2>1 DEF Arrives, Observe, CancelRun, Complete, StopEnds, TypeOK, store, manager
<1>19. CASE Measured \/ Confirm
  <2>1. run' \in RunRecord
    <3>1. CASE Measured BY <1>1, <1>2, <3>1 DEF Measured, RunRecord
    <3>2. CASE Confirm BY <1>1, <1>2, <3>2 DEF Confirm, RunRecord
    <3> QED BY <1>19, <3>1, <3>2
  <2>2. jobs' \subseteq Jobs BY <1>6, <1>19 DEF Measured, Confirm
  <2> QED BY <1>19, <2>1, <2>2 DEF Measured, Confirm, TypeOK, store, manager
<1>20. CASE TaskTimesOut \/ OrphanMoves
  <2>1. run' \in RunRecord /\ orphan' \in {"none", "submitted", "running"}
    <3>1. CASE TaskTimesOut
      <4>1. run' \in RunRecord BY <1>1, <1>2, <3>1 DEF TaskTimesOut, RunRecord
      <4>2. run.request \in {"none", "submitted", "running"} BY <1>1 DEF RunRecord
      <4> QED BY <1>1, <3>1, <4>1, <4>2 DEF TaskTimesOut
    <3>2. CASE OrphanMoves BY <1>1, <3>2 DEF OrphanMoves
    <3> QED BY <1>20, <3>1, <3>2
  <2> QED BY <1>20, <2>1 DEF TaskTimesOut, OrphanMoves, TypeOK, store, manager
<1>21. CASE Verify
  <2>1. orphan' \in {"none", "submitted", "running"} BY <1>1, <1>5, <1>21 DEF Verify
  <2>2. run' \in RunRecord
    <3>1. CASE \E reason : Abandon(reason) BY <1>5, <3>1
    <3>2. CASE run' = [run EXCEPT !.pc = "build", !.task = @ + 1]
      <4>1. run.task + 1 \in Nat BY <1>1 DEF RunRecord
      <4> QED BY <1>1, <1>2, <3>2, <4>1 DEF RunRecord
    <3>3. CASE run' = [run EXCEPT !.pc = "saving", !.then = "end"] BY <1>1, <1>2, <3>3 DEF RunRecord
    <3> QED BY <1>21, <3>1, <3>2, <3>3 DEF Verify
  <2>3. jobs' \subseteq Jobs BY <1>1, <1>6, <1>21 DEF Verify
  <2> QED BY <1>21, <2>1, <2>2, <2>3 DEF Verify, TypeOK, store, manager
<1>22. CASE StopAborts \/ StopKills \/ StopFails
  <2>1. run' \in RunRecord
    <3>1. CASE StopAborts BY <1>1, <1>2, <3>1 DEF StopAborts, RunRecord
    <3>2. CASE StopKills BY <1>1, <1>2, <3>2, ZenonT(60) DEF StopKills, RunRecord
    <3>3. CASE StopFails BY <1>1, <1>2, <3>3 DEF StopFails, RunRecord
    <3> QED BY <1>22, <3>1, <3>2, <3>3
  <2>2. CASE StopAborts BY <1>1, <1>2, <2>1, <2>2 DEF StopAborts, TypeOK, store
  <2>3. CASE StopKills BY <1>1, <1>4, <2>1, <2>3 DEF StopKills, TypeOK, store, Lives
  <2>4. CASE StopFails BY <2>1, <2>4 DEF StopFails, TypeOK, store, manager
  <2> QED BY <1>22, <2>2, <2>3, <2>4
<1>23. CASE Finish
  <2>1. run' \in RunRecord BY <1>1, <1>2, <1>23 DEF Finish, RunRecord
  <2>2. jobs' \subseteq Jobs BY <1>1, <1>6, <1>23 DEF Finish, RunRecord
  <2> QED BY <1>23, <2>1, <2>2 DEF Finish, TypeOK, store, manager
<1>24. CASE Finalized
  BY <1>1, <1>2, <1>7, <1>24 DEF Finalized, TypeOK, store, manager
<1>25. CASE PackOperation BY <1>25 DEF PackOperation, TypeOK, store, manager
<1> QED BY <1>8, <1>9, <1>10, <1>11, <1>12, <1>13, <1>14, <1>15, <1>16, <1>17, <1>18, <1>19,
           <1>20, <1>21, <1>22, <1>23, <1>24, <1>25 DEF RunStep

\* Memory as a server finds it.
LEMMA EmptyType ==
  ASSUME TypeOK, EmptyMemory
  PROVE  /\ run' \in RunRecord
         /\ pc' \in [Actors -> {"idle", "asking", "jit", "using", "manual", "unload"}]
         /\ stopper' \in [Actors -> {"none", "cancel", "lock", "drain", "retire"}]
         /\ operation' \in Actors \cup {NoOne}
         /\ load' \in [by : Actors \cup {NoOne}, stage : {"none", "prepare", "spawn", "ready"}]
         /\ backend' \in [life : Lives, process : {"none", "live", "unregistered"}]
         /\ orphan' \in {"none", "submitted", "running"}
         /\ quarantined' \in BOOLEAN
  BY DEF EmptyMemory, NoRun, RunRecord, NoLoad, NoBackend, Lives

\* The steps of processes.
LEMMA ProcessType ==
  ASSUME TypeOK, ProcessStep
  PROVE  TypeOK'
<1>1. PICK p \in Procs :
        \/ Boot(p) \/ Claim(p) \/ Recovered(p) \/ Shutdown(p) \/ ShutdownGate(p)
        \/ ShutdownEnds(p) \/ Exit(p) \/ Crash(p)
  BY DEF ProcessStep
<1>2. CASE Boot(p) \/ ShutdownGate(p) \/ Exit(p)
  BY <1>2 DEF Boot, ShutdownGate, Exit, TypeOK, store, manager
<1>3. CASE Claim(p)
  <2>1. Job(p, NoOne, "recover") \in Jobs BY DEF Job, Jobs, JobPcs
  <2> QED BY <1>3, <2>1 DEF Claim, TypeOK, store, manager
<1>4. CASE Recovered(p) BY <1>4 DEF Recovered, TypeOK, store, manager
<1>5. CASE Shutdown(p)
  <2>1. run' \in RunRecord BY <1>5 DEF Shutdown, TypeOK, RunRecord
  <2> QED BY <1>5, <2>1 DEF Shutdown, TypeOK, store, manager
<1>6. CASE ShutdownEnds(p)
  BY <1>6, EmptyType DEF ShutdownEnds, TypeOK, store
<1>7. CASE Crash(p)
  <2>1. CASE owner = p BY <1>7, <2>1, EmptyType DEF Crash, TypeOK, store
  <2>2. CASE owner # p BY <1>7, <2>2 DEF Crash, TypeOK, store, manager
  <2> QED BY <2>1, <2>2
<1> QED BY <1>1, <1>2, <1>3, <1>4, <1>5, <1>6, <1>7

LEMMA NextType ==
  ASSUME IInv, [Next]_vars
  PROVE  TypeOK'
<1>1. CASE UNCHANGED vars BY <1>1 DEF vars, IInv, TypeOK
<1> QED BY <1>1, StoreType, ClientType, RunType, ProcessType DEF Next, IInv


-----------------------------------------------------------------------------
(* The way of a run, from its reservation to its release.                  *)

Stays ==
  /\ run'.id = run.id /\ used' = used
  /\ \/ run'.pc = run.pc /\ run'.then = run.then /\ run'.status = run.status
     \/ /\ run.pc \in Executing /\ run'.pc \in Executing
        /\ run'.pc = "saving" => run'.then # "none"
     \/ run.pc \in Cleaning /\ run'.pc \in Cleaning /\ run'.status = run.status

Stops ==
  /\ run'.id = run.id /\ used' = used
  /\ run.pc \in Executing /\ run'.pc \in Cleaning /\ run'.status \in Final

Reserves(r) ==
  /\ run.pc = "none" /\ Serving /\ r \notin used /\ used' = used
  /\ run'.id = r /\ run'.pc = "checking"

Admits ==
  /\ run.pc = "checking" /\ run'.pc = "saving" /\ run'.then # "none"
  /\ run'.id = run.id /\ used' = used \cup {run.id}

Leaves == run'.id = NoOne /\ run'.pc = "none" /\ used' = used

RunMoves == Stays \/ Stops \/ (\E r \in Runs : Reserves(r)) \/ Admits \/ Leaves

\* The parts are different.
LEMMA PointSets ==
  /\ Executing \cap Cleaning = {} /\ "none" \notin Executing \cup Cleaning
  /\ "checking" \notin Executing \cup Cleaning
  BY DEF Executing, Cleaning

LEMMA RunStepMoves ==
  ASSUME IInv, RunStep
  PROVE  RunMoves
<1>1. TypeOK /\ run \in RunRecord BY DEF IInv, TypeOK
<1>2. ASSUME NEW reason, Abandon(reason), UNCHANGED used, run.pc \in Executing PROVE Stops
  BY <1>1, <1>2, AbandonFacts DEF Stops, Cleaning
<1>3. CASE \E r \in Runs : StartRun(r)
  <2>1. PICK r \in Runs : StartRun(r) BY <1>3
  <2>2. run' = [NoRun EXCEPT !.id = r, !.pc = "checking"] BY <2>1 DEF StartRun
  <2>3. run'.id = r /\ run'.pc = "checking" BY <2>2 DEF NoRun
  <2>4. Reserves(r) BY <2>1, <2>3 DEF StartRun, Reserves, Admission
  <2> QED BY <2>4 DEF RunMoves
<1>4. CASE RefuseRun \/ Finalized
  <2>1. run' = NoRun /\ used' = used BY <1>4 DEF RefuseRun, Finalized
  <2> QED BY <2>1 DEF NoRun, Leaves, RunMoves
<1>5. CASE AdmitRun BY <1>1, <1>5 DEF AdmitRun, Admits, RunMoves, RunRecord
<1>6. CASE Interrupt BY <1>2, <1>6 DEF Interrupt, RunMoves
<1>7. CASE Saved
  <2>1. run.pc = "saving" /\ used' = used BY <1>7 DEF Saved
  <2>2. CASE Abandon("store") BY <1>2, <2>1, <2>2 DEF Executing, RunMoves
  <2>3. CASE run' = [run EXCEPT !.pc = run.then, !.then = "none"]
    <3>1. run.then \in Executing \ {"saving"}
      BY <1>1, <2>1 DEF RunRecord, IInv, IdInv, Executing
    <3>2. run'.pc = run.then /\ run'.id = run.id BY <1>1, <2>3 DEF RunRecord
    <3> QED BY <2>1, <3>1, <3>2 DEF Stays, Executing, RunMoves
  <2> QED BY <1>7, <2>2, <2>3 DEF Saved
<1>8. CASE RunLoad \/ RunLoadEnds \/ BuildRequest \/ Submit \/ MeasureFails \/ ConfirmFails \/ Verify
  <2>1. used' = used
    BY <1>8 DEF RunLoad, RunLoadEnds, BuildRequest, Submit, MeasureFails, ConfirmFails, Verify
  <2>2. CASE \E reason : Abandon(reason) /\ run.pc \in Executing
    BY <1>2, <2>1, <2>2 DEF RunMoves
  <2>3. CASE /\ run.pc \in Executing
             /\ \E next \in Executing \ {"saving"} :
                  run'.pc = next /\ run'.id = run.id /\ run'.status = run.status
    BY <2>1, <2>3 DEF Stays, RunMoves
  <2>4. CASE /\ run.pc \in Executing
             /\ run'.pc = "saving" /\ run'.id = run.id /\ run'.then # "none"
    BY <2>1, <2>4 DEF Stays, RunMoves, Executing
  <2>5. CASE UNCHANGED run BY <2>1, <2>5 DEF Stays, RunMoves
  <2>6. CASE RunLoad BY <1>1, <2>2, <2>3, <2>4, <2>6 DEF RunLoad, Executing, RunRecord
  <2>7. CASE RunLoadEnds BY <1>1, <2>2, <2>4, <2>5, <2>7 DEF RunLoadEnds, Executing, RunRecord
  <2>8. CASE BuildRequest BY <1>1, <2>2, <2>4, <2>8 DEF BuildRequest, Executing, RunRecord
  <2>9. CASE Submit
    <3>1. CASE run' = [run EXCEPT !.request = "submitted"]
      BY <1>1, <2>1, <3>1 DEF RunRecord, Stays, RunMoves
    <3> QED BY <2>2, <2>9, <3>1 DEF Submit, Executing
  <2>10. CASE MeasureFails \/ ConfirmFails
    BY <2>2, <2>10 DEF MeasureFails, ConfirmFails, Executing
  <2>11. CASE Verify
    <3>1. CASE run' = [run EXCEPT !.pc = "build", !.task = @ + 1]
      <4>1. run'.pc = "build" /\ run'.id = run.id /\ run'.status = run.status
        BY <1>1, <3>1 DEF RunRecord
      <4> QED BY <2>3, <2>11, <4>1 DEF Verify, Executing
    <3>2. CASE run' = [run EXCEPT !.pc = "saving", !.then = "end"]
      <4>1. run'.pc = "saving" /\ run'.id = run.id /\ run'.then = "end"
        BY <1>1, <3>2 DEF RunRecord
      <4> QED BY <2>4, <2>11, <4>1 DEF Verify, Executing
    <3>3. CASE \E reason : Abandon(reason) BY <2>2, <2>11, <3>3 DEF Verify, Executing
    <3> QED BY <2>11, <3>1, <3>2, <3>3 DEF Verify
  <2> QED BY <1>8, <2>6, <2>7, <2>8, <2>9, <2>10, <2>11
<1>9. CASE LoadSpawns \/ LoadRegisters \/ OrphanMoves
  BY <1>9 DEF LoadSpawns, LoadRegisters, OrphanMoves, Stays, RunMoves
<1>10. CASE Arrives \/ Observe
  BY <1>1, <1>10 DEF Arrives, Observe, RunRecord, Stays, RunMoves
<1>11. CASE Measured \/ Confirm \/ TaskTimesOut
  BY <1>1, <1>11 DEF Measured, Confirm, TaskTimesOut, RunRecord, Stays, RunMoves, Executing
<1>12. CASE Complete
  BY <1>1, <1>12 DEF Complete, RunRecord, Stops, RunMoves, Executing, Cleaning, Final
<1>13. CASE StopAborts \/ StopKills \/ StopEnds \/ StopFails \/ Finish
  <2>1. run.pc \in Cleaning /\ used' = used
    BY <1>13 DEF StopAborts, StopKills, StopEnds, StopFails, Finish, Cleaning
  <2>2. run'.id = run.id /\ run'.pc \in Cleaning /\ run'.status = run.status
    BY <1>1, <1>13 DEF StopAborts, StopKills, StopEnds, StopFails, Finish, Cleaning, RunRecord
  <2> QED BY <2>1, <2>2 DEF Stays, RunMoves
<1> QED BY <1>3, <1>4, <1>5, <1>6, <1>7, <1>8, <1>9, <1>10, <1>11, <1>12, <1>13 DEF RunStep

\* So does every other step.
LEMMA NextMoves ==
  ASSUME IInv, [Next]_vars
  PROVE  RunMoves
<1>1. run \in RunRecord BY DEF IInv, TypeOK
<1>2. CASE StoreStep \/ PackOperation \/ UNCHANGED vars
  BY <1>2 DEF StoreStep, PackOperation, vars, Stays, RunMoves
<1>3. CASE ClientStep \/ BackendExits \/ CancelRun
  BY <1>1, <1>3 DEF ClientStep, BackendExits, CancelRun, RunRecord, Stays, RunMoves
<1>4. CASE ProcessStep
  <2>1. CASE EmptyMemory /\ used' = used
    BY <2>1 DEF EmptyMemory, NoRun, Leaves, RunMoves
  <2>2. CASE (UNCHANGED run \/ \E b : run' = [run EXCEPT !.cancel = b]) /\ used' = used
    BY <1>1, <2>2 DEF RunRecord, Stays, RunMoves
  <2> QED BY <1>4, <2>1, <2>2
      DEF ProcessStep, Boot, Claim, Recovered, Shutdown, ShutdownGate, ShutdownEnds, Exit, Crash
<1> QED BY <1>2, <1>3, <1>4, RunStepMoves DEF Next

LEMMA NextId ==
  ASSUME IInv, [Next]_vars
  PROVE  IdInv'
<1>1. RunMoves BY NextMoves
<1>2. IdInv BY DEF IInv
<1>3. CASE Stays BY <1>2, <1>3, PointSets DEF Stays, IdInv, Executing
<1>4. CASE Stops BY <1>2, <1>4, PointSets DEF Stops, IdInv, Executing
<1>5. CASE \E r \in Runs : Reserves(r) BY <1>5, PointSets, Names DEF Reserves, IdInv, Executing
<1>6. CASE Admits BY <1>2, <1>6, PointSets DEF Admits, IdInv, Executing, Cleaning
<1>7. CASE Leaves BY <1>2, <1>7, PointSets DEF Leaves, IdInv
<1> QED BY <1>1, <1>3, <1>4, <1>5, <1>6, <1>7 DEF RunMoves


-----------------------------------------------------------------------------
(* The store's jobs.                                                       *)

\* What a run's step does to the jobs: it hears of one, stops listening, or
\* asks for its record to be saved.
Submits(status) ==
  /\ jobs' = jobs \cup {Job(owner, run.id, status)}
  /\ run.pc # "none"
  /\ run.id \in used' /\ run'.id = run.id
  /\ status = "running" \/ (status \in Final /\ run'.pc \in Cleaning)

LEMMA RunJobs ==
  ASSUME IInv, RunStep
  PROVE  /\ UNCHANGED store
         /\ \/ jobs' = Deafen
            \/ jobs' \subseteq jobs
            \/ \E status : Submits(status)
<1>1. /\ run \in RunRecord
      /\ run.pc \in Executing \cup Cleaning => run.id \in used
      /\ run.pc \in Cleaning => run.status \in Final
  BY DEF IInv, TypeOK, IdInv
<1>2. UNCHANGED store
  BY DEF RunStep, StartRun, RefuseRun, AdmitRun, Interrupt, Saved, RunLoad, LoadSpawns,
     LoadRegisters, RunLoadEnds, BuildRequest, Submit, Arrives, Observe, Measured, MeasureFails,
     TaskTimesOut, OrphanMoves, Confirm, ConfirmFails, Verify, Complete, StopAborts, StopKills,
     StopEnds, StopFails, Finish, Finalized
<1>3. CASE AdmitRun
  <2>1. run'.id = run.id BY <1>1, <1>3 DEF AdmitRun, RunRecord
  <2>2. Submits("running")
    BY <1>3, <2>1 DEF AdmitRun, Save, Submits
  <2> QED BY <1>2, <2>2
<1>4. CASE Finish
  <2>1. run'.pc = "finalize" /\ run'.id = run.id BY <1>1, <1>4 DEF Finish, RunRecord
  <2>2. Submits(run.status)
    BY <1>1, <1>4, <2>1, PointSets DEF Finish, Save, Submits, Cleaning
  <2> QED BY <1>2, <2>2
<1>5. CASE Save("running") /\ run.pc \in Executing /\ run'.id = run.id /\ used' = used
  BY <1>1, <1>2, <1>5, PointSets DEF Save, Submits
<1>6. CASE Measured \/ Confirm
  BY <1>1, <1>5, <1>6 DEF Measured, Confirm, Executing, RunRecord
<1>7. CASE RunLoad \/ BuildRequest \/ Verify
  <2>1. run.pc \in Executing /\ used' = used
    BY <1>7 DEF RunLoad, BuildRequest, Verify, Executing
  <2>2. jobs' = jobs \/ (Save("running") /\ run'.id = run.id)
    BY <1>1, <1>7 DEF RunLoad, BuildRequest, Verify, RunRecord
  <2> QED BY <1>2, <1>5, <2>1, <2>2
<1>8. CASE RunLoadEnds
  <2>1. \/ jobs' = jobs
        \/ Save("running") /\ run.pc = "loading" /\ run'.id = run.id /\ used' = used
    BY <1>1, <1>8 DEF RunLoadEnds, RunRecord
  <2>2. "loading" \in Executing BY DEF Executing
  <2> QED BY <1>2, <1>5, <2>1, <2>2
<1>9. CASE Interrupt \/ Saved \/ Finalized
  BY <1>2, <1>9 DEF Interrupt, Saved, Finalized
<1>10. CASE \/ \E r \in Runs : StartRun(r)
            \/ RefuseRun \/ LoadSpawns \/ LoadRegisters \/ Submit \/ Arrives \/ Observe
            \/ MeasureFails \/ TaskTimesOut \/ OrphanMoves \/ ConfirmFails \/ Complete
            \/ StopAborts \/ StopKills \/ StopEnds \/ StopFails
  BY <1>2, <1>10 DEF StartRun, RefuseRun, LoadSpawns, LoadRegisters, Submit, Arrives, Observe,
     MeasureFails, TaskTimesOut, OrphanMoves, ConfirmFails, Complete, StopAborts, StopKills,
     StopEnds, StopFails
<1> QED BY <1>3, <1>4, <1>6, <1>7, <1>8, <1>9, <1>10 DEF RunStep

\* A job that goes on only knows the files and whether its run still works.
LEMMA JobKept ==
  ASSUME IInv, RunMoves, UNCHANGED store, NEW k, NEW j \in jobs,
         k.run = j.run, k.status = j.status, k.pc = j.pc, k.pc \in JobPcs,
         \A l \in jobs' : k.pc \in Holding /\ l.pc \in Holding => l = k
  PROVE  JobInv(k)'
<1>1. JobInv(j) BY DEF IInv, StoreInv
<1>2. j \in Jobs BY DEF IInv, TypeOK
<1>3. used \subseteq used' BY DEF RunMoves, Stays, Stops, Reserves, Admits, Leaves
<1>4. ASSUME j.status \in Final PROVE j.run # run'.id \/ run'.pc \in Cleaning
  <2>1. j.run \in used /\ j.run \in Runs
    BY <1>1, <1>2, <1>4, FinalStatuses DEF JobInv, Alone, Knows, IInv, TypeOK
  <2>2. j.run # run.id \/ run.pc \in Cleaning BY <1>1, <1>4 DEF JobInv, Alone, Knows
  <2>3. CASE Stays BY <2>2, <2>3, PointSets DEF Stays
  <2>4. CASE Stops BY <2>4 DEF Stops
  <2>5. CASE \E r \in Runs : Reserves(r) BY <2>1, <2>5 DEF Reserves
  <2>6. CASE Admits
    <3>1. run.id \notin used BY <2>6 DEF Admits, IInv, IdInv
    <3> QED BY <2>1, <2>6, <3>1 DEF Admits
  <2>7. CASE Leaves BY <2>1, <2>7, Names DEF Leaves
  <2> QED BY <2>3, <2>4, <2>5, <2>6, <2>7 DEF RunMoves
<1> QED BY <1>1, <1>3, <1>4 DEF JobInv, Alone, Knows, store

\* Nobody is heard twice: the holder of the lock stays one.
LEMMA DeafenHolding ==
  ASSUME IInv, NEW k \in Deafen, NEW l \in Deafen, k.pc \in Holding, l.pc \in Holding
  PROVE  l = k
<1>1. PICK j \in jobs : k = [j EXCEPT !.heard = IF j \in MyJob THEN FALSE ELSE @]
  BY DEF Deafen
<1>2. PICK i \in jobs : l = [i EXCEPT !.heard = IF i \in MyJob THEN FALSE ELSE @]
  BY DEF Deafen
<1>3. j.pc = k.pc /\ i.pc = l.pc BY <1>1, <1>2 DEF IInv, TypeOK, Jobs
<1>4. i = j BY <1>3 DEF IInv, StoreInv, JobInv, Alone, Knows
<1> QED BY <1>1, <1>2, <1>4

LEMMA RunKeepsStore ==
  ASSUME IInv, RunStep
  PROVE  StoreInv'
<1>1. RunMoves /\ UNCHANGED store BY RunStepMoves, RunJobs
<1>2. ASSUME NEW r \in Runs PROVE RecordInv(r)'
  BY <1>1 DEF IInv, StoreInv, RecordInv, store, RunMoves, Stays, Stops, Reserves, Admits, Leaves
<1>3. jobs \subseteq Jobs /\ \A j \in jobs : JobInv(j) BY DEF IInv, TypeOK, StoreInv
<1>4. CASE jobs' = Deafen
  <2>1. ASSUME NEW k \in jobs' PROVE JobInv(k)'
    <3>1. PICK j \in jobs : k.run = j.run /\ k.status = j.status /\ k.pc = j.pc
      BY <1>4, DeafenFacts DEF IInv
    <3>2. k.pc \in JobPcs BY <1>3, <3>1 DEF Jobs
    <3>3. \A l \in jobs' : k.pc \in Holding /\ l.pc \in Holding => l = k
      BY <1>4, DeafenHolding
    <3> QED BY <1>1, <3>1, <3>2, <3>3, JobKept
  <2> QED BY <1>2, <2>1 DEF StoreInv
<1>5. CASE jobs' \subseteq jobs
  <2>1. ASSUME NEW k \in jobs' PROVE JobInv(k)'
    <3>1. k \in jobs /\ k.pc \in JobPcs BY <1>3, <1>5 DEF Jobs
    <3>2. \A l \in jobs' : k.pc \in Holding /\ l.pc \in Holding => l = k
      BY <1>3, <1>5, <3>1 DEF JobInv, Alone, Knows
    <3> QED BY <1>1, <3>1, <3>2, JobKept
  <2> QED BY <1>2, <2>1 DEF StoreInv
<1>6. CASE \E status : Submits(status)
  <2>1. PICK status : Submits(status) BY <1>6
  <2>2. PICK n : n = Job(owner, run.id, status) OBVIOUS
  <2>3. n.pc = "lock" /\ n.run = run.id /\ n.status = status BY <2>2 DEF Job
  <2>4. jobs' = jobs \cup {n} BY <2>1, <2>2 DEF Submits
  <2>5. JobInv(n)'
    BY <2>1, <2>3, FinalStatuses DEF JobInv, Alone, Knows, Submits, Holding, Final
  <2>6. ASSUME NEW k \in jobs PROVE JobInv(k)'
    <3>1. k.pc \in JobPcs BY <1>3 DEF Jobs
    <3>2. \A l \in jobs' : k.pc \in Holding /\ l.pc \in Holding => l = k
      BY <1>3, <2>3, <2>4 DEF JobInv, Alone, Knows, Holding
    <3> QED BY <1>1, <3>1, <3>2, JobKept
  <2> QED BY <1>2, <2>4, <2>5, <2>6 DEF StoreInv
<1> QED BY <1>4, <1>5, <1>6, RunJobs

\* A job that holds the lock, or gets it, goes on to n; the others know
\* nothing of the files.
LEMMA JobGoesOn ==
  ASSUME IInv, UNCHANGED <<run, used>>, NEW j \in jobs, NEW n,
         \A k \in jobs \ {j} : k.pc \notin Holding,
         jobs' \subseteq (jobs \ {j}) \cup {n}, n \in jobs' => Knows(n)'
  PROVE  \A k \in jobs' : JobInv(k)'
<1> SUFFICES ASSUME NEW k \in jobs' PROVE JobInv(k)' OBVIOUS
<1>1. CASE k = n BY <1>1 DEF JobInv, Alone
<1>2. CASE k \in jobs \ {j}
  <2>1. JobInv(k) /\ k.pc \notin Holding BY <1>2 DEF IInv, StoreInv
  <2>2. k.pc \notin {"write", "summary", "remove", "scan"} BY <2>1 DEF Holding
  <2> QED BY <2>1, <2>2 DEF JobInv, Alone, Knows
<1> QED BY <1>1, <1>2

LEMMA StoreKeepsStore ==
  ASSUME IInv, StoreStep
  PROVE  StoreInv'
<1>1. /\ UNCHANGED <<run, used>> /\ jobs \subseteq Jobs /\ used \subseteq Runs
      /\ active \in [Runs -> BOOLEAN]
      /\ terminal \in [Runs -> Final \cup {"none"}]
      /\ summary \in [Runs -> Final \cup {"running", "none"}]
  BY DEF StoreStep, IInv, TypeOK
<1>2. PICK j \in jobs :
        \/ SaveLocks(j) \/ SaveWrites(j) \/ SaveSummarises(j) \/ SaveRemoves(j)
        \/ JobFails(j) \/ RecoverLocks(j) \/ RecoverSummarises(j)
        \/ RecoverRemoves(j) \/ RecoverEnds(j)
        \/ \E r \in Runs : RecoverWrites(j, r)
  BY DEF StoreStep
<1>3. j \in Jobs /\ JobInv(j) BY <1>1 DEF IInv, StoreInv
<1>4. \A r \in Runs : RecordInv(r) BY DEF IInv, StoreInv
<1>5. \A k \in jobs \ {j} : k.pc \notin Holding
  <2>1. CASE j.pc \in Holding BY <1>3, <2>1 DEF JobInv, Alone
  <2>2. CASE LockFree BY <2>2 DEF LockFree
  <2> QED BY <1>2, <2>1, <2>2
      DEF SaveLocks, SaveWrites, SaveSummarises, SaveRemoves, JobFails, RecoverLocks,
          RecoverSummarises, RecoverRemoves, RecoverEnds, RecoverWrites, Holding
<1>6. ASSUME NEW next \in JobPcs, Advance(j, next)
      PROVE  \E n \in Jobs : /\ jobs' \subseteq (jobs \ {j}) \cup {n}
                             /\ n.run = j.run /\ n.status = j.status /\ n.pc = next
  <2>1. PICK n : n = [j EXCEPT !.pc = next] OBVIOUS
  <2>2. n \in Jobs /\ n.run = j.run /\ n.status = j.status /\ n.pc = next
    BY <1>3, <2>1 DEF Jobs
  <2>3. jobs' \subseteq (jobs \ {j}) \cup {n} BY <1>6, <2>1 DEF Advance
  <2> QED BY <2>2, <2>3
<1>7. ASSUME NEW n, jobs' \subseteq (jobs \ {j}) \cup {n}, Knows(n)'
      PROVE  \A k \in jobs' : JobInv(k)'
  BY <1>1, <1>5, <1>7, JobGoesOn
<1>8. CASE SaveLocks(j) \/ JobFails(j) \/ RecoverLocks(j) \/ RecoverEnds(j)
  <2>1. UNCHANGED store BY <1>8 DEF SaveLocks, JobFails, RecoverLocks, RecoverEnds
  <2>2. PICK next \in {"err", "write", "scan", "ok"} :
          /\ Advance(j, next)
          /\ next = "write" => j.status # "recover" /\ terminal[j.run] = "none"
          /\ next = "scan" => j.status = "recover"
    BY <1>8 DEF SaveLocks, JobFails, RecoverLocks, RecoverEnds
  <2>3. next \in JobPcs BY DEF JobPcs
  <2>4. PICK n \in Jobs : /\ jobs' \subseteq (jobs \ {j}) \cup {n}
                          /\ n.run = j.run /\ n.status = j.status /\ n.pc = next
    BY <1>6, <2>2, <2>3
  <2>5. Knows(n)' BY <1>1, <1>3, <2>1, <2>2, <2>4 DEF JobInv, Knows, store
  <2>6. \A r \in Runs : RecordInv(r)' BY <1>1, <1>4, <2>1 DEF RecordInv, store
  <2> QED BY <1>7, <2>4, <2>5, <2>6 DEF StoreInv
<1>9. CASE SaveWrites(j)
  <2>1. j.status \in Final \cup {"running"} /\ j.pc = "write" /\ j.run \in Runs
    BY <1>1, <1>3, <1>9 DEF SaveWrites, Jobs, JobInv, Knows
  <2>2. Advance(j, "summary") /\ "summary" \in JobPcs BY <1>9 DEF SaveWrites, JobPcs
  <2>3. PICK n \in Jobs : /\ jobs' \subseteq (jobs \ {j}) \cup {n}
                          /\ n.run = j.run /\ n.status = j.status /\ n.pc = "summary"
    BY <1>6, <2>2
  <2>4. Knows(n)'
    BY <1>1, <1>3, <1>9, <2>1, <2>3, FinalStatuses DEF SaveWrites, JobInv, Knows
  <2>5. ASSUME NEW r \in Runs PROVE RecordInv(r)'
    <3>1. RecordInv(r) BY <1>4
    <3>2. CASE r # j.run BY <1>1, <1>9, <3>1, <3>2 DEF SaveWrites, RecordInv
    <3>3. CASE r = j.run
      BY <1>1, <1>3, <1>9, <2>1, <3>1, <3>3, FinalStatuses DEF SaveWrites, RecordInv, JobInv, Knows
    <3> QED BY <3>2, <3>3
  <2> QED BY <1>7, <2>3, <2>4, <2>5 DEF StoreInv
<1>10. CASE SaveSummarises(j)
  <2>1. j.status \in Final \cup {"running"} /\ j.pc = "summary" /\ j.run \in Runs
    BY <1>1, <1>3, <1>10 DEF SaveSummarises, Jobs, JobInv, Knows
  <2>2. PICK next \in {"remove", "ok"} : Advance(j, next) /\ (next = "remove" => j.status # "running")
    BY <1>10 DEF SaveSummarises
  <2>3. next \in JobPcs BY DEF JobPcs
  <2>4. PICK n \in Jobs : /\ jobs' \subseteq (jobs \ {j}) \cup {n}
                          /\ n.run = j.run /\ n.status = j.status /\ n.pc = next
    BY <1>6, <2>2, <2>3
  <2>5. Knows(n)'
    BY <1>1, <1>3, <1>10, <2>1, <2>2, <2>4, FinalStatuses DEF SaveSummarises, JobInv, Knows
  <2>6. ASSUME NEW r \in Runs PROVE RecordInv(r)'
    <3>1. RecordInv(r) BY <1>4
    <3>2. CASE r # j.run BY <1>1, <1>10, <3>1, <3>2 DEF SaveSummarises, RecordInv
    <3>3. CASE r = j.run
      BY <1>1, <1>3, <1>10, <2>1, <3>1, <3>3, FinalStatuses
      DEF SaveSummarises, RecordInv, JobInv, Knows
    <3> QED BY <3>2, <3>3
  <2> QED BY <1>7, <2>4, <2>5, <2>6 DEF StoreInv
<1>11. CASE RecoverSummarises(j)
  <2>1. j.status = "recover" /\ j.pc = "summary" /\ j.run \in Runs /\ terminal[j.run] # "none"
    BY <1>3, <1>11 DEF RecoverSummarises, JobInv, Knows
  <2>2. Advance(j, "remove") /\ "remove" \in JobPcs BY <1>11 DEF RecoverSummarises, JobPcs
  <2>3. PICK n \in Jobs : /\ jobs' \subseteq (jobs \ {j}) \cup {n}
                          /\ n.run = j.run /\ n.status = j.status /\ n.pc = "remove"
    BY <1>6, <2>2
  <2>4. Knows(n)' BY <1>1, <1>11, <2>1, <2>3, FinalStatuses DEF RecoverSummarises, Knows
  <2>5. ASSUME NEW r \in Runs PROVE RecordInv(r)'
    <3>1. RecordInv(r) BY <1>4
    <3> QED BY <1>1, <1>11, <2>1, <3>1 DEF RecoverSummarises, RecordInv
  <2> QED BY <1>7, <2>3, <2>4, <2>5 DEF StoreInv
<1>12. CASE SaveRemoves(j) \/ RecoverRemoves(j)
  <2>1. /\ j.pc = "remove" /\ j.run \in Runs
        /\ terminal[j.run] # "none" /\ summary[j.run] = terminal[j.run]
        /\ active' = [active EXCEPT ![j.run] = FALSE] /\ UNCHANGED <<terminal, summary>>
    BY <1>1, <1>3, <1>12, FinalStatuses DEF SaveRemoves, RecoverRemoves, Jobs, JobInv, Knows
  <2>2. PICK next \in {"ok", "scan"} : Advance(j, next) /\ (next = "scan" => j.status = "recover")
    BY <1>12 DEF SaveRemoves, RecoverRemoves
  <2>3. next \in JobPcs BY DEF JobPcs
  <2>4. PICK n \in Jobs : /\ jobs' \subseteq (jobs \ {j}) \cup {n}
                          /\ n.run = j.run /\ n.status = j.status /\ n.pc = next
    BY <1>6, <2>2, <2>3
  <2>5. Knows(n)' BY <1>1, <1>3, <2>1, <2>2, <2>4 DEF JobInv, Knows
  <2>6. ASSUME NEW r \in Runs PROVE RecordInv(r)'
    <3>1. RecordInv(r) BY <1>4
    <3> QED BY <1>1, <2>1, <3>1 DEF RecordInv
  <2> QED BY <1>7, <2>4, <2>5, <2>6 DEF StoreInv
<1>13. CASE \E r \in Runs : RecoverWrites(j, r)
  <2>1. PICK r \in Runs : RecoverWrites(j, r) BY <1>13
  <2>2. PICK n : n = [j EXCEPT !.pc = "summary", !.run = r] OBVIOUS
  <2>3. n.pc = "summary" /\ n.run = r /\ n.status = "recover"
    BY <1>3, <2>1, <2>2 DEF RecoverWrites, Jobs
  <2>4. /\ jobs' = (jobs \ {j}) \cup {n} /\ active[r] /\ UNCHANGED <<active, summary>>
        /\ terminal' = [terminal EXCEPT ![r] = IF @ = "none" THEN "interrupted" ELSE @]
    BY <2>1, <2>2 DEF RecoverWrites
  <2>5. terminal'[r] # "none" BY <1>1, <2>4
  <2>6. Knows(n)' BY <2>3, <2>5, FinalStatuses DEF Knows
  <2>7. ASSUME NEW s \in Runs PROVE RecordInv(s)'
    <3>1. RecordInv(s) BY <1>4
    <3> QED BY <1>1, <2>4, <3>1 DEF RecordInv
  <2> QED BY <1>7, <2>4, <2>6, <2>7 DEF StoreInv
<1> QED BY <1>2, <1>8, <1>9, <1>10, <1>11, <1>12, <1>13

LEMMA NextStore ==
  ASSUME IInv, [Next]_vars
  PROVE  StoreInv'
<1>1. RunMoves BY NextMoves
<1>2. jobs \subseteq Jobs /\ \A j \in jobs : JobInv(j) BY DEF IInv, TypeOK, StoreInv
<1>3. CASE UNCHANGED store /\ jobs' \subseteq jobs \cup {j \in jobs' : j.status = "recover" /\ j.pc = "lock"}
  <2>1. ASSUME NEW r \in Runs PROVE RecordInv(r)'
    BY <1>1, <1>3
    DEF IInv, StoreInv, RecordInv, store, RunMoves, Stays, Stops, Reserves, Admits, Leaves
  <2>2. ASSUME NEW k \in jobs' PROVE JobInv(k)'
    <3>1. CASE k \in jobs
      <4>1. k.pc \in JobPcs BY <1>2, <3>1 DEF Jobs
      <4>2. \A l \in jobs' : k.pc \in Holding /\ l.pc \in Holding => l = k
        BY <1>2, <1>3, <3>1 DEF JobInv, Alone, Holding
      <4> QED BY <1>1, <1>3, <3>1, <4>1, <4>2, JobKept
    <3>2. CASE k.status = "recover" /\ k.pc = "lock"
      BY <3>2, FinalStatuses DEF JobInv, Alone, Knows, Holding
    <3> QED BY <1>3, <3>1, <3>2
  <2> QED BY <2>1, <2>2 DEF StoreInv
<1>4. CASE ClientStep \/ BackendExits \/ PackOperation \/ CancelRun \/ UNCHANGED vars
  BY <1>3, <1>4 DEF ClientStep, BackendExits, PackOperation, CancelRun, vars, store
<1>5. CASE ProcessStep
  <2>1. ASSUME NEW p \in Procs, Claim(p) PROVE StoreInv'
    <3>1. PICK n : n = Job(p, NoOne, "recover") OBVIOUS
    <3>2. n.status = "recover" /\ n.pc = "lock" BY <3>1 DEF Job
    <3>3. jobs' \subseteq jobs \cup {n} BY <2>1, <3>1 DEF Claim
    <3> QED BY <1>3, <2>1, <3>2, <3>3 DEF Claim
  <2>2. ASSUME NEW p \in Procs, Recovered(p) \/ Crash(p) PROVE StoreInv'
    BY <1>3, <2>2 DEF Recovered, Crash
  <2>3. ASSUME NEW p \in Procs,
               Boot(p) \/ Shutdown(p) \/ ShutdownGate(p) \/ ShutdownEnds(p) \/ Exit(p)
        PROVE  StoreInv'
    BY <1>3, <2>3 DEF Boot, Shutdown, ShutdownGate, ShutdownEnds, Exit
  <2> QED BY <1>5, <2>1, <2>2, <2>3 DEF ProcessStep
<1> QED BY <1>4, <1>5, StoreKeepsStore, RunKeepsStore DEF Next

-----------------------------------------------------------------------------
(* The claim.                                                              *)

\* Jobs of the recovery stay the one job that they were.
LEMMA RecoveryKept ==
  ASSUME IInv, RunMoves, UNCHANGED <<owner, server>>, NEW j, NEW n,
         \A k \in jobs' : k.status = "recover" =>
           k \in jobs \/ (j \in jobs /\ j \notin jobs' /\ k = n),
         n.status = "recover" => j.status = "recover" /\ j.proc = n.proc
  PROVE  ServerInv'
<1>1. ServerInv BY DEF IInv
<1>2. run'.pc # "none" => Serving'
  BY <1>1, PointSets DEF RunMoves, Stays, Stops, Reserves, Admits, Leaves, ServerInv, Serving
<1>3. ASSUME NEW k \in jobs', k.status = "recover", NEW l \in jobs', l.status = "recover"
      PROVE  k.proc = owner /\ server[owner] = "recovering" /\ l = k
  BY <1>1, <1>3 DEF ServerInv
<1> QED BY <1>1, <1>2, <1>3 DEF ServerInv

LEMMA NextServer ==
  ASSUME IInv, [Next]_vars
  PROVE  ServerInv'
<1>1. RunMoves /\ jobs \subseteq Jobs /\ ServerInv /\ server \in [Procs -> {"down", "claiming",
        "recovering", "serving", "draining", "closing", "exiting"}] /\ owner \in Procs \cup {NoOne}
  BY NextMoves DEF IInv, TypeOK
<1>2. ASSUME UNCHANGED <<owner, server>>, \A k \in jobs' : k.status = "recover" => k \in jobs
      PROVE  ServerInv'
  BY <1>1, <1>2, RecoveryKept
<1>3. CASE StoreStep
  <2>1. PICK j \in jobs :
          \/ SaveLocks(j) \/ SaveWrites(j) \/ SaveSummarises(j) \/ SaveRemoves(j)
          \/ JobFails(j) \/ RecoverLocks(j) \/ RecoverSummarises(j)
          \/ RecoverRemoves(j) \/ RecoverEnds(j)
          \/ \E r \in Runs : RecoverWrites(j, r)
    BY <1>3 DEF StoreStep
  <2>2. j \in Jobs /\ UNCHANGED <<owner, server>> BY <1>1, <1>3 DEF StoreStep
  <2>3. \E n : /\ jobs' \subseteq (jobs \ {j}) \cup {n}
               /\ n.status = j.status /\ n.proc = j.proc /\ n.pc # j.pc
    <3>1. ASSUME NEW next \in JobPcs, Advance(j, next), next # j.pc
          PROVE  \E n : /\ jobs' \subseteq (jobs \ {j}) \cup {n}
                        /\ n.status = j.status /\ n.proc = j.proc /\ n.pc # j.pc
      <4>1. PICK n : n = [j EXCEPT !.pc = next] OBVIOUS
      <4>2. n.status = j.status /\ n.proc = j.proc /\ n.pc = next BY <2>2, <4>1 DEF Jobs
      <4>3. jobs' \subseteq (jobs \ {j}) \cup {n} BY <3>1, <4>1 DEF Advance
      <4> QED BY <3>1, <4>2, <4>3
    <3>2. CASE \E r \in Runs : RecoverWrites(j, r)
      <4>1. PICK r \in Runs : RecoverWrites(j, r) BY <3>2
      <4>2. PICK n : n = [j EXCEPT !.pc = "summary", !.run = r] OBVIOUS
      <4>3. n.status = j.status /\ n.proc = j.proc /\ n.pc = "summary" BY <2>2, <4>2 DEF Jobs
      <4>4. jobs' = (jobs \ {j}) \cup {n} /\ j.pc = "scan" BY <4>1, <4>2 DEF RecoverWrites
      <4> QED BY <4>3, <4>4
    <3> QED BY <2>1, <3>1, <3>2
        DEF SaveLocks, SaveWrites, SaveSummarises, SaveRemoves, JobFails, RecoverLocks,
            RecoverSummarises, RecoverRemoves, RecoverEnds, JobPcs, Holding
  <2>4. PICK n : /\ jobs' \subseteq (jobs \ {j}) \cup {n}
                 /\ n.status = j.status /\ n.proc = j.proc /\ n.pc # j.pc
    BY <2>3
  <2>5. j \notin jobs' BY <2>4
  <2> QED BY <1>1, <2>2, <2>4, <2>5, RecoveryKept
<1>4. CASE RunStep
  <2>1. UNCHANGED <<owner, server>>
    BY <1>4 DEF RunStep, StartRun, RefuseRun, AdmitRun, Interrupt, Saved, RunLoad, LoadSpawns,
       LoadRegisters, RunLoadEnds, BuildRequest, Submit, Arrives, Observe, Measured,
       MeasureFails, TaskTimesOut, OrphanMoves, Confirm, ConfirmFails, Verify, Complete,
       StopAborts, StopKills, StopEnds, StopFails, Finish, Finalized
  <2>2. ASSUME NEW k \in jobs', k.status = "recover" PROVE k \in jobs
    <3>1. CASE jobs' = Deafen
      <4>1. PICK j \in jobs : k = [j EXCEPT !.heard = IF j \in MyJob THEN FALSE ELSE @]
        BY <2>2, <3>1 DEF Deafen
      <4>2. j \in Jobs /\ k.status = j.status BY <1>1, <4>1 DEF Jobs
      <4>3. j \notin MyJob BY <2>2, <4>2 DEF MyJob
      <4>4. k = [j EXCEPT !.heard = j.heard] BY <4>1, <4>3
      <4> QED BY <4>2, <4>4 DEF Jobs
    <3>2. CASE \E status : Submits(status)
      BY <2>2, <3>2, FinalStatuses DEF Submits, Job
    <3> QED BY <1>4, <2>2, <3>1, <3>2, RunJobs
  <2> QED BY <1>2, <2>1, <2>2
<1>5. CASE ClientStep \/ BackendExits \/ PackOperation \/ CancelRun \/ UNCHANGED vars
  BY <1>2, <1>5 DEF ClientStep, BackendExits, PackOperation, CancelRun, vars
<1>6. CASE ProcessStep
  <2>1. PICK p \in Procs :
          \/ Boot(p) \/ Claim(p) \/ Recovered(p) \/ Shutdown(p) \/ ShutdownGate(p)
          \/ ShutdownEnds(p) \/ Exit(p) \/ Crash(p)
    BY <1>6 DEF ProcessStep
  <2>2. run'.pc # "none" => run.pc # "none"
    <3>1. CASE EmptyMemory BY <3>1 DEF EmptyMemory, NoRun
    <3>2. CASE UNCHANGED run BY <3>2
    <3>3. CASE Shutdown(p) BY <3>3 DEF Shutdown, IInv, TypeOK, RunRecord
    <3> QED BY <2>1, <3>1, <3>2, <3>3
        DEF Boot, Claim, Recovered, ShutdownGate, ShutdownEnds, Exit, Crash
  <2>3. CASE Boot(p) \/ Exit(p)
    <3>1. server[p] \notin {"recovering", "serving", "draining", "closing"} /\ p # owner
      BY <1>1, <2>3, Names DEF Boot, Exit, ServerInv
    <3>2. PICK s \in {"claiming", "down"} :
            server' = [server EXCEPT ![p] = s] /\ UNCHANGED <<owner, jobs, run>>
      BY <2>3 DEF Boot, Exit
    <3>3. \A q \in Procs : server'[q] = IF q = p THEN s ELSE server[q] BY <1>1, <3>2
    <3>4. owner # NoOne => server'[owner] = server[owner] BY <1>1, <3>1, <3>3
    <3>5. \A q \in Procs \ {owner} : server'[q] \in {"down", "claiming", "exiting"}
      BY <1>1, <3>2, <3>3 DEF ServerInv
    <3>6. Serving => Serving' BY <3>2, <3>4 DEF Serving
    <3>7. \A j \in jobs : j.status = "recover" => owner # NoOne
      BY <1>1, Names DEF ServerInv, Jobs
    <3> QED BY <1>1, <3>2, <3>4, <3>5, <3>6, <3>7 DEF ServerInv
  <2>4. CASE Claim(p)
    <3>1. p # owner BY <1>1, <2>4, Names DEF Claim, ServerInv
    <3>2. CASE owner = NoOne
      <4>1. \A j \in jobs : j.status # "recover"
        BY <1>1, <3>2, Names DEF ServerInv, Jobs
      <4>2. /\ owner' = p /\ server' = [server EXCEPT ![p] = "recovering"]
            /\ jobs' = jobs \cup {Job(p, NoOne, "recover")}
        BY <2>4, <3>2 DEF Claim
      <4>3. run.pc = "none" BY <1>1, <3>2 DEF ServerInv, Serving
      <4>4. PICK n : n = Job(p, NoOne, "recover") OBVIOUS
      <4>5. jobs' = jobs \cup {n} /\ n.proc = p BY <4>2, <4>4 DEF Job
      <4>6. \A q \in Procs : server'[q] = IF q = p THEN "recovering" ELSE server[q]
        BY <1>1, <4>2
      <4>7. p # NoOne BY Names
      <4>8. \A q \in Procs \ {p} : server'[q] \in {"down", "claiming", "exiting"}
        BY <1>1, <3>2, <4>6, <4>7, Names DEF ServerInv
      <4>9. \A j \in jobs' : j.status = "recover" => j = n BY <4>1, <4>5
      <4> QED BY <2>2, <4>2, <4>3, <4>5, <4>6, <4>8, <4>9 DEF ServerInv
    <3>3. CASE owner # NoOne
      BY <1>1, <2>2, <2>4, <3>1, <3>3 DEF Claim, ServerInv, Serving
    <3> QED BY <3>2, <3>3
  <2>5. CASE Recovered(p)
    <3>1. p = owner BY <1>1, <2>5 DEF Recovered, ServerInv
    <3>2. run.pc = "none" BY <1>1, <2>5, <3>1 DEF Recovered, ServerInv, Serving
    <3>3. PICK j \in jobs : /\ j.status = "recover" /\ jobs' = jobs \ {j}
                            /\ server' = [server EXCEPT ![p] = IF j.pc = "ok" THEN "serving" ELSE "down"]
                            /\ owner' = IF j.pc = "ok" THEN owner ELSE NoOne
      BY <2>5 DEF Recovered
    <3>4. \A k \in jobs' : k.status # "recover" BY <1>1, <3>3 DEF ServerInv
    <3> QED BY <1>1, <2>2, <3>1, <3>2, <3>3, <3>4 DEF ServerInv, Serving
  <2>6. CASE Shutdown(p) \/ ShutdownGate(p)
    <3>1. p = owner BY <1>1, <2>6 DEF Shutdown, ShutdownGate, ServerInv
    <3>2. \A j \in jobs : j.status # "recover"
      BY <1>1, <2>6, <3>1 DEF Shutdown, ShutdownGate, ServerInv
    <3> QED BY <1>1, <2>2, <2>6, <3>1, <3>2 DEF Shutdown, ShutdownGate, ServerInv, Serving
  <2>7. CASE ShutdownEnds(p)
    <3>1. p = owner BY <1>1, <2>7 DEF ShutdownEnds, ServerInv
    <3>2. \A j \in jobs : j.status # "recover" BY <1>1, <2>7, <3>1 DEF ShutdownEnds, ServerInv
    <3>3. run'.pc = "none" BY <2>7 DEF ShutdownEnds, EmptyMemory, NoRun
    <3> QED BY <1>1, <2>7, <3>1, <3>2, <3>3 DEF ShutdownEnds, ServerInv
  <2>8. CASE Crash(p)
    <3>1. CASE p = owner
      <4>1. run'.pc = "none" BY <2>8, <3>1 DEF Crash, EmptyMemory, NoRun
      <4>2. \A j \in jobs' : j.status # "recover" BY <1>1, <2>8, <3>1 DEF Crash, ServerInv
      <4> QED BY <1>1, <2>8, <3>1, <4>1, <4>2 DEF Crash, ServerInv
    <3>2. CASE p # owner
      BY <1>1, <2>2, <2>8, <3>2 DEF Crash, ServerInv, Serving
    <3> QED BY <3>1, <3>2
  <2> QED BY <2>1, <2>3, <2>4, <2>5, <2>6, <2>7, <2>8
<1> QED BY <1>3, <1>4, <1>5, <1>6 DEF Next


-----------------------------------------------------------------------------
(* The reservation, the backend and the requests of a run.                 *)

MemoryInv == OperationInv /\ BackendInv /\ RequestInv

\* The types that the proofs below read.
LEMMA MemoryType ==
  ASSUME TypeOK
  PROVE  /\ pc \in [Actors -> {"idle", "asking", "jit", "using", "manual", "unload"}]
         /\ stopper \in [Actors -> {"none", "cancel", "lock", "drain", "retire"}]
         /\ operation \in Actors \cup {NoOne}
         /\ load \in [by : Actors \cup {NoOne}, stage : {"none", "prepare", "spawn", "ready"}]
         /\ backend \in [life : Lives, process : {"none", "live", "unregistered"}]
         /\ orphan \in {"none", "submitted", "running"}
         /\ quarantined \in BOOLEAN
         /\ run \in RunRecord
  BY DEF TypeOK

\* What clients, the reaper and stoppers do to the operation mutex.
LEMMA ClientOperation ==
  ASSUME IInv, ClientStep \/ BackendExits
  PROVE  OperationInv'
<1>1. OperationInv BY DEF IInv
<1>2. /\ pc \in [Actors -> {"idle", "asking", "jit", "using", "manual", "unload"}]
      /\ stopper \in [Actors -> {"none", "cancel", "lock", "drain", "retire"}]
      /\ operation \in Actors \cup {NoOne}
      /\ load \in [by : Actors \cup {NoOne}, stage : {"none", "prepare", "spawn", "ready"}]
      /\ run \in RunRecord
  BY MemoryType DEF IInv
<1>3. run'.pc = run.pc
  BY <1>2 DEF ClientStep, BackendExits, RunRecord
<1>4. operation = NoOne =>
        /\ load.by = NoOne
        /\ \A a \in Actors : stopper[a] # "drain"
        /\ \A c \in Clients : pc[c] \notin {"jit", "manual"}
        /\ run.pc # "checking"
  BY <1>1, <1>2, Names DEF OperationInv
<1>5. Admission => run.pc \notin {"checking"} \cup Executing \cup Cleaning
  BY PointSets DEF Admission
<1>6. ASSUME NEW c \in Clients, Ask(c) \/ Target(c) \/ Refused(c) \/ FinishUse(c)
      PROVE  OperationInv'
  BY <1>1, <1>2, <1>3, <1>5, <1>6, Names
  DEF Ask, Target, Refused, FinishUse, OperationInv, ReservationExclusive
<1>7. ASSUME NEW c \in Clients, Unload(c) \/ UnloadDropped(c)
      PROVE  OperationInv'
  BY <1>1, <1>2, <1>3, <1>5, <1>7, Names
  DEF Unload, UnloadDropped, OperationInv, ReservationExclusive
<1>8. ASSUME NEW c \in Clients, JitLoad(c)
      PROVE  OperationInv'
  BY <1>1, <1>2, <1>3, <1>4, <1>8, Names
  DEF JitLoad, StartLoad, OperationInv, ReservationExclusive
<1>9. ASSUME NEW c \in Clients, ManualLoad(c)
      PROVE  OperationInv'
  BY <1>1, <1>2, <1>3, <1>4, <1>5, <1>9, Names
  DEF ManualLoad, StartLoad, OperationInv, ReservationExclusive
<1>10. ASSUME NEW c \in Clients, ClientLoadEnds(c)
       PROVE  OperationInv'
  BY <1>1, <1>2, <1>3, <1>10, Names
  DEF ClientLoadEnds, NoLoad, OperationInv, ReservationExclusive
<1>11. ASSUME NEW c \in Clients, JitDropped(c)
       PROVE  OperationInv'
  BY <1>1, <1>2, <1>3, <1>11, Names
  DEF JitDropped, NoLoad, OperationInv, ReservationExclusive
<1>12. ASSUME NEW c \in Clients, Retire(c)
       PROVE  OperationInv'
  BY <1>1, <1>2, <1>3, <1>4, <1>12, Names DEF Retire, OperationInv, ReservationExclusive
<1>13. CASE Reap
  BY <1>1, <1>2, <1>3, <1>4, <1>5, <1>13, Names DEF Reap, OperationInv, ReservationExclusive
<1>14. ASSUME NEW a \in Actors, StopperCancels(a)
       PROVE  OperationInv'
  BY <1>1, <1>2, <1>3, <1>14, Names DEF StopperCancels, OperationInv, ReservationExclusive
<1>15. ASSUME NEW a \in Actors, StopperLocks(a)
       PROVE  OperationInv'
  BY <1>1, <1>2, <1>3, <1>4, <1>15, Names DEF StopperLocks, OperationInv, ReservationExclusive
<1>16. ASSUME NEW a \in Actors, StopperStops(a)
       PROVE  OperationInv'
  BY <1>1, <1>2, <1>3, <1>16, Names DEF StopperStops, OperationInv, ReservationExclusive
<1>17. CASE BackendExits
  BY <1>1, <1>3, <1>17 DEF BackendExits, OperationInv, ReservationExclusive
<1> QED BY <1>6, <1>7, <1>8, <1>9, <1>10, <1>11, <1>12, <1>13, <1>14, <1>15, <1>16, <1>17
    DEF ClientStep

\* What they do to the backend: the run's own load and its pinned runtime are
\* out of their reach.
LEMMA ClientBackend ==
  ASSUME IInv, ClientStep \/ BackendExits
  PROVE  BackendInv'
<1>1. OperationInv /\ BackendInv BY DEF IInv
<1>2. /\ pc \in [Actors -> {"idle", "asking", "jit", "using", "manual", "unload"}]
      /\ stopper \in [Actors -> {"none", "cancel", "lock", "drain", "retire"}]
      /\ operation \in Actors \cup {NoOne}
      /\ load \in [by : Actors \cup {NoOne}, stage : {"none", "prepare", "spawn", "ready"}]
      /\ backend \in [life : Lives, process : {"none", "live", "unregistered"}]
      /\ run \in RunRecord
  BY MemoryType DEF IInv
<1>3. /\ run'.pc = run.pc /\ run'.then = run.then /\ quarantined' = quarantined
      /\ run'.pinned = IF run.pinned = "same" /\ backend' = NoBackend THEN "other" ELSE run.pinned
  BY <1>2 DEF ClientStep, BackendExits, RunRecord
<1>4. load.by = "run" => operation = "run" /\ operation # NoOne /\ backend.life \in {"loading", "stopping"}
  BY <1>1, Names DEF OperationInv, BackendInv
<1> DEFINE Fits ==
  /\ backend'.life = "none" => backend'.process = "none"
  /\ load.by = "run" => load' = load /\ backend'.life \in {"loading", "stopping"}
  /\ load'.by = "run" => load' = load
  /\ backend'.process = "unregistered" => backend.process = "unregistered" /\ load' = load
  /\ run.pc \in Executing /\ backend.life = "none" => backend'.life = "none"
<1>5. ASSUME Fits PROVE BackendInv'
  <2>1. NoBackend.life = "none" BY DEF NoBackend
  <2>2. run'.pc \in Executing /\ run'.pinned = "other" => backend'.life = "none"
    BY <1>1, <1>3, <1>5, <2>1 DEF BackendInv
  <2>3. run.pinned = "none" <=> run'.pinned = "none" BY <1>3
  <2> QED BY <1>1, <1>3, <1>5, <2>2, <2>3 DEF BackendInv
<1>6. run.pc \in Executing =>
        /\ \A c \in Clients : pc[c] = "idle" /\ load.by # c
        /\ ~Admission
  BY <1>1, PointSets DEF OperationInv, ReservationExclusive, Admission
<1>7. ASSUME UNCHANGED <<load, backend>> PROVE Fits
  BY <1>1, <1>4, <1>7 DEF BackendInv
<1>8. ASSUME NEW c \in Clients,
             \/ Ask(c) \/ Target(c) \/ Refused(c) \/ FinishUse(c) \/ Unload(c) \/ UnloadDropped(c)
      PROVE  Fits
  BY <1>7, <1>8 DEF Ask, Target, Refused, FinishUse, Unload, UnloadDropped
<1>9. ASSUME NEW c \in Clients, JitLoad(c) \/ ManualLoad(c)
      PROVE  Fits
  BY <1>4, <1>6, <1>9, Names DEF JitLoad, ManualLoad, StartLoad
<1>10. ASSUME NEW c \in Clients, ClientLoadEnds(c)
       PROVE  Fits
  BY <1>6, <1>10, Names DEF ClientLoadEnds, NoLoad, NoBackend
<1>11. ASSUME NEW c \in Clients, JitDropped(c)
       PROVE  Fits
  <2>1. load.by = c /\ load' = NoLoad /\ pc[c] = "jit"
    BY <1>1, <1>11 DEF JitDropped, OperationInv
  <2>2. backend' = [backend EXCEPT !.life = IF backend.life = "loading" THEN "retiring" ELSE backend.life]
    BY <1>11 DEF JitDropped
  <2>3. backend'.life = "none" => backend.life = "none" BY <1>2, <2>2
  <2>4. backend'.process = backend.process BY <1>2, <2>2
  <2>5. backend.process # "unregistered" BY <1>1, <2>1, Names DEF BackendInv
  <2> QED BY <1>1, <1>6, <2>1, <2>3, <2>4, <2>5, Names DEF BackendInv, NoLoad
<1>12. ASSUME NEW c \in Clients, Retire(c)
       PROVE  Fits
  BY <1>1, <1>4, <1>12 DEF Retire, NoBackend, BackendInv
<1>13. ASSUME Reap PROVE Fits
  BY <1>1, <1>2, <1>4, <1>6, <1>13 DEF Reap, BackendInv
<1>14. ASSUME NEW a \in Actors, StopperCancels(a)
       PROVE  Fits
  BY <1>1, <1>2, <1>4, <1>14 DEF StopperCancels, BackendInv, Loading
<1>15. ASSUME NEW a \in Actors, StopperLocks(a)
       PROVE  Fits
  BY <1>1, <1>2, <1>4, <1>15 DEF StopperLocks, BackendInv
<1>16. ASSUME NEW a \in Actors, StopperStops(a)
       PROVE  Fits
  BY <1>1, <1>2, <1>16, Names DEF StopperStops, NoBackend, OperationInv
<1>17. ASSUME BackendExits PROVE Fits
  BY <1>4, <1>17 DEF BackendExits, NoBackend
<1> HIDE DEF Fits
<1> QED BY <1>5, <1>8, <1>9, <1>10, <1>11, <1>12, <1>13, <1>14, <1>15, <1>16, <1>17
    DEF ClientStep

\* A backend that is gone has no request left.
LEMMA ClientRequest ==
  ASSUME IInv, ClientStep \/ BackendExits
  PROVE  RequestInv'
<1>1. RequestInv /\ run \in RunRecord BY DEF IInv, TypeOK
<1>2. /\ run'.pc = run.pc /\ run'.then = run.then /\ run'.request = run.request
      /\ run'.observed = run.observed /\ quarantined' = quarantined
      /\ orphan' = orphan \/ orphan' = "none"
  BY <1>1 DEF ClientStep, BackendExits, RunRecord
<1> QED BY <1>1, <1>2 DEF RequestInv

\* The mutex while a run goes on: only these steps touch it.
LEMMA RunOperation ==
  ASSUME IInv, RunStep
  PROVE  OperationInv'
<1>1. OperationInv /\ BackendInv BY DEF IInv
<1>2. /\ pc \in [Actors -> {"idle", "asking", "jit", "using", "manual", "unload"}]
      /\ stopper \in [Actors -> {"none", "cancel", "lock", "drain", "retire"}]
      /\ operation \in Actors \cup {NoOne}
      /\ load \in [by : Actors \cup {NoOne}, stage : {"none", "prepare", "spawn", "ready"}]
      /\ run \in RunRecord
  BY MemoryType DEF IInv
<1>3. RunMoves BY RunStepMoves
<1>4. operation = NoOne =>
        /\ load.by = NoOne
        /\ \A a \in Actors : stopper[a] # "drain"
  BY <1>1, <1>2, Names DEF OperationInv
<1>5. ASSUME UNCHANGED <<pc, stopper, operation, load>>, run.pc \in Executing \cup Cleaning,
             ~ \E r \in Runs : StartRun(r), ~AdmitRun
      PROVE  OperationInv'
  <2>1. run'.pc \in Executing \cup Cleaning \cup {"none"}
    BY <1>3, <1>5, PointSets DEF RunMoves, Stays, Stops, Reserves, Admits, Leaves
  <2> QED BY <1>1, <1>5, <2>1, PointSets DEF OperationInv, ReservationExclusive
<1>6. CASE \E r \in Runs : StartRun(r)
  <2>1. PICK r \in Runs : StartRun(r) BY <1>6
  <2>2. run'.pc = "checking" BY <2>1 DEF StartRun, NoRun
  <2>3. \A a \in Clients \cup {Reaper} : pc[a] \notin {"asking", "jit", "unload"}
    BY <2>1 DEF StartRun, Readers
  <2>4. \A c \in Clients : pc[c] # "manual"
    BY <1>1, <1>4, <2>1, Names DEF StartRun, OperationInv
  <2>5. \A a \in Clients \cup {Reaper} : pc[a] \in {"idle", "using"}
    BY <1>1, <1>2, <2>3, <2>4, Names DEF OperationInv
  <2>6. operation = NoOne /\ operation' = "run" /\ UNCHANGED <<pc, stopper, load>>
    BY <2>1 DEF StartRun
  <2> QED BY <1>1, <1>4, <2>2, <2>5, <2>6, Names, PointSets DEF OperationInv, ReservationExclusive
<1>7. CASE RefuseRun
  <2>1. run'.pc = "none" BY <1>7 DEF RefuseRun, NoRun
  <2> QED BY <1>1, <1>7, <2>1, Names, PointSets DEF RefuseRun, OperationInv, ReservationExclusive
<1>8. CASE AdmitRun
  <2>1. run'.pc = "saving" BY <1>2, <1>8 DEF AdmitRun, RunRecord
  <2>2. \A c \in Clients : pc[c] # "using" BY <1>8 DEF AdmitRun, Conflict, Users
  <2>3. \A a \in Clients \cup {Reaper} : pc[a] = "idle"
    BY <1>1, <1>8, <2>2 DEF AdmitRun, OperationInv
  <2>4. run.pc = "checking" /\ operation' = NoOne /\ UNCHANGED <<pc, stopper, load>>
    BY <1>8 DEF AdmitRun
  <2>5. stopper[Reaper] = "none" /\ load.by = NoOne
    BY <1>1, <2>4, Names DEF OperationInv
  <2> QED BY <1>1, <2>1, <2>3, <2>4, <2>5, Names DEF OperationInv, ReservationExclusive
<1>9. CASE RunLoad
  <2>1. run.pc = "load" /\ UNCHANGED <<pc, stopper>> BY <1>9 DEF RunLoad
  <2>2. run.pc \in Executing BY <2>1 DEF Executing
  <2>3. run'.pc # "checking"
    BY <1>3, <2>2, PointSets DEF RunMoves, Stays, Stops, Reserves, Admits, Leaves
  <2>4. CASE StartLoad("run") /\ operation = NoOne
    <3>1. operation' = "run" /\ load'.by = "run" BY <2>4 DEF StartLoad
    <3> QED BY <1>1, <1>4, <2>1, <2>2, <2>3, <2>4, <3>1, Names
        DEF OperationInv, ReservationExclusive
  <2>5. CASE UNCHANGED <<operation, load>>
    BY <1>1, <2>1, <2>2, <2>3, <2>5 DEF OperationInv, ReservationExclusive
  <2> QED BY <1>9, <2>4, <2>5 DEF RunLoad
<1>10. CASE LoadSpawns \/ LoadRegisters
  <2>1. load'.by = load.by /\ UNCHANGED <<pc, stopper, operation, run>>
    BY <1>2, <1>10 DEF LoadSpawns, LoadRegisters
  <2> QED BY <1>1, <2>1 DEF OperationInv, ReservationExclusive
<1>11. CASE RunLoadEnds
  <2>1. load.by = "run" /\ load'.by = NoOne /\ UNCHANGED <<pc, stopper>>
    BY <1>11 DEF RunLoadEnds, NoLoad
  <2>2. run'.pc = run.pc \/ (run.pc = "loading" /\ run'.pc \in Executing \cup Cleaning)
    <3>1. "loading" \in Executing BY DEF Executing
    <3>2. run.pc = "loading" => run'.pc \in Executing \cup Cleaning
      <4>1. ASSUME Abandon("load") PROVE run'.pc \in Executing \cup Cleaning
        BY <1>2, <4>1 DEF Abandon, RunRecord, Cleaning
      <4>2. ASSUME run' = [run EXCEPT !.pc = "saving", !.then = "build", !.pinned = "same"]
            PROVE  run'.pc \in Executing \cup Cleaning
        BY <1>2, <4>2 DEF RunRecord, Executing
      <4> QED BY <1>11, <4>1, <4>2 DEF RunLoadEnds
    <3>3. run.pc # "loading" => run' = run BY <1>11 DEF RunLoadEnds
    <3> QED BY <3>2, <3>3
  <2>3. "loading" \in Executing BY DEF Executing
  <2> QED BY <1>1, <2>1, <2>2, <2>3, Names, PointSets DEF OperationInv, ReservationExclusive
<1>12. CASE StopAborts
  <2>1. run.pc \in Cleaning /\ run'.pc \in Cleaning /\ UNCHANGED <<pc, stopper>>
    BY <1>2, <1>12 DEF StopAborts, RunRecord, Cleaning
  <2>2. CASE load.by = "run"
    <3>1. load'.by = NoOne BY <1>12, <2>2 DEF StopAborts, NoLoad
    <3> QED BY <1>1, <2>1, <2>2, <3>1, Names, PointSets DEF OperationInv, ReservationExclusive
  <2>3. CASE UNCHANGED <<load, operation>>
    BY <1>1, <2>1, <2>3, PointSets DEF OperationInv, ReservationExclusive
  <2> QED BY <1>12, <2>2, <2>3 DEF StopAborts
<1>13. CASE StopKills
  <2>1. /\ run.pc \in Cleaning /\ run'.pc \in Cleaning /\ UNCHANGED <<pc, operation, load>>
        /\ stopper' = [stopper EXCEPT !["run"] = "cancel"]
    BY <1>2, <1>13 DEF StopKills, RunRecord, Cleaning
  <2> QED BY <1>1, <1>2, <2>1, Names, PointSets DEF OperationInv, ReservationExclusive
<1>14. CASE Arrives \/ Observe \/ OrphanMoves
  <2>1. run'.pc = run.pc /\ UNCHANGED <<pc, stopper, operation, load>>
    BY <1>2, <1>14 DEF Arrives, Observe, OrphanMoves, RunRecord, manager
  <2> QED BY <1>1, <2>1 DEF OperationInv, ReservationExclusive
<1>15. ASSUME \/ Interrupt \/ Saved \/ BuildRequest \/ Submit \/ Measured \/ MeasureFails
              \/ TaskTimesOut \/ Confirm \/ ConfirmFails \/ Verify \/ Complete
              \/ StopEnds \/ StopFails \/ Finish \/ Finalized
       PROVE  UNCHANGED <<pc, stopper, operation, load>> /\ run.pc \in Executing \cup Cleaning
  BY <1>15 DEF Interrupt, Saved, BuildRequest, Submit, Measured, MeasureFails, TaskTimesOut,
     Confirm, ConfirmFails, Verify, Complete, StopEnds, StopFails, Finish, Finalized, manager,
     Executing, Cleaning
<1> QED BY <1>5, <1>6, <1>7, <1>8, <1>9, <1>10, <1>11, <1>12, <1>13, <1>14, <1>15 DEF RunStep

\* Giving up leaves the backend to the clean-up and the request to the backend.
LEMMA AbandonKeeps ==
  ASSUME IInv, NEW reason, Abandon(reason), run.pc \in Executing, UNCHANGED quarantined,
         backend'.life = "none" => backend'.process = "none",
         load'.by = "run" => /\ load' = load /\ load.by = "run" /\ backend' = backend,
         backend'.process = "unregistered" => load' = load /\ backend' = backend
  PROVE  BackendInv' /\ RequestInv'
<1>1. /\ TypeOK /\ BackendInv /\ RequestInv
      /\ run.request \in {"none", "submitted", "running"}
      /\ run.pinned \in {"none", "same", "other"}
  BY DEF IInv, TypeOK, RunRecord
<1>2. /\ run'.pc = "stop" /\ run'.request = "none" /\ run'.observed = run.observed
      /\ orphan' = IF run.request = "none" THEN orphan ELSE run.request
  BY <1>1, AbandonFacts
<1>3. "stop" \in Cleaning /\ "stop" \notin Executing BY DEF Cleaning, Executing
<1>4. BackendInv' BY <1>1, <1>2, <1>3 DEF BackendInv
<1>5. RequestInv' BY <1>1, <1>2, <1>3 DEF RequestInv
<1> QED BY <1>4, <1>5

\* A run step of a run whose load is over: the backend stays, and the pinned
\* runtime is there once the load is.
LEMMA RunBackend ==
  ASSUME IInv, RunStep
  PROVE  BackendInv' /\ RequestInv'
<1>1. OperationInv /\ BackendInv /\ RequestInv /\ IdInv /\ TypeOK BY DEF IInv
<1>2. /\ load \in [by : Actors \cup {NoOne}, stage : {"none", "prepare", "spawn", "ready"}]
      /\ backend \in [life : Lives, process : {"none", "live", "unregistered"}]
      /\ orphan \in {"none", "submitted", "running"}
      /\ quarantined \in BOOLEAN
      /\ run \in RunRecord
      /\ run.request \in {"none", "submitted", "running"}
      /\ run.pinned \in {"none", "same", "other"}
  BY <1>1, MemoryType DEF RunRecord
<1>3. ASSUME run.pc \in Executing
      PROVE  ~quarantined /\ run.pc # "none"
  BY <1>1, <1>3, PointSets DEF BackendInv
<1>4. ASSUME run.pc \in Executing \ {"loading"}
      PROVE  load.by # "run" /\ backend.process # "unregistered"
  BY <1>1, <1>3, <1>4 DEF BackendInv, Executing
<1>5. ASSUME NEW reason, Abandon(reason), run.pc \in Executing, UNCHANGED <<load, backend, quarantined>>
      PROVE  BackendInv' /\ RequestInv'
  BY <1>1, <1>5, AbandonKeeps DEF BackendInv
<1>6. CASE \E r \in Runs : StartRun(r)
  <2>1. PICK r \in Runs : run' = [NoRun EXCEPT !.id = r, !.pc = "checking"]
    BY <1>6 DEF StartRun
  <2>2. run'.pc = "checking" /\ run'.pinned = "none" /\ run'.request = "none" /\ ~run'.observed
    BY <2>1 DEF NoRun
  <2>3. /\ run.pc = "none" /\ ~quarantined /\ operation = NoOne
        /\ UNCHANGED <<load, backend, orphan, quarantined>>
    BY <1>6 DEF StartRun, Admission
  <2>4. load.by # "run" BY <1>1, <2>3, Names DEF OperationInv
  <2> QED BY <1>1, <2>2, <2>3, <2>4 DEF BackendInv, RequestInv, Executing, Cleaning
<1>7. CASE RefuseRun
  <2>1. run'.pc = "none" /\ run'.pinned = "none" /\ run'.request = "none" /\ ~run'.observed
    BY <1>7 DEF RefuseRun, NoRun
  <2>2. run.pc = "checking" /\ UNCHANGED <<load, backend, orphan, quarantined>>
    BY <1>7 DEF RefuseRun
  <2>3. load.by # "run" BY <1>1, <2>2, Names DEF OperationInv
  <2> QED BY <1>1, <2>1, <2>2, <2>3 DEF BackendInv, RequestInv, Executing, Cleaning
<1>8. CASE AdmitRun
  <2>1. /\ run'.pc = "saving" /\ run'.then = "load" /\ run'.pinned = run.pinned
        /\ run'.request = run.request /\ run'.observed = run.observed
    BY <1>2, <1>8 DEF AdmitRun, RunRecord
  <2>2. run.pc = "checking" /\ UNCHANGED <<load, backend, orphan, quarantined>>
    BY <1>8 DEF AdmitRun
  <2>3. load.by # "run" BY <1>1, <2>2, Names DEF OperationInv
  <2>4. ~quarantined BY <1>1, <2>2, PointSets DEF BackendInv
  <2> QED BY <1>1, <2>1, <2>2, <2>3, <2>4 DEF BackendInv, RequestInv, Executing, Cleaning
<1>9. CASE Interrupt BY <1>5, <1>9 DEF Interrupt, manager
<1>10. CASE Saved
  <2>1. run.pc = "saving" /\ UNCHANGED <<load, backend, quarantined>> BY <1>10 DEF Saved, manager
  <2>2. "saving" \in Executing BY DEF Executing
  <2>3. CASE Abandon("store") BY <1>5, <2>1, <2>2, <2>3
  <2>4. CASE run' = [run EXCEPT !.pc = run.then, !.then = "none"] /\ UNCHANGED orphan
    <3>1. run.then \in {"load", "build", "measure", "verify", "end"}
      BY <1>1, <1>2, <2>1 DEF RunRecord, IdInv
    <3>2. /\ run'.pc = run.then /\ run'.pinned = run.pinned
          /\ run'.request = run.request /\ run'.observed = run.observed
      BY <1>2, <2>4 DEF RunRecord
    <3>3. ~quarantined /\ load.by # "run" BY <1>3, <1>4, <2>1, <2>2
    <3>4. BackendInv' BY <1>1, <2>1, <2>2, <3>1, <3>2, <3>3 DEF BackendInv, Executing
    <3>5. RequestInv' BY <1>1, <2>1, <2>2, <2>4, <3>1, <3>2, <3>3 DEF RequestInv, Executing
    <3> QED BY <3>4, <3>5
  <2> QED BY <1>10, <2>3, <2>4 DEF Saved
<1>11. CASE RunLoad
  <2>1. run.pc = "load" /\ UNCHANGED quarantined BY <1>11 DEF RunLoad
  <2>2. "load" \in Executing \ {"loading"} BY DEF Executing
  <2>3. CASE Abandon("busy") /\ UNCHANGED <<load, backend>> BY <1>5, <2>1, <2>2, <2>3
  <2>4. CASE StartLoad("run") /\ run' = [run EXCEPT !.pc = "loading"] /\ UNCHANGED orphan
    <3>1. backend'.life = "loading" /\ backend'.process = "none" /\ load'.by = "run"
      BY <2>4 DEF StartLoad
    <3>2. /\ run'.pc = "loading" /\ run'.pinned = run.pinned
          /\ run'.request = run.request /\ run'.observed = run.observed
      BY <1>2, <2>4 DEF RunRecord
    <3>3. BackendInv' BY <1>1, <1>3, <2>1, <2>2, <3>1, <3>2 DEF BackendInv
    <3>4. RequestInv' BY <1>1, <2>1, <2>2, <2>4, <3>2 DEF RequestInv, Executing
    <3> QED BY <3>3, <3>4
  <2>5. CASE /\ run' = [run EXCEPT !.pc = "saving", !.then = "build", !.pinned = "same"]
             /\ UNCHANGED <<load, backend, orphan>>
    <3>1. /\ run'.pc = "saving" /\ run'.then = "build" /\ run'.pinned = "same"
          /\ run'.request = run.request /\ run'.observed = run.observed
      BY <1>2, <2>5 DEF RunRecord
    <3>2. BackendInv' BY <1>1, <1>3, <1>4, <2>1, <2>2, <2>5, <3>1 DEF BackendInv
    <3>3. RequestInv' BY <1>1, <2>1, <2>2, <2>5, <3>1 DEF RequestInv, Executing
    <3> QED BY <3>2, <3>3
  <2> QED BY <1>11, <2>3, <2>4, <2>5 DEF RunLoad
<1>12. CASE LoadSpawns \/ LoadRegisters
  <2>1. /\ load.by = "run" /\ load'.by = "run" /\ backend'.life = backend.life
        /\ backend'.process = "unregistered" => load' = [by |-> "run", stage |-> "spawn"]
        /\ UNCHANGED <<run, orphan, quarantined>>
    BY <1>2, <1>12 DEF LoadSpawns, LoadRegisters
  <2>2. BackendInv' BY <1>1, <2>1 DEF BackendInv
  <2>3. RequestInv' BY <1>1, <2>1 DEF RequestInv
  <2> QED BY <2>2, <2>3
<1>13. CASE RunLoadEnds
  <2>1. load.by = "run" /\ load'.by # "run" /\ UNCHANGED quarantined
    BY <1>13, Names DEF RunLoadEnds, NoLoad
  <2>2. "loading" \in Executing /\ "saving" \in Executing BY DEF Executing
  <2>3. /\ backend'.life = "none" => backend'.process = "none"
        /\ backend'.process # "unregistered"
    BY <1>13 DEF RunLoadEnds, NoBackend
  <2>4. CASE UNCHANGED <<run, orphan>> /\ run.pc # "loading"
    <3>1. run.pc \notin Executing BY <1>4, <2>1, <2>4
    <3>2. BackendInv' BY <1>1, <2>1, <2>3, <2>4, <3>1, PointSets DEF BackendInv
    <3>3. RequestInv' BY <1>1, <2>1, <2>4 DEF RequestInv
    <3> QED BY <3>2, <3>3
  <2>5. CASE Abandon("load") /\ run.pc = "loading"
    BY <2>1, <2>2, <2>3, <2>5, AbandonKeeps
  <2>6. CASE /\ run' = [run EXCEPT !.pc = "saving", !.then = "build", !.pinned = "same"]
             /\ run.pc = "loading" /\ UNCHANGED orphan
    <3>1. /\ run'.pc = "saving" /\ run'.then = "build" /\ run'.pinned = "same"
          /\ run'.request = run.request /\ run'.observed = run.observed
      BY <1>2, <2>6 DEF RunRecord
    <3>2. ~quarantined BY <1>3, <2>2, <2>6
    <3>3. BackendInv' BY <2>1, <2>3, <3>1, <3>2 DEF BackendInv
    <3>4. RequestInv' BY <1>1, <2>2, <2>6, <3>1 DEF RequestInv, Executing
    <3> QED BY <3>3, <3>4
  <2> QED BY <1>13, <2>4, <2>5, <2>6 DEF RunLoadEnds
<1>14. ASSUME run.pc \in Executing \ {"loading"}, UNCHANGED <<load, backend, quarantined>>,
              run.pinned # "none", run'.pinned = run.pinned, run'.pc \notin {"load", "loading", "checking"},
              run'.pc = "saving" => run'.then # "load"
       PROVE  BackendInv'
  BY <1>1, <1>3, <1>4, <1>14 DEF BackendInv
<1>15. CASE BuildRequest
  <2>1. run.pc = "build" /\ UNCHANGED <<load, backend, quarantined>> /\ run.pinned # "none"
    BY <1>1, <1>15 DEF BuildRequest, manager, BackendInv
  <2>2. "build" \in Executing BY DEF Executing
  <2>3. CASE Abandon("missing") BY <1>5, <2>1, <2>2, <2>3
  <2>4. CASE /\ run' = [run EXCEPT !.pc = "saving", !.then = "measure", !.observed = FALSE]
             /\ UNCHANGED orphan
    <3>1. /\ run'.pc = "saving" /\ run'.then = "measure" /\ run'.pinned = run.pinned
          /\ run'.request = run.request /\ ~run'.observed
      BY <1>2, <2>4 DEF RunRecord
    <3>2. BackendInv' BY <1>14, <2>1, <2>2, <3>1
    <3>3. RequestInv' BY <1>1, <2>1, <2>2, <2>4, <3>1 DEF RequestInv, Executing
    <3> QED BY <3>2, <3>3
  <2> QED BY <1>15, <2>3, <2>4 DEF BuildRequest
<1>16. CASE Submit \/ Arrives \/ Observe \/ MeasureFails
  <2>1. /\ run.pc = "measure" /\ UNCHANGED <<load, backend, quarantined>> /\ run.pinned # "none"
        /\ orphan = "none"
    BY <1>1, <1>16 DEF Submit, Arrives, Observe, MeasureFails, manager, BackendInv, RequestInv, Executing
  <2>2. "measure" \in Executing BY DEF Executing
  <2>3. CASE \E reason : Abandon(reason) BY <1>5, <2>1, <2>2, <2>3
  <2>4. CASE run' = [run EXCEPT !.request = "submitted"] /\ UNCHANGED orphan /\ run.request = "none"
    <3>1. /\ run'.pc = "measure" /\ run'.pinned = run.pinned
          /\ run'.request = "submitted" /\ run'.observed = run.observed
      BY <1>2, <2>1, <2>4 DEF RunRecord
    <3>2. BackendInv' BY <1>14, <2>1, <2>2, <3>1
    <3>3. RequestInv' BY <1>1, <2>1, <2>4, <3>1 DEF RequestInv
    <3> QED BY <3>2, <3>3
  <2>5. CASE run' = [run EXCEPT !.request = "running"] /\ UNCHANGED orphan
    <3>1. /\ run'.pc = "measure" /\ run'.pinned = run.pinned
          /\ run'.request = "running" /\ run'.observed = run.observed
      BY <1>2, <2>1, <2>5 DEF RunRecord
    <3>2. BackendInv' BY <1>14, <2>1, <2>2, <3>1
    <3>3. RequestInv' BY <1>1, <2>1, <2>5, <3>1 DEF RequestInv
    <3> QED BY <3>2, <3>3
  <2>6. CASE run' = [run EXCEPT !.observed = TRUE] /\ UNCHANGED orphan /\ run.request = "running"
    <3>1. /\ run'.pc = "measure" /\ run'.pinned = run.pinned
          /\ run'.request = "running" /\ run'.observed
      BY <1>2, <2>1, <2>6 DEF RunRecord
    <3>2. BackendInv' BY <1>14, <2>1, <2>2, <3>1
    <3>3. RequestInv' BY <1>1, <2>1, <2>6, <3>1 DEF RequestInv
    <3> QED BY <3>2, <3>3
  <2> QED BY <1>16, <2>3, <2>4, <2>5, <2>6 DEF Submit, Arrives, Observe, MeasureFails
<1>17. CASE Measured \/ Confirm
  <2>1. /\ run.pc \in {"measure", "confirm"} /\ UNCHANGED <<load, backend, quarantined, orphan>>
        /\ run.pinned # "none"
    BY <1>1, <1>17 DEF Measured, Confirm, manager, BackendInv
  <2>2. orphan = "none"
    BY <1>1, <1>2, <1>17 DEF Measured, Confirm, StopProven, RequestInv, Executing
  <2>3. /\ run'.pc = "saving" /\ run'.then = "verify" /\ run'.pinned = run.pinned
        /\ run'.request = "none" /\ run'.observed = run.observed
    <3>1. CASE Measured BY <1>2, <3>1 DEF Measured, RunRecord
    <3>2. CASE Confirm BY <1>1, <1>2, <3>2 DEF Confirm, RunRecord, RequestInv
    <3> QED BY <1>17, <3>1, <3>2
  <2>4. run.pc \in Executing \ {"loading"} BY <2>1 DEF Executing
  <2>5. BackendInv' BY <1>14, <2>1, <2>3, <2>4
  <2>6. RequestInv' BY <1>1, <2>1, <2>2, <2>3 DEF RequestInv
  <2> QED BY <2>5, <2>6
<1>18. CASE TaskTimesOut
  <2>1. /\ run.pc = "measure" /\ UNCHANGED <<load, backend, quarantined>> /\ run.pinned # "none"
        /\ orphan' = IF run.request = "none" THEN orphan ELSE run.request
    BY <1>1, <1>18 DEF TaskTimesOut, manager, BackendInv
  <2>2. /\ run'.pc = "confirm" /\ run'.pinned = run.pinned
        /\ run'.request = "none" /\ run'.observed = run.observed
    BY <1>2, <1>18 DEF TaskTimesOut, RunRecord
  <2>3. "measure" \in Executing BY DEF Executing
  <2>4. BackendInv' BY <1>14, <2>1, <2>2, <2>3
  <2>5. RequestInv' BY <1>1, <2>1, <2>2, <2>3 DEF RequestInv
  <2> QED BY <2>4, <2>5
<1>19. CASE OrphanMoves
  <2>1. /\ UNCHANGED <<run, load, backend, quarantined>> /\ orphan # "none"
        /\ orphan' \in {"running", "none"}
    BY <1>19 DEF OrphanMoves, manager
  <2>2. BackendInv' BY <1>1, <2>1 DEF BackendInv
  <2>3. RequestInv' BY <1>1, <2>1 DEF RequestInv
  <2> QED BY <2>2, <2>3
<1>20. CASE ConfirmFails BY <1>5, <1>20 DEF ConfirmFails, manager, Executing
<1>21. CASE Verify
  <2>1. run.pc = "verify" /\ UNCHANGED <<load, backend, quarantined>> /\ run.pinned # "none"
    BY <1>1, <1>21 DEF Verify, manager, BackendInv
  <2>2. "verify" \in Executing BY DEF Executing
  <2>3. CASE Abandon("changed") BY <1>5, <2>1, <2>2, <2>3
  <2>4. CASE run' = [run EXCEPT !.pc = "build", !.task = @ + 1] /\ UNCHANGED orphan
    <3>1. /\ run'.pc = "build" /\ run'.pinned = run.pinned
          /\ run'.request = run.request /\ run'.observed = run.observed
      BY <1>2, <2>4 DEF RunRecord
    <3>2. BackendInv' BY <1>14, <2>1, <2>2, <3>1
    <3>3. RequestInv' BY <1>1, <2>1, <2>2, <2>4, <3>1 DEF RequestInv, Executing
    <3> QED BY <3>2, <3>3
  <2>5. CASE run' = [run EXCEPT !.pc = "saving", !.then = "end"] /\ UNCHANGED orphan
    <3>1. /\ run'.pc = "saving" /\ run'.then = "end" /\ run'.pinned = run.pinned
          /\ run'.request = run.request /\ run'.observed = run.observed
      BY <1>2, <2>5 DEF RunRecord
    <3>2. BackendInv' BY <1>14, <2>1, <2>2, <3>1
    <3>3. RequestInv' BY <1>1, <2>1, <2>2, <2>5, <3>1 DEF RequestInv, Executing
    <3> QED BY <3>2, <3>3
  <2> QED BY <1>21, <2>3, <2>4, <2>5 DEF Verify
<1>22. CASE Complete
  <2>1. run.pc = "end" /\ UNCHANGED <<load, backend, quarantined, orphan>>
    BY <1>22 DEF Complete, manager
  <2>2. /\ run'.pc = "finish" /\ run'.request = run.request /\ run'.observed = run.observed
    BY <1>2, <1>22 DEF Complete, RunRecord
  <2>3. "end" \in Executing BY DEF Executing
  <2>4. BackendInv' BY <1>1, <1>3, <1>4, <2>1, <2>2, <2>3 DEF BackendInv, Executing
  <2>5. RequestInv' BY <1>1, <2>1, <2>2, <2>3 DEF RequestInv, Executing
  <2> QED BY <2>4, <2>5
<1>23. CASE StopAborts
  <2>1. run.pc = "stop" /\ UNCHANGED <<backend, orphan, quarantined>> BY <1>23 DEF StopAborts
  <2>2. run'.pc = "kill" /\ run'.request = run.request /\ run'.observed = run.observed
    BY <1>2, <1>23 DEF StopAborts, RunRecord
  <2>3. load.stage # "spawn" BY <1>23 DEF StopAborts, MayAbort
  <2>4. backend.process # "unregistered" BY <1>1, <2>3 DEF BackendInv
  <2>5. load'.by # "run" BY <1>23, Names DEF StopAborts, NoLoad
  <2>6. BackendInv' BY <1>1, <2>1, <2>2, <2>4, <2>5 DEF BackendInv, Executing, Cleaning
  <2>7. RequestInv' BY <1>1, <2>1, <2>2 DEF RequestInv, Executing
  <2> QED BY <2>6, <2>7
<1>24. CASE StopKills
  <2>1. run.pc = "kill" /\ UNCHANGED <<load, quarantined>> /\ orphan' = "none"
    BY <1>24 DEF StopKills
  <2>2. run'.pc = "unloading" /\ run'.request = run.request /\ run'.observed = run.observed
    BY <1>2, <1>24 DEF StopKills, RunRecord
  <2>3. /\ backend'.life = IF backend.life \in Loading THEN "stopping" ELSE backend.life
        /\ backend'.process = IF backend.process = "live" THEN "none" ELSE backend.process
    BY <1>24 DEF StopKills
  <2>4. BackendInv' BY <1>1, <2>1, <2>2, <2>3 DEF BackendInv, Executing, Cleaning, Loading
  <2>5. RequestInv' BY <1>1, <2>1, <2>2 DEF RequestInv, Executing
  <2> QED BY <2>4, <2>5
<1>25. CASE StopEnds \/ StopFails \/ Finish \/ Finalized
  <2>1. run.pc \in {"stop", "kill", "unloading", "finish", "finalize"} /\ UNCHANGED <<load, backend, orphan>>
    BY <1>25 DEF StopEnds, StopFails, Finish, Finalized, manager
  <2>2. /\ run'.pc \in {"finish", "finalize", "none"} /\ run'.request = "none"
        /\ run'.observed => run.observed
    <3>1. run.request = "none" BY <1>1, <2>1 DEF RequestInv
    <3>2. CASE StopEnds BY <1>2, <3>1, <3>2 DEF StopEnds, RunRecord
    <3>3. CASE StopFails BY <1>2, <3>1, <3>3 DEF StopFails, RunRecord
    <3>4. CASE Finish BY <1>2, <3>1, <3>4 DEF Finish, RunRecord
    <3>5. CASE Finalized BY <3>5 DEF Finalized, NoRun
    <3> QED BY <1>25, <3>2, <3>3, <3>4, <3>5
  <2>3. quarantined' \/ (~quarantined /\ run.pc \in {"unloading", "finish", "finalize"})
    BY <1>25 DEF StopEnds, StopFails, Finish, Finalized
  <2>4. quarantined => quarantined' BY <1>25 DEF StopEnds, StopFails, Finish, Finalized
  <2>5. load.by = "run" => quarantined'
    BY <1>1, <2>3, <2>4 DEF BackendInv
  <2>6. BackendInv' BY <1>1, <2>1, <2>2, <2>5 DEF BackendInv, Executing, Cleaning
  <2>7. RequestInv' BY <1>1, <2>1, <2>2, <2>3 DEF RequestInv, Executing
  <2> QED BY <2>6, <2>7
<1> QED BY <1>6, <1>7, <1>8, <1>9, <1>10, <1>11, <1>12, <1>13, <1>15, <1>16, <1>17, <1>18,
           <1>19, <1>20, <1>21, <1>22, <1>23, <1>24, <1>25 DEF RunStep

\* A server that gives up its memory leaves nothing of the run behind.
LEMMA NextMemory ==
  ASSUME IInv, [Next]_vars
  PROVE  OperationInv' /\ BackendInv' /\ RequestInv'
<1>1. OperationInv /\ BackendInv /\ RequestInv /\ run \in RunRecord BY DEF IInv, TypeOK
<1>2. CASE /\ UNCHANGED <<pc, stopper, operation, load, backend, orphan, quarantined>>
           /\ run'.pc = run.pc /\ run'.then = run.then /\ run'.pinned = run.pinned
           /\ run'.request = run.request /\ run'.observed = run.observed
  <2>1. OperationInv' BY <1>1, <1>2 DEF OperationInv, ReservationExclusive
  <2>2. BackendInv' BY <1>1, <1>2 DEF BackendInv
  <2>3. RequestInv' BY <1>1, <1>2 DEF RequestInv
  <2> QED BY <2>1, <2>2, <2>3
<1>3. CASE EmptyMemory
  <2>1. /\ run'.pc = "none" /\ run'.pinned = "none" /\ run'.request = "none" /\ ~run'.observed
        /\ load'.by = NoOne /\ backend'.life = "none" /\ backend'.process = "none"
        /\ \A a \in Actors : pc'[a] = "idle" /\ stopper'[a] = "none"
        /\ orphan' = "none" /\ ~quarantined'
    BY <1>3 DEF EmptyMemory, NoRun, NoLoad, NoBackend
  <2>2. OperationInv' BY <2>1, Names, PointSets DEF OperationInv, ReservationExclusive
  <2>3. BackendInv' BY <2>1, Names, PointSets DEF BackendInv
  <2>4. RequestInv' BY <2>1, PointSets DEF RequestInv
  <2> QED BY <2>2, <2>3, <2>4
<1>4. CASE ClientStep \/ BackendExits
  BY <1>4, ClientOperation, ClientBackend, ClientRequest
<1>5. CASE RunStep BY <1>5, RunOperation, RunBackend
<1>6. CASE StoreStep \/ PackOperation \/ UNCHANGED vars
  BY <1>2, <1>6 DEF StoreStep, PackOperation, vars, manager
<1>7. CASE CancelRun \/ ProcessStep
  <2>1. CASE /\ UNCHANGED <<manager, orphan, quarantined>>
             /\ \E b : run' = [run EXCEPT !.cancel = b]
    BY <1>1, <1>2, <2>1 DEF manager, RunRecord
  <2>2. CASE UNCHANGED <<run, manager, orphan, quarantined>>
    BY <1>2, <2>2 DEF manager
  <2> QED BY <1>3, <1>7, <2>1, <2>2
      DEF CancelRun, ProcessStep, Boot, Claim, Recovered, Shutdown, ShutdownGate, ShutdownEnds,
          Exit, Crash
<1> QED BY <1>4, <1>5, <1>6, <1>7 DEF Next

-----------------------------------------------------------------------------
(* The invariant and what follows from it.                                 *)

LEMMA InitIInv == Init => IInv
<1> SUFFICES ASSUME Init PROVE IInv OBVIOUS
<1>1. /\ run.id = NoOne /\ run.pc = "none" /\ run.request = "none" /\ ~run.observed
      /\ run.pinned = "none" /\ load.by = NoOne /\ backend.life = "none"
      /\ backend.process = "none" /\ orphan = "none" /\ ~quarantined
  BY DEF Init, NoRun, NoLoad, NoBackend
<1>2. TypeOK
  BY DEF Init, TypeOK, NoRun, RunRecord, NoLoad, NoBackend, Lives
<1>3. ServerInv BY <1>1 DEF Init, ServerInv
<1>4. IdInv BY <1>1, PointSets DEF IdInv
<1>5. StoreInv BY DEF Init, StoreInv, RecordInv
<1>6. OperationInv
  BY <1>1, Names, PointSets DEF Init, OperationInv, ReservationExclusive
<1>7. BackendInv BY <1>1, Names, PointSets DEF BackendInv
<1>8. RequestInv BY <1>1, PointSets DEF RequestInv
<1> QED BY <1>2, <1>3, <1>4, <1>5, <1>6, <1>7, <1>8 DEF IInv

LEMMA Invariant == Spec => []IInv
<1>1. IInv /\ [Next]_vars => IInv'
  BY NextType, NextServer, NextId, NextStore, NextMemory DEF IInv
<1> QED BY <1>1, InitIInv, PTL DEF Spec

\* From its admission until its final record is saved, a run shares the server
\* with no inference, load or reclaim of others: the gate of
\* benchmark_admission keeps new ones out, the two mutexes of start_benchmark
\* those that were already under way.
THEOREM RunsAlone == Spec => []ReservationExclusive
<1>1. IInv => ReservationExclusive BY DEF IInv, OperationInv
<1> QED BY <1>1, Invariant, PTL

\* A request that is measured has the pinned backend for itself, and a run that
\* lets go of the server leaves nothing on it, or the server is quarantined.
THEOREM MeasuresSoundly == Spec => []SoundMeasurement
<1>1. ASSUME IInv PROVE SoundMeasurement
  <2>1. BackendInv /\ RequestInv /\ OperationInv /\ run.pinned \in {"none", "same", "other"}
    BY <1>1 DEF IInv, TypeOK, RunRecord
  <2>2. "measure" \in Executing \ {"confirm"} BY DEF Executing
  <2>3. run.pc \in {"none", "checking"} /\ ~quarantined => load.by # "run"
    BY <2>1 DEF BackendInv
  <2> QED BY <2>1, <2>2, <2>3 DEF SoundMeasurement, BackendInv, RequestInv
<1> QED BY <1>1, Invariant, PTL

\* Once a run has its final record and no job works on it, the summary that the
\* history shows is the one of the record, or there is none; as long as the two
\* disagree there is a checkpoint for recover to find.
THEOREM SummaryIsTrue == Spec => []SummaryFollowsRecord
<1>1. IInv => SummaryFollowsRecord
  BY DEF IInv, StoreInv, RecordInv, SummaryFollowsRecord
<1> QED BY <1>1, Invariant, PTL

-----------------------------------------------------------------------------
(* The store, the run's task and the start of a server implement the       *)
(* history.                                                                *)

Phase ==
  [r \in Runs |->
     IF r \notin used THEN "waiting"
     ELSE IF run.id # r THEN "over"
     ELSE IF run.pc \in Executing THEN "executing" ELSE "concluding"]

Record ==
  [r \in Runs |->
     IF terminal[r] # "none" THEN terminal[r]
     ELSE IF active[r] THEN "running" ELSE "none"]

LEMMA HistoryInit == Init => History!Init
<1> SUFFICES ASSUME Init PROVE History!Init OBVIOUS
<1>1. Phase = [r \in Runs |-> "waiting"] BY DEF Init, Phase
<1>2. Record = [r \in Runs |-> "none"] BY DEF Init, Record
<1> QED BY <1>1, <1>2 DEF History!Init, Phase, Record

\* What a run does is one step of its phase, or none.
LEMMA PhaseStep ==
  ASSUME IInv, RunMoves, UNCHANGED store
  PROVE  History!Next \/ (Phase' = Phase /\ Record' = Record)
<1>1. IdInv /\ used \subseteq Runs /\ run.id \in Runs \cup {NoOne}
  BY DEF IInv, TypeOK, RunRecord
<1>2. Record' = Record BY DEF Record, store
<1>3. CASE Stays
  <2>1. \A r \in Runs : Phase'[r] = Phase[r]
    BY <1>1, <1>3, PointSets DEF Stays, Phase, IdInv
  <2> QED BY <1>2, <2>1 DEF Phase
<1>4. CASE Stops
  <2>1. run.id \in Runs /\ run.id \in used
    BY <1>1, <1>4 DEF Stops, IdInv
  <2>2. Phase[run.id] = "executing" BY <1>4, <2>1 DEF Stops, Phase
  <2>3. Phase' = [Phase EXCEPT ![run.id] = "concluding"]
    BY <1>4, <2>1, PointSets DEF Stops, Phase
  <2>4. PICK r \in Runs : r = run.id BY <2>1
  <2>5. History!StopWork(r)
    BY <1>2, <2>2, <2>3, <2>4 DEF History!StopWork, History!Move, Phase, Record
  <2> QED BY <2>5 DEF History!Next
<1>5. CASE \E r \in Runs : Reserves(r)
  <2>1. PICK q \in Runs : Reserves(q) BY <1>5
  <2>2. run.id = NoOne /\ run'.id = q /\ q \notin used /\ used' = used
    BY <1>1, <2>1 DEF Reserves, IdInv
  <2>3. \A r \in Runs : Phase'[r] = Phase[r]
    BY <2>2, Names DEF Phase
  <2> QED BY <1>2, <2>3 DEF Phase
<1>6. CASE Admits
  <2>1. run.id \in Runs /\ run.id \notin used
    BY <1>1, <1>6 DEF Admits, IdInv
  <2>2. "saving" \in Executing BY DEF Executing
  <2>3. Phase[run.id] = "waiting" BY <2>1 DEF Phase
  <2>4. Phase' = [Phase EXCEPT ![run.id] = "executing"]
    BY <1>6, <2>1, <2>2 DEF Admits, Phase
  <2>5. PICK r \in Runs : r = run.id BY <2>1
  <2>6. History!Admit(r)
    BY <1>2, <2>3, <2>4, <2>5 DEF History!Admit, History!Move, Phase, Record
  <2> QED BY <2>6 DEF History!Next
<1>7. CASE Leaves
  <2>1. CASE run.id \in used
    <3>1. run.id \in Runs BY <1>1, <2>1
    <3>2. Phase[run.id] \in {"executing", "concluding"} BY <2>1, <3>1 DEF Phase
    <3>3. Phase' = [Phase EXCEPT ![run.id] = "over"]
      BY <1>7, <2>1, <3>1, Names DEF Leaves, Phase
    <3>4. PICK r \in Runs : r = run.id BY <3>1
    <3>5. History!Leave(r)
      BY <1>2, <3>2, <3>3, <3>4 DEF History!Leave, History!Move, Phase, Record
    <3> QED BY <3>5 DEF History!Next
  <2>2. CASE run.id \notin used
    <3>1. \A r \in Runs : Phase'[r] = Phase[r]
      BY <1>1, <1>7, <2>2, Names DEF Leaves, Phase
    <3> QED BY <1>2, <3>1 DEF Phase
  <2> QED BY <2>1, <2>2
<1> QED BY <1>3, <1>4, <1>5, <1>6, <1>7 DEF RunMoves

\* What a job writes is one step of its run's record, or none.
LEMMA RecordStep ==
  ASSUME IInv, StoreStep
  PROVE  History!Next \/ (Phase' = Phase /\ Record' = Record)
<1>1. /\ UNCHANGED <<run, used, owner, server>> /\ jobs \subseteq Jobs /\ used \subseteq Runs
      /\ active \in [Runs -> BOOLEAN]
      /\ terminal \in [Runs -> Final \cup {"none"}]
      /\ IdInv /\ ServerInv
  BY DEF StoreStep, IInv, TypeOK
<1>2. PICK j \in jobs :
        \/ SaveLocks(j) \/ SaveWrites(j) \/ SaveSummarises(j) \/ SaveRemoves(j)
        \/ JobFails(j) \/ RecoverLocks(j) \/ RecoverSummarises(j)
        \/ RecoverRemoves(j) \/ RecoverEnds(j)
        \/ \E r \in Runs : RecoverWrites(j, r)
  BY DEF StoreStep
<1>3. j \in Jobs /\ JobInv(j) /\ \A r \in Runs : RecordInv(r)
  BY <1>1 DEF IInv, StoreInv
<1>4. Phase' = Phase BY <1>1 DEF Phase
<1>5. CASE UNCHANGED <<active, terminal>>
  BY <1>4, <1>5 DEF Record
<1>6. CASE SaveWrites(j)
  <2>1. /\ j.run \in used /\ j.run \in Runs /\ terminal[j.run] = "none"
        /\ j.status \in Final \cup {"running"}
    BY <1>1, <1>3, <1>6 DEF SaveWrites, Jobs, JobInv, Knows
  <2>2. CASE j.status = "running"
    <3>1. active' = [active EXCEPT ![j.run] = TRUE] /\ terminal' = terminal
      BY <1>6, <2>2 DEF SaveWrites
    <3>2. Record' = [Record EXCEPT ![j.run] = "running"]
      BY <1>1, <2>1, <3>1 DEF Record
    <3>3. Record[j.run] \in {"none", "running"} BY <2>1 DEF Record
    <3>4. CASE Record[j.run] = "running"
      <4>1. Record' = Record BY <3>2, <3>4 DEF Record
      <4> QED BY <1>4, <4>1
    <3>5. CASE Record[j.run] = "none"
      <4>1. Phase[j.run] # "waiting" BY <2>1 DEF Phase
      <4>2. History!Checkpoint(j.run)
        BY <1>4, <3>2, <3>5, <4>1 DEF History!Checkpoint, Phase, Record
      <4> QED BY <2>1, <4>2 DEF History!Next
    <3> QED BY <3>3, <3>4, <3>5
  <2>3. CASE j.status \in Final
    <3>1. terminal' = [terminal EXCEPT ![j.run] = j.status] /\ active' = active
      BY <1>6, <2>3, FinalStatuses DEF SaveWrites
    <3>2. Record' = [Record EXCEPT ![j.run] = j.status]
      BY <1>1, <2>1, <2>3, <3>1, FinalStatuses DEF Record
    <3>3. Record[j.run] \in {"none", "running"} BY <2>1 DEF Record
    <3>4. j.run # run.id \/ run.pc \in Cleaning BY <1>3, <2>3 DEF JobInv, Knows
    <3>5. Phase[j.run] = "concluding" \/ Phase[j.run] = "over"
      BY <2>1, <3>4, PointSets DEF Phase
    <3>6. History!Conclude(j.run, j.status)
      BY <1>4, <3>2, <3>3, <3>5 DEF History!Conclude, Phase, Record
    <3> QED BY <2>1, <2>3, <3>6 DEF History!Next
  <2> QED BY <2>1, <2>2, <2>3
<1>7. CASE SaveRemoves(j) \/ RecoverRemoves(j)
  <2>1. /\ j.run \in Runs /\ terminal[j.run] # "none"
        /\ active' = [active EXCEPT ![j.run] = FALSE] /\ UNCHANGED terminal
    BY <1>1, <1>3, <1>7, FinalStatuses DEF SaveRemoves, RecoverRemoves, Jobs, JobInv, Knows
  <2>2. \A r \in Runs : Record'[r] = Record[r] BY <1>1, <2>1 DEF Record
  <2> QED BY <1>4, <2>2 DEF Record
<1>8. CASE \E r \in Runs : RecoverWrites(j, r)
  <2>1. PICK r \in Runs : RecoverWrites(j, r) BY <1>8
  <2>2. /\ j.status = "recover" /\ active[r] /\ active' = active
        /\ terminal' = [terminal EXCEPT ![r] = IF @ = "none" THEN "interrupted" ELSE @]
    BY <2>1 DEF RecoverWrites
  <2>3. CASE terminal[r] # "none"
    <3>1. terminal' = terminal BY <1>1, <2>2, <2>3
    <3> QED BY <1>5, <2>2, <3>1
  <2>4. CASE terminal[r] = "none"
    <3>1. "interrupted" \in Final /\ "interrupted" # "none" BY DEF Final
    <3>2. terminal' = [terminal EXCEPT ![r] = "interrupted"] BY <2>2, <2>4
    <3>3. Record' = [Record EXCEPT ![r] = "interrupted"]
      BY <1>1, <2>2, <3>1, <3>2 DEF Record
    <3>4. Record[r] = "running" BY <2>2, <2>4 DEF Record
    <3>5. run.pc = "none" BY <1>1, <2>2 DEF ServerInv, Serving
    <3>6. run.id = NoOne /\ r \in used BY <1>1, <1>3, <2>2, <3>5 DEF IdInv, RecordInv
    <3>7. Phase[r] = "over" BY <3>6, Names DEF Phase
    <3>8. History!Conclude(r, "interrupted")
      BY <1>4, <3>3, <3>4, <3>7 DEF History!Conclude, Phase, Record
    <3> QED BY <3>1, <3>8 DEF History!Next
  <2> QED BY <2>3, <2>4
<1> QED BY <1>2, <1>5, <1>6, <1>7, <1>8
    DEF SaveLocks, SaveSummarises, JobFails, RecoverLocks, RecoverSummarises, RecoverEnds, store

\* The store's jobs, the run's task and a server's recovery implement
\* BenchmarkHistory: no record is concluded while its run works, whichever
\* process recovers it, and no conclusion is replaced.
THEOREM HistoryIsKept == Spec => KeepsHistory
<1>1. ASSUME IInv, [Next]_vars
      PROVE  History!Next \/ (Phase' = Phase /\ Record' = Record)
  <2>1. CASE StoreStep BY <1>1, <2>1, RecordStep
  <2>2. CASE ~StoreStep
    <3>1. UNCHANGED store
      <4>1. CASE RunStep BY <1>1, <4>1, RunJobs
      <4>2. CASE ClientStep \/ BackendExits \/ PackOperation \/ CancelRun \/ UNCHANGED vars
        BY <4>2 DEF ClientStep, BackendExits, PackOperation, CancelRun, vars, store
      <4>3. CASE ProcessStep
        BY <4>3 DEF ProcessStep, Boot, Claim, Recovered, Shutdown, ShutdownGate, ShutdownEnds,
           Exit, Crash
      <4> QED BY <1>1, <2>2, <4>1, <4>2, <4>3 DEF Next
    <3> QED BY <1>1, <3>1, NextMoves, PhaseStep
  <2> QED BY <2>1, <2>2
<1>2. IInv /\ [Next]_vars => [History!Next]_<<Phase, Record>> BY <1>1
<1> QED BY <1>2, HistoryInit, Invariant, PTL DEF Spec, KeepsHistory, History!Spec, Phase, Record
=============================================================================
