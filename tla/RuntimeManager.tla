---------------------------- MODULE RuntimeManager ----------------------------
(***************************************************************************)
(* RuntimeManager (crates/scala-engine/src/manager.rs): the table of       *)
(* backends, one per Model Profile, and the tasks that load, use, reclaim  *)
(* and stop them over the process supervisor.                              *)
(*                                                                         *)
(* Two locks matter.  `state' (an RwLock) is held for single steps only:   *)
(* every action below is one such critical section.  `operation' (a        *)
(* Mutex) is held across awaits and serialises loads and stops; it is the  *)
(* variable `operation'.  Everything else interleaves: inference on the    *)
(* fast path, crashes and exit monitors, cancellations, profile edits, the *)
(* idle reaper, shutdown, and the drop of a caller's future.               *)
(*                                                                         *)
(* Settings, schemas, runtime selection, launch arguments, progress and    *)
(* provenance are abstracted to: a step of a load may fail at any point    *)
(* where the code has an error return.  Clocks are abstracted to           *)
(* nondeterministic expiry.  cancellation_epoch is advanced by shutdown    *)
(* alone, after shutting_down, so load_cancelled is `shutting_down'.       *)
(***************************************************************************)
EXTENDS Supervisor, FiniteSets

CONSTANTS
  Profiles,        \* Model Profiles
  Sessions,        \* routing session ids
  Loaders,         \* callers of start_load_with_settings
  Requests,        \* callers of inference_target
  Reaper,          \* the idle reaper task
  Closer,          \* the caller of shutdown
  Retirement,      \* holder of `operation' once a stop outlives its caller
  Free,            \* no holder of `operation'
  None,            \* an absent profile or session
  Droppable,       \* the callers whose future may be dropped (a disconnect)
  Decisions,       \* values of: is the request a process-retiring Decision
  JitEnabled,      \* RuntimeManagerOptions.jit_enabled
  Events,          \* what may happen of itself: unload, crash, reap, shutdown
  MaxGenerations,  \* bound on reservations
  MaxEdits         \* bound on profile edits

Tasks == Loaders \cup Requests \cup {Reaper, Closer}

ASSUME ManagerAssumption ==
  /\ MaxGenerations \in Nat
  /\ MaxEdits \in Nat
  /\ JitEnabled \in BOOLEAN
  /\ Decisions \subseteq BOOLEAN
  /\ Droppable \subseteq Loaders \cup Requests
  /\ Loaders \cap Requests = {}
  /\ {Reaper, Closer} \cap (Loaders \cup Requests) = {}
  /\ Reaper # Closer
  /\ {Free, Retirement} \cap Tasks = {}
  /\ Free # Retirement
  /\ None \notin Profiles
  /\ None \notin Sessions

VARIABLES
  version,          \* the saved content of each profile (its content hash)
  backend,          \* ManagerState.backends
  session,          \* ManagerState.sessions: the primary of each session
  next_generation,  \* ManagerState.next_generation
  operation,        \* holder of the operation lock
  retirement,       \* the task spawned by stop_backend_with_operation_held
  task,             \* the callers
  todo,             \* profiles the holder of the lock still has to stop
  snapshot,         \* profiles collected by shutdown
  uncancelled,      \* those whose load shutdown has still to cancel
  job,              \* spawned unload and guard tasks
  cancelled,        \* generations whose BackendActivity.cancel is true
  monitor,          \* exit monitors, by process
  shutting_down     \* the flag

table == <<version, backend, session, next_generation>>
collected == <<snapshot, uncancelled>>
vars == <<process, version, backend, session, next_generation, operation, retirement,
          task, todo, snapshot, uncancelled, job, cancelled, monitor, shutting_down>>

Generation == 1..MaxGenerations

\* ManagedBackend.  running and loading are the processes of `running' and
\* loading_process; lease says that a RuntimeLease is held by either field;
\* version is the content hash recorded in the provenance.
Backend ==
  [lifecycle : {"Absent", "Loading", "Running", "Stopping", "Failed"},
   generation : Generation \cup {0}, residency : {"Jit", "Pinned"},
   running : Process \cup {NoProcess}, loading : Process \cup {NoProcess},
   lease : BOOLEAN, cancel_loading : BOOLEAN, version : 0..MaxEdits, retiring : BOOLEAN]

NoBackend ==
  [lifecycle |-> "Absent", generation |-> 0, residency |-> "Jit", running |-> NoProcess,
   loading |-> NoProcess, lease |-> FALSE, cancel_loading |-> FALSE, version |-> 0,
   retiring |-> FALSE]

\* Where a load is, from load_admitted's first line to its last.
LoadPcs == {"begin", "select", "launch", "spawn", "spawned", "starting", "retry",
            "retrying", "commit", "abort", "aborting"}

\* Where it has a process in its hands.
ProcPcs == {"spawned", "starting", "retry", "retrying", "commit", "abort", "aborting"}

\* A caller waiting for the retirement task it started.
StopPcs == {"evicting", "reclaiming", "replacing", "stopping"}

\* Every point where the caller owns the operation lock.
HoldPcs == {"evict", "reclaim", "match", "acquire", "admit", "replace", "reserve",
            "insert", "handoff", "stop", "draining"} \cup StopPcs \cup LoadPcs

Pcs == {"idle", "fast", "wait", "relock", "infer", "snapshot", "cancel", "cancelling",
        "lock", "done"} \cup HoldPcs

Task ==
  [pc : Pcs, prof : Profiles \cup {None}, generation : Generation \cup {0},
   proc : Process \cup {NoProcess}, sess : Sessions \cup {None},
   role : {"Primary", "Auxiliary"}, version : 0..MaxEdits, decision : BOOLEAN]

Idle == [pc |-> "idle", prof |-> None, generation |-> 0, proc |-> NoProcess, sess |-> None,
         role |-> "Primary", version |-> 0, decision |-> FALSE]

NoRetirement == [at |-> "none", prof |-> None, generation |-> 0, proc |-> NoProcess]

\* unload and the two guards are spawned tasks that end in a stop.
Job == [kind : {"unload", "jit", "decision"}, prof : Profiles,
        generation : Generation \cup {0}, at : {"cancel", "kill", "lock"},
        proc : Process \cup {NoProcess}]

Unload(p) == [kind |-> "unload", prof |-> p, generation |-> 0, at |-> "cancel",
              proc |-> NoProcess]

JitGuard(p, g) == [kind |-> "jit", prof |-> p, generation |-> g, at |-> "cancel",
                   proc |-> NoProcess]

DecisionGuard(p, g) == [kind |-> "decision", prof |-> p, generation |-> g, at |-> "lock",
                        proc |-> NoProcess]

NoMonitor == [prof |-> None, generation |-> 0]

Init ==
  /\ SupervisorInit
  /\ version = [p \in Profiles |-> 0]
  /\ backend = [p \in Profiles |-> NoBackend]
  /\ session = [s \in Sessions |-> None]
  /\ next_generation = 0
  /\ operation = Free
  /\ retirement = NoRetirement
  /\ task = [t \in Tasks |-> Idle]
  /\ todo = {}
  /\ snapshot = {}
  /\ uncancelled = {}
  /\ job = {}
  /\ cancelled = {}
  /\ monitor = [x \in Process |-> NoMonitor]
  /\ shutting_down = FALSE

Present(p) == backend[p].lifecycle # "Absent"

At(t, pc) == task[t].pc = pc

GoTo(t, pc) == task' = [task EXCEPT ![t].pc = pc]

\* The caller returns: its locals and its operation guard are dropped.
Return(t) ==
  /\ task' = [task EXCEPT ![t] = Idle]
  /\ operation' = IF operation = t THEN Free ELSE operation

\* InferenceLeases on one BackendActivity, which is one per generation.
ActiveRequests(g) == {t \in Requests : At(t, "infer") /\ task[t].generation = g}

-----------------------------------------------------------------------------
(* stop_backend_with_operation_held and the retirement task.               *)

\* The part before the spawn: mark, signal activity, take the process.
MarkStopping(q) ==
  /\ backend' = [backend EXCEPT ![q].retiring = TRUE, ![q].lifecycle = "Stopping"]
  /\ cancelled' = cancelled \cup {backend[q].generation}
  /\ retirement' = [at |-> "drain", prof |-> q, generation |-> backend[q].generation,
                    proc |-> IF backend[q].running # NoProcess THEN backend[q].running
                             ELSE backend[q].loading]

\* Mutant: the requests are not waited for.
MUT_Drained(g) == TRUE

Drained(g) == ActiveRequests(g) = {}

\* Mutant: the result is kept although the caller is gone.
MUT_Retired(result) ==
  retirement' = [retirement EXCEPT !.at = result] /\ UNCHANGED operation

\* The retirement task sends (operation, result) to its caller; when the
\* caller is gone the message, and with it the lock, is dropped.
Retired(result) ==
  IF operation = Retirement
  THEN operation' = Free /\ retirement' = NoRetirement
  ELSE retirement' = [retirement EXCEPT !.at = result] /\ UNCHANGED operation

RemoveBackend(q) ==
  /\ backend' = [backend EXCEPT ![q] = NoBackend]
  /\ session' = [s \in Sessions |-> IF session[s] = q THEN None ELSE session[s]]

\* finish_backend_stop_with_parts, in three outcomes.
RetireSends ==
  /\ retirement.at = "drain"
  /\ Drained(retirement.generation)
  /\ retirement.proc # NoProcess
  /\ SendTerminate(retirement.proc)
  /\ retirement' = [retirement EXCEPT !.at = "killing"]
  /\ UNCHANGED <<table, operation, task, todo, collected, job, cancelled, monitor, shutting_down>>

RetireFails ==
  /\ retirement.proc # NoProcess
  /\ \/ /\ retirement.at = "drain"
        /\ Drained(retirement.generation)
        /\ TerminateRefused(retirement.proc)
     \/ retirement.at = "killing" /\ TerminateTimesOut(retirement.proc)
  /\ backend' = [backend EXCEPT ![retirement.prof].lifecycle = "Failed"]
  /\ Retired("err")
  /\ UNCHANGED <<process, version, session, next_generation, task, todo, collected, job,
                 cancelled, monitor, shutting_down>>

RetireCompletes ==
  /\ \/ /\ retirement.at = "drain"
        /\ Drained(retirement.generation)
        /\ retirement.proc # NoProcess => TerminateDone(retirement.proc)
     \/ retirement.at = "killing" /\ Exited(retirement.proc)
  /\ RemoveBackend(retirement.prof)
  /\ Retired("ok")
  /\ UNCHANGED <<process, version, next_generation, task, todo, collected, job, cancelled,
                 monitor, shutting_down>>

\* The points before a stop, while it runs, and after it succeeded.
During == [evict |-> "evicting", replace |-> "replacing", reclaim |-> "reclaiming",
           stop |-> "stopping"]
Before == [evicting |-> "evict", replacing |-> "replace", reclaiming |-> "reclaim",
           stopping |-> "stop"]
After == [evict |-> "match", replace |-> "reserve", reclaim |-> "reclaim", stop |-> "stop"]

\* A profile with no backend is already stopped.
StopBegins(t, q) ==
  /\ task[t].pc \in DOMAIN During
  /\ q \in todo
  /\ todo' = todo \ {q}
  /\ \/ /\ Present(q)
        /\ MarkStopping(q)
        /\ GoTo(t, During[task[t].pc])
     \/ /\ ~Present(q)
        /\ GoTo(t, After[task[t].pc])
        /\ UNCHANGED <<backend, cancelled, retirement>>
  /\ UNCHANGED <<process, version, session, next_generation, operation, collected, job,
                 monitor, shutting_down>>

\* The completion arrives.  evict and replace return the error of a failed
\* stop; reclaim and shutdown log it and go on.
StopReturns(t) ==
  /\ task[t].pc \in StopPcs
  /\ retirement.at \in {"ok", "err"}
  /\ retirement' = NoRetirement
  /\ IF Before[task[t].pc] \in {"evict", "replace"} /\ retirement.at = "err"
     THEN Return(t)
     ELSE GoTo(t, After[Before[task[t].pc]]) /\ UNCHANGED operation
  /\ UNCHANGED <<process, table, todo, collected, job, cancelled, monitor, shutting_down>>

-----------------------------------------------------------------------------
(* Reservation and load_admitted, shared by manual and JIT loads.          *)

\* What precedes the insertion: the jit_enabled check of a request and
\* load_cancelled. At the bound on generations a reservation is refused too.
MayReserve(t) ==
  /\ ~shutting_down
  /\ next_generation < MaxGenerations
  /\ t \in Requests => JitEnabled

\* reserve_loading's check, then its insertion under the state lock.
Reserve(t) ==
  /\ At(t, "reserve")
  /\ IF MayReserve(t) THEN GoTo(t, "insert") /\ UNCHANGED operation ELSE Return(t)
  /\ UNCHANGED <<process, table, retirement, todo, collected, job, cancelled, monitor,
                 shutting_down>>

Residency(t) == IF t \in Requests THEN "Jit" ELSE "Pinned"

Insert(t) ==
  /\ At(t, "insert")
  /\ next_generation' = next_generation + 1
  /\ backend' = [backend EXCEPT ![task[t].prof] =
                   [NoBackend EXCEPT !.lifecycle = "Loading", !.residency = Residency(t),
                                     !.generation = next_generation + 1]]
  /\ task' = [task EXCEPT ![t].generation = next_generation + 1,
                          ![t].pc = IF t \in Requests THEN "begin" ELSE "handoff"]
  /\ UNCHANGED <<process, version, session, operation, retirement, todo, collected, job,
                 cancelled, monitor, shutting_down>>

\* Mutant: the lock is not moved into the load task.
MUT_HandOff(t) ==
  /\ At(t, "handoff")
  /\ GoTo(t, "begin")
  /\ operation' = Free
  /\ UNCHANGED <<process, table, retirement, todo, collected, job, cancelled, monitor,
                 shutting_down>>

\* The manual load's status().await, after which the load is a spawned task.
HandOff(t) ==
  /\ At(t, "handoff")
  /\ GoTo(t, "begin")
  /\ UNCHANGED <<process, table, operation, retirement, todo, collected, job, cancelled,
                 monitor, shutting_down>>

\* The bookkeeping of fail_loading: it looks the generation up, and drops the
\* runtime lease only when no process is retained.
MarkFailed(g, x) ==
  backend' = [p \in Profiles |->
    IF Present(p) /\ backend[p].generation = g
    THEN [backend[p] EXCEPT !.lifecycle = "Failed", !.running = NoProcess, !.loading = x,
                            !.lease = @ /\ x # NoProcess, !.cancel_loading = FALSE]
    ELSE backend[p]]

\* fail_loading and the error return. The error leaves a JIT admission with
\* its guard still armed.
FailLoading(t, x) ==
  /\ MarkFailed(task[t].generation, x)
  /\ Return(t)
  /\ job' = IF t \in Requests THEN job \cup {JitGuard(task[t].prof, task[t].generation)}
            ELSE job
  /\ UNCHANGED <<version, session, next_generation, retirement, todo, collected, cancelled,
                 monitor, shutting_down>>

\* Still this load's generation, and nobody cancelled it.
LoadCurrent(t) ==
  LET b == backend[task[t].prof]
  IN  /\ b.generation = task[t].generation
      /\ b.lifecycle = "Loading"
      /\ ~b.cancel_loading
      /\ ~shutting_down

\* Every error return before a process exists, cancellation included.
LoadFails(t) ==
  /\ task[t].pc \in {"begin", "select", "launch", "spawn"}
  /\ FailLoading(t, NoProcess)
  /\ UNCHANGED process

\* Settings and runtime selection: here the flag alone is checked.
BeginLoad(t) ==
  /\ At(t, "begin")
  /\ ~shutting_down
  /\ GoTo(t, "select")
  /\ UNCHANGED <<process, table, operation, retirement, todo, collected, job, cancelled,
                 monitor, shutting_down>>

\* The runtime lease is acquired and stored.
StoreLease(t) ==
  /\ At(t, "select")
  /\ LoadCurrent(t)
  /\ backend' = [backend EXCEPT ![task[t].prof].lease = TRUE]
  /\ GoTo(t, "launch")
  /\ UNCHANGED <<process, version, session, next_generation, operation, retirement, todo,
                 collected, job, cancelled, monitor, shutting_down>>

PrepareLaunch(t) ==
  /\ At(t, "launch")
  /\ ~shutting_down
  /\ GoTo(t, "spawn")
  /\ UNCHANGED <<process, table, operation, retirement, todo, collected, job, cancelled,
                 monitor, shutting_down>>

SpawnBackend(t) ==
  /\ At(t, "spawn")
  /\ \E x \in Process : Spawn(x) /\ task' = [task EXCEPT ![t].pc = "spawned", ![t].proc = x]
  /\ UNCHANGED <<table, operation, retirement, todo, collected, job, cancelled, monitor,
                 shutting_down>>

\* Mutant: a load cancelled during the spawn fails without its process.
MUT_RegisterProcess(t) ==
  /\ At(t, "spawned")
  /\ UNCHANGED process
  /\ IF LoadCurrent(t)
     THEN /\ backend' = [backend EXCEPT ![task[t].prof].loading = task[t].proc]
          /\ GoTo(t, "starting")
          /\ UNCHANGED <<version, session, next_generation, operation, retirement, todo,
                         collected, job, cancelled, monitor, shutting_down>>
     ELSE FailLoading(t, NoProcess)

\* The process is registered, and the provenance with the profile's hash
\* recorded; or the load was cancelled and the process has to go.
RegisterProcess(t) ==
  /\ At(t, "spawned")
  /\ IF LoadCurrent(t)
     THEN /\ backend' = [backend EXCEPT ![task[t].prof].loading = task[t].proc,
                                        ![task[t].prof].version = task[t].version]
          /\ GoTo(t, "starting")
     ELSE GoTo(t, "abort") /\ UNCHANGED backend
  /\ UNCHANGED <<process, version, session, next_generation, operation, retirement, todo,
                 collected, job, cancelled, monitor, shutting_down>>

\* Mutant: a child that exits while it starts is waited for.
MUT_AwaitStartup(t) ==
  /\ At(t, "starting")
  /\ Live(task[t].proc)
  /\ \E pc \in {"commit", "retry", "abort"} : GoTo(t, pc)
  /\ UNCHANGED <<process, table, operation, retirement, todo, collected, job, cancelled,
                 monitor, shutting_down>>

\* subscribe, wait_for_readiness and the startup observation: ready, too
\* little context for this launch attempt, or any of the failures.
AwaitStartup(t) ==
  /\ At(t, "starting")
  /\ \/ Live(task[t].proc) /\ GoTo(t, "commit")
     \/ Live(task[t].proc) /\ GoTo(t, "retry")
     \/ GoTo(t, "abort")
  /\ UNCHANGED <<process, table, operation, retirement, todo, collected, job, cancelled,
                 monitor, shutting_down>>

\* terminate_or_retain, and the terminate before a fallback attempt.
KillSent(t) ==
  /\ task[t].pc \in {"abort", "retry"}
  /\ SendTerminate(task[t].proc)
  /\ GoTo(t, IF At(t, "abort") THEN "aborting" ELSE "retrying")
  /\ UNCHANGED <<table, operation, retirement, todo, collected, job, cancelled, monitor,
                 shutting_down>>

KillFails(t) ==
  /\ \/ task[t].pc \in {"abort", "retry"} /\ TerminateRefused(task[t].proc)
     \/ task[t].pc \in {"aborting", "retrying"} /\ TerminateTimesOut(task[t].proc)
  /\ FailLoading(t, task[t].proc)
  /\ UNCHANGED process

Killed(t, before, during) ==
  \/ At(t, before) /\ TerminateDone(task[t].proc)
  \/ At(t, during) /\ Exited(task[t].proc)

AbortEnds(t) ==
  /\ Killed(t, "abort", "aborting")
  /\ FailLoading(t, NoProcess)
  /\ UNCHANGED process

\* The next attempt, or the error when none is left.
RetryLaunch(t) ==
  /\ Killed(t, "retry", "retrying")
  /\ \/ /\ backend' = [backend EXCEPT ![task[t].prof].loading = NoProcess]
        /\ task' = [task EXCEPT ![t].pc = "launch", ![t].proc = NoProcess]
        /\ UNCHANGED <<process, version, session, next_generation, operation, retirement,
                       todo, collected, job, cancelled, monitor, shutting_down>>
     \/ FailLoading(t, NoProcess) /\ UNCHANGED process

\* Mutant: the commit checks the generation and the shutdown flag only.
MUT_MayCommit(t) ==
  backend[task[t].prof].generation = task[t].generation /\ ~shutting_down

MayCommit(t) ==
  LET b == backend[task[t].prof]
  IN  b.generation = task[t].generation /\ b.lifecycle = "Loading" /\ ~shutting_down

\* Loading becomes Running; the exit monitor starts. A JIT caller goes on to
\* take the lock again.
CommitLoad(t) ==
  /\ At(t, "commit")
  /\ MayCommit(t)
  /\ backend' = [backend EXCEPT ![task[t].prof].lifecycle = "Running",
                                ![task[t].prof].running = task[t].proc,
                                ![task[t].prof].loading = NoProcess,
                                ![task[t].prof].cancel_loading = FALSE,
                                ![task[t].prof].residency = Residency(t)]
  /\ monitor' = [monitor EXCEPT ![task[t].proc] =
                   [prof |-> task[t].prof, generation |-> task[t].generation]]
  /\ operation' = Free
  /\ task' = [task EXCEPT ![t] = IF t \in Requests
                                 THEN [task[t] EXCEPT !.pc = "relock", !.proc = NoProcess,
                                                      !.generation = 0]
                                 ELSE Idle]
  /\ UNCHANGED <<process, version, session, next_generation, retirement, todo, collected, job,
                 cancelled, shutting_down>>

CommitRefused(t) ==
  /\ At(t, "commit")
  /\ ~MayCommit(t)
  /\ GoTo(t, "abort")
  /\ UNCHANGED <<process, table, operation, retirement, todo, collected, job, cancelled,
                 monitor, shutting_down>>

LoadStep(t) ==
  \/ Reserve(t) \/ Insert(t) \/ HandOff(t) \/ LoadFails(t) \/ BeginLoad(t) \/ StoreLease(t)
  \/ PrepareLaunch(t) \/ SpawnBackend(t) \/ RegisterProcess(t) \/ AwaitStartup(t)
  \/ KillSent(t) \/ KillFails(t) \/ AbortEnds(t) \/ RetryLaunch(t) \/ CommitLoad(t)
  \/ CommitRefused(t)

-----------------------------------------------------------------------------
(* Manual loads: admit_load_with_settings.                                 *)

\* try_lock, then the profile is read.
AdmitLoad(t, p) ==
  /\ At(t, "idle")
  /\ ~shutting_down
  /\ operation = Free
  /\ operation' = t
  /\ task' = [task EXCEPT ![t] = [Idle EXCEPT !.pc = "admit", !.prof = p,
                                              !.version = version[p]]]
  /\ UNCHANGED <<process, table, retirement, todo, collected, job, cancelled, monitor,
                 shutting_down>>

\* override stands for settings or a runtime given with the call.
MatchLoad(t, override) ==
  LET p == task[t].prof
      b == backend[p]
      reusable == ~override /\ b.version = task[t].version
  IN  /\ At(t, "admit")
      /\ CASE b.lifecycle = "Running" /\ reusable ->
                /\ backend' = [backend EXCEPT ![p].residency = "Pinned"]
                /\ Return(t)
                /\ UNCHANGED todo
           [] b.lifecycle = "Failed" \/ (b.lifecycle = "Running" /\ ~reusable) ->
                GoTo(t, "replace") /\ todo' = {p} /\ UNCHANGED <<backend, operation>>
           [] b.lifecycle = "Absent" ->
                GoTo(t, "reserve") /\ UNCHANGED <<backend, operation, todo>>
           [] OTHER -> Return(t) /\ UNCHANGED <<backend, todo>>
      /\ UNCHANGED <<process, version, session, next_generation, retirement, collected, job,
                     cancelled, monitor, shutting_down>>

-----------------------------------------------------------------------------
(* Inference: inference_target and its callers.                            *)

InferenceTarget(t, p, s, role, decision) ==
  /\ At(t, "idle")
  /\ ~shutting_down
  /\ task' = [task EXCEPT ![t] = [Idle EXCEPT !.pc = "fast", !.prof = p, !.sess = s,
                !.role = role, !.decision = decision, !.version = version[p]]]
  /\ UNCHANGED <<process, table, operation, retirement, todo, collected, job, cancelled,
                 monitor, shutting_down>>

\* A Decision that finds its activity already cancelled gives its lease back.
\* The request keeps the generation and the process it was routed to.
TakeLease(t) ==
  LET b == backend[task[t].prof]
  IN  task' = [task EXCEPT ![t] =
                 IF task[t].decision /\ b.generation \in cancelled
                 THEN Idle
                 ELSE [task[t] EXCEPT !.pc = "infer", !.generation = b.generation,
                                      !.proc = b.running]]

Routable(b) == b.lifecycle = "Running" /\ ~b.retiring

\* try_fast_target, without the operation lock.
FastRoute(t) ==
  LET b == backend[task[t].prof]
  IN  /\ Routable(b)
      /\ b.version = task[t].version
      /\ task[t].role = "Primary" => session[task[t].sess] = task[t].prof

TryFastTarget(t) ==
  /\ At(t, "fast")
  /\ IF FastRoute(t) THEN TakeLease(t)
     ELSE IF ~JitEnabled /\ ~Present(task[t].prof)
     THEN task' = [task EXCEPT ![t] = Idle]
     ELSE GoTo(t, "wait")
  /\ UNCHANGED <<process, table, operation, retirement, todo, collected, job, cancelled,
                 monitor, shutting_down>>

\* Mutant: a session's primary is reclaimed like any other.
MUT_SessionPrimary(ss, q) == FALSE

SessionPrimary(ss, q) == \E s \in Sessions : ss[s] = q

\* The primary branch: the session's primary is replaced, and the previous
\* one evicted when it is JIT and no session has it.
AdmitPrimary(t) ==
  LET p == task[t].prof
      previous == session[task[t].sess]
      ss == [session EXCEPT ![task[t].sess] = p]
      evict == /\ previous \in Profiles \ {p}
               /\ Present(previous)
               /\ backend[previous].residency = "Jit"
               /\ ~SessionPrimary(ss, previous)
  IN  /\ At(t, "wait")
      /\ task[t].role = "Primary"
      /\ operation = Free
      /\ operation' = t
      /\ session' = ss
      /\ todo' = IF evict THEN {previous} ELSE {}
      /\ GoTo(t, IF evict THEN "evict" ELSE "match")
      /\ UNCHANGED <<process, version, backend, next_generation, retirement, collected, job,
                     cancelled, monitor, shutting_down>>

\* reclaim_idle_with_operation_held: sessions out of their TTL are forgotten,
\* then idle JIT backends that are no session's primary may be stopped. Which
\* of them are beyond their TTL, or in excess, is left open.
Reclaimable(ss, requested) ==
  {q \in Profiles :
     /\ backend[q].residency = "Jit"
     /\ \/ backend[q].lifecycle = "Running" /\ q # requested
        \/ backend[q].lifecycle = "Failed"
     /\ ActiveRequests(backend[q].generation) = {}
     /\ ~SessionPrimary(ss, q)}

Reclaim(t, requested) ==
  \E expired \in SUBSET Sessions :
    LET ss == [s \in Sessions |-> IF s \in expired THEN None ELSE session[s]]
    IN  /\ session' = ss
        /\ todo' \in SUBSET Reclaimable(ss, requested)
        /\ operation = Free
        /\ operation' = t
        /\ GoTo(t, "reclaim")
        /\ UNCHANGED <<process, version, backend, next_generation, retirement, collected, job,
                       cancelled, monitor, shutting_down>>

AdmitAuxiliary(t) ==
  /\ At(t, "wait")
  /\ task[t].role = "Auxiliary"
  /\ Reclaim(t, task[t].prof)

\* The reaper's tick: the loop checks shutting_down, reap_idle tries the lock.
ReapIdle ==
  /\ "reap" \in Events
  /\ At(Reaper, "idle")
  /\ ~shutting_down
  /\ Reclaim(Reaper, None)

ReclaimEnds(t) ==
  /\ At(t, "reclaim")
  /\ todo = {}
  /\ IF t = Reaper THEN Return(t) ELSE GoTo(t, "match") /\ UNCHANGED operation
  /\ UNCHANGED <<process, table, retirement, todo, collected, job, cancelled, monitor,
                 shutting_down>>

\* The `match existing' with the lock held.
MatchExisting(t) ==
  LET p == task[t].prof
      b == backend[p]
      compatible == b.version = task[t].version
  IN  /\ At(t, "match")
      /\ CASE b.lifecycle = "Running" /\ compatible ->
                GoTo(t, "acquire") /\ UNCHANGED <<operation, todo>>
           [] b.lifecycle = "Failed"
              \/ (b.lifecycle = "Running" /\ ~compatible /\ b.residency = "Jit") ->
                GoTo(t, "replace") /\ todo' = {p} /\ UNCHANGED operation
           [] b.lifecycle = "Absent" ->
                GoTo(t, "reserve") /\ UNCHANGED <<operation, todo>>
           [] OTHER -> Return(t) /\ UNCHANGED todo
      /\ UNCHANGED <<process, table, retirement, collected, job, cancelled, monitor,
                     shutting_down>>

\* acquire_target, under the lock from the match or taken again after a load.
AcquireTarget(t) ==
  /\ \/ At(t, "acquire")
     \/ At(t, "relock") /\ operation = Free
  /\ IF Routable(backend[task[t].prof]) THEN TakeLease(t)
     ELSE task' = [task EXCEPT ![t] = Idle]
  /\ operation' = Free
  /\ UNCHANGED <<process, table, retirement, todo, collected, job, cancelled, monitor,
                 shutting_down>>

\* A DecisionCancellationGuard that is still armed.
AbandonDecision(t) ==
  /\ cancelled' = cancelled \cup {task[t].generation}
  /\ job' = job \cup {DecisionGuard(task[t].prof, task[t].generation)}

\* The stream or answer ends and the lease is dropped. A Decision ends well,
\* or with an error, or because its activity is cancelled: then the guard is
\* armed.
InferenceEnds(t) ==
  /\ At(t, "infer")
  /\ task' = [task EXCEPT ![t] = Idle]
  /\ \/ UNCHANGED <<cancelled, job>>
     \/ task[t].decision /\ AbandonDecision(t)
  /\ UNCHANGED <<process, table, operation, retirement, todo, collected, monitor,
                 shutting_down>>

-----------------------------------------------------------------------------
(* A caller's future is dropped at an await.                               *)

\* Mutant: the lock waits for a caller that is gone.
MUT_DropOperation(t) ==
  IF operation # t THEN UNCHANGED <<operation, retirement, todo>>
  ELSE /\ todo' = {}
       /\ IF retirement.at \in {"drain", "killing"}
          THEN UNCHANGED <<operation, retirement>>
          ELSE operation' = Free /\ retirement' = NoRetirement

\* The lock goes to the retirement task if that is running.
DropOperation(t) ==
  IF operation # t THEN UNCHANGED <<operation, retirement, todo>>
  ELSE /\ todo' = {}
       /\ IF retirement.at \in {"drain", "killing"}
          THEN operation' = Retirement /\ UNCHANGED retirement
          ELSE operation' = Free /\ retirement' = NoRetirement

DropRequest(t) ==
  /\ task[t].pc # "idle"
  /\ task' = [task EXCEPT ![t] = Idle]
  /\ DropOperation(t)
  /\ CASE task[t].pc \in LoadPcs ->
            /\ job' = job \cup {JitGuard(task[t].prof, task[t].generation)}
            /\ UNCHANGED cancelled
       [] At(t, "infer") /\ task[t].decision -> AbandonDecision(t)
       [] OTHER -> UNCHANGED <<job, cancelled>>
  /\ UNCHANGED <<process, table, collected, monitor, shutting_down>>

\* Once handed off the load belongs to the manager.
DropLoader(t) ==
  /\ task[t].pc \notin {"idle"} \cup LoadPcs
  /\ task' = [task EXCEPT ![t] = Idle]
  /\ DropOperation(t)
  /\ UNCHANGED <<process, table, job, cancelled, collected, monitor, shutting_down>>

-----------------------------------------------------------------------------
(* unload and the guards' tasks.                                           *)

UnloadCalled(p) ==
  /\ "unload" \in Events
  /\ \A j \in job : j.kind = "unload" => j.prof # p   \* bound: one at a time
  /\ job' = job \cup {Unload(p)}
  /\ UNCHANGED <<process, table, operation, retirement, task, todo, collected, cancelled,
                 monitor, shutting_down>>

Becomes(j, k) == job' = (job \ {j}) \cup {k}

\* cancel_loading_generation applies to p: g = 0 is None.
Cancels(p, g) ==
  /\ backend[p].lifecycle = "Loading"
  /\ g \in {0, backend[p].generation}

MarkCancelled(p) ==
  backend' = [backend EXCEPT ![p].lifecycle = "Stopping", ![p].cancel_loading = TRUE]

\* The state part of the cancellation; the process is terminated next.
JobCancels(j) ==
  /\ j.at = "cancel"
  /\ IF Cancels(j.prof, j.generation)
     THEN /\ MarkCancelled(j.prof)
          /\ Becomes(j, [j EXCEPT !.at = IF backend[j.prof].loading = NoProcess
                                         THEN "lock" ELSE "kill",
                                  !.proc = backend[j.prof].loading])
     ELSE Becomes(j, [j EXCEPT !.at = "lock"]) /\ UNCHANGED backend
  /\ UNCHANGED <<process, version, session, next_generation, operation, retirement, task,
                 todo, collected, cancelled, monitor, shutting_down>>

JobSendsKill(j) ==
  /\ j.at = "kill"
  /\ ~process[j.proc].terminate
  /\ SendTerminate(j.proc)
  /\ UNCHANGED <<table, operation, retirement, task, todo, collected, job, cancelled, monitor,
                 shutting_down>>

\* Done, or failed: the error is only logged.
JobKilled(j) ==
  /\ j.at = "kill"
  /\ Exited(j.proc) \/ TerminateRefused(j.proc) \/ TerminateTimesOut(j.proc)
  /\ Becomes(j, [j EXCEPT !.at = "lock", !.proc = NoProcess])
  /\ UNCHANGED <<process, table, operation, retirement, task, todo, collected, cancelled,
                 monitor, shutting_down>>

\* Mutant: whatever backend the profile has now is stopped.
MUT_Owns(j) == Present(j.prof)

\* What the task checks once it has the lock.
Owns(j) ==
  LET b == backend[j.prof]
  IN  /\ Present(j.prof)
      /\ j.kind = "jit" => b.generation = j.generation /\ b.lifecycle = "Stopping"
      /\ j.kind = "decision" => b.generation = j.generation /\ ~b.retiring

\* The lock, the check and the stop, whose result nobody needs.
JobStops(j) ==
  /\ j.at = "lock"
  /\ operation = Free
  /\ job' = job \ {j}
  /\ IF Owns(j) THEN MarkStopping(j.prof) /\ operation' = Retirement
     ELSE UNCHANGED <<backend, cancelled, retirement, operation>>
  /\ UNCHANGED <<process, version, session, next_generation, task, todo, collected, monitor,
                 shutting_down>>

-----------------------------------------------------------------------------
(* shutdown.                                                               *)

ShutdownCalled ==
  /\ "shutdown" \in Events
  /\ At(Closer, "idle")
  /\ shutting_down' = TRUE
  /\ GoTo(Closer, "snapshot")
  /\ UNCHANGED <<process, table, operation, retirement, todo, collected, job, cancelled,
                 monitor>>

\* Mutant: only the loads are collected.
MUT_ShutdownCollects ==
  /\ At(Closer, "snapshot")
  /\ task' = [task EXCEPT ![Reaper] = Idle, ![Closer].pc = "cancel"]
  /\ DropOperation(Reaper)
  /\ snapshot' = {p \in Profiles : backend[p].lifecycle = "Loading"}
  /\ uncancelled' = snapshot'
  /\ UNCHANGED <<process, table, job, cancelled, monitor, shutting_down>>

\* The reaper is aborted, then the profiles are collected.
ShutdownCollects ==
  /\ At(Closer, "snapshot")
  /\ task' = [task EXCEPT ![Reaper] = Idle, ![Closer].pc = "cancel"]
  /\ DropOperation(Reaper)
  /\ snapshot' = {p \in Profiles : Present(p)}
  /\ uncancelled' = snapshot'
  /\ UNCHANGED <<process, table, job, cancelled, monitor, shutting_down>>

\* cancel_loading for each profile.
ShutdownCancels(p) ==
  /\ At(Closer, "cancel")
  /\ p \in uncancelled
  /\ uncancelled' = uncancelled \ {p}
  /\ IF Cancels(p, 0)
     THEN /\ MarkCancelled(p)
          /\ task' = [task EXCEPT ![Closer].proc = backend[p].loading,
                                  ![Closer].pc = IF backend[p].loading = NoProcess
                                                 THEN "cancel" ELSE "cancelling"]
     ELSE UNCHANGED <<backend, task>>
  /\ UNCHANGED <<process, version, session, next_generation, operation, retirement, todo,
                 snapshot, job, cancelled, monitor, shutting_down>>

ShutdownKills ==
  /\ At(Closer, "cancelling")
  /\ LET x == task[Closer].proc
     IN  \/ /\ ~process[x].terminate
            /\ SendTerminate(x)
            /\ UNCHANGED task
         \/ /\ Exited(x) \/ TerminateRefused(x) \/ TerminateTimesOut(x)
            /\ task' = [task EXCEPT ![Closer].pc = "cancel", ![Closer].proc = NoProcess]
            /\ UNCHANGED process
  /\ UNCHANGED <<table, operation, retirement, todo, collected, job, cancelled, monitor,
                 shutting_down>>

ShutdownLocks ==
  /\ At(Closer, "cancel")
  /\ uncancelled = {}
  /\ operation = Free
  /\ operation' = Closer
  /\ todo' = snapshot
  /\ GoTo(Closer, "stop")
  /\ UNCHANGED <<process, table, retirement, collected, job, cancelled, monitor, shutting_down>>

\* All profiles stopped: the supervisor terminates what it still tracks.
ShutdownSupervisor ==
  /\ \/ /\ At(Closer, "stop")
        /\ todo = {}
        /\ SupervisorShutdownBegins
        /\ GoTo(Closer, "draining")
        /\ UNCHANGED operation
     \/ /\ At(Closer, "draining")
        /\ SupervisorShutdownEnds
        /\ task' = [task EXCEPT ![Closer] = [Idle EXCEPT !.pc = "done"]]
        /\ operation' = Free
  /\ UNCHANGED <<table, retirement, todo, collected, job, cancelled, monitor, shutting_down>>

-----------------------------------------------------------------------------
(* The environment and the exit monitors.                                  *)

EditProfile(p) ==
  /\ version[p] < MaxEdits
  /\ version' = [version EXCEPT ![p] = @ + 1]
  /\ UNCHANGED <<process, backend, session, next_generation, operation, retirement, task,
                 todo, collected, job, cancelled, monitor, shutting_down>>

Child(x) ==
  /\ ChildTerminated(x) \/ ("crash" \in Events /\ ChildExits(x))
  /\ UNCHANGED <<table, operation, retirement, task, todo, collected, job, cancelled, monitor,
                 shutting_down>>

\* handle_unexpected_exit's guard.
ExitConcerns(x) ==
  LET b == backend[monitor[x].prof]
  IN  /\ b.generation = monitor[x].generation
      /\ b.lifecycle = "Running"
      /\ b.running = x

ExitMonitor(x) ==
  /\ monitor[x] # NoMonitor
  /\ Exited(x)
  /\ monitor' = [monitor EXCEPT ![x] = NoMonitor]
  /\ IF process[x].status = "crashed" /\ ExitConcerns(x)
     THEN backend' = [backend EXCEPT ![monitor[x].prof].lifecycle = "Failed",
                                     ![monitor[x].prof].running = NoProcess,
                                     ![monitor[x].prof].lease = FALSE]
     ELSE UNCHANGED backend
  /\ UNCHANGED <<process, version, session, next_generation, operation, retirement, task,
                 todo, collected, job, cancelled, shutting_down>>

-----------------------------------------------------------------------------
(* The whole system.                                                       *)

HolderStep(t) ==
  \/ \E q \in Profiles : StopBegins(t, q)
  \/ StopReturns(t)

LoaderStep(t) ==
  \/ \E p \in Profiles : AdmitLoad(t, p)
  \/ \E override \in BOOLEAN : MatchLoad(t, override)

RequestStep(t) ==
  \/ \E p \in Profiles, s \in Sessions, role \in {"Primary", "Auxiliary"},
        decision \in Decisions : InferenceTarget(t, p, s, role, decision)
  \/ TryFastTarget(t)
  \/ AdmitPrimary(t)
  \/ AdmitAuxiliary(t)
  \/ ReclaimEnds(t)
  \/ MatchExisting(t)
  \/ AcquireTarget(t)
  \/ InferenceEnds(t)

JobStep(j) == JobCancels(j) \/ JobSendsKill(j) \/ JobKilled(j) \/ JobStops(j)

CloserStep ==
  \/ ShutdownCalled
  \/ ShutdownCollects
  \/ \E p \in Profiles : ShutdownCancels(p)
  \/ ShutdownKills
  \/ ShutdownLocks
  \/ ShutdownSupervisor

RetirementStep == RetireSends \/ RetireFails \/ RetireCompletes

Next ==
  \/ \E t \in Tasks : HolderStep(t)
  \/ \E t \in Loaders \cup Requests : LoadStep(t)
  \/ \E t \in Loaders : LoaderStep(t)
  \/ \E t \in Requests : RequestStep(t)
  \/ \E t \in Droppable \cap Requests : DropRequest(t)
  \/ \E t \in Droppable \cap Loaders : DropLoader(t)
  \/ ReapIdle
  \/ ReclaimEnds(Reaper)
  \/ \E p \in Profiles : UnloadCalled(p)
  \/ \E j \in job : JobStep(j)
  \/ CloserStep
  \/ RetirementStep
  \/ \E p \in Profiles : EditProfile(p)
  \/ \E x \in Process : Child(x) \/ ExitMonitor(x)

Spec == Init /\ [][Next]_vars

(***************************************************************************)
(* Fairness: tokio polls every ready task, children that were signalled    *)
(* exit, requests end.  tokio::sync::Mutex is first come, first served, so *)
(* a task that keeps waiting for `operation' gets it: strong fairness.     *)
(***************************************************************************)
Fairness ==
  /\ \A t \in Loaders \cup Requests : WF_vars(HolderStep(t) \/ LoadStep(t))
  /\ \A t \in Loaders : WF_vars(\E override \in BOOLEAN : MatchLoad(t, override))
  /\ \A t \in Requests :
       /\ WF_vars(TryFastTarget(t) \/ ReclaimEnds(t) \/ MatchExisting(t) \/ InferenceEnds(t))
       /\ SF_vars(AdmitPrimary(t) \/ AdmitAuxiliary(t) \/ AcquireTarget(t))
  /\ WF_vars(HolderStep(Reaper) \/ ReclaimEnds(Reaper))
  /\ WF_vars(RetirementStep)
  /\ \A x \in Process : WF_vars(ChildTerminated(x) /\ Child(x))
  /\ \A p \in Profiles :
       /\ WF_vars(\E j \in job : j.prof = p /\ (JobCancels(j) \/ JobSendsKill(j) \/ JobKilled(j)))
       /\ SF_vars(\E j \in job : j.prof = p /\ JobStops(j))
  /\ WF_vars(HolderStep(Closer) \/ ShutdownCollects \/ ShutdownKills \/ ShutdownSupervisor
             \/ \E p \in Profiles : ShutdownCancels(p))
  /\ SF_vars(ShutdownLocks)

FairSpec == Spec /\ Fairness

-----------------------------------------------------------------------------
(* Properties.                                                             *)

(* Every variable stays in the range its declaration in the code gives it. *)
TypeOK ==
  /\ SupervisorTypeOK
  /\ version \in [Profiles -> 0..MaxEdits]
  /\ backend \in [Profiles -> Backend]
  /\ session \in [Sessions -> Profiles \cup {None}]
  /\ next_generation \in 0..MaxGenerations
  /\ operation \in Tasks \cup {Free, Retirement}
  /\ retirement \in [at : {"none", "drain", "killing", "ok", "err"},
                     prof : Profiles \cup {None}, generation : Generation \cup {0},
                     proc : Process \cup {NoProcess}]
  /\ task \in [Tasks -> Task]
  /\ todo \subseteq Profiles
  /\ snapshot \subseteq Profiles
  /\ uncancelled \subseteq Profiles
  /\ job \subseteq Job
  /\ cancelled \subseteq Generation \cup {0}
  /\ monitor \in [Process -> [prof : Profiles \cup {None}, generation : Generation \cup {0}]]
  /\ shutting_down \in BOOLEAN

(* A load in progress owns its table entry: whatever cancellations, guards,
   reclaims and shutdown do meanwhile, the entry of its profile keeps the
   load's generation and is Loading or Stopping (load_admitted's repeated
   generation checks never find somebody else's entry). *)
LoadOwnsGeneration ==
  \A t \in Tasks : task[t].pc \in LoadPcs =>
    /\ backend[task[t].prof].generation = task[t].generation
    /\ backend[task[t].prof].lifecycle \in {"Loading", "Stopping"}

(* No process is asked to terminate while a request holds a lease on the
   activity that runs on it: every stop drains first (wait_until_drained). *)
DrainBeforeTerminate ==
  \A t \in Requests : At(t, "infer") => ~process[task[t].proc].terminate

(* The backends that a reclaim or an eviction is about to stop are JIT and
   no session's primary, also when the first of several stops took long. *)
ReclaimSparesSessions ==
  \A t \in Tasks : task[t].pc \in {"evict", "evicting", "reclaim", "reclaiming"} =>
    \A q \in todo : /\ Present(q) => backend[q].residency = "Jit"
                    /\ \A s \in Sessions : session[s] # q

(* A backend that is being cancelled or stopped never shows up as Running:
   the load's commit loses against a cancellation that came first. *)
CancelledNeverRuns ==
  [][\A p \in Profiles : backend[p].lifecycle = "Stopping"
       => backend'[p].lifecycle # "Running"]_vars

(* A guard's task changes only the generation it was created for: "It must
   never cancel another request's later generation for the profile." *)
GuardSparesLaterLoads ==
  [][\A j \in job : j \notin job' /\ j.kind # "unload"
       => \/ backend'[j.prof] = backend[j.prof]
          \/ backend[j.prof].generation = j.generation]_vars

\* An entry whose load lost its caller.  The guard of the request that left has
\* still to cancel it; or a manual load's caller left before the load was handed
\* to its task, and nobody has it (manager.rs:1262): it has taken nothing yet.
Abandoned(p) ==
  LET b == backend[p]
  IN  \/ /\ Droppable \cap Requests # {}
         /\ \E j \in job : /\ j.kind = "jit" /\ j.at = "cancel"
                           /\ j.prof = p /\ j.generation = b.generation
      \/ /\ Droppable \cap Loaders # {}
         /\ b.residency = "Pinned" /\ ~b.lease
         /\ b.running = NoProcess /\ b.loading = NoProcess

(* When shutdown has returned no load is in progress, no backend is Running,
   none is Loading but one whose caller left its load behind, and every live
   process has been told to terminate. *)
ShutdownClean ==
  At(Closer, "done") =>
    /\ \A t \in Tasks : task[t].pc \notin LoadPcs
    /\ \A p \in Profiles : /\ backend[p].lifecycle # "Running"
                           /\ backend[p].lifecycle = "Loading" => Abandoned(p)
    /\ \A x \in Process : Live(x) => process[x].terminate

\* Somebody will stop the process: it is in the table, in the hands of the load
\* that spawned it, or told to terminate.
HasOwner(x) ==
  Live(x) /\ ~process[x].terminate =>
    \/ \E p \in Profiles : x \in {backend[p].running, backend[p].loading}
    \/ \E t \in Tasks : task[t].pc \in ProcPcs /\ task[t].proc = x

\* The caller leaves while its load has the process and the entry has not: the
\* guard looks for it in the entry (manager.rs:1726).
Forsaken(x) ==
  \E t \in Droppable \cap Requests :
    /\ task[t].pc \in {"spawned", "abort"} /\ task[t].proc = x
    /\ DropRequest(t)

(* A process never loses the one who will stop it: no failed load, retried
   attempt, timed-out or refused termination, crash, cancellation, stop or
   shutdown loses it, and a disconnect does only between a spawn and its
   registration. *)
ProcessHasOwner ==
  [][\A x \in Process : HasOwner(x) => HasOwner(x)' \/ Forsaken(x)]_vars

(* Every unload ends, whatever it has to cancel, drain and wait for. *)
UnloadEnds ==
  \A p \in Profiles : (\E j \in job : j.kind = "unload" /\ j.prof = p)
    ~> ~(\E j \in job : j.kind = "unload" /\ j.prof = p)

(* No backend stays Loading or Stopping. *)
BackendSettles ==
  \A p \in Profiles : backend[p].lifecycle \in {"Loading", "Stopping"}
    ~> backend[p].lifecycle \notin {"Loading", "Stopping"}

(* A shutdown that has begun ends. *)
ShutdownEnds == shutting_down ~> At(Closer, "done")
=============================================================================
