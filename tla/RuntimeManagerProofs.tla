------------------------- MODULE RuntimeManagerProofs -------------------------
(***************************************************************************)
(* For every set of profiles, sessions, callers and every bound: a load in *)
(* progress owns its table entry, reclaims and evictions spare the         *)
(* sessions' primaries, a cancelled load never becomes Running; no process *)
(* is told to terminate while a request runs on it, a shutdown leaves      *)
(* nothing Running and no process untold, a guard spares later loads, and, *)
(* while callers stay, every live process has somebody who will stop it.   *)
(*                                                                         *)
(* The first part is the discipline of the operation lock.  Whoever is at  *)
(* a point of HoldPcs has the lock, and while the retirement task runs the *)
(* lock is with it or with the caller that waits for it.  So the step of a *)
(* lock holder, or one that takes a free lock, meets no other holder       *)
(* (OthersKept), and only what the acting task itself claims is left to    *)
(* check.                                                                  *)
(***************************************************************************)
EXTENDS RuntimeManager, TLAPS


Callers == Loaders \cup Requests
OwnPcs == LoadPcs \cup {"handoff"}
SparePcs == {"evict", "evicting", "reclaim", "reclaiming"}
Holders == Tasks \cup {Free, Retirement}
Retirements == [at : {"none", "drain", "killing", "ok", "err"},
                prof : Profiles \cup {None}, generation : Generation \cup {0},
                proc : Process \cup {NoProcess}]

\* The types the argument needs.
CoreTypes ==
  /\ version \in [Profiles -> 0..MaxEdits]
  /\ backend \in [Profiles -> Backend]
  /\ session \in [Sessions -> Profiles \cup {None}]
  /\ next_generation \in 0..MaxGenerations
  /\ operation \in Holders
  /\ retirement \in Retirements
  /\ task \in [Tasks -> Task]
  /\ todo \subseteq Profiles
  /\ snapshot \subseteq Profiles
  /\ job \subseteq Job

\* What task t claims at its present point.  (The absent entry is Jit.)
Spares(t) ==
  task[t].pc \in SparePcs =>
    \A q \in todo : /\ backend[q].residency = "Jit"
                    /\ \A s \in Sessions : session[s] # q

Owning(t) ==
  task[t].pc \in OwnPcs =>
    /\ backend[task[t].prof].generation = task[t].generation
    /\ backend[task[t].prof].lifecycle \in {"Loading", "Stopping"}

Claims(t) ==
  /\ task[t].pc \in HoldPcs => operation = t
  /\ t \in Callers /\ task[t].pc # "idle" => task[t].prof \in Profiles
  /\ task[t].pc \in OwnPcs => t \in Callers
  /\ task[t].pc = "insert" => t \in Callers /\ next_generation < MaxGenerations
  /\ Owning(t)
  /\ Spares(t)

\* While a retirement is under way its caller waits, or is gone.
RetirementHeld ==
  retirement.at # "none" =>
    operation = Retirement \/ (operation \in Tasks /\ task[operation].pc \in StopPcs)

LockInv == CoreTypes /\ RetirementHeld /\ \A t \in Tasks : Claims(t)

\* What every step guarantees.
NoRevival == \A p \in Profiles :
  backend[p].lifecycle = "Stopping" => backend'[p].lifecycle # "Running"

Sound == LockInv' /\ NoRevival

-----------------------------------------------------------------------------
(* General facts.                                                          *)

\* The idle caller is a caller.
LEMMA IdleType == Idle \in Task
  BY ManagerAssumption DEF Idle, Task, Pcs, NoProcess

\* A move changes one caller's point and nothing else.
LEMMA GoToType ==
  ASSUME CoreTypes, NEW t \in Tasks, NEW pc \in Pcs, GoTo(t, pc)
  PROVE  /\ task' \in [Tasks -> Task]
         /\ task'[t].pc = pc
         /\ task'[t].prof = task[t].prof
         /\ task'[t].generation = task[t].generation
         /\ \A u \in Tasks \ {t} : task'[u] = task[u]
  BY DEF CoreTypes, GoTo, Task

\* A return makes the caller idle and frees a lock it has.
LEMMA ReturnType ==
  ASSUME CoreTypes, NEW t \in Tasks, Return(t)
  PROVE  /\ task' \in [Tasks -> Task]
         /\ operation' \in Holders
         /\ task'[t] = Idle
         /\ \A u \in Tasks \ {t} : task'[u] = task[u]
         /\ operation' = IF operation = t THEN Free ELSE operation
  BY IdleType DEF CoreTypes, Return, Holders

\* An idle task claims nothing.
LEMMA IdleClaims ==
  ASSUME NEW t \in Tasks, task'[t] = Idle
  PROVE  Claims(t)'
  BY DEF Idle, Claims, Owning, Spares, OwnPcs, SparePcs, HoldPcs, LoadPcs, StopPcs

\* A step of the lock holder, or of a task that takes the free lock, finds
\* no claim of another task that it could disturb.
LEMMA OthersKept ==
  ASSUME LockInv, NEW u \in Tasks, operation \in {u, Free}
  PROVE  \A t \in Tasks \ {u} : task'[t] = task[t] => Claims(t)'
<1> SUFFICES ASSUME NEW t \in Tasks \ {u}, task'[t] = task[t] PROVE Claims(t)' OBVIOUS
<1>1. task[t].pc \notin HoldPcs
  BY ManagerAssumption DEF LockInv, Claims
<1>2. /\ task[t].pc \notin OwnPcs
      /\ task[t].pc \notin SparePcs
      /\ task[t].pc # "insert"
  BY <1>1 DEF OwnPcs, SparePcs, HoldPcs, StopPcs
<1> QED BY <1>1, <1>2 DEF LockInv, Claims, Owning, Spares

\* Such a step is sound if the acting task's own claims are.
LEMMA HolderSound ==
  ASSUME LockInv, NEW u \in Tasks, operation \in {u, Free},
         \A t \in Tasks \ {u} : task'[t] = task[t],
         CoreTypes', Claims(u)', RetirementHeld', NoRevival
  PROVE  Sound
<1>1. \A t \in Tasks \ {u} : Claims(t)' BY OthersKept
<1> QED BY <1>1 DEF Sound, LockInv

\* A step that leaves every lock holder, the lock and the reclaim list alone,
\* and changes no entry in a way that a claim could notice.
LEMMA OutsideSound ==
  ASSUME LockInv, CoreTypes',
         UNCHANGED <<session, next_generation, operation, retirement, todo>>,
         \A t \in Tasks :
           \/ task'[t] = task[t]
           \/ /\ task[t].pc \notin HoldPcs
              /\ task'[t].pc \notin HoldPcs
              /\ t \in Callers /\ task'[t].pc # "idle" => task'[t].prof \in Profiles,
         \A q \in Profiles :
           /\ backend'[q].generation = backend[q].generation
           /\ backend'[q].residency = backend[q].residency
           /\ backend[q].lifecycle \in {"Loading", "Stopping"}
                => backend'[q].lifecycle \in {"Loading", "Stopping"}
  PROVE  Sound
<1>1. NoRevival BY DEF NoRevival
<1>2. RetirementHeld'
  <2> SUFFICES ASSUME retirement.at # "none", operation # Retirement
               PROVE  operation \in Tasks /\ task'[operation].pc \in StopPcs
    BY DEF RetirementHeld
  <2>1. operation \in Tasks /\ task[operation].pc \in StopPcs
    BY DEF LockInv, RetirementHeld
  <2>2. task[operation].pc \in HoldPcs BY <2>1 DEF HoldPcs
  <2> QED BY <2>1, <2>2
<1>3. ASSUME NEW t \in Tasks PROVE Claims(t)'
  <2>1. CASE task'[t] = task[t]
    <3>1. Claims(t) BY DEF LockInv
    <3>2. Owning(t)'
      <4> SUFFICES ASSUME task[t].pc \in OwnPcs PROVE Owning(t)' BY <2>1 DEF Owning
      <4>1. t \in Callers /\ task[t].pc # "idle"
        BY <3>1 DEF Claims, OwnPcs, LoadPcs
      <4>2. task[t].prof \in Profiles BY <3>1, <4>1 DEF Claims
      <4> QED BY <2>1, <3>1, <4>2 DEF Claims, Owning
    <3>3. Spares(t)'
      <4> SUFFICES ASSUME task[t].pc \in SparePcs, NEW q \in todo
                   PROVE  /\ backend'[q].residency = "Jit"
                          /\ \A s \in Sessions : session[s] # q
        BY <2>1 DEF Spares
      <4>1. q \in Profiles BY DEF LockInv, CoreTypes
      <4> QED BY <3>1, <4>1 DEF Claims, Spares
    <3> QED BY <2>1, <3>1, <3>2, <3>3 DEF Claims
  <2>2. CASE task'[t] # task[t]
    <3>1. /\ task'[t].pc \notin HoldPcs
          /\ t \in Callers /\ task'[t].pc # "idle" => task'[t].prof \in Profiles
      BY <2>2
    <3>2. /\ task'[t].pc \notin OwnPcs
          /\ task'[t].pc \notin SparePcs
          /\ task'[t].pc # "insert"
      BY <3>1 DEF OwnPcs, SparePcs, HoldPcs, StopPcs
    <3> QED BY <3>1, <3>2 DEF Claims, Owning, Spares
  <2> QED BY <2>1, <2>2
<1> QED BY <1>1, <1>2, <1>3 DEF Sound, LockInv

\* No retirement runs while the holder is not waiting for it.
LEMMA NoRetirementHeld ==
  ASSUME LockInv, operation = Free \/ (operation \in Tasks /\ task[operation].pc \notin StopPcs)
  PROVE  retirement.at = "none"
  BY ManagerAssumption DEF LockInv, RetirementHeld

\* A holder, old or new, that goes on with the lock.
LEMMA HolderMoves ==
  ASSUME LockInv, NEW t \in Tasks, operation \in {t, Free}, CoreTypes', NoRevival,
         \A u \in Tasks \ {t} : task'[u] = task[u],
         operation' = t,
         task'[t].pc \notin OwnPcs \cup {"insert"},
         t \in Callers => task'[t].prof \in Profiles,
         Spares(t)',
         retirement'.at = "none" \/ task'[t].pc \in StopPcs
  PROVE  Sound
<1>1. Claims(t)' BY DEF Claims, Owning
<1>2. RetirementHeld' BY DEF RetirementHeld
<1> QED BY <1>1, <1>2, HolderSound

\* A task that is left, or stays, without the lock.
LEMMA ReleaseSound ==
  ASSUME LockInv, NEW t \in Tasks, operation \in {t, Free}, CoreTypes', NoRevival,
         \A u \in Tasks \ {t} : task'[u] = task[u],
         task'[t].pc \notin HoldPcs,
         t \in Callers /\ task'[t].pc # "idle" => task'[t].prof \in Profiles,
         retirement'.at = "none" \/ operation' = Retirement
  PROVE  Sound
<1>1. /\ task'[t].pc \notin OwnPcs
      /\ task'[t].pc \notin SparePcs
      /\ task'[t].pc # "insert"
  BY DEF OwnPcs, SparePcs, HoldPcs, StopPcs
<1>2. Claims(t)' BY <1>1 DEF Claims, Owning, Spares
<1>3. RetirementHeld' BY DEF RetirementHeld
<1> QED BY <1>2, <1>3, HolderSound

-----------------------------------------------------------------------------
(* Loads.                                                                  *)

\* A load that moves on, with its entry's generation and lifecycle kept.
LEMMA LoadGoesOn ==
  ASSUME LockInv, NEW t \in Tasks, task[t].pc \in OwnPcs, CoreTypes',
         task'[t].pc \in LoadPcs,
         task'[t].prof = task[t].prof,
         task'[t].generation = task[t].generation,
         \A u \in Tasks \ {t} : task'[u] = task[u],
         UNCHANGED <<next_generation, operation, retirement>>,
         \A q \in Profiles : /\ backend'[q].generation = backend[q].generation
                             /\ backend'[q].lifecycle = backend[q].lifecycle
  PROVE  Sound
<1>1. operation = t /\ t \in Callers /\ task[t].prof \in Profiles
  BY DEF LockInv, Claims, OwnPcs, HoldPcs, LoadPcs
<1>2. /\ task'[t].pc \in OwnPcs
      /\ task'[t].pc \notin SparePcs
      /\ task'[t].pc \notin {"insert", "idle"}
  BY DEF SparePcs, LoadPcs, OwnPcs
<1>3. Claims(t)'
  BY <1>1, <1>2 DEF LockInv, Claims, Owning, Spares
<1>4. retirement.at = "none"
  BY <1>1, NoRetirementHeld DEF OwnPcs, LoadPcs, StopPcs
<1>5. RetirementHeld' BY <1>4 DEF RetirementHeld
<1>6. NoRevival BY DEF NoRevival
<1> QED BY <1>1, <1>3, <1>5, <1>6, HolderSound

\* A caller that returns with the lock in hand.
LEMMA ReturnSound ==
  ASSUME LockInv, NEW t \in Tasks, operation = t, task[t].pc \notin StopPcs, Return(t),
         UNCHANGED <<version, session, next_generation, retirement, snapshot>>,
         todo' \subseteq Profiles, job' \subseteq Job,
         backend' \in [Profiles -> Backend], NoRevival
  PROVE  Sound
<1>1. /\ task' \in [Tasks -> Task]
      /\ operation' \in Holders
      /\ task'[t] = Idle
      /\ \A u \in Tasks \ {t} : task'[u] = task[u]
  BY ReturnType DEF LockInv
<1>2. Claims(t)' BY <1>1, IdleClaims
<1>3. retirement.at = "none" BY NoRetirementHeld
<1>4. CoreTypes' BY <1>1 DEF LockInv, CoreTypes
<1>5. RetirementHeld' BY <1>3 DEF RetirementHeld
<1> QED BY <1>1, <1>2, <1>4, <1>5, HolderSound

\* reserve_loading's check.
LEMMA ReserveSound ==
  ASSUME LockInv, NEW t \in Callers, Reserve(t)
  PROVE  Sound
<1>1. t \in Tasks /\ operation = t /\ task[t].pc = "reserve" /\ task[t].prof \in Profiles
  BY DEF LockInv, Claims, Reserve, At, HoldPcs, Tasks, Callers
<1>2. CASE ~MayReserve(t)
  <2>1. Return(t) BY <1>2 DEF Reserve
  <2>2. UNCHANGED <<version, backend, session, next_generation, retirement, snapshot, todo, job>>
    BY DEF Reserve, table, collected
  <2>3. /\ todo' \subseteq Profiles /\ job' \subseteq Job
        /\ backend' \in [Profiles -> Backend] /\ NoRevival
    BY <2>2 DEF LockInv, CoreTypes, NoRevival
  <2>4. task[t].pc \notin StopPcs BY <1>1 DEF StopPcs
  <2> QED BY <1>1, <2>1, <2>2, <2>3, <2>4, ReturnSound
<1>3. CASE MayReserve(t)
  <2>1. GoTo(t, "insert") BY <1>3 DEF Reserve
  <2>2. UNCHANGED <<version, backend, session, next_generation, retirement, snapshot, todo,
                    operation, job>>
    BY <1>3 DEF Reserve, table, collected
  <2>3. "insert" \in Pcs BY DEF Pcs, HoldPcs
  <2>4. /\ task' \in [Tasks -> Task]
        /\ task'[t].pc = "insert"
        /\ task'[t].prof = task[t].prof
        /\ \A u \in Tasks \ {t} : task'[u] = task[u]
    BY <1>1, <2>1, <2>3, GoToType DEF LockInv
  <2>6. Claims(t)'
    BY <1>1, <1>3, <2>2, <2>4
    DEF Claims, Owning, Spares, OwnPcs, SparePcs, LoadPcs, MayReserve
  <2>7. CoreTypes' BY <2>2, <2>4 DEF LockInv, CoreTypes
  <2>8. RetirementHeld'
    BY <1>1, <2>2, NoRetirementHeld DEF RetirementHeld, StopPcs
  <2>9. NoRevival BY <2>2 DEF NoRevival
  <2> QED BY <1>1, <2>4, <2>6, <2>7, <2>8, <2>9, HolderSound
<1> QED BY <1>2, <1>3

\* reserve_loading's insertion: the load owns the new entry.
LEMMA InsertSound ==
  ASSUME LockInv, NEW t \in Callers, Insert(t)
  PROVE  Sound
<1> DEFINE p == task[t].prof
           g == next_generation + 1
           b == [NoBackend EXCEPT !.lifecycle = "Loading", !.residency = Residency(t),
                                  !.generation = g]
           pc == IF t \in Requests THEN "begin" ELSE "handoff"
<1>1. /\ t \in Tasks /\ operation = t /\ task[t].pc = "insert" /\ p \in Profiles
      /\ next_generation < MaxGenerations
  BY DEF LockInv, Claims, Insert, At, HoldPcs, Tasks, Callers
<1>2. g \in Generation /\ g \in 0..MaxGenerations
  BY <1>1, ManagerAssumption DEF LockInv, CoreTypes, Generation
<1>3. 0 \in 0..MaxEdits BY ManagerAssumption
<1>4. b \in Backend /\ b.generation = g /\ b.lifecycle = "Loading"
  BY <1>2, <1>3 DEF NoBackend, Backend, Residency, NoProcess
<1>5. /\ backend' = [backend EXCEPT ![p] = b]
      /\ task' = [task EXCEPT ![t].generation = g, ![t].pc = pc]
      /\ next_generation' = g
      /\ UNCHANGED <<version, session, operation, retirement, todo, snapshot, job>>
  BY DEF Insert, collected
<1>6. pc \in OwnPcs /\ pc \in Pcs /\ pc \in HoldPcs /\ pc \notin SparePcs /\ pc # "insert"
  BY DEF OwnPcs, LoadPcs, Pcs, HoldPcs, SparePcs
<1> HIDE DEF b, g, pc, p
<1>7. /\ task' \in [Tasks -> Task]
      /\ task'[t].pc = pc
      /\ task'[t].prof = task[t].prof
      /\ task'[t].generation = g
      /\ \A u \in Tasks \ {t} : task'[u] = task[u]
  BY <1>1, <1>2, <1>5, <1>6 DEF LockInv, CoreTypes, Task
<1>8. backend' \in [Profiles -> Backend] /\ backend'[p] = b
  BY <1>1, <1>4, <1>5 DEF LockInv, CoreTypes
<1>10. Claims(t)'
  BY <1>1, <1>4, <1>5, <1>6, <1>7, <1>8 DEF Claims, Owning, Spares, p
<1>11. CoreTypes' BY <1>2, <1>5, <1>7, <1>8 DEF LockInv, CoreTypes
<1>12. RetirementHeld'
  BY <1>1, <1>5, NoRetirementHeld DEF RetirementHeld, StopPcs
<1>13. NoRevival
  <2> SUFFICES ASSUME NEW q \in Profiles PROVE backend[q].lifecycle = "Stopping" => backend'[q].lifecycle # "Running"
    BY DEF NoRevival
  <2>1. CASE q = p BY <1>4, <1>8, <2>1
  <2>2. CASE q # p BY <1>5, <2>2 DEF LockInv, CoreTypes
  <2> QED BY <2>1, <2>2
<1> QED BY <1>1, <1>7, <1>10, <1>11, <1>12, <1>13, HolderSound

\* fail_loading: the entry becomes Failed, the lock is released.
LEMMA FailSound ==
  ASSUME LockInv, NEW t \in Callers, task[t].pc \in LoadPcs,
         NEW x \in Process \cup {NoProcess}, FailLoading(t, x)
  PROVE  Sound
<1>1. t \in Tasks /\ operation = t /\ task[t].pc \notin StopPcs
  BY DEF LockInv, Claims, HoldPcs, LoadPcs, StopPcs, Tasks, Callers
<1>2. ASSUME NEW b \in Backend
      PROVE  [b EXCEPT !.lifecycle = "Failed", !.running = NoProcess, !.loading = x,
                       !.lease = b.lease /\ x # NoProcess, !.cancel_loading = FALSE] \in Backend
  BY DEF Backend
<1>3. MarkFailed(task[t].generation, x) /\ Return(t)
      /\ UNCHANGED <<version, session, next_generation, retirement, todo, snapshot>>
  BY DEF FailLoading, collected
<1>4. backend' \in [Profiles -> Backend]
  BY <1>2, <1>3 DEF MarkFailed, LockInv, CoreTypes
<1>5. NoRevival
  BY <1>3 DEF MarkFailed, NoRevival, LockInv, CoreTypes, Backend
<1>6. todo' \subseteq Profiles BY <1>3 DEF LockInv, CoreTypes
<1>7. task[t].prof \in Profiles /\ task[t].generation \in Generation \cup {0}
  BY <1>1 DEF LockInv, Claims, CoreTypes, Task, LoadPcs
<1>8. JitGuard(task[t].prof, task[t].generation) \in Job
  BY <1>7 DEF JitGuard, Job
<1>9. job' \subseteq Job BY <1>8 DEF FailLoading, LockInv, CoreTypes
<1> QED BY <1>1, <1>3, <1>4, <1>5, <1>6, <1>9, ReturnSound

\* The error returns of load_admitted.
LEMMA LoadFailsSound ==
  ASSUME LockInv, NEW t \in Callers,
         LoadFails(t) \/ KillFails(t) \/ AbortEnds(t)
  PROVE  Sound
<1>1. t \in Tasks BY DEF Tasks, Callers
<1>2. task[t].proc \in Process \cup {NoProcess}
  BY <1>1 DEF LockInv, CoreTypes, Task
<1>3. CASE LoadFails(t)
  BY <1>3, FailSound DEF LoadFails, LoadPcs
<1>4. CASE KillFails(t)
  BY <1>2, <1>4, FailSound DEF KillFails, LoadPcs
<1>5. CASE AbortEnds(t)
  BY <1>5, FailSound DEF AbortEnds, Killed, At, LoadPcs
<1> QED BY <1>3, <1>4, <1>5

\* The steps of load_admitted that leave the table alone.
LEMMA LoadMovesSound ==
  ASSUME LockInv, NEW t \in Callers,
         HandOff(t) \/ BeginLoad(t) \/ PrepareLaunch(t) \/ AwaitStartup(t) \/ KillSent(t)
           \/ CommitRefused(t)
  PROVE  Sound
<1>1. t \in Tasks BY DEF Tasks, Callers
<1>2. task[t].pc \in OwnPcs
  BY DEF HandOff, BeginLoad, PrepareLaunch, AwaitStartup, KillSent, CommitRefused, At, OwnPcs,
         LoadPcs
<1>3. PICK pc \in LoadPcs : GoTo(t, pc)
  BY DEF HandOff, BeginLoad, PrepareLaunch, AwaitStartup, KillSent, CommitRefused, LoadPcs
<1>4. UNCHANGED <<version, backend, session, next_generation, operation, retirement, todo,
                  snapshot, job>>
  BY DEF HandOff, BeginLoad, PrepareLaunch, AwaitStartup, KillSent, CommitRefused, table,
         collected
<1>5. pc \in Pcs BY DEF Pcs, HoldPcs
<1>6. /\ task' \in [Tasks -> Task]
      /\ task'[t].pc = pc
      /\ task'[t].prof = task[t].prof
      /\ task'[t].generation = task[t].generation
      /\ \A u \in Tasks \ {t} : task'[u] = task[u]
  BY <1>1, <1>3, <1>5, GoToType DEF LockInv
<1>7. CoreTypes' BY <1>4, <1>6 DEF LockInv, CoreTypes
<1> QED BY <1>1, <1>2, <1>4, <1>6, <1>7, LoadGoesOn

\* The steps that write the load's own fields of its entry.
LEMMA LoadWritesSound ==
  ASSUME LockInv, NEW t \in Callers,
         StoreLease(t) \/ SpawnBackend(t) \/ RegisterProcess(t) \/ RetryLaunch(t)
  PROVE  Sound
<1> DEFINE p == task[t].prof
<1>1. t \in Tasks BY DEF Tasks, Callers
<1>2. task[t].pc \in LoadPcs
  BY DEF StoreLease, SpawnBackend, RegisterProcess, RetryLaunch, Killed, At, LoadPcs
<1>3. task[t].pc \in OwnPcs BY <1>2 DEF OwnPcs
<1>4. /\ p \in Profiles
      /\ task[t] \in Task
      /\ backend[p] \in Backend
  BY <1>1, <1>2 DEF LockInv, Claims, CoreTypes, LoadPcs
<1>5. CASE StoreLease(t)
  <2>1. /\ backend' = [backend EXCEPT ![p].lease = TRUE]
        /\ GoTo(t, "launch")
        /\ UNCHANGED <<version, session, next_generation, operation, retirement, todo,
                       snapshot, job>>
    BY <1>5 DEF StoreLease, collected
  <2>2. "launch" \in Pcs /\ "launch" \in LoadPcs BY DEF Pcs, HoldPcs, LoadPcs
  <2>3. /\ task' \in [Tasks -> Task]
        /\ task'[t].pc = "launch"
        /\ task'[t].prof = task[t].prof
        /\ task'[t].generation = task[t].generation
        /\ \A u \in Tasks \ {t} : task'[u] = task[u]
    BY <1>1, <2>1, <2>2, GoToType DEF LockInv
  <2>4. backend' \in [Profiles -> Backend]
    BY <1>4, <2>1 DEF LockInv, CoreTypes, Backend
  <2>5. \A q \in Profiles : /\ backend'[q].generation = backend[q].generation
                           /\ backend'[q].lifecycle = backend[q].lifecycle
    BY <1>4, <2>1 DEF LockInv, CoreTypes, Backend
  <2>6. CoreTypes' BY <2>1, <2>3, <2>4 DEF LockInv, CoreTypes
  <2> QED BY <1>1, <1>3, <2>1, <2>2, <2>3, <2>5, <2>6, LoadGoesOn
<1>6. CASE SpawnBackend(t)
  <2>1. PICK x \in Process : task' = [task EXCEPT ![t].pc = "spawned", ![t].proc = x]
    BY <1>6 DEF SpawnBackend
  <2>2. UNCHANGED <<version, backend, session, next_generation, operation, retirement, todo,
                    snapshot, job>>
    BY <1>6 DEF SpawnBackend, table, collected
  <2>3. "spawned" \in Pcs /\ "spawned" \in LoadPcs BY DEF Pcs, HoldPcs, LoadPcs
  <2>4. /\ task' \in [Tasks -> Task]
        /\ task'[t].pc = "spawned"
        /\ task'[t].prof = task[t].prof
        /\ task'[t].generation = task[t].generation
        /\ \A u \in Tasks \ {t} : task'[u] = task[u]
    BY <1>1, <2>1, <2>3, ZenonT(60) DEF LockInv, CoreTypes, Task
  <2>5. CoreTypes' BY <2>2, <2>4 DEF LockInv, CoreTypes
  <2> QED BY <1>1, <1>3, <2>2, <2>3, <2>4, <2>5, LoadGoesOn
<1>7. CASE RegisterProcess(t)
  <2>1. PICK pc \in {"starting", "abort"} : GoTo(t, pc)
    BY <1>7 DEF RegisterProcess
  <2>2. UNCHANGED <<version, session, next_generation, operation, retirement, todo,
                    snapshot, job>>
    BY <1>7 DEF RegisterProcess, collected
  <2>3. pc \in Pcs /\ pc \in LoadPcs BY DEF Pcs, HoldPcs, LoadPcs
  <2>4. /\ task' \in [Tasks -> Task]
        /\ task'[t].pc = pc
        /\ task'[t].prof = task[t].prof
        /\ task'[t].generation = task[t].generation
        /\ \A u \in Tasks \ {t} : task'[u] = task[u]
    BY <1>1, <2>1, <2>3, GoToType DEF LockInv
  <2>5. \/ backend' = [backend EXCEPT ![p].loading = task[t].proc, ![p].version = task[t].version]
        \/ backend' = backend
    BY <1>7 DEF RegisterProcess
  <2>6. task[t].proc \in Process \cup {NoProcess} /\ task[t].version \in 0..MaxEdits
    BY <1>4 DEF Task
  <2>7. backend' \in [Profiles -> Backend]
    BY <1>4, <2>5, <2>6 DEF LockInv, CoreTypes, Backend
  <2>8. \A q \in Profiles : /\ backend'[q].generation = backend[q].generation
                           /\ backend'[q].lifecycle = backend[q].lifecycle
    BY <1>4, <2>5 DEF LockInv, CoreTypes, Backend
  <2>9. CoreTypes' BY <2>2, <2>4, <2>7 DEF LockInv, CoreTypes
  <2> QED BY <1>1, <1>3, <2>2, <2>3, <2>4, <2>8, <2>9, LoadGoesOn
<1>8. CASE RetryLaunch(t)
  <2>1. CASE FailLoading(t, NoProcess) BY <1>2, <2>1, FailSound
  <2>2. CASE ~FailLoading(t, NoProcess)
    <3>1. /\ backend' = [backend EXCEPT ![p].loading = NoProcess]
          /\ task' = [task EXCEPT ![t].pc = "launch", ![t].proc = NoProcess]
          /\ UNCHANGED <<version, session, next_generation, operation, retirement, todo,
                         snapshot, job>>
      BY <1>8, <2>2 DEF RetryLaunch, collected
    <3>2. "launch" \in Pcs /\ "launch" \in LoadPcs BY DEF Pcs, HoldPcs, LoadPcs
    <3>3. /\ task' \in [Tasks -> Task]
          /\ task'[t].pc = "launch"
          /\ task'[t].prof = task[t].prof
          /\ task'[t].generation = task[t].generation
          /\ \A u \in Tasks \ {t} : task'[u] = task[u]
      BY <1>1, <3>1, <3>2, ZenonT(60) DEF LockInv, CoreTypes, Task
    <3>4. backend' \in [Profiles -> Backend]
      BY <1>4, <3>1 DEF LockInv, CoreTypes, Backend
    <3>5. \A q \in Profiles : /\ backend'[q].generation = backend[q].generation
                             /\ backend'[q].lifecycle = backend[q].lifecycle
      BY <1>4, <3>1 DEF LockInv, CoreTypes, Backend
    <3>6. CoreTypes' BY <3>1, <3>3, <3>4 DEF LockInv, CoreTypes
    <3> QED BY <1>1, <1>3, <3>1, <3>2, <3>3, <3>5, <3>6, LoadGoesOn
  <2> QED BY <2>1, <2>2
<1> QED BY <1>5, <1>6, <1>7, <1>8

\* The commit: the one step that makes an entry Running, and it finds the
\* entry Loading.
LEMMA CommitSound ==
  ASSUME LockInv, NEW t \in Callers, CommitLoad(t)
  PROVE  Sound
<1> DEFINE p == task[t].prof
           b == [backend[p] EXCEPT !.lifecycle = "Running", !.running = task[t].proc,
                                   !.loading = NoProcess, !.cancel_loading = FALSE,
                                   !.residency = Residency(t)]
           r == IF t \in Requests
                THEN [task[t] EXCEPT !.pc = "relock", !.proc = NoProcess, !.generation = 0]
                ELSE Idle
<1>1. /\ t \in Tasks /\ operation = t /\ p \in Profiles /\ task[t].pc = "commit"
      /\ task[t] \in Task /\ backend[p] \in Backend
      /\ backend[p].lifecycle = "Loading"
  BY DEF LockInv, Claims, CoreTypes, CommitLoad, MayCommit, At, HoldPcs, LoadPcs, Tasks, Callers
<1>2. /\ backend' = [backend EXCEPT ![p] = b]
      /\ task' = [task EXCEPT ![t] = r]
      /\ operation' = Free
      /\ UNCHANGED <<version, session, next_generation, retirement, todo, snapshot, job>>
  BY <1>1 DEF CommitLoad, collected, LockInv, CoreTypes, Backend
<1>3. b \in Backend
  BY <1>1, ZenonT(60) DEF Backend, Task, Residency
<1>4. r \in Task /\ r.pc \notin HoldPcs /\ (r.pc # "idle" => r.prof = p)
  <2>1. CASE t \in Requests
    BY <1>1, <2>1 DEF Task, Pcs, HoldPcs, LoadPcs, StopPcs
  <2>2. CASE t \notin Requests
    BY <2>2, IdleType DEF Idle, HoldPcs, LoadPcs, StopPcs
  <2> QED BY <2>1, <2>2
<1>5. retirement.at = "none" BY <1>1, NoRetirementHeld DEF StopPcs
<1>6. NoRevival
  BY <1>1, <1>2 DEF NoRevival, LockInv, CoreTypes
<1> HIDE DEF b, r
<1>7. CoreTypes'
  BY <1>1, <1>2, <1>3, <1>4 DEF LockInv, CoreTypes, Holders
<1>8. task'[t] = r /\ \A u \in Tasks \ {t} : task'[u] = task[u]
  BY <1>1, <1>2 DEF LockInv, CoreTypes
<1> QED BY <1>1, <1>2, <1>4, <1>5, <1>6, <1>7, <1>8, ReleaseSound

\* Every step of a load.
LEMMA LoadStepSound ==
  ASSUME LockInv, NEW t \in Callers, LoadStep(t)
  PROVE  Sound
  BY ReserveSound, InsertSound, LoadFailsSound, LoadMovesSound, LoadWritesSound, CommitSound
  DEF LoadStep

-----------------------------------------------------------------------------
(* Stops.                                                                  *)

\* Marking a backend for its stop.
LEMMA MarkStoppingFacts ==
  ASSUME LockInv, NEW q \in Profiles, MarkStopping(q)
  PROVE  /\ backend' \in [Profiles -> Backend]
         /\ retirement' \in Retirements
         /\ backend'[q].residency = backend[q].residency
         /\ \A p \in Profiles \ {q} : backend'[p] = backend[p]
         /\ NoRevival
<1>1. backend \in [Profiles -> Backend] /\ backend[q] \in Backend BY DEF LockInv, CoreTypes
<1>2. backend' = [backend EXCEPT ![q] = [backend[q] EXCEPT !.retiring = TRUE,
                                                           !.lifecycle = "Stopping"]]
  BY <1>1 DEF MarkStopping, Backend
<1>3. backend' \in [Profiles -> Backend] BY <1>1, <1>2 DEF Backend
<1>4. retirement' \in Retirements
  BY <1>1 DEF MarkStopping, Retirements, Backend
<1>5. backend'[q].residency = backend[q].residency BY <1>1, <1>2 DEF Backend
<1>6. \A p \in Profiles \ {q} : backend'[p] = backend[p] BY <1>1, <1>2
<1>7. backend'[q].lifecycle = "Stopping" BY <1>1, <1>2 DEF Backend
<1>8. NoRevival BY <1>6, <1>7 DEF NoRevival
<1> QED BY <1>3, <1>4, <1>5, <1>6, <1>8

\* stop_backend_with_operation_held, up to its spawned task.
LEMMA StopBeginsSound ==
  ASSUME LockInv, NEW t \in Tasks, NEW q \in Profiles, StopBegins(t, q)
  PROVE  Sound
<1>1. task[t].pc \in {"evict", "replace", "reclaim", "stop"}
  BY DEF StopBegins, During
<1>2. operation = t /\ (t \in Callers => task[t].prof \in Profiles)
  BY <1>1 DEF LockInv, Claims, HoldPcs
<1>3. /\ todo' = todo \ {q}
      /\ UNCHANGED <<version, session, next_generation, operation, snapshot, job>>
  BY DEF StopBegins, collected
<1>4. PICK pc \in {"evicting", "replacing", "reclaiming", "stopping",
                   "match", "reserve", "reclaim", "stop"} :
        /\ GoTo(t, pc)
        /\ pc \in SparePcs => task[t].pc \in SparePcs
        /\ \/ Present(q) /\ MarkStopping(q) /\ pc \in StopPcs
           \/ UNCHANGED <<backend, retirement>>
  <2>1. CASE Present(q)
    BY <1>1, <2>1 DEF StopBegins, During, SparePcs, StopPcs
  <2>2. CASE ~Present(q)
    BY <1>1, <2>2 DEF StopBegins, After, SparePcs
  <2> QED BY <2>1, <2>2
<1>5. pc \in Pcs /\ pc \notin OwnPcs \cup {"insert"}
  BY DEF Pcs, HoldPcs, StopPcs, OwnPcs, LoadPcs
<1>6. /\ task' \in [Tasks -> Task]
      /\ task'[t].pc = pc
      /\ task'[t].prof = task[t].prof
      /\ \A u \in Tasks \ {t} : task'[u] = task[u]
  BY <1>4, <1>5, GoToType DEF LockInv
<1>7. /\ backend' \in [Profiles -> Backend]
      /\ retirement' \in Retirements
      /\ \A p \in Profiles \ {q} : backend'[p] = backend[p]
      /\ NoRevival
  <2>1. CASE MarkStopping(q) BY <2>1, MarkStoppingFacts
  <2>2. CASE UNCHANGED <<backend, retirement>>
    BY <2>2 DEF LockInv, CoreTypes, NoRevival
  <2> QED BY <1>4, <2>1, <2>2
<1>8. CoreTypes' BY <1>3, <1>6, <1>7 DEF LockInv, CoreTypes
<1>9. Spares(t)'
  <2> SUFFICES ASSUME pc \in SparePcs, NEW p \in todo \ {q}
               PROVE  /\ backend'[p].residency = "Jit"
                      /\ \A s \in Sessions : session'[s] # p
    BY <1>3, <1>6 DEF Spares
  <2>1. p \in Profiles \ {q} BY DEF LockInv, CoreTypes
  <2>2. backend'[p] = backend[p] BY <1>7, <2>1
  <2>3. Spares(t) /\ task[t].pc \in SparePcs BY <1>4 DEF LockInv, Claims
  <2> QED BY <1>3, <2>2, <2>3 DEF Spares
<1>10. retirement'.at = "none" \/ pc \in StopPcs
  <2>1. retirement.at = "none" BY <1>1, <1>2, NoRetirementHeld DEF StopPcs
  <2> QED BY <1>4, <2>1
<1> QED BY <1>2, <1>3, <1>5, <1>6, <1>7, <1>8, <1>9, <1>10, HolderMoves

\* The completion message gives the lock back to the caller.
LEMMA StopReturnsSound ==
  ASSUME LockInv, NEW t \in Tasks, StopReturns(t)
  PROVE  Sound
<1>1. task[t].pc \in StopPcs /\ operation = t /\ (t \in Callers => task[t].prof \in Profiles)
  BY DEF StopReturns, LockInv, Claims, HoldPcs, StopPcs
<1>2. /\ retirement' = NoRetirement
      /\ UNCHANGED <<version, backend, session, next_generation, todo, snapshot, job>>
  BY DEF StopReturns, table, collected
<1>3. retirement'.at = "none" /\ retirement' \in Retirements
  BY <1>2 DEF NoRetirement, Retirements
<1>4. NoRevival BY <1>2 DEF NoRevival
<1>5. CASE Return(t)
  <2>1. /\ task' \in [Tasks -> Task]
        /\ operation' \in Holders
        /\ task'[t] = Idle
        /\ \A u \in Tasks \ {t} : task'[u] = task[u]
    BY <1>5, ReturnType DEF LockInv
  <2>2. CoreTypes' BY <1>2, <1>3, <2>1 DEF LockInv, CoreTypes
  <2>3. task'[t].pc \notin HoldPcs /\ task'[t].pc = "idle"
    BY <2>1 DEF Idle, HoldPcs, LoadPcs, StopPcs
  <2> QED BY <1>1, <1>3, <1>4, <2>1, <2>2, <2>3, ReleaseSound
<1>6. CASE ~Return(t)
  <2>1. PICK pc \in {"match", "reserve", "reclaim", "stop"} :
          /\ GoTo(t, pc)
          /\ pc \in SparePcs => task[t].pc \in SparePcs
          /\ UNCHANGED operation
    BY <1>1, <1>6 DEF StopReturns, StopPcs, Before, After, SparePcs
  <2>2. pc \in Pcs /\ pc \notin OwnPcs \cup {"insert"}
    BY DEF Pcs, HoldPcs, StopPcs, OwnPcs, LoadPcs
  <2>3. /\ task' \in [Tasks -> Task]
        /\ task'[t].pc = pc
        /\ task'[t].prof = task[t].prof
        /\ \A u \in Tasks \ {t} : task'[u] = task[u]
    BY <2>1, <2>2, GoToType DEF LockInv
  <2>4. CoreTypes' BY <1>2, <1>3, <2>1, <2>3 DEF LockInv, CoreTypes
  <2>5. Spares(t)'
    <3>1. Spares(t) BY DEF LockInv, Claims
    <3> QED BY <1>2, <2>1, <2>3, <3>1 DEF Spares
  <2> QED BY <1>1, <1>3, <1>4, <2>1, <2>2, <2>3, <2>4, <2>5, HolderMoves
<1> QED BY <1>5, <1>6

\* finish_backend_stop_with_parts: the lock is with the retirement or with
\* the caller that waits for it.
LEMMA RetirementSound ==
  ASSUME LockInv, RetireSends \/ RetireFails \/ RetireCompletes
  PROVE  Sound
<1>1. retirement.at # "none"
  BY DEF RetireSends, RetireFails, RetireCompletes
<1>2. operation = Retirement \/ (operation \in Tasks /\ task[operation].pc \in StopPcs)
  BY <1>1 DEF LockInv, RetirementHeld
<1>3. UNCHANGED <<version, next_generation, task, todo, snapshot, job>>
  BY DEF RetireSends, RetireFails, RetireCompletes, table, collected
<1>4. /\ backend' \in [Profiles -> Backend]
      /\ session' \in [Sessions -> Profiles \cup {None}]
      /\ \A p \in Profiles : /\ backend'[p].residency \in {backend[p].residency, "Jit"}
                             /\ backend'[p].lifecycle = "Running" => backend[p] = backend'[p]
      /\ \A s \in Sessions : session'[s] \in {session[s], None}
  <2>0. /\ backend \in [Profiles -> Backend] /\ session \in [Sessions -> Profiles \cup {None}]
        /\ retirement.prof \in Profiles \cup {None}
    BY DEF LockInv, CoreTypes, Retirements
  <2>1. CASE RetireSends
    BY <2>0, <2>1 DEF RetireSends, table
  <2>2. CASE RetireFails
    <3>1. /\ backend' = [backend EXCEPT ![retirement.prof].lifecycle = "Failed"]
          /\ session' = session
      BY <2>2 DEF RetireFails
    <3>2. ASSUME NEW p \in Profiles
          PROVE  /\ backend'[p] \in Backend
                 /\ backend'[p].residency = backend[p].residency
                 /\ backend'[p].lifecycle = "Running" => backend[p] = backend'[p]
      <4>0. backend[p] \in Backend BY <2>0
      <4>1. CASE p = retirement.prof
        <5>1. backend'[p] = [backend[p] EXCEPT !.lifecycle = "Failed"]
          BY <2>0, <3>1, <4>1
        <5> QED BY <4>0, <5>1 DEF Backend
      <4>2. CASE p # retirement.prof
        <5>1. backend'[p] = backend[p] BY <2>0, <3>1, <4>2
        <5> QED BY <4>0, <5>1
      <4> QED BY <4>1, <4>2
    <3>3. backend' \in [Profiles -> Backend]
      <4>1. backend' = [p \in Profiles |-> backend'[p]] BY <2>0, <3>1
      <4> QED BY <3>2, <4>1
    <3> QED BY <2>0, <3>1, <3>2, <3>3
  <2>3. CASE RetireCompletes
    <3>1. /\ backend' = [backend EXCEPT ![retirement.prof] = NoBackend]
          /\ session' = [s \in Sessions |-> IF session[s] = retirement.prof THEN None
                                            ELSE session[s]]
      BY <2>3 DEF RetireCompletes, RemoveBackend
    <3>2. 0 \in 0..MaxEdits BY ManagerAssumption
    <3>3. NoBackend \in Backend /\ NoBackend.lifecycle = "Absent" /\ NoBackend.residency = "Jit"
      BY <3>2 DEF NoBackend, Backend, NoProcess
    <3> HIDE DEF NoBackend
    <3> QED BY <2>0, <3>1, <3>3
  <2> QED BY <2>1, <2>2, <2>3
<1>5. NoRevival BY <1>4 DEF NoRevival
<1>6. /\ operation' \in Holders
      /\ retirement' \in Retirements
      /\ operation' = operation \/ (operation = Retirement /\ retirement'.at = "none")
  <2>1. CASE RetireSends
    BY <2>1 DEF RetireSends, LockInv, CoreTypes, Retirements
  <2>2. ASSUME NEW r \in {"ok", "err"}, Retired(r)
        PROVE  /\ operation' \in Holders
               /\ retirement' \in Retirements
               /\ operation' = operation \/ (operation = Retirement /\ retirement'.at = "none")
    BY <2>2 DEF Retired, NoRetirement, Retirements, Holders, LockInv, CoreTypes
  <2> QED BY <2>1, <2>2 DEF RetireFails, RetireCompletes
<1>7. CoreTypes' BY <1>3, <1>4, <1>6 DEF LockInv, CoreTypes
<1>8. RetirementHeld' BY <1>2, <1>3, <1>6 DEF RetirementHeld
<1>9. ASSUME NEW t \in Tasks PROVE Claims(t)'
  <2>1. Claims(t) BY DEF LockInv
  <2>2. task[t].pc \in HoldPcs => operation' = t
    BY <1>6, <2>1, ManagerAssumption DEF Claims
  <2>3. task[t].pc \notin OwnPcs
    BY <1>2, <2>1, ManagerAssumption DEF Claims, OwnPcs, LoadPcs, StopPcs, HoldPcs
  <2>4. Spares(t)'
    <3> SUFFICES ASSUME task[t].pc \in SparePcs, NEW q \in todo
                 PROVE  /\ backend'[q].residency = "Jit"
                        /\ \A s \in Sessions : session'[s] # q
      BY <1>3 DEF Spares
    <3>1. q \in Profiles BY DEF LockInv, CoreTypes
    <3>2. q # None BY <3>1, ManagerAssumption
    <3> QED BY <1>4, <2>1, <3>1, <3>2 DEF Claims, Spares
  <2> QED BY <1>3, <2>1, <2>2, <2>3, <2>4 DEF Claims, Owning
<1> QED BY <1>5, <1>7, <1>8, <1>9 DEF Sound, LockInv

-----------------------------------------------------------------------------
(* Admission of loads and requests.                                        *)

\* A holder that moves to a point with no claim but the lock.
LEMMA LockedMove ==
  ASSUME LockInv, NEW t \in Tasks, operation = t, task[t].pc \notin StopPcs,
         NEW pc \in {"match", "acquire", "replace", "reserve", "draining"}, GoTo(t, pc),
         todo' \subseteq Profiles,
         UNCHANGED <<version, backend, session, next_generation, operation, retirement,
                     snapshot, job>>,
         t \in Callers => task[t].prof \in Profiles
  PROVE  Sound
<1>1. /\ pc \in Pcs
      /\ pc \notin OwnPcs \cup {"insert"}
      /\ pc \notin SparePcs
  BY DEF Pcs, HoldPcs, StopPcs, OwnPcs, LoadPcs, SparePcs
<1>2. /\ task' \in [Tasks -> Task]
      /\ task'[t].pc = pc
      /\ task'[t].prof = task[t].prof
      /\ \A u \in Tasks \ {t} : task'[u] = task[u]
  BY <1>1, GoToType DEF LockInv
<1>3. CoreTypes' BY <1>2 DEF LockInv, CoreTypes
<1>4. Spares(t)' BY <1>1, <1>2 DEF Spares
<1>5. retirement'.at = "none" BY NoRetirementHeld
<1>6. NoRevival BY DEF NoRevival
<1> QED BY <1>1, <1>2, <1>3, <1>4, <1>5, <1>6, HolderMoves

\* A manual load takes the free lock.
LEMMA AdmitLoadSound ==
  ASSUME LockInv, NEW t \in Callers, NEW p \in Profiles, AdmitLoad(t, p)
  PROVE  Sound
<1> DEFINE r == [Idle EXCEPT !.pc = "admit", !.prof = p, !.version = version[p]]
<1>1. t \in Tasks BY DEF Tasks, Callers
<1>2. /\ operation = Free /\ operation' = t
      /\ task' = [task EXCEPT ![t] = r]
      /\ UNCHANGED <<version, backend, session, next_generation, retirement, todo, snapshot, job>>
  BY DEF AdmitLoad, table, collected
<1>3. version[p] \in 0..MaxEdits BY DEF LockInv, CoreTypes
<1>4. r \in Task /\ r.prof = p /\ r.pc = "admit"
  BY <1>3 DEF Idle, Task, Pcs, HoldPcs, NoProcess
<1> HIDE DEF r
<1>5. task' \in [Tasks -> Task] /\ task'[t] = r /\ \A u \in Tasks \ {t} : task'[u] = task[u]
  BY <1>1, <1>2, <1>4 DEF LockInv, CoreTypes
<1>6. CoreTypes' BY <1>1, <1>2, <1>5 DEF LockInv, CoreTypes, Holders
<1>7. "admit" \notin OwnPcs \cup {"insert"} /\ "admit" \notin SparePcs
  BY DEF OwnPcs, SparePcs, LoadPcs
<1>8. Spares(t)' BY <1>4, <1>5, <1>7 DEF Spares
<1>9. retirement'.at = "none" BY <1>2, NoRetirementHeld
<1>10. NoRevival BY <1>2 DEF NoRevival
<1> QED BY <1>1, <1>2, <1>4, <1>5, <1>6, <1>7, <1>8, <1>9, <1>10, HolderMoves

\* A manual load meets the existing entry.
LEMMA MatchLoadSound ==
  ASSUME LockInv, NEW t \in Callers, NEW override \in BOOLEAN, MatchLoad(t, override)
  PROVE  Sound
<1> DEFINE p == task[t].prof
<1>1. /\ t \in Tasks /\ task[t].pc = "admit" /\ operation = t /\ p \in Profiles
      /\ task[t].pc \notin StopPcs
  BY DEF MatchLoad, At, LockInv, Claims, HoldPcs, StopPcs, Tasks, Callers
<1>2. UNCHANGED <<version, session, next_generation, retirement, snapshot, job>>
  BY DEF MatchLoad, collected
<1>3. \/ /\ Return(t) /\ UNCHANGED todo
         /\ backend' = [backend EXCEPT ![p].residency = "Pinned"] \/ UNCHANGED backend
      \/ /\ GoTo(t, "replace") \/ GoTo(t, "reserve")
         /\ UNCHANGED <<backend, operation>>
         /\ todo' \in {{p}, todo}
  BY DEF MatchLoad
<1>4. todo' \subseteq Profiles /\ job' \subseteq Job
  BY <1>1, <1>2, <1>3 DEF LockInv, CoreTypes
<1>5. CASE Return(t) /\ (backend' = [backend EXCEPT ![p].residency = "Pinned"] \/ UNCHANGED backend)
  <2>1. backend' \in [Profiles -> Backend] /\ NoRevival
    BY <1>1, <1>5, SMTT(30) DEF LockInv, CoreTypes, NoRevival, Backend
  <2> QED BY <1>1, <1>2, <1>4, <1>5, <2>1, ReturnSound
<1>6. CASE (GoTo(t, "replace") \/ GoTo(t, "reserve")) /\ UNCHANGED <<backend, operation>>
  BY <1>1, <1>2, <1>4, <1>6, LockedMove
<1> QED BY <1>3, <1>5, <1>6

\* A request meets the existing entry.
LEMMA MatchExistingSound ==
  ASSUME LockInv, NEW t \in Callers, MatchExisting(t)
  PROVE  Sound
<1> DEFINE p == task[t].prof
<1>1. /\ t \in Tasks /\ task[t].pc = "match" /\ operation = t /\ p \in Profiles
      /\ task[t].pc \notin StopPcs
  BY DEF MatchExisting, At, LockInv, Claims, HoldPcs, StopPcs, Tasks, Callers
<1>2. UNCHANGED <<version, backend, session, next_generation, retirement, snapshot, job>>
  BY DEF MatchExisting, table, collected
<1>3. /\ todo' \in {{p}, todo}
      /\ \/ Return(t)
         \/ /\ GoTo(t, "acquire") \/ GoTo(t, "replace") \/ GoTo(t, "reserve")
            /\ UNCHANGED operation
  BY DEF MatchExisting
<1>4. /\ todo' \subseteq Profiles /\ job' \subseteq Job
      /\ backend' \in [Profiles -> Backend] /\ NoRevival
  BY <1>1, <1>2, <1>3 DEF LockInv, CoreTypes, NoRevival
<1>5. CASE Return(t) BY <1>1, <1>2, <1>4, <1>5, ReturnSound
<1>6. CASE (GoTo(t, "acquire") \/ GoTo(t, "replace") \/ GoTo(t, "reserve")) /\ UNCHANGED operation
  BY <1>1, <1>2, <1>4, <1>6, LockedMove
<1> QED BY <1>3, <1>5, <1>6

\* Every candidate is stopped.
LEMMA ReclaimEndsSound ==
  ASSUME LockInv, NEW t \in Requests \cup {Reaper}, ReclaimEnds(t)
  PROVE  Sound
<1>1. /\ t \in Tasks /\ task[t].pc = "reclaim" /\ operation = t
      /\ t \in Callers => task[t].prof \in Profiles
      /\ task[t].pc \notin StopPcs
  BY DEF ReclaimEnds, At, LockInv, Claims, HoldPcs, StopPcs, Tasks, Callers
<1>2. UNCHANGED <<version, backend, session, next_generation, retirement, snapshot, job, todo>>
  BY DEF ReclaimEnds, table, collected
<1>3. /\ todo' \subseteq Profiles /\ job' \subseteq Job
      /\ backend' \in [Profiles -> Backend] /\ NoRevival
  BY <1>2 DEF LockInv, CoreTypes, NoRevival
<1>4. CASE t = Reaper
  <2>1. Return(t) BY <1>4 DEF ReclaimEnds
  <2> QED BY <1>1, <1>2, <1>3, <2>1, ReturnSound
<1>5. CASE t # Reaper
  <2>1. GoTo(t, "match") /\ UNCHANGED operation BY <1>5 DEF ReclaimEnds
  <2> QED BY <1>1, <1>2, <1>3, <2>1, LockedMove
<1> QED BY <1>4, <1>5

\* The primary branch: the evicted backend has just lost its last session.
LEMMA AdmitPrimarySound ==
  ASSUME LockInv, NEW t \in Requests, AdmitPrimary(t)
  PROVE  Sound
<1> DEFINE p == task[t].prof
           previous == session[task[t].sess]
           ss == [session EXCEPT ![task[t].sess] = p]
           evict == /\ previous \in Profiles \ {p}
                    /\ Present(previous)
                    /\ backend[previous].residency = "Jit"
                    /\ ~SessionPrimary(ss, previous)
           pc == IF evict THEN "evict" ELSE "match"
<1>1. /\ t \in Tasks /\ t \in Callers /\ task[t].pc = "wait" /\ p \in Profiles
  BY DEF AdmitPrimary, At, LockInv, Claims, Tasks, Callers
<1>2. /\ operation = Free /\ operation' = t
      /\ session' = ss
      /\ todo' = IF evict THEN {previous} ELSE {}
      /\ GoTo(t, pc)
      /\ UNCHANGED <<version, backend, next_generation, retirement, snapshot, job>>
  BY DEF AdmitPrimary, collected
<1>3. ss \in [Sessions -> Profiles \cup {None}]
  BY <1>1 DEF LockInv, CoreTypes
<1>4. pc \in Pcs /\ pc \notin OwnPcs \cup {"insert"} /\ (pc \in SparePcs => evict)
  BY DEF Pcs, HoldPcs, OwnPcs, LoadPcs, SparePcs
<1>5. evict => /\ previous \in Profiles
               /\ backend[previous].residency = "Jit"
               /\ \A s \in Sessions : ss[s] # previous
  BY DEF SessionPrimary
<1> HIDE DEF evict, ss, pc, previous
<1>6. /\ task' \in [Tasks -> Task]
      /\ task'[t].pc = pc
      /\ task'[t].prof = task[t].prof
      /\ \A u \in Tasks \ {t} : task'[u] = task[u]
  BY <1>1, <1>2, <1>4, GoToType DEF LockInv
<1>7. CoreTypes' BY <1>1, <1>2, <1>3, <1>5, <1>6 DEF LockInv, CoreTypes, Holders
<1>8. Spares(t)' BY <1>2, <1>4, <1>5, <1>6 DEF Spares
<1>9. retirement'.at = "none" BY <1>2, NoRetirementHeld
<1>10. NoRevival BY <1>2 DEF NoRevival
<1> QED BY <1>1, <1>2, <1>4, <1>6, <1>7, <1>8, <1>9, <1>10, HolderMoves

\* The candidates are JIT and no session's primary when they are chosen.
LEMMA ReclaimSound ==
  ASSUME LockInv, NEW t \in Tasks, NEW requested, Reclaim(t, requested),
         t \in Callers => task[t].prof \in Profiles
  PROVE  Sound
<1>1. PICK expired \in SUBSET Sessions :
        /\ session' = [s \in Sessions |-> IF s \in expired THEN None ELSE session[s]]
        /\ todo' \in SUBSET Reclaimable(session', requested)
        /\ operation = Free
        /\ operation' = t
        /\ GoTo(t, "reclaim")
        /\ UNCHANGED <<version, backend, next_generation, retirement, snapshot, job>>
  BY DEF Reclaim, collected
<1>2. session' \in [Sessions -> Profiles \cup {None}]
  BY <1>1 DEF LockInv, CoreTypes
<1>3. "reclaim" \in Pcs /\ "reclaim" \notin OwnPcs \cup {"insert"}
  BY DEF Pcs, HoldPcs, OwnPcs, LoadPcs
<1>4. /\ task' \in [Tasks -> Task]
      /\ task'[t].pc = "reclaim"
      /\ task'[t].prof = task[t].prof
      /\ \A u \in Tasks \ {t} : task'[u] = task[u]
  BY <1>1, <1>3, GoToType DEF LockInv
<1>5. \A q \in todo' : /\ q \in Profiles
                       /\ backend[q].residency = "Jit"
                       /\ \A s \in Sessions : session'[s] # q
  BY <1>1 DEF Reclaimable, SessionPrimary
<1>6. CoreTypes' BY <1>1, <1>2, <1>4, <1>5 DEF LockInv, CoreTypes, Holders
<1>7. Spares(t)' BY <1>1, <1>5 DEF Spares
<1>8. retirement'.at = "none" BY <1>1, NoRetirementHeld
<1>9. NoRevival BY <1>1 DEF NoRevival
<1> QED BY <1>1, <1>3, <1>4, <1>6, <1>7, <1>8, <1>9, HolderMoves

-----------------------------------------------------------------------------
(* Requests, dropped futures, unloads and guards.                          *)

\* One task changes, and neither before nor after has it the lock.
LEMMA BystanderSound ==
  ASSUME LockInv, NEW t \in Tasks, NEW r \in Task, task' = [task EXCEPT ![t] = r],
         task[t].pc \notin HoldPcs, r.pc \notin HoldPcs,
         t \in Callers /\ r.pc # "idle" => r.prof \in Profiles,
         UNCHANGED <<version, backend, session, next_generation, operation, retirement, todo,
                     snapshot>>,
         job' \subseteq Job
  PROVE  Sound
<1>1. task' \in [Tasks -> Task] /\ task'[t] = r /\ \A u \in Tasks \ {t} : task'[u] = task[u]
  BY DEF LockInv, CoreTypes
<1>2. CoreTypes' BY <1>1 DEF LockInv, CoreTypes
<1> QED BY <1>1, <1>2, OutsideSound

\* The guards of an active request are well formed.
LEMMA DecisionGuardType ==
  ASSUME LockInv, NEW t \in Callers, task[t].pc # "idle"
  PROVE  /\ DecisionGuard(task[t].prof, task[t].generation) \in Job
         /\ JitGuard(task[t].prof, task[t].generation) \in Job
<1>1. task[t].prof \in Profiles /\ task[t].generation \in Generation \cup {0}
  BY DEF LockInv, Claims, CoreTypes, Task, Tasks, Callers
<1> QED BY <1>1 DEF DecisionGuard, JitGuard, Job, NoProcess

\* The lease taken for a routed request.
LEMMA TakeLeaseType ==
  ASSUME LockInv, NEW t \in Callers, task[t].pc # "idle", TakeLease(t)
  PROVE  \E r \in Task : /\ task' = [task EXCEPT ![t] = r]
                         /\ r.pc \in {"idle", "infer"}
                         /\ r.pc # "idle" => r.prof \in Profiles
<1> DEFINE b == backend[task[t].prof]
           r == [task[t] EXCEPT !.pc = "infer", !.generation = b.generation, !.proc = b.running]
<1>1. /\ t \in Tasks /\ task[t] \in Task /\ task[t].prof \in Profiles
      /\ b \in Backend
  BY DEF LockInv, Claims, CoreTypes, Tasks, Callers
<1>2. r \in Task /\ r.pc = "infer" /\ r.prof \in Profiles
  BY <1>1 DEF Task, Pcs, Backend
<1>3. Idle \in Task /\ Idle.pc = "idle" BY IdleType DEF Idle
<1>4. task' = [task EXCEPT ![t] = r] \/ task' = [task EXCEPT ![t] = Idle]
  BY DEF TakeLease
<1> HIDE DEF r
<1> QED BY <1>2, <1>3, <1>4

\* The steps of a request without the lock.
LEMMA RequestOutsideSound ==
  ASSUME LockInv, NEW t \in Requests,
         \/ \E p \in Profiles, s \in Sessions, role \in {"Primary", "Auxiliary"},
              decision \in BOOLEAN : InferenceTarget(t, p, s, role, decision)
         \/ TryFastTarget(t)
         \/ InferenceEnds(t)
  PROVE  Sound
<1>1. /\ t \in Tasks /\ t \in Callers /\ task[t].pc \in {"idle", "fast", "infer"}
      /\ task[t].pc \notin HoldPcs
  BY DEF InferenceTarget, TryFastTarget, InferenceEnds, At, Tasks, Callers, HoldPcs, StopPcs,
         LoadPcs
<1>2. UNCHANGED <<version, backend, session, next_generation, operation, retirement, todo,
                  snapshot>>
  BY DEF InferenceTarget, TryFastTarget, InferenceEnds, table, collected
<1>3. Idle \in Task /\ Idle.pc = "idle" BY IdleType DEF Idle
<1>4. \A pc \in {"idle", "fast", "wait", "infer"} : pc \notin HoldPcs
  BY DEF HoldPcs, StopPcs, LoadPcs
<1>5. ASSUME NEW p \in Profiles, NEW s \in Sessions, NEW role \in {"Primary", "Auxiliary"},
             NEW decision \in BOOLEAN, InferenceTarget(t, p, s, role, decision)
      PROVE  Sound
  <2> DEFINE r == [Idle EXCEPT !.pc = "fast", !.prof = p, !.sess = s, !.role = role,
                               !.decision = decision, !.version = version[p]]
  <2>1. task' = [task EXCEPT ![t] = r] /\ job' = job
    BY <1>5 DEF InferenceTarget
  <2>2. version[p] \in 0..MaxEdits BY DEF LockInv, CoreTypes
  <2>3. r \in Task /\ r.pc = "fast" /\ r.prof = p
    BY <2>2 DEF Idle, Task, Pcs, NoProcess
  <2> HIDE DEF r
  <2>4. job' \subseteq Job BY <2>1 DEF LockInv, CoreTypes
  <2> QED BY <1>1, <1>2, <1>4, <2>1, <2>3, <2>4, BystanderSound
<1>6. CASE TryFastTarget(t)
  <2>1. task[t].pc = "fast" /\ task[t] \in Task /\ task[t].prof \in Profiles
    BY <1>1, <1>6 DEF TryFastTarget, At, LockInv, Claims, CoreTypes
  <2>2. job' \subseteq Job BY <1>6 DEF TryFastTarget, LockInv, CoreTypes
  <2>3. CASE TakeLease(t)
    <3>1. PICK r \in Task : /\ task' = [task EXCEPT ![t] = r]
                            /\ r.pc \in {"idle", "infer"}
                            /\ r.pc # "idle" => r.prof \in Profiles
      BY <1>1, <2>1, <2>3, TakeLeaseType
    <3> QED BY <1>1, <1>2, <1>4, <2>2, <3>1, BystanderSound
  <2>4. CASE task' = [task EXCEPT ![t] = Idle]
    BY <1>1, <1>2, <1>3, <1>4, <2>2, <2>4, BystanderSound
  <2>5. CASE GoTo(t, "wait")
    <3> DEFINE r == [task[t] EXCEPT !.pc = "wait"]
    <3>1. task' = [task EXCEPT ![t] = r] BY <2>5 DEF GoTo
    <3>2. r \in Task /\ r.pc = "wait" /\ r.prof \in Profiles
      BY <2>1 DEF Task, Pcs
    <3> HIDE DEF r
    <3> QED BY <1>1, <1>2, <1>4, <2>2, <3>1, <3>2, BystanderSound
  <2> QED BY <1>6, <2>3, <2>4, <2>5 DEF TryFastTarget
<1>7. CASE InferenceEnds(t)
  <2>1. task' = [task EXCEPT ![t] = Idle] /\ task[t].pc = "infer"
    BY <1>7 DEF InferenceEnds, At
  <2>2. job' \subseteq Job
    BY <1>1, <1>7, <2>1, DecisionGuardType DEF InferenceEnds, AbandonDecision, LockInv, CoreTypes
  <2> QED BY <1>1, <1>2, <1>3, <1>4, <2>1, <2>2, BystanderSound
<1> QED BY <1>5, <1>6, <1>7

\* acquire_target, then the lock is released.
LEMMA AcquireSound ==
  ASSUME LockInv, NEW t \in Requests, AcquireTarget(t)
  PROVE  Sound
<1>1. /\ t \in Tasks /\ t \in Callers /\ task[t].pc \in {"acquire", "relock"}
      /\ operation \in {t, Free} /\ task[t].prof \in Profiles
      /\ operation \in Tasks => operation = t
  BY ManagerAssumption DEF AcquireTarget, At, Tasks, Callers, LockInv, Claims, HoldPcs
<1>2. /\ operation' = Free
      /\ UNCHANGED <<version, backend, session, next_generation, retirement, todo, snapshot, job>>
  BY DEF AcquireTarget, table, collected
<1>3. PICK r \in Task : /\ task' = [task EXCEPT ![t] = r]
                        /\ r.pc \in {"idle", "infer"}
                        /\ r.pc # "idle" => r.prof \in Profiles
  <2>1. CASE TakeLease(t) BY <1>1, <2>1, TakeLeaseType
  <2>2. CASE task' = [task EXCEPT ![t] = Idle] BY <2>2, IdleType DEF Idle
  <2> QED BY <2>1, <2>2 DEF AcquireTarget
<1>4. task' \in [Tasks -> Task] /\ task'[t] = r /\ \A u \in Tasks \ {t} : task'[u] = task[u]
  BY <1>1, <1>3 DEF LockInv, CoreTypes
<1>5. CoreTypes' BY <1>2, <1>4 DEF LockInv, CoreTypes, Holders
<1>6. r.pc \notin HoldPcs BY <1>3 DEF HoldPcs, StopPcs, LoadPcs
<1>7. retirement'.at = "none"
  BY <1>1, <1>2, NoRetirementHeld DEF StopPcs
<1>8. NoRevival BY <1>2 DEF NoRevival
<1> QED BY <1>1, <1>2, <1>3, <1>4, <1>5, <1>6, <1>7, <1>8, ReleaseSound

\* A dropped caller: the lock is released or stays with the retirement.
LEMMA DropSound ==
  ASSUME LockInv, NEW t \in Tasks, task' \in [Tasks -> Task], task'[t] = Idle,
         DropOperation(t),
         UNCHANGED <<version, backend, session, next_generation>>,
         snapshot' \subseteq Profiles, job' \subseteq Job,
         \A u \in Tasks \ {t} :
           \/ task'[u] = task[u]
           \/ u \notin Callers /\ task[u].pc \notin HoldPcs /\ task'[u].pc \notin HoldPcs
  PROVE  Sound
<1>1. Idle.pc = "idle" /\ Idle.pc \notin HoldPcs BY DEF Idle, HoldPcs, StopPcs, LoadPcs
<1>2. CASE operation # t
  <2>1. UNCHANGED <<operation, retirement, todo>> BY <1>2 DEF DropOperation
  <2>2. task[t].pc \notin HoldPcs BY <1>2 DEF LockInv, Claims
  <2>3. CoreTypes' BY <2>1 DEF LockInv, CoreTypes
  <2> QED BY <1>1, <2>1, <2>2, <2>3, OutsideSound
<1>3. CASE operation = t
  <2>1. /\ todo' = {}
        /\ \/ operation' = Retirement /\ retirement' = retirement
           \/ operation' = Free /\ retirement' = NoRetirement
    BY <1>3 DEF DropOperation
  <2>2. CoreTypes'
    BY <2>1 DEF LockInv, CoreTypes, Holders, Retirements, NoRetirement
  <2>3. RetirementHeld' BY <2>1 DEF RetirementHeld, NoRetirement
  <2>4. NoRevival BY DEF NoRevival
  <2>5. ASSUME NEW u \in Tasks PROVE Claims(u)'
    <3>1. CASE u = t BY <3>1, IdleClaims
    <3>2. CASE u # t /\ task'[u] = task[u] BY <1>3, <3>2, OthersKept
    <3>3. CASE u # t /\ task'[u] # task[u]
      <4>1. u \notin Callers /\ task'[u].pc \notin HoldPcs BY <3>3
      <4>2. task'[u].pc \notin OwnPcs /\ task'[u].pc \notin SparePcs /\ task'[u].pc # "insert"
        BY <4>1 DEF OwnPcs, SparePcs, HoldPcs, StopPcs
      <4> QED BY <4>1, <4>2 DEF Claims, Owning, Spares
    <3> QED BY <3>1, <3>2, <3>3
  <2> QED BY <2>2, <2>3, <2>4, <2>5 DEF Sound, LockInv
<1> QED BY <1>2, <1>3

\* A dropped request or manual load.
LEMMA DropCallerSound ==
  ASSUME LockInv, NEW t \in Callers, DropRequest(t) \/ DropLoader(t)
  PROVE  Sound
<1>1. /\ t \in Tasks /\ task[t].pc # "idle"
      /\ task' = [task EXCEPT ![t] = Idle]
      /\ DropOperation(t)
      /\ UNCHANGED <<version, backend, session, next_generation, snapshot>>
  BY DEF DropRequest, DropLoader, Tasks, Callers, table, collected
<1>2. /\ task' \in [Tasks -> Task] /\ task'[t] = Idle
      /\ \A u \in Tasks \ {t} : task'[u] = task[u]
  BY <1>1, IdleType DEF LockInv, CoreTypes
<1>3. job' \subseteq Job
  <2>1. job \subseteq Job BY DEF LockInv, CoreTypes
  <2>2. CASE DropLoader(t) BY <2>1, <2>2 DEF DropLoader
  <2>3. CASE DropRequest(t)
    BY <1>1, <2>1, <2>3, DecisionGuardType DEF DropRequest, AbandonDecision
  <2> QED BY <2>2, <2>3
<1>4. snapshot' \subseteq Profiles BY <1>1 DEF LockInv, CoreTypes
<1> QED BY <1>1, <1>2, <1>3, <1>4, DropSound

\* cancel_loading_generation: Loading becomes Stopping.
LEMMA MarkCancelledFacts ==
  ASSUME LockInv, NEW p \in Profiles, NEW g, Cancels(p, g), MarkCancelled(p)
  PROVE  /\ backend' \in [Profiles -> Backend]
         /\ \A q \in Profiles :
              /\ backend'[q].generation = backend[q].generation
              /\ backend'[q].residency = backend[q].residency
              /\ backend[q].lifecycle \in {"Loading", "Stopping"}
                   => backend'[q].lifecycle \in {"Loading", "Stopping"}
<1>1. backend \in [Profiles -> Backend] BY DEF LockInv, CoreTypes
<1>2. backend' = [backend EXCEPT ![p] = [backend[p] EXCEPT !.lifecycle = "Stopping",
                                                           !.cancel_loading = TRUE]]
  BY <1>1 DEF MarkCancelled, Backend
<1> QED BY <1>1, <1>2, ZenonT(60) DEF Backend

\* Steps of the spawned tasks before they take the lock.
LEMMA JobMovesSound ==
  ASSUME LockInv, NEW j \in job, JobCancels(j) \/ JobSendsKill(j) \/ JobKilled(j)
  PROVE  Sound
<1>1. j \in Job /\ j.prof \in Profiles BY DEF LockInv, CoreTypes, Job
<1>2. backend[j.prof].loading \in Process \cup {NoProcess}
  BY <1>1 DEF LockInv, CoreTypes, Backend
<1>3. UNCHANGED <<version, session, next_generation, operation, retirement, task, todo, snapshot>>
  BY DEF JobCancels, JobSendsKill, JobKilled, table, collected
<1>4. ASSUME NEW at \in {"cancel", "kill", "lock"}, NEW x \in Process \cup {NoProcess}
      PROVE  /\ [j EXCEPT !.at = at, !.proc = x] \in Job
             /\ [j EXCEPT !.at = at] \in Job
  BY <1>1 DEF Job
<1>5. job' \subseteq Job
  <2>0. job \subseteq Job BY DEF LockInv, CoreTypes
  <2>1. CASE JobCancels(j)
    <3>1. PICK k \in Job : Becomes(j, k)
      BY <1>2, <1>4, <2>1 DEF JobCancels, NoProcess
    <3> QED BY <2>0, <3>1 DEF Becomes
  <2>2. CASE JobSendsKill(j) BY <2>0, <2>2 DEF JobSendsKill
  <2>3. CASE JobKilled(j)
    <3>1. PICK k \in Job : Becomes(j, k)
      BY <1>4, <2>3 DEF JobKilled
    <3> QED BY <2>0, <3>1 DEF Becomes
  <2> QED BY <2>1, <2>2, <2>3
<1>6. \/ Cancels(j.prof, j.generation) /\ MarkCancelled(j.prof)
      \/ UNCHANGED backend
  BY DEF JobCancels, JobSendsKill, JobKilled, table
<1>7. /\ backend' \in [Profiles -> Backend]
      /\ \A q \in Profiles :
           /\ backend'[q].generation = backend[q].generation
           /\ backend'[q].residency = backend[q].residency
           /\ backend[q].lifecycle \in {"Loading", "Stopping"}
                => backend'[q].lifecycle \in {"Loading", "Stopping"}
  <2>1. CASE UNCHANGED backend BY <2>1 DEF LockInv, CoreTypes
  <2>2. CASE Cancels(j.prof, j.generation) /\ MarkCancelled(j.prof)
    BY <1>1, <2>2, MarkCancelledFacts
  <2> QED BY <1>6, <2>1, <2>2
<1>8. CoreTypes' BY <1>3, <1>5, <1>7 DEF LockInv, CoreTypes
<1> QED BY <1>3, <1>7, <1>8, OutsideSound

\* The spawned task's stop begins with a free lock, so with no other holder.
LEMMA JobStopsSound ==
  ASSUME LockInv, NEW j \in job, JobStops(j)
  PROVE  Sound
<1>1. j.prof \in Profiles /\ operation = Free
  BY DEF LockInv, CoreTypes, Job, JobStops
<1>2. UNCHANGED <<version, session, next_generation, task, todo, snapshot>> /\ job' = job \ {j}
  BY DEF JobStops, collected
<1>3. /\ backend' \in [Profiles -> Backend] /\ retirement' \in Retirements /\ NoRevival
      /\ operation' \in Holders
      /\ operation' = Retirement \/ retirement' = retirement
  <2>1. CASE MarkStopping(j.prof) /\ operation' = Retirement
    BY <1>1, <2>1, MarkStoppingFacts DEF Holders
  <2>2. CASE UNCHANGED <<backend, cancelled, retirement, operation>>
    BY <2>2 DEF LockInv, CoreTypes, NoRevival
  <2> QED BY <2>1, <2>2 DEF JobStops
<1>4. CoreTypes' BY <1>2, <1>3 DEF LockInv, CoreTypes
<1>5. RetirementHeld' BY <1>1, <1>3, NoRetirementHeld DEF RetirementHeld
<1>6. ASSUME NEW t \in Tasks PROVE Claims(t)'
  <2>1. Reaper \in Tasks /\ Closer \in Tasks /\ Reaper # Closer
    BY ManagerAssumption DEF Tasks
  <2>2. PICK u \in Tasks : u # t BY <2>1
  <2> QED BY <1>1, <1>2, <2>2, OthersKept
<1> QED BY <1>3, <1>4, <1>5, <1>6 DEF Sound, LockInv

-----------------------------------------------------------------------------
(* Shutdown, the environment and the exit monitors.                        *)

\* shutdown before it takes the lock.
LEMMA CloserOutsideSound ==
  ASSUME LockInv, NEW p,
         ShutdownCalled \/ (p \in Profiles /\ ShutdownCancels(p)) \/ ShutdownKills
  PROVE  Sound
<1>1. /\ Closer \in Tasks /\ Closer \notin Callers /\ task[Closer] \in Task
      /\ task[Closer].pc \notin HoldPcs
  BY ManagerAssumption DEF Tasks, Callers, ShutdownCalled, ShutdownCancels, ShutdownKills, At,
     HoldPcs, StopPcs, LoadPcs, LockInv, CoreTypes
<1>2. UNCHANGED <<version, session, next_generation, operation, retirement, todo, snapshot, job>>
  BY DEF ShutdownCalled, ShutdownCancels, ShutdownKills, table, collected
<1>3. \/ p \in Profiles /\ Cancels(p, 0) /\ MarkCancelled(p)
      \/ UNCHANGED backend
  BY DEF ShutdownCalled, ShutdownCancels, ShutdownKills, table
<1>4. /\ backend' \in [Profiles -> Backend]
      /\ \A q \in Profiles :
           /\ backend'[q].generation = backend[q].generation
           /\ backend'[q].residency = backend[q].residency
           /\ backend[q].lifecycle \in {"Loading", "Stopping"}
                => backend'[q].lifecycle \in {"Loading", "Stopping"}
  <2>1. CASE UNCHANGED backend BY <2>1 DEF LockInv, CoreTypes
  <2>2. CASE p \in Profiles /\ Cancels(p, 0) /\ MarkCancelled(p) BY <2>2, MarkCancelledFacts
  <2> QED BY <1>3, <2>1, <2>2
<1>5. p \in Profiles => backend[p].loading \in Process \cup {NoProcess}
  BY DEF LockInv, CoreTypes, Backend
<1>6. PICK r \in Task : task' = [task EXCEPT ![Closer] = r] /\ r.pc \notin HoldPcs
  <2> DEFINE pcs == {"snapshot", "cancel", "cancelling"}
  <2>1. ASSUME NEW pc \in pcs, NEW x \in Process \cup {NoProcess}
        PROVE  /\ [task[Closer] EXCEPT !.pc = pc] \in Task
               /\ [task[Closer] EXCEPT !.pc = pc, !.proc = x] \in Task
               /\ [task[Closer] EXCEPT !.pc = pc].pc \notin HoldPcs
               /\ [task[Closer] EXCEPT !.pc = pc, !.proc = x].pc \notin HoldPcs
    BY <1>1, ZenonT(60) DEF Task, Pcs, HoldPcs, StopPcs, LoadPcs
  <2>2. task = [task EXCEPT ![Closer] = task[Closer]]
    BY <1>1 DEF LockInv, CoreTypes
  <2>3. CASE UNCHANGED task BY <1>1, <2>2, <2>3
  <2>4. CASE ShutdownCalled
    <3>1. task' = [task EXCEPT ![Closer] = [task[Closer] EXCEPT !.pc = "snapshot"]]
      BY <2>4 DEF ShutdownCalled, GoTo
    <3> QED BY <2>1, <3>1
  <2>5. CASE p \in Profiles /\ ShutdownCancels(p) /\ ~UNCHANGED task
    <3>1. PICK pc \in pcs :
            task' = [task EXCEPT ![Closer] = [task[Closer] EXCEPT !.pc = pc,
                                                                  !.proc = backend[p].loading]]
      <4>1. task' = [task EXCEPT ![Closer].proc = backend[p].loading,
                                 ![Closer].pc = IF backend[p].loading = NoProcess
                                                THEN "cancel" ELSE "cancelling"]
        BY <2>5 DEF ShutdownCancels
      <4> QED BY <1>1, <4>1, ZenonT(60) DEF Task, LockInv, CoreTypes
    <3> QED BY <1>5, <2>1, <2>5, <3>1
  <2>6. CASE ShutdownKills /\ ~UNCHANGED task
    <3>1. task' = [task EXCEPT ![Closer] = [task[Closer] EXCEPT !.pc = "cancel",
                                                                !.proc = NoProcess]]
      BY <1>1, <2>6 DEF ShutdownKills, Task, LockInv, CoreTypes
    <3> QED BY <2>1, <3>1
  <2> QED BY <2>3, <2>4, <2>5, <2>6
<1>7. /\ task' \in [Tasks -> Task] /\ task'[Closer] = r
      /\ \A u \in Tasks \ {Closer} : task'[u] = task[u]
  BY <1>1, <1>6 DEF LockInv, CoreTypes
<1>8. CoreTypes' BY <1>2, <1>4, <1>7 DEF LockInv, CoreTypes
<1> QED BY <1>1, <1>2, <1>4, <1>6, <1>7, <1>8, OutsideSound

\* shutdown aborts the reaper, which may have the lock.
LEMMA ShutdownCollectsSound ==
  ASSUME LockInv, ShutdownCollects
  PROVE  Sound
<1>1. /\ Closer \in Tasks /\ Closer \notin Callers /\ task[Closer] \in Task
      /\ Reaper \in Tasks /\ Reaper # Closer
      /\ task[Closer].pc \notin HoldPcs
  BY ManagerAssumption DEF Tasks, Callers, ShutdownCollects, At, HoldPcs, StopPcs, LoadPcs,
     LockInv, CoreTypes
<1> DEFINE r == [task[Closer] EXCEPT !.pc = "cancel"]
<1>2. r \in Task /\ r.pc \notin HoldPcs
  BY <1>1 DEF Task, Pcs, HoldPcs, StopPcs, LoadPcs
<1>3. task' = [task EXCEPT ![Reaper] = Idle, ![Closer] = r]
  BY <1>1 DEF ShutdownCollects, LockInv, CoreTypes
<1> HIDE DEF r
<1>4. /\ task' \in [Tasks -> Task] /\ task'[Reaper] = Idle /\ task'[Closer] = r
      /\ \A u \in Tasks \ {Reaper, Closer} : task'[u] = task[u]
  BY <1>1, <1>2, <1>3, IdleType DEF LockInv, CoreTypes
<1>5. /\ DropOperation(Reaper)
      /\ UNCHANGED <<version, backend, session, next_generation, job>>
      /\ snapshot' \subseteq Profiles
  BY DEF ShutdownCollects, table
<1>6. job' \subseteq Job BY <1>5 DEF LockInv, CoreTypes
<1> QED BY <1>1, <1>2, <1>4, <1>5, <1>6, DropSound

\* shutdown with the lock.
LEMMA CloserLockedSound ==
  ASSUME LockInv, ShutdownLocks \/ ShutdownSupervisor
  PROVE  Sound
<1>1. Closer \in Tasks /\ Closer \notin Callers
  BY ManagerAssumption DEF Tasks, Callers
<1>2. UNCHANGED <<version, backend, session, next_generation, retirement, snapshot, job>>
  BY DEF ShutdownLocks, ShutdownSupervisor, table, collected
<1>3. NoRevival BY <1>2 DEF NoRevival
<1>4. CASE ShutdownLocks
  <2>1. /\ operation = Free /\ operation' = Closer /\ GoTo(Closer, "stop")
        /\ todo' = snapshot
    BY <1>4 DEF ShutdownLocks
  <2>2. "stop" \in Pcs /\ "stop" \notin OwnPcs \cup {"insert"} /\ "stop" \notin SparePcs
    BY DEF Pcs, HoldPcs, OwnPcs, LoadPcs, SparePcs
  <2>3. /\ task' \in [Tasks -> Task] /\ task'[Closer].pc = "stop"
        /\ \A u \in Tasks \ {Closer} : task'[u] = task[u]
    BY <1>1, <2>1, <2>2, GoToType DEF LockInv
  <2>4. CoreTypes' BY <1>1, <1>2, <2>1, <2>3 DEF LockInv, CoreTypes, Holders
  <2>5. Spares(Closer)' BY <2>2, <2>3 DEF Spares
  <2>6. retirement'.at = "none" BY <1>2, <2>1, NoRetirementHeld
  <2> QED BY <1>1, <1>3, <2>1, <2>2, <2>3, <2>4, <2>5, <2>6, HolderMoves
<1>5. CASE ShutdownSupervisor
  <2>1. /\ task[Closer].pc \in {"stop", "draining"} /\ operation = Closer
        /\ task[Closer].pc \notin StopPcs
        /\ UNCHANGED todo
    BY <1>1, <1>5 DEF ShutdownSupervisor, At, LockInv, Claims, HoldPcs, StopPcs
  <2>2. todo' \subseteq Profiles BY <2>1 DEF LockInv, CoreTypes
  <2>3. CASE GoTo(Closer, "draining") /\ UNCHANGED operation
    BY <1>1, <1>2, <2>1, <2>2, <2>3, LockedMove
  <2>4. CASE /\ task' = [task EXCEPT ![Closer] = [Idle EXCEPT !.pc = "done"]]
             /\ operation' = Free
    <3> DEFINE r == [Idle EXCEPT !.pc = "done"]
    <3>0. 0 \in 0..MaxEdits BY ManagerAssumption
    <3>1. r \in Task /\ r.pc \notin HoldPcs
      BY <3>0 DEF Idle, Task, Pcs, HoldPcs, StopPcs, LoadPcs, NoProcess
    <3>2. task' = [task EXCEPT ![Closer] = r] BY <2>4
    <3> HIDE DEF r
    <3>3. /\ task' \in [Tasks -> Task] /\ task'[Closer] = r
          /\ \A u \in Tasks \ {Closer} : task'[u] = task[u]
      BY <1>1, <3>1, <3>2 DEF LockInv, CoreTypes
    <3>4. CoreTypes' BY <1>2, <2>1, <2>4, <3>3 DEF LockInv, CoreTypes, Holders
    <3>5. retirement'.at = "none" BY <1>1, <1>2, <2>1, NoRetirementHeld
    <3> QED BY <1>1, <1>3, <2>1, <3>1, <3>3, <3>4, <3>5, ReleaseSound
  <2> QED BY <1>5, <2>3, <2>4 DEF ShutdownSupervisor
<1> QED BY <1>4, <1>5

\* Steps without a task of the manager: edits, unload calls, children.
LEMMA EnvironmentSound ==
  ASSUME LockInv, NEW p, NEW x,
         (p \in Profiles /\ (UnloadCalled(p) \/ EditProfile(p))) \/ Child(x)
  PROVE  Sound
<1>1. UNCHANGED <<backend, session, next_generation, operation, retirement, task, todo, snapshot>>
  BY DEF UnloadCalled, EditProfile, Child, table, collected
<1>2. job' \subseteq Job
  <2>1. p \in Profiles => Unload(p) \in Job BY DEF Unload, Job, NoProcess
  <2> QED BY <2>1 DEF UnloadCalled, EditProfile, Child, LockInv, CoreTypes
<1>3. version' \in [Profiles -> 0..MaxEdits]
  <2>1. version \in [Profiles -> 0..MaxEdits] BY DEF LockInv, CoreTypes
  <2>2. CASE UNCHANGED version BY <2>1, <2>2
  <2>3. CASE p \in Profiles /\ EditProfile(p)
    <3>1. version[p] + 1 \in 0..MaxEdits
      BY <2>1, <2>3, ManagerAssumption DEF EditProfile
    <3> QED BY <2>1, <2>3, <3>1 DEF EditProfile
  <2> QED BY <2>2, <2>3 DEF UnloadCalled, Child, table
<1>4. CoreTypes' BY <1>1, <1>2, <1>3 DEF LockInv, CoreTypes
<1> QED BY <1>1, <1>4, OutsideSound

\* handle_unexpected_exit only touches an entry that is Running.
LEMMA ExitMonitorSound ==
  ASSUME LockInv, NEW x \in Process, ExitMonitor(x)
  PROVE  Sound
<1>1. UNCHANGED <<version, session, next_generation, operation, retirement, task, todo, snapshot,
                  job>>
  BY DEF ExitMonitor, collected
<1>2. /\ backend' \in [Profiles -> Backend]
      /\ \A q \in Profiles :
           /\ backend'[q].generation = backend[q].generation
           /\ backend'[q].residency = backend[q].residency
           /\ backend[q].lifecycle \in {"Loading", "Stopping"}
                => backend'[q].lifecycle \in {"Loading", "Stopping"}
  <2>0. backend \in [Profiles -> Backend] BY DEF LockInv, CoreTypes
  <2>1. CASE UNCHANGED backend BY <2>0, <2>1
  <2>2. CASE ~UNCHANGED backend
    <3> DEFINE p == monitor[x].prof
    <3>1. /\ backend' = [backend EXCEPT ![p].lifecycle = "Failed", ![p].running = NoProcess,
                                        ![p].lease = FALSE]
          /\ backend[p].lifecycle = "Running"
      BY <2>2 DEF ExitMonitor, ExitConcerns
    <3>2. CASE p \notin Profiles BY <2>0, <3>1, <3>2
    <3>3. CASE p \in Profiles
      <4>1. backend' = [backend EXCEPT ![p] = [backend[p] EXCEPT !.lifecycle = "Failed",
                                                 !.running = NoProcess, !.lease = FALSE]]
        BY <2>0, <3>1, <3>3 DEF Backend
      <4>2. ASSUME NEW c \in Backend
            PROVE  LET b == [c EXCEPT !.lifecycle = "Failed", !.running = NoProcess,
                                      !.lease = FALSE]
                   IN  b \in Backend /\ b.generation = c.generation /\ b.residency = c.residency
        BY ZenonT(60) DEF Backend
      <4>3. PICK b \in Backend : /\ backend' = [backend EXCEPT ![p] = b]
                                 /\ b.generation = backend[p].generation
                                 /\ b.residency = backend[p].residency
        <5>1. backend[p] \in Backend BY <2>0, <3>3
        <5> QED BY <4>1, <4>2, <5>1
      <4>4. ASSUME NEW q \in Profiles
            PROVE  /\ backend'[q].generation = backend[q].generation
                   /\ backend'[q].residency = backend[q].residency
                   /\ backend[q].lifecycle \in {"Loading", "Stopping"}
                        => backend'[q].lifecycle \in {"Loading", "Stopping"}
        <5>1. CASE q = p BY <2>0, <3>1, <4>3, <5>1
        <5>2. CASE q # p BY <2>0, <4>3, <5>2
        <5> QED BY <5>1, <5>2
      <4> QED BY <2>0, <4>3, <4>4
    <3> QED BY <3>2, <3>3
  <2> QED BY <2>1, <2>2
<1>3. CoreTypes' BY <1>1, <1>2 DEF LockInv, CoreTypes
<1> QED BY <1>1, <1>2, <1>3, OutsideSound

-----------------------------------------------------------------------------
(* The invariant and what follows from it.                                 *)

\* The empty table.
LEMMA InitLockInv == Init => LockInv
<1> SUFFICES ASSUME Init PROVE LockInv OBVIOUS
<1>1. 0 \in 0..MaxEdits /\ 0 \in 0..MaxGenerations BY ManagerAssumption
<1>2. NoBackend \in Backend BY <1>1 DEF NoBackend, Backend, NoProcess
<1>3. NoRetirement \in Retirements /\ NoRetirement.at = "none"
  BY DEF NoRetirement, Retirements, NoProcess
<1>4. CoreTypes BY <1>1, <1>2, <1>3, IdleType DEF Init, CoreTypes, Holders
<1>5. RetirementHeld BY <1>3 DEF Init, RetirementHeld
<1>6. ASSUME NEW t \in Tasks PROVE Claims(t)
  <2>1. task[t].pc = "idle" BY DEF Init, Idle
  <2> QED BY <2>1 DEF Claims, Owning, Spares, OwnPcs, SparePcs, HoldPcs, LoadPcs, StopPcs
<1> QED BY <1>4, <1>5, <1>6 DEF LockInv

\* Nothing happens.
LEMMA StutterSound ==
  ASSUME LockInv, UNCHANGED vars
  PROVE  Sound
<1>1. UNCHANGED <<version, backend, session, next_generation, operation, retirement, task, todo,
                  snapshot, job>>
  BY DEF vars
<1>2. CoreTypes' BY <1>1 DEF LockInv, CoreTypes
<1> QED BY <1>1, <1>2, OutsideSound

\* Every step keeps the invariant and revives no cancelled backend.
LEMMA NextSound ==
  ASSUME LockInv, [Next]_vars
  PROVE  Sound
<1>1. ASSUME NEW t \in Tasks, HolderStep(t) PROVE Sound
  BY <1>1, StopBeginsSound, StopReturnsSound DEF HolderStep
<1>2. ASSUME NEW t \in Callers, LoadStep(t) PROVE Sound BY <1>2, LoadStepSound
<1>3. ASSUME NEW t \in Loaders, LoaderStep(t) PROVE Sound
  BY <1>3, AdmitLoadSound, MatchLoadSound DEF LoaderStep, Callers
<1>4. ASSUME NEW t \in Requests, RequestStep(t) PROVE Sound
  <2>1. t \in Tasks /\ t \in Callers BY DEF Tasks, Callers
  <2>2. CASE AdmitAuxiliary(t)
    <3>1. Reclaim(t, task[t].prof) /\ task[t].pc = "wait" BY <2>2 DEF AdmitAuxiliary, At
    <3>2. task[t].prof \in Profiles BY <2>1, <3>1 DEF LockInv, Claims
    <3> QED BY <2>1, <3>1, <3>2, ReclaimSound
  <2>3. CASE AdmitPrimary(t) BY <2>3, AdmitPrimarySound
  <2>4. CASE ReclaimEnds(t) BY <2>4, ReclaimEndsSound
  <2>5. CASE MatchExisting(t) BY <2>1, <2>5, MatchExistingSound
  <2>6. CASE AcquireTarget(t) BY <2>6, AcquireSound
  <2>7. Decisions \subseteq BOOLEAN BY ManagerAssumption
  <2> QED BY <1>4, <2>2, <2>3, <2>4, <2>5, <2>6, <2>7, RequestOutsideSound DEF RequestStep
<1>5. ASSUME NEW t \in Callers, DropRequest(t) \/ DropLoader(t) PROVE Sound
  BY <1>5, DropCallerSound
<1>6. CASE ReapIdle
  <2>1. Reaper \in Tasks /\ Reaper \notin Callers /\ Reclaim(Reaper, None)
    BY <1>6, ManagerAssumption DEF ReapIdle, Tasks, Callers
  <2> QED BY <2>1, ReclaimSound
<1>7. CASE ReclaimEnds(Reaper) BY <1>7, ReclaimEndsSound
<1>8. ASSUME NEW j \in job, JobStep(j) PROVE Sound
  BY <1>8, JobMovesSound, JobStopsSound DEF JobStep
<1>9. CASE CloserStep
  <2>1. ASSUME NEW p \in Profiles, ShutdownCancels(p) PROVE Sound
    BY <2>1, CloserOutsideSound
  <2>2. CASE ShutdownCalled \/ ShutdownKills BY <2>2, CloserOutsideSound
  <2> QED BY <1>9, <2>1, <2>2, ShutdownCollectsSound, CloserLockedSound DEF CloserStep
<1>10. CASE RetirementStep BY <1>10, RetirementSound DEF RetirementStep
<1>11. ASSUME NEW p \in Profiles, UnloadCalled(p) \/ EditProfile(p) PROVE Sound
  BY <1>11, EnvironmentSound
<1>12. ASSUME NEW x \in Process, Child(x) \/ ExitMonitor(x) PROVE Sound
  BY <1>12, EnvironmentSound, ExitMonitorSound
<1>13. CASE UNCHANGED vars BY <1>13, StutterSound
<1>14. CASE Next
  BY <1>1, <1>2, <1>3, <1>4, <1>5, <1>6, <1>7, <1>8, <1>9, <1>10, <1>11, <1>12, <1>14
  DEF Next, Callers
<1> QED BY <1>13, <1>14

\* The discipline of the operation lock is an invariant.
LEMMA LockInvariant == Spec => []LockInv
<1>1. LockInv /\ [Next]_vars => LockInv' BY NextSound DEF Sound
<1> QED BY <1>1, InitLockInv, PTL DEF Spec

(* For any number of profiles, callers, sessions and generations: while
   load_admitted runs, the table entry of its profile has the load's own
   generation and is Loading or Stopping, so fail_loading, the registration
   and the commit act on no other load's entry. *)
THEOREM LoadsOwnTheirEntry == Spec => []LoadOwnsGeneration
<1>1. LockInv => LoadOwnsGeneration
  BY DEF LockInv, Claims, Owning, OwnPcs, LoadOwnsGeneration
<1> QED BY <1>1, LockInvariant, PTL

(* For any number of profiles, callers and sessions: whatever happens while
   reclaim_idle_with_operation_held or an eviction waits for one stop to
   drain, the backends it still has to stop are JIT-loaded and no session's
   primary. *)
THEOREM ReclaimsSpareSessions == Spec => []ReclaimSparesSessions
<1>1. LockInv => ReclaimSparesSessions
  BY DEF LockInv, Claims, Spares, SparePcs, ReclaimSparesSessions
<1> QED BY <1>1, LockInvariant, PTL

(* For any number of profiles and callers: once cancel_loading_generation or
   a stop has made an entry Stopping, no step makes it Running; the commit at
   the end of load_admitted loses the race against a cancellation. *)
THEOREM CancelledLoadsNeverRun == Spec => CancelledNeverRuns
<1>1. LockInv /\ [Next]_vars =>
        [\A p \in Profiles : backend[p].lifecycle = "Stopping"
           => backend'[p].lifecycle # "Running"]_vars
  BY NextSound DEF Sound, NoRevival
<1> QED BY <1>1, LockInvariant, PTL DEF Spec, CancelledNeverRuns

-----------------------------------------------------------------------------
(***************************************************************************)
(* The second part is about stops.                                         *)
(*                                                                         *)
(* A process is told to terminate at five places of the code, and each has *)
(* its own reason why no request is on it: a retirement has drained its    *)
(* generation; a load kills its own process before it was ever `running';  *)
(* an unload's or guard's task and shutdown kill a process whose entry     *)
(* they found Loading and made Stopping, so that its commit is refused     *)
(* (Doomed); the supervisor's shutdown comes after every backend that      *)
(* served was stopped.  The invariant CoreInv says what each of them knows *)
(* while it waits; it rests on LockInv.                                    *)
(***************************************************************************)

\* A load that has a process in its hands.
Carries(t) == task[t].pc \in ProcPcs

Born(x) == x \in Process /\ process[x].status # "unborn"

Uses(p) == {backend[p].running, backend[p].loading} \ {NoProcess}

\* Requests may be running on the entry's process.
Serves(p) == backend[p].lifecycle \in {"Running", "Stopping"} /\ backend[p].running # NoProcess

ProcInv ==
  /\ SupervisorTypeOK
  /\ \A x \in Process : Live(x) => process[x].tracked \/ process[x].terminate

\* What an entry is by itself, and beside the others.
OwnEntry(p) ==
  LET b == backend[p]
  IN  /\ b.lifecycle = "Absent" <=> b.generation = 0
      /\ b.lifecycle = "Absent" => b.running = NoProcess /\ b.loading = NoProcess
      /\ b.generation <= next_generation
      /\ b.lifecycle = "Loading" => b.running = NoProcess
      /\ b.lifecycle = "Running" => b.running # NoProcess
      /\ b.running # NoProcess => b.loading = NoProcess /\ Born(b.running)
      /\ b.loading # NoProcess => Born(b.loading)
      /\ b.lifecycle = "Running" => ~process[b.running].terminate

Apart(p, q) ==
  /\ Uses(p) \cap Uses(q) = {}
  /\ backend[p].generation = backend[q].generation => backend[p].generation = 0

EntryInv == \A p \in Profiles : OwnEntry(p) /\ \A q \in Profiles \ {p} : Apart(p, q)

\* A load's entry and process are its own.
LoadInv(t) ==
  LET b == backend[task[t].prof]
      x == task[t].proc
  IN  /\ task[t].pc \in OwnPcs =>
           /\ b.running = NoProcess
           /\ ~Carries(t) \/ task[t].pc = "spawned" => b.loading = NoProcess
      /\ Carries(t) =>
           /\ Born(x)
           /\ b.loading \in {NoProcess, x}
           /\ \A q \in Profiles : /\ backend[q].running # x
                                  /\ q # task[t].prof => backend[q].loading # x
      /\ task[t].pc \in {"spawned", "starting", "commit"} /\ b.lifecycle = "Loading" =>
           ~process[x].terminate

\* A reservation finds no entry, also after it had one replaced.
ReplaceInv(t) ==
  /\ task[t].pc \in {"reserve", "replace", "replacing"} => t \in Callers
  /\ task[t].pc \in {"reserve", "insert"} => ~Present(task[t].prof)
  /\ task[t].pc = "replace" => todo \subseteq {task[t].prof}
  /\ task[t].pc = "replacing" =>
       /\ retirement.prof = task[t].prof
       /\ retirement.at = "ok" => ~Present(task[t].prof)

\* The entry a request was routed to still has its process, or that is gone.
Attached(t) ==
  LET b == backend[task[t].prof]
  IN  /\ b.lifecycle \in {"Running", "Stopping"}
      /\ b.generation = task[t].generation
      /\ b.running = task[t].proc

LeaseInv(t) ==
  task[t].pc = "infer" =>
    /\ t \in Requests
    /\ Born(task[t].proc)
    /\ ~process[task[t].proc].terminate
    /\ Exited(task[t].proc) \/ Attached(t)

RetireInv ==
  retirement.at \in {"drain", "killing"} =>
    LET b == backend[retirement.prof]
    IN  /\ retirement.prof \in Profiles
        /\ b.lifecycle = "Stopping"
        /\ b.generation = retirement.generation
        /\ retirement.proc = IF b.running # NoProcess THEN b.running ELSE b.loading
        /\ retirement.at = "killing" => Drained(retirement.generation)

\* A process that will never run a request: it may be killed at any time.
Doomed(x) ==
  /\ Born(x)
  /\ \A p \in Profiles : backend[p].running # x
  /\ \A t \in Tasks : Carries(t) /\ task[t].proc = x => backend[task[t].prof].lifecycle = "Stopping"

DoomInv ==
  /\ \A j \in job : j.at = "kill" => Doomed(j.proc)
  /\ At(Closer, "cancelling") => Doomed(task[Closer].proc)

CoreInv ==
  /\ ProcInv
  /\ EntryInv
  /\ \A t \in Tasks : LoadInv(t)
  /\ \A t \in Tasks : ReplaceInv(t)
  /\ \A t \in Tasks : LeaseInv(t)
  /\ RetireInv
  /\ DoomInv

\* Shutdown, on its way, knows every backend that could serve a request, and
\* has none left when it turns to the supervisor.
CloserInv ==
  /\ task[Reaper].pc \in {"idle", "reclaim", "reclaiming"}
  /\ task[Closer].pc \in {"idle", "snapshot", "cancel", "cancelling", "stop", "stopping",
                         "draining", "done"}
  /\ ~At(Closer, "idle") => shutting_down
  /\ task[Closer].pc \in {"cancel", "cancelling"} =>
       \A p \in Profiles : backend[p].running # NoProcess => p \in snapshot
  /\ At(Closer, "stop") => \A p \in Profiles : Serves(p) => p \in todo
  /\ At(Closer, "stopping") =>
       \A p \in Profiles : Serves(p) =>
         p \in todo \/ (retirement.at \in {"drain", "killing"} /\ p = retirement.prof)
  /\ At(Closer, "draining") => \A p \in Profiles : ~Serves(p)
  /\ At(Closer, "done") => \A p \in Profiles : backend[p].lifecycle # "Running"
  /\ task[Closer].pc \in {"draining", "done"} =>
       /\ \A x \in Process : Live(x) => process[x].terminate
       /\ \A t \in Callers : task[t].pc \notin OwnPcs \cup {"insert"}

-----------------------------------------------------------------------------
(* What a step leaves alone.                                               *)

\* Children only go on: nobody is unborn again, or returns from an exit.
Onward ==
  /\ ProcInv'
  /\ \A x \in Process : /\ Born(x) => Born(x)'
                        /\ Exited(x) => Exited(x)'

Spared(x) == process'[x].terminate => process[x].terminate

Ridden(x) == \E t \in Tasks : At(t, "infer") /\ task[t].proc = x

\* What this argument looks at in an entry.
Same(p) ==
  /\ backend'[p].lifecycle = backend[p].lifecycle
  /\ backend'[p].generation = backend[p].generation
  /\ backend'[p].running = backend[p].running
  /\ backend'[p].loading = backend[p].loading

\* The requests of the entry, if any, do not notice the step.
Still(p) ==
  \/ /\ backend'[p].lifecycle \in {"Running", "Stopping"}
     /\ backend'[p].generation = backend[p].generation
     /\ backend'[p].running = backend[p].running
  \/ Exited(backend[p].running)
  \/ Drained(backend[p].generation)

\* The holder of the lock, or who takes it, is alone.
LEMMA OnlyHolder ==
  ASSUME LockInv, NEW u \in Tasks, operation \in {u, Free}, NEW t \in Tasks \ {u}
  PROVE  task[t].pc \notin HoldPcs
  BY ManagerAssumption DEF LockInv, Claims

\* While a retirement is under way nobody else has the lock.
LEMMA OnlyRetirement ==
  ASSUME LockInv, retirement.at # "none", NEW t \in Tasks
  PROVE  task[t].pc \notin HoldPcs \ StopPcs
  BY ManagerAssumption DEF LockInv, RetirementHeld, Claims

\* Points of the code without the lock claim nothing.
LEMMA NoClaim ==
  ASSUME NEW t \in Tasks, task[t].pc \notin HoldPcs
  PROVE  LoadInv(t) /\ ReplaceInv(t) /\ ~Carries(t)
  BY DEF LoadInv, ReplaceInv, Carries, ProcPcs, OwnPcs, LoadPcs, StopPcs, HoldPcs

\* A process number.
LEMMA ProcessNumbers == NoProcess \notin Process
  BY SupervisorAssumption DEF Process, NoProcess

\* An entry that keeps its looks keeps its invariant.
LEMMA OwnEntrySame ==
  ASSUME CoreTypes, CoreTypes', Onward, next_generation <= next_generation',
         NEW p \in Profiles, Same(p), OwnEntry(p),
         backend[p].lifecycle = "Running" => Spared(backend[p].running)
  PROVE  OwnEntry(p)'
<1>1. /\ backend[p] \in Backend /\ next_generation \in Nat /\ next_generation' \in Nat
      /\ backend[p].generation \in Nat
      /\ backend[p].running \in Process \cup {NoProcess}
      /\ backend[p].loading \in Process \cup {NoProcess}
  BY ManagerAssumption DEF CoreTypes, Backend, Generation
<1>2. /\ backend[p].running # NoProcess => (Born(backend[p].running) => Born(backend[p].running)')
      /\ backend[p].loading # NoProcess => (Born(backend[p].loading) => Born(backend[p].loading)')
  BY <1>1 DEF Onward, Same
<1> QED BY <1>1, <1>2 DEF OwnEntry, Same, Spared, Born

\* One entry changes.
LEMMA EntryChange ==
  ASSUME CoreTypes, CoreTypes', EntryInv, Onward, next_generation <= next_generation',
         NEW p \in Profiles,
         OwnEntry(p)',
         \A q \in Profiles \ {p} :
           /\ Same(q)
           /\ backend[q].lifecycle = "Running" => Spared(backend[q].running)
           /\ Uses(p)' \cap Uses(q) = {}
           /\ backend'[p].generation = backend[q].generation => backend'[p].generation = 0
  PROVE  EntryInv'
<1>1. ASSUME NEW q \in Profiles \ {p} PROVE OwnEntry(q)'
  BY OwnEntrySame DEF EntryInv
<1>2. ASSUME NEW q \in Profiles \ {p}, NEW r \in Profiles \ {q} PROVE Apart(q, r)'
  <2>1. CASE r = p BY <2>1 DEF Apart, Uses, Same
  <2>2. CASE r # p BY <2>2 DEF EntryInv, Apart, Uses, Same
  <2> QED BY <2>1, <2>2
<1>3. ASSUME NEW r \in Profiles \ {p} PROVE Apart(p, r)'
  BY DEF Apart, Uses, Same
<1> QED BY <1>1, <1>2, <1>3 DEF EntryInv

\* An entry loses processes or goes, and takes nothing.
LEMMA EntryShrinks ==
  ASSUME CoreTypes, CoreTypes', EntryInv, Onward, next_generation <= next_generation',
         NEW p \in Profiles,
         OwnEntry(p)',
         Uses(p)' \subseteq Uses(p),
         backend'[p].generation \in {backend[p].generation, 0},
         \A q \in Profiles \ {p} : Same(q) /\ Spared(backend[q].running)
  PROVE  EntryInv'
<1>1. ASSUME NEW q \in Profiles \ {p} PROVE Apart(p, q) BY DEF EntryInv
<1>2. ASSUME NEW q \in Profiles \ {p}
      PROVE  /\ Uses(p)' \cap Uses(q) = {}
             /\ backend'[p].generation = backend[q].generation => backend'[p].generation = 0
  BY <1>1 DEF Apart
<1> QED BY <1>2, EntryChange

\* No entry changes.
LEMMA EntriesSame ==
  ASSUME CoreTypes, CoreTypes', EntryInv, Onward, next_generation <= next_generation',
         \A p \in Profiles :
           /\ Same(p)
           /\ backend[p].lifecycle = "Running" => Spared(backend[p].running)
  PROVE  EntryInv'
<1>1. ASSUME NEW q \in Profiles PROVE OwnEntry(q)' BY OwnEntrySame DEF EntryInv
<1>2. ASSUME NEW q \in Profiles, NEW r \in Profiles \ {q} PROVE Apart(q, r)'
  BY DEF EntryInv, Apart, Uses, Same
<1> QED BY <1>1, <1>2 DEF EntryInv

\* Requests go on as they were.
LEMMA LeasesKept ==
  ASSUME LockInv, CoreInv, Onward,
         \A t \in Tasks : task'[t] = task[t] \/ task'[t].pc # "infer",
         \A x \in Process : Spared(x) \/ ~Ridden(x),
         \A p \in Profiles : Serves(p) => Still(p)
  PROVE  \A t \in Tasks : LeaseInv(t)'
<1> SUFFICES ASSUME NEW t \in Tasks, task'[t].pc = "infer" PROVE LeaseInv(t)'
  BY DEF LeaseInv
<1> DEFINE p == task[t].prof
           x == task[t].proc
<1>1. task'[t] = task[t] /\ task[t].pc = "infer" OBVIOUS
<1>2. /\ t \in Requests /\ Born(x) /\ ~process[x].terminate
      /\ Exited(x) \/ Attached(t)
  BY <1>1 DEF CoreInv, LeaseInv
<1>3. x \in Process /\ x # NoProcess BY <1>2, ProcessNumbers DEF Born
<1>4. p \in Profiles
  BY <1>1, <1>2 DEF LockInv, Claims, Callers
<1>5. Born(x)' /\ ~process'[x].terminate
  <2>1. Ridden(x) BY <1>1 DEF Ridden, At
  <2> QED BY <1>2, <1>3, <2>1 DEF Onward, Spared
<1>6. Exited(x)' \/ Attached(t)'
  <2>1. CASE Exited(x) BY <1>3, <2>1 DEF Onward
  <2>2. CASE Attached(t)
    <3>1. Serves(p) /\ backend[p].running = x /\ backend[p].generation = task[t].generation
      BY <1>3, <2>2 DEF Attached, Serves
    <3>2. ~Drained(backend[p].generation)
      BY <1>1, <1>2, <3>1 DEF Drained, ActiveRequests, At
    <3> QED BY <1>1, <1>3, <1>4, <3>1, <3>2 DEF Still, Attached, Onward
  <2> QED BY <1>2, <2>1, <2>2
<1> QED BY <1>1, <1>2, <1>5, <1>6 DEF LeaseInv

\* Doomed processes stay doomed.
LEMMA DoomedKept ==
  ASSUME CoreInv, Onward,
         \A p \in Profiles : backend'[p].running \notin {backend[p].running, NoProcess}
                               => ~Doomed(backend'[p].running),
         \A t \in Tasks : Carries(t)' /\ Doomed(task'[t].proc) =>
           /\ Carries(t)
           /\ task'[t].proc = task[t].proc
           /\ task'[t].prof = task[t].prof
           /\ backend[task[t].prof].lifecycle = "Stopping"
                => backend'[task[t].prof].lifecycle = "Stopping",
         NEW x, Doomed(x)
  PROVE  Doomed(x)'
<1>1. x \in Process /\ x # NoProcess BY ProcessNumbers DEF Doomed, Born
<1>2. Born(x)' BY <1>1 DEF Onward, Doomed
<1>3. ASSUME NEW p \in Profiles PROVE backend'[p].running # x
  BY <1>1 DEF Doomed
<1>4. ASSUME NEW t \in Tasks, Carries(t)', task'[t].proc = x
      PROVE  backend'[task'[t].prof].lifecycle = "Stopping"
  BY <1>4 DEF Doomed
<1> QED BY <1>2, <1>3, <1>4 DEF Doomed

\* So are the processes that somebody has gone to kill.
LEMMA KillsKept ==
  ASSUME CoreInv, Onward,
         \A x : Doomed(x) => Doomed(x)',
         \A j \in job' : j.at = "kill" => j \in job \/ Doomed(j.proc)',
         task'[Closer].pc = "cancelling" =>
           \/ task[Closer].pc = "cancelling" /\ task'[Closer].proc = task[Closer].proc
           \/ Doomed(task[Closer].proc)'
  PROVE  DoomInv'
<1>1. ASSUME NEW j \in job', j.at = "kill" PROVE Doomed(j.proc)'
  BY <1>1 DEF CoreInv, DoomInv
<1>2. ASSUME task'[Closer].pc = "cancelling" PROVE Doomed(task[Closer].proc)'
  <2> SUFFICES ASSUME task[Closer].pc = "cancelling", task'[Closer].proc = task[Closer].proc
               PROVE  Doomed(task[Closer].proc)'
    BY <1>2
  <2>1. PICK x : x = task[Closer].proc OBVIOUS
  <2>2. Doomed(x)' BY <2>1 DEF CoreInv, DoomInv, At
  <2> QED BY <2>1, <2>2 DEF Doomed
<1> QED BY <1>1, <1>2 DEF DoomInv, At

\* A bystander of the step: unchanged, or somewhere without lock and lease.
Aside(t) == task'[t] = task[t] \/ task'[t].pc \notin HoldPcs \cup {"infer", "cancelling"}

\* NoClaim, of the next state.
LEMMA NoClaimNext ==
  ASSUME NEW t \in Tasks, task'[t].pc \notin HoldPcs
  PROVE  LoadInv(t)' /\ ReplaceInv(t)' /\ ~Carries(t)'
  BY DEF LoadInv, ReplaceInv, Carries, ProcPcs, OwnPcs, LoadPcs, StopPcs, HoldPcs

\* A retirement under way is not disturbed.
LEMMA RetirementKept ==
  ASSUME RetireInv, UNCHANGED retirement,
         retirement.at \in {"drain", "killing"} => Same(retirement.prof),
         \A t \in Requests : task'[t].pc = "infer" =>
           task'[t] = task[t] \/ task'[t].generation # retirement.generation
  PROVE  RetireInv'
<1> SUFFICES ASSUME retirement.at \in {"drain", "killing"} PROVE RetireInv' BY DEF RetireInv
<1>1. Drained(retirement.generation) => Drained(retirement.generation)'
  BY DEF Drained, ActiveRequests, At
<1> QED BY <1>1 DEF RetireInv, Same

\* A step of the lock holder, or one that takes the free lock.
LEMMA HolderKeeps ==
  ASSUME LockInv, NEW u \in Tasks, operation \in {u, Free},
         \A t \in Tasks \ {u} : Aside(t),
         ProcInv', EntryInv', LoadInv(u)', ReplaceInv(u)', \A t \in Tasks : LeaseInv(t)',
         RetireInv', DoomInv'
  PROVE  CoreInv'
<1>1. ASSUME NEW t \in Tasks \ {u} PROVE LoadInv(t)' /\ ReplaceInv(t)'
  <2>1. task'[t].pc \notin HoldPcs BY OnlyHolder DEF Aside
  <2> QED BY <2>1, NoClaimNext
<1>2. \A t \in Tasks : LoadInv(t)' /\ ReplaceInv(t)' BY <1>1
<1> QED BY <1>2 DEF CoreInv

\* A step of somebody else leaves the loads their entries and processes.
LEMMA OutsideClaims ==
  ASSUME LockInv, CoreInv, Onward, UNCHANGED <<todo, retirement>>,
         \A p \in Profiles :
           /\ backend'[p].running \in {backend[p].running, NoProcess}
           /\ backend'[p].loading = backend[p].loading
           /\ backend'[p].lifecycle = "Loading" => backend[p].lifecycle = "Loading"
           /\ backend'[p].lifecycle # "Absent" => Present(p),
         \A t \in Tasks :
           /\ task'[t] = task[t] \/ task'[t].pc \notin HoldPcs
           /\ Carries(t) /\ backend'[task[t].prof].lifecycle = "Loading" => Spared(task[t].proc)
  PROVE  \A t \in Tasks : LoadInv(t)' /\ ReplaceInv(t)'
<1> SUFFICES ASSUME NEW t \in Tasks, task'[t].pc \in HoldPcs PROVE LoadInv(t)' /\ ReplaceInv(t)'
  BY NoClaimNext
<1>1. task'[t] = task[t] /\ LoadInv(t) /\ ReplaceInv(t) BY DEF CoreInv
<1>2. task[t].pc \in OwnPcs \cup {"reserve", "insert", "replacing"} => task[t].prof \in Profiles
  BY <1>1 DEF LockInv, Claims, ReplaceInv, OwnPcs, LoadPcs
<1>3. LoadInv(t)'
  <2>2. ASSUME Carries(t) PROVE Born(task[t].proc)' /\ task[t].proc # NoProcess
    BY <1>1, <2>2, ProcessNumbers DEF LoadInv, Born, Onward
  <2>3. Carries(t) => task[t].pc \in OwnPcs
    BY DEF Carries, ProcPcs, OwnPcs, LoadPcs
  <2> QED BY <1>1, <1>2, <2>2, <2>3 DEF LoadInv, Carries, Spared, ProcPcs
<1>4. ReplaceInv(t)'
  BY <1>1, <1>2 DEF ReplaceInv, Present
<1> QED BY <1>3, <1>4

\* A step of one task that changes no process, and no entry that shows.
LEMMA QuietKeeps ==
  ASSUME LockInv, CoreInv, CoreTypes',
         UNCHANGED <<process, next_generation>>,
         \A p \in Profiles : Same(p),
         \A j \in job' : j.at = "kill" => j \in job,
         NEW u \in Tasks,
         \A t \in Tasks \ {u} : Aside(t),
         \/ Aside(u)
         \/ /\ task'[u].pc # "cancelling"
            /\ Carries(u)' => /\ Carries(u)
                              /\ task'[u].proc = task[u].proc
                              /\ task'[u].prof = task[u].prof
            /\ LeaseInv(u)'
            /\ task'[u].pc = "infer" /\ retirement.at \in {"drain", "killing"}
                 => task'[u].generation # retirement.generation,
         \/ /\ operation \in {u, Free}
            /\ LoadInv(u)' /\ ReplaceInv(u)'
            /\ RetireInv' \/ UNCHANGED retirement
         \/ /\ task'[u] = task[u] \/ task'[u].pc \notin HoldPcs
            /\ UNCHANGED <<todo, retirement>>
  PROVE  CoreInv'
<1>1. Onward BY DEF Onward, CoreInv, ProcInv, SupervisorTypeOK, Live, Born, Exited
<1>2. EntryInv'
  <2>1. next_generation <= next_generation' BY ManagerAssumption DEF LockInv, CoreTypes
  <2> QED BY <1>1, <2>1, EntriesSame DEF LockInv, CoreInv, Spared
<1>3. \A t \in Tasks : LeaseInv(t)'
  <2>1. ASSUME NEW t \in Tasks, task'[t].pc = "infer", Aside(t) PROVE LeaseInv(t)'
    <3>1. task'[t] = task[t] BY <2>1 DEF Aside
    <3>2. t \in Requests /\ task[t].prof \in Profiles
      BY <2>1, <3>1 DEF CoreInv, LeaseInv, LockInv, Claims, Callers
    <3> QED BY <2>1, <3>1, <3>2 DEF CoreInv, LeaseInv, Attached, Same, Born, Exited
  <2> QED BY <2>1 DEF LeaseInv
<1>4. UNCHANGED retirement => RetireInv'
  <2>1. retirement.at \in {"drain", "killing"} => Same(retirement.prof)
    BY DEF CoreInv, RetireInv
  <2>2. ASSUME NEW t \in Requests, task'[t].pc = "infer", retirement.at \in {"drain", "killing"}
        PROVE  task'[t] = task[t] \/ task'[t].generation # retirement.generation
    BY <2>2 DEF Aside, Tasks
  <2> QED BY <2>1, <2>2, RetirementKept DEF CoreInv, RetireInv
<1>5. DoomInv'
  <2>1. ASSUME NEW t \in Tasks, Carries(t)'
        PROVE  /\ Carries(t)
               /\ task'[t].proc = task[t].proc
               /\ task'[t].prof = task[t].prof
               /\ task[t].prof \in Profiles
    <3>1. Carries(t) /\ task'[t].proc = task[t].proc /\ task'[t].prof = task[t].prof
      <4>1. CASE ~Aside(t) BY <2>1, <4>1
      <4>2. CASE Aside(t)
        <5>1. task'[t] = task[t]
          BY <2>1, <4>2 DEF Aside, Carries, ProcPcs, HoldPcs, LoadPcs
        <5> QED BY <2>1, <5>1 DEF Carries
      <4> QED BY <4>1, <4>2
    <3>2. task[t].pc \in OwnPcs BY <3>1 DEF Carries, ProcPcs, OwnPcs, LoadPcs
    <3>3. task[t].prof \in Profiles BY <3>2 DEF LockInv, Claims, OwnPcs, LoadPcs
    <3> QED BY <3>1, <3>3
  <2>2. ASSUME NEW x, Doomed(x) PROVE Doomed(x)'
    BY <1>1, <2>1, <2>2, DoomedKept DEF Same
  <2>3. task'[Closer].pc = "cancelling" => task'[Closer] = task[Closer]
    BY DEF Aside, Tasks
  <2> QED BY <1>1, <2>2, <2>3, KillsKept
<1>6. CASE operation \in {u, Free} /\ LoadInv(u)' /\ ReplaceInv(u)' /\ RetireInv'
  BY <1>1, <1>2, <1>3, <1>5, <1>6, HolderKeeps DEF Onward
<1>7. CASE /\ task'[u] = task[u] \/ task'[u].pc \notin HoldPcs
           /\ UNCHANGED <<todo, retirement>>
  <2>1. \A t \in Tasks : task'[t] = task[t] \/ task'[t].pc \notin HoldPcs
    BY <1>7 DEF Aside
  <2>2. \A p \in Profiles :
          /\ backend'[p].running \in {backend[p].running, NoProcess}
          /\ backend'[p].loading = backend[p].loading
          /\ backend'[p].lifecycle = "Loading" => backend[p].lifecycle = "Loading"
          /\ backend'[p].lifecycle # "Absent" => Present(p)
    BY DEF Same, Present
  <2>3. \A x : Spared(x) BY DEF Spared
  <2>4. \A t \in Tasks : LoadInv(t)' /\ ReplaceInv(t)'
    BY <1>1, <1>7, <2>1, <2>2, <2>3, OutsideClaims
  <2> QED BY <1>1, <1>2, <1>3, <1>4, <1>5, <1>7, <2>4 DEF CoreInv, Onward
<1> QED BY <1>4, <1>6, <1>7

\* The holder, old or new, goes to a point with no claim but the lock.
LEMMA HolderGoes ==
  ASSUME LockInv, CoreInv, CoreTypes',
         UNCHANGED <<process, next_generation>>,
         \A p \in Profiles : Same(p),
         \A j \in job' : j.at = "kill" => j \in job,
         NEW u \in Tasks, operation \in {u, Free},
         \A t \in Tasks \ {u} : task'[t] = task[t],
         task'[u].pc \notin OwnPcs \cup {"infer", "cancelling", "reserve", "insert", "replace",
                                       "replacing"},
         RetireInv' \/ UNCHANGED retirement
  PROVE  CoreInv'
<1>1. task'[u].pc \notin ProcPcs BY DEF ProcPcs, OwnPcs, LoadPcs
<1>2. LoadInv(u)' /\ ReplaceInv(u)' /\ ~Carries(u)' /\ LeaseInv(u)'
  BY <1>1 DEF LoadInv, ReplaceInv, Carries, LeaseInv, OwnPcs, LoadPcs
<1>3. \A t \in Tasks \ {u} : Aside(t) BY DEF Aside
<1> QED BY <1>2, <1>3, QuietKeeps

\* Admissions that take the lock, and returns.
LEMMA AdmissionKeeps ==
  ASSUME LockInv, CoreInv, CoreTypes', NEW t \in Tasks,
         \/ \E p \in Profiles : AdmitLoad(t, p)
         \/ \E requested : Reclaim(t, requested)
         \/ AdmitPrimary(t)
         \/ ReclaimEnds(t)
  PROVE  CoreInv'
<1>1. /\ UNCHANGED <<process, backend, next_generation, retirement, job>>
      /\ operation \in {t, Free}
  BY DEF AdmitLoad, Reclaim, AdmitPrimary, ReclaimEnds, table, At, LockInv, Claims, HoldPcs
<1>2. /\ task'[t].pc \in {"admit", "reclaim", "evict", "match", "idle"}
      /\ \A u \in Tasks \ {t} : task'[u] = task[u]
  <2>1. CASE \E p \in Profiles : AdmitLoad(t, p)
    <3>1. PICK p \in Profiles : AdmitLoad(t, p) BY <2>1
    <3> DEFINE r == [Idle EXCEPT !.pc = "admit", !.prof = p, !.version = version[p]]
    <3>2. task' = [task EXCEPT ![t] = r] BY <3>1 DEF AdmitLoad
    <3>3. r.pc = "admit" BY DEF Idle
    <3> HIDE DEF r
    <3> QED BY <3>2, <3>3 DEF LockInv, CoreTypes
  <2>2. CASE Return(t) BY <2>2 DEF Return, Idle, LockInv, CoreTypes
  <2>3. CASE \E pc \in {"reclaim", "evict", "match"} : GoTo(t, pc)
    BY <2>3 DEF GoTo, LockInv, CoreTypes, Task
  <2> QED BY <2>1, <2>2, <2>3 DEF Reclaim, AdmitPrimary, ReclaimEnds
<1>3. \A p \in Profiles : Same(p) BY <1>1 DEF Same
<1>4. task'[t].pc \notin OwnPcs \cup {"infer", "cancelling", "reserve", "insert", "replace",
                                    "replacing"}
  BY <1>2 DEF OwnPcs, LoadPcs
<1> QED BY <1>1, <1>2, <1>3, <1>4, HolderGoes

\* The existing entry is met: the caller returns, goes on to it, replaces it
\* or reserves where there is none.
LEMMA MatchKeeps ==
  ASSUME LockInv, CoreInv, CoreTypes', NEW t \in Callers,
         MatchExisting(t) \/ \E override \in BOOLEAN : MatchLoad(t, override)
  PROVE  CoreInv'
<1> DEFINE p == task[t].prof
<1>1. /\ t \in Tasks /\ operation = t /\ p \in Profiles
      /\ UNCHANGED <<process, next_generation, retirement, job>>
      /\ task \in [Tasks -> Task] /\ backend \in [Profiles -> Backend]
  BY DEF MatchExisting, MatchLoad, table, At, LockInv, Claims, CoreTypes, HoldPcs, Tasks, Callers
<1>2. \A q \in Profiles : Same(q)
  <2>1. CASE UNCHANGED backend BY <2>1 DEF Same
  <2>2. CASE backend' = [backend EXCEPT ![p].residency = "Pinned"]
    BY <1>1, <2>2 DEF Same, Backend
  <2> QED BY <2>1, <2>2 DEF MatchExisting, MatchLoad, table
<1>3. \/ Return(t)
      \/ GoTo(t, "acquire")
      \/ GoTo(t, "replace") /\ todo' = {p}
      \/ GoTo(t, "reserve") /\ ~Present(p)
  BY DEF MatchExisting, MatchLoad, Present
<1>4. /\ \A u \in Tasks \ {t} : task'[u] = task[u]
      /\ \/ task'[t].pc \in {"idle", "acquire"}
         \/ task'[t].pc = "replace" /\ task'[t].prof = p /\ todo' = {p}
         \/ task'[t].pc = "reserve" /\ task'[t].prof = p /\ ~Present(p)
  BY <1>1, <1>3 DEF Return, GoTo, Idle, Task
<1>5. task'[t].pc \notin OwnPcs \cup ProcPcs \cup {"infer", "cancelling"}
  BY <1>4 DEF OwnPcs, LoadPcs, ProcPcs
<1>6. LoadInv(t)' /\ LeaseInv(t)' /\ ~Carries(t)'
  BY <1>4, <1>5 DEF LoadInv, LeaseInv, Carries
<1>7. ReplaceInv(t)'
  BY <1>1, <1>2, <1>4 DEF ReplaceInv, Present, Same
<1>8. \A u \in Tasks \ {t} : Aside(u) BY <1>4 DEF Aside
<1> QED BY <1>1, <1>2, <1>5, <1>6, <1>7, <1>8, QuietKeeps

\* Steps of a load that write at most its lease.
LEMMA LoadMovesKeep ==
  ASSUME LockInv, CoreInv, CoreTypes', NEW t \in Callers,
         \/ Reserve(t) \/ HandOff(t) \/ BeginLoad(t) \/ StoreLease(t) \/ PrepareLaunch(t)
         \/ AwaitStartup(t) \/ CommitRefused(t)
  PROVE  CoreInv'
<1> DEFINE p == task[t].prof
<1>0. task[t].pc \in {"reserve", "handoff", "begin", "select", "launch", "starting", "commit"}
  BY DEF Reserve, HandOff, BeginLoad, StoreLease, PrepareLaunch, AwaitStartup, CommitRefused, At
<1>1. /\ t \in Tasks /\ operation = t /\ p \in Profiles
      /\ UNCHANGED <<process, next_generation, retirement, job>>
      /\ task \in [Tasks -> Task] /\ backend \in [Profiles -> Backend]
  BY <1>0 DEF Reserve, HandOff, BeginLoad, StoreLease, PrepareLaunch, AwaitStartup, CommitRefused,
     table, At, LockInv, Claims, CoreTypes, HoldPcs, LoadPcs, Tasks, Callers
<1>2. \A q \in Profiles : Same(q)
  <2>1. CASE UNCHANGED backend BY <2>1 DEF Same
  <2>2. CASE backend' = [backend EXCEPT ![p].lease = TRUE]
    BY <1>1, <2>2 DEF Same, Backend
  <2> QED BY <2>1, <2>2 DEF Reserve, HandOff, BeginLoad, StoreLease, PrepareLaunch, AwaitStartup,
     CommitRefused, table
<1>3. CASE Return(t)
  <2>1. task'[t] = Idle /\ \A u \in Tasks \ {t} : task'[u] = task[u]
    BY <1>1, <1>3 DEF Return
  <2>2. task'[t].pc \notin OwnPcs \cup {"infer", "cancelling", "reserve", "insert", "replace",
                                      "replacing"}
    BY <2>1 DEF Idle, OwnPcs, LoadPcs
  <2> QED BY <1>1, <1>2, <2>1, <2>2, HolderGoes
<1>4. CASE ~Return(t)
  <2>1. PICK pc : /\ GoTo(t, pc)
                  /\ \/ task[t].pc = "reserve" /\ pc = "insert"
                     \/ task[t].pc \in OwnPcs \ ProcPcs /\ pc \in OwnPcs \ ProcPcs
                     \/ task[t].pc = "starting" /\ pc \in {"commit", "retry", "abort"}
                     \/ task[t].pc = "commit" /\ pc = "abort"
    BY <1>4 DEF Reserve, HandOff, BeginLoad, StoreLease, PrepareLaunch, AwaitStartup,
       CommitRefused, At, OwnPcs, LoadPcs, ProcPcs
  <2>2. /\ task'[t].pc = pc /\ task'[t].prof = p /\ task'[t].proc = task[t].proc
        /\ \A u \in Tasks \ {t} : task'[u] = task[u]
    BY <1>1, <2>1 DEF GoTo, Task
  <2>3. LoadInv(t) /\ ReplaceInv(t) BY <1>1 DEF CoreInv
  <2>4. Carries(t)' => Carries(t)
    BY <2>1, <2>2 DEF Carries, ProcPcs
  <2>5. LoadInv(t)'
    BY <1>1, <1>2, <2>1, <2>2, <2>3 DEF LoadInv, Same, Carries, ProcPcs, OwnPcs, LoadPcs, Born
  <2>6. ReplaceInv(t)'
    BY <1>1, <1>2, <2>1, <2>2, <2>3 DEF ReplaceInv, Present, Same, OwnPcs, LoadPcs
  <2>7. pc \notin {"infer", "cancelling"} BY <2>1 DEF OwnPcs, LoadPcs
  <2>8. LeaseInv(t)' BY <2>2, <2>7 DEF LeaseInv
  <2>9. \A u \in Tasks \ {t} : Aside(u) BY <2>2 DEF Aside
  <2> QED BY <1>1, <1>2, <2>2, <2>4, <2>5, <2>6, <2>7, <2>8, <2>9, QuietKeeps
<1> QED BY <1>3, <1>4

\* A lease is only given out for an entry that is Running.
LEMMA TakeLeaseFacts ==
  ASSUME LockInv, CoreInv, NEW t \in Requests, task[t].pc # "idle",
         Routable(backend[task[t].prof]), TakeLease(t), UNCHANGED <<process, backend>>
  PROVE  /\ \A u \in Tasks \ {t} : task'[u] = task[u]
         /\ task'[t].pc \in {"idle", "infer"}
         /\ LeaseInv(t)'
         /\ task'[t].pc = "infer" /\ retirement.at \in {"drain", "killing"}
              => task'[t].generation # retirement.generation
<1> DEFINE p == task[t].prof
           b == backend[p]
           r == [task[t] EXCEPT !.pc = "infer", !.generation = b.generation, !.proc = b.running]
<1>1. /\ t \in Tasks /\ t \in Callers /\ task[t] \in Task /\ p \in Profiles
      /\ task \in [Tasks -> Task] /\ b \in Backend
  BY DEF LockInv, Claims, CoreTypes, Tasks, Callers
<1>2. OwnEntry(p) /\ b.lifecycle = "Running" BY <1>1 DEF CoreInv, EntryInv, Routable
<1>3. /\ b.running # NoProcess /\ Born(b.running) /\ ~process[b.running].terminate
      /\ b.generation # 0
  BY <1>2 DEF OwnEntry
<1>4. /\ r.pc = "infer" /\ r.prof = p /\ r.generation = b.generation /\ r.proc = b.running
  BY <1>1 DEF Task
<1>5. task' = [task EXCEPT ![t] = r] \/ task' = [task EXCEPT ![t] = Idle]
  BY DEF TakeLease
<1>6. Idle.pc = "idle" BY DEF Idle
<1> HIDE DEF r
<1>7. /\ task'[t] = r \/ task'[t] = Idle
      /\ \A u \in Tasks \ {t} : task'[u] = task[u]
  BY <1>1, <1>5
<1>8. LeaseInv(t)'
  BY <1>2, <1>3, <1>4, <1>6, <1>7 DEF LeaseInv, Attached, Born
<1>9. ASSUME retirement.at \in {"drain", "killing"} PROVE b.generation # retirement.generation
  <2>1. /\ retirement.prof \in Profiles
        /\ backend[retirement.prof].lifecycle = "Stopping"
        /\ backend[retirement.prof].generation = retirement.generation
    BY <1>9 DEF CoreInv, RetireInv
  <2>2. retirement.prof # p BY <1>2, <2>1
  <2>3. Apart(p, retirement.prof) BY <1>1, <2>1, <2>2 DEF CoreInv, EntryInv
  <2> QED BY <1>3, <2>1, <2>3 DEF Apart
<1> QED BY <1>4, <1>6, <1>7, <1>8, <1>9

\* Requests: routed, refused, begun and ended.
LEMMA RequestKeeps ==
  ASSUME LockInv, CoreInv, CoreTypes', NEW t \in Requests,
         \/ \E p \in Profiles, s \in Sessions, role \in {"Primary", "Auxiliary"},
              decision \in BOOLEAN : InferenceTarget(t, p, s, role, decision)
         \/ TryFastTarget(t)
         \/ AcquireTarget(t)
         \/ InferenceEnds(t)
  PROVE  CoreInv'
<1>1. /\ t \in Tasks /\ task \in [Tasks -> Task]
      /\ UNCHANGED <<process, backend, next_generation, retirement, todo>>
  BY DEF InferenceTarget, TryFastTarget, AcquireTarget, InferenceEnds, table, Tasks, LockInv,
         CoreTypes
<1>2. \A p \in Profiles : Same(p) BY <1>1 DEF Same
<1>3. \A j \in job' : j.at = "kill" => j \in job
  <2>1. job' = job \/ AbandonDecision(t)
    BY DEF InferenceTarget, TryFastTarget, AcquireTarget, InferenceEnds
  <2> QED BY <2>1 DEF AbandonDecision, DecisionGuard
<1>4. /\ \A u \in Tasks \ {t} : task'[u] = task[u]
      /\ task'[t].pc \in {"idle", "fast", "wait", "infer"}
      /\ LeaseInv(t)'
      /\ task'[t].pc = "infer" /\ retirement.at \in {"drain", "killing"}
           => task'[t].generation # retirement.generation
  <2>1. ASSUME NEW r, task' = [task EXCEPT ![t] = r], r.pc \in {"idle", "fast", "wait"}
        PROVE  /\ \A u \in Tasks \ {t} : task'[u] = task[u]
               /\ task'[t].pc \in {"idle", "fast", "wait"}
               /\ LeaseInv(t)'
    BY <1>1, <2>1 DEF LeaseInv
  <2>2. ASSUME NEW p \in Profiles, NEW s \in Sessions, NEW role \in {"Primary", "Auxiliary"},
               NEW decision \in BOOLEAN, InferenceTarget(t, p, s, role, decision)
        PROVE  /\ \A u \in Tasks \ {t} : task'[u] = task[u]
               /\ task'[t].pc \in {"idle", "fast", "wait"}
               /\ LeaseInv(t)'
    <3> DEFINE r == [Idle EXCEPT !.pc = "fast", !.prof = p, !.sess = s, !.role = role,
                                 !.decision = decision, !.version = version[p]]
    <3>1. task' = [task EXCEPT ![t] = r] BY <2>2 DEF InferenceTarget
    <3>2. r.pc = "fast" BY DEF Idle
    <3> HIDE DEF r
    <3> QED BY <2>1, <3>1, <3>2
  <2>3. CASE task' = [task EXCEPT ![t] = Idle] BY <2>1, <2>3 DEF Idle
  <2>4. CASE GoTo(t, "wait")
    BY <1>1, <2>4 DEF GoTo, Task, LeaseInv
  <2>5. CASE Routable(backend[task[t].prof]) /\ TakeLease(t) /\ task[t].pc # "idle"
    BY <1>1, <2>5, TakeLeaseFacts
  <2> QED BY <2>2, <2>3, <2>4, <2>5 DEF TryFastTarget, FastRoute, AcquireTarget, InferenceEnds, At
<1>5. task'[t].pc \notin HoldPcs \cup {"cancelling"}
  BY <1>4 DEF HoldPcs, LoadPcs, StopPcs
<1>6. LoadInv(t)' /\ ReplaceInv(t)' /\ ~Carries(t)' BY <1>1, <1>5, NoClaimNext
<1>7. \A u \in Tasks \ {t} : Aside(u) BY <1>4 DEF Aside
<1> QED BY <1>1, <1>2, <1>3, <1>4, <1>5, <1>6, <1>7, QuietKeeps

\* A task goes and its lock is freed or left with the retirement.
LEMMA DropKeeps ==
  ASSUME LockInv, CoreInv, CoreTypes', NEW t \in Tasks, task'[t] = Idle, DropOperation(t),
         UNCHANGED <<process, backend, next_generation>>,
         \A j \in job' : j.at = "kill" => j \in job,
         \A u \in Tasks \ {t} : Aside(u)
  PROVE  CoreInv'
<1>1. task'[t].pc = "idle" /\ task'[t].pc \notin HoldPcs
  BY DEF Idle, HoldPcs, LoadPcs, StopPcs
<1>2. Aside(t) BY <1>1 DEF Aside
<1>3. \A p \in Profiles : Same(p) BY DEF Same
<1>4. CASE operation # t
  <2>1. UNCHANGED <<todo, retirement>> BY <1>4 DEF DropOperation
  <2> QED BY <1>1, <1>2, <1>3, <2>1, QuietKeeps
<1>5. CASE operation = t
  <2>1. LoadInv(t)' /\ ReplaceInv(t)' BY <1>1, NoClaimNext
  <2>2. RetireInv' \/ UNCHANGED retirement
    BY <1>5 DEF DropOperation, RetireInv, NoRetirement
  <2> QED BY <1>1, <1>2, <1>3, <1>5, <2>1, <2>2, QuietKeeps
<1> QED BY <1>4, <1>5

LEMMA DropsKeep ==
  ASSUME LockInv, CoreInv, CoreTypes',
         \/ \E t \in Callers : DropRequest(t) \/ DropLoader(t)
         \/ ShutdownCollects
  PROVE  CoreInv'
<1>0. task \in [Tasks -> Task] /\ UNCHANGED <<process, backend, next_generation>>
  BY DEF DropRequest, DropLoader, ShutdownCollects, table, LockInv, CoreTypes
<1>1. CASE \E t \in Callers : DropRequest(t) \/ DropLoader(t)
  <2>1. PICK t \in Callers : DropRequest(t) \/ DropLoader(t) BY <1>1
  <2>2. /\ t \in Tasks /\ task' = [task EXCEPT ![t] = Idle] /\ DropOperation(t)
    BY <2>1 DEF DropRequest, DropLoader, Tasks, Callers
  <2>3. \/ job' = job
        \/ job' = job \cup {JitGuard(task[t].prof, task[t].generation)}
        \/ job' = job \cup {DecisionGuard(task[t].prof, task[t].generation)}
    BY <2>1 DEF DropRequest, DropLoader, AbandonDecision
  <2>4. \A j \in job' : j.at = "kill" => j \in job
    BY <2>3 DEF JitGuard, DecisionGuard
  <2>5. task'[t] = Idle /\ \A u \in Tasks \ {t} : Aside(u)
    BY <1>0, <2>2 DEF Aside
  <2> QED BY <1>0, <2>2, <2>4, <2>5, DropKeeps
<1>2. CASE ShutdownCollects
  <2>1. /\ Reaper \in Tasks /\ Closer \in Tasks /\ Reaper # Closer
        /\ task' = [task EXCEPT ![Reaper] = Idle, ![Closer].pc = "cancel"]
        /\ DropOperation(Reaper) /\ job' = job
    BY <1>2, ManagerAssumption DEF ShutdownCollects, Tasks
  <2>2. /\ task'[Reaper] = Idle
        /\ task'[Closer].pc = "cancel"
        /\ \A u \in Tasks \ {Reaper, Closer} : task'[u] = task[u]
    BY <1>0, <2>1 DEF Task
  <2>3. \A u \in Tasks \ {Reaper} : Aside(u)
    BY <2>2 DEF Aside, HoldPcs, LoadPcs, StopPcs
  <2> QED BY <1>0, <2>1, <2>2, <2>3, DropKeeps
<1> QED BY <1>1, <1>2

\* Steps beside the table: the guards' and the unload's waiting, shutdown on
\* its way to the lock, edits.
LEMMA BesidesKeep ==
  ASSUME LockInv, CoreInv, CoreTypes', NEW p, NEW j,
         \/ UnloadCalled(p)
         \/ EditProfile(p)
         \/ j \in job /\ JobKilled(j)
         \/ j \in job /\ JobCancels(j) /\ UNCHANGED backend
         \/ ShutdownCalled
         \/ ShutdownKills /\ UNCHANGED process
         \/ ShutdownCancels(p) /\ UNCHANGED backend
         \/ UNCHANGED vars
  PROVE  CoreInv'
<1>1. /\ UNCHANGED <<process, backend, next_generation, todo, retirement>>
      /\ Closer \in Tasks /\ task \in [Tasks -> Task] /\ backend \in [Profiles -> Backend]
  BY DEF UnloadCalled, EditProfile, JobKilled, JobCancels, ShutdownCalled, ShutdownKills,
         ShutdownCancels, table, vars, Tasks, LockInv, CoreTypes
<1>2. \A q \in Profiles : Same(q) BY <1>1 DEF Same
<1>3. \A k \in job' : k.at = "kill" => k \in job
  <2>1. CASE UNCHANGED job BY <2>1
  <2>2. CASE UnloadCalled(p) BY <2>2 DEF UnloadCalled, Unload
  <2>3. CASE j \in job /\ job' = (job \ {j}) \cup {[j EXCEPT !.at = "lock"]}
    BY <2>3 DEF LockInv, CoreTypes, Job
  <2>4. CASE j \in job /\ job' = (job \ {j}) \cup {[j EXCEPT !.at = "lock", !.proc = NoProcess]}
    BY <2>4 DEF LockInv, CoreTypes, Job
  <2>5. CASE j \in job /\ JobCancels(j) /\ UNCHANGED backend
    <3>1. CASE Cancels(j.prof, j.generation)
      <4>1. /\ MarkCancelled(j.prof) /\ j.prof \in Profiles
            /\ backend[j.prof].lifecycle = "Loading"
        BY <2>5, <3>1 DEF JobCancels, Cancels, LockInv, CoreTypes, Job
      <4>2. backend'[j.prof].lifecycle = "Stopping"
        BY <1>1, <4>1 DEF MarkCancelled, Backend
      <4> QED BY <1>1, <4>1, <4>2
    <3>2. CASE ~Cancels(j.prof, j.generation)
      BY <2>3, <2>5, <3>2 DEF JobCancels, Becomes
    <3> QED BY <3>1, <3>2
  <2> QED BY <2>1, <2>2, <2>3, <2>4, <2>5 DEF EditProfile, JobKilled, Becomes, ShutdownCalled,
     ShutdownKills, ShutdownCancels, vars
<1>4. /\ \A u \in Tasks \ {Closer} : task'[u] = task[u]
      /\ task'[Closer] = task[Closer] \/ task'[Closer].pc \in {"snapshot", "cancel"}
  <2>1. CASE UNCHANGED task BY <2>1
  <2>2. CASE ShutdownCalled BY <1>1, <2>2 DEF ShutdownCalled, GoTo, Task
  <2>3. CASE ShutdownKills /\ UNCHANGED process
    BY <1>1, <2>3 DEF ShutdownKills, Task
  <2>4. CASE ShutdownCancels(p) /\ UNCHANGED backend
    <3>1. CASE Cancels(p, 0)
      <4>1. MarkCancelled(p) /\ backend[p].lifecycle = "Loading" BY <2>4, <3>1 DEF ShutdownCancels, Cancels
      <4> QED BY <1>1, <2>4, <4>1 DEF MarkCancelled, Backend
    <3>2. CASE ~Cancels(p, 0) BY <2>4, <3>2 DEF ShutdownCancels
    <3> QED BY <3>1, <3>2
  <2> QED BY <2>1, <2>2, <2>3, <2>4 DEF UnloadCalled, EditProfile, JobKilled, JobCancels, vars
<1>5. \A u \in Tasks : Aside(u)
  BY <1>4 DEF Aside, HoldPcs, LoadPcs, StopPcs
<1>6. task'[Closer] = task[Closer] \/ task'[Closer].pc \notin HoldPcs
  BY <1>4 DEF HoldPcs, LoadPcs, StopPcs
<1> QED BY <1>1, <1>2, <1>3, <1>5, <1>6, QuietKeeps

-----------------------------------------------------------------------------
(* Stops.                                                                  *)

\* The mark of a stop: no load is in progress, and the requests go on.
LEMMA MarkStopKeeps ==
  ASSUME LockInv, CoreInv, CoreTypes', UNCHANGED <<process, next_generation>>,
         NEW q \in Profiles, Present(q), MarkStopping(q),
         \A j \in job' : j.at = "kill" => j \in job,
         \A t \in Tasks :
           \/ Aside(t) /\ task'[t].pc \notin HoldPcs
           \/ /\ task'[t].pc \notin OwnPcs \cup {"infer", "cancelling", "reserve", "insert", "replace"}
              /\ task'[t].pc = "replacing" => t \in Callers /\ task'[t].prof = q
  PROVE  CoreInv'
<1>1. /\ backend \in [Profiles -> Backend] /\ backend[q] \in Backend
      /\ backend' = [backend EXCEPT ![q] = [backend[q] EXCEPT !.retiring = TRUE,
                                                              !.lifecycle = "Stopping"]]
  <2>1. backend \in [Profiles -> Backend] /\ backend[q] \in Backend BY DEF LockInv, CoreTypes
  <2> QED BY <2>1 DEF MarkStopping, Backend
<1>2. /\ backend'[q].lifecycle = "Stopping"
      /\ backend'[q].generation = backend[q].generation
      /\ backend'[q].running = backend[q].running
      /\ backend'[q].loading = backend[q].loading
      /\ \A p \in Profiles \ {q} : backend'[p] = backend[p]
  BY <1>1 DEF Backend
<1>3. Onward BY DEF Onward, CoreInv, ProcInv, SupervisorTypeOK, Live, Born, Exited
<1>4. EntryInv'
  <2>1. OwnEntry(q)' BY <1>2 DEF CoreInv, EntryInv, OwnEntry, Present, Born
  <2>2. next_generation <= next_generation' BY ManagerAssumption DEF LockInv, CoreTypes
  <2>3. Uses(q)' \subseteq Uses(q) BY <1>2 DEF Uses
  <2>4. \A p \in Profiles \ {q} : Same(p) /\ Spared(backend[p].running)
    BY <1>2 DEF Same, Spared
  <2> QED BY <1>2, <1>3, <2>1, <2>2, <2>3, <2>4, EntryShrinks DEF LockInv, CoreInv
<1>5. \A t \in Tasks : LeaseInv(t)'
  <2>1. \A p \in Profiles : Serves(p) => Still(p) BY <1>2 DEF Serves, Still
  <2>2. \A t \in Tasks : task'[t] = task[t] \/ task'[t].pc # "infer" BY DEF Aside
  <2>3. \A x \in Process : Spared(x) \/ ~Ridden(x) BY DEF Spared
  <2> QED BY <1>3, <2>1, <2>2, <2>3, LeasesKept
<1>6. RetireInv'
  <2>1. retirement' = [at |-> "drain", prof |-> q, generation |-> backend[q].generation,
                       proc |-> IF backend[q].running # NoProcess THEN backend[q].running
                                ELSE backend[q].loading]
    BY DEF MarkStopping
  <2> QED BY <1>2, <2>1 DEF RetireInv
<1>7. \A t \in Tasks : LoadInv(t)' /\ ReplaceInv(t)' /\ ~Carries(t)'
  <2> TAKE t \in Tasks
  <2>1. CASE task'[t].pc \notin HoldPcs BY <2>1, NoClaimNext
  <2>2. CASE /\ task'[t].pc \notin OwnPcs \cup {"infer", "cancelling", "reserve", "insert", "replace"}
             /\ task'[t].pc = "replacing" => t \in Callers /\ task'[t].prof = q
    <3>1. task'[t].pc \notin ProcPcs BY <2>2 DEF ProcPcs, OwnPcs, LoadPcs
    <3>2. LoadInv(t)' /\ ~Carries(t)'
      BY <2>2, <3>1 DEF LoadInv, Carries, ProcPcs
    <3>3. ReplaceInv(t)' BY <2>2 DEF ReplaceInv, MarkStopping
    <3> QED BY <3>2, <3>3
  <2> QED BY <2>1, <2>2
<1>8. DoomInv'
  <2>1. ASSUME NEW x, Doomed(x) PROVE Doomed(x)'
    <3>1. \A p \in Profiles : backend'[p].running = backend[p].running BY <1>2
    <3> QED BY <1>3, <1>7, <2>1, <3>1, DoomedKept
  <2>2. task'[Closer].pc = "cancelling" => task'[Closer] = task[Closer]
    BY DEF Aside, Tasks
  <2> QED BY <1>3, <2>1, <2>2, KillsKept
<1> QED BY <1>3, <1>4, <1>5, <1>6, <1>7, <1>8 DEF CoreInv, Onward

\* stop_backend_with_operation_held up to its spawned task, and its completion.
LEMMA StopBeginsKeeps ==
  ASSUME LockInv, CoreInv, CoreTypes', NEW t \in Tasks, NEW q \in Profiles, StopBegins(t, q)
  PROVE  CoreInv'
<1>1. /\ task[t].pc \in {"evict", "replace", "reclaim", "stop"}
      /\ q \in todo
      /\ UNCHANGED <<process, next_generation, job>>
      /\ task \in [Tasks -> Task]
  BY DEF StopBegins, During, LockInv, CoreTypes
<1>2. operation = t BY <1>1 DEF LockInv, Claims, HoldPcs
<1>3. ReplaceInv(t) BY DEF CoreInv
<1>4. CASE Present(q)
  <2>1. MarkStopping(q) /\ GoTo(t, During[task[t].pc]) BY <1>4 DEF StopBegins
  <2>2. /\ task'[t].pc \in StopPcs
        /\ task'[t].pc = "replacing" => task[t].pc = "replace"
        /\ task'[t].prof = task[t].prof
        /\ \A u \in Tasks \ {t} : task'[u] = task[u]
    BY <1>1, <2>1 DEF GoTo, During, StopPcs, Task
  <2>3. task'[t].pc = "replacing" => t \in Callers /\ task'[t].prof = q
    BY <1>1, <1>3, <2>2 DEF ReplaceInv
  <2>4. task'[t].pc \notin OwnPcs \cup {"infer", "cancelling", "reserve", "insert", "replace"}
    BY <2>2 DEF StopPcs, OwnPcs, LoadPcs
  <2>5. \A u \in Tasks \ {t} : Aside(u) /\ task'[u].pc \notin HoldPcs
    BY <1>2, <2>2, OnlyHolder DEF Aside
  <2> QED BY <1>1, <1>4, <2>1, <2>3, <2>4, <2>5, MarkStopKeeps
<1>5. CASE ~Present(q)
  <2>1. GoTo(t, After[task[t].pc]) /\ UNCHANGED <<backend, retirement>>
    BY <1>5 DEF StopBegins
  <2>2. /\ task'[t].pc \in {"match", "reserve", "reclaim", "stop"}
        /\ task'[t].pc = "reserve" => task[t].pc = "replace"
        /\ task'[t].prof = task[t].prof
        /\ \A u \in Tasks \ {t} : task'[u] = task[u]
    BY <1>1, <2>1 DEF GoTo, After, Task
  <2>3. ReplaceInv(t)' BY <1>1, <1>3, <1>5, <2>1, <2>2 DEF ReplaceInv, Present
  <2>4. task'[t].pc \notin OwnPcs \cup ProcPcs \cup {"infer", "cancelling"}
    BY <2>2 DEF OwnPcs, LoadPcs, ProcPcs
  <2>5. LoadInv(t)' /\ LeaseInv(t)' /\ ~Carries(t)'
    BY <2>2, <2>4 DEF LoadInv, LeaseInv, Carries
  <2>6. /\ \A p \in Profiles : Same(p)
        /\ \A u \in Tasks \ {t} : Aside(u)
    BY <2>1, <2>2 DEF Same, Aside
  <2> QED BY <1>1, <1>2, <2>1, <2>3, <2>4, <2>5, <2>6, QuietKeeps
<1> QED BY <1>4, <1>5

LEMMA StopReturnsKeeps ==
  ASSUME LockInv, CoreInv, CoreTypes', NEW t \in Tasks, StopReturns(t)
  PROVE  CoreInv'
<1>1. /\ task[t].pc \in StopPcs
      /\ retirement' = NoRetirement
      /\ UNCHANGED <<process, backend, next_generation, job>>
      /\ task \in [Tasks -> Task]
  BY DEF StopReturns, table, LockInv, CoreTypes
<1>2. operation = t BY <1>1 DEF LockInv, Claims, HoldPcs
<1>3. RetireInv' BY <1>1 DEF RetireInv, NoRetirement
<1>4. \A p \in Profiles : Same(p) BY <1>1 DEF Same
<1>5. /\ \A u \in Tasks \ {t} : task'[u] = task[u]
      /\ task'[t].pc \in {"idle", "match", "reserve", "reclaim", "stop"}
      /\ task'[t].pc = "reserve" =>
           task[t].pc = "replacing" /\ retirement.at = "ok" /\ task'[t].prof = task[t].prof
  BY <1>1 DEF StopReturns, Return, GoTo, Idle, Before, After, StopPcs, Task
<1>6. ReplaceInv(t)'
  <2>1. ReplaceInv(t) BY DEF CoreInv
  <2> QED BY <1>1, <1>5, <2>1 DEF ReplaceInv, Present
<1>7. task'[t].pc \notin OwnPcs \cup ProcPcs \cup {"infer", "cancelling"}
  BY <1>5 DEF OwnPcs, LoadPcs, ProcPcs
<1>8. LoadInv(t)' /\ LeaseInv(t)' /\ ~Carries(t)'
  BY <1>5, <1>7 DEF LoadInv, LeaseInv, Carries
<1>9. \A u \in Tasks \ {t} : Aside(u) BY <1>5 DEF Aside
<1> QED BY <1>1, <1>2, <1>3, <1>4, <1>6, <1>7, <1>8, <1>9, QuietKeeps

\* The stop of a guard or an unload begins with a free lock.
LEMMA JobStopsKeeps ==
  ASSUME LockInv, CoreInv, CoreTypes', NEW j \in job, JobStops(j)
  PROVE  CoreInv'
<1>1. /\ operation = Free /\ job' = job \ {j} /\ j.prof \in Profiles
      /\ UNCHANGED <<process, next_generation, task, todo>>
  BY DEF JobStops, LockInv, CoreTypes, Job
<1>2. \A t \in Tasks : Aside(t) /\ task[t].pc \notin HoldPcs
  BY <1>1, ManagerAssumption DEF Aside, LockInv, Claims
<1>3. CASE Owns(j)
  <2>1. Present(j.prof) /\ MarkStopping(j.prof) BY <1>3 DEF JobStops, Owns
  <2> QED BY <1>1, <1>2, <2>1, MarkStopKeeps
<1>4. CASE ~Owns(j)
  <2>1. UNCHANGED <<backend, retirement>> BY <1>4 DEF JobStops
  <2>2. \A p \in Profiles : Same(p) BY <2>1 DEF Same
  <2>3. Closer \in Tasks BY DEF Tasks
  <2> QED BY <1>1, <1>2, <2>1, <2>2, <2>3, QuietKeeps
<1> QED BY <1>3, <1>4

-----------------------------------------------------------------------------
(* Terminations.                                                           *)

\* Nobody runs on a live process whose backend, if any, is drained.
LEMMA NotRidden ==
  ASSUME LockInv, CoreInv, NEW x \in Process, Live(x),
         \A p \in Profiles : Serves(p) /\ backend[p].running = x => Drained(backend[p].generation)
  PROVE  ~Ridden(x)
<1> SUFFICES ASSUME NEW t \in Tasks, At(t, "infer"), task[t].proc = x PROVE FALSE BY DEF Ridden
<1>1. t \in Requests /\ Attached(t)
  BY DEF CoreInv, LeaseInv, At, Exited, Live
<1>2. task[t].prof \in Profiles BY <1>1 DEF LockInv, Claims, At, Callers
<1>3. Serves(task[t].prof) BY <1>1, ProcessNumbers DEF Serves, Attached
<1> QED BY <1>1, <1>2, <1>3 DEF Drained, ActiveRequests, Attached

\* What a Terminate command leaves as it was.
LEMMA TerminateFacts ==
  ASSUME LockInv, CoreInv, CoreTypes', UNCHANGED <<backend, next_generation, job>>,
         NEW x \in Process, SendTerminate(x), ~Ridden(x),
         \A p \in Profiles : backend[p].lifecycle = "Running" => backend[p].running # x,
         \A t \in Tasks :
           \/ task'[t] = task[t]
           \/ /\ task'[t].pc \notin {"infer", "cancelling"}
              /\ Carries(t) /\ task'[t].proc = task[t].proc /\ task'[t].prof = task[t].prof
  PROVE  /\ Onward
         /\ \A y \in Process \ {x} : Spared(y)
         /\ EntryInv'
         /\ \A t \in Tasks : LeaseInv(t)'
         /\ DoomInv'
<1>1. /\ process \in [Process -> ProcessRecord]
      /\ process' = [process EXCEPT ![x] = [process[x] EXCEPT !.terminate = TRUE]]
  <2>1. process \in [Process -> ProcessRecord] BY DEF CoreInv, ProcInv, SupervisorTypeOK
  <2> QED BY <2>1 DEF SendTerminate, ProcessRecord
<1>2. /\ process'[x].status = process[x].status
      /\ process'[x].tracked = process[x].tracked
      /\ process'[x].terminate = TRUE
      /\ process'[x] \in ProcessRecord
      /\ \A y \in Process \ {x} : process'[y] = process[y]
  BY <1>1 DEF ProcessRecord
<1>3. Onward
  <2>1. process' \in [Process -> ProcessRecord] BY <1>1, <1>2
  <2> QED BY <1>2, <2>1 DEF Onward, CoreInv, ProcInv, SupervisorTypeOK, Live, Born, Exited
<1>4. \A y \in Process \ {x} : Spared(y) BY <1>2 DEF Spared
<1>5. EntryInv'
  <2>1. next_generation <= next_generation' BY ManagerAssumption DEF LockInv, CoreTypes
  <2>2. ASSUME NEW p \in Profiles, backend[p].lifecycle = "Running" PROVE Spared(backend[p].running)
    <3>1. backend[p].running \in Process \ {x} BY <2>2 DEF CoreInv, EntryInv, OwnEntry, Born
    <3> QED BY <1>4, <3>1
  <2>3. \A p \in Profiles : Same(p) BY DEF Same
  <2> QED BY <1>3, <2>1, <2>2, <2>3, EntriesSame DEF LockInv, CoreInv
<1>6. \A t \in Tasks : LeaseInv(t)'
  <2>1. \A p \in Profiles : Serves(p) => Still(p) BY DEF Serves, Still
  <2> QED BY <1>3, <1>4, <2>1, LeasesKept
<1>7. DoomInv'
  <2>1. \A t \in Tasks : Carries(t)' =>
          Carries(t) /\ task'[t].proc = task[t].proc /\ task'[t].prof = task[t].prof
    BY DEF Carries
  <2>2. ASSUME NEW y, Doomed(y) PROVE Doomed(y)'
    BY <1>3, <2>1, <2>2, DoomedKept
  <2>3. task'[Closer].pc = "cancelling" => task'[Closer] = task[Closer] BY DEF Tasks
  <2> QED BY <1>3, <2>2, <2>3, KillsKept
<1> QED BY <1>3, <1>4, <1>5, <1>6, <1>7

\* A Doomed process is told to terminate.
LEMMA KillDoomedKeeps ==
  ASSUME LockInv, CoreInv, CoreTypes',
         UNCHANGED <<backend, next_generation, task, job, todo, retirement>>,
         NEW x, Doomed(x), SendTerminate(x)
  PROVE  CoreInv'
<1>1. x \in Process /\ Live(x) BY DEF Doomed, Born, SendTerminate
<1>2. ~Ridden(x) BY <1>1, NotRidden DEF Doomed
<1>3. /\ Onward /\ EntryInv' /\ DoomInv'
      /\ \A t \in Tasks : LeaseInv(t)'
      /\ \A y \in Process \ {x} : Spared(y)
  BY <1>1, <1>2, TerminateFacts DEF Doomed
<1>4. RetireInv'
  <2>1. retirement.at \in {"drain", "killing"} => Same(retirement.prof) BY DEF Same
  <2> QED BY <2>1, RetirementKept DEF CoreInv, Tasks
<1>5. \A t \in Tasks : LoadInv(t)' /\ ReplaceInv(t)'
  <2>1. ASSUME NEW t \in Tasks, Carries(t), backend[task[t].prof].lifecycle = "Loading"
        PROVE  Spared(task[t].proc)
    <3>1. task[t].proc # x BY <2>1 DEF Doomed
    <3>2. task[t].proc \in Process BY <2>1 DEF CoreInv, LoadInv, Born
    <3> QED BY <1>3, <3>1, <3>2
  <2> QED BY <1>3, <2>1, OutsideClaims DEF Present
<1> QED BY <1>3, <1>4, <1>5 DEF CoreInv, Onward

LEMMA KillsKeep ==
  ASSUME LockInv, CoreInv, CoreTypes',
         \/ \E j \in job : JobSendsKill(j)
         \/ ShutdownKills /\ ~UNCHANGED process
  PROVE  CoreInv'
<1>1. CASE \E j \in job : JobSendsKill(j)
  <2>1. PICK j \in job : JobSendsKill(j) BY <1>1
  <2>2. Doomed(j.proc) BY <2>1 DEF JobSendsKill, CoreInv, DoomInv
  <2> QED BY <2>1, <2>2, KillDoomedKeeps DEF JobSendsKill, table
<1>2. CASE ShutdownKills /\ ~UNCHANGED process
  <2>1. Doomed(task[Closer].proc) BY <1>2 DEF ShutdownKills, CoreInv, DoomInv
  <2> QED BY <1>2, <2>1, KillDoomedKeeps DEF ShutdownKills, table
<1> QED BY <1>1, <1>2

\* A load tells its own process to terminate: it was never `running'.
LEMMA KillSentKeeps ==
  ASSUME LockInv, CoreInv, CoreTypes', NEW t \in Callers, KillSent(t)
  PROVE  CoreInv'
<1> DEFINE x == task[t].proc
           pc == IF At(t, "abort") THEN "aborting" ELSE "retrying"
<1>1. /\ t \in Tasks /\ task[t].pc \in {"abort", "retry"} /\ operation = t
      /\ UNCHANGED <<backend, next_generation, job, todo, retirement>>
      /\ GoTo(t, pc) /\ SendTerminate(x)
      /\ Carries(t) /\ LoadInv(t)
      /\ task \in [Tasks -> Task]
  BY DEF KillSent, table, Tasks, Callers, LockInv, Claims, CoreTypes, HoldPcs, LoadPcs, Carries,
     ProcPcs, CoreInv
<1>2. /\ task'[t].pc \in {"aborting", "retrying"}
      /\ task'[t].prof = task[t].prof /\ task'[t].proc = x
      /\ \A u \in Tasks \ {t} : task'[u] = task[u]
  BY <1>1 DEF GoTo, Task
<1>3. /\ x \in Process /\ Live(x) /\ \A p \in Profiles : backend[p].running # x
  BY <1>1 DEF LoadInv, Born, SendTerminate
<1>4. ~Ridden(x) BY <1>3, NotRidden
<1>5. /\ Onward /\ EntryInv' /\ DoomInv' /\ \A u \in Tasks : LeaseInv(u)'
  <2>1. \A u \in Tasks :
          \/ task'[u] = task[u]
          \/ /\ task'[u].pc \notin {"infer", "cancelling"}
             /\ Carries(u) /\ task'[u].proc = task[u].proc /\ task'[u].prof = task[u].prof
    BY <1>1, <1>2
  <2> HIDE DEF x
  <2> QED BY <1>1, <1>3, <1>4, <2>1, TerminateFacts
<1>6. LoadInv(t)'
  BY <1>1, <1>2, <1>3, <1>5 DEF LoadInv, Carries, ProcPcs, OwnPcs, LoadPcs, Born, Onward
<1>7. ReplaceInv(t)' BY <1>2 DEF ReplaceInv
<1>8. RetireInv'
  <2>1. retirement.at = "none" BY <1>1, NoRetirementHeld DEF StopPcs
  <2> QED BY <1>1, <2>1 DEF RetireInv
<1>9. \A u \in Tasks \ {t} : Aside(u) BY <1>2 DEF Aside
<1> QED BY <1>1, <1>5, <1>6, <1>7, <1>8, <1>9, HolderKeeps DEF Onward

\* The retirement's entry is its own while it works.
LEMMA RetirementFacts ==
  ASSUME LockInv, CoreInv, retirement.at \in {"drain", "killing"}
  PROVE  /\ retirement.prof \in Profiles
         /\ backend[retirement.prof] \in Backend
         /\ backend[retirement.prof].lifecycle = "Stopping"
         /\ backend[retirement.prof].generation = retirement.generation
         /\ Uses(retirement.prof) = {retirement.proc} \ {NoProcess}
         /\ retirement.proc # NoProcess => retirement.proc \in Process
         /\ \A t \in Tasks : task[t].pc \notin HoldPcs \ StopPcs
<1> DEFINE q == retirement.prof
           b == backend[q]
<1>1. /\ q \in Profiles /\ b.lifecycle = "Stopping" /\ b.generation = retirement.generation
      /\ retirement.proc = IF b.running # NoProcess THEN b.running ELSE b.loading
  BY DEF CoreInv, RetireInv
<1>2. b \in Backend BY <1>1 DEF LockInv, CoreTypes
<1>3. OwnEntry(q) BY <1>1 DEF CoreInv, EntryInv
<1>4. Uses(q) = {retirement.proc} \ {NoProcess} BY <1>1, <1>3 DEF OwnEntry, Uses
<1>5. retirement.proc # NoProcess => retirement.proc \in Process
  BY <1>1, <1>3 DEF OwnEntry, Born
<1>6. \A t \in Tasks : task[t].pc \notin HoldPcs \ StopPcs BY OnlyRetirement
<1> QED BY <1>1, <1>2, <1>4, <1>5, <1>6

\* The Terminate of a stop comes after the drain.
LEMMA RetireSendsKeeps ==
  ASSUME LockInv, CoreInv, CoreTypes', RetireSends
  PROVE  CoreInv'
<1> DEFINE q == retirement.prof
           x == retirement.proc
<1>1. /\ retirement.at = "drain" /\ Drained(retirement.generation) /\ x # NoProcess
      /\ SendTerminate(x)
      /\ retirement' = [retirement EXCEPT !.at = "killing"]
      /\ UNCHANGED <<backend, next_generation, task, job, todo>>
  BY DEF RetireSends, table
<1>2. /\ q \in Profiles /\ backend[q].lifecycle = "Stopping"
      /\ backend[q].generation = retirement.generation
      /\ Uses(q) = {x} /\ x \in Process
      /\ \A t \in Tasks : task[t].pc \notin HoldPcs \ StopPcs
  BY <1>1, RetirementFacts
<1>3. Live(x) BY <1>1 DEF SendTerminate
<1>4. ASSUME NEW p \in Profiles, backend[p].running = x PROVE p = q
  <2>1. x \in Uses(p) BY <1>1, <1>4 DEF Uses
  <2> QED BY <1>2, <2>1 DEF CoreInv, EntryInv, Apart
<1>5. ~Ridden(x) BY <1>1, <1>2, <1>3, <1>4, NotRidden
<1>6. /\ Onward /\ EntryInv' /\ DoomInv' /\ \A t \in Tasks : LeaseInv(t)'
  <2>1. \A p \in Profiles : backend[p].lifecycle = "Running" => backend[p].running # x
    BY <1>2, <1>4
  <2> HIDE DEF x
  <2> QED BY <1>1, <1>2, <1>5, <2>1, TerminateFacts
<1>7. RetireInv'
  <2>1. /\ retirement'.at = "killing" /\ retirement'.prof = q
        /\ retirement'.generation = retirement.generation /\ retirement'.proc = x
    BY <1>1 DEF LockInv, CoreTypes, Retirements
  <2>2. Drained(retirement.generation)' = Drained(retirement.generation)
    BY <1>1, <2>1 DEF Drained, ActiveRequests, At
  <2> QED BY <1>1, <2>1, <2>2 DEF CoreInv, RetireInv, Drained, ActiveRequests, At
<1>8. ASSUME NEW t \in Tasks PROVE LoadInv(t)' /\ ReplaceInv(t)'
  <2>1. task[t].pc \notin OwnPcs \cup ProcPcs \cup {"reserve", "insert", "replace"}
    BY <1>2 DEF OwnPcs, LoadPcs, ProcPcs, HoldPcs, StopPcs
  <2>2. LoadInv(t)' BY <1>1, <2>1 DEF LoadInv, Carries, ProcPcs
  <2>3. retirement'.prof = q /\ retirement'.at = "killing"
    BY <1>1 DEF LockInv, CoreTypes, Retirements
  <2>4. ReplaceInv(t)' BY <1>1, <2>1, <2>3 DEF CoreInv, ReplaceInv
  <2> QED BY <2>2, <2>4
<1> QED BY <1>6, <1>7, <1>8 DEF CoreInv, Onward

\* The end of a stop: nobody runs on the backend that is Failed or removed.
LEMMA RetireEndsKeeps ==
  ASSUME LockInv, CoreInv, CoreTypes', RetireFails \/ RetireCompletes
  PROVE  CoreInv'
<1>0. PICK q : q = retirement.prof OBVIOUS
<1>1. /\ retirement.at \in {"drain", "killing"}
      /\ UNCHANGED <<process, next_generation, task, job, todo>>
      /\ backend \in [Profiles -> Backend] /\ task \in [Tasks -> Task]
  BY DEF RetireFails, RetireCompletes, LockInv, CoreTypes
<1>2. /\ q \in Profiles /\ backend[q] \in Backend /\ backend[q].lifecycle = "Stopping"
      /\ backend[q].generation = retirement.generation
      /\ \A t \in Tasks : task[t].pc \notin HoldPcs \ StopPcs
  BY <1>0, <1>1, RetirementFacts
<1>3. Drained(backend[q].generation)
  BY <1>1, <1>2 DEF RetireFails, RetireCompletes, CoreInv, RetireInv
<1>4. /\ \A p \in Profiles \ {q} : backend'[p] = backend[p]
      /\ \/ /\ backend'[q].lifecycle = "Failed"
            /\ backend'[q].generation = backend[q].generation
            /\ backend'[q].running = backend[q].running
            /\ backend'[q].loading = backend[q].loading
            /\ Retired("err")
         \/ /\ backend'[q].lifecycle = "Absent"
            /\ backend'[q].generation = 0
            /\ backend'[q].running = NoProcess
            /\ backend'[q].loading = NoProcess
            /\ Retired("ok")
  <2>1. CASE RetireFails
    <3>1. backend' = [backend EXCEPT ![q].lifecycle = "Failed"] /\ Retired("err")
      BY <1>0, <2>1 DEF RetireFails
    <3>2. /\ backend'[q] = [backend[q] EXCEPT !.lifecycle = "Failed"]
          /\ \A p \in Profiles \ {q} : backend'[p] = backend[p]
      BY <1>1, <1>2, <3>1
    <3> QED BY <1>2, <3>1, <3>2 DEF Backend
  <2>2. CASE RetireCompletes
    <3>1. backend'[q] = NoBackend /\ \A p \in Profiles \ {q} : backend'[p] = backend[p]
      BY <1>0, <1>1, <1>2, <2>2 DEF RetireCompletes, RemoveBackend
    <3> QED BY <2>2, <3>1 DEF NoBackend, RetireCompletes
  <2> QED BY <2>1, <2>2
<1>5. Onward BY <1>1 DEF Onward, CoreInv, ProcInv, SupervisorTypeOK, Live, Born, Exited
<1>6. EntryInv'
  <2>1. OwnEntry(q) BY <1>2 DEF CoreInv, EntryInv
  <2>2. next_generation \in Nat BY ManagerAssumption DEF LockInv, CoreTypes
  <2>3. OwnEntry(q)'
    <3>1. CASE backend'[q].lifecycle = "Failed"
      BY <1>1, <1>2, <1>4, <2>1, <3>1 DEF OwnEntry, Born
    <3>2. CASE backend'[q].lifecycle = "Absent"
      BY <1>1, <1>4, <2>2, <3>2 DEF OwnEntry
    <3> QED BY <1>4, <3>1, <3>2
  <2>4. Uses(q)' \subseteq Uses(q) BY <1>4 DEF Uses
  <2>5. backend'[q].generation \in {backend[q].generation, 0} BY <1>4
  <2>6. \A p \in Profiles \ {q} : Same(p) /\ Spared(backend[p].running)
    BY <1>1, <1>4 DEF Same, Spared
  <2>7. next_generation <= next_generation' BY <1>1, <2>2
  <2> QED BY <1>2, <1>5, <2>3, <2>4, <2>5, <2>6, <2>7, EntryShrinks DEF LockInv, CoreInv
<1>7. \A t \in Tasks : LeaseInv(t)'
  <2>1. \A p \in Profiles : Serves(p) => Still(p) BY <1>3, <1>4 DEF Serves, Still
  <2>2. \A x \in Process : Spared(x) BY <1>1 DEF Spared
  <2> QED BY <1>1, <1>5, <2>1, <2>2, LeasesKept
<1>8. ASSUME NEW t \in Tasks PROVE LoadInv(t)' /\ ReplaceInv(t)' /\ ~Carries(t)'
  <2>1. task[t].pc \notin OwnPcs \cup ProcPcs \cup {"reserve", "insert", "replace"}
    BY <1>2 DEF OwnPcs, LoadPcs, ProcPcs, HoldPcs, StopPcs
  <2>2. LoadInv(t)' /\ ~Carries(t)' BY <1>1, <2>1 DEF LoadInv, Carries, ProcPcs
  <2>3. ASSUME task[t].pc = "replacing"
        PROVE  /\ t \in Callers /\ retirement'.prof = task[t].prof
               /\ retirement'.at = "ok" => ~Present(task[t].prof)'
    <3>1. operation # Retirement
      BY <2>3, ManagerAssumption DEF LockInv, Claims, HoldPcs, StopPcs
    <3>2. retirement.prof = task[t].prof /\ t \in Callers BY <2>3 DEF CoreInv, ReplaceInv
    <3>3. CASE Retired("err")
      <4>1. retirement' = [retirement EXCEPT !.at = "err"] BY <3>1, <3>3 DEF Retired
      <4> QED BY <3>2, <4>1 DEF LockInv, CoreTypes, Retirements
    <3>4. CASE Retired("ok") /\ backend'[q].lifecycle = "Absent"
      <4>1. retirement' = [retirement EXCEPT !.at = "ok"] BY <3>1, <3>4 DEF Retired
      <4>2. retirement'.prof = retirement.prof BY <4>1 DEF LockInv, CoreTypes, Retirements
      <4> QED BY <1>0, <1>1, <3>2, <3>4, <4>2 DEF Present
    <3> QED BY <1>4, <3>3, <3>4
  <2>4. ReplaceInv(t)' BY <1>1, <2>1, <2>3 DEF ReplaceInv
  <2> QED BY <2>2, <2>4
<1>9. RetireInv'
  BY <1>4 DEF Retired, RetireInv, NoRetirement, LockInv, CoreTypes, Retirements
<1>10. DoomInv'
  <2>1. \A p \in Profiles : backend'[p].running \in {backend[p].running, NoProcess}
    BY <1>4
  <2>2. ASSUME NEW x, Doomed(x) PROVE Doomed(x)'
    BY <1>5, <1>8, <2>1, <2>2, DoomedKept
  <2> QED BY <1>1, <1>5, <2>2, KillsKept
<1> QED BY <1>5, <1>6, <1>7, <1>8, <1>9, <1>10 DEF CoreInv, Onward

\* cancel_loading_generation: the entry becomes Stopping, and from then on the
\* process it was loading is Doomed.
LEMMA CancelKeeps ==
  ASSUME LockInv, CoreInv, CoreTypes', UNCHANGED <<process, next_generation, todo, retirement>>,
         NEW p \in Profiles, backend[p].lifecycle = "Loading", MarkCancelled(p),
         \A t \in Tasks : \/ task'[t] = task[t]
                         \/ task'[t].pc \notin HoldPcs \cup {"infer"},
         \A j \in job' : j.at = "kill" =>
           j \in job \/ (j.proc = backend[p].loading /\ j.proc # NoProcess),
         task'[Closer].pc = "cancelling" =>
           \/ task[Closer].pc = "cancelling" /\ task'[Closer].proc = task[Closer].proc
           \/ task'[Closer].proc = backend[p].loading /\ task'[Closer].proc # NoProcess
  PROVE  CoreInv'
<1>1. /\ backend \in [Profiles -> Backend] /\ backend[p] \in Backend
      /\ backend' = [backend EXCEPT ![p] = [backend[p] EXCEPT !.lifecycle = "Stopping",
                                                              !.cancel_loading = TRUE]]
  <2>1. backend \in [Profiles -> Backend] /\ backend[p] \in Backend BY DEF LockInv, CoreTypes
  <2> QED BY <2>1 DEF MarkCancelled, Backend
<1>2. /\ backend'[p].lifecycle = "Stopping"
      /\ backend'[p].generation = backend[p].generation
      /\ backend'[p].running = backend[p].running
      /\ backend'[p].loading = backend[p].loading
      /\ \A q \in Profiles \ {p} : backend'[q] = backend[q]
  BY <1>1 DEF Backend
<1>3. Onward BY DEF Onward, CoreInv, ProcInv, SupervisorTypeOK, Live, Born, Exited
<1>4. OwnEntry(p) BY DEF CoreInv, EntryInv
<1>5. EntryInv'
  <2>1. OwnEntry(p)' BY <1>2, <1>4 DEF OwnEntry, Born
  <2>2. next_generation <= next_generation' BY ManagerAssumption DEF LockInv, CoreTypes
  <2>3. Uses(p)' \subseteq Uses(p) BY <1>2 DEF Uses
  <2>4. \A q \in Profiles \ {p} : Same(q) /\ Spared(backend[q].running)
    BY <1>2 DEF Same, Spared
  <2> QED BY <1>2, <1>3, <2>1, <2>2, <2>3, <2>4, EntryShrinks DEF LockInv, CoreInv
<1>6. \A t \in Tasks : LeaseInv(t)'
  <2>1. \A q \in Profiles : Serves(q) => Still(q) BY <1>2 DEF Serves, Still
  <2>2. \A x \in Process : Spared(x) BY DEF Spared
  <2> QED BY <1>3, <2>1, <2>2, LeasesKept
<1>7. RetireInv'
  <2>1. retirement.at \in {"drain", "killing"} => Same(retirement.prof)
    BY <1>2 DEF CoreInv, RetireInv, Same
  <2> QED BY <2>1, RetirementKept DEF CoreInv, Tasks
<1>8. \A t \in Tasks : LoadInv(t)' /\ ReplaceInv(t)'
  <2>1. \A q \in Profiles :
          /\ backend'[q].running \in {backend[q].running, NoProcess}
          /\ backend'[q].loading = backend[q].loading
          /\ backend'[q].lifecycle = "Loading" => backend[q].lifecycle = "Loading"
          /\ backend'[q].lifecycle # "Absent" => Present(q)
    BY <1>2 DEF Present
  <2>2. \A t \in Tasks : /\ task'[t] = task[t] \/ task'[t].pc \notin HoldPcs
                         /\ Spared(task[t].proc)
    BY DEF Spared
  <2> QED BY <1>3, <2>1, <2>2, OutsideClaims
<1>9. DoomInv'
  <2>1. ASSUME NEW t \in Tasks, Carries(t)'
        PROVE  /\ task'[t] = task[t] /\ Carries(t)
               /\ backend'[task[t].prof].lifecycle =
                    IF task[t].prof = p THEN "Stopping" ELSE backend[task[t].prof].lifecycle
    <3>1. task'[t] = task[t] /\ Carries(t)
      BY <2>1 DEF Carries, ProcPcs, HoldPcs, LoadPcs
    <3>2. task[t].pc \in OwnPcs BY <3>1 DEF Carries, ProcPcs, OwnPcs, LoadPcs
    <3>3. task[t].prof \in Profiles BY <3>2 DEF LockInv, Claims, OwnPcs, LoadPcs
    <3> QED BY <1>2, <3>1, <3>3
  <2>2. ASSUME NEW x, Doomed(x) PROVE Doomed(x)'
    <3>1. \A q \in Profiles : backend'[q].running = backend[q].running BY <1>2
    <3> QED BY <1>3, <2>1, <2>2, <3>1, DoomedKept
  <2>3. ASSUME NEW x, x = backend[p].loading, x # NoProcess PROVE Doomed(x)'
    <3>1. Born(x) /\ backend[p].running # x BY <1>4, <2>3 DEF OwnEntry
    <3>2. ASSUME NEW q \in Profiles \ {p} PROVE backend[q].running # x
      <4>1. Apart(p, q) BY DEF CoreInv, EntryInv
      <4> QED BY <2>3, <4>1 DEF Apart, Uses
    <3>3. ASSUME NEW t \in Tasks, Carries(t), task[t].proc = x PROVE task[t].prof = p
      BY <2>3, <3>3 DEF CoreInv, LoadInv
    <3>4. \A q \in Profiles : backend'[q].running # x BY <1>2, <3>1, <3>2
    <3>5. \A t \in Tasks : Carries(t)' /\ task'[t].proc = x => backend'[task'[t].prof].lifecycle = "Stopping"
      BY <2>1, <3>3
    <3>6. Born(x)' BY <3>1 DEF Born
    <3> QED BY <3>4, <3>5, <3>6 DEF Doomed
  <2>4. \A j \in job' : j.at = "kill" => j \in job \/ Doomed(j.proc)'
    BY <2>3
  <2>5. task'[Closer].pc = "cancelling" =>
          \/ task[Closer].pc = "cancelling" /\ task'[Closer].proc = task[Closer].proc
          \/ Doomed(task[Closer].proc)'
    <3> SUFFICES ASSUME task'[Closer].proc = backend[p].loading, task'[Closer].proc # NoProcess
                 PROVE  Doomed(task[Closer].proc)'
      OBVIOUS
    <3>1. PICK x : x = backend[p].loading OBVIOUS
    <3>2. Doomed(x)' BY <2>3, <3>1
    <3> QED BY <3>1, <3>2 DEF Doomed
  <2> QED BY <1>3, <2>2, <2>4, <2>5, KillsKept
<1> QED BY <1>3, <1>5, <1>6, <1>7, <1>8, <1>9 DEF CoreInv, Onward

LEMMA CancelsKeep ==
  ASSUME LockInv, CoreInv, CoreTypes',
         \/ \E j \in job : JobCancels(j) /\ Cancels(j.prof, j.generation)
         \/ \E p \in Profiles : ShutdownCancels(p) /\ Cancels(p, 0)
  PROVE  CoreInv'
<1>1. CASE \E j \in job : JobCancels(j) /\ Cancels(j.prof, j.generation)
  <2>1. PICK j \in job : JobCancels(j) /\ Cancels(j.prof, j.generation) BY <1>1
  <2>2. j \in Job /\ j.prof \in Profiles BY DEF LockInv, CoreTypes, Job
  <2> DEFINE p == j.prof
             x == backend[p].loading
             at == IF x = NoProcess THEN "lock" ELSE "kill"
             k == [j EXCEPT !.at = at, !.proc = x]
  <2>3. /\ UNCHANGED <<process, next_generation, todo, retirement, task>>
        /\ backend[p].lifecycle = "Loading" /\ MarkCancelled(p)
        /\ job' = (job \ {j}) \cup {k}
    BY <2>1 DEF JobCancels, Cancels, Becomes
  <2>4. k.at = "kill" => k.proc = x /\ k.proc # NoProcess
    BY <2>2 DEF Job
  <2>5. \A i \in job' : i.at = "kill" =>
          i \in job \/ (i.proc = backend[p].loading /\ i.proc # NoProcess)
    BY <2>3, <2>4
  <2> QED BY <2>2, <2>3, <2>5, CancelKeeps
<1>2. CASE \E p \in Profiles : ShutdownCancels(p) /\ Cancels(p, 0)
  <2>1. PICK p \in Profiles : ShutdownCancels(p) /\ Cancels(p, 0) BY <1>2
  <2>2. /\ UNCHANGED <<process, next_generation, todo, retirement, job>>
        /\ backend[p].lifecycle = "Loading" /\ MarkCancelled(p)
        /\ task' = [task EXCEPT ![Closer].proc = backend[p].loading,
                                ![Closer].pc = IF backend[p].loading = NoProcess
                                               THEN "cancel" ELSE "cancelling"]
        /\ task \in [Tasks -> Task] /\ Closer \in Tasks
    BY <2>1 DEF ShutdownCancels, Cancels, LockInv, CoreTypes, Tasks
  <2>3. /\ \A t \in Tasks \ {Closer} : task'[t] = task[t]
        /\ task'[Closer].pc = IF backend[p].loading = NoProcess THEN "cancel" ELSE "cancelling"
        /\ task'[Closer].proc = backend[p].loading
    BY <2>2 DEF Task
  <2>4. task'[Closer].pc \notin HoldPcs \cup {"infer"}
    BY <2>3 DEF HoldPcs, LoadPcs, StopPcs
  <2> QED BY <2>2, <2>3, <2>4, CancelKeeps
<1> QED BY <1>1, <1>2

-----------------------------------------------------------------------------
(* Loads that write their entry or spawn.                                  *)

\* A load with the lock changes its own entry, on which nobody runs.
LEMMA LoadWrites ==
  ASSUME LockInv, CoreInv, NEW t \in Callers, operation = t, task[t].pc \notin StopPcs,
         NEW p \in Profiles, backend[p].running = NoProcess,
         \A u \in Tasks \ {t} : task'[u] = task[u],
         \A q \in Profiles \ {p} : Same(q),
         \A j \in job' : j.at = "kill" => j \in job,
         UNCHANGED retirement, Onward, \A x \in Process : Spared(x),
         EntryInv', LoadInv(t)', ReplaceInv(t)', task'[t].pc \notin {"infer", "cancelling"},
         backend'[p].running # NoProcess => ~Doomed(backend'[p].running),
         Carries(t)' /\ Doomed(task'[t].proc) =>
           /\ Carries(t)
           /\ task'[t].proc = task[t].proc
           /\ task'[t].prof = task[t].prof
           /\ backend[task[t].prof].lifecycle = "Stopping"
                => backend'[task[t].prof].lifecycle = "Stopping"
  PROVE  CoreInv'
<1>1. t \in Tasks BY DEF Tasks, Callers
<1>2. \A u \in Tasks : LeaseInv(u)'
  <2>1. \A q \in Profiles : Serves(q) => Still(q) BY DEF Serves, Still, Same
  <2> QED BY <2>1, LeasesKept
<1>3. RetireInv'
  <2>1. retirement.at = "none" BY <1>1, NoRetirementHeld
  <2> QED BY <2>1 DEF RetireInv
<1>4. DoomInv'
  <2>1. ASSUME NEW u \in Tasks \ {t}, Carries(u)' PROVE FALSE
    <3>1. task[u].pc \notin HoldPcs BY <1>1, OnlyHolder
    <3> QED BY <2>1, <3>1 DEF Carries, ProcPcs, HoldPcs, LoadPcs
  <2>2. ASSUME NEW x, Doomed(x) PROVE Doomed(x)'
    <3>1. \A q \in Profiles : backend'[q].running \notin {backend[q].running, NoProcess}
                                => ~Doomed(backend'[q].running)
      BY DEF Same
    <3> QED BY <2>1, <2>2, <3>1, DoomedKept
  <2>3. task'[Closer].pc = "cancelling" => task'[Closer] = task[Closer] BY DEF Tasks
  <2> QED BY <2>2, <2>3, KillsKept
<1>5. \A u \in Tasks \ {t} : Aside(u) BY DEF Aside
<1> QED BY <1>1, <1>2, <1>3, <1>4, <1>5, HolderKeeps DEF Onward

\* A load in progress: its entry, and what nobody else has of it.
LEMMA LoadFacts ==
  ASSUME LockInv, CoreInv, NEW t \in Callers, task[t].pc \in LoadPcs
  PROVE  /\ t \in Tasks /\ operation = t /\ task[t].pc \notin StopPcs
         /\ task[t] \in Task /\ task[t].prof \in Profiles
         /\ backend[task[t].prof] \in Backend
         /\ backend[task[t].prof].generation = task[t].generation
         /\ backend[task[t].prof].generation # 0
         /\ backend[task[t].prof].lifecycle \in {"Loading", "Stopping"}
         /\ backend[task[t].prof].running = NoProcess
         /\ \A q \in Profiles \ {task[t].prof} : backend[q].generation # task[t].generation
         /\ LoadInv(t)
         /\ OwnEntry(task[t].prof)
<1> DEFINE p == task[t].prof
<1>1. /\ t \in Tasks /\ operation = t /\ p \in Profiles /\ task[t] \in Task /\ LoadInv(t)
      /\ backend[p] \in Backend
      /\ backend[p].generation = task[t].generation
      /\ backend[p].lifecycle \in {"Loading", "Stopping"}
  BY DEF LockInv, Claims, Owning, CoreTypes, CoreInv, OwnPcs, LoadPcs, HoldPcs, Tasks, Callers
<1>2. task[t].pc \notin StopPcs BY DEF StopPcs, LoadPcs
<1>3. backend[p].running = NoProcess BY <1>1 DEF LoadInv, OwnPcs
<1>4. OwnEntry(p) BY <1>1 DEF CoreInv, EntryInv
<1>5. backend[p].generation # 0 BY <1>1, <1>4 DEF OwnEntry
<1>6. ASSUME NEW q \in Profiles \ {p} PROVE backend[q].generation # task[t].generation
  <2>1. Apart(p, q) BY <1>1 DEF CoreInv, EntryInv
  <2> QED BY <1>1, <1>5, <2>1 DEF Apart
<1> QED BY <1>1, <1>2, <1>3, <1>4, <1>5, <1>6

\* reserve_loading's insertion.
LEMMA InsertKeeps ==
  ASSUME LockInv, CoreInv, CoreTypes', NEW t \in Callers, Insert(t)
  PROVE  CoreInv'
<1>0. PICK p : p = task[t].prof OBVIOUS
<1>1. /\ t \in Tasks /\ operation = t /\ task[t].pc = "insert" /\ task[t].pc \notin StopPcs
      /\ p \in Profiles /\ ~Present(p)
      /\ task \in [Tasks -> Task] /\ backend \in [Profiles -> Backend]
      /\ next_generation \in Nat
  <2>1. t \in Tasks BY DEF Tasks, Callers
  <2>2. Claims(t) /\ ReplaceInv(t) BY <2>1 DEF LockInv, CoreInv
  <2> QED BY <1>0, <2>1, <2>2, ManagerAssumption
      DEF Insert, At, LockInv, CoreTypes, Claims, HoldPcs, StopPcs, ReplaceInv
<1>2. /\ UNCHANGED <<process, retirement, job>>
      /\ next_generation' = next_generation + 1
      /\ backend' = [backend EXCEPT ![p] =
                       [NoBackend EXCEPT !.lifecycle = "Loading", !.residency = Residency(t),
                                         !.generation = next_generation + 1]]
      /\ task' = [task EXCEPT ![t].generation = next_generation + 1,
                              ![t].pc = IF t \in Requests THEN "begin" ELSE "handoff"]
  BY <1>0 DEF Insert
<1>3. /\ backend'[p].lifecycle = "Loading"
      /\ backend'[p].generation = next_generation + 1
      /\ backend'[p].running = NoProcess
      /\ backend'[p].loading = NoProcess
      /\ \A q \in Profiles \ {p} : backend'[q] = backend[q]
  BY <1>1, <1>2 DEF NoBackend
<1>4. /\ task'[t].pc \in {"begin", "handoff"} /\ task'[t].prof = p
      /\ \A u \in Tasks \ {t} : task'[u] = task[u]
  BY <1>0, <1>1, <1>2 DEF Task
<1>5. Onward BY <1>2 DEF Onward, CoreInv, ProcInv, SupervisorTypeOK, Live, Born, Exited
<1>6. EntryInv'
  <2>1. OwnEntry(p)' BY <1>1, <1>2, <1>3 DEF OwnEntry
  <2>2. Uses(p)' = {} BY <1>3 DEF Uses
  <2>3. ASSUME NEW q \in Profiles \ {p}
        PROVE  /\ Same(q) /\ Spared(backend[q].running)
               /\ Uses(p)' \cap Uses(q) = {}
               /\ backend'[p].generation = backend[q].generation => backend'[p].generation = 0
    <3>1. backend[q].generation \in Nat /\ backend[q].generation <= next_generation
      BY <1>1, ManagerAssumption DEF CoreInv, EntryInv, OwnEntry, Backend, Generation
    <3> QED BY <1>1, <1>2, <1>3, <2>2, <3>1 DEF Same, Spared
  <2>4. next_generation <= next_generation' BY <1>1, <1>2
  <2> QED BY <1>1, <1>5, <2>1, <2>3, <2>4, EntryChange DEF LockInv, CoreInv
<1>7. LoadInv(t)' /\ ReplaceInv(t)' /\ ~Carries(t)'
  BY <1>3, <1>4 DEF LoadInv, ReplaceInv, Carries, ProcPcs
<1>8. backend[p].running = NoProcess
  BY <1>1 DEF CoreInv, EntryInv, OwnEntry, Present
<1>9. /\ \A q \in Profiles \ {p} : Same(q)
      /\ \A x \in Process : Spared(x)
  BY <1>2, <1>3 DEF Same, Spared
<1> QED BY <1>1, <1>2, <1>3, <1>4, <1>5, <1>6, <1>7, <1>8, <1>9, LoadWrites

\* The spawn: the child is in no entry and in no other hands.
LEMMA SpawnKeeps ==
  ASSUME LockInv, CoreInv, CoreTypes', NEW t \in Callers, SpawnBackend(t)
  PROVE  CoreInv'
<1>0. PICK p : p = task[t].prof OBVIOUS
<1>1. /\ task[t].pc = "spawn" /\ task[t].pc \in LoadPcs
      /\ UNCHANGED <<backend, next_generation, retirement, job>>
      /\ task \in [Tasks -> Task]
  BY DEF SpawnBackend, At, LoadPcs, table, LockInv, CoreTypes
<1>2. /\ t \in Tasks /\ operation = t /\ task[t].pc \notin StopPcs /\ task[t] \in Task
      /\ p \in Profiles /\ backend[p].running = NoProcess /\ LoadInv(t)
  BY <1>0, <1>1, LoadFacts
<1>3. PICK x \in Process : Spawn(x) /\ task' = [task EXCEPT ![t].pc = "spawned", ![t].proc = x]
  BY DEF SpawnBackend
<1>4. /\ task'[t].pc = "spawned" /\ task'[t].proc = x /\ task'[t].prof = p
      /\ \A u \in Tasks \ {t} : task'[u] = task[u]
  BY <1>0, <1>1, <1>2, <1>3 DEF Task
<1>5. process \in [Process -> ProcessRecord] BY DEF CoreInv, ProcInv, SupervisorTypeOK
<1>6. /\ process[x].status = "unborn"
      /\ process'[x] = [status |-> "live", tracked |-> TRUE, terminate |-> FALSE]
      /\ process' \in [Process -> ProcessRecord]
      /\ \A y \in Process \ {x} :
           /\ process'[y].status = process[y].status
           /\ process'[y].terminate = process[y].terminate
           /\ process'[y].tracked = (process[y].tracked /\ ~Exited(y))
  <2>1. /\ process[x].status = "unborn"
        /\ process' = [y \in Process |->
                         IF y = x THEN [status |-> "live", tracked |-> TRUE, terminate |-> FALSE]
                         ELSE Retained(y)]
    BY <1>3 DEF Spawn
  <2>2. ASSUME NEW y \in Process
        PROVE  /\ Retained(y) \in ProcessRecord
               /\ Retained(y).status = process[y].status
               /\ Retained(y).terminate = process[y].terminate
               /\ Retained(y).tracked = (process[y].tracked /\ ~Exited(y))
    <3>1. process[y] \in ProcessRecord BY <1>5
    <3>2. Exited(y) \in BOOLEAN BY DEF Exited
    <3> QED BY <3>1, <3>2 DEF Retained, ProcessRecord
  <2>3. [status |-> "live", tracked |-> TRUE, terminate |-> FALSE] \in ProcessRecord
    BY DEF ProcessRecord
  <2> HIDE DEF Retained
  <2> QED BY <2>1, <2>2, <2>3
<1>7. Onward
  <2>1. ASSUME NEW y \in Process
        PROVE  /\ Born(y) => Born(y)'
               /\ Exited(y) => Exited(y)'
               /\ Live(y)' => process'[y].tracked \/ process'[y].terminate
    <3>1. CASE y = x BY <1>6, <3>1 DEF Born, Exited
    <3>2. CASE y # x
      <4>1. Live(y) => process[y].tracked \/ process[y].terminate BY DEF CoreInv, ProcInv
      <4> QED BY <1>6, <3>2, <4>1 DEF Born, Exited, Live
    <3> QED BY <3>1, <3>2
  <2> QED BY <1>6, <2>1 DEF Onward, ProcInv, SupervisorTypeOK
<1>8. \A y \in Process : Spared(y) BY <1>6 DEF Spared
<1>9. \A q \in Profiles : Same(q) BY <1>1 DEF Same
<1>10. EntryInv'
  <2>1. next_generation <= next_generation' BY <1>1, ManagerAssumption DEF LockInv, CoreTypes
  <2>2. ASSUME NEW q \in Profiles, backend[q].lifecycle = "Running" PROVE Spared(backend[q].running)
    <3>1. backend[q].running \in Process BY <2>2 DEF CoreInv, EntryInv, OwnEntry, Born
    <3> QED BY <1>8, <3>1
  <2> QED BY <1>7, <1>9, <2>1, <2>2, EntriesSame DEF LockInv, CoreInv
<1>11. ASSUME NEW q \in Profiles PROVE backend[q].running # x /\ backend[q].loading # x
  BY <1>6, ProcessNumbers DEF CoreInv, EntryInv, OwnEntry, Born
<1>12. LoadInv(t)'
  <2>1. backend[p].loading = NoProcess
    BY <1>0, <1>1, <1>2 DEF LoadInv, OwnPcs, Carries, ProcPcs
  <2>2. Born(x)' BY <1>6 DEF Born
  <2> QED BY <1>1, <1>2, <1>4, <1>6, <1>11, <2>1, <2>2 DEF LoadInv, Born
<1>13. ReplaceInv(t)' BY <1>4 DEF ReplaceInv
<1>14. ~Doomed(x) BY <1>6 DEF Doomed, Born
<1> QED BY <1>1, <1>2, <1>4, <1>7, <1>8, <1>9, <1>10, <1>12, <1>13, <1>14, LoadWrites

\* A step that changes neither processes nor counters is one onward.
LEMMA ProcessKept ==
  ASSUME LockInv, CoreInv, UNCHANGED process
  PROVE  Onward /\ \A x : Spared(x)
  BY DEF Onward, CoreInv, ProcInv, SupervisorTypeOK, Live, Born, Exited, Spared

\* A load writes its entry and keeps of it at most the process it carries.
LEMMA OwnEntryWrites ==
  ASSUME LockInv, CoreInv, CoreTypes', NEW t \in Callers, task[t].pc \in LoadPcs,
         NEW p \in Profiles, p = task[t].prof,
         UNCHANGED <<process, next_generation, retirement>>,
         \A q \in Profiles \ {p} : backend'[q] = backend[q],
         backend'[p].generation = backend[p].generation,
         OwnEntry(p)',
         Uses(p)' \subseteq IF Carries(t) THEN {task[t].proc} ELSE {},
         \A u \in Tasks \ {t} : task'[u] = task[u],
         \A j \in job' : j.at = "kill" => j \in job,
         LoadInv(t)', task'[t].pc \notin {"infer", "cancelling", "reserve", "insert", "replace",
                                        "replacing"},
         backend'[p].running # NoProcess => ~Doomed(backend'[p].running),
         Carries(t)' => /\ Carries(t)
                        /\ task'[t].proc = task[t].proc
                        /\ task'[t].prof = p
                        /\ backend'[p].lifecycle = backend[p].lifecycle
  PROVE  CoreInv'
<1>1. /\ t \in Tasks /\ operation = t /\ task[t].pc \notin StopPcs
      /\ backend[p].running = NoProcess /\ backend[p].generation # 0
      /\ backend[p].generation = task[t].generation
      /\ \A q \in Profiles \ {p} : backend[q].generation # task[t].generation
      /\ LoadInv(t)
  BY LoadFacts
<1>2. Onward /\ \A x \in Process : Spared(x) BY ProcessKept
<1>3. ASSUME NEW q \in Profiles \ {p}
      PROVE  /\ Same(q) /\ Spared(backend[q].running)
             /\ Uses(p)' \cap Uses(q) = {}
             /\ backend'[p].generation = backend[q].generation => backend'[p].generation = 0
  <2>1. Same(q) /\ Spared(backend[q].running) BY DEF Same, Spared
  <2>2. Carries(t) => backend[q].running # task[t].proc /\ backend[q].loading # task[t].proc
    BY <1>1 DEF LoadInv
  <2>3. Uses(p)' \cap Uses(q) = {} BY <2>2 DEF Uses
  <2> QED BY <1>1, <2>1, <2>3
<1>4. next_generation <= next_generation' BY ManagerAssumption DEF LockInv, CoreTypes
<1>5. EntryInv' BY <1>2, <1>3, <1>4, EntryChange DEF LockInv, CoreInv
<1>6. ReplaceInv(t)' BY DEF ReplaceInv
<1>7. \A q \in Profiles \ {p} : Same(q) BY <1>3
<1> QED BY <1>1, <1>2, <1>5, <1>6, <1>7, LoadWrites

\* The child is registered, or the cancelled load goes on to kill it.
LEMMA RegisterKeeps ==
  ASSUME LockInv, CoreInv, CoreTypes', NEW t \in Callers, RegisterProcess(t)
  PROVE  CoreInv'
<1>0. PICK p, x : p = task[t].prof /\ x = task[t].proc OBVIOUS
<1>1. /\ task[t].pc = "spawned" /\ task[t].pc \in LoadPcs /\ Carries(t)
      /\ UNCHANGED <<process, next_generation, retirement, job>>
      /\ task \in [Tasks -> Task] /\ backend \in [Profiles -> Backend]
  BY DEF RegisterProcess, At, LoadPcs, LockInv, CoreTypes, Carries, ProcPcs
<1>2. /\ t \in Tasks /\ task[t] \in Task /\ p \in Profiles /\ backend[p] \in Backend
      /\ backend[p].running = NoProcess /\ LoadInv(t) /\ OwnEntry(p)
      /\ backend[p].generation # 0
  BY <1>0, <1>1, LoadFacts
<1>3. /\ Born(x) /\ x # NoProcess
      /\ \A q \in Profiles : backend[q].running # x /\ (q # p => backend[q].loading # x)
      /\ backend[p].loading = NoProcess
      /\ backend[p].lifecycle = "Loading" => ~process[x].terminate
  BY <1>0, <1>1, <1>2, ProcessNumbers DEF LoadInv, Born, OwnPcs
<1>4. CASE LoadCurrent(t)
  <2>1. /\ backend' = [backend EXCEPT ![p].loading = x, ![p].version = task[t].version]
        /\ task' = [task EXCEPT ![t].pc = "starting"]
        /\ backend[p].lifecycle = "Loading"
    BY <1>0, <1>4 DEF RegisterProcess, GoTo, LoadCurrent
  <2>2. /\ task'[t].pc = "starting" /\ task'[t].prof = p /\ task'[t].proc = x
        /\ \A u \in Tasks \ {t} : task'[u] = task[u]
    BY <1>0, <1>1, <1>2, <2>1 DEF Task
  <2>3. /\ backend'[p].loading = x /\ backend'[p].running = NoProcess
        /\ backend'[p].lifecycle = "Loading"
        /\ backend'[p].generation = backend[p].generation
        /\ \A q \in Profiles \ {p} : backend'[q] = backend[q]
    BY <1>1, <1>2, <2>1 DEF Backend
  <2>4. OwnEntry(p)'
    BY <1>1, <1>2, <1>3, <2>3 DEF OwnEntry, Born
  <2>5. LoadInv(t)'
    <3>1. \A q \in Profiles : backend'[q].running # x /\ (q # p => backend'[q].loading # x)
      BY <1>3, <2>3
    <3>2. Born(x)' /\ (Carries(t)' <=> TRUE) BY <1>1, <1>3, <2>2 DEF Born, Carries, ProcPcs
    <3>3. backend'[p].lifecycle = "Loading" => ~process'[x].terminate BY <1>1, <1>3, <2>1
    <3> QED BY <2>2, <2>3, <3>1, <3>2, <3>3 DEF LoadInv, Born
  <2>6. Uses(p)' \subseteq {x} BY <2>3 DEF Uses
  <2>7. backend'[p].lifecycle = backend[p].lifecycle BY <2>1, <2>3
  <2> QED BY <1>0, <1>1, <1>2, <2>2, <2>3, <2>4, <2>5, <2>6, <2>7, OwnEntryWrites
<1>5. CASE ~LoadCurrent(t)
  <2>1. /\ UNCHANGED backend
        /\ task' = [task EXCEPT ![t].pc = "abort"]
    BY <1>5 DEF RegisterProcess, GoTo
  <2>2. /\ task'[t].pc = "abort" /\ task'[t].prof = p /\ task'[t].proc = x
        /\ \A u \in Tasks \ {t} : task'[u] = task[u]
    BY <1>0, <1>1, <1>2, <2>1 DEF Task
  <2>3. OwnEntry(p)' BY <1>1, <1>2, <2>1 DEF OwnEntry, Born
  <2>4. LoadInv(t)'
    BY <1>1, <1>2, <1>3, <2>1, <2>2 DEF LoadInv, Carries, ProcPcs, Born
  <2>5. Uses(p)' = {} BY <1>2, <1>3, <2>1 DEF Uses
  <2> QED BY <1>0, <1>1, <1>2, <2>1, <2>2, <2>3, <2>4, <2>5, OwnEntryWrites
<1> QED BY <1>4, <1>5

\* A failed load leaves a Failed entry with the process it could not kill.
LEMMA FailKeeps ==
  ASSUME LockInv, CoreInv, CoreTypes', NEW t \in Callers, task[t].pc \in LoadPcs, NEW x,
         x # NoProcess => Carries(t) /\ x = task[t].proc,
         FailLoading(t, x), UNCHANGED process
  PROVE  CoreInv'
<1>0. PICK p : p = task[t].prof OBVIOUS
<1>1. /\ t \in Tasks /\ operation = t /\ task[t] \in Task /\ p \in Profiles
      /\ backend[p] \in Backend
      /\ backend[p].lifecycle \in {"Loading", "Stopping"}
      /\ backend[p].generation = task[t].generation /\ backend[p].generation # 0
      /\ \A q \in Profiles \ {p} : backend[q].generation # task[t].generation
      /\ LoadInv(t) /\ OwnEntry(p)
      /\ task \in [Tasks -> Task] /\ backend \in [Profiles -> Backend]
  BY <1>0, LoadFacts DEF LockInv, CoreTypes
<1>2. /\ MarkFailed(task[t].generation, x) /\ Return(t)
      /\ UNCHANGED <<next_generation, retirement>>
      /\ \A j \in job' : j \in job \/ j.at = "cancel"
  BY DEF FailLoading, JitGuard
<1>3. /\ backend'[p].lifecycle = "Failed"
      /\ backend'[p].generation = backend[p].generation
      /\ backend'[p].running = NoProcess
      /\ backend'[p].loading = x
  <2>1. backend'[p] = [backend[p] EXCEPT !.lifecycle = "Failed", !.running = NoProcess,
                         !.loading = x, !.lease = backend[p].lease /\ x # NoProcess,
                         !.cancel_loading = FALSE]
    BY <1>1, <1>2 DEF MarkFailed, Present
  <2> QED BY <1>1, <2>1 DEF Backend
<1>4. \A q \in Profiles \ {p} : backend'[q] = backend[q]
  BY <1>1, <1>2 DEF MarkFailed
<1>5. task'[t] = Idle /\ \A u \in Tasks \ {t} : task'[u] = task[u]
  BY <1>1, <1>2 DEF Return
<1>6. Idle.pc = "idle" BY DEF Idle
<1>7. x # NoProcess => Born(x) BY <1>1 DEF LoadInv
<1>8. OwnEntry(p)' BY <1>1, <1>2, <1>3, <1>7 DEF OwnEntry, Born
<1>9. LoadInv(t)' /\ ~Carries(t)'
  BY <1>5, <1>6 DEF LoadInv, Carries, OwnPcs, LoadPcs, ProcPcs
<1>10. Uses(p)' \subseteq IF Carries(t) THEN {task[t].proc} ELSE {} BY <1>3 DEF Uses
<1> QED BY <1>0, <1>1, <1>2, <1>3, <1>4, <1>5, <1>6, <1>8, <1>9, <1>10, OwnEntryWrites

\* The error returns, and the next attempt after a kill.
LEMMA LoadEndsKeep ==
  ASSUME LockInv, CoreInv, CoreTypes', NEW t \in Callers,
         LoadFails(t) \/ KillFails(t) \/ AbortEnds(t) \/ RetryLaunch(t)
  PROVE  CoreInv'
<1>1. CASE LoadFails(t) BY <1>1, FailKeeps DEF LoadFails, LoadPcs
<1>2. CASE KillFails(t) BY <1>2, FailKeeps DEF KillFails, LoadPcs, Carries, ProcPcs
<1>3. CASE AbortEnds(t) BY <1>3, FailKeeps DEF AbortEnds, Killed, At, LoadPcs
<1>4. CASE RetryLaunch(t)
  <2>0. PICK p : p = task[t].prof OBVIOUS
  <2>1. task[t].pc \in {"retry", "retrying"} /\ task[t].pc \in LoadPcs
    BY <1>4 DEF RetryLaunch, Killed, At, LoadPcs
  <2>2. CASE FailLoading(t, NoProcess) /\ UNCHANGED process BY <2>1, <2>2, FailKeeps
  <2>3. CASE ~(FailLoading(t, NoProcess) /\ UNCHANGED process)
    <3>1. /\ backend' = [backend EXCEPT ![p].loading = NoProcess]
          /\ task' = [task EXCEPT ![t].pc = "launch", ![t].proc = NoProcess]
          /\ UNCHANGED <<process, next_generation, retirement, job>>
      BY <1>4, <2>0, <2>3 DEF RetryLaunch
    <3>2. /\ t \in Tasks /\ task[t] \in Task /\ p \in Profiles
          /\ backend[p] \in Backend /\ backend[p].running = NoProcess
          /\ LoadInv(t) /\ OwnEntry(p)
          /\ task \in [Tasks -> Task] /\ backend \in [Profiles -> Backend]
      BY <2>0, <2>1, LoadFacts DEF LockInv, CoreTypes
    <3>3. /\ backend'[p].loading = NoProcess /\ backend'[p].running = NoProcess
          /\ backend'[p].lifecycle = backend[p].lifecycle
          /\ backend'[p].generation = backend[p].generation
          /\ \A q \in Profiles \ {p} : backend'[q] = backend[q]
      BY <3>1, <3>2 DEF Backend
    <3>4. /\ task'[t].pc = "launch" /\ task'[t].prof = p
          /\ \A u \in Tasks \ {t} : task'[u] = task[u]
      BY <2>0, <3>1, <3>2 DEF Task
    <3>5. OwnEntry(p)' BY <3>1, <3>2, <3>3 DEF OwnEntry
    <3>6. LoadInv(t)' /\ ~Carries(t)' BY <3>3, <3>4 DEF LoadInv, Carries, ProcPcs
    <3>7. Uses(p)' = {} BY <3>3 DEF Uses
    <3> QED BY <2>0, <2>1, <3>1, <3>2, <3>3, <3>4, <3>5, <3>6, <3>7, OwnEntryWrites
  <2> QED BY <2>2, <2>3
<1> QED BY <1>1, <1>2, <1>3, <1>4

\* The commit: nobody killed or will kill the process of an entry that is
\* still Loading.
LEMMA CommitKeeps ==
  ASSUME LockInv, CoreInv, CoreTypes', NEW t \in Callers, CommitLoad(t)
  PROVE  CoreInv'
<1>0. PICK p, x : p = task[t].prof /\ x = task[t].proc OBVIOUS
<1>1. /\ task[t].pc = "commit" /\ task[t].pc \in LoadPcs /\ Carries(t)
      /\ UNCHANGED <<process, next_generation, retirement, job>>
      /\ task \in [Tasks -> Task] /\ backend \in [Profiles -> Backend]
      /\ backend[p].lifecycle = "Loading"
  BY <1>0 DEF CommitLoad, MayCommit, At, LoadPcs, LockInv, CoreTypes, Carries, ProcPcs
<1>2. /\ t \in Tasks /\ task[t] \in Task /\ p \in Profiles /\ backend[p] \in Backend
      /\ LoadInv(t) /\ OwnEntry(p) /\ backend[p].generation # 0
  BY <1>0, <1>1, LoadFacts
<1>3. Born(x) /\ x # NoProcess /\ ~process[x].terminate
  BY <1>0, <1>1, <1>2, ProcessNumbers DEF LoadInv, Born
<1>4. /\ backend'[p].lifecycle = "Running"
      /\ backend'[p].running = x
      /\ backend'[p].loading = NoProcess
      /\ backend'[p].generation = backend[p].generation
      /\ \A q \in Profiles \ {p} : backend'[q] = backend[q]
  <2>1. backend' = [backend EXCEPT ![p].lifecycle = "Running", ![p].running = x,
                      ![p].loading = NoProcess, ![p].cancel_loading = FALSE,
                      ![p].residency = Residency(t)]
    BY <1>0 DEF CommitLoad
  <2> QED BY <1>1, <1>2, <2>1 DEF Backend
<1>5. /\ task'[t].pc \in {"relock", "idle"}
      /\ \A u \in Tasks \ {t} : task'[u] = task[u]
  <2> DEFINE r == [task[t] EXCEPT !.pc = "relock", !.proc = NoProcess, !.generation = 0]
  <2>1. r.pc = "relock" /\ Idle.pc = "idle" BY <1>2 DEF Task, Idle
  <2>2. task' = [task EXCEPT ![t] = IF t \in Requests THEN r ELSE Idle] BY DEF CommitLoad
  <2> HIDE DEF r
  <2> QED BY <1>1, <1>2, <2>1, <2>2
<1>6. OwnEntry(p)' BY <1>1, <1>2, <1>3, <1>4 DEF OwnEntry, Born
<1>7. LoadInv(t)' /\ ~Carries(t)' BY <1>5 DEF LoadInv, Carries, OwnPcs, LoadPcs, ProcPcs
<1>8. Uses(p)' \subseteq {x} BY <1>4 DEF Uses
<1>9. ~Doomed(x)
  <2>1. task[t].proc = x /\ backend[task[t].prof].lifecycle # "Stopping" BY <1>0, <1>1
  <2> QED BY <1>1, <1>2, <2>1 DEF Doomed
<1> QED BY <1>0, <1>1, <1>2, <1>4, <1>5, <1>6, <1>7, <1>8, <1>9, OwnEntryWrites

-----------------------------------------------------------------------------
(* Children, their monitors, and the end of shutdown.                      *)

\* Children exit, and an entry whose child crashed is Failed without it.
LEMMA ExitsKeep ==
  ASSUME LockInv, CoreInv, CoreTypes', UNCHANGED <<next_generation, todo, retirement, task, job>>,
         Onward, \A x \in Process : Spared(x),
         \A p \in Profiles :
           \/ Same(p)
           \/ /\ backend[p].lifecycle = "Running" /\ Exited(backend[p].running)
              /\ backend'[p].lifecycle = "Failed"
              /\ backend'[p].generation = backend[p].generation
              /\ backend'[p].running = NoProcess
              /\ backend'[p].loading = backend[p].loading
  PROVE  CoreInv'
<1>1. next_generation <= next_generation' BY ManagerAssumption DEF LockInv, CoreTypes
<1>2. ASSUME NEW p \in Profiles PROVE OwnEntry(p)'
  <2>1. OwnEntry(p) BY DEF CoreInv, EntryInv
  <2>2. CASE Same(p)
    <3>1. backend[p].lifecycle = "Running" => Spared(backend[p].running)
      BY <2>1 DEF OwnEntry, Born
    <3> QED BY <1>1, <2>1, <2>2, <3>1, OwnEntrySame DEF LockInv
  <2>3. CASE ~Same(p) BY <2>1, <2>3 DEF OwnEntry, Born
  <2> QED BY <2>2, <2>3
<1>3. ASSUME NEW p \in Profiles, NEW q \in Profiles \ {p} PROVE Apart(p, q)'
  <2>1. Uses(p)' \subseteq Uses(p) /\ Uses(q)' \subseteq Uses(q) BY DEF Uses, Same
  <2>2. Apart(p, q) BY DEF CoreInv, EntryInv
  <2> QED BY <2>1, <2>2 DEF Apart, Same
<1>4. EntryInv' BY <1>2, <1>3 DEF EntryInv
<1>5. \A t \in Tasks : LeaseInv(t)'
  <2>1. \A p \in Profiles : Serves(p) => Still(p) BY DEF Serves, Still, Same
  <2> QED BY <2>1, LeasesKept
<1>6. RetireInv'
  <2>1. retirement.at \in {"drain", "killing"} => Same(retirement.prof)
    BY DEF CoreInv, RetireInv
  <2> QED BY <2>1, RetirementKept DEF CoreInv, Tasks
<1>7. \A t \in Tasks : LoadInv(t)' /\ ReplaceInv(t)'
  <2>1. \A p \in Profiles :
          /\ backend'[p].running \in {backend[p].running, NoProcess}
          /\ backend'[p].loading = backend[p].loading
          /\ backend'[p].lifecycle = "Loading" => backend[p].lifecycle = "Loading"
          /\ backend'[p].lifecycle # "Absent" => Present(p)
    BY DEF Same, Present
  <2>2. ASSUME NEW t \in Tasks, Carries(t) PROVE Spared(task[t].proc)
    BY <2>2 DEF CoreInv, LoadInv, Born
  <2> QED BY <2>1, <2>2, OutsideClaims
<1>8. DoomInv'
  <2>1. ASSUME NEW t \in Tasks, Carries(t)
        PROVE  backend[task[t].prof].lifecycle = "Stopping"
                 => backend'[task[t].prof].lifecycle = "Stopping"
    <3>1. task[t].pc \in OwnPcs BY <2>1 DEF Carries, ProcPcs, OwnPcs, LoadPcs
    <3>2. task[t].prof \in Profiles BY <3>1 DEF LockInv, Claims, OwnPcs, LoadPcs
    <3> QED BY <3>2 DEF Same
  <2>2. \A p \in Profiles : backend'[p].running \in {backend[p].running, NoProcess}
    BY DEF Same
  <2>3. ASSUME NEW x, Doomed(x) PROVE Doomed(x)'
    <3>1. \A t \in Tasks : Carries(t)' => Carries(t) BY DEF Carries
    <3> QED BY <2>1, <2>2, <2>3, <3>1, DoomedKept
  <2> QED BY <2>3, KillsKept
<1> QED BY <1>4, <1>5, <1>6, <1>7, <1>8 DEF CoreInv, Onward

LEMMA ChildKeeps ==
  ASSUME LockInv, CoreInv, CoreTypes', NEW x \in Process, Child(x)
  PROVE  CoreInv'
<1>1. UNCHANGED <<backend, next_generation, todo, retirement, task, job>> BY DEF Child, table
<1>2. process \in [Process -> ProcessRecord] BY DEF CoreInv, ProcInv, SupervisorTypeOK
<1>3. PICK st \in {"stopped", "crashed"} :
        process' = [process EXCEPT ![x] = [process[x] EXCEPT !.status = st]]
  BY <1>2 DEF Child, ChildTerminated, ChildExits, ProcessRecord
<1>4. /\ process'[x].status = st
      /\ process'[x].terminate = process[x].terminate
      /\ process'[x] \in ProcessRecord
      /\ process' \in [Process -> ProcessRecord]
      /\ \A y \in Process \ {x} : process'[y] = process[y]
  BY <1>2, <1>3 DEF ProcessRecord
<1>5. Onward
  BY <1>4 DEF Onward, CoreInv, ProcInv, SupervisorTypeOK, Live, Born, Exited
<1>6. \A y \in Process : Spared(y) BY <1>4 DEF Spared
<1>7. \A p \in Profiles : Same(p) BY <1>1 DEF Same
<1> QED BY <1>1, <1>5, <1>6, <1>7, ExitsKeep

LEMMA ExitMonitorKeeps ==
  ASSUME LockInv, CoreInv, CoreTypes', NEW x \in Process, ExitMonitor(x)
  PROVE  CoreInv'
<1>0. PICK p : p = monitor[x].prof OBVIOUS
<1>1. /\ UNCHANGED <<process, next_generation, todo, retirement, task, job>>
      /\ Exited(x) /\ backend \in [Profiles -> Backend]
  BY DEF ExitMonitor, LockInv, CoreTypes
<1>2. Onward /\ \A y : Spared(y) BY <1>1, ProcessKept
<1>3. CASE UNCHANGED backend
  <2>1. \A q \in Profiles : Same(q) BY <1>3 DEF Same
  <2> QED BY <1>1, <1>2, <2>1, ExitsKeep
<1>4. CASE ~UNCHANGED backend
  <2>1. /\ backend' = [backend EXCEPT ![p].lifecycle = "Failed", ![p].running = NoProcess,
                                      ![p].lease = FALSE]
        /\ backend[p].lifecycle = "Running" /\ backend[p].running = x
    BY <1>0, <1>4 DEF ExitMonitor, ExitConcerns
  <2>2. p \in Profiles BY <1>1, <1>4, <2>1
  <2>3. /\ backend'[p].lifecycle = "Failed"
        /\ backend'[p].generation = backend[p].generation
        /\ backend'[p].running = NoProcess
        /\ backend'[p].loading = backend[p].loading
    <3>1. backend[p] \in Backend BY <1>1, <2>2
    <3> QED BY <1>1, <2>1, <2>2, <3>1 DEF Backend
  <2>4. \A q \in Profiles \ {p} : Same(q)
    BY <1>1, <2>1 DEF Same
  <2> QED BY <1>1, <1>2, <2>1, <2>2, <2>3, <2>4, ExitsKeep
<1> QED BY <1>3, <1>4

\* shutdown takes the lock.
LEMMA ShutdownLocksKeeps ==
  ASSUME LockInv, CoreInv, CoreTypes', ShutdownLocks
  PROVE  CoreInv'
<1>1. /\ operation = Free /\ Closer \in Tasks
      /\ UNCHANGED <<process, backend, next_generation, retirement, job>>
      /\ GoTo(Closer, "stop") /\ task \in [Tasks -> Task]
  BY DEF ShutdownLocks, table, Tasks, LockInv, CoreTypes
<1>2. /\ task'[Closer].pc = "stop"
      /\ \A t \in Tasks \ {Closer} : task'[t] = task[t]
  BY <1>1 DEF GoTo, Task
<1>3. task'[Closer].pc \notin OwnPcs \cup {"infer", "cancelling", "reserve", "insert", "replace",
                                         "replacing"}
  BY <1>2 DEF OwnPcs, LoadPcs
<1>4. \A p \in Profiles : Same(p) BY <1>1 DEF Same
<1> QED BY <1>1, <1>2, <1>3, <1>4, HolderGoes

\* A step of shutdown with the lock that leaves the table alone.
LEMMA CloserLockedKeeps ==
  ASSUME LockInv, CoreInv, CoreTypes', operation = Closer, task[Closer].pc \notin StopPcs,
         UNCHANGED <<backend, next_generation, retirement, job>>,
         task'[Closer].pc \in {"draining", "done"},
         \A t \in Tasks \ {Closer} : task'[t] = task[t],
         Onward, \A x \in Process : Spared(x) \/ ~Ridden(x),
         \A p \in Profiles : backend[p].lifecycle = "Running" => Spared(backend[p].running)
  PROVE  CoreInv'
<1>1. Closer \in Tasks BY DEF Tasks
<1>2. \A p \in Profiles : Same(p) BY DEF Same
<1>3. EntryInv'
  <2>1. next_generation <= next_generation' BY ManagerAssumption DEF LockInv, CoreTypes
  <2> QED BY <1>2, <2>1, EntriesSame DEF LockInv, CoreInv
<1>4. \A t \in Tasks : LeaseInv(t)'
  <2>1. \A p \in Profiles : Serves(p) => Still(p) BY DEF Serves, Still
  <2> QED BY <2>1, LeasesKept
<1>5. RetireInv'
  <2>1. retirement.at = "none" BY <1>1, NoRetirementHeld
  <2> QED BY <2>1 DEF RetireInv
<1>6. task'[Closer].pc \notin HoldPcs \ {"draining"}
  BY DEF HoldPcs, LoadPcs, StopPcs
<1>7. LoadInv(Closer)' /\ ReplaceInv(Closer)' /\ ~Carries(Closer)'
  BY <1>6 DEF LoadInv, ReplaceInv, Carries, OwnPcs, LoadPcs, ProcPcs
<1>8. DoomInv'
  <2>1. \A t \in Tasks : Carries(t)' => task'[t] = task[t] /\ Carries(t)
    BY <1>7 DEF Carries
  <2>2. ASSUME NEW x, Doomed(x) PROVE Doomed(x)' BY <2>1, <2>2, DoomedKept
  <2> QED BY <2>2, KillsKept
<1>9. \A t \in Tasks \ {Closer} : Aside(t) BY DEF Aside
<1> QED BY <1>1, <1>3, <1>4, <1>5, <1>7, <1>8, <1>9, HolderKeeps DEF Onward

\* The supervisor's shutdown meets no backend that serves a request.
LEMMA SupervisorKeeps ==
  ASSUME LockInv, CoreInv, CoreTypes', CloserInv, ShutdownSupervisor
  PROVE  /\ CoreInv'
         /\ \A x \in Process : Live(x)' => process'[x].terminate
<1>1. /\ task[Closer].pc \in {"stop", "draining"} /\ task[Closer].pc \notin StopPcs
      /\ Closer \in Tasks /\ operation = Closer
      /\ UNCHANGED <<backend, next_generation, retirement, job>>
      /\ task \in [Tasks -> Task]
      /\ process \in [Process -> ProcessRecord]
  BY DEF ShutdownSupervisor, At, StopPcs, Tasks, LockInv, Claims, HoldPcs, table, CoreTypes,
     CoreInv, ProcInv, SupervisorTypeOK
<1>2. /\ task'[Closer].pc \in {"draining", "done"}
      /\ \A t \in Tasks \ {Closer} : task'[t] = task[t]
  <2>1. CASE GoTo(Closer, "draining") BY <1>1, <2>1 DEF GoTo, Task
  <2>2. CASE task' = [task EXCEPT ![Closer] = [Idle EXCEPT !.pc = "done"]]
    <3> DEFINE r == [Idle EXCEPT !.pc = "done"]
    <3>1. r.pc = "done" BY DEF Idle
    <3> HIDE DEF r
    <3> QED BY <1>1, <2>2, <3>1
  <2> QED BY <2>1, <2>2 DEF ShutdownSupervisor
<1>3. \A p \in Profiles : ~Serves(p)
  BY <1>1 DEF CloserInv, ShutdownSupervisor, At
<1>4. \A p \in Profiles : backend[p].lifecycle # "Running"
  BY <1>3 DEF CoreInv, EntryInv, OwnEntry, Serves
<1>5. \A x \in Process : Live(x) => ~Ridden(x) BY <1>3, NotRidden
<1>6. \A x \in Process : Live(x) => process[x].tracked \/ process[x].terminate
  BY DEF CoreInv, ProcInv
<1>7. CASE SupervisorShutdownBegins
  <2>1. ASSUME NEW x \in Process
        PROVE  /\ process'[x] \in ProcessRecord
               /\ process'[x].status = process[x].status
               /\ process'[x].tracked = process[x].tracked
               /\ process'[x].terminate = (process[x].terminate \/ (process[x].tracked /\ Live(x)))
    <3>1. process'[x] = [process[x] EXCEPT !.terminate = process[x].terminate
                                             \/ (process[x].tracked /\ Live(x))]
      BY <1>7 DEF SupervisorShutdownBegins
    <3>2. process[x] \in ProcessRecord /\ Live(x) \in BOOLEAN BY <1>1 DEF Live
    <3> HIDE DEF Live
    <3> QED BY <3>1, <3>2 DEF ProcessRecord
  <2>2. process' \in [Process -> ProcessRecord]
    BY <1>7, <2>1 DEF SupervisorShutdownBegins
  <2>3. \A x \in Process : Live(x)' => process'[x].terminate
    BY <1>6, <2>1 DEF Live
  <2>4. Onward
    BY <2>1, <2>2, <2>3 DEF Onward, ProcInv, SupervisorTypeOK, Born, Exited, Live
  <2>5. \A x \in Process : Spared(x) \/ ~Ridden(x)
    BY <1>5, <2>1 DEF Spared
  <2> QED BY <1>1, <1>2, <1>4, <2>3, <2>4, <2>5, CloserLockedKeeps
<1>8. CASE At(Closer, "draining") /\ SupervisorShutdownEnds
  <2>1. ASSUME NEW x \in Process
        PROVE  /\ process'[x] \in ProcessRecord
               /\ process'[x].status = process[x].status
               /\ process'[x].terminate = process[x].terminate
    <3>1. process'[x] = [process[x] EXCEPT !.tracked = FALSE]
      BY <1>8 DEF SupervisorShutdownEnds
    <3>2. process[x] \in ProcessRecord BY <1>1
    <3> QED BY <3>1, <3>2 DEF ProcessRecord
  <2>2. process' \in [Process -> ProcessRecord]
    BY <1>8, <2>1 DEF SupervisorShutdownEnds
  <2>3. \A x \in Process : Live(x)' => process'[x].terminate
    BY <1>8, <2>1 DEF CloserInv, At, Live
  <2>4. Onward
    BY <2>1, <2>2, <2>3 DEF Onward, ProcInv, SupervisorTypeOK, Born, Exited, Live
  <2>5. \A x \in Process : Spared(x) BY <2>1 DEF Spared
  <2> QED BY <1>1, <1>2, <1>4, <2>3, <2>4, <2>5, CloserLockedKeeps
<1> QED BY <1>7, <1>8 DEF ShutdownSupervisor

-----------------------------------------------------------------------------
(* All the steps.                                                          *)

\* Every step keeps what the stops rest on.
LEMMA NextCore ==
  ASSUME LockInv, CoreInv, CloserInv, [Next]_vars
  PROVE  CoreInv'
<1>0. CoreTypes' BY NextSound DEF Sound, LockInv
<1>1. ASSUME NEW t \in Tasks, HolderStep(t) PROVE CoreInv'
  BY <1>0, <1>1, StopBeginsKeeps, StopReturnsKeeps DEF HolderStep
<1>2. ASSUME NEW t \in Callers, LoadStep(t) PROVE CoreInv'
  BY <1>0, <1>2, LoadMovesKeep, InsertKeeps, SpawnKeeps, RegisterKeeps, KillSentKeeps,
     LoadEndsKeep, CommitKeeps
  DEF LoadStep
<1>3. ASSUME NEW t \in Loaders, LoaderStep(t) PROVE CoreInv'
  <2>1. t \in Tasks /\ t \in Callers BY DEF Tasks, Callers
  <2> QED BY <1>0, <1>3, <2>1, AdmissionKeeps, MatchKeeps DEF LoaderStep
<1>4. ASSUME NEW t \in Requests, RequestStep(t) PROVE CoreInv'
  <2>1. t \in Tasks /\ t \in Callers BY DEF Tasks, Callers
  <2>2. AdmitAuxiliary(t) => \E requested : Reclaim(t, requested) BY DEF AdmitAuxiliary
  <2>3. CASE AdmitAuxiliary(t) \/ AdmitPrimary(t) \/ ReclaimEnds(t)
    BY <1>0, <2>1, <2>2, <2>3, AdmissionKeeps
  <2>4. CASE MatchExisting(t) BY <1>0, <2>1, <2>4, MatchKeeps
  <2>5. CASE TryFastTarget(t) \/ AcquireTarget(t) \/ InferenceEnds(t)
    BY <1>0, <2>5, RequestKeeps
  <2>6. ASSUME NEW p \in Profiles, NEW s \in Sessions, NEW role \in {"Primary", "Auxiliary"},
               NEW decision \in Decisions, InferenceTarget(t, p, s, role, decision)
        PROVE  CoreInv'
    <3>1. decision \in BOOLEAN BY ManagerAssumption
    <3> QED BY <1>0, <2>6, <3>1, RequestKeeps
  <2> QED BY <1>4, <2>3, <2>4, <2>5, <2>6 DEF RequestStep
<1>5. ASSUME NEW t \in Callers, DropRequest(t) \/ DropLoader(t) PROVE CoreInv'
  BY <1>0, <1>5, DropsKeep
<1>6. CASE ReapIdle \/ ReclaimEnds(Reaper)
  <2>1. Reaper \in Tasks BY DEF Tasks
  <2> QED BY <1>0, <1>6, <2>1, AdmissionKeeps DEF ReapIdle
<1>7. ASSUME NEW j \in job, JobStep(j) PROVE CoreInv'
  <2>1. CASE JobCancels(j)
    <3>1. CASE Cancels(j.prof, j.generation) BY <1>0, <2>1, <3>1, CancelsKeep
    <3>2. CASE ~Cancels(j.prof, j.generation)
      <4>1. UNCHANGED backend BY <2>1, <3>2 DEF JobCancels
      <4> QED BY <1>0, <2>1, <4>1, BesidesKeep
    <3> QED BY <3>1, <3>2
  <2>2. CASE JobSendsKill(j) BY <1>0, <2>2, KillsKeep
  <2>3. CASE JobKilled(j) BY <1>0, <2>3, BesidesKeep
  <2>4. CASE JobStops(j) BY <1>0, <2>4, JobStopsKeeps
  <2> QED BY <1>7, <2>1, <2>2, <2>3, <2>4 DEF JobStep
<1>8. CASE CloserStep
  <2>1. CASE ShutdownCalled BY <1>0, <2>1, BesidesKeep
  <2>2. CASE ShutdownCollects BY <1>0, <2>2, DropsKeep
  <2>3. ASSUME NEW p \in Profiles, ShutdownCancels(p) PROVE CoreInv'
    <3>1. CASE Cancels(p, 0) BY <1>0, <2>3, <3>1, CancelsKeep
    <3>2. CASE ~Cancels(p, 0)
      <4>1. UNCHANGED backend BY <2>3, <3>2 DEF ShutdownCancels
      <4> QED BY <1>0, <2>3, <4>1, BesidesKeep
    <3> QED BY <3>1, <3>2
  <2>4. CASE ShutdownKills
    <3>1. CASE UNCHANGED process BY <1>0, <2>4, <3>1, BesidesKeep
    <3>2. CASE ~UNCHANGED process BY <1>0, <2>4, <3>2, KillsKeep
    <3> QED BY <3>1, <3>2
  <2>5. CASE ShutdownLocks BY <1>0, <2>5, ShutdownLocksKeeps
  <2>6. CASE ShutdownSupervisor BY <1>0, <2>6, SupervisorKeeps
  <2> QED BY <1>8, <2>1, <2>2, <2>3, <2>4, <2>5, <2>6 DEF CloserStep
<1>9. CASE RetirementStep
  BY <1>0, <1>9, RetireSendsKeeps, RetireEndsKeeps DEF RetirementStep
<1>10. ASSUME NEW p \in Profiles, UnloadCalled(p) \/ EditProfile(p) PROVE CoreInv'
  BY <1>0, <1>10, BesidesKeep
<1>11. ASSUME NEW x \in Process, Child(x) \/ ExitMonitor(x) PROVE CoreInv'
  BY <1>0, <1>11, ChildKeeps, ExitMonitorKeeps
<1>12. CASE UNCHANGED vars BY <1>0, <1>12, BesidesKeep
<1>13. CASE Next
  BY <1>1, <1>2, <1>3, <1>4, <1>5, <1>6, <1>7, <1>8, <1>9, <1>10, <1>11, <1>13
  DEF Next, Callers
<1> QED BY <1>12, <1>13

-----------------------------------------------------------------------------
(* Shutdown.                                                               *)

\* A step of somebody else, who takes nothing from a shutdown that has the
\* lock and, once it was called, adds nothing to what runs.
LEMMA CloserKept ==
  ASSUME LockInv, CloserInv,
         task'[Closer].pc = task[Closer].pc,
         task'[Reaper].pc \in {"idle", "reclaim", "reclaiming"},
         UNCHANGED snapshot, shutting_down => shutting_down',
         shutting_down => \A p \in Profiles :
           /\ backend'[p].running # NoProcess => backend[p].running # NoProcess
           /\ backend'[p].lifecycle = "Running" => backend[p].lifecycle = "Running",
         operation = Closer =>
           /\ UNCHANGED todo
           /\ \A p \in Profiles : Serves(p)' =>
                /\ Serves(p)
                /\ retirement.at \in {"drain", "killing"} /\ p = retirement.prof =>
                     retirement'.at \in {"drain", "killing"} /\ retirement'.prof = p,
         \A x \in Process : Live(x)' =>
           \/ Live(x) /\ (process[x].terminate => process'[x].terminate)
           \/ \E t \in Callers : task[t].pc \in OwnPcs,
         \A t \in Callers : task'[t].pc \in OwnPcs \cup {"insert"} =>
           task[t].pc \in OwnPcs \cup {"insert"} \/ ~shutting_down
  PROVE  CloserInv'
<1>1. task[Closer].pc \in {"stop", "stopping", "draining"} => operation = Closer
  BY DEF LockInv, Claims, HoldPcs, StopPcs, Tasks
<1>2. task[Closer].pc \in {"cancel", "cancelling", "draining", "done"} => shutting_down
  BY DEF CloserInv, At
<1>3. \A p \in Profiles : Serves(p)' => backend'[p].running # NoProcess BY DEF Serves
<1>4. task[Closer].pc \in {"draining", "done"} =>
        /\ \A x \in Process : Live(x)' => process'[x].terminate
        /\ \A t \in Callers : task'[t].pc \notin OwnPcs \cup {"insert"}
  BY <1>2 DEF CloserInv
<1>5. At(Closer, "stopping") => \A p \in Profiles : Serves(p)' =>
        p \in todo' \/ (retirement'.at \in {"drain", "killing"} /\ p = retirement'.prof)
  BY <1>1 DEF CloserInv, At
<1> QED BY <1>1, <1>2, <1>4, <1>5 DEF CloserInv, At

\* Such a step of a caller that changes no process.
LEMMA CallerSparesCloser ==
  ASSUME LockInv, CloserInv, NEW t \in Callers,
         \A u \in Tasks \ {t} : task'[u] = task[u],
         task'[t].pc \in OwnPcs \cup {"insert"} =>
           task[t].pc \in OwnPcs \cup {"insert"} \/ ~shutting_down,
         UNCHANGED <<process, snapshot, shutting_down>>,
         shutting_down => \A p \in Profiles :
           /\ backend'[p].running # NoProcess => backend[p].running # NoProcess
           /\ backend'[p].lifecycle = "Running" => backend[p].lifecycle = "Running",
         operation # Closer \/ UNCHANGED <<backend, todo, retirement>>
  PROVE  CloserInv'
<1>1. /\ {Closer, Reaper} \subseteq Tasks \ {t}
      /\ Callers \subseteq Tasks
  BY ManagerAssumption DEF Tasks, Callers
<1>2. task'[Closer] = task[Closer] /\ task'[Reaper] = task[Reaper] BY <1>1
<1>3. task'[Reaper].pc \in {"idle", "reclaim", "reclaiming"} BY <1>2 DEF CloserInv
<1>4. operation = Closer => UNCHANGED <<backend, todo, retirement>> OBVIOUS
<1>5. \A x \in Process : Live(x)' => Live(x) /\ (process[x].terminate => process'[x].terminate)
  BY DEF Live
<1>6. \A u \in Callers : task'[u].pc \in OwnPcs \cup {"insert"} =>
        task[u].pc \in OwnPcs \cup {"insert"} \/ ~shutting_down
  BY <1>1
<1> QED BY <1>2, <1>3, <1>4, <1>5, <1>6, CloserKept DEF Serves

\* The steps of a load: its process appears before its commit, and the commit
\* is refused once shutdown was called.
LEMMA LoadsSpareCloser ==
  ASSUME LockInv, CoreInv, CloserInv, NEW t \in Callers, LoadStep(t)
  PROVE  CloserInv'
<1>0. PICK p : p = task[t].prof OBVIOUS
<1>1. /\ t \in Tasks /\ t # Closer /\ t # Reaper /\ Callers \subseteq Tasks
      /\ Closer \in Tasks /\ Reaper \in Tasks
      /\ task \in [Tasks -> Task] /\ backend \in [Profiles -> Backend]
  BY ManagerAssumption DEF Tasks, Callers, LockInv, CoreTypes
<1>2. CASE Reserve(t) \/ Insert(t)
  <2>1. operation = t
    BY <1>1, <1>2 DEF Reserve, Insert, At, LockInv, Claims, HoldPcs
  <2>2. CASE Reserve(t)
    <3>1. /\ UNCHANGED <<process, backend, snapshot, shutting_down>>
          /\ \A u \in Tasks \ {t} : task'[u] = task[u]
      BY <1>1, <2>2 DEF Reserve, table, collected, GoTo, Return
    <3>2. task'[t].pc = "idle" \/ ~shutting_down
      BY <1>1, <2>2 DEF Reserve, MayReserve, Return, Idle
    <3>3. task'[t].pc \in OwnPcs \cup {"insert"} => ~shutting_down
      BY <3>2 DEF OwnPcs, LoadPcs
    <3> QED BY <1>1, <2>1, <3>1, <3>3, CallerSparesCloser
  <2>3. CASE Insert(t)
    <3>1. /\ UNCHANGED <<process, snapshot, shutting_down>>
          /\ \A u \in Tasks \ {t} : task'[u] = task[u]
          /\ task[t].pc = "insert"
      BY <1>1, <2>3 DEF Insert, collected, At
    <3>2. backend' = [backend EXCEPT ![p] =
                       [NoBackend EXCEPT !.lifecycle = "Loading", !.residency = Residency(t),
                                         !.generation = next_generation + 1]]
      BY <1>0, <2>3 DEF Insert
    <3>3. \A q \in Profiles :
            \/ backend'[q] = backend[q]
            \/ backend'[q].running = NoProcess /\ backend'[q].lifecycle = "Loading"
      <4> DEFINE b == [NoBackend EXCEPT !.lifecycle = "Loading", !.residency = Residency(t),
                                        !.generation = next_generation + 1]
      <4>1. b.running = NoProcess /\ b.lifecycle = "Loading" BY DEF NoBackend
      <4>2. backend' = [backend EXCEPT ![p] = b] BY <3>2
      <4> HIDE DEF b
      <4>3. \A q \in Profiles : backend'[q] = backend[q] \/ backend'[q] = b BY <1>1, <4>2
      <4> QED BY <4>1, <4>3
    <3>4. t \in Callers /\ \A u \in Tasks \ {t} : task'[u] = task[u] BY <3>1
    <3> QED BY <1>1, <2>1, <3>1, <3>3, <3>4, CallerSparesCloser
  <2> QED BY <1>2, <2>2, <2>3
<1>3. CASE ~Reserve(t) /\ ~Insert(t)
  <2>1. task[t].pc \in OwnPcs
    BY <1>3 DEF LoadStep, HandOff, LoadFails, BeginLoad, StoreLease, PrepareLaunch,
       SpawnBackend, RegisterProcess, AwaitStartup, KillSent, KillFails, AbortEnds, RetryLaunch,
       CommitLoad, CommitRefused, Killed, At, OwnPcs, LoadPcs
  <2>2. operation = t /\ p \in Profiles /\ backend[p] \in Backend
    BY <1>0, <1>1, <2>1 DEF LockInv, Claims, OwnPcs, HoldPcs, LoadPcs
  <2>3. UNCHANGED <<snapshot, shutting_down>>
    BY <1>3 DEF LoadStep, HandOff, LoadFails, BeginLoad, StoreLease, PrepareLaunch,
       SpawnBackend, RegisterProcess, AwaitStartup, KillSent, KillFails, AbortEnds, RetryLaunch,
       CommitLoad, CommitRefused, FailLoading, collected
  <2>4. \A u \in Tasks \ {t} : task'[u] = task[u]
    <3>1. CASE CommitLoad(t) BY <1>1, <3>1 DEF CommitLoad
    <3>2. CASE SpawnBackend(t) BY <1>1, <3>2 DEF SpawnBackend
    <3>3. CASE RetryLaunch(t)
      BY <1>1, <3>3 DEF RetryLaunch, FailLoading, Return
    <3>4. CASE ~CommitLoad(t) /\ ~SpawnBackend(t) /\ ~RetryLaunch(t)
      <4>1. Return(t) \/ \E pc : GoTo(t, pc)
        BY <1>3, <3>4 DEF LoadStep, HandOff, LoadFails, BeginLoad, StoreLease, PrepareLaunch,
           RegisterProcess, AwaitStartup, KillSent, KillFails, AbortEnds, CommitRefused, FailLoading
      <4> QED BY <1>1, <4>1 DEF Return, GoTo
    <3> QED BY <3>1, <3>2, <3>3, <3>4
  <2>5. shutting_down => \A q \in Profiles :
          /\ backend'[q].running # NoProcess => backend[q].running # NoProcess
          /\ backend'[q].lifecycle = "Running" => backend[q].lifecycle = "Running"
    <3>1. CASE CommitLoad(t) BY <3>1 DEF CommitLoad, MayCommit
    <3>2. CASE \E g, x : MarkFailed(g, x)
      <4>1. PICK g, x : MarkFailed(g, x) BY <3>2
      <4>2. ASSUME NEW q \in Profiles
            PROVE  \/ backend'[q] = backend[q]
                   \/ backend'[q].running = NoProcess /\ backend'[q].lifecycle = "Failed"
        <5>1. backend[q] \in Backend BY <1>1
        <5>2. \/ backend'[q] = backend[q]
              \/ backend'[q] = [backend[q] EXCEPT !.lifecycle = "Failed",
                                 !.running = NoProcess, !.loading = x,
                                 !.lease = backend[q].lease /\ x # NoProcess,
                                 !.cancel_loading = FALSE]
          BY <4>1 DEF MarkFailed
        <5> QED BY <5>1, <5>2 DEF Backend
      <4> QED BY <4>2
    <3>3. CASE UNCHANGED backend BY <3>3
    <3>4. CASE backend' = [backend EXCEPT ![p].lease = TRUE]
      BY <1>1, <2>2, <3>4 DEF Backend
    <3>5. CASE backend' = [backend EXCEPT ![p].loading = task[t].proc,
                                          ![p].version = task[t].version]
      BY <1>1, <2>2, <3>5 DEF Backend
    <3>6. CASE backend' = [backend EXCEPT ![p].loading = NoProcess]
      BY <1>1, <2>2, <3>6 DEF Backend
    <3> QED
      BY <1>0, <1>3, <3>1, <3>2, <3>3, <3>4, <3>5, <3>6
      DEF LoadStep, HandOff, LoadFails, BeginLoad, StoreLease, PrepareLaunch, SpawnBackend,
          RegisterProcess, AwaitStartup, KillSent, KillFails, AbortEnds, RetryLaunch,
          CommitRefused, FailLoading, table
  <2>6. task'[Closer] = task[Closer] /\ task'[Reaper] = task[Reaper] BY <1>1, <2>4
  <2>7. task'[Reaper].pc \in {"idle", "reclaim", "reclaiming"} BY <2>6 DEF CloserInv
  <2>8. \A u \in Callers : task'[u].pc \in OwnPcs \cup {"insert"} =>
          task[u].pc \in OwnPcs \cup {"insert"}
    BY <1>1, <2>1, <2>4
  <2>9. operation # Closer BY <1>1, <2>2
  <2> QED BY <2>1, <2>3, <2>5, <2>6, <2>7, <2>8, <2>9, CloserKept
<1> QED BY <1>2, <1>3

\* The other steps that have the lock or take it, but shutdown's own.
LEMMA HoldersSpareCloser ==
  ASSUME LockInv, CoreInv, CloserInv, NEW t \in Tasks \ {Closer},
         \/ t \in Callers /\ \E p \in Profiles : AdmitLoad(t, p)
         \/ t \in Callers /\ \E override \in BOOLEAN : MatchLoad(t, override)
         \/ t \in Callers /\ (AdmitPrimary(t) \/ MatchExisting(t) \/ AcquireTarget(t))
         \/ \E requested : Reclaim(t, requested)
         \/ ReclaimEnds(t)
         \/ \E q \in Profiles : StopBegins(t, q)
         \/ StopReturns(t)
  PROVE  CloserInv'
<1>1. /\ Reaper \in Tasks /\ Closer \in Tasks /\ Callers \subseteq Tasks
      /\ task \in [Tasks -> Task] /\ backend \in [Profiles -> Backend]
  BY DEF Tasks, Callers, LockInv, CoreTypes
<1>2. operation # Closer
  BY <1>1, ManagerAssumption
  DEF AdmitLoad, MatchLoad, AdmitPrimary, MatchExisting, AcquireTarget, Reclaim, ReclaimEnds,
      StopBegins, StopReturns, During, StopPcs, At, LockInv, Claims, HoldPcs
<1>3. UNCHANGED <<process, snapshot, shutting_down>>
  BY DEF AdmitLoad, MatchLoad, AdmitPrimary, MatchExisting, AcquireTarget, Reclaim, ReclaimEnds,
      StopBegins, StopReturns, collected
<1>4. /\ \A u \in Tasks \ {t} : task'[u] = task[u]
      /\ task'[t].pc \in {"idle", "admit", "infer", "match", "acquire", "reserve", "reclaim"}
                          \cup DOMAIN During \cup StopPcs
      /\ t = Reaper => task'[t].pc \in {"idle", "reclaim", "reclaiming"}
  <2>1. CASE \E p \in Profiles : t \in Callers /\ AdmitLoad(t, p)
    <3>1. PICK p \in Profiles : AdmitLoad(t, p) BY <2>1
    <3> DEFINE r == [Idle EXCEPT !.pc = "admit", !.prof = p, !.version = version[p]]
    <3>2. r.pc = "admit" /\ task' = [task EXCEPT ![t] = r] BY <3>1 DEF Idle, AdmitLoad
    <3> HIDE DEF r
    <3>3. t # Reaper BY <2>1, ManagerAssumption DEF Callers
    <3> QED BY <1>1, <3>2, <3>3
  <2>2. CASE t \in Callers /\ AcquireTarget(t)
    <3>1. PICK r : task' = [task EXCEPT ![t] = r] /\ r \in Task /\ r.pc \in {"idle", "infer"}
      <4> DEFINE b == backend[task[t].prof]
                 r == [task[t] EXCEPT !.pc = "infer", !.generation = b.generation,
                                      !.proc = b.running]
      <4>1. task[t] \in Task /\ task[t].prof \in Profiles
        BY <1>1, <2>2 DEF AcquireTarget, At, LockInv, Claims
      <4>2. b \in Backend BY <1>1, <4>1
      <4>3. r \in Task /\ r.pc = "infer" BY <4>1, <4>2 DEF Task, Backend, Pcs
      <4>4. task' = [task EXCEPT ![t] = r] \/ task' = [task EXCEPT ![t] = Idle]
        BY <2>2 DEF AcquireTarget, TakeLease
      <4>5. Idle.pc = "idle" BY DEF Idle
      <4> HIDE DEF r
      <4> QED BY <4>3, <4>4, <4>5, IdleType
    <3>2. t # Reaper BY <2>2, ManagerAssumption DEF Callers
    <3> QED BY <1>1, <3>1, <3>2
  <2>3. CASE Return(t) BY <1>1, <2>3 DEF Return, Idle
  <2>4. CASE \E pc \in {"match", "acquire", "reserve", "reclaim"} \cup DOMAIN During \cup StopPcs :
                GoTo(t, pc) /\ (t \in Callers \/ pc \in {"reclaim", "reclaiming"})
    <3>1. t = Reaper => t \notin Callers BY ManagerAssumption DEF Callers
    <3> QED BY <1>1, <2>4, <3>1 DEF GoTo, Task
  <2>5. t \in Callers \/ (t = Reaper /\ task[t].pc \in {"idle", "reclaim", "reclaiming"})
    BY DEF CloserInv, Tasks, Callers
  <2>6. CASE \/ t \in Callers /\ \E override \in BOOLEAN : MatchLoad(t, override)
             \/ t \in Callers /\ (AdmitPrimary(t) \/ MatchExisting(t))
    BY <2>3, <2>4, <2>6 DEF MatchLoad, AdmitPrimary, MatchExisting, During
  <2>7. CASE (\E requested : Reclaim(t, requested)) \/ ReclaimEnds(t)
    <3>1. GoTo(t, "reclaim") \/ Return(t) \/ (t \in Callers /\ GoTo(t, "match"))
      BY <2>5, <2>7 DEF Reclaim, ReclaimEnds
    <3> QED BY <2>3, <2>4, <3>1 DEF During
  <2>8. CASE \E q \in Profiles : StopBegins(t, q)
    <3>1. task[t].pc \in {"evict", "replace", "reclaim", "stop"} BY <2>8 DEF StopBegins, During
    <3>2. GoTo(t, During[task[t].pc]) \/ GoTo(t, After[task[t].pc]) BY <2>8 DEF StopBegins
    <3>3. During[task[t].pc] \in StopPcs BY <3>1 DEF During, StopPcs
    <3>4. /\ After[task[t].pc] \in {"match", "reserve", "reclaim", "stop"}
          /\ task[t].pc = "reclaim" => During[task[t].pc] = "reclaiming" /\ After[task[t].pc] = "reclaim"
      BY <3>1 DEF During, After
    <3>5. "stop" \in DOMAIN During BY DEF During
    <3> QED BY <2>4, <2>5, <3>1, <3>2, <3>3, <3>4, <3>5
  <2>9. CASE StopReturns(t)
    <3>1. task[t].pc \in StopPcs BY <2>9 DEF StopReturns
    <3>2. Return(t) \/ GoTo(t, After[Before[task[t].pc]]) BY <2>9 DEF StopReturns
    <3>3. /\ After[Before[task[t].pc]] \in {"match", "reserve", "reclaim", "stop"}
          /\ task[t].pc = "reclaiming" => After[Before[task[t].pc]] = "reclaim"
      BY <3>1 DEF Before, After, StopPcs
    <3>4. "stop" \in DOMAIN During BY DEF During
    <3>5. t \in Callers \/ After[Before[task[t].pc]] = "reclaim" BY <2>5, <3>1, <3>3 DEF StopPcs
    <3> QED BY <2>3, <2>4, <3>2, <3>3, <3>4, <3>5
  <2> QED BY <2>1, <2>2, <2>6, <2>7, <2>8, <2>9
<1>5. \A p \in Profiles :
        /\ backend'[p].running = backend[p].running
        /\ backend'[p].lifecycle = "Running" => backend[p].lifecycle = "Running"
  <2>1. CASE UNCHANGED backend BY <2>1
  <2>2. CASE \E p : backend' = [backend EXCEPT ![p].residency = "Pinned"]
    BY <1>1, <2>2 DEF Backend
  <2>3. CASE \E q \in Profiles : MarkStopping(q)
    BY <1>1, <2>3 DEF MarkStopping, Backend
  <2> QED
    BY <2>1, <2>2, <2>3
    DEF AdmitLoad, MatchLoad, AdmitPrimary, MatchExisting, AcquireTarget, Reclaim, ReclaimEnds,
        StopBegins, StopReturns, table
<1>6. task'[t].pc \notin OwnPcs \cup {"insert"}
  BY <1>4 DEF OwnPcs, LoadPcs, StopPcs, During
<1>7. /\ task'[Closer] = task[Closer]
      /\ task'[Reaper].pc \in {"idle", "reclaim", "reclaiming"}
  BY <1>1, <1>4 DEF CloserInv
<1>8. \A u \in Callers : task'[u].pc \in OwnPcs \cup {"insert"} =>
        task[u].pc \in OwnPcs \cup {"insert"}
  BY <1>1, <1>4, <1>6
<1>9. \A x \in Process : Live(x)' => Live(x) /\ (process[x].terminate => process'[x].terminate)
  BY <1>3 DEF Live
<1> QED BY <1>2, <1>3, <1>5, <1>7, <1>8, <1>9, CloserKept

\* Requests on the fast path and at their end, jobs, and dropped callers.
LEMMA OutsideSparesCloser ==
  ASSUME LockInv, CoreInv, CloserInv,
         \/ \E t \in Requests :
              \/ \E p \in Profiles, s \in Sessions, role \in {"Primary", "Auxiliary"},
                   decision \in Decisions : InferenceTarget(t, p, s, role, decision)
              \/ TryFastTarget(t)
              \/ InferenceEnds(t)
         \/ \E t \in Callers : DropRequest(t) \/ DropLoader(t)
  PROVE  CloserInv'
<1>1. /\ Callers \subseteq Tasks /\ Requests \subseteq Callers
      /\ task \in [Tasks -> Task]
  BY DEF Tasks, Callers, LockInv, CoreTypes
<1>2. CASE \E t \in Requests :
             \/ \E p \in Profiles, s \in Sessions, role \in {"Primary", "Auxiliary"},
                  decision \in Decisions : InferenceTarget(t, p, s, role, decision)
             \/ TryFastTarget(t)
             \/ InferenceEnds(t)
  <2>1. PICK t \in Requests :
             \/ \E p \in Profiles, s \in Sessions, role \in {"Primary", "Auxiliary"},
                  decision \in Decisions : InferenceTarget(t, p, s, role, decision)
             \/ TryFastTarget(t)
             \/ InferenceEnds(t)
    BY <1>2
  <2>2. UNCHANGED <<process, backend, todo, retirement, snapshot, shutting_down>>
    BY <2>1 DEF InferenceTarget, TryFastTarget, InferenceEnds, table, collected
  <2>3. PICK r : task' = [task EXCEPT ![t] = r] /\ r.pc \in {"idle", "fast", "wait", "infer"}
    <3>1. Idle.pc = "idle" BY DEF Idle
    <3>2. CASE \E p, s, role, decision : InferenceTarget(t, p, s, role, decision)
      <4>1. PICK p, s, role, decision : InferenceTarget(t, p, s, role, decision) BY <3>2
      <4> DEFINE r == [Idle EXCEPT !.pc = "fast", !.prof = p, !.sess = s, !.role = role,
                                   !.decision = decision, !.version = version[p]]
      <4>2. task' = [task EXCEPT ![t] = r] BY <4>1 DEF InferenceTarget
      <4>3. r.pc = "fast" BY DEF Idle
      <4> QED BY <4>2, <4>3
    <3>3. CASE task' = [task EXCEPT ![t] = Idle] BY <3>1, <3>3
    <3>4. CASE GoTo(t, "wait")
      <4> DEFINE r == [task[t] EXCEPT !.pc = "wait"]
      <4>1. task[t] \in Task BY <1>1
      <4>2. task' = [task EXCEPT ![t] = r] BY <1>1, <3>4 DEF GoTo
      <4>3. r.pc = "wait" BY <4>1 DEF Task
      <4> QED BY <4>2, <4>3
    <3>5. CASE TakeLease(t)
      <4> DEFINE b == backend[task[t].prof]
                 r == [task[t] EXCEPT !.pc = "infer", !.generation = b.generation,
                                      !.proc = b.running]
      <4>1. task[t] \in Task BY <1>1
      <4>2. task' = [task EXCEPT ![t] = r] \/ task' = [task EXCEPT ![t] = Idle]
        BY <3>5 DEF TakeLease
      <4>3. r.pc = "infer" BY <4>1 DEF Task
      <4> QED BY <3>1, <4>2, <4>3
    <3> QED BY <2>1, <3>2, <3>3, <3>4, <3>5 DEF TryFastTarget, InferenceEnds
  <2>4. /\ task'[t].pc \notin OwnPcs \cup {"insert"}
        /\ \A u \in Tasks \ {t} : task'[u] = task[u]
    BY <1>1, <2>3 DEF OwnPcs, LoadPcs
  <2> QED BY <1>1, <2>2, <2>4, CallerSparesCloser
<1>3. CASE \E t \in Callers : DropRequest(t) \/ DropLoader(t)
  <2>1. PICK t \in Callers : DropRequest(t) \/ DropLoader(t) BY <1>3
  <2>2. t # Closer BY ManagerAssumption DEF Callers
  <2>3. /\ UNCHANGED <<process, backend, snapshot, shutting_down>>
        /\ task' = [task EXCEPT ![t] = Idle] /\ DropOperation(t)
    BY <2>1 DEF DropRequest, DropLoader, table, collected
  <2>4. operation # Closer \/ UNCHANGED <<backend, todo, retirement>>
    BY <2>2, <2>3 DEF DropOperation
  <2>5. /\ task'[t].pc \notin OwnPcs \cup {"insert"}
        /\ \A u \in Tasks \ {t} : task'[u] = task[u]
    BY <1>1, <2>3 DEF OwnPcs, LoadPcs, Idle
  <2> QED BY <2>3, <2>4, <2>5, CallerSparesCloser
<1> QED BY <1>2, <1>3

\* Jobs, children, monitors and edits.
LEMMA EnvironmentSparesCloser ==
  ASSUME LockInv, CoreInv, CloserInv,
         \/ \E j \in job : JobStep(j)
         \/ \E p \in Profiles : UnloadCalled(p) \/ EditProfile(p)
         \/ \E x \in Process : Child(x) \/ ExitMonitor(x)
         \/ UNCHANGED vars
  PROVE  CloserInv'
<1>1. /\ UNCHANGED <<task, todo, snapshot, shutting_down>>
      /\ operation = Closer => UNCHANGED retirement
      /\ backend \in [Profiles -> Backend]
      /\ process \in [Process -> ProcessRecord]
  BY ManagerAssumption
  DEF JobStep, JobCancels, JobSendsKill, JobKilled, JobStops, UnloadCalled, EditProfile, Child,
      ExitMonitor, vars, table, collected, LockInv, CoreTypes, CoreInv, ProcInv,
      SupervisorTypeOK, Tasks
<1>2. \A x \in Process : Live(x)' => Live(x) /\ (process[x].terminate => process'[x].terminate)
  <2>1. CASE UNCHANGED process BY <2>1 DEF Live
  <2>2. CASE \E x : SendTerminate(x) BY <1>1, <2>2 DEF SendTerminate, Live, ProcessRecord
  <2>3. CASE \E x \in Process : Child(x)
    BY <1>1, <2>3 DEF Child, ChildTerminated, ChildExits, Live, ProcessRecord
  <2> QED BY <2>1, <2>2, <2>3
      DEF JobStep, JobCancels, JobSendsKill, JobKilled, JobStops, UnloadCalled, EditProfile,
          ExitMonitor, vars
<1>3. ASSUME NEW p \in Profiles
      PROVE  /\ backend'[p].running # NoProcess => backend[p].running # NoProcess
             /\ backend'[p].lifecycle = "Running" => backend[p].lifecycle = "Running"
             /\ operation = Closer /\ Serves(p)' => Serves(p)
  <2>0. OwnEntry(p) BY DEF CoreInv, EntryInv
  <2>1. CASE UNCHANGED backend BY <2>1 DEF Serves
  <2>2. CASE \E q \in Profiles : backend[q].lifecycle = "Loading" /\ MarkCancelled(q)
    <3>1. PICK q \in Profiles : backend[q].lifecycle = "Loading" /\ MarkCancelled(q) BY <2>2
    <3>2. CASE p # q BY <1>1, <3>1, <3>2 DEF MarkCancelled, Serves
    <3>3. CASE p = q
      <4>1. backend'[p].lifecycle = "Stopping" /\ backend'[p].running = backend[p].running
        BY <1>1, <3>1, <3>3 DEF MarkCancelled, Backend
      <4> QED BY <2>0, <3>1, <3>3, <4>1 DEF OwnEntry, Serves
    <3> QED BY <3>2, <3>3
  <2>3. CASE operation = Free /\ \E q \in Profiles : MarkStopping(q)
    <3>1. operation # Closer BY <2>3, ManagerAssumption DEF Tasks
    <3>2. PICK q \in Profiles : MarkStopping(q) BY <2>3
    <3>3. CASE p # q BY <1>1, <3>1, <3>2, <3>3 DEF MarkStopping
    <3>4. CASE p = q
      BY <1>1, <3>1, <3>2, <3>4 DEF MarkStopping, Backend
    <3> QED BY <3>3, <3>4
  <2>4. CASE \E q : backend' = [backend EXCEPT ![q].lifecycle = "Failed",
                                  ![q].running = NoProcess, ![q].lease = FALSE]
    <3>1. PICK q : backend' = [backend EXCEPT ![q].lifecycle = "Failed",
                                 ![q].running = NoProcess, ![q].lease = FALSE]
      BY <2>4
    <3>2. CASE p # q BY <1>1, <3>1, <3>2 DEF Serves
    <3>3. CASE p = q
      <4>1. backend'[p].running = NoProcess /\ backend'[p].lifecycle = "Failed"
        <5>1. backend[p] \in Backend BY <1>1
        <5> QED BY <1>1, <3>1, <3>3, <5>1 DEF Backend
      <4> QED BY <4>1 DEF Serves
    <3> QED BY <3>2, <3>3
  <2>5. \A j \in job : j.prof \in Profiles BY DEF LockInv, CoreTypes, Job
  <2>6. CASE \E j \in job : JobStep(j)
    <3>1. PICK j \in job : JobStep(j) BY <2>6
    <3>2. CASE JobCancels(j) BY <2>1, <2>2, <2>5, <3>2 DEF JobCancels, Cancels
    <3>3. CASE JobStops(j) BY <2>1, <2>3, <2>5, <3>3 DEF JobStops
    <3>4. CASE JobSendsKill(j) \/ JobKilled(j)
      BY <2>1, <3>4 DEF JobSendsKill, JobKilled, table
    <3> QED BY <3>1, <3>2, <3>3, <3>4 DEF JobStep
  <2>7. CASE \E x \in Process : ExitMonitor(x) BY <2>1, <2>4, <2>7 DEF ExitMonitor
  <2> QED BY <2>1, <2>6, <2>7 DEF UnloadCalled, EditProfile, Child, vars, table
<1>4. task'[Reaper].pc \in {"idle", "reclaim", "reclaiming"} BY <1>1 DEF CloserInv
<1> QED BY <1>1, <1>2, <1>3, <1>4, CloserKept

\* The retirement task: its entry serves nothing when it is done.
LEMMA RetirementSparesCloser ==
  ASSUME LockInv, CoreInv, CloserInv, RetirementStep
  PROVE  CloserInv'
<1>0. PICK q : q = retirement.prof OBVIOUS
<1>1. /\ UNCHANGED <<task, todo, snapshot, shutting_down>>
      /\ retirement.at \in {"drain", "killing"}
      /\ backend \in [Profiles -> Backend]
      /\ process \in [Process -> ProcessRecord]
      /\ retirement \in Retirements
  BY DEF RetirementStep, RetireSends, RetireFails, RetireCompletes, collected, LockInv,
         CoreTypes, CoreInv, ProcInv, SupervisorTypeOK
<1>2. q \in Profiles /\ backend[q] \in Backend BY <1>0, <1>1, RetirementFacts
<1>3. \A x \in Process : Live(x)' => Live(x) /\ (process[x].terminate => process'[x].terminate)
  <2>1. CASE UNCHANGED process BY <2>1 DEF Live
  <2>2. CASE \E x : SendTerminate(x) BY <1>1, <2>2 DEF SendTerminate, Live, ProcessRecord
  <2> QED BY <2>1, <2>2 DEF RetirementStep, RetireSends, RetireFails, RetireCompletes
<1>4. /\ \A p \in Profiles \ {q} : backend'[p] = backend[p]
      /\ \/ /\ backend'[q] = backend[q]
            /\ retirement'.at = "killing" /\ retirement'.prof = q
         \/ /\ backend'[q].lifecycle \in {"Failed", "Absent"}
            /\ backend'[q].running \in {backend[q].running, NoProcess}
  <2>1. CASE RetireSends
    <3>1. UNCHANGED backend /\ retirement' = [retirement EXCEPT !.at = "killing"]
      BY <2>1 DEF RetireSends, table
    <3> QED BY <1>0, <1>1, <3>1 DEF Retirements
  <2>2. CASE RetireFails
    <3>1. backend' = [backend EXCEPT ![q].lifecycle = "Failed"] BY <1>0, <2>2 DEF RetireFails
    <3> QED BY <1>1, <1>2, <3>1 DEF Backend
  <2>3. CASE RetireCompletes
    <3>1. backend' = [backend EXCEPT ![q] = NoBackend]
      BY <1>0, <2>3 DEF RetireCompletes, RemoveBackend
    <3>2. NoBackend.lifecycle = "Absent" /\ NoBackend.running = NoProcess BY DEF NoBackend
    <3> QED BY <1>1, <1>2, <3>1, <3>2
  <2> QED BY <2>1, <2>2, <2>3 DEF RetirementStep
<1>5. \A p \in Profiles :
        /\ backend'[p].running # NoProcess => backend[p].running # NoProcess
        /\ backend'[p].lifecycle = "Running" => backend[p].lifecycle = "Running"
  BY <1>4
<1>6. \A p \in Profiles : Serves(p)' =>
        /\ Serves(p)
        /\ p = retirement.prof => retirement'.at \in {"drain", "killing"} /\ retirement'.prof = p
  BY <1>0, <1>4 DEF Serves
<1>7. task'[Reaper].pc \in {"idle", "reclaim", "reclaiming"} BY <1>1 DEF CloserInv
<1> QED BY <1>1, <1>3, <1>5, <1>6, <1>7, CloserKept

\* Shutdown's own way: it collects whatever could serve, stops all of it, and
\* then turns to the supervisor.
LEMMA CloserGoesOn ==
  ASSUME LockInv, CoreInv, CloserInv,
         \/ \E q \in Profiles : StopBegins(Closer, q)
         \/ StopReturns(Closer)
         \/ CloserStep
  PROVE  CloserInv'
<1>1. /\ Closer \in Tasks /\ Reaper \in Tasks /\ Closer # Reaper
      /\ Callers \subseteq Tasks \ {Closer, Reaper}
      /\ task \in [Tasks -> Task] /\ backend \in [Profiles -> Backend]
  BY ManagerAssumption DEF Tasks, Callers, LockInv, CoreTypes
<1>2. ASSUME NEW pc, GoTo(Closer, pc)
      PROVE  /\ task'[Closer].pc = pc
             /\ \A u \in Tasks \ {Closer} : task'[u] = task[u]
  BY <1>1, <1>2 DEF GoTo, Task
<1>3. \A p \in Profiles : OwnEntry(p) BY DEF CoreInv, EntryInv
<1>4. CASE \E q \in Profiles : StopBegins(Closer, q)
  <2>1. PICK q \in Profiles : StopBegins(Closer, q) BY <1>4
  <2>2. /\ At(Closer, "stop") /\ shutting_down /\ shutting_down'
        /\ todo' = todo \ {q}
    BY <2>1 DEF StopBegins, During, CloserInv, At
  <2>3. CASE Present(q)
    <3>1. MarkStopping(q) /\ GoTo(Closer, "stopping")
      BY <2>1, <2>2, <2>3 DEF StopBegins, During, At
    <3>2. /\ retirement'.at = "drain" /\ retirement'.prof = q
          /\ \A p \in Profiles \ {q} : backend'[p] = backend[p]
      BY <1>1, <3>1 DEF MarkStopping
    <3>3. \A p \in Profiles : Serves(p)' => p \in todo' \/ p = q
      BY <2>2, <3>2 DEF CloserInv, Serves
    <3>4. task'[Reaper] = task[Reaper] /\ task'[Closer].pc = "stopping" BY <1>1, <1>2, <3>1
    <3> QED BY <2>2, <3>2, <3>3, <3>4 DEF CloserInv, At
  <2>4. CASE ~Present(q)
    <3>1. UNCHANGED backend /\ GoTo(Closer, "stop")
      BY <2>1, <2>2, <2>4 DEF StopBegins, After, At
    <3>2. \A p \in Profiles : Serves(p)' => p \in todo'
      BY <2>2, <2>4, <3>1 DEF CloserInv, Serves, Present
    <3>3. task'[Reaper] = task[Reaper] /\ task'[Closer].pc = "stop" BY <1>1, <1>2, <3>1
    <3> QED BY <2>2, <3>2, <3>3 DEF CloserInv, At
  <2> QED BY <2>3, <2>4
<1>5. CASE StopReturns(Closer)
  <2>1. task[Closer].pc = "stopping" BY <1>5 DEF StopReturns, StopPcs, CloserInv
  <2>2. /\ GoTo(Closer, "stop") /\ retirement.at \in {"ok", "err"}
        /\ UNCHANGED <<backend, todo, shutting_down>> /\ shutting_down
    BY <1>5, <2>1 DEF StopReturns, Before, After, table, CloserInv, At
  <2>3. \A p \in Profiles : Serves(p)' => p \in todo'
    BY <2>1, <2>2 DEF CloserInv, At, Serves
  <2>4. task'[Reaper] = task[Reaper] /\ task'[Closer].pc = "stop" BY <1>1, <1>2, <2>2
  <2> QED BY <2>2, <2>3, <2>4 DEF CloserInv, At
<1>6. CASE ShutdownCalled
  <2>1. shutting_down' /\ GoTo(Closer, "snapshot") BY <1>6 DEF ShutdownCalled
  <2>2. task'[Reaper] = task[Reaper] /\ task'[Closer].pc = "snapshot" BY <1>1, <1>2, <2>1
  <2> QED BY <2>1, <2>2 DEF CloserInv, At
<1>7. CASE ShutdownCollects
  <2>1. /\ task' = [task EXCEPT ![Reaper] = Idle, ![Closer].pc = "cancel"]
        /\ snapshot' = {p \in Profiles : Present(p)}
        /\ UNCHANGED <<backend, shutting_down>> /\ At(Closer, "snapshot")
    BY <1>7 DEF ShutdownCollects, table
  <2>2. task'[Reaper].pc = "idle" /\ task'[Closer].pc = "cancel"
    BY <1>1, <2>1 DEF Idle, Task
  <2>3. shutting_down' BY <2>1 DEF CloserInv, At
  <2>4. \A p \in Profiles : backend'[p].running # NoProcess => p \in snapshot'
    BY <1>3, <2>1 DEF OwnEntry, Present
  <2> QED BY <2>2, <2>3, <2>4 DEF CloserInv, At
<1>8. ASSUME NEW q \in Profiles, ShutdownCancels(q) PROVE CloserInv'
  <2>1. /\ At(Closer, "cancel") /\ shutting_down /\ UNCHANGED <<snapshot, shutting_down>>
        /\ \/ UNCHANGED <<backend, task>>
           \/ /\ MarkCancelled(q)
              /\ task' = [task EXCEPT ![Closer].proc = backend[q].loading,
                                      ![Closer].pc = IF backend[q].loading = NoProcess
                                                     THEN "cancel" ELSE "cancelling"]
    BY <1>8 DEF ShutdownCancels, CloserInv, At
  <2>2. /\ task'[Reaper] = task[Reaper]
        /\ task'[Closer].pc \in {"cancel", "cancelling"}
    BY <1>1, <2>1 DEF At, Task
  <2>3. \A p \in Profiles : backend'[p].running = backend[p].running
    BY <1>1, <2>1 DEF MarkCancelled, Backend
  <2> QED BY <2>1, <2>2, <2>3 DEF CloserInv, At
<1>9. CASE ShutdownKills
  <2>1. /\ At(Closer, "cancelling") /\ shutting_down
        /\ UNCHANGED <<backend, snapshot, shutting_down>>
        /\ \/ UNCHANGED task
           \/ task' = [task EXCEPT ![Closer].pc = "cancel", ![Closer].proc = NoProcess]
    BY <1>9 DEF ShutdownKills, CloserInv, At, table, collected
  <2>2. /\ task'[Reaper] = task[Reaper]
        /\ task'[Closer].pc \in {"cancel", "cancelling"}
    BY <1>1, <2>1 DEF At, Task
  <2> QED BY <2>1, <2>2 DEF CloserInv, At
<1>10. CASE ShutdownLocks
  <2>1. /\ At(Closer, "cancel") /\ shutting_down /\ GoTo(Closer, "stop") /\ todo' = snapshot
        /\ UNCHANGED <<backend, shutting_down>>
    BY <1>10 DEF ShutdownLocks, CloserInv, At, table
  <2>2. \A p \in Profiles : Serves(p)' => p \in todo' BY <2>1 DEF CloserInv, At, Serves
  <2>3. task'[Reaper] = task[Reaper] /\ task'[Closer].pc = "stop" BY <1>1, <1>2, <2>1
  <2> QED BY <2>1, <2>2, <2>3 DEF CloserInv, At
<1>11. CASE ShutdownSupervisor
  <2>1. /\ task[Closer].pc \in {"stop", "draining"} /\ operation = Closer
        /\ UNCHANGED <<backend, shutting_down>> /\ shutting_down
        /\ \A p \in Profiles : ~Serves(p)
    BY <1>1, <1>11
    DEF ShutdownSupervisor, At, table, CloserInv, LockInv, Claims, HoldPcs
  <2>2. \A x \in Process : Live(x)' => process'[x].terminate
    <3>1. CoreTypes' BY <1>11, CloserLockedSound DEF Sound, LockInv
    <3> QED BY <1>11, <3>1, SupervisorKeeps
  <2>3. /\ task'[Closer].pc \in {"draining", "done"}
        /\ \A u \in Tasks \ {Closer} : task'[u] = task[u]
    <3>1. CASE GoTo(Closer, "draining") BY <1>2, <3>1
    <3>2. CASE task' = [task EXCEPT ![Closer] = [Idle EXCEPT !.pc = "done"]]
      <4> DEFINE r == [Idle EXCEPT !.pc = "done"]
      <4>1. r.pc = "done" BY DEF Idle
      <4> HIDE DEF r
      <4> QED BY <1>1, <3>2, <4>1
    <3> QED BY <1>11, <3>1, <3>2 DEF ShutdownSupervisor
  <2>4. \A t \in Callers : task'[t].pc \notin OwnPcs \cup {"insert"}
    <3>1. ASSUME NEW t \in Callers PROVE task[t].pc \notin HoldPcs
      <4>1. t \in Tasks \ {Closer} BY <1>1
      <4> QED BY <1>1, <2>1, <4>1, OnlyHolder
    <3> QED BY <1>1, <2>3, <3>1 DEF OwnPcs, LoadPcs, HoldPcs
  <2>5. \A p \in Profiles : ~Serves(p)' /\ backend'[p].lifecycle # "Running"
    BY <1>3, <2>1 DEF Serves, OwnEntry
  <2>6. task'[Reaper] = task[Reaper] BY <1>1, <2>3
  <2> QED BY <2>1, <2>2, <2>3, <2>4, <2>5, <2>6 DEF CloserInv, At
<1> QED BY <1>4, <1>5, <1>6, <1>7, <1>8, <1>9, <1>10, <1>11 DEF CloserStep

\* Every step keeps what shutdown knows.
LEMMA NextCloser ==
  ASSUME LockInv, CoreInv, CloserInv, [Next]_vars
  PROVE  CloserInv'
<1>1. ASSUME NEW t \in Tasks, HolderStep(t) PROVE CloserInv'
  <2>1. CASE t = Closer BY <1>1, <2>1, CloserGoesOn DEF HolderStep
  <2>2. CASE t # Closer BY <1>1, <2>2, HoldersSpareCloser DEF HolderStep
  <2> QED BY <2>1, <2>2
<1>2. ASSUME NEW t \in Callers, LoadStep(t) PROVE CloserInv' BY <1>2, LoadsSpareCloser
<1>3. ASSUME NEW t \in Loaders, LoaderStep(t) PROVE CloserInv'
  <2>1. t \in Tasks \ {Closer} /\ t \in Callers BY ManagerAssumption DEF Tasks, Callers
  <2> QED BY <1>3, <2>1, HoldersSpareCloser DEF LoaderStep
<1>4. ASSUME NEW t \in Requests, RequestStep(t) PROVE CloserInv'
  <2>1. t \in Tasks \ {Closer} /\ t \in Callers BY ManagerAssumption DEF Tasks, Callers
  <2>2. AdmitAuxiliary(t) => \E requested : Reclaim(t, requested) BY DEF AdmitAuxiliary
  <2>3. CASE AdmitPrimary(t) \/ MatchExisting(t) \/ AcquireTarget(t)
    BY <2>1, <2>3, HoldersSpareCloser
  <2>4. CASE AdmitAuxiliary(t) \/ ReclaimEnds(t) BY <2>1, <2>2, <2>4, HoldersSpareCloser
  <2>5. CASE TryFastTarget(t) \/ InferenceEnds(t) BY <2>5, OutsideSparesCloser
  <2>6. CASE \E p \in Profiles, s \in Sessions, role \in {"Primary", "Auxiliary"},
               decision \in Decisions : InferenceTarget(t, p, s, role, decision)
    BY <2>6, OutsideSparesCloser
  <2> QED BY <1>4, <2>3, <2>4, <2>5, <2>6 DEF RequestStep
<1>5. ASSUME NEW t \in Callers, DropRequest(t) \/ DropLoader(t) PROVE CloserInv'
  BY <1>5, OutsideSparesCloser
<1>6. CASE ReapIdle \/ ReclaimEnds(Reaper)
  <2>1. Reaper \in Tasks \ {Closer} BY ManagerAssumption DEF Tasks
  <2> QED BY <1>6, <2>1, HoldersSpareCloser DEF ReapIdle
<1>7. CASE \E j \in job : JobStep(j) BY <1>7, EnvironmentSparesCloser
<1>8. CASE CloserStep BY <1>8, CloserGoesOn
<1>9. CASE RetirementStep BY <1>9, RetirementSparesCloser
<1>10. CASE \/ \E p \in Profiles : UnloadCalled(p) \/ EditProfile(p)
            \/ \E x \in Process : Child(x) \/ ExitMonitor(x)
            \/ UNCHANGED vars
  BY <1>10, EnvironmentSparesCloser
<1>11. CASE Next
  BY <1>1, <1>2, <1>3, <1>4, <1>5, <1>6, <1>7, <1>8, <1>9, <1>10, <1>11 DEF Next, Callers
<1> QED BY <1>10, <1>11

-----------------------------------------------------------------------------
(* The invariant and what follows from it.                                 *)

StopInv == LockInv /\ CoreInv /\ CloserInv

\* The empty table, no child, nobody on the way.
LEMMA InitStopInv == Init => StopInv
<1> SUFFICES ASSUME Init PROVE CoreInv /\ CloserInv BY InitLockInv DEF StopInv
<1>1. /\ \A t \in Tasks : task[t] = Idle
      /\ \A p \in Profiles : backend[p] = NoBackend
      /\ \A x \in Process : process[x] = [status |-> "unborn", tracked |-> FALSE, terminate |-> FALSE]
      /\ next_generation = 0 /\ retirement.at = "none" /\ job = {}
      /\ Closer \in Tasks /\ Reaper \in Tasks /\ Callers \subseteq Tasks
  BY DEF Init, SupervisorInit, NoRetirement, Tasks, Callers
<1>2. \A t \in Tasks : task[t].pc = "idle" BY <1>1 DEF Idle
<1>3. ProcInv
  <2>1. [status |-> "unborn", tracked |-> FALSE, terminate |-> FALSE] \in ProcessRecord
    BY DEF ProcessRecord
  <2> QED BY <1>1, <2>1 DEF Init, SupervisorInit, ProcInv, SupervisorTypeOK, Live
<1>4. EntryInv
  <2>1. /\ NoBackend.lifecycle = "Absent" /\ NoBackend.generation = 0
        /\ NoBackend.running = NoProcess /\ NoBackend.loading = NoProcess
    BY DEF NoBackend
  <2>2. ASSUME NEW p \in Profiles PROVE OwnEntry(p) BY <1>1, <2>1 DEF OwnEntry
  <2>3. ASSUME NEW p \in Profiles, NEW q \in Profiles PROVE Apart(p, q)
    BY <1>1, <2>1 DEF Apart, Uses
  <2> QED BY <2>2, <2>3 DEF EntryInv
<1>5. \A t \in Tasks : LoadInv(t) /\ ReplaceInv(t) /\ LeaseInv(t)
  BY <1>2 DEF LoadInv, ReplaceInv, LeaseInv, Carries, OwnPcs, LoadPcs, ProcPcs
<1>6. RetireInv /\ DoomInv BY <1>1, <1>2 DEF RetireInv, DoomInv, At
<1>7. CloserInv BY <1>1, <1>2 DEF CloserInv, At
<1> QED BY <1>3, <1>4, <1>5, <1>6, <1>7 DEF CoreInv

LEMMA StopInvariant == Spec => []StopInv
<1>1. StopInv /\ [Next]_vars => StopInv'
  BY NextSound, NextCore, NextCloser DEF Sound, StopInv
<1> QED BY <1>1, InitStopInv, PTL DEF Spec

(* For any number of profiles, callers, sessions, processes and loads, also
   with callers that disconnect at any await: no process is told to terminate
   while a request is running on it, whether by a stop, a reclaim, a guard,
   an unload's or shutdown's cancellation, a failed load or the supervisor's
   shutdown.  (stop_backend_with_operation_held drains its generation; the
   others only ever kill a process that no request was or will be routed to.) *)
THEOREM StopsDrainFirst == Spec => []DrainBeforeTerminate
<1>1. ASSUME StopInv PROVE DrainBeforeTerminate
  <2>1. \A t \in Requests : LeaseInv(t) BY <1>1 DEF StopInv, CoreInv, Tasks
  <2> QED BY <2>1 DEF DrainBeforeTerminate, LeaseInv, At
<1> QED BY <1>1, StopInvariant, PTL

-----------------------------------------------------------------------------
(* Who will stop a process or end a load.                                  *)

\* Only a load's own steps, or its caller's disconnect, move it.
LEMMA LoadsLeft ==
  ASSUME LockInv, [Next]_vars, NEW t \in Callers, ~LoadStep(t), task[t].pc \in OwnPcs
  PROVE  \/ task'[t] = task[t]
         \/ t \in Droppable \cap Requests /\ DropRequest(t)
         \/ t \in Droppable \cap Loaders /\ DropLoader(t) /\ task[t].pc = "handoff"
<1>1. /\ task \in [Tasks -> Task] /\ t \in Tasks /\ t # Closer /\ t # Reaper
      /\ Closer \in Tasks /\ Reaper \in Tasks /\ Callers \subseteq Tasks
  BY ManagerAssumption DEF LockInv, CoreTypes, Tasks, Callers
<1>2. task[t].pc \notin {"idle", "fast", "wait", "relock", "infer", "admit", "acquire", "match"}
                        \cup DOMAIN During \cup StopPcs
  BY DEF OwnPcs, LoadPcs, During, StopPcs
<1>3. ASSUME NEW u \in Tasks, HolderStep(u) PROVE task'[t] = task[t]
  <2>1. t # u BY <1>2, <1>3 DEF HolderStep, StopBegins, StopReturns
  <2> QED BY <1>1, <1>3, <2>1 DEF HolderStep, StopBegins, StopReturns, GoTo, Return
<1>4. ASSUME NEW u \in Callers, LoadStep(u) PROVE task'[t] = task[t]
  <2>1. t # u /\ u \in Tasks BY <1>1, <1>4
  <2>2. task[u].pc \in OwnPcs \cup {"reserve", "insert"}
    BY <1>4 DEF LoadStep, Reserve, Insert, HandOff, LoadFails, BeginLoad, StoreLease,
       PrepareLaunch, SpawnBackend, RegisterProcess, AwaitStartup, KillSent, KillFails,
       AbortEnds, RetryLaunch, CommitLoad, CommitRefused, Killed, At, OwnPcs, LoadPcs
  <2>3. operation = u /\ operation = t
    BY <1>1, <2>1, <2>2 DEF LockInv, Claims, OwnPcs, HoldPcs, LoadPcs
  <2> QED BY <2>1, <2>3
<1>5. ASSUME NEW u \in Loaders, LoaderStep(u) PROVE task'[t] = task[t]
  <2>1. t # u BY <1>2, <1>5 DEF LoaderStep, AdmitLoad, MatchLoad, At
  <2> QED BY <1>1, <1>5, <2>1 DEF LoaderStep, AdmitLoad, MatchLoad, GoTo, Return
<1>6. ASSUME NEW u \in Requests, RequestStep(u) PROVE task'[t] = task[t]
  <2>1. t # u
    BY <1>2, <1>6
    DEF RequestStep, InferenceTarget, TryFastTarget, AdmitPrimary, AdmitAuxiliary, ReclaimEnds,
        MatchExisting, AcquireTarget, InferenceEnds, At, During
  <2>2. CASE \E p, s, role, decision : InferenceTarget(u, p, s, role, decision)
    BY <1>1, <2>1, <2>2 DEF InferenceTarget
  <2>3. CASE ~\E p, s, role, decision : InferenceTarget(u, p, s, role, decision)
    BY <1>1, <1>6, <2>1, <2>3
    DEF RequestStep, TryFastTarget, AdmitPrimary, AdmitAuxiliary, Reclaim,
        ReclaimEnds, MatchExisting, AcquireTarget, InferenceEnds, TakeLease, GoTo, Return
  <2> QED BY <2>2, <2>3
<1>7. ASSUME NEW u \in Droppable \cap Requests, DropRequest(u)
      PROVE  task'[t] = task[t] \/ u = t
  BY <1>1, <1>7 DEF DropRequest
<1>8. ASSUME NEW u \in Droppable \cap Loaders, DropLoader(u)
      PROVE  task'[t] = task[t] \/ (u = t /\ task[t].pc = "handoff")
  BY <1>1, <1>8 DEF DropLoader, OwnPcs
<1>9. CASE ReapIdle \/ ReclaimEnds(Reaper)
  BY <1>1, <1>9 DEF ReapIdle, Reclaim, ReclaimEnds, GoTo, Return
<1>10. CASE CloserStep
  <2>1. ASSUME NEW p \in Profiles, ShutdownCancels(p) PROVE task'[t] = task[t]
    BY <1>1, <2>1 DEF ShutdownCancels
  <2>2. CASE ShutdownCalled \/ ShutdownCollects \/ ShutdownKills
    BY <1>1, <2>2 DEF ShutdownCalled, ShutdownCollects, ShutdownKills, GoTo
  <2>3. CASE ShutdownLocks \/ ShutdownSupervisor
    BY <1>1, <2>3 DEF ShutdownLocks, ShutdownSupervisor, GoTo
  <2> QED BY <1>10, <2>1, <2>2, <2>3 DEF CloserStep
<1>11. CASE \/ \E p \in Profiles : UnloadCalled(p) \/ EditProfile(p)
            \/ \E x \in Process : Child(x) \/ ExitMonitor(x)
            \/ \E j \in job : JobStep(j)
            \/ RetirementStep
            \/ UNCHANGED vars
  BY <1>11 DEF UnloadCalled, EditProfile, Child, ExitMonitor, JobStep, JobCancels, JobSendsKill,
     JobKilled, JobStops, RetirementStep, RetireSends, RetireFails, RetireCompletes, vars
<1>12. CASE Next
  BY <1>3, <1>4, <1>5, <1>6, <1>7, <1>8, <1>9, <1>10, <1>11, <1>12 DEF Next, Callers
<1> QED BY <1>11, <1>12

\* Without the step of a load an entry that is Loading was so and is unchanged,
\* and an entry gives up a process only when that is gone.
LEMMA TableLeft ==
  ASSUME LockInv, CoreInv, [Next]_vars, \A t \in Callers : ~LoadStep(t), NEW p \in Profiles
  PROVE  /\ backend'[p].lifecycle = "Loading" => backend'[p] = backend[p]
         /\ \A x \in Process : x \in Uses(p) => x \in Uses(p)' \/ Exited(x)
<1>1. backend \in [Profiles -> Backend] /\ backend[p] \in Backend /\ OwnEntry(p)
  BY DEF LockInv, CoreTypes, CoreInv, EntryInv
<1>2. CASE UNCHANGED backend BY <1>2 DEF Uses
<1>3. CASE \E q : /\ backend' = [backend EXCEPT ![q].residency = "Pinned"]
                 /\ backend[q].lifecycle = "Running"
  <2>1. /\ backend'[p] = backend[p] \/ backend'[p].lifecycle = "Running"
        /\ backend'[p].running = backend[p].running
        /\ backend'[p].loading = backend[p].loading
    BY <1>1, <1>3 DEF Backend
  <2> QED BY <2>1 DEF Uses
<1>4. CASE \E q : MarkStopping(q) \/ MarkCancelled(q) \/ backend' = [backend EXCEPT ![q].lifecycle = "Failed"]
  <2>1. /\ backend'[p] = backend[p] \/ backend'[p].lifecycle \in {"Stopping", "Failed"}
        /\ backend'[p].running = backend[p].running
        /\ backend'[p].loading = backend[p].loading
    BY <1>1, <1>4 DEF MarkStopping, MarkCancelled, Backend
  <2> QED BY <2>1 DEF Uses
<1>5. CASE \E x \in Process : ExitMonitor(x)
  <2>1. PICK x \in Process : ExitMonitor(x) BY <1>5
  <2>2. PICK q : q = monitor[x].prof OBVIOUS
  <2>3. CASE ~UNCHANGED backend
    <3>1. /\ backend' = [backend EXCEPT ![q].lifecycle = "Failed", ![q].running = NoProcess,
                                        ![q].lease = FALSE]
          /\ backend[q].running = x /\ Exited(x)
      BY <2>1, <2>2, <2>3 DEF ExitMonitor, ExitConcerns
    <3>2. CASE p # q BY <1>1, <3>1, <3>2 DEF Uses
    <3>3. CASE p = q
      <4>1. /\ backend'[p].lifecycle = "Failed" /\ backend'[p].running = NoProcess
            /\ backend'[p].loading = backend[p].loading
        BY <1>1, <3>1, <3>3 DEF Backend
      <4> QED BY <3>1, <3>3, <4>1 DEF Uses
    <3> QED BY <3>2, <3>3
  <2> QED BY <1>2, <2>3
<1>6. CASE RetireCompletes
  <2>1. PICK q : q = retirement.prof OBVIOUS
  <2>2. /\ q \in Profiles /\ Uses(q) \subseteq {retirement.proc} \ {NoProcess}
        /\ retirement.proc # NoProcess => Exited(retirement.proc)
        /\ backend' = [backend EXCEPT ![q] = NoBackend]
    BY <1>6, <2>1, RetirementFacts DEF RetireCompletes, TerminateDone, RemoveBackend
  <2>3. CASE p = q
    <3>1. backend'[p].lifecycle = "Absent" BY <1>1, <2>2, <2>3 DEF NoBackend
    <3> QED BY <2>2, <2>3, <3>1
  <2>4. CASE p # q BY <1>1, <2>2, <2>4 DEF Uses
  <2> QED BY <2>3, <2>4
<1>7. CASE \E t \in Tasks : HolderStep(t)
  BY <1>2, <1>4, <1>7 DEF HolderStep, StopBegins, StopReturns, table
<1>8. CASE \E t \in Loaders : LoaderStep(t)
  BY <1>2, <1>3, <1>8 DEF LoaderStep, AdmitLoad, MatchLoad, table
<1>9. CASE \E t \in Requests : RequestStep(t)
  BY <1>2, <1>9 DEF RequestStep, InferenceTarget, TryFastTarget, AdmitPrimary, AdmitAuxiliary,
     Reclaim, ReclaimEnds, MatchExisting, AcquireTarget, InferenceEnds, table
<1>10. CASE \/ \E t : DropRequest(t) \/ DropLoader(t)
            \/ ReapIdle \/ ReclaimEnds(Reaper)
            \/ \E q : UnloadCalled(q) \/ EditProfile(q)
            \/ \E x : Child(x)
  BY <1>2, <1>10 DEF DropRequest, DropLoader, ReapIdle, Reclaim, ReclaimEnds, UnloadCalled,
     EditProfile, Child, table
<1>11. CASE \E j \in job : JobStep(j)
  BY <1>2, <1>4, <1>11 DEF JobStep, JobCancels, JobSendsKill, JobKilled, JobStops, table
<1>12. CASE CloserStep
  BY <1>2, <1>4, <1>12 DEF CloserStep, ShutdownCalled, ShutdownCollects, ShutdownCancels,
     ShutdownKills, ShutdownLocks, ShutdownSupervisor, table
<1>13. CASE RetireSends \/ RetireFails
  BY <1>2, <1>4, <1>13 DEF RetireSends, RetireFails, table
<1>14. CASE UNCHANGED vars BY <1>2, <1>14 DEF vars
<1>15. CASE Next
  BY <1>5, <1>6, <1>7, <1>8, <1>9, <1>10, <1>11, <1>12, <1>13, <1>15
  DEF Next, RetirementStep, Callers
<1> QED BY <1>14, <1>15

\* The entry of a manual load that has taken nothing yet.
Unused(p) ==
  backend[p].residency = "Pinned" /\ backend[p].lease = FALSE /\ Uses(p) = {}

\* What the step of a load does with its entry and its process: both are its
\* own, it lets go of the process only to its entry or when that is gone, and
\* it leaves no entry Loading behind.
LoadDoes(t, p, x) ==
  /\ \A u \in Tasks \ {t} : task'[u] = task[u]
  /\ \A q \in Profiles \ {p} : backend'[q] = backend[q]
  /\ \A y \in Process : Live(y)' /\ ~process'[y].terminate =>
       \/ Live(y) /\ ~process[y].terminate
       \/ Carries(t)' /\ task'[t].proc = y
  /\ Carries(t) /\ ~Exited(x) => (Carries(t)' /\ task'[t].proc = x) \/ x \in Uses(p)'
  /\ \A y \in Uses(p) : y \in Uses(p)' \/ (Carries(t) /\ y = x)
  /\ backend'[p].lifecycle = "Loading" =>
       /\ task'[t].pc \in OwnPcs /\ task'[t].prof = p
       /\ task'[t].pc = "handoff" => t \in Loaders /\ Unused(p)'

\* The child's status and orders stay.
LEMMA ProcessStays ==
  ASSUME UNCHANGED process
  PROVE  \A y : /\ Live(y)' <=> Live(y)
                /\ process'[y].terminate <=> process[y].terminate
                /\ Exited(y)' <=> Exited(y)
  BY DEF Live, Exited

\* The error returns keep the process unless it is gone.
LEMMA FailDoes ==
  ASSUME LockInv, CoreInv, NEW t \in Callers, task[t].pc \in LoadPcs,
         NEW p, p = task[t].prof, NEW x, x = task[t].proc, NEW y \in {NoProcess, x},
         Carries(t) => y = x \/ Exited(x),
         FailLoading(t, y), UNCHANGED process
  PROVE  LoadDoes(t, p, x)
<1>1. /\ t \in Tasks /\ p \in Profiles /\ backend[p] \in Backend
      /\ backend[p].lifecycle \in {"Loading", "Stopping"}
      /\ backend[p].generation = task[t].generation
      /\ backend[p].running = NoProcess
      /\ \A q \in Profiles \ {p} : backend[q].generation # task[t].generation
      /\ LoadInv(t)
      /\ task \in [Tasks -> Task] /\ backend \in [Profiles -> Backend]
  BY LoadFacts DEF LockInv, CoreTypes
<1>2. MarkFailed(task[t].generation, y) /\ Return(t) BY DEF FailLoading
<1>3. /\ backend'[p].lifecycle = "Failed"
      /\ backend'[p].running = NoProcess
      /\ backend'[p].loading = y
  <2>1. backend'[p] = [backend[p] EXCEPT !.lifecycle = "Failed", !.running = NoProcess,
                         !.loading = y, !.lease = backend[p].lease /\ y # NoProcess,
                         !.cancel_loading = FALSE]
    BY <1>1, <1>2 DEF MarkFailed, Present
  <2> QED BY <1>1, <2>1 DEF Backend
<1>4. \A q \in Profiles \ {p} : backend'[q] = backend[q]
  BY <1>1, <1>2 DEF MarkFailed
<1>5. \A u \in Tasks \ {t} : task'[u] = task[u]
  BY <1>1, <1>2 DEF Return
<1>6. Carries(t) => x \in Process /\ x # NoProcess
  BY <1>1, ProcessNumbers DEF LoadInv, Born
<1>7. Carries(t) /\ ~Exited(x) => x \in Uses(p)'
  BY <1>3, <1>6 DEF Uses
<1>8. \A z \in Uses(p) : Carries(t) /\ z = x
  BY <1>1 DEF Uses, LoadInv, OwnPcs
<1>9. \A z \in Process : Live(z)' /\ ~process'[z].terminate => Live(z) /\ ~process[z].terminate
  BY ProcessStays
<1> QED BY <1>3, <1>4, <1>5, <1>7, <1>8, <1>9 DEF LoadDoes

\* The points of a load that only go on.
LEMMA MoveDoes ==
  ASSUME LockInv, CoreInv, NEW t \in Callers, task[t].pc \in OwnPcs,
         NEW p, p = task[t].prof, NEW x, x = task[t].proc,
         NEW pc \in LoadPcs, GoTo(t, pc), Carries(t) => pc \in ProcPcs,
         UNCHANGED process \/ SendTerminate(x),
         \A q \in Profiles \ {p} : backend'[q] = backend[q],
         Uses(p) \subseteq Uses(p)'
  PROVE  LoadDoes(t, p, x)
<1>1. /\ task \in [Tasks -> Task] /\ t \in Tasks
      /\ process \in [Process -> ProcessRecord]
  BY DEF LockInv, CoreTypes, CoreInv, ProcInv, SupervisorTypeOK, Tasks, Callers
<1>2. /\ task'[t].pc = pc /\ task'[t].prof = p /\ task'[t].proc = x
      /\ \A u \in Tasks \ {t} : task'[u] = task[u]
  BY <1>1 DEF GoTo, Task
<1>3. \A y \in Process : Live(y)' /\ ~process'[y].terminate => Live(y) /\ ~process[y].terminate
  BY <1>1, ProcessStays DEF SendTerminate, Live, ProcessRecord
<1>4. task'[t].pc \in OwnPcs /\ task'[t].pc # "handoff"
  BY <1>2 DEF OwnPcs, LoadPcs
<1> QED BY <1>2, <1>3, <1>4 DEF LoadDoes, Carries

\* So does every step of a load.
LEMMA LoadStepDoes ==
  ASSUME LockInv, CoreInv, NEW t \in Callers, LoadStep(t),
         NEW p, p = task[t].prof, NEW x, x = task[t].proc
  PROVE  LoadDoes(t, p, x)
<1>1. /\ task \in [Tasks -> Task] /\ backend \in [Profiles -> Backend]
      /\ t \in Tasks /\ LoadInv(t) /\ ReplaceInv(t)
  BY DEF LockInv, CoreTypes, CoreInv, Tasks, Callers
<1>2. \A y \in Process : Live(y)' /\ ~process'[y].terminate =>
        (Live(y) /\ ~process[y].terminate) \/ ~UNCHANGED process
  BY ProcessStays
<1>3. task[t].pc \in OwnPcs \cup {"reserve", "insert"}
  BY DEF LoadStep, Reserve, Insert, HandOff, LoadFails, BeginLoad, StoreLease, PrepareLaunch,
     SpawnBackend, RegisterProcess, AwaitStartup, KillSent, KillFails, AbortEnds, RetryLaunch,
     CommitLoad, CommitRefused, Killed, At, OwnPcs, LoadPcs
<1>4. p \in Profiles /\ OwnEntry(p)
  BY <1>1, <1>3 DEF LockInv, Claims, CoreInv, EntryInv, OwnPcs, LoadPcs
<1>5. ASSUME ~Present(p) PROVE Uses(p) = {} /\ backend[p].lifecycle = "Absent"
  BY <1>4, <1>5 DEF OwnEntry, Present, Uses
<1>6. CASE Reserve(t)
  <2>1. ~Present(p) /\ ~Carries(t) /\ UNCHANGED <<backend, process>>
    BY <1>1, <1>6 DEF Reserve, ReplaceInv, Carries, ProcPcs, At, table
  <2>2. \A u \in Tasks \ {t} : task'[u] = task[u]
    BY <1>1, <1>6 DEF Reserve, GoTo, Return
  <2> QED BY <1>2, <1>5, <2>1, <2>2 DEF LoadDoes
<1>7. CASE Insert(t)
  <2>1. ~Present(p) /\ ~Carries(t) /\ UNCHANGED process
    BY <1>1, <1>7 DEF Insert, ReplaceInv, Carries, ProcPcs, At
  <2>2. /\ \A u \in Tasks \ {t} : task'[u] = task[u]
        /\ task'[t].pc \in {"begin", "handoff"} /\ task'[t].prof = p
        /\ \A q \in Profiles \ {p} : backend'[q] = backend[q]
    BY <1>1, <1>4, <1>7 DEF Insert, Task
  <2>3. task'[t].pc \in OwnPcs BY <2>2 DEF OwnPcs, LoadPcs
  <2>4. ASSUME task'[t].pc = "handoff" PROVE t \in Loaders /\ Unused(p)'
    <3>1. t \notin Requests BY <1>1, <1>7, <2>4 DEF Insert, Task
    <3>2. backend'[p] = [NoBackend EXCEPT !.lifecycle = "Loading", !.residency = "Pinned",
                                          !.generation = next_generation + 1]
      BY <1>1, <1>4, <1>7, <3>1 DEF Insert, Residency
    <3>3. /\ backend'[p].residency = "Pinned" /\ backend'[p].lease = FALSE
          /\ backend'[p].running = NoProcess /\ backend'[p].loading = NoProcess
      BY <3>2 DEF NoBackend
    <3> QED BY <3>1, <3>3 DEF Unused, Uses, Callers
  <2> QED BY <1>2, <1>5, <2>1, <2>2, <2>3, <2>4 DEF LoadDoes
<1>8. CASE HandOff(t) \/ BeginLoad(t) \/ PrepareLaunch(t) \/ AwaitStartup(t) \/ CommitRefused(t)
  <2>1. UNCHANGED <<backend, process>> /\ task[t].pc \in OwnPcs
    BY <1>8 DEF HandOff, BeginLoad, PrepareLaunch, AwaitStartup, CommitRefused, table, At,
       OwnPcs, LoadPcs
  <2>2. PICK pc \in LoadPcs : GoTo(t, pc) /\ (Carries(t) => pc \in ProcPcs)
    BY <1>8 DEF HandOff, BeginLoad, PrepareLaunch, AwaitStartup, CommitRefused, At, LoadPcs,
       ProcPcs, Carries
  <2> QED BY <2>1, <2>2, MoveDoes DEF Uses
<1>9. CASE KillSent(t)
  <2>1. UNCHANGED backend /\ task[t].pc \in OwnPcs /\ SendTerminate(x)
    BY <1>9 DEF KillSent, table, OwnPcs, LoadPcs
  <2>2. PICK pc \in LoadPcs : GoTo(t, pc) /\ pc \in ProcPcs
    BY <1>9 DEF KillSent, At, LoadPcs, ProcPcs
  <2> QED BY <2>1, <2>2, MoveDoes DEF Uses
<1>10. CASE StoreLease(t)
  <2>1. /\ UNCHANGED process /\ task[t].pc \in OwnPcs /\ ~Carries(t) /\ GoTo(t, "launch")
        /\ backend' = [backend EXCEPT ![p].lease = TRUE]
    BY <1>10 DEF StoreLease, OwnPcs, LoadPcs, At, Carries, ProcPcs
  <2>2. /\ \A q \in Profiles \ {p} : backend'[q] = backend[q]
        /\ backend'[p].running = backend[p].running
        /\ backend'[p].loading = backend[p].loading
    BY <1>1, <1>4, <2>1 DEF Backend
  <2>3. "launch" \in LoadPcs BY DEF LoadPcs
  <2> QED BY <2>1, <2>2, <2>3, MoveDoes DEF Uses
<1>11. CASE RegisterProcess(t)
  <2>1. UNCHANGED process /\ task[t].pc = "spawned" BY <1>11 DEF RegisterProcess, At
  <2>2. Uses(p) = {} BY <1>1, <2>1 DEF LoadInv, Uses, OwnPcs, LoadPcs
  <2>3. \A q \in Profiles \ {p} : backend'[q] = backend[q]
    BY <1>1, <1>11 DEF RegisterProcess
  <2>4. PICK pc \in LoadPcs : GoTo(t, pc) /\ pc \in ProcPcs
    BY <1>11 DEF RegisterProcess, LoadPcs, ProcPcs
  <2>5. task[t].pc \in OwnPcs BY <2>1 DEF OwnPcs, LoadPcs
  <2> QED BY <2>1, <2>2, <2>3, <2>4, <2>5, MoveDoes
<1>12. CASE SpawnBackend(t)
  <2>1. PICK y \in Process : Spawn(y) /\ task' = [task EXCEPT ![t].pc = "spawned", ![t].proc = y]
    BY <1>12 DEF SpawnBackend
  <2>2. UNCHANGED backend /\ ~Carries(t)
    BY <1>12 DEF SpawnBackend, At, Carries, ProcPcs, table
  <2>3. /\ \A u \in Tasks \ {t} : task'[u] = task[u]
        /\ task'[t].pc = "spawned" /\ task'[t].proc = y /\ task'[t].prof = p
    BY <1>1, <2>1 DEF Task
  <2>4. \A z \in Process \ {y} : Live(z)' /\ ~process'[z].terminate => Live(z) /\ ~process[z].terminate
    <3>1. process \in [Process -> ProcessRecord] BY DEF CoreInv, ProcInv, SupervisorTypeOK
    <3>2. ASSUME NEW z \in Process \ {y}
          PROVE  process'[z].status = process[z].status /\ process'[z].terminate = process[z].terminate
      BY <2>1, <3>1 DEF Spawn, Retained, ProcessRecord
    <3> QED BY <3>2 DEF Live
  <2>5. Carries(t)' BY <2>3 DEF Carries, ProcPcs
  <2>6. Uses(p)' = Uses(p) BY <2>2 DEF Uses
  <2>7. task'[t].pc \in OwnPcs /\ task'[t].pc # "handoff" BY <2>3 DEF OwnPcs, LoadPcs
  <2> QED BY <2>2, <2>3, <2>4, <2>5, <2>6, <2>7 DEF LoadDoes
<1>13. CASE CommitLoad(t)
  <2>1. /\ task[t].pc = "commit" /\ UNCHANGED process
        /\ backend' = [backend EXCEPT ![p].lifecycle = "Running", ![p].running = x,
                                      ![p].loading = NoProcess, ![p].cancel_loading = FALSE,
                                      ![p].residency = Residency(t)]
    BY <1>13 DEF CommitLoad, At
  <2>2. /\ backend'[p].lifecycle = "Running" /\ backend'[p].running = x
        /\ \A q \in Profiles \ {p} : backend'[q] = backend[q]
    <3>1. backend'[p] = [backend[p] EXCEPT !.lifecycle = "Running", !.running = x,
                                           !.loading = NoProcess, !.cancel_loading = FALSE,
                                           !.residency = Residency(t)]
      BY <1>1, <1>4, <2>1
    <3>2. backend'[p].lifecycle = "Running" BY <1>1, <1>4, <3>1 DEF Backend
    <3>3. backend'[p].running = x BY <1>1, <1>4, <3>1 DEF Backend
    <3>4. \A q \in Profiles \ {p} : backend'[q] = backend[q] BY <1>1, <1>4, <2>1
    <3> QED BY <3>2, <3>3, <3>4
  <2>3. \A u \in Tasks \ {t} : task'[u] = task[u] BY <1>1, <1>13 DEF CommitLoad
  <2>4. Carries(t) BY <2>1 DEF Carries, ProcPcs
  <2>5. x # NoProcess /\ backend[p].loading \in {NoProcess, x} /\ backend[p].running = NoProcess
    BY <1>1, <2>1, <2>4, ProcessNumbers DEF LoadInv, Born, OwnPcs, LoadPcs
  <2>6. x \in Uses(p)' /\ \A y \in Uses(p) : y = x BY <2>2, <2>5 DEF Uses
  <2> QED BY <1>2, <2>1, <2>2, <2>3, <2>4, <2>6 DEF LoadDoes
<1>14. CASE LoadFails(t)
  <2>1. task[t].pc \in LoadPcs /\ ~Carries(t) /\ FailLoading(t, NoProcess) /\ UNCHANGED process
    BY <1>14 DEF LoadFails, LoadPcs, Carries, ProcPcs
  <2> QED BY <2>1, FailDoes
<1>15. CASE KillFails(t)
  <2>1. task[t].pc \in LoadPcs /\ FailLoading(t, x) /\ UNCHANGED process
    BY <1>15 DEF KillFails, LoadPcs
  <2> QED BY <2>1, FailDoes
<1>16. CASE AbortEnds(t)
  <2>1. /\ task[t].pc \in LoadPcs /\ FailLoading(t, NoProcess) /\ UNCHANGED process
        /\ Exited(x)
    BY <1>16 DEF AbortEnds, Killed, TerminateDone, At, LoadPcs
  <2> QED BY <2>1, FailDoes
<1>17. CASE RetryLaunch(t)
  <2>1. task[t].pc \in LoadPcs /\ Carries(t) /\ Exited(x)
    BY <1>17 DEF RetryLaunch, Killed, TerminateDone, At, LoadPcs, Carries, ProcPcs
  <2>2. CASE FailLoading(t, NoProcess) /\ UNCHANGED process BY <2>1, <2>2, FailDoes
  <2>3. CASE /\ backend' = [backend EXCEPT ![p].loading = NoProcess]
             /\ task' = [task EXCEPT ![t].pc = "launch", ![t].proc = NoProcess]
             /\ UNCHANGED process
    <3>1. /\ \A u \in Tasks \ {t} : task'[u] = task[u]
          /\ task'[t].pc = "launch" /\ task'[t].prof = p
          /\ \A q \in Profiles \ {p} : backend'[q] = backend[q]
      BY <1>1, <2>3 DEF Task
    <3>2. \A y \in Uses(p) : y = x
      BY <1>1, <2>1 DEF LoadInv, Uses, OwnPcs
    <3>3. task'[t].pc \in OwnPcs /\ task'[t].pc # "handoff" BY <3>1 DEF OwnPcs, LoadPcs
    <3> QED BY <1>2, <2>1, <2>3, <3>1, <3>2, <3>3 DEF LoadDoes
  <2> QED BY <1>17, <2>2, <2>3 DEF RetryLaunch
<1> QED BY <1>6, <1>7, <1>8, <1>9, <1>10, <1>11, <1>12, <1>13, <1>14, <1>15, <1>16, <1>17 DEF LoadStep

\* Nobody but a load brings a child to life, and an order to terminate stays.
LEMMA ChildrenLeft ==
  ASSUME CoreInv, [Next]_vars, \A t \in Callers : ~LoadStep(t)
  PROVE  \A x \in Process : Live(x)' /\ ~process'[x].terminate => Live(x) /\ ~process[x].terminate
<1>1. process \in [Process -> ProcessRecord] BY DEF CoreInv, ProcInv, SupervisorTypeOK
<1>2. CASE UNCHANGED process BY <1>2, ProcessStays
<1>3. CASE \E x : SendTerminate(x) \/ ChildTerminated(x) \/ ChildExits(x)
  BY <1>1, <1>3 DEF SendTerminate, ChildTerminated, ChildExits, Live, ProcessRecord
<1>4. CASE SupervisorShutdownBegins \/ SupervisorShutdownEnds
  BY <1>1, <1>4 DEF SupervisorShutdownBegins, SupervisorShutdownEnds, Live, ProcessRecord
<1>5. CASE \E t \in Tasks : HolderStep(t)
  BY <1>2, <1>5 DEF HolderStep, StopBegins, StopReturns
<1>6. CASE \E t \in Loaders : LoaderStep(t)
  BY <1>2, <1>6 DEF LoaderStep, AdmitLoad, MatchLoad
<1>7. CASE \E t \in Requests : RequestStep(t)
  BY <1>2, <1>7 DEF RequestStep, InferenceTarget, TryFastTarget, AdmitPrimary, AdmitAuxiliary,
     Reclaim, ReclaimEnds, MatchExisting, AcquireTarget, InferenceEnds
<1>8. CASE \/ \E t : DropRequest(t) \/ DropLoader(t)
           \/ ReapIdle \/ ReclaimEnds(Reaper)
           \/ \E q : UnloadCalled(q) \/ EditProfile(q)
           \/ \E x : ExitMonitor(x)
  BY <1>2, <1>8 DEF DropRequest, DropLoader, ReapIdle, Reclaim, ReclaimEnds, UnloadCalled,
     EditProfile, ExitMonitor
<1>9. CASE \E x : Child(x) BY <1>3, <1>9 DEF Child
<1>10. CASE \E j \in job : JobStep(j)
  BY <1>2, <1>3, <1>10 DEF JobStep, JobCancels, JobSendsKill, JobKilled, JobStops
<1>11. CASE CloserStep
  BY <1>2, <1>3, <1>4, <1>11 DEF CloserStep, ShutdownCalled, ShutdownCollects, ShutdownCancels,
     ShutdownKills, ShutdownLocks, ShutdownSupervisor
<1>12. CASE RetirementStep
  BY <1>2, <1>3, <1>12 DEF RetirementStep, RetireSends, RetireFails, RetireCompletes
<1>13. CASE UNCHANGED vars BY <1>2, <1>13 DEF vars
<1>14. CASE Next
  BY <1>5, <1>6, <1>7, <1>8, <1>9, <1>10, <1>11, <1>12, <1>14 DEF Next, Callers
<1> QED BY <1>13, <1>14

-----------------------------------------------------------------------------
(* The guards' tasks.                                                      *)

\* A guard's task that may still cancel a load knows which: no generation is
\* zero, which to cancel_loading_generation means whatever is loading.
GuardInv == \A j \in job : j.kind = "unload" \/ j.at = "lock" \/ j.generation # 0

\* Tasks are only spawned where a load or a Decision is abandoned, or by unload.
JobsGrow ==
  \E k : /\ job' = job \cup {k}
         /\ \/ \E t \in Callers : task[t].pc \in LoadPcs /\ k = JitGuard(task[t].prof, task[t].generation)
            \/ \E p, g : k = DecisionGuard(p, g)
            \/ \E p : k = Unload(p)

LEMMA JobsKept ==
  ASSUME LockInv, [Next]_vars
  PROVE  \/ job' = job
         \/ JobsGrow
         \/ \E j \in job : JobStep(j)
<1>1. CASE \E t \in Tasks : HolderStep(t)
  BY <1>1 DEF HolderStep, StopBegins, StopReturns
<1>2. ASSUME NEW t \in Callers, LoadStep(t) PROVE job' = job \/ JobsGrow
  <2>1. ASSUME NEW x, FailLoading(t, x), task[t].pc \in LoadPcs PROVE job' = job \/ JobsGrow
    <3>1. PICK k : k = JitGuard(task[t].prof, task[t].generation) OBVIOUS
    <3>2. job' = job \/ job' = job \cup {k} BY <2>1, <3>1 DEF FailLoading
    <3> QED BY <2>1, <3>1, <3>2 DEF JobsGrow
  <2>2. CASE LoadFails(t) \/ KillFails(t) \/ AbortEnds(t) \/ RetryLaunch(t) \/ CommitRefused(t)
    BY <2>1, <2>2 DEF LoadFails, KillFails, AbortEnds, RetryLaunch, CommitRefused, Killed, At, LoadPcs
  <2>3. CASE \/ Reserve(t) \/ Insert(t) \/ HandOff(t) \/ BeginLoad(t) \/ StoreLease(t)
             \/ PrepareLaunch(t) \/ SpawnBackend(t) \/ RegisterProcess(t) \/ AwaitStartup(t)
             \/ KillSent(t) \/ CommitLoad(t)
    BY <2>3 DEF Reserve, Insert, HandOff, BeginLoad, StoreLease, PrepareLaunch, SpawnBackend,
       RegisterProcess, AwaitStartup, KillSent, CommitLoad
  <2> QED BY <1>2, <2>2, <2>3 DEF LoadStep
<1>3. ASSUME NEW t, LoaderStep(t) PROVE job' = job
  <2>1. ASSUME NEW p, AdmitLoad(t, p) PROVE job' = job BY <2>1 DEF AdmitLoad
  <2>2. ASSUME NEW override, MatchLoad(t, override) PROVE job' = job BY <2>2 DEF MatchLoad
  <2> QED BY <1>3, <2>1, <2>2 DEF LoaderStep
<1>4. ASSUME NEW t, AbandonDecision(t) PROVE JobsGrow
  <2>1. PICK k : k = DecisionGuard(task[t].prof, task[t].generation) OBVIOUS
  <2> QED BY <1>4, <2>1 DEF AbandonDecision, JobsGrow
<1>5. ASSUME NEW t, RequestStep(t) PROVE job' = job \/ JobsGrow
  <2>1. ASSUME NEW p, NEW s, NEW role, NEW decision, InferenceTarget(t, p, s, role, decision)
        PROVE  job' = job
    BY <2>1 DEF InferenceTarget
  <2>2. ASSUME NEW p, Reclaim(t, p) PROVE job' = job BY <2>2 DEF Reclaim
  <2>3. CASE AdmitPrimary(t) \/ AdmitAuxiliary(t)
    BY <2>2, <2>3 DEF AdmitPrimary, AdmitAuxiliary
  <2>4. CASE TryFastTarget(t) \/ ReclaimEnds(t)
    BY <2>4 DEF TryFastTarget, ReclaimEnds
  <2>5. CASE MatchExisting(t) BY <2>5 DEF MatchExisting
  <2>6. CASE AcquireTarget(t) BY <2>6 DEF AcquireTarget
  <2>7. CASE InferenceEnds(t) BY <1>4, <2>7 DEF InferenceEnds
  <2> QED BY <1>5, <2>1, <2>3, <2>4, <2>5, <2>6, <2>7 DEF RequestStep
<1>6. ASSUME NEW t \in Requests, DropRequest(t) PROVE job' = job \/ JobsGrow
  <2>1. CASE task[t].pc \in LoadPcs
    <3>1. PICK k : k = JitGuard(task[t].prof, task[t].generation) OBVIOUS
    <3>2. job' = job \cup {JitGuard(task[t].prof, task[t].generation)}
      BY <1>6, <2>1 DEF DropRequest, At, LoadPcs
    <3> QED BY <2>1, <3>1, <3>2 DEF JobsGrow, Callers
  <2>2. CASE task[t].pc \notin LoadPcs
    BY <1>4, <1>6, <2>2 DEF DropRequest
  <2> QED BY <2>1, <2>2
<1>7. CASE \/ \E t \in Loaders : DropLoader(t)
           \/ ReapIdle \/ ReclaimEnds(Reaper)
           \/ \E q \in Profiles : EditProfile(q)
           \/ \E x \in Process : Child(x) \/ ExitMonitor(x)
  <2>1. CASE \/ \E t \in Loaders : DropLoader(t)
             \/ \E q \in Profiles : EditProfile(q)
             \/ \E x \in Process : Child(x) \/ ExitMonitor(x)
    <3>1. ASSUME NEW t, DropLoader(t) PROVE job' = job BY <3>1 DEF DropLoader
    <3>2. ASSUME NEW q, EditProfile(q) PROVE job' = job BY <3>2 DEF EditProfile
    <3>3. ASSUME NEW x, Child(x) PROVE job' = job BY <3>3 DEF Child
    <3>4. ASSUME NEW x, ExitMonitor(x) PROVE job' = job BY <3>4 DEF ExitMonitor
    <3> QED BY <2>1, <3>1, <3>2, <3>3, <3>4
  <2>2. CASE ReapIdle BY <2>2 DEF ReapIdle, Reclaim
  <2>3. CASE ReclaimEnds(Reaper) BY <2>3 DEF ReclaimEnds
  <2> QED BY <1>7, <2>1, <2>2, <2>3
<1>8. ASSUME NEW p, UnloadCalled(p) PROVE JobsGrow
  <2>1. PICK k : k = Unload(p) OBVIOUS
  <2> QED BY <1>8, <2>1 DEF UnloadCalled, JobsGrow
<1>9. CASE CloserStep
  BY <1>9 DEF CloserStep, ShutdownCalled, ShutdownCollects, ShutdownCancels, ShutdownKills,
     ShutdownLocks, ShutdownSupervisor
<1>10. CASE RetirementStep
  BY <1>10 DEF RetirementStep, RetireSends, RetireFails, RetireCompletes
<1>11. CASE UNCHANGED vars BY <1>11 DEF vars
<1>12. CASE Next
  BY <1>1, <1>2, <1>3, <1>5, <1>6, <1>7, <1>8, <1>9, <1>10, <1>12 DEF Next, Callers
<1> QED BY <1>11, <1>12

LEMMA GuardKept ==
  ASSUME LockInv, CoreInv, GuardInv, [Next]_vars
  PROVE  GuardInv'
<1>1. CASE job' = job BY <1>1 DEF GuardInv
<1>2. CASE JobsGrow
  <2>1. ASSUME NEW t \in Callers, task[t].pc \in LoadPcs PROVE task[t].generation # 0
    BY <2>1, LoadFacts
  <2> QED BY <1>2, <2>1 DEF JobsGrow, GuardInv, JitGuard, DecisionGuard, Unload
<1>3. ASSUME NEW j \in job, JobStep(j) PROVE GuardInv'
  <2>1. j \in Job BY DEF LockInv, CoreTypes
  <2>2. CASE JobCancels(j)
    <3>1. PICK k : /\ Becomes(j, k)
                   /\ k.kind = j.kind /\ k.generation = j.generation
      <4>1. PICK x, at : /\ x = backend[j.prof].loading
                         /\ at = IF x = NoProcess THEN "lock" ELSE "kill"
        OBVIOUS
      <4>2. PICK k, l : k = [j EXCEPT !.at = at, !.proc = x] /\ l = [j EXCEPT !.at = "lock"]
        OBVIOUS
      <4>3. Becomes(j, k) \/ Becomes(j, l)
        BY <2>2, <4>1, <4>2 DEF JobCancels
      <4>4. /\ k.kind = j.kind /\ k.generation = j.generation
            /\ l.kind = j.kind /\ l.generation = j.generation
        BY <2>1, <4>2 DEF Job
      <4> QED BY <4>3, <4>4
    <3>2. j.kind = "unload" \/ j.generation # 0
      BY <2>2 DEF GuardInv, JobCancels
    <3> QED BY <3>1, <3>2 DEF Becomes, GuardInv
  <2>3. CASE JobSendsKill(j) BY <2>3 DEF JobSendsKill, GuardInv
  <2>4. CASE JobKilled(j)
    <3>1. PICK k : Becomes(j, k) /\ k.at = "lock"
      <4>1. [j EXCEPT !.at = "lock", !.proc = NoProcess].at = "lock" BY <2>1 DEF Job
      <4>2. Becomes(j, [j EXCEPT !.at = "lock", !.proc = NoProcess]) BY <2>4 DEF JobKilled
      <4> QED BY <4>1, <4>2
    <3> QED BY <3>1 DEF Becomes, GuardInv
  <2>5. CASE JobStops(j) BY <2>5 DEF JobStops, GuardInv
  <2> QED BY <1>3, <2>2, <2>3, <2>4, <2>5 DEF JobStep
<1> QED BY <1>1, <1>2, <1>3, JobsKept

(* For any number of profiles, callers and sessions: the task of a request's
   guard, which cancels the load, or stops the backend, that the request has
   left behind, never touches a later generation of the profile, however late
   it gets the lock. *)
THEOREM GuardsSpareLaterLoads == Spec => GuardSparesLaterLoads
<1> DEFINE Own(j) == j \notin job' /\ j.kind # "unload" =>
                       \/ backend'[j.prof] = backend[j.prof]
                       \/ backend[j.prof].generation = j.generation
<1>1. Init => GuardInv BY DEF Init, GuardInv
<1>2. StopInv /\ GuardInv /\ [Next]_vars => GuardInv'
  BY GuardKept DEF StopInv
<1>3. ASSUME StopInv, GuardInv, [Next]_vars, NEW j \in job PROVE Own(j)
  <2> SUFFICES ASSUME j \notin job', j.kind # "unload", backend'[j.prof] # backend[j.prof]
               PROVE  backend[j.prof].generation = j.generation
    OBVIOUS
  <2>1. PICK i \in job : JobStep(i)
    BY <1>3, JobsKept DEF StopInv, JobsGrow
  <2>2. i = j
    BY <2>1 DEF JobStep, JobCancels, JobSendsKill, JobKilled, JobStops, Becomes
  <2>3. CASE JobCancels(j)
    <3>1. j.generation # 0 BY <1>3, <2>3 DEF GuardInv, JobCancels
    <3>2. Cancels(j.prof, j.generation) BY <2>3 DEF JobCancels
    <3> QED BY <3>1, <3>2 DEF Cancels
  <2>4. CASE JobSendsKill(j) \/ JobKilled(j)
    BY <2>4 DEF JobSendsKill, JobKilled, table
  <2>5. CASE JobStops(j)
    <3>1. Owns(j) BY <2>5 DEF JobStops
    <3>2. j.kind \in {"unload", "jit", "decision"} BY <1>3 DEF StopInv, LockInv, CoreTypes, Job
    <3> QED BY <3>1, <3>2 DEF Owns
  <2> QED BY <2>1, <2>2, <2>3, <2>4, <2>5 DEF JobStep
<1>4. StopInv /\ GuardInv /\ [Next]_vars
        => [\A j \in job : Own(j)]_vars
  BY <1>3
<1> QED BY <1>1, <1>2, <1>4, StopInvariant, PTL DEF Spec, GuardSparesLaterLoads

-----------------------------------------------------------------------------
(* Who will stop a process or end a load, whoever disconnects.             *)

\* A load that waits for its child, or has found it ready, has it in its entry;
\* one that has had it terminated waits for nothing else.
KeptPcs == {"starting", "retry", "commit", "retrying", "aborting"}

Kept(t, x) ==
  task[t].pc \in KeptPcs /\ task[t].proc = x /\ Live(x) /\ ~process[x].terminate =>
    x \in Uses(task[t].prof)

KeptInv == \A t \in Callers, x \in Process : Kept(t, x)

\* Where a load's own step brings it to one of these points.
LEMMA KeptComes ==
  ASSUME LockInv, CoreInv, KeptInv, NEW t \in Callers, LoadStep(t), NEW y \in Process
  PROVE  Kept(t, y)'
<1> SUFFICES ASSUME NEW q, q = task'[t].prof,
                    task'[t].pc \in KeptPcs, task'[t].proc = y, Live(y)', ~process'[y].terminate
             PROVE  y \in Uses(q)'
  BY DEF Kept, Uses
<1>0. PICK x, p : x = task[t].proc /\ p = task[t].prof OBVIOUS
<1>1. /\ task \in [Tasks -> Task] /\ backend \in [Profiles -> Backend] /\ t \in Tasks /\ LoadInv(t)
      /\ process \in [Process -> ProcessRecord]
  BY DEF LockInv, CoreTypes, CoreInv, ProcInv, SupervisorTypeOK, Tasks, Callers
<1>2. CASE RegisterProcess(t)
  <2>1. task[t].pc = "spawned" /\ Carries(t) /\ p \in Profiles
    BY <1>0, <1>1, <1>2 DEF RegisterProcess, At, Carries, ProcPcs, LockInv, Claims, OwnPcs, LoadPcs
  <2>2. LoadCurrent(t)
    <3>1. ASSUME GoTo(t, "abort") PROVE FALSE BY <1>1, <3>1 DEF GoTo, Task, KeptPcs
    <3> QED BY <1>2, <3>1 DEF RegisterProcess
  <2>3. task'[t].proc = x /\ task'[t].prof = p
    BY <1>0, <1>1, <1>2, <2>2 DEF RegisterProcess, GoTo, Task
  <2>4. backend'[p].loading = x
    <3>1. backend' = [backend EXCEPT ![p].loading = x, ![p].version = task[t].version]
      BY <1>0, <1>2, <2>2 DEF RegisterProcess
    <3> QED BY <1>1, <2>1, <3>1 DEF Backend
  <2>5. y # NoProcess BY ProcessNumbers
  <2> QED BY <2>3, <2>4, <2>5 DEF Uses
<1>3. CASE AwaitStartup(t)
  <2>1. task[t].pc = "starting" /\ UNCHANGED <<backend, process>>
    BY <1>3 DEF AwaitStartup, At, table
  <2>2. task'[t].proc = x /\ task'[t].prof = p
    <3>1. PICK pc : GoTo(t, pc) BY <1>3 DEF AwaitStartup
    <3> QED BY <1>0, <1>1, <3>1 DEF GoTo, Task
  <2>3. Live(y) /\ ~process[y].terminate BY <2>1, ProcessStays
  <2>4. y \in Uses(p) BY <1>0, <2>1, <2>2, <2>3 DEF KeptInv, Kept, KeptPcs
  <2>5. Uses(p)' = Uses(p) BY <2>1 DEF Uses
  <2> QED BY <2>2, <2>4, <2>5
<1>4. CASE KillSent(t)
  <2>1. SendTerminate(x) /\ task'[t].proc = x
    BY <1>0, <1>1, <1>4 DEF KillSent, GoTo, Task
  <2> QED BY <1>1, <2>1 DEF SendTerminate, ProcessRecord
<1>5. CASE ~RegisterProcess(t) /\ ~AwaitStartup(t) /\ ~KillSent(t)
  <2>1. ASSUME Return(t) PROVE FALSE
    BY <1>1, <2>1 DEF Return, Idle, KeptPcs
  <2>2. CASE LoadFails(t) \/ KillFails(t) \/ AbortEnds(t)
    BY <2>1, <2>2 DEF LoadFails, KillFails, AbortEnds, FailLoading
  <2>3. CASE RetryLaunch(t)
    <3>1. CASE FailLoading(t, NoProcess) BY <2>1, <3>1 DEF FailLoading
    <3>2. CASE task' = [task EXCEPT ![t].pc = "launch", ![t].proc = NoProcess]
      BY <1>1, <3>2 DEF Task, KeptPcs
    <3> QED BY <2>3, <3>1, <3>2 DEF RetryLaunch
  <2>4. CASE Reserve(t) \/ HandOff(t) \/ BeginLoad(t) \/ StoreLease(t) \/ PrepareLaunch(t)
             \/ CommitRefused(t)
    <3>1. PICK pc \in {"insert", "begin", "select", "launch", "spawn", "abort"} :
            GoTo(t, pc) \/ Return(t)
      BY <2>4 DEF Reserve, HandOff, BeginLoad, StoreLease, PrepareLaunch, CommitRefused
    <3> QED BY <1>1, <2>1, <3>1 DEF GoTo, Task, KeptPcs
  <2>5. CASE Insert(t) \/ SpawnBackend(t)
    BY <1>1, <2>5 DEF Insert, SpawnBackend, Task, KeptPcs
  <2>6. CASE CommitLoad(t)
    BY <1>1, <2>6 DEF CommitLoad, Task, Idle, KeptPcs
  <2> QED BY <1>5, <2>2, <2>3, <2>4, <2>5, <2>6 DEF LoadStep
<1> QED BY <1>2, <1>3, <1>4, <1>5

\* One load at a time.
LEMMA OneLoad ==
  ASSUME LockInv, NEW t \in Callers, task[t].pc \in OwnPcs, NEW u \in Callers, LoadStep(u)
  PROVE  u = t
<1>1. t \in Tasks /\ u \in Tasks BY DEF Callers, Tasks
<1>2. task[u].pc \in OwnPcs \cup {"reserve", "insert"}
  BY DEF LoadStep, Reserve, Insert, HandOff, LoadFails, BeginLoad, StoreLease,
     PrepareLaunch, SpawnBackend, RegisterProcess, AwaitStartup, KillSent, KillFails,
     AbortEnds, RetryLaunch, CommitLoad, CommitRefused, Killed, At, OwnPcs, LoadPcs
<1>3. operation = u /\ operation = t
  BY <1>1, <1>2 DEF LockInv, Claims, OwnPcs, HoldPcs, LoadPcs
<1> QED BY <1>3

\* Only a load's own steps bring it somewhere.
LEMMA LoadsMoveThemselves ==
  ASSUME LockInv, CoreInv, [Next]_vars, NEW t \in Callers, ~LoadStep(t), task'[t].pc \in LoadPcs
  PROVE  task'[t] = task[t]
<1>1. /\ task \in [Tasks -> Task] /\ t \in Tasks /\ t # Closer /\ t # Reaper
      /\ Closer \in Tasks /\ Reaper \in Tasks /\ Callers \subseteq Tasks
  BY ManagerAssumption DEF LockInv, CoreTypes, Tasks, Callers
<1>2. ASSUME NEW u, NEW pc, pc \notin LoadPcs, GoTo(u, pc) PROVE task'[t] = task[t]
  <2>1. u = t => task'[t].pc = pc BY <1>1, <1>2 DEF GoTo, Task
  <2> QED BY <1>1, <1>2, <2>1 DEF GoTo
<1>3. ASSUME NEW u, task' = [task EXCEPT ![u] = Idle] PROVE task'[t] = task[t]
  BY <1>1, <1>3 DEF Idle, LoadPcs
<1>4. ASSUME NEW u \in Tasks, HolderStep(u) PROVE task'[t] = task[t]
  <2>1. CASE StopReturns(u) /\ Return(u) BY <1>3, <2>1 DEF Return
  <2>2. PICK pc \in StopPcs \cup {"match", "reserve", "reclaim", "stop"} :
          GoTo(u, pc) \/ Return(u)
    BY <1>4 DEF HolderStep, StopBegins, StopReturns, During, Before, After, StopPcs
  <2>3. pc \notin LoadPcs BY <2>2 DEF StopPcs, LoadPcs
  <2> QED BY <1>2, <1>3, <2>2, <2>3 DEF Return
<1>5. ASSUME NEW u \in Callers, LoadStep(u) PROVE task'[t] = task[t]
  <2>1. t # u BY <1>5
  <2>2. PICK p, x : p = task[u].prof /\ x = task[u].proc OBVIOUS
  <2>3. LoadDoes(u, p, x) BY <1>5, <2>2, LoadStepDoes
  <2> QED BY <1>1, <2>1, <2>3 DEF LoadDoes
<1>6. ASSUME NEW u \in Loaders, LoaderStep(u) PROVE task'[t] = task[t]
  <2>1. ASSUME NEW p, AdmitLoad(u, p) PROVE task'[t] = task[t]
    <3>1. task'[u].pc = "admit" /\ \A v \in Tasks \ {u} : task'[v] = task[v]
      BY <1>1, <1>6, <2>1 DEF AdmitLoad, Idle, Callers
    <3> QED BY <1>1, <3>1 DEF LoadPcs
  <2>2. ASSUME NEW override, MatchLoad(u, override) PROVE task'[t] = task[t]
    <3>1. Return(u) \/ GoTo(u, "replace") \/ GoTo(u, "reserve") BY <2>2 DEF MatchLoad
    <3>2. "replace" \notin LoadPcs /\ "reserve" \notin LoadPcs BY DEF LoadPcs
    <3> QED BY <1>2, <1>3, <3>1, <3>2 DEF Return
  <2> QED BY <1>6, <2>1, <2>2 DEF LoaderStep
<1>7. ASSUME NEW u, \E r : Reclaim(u, r) PROVE task'[t] = task[t]
  <2>1. GoTo(u, "reclaim") /\ "reclaim" \notin LoadPcs BY <1>7 DEF Reclaim, LoadPcs
  <2> QED BY <1>2, <2>1
<1>8. ASSUME NEW u, ReclaimEnds(u) PROVE task'[t] = task[t]
  <2>1. (Return(u) \/ GoTo(u, "match")) /\ "match" \notin LoadPcs BY <1>8 DEF ReclaimEnds, LoadPcs
  <2> QED BY <1>2, <1>3, <2>1 DEF Return
<1>9. ASSUME NEW u \in Tasks, TakeLease(u) PROVE task'[t] = task[t]
  <2>0. PICK l : l = [task[u] EXCEPT !.pc = "infer",
                                    !.generation = backend[task[u].prof].generation,
                                    !.proc = backend[task[u].prof].running]
    OBVIOUS
  <2>1. PICK k \in {Idle, l} : task' = [task EXCEPT ![u] = k]
    BY <1>9, <2>0 DEF TakeLease
  <2>2. task[u] \in Task BY <1>1
  <2>3. k.pc \in {"idle", "infer"}
    <3>1. Idle.pc = "idle" BY DEF Idle
    <3>2. l.pc = "infer" BY <2>0, <2>2 DEF Task
    <3> QED BY <2>1, <3>1, <3>2
  <2>4. k.pc \notin LoadPcs BY <2>3 DEF LoadPcs
  <2> QED BY <1>1, <2>1, <2>4
<1>10. ASSUME NEW u \in Requests, RequestStep(u) PROVE task'[t] = task[t]
  <2>1. ASSUME NEW p, NEW s, NEW role, NEW decision, InferenceTarget(u, p, s, role, decision)
        PROVE  task'[t] = task[t]
    <3>1. task'[u].pc = "fast" /\ \A v \in Tasks \ {u} : task'[v] = task[v]
      BY <1>1, <1>10, <2>1 DEF InferenceTarget, Idle, Callers
    <3> QED BY <1>1, <3>1 DEF LoadPcs
  <2>2. CASE TryFastTarget(u)
    <3>1. u \in Tasks /\ "wait" \notin LoadPcs BY DEF Tasks, LoadPcs
    <3> QED BY <1>2, <1>3, <1>9, <2>2, <3>1 DEF TryFastTarget
  <2>3. CASE AdmitPrimary(u)
    <3>1. PICK pc \in {"evict", "match"} : GoTo(u, pc) BY <2>3 DEF AdmitPrimary
    <3>2. pc \notin LoadPcs BY <3>1 DEF LoadPcs
    <3> QED BY <1>2, <3>1, <3>2
  <2>4. CASE AdmitAuxiliary(u) BY <1>7, <2>4 DEF AdmitAuxiliary
  <2>5. CASE ReclaimEnds(u) BY <1>8, <2>5
  <2>6. CASE MatchExisting(u)
    <3>1. Return(u) \/ GoTo(u, "acquire") \/ GoTo(u, "replace") \/ GoTo(u, "reserve")
      BY <2>6 DEF MatchExisting
    <3>2. "acquire" \notin LoadPcs /\ "replace" \notin LoadPcs /\ "reserve" \notin LoadPcs
      BY DEF LoadPcs
    <3> QED BY <1>2, <1>3, <3>1, <3>2 DEF Return
  <2>7. CASE AcquireTarget(u)
    <3>1. u \in Tasks BY DEF Tasks
    <3> QED BY <1>3, <1>9, <2>7, <3>1 DEF AcquireTarget
  <2>8. CASE InferenceEnds(u) BY <1>3, <2>8 DEF InferenceEnds
  <2> QED BY <1>10, <2>1, <2>2, <2>3, <2>4, <2>5, <2>6, <2>7, <2>8 DEF RequestStep
<1>11. ASSUME NEW u, DropRequest(u) \/ DropLoader(u) PROVE task'[t] = task[t]
  BY <1>3, <1>11 DEF DropRequest, DropLoader
<1>12. CASE ReapIdle \/ ReclaimEnds(Reaper)
  BY <1>7, <1>8, <1>12 DEF ReapIdle
<1>13. CASE CloserStep
  <2>1. ASSUME NEW p \in Profiles, ShutdownCancels(p) PROVE task'[t] = task[t]
    BY <1>1, <2>1 DEF ShutdownCancels
  <2>2. CASE ShutdownCalled \/ ShutdownCollects \/ ShutdownKills
    BY <1>1, <2>2 DEF ShutdownCalled, ShutdownCollects, ShutdownKills, GoTo
  <2>3. CASE ShutdownLocks \/ ShutdownSupervisor
    BY <1>1, <2>3 DEF ShutdownLocks, ShutdownSupervisor, GoTo
  <2> QED BY <1>13, <2>1, <2>2, <2>3 DEF CloserStep
<1>14. CASE \/ \E p \in Profiles : UnloadCalled(p) \/ EditProfile(p)
            \/ \E x \in Process : Child(x) \/ ExitMonitor(x)
            \/ \E j \in job : JobStep(j)
            \/ RetirementStep
            \/ UNCHANGED vars
  BY <1>14 DEF UnloadCalled, EditProfile, Child, ExitMonitor, JobStep, JobCancels, JobSendsKill,
     JobKilled, JobStops, RetirementStep, RetireSends, RetireFails, RetireCompletes, vars
<1>15. CASE Next
  BY <1>4, <1>5, <1>6, <1>10, <1>11, <1>12, <1>13, <1>14, <1>15 DEF Next, Callers
<1> QED BY <1>14, <1>15

LEMMA KeptKept ==
  ASSUME LockInv, CoreInv, KeptInv, [Next]_vars
  PROVE  KeptInv'
<1> SUFFICES ASSUME NEW t \in Callers, NEW x \in Process PROVE Kept(t, x)'
  BY DEF KeptInv
<1>1. CASE LoadStep(t) BY <1>1, KeptComes
<1>2. CASE ~LoadStep(t)
  <2> SUFFICES ASSUME NEW q, q = task'[t].prof,
                      task'[t].pc \in KeptPcs, task'[t].proc = x, Live(x)', ~process'[x].terminate
               PROVE  x \in Uses(q)'
    BY DEF Kept, Uses
  <2>1. task'[t] = task[t] BY <1>2, LoadsMoveThemselves DEF KeptPcs, LoadPcs
  <2>2. task[t].pc \in OwnPcs
    BY <2>1 DEF KeptPcs, OwnPcs, LoadPcs
  <2>3. \A u \in Callers : ~LoadStep(u) BY <1>2, <2>2, OneLoad
  <2>4. t \in Tasks BY DEF Callers, Tasks
  <2>5. PICK p \in Profiles : p = task[t].prof
    BY <2>2, <2>4 DEF LockInv, Claims, OwnPcs, LoadPcs
  <2>6. Live(x) /\ ~process[x].terminate BY <2>3, ChildrenLeft
  <2>7. x \in Uses(p) BY <2>1, <2>5, <2>6 DEF KeptInv, Kept
  <2>8. ~Exited(x) BY <2>6 DEF Live, Exited
  <2>9. x \in Uses(p)' BY <2>3, <2>7, <2>8, TableLeft
  <2> QED BY <2>1, <2>5, <2>9
<1> QED BY <1>1, <1>2

LEMMA OwnerKept ==
  ASSUME LockInv, CoreInv, KeptInv, [Next]_vars, NEW x \in Process, HasOwner(x)
  PROVE  HasOwner(x)' \/ Forsaken(x)
<1> SUFFICES ASSUME Live(x)', ~process'[x].terminate
             PROVE  \/ \E p \in Profiles : x \in Uses(p)'
                    \/ \E t \in Callers : Carries(t)' /\ task'[t].proc = x
                    \/ Forsaken(x)
  BY DEF HasOwner, Uses, Carries, Callers, Tasks
<1>1. \A t \in Tasks : Carries(t) => t \in Callers /\ task[t].prof \in Profiles /\ LoadInv(t)
  BY DEF LockInv, Claims, Carries, ProcPcs, OwnPcs, LoadPcs, CoreInv
<1>2. Callers \subseteq Tasks BY DEF Callers, Tasks
<1>3. Live(x) => ~Exited(x) BY DEF Live, Exited
<1>4. Live(x) /\ ~process[x].terminate =>
        \/ \E p \in Profiles : x \in Uses(p)
        \/ \E t \in Callers : Carries(t) /\ task[t].proc = x
  BY <1>1, ProcessNumbers DEF HasOwner, Uses, Carries
<1>5. ASSUME NEW t \in Callers, LoadStep(t)
      PROVE  \/ \E p \in Profiles : x \in Uses(p)'
             \/ \E u \in Callers : Carries(u)' /\ task'[u].proc = x
  <2>1. PICK p : p = task[t].prof OBVIOUS
  <2>2. PICK y : y = task[t].proc OBVIOUS
  <2>3. LoadDoes(t, p, y) BY <1>5, <2>1, <2>2, LoadStepDoes
  <2>4. CASE Carries(t)' /\ task'[t].proc = x BY <2>4
  <2>5. CASE Live(x) /\ ~process[x].terminate
    <3>1. CASE Carries(t) /\ y = x
      <4>1. (Carries(t)' /\ task'[t].proc = x) \/ x \in Uses(p)'
        BY <1>3, <2>3, <2>5, <3>1 DEF LoadDoes
      <4> QED BY <1>1, <1>2, <2>1, <3>1, <4>1
    <3>2. CASE \E q \in Profiles : x \in Uses(q)
      <4>1. PICK q \in Profiles : x \in Uses(q) BY <3>2
      <4>2. CASE q = p BY <2>3, <3>1, <4>1, <4>2 DEF LoadDoes
      <4>3. CASE q # p
        <5>1. Uses(q)' = Uses(q) BY <2>3, <4>3 DEF LoadDoes, Uses
        <5> QED BY <4>1, <5>1
      <4> QED BY <4>2, <4>3
    <3>3. CASE \E u \in Callers \ {t} : Carries(u) /\ task[u].proc = x
      BY <1>2, <2>3, <3>3 DEF LoadDoes, Carries
    <3> QED BY <1>4, <2>2, <2>5, <3>1, <3>2, <3>3
  <2> QED BY <2>3, <2>4, <2>5 DEF LoadDoes
<1>6. CASE \A t \in Callers : ~LoadStep(t)
  <2>1. Live(x) /\ ~process[x].terminate BY <1>6, ChildrenLeft
  <2>2. CASE \E p \in Profiles : x \in Uses(p) BY <1>3, <1>6, <2>1, <2>2, TableLeft
  <2>3. ASSUME NEW t \in Callers, Carries(t), task[t].proc = x, ~\E p \in Profiles : x \in Uses(p)
        PROVE  (Carries(t)' /\ task'[t].proc = x) \/ Forsaken(x)
    <3>1. task[t].pc \in OwnPcs /\ task[t].pc # "handoff"
      BY <2>3 DEF Carries, ProcPcs, OwnPcs, LoadPcs
    <3>2. task'[t] = task[t] \/ (t \in Droppable \cap Requests /\ DropRequest(t))
      BY <1>6, <3>1, LoadsLeft
    <3>3. task[t].pc \notin KeptPcs BY <1>1, <1>2, <2>1, <2>3 DEF KeptInv, Kept
    <3>5. task[t].pc \in {"spawned", "abort"}
      BY <2>3, <3>3 DEF Carries, ProcPcs, KeptPcs
    <3> QED BY <2>3, <3>2, <3>5 DEF Forsaken, Carries
  <2> QED BY <1>4, <2>1, <2>2, <2>3
<1> QED BY <1>5, <1>6

(* For any number of profiles, callers, sessions and processes: a process that
   nobody told to terminate keeps the one who will stop it, the table, where an
   unload, a reclaim or shutdown finds it, or the load that spawned it; unless
   that load's caller disconnects before the process is in the table.  Where
   no request disconnects it always has one. *)
THEOREM ProcessesAreOwned == Spec => ProcessHasOwner
<1>1. Init => KeptInv
  BY DEF Init, Idle, KeptInv, Kept, KeptPcs, Callers, Tasks
<1>2. StopInv /\ KeptInv /\ [Next]_vars => KeptInv'
  BY KeptKept DEF StopInv
<1>3. StopInv /\ KeptInv /\ [Next]_vars
        => [\A x \in Process : HasOwner(x) => HasOwner(x)' \/ Forsaken(x)]_vars
  BY OwnerKept DEF StopInv
<1> QED BY <1>1, <1>2, <1>3, StopInvariant, PTL DEF Spec, ProcessHasOwner

-----------------------------------------------------------------------------
(* Who will end a load.                                                    *)

\* Somebody ends the load of an entry that is Loading: the load itself, or the
\* guard of the request that left it; or it was left before it took anything.
Driven(p) ==
  \/ \E t \in Callers : /\ task[t].pc \in OwnPcs /\ task[t].prof = p
                        /\ task[t].pc = "handoff" => t \in Loaders /\ Unused(p)
  \/ Abandoned(p)

LoadingInv == \A p \in Profiles : backend[p].lifecycle = "Loading" => Driven(p)

\* A guard's task that has still to cancel a load goes on to do so.
LEMMA GuardsStay ==
  ASSUME LockInv, [Next]_vars, NEW j \in job, j.at = "cancel", j.prof \in Profiles,
         j.generation = backend[j.prof].generation, backend[j.prof].lifecycle = "Loading",
         backend'[j.prof].lifecycle = "Loading"
  PROVE  j \in job'
<1>1. CASE job' = job BY <1>1
<1>2. CASE JobsGrow BY <1>2 DEF JobsGrow
<1>3. ASSUME NEW i \in job, JobStep(i) PROVE j \in job'
  <2>1. CASE i # j
    BY <1>3, <2>1 DEF JobStep, JobCancels, JobSendsKill, JobKilled, JobStops, Becomes
  <2>2. CASE i = j
    <3>1. JobCancels(j) BY <1>3, <2>2 DEF JobStep, JobCancels, JobSendsKill, JobKilled, JobStops
    <3>2. MarkCancelled(j.prof) BY <3>1 DEF JobCancels, Cancels
    <3>3. backend \in [Profiles -> Backend] BY DEF LockInv, CoreTypes
    <3>4. backend'[j.prof].lifecycle = "Stopping" BY <3>2, <3>3 DEF MarkCancelled, Backend
    <3> QED BY <3>4
  <2> QED BY <2>1, <2>2
<1> QED BY <1>1, <1>2, <1>3, JobsKept

LEMMA AbandonedKept ==
  ASSUME LockInv, [Next]_vars, NEW p \in Profiles, Abandoned(p),
         backend[p].lifecycle = "Loading", backend'[p] = backend[p]
  PROVE  Abandoned(p)'
<1>1. CASE /\ Droppable \cap Requests # {}
           /\ \E j \in job : /\ j.kind = "jit" /\ j.at = "cancel"
                             /\ j.prof = p /\ j.generation = backend[p].generation
  <2>1. PICK j \in job : /\ j.kind = "jit" /\ j.at = "cancel"
                         /\ j.prof = p /\ j.generation = backend[p].generation
    BY <1>1
  <2>2. j \in job' BY <2>1, GuardsStay
  <2> QED BY <1>1, <2>1, <2>2 DEF Abandoned
<1>2. CASE /\ Droppable \cap Loaders # {}
           /\ backend[p].residency = "Pinned" /\ ~backend[p].lease
           /\ backend[p].running = NoProcess /\ backend[p].loading = NoProcess
  BY <1>2 DEF Abandoned
<1> QED BY <1>1, <1>2 DEF Abandoned

LEMMA LoadingKept ==
  ASSUME LockInv, CoreInv, LoadingInv, [Next]_vars
  PROVE  LoadingInv'
<1> SUFFICES ASSUME NEW q \in Profiles, backend'[q].lifecycle = "Loading"
             PROVE  Driven(q)'
  BY DEF LoadingInv
<1>1. Callers \subseteq Tasks /\ Loaders \subseteq Callers BY DEF Callers, Tasks
<1>2. ASSUME NEW t \in Callers, LoadStep(t) PROVE Driven(q)'
  <2>1. PICK p : p = task[t].prof OBVIOUS
  <2>2. PICK y : y = task[t].proc OBVIOUS
  <2>3. LoadDoes(t, p, y) BY <1>2, <2>1, <2>2, LoadStepDoes
  <2>4. CASE q = p BY <2>3, <2>4 DEF LoadDoes, Driven
  <2>5. CASE q # p
    <3>1. backend'[q] = backend[q] BY <2>3, <2>5 DEF LoadDoes
    <3>2. backend[q].lifecycle = "Loading" BY <3>1
    <3>3. CASE Abandoned(q) BY <3>1, <3>2, <3>3, AbandonedKept DEF Driven
    <3>4. ASSUME NEW u \in Callers, task[u].pc \in OwnPcs, task[u].prof = q,
                 task[u].pc = "handoff" => u \in Loaders /\ Unused(q)
          PROVE  Driven(q)'
      <4>1. task'[u] = task[u] BY <1>1, <2>1, <2>3, <2>5, <3>4 DEF LoadDoes
      <4>2. Unused(q)' <=> Unused(q) BY <3>1 DEF Unused, Uses
      <4> QED BY <3>4, <4>1, <4>2 DEF Driven
    <3> QED BY <3>2, <3>3, <3>4 DEF LoadingInv, Driven
  <2> QED BY <2>4, <2>5
<1>3. CASE \A t \in Callers : ~LoadStep(t)
  <2>1. backend'[q] = backend[q] BY <1>3, TableLeft
  <2>2. backend[q].lifecycle = "Loading" BY <2>1
  <2>3. CASE Abandoned(q) BY <2>1, <2>2, <2>3, AbandonedKept DEF Driven
  <2>4. ASSUME NEW u \in Callers, task[u].pc \in OwnPcs, task[u].prof = q,
               task[u].pc = "handoff" => u \in Loaders /\ Unused(q)
        PROVE  Driven(q)'
    <3>1. CASE task'[u] = task[u]
      <4>1. Unused(q)' <=> Unused(q) BY <2>1 DEF Unused, Uses
      <4> QED BY <2>4, <3>1, <4>1 DEF Driven
    <3>2. CASE u \in Droppable \cap Requests /\ DropRequest(u)
      <4>1. task[u].pc \in LoadPcs
        BY <2>4, <3>2, ManagerAssumption DEF OwnPcs
      <4>2. backend[q].generation = task[u].generation BY <2>4, <4>1, LoadFacts
      <4>3. PICK k : k = JitGuard(q, backend[q].generation) OBVIOUS
      <4>4. job' = job \cup {JitGuard(task[u].prof, task[u].generation)}
        BY <3>2, <4>1 DEF DropRequest, At, LoadPcs
      <4>5. k.kind = "jit" /\ k.at = "cancel" /\ k.prof = q /\ k.generation = backend'[q].generation
        BY <2>1, <4>3 DEF JitGuard
      <4>6. k \in job' BY <2>4, <4>2, <4>3, <4>4
      <4> QED BY <3>2, <4>5, <4>6 DEF Driven, Abandoned
    <3>3. CASE u \in Droppable \cap Loaders /\ DropLoader(u) /\ task[u].pc = "handoff"
      <4>1. Unused(q) BY <2>4, <3>3
      <4>2. backend[q] \in Backend BY DEF LockInv, CoreTypes
      <4>3. backend[q].running = NoProcess /\ backend[q].loading = NoProcess
        BY <4>1 DEF Unused, Uses
      <4> QED BY <2>1, <3>3, <4>1, <4>3 DEF Driven, Abandoned, Unused
    <3> QED BY <1>3, <2>4, <3>1, <3>2, <3>3, LoadsLeft
  <2> QED BY <2>2, <2>3, <2>4 DEF LoadingInv, Driven
<1> QED BY <1>2, <1>3

(* For any number of profiles, callers, sessions and processes, also with
   callers that disconnect at any await: when shutdown has returned no load is
   in progress, no backend is Running, every live process has been told to
   terminate, and an entry is Loading only where a caller left its load: the
   guard's task will cancel it, or it was left before it took a lease or a
   process. *)
THEOREM ShutdownLeavesNothing == Spec => []ShutdownClean
<1>1. Init => LoadingInv
  BY DEF Init, NoBackend, LoadingInv
<1>2. StopInv /\ LoadingInv /\ [Next]_vars => LoadingInv'
  BY LoadingKept DEF StopInv
<1>3. ASSUME StopInv, LoadingInv PROVE ShutdownClean
  <2> SUFFICES ASSUME At(Closer, "done") PROVE ShutdownClean BY DEF ShutdownClean
  <2>1. /\ \A p \in Profiles : backend[p].lifecycle # "Running"
        /\ \A x \in Process : Live(x) => process[x].terminate
        /\ \A t \in Callers : task[t].pc \notin OwnPcs
    BY <1>3 DEF StopInv, CloserInv, At
  <2>2. \A t \in Tasks : task[t].pc \in LoadPcs => t \in Callers
    BY <1>3 DEF StopInv, LockInv, Claims, OwnPcs
  <2>3. \A t \in Tasks : task[t].pc \notin LoadPcs BY <2>1, <2>2 DEF OwnPcs
  <2>4. ASSUME NEW p \in Profiles, backend[p].lifecycle = "Loading" PROVE Abandoned(p)
    BY <1>3, <2>1, <2>4 DEF LoadingInv, Driven
  <2> QED BY <2>1, <2>3, <2>4 DEF ShutdownClean
<1> QED BY <1>1, <1>2, <1>3, StopInvariant, PTL DEF Spec


=============================================================================
