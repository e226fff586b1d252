--------------------------- MODULE ProfileStoreProofs ---------------------------
(***************************************************************************)
(* Proofs about ProfileStore: however many edits of the stored profiles    *)
(* overlap, a pin keeps fitting its profile and no override is undone      *)
(* unseen.                                                                 *)
(***************************************************************************)
EXTENDS ProfileStore, TLAPS

(* What an edit needs of the profile and the task records it changes: that *)
(* they have the fields of one, whatever their values.                     *)

IsProfile(p) ==
  p \in [model : {p.model}, engine : {p.engine}, pin : {p.pin}, role : {p.role},
         overrides : {p.overrides}]

IsTask(t) ==
  t \in [op : {t.op}, step : {t.step}, id : {t.id}, arg : {t.arg}, model : {t.model},
         base : {t.base}, keep : {t.keep}, result : {t.result}]

Fits(p) == p.pin # None => p.pin \in Resolves(p.engine, p.model, None)

ProfileInv ==
  /\ profiles = [id \in Ids |-> profiles[id]]
  /\ \A id \in Ids : profiles[id] # None => IsProfile(profiles[id]) /\ Fits(profiles[id])

\* What a checked edit knows of the profile it read: the new model suits its
\* pin, the new pin suits its engine and model.
CheckedInv(t) ==
  /\ t.op \in {"SetModel", "SetEngine", "SetRuntime"} => t.base # None
  /\ t.op = "SetModel" =>
       (t.base.pin # None => t.base.pin \in Resolves(t.base.engine, t.arg, None))
  /\ t.op = "SetRuntime" =>
       (t.arg # None => t.arg \in Resolves(t.base.engine, t.base.model, None))

TaskSound(t) ==
  /\ IsTask(t)
  /\ t.step \in {"called", "ready"} /\ t.op # "Refresh" => t.id \in Ids
  /\ t.step = "ready" => CheckedInv(t)

TaskInv ==
  /\ task = [l \in Lanes |-> task[l]]
  /\ \A l \in Lanes : TaskSound(task[l])

ReviewInv == review # None => review.id \in Ids

IInv == ProfileInv /\ TaskInv /\ ReviewInv

-----------------------------------------------------------------------------
\* A step that changes one task only, into a sound one, keeps the tasks sound.
LEMMA TaskMove ==
  ASSUME TaskInv, NEW l \in Lanes, NEW t, TaskSound(t), task' = [task EXCEPT ![l] = t]
  PROVE  TaskInv'
BY DEF TaskInv

\* Such a step that leaves the profiles alone keeps everything sound.
LEMMA MoveSound ==
  ASSUME IInv, NEW l \in Lanes, NEW t, TaskSound(t), task' = [task EXCEPT ![l] = t],
         profiles' = profiles, ReviewInv'
  PROVE  IInv'
<1>1. TaskInv'
  BY TaskMove DEF IInv
<1>2. ProfileInv'
  BY DEF IInv, ProfileInv
<1> QED  BY <1>1, <1>2 DEF IInv

\* Writing a sound profile keeps everything sound.
LEMMA UpdateSound ==
  ASSUME IInv, NEW l \in Lanes, NEW id, NEW p, Update(l, id, p),
         p # None => IsProfile(p) /\ Fits(p)
  PROVE  IInv'
<1>1. ProfileInv'
  BY DEF IInv, ProfileInv, Update
<1>2. TaskInv'
  <2>1. TaskSound(task[l])
    BY DEF IInv, TaskInv
  <2>2. CASE l = "cli"
    <3>1. task' = [task EXCEPT ![l] = NoTask]
      BY <2>2 DEF Update
    <3>2. TaskSound(NoTask)
      BY DEF TaskSound, NoTask, IsTask
    <3> QED  BY <3>1, <3>2, TaskMove DEF IInv
  <2>3. CASE l = "settings"
    <3>1. task' = [task EXCEPT ![l] = [task[l] EXCEPT !.step = "written"]]
      BY <2>3 DEF Update, IInv, TaskInv
    <3>2. TaskSound([task[l] EXCEPT !.step = "written"])
      BY <2>1 DEF TaskSound, IsTask
    <3> QED  BY <3>1, <3>2, TaskMove DEF IInv
  <2>4. CASE l = "runtime"
    <3>1. task' = [task EXCEPT ![l] =
                     [task[l] EXCEPT !.step = "loaded", !.result = profiles']]
      BY <2>4 DEF Update, IInv, TaskInv
    <3>2. TaskSound([task[l] EXCEPT !.step = "loaded", !.result = profiles'])
      BY <2>1 DEF TaskSound, IsTask
    <3> QED  BY <3>1, <3>2, TaskMove DEF IInv
  <2> QED  BY <2>2, <2>3, <2>4 DEF Lanes
<1> QED  BY <1>1, <1>2 DEF IInv, ReviewInv, Update

LEMMA NoTaskSound == TaskSound(NoTask)
BY DEF TaskSound, NoTask, IsTask

LEMMA CalledSound ==
  ASSUME NEW op, NEW id \in Ids, NEW arg, NEW model
  PROVE  TaskSound(Task(op, id, arg, model))
BY DEF TaskSound, Task, NoTask, IsTask

\* The passing of a check is kept in the task together with what was read.
LEMMA CheckedSound ==
  ASSUME IInv, NEW l \in Lanes, NEW keep, Checked(l, keep), task[l].step = "called",
         CheckedInv([task[l] EXCEPT !.step = "ready", !.base = Stored(l), !.keep = keep]),
         task[l].op # "Refresh"
  PROVE  IInv'
<1> DEFINE t == [task[l] EXCEPT !.step = "ready", !.base = Stored(l), !.keep = keep]
<1>1. TaskSound(t)
  BY DEF IInv, TaskInv, TaskSound, IsTask
<1>2. task' = [task EXCEPT ![l] = t]
  BY DEF Checked, IInv, TaskInv
<1>3. profiles' = profiles /\ ReviewInv'
  BY DEF Checked, IInv, ReviewInv
<1> HIDE DEF t
<1> QED  BY <1>1, <1>2, <1>3, MoveSound

\* The profile of an edit under way is one of the store's.
LEMMA StoredSound ==
  ASSUME IInv, NEW l \in Lanes, task[l].step \in {"called", "ready"},
         task[l].op # "Refresh", Stored(l) # None
  PROVE  /\ task[l].id \in Ids
         /\ IsProfile(Stored(l)) /\ Fits(Stored(l))
BY DEF IInv, TaskInv, TaskSound, ProfileInv, Stored

-----------------------------------------------------------------------------
LEMMA KeysSound == ASSUME IInv, Keys PROVE IInv'
<1>1. ASSUME NEW l \in Lanes, NEW t, TaskSound(t), Call(l, t), ReviewInv'
      PROVE  IInv'
  BY <1>1, MoveSound DEF Call
<1>2. CASE SettingsKey
  BY <1>1, <1>2, CalledSound DEF SettingsKey, IInv, ReviewInv, Lanes
<1>3. CASE Refresh
  <2>1. TaskSound(Task("Refresh", None, None, None))
    BY DEF TaskSound, Task, NoTask, IsTask
  <2> QED  BY <1>3, <2>1, MoveSound DEF Refresh, IInv, ReviewInv, Lanes
<1>4. CASE CreateKey
  BY <1>1, <1>4, CalledSound DEF CreateKey, IInv, ReviewInv, Lanes
<1>5. CASE ConfirmEngine
  <2>1. PICK e : Call("settings", [Task("SetEngine", review.id, e, review.model) EXCEPT
                           !.base = review.base, !.keep = review.keep[e]])
    BY <1>5 DEF ConfirmEngine
  <2>2. review.id \in Ids /\ ReviewInv'
    BY <1>5 DEF ConfirmEngine, IInv, ReviewInv
  <2>3. TaskSound([Task("SetEngine", review.id, e, review.model) EXCEPT
                           !.base = review.base, !.keep = review.keep[e]])
    BY <2>2 DEF TaskSound, Task, NoTask, IsTask
  <2> QED  BY <1>1, <2>1, <2>2, <2>3 DEF Lanes
<1>6. CASE CancelEngine
  BY <1>6 DEF CancelEngine, IInv, ProfileInv, TaskInv, ReviewInv
<1>7. CASE RuntimeKey
  BY <1>1, <1>7, CalledSound DEF RuntimeKey, IInv, ReviewInv, Lanes
<1> QED  BY <1>2, <1>3, <1>4, <1>5, <1>6, <1>7 DEF Keys

LEMMA CommandSound == ASSUME IInv, Command PROVE IInv'
<1>1. ASSUME NEW op, NEW id \in Ids, NEW arg, NEW model,
             Call("cli", Task(op, id, arg, model))
      PROVE  IInv'
  <2>1. TaskSound(Task(op, id, arg, model))
    BY CalledSound
  <2> QED  BY <1>1, <2>1, MoveSound DEF Command, Call, IInv, ReviewInv, Lanes
<1>2. CASE \E op \in (Edits \ {"Reset"}) \union {"SetEngine", "SetRuntime"}, id \in Ids :
             \E arg \in Args(op) : Call("cli", Task(op, id, arg, None))
  BY <1>1, <1>2
<1>3. CASE \E id \in Ids, m \in Models : \E e \in Compatible[m] :
             Call("cli", Task("Create", id, e, m))
  BY <1>1, <1>3
<1> QED  BY <1>2, <1>3 DEF Command

LEMMA LoadSound == ASSUME IInv, Load PROVE IInv'
<1> DEFINE t == [task["settings"] EXCEPT !.step = "loaded", !.result = profiles]
<1>1. TaskSound(t)
  BY DEF IInv, TaskInv, TaskSound, IsTask, Lanes
<1>2. task' = [task EXCEPT !["settings"] = t]
  BY DEF Load, IInv, TaskInv
<1> HIDE DEF t
<1> QED  BY <1>1, <1>2, MoveSound DEF Load, IInv, ReviewInv, Lanes

\* Edits of a setting, a role or the set of profiles keep engine, model and pin
\* together.
LEMMA PlainEditSound ==
  ASSUME IInv, NEW l \in Lanes,
         \/ CheckSet(l) \/ CommitSet(l) \/ Unset(l) \/ Reset(l)
         \/ Role(l) \/ Create(l) \/ Duplicate(l) \/ Delete(l)
  PROVE  IInv'
<1>1. CASE CheckSet(l)
  <2>1. CheckedInv([task[l] EXCEPT !.step = "ready", !.base = Stored(l), !.keep = {}])
    BY <1>1 DEF CheckSet, Called, CheckedInv, IInv, TaskInv, TaskSound, IsTask
  <2> QED  BY <1>1, <2>1, CheckedSound DEF CheckSet, Called
<1>2. ASSUME NEW o, Stored(l) # None, task[l].step \in {"called", "ready"},
             task[l].op # "Refresh",
             Update(l, task[l].id, [Stored(l) EXCEPT !.overrides = o])
      PROVE  IInv'
  <2>1. IsProfile([Stored(l) EXCEPT !.overrides = o]) /\ Fits([Stored(l) EXCEPT !.overrides = o])
    BY <1>2, StoredSound DEF IsProfile, Fits
  <2> QED  BY <1>2, <2>1, UpdateSound
<1>3. CASE CommitSet(l)
  BY <1>2, <1>3 DEF CommitSet, Ready
<1>4. CASE Unset(l)
  BY <1>2, <1>4 DEF Unset, Called
<1>5. CASE Reset(l)
  BY <1>2, <1>5 DEF Reset, Called
<1>6. CASE Role(l)
  <2>1. PICK role : Update(l, task[l].id, [Stored(l) EXCEPT !.role = role])
    BY <1>6 DEF Role
  <2>2. /\ IsProfile([Stored(l) EXCEPT !.role = role])
        /\ Fits([Stored(l) EXCEPT !.role = role])
    BY <1>6, StoredSound DEF IsProfile, Fits, Role, Called
  <2> QED  BY <2>1, <2>2, UpdateSound
<1>7. CASE Create(l)
  <2>1. PICK role : Update(l, task[l].id,
              [model |-> task[l].model, engine |-> task[l].arg, pin |-> None,
               role |-> role, overrides |-> {}])
    BY <1>7 DEF Create
  <2> QED  BY <2>1, UpdateSound DEF IsProfile, Fits
<1>8. CASE Duplicate(l)
  BY <1>8, StoredSound, UpdateSound DEF Duplicate, Called
<1>9. CASE Delete(l)
  BY <1>9, UpdateSound DEF Delete
<1> QED  BY <1>1, <1>3, <1>4, <1>5, <1>6, <1>7, <1>8, <1>9

\* A model is checked with the pin of the profile that is then compared.
LEMMA ModelSound ==
  ASSUME IInv, NEW l \in Lanes, CheckModel(l) \/ CommitModel(l)
  PROVE  IInv'
<1>1. CASE CheckModel(l)
  <2> DEFINE t == [task[l] EXCEPT !.step = "ready", !.base = Stored(l), !.keep = {}]
  <2>1. Stored(l).pin # None => Stored(l).pin \in Resolves(Stored(l).engine, task[l].arg, None)
    BY <1>1 DEF CheckModel, Accepted, Resolves
  <2>2. t.op = "SetModel" /\ t.base = Stored(l) /\ t.arg = task[l].arg
    BY <1>1 DEF CheckModel, Called, IInv, TaskInv, TaskSound, IsTask
  <2>3. CheckedInv(t)
    BY <1>1, <2>1, <2>2 DEF CheckedInv, CheckModel
  <2> QED  BY <1>1, <2>3, CheckedSound DEF CheckModel, Called
<1>2. CASE CommitModel(l)
  <2>1. CheckedInv(task[l]) /\ task[l].base = Stored(l) /\ Stored(l) # None
    BY <1>2 DEF CommitModel, Ready, IInv, TaskInv, TaskSound, CheckedInv
  <2>2. IsProfile([Stored(l) EXCEPT !.model = task[l].arg])
    BY <1>2, <2>1, StoredSound DEF CommitModel, Ready, IsProfile
  <2>3. Fits([Stored(l) EXCEPT !.model = task[l].arg])
    BY <1>2, <2>1, StoredSound DEF CommitModel, Ready, IsProfile, Fits, CheckedInv
  <2> QED  BY <1>2, <2>2, <2>3, UpdateSound DEF CommitModel
<1> QED  BY <1>1, <1>2

\* A change of engine drops the pin, or leaves engine, model and pin alone.
LEMMA EngineSound ==
  ASSUME IInv, NEW l \in Lanes,
         CheckReview(l) \/ ShowReview(l) \/ CheckEngine(l) \/ CommitEngine(l)
  PROVE  IInv'
<1>1. CASE CheckReview(l)
  <2>1. PICK keep : Checked(l, keep)
    BY <1>1 DEF CheckReview
  <2>2. CheckedInv([task[l] EXCEPT !.step = "ready", !.base = Stored(l), !.keep = keep])
    BY <1>1 DEF CheckReview, Called, CheckedInv, IInv, TaskInv, TaskSound, IsTask
  <2> QED  BY <1>1, <2>1, <2>2, CheckedSound DEF CheckReview, Called
<1>2. CASE ShowReview(l)
  <2>1. review'.id \in Ids
    BY <1>2 DEF ShowReview, Ready, IInv, TaskInv, TaskSound
  <2> QED  BY <1>2, <2>1, NoTaskSound, MoveSound DEF ShowReview, ReviewInv
<1>3. CASE CheckEngine(l)
  <2>1. PICK keep : Checked(l, keep)
    BY <1>3 DEF CheckEngine
  <2>2. CheckedInv([task[l] EXCEPT !.step = "ready", !.base = Stored(l), !.keep = keep])
    BY <1>3 DEF CheckEngine, Called, CheckedInv, IInv, TaskInv, TaskSound, IsTask
  <2> QED  BY <1>3, <2>1, <2>2, CheckedSound DEF CheckEngine, Called
<1>4. CASE CommitEngine(l)
  <2> DEFINE p == [Stored(l) EXCEPT !.engine = task[l].arg, !.overrides = task[l].keep,
                              !.pin = IF task[l].arg = Stored(l).engine THEN @ ELSE None]
  <2>1. CheckedInv(task[l]) /\ Stored(l) # None
    BY <1>4 DEF CommitEngine, Ready, IInv, TaskInv, TaskSound, CheckedInv
  <2>2. IsProfile(Stored(l)) /\ Fits(Stored(l))
    BY <1>4, <2>1, StoredSound DEF CommitEngine, Ready
  <2>3. IsProfile(p) /\ Fits(p)
    BY <2>2 DEF IsProfile, Fits
  <2> QED  BY <1>4, <2>3, UpdateSound DEF CommitEngine
<1> QED  BY <1>1, <1>2, <1>3, <1>4

\* A pin is checked with engine and model of the profile that is then compared.
LEMMA RuntimeSound ==
  ASSUME IInv, NEW l \in Lanes, CheckRuntime(l) \/ CommitRuntime(l)
  PROVE  IInv'
<1>1. CASE CheckRuntime(l)
  <2> DEFINE t == [task[l] EXCEPT !.step = "ready", !.base = Stored(l), !.keep = {}]
  <2>1. IsProfile(Stored(l))
    BY <1>1, StoredSound DEF CheckRuntime, Called
  <2>2. task[l].arg # None =>
          task[l].arg \in Resolves(Stored(l).engine, Stored(l).model, None)
    BY <1>1, <2>1 DEF CheckRuntime, Accepted, Resolves, IsProfile
  <2>3. t.op = "SetRuntime" /\ t.base = Stored(l) /\ t.arg = task[l].arg
    BY <1>1 DEF CheckRuntime, Called, IInv, TaskInv, TaskSound, IsTask
  <2>4. CheckedInv(t)
    BY <1>1, <2>2, <2>3 DEF CheckedInv, CheckRuntime
  <2> QED  BY <1>1, <2>4, CheckedSound DEF CheckRuntime, Called
<1>2. CASE CommitRuntime(l)
  <2>1. CheckedInv(task[l]) /\ task[l].base = Stored(l) /\ Stored(l) # None
    BY <1>2 DEF CommitRuntime, Ready, IInv, TaskInv, TaskSound, CheckedInv
  <2>2. IsProfile([Stored(l) EXCEPT !.pin = task[l].arg])
    BY <1>2, <2>1, StoredSound DEF CommitRuntime, Ready, IsProfile
  <2>3. Fits([Stored(l) EXCEPT !.pin = task[l].arg])
    BY <1>2, <2>1, StoredSound DEF CommitRuntime, Ready, IsProfile, Fits, CheckedInv
  <2> QED  BY <1>2, <2>2, <2>3, UpdateSound DEF CommitRuntime
<1> QED  BY <1>1, <1>2

LEMMA EndSound ==
  ASSUME IInv, NEW l \in Lanes, Show(l) \/ Fails(l)
  PROVE  IInv'
BY NoTaskSound, MoveSound DEF Show, Fails, IInv, ReviewInv

LEMMA InitSound == Init => IInv
<1> SUFFICES ASSUME Init PROVE IInv
  OBVIOUS
<1>1. profiles \in [Ids -> Profile \union {None}]
  BY ProfileStoreAssumption DEF Init
<1>2. \A id \in Ids : profiles[id] # None => IsProfile(profiles[id]) /\ Fits(profiles[id])
  <2> SUFFICES ASSUME NEW id \in Ids, profiles[id] # None
               PROVE  IsProfile(profiles[id]) /\ Fits(profiles[id])
    OBVIOUS
  <2>1. profiles[id] \in Profile
    BY <1>1
  <2>2. profiles[id].pin # None =>
          /\ EngineOf[profiles[id].pin] = profiles[id].engine
          /\ profiles[id].model \in Serves[profiles[id].pin]
    BY ProfileStoreAssumption DEF Init
  <2> QED  BY <2>1, <2>2 DEF Profile, IsProfile, Fits, Resolves
<1> QED  BY <1>1, <1>2, NoTaskSound DEF Init, IInv, ProfileInv, TaskInv, ReviewInv

LEMMA StepSound == IInv /\ [Next]_vars => IInv'
<1> SUFFICES ASSUME IInv, [Next]_vars PROVE IInv'
  OBVIOUS
<1>1. CASE Keys
  BY <1>1, KeysSound
<1>2. CASE Command
  BY <1>2, CommandSound
<1>3. CASE Load
  BY <1>3, LoadSound
<1>4. ASSUME NEW l \in Lanes, Step(l) PROVE IInv'
  BY <1>4, PlainEditSound, ModelSound, EngineSound, RuntimeSound, EndSound DEF Step
<1>5. CASE UNCHANGED vars
  BY <1>5 DEF vars, IInv, ProfileInv, TaskInv, ReviewInv
<1> QED  BY <1>1, <1>2, <1>3, <1>4, <1>5 DEF Next

\* For any runtimes and names and any number of edits, a stored pin is a runtime
\* of the profile's engine that loads its model (set_profile_runtime and the
\* tasks that save a model or an engine compare what they read).
THEOREM PinsFit == Spec => []PinFits
<1>1. IInv => PinFits
  BY DEF IInv, ProfileInv, Fits, PinFits
<1> QED  BY InitSound, StepSound, <1>1, PTL DEF Spec

-----------------------------------------------------------------------------
(* What an update takes from a profile.                                    *)

\* An update ends the task's step and changes the profile it names only.
LEMMA UpdateChanges ==
  ASSUME IInv, NEW l \in Lanes, NEW i, NEW p, Update(l, i, p),
         task[l].step \in {"called", "ready"}, NEW id \in Ids
  PROVE  /\ task'[l] # task[l]
         /\ profiles'[id] # profiles[id] => id = i /\ profiles'[id] = p
<1>1. profiles'[id] # profiles[id] => id = i /\ profiles'[id] = p
  BY DEF Update, IInv, ProfileInv
<1>2. task'[l].step \in {"idle", "written", "loaded"}
  <2>1. TaskSound(task[l])
    BY DEF IInv, TaskInv
  <2>2. CASE l = "cli"
    BY <2>2 DEF Update, NoTask, IInv, TaskInv
  <2>3. CASE l = "settings"
    BY <2>1, <2>3 DEF Update, IInv, TaskInv, TaskSound, IsTask
  <2>4. CASE l = "runtime"
    BY <2>1, <2>4 DEF Update, IInv, TaskInv, TaskSound, IsTask
  <2> QED  BY <2>2, <2>3, <2>4 DEF Lanes
<1> QED  BY <1>1, <1>2

\* The overrides a step takes away are those its task is about.
LEMMA StepRemoves ==
  ASSUME IInv, NEW l \in Lanes, Step(l), NEW id \in Ids,
         profiles[id] # None, profiles'[id] # None,
         NEW s \in profiles[id].overrides, s \notin profiles'[id].overrides
  PROVE  Removes(l, id, s)
<1>1. ASSUME NEW i, NEW p, Update(l, i, p), task[l].step \in {"called", "ready"}
      PROVE  task'[l] # task[l] /\ id = i /\ p # None /\ s \notin p.overrides
  BY <1>1, UpdateChanges
<1>2. profiles' # profiles
  OBVIOUS
<1>3. CASE CommitSet(l)
  <2>1. /\ task'[l] # task[l] /\ id = task[l].id
        /\ s \notin [Stored(l) EXCEPT !.overrides = With(@, task[l].arg)].overrides
    BY <1>1, <1>3 DEF CommitSet, Ready
  <2>2. IsProfile(Stored(l))
    BY <1>3, StoredSound DEF CommitSet, Ready
  <2>3. s \notin With(Stored(l).overrides, task[l].arg)
    BY <2>1, <2>2 DEF IsProfile
  <2> QED  BY <1>3, <2>1, <2>3 DEF Removes, CommitSet, Ready, Stored, With
<1>4. CASE Unset(l)
  <2>1. /\ task'[l] # task[l] /\ id = task[l].id
        /\ s \notin [Stored(l) EXCEPT !.overrides = {o \in @ : o[1] # task[l].arg}].overrides
    BY <1>1, <1>4 DEF Unset, Called
  <2>2. IsProfile(Stored(l))
    BY <1>4, StoredSound DEF Unset, Called
  <2> QED  BY <1>4, <2>1, <2>2 DEF Removes, Unset, Called, Stored, IsProfile
<1>5. CASE Reset(l)
  BY <1>1, <1>5 DEF Reset, Called, Removes
<1>6. CASE Role(l)
  <2>1. PICK role : Update(l, task[l].id, [Stored(l) EXCEPT !.role = role])
    BY <1>6 DEF Role
  <2>2. id = task[l].id /\ s \notin [Stored(l) EXCEPT !.role = role].overrides
    BY <1>1, <1>6, <2>1 DEF Role, Called
  <2>3. IsProfile(Stored(l))
    BY <1>6, StoredSound DEF Role, Called
  <2> QED  BY <2>2, <2>3 DEF IsProfile, Stored
<1>7. CASE Create(l)
  <2>1. id = task[l].id
    BY <1>1, <1>7 DEF Create, Called
  <2> QED  BY <1>7, <2>1 DEF Create, Stored
<1>8. CASE Duplicate(l)
  <2>1. id = task[l].arg
    BY <1>1, <1>8 DEF Duplicate, Called
  <2> QED  BY <1>8, <2>1 DEF Duplicate
<1>9. CASE Delete(l)
  BY <1>1, <1>9 DEF Delete, Called
<1>10. CASE CommitModel(l)
  <2>1. id = task[l].id /\ s \notin [Stored(l) EXCEPT !.model = task[l].arg].overrides
    BY <1>1, <1>10 DEF CommitModel, Ready
  <2>2. Stored(l) # None
    BY <2>1 DEF Stored
  <2>3. IsProfile(Stored(l))
    BY <1>10, <2>2, StoredSound DEF CommitModel, Ready
  <2> QED  BY <2>1, <2>3 DEF IsProfile, Stored
<1>11. CASE CommitEngine(l)
  <2> DEFINE p == [Stored(l) EXCEPT !.engine = task[l].arg, !.overrides = task[l].keep,
                              !.pin = IF task[l].arg = Stored(l).engine THEN @ ELSE None]
  <2>1. task'[l] # task[l] /\ id = task[l].id /\ s \notin p.overrides
    BY <1>1, <1>11 DEF CommitEngine, Ready
  <2>2. Stored(l) # None
    BY <2>1 DEF Stored
  <2>3. IsProfile(Stored(l))
    BY <1>11, <2>2, StoredSound DEF CommitEngine, Ready
  <2>4. s \notin task[l].keep
    BY <2>1, <2>3 DEF IsProfile
  <2> QED  BY <1>11, <2>1, <2>4 DEF Removes, CommitEngine, Ready, Stored
<1>12. CASE CommitRuntime(l)
  <2>1. id = task[l].id /\ s \notin [Stored(l) EXCEPT !.pin = task[l].arg].overrides
    BY <1>1, <1>12 DEF CommitRuntime, Ready
  <2>2. Stored(l) # None
    BY <2>1 DEF Stored
  <2>3. IsProfile(Stored(l))
    BY <1>12, <2>2, StoredSound DEF CommitRuntime, Ready
  <2> QED  BY <2>1, <2>3 DEF IsProfile, Stored
<1>13. CASE CheckSet(l) \/ CheckModel(l) \/ CheckReview(l) \/ CheckEngine(l) \/ CheckRuntime(l)
  BY <1>2, <1>13 DEF CheckSet, CheckModel, CheckReview, CheckEngine, CheckRuntime, Checked
<1>14. CASE ShowReview(l) \/ Show(l) \/ Fails(l)
  BY <1>2, <1>14 DEF ShowReview, Show, Fails
<1> QED  BY <1>3, <1>4, <1>5, <1>6, <1>7, <1>8, <1>9, <1>10, <1>11, <1>12, <1>13, <1>14
         DEF Step

\* An override leaves a profile only by a task that names it, or by an engine
\* change whose review, computed on the very profile it is taken from, dropped it.
THEOREM OverridesKept == Spec => NoLostOverride
<1> DEFINE A == \A id \in Ids : profiles[id] # None /\ profiles'[id] # None =>
                  \A s \in profiles[id].overrides \ profiles'[id].overrides :
                    \E l \in Lanes : Removes(l, id, s)
<1>1. IInv /\ [Next]_vars => [A]_vars
  <2> SUFFICES ASSUME IInv, Next PROVE A
    BY DEF vars
  <2>1. CASE Keys \/ Command \/ Load
    <3>1. profiles' = profiles
      <4>1. CASE Keys
        BY <4>1 DEF Keys, SettingsKey, Refresh, CreateKey, ConfirmEngine, CancelEngine,
                    RuntimeKey, Call
      <4>2. CASE Command
        BY <4>2 DEF Command, Call
      <4>3. CASE Load
        BY <4>3 DEF Load
      <4> QED  BY <2>1, <4>1, <4>2, <4>3
    <3> QED  BY <3>1
  <2>2. ASSUME NEW l \in Lanes, Step(l) PROVE A
    BY <2>2, StepRemoves
  <2> QED  BY <2>1, <2>2 DEF Next
<1>2. Spec => [][A]_vars
  <2> HIDE DEF A
  <2> QED  BY InitSound, StepSound, <1>1, PTL DEF Spec
<1> QED  BY <1>2 DEF NoLostOverride

=============================================================================
