----------------------------- MODULE ProfileStore -----------------------------
(* The stored Model Profiles and those who edit them at the same time: the    *)
(* settings tasks and the runtime tasks of a terminal interface, and the      *)
(* command line.  The store's file lock is held for the final update only;    *)
(* what an edit checks, it checks on a profile it read before.                *)
(*                                                                            *)
(* An edit is a task in a lane: called, ready once it has read and checked,   *)
(* written, loaded.  A task of the interface is called with what its screen   *)
(* shows, from the key that opens the editor or the picker on.  Each step may *)
(* fail.  Content hashes are compared as the contents they stand for.         *)
EXTENDS Naturals

CONSTANTS
  Ids,          \* names of profiles
  Models, Engines, Runtimes,
  Settings,     \* pairs of a setting's name and a value
  Compatible,   \* the engines that may serve a model
  EngineOf,     \* the engine a runtime is of
  Serves,       \* the models a runtime can load
  Accepts,      \* the settings in a runtime's schema
  Applies,      \* the engines a setting's name belongs to
  Initial,      \* the contents the store may begin with
  MaxEdits,     \* a bound: edits begun
  None

Roles == {"Primary", "Auxiliary"}
Profile == [model : Models, engine : Engines, pin : Runtimes \union {None},
            role : Roles, overrides : SUBSET Settings]

ASSUME ProfileStoreAssumption ==
  /\ None \notin Ids \union Models \union Engines \union Runtimes
  /\ EngineOf \in [Runtimes -> Engines]
  /\ Serves \in [Runtimes -> SUBSET Models]
  /\ Compatible \in [Models -> SUBSET Engines]
  /\ \A r \in Runtimes : \A m \in Serves[r] : EngineOf[r] \in Compatible[m]
  /\ \A r \in Runtimes : \A s \in Accepts[r] :
       s \in Settings /\ EngineOf[r] \in Applies[s[1]]
  /\ MaxEdits \in Nat
  /\ Initial \subseteq [Ids -> Profile \union {None}]
  /\ \A ps \in Initial, id \in Ids : ps[id] # None =>
       /\ ps[id].engine \in Compatible[ps[id].model]
       /\ ps[id].pin # None =>
            EngineOf[ps[id].pin] = ps[id].engine /\ ps[id].model \in Serves[ps[id].pin]

VARIABLES
  profiles,  \* the stored profile of each name, or None
  shown,     \* the profiles the interface shows
  task,      \* the edit in each lane
  review,    \* the engine change under review on the screen
  edits      \* edits begun

vars == <<profiles, shown, task, review, edits>>

Lanes == {"settings", "runtime", "cli"}

------------------------------------------------------------------------------
(* What the checks compute.                                                   *)

\* The pinned runtime, or one that selection may come to; none if it does not
\* fit.
Resolves(engine, model, pin) ==
  {r \in Runtimes : /\ EngineOf[r] = engine
                    /\ model \in Serves[r]
                    /\ pin \in {None, r}}

With(overrides, setting) ==
  {s \in overrides : s[1] # setting[1]} \union {setting}

\* validate_profile_settings
Accepted(p, model, overrides) ==
  \E r \in Resolves(p.engine, model, p.pin) : overrides \subseteq Accepts[r]

\* The overrides that survive a change of engine, for each runtime it may use.
SwitchCandidates(p, model, engine) ==
  {p.overrides \intersect Accepts[r] :
     r \in Resolves(engine, model, IF engine = p.engine THEN p.pin ELSE None)}

\* The check of every profile that ends each update of the store.
WellScoped(p) == \A s \in p.overrides : p.engine \in Applies[s[1]]

------------------------------------------------------------------------------
(* Tasks.                                                                     *)

NoTask == [op |-> "none", step |-> "idle", id |-> None, arg |-> None, model |-> None,
           base |-> None, keep |-> {}, result |-> None]

Call(l, t) ==
  /\ task[l] = NoTask
  /\ edits < MaxEdits
  /\ edits' = edits + 1
  /\ task' = [task EXCEPT ![l] = t]
  /\ UNCHANGED <<profiles, shown>>

Task(op, id, arg, model) ==
  [NoTask EXCEPT !.op = op, !.step = "called", !.id = id, !.arg = arg, !.model = model]

Called(l, op) == task[l].op = op /\ task[l].step = "called"
Ready(l, op) == task[l].op = op /\ task[l].step = "ready"

\* The profile a task is about, as stored.
Stored(l) == profiles[task[l].id]

\* The checks passed on the profile as it is stored now.
Checked(l, keep) ==
  /\ task' = [task EXCEPT ![l].step = "ready", ![l].base = Stored(l), ![l].keep = keep]
  /\ UNCHANGED <<profiles, shown, review, edits>>

\* ModelProfilesStore::update.  The command is done; a settings task goes on to
\* load; a runtime task has the state it wrote.
Update(l, id, p) ==
  /\ p # None => WellScoped(p)
  /\ profiles' = [profiles EXCEPT ![id] = p]
  /\ task' = [task EXCEPT ![l] =
                CASE l = "cli" -> NoTask
                  [] l = "settings" -> [@ EXCEPT !.step = "written"]
                  [] l = "runtime" -> [@ EXCEPT !.step = "loaded", !.result = profiles']]
  /\ UNCHANGED <<shown, review, edits>>

------------------------------------------------------------------------------
(* Calls.                                                                     *)

Args(op) ==
  CASE op = "Set" -> Settings
    [] op = "Unset" -> {s[1] : s \in Settings}
    [] op = "Duplicate" -> Ids
    [] op = "SetModel" -> Models
    [] op = "SetEngine" -> Engines
    [] op = "SetRuntime" -> Runtimes \union {None}
    [] OTHER -> {None}

Edits == {"Set", "Unset", "Reset", "Role", "Duplicate", "Delete", "SetModel"}

\* A key on the profile screen.  No other key works while an edit is under way
\* or a review is shown.
SettingsKey ==
  /\ review = None
  /\ \E op \in Edits \union {"Review"}, id \in Ids : \E arg \in Args(op) :
       /\ shown[id] # None
       /\ Call("settings", Task(op, id, arg, shown[id].model))
  /\ UNCHANGED review

\* The profiles are read again: for a key, with an inspection that follows a
\* result or a cancelled review, or on the way into a screen.
Refresh ==
  /\ task["settings"] = NoTask
  /\ task' = [task EXCEPT !["settings"] = Task("Refresh", None, None, None)]
  /\ UNCHANGED <<profiles, shown, review, edits>>

\* The name of a new profile for a model, and its engine.
CreateKey ==
  /\ review = None
  /\ \E id \in Ids, m \in Models : \E e \in Compatible[m] :
       Call("settings", Task("Create", id, e, m))
  /\ UNCHANGED review

ConfirmEngine ==
  /\ review # None
  /\ \E e \in DOMAIN review.keep :
       Call("settings", [Task("SetEngine", review.id, e, review.model) EXCEPT
                           !.base = review.base, !.keep = review.keep[e]])
  /\ review' = None

CancelEngine ==
  /\ review # None
  /\ review' = None
  /\ UNCHANGED <<profiles, shown, task, edits>>

\* The runtime picker of a profile, opened while its model was shown.
RuntimeKey ==
  /\ \E id \in Ids : \E r \in Args("SetRuntime") :
       /\ shown[id] # None
       /\ Call("runtime", Task("SetRuntime", id, r, shown[id].model))
  /\ UNCHANGED review

\* A command; it finds the bound model in the profile it reads.
Command ==
  /\ \/ \E op \in (Edits \ {"Reset"}) \union {"SetEngine", "SetRuntime"}, id \in Ids :
          \E arg \in Args(op) : Call("cli", Task(op, id, arg, None))
     \/ \E id \in Ids, m \in Models : \E e \in Compatible[m] :
          Call("cli", Task("Create", id, e, m))
  /\ UNCHANGED review

\* The artifact a task checks with.
ModelFor(l) == IF l = "cli" THEN Stored(l).model ELSE task[l].model

------------------------------------------------------------------------------
(* Edits of one setting.                                                      *)

\* The override is checked beside the others, and with the pin, of the profile
\* as it is now.
CheckSet(l) ==
  /\ Called(l, "Set")
  /\ Stored(l) # None
  /\ Accepted(Stored(l), ModelFor(l), With(Stored(l).overrides, task[l].arg))
  /\ Checked(l, {})

\* It is saved into the profile as it is then.
CommitSet(l) ==
  /\ Ready(l, "Set")
  /\ Stored(l) # None
  /\ Update(l, task[l].id,
            [Stored(l) EXCEPT !.overrides = With(@, task[l].arg)])

Unset(l) ==
  /\ Called(l, "Unset")
  /\ Stored(l) # None
  /\ Update(l, task[l].id,
            [Stored(l) EXCEPT !.overrides = {s \in @ : s[1] # task[l].arg}])

Reset(l) ==
  /\ Called(l, "Reset")
  /\ Stored(l) # None
  /\ Update(l, task[l].id, [Stored(l) EXCEPT !.overrides = {}])

------------------------------------------------------------------------------
(* Whole profiles.                                                            *)

Role(l) ==
  /\ Called(l, "Role")
  /\ Stored(l) # None
  /\ \E role \in IF l = "cli" THEN Roles ELSE Roles \ {Stored(l).role} :
       Update(l, task[l].id, [Stored(l) EXCEPT !.role = role])

Create(l) ==
  /\ Called(l, "Create")
  /\ Stored(l) = None
  /\ \E role \in IF l = "cli" THEN Roles ELSE {"Primary"} :
       Update(l, task[l].id,
              [model |-> task[l].model, engine |-> task[l].arg, pin |-> None,
               role |-> role, overrides |-> {}])

Duplicate(l) ==
  /\ Called(l, "Duplicate")
  /\ Stored(l) # None
  /\ profiles[task[l].arg] = None
  /\ Update(l, task[l].arg, Stored(l))

\* Not while the server has a backend of it, which is one way to fail.
Delete(l) ==
  /\ Called(l, "Delete")
  /\ Stored(l) # None
  /\ Update(l, task[l].id, None)

------------------------------------------------------------------------------
(* The bound model, engine and runtime: checked, then saved if the profile    *)
(* has not changed since.                                                     *)

CheckModel(l) ==
  /\ Called(l, "SetModel")
  /\ Stored(l) # None
  /\ Stored(l).engine \in Compatible[task[l].arg]
  /\ Stored(l).pin # None =>
       Accepted(Stored(l), task[l].arg, Stored(l).overrides)
  /\ Checked(l, {})

MUT_CommitModel(l) ==
  /\ Ready(l, "SetModel")
  /\ Stored(l) # None
  /\ Update(l, task[l].id, [Stored(l) EXCEPT !.model = task[l].arg])

CommitModel(l) ==
  /\ Ready(l, "SetModel")
  /\ Stored(l) = task[l].base
  /\ Update(l, task[l].id, [Stored(l) EXCEPT !.model = task[l].arg])

\* CycleProfileEngine: what each engine that fits the shown model would keep.
CheckReview(l) ==
  /\ Called(l, "Review")
  /\ Stored(l) # None
  /\ Compatible[task[l].model] # {}
  /\ \E keep \in [Compatible[task[l].model] -> SUBSET Stored(l).overrides] :
       /\ \A e \in DOMAIN keep :
            keep[e] \in SwitchCandidates(Stored(l), task[l].model, e)
       /\ Checked(l, keep)

\* The review appears on the screen.
ShowReview(l) ==
  /\ Ready(l, "Review")
  /\ review' = [id |-> task[l].id, model |-> task[l].model,
                base |-> task[l].base, keep |-> task[l].keep]
  /\ task' = [task EXCEPT ![l] = NoTask]
  /\ UNCHANGED <<profiles, shown, edits>>

\* A confirmed review is compared with the profile and computed again; the
\* command computes its own, and has it confirmed where something is dropped.
CheckEngine(l) ==
  /\ Called(l, "SetEngine")
  /\ Stored(l) # None
  /\ l = "cli" => task[l].arg \in Compatible[Stored(l).model]
  /\ l # "cli" => Stored(l) = task[l].base
  /\ \E keep \in SwitchCandidates(Stored(l), ModelFor(l), task[l].arg) :
       /\ l # "cli" => keep = task[l].keep
       /\ Checked(l, keep)

MUT_CommitEngine(l) ==
  /\ Ready(l, "SetEngine")
  /\ Stored(l) # None
  /\ Update(l, task[l].id,
            [Stored(l) EXCEPT !.engine = task[l].arg, !.overrides = task[l].keep,
                              !.pin = IF task[l].arg = Stored(l).engine THEN @ ELSE None])

CommitEngine(l) ==
  /\ Ready(l, "SetEngine")
  /\ Stored(l) = task[l].base
  /\ Update(l, task[l].id,
            [Stored(l) EXCEPT !.engine = task[l].arg, !.overrides = task[l].keep,
                              !.pin = IF task[l].arg = Stored(l).engine THEN @ ELSE None])

\* set_profile_runtime: the model of the picker must still be the bound one;
\* clearing a pin needs no check.
CheckRuntime(l) ==
  /\ Called(l, "SetRuntime")
  /\ Stored(l) # None
  /\ task[l].arg # None =>
       /\ ModelFor(l) = Stored(l).model
       /\ Accepted([Stored(l) EXCEPT !.pin = task[l].arg], ModelFor(l),
                   Stored(l).overrides)
  /\ Checked(l, {})

CommitRuntime(l) ==
  /\ Ready(l, "SetRuntime")
  /\ Stored(l) = task[l].base
  /\ Update(l, task[l].id, [Stored(l) EXCEPT !.pin = task[l].arg])

------------------------------------------------------------------------------
(* The way back to the screen.                                                *)

\* load_tui_settings after a write, or for a refresh.
Load ==
  /\ \/ task["settings"].step = "written"
     \/ Called("settings", "Refresh")
  /\ task' = [task EXCEPT !["settings"].step = "loaded", !["settings"].result = profiles]
  /\ UNCHANGED <<profiles, shown, review, edits>>

\* The result of a runtime task closes what lies over the screen.
Show(l) ==
  /\ task[l].step = "loaded"
  /\ shown' = task[l].result
  /\ review' = IF l = "runtime" THEN None ELSE review
  /\ task' = [task EXCEPT ![l] = NoTask]
  /\ UNCHANGED <<profiles, edits>>

\* A check fails, the profile is gone or has changed, a file cannot be read or
\* written, or a command is not confirmed.
Fails(l) ==
  /\ task[l] # NoTask
  /\ task' = [task EXCEPT ![l] = NoTask]
  /\ UNCHANGED <<profiles, shown, review, edits>>

------------------------------------------------------------------------------

Init ==
  /\ profiles \in Initial
  /\ shown = profiles
  /\ task = [l \in Lanes |-> NoTask]
  /\ review = None
  /\ edits = 0

Keys == SettingsKey \/ Refresh \/ CreateKey \/ ConfirmEngine \/ CancelEngine \/ RuntimeKey

Step(l) ==
  \/ CheckSet(l) \/ CommitSet(l) \/ Unset(l) \/ Reset(l)
  \/ Role(l) \/ Create(l) \/ Duplicate(l) \/ Delete(l)
  \/ CheckModel(l) \/ CommitModel(l) \/ CheckReview(l) \/ ShowReview(l)
  \/ CheckEngine(l) \/ CommitEngine(l) \/ CheckRuntime(l) \/ CommitRuntime(l)
  \/ Show(l) \/ Fails(l)

Next == Keys \/ Command \/ Load \/ \E l \in Lanes : Step(l)

Spec == Init /\ [][Next]_vars

------------------------------------------------------------------------------
(* Properties.                                                                *)

\* "It stays with the profile's engine": whatever edits of model, engine and
\* runtime overlap, each checked on a profile read earlier, a stored pin is a
\* runtime of the profile's engine that can load the profile's model.
PinFits ==
  \A id \in Ids :
    profiles[id] # None /\ profiles[id].pin # None =>
      profiles[id].pin \in Resolves(profiles[id].engine, profiles[id].model, None)

\* The task that moves removes the override by its own name or value, or is an
\* engine change whose review had it among what is dropped.
Removes(l, id, s) ==
  /\ task'[l] # task[l]
  /\ task[l].id = id
  /\ \/ task[l].op = "Unset" /\ task[l].arg = s[1]
     \/ task[l].op = "Set" /\ task[l].arg[1] = s[1]
     \/ task[l].op = "Reset"
     \/ task[l].op = "SetEngine" /\ s \in task[l].base.overrides \ task[l].keep

\* An override saved by one editor is never undone by another that did not see
\* it: it leaves a profile only by being cleared, replaced or reset, or by a
\* change of engine whose review listed it.  On the command line the review that
\* counts is the one --confirm computes again, of the profile it then reads.
NoLostOverride ==
  [][\A id \in Ids : profiles[id] # None /\ profiles'[id] # None =>
       \A s \in profiles[id].overrides \ profiles'[id].overrides :
         \E l \in Lanes : Removes(l, id, s)]_vars

==============================================================================
