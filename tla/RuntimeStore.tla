----------------------------- MODULE RuntimeStore -----------------------------
(* The managed runtime store: installed engine runtimes on disk, shared by  *)
(* every Scala process of a user (store.rs, packs.rs, installer.rs and the  *)
(* prune command).  Several processes install, remove, select, pin, load,   *)
(* clean and prune at once, with only advisory file locks between them, and *)
(* any of them may be killed between two steps.                             *)
(*                                                                         *)
(* A directory of the store is abstracted to what a scan, a removal and a   *)
(* recovery tell apart: its manifest, its pending marker, its content.      *)
EXTENDS Naturals, FiniteSets

CONSTANTS
  Procs,        \* operating system processes running Scala
  Runtimes,     \* runtime identities
  Python,       \* those acquired as managed Python environments
  Newer,        \* Newer[r]: the runtime proven to supersede r, or None
  Does,         \* Does[p]: the operations process p starts (a bound)
  MaxPrunes,    \* prunes that reach the acquisition caches (a bound)
  Free,         \* nobody holds the lock
  Orphan,       \* holder of a lock inherited by a helper that outlived its parent
  None

AllKinds == {"install", "remove", "select", "unselect", "pin", "unpin", "clean", "prune",
             "reset"}

ASSUME StoreAssumption ==
  /\ Python \subseteq Runtimes
  /\ Newer \in [Runtimes -> Runtimes \cup {None}]
  /\ Does \in [Procs -> SUBSET (AllKinds \cup {"load"})]
  /\ MaxPrunes \in Nat
  /\ Runtimes \cap {None, "selections", "cache"} = {}
  /\ Free \notin Procs /\ Orphan \notin Procs /\ Free # Orphan

VARIABLES
  dir,        \* dir[r]: the directory at r's identity path
  selection,  \* the runtime of the persisted format selection, or None
  pin,        \* the runtime a Model Profile is pinned to, or None
  session,    \* session[p]: "down", "up" (shared storage lease) or "prune" (exclusive)
  op,         \* op[p]: the runtime mutation of p, one at a time
  load,       \* load[p]: the runtime a backend of p uses
  txn,        \* holder of runtime-store.lock
  excl,       \* excl[r]: holder of r's lease in exclusive mode
  shared,     \* shared[r]: holders of r's lease in shared mode
  inst,       \* inst[r]: holder of r's installation lease
  inode,      \* which file the name python/acquisition.lock leads to
  cache,      \* cache[i]: holder of the lock on the i-th such file
  helpers     \* provisioning children: the runtime they write, lock and parent

vars == <<dir, selection, pin, session, op, load, txn, excl, shared, inst, inode,
          cache, helpers>>

files == <<dir, selection, pin>>
locks == <<txn, excl, shared, inst>>
acquisition == <<inode, cache, helpers>>

(***************************************************************************)
(* The store on disk.                                                      *)
(***************************************************************************)
\* "bare" has neither manifest nor marker; "pending" has the marker of a Python
\* acquisition; "marked" has marker and manifest; "part" and "broken" have a
\* manifest and lost files, "broken" the verified entrypoint among them.
DirStates == {"none", "bare", "pending", "marked", "whole", "part", "broken"}

\* scan_blocking reports the directories whose manifest is valid and whose
\* entrypoint has the recorded digest.
IsVisible(d) == d \in {"marked", "whole", "part"}
Visible(r) == IsVisible(dir[r])

\* find_removal_runtime_blocking asks for a valid manifest only.
HasManifest(r) == dir[r] \in {"marked", "whole", "part", "broken"}

\* What is left of a tree when remove_dir_all stops in its middle.
Torn(d) ==
  CASE d \in {"marked", "whole", "part"} -> {"part", "broken", "bare"}
    [] d = "broken" -> {"broken", "bare"}
    [] d = "pending" -> {"pending", "bare"}
    [] OTHER -> {d}

Idle == [kind |-> "none", rt |-> None, pc |-> "idle", seen |-> None, todo |-> {}]
NoLoad == [rt |-> None, pc |-> "idle"]

Pcs == {"idle", "lease", "recheck", "cachelock", "stage", "recover", "mark",
        "acquire", "produce", "probe", "provision", "txn", "excl", "activate", "publish",
        "unmark", "drop", "check", "erase", "write", "shared", "wipe", "locks",
        "plan", "execute", "tear"}

Targets == Runtimes \cup {"selections", "cache"}
Inodes == 0..MaxPrunes

TypeOK ==
  /\ dir \in [Runtimes -> DirStates]
  /\ selection \in Runtimes \cup {None}
  /\ pin \in Runtimes \cup {None}
  /\ session \in [Procs -> {"down", "up", "prune"}]
  /\ op \in [Procs -> [kind : AllKinds \cup {"none"}, rt : Runtimes \cup {None},
                       pc : Pcs, seen : Runtimes \cup {None}, todo : SUBSET Targets]]
  /\ load \in [Procs -> [rt : Runtimes \cup {None},
                         pc : {"idle", "resolved", "leased", "running"}]]
  /\ txn \in Procs \cup {Free}
  /\ excl \in [Runtimes -> Procs \cup {Free}]
  /\ shared \in [Runtimes -> SUBSET (Procs \X {"load", "pin"})]
  /\ inst \in [Runtimes -> Procs \cup {Free}]
  /\ inode \in Inodes
  /\ cache \in [Inodes -> Procs \cup {Free, Orphan}]
  /\ helpers \subseteq [rt : Runtimes, ino : Inodes, parent : Procs \cup {Orphan}]

Init ==
  /\ dir = [r \in Runtimes |-> "none"]
  /\ selection = None
  /\ pin = None
  /\ session = [p \in Procs |-> "down"]
  /\ op = [p \in Procs |-> Idle]
  /\ load = [p \in Procs |-> NoLoad]
  /\ txn = Free
  /\ excl = [r \in Runtimes |-> Free]
  /\ shared = [r \in Runtimes |-> {}]
  /\ inst = [r \in Runtimes |-> Free]
  /\ inode = 0
  /\ cache = [i \in Inodes |-> Free]
  /\ helpers = {}

(***************************************************************************)
(* Helpers for the operations.  A file lock is released when its guard is  *)
(* dropped, so an operation that returns gives back what it took.          *)
(***************************************************************************)
At(p, kinds, pc) == op[p].kind \in kinds /\ op[p].pc = pc
Goto(p, pc) == op' = [op EXCEPT ![p].pc = pc]

TxnWithout(p) == IF txn = p THEN Free ELSE txn
ExclWithout(p) == [r \in Runtimes |-> IF excl[r] = p THEN Free ELSE excl[r]]
InstWithout(p) == [r \in Runtimes |-> IF inst[r] = p THEN Free ELSE inst[r]]
SharedWithout(p, whys) == [r \in Runtimes |-> shared[r] \ ({p} \X whys)]
CacheWithout(p) == [i \in Inodes |-> IF cache[i] = p THEN Free ELSE cache[i]]

\* The operation returns: its guards are dropped, the backend's lease is not.
Return(p) ==
  /\ op' = [op EXCEPT ![p] = Idle]
  /\ txn' = TxnWithout(p)
  /\ excl' = ExclWithout(p)
  /\ inst' = InstWithout(p)
  /\ shared' = SharedWithout(p, {"pin"})
  /\ cache' = CacheWithout(p)
  /\ UNCHANGED <<inode, session, load>>

\* Only the program counter moves, and locks as the conjuncts beside this say.
Step(p, pc) == Goto(p, pc) /\ UNCHANGED <<session, load>>

\* packs.operation admits one mutation at a time in a process.
Begin(p, kind, r, pc) ==
  /\ kind \in Does[p]
  /\ session[p] = "up"
  /\ op[p] = Idle
  /\ op' = [op EXCEPT ![p] = [Idle EXCEPT !.kind = kind, !.rt = r, !.pc = pc,
                                          !.seen = pin]]
  /\ UNCHANGED <<files, session, load, locks, acquisition>>

(***************************************************************************)
(* Sessions.                                                               *)
(***************************************************************************)
\* ApplicationCore::load_from_paths: a session takes the storage lease in shared
\* mode for its whole life, and fails while a prune holds it.
Open(p) ==
  /\ session[p] = "down"
  /\ \A q \in Procs : session[q] # "prune"
  /\ session' = [session EXCEPT ![p] = "up"]
  /\ UNCHANGED <<files, op, load, locks, acquisition>>

Close(p) ==
  /\ session[p] = "up" /\ op[p] = Idle /\ load[p] = NoLoad
  /\ session' = [session EXCEPT ![p] = "down"]
  /\ UNCHANGED <<files, op, load, locks, acquisition>>

\* Mutant: the helper does not inherit the acquisition lock.
MUT_Crash(p) ==
  /\ session[p] # "down"
  /\ session' = [session EXCEPT ![p] = "down"]
  /\ op' = [op EXCEPT ![p] = Idle]
  /\ load' = [load EXCEPT ![p] = NoLoad]
  /\ txn' = TxnWithout(p)
  /\ excl' = ExclWithout(p)
  /\ inst' = InstWithout(p)
  /\ shared' = SharedWithout(p, {"load", "pin"})
  /\ helpers' = {[h EXCEPT !.parent = IF @ = p THEN Orphan ELSE @] : h \in helpers}
  /\ cache' = CacheWithout(p)
  /\ UNCHANGED <<files, inode>>

\* The process is killed: the kernel drops its locks, but the provisioning helper
\* keeps the acquisition lock it inherited and goes on writing.
Crash(p) ==
  /\ session[p] # "down"
  /\ session' = [session EXCEPT ![p] = "down"]
  /\ op' = [op EXCEPT ![p] = Idle]
  /\ load' = [load EXCEPT ![p] = NoLoad]
  /\ txn' = TxnWithout(p)
  /\ excl' = ExclWithout(p)
  /\ inst' = InstWithout(p)
  /\ shared' = SharedWithout(p, {"load", "pin"})
  /\ helpers' = {[h EXCEPT !.parent = IF @ = p THEN Orphan ELSE @] : h \in helpers}
  /\ cache' = [i \in Inodes |->
                 IF cache[i] # p THEN cache[i]
                 ELSE IF \E h \in helpers : h.parent = p /\ h.ino = i THEN Orphan
                 ELSE Free]
  /\ UNCHANGED <<files, inode>>

\* A helper that lost its parent ends, and with it the last descriptor of the lock.
OrphanExits(h) ==
  /\ h \in helpers /\ h.parent = Orphan
  /\ helpers' = helpers \ {h}
  /\ cache' = [cache EXCEPT ![h.ino] = Free]
  /\ UNCHANGED <<files, session, op, load, locks, inode>>

(***************************************************************************)
(* RuntimePackManager::install and the installer.                          *)
(***************************************************************************)
\* An installed runtime is returned at once, which changes nothing.
InstallStart(p, r) == ~Visible(r) /\ Begin(p, "install", r, "lease")

\* acquire_installation_lease, or InstallationInProgress.
InstallLease(p) ==
  LET r == op[p].rt IN
  /\ At(p, {"install"}, "lease")
  /\ \/ /\ inst[r] = Free
        /\ inst' = [inst EXCEPT ![r] = p] /\ Step(p, "recheck")
        /\ UNCHANGED <<txn, excl, shared, cache, inode>>
     \/ inst[r] # Free /\ Return(p)
  /\ UNCHANGED <<files, helpers>>

\* The runtime may have been installed while the lease was taken.
InstallRecheck(p) ==
  LET r == op[p].rt IN
  /\ At(p, {"install"}, "recheck")
  /\ \/ Visible(r) /\ Return(p)
     \/ /\ ~Visible(r)
        /\ Step(p, IF r \in Python THEN "cachelock" ELSE "acquire")
        /\ UNCHANGED <<locks, cache, inode>>
  /\ UNCHANGED <<files, helpers>>

\* The Python acquisition lock, tried under the name's current file.
CacheLock(p) ==
  /\ At(p, {"install", "clean"}, "cachelock")
  /\ \/ /\ cache[inode] = Free
        /\ cache' = [cache EXCEPT ![inode] = p]
        /\ Step(p, IF op[p].kind = "clean" THEN "wipe" ELSE "stage")
        /\ UNCHANGED <<locks, inode>>
     \/ cache[inode] # Free /\ Return(p)
  /\ UNCHANGED <<files, helpers>>

\* create_python_staging: an existing directory is taken over only when it is an
\* interrupted acquisition, and is deleted first.
StagePython(p) ==
  LET r == op[p].rt IN
  /\ At(p, {"install"}, "stage")
  /\ \/ /\ dir[r] = "none"
        /\ dir' = [dir EXCEPT ![r] = "bare"] /\ Step(p, "mark")
        /\ UNCHANGED <<locks, cache, inode>>
     \/ /\ dir[r] = "pending"
        /\ \E d \in Torn(dir[r]) : dir' = [dir EXCEPT ![r] = d]
        /\ Step(p, "recover")
        /\ UNCHANGED <<locks, cache, inode>>
     \/ dir[r] \notin {"none", "pending"} /\ Return(p) /\ UNCHANGED dir
  /\ UNCHANGED <<selection, pin, helpers>>

RecoverPython(p) ==
  /\ At(p, {"install"}, "recover")
  /\ dir' = [dir EXCEPT ![op[p].rt] = "bare"]
  /\ Step(p, "mark")
  /\ UNCHANGED <<selection, pin, locks, acquisition>>

MarkPython(p) ==
  /\ At(p, {"install"}, "mark")
  /\ dir' = [dir EXCEPT ![op[p].rt] = "pending"]
  /\ Step(p, "acquire")
  /\ UNCHANGED <<selection, pin, locks, acquisition>>

\* Everything that is fetched: release assets, the source build's prerequisites,
\* the Python interpreter and tools.  A failure leaves no runtime.
Acquire(p) ==
  LET r == op[p].rt IN
  /\ At(p, {"install"}, "acquire")
  /\ \/ /\ r \in Python
        /\ \E i \in Inodes :
             /\ cache[i] = p
             /\ helpers' = helpers \cup {[rt |-> r, ino |-> i, parent |-> p]}
        /\ Step(p, "provision") /\ UNCHANGED <<locks, cache, inode>>
     \/ /\ r \notin Python
        /\ Step(p, "produce") /\ UNCHANGED <<locks, acquisition>>
     \/ r \in Python /\ Step(p, "drop") /\ UNCHANGED <<locks, acquisition>>
     \/ r \notin Python /\ Return(p) /\ UNCHANGED helpers
  /\ UNCHANGED files

\* A release is extracted, or a source tree fetched, verified and built, in a
\* private staging directory whose owner removes it when a step fails.
Produce(p) ==
  /\ At(p, {"install"}, "produce")
  /\ \/ Step(p, "probe") /\ UNCHANGED <<locks, cache, inode>>
     \/ Return(p)
  /\ UNCHANGED <<files, helpers>>

\* The adapter runs the staged entrypoint, which must still be the one hashed;
\* the manifest is written into the staging directory.
Probe(p) ==
  /\ At(p, {"install"}, "probe")
  /\ \/ Step(p, "txn") /\ UNCHANGED <<locks, cache, inode>>
     \/ Return(p)
  /\ UNCHANGED <<files, helpers>>

\* The helper provisions the environment in place and exits; then the runtime is
\* admitted by its adapter.
Provision(p) ==
  /\ At(p, {"install"}, "provision")
  /\ \E pc \in {"txn", "drop"} : Step(p, pc)
  /\ helpers' = {h \in helpers : h.parent # p}
  /\ UNCHANGED <<files, locks, cache, inode>>

\* Ctrl-C drops the install future at an await: the helper's process group is
\* killed, then owned staging is deleted, then the leases go.
Cancel(p) ==
  /\ op[p].kind = "install"
  /\ op[p].pc \in {"acquire", "produce", "probe", "provision", "txn", "excl",
                   "recover", "mark"}
  /\ helpers' = {h \in helpers : h.parent # p}
  /\ IF op[p].rt \in Python
       THEN /\ Step(p, "drop")
            /\ txn' = TxnWithout(p)
            \* Until create_python_staging returns, the blocking thread owns the
            \* directory and the installation lease, the future the cache lock.
            /\ cache' = IF op[p].pc \in {"recover", "mark"} THEN CacheWithout(p) ELSE cache
            /\ UNCHANGED <<excl, shared, inst, inode>>
       ELSE Return(p)
  /\ UNCHANGED files

\* RuntimeStaging::drop deletes the owned directory, then the leases it retains
\* are released.
DropStaging(p) ==
  LET r == op[p].rt IN
  /\ At(p, {"install"}, "drop")
  /\ \/ /\ dir[r] # "none"
        /\ \E d \in Torn(dir[r]) : dir' = [dir EXCEPT ![r] = d]
        /\ Step(p, "erase") /\ UNCHANGED <<locks, cache, inode>>
     \/ dir[r] = "none" /\ Return(p) /\ UNCHANGED dir
  /\ UNCHANGED <<selection, pin, helpers>>

EraseStaging(p) ==
  /\ At(p, {"install"}, "erase")
  /\ dir' = [dir EXCEPT ![op[p].rt] = "none"]
  /\ Return(p)
  /\ UNCHANGED <<selection, pin, helpers>>

\* The store transaction blocks until it is free.
AcquireTransaction(p) ==
  /\ op[p].pc = "txn"
  /\ txn = Free
  /\ txn' = p
  /\ Step(p, CASE op[p].kind \in {"install", "remove"} -> "excl"
               [] op[p].kind = "select" -> "check"
               [] OTHER -> "write")
  /\ UNCHANGED <<files, excl, shared, inst, acquisition>>

\* Mutant: the lease is waited for inside the transaction.
MUT_AcquireExclusive(p) ==
  LET r == op[p].rt IN
  /\ op[p].pc = "excl"
  /\ excl[r] = Free /\ shared[r] = {}
  /\ excl' = [excl EXCEPT ![r] = p]
  /\ Step(p, IF op[p].kind = "install" THEN "activate" ELSE "check")
  /\ UNCHANGED <<files, txn, shared, inst, acquisition>>

\* The runtime's lease is only tried: RuntimeInUse ends the operation.
AcquireExclusive(p) ==
  LET r == op[p].rt IN
  /\ op[p].pc = "excl"
  /\ \/ /\ excl[r] = Free /\ shared[r] = {}
        /\ excl' = [excl EXCEPT ![r] = p]
        /\ Step(p, IF op[p].kind = "install" THEN "activate" ELSE "check")
        /\ UNCHANGED <<txn, shared, inst, cache, inode>>
     \/ /\ excl[r] # Free \/ shared[r] # {}
        /\ IF op[p].kind = "install" /\ r \in Python
             THEN /\ Step(p, "drop") /\ txn' = TxnWithout(p)
                  /\ UNCHANGED <<excl, shared, inst, cache, inode>>
             ELSE Return(p)
  /\ UNCHANGED <<files, helpers>>

\* RuntimeStore::activate.  An unclaimed or damaged directory is first renamed
\* into the trash; the staged tree is then renamed into place.
Activate(p) ==
  LET r == op[p].rt IN
  /\ At(p, {"install"}, "activate") /\ r \notin Python
  /\ \/ Visible(r) /\ Return(p) /\ UNCHANGED dir
     \/ /\ dir[r] \in {"bare", "broken"}
        /\ dir' = [dir EXCEPT ![r] = "none"] /\ Step(p, "publish")
        /\ UNCHANGED <<locks, cache, inode>>
     \/ dir[r] = "none" /\ dir' = [dir EXCEPT ![r] = "whole"] /\ Return(p)
  /\ UNCHANGED <<selection, pin, helpers>>

Publish(p) ==
  /\ At(p, {"install"}, "publish")
  /\ dir' = [dir EXCEPT ![op[p].rt] = "whole"]
  /\ Return(p)
  /\ UNCHANGED <<selection, pin, helpers>>

\* RuntimeStore::activate_python: the manifest is renamed into the directory,
\* cleanup is disarmed, and only then the marker is removed.
ActivatePython(p) ==
  LET r == op[p].rt IN
  /\ At(p, {"install"}, "activate") /\ r \in Python
  /\ \/ /\ dir[r] = "pending"
        /\ dir' = [dir EXCEPT ![r] = "marked"] /\ Step(p, "unmark")
        /\ UNCHANGED <<locks, cache, inode>>
     \/ /\ dir[r] # "pending"
        /\ Step(p, "drop")
        /\ txn' = TxnWithout(p) /\ excl' = ExclWithout(p)
        /\ UNCHANGED <<dir, shared, inst, cache, inode>>
  /\ UNCHANGED <<selection, pin, helpers>>

\* Mutant: cleanup is not disarmed.
MUT_UnmarkPython(p) ==
  /\ At(p, {"install"}, "unmark")
  /\ dir' = [dir EXCEPT ![op[p].rt] = "whole"]
  /\ Step(p, "drop")
  /\ UNCHANGED <<selection, pin, locks, acquisition>>

UnmarkPython(p) ==
  /\ At(p, {"install"}, "unmark")
  /\ dir' = [dir EXCEPT ![op[p].rt] = "whole"]
  /\ Return(p)
  /\ UNCHANGED <<selection, pin, helpers>>

(***************************************************************************)
(* RuntimeStore::remove.                                                   *)
(***************************************************************************)
RemoveStart(p, r) == Begin(p, "remove", r, "txn")

\* Mutant: model Profiles are not consulted.
MUT_RemoveCheck(p) ==
  LET r == op[p].rt IN
  /\ At(p, {"remove"}, "check")
  /\ \/ /\ selection # r /\ HasManifest(r)
        /\ Step(p, "erase") /\ UNCHANGED <<locks, cache, inode>>
     \/ (selection = r \/ ~HasManifest(r)) /\ Return(p)
  /\ UNCHANGED <<files, helpers>>

\* Refused while a Model Profile or a selection names the runtime.
RemoveCheck(p) ==
  LET r == op[p].rt IN
  /\ At(p, {"remove"}, "check")
  /\ \/ /\ pin # r /\ selection # r /\ HasManifest(r)
        /\ Step(p, "erase") /\ UNCHANGED <<locks, cache, inode>>
     \/ (pin = r \/ selection = r \/ ~HasManifest(r)) /\ Return(p)
  /\ UNCHANGED <<files, helpers>>

\* One rename takes the directory out of the store; it is deleted in the trash.
RemoveErase(p) ==
  /\ At(p, {"remove"}, "erase")
  /\ dir' = [dir EXCEPT ![op[p].rt] = "none"]
  /\ Return(p)
  /\ UNCHANGED <<selection, pin, helpers>>

(***************************************************************************)
(* Selections are written inside the store transaction.                    *)
(***************************************************************************)
SelectStart(p, r) == Begin(p, "select", r, "txn")

SelectCheck(p) ==
  LET r == op[p].rt IN
  /\ At(p, {"select"}, "check")
  /\ \/ Visible(r) /\ Step(p, "write") /\ UNCHANGED <<locks, cache, inode>>
     \/ ~Visible(r) /\ Return(p)
  /\ UNCHANGED <<files, helpers>>

UnselectStart(p) == Begin(p, "unselect", None, "txn")

WriteSelection(p) ==
  /\ At(p, {"select", "unselect"}, "write")
  /\ selection' = op[p].rt
  /\ Return(p)
  /\ UNCHANGED <<dir, pin, helpers>>

(***************************************************************************)
(* set_profile_runtime: the pin is written under the runtime's shared      *)
(* lease, and only over the profile that was read.                         *)
(***************************************************************************)
PinStart(p, r) == Begin(p, "pin", r, "shared")
UnpinStart(p) == Begin(p, "unpin", None, "write")

PinLease(p) ==
  LET r == op[p].rt IN
  /\ At(p, {"pin"}, "shared")
  /\ \/ /\ excl[r] = Free
        /\ shared' = [shared EXCEPT ![r] = @ \cup {<<p, "pin">>}]
        /\ Step(p, "check") /\ UNCHANGED <<txn, excl, inst, cache, inode>>
     \/ excl[r] # Free /\ Return(p)
  /\ UNCHANGED <<files, helpers>>

PinCheck(p) ==
  LET r == op[p].rt IN
  /\ At(p, {"pin"}, "check")
  /\ \/ Visible(r) /\ Step(p, "write") /\ UNCHANGED <<locks, cache, inode>>
     \/ ~Visible(r) /\ Return(p)
  /\ UNCHANGED <<files, helpers>>

WritePin(p) ==
  /\ At(p, {"pin", "unpin"}, "write")
  /\ pin' = IF pin = op[p].seen THEN op[p].rt ELSE pin
  /\ Return(p)
  /\ UNCHANGED <<dir, selection, helpers>>

(***************************************************************************)
(* A backend resolves a runtime, takes its shared lease, launches it.      *)
(***************************************************************************)
LoadResolve(p, r) ==
  /\ "load" \in Does[p] /\ session[p] = "up" /\ load[p] = NoLoad
  /\ Visible(r)
  /\ load' = [load EXCEPT ![p] = [rt |-> r, pc |-> "resolved"]]
  /\ UNCHANGED <<files, session, op, locks, acquisition>>

\* Mutant: the backend starts without the lease.
MUT_LoadLease(p) ==
  LET r == load[p].rt IN
  /\ load[p].pc = "resolved"
  /\ load' = [load EXCEPT ![p].pc = "leased"]
  /\ UNCHANGED <<shared, files, session, op, txn, excl, inst, acquisition>>

LoadLease(p) ==
  LET r == load[p].rt IN
  /\ load[p].pc = "resolved"
  /\ \/ /\ excl[r] = Free
        /\ shared' = [shared EXCEPT ![r] = @ \cup {<<p, "load">>}]
        /\ load' = [load EXCEPT ![p].pc = "leased"]
     \/ excl[r] # Free /\ load' = [load EXCEPT ![p] = NoLoad] /\ UNCHANGED shared
  /\ UNCHANGED <<files, session, op, txn, excl, inst, acquisition>>

\* The resolved runtime is not looked up again: its entrypoint starts or does not.
LoadLaunch(p) ==
  /\ load[p].pc = "leased" /\ Visible(load[p].rt)
  /\ load' = [load EXCEPT ![p].pc = "running"]
  /\ UNCHANGED <<files, session, op, locks, acquisition>>

LoadEnd(p) ==
  /\ load[p].pc \in {"leased", "running"}
  /\ load' = [load EXCEPT ![p] = NoLoad]
  /\ shared' = SharedWithout(p, {"load"})
  /\ UNCHANGED <<files, session, op, txn, excl, inst, acquisition>>

(***************************************************************************)
(* clean_python_cache and the prune command.                               *)
(***************************************************************************)
CleanStart(p) == Begin(p, "clean", None, "cachelock")

CleanEnd(p) ==
  /\ At(p, {"clean"}, "wipe")
  /\ Return(p)
  /\ UNCHANGED <<files, helpers>>

\* The storage lease is taken exclusively: no session is open and none can open.
PruneStart(p) ==
  /\ "prune" \in Does[p] /\ inode < MaxPrunes
  /\ \A q \in Procs : session[q] = "down"
  /\ session' = [session EXCEPT ![p] = "prune"]
  /\ op' = [op EXCEPT ![p] = [Idle EXCEPT !.kind = "prune", !.pc = "locks"]]
  /\ UNCHANGED <<files, load, locks, acquisition>>

PruneReturn(p) ==
  /\ op' = [op EXCEPT ![p] = Idle]
  /\ session' = [session EXCEPT ![p] = "down"]

\* lock_existing_operations tries every lock file under the store.
PruneLocks(p) ==
  /\ At(p, {"prune"}, "locks")
  /\ IF /\ txn = Free
        /\ \A r \in Runtimes : excl[r] = Free /\ shared[r] = {} /\ inst[r] = Free
       THEN Goto(p, "plan") /\ UNCHANGED session
       ELSE PruneReturn(p)
  /\ UNCHANGED <<files, load, locks, acquisition>>

\* plan_runtime_prune: everything, or what is neither referenced nor the newest.
Superseded(r) ==
  /\ Visible(r) /\ selection # r /\ pin # r
  /\ Newer[r] # None /\ Visible(Newer[r])

PrunePlan(p) ==
  /\ At(p, {"prune"}, "plan")
  /\ \E all \in BOOLEAN :
       op' = [op EXCEPT ![p].pc = "execute",
                        ![p].kind = IF all THEN "reset" ELSE "prune",
                        ![p].todo = {"cache"} \cup
                          IF all THEN {"selections"} \cup {r \in Runtimes : dir[r] # "none"}
                          ELSE {r \in Runtimes : Superseded(r)}]
  /\ UNCHANGED <<files, session, load, locks, acquisition>>

\* Generated selections go first and the caches last.
PruneOrder(todo) ==
  IF "selections" \in todo THEN {"selections"}
  ELSE IF todo \cap Runtimes # {} THEN todo \cap Runtimes
  ELSE todo

\* remove_tree deletes in place: a directory is torn before it is gone.
PruneExecute(p) ==
  /\ At(p, {"prune", "reset"}, "execute")
  /\ \/ /\ op[p].todo = {}
        /\ PruneReturn(p) /\ UNCHANGED <<files, acquisition>>
     \/ \E t \in PruneOrder(op[p].todo) :
          /\ UNCHANGED <<session, pin, helpers, cache>>
          /\ \/ /\ t = "selections"
                /\ selection' = None
                /\ op' = [op EXCEPT ![p].todo = @ \ {t}]
                /\ UNCHANGED <<dir, inode>>
             \/ /\ t = "cache"
                /\ inode' = inode + 1
                /\ op' = [op EXCEPT ![p].todo = @ \ {t}]
                /\ UNCHANGED <<dir, selection>>
             \/ /\ t \in Runtimes
                /\ \E d \in Torn(dir[t]) : dir' = [dir EXCEPT ![t] = d]
                /\ op' = [op EXCEPT ![p].pc = "tear", ![p].rt = t]
                /\ UNCHANGED <<selection, inode>>
  /\ UNCHANGED <<load, locks>>

PruneTear(p) ==
  /\ At(p, {"prune", "reset"}, "tear")
  /\ dir' = [dir EXCEPT ![op[p].rt] = "none"]
  /\ op' = [op EXCEPT ![p].pc = "execute", ![p].todo = @ \ {op[p].rt}]
  /\ UNCHANGED <<selection, pin, session, load, locks, acquisition>>

(***************************************************************************)
(* The specification.                                                      *)
(***************************************************************************)
Starts(p) ==
  \/ \E r \in Runtimes : \/ InstallStart(p, r) \/ RemoveStart(p, r)
                         \/ SelectStart(p, r) \/ PinStart(p, r)
  \/ UnselectStart(p) \/ UnpinStart(p) \/ CleanStart(p) \/ PruneStart(p)

Advance(p) ==
  \/ InstallLease(p) \/ InstallRecheck(p) \/ CacheLock(p) \/ StagePython(p)
  \/ RecoverPython(p) \/ MarkPython(p) \/ Acquire(p) \/ Produce(p) \/ Probe(p)
  \/ Provision(p)
  \/ DropStaging(p) \/ EraseStaging(p) \/ AcquireTransaction(p)
  \/ AcquireExclusive(p) \/ Activate(p) \/ Publish(p) \/ ActivatePython(p)
  \/ UnmarkPython(p) \/ RemoveCheck(p) \/ RemoveErase(p) \/ SelectCheck(p)
  \/ WriteSelection(p) \/ PinLease(p) \/ PinCheck(p) \/ WritePin(p) \/ CleanEnd(p)
  \/ PruneLocks(p) \/ PrunePlan(p) \/ PruneExecute(p) \/ PruneTear(p)

Serve(p) ==
  \/ \E r \in Runtimes : LoadResolve(p, r)
  \/ LoadLease(p) \/ LoadLaunch(p) \/ LoadEnd(p)

Next ==
  \/ \E p \in Procs : \/ Open(p) \/ Close(p) \/ Crash(p) \/ Starts(p)
                      \/ Advance(p) \/ Cancel(p) \/ Serve(p)
  \/ \E h \in helpers : OrphanExits(h)

Spec == Init /\ [][Next]_vars

(***************************************************************************)
(* Properties.                                                             *)
(***************************************************************************)
\* What is in use is installed, although it was resolved before it was protected:
\* a running backend keeps its runtime under the shared lease (manager.rs:1531),
\* against every removal, prune and activation of any process, and the persisted
\* selection names an installed runtime also after a crash between any two steps
\* of a removal or a prune (engine prune.rs:17).
InUseIsInstalled ==
  /\ \A p \in Procs : load[p].pc = "running" => Visible(load[p].rt)
  /\ selection # None => Visible(selection)

\* A pin is written over an installed runtime and protects it from every removal
\* and every prune: only the reset of prune --all, which keeps Model Profiles,
\* leaves one dangling (store.rs:483).
PinIsInstalled ==
  [][(pin' # None /\ ~IsVisible(dir'[pin'])) =>
       \/ pin' = pin /\ ~Visible(pin)
       \/ \E p \in Procs : op[p].kind = "reset"]_vars

CacheUsers ==
  {<<h.ino, h>> : h \in helpers} \cup
  {u \in Inodes \X Procs : cache[u[1]] = u[2] /\ op[u[2]].pc = "wipe"}

\* While the acquisition lock keeps its file, one process at a time works in the
\* private Python caches, and a helper that outlived its parent counts
\* (supervisor.rs:140).
OneCacheUser == \A u, v \in CacheUsers : u[1] = v[1] => u = v

\* A runtime appears whole, with nobody else provisioning it under the
\* acquisition lock (store.rs:322), also over an interrupted acquisition, and it
\* disappears only by a step of a removal, a prune or a reset: an acquisition
\* never takes away an installed runtime, whatever it finds at its path.
AppearsWhole ==
  [][\A r \in Runtimes :
        /\ ~Visible(r) /\ IsVisible(dir'[r]) =>
             /\ dir'[r] \in {"whole", "marked"}
             /\ \A h \in helpers : h.rt = r => h.ino # inode
        /\ Visible(r) /\ ~IsVisible(dir'[r]) =>
             \E p \in Procs : /\ op[p].kind \in {"remove", "prune", "reset"}
                              /\ op'[p] # op[p]]_vars

\* Nobody waits with a lock in hand for a lock that may wait for him: an operation
\* that does not wait for the store transaction can always take its next step, so
\* the transaction, held or not, comes back (packs.rs:1395).
NoLockCycle ==
  \A p \in Procs :
    \/ op[p] = Idle \/ ENABLED Advance(p)
    \/ op[p].pc = "txn" /\ txn \in Procs \ {p} /\ op[txn].pc # "txn"
=============================================================================
