-------------------------- MODULE RuntimeStoreProofs --------------------------
(***************************************************************************)
(* Proofs about RuntimeStore: what is in use, selected or pinned stays     *)
(* installed, a runtime appears whole, and one process at a time works in  *)
(* the Python caches.                                                      *)
(*                                                                         *)
(* The argument is one of rely and guarantee: ProcInv says what a process  *)
(* holds and knows at each point of its operation, Guarantee what a step   *)
(* of one process leaves to the others.                                    *)
(***************************************************************************)
EXTENDS RuntimeStore, TLAPS

\* The points of each kind of operation.
PcsOf(kind, r) ==
  CASE kind = "install" ->
         {"lease", "recheck", "acquire", "txn", "excl", "activate"}
         \union IF r \in Python
                THEN {"cachelock", "stage", "recover", "mark", "provision", "unmark", "drop",
                      "erase"}
                ELSE {"produce", "probe", "publish"}
    [] kind = "remove" -> {"txn", "excl", "check", "erase"}
    [] kind = "select" -> {"txn", "check", "write"}
    [] kind = "unselect" -> {"txn", "write"}
    [] kind = "pin" -> {"shared", "check", "write"}
    [] kind = "unpin" -> {"write"}
    [] kind = "clean" -> {"cachelock", "wipe"}
    [] kind = "prune" -> {"locks", "plan", "execute", "tear"}
    [] kind = "reset" -> {"execute", "tear"}
    [] kind = "none" -> {"idle"}

Shape(o) ==
  /\ o.pc \in PcsOf(o.kind, o.rt)
  /\ o.kind = "none" => o = Idle
  /\ o.kind \in {"install", "remove", "select", "pin"} => o.rt \in Runtimes
  /\ o.kind \in {"unselect", "unpin"} => o.rt = None

SessionInv(p) ==
  /\ session[p] = "down" => op[p] = Idle
  /\ session[p] # "up" => load[p] = NoLoad
  /\ session[p] = "prune" <=> op[p].kind \in {"prune", "reset"}
  /\ session[p] = "prune" => \A q \in Procs \ {p} : session[q] = "down"

\* What an operation o of p holds.
Holds(p, o) ==
  /\ \/ o.kind \in {"install", "remove"} /\ o.pc \in {"excl", "activate", "publish", "unmark"}
     \/ o.kind \in {"remove", "select"} /\ o.pc = "check"
     \/ o.kind = "remove" /\ o.pc = "erase"
     \/ o.kind \in {"select", "unselect"} /\ o.pc = "write"
     => txn = p
  /\ \/ o.kind = "install" /\ o.pc \in {"activate", "publish", "unmark"}
     \/ o.kind = "remove" /\ o.pc \in {"check", "erase"}
     => excl[o.rt] = p
  /\ o.kind = "install" /\ o.pc # "lease" => inst[o.rt] = p
  /\ o.kind = "pin" /\ o.pc \in {"check", "write"} => <<p, "pin">> \in shared[o.rt]
  /\ o.kind = "install" /\ o.rt \in Python
       /\ o.pc \notin {"lease", "recheck", "cachelock", "drop", "erase"} => cache[inode] = p

\* What it knows of the store.
Knows(o) ==
  /\ o.kind = "install" /\ o.rt \in Python
       /\ o.pc \notin {"lease", "recheck", "cachelock", "stage", "unmark"} => ~Visible(o.rt)
  /\ o.kind = "remove" /\ o.pc = "erase" => pin # o.rt /\ selection # o.rt
  /\ o.kind \in {"select", "pin"} /\ o.pc = "write" => Visible(o.rt)
  /\ o.kind = "prune" /\ o.pc \in {"execute", "tear"} =>
       \A r \in o.todo \intersect Runtimes : r \notin {pin, selection}
  /\ o.kind = "reset" /\ "selections" \notin o.todo => selection = None
  /\ o.kind \in {"prune", "reset"} /\ (o.pc \in {"locks", "plan"} \/ "cache" \in o.todo) =>
       inode < MaxPrunes
  /\ o.kind \in {"prune", "reset"} /\ o.pc = "tear" =>
       o.rt \in o.todo \intersect Runtimes /\ selection # o.rt

\* A backend that has its lease, and one that runs.
Loads(p, l) ==
  /\ l.pc # "idle" => l.rt \in Runtimes
  /\ l.pc \in {"leased", "running"} => <<p, "load">> \in shared[l.rt]
  /\ l.pc = "running" => Visible(l.rt)

ProcInv(p) ==
  SessionInv(p) /\ Shape(op[p]) /\ Holds(p, op[p]) /\ Knows(op[p]) /\ Loads(p, load[p])

LeaseInv == \A r \in Runtimes : excl[r] # Free => shared[r] = {}

CacheInv ==
  /\ \A i \in Inodes, p \in Procs :
       cache[i] = p => i = inode /\ op[p].kind \in {"install", "clean"}
  /\ \A h \in helpers : h.rt \in Python /\ cache[h.ino] = h.parent
  /\ \A g, h \in helpers : g.ino = h.ino => g = h
  /\ \A h \in helpers, p \in Procs :
       h.parent = p => op[p].kind = "install" /\ op[p].pc = "provision"

SelectionInv == selection # None => Visible(selection)

IInv ==
  TypeOK /\ (\A p \in Procs : ProcInv(p)) /\ LeaseInv /\ CacheInv /\ SelectionInv

-----------------------------------------------------------------------------
(* Rely and guarantee.                                                     *)

\* What a step of p leaves to the others: what they do and hold, and what they
\* know of the store.
ProcsKept(p) ==
  \A q \in Procs \ {p} :
    /\ op'[q] = op[q] /\ load'[q] = load[q] /\ session'[q] = session[q]
    /\ session[q] # "prune"

LocksKept(p) ==
  \A q \in Procs \ {p} :
    /\ txn = q => txn' = q
    /\ \A r \in Runtimes : /\ excl[r] = q => excl'[r] = q
                           /\ inst[r] = q => inst'[r] = q
    /\ cache[inode] = q => cache'[inode] = q

LeasesKept(p) ==
  \A q \in Procs, r \in Runtimes :
    /\ <<q, "load">> \in shared[r] /\ load'[q] = load[q] /\ load[q].pc # "idle" =>
         <<q, "load">> \in shared'[r]
    /\ q # p /\ <<q, "pin">> \in shared[r] => <<q, "pin">> \in shared'[r]

FilesKept(p) ==
  /\ inode' = inode
  /\ \A r \in Runtimes :
       /\ Visible(r) /\ ~IsVisible(dir'[r]) => txn = p /\ excl[r] = p /\ selection # r
       /\ ~Visible(r) /\ IsVisible(dir'[r]) => inst[r] = p
  /\ selection' # selection =>
       txn = p /\ (selection' # None => IsVisible(dir'[selection']))
  /\ pin' \notin {pin, None} => pin' \in Runtimes /\ <<p, "pin">> \in shared[pin']

Guarantee(p) == ProcsKept(p) /\ LocksKept(p) /\ LeasesKept(p) /\ FilesKept(p)

\* Backends keep running on an installed runtime over such a step.
LEMMA LoadsKept ==
  ASSUME IInv, NEW p \in Procs, LeasesKept(p), FilesKept(p), NEW q \in Procs,
         load'[q] = load[q]
  PROVE  Loads(q, load[q])'
<1>1. Loads(q, load[q]) /\ LeaseInv
  BY DEF IInv, ProcInv
<1>2. p # Free
  BY StoreAssumption
<1> QED  BY <1>1, <1>2, ZenonT(60) DEF Loads, LeaseInv, LeasesKept, FilesKept, Visible

LEMMA Rely ==
  ASSUME IInv, NEW p \in Procs, Guarantee(p), NEW q \in Procs \ {p}
  PROVE  ProcInv(q)'
<1>1. /\ op'[q] = op[q] /\ load'[q] = load[q] /\ session'[q] = session[q]
      /\ session[q] # "prune" /\ inode' = inode
  BY DEF Guarantee, ProcsKept, FilesKept
<1>2. SessionInv(q) /\ Shape(op[q]) /\ Holds(q, op[q]) /\ Knows(op[q]) /\ LeaseInv
  BY DEF IInv, ProcInv
<1>3. SessionInv(q)' /\ Shape(op[q])'
  BY <1>1, <1>2 DEF SessionInv, Shape
<1>4. Holds(q, op[q])'
  <2>1. op[q].kind \in {"install", "remove", "select", "pin"} => op[q].rt \in Runtimes
    BY <1>2 DEF Shape
  <2>2. LocksKept(p) /\ LeasesKept(p)
    BY DEF Guarantee
  <2>3. op[q].kind = "install" => Holds(q, op[q])'
    BY <1>1, <1>2, <2>1, <2>2 DEF Holds, LocksKept
  <2>4. op[q].kind = "remove" => Holds(q, op[q])'
    BY <1>1, <1>2, <2>1, <2>2 DEF Holds, LocksKept
  <2>5. op[q].kind = "pin" => Holds(q, op[q])'
    BY <1>1, <1>2, <2>1, <2>2 DEF Holds, LeasesKept
  <2>6. op[q].kind \in {"select", "unselect"} => Holds(q, op[q])'
    BY <1>1, <1>2, <2>1, <2>2 DEF Holds, LocksKept
  <2> QED  BY <1>1, <2>3, <2>4, <2>5, <2>6 DEF Holds
<1>5. Knows(op[q])'
  <2>1. op[q].kind \notin {"prune", "reset"}
    BY <1>1, <1>2 DEF SessionInv
  <2>2. op[q].kind \in {"install", "remove", "select", "pin"} => op[q].rt \in Runtimes
    BY <1>2 DEF Shape
  <2>3. q # Free /\ None \notin Runtimes
    BY StoreAssumption
  <2>4. FilesKept(p)
    BY DEF Guarantee
  <2>5. op[q].kind = "install" => Knows(op[q])'
    BY <1>1, <1>2, <2>2, <2>4 DEF Knows, Holds, FilesKept, Visible
  <2>6. op[q].kind = "remove" => Knows(op[q])'
    BY <1>1, <1>2, <2>2, <2>3, <2>4 DEF Knows, Holds, FilesKept, LeaseInv, Visible
  <2>7. op[q].kind = "select" => Knows(op[q])'
    BY <1>1, <1>2, <2>2, <2>4 DEF Knows, Holds, FilesKept, Visible
  <2>8. op[q].kind = "pin" => Knows(op[q])'
    BY <1>1, <1>2, <2>2, <2>4, StoreAssumption DEF Knows, Holds, FilesKept, LeaseInv, Visible
  <2> QED  BY <1>1, <2>1, <2>5, <2>6, <2>7, <2>8 DEF Knows
<1>6. Loads(q, load[q])'
  BY <1>1, LoadsKept DEF Guarantee
<1> QED  BY <1>1, <1>3, <1>4, <1>5, <1>6 DEF ProcInv

LEMMA SelectionKept ==
  ASSUME IInv, NEW p \in Procs, FilesKept(p)
  PROVE  SelectionInv'
BY DEF IInv, SelectionInv, FilesKept, TypeOK, Visible

\* A step of a session: what is left to show is what it is about.
LEMMA ActSound ==
  ASSUME IInv, NEW p \in Procs, Guarantee(p), TypeOK', LeaseInv', CacheInv', ProcInv(p)'
  PROVE  IInv'
BY Rely, SelectionKept DEF Guarantee, IInv

\* Nothing else runs beside a prune.
LEMMA NoPrune ==
  ASSUME IInv, NEW p \in Procs, session[p] # "down"
  PROVE  \A q \in Procs \ {p} : session[q] # "prune"
BY DEF IInv, ProcInv, SessionInv

LEMMA Moved ==
  ASSUME TypeOK, NEW p \in Procs, NEW pc \in Pcs, Goto(p, pc)
  PROVE  /\ op' \in [Procs -> [kind : AllKinds \union {"none"}, rt : Runtimes \union {None},
                               pc : Pcs, seen : Runtimes \union {None}, todo : SUBSET Targets]]
         /\ op'[p].pc = pc /\ op'[p].kind = op[p].kind /\ op'[p].rt = op[p].rt
         /\ op'[p].todo = op[p].todo
         /\ \A q \in Procs \ {p} : op'[q] = op[q]
BY ZenonT(60) DEF TypeOK, Goto

LEMMA Up ==
  ASSUME IInv, NEW p \in Procs, op[p].kind \notin {"none", "prune", "reset"}
  PROVE  session[p] = "up"
BY DEF IInv, ProcInv, SessionInv, TypeOK, Idle

FilesType ==
  /\ dir \in [Runtimes -> DirStates]
  /\ selection \in Runtimes \union {None}
  /\ pin \in Runtimes \union {None}

LocksType ==
  /\ txn \in Procs \union {Free}
  /\ excl \in [Runtimes -> Procs \union {Free}]
  /\ shared \in [Runtimes -> SUBSET (Procs \X {"load", "pin"})]
  /\ inst \in [Runtimes -> Procs \union {Free}]

CacheType ==
  /\ inode \in Inodes
  /\ cache \in [Inodes -> Procs \union {Free, Orphan}]
  /\ helpers \subseteq [rt : Runtimes, ino : Inodes, parent : Procs \union {Orphan}]

LEMMA Types == TypeOK => FilesType /\ LocksType /\ CacheType
BY DEF TypeOK, FilesType, LocksType, CacheType

LEMMA IdleType ==
  /\ Idle \in [kind : AllKinds \union {"none"}, rt : Runtimes \union {None},
               pc : Pcs, seen : Runtimes \union {None}, todo : SUBSET Targets]
  /\ Idle.kind = "none" /\ Shape(Idle)
BY DEF Idle, Pcs, Shape, PcsOf

LEMMA NoLoadType ==
  /\ NoLoad \in [rt : Runtimes \union {None}, pc : {"idle", "resolved", "leased", "running"}]
  /\ NoLoad.pc = "idle"
BY DEF NoLoad

\* An idle process holds and knows nothing.
LEMMA IdleHolds == \A p : Holds(p, Idle) /\ Knows(Idle)
BY DEF Idle, Holds, Knows

\* An operation that returns, whatever it did to the store in its last step.
LEMMA ReturnSound ==
  ASSUME IInv, NEW p \in Procs, session[p] = "up", Return(p), FilesKept(p), FilesType',
         helpers' \subseteq helpers, \A h \in helpers' : h.parent # p
  PROVE  IInv'
<1>1. TypeOK /\ LocksType /\ CacheType
  BY Types DEF IInv
<1>2. /\ op' \in [Procs -> [kind : AllKinds \union {"none"}, rt : Runtimes \union {None},
                            pc : Pcs, seen : Runtimes \union {None}, todo : SUBSET Targets]]
      /\ op'[p] = Idle /\ \A q \in Procs \ {p} : op'[q] = op[q]
  BY <1>1, IdleType DEF Return, TypeOK
<1>3. LocksType'
  <2>1. txn' \in Procs \union {Free}
    BY <1>1 DEF Return, TxnWithout, LocksType
  <2>2. excl' \in [Runtimes -> Procs \union {Free}]
    BY <1>1 DEF Return, ExclWithout, LocksType
  <2>3. inst' \in [Runtimes -> Procs \union {Free}]
    BY <1>1 DEF Return, InstWithout, LocksType
  <2>4. shared' \in [Runtimes -> SUBSET (Procs \X {"load", "pin"})]
    BY <1>1 DEF Return, SharedWithout, LocksType
  <2> QED  BY <2>1, <2>2, <2>3, <2>4 DEF LocksType
<1>4. CacheType'
  BY <1>1 DEF Return, CacheWithout, CacheType
<1>5. TypeOK'
  BY <1>1, <1>2, <1>3, <1>4 DEF Return, TypeOK, LocksType, CacheType, FilesType
<1>6. ProcsKept(p)
  BY <1>2, NoPrune DEF Return, ProcsKept
<1>7. LocksKept(p)
  BY <1>1 DEF Return, LocksKept, TxnWithout, ExclWithout, InstWithout, CacheWithout, CacheType
<1>8. LeasesKept(p)
  BY <1>1 DEF Return, LeasesKept, SharedWithout
<1>9. LeaseInv'
  BY DEF IInv, LeaseInv, Return, ExclWithout, SharedWithout
<1>10. CacheInv'
  <2>1. /\ inode' = inode
        /\ \A i \in Inodes : cache'[i] = IF cache[i] = p THEN Free ELSE cache[i]
    BY DEF Return, CacheWithout
  <2>2. \A q \in Procs : q # Free
    BY StoreAssumption
  <2>3. \A h \in helpers : h.ino \in Inodes
    BY <1>1 DEF CacheType
  <2>4. \A i \in Inodes, q \in Procs :
          cache'[i] = q => i = inode' /\ op'[q].kind \in {"install", "clean"}
    BY <1>2, <2>1, <2>2 DEF IInv, CacheInv
  <2>5. \A h \in helpers' : h.rt \in Python /\ cache'[h.ino] = h.parent
    BY <2>1, <2>3 DEF IInv, CacheInv
  <2>6. \A g, h \in helpers' : g.ino = h.ino => g = h
    BY DEF IInv, CacheInv
  <2>7. \A h \in helpers', q \in Procs :
          h.parent = q => op'[q].kind = "install" /\ op'[q].pc = "provision"
    BY <1>2 DEF IInv, CacheInv
  <2> QED  BY <2>4, <2>5, <2>6, <2>7 DEF CacheInv
<1>11. ProcInv(p)'
  <2>1. Loads(p, load[p])'
    BY <1>8, LoadsKept DEF Return
  <2>2. SessionInv(p)'
    BY <1>2, IdleType DEF Return, SessionInv
  <2>3. Shape(op[p])' /\ Holds(p, op[p])' /\ Knows(op[p])'
    <3>1. Shape(Idle)' /\ Holds(p, Idle)' /\ Knows(Idle)'
      BY DEF Idle, Shape, PcsOf, Holds, Knows
    <3> QED  BY <1>2, <3>1
  <2> QED  BY <2>1, <2>2, <2>3 DEF ProcInv
<1> QED  BY <1>5, <1>6, <1>7, <1>8, <1>9, <1>10, <1>11, ActSound DEF Guarantee

LEMMA NoHelper ==
  ASSUME IInv, NEW p \in Procs, op[p].pc # "provision"
  PROVE  \A h \in helpers : h.parent # p
BY DEF IInv, CacheInv

LEMMA FilesStay ==
  ASSUME IInv, NEW p, UNCHANGED <<files, inode>>
  PROVE  FilesKept(p) /\ FilesType'
BY Types DEF FilesKept, FilesType, files, Visible, IInv

\* An operation that gives up.
LEMMA GiveUp ==
  ASSUME IInv, NEW p \in Procs, op[p].kind \notin {"none", "prune", "reset"},
         op[p].pc # "provision", Return(p), UNCHANGED <<files, helpers>>
  PROVE  IInv'
BY Up, FilesStay, NoHelper, ReturnSound DEF Return

\* An operation that goes on.
LEMMA GoOn ==
  ASSUME IInv, NEW p \in Procs, op[p].kind \notin {"none", "prune", "reset"},
         NEW pc \in Pcs, pc \in PcsOf(op[p].kind, op[p].rt), Step(p, pc),
         LocksKept(p), LeasesKept(p), FilesKept(p),
         FilesType', LocksType', CacheType', LeaseInv', CacheInv',
         Holds(p, op[p])', Knows(op[p])'
  PROVE  IInv'
<1>1. TypeOK
  BY DEF IInv
<1>2. Goto(p, pc) /\ UNCHANGED <<session, load>>
  BY DEF Step
<1>4. TypeOK'
  BY <1>1, <1>2, Moved DEF TypeOK, FilesType, LocksType, CacheType
<1>5. ProcsKept(p)
  BY <1>1, <1>2, Moved, NoPrune, Up DEF ProcsKept
<1>6. ProcInv(p)'
  <2>1. SessionInv(p) /\ Shape(op[p])
    BY DEF IInv, ProcInv
  <2>2. op'[p].kind = op[p].kind /\ op'[p].rt = op[p].rt /\ op'[p].pc = pc
    BY <1>1, <1>2, Moved
  <2>3. SessionInv(p)'
    BY <1>2, <2>1, <2>2, Up DEF SessionInv
  <2>4. Shape(op[p])'
    BY <2>1, <2>2 DEF Shape
  <2>5. Loads(p, load[p])'
    BY <1>2, LoadsKept
  <2> QED  BY <2>3, <2>4, <2>5 DEF ProcInv
<1> QED  BY <1>4, <1>5, <1>6, ActSound DEF Guarantee

\* The operation that goes on is the same one at its next point.
LEMMA SameOp ==
  ASSUME IInv, NEW p \in Procs, NEW pc \in Pcs, Step(p, pc)
  PROVE  /\ op'[p].kind = op[p].kind /\ op'[p].rt = op[p].rt /\ op'[p].pc = pc
         /\ op'[p].todo = op[p].todo
         /\ \A q \in Procs \ {p} : op'[q] = op[q]
BY Moved DEF Step, IInv

LEMMA LocksStay ==
  ASSUME IInv, NEW p, UNCHANGED <<locks, cache, inode>>, UNCHANGED load
  PROVE  LocksKept(p) /\ LeasesKept(p) /\ LocksType' /\ LeaseInv'
BY Types DEF LocksKept, LeasesKept, LocksType, locks, IInv, LeaseInv

LEMMA LeaseStay ==
  ASSUME IInv, UNCHANGED <<excl, shared>>
  PROVE  LeaseInv'
BY DEF IInv, LeaseInv

\* A step of an operation that has no helper and starts none.
LEMMA CacheStays ==
  ASSUME IInv, NEW p \in Procs, NEW pc \in Pcs, Step(p, pc), op[p].pc # "provision",
         UNCHANGED acquisition
  PROVE  CacheInv' /\ CacheType'
<1>1. /\ op'[p].kind = op[p].kind
      /\ \A q \in Procs \ {p} : op'[q] = op[q]
  BY SameOp
<1>2. \A h \in helpers : h.parent # p
  BY NoHelper
<1>3. inode' = inode /\ cache' = cache /\ helpers' = helpers
  BY DEF acquisition
<1>4. \A i \in Inodes, q \in Procs :
        cache'[i] = q => i = inode' /\ op'[q].kind \in {"install", "clean"}
  BY <1>1, <1>3 DEF IInv, CacheInv
<1>5. \A h \in helpers', q \in Procs :
        h.parent = q => op'[q].kind = "install" /\ op'[q].pc = "provision"
  BY <1>1, <1>2, <1>3 DEF IInv, CacheInv
<1> QED  BY <1>3, <1>4, <1>5, Types DEF IInv, CacheInv, CacheType

\* An operation that only looks, and goes on.
LEMMA LookOn ==
  ASSUME IInv, NEW p \in Procs, op[p].kind \notin {"none", "prune", "reset"},
         op[p].pc # "provision",
         NEW pc \in Pcs, pc \in PcsOf(op[p].kind, op[p].rt), Step(p, pc),
         UNCHANGED <<files, locks, acquisition>>,
         Holds(p, op[p])', Knows(op[p])'
  PROVE  IInv'
<1>1. UNCHANGED <<files, locks, cache, inode>> /\ UNCHANGED load
  BY DEF acquisition, Step
<1> QED  BY <1>1, FilesStay, LocksStay, CacheStays, GoOn

LEMMA ProcFacts ==
  ASSUME IInv, NEW p \in Procs
  PROVE  Shape(op[p]) /\ Holds(p, op[p]) /\ Knows(op[p])
BY DEF IInv, ProcInv

-----------------------------------------------------------------------------
(* Installing.                                                             *)

LEMMA LeaseSound == ASSUME IInv, NEW p \in Procs, InstallLease(p) PROVE IInv'
<1> DEFINE r == op[p].rt
<1>1. op[p].kind = "install" /\ op[p].pc = "lease" /\ r \in Runtimes
  BY ProcFacts DEF InstallLease, At, Shape
<1>2. CASE Return(p)
  BY <1>1, <1>2, GiveUp DEF InstallLease
<1>3. CASE /\ inst[r] = Free /\ inst' = [inst EXCEPT ![r] = p] /\ Step(p, "recheck")
           /\ UNCHANGED <<txn, excl, shared, cache, inode>>
  <2>1. "recheck" \in Pcs /\ "recheck" \in PcsOf(op[p].kind, r)
    BY <1>1 DEF Pcs, PcsOf
  <2>2. op'[p].kind = "install" /\ op'[p].pc = "recheck" /\ op'[p].rt = r
    BY <1>1, <1>3, <2>1, SameOp
  <2>3. Free \notin Procs /\ LocksType
    BY StoreAssumption, Types DEF IInv
  <2>4. LocksKept(p) /\ LeasesKept(p) /\ LocksType'
    BY <1>1, <1>3, <2>3 DEF LocksKept, LeasesKept, LocksType
  <2>5. FilesKept(p) /\ FilesType'
    BY <1>3, FilesStay DEF InstallLease
  <2>6. CacheInv' /\ CacheType'
    BY <1>1, <1>3, <2>1, CacheStays DEF InstallLease, acquisition
  <2>7. Holds(p, op[p])' /\ Knows(op[p])'
    BY <1>1, <1>3, <2>2, <2>3 DEF Holds, Knows, LocksType
  <2> QED  BY <1>1, <1>3, <2>1, <2>4, <2>5, <2>6, <2>7, LeaseStay, GoOn
<1> QED  BY <1>2, <1>3 DEF InstallLease

LEMMA RecheckSound == ASSUME IInv, NEW p \in Procs, InstallRecheck(p) PROVE IInv'
<1>1. /\ op[p].kind = "install" /\ op[p].pc = "recheck" /\ op[p].rt \in Runtimes
      /\ Holds(p, op[p])
  BY ProcFacts DEF InstallRecheck, At, Shape
<1>2. CASE Return(p)
  BY <1>1, <1>2, GiveUp DEF InstallRecheck
<1>3. ASSUME NEW pc \in {"cachelock", "acquire"}, Step(p, pc),
             op[p].rt \in Python <=> pc = "cachelock",
             UNCHANGED <<locks, cache, inode>>
      PROVE  IInv'
  <2>1. pc \in Pcs /\ pc \in PcsOf(op[p].kind, op[p].rt)
    BY <1>1, <1>3 DEF Pcs, PcsOf
  <2>2. op'[p].kind = "install" /\ op'[p].pc = pc /\ op'[p].rt = op[p].rt
    BY <1>1, <1>3, <2>1, SameOp
  <2>3. Holds(p, op[p])' /\ Knows(op[p])'
    BY <1>1, <1>3, <2>2 DEF Holds, Knows, locks
  <2> QED  BY <1>1, <1>3, <2>1, <2>3, LookOn DEF InstallRecheck, acquisition
<1> QED  BY <1>2, <1>3 DEF InstallRecheck

\* The lock's file has no helper when nobody holds it.
LEMMA CacheLockSound == ASSUME IInv, NEW p \in Procs, CacheLock(p) PROVE IInv'
<1>1. /\ op[p].kind \in {"install", "clean"} /\ op[p].pc = "cachelock"
      /\ Shape(op[p]) /\ Holds(p, op[p])
  BY ProcFacts DEF CacheLock, At
<1>2. CASE Return(p)
  BY <1>1, <1>2, GiveUp DEF CacheLock
<1>3. ASSUME NEW pc \in {"wipe", "stage"}, Step(p, pc), op[p].kind = "clean" <=> pc = "wipe",
             cache[inode] = Free, cache' = [cache EXCEPT ![inode] = p],
             UNCHANGED <<locks, inode>>
      PROVE  IInv'
  <2>1. pc \in Pcs /\ pc \in PcsOf(op[p].kind, op[p].rt)
    BY <1>1, <1>3 DEF Pcs, PcsOf, Shape
  <2>2. /\ op'[p].kind = op[p].kind /\ op'[p].pc = pc /\ op'[p].rt = op[p].rt
        /\ \A q \in Procs \ {p} : op'[q] = op[q]
    BY <1>1, <1>3, <2>1, SameOp
  <2>3. Free \notin Procs \union {Orphan} /\ LocksType /\ CacheType
    BY StoreAssumption, Types DEF IInv
  <2>4. LocksKept(p) /\ LeasesKept(p) /\ LocksType' /\ CacheType'
    BY <1>3, <2>3 DEF CacheLock, LocksKept, LeasesKept, LocksType, CacheType, locks,
                                    Step
  <2>5. FilesKept(p) /\ FilesType'
    BY <1>3, FilesStay DEF CacheLock
  <2>6. \A h \in helpers : h.ino # inode /\ h.parent # p
    <3>1. \A h \in helpers : h.parent \in Procs \union {Orphan}
      BY <2>3 DEF CacheType
    <3>2. \A h \in helpers : cache[h.ino] = h.parent
      BY DEF IInv, CacheInv
    <3> QED  BY <1>1, <1>3, <2>3, <3>1, <3>2, NoHelper
  <2>7. \A i \in Inodes : cache'[i] = IF i = inode THEN p ELSE cache[i]
    BY <1>3, <2>3 DEF CacheType
  <2>8. CacheInv'
    <3>1. helpers' = helpers
      BY DEF CacheLock
    <3>2. \A i \in Inodes, q \in Procs :
            cache'[i] = q => i = inode' /\ op'[q].kind \in {"install", "clean"}
      BY <1>1, <1>3, <2>2, <2>7 DEF IInv, CacheInv
    <3>3. \A h \in helpers : h.rt \in Python /\ cache'[h.ino] = h.parent
      BY <2>3, <2>6, <2>7 DEF IInv, CacheInv, CacheType
    <3>4. \A h \in helpers, q \in Procs :
            h.parent = q => op'[q].kind = "install" /\ op'[q].pc = "provision"
      BY <2>2, <2>6 DEF IInv, CacheInv
    <3> QED  BY <3>1, <3>2, <3>3, <3>4 DEF IInv, CacheInv
  <2>9. Holds(p, op[p])' /\ Knows(op[p])'
    BY <1>1, <1>3, <2>2, <2>3, <2>7 DEF Holds, Knows, locks, CacheType
  <2> QED  BY <1>1, <1>3, <2>1, <2>4, <2>5, <2>8, <2>9, LeaseStay, GoOn DEF locks
<1> QED  BY <1>2, <1>3 DEF CacheLock

\* A step of an installation that works on its directory: it is not installed,
\* before or after, and no one else installs it.
LEMMA WorkOn ==
  ASSUME IInv, NEW p \in Procs, op[p].kind = "install", op[p].rt \in Python,
         op[p].pc \in {"stage", "recover", "mark", "drop", "erase"},
         NEW pc \in {"recover", "mark", "acquire", "erase"}, Step(p, pc),
         NEW d \in DirStates, ~IsVisible(d), ~Visible(op[p].rt),
         dir' = [dir EXCEPT ![op[p].rt] = d],
         UNCHANGED <<selection, pin, locks, acquisition>>,
         op[p].pc \in {"drop", "erase"} => pc = "erase"
  PROVE  IInv'
<1> DEFINE r == op[p].rt
<1>1. Shape(op[p]) /\ Holds(p, op[p]) /\ r \in Runtimes /\ TypeOK
  BY ProcFacts DEF IInv, Shape
<1>2. pc \in Pcs /\ pc \in PcsOf("install", r)
  BY DEF Pcs, PcsOf
<1>9. op'[p].kind = "install" /\ op'[p].pc = pc /\ op'[p].rt = r
  BY <1>2, SameOp
<1>3. \A x \in Runtimes : dir'[x] = IF x = r THEN d ELSE dir[x]
  BY <1>1 DEF TypeOK
<1>4. FilesKept(p)
  BY <1>1, <1>3 DEF FilesKept, Visible, acquisition
<1>5. FilesType'
  BY <1>1 DEF TypeOK, FilesType
<1>6. Holds(p, op[p])'
  BY <1>1, <1>9 DEF Holds, locks, acquisition
<1>7. Knows(op[p])'
  BY <1>1, <1>3, <1>9 DEF Knows, Visible
<1>8. UNCHANGED <<locks, cache, inode>> /\ UNCHANGED load
  BY DEF acquisition, Step
<1> QED  BY <1>2, <1>4, <1>5, <1>6, <1>7, <1>8, LocksStay, CacheStays, GoOn

LEMMA TornInvisible ==
  \A d \in DirStates : Torn(d) \subseteq DirStates /\ (~IsVisible(d) => \A t \in Torn(d) : ~IsVisible(t))
BY DEF DirStates, Torn, IsVisible

LEMMA StageSound == ASSUME IInv, NEW p \in Procs, StagePython(p) PROVE IInv'
<1> DEFINE r == op[p].rt
<1>1. op[p].kind = "install" /\ op[p].pc = "stage" /\ r \in Python
  BY ProcFacts DEF StagePython, At, Shape, PcsOf
<1>2. r \in Runtimes /\ dir[r] \in DirStates
  BY <1>1, StoreAssumption DEF IInv, TypeOK
<1>3. CASE Return(p) /\ UNCHANGED dir
  BY <1>1, <1>3, GiveUp DEF StagePython, files
<1>4. CASE /\ dir[r] = "none"
           /\ dir' = [dir EXCEPT ![r] = "bare"] /\ Step(p, "mark")
           /\ UNCHANGED <<locks, cache, inode>>
  BY <1>1, <1>4, WorkOn DEF StagePython, IsVisible, Visible, DirStates, acquisition
<1>5. CASE /\ dir[r] = "pending"
           /\ \E d \in Torn(dir[r]) : dir' = [dir EXCEPT ![r] = d]
           /\ Step(p, "recover")
           /\ UNCHANGED <<locks, cache, inode>>
  <2>1. PICK d \in Torn(dir[r]) : dir' = [dir EXCEPT ![r] = d]
    BY <1>5
  <2>2. d \in DirStates /\ ~IsVisible(d) /\ ~Visible(r)
    BY <1>2, <1>5, TornInvisible DEF IsVisible, Visible
  <2> QED  BY <1>1, <1>5, <2>1, <2>2, WorkOn DEF StagePython, acquisition
<1> QED  BY <1>3, <1>4, <1>5 DEF StagePython

LEMMA MarkSound ==
  ASSUME IInv, NEW p \in Procs, RecoverPython(p) \/ MarkPython(p) PROVE IInv'
<1>1. /\ op[p].kind = "install" /\ op[p].pc \in {"recover", "mark"} /\ op[p].rt \in Python
      /\ ~Visible(op[p].rt)
  BY ProcFacts DEF RecoverPython, MarkPython, At, Shape, PcsOf, Knows
<1>2. CASE RecoverPython(p)
  BY <1>1, <1>2, WorkOn DEF RecoverPython, IsVisible, DirStates
<1>3. CASE MarkPython(p)
  BY <1>1, <1>3, WorkOn DEF MarkPython, IsVisible, DirStates
<1> QED  BY <1>2, <1>3

\* The helper inherits the lock of the installation that starts it.
LEMMA AcquireSound == ASSUME IInv, NEW p \in Procs, Acquire(p) PROVE IInv'
<1> DEFINE r == op[p].rt
<1>1. /\ op[p].kind = "install" /\ op[p].pc = "acquire" /\ r \in Runtimes
      /\ Shape(op[p]) /\ Holds(p, op[p]) /\ Knows(op[p])
  BY ProcFacts DEF Acquire, At, Shape
<1>2. CASE Return(p) /\ UNCHANGED helpers
  BY <1>1, <1>2, GiveUp DEF Acquire
<1>3. ASSUME NEW pc \in {"produce", "drop"}, Step(p, pc), r \in Python <=> pc = "drop",
             UNCHANGED <<locks, acquisition>>
      PROVE  IInv'
  <2>1. pc \in Pcs /\ pc \in PcsOf("install", r)
    BY <1>3 DEF Pcs, PcsOf
  <2>2. op'[p].kind = "install" /\ op'[p].pc = pc /\ op'[p].rt = r
    BY <1>1, <1>3, <2>1, SameOp
  <2>3. Holds(p, op[p])' /\ Knows(op[p])'
    BY <1>1, <1>3, <2>2 DEF Holds, Knows, Acquire, files, locks, acquisition, Visible
  <2> QED  BY <1>1, <1>3, <2>1, <2>3, LookOn DEF Acquire
<1>4. ASSUME r \in Python, Step(p, "provision"), UNCHANGED <<locks, cache, inode>>,
             NEW i \in Inodes, cache[i] = p,
             helpers' = helpers \union {[rt |-> r, ino |-> i, parent |-> p]}
      PROVE  IInv'
  <2> DEFINE new == [rt |-> r, ino |-> i, parent |-> p]
  <2>1. "provision" \in Pcs /\ "provision" \in PcsOf("install", r)
    BY <1>4 DEF Pcs, PcsOf
  <2>2. /\ op'[p].kind = "install" /\ op'[p].pc = "provision" /\ op'[p].rt = r
        /\ \A q \in Procs \ {p} : op'[q] = op[q]
    BY <1>1, <1>4, <2>1, SameOp
  <2>3. CacheType'
    BY <1>1, <1>4, Types DEF CacheType, IInv
  <2>4. \A h \in helpers : h.parent # p /\ h.ino # i
    BY <1>1, <1>4, NoHelper DEF IInv, CacheInv
  <2>5. CacheInv'
    <3>1. \A j \in Inodes, q \in Procs :
            cache'[j] = q => j = inode' /\ op'[q].kind \in {"install", "clean"}
      BY <1>4, <2>2 DEF IInv, CacheInv
    <3>2. \A h \in helpers' : h.rt \in Python /\ cache'[h.ino] = h.parent
      BY <1>4 DEF IInv, CacheInv
    <3>3. \A g, h \in helpers' : g.ino = h.ino => g = h
      BY <1>4, <2>4 DEF IInv, CacheInv
    <3>4. \A h \in helpers', q \in Procs :
            h.parent = q => op'[q].kind = "install" /\ op'[q].pc = "provision"
      BY <1>4, <2>2, <2>4 DEF IInv, CacheInv
    <3> QED  BY <3>1, <3>2, <3>3, <3>4 DEF CacheInv
  <2>6. Holds(p, op[p])' /\ Knows(op[p])'
    BY <1>1, <1>4, <2>2 DEF Holds, Knows, Acquire, files, locks, Visible
  <2>7. FilesKept(p) /\ FilesType' /\ UNCHANGED load
    BY <1>4, FilesStay DEF Acquire, Step
  <2> QED  BY <1>1, <1>4, <2>1, <2>3, <2>5, <2>6, <2>7, LocksStay, GoOn
<1> QED  BY <1>2, <1>3, <1>4 DEF Acquire

LEMMA LookSound ==
  ASSUME IInv, NEW p \in Procs,
         Produce(p) \/ Probe(p) \/ RemoveCheck(p) \/ SelectCheck(p) \/ PinCheck(p)
  PROVE  IInv'
<1>1. /\ Shape(op[p]) /\ Holds(p, op[p]) /\ Knows(op[p])
      /\ op[p].kind \in {"install", "remove", "select", "pin"}
      /\ op[p].pc \in {"produce", "probe", "check"}
  BY ProcFacts DEF Produce, Probe, RemoveCheck, SelectCheck, PinCheck, At
<1>2. CASE Return(p)
  BY <1>1, <1>2, GiveUp DEF Produce, Probe, RemoveCheck, SelectCheck, PinCheck
<1>3. ASSUME NEW pc \in {"probe", "txn", "erase", "write"}, Step(p, pc),
             UNCHANGED <<locks, cache, inode>>, UNCHANGED <<files, helpers>>,
             pc \in PcsOf(op[p].kind, op[p].rt), op[p].kind = "install" => op[p].rt \notin Python,
             Knows([op[p] EXCEPT !.pc = pc])
      PROVE  IInv'
  <2>1. pc \in Pcs
    BY <1>3 DEF Pcs
  <2>2. op'[p].kind = op[p].kind /\ op'[p].pc = pc /\ op'[p].rt = op[p].rt
    BY <1>3, <2>1, SameOp
  <2>3. Holds(p, op[p])'
    <3>1. op[p].kind # "install" => op[p].pc = "check"
      BY <1>1 DEF Shape, PcsOf
    <3>2. CASE op[p].kind = "install"
      BY <1>1, <1>3, <2>2, <3>2 DEF Holds, locks
    <3>3. CASE op[p].kind \in {"remove", "select", "pin"}
      <4>1. pc \in {"txn", "erase", "write"}
        BY <1>3, <3>3 DEF PcsOf
      <4> QED  BY <1>1, <1>3, <2>2, <3>1, <3>3, <4>1 DEF Holds, locks
    <3> QED  BY <1>1, <3>2, <3>3
  <2>4. op'[p] = [op[p] EXCEPT !.pc = pc]
    BY <1>3 DEF Step, Goto, IInv, TypeOK
  <2>5. Knows(op[p])'
    BY <1>1, <1>3, <2>2, <2>4 DEF Knows, files, Visible
  <2> QED  BY <1>1, <1>3, <2>1, <2>3, <2>5, LookOn DEF acquisition
<1>4. op[p] \in [kind : AllKinds \union {"none"}, rt : Runtimes \union {None},
                 pc : Pcs, seen : Runtimes \union {None}, todo : SUBSET Targets]
  BY DEF IInv, TypeOK
<1>5. CASE Produce(p)
  <2>1. op[p].rt \notin Python
    BY <1>1, <1>5 DEF Produce, At, Shape, PcsOf
  <2> QED  BY <1>2, <1>3, <1>4, <1>5, <2>1 DEF Produce, At, PcsOf, Knows
<1>6. CASE Probe(p)
  <2>1. op[p].rt \notin Python
    BY <1>1, <1>6 DEF Probe, At, Shape, PcsOf
  <2> QED  BY <1>2, <1>3, <1>4, <1>6, <2>1 DEF Probe, At, PcsOf, Knows
<1>7. CASE RemoveCheck(p)
  BY <1>2, <1>3, <1>4, <1>7 DEF RemoveCheck, At, PcsOf, Knows
<1>8. CASE SelectCheck(p)
  BY <1>2, <1>3, <1>4, <1>8 DEF SelectCheck, At, PcsOf, Knows
<1>9. CASE PinCheck(p)
  BY <1>2, <1>3, <1>4, <1>9 DEF PinCheck, At, PcsOf, Knows
<1> QED  BY <1>5, <1>6, <1>7, <1>8, <1>9

\* A helper that ends with its parent's step gives the lock back to the parent.
LEMMA CacheLeaves ==
  ASSUME IInv, NEW p \in Procs, NEW pc \in Pcs, Step(p, pc), op[p].kind = "install",
         helpers' = {h \in helpers : h.parent # p}, UNCHANGED inode,
         cache' = cache \/ cache' = CacheWithout(p)
  PROVE  CacheInv' /\ CacheType'
<1>1. op'[p].kind = "install" /\ \A q \in Procs \ {p} : op'[q] = op[q]
  BY SameOp
<1>2. CacheType /\ Free \notin Procs
  BY StoreAssumption, Types DEF IInv
<1>3. CacheType'
  BY <1>2 DEF CacheType, CacheWithout
<1>4. \A i \in Inodes : cache'[i] = cache[i] \/ (cache[i] = p /\ cache'[i] = Free)
  BY DEF CacheWithout
<1>5. \A i \in Inodes, q \in Procs :
        cache'[i] = q => i = inode' /\ op'[q].kind \in {"install", "clean"}
  BY <1>1, <1>2, <1>4 DEF IInv, CacheInv
<1>6. \A h \in helpers' : h.rt \in Python /\ cache'[h.ino] = h.parent
  <2>1. \A h \in helpers : h.ino \in Inodes
    BY <1>2 DEF CacheType
  <2> QED  BY <1>4, <2>1 DEF IInv, CacheInv
<1>7. \A g, h \in helpers' : g.ino = h.ino => g = h
  BY DEF IInv, CacheInv
<1>8. \A h \in helpers', q \in Procs :
        h.parent = q => op'[q].kind = "install" /\ op'[q].pc = "provision"
  BY <1>1 DEF IInv, CacheInv
<1> QED  BY <1>3, <1>5, <1>6, <1>7, <1>8 DEF CacheInv

LEMMA ProvisionSound == ASSUME IInv, NEW p \in Procs, Provision(p) PROVE IInv'
<1> DEFINE r == op[p].rt
<1>1. /\ op[p].kind = "install" /\ op[p].pc = "provision" /\ r \in Python
      /\ Holds(p, op[p]) /\ Knows(op[p])
  BY ProcFacts DEF Provision, At, Shape, PcsOf
<1>2. PICK pc \in {"txn", "drop"} : Step(p, pc)
  BY DEF Provision
<1>3. pc \in Pcs /\ pc \in PcsOf("install", r)
  BY <1>1 DEF Pcs, PcsOf
<1>4. op'[p].kind = "install" /\ op'[p].pc = pc /\ op'[p].rt = r
  BY <1>1, <1>2, <1>3, SameOp
<1>5. CacheInv' /\ CacheType'
  BY <1>1, <1>2, <1>3, CacheLeaves DEF Provision
<1>6. Holds(p, op[p])' /\ Knows(op[p])'
  BY <1>1, <1>4 DEF Holds, Knows, Provision, files, locks, Visible
<1>7. FilesKept(p) /\ FilesType' /\ UNCHANGED load
  BY <1>2, FilesStay DEF Provision, Step
<1> QED  BY <1>1, <1>2, <1>3, <1>5, <1>6, <1>7, LocksStay, GoOn DEF Provision

\* A cancelled acquisition owns its directory and its lease until both are gone.
LEMMA CancelSound == ASSUME IInv, NEW p \in Procs, Cancel(p) PROVE IInv'
<1> DEFINE r == op[p].rt
<1>1. /\ op[p].kind = "install" /\ r \in Runtimes
      /\ Shape(op[p]) /\ Holds(p, op[p]) /\ Knows(op[p])
  BY ProcFacts DEF Cancel, Shape
<1>2. CASE r \notin Python
  BY <1>1, <1>2, Up, FilesStay, ReturnSound DEF Cancel, Return
<1>3. CASE r \in Python
  <2>1. /\ Step(p, "drop") /\ txn' = TxnWithout(p) /\ UNCHANGED <<excl, shared, inst, inode>>
        /\ cache' = cache \/ cache' = CacheWithout(p)
        /\ helpers' = {h \in helpers : h.parent # p}
    BY <1>3 DEF Cancel
  <2>2. "drop" \in Pcs /\ "drop" \in PcsOf("install", r)
    BY <1>3 DEF Pcs, PcsOf
  <2>3. op'[p].kind = "install" /\ op'[p].pc = "drop" /\ op'[p].rt = r
    BY <1>1, <2>1, <2>2, SameOp
  <2>4. CacheInv' /\ CacheType'
    BY <1>1, <2>1, <2>2, CacheLeaves
  <2>5. LocksKept(p) /\ LeasesKept(p) /\ LocksType'
    BY <2>1, Types DEF IInv, LocksKept, LeasesKept, LocksType, CacheType, TxnWithout, CacheWithout
  <2>6. Holds(p, op[p])' /\ Knows(op[p])'
    BY <1>1, <1>3, <2>1, <2>3 DEF Holds, Knows, Cancel, files, Visible
  <2>7. FilesKept(p) /\ FilesType'
    BY <2>1, FilesStay DEF Cancel
  <2> QED  BY <1>1, <2>1, <2>2, <2>4, <2>5, <2>6, <2>7, LeaseStay, GoOn
<1> QED  BY <1>2, <1>3

\* The last step of an operation that changes one directory, or none.
LEMMA ReturnDir ==
  ASSUME IInv, NEW p \in Procs, op[p].kind \notin {"none", "prune", "reset"},
         op[p].pc # "provision", Return(p), UNCHANGED <<selection, pin, helpers>>,
         NEW r \in Runtimes, NEW d \in DirStates, dir' = [dir EXCEPT ![r] = d],
         Visible(r) /\ ~IsVisible(d) => txn = p /\ excl[r] = p /\ selection # r,
         ~Visible(r) /\ IsVisible(d) => inst[r] = p
  PROVE  IInv'
<1>1. TypeOK
  BY DEF IInv
<1>2. \A x \in Runtimes : dir'[x] = IF x = r THEN d ELSE dir[x]
  BY <1>1 DEF TypeOK
<1>3. FilesKept(p)
  BY <1>2 DEF FilesKept, Visible, Return
<1>4. FilesType'
  BY <1>1 DEF TypeOK, FilesType
<1> QED  BY <1>3, <1>4, Up, NoHelper, ReturnSound

LEMMA DropSound ==
  ASSUME IInv, NEW p \in Procs, DropStaging(p) \/ EraseStaging(p) PROVE IInv'
<1> DEFINE r == op[p].rt
<1>1. /\ op[p].kind = "install" /\ op[p].pc \in {"drop", "erase"} /\ r \in Python
      /\ r \in Runtimes /\ ~Visible(r) /\ dir[r] \in DirStates
  BY ProcFacts, StoreAssumption DEF DropStaging, EraseStaging, At, Shape, PcsOf, Knows, IInv, TypeOK
<1>2. CASE Return(p) /\ UNCHANGED dir /\ DropStaging(p)
  BY <1>1, <1>2, GiveUp DEF DropStaging, files
<1>3. CASE Step(p, "erase") /\ DropStaging(p)
  <2>1. PICK d \in Torn(dir[r]) : dir' = [dir EXCEPT ![r] = d]
    BY <1>3 DEF DropStaging, Return, Step, Goto, Idle, IInv, TypeOK
  <2>2. UNCHANGED <<locks, cache, inode>>
    BY <1>3 DEF DropStaging, Return, Step, Goto, Idle, IInv, TypeOK
  <2>3. d \in DirStates /\ ~IsVisible(d)
    BY <1>1, <2>1, TornInvisible DEF Visible
  <2> QED  BY <1>1, <1>3, <2>1, <2>2, <2>3, WorkOn DEF DropStaging, acquisition
<1>4. CASE EraseStaging(p)
  BY <1>1, <1>4, ReturnDir DEF EraseStaging, DirStates, IsVisible
<1> QED  BY <1>2, <1>3, <1>4 DEF DropStaging

LEMMA ActivateSound ==
  ASSUME IInv, NEW p \in Procs, Activate(p) \/ Publish(p) PROVE IInv'
<1> DEFINE r == op[p].rt
<1>1. /\ op[p].kind = "install" /\ op[p].pc \in {"activate", "publish"}
      /\ r \in Runtimes /\ Holds(p, op[p]) /\ inst[r] = p
  BY ProcFacts DEF Activate, Publish, At, Shape, Holds
<1>2. r \notin Python
  BY ProcFacts DEF Activate, Publish, At, Shape, PcsOf
<1>3. CASE Publish(p)
  BY <1>1, <1>3, ReturnDir DEF Publish, DirStates, IsVisible
<1>4. CASE Activate(p) /\ Return(p) /\ UNCHANGED dir
  BY <1>1, <1>4, GiveUp DEF Activate, files
<1>5. CASE Activate(p) /\ Return(p) /\ dir' = [dir EXCEPT ![r] = "whole"]
  BY <1>1, <1>5, ReturnDir DEF Activate, DirStates, IsVisible
<1>6. CASE /\ Activate(p)
           /\ dir[r] \in {"bare", "broken"}
           /\ dir' = [dir EXCEPT ![r] = "none"] /\ Step(p, "publish")
           /\ UNCHANGED <<locks, cache, inode>>
  <2>1. "publish" \in Pcs /\ "publish" \in PcsOf("install", r)
    BY <1>2 DEF Pcs, PcsOf
  <2>2. op'[p].kind = "install" /\ op'[p].pc = "publish" /\ op'[p].rt = r
    BY <1>1, <1>6, <2>1, SameOp
  <2>3. TypeOK /\ \A x \in Runtimes : dir'[x] = IF x = r THEN "none" ELSE dir[x]
    BY <1>6 DEF IInv, TypeOK
  <2>4. FilesKept(p) /\ FilesType'
    BY <1>6, <2>3 DEF FilesKept, FilesType, Visible, IsVisible, Activate, DirStates, TypeOK
  <2>5. Holds(p, op[p])' /\ Knows(op[p])'
    BY <1>1, <1>2, <1>6, <2>2 DEF Holds, Knows, locks, At, Activate
  <2>6. UNCHANGED acquisition /\ UNCHANGED load
    BY <1>6 DEF Activate, acquisition, Step
  <2> QED  BY <1>1, <1>6, <2>1, <2>4, <2>5, <2>6, LocksStay, CacheStays, GoOn
<1> QED  BY <1>3, <1>4, <1>5, <1>6 DEF Activate

LEMMA ActivatePythonSound ==
  ASSUME IInv, NEW p \in Procs, ActivatePython(p) \/ UnmarkPython(p) PROVE IInv'
<1> DEFINE r == op[p].rt
<1>1. /\ op[p].kind = "install" /\ op[p].pc \in {"activate", "unmark"} /\ r \in Python
      /\ r \in Runtimes /\ Holds(p, op[p]) /\ inst[r] = p /\ Knows(op[p])
  BY ProcFacts, StoreAssumption
     DEF ActivatePython, UnmarkPython, At, Shape, PcsOf, Holds
<1>2. CASE UnmarkPython(p)
  BY <1>1, <1>2, ReturnDir DEF UnmarkPython, DirStates, IsVisible
<1>3. CASE /\ ActivatePython(p)
           /\ dir' = [dir EXCEPT ![r] = "marked"] /\ Step(p, "unmark")
           /\ UNCHANGED <<locks, cache, inode>>
  <2>1. "unmark" \in Pcs /\ "unmark" \in PcsOf("install", r)
    BY <1>1 DEF Pcs, PcsOf
  <2>2. op'[p].kind = "install" /\ op'[p].pc = "unmark" /\ op'[p].rt = r
    BY <1>1, <1>3, <2>1, SameOp
  <2>3. TypeOK /\ \A x \in Runtimes : dir'[x] = IF x = r THEN "marked" ELSE dir[x]
    BY <1>3 DEF IInv, TypeOK
  <2>4. FilesKept(p) /\ FilesType'
    BY <1>1, <1>3, <2>3 DEF FilesKept, FilesType, Visible, IsVisible, ActivatePython, DirStates,
                            TypeOK
  <2>5. Holds(p, op[p])' /\ Knows(op[p])'
    BY <1>1, <1>3, <2>2 DEF Holds, Knows, locks, At, ActivatePython
  <2>6. UNCHANGED acquisition /\ UNCHANGED load
    BY <1>3 DEF ActivatePython, acquisition, Step
  <2> QED  BY <1>1, <1>3, <2>1, <2>4, <2>5, <2>6, LocksStay, CacheStays, GoOn DEF ActivatePython, At
<1>4. CASE /\ ActivatePython(p) /\ Step(p, "drop")
           /\ txn' = TxnWithout(p) /\ excl' = ExclWithout(p)
           /\ UNCHANGED <<dir, shared, inst, cache, inode>>
  <2>1. "drop" \in Pcs /\ "drop" \in PcsOf("install", r)
    BY <1>1 DEF Pcs, PcsOf
  <2>2. op'[p].kind = "install" /\ op'[p].pc = "drop" /\ op'[p].rt = r
    BY <1>1, <1>4, <2>1, SameOp
  <2>3. LocksKept(p) /\ LeasesKept(p) /\ LocksType'
    BY <1>4, Types DEF IInv, LocksKept, LeasesKept, LocksType, TxnWithout, ExclWithout
  <2>4. FilesKept(p) /\ FilesType' /\ UNCHANGED acquisition
    BY <1>4, FilesStay DEF ActivatePython, files, acquisition
  <2>5. LeaseInv'
    BY <1>4 DEF IInv, LeaseInv, ExclWithout
  <2>6. Holds(p, op[p])' /\ Knows(op[p])'
    BY <1>1, <1>4, <2>2 DEF Holds, Knows, At, ActivatePython, Visible
  <2> QED  BY <1>1, <1>4, <2>1, <2>3, <2>4, <2>5, <2>6, CacheStays, GoOn DEF ActivatePython, At
<1> QED  BY <1>2, <1>3, <1>4 DEF ActivatePython

-----------------------------------------------------------------------------
(* The transaction and the leases.                                         *)

LEMMA TransactionSound == ASSUME IInv, NEW p \in Procs, AcquireTransaction(p) PROVE IInv'
<1>1. /\ op[p].pc = "txn" /\ Shape(op[p]) /\ Holds(p, op[p]) /\ Knows(op[p])
      /\ op[p].kind \in {"install", "remove", "select", "unselect"}
  <2>1. op[p].pc = "txn" /\ op[p].kind \in AllKinds \union {"none"}
    BY DEF AcquireTransaction, IInv, TypeOK
  <2> QED  BY <2>1, ProcFacts DEF Shape, PcsOf, AllKinds
<1>2. PICK pc \in {"excl", "check", "write"} :
        /\ Step(p, pc)
        /\ op[p].kind \in {"install", "remove"} <=> pc = "excl"
        /\ op[p].kind = "select" <=> pc = "check"
  <2>1. CASE op[p].kind \in {"install", "remove"}
    BY <1>1, <2>1 DEF AcquireTransaction
  <2>2. CASE op[p].kind = "select"
    BY <1>1, <2>2 DEF AcquireTransaction
  <2>3. CASE op[p].kind = "unselect"
    BY <1>1, <2>3 DEF AcquireTransaction
  <2> QED  BY <1>1, <2>1, <2>2, <2>3
<1>3. pc \in Pcs /\ pc \in PcsOf(op[p].kind, op[p].rt)
  BY <1>1, <1>2 DEF Pcs, PcsOf
<1>4. op'[p].kind = op[p].kind /\ op'[p].pc = pc /\ op'[p].rt = op[p].rt
  BY <1>2, <1>3, SameOp
<1>5. txn = Free /\ txn' = p /\ UNCHANGED <<files, excl, shared, inst, acquisition>>
  BY DEF AcquireTransaction
<1>6. LocksKept(p) /\ LeasesKept(p) /\ LocksType'
  BY <1>5, Types, StoreAssumption DEF IInv, LocksKept, LeasesKept, LocksType, acquisition
<1>7. FilesKept(p) /\ FilesType'
  BY <1>5, FilesStay DEF acquisition
<1>8. Holds(p, op[p])' /\ Knows(op[p])'
  BY <1>1, <1>2, <1>4, <1>5 DEF Holds, Knows, acquisition, files, Visible
<1> QED  BY <1>1, <1>2, <1>3, <1>5, <1>6, <1>7, <1>8, LeaseStay, CacheStays, GoOn

LEMMA ExclusiveSound == ASSUME IInv, NEW p \in Procs, AcquireExclusive(p) PROVE IInv'
<1> DEFINE r == op[p].rt
<1>1. /\ op[p].pc = "excl" /\ Shape(op[p]) /\ Holds(p, op[p]) /\ Knows(op[p])
      /\ op[p].kind \in {"install", "remove"} /\ r \in Runtimes
  <2>1. op[p].pc = "excl" /\ op[p].kind \in AllKinds \union {"none"}
    BY DEF AcquireExclusive, IInv, TypeOK
  <2> QED  BY <2>1, ProcFacts DEF Shape, PcsOf, AllKinds
<1>2. UNCHANGED <<files, helpers>>
  BY DEF AcquireExclusive
<1>3. CASE Return(p)
  BY <1>1, <1>2, <1>3, GiveUp
<1>4. ASSUME excl[r] = Free, shared[r] = {}, excl' = [excl EXCEPT ![r] = p],
             NEW pc \in {"activate", "check"}, Step(p, pc),
             op[p].kind = "install" <=> pc = "activate",
             UNCHANGED <<txn, shared, inst, cache, inode>>
      PROVE  IInv'
  <2>1. pc \in Pcs /\ pc \in PcsOf(op[p].kind, r)
    BY <1>1, <1>4 DEF Pcs, PcsOf
  <2>2. op'[p].kind = op[p].kind /\ op'[p].pc = pc /\ op'[p].rt = r
    BY <1>4, <2>1, SameOp
  <2>3. LocksType /\ Free \notin Procs
    BY Types, StoreAssumption DEF IInv
  <2>4. LocksKept(p) /\ LeasesKept(p) /\ LocksType'
    BY <1>1, <1>4, <2>3 DEF LocksKept, LeasesKept, LocksType
  <2>5. LeaseInv'
    BY <1>1, <1>4, <2>3 DEF IInv, LeaseInv, LocksType
  <2>6. FilesKept(p) /\ FilesType' /\ UNCHANGED acquisition
    BY <1>2, <1>4, FilesStay DEF acquisition
  <2>7. Holds(p, op[p])' /\ Knows(op[p])'
    BY <1>1, <1>2, <1>4, <2>2, <2>3 DEF Holds, Knows, files, Visible, LocksType
  <2> QED  BY <1>1, <1>4, <2>1, <2>4, <2>5, <2>6, <2>7, CacheStays, GoOn
<1>5. CASE /\ op[p].kind = "install" /\ r \in Python
           /\ Step(p, "drop") /\ txn' = TxnWithout(p)
           /\ UNCHANGED <<excl, shared, inst, cache, inode>>
  <2>1. "drop" \in Pcs /\ "drop" \in PcsOf(op[p].kind, r)
    BY <1>5 DEF Pcs, PcsOf
  <2>2. op'[p].kind = "install" /\ op'[p].pc = "drop" /\ op'[p].rt = r
    BY <1>5, <2>1, SameOp
  <2>3. LocksKept(p) /\ LeasesKept(p) /\ LocksType'
    BY <1>5, Types DEF IInv, LocksKept, LeasesKept, LocksType, TxnWithout
  <2>4. FilesKept(p) /\ FilesType' /\ UNCHANGED acquisition
    BY <1>2, <1>5, FilesStay DEF acquisition
  <2>5. Holds(p, op[p])' /\ Knows(op[p])'
    BY <1>1, <1>2, <1>5, <2>2 DEF Holds, Knows, files, Visible
  <2> QED  BY <1>1, <1>5, <2>1, <2>3, <2>4, <2>5, LeaseStay, CacheStays, GoOn
<1> QED  BY <1>1, <1>3, <1>4, <1>5 DEF AcquireExclusive

\* A removal erases a runtime nothing names, under both locks.
LEMMA EraseSound == ASSUME IInv, NEW p \in Procs, RemoveErase(p) PROVE IInv'
<1>1. /\ op[p].kind = "remove" /\ op[p].pc = "erase" /\ op[p].rt \in Runtimes
      /\ txn = p /\ excl[op[p].rt] = p /\ selection # op[p].rt
  BY ProcFacts DEF RemoveErase, At, Shape, Holds, Knows
<1> QED  BY <1>1, ReturnDir DEF RemoveErase, DirStates, IsVisible

LEMMA WriteSound ==
  ASSUME IInv, NEW p \in Procs, WriteSelection(p) \/ WritePin(p) \/ CleanEnd(p) PROVE IInv'
<1>1. /\ op[p].kind \in {"select", "unselect", "pin", "unpin", "clean"}
      /\ op[p].pc \in {"write", "wipe"}
      /\ Shape(op[p]) /\ Holds(p, op[p]) /\ Knows(op[p])
  BY ProcFacts DEF WriteSelection, WritePin, CleanEnd, At
<1>2. CASE WriteSelection(p)
  <2>1. /\ txn = p /\ op[p].rt \in Runtimes \union {None}
        /\ op[p].rt # None => Visible(op[p].rt)
    BY <1>1, <1>2 DEF WriteSelection, At, Shape, Holds, Knows
  <2>2. FilesKept(p) /\ FilesType'
    BY <1>2, <2>1, Types DEF WriteSelection, FilesKept, FilesType, Visible, IInv, Return
  <2> QED  BY <1>1, <1>2, <2>2, Up, NoHelper, ReturnSound DEF WriteSelection
<1>3. CASE WritePin(p)
  <2>1. /\ op[p].rt \in Runtimes \union {None}
        /\ op[p].rt # None => <<p, "pin">> \in shared[op[p].rt]
    BY <1>1, <1>3 DEF WritePin, At, Shape, Holds
  <2>2. FilesKept(p) /\ FilesType'
    BY <1>3, <2>1, Types DEF WritePin, FilesKept, FilesType, Visible, IInv, Return
  <2> QED  BY <1>1, <1>3, <2>2, Up, NoHelper, ReturnSound DEF WritePin
<1>4. CASE CleanEnd(p)
  BY <1>1, <1>4, GiveUp DEF CleanEnd
<1> QED  BY <1>2, <1>3, <1>4

LEMMA PinLeaseSound == ASSUME IInv, NEW p \in Procs, PinLease(p) PROVE IInv'
<1> DEFINE r == op[p].rt
<1>1. op[p].kind = "pin" /\ op[p].pc = "shared" /\ r \in Runtimes /\ Holds(p, op[p])
  BY ProcFacts DEF PinLease, At, Shape
<1>2. CASE Return(p)
  BY <1>1, <1>2, GiveUp DEF PinLease
<1>3. CASE /\ excl[r] = Free
           /\ shared' = [shared EXCEPT ![r] = @ \union {<<p, "pin">>}]
           /\ Step(p, "check") /\ UNCHANGED <<txn, excl, inst, cache, inode>>
  <2>1. "check" \in Pcs /\ "check" \in PcsOf(op[p].kind, r)
    BY <1>1 DEF Pcs, PcsOf
  <2>2. op'[p].kind = "pin" /\ op'[p].pc = "check" /\ op'[p].rt = r
    BY <1>1, <1>3, <2>1, SameOp
  <2>3. LocksType
    BY Types DEF IInv
  <2>4. LocksKept(p) /\ LeasesKept(p) /\ LocksType'
    BY <1>1, <1>3, <2>3 DEF LocksKept, LeasesKept, LocksType
  <2>5. LeaseInv'
    BY <1>1, <1>3, <2>3 DEF IInv, LeaseInv, LocksType
  <2>6. FilesKept(p) /\ FilesType' /\ UNCHANGED acquisition
    BY <1>3, FilesStay DEF acquisition, PinLease
  <2>7. Holds(p, op[p])' /\ Knows(op[p])'
    BY <1>1, <1>3, <2>2, <2>3 DEF Holds, Knows, LocksType
  <2> QED  BY <1>1, <1>3, <2>1, <2>4, <2>5, <2>6, <2>7, CacheStays, GoOn
<1> QED  BY <1>2, <1>3 DEF PinLease

-----------------------------------------------------------------------------
(* Starting an operation, backends, and sessions.                          *)

LEMMA BeginSound ==
  ASSUME IInv, NEW p \in Procs, NEW kind, NEW r, NEW pc, Begin(p, kind, r, pc),
         \/ kind = "install" /\ pc = "lease" /\ r \in Runtimes
         \/ kind \in {"remove", "select"} /\ pc = "txn" /\ r \in Runtimes
         \/ kind = "pin" /\ pc = "shared" /\ r \in Runtimes
         \/ kind = "unselect" /\ pc = "txn" /\ r = None
         \/ kind = "unpin" /\ pc = "write" /\ r = None
         \/ kind = "clean" /\ pc = "cachelock" /\ r = None
  PROVE  IInv'
<1> DEFINE new == [Idle EXCEPT !.kind = kind, !.rt = r, !.pc = pc, !.seen = pin]
<1>1. TypeOK /\ session[p] = "up" /\ op[p] = Idle
  BY DEF IInv, Begin
<1>2. op' = [op EXCEPT ![p] = new] /\ new.kind = kind /\ new.rt = r /\ new.pc = pc
  BY IdleType DEF Begin
<1>3. new \in [kind : AllKinds \union {"none"}, rt : Runtimes \union {None},
               pc : Pcs, seen : Runtimes \union {None}, todo : SUBSET Targets]
  BY <1>1, IdleType, ZenonT(60) DEF TypeOK, AllKinds, Pcs
<1> HIDE DEF new
<1>4. /\ op' \in [Procs -> [kind : AllKinds \union {"none"}, rt : Runtimes \union {None},
                            pc : Pcs, seen : Runtimes \union {None}, todo : SUBSET Targets]]
      /\ op'[p] = new /\ \A q \in Procs \ {p} : op'[q] = op[q]
  BY <1>1, <1>2, <1>3 DEF TypeOK
<1>5. UNCHANGED <<files, session, load, locks, acquisition>>
  BY DEF Begin
<1>6. TypeOK'
  BY <1>1, <1>4, <1>5 DEF TypeOK, files, locks, acquisition
<1>7. /\ LocksKept(p) /\ LeasesKept(p) /\ FilesKept(p) /\ LeaseInv'
      /\ UNCHANGED <<cache, helpers, inode>>
  BY <1>5, FilesStay, LocksStay DEF acquisition
<1>8. ProcsKept(p)
  BY <1>1, <1>4, <1>5, NoPrune DEF ProcsKept
<1>9. CacheInv'
  <2>1. Idle.kind \notin {"install", "clean"}
    BY DEF Idle
  <2> QED  BY <1>1, <1>2, <1>4, <1>7, <2>1 DEF IInv, CacheInv
<1>10. SessionInv(p)'
  BY <1>1, <1>2, <1>4, <1>5 DEF SessionInv
<1>11. Shape(op[p])'
  BY <1>2, <1>4 DEF Shape, PcsOf
<1>12. Holds(p, op[p])' /\ Knows(op[p])'
  BY <1>2, <1>4 DEF Holds, Knows
<1>13. Loads(p, load[p])'
  BY <1>5, <1>7, LoadsKept
<1>14. ProcInv(p)'
  BY <1>10, <1>11, <1>12, <1>13 DEF ProcInv
<1> QED  BY <1>6, <1>7, <1>8, <1>9, <1>14, ActSound DEF Guarantee

LEMMA StartsSound ==
  ASSUME IInv, NEW p \in Procs, Starts(p), ~PruneStart(p) PROVE IInv'
BY BeginSound DEF Starts, InstallStart, RemoveStart, SelectStart, PinStart, UnselectStart,
                  UnpinStart, CleanStart

\* A step of the backend of p.
LEMMA BackendSound ==
  ASSUME IInv, NEW p \in Procs, session[p] = "up", NEW l,
         l \in [rt : Runtimes \union {None}, pc : {"idle", "resolved", "leased", "running"}],
         load' = [load EXCEPT ![p] = l], Loads(p, l)',
         UNCHANGED <<files, session, op, txn, excl, inst, acquisition>>,
         shared' \in [Runtimes -> SUBSET (Procs \X {"load", "pin"})], LeasesKept(p), LeaseInv',
         \A r \in Runtimes : <<p, "pin">> \in shared[r] => <<p, "pin">> \in shared'[r]
  PROVE  IInv'
<1>1. TypeOK /\ ProcInv(p) /\ CacheInv
  BY DEF IInv
<1>2. load'[p] = l /\ \A q \in Procs \ {p} : load'[q] = load[q]
  BY <1>1 DEF TypeOK
<1>3. TypeOK'
  BY <1>1 DEF TypeOK, files, acquisition
<1>4. ProcsKept(p) /\ LocksKept(p)
  BY <1>2, NoPrune DEF ProcsKept, LocksKept, acquisition
<1>5. FilesKept(p)
  BY FilesStay DEF acquisition
<1>6. CacheInv'
  BY <1>1 DEF CacheInv, acquisition
<1>7. SessionInv(p)' /\ Shape(op[p])'
  BY <1>1 DEF ProcInv, SessionInv, Shape
<1>8. Holds(p, op[p])' /\ Knows(op[p])'
  <2>1. Holds(p, op[p]) /\ Knows(op[p]) /\ Shape(op[p])
    BY <1>1 DEF ProcInv
  <2>2. Holds(p, op[p])'
    BY <2>1 DEF Holds, Shape, acquisition
  <2>3. Knows(op[p])'
    BY <2>1 DEF Knows, files, acquisition, Visible
  <2> QED  BY <2>2, <2>3
<1> QED  BY <1>2, <1>3, <1>4, <1>5, <1>6, <1>7, <1>8, ActSound DEF Guarantee, ProcInv

LEMMA ServeSound == ASSUME IInv, NEW p \in Procs, Serve(p) PROVE IInv'
<1>1. TypeOK /\ Loads(p, load[p]) /\ SessionInv(p) /\ LeaseInv /\ LocksType
  BY Types DEF IInv, ProcInv
<1>2. load[p] \in [rt : Runtimes \union {None}, pc : {"idle", "resolved", "leased", "running"}]
  BY <1>1 DEF TypeOK
<1>3. load[p].pc # "idle" => session[p] = "up" /\ load[p].rt \in Runtimes
  BY <1>1, NoLoadType DEF SessionInv, Loads
<1>4. ASSUME NEW r \in Runtimes, LoadResolve(p, r) PROVE IInv'
  <2> DEFINE l == [rt |-> r, pc |-> "resolved"]
  <2>1. LeasesKept(p) /\ LeaseInv'
    BY <1>1, <1>4 DEF LoadResolve, locks, LeasesKept, LeaseInv
  <2>2. Loads(p, l)'
    BY DEF Loads
  <2> QED  BY <1>1, <1>4, <2>1, <2>2, BackendSound DEF LoadResolve, locks, LocksType
<1>5. CASE LoadLease(p)
  <2> DEFINE r == load[p].rt
  <2>1. session[p] = "up" /\ r \in Runtimes
    BY <1>3, <1>5 DEF LoadLease
  <2>2. CASE excl[r] # Free /\ load' = [load EXCEPT ![p] = NoLoad] /\ UNCHANGED shared
    <3>1. LeasesKept(p) /\ LeaseInv' /\ Loads(p, NoLoad)'
      BY <1>1, <1>5, <2>2, NoLoadType DEF LoadLease, LeasesKept, LeaseInv, Loads
    <3> QED  BY <1>1, <1>5, <2>1, <2>2, <3>1, NoLoadType, BackendSound DEF LoadLease, LocksType
  <2>3. CASE /\ excl[r] = Free
             /\ shared' = [shared EXCEPT ![r] = @ \union {<<p, "load">>}]
             /\ load' = [load EXCEPT ![p].pc = "leased"]
    <3>0. PICK l : l = [load[p] EXCEPT !.pc = "leased"]
      OBVIOUS
    <3>1. load' = [load EXCEPT ![p] = l] /\ l.rt = r /\ l.pc = "leased"
      BY <1>1, <1>2, <2>3, <3>0 DEF TypeOK
    <3>2. /\ \A x \in Runtimes :
               shared'[x] = IF x = r THEN shared[r] \union {<<p, "load">>} ELSE shared[x]
          /\ shared' \in [Runtimes -> SUBSET (Procs \X {"load", "pin"})]
      BY <1>1, <2>1, <2>3 DEF LocksType
    <3>3. LeasesKept(p) /\ Loads(p, l)'
      BY <2>1, <3>1, <3>2 DEF LeasesKept, Loads
    <3>4. LeaseInv'
      BY <1>1, <1>5, <2>3, <3>2 DEF LeaseInv, LoadLease
    <3>5. l \in [rt : Runtimes \union {None}, pc : {"idle", "resolved", "leased", "running"}]
      BY <1>2, <3>0
    <3> QED  BY <1>5, <2>1, <3>1, <3>2, <3>3, <3>4, <3>5, BackendSound DEF LoadLease
  <2> QED  BY <1>5, <2>2, <2>3 DEF LoadLease
<1>6. CASE LoadLaunch(p)
  <2>0. PICK l : l = [load[p] EXCEPT !.pc = "running"]
    OBVIOUS
  <2>1. load' = [load EXCEPT ![p] = l] /\ l.rt = load[p].rt /\ l.pc = "running"
    BY <1>1, <1>2, <1>6, <2>0 DEF TypeOK, LoadLaunch
  <2>2. l \in [rt : Runtimes \union {None}, pc : {"idle", "resolved", "leased", "running"}]
    BY <1>2, <2>0
  <2>3. UNCHANGED <<files, session, op, locks, acquisition>>
    BY <1>6 DEF LoadLaunch
  <2>4. LeasesKept(p) /\ LeaseInv'
    BY <1>1, <2>3 DEF locks, LeasesKept, LeaseInv
  <2>5. Loads(p, l)'
    BY <1>1, <1>3, <1>6, <2>1, <2>3 DEF Loads, LoadLaunch, locks, files, Visible
  <2> QED  BY <1>1, <1>3, <1>6, <2>1, <2>2, <2>3, <2>4, <2>5, BackendSound
           DEF LoadLaunch, locks, LocksType
<1>7. CASE LoadEnd(p)
  <2>1. /\ shared' = SharedWithout(p, {"load"}) /\ load' = [load EXCEPT ![p] = NoLoad]
        /\ UNCHANGED <<files, session, op, txn, excl, inst, acquisition>>
        /\ session[p] = "up"
    BY <1>3, <1>7 DEF LoadEnd
  <2>2. /\ load[p] # NoLoad /\ load'[p] = NoLoad
        /\ \A r \in Runtimes : shared'[r] = shared[r] \ ({p} \X {"load"})
    BY <1>1, <1>7, <2>1, NoLoadType DEF LoadEnd, TypeOK, SharedWithout
  <2>3. LeasesKept(p)
    BY <2>2 DEF LeasesKept
  <2>4. /\ shared' \in [Runtimes -> SUBSET (Procs \X {"load", "pin"})]
        /\ LeaseInv' /\ Loads(p, NoLoad)'
    BY <1>1, <1>7, <2>1, <2>2, NoLoadType DEF LoadEnd, LeaseInv, Loads, SharedWithout, LocksType
  <2>5. \A r \in Runtimes : <<p, "pin">> \in shared[r] => <<p, "pin">> \in shared'[r]
    BY <2>2
  <2> QED  BY <2>1, <2>3, <2>4, <2>5, NoLoadType, BackendSound
<1> QED  BY <1>4, <1>5, <1>6, <1>7 DEF Serve

LEMMA OpenSound == ASSUME IInv, NEW p \in Procs, Open(p) \/ Close(p) PROVE IInv'
<1>1. TypeOK /\ CacheInv /\ SessionInv(p)
  BY DEF IInv, ProcInv
<1>2. PICK s \in {"up", "down"} : session' = [session EXCEPT ![p] = s]
  BY DEF Open, Close
<1>3. UNCHANGED <<files, op, load, locks, acquisition>> /\ op[p] = Idle /\ load[p] = NoLoad
  BY <1>1 DEF Open, Close, SessionInv
<1>4. \A q \in Procs \ {p} : session[q] # "prune"
  BY NoPrune DEF Open, Close
<1>5. session'[p] = s /\ \A q \in Procs \ {p} : session'[q] = session[q]
  BY <1>1, <1>2 DEF TypeOK
<1>6. TypeOK'
  BY <1>1, <1>2, <1>3 DEF TypeOK, files, locks, acquisition
<1>7. UNCHANGED <<files, inode>> /\ UNCHANGED <<locks, cache, inode>> /\ UNCHANGED load
  BY <1>3 DEF acquisition
<1>8. ProcsKept(p) /\ LocksKept(p) /\ LeasesKept(p) /\ FilesKept(p) /\ LeaseInv'
  BY <1>3, <1>4, <1>5, <1>7, FilesStay, LocksStay DEF ProcsKept
<1>9. CacheInv'
  BY <1>1, <1>3 DEF CacheInv, acquisition
<1>10. ProcInv(p)'
  <2>1. op'[p] = Idle /\ load'[p] = NoLoad
    BY <1>3
  <2>2. SessionInv(p)'
    BY <1>5, <2>1, IdleType DEF SessionInv
  <2>3. Shape(op[p])' /\ Holds(p, op[p])' /\ Knows(op[p])' /\ Loads(p, load[p])'
    BY <2>1 DEF Idle, NoLoad, Shape, PcsOf, Holds, Knows, Loads
  <2> QED  BY <2>2, <2>3 DEF ProcInv
<1> QED  BY <1>6, <1>8, <1>9, <1>10, ActSound DEF Guarantee

\* The helper of a process that is killed keeps the lock, as an orphan's.
LEMMA CrashSound == ASSUME IInv, NEW p \in Procs, Crash(p) PROVE IInv'
<1>1. TypeOK /\ LocksType /\ CacheType /\ CacheInv
  BY Types DEF IInv
<1>2. /\ op'[p] = Idle /\ load'[p] = NoLoad /\ session'[p] = "down"
      /\ \A q \in Procs \ {p} :
           op'[q] = op[q] /\ load'[q] = load[q] /\ session'[q] = session[q]
  BY <1>1 DEF Crash, TypeOK
<1>3. /\ \A r \in Runtimes :
           /\ excl'[r] = IF excl[r] = p THEN Free ELSE excl[r]
           /\ inst'[r] = IF inst[r] = p THEN Free ELSE inst[r]
           /\ shared'[r] = shared[r] \ ({p} \X {"load", "pin"})
      /\ LocksType'
  <2>1. txn' \in Procs \union {Free}
    BY <1>1 DEF Crash, TxnWithout, LocksType
  <2>2. /\ excl' \in [Runtimes -> Procs \union {Free}]
        /\ \A r \in Runtimes : excl'[r] = IF excl[r] = p THEN Free ELSE excl[r]
    BY <1>1 DEF Crash, ExclWithout, LocksType
  <2>3. /\ inst' \in [Runtimes -> Procs \union {Free}]
        /\ \A r \in Runtimes : inst'[r] = IF inst[r] = p THEN Free ELSE inst[r]
    BY <1>1 DEF Crash, InstWithout, LocksType
  <2>4. /\ shared' \in [Runtimes -> SUBSET (Procs \X {"load", "pin"})]
        /\ \A r \in Runtimes : shared'[r] = shared[r] \ ({p} \X {"load", "pin"})
    BY <1>1 DEF Crash, SharedWithout, LocksType
  <2> QED  BY <2>1, <2>2, <2>3, <2>4 DEF LocksType
<1>4. \A i \in Inodes :
        cache'[i] = IF cache[i] # p THEN cache[i]
                    ELSE IF \E h \in helpers : h.parent = p /\ h.ino = i THEN Orphan
                    ELSE Free
  BY DEF Crash
<1>5. inode' = inode /\ cache' \in [Inodes -> Procs \union {Free, Orphan}]
  BY <1>1 DEF Crash, CacheType
<1>6. \A h \in helpers' :
        \E g \in helpers : /\ h.rt = g.rt /\ h.ino = g.ino
                           /\ h.parent = IF g.parent = p THEN Orphan ELSE g.parent
                           /\ h = [rt |-> g.rt, ino |-> g.ino, parent |-> h.parent]
  <2>1. ASSUME NEW h \in helpers'
        PROVE  \E g \in helpers : /\ h.rt = g.rt /\ h.ino = g.ino
                                  /\ h.parent = IF g.parent = p THEN Orphan ELSE g.parent
                                  /\ h = [rt |-> g.rt, ino |-> g.ino, parent |-> h.parent]
    <3>1. PICK g \in helpers : h = [g EXCEPT !.parent = IF @ = p THEN Orphan ELSE @]
      BY <2>1 DEF Crash
    <3>2. g \in [rt : Runtimes, ino : Inodes, parent : Procs \union {Orphan}]
      BY <1>1 DEF CacheType
    <3> QED  BY <3>1, <3>2
  <2> QED  BY <2>1
<1>7. CacheType'
  <2>1. \A g \in helpers : g.rt \in Runtimes /\ g.ino \in Inodes
                           /\ g.parent \in Procs \union {Orphan}
    BY <1>1 DEF CacheType
  <2>2. helpers' \subseteq [rt : Runtimes, ino : Inodes, parent : Procs \union {Orphan}]
    <3>1. ASSUME NEW h \in helpers'
          PROVE  h \in [rt : Runtimes, ino : Inodes, parent : Procs \union {Orphan}]
      <4>1. PICK g \in helpers :
              /\ h.parent = IF g.parent = p THEN Orphan ELSE g.parent
              /\ h = [rt |-> g.rt, ino |-> g.ino, parent |-> h.parent]
        BY <1>6, <3>1
      <4>2. h.parent \in Procs \union {Orphan}
        BY <2>1, <4>1
      <4> QED  BY <2>1, <4>1, <4>2
    <3> QED  BY <3>1
  <2> QED  BY <1>1, <1>5, <2>2 DEF CacheType
<1>8. TypeOK'
  <2>1. FilesType'
    BY Types, <1>1 DEF Crash, files, FilesType
  <2>2. op' \in [Procs -> [kind : AllKinds \union {"none"}, rt : Runtimes \union {None},
                           pc : Pcs, seen : Runtimes \union {None}, todo : SUBSET Targets]]
    BY <1>1, IdleType DEF Crash, TypeOK
  <2>3. /\ session' \in [Procs -> {"down", "up", "prune"}]
        /\ load' \in [Procs -> [rt : Runtimes \union {None},
                                pc : {"idle", "resolved", "leased", "running"}]]
    BY <1>1, NoLoadType DEF Crash, TypeOK
  <2> QED  BY <1>3, <1>7, <2>1, <2>2, <2>3 DEF TypeOK, FilesType, LocksType, CacheType
<1>9. ProcsKept(p)
  BY <1>2, NoPrune DEF ProcsKept, Crash
<1>10. LocksKept(p)
  BY <1>1, <1>3, <1>4 DEF LocksKept, Crash, TxnWithout, CacheType
<1>11. LeasesKept(p)
  BY <1>2, <1>3, NoLoadType DEF LeasesKept
<1>12. FilesKept(p)
  BY FilesStay DEF Crash
<1>13. LeaseInv'
  BY <1>3 DEF IInv, LeaseInv
<1>14. CacheInv'
  <2>1. Free \notin Procs /\ Orphan \notin Procs
    BY StoreAssumption
  <2>2. \A g \in helpers : g.ino \in Inodes
    BY <1>1 DEF CacheType
  <2>3. \A i \in Inodes, q \in Procs :
          cache'[i] = q => i = inode' /\ op'[q].kind \in {"install", "clean"}
    BY <1>1, <1>2, <1>4, <1>5, <2>1 DEF CacheInv
  <2>4. \A h \in helpers' : h.rt \in Python /\ cache'[h.ino] = h.parent
    BY <1>1, <1>4, <1>6, <2>2 DEF CacheInv
  <2>5. \A g, h \in helpers' : g.ino = h.ino => g = h
    <3>1. ASSUME NEW g \in helpers', NEW h \in helpers', g.ino = h.ino PROVE g = h
      <4>1. PICK gg \in helpers :
              /\ g.ino = gg.ino /\ g.parent = IF gg.parent = p THEN Orphan ELSE gg.parent
              /\ g = [rt |-> gg.rt, ino |-> gg.ino, parent |-> g.parent]
        BY <1>6, <3>1
      <4>2. PICK hh \in helpers :
              /\ h.ino = hh.ino /\ h.parent = IF hh.parent = p THEN Orphan ELSE hh.parent
              /\ h = [rt |-> hh.rt, ino |-> hh.ino, parent |-> h.parent]
        BY <1>6, <3>1
      <4>3. gg = hh
        BY <1>1, <3>1, <4>1, <4>2, ZenonT(60) DEF CacheInv
      <4> QED  BY <4>1, <4>2, <4>3
    <3> QED  BY <3>1
  <2>6. \A h \in helpers', q \in Procs :
          h.parent = q => op'[q].kind = "install" /\ op'[q].pc = "provision"
    BY <1>1, <1>2, <1>6, <2>1 DEF CacheInv
  <2> QED  BY <2>3, <2>4, <2>5, <2>6 DEF CacheInv
<1>15. ProcInv(p)'
  <2>1. SessionInv(p)'
    BY <1>2, IdleType DEF SessionInv
  <2>2. Shape(op[p])' /\ Holds(p, op[p])' /\ Knows(op[p])' /\ Loads(p, load[p])'
    BY <1>2 DEF Idle, NoLoad, Shape, PcsOf, Holds, Knows, Loads
  <2> QED  BY <2>1, <2>2 DEF ProcInv
<1> QED  BY <1>8, <1>9, <1>10, <1>11, <1>12, <1>13, <1>14, <1>15, ActSound DEF Guarantee

\* An orphan that ends gives back a lock no process holds.
LEMMA OrphanSound == ASSUME IInv, NEW h \in helpers, OrphanExits(h) PROVE IInv'
<1>1. TypeOK /\ CacheInv /\ CacheType /\ h.parent = Orphan
  BY Types DEF IInv, OrphanExits
<1>2. /\ UNCHANGED <<files, session, op, load, locks, inode>>
      /\ helpers' = helpers \ {h} /\ cache' = [cache EXCEPT ![h.ino] = Free]
  BY DEF OrphanExits
<1>3. /\ h.ino \in Inodes /\ cache[h.ino] = Orphan
      /\ \A i \in Inodes : cache'[i] = IF i = h.ino THEN Free ELSE cache[i]
  BY <1>1, <1>2 DEF CacheType, CacheInv
<1>4. Free \notin Procs /\ Orphan \notin Procs
  BY StoreAssumption
<1>5. TypeOK'
  <2>1. CacheType'
    BY <1>1, <1>2 DEF CacheType
  <2> QED  BY <1>1, <1>2, <2>1 DEF TypeOK, CacheType, files, locks
<1>6. CacheInv'
  <2>1. \A i \in Inodes, q \in Procs :
          cache'[i] = q => i = inode' /\ op'[q].kind \in {"install", "clean"}
    BY <1>1, <1>2, <1>3, <1>4 DEF CacheInv
  <2>2. \A g \in helpers' : g.rt \in Python /\ cache'[g.ino] = g.parent
    BY <1>1, <1>2, <1>3 DEF CacheInv, CacheType
  <2> QED  BY <1>1, <1>2, <2>1, <2>2 DEF CacheInv
<1>7. ASSUME NEW q \in Procs PROVE ProcInv(q)'
  <2>1. SessionInv(q) /\ Shape(op[q]) /\ Holds(q, op[q]) /\ Knows(op[q]) /\ Loads(q, load[q])
    BY DEF IInv, ProcInv
  <2>2. SessionInv(q)' /\ Shape(op[q])'
    BY <1>2, <2>1 DEF SessionInv, Shape
  <2>3. cache[inode] = q => cache'[inode] = q
    BY <1>1, <1>3, <1>4 DEF CacheType
  <2>4. Holds(q, op[q])'
    BY <1>2, <2>1, <2>3 DEF Holds, locks
  <2>5. Knows(op[q])' /\ Loads(q, load[q])'
    BY <1>2, <2>1 DEF Knows, Loads, files, locks, Visible
  <2> QED  BY <2>2, <2>4, <2>5 DEF ProcInv
<1>8. LeaseInv' /\ SelectionInv'
  BY <1>2 DEF IInv, LeaseInv, SelectionInv, locks, files, Visible
<1> QED  BY <1>5, <1>6, <1>7, <1>8 DEF IInv

-----------------------------------------------------------------------------
(* Prunes.  No other session is open: nothing is held, known or running.   *)

LEMMA PruneSound ==
  ASSUME IInv, NEW p \in Procs, \A q \in Procs \ {p} : session[q] = "down",
         op[p].kind \notin {"install", "clean"}, load[p] = NoLoad,
         \A q \in Procs \ {p} : op'[q] = op[q] /\ session'[q] = session[q],
         UNCHANGED <<load, locks, cache, helpers>>,
         FilesType', inode' \in Inodes,
         session' \in [Procs -> {"down", "up", "prune"}],
         op' \in [Procs -> [kind : AllKinds \union {"none"}, rt : Runtimes \union {None},
                            pc : Pcs, seen : Runtimes \union {None}, todo : SUBSET Targets]],
         op'[p].kind \in {"prune", "reset", "none"}, Shape(op[p])', Knows(op[p])',
         session'[p] = IF op'[p].kind = "none" THEN "down" ELSE "prune",
         SelectionInv'
  PROVE  IInv'
<1>1. TypeOK /\ CacheInv /\ LocksType /\ CacheType
  BY Types DEF IInv
<1>2. \A q \in Procs \ {p} : op[q] = Idle /\ load[q] = NoLoad
  BY DEF IInv, ProcInv, SessionInv
<1>3. TypeOK'
  BY <1>1 DEF TypeOK, FilesType, locks
<1>4. LeaseInv'
  BY DEF IInv, LeaseInv, locks
<1>5. \A q \in Procs : op[q].kind \notin {"install", "clean"}
  BY <1>2, IdleType
<1>6. CacheInv'
  <2>1. \A i \in Inodes, q \in Procs : cache'[i] # q
    BY <1>1, <1>5 DEF CacheInv
  <2>2. \A h \in helpers', q \in Procs : h.parent # q
    BY <1>1, <1>5 DEF CacheInv
  <2> QED  BY <1>1, <2>1, <2>2 DEF CacheInv
<1>7. ASSUME NEW q \in Procs \ {p} PROVE ProcInv(q)'
  <2>1. op'[q] = Idle /\ load'[q] = NoLoad /\ session'[q] = "down"
    BY <1>2
  <2>2. SessionInv(q)'
    BY <2>1, IdleType DEF SessionInv
  <2>3. Shape(op[q])' /\ Holds(q, op[q])' /\ Knows(op[q])' /\ Loads(q, load[q])'
    BY <2>1 DEF Idle, NoLoad, Shape, PcsOf, Holds, Knows, Loads
  <2> QED  BY <2>2, <2>3 DEF ProcInv
<1>8. ProcInv(p)'
  <2>1. load'[p] = NoLoad
    OBVIOUS
  <2>2. Loads(p, load[p])'
    BY <2>1, NoLoadType DEF Loads
  <2>3. Holds(p, op[p])'
    BY DEF Holds
  <2>4. SessionInv(p)'
    BY <2>1 DEF SessionInv, Shape
  <2> QED  BY <2>2, <2>3, <2>4 DEF ProcInv
<1> QED  BY <1>3, <1>4, <1>6, <1>7, <1>8 DEF IInv

LEMMA PruneStartSound == ASSUME IInv, NEW p \in Procs, PruneStart(p) PROVE IInv'
<1>1. TypeOK /\ SessionInv(p) /\ session[p] = "down"
  BY DEF IInv, ProcInv, PruneStart
<1>2. op[p].kind = "none" /\ load[p] = NoLoad
  BY <1>1, IdleType DEF SessionInv
<1> DEFINE new == [Idle EXCEPT !.kind = "prune", !.pc = "locks"]
<1>3. /\ new.kind = "prune" /\ new.pc = "locks" /\ new.todo = {}
      /\ new \in [kind : AllKinds \union {"none"}, rt : Runtimes \union {None},
                  pc : Pcs, seen : Runtimes \union {None}, todo : SUBSET Targets]
  BY IdleType DEF AllKinds, Pcs, Idle
<1> HIDE DEF new
<1>4. op' = [op EXCEPT ![p] = new]
  BY DEF PruneStart, new
<1>5. /\ op' \in [Procs -> [kind : AllKinds \union {"none"}, rt : Runtimes \union {None},
                            pc : Pcs, seen : Runtimes \union {None}, todo : SUBSET Targets]]
      /\ op'[p] = new /\ \A q \in Procs \ {p} : op'[q] = op[q]
  BY <1>1, <1>3, <1>4 DEF TypeOK
<1>6. /\ session' \in [Procs -> {"down", "up", "prune"}] /\ session'[p] = "prune"
      /\ \A q \in Procs \ {p} : session'[q] = session[q]
  BY <1>1 DEF PruneStart, TypeOK
<1>7. UNCHANGED <<dir, selection, pin, load, locks, inode, cache, helpers>>
  BY DEF PruneStart, files, acquisition
<1>8. FilesType' /\ inode' \in Inodes /\ SelectionInv'
  BY <1>1, <1>7 DEF IInv, TypeOK, FilesType, SelectionInv, Visible
<1>9. Shape(op[p])'
  BY <1>3, <1>5 DEF Shape, PcsOf
<1>10. Knows(op[p])'
  BY <1>3, <1>5, <1>7 DEF Knows, PruneStart
<1>11. \A q \in Procs \ {p} : session[q] = "down"
  BY DEF PruneStart
<1> QED  BY <1>2, <1>3, <1>5, <1>6, <1>7, <1>8, <1>9, <1>10, <1>11, PruneSound

\* What a prune in progress has around it.
LEMMA PruneAlone ==
  ASSUME IInv, NEW p \in Procs, op[p].kind \in {"prune", "reset"}
  PROVE  /\ session[p] = "prune" /\ load[p] = NoLoad
         /\ \A q \in Procs \ {p} : session[q] = "down"
BY DEF IInv, ProcInv, SessionInv

LEMMA PruneReturnSound ==
  ASSUME IInv, NEW p \in Procs, op[p].kind \in {"prune", "reset"}, PruneReturn(p),
         UNCHANGED <<files, load, locks, acquisition>>
  PROVE  IInv'
<1>1. TypeOK
  BY DEF IInv
<1>2. /\ op' \in [Procs -> [kind : AllKinds \union {"none"}, rt : Runtimes \union {None},
                            pc : Pcs, seen : Runtimes \union {None}, todo : SUBSET Targets]]
      /\ op'[p] = Idle /\ \A q \in Procs \ {p} : op'[q] = op[q]
  BY <1>1, IdleType DEF PruneReturn, TypeOK
<1>3. /\ session' \in [Procs -> {"down", "up", "prune"}] /\ session'[p] = "down"
      /\ \A q \in Procs \ {p} : session'[q] = session[q]
  BY <1>1 DEF PruneReturn, TypeOK
<1>4. UNCHANGED <<dir, selection, pin, load, locks, inode, cache, helpers>>
  BY DEF files, acquisition
<1>5. FilesType' /\ inode' \in Inodes /\ SelectionInv'
  BY <1>1, <1>4 DEF IInv, TypeOK, FilesType, SelectionInv, Visible
<1>6. Shape(op[p])' /\ Knows(op[p])'
  BY <1>2 DEF Idle, Shape, PcsOf, Knows
<1> QED  BY <1>2, <1>3, <1>4, <1>5, <1>6, IdleType, PruneAlone, PruneSound

\* A step of a prune that goes on.
LEMMA PruneOn ==
  ASSUME IInv, NEW p \in Procs, op[p].kind \in {"prune", "reset"}, NEW o,
         o \in [kind : AllKinds \union {"none"}, rt : Runtimes \union {None},
                pc : Pcs, seen : Runtimes \union {None}, todo : SUBSET Targets],
         op' = [op EXCEPT ![p] = o], o.kind \in {"prune", "reset"}, Shape(o), Knows(o)',
         UNCHANGED <<session, load, locks, cache, helpers>>,
         FilesType', inode' \in Inodes, SelectionInv'
  PROVE  IInv'
<1>1. TypeOK
  BY DEF IInv
<1>2. /\ op' \in [Procs -> [kind : AllKinds \union {"none"}, rt : Runtimes \union {None},
                            pc : Pcs, seen : Runtimes \union {None}, todo : SUBSET Targets]]
      /\ op'[p] = o /\ \A q \in Procs \ {p} : op'[q] = op[q]
  BY <1>1 DEF TypeOK
<1>3. Shape(op[p])' /\ Knows(op[p])'
  BY <1>2 DEF Shape, Knows
<1>4. session' \in [Procs -> {"down", "up", "prune"}] /\ session'[p] = "prune"
  BY <1>1, PruneAlone DEF TypeOK
<1> QED  BY <1>2, <1>3, <1>4, PruneAlone, PruneSound

LEMMA PruneLocksSound == ASSUME IInv, NEW p \in Procs, PruneLocks(p) PROVE IInv'
<1>1. op[p].kind = "prune" /\ op[p].pc = "locks" /\ Knows(op[p]) /\ TypeOK
  BY ProcFacts DEF PruneLocks, At, IInv
<1>2. UNCHANGED <<files, load, locks, acquisition>>
  BY DEF PruneLocks
<1>3. CASE Goto(p, "plan") /\ UNCHANGED session
  <2>1. PICK o : o = [op[p] EXCEPT !.pc = "plan"]
    OBVIOUS
  <2>2. /\ o \in [kind : AllKinds \union {"none"}, rt : Runtimes \union {None},
                  pc : Pcs, seen : Runtimes \union {None}, todo : SUBSET Targets]
        /\ o.kind = "prune" /\ o.pc = "plan"
    BY <1>1, <2>1, ZenonT(60) DEF TypeOK, Pcs
  <2>3. op' = [op EXCEPT ![p] = o]
    BY <1>1, <1>3, <2>1 DEF Goto, TypeOK
  <2>4. Shape(o) /\ Knows(o)'
    BY <1>1, <1>2, <2>2 DEF Shape, PcsOf, Knows, acquisition
  <2>5. FilesType' /\ inode' \in Inodes /\ SelectionInv'
    BY <1>1, <1>2 DEF IInv, TypeOK, FilesType, SelectionInv, Visible, files, acquisition
  <2> QED  BY <1>1, <1>2, <1>3, <2>2, <2>3, <2>4, <2>5, PruneOn DEF acquisition
<1>4. CASE PruneReturn(p)
  BY <1>1, <1>2, <1>4, PruneReturnSound
<1> QED  BY <1>3, <1>4 DEF PruneLocks

\* The plan of a prune leaves what is selected or pinned; that of a reset
\* includes the selections.
LEMMA PrunePlanSound == ASSUME IInv, NEW p \in Procs, PrunePlan(p) PROVE IInv'
<1>1. op[p].kind = "prune" /\ op[p].pc = "plan" /\ Knows(op[p]) /\ TypeOK
  BY ProcFacts DEF PrunePlan, At, IInv
<1>2. PICK all \in BOOLEAN :
        op' = [op EXCEPT ![p].pc = "execute",
                         ![p].kind = IF all THEN "reset" ELSE "prune",
                         ![p].todo = {"cache"} \union
                           IF all THEN {"selections"} \union {r \in Runtimes : dir[r] # "none"}
                           ELSE {r \in Runtimes : Superseded(r)}]
  BY DEF PrunePlan
<1> DEFINE kd == IF all THEN "reset" ELSE "prune"
           td == {"cache"} \union
                 IF all THEN {"selections"} \union {r \in Runtimes : dir[r] # "none"}
                 ELSE {r \in Runtimes : Superseded(r)}
<1>3. /\ kd \in {"prune", "reset"} /\ td \in SUBSET Targets
      /\ kd = "reset" => "selections" \in td
      /\ kd = "prune" => \A r \in td \intersect Runtimes : r \notin {pin, selection}
  BY StoreAssumption DEF Targets, Superseded
<1>4. op' = [op EXCEPT ![p].pc = "execute", ![p].kind = kd, ![p].todo = td]
  BY <1>2
<1> HIDE DEF kd, td
<1>5. PICK o : o = [op[p] EXCEPT !.pc = "execute", !.kind = kd, !.todo = td]
  OBVIOUS
<1>6. /\ o \in [kind : AllKinds \union {"none"}, rt : Runtimes \union {None},
                pc : Pcs, seen : Runtimes \union {None}, todo : SUBSET Targets]
      /\ o.kind = kd /\ o.pc = "execute" /\ o.todo = td
  <2>1. "execute" \in Pcs /\ kd \in AllKinds \union {"none"}
    BY <1>3 DEF Pcs, AllKinds
  <2>2. op[p] \in [kind : AllKinds \union {"none"}, rt : Runtimes \union {None},
                   pc : Pcs, seen : Runtimes \union {None}, todo : SUBSET Targets]
    BY <1>1 DEF TypeOK
  <2>3. o = [kind |-> kd, rt |-> op[p].rt, pc |-> "execute", seen |-> op[p].seen, todo |-> td]
    BY <1>5, <2>2
  <2> QED  BY <1>3, <2>1, <2>2, <2>3
<1>7. op' = [op EXCEPT ![p] = o]
  BY <1>1, <1>4, <1>5 DEF TypeOK
<1>8. UNCHANGED <<dir, selection, pin, session, load, locks, inode, cache, helpers>>
  BY DEF PrunePlan, files, acquisition
<1>9. Shape(o)
  BY <1>3, <1>6 DEF Shape, PcsOf
<1>10. Knows(o)'
  BY <1>1, <1>3, <1>6, <1>8 DEF Knows
<1>11. FilesType' /\ inode' \in Inodes /\ SelectionInv'
  BY <1>1, <1>8 DEF IInv, TypeOK, FilesType, SelectionInv, Visible
<1> QED  BY <1>1, <1>3, <1>6, <1>7, <1>8, <1>9, <1>10, <1>11, PruneOn

\* Selections are gone before the first runtime is, and a runtime that is torn
\* is not the selected one.
LEMMA PruneExecuteSound == ASSUME IInv, NEW p \in Procs, PruneExecute(p) PROVE IInv'
<1>1. /\ op[p].kind \in {"prune", "reset"} /\ op[p].pc = "execute" /\ Knows(op[p]) /\ TypeOK
      /\ SelectionInv /\ UNCHANGED <<load, locks>>
  BY ProcFacts DEF PruneExecute, At, IInv
<1>2. CASE PruneReturn(p) /\ UNCHANGED <<files, acquisition>>
  BY <1>1, <1>2, PruneReturnSound
<1>3. ASSUME NEW t \in PruneOrder(op[p].todo), UNCHANGED <<session, pin, helpers, cache>>,
             \/ /\ t = "selections" /\ selection' = None
                /\ UNCHANGED <<dir, inode>>
             \/ /\ t = "cache" /\ inode' = inode + 1
                /\ UNCHANGED <<dir, selection>>,
             op' = [op EXCEPT ![p].todo = @ \ {t}]
      PROVE  IInv'
  <2>1. PICK o : o = [op[p] EXCEPT !.todo = @ \ {t}]
    OBVIOUS
  <2>2. /\ o \in [kind : AllKinds \union {"none"}, rt : Runtimes \union {None},
                  pc : Pcs, seen : Runtimes \union {None}, todo : SUBSET Targets]
        /\ o.kind = op[p].kind /\ o.pc = "execute" /\ o.todo = op[p].todo \ {t}
    BY <1>1, <2>1 DEF TypeOK
  <2>3. op' = [op EXCEPT ![p] = o]
    BY <1>1, <1>3, <2>1 DEF TypeOK
  <2>4. t \in op[p].todo
    BY <1>3 DEF PruneOrder
  <2>5. FilesType' /\ SelectionInv'
    BY <1>1, <1>3 DEF TypeOK, FilesType, SelectionInv, Visible
  <2>6. inode' \in Inodes /\ (t # "cache" => inode' = inode)
    BY <1>1, <1>3, <2>4, StoreAssumption DEF TypeOK, Knows, Inodes
  <2>7. Shape(o)
    BY <1>1, <2>2 DEF Shape, PcsOf
  <2>8. Knows(o)'
    <3>1. None \notin Runtimes
      BY StoreAssumption
    <3>2. \A r \in o.todo \intersect Runtimes : r \in op[p].todo \intersect Runtimes
      BY <2>2
    <3>3. o.kind = "prune" => \A r \in o.todo \intersect Runtimes : r \notin {pin', selection'}
      BY <1>1, <1>3, <2>2, <3>1, <3>2 DEF Knows
    <3>4. o.kind = "reset" /\ "selections" \notin o.todo => selection' = None
      BY <1>1, <1>3, <2>2 DEF Knows
    <3>5. "cache" \in o.todo => inode' < MaxPrunes
      BY <1>1, <2>2, <2>6 DEF Knows
    <3> QED  BY <1>1, <2>2, <3>3, <3>4, <3>5 DEF Knows
  <2> QED  BY <1>1, <1>3, <2>2, <2>3, <2>5, <2>6, <2>7, <2>8, PruneOn
<1>4. ASSUME NEW t \in PruneOrder(op[p].todo), UNCHANGED <<session, pin, helpers, cache>>,
             t \in Runtimes, NEW d \in Torn(dir[t]), dir' = [dir EXCEPT ![t] = d],
             op' = [op EXCEPT ![p].pc = "tear", ![p].rt = t],
             UNCHANGED <<selection, inode>>
      PROVE  IInv'
  <2>1. PICK o : o = [op[p] EXCEPT !.pc = "tear", !.rt = t]
    OBVIOUS
  <2>2. /\ o \in [kind : AllKinds \union {"none"}, rt : Runtimes \union {None},
                  pc : Pcs, seen : Runtimes \union {None}, todo : SUBSET Targets]
        /\ o.kind = op[p].kind /\ o.pc = "tear" /\ o.rt = t /\ o.todo = op[p].todo
    BY <1>1, <1>4, <2>1, ZenonT(60) DEF TypeOK, Pcs
  <2>3. op' = [op EXCEPT ![p] = o]
    BY <1>1, <1>4, <2>1 DEF TypeOK
  <2>4. t \in op[p].todo /\ "selections" \notin op[p].todo
    BY <1>4, StoreAssumption DEF PruneOrder
  <2>5. selection # t
    BY <1>1, <1>4, <2>4, StoreAssumption DEF Knows
  <2>6. d \in DirStates
    BY <1>1, <1>4, TornInvisible DEF TypeOK
  <2>7. FilesType' /\ inode' \in Inodes
    BY <1>1, <1>4, <2>6 DEF TypeOK, FilesType
  <2>8. SelectionInv'
    BY <1>1, <1>4, <2>5 DEF TypeOK, SelectionInv, Visible
  <2>9. Shape(o)
    BY <1>1, <2>2 DEF Shape, PcsOf
  <2>10. Knows(o)'
    BY <1>1, <1>4, <2>2, <2>4, <2>5 DEF Knows
  <2> QED  BY <1>1, <1>4, <2>2, <2>3, <2>7, <2>8, <2>9, <2>10, PruneOn
<1>5. CASE PruneReturn(p) /\ UNCHANGED <<files, acquisition>>
  BY <1>2, <1>5
<1>6. CASE \E t \in PruneOrder(op[p].todo) :
          /\ UNCHANGED <<session, pin, helpers, cache>>
          /\ \/ /\ t = "selections"
                /\ selection' = None
                /\ op' = [op EXCEPT ![p].todo = @ \ {t}]
                /\ UNCHANGED <<dir, inode>>
             \/ /\ t = "cache"
                /\ inode' = inode + 1
                /\ op' = [op EXCEPT ![p].todo = @ \ {t}]
                /\ UNCHANGED <<dir, selection>>
             \/ /\ t \in Runtimes
                /\ \E d \in Torn(dir[t]) : dir' = [dir EXCEPT ![t] = d]
                /\ op' = [op EXCEPT ![p].pc = "tear", ![p].rt = t]
                /\ UNCHANGED <<selection, inode>>
  <2>1. PICK t \in PruneOrder(op[p].todo) :
          /\ UNCHANGED <<session, pin, helpers, cache>>
          /\ \/ /\ t = "selections"
                /\ selection' = None
                /\ op' = [op EXCEPT ![p].todo = @ \ {t}]
                /\ UNCHANGED <<dir, inode>>
             \/ /\ t = "cache"
                /\ inode' = inode + 1
                /\ op' = [op EXCEPT ![p].todo = @ \ {t}]
                /\ UNCHANGED <<dir, selection>>
             \/ /\ t \in Runtimes
                /\ \E d \in Torn(dir[t]) : dir' = [dir EXCEPT ![t] = d]
                /\ op' = [op EXCEPT ![p].pc = "tear", ![p].rt = t]
                /\ UNCHANGED <<selection, inode>>
    BY <1>6
  <2> QED  BY <1>3, <1>4, <2>1
<1> QED  BY <1>5, <1>6 DEF PruneExecute

LEMMA PruneTearSound == ASSUME IInv, NEW p \in Procs, PruneTear(p) PROVE IInv'
<1> DEFINE r == op[p].rt
<1>1. /\ op[p].kind \in {"prune", "reset"} /\ op[p].pc = "tear" /\ Knows(op[p]) /\ TypeOK
      /\ SelectionInv /\ UNCHANGED <<selection, pin, session, load, locks, acquisition>>
  BY ProcFacts DEF PruneTear, At, IInv
<1>2. r \in Runtimes /\ selection # r
  BY <1>1 DEF Knows
<1>3. PICK o : o = [op[p] EXCEPT !.pc = "execute", !.todo = @ \ {op[p].rt}]
  OBVIOUS
<1>4. /\ o \in [kind : AllKinds \union {"none"}, rt : Runtimes \union {None},
                pc : Pcs, seen : Runtimes \union {None}, todo : SUBSET Targets]
      /\ o.kind = op[p].kind /\ o.pc = "execute" /\ o.todo = op[p].todo \ {r}
  BY <1>1, <1>3, ZenonT(60) DEF TypeOK, Pcs
<1>5. op' = [op EXCEPT ![p] = o]
  BY <1>1, <1>3 DEF TypeOK, PruneTear
<1>6. dir' = [dir EXCEPT ![r] = "none"]
  BY DEF PruneTear
<1>7. UNCHANGED <<inode, cache, helpers>>
  BY <1>1 DEF acquisition
<1>8. FilesType' /\ inode' \in Inodes
  BY <1>1, <1>2, <1>6, <1>7 DEF TypeOK, FilesType, DirStates
<1>9. SelectionInv'
  BY <1>1, <1>2, <1>6 DEF TypeOK, SelectionInv, Visible
<1>10. Shape(o)
  BY <1>1, <1>4 DEF Shape, PcsOf
<1>11. Knows(o)'
  <2>1. "selections" # r
    BY <1>2, StoreAssumption
  <2> QED  BY <1>1, <1>4, <1>7, <2>1 DEF Knows
<1> QED  BY <1>1, <1>4, <1>5, <1>7, <1>8, <1>9, <1>10, <1>11, PruneOn

-----------------------------------------------------------------------------
(* The invariant.                                                          *)

LEMMA InitSound == Init => IInv
<1> SUFFICES ASSUME Init PROVE IInv
  OBVIOUS
<1>1. \A p \in Procs : op[p] = Idle /\ load[p] = NoLoad /\ session[p] = "down"
  BY DEF Init
<1>2. TypeOK
  BY IdleType, NoLoadType, StoreAssumption DEF Init, TypeOK, DirStates, Inodes
<1>3. ASSUME NEW p \in Procs PROVE ProcInv(p)
  <2>1. SessionInv(p)
    BY <1>1, IdleType DEF SessionInv
  <2> QED  BY <1>1, <2>1, IdleType, IdleHolds, NoLoadType DEF ProcInv, Loads
<1>4. LeaseInv /\ SelectionInv
  BY DEF Init, LeaseInv, SelectionInv
<1>5. CacheInv
  BY StoreAssumption DEF Init, CacheInv
<1> QED  BY <1>2, <1>3, <1>4, <1>5 DEF IInv

LEMMA AdvanceSound == ASSUME IInv, NEW p \in Procs, Advance(p) PROVE IInv'
BY LeaseSound, RecheckSound, CacheLockSound, StageSound, MarkSound, AcquireSound, LookSound,
   ProvisionSound, DropSound, TransactionSound, ExclusiveSound, ActivateSound,
   ActivatePythonSound, EraseSound, WriteSound, PinLeaseSound, PruneLocksSound,
   PrunePlanSound, PruneExecuteSound, PruneTearSound DEF Advance

LEMMA StutterSound == IInv /\ UNCHANGED vars => IInv'
<1> SUFFICES ASSUME IInv, UNCHANGED vars PROVE IInv'
  OBVIOUS
<1>1. UNCHANGED <<dir, selection, pin, session, op, load, txn, excl, shared, inst, inode,
                  cache, helpers>>
  BY DEF vars
<1>2. TypeOK'
  BY <1>1 DEF IInv, TypeOK
<1>3. LeaseInv' /\ CacheInv' /\ SelectionInv'
  BY <1>1 DEF IInv, LeaseInv, CacheInv, SelectionInv, Visible
<1>4. ASSUME NEW p \in Procs PROVE ProcInv(p)'
  <2>1. SessionInv(p) /\ Shape(op[p]) /\ Holds(p, op[p]) /\ Knows(op[p]) /\ Loads(p, load[p])
    BY DEF IInv, ProcInv
  <2>2. SessionInv(p)' /\ Shape(op[p])'
    BY <1>1, <2>1 DEF SessionInv, Shape
  <2>3. Holds(p, op[p])'
    BY <1>1, <2>1 DEF Holds
  <2>4. Knows(op[p])' /\ Loads(p, load[p])'
    BY <1>1, <2>1 DEF Knows, Loads, Visible
  <2> QED  BY <2>2, <2>3, <2>4 DEF ProcInv
<1> QED  BY <1>2, <1>3, <1>4 DEF IInv

LEMMA StepSound == IInv /\ [Next]_vars => IInv'
<1> SUFFICES ASSUME IInv, Next PROVE IInv'
  BY StutterSound
<1>1. ASSUME NEW p \in Procs, Starts(p) PROVE IInv'
  BY <1>1, StartsSound, PruneStartSound
<1> QED  BY <1>1, OpenSound, CrashSound, AdvanceSound, CancelSound, ServeSound, OrphanSound
         DEF Next

\* What is in use is installed (manager.rs:1531, prune.rs:17): a backend that runs
\* and the persisted selection always name an installed runtime, however installs,
\* removals, prunes, helpers and crashes of any number of processes interleave.
THEOREM InUse == Spec => []InUseIsInstalled
<1>1. IInv => InUseIsInstalled
  BY DEF IInv, ProcInv, Loads, SelectionInv, InUseIsInstalled
<1> QED  BY InitSound, StepSound, <1>1, PTL DEF Spec

\* One process at a time works in the private Python caches under one file of the
\* acquisition lock, helpers that outlived their parents included
\* (supervisor.rs:140).
THEOREM OneUser == Spec => []OneCacheUser
<1>1. IInv => OneCacheUser
  <2> SUFFICES ASSUME IInv, NEW u \in CacheUsers, NEW v \in CacheUsers, u[1] = v[1]
               PROVE  u = v
    BY DEF OneCacheUser
  <2> DEFINE Hs == {<<h.ino, h>> : h \in helpers}
             Ps == {x \in Inodes \X Procs : cache[x[1]] = x[2] /\ op[x[2]].pc = "wipe"}
  <2>1. u \in Hs \union Ps /\ v \in Hs \union Ps
    BY DEF CacheUsers
  <2>2. CASE u \in Hs /\ v \in Hs
    BY <2>2 DEF IInv, CacheInv
  <2>3. CASE u \in Ps /\ v \in Ps
    BY <2>3
  <2>4. ASSUME NEW x \in Hs, NEW y \in Ps, x[1] = y[1] PROVE FALSE
    <3>1. PICK h \in helpers : x = <<h.ino, h>>
      OBVIOUS
    <3>2. cache[h.ino] = h.parent /\ h.parent = y[2] /\ y[2] \in Procs
      BY <2>4, <3>1 DEF IInv, CacheInv
    <3>3. op[y[2]].pc = "provision"
      BY <3>2 DEF IInv, CacheInv
    <3> QED  BY <3>3
  <2> HIDE DEF Hs, Ps
  <2> QED  BY <2>1, <2>2, <2>3, <2>4
<1> QED  BY InitSound, StepSound, <1>1, PTL DEF Spec

-----------------------------------------------------------------------------
(* Which steps make a runtime appear or disappear.                         *)

Writes(p) ==
  \/ StagePython(p) \/ RecoverPython(p) \/ MarkPython(p) \/ DropStaging(p)
  \/ EraseStaging(p) \/ Activate(p) \/ Publish(p) \/ ActivatePython(p) \/ UnmarkPython(p)
  \/ RemoveErase(p) \/ PruneExecute(p) \/ PruneTear(p)

LEMMA QuietSteps ==
  ASSUME NEW p \in Procs,
         Open(p) \/ Close(p) \/ Crash(p) \/ Starts(p) \/ Advance(p) \/ Cancel(p) \/ Serve(p),
         ~Writes(p)
  PROVE  dir' = dir
<1>1. ASSUME Open(p) \/ Close(p) \/ Crash(p) \/ Cancel(p) \/ Serve(p) PROVE dir' = dir
  BY <1>1 DEF Open, Close, Crash, Cancel, Serve, LoadResolve, LoadLease, LoadLaunch, LoadEnd,
              files
<1>2. ASSUME Starts(p) PROVE dir' = dir
  BY <1>2 DEF Starts, InstallStart, RemoveStart, SelectStart, PinStart, UnselectStart,
              UnpinStart, CleanStart, PruneStart, Begin, files
<1>3. ASSUME Advance(p) PROVE dir' = dir
  BY <1>3 DEF Advance, Writes, InstallLease, InstallRecheck, CacheLock, Acquire, Produce, Probe,
              Provision, AcquireTransaction, AcquireExclusive, RemoveCheck, SelectCheck,
              WriteSelection, PinLease, PinCheck, WritePin, CleanEnd, PruneLocks, PrunePlan, files
<1> QED  BY <1>1, <1>2, <1>3

\* The steps of an installation.
LEMMA InstallWrites ==
  ASSUME IInv, NEW p \in Procs, NEW r \in Runtimes,
         \/ StagePython(p) \/ RecoverPython(p) \/ MarkPython(p) \/ DropStaging(p)
         \/ EraseStaging(p) \/ Activate(p) \/ Publish(p) \/ ActivatePython(p)
         \/ UnmarkPython(p)
  PROVE  /\ Visible(r) => IsVisible(dir'[r])
         /\ ~Visible(r) /\ IsVisible(dir'[r]) =>
              /\ dir'[r] \in {"whole", "marked"} /\ op[p].rt = r
              /\ op[p].kind = "install" /\ op[p].pc # "provision"
              /\ r \in Python => cache[inode] = p
<1>1. /\ op[p].kind = "install" /\ op[p].rt \in Runtimes /\ Shape(op[p])
      /\ Holds(p, op[p]) /\ Knows(op[p]) /\ op[p].pc # "provision"
      /\ dir \in [Runtimes -> DirStates]
  BY ProcFacts DEF StagePython, RecoverPython, MarkPython, DropStaging, EraseStaging, Activate,
                   Publish, ActivatePython, UnmarkPython, At, Shape, IInv, TypeOK
<1>2. op[p].pc \in {"stage", "recover", "mark", "drop", "erase", "unmark"} => op[p].rt \in Python
  BY <1>1 DEF Shape, PcsOf
<1>3. dir[op[p].rt] \in DirStates
  BY <1>1
<1>4. CASE StagePython(p)
  BY <1>1, <1>3, <1>4, TornInvisible DEF StagePython, Visible, IsVisible
<1>5. CASE RecoverPython(p) \/ MarkPython(p) \/ EraseStaging(p)
  <2>1. ~Visible(op[p].rt)
    BY <1>1, <1>2, <1>5 DEF RecoverPython, MarkPython, EraseStaging, At, Knows
  <2> QED  BY <1>1, <1>5, <2>1 DEF RecoverPython, MarkPython, EraseStaging, Visible, IsVisible
<1>6. CASE DropStaging(p)
  <2>1. ~Visible(op[p].rt)
    BY <1>1, <1>2, <1>6 DEF DropStaging, At, Knows
  <2> QED  BY <1>1, <1>3, <1>6, <2>1, TornInvisible DEF DropStaging, Visible
<1>7. CASE Activate(p)
  BY <1>1, <1>7 DEF Activate, Visible, IsVisible, At
<1>8. CASE Publish(p)
  <2>1. op[p].rt \notin Python
    BY <1>1, <1>8 DEF Publish, At, Shape, PcsOf
  <2> QED  BY <1>1, <1>8, <2>1 DEF Publish, Visible, IsVisible
<1>9. CASE ActivatePython(p)
  BY <1>1, <1>9 DEF ActivatePython, Visible, IsVisible, At, Holds
<1>10. CASE UnmarkPython(p)
  BY <1>1, <1>2, <1>10 DEF UnmarkPython, Visible, IsVisible, At, Holds
<1> QED  BY <1>4, <1>5, <1>6, <1>7, <1>8, <1>9, <1>10

\* The steps of a removal, a prune or a reset.
LEMMA RemovalWrites ==
  ASSUME IInv, NEW p \in Procs, NEW r \in Runtimes,
         RemoveErase(p) \/ PruneExecute(p) \/ PruneTear(p)
  PROVE  /\ ~Visible(r) => ~IsVisible(dir'[r])
         /\ Visible(r) /\ ~IsVisible(dir'[r]) =>
              /\ op[p].kind \in {"remove", "prune", "reset"} /\ op'[p] # op[p]
              /\ op[p].kind # "reset" => pin # r
<1>1. /\ Knows(op[p]) /\ TypeOK /\ op[p].kind \in {"remove", "prune", "reset"}
      /\ dir[r] \in DirStates
  BY ProcFacts DEF IInv, RemoveErase, PruneExecute, PruneTear, At, TypeOK
<1>2. CASE RemoveErase(p)
  <2>1. op'[p] = Idle
    BY <1>1, <1>2 DEF RemoveErase, Return, TypeOK
  <2>2. pin # op[p].rt
    BY <1>1, <1>2 DEF RemoveErase, At, Knows
  <2> QED  BY <1>1, <1>2, <2>1, <2>2, IdleType DEF RemoveErase, Visible, IsVisible, TypeOK
<1>3. CASE PruneTear(p)
  <2>1. op'[p].pc = "execute" /\ op[p].pc = "tear"
    BY <1>1, <1>3 DEF PruneTear, At, TypeOK
  <2>2. op[p].kind = "prune" => pin # op[p].rt
    BY <1>1, <1>3 DEF PruneTear, At, Knows
  <2>3. op[p].kind \in {"prune", "reset"} /\ dir' = [dir EXCEPT ![op[p].rt] = "none"]
    BY <1>3 DEF PruneTear, At
  <2> QED  BY <1>1, <2>1, <2>2, <2>3 DEF Visible, IsVisible, TypeOK
<1>4. CASE PruneExecute(p)
  <2>1. CASE dir' = dir
    BY <2>1 DEF Visible
  <2>2. CASE dir' # dir
    <3>1. PICK t \in Runtimes : \E d \in Torn(dir[t]) :
            /\ t \in PruneOrder(op[p].todo) /\ dir' = [dir EXCEPT ![t] = d]
            /\ op' = [op EXCEPT ![p].pc = "tear", ![p].rt = t]
            /\ op[p].kind \in {"prune", "reset"} /\ op[p].pc = "execute"
      BY <1>4, <2>2 DEF PruneExecute, PruneReturn, files, At
    <3>d. PICK d \in Torn(dir[t]) : dir' = [dir EXCEPT ![t] = d]
      BY <3>1
    <3>2. op'[p].pc = "tear"
      BY <1>1, <3>1 DEF TypeOK
    <3>3. t \in op[p].todo
      BY <3>1 DEF PruneOrder
    <3>4. op[p].kind = "prune" => pin # t
      BY <1>1, <3>1, <3>3 DEF Knows
    <3>5. ~Visible(t) => ~IsVisible(d)
      BY <1>1, TornInvisible DEF TypeOK, Visible
    <3> QED  BY <1>1, <3>1, <3>d, <3>2, <3>4, <3>5 DEF Visible, TypeOK
  <2> QED  BY <2>1, <2>2
<1> QED  BY <1>2, <1>3, <1>4

\* Of all steps.
LEMMA NextWrites ==
  ASSUME IInv, Next, NEW r \in Runtimes
  PROVE  /\ ~Visible(r) /\ IsVisible(dir'[r]) =>
              /\ dir'[r] \in {"whole", "marked"}
              /\ \E p \in Procs : /\ op[p].kind = "install" /\ op[p].pc # "provision"
                                  /\ r \in Python => cache[inode] = p
         /\ Visible(r) /\ ~IsVisible(dir'[r]) =>
              \E p \in Procs : /\ op[p].kind \in {"remove", "prune", "reset"}
                               /\ op'[p] # op[p]
                               /\ op[p].kind # "reset" => pin # r
<1>1. CASE \E h \in helpers : OrphanExits(h)
  BY <1>1 DEF OrphanExits, files, Visible
<1>2. ASSUME NEW p \in Procs,
             Open(p) \/ Close(p) \/ Crash(p) \/ Starts(p) \/ Advance(p) \/ Cancel(p) \/ Serve(p)
      PROVE  \/ dir' = dir
             \/ \/ StagePython(p) \/ RecoverPython(p) \/ MarkPython(p) \/ DropStaging(p)
                \/ EraseStaging(p) \/ Activate(p) \/ Publish(p) \/ ActivatePython(p)
                \/ UnmarkPython(p)
             \/ RemoveErase(p) \/ PruneExecute(p) \/ PruneTear(p)
  BY <1>2, QuietSteps DEF Writes
<1>3. ASSUME NEW p \in Procs,
             Open(p) \/ Close(p) \/ Crash(p) \/ Starts(p) \/ Advance(p) \/ Cancel(p) \/ Serve(p)
      PROVE  /\ ~Visible(r) /\ IsVisible(dir'[r]) =>
                  /\ dir'[r] \in {"whole", "marked"}
                  /\ op[p].kind = "install" /\ op[p].pc # "provision"
                  /\ r \in Python => cache[inode] = p
             /\ Visible(r) /\ ~IsVisible(dir'[r]) =>
                  /\ op[p].kind \in {"remove", "prune", "reset"}
                  /\ op'[p] # op[p]
                  /\ op[p].kind # "reset" => pin # r
  <2>1. CASE dir' = dir
    BY <2>1 DEF Visible
  <2>2. CASE \/ StagePython(p) \/ RecoverPython(p) \/ MarkPython(p) \/ DropStaging(p)
             \/ EraseStaging(p) \/ Activate(p) \/ Publish(p) \/ ActivatePython(p)
             \/ UnmarkPython(p)
    BY <2>2, InstallWrites
  <2>3. CASE RemoveErase(p) \/ PruneExecute(p) \/ PruneTear(p)
    BY <2>3, RemovalWrites
  <2> QED  BY <1>2, <1>3, <2>1, <2>2, <2>3
<1> QED  BY <1>1, <1>3 DEF Next

\* The pin is written by one action, over an installed runtime.
LEMMA PinSteps ==
  ASSUME IInv, Next, pin' # pin, pin' # None
  PROVE  IsVisible(dir'[pin'])
<1>1. ASSUME NEW p \in Procs,
             Open(p) \/ Close(p) \/ Crash(p) \/ Starts(p) \/ Advance(p) \/ Cancel(p) \/ Serve(p)
      PROVE  WritePin(p)
  <2>1. ASSUME Open(p) \/ Close(p) \/ Crash(p) \/ Cancel(p) \/ Serve(p) PROVE FALSE
    BY <2>1 DEF Open, Close, Crash, Cancel, Serve, LoadResolve, LoadLease, LoadLaunch, LoadEnd,
                files
  <2>2. ASSUME Starts(p) PROVE FALSE
    BY <2>2 DEF Starts, InstallStart, RemoveStart, SelectStart, PinStart, UnselectStart,
                UnpinStart, CleanStart, PruneStart, Begin, files
  <2>3. ASSUME Writes(p) PROVE FALSE
    BY <2>3 DEF Writes, StagePython, RecoverPython, MarkPython, DropStaging, EraseStaging,
                Activate, Publish, ActivatePython, UnmarkPython, RemoveErase, PruneExecute,
                PruneTear, files
  <2>4. ASSUME Advance(p), ~Writes(p) PROVE WritePin(p)
    BY <2>4 DEF Advance, Writes, InstallLease, InstallRecheck, CacheLock, Acquire, Produce, Probe,
                Provision, AcquireTransaction, AcquireExclusive, RemoveCheck, SelectCheck,
                WriteSelection, PinLease, PinCheck, CleanEnd, PruneLocks, PrunePlan, files
  <2> QED  BY <1>1, <2>1, <2>2, <2>3, <2>4
<1>2. PICK p \in Procs : WritePin(p)
  BY <1>1 DEF Next, OrphanExits, files
<1>3. Shape(op[p]) /\ Knows(op[p])
  BY ProcFacts
<1>4. op[p].kind \in {"pin", "unpin"} /\ op[p].pc = "write" /\ pin' = op[p].rt /\ dir' = dir
  BY <1>2 DEF WritePin, At
<1> QED  BY <1>3, <1>4 DEF Shape, Knows, Visible

\* A pin is written over an installed runtime and protects it (store.rs:483): only
\* the reset of prune --all leaves one dangling, whatever the interleaving.
THEOREM PinKept == Spec => PinIsInstalled
<1> DEFINE A == (pin' # None /\ ~IsVisible(dir'[pin'])) =>
                  \/ pin' = pin /\ ~Visible(pin)
                  \/ \E p \in Procs : op[p].kind = "reset"
<1>1. IInv /\ [Next]_vars => [A]_vars
  <2> SUFFICES ASSUME IInv, Next, pin' # None, ~IsVisible(dir'[pin']),
                      \A p \in Procs : op[p].kind # "reset"
               PROVE  pin' = pin /\ ~Visible(pin)
    OBVIOUS
  <2>1. pin' = pin
    BY PinSteps
  <2>2. pin \in Runtimes
    BY <2>1 DEF IInv, TypeOK
  <2> QED  BY <2>1, <2>2, NextWrites
<1>2. Spec => [][A]_vars
  <2> HIDE DEF A
  <2> QED  BY InitSound, StepSound, <1>1, PTL DEF Spec
<1> QED  BY <1>2 DEF PinIsInstalled

\* A runtime appears whole, with no helper writing it under the acquisition lock
\* (store.rs:322), and disappears only by a step of a removal, a prune or a reset.
THEOREM WholeOrNot == Spec => AppearsWhole
<1> DEFINE A == \A r \in Runtimes :
                  /\ ~Visible(r) /\ IsVisible(dir'[r]) =>
                       /\ dir'[r] \in {"whole", "marked"}
                       /\ \A h \in helpers : h.rt = r => h.ino # inode
                  /\ Visible(r) /\ ~IsVisible(dir'[r]) =>
                       \E p \in Procs : /\ op[p].kind \in {"remove", "prune", "reset"}
                                        /\ op'[p] # op[p]
<1>1. IInv /\ [Next]_vars => [A]_vars
  <2> SUFFICES ASSUME IInv, Next, NEW r \in Runtimes
               PROVE  /\ ~Visible(r) /\ IsVisible(dir'[r]) =>
                           /\ dir'[r] \in {"whole", "marked"}
                           /\ \A h \in helpers : h.rt = r => h.ino # inode
                      /\ Visible(r) /\ ~IsVisible(dir'[r]) =>
                           \E p \in Procs : /\ op[p].kind \in {"remove", "prune", "reset"}
                                            /\ op'[p] # op[p]
    OBVIOUS
  <2>1. ASSUME ~Visible(r), IsVisible(dir'[r]), NEW h \in helpers, h.rt = r, h.ino = inode
        PROVE  FALSE
    <3>1. h.rt \in Python /\ cache[h.ino] = h.parent
      BY DEF IInv, CacheInv
    <3>2. PICK p \in Procs : op[p].pc # "provision" /\ cache[inode] = p
      BY <2>1, <3>1, NextWrites
    <3> QED  BY <2>1, <3>1, <3>2 DEF IInv, CacheInv
  <2> QED  BY <2>1, NextWrites
<1>2. Spec => [][A]_vars
  <2> HIDE DEF A
  <2> QED  BY InitSound, StepSound, <1>1, PTL DEF Spec
<1> QED  BY <1>2 DEF AppearsWhole

=============================================================================
