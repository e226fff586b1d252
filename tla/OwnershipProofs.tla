--------------------------- MODULE OwnershipProofs ---------------------------
(***************************************************************************)
(* Proofs about Ownership: one server answers for a state directory, an    *)
(* executable is replaced alone and never by an older one, a load that is  *)
(* reported as done was done.                                              *)
(*                                                                         *)
(* Every lock is on a file and held by a process, so the argument is one   *)
(* of rely and guarantee: ProcInv says what a process holds and knows at   *)
(* each point, and the locks say what the steps of others leave of it.     *)
(***************************************************************************)
EXTENDS Ownership, TLAPS

Sessions == {"tui", "serve", "load"}
Modes == {"shared", "exclusive"}

\* The points of each kind of process.
AtsOf(kind) ==
  CASE kind \in {"tui", "serve"} ->
         {"locking", "start", "look", "bind", "claim", "publish", "ready", "failed", "serving",
          "stopping", "attached"}
    [] kind = "load" -> {"locking", "find", "admit", "wait", "loaded"}
    [] kind = "update" -> {"approve", "locking", "servers", "recheck", "replace"}
    [] kind = "prune" -> {"locking", "servers", "erase"}
    [] kind = "none" -> {"off"}

Shape(c) ==
  /\ c.kind \in Kinds \union {"none"} /\ c.at \in AtsOf(c.kind)
  /\ c.at = "approve" => c.n = 0
  /\ c.kind # "none" => c.root \in Roots /\ c.path \in Paths
  /\ c.at = "locking" =>
       /\ c.kind \in Sessions => c.n \in 0..2
       /\ c.kind = "update" => c.n \in 0..5
       /\ c.kind = "prune" => c.n = 0 \/ (c.n = 1 /\ c.root \in started)
  /\ c.kind \in Sessions /\ c.at # "locking" => c.n = 3
  /\ c.kind = "update" /\ c.at \notin {"approve", "locking"} => c.n = 6
  /\ c.kind = "prune" /\ c.at # "locking" => c.n >= 1
  /\ c.step # "idle" => c.at \in {"look", "failed", "ready", "find"}
  /\ c.step = "verify" => c.at # "find"
  /\ c.at = "publish" => c.control \in ControlPorts

\* What a process c holds.
Holding(c, locks) ==
  /\ c.kind \in Sessions =>
       /\ c.n >= 1 => << <<"path", c.path>>, "shared">> \in locks
       /\ c.n >= 2 /\ c.path # Owned => << <<"file", 0>>, "shared">> \in locks
       /\ c.n >= 3 => << <<"storage", c.root>>, "shared">> \in locks
  /\ c.kind = "update" =>
       /\ c.n >= 1 => << <<"path", c.path>>, "exclusive">> \in locks
       /\ c.n >= 2 => << <<"receipt", Owned>>, "exclusive">> \in locks
       /\ c.n >= 4 => << <<"file", file[Owned]>>, "exclusive">> \in locks
       /\ c.n >= 5 => << <<"storage", c.root>>, "exclusive">> \in locks
  /\ c.kind = "prune" /\ c.n >= 1 => << <<"storage", c.root>>, "exclusive">> \in locks
  /\ c.at \in {"publish", "ready", "serving", "stopping"} =>
       << <<"owner", c.root>>, "exclusive">> \in locks

\* Instance i serves root, if it still does.
Of(i, root) ==
  /\ i \in Instances /\ i < next
  /\ \A q \in Procs : proc[q].inst = i => proc[q].root = root

\* What it knows.
Knows(c) ==
  /\ c.kind # "none" /\ c.path # Owned => c.version = 0
  /\ c.kind = "update" => c.candidate > c.version /\ (c.at # "approve" => c.path = Owned)
  /\ c.at = "replace" => c.version = receipt
  /\ c.step = "probed" => \A s \in c.seen : Of(s[1], c.root)
  /\ c.step = "verify" \/ c.at \in {"admit", "wait"} => Of(c.found, c.root)
  /\ c.at = "wait" => c.by = c.found
  /\ c.at = "serving" => c.found = c.inst

ProcInv(p) == Shape(proc[p]) /\ Holding(proc[p], held[p]) /\ Knows(proc[p])

\* Every process is described by a record of these fields.
Fields ==
  {"kind", "at", "root", "path", "version", "n", "candidate", "config", "port", "control",
   "inst", "step", "seen", "found", "address", "gen", "life", "want", "by"}
IsRec(c) == c = [f \in Fields |-> c[f]]

Typing ==
  /\ proc = [p \in Procs |-> proc[p]]
  /\ held = [p \in Procs |-> held[p]]
  /\ record = [i \in Instances |-> record[i]]
  /\ file \in [Paths -> 0..MaxVersion]
  /\ next \in Nat \ {0}
  /\ \A p \in Procs :
       IsRec(proc[p]) /\ proc[p].inst \in Nat /\ proc[p].candidate \in 0..MaxVersion

\* An exclusive lock has no second holder.
LockInv ==
  \A p, q \in Procs, l \in Locks, m \in Modes :
    p # q /\ <<l, "exclusive">> \in held[p] => <<l, m>> \notin held[q]

InstInv ==
  /\ \A p \in Procs : proc[p].inst < next
  /\ \A p, q \in Procs : p # q /\ proc[p].inst = proc[q].inst => proc[p].inst = 0

RecordInv ==
  \A i \in Instances : record[i].listed =>
    Of(i, record[i].root) /\ record[i].control \in ControlPorts

FileInv == receipt = file[Owned] /\ \A x \in Paths \ {Owned} : file[x] = 0

IInv ==
  Typing /\ (\A p \in Procs : ProcInv(p)) /\ LockInv /\ InstInv /\ RecordInv /\ FileInv

-----------------------------------------------------------------------------
(* Rely and guarantee.                                                     *)

\* The same process, its profile's entry aside.
Alike(c, d) ==
  /\ d.kind = c.kind /\ d.at = c.at /\ d.root = c.root /\ d.path = c.path
  /\ d.version = c.version /\ d.n = c.n /\ d.candidate = c.candidate
  /\ d.control = c.control /\ d.inst = c.inst /\ d.step = c.step /\ d.seen = c.seen
  /\ d.found = c.found /\ d.by = c.by

Others(p) ==
  \A q \in Procs \ {p} : Alike(proc[q], proc'[q]) /\ held'[q] = held[q]

\* p takes no lock that another holds against it, and the installed files change
\* only when nobody else holds the lock of the receipt.
LocksKept(p) ==
  /\ \A l \in Locks, m \in Modes :
       <<l, m>> \in held'[p] /\ <<l, m>> \notin held[p] => Grantable(p, l, m)
  /\ \A q \in Procs \ {p} :
       << <<"receipt", Owned>>, "exclusive">> \in held[q] => UNCHANGED disk

InstKept(p) ==
  \/ next' = next /\ proc'[p].inst = 0
  \/ next' = next /\ proc'[p].inst = proc[p].inst /\ proc'[p].root = proc[p].root
  \/ next' = next + 1 /\ proc'[p].inst = next

\* An instance that serves a root goes on serving it or ends.
LEMMA OfKept ==
  ASSUME IInv, NEW p \in Procs, Others(p), InstKept(p), NEW i, NEW root, Of(i, root)
  PROVE  Of(i, root)'
<1>1. next \in Nat /\ i \in Nat \ {0} /\ i < next
  BY OwnershipAssumption DEF IInv, Typing, Of, Instances
<1>2. i < next'
  BY <1>1 DEF InstKept
<1>3. ASSUME NEW q \in Procs, proc'[q].inst = i PROVE proc'[q].root = root
  <2>1. CASE q = p
    BY <1>1, <1>3, <2>1 DEF InstKept, Of
  <2>2. CASE q # p
    BY <1>3, <2>2 DEF Others, Alike, Of
  <2> QED  BY <2>1, <2>2
<1> QED  BY <1>2, <1>3 DEF Of

LEMMA Rely ==
  ASSUME IInv, NEW p \in Procs, Others(p), InstKept(p), LocksKept(p), started \subseteq started',
         NEW q \in Procs \ {p}
  PROVE  ProcInv(q)'
<1> PICK c : c = proc[q]
  OBVIOUS
<1>1. Alike(c, proc'[q]) /\ held'[q] = held[q]
  BY DEF Others
<1>2. Shape(c) /\ Holding(c, held[q]) /\ Knows(c)
  BY DEF IInv, ProcInv
<1>3. Shape(proc[q])'
  BY <1>1, <1>2 DEF Shape, Alike
<1>4. c.kind = "update" /\ c.n >= 2 => UNCHANGED disk
  BY <1>2 DEF Holding, LocksKept
<1>5. /\ c.kind = "update" => c.n \in 0..6
      /\ c.at = "replace" => c.kind = "update" /\ c.n = 6
  BY <1>2 DEF Shape, AtsOf, Kinds, Sessions
<1>6. Holding(proc[q], held[q])'
  <2>1. c.kind = "update" /\ c.n >= 4 => file' = file
    BY <1>4, <1>5 DEF disk
  <2> QED  BY <1>1, <1>2, <2>1 DEF Holding, Alike
<1>7. Knows(proc[q])'
  <2>1. c.at = "replace" => receipt' = receipt
    BY <1>4, <1>5 DEF disk
  <2>2. c.step = "probed" => \A s \in c.seen : Of(s[1], c.root)'
    BY <1>2, OfKept DEF Knows
  <2>3. c.step = "verify" \/ c.at \in {"admit", "wait"} => Of(c.found, c.root)'
    BY <1>2, OfKept DEF Knows
  <2> QED  BY <1>1, <1>2, <2>1, <2>2, <2>3 DEF Knows, Alike
<1> QED  BY <1>3, <1>6, <1>7 DEF ProcInv

\* A step of p: what is left to show is what it is about.
LEMMA Sound ==
  ASSUME IInv, NEW p \in Procs, Others(p), InstKept(p), LocksKept(p), started \subseteq started',
         Typing', RecordInv', FileInv', ProcInv(p)'
  PROVE  IInv'
<1>1. \A q \in Procs : ProcInv(q)'
  BY Rely
<1>2. LockInv'
  <2>1. ASSUME NEW a \in Procs, NEW b \in Procs, a # b, NEW l \in Locks, NEW m \in Modes,
               <<l, "exclusive">> \in held'[a], <<l, m>> \in held'[b]
        PROVE  FALSE
    <3>1. "exclusive" \in Modes
      BY DEF Modes
    <3>2. CASE a = p
      <4>1. held'[b] = held[b] /\ b \in Procs \ {p}
        BY <2>1, <3>2 DEF Others
      <4>2. <<l, "exclusive">> \notin held[p]
        BY <2>1, <3>2, <4>1 DEF IInv, LockInv
      <4>3. Grantable(p, l, "exclusive")
        BY <2>1, <3>1, <3>2, <4>2 DEF LocksKept
      <4> QED  BY <2>1, <4>1, <4>3 DEF Grantable, Modes
    <3>3. CASE a # p
      <4>1. held'[a] = held[a]
        BY <3>3 DEF Others
      <4>2. CASE b # p
        BY <2>1, <4>1, <4>2 DEF Others, IInv, LockInv
      <4>3. CASE b = p
        <5>1. <<l, m>> \notin held[p]
          BY <2>1, <4>1, <4>3 DEF IInv, LockInv
        <5>2. Grantable(p, l, m)
          BY <2>1, <4>3, <5>1 DEF LocksKept
        <5> QED  BY <2>1, <3>3, <4>1, <5>2 DEF Grantable
      <4> QED  BY <4>2, <4>3
    <3> QED  BY <3>2, <3>3
  <2> QED  BY <2>1 DEF LockInv
<1>3. InstInv'
  <2>1. next \in Nat /\ \A q \in Procs : proc[q].inst \in Nat /\ proc[q].inst < next
    BY DEF IInv, Typing, InstInv
  <2>2. \A q \in Procs \ {p} : proc'[q].inst = proc[q].inst
    BY DEF Others, Alike
  <2>3. \A q \in Procs : proc'[q].inst < next'
    BY <2>1, <2>2 DEF InstKept, IInv, Typing
  <2>4. ASSUME NEW a \in Procs, NEW b \in Procs, a # b, proc'[a].inst = proc'[b].inst
        PROVE  proc'[a].inst = 0
    BY <2>1, <2>2, <2>4 DEF InstKept, IInv, InstInv
  <2> QED  BY <2>3, <2>4 DEF InstInv
<1> QED  BY <1>1, <1>2, <1>3 DEF IInv

-----------------------------------------------------------------------------
(* Steps that leave the installed files and the next instance alone.       *)

Dropped == record' = [i \in Instances |-> record'[i]]
           /\ \A i \in Instances : record'[i] \in {record[i], NoRecord}

LEMMA Local ==
  ASSUME IInv, NEW p \in Procs, NEW to, IsRec(to), NEW locks, Move(p, to, locks),
         \A l \in Locks, m \in Modes :
           <<l, m>> \in locks /\ <<l, m>> \notin held[p] => Grantable(p, l, m),
         UNCHANGED <<disk, next>>, started \subseteq started', Dropped,
         to.candidate \in 0..MaxVersion,
         to.inst = 0 \/ (to.inst = proc[p].inst /\ to.root = proc[p].root),
         Shape(to)', Holding(to, locks), Knows(to)
  PROVE  IInv'
<1>1. Typing /\ UNCHANGED <<file, receipt, next>>
  BY DEF IInv, disk
<1>2. /\ proc'[p] = to /\ \A q \in Procs \ {p} : proc'[q] = proc[q]
      /\ held'[p] = locks /\ \A q \in Procs \ {p} : held'[q] = held[q]
      /\ proc' = [q \in Procs |-> proc'[q]] /\ held' = [q \in Procs |-> held'[q]]
  BY <1>1 DEF Typing, Move
<1>3. Others(p)
  BY <1>2 DEF Others, Alike
<1>4. InstKept(p)
  BY <1>1, <1>2 DEF InstKept
<1>5. LocksKept(p)
  BY <1>2 DEF LocksKept
<1>6. Typing'
  <2>1. to.inst \in Nat
    BY <1>1 DEF Typing
  <2> QED  BY <1>1, <1>2, <2>1 DEF Typing, Dropped
<1>7. RecordInv'
  <2>1. ASSUME NEW i \in Instances, record'[i].listed
        PROVE  Of(i, record[i].root)' /\ record'[i] = record[i]
               /\ record[i].control \in ControlPorts
    <3>1. record'[i] = record[i]
      BY <2>1 DEF Dropped, NoRecord
    <3>2. Of(i, record[i].root) /\ record[i].control \in ControlPorts
      BY <2>1, <3>1 DEF IInv, RecordInv
    <3>3. PICK root : root = record[i].root
      OBVIOUS
    <3>4. Of(i, root)'
      BY <1>3, <1>4, <3>2, <3>3, OfKept
    <3> QED  BY <3>1, <3>2, <3>3, <3>4 DEF Of
  <2> QED  BY <2>1 DEF RecordInv, Of
<1>8. FileInv'
  BY <1>1 DEF IInv, FileInv
<1>9. Holding(proc[p], held[p])'
  BY <1>1, <1>2 DEF Holding
<1>10. Knows(proc[p])'
  <2>1. to.step = "probed" => \A s \in to.seen : Of(s[1], to.root)'
    BY <1>3, <1>4, OfKept DEF Knows
  <2>2. to.step = "verify" \/ to.at \in {"admit", "wait"} => Of(to.found, to.root)'
    BY <1>3, <1>4, OfKept DEF Knows
  <2> QED  BY <1>1, <1>2, <2>1, <2>2 DEF Knows
<1>11. ProcInv(p)'
  BY <1>2, <1>9, <1>10 DEF ProcInv, Shape
<1> QED  BY <1>3, <1>4, <1>5, <1>6, <1>7, <1>8, <1>11, Sound

LEMMA OffFacts == IsRec(Off) /\ Off.kind = "none" /\ Off.at = "off" /\ Off.inst = 0 /\ Off.n = 0
                  /\ Off.step = "idle" /\ Off.candidate \in 0..MaxVersion
<1>1. MaxVersion \in Nat
  BY OwnershipAssumption
<1>2. IsRec(Off) /\ Off.candidate = 0
  BY DEF Off, IsRec, Fields
<1> QED  BY <1>1, <1>2 DEF Off

LEMMA NoneDropped == ASSUME IInv, UNCHANGED record PROVE Dropped
BY DEF IInv, Typing, Dropped

\* A process that exits.
LEMMA ExitSound ==
  ASSUME IInv, NEW p \in Procs, Exit(p), UNCHANGED <<disk, next>>, started \subseteq started',
         Dropped
  PROVE  IInv'
<1>1. Shape(Off)' /\ Holding(Off, {}) /\ Knows(Off)
  BY OffFacts DEF Shape, AtsOf, Holding, Knows, Sessions
<1> QED  BY <1>1, OffFacts, Local DEF Exit

\* The same process past its first locks, at its next point.
Same(c, to) ==
  /\ to.kind = c.kind /\ to.root = c.root /\ to.path = c.path /\ to.version = c.version
  /\ to.n = c.n /\ to.candidate = c.candidate

LEMMA Onward ==
  ASSUME IInv, NEW p \in Procs, NEW to, IsRec(to), NEW locks, Move(p, to, locks),
         UNCHANGED <<disk, next>>, started \subseteq started', Dropped,
         Same(proc[p], to), proc[p].at \notin {"off", "locking", "approve"},
         to.at \in AtsOf(proc[p].kind) \ {"off", "locking", "approve"},
         to.inst \in {0, proc[p].inst},
         \A l \in Locks, m \in Modes :
           <<l, m>> \in locks /\ <<l, m>> \notin held[p] => Grantable(p, l, m),
         \A l, m : <<l, m>> \in held[p] /\ l[1] \notin {"start", "owner"} => <<l, m>> \in locks,
         to.at \in {"publish", "ready", "serving", "stopping"} =>
           << <<"owner", to.root>>, "exclusive">> \in locks,
         to.step # "idle" => to.at \in {"look", "failed", "ready", "find"},
         to.step = "verify" => to.at # "find",
         to.at = "publish" => to.control \in ControlPorts,
         to.at = "replace" => to.version = receipt,
         to.step = "probed" => \A s \in to.seen : Of(s[1], to.root),
         to.step = "verify" \/ to.at \in {"admit", "wait"} => Of(to.found, to.root),
         to.at = "wait" => to.by = to.found,
         to.at = "serving" => to.found = to.inst
  PROVE  IInv'
<1>1. PICK c : c = proc[p]
  OBVIOUS
<1>2. Shape(c) /\ Holding(c, held[p]) /\ Knows(c)
  BY <1>1 DEF IInv, ProcInv
<1>3. Same(c, to) /\ c.at \notin {"off", "locking", "approve"}
  BY <1>1
<1>4. Shape(to)'
  BY <1>1, <1>2, <1>3 DEF Shape, Same
<1>5. Holding(to, locks)
  <2>1. c.kind \in Sessions => Holding(to, locks)
    BY <1>2, <1>3 DEF Holding, Same, Sessions
  <2>2. c.kind = "update" => Holding(to, locks)
    BY <1>2, <1>3 DEF Holding, Same, Sessions
  <2>3. c.kind \notin Sessions \union {"update"} => Holding(to, locks)
    BY <1>2, <1>3 DEF Holding, Same, Sessions
  <2> QED  BY <2>1, <2>2, <2>3
<1>6. Knows(to)
  BY <1>2, <1>3 DEF Knows, Same
<1>7. to.candidate \in 0..MaxVersion
  BY <1>1, <1>3 DEF Same, IInv, Typing
<1> QED  BY <1>1, <1>3, <1>4, <1>5, <1>6, <1>7, Local DEF Same

\* The same with the locks it has.
LEMMA OnwardHolding ==
  ASSUME IInv, NEW p \in Procs, NEW to, IsRec(to), Become(p, to),
         UNCHANGED <<disk, next>>, started \subseteq started', Dropped,
         Same(proc[p], to), proc[p].at \notin {"off", "locking", "approve"},
         to.at \in AtsOf(proc[p].kind) \ {"off", "locking", "approve"},
         to.inst \in {0, proc[p].inst},
         to.at \in {"publish", "ready", "serving", "stopping"} =>
           proc[p].at \in {"publish", "ready", "serving", "stopping"},
         to.step # "idle" => to.at \in {"look", "failed", "ready", "find"},
         to.step = "verify" => to.at # "find",
         to.at = "publish" => to.control \in ControlPorts,
         to.at = "replace" => to.version = receipt,
         to.step = "probed" => \A s \in to.seen : Of(s[1], to.root),
         to.step = "verify" \/ to.at \in {"admit", "wait"} => Of(to.found, to.root),
         to.at = "wait" => to.by = to.found,
         to.at = "serving" => to.found = to.inst
  PROVE  IInv'
<1>1. Move(p, to, held[p])
  BY DEF Become
<1>2. proc[p].at \in {"publish", "ready", "serving", "stopping"} =>
        << <<"owner", to.root>>, "exclusive">> \in held[p]
  BY DEF IInv, ProcInv, Holding, Same
<1> QED  BY <1>1, <1>2, Onward

\* A server that does not come up.
LEMMA FailsSound ==
  ASSUME IInv, NEW p \in Procs, Fails(p), UNCHANGED <<disk, next>>, started \subseteq started',
         Dropped, proc[p].at \in {"bind", "claim", "publish", "stopping"}
  PROVE  IInv'
<1>1. CASE proc[p].kind # "tui"
  BY <1>1, ExitSound DEF Fails
<1>2. CASE proc[p].kind = "tui"
  <2>1. PICK to : to = [proc[p] EXCEPT !.at = "failed", !.step = "idle", !.port = None,
                                       !.control = None, !.inst = 0, !.gen = 0,
                                       !.life = "none"]
    OBVIOUS
  <2>2. IsRec(proc[p])
    BY DEF IInv, Typing
  <2>3. IsRec(to) /\ Same(proc[p], to) /\ to.at = "failed" /\ to.step = "idle" /\ to.inst = 0
    BY <2>1, <2>2 DEF IsRec, Fields, Same
  <2>4. Move(p, to, held[p] \ {<< <<"owner", proc[p].root>>, "exclusive">>})
    BY <1>2, <2>1 DEF Fails
  <2>5. to.at \in AtsOf(proc[p].kind)
    BY <1>2, <2>3 DEF AtsOf
  <2>6. PICK L : L = held[p] \ {<< <<"owner", proc[p].root>>, "exclusive">>}
    OBVIOUS
  <2>7. /\ \A l, m : <<l, m>> \in L => <<l, m>> \in held[p]
        /\ \A l, m : <<l, m>> \in held[p] /\ l[1] # "owner" => <<l, m>> \in L
    BY <2>6
  <2> QED  BY <2>3, <2>4, <2>5, <2>6, <2>7, Onward
<1> QED  BY <1>1, <1>2

-----------------------------------------------------------------------------
(* Starting, and the first locks.                                          *)

LEMMA StartSound == ASSUME IInv, NEW p \in Procs, NEW c \in Does[p], Start(p, c) PROVE IInv'
<1>1. PICK candidate \in IF c.kind = "update" THEN (file[c.path] + 1)..MaxVersion ELSE {0} :
        Become(p, [Off EXCEPT !.kind = c.kind, !.root = c.root, !.path = c.path,
                              !.config = c.config, !.version = file[c.path],
                              !.candidate = candidate,
                              !.at = IF c.kind = "update" THEN "approve" ELSE "locking"])
  BY DEF Start
<1>2. PICK to : to = [Off EXCEPT !.kind = c.kind, !.root = c.root, !.path = c.path,
                                 !.config = c.config, !.version = file[c.path],
                                 !.candidate = candidate,
                                 !.at = IF c.kind = "update" THEN "approve" ELSE "locking"]
  OBVIOUS
<1>3. /\ IsRec(to) /\ to.kind = c.kind /\ to.root = c.root /\ to.path = c.path
      /\ to.version = file[c.path] /\ to.candidate = candidate
      /\ to.at = IF c.kind = "update" THEN "approve" ELSE "locking"
      /\ to.inst = 0 /\ to.n = 0 /\ to.step = "idle"
  BY <1>2, OffFacts DEF IsRec, Fields
<1>4. c.kind \in Kinds /\ c.root \in Roots /\ c.path \in Paths
  BY OwnershipAssumption
<1>5. file[c.path] \in 0..MaxVersion /\ MaxVersion \in Nat
      /\ (c.path # Owned => file[c.path] = 0)
  BY <1>4, OwnershipAssumption DEF IInv, Typing, FileInv
<1>6. Shape(to)'
  BY <1>3, <1>4 DEF Shape, AtsOf, Kinds, Sessions
<1>7. Holding(to, held[p])
  BY <1>3 DEF Holding
<1>8. Knows(to)
  BY <1>1, <1>3, <1>5 DEF Knows
<1>9. UNCHANGED <<disk, next>> /\ UNCHANGED <<record, started>> /\ Move(p, to, held[p])
  BY <1>1, <1>2 DEF Start, servers, Become
<1>10. to.candidate \in 0..MaxVersion
  BY <1>1, <1>3, <1>5
<1> QED  BY <1>3, <1>6, <1>7, <1>8, <1>9, <1>10, NoneDropped, Local

\* A process holds the locks of its plan up to the one it takes.
LEMMA TakeLockSound == ASSUME IInv, NEW p \in Procs, TakeLock(p) PROVE IInv'
<1>1. PICK c : c = proc[p]
  OBVIOUS
<1>2. /\ Shape(c) /\ Holding(c, held[p]) /\ Knows(c) /\ IsRec(c) /\ c.at = "locking"
      /\ c.candidate \in 0..MaxVersion
  BY <1>1 DEF IInv, ProcInv, Typing, TakeLock
<1>3. PICK plan : plan = LockPlan(c)
  OBVIOUS
<1>4. PICK wanted : wanted = plan[c.n + 1]
  OBVIOUS
<1>5. UNCHANGED <<disk, next>> /\ started \subseteq started' /\ Dropped
  BY NoneDropped DEF TakeLock, servers
<1>6. CASE Exit(p)
  BY <1>5, <1>6, ExitSound
<1>7. CASE /\ Grantable(p, wanted[1], wanted[2])
           /\ Move(p, [c EXCEPT !.n = @ + 1,
                                !.at = IF c.n + 1 = Len(plan) THEN AfterLocks(c.kind) ELSE @],
                   held[p] \union {wanted})
  <2>1. PICK to : to = [c EXCEPT !.n = @ + 1,
                                 !.at = IF c.n + 1 = Len(plan) THEN AfterLocks(c.kind) ELSE @]
    OBVIOUS
  <2>2. /\ IsRec(to) /\ to.n = c.n + 1
        /\ to.at = IF c.n + 1 = Len(plan) THEN AfterLocks(c.kind) ELSE "locking"
        /\ to.kind = c.kind /\ to.root = c.root /\ to.path = c.path
        /\ to.version = c.version /\ to.candidate = c.candidate /\ to.inst = c.inst
        /\ to.step = c.step
    BY <1>2, <2>1 DEF IsRec, Fields
  <2>3. c.kind \in Kinds /\ c.step = "idle"
    BY <1>2 DEF Shape, AtsOf
  <2>4. PICK locks : locks = held[p] \union {wanted}
    OBVIOUS
  <2>5. held[p] \subseteq locks /\ wanted \in locks
    BY <2>4
  <2>6. Knows(to)
    <3>1. to.at \in {"locking", "start", "find", "servers"}
      BY <2>2, <2>3 DEF AfterLocks
    <3> QED  BY <1>2, <2>2, <2>3, <3>1 DEF Knows, Shape
  <2>7. Shape(to)' /\ Holding(to, locks)
    <3>1. CASE c.kind \in Sessions
      <4>1. /\ c.n \in 0..2 /\ Len(plan) = 3
            /\ c.n = 0 => wanted = << <<"path", c.path>>, "shared">>
            /\ c.n = 1 => wanted = << <<"file", file[c.path]>>, "shared">>
            /\ c.n = 2 => wanted = << <<"storage", c.root>>, "shared">>
        BY <1>2, <1>3, <1>4, <3>1 DEF Shape, LockPlan, SessionLocks, Sessions
      <4>2. c.path # Owned => file[c.path] = 0
        BY <1>2, <3>1 DEF Shape, IInv, FileInv, Sessions
      <4>3. to.at = IF c.n = 2 THEN AfterLocks(c.kind) ELSE "locking"
        BY <2>2, <4>1
      <4>4. Shape(to)'
        BY <1>2, <2>2, <2>3, <3>1, <4>1, <4>3 DEF Shape, AtsOf, AfterLocks, Sessions, Kinds
      <4>5. Holding(to, locks)
        BY <1>2, <2>2, <2>3, <2>5, <3>1, <4>1, <4>2, <4>3
           DEF Holding, AfterLocks, Sessions
      <4> QED  BY <4>4, <4>5
    <3>2. CASE c.kind = "update"
      <4>1. /\ c.n \in 0..5 /\ Len(plan) = 6 /\ c.path = Owned
            /\ c.n = 0 => wanted = << <<"path", c.path>>, "exclusive">>
            /\ c.n = 1 => wanted = << <<"receipt", Owned>>, "exclusive">>
            /\ c.n = 3 => wanted = << <<"file", file[c.path]>>, "exclusive">>
            /\ c.n = 4 => wanted = << <<"storage", c.root>>, "exclusive">>
        BY <1>2, <1>3, <1>4, <3>2 DEF Shape, Knows, LockPlan, UpdateLocks
      <4>2. to.at = IF c.n = 5 THEN "servers" ELSE "locking"
        BY <2>2, <3>2, <4>1 DEF AfterLocks
      <4>3. Shape(to)'
        BY <1>2, <2>2, <2>3, <3>2, <4>1, <4>2 DEF Shape, AtsOf, Sessions
      <4>4. Holding(to, locks)
        BY <1>2, <2>2, <2>5, <3>2, <4>1, <4>2 DEF Holding, Sessions
      <4> QED  BY <4>3, <4>4
    <3>3. CASE c.kind = "prune"
      <4>1. /\ c.n \in {0, 1} /\ (c.n = 1 => c.root \in started)
            /\ c.n = 0 => wanted = << <<"storage", c.root>>, "exclusive">>
            /\ Len(plan) = IF c.root \in started THEN 2 ELSE 1
        BY <1>2, <1>3, <1>4, <3>3 DEF Shape, LockPlan, PruneLocks
      <4>2. to.at = IF c.n = 0 /\ c.root \in started THEN "locking" ELSE "servers"
        BY <2>2, <3>3, <4>1 DEF AfterLocks
      <4>3. Shape(to)'
        BY <1>2, <1>5, <2>2, <2>3, <3>3, <4>1, <4>2 DEF Shape, AtsOf, Sessions
      <4>4. Holding(to, locks)
        BY <1>2, <2>2, <2>5, <3>3, <4>1, <4>2 DEF Holding, Sessions
      <4> QED  BY <4>3, <4>4
    <3> QED  BY <2>3, <3>1, <3>2, <3>3 DEF Kinds, Sessions
  <2>8. \A l \in Locks, m \in Modes :
          <<l, m>> \in locks /\ <<l, m>> \notin held[p] => Grantable(p, l, m)
    BY <1>7, <2>4
  <2>9. to.candidate \in 0..MaxVersion /\ to.inst = proc[p].inst /\ to.root = proc[p].root
    BY <1>1, <1>2, <2>2
  <2>10. Move(p, to, locks)
    BY <1>7, <2>1, <2>4
  <2> QED  BY <1>5, <2>2, <2>6, <2>7, <2>8, <2>9, <2>10, Local
<1> QED  BY <1>1, <1>3, <1>4, <1>6, <1>7 DEF TakeLock

-----------------------------------------------------------------------------
(* Updates and prunes.                                                     *)

LEMMA ProcFacts ==
  ASSUME IInv, NEW p \in Procs
  PROVE  /\ Shape(proc[p]) /\ Holding(proc[p], held[p]) /\ Knows(proc[p]) /\ IsRec(proc[p])
         /\ proc[p].candidate \in 0..MaxVersion
BY DEF IInv, ProcInv, Typing

LEMMA ApproveSound == ASSUME IInv, NEW p \in Procs, ApproveUpdate(p) PROVE IInv'
<1>1. UNCHANGED <<disk, next>> /\ started \subseteq started' /\ Dropped
  BY NoneDropped DEF ApproveUpdate, servers
<1>2. CASE Exit(p)
  BY <1>1, <1>2, ExitSound
<1>3. CASE Validates(proc[p]) /\ Become(p, [proc[p] EXCEPT !.at = "locking"])
  <2>1. PICK c : c = proc[p]
    OBVIOUS
  <2>2. Shape(c) /\ Holding(c, held[p]) /\ Knows(c) /\ IsRec(c) /\ c.at = "approve"
    BY <2>1, ProcFacts DEF ApproveUpdate
  <2>3. PICK to : to = [c EXCEPT !.at = "locking"]
    OBVIOUS
  <2>4. IsRec(to) /\ Same(c, to) /\ to.at = "locking" /\ to.step = c.step /\ to.inst = c.inst
    BY <2>2, <2>3 DEF IsRec, Fields, Same
  <2>5. c.kind = "update" /\ c.n = 0 /\ c.step = "idle" /\ c.path = Owned
    BY <1>3, <2>1, <2>2 DEF Shape, AtsOf, Kinds, Validates
  <2>6. Shape(to)' /\ Holding(to, held[p]) /\ Knows(to)
    BY <2>2, <2>4, <2>5 DEF Shape, AtsOf, Sessions, Holding, Knows, Same
  <2>7. to.candidate \in 0..MaxVersion
    BY <2>1, <2>4, ProcFacts DEF Same
  <2> QED  BY <1>1, <1>3, <2>1, <2>3, <2>4, <2>6, <2>7, Local DEF Become, Same
<1> QED  BY <1>2, <1>3 DEF ApproveUpdate

LEMMA UpdateSound ==
  ASSUME IInv, NEW p \in Procs, NoServerProcess(p) \/ RecheckReceipt(p) PROVE IInv'
<1>1. UNCHANGED <<disk, next>> /\ started \subseteq started' /\ Dropped
  BY NoneDropped DEF NoServerProcess, RecheckReceipt, servers
<1>2. CASE Exit(p)
  BY <1>1, <1>2, ExitSound
<1>3. ASSUME NEW at \in {"recheck", "erase", "replace"},
             Become(p, [proc[p] EXCEPT !.at = at]), at \in AtsOf(proc[p].kind),
             proc[p].at \in {"servers", "recheck"}, at = "replace" => Validates(proc[p])
      PROVE  IInv'
  <2>1. PICK to : to = [proc[p] EXCEPT !.at = at]
    OBVIOUS
  <2>2. /\ IsRec(to) /\ Same(proc[p], to) /\ to.at = at /\ to.step = proc[p].step
        /\ to.inst = proc[p].inst
    BY <2>1, ProcFacts, ZenonT(60) DEF IsRec, Fields, Same
  <2>3. to.step = "idle"
    BY <1>3, <2>2, ProcFacts DEF Shape
  <2>4. at = "replace" => to.version = receipt
    BY <1>3, <2>2 DEF Validates, Same
  <2> QED  BY <1>1, <1>3, <2>1, <2>2, <2>3, <2>4, OnwardHolding
<1>4. proc[p].kind \in {"update", "prune"} /\ (proc[p].at = "recheck" => proc[p].kind = "update")
  BY ProcFacts DEF NoServerProcess, RecheckReceipt, Shape, AtsOf, Kinds
<1> QED  BY <1>2, <1>3, <1>4 DEF NoServerProcess, RecheckReceipt, AtsOf

LEMMA EraseSound == ASSUME IInv, NEW p \in Procs, Erase(p) PROVE IInv'
<1>1. UNCHANGED <<disk, next>> /\ started \subseteq started'
  BY DEF Erase
<1>2. CASE Listed(proc[p].root) = {} /\ Exit(p) /\ UNCHANGED record
  BY <1>1, <1>2, NoneDropped, ExitSound
<1>3. CASE \E i \in Listed(proc[p].root) :
             record' = [record EXCEPT ![i] = NoRecord] /\ UNCHANGED <<proc, held>>
  <2>1. Dropped
    BY <1>3 DEF IInv, Typing, Dropped
  <2>2. Become(p, proc[p])
    BY <1>3 DEF Become, Move, IInv, Typing
  <2>3. PICK c : c = proc[p]
    OBVIOUS
  <2>4. Shape(c) /\ IsRec(c) /\ c.at = "erase" /\ c.kind # "none"
    BY <2>3, ProcFacts DEF Erase, Shape, AtsOf
  <2>5. c.step = "idle" /\ c.at \in AtsOf(c.kind)
    BY <2>4 DEF Shape
  <2> QED  BY <1>1, <2>1, <2>2, <2>3, <2>4, <2>5, OnwardHolding DEF Same
<1> QED  BY <1>2, <1>3 DEF Erase

\* The installer writes a newer file, with no other update at work.
LEMMA ReplaceSound == ASSUME IInv, NEW p \in Procs, Replace(p) PROVE IInv'
<1>1. PICK c : c = proc[p]
  OBVIOUS
<1>2. Shape(c) /\ Holding(c, held[p]) /\ Knows(c) /\ IsRec(c) /\ c.at = "replace"
  BY <1>1, ProcFacts DEF Replace
<1>3. /\ c.kind = "update" /\ c.path = Owned /\ c.root \in Roots
      /\ << <<"receipt", Owned>>, "exclusive">> \in held[p]
  BY <1>2 DEF Shape, AtsOf, Kinds, Knows, Holding, Sessions
<1>4. UNCHANGED <<record, next, started>>
  BY DEF Replace, servers
<1>5. CASE Exit(p) /\ UNCHANGED <<file, receipt>>
  BY <1>4, <1>5, NoneDropped, ExitSound DEF disk
<1>6. ASSUME file' = [file EXCEPT ![c.path] = c.candidate], receipt' = c.candidate,
             NEW to, IsRec(to), Move(p, to, {}), to.inst = 0, to.n = 0, to.step = "idle",
             to.candidate \in 0..MaxVersion,
             \/ to.kind = "none" /\ to.at = "off"
             \/ /\ to.kind = "tui" /\ to.at = "locking"
                /\ to.root = c.root /\ to.path = c.path
      PROVE  IInv'
  <2>1. Typing
    BY DEF IInv
  <2>2. /\ proc'[p] = to /\ \A q \in Procs \ {p} : proc'[q] = proc[q]
        /\ held'[p] = {} /\ \A q \in Procs \ {p} : held'[q] = held[q]
        /\ proc' = [q \in Procs |-> proc'[q]] /\ held' = [q \in Procs |-> held'[q]]
    BY <1>6, <2>1 DEF Typing, Move
  <2>3. Others(p) /\ InstKept(p)
    BY <1>4, <1>6, <2>2 DEF Others, Alike, InstKept
  <2>4. LocksKept(p)
    <3>1. <<"receipt", Owned>> \in Locks /\ "exclusive" \in Modes
      BY DEF Locks, Modes
    <3>2. \A q \in Procs \ {p} : << <<"receipt", Owned>>, "exclusive">> \notin held[q]
      BY <1>3, <3>1 DEF IInv, LockInv
    <3> QED  BY <2>2, <3>2 DEF LocksKept
  <2>5. Typing'
    <3>1. c.candidate \in 0..MaxVersion
      BY <1>1 DEF IInv, Typing
    <3>2. file' \in [Paths -> 0..MaxVersion]
      BY <1>6, <2>1, <3>1 DEF Typing
    <3> QED  BY <1>4, <1>6, <2>1, <2>2, <3>2 DEF Typing
  <2>6. RecordInv'
    <3>1. ASSUME NEW i \in Instances, record[i].listed
          PROVE  Of(i, record[i].root)' /\ record[i].control \in ControlPorts
      <4>1. PICK root : root = record[i].root
        OBVIOUS
      <4>2. Of(i, root) /\ record[i].control \in ControlPorts
        BY <3>1, <4>1 DEF IInv, RecordInv
      <4>3. Of(i, root)'
        BY <2>3, <4>2, OfKept
      <4> QED  BY <1>4, <4>1, <4>2, <4>3 DEF Of
    <3> QED  BY <1>4, <3>1 DEF RecordInv, Of
  <2>7. FileInv'
    BY <1>3, <1>6, <2>1, OwnershipAssumption DEF IInv, FileInv, Typing
  <2>8. ProcInv(p)'
    <3>1. Shape(proc[p])'
      BY <1>3, <1>6, <2>2, OwnershipAssumption DEF Shape, AtsOf, Kinds, Sessions
    <3>2. Holding(proc[p], held[p])' /\ Knows(proc[p])'
      BY <1>3, <1>6, <2>2 DEF Holding, Knows
    <3> QED  BY <3>1, <3>2 DEF ProcInv
  <2> QED  BY <1>4, <2>3, <2>4, <2>5, <2>6, <2>7, <2>8, Sound
<1>7. PICK relaunch : relaunch =
        [Off EXCEPT !.kind = "tui", !.root = c.root, !.path = c.path,
                    !.config = c.config, !.version = c.candidate, !.at = "locking"]
  OBVIOUS
<1>8. /\ IsRec(relaunch) /\ relaunch.inst = 0 /\ relaunch.n = 0 /\ relaunch.step = "idle"
      /\ relaunch.kind = "tui" /\ relaunch.at = "locking"
      /\ relaunch.root = c.root /\ relaunch.path = c.path
      /\ relaunch.candidate \in 0..MaxVersion
  BY <1>7, OffFacts DEF IsRec, Fields
<1> QED  BY <1>1, <1>5, <1>6, <1>7, <1>8, OffFacts DEF Replace, Exit

-----------------------------------------------------------------------------
(* Observation.                                                            *)

LEMMA EvidenceDrops == ASSUME NEW seen, ProcessEvidence(seen) PROVE Dropped
<1>1. PICK stale : record' = [i \in Instances |->
                                IF \E s \in stale : s[1] = i THEN NoRecord ELSE record[i]]
  BY DEF ProcessEvidence
<1> QED  BY <1>1 DEF Dropped

LEMMA WatchSound == ASSUME IInv, NEW p \in Procs, Watch(p) PROVE IInv'
<1>1. UNCHANGED <<proc, held, disk, next, started>> /\ Dropped
  BY EvidenceDrops DEF Watch
<1>2. PICK c : c = proc[p]
  OBVIOUS
<1>3. Shape(c) /\ Holding(c, held[p]) /\ Knows(c) /\ IsRec(c) /\ c.candidate \in 0..MaxVersion
  BY <1>2, ProcFacts
<1>4. Move(p, c, held[p])
  BY <1>1, <1>2 DEF Move, IInv, Typing
<1>5. Shape(c)'
  BY <1>1, <1>3 DEF Shape
<1> QED  BY <1>1, <1>2, <1>3, <1>4, <1>5, Local

\* Every server that is seen has published itself for this state directory.
LEMMA ObserveSound == ASSUME IInv, NEW p \in Procs, Observe(p) PROVE IInv'
<1>1. PICK seen \in Probes(proc[p].root) :
        Become(p, [proc[p] EXCEPT !.step = "probed", !.seen = seen])
  BY DEF Observe
<1>2. \A s \in seen : Of(s[1], proc[p].root)
  <2>1. PICK out : seen = {<<i, out[i], record[i].control>> : i \in Listed(proc[p].root)}
    BY DEF Probes
  <2>2. \A i \in Listed(proc[p].root) : Of(i, proc[p].root)
    BY DEF Listed, IInv, RecordInv
  <2> QED  BY <2>1, <2>2
<1>3. PICK to : to = [proc[p] EXCEPT !.step = "probed", !.seen = seen]
  OBVIOUS
<1>4. /\ IsRec(to) /\ Same(proc[p], to) /\ to.step = "probed" /\ to.seen = seen
      /\ to.at = proc[p].at /\ to.inst = proc[p].inst /\ to.control = proc[p].control
  BY <1>3, ProcFacts, ZenonT(60) DEF IsRec, Fields, Same
<1>5. proc[p].at \in {"look", "failed", "ready", "find"} \intersect AtsOf(proc[p].kind)
  BY ProcFacts DEF Observe, Shape
<1>6. UNCHANGED <<disk, next>> /\ started \subseteq started' /\ Dropped
  BY NoneDropped DEF Observe, servers
<1>7. \A s \in to.seen : Of(s[1], to.root)
  BY <1>2, <1>4 DEF Same
<1> QED  BY <1>1, <1>3, <1>4, <1>5, <1>6, <1>7, OnwardHolding

LEMMA LearnSound ==
  ASSUME IInv, NEW p \in Procs, proc[p].step = "probed", NEW i \in Newest(proc[p].seen),
         Learn(p, i), Dropped, UNCHANGED <<disk, next, started>>
  PROVE  IInv'
<1> DEFINE a == IF i = 0 THEN None ELSE (CHOOSE s \in proc[p].seen : s[1] = i)[3]
<1> HIDE DEF a
<1>2. PICK c : c = [proc[p] EXCEPT !.step = "idle", !.seen = {}, !.found = i, !.address = a]
  OBVIOUS
<1>3. /\ IsRec(c) /\ Same(proc[p], c) /\ c.step = "idle" /\ c.found = i
      /\ c.at = proc[p].at /\ c.inst = proc[p].inst
  BY <1>2, ProcFacts, ZenonT(60) DEF IsRec, Fields, Same
<1>4. /\ proc[p].at \in {"look", "failed", "ready", "find"}
      /\ proc[p].at \in AtsOf(proc[p].kind) /\ proc[p].kind \in Kinds
  BY ProcFacts DEF Shape, AtsOf
<1>5. i # 0 => Of(i, c.root)
  <2>1. i # 0 => \E s \in proc[p].seen : s[1] = i
    BY DEF Newest
  <2> QED  BY <1>3, <2>1, ProcFacts DEF Knows, Same
<1>6. ASSUME NEW st \in {"idle", "verify"}, NEW at \in AtsOf(proc[p].kind),
             at \in {"look", "failed", "ready", "find", "admit", "bind"},
             Become(p, [c EXCEPT !.step = st, !.at = at]),
             at = "ready" => proc[p].at = "ready", st = "verify" \/ at = "admit" => i # 0,
             st = "verify" => at \in {"look", "failed", "ready"}
      PROVE  IInv'
  <2>1. PICK to : to = [c EXCEPT !.step = st, !.at = at]
    OBVIOUS
  <2>2. /\ IsRec(to) /\ Same(proc[p], to) /\ to.step = st /\ to.at = at
        /\ to.inst = proc[p].inst /\ to.found = i /\ to.root = c.root
    BY <1>3, <2>1 DEF IsRec, Fields, Same
  <2> QED  BY <1>4, <1>5, <1>6, <2>1, <2>2, OnwardHolding
<1>7. /\ [c EXCEPT !.step = "verify"] = [c EXCEPT !.step = "verify", !.at = c.at]
      /\ [c EXCEPT !.at = "admit"] = [c EXCEPT !.step = "idle", !.at = "admit"]
      /\ [c EXCEPT !.at = "bind"] = [c EXCEPT !.step = "idle", !.at = "bind"]
      /\ c = [c EXCEPT !.step = "idle", !.at = c.at]
  BY <1>3 DEF IsRec, Fields
<1>8. CASE Exit(p)
  BY <1>8, ExitSound
<1>9. CASE i # 0 /\ c.at \in {"look", "failed", "ready"} /\ Become(p, [c EXCEPT !.step = "verify"])
  BY <1>3, <1>4, <1>6, <1>7, <1>9
<1>10. CASE i # 0 /\ c.at = "find" /\ Become(p, [c EXCEPT !.at = "admit"])
  <2>1. "admit" \in AtsOf(proc[p].kind)
    BY <1>3, <1>4, <1>10 DEF AtsOf, Kinds
  <2> QED  BY <1>6, <1>7, <1>10, <2>1
<1>11. CASE i = 0 /\ c.at = "look" /\ Become(p, [c EXCEPT !.at = "bind"])
  <2>1. "bind" \in AtsOf(proc[p].kind)
    BY <1>3, <1>4, <1>11 DEF AtsOf, Kinds
  <2> QED  BY <1>6, <1>7, <1>11, <2>1
<1>12. CASE i = 0 /\ Become(p, c)
  BY <1>3, <1>4, <1>6, <1>7, <1>12
<1>13. \/ i # 0 /\ c.at \in {"look", "failed", "ready"} /\ Become(p, [c EXCEPT !.step = "verify"])
       \/ i # 0 /\ c.at = "find" /\ Become(p, [c EXCEPT !.at = "admit"])
       \/ i = 0 /\ c.at = "look" /\ Become(p, [c EXCEPT !.at = "bind"])
       \/ Exit(p)
       \/ i = 0 /\ Become(p, c)
  <2>1. CASE i # 0
    BY <1>2, <1>3, <1>4, <2>1 DEF Learn, a
  <2>2. CASE i = 0
    BY <1>2, <1>3, <1>4, <2>2 DEF Learn, a
  <2> QED  BY <2>1, <2>2
<1> QED  BY <1>8, <1>9, <1>10, <1>11, <1>12, <1>13

LEMMA UndecidedSound ==
  ASSUME IInv, NEW p \in Procs, proc[p].step = "probed", Undecided(p), Dropped,
         UNCHANGED <<disk, next, started>>
  PROVE  IInv'
<1>1. PICK c : c = [proc[p] EXCEPT !.step = "idle", !.seen = {}]
  OBVIOUS
<1>2. IsRec(c) /\ Same(proc[p], c) /\ c.step = "idle" /\ c.at = proc[p].at /\ c.inst = proc[p].inst
  BY <1>1, ProcFacts, ZenonT(60) DEF IsRec, Fields, Same
<1>3. /\ proc[p].at \in {"look", "failed", "ready", "find"}
      /\ proc[p].at \in AtsOf(proc[p].kind) /\ proc[p].kind \in Kinds
  BY ProcFacts DEF Shape, AtsOf
<1>4. CASE Exit(p)
  BY <1>4, ExitSound
<1>5. CASE c.at = "ready" /\ Become(p, [c EXCEPT !.at = "stopping", !.port = None, !.control = None])
  <2>1. PICK to : to = [c EXCEPT !.at = "stopping", !.port = None, !.control = None]
    OBVIOUS
  <2>2. /\ IsRec(to) /\ Same(proc[p], to) /\ to.step = "idle" /\ to.at = "stopping"
        /\ to.inst = proc[p].inst
    BY <1>2, <2>1 DEF IsRec, Fields, Same
  <2>3. "stopping" \in AtsOf(proc[p].kind)
    BY <1>2, <1>3, <1>5 DEF AtsOf, Kinds
  <2> QED  BY <1>2, <1>3, <1>5, <2>1, <2>2, <2>3, OnwardHolding
<1> QED  BY <1>1, <1>2, <1>3, <1>4, <1>5 DEF Undecided

LEMMA ConcludeSound == ASSUME IInv, NEW p \in Procs, Conclude(p) PROVE IInv'
<1>1. proc[p].step = "probed" /\ UNCHANGED <<disk, next, started>>
  BY DEF Conclude
<1>2. CASE (\E i \in Newest(proc[p].seen) : Learn(p, i)) /\ ProcessEvidence(proc[p].seen)
  BY <1>1, <1>2, EvidenceDrops, LearnSound
<1>3. CASE Undecided(p) /\ (ProcessEvidence(proc[p].seen) \/ UNCHANGED record)
  BY <1>1, <1>3, EvidenceDrops, NoneDropped, UndecidedSound
<1> QED  BY <1>2, <1>3 DEF Conclude

-----------------------------------------------------------------------------
(* Startup of a server.                                                    *)

\* Whoever answers for a state directory holds its owner lock, alone.
LEMMA OneAnswers ==
  ASSUME IInv, NEW p \in Procs, NEW q \in Procs,
         proc[p].at \in {"publish", "ready", "serving", "stopping"},
         proc[q].at \in {"publish", "ready", "serving", "stopping"},
         proc[p].root = proc[q].root
  PROVE  p = q
<1>1. proc[p].root \in Roots
  BY ProcFacts DEF Shape, AtsOf
<1>2. <<"owner", proc[p].root>> \in Locks /\ "exclusive" \in Modes
  BY <1>1 DEF Locks, Modes
<1>3. /\ << <<"owner", proc[p].root>>, "exclusive">> \in held[p]
      /\ << <<"owner", proc[p].root>>, "exclusive">> \in held[q]
  BY ProcFacts DEF Holding
<1> QED  BY <1>2, <1>3 DEF IInv, LockInv

LEMMA VerifySound == ASSUME IInv, NEW p \in Procs, Verify(p) PROVE IInv'
<1> DEFINE lock == << <<"start", proc[p].root>>, "exclusive">>
<1>1. UNCHANGED <<disk, next>> /\ started \subseteq started' /\ Dropped
  BY NoneDropped DEF Verify, servers
<1>2. CASE Exit(p)
  BY <1>1, <1>2, ExitSound
<1>3. /\ proc[p].step = "verify" /\ proc[p].at \in {"look", "failed", "ready"}
      /\ proc[p].at \in AtsOf(proc[p].kind) /\ proc[p].kind \in Kinds
      /\ Of(proc[p].found, proc[p].root)
  BY ProcFacts DEF Verify, Shape, AtsOf, Knows
<1>4. ASSUME NEW at \in {"attached", "serving"}, Authorized(p, proc[p].found) # {},
             at = "serving" => proc[p].at = "ready",
             Move(p, [proc[p] EXCEPT !.step = "idle", !.at = at, !.address = None],
                  held[p] \ {lock})
      PROVE  IInv'
  <2>1. PICK to : to = [proc[p] EXCEPT !.step = "idle", !.at = at, !.address = None]
    OBVIOUS
  <2>2. /\ IsRec(to) /\ Same(proc[p], to) /\ to.step = "idle" /\ to.at = at
        /\ to.inst = proc[p].inst /\ to.found = proc[p].found
    BY <2>1, ProcFacts, ZenonT(60) DEF IsRec, Fields, Same
  <2>3. at \in AtsOf(proc[p].kind)
    BY <1>3, <1>4 DEF AtsOf, Kinds
  <2>4. PICK L : L = held[p] \ {lock}
    OBVIOUS
  <2>5. /\ \A l, m : <<l, m>> \in L => <<l, m>> \in held[p]
        /\ \A l, m : <<l, m>> \in held[p] /\ l[1] # "start" => <<l, m>> \in L
        /\ << <<"owner", to.root>>, "exclusive">> \in held[p] =>
             << <<"owner", to.root>>, "exclusive">> \in L
    BY <2>4
  <2>6. at = "serving" => << <<"owner", to.root>>, "exclusive">> \in L
    BY <1>4, <2>2, <2>5, ProcFacts DEF Holding, Same
  <2>7. at = "serving" => to.found = to.inst
    <3>1. PICK q \in Procs : Answers(q) /\ proc[q].inst = proc[p].found
      BY <1>4 DEF Authorized
    <3>2. proc[q].root = proc[p].root
      BY <1>3, <3>1 DEF Of
    <3>3. at = "serving" => p = q
      BY <1>4, <3>1, <3>2, OneAnswers DEF Answers
    <3> QED  BY <2>2, <3>1, <3>3
  <2> QED  BY <1>1, <1>3, <1>4, <2>1, <2>2, <2>3, <2>4, <2>5, <2>6, <2>7, Onward, ZenonT(60)
<1>5. CASE proc[p].at = "ready" /\ Become(p, [proc[p] EXCEPT !.step = "idle"])
  <2>1. PICK to : to = [proc[p] EXCEPT !.step = "idle"]
    OBVIOUS
  <2>2. /\ IsRec(to) /\ Same(proc[p], to) /\ to.step = "idle" /\ to.at = "ready"
        /\ to.inst = proc[p].inst
    BY <1>5, <2>1, ProcFacts, ZenonT(60) DEF IsRec, Fields, Same
  <2> QED  BY <1>1, <1>3, <1>5, <2>1, <2>2, OnwardHolding
<1> QED  BY <1>2, <1>3, <1>4, <1>5 DEF Verify, Serves, Attached

LEMMA StartLockSound == ASSUME IInv, NEW p \in Procs, StartLock(p) PROVE IInv'
<1>1. PICK at : at = IF proc[p].kind = "tui" THEN "look" ELSE "bind"
  OBVIOUS
<1>2. PICK to : to = [proc[p] EXCEPT !.at = at]
  OBVIOUS
<1>3. /\ IsRec(to) /\ Same(proc[p], to) /\ to.at = at /\ to.step = proc[p].step
      /\ to.inst = proc[p].inst
  BY <1>2, ProcFacts DEF IsRec, Fields, Same
<1>4. /\ proc[p].at = "start" /\ proc[p].step = "idle" /\ at \in AtsOf(proc[p].kind)
  BY <1>1, ProcFacts DEF StartLock, Shape, AtsOf, Kinds
<1>5. PICK lock : lock = <<"start", proc[p].root>>
  OBVIOUS
<1>6. PICK locks : locks = held[p] \union {<<lock, "exclusive">>}
  OBVIOUS
<1>7. Grantable(p, lock, "exclusive") /\ Move(p, to, locks)
  BY <1>1, <1>2, <1>5, <1>6 DEF StartLock
<1>8. /\ \A l \in Locks, m \in Modes :
           <<l, m>> \in locks /\ <<l, m>> \notin held[p] => Grantable(p, l, m)
      /\ \A l, m : <<l, m>> \in held[p] => <<l, m>> \in locks
  BY <1>6, <1>7
<1>9. UNCHANGED <<disk, next>> /\ started \subseteq started' /\ Dropped
  BY NoneDropped DEF StartLock, servers
<1> QED  BY <1>1, <1>3, <1>4, <1>7, <1>8, <1>9, Onward

LEMMA BindSound == ASSUME IInv, NEW p \in Procs, Bind(p) PROVE IInv'
<1>1. UNCHANGED <<disk, next>> /\ started \subseteq started' /\ Dropped
  BY NoneDropped DEF Bind, servers
<1>2. CASE Fails(p)
  BY <1>1, <1>2, FailsSound DEF Bind
<1>3. CASE Become(p, [proc[p] EXCEPT !.port = proc[p].config, !.at = "claim"])
  <2>1. PICK to : to = [proc[p] EXCEPT !.port = proc[p].config, !.at = "claim"]
    OBVIOUS
  <2>2. /\ IsRec(to) /\ Same(proc[p], to) /\ to.at = "claim" /\ to.step = proc[p].step
        /\ to.inst = proc[p].inst
    BY <2>1, ProcFacts, ZenonT(60) DEF IsRec, Fields, Same
  <2>3. /\ proc[p].at = "bind" /\ proc[p].step = "idle" /\ "claim" \in AtsOf(proc[p].kind)
    BY ProcFacts DEF Bind, Shape, AtsOf, Kinds
  <2> QED  BY <1>1, <1>3, <2>1, <2>2, <2>3, OnwardHolding
<1> QED  BY <1>2, <1>3 DEF Bind

LEMMA ClaimSound == ASSUME IInv, NEW p \in Procs, Claim(p) PROVE IInv'
<1>1. UNCHANGED <<disk, next>> /\ started \subseteq started' /\ Dropped
  BY NoneDropped DEF Claim, servers
<1>2. CASE Fails(p)
  BY <1>1, <1>2, FailsSound DEF Claim
<1>3. PICK lock : lock = <<"owner", proc[p].root>>
  OBVIOUS
<1>4. ASSUME NEW port \in FreeControl, Grantable(p, lock, "exclusive"),
             Move(p, [proc[p] EXCEPT !.control = port, !.at = "publish"],
                  held[p] \union {<<lock, "exclusive">>})
      PROVE  IInv'
  <2>1. PICK to : to = [proc[p] EXCEPT !.control = port, !.at = "publish"]
    OBVIOUS
  <2>2. /\ IsRec(to) /\ Same(proc[p], to) /\ to.at = "publish" /\ to.step = proc[p].step
        /\ to.inst = proc[p].inst /\ to.control = port
    BY <2>1, ProcFacts, ZenonT(60) DEF IsRec, Fields, Same
  <2>3. /\ proc[p].at = "claim" /\ proc[p].step = "idle" /\ "publish" \in AtsOf(proc[p].kind)
    BY ProcFacts DEF Claim, Shape, AtsOf, Kinds
  <2>4. port \in ControlPorts
    BY DEF FreeControl
  <2>5. PICK locks : locks = held[p] \union {<<lock, "exclusive">>}
    OBVIOUS
  <2>6. /\ \A l \in Locks, m \in Modes :
             <<l, m>> \in locks /\ <<l, m>> \notin held[p] => Grantable(p, l, m)
        /\ \A l, m : <<l, m>> \in held[p] => <<l, m>> \in locks
        /\ << <<"owner", to.root>>, "exclusive">> \in locks
    BY <1>3, <1>4, <2>2, <2>5 DEF Same
  <2>7. Move(p, to, locks)
    BY <1>4, <2>1, <2>5
  <2> QED  BY <1>1, <2>2, <2>3, <2>4, <2>6, <2>7, Onward
<1> QED  BY <1>2, <1>3, <1>4 DEF Claim

\* A new instance has a number nobody has.
LEMMA PublishSound == ASSUME IInv, NEW p \in Procs, Publish(p) PROVE IInv'
<1>1. PICK c : c = proc[p]
  OBVIOUS
<1>2. /\ Shape(c) /\ Holding(c, held[p]) /\ Knows(c) /\ IsRec(c)
      /\ c.candidate \in 0..MaxVersion /\ c.at = "publish"
  BY <1>1, ProcFacts DEF Publish
<1>3. UNCHANGED <<disk, started>>
  BY DEF Publish
<1>4. CASE Fails(p) /\ UNCHANGED <<record, next>>
  BY <1>1, <1>2, <1>3, <1>4, NoneDropped, FailsSound
<1>5. CASE /\ next <= MaxInstances
           /\ record' = [record EXCEPT ![next] =
                [listed |-> TRUE, root |-> c.root, port |-> c.port, control |-> c.control]]
           /\ next' = next + 1
           /\ Become(p, [c EXCEPT !.inst = next, !.at = "ready"])
  <2>1. PICK to : to = [c EXCEPT !.inst = next, !.at = "ready"]
    OBVIOUS
  <2>2. /\ IsRec(to) /\ Same(c, to) /\ to.at = "ready" /\ to.step = c.step /\ to.inst = next
    BY <1>2, <2>1 DEF IsRec, Fields, Same
  <2>3. Typing /\ next \in Nat \ {0} /\ next \in Instances
    BY <1>5, OwnershipAssumption DEF IInv, Typing, Instances
  <2>4. /\ proc'[p] = to /\ \A q \in Procs \ {p} : proc'[q] = proc[q]
        /\ held' = held
        /\ proc' = [q \in Procs |-> proc'[q]] /\ held' = [q \in Procs |-> held'[q]]
    BY <1>1, <1>5, <2>1, <2>3 DEF Typing, Become, Move
  <2>5. Others(p) /\ InstKept(p) /\ LocksKept(p)
    BY <1>3, <1>5, <2>2, <2>4 DEF Others, Alike, InstKept, LocksKept
  <2>6. Typing'
    <3>1. UNCHANGED <<file, receipt>> /\ record' = [i \in Instances |-> record'[i]]
      BY <1>3, <1>5, <2>3 DEF disk, Typing
    <3> QED  BY <1>2, <1>5, <2>2, <2>3, <2>4, <3>1 DEF Typing, Same
  <2>7. RecordInv'
    <3> PICK n : n = next
      OBVIOUS
    <3>1. Of(n, c.root)'
      <4>1. \A q \in Procs : proc[q].inst < n /\ proc[q].inst \in Nat
        BY <2>3 DEF IInv, InstInv, Typing
      <4>2. \A q \in Procs : proc'[q].inst = n => q = p
        BY <2>3, <2>4, <4>1
      <4>3. to.root = c.root /\ n < next' /\ n \in Instances
        BY <1>5, <2>2, <2>3 DEF Same
      <4> QED  BY <2>4, <4>2, <4>3 DEF Of
    <3>2. \A i \in Instances \ {n} : record'[i] = record[i]
      BY <1>5, <2>3 DEF Typing
    <3>3. record'[n].root = c.root /\ record'[n].control = c.control
      BY <1>5, <2>3 DEF Typing
    <3>4. c.control \in ControlPorts
      BY <1>2 DEF Shape
    <3>5. ASSUME NEW i \in Instances, record'[i].listed
          PROVE  Of(i, record[i].root)' /\ record'[i].control \in ControlPorts
      <4>1. PICK root : root = record'[i].root
        OBVIOUS
      <4>2. Of(i, root)' /\ record'[i].control \in ControlPorts
        <5>1. CASE i = n
          BY <3>1, <3>3, <3>4, <4>1, <5>1
        <5>2. CASE i # n
          <6>1. Of(i, root) /\ record[i].control \in ControlPorts
            BY <3>2, <3>5, <4>1, <5>2 DEF IInv, RecordInv
          <6> QED  BY <2>5, <3>2, <5>2, <6>1, OfKept
        <5> QED  BY <5>1, <5>2
      <4> QED  BY <4>1, <4>2 DEF Of
    <3> QED  BY <3>5 DEF RecordInv
  <2>8. FileInv'
    BY <1>3 DEF IInv, FileInv, disk
  <2>9. ProcInv(p)'
    <3>0. c.kind \in {"tui", "serve"} /\ c.step = "idle"
      BY <1>2 DEF Shape, AtsOf, Kinds
    <3>1. Shape(proc[p])'
      BY <1>2, <2>2, <2>4, <3>0 DEF Shape, Same, AtsOf, Kinds, Sessions
    <3>2. Holding(proc[p], held[p])'
      BY <1>2, <2>2, <2>4, <3>0 DEF Holding, Same, Sessions
    <3>3. Knows(proc[p])'
      BY <1>2, <2>2, <2>4, <3>0 DEF Knows, Same
    <3> QED  BY <3>1, <3>2, <3>3 DEF ProcInv
  <2> QED  BY <1>3, <2>5, <2>6, <2>7, <2>8, <2>9, Sound
<1> QED  BY <1>1, <1>4, <1>5 DEF Publish

-----------------------------------------------------------------------------
(* The end of a process.                                                   *)

LEMMA EndSound ==
  ASSUME IInv, NEW p \in Procs, StartTimesOut(p) \/ Detach(p) \/ Crash(p) \/ Loaded(p)
  PROVE  IInv'
<1>1. Exit(p) /\ UNCHANGED <<disk, next, record, started>>
  BY DEF StartTimesOut, Detach, Crash, Loaded, servers
<1> QED  BY <1>1, NoneDropped, ExitSound

LEMMA StopSound == ASSUME IInv, NEW p \in Procs, Stop(p) PROVE IInv'
<1>1. PICK to : to = [proc[p] EXCEPT !.at = "stopping", !.step = "idle", !.seen = {},
                                     !.port = None, !.control = None]
  OBVIOUS
<1>2. /\ IsRec(to) /\ Same(proc[p], to) /\ to.step = "idle" /\ to.at = "stopping"
      /\ to.inst = proc[p].inst
  BY <1>1, ProcFacts, ZenonT(60) DEF IsRec, Fields, Same
<1>3. proc[p].at \in {"ready", "serving"} /\ "stopping" \in AtsOf(proc[p].kind)
  BY ProcFacts DEF Stop, Shape, AtsOf, Kinds
<1>4. UNCHANGED <<disk, next>> /\ started \subseteq started' /\ Dropped /\ Become(p, to)
  BY <1>1, NoneDropped DEF Stop, servers
<1> QED  BY <1>2, <1>3, <1>4, OnwardHolding

LEMMA StopEndsSound == ASSUME IInv, NEW p \in Procs, StopEnds(p) PROVE IInv'
<1>1. /\ proc[p].at = "stopping" /\ UNCHANGED <<disk, next, started>>
      /\ record' = [record EXCEPT ![proc[p].inst] = NoRecord] /\ (Fails(p) \/ Exit(p))
  BY DEF StopEnds
<1>2. Dropped
  BY <1>1 DEF IInv, Typing, Dropped
<1> QED  BY <1>1, <1>2, ExitSound, FailsSound

-----------------------------------------------------------------------------
(* The blocking load.                                                      *)

\* The profile's entry tells nothing of what its server holds and knows.
LEMMA EntryAlike ==
  ASSUME IInv, NEW q \in Procs, NEW gen, NEW life
  PROVE  Alike(proc[q], Entry(q, gen, life)) /\ IsRec(Entry(q, gen, life))
<1>1. IsRec(proc[q])
  BY ProcFacts
<1> QED  BY <1>1 DEF Entry, Alike, IsRec, Fields

LEMMA AdmittedAlike ==
  ASSUME IInv, NEW q \in Procs, NEW entry \in Admitted(q)
  PROVE  Alike(proc[q], entry) /\ IsRec(entry)
<1>1. \/ entry = proc[q]
      \/ entry = Entry(q, proc[q].gen + 1, "loading")
  BY DEF Admitted
<1> QED  BY <1>1, EntryAlike, ProcFacts DEF Alike

LEMMA ManageSound == ASSUME IInv, NEW q \in Procs, Manage(q) PROVE IInv'
<1>1. PICK to : Become(q, to) /\ Alike(proc[q], to) /\ IsRec(to)
  BY EntryAlike, AdmittedAlike DEF Manage
<1>2. proc[q].at \in {"ready", "serving"} /\ proc[q].at \in AtsOf(proc[q].kind)
  BY ProcFacts DEF Manage, Answers, Shape
<1>3. UNCHANGED <<disk, next>> /\ started \subseteq started' /\ Dropped
  BY NoneDropped DEF Manage, servers
<1>4. /\ proc[q].step = "probed" => \A s \in proc[q].seen : Of(s[1], proc[q].root)
      /\ proc[q].step = "verify" => Of(proc[q].found, proc[q].root)
      /\ proc[q].at = "serving" => proc[q].found = proc[q].inst
      /\ proc[q].step # "idle" => proc[q].at = "ready"
  BY <1>2, ProcFacts DEF Knows, Shape
<1> QED  BY <1>1, <1>2, <1>3, <1>4, OnwardHolding DEF Alike, Same

\* The client that is admitted waits for the server it has found.
LEMMA AdmitSound == ASSUME IInv, NEW p \in Procs, Admit(p) PROVE IInv'
<1>1. /\ UNCHANGED <<disk, next, record, started>> /\ Dropped
      /\ UNCHANGED <<file, receipt>>
  BY NoneDropped DEF Admit, servers, disk
<1>2. CASE Exit(p)
  BY <1>1, <1>2, ExitSound
<1>3. PICK c : c = proc[p]
  OBVIOUS
<1>4. /\ Shape(c) /\ Holding(c, held[p]) /\ Knows(c) /\ IsRec(c)
      /\ c.candidate \in 0..MaxVersion /\ c.at = "admit"
  BY <1>3, ProcFacts DEF Admit
<1>5. ASSUME NEW q \in Authorized(p, c.found), NEW entry \in Admitted(q), NEW to, NEW locks,
             proc' = [proc EXCEPT ![q] = entry, ![p] = to],
             held' = [held EXCEPT ![p] = locks],
             IsRec(to), to.candidate \in 0..MaxVersion,
             to.inst = 0 \/ (to.inst = c.inst /\ to.root = c.root),
             Shape(to), Holding(to, locks), Knows(to),
             locks \subseteq held[p]
      PROVE  IInv'
  <2>1. q \in Procs /\ q # p /\ Typing
    BY <1>3, <1>4 DEF Authorized, Answers, IInv
  <2>2. /\ proc'[p] = to /\ proc'[q] = entry
        /\ \A r \in Procs \ {p, q} : proc'[r] = proc[r]
        /\ held'[p] = locks /\ \A r \in Procs \ {p} : held'[r] = held[r]
        /\ proc' = [r \in Procs |-> proc'[r]] /\ held' = [r \in Procs |-> held'[r]]
    BY <1>5, <2>1 DEF Typing
  <2>3. Alike(proc[q], entry) /\ IsRec(entry)
    BY <2>1, AdmittedAlike
  <2>4. Others(p)
    BY <2>2, <2>3 DEF Others, Alike
  <2>5. InstKept(p) /\ LocksKept(p)
    BY <1>1, <1>3, <1>5, <2>2 DEF InstKept, LocksKept, disk
  <2>6. Typing'
    <3>1. \A r \in Procs : proc[r].inst \in Nat /\ proc[r].candidate \in 0..MaxVersion
                           /\ IsRec(proc[r])
      BY <2>1 DEF Typing
    <3>2. IsRec(proc'[q]) /\ proc'[q].inst \in Nat /\ proc'[q].candidate \in 0..MaxVersion
      BY <2>1, <2>2, <2>3, <3>1 DEF Alike
    <3>3. IsRec(proc'[p]) /\ proc'[p].inst \in Nat /\ proc'[p].candidate \in 0..MaxVersion
      BY <1>3, <1>5, <2>2, <3>1
    <3>4. ASSUME NEW r \in Procs
          PROVE  IsRec(proc'[r]) /\ proc'[r].inst \in Nat /\ proc'[r].candidate \in 0..MaxVersion
      BY <2>2, <3>1, <3>2, <3>3
    <3> QED  BY <1>1, <2>1, <2>2, <3>4 DEF Typing, IsRec
  <2>7. RecordInv'
    <3>1. ASSUME NEW i \in Instances, record'[i].listed
          PROVE  Of(i, record[i].root)' /\ record'[i].control \in ControlPorts
      <4>1. PICK root : root = record[i].root
        OBVIOUS
      <4>2. Of(i, root) /\ record[i].control \in ControlPorts
        BY <1>1, <3>1, <4>1 DEF IInv, RecordInv
      <4>3. Of(i, root)'
        BY <2>4, <2>5, <4>2, OfKept
      <4> QED  BY <1>1, <4>1, <4>2, <4>3 DEF Of
    <3> QED  BY <3>1 DEF RecordInv
  <2>8. FileInv'
    BY <1>1 DEF IInv, FileInv
  <2>9. ProcInv(p)'
    <3>1. Shape(proc[p])'
      BY <1>1, <1>5, <2>2 DEF Shape
    <3>3. Holding(proc[p], held[p])'
      BY <1>1, <1>5, <2>2 DEF Holding
    <3>2. Knows(proc[p])'
      <4>1. to.step = "probed" => \A s \in to.seen : Of(s[1], to.root)'
        BY <1>5, <2>4, <2>5, OfKept DEF Knows
      <4>2. to.step = "verify" \/ to.at \in {"admit", "wait"} => Of(to.found, to.root)'
        BY <1>5, <2>4, <2>5, OfKept DEF Knows
      <4> QED  BY <1>1, <1>5, <2>2, <4>1, <4>2 DEF Knows
    <3> QED  BY <3>1, <3>2, <3>3 DEF ProcInv
  <2> QED  BY <1>1, <2>4, <2>5, <2>6, <2>7, <2>8, <2>9, Sound
<1>6. ASSUME NEW q \in Authorized(p, c.found), NEW entry \in Admitted(q),
             proc' = [proc EXCEPT ![q] = entry,
                                  ![p] = [c EXCEPT !.at = "wait", !.want = entry.gen,
                                                   !.by = entry.inst]],
             UNCHANGED held
      PROVE  IInv'
  <2>1. PICK to : to = [c EXCEPT !.at = "wait", !.want = entry.gen, !.by = entry.inst]
    OBVIOUS
  <2>2. /\ IsRec(to) /\ Same(c, to) /\ to.at = "wait" /\ to.step = c.step
        /\ to.inst = c.inst /\ to.found = c.found /\ to.by = entry.inst
    BY <1>4, <2>1 DEF IsRec, Fields, Same
  <2>3. entry.inst = c.found
    BY AdmittedAlike DEF Authorized, Alike
  <2>4. c.kind = "load" /\ c.step = "idle"
    BY <1>4 DEF Shape, AtsOf, Kinds
  <2>5. Shape(to)
    BY <1>4, <2>2, <2>4 DEF Shape, Same, AtsOf, Sessions
  <2>6. Holding(to, held[p])
    BY <1>4, <2>2, <2>4 DEF Holding, Same, Sessions
  <2>7. Knows(to)
    BY <1>4, <2>2, <2>3, <2>4 DEF Knows, Same
  <2>8. held' = [held EXCEPT ![p] = held[p]]
    BY <1>6 DEF IInv, Typing
  <2> QED  BY <1>4, <1>5, <1>6, <2>1, <2>2, <2>5, <2>6, <2>7, <2>8 DEF Same
<1>7. ASSUME NEW q \in Authorized(p, c.found), NEW entry \in Admitted(q),
             proc' = [proc EXCEPT ![q] = entry, ![p] = Off], held' = [held EXCEPT ![p] = {}]
      PROVE  IInv'
  <2>1. Shape(Off) /\ Holding(Off, {}) /\ Knows(Off)
    BY OffFacts DEF Shape, AtsOf, Holding, Knows, Sessions
  <2> QED  BY <1>5, <1>7, <2>1, OffFacts
<1> QED  BY <1>2, <1>3, <1>6, <1>7 DEF Admit

LEMMA PollSound == ASSUME IInv, NEW p \in Procs, Poll(p) PROVE IInv'
<1>1. UNCHANGED <<disk, next>> /\ started \subseteq started' /\ Dropped
  BY NoneDropped DEF Poll, servers
<1>2. CASE Exit(p)
  BY <1>1, <1>2, ExitSound
<1>3. PICK c : c = proc[p]
  OBVIOUS
<1>4. /\ Shape(c) /\ Knows(c) /\ IsRec(c) /\ c.at = "wait" /\ c.step = "idle"
      /\ c.kind = "load"
  BY <1>3, ProcFacts DEF Poll, Shape, AtsOf, Kinds
<1>5. CASE Become(p, [c EXCEPT !.at = "loaded"])
  <2>1. PICK to : to = [c EXCEPT !.at = "loaded"]
    OBVIOUS
  <2>2. IsRec(to) /\ Same(c, to) /\ to.at = "loaded" /\ to.step = "idle" /\ to.inst = c.inst
    BY <1>4, <2>1 DEF IsRec, Fields, Same
  <2>3. "loaded" \in AtsOf(c.kind)
    BY <1>4 DEF AtsOf
  <2> QED  BY <1>1, <1>3, <1>4, <1>5, <2>1, <2>2, <2>3, OnwardHolding
<1>6. CASE Become(p, c)
  <2>1. Same(c, c) /\ c.at \in AtsOf(c.kind) /\ Of(c.found, c.root) /\ c.by = c.found
    BY <1>4 DEF Same, Shape, Knows
  <2> QED  BY <1>1, <1>3, <1>4, <1>6, <2>1, OnwardHolding
<1> QED  BY <1>2, <1>3, <1>5, <1>6 DEF Poll

-----------------------------------------------------------------------------
(* The invariant holds.                                                    *)

LEMMA InitSound == Init => IInv
<1> SUFFICES ASSUME Init PROVE IInv
  OBVIOUS
<1>1. \A p \in Procs : proc[p] = Off /\ held[p] = {}
  BY DEF Init
<1>2. Typing
  <2>1. MaxVersion \in Nat
    BY OwnershipAssumption
  <2> QED  BY <1>1, <2>1, OffFacts DEF Init, Typing
<1>3. \A p \in Procs : ProcInv(p)
  BY <1>1, OffFacts DEF ProcInv, Shape, AtsOf, Holding, Knows, Sessions
<1>4. LockInv
  BY <1>1 DEF LockInv
<1>5. InstInv
  BY <1>1, OffFacts DEF InstInv, Init
<1>6. RecordInv
  BY DEF RecordInv, Init, NoRecord
<1>7. FileInv
  BY OwnershipAssumption DEF FileInv, Init
<1> QED  BY <1>2, <1>3, <1>4, <1>5, <1>6, <1>7 DEF IInv

LEMMA StutterSound == ASSUME IInv, UNCHANGED vars PROVE IInv'
<1>1. UNCHANGED <<proc, held, file, receipt, record, started, next>>
  BY DEF vars, disk, servers
<1>2. Typing'
  BY <1>1 DEF IInv, Typing
<1>3. \A p \in Procs : ProcInv(p)'
  <2>1. \A p \in Procs : Shape(proc[p])'
    BY <1>1, ProcFacts DEF Shape
  <2>2. \A p \in Procs : Holding(proc[p], held[p])'
    BY <1>1, ProcFacts DEF Holding
  <2>3. \A p \in Procs : Knows(proc[p])'
    BY <1>1, ProcFacts DEF Knows, Of
  <2> QED  BY <2>1, <2>2, <2>3 DEF ProcInv
<1>4. LockInv' /\ InstInv'
  BY <1>1 DEF IInv, LockInv, InstInv
<1>5. RecordInv' /\ FileInv'
  BY <1>1 DEF IInv, RecordInv, FileInv, Of
<1> QED  BY <1>2, <1>3, <1>4, <1>5 DEF IInv

LEMMA StepSound == IInv /\ [Next]_vars => IInv'
<1> SUFFICES ASSUME IInv, [Next]_vars PROVE IInv'
  OBVIOUS
<1>1. CASE UNCHANGED vars
  BY <1>1, StutterSound
<1>2. ASSUME NEW p \in Procs, Proceed(p) PROVE IInv'
  BY <1>2, TakeLockSound, ApproveSound, UpdateSound, ReplaceSound, EraseSound, ObserveSound,
     ConcludeSound, VerifySound, StartLockSound, BindSound, ClaimSound, PublishSound,
     StopEndsSound, AdmitSound, PollSound, EndSound DEF Proceed
<1>3. ASSUME NEW p \in Procs, StartTimesOut(p) \/ Stop(p) \/ Surroundings(p) PROVE IInv'
  BY <1>3, EndSound, StopSound, StartSound, WatchSound, ManageSound DEF Surroundings
<1> QED  BY <1>1, <1>2, <1>3 DEF Next

LEMMA Invariance == Spec => []IInv
BY InitSound, StepSound, PTL DEF Spec

-----------------------------------------------------------------------------
(* What follows.                                                           *)

\* A process that reports that it serves has seen its own instance answer, and nobody
\* else answers for its state directory (the owner lock of Store::claim_server,
\* RunningServer::wait_until_ready).
THEOREM Serving == Spec => []ServesItself
<1>1. IInv => ServesItself
  <2> SUFFICES ASSUME IInv, NEW p \in Procs, proc[p].at = "serving"
               PROVE  /\ proc[p].found = proc[p].inst
                      /\ \A q \in Procs \ {p} : Answers(q) => proc[q].root # proc[p].root
    BY DEF ServesItself
  <2>1. proc[p].found = proc[p].inst
    BY ProcFacts DEF Knows
  <2>2. \A q \in Procs \ {p} : Answers(q) => proc[q].root # proc[p].root
    BY OneAnswers DEF Answers
  <2> QED  BY <2>1, <2>2
<1> QED  BY Invariance, <1>1, PTL

\* While the installer replaces the executable, nothing that shares its file, its path
\* or its storage is past its first locks (ReplacementGuard::acquire, session_guard).
THEOREM Replacing == Spec => []ReplacedAlone
<1>1. IInv => ReplacedAlone
  <2> SUFFICES ASSUME IInv, NEW p \in Procs, NEW q \in Procs, p # q,
                      proc[p].at = "replace", Running(q), Shares(p, q),
                      proc[q].at \notin {"locking", "approve"}
               PROVE  FALSE
    BY DEF ReplacedAlone
  <2>1. proc[p].kind = "update" /\ proc[p].n = 6 /\ proc[p].path = Owned
    BY ProcFacts DEF Shape, AtsOf, Kinds, Sessions, Knows
  <2>2. /\ << <<"path", Owned>>, "exclusive">> \in held[p]
        /\ << <<"receipt", Owned>>, "exclusive">> \in held[p]
        /\ << <<"file", file[Owned]>>, "exclusive">> \in held[p]
        /\ << <<"storage", proc[p].root>>, "exclusive">> \in held[p]
    <3>1. Holding(proc[p], held[p]) /\ proc[p].kind \notin Sessions
          /\ proc[p].n >= 1 /\ proc[p].n >= 2 /\ proc[p].n >= 4 /\ proc[p].n >= 5
      BY <2>1, ProcFacts DEF Sessions
    <3> QED  BY <2>1, <3>1 DEF Holding
  <2>3. proc[p].version = file[Owned]
    BY ProcFacts DEF Knows, IInv, FileInv
  <2>4. /\ <<"path", Owned>> \in Locks /\ <<"receipt", Owned>> \in Locks
        /\ <<"file", file[Owned]>> \in Locks /\ <<"storage", proc[p].root>> \in Locks
    <3>1. file[Owned] \in 0..MaxVersion /\ proc[p].root \in Roots
      BY <2>1, ProcFacts, OwnershipAssumption DEF IInv, Typing, Shape
    <3> QED  BY <3>1, OwnershipAssumption DEF Locks
  <2>5. \A l \in Locks, m \in Modes :
          << l, "exclusive">> \in held[p] => <<l, m>> \notin held[q]
    BY DEF IInv, LockInv
  <2>6. "shared" \in Modes /\ "exclusive" \in Modes
    BY DEF Modes
  <2>7. proc[q].kind \in Kinds
    BY ProcFacts DEF Shape, AtsOf, Running
  <2>8. CASE proc[q].kind = "update"
    <3>1. proc[q].n = 6
      BY <2>8, ProcFacts DEF Shape
    <3>2. << <<"receipt", Owned>>, "exclusive">> \in held[q]
      <4>1. Holding(proc[q], held[q]) /\ proc[q].n >= 2
        BY <3>1, ProcFacts
      <4> QED  BY <2>8, <4>1 DEF Holding
    <3> QED  BY <2>2, <2>4, <2>5, <2>6, <3>2
  <2>9. CASE proc[q].kind = "prune"
    BY <2>2, <2>4, <2>5, <2>6, <2>9, ProcFacts DEF Shape, Holding, Shares
  <2>10. CASE proc[q].kind \in Sessions
    <3>1. /\ << <<"path", proc[q].path>>, "shared">> \in held[q]
          /\ proc[q].path # Owned => << <<"file", 0>>, "shared">> \in held[q]
          /\ << <<"storage", proc[q].root>>, "shared">> \in held[q]
      <4>1. proc[q].n = 3
        BY <2>10, ProcFacts DEF Shape
      <4>2. Holding(proc[q], held[q]) /\ proc[q].n >= 1 /\ proc[q].n >= 2 /\ proc[q].n >= 3
        BY <4>1, ProcFacts
      <4> QED  BY <2>10, <4>2 DEF Holding
    <3>2. proc[q].path # Owned => proc[q].version = 0
      BY <2>10, ProcFacts DEF Knows, Sessions
    <3>3. CASE proc[q].root = proc[p].root
      BY <2>2, <2>4, <2>5, <2>6, <3>1, <3>3
    <3>4. CASE proc[q].path = Owned
      BY <2>2, <2>4, <2>5, <2>6, <3>1, <3>4
    <3>5. CASE proc[q].path # Owned /\ proc[q].version = proc[p].version
      <4>1. file[Owned] = 0
        BY <2>3, <3>2, <3>5
      <4> QED  BY <2>2, <2>4, <2>5, <2>6, <3>1, <3>5, <4>1
    <3> QED  BY <2>1, <3>3, <3>4, <3>5 DEF Shares
  <2> QED  BY <2>7, <2>8, <2>9, <2>10 DEF Kinds, Sessions
<1> QED  BY Invariance, <1>1, PTL

\* Of all that happens only an installation changes the installed files.
LEMMA OnlyReplace ==
  ASSUME NEW p \in Procs, Proceed(p) \/ StartTimesOut(p) \/ Stop(p) \/ Surroundings(p),
         ~Replace(p)
  PROVE  UNCHANGED file
<1>1. CASE Proceed(p)
  BY <1>1 DEF Proceed, TakeLock, ApproveUpdate, NoServerProcess, RecheckReceipt, Erase, Observe,
     Conclude, Verify, StartLock, Bind, Claim, Publish, StopEnds, Admit, Poll, Loaded, disk
<1>2. CASE StartTimesOut(p) \/ Stop(p) \/ Surroundings(p)
  BY <1>2 DEF StartTimesOut, Stop, Surroundings, Start, Watch, Detach, Crash, Manage, disk
<1> QED  BY <1>1, <1>2

\* The installed executable never goes back to an older release, whatever updates are
\* discovered and approved at once (Candidate::install reads the receipt again).
THEOREM Upgrades == Spec => NeverDowngrades
<1> DEFINE A == file'[Owned] >= file[Owned]
<1>1. IInv /\ [Next]_vars => [A]_vars
  <2> SUFFICES ASSUME IInv, Next PROVE A
    OBVIOUS
  <2>1. Owned \in Paths /\ file \in [Paths -> 0..MaxVersion] /\ MaxVersion \in Nat
    BY OwnershipAssumption DEF IInv, Typing
  <2>2. PICK p \in Procs : Proceed(p) \/ StartTimesOut(p) \/ Stop(p) \/ Surroundings(p)
    BY DEF Next
  <2>3. CASE UNCHANGED file
    BY <2>1, <2>3
  <2>4. CASE Replace(p) /\ file' = [file EXCEPT ![proc[p].path] = proc[p].candidate]
    <3>1. proc[p].at = "replace"
      BY <2>4 DEF Replace
    <3>2. proc[p].kind = "update" /\ proc[p].path = Owned
      BY <3>1, ProcFacts DEF Shape, AtsOf, Kinds, Knows
    <3>3. proc[p].version = file[Owned] /\ proc[p].candidate > proc[p].version
      BY <3>1, <3>2, ProcFacts DEF Knows, IInv, FileInv
    <3>4. file'[Owned] = proc[p].candidate /\ proc[p].candidate \in 0..MaxVersion
      BY <2>1, <2>4, <3>2, ProcFacts
    <3> QED  BY <2>1, <3>3, <3>4
  <2> QED  BY <2>2, <2>3, <2>4, OnlyReplace DEF Replace
<1>2. Spec => [][A]_vars
  <2> HIDE DEF A
  <2> QED  BY InitSound, StepSound, <1>1, PTL DEF Spec
<1> QED  BY <1>2 DEF NeverDowngrades

\* A step that moves one process.
LEMMA Arrives ==
  ASSUME IInv, NEW p \in Procs, proc[p].at # "loaded", proc'[p].at = "loaded",
         NEW r \in Procs, NEW to, NEW locks, Move(r, to, locks)
  PROVE  r = p /\ to.at = "loaded"
BY DEF Move, IInv, Typing

LEMMA ArrivesBecoming ==
  ASSUME IInv, NEW p \in Procs, proc[p].at # "loaded", proc'[p].at = "loaded",
         NEW r \in Procs, NEW to, Become(r, to)
  PROVE  r = p /\ to.at = "loaded"
BY Arrives DEF Become

\* Only the answer to a poll ends a load.
LEMMA OnlyPoll ==
  ASSUME IInv, NEW p \in Procs, proc[p].at # "loaded", proc'[p].at = "loaded",
         NEW r \in Procs, Proceed(r) \/ StartTimesOut(r) \/ Stop(r) \/ Surroundings(r)
  PROVE  r = p /\ Poll(p) /\ ~Exit(p)
<1> PICK c : c = proc[r]
  OBVIOUS
<1>1. IsRec(c)
  BY ProcFacts
<1>2. ~Exit(r)
  BY Arrives, OffFacts DEF Exit
<1>3. ~Fails(r)
  <2>1. PICK to : to = [c EXCEPT !.at = "failed", !.step = "idle", !.port = None,
                                 !.control = None, !.inst = 0, !.gen = 0, !.life = "none"]
    OBVIOUS
  <2>2. to.at = "failed"
    BY <1>1, <2>1 DEF IsRec, Fields
  <2> QED  BY <1>2, <2>1, <2>2, Arrives DEF Fails
<1>4. CASE (\E k \in Does[r] : Start(r, k))
  <2>1. PICK k, candidate :
          Become(r, [Off EXCEPT !.kind = k.kind, !.root = k.root, !.path = k.path,
                                !.config = k.config, !.version = file[k.path],
                                !.candidate = candidate,
                                !.at = IF k.kind = "update" THEN "approve" ELSE "locking"])
    BY <1>4 DEF Start
  <2>2. PICK to : to = [Off EXCEPT !.kind = k.kind, !.root = k.root, !.path = k.path,
                                   !.config = k.config, !.version = file[k.path],
                                   !.candidate = candidate,
                                   !.at = IF k.kind = "update" THEN "approve" ELSE "locking"]
    OBVIOUS
  <2>3. to.at \in {"approve", "locking"}
    BY <2>2, OffFacts DEF IsRec, Fields
  <2> QED  BY <2>1, <2>2, <2>3, ArrivesBecoming
<1>5. CASE TakeLock(r)
  <2>1. PICK plan : plan = LockPlan(c)
    OBVIOUS
  <2>2. PICK to : to = [c EXCEPT !.n = @ + 1,
                                 !.at = IF c.n + 1 = Len(plan) THEN AfterLocks(c.kind) ELSE @]
    OBVIOUS
  <2>3. to.at = IF c.n + 1 = Len(plan) THEN AfterLocks(c.kind) ELSE c.at
    BY <1>1, <2>2 DEF IsRec, Fields
  <2>4. c.at = "locking" /\ \E locks : Move(r, to, locks)
    BY <1>2, <1>5, <2>1, <2>2 DEF TakeLock
  <2>5. to.at # "loaded"
    BY <2>3, <2>4 DEF AfterLocks
  <2> QED  BY <2>4, <2>5, Arrives
<1>6. CASE ApproveUpdate(r) \/ NoServerProcess(r) \/ RecheckReceipt(r)
  BY <1>1, <1>2, <1>6, ArrivesBecoming
     DEF ApproveUpdate, NoServerProcess, RecheckReceipt, IsRec, Fields
<1>7. CASE Replace(r)
  <2>1. PICK to : to = [Off EXCEPT !.kind = "tui", !.root = c.root, !.path = c.path,
                                   !.config = c.config, !.version = c.candidate,
                                   !.at = "locking"]
    OBVIOUS
  <2>2. to.at = "locking"
    BY <2>1, OffFacts DEF IsRec, Fields
  <2> QED  BY <1>2, <1>7, <2>1, <2>2, Arrives DEF Replace
<1>8. CASE Erase(r) \/ Watch(r)
  BY <1>2, <1>8 DEF Erase, Watch
<1>9. CASE Observe(r)
  <2>1. PICK seen : Become(r, [c EXCEPT !.step = "probed", !.seen = seen])
    BY <1>9 DEF Observe
  <2>2. PICK to : to = [c EXCEPT !.step = "probed", !.seen = seen]
    OBVIOUS
  <2>3. to.at = c.at
    BY <1>1, <2>2 DEF IsRec, Fields
  <2> QED  BY <2>1, <2>2, <2>3, ArrivesBecoming
<1>10. CASE Conclude(r)
  <2>1. ASSUME NEW i, Learn(r, i) PROVE FALSE
    <3> DEFINE a == IF i = 0 THEN None ELSE (CHOOSE s \in proc[r].seen : s[1] = i)[3]
    <3> HIDE DEF a
    <3>1. PICK d : d = [c EXCEPT !.step = "idle", !.seen = {}, !.found = i, !.address = a]
      OBVIOUS
    <3>2. /\ d.at = c.at /\ [d EXCEPT !.step = "verify"].at = c.at
          /\ [d EXCEPT !.at = "admit"].at = "admit" /\ [d EXCEPT !.at = "bind"].at = "bind"
      BY <1>1, <3>1 DEF IsRec, Fields
    <3>3. c.at \in {"look", "failed", "ready", "find"}
      BY <1>10, ProcFacts DEF Conclude, Shape
    <3>4. \E to \in {d, [d EXCEPT !.step = "verify"], [d EXCEPT !.at = "admit"],
                   [d EXCEPT !.at = "bind"]} : Become(r, to)
      <4>1. CASE i # 0
        BY <1>2, <2>1, <3>1, <3>2, <3>3, <4>1 DEF Learn, a
      <4>2. CASE i = 0
        BY <1>2, <2>1, <3>1, <3>2, <3>3, <4>2 DEF Learn, a
      <4> QED  BY <4>1, <4>2
    <3>5. PICK to : Become(r, to) /\ to.at \in {c.at, "admit", "bind"}
      BY <3>2, <3>4
    <3> QED  BY <3>3, <3>5, ArrivesBecoming
  <2>2. ASSUME Undecided(r) PROVE FALSE
    <3>1. PICK d : d = [c EXCEPT !.step = "idle", !.seen = {}]
      OBVIOUS
    <3>2. PICK to : to = [d EXCEPT !.at = "stopping", !.port = None, !.control = None]
      OBVIOUS
    <3>3. d.at = c.at /\ to.at = "stopping"
      BY <1>1, <3>1, <3>2 DEF IsRec, Fields
    <3>4. c.at \in {"look", "failed", "ready", "find"}
      BY <1>10, ProcFacts DEF Conclude, Shape
    <3>5. Become(r, to)
      BY <1>2, <2>2, <3>1, <3>2, <3>3, <3>4 DEF Undecided
    <3> QED  BY <3>3, <3>5, ArrivesBecoming
  <2> QED  BY <1>10, <2>1, <2>2 DEF Conclude
<1>11. CASE Verify(r)
  <2>1. PICK x, y, z : /\ x = [c EXCEPT !.step = "idle", !.at = "attached", !.address = None]
                       /\ y = [c EXCEPT !.step = "idle", !.at = "serving", !.address = None]
                       /\ z = [c EXCEPT !.step = "idle"]
    OBVIOUS
  <2>2. x.at = "attached" /\ y.at = "serving" /\ z.at = c.at
    BY <1>1, <2>1 DEF IsRec, Fields
  <2>3. \E to, locks : Move(r, to, locks) /\ to \in {x, y, z}
    BY <1>2, <1>11, <2>1 DEF Verify, Serves, Attached, Become
  <2> QED  BY <2>2, <2>3, Arrives
<1>12. CASE StartLock(r)
  BY <1>1, <1>12, Arrives DEF StartLock, IsRec, Fields
<1>13. CASE Bind(r) \/ Claim(r) \/ Publish(r)
  <2>1. /\ [c EXCEPT !.port = c.config, !.at = "claim"].at = "claim"
        /\ [c EXCEPT !.inst = next, !.at = "ready"].at = "ready"
        /\ \A port : [c EXCEPT !.control = port, !.at = "publish"].at = "publish"
    BY <1>1 DEF IsRec, Fields
  <2>2. \E to, locks : Move(r, to, locks) /\ to.at \in {"claim", "ready", "publish"}
    BY <1>3, <1>13, <2>1, ZenonT(60) DEF Bind, Claim, Publish, Become
  <2> QED  BY <2>2, Arrives
<1>14. CASE Stop(r)
  <2>1. PICK to : to = [c EXCEPT !.at = "stopping", !.step = "idle", !.seen = {},
                                 !.port = None, !.control = None]
    OBVIOUS
  <2>2. to.at = "stopping"
    BY <1>1, <2>1 DEF IsRec, Fields
  <2> QED  BY <1>14, <2>1, <2>2, ArrivesBecoming DEF Stop
<1>15. CASE StopEnds(r)
  BY <1>2, <1>3, <1>15 DEF StopEnds
<1>16. CASE StartTimesOut(r) \/ Detach(r) \/ Crash(r) \/ Loaded(r)
  BY <1>2, <1>16 DEF StartTimesOut, Detach, Crash, Loaded
<1>17. CASE Manage(r)
  BY <1>17, ArrivesBecoming, EntryAlike, AdmittedAlike DEF Manage, Alike
<1>18. CASE Admit(r)
  <2>1. PICK q \in Authorized(r, c.found) : \E entry \in Admitted(q) :
          \/ proc' = [proc EXCEPT ![q] = entry,
                                  ![r] = [c EXCEPT !.at = "wait", !.want = entry.gen,
                                                   !.by = entry.inst]]
          \/ proc' = [proc EXCEPT ![q] = entry, ![r] = Off]
    BY <1>2, <1>18, ZenonT(60) DEF Admit
  <2>2. PICK entry \in Admitted(q) : \E to : proc' = [proc EXCEPT ![q] = entry, ![r] = to]
                                             /\ to.at # "loaded"
    <3>1. PICK entry \in Admitted(q) :
            \/ proc' = [proc EXCEPT ![q] = entry,
                                    ![r] = [c EXCEPT !.at = "wait", !.want = entry.gen,
                                                     !.by = entry.inst]]
            \/ proc' = [proc EXCEPT ![q] = entry, ![r] = Off]
      BY <2>1
    <3>2. PICK to : to = [c EXCEPT !.at = "wait", !.want = entry.gen, !.by = entry.inst]
      OBVIOUS
    <3>3. to.at = "wait"
      BY <1>1, <3>2 DEF IsRec, Fields
    <3> QED  BY <3>1, <3>2, <3>3, OffFacts
  <2>3. entry.at = proc[q].at /\ q \in Procs
    BY AdmittedAlike DEF Alike, Authorized
  <2> QED  BY <2>2, <2>3 DEF IInv, Typing
<1>19. CASE Poll(r)
  BY <1>1, <1>2, <1>19, ArrivesBecoming DEF Poll
<1> QED  BY <1>4, <1>5, <1>6, <1>7, <1>8, <1>9, <1>10, <1>11, <1>12, <1>13, <1>14, <1>15, <1>16,
            <1>17, <1>18, <1>19 DEF Proceed, Surroundings

\* A load that is reported as done has run on the server that admitted it, in the
\* generation it was admitted with (ControlClient::wait_for_admitted_load).
THEOREM Loading == Spec => LoadedIsTrue
<1> DEFINE A == \A p \in Procs : (proc[p].at # "loaded" /\ proc'[p].at = "loaded") =>
                  \E q \in Procs : /\ proc[q].inst = proc[p].by
                                   /\ proc[q].gen = proc[p].want
                                   /\ proc[q].life = "running"
<1>1. IInv /\ [Next]_vars => [A]_vars
  <2> SUFFICES ASSUME IInv, Next, NEW p \in Procs,
                      proc[p].at # "loaded", proc'[p].at = "loaded"
               PROVE  \E q \in Procs : /\ proc[q].inst = proc[p].by
                                       /\ proc[q].gen = proc[p].want
                                       /\ proc[q].life = "running"
    OBVIOUS
  <2>1. Poll(p) /\ ~Exit(p)
    BY OnlyPoll DEF Next
  <2>2. ~Become(p, proc[p])
    BY ArrivesBecoming
  <2>3. PICK q \in Authorized(p, proc[p].found) :
          proc[q].life = "running" /\ proc[q].gen = proc[p].want
    BY <2>1, <2>2 DEF Poll
  <2>4. proc[p].by = proc[p].found
    BY <2>1, ProcFacts DEF Poll, Knows
  <2> QED  BY <2>3, <2>4 DEF Authorized
<1>2. Spec => [][A]_vars
  <2> HIDE DEF A
  <2> QED  BY InitSound, StepSound, <1>1, PTL DEF Spec
<1> QED  BY <1>2 DEF LoadedIsTrue

=============================================================================
