------------------------------ MODULE Ownership ------------------------------
(* Who may run what from one installation: sessions, the server that serves   *)
(* from a state directory, its discovery by other processes, the command line *)
(* client that waits for a load, the self-update and the prune command.       *)
(*                                                                            *)
(* Processes share nothing but files and ports.  Locks are advisory and are   *)
(* released when their holder exits or is killed.  Clocks are not modelled:   *)
(* a probe may find a live server too slow, a deadline may pass in any state  *)
(* the code waits in, and a server's record may be old enough or not.         *)
EXTENDS Naturals, FiniteSets, Sequences

CONSTANTS
  Procs,             \* operating system processes
  Roots,             \* state directories
  Paths,             \* paths of the executable, hard links of one file at first
  Owned,             \* the path the installation receipt speaks of
  Does,              \* Does[p]: the [kind, root, path] that p may run as (a bound)
  Ports,             \* public ports a configuration may name
  ControlPorts,      \* loopback ports the system hands out
  MaxInstances,      \* bound: servers that publish themselves
  MaxGenerations,    \* bound: loads of one server
  MaxVersion,        \* bound: releases
  None               \* no port

Kinds == {"tui", "serve", "load", "update", "prune"}

ASSUME OwnershipAssumption ==
  /\ Owned \in Paths
  /\ Does \in [Procs -> SUBSET [kind : Kinds, root : Roots, path : Paths,
                               config : Ports \cup {None}]]
  /\ {MaxInstances, MaxGenerations, MaxVersion} \subseteq Nat
  /\ None \notin Ports \cup ControlPorts

VARIABLES
  proc,      \* proc[p]: the command p runs, how far it is, what it listens on
  held,      \* held[p]: the file locks of p, each with its mode
  file,      \* file[x]: the version of the executable at path x
  receipt,   \* the version the installation receipt names
  record,    \* record[i]: the descriptor file of server instance i
  started,   \* the state directories where the start lock file exists
  next       \* the next server instance

disk == <<file, receipt>>
servers == <<record, next>>
vars == <<proc, held, file, receipt, record, started, next>>

Instances == 1..MaxInstances
Locks == ({"path"} \X Paths) \cup ({"file"} \X (0..MaxVersion))
         \cup ({"storage", "start", "owner"} \X Roots)
         \cup {<<"receipt", Owned>>, <<"prefix", Owned>>}

\* n: locks taken so far; step and found: the observation of the servers;
\* gen and life: the profile's entry of a server; want: the generation a client
\* was admitted with, by the server instance by.
Off ==
  [kind |-> "none", at |-> "off", root |-> "none", path |-> "none", version |-> 0,
   n |-> 0, candidate |-> 0, config |-> None, port |-> None, control |-> None, inst |-> 0,
   step |-> "idle", seen |-> {}, found |-> 0, address |-> None,
   gen |-> 0, life |-> "none", want |-> 0, by |-> 0]

NoRecord == [listed |-> FALSE, root |-> "none", port |-> None, control |-> None]

Init ==
  /\ proc = [p \in Procs |-> Off]
  /\ held = [p \in Procs |-> {}]
  /\ file = [x \in Paths |-> 0]
  /\ receipt = 0
  /\ record = [i \in Instances |-> NoRecord]
  /\ started = {}
  /\ next = 1

Running(p) == proc[p].at # "off"
Listed(root) == {i \in Instances : record[i].listed /\ record[i].root = root}
Answers(p) == proc[p].at \in {"ready", "serving"}

Move(p, to, locks) ==
  /\ proc' = [proc EXCEPT ![p] = to]
  /\ held' = [held EXCEPT ![p] = locks]
Become(p, to) == Move(p, to, held[p])
Exit(p) == Move(p, Off, {})

-----------------------------------------------------------------------------
(* Locks are tried, never waited for; the start lock alone is tried again.    *)
Grantable(p, lock, mode) ==
  \A q \in Procs \ {p} :
    /\ <<lock, "exclusive">> \notin held[q]
    /\ mode = "exclusive" => <<lock, "shared">> \notin held[q]

\* A session shares its installation and its storage with other sessions; the
\* lock on the file itself meets the sessions that came by another hard link.
SessionLocks(c) ==
  << << <<"path", c.path>>, "shared">>,
     << <<"file", file[c.path]>>, "shared">>,
     << <<"storage", c.root>>, "shared">> >>

\* Mutant: the executable is locked by its path only.
MUT_UpdateLocks(c) ==
  << << <<"path", c.path>>, "exclusive">>,
     << <<"receipt", Owned>>, "exclusive">>,
     << <<"prefix", Owned>>, "exclusive">>,
     << <<"storage", c.root>>, "exclusive">>,
     << <<"start", c.root>>, "exclusive">> >>
UpdateLocks(c) ==
  << << <<"path", c.path>>, "exclusive">>,
     << <<"receipt", Owned>>, "exclusive">>,
     << <<"prefix", Owned>>, "exclusive">>,
     << <<"file", file[c.path]>>, "exclusive">>,
     << <<"storage", c.root>>, "exclusive">>,
     << <<"start", c.root>>, "exclusive">> >>

\* Prune takes the start lock where its file exists.
PruneLocks(c) ==
  IF c.root \in started
    THEN << << <<"storage", c.root>>, "exclusive">>, << <<"start", c.root>>, "exclusive">> >>
    ELSE << << <<"storage", c.root>>, "exclusive">> >>

LockPlan(c) ==
  CASE c.kind = "update" -> UpdateLocks(c)
    [] c.kind = "prune" -> PruneLocks(c)
    [] OTHER -> SessionLocks(c)

AfterLocks(kind) ==
  CASE kind \in {"update", "prune"} -> "servers"
    [] kind = "load" -> "find"
    [] OTHER -> "start"

\* A process starts from the executable at its path; an update has found a release
\* newer than itself.
Start(p, c) ==
  /\ ~Running(p)
  /\ \E candidate \in IF c.kind = "update" THEN (file[c.path] + 1)..MaxVersion ELSE {0} :
       Become(p, [Off EXCEPT !.kind = c.kind, !.root = c.root, !.path = c.path,
                             !.config = c.config, !.version = file[c.path], !.candidate = candidate,
                             !.at = IF c.kind = "update" THEN "approve" ELSE "locking"])
  /\ UNCHANGED <<disk, servers, started>>

TakeLock(p) ==
  LET c == proc[p]  plan == LockPlan(c)  wanted == plan[c.n + 1] IN
  /\ c.at = "locking"
  /\ IF Grantable(p, wanted[1], wanted[2])
       THEN Move(p, [c EXCEPT !.n = @ + 1,
                              !.at = IF c.n + 1 = Len(plan) THEN AfterLocks(c.kind) ELSE @],
                 held[p] \cup {wanted})
       ELSE Exit(p)
  /\ started' = started \cup {r \in Roots : wanted[1] = <<"start", r>>}
  /\ UNCHANGED <<disk, servers>>

-----------------------------------------------------------------------------
(* Self-update.                                                               *)
\* The discovered release is kept until it is approved; the receipt must speak
\* of this executable and of the version that runs.
Validates(c) == c.path = Owned /\ receipt = c.version

ApproveUpdate(p) ==
  LET c == proc[p] IN
  /\ c.at = "approve"
  /\ \/ Validates(c) /\ Become(p, [c EXCEPT !.at = "locking"])
     \/ Exit(p)
  /\ UNCHANGED <<disk, servers, started>>

\* ensure_no_server_process: a recorded server whose process may exist refuses;
\* its number may have gone to another process.
NoServerProcess(p) ==
  LET c == proc[p] IN
  /\ c.at = "servers"
  /\ \/ /\ \A i \in Listed(c.root), q \in Procs : proc[q].inst # i
        /\ Become(p, [c EXCEPT !.at = IF c.kind = "update" THEN "recheck" ELSE "erase"])
     \/ Listed(c.root) # {} /\ Exit(p)
  /\ UNCHANGED <<disk, servers, started>>

\* Mutant: the receipt is not read again.
MUT_RecheckReceipt(p) ==
  /\ proc[p].at = "recheck"
  /\ Become(p, [proc[p] EXCEPT !.at = "replace"])
  /\ UNCHANGED <<disk, servers, started>>
RecheckReceipt(p) ==
  /\ proc[p].at = "recheck"
  /\ \/ Validates(proc[p]) /\ Become(p, [proc[p] EXCEPT !.at = "replace"])
     \/ ~Validates(proc[p]) /\ Exit(p)
  /\ UNCHANGED <<disk, servers, started>>

\* The installer, a program of its own, replaces the file at the path and writes the
\* receipt; another link keeps the old file.  One step is its whole run: an installer
\* killed between the two, which leaves a receipt older than the executable, is not
\* represented.  An interactive update then executes the new image in its place.
Replace(p) ==
  LET c == proc[p] IN
  /\ c.at = "replace"
  /\ \/ /\ file' = [file EXCEPT ![c.path] = c.candidate]
        /\ receipt' = c.candidate
        /\ \/ Exit(p)
           \/ Move(p, [Off EXCEPT !.kind = "tui", !.root = c.root, !.path = c.path,
                                  !.config = c.config, !.version = c.candidate, !.at = "locking"], {})
     \/ Exit(p) /\ UNCHANGED <<file, receipt>>
  /\ UNCHANGED <<servers, started>>

\* Prune deletes the records of servers that are gone, one file at a time.
Erase(p) ==
  LET c == proc[p] IN
  /\ c.at = "erase"
  /\ \/ \E i \in Listed(c.root) :
          record' = [record EXCEPT ![i] = NoRecord] /\ UNCHANGED <<proc, held>>
     \/ Listed(c.root) = {} /\ Exit(p) /\ UNCHANGED record
  /\ UNCHANGED <<disk, next, started>>

-----------------------------------------------------------------------------
(* Observation of the recorded servers.                                       *)
\* What a probe of instance i's recorded port may find.  A port nobody listens on
\* refuses; whoever listens may be too slow to answer.
Outcomes(i) ==
  LET there == {q \in Procs : proc[q].port = record[i].port}
  IN IF there = {} THEN {"refused"}
     ELSE {"unresponsive"} \cup {IF proc[q].inst = i THEN "healthy" ELSE "mismatch" :
                                  q \in {q \in there : Answers(q)}}

\* Every record of the state directory is read and probed at once.
Probes(root) ==
  {{<<i, out[i], record[i].control>> : i \in Listed(root)} :
     out \in {f \in [Listed(root) -> {"healthy", "mismatch", "refused", "unresponsive"}] :
              \A i \in Listed(root) : f[i] \in Outcomes(i)}}

Observe(p) ==
  LET c == proc[p] IN
  /\ c.at \in {"look", "failed", "ready", "find"} /\ c.step = "idle"
  /\ \E seen \in Probes(c.root) : Become(p, [c EXCEPT !.step = "probed", !.seen = seen])
  /\ UNCHANGED <<disk, servers, started>>

\* process_probe_evidence, for the servers beyond their grace period: a record goes
\* when somebody else answers on its port, or after enough failures of one kind over a
\* long enough time.  Which failure completes the evidence is left open.
ProcessEvidence(seen) ==
  LET foreign == {s \in seen : s[2] = "mismatch"}
      failing == {s \in seen : s[2] \in {"refused", "unresponsive"}}
  IN \E stale \in SUBSET (foreign \cup failing) :
       record' = [i \in Instances |->
                    IF \E s \in stale : s[1] = i THEN NoRecord ELSE record[i]]

\* The newest healthy server is the answer; none has the number 0.
Newest(seen) ==
  LET healthy == {s[1] : s \in {s \in seen : s[2] = "healthy"}}
  IN IF healthy = {} THEN {0} ELSE {i \in healthy : \A j \in healthy : j <= i}

\* A server found at a starting process has still to answer its control status.
Learn(p, i) ==
  LET address == IF i = 0 THEN None ELSE (CHOOSE s \in proc[p].seen : s[1] = i)[3]
      c == [proc[p] EXCEPT !.step = "idle", !.seen = {}, !.found = i, !.address = address] IN
  CASE i # 0 /\ c.at \in {"look", "failed", "ready"} ->
         Become(p, [c EXCEPT !.step = "verify"])
    [] i # 0 /\ c.at = "find" -> Become(p, [c EXCEPT !.at = "admit"])
    [] i = 0 /\ c.at = "look" -> Become(p, [c EXCEPT !.at = "bind"])
    [] i = 0 /\ c.at \in {"failed", "find"} -> Exit(p)
    [] OTHER -> Become(p, c)

\* An observation that took too long leaves the owner undecided.
Undecided(p) ==
  LET c == [proc[p] EXCEPT !.step = "idle", !.seen = {}] IN
  CASE c.at \in {"look", "failed", "find"} -> Exit(p)
    [] c.at = "ready" -> Become(p, [c EXCEPT !.at = "stopping", !.port = None, !.control = None])

Conclude(p) ==
  /\ proc[p].step = "probed"
  /\ \/ /\ \E i \in Newest(proc[p].seen) : Learn(p, i)
        /\ ProcessEvidence(proc[p].seen)
     \/ Undecided(p) /\ ProcessEvidence(proc[p].seen)
     \/ Undecided(p) /\ UNCHANGED record
  /\ UNCHANGED <<disk, next, started>>

\* A TUI refreshes the server's state all the time.
Watch(p) ==
  /\ proc[p].kind = "tui" /\ proc[p].at \in {"attached", "serving"}
  /\ \E seen \in Probes(proc[p].root) : ProcessEvidence(seen)
  /\ UNCHANGED <<proc, held, disk, next, started>>

-----------------------------------------------------------------------------
(* The control listener answers the holder of its instance's token.           *)
\* Mutant: the token is not compared.
MUT_Authorized(p, i) ==
  {q \in Procs : Answers(q) /\ proc[q].control = proc[p].address}
Authorized(p, i) ==
  {q \in Procs : Answers(q) /\ proc[q].control = proc[p].address /\ proc[q].inst = i}

\* discover_existing_control and wait_until_ready ask for the status.
Attached(p) == Move(p, [proc[p] EXCEPT !.step = "idle", !.at = "attached", !.address = None],
                    held[p] \ {<< <<"start", proc[p].root>>, "exclusive">>})
Serves(p) == Move(p, [proc[p] EXCEPT !.step = "idle", !.at = "serving", !.address = None],
                  held[p] \ {<< <<"start", proc[p].root>>, "exclusive">>})

Verify(p) ==
  LET c == proc[p] IN
  /\ c.step = "verify"
  /\ \/ /\ Authorized(p, c.found) # {}
        /\ IF c.at = "ready" THEN Serves(p) ELSE Attached(p)
     \/ IF c.at = "ready" THEN Become(p, [c EXCEPT !.step = "idle"]) ELSE Exit(p)
  /\ UNCHANGED <<disk, servers, started>>

-----------------------------------------------------------------------------
(* Startup of a server.                                                       *)
StartLock(p) ==
  LET c == proc[p]  lock == <<"start", c.root>> IN
  /\ c.at = "start"
  /\ Grantable(p, lock, "exclusive")
  /\ Move(p, [c EXCEPT !.at = IF c.kind = "tui" THEN "look" ELSE "bind"],
          held[p] \cup {<<lock, "exclusive">>})
  /\ started' = started \cup {c.root}
  /\ UNCHANGED <<disk, servers>>

\* Mutant: the lock is tried for ever.
MUT_StartTimesOut(p) == FALSE /\ UNCHANGED vars
StartTimesOut(p) ==
  /\ proc[p].at = "start"
  /\ Exit(p)
  /\ UNCHANGED <<disk, servers, started>>

\* A TUI whose server did not come up looks once more for somebody else's.
Fails(p) ==
  IF proc[p].kind = "tui"
    THEN Move(p, [proc[p] EXCEPT !.at = "failed", !.step = "idle", !.port = None,
                                 !.control = None, !.inst = 0, !.gen = 0, !.life = "none"],
              held[p] \ {<< <<"owner", proc[p].root>>, "exclusive">>})
    ELSE Exit(p)

Bind(p) ==
  LET c == proc[p] IN
  /\ c.at = "bind"
  /\ \/ /\ \A q \in Procs : proc[q].port # c.config
        /\ Become(p, [c EXCEPT !.port = c.config, !.at = "claim"])
     \/ Fails(p)
  /\ UNCHANGED <<disk, servers, started>>

\* The system hands out a free loopback port; here the lowest one, so that a number
\* is in use again as soon as it can be.
FreeControl ==
  LET free == ControlPorts \ {proc[q].control : q \in Procs}
  IN {port \in free : \A other \in free : port <= other}

\* Mutant: a server does not claim the directory.
MUT_Claim(p) ==
  LET c == proc[p] IN
  /\ c.at = "claim"
  /\ \/ \E port \in FreeControl : Become(p, [c EXCEPT !.control = port, !.at = "publish"])
     \/ Fails(p)
  /\ UNCHANGED <<disk, servers, started>>
Claim(p) ==
  LET c == proc[p]  lock == <<"owner", c.root>> IN
  /\ c.at = "claim"
  /\ \/ /\ Grantable(p, lock, "exclusive")
        /\ \E port \in FreeControl :
             Move(p, [c EXCEPT !.control = port, !.at = "publish"],
                  held[p] \cup {<<lock, "exclusive">>})
     \/ Fails(p)
  /\ UNCHANGED <<disk, servers, started>>

Publish(p) ==
  LET c == proc[p] IN
  /\ c.at = "publish"
  /\ \/ /\ next <= MaxInstances
        /\ record' = [record EXCEPT ![next] =
             [listed |-> TRUE, root |-> c.root, port |-> c.port,
              control |-> c.control]]
        /\ next' = next + 1
        /\ Become(p, [c EXCEPT !.inst = next, !.at = "ready"])
     \/ Fails(p) /\ UNCHANGED <<record, next>>
  /\ UNCHANGED <<disk, started>>

\* The listeners close first; the backends are stopped and the record is removed
\* before the process gives up what it holds.
Stop(p) ==
  /\ \/ proc[p].at = "ready"      \* not discoverable in time, or a listener failed
     \/ proc[p].at = "serving"    \* the foreground ended, or a listener failed
  /\ Become(p, [proc[p] EXCEPT !.at = "stopping", !.step = "idle", !.seen = {},
                               !.port = None, !.control = None])
  /\ UNCHANGED <<disk, servers, started>>

StopEnds(p) ==
  LET c == proc[p] IN
  /\ c.at = "stopping"
  /\ record' = [record EXCEPT ![c.inst] = NoRecord]
  /\ IF << <<"start", c.root>>, "exclusive">> \in held[p] THEN Fails(p) ELSE Exit(p)
  /\ UNCHANGED <<disk, next, started>>

Detach(p) ==
  /\ proc[p].at = "attached"
  /\ Exit(p)
  /\ UNCHANGED <<disk, servers, started>>

\* A killed process leaves its files behind.
Crash(p) ==
  /\ Running(p)
  /\ Exit(p)
  /\ UNCHANGED <<disk, servers, started>>

-----------------------------------------------------------------------------
(* The blocking load of the command line: admission, then polling.            *)
Entry(q, gen, life) == [proc[q] EXCEPT !.gen = gen, !.life = life]

\* A running backend is kept; one that is loading makes the manager busy.
Admitted(q) ==
  CASE proc[q].life = "running" -> {proc[q]}
    [] proc[q].life = "loading" -> {}
    [] OTHER -> IF proc[q].gen < MaxGenerations
                  THEN {Entry(q, proc[q].gen + 1, "loading")} ELSE {}

\* The request may be refused, fail on its way, or be served and not answered.
Admit(p) ==
  LET c == proc[p] IN
  /\ c.at = "admit"
  /\ \/ Exit(p)
     \/ \E q \in Authorized(p, c.found) : \E entry \in Admitted(q) :
          \/ /\ proc' = [proc EXCEPT ![q] = entry,
                                     ![p] = [c EXCEPT !.at = "wait", !.want = entry.gen, !.by = entry.inst]]
             /\ UNCHANGED held
          \/ /\ proc' = [proc EXCEPT ![q] = entry, ![p] = Off]
             /\ held' = [held EXCEPT ![p] = {}]
  /\ UNCHANGED <<disk, servers, started>>

Poll(p) ==
  LET c == proc[p] IN
  /\ c.at = "wait"
  /\ \/ Exit(p)
     \/ \E q \in Authorized(p, c.found) :
          CASE proc[q].life = "running" /\ proc[q].gen = c.want -> Become(p, [c EXCEPT !.at = "loaded"])
            [] proc[q].life = "loading" /\ proc[q].gen = c.want -> Become(p, c)
            [] OTHER -> Exit(p)
  /\ UNCHANGED <<disk, servers, started>>

Loaded(p) ==
  /\ proc[p].at = "loaded"
  /\ Exit(p)
  /\ UNCHANGED <<disk, servers, started>>

\* What else happens to the entry in its server: the load ends, the backend is
\* unloaded or exits; another client loads the profile, which is of interest while a
\* client of the model is there.
Ends(life) ==
  CASE life = "loading" -> {"running", "failed", "none"}
    [] life = "running" -> {"failed", "none"}
    [] life = "failed" -> {"none"}
    [] OTHER -> {}

Manage(q) ==
  /\ Answers(q)
  /\ \/ /\ \E p \in Procs : proc[p].at \in {"admit", "wait"}
        /\ \E entry \in Admitted(q) : Become(q, entry)
     \/ \E life \in Ends(proc[q].life) : Become(q, Entry(q, proc[q].gen, life))
  /\ UNCHANGED <<disk, servers, started>>

-----------------------------------------------------------------------------
\* What a process does by itself once it was started.
Proceed(p) ==
  \/ TakeLock(p)
  \/ ApproveUpdate(p) \/ NoServerProcess(p) \/ RecheckReceipt(p)
  \/ Replace(p) \/ Erase(p)
  \/ Observe(p) \/ Conclude(p) \/ Verify(p)
  \/ StartLock(p) \/ Bind(p) \/ Claim(p) \/ Publish(p) \/ StopEnds(p)
  \/ Admit(p) \/ Poll(p) \/ Loaded(p)

Surroundings(p) ==
  \/ \E c \in Does[p] : Start(p, c)
  \/ Watch(p) \/ Detach(p) \/ Crash(p) \/ Manage(p)

Next ==
  \E p \in Procs : Proceed(p) \/ StartTimesOut(p) \/ Stop(p) \/ Surroundings(p)

\* Runnable processes run; a deadline that is waited for passes.  Nobody is
\* assumed to end a session or to see a server healthy.
Deadline(p) == StartTimesOut(p) \/ (proc[p].at = "ready" /\ Stop(p))
Fairness == \A p \in Procs : WF_vars(Proceed(p)) /\ WF_vars(Deadline(p))

Spec == Init /\ [][Next]_vars /\ Fairness

-----------------------------------------------------------------------------
(* Properties.                                                                *)
Process ==
  [kind : Kinds \cup {"none"},
   at : {"off", "locking", "approve", "servers", "recheck", "replace", "erase",
         "start", "look", "bind", "claim", "publish", "ready", "failed", "serving",
         "stopping", "attached", "find", "admit", "wait", "loaded"},
   root : Roots \cup {"none"}, path : Paths \cup {"none"},
   version : 0..MaxVersion, n : 0..6, candidate : 0..MaxVersion,
   config : Ports \cup {None}, port : Ports \cup {None}, control : ControlPorts \cup {None},
   inst : 0..MaxInstances, step : {"idle", "probed", "verify"},
   seen : SUBSET (Instances \X {"healthy", "mismatch", "refused", "unresponsive"}
                   \X ControlPorts),
   found : 0..MaxInstances, address : ControlPorts \cup {None}, gen : 0..MaxGenerations,
   life : {"none", "loading", "running", "failed"},
   want : 0..MaxGenerations, by : 0..MaxInstances]

TypeOK ==
  /\ proc \in [Procs -> Process]
  /\ held \in [Procs -> SUBSET (Locks \X {"shared", "exclusive"})]
  /\ file \in [Paths -> 0..MaxVersion]
  /\ receipt \in 0..MaxVersion
  /\ record \in [Instances ->
       [listed : BOOLEAN, root : Roots \cup {"none"}, port : Ports \cup {None},
        control : ControlPorts \cup {None}]]
  /\ started \subseteq Roots
  /\ next \in 1..MaxInstances + 1

\* A process that reports that it serves has seen its own server answer, and no
\* other server answers for its state directory, although its record may have been
\* removed, probes may have missed a live server, and ports may differ
\* (RunningServer::wait_until_ready accepts whatever server it discovers).
ServesItself ==
  \A p \in Procs : proc[p].at = "serving" =>
    /\ proc[p].found = proc[p].inst
    /\ \A q \in Procs \ {p} : Answers(q) => proc[q].root # proc[p].root

\* While the installer replaces the executable nothing else runs from it or works in
\* its storage: no session of any state directory, none that came by another hard
\* link, no prune of that storage (ReplacementGuard::acquire against session_guard).
\* A prune takes no lock of its executable (main.rs:116): that of another state
\* directory may run.  Commands that hold no lock at all (doctor, update --check, an
\* attempt to start at login) are not processes of this module and may run too.
Shares(p, q) ==
  \/ proc[p].root = proc[q].root
  \/ /\ proc[q].kind # "prune"
     /\ proc[p].path = proc[q].path \/ proc[p].version = proc[q].version
ReplacedAlone ==
  \A p, q \in Procs :
    (p # q /\ proc[p].at = "replace" /\ Running(q) /\ Shares(p, q))
      => proc[q].at \in {"locking", "approve"}

\* However many updates were discovered and approved at once, the installed
\* executable never goes back to an older release (Candidate::install reads the
\* receipt again under its locks).
NeverDowngrades == [][file'[Owned] >= file[Owned]]_vars

\* A load that the command line reports as done has run on the server that admitted
\* it, in the generation it was admitted with, although servers come and go, reuse
\* ports and count their generations from one (ControlClient::wait_for_admitted_load).
LoadedIsTrue ==
  [][\A p \in Procs : (proc[p].at # "loaded" /\ proc'[p].at = "loaded") =>
       \E q \in Procs : /\ proc[q].inst = proc[p].by
                        /\ proc[q].gen = proc[p].want
                        /\ proc[q].life = "running"]_vars

\* A server or TUI that is starting ends up serving, attached or gone; none waits for
\* ever for the start lock or for its own discovery (ServerStartupGuard::acquire,
\* wait_until_ready).
StartupEnds ==
  \A p \in Procs :
    (proc[p].at \in {"start", "look", "bind", "claim", "publish", "ready", "failed"})
      ~> (proc[p].at \in {"serving", "attached", "off"})
=============================================================================
