--------------------------------- MODULE Link ---------------------------------
(* Scala Link: a gateway node observes the inventories of its peers, resolves *)
(* a model alias to one owner and forwards the operation there once.          *)
(*                                                                            *)
(* One operation uses one connection.  Wayfinder, which carries it, delivers  *)
(* bytes in order and without duplicates, and may break the connection at any *)
(* point; it then closes both local sockets.  Time is not modelled: a         *)
(* deadline may pass in any state the code waits in.                          *)
EXTENDS Naturals, FiniteSets, Sequences

CONSTANTS
  Nodes,
  Gateways,   \* the nodes whose clients and sweeps are modelled
  Profiles,
  Calls,      \* operations asked by clients, each used once (a bound)
  Slots,      \* Link operations a node admits at a time, 16 in the code
  AnyNode     \* stands for the node of an unqualified alias

ASSUME LinkAssumption ==
  /\ IsFiniteSet(Nodes)
  /\ Gateways \subseteq Nodes
  /\ Slots \in Nat \ {0}
  /\ AnyNode \notin Nodes

VARIABLES
  hosts,    \* hosts[n][p]: what node n's own stores say of profile p
  members,  \* the Wayfinder nodes of the chain
  ident,    \* ident[n]: n knows its own node ID
  peers,    \* peers[n][m]: what n observed of m
  probe,    \* probe[n][m]: the inventory request of the running sweep
  call,     \* call[c]: both ends of an operation
  ran,      \* ran[c]: the nodes that executed the operation, in order
  answer    \* answer[c]: what the client was told; "unknown" is an error that
            \* leaves the outcome open, or no answer at all

observed == <<ident, peers, probe>>
outcome == <<ran, answer>>
vars == <<hosts, members, ident, peers, probe, call, ran, answer>>

\* A profile may exist while the model it is bound to is not installed.
Presence == {"none", "missing", "installed"}
Inventory == [Profiles -> Presence]
NoInventory == [p \in Profiles |-> "none"]

\* A peer is unavailable after a failed observation ("failed") and 15 seconds
\* after the last good one ("stale").
NoPeer == [status |-> "unknown", inventory |-> NoInventory]
Peer == [status : {"unknown", "reachable", "stale", "failed"}, inventory : Inventory]

Idle == [step |-> "idle", inventory |-> NoInventory]
Probe == [step : {"idle", "asking", "answered"}, inventory : Inventory]

Kinds == {"inference", "control"}

\* at: the caller's end; own: the owner's end; sent: the envelope is on the wire;
\* wrote: how much of the response is on the wire; ok: its status; up: the
\* connection carries what is on it.
NoCall(n, p) ==
  [at |-> "idle", own |-> "none", kind |-> "inference", src |-> n, dst |-> n,
   profile |-> p, node |-> AnyNode, sent |-> FALSE, wrote |-> "nothing",
   ok |-> FALSE, up |-> TRUE, inventory |-> NoInventory]

Waiting == {"open", "write", "head", "body"}
Serving == {"ready", "execute", "reply"}

Known(n) == {m \in Nodes : peers[n][m].status # "unknown"}

(***************************************************************************)
(* Alias resolution.                                                       *)
(***************************************************************************)
\* Every known owner of the profile is a candidate, available or not.
Owners(n, p, node) ==
  {m \in Known(n) : node \in {AnyNode, m} /\ peers[n][m].inventory[p] # "none"}

Local(n, p, node) ==
  hosts[n][p] # "none" /\ (node = AnyNode \/ (ident[n] /\ node = n))

Candidates(n, p, node) ==
  Owners(n, p, node) \cup (IF Local(n, p, node) THEN {n} ELSE {})

Available(n, m, p) ==
  peers[n][m].status = "reachable" /\ peers[n][m].inventory[p] = "installed"

\* The node that executes, in a set; empty when the alias is refused as unknown,
\* ambiguous or unavailable.
Resolve(n, p, node) ==
  LET found == Candidates(n, p, node) IN
    IF Cardinality(found) # 1 THEN {}
    ELSE {m \in found : m = n \/ Available(n, m, p)}

(***************************************************************************)
(* Observation of the peers.                                               *)
(***************************************************************************)
Quiet(n) == \A m \in Nodes : probe[n][m].step = "idle"

\* Slots are shared by the operations a node sends and the ones it serves.
Used(n) ==
  Cardinality({c \in Calls : call[c].src = n /\ call[c].at \in Waiting})
  + Cardinality({c \in Calls : call[c].dst = n /\ call[c].own \in Serving})
  + Cardinality({m \in Nodes : probe[n][m].step # "idle"})

\* Mutant: a failure forgets what the peer reported.
MUT_Missed(peer) == NoPeer

\* A failure marks a known peer and keeps what it reported.
Missed(peer) == IF peer.status = "unknown" THEN peer ELSE [peer EXCEPT !.status = "failed"]

\* Peers that left the chain are forgotten.
Retain(n) == [m \in Nodes |-> IF m \in members THEN peers[n][m] ELSE NoPeer]

\* The sweep lists the members, registers the service and asks every reachable
\* peer at once; a peer that Wayfinder cannot reach, or for which no slot is
\* left, is missed.
SweepStarts(n, asked) ==
  /\ Quiet(n)
  /\ asked \subseteq members \ {n}
  /\ Cardinality(asked) + Used(n) <= Slots
  /\ ident' = [ident EXCEPT ![n] = TRUE]
  /\ peers' = [peers EXCEPT ![n] =
                 [m \in Nodes |-> IF m \in asked THEN Retain(n)[m] ELSE Missed(Retain(n)[m])]]
  /\ probe' = [probe EXCEPT ![n] =
                 [m \in Nodes |-> IF m \in asked THEN [Idle EXCEPT !.step = "asking"] ELSE Idle]]
  /\ UNCHANGED <<hosts, members, call, ran, answer>>

\* Wayfinder is gone before it answers, or the membership conflicts or the
\* registration fails after it listed the members.
SweepFails(n, answered) ==
  /\ Quiet(n)
  /\ ident' = [ident EXCEPT ![n] = @ \/ answered]
  /\ peers' = [peers EXCEPT ![n] =
                 [m \in Nodes |-> Missed(IF answered THEN Retain(n)[m] ELSE peers[n][m])]]
  /\ UNCHANGED <<hosts, members, probe, call, ran, answer>>

\* The owner reads its stores; up to three formats are tried in turn.
ProbeAnswered(n, m) ==
  /\ probe[n][m].step = "asking" /\ m \in members
  /\ Used(m) < Slots
  /\ probe' = [probe EXCEPT ![n][m] = [step |-> "answered", inventory |-> hosts[m]]]
  /\ UNCHANGED <<hosts, members, ident, peers, call, ran, answer>>

ProbeObserved(n, m) ==
  /\ probe[n][m].step = "answered"
  /\ peers' = [peers EXCEPT ![n][m] =
                 [status |-> "reachable", inventory |-> probe[n][m].inventory]]
  /\ probe' = [probe EXCEPT ![n][m] = Idle]
  /\ UNCHANGED <<hosts, members, ident, call, ran, answer>>

ProbeMissed(n, m) ==
  /\ probe[n][m].step # "idle"
  /\ peers' = [peers EXCEPT ![n][m] = Missed(@)]
  /\ probe' = [probe EXCEPT ![n][m] = Idle]
  /\ UNCHANGED <<hosts, members, ident, call, ran, answer>>

\* The sweep's own deadline drops the requests still out, and records nothing.
SweepEnds(n) ==
  /\ ~Quiet(n)
  /\ probe' = [probe EXCEPT ![n] = [m \in Nodes |-> Idle]]
  /\ UNCHANGED <<hosts, members, ident, peers, call, ran, answer>>

Ages(n, m) ==
  /\ peers[n][m].status = "reachable"
  /\ peers' = [peers EXCEPT ![n][m].status = "stale"]
  /\ UNCHANGED <<hosts, members, ident, probe, call, ran, answer>>

(***************************************************************************)
(* The caller's end of an operation.                                       *)
(***************************************************************************)
Tell(c, what) == answer' = [answer EXCEPT ![c] = what]

\* Dropping the caller's future closes its end and frees its slot.
Leave(c, what) ==
  /\ call' = [call EXCEPT ![c].at = "done"]
  /\ Tell(c, what)
  /\ UNCHANGED <<hosts, members, ident, peers, probe, ran>>

Asked(c, n, kind, p, node, m, at) ==
  call' = [call EXCEPT ![c] = [NoCall(n, p) EXCEPT !.at = at, !.kind = kind, !.dst = m,
                                                  !.node = node]]

\* Operations of other nodes, not modelled, may hold the slots.
Send(c, n, kind, p, node, m) ==
  \/ Used(n) < Slots /\ Asked(c, n, kind, p, node, m, "open") /\ UNCHANGED answer
  \/ Asked(c, n, kind, p, node, m, "done") /\ Tell(c, "refused")

\* A request to the public API: the alias is resolved once.
Infer(c, n, p, node) ==
  /\ call[c].at = "idle"
  /\ \/ /\ Resolve(n, p, node) = {}
        /\ Asked(c, n, "inference", p, node, n, "done") /\ Tell(c, "refused")
     \/ /\ Resolve(n, p, node) = {n}
        /\ Asked(c, n, "inference", p, node, n, "local") /\ UNCHANGED answer
     \/ \E m \in Resolve(n, p, node) \ {n} : Send(c, n, "inference", p, node, m)
  /\ UNCHANGED <<hosts, members, ident, peers, probe, ran>>

\* A load or an unload names its owner; only a reachable peer is asked.
Control(c, n, p, m) ==
  /\ call[c].at = "idle" /\ m # n
  /\ IF peers[n][m].status = "reachable" THEN Send(c, n, "control", p, m, m)
     ELSE Asked(c, n, "control", p, m, m, "done") /\ Tell(c, "refused")
  /\ UNCHANGED <<hosts, members, ident, peers, probe, ran>>

\* The entry node's own runtime executes, or refuses a profile it cannot run.
LocalRuns(c) ==
  /\ call[c].at = "local"
  /\ call' = [call EXCEPT ![c].at = "done"]
  /\ \/ UNCHANGED ran /\ Tell(c, "rejected")
     \/ /\ hosts[call[c].src][call[c].profile] # "none"
        /\ ran' = [ran EXCEPT ![c] = Append(@, call[c].src)]
        /\ Tell(c, "completed") \/ Tell(c, "rejected")
  /\ UNCHANGED <<hosts, members, ident, peers, probe>>

Opened(c) ==
  /\ call[c].at = "open" /\ call[c].own = "ready" /\ call[c].up
  /\ call' = [call EXCEPT ![c].at = "write"]
  /\ UNCHANGED <<hosts, members, ident, peers, probe, ran, answer>>

\* Mutant: only a broken connection ends the wait.
MUT_OpenFails(c) == call[c].at = "open" /\ ~call[c].up /\ Leave(c, "refused")

\* Nothing has been dispatched: the peer is unavailable, or its answer is late.
OpenFails(c) == call[c].at = "open" /\ Leave(c, "refused")

Write(c) ==
  /\ call[c].at = "write" /\ call[c].up
  /\ call' = [call EXCEPT ![c].at = "head", ![c].sent = TRUE]
  /\ UNCHANGED <<hosts, members, ident, peers, probe, ran, answer>>

WriteFails(c) == call[c].at = "write" /\ Leave(c, "unknown")

ReadHead(c) ==
  /\ call[c].at = "head" /\ call[c].wrote # "nothing" /\ call[c].up
  /\ call' = [call EXCEPT ![c].at = "body"]
  /\ UNCHANGED <<hosts, members, ident, peers, probe, ran, answer>>

\* Mutant: the operation falls back to the gateway's own profile.
MUT_HeadFails(c) ==
  /\ call[c].at = "head"
  /\ call' = [call EXCEPT ![c].at = "local", ![c].dst = call[c].src, ![c].own = "none"]
  /\ UNCHANGED <<hosts, members, ident, peers, probe, ran, answer>>

\* No operation is retried: the peer may already have admitted it.
HeadFails(c) == call[c].at = "head" /\ Leave(c, "unknown")

\* Only the empty chunk ends a response.  A control's answer replaces what was
\* observed of the owner and renews it.
ReadEnd(c) ==
  /\ call[c].at = "body" /\ call[c].wrote = "end" /\ call[c].up
  /\ call' = [call EXCEPT ![c].at = "done"]
  /\ LET n == call[c].src
         m == call[c].dst IN
       /\ IF call[c].kind = "control" /\ call[c].ok /\ m \in Known(n)
          THEN peers' = [peers EXCEPT ![n][m] =
                 [status |-> IF @.status = "failed" THEN "failed" ELSE "reachable",
                  inventory |-> call[c].inventory]]
          ELSE UNCHANGED peers
       /\ Tell(c, IF call[c].ok THEN "completed" ELSE "rejected")
  /\ UNCHANGED <<hosts, members, ident, probe, ran>>

\* Mutant: a broken body is taken for the end of the answer.
MUT_BodyFails(c) == call[c].at = "body" /\ Leave(c, IF call[c].ok THEN "completed" ELSE "rejected")

\* The connection broke, the owner stopped early or a chunk is late; also an
\* owner's answer that fails the gateway's own check.
BodyFails(c) == call[c].at = "body" /\ Leave(c, "unknown")

\* The client closes its request, or the deadline of a control passes.
ClientLeaves(c) == call[c].at \in Waiting \cup {"local"} /\ Leave(c, "unknown")

CallerMoves(c) ==
  \/ LocalRuns(c) \/ Opened(c) \/ OpenFails(c) \/ Write(c) \/ WriteFails(c)
  \/ ReadHead(c) \/ HeadFails(c) \/ ReadEnd(c) \/ BodyFails(c)

(***************************************************************************)
(* The owner's end of an operation.                                        *)
(***************************************************************************)
Owner(c, new) ==
  /\ call' = [call EXCEPT ![c] = new]
  /\ UNCHANGED <<hosts, members, ident, peers, probe, answer>>

\* The registered service answers the preface.  A connection beyond the slots is
\* dropped at once, which the caller sees as a failed open.
Accept(c) ==
  /\ call[c].at = "open" /\ call[c].own = "none" /\ call[c].up
  /\ call[c].dst \in members /\ Used(call[c].dst) < Slots
  /\ Owner(c, [call[c] EXCEPT !.own = "ready"]) /\ UNCHANGED ran

\* The owner's own runtime decides, whatever the caller had observed.  A control
\* is admitted for good, also when the inventory that answers it cannot be read.
Dispatch(c, runs) ==
  /\ call[c].own = "ready" /\ call[c].sent /\ call[c].up
  /\ runs /\ call[c].kind = "inference" => hosts[call[c].dst][call[c].profile] # "none"
  /\ ran' = [ran EXCEPT ![c] = IF runs THEN Append(@, call[c].dst) ELSE @]
  /\ \/ /\ call[c].kind = "inference"
        /\ Owner(c, [call[c] EXCEPT !.own = IF runs THEN "execute" ELSE "reply", !.ok = runs])
     \/ /\ call[c].kind = "control"
        /\ \E ok \in {FALSE, runs} :
             Owner(c, [call[c] EXCEPT !.own = "reply", !.ok = ok,
                         !.inventory = IF ok THEN hosts[call[c].dst] ELSE NoInventory])

\* A streamed response starts while the model generates.
WriteHead(c) ==
  /\ call[c].own \in {"execute", "reply"} /\ call[c].wrote = "nothing"
  /\ Owner(c, [call[c] EXCEPT !.wrote = "head"]) /\ UNCHANGED ran

\* A failed generation has an error status when the response has not begun.
Generated(c, ok) ==
  /\ call[c].own = "execute"
  /\ Owner(c, [call[c] EXCEPT !.own = "reply", !.ok = IF call[c].wrote = "nothing" THEN ok ELSE @])
  /\ UNCHANGED ran

WriteEnd(c) ==
  /\ call[c].own = "reply" /\ call[c].wrote = "head"
  /\ Owner(c, [call[c] EXCEPT !.wrote = "end", !.own = "closed"]) /\ UNCHANGED ran

\* The response's own body fails or an hour has passed.
GivesUp(c) ==
  /\ call[c].own \in Serving
  /\ Owner(c, [call[c] EXCEPT !.own = "closed"]) /\ UNCHANGED ran

\* The caller's end is closed: the operation and its lease are dropped.
HangsUp(c) ==
  /\ call[c].own \in Serving /\ (call[c].at = "done" \/ ~call[c].up)
  /\ Owner(c, [call[c] EXCEPT !.own = "closed"]) /\ UNCHANGED ran

(***************************************************************************)
(* The surroundings.                                                       *)
(***************************************************************************)
\* Wayfinder breaks a connection; what was on it is lost.
Cut(c) ==
  /\ call[c].at \in Waiting \/ call[c].own \in Serving
  /\ call[c].up
  /\ Owner(c, [call[c] EXCEPT !.up = FALSE]) /\ UNCHANGED ran

\* A profile is created, deleted, or its model comes or goes.
Edit(n, p, presence) ==
  /\ presence # hosts[n][p]
  /\ hosts' = [hosts EXCEPT ![n][p] = presence]
  /\ UNCHANGED <<members, ident, peers, probe, call, ran, answer>>

\* The chain, as the gateways see it.
Join(n) ==
  /\ n \notin members
  /\ members' = members \cup {n}
  /\ UNCHANGED <<hosts, ident, peers, probe, call, ran, answer>>

Depart(n) ==
  /\ n \in members
  /\ members' = members \ {n}
  /\ UNCHANGED <<hosts, ident, peers, probe, call, ran, answer>>

\* A server stops or dies, and starts again without its observations.
Restart(n) ==
  /\ ident' = [ident EXCEPT ![n] = FALSE]
  /\ peers' = [peers EXCEPT ![n] = [m \in Nodes |-> NoPeer]]
  /\ probe' = [probe EXCEPT ![n] = [m \in Nodes |-> Idle]]
  /\ call' = [c \in Calls |->
       [call[c] EXCEPT
          !.at = IF call[c].src = n /\ @ \in Waiting \cup {"local"} THEN "done" ELSE @,
          !.own = IF call[c].dst = n /\ @ \in Serving THEN "closed" ELSE @]]
  /\ answer' = [c \in Calls |->
       IF call[c].src = n /\ call[c].at \in Waiting \cup {"local"} THEN "unknown" ELSE answer[c]]
  /\ UNCHANGED <<hosts, members, ran>>

(***************************************************************************)
(* Specification.                                                          *)
(***************************************************************************)
Init ==
  /\ hosts \in [Nodes -> Inventory]
  /\ members = Nodes
  /\ ident = [n \in Nodes |-> FALSE]
  /\ peers = [n \in Nodes |-> [m \in Nodes |-> NoPeer]]
  /\ probe = [n \in Nodes |-> [m \in Nodes |-> Idle]]
  /\ call \in [Calls -> {NoCall(n, p) : n \in Gateways, p \in Profiles}]
  /\ ran = [c \in Calls |-> <<>>]
  /\ answer = [c \in Calls |-> "none"]

Observe ==
  \E n \in Gateways :
    \/ \E asked \in SUBSET Nodes : SweepStarts(n, asked)
    \/ \E answered \in BOOLEAN : SweepFails(n, answered)
    \/ SweepEnds(n)
    \/ \E m \in Nodes : ProbeAnswered(n, m) \/ ProbeObserved(n, m) \/ ProbeMissed(n, m) \/ Ages(n, m)

Ask ==
  \E c \in Calls, n \in Gateways, p \in Profiles :
    \/ \E node \in Nodes \cup {AnyNode} : Infer(c, n, p, node)
    \/ \E m \in Nodes : Control(c, n, p, m)

Serve ==
  \E c \in Calls :
    \/ Accept(c) \/ WriteHead(c) \/ WriteEnd(c) \/ GivesUp(c) \/ HangsUp(c)
    \/ \E ok \in BOOLEAN : Dispatch(c, ok) \/ Generated(c, ok)

Surroundings ==
  \/ \E c \in Calls : Cut(c) \/ ClientLeaves(c)
  \/ \E n \in Nodes \ Gateways : Join(n) \/ Depart(n)
  \/ \E n \in Nodes : Restart(n)
  \/ \E n \in Nodes, p \in Profiles, presence \in Presence : Edit(n, p, presence)

Next == Observe \/ Ask \/ (\E c \in Calls : CallerMoves(c)) \/ Serve \/ Surroundings

\* Every wait of the caller has a deadline; a closed socket wakes the owner.
Spec ==
  /\ Init /\ [][Next]_vars
  /\ \A c \in Calls : WF_vars(CallerMoves(c)) /\ WF_vars(HangsUp(c))

(***************************************************************************)
(* Properties.                                                             *)
(***************************************************************************)
Ends == {"idle", "done", "local"} \cup Waiting

\* An operation is executed at most once, across lost responses, deadlines and
\* restarts, and only by the node its alias or control request names or, for an
\* unqualified alias, by the one node it was resolved to: nothing is retried or
\* failed over (Link::request, route).
RunsOnceWhereAddressed ==
  \A c \in Calls :
    /\ Len(ran[c]) <= 1
    /\ \A i \in DOMAIN ran[c] :
         ran[c][i] = call[c].dst /\ call[c].node \in {AnyNode, ran[c][i]}

\* What the client is told is so: an operation reported as not dispatched never
\* runs, then or later, and one reported complete ran and its owner wrote the
\* whole response (the errors of Link::request and the empty chunk).
AnswersAreTrue ==
  \A c \in Calls :
    /\ answer[c] = "refused" => ran[c] = <<>>
    /\ answer[c] = "completed" =>
         /\ ran[c] # <<>>
         /\ call[c].dst # call[c].src => call[c].wrote = "end"

\* Peer m left the chain, or reported that it has no such profile, or the
\* gateway lost its memory.
Released(n, m, p) ==
  \/ m \notin members
  \/ probe[n][m].step = "answered" /\ probe[n][m].inventory[p] = "none"
  \/ \E c \in Calls : /\ call[c].at = "body" /\ call[c].ok /\ call[c].kind = "control"
                       /\ call[c].src = n /\ call[c].dst = m
                       /\ call[c].inventory[p] = "none"
  \/ ~ident'[n]

\* A peer once seen to host a profile reserves its name: while the peer is only
\* unreachable, silent or stale, an unqualified alias leads to that peer or is
\* refused, and never silently to another host.
NoSilentRetarget ==
  [][\A n \in Gateways, p \in Profiles : \A m \in Owners(n, p, AnyNode) :
       Resolve(n, p, AnyNode)' \subseteq {m} \/ Released(n, m, p)]_vars

\* Every operation ends for its caller, and once the caller's end is closed the
\* owner drops the work with its lease and its slot.
StreamsEnd ==
  \A c \in Calls :
    /\ call[c].at \in Waiting \cup {"local"} ~> call[c].at = "done"
    /\ call[c].at = "done" ~> call[c].own \notin Serving

=============================================================================
