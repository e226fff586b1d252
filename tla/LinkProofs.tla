------------------------------ MODULE LinkProofs ------------------------------
(***************************************************************************)
(* Proofs about Link: an operation runs once and where it was addressed,   *)
(* what its client is told is so, and a peer that was seen to host a       *)
(* profile keeps its name.                                                 *)
(***************************************************************************)
EXTENDS Link, FiniteSetTheorems, TLAPS

Operation ==
  [at : {"idle", "local", "done"} \union Waiting, own : {"none", "closed"} \union Serving,
   kind : Kinds, src : Nodes, dst : Nodes, profile : Profiles,
   node : Nodes \union {AnyNode}, sent : BOOLEAN, wrote : {"nothing", "head", "end"},
   ok : BOOLEAN, up : BOOLEAN, inventory : Inventory]

Answers == {"none", "refused", "unknown", "rejected", "completed"}

ObservedInv ==
  /\ hosts \in [Nodes -> Inventory]
  /\ ident \in [Nodes -> BOOLEAN]
  /\ peers \in [Nodes -> [Nodes -> Peer]]
  /\ probe \in [Nodes -> [Nodes -> Probe]]

\* One operation k with the nodes r that ran it and the client's answer a.  The
\* envelope is on the wire only after the caller passed the opening, the owner
\* works only on one that is, and it runs the operation at most once: in leaving
\* "ready".  A refusal is given only where nothing was sent.
Sound(k, r, a) ==
  /\ k \in Operation
  /\ r = <<>> \/ r = <<k.dst>>
  /\ a \in Answers
  /\ a # "none" => k.at = "done"
  /\ k.at = "local" => k.dst = k.src
  /\ k.at \in {"idle", "local"} => k.own = "none"
  /\ r # <<>> => k.sent \/ (k.dst = k.src /\ k.at = "done")
  /\ k.own = "ready" => r = <<>>
  /\ k.own = "execute" => r # <<>>
  /\ k.own \in {"execute", "reply"} => k.sent
  /\ k.sent => k.at \in {"head", "body", "done"}
  /\ k.ok => r # <<>>
  /\ r # <<>> \/ k.at \in Waiting \union {"local"} \/ k.own \in Serving =>
       k.node \in {AnyNode, k.dst}
  /\ a = "refused" => ~k.sent /\ r = <<>>
  /\ a = "completed" => r # <<>> /\ (k.dst # k.src => k.wrote = "end")

CallsInv ==
  /\ call \in [Calls -> Operation]
  /\ ran = [c \in Calls |-> ran[c]]
  /\ answer = [c \in Calls |-> answer[c]]
  /\ \A c \in Calls : Sound(call[c], ran[c], answer[c])

IInv == ObservedInv /\ CallsInv

-----------------------------------------------------------------------------
\* A step that changes one operation only, into a sound one, keeps all sound.
LEMMA Moves ==
  ASSUME CallsInv, NEW c \in Calls, NEW k, NEW r, NEW a, Sound(k, r, a),
         call' = [call EXCEPT ![c] = k], ran' = [ran EXCEPT ![c] = r],
         answer' = [answer EXCEPT ![c] = a]
  PROVE  CallsInv'
<1>1. k \in Operation
  BY DEF Sound
<1>2. \A d \in Calls : /\ d # c => /\ call'[d] = call[d] /\ ran'[d] = ran[d]
                                   /\ answer'[d] = answer[d]
                       /\ d = c => call'[d] = k /\ ran'[d] = r /\ answer'[d] = a
  BY DEF CallsInv
<1>3. \A d \in Calls : Sound(call'[d], ran'[d], answer'[d])
  BY <1>2 DEF CallsInv
<1>4. /\ call' \in [Calls -> Operation]
      /\ ran' = [d \in Calls |-> ran'[d]]
      /\ answer' = [d \in Calls |-> answer'[d]]
  BY <1>1 DEF CallsInv
<1> QED  BY <1>3, <1>4 DEF CallsInv

\* A step of one end of the connection.
LEMMA CallMoves ==
  ASSUME CallsInv, NEW c \in Calls, NEW k, Sound(k, ran[c], answer[c]),
         call' = [call EXCEPT ![c] = k], ran' = ran, answer' = answer
  PROVE  CallsInv'
<1>1. call' \in [Calls -> Operation]
  BY DEF CallsInv, Sound
<1>2. \A d \in Calls : call'[d] = IF d = c THEN k ELSE call[d]
  BY DEF CallsInv
<1> QED  BY <1>1, <1>2 DEF CallsInv

LEMMA OperationSound ==
  ASSUME CallsInv, NEW c \in Calls
  PROVE  Sound(call[c], ran[c], answer[c]) /\ call[c] \in Operation
BY DEF CallsInv

LEMMA ObservedStays ==
  ASSUME ObservedInv, UNCHANGED <<hosts, ident, peers, probe>>
  PROVE  ObservedInv'
BY DEF ObservedInv

LEMMA CallsStay ==
  ASSUME CallsInv, UNCHANGED <<call, ran, answer>>
  PROVE  CallsInv'
BY DEF CallsInv

-----------------------------------------------------------------------------
(* The caller's end.                                                       *)

\* A caller that leaves says "refused" only where nothing has been sent.
LEMMA LeaveSound ==
  ASSUME IInv, NEW c \in Calls, NEW what, Leave(c, what),
         call[c].at \in Waiting \union {"local"},
         \/ what = "unknown"
         \/ what = "refused" /\ call[c].at = "open"
  PROVE  IInv'
<1> DEFINE k == [call[c] EXCEPT !.at = "done"]
<1>1. /\ call' = [call EXCEPT ![c] = k]
      /\ ran' = [ran EXCEPT ![c] = ran[c]]
      /\ answer' = [answer EXCEPT ![c] = what]
  BY DEF Leave, Tell, IInv, CallsInv
<1>2. Sound(call[c], ran[c], answer[c])
  BY OperationSound DEF IInv
<1>3. what = "refused" => ran[c] = <<>> /\ ~call[c].sent
  BY <1>2 DEF Sound, Waiting, Serving, Operation
<1>4. Sound(k, ran[c], what)
  BY <1>2, <1>3 DEF Sound, Operation, Waiting, Serving, Answers
<1> HIDE DEF k
<1> QED  BY <1>1, <1>4, Moves, ObservedStays DEF Leave, IInv

\* A new operation has an owner its alias or its control names.
LEMMA AskedSound ==
  ASSUME IInv, NEW c \in Calls, NEW n \in Nodes, NEW kind \in Kinds, NEW p \in Profiles,
         NEW node \in Nodes \union {AnyNode}, NEW m \in Nodes, NEW at,
         call[c].at = "idle", Asked(c, n, kind, p, node, m, at),
         UNCHANGED <<hosts, ident, peers, probe, ran>>,
         \/ at = "done" /\ Tell(c, "refused")
         \/ /\ UNCHANGED answer /\ node \in {AnyNode, m}
            /\ at = "open" \/ (at = "local" /\ m = n)
  PROVE  IInv'
<1> DEFINE k == [NoCall(n, p) EXCEPT !.at = at, !.kind = kind, !.dst = m, !.node = node]
<1>1. call' = [call EXCEPT ![c] = k]
  BY DEF Asked
<1>2. ran[c] = <<>> /\ answer[c] = "none"
  BY OperationSound DEF IInv, Sound, Answers
<1>3. /\ k.at = at /\ k.own = "none" /\ k.src = n /\ k.dst = m /\ k.node = node
      /\ k.sent = FALSE /\ k.ok = FALSE
  BY DEF NoCall
<1>4. at \in {"done", "open", "local"}
  OBVIOUS
<1>5. k \in Operation
  <2>1. NoInventory \in Inventory
    BY DEF NoInventory, Inventory, Presence
  <2> QED  BY <1>4, <2>1 DEF NoCall, Operation, Waiting, Serving
<1> HIDE DEF k
<1>6. CASE at = "done" /\ Tell(c, "refused")
  <2>1. Sound(k, <<>>, "refused")
    BY <1>3, <1>5, <1>6 DEF Sound, Waiting, Serving, Answers
  <2>2. ran' = [ran EXCEPT ![c] = <<>>] /\ answer' = [answer EXCEPT ![c] = "refused"]
    BY <1>2, <1>6 DEF Tell, IInv, CallsInv
  <2> QED  BY <1>1, <2>1, <2>2, Moves, ObservedStays DEF IInv
<1>7. CASE /\ UNCHANGED answer /\ node \in {AnyNode, m}
           /\ at = "open" \/ (at = "local" /\ m = n)
  <2>1. Sound(k, <<>>, "none")
    BY <1>3, <1>5, <1>7 DEF Sound, Waiting, Serving, Answers
  <2> QED  BY <1>1, <1>2, <1>7, <2>1, CallMoves, ObservedStays DEF IInv
<1> QED  BY <1>6, <1>7

\* The node an alias is resolved to is one the alias may mean.
LEMMA Resolved ==
  ASSUME NEW n \in Nodes, NEW p, NEW node \in Nodes \union {AnyNode}, NEW m \in Resolve(n, p, node)
  PROVE  m \in Nodes /\ node \in {AnyNode, m}
BY DEF Resolve, Candidates, Owners, Local, Known

LEMMA AskSound == ASSUME IInv, Ask PROVE IInv'
<1>1. PICK c \in Calls, n \in Gateways, p \in Profiles :
        \/ \E node \in Nodes \union {AnyNode} : Infer(c, n, p, node)
        \/ \E m \in Nodes : Control(c, n, p, m)
  BY DEF Ask
<1>2. n \in Nodes /\ {"inference", "control"} = Kinds
  BY LinkAssumption DEF Kinds
<1>3. ASSUME NEW node \in Nodes \union {AnyNode}, Infer(c, n, p, node)
      PROVE  IInv'
  <2>1. CASE Asked(c, n, "inference", p, node, n, "done") /\ Tell(c, "refused")
    BY <1>2, <1>3, <2>1, AskedSound DEF Infer
  <2>2. CASE /\ Resolve(n, p, node) = {n}
             /\ Asked(c, n, "inference", p, node, n, "local") /\ UNCHANGED answer
    <3>1. node \in {AnyNode, n}
      BY <1>2, <2>2, Resolved
    <3> QED  BY <1>2, <1>3, <2>2, <3>1, AskedSound DEF Infer
  <2>3. ASSUME NEW m \in Resolve(n, p, node), Send(c, n, "inference", p, node, m)
        PROVE  IInv'
    <3>1. m \in Nodes /\ node \in {AnyNode, m}
      BY <1>2, Resolved
    <3>2. CASE Asked(c, n, "inference", p, node, m, "open") /\ UNCHANGED answer
      BY <1>2, <1>3, <3>1, <3>2, AskedSound DEF Infer
    <3>3. CASE Asked(c, n, "inference", p, node, m, "done") /\ Tell(c, "refused")
      BY <1>2, <1>3, <3>1, <3>3, AskedSound DEF Infer
    <3> QED  BY <2>3, <3>2, <3>3 DEF Send
  <2> QED  BY <1>3, <2>1, <2>2, <2>3 DEF Infer
<1>4. ASSUME NEW m \in Nodes, Control(c, n, p, m)
      PROVE  IInv'
  <2>1. CASE Asked(c, n, "control", p, m, m, "done") /\ Tell(c, "refused")
    BY <1>2, <1>4, <2>1, AskedSound DEF Control
  <2>2. CASE Send(c, n, "control", p, m, m)
    <3>1. CASE Asked(c, n, "control", p, m, m, "open") /\ UNCHANGED answer
      BY <1>2, <1>4, <3>1, AskedSound DEF Control
    <3>2. CASE Asked(c, n, "control", p, m, m, "done") /\ Tell(c, "refused")
      BY <1>2, <1>4, <3>2, AskedSound DEF Control
    <3> QED  BY <2>2, <3>1, <3>2 DEF Send
  <2> QED  BY <1>4, <2>1, <2>2 DEF Control
<1> QED  BY <1>1, <1>3, <1>4

LEMMA CallerSound == ASSUME IInv, NEW c \in Calls, CallerMoves(c) PROVE IInv'
<1> USE OperationSound DEF IInv
<1>1. CASE LocalRuns(c)
  <2> DEFINE k == [call[c] EXCEPT !.at = "done"]
  <2>1. /\ call' = [call EXCEPT ![c] = k]
        /\ ObservedInv'
    BY <1>1, ObservedStays DEF LocalRuns
  <2>2. ran[c] = <<>> /\ call[c].dst = call[c].src
    BY <1>1 DEF LocalRuns, Sound, Operation
  <2>3. Sound(k, <<>>, "rejected") /\ Sound(k, <<call[c].src>>, "rejected")
        /\ Sound(k, <<call[c].src>>, "completed")
    BY <1>1, <2>2 DEF LocalRuns, Sound, Operation, Waiting, Serving, Answers
  <2> HIDE DEF k
  <2>4. CASE UNCHANGED ran /\ Tell(c, "rejected")
    <3>1. ran' = [ran EXCEPT ![c] = <<>>]
      BY <2>2, <2>4 DEF CallsInv
    <3> QED  BY <2>1, <2>3, <2>4, <3>1, Moves DEF Tell
  <2>5. CASE /\ ran' = [ran EXCEPT ![c] = Append(@, call[c].src)]
             /\ Tell(c, "completed") \/ Tell(c, "rejected")
    <3>1. ran' = [ran EXCEPT ![c] = <<call[c].src>>]
      BY <2>2, <2>5
    <3> QED  BY <2>1, <2>3, <2>5, <3>1, Moves DEF Tell
  <2> QED  BY <1>1, <2>4, <2>5 DEF LocalRuns
<1>2. CASE Opened(c)
  <2>1. Sound([call[c] EXCEPT !.at = "write"], ran[c], answer[c])
    BY <1>2 DEF Opened, Sound, Operation, Waiting, Serving, Answers
  <2> QED  BY <1>2, <2>1, CallMoves, ObservedStays DEF Opened, CallsInv
<1>3. CASE OpenFails(c) \/ WriteFails(c) \/ HeadFails(c) \/ BodyFails(c)
  BY <1>3, LeaveSound DEF OpenFails, WriteFails, HeadFails, BodyFails, Waiting
<1>4. CASE Write(c)
  <2> DEFINE k == [call[c] EXCEPT !.at = "head", !.sent = TRUE]
  <2>1. Sound(call[c], ran[c], answer[c]) /\ call[c] \in Operation
    OBVIOUS
  <2>2. /\ k.at = "head" /\ k.sent = TRUE /\ k.own = call[c].own /\ k.dst = call[c].dst
        /\ k.src = call[c].src /\ k.node = call[c].node /\ k.ok = call[c].ok
        /\ k.wrote = call[c].wrote
    BY <2>1 DEF Operation
  <2>3. k \in Operation
    BY <2>1 DEF Operation, Waiting
  <2>4. call' = [call EXCEPT ![c] = k]
    BY <1>4 DEF Write, CallsInv
  <2> HIDE DEF k
  <2>5. Sound(k, ran[c], answer[c])
    BY <1>4, <2>1, <2>2, <2>3 DEF Write, Sound, Waiting, Serving
  <2> QED  BY <1>4, <2>4, <2>5, CallMoves, ObservedStays DEF Write
<1>5. CASE ReadHead(c)
  <2>1. Sound([call[c] EXCEPT !.at = "body"], ran[c], answer[c])
    BY <1>5 DEF ReadHead, Sound, Operation, Waiting, Serving, Answers
  <2> QED  BY <1>5, <2>1, CallMoves, ObservedStays DEF ReadHead, CallsInv
<1>6. CASE ReadEnd(c)
  <2> DEFINE k == [call[c] EXCEPT !.at = "done"]
             a == IF call[c].ok THEN "completed" ELSE "rejected"
  <2>1. Sound(k, ran[c], a)
    BY <1>6 DEF ReadEnd, Sound, Operation, Waiting, Serving, Answers
  <2>2. /\ call' = [call EXCEPT ![c] = k]
        /\ ran' = [ran EXCEPT ![c] = ran[c]]
        /\ answer' = [answer EXCEPT ![c] = a]
    BY <1>6 DEF ReadEnd, Tell, CallsInv
  <2>3. call[c].src \in Nodes /\ call[c].dst \in Nodes /\ call[c].inventory \in Inventory
    BY DEF Operation
  <2>4. peers' \in [Nodes -> [Nodes -> Peer]]
    <3> DEFINE m == call[c].dst
               n == call[c].src
    <3>1. CASE peers' = peers
      BY <3>1 DEF ObservedInv
    <3>2. CASE peers' = [peers EXCEPT ![n][m] =
                 [status |-> IF @.status = "failed" THEN "failed" ELSE "reachable",
                  inventory |-> call[c].inventory]]
      BY <2>3, <3>2 DEF ObservedInv, Peer
    <3> QED  BY <1>6, <3>1, <3>2 DEF ReadEnd
  <2> HIDE DEF k, a
  <2>5. CallsInv'
    BY <2>1, <2>2, Moves
  <2> QED  BY <1>6, <2>4, <2>5 DEF ReadEnd, ObservedInv
<1> QED  BY <1>1, <1>2, <1>3, <1>4, <1>5, <1>6 DEF CallerMoves

-----------------------------------------------------------------------------
(* The owner's end.                                                        *)

LEMMA OwnerSound ==
  ASSUME IInv, NEW c \in Calls, NEW k, Owner(c, k), ran' = ran, Sound(k, ran[c], answer[c])
  PROVE  IInv'
BY CallMoves, ObservedStays DEF Owner, IInv

\* The owner runs what it has been sent, once.
LEMMA DispatchSound ==
  ASSUME IInv, NEW c \in Calls, NEW runs \in BOOLEAN, Dispatch(c, runs) PROVE IInv'
<1> DEFINE r == IF runs THEN <<call[c].dst>> ELSE <<>>
<1>1. Sound(call[c], ran[c], answer[c]) /\ call[c] \in Operation
  BY OperationSound DEF IInv
<1>2. ran[c] = <<>> /\ answer[c] # "refused"  /\ answer[c] # "completed"
  BY <1>1 DEF Dispatch, Sound
<1>3. ran' = [ran EXCEPT ![c] = r]
  BY <1>2 DEF Dispatch, IInv, CallsInv
<1>4. ASSUME NEW k, Owner(c, k), Sound(k, r, answer[c]) PROVE IInv'
  <2>1. answer' = [answer EXCEPT ![c] = answer[c]]
    BY <1>4 DEF Owner, IInv, CallsInv
  <2> HIDE DEF r
  <2> QED  BY <1>3, <1>4, <2>1, Moves, ObservedStays DEF Owner, IInv
<1>5. hosts[call[c].dst] \in Inventory /\ NoInventory \in Inventory
  BY <1>1 DEF IInv, ObservedInv, Operation, NoInventory, Inventory, Presence
<1>6. CASE call[c].kind = "inference"
  <2>1. Sound([call[c] EXCEPT !.own = IF runs THEN "execute" ELSE "reply", !.ok = runs],
              r, answer[c])
    BY <1>1, <1>2, <1>6 DEF Dispatch, Sound, Operation, Waiting, Serving
  <2> QED  BY <1>4, <1>6, <2>1 DEF Dispatch
<1>7. CASE call[c].kind = "control"
  <2>1. PICK ok \in {FALSE, runs} :
          Owner(c, [call[c] EXCEPT !.own = "reply", !.ok = ok,
                      !.inventory = IF ok THEN hosts[call[c].dst] ELSE NoInventory])
    BY <1>7 DEF Dispatch
  <2> DEFINE k == [call[c] EXCEPT !.own = "reply", !.ok = ok,
                     !.inventory = IF ok THEN hosts[call[c].dst] ELSE NoInventory]
  <2>2. /\ k.at = call[c].at /\ k.sent = call[c].sent /\ k.own = "reply" /\ k.dst = call[c].dst
        /\ k.src = call[c].src /\ k.node = call[c].node /\ k.ok = ok
        /\ k.wrote = call[c].wrote
    BY <1>1 DEF Operation
  <2>3. k \in Operation
    BY <1>1, <1>5 DEF Operation, Serving
  <2> HIDE DEF k
  <2>4. Sound(k, r, answer[c])
    BY <1>1, <1>2, <2>2, <2>3 DEF Dispatch, Sound, Operation, Waiting, Serving
  <2> QED  BY <1>4, <2>1, <2>4 DEF k
<1> QED  BY <1>6, <1>7 DEF Dispatch

LEMMA ServeSound == ASSUME IInv, Serve PROVE IInv'
<1> SUFFICES ASSUME NEW c \in Calls,
                    \/ Accept(c) \/ WriteHead(c) \/ WriteEnd(c) \/ GivesUp(c) \/ HangsUp(c)
                    \/ \E ok \in BOOLEAN : Dispatch(c, ok) \/ Generated(c, ok)
             PROVE  IInv'
  BY DEF Serve
<1>1. Sound(call[c], ran[c], answer[c]) /\ call[c] \in Operation
  BY OperationSound DEF IInv
<1>2. CASE Accept(c)
  <2>1. Sound([call[c] EXCEPT !.own = "ready"], ran[c], answer[c])
    BY <1>1, <1>2 DEF Accept, Sound, Operation, Waiting, Serving, Answers
  <2> QED  BY <1>2, <2>1, OwnerSound DEF Accept
<1>3. CASE WriteHead(c)
  <2>1. Sound([call[c] EXCEPT !.wrote = "head"], ran[c], answer[c])
    BY <1>1, <1>3 DEF WriteHead, Sound, Operation, Waiting, Serving, Answers
  <2> QED  BY <1>3, <2>1, OwnerSound DEF WriteHead
<1>4. CASE WriteEnd(c)
  <2>1. Sound([call[c] EXCEPT !.wrote = "end", !.own = "closed"], ran[c], answer[c])
    BY <1>1, <1>4 DEF WriteEnd, Sound, Operation, Waiting, Serving, Answers
  <2> QED  BY <1>4, <2>1, OwnerSound DEF WriteEnd
<1>5. CASE GivesUp(c) \/ HangsUp(c)
  <2>1. Sound([call[c] EXCEPT !.own = "closed"], ran[c], answer[c])
    BY <1>1, <1>5 DEF GivesUp, HangsUp, Sound, Operation, Waiting, Serving, Answers
  <2> QED  BY <1>5, <2>1, OwnerSound DEF GivesUp, HangsUp
<1>6. ASSUME NEW ok \in BOOLEAN, Generated(c, ok) PROVE IInv'
  <2>1. Sound([call[c] EXCEPT !.own = "reply",
                 !.ok = IF call[c].wrote = "nothing" THEN ok ELSE @], ran[c], answer[c])
    BY <1>1, <1>6, ZenonT(60) DEF Generated, Sound, Operation, Waiting, Serving, Answers
  <2> QED  BY <1>6, <2>1, OwnerSound DEF Generated
<1> QED  BY <1>2, <1>3, <1>4, <1>5, <1>6, DispatchSound

-----------------------------------------------------------------------------
(* Observations and surroundings.                                          *)

LEMMA ShapeOfPeers ==
  /\ NoPeer \in Peer /\ Idle \in Probe /\ [Idle EXCEPT !.step = "asking"] \in Probe
  /\ \A peer \in Peer : Missed(peer) \in Peer
BY DEF NoPeer, Peer, Idle, Probe, Missed, NoInventory, Inventory, Presence

LEMMA ObserveSound == ASSUME IInv, Observe PROVE IInv'
<1> SUFFICES ASSUME NEW n \in Gateways,
                    \/ \E asked \in SUBSET Nodes : SweepStarts(n, asked)
                    \/ \E answered \in BOOLEAN : SweepFails(n, answered)
                    \/ SweepEnds(n)
                    \/ \E m \in Nodes : \/ ProbeAnswered(n, m) \/ ProbeObserved(n, m)
                                        \/ ProbeMissed(n, m) \/ Ages(n, m)
             PROVE  IInv'
  BY DEF Observe
<1>1. n \in Nodes
  BY LinkAssumption
<1>2. \A m \in Nodes : Retain(n)[m] \in Peer /\ peers[n][m] \in Peer
  BY <1>1, ShapeOfPeers DEF Retain, IInv, ObservedInv
<1>3. ASSUME NEW asked, SweepStarts(n, asked) PROVE IInv'
  <2>1. [m \in Nodes |-> IF m \in asked THEN Retain(n)[m] ELSE Missed(Retain(n)[m])]
          \in [Nodes -> Peer]
    BY <1>2, ShapeOfPeers
  <2>2. [m \in Nodes |-> IF m \in asked THEN [Idle EXCEPT !.step = "asking"] ELSE Idle]
          \in [Nodes -> Probe]
    BY ShapeOfPeers
  <2>3. ObservedInv'
    BY <1>1, <1>3, <2>1, <2>2 DEF SweepStarts, IInv, ObservedInv
  <2> QED  BY <1>3, <2>3, CallsStay DEF SweepStarts, IInv
<1>4. ASSUME NEW answered \in BOOLEAN, SweepFails(n, answered) PROVE IInv'
  <2>1. [m \in Nodes |-> Missed(IF answered THEN Retain(n)[m] ELSE peers[n][m])]
          \in [Nodes -> Peer]
    BY <1>2, ShapeOfPeers
  <2>2. ObservedInv'
    BY <1>1, <1>4, <2>1 DEF SweepFails, IInv, ObservedInv
  <2> QED  BY <1>4, <2>2, CallsStay DEF SweepFails, IInv
<1>5. CASE SweepEnds(n)
  <2>1. [m \in Nodes |-> Idle] \in [Nodes -> Probe]
    BY ShapeOfPeers
  <2>2. ObservedInv'
    BY <1>1, <1>5, <2>1 DEF SweepEnds, IInv, ObservedInv
  <2> QED  BY <1>5, <2>2, CallsStay DEF SweepEnds, IInv
<1>6. ASSUME NEW m \in Nodes,
             \/ ProbeAnswered(n, m) \/ ProbeObserved(n, m) \/ ProbeMissed(n, m) \/ Ages(n, m)
      PROVE  IInv'
  <2>1. probe[n][m].inventory \in Inventory /\ hosts[m] \in Inventory
    BY <1>1 DEF IInv, ObservedInv, Probe
  <2>2. CASE ProbeAnswered(n, m)
    <3>1. [step |-> "answered", inventory |-> hosts[m]] \in Probe
      BY <2>1 DEF Probe
    <3>2. ObservedInv'
      BY <1>1, <2>2, <3>1 DEF ProbeAnswered, IInv, ObservedInv
    <3> QED  BY <2>2, <3>2, CallsStay DEF ProbeAnswered, IInv
  <2>3. CASE ProbeObserved(n, m)
    <3>1. [status |-> "reachable", inventory |-> probe[n][m].inventory] \in Peer
      BY <2>1 DEF Peer
    <3>2. ObservedInv'
      BY <1>1, <2>3, <3>1, ShapeOfPeers DEF ProbeObserved, IInv, ObservedInv
    <3> QED  BY <2>3, <3>2, CallsStay DEF ProbeObserved, IInv
  <2>4. CASE ProbeMissed(n, m)
    <3>1. ObservedInv'
      BY <1>1, <1>2, <2>4, ShapeOfPeers DEF ProbeMissed, IInv, ObservedInv
    <3> QED  BY <2>4, <3>1, CallsStay DEF ProbeMissed, IInv
  <2>5. CASE Ages(n, m)
    <3>1. [peers[n][m] EXCEPT !.status = "stale"] \in Peer
      BY <1>2 DEF Peer
    <3>2. peers' = [peers EXCEPT ![n][m] = [peers[n][m] EXCEPT !.status = "stale"]]
      BY <1>1, <2>5 DEF Ages, IInv, ObservedInv
    <3>3. ObservedInv'
      BY <1>1, <2>5, <3>1, <3>2 DEF Ages, IInv, ObservedInv
    <3> QED  BY <2>5, <3>3, CallsStay DEF Ages, IInv
  <2> QED  BY <1>6, <2>2, <2>3, <2>4, <2>5
<1> QED  BY <1>3, <1>4, <1>5, <1>6

\* A node that goes down takes its own ends of the operations with it.
LEMMA RestartSound == ASSUME IInv, NEW n \in Nodes, Restart(n) PROVE IInv'
<1>1. ObservedInv'
  BY ShapeOfPeers DEF Restart, IInv, ObservedInv
<1>2. ASSUME NEW c \in Calls PROVE Sound(call'[c], ran'[c], answer'[c])
  <2>1. Sound(call[c], ran[c], answer[c]) /\ call[c] \in Operation
    BY OperationSound DEF IInv
  <2> DEFINE at == IF call[c].src = n /\ call[c].at \in Waiting \union {"local"}
                   THEN "done" ELSE call[c].at
             own == IF call[c].dst = n /\ call[c].own \in Serving
                    THEN "closed" ELSE call[c].own
             a == IF call[c].src = n /\ call[c].at \in Waiting \union {"local"}
                  THEN "unknown" ELSE answer[c]
  <2>2. call'[c] = [call[c] EXCEPT !.at = at, !.own = own] /\ ran'[c] = ran[c] /\ answer'[c] = a
    BY DEF Restart
  <2>3. Sound([call[c] EXCEPT !.at = at, !.own = own], ran[c], a)
    <3> DEFINE k == [call[c] EXCEPT !.at = at, !.own = own]
    <3>1. /\ k.at = at /\ k.sent = call[c].sent /\ k.own = own /\ k.dst = call[c].dst
          /\ k.src = call[c].src /\ k.node = call[c].node /\ k.ok = call[c].ok
          /\ k.wrote = call[c].wrote
      BY <2>1 DEF Operation
    <3>2. k \in Operation
      BY <2>1 DEF Operation, Serving
    <3> HIDE DEF k
    <3> QED  BY <2>1, <3>1, <3>2 DEF k, Sound, Operation, Waiting, Serving, Answers
  <2> QED  BY <2>2, <2>3
<1>3. \A c \in Calls : call'[c] \in Operation
  BY <1>2 DEF Sound
<1>4. call' = [c \in Calls |-> call'[c]] /\ answer' = [c \in Calls |-> answer'[c]]
  BY DEF Restart
<1>5. ran' = [c \in Calls |-> ran'[c]]
  BY DEF Restart, IInv, CallsInv
<1> QED  BY <1>1, <1>2, <1>3, <1>4, <1>5 DEF IInv, CallsInv

LEMMA SurroundingsSound == ASSUME IInv, Surroundings PROVE IInv'
<1>1. ASSUME NEW c \in Calls, Cut(c) PROVE IInv'
  <2>1. Sound([call[c] EXCEPT !.up = FALSE], ran[c], answer[c])
    BY <1>1, OperationSound, ZenonT(60) DEF IInv, Sound, Operation
  <2> QED  BY <1>1, <2>1, OwnerSound DEF Cut
<1>2. ASSUME NEW c \in Calls, ClientLeaves(c) PROVE IInv'
  BY <1>2, LeaveSound DEF ClientLeaves
<1>3. ASSUME NEW n, Join(n) \/ Depart(n) PROVE IInv'
  BY <1>3, CallsStay, ObservedStays DEF Join, Depart, IInv
<1>4. ASSUME NEW n \in Nodes, NEW p \in Profiles, NEW presence \in Presence,
             Edit(n, p, presence)
      PROVE  IInv'
  <2>1. ObservedInv'
    BY <1>4 DEF Edit, IInv, ObservedInv, Inventory
  <2> QED  BY <1>4, <2>1, CallsStay DEF Edit, IInv
<1> QED  BY <1>1, <1>2, <1>3, <1>4, RestartSound DEF Surroundings

LEMMA InitSound == Init => IInv
<1> SUFFICES ASSUME Init PROVE IInv
  OBVIOUS
<1>1. ObservedInv
  BY ShapeOfPeers DEF Init, ObservedInv
<1>2. ASSUME NEW n \in Gateways, NEW p \in Profiles
      PROVE  NoCall(n, p) \in Operation /\ Sound(NoCall(n, p), <<>>, "none")
  <2>1. n \in Nodes
    BY LinkAssumption
  <2>2. NoCall(n, p) \in Operation
    BY <2>1 DEF NoCall, Operation, Waiting, Serving, Kinds, NoInventory, Inventory, Presence
  <2> QED  BY <2>2 DEF Sound, NoCall, Waiting, Serving, Answers
<1>3. call \in [Calls -> Operation] /\ \A c \in Calls : Sound(call[c], <<>>, "none")
  BY <1>2 DEF Init
<1> QED  BY <1>1, <1>3 DEF Init, IInv, CallsInv

LEMMA StepSound == IInv /\ [Next]_vars => IInv'
<1> SUFFICES ASSUME IInv, [Next]_vars PROVE IInv'
  OBVIOUS
<1>1. CASE UNCHANGED vars
  BY <1>1, CallsStay, ObservedStays DEF vars, IInv
<1> QED  BY <1>1, ObserveSound, AskSound, CallerSound, ServeSound, SurroundingsSound DEF Next

-----------------------------------------------------------------------------
\* Whatever nodes and operations there are, and whatever is lost or restarted,
\* an operation runs at most once and only where it was addressed.
THEOREM RunsOnce == Spec => []RunsOnceWhereAddressed
<1>1. IInv => RunsOnceWhereAddressed
  <2> SUFFICES ASSUME IInv, NEW c \in Calls
               PROVE  /\ Len(ran[c]) <= 1
                      /\ \A i \in DOMAIN ran[c] :
                           ran[c][i] = call[c].dst /\ call[c].node \in {AnyNode, ran[c][i]}
    BY DEF RunsOnceWhereAddressed
  <2>1. Sound(call[c], ran[c], answer[c])
    BY OperationSound DEF IInv
  <2>2. CASE ran[c] = <<>>
    BY <2>2
  <2>3. CASE ran[c] = <<call[c].dst>>
    BY <2>1, <2>3 DEF Sound
  <2> QED  BY <2>1, <2>2, <2>3 DEF Sound
<1> QED  BY InitSound, StepSound, <1>1, PTL DEF Spec

\* A refused operation never runs and a completed one ran to the end of its
\* response.
THEOREM AnswersTrue == Spec => []AnswersAreTrue
<1>1. IInv => AnswersAreTrue
  BY OperationSound DEF IInv, AnswersAreTrue, Sound
<1> QED  BY InitSound, StepSound, <1>1, PTL DEF Spec

-----------------------------------------------------------------------------
(* Who reserves a name.                                                    *)

\* What a failure leaves of a peer that hosts the profile still hosts it.
LEMMA MissedKeeps ==
  ASSUME NEW peer \in Peer, NEW p, peer.status # "unknown"
  PROVE  Missed(peer).status # "unknown" /\ Missed(peer).inventory = peer.inventory
BY DEF Missed, Peer

\* An owner that is not released stays an owner.
LEMMA OwnerStays ==
  ASSUME IInv, Next, NEW n \in Gateways, NEW p \in Profiles,
         NEW m \in Owners(n, p, AnyNode), ~Released(n, m, p)
  PROVE  m \in Owners(n, p, AnyNode)'
<1>1. n \in Nodes /\ m \in Nodes /\ peers[n][m] \in Peer
      /\ peers[n][m].status # "unknown" /\ peers[n][m].inventory[p] # "none"
  BY LinkAssumption DEF Owners, Known, IInv, ObservedInv
<1>2. m \in members /\ ident'[n]
  BY DEF Released
<1>3. SUFFICES peers'[n][m].status # "unknown" /\ peers'[n][m].inventory[p] # "none"
  BY <1>1 DEF Owners, Known
<1>4. Missed(peers[n][m]).status # "unknown" /\ Missed(peers[n][m]).inventory[p] # "none"
  BY <1>1, MissedKeeps
<1>5. CASE peers' = peers
  BY <1>1, <1>5
<1>6. CASE Observe
  <2>1. PICK g \in Gateways :
          \/ \E asked \in SUBSET Nodes : SweepStarts(g, asked)
          \/ \E answered \in BOOLEAN : SweepFails(g, answered)
          \/ SweepEnds(g)
          \/ \E o \in Nodes : \/ ProbeAnswered(g, o) \/ ProbeObserved(g, o)
                              \/ ProbeMissed(g, o) \/ Ages(g, o)
    BY <1>6 DEF Observe
  <2>2. CASE g # n
    <3>1. peers'[n] = peers[n]
      BY <1>1, <2>1, <2>2 DEF SweepStarts, SweepFails, SweepEnds, ProbeAnswered, ProbeObserved,
                              ProbeMissed, Ages, IInv, ObservedInv
    <3> QED  BY <1>1, <3>1
  <2>3. CASE g = n
    <3>1. Retain(n)[m] = peers[n][m]
      BY <1>1, <1>2 DEF Retain
    <3>2. ASSUME NEW asked, SweepStarts(n, asked)
          PROVE  peers'[n][m] \in {peers[n][m], Missed(peers[n][m])}
      BY <1>1, <3>1, <3>2 DEF SweepStarts, IInv, ObservedInv
    <3>3. ASSUME NEW answered \in BOOLEAN, SweepFails(n, answered)
          PROVE  peers'[n][m] = Missed(peers[n][m])
      BY <1>1, <3>1, <3>3 DEF SweepFails, IInv, ObservedInv
    <3>4. CASE SweepEnds(n)
      BY <1>5, <3>4 DEF SweepEnds
    <3>5. ASSUME NEW o \in Nodes,
                 \/ ProbeAnswered(n, o) \/ ProbeObserved(n, o) \/ ProbeMissed(n, o) \/ Ages(n, o)
          PROVE  peers'[n][m].status # "unknown" /\ peers'[n][m].inventory[p] # "none"
      <4>1. CASE ProbeAnswered(n, o)
        BY <1>5, <4>1 DEF ProbeAnswered
      <4>2. CASE ProbeObserved(n, o)
        <5>1. CASE o # m
          BY <1>1, <4>2, <5>1 DEF ProbeObserved, IInv, ObservedInv
        <5>2. CASE o = m
          <6>1. probe[n][m].inventory[p] # "none"
            BY <4>2, <5>2 DEF ProbeObserved, Released
          <6>2. peers'[n][m] = [status |-> "reachable", inventory |-> probe[n][m].inventory]
            BY <1>1, <4>2, <5>2 DEF ProbeObserved, IInv, ObservedInv
          <6> QED  BY <6>1, <6>2
        <5> QED  BY <5>1, <5>2
      <4>3. CASE ProbeMissed(n, o)
        <5>1. peers'[n][m] \in {peers[n][m], Missed(peers[n][m])}
          BY <1>1, <4>3 DEF ProbeMissed, IInv, ObservedInv
        <5> QED  BY <1>1, <1>4, <5>1
      <4>4. CASE Ages(n, o)
        <5>1. /\ peers'[n][m].inventory = peers[n][m].inventory
              /\ peers'[n][m].status \in {peers[n][m].status, "stale"}
          BY <1>1, <4>4 DEF Ages, IInv, ObservedInv, Peer
        <5> QED  BY <1>1, <5>1
      <4> QED  BY <3>5, <4>1, <4>2, <4>3, <4>4
    <3> QED  BY <1>1, <1>4, <2>1, <2>3, <3>2, <3>3, <3>4, <3>5
  <2> QED  BY <2>2, <2>3
<1>7. ASSUME NEW c \in Calls, CallerMoves(c)
      PROVE  peers'[n][m].status # "unknown" /\ peers'[n][m].inventory[p] # "none"
  <2>1. CASE ReadEnd(c)
    <3> DEFINE s == call[c].src
               d == call[c].dst
    <3>1. s \in Nodes /\ d \in Nodes
      BY OperationSound DEF IInv, Operation
    <3>2. CASE peers' # peers
      <4>1. /\ call[c].kind = "control" /\ call[c].ok /\ call[c].at = "body"
            /\ peers' = [peers EXCEPT ![s][d] =
                 [status |-> IF @.status = "failed" THEN "failed" ELSE "reachable",
                  inventory |-> call[c].inventory]]
        BY <2>1, <3>2 DEF ReadEnd
      <4>2. CASE s = n /\ d = m
        <5>1. call[c].inventory[p] # "none"
          BY <4>1, <4>2 DEF Released
        <5>2. peers'[n][m] = [status |-> IF peers[n][m].status = "failed" THEN "failed"
                                         ELSE "reachable",
                              inventory |-> call[c].inventory]
          BY <1>1, <4>1, <4>2 DEF IInv, ObservedInv
        <5> QED  BY <5>1, <5>2
      <4>3. CASE ~(s = n /\ d = m)
        <5>1. peers'[n][m] = peers[n][m]
          BY <1>1, <3>1, <4>1, <4>3 DEF IInv, ObservedInv
        <5> QED  BY <1>1, <5>1
      <4> QED  BY <4>2, <4>3
    <3> QED  BY <1>5, <3>2
  <2>2. CASE ~ReadEnd(c)
    BY <1>5, <1>7, <2>2 DEF CallerMoves, LocalRuns, Opened, OpenFails, Write, WriteFails, ReadHead,
                            HeadFails, BodyFails, Leave
  <2> QED  BY <2>1, <2>2
<1>8. CASE Ask
  BY <1>5, <1>8 DEF Ask, Infer, Control
<1>9. CASE Serve
  BY <1>5, <1>9 DEF Serve, Accept, WriteHead, WriteEnd, GivesUp, HangsUp, Dispatch, Generated, Owner
<1>10. CASE Surroundings
  <2>1. ASSUME NEW g \in Nodes, Restart(g)
        PROVE  peers'[n][m].status # "unknown" /\ peers'[n][m].inventory[p] # "none"
    <3>1. g # n
      BY <1>1, <1>2, <2>1 DEF Restart, IInv, ObservedInv
    <3>2. peers'[n] = peers[n]
      BY <1>1, <2>1, <3>1 DEF Restart, IInv, ObservedInv
    <3> QED  BY <1>1, <3>2
  <2> QED  BY <1>5, <1>10, <2>1 DEF Surroundings, Cut, Owner, ClientLeaves, Leave, Join, Depart, Edit
<1> QED  BY <1>6, <1>7, <1>8, <1>9, <1>10 DEF Next

\* While an owner is known an unqualified alias leads nowhere else.
Reserved ==
  \A n \in Nodes, p \in Profiles : \A m \in Owners(n, p, AnyNode) :
    Resolve(n, p, AnyNode) \subseteq {m}

LEMMA OwnerReserves == Reserved
<1> SUFFICES ASSUME NEW n \in Nodes, NEW p \in Profiles, NEW m \in Owners(n, p, AnyNode)
             PROVE  Resolve(n, p, AnyNode) \subseteq {m}
  BY DEF Reserved
<1> DEFINE found == Candidates(n, p, AnyNode)
<1>1. m \in found
  BY DEF Candidates
<1>2. IsFiniteSet(found)
  BY LinkAssumption, FS_Subset DEF Candidates, Owners, Known
<1>3. CASE Cardinality(found) = 1
  <2>1. \E x : found = {x}
    BY <1>2, <1>3, FS_Singleton
  <2> QED  BY <1>1, <2>1 DEF Resolve
<1> QED  BY <1>3 DEF Resolve

\* For any nodes and profiles: a name once seen at a peer is not answered by
\* another host before that peer gives it up, leaves or is forgotten.
THEOREM NameReserved == Spec => NoSilentRetarget
<1> DEFINE A == \A n \in Gateways, p \in Profiles : \A m \in Owners(n, p, AnyNode) :
                  Resolve(n, p, AnyNode)' \subseteq {m} \/ Released(n, m, p)
<1>1. ASSUME NEW n \in Gateways, NEW p \in Profiles, NEW m
      PROVE  m \in Owners(n, p, AnyNode)' => Resolve(n, p, AnyNode)' \subseteq {m}
  <2>1. Reserved'
    BY OwnerReserves, PTL
  <2> QED  BY <2>1, LinkAssumption DEF Reserved
<1>2. IInv /\ [Next]_vars => [A]_vars
  BY <1>1, OwnerStays DEF vars
<1>3. Spec => [][A]_vars
  <2> HIDE DEF A
  <2> QED  BY InitSound, StepSound, <1>2, PTL DEF Spec
<1> QED  BY <1>3 DEF NoSilentRetarget

=============================================================================
