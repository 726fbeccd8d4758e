---------------------------- MODULE Connections -----------------------------
(***************************************************************************)
(* The connections of one node: the worker's run_forever (link.py) and the *)
(* sockets and _nodes of the hub of every platform instance the node may   *)
(* be routed to (ws/hub.js).  Presence and ClusterPresence add what the    *)
(* platform makes of it.                                                   *)
(*                                                                         *)
(* Each connection attempt is a socket of its own.  A socket may be lost   *)
(* without either side being told; heartbeats and timers have no clock,    *)
(* they come in any order.                                                 *)
(***************************************************************************)
EXTENDS Naturals, Sequences

CONSTANTS Hubs,        \* instances the node may be routed to
          MaxSockets,  \* bound on connection attempts
          MissLimit,   \* HEARTBEAT_MISS_LIMIT
          None

Sockets == 1..MaxSockets

ASSUME ConnectionsAssumption ==
    MaxSockets \in Nat /\ MissLimit \in Nat /\ None \notin Hubs \cup Nat

VARIABLES
    sock,      \* each socket: the hub's end of it, and the wire
    nodes,     \* _nodes of each hub: the socket it holds for the node
    worker,    \* where run_forever is, and its socket
    latest     \* history: the socket welcomed last

wire == <<sock, nodes, worker, latest>>

Unopened == [at |-> None, hub |-> "unopened", link |-> "gone", missed |-> 0]
Home(s) == IF s = None THEN None ELSE sock[s].at
With(s, hub, link) == [at |-> sock[s].at, hub |-> hub, link |-> link, missed |-> sock[s].missed]

WireInit ==
    /\ sock = [s \in Sockets |-> Unopened]
    /\ nodes = [i \in Hubs |-> None]
    /\ worker = [pc |-> "connect", s |-> None]
    /\ latest = None
-----------------------------------------------------------------------------
(* run_forever: websockets.connect.                                        *)
WorkerConnect(i, s) ==
    /\ worker.pc = "connect"
    /\ sock[s] = Unopened /\ \A t \in 1..(s - 1) : sock[t] # Unopened
    /\ sock' = [sock EXCEPT ![s] =
                   [at |-> i, hub |-> "new", link |-> "up", missed |-> 0]]
    /\ worker' = [pc |-> "auth", s |-> s]
    /\ UNCHANGED <<nodes, latest>>

(* What the worker sends arrives before it gives the socket up, or never.  *)
Arrives(s) == sock[s].link \in {"up", "closing"} /\ worker.s = s

(* HELLO, answered with a nonce once the public key was looked up.         *)
HubChallenge(s) ==
    /\ sock[s].hub = "new" /\ Arrives(s)
    /\ sock' = [sock EXCEPT ![s] = With(s, "challenged", sock[s].link)]
    /\ UNCHANGED <<nodes, worker, latest>>

Shut(s) == IF sock[s].link \in {"up", "lost"} THEN "closing" ELSE sock[s].link

(* CHALLENGE_RESPONSE: a prior socket of the node is closed, and this one  *)
(* takes its place before that close is noticed.                           *)
HubWelcome(s) ==
    LET i == sock[s].at
        prior == nodes[i]
    IN
    /\ sock[s].hub = "challenged" /\ Arrives(s)
    /\ sock' = [t \in Sockets |->
                   IF t = s THEN With(s, "authed", sock[s].link)
                   ELSE IF t = prior THEN With(t, sock[t].hub, Shut(t))
                   ELSE sock[t]]
    /\ nodes' = [nodes EXCEPT ![i] = s]
    /\ latest' = s
    /\ UNCHANGED worker

WorkerWelcomed ==
    /\ worker.pc = "auth" /\ sock[worker.s].hub = "authed"
    /\ sock[worker.s].link = "up"
    /\ worker' = [pc |-> "session", s |-> worker.s]
    /\ UNCHANGED <<sock, nodes, latest>>

(* The timer of handleConnection.                                          *)
AuthTimeout(s) ==
    /\ sock[s].hub \in {"new", "challenged"} /\ sock[s].link \in {"up", "lost"}
    /\ sock' = [sock EXCEPT ![s] = With(s, sock[s].hub, "closing")]
    /\ UNCHANGED <<nodes, worker, latest>>

CloseTakesAny(i, s) == nodes[i] # None     \* mutant: whose close is not asked
CloseTakes(i, s) == nodes[i] = s

(* The 'close' event, _onClose.                                            *)
HubClosed(s) ==
    LET i == sock[s].at IN
    /\ sock[s].link = "closing"
    /\ sock' = [sock EXCEPT ![s] = With(s, "closed", "gone")]
    /\ nodes' = IF sock[s].hub = "authed" /\ CloseTakes(i, s)
                THEN [nodes EXCEPT ![i] = None] ELSE nodes
    /\ UNCHANGED <<worker, latest>>

Counted(s, n, link) == [at |-> sock[s].at, hub |-> sock[s].hub, link |-> link, missed |-> n]
(* HEARTBEAT.                                                              *)
Heartbeat ==
    /\ worker.pc = "session" /\ sock[worker.s].link = "up"
    /\ sock' = [sock EXCEPT ![worker.s] = Counted(worker.s, 0, sock[worker.s].link)]
    /\ UNCHANGED <<nodes, worker, latest>>

Missed(s) == IF sock[s].missed > MissLimit THEN sock[s].missed ELSE sock[s].missed + 1
SweepForgives(i) ==                        \* mutant: counts and never closes
    LET s == nodes[i] IN
    /\ s # None
    /\ sock' = [sock EXCEPT ![s] = Counted(s, Missed(s), sock[s].link)]
    /\ UNCHANGED <<nodes, worker, latest>>
(* sweepStale only closes the socket; _onClose does the rest.              *)
SweepStale(i) ==
    LET s == nodes[i] IN
    /\ s # None
    /\ sock' = [sock EXCEPT ![s] = Counted(s, Missed(s),
                   IF Missed(s) > MissLimit THEN Shut(s) ELSE sock[s].link)]
    /\ UNCHANGED <<nodes, worker, latest>>
-----------------------------------------------------------------------------
(* The worker's end.  In the handshake a lost connection is caught and     *)
(* tried again; in a session it reaches run_forever inside the group the   *)
(* TaskGroup raises, which nothing catches, and the process ends.          *)
WorkerLosesSocket ==
    /\ worker.pc \in {"auth", "session"} /\ sock[worker.s].link # "up"
    /\ worker' = [pc |-> IF worker.pc = "auth" THEN "backoff" ELSE "exited",
                  s |-> None]
    /\ UNCHANGED <<sock, nodes, latest>>

(* Closed with 1000 or 1001, as by a proxy that restarts: both loops end   *)
(* quietly, and _stop_waiter goes on waiting.                              *)
CleanClose ==
    /\ worker.pc = "session" /\ sock[worker.s].link = "up"
    /\ sock' = [sock EXCEPT ![worker.s] = With(worker.s, sock[worker.s].hub, "closing")]
    /\ worker' = [pc |-> "waiting", s |-> None]
    /\ UNCHANGED <<nodes, latest>>

BackoffEnds ==
    /\ worker.pc = "backoff"
    /\ worker' = [pc |-> "connect", s |-> worker.s]
    /\ UNCHANGED <<sock, nodes, latest>>

(* The worker is stopped or dies, and its socket is closed for it.         *)
WorkerStops ==
    /\ worker.pc # "exited"
    /\ worker' = [pc |-> "exited", s |-> None]
    /\ sock' = [s \in Sockets |-> IF s = worker.s /\ sock[s].link = "up"
                                  THEN With(s, sock[s].hub, "closing") ELSE sock[s]]
    /\ UNCHANGED <<nodes, latest>>

WorkerStarts ==
    /\ worker.pc = "exited"
    /\ worker' = [pc |-> "connect", s |-> worker.s]
    /\ UNCHANGED <<sock, nodes, latest>>

(* The network drops a connection; neither side is told.                   *)
LinkLost(s) ==
    /\ sock[s].link = "up"
    /\ sock' = [sock EXCEPT ![s] = With(s, sock[s].hub, "lost")]
    /\ UNCHANGED <<nodes, worker, latest>>
(* An instance dies, and its sockets are reset.                            *)
HubCrash(i) ==
    /\ \E s \in Sockets : sock[s].at = i /\ sock[s].hub # "closed"
    /\ sock' = [s \in Sockets |-> IF sock[s].at = i
                   THEN With(s, "closed", "gone") ELSE sock[s]]
    /\ nodes' = [nodes EXCEPT ![i] = None]
    /\ UNCHANGED <<worker, latest>>
-----------------------------------------------------------------------------
(* Steps that tell nobody of the node's presence.                          *)
Unannounced ==
    \/ \E i \in Hubs : (\E s \in Sockets : WorkerConnect(i, s)) \/ SweepStale(i)
    \/ \E s \in Sockets : HubChallenge(s) \/ AuthTimeout(s) \/ LinkLost(s)
    \/ WorkerWelcomed \/ Heartbeat \/ WorkerLosesSocket \/ CleanClose
    \/ BackoffEnds \/ WorkerStops \/ WorkerStarts

(* The sweep and the timers run, and a close that was begun is noticed.    *)
WireFairness ==
    /\ \A i \in Hubs : WF_wire(SweepStale(i))
    /\ \A s \in Sockets : WF_wire(AuthTimeout(s)) /\ WF_wire(HubClosed(s))
    /\ WF_wire(WorkerLosesSocket) /\ WF_wire(BackoffEnds)
-----------------------------------------------------------------------------
WireTypeOK ==
    /\ sock \in [Sockets ->
          [at : Hubs \cup {None}, missed : 0..(MissLimit + 1),
           hub : {"unopened", "new", "challenged", "authed", "closed"},
           link : {"up", "lost", "closing", "gone"}]]
    /\ nodes \in [Hubs -> Sockets \cup {None}]
    /\ worker \in [pc : {"connect", "auth", "session", "backoff", "waiting", "exited"},
                   s : Sockets \cup {None}]
    /\ latest \in Sockets \cup {None}

(* A hub holds exactly the newest socket that proved itself to it, until   *)
(* that one is closed: the close of an older one, however late, never      *)
(* takes a connection away.                                                *)
NewestIsHeld == \A i \in Hubs :
    /\ nodes[i] # None => sock[nodes[i]].hub = "authed" /\ sock[nodes[i]].at = i
    /\ Home(latest) = i /\ sock[latest].hub = "authed" => nodes[i] = latest

(* A connection that has gone dark does not keep its node online for good. *)
SilentIsSwept == \A s \in Sockets :
    sock[s].link = "lost" ~> \A i \in Hubs : nodes[i] # s

=============================================================================
