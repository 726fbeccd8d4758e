--------------------------- MODULE PresenceProofs ---------------------------
(***************************************************************************)
(* What is proved about a node's connections, about its status in the      *)
(* database and about where other instances believe it to be, for any      *)
(* number of instances, sockets and missed heartbeats.                     *)
(***************************************************************************)
EXTENDS Presence, ClusterPresence, SequenceTheorems, TLAPS

(* A status that nothing has gone wrong with is the last write under way,  *)
(* or if there is none the database's; either says whether a hub has the   *)
(* node.  (A row that is enrolling or draining does not say.)              *)
Held == \E i \in Hubs : nodes[i] # None
StatusFollows ==
    ~stale => IF writes = <<>>
              THEN db \in {"online", "offline"} => (db = "online" <=> Held)
              ELSE writes[Len(writes)] = "online" <=> Held

(* A socket that was ever opened belongs to an instance.                   *)
AtHome == \A s \in Sockets :
    sock[s].hub # "unopened" \/ sock[s].link # "gone" => sock[s].at \in Hubs

WireInv == WireTypeOK /\ AtHome /\ NewestIsHeld
Words == {"online", "offline"}
StatusTypeOK ==
    /\ db \in {"enrolling", "online", "offline", "draining"}
    /\ writes \in Seq(Words)
    /\ stale \in BOOLEAN
IInv == WireInv /\ StatusTypeOK /\ StatusFollows
-----------------------------------------------------------------------------
(* The steps of the wire, each on its own.                                 *)

SocketType == [at : Hubs \cup {None}, missed : 0..(MissLimit + 1),
               hub : {"unopened", "new", "challenged", "authed", "closed"},
               link : {"up", "lost", "closing", "gone"}]

(* A hub's end stays as it is when only wire and heartbeats change.        *)
LEMMA WireOnly ==
    ASSUME WireInv, UNCHANGED <<nodes, latest>>, sock' \in [Sockets -> SocketType],
           \A s \in Sockets : /\ sock'[s].at = sock[s].at /\ sock'[s].hub = sock[s].hub
                              /\ sock[s].link = "gone" => sock'[s].link = "gone"
    PROVE  AtHome' /\ NewestIsHeld'
<1>0. AtHome'
  BY DEF WireInv, AtHome
<1> SUFFICES ASSUME NEW i \in Hubs
             PROVE  /\ nodes[i] # None => sock'[nodes[i]].hub = "authed" /\ sock'[nodes[i]].at = i
                    /\ Home(latest)' = i /\ sock'[latest].hub = "authed" => nodes[i] = latest
  BY <1>0 DEF NewestIsHeld
<1>1. nodes[i] # None => sock'[nodes[i]].hub = "authed" /\ sock'[nodes[i]].at = i
  BY DEF WireInv, WireTypeOK, NewestIsHeld
<1>2. CASE latest = None
  BY <1>1, <1>2, ConnectionsAssumption DEF Home
<1>3. CASE latest \in Sockets
  <2>1. latest # None
    BY <1>3, ConnectionsAssumption DEF Sockets
  <2>2. Home(latest)' = Home(latest) /\ sock'[latest].hub = sock[latest].hub
    BY <1>3, <2>1 DEF Home
  <2> QED BY <1>1, <2>2 DEF WireInv, NewestIsHeld
<1> QED BY <1>2, <1>3 DEF WireInv, WireTypeOK

LEMMA WorkerConnects ==
    ASSUME WireInv, NEW i \in Hubs, NEW s \in Sockets, WorkerConnect(i, s)
    PROVE  WireInv'
BY ConnectionsAssumption DEF WireInv, AtHome, WireTypeOK, NewestIsHeld, Home, WorkerConnect, Sockets, Unopened

LEMMA Challenges ==
    ASSUME WireInv, NEW s \in Sockets, HubChallenge(s)
    PROVE  WireInv'
BY ConnectionsAssumption DEF WireInv, AtHome, WireTypeOK, NewestIsHeld, Home, HubChallenge, With, Sockets

LEMMA Welcomes ==
    ASSUME WireInv, NEW s \in Sockets, HubWelcome(s)
    PROVE  WireInv'
<1> DEFINE prior == nodes[sock[s].at]
<1> USE DEF WireInv
<1>1. sock' = [t \in Sockets |->
                 IF t = s THEN With(s, "authed", sock[s].link)
                 ELSE IF t = prior THEN With(t, sock[t].hub, Shut(t)) ELSE sock[t]]
  BY DEF HubWelcome
<1>2. sock' \in [Sockets -> SocketType]
  BY <1>1 DEF WireTypeOK, SocketType, With, Shut
<1>3. WireTypeOK'
  BY <1>2 DEF HubWelcome, WireTypeOK, SocketType
<1>4. /\ sock'[s].hub = "authed" /\ sock'[s].at = sock[s].at
      /\ \A t \in Sockets \ {s} : sock'[t].at = sock[t].at /\ sock'[t].hub = sock[t].hub
  BY <1>1 DEF With
<1>5. NewestIsHeld'
  <2> SUFFICES ASSUME NEW i \in Hubs
               PROVE  /\ nodes'[i] # None => sock'[nodes'[i]].hub = "authed" /\ sock'[nodes'[i]].at = i
                      /\ Home(latest)' = i /\ sock'[latest'].hub = "authed" => nodes'[i] = latest'
    BY DEF NewestIsHeld
  <2>1. latest' = s /\ nodes' = [nodes EXCEPT ![sock[s].at] = s] /\ sock[s].hub = "challenged"
    BY DEF HubWelcome
  <2>2. s # None
    BY ConnectionsAssumption DEF Sockets
  <2>3. Home(latest)' = sock[s].at
    BY <2>1, <2>2, <1>4 DEF Home
  <2>4. CASE i = sock[s].at
    BY <2>1, <2>3, <2>4, <1>4 DEF WireTypeOK
  <2>5. CASE i # sock[s].at
    BY <2>1, <2>3, <2>5, <1>4 DEF WireTypeOK, NewestIsHeld
  <2> QED BY <2>4, <2>5
<1>6. AtHome'
  <2>1. \A t \in Sockets : sock[t].link = "gone" => sock'[t].link = "gone" \/ t = s
    BY <1>1 DEF With, Shut
  <2> QED BY <2>1, <1>4 DEF AtHome, HubWelcome
<1> QED BY <1>3, <1>5, <1>6

LEMMA TimesOut ==
    ASSUME WireInv, NEW s \in Sockets, AuthTimeout(s) \/ LinkLost(s)
    PROVE  WireInv'
<1>1. sock' \in [Sockets -> SocketType]
  BY DEF WireInv, WireTypeOK, SocketType, AuthTimeout, LinkLost, With
<1>2. \A t \in Sockets : /\ sock'[t].at = sock[t].at /\ sock'[t].hub = sock[t].hub
                         /\ sock[t].link = "gone" => sock'[t].link = "gone"
  BY DEF WireInv, WireTypeOK, AuthTimeout, LinkLost, With
<1>3. UNCHANGED <<nodes, worker, latest>>
  BY DEF AuthTimeout, LinkLost
<1> QED BY <1>1, <1>2, <1>3, WireOnly DEF WireInv, WireTypeOK, SocketType

LEMMA Closes ==
    ASSUME WireInv, NEW s \in Sockets, HubClosed(s)
    PROVE  WireInv'
<1> DEFINE i == sock[s].at
<1> USE DEF WireInv
<1>1. sock' = [sock EXCEPT ![s] = With(s, "closed", "gone")]
  BY DEF HubClosed
<1>2. WireTypeOK'
  <2>1. sock' \in [Sockets -> SocketType]
    BY <1>1 DEF WireTypeOK, SocketType, With
  <2>2. nodes' \in [Hubs -> Sockets \cup {None}] /\ UNCHANGED <<worker, latest>>
    BY DEF HubClosed, WireTypeOK
  <2> QED BY <2>1, <2>2 DEF WireTypeOK, SocketType
<1>3. /\ sock'[s].hub = "closed" /\ sock'[s].at = i
      /\ \A t \in Sockets \ {s} : sock'[t].at = sock[t].at /\ sock'[t].hub = sock[t].hub
  BY <1>1 DEF With, WireTypeOK
<1>4. \A j \in Hubs : nodes'[j] = IF nodes[j] = s THEN None ELSE nodes[j]
  BY DEF HubClosed, CloseTakes, NewestIsHeld, WireTypeOK
<1>5. latest' = latest
  BY DEF HubClosed
<1>6. s # None
  BY ConnectionsAssumption DEF Sockets
<1>7. NewestIsHeld'
  <2> SUFFICES ASSUME NEW j \in Hubs
               PROVE  /\ nodes'[j] # None => sock'[nodes'[j]].hub = "authed" /\ sock'[nodes'[j]].at = j
                      /\ Home(latest)' = j /\ sock'[latest].hub = "authed" => nodes'[j] = latest
    BY <1>5 DEF NewestIsHeld
  <2>1. nodes'[j] # None => sock'[nodes'[j]].hub = "authed" /\ sock'[nodes'[j]].at = j
    BY <1>3, <1>4 DEF NewestIsHeld, WireTypeOK
  <2>2. ASSUME Home(latest)' = j, sock'[latest].hub = "authed" PROVE nodes'[j] = latest
    <3>1. latest \in Sockets \ {s} /\ latest # None
      BY <2>2, <1>3, <1>5, ConnectionsAssumption DEF Home, WireTypeOK, Sockets
    <3>2. nodes[j] = latest
      BY <2>2, <3>1, <1>3, <1>5 DEF Home, NewestIsHeld
    <3> QED BY <3>1, <3>2, <1>4
  <2> QED BY <2>1, <2>2
<1>8. AtHome'
  <2>1. \A t \in Sockets \ {s} : sock'[t] = sock[t]
    BY <1>1 DEF WireTypeOK
  <2> QED BY <2>1, <1>3 DEF AtHome, HubClosed
<1> QED BY <1>2, <1>7, <1>8

LEMMA Crashes ==
    ASSUME WireInv, NEW i \in Hubs, HubCrash(i)
    PROVE  WireInv'
BY ConnectionsAssumption DEF WireInv, AtHome, WireTypeOK, NewestIsHeld, Home, HubCrash, With, Sockets

LEMMA Sweeps ==
    ASSUME WireInv, NEW i \in Hubs, SweepStale(i)
    PROVE  WireInv'
BY ConnectionsAssumption, SMTT(40) DEF WireInv, AtHome, WireTypeOK, NewestIsHeld, Home, SweepStale, Missed, Counted, Shut, Sockets

LEMMA WorkerMoves ==
    ASSUME WireInv,
           \/ WorkerWelcomed \/ WorkerLosesSocket \/ BackoffEnds \/ WorkerStarts
    PROVE  WireInv'
BY ConnectionsAssumption DEF WireInv, AtHome, WireTypeOK, NewestIsHeld, Home, WorkerWelcomed, WorkerLosesSocket,
   BackoffEnds, WorkerStarts

LEMMA WorkerEnds ==
    ASSUME WireInv, Heartbeat \/ CleanClose \/ WorkerStops
    PROVE  WireInv'
<1>1. sock' \in [Sockets -> SocketType]
  <2>1. CASE Heartbeat
    <3>1. \A s \in Sockets : Counted(s, 0, sock[s].link) \in SocketType
      BY ConnectionsAssumption DEF WireInv, WireTypeOK, SocketType, Counted
    <3>2. sock \in [Sockets -> SocketType]
      BY DEF WireInv, WireTypeOK, SocketType
    <3> QED BY <2>1, <3>1, <3>2 DEF Heartbeat
  <2>2. CASE CleanClose
    BY <2>2 DEF WireInv, WireTypeOK, SocketType, CleanClose, With
  <2>3. CASE WorkerStops
    BY <2>3 DEF WireInv, WireTypeOK, SocketType, WorkerStops, With
  <2> QED BY <2>1, <2>2, <2>3
<1>2. \A t \in Sockets : /\ sock'[t].at = sock[t].at /\ sock'[t].hub = sock[t].hub
                         /\ sock[t].link = "gone" => sock'[t].link = "gone"
  BY DEF WireInv, WireTypeOK, Heartbeat, CleanClose, WorkerStops, Counted, With
<1>3. UNCHANGED <<nodes, latest>>
  BY DEF Heartbeat, CleanClose, WorkerStops
<1>4. worker' \in [pc : {"connect", "auth", "session", "backoff", "waiting", "exited"},
                   s : Sockets \cup {None}]
  BY DEF WireInv, WireTypeOK, Heartbeat, CleanClose, WorkerStops
<1> QED BY <1>1, <1>2, <1>3, <1>4, WireOnly DEF WireInv, WireTypeOK, SocketType


(* Any step that tells nobody, and the three that may.                     *)
LEMMA WireSteps ==
    ASSUME WireInv, \/ Unannounced
                    \/ \E s \in Sockets : HubWelcome(s) \/ HubClosed(s)
                    \/ \E i \in Hubs : HubCrash(i)
    PROVE  WireInv'
BY WorkerConnects, Challenges, Welcomes, TimesOut, Closes, Crashes, Sweeps, WorkerMoves, WorkerEnds
   DEF Unannounced

LEMMA QuietNodes == Unannounced => UNCHANGED nodes
BY DEF Unannounced, WorkerConnect, SweepStale, HubChallenge, AuthTimeout, LinkLost, WorkerWelcomed,
   Heartbeat, WorkerLosesSocket, CleanClose, BackoffEnds, WorkerStops, WorkerStarts
-----------------------------------------------------------------------------
(* What is left of a sequence without its first element.                   *)
LEMMA WithoutFirst ==
    ASSUME NEW w \in Seq(Words), w # <<>>
    PROVE  LET rest == SubSeq(w, 1, 0) \o SubSeq(w, 2, Len(w)) IN
           /\ rest \in Seq(Words) /\ Len(rest) = Len(w) - 1
           /\ rest # <<>> => rest[Len(rest)] = w[Len(w)]
<1> DEFINE tail == SubSeq(w, 2, Len(w))
<1>1. Len(w) \in Nat /\ Len(w) > 0
  BY EmptySeq
<1>2. SubSeq(w, 1, 0) = <<>>
  BY SubSeqEmpty
<1>3. /\ tail \in Seq(Words) /\ Len(tail) = Len(w) - 1
      /\ \A j \in 1..(Len(w) - 1) : tail[j] = w[j + 1]
  <2>1. \A j \in 2..Len(w) : w[j] \in Words
    BY <1>1, ElementOfSeq
  <2>2. 2 \in Int /\ Len(w) \in Int
    BY <1>1
  <2>3. /\ tail \in Seq(Words)
        /\ Len(tail) = IF 2 <= Len(w) THEN Len(w) - 2 + 1 ELSE 0
        /\ \A j \in 1..(Len(w) - 2 + 1) : tail[j] = w[2 + j - 1]
    BY <2>1, <2>2, SubSeqProperties
  <2> HIDE DEF tail
  <2>4. Len(tail) = Len(w) - 1
    <3>1. \A n \in Nat : n > 0 => (IF 2 <= n THEN n - 2 + 1 ELSE 0) = n - 1
      OBVIOUS
    <3> QED BY <1>1, <2>3, <3>1, Zenon
  <2>5. \A j \in 1..(Len(w) - 1) : tail[j] = w[j + 1]
    <3> TAKE j \in 1..(Len(w) - 1)
    <3>1. j \in 1..(Len(w) - 2 + 1) /\ 2 + j - 1 = j + 1
      BY <1>1
    <3> QED BY <2>3, <3>1
  <2> QED BY <2>3, <2>4, <2>5
<1>4. SubSeq(w, 1, 0) \o tail = tail
  BY <1>2, <1>3, ConcatEmptySeq
<1>5. tail # <<>> => tail[Len(tail)] = w[Len(w)]
  <2>1. tail # <<>> => Len(w) - 1 \in 1..(Len(w) - 1)
    BY <1>1, <1>3, EmptySeq
  <2> QED BY <2>1, <1>1, <1>3
<1> QED BY <1>3, <1>4, <1>5

LEMMA WithoutOne ==
    ASSUME NEW w \in Seq(Words), NEW k \in DOMAIN w
    PROVE  SubSeq(w, 1, k - 1) \o SubSeq(w, k + 1, Len(w)) \in Seq(Words)
<1>1. Len(w) \in Nat /\ k \in 1..Len(w)
  BY LenProperties
<1>2. \A j \in 1..Len(w) : w[j] \in Words
  BY ElementOfSeq
<1>3. SubSeq(w, 1, k - 1) \in Seq(Words)
  BY <1>1, <1>2, SubSeqProperties
<1>4. SubSeq(w, k + 1, Len(w)) \in Seq(Words)
  BY <1>1, <1>2, SubSeqProperties
<1> QED BY <1>3, <1>4, ConcatProperties

(* A presence event is announced as it is.                                 *)
LEMMA Announced ==
    ASSUME IInv, NEW online \in BOOLEAN, Write(online), online => Held'
    PROVE  (StatusTypeOK /\ StatusFollows)'
<1>1. writes' = Append(writes, IF online THEN "online" ELSE "offline") /\ db' = db
  BY DEF Write
<1>2. /\ writes' \in Seq(Words) /\ writes' # <<>>
      /\ writes'[Len(writes')] = IF online THEN "online" ELSE "offline"
  BY <1>1 DEF IInv, StatusTypeOK, Words
<1>3. stale' \in BOOLEAN /\ (~stale' => (online <=> Held'))
  BY DEF Write, Held
<1> QED BY <1>1, <1>2, <1>3 DEF IInv, StatusTypeOK, StatusFollows
(* A write that is done, in order, leaves the last one the last.           *)
LEMMA Written ==
    ASSUME IInv, NEW k \in 1..(2 * MaxSockets), WriteDone(k)
    PROVE  (StatusTypeOK /\ StatusFollows)'
<1>1. k \in DOMAIN writes /\ writes \in Seq(Words) /\ writes # <<>> /\ writes[k] \in Words
  BY DEF WriteDone, IInv, StatusTypeOK
<1>2. writes' = SubSeq(writes, 1, k - 1) \o SubSeq(writes, k + 1, Len(writes))
  BY DEF WriteDone
<1>3. writes' \in Seq(Words)
  BY <1>1, <1>2, WithoutOne
<1>4. \/ db' = WriteStatus(writes[k]) /\ stale' = (stale \/ k # 1)
      \/ stale' = TRUE /\ db' = db
  BY DEF WriteDone
<1>5. UNCHANGED nodes
  BY DEF WriteDone, wire
<1>6. StatusTypeOK'
  BY <1>1, <1>3, <1>4 DEF IInv, StatusTypeOK, WriteStatus, Words
<1>7. ASSUME ~stale' PROVE StatusFollows'
  <2>1. k = 1 /\ ~stale /\ db' = WriteStatus(writes[1])
    BY <1>4, <1>7 DEF IInv, StatusTypeOK
  <2>2. writes[Len(writes)] = "online" <=> Held
    BY <1>1, <2>1 DEF IInv, StatusFollows
  <2>3. Held' = Held
    BY <1>5 DEF Held
  <2>4. /\ Len(writes') = Len(writes) - 1
        /\ writes' # <<>> => writes'[Len(writes')] = writes[Len(writes)]
    BY <1>1, <1>2, <2>1, WithoutFirst
  <2>5. CASE writes' = <<>>
    <3>1. Len(writes) = 1
      BY <1>1, <2>4, <2>5
    <3>2. writes[1] \in Words
      BY <1>1, <2>1
    <3> QED BY <2>1, <2>2, <2>3, <2>5, <3>1, <3>2 DEF StatusFollows, WriteStatus, Words
  <2>6. CASE writes' # <<>>
    BY <2>2, <2>3, <2>4, <2>6 DEF StatusFollows
  <2> QED BY <2>5, <2>6
<1> QED BY <1>6, <1>7 DEF StatusFollows
-----------------------------------------------------------------------------
LEMMA Start == Init => IInv
<1> SUFFICES ASSUME Init PROVE IInv
  OBVIOUS
<1>1. WireTypeOK
  BY ConnectionsAssumption DEF Init, WireInit, WireTypeOK, Unopened
<1>2. AtHome
  BY DEF Init, WireInit, AtHome, Unopened
<1>3. NewestIsHeld
  BY ConnectionsAssumption DEF Init, WireInit, NewestIsHeld, Home
<1>4. StatusTypeOK /\ StatusFollows
  BY EmptySeq DEF Init, StatusTypeOK, StatusFollows
<1> QED BY <1>1, <1>2, <1>3, <1>4 DEF IInv, WireInv

LEMMA Step ==
    ASSUME IInv, [Next]_vars
    PROVE  IInv'
<1>1. CASE Unannounced /\ UNCHANGED status
  <2>1. WireInv'
    BY <1>1, WireSteps DEF IInv
  <2>2. UNCHANGED <<nodes, db, writes, stale>>
    BY <1>1, QuietNodes DEF status
  <2> QED BY <2>1, <2>2 DEF IInv, StatusTypeOK, StatusFollows, Held
<1>2. ASSUME NEW s \in Sockets, Welcome(s) PROVE IInv'
  <2>1. WireInv'
    BY <1>2, Welcomes DEF IInv, Welcome
  <2>2. sock[s].at \in Hubs
    BY <1>2 DEF Welcome, HubWelcome, IInv, WireInv, AtHome
  <2>3. Held'
    BY <1>2, <2>2, ConnectionsAssumption DEF Welcome, HubWelcome, Held, IInv, WireInv, WireTypeOK, Sockets
  <2> QED BY <1>2, <2>1, <2>3, Announced DEF Welcome, IInv
<1>3. ASSUME NEW s \in Sockets, Close(s) PROVE IInv'
  <2>1. WireInv'
    BY <1>3, Closes DEF IInv, Close
  <2>2. CASE nodes' # nodes
    BY <1>3, <2>1, <2>2, Announced DEF Close, IInv
  <2>3. CASE nodes' = nodes
    BY <1>3, <2>1, <2>3 DEF Close, status, IInv, StatusTypeOK, StatusFollows, Held
  <2> QED BY <2>2, <2>3
<1>4. ASSUME NEW i \in Hubs, Crash(i) PROVE IInv'
  <2>1. WireInv'
    BY <1>4, Crashes DEF IInv, Crash
  <2> QED BY <1>4, <2>1 DEF Crash, IInv, StatusTypeOK, StatusFollows
<1>5. ASSUME NEW k \in 1..(2 * MaxSockets), WriteDone(k) PROVE IInv'
  <2>1. WireInv'
    BY <1>5 DEF WriteDone, wire, IInv, WireInv, AtHome, WireTypeOK, NewestIsHeld, Home
  <2> QED BY <1>5, <2>1, Written DEF IInv
<1>6. CASE Retire \/ Reenrol
  <2>1. WireInv'
    BY <1>6 DEF Retire, Reenrol, wire, IInv, WireInv, AtHome, WireTypeOK, NewestIsHeld, Home
  <2> QED BY <1>6, <2>1 DEF Retire, Reenrol, wire, IInv, StatusTypeOK, StatusFollows, Held
<1>7. CASE UNCHANGED vars
  BY <1>7 DEF vars, wire, status, IInv, WireInv, AtHome, WireTypeOK, NewestIsHeld, Home, StatusTypeOK,
     StatusFollows, Held
<1> QED BY <1>1, <1>2, <1>3, <1>4, <1>5, <1>6, <1>7 DEF Next
-----------------------------------------------------------------------------
(* The inductive invariant holds in every state a run reaches.             *)
THEOREM InductiveInvariant == Spec => []IInv
<1>1. Init => IInv
  BY Start
<1>2. IInv /\ [Next]_vars => IInv'
  BY Step
<1> QED BY <1>1, <1>2, PTL DEF Spec

(* The variables of the hubs, the worker and the status have their types.  *)
THEOREM TypeCorrect == Spec => []TypeOK
<1>1. IInv => TypeOK
  BY DEF IInv, WireInv, StatusTypeOK, TypeOK, Words
<1> QED BY <1>1, InductiveInvariant, PTL

(* However many instances, reconnections and late closes there are, a hub  *)
(* holds the newest connection that proved itself to it and no other.      *)
THEOREM NewestAlwaysHeld == Spec => []NewestIsHeld
<1>1. IInv => NewestIsHeld
  BY DEF IInv, WireInv
<1> QED BY <1>1, InductiveInvariant, PTL

(* compute_nodes.status agrees with the hubs whenever the presence writes  *)
(* are through and none of them went wrong.                                *)
THEOREM StatusTold == Spec => []StatusTellsPresence
<1>1. IInv => StatusTellsPresence
  BY DEF IInv, StatusFollows, StatusTellsPresence, Held
<1> QED BY <1>1, InductiveInvariant, PTL

(* Only enrolling a retired node again takes it out of draining.           *)
THEOREM RetirementStays == Spec => RetiredStays
<1>1. [Next]_vars => [db = "draining" /\ db' # db => Reenrol]_vars
  <2> SUFFICES ASSUME Next, db = "draining", db' # db PROVE Reenrol
    OBVIOUS
  <2> QED BY DEF Next, status, Welcome, Close, Crash, Write, WriteDone, WriteStatus, Retire
<1> QED BY <1>1, PTL DEF Spec, RetiredStays

-----------------------------------------------------------------------------
(***************************************************************************)
(* The observer of ClusterPresence, on the same wire.                      *)
(***************************************************************************)
(* Unless something went wrong: the last word of a hub that is under way   *)
(* is what the hub holds; a hub that has the latest connection was         *)
(* believed, will be, or still owes its snapshot; and an observer that     *)
(* believes a hub without the node has yet to hear of it, or of another.   *)
News == [online : BOOLEAN]
LastWordHolds == ~confused =>
    \A i \in Hubs : chan[i] # <<>> => (chan[i][Len(chan[i])].online <=> nodes[i] # None)
LatestReaches == ~confused /\ latest # None /\ sock[latest].hub = "authed" =>
    \/ Home(latest) \in asked \/ owner = Home(latest)
    \/ chan[Home(latest)] # <<>>
Hears == \E i \in Hubs : \E k \in DOMAIN chan[i] : chan[i][k].online
OwnerHasOrHears == ~confused /\ owner # None /\ nodes[owner] = None =>
    chan[owner] # <<>> \/ Hears

ChannelTypeOK ==
    /\ chan \in [Hubs -> Seq(News)] /\ owner \in Hubs \cup {None}
    /\ asked \subseteq Hubs /\ confused \in BOOLEAN
KnownInv == ChannelTypeOK /\ LastWordHolds /\ LatestReaches /\ OwnerHasOrHears
ClusterInv == WireInv /\ KnownInv

(* What tells nobody makes no connection the latest or proves one.         *)
LEMMA QuietLatest ==
    ASSUME WireInv, Unannounced
    PROVE  /\ UNCHANGED <<nodes, latest>>
           /\ latest # None /\ sock'[latest].hub = "authed" =>
                sock[latest].hub = "authed" /\ sock'[latest].at = sock[latest].at
<1>1. UNCHANGED <<nodes, latest>>
  BY DEF Unannounced, WorkerConnect, SweepStale, HubChallenge, AuthTimeout, LinkLost, WorkerWelcomed,
     Heartbeat, WorkerLosesSocket, CleanClose, BackoffEnds, WorkerStops, WorkerStarts
<1> SUFFICES ASSUME latest # None, sock'[latest].hub = "authed"
             PROVE  sock[latest].hub = "authed" /\ sock'[latest].at = sock[latest].at
  BY <1>1
<1>2. latest \in Sockets /\ sock \in [Sockets -> SocketType]
  BY DEF WireInv, WireTypeOK, SocketType
<1>3. ASSUME NEW i \in Hubs, NEW s \in Sockets, WorkerConnect(i, s)
      PROVE  sock'[latest] = sock[latest]
  BY <1>2, <1>3 DEF WorkerConnect
<1>4. ASSUME NEW i \in Hubs, SweepStale(i)
      PROVE  sock'[latest].hub = sock[latest].hub /\ sock'[latest].at = sock[latest].at
  BY <1>2, <1>4 DEF SweepStale, Counted
<1>5. ASSUME NEW s \in Sockets, HubChallenge(s) \/ AuthTimeout(s) \/ LinkLost(s)
      PROVE  sock[latest].hub = "authed" /\ sock'[latest].at = sock[latest].at
  BY <1>2, <1>5 DEF HubChallenge, AuthTimeout, LinkLost, With
<1>6. ASSUME WorkerWelcomed \/ Heartbeat \/ WorkerLosesSocket \/ CleanClose \/ BackoffEnds
             \/ WorkerStops \/ WorkerStarts
      PROVE  sock'[latest].hub = sock[latest].hub /\ sock'[latest].at = sock[latest].at
  BY <1>2, <1>6 DEF WorkerWelcomed, Heartbeat, WorkerLosesSocket, CleanClose, BackoffEnds,
     WorkerStops, WorkerStarts, Counted, With
<1> QED BY <1>3, <1>4, <1>5, <1>6 DEF Unannounced

LEMMA HomeOf ==
    ASSUME WireInv, latest # None
    PROVE  /\ latest \in Sockets /\ Home(latest) = sock[latest].at
           /\ sock[latest].hub = "authed" =>
                Home(latest) \in Hubs /\ nodes[Home(latest)] = latest
<1>1. latest \in Sockets /\ Home(latest) = sock[latest].at
  BY DEF WireInv, WireTypeOK, Home
<1>2. sock[latest].hub = "authed" => Home(latest) \in Hubs
  BY <1>1 DEF WireInv, AtHome
<1> QED BY <1>1, <1>2 DEF WireInv, NewestIsHeld

(* A hub adds a word to what it has under way.                             *)
LEMMA Spoken ==
    ASSUME ChannelTypeOK, NEW i \in Hubs, NEW online \in BOOLEAN,
           chan' = [chan EXCEPT ![i] = Append(@, [online |-> online])]
    PROVE  /\ chan' \in [Hubs -> Seq(News)]
           /\ \A j \in Hubs \ {i} : chan'[j] = chan[j]
           /\ chan'[i] # <<>> /\ (chan'[i][Len(chan'[i])].online <=> online)
           /\ Hears => Hears'
           /\ online => Hears'
<1> DEFINE w == [online |-> online]
<1>1. chan[i] \in Seq(News) /\ w \in News /\ chan'[i] = Append(chan[i], w)
  BY DEF ChannelTypeOK, News
<1>2. /\ chan'[i] \in Seq(News) /\ chan'[i] # <<>> /\ Len(chan'[i]) = Len(chan[i]) + 1
      /\ \A k \in 1..Len(chan[i]) : chan'[i][k] = chan[i][k]
      /\ chan'[i][Len(chan[i]) + 1] = w
  BY <1>1, AppendProperties
<1>3. \A j \in Hubs \ {i} : chan'[j] = chan[j]
  BY DEF ChannelTypeOK
<1>4. chan' \in [Hubs -> Seq(News)]
  BY <1>2 DEF ChannelTypeOK
<1>5. /\ Len(chan[i]) \in Nat /\ DOMAIN chan[i] = 1..Len(chan[i])
      /\ DOMAIN chan'[i] = 1..Len(chan'[i])
  BY <1>1, <1>2, LenProperties
<1>6. Hears => Hears'
  <2> SUFFICES ASSUME NEW j \in Hubs, NEW k \in DOMAIN chan[j], chan[j][k].online
               PROVE  Hears'
    BY DEF Hears
  <2>1. CASE j = i
    <3>1. k \in DOMAIN chan'[i] /\ chan'[i][k] = chan[i][k]
      BY <2>1, <1>2, <1>5
    <3> QED BY <2>1, <3>1 DEF Hears
  <2>2. CASE j # i
    BY <2>2, <1>3 DEF Hears
  <2> QED BY <2>1, <2>2
<1>7. online => Hears'
  <2>1. Len(chan'[i]) \in DOMAIN chan'[i] /\ chan'[i][Len(chan'[i])] = w
    BY <1>2, <1>5
  <2> QED BY <2>1 DEF Hears
<1>8. chan'[i][Len(chan'[i])].online <=> online
  BY <1>2
<1> QED BY <1>2, <1>3, <1>4, <1>6, <1>7, <1>8

(* The observer takes one word; the rest stays under way.                  *)
LEMMA WithoutHead ==
    ASSUME NEW q \in Seq(News), NEW rest \in Seq(News), q # <<>>, Len(rest) = Len(q) - 1,
           \A k \in 1..Len(rest) : rest[k] = q[k + 1]
    PROVE  /\ rest # <<>> => rest[Len(rest)] = q[Len(q)]
           /\ rest = <<>> => Len(q) = 1
           /\ \A k \in DOMAIN q : k # 1 => k - 1 \in DOMAIN rest /\ rest[k - 1] = q[k]
<1>1. /\ Len(q) \in Nat /\ Len(rest) \in Nat
      /\ DOMAIN q = 1..Len(q) /\ DOMAIN rest = 1..Len(rest)
  BY LenProperties
<1>2. Len(rest) = 0 <=> rest = <<>>
  BY EmptySeq
<1>3. Len(q) = Len(rest) + 1
  BY <1>1
<1>4. Len(rest) # 0 => Len(rest) \in 1..Len(rest)
  BY <1>1
<1>5. \A k \in 1..Len(q) : k # 1 => k - 1 \in 1..Len(rest) /\ k - 1 + 1 = k
  BY <1>1, <1>3
<1>6. \A k \in DOMAIN q : k # 1 => k - 1 \in DOMAIN rest /\ rest[k - 1] = q[k]
  BY <1>1, <1>5
<1> QED BY <1>2, <1>3, <1>4, <1>6

LEMMA Taken ==
    ASSUME ChannelTypeOK, NEW i \in Hubs, chan[i] # <<>>,
           chan' = [chan EXCEPT ![i] = Tail(@)]
    PROVE  /\ chan' \in [Hubs -> Seq(News)]
           /\ \A j \in Hubs \ {i} : chan'[j] = chan[j]
           /\ chan'[i] # <<>> => chan'[i][Len(chan'[i])] = chan[i][Len(chan[i])]
           /\ chan'[i] = <<>> => Head(chan[i]) = chan[i][Len(chan[i])]
           /\ Hears /\ ~Head(chan[i]).online => Hears'
<1>1. chan[i] \in Seq(News) /\ chan'[i] = Tail(chan[i]) /\ Head(chan[i]) = chan[i][1]
  BY DEF ChannelTypeOK
<1>2. \A q \in Seq(News) : q # <<>> =>
        /\ Tail(q) \in Seq(News) /\ Len(Tail(q)) = Len(q) - 1
        /\ \A k \in 1..Len(Tail(q)) : Tail(q)[k] = q[k + 1]
  BY HeadTailProperties
<1>3. /\ chan'[i] \in Seq(News) /\ Len(chan'[i]) = Len(chan[i]) - 1
      /\ \A k \in 1..Len(chan'[i]) : chan'[i][k] = chan[i][k + 1]
  BY <1>1, <1>2, Zenon
<1>4. /\ chan'[i] # <<>> => chan'[i][Len(chan'[i])] = chan[i][Len(chan[i])]
      /\ chan'[i] = <<>> => Len(chan[i]) = 1
      /\ \A k \in DOMAIN chan[i] :
            k # 1 => k - 1 \in DOMAIN chan'[i] /\ chan'[i][k - 1] = chan[i][k]
  BY <1>1, <1>3, WithoutHead
<1>5. /\ chan' \in [Hubs -> Seq(News)]
      /\ \A j \in Hubs \ {i} : chan'[j] = chan[j]
  BY <1>3 DEF ChannelTypeOK
<1>6. ASSUME Hears, ~Head(chan[i]).online PROVE Hears'
  <2> PICK j \in Hubs : \E k \in DOMAIN chan[j] : chan[j][k].online
    BY <1>6 DEF Hears
  <2>1. PICK k \in DOMAIN chan[j] : chan[j][k].online
    OBVIOUS
  <2>2. CASE j = i
    <3>1. k # 1
      BY <1>6, <2>1, <2>2, <1>1
    <3>2. k - 1 \in DOMAIN chan'[i] /\ chan'[i][k - 1].online
      BY <3>1, <2>1, <2>2, <1>4
    <3> QED BY <3>2 DEF Hears
  <2>3. CASE j # i
    BY <2>1, <2>3, <1>5 DEF Hears
  <2> QED BY <2>2, <2>3
<1> QED BY <1>1, <1>4, <1>5, <1>6

(* What the observer knows stands when only the wire moves.                *)
LEMMA KnownQuietly ==
    ASSUME ClusterInv, Unannounced, UNCHANGED <<chan, owner, asked, confused>>
    PROVE  ClusterInv'
<1>1. WireInv'
  BY WireSteps DEF ClusterInv
<1>2. /\ UNCHANGED <<nodes, latest>>
      /\ latest # None /\ sock'[latest].hub = "authed" =>
           sock[latest].hub = "authed" /\ sock'[latest].at = sock[latest].at
  BY QuietLatest DEF ClusterInv
<1>3. LatestReaches'
  <2> SUFFICES ASSUME ~confused, latest # None, sock'[latest].hub = "authed"
               PROVE  \/ sock'[latest].at \in asked \/ owner = sock'[latest].at
                      \/ chan[sock'[latest].at] # <<>>
    BY <1>2 DEF LatestReaches, Home
  <2>1. sock[latest].hub = "authed" /\ sock'[latest].at = sock[latest].at
    BY <1>2
  <2> QED BY <2>1 DEF ClusterInv, KnownInv, LatestReaches, Home
<1>4. (ChannelTypeOK /\ LastWordHolds /\ OwnerHasOrHears)'
  BY <1>2 DEF ClusterInv, KnownInv, ChannelTypeOK, LastWordHolds, OwnerHasOrHears, Hears
<1> QED BY <1>1, <1>3, <1>4 DEF ClusterInv, KnownInv

LEMMA ObserverWelcomes ==
    ASSUME ClusterInv, NEW s \in Sockets, ClusterWelcome(s)
    PROVE  ClusterInv'
<1> DEFINE i == sock[s].at
<1>1. HubWelcome(s) /\ Broadcast(i, TRUE)
  BY DEF ClusterWelcome
<1>2. WireInv'
  BY <1>1, Welcomes DEF ClusterInv
<1>3. /\ i \in Hubs /\ latest' = s /\ nodes' = [nodes EXCEPT ![i] = s]
      /\ sock'[s].at = i /\ s # None
  <2>1. sock[s].hub = "challenged" /\ latest' = s /\ nodes' = [nodes EXCEPT ![i] = s]
    BY <1>1 DEF HubWelcome
  <2>2. sock'[s] = With(s, "authed", sock[s].link)
    BY <1>1 DEF HubWelcome
  <2>3. i \in Hubs
    BY <2>1 DEF ClusterInv, WireInv, AtHome
  <2> QED BY <2>1, <2>2, <2>3, ConnectionsAssumption DEF With, Sockets
<1>4. /\ nodes'[i] = s /\ \A j \in Hubs \ {i} : nodes'[j] = nodes[j]
  BY <1>3 DEF ClusterInv, WireInv, WireTypeOK
<1>5. /\ chan' \in [Hubs -> Seq(News)]
      /\ \A j \in Hubs \ {i} : chan'[j] = chan[j]
      /\ chan'[i] # <<>> /\ chan'[i][Len(chan'[i])].online
      /\ Hears'
  <2>1. chan' = [chan EXCEPT ![i] = Append(@, [online |-> TRUE])]
    BY <1>1 DEF Broadcast
  <2> HIDE DEF i
  <2> QED BY <2>1, <1>3, Spoken DEF ClusterInv, KnownInv
<1>6. /\ UNCHANGED <<owner, asked>> /\ confused' \in BOOLEAN
      /\ ~confused' => ~confused \/ \A j \in Hubs : chan[j] = <<>>
  BY <1>1 DEF Broadcast, ClusterInv, KnownInv, ChannelTypeOK
<1>7. ChannelTypeOK'
  BY <1>5, <1>6 DEF ClusterInv, KnownInv, ChannelTypeOK
<1>8. LastWordHolds'
  <2> SUFFICES ASSUME ~confused', NEW j \in Hubs, chan'[j] # <<>>
               PROVE  chan'[j][Len(chan'[j])].online <=> nodes'[j] # None
    BY DEF LastWordHolds
  <2>1. CASE j = i
    BY <2>1, <1>3, <1>4, <1>5
  <2>2. CASE j # i
    <3>1. chan'[j] = chan[j] /\ nodes'[j] = nodes[j] /\ ~confused
      BY <2>2, <1>4, <1>5, <1>6
    <3> QED BY <3>1 DEF ClusterInv, KnownInv, LastWordHolds
  <2> QED BY <2>1, <2>2
<1>9. LatestReaches'
  BY <1>3, <1>5 DEF LatestReaches, Home
<1>10. OwnerHasOrHears'
  BY <1>5 DEF OwnerHasOrHears
<1> QED BY <1>2, <1>7, <1>8, <1>9, <1>10 DEF ClusterInv, KnownInv

LEMMA ObserverCloses ==
    ASSUME ClusterInv, NEW s \in Sockets, ClusterClose(s)
    PROVE  ClusterInv'
<1> DEFINE i == sock[s].at
<1>1. HubClosed(s)
  BY DEF ClusterClose
<1>2. WireInv'
  BY <1>1, Closes DEF ClusterInv
<1>3. i \in Hubs /\ latest' = latest /\ sock' = [sock EXCEPT ![s] = With(s, "closed", "gone")]
      /\ nodes' = IF sock[s].hub = "authed" /\ nodes[i] = s
                  THEN [nodes EXCEPT ![i] = None] ELSE nodes
  BY <1>1 DEF HubClosed, CloseTakes, ClusterInv, WireInv, AtHome
<1>4. latest # None /\ sock'[latest].hub = "authed" =>
        sock[latest].hub = "authed" /\ Home(latest)' = Home(latest)
  <2> SUFFICES ASSUME latest # None, sock'[latest].hub = "authed"
               PROVE  sock[latest].hub = "authed" /\ Home(latest)' = Home(latest)
    OBVIOUS
  <2>1. sock'[s].hub = "closed" /\ latest \in Sockets
    BY <1>3, HomeOf DEF With, ClusterInv, WireInv, WireTypeOK
  <2>2. sock'[latest] = sock[latest]
    BY <2>1, <1>3 DEF ClusterInv, WireInv, WireTypeOK
  <2> QED BY <2>2, <1>3 DEF Home
<1>5. CASE nodes' # nodes
  <2>1. nodes'[i] = None /\ nodes[i] # None /\ \A j \in Hubs \ {i} : nodes'[j] = nodes[j]
    BY <1>3, <1>5, ConnectionsAssumption DEF ClusterInv, WireInv, WireTypeOK, Sockets
  <2>2. Broadcast(i, FALSE)
    BY <1>5 DEF ClusterClose
  <2>3. /\ chan' \in [Hubs -> Seq(News)]
        /\ \A j \in Hubs \ {i} : chan'[j] = chan[j]
        /\ chan'[i] # <<>> /\ ~chan'[i][Len(chan'[i])].online
        /\ Hears => Hears'
    <3>1. chan' = [chan EXCEPT ![i] = Append(@, [online |-> FALSE])]
      BY <2>2 DEF Broadcast
    <3> HIDE DEF i
    <3> QED BY <3>1, <1>3, Spoken DEF ClusterInv, KnownInv
  <2>4. UNCHANGED <<owner, asked>> /\ confused' = confused
    BY <2>2 DEF Broadcast, ClusterInv, KnownInv, ChannelTypeOK
  <2>5. ChannelTypeOK'
    BY <2>3, <2>4 DEF ClusterInv, KnownInv, ChannelTypeOK
  <2>6. LastWordHolds'
    <3> SUFFICES ASSUME ~confused', NEW j \in Hubs, chan'[j] # <<>>
                 PROVE  chan'[j][Len(chan'[j])].online <=> nodes'[j] # None
      BY DEF LastWordHolds
    <3>1. CASE j = i
      BY <3>1, <2>1, <2>3
    <3>2. CASE j # i
      <4>1. chan'[j] = chan[j] /\ nodes'[j] = nodes[j] /\ ~confused
        BY <3>2, <2>1, <2>3, <2>4
      <4> QED BY <4>1 DEF ClusterInv, KnownInv, LastWordHolds
    <3> QED BY <3>1, <3>2
  <2>7. LatestReaches'
    <3> SUFFICES ASSUME ~confused', latest # None, sock'[latest].hub = "authed"
                 PROVE  \/ Home(latest)' \in asked' \/ owner' = Home(latest)'
                        \/ chan'[Home(latest)'] # <<>>
      BY <1>3 DEF LatestReaches, Home
    <3>1. /\ Home(latest)' = Home(latest) /\ Home(latest) \in Hubs
          /\ Home(latest) \in asked \/ owner = Home(latest) \/ chan[Home(latest)] # <<>>
      BY <1>4, <2>4, HomeOf DEF ClusterInv, KnownInv, LatestReaches
    <3> QED BY <3>1, <2>3, <2>4
  <2>8. OwnerHasOrHears'
    <3> SUFFICES ASSUME ~confused', owner # None, nodes'[owner] = None
                 PROVE  chan'[owner] # <<>> \/ Hears'
      BY <2>4 DEF OwnerHasOrHears
    <3>1. owner \in Hubs
      BY DEF ClusterInv, KnownInv, ChannelTypeOK
    <3>2. CASE owner = i
      BY <3>2, <2>3
    <3>3. CASE owner # i
      <4>1. chan'[owner] = chan[owner] /\ nodes'[owner] = nodes[owner]
        BY <3>1, <3>3, <2>1, <2>3
      <4> QED BY <4>1, <2>3, <2>4 DEF ClusterInv, KnownInv, OwnerHasOrHears
    <3> QED BY <3>2, <3>3
  <2> QED BY <1>2, <2>5, <2>6, <2>7, <2>8 DEF ClusterInv, KnownInv
<1>6. CASE nodes' = nodes
  <2>1. UNCHANGED <<chan, owner, asked, confused>>
    BY <1>6 DEF ClusterClose, cluster
  <2>2. LatestReaches'
    <3> SUFFICES ASSUME ~confused, latest # None, sock'[latest].hub = "authed"
                 PROVE  \/ Home(latest)' \in asked \/ owner = Home(latest)'
                        \/ chan[Home(latest)'] # <<>>
      BY <1>3, <2>1 DEF LatestReaches, Home
    <3> QED BY <1>4 DEF ClusterInv, KnownInv, LatestReaches
  <2>3. (ChannelTypeOK /\ LastWordHolds /\ OwnerHasOrHears)'
    BY <1>6, <2>1 DEF ClusterInv, KnownInv, ChannelTypeOK, LastWordHolds, OwnerHasOrHears, Hears
  <2> QED BY <1>2, <2>2, <2>3 DEF ClusterInv, KnownInv
<1> QED BY <1>5, <1>6

(* A word that is lost, or a hub that dies, makes no claim.                *)
LEMMA ObserverCrash ==
    ASSUME ClusterInv, NEW i \in Hubs, ClusterCrash(i)
    PROVE  ClusterInv'
<1>1. HubCrash(i) /\ asked' = asked \ {i} /\ confused' = TRUE /\ UNCHANGED <<chan, owner>>
  BY DEF ClusterCrash
<1>2. WireInv'
  BY <1>1, Crashes DEF ClusterInv
<1> QED BY <1>1, <1>2 DEF ClusterInv, KnownInv, ChannelTypeOK, LastWordHolds, LatestReaches,
    OwnerHasOrHears

LEMMA ObserverMisses ==
    ASSUME ClusterInv, NEW i \in Hubs, BroadcastLost(i)
    PROVE  ClusterInv'
<1>1. /\ chan[i] # <<>> /\ chan' = [chan EXCEPT ![i] = Tail(@)] /\ confused' = TRUE
      /\ UNCHANGED <<wire, owner, asked>>
  BY DEF BroadcastLost, wire
<1>2. chan' \in [Hubs -> Seq(News)]
  BY <1>1, Taken DEF ClusterInv, KnownInv
<1>3. WireInv'
  BY <1>1 DEF wire, ClusterInv, WireInv, AtHome, WireTypeOK, NewestIsHeld, Home
<1> QED BY <1>1, <1>2, <1>3 DEF ClusterInv, KnownInv, ChannelTypeOK, LastWordHolds, LatestReaches,
    OwnerHasOrHears

LEMMA ObserverHears ==
    ASSUME ClusterInv, NEW i \in Hubs, Deliver(i)
    PROVE  ClusterInv'
<1> DEFINE w == Head(chan[i])
<1>1. /\ chan[i] # <<>> /\ chan' = [chan EXCEPT ![i] = Tail(@)]
      /\ IF w.online
         THEN owner' = i /\ confused' = (confused \/ (owner \notin {None, i} /\ owner = Home(latest)))
         ELSE owner' = (IF owner = i THEN None ELSE owner) /\ confused' = confused
      /\ UNCHANGED <<wire, asked>>
  BY DEF Deliver, Overtakes, ForgetOffline, wire
<1>2. WireInv'
  BY <1>1 DEF wire, ClusterInv, WireInv, AtHome, WireTypeOK, NewestIsHeld, Home
<1>3. /\ chan' \in [Hubs -> Seq(News)]
      /\ \A j \in Hubs \ {i} : chan'[j] = chan[j]
      /\ chan'[i] # <<>> => chan'[i][Len(chan'[i])] = chan[i][Len(chan[i])]
      /\ chan'[i] = <<>> => w = chan[i][Len(chan[i])]
      /\ Hears /\ ~w.online => Hears'
  BY <1>1, Taken DEF ClusterInv, KnownInv
<1> HIDE DEF w
<1>4. /\ UNCHANGED <<nodes, latest, asked>> /\ sock' = sock /\ Home(latest)' = Home(latest)
      /\ ~confused' => ~confused
      /\ ~w.online => confused' = confused
  BY <1>1 DEF wire, Home, ClusterInv, KnownInv, ChannelTypeOK
<1>5. ChannelTypeOK'
  <2>1. confused' \in BOOLEAN
    BY <1>1 DEF ClusterInv, KnownInv, ChannelTypeOK
  <2>2. owner' \in Hubs \cup {None} /\ asked' \subseteq Hubs
    BY <1>1 DEF ClusterInv, KnownInv, ChannelTypeOK
  <2> QED BY <2>1, <2>2, <1>3 DEF ChannelTypeOK
<1>6. ~confused => (chan[i][Len(chan[i])].online <=> nodes[i] # None)
  BY <1>1 DEF ClusterInv, KnownInv, LastWordHolds
<1>7. LastWordHolds'
  <2> SUFFICES ASSUME ~confused', NEW j \in Hubs, chan'[j] # <<>>
               PROVE  chan'[j][Len(chan'[j])].online <=> nodes[j] # None
    BY <1>4 DEF LastWordHolds
  <2>1. CASE j = i
    BY <2>1, <1>3, <1>4, <1>6
  <2>2. CASE j # i
    BY <2>2, <1>3, <1>4 DEF ClusterInv, KnownInv, LastWordHolds
  <2> QED BY <2>1, <2>2
<1>8. LatestReaches'
  <2> SUFFICES ASSUME ~confused', latest # None, sock[latest].hub = "authed"
               PROVE  \/ Home(latest) \in asked \/ owner' = Home(latest)
                      \/ chan'[Home(latest)] # <<>>
    BY <1>4 DEF LatestReaches
  <2>1. /\ Home(latest) \in Hubs /\ Home(latest) # None /\ nodes[Home(latest)] # None
        /\ Home(latest) \in asked \/ owner = Home(latest) \/ chan[Home(latest)] # <<>>
    BY <1>4, HomeOf, ConnectionsAssumption DEF ClusterInv, KnownInv, LatestReaches, Sockets
  <2>2. CASE Home(latest) = i
    <3>1. CASE w.online
      BY <3>1, <2>2, <1>1
    <3>2. CASE ~w.online
      BY <3>2, <2>1, <2>2, <1>3, <1>4, <1>6
    <3> QED BY <3>1, <3>2
  <2>3. CASE Home(latest) # i
    <3>1. chan'[Home(latest)] = chan[Home(latest)]
      BY <2>1, <2>3, <1>3
    <3>2. owner = Home(latest) => owner' = owner
      BY <2>1, <2>3, <1>1
    <3> QED BY <3>1, <3>2, <2>1
  <2> QED BY <2>2, <2>3
<1>9. OwnerHasOrHears'
  <2> SUFFICES ASSUME ~confused', owner' # None, nodes[owner'] = None
               PROVE  chan'[owner'] # <<>> \/ Hears'
    BY <1>4 DEF OwnerHasOrHears
  <2>1. CASE w.online
    BY <2>1, <1>1, <1>3, <1>4, <1>6
  <2>2. CASE ~w.online
    <3>1. owner' = owner /\ owner # i /\ owner \in Hubs
      BY <2>2, <1>1 DEF ClusterInv, KnownInv, ChannelTypeOK
    <3>2. chan[owner] # <<>> \/ Hears
      BY <3>1, <1>4 DEF ClusterInv, KnownInv, OwnerHasOrHears
    <3> QED BY <3>1, <3>2, <2>2, <1>3
  <2> QED BY <2>1, <2>2
<1> QED BY <1>2, <1>5, <1>7, <1>8, <1>9 DEF ClusterInv, KnownInv

LEMMA ObserverStarts ==
    ASSUME ClusterInv, ObserverRestarts
    PROVE  ClusterInv'
<1>1. /\ owner' = None /\ chan' = [i \in Hubs |-> <<>>] /\ asked' = Hubs /\ confused' = FALSE
      /\ UNCHANGED wire
  BY DEF ObserverRestarts, wire
<1>2. WireInv'
  BY <1>1 DEF wire, ClusterInv, WireInv, AtHome, WireTypeOK, NewestIsHeld, Home
<1>3. ChannelTypeOK'
  BY <1>1, EmptySeq DEF ChannelTypeOK
<1>4. LatestReaches'
  <2> SUFFICES ASSUME latest # None, sock[latest].hub = "authed"
               PROVE  Home(latest)' \in Hubs
    BY <1>1 DEF LatestReaches, wire
  <2> QED BY <1>1, HomeOf DEF ClusterInv, Home, wire
<1>5. LastWordHolds' /\ OwnerHasOrHears'
  BY <1>1 DEF LastWordHolds, OwnerHasOrHears
<1> QED BY <1>2, <1>3, <1>4, <1>5 DEF ClusterInv, KnownInv

LEMMA ObserverIsTold ==
    ASSUME ClusterInv, NEW i \in Hubs, SnapshotReply(i)
    PROVE  ClusterInv'
<1>1. /\ asked' = asked \ {i} /\ UNCHANGED <<wire, owner, confused>>
      /\ chan' = IF nodes[i] = None THEN chan
                 ELSE [chan EXCEPT ![i] = Append(@, [online |-> TRUE])]
  BY DEF SnapshotReply, wire
<1>2. WireInv'
  BY <1>1 DEF wire, ClusterInv, WireInv, AtHome, WireTypeOK, NewestIsHeld, Home
<1>3. /\ chan' \in [Hubs -> Seq(News)]
      /\ \A j \in Hubs \ {i} : chan'[j] = chan[j]
      /\ nodes[i] = None => chan'[i] = chan[i]
      /\ nodes[i] # None => chan'[i] # <<>> /\ chan'[i][Len(chan'[i])].online
      /\ Hears => Hears'
  <2>1. CASE nodes[i] = None
    BY <2>1, <1>1 DEF ClusterInv, KnownInv, ChannelTypeOK, Hears
  <2>2. CASE nodes[i] # None
    <3>1. chan' = [chan EXCEPT ![i] = Append(@, [online |-> TRUE])]
      BY <2>2, <1>1
    <3> QED BY <2>2, <3>1, Spoken DEF ClusterInv, KnownInv
  <2> QED BY <2>1, <2>2
<1>4. UNCHANGED <<sock, nodes, latest, owner, confused>> /\ Home(latest)' = Home(latest)
  BY <1>1 DEF wire, Home
<1>5. ChannelTypeOK'
  BY <1>1, <1>3, <1>4 DEF ClusterInv, KnownInv, ChannelTypeOK
<1>6. LastWordHolds'
  <2> SUFFICES ASSUME ~confused, NEW j \in Hubs, chan'[j] # <<>>
               PROVE  chan'[j][Len(chan'[j])].online <=> nodes[j] # None
    BY <1>4 DEF LastWordHolds
  <2>1. CASE chan'[j] = chan[j]
    BY <2>1 DEF ClusterInv, KnownInv, LastWordHolds
  <2>2. CASE j = i /\ nodes[i] # None
    BY <2>2, <1>3
  <2> QED BY <2>1, <2>2, <1>3
<1>7. LatestReaches'
  <2> SUFFICES ASSUME ~confused, latest # None, sock[latest].hub = "authed"
               PROVE  \/ Home(latest) \in asked' \/ owner = Home(latest)
                      \/ chan'[Home(latest)] # <<>>
    BY <1>4 DEF LatestReaches
  <2>1. /\ Home(latest) \in Hubs /\ nodes[Home(latest)] # None
        /\ Home(latest) \in asked \/ owner = Home(latest) \/ chan[Home(latest)] # <<>>
    BY HomeOf, ConnectionsAssumption DEF ClusterInv, KnownInv, LatestReaches, Sockets
  <2>2. CASE Home(latest) = i
    BY <2>1, <2>2, <1>3
  <2>3. CASE Home(latest) # i
    BY <2>1, <2>3, <1>1, <1>3
  <2> QED BY <2>2, <2>3
<1>8. OwnerHasOrHears'
  <2> SUFFICES ASSUME ~confused, owner # None, nodes[owner] = None
               PROVE  chan'[owner] # <<>> \/ Hears'
    BY <1>4 DEF OwnerHasOrHears
  <2>1. owner \in Hubs /\ (chan[owner] # <<>> \/ Hears)
    BY DEF ClusterInv, KnownInv, ChannelTypeOK, OwnerHasOrHears
  <2>2. chan'[owner] = chan[owner]
    BY <2>1, <1>3
  <2> QED BY <2>1, <2>2, <1>3
<1> QED BY <1>2, <1>5, <1>6, <1>7, <1>8 DEF ClusterInv, KnownInv

LEMMA ClusterStart == ClusterInit => ClusterInv
<1> SUFFICES ASSUME ClusterInit PROVE ClusterInv
  OBVIOUS
<1>1. /\ WireInit /\ chan = [i \in Hubs |-> <<>>] /\ owner = None /\ asked = {}
      /\ confused = FALSE /\ latest = None
  BY DEF ClusterInit, WireInit
<1>2. WireInv
  <2>1. WireTypeOK
    BY <1>1, ConnectionsAssumption DEF WireInit, WireTypeOK, Unopened
  <2>2. AtHome
    BY <1>1 DEF WireInit, AtHome, Unopened
  <2>3. NewestIsHeld
    <3> SUFFICES ASSUME NEW i \in Hubs
                 PROVE  nodes[i] = None /\ Home(latest) # i
      BY DEF NewestIsHeld
    <3>1. nodes[i] = None
      BY <1>1 DEF WireInit
    <3>2. Home(latest) = None
      BY <1>1 DEF Home
    <3> QED BY <3>1, <3>2, ConnectionsAssumption
  <2> QED BY <2>1, <2>2, <2>3 DEF WireInv
<1>3. ChannelTypeOK
  BY <1>1, EmptySeq DEF ChannelTypeOK
<1>4. LastWordHolds /\ LatestReaches /\ OwnerHasOrHears
  BY <1>1 DEF LastWordHolds, LatestReaches, OwnerHasOrHears
<1> QED BY <1>2, <1>3, <1>4 DEF ClusterInv, KnownInv

LEMMA ClusterStep ==
    ASSUME ClusterInv, [ClusterNext]_clusterVars
    PROVE  ClusterInv'
<1>1. CASE Unannounced /\ UNCHANGED cluster
  BY <1>1, KnownQuietly DEF cluster
<1>2. ASSUME NEW s \in Sockets, ClusterWelcome(s) \/ ClusterClose(s)
      PROVE  ClusterInv'
  BY <1>2, ObserverWelcomes, ObserverCloses
<1>3. ASSUME NEW i \in Hubs, \/ ClusterCrash(i) \/ Deliver(i)
                             \/ BroadcastLost(i) \/ SnapshotReply(i)
      PROVE  ClusterInv'
  BY <1>3, ObserverCrash, ObserverHears, ObserverMisses, ObserverIsTold
<1>4. CASE ObserverRestarts
  BY <1>4, ObserverStarts
<1>5. CASE UNCHANGED clusterVars
  BY <1>5 DEF clusterVars, wire, cluster, ClusterInv, WireInv, AtHome, WireTypeOK,
     NewestIsHeld, Home, KnownInv, ChannelTypeOK, LastWordHolds, LatestReaches, OwnerHasOrHears, Hears
<1> QED BY <1>1, <1>2, <1>3, <1>4, <1>5 DEF ClusterNext

(* Every state the observer can reach keeps what it may rely on.           *)
THEOREM ClusterInvariant == ClusterSpec => []ClusterInv
<1> QED BY ClusterStart, ClusterStep, PTL DEF ClusterSpec

(* clusterRelay.js keeps its types, for any number of instances.           *)
THEOREM ClusterTypeCorrect == ClusterSpec => []ClusterTypeOK
<1>1. ClusterInv => ClusterTypeOK
  BY DEF ClusterInv, WireInv, KnownInv, ChannelTypeOK, News, ClusterTypeOK
<1> QED BY <1>1, ClusterInvariant, PTL

(* remoteOwner, once the broadcasts are in: the hub that welcomed the node *)
(* last, or one that has it, unless a broadcast was lost or overtaken or   *)
(* a hub died.                                                             *)
THEOREM RelayFindsTheNode == ClusterSpec => []OwnerIsCurrent
<1>1. ClusterInv => OwnerIsCurrent
  <2> SUFFICES ASSUME ClusterInv, \A i \in Hubs : chan[i] = <<>>, asked = {}, ~confused
               PROVE  IF latest # None /\ sock[latest].hub = "authed"
                      THEN owner = Home(latest)
                      ELSE owner # None => nodes[owner] # None
    BY DEF OwnerIsCurrent
  <2>1. ~Hears
    BY DEF Hears
  <2>2. latest # None /\ sock[latest].hub = "authed" => owner = Home(latest)
    BY HomeOf DEF ClusterInv, KnownInv, LatestReaches
  <2>3. owner # None => nodes[owner] # None
    BY <2>1 DEF ClusterInv, KnownInv, ChannelTypeOK, OwnerHasOrHears
  <2> QED BY <2>2, <2>3
<1> QED BY <1>1, ClusterInvariant, PTL
=============================================================================
