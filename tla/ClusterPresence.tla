-------------------------- MODULE ClusterPresence ---------------------------
(***************************************************************************)
(* ws/clusterRelay.js: what an instance the node is not connected to knows *)
(* of where it is.  Every presence event is broadcast; an instance that    *)
(* starts asks the others for a snapshot.  `owner` is remoteOwner at one   *)
(* such instance, the observer.                                            *)
(***************************************************************************)
EXTENDS Connections

VARIABLES
    chan,      \* broadcasts and snapshot replies of each hub to the observer
    owner,     \* remoteOwner at the observer
    asked,     \* hubs that still owe the observer a snapshot
    confused   \* history: a broadcast was lost, or an older overtook a newer

cluster == <<chan, owner, asked, confused>>
clusterVars == <<wire, cluster>>

ClusterInit == WireInit /\ chan = [i \in Hubs |-> <<>>] /\ owner = None /\ asked = {}
        /\ confused = FALSE

(* The wrapped _onPresence.  An 'online' that finds nothing else under way *)
(* sets right what went wrong before.                                      *)
Broadcast(i, online) ==
    /\ chan' = [chan EXCEPT ![i] = Append(@, [online |-> online])]
    /\ confused' = (confused /\ ~(online /\ \A j \in Hubs : chan[j] = <<>>))
    /\ UNCHANGED <<owner, asked>>

ClusterWelcome(s) == HubWelcome(s) /\ Broadcast(sock[s].at, TRUE)
ClusterClose(s) ==
    /\ HubClosed(s)
    /\ IF nodes' # nodes THEN Broadcast(sock[s].at, FALSE) ELSE UNCHANGED cluster
ClusterCrash(i) == /\ HubCrash(i)
            /\ asked' = asked \ {i} /\ confused' = TRUE
            /\ UNCHANGED <<chan, owner>>
-----------------------------------------------------------------------------
(* The observer handles a presence broadcast, or a snapshot reply, which   *)
(* names the nodes its sender holds.                                       *)
Overtakes(i) == owner \notin {None, i} /\ owner = Home(latest)
TakeOffline(i) == None                     \* mutant: whose word is not asked
ForgetOffline(i) == IF owner = i THEN None ELSE owner
Deliver(i) ==
    /\ chan[i] # <<>>
    /\ chan' = [chan EXCEPT ![i] = Tail(@)]
    /\ IF Head(chan[i]).online
       THEN owner' = i /\ confused' = (confused \/ Overtakes(i))
       ELSE owner' = ForgetOffline(i) /\ UNCHANGED confused
    /\ UNCHANGED <<wire, asked>>

BroadcastLost(i) ==
    /\ chan[i] # <<>>
    /\ chan' = [chan EXCEPT ![i] = Tail(@)]
    /\ confused' = TRUE
    /\ UNCHANGED <<wire, owner, asked>>

(* The observer is restarted, and asks everybody once it has subscribed.   *)
ObserverRestarts ==
    /\ owner' = None /\ chan' = [i \in Hubs |-> <<>>] /\ asked' = Hubs
    /\ confused' = FALSE
    /\ UNCHANGED wire

SnapshotReply(i) ==
    /\ i \in asked /\ asked' = asked \ {i}
    /\ chan' = IF nodes[i] = None THEN chan
               ELSE [chan EXCEPT ![i] = Append(@, [online |-> TRUE])]
    /\ UNCHANGED <<wire, owner, confused>>

-----------------------------------------------------------------------------
ClusterNext ==
    \/ Unannounced /\ UNCHANGED cluster
    \/ \E s \in Sockets : ClusterWelcome(s) \/ ClusterClose(s)
    \/ \E i \in Hubs : ClusterCrash(i) \/ Deliver(i) \/ BroadcastLost(i) \/ SnapshotReply(i)
    \/ ObserverRestarts

ClusterSpec == ClusterInit /\ [][ClusterNext]_clusterVars
-----------------------------------------------------------------------------
ClusterTypeOK ==
    /\ WireTypeOK
    /\ chan \in [Hubs -> Seq([online : BOOLEAN])]
    /\ owner \in Hubs \cup {None} /\ asked \subseteq Hubs
    /\ confused \in BOOLEAN

(* Once the broadcasts are in, an instance the node is not connected to    *)
(* relays to the hub that welcomed it last, or if that one is gone to none *)
(* or to one that has a socket -- unless a broadcast was lost or overtaken,*)
(* or the hub died.                                                        *)
OwnerIsCurrent ==
    (\A i \in Hubs : chan[i] = <<>>) /\ asked = {} /\ ~confused =>
        IF latest # None /\ sock[latest].hub = "authed"
        THEN owner = Home(latest)
        ELSE owner # None => nodes[owner] # None

=============================================================================
