------------------------------ MODULE Presence ------------------------------
(***************************************************************************)
(* compute_nodes.status, as the presence events of the hubs write it       *)
(* (api/server.js): each event sends an UPDATE that nobody awaits.         *)
(***************************************************************************)
EXTENDS Connections

VARIABLES
    db,        \* compute_nodes.status
    writes,    \* presence UPDATEs that are under way
    stale      \* history: a presence write was lost, overtaken or superseded

status == <<db, writes, stale>>
vars == <<wire, status>>

Init == WireInit /\ db = "enrolling" /\ writes = <<>> /\ stale = FALSE

(* onPresence, when _nodes changes.  A write that finds no other under way *)
(* sets right what went wrong before; an instance's 'offline' is wrong as  *)
(* long as another one has the node.                                       *)
Write(online) ==
    LET elsewhere == \E i \in Hubs : nodes'[i] # None IN
    /\ writes' = Append(writes, IF online THEN "online" ELSE "offline")
    /\ stale' = ((stale /\ writes # <<>>) \/ (~online /\ elsewhere))
    /\ UNCHANGED db

Welcome(s) == HubWelcome(s) /\ Write(TRUE)
CloseQuietly(s) == HubClosed(s) /\ UNCHANGED status   \* mutant: tells nobody
Close(s) ==
    /\ HubClosed(s)
    /\ IF nodes' # nodes THEN Write(FALSE) ELSE UNCHANGED status
Crash(i) == HubCrash(i) /\ stale' = TRUE /\ UNCHANGED <<db, writes>>
-----------------------------------------------------------------------------
WriteAnyStatus(w) == w                     \* mutant: AND status <> 'draining'
WriteStatus(w) == IF db = "draining" THEN db ELSE w

(* An UPDATE is done, in whatever order the pool's connections do them, or *)
(* fails and is caught.                                                    *)
WriteDone(k) ==
    /\ k \in DOMAIN writes
    /\ writes' = SubSeq(writes, 1, k - 1) \o SubSeq(writes, k + 1, Len(writes))
    /\ \/ db' = WriteStatus(writes[k]) /\ stale' = (stale \/ k # 1)
       \/ stale' = TRUE /\ UNCHANGED db
    /\ UNCHANGED wire

(* POST /nodes/:id/retire, and enrolling the retired key again.            *)
Retire ==
    /\ db # "draining" /\ db' = "draining"
    /\ UNCHANGED <<wire, writes, stale>>
Reenrol ==
    /\ db = "draining" /\ db' = "enrolling"
    /\ UNCHANGED <<wire, writes, stale>>
-----------------------------------------------------------------------------
Next ==
    \/ Unannounced /\ UNCHANGED status
    \/ \E s \in Sockets : Welcome(s) \/ Close(s)
    \/ \E i \in Hubs : Crash(i)
    \/ \E k \in 1..(2 * MaxSockets) : WriteDone(k)
    \/ Retire \/ Reenrol

Spec == Init /\ [][Next]_vars /\ WireFairness
-----------------------------------------------------------------------------
TypeOK ==
    /\ WireTypeOK
    /\ db \in {"enrolling", "online", "offline", "draining"}
    /\ writes \in Seq({"online", "offline"})
    /\ stale \in BOOLEAN

(* compute_nodes.status, which search and the catalogue go by, agrees with *)
(* the hubs once the presence writes are through.  It may be wrong (stale) *)
(* after a write failed or was overtaken by a later one, after an instance *)
(* died, and after an instance wrote 'offline' while another had the node  *)
(* -- and each of these only until the next event that finds no write      *)
(* under way, and is no such 'offline', is written.                        *)
StatusTellsPresence ==
    writes = <<>> /\ ~stale /\ db \in {"online", "offline"} =>
        (db = "online" <=> \E i \in Hubs : nodes[i] # None)

(* dashboard.test.js:490: "a retired node stays retired even after its     *)
(* worker disconnects and reconnects".                                     *)
RetiredStays == [][db = "draining" /\ db' # db => Reenrol]_vars

=============================================================================
