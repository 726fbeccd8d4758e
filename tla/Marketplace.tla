---------------------------- MODULE Marketplace -----------------------------
(***************************************************************************)
(* Enrolment, retirement, availability, the catalogue and search           *)
(* (api/server.js, marketplace/nodeStore.js), each cut at its awaits, with *)
(* buyers who book any slot of any machine, shown to them or not.  A       *)
(* reservation is "live" (held, confirmed, running), "completed", which    *)
(* still blocks its slot, or "over".                                       *)
(***************************************************************************)
EXTENDS Scheduler, FiniteSets

CONSTANTS Machines,    \* public keys; a machine's row is its node
          Providers, Buyers, Resv,
          Prices,      \* asked per hour
          Candidates,  \* price, perf score and reliability of nodes to rank
          Declared,    \* windows a provider may declare
          Wishes,      \* searches: the slot and the most a buyer will pay
          Asked,       \* slots a buyer may ask to reserve
          Instants,    \* what the clock may show
          None

NodeRow == [owner : Providers, price : Prices,
            status : {"enrolling", "online", "offline", "draining"}]
Slots == [start : Nat, end : Nat]
Request == [slot : Slots, budget : Nat]
Row == [m : Machines, slot : Slots, status : {"live", "completed", "over"}]
Candidate == [price : Nat, perf : Nat, reliability : 0..Whole]

ASSUME MarketplaceAssumption ==
    /\ Instants \subseteq Nat /\ Instants # {} /\ Prices \subseteq Nat \ {0}
    /\ Declared \cup Asked \subseteq Slots /\ Wishes \subseteq Request
    /\ \A s \in Declared \cup Asked \cup {w.slot : w \in Wishes} : s.start < s.end
    /\ Candidates \subseteq Candidate
    /\ \A c \in Candidates : Unit % Clamped(c.reliability) = 0
    /\ IsFiniteSet(Resv) /\ IsFiniteSet(Candidates)
    /\ None \notin NodeRow \cup Request \cup Row

VARIABLES
    now,
    node,      \* compute_nodes: owner, status and price of each machine
    hub,       \* whether the hub has a socket of the machine
    windows,   \* node_availability
    row,       \* reservations
    prov,      \* each provider's POST /nodes or retire
    list,      \* each buyer's GET /nodes or POST /search, and what it said
    book,      \* each buyer's POST /reservations
    late       \* history: bookings inserted after a retirement had looked

vars == <<now, node, hub, windows, row, prov, list, book, late>>

Idle == [pc |-> "idle", m |-> None]
NoList == [pc |-> "idle", req |-> None, asOf |-> 0, nodes |-> {}, declared |-> {},
           offers |-> {}, known |-> {}]
NoBooking == [pc |-> "idle", m |-> None, slot |-> None]

Init ==
    /\ now = Min(Instants)
    /\ node = [m \in Machines |-> None]
    /\ hub = [m \in Machines |-> FALSE]
    /\ windows = [m \in Machines |-> {}]
    /\ row = [r \in Resv |-> None]
    /\ prov = [p \in Providers |-> Idle]
    /\ list = [b \in Buyers |-> NoList]
    /\ book = [b \in Buyers |-> NoBooking]
    /\ late = {}
-----------------------------------------------------------------------------
(* POST /nodes.  The key's row, if any, is looked up first; the price of   *)
(* the body matters only when it is written.                               *)
Enrolled(owner, price) == [owner |-> owner, status |-> "enrolling", price |-> price]
EnrolRead(p, m) ==
    /\ prov[p].pc = "idle"
    /\ node[m] # None => node[m].owner = p /\ node[m].status = "draining"
    /\ prov' = [prov EXCEPT ![p] =
          [pc |-> IF node[m] = None THEN "insert" ELSE "reactivate", m |-> m]]
    /\ UNCHANGED <<now, node, hub, windows, row, list, book, late>>

KeyTakenNever(m) == FALSE                  \* mutant: no UNIQUE on public_key
KeyTaken(m) == node[m] # None
EnrolInsert(p, price) ==
    LET m == prov[p].m IN
    /\ prov[p].pc = "insert"
    /\ node' = IF KeyTaken(m) THEN node
               ELSE [node EXCEPT ![m] = Enrolled(p, price)]
    /\ prov' = [prov EXCEPT ![p] = Idle]
    /\ UNCHANGED <<now, hub, windows, row, list, book, late>>
Reactivate(p, price) ==
    LET m == prov[p].m IN
    /\ prov[p].pc = "reactivate"
    /\ node' = [node EXCEPT ![m] = Enrolled(node[m].owner, price)]
    /\ prov' = [prov EXCEPT ![p] = Idle]
    /\ UNCHANGED <<now, hub, windows, row, list, book, late>>

(* POST /nodes/:id/availability.                                           *)
AddAvailability(p, m, w) ==
    /\ node[m] # None /\ node[m].owner = p /\ w \notin windows[m]
    /\ windows' = [windows EXCEPT ![m] = @ \cup {w}]
    /\ UNCHANGED <<now, node, hub, row, prov, list, book, late>>

WithStatus(m, status) == [node EXCEPT ![m] =
    [owner |-> node[m].owner, status |-> status, price |-> node[m].price]]

(* POST /nodes/:id/retire: look for a live reservation, then retire.       *)
LiveOnNever(m) == FALSE                    \* mutant: no look at reservations
LiveOn(m) == \E r \in Resv : row[r] # None /\ row[r].m = m /\ row[r].status = "live"
RetireCheck(p, m) ==
    /\ prov[p].pc = "idle"
    /\ node[m] # None /\ node[m].owner = p /\ ~LiveOn(m)
    /\ prov' = [prov EXCEPT ![p] = [pc |-> "retire", m |-> m]]
    /\ UNCHANGED <<now, node, hub, windows, row, list, book, late>>
Retire(p) ==
    LET m == prov[p].m IN
    /\ prov[p].pc = "retire"
    /\ node' = WithStatus(m, "draining")
    /\ prov' = [prov EXCEPT ![p] = Idle]
    /\ UNCHANGED <<now, hub, windows, row, list, book, late>>
-----------------------------------------------------------------------------
(* The machine's worker comes and goes, and the presence write follows     *)
(* some time later (Presence has what may go wrong on the way).            *)
SocketChanges(m) ==
    /\ node[m] # None /\ hub' = [hub EXCEPT ![m] = ~@]
    /\ UNCHANGED <<now, node, windows, row, prov, list, book, late>>
PresenceWrite(m) ==
    /\ node[m] # None /\ node[m].status # "draining"
    /\ node' = WithStatus(m, IF hub[m] THEN "online" ELSE "offline")
    /\ node' # node
    /\ UNCHANGED <<now, hub, windows, row, prov, list, book, late>>
-----------------------------------------------------------------------------
(* The three queries browseCatalogue and searchCandidates make, and the    *)
(* hub they ask at the end.  A search without a slot is the catalogue.     *)
OnlineNodes(req) == {m \in Machines : /\ node[m] # None /\ node[m].status = "online"
                                      /\ req # None => node[m].price <= req.budget}
WindowsWithin(m, req, t) ==                \* mutant: windows inside the request only
    {w \in windows[m] : IF req = None THEN w.end >= t
                        ELSE w.start >= req.slot.start /\ w.end <= req.slot.end}
WindowsOf(m, req, t) ==
    {w \in windows[m] : IF req = None THEN w.end >= t
                        ELSE w.end >= req.slot.start /\ w.start <= req.slot.end}

Blocks(status) == status \in {"live", "completed"}
BusySlots(m, from) ==
    {row[r].slot : r \in {q \in Resv : /\ row[q] # None /\ row[q].m = m
                                       /\ Blocks(row[q].status)
                                       /\ row[q].slot.end >= from}}

Offers(m, slots) == {[m |-> m, slot |-> s] : s \in slots}

(* What a buyer is offered: in the catalogue every free window, in a       *)
(* search the slot asked for where one free window covers it.              *)
OffersOf(m, declared, req, t) ==
    LET free == SubtractBusy(declared, BusySlots(m, IF req = None THEN t ELSE req.slot.start))
    IN  IF ~hub[m] THEN {}
        ELSE IF req = None THEN Offers(m, free)
        ELSE Offers(m, IF CoversWindow(free, req.slot) THEN {req.slot} ELSE {})

ListNodes(b, req) ==
    /\ list[b].pc \in {"idle", "offers"}
    /\ list' = [list EXCEPT ![b] = [NoList EXCEPT !.pc = "windows", !.req = req,
                                    !.asOf = IF req = None THEN now ELSE 0,
                                    !.nodes = OnlineNodes(req)]]
    /\ UNCHANGED <<now, node, hub, windows, row, prov, book, late>>
ListWindows(b) ==
    LET l == list[b] IN
    /\ l.pc = "windows"
    /\ list' = [list EXCEPT ![b] =
          [pc |-> "busy", req |-> l.req, asOf |-> l.asOf, nodes |-> l.nodes,
           declared |-> UNION {Offers(m, WindowsOf(m, l.req, l.asOf)) : m \in l.nodes},
           offers |-> {}, known |-> {}]]
    /\ UNCHANGED <<now, node, hub, windows, row, prov, book, late>>
ListBusy(b) ==
    LET l == list[b]
        declared(m) == {d.slot : d \in {x \in l.declared : x.m = m}}
    IN
    /\ l.pc = "busy"
    /\ list' = [list EXCEPT ![b] =
          [pc |-> "offers", req |-> l.req, asOf |-> l.asOf, nodes |-> {}, declared |-> {},
           offers |-> UNION {OffersOf(m, declared(m), l.req, l.asOf) : m \in l.nodes},
           known |-> {r \in Resv : row[r] # None}]]
    /\ UNCHANGED <<now, node, hub, windows, row, prov, book, late>>
-----------------------------------------------------------------------------
(* POST /reservations, of any machine that is enrolled and any slot: no    *)
(* window and no status is looked at.  The hub must have the machine, and  *)
(* its node agree.                                                         *)
Book(b, m, slot) ==
    /\ book[b].pc = "idle"
    /\ node[m] # None /\ hub[m]
    /\ book' = [book EXCEPT ![b] = [pc |-> "asked", m |-> m, slot |-> slot]]
    /\ UNCHANGED <<now, node, hub, windows, row, prov, list, late>>
BookRefused(b) ==
    /\ book[b].pc = "asked"
    /\ book' = [book EXCEPT ![b] = NoBooking]
    /\ UNCHANGED <<now, node, hub, windows, row, prov, list, late>>

Conflicts(m, slot) == \E r \in Resv : /\ row[r] # None /\ row[r].m = m
                                      /\ Blocks(row[r].status) /\ Overlap(row[r].slot, slot)
Retiring(m) == \/ node[m].status = "draining"
               \/ \E p \in Providers : prov[p].pc = "retire" /\ prov[p].m = m
BookInsert(b, r) ==
    LET m == book[b].m IN
    /\ book[b].pc = "asked" /\ row[r] = None /\ ~Conflicts(m, book[b].slot)
    /\ row' = [row EXCEPT ![r] = [m |-> m, slot |-> book[b].slot, status |-> "live"]]
    /\ book' = [book EXCEPT ![b] = NoBooking]
    /\ late' = late \cup {q \in {r} : Retiring(m)}
    /\ UNCHANGED <<now, node, hub, windows, prov, list>>

(* A reservation is completed, or ends in a state that frees its slot.     *)
RowEnds(r, status) ==
    /\ row[r] # None /\ row[r].status = "live"
    /\ row' = [row EXCEPT ![r] = [m |-> row[r].m, slot |-> row[r].slot, status |-> status]]
    /\ late' = late \ {r}
    /\ UNCHANGED <<now, node, hub, windows, prov, list, book>>

Tick == /\ now' \in Instants /\ now' > now
        /\ UNCHANGED <<node, hub, windows, row, prov, list, book, late>>
-----------------------------------------------------------------------------
Requests == {None} \cup Wishes

Next ==
    \/ \E p \in Providers :
          \/ \E price \in Prices : EnrolInsert(p, price) \/ Reactivate(p, price)
          \/ Retire(p)
          \/ \E m \in Machines :
                \/ EnrolRead(p, m)
                \/ \E w \in Declared : AddAvailability(p, m, w)
                \/ RetireCheck(p, m)
    \/ \E m \in Machines : SocketChanges(m) \/ PresenceWrite(m)
    \/ \E b \in Buyers :
          \/ \E req \in Requests : ListNodes(b, req)
          \/ ListWindows(b) \/ ListBusy(b) \/ BookRefused(b)
          \/ \E m \in Machines, slot \in Asked : Book(b, m, slot)
          \/ \E r \in Resv : BookInsert(b, r)
    \/ \E r \in Resv, status \in {"completed", "over"} : RowEnds(r, status)
    \/ Tick

Spec == Init /\ [][Next]_vars
-----------------------------------------------------------------------------
TypeOK ==
    /\ now \in Instants
    /\ node \in [Machines -> NodeRow \cup {None}]
    /\ hub \in [Machines -> BOOLEAN]
    /\ windows \in [Machines -> SUBSET Declared]
    /\ row \in [Resv -> Row \cup {None}]
    /\ prov \in [Providers -> [pc : {"idle", "insert", "reactivate", "retire"},
                    m : Machines \cup {None}]]
    /\ \A b \in Buyers :
          /\ list[b].pc \in {"idle", "windows", "busy", "offers"}
          /\ list[b].req \in Requests /\ list[b].asOf \in Instants \cup {0}
          /\ list[b].nodes \subseteq Machines
          /\ \A o \in list[b].declared \cup list[b].offers :
                o.m \in Machines /\ o.slot \in Slots
          /\ list[b].known \subseteq Resv
          /\ book[b].pc \in {"idle", "asked"} /\ book[b].m \in Machines \cup {None}
    /\ late \subseteq Resv

Clip(slot, t) == [slot EXCEPT !.start = IF @ < t THEN t ELSE @]
Now(o, req, t) == IF req = None THEN Clip(o.slot, t) ELSE o.slot

(* Nobody is shown time that was sold when they asked, or that its         *)
(* provider never declared -- whatever was booked, retired or lost between *)
(* the queries; of a window that has begun this is said of what is left.   *)
OffersStand == \A b \in Buyers : \A o \in list[b].offers :
    /\ \E w \in windows[o.m] : w.start <= o.slot.start /\ w.end >= o.slot.end
    /\ \A r \in list[b].known :
          row[r].m = o.m /\ row[r].status \in {"live", "completed"} =>
              ~Overlap(Now(o, list[b].req, list[b].asOf), row[r].slot)

Catalogue == UNION {OffersOf(m, WindowsOf(m, None, now), None, now) : m \in OnlineNodes(None)}
Found(req) == UNION {OffersOf(m, WindowsOf(m, req, now), req, now) : m \in OnlineNodes(req)}

(* nodeStore.js:42: the catalogue "can never advertise something search    *)
(* would refuse to return", for the part of it that is yet to come.        *)
CatalogueWithinSearch == \A o \in Catalogue :
    o.slot.end > now =>
        LET req == [slot |-> Clip(o.slot, now), budget |-> node[o.m].price]
        IN  [m |-> o.m, slot |-> req.slot] \in Found(req)

(* A provider cannot retire a machine from under a booking it could see:   *)
(* one is live on a retired machine only if it was inserted after the      *)
(* retirement had looked.  Of that one, server.js:629 ("Refuse while a     *)
(* booking on this node is still live") is not true.                       *)
RetiredIsIdle == \A r \in Resv \ late :
    row[r] # None /\ row[r].status = "live" => node[row[r].m].status # "draining"

(* A key stays with the account that enrolled it first, though two may     *)
(* enrol it at once.                                                       *)
OwnerStays == [][\A m \in Machines :
    node[m] # None => node'[m] # None /\ node'[m].owner = node[m].owner]_vars

(* Whatever the mode and the rest of the pool, a node that is no dearer in *)
(* expectation, no slower and no less reliable is not ranked below.  It is *)
(* said of scheduler.js alone, so TLC looks at it once, in the beginning.  *)
Pools == SUBSET Candidates
BetterRanksHigher == Init =>
    \A pool \in Pools : \A c, d \in pool, mode \in MODES :
        /\ ExpectedCost(c, 1) <= ExpectedCost(d, 1)
        /\ c.perf >= d.perf /\ c.reliability >= d.reliability
        => Score(c, pool, 1, mode) >= Score(d, pool, 1, mode)
=============================================================================
