------------------------- MODULE MarketplaceProofs --------------------------
(***************************************************************************)
(* What is proved about enrolment and retirement, for any number of        *)
(* machines, providers, buyers and reservations, and for the awaits of any *)
(* number of requests in any order; and about the catalogue and search,    *)
(* for any windows and bookings that subtractBusy walks through and any    *)
(* pool that is ranked.  What a walk finds is said of every set of         *)
(* bookings: of the sets that would refute it a smallest one is taken, and *)
(* its latest booking is put aside.                                        *)
(***************************************************************************)
EXTENDS Marketplace, FiniteSetTheorems, WellFoundedInduction, TLAPS

(* Every handler, offer and row is about a machine that is enrolled.       *)
Enrolment ==
    /\ node \in [Machines -> NodeRow \cup {None}]
    /\ DOMAIN row = Resv /\ DOMAIN prov = Providers
    /\ DOMAIN list = Buyers /\ DOMAIN book = Buyers
    /\ \A p \in Providers :
          /\ prov[p].pc # "idle" => prov[p].m \in Machines
          /\ prov[p].pc \in {"reactivate", "retire"} => node[prov[p].m] # None
    /\ \A b \in Buyers :
          /\ \A m \in list[b].nodes : m \in Machines /\ node[m] # None
          /\ \A o \in list[b].offers : o.m \in Machines /\ node[o.m] # None
          /\ book[b].pc = "asked" => book[b].m \in Machines /\ node[book[b].m] # None
    /\ \A r \in Resv : row[r] # None => row[r].m \in Machines /\ node[row[r].m] # None

(* What a retirement has seen stays so until it is done, but for the rows  *)
(* that came in after it had looked.                                       *)
RetiringIsIdle == \A p \in Providers : \A r \in Resv \ late :
    prov[p].pc = "retire" /\ row[r] # None /\ row[r].status = "live" => row[r].m # prov[p].m

IInv == Enrolment /\ RetiringIsIdle /\ RetiredIsIdle

-----------------------------------------------------------------------------
(* What is offered by OffersOf is of the machine that is asked about.      *)
LEMMA OffersAreOf ==
    ASSUME NEW m, NEW declared, NEW req, NEW t, NEW o \in OffersOf(m, declared, req, t)
    PROVE  o.m = m
BY DEF OffersOf, Offers

(* Nothing is enrolled, and nobody is at work, in the beginning.           *)
LEMMA Start == Init => IInv
BY DEF Init, IInv, Enrolment, RetiringIsIdle, RetiredIsIdle, Idle, NoList, NoBooking

(* The two halves of an enrolment: a row that is there is never taken      *)
(* over, and a key that is enrolled again leaves what it was at.           *)
LEMMA EnrolStep ==
    ASSUME IInv, NEW p \in Providers, NEW price \in Prices, NEW m \in Machines,
           EnrolRead(p, m) \/ EnrolInsert(p, price) \/ Reactivate(p, price)
    PROVE  IInv'
<1>1. CASE EnrolRead(p, m)
  BY <1>1 DEF IInv, EnrolRead, Enrolment, RetiringIsIdle, RetiredIsIdle
<1>2. CASE EnrolInsert(p, price)
  <2>1. Enrolled(p, price) \in NodeRow /\ Enrolled(p, price) # None
    BY MarketplaceAssumption DEF Enrolled, NodeRow
  <2>2. prov[p].m \in Machines
    BY <1>2 DEF IInv, Enrolment, EnrolInsert
  <2> QED BY <1>2, <2>1, <2>2
          DEF IInv, EnrolInsert, KeyTaken, Idle, Enrolment, RetiringIsIdle, RetiredIsIdle
<1>3. CASE Reactivate(p, price)
  <2> DEFINE k == prov[p].m
  <2>1. k \in Machines /\ node[k] \in NodeRow
    BY <1>3 DEF IInv, Enrolment, Reactivate
  <2>2. /\ Enrolled(node[k].owner, price) \in NodeRow
        /\ Enrolled(node[k].owner, price) # None
        /\ Enrolled(node[k].owner, price).status = "enrolling"
    BY <2>1, MarketplaceAssumption DEF Enrolled, NodeRow
  <2> QED BY <1>3, <2>1, <2>2
          DEF IInv, Reactivate, Idle, Enrolment, RetiringIsIdle, RetiredIsIdle
<1> QED BY <1>1, <1>2, <1>3

(* A retirement looks, and retires later: whatever came in meanwhile is    *)
(* late.                                                                   *)
LEMMA RetireStep ==
    ASSUME IInv, NEW p \in Providers, NEW m \in Machines, RetireCheck(p, m) \/ Retire(p)
    PROVE  IInv'
<1>1. CASE RetireCheck(p, m)
  BY <1>1 DEF IInv, RetireCheck, LiveOn, Enrolment, RetiringIsIdle, RetiredIsIdle
<1>2. CASE Retire(p)
  <2> DEFINE k == prov[p].m
             new == [owner |-> node[k].owner, status |-> "draining", price |-> node[k].price]
  <2>1. k \in Machines /\ node[k] \in NodeRow
    BY <1>2 DEF IInv, Enrolment, Retire
  <2>2. new \in NodeRow /\ new # None
    BY <2>1, MarketplaceAssumption DEF NodeRow
  <2>3. node' = [node EXCEPT ![k] = new]
    BY <1>2 DEF Retire, WithStatus
  <2> HIDE DEF new
  <2>4. Enrolment'
    BY <1>2, <2>1, <2>2, <2>3 DEF IInv, Retire, Idle, Enrolment
  <2>5. RetiringIsIdle'
    BY <1>2 DEF IInv, Retire, Idle, Enrolment, RetiringIsIdle
  <2>6. RetiredIsIdle'
    BY <1>2, <2>1, <2>3 DEF IInv, Retire, Enrolment, RetiringIsIdle, RetiredIsIdle
  <2> QED BY <2>4, <2>5, <2>6 DEF IInv
<1> QED BY <1>1, <1>2

(* The presence writer leaves a retired machine alone.                     *)
LEMMA PresenceStep ==
    ASSUME IInv, NEW m \in Machines, PresenceWrite(m)
    PROVE  IInv'
<1> DEFINE s == IF hub[m] THEN "online" ELSE "offline"
           new == [owner |-> node[m].owner, status |-> s, price |-> node[m].price]
<1>1. node[m] \in NodeRow
  BY DEF IInv, Enrolment, PresenceWrite
<1>2. new \in NodeRow /\ new # None /\ new.status # "draining"
  BY <1>1, MarketplaceAssumption DEF NodeRow
<1>3. node' = [node EXCEPT ![m] = new]
  BY DEF PresenceWrite, WithStatus
<1> HIDE DEF new
<1> QED BY <1>1, <1>2, <1>3 DEF IInv, PresenceWrite, Enrolment, RetiringIsIdle, RetiredIsIdle

(* What a buyer is shown is enrolled, and stays so.                        *)
LEMMA ListStep ==
    ASSUME IInv, NEW b \in Buyers,
           \/ \E req \in Requests : ListNodes(b, req)
           \/ ListWindows(b) \/ ListBusy(b)
    PROVE  IInv'
<1>1. ASSUME NEW req \in Requests, ListNodes(b, req) PROVE IInv'
  <2> DEFINE new == [NoList EXCEPT !.pc = "windows", !.req = req,
                                   !.asOf = IF req = None THEN now ELSE 0,
                                   !.nodes = OnlineNodes(req)]
  <2>1. /\ \A m \in new.nodes : m \in Machines /\ node[m] # None
        /\ new.offers = {}
    BY DEF NoList, OnlineNodes
  <2>2. list' = [list EXCEPT ![b] = new]
    BY <1>1 DEF ListNodes
  <2> HIDE DEF new
  <2>3. UNCHANGED <<node, row, prov, book, late>>
    BY <1>1 DEF ListNodes
  <2>4. Enrolment'
    BY <2>1, <2>2, <2>3 DEF IInv, Enrolment
  <2>5. RetiringIsIdle' /\ RetiredIsIdle'
    BY <2>3 DEF IInv, RetiringIsIdle, RetiredIsIdle
  <2> QED BY <2>4, <2>5 DEF IInv
<1>2. CASE ListWindows(b)
  <2> DEFINE l == list[b]
             declared == UNION {Offers(m, WindowsOf(m, l.req, l.asOf)) : m \in l.nodes}
  <2>1. list' = [list EXCEPT ![b] =
           [pc |-> "busy", req |-> l.req, asOf |-> l.asOf, nodes |-> l.nodes,
            declared |-> declared, offers |-> {}, known |-> {}]]
    BY <1>2 DEF ListWindows
  <2> HIDE DEF declared
  <2> QED BY <1>2, <2>1 DEF IInv, ListWindows, Enrolment, RetiringIsIdle, RetiredIsIdle
<1>3. CASE ListBusy(b)
  <2> DEFINE l == list[b]
             declared(m) == {d.slot : d \in {x \in l.declared : x.m = m}}
             offers == UNION {OffersOf(m, declared(m), l.req, l.asOf) : m \in l.nodes}
             known == {r \in Resv : row[r] # None}
  <2>1. list' = [list EXCEPT ![b] =
           [pc |-> "offers", req |-> l.req, asOf |-> l.asOf, nodes |-> {}, declared |-> {},
            offers |-> offers, known |-> known]]
    BY <1>3 DEF ListBusy
  <2>2. ASSUME NEW o \in offers PROVE o.m \in Machines /\ node[o.m] # None
    <3>1. PICK m \in l.nodes : o \in OffersOf(m, declared(m), l.req, l.asOf)
      OBVIOUS
    <3>2. o.m = m
      BY <3>1, OffersAreOf
    <3> QED BY <3>2 DEF IInv, Enrolment
  <2>3. Enrolment'
    <3>1. list'[b].nodes = {} /\ list'[b].offers = offers
      BY <2>1 DEF IInv, Enrolment
    <3>2. DOMAIN list' = Buyers /\ \A c \in Buyers \ {b} : list'[c] = list[c]
      BY <2>1 DEF IInv, Enrolment
    <3> HIDE DEF offers
    <3> QED BY <1>3, <2>2, <3>1, <3>2, ZenonT(60) DEF IInv, ListBusy, Enrolment
  <2>4. (RetiringIsIdle /\ RetiredIsIdle)'
    BY <1>3 DEF IInv, ListBusy, RetiringIsIdle, RetiredIsIdle
  <2> QED BY <2>3, <2>4 DEF IInv
<1> QED BY <1>1, <1>2, <1>3

(* A booking is of something that was offered; it is late when the machine *)
(* is retired, or about to be.                                             *)
LEMMA BookStep ==
    ASSUME IInv, NEW b \in Buyers,
           \/ \E m \in Machines, slot \in Asked : Book(b, m, slot)
           \/ BookRefused(b) \/ \E r \in Resv : BookInsert(b, r)
    PROVE  IInv'
<1>1. ASSUME NEW m \in Machines, NEW slot \in Asked, Book(b, m, slot) PROVE IInv'
  BY <1>1 DEF IInv, Book, Enrolment, RetiringIsIdle, RetiredIsIdle
<1>2. CASE BookRefused(b)
  BY <1>2 DEF IInv, BookRefused, NoBooking, Enrolment, RetiringIsIdle, RetiredIsIdle
<1>3. ASSUME NEW r \in Resv, BookInsert(b, r) PROVE IInv'
  <2> DEFINE m == book[b].m
  <2>1. m \in Machines /\ node[m] # None
    BY <1>3 DEF IInv, Enrolment, BookInsert
  <2>2. Enrolment'
    BY <1>3, <2>1 DEF IInv, BookInsert, NoBooking, Enrolment
  <2>3. RetiringIsIdle' /\ RetiredIsIdle'
    BY <1>3, <2>1 DEF IInv, BookInsert, Retiring, Enrolment, RetiringIsIdle, RetiredIsIdle
  <2> QED BY <2>2, <2>3 DEF IInv
<1> QED BY <1>1, <1>2, <1>3

(* A reservation that ends is live no more.                                *)
LEMMA RowStep ==
    ASSUME IInv, NEW r \in Resv, NEW status \in {"completed", "over"}, RowEnds(r, status)
    PROVE  IInv'
BY DEF IInv, RowEnds, Enrolment, RetiringIsIdle, RetiredIsIdle

(* Every step keeps it.                                                    *)
LEMMA Step == IInv /\ [Next]_vars => IInv'
<1> SUFFICES ASSUME IInv, [Next]_vars PROVE IInv'
  OBVIOUS
<1>1. ASSUME NEW p \in Providers, NEW price \in Prices,
             EnrolInsert(p, price) \/ Reactivate(p, price)
      PROVE  IInv'
  <2>1. prov[p].m \in Machines
    BY <1>1 DEF IInv, Enrolment, EnrolInsert, Reactivate
  <2> QED BY <1>1, <2>1, EnrolStep
<1>2. ASSUME NEW p \in Providers, Retire(p) PROVE IInv'
  <2>1. prov[p].m \in Machines
    BY <1>2 DEF IInv, Enrolment, Retire
  <2> QED BY <1>2, <2>1, RetireStep
<1>3. ASSUME NEW p \in Providers, NEW m \in Machines, EnrolRead(p, m) PROVE IInv'
  BY <1>3 DEF IInv, EnrolRead, Enrolment, RetiringIsIdle, RetiredIsIdle
<1>4. ASSUME NEW p \in Providers, NEW m \in Machines, RetireCheck(p, m) PROVE IInv'
  BY <1>4, RetireStep
<1>5. ASSUME NEW p \in Providers, NEW m \in Machines, NEW w \in Declared,
             AddAvailability(p, m, w)
      PROVE  IInv'
  BY <1>5 DEF IInv, AddAvailability, Enrolment, RetiringIsIdle, RetiredIsIdle
<1>6. ASSUME NEW m \in Machines, SocketChanges(m) PROVE IInv'
  BY <1>6 DEF IInv, SocketChanges, Enrolment, RetiringIsIdle, RetiredIsIdle
<1>7. ASSUME NEW m \in Machines, PresenceWrite(m) PROVE IInv'
  BY <1>7, PresenceStep
<1>8. ASSUME NEW b \in Buyers,
             \/ \E req \in Requests : ListNodes(b, req)
             \/ ListWindows(b) \/ ListBusy(b)
      PROVE  IInv'
  BY <1>8, ListStep
<1>9. ASSUME NEW b \in Buyers,
             \/ \E m \in Machines, slot \in Asked : Book(b, m, slot)
             \/ BookRefused(b) \/ \E r \in Resv : BookInsert(b, r)
      PROVE  IInv'
  BY <1>9, BookStep
<1>10. ASSUME NEW r \in Resv, NEW status \in {"completed", "over"}, RowEnds(r, status)
       PROVE  IInv'
  BY <1>10, RowStep
<1>11. CASE Tick \/ UNCHANGED vars
  BY <1>11 DEF IInv, Tick, vars, Enrolment, RetiringIsIdle, RetiredIsIdle
<1> QED BY <1>1, <1>2, <1>3, <1>4, <1>5, <1>6, <1>7, <1>8, <1>9, <1>10, <1>11 DEF Next
-----------------------------------------------------------------------------
(* Of finite sets, one has no other inside.                                *)
LEMMA SmallestSet ==
    ASSUME NEW T, \A R \in T : IsFiniteSet(R), T # {}
    PROVE  \E R \in T : \A Q \in T : Q \subseteq R => Q = R
<1> DEFINE B == UNION T
<1>1. T \subseteq FiniteSubsetsOf(B)
  BY DEF FiniteSubsetsOf
<1>2. PICK R \in T : \A Q \in T : <<Q, R>> \notin StrictSubsetOrdering(B)
  BY <1>1, FS_StrictSubsetOrderingWellFounded, WFMin
<1> QED BY <1>2 DEF StrictSubsetOrdering

LEMMA LatestIn ==
    ASSUME NEW S \in SUBSET Slots, IsFiniteSet(S), S # {}
    PROVE  Latest(S) \in S /\ \A c \in S : c.start <= Latest(S).start
<1> DEFINE Bad(R) == R # {} /\ ~\E b \in R : \A c \in R : c.start <= b.start
           T == {R \in SUBSET S : Bad(R)}
<1>1. ASSUME T # {} PROVE FALSE
  <2>1. \A R \in T : IsFiniteSet(R)
    BY FS_Subset
  <2>2. PICK R \in T : \A Q \in T : Q \subseteq R => Q = R
    <3> HIDE DEF T
    <3> QED BY <1>1, <2>1, SmallestSet
  <2>3. PICK b : b \in R
    OBVIOUS
  <2>4. R \ {b} \notin T
    BY <2>2, <2>3
  <2>5. R = {b} \/ \E a \in R \ {b} : \A c \in R \ {b} : c.start <= a.start
    BY <2>3, <2>4
  <2>6. \A c \in R : c.start \in Nat
    BY DEF Slots
  <2>7. CASE R = {b}
    BY <2>6, <2>7
  <2>8. ASSUME NEW a \in R \ {b}, \A c \in R \ {b} : c.start <= a.start
        PROVE  FALSE
    <3>1. CASE b.start <= a.start
      BY <2>8, <3>1
    <3>2. CASE a.start <= b.start
      <4>1. \A c \in R : c.start <= b.start
        BY <2>3, <2>6, <2>8, <3>2
      <4> QED BY <2>3, <4>1
    <3> QED BY <2>3, <2>6, <3>1, <3>2
  <2> QED BY <2>5, <2>7, <2>8
<1>2. \E b \in S : \A c \in S : c.start <= b.start
  BY <1>1
<1> QED BY <1>2 DEF Latest

LEMMA LeastOf ==
    ASSUME NEW T \in SUBSET Nat, T # {}
    PROVE  \E n \in T : \A k \in T : n <= k
<1> DEFINE U == {1..n : n \in T}
<1>2. \A R \in U : IsFiniteSet(R)
  BY FS_Interval
<1>3. PICK R \in U : \A Q \in U : Q \subseteq R => Q = R
  <2>1. U # {}
    OBVIOUS
  <2> HIDE DEF U
  <2> QED BY <1>2, <2>1, SmallestSet
<1>4. PICK n \in T : R = 1..n
  OBVIOUS
<1>5. ASSUME NEW k \in T, ~(n <= k) PROVE FALSE
  <2>1. n \in Nat /\ k \in Nat /\ 1..k \in U
    OBVIOUS
  <2>2. 1..k \subseteq R
    BY <1>4, <1>5, <2>1
  <2>3. n \in 1..n /\ n \notin 1..k
    BY <1>5, <2>1
  <2> QED BY <1>3, <1>4, <2>1, <2>2, <2>3
<1> QED BY <1>5

(* The walk over a set of bookings is the walk over all but the last, and  *)
(* the last.                                                               *)
NoCut(w) == [free |-> {}, cursor |-> w.start]
WalkStep(w, h, S) == IF S = {} THEN NoCut(w) ELSE CutAt(h[S \ {Latest(S)}], Latest(S))
Walks(w, B, g) == g = [S \in SUBSET B |-> WalkStep(w, g, S)]

LEMMA WalkExists ==
    ASSUME NEW B \in SUBSET Slots, IsFiniteSet(B), NEW w
    PROVE  \E g : Walks(w, B, g)
<1> DEFINE Upto(n, g) == \A S \in SUBSET B : Cardinality(S) <= n => g[S] = WalkStep(w, g, S)
           T == {n \in Nat : ~\E g : Upto(n, g)}
<1>1. \A S \in SUBSET B : /\ IsFiniteSet(S) /\ Cardinality(S) \in Nat
                          /\ Cardinality(S) = 0 <=> S = {}
  BY FS_Subset, FS_CardinalityType, FS_EmptySet
<1>2. \A S \in SUBSET B : S # {} => /\ S \ {Latest(S)} \in SUBSET B
                                    /\ Cardinality(S \ {Latest(S)}) = Cardinality(S) - 1
  BY <1>1, LatestIn, FS_RemoveElement
<1>3. T = {}
  <2> SUFFICES ASSUME T # {} PROVE FALSE
    OBVIOUS
  <2>1. PICK n \in T : \A k \in T : n <= k
    BY LeastOf
  <2>2. n \in Nat /\ ~\E g : Upto(n, g)
    OBVIOUS
  <2>3. CASE n = 0
    <3> DEFINE g == [S \in SUBSET B |-> NoCut(w)]
    <3>1. \A S \in SUBSET B : Cardinality(S) <= 0 => g[S] = WalkStep(w, g, S)
      BY <1>1 DEF WalkStep
    <3> QED BY <2>2, <2>3, <3>1
  <2>4. CASE n # 0
    <3>1. n - 1 \in Nat /\ n - 1 \notin T
      BY <2>1, <2>2, <2>4
    <3>2. PICK g : Upto(n - 1, g)
      BY <3>1
    <3> DEFINE h == [S \in SUBSET B |-> IF Cardinality(S) <= n - 1 THEN g[S] ELSE WalkStep(w, g, S)]
    <3>3. ASSUME NEW S \in SUBSET B, Cardinality(S) <= n PROVE h[S] = WalkStep(w, h, S)
      <4>1. S # {} => h[S \ {Latest(S)}] = g[S \ {Latest(S)}]
        BY <1>1, <1>2, <2>2, <3>3
      <4>2. WalkStep(w, h, S) = WalkStep(w, g, S)
        BY <4>1 DEF WalkStep
      <4>3. h[S] = WalkStep(w, g, S)
        BY <3>2
      <4> QED BY <4>2, <4>3
    <3>4. Upto(n, h)
      BY <3>3
    <3> QED BY <2>2, <3>4
  <2> QED BY <2>3, <2>4
<1>4. PICK g : Upto(Cardinality(B), g)
  BY <1>1, <1>3
<1> DEFINE h == [S \in SUBSET B |-> g[S]]
<1>5. ASSUME NEW S \in SUBSET B PROVE h[S] = WalkStep(w, h, S)
  <2>1. g[S] = WalkStep(w, g, S)
    BY <1>1, <1>4, <1>5, FS_Subset
  <2>2. S # {} => h[S \ {Latest(S)}] = g[S \ {Latest(S)}]
    BY <1>2
  <2> QED BY <2>1, <2>2 DEF WalkStep
<1>6. h = [S \in SUBSET B |-> WalkStep(w, h, S)]
  BY <1>5
<1> QED BY <1>6 DEF Walks

LEMMA WalkUnfolds ==
    ASSUME NEW B \in SUBSET Slots, IsFiniteSet(B), NEW w
    PROVE  \E g : Walks(w, B, g) /\ Walk(w, B) = g[B]
<1> DEFINE f == CHOOSE g : g = [S \in SUBSET B |-> WalkStep(w, g, S)]
<1>1. Walk(w, B) = f[B]
  BY DEF Walk, WalkStep, NoCut
<1>2. f = [S \in SUBSET B |-> WalkStep(w, f, S)]
  <2>1. \E g : g = [S \in SUBSET B |-> WalkStep(w, g, S)]
    BY WalkExists DEF Walks
  <2> QED BY <2>1
<1> QED BY <1>1, <1>2 DEF Walks

(* What the walk has found so far.                                         *)
Gap(f, w, S) ==
    /\ f \in Slots /\ w.start <= f.start /\ f.start < f.end /\ f.end <= w.end
    /\ \A b \in S : ~Overlap(b, f)
Walked(w, S, cut) ==
    /\ cut.cursor \in Nat /\ w.start <= cut.cursor /\ \A b \in S : b.end <= cut.cursor
    /\ \A f \in cut.free : Gap(f, w, S) /\ \E b \in S : f.end <= b.start

(* Walking on to a booking that starts no earlier than those before.       *)
LEMMA CutFinds ==
    ASSUME NEW w \in Slots, NEW S \in SUBSET Slots, NEW cut, Walked(w, S, cut),
           NEW b \in Slots, Overlap(b, w), \A c \in S : c.start <= b.start
    PROVE  Walked(w, S \cup {b}, CutAt(cut, b))
<1> DEFINE new == CutAt(cut, b)
           gap == [start |-> cut.cursor, end |-> b.start]
<1>1. /\ new.cursor = IF b.end > cut.cursor THEN b.end ELSE cut.cursor
      /\ new.free = IF b.start > cut.cursor THEN cut.free \cup {gap} ELSE cut.free
  BY DEF CutAt
<1>2. \A c \in S \cup {b, w} : c.start \in Nat /\ c.end \in Nat
  BY DEF Slots
<1>3. new.cursor \in Nat /\ w.start <= new.cursor /\ \A c \in S \cup {b} : c.end <= new.cursor
  BY <1>1, <1>2 DEF Walked
<1>4. ASSUME b.start > cut.cursor PROVE Gap(gap, w, S \cup {b})
  <2>1. gap \in Slots /\ gap.start = cut.cursor /\ gap.end = b.start
    BY <1>2 DEF Walked, Slots
  <2>2. w.start <= gap.start /\ gap.start < gap.end /\ gap.end <= w.end
    BY <1>2, <1>4, <2>1 DEF Walked, Overlap
  <2>3. \A c \in S : c.end <= gap.start
    BY <2>1 DEF Walked
  <2>4. \A c \in S \cup {b} : ~Overlap(c, gap)
    BY <1>2, <2>1, <2>3 DEF Overlap, Slots
  <2> QED BY <2>1, <2>2, <2>4 DEF Gap
<1>5. ASSUME NEW f \in cut.free PROVE Gap(f, w, S \cup {b}) /\ f.end <= b.start
  <2>1. PICK c \in S : f.end <= c.start
    BY <1>5 DEF Walked
  <2>2. Gap(f, w, S) /\ f.start \in Nat /\ f.end \in Nat
    BY <1>5 DEF Walked, Gap, Slots
  <2>3. f.end <= b.start
    BY <1>2, <2>1, <2>2
  <2>4. ~Overlap(b, f)
    BY <1>2, <2>2, <2>3 DEF Overlap
  <2> QED BY <2>2, <2>3, <2>4 DEF Gap
<1>6. \A f \in new.free : Gap(f, w, S \cup {b}) /\ \E c \in S \cup {b} : f.end <= c.start
  <2>1. gap.end <= b.start
    BY <1>2
  <2> HIDE DEF gap
  <2> QED BY <1>1, <1>4, <1>5, <2>1
<1> QED BY <1>3, <1>6 DEF Walked

(* An empty walk has found nothing, and every walk is of its bookings.     *)
LEMMA WalkFinds ==
    ASSUME NEW w \in Slots, NEW B \in SUBSET Slots, IsFiniteSet(B), \A b \in B : Overlap(b, w)
    PROVE  Walked(w, B, Walk(w, B))
<1>1. PICK g : Walks(w, B, g) /\ Walk(w, B) = g[B]
  BY WalkUnfolds
<1> DEFINE T == {S \in SUBSET B : ~Walked(w, S, g[S])}
<1>2. ASSUME T # {} PROVE FALSE
  <2>1. PICK S \in T : \A Q \in T : Q \subseteq S => Q = S
    <3>1. \A R \in T : IsFiniteSet(R)
      BY FS_Subset
    <3> HIDE DEF T
    <3> QED BY <1>2, <3>1, SmallestSet
  <2>2. S \in SUBSET B /\ ~Walked(w, S, g[S]) /\ g[S] = WalkStep(w, g, S) /\ IsFiniteSet(S)
    BY <1>1, FS_Subset DEF Walks
  <2>3. CASE S = {}
    <3>1. g[S] = NoCut(w)
      BY <2>2, <2>3 DEF WalkStep
    <3> QED BY <2>2, <2>3, <3>1 DEF Walked, NoCut, Slots
  <2>4. CASE S # {}
    <3> DEFINE b == Latest(S)
               R == S \ {b}
    <3>1. b \in S /\ \A c \in S : c.start <= b.start
      BY <2>2, <2>4, LatestIn
    <3>2. R \in SUBSET Slots /\ R \cup {b} = S /\ R \notin T /\ b \in Slots /\ Overlap(b, w)
      BY <2>1, <2>2, <3>1
    <3>3. Walked(w, R, g[R])
      BY <2>2, <3>2
    <3>4. g[S] = CutAt(g[R], b)
      BY <2>2, <2>4 DEF WalkStep
    <3> HIDE DEF b, R
    <3>5. Walked(w, R \cup {b}, CutAt(g[R], b))
      BY <3>1, <3>2, <3>3, CutFinds
    <3> QED BY <2>2, <3>2, <3>4, <3>5
  <2> QED BY <2>3, <2>4
<1> QED BY <1>1, <1>2

(* subtractBusy never returns time outside of a window, nor time that is   *)
(* sold.                                                                   *)
LEMMA FreeIsFree ==
    ASSUME NEW w \in Slots, NEW busy \in SUBSET Slots, IsFiniteSet(busy), NEW f \in FreeOf(w, busy)
    PROVE  Gap(f, w, busy)
<1> DEFINE B == Touching(w, busy)
           last == [start |-> Walk(w, B).cursor, end |-> w.end]
<1>1. B \in SUBSET Slots /\ IsFiniteSet(B) /\ \A b \in B : Overlap(b, w)
  BY FS_Subset DEF Touching
<1>2. Walked(w, B, Walk(w, B))
  BY <1>1, WalkFinds
<1>3. f \in Walk(w, B).free \/ (Walk(w, B).cursor < w.end /\ f = last)
  BY DEF FreeOf
<1>4. Gap(f, w, B)
  <2>1. ASSUME Walk(w, B).cursor < w.end, f = last PROVE Gap(f, w, B)
    <3>1. f \in Slots /\ f.start = Walk(w, B).cursor /\ f.end = w.end
      BY <1>2, <2>1 DEF Walked, Slots
    <3>2. \A b \in B : b.end <= f.start
      BY <1>2, <3>1 DEF Walked
    <3>3. \A b \in B : ~Overlap(b, f)
      BY <1>1, <3>1, <3>2 DEF Overlap, Slots
    <3> QED BY <1>2, <2>1, <3>1, <3>3 DEF Walked, Gap, Slots
  <2> HIDE DEF B
  <2> QED BY <1>2, <1>3, <2>1 DEF Walked
<1>5. ASSUME NEW b \in busy, b \notin B PROVE ~Overlap(b, f)
  BY <1>4, <1>5 DEF Touching, Gap, Overlap, Slots
<1> QED BY <1>4, <1>5 DEF Gap

(* A stretch of a window that no booking touches is in one free piece.     *)
Covers(f, s) == f.start <= s.start /\ f.end >= s.end
Reaches(cut, s) == cut.cursor <= s.start \/ \E f \in cut.free : Covers(f, s)
LEMMA CutReaches ==
    ASSUME NEW cut, NEW b \in Slots, NEW s \in Slots, s.start < s.end, cut.cursor \in Nat,
           Reaches(cut, s), ~Overlap(b, s)
    PROVE  Reaches(CutAt(cut, b), s)
<1> DEFINE new == CutAt(cut, b)
           gap == [start |-> cut.cursor, end |-> b.start]
<1>1. /\ new.cursor = IF b.end > cut.cursor THEN b.end ELSE cut.cursor
      /\ new.free = IF b.start > cut.cursor THEN cut.free \cup {gap} ELSE cut.free
  BY DEF CutAt
<1>2. b.start \in Nat /\ b.end \in Nat /\ s.start \in Nat /\ s.end \in Nat
  BY DEF Slots
<1>3. CASE cut.cursor <= s.start
  <2>1. b.end <= s.start \/ s.end <= b.start
    BY <1>2 DEF Overlap
  <2>2. CASE b.end <= s.start
    BY <1>1, <1>2, <1>3, <2>2 DEF Reaches
  <2>3. CASE s.end <= b.start
    <3>1. b.start > cut.cursor
      BY <1>2, <1>3, <2>3
    <3>2. gap \in new.free /\ Covers(gap, s)
      BY <1>1, <1>2, <1>3, <2>3, <3>1 DEF Covers
    <3> QED BY <3>2 DEF Reaches
  <2> QED BY <2>1, <2>2, <2>3
<1>4. CASE \E f \in cut.free : Covers(f, s)
  BY <1>1, <1>4 DEF Reaches
<1> QED BY <1>3, <1>4 DEF Reaches

LEMMA FreeIsAll ==
    ASSUME NEW w \in Slots, NEW busy \in SUBSET Slots, IsFiniteSet(busy),
           NEW s \in Slots, s.start < s.end, Covers(w, s), \A b \in busy : ~Overlap(b, s)
    PROVE  \E f \in FreeOf(w, busy) : Covers(f, s)
<1> DEFINE B == Touching(w, busy)
<1>1. B \in SUBSET Slots /\ IsFiniteSet(B) /\ \A b \in B : Overlap(b, w) /\ ~Overlap(b, s)
  BY FS_Subset DEF Touching
<1> HIDE DEF B
<1>2. PICK g : Walks(w, B, g) /\ Walk(w, B) = g[B]
  BY <1>1, WalkUnfolds
<1> DEFINE T == {S \in SUBSET B : ~(g[S].cursor \in Nat /\ Reaches(g[S], s))}
<1>3. ASSUME T # {} PROVE FALSE
  <2>1. PICK S \in T : \A Q \in T : Q \subseteq S => Q = S
    <3>1. \A R \in T : IsFiniteSet(R)
      BY <1>1, FS_Subset
    <3> HIDE DEF T
    <3> QED BY <1>3, <3>1, SmallestSet
  <2>2. /\ S \in SUBSET B /\ g[S] = WalkStep(w, g, S) /\ IsFiniteSet(S)
        /\ ~(g[S].cursor \in Nat /\ Reaches(g[S], s))
    BY <1>1, <1>2, FS_Subset DEF Walks
  <2>3. CASE S = {}
    <3>1. g[S] = NoCut(w)
      BY <2>2, <2>3 DEF WalkStep
    <3> QED BY <2>2, <2>3, <3>1 DEF Reaches, Covers, NoCut, Slots
  <2>4. CASE S # {}
    <3> DEFINE b == Latest(S)
               R == S \ {b}
    <3>1. b \in S
      BY <1>1, <2>2, <2>4, LatestIn
    <3>2. R \in SUBSET B /\ R # S /\ R \notin T /\ b \in Slots /\ ~Overlap(b, s)
      BY <1>1, <2>1, <2>2, <3>1
    <3>3. g[R].cursor \in Nat /\ Reaches(g[R], s)
      BY <3>2
    <3>4. g[S] = CutAt(g[R], b)
      BY <2>2, <2>4 DEF WalkStep
    <3> HIDE DEF b, R
    <3>5. Reaches(CutAt(g[R], b), s)
      BY <3>2, <3>3, CutReaches
    <3>6. CutAt(g[R], b).cursor \in Nat
      BY <3>2, <3>3 DEF CutAt, Slots
    <3> QED BY <2>2, <3>4, <3>5, <3>6
  <2> QED BY <2>3, <2>4
<1>4. Walk(w, B).cursor \in Nat /\ Reaches(Walk(w, B), s)
  BY <1>2, <1>3
<1> DEFINE last == [start |-> Walk(w, B).cursor, end |-> w.end]
<1>5. FreeOf(w, busy) = Walk(w, B).free \cup (IF Walk(w, B).cursor < w.end THEN {last} ELSE {})
  BY DEF FreeOf, B
<1>6. CASE Walk(w, B).cursor <= s.start
  <2>1. Walk(w, B).cursor < w.end /\ Covers(last, s)
    BY <1>4, <1>6 DEF Covers, Slots
  <2> QED BY <1>5, <2>1
<1>7. CASE \E f \in Walk(w, B).free : Covers(f, s)
  BY <1>5, <1>7
<1> QED BY <1>4, <1>6, <1>7 DEF Reaches
-----------------------------------------------------------------------------
(* The ends of a set of numbers.                                           *)
LEMMA MaxIn ==
    ASSUME NEW S \in SUBSET Int, IsFiniteSet(S), S # {}
    PROVE  Max(S) \in S /\ \A x \in S : x <= Max(S)
<1> DEFINE Bad(R) == R # {} /\ ~\E m \in R : \A x \in R : x <= m
           T == {R \in SUBSET S : Bad(R)}
<1>1. ASSUME T # {} PROVE FALSE
  <2>1. \A R \in T : IsFiniteSet(R)
    BY FS_Subset
  <2>2. PICK R \in T : \A Q \in T : Q \subseteq R => Q = R
    <3> HIDE DEF T
    <3> QED BY <1>1, <2>1, SmallestSet
  <2>3. PICK b : b \in R
    OBVIOUS
  <2>4. R \ {b} \notin T
    BY <2>2, <2>3
  <2>5. R = {b} \/ \E a \in R \ {b} : \A c \in R \ {b} : c <= a
    BY <2>3, <2>4
  <2>6. \A c \in R : c \in Int
    OBVIOUS
  <2>7. CASE R = {b}
    BY <2>6, <2>7
  <2>8. ASSUME NEW a \in R \ {b}, \A c \in R \ {b} : c <= a
        PROVE  FALSE
    <3>1. CASE b <= a
      BY <2>8, <3>1
    <3>2. CASE a <= b
      <4>1. \A c \in R : c <= b
        BY <2>3, <2>6, <2>8, <3>2
      <4> QED BY <2>3, <4>1
    <3> QED BY <2>3, <2>6, <3>1, <3>2
  <2> QED BY <2>5, <2>7, <2>8
<1>2. \E m \in S : \A x \in S : m >= x
  BY <1>1
<1>3. Max(S) \in S /\ \A x \in S : Max(S) >= x
  BY <1>2 DEF Max
<1> QED BY <1>3

(* What a function makes of a finite set is finite.                        *)
LEMMA ImageIsFinite ==
    ASSUME NEW S, IsFiniteSet(S), NEW f, f = [x \in S |-> f[x]]
    PROVE  IsFiniteSet({f[x] : x \in S})
<1> DEFINE T == {f[x] : x \in S}
<1>1. f \in Surjection(S, T)
  BY DEF Surjection
<1> QED BY <1>1, FS_Surjection

LEMMA MinIn ==
    ASSUME NEW S \in SUBSET Int, IsFiniteSet(S), S # {}
    PROVE  Min(S) \in S /\ \A x \in S : Min(S) <= x
<1> DEFINE neg == [x \in S |-> -x]
           N == {neg[x] : x \in S}
<1>1. \A x \in S : neg[x] = -x /\ neg[x] \in Int /\ neg[x] \in N
  OBVIOUS
<1>2. N \in SUBSET Int /\ N # {}
  BY <1>1
<1>3. IsFiniteSet(N)
  <2>1. neg = [x \in S |-> neg[x]]
    OBVIOUS
  <2> HIDE DEF neg
  <2> QED BY <2>1, ImageIsFinite
<1>4. Max(N) \in N /\ \A x \in N : x <= Max(N)
  <2> HIDE DEF N
  <2> QED BY <1>2, <1>3, MaxIn
<1>5. PICK m \in S : Max(N) = -m
  BY <1>1, <1>4
<1>6. \A x \in S : m <= x
  <2> TAKE x \in S
  <2>1. -x <= -m
    BY <1>1, <1>4, <1>5
  <2> QED BY <2>1
<1> QED BY <1>5, <1>6 DEF Min

LEMMA ProductGrows ==
    ASSUME NEW w \in Nat, NEW x \in Int, NEW y \in Int, NEW s \in Nat, NEW t \in Nat, x <= y
    PROVE  w * x * s * t <= w * y * s * t
<1>1. PICK k \in Nat : y = x + k
  <2>1. y - x \in Nat /\ y = x + (y - x)
    OBVIOUS
  <2> QED BY <2>1
<1>2. w * k \in Nat
  OBVIOUS
<1>3. w * k * s \in Nat
  BY <1>2
<1>4. w * k * s * t \in Nat
  BY <1>3
<1>5. w * y * s * t = w * x * s * t + w * k * s * t
  BY <1>1
<1>6. w * x * s * t \in Int
  OBVIOUS
<1> QED BY <1>4, <1>5, <1>6

(* normalize: what is better by a value is not worse by its share.         *)
LEMMA NormalizeKeepsOrder ==
    ASSUME NEW S \in SUBSET Int, IsFiniteSet(S), NEW u \in S, NEW v \in S, u <= v
    PROVE  /\ Scale(S) \in Nat
           /\ Normalize(u, S, FALSE) \in Int /\ Normalize(v, S, FALSE) \in Int
           /\ Normalize(u, S, TRUE) \in Int /\ Normalize(v, S, TRUE) \in Int
           /\ Normalize(u, S, FALSE) <= Normalize(v, S, FALSE)
           /\ Normalize(v, S, TRUE) <= Normalize(u, S, TRUE)
<1>1. /\ Max(S) \in Int /\ Min(S) \in Int /\ Min(S) <= Max(S)
      /\ u \in Int /\ v \in Int
  BY MaxIn, MinIn
<1>2. Spread(S) \in Nat
  BY <1>1 DEF Spread
<1> QED BY <1>1, <1>2 DEF Scale, Normalize

(* rank, for a pool of any size and a request of any length: a node that   *)
(* is no worse in all three respects is not ranked below.                  *)
LEMMA NoWorseNoLower ==
    ASSUME NEW pool \in SUBSET Candidate, IsFiniteSet(pool), NEW hours \in Nat, NEW mode \in MODES,
           NEW c \in pool, NEW d \in pool, ExpectedCost(c, hours) <= ExpectedCost(d, hours),
           c.perf >= d.perf, c.reliability >= d.reliability
    PROVE  Score(c, pool, hours, mode) >= Score(d, pool, hours, mode)
<1> DEFINE costs == {ExpectedCost(e, hours) : e \in pool}
           perfs == {e.perf : e \in pool}
           rels  == {e.reliability : e \in pool}
           w == Weight(mode)
           cc == Normalize(ExpectedCost(c, hours), costs, TRUE)
           dc == Normalize(ExpectedCost(d, hours), costs, TRUE)
           cp == Normalize(c.perf, perfs, FALSE)
           dp == Normalize(d.perf, perfs, FALSE)
           cr == Normalize(c.reliability, rels, FALSE)
           dr == Normalize(d.reliability, rels, FALSE)
<1>1. \A e \in pool : ExpectedCost(e, hours) \in Int /\ e.perf \in Int /\ e.reliability \in Int
  <2> TAKE e \in pool
  <2>1. e.price \in Nat /\ e.perf \in Nat /\ e.reliability \in Nat
    BY SchedulerAssumption DEF Candidate, Whole
  <2>2. Clamped(e.reliability) \in Nat \ {0}
    BY <2>1, SchedulerAssumption DEF Clamped, Whole
  <2>3. Unit \div Clamped(e.reliability) \in Int
    BY <2>2, SchedulerAssumption
  <2> QED BY <2>1, <2>3 DEF ExpectedCost
<1>2. /\ costs \in SUBSET Int /\ perfs \in SUBSET Int /\ rels \in SUBSET Int
      /\ IsFiniteSet(costs) /\ IsFiniteSet(perfs) /\ IsFiniteSet(rels)
      /\ ExpectedCost(c, hours) \in costs /\ ExpectedCost(d, hours) \in costs
      /\ c.perf \in perfs /\ d.perf \in perfs /\ c.reliability \in rels /\ d.reliability \in rels
  <2> DEFINE fc == [e \in pool |-> ExpectedCost(e, hours)]
             fp == [e \in pool |-> e.perf]
             fr == [e \in pool |-> e.reliability]
  <2>1. /\ costs = {fc[e] : e \in pool} /\ perfs = {fp[e] : e \in pool}
        /\ rels = {fr[e] : e \in pool}
    OBVIOUS
  <2>2. /\ fc = [e \in pool |-> fc[e]] /\ fp = [e \in pool |-> fp[e]]
        /\ fr = [e \in pool |-> fr[e]]
    OBVIOUS
  <2>3. /\ costs \in SUBSET Int /\ perfs \in SUBSET Int /\ rels \in SUBSET Int
        /\ ExpectedCost(c, hours) \in costs /\ ExpectedCost(d, hours) \in costs
        /\ c.perf \in perfs /\ d.perf \in perfs /\ c.reliability \in rels /\ d.reliability \in rels
    BY <1>1
  <2> HIDE DEF fc, fp, fr
  <2>4. IsFiniteSet({fc[e] : e \in pool})
    BY <2>2, ImageIsFinite
  <2>5. IsFiniteSet({fp[e] : e \in pool})
    BY <2>2, ImageIsFinite
  <2>6. IsFiniteSet({fr[e] : e \in pool})
    BY <2>2, ImageIsFinite
  <2> HIDE DEF costs, perfs, rels
  <2> QED BY <2>1, <2>3, <2>4, <2>5, <2>6
<1>3. w.cost \in Nat /\ w.perf \in Nat /\ w.reliability \in Nat
  BY DEF Weight, MODES
<1>4. /\ Score(c, pool, hours, mode) = w.cost * cc * Scale(perfs) * Scale(rels)
           + w.perf * cp * Scale(costs) * Scale(rels)
           + w.reliability * cr * Scale(costs) * Scale(perfs)
      /\ Score(d, pool, hours, mode) = w.cost * dc * Scale(perfs) * Scale(rels)
           + w.perf * dp * Scale(costs) * Scale(rels)
           + w.reliability * dr * Scale(costs) * Scale(perfs)
  BY DEF Score
<1> HIDE DEF costs, perfs, rels, w
<1>5. d.perf <= c.perf /\ d.reliability <= c.reliability
  BY <1>1
<1>6. Scale(costs) \in Nat /\ dc \in Int /\ cc \in Int /\ dc <= cc
  BY <1>2, NormalizeKeepsOrder
<1>7. Scale(perfs) \in Nat /\ dp \in Int /\ cp \in Int /\ dp <= cp
  BY <1>2, <1>5, NormalizeKeepsOrder
<1>8. Scale(rels) \in Nat /\ dr \in Int /\ cr \in Int /\ dr <= cr
  BY <1>2, <1>5, NormalizeKeepsOrder
<1> HIDE DEF cc, dc, cp, dp, cr, dr
<1>9. w.cost * dc * Scale(perfs) * Scale(rels) <= w.cost * cc * Scale(perfs) * Scale(rels)
  BY <1>3, <1>6, <1>7, <1>8, ProductGrows
<1>10. w.perf * dp * Scale(costs) * Scale(rels) <= w.perf * cp * Scale(costs) * Scale(rels)
  BY <1>3, <1>6, <1>7, <1>8, ProductGrows
<1>11. w.reliability * dr * Scale(costs) * Scale(perfs)
        <= w.reliability * cr * Scale(costs) * Scale(perfs)
  BY <1>3, <1>6, <1>7, <1>8, ProductGrows
<1>12. \A x1, x2, x3, y1, y2, y3 \in Int :
          x1 <= y1 /\ x2 <= y2 /\ x3 <= y3 => y1 + y2 + y3 >= x1 + x2 + x3
  OBVIOUS
<1>13. /\ w.cost * dc * Scale(perfs) * Scale(rels) \in Int
       /\ w.cost * cc * Scale(perfs) * Scale(rels) \in Int
       /\ w.perf * dp * Scale(costs) * Scale(rels) \in Int
       /\ w.perf * cp * Scale(costs) * Scale(rels) \in Int
       /\ w.reliability * dr * Scale(costs) * Scale(perfs) \in Int
       /\ w.reliability * cr * Scale(costs) * Scale(perfs) \in Int
  BY <1>3, <1>6, <1>7, <1>8
<1> QED BY <1>4, <1>9, <1>10, <1>11, <1>12, <1>13
-----------------------------------------------------------------------------
(* Everything but the rows of the machines has its form.                   *)
ListTyped(l) ==
    /\ l.pc \in {"idle", "windows", "busy", "offers"}
    /\ l.req \in Requests /\ l.asOf \in Instants \cup {0}
    /\ l.nodes \subseteq Machines
    /\ \A o \in l.declared \cup l.offers : o.m \in Machines /\ o.slot \in Slots
    /\ l.known \subseteq Resv
BookTyped(k) == /\ k.pc \in {"idle", "asked"} /\ k.m \in Machines \cup {None}
                /\ k.pc = "asked" => k.slot \in Slots
ProvRow == [pc : {"idle", "insert", "reactivate", "retire"}, m : Machines \cup {None}]
Typed ==
    /\ now \in Instants /\ hub \in [Machines -> BOOLEAN] /\ late \subseteq Resv
    /\ windows \in [Machines -> SUBSET Declared]
    /\ row \in [Resv -> Row \cup {None}] /\ prov \in [Providers -> ProvRow]
    /\ \A b \in Buyers : ListTyped(list[b]) /\ BookTyped(book[b])

(* What a search has read: windows that were declared, rows that exist;    *)
(* and what it shows: declared, and not sold when the rows were read.      *)
Shown(l) ==
    /\ \A d \in l.declared : d.slot \in windows[d.m]
    /\ \A r \in l.known : row[r] # None
    /\ \A o \in l.offers :
          /\ \E w \in windows[o.m] : w.start <= o.slot.start /\ w.end >= o.slot.end
          /\ \A r \in l.known : row[r].m = o.m /\ Blocks(row[r].status) =>
                ~Overlap(Now(o, l.req, l.asOf), row[r].slot)
ReadsStand == \A b \in Buyers : Shown(list[b])
OffersInv == IInv /\ Typed /\ ReadsStand

LEMMA TypedIsType == IInv /\ Typed => TypeOK
BY DEF IInv, Enrolment, Typed, ListTyped, BookTyped, ProvRow, TypeOK

LEMMA RowFacts ==
    ASSUME NEW r \in Row
    PROVE  r # None /\ r.m \in Machines /\ r.slot \in Slots
           /\ r.status \in {"live", "completed", "over"}
BY MarketplaceAssumption DEF Row

LEMMA RequestFacts ==
    ASSUME NEW req \in Requests, req # None
    PROVE  req.slot \in Slots /\ req.slot.start < req.slot.end /\ req.budget \in Nat
BY MarketplaceAssumption DEF Requests, Request

LEMMA DeclaredFacts == \A w \in Declared : w \in Slots /\ w.start < w.end
BY MarketplaceAssumption

LEMMA InstantFacts ==
    Instants \cup {0} \subseteq Nat /\ Min(Instants) \in Instants
<1>1. Instants \in SUBSET Nat /\ Instants # {}
  BY MarketplaceAssumption
<1>2. PICK n \in Instants : \A k \in Instants : n <= k
  BY <1>1, LeastOf
<1>3. Min(Instants) \in Instants
  BY <1>2 DEF Min
<1> QED BY <1>1, <1>3

(* The slots of finitely many reservations.                                *)
LEMMA BusySlotsFinite ==
    ASSUME row \in [Resv -> Row \cup {None}], NEW m, NEW from
    PROVE  BusySlots(m, from) \in SUBSET Slots /\ IsFiniteSet(BusySlots(m, from))
<1> DEFINE R == {q \in Resv : /\ row[q] # None /\ row[q].m = m
                              /\ Blocks(row[q].status) /\ row[q].slot.end >= from}
           f == [r \in R |-> row[r].slot]
<1>1. IsFiniteSet(R)
  BY MarketplaceAssumption, FS_Subset
<1>2. BusySlots(m, from) = {f[r] : r \in R}
  BY DEF BusySlots
<1>3. \A r \in R : row[r].slot \in Slots
  BY RowFacts
<1>4. BusySlots(m, from) \in SUBSET Slots
  BY <1>3 DEF BusySlots
<1>5. IsFiniteSet({f[r] : r \in R})
  <2>1. f = [r \in R |-> f[r]]
    OBVIOUS
  <2> HIDE DEF f, R
  <2> QED BY <1>1, <2>1, ImageIsFinite
<1> QED BY <1>2, <1>4, <1>5

(* What is offered is declared, and was free when the bookings were read.  *)
LEMMA OfferIsFree ==
    ASSUME row \in [Resv -> Row \cup {None}], NEW m \in Machines, NEW D \in SUBSET Slots,
           NEW req \in Requests, NEW t \in Nat, NEW o \in OffersOf(m, D, req, t)
    PROVE  /\ o.m = m /\ o.slot \in Slots
           /\ \E w \in D : w.start <= o.slot.start /\ w.end >= o.slot.end
           /\ \A r \in Resv : row[r] # None /\ row[r].m = m /\ Blocks(row[r].status) =>
                ~Overlap(Now(o, req, t), row[r].slot)
<1> DEFINE from == IF req = None THEN t ELSE req.slot.start
           busy == BusySlots(m, from)
           free == SubtractBusy(D, busy)
<1>1. /\ busy \in SUBSET Slots /\ IsFiniteSet(busy)
      /\ \A r \in Resv : row[r] # None => row[r] \in Row /\ row[r].slot \in Slots
  BY BusySlotsFinite, RowFacts
<1>2. \A r \in Resv : row[r] # None /\ row[r].m = m /\ Blocks(row[r].status) =>
         row[r].slot \in busy \/ row[r].slot.end < from
  <2> SUFFICES ASSUME NEW r \in Resv, row[r] # None, row[r].m = m, Blocks(row[r].status),
                      ~(row[r].slot.end < from)
               PROVE  row[r].slot \in busy
    OBVIOUS
  <2>1. row[r].slot.end \in Nat /\ from \in Nat
    BY <1>1, RequestFacts DEF Slots
  <2>2. row[r].slot.end >= from
    BY <2>1
  <2> QED BY <2>2 DEF BusySlots
<1>3. \A f \in free : \E w \in D : Gap(f, w, busy)
  <2> TAKE f \in free
  <2>1. PICK w \in D : f \in FreeOf(w, busy)
    BY DEF SubtractBusy
  <2> HIDE DEF busy
  <2> QED BY <1>1, <2>1, FreeIsFree
<1> HIDE DEF busy, free
<1>4. PICK f \in free : /\ o.m = m
                        /\ IF req = None THEN o.slot = f
                           ELSE o.slot = req.slot /\ f.start <= o.slot.start /\ f.end >= o.slot.end
  BY DEF OffersOf, Offers, CoversWindow, free, busy
<1>5. PICK w \in D : Gap(f, w, busy)
  BY <1>3
<1>6. o.slot \in Slots
  BY <1>4, <1>5, RequestFacts DEF Gap
<1>7. /\ w.start \in Nat /\ w.end \in Nat /\ f.start \in Nat /\ f.end \in Nat
      /\ o.slot.start \in Nat /\ o.slot.end \in Nat
      /\ f.start <= o.slot.start /\ o.slot.end <= f.end
  BY <1>4, <1>5, <1>6 DEF Gap, Slots
<1>8. w.start <= o.slot.start /\ w.end >= o.slot.end
  BY <1>5, <1>7 DEF Gap
<1>9. ASSUME NEW r \in Resv, row[r] # None, row[r].m = m, Blocks(row[r].status)
      PROVE  ~Overlap(Now(o, req, t), row[r].slot)
  <2> DEFINE s == row[r].slot
             n == Now(o, req, t)
  <2>1. s.start \in Nat /\ s.end \in Nat
    BY <1>1, <1>9 DEF Slots
  <2>2. n.end = o.slot.end /\ n.start \in Nat /\ f.start <= n.start /\ from <= n.start
    <3>1. CASE req = None
      <4>1. n = [o.slot EXCEPT !.start = IF @ < t THEN t ELSE @]
        BY <3>1 DEF Now, Clip
      <4>2. n.end = o.slot.end /\ n.start = IF o.slot.start < t THEN t ELSE o.slot.start
        BY <1>6, <4>1 DEF Slots
      <4> HIDE DEF n
      <4>3. from = t
        BY <3>1
      <4> QED BY <1>7, <4>2, <4>3
    <3>2. CASE req # None
      <4>1. n = o.slot /\ from = o.slot.start
        BY <1>4, <3>2 DEF Now
      <4> HIDE DEF n, from
      <4> QED BY <1>7, <4>1
    <3> QED BY <3>1, <3>2
  <2> HIDE DEF n
  <2>3. ~Overlap(n, s)
    <3>1. CASE s \in busy
      <4>1. ~Overlap(s, f)
        BY <1>5, <3>1 DEF Gap
      <4> QED BY <1>7, <2>1, <2>2, <4>1 DEF Overlap
    <3>2. CASE s.end < from
      <4>1. from \in Nat
        BY RequestFacts DEF Slots
      <4> HIDE DEF from
      <4> QED BY <2>1, <2>2, <3>2, <4>1 DEF Overlap
    <3> QED BY <1>2, <1>9, <3>1, <3>2
  <2> QED BY <2>3 DEF n
<1> QED BY <1>4, <1>6, <1>8, <1>9

-----------------------------------------------------------------------------
(* Windows are only ever added, and a reservation keeps its machine and    *)
(* its slot, and does not block again once it is over: what was shown      *)
(* stands.                                                                 *)
LEMMA ShownStays ==
    ASSUME Typed, NEW l, ListTyped(l), Shown(l),
           \A m \in Machines : windows[m] \subseteq windows'[m],
           \A r \in Resv : row[r] # None =>
              /\ row'[r] # None /\ row'[r].m = row[r].m /\ row'[r].slot = row[r].slot
              /\ Blocks(row'[r].status) => Blocks(row[r].status)
    PROVE  Shown(l)'
<1>1. \A d \in l.declared \cup l.offers : windows[d.m] \subseteq windows'[d.m]
  BY DEF ListTyped
<1>2. \A r \in l.known : r \in Resv /\ row[r] # None
  BY DEF ListTyped, Shown
<1>3. \A d \in l.declared : d.slot \in windows'[d.m]
  BY <1>1 DEF Shown
<1>4. ASSUME NEW o \in l.offers
      PROVE  /\ \E w \in windows'[o.m] : w.start <= o.slot.start /\ w.end >= o.slot.end
             /\ \A r \in l.known : row'[r].m = o.m /\ Blocks(row'[r].status) =>
                  ~Overlap(Now(o, l.req, l.asOf), row'[r].slot)
  BY <1>1, <1>2 DEF Shown
<1> QED BY <1>2, <1>3, <1>4 DEF Shown

(* A step that touches neither windows nor reservations nor a search.      *)
LEMMA QuietKeeps ==
    ASSUME Typed, ReadsStand, UNCHANGED <<windows, row, list, late>>,
           now' \in Instants, hub' \in [Machines -> BOOLEAN], prov' \in [Providers -> ProvRow],
           \A b \in Buyers : BookTyped(book'[b])
    PROVE  Typed' /\ ReadsStand'
BY DEF Typed, BookTyped, ReadsStand, Shown

(* A search that goes one query further.                                   *)
LEMMA ListKeeps ==
    ASSUME IInv, Typed, ReadsStand, NEW b \in Buyers, NEW new, ListTyped(new), Shown(new),
           list' = [list EXCEPT ![b] = new],
           UNCHANGED <<now, hub, windows, row, prov, late>>,
           \A c \in Buyers : BookTyped(book'[c])
    PROVE  Typed' /\ ReadsStand'
<1>1. \A c \in Buyers : list'[c] = IF c = b THEN new ELSE list[c]
  BY DEF IInv, Enrolment
<1>2. \A c \in Buyers : ListTyped(list'[c])
  BY <1>1 DEF Typed
<1>3. Typed'
  BY <1>2 DEF Typed, ListTyped, BookTyped
<1>4. ASSUME NEW c \in Buyers PROVE Shown(list[c])'
  <2>1. Shown(list'[c])
    BY <1>1 DEF ReadsStand
  <2> QED BY <2>1 DEF Shown
<1> QED BY <1>3, <1>4 DEF ReadsStand

(* The reservations change.                                                *)
LEMMA RowsKeep ==
    ASSUME IInv, Typed, ReadsStand, row' \in [Resv -> Row \cup {None}],
           \A r \in Resv : row[r] # None =>
              /\ row'[r] # None /\ row'[r].m = row[r].m /\ row'[r].slot = row[r].slot
              /\ Blocks(row'[r].status) => Blocks(row[r].status),
           UNCHANGED <<now, hub, windows, prov, list>>, late' \subseteq Resv,
           \A c \in Buyers : BookTyped(book'[c])
    PROVE  Typed' /\ ReadsStand'
<1>1. Typed'
  BY DEF Typed, ListTyped, BookTyped
<1>2. ASSUME NEW c \in Buyers PROVE Shown(list[c])'
  <2>1. PICK l : l = list[c]
    OBVIOUS
  <2>2. ListTyped(l) /\ Shown(l)
    BY <2>1 DEF Typed, ReadsStand
  <2>3. \A m \in Machines : windows[m] \subseteq windows'[m]
    OBVIOUS
  <2>4. Shown(l)'
    BY <2>2, <2>3, ShownStays
  <2>5. list'[c] = l
    BY <2>1
  <2> QED BY <2>4, <2>5 DEF Shown
<1> QED BY <1>1, <1>2 DEF ReadsStand

-----------------------------------------------------------------------------
(* Enrolment, retirement and presence have nothing to do with a search.    *)
LEMMA NodeStepKeeps ==
    ASSUME OffersInv, NEW p, NEW m \in Machines \cup {None}, NEW price,
           \/ EnrolRead(p, m) \/ EnrolInsert(p, price) \/ Reactivate(p, price)
           \/ RetireCheck(p, m) \/ Retire(p) \/ SocketChanges(m) \/ PresenceWrite(m)
    PROVE  Typed' /\ ReadsStand'
<1>1. /\ UNCHANGED <<windows, row, list, book, late, now>>
      /\ \/ prov' = prov
         \/ \E new \in {Idle, [pc |-> "insert", m |-> m], [pc |-> "reactivate", m |-> m],
                        [pc |-> "retire", m |-> m]} : prov' = [prov EXCEPT ![p] = new]
      /\ hub' = hub \/ hub' = [hub EXCEPT ![m] = ~@]
  BY DEF EnrolRead, EnrolInsert, Reactivate, RetireCheck, Retire, SocketChanges, PresenceWrite
<1>2. prov' \in [Providers -> ProvRow]
  <2>1. ASSUME NEW new \in {Idle, [pc |-> "insert", m |-> m], [pc |-> "reactivate", m |-> m],
                            [pc |-> "retire", m |-> m]}
        PROVE  new \in ProvRow
    BY DEF Idle, ProvRow
  <2> QED BY <1>1, <2>1 DEF OffersInv, Typed
<1>3. hub' \in [Machines -> BOOLEAN]
  BY <1>1 DEF OffersInv, Typed
<1>4. \A c \in Buyers : BookTyped(book'[c])
  BY <1>1 DEF OffersInv, Typed
<1> QED BY <1>1, <1>2, <1>3, <1>4, QuietKeeps DEF OffersInv, Typed

(* A window that is added is one a provider may declare.                   *)
LEMMA AddKeeps ==
    ASSUME OffersInv, NEW p \in Providers, NEW m \in Machines, NEW w \in Declared,
           AddAvailability(p, m, w)
    PROVE  Typed' /\ ReadsStand'
<1>1. windows' \in [Machines -> SUBSET Declared] /\ \A k \in Machines : windows[k] \subseteq windows'[k]
  BY DEF OffersInv, Typed, AddAvailability
<1>2. UNCHANGED <<now, hub, row, prov, list, book, late>>
  BY DEF AddAvailability
<1>3. Typed'
  BY <1>1, <1>2 DEF OffersInv, Typed, ListTyped, BookTyped
<1>4. ASSUME NEW c \in Buyers PROVE Shown(list[c])'
  <2>1. PICK l : l = list[c]
    OBVIOUS
  <2>2. ListTyped(l) /\ Shown(l)
    BY <2>1 DEF OffersInv, Typed, ReadsStand
  <2>3. Shown(l)'
    BY <1>1, <1>2, <2>2, ShownStays DEF OffersInv
  <2>4. list'[c] = l
    BY <1>2, <2>1
  <2> QED BY <2>3, <2>4 DEF Shown
<1> QED BY <1>3, <1>4 DEF ReadsStand

(* The first query of a search: nothing is shown yet.                      *)
LEMMA ListNodesKeeps ==
    ASSUME OffersInv, NEW b \in Buyers, NEW req \in Requests, ListNodes(b, req)
    PROVE  Typed' /\ ReadsStand'
<1> DEFINE new == [NoList EXCEPT !.pc = "windows", !.req = req,
                                 !.asOf = IF req = None THEN now ELSE 0,
                                 !.nodes = OnlineNodes(req)]
<1>1. /\ new.pc = "windows" /\ new.req = req /\ new.asOf \in {now, 0}
      /\ new.nodes = OnlineNodes(req)
      /\ new.declared = {} /\ new.offers = {} /\ new.known = {}
  BY DEF NoList
<1>2. list' = [list EXCEPT ![b] = new] /\ UNCHANGED <<now, hub, windows, row, prov, book, late>>
  BY DEF ListNodes
<1> HIDE DEF new
<1>3. ListTyped(new) /\ Shown(new)
  BY <1>1 DEF OffersInv, Typed, ListTyped, Shown, OnlineNodes
<1>4. \A c \in Buyers : BookTyped(book'[c])
  BY <1>2 DEF OffersInv, Typed
<1> QED BY <1>2, <1>3, <1>4, ListKeeps DEF OffersInv

(* The second: what is read is declared.                                   *)
LEMMA ListWindowsKeeps ==
    ASSUME OffersInv, NEW b \in Buyers, ListWindows(b)
    PROVE  Typed' /\ ReadsStand'
<1> DEFINE l == list[b]
           declared == UNION {Offers(m, WindowsOf(m, l.req, l.asOf)) : m \in l.nodes}
           new == [pc |-> "busy", req |-> l.req, asOf |-> l.asOf, nodes |-> l.nodes,
                   declared |-> declared, offers |-> {}, known |-> {}]
<1>1. list' = [list EXCEPT ![b] = new] /\ UNCHANGED <<now, hub, windows, row, prov, book, late>>
  BY DEF ListWindows
<1>2. ListTyped(l)
  BY DEF OffersInv, Typed
<1>3. ASSUME NEW d \in declared
      PROVE  d.m \in Machines /\ d.slot \in windows[d.m] /\ d.slot \in Slots
  <2>1. PICK m \in l.nodes : d \in Offers(m, WindowsOf(m, l.req, l.asOf))
    OBVIOUS
  <2>2. m \in Machines /\ d.m = m /\ d.slot \in windows[m]
    BY <1>2, <2>1 DEF ListTyped, Offers, WindowsOf
  <2>3. windows[m] \subseteq Declared
    BY <2>2 DEF OffersInv, Typed
  <2> QED BY <2>2, <2>3, DeclaredFacts
<1> HIDE DEF declared
<1>4. ListTyped(new) /\ Shown(new)
  BY <1>2, <1>3 DEF ListTyped, Shown
<1>5. \A c \in Buyers : BookTyped(book'[c])
  BY <1>1 DEF OffersInv, Typed
<1> HIDE DEF new
<1> QED BY <1>1, <1>4, <1>5, ListKeeps DEF OffersInv

(* The third: what is shown was free when the reservations were read.      *)
LEMMA ListBusyKeeps ==
    ASSUME OffersInv, NEW b \in Buyers, ListBusy(b)
    PROVE  Typed' /\ ReadsStand'
<1> DEFINE l == list[b]
           declared(m) == {d.slot : d \in {x \in l.declared : x.m = m}}
           offers == UNION {OffersOf(m, declared(m), l.req, l.asOf) : m \in l.nodes}
           known == {r \in Resv : row[r] # None}
           new == [pc |-> "offers", req |-> l.req, asOf |-> l.asOf, nodes |-> {},
                   declared |-> {}, offers |-> offers, known |-> known]
<1>1. list' = [list EXCEPT ![b] = new] /\ UNCHANGED <<now, hub, windows, row, prov, book, late>>
  BY DEF ListBusy
<1>2. ListTyped(l) /\ Shown(l) /\ row \in [Resv -> Row \cup {None}]
  BY DEF OffersInv, Typed, ReadsStand
<1>3. l.asOf \in Nat /\ l.req \in Requests
  BY <1>2, InstantFacts DEF ListTyped
<1>4. ASSUME NEW o \in offers
      PROVE  /\ o.m \in Machines /\ o.slot \in Slots
             /\ \E w \in windows[o.m] : w.start <= o.slot.start /\ w.end >= o.slot.end
             /\ \A r \in known : row[r].m = o.m /\ Blocks(row[r].status) =>
                  ~Overlap(Now(o, l.req, l.asOf), row[r].slot)
  <2>1. PICK m \in l.nodes : o \in OffersOf(m, declared(m), l.req, l.asOf)
    OBVIOUS
  <2>2. m \in Machines
    BY <1>2 DEF ListTyped
  <2>3. declared(m) \in SUBSET Slots /\ declared(m) \subseteq windows[m]
    BY <1>2 DEF ListTyped, Shown
  <2> HIDE DEF declared, l
  <2>4. /\ o.m = m /\ o.slot \in Slots
        /\ \E w \in declared(m) : w.start <= o.slot.start /\ w.end >= o.slot.end
        /\ \A r \in Resv : row[r] # None /\ row[r].m = m /\ Blocks(row[r].status) =>
             ~Overlap(Now(o, l.req, l.asOf), row[r].slot)
    BY <1>2, <1>3, <2>1, <2>2, <2>3, OfferIsFree
  <2> QED BY <2>2, <2>3, <2>4
<1> HIDE DEF offers
<1>5. ListTyped(new) /\ Shown(new)
  BY <1>2, <1>4 DEF ListTyped, Shown
<1>6. \A c \in Buyers : BookTyped(book'[c])
  BY <1>1 DEF OffersInv, Typed
<1> HIDE DEF new
<1> QED BY <1>1, <1>5, <1>6, ListKeeps DEF OffersInv

(* A booking that is asked for or refused leaves all searches alone.       *)
LEMMA BookKeeps ==
    ASSUME OffersInv, NEW b \in Buyers,
           BookRefused(b) \/ \E m \in Machines, slot \in Asked : Book(b, m, slot)
    PROVE  Typed' /\ ReadsStand'
<1>1. BookTyped(NoBooking) /\ DOMAIN book = Buyers /\ \A c \in Buyers : BookTyped(book[c])
  BY DEF OffersInv, IInv, Enrolment, Typed, BookTyped, NoBooking
<1>2. CASE BookRefused(b)
  <2>1. \A c \in Buyers : BookTyped(book'[c])
    BY <1>1, <1>2 DEF BookRefused
  <2> QED BY <1>2, <2>1, QuietKeeps DEF BookRefused, OffersInv, Typed
<1>3. ASSUME NEW m \in Machines, NEW slot \in Asked, Book(b, m, slot)
      PROVE  Typed' /\ ReadsStand'
  <2> DEFINE new == [pc |-> "asked", m |-> m, slot |-> slot]
  <2>1. BookTyped(new)
    BY MarketplaceAssumption DEF BookTyped
  <2>2. book' = [book EXCEPT ![b] = new]
    BY <1>3 DEF Book
  <2> HIDE DEF new
  <2>3. \A c \in Buyers : BookTyped(book'[c])
    BY <1>1, <2>1, <2>2
  <2> QED BY <1>3, <2>3, QuietKeeps DEF Book, OffersInv, Typed
<1> QED BY <1>2, <1>3

(* A reservation is inserted, or ends.                                     *)
LEMMA RowStepKeeps ==
    ASSUME OffersInv, NEW b, NEW r \in Resv, NEW status \in {"completed", "over"},
           (b \in Buyers /\ BookInsert(b, r)) \/ RowEnds(r, status)
    PROVE  Typed' /\ ReadsStand'
<1>1. BookTyped(NoBooking) /\ DOMAIN book = Buyers /\ \A c \in Buyers : BookTyped(book[c])
  BY DEF OffersInv, IInv, Enrolment, Typed, BookTyped, NoBooking
<1>2. row \in [Resv -> Row \cup {None}] /\ late \subseteq Resv
  BY DEF OffersInv, Typed
<1>3. CASE b \in Buyers /\ BookInsert(b, r)
  <2> DEFINE new == [m |-> book[b].m, slot |-> book[b].slot, status |-> "live"]
  <2>1. book[b].m \in Machines /\ book[b].slot \in Slots
    BY <1>1, <1>3 DEF BookInsert, BookTyped, OffersInv, IInv, Enrolment
  <2>2. new \in Row
    BY <2>1 DEF Row
  <2>3. row' = [row EXCEPT ![r] = new] /\ row[r] = None
    BY <1>3 DEF BookInsert
  <2> HIDE DEF new
  <2>4. row' \in [Resv -> Row \cup {None}]
    BY <1>2, <2>2, <2>3
  <2>5. \A q \in Resv : row[q] # None => row'[q] = row[q]
    BY <1>2, <2>3
  <2>6. late' \subseteq Resv /\ \A c \in Buyers : BookTyped(book'[c])
    BY <1>1, <1>2, <1>3 DEF BookInsert
  <2>7. UNCHANGED <<now, hub, windows, prov, list>>
    BY <1>3 DEF BookInsert
  <2> QED BY <2>4, <2>5, <2>6, <2>7, RowsKeep DEF OffersInv
<1>4. CASE RowEnds(r, status)
  <2> DEFINE new == [m |-> row[r].m, slot |-> row[r].slot, status |-> status]
  <2>1. row[r] \in Row /\ row[r].status = "live"
    BY <1>2, <1>4 DEF RowEnds
  <2>2. new \in Row /\ new # None
    BY <2>1, RowFacts DEF Row
  <2>3. row' = [row EXCEPT ![r] = new] /\ new.m = row[r].m /\ new.slot = row[r].slot
    BY <1>4 DEF RowEnds
  <2> HIDE DEF new
  <2>4. row' \in [Resv -> Row \cup {None}]
    BY <1>2, <2>2, <2>3
  <2>5. \A q \in Resv : row[q] # None =>
              /\ row'[q] # None /\ row'[q].m = row[q].m /\ row'[q].slot = row[q].slot
              /\ Blocks(row'[q].status) => Blocks(row[q].status)
    BY <1>2, <2>1, <2>2, <2>3 DEF Blocks
  <2>6. late' \subseteq Resv /\ \A c \in Buyers : BookTyped(book'[c])
    BY <1>1, <1>2, <1>4 DEF RowEnds
  <2>7. UNCHANGED <<now, hub, windows, prov, list>>
    BY <1>4 DEF RowEnds
  <2> QED BY <2>4, <2>5, <2>6, <2>7, RowsKeep DEF OffersInv
<1> QED BY <1>3, <1>4

(* Every step keeps it.                                                    *)
LEMMA OffersStep == OffersInv /\ [Next]_vars => Typed' /\ ReadsStand'
<1> SUFFICES ASSUME OffersInv, [Next]_vars PROVE Typed' /\ ReadsStand'
  OBVIOUS
<1>1. ASSUME NEW p, NEW m \in Machines \cup {None}, NEW price,
             \/ EnrolRead(p, m) \/ EnrolInsert(p, price) \/ Reactivate(p, price)
             \/ RetireCheck(p, m) \/ Retire(p) \/ SocketChanges(m) \/ PresenceWrite(m)
      PROVE  Typed' /\ ReadsStand'
  BY <1>1, NodeStepKeeps
<1>2. ASSUME NEW p \in Providers, NEW m \in Machines, NEW w \in Declared, AddAvailability(p, m, w)
      PROVE  Typed' /\ ReadsStand'
  BY <1>2, AddKeeps
<1>3. ASSUME NEW b \in Buyers,
             \/ \E req \in Requests : ListNodes(b, req)
             \/ ListWindows(b) \/ ListBusy(b) \/ BookRefused(b)
             \/ \E m \in Machines, slot \in Asked : Book(b, m, slot)
      PROVE  Typed' /\ ReadsStand'
  BY <1>3, ListNodesKeeps, ListWindowsKeeps, ListBusyKeeps, BookKeeps
<1>4. ASSUME NEW b \in Buyers, NEW r \in Resv, BookInsert(b, r)
      PROVE  Typed' /\ ReadsStand'
  BY <1>4, RowStepKeeps
<1>5. ASSUME NEW r \in Resv, NEW status \in {"completed", "over"}, RowEnds(r, status)
      PROVE  Typed' /\ ReadsStand'
  BY <1>5, RowStepKeeps
<1>6. CASE Tick \/ UNCHANGED vars
  <2>1. /\ UNCHANGED <<windows, row, list, book, hub, prov, late>> /\ now' \in Instants
        /\ \A b \in Buyers : BookTyped(book[b])
    BY <1>6 DEF Tick, vars, OffersInv, Typed
  <2>2. \A b \in Buyers : BookTyped(book'[b])
    BY <2>1
  <2> QED BY <2>1, <2>2, QuietKeeps DEF OffersInv, Typed
<1> QED BY <1>1, <1>2, <1>3, <1>4, <1>5, <1>6 DEF Next

(* Nothing is read or shown in the beginning.                              *)
LEMMA OffersStart == Init => Typed /\ ReadsStand
<1> SUFFICES ASSUME Init PROVE Typed /\ ReadsStand
  OBVIOUS
<1>1. Typed
  BY InstantFacts DEF Init, Typed, ListTyped, BookTyped, ProvRow, Idle, NoList, NoBooking, Requests
<1>2. ReadsStand
  BY DEF Init, ReadsStand, Shown, NoList
<1> QED BY <1>1, <1>2
-----------------------------------------------------------------------------
(* The strengthening is an invariant.                                      *)
THEOREM InductiveInvariant == Spec => []IInv
<1>1. Init => IInv
  BY Start
<1>2. IInv /\ [Next]_vars => IInv'
  BY Step
<1> QED BY <1>1, <1>2, PTL DEF Spec

(* No machine is retired from under a booking that was there when the      *)
(* retirement looked, however its check and its write interleave with      *)
(* bookings, enrolments and the presence writer.                           *)
THEOREM RetiredMachinesAreIdle == Spec => []RetiredIsIdle
<1>1. IInv => RetiredIsIdle
  BY Zenon DEF IInv
<1> QED BY <1>1, InductiveInvariant, PTL

(* No step hands the row of a machine to another account.                  *)
OwnersKept == \A m \in Machines :
    node[m] # None => node'[m] # None /\ node'[m].owner = node[m].owner
LEMMA OwnersKeep == IInv /\ [Next]_vars => [OwnersKept]_vars
<1> SUFFICES ASSUME IInv, Next PROVE OwnersKept
  OBVIOUS
<1>1. /\ node \in [Machines -> NodeRow \cup {None}]
      /\ \A p \in Providers : prov[p].pc # "idle" => prov[p].m \in Machines
      /\ \A p \in Providers : prov[p].pc \in {"reactivate", "retire"} => node[prov[p].m] # None
  BY DEF IInv, Enrolment
<1>2. ASSUME NEW k \in Machines, NEW s \in {"enrolling", "online", "offline", "draining"},
             NEW price \in Prices, node[k] # None,
             node' = [node EXCEPT ![k] = [owner |-> node[k].owner, status |-> s, price |-> price]]
      PROVE  OwnersKept
  <2> DEFINE new == [owner |-> node[k].owner, status |-> s, price |-> price]
  <2>1. new \in NodeRow /\ new # None /\ new.owner = node[k].owner
    BY <1>1, <1>2, MarketplaceAssumption DEF NodeRow
  <2>2. node' = [node EXCEPT ![k] = new]
    BY <1>2
  <2> HIDE DEF new
  <2> QED BY <1>1, <2>1, <2>2 DEF OwnersKept
<1>3. ASSUME NEW p \in Providers, NEW price \in Prices, EnrolInsert(p, price) PROVE OwnersKept
  BY <1>1, <1>3 DEF EnrolInsert, KeyTaken, OwnersKept
<1>4. ASSUME NEW p \in Providers, NEW price \in Prices, Reactivate(p, price) PROVE OwnersKept
  BY <1>1, <1>2, <1>4 DEF Reactivate, Enrolled
<1>5. ASSUME NEW p \in Providers, Retire(p) PROVE OwnersKept
  <2>1. prov[p].m \in Machines /\ node[prov[p].m] # None
    BY <1>1, <1>5 DEF Retire
  <2>2. node[prov[p].m].price \in Prices
    BY <1>1, <2>1 DEF NodeRow
  <2> QED BY <1>2, <1>5, <2>1, <2>2 DEF Retire, WithStatus
<1>6. ASSUME NEW m \in Machines, PresenceWrite(m) PROVE OwnersKept
  <2>1. node[m] # None /\ node[m].price \in Prices
    BY <1>1, <1>6 DEF PresenceWrite, NodeRow
  <2> QED BY <1>2, <1>6, <2>1 DEF PresenceWrite, WithStatus
<1>7. ASSUME UNCHANGED node PROVE OwnersKept
  BY <1>7 DEF OwnersKept
<1> QED BY <1>3, <1>4, <1>5, <1>6, <1>7
        DEF Next, EnrolRead, AddAvailability, RetireCheck, SocketChanges, ListNodes,
            ListWindows, ListBusy, Book, BookRefused, BookInsert, RowEnds, Tick

(* Whoever enrols a key first keeps it: no later enrolment, reactivation,  *)
(* retirement or presence write hands the row to another account.          *)
THEOREM OwnersStay == Spec => OwnerStays
<1>1. Spec => [][OwnersKept]_vars
  BY OwnersKeep, InductiveInvariant, PTL DEF Spec
<1> QED BY <1>1 DEF OwnersKept, OwnerStays

-----------------------------------------------------------------------------
(* The offers with what was read for them.                                 *)
THEOREM OffersInvariant == Spec => []OffersInv
<1>1. Init => OffersInv
  BY Start, OffersStart DEF OffersInv
<1>2. OffersInv /\ [Next]_vars => OffersInv'
  <2>1. OffersInv => IInv
    BY DEF OffersInv
  <2> QED BY <2>1, Step, OffersStep DEF OffersInv
<1> QED BY <1>1, <1>2, PTL DEF Spec

(* Every variable keeps its type.                                          *)
THEOREM TypeCorrect == Spec => []TypeOK
<1>1. OffersInv => TypeOK
  BY TypedIsType DEF OffersInv
<1> QED BY <1>1, OffersInvariant, PTL

(* GET /nodes and POST /search show nobody time that was sold when they    *)
(* read the reservations, or that no provider declared, however bookings,  *)
(* retirements and other searches run between their three queries, and for *)
(* any windows and any number of bookings that subtractBusy walks through. *)
THEOREM OffersAreFree == Spec => []OffersStand
<1>1. OffersInv => OffersStand
  BY DEF OffersInv, ReadsStand, Shown, OffersStand, Blocks
<1> QED BY <1>1, OffersInvariant, PTL

(* Whatever the catalogue shows of the time to come, a search for just     *)
(* that time and at just that price finds, though the two ask for other    *)
(* windows and other reservations.                                         *)
LEMMA CatalogueIsFound == OffersInv => CatalogueWithinSearch
<1> SUFFICES ASSUME OffersInv, NEW o \in Catalogue, o.slot.end > now
             PROVE  LET req == [slot |-> Clip(o.slot, now), budget |-> node[o.m].price]
                    IN  [m |-> o.m, slot |-> req.slot] \in Found(req)
  BY DEF CatalogueWithinSearch
<1> DEFINE c == Clip(o.slot, now)
           req == [slot |-> c, budget |-> node[o.m].price]
<1>1. /\ row \in [Resv -> Row \cup {None}] /\ now \in Nat
      /\ windows \in [Machines -> SUBSET Declared]
      /\ node \in [Machines -> NodeRow \cup {None}]
  BY InstantFacts DEF OffersInv, IInv, Enrolment, Typed
<1>2. PICK m \in OnlineNodes(None) : o \in OffersOf(m, WindowsOf(m, None, now), None, now)
  BY DEF Catalogue
<1>3. m \in Machines /\ node[m] \in NodeRow /\ node[m].status = "online" /\ node[m].price \in Nat
  <2>1. m \in Machines /\ node[m] \in NodeRow /\ node[m].status = "online"
    BY <1>1, <1>2 DEF OnlineNodes
  <2>2. node[m].price \in Prices
    BY <2>1 DEF NodeRow
  <2> QED BY <2>1, <2>2, MarketplaceAssumption
<1> DEFINE busy == BusySlots(m, now)
           later == BusySlots(m, c.start)
<1>4. o.m = m /\ hub[m] /\ o.slot \in SubtractBusy(WindowsOf(m, None, now), busy)
  BY <1>2 DEF OffersOf, Offers
<1>5. PICK w \in windows[m] : o.slot \in FreeOf(w, busy)
  BY <1>4 DEF SubtractBusy, WindowsOf
<1>6. w \in Slots /\ busy \in SUBSET Slots /\ IsFiniteSet(busy)
      /\ later \in SUBSET Slots /\ IsFiniteSet(later)
  BY <1>1, <1>3, <1>5, DeclaredFacts, BusySlotsFinite
<1> HIDE DEF busy
<1>7. Gap(o.slot, w, busy)
  BY <1>5, <1>6, FreeIsFree
<1>8. /\ o.slot \in Slots /\ o.slot.start < o.slot.end
      /\ w.start <= o.slot.start /\ o.slot.end <= w.end
      /\ \A b \in busy : ~Overlap(b, o.slot)
  BY <1>7 DEF Gap
<1>9. /\ c \in Slots /\ c.end = o.slot.end /\ c.start < c.end /\ now <= c.start
      /\ o.slot.start <= c.start
  <2>1. c = [start |-> IF o.slot.start < now THEN now ELSE o.slot.start, end |-> o.slot.end]
    BY <1>8 DEF Clip, Slots
  <2> HIDE DEF c
  <2> QED BY <1>1, <1>8, <2>1 DEF Slots
<1> HIDE DEF c
<1>10. \A b \in later : ~Overlap(b, c)
  <2> SUFFICES ASSUME NEW b \in later PROVE ~Overlap(b, c)
    OBVIOUS
  <2>1. PICK r \in Resv : /\ row[r] # None /\ row[r].m = m /\ Blocks(row[r].status)
                          /\ row[r].slot.end >= c.start /\ b = row[r].slot
    BY DEF BusySlots
  <2>2. b \in Slots
    BY <1>6
  <2>3. b.end >= now
    BY <1>1, <1>9, <2>1, <2>2 DEF Slots
  <2>4. b \in busy
    BY <2>1, <2>3 DEF BusySlots, busy
  <2> QED BY <1>8, <1>9, <2>2, <2>4 DEF Overlap, Slots
<1> HIDE DEF later
<1>11. w.start <= c.start /\ w.end >= c.end /\ c.start <= c.end
  BY <1>6, <1>8, <1>9 DEF Slots
<1>12. \E f \in FreeOf(w, later) : Covers(f, c)
  BY <1>6, <1>9, <1>10, <1>11, FreeIsAll DEF Covers
<1>13. req # None /\ req.slot = c /\ req.budget = node[m].price
  <2>1. req \in Request
    BY <1>3, <1>4, <1>9 DEF Request
  <2> QED BY <1>4, <2>1, MarketplaceAssumption
<1> HIDE DEF req
<1>14. m \in OnlineNodes(req)
  BY <1>3, <1>13, MarketplaceAssumption DEF OnlineNodes, NodeRow
<1>15. w \in WindowsOf(m, req, now)
  <2>1. w.end >= c.start /\ w.start <= c.end
    BY <1>6, <1>9, <1>11 DEF Slots
  <2> QED BY <1>5, <1>13, <2>1 DEF WindowsOf
<1>16. CoversWindow(SubtractBusy(WindowsOf(m, req, now), later), c)
  BY <1>12, <1>15 DEF CoversWindow, SubtractBusy, Covers
<1>17. [m |-> m, slot |-> c] \in OffersOf(m, WindowsOf(m, req, now), req, now)
  BY <1>4, <1>13, <1>16 DEF OffersOf, Offers, later
<1> QED BY <1>4, <1>13, <1>14, <1>17 DEF Found, c, req

(* nodeStore.js:42: the catalogue never advertises what search would       *)
(* refuse to return, whatever the windows, the bookings and the clock.     *)
THEOREM CatalogueIsSearchable == Spec => []CatalogueWithinSearch
BY OffersInvariant, CatalogueIsFound, PTL

(* In no mode and in no pool of the candidates, however many there are and *)
(* whatever their prices, scores and reliabilities, is a node ranked below *)
(* one that is no cheaper in expectation, no faster and no more reliable:  *)
(* normalising a pool keeps its order, and so does weighing.               *)
LEMMA Ranked == BetterRanksHigher
<1> SUFFICES ASSUME NEW pool \in SUBSET Candidates, NEW c \in pool, NEW d \in pool,
                    NEW mode \in MODES,
                    ExpectedCost(c, 1) <= ExpectedCost(d, 1),
                    c.perf >= d.perf, c.reliability >= d.reliability
             PROVE  Score(c, pool, 1, mode) >= Score(d, pool, 1, mode)
  BY DEF BetterRanksHigher, Pools
<1>1. pool \in SUBSET Candidate /\ IsFiniteSet(pool)
  BY MarketplaceAssumption, FS_Subset
<1> QED BY <1>1, NoWorseNoLower

(* So a better node ranks no lower.                                        *)
THEOREM BetterNodesRankHigher == Spec => []BetterRanksHigher
BY Ranked, PTL
=============================================================================
