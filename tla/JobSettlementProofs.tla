------------------------ MODULE JobSettlementProofs ------------------------
(***************************************************************************)
(* Proofs about JobSettlement.  What a settlement or an attribution rests  *)
(* on was read earlier, by a handler that other handlers overtake: the     *)
(* invariant says which of the things it read can no longer change.  A     *)
(* finished job keeps its result; a group that holds anything but its      *)
(* first leg holds both legs for good; and a tiebreak exists only for a    *)
(* pair that is settled.                                                   *)
(***************************************************************************)
EXTENDS JobSettlement, FiniteSetTheorems, TLAPS

Legs(g) == {<<g, 1>>, <<g, 2>>}
Done(j) == job[j] # None /\ job[j].status # "running"

(* A request knows its reservations and its group; while its leg is under  *)
(* way, the leg's job is not in the table.                                 *)
RequestWhole(q) ==
    /\ req[q].pc = "idle" => req[q].leg = 1
    /\ req[q].pc # "idle" =>
          /\ req[q].resv \in Resv
          /\ req[q].sib # None <=> q \in Verified
          /\ req[q].sib # None => NodeOf[req[q].sib] # NodeOf[req[q].resv]
          /\ q \in Submits => req[q].group = IF q \in Verified THEN q ELSE None
          /\ q \in Tiebreaks => req[q].group \in Submits
    /\ req[q].leg = 2 => q \in Verified /\ job[<<q, 1>>] # None
    /\ req[q].pc = "strip" => req[q].leg = 2
    /\ req[q].pc \in {"idle", "send", "awaiting", "insert", "strip"} => job[LegJob(q)] = None
    /\ req[q].pc = "mark" => job[LegJob(q)] # None
RequestsWhole == \A q \in Requests : RequestWhole(q)

(* A job carries what its request said, but for a first leg that lost its  *)
(* sibling; its result came over the wire once.                            *)
Stripped(j) == /\ job[j].group = None /\ j[2] = 1 /\ job[<<j[1], 2>>] = None
               /\ req[j[1]].pc = "done"
JobsWhole == \A j \in Jobs : job[j] # None =>
    /\ req[j[1]].pc # "idle"
    /\ j[2] = 2 => req[j[1]].leg = 2
    /\ job[j].resv = LegOf(j)
    /\ job[j].group = req[j[1]].group \/ Stripped(j)
    /\ job[j].status # "running" => wire[j] = "over"

(* Only a pair that is settled is contested.                               *)
Contested(g) == \E t \in Tiebreaks : req[t].pc # "idle" /\ req[t].group = g
ContestedWhole == \A g \in Submits : Contested(g) =>
    \A j \in Legs(g) : j \in Group(g) /\ settled[job[j].resv] # None

RowsMatch == \A r \in Resv :
    /\ row[r] \in Final => settled[r] = row[r]
    /\ row[r] = "running" => HasJob(r)

(* What entitles a handler to settle r as it does: unlike the property,    *)
(* it says that the results compared are final and the group closed.       *)
Justifies(j, r, as) ==
    /\ Done(j) /\ job[j].resv = r
    /\ IF as = "disputed"
       THEN /\ job[j].group # None
            /\ \E k, l \in Group(job[j].group) :
                  Done(k) /\ Done(l) /\ job[k].hash # job[l].hash
       ELSE /\ as = JobRowStatusToOutcome(job[j].status)
            /\ \A k \in Group(j[1]) : k[1] = j[1] => Done(k) /\ job[j].hash = job[k].hash
            /\ job[j].group = j[1] => Legs(j[1]) \subseteq Group(j[1])
Justified(r, as) == \E j \in Jobs : Justifies(j, r, as)
AllJustified == \A r \in Resv : settled[r] # None => Justified(r, settled[r])

(* A handler carries out only settlements that are justified, or that the  *)
(* idempotency key will refuse.                                            *)
HandlerWhole(h) ==
    /\ h.pc \in {"count", "compare", "resolve"} => h.group \in Submits
    /\ h.pc \in {"idle", "count", "compare", "resolve"} => h.tb = None
    /\ h.pc \in {"check", "txn"} => h.todo # <<>>
    /\ \A i \in 1 .. Len(h.todo) :
          settled[h.todo[i].resv] # None \/ Justified(h.todo[i].resv, h.todo[i].as)
    /\ h.pc = "attribute" => h.tb # None
    /\ h.tb # None => /\ h.group \in Submits /\ Legs(h.group) \subseteq Group(h.group)
                      /\ \A k \in h.orig \cup {h.tb} : Done(k)

(* A job has a handler once its result came over.                          *)
ResultsOver == \A j \in Jobs :
    handler[j] = NoHandler \/ (handler[j].pc # "idle" /\ job[j] # None /\ wire[j] = "over")

(* Where each reservation has one job: a reservation about to be marked    *)
(* running is not disputed, so the pair of a contested group stays         *)
(* disputed, and the tiebreak is held against that pair.                   *)
DisputeWaits(h) == \A q \in Requests :
    /\ req[q].pc = "mark" /\ Alone(LegJob(q))
    /\ h.pc = "txn" /\ h.todo[1].resv = LegResv(q)
    => h.todo[1].as # "disputed"
PairHeldBy(h) == h.tb # None /\ Single(h.group) =>
    h.orig = Legs(h.group) /\ h.tb \in Group(h.group) /\ h.tb[1] # h.group
HandlersSound == \A j \in Jobs :
    HandlerWhole(handler[j]) /\ DisputeWaits(handler[j]) /\ PairHeldBy(handler[j])

NotYetDisputed == \A q \in Requests : req[q].pc = "mark" /\ Alone(LegJob(q)) =>
    row[LegResv(q)] \notin {"running", "disputed"}
PairStays == \A g \in Submits : Contested(g) /\ Single(g) =>
    \A j \in Legs(g) : row[job[j].resv] = "disputed"
ThirdNode == \A t \in Tiebreaks : req[t].pc # "idle" /\ Single(req[t].group) =>
    \A j \in Legs(req[t].group) : NodeOf[job[j].resv] # NodeOf[req[t].resv]

BlamedIsDone == \A g \in Submits : resolution[g] # None /\ resolution[g].atFault # None =>
    Done(resolution[g].atFault) /\ Legs(g) \subseteq Group(g)
FaultStands == \A g \in Submits :
    resolution[g] # None /\ resolution[g].atFault # None /\ Single(g) =>
       LET f == resolution[g].atFault
           v == resolution[g].vindicated
           t == resolution[g].tb
       IN /\ {f, v} = Legs(g) /\ t \in Group(g) /\ t[1] # g
          /\ Done(f) /\ Done(v) /\ Done(t)
          /\ Match(v, t) /\ ~Match(f, t)

IInv == /\ TypeOK /\ RequestsWhole /\ JobsWhole /\ ContestedWhole /\ RowsMatch
        /\ AllJustified /\ ResultsOver /\ HandlersSound /\ NotYetDisputed /\ PairStays /\ ThirdNode
        /\ BlamedIsDone /\ FaultStands
-----------------------------------------------------------------------------
(***************************************************************************)
(* Facts about the operators of the model.                                 *)
(***************************************************************************)
LEMMA StatusFacts ==
    /\ \A x \in ExecStatus :
          /\ MapJobStatus(x) \in {"succeeded", "failed_user", "failed_provider"}
          /\ JobStatusToSettlement(x) = JobRowStatusToOutcome(MapJobStatus(x))
    /\ \A s \in {"succeeded", "failed_user", "failed_provider"} :
          JobRowStatusToOutcome(s) \in Final \ {"disputed"}
  BY DEF ExecStatus, MapJobStatus, JobStatusToSettlement, JobRowStatusToOutcome, Final

LEMMA TransitionFacts ==
    \A from, to : CanTransition(from, to) =>
       /\ from \in {"confirmed", "running"}
       /\ to = "disputed" => from = "running"
  BY DEF CanTransition, Edges

LEMMA RowFacts ==
    ASSUME TypeOK, NEW j \in Jobs, job[j] # None
    PROVE  /\ job[j] \in JobRow
           /\ job[j].resv \in Resv
           /\ job[j].group \in Submits \cup {None}
           /\ job[j].status \in {"running", "succeeded", "failed_user", "failed_provider"}
  BY DEF TypeOK, JobRow

LEMMA NoneFacts ==
    /\ None \notin Resv /\ None \notin Requests /\ None \notin Jobs /\ None \notin JobRow
    /\ None \notin ResolutionRow /\ None \notin Final
  BY SettlementAssumption

LEMMA PairFacts ==
    /\ \A j \in Jobs : /\ j[1] \in Requests /\ j[2] \in {1, 2} /\ j = <<j[1], j[2]>>
    /\ \A q \in Requests, i \in {1, 2} :
          <<q, i>> \in Jobs /\ <<q, i>>[1] = q /\ <<q, i>>[2] = i
    /\ \A q \in Submits : q \in Requests /\ q \notin Tiebreaks
    /\ \A q \in Tiebreaks : q \in Requests /\ q \notin Submits
    /\ Verified \subseteq Submits
  BY SettlementAssumption DEF Jobs, Requests

LEMMA Finiteness ==
    /\ IsFiniteSet(Jobs)
    /\ \A S \in SUBSET Jobs : IsFiniteSet(S) /\ Cardinality(S) \in Nat
<1>1. IsFiniteSet({1, 2})
  <2>1. IsFiniteSet({1} \cup {2})
    BY FS_Singleton, FS_AddElement
  <2>2. {1} \cup {2} = {1, 2}
    OBVIOUS
  <2> QED
    BY <2>1, <2>2
<1>2. IsFiniteSet(Jobs)
  BY <1>1, SettlementAssumption, FS_Product DEF Jobs
<1>3. ASSUME NEW S \in SUBSET Jobs PROVE IsFiniteSet(S) /\ Cardinality(S) \in Nat
  <2>1. IsFiniteSet(S)
    BY <1>2, FS_Subset
  <2> QED
    BY <2>1, FS_CardinalityType
<1> QED
  BY <1>2, <1>3

LEMMA TwoOf ==
    ASSUME NEW S, IsFiniteSet(S), NEW a \in S, NEW b \in S, a # b, Cardinality(S) = 2
    PROVE  S = {a, b}
<1>1. IsFiniteSet({a}) /\ Cardinality({a}) = 1
  BY FS_Singleton
<1>2. IsFiniteSet({a} \cup {b}) /\ Cardinality({a} \cup {b}) = 2
  <2>1. b \notin {a}
    OBVIOUS
  <2>2. IsFiniteSet({a} \cup {b}) /\ Cardinality({a} \cup {b}) = Cardinality({a}) + 1
    BY <1>1, <2>1, FS_AddElement
  <2> QED
    BY <1>1, <2>2
<1>3. {a} \cup {b} \in SUBSET S
  OBVIOUS
<1> QED
  BY <1>2, <1>3, FS_Subset

(* Who is in a group: its legs, and tiebreaks once the pair is settled.    *)
IsTiebreakOf(t, g) == /\ t[1] \in Tiebreaks /\ t[2] = 1
                      /\ req[t[1]].pc # "idle" /\ req[t[1]].group = g
                      /\ job[t].resv = req[t[1]].resv /\ Contested(g)
LEMMA GroupShape ==
    ASSUME IInv, NEW g \in Submits, NEW j \in Group(g)
    PROVE  /\ j = <<g, 1>> \/ j = <<g, 2>> \/ IsTiebreakOf(j, g)
           /\ j # <<g, 1>> => Legs(g) \subseteq Group(g)
<1>1. j \in Jobs /\ job[j] # None /\ job[j].group = g
  BY DEF Group
<1>2. g # None
  BY NoneFacts DEF Requests
<1>3. req[j[1]].pc # "idle" /\ req[j[1]].group = g /\ job[j].resv = LegOf(j)
  <2>1. /\ req[j[1]].pc # "idle" /\ job[j].resv = LegOf(j)
        /\ job[j].group = req[j[1]].group \/ Stripped(j)
    BY <1>1 DEF IInv, JobsWhole
  <2> QED
    BY <1>1, <1>2, <2>1 DEF Stripped
<1>4. CASE j[1] \in Submits
  <2>1. j[1] = g /\ g \in Verified
    <3>1. j[1] \in Requests
      BY <1>1, PairFacts
    <3>2. req[j[1]].group = IF j[1] \in Verified THEN j[1] ELSE None
      BY <3>1, <1>3, <1>4 DEF IInv, RequestsWhole, RequestWhole
    <3> QED
      BY <3>2, <1>2, <1>3
  <2>2. CASE j[2] = 1
    BY <2>1, <2>2, <1>1, PairFacts
  <2>3. CASE j[2] = 2
    <3>1. j = <<g, 2>> /\ req[g].leg = 2 /\ job[<<g, 1>>] # None
      BY <2>1, <2>3, <1>1, PairFacts DEF IInv, JobsWhole, RequestsWhole, RequestWhole
    <3>2. job[<<g, 1>>].group = g
      BY <3>1, <2>1, <1>1, <1>3, PairFacts DEF IInv, JobsWhole, Stripped
    <3> QED
      BY <3>1, <3>2, <1>1, PairFacts DEF Legs, Group
  <2> QED
    BY <2>2, <2>3, <1>1, PairFacts
<1>5. CASE j[1] \in Tiebreaks
  <2>1. j[2] = 1
    BY <1>1, <1>5, PairFacts DEF IInv, JobsWhole, RequestsWhole, RequestWhole
  <2>2. Contested(g)
    BY <1>3, <1>5 DEF Contested
  <2> QED
    BY <1>3, <1>5, <2>1, <2>2 DEF IsTiebreakOf, LegOf, IInv, ContestedWhole
<1> QED
  BY <1>1, <1>4, <1>5, PairFacts DEF Requests

LEMMA PairPresent ==
    ASSUME IInv, NEW g \in Submits, Cardinality(Group(g)) >= 2
    PROVE  Legs(g) \subseteq Group(g)
<1>1. SUFFICES ASSUME Group(g) \subseteq {<<g, 1>>} PROVE FALSE
  BY GroupShape
<1>2. IsFiniteSet({<<g, 1>>}) /\ Cardinality({<<g, 1>>}) = 1
  BY FS_Singleton
<1>3. Group(g) \in SUBSET Jobs
  BY DEF Group
<1> QED
  BY <1>1, <1>2, <1>3, FS_Subset, Finiteness

(* The leg a request is at is a job of its own.                            *)
LEMMA LegIsJob ==
    ASSUME IInv, NEW p \in Requests
    PROVE  /\ req[p] \in RequestState /\ RequestWhole(p)
           /\ LegJob(p) \in Jobs /\ <<p, 1>> \in Jobs
<1>1. req[p] \in RequestState
  BY DEF IInv, TypeOK
<1>2. RequestWhole(p)
  BY DEF IInv, RequestsWhole
<1>3. req[p].leg \in {1, 2}
  BY <1>1 DEF RequestState
<1> QED
  BY <1>1, <1>2, <1>3, PairFacts DEF LegJob

LEMMA LegsFacts ==
    ASSUME NEW g \in Submits
    PROVE  <<g, 1>> # <<g, 2>> /\ Legs(g) \subseteq Jobs /\ \A j \in Legs(g) : j[1] = g
<1>1. g \in Requests
  BY PairFacts
<1>2. /\ <<g, 1>> \in Jobs /\ <<g, 1>>[1] = g /\ <<g, 1>>[2] = 1
      /\ <<g, 2>> \in Jobs /\ <<g, 2>>[1] = g /\ <<g, 2>>[2] = 2
  BY <1>1, PairFacts
<1> QED
  BY <1>2 DEF Legs
-----------------------------------------------------------------------------
(***************************************************************************)
(* Steps that leave the tables alone.                                      *)
(***************************************************************************)
LEMMA SameJobs ==
    ASSUME UNCHANGED job
    PROVE  /\ \A g : Group(g)' = Group(g) /\ (Single(g)' <=> Single(g))
           /\ \A j : (Done(j)' <=> Done(j)) /\ (Alone(j)' <=> Alone(j))
           /\ \A r, as : Justified(r, as)' <=> Justified(r, as)
           /\ \A j, k : Match(j, k)' <=> Match(j, k)
           /\ \A r : HasJob(r)' <=> HasJob(r)
<1>1. \A g : Group(g)' = Group(g)
  BY DEF Group
<1>2. \A j : (Done(j)' <=> Done(j)) /\ (Alone(j)' <=> Alone(j))
  <2>1. \A j : Done(j)' <=> Done(j)
    BY DEF Done
  <2>2. \A j : Alone(j)' <=> Alone(j)
    BY DEF Alone
  <2> QED
    BY <2>1, <2>2
<1>3. \A g : Single(g)' <=> Single(g)
  BY <1>1, <1>2 DEF Single
<1>4. ASSUME NEW j, NEW r, NEW as PROVE Justifies(j, r, as)' <=> Justifies(j, r, as)
  BY <1>1, <1>2, ZenonT(60) DEF Justifies
<1>5. \A r, as : Justified(r, as)' <=> Justified(r, as)
  BY <1>4 DEF Justified
<1>6. \A r : HasJob(r)' <=> HasJob(r)
  BY DEF HasJob
<1>7. \A j, k : Match(j, k)' <=> Match(j, k)
  BY DEF Match
<1> QED
  BY <1>1, <1>2, <1>3, <1>5, <1>6, <1>7

LEMMA SameTables ==
    ASSUME UNCHANGED tables
    PROVE  /\ \A g : Group(g)' = Group(g) /\ (Single(g)' <=> Single(g))
           /\ \A j : (Done(j)' <=> Done(j)) /\ (Alone(j)' <=> Alone(j))
           /\ \A r, as : Justified(r, as)' <=> Justified(r, as)
           /\ \A j, k : Match(j, k)' <=> Match(j, k)
           /\ \A r : HasJob(r)' <=> HasJob(r)
           /\ row' = row /\ job' = job /\ settled' = settled /\ rep' = rep
           /\ resolution' = resolution
<1>1. job' = job /\ row' = row /\ settled' = settled /\ rep' = rep /\ resolution' = resolution
  BY DEF tables
<1> QED
  BY <1>1, SameJobs

(* What a crash leaves of a handler needs no justification.                *)
LEMMA ReturnedFits ==
    ASSUME NEW n, n = Returned \/ n = NoHandler
    PROVE  /\ n \in HandlerState /\ n.tb = None /\ n.todo = <<>>
           /\ (n = Returned => n.pc = "done") /\ (n = NoHandler => n.pc = "idle")
           /\ HandlerWhole(n) /\ DisputeWaits(n) /\ PairHeldBy(n)
<1>1. <<>> \in Seq([resv : Resv, as : Final])
  OBVIOUS
<1>2. /\ NoHandler \in HandlerState
      /\ NoHandler.pc = "idle" /\ NoHandler.tb = None /\ NoHandler.todo = <<>>
  BY <1>1 DEF NoHandler, HandlerState
<1>3. n \in HandlerState
  BY <1>2 DEF Returned, HandlerState
<1>4. /\ n.pc \in {"idle", "done"} /\ n.tb = None /\ n.todo = <<>>
      /\ (n = Returned => n.pc = "done") /\ (n = NoHandler => n.pc = "idle")
  BY <1>2 DEF Returned, HandlerState
<1> QED
  BY <1>3, <1>4 DEF HandlerWhole, DisputeWaits, PairHeldBy

(* A request goes on with its leg, or gives up; a handler goes on or dies. *)
Proceeds(q) ==
    \/ req'[q] = req[q]
    \/ /\ req[q].pc # "idle"
       /\ req'[q].leg = req[q].leg /\ req'[q].resv = req[q].resv
       /\ req'[q].sib = req[q].sib /\ req'[q].group = req[q].group
       /\ \/ req'[q].pc = "done"
          \/ req'[q].pc \in {"awaiting", "insert"} /\ req[q].pc \in {"send", "awaiting"}
          \/ /\ req'[q].pc = "strip" /\ req[q].pc \in {"send", "awaiting"}
             /\ req[q].leg = 2
LEMMA RequestsProceed ==
    ASSUME IInv, UNCHANGED tables,
           req' \in [Requests -> RequestState],
           wire' \in [Jobs -> InFlight \cup {"none", "over"}],
           \A j \in Jobs : job[j] # None /\ wire[j] = "over" => wire'[j] = "over",
           \A q \in Requests : Proceeds(q),
           \A j \in Jobs : \/ handler'[j] = handler[j]
                           \/ handler'[j] = Returned /\ handler[j] # NoHandler,
           handler' \in [Jobs -> HandlerState]
    PROVE  IInv'
<1>1. TypeOK'
  BY DEF IInv, TypeOK, tables
<1>2. ASSUME NEW q \in Requests PROVE RequestWhole(q)'
  <2>1. RequestWhole(q) /\ Proceeds(q)
    BY DEF IInv, RequestsWhole
  <2>2. CASE req'[q] = req[q]
    BY <2>1, <2>2, SameTables DEF RequestWhole, LegJob
  <2>3. CASE req'[q] # req[q]
    BY <2>1, <2>3, SameTables DEF RequestWhole, LegJob, Proceeds
  <2> QED
    BY <2>2, <2>3
<1>3. JobsWhole'
  <2>1. \A j \in Jobs : j[1] \in Requests
    BY PairFacts
  <2>2. \A j \in Jobs : LegOf(j)' = LegOf(j)
    BY <2>1 DEF Proceeds, LegOf
  <2>3. \A j \in Jobs : req'[j[1]].pc = "idle" <=> req[j[1]].pc = "idle"
    BY <2>1 DEF Proceeds
  <2>4. \A j \in Jobs : Stripped(j) => Stripped(j)'
    BY <2>1, SameTables DEF Proceeds, Stripped
  <2>5. \A j \in Jobs : /\ req'[j[1]].leg = req[j[1]].leg
                        /\ req'[j[1]].group = req[j[1]].group
    BY <2>1 DEF Proceeds
  <2> QED
    BY <2>2, <2>3, <2>4, <2>5, SameTables DEF IInv, JobsWhole, Done
<1>4. \A g : Contested(g)' <=> Contested(g)
  BY PairFacts DEF Contested, Proceeds
<1>5. (ContestedWhole /\ RowsMatch /\ AllJustified /\ PairStays /\ BlamedIsDone)'
  BY <1>4, SameTables
     DEF IInv, ContestedWhole, RowsMatch, AllJustified, PairStays, BlamedIsDone
<1>6. FaultStands'
  BY SameTables DEF IInv, FaultStands
<1>7. ThirdNode'
  <2>1. \A t \in Tiebreaks : /\ req'[t].pc # "idle" => req[t].pc # "idle"
                             /\ req'[t].group = req[t].group
                             /\ req'[t].resv = req[t].resv
    BY PairFacts DEF Proceeds
  <2> QED
    BY <2>1, SameTables DEF IInv, ThirdNode
<1>8. \A q \in Requests : req'[q].pc = "mark" =>
         req[q].pc = "mark" /\ LegJob(q)' = LegJob(q) /\ LegResv(q)' = LegResv(q)
  BY DEF Proceeds, LegJob, LegResv
<1>9. NotYetDisputed'
  BY <1>8, SameTables DEF IInv, NotYetDisputed
<1>10. ASSUME NEW j \in Jobs
       PROVE  (HandlerWhole(handler[j]) /\ DisputeWaits(handler[j]) /\ PairHeldBy(handler[j]))'
  <2>1. CASE handler'[j] = handler[j]
    <3>1. HandlerWhole(handler[j])'
      BY <2>1, SameTables DEF IInv, HandlersSound, HandlerWhole
    <3>2. PairHeldBy(handler[j])'
      BY <2>1, SameTables DEF IInv, HandlersSound, PairHeldBy
    <3>3. DisputeWaits(handler[j])'
      BY <2>1, <1>8, SameTables DEF IInv, HandlersSound, DisputeWaits
    <3> QED
      BY <3>1, <3>2, <3>3
  <2>2. CASE handler'[j] = Returned
    <3>1. /\ handler'[j].pc = "done" /\ handler'[j].tb = None
          /\ handler'[j].todo = <<>>
      BY <2>2, ReturnedFits
    <3> QED
      BY <3>1 DEF HandlerWhole, DisputeWaits, PairHeldBy
  <2> QED
    BY <2>1, <2>2
<1>11. HandlersSound'
  BY <1>10 DEF HandlersSound
<1>12. ResultsOver'
  BY SameTables, ReturnedFits DEF IInv, ResultsOver
<1> QED
  BY <1>1, <1>2, <1>3, <1>5, <1>6, <1>7, <1>9, <1>11, <1>12 DEF IInv, RequestsWhole

(* A handler moves on to a state that is sound.                            *)
LEMMA HandlerMoves ==
    ASSUME IInv, UNCHANGED <<tables, req, wire>>,
           NEW j \in Jobs, handler[j] # NoHandler,
           NEW n \in HandlerState, n.pc # "idle",
           handler' = [handler EXCEPT ![j] = n],
           HandlerWhole(n), DisputeWaits(n), PairHeldBy(n)
    PROVE  IInv'
<1>1. TypeOK'
  BY DEF IInv, TypeOK, tables
<1>2. (RequestsWhole /\ JobsWhole /\ ThirdNode /\ NotYetDisputed)'
  BY SameTables
     DEF IInv, RequestsWhole, RequestWhole, JobsWhole, ThirdNode, NotYetDisputed, LegJob, LegOf, LegResv,
         Stripped
<1>3. \A g : Contested(g)' <=> Contested(g)
  BY DEF Contested
<1>4. (ContestedWhole /\ RowsMatch /\ AllJustified /\ PairStays /\ BlamedIsDone)'
  BY <1>3, SameTables
     DEF IInv, ContestedWhole, RowsMatch, AllJustified, PairStays, BlamedIsDone
<1>5. FaultStands'
  BY SameTables DEF IInv, FaultStands
<1>6. ASSUME NEW k \in Jobs
      PROVE  (HandlerWhole(handler[k]) /\ DisputeWaits(handler[k]) /\ PairHeldBy(handler[k]))'
  <2>1. /\ HandlerWhole(handler'[k]) /\ DisputeWaits(handler'[k])
        /\ PairHeldBy(handler'[k])
    BY DEF IInv, HandlersSound, TypeOK
  <2>2. HandlerWhole(handler[k])'
    BY <2>1, SameTables DEF HandlerWhole
  <2>3. PairHeldBy(handler[k])'
    BY <2>1, SameTables DEF PairHeldBy
  <2>4. DisputeWaits(handler[k])'
    BY <2>1, SameTables DEF DisputeWaits, LegJob, LegResv
  <2> QED
    BY <2>2, <2>3, <2>4
<1>7. HandlersSound'
  BY <1>6 DEF HandlersSound
<1>8. ResultsOver'
  BY SameTables DEF IInv, ResultsOver, TypeOK
<1> QED
  BY <1>1, <1>2, <1>4, <1>5, <1>7, <1>8 DEF IInv
-----------------------------------------------------------------------------
(* A request begins: a tiebreak only for a pair that is settled, and still *)
(* disputed where each reservation has one job.                            *)
LEMMA RequestBegins ==
    ASSUME IInv, UNCHANGED <<tables, wire, handler>>,
           NEW q \in Requests, req[q].pc = "idle",
           NEW n \in RequestState, req' = [req EXCEPT ![q] = n],
           n.pc = "send", n.leg = 1, n.resv \in Resv,
           n.sib # None <=> q \in Verified,
           n.sib # None => NodeOf[n.sib] # NodeOf[n.resv],
           q \in Submits => n.group = IF q \in Verified THEN q ELSE None,
           q \in Tiebreaks =>
              /\ n.group \in Submits
              /\ \A j \in Legs(n.group) :
                    /\ j \in Group(n.group) /\ settled[job[j].resv] # None
                    /\ Single(n.group) => /\ row[job[j].resv] = "disputed"
                                          /\ NodeOf[job[j].resv] # NodeOf[n.resv]
    PROVE  IInv'
<1>1. TypeOK'
  BY DEF IInv, TypeOK, tables
<1>2. req'[q] = n /\ \A p \in Requests : p # q => req'[p] = req[p]
  BY DEF IInv, TypeOK
<1>3. ASSUME NEW p \in Requests PROVE RequestWhole(p)'
  <2>1. RequestWhole(p)
    BY DEF IInv, RequestsWhole
  <2>2. CASE p # q
    BY <2>1, <2>2, <1>2, SameTables DEF RequestWhole, LegJob
  <2>3. CASE p = q
    BY <2>1, <2>3, <1>2, SameTables DEF RequestWhole, LegJob
  <2> QED
    BY <2>2, <2>3
<1>4. JobsWhole'
  <2>1. \A j \in Jobs : job[j] # None => j[1] # q /\ req'[j[1]] = req[j[1]]
    BY <1>2, PairFacts DEF IInv, JobsWhole
  <2>2. \A j \in Jobs : job[j] # None => LegOf(j)' = LegOf(j) /\ (Stripped(j) => Stripped(j)')
    BY <2>1, SameTables DEF LegOf, Stripped
  <2> QED
    BY <2>1, <2>2, SameTables DEF IInv, JobsWhole
<1>5. \A g : Contested(g)' => Contested(g) \/ (q \in Tiebreaks /\ n.group = g)
  BY <1>2, PairFacts DEF Contested
<1>6. ContestedWhole'
  BY <1>5, SameTables DEF IInv, ContestedWhole
<1>7. PairStays'
  BY <1>5, SameTables DEF IInv, PairStays
<1>8. ThirdNode'
  BY <1>2, PairFacts, SameTables DEF IInv, ThirdNode
<1>9. (RowsMatch /\ AllJustified /\ BlamedIsDone)'
  BY SameTables DEF IInv, RowsMatch, AllJustified, BlamedIsDone
<1>10. FaultStands'
  BY SameTables DEF IInv, FaultStands
<1>11. \A p \in Requests : req'[p].pc = "mark" =>
          req[p].pc = "mark" /\ LegJob(p)' = LegJob(p) /\ LegResv(p)' = LegResv(p)
  BY <1>2 DEF LegJob, LegResv
<1>12. NotYetDisputed'
  BY <1>11, SameTables DEF IInv, NotYetDisputed
<1>13. HandlersSound'
  <2>1. ASSUME NEW j \in Jobs
        PROVE  (HandlerWhole(handler[j]) /\ DisputeWaits(handler[j])
                  /\ PairHeldBy(handler[j]))'
    <3>1. HandlerWhole(handler[j])'
      BY SameTables DEF IInv, HandlersSound, HandlerWhole
    <3>2. PairHeldBy(handler[j])'
      BY SameTables DEF IInv, HandlersSound, PairHeldBy
    <3>3. DisputeWaits(handler[j])'
      BY <1>11, SameTables DEF IInv, HandlersSound, DisputeWaits
    <3> QED
      BY <3>1, <3>2, <3>3
  <2> QED
    BY <2>1 DEF HandlersSound
<1>14. ResultsOver'
  BY SameTables DEF IInv, ResultsOver
<1> QED
  BY <1>1, <1>14, <1>3, <1>4, <1>6, <1>7, <1>8, <1>9, <1>10, <1>12, <1>13 DEF IInv, RequestsWhole

LEMMA SubmitReadStep ==
    ASSUME IInv, NEW q \in Requests, NEW r \in Resv, NEW s \in Resv \cup {None},
           SubmitRead(q, r, s)
    PROVE  IInv'
<1> DEFINE n == [pc |-> "send", leg |-> 1, resv |-> r, sib |-> s,
                 group |-> IF s = None THEN None ELSE q]
<1>1. /\ q \in Submits /\ req[q].pc = "idle" /\ req' = [req EXCEPT ![q] = n]
      /\ UNCHANGED <<tables, wire, handler>>
      /\ q \in Verified <=> s # None
      /\ s # None => NodeOf[s] # NodeOf[r]
  BY DEF SubmitRead
<1>2. n \in RequestState
  BY <1>1 DEF RequestState
<1>3. q \notin Tiebreaks
  BY <1>1, PairFacts
<1>4. /\ n.pc = "send" /\ n.leg = 1 /\ n.resv = r /\ n.sib = s
      /\ n.group = IF s = None THEN None ELSE q
  OBVIOUS
<1> HIDE DEF n
<1> QED
  BY <1>1, <1>2, <1>3, <1>4, RequestBegins

(* The two disputed jobs a tiebreak finds are the legs of the group.       *)
LEMMA DisputedPair ==
    ASSUME IInv, NEW g \in Submits, Cardinality(Disputed(g)) = 2
    PROVE  /\ Legs(g) \subseteq Group(g)
           /\ ~Contested(g) => Disputed(g) = Legs(g)
           /\ Legs(g) \subseteq Disputed(g) => Disputed(g) = Legs(g)
           /\ Single(g) => Disputed(g) = Legs(g)
<1>1. Disputed(g) \subseteq Group(g) /\ Group(g) \subseteq Jobs
  BY DEF Disputed, Group
<1>2. /\ IsFiniteSet(Group(g)) /\ Cardinality(Group(g)) \in Nat
      /\ IsFiniteSet(Disputed(g))
  BY <1>1, Finiteness
<1>3. Cardinality(Group(g)) >= 2
  BY <1>1, <1>2, FS_Subset
<1>4. Legs(g) \subseteq Group(g)
  BY <1>3, PairPresent
<1>5. Legs(g) \subseteq Disputed(g) => Disputed(g) = Legs(g)
  BY <1>2, TwoOf, LegsFacts DEF Legs
<1>6. ASSUME ~Contested(g) PROVE Disputed(g) = Legs(g)
  <2>1. Group(g) \subseteq Legs(g)
    BY <1>6, GroupShape DEF Legs, IsTiebreakOf
  <2>2. IsFiniteSet(Legs(g)) /\ Cardinality(Legs(g)) = 2
    <3>1. IsFiniteSet({<<g, 1>>}) /\ Cardinality({<<g, 1>>}) = 1
      BY FS_Singleton
    <3>2. Legs(g) = {<<g, 1>>} \cup {<<g, 2>>} /\ <<g, 2>> \notin {<<g, 1>>}
      BY LegsFacts DEF Legs
    <3>3. /\ IsFiniteSet({<<g, 1>>} \cup {<<g, 2>>})
          /\ Cardinality({<<g, 1>>} \cup {<<g, 2>>}) = 1 + 1
      BY <3>1, <3>2, FS_AddElement
    <3> QED
      BY <3>2, <3>3
  <2>3. Disputed(g) \in SUBSET Legs(g)
    BY <1>1, <2>1
  <2> QED
    BY <2>2, <2>3, FS_Subset
<1>7. ASSUME Single(g), Contested(g) PROVE Legs(g) \subseteq Disputed(g)
  BY <1>7, <1>4 DEF IInv, PairStays, Disputed
<1> QED
  BY <1>4, <1>5, <1>6, <1>7

LEMMA TiebreakReadStep ==
    ASSUME IInv, NEW q \in Requests, NEW g \in Submits, NEW r \in Resv,
           TiebreakRead(q, g, r)
    PROVE  IInv'
<1> DEFINE n == [pc |-> "send", leg |-> 1, resv |-> r, sib |-> None, group |-> g]
<1>1. /\ q \in Tiebreaks /\ req[q].pc = "idle" /\ req' = [req EXCEPT ![q] = n]
      /\ UNCHANGED <<tables, wire, handler>>
      /\ Cardinality(Disputed(g)) = 2
      /\ \A j \in Disputed(g) : NodeOf[job[j].resv] # NodeOf[r]
  BY DEF TiebreakRead
<1>2. n \in RequestState
  BY DEF RequestState
<1>3. q \notin Submits /\ q \notin Verified
  BY <1>1, PairFacts
<1>4. n.pc = "send" /\ n.leg = 1 /\ n.resv = r /\ n.sib = None /\ n.group = g
  OBVIOUS
<1>5. Legs(g) \subseteq Group(g)
  BY <1>1, DisputedPair
<1>6. ASSUME NEW j \in Legs(g) PROVE settled[job[j].resv] # None
  <2>1. CASE Contested(g)
    BY <2>1 DEF IInv, ContestedWhole
  <2>2. CASE ~Contested(g)
    <3>1. job[j].resv \in Resv /\ row[job[j].resv] = "disputed"
      BY <2>2, <1>1, <1>5, DisputedPair, RowFacts DEF IInv, Disputed, Group
    <3> QED
      BY <3>1, NoneFacts DEF IInv, RowsMatch, Final
  <2> QED
    BY <2>1, <2>2
<1>7. ASSUME Single(g), NEW j \in Legs(g)
      PROVE  row[job[j].resv] = "disputed" /\ NodeOf[job[j].resv] # NodeOf[r]
  BY <1>7, <1>1, DisputedPair DEF Disputed
<1> HIDE DEF n
<1> QED
  BY <1>1, <1>2, <1>3, <1>4, <1>5, <1>6, <1>7, RequestBegins
-----------------------------------------------------------------------------
(* The steps of a request that write no table, and those of the wire.      *)
LEMMA SendStep ==
    ASSUME IInv, NEW q \in Requests, Send(q) \/ SendFails(q)
    PROVE  IInv'
<1>1. LegJob(q) \in Jobs /\ UNCHANGED <<tables, handler>>
  BY PairFacts DEF IInv, TypeOK, RequestState, LegJob, Send, SendFails
<1>2. PICK pc \in {"awaiting", "done", "strip"} :
         /\ req' = [req EXCEPT ![q].pc = pc]
         /\ req[q].pc \in {"send", "awaiting"}
         /\ pc = "strip" => req[q].leg = 2
  BY DEF Send, SendFails, Step, LegFails, IInv, TypeOK, RequestState
<1>3. req' \in [Requests -> RequestState] /\ \A p \in Requests : Proceeds(p)
  BY <1>2 DEF IInv, TypeOK, RequestState, Proceeds
<1>4. wire' = wire \/ wire' = [wire EXCEPT ![LegJob(q)] = "submitted"]
  BY DEF Send, SendFails
<1>5. wire' \in [Jobs -> InFlight \cup {"none", "over"}]
  BY <1>1, <1>4 DEF IInv, TypeOK, InFlight
<1>6. job[LegJob(q)] = None
  BY <1>2 DEF IInv, RequestsWhole, RequestWhole
<1>7. \A j \in Jobs : job[j] # None /\ wire[j] = "over" => wire'[j] = "over"
  BY <1>1, <1>4, <1>6 DEF IInv, TypeOK, JobsWhole, Done
<1> QED
  BY <1>1, <1>3, <1>5, <1>7, RequestsProceed DEF IInv, TypeOK

LEMMA AnswerStep ==
    ASSUME IInv, NEW j \in Jobs, Accepted(j) \/ Rejected(j)
    PROVE  IInv'
<1>1. UNCHANGED <<tables, handler>> /\ wire[j] = "submitted"
  BY DEF Accepted, Rejected
<1>2. \/ req' = req
      \/ \E pc \in {"insert", "done", "strip"} :
            /\ req' = [req EXCEPT ![j[1]].pc = pc]
            /\ req[j[1]].pc = "awaiting"
            /\ pc = "strip" => req[j[1]].leg = 2
  BY PairFacts DEF Accepted, Rejected, Step, LegFails, IInv, TypeOK, RequestState
<1>3. req' \in [Requests -> RequestState] /\ \A p \in Requests : Proceeds(p)
  <2>1. CASE req' = req
    BY <2>1 DEF IInv, TypeOK, Proceeds
  <2>2. CASE req' # req
    <3>1. PICK pc \in {"insert", "done", "strip"} :
            /\ req' = [req EXCEPT ![j[1]].pc = pc]
            /\ req[j[1]].pc = "awaiting"
            /\ pc = "strip" => req[j[1]].leg = 2
      BY <2>2, <1>2
    <3>2. req \in [Requests -> RequestState] /\ j[1] \in Requests
      BY PairFacts DEF IInv, TypeOK
    <3> QED
      BY <3>1, <3>2 DEF RequestState, Proceeds
  <2> QED
    BY <2>1, <2>2
<1>4. \E w \in {"running", "over"} : wire' = [wire EXCEPT ![j] = w]
  BY DEF Accepted, Rejected
<1>5. wire' \in [Jobs -> InFlight \cup {"none", "over"}]
  BY <1>4 DEF IInv, TypeOK, InFlight
<1>6. \A k \in Jobs : job[k] # None /\ wire[k] = "over" => wire'[k] = "over"
  BY <1>1, <1>4 DEF IInv, TypeOK, JobsWhole, Done
<1> QED
  BY <1>1, <1>3, <1>5, <1>6, RequestsProceed DEF IInv, TypeOK

LEMMA LinkDropsStep ==
    ASSUME IInv, NEW n \in Nodes, LinkDrops(n)
    PROVE  IInv'
<1>1. UNCHANGED <<tables, req, handler>>
  BY DEF LinkDrops
<1>2. /\ wire' \in [Jobs -> InFlight \cup {"none", "over"}]
      /\ \A j \in Jobs : wire'[j] = wire[j] \/ wire'[j] = "over"
  BY DEF LinkDrops, IInv, TypeOK
<1>3. \A j \in Jobs : job[j] # None /\ wire[j] = "over" => wire'[j] = "over"
  BY <1>2 DEF IInv, JobsWhole, Done
<1>4. \A p \in Requests : Proceeds(p)
  BY <1>1 DEF Proceeds
<1> QED
  BY <1>1, <1>2, <1>3, <1>4, RequestsProceed DEF IInv, TypeOK

LEMMA PlatformCrashStep ==
    ASSUME IInv, PlatformCrash
    PROVE  IInv'
<1>1. /\ wire' = [j \in Jobs |-> IF wire[j] = "none" THEN "none" ELSE "over"]
      /\ req' = [q \in Requests |-> IF req[q].pc = "idle" THEN req[q]
                                    ELSE [req[q] EXCEPT !.pc = "done"]]
      /\ handler' = [j \in Jobs |-> IF handler[j].pc = "idle" THEN NoHandler ELSE Returned]
      /\ UNCHANGED tables
  BY DEF PlatformCrash
<1>2. wire' \in [Jobs -> InFlight \cup {"none", "over"}]
  BY <1>1 DEF IInv, TypeOK
<1>3. \A j \in Jobs : job[j] # None /\ wire[j] = "over" => wire'[j] = "over"
  BY <1>1 DEF IInv, JobsWhole, Done
<1>4. ASSUME NEW p \in Requests PROVE req'[p] \in RequestState /\ Proceeds(p)
  <2>1. req[p] \in RequestState
    BY DEF IInv, TypeOK
  <2>2. CASE req[p].pc = "idle"
    BY <2>1, <2>2, <1>1 DEF Proceeds
  <2>3. CASE req[p].pc # "idle"
    <3>1. req'[p] = [req[p] EXCEPT !.pc = "done"]
      BY <2>3, <1>1
    <3> QED
      BY <2>1, <2>3, <3>1 DEF RequestState, Proceeds
  <2> QED
    BY <2>2, <2>3
<1>5. NoHandler \in HandlerState /\ Returned \in HandlerState
  BY ReturnedFits
<1>7. req' \in [Requests -> RequestState]
  BY <1>1, <1>4
<1>6. /\ handler' \in [Jobs -> HandlerState]
      /\ \A j \in Jobs : \/ handler'[j] = handler[j]
                         \/ handler'[j] = Returned /\ handler[j] # NoHandler
  BY <1>1, <1>5, ReturnedFits DEF IInv, TypeOK, ResultsOver
<1> QED
  BY <1>1, <1>2, <1>3, <1>4, <1>6, <1>7, RequestsProceed

(***************************************************************************)
(* The steps of a handler that write no table.                             *)
(***************************************************************************)
LEMMA CountGroupStep ==
    ASSUME IInv, NEW j \in Jobs, CountGroup(j)
    PROVE  IInv'
<1> DEFINE h == handler[j]
<1>1. h \in HandlerState /\ h.pc = "count" /\ UNCHANGED <<tables, req, wire>>
  BY DEF CountGroup, IInv, TypeOK
<1>2. PICK pc \in {"resolve", "compare"} : handler' = [handler EXCEPT ![j].pc = pc]
  BY DEF CountGroup
<1> DEFINE n == [h EXCEPT !.pc = pc]
<1>3. /\ n \in HandlerState /\ n.pc = pc /\ n.group = h.group /\ n.todo = h.todo
      /\ n.tb = h.tb /\ n.orig = h.orig
  BY <1>1 DEF HandlerState
<1>4. handler' = [handler EXCEPT ![j] = n]
  BY <1>2
<1>5. HandlerWhole(h) /\ PairHeldBy(h)
  BY DEF IInv, HandlersSound
<1> HIDE DEF n
<1>6. HandlerWhole(n) /\ DisputeWaits(n) /\ PairHeldBy(n)
  BY <1>1, <1>3, <1>5 DEF HandlerWhole, DisputeWaits, PairHeldBy
<1> QED
  BY <1>1, <1>3, <1>4, <1>6, HandlerMoves, ReturnedFits
-----------------------------------------------------------------------------
LEMMA SequenceOf ==
    ASSUME NEW S, NEW n \in Nat, NEW f \in [1 .. n -> S]
    PROVE  f \in Seq(S) /\ Len(f) = n
  OBVIOUS

LEMMA ElementOf ==
    ASSUME NEW S, NEW s \in Seq(S), NEW i \in 1 .. Len(s)
    PROVE  s[i] \in S
  OBVIOUS

(* What a complete group entitles a handler to: a leg of a contested group *)
(* is settled already, and a tiebreak answers only for itself.             *)
LEMMA TiebreakJustified ==
    ASSUME IInv, NEW g \in Submits, NEW t \in Group(g), IsTiebreakOf(t, g), Done(t)
    PROVE  Justified(job[t].resv, JobRowStatusToOutcome(job[t].status))
<1>1. t \in Jobs /\ t[1] \notin Submits /\ t[1] # None /\ job[t].group = g
  BY PairFacts, NoneFacts DEF IsTiebreakOf, Group, Requests
<1>2. Group(t[1]) = {}
  BY <1>1, RowFacts DEF Group, IInv
<1>3. JobRowStatusToOutcome(job[t].status) # "disputed"
  BY <1>1, RowFacts, StatusFacts DEF Done, IInv
<1>4. job[t].group # t[1]
  BY <1>1
<1> QED
  BY <1>1, <1>2, <1>3, <1>4 DEF Justified, Justifies

LEMMA GroupJustified ==
    ASSUME IInv, NEW g \in Submits, Legs(g) \subseteq Group(g),
           \A k \in Group(g) : Done(k),
           NEW a \in Group(g), NEW b \in Group(g), a # b, NEW k \in Group(g),
           NEW as, as = IF Match(a, b) THEN JobRowStatusToOutcome(job[k].status)
                                       ELSE "disputed"
    PROVE  /\ job[k].resv \in Resv /\ as \in Final
           /\ settled[job[k].resv] # None \/ Justified(job[k].resv, as)
<1>1. /\ k \in Jobs /\ job[k] # None /\ job[k].group = g /\ g # None
      /\ job[k].resv \in Resv
      /\ job[k].status \in {"succeeded", "failed_user", "failed_provider"}
  BY RowFacts, NoneFacts DEF Group, Done, IInv, Requests
<1>2. CASE ~Match(a, b)
  <2>1. Justifies(k, job[k].resv, "disputed")
    BY <1>1, <1>2 DEF Justifies, Match
  <2> QED
    BY <1>1, <1>2, <2>1 DEF Justified, Final
<1>3. CASE Match(a, b)
  <2>1. as = JobRowStatusToOutcome(job[k].status) /\ as \in Final \ {"disputed"}
    BY <1>1, <1>3, StatusFacts
  <2>2. CASE IsTiebreakOf(k, g)
    BY <1>1, <2>1, <2>2, TiebreakJustified
  <2>3. CASE Contested(g) /\ k \in Legs(g)
    BY <1>1, <2>1, <2>3 DEF IInv, ContestedWhole
  <2>4. CASE ~Contested(g)
    <3>1. \A l \in Group(g) : l \in Legs(g)
      BY <2>4, GroupShape DEF IsTiebreakOf, Legs
    <3>2. \A l \in Group(g) : job[l].hash = job[a].hash
      BY <3>1, <1>3 DEF Legs, Match
    <3>3. k[1] = g
      BY <3>1, LegsFacts
    <3>4. Justifies(k, job[k].resv, as)
      BY <1>1, <2>1, <3>2, <3>3 DEF Justifies
    <3> QED
      BY <1>1, <2>1, <3>4 DEF Justified
  <2> QED
    BY <2>2, <2>3, <2>4, GroupShape DEF Legs
<1> QED
  BY <1>2, <1>3

LEMMA CompareGroupStep ==
    ASSUME IInv, NEW j \in Jobs, CompareGroup(j)
    PROVE  IInv'
<1> DEFINE h == handler[j]
           g == handler[j].group
<1>1. /\ h \in HandlerState /\ h.pc = "compare" /\ g \in Submits /\ h.tb = None
      /\ UNCHANGED <<tables, req, wire>>
  BY DEF CompareGroup, IInv, TypeOK, HandlersSound, HandlerWhole
<1>2. CASE ~GroupIsComplete(g)
  <2>1. handler' = [handler EXCEPT ![j] = Returned]
    BY <1>2 DEF CompareGroup
  <2> QED
    BY <1>1, <2>1, ReturnedFits, HandlerMoves
<1>3. CASE GroupIsComplete(g)
  <2> DEFINE As(seq, i) == IF Match(seq[1], seq[2])
                           THEN JobRowStatusToOutcome(job[seq[i]].status) ELSE "disputed"
             Todo(seq) == [i \in DOMAIN seq |-> [resv |-> job[seq[i]].resv, as |-> As(seq, i)]]
  <2>1. PICK seq \in SetToSeqs(Group(g)) :
           handler' = [handler EXCEPT ![j].pc = "check", ![j].todo = Todo(seq)]
    BY <1>3 DEF CompareGroup
  <2>2. PICK c \in Nat : c = Cardinality(Group(g)) /\ c >= 2
    BY <1>3, Finiteness DEF GroupIsComplete, Group
  <2>3. /\ seq \in [1 .. c -> Group(g)] /\ DOMAIN seq = 1 .. c
        /\ seq[1] \in Group(g) /\ seq[2] \in Group(g) /\ seq[1] # seq[2]
    BY <2>1, <2>2 DEF SetToSeqs
  <2>4. Legs(g) \subseteq Group(g) /\ \A k \in Group(g) : Done(k)
    BY <1>1, <1>3, PairPresent DEF GroupIsComplete, Group, Done
  <2>5. ASSUME NEW i \in 1 .. c
        PROVE  /\ job[seq[i]].resv \in Resv /\ As(seq, i) \in Final
               /\ \/ settled[job[seq[i]].resv] # None
                  \/ Justified(job[seq[i]].resv, As(seq, i))
    <3>1. seq[i] \in Group(g)
      BY <2>3
    <3> QED
      BY <1>1, <2>3, <2>4, <3>1, GroupJustified
  <2> HIDE DEF As
  <2> DEFINE todo == Todo(seq)
             n == [h EXCEPT !.pc = "check", !.todo = todo]
  <2>6. /\ todo \in [1 .. c -> [resv : Resv, as : Final]]
        /\ \A i \in 1 .. c : todo[i].resv = job[seq[i]].resv /\ todo[i].as = As(seq, i)
    BY <2>3, <2>5
  <2> HIDE DEF Todo, todo
  <2>7. todo \in Seq([resv : Resv, as : Final]) /\ Len(todo) = c /\ todo # <<>>
    <3>1. todo \in Seq([resv : Resv, as : Final]) /\ Len(todo) = c
      <4>1. c \in Nat /\ todo \in [1 .. c -> [resv : Resv, as : Final]]
        BY <2>2, <2>6
      <4> QED
        BY <4>1, SequenceOf, Zenon
    <3> QED
      BY <3>1, <2>2
  <2>8. handler' = [handler EXCEPT ![j] = n]
    BY <2>1 DEF todo
  <2>9. n \in HandlerState /\ n.pc = "check" /\ n.todo = todo /\ n.tb = None
    BY <1>1, <2>7 DEF HandlerState
  <2> HIDE DEF n
  <2>10. HandlerWhole(n) /\ DisputeWaits(n) /\ PairHeldBy(n)
    BY <2>5, <2>6, <2>7, <2>9 DEF HandlerWhole, DisputeWaits, PairHeldBy
  <2> QED
    BY <1>1, <2>8, <2>9, <2>10, HandlerMoves, ReturnedFits
<1> QED
  BY <1>2, <1>3

LEMMA ResolveReadStep ==
    ASSUME IInv, NEW j \in Jobs, ResolveRead(j)
    PROVE  IInv'
<1> DEFINE h == handler[j]
           g == handler[j].group
           others == Group(g) \ Disputed(g)
<1>1. /\ h \in HandlerState /\ h.pc = "resolve" /\ g \in Submits /\ h.tb = None
      /\ UNCHANGED <<tables, req, wire>>
  BY DEF ResolveRead, IInv, TypeOK, HandlersSound, HandlerWhole
<1>2. CASE ~(GroupIsComplete(g) /\ Cardinality(Disputed(g)) = 2 /\ others # {})
  <2>1. handler' = [handler EXCEPT ![j] = Returned]
    BY <1>2 DEF ResolveRead
  <2> QED
    BY <1>1, <2>1, ReturnedFits, HandlerMoves
<1>3. CASE GroupIsComplete(g) /\ Cardinality(Disputed(g)) = 2 /\ others # {}
  <2> DEFINE Todo(t) == <<[resv |-> job[t].resv,
                           as |-> JobRowStatusToOutcome(job[t].status)]>>
  <2>1. PICK t \in others :
           handler' = [handler EXCEPT ![j].pc = "check", ![j].tb = t,
                                      ![j].orig = Disputed(g), ![j].todo = Todo(t)]
    BY <1>3 DEF ResolveRead
  <2>2. /\ Legs(g) \subseteq Group(g) /\ \A k \in Group(g) : Done(k)
        /\ Group(g) \subseteq Jobs /\ Disputed(g) \subseteq Group(g)
    BY <1>1, <1>3, PairPresent DEF GroupIsComplete, Group, Done, Disputed
  <2>3. Contested(g)
    BY <1>1, <1>3, DisputedPair, GroupShape DEF IsTiebreakOf, Legs
  <2>4. /\ t \in Group(g) /\ t \in Jobs /\ Done(t) /\ job[t].resv \in Resv
        /\ job[t].status \in {"succeeded", "failed_user", "failed_provider"}
    BY <2>1, <2>2, RowFacts DEF IInv, Done
  <2>5. \/ settled[job[t].resv] # None
        \/ Justified(job[t].resv, JobRowStatusToOutcome(job[t].status))
    <3>1. CASE t \in Legs(g)
      BY <3>1, <1>1, <2>3 DEF IInv, ContestedWhole
    <3>2. CASE t \notin Legs(g)
      BY <3>2, <1>1, <2>4, GroupShape, TiebreakJustified DEF Legs
    <3> QED
      BY <3>1, <3>2
  <2> DEFINE todo == Todo(t)
             n == [h EXCEPT !.pc = "check", !.tb = t, !.orig = Disputed(g), !.todo = todo]
  <2>6. /\ todo \in Seq([resv : Resv, as : Final]) /\ Len(todo) = 1 /\ todo # <<>>
        /\ todo[1].resv = job[t].resv
        /\ todo[1].as = JobRowStatusToOutcome(job[t].status)
    BY <2>4, StatusFacts
  <2>7. handler' = [handler EXCEPT ![j] = n]
    BY <2>1
  <2> HIDE DEF todo, Todo
  <2>8. /\ n \in HandlerState /\ n.pc = "check" /\ n.todo = todo /\ n.tb = t
        /\ n.orig = Disputed(g) /\ n.group = g
    BY <1>1, <2>2, <2>4, <2>6 DEF HandlerState
  <2>9. Single(g) => Disputed(g) = Legs(g) /\ t[1] # g
    <3>1. SUFFICES ASSUME Single(g) PROVE Disputed(g) = Legs(g) /\ t[1] # g
      OBVIOUS
    <3>2. Disputed(g) = Legs(g)
      BY <3>1, <1>1, <1>3, DisputedPair
    <3>3. IsTiebreakOf(t, g)
      BY <3>2, <1>1, <2>1, <2>4, GroupShape DEF Legs
    <3> QED
      BY <3>2, <3>3, <1>1, PairFacts DEF IsTiebreakOf
  <2> HIDE DEF n
  <2>10. HandlerWhole(n)
    <3>1. ASSUME NEW i \in 1 .. Len(n.todo)
          PROVE  settled[n.todo[i].resv] # None \/ Justified(n.todo[i].resv, n.todo[i].as)
      <4>1. n.todo[i].resv = job[t].resv /\ n.todo[i].as = JobRowStatusToOutcome(job[t].status)
        <5>1. Len(n.todo) = 1
          BY <2>6, <2>8
        <5>2. i = 1
          BY <5>1
        <5> QED
          BY <5>2, <2>6, <2>8
      <4> QED
        BY <4>1, <2>5
    <3> QED
      BY <1>1, <2>2, <2>4, <2>6, <2>8, <3>1 DEF HandlerWhole
  <2>11. DisputeWaits(n) /\ PairHeldBy(n)
    BY <2>4, <2>8, <2>9 DEF DisputeWaits, PairHeldBy
  <2> QED
    BY <1>1, <2>7, <2>8, <2>10, <2>11, HandlerMoves, ReturnedFits
<1> QED
  BY <1>2, <1>3

(* The settlement in hand is done with.                                    *)
LEMMA NextTodoFits ==
    ASSUME IInv, NEW j \in Jobs, handler[j].pc \in {"check", "txn"}, NextTodo(j)
    PROVE  \E n \in HandlerState : /\ handler' = [handler EXCEPT ![j] = n]
                                   /\ HandlerWhole(n) /\ PairHeldBy(n) /\ n.pc \notin {"idle", "txn"}
<1> DEFINE h == handler[j]
           rest == Tail(h.todo)
<1>1. h \in HandlerState /\ HandlerWhole(h) /\ PairHeldBy(h)
  BY DEF IInv, TypeOK, HandlersSound
<1>2. h.todo # <<>> /\ h.todo \in Seq([resv : Resv, as : Final])
  BY <1>1 DEF HandlerWhole, HandlerState
<1>3. /\ rest \in Seq([resv : Resv, as : Final])
      /\ \A i \in 1 .. Len(rest) : i + 1 \in 1 .. Len(h.todo) /\ rest[i] = h.todo[i + 1]
  BY <1>2
<1>4. CASE rest # <<>> \/ h.tb # None
  <2>1. PICK pc \in {"check", "attribute"} :
           /\ handler' = [handler EXCEPT ![j] = [h EXCEPT !.todo = rest, !.pc = pc]]
           /\ pc = "check" => rest # <<>>
           /\ pc = "attribute" => h.tb # None
    BY <1>4 DEF NextTodo
  <2> DEFINE n == [h EXCEPT !.todo = rest, !.pc = pc]
  <2>2. /\ n \in HandlerState /\ n.pc = pc /\ n.group = h.group /\ n.todo = rest
        /\ n.tb = h.tb /\ n.orig = h.orig
    BY <1>1, <1>3 DEF HandlerState
  <2>3. handler' = [handler EXCEPT ![j] = n]
    BY <2>1
  <2> HIDE DEF n
  <2>4. HandlerWhole(n) /\ PairHeldBy(n)
    BY <1>1, <1>3, <2>1, <2>2 DEF HandlerWhole, PairHeldBy
  <2> QED
    BY <2>2, <2>3, <2>4
<1>5. CASE rest = <<>> /\ h.tb = None
  <2>1. handler' = [handler EXCEPT ![j] = Returned]
    BY <1>5 DEF NextTodo
  <2>2. Returned.pc = "done"
    BY ReturnedFits
  <2> QED
    BY <2>1, <2>2, ReturnedFits
<1> QED
  BY <1>4, <1>5

LEMMA SettleCheckStep ==
    ASSUME IInv, NEW j \in Jobs, SettleCheck(j)
    PROVE  IInv'
<1> DEFINE h == handler[j]
<1>1. /\ h \in HandlerState /\ h.pc = "check" /\ HandlerWhole(h) /\ PairHeldBy(h)
      /\ UNCHANGED <<tables, req, wire>>
  BY DEF SettleCheck, IInv, TypeOK, HandlersSound
<1>2. h.todo # <<>> /\ Head(h.todo) = h.todo[1]
  BY <1>1 DEF HandlerWhole, HandlerState
<1>3. CASE CanTransition(row[h.todo[1].resv], h.todo[1].as)
  <2> DEFINE n == [h EXCEPT !.pc = "txn"]
  <2>1. handler' = [handler EXCEPT ![j] = n]
    BY <1>2, <1>3 DEF SettleCheck
  <2>2. /\ n \in HandlerState /\ n.pc = "txn" /\ n.group = h.group /\ n.todo = h.todo
        /\ n.tb = h.tb /\ n.orig = h.orig
    BY <1>1 DEF HandlerState
  <2> HIDE DEF n
  <2>3. HandlerWhole(n) /\ PairHeldBy(n)
    BY <1>1, <1>2, <2>2 DEF HandlerWhole, PairHeldBy
  <2>4. DisputeWaits(n)
    BY <1>3, <2>2, TransitionFacts DEF IInv, NotYetDisputed, DisputeWaits
  <2> QED
    BY <1>1, <2>1, <2>2, <2>3, <2>4, HandlerMoves, ReturnedFits
<1>4. CASE ~CanTransition(row[h.todo[1].resv], h.todo[1].as)
  <2>1. NextTodo(j)
    BY <1>2, <1>4 DEF SettleCheck
  <2>2. PICK n \in HandlerState : /\ handler' = [handler EXCEPT ![j] = n]
                                  /\ HandlerWhole(n) /\ PairHeldBy(n) /\ n.pc \notin {"idle", "txn"}
    BY <1>1, <2>1, NextTodoFits
  <2>3. DisputeWaits(n)
    BY <2>2 DEF DisputeWaits
  <2> QED
    BY <1>1, <2>2, <2>3, HandlerMoves, ReturnedFits
<1> QED
  BY <1>3, <1>4
-----------------------------------------------------------------------------
(***************************************************************************)
(* Steps that change the jobs table: a job is inserted by its request,     *)
(* finished by its result, or leaves its group while it is alone in it.    *)
(***************************************************************************)
JobsKept ==
    /\ \A k \in Jobs : job[k] # None =>
          /\ job'[k] # None /\ job'[k].resv = job[k].resv
          /\ \/ job'[k].group = job[k].group
             \/ /\ job'[k].group = None /\ job[k].group = k[1] /\ k[2] = 1
                /\ job[<<k[1], 2>>] = None
    /\ \A k \in Jobs : Done(k) => /\ job'[k].status = job[k].status
                                  /\ job'[k].hash = job[k].hash
    /\ \A k \in Jobs : job[k] = None /\ job'[k] # None =>
          req[k[1]].pc = "insert" /\ k = LegJob(k[1])

LEMMA GroupsKept ==
    ASSUME IInv, JobsKept
    PROVE  /\ \A g \in Submits : Legs(g) \subseteq Group(g) => Group(g) \subseteq Group(g)'
           /\ \A k \in Jobs : Done(k) => Done(k)'
           /\ \A k \in Jobs : job[k] # None /\ Alone(k)' => Alone(k)
           /\ \A g \in Submits : Legs(g) \subseteq Group(g) /\ Single(g)' => Single(g)
           /\ \A r \in Resv : HasJob(r) => HasJob(r)'
<1>1. ASSUME NEW g \in Submits, Legs(g) \subseteq Group(g), NEW k \in Group(g)
      PROVE  k \in Group(g)'
  <2>1. k \in Jobs /\ job[k] # None /\ job[k].group = g
    BY DEF Group
  <2>2. job'[k] # None /\ job'[k].group = g
    <3>1. CASE k[1] = g /\ k[2] = 1
      BY <1>1, <2>1, <3>1 DEF JobsKept, Legs, Group
    <3>2. CASE ~(k[1] = g /\ k[2] = 1)
      BY <2>1, <3>2 DEF JobsKept
    <3> QED
      BY <3>1, <3>2
  <2> QED
    BY <2>1, <2>2 DEF Group
<1>2. \A k \in Jobs : Done(k) => Done(k)'
  BY DEF JobsKept, Done
<1>3. \A k \in Jobs : job[k] # None /\ Alone(k)' => Alone(k)
  BY DEF JobsKept, Alone
<1>4. \A g \in Submits : Legs(g) \subseteq Group(g) /\ Single(g)' => Single(g)
  <2>1. \A g, k : k \in Group(g) => k \in Jobs /\ job[k] # None
    BY DEF Group
  <2> QED
    BY <2>1, <1>1, <1>3 DEF Single
<1>5. \A r \in Resv : HasJob(r) => HasJob(r)'
  BY DEF JobsKept, HasJob
<1> QED
  BY <1>1, <1>2, <1>3, <1>4, <1>5

LEMMA JustifiedStays ==
    ASSUME IInv, JobsKept, NEW r, NEW as, Justified(r, as)
    PROVE  Justified(r, as)'
<1>1. PICK j \in Jobs : Justifies(j, r, as)
  BY DEF Justified
<1>2. Done(j) /\ Done(j)' /\ job'[j].resv = r /\ job'[j].status = job[j].status
      /\ job'[j].hash = job[j].hash /\ job[j] # None /\ j[1] \in Requests
  BY <1>1, GroupsKept, PairFacts DEF Justifies, JobsKept, Done
<1>3. CASE as = "disputed"
  <2>1. PICK k \in Group(job[j].group), l \in Group(job[j].group) :
           Done(k) /\ Done(l) /\ job[k].hash # job[l].hash
    BY <1>1, <1>3 DEF Justifies
  <2>2. PICK g \in Submits : g = job[j].group /\ j \in Group(g)
    BY <1>1, <1>2, <1>3, RowFacts DEF Justifies, IInv, Group
  <2>3. Legs(g) \subseteq Group(g)
    BY <2>1, <2>2, GroupShape
  <2>4. Group(g) \subseteq Group(g)'
    BY <2>2, <2>3, GroupsKept
  <2>5. job'[j].group = g /\ g # None
    BY <2>2, <2>4, NoneFacts DEF Group, Requests
  <2>6. k \in Group(g)' /\ l \in Group(g)' /\ Done(k)' /\ Done(l)'
        /\ job'[k].hash # job'[l].hash
    <3>1. k \in Group(g) /\ l \in Group(g) /\ k \in Jobs /\ l \in Jobs
      BY <2>1, <2>2 DEF Group
    <3>2. job'[k].hash = job[k].hash /\ job'[l].hash = job[l].hash
      BY <2>1, <3>1 DEF JobsKept
    <3> QED
      BY <2>1, <2>4, <3>1, <3>2, GroupsKept
  <2>7. Justifies(j, r, as)'
    BY <1>2, <1>3, <2>5, <2>6 DEF Justifies
  <2> QED
    BY <2>7 DEF Justified
<1>4. CASE as # "disputed"
  <2>1. /\ as = JobRowStatusToOutcome(job[j].status)
        /\ \A k \in Group(j[1]) : k[1] = j[1] => Done(k) /\ job[j].hash = job[k].hash
        /\ job[j].group = j[1] => Legs(j[1]) \subseteq Group(j[1])
    BY <1>1, <1>4 DEF Justifies
  <2>2. ASSUME NEW k \in Group(j[1])', k[1] = j[1]
        PROVE  Done(k)' /\ job'[j].hash = job'[k].hash
    <3>1. k \in Jobs /\ job'[k] # None /\ job'[k].group = j[1] /\ j[1] # None
      BY <1>2, NoneFacts DEF Group
    <3>2. CASE job[k] # None
      <4>1. job[k].group = j[1]
        BY <3>1, <3>2 DEF JobsKept
      <4>2. k \in Group(j[1])
        BY <3>1, <3>2, <4>1 DEF Group
      <4> QED
        BY <1>2, <2>1, <2>2, <3>1, <4>2, GroupsKept DEF JobsKept
    <3>3. CASE job[k] = None
      <4>1. req[j[1]].pc = "insert" /\ k = LegJob(j[1])
        BY <2>2, <3>1, <3>3 DEF JobsKept
      <4>2. k[2] = req[j[1]].leg /\ j[2] # k[2]
        BY <1>2, <2>2, <3>1, <3>3, <4>1, PairFacts DEF LegJob
      <4>3. k[2] = 2 /\ j[2] = 1
        BY <1>2, <3>1, <4>1, <4>2, PairFacts DEF IInv, JobsWhole
      <4>4. j[1] \in Submits /\ req[j[1]].group = j[1]
        <5>1. /\ req[j[1]].leg = 2 => j[1] \in Verified
              /\ req[j[1]].pc # "idle" /\ j[1] \in Submits
                    => req[j[1]].group = IF j[1] \in Verified THEN j[1] ELSE None
          BY <1>2 DEF IInv, RequestsWhole, RequestWhole
        <5> QED
          BY <5>1, <4>1, <4>2, <4>3, PairFacts
      <4>5. job[j].group = j[1]
        BY <1>2, <4>1, <4>4 DEF IInv, JobsWhole, Stripped
      <4>6. k \in Legs(j[1])
        BY <2>2, <3>1, <4>3, PairFacts DEF Legs
      <4> QED
        BY <2>1, <3>3, <4>5, <4>6 DEF Group
    <3> QED
      BY <3>2, <3>3
  <2>3. ASSUME job'[j].group = j[1] PROVE Legs(j[1]) \subseteq Group(j[1])'
    <3>1. j[1] # None
      BY <1>2, NoneFacts
    <3>2. job[j].group = j[1]
      BY <2>3, <1>2, <3>1 DEF JobsKept
    <3>3. j[1] \in Submits
      BY <1>2, <3>1, <3>2, RowFacts DEF IInv
    <3> QED
      BY <2>1, <3>2, <3>3, GroupsKept
  <2>4. Justifies(j, r, as)'
    BY <1>2, <1>4, <2>1, <2>2, <2>3 DEF Justifies
  <2> QED
    BY <2>4 DEF Justified
<1> QED
  BY <1>3, <1>4
-----------------------------------------------------------------------------
(* What is settled, or about to be, has a job.                             *)
LEMMA SettledHasJob ==
    ASSUME IInv
    PROVE  /\ \A r, as : Justified(r, as) => HasJob(r)
           /\ \A r \in Resv : settled[r] # None => HasJob(r)
  BY DEF IInv, AllJustified, Justified, Justifies, Done, HasJob

LEMMA TodoHasJob ==
    ASSUME IInv, NEW h \in HandlerState, HandlerWhole(h), h.pc \in {"check", "txn"}
    PROVE  h.todo[1].resv \in Resv /\ HasJob(h.todo[1].resv)
<1>1. h.todo \in Seq([resv : Resv, as : Final]) /\ h.todo # <<>>
  BY DEF HandlerWhole, HandlerState
<1>2. 1 \in 1 .. Len(h.todo) /\ h.todo[1].resv \in Resv
  <2>1. 1 \in 1 .. Len(h.todo)
    BY <1>1
  <2>2. h.todo[1] \in [resv : Resv, as : Final]
    BY <1>1, <2>1, ElementOf, Zenon
  <2> QED
    BY <2>1, <2>2
<1>3. settled[h.todo[1].resv] # None \/ Justified(h.todo[1].resv, h.todo[1].as)
  BY <1>2 DEF HandlerWhole
<1> QED
  BY <1>2, <1>3, SettledHasJob

(* What every such step preserves; a reservation about to be marked        *)
(* running was about to be before, or has just got its first job.          *)
LEMMA JobsStep ==
    ASSUME IInv, JobsKept, TypeOK', RequestsWhole', JobsWhole', ResultsOver',
           UNCHANGED <<row, settled, rep, resolution>>,
           \A t \in Tiebreaks : /\ req'[t].pc # "idle" => req[t].pc # "idle"
                                /\ req'[t].group = req[t].group /\ req'[t].resv = req[t].resv,
           \A q \in Requests : req'[q].pc = "mark" /\ Alone(LegJob(q))' =>
              \/ /\ req[q].pc = "mark" /\ Alone(LegJob(q))
                 /\ LegResv(q)' = LegResv(q)
              \/ LegResv(q)' \in Resv /\ ~HasJob(LegResv(q)'),
           \A j \in Jobs : \/ handler'[j] = handler[j]
                           \/ /\ HandlerWhole(handler[j])'
                              /\ handler'[j].pc # "txn" /\ handler'[j].tb = None
    PROVE  IInv'
<1>1. \A g : Contested(g)' => Contested(g)
  BY DEF Contested
<1>2. \A r, as : Justified(r, as) => Justified(r, as)'
  BY JustifiedStays
<1>3. ASSUME NEW g \in Submits, Legs(g) \subseteq Group(g)
      PROVE  /\ Legs(g) \subseteq Group(g)'
             /\ \A k \in Group(g) : k \in Jobs /\ job[k] # None /\ job'[k].resv = job[k].resv
             /\ Single(g)' => Single(g)
  BY <1>3, GroupsKept DEF JobsKept, Group
<1>4. ASSUME NEW g \in Submits, Contested(g)' PROVE Contested(g) /\ Legs(g) \subseteq Group(g)
  BY <1>1, <1>4 DEF IInv, ContestedWhole
<1>5. ContestedWhole'
  BY <1>3, <1>4 DEF IInv, ContestedWhole
<1>6. RowsMatch'
  BY GroupsKept DEF IInv, RowsMatch
<1>7. AllJustified'
  BY <1>2 DEF IInv, AllJustified
<1>8. PairStays'
  BY <1>3, <1>4 DEF IInv, PairStays
<1>9. ThirdNode'
  <2>1. ASSUME NEW t \in Tiebreaks, req'[t].pc # "idle"
        PROVE  /\ req[t].pc # "idle" /\ req[t].group \in Submits
               /\ Contested(req[t].group) /\ Legs(req[t].group) \subseteq Group(req[t].group)
    <3>1. req[t].pc # "idle"
      BY <2>1
    <3>2. req[t].group \in Submits
      BY <3>1, PairFacts DEF IInv, RequestsWhole, RequestWhole
    <3>3. Contested(req[t].group)
      BY <3>1 DEF Contested
    <3> QED
      BY <3>1, <3>2, <3>3 DEF IInv, ContestedWhole
  <2>2. ASSUME NEW t \in Tiebreaks, req'[t].pc # "idle", NEW g \in Submits,
               g = req[t].group, Single(g)', NEW j \in Legs(g)
        PROVE  NodeOf[job'[j].resv] # NodeOf[req'[t].resv]
    BY <2>1, <2>2, <1>3 DEF IInv, ThirdNode
  <2>3. \A t \in Tiebreaks : req'[t].pc # "idle" => req'[t].group \in Submits
    BY <2>1
  <2> QED
    BY <2>2, <2>3 DEF ThirdNode
<1>10. BlamedIsDone'
  <2>1. ASSUME NEW g \in Submits, resolution[g] # None, resolution[g].atFault # None
        PROVE  Done(resolution[g].atFault)' /\ Legs(g) \subseteq Group(g)'
    <3>1. Done(resolution[g].atFault) /\ Legs(g) \subseteq Group(g)
      BY <2>1 DEF IInv, BlamedIsDone
    <3>2. resolution[g].atFault \in Jobs
      BY <2>1, PairFacts DEF IInv, TypeOK, ResolutionRow
    <3>3. Done(resolution[g].atFault)'
      BY <3>1, <3>2 DEF JobsKept, Done
    <3> QED
      BY <3>1, <3>3, <1>3
  <2> QED
    BY <2>1 DEF BlamedIsDone
<1>11. NotYetDisputed'
  <2>1. \A r \in Resv : ~HasJob(r) => row[r] \notin {"running", "disputed"}
    BY SettledHasJob, NoneFacts DEF IInv, RowsMatch, Final
  <2> QED
    BY <2>1 DEF IInv, NotYetDisputed
<1>12. HandlersSound'
  <2>1. SUFFICES ASSUME NEW j \in Jobs
                 PROVE  (HandlerWhole(handler[j]) /\ DisputeWaits(handler[j])
                           /\ PairHeldBy(handler[j]))'
    BY DEF HandlersSound
  <2>2. CASE handler'[j] # handler[j]
    BY <2>2 DEF DisputeWaits, PairHeldBy
  <2>3. CASE handler'[j] = handler[j]
    <3> DEFINE h == handler[j]
    <3>1. HandlerWhole(h) /\ DisputeWaits(h) /\ PairHeldBy(h) /\ h \in HandlerState
      BY DEF IInv, HandlersSound, TypeOK
    <3>2. h.tb # None => /\ h.group \in Submits /\ Legs(h.group) \subseteq Group(h.group)
                         /\ \A k \in h.orig \cup {h.tb} : k \in Jobs /\ Done(k)
      BY <3>1 DEF HandlerWhole, HandlerState
    <3>3. HandlerWhole(handler[j])'
      BY <2>3, <3>1, <3>2, <1>2, <1>3, GroupsKept DEF HandlerWhole
    <3>4. PairHeldBy(handler[j])'
      BY <2>3, <3>1, <3>2, <1>3, GroupsKept DEF PairHeldBy
    <3>5. DisputeWaits(handler[j])'
      <4>1. h.pc = "txn" => HasJob(h.todo[1].resv)
        BY <3>1, TodoHasJob
      <4> QED
        BY <2>3, <3>1, <4>1 DEF DisputeWaits
    <3> QED
      BY <3>3, <3>4, <3>5
  <2> QED
    BY <2>2, <2>3
<1>13. FaultStands'
  <2>1. SUFFICES ASSUME NEW g \in Submits, resolution[g] # None,
                        resolution[g].atFault # None, Single(g)'
                 PROVE  LET f == resolution[g].atFault
                            v == resolution[g].vindicated
                            t == resolution[g].tb
                        IN /\ {f, v} = Legs(g) /\ t \in Group(g)' /\ t[1] # g
                           /\ Done(f)' /\ Done(v)' /\ Done(t)'
                           /\ job'[v].hash = job'[t].hash /\ job'[f].hash # job'[t].hash
    BY DEF FaultStands, Match
  <2>2. Legs(g) \subseteq Group(g) /\ Single(g)
    BY <2>1, <1>3 DEF IInv, BlamedIsDone
  <2> DEFINE f == resolution[g].atFault
             v == resolution[g].vindicated
             t == resolution[g].tb
  <2>3. /\ {f, v} = Legs(g) /\ t \in Group(g) /\ t[1] # g
        /\ Done(f) /\ Done(v) /\ Done(t)
        /\ job[v].hash = job[t].hash /\ job[f].hash # job[t].hash
    BY <2>1, <2>2 DEF IInv, FaultStands, Match
  <2>4. f \in Jobs /\ v \in Jobs /\ t \in Jobs
    BY <2>3, LegsFacts DEF Group
  <2>5. /\ job'[f].hash = job[f].hash /\ job'[v].hash = job[v].hash
        /\ job'[t].hash = job[t].hash
    BY <2>3, <2>4 DEF JobsKept
  <2>6. Done(f)' /\ Done(v)' /\ Done(t)' /\ t \in Group(g)'
    BY <2>2, <2>3, <2>4, GroupsKept
  <2> QED
    BY <2>3, <2>5, <2>6
<1> QED
  BY <1>5, <1>6, <1>7, <1>8, <1>9, <1>10, <1>11, <1>12, <1>13 DEF IInv
-----------------------------------------------------------------------------
LEMMA InsertJobStep ==
    ASSUME IInv, NEW q \in Requests, InsertJob(q)
    PROVE  IInv'
<1> DEFINE k == LegJob(q)
           new == [resv |-> LegResv(q), group |-> req[q].group,
                   status |-> "running", hash |-> None]
<1>1. /\ req[q].pc = "insert" /\ req[q] \in RequestState /\ RequestWhole(q)
      /\ job' = [job EXCEPT ![k] = new] /\ req' = [req EXCEPT ![q].pc = "mark"]
      /\ UNCHANGED <<row, settled, rep, resolution, wire, handler, missed>>
  BY DEF InsertJob, Step, IInv, TypeOK, RequestsWhole
<1>2. k = <<q, req[q].leg>> /\ k \in Jobs /\ k[1] = q /\ k[2] = req[q].leg /\ job[k] = None
  BY <1>1, PairFacts DEF LegJob, RequestState, RequestWhole
<1>3. LegResv(q) \in Resv /\ req[q].group \in Submits \cup {None}
  BY <1>1, NoneFacts DEF LegResv, RequestState, RequestWhole
<1>4. new \in JobRow /\ new # None
  BY <1>3, NoneFacts DEF JobRow
<1>5. /\ job'[k] = new /\ \A j \in Jobs : j # k => job'[j] = job[j]
      /\ new.resv = LegResv(q) /\ new.group = req[q].group /\ new.status = "running"
  BY <1>1, <1>2 DEF IInv, TypeOK
<1> HIDE DEF new, k
<1>6. /\ req' \in [Requests -> RequestState]
      /\ req'[q].pc = "mark" /\ req'[q].leg = req[q].leg /\ req'[q].resv = req[q].resv
      /\ req'[q].sib = req[q].sib /\ req'[q].group = req[q].group
      /\ \A p \in Requests : p # q => req'[p] = req[p]
  BY <1>1 DEF IInv, TypeOK, RequestState
<1>7. TypeOK'
  BY <1>1, <1>2, <1>4, <1>6 DEF IInv, TypeOK
<1>8. JobsKept
  BY <1>1, <1>2, <1>4, <1>5 DEF JobsKept, Done, k
<1>9. RequestsWhole'
  <2>1. SUFFICES ASSUME NEW p \in Requests PROVE RequestWhole(p)'
    BY DEF RequestsWhole
  <2>2. CASE p = q
    BY <2>2, <1>1, <1>2, <1>4, <1>5, <1>6 DEF RequestWhole, LegJob
  <2>3. CASE p # q
    <3>1. RequestWhole(p) /\ req[p] \in RequestState
      BY DEF IInv, RequestsWhole, TypeOK
    <3>2. LegJob(p) \in Jobs /\ LegJob(p) # k /\ LegJob(p)' = LegJob(p) /\ <<p, 1>> \in Jobs
          /\ <<p, 1>> # k
      BY <2>3, <1>2, <1>6, <3>1, PairFacts DEF LegJob, RequestState
    <3> QED
      BY <2>3, <3>1, <3>2, <1>5, <1>6 DEF RequestWhole
  <2> QED
    BY <2>2, <2>3
<1>10. JobsWhole'
  <2>1. SUFFICES ASSUME NEW j \in Jobs, job'[j] # None
                 PROVE  /\ req'[j[1]].pc # "idle"
                        /\ j[2] = 2 => req'[j[1]].leg = 2
                        /\ job'[j].resv = LegOf(j)'
                        /\ job'[j].group = req'[j[1]].group \/ Stripped(j)'
                        /\ job'[j].status # "running" => wire'[j] = "over"
    BY DEF JobsWhole
  <2>2. LegOf(j)' = LegOf(j) /\ j[1] \in Requests
    BY <1>6, PairFacts DEF LegOf
  <2>3. CASE j = k
    <3>1. LegOf(j) = LegResv(q)
      BY <2>3, <1>2 DEF LegOf, LegResv
    <3> QED
      BY <2>2, <2>3, <3>1, <1>2, <1>5, <1>6
  <2>4. CASE j # k
    <3>1. job[j] # None /\ job'[j] = job[j]
      BY <2>1, <2>4, <1>5
    <3>2. /\ req[j[1]].pc # "idle"
          /\ j[2] = 2 => req[j[1]].leg = 2
          /\ job[j].resv = LegOf(j)
          /\ job[j].group = req[j[1]].group \/ Stripped(j)
          /\ job[j].status # "running" => wire[j] = "over"
      BY <3>1 DEF IInv, JobsWhole
    <3>3. Stripped(j) => Stripped(j)'
      <4>1. SUFFICES ASSUME Stripped(j) PROVE j[1] # q
        <5>1. ASSUME j[1] # q PROVE <<j[1], 2>> \in Jobs /\ <<j[1], 2>> # k
          BY <5>1, <1>2, <2>2, PairFacts
        <5> QED
          BY <2>2, <3>1, <5>1, <1>5, <1>6 DEF Stripped
      <4> QED
        BY <4>1, <1>1 DEF Stripped
    <3> QED
      BY <2>2, <3>1, <3>2, <3>3, <1>1, <1>6
  <2> QED
    BY <2>3, <2>4
<1>11. ResultsOver'
  BY <1>1, <1>2, <1>4, <1>5 DEF IInv, ResultsOver
<1>12. ASSUME NEW p \in Requests, req'[p].pc = "mark", Alone(LegJob(p))'
       PROVE  \/ /\ req[p].pc = "mark" /\ Alone(LegJob(p)) /\ LegResv(p)' = LegResv(p)
              \/ LegResv(p)' \in Resv /\ ~HasJob(LegResv(p)')
  <2>1. LegJob(p)' = LegJob(p) /\ LegResv(p)' = LegResv(p)
    BY <1>6 DEF LegJob, LegResv
  <2>2. CASE p = q
    <3>1. LegJob(p) = k /\ LegResv(p) \in Resv
      BY <2>2, <1>3 DEF k
    <3>2. \A j \in Jobs : job'[j] # None /\ job'[j].resv = LegResv(p) => j = k
      BY <2>1, <2>2, <3>1, <1>12, <1>5 DEF Alone
    <3>3. ~HasJob(LegResv(p))
      BY <3>2, <1>2, <1>5 DEF HasJob
    <3> QED
      BY <2>1, <3>1, <3>3
  <2>3. CASE p # q
    <3>1. req[p].pc = "mark" /\ LegJob(p) \in Jobs /\ job[LegJob(p)] # None
      <4>1. req[p].pc = "mark"
        BY <2>3, <1>12, <1>6
      <4>2. LegJob(p) \in Jobs /\ RequestWhole(p)
        BY LegIsJob
      <4> QED
        BY <4>1, <4>2 DEF RequestWhole
    <3>2. Alone(LegJob(p))
      <4>1. PICK l \in Jobs : l = LegJob(p)
        BY <3>1
      <4>2. Alone(l)'
        BY <4>1, <2>1, <1>12 DEF Alone
      <4> QED
        BY <4>1, <4>2, <3>1, <1>8, GroupsKept
    <3> QED
      BY <2>1, <3>1, <3>2
  <2> QED
    BY <2>2, <2>3
<1>13. \A t \in Tiebreaks : /\ req'[t].pc # "idle" => req[t].pc # "idle"
                            /\ req'[t].group = req[t].group /\ req'[t].resv = req[t].resv
  BY <1>1, <1>6, PairFacts
<1>14. \A j \in Jobs : handler'[j] = handler[j]
  BY <1>1
<1> QED
  BY <1>1, <1>7, <1>8, <1>9, <1>10, <1>11, <1>12, <1>13, <1>14, JobsStep

LEMMA StripStep ==
    ASSUME IInv, NEW q \in Requests, Strip(q)
    PROVE  IInv'
<1> DEFINE k == <<q, 1>>
<1>1. /\ req[q].pc = "strip" /\ req[q] \in RequestState /\ RequestWhole(q)
      /\ job' = [job EXCEPT ![k].group = None] /\ req' = [req EXCEPT ![q].pc = "done"]
      /\ UNCHANGED <<row, settled, rep, resolution, wire, handler>>
  BY DEF Strip, Step, IInv, TypeOK, RequestsWhole
<1>2. /\ k \in Jobs /\ k[1] = q /\ k[2] = 1 /\ <<q, 2>> \in Jobs /\ <<q, 2>> # k
      /\ job[k] # None /\ job[<<q, 2>>] = None /\ req[q].leg = 2
      /\ q \in Submits /\ req[q].group = q
  BY <1>1, PairFacts DEF LegJob, RequestWhole
<1>3. /\ job[k] \in JobRow /\ job[k].group \in {q, None}
  BY <1>2, RowFacts DEF IInv, JobsWhole, Stripped
<1>4. /\ job'[k] \in JobRow /\ job'[k] # None /\ job'[k].group = None
      /\ job'[k].resv = job[k].resv /\ job'[k].status = job[k].status
      /\ job'[k].hash = job[k].hash
      /\ \A j \in Jobs : j # k => job'[j] = job[j]
  BY <1>1, <1>2, <1>3, NoneFacts, SMTT(40) DEF IInv, TypeOK, JobRow
<1> HIDE DEF k
<1>5. /\ req' \in [Requests -> RequestState]
      /\ req'[q].pc = "done" /\ req'[q].leg = req[q].leg /\ req'[q].resv = req[q].resv
      /\ req'[q].sib = req[q].sib /\ req'[q].group = req[q].group
      /\ \A p \in Requests : p # q => req'[p] = req[p]
  BY <1>1 DEF IInv, TypeOK, RequestState
<1>6. TypeOK'
  BY <1>1, <1>2, <1>4, <1>5 DEF IInv, TypeOK
<1>7. JobsKept
  <2>1. \/ job'[k].group = job[k].group
        \/ /\ job'[k].group = None /\ job[k].group = k[1] /\ k[2] = 1
           /\ job[<<k[1], 2>>] = None
    BY <1>2, <1>3, <1>4
  <2> QED
    BY <2>1, <1>2, <1>4 DEF JobsKept, Done
<1>8. \A j \in Jobs : job'[j] = None <=> job[j] = None
  BY <1>2, <1>4
<1>9. RequestsWhole'
  <2>1. SUFFICES ASSUME NEW p \in Requests PROVE RequestWhole(p)'
    BY DEF RequestsWhole
  <2>2. LegJob(p)' = LegJob(p) /\ LegJob(p) \in Jobs /\ <<p, 1>> \in Jobs
    <3>1. req[p] \in RequestState /\ req'[p].leg = req[p].leg
      BY <1>5 DEF IInv, TypeOK
    <3> QED
      BY <3>1, PairFacts DEF LegJob, RequestState
  <2>3. RequestWhole(p)
    BY DEF IInv, RequestsWhole
  <2>4. CASE p = q
    BY <2>2, <2>3, <2>4, <1>1, <1>2, <1>5, <1>8 DEF RequestWhole
  <2>5. CASE p # q
    BY <2>2, <2>3, <2>5, <1>5, <1>8 DEF RequestWhole
  <2> QED
    BY <2>4, <2>5
<1>10. JobsWhole'
  <2>1. SUFFICES ASSUME NEW j \in Jobs, job'[j] # None
                 PROVE  /\ req'[j[1]].pc # "idle"
                        /\ j[2] = 2 => req'[j[1]].leg = 2
                        /\ job'[j].resv = LegOf(j)'
                        /\ job'[j].group = req'[j[1]].group \/ Stripped(j)'
                        /\ job'[j].status # "running" => wire'[j] = "over"
    BY DEF JobsWhole
  <2>2. LegOf(j)' = LegOf(j) /\ j[1] \in Requests /\ <<j[1], 2>> \in Jobs
    BY <1>5, PairFacts DEF LegOf
  <2>3. /\ req[j[1]].pc # "idle"
        /\ j[2] = 2 => req[j[1]].leg = 2
        /\ job[j].resv = LegOf(j)
        /\ job[j].group = req[j[1]].group \/ Stripped(j)
        /\ job[j].status # "running" => wire[j] = "over"
    BY <2>1, <1>8 DEF IInv, JobsWhole
  <2>4. job'[j].resv = job[j].resv /\ job'[j].status = job[j].status
    BY <1>4
  <2>5. job'[j].group = req'[j[1]].group \/ Stripped(j)'
    <3>1. CASE j = k
      BY <3>1, <2>2, <1>2, <1>4, <1>5, <1>8 DEF Stripped
    <3>2. CASE j # k
      BY <3>2, <2>2, <2>3, <1>1, <1>4, <1>5, <1>8 DEF Stripped
    <3> QED
      BY <3>1, <3>2
  <2> QED
    BY <2>2, <2>3, <2>4, <2>5, <1>1, <1>5
<1>11. ResultsOver'
  BY <1>1, <1>8 DEF IInv, ResultsOver
<1>12. ASSUME NEW p \in Requests, req'[p].pc = "mark", Alone(LegJob(p))'
       PROVE  req[p].pc = "mark" /\ Alone(LegJob(p)) /\ LegResv(p)' = LegResv(p)
  <2>1. /\ LegJob(p)' = LegJob(p) /\ LegResv(p)' = LegResv(p) /\ req[p].pc = "mark"
        /\ LegJob(p) \in Jobs /\ job[LegJob(p)] # None
    <3>1. req'[p].leg = req[p].leg /\ req'[p].resv = req[p].resv /\ req'[p].sib = req[p].sib
      BY <1>5
    <3>2. req[p].pc = "mark"
      BY <1>12, <1>5
    <3>3. LegJob(p)' = LegJob(p) /\ LegResv(p)' = LegResv(p)
      BY <3>1 DEF LegJob, LegResv
    <3>4. LegJob(p) \in Jobs /\ RequestWhole(p)
      BY LegIsJob
    <3> QED
      BY <3>2, <3>3, <3>4 DEF RequestWhole
  <2>2. PICK l \in Jobs : l = LegJob(p)
    BY <2>1
  <2>3. Alone(l)'
    BY <2>1, <2>2, <1>12 DEF Alone
  <2> QED
    BY <2>1, <2>2, <2>3, <1>7, GroupsKept
<1>13. \A t \in Tiebreaks : /\ req'[t].pc # "idle" => req[t].pc # "idle"
                            /\ req'[t].group = req[t].group /\ req'[t].resv = req[t].resv
  BY <1>1, <1>5, PairFacts
<1>14. \A j \in Jobs : handler'[j] = handler[j]
  BY <1>1
<1> QED
  BY <1>1, <1>6, <1>7, <1>9, <1>10, <1>11, <1>12, <1>13, <1>14, JobsStep
-----------------------------------------------------------------------------
(* A result of a job in a group waits for the group; any other settles.    *)
LEMMA ResultArrivesStep ==
    ASSUME IInv, NEW j \in Jobs, NEW result \in Results, ResultArrives(j, result)
    PROVE  IInv'
<1>1. /\ wire[j] = "running" /\ wire' = [wire EXCEPT ![j] = "over"]
      /\ UNCHANGED <<row, settled, rep, resolution, req>>
  BY DEF ResultArrives
<1>2. handler[j] = NoHandler
  BY <1>1 DEF IInv, ResultsOver
<1>3. wire' \in [Jobs -> InFlight \cup {"none", "over"}]
      /\ \A k \in Jobs : wire[k] = "over" => wire'[k] = "over"
  BY <1>1 DEF IInv, TypeOK
<1>4. CASE job[j] = None
  <2>1. UNCHANGED <<tables, handler>>
    BY <1>1, <1>4 DEF ResultArrives, tables
  <2>2. \A p \in Requests : Proceeds(p)
    BY <1>1 DEF Proceeds
  <2> QED
    BY <1>1, <1>3, <2>1, <2>2, RequestsProceed DEF IInv, TypeOK
<1>5. CASE job[j] # None
  <2> DEFINE status == MapJobStatus(result.status)
  <2>1. result.status \in ExecStatus
    BY SettlementAssumption
  <2>2. /\ status \in {"succeeded", "failed_user", "failed_provider"}
        /\ JobStatusToSettlement(result.status) = JobRowStatusToOutcome(status)
        /\ JobRowStatusToOutcome(status) \in Final \ {"disputed"}
    BY <2>1, StatusFacts
  <2> HIDE DEF status
  <2>3. job[j] \in JobRow /\ job[j].status = "running"
    BY <1>1, <1>5, RowFacts DEF IInv, JobsWhole
  <2>4. job' = [job EXCEPT ![j] = [job[j] EXCEPT !.status = status, !.hash = Hash(result)]]
    BY <1>5 DEF ResultArrives, status
  <2>5. /\ job'[j] \in JobRow /\ job'[j] # None /\ job'[j].resv = job[j].resv
        /\ job'[j].group = job[j].group /\ job'[j].status = status
        /\ \A k \in Jobs : k # j => job'[k] = job[k]
    <3>1. /\ job'[j] = [job[j] EXCEPT !.status = status, !.hash = Hash(result)]
          /\ \A k \in Jobs : k # j => job'[k] = job[k]
      BY <2>4 DEF IInv, TypeOK
    <3>2. Hash(result) \in {Hash(x) : x \in Results} \cup {None}
      OBVIOUS
    <3>3. /\ job'[j] \in JobRow /\ job'[j].resv = job[j].resv
          /\ job'[j].group = job[j].group /\ job'[j].status = status
      BY <2>2, <2>3, <3>1, <3>2 DEF JobRow
    <3> QED
      BY <3>1, <3>3, NoneFacts
  <2>6. JobsKept
    BY <1>5, <2>3, <2>5 DEF JobsKept, Done
  <2>7. \A k \in Jobs : job'[k] = None <=> job[k] = None
    BY <1>5, <2>5
  <2>8. RequestsWhole'
    <3>1. SUFFICES ASSUME NEW p \in Requests PROVE RequestWhole(p)'
      BY DEF RequestsWhole
    <3>2. req[p] \in RequestState /\ RequestWhole(p)
      BY DEF IInv, TypeOK, RequestsWhole
    <3>3. LegJob(p)' = LegJob(p) /\ LegJob(p) \in Jobs /\ <<p, 1>> \in Jobs
      BY <1>1, <3>2, PairFacts DEF LegJob, RequestState
    <3> QED
      BY <1>1, <2>7, <3>2, <3>3 DEF RequestWhole
  <2>9. JobsWhole'
    <3>1. SUFFICES ASSUME NEW k \in Jobs, job'[k] # None
                   PROVE  /\ req'[k[1]].pc # "idle"
                          /\ k[2] = 2 => req'[k[1]].leg = 2
                          /\ job'[k].resv = LegOf(k)'
                          /\ job'[k].group = req'[k[1]].group \/ Stripped(k)'
                          /\ job'[k].status # "running" => wire'[k] = "over"
      BY DEF JobsWhole
    <3>2. LegOf(k)' = LegOf(k) /\ <<k[1], 2>> \in Jobs
      BY <1>1, PairFacts DEF LegOf
    <3>3. job'[k].resv = job[k].resv /\ job'[k].group = job[k].group
      BY <2>5
    <3>4. /\ req[k[1]].pc # "idle"
          /\ k[2] = 2 => req[k[1]].leg = 2
          /\ job[k].resv = LegOf(k)
          /\ job[k].group = req[k[1]].group \/ Stripped(k)
          /\ job[k].status # "running" => wire[k] = "over"
      BY <3>1, <2>7 DEF IInv, JobsWhole
    <3>5. Stripped(k) => Stripped(k)'
      BY <1>1, <2>7, <3>2, <3>3 DEF Stripped
    <3>6. job'[k].status # "running" => wire'[k] = "over"
      BY <1>1, <1>3, <2>5, <3>4 DEF IInv, TypeOK
    <3> QED
      BY <1>1, <3>2, <3>3, <3>4, <3>5, <3>6
  <2>10. PICK n \in HandlerState :
            /\ handler' = [handler EXCEPT ![j] = n]
            /\ n.pc \notin {"idle", "txn"} /\ n.tb = None
            /\ HandlerWhole(n)'
    <3>1. /\ NoHandler \in HandlerState /\ NoHandler.tb = None /\ NoHandler.todo = <<>>
      BY ReturnedFits
    <3>2. CASE job[j].group # None
      <4> DEFINE n == [NoHandler EXCEPT !.pc = "count", !.group = job[j].group]
      <4>1. job[j].group \in Submits
        BY <3>2, <1>5, RowFacts DEF IInv
      <4>2. handler' = [handler EXCEPT ![j] = n]
        BY <1>2, <1>5, <3>2 DEF ResultArrives
      <4>3. /\ n \in HandlerState /\ n.pc = "count" /\ n.tb = None /\ n.todo = <<>>
            /\ n.group = job[j].group
        BY <3>1, <4>1 DEF HandlerState
      <4> HIDE DEF n
      <4>4. PICK m \in HandlerState : m = n
        BY <4>3
      <4>5. HandlerWhole(m)'
        BY <4>1, <4>3, <4>4 DEF HandlerWhole
      <4> QED
        BY <4>2, <4>3, <4>4, <4>5
    <3>3. CASE job[j].group = None
      <4> DEFINE outcome == JobRowStatusToOutcome(status)
                 todo == <<[resv |-> job[j].resv, as |-> outcome]>>
                 n == [NoHandler EXCEPT !.pc = "check", !.todo = todo]
      <4>1. handler' = [handler EXCEPT ![j] = n]
        BY <1>2, <1>5, <2>2, <3>3 DEF ResultArrives
      <4>2. job[j].resv \in Resv
        BY <1>5, RowFacts DEF IInv
      <4> HIDE DEF outcome
      <4>3. /\ todo \in Seq([resv : Resv, as : Final]) /\ Len(todo) = 1 /\ todo # <<>>
            /\ todo[1].resv = job[j].resv /\ todo[1].as = outcome
        BY <2>2, <4>2 DEF outcome
      <4> HIDE DEF todo
      <4>4. n \in HandlerState /\ n.pc = "check" /\ n.tb = None /\ n.todo = todo
        BY <3>1, <4>3 DEF HandlerState
      <4> HIDE DEF n
      <4>5. ~\E k \in Group(j[1])' : k[1] = j[1]
        <5>1. SUFFICES ASSUME NEW k \in Jobs, job'[k] # None, job'[k].group = j[1],
                              k[1] = j[1]
                       PROVE FALSE
          BY DEF Group
        <5>2. j[1] \in Requests /\ j[1] # None /\ k # j /\ job[k] # None
              /\ job[k].group = j[1]
          BY <5>1, <2>5, <3>3, PairFacts, NoneFacts
        <5>3. req[j[1]].group = j[1]
          BY <5>1, <5>2 DEF IInv, JobsWhole, Stripped
        <5>4. j[2] = 1 /\ job[<<j[1], 2>>] = None
          BY <1>5, <3>3, <5>2, <5>3 DEF IInv, JobsWhole, Stripped
        <5>5. k[2] = 2
          BY <5>1, <5>2, <5>4, PairFacts
        <5> QED
          BY <5>1, <5>2, <5>4, <5>5, PairFacts
      <4>6. PICK r \in Resv, as \in Final : r = job[j].resv /\ as = outcome
        BY <2>2, <4>2 DEF outcome
      <4>7. Justified(r, as)'
        <5>1. /\ Done(j)' /\ job'[j].resv = r /\ as # "disputed"
              /\ as = JobRowStatusToOutcome(job'[j].status)
              /\ job'[j].group # j[1]
          BY <4>6, <2>2, <2>5, <3>3, PairFacts, NoneFacts DEF Done, outcome
        <5>2. Justifies(j, r, as)'
          BY <5>1, <4>5 DEF Justifies
        <5> QED
          BY <5>2 DEF Justified
      <4>8. PICK m \in HandlerState : m = n
        BY <4>4
      <4>9. HandlerWhole(m)'
        <5>1. /\ m.pc = "check" /\ m.tb = None /\ m.todo # <<>> /\ Len(m.todo) = 1
              /\ m.todo[1].resv = r /\ m.todo[1].as = as
          BY <4>3, <4>4, <4>6, <4>8
        <5>2. \A i \in 1 .. Len(m.todo) : i = 1
          BY <5>1
        <5> QED
          BY <5>1, <5>2, <4>7 DEF HandlerWhole
      <4> QED
        BY <4>1, <4>4, <4>8, <4>9
    <3> QED
      BY <3>2, <3>3
  <2>11. /\ handler'[j] = n /\ handler' \in [Jobs -> HandlerState]
         /\ \A k \in Jobs : k # j => handler'[k] = handler[k]
    BY <2>10 DEF IInv, TypeOK
  <2>12. TypeOK'
    BY <1>1, <1>3, <2>4, <2>5, <2>11 DEF IInv, TypeOK
  <2>13. ResultsOver'
    BY <1>1, <1>3, <1>5, <2>7, <2>10, <2>11 DEF IInv, ResultsOver, TypeOK
  <2>14. ASSUME NEW p \in Requests, req'[p].pc = "mark", Alone(LegJob(p))'
         PROVE  req[p].pc = "mark" /\ Alone(LegJob(p)) /\ LegResv(p)' = LegResv(p)
    <3>1. /\ LegJob(p)' = LegJob(p) /\ LegResv(p)' = LegResv(p) /\ req[p].pc = "mark"
          /\ LegJob(p) \in Jobs /\ job[LegJob(p)] # None
      BY <2>14, <1>1, PairFacts
         DEF LegJob, LegResv, IInv, TypeOK, RequestState, RequestsWhole, RequestWhole
    <3>2. PICK l \in Jobs : l = LegJob(p)
      BY <3>1
    <3>3. Alone(l)'
      BY <3>1, <3>2, <2>14 DEF Alone
    <3> QED
      BY <3>1, <3>2, <3>3, <2>6, GroupsKept
  <2>15. HandlerWhole(handler[j])'
    BY <2>10, <2>11 DEF HandlerWhole
  <2>16. \A t \in Tiebreaks : /\ req'[t].pc # "idle" => req[t].pc # "idle"
                              /\ req'[t].group = req[t].group /\ req'[t].resv = req[t].resv
    BY <1>1
  <2>17. \A k \in Jobs : \/ handler'[k] = handler[k]
                         \/ /\ HandlerWhole(handler[k])'
                            /\ handler'[k].pc # "txn" /\ handler'[k].tb = None
    BY <2>10, <2>11, <2>15
  <2> QED
    BY <1>1, <2>6, <2>8, <2>9, <2>12, <2>13, <2>14, <2>16, <2>17, JobsStep
<1> QED
  BY <1>4, <1>5
-----------------------------------------------------------------------------
(***************************************************************************)
(* Steps that change rows, settlements or resolutions.                     *)
(***************************************************************************)
LEMMA MarkRunningStep ==
    ASSUME IInv, NEW q \in Requests, MarkRunning(q)
    PROVE  IInv'
<1> DEFINE k == LegJob(q)
           r == LegResv(q)
<1>1. /\ req[q].pc = "mark" /\ req[q] \in RequestState /\ RequestWhole(q)
      /\ row' = [row EXCEPT ![r] = "running"]
      /\ UNCHANGED <<job, settled, rep, resolution, wire, handler>>
  BY DEF MarkRunning, IInv, TypeOK, RequestsWhole
<1>2. k \in Jobs /\ job[k] # None /\ k = <<q, req[q].leg>> /\ k[1] = q /\ k[2] = req[q].leg
  BY <1>1, PairFacts DEF LegJob, RequestState, RequestWhole
<1>3. job[k].resv = r /\ r \in Resv
  <2>1. LegOf(k) = r
    BY <1>1, <1>2 DEF LegOf, LegResv, RequestState
  <2> QED
    BY <1>2, <2>1, RowFacts DEF IInv, JobsWhole
<1> HIDE DEF k, r
<1>4. /\ req' \in [Requests -> RequestState]
      /\ \A p \in Requests : p # q => req'[p] = req[p]
      /\ req'[q].resv = req[q].resv /\ req'[q].sib = req[q].sib
      /\ req'[q].group = req[q].group
      /\ \/ req'[q].pc = "done" /\ req'[q].leg = req[q].leg
         \/ /\ req'[q].pc = "send" /\ req'[q].leg = 2
            /\ req[q].leg = 1 /\ req[q].sib # None
  BY <1>1 DEF MarkRunning, IInv, TypeOK, RequestState
<1>5. row' \in [Resv -> {"confirmed", "running"} \cup Final] /\ row'[r] = "running"
      /\ \A s \in Resv : s # r => row'[s] = row[s]
  BY <1>1, <1>3 DEF IInv, TypeOK
<1>6. TypeOK'
  BY <1>1, <1>4, <1>5 DEF IInv, TypeOK
<1>7. RequestsWhole'
  <2>1. SUFFICES ASSUME NEW p \in Requests PROVE RequestWhole(p)'
    BY DEF RequestsWhole
  <2>2. CASE p = q /\ req'[q].pc = "done"
    BY <2>2, <1>1, <1>4 DEF RequestWhole
  <2>3. CASE p = q /\ req'[q].pc # "done"
    <3>1. job[<<q, 1>>] # None
      BY <1>2, <1>4, <2>3
    <3>2. job[<<q, 2>>] = None
      <4>1. <<q, 2>> \in Jobs /\ <<q, 2>>[1] = q /\ <<q, 2>>[2] = 2 /\ req[q].leg = 1
        BY <1>4, <2>3, PairFacts
      <4> QED
        BY <4>1 DEF IInv, JobsWhole
    <3>3. LegJob(q)' = <<q, 2>>
      BY <1>4, <2>3 DEF LegJob
    <3> QED
      BY <2>3, <3>1, <3>2, <3>3, <1>1, <1>4 DEF RequestWhole
  <2>4. CASE p # q
    <3>1. RequestWhole(p) /\ req'[p] = req[p]
      BY <2>4, <1>4 DEF IInv, RequestsWhole
    <3> QED
      BY <3>1, <1>1 DEF RequestWhole, LegJob
  <2> QED
    BY <2>2, <2>3, <2>4
<1>8. JobsWhole'
  <2>1. SUFFICES ASSUME NEW j \in Jobs, job[j] # None
                 PROVE  /\ req'[j[1]].pc # "idle"
                        /\ j[2] = 2 => req'[j[1]].leg = 2
                        /\ job[j].resv = LegOf(j)'
                        /\ job[j].group = req'[j[1]].group \/ Stripped(j)'
                        /\ job[j].status # "running" => wire[j] = "over"
    BY <1>1 DEF JobsWhole
  <2>2. LegOf(j)' = LegOf(j) /\ j[1] \in Requests
    BY <1>4, PairFacts DEF LegOf
  <2>3. /\ req[j[1]].pc # "idle"
        /\ j[2] = 2 => req[j[1]].leg = 2
        /\ job[j].resv = LegOf(j)
        /\ job[j].group = req[j[1]].group \/ Stripped(j)
        /\ job[j].status # "running" => wire[j] = "over"
    BY <2>1 DEF IInv, JobsWhole
  <2>4. Stripped(j) => Stripped(j)'
    BY <2>2, <1>1, <1>4 DEF Stripped
  <2> QED
    BY <2>2, <2>3, <2>4, <1>4
<1>9. \A g : Contested(g)' <=> Contested(g)
  BY <1>1, <1>4, PairFacts DEF Contested
<1>10. ContestedWhole'
  BY <1>1, <1>9, SameJobs DEF IInv, ContestedWhole
<1>11. RowsMatch'
  <2>1. HasJob(r)
    BY <1>2, <1>3 DEF HasJob
  <2> QED
    BY <1>1, <1>5, <2>1, SameJobs DEF IInv, RowsMatch, Final
<1>12. (AllJustified /\ ResultsOver /\ BlamedIsDone)'
  BY <1>1, SameJobs DEF IInv, AllJustified, ResultsOver, BlamedIsDone
<1>13. FaultStands'
  BY <1>1, SameJobs DEF IInv, FaultStands
<1>14. ThirdNode'
  BY <1>1, <1>4, SameJobs, PairFacts DEF IInv, ThirdNode
<1>15. ASSUME NEW p \in Requests, req'[p].pc = "mark"
       PROVE  /\ p # q /\ req[p].pc = "mark" /\ LegJob(p)' = LegJob(p)
              /\ LegResv(p)' = LegResv(p)
  BY <1>4, <1>15 DEF LegJob, LegResv
<1>16. HandlersSound'
  <2>1. SUFFICES ASSUME NEW j \in Jobs
                 PROVE  (HandlerWhole(handler[j]) /\ DisputeWaits(handler[j])
                           /\ PairHeldBy(handler[j]))'
    BY DEF HandlersSound
  <2>2. HandlerWhole(handler[j])'
    BY <1>1, SameJobs DEF IInv, HandlersSound, HandlerWhole
  <2>3. PairHeldBy(handler[j])'
    BY <1>1, SameJobs DEF IInv, HandlersSound, PairHeldBy
  <2>4. DisputeWaits(handler[j])'
    BY <1>1, <1>15, SameJobs DEF IInv, HandlersSound, DisputeWaits
  <2> QED
    BY <2>2, <2>3, <2>4
<1>17. NotYetDisputed'
  <2>1. SUFFICES ASSUME NEW p \in Requests, req'[p].pc = "mark", Alone(LegJob(p))
                 PROVE  row'[LegResv(p)] \notin {"running", "disputed"}
    BY <1>15, <1>1, SameJobs DEF NotYetDisputed
  <2>2. /\ req[p].pc = "mark" /\ p # q /\ LegJob(p) \in Jobs /\ LegJob(p)[1] = p
        /\ job[LegJob(p)] # None /\ LegOf(LegJob(p)) = LegResv(p)
    BY <2>1, <1>15, PairFacts, ZenonT(60)
       DEF IInv, TypeOK, RequestState, RequestsWhole, RequestWhole, LegJob, LegOf, LegResv
  <2>3. job[LegJob(p)].resv = LegResv(p) /\ LegResv(p) \in Resv
    BY <2>2, RowFacts DEF IInv, JobsWhole
  <2>4. LegResv(p) # r
    BY <2>1, <2>2, <2>3, <1>2, <1>3 DEF Alone
  <2> QED
    BY <2>1, <2>2, <2>3, <2>4, <1>5 DEF IInv, NotYetDisputed
<1>18. PairStays'
  <2>1. SUFFICES ASSUME NEW g \in Submits, Contested(g), Single(g), NEW j \in Legs(g)
                 PROVE  row'[job[j].resv] = "disputed"
    BY <1>1, <1>9, SameJobs DEF PairStays
  <2>2. j \in Group(g) /\ row[job[j].resv] = "disputed"
    BY <2>1 DEF IInv, PairStays, ContestedWhole
  <2>3. j \in Jobs /\ job[j] # None /\ job[j].resv \in Resv /\ Alone(j)
    BY <2>1, <2>2, RowFacts DEF Single, Group, IInv
  <2>4. ASSUME job[j].resv = r PROVE FALSE
    <3>1. k = j
      BY <2>3, <2>4, <1>2, <1>3 DEF Alone
    <3> QED
      BY <3>1, <2>2, <2>3, <2>4, <1>1 DEF IInv, NotYetDisputed, k, r
  <2> QED
    BY <2>2, <2>3, <2>4, <1>5
<1> QED
  BY <1>6, <1>7, <1>8, <1>10, <1>11, <1>12, <1>13, <1>14, <1>16, <1>17, <1>18 DEF IInv

(* Reputation stays a pair of numbers.                                     *)
LEMMA BumpedFits ==
    ASSUME TypeOK, NEW n \in Nodes, NEW effect \in {"success", "failure", None}
    PROVE  /\ Bumped(n, effect) \in [Nodes -> [total : Nat, failed : Nat]]
           /\ \A m \in Nodes : m # n => Bumped(n, effect)[m] = rep[m]
           /\ effect = None => Bumped(n, effect) = rep
           /\ effect = "success" =>
                 Bumped(n, effect)[n] = [total |-> rep[n].total + 1, failed |-> rep[n].failed]
           /\ effect = "failure" =>
                 Bumped(n, effect)[n] =
                    [total |-> rep[n].total + 1, failed |-> rep[n].failed + 1]
<1>1. rep \in [Nodes -> [total : Nat, failed : Nat]]
  BY DEF TypeOK
<1>2. None # "success" /\ None # "failure"
  BY SettlementAssumption
<1>3. CASE effect = None
  BY <1>1, <1>2, <1>3 DEF Bumped
<1>4. CASE effect = "success"
  <2>1. Bumped(n, effect) = [rep EXCEPT ![n].total = @ + 1, ![n].failed = @ + 0]
    BY <1>2, <1>4, Zenon DEF Bumped
  <2>2. Bumped(n, effect) \in [Nodes -> [total : Nat, failed : Nat]]
    <3>1. rep[n].failed \in Nat /\ rep[n].failed + 0 = rep[n].failed
      BY <1>1
    <3>2. Bumped(n, effect) = [rep EXCEPT ![n].total = @ + 1, ![n].failed = @]
      BY <2>1, <3>1, Zenon
    <3>3. [rep[n] EXCEPT !.total = rep[n].total + 1, !.failed = rep[n].failed]
             \in [total : Nat, failed : Nat]
      <4>1. \A x \in [total : Nat, failed : Nat], a, b \in Nat :
               [x EXCEPT !.total = a, !.failed = b] \in [total : Nat, failed : Nat]
        OBVIOUS
      <4>2. rep[n] \in [total : Nat, failed : Nat] /\ rep[n].total + 1 \in Nat
        BY <1>1
      <4> QED
        BY <3>1, <4>1, <4>2, Zenon
    <3>4. Bumped(n, effect) =
             [rep EXCEPT ![n] = [rep[n] EXCEPT !.total = rep[n].total + 1,
                                               !.failed = rep[n].failed]]
      BY <3>2
    <3> QED
      BY <1>1, <3>3, <3>4, Zenon
  <2>3. Bumped(n, effect)[n].total = rep[n].total + 1
        /\ Bumped(n, effect)[n].failed = rep[n].failed + 0
    BY <1>1, <2>1
  <2>4. \A m \in Nodes : m # n => Bumped(n, effect)[m] = rep[m]
    BY <1>1, <2>1
  <2>5. Bumped(n, effect)[n] = [total |-> rep[n].total + 1, failed |-> rep[n].failed + 0]
    BY <1>1, <2>2, <2>3
  <2> QED
    BY <1>1, <1>2, <1>4, <2>2, <2>4, <2>5
<1>5. CASE effect = "failure"
  <2>1. Bumped(n, effect) = [rep EXCEPT ![n].total = @ + 1, ![n].failed = @ + 1]
    BY <1>2, <1>5, Zenon DEF Bumped
  <2>2. Bumped(n, effect) \in [Nodes -> [total : Nat, failed : Nat]]
    BY <1>1, <2>1
  <2>3. Bumped(n, effect)[n].total = rep[n].total + 1
        /\ Bumped(n, effect)[n].failed = rep[n].failed + 1
    BY <1>1, <2>1
  <2>4. \A m \in Nodes : m # n => Bumped(n, effect)[m] = rep[m]
    BY <1>1, <2>1
  <2>5. Bumped(n, effect)[n] = [total |-> rep[n].total + 1, failed |-> rep[n].failed + 1]
    BY <1>1, <2>2, <2>3
  <2> QED
    BY <1>1, <1>2, <1>5, <2>2, <2>4, <2>5
<1> QED
  BY <1>3, <1>4, <1>5

LEMMA EffectFacts ==
    \A as \in Final :
       ReputationEffect(as) = IF as \in {"completed", "failed_user"} THEN "success"
                              ELSE IF as = "failed_provider" THEN "failure" ELSE None
  BY DEF Final, ReputationEffect

LEMMA SettleTxnStep ==
    ASSUME IInv, NEW j \in Jobs, SettleTxn(j)
    PROVE  IInv'
<1> DEFINE h == handler[j]
           r == h.todo[1].resv
           as == h.todo[1].as
<1>1. /\ h \in HandlerState /\ h.pc = "txn" /\ HandlerWhole(h) /\ PairHeldBy(h)
      /\ DisputeWaits(h) /\ UNCHANGED <<job, resolution, req, wire>>
  BY DEF SettleTxn, IInv, TypeOK, HandlersSound
<1>2. /\ h.todo # <<>> /\ h.todo \in Seq([resv : Resv, as : Final])
      /\ 1 \in 1 .. Len(h.todo) /\ Head(h.todo) = h.todo[1]
  BY <1>1 DEF HandlerWhole, HandlerState
<1>3. r \in Resv /\ as \in Final
  <2>1. h.todo[1] \in [resv : Resv, as : Final]
    BY <1>2, ElementOf, Zenon
  <2> QED
    BY <2>1
<1>4. PICK n \in HandlerState : /\ handler' = [handler EXCEPT ![j] = n]
                                /\ HandlerWhole(n) /\ PairHeldBy(n)
                                /\ n.pc \notin {"idle", "txn"}
  BY <1>1, NextTodoFits DEF SettleTxn
<1>5. /\ settled[r] = None =>
            /\ settled' = [settled EXCEPT ![r] = as] /\ row' = [row EXCEPT ![r] = as]
            /\ rep' = Bumped(NodeOf[r], ReputationEffect(as))
      /\ settled[r] # None => UNCHANGED <<settled, row, rep>>
  BY <1>2 DEF SettleTxn
<1>6. settled[r] = None => Justified(r, as)
  BY <1>1, <1>2 DEF HandlerWhole
<1> HIDE DEF r, as
<1>7. TypeOK'
  <2>1. handler' \in [Jobs -> HandlerState]
    BY <1>4 DEF IInv, TypeOK
  <2>2. CASE settled[r] # None
    BY <2>1, <2>2, <1>1, <1>5 DEF IInv, TypeOK
  <2>3. CASE settled[r] = None
    <3>1. NodeOf[r] \in Nodes /\ ReputationEffect(as) \in {"success", "failure", None}
      BY <1>3, EffectFacts DEF Nodes
    <3>2. rep' \in [Nodes -> [total : Nat, failed : Nat]]
      <4>1. TypeOK
        BY DEF IInv
      <4>2. Bumped(NodeOf[r], ReputationEffect(as)) \in [Nodes -> [total : Nat, failed : Nat]]
        BY <3>1, <4>1, BumpedFits, Zenon
      <4> QED
        BY <2>3, <1>5, <4>2
    <3>3. settled' \in [Resv -> Final \cup {None}]
          /\ row' \in [Resv -> {"confirmed", "running"} \cup Final]
      BY <2>3, <1>3, <1>5 DEF IInv, TypeOK
    <3> QED
      BY <2>1, <3>2, <3>3, <1>1 DEF IInv, TypeOK
  <2> QED
    BY <2>2, <2>3
<1>8. \A s \in Resv : /\ settled[s] # None => settled'[s] = settled[s] /\ row'[s] = row[s]
                      /\ row'[s] # row[s] => s = r /\ row'[s] = as /\ settled'[s] = as
                      /\ settled'[s] # settled[s] => s = r /\ settled[r] = None
                                                     /\ settled'[s] = as
  BY <1>3, <1>5 DEF IInv, TypeOK
<1>9. (RequestsWhole /\ JobsWhole)'
  BY <1>1
     DEF IInv, RequestsWhole, RequestWhole, JobsWhole, LegJob, LegOf, Stripped
<1>10. \A g : Contested(g)' <=> Contested(g)
  BY <1>1 DEF Contested
<1>11. \A g \in Submits : \A k \in Legs(g) : Contested(g) =>
          /\ k \in Group(g) /\ job[k].resv \in Resv
          /\ settled'[job[k].resv] # None /\ row'[job[k].resv] = row[job[k].resv]
  <2>1. \A g, k : k \in Group(g) => k \in Jobs /\ job[k] # None
    BY DEF Group
  <2>2. SUFFICES ASSUME NEW g \in Submits, NEW k \in Legs(g), Contested(g)
                 PROVE  /\ k \in Group(g) /\ job[k].resv \in Resv
                        /\ settled'[job[k].resv] # None
                        /\ row'[job[k].resv] = row[job[k].resv]
    OBVIOUS
  <2>3. k \in Group(g) /\ settled[job[k].resv] # None
    BY <2>2 DEF IInv, ContestedWhole
  <2>4. job[k].resv \in Resv
    BY <2>1, <2>3, RowFacts DEF IInv
  <2> QED
    BY <2>3, <2>4, <1>8
<1>12. (ContestedWhole /\ PairStays)'
  BY <1>1, <1>10, <1>11, SameJobs DEF IInv, ContestedWhole, PairStays
<1>13. RowsMatch'
  BY <1>1, <1>3, <1>8, SameJobs, NoneFacts DEF IInv, RowsMatch, TypeOK, Final
<1>14. AllJustified'
  BY <1>1, <1>6, <1>8, SameJobs DEF IInv, AllJustified
<1>15. ResultsOver'
  BY <1>1, <1>4, ReturnedFits DEF IInv, ResultsOver, TypeOK
<1>16. (BlamedIsDone /\ ThirdNode)'
  BY <1>1, SameJobs DEF IInv, BlamedIsDone, ThirdNode
<1>17. FaultStands'
  BY <1>1, SameJobs DEF IInv, FaultStands
<1>18. NotYetDisputed'
  <2>1. SUFFICES ASSUME NEW q \in Requests, req[q].pc = "mark", Alone(LegJob(q))
                 PROVE  row'[LegResv(q)] \notin {"running", "disputed"}
    BY <1>1, SameJobs DEF NotYetDisputed, LegJob, LegResv
  <2>2. LegResv(q) \in Resv
    BY <2>1, NoneFacts
       DEF IInv, RequestsWhole, RequestWhole, TypeOK, RequestState, LegResv
  <2>3. CASE row'[LegResv(q)] = row[LegResv(q)]
    BY <2>1, <2>3 DEF IInv, NotYetDisputed
  <2>4. CASE row'[LegResv(q)] # row[LegResv(q)]
    <3>1. LegResv(q) = r /\ row'[LegResv(q)] = as
      BY <2>2, <2>4, <1>8
    <3>2. as # "disputed"
      BY <3>1, <2>1, <1>1 DEF DisputeWaits, r, as
    <3> QED
      BY <3>1, <3>2, <1>3 DEF Final
  <2> QED
    BY <2>3, <2>4
<1>19. HandlersSound'
  <2>1. SUFFICES ASSUME NEW k \in Jobs
                 PROVE  (HandlerWhole(handler[k]) /\ DisputeWaits(handler[k])
                           /\ PairHeldBy(handler[k]))'
    BY DEF HandlersSound
  <2>2. /\ HandlerWhole(handler'[k]) /\ PairHeldBy(handler'[k]) /\ DisputeWaits(handler'[k])
        /\ handler'[k] \in HandlerState
    BY <1>4 DEF IInv, HandlersSound, TypeOK, DisputeWaits
  <2>3. PairHeldBy(handler[k])' /\ DisputeWaits(handler[k])'
    BY <2>2, <1>1, SameJobs DEF PairHeldBy, DisputeWaits, LegJob, LegResv
  <2>4. HandlerWhole(handler[k])'
    <3>1. \A i \in 1 .. Len(handler'[k].todo) : handler'[k].todo[i].resv \in Resv
      <4>1. handler'[k].todo \in Seq([resv : Resv, as : Final])
        BY <2>2 DEF HandlerState
      <4>2. \A i \in 1 .. Len(handler'[k].todo) :
               handler'[k].todo[i] \in [resv : Resv, as : Final]
        BY <4>1, ElementOf, Zenon
      <4> QED
        BY <4>2
    <3>2. \A i \in 1 .. Len(handler'[k].todo) :
             \/ settled'[handler'[k].todo[i].resv] # None
             \/ Justified(handler'[k].todo[i].resv, handler'[k].todo[i].as)
      BY <2>2, <3>1, <1>8 DEF HandlerWhole
    <3> QED
      BY <2>2, <3>2, <1>1, SameJobs DEF HandlerWhole
  <2> QED
    BY <2>3, <2>4
<1> QED
  BY <1>7, <1>9, <1>12, <1>13, <1>14, <1>15, <1>16, <1>17, <1>18, <1>19 DEF IInv
-----------------------------------------------------------------------------
(* What an attribution writes: nothing, a resolution that blames nobody,   *)
(* or one that blames the original the tiebreaker contradicts.             *)
Resolves(g, res) == /\ g \in Submits /\ res \in ResolutionRow /\ resolution[g] = None
                    /\ resolution' = [resolution EXCEPT ![g] = res]
Blames(h, res) == /\ res.tb = h.tb /\ res.vindicated \in h.orig /\ res.atFault \in h.orig
                  /\ Match(res.vindicated, h.tb) /\ ~Match(res.atFault, h.tb)
                  /\ Done(res.atFault) /\ Done(res.vindicated) /\ Done(h.tb)
                  /\ Legs(h.group) \subseteq Group(h.group)
                  /\ rep' = Bumped(NodeOf[job[res.atFault].resv], "failure")
LEMMA AttributeOutcome ==
    ASSUME IInv, NEW j \in Jobs, Attribute(j)
    PROVE  \/ UNCHANGED <<resolution, rep>>
           \/ \E res \in ResolutionRow :
                 Resolves(handler[j].group, res) /\ res.atFault = None /\ UNCHANGED rep
           \/ \E res \in ResolutionRow :
                 Resolves(handler[j].group, res) /\ Blames(handler[j], res)
<1> DEFINE h == handler[j]
           agree == {k \in h.orig : Match(k, h.tb)}
<1>1. h \in HandlerState /\ HandlerWhole(h) /\ h.pc = "attribute"
  BY DEF IInv, TypeOK, HandlersSound, Attribute
<1>2. /\ h.tb \in Jobs /\ h.orig \in SUBSET Jobs /\ h.group \in Submits
      /\ Legs(h.group) \subseteq Group(h.group) /\ \A k \in h.orig \cup {h.tb} : Done(k)
  BY <1>1 DEF HandlerWhole, HandlerState
<1>3. CASE resolution[h.group] # None
  BY <1>3 DEF Attribute
<1>4. CASE resolution[h.group] = None /\ Cardinality(agree) = 1
  <2>1. PICK v \in agree, f \in h.orig \ agree :
          /\ resolution' = [resolution EXCEPT ![h.group] =
                [tb |-> h.tb, vindicated |-> v, atFault |-> f]]
          /\ rep' = Bumped(NodeOf[job[f].resv], "failure")
    BY <1>4 DEF Attribute
  <2> DEFINE res == [tb |-> h.tb, vindicated |-> v, atFault |-> f]
  <2>2. /\ res \in ResolutionRow
        /\ res.tb = h.tb /\ res.vindicated = v /\ res.atFault = f
    BY <1>2 DEF ResolutionRow
  <2>3. v \in h.orig /\ Match(v, h.tb) /\ f \in h.orig /\ ~Match(f, h.tb)
    OBVIOUS
  <2> HIDE DEF res, agree
  <2>4. Resolves(h.group, res)
    BY <1>2, <1>4, <2>1, <2>2 DEF Resolves, res
  <2>5. Blames(h, res)
    BY <1>2, <2>1, <2>2, <2>3 DEF Blames
  <2> QED
    BY <2>2, <2>4, <2>5
<1>5. CASE resolution[h.group] = None /\ Cardinality(agree) # 1
  <2> DEFINE res == [tb |-> h.tb, vindicated |-> None, atFault |-> None]
  <2>1. resolution' = [resolution EXCEPT ![h.group] = res] /\ UNCHANGED rep
    BY <1>5 DEF Attribute
  <2>2. res \in ResolutionRow /\ res.atFault = None
    BY <1>2 DEF ResolutionRow
  <2> HIDE DEF res
  <2>3. Resolves(h.group, res)
    BY <1>2, <1>5, <2>1, <2>2 DEF Resolves
  <2> QED
    BY <2>1, <2>2, <2>3
<1> QED
  BY <1>3, <1>4, <1>5

(* Where each reservation has one job, the handler holds the pair of the   *)
(* group, so the two originals it sets apart are its two legs.             *)
LEMMA AttributeStep ==
    ASSUME IInv, NEW j \in Jobs, Attribute(j)
    PROVE  IInv'
<1> DEFINE h == handler[j]
<1>1. /\ h \in HandlerState /\ HandlerWhole(h) /\ PairHeldBy(h) /\ h.pc = "attribute"
      /\ handler' = [handler EXCEPT ![j] = Returned]
      /\ UNCHANGED <<row, job, settled, req, wire>>
  BY DEF IInv, TypeOK, HandlersSound, Attribute
<1>2. \A k \in Jobs : handler'[k] = handler[k] \/ handler'[k] = Returned
  BY <1>1 DEF IInv, TypeOK
<1>3. (RequestsWhole /\ JobsWhole /\ ThirdNode /\ NotYetDisputed)'
  BY <1>1, SameJobs
     DEF IInv, RequestsWhole, RequestWhole, JobsWhole, ThirdNode, NotYetDisputed,
         LegJob, LegOf, LegResv, Stripped
<1>4. \A g : Contested(g)' <=> Contested(g)
  BY <1>1 DEF Contested
<1>5. (ContestedWhole /\ RowsMatch /\ AllJustified /\ PairStays)'
  BY <1>1, <1>4, SameJobs DEF IInv, ContestedWhole, RowsMatch, AllJustified, PairStays
<1>6. HandlersSound'
  <2>1. SUFFICES ASSUME NEW k \in Jobs
                 PROVE  (HandlerWhole(handler[k]) /\ DisputeWaits(handler[k])
                           /\ PairHeldBy(handler[k]))'
    BY DEF HandlersSound
  <2>2. HandlerWhole(handler'[k]) /\ DisputeWaits(handler'[k]) /\ PairHeldBy(handler'[k])
    BY <1>2, ReturnedFits DEF IInv, HandlersSound
  <2>3. HandlerWhole(handler[k])'
    BY <2>2, <1>1, SameJobs DEF HandlerWhole
  <2>4. PairHeldBy(handler[k])'
    BY <2>2, <1>1, SameJobs DEF PairHeldBy
  <2>5. DisputeWaits(handler[k])'
    BY <2>2, <1>1, SameJobs DEF DisputeWaits, LegJob, LegResv
  <2> QED
    BY <2>3, <2>4, <2>5
<1>7. ResultsOver'
  <2>1. SUFFICES ASSUME NEW k \in Jobs
                 PROVE  \/ handler'[k] = NoHandler
                        \/ handler'[k].pc # "idle" /\ job'[k] # None /\ wire'[k] = "over"
    BY DEF ResultsOver
  <2>2. \/ handler[k] = NoHandler
        \/ handler[k].pc # "idle" /\ job[k] # None /\ wire[k] = "over"
    BY DEF IInv, ResultsOver
  <2>3. handler[j] # NoHandler
    BY <1>1, ReturnedFits
  <2>4. Returned.pc = "done"
    BY ReturnedFits
  <2>5. k # j => handler'[k] = handler[k]
    BY <1>1 DEF IInv, TypeOK
  <2>6. handler'[j] = Returned
    BY <1>1 DEF IInv, TypeOK
  <2> QED
    BY <2>2, <2>3, <2>4, <2>5, <2>6, <1>1
<1>8. handler' \in [Jobs -> HandlerState]
  BY <1>1, ReturnedFits DEF IInv, TypeOK
<1>9. (TypeOK /\ BlamedIsDone /\ FaultStands)'
  <2>1. CASE UNCHANGED <<resolution, rep>>
    <3>1. TypeOK'
      BY <2>1, <1>1, <1>8 DEF IInv, TypeOK
    <3>2. BlamedIsDone'
      BY <2>1, <1>1, SameJobs DEF IInv, BlamedIsDone
    <3>3. FaultStands'
      BY <2>1, <1>1, SameJobs DEF IInv, FaultStands
    <3> QED
      BY <3>1, <3>2, <3>3
  <2>2. ASSUME NEW res \in ResolutionRow, Resolves(h.group, res),
               res.atFault = None, UNCHANGED rep
        PROVE  (TypeOK /\ BlamedIsDone /\ FaultStands)'
    <3>1. resolution' \in [Requests -> ResolutionRow \cup {None}]
          /\ resolution'[h.group] = res
          /\ \A g \in Submits : g # h.group => resolution'[g] = resolution[g]
      BY <2>2, PairFacts DEF Resolves, IInv, TypeOK
    <3>2. TypeOK'
      BY <2>2, <3>1, <1>1, <1>8 DEF IInv, TypeOK
    <3>3. BlamedIsDone'
      BY <2>2, <3>1, <1>1, SameJobs DEF IInv, BlamedIsDone
    <3>4. FaultStands'
      <4>1. SUFFICES ASSUME NEW g \in Submits, resolution'[g] # None,
                            resolution'[g].atFault # None, Single(g)
                     PROVE  (LET f == resolution[g].atFault
                                 v == resolution[g].vindicated
                                 t == resolution[g].tb
                             IN /\ {f, v} = Legs(g) /\ t \in Group(g) /\ t[1] # g
                                /\ Done(f) /\ Done(v) /\ Done(t)
                                /\ Match(v, t) /\ ~Match(f, t))'
        BY <1>1, SameJobs DEF FaultStands
      <4>2. resolution'[g] = resolution[g]
        BY <4>1, <3>1, <2>2
      <4> QED
        BY <4>1, <4>2, <1>1, SameJobs DEF IInv, FaultStands
    <3> QED
      BY <3>2, <3>3, <3>4
  <2>3. ASSUME NEW res \in ResolutionRow, Resolves(h.group, res), Blames(h, res)
        PROVE  (TypeOK /\ BlamedIsDone /\ FaultStands)'
    <3>1. /\ resolution' \in [Requests -> ResolutionRow \cup {None}]
          /\ resolution'[h.group] = res /\ h.group \in Submits
          /\ \A g \in Submits : g # h.group => resolution'[g] = resolution[g]
      BY <2>3, PairFacts, SMTT(40) DEF Resolves, IInv, TypeOK
    <3>2. rep' \in [Nodes -> [total : Nat, failed : Nat]]
      <4>1. res.atFault \in Jobs /\ job[res.atFault] # None
        BY <2>3, <1>1 DEF Blames, Done, HandlerState
      <4>2. NodeOf[job[res.atFault].resv] \in Nodes
        BY <4>1, RowFacts DEF IInv, Nodes
      <4>3. Bumped(NodeOf[job[res.atFault].resv], "failure")
               \in [Nodes -> [total : Nat, failed : Nat]]
        <5>1. TypeOK
          BY DEF IInv
        <5> QED
          BY <4>2, <5>1, BumpedFits, Zenon
      <4> QED
        BY <2>3, <4>3 DEF Blames
    <3>3. TypeOK'
      BY <3>1, <3>2, <1>1, <1>8 DEF IInv, TypeOK
    <3>4. BlamedIsDone'
      BY <2>3, <3>1, <1>1, SameJobs DEF IInv, BlamedIsDone, Blames
    <3>5. FaultStands'
      <4>1. SUFFICES ASSUME NEW g \in Submits, resolution'[g] # None,
                            resolution'[g].atFault # None, Single(g)
                     PROVE  (LET f == resolution[g].atFault
                                 v == resolution[g].vindicated
                                 t == resolution[g].tb
                             IN /\ {f, v} = Legs(g) /\ t \in Group(g) /\ t[1] # g
                                /\ Done(f) /\ Done(v) /\ Done(t)
                                /\ Match(v, t) /\ ~Match(f, t))'
        BY <1>1, SameJobs DEF FaultStands
      <4>2. CASE g # h.group
        <5>1. resolution'[g] = resolution[g]
          BY <4>2, <3>1
        <5> QED
          BY <4>1, <5>1, <1>1, SameJobs DEF IInv, FaultStands
      <4>3. CASE g = h.group
        <5>1. h.orig = Legs(g) /\ h.tb \in Group(g) /\ h.tb[1] # g
          BY <4>1, <4>3, <1>1 DEF PairHeldBy, HandlerWhole
        <5>2. res.vindicated \in Legs(g) /\ res.atFault \in Legs(g)
              /\ res.vindicated # res.atFault
          BY <5>1, <2>3 DEF Blames
        <5>3. {res.atFault, res.vindicated} = Legs(g)
          BY <5>2 DEF Legs
        <5> QED
          BY <5>1, <5>3, <4>3, <3>1, <2>3, <1>1, SameJobs DEF Blames
      <4> QED
        BY <4>2, <4>3
    <3> QED
      BY <3>3, <3>4, <3>5
  <2> QED
    BY <2>1, <2>2, <2>3, AttributeOutcome
<1> QED
  BY <1>3, <1>5, <1>6, <1>7, <1>9 DEF IInv
-----------------------------------------------------------------------------
LEMMA InitStep == Init => IInv
<1> SUFFICES ASSUME Init PROVE IInv
  OBVIOUS
<1>1. NoReq \in RequestState /\ NoReq.pc = "idle" /\ NoReq.leg = 1
  BY DEF NoReq, RequestState
<1>2. NoHandler \in HandlerState
  BY ReturnedFits
<1>3. /\ \A q \in Requests : req[q] = NoReq
      /\ \A j \in Jobs : job[j] = None /\ handler[j] = NoHandler
      /\ \A r \in Resv : settled[r] = None /\ row[r] = "confirmed"
      /\ \A g \in Submits : resolution[g] = None
  BY PairFacts DEF Init
<1>4. TypeOK
  BY <1>1, <1>2 DEF Init, TypeOK, InFlight
<1>5. RequestsWhole
  <2>1. SUFFICES ASSUME NEW q \in Requests PROVE RequestWhole(q)
    BY DEF RequestsWhole
  <2>2. req[q].pc = "idle" /\ req[q].leg = 1
    BY <1>1, <1>3
  <2>3. LegJob(q) \in Jobs /\ job[LegJob(q)] = None
    BY <2>2, <1>3, PairFacts DEF LegJob
  <2> QED
    BY <2>2, <2>3 DEF RequestWhole
<1>6. JobsWhole /\ ResultsOver /\ BlamedIsDone /\ FaultStands
  BY <1>3 DEF JobsWhole, ResultsOver, BlamedIsDone, FaultStands
<1>7. ContestedWhole /\ PairStays /\ ThirdNode /\ NotYetDisputed
  BY <1>1, <1>3, PairFacts DEF ContestedWhole, PairStays, ThirdNode, NotYetDisputed, Contested
<1>8. RowsMatch /\ AllJustified
  BY <1>3 DEF RowsMatch, AllJustified, Final
<1>9. HandlersSound
  BY <1>3, ReturnedFits DEF HandlersSound
<1> QED
  BY <1>4, <1>5, <1>6, <1>7, <1>8, <1>9 DEF IInv

LEMMA StutterStep ==
    ASSUME IInv, UNCHANGED vars
    PROVE  IInv'
<1>1. UNCHANGED <<tables, req, wire, handler>>
  BY DEF vars
<1>2. \A q \in Requests : Proceeds(q)
  BY <1>1 DEF Proceeds
<1> QED
  BY <1>1, <1>2, RequestsProceed DEF IInv, TypeOK

LEMMA NextStep == IInv /\ [Next]_vars => IInv'
<1> SUFFICES ASSUME IInv, [Next]_vars PROVE IInv'
  OBVIOUS
<1>1. ASSUME NEW q \in Requests, NEW r \in Resv,
             \/ \E s \in Resv \cup {None} : SubmitRead(q, r, s)
             \/ \E g \in Submits : TiebreakRead(q, g, r)
      PROVE  IInv'
  BY <1>1, SubmitReadStep, TiebreakReadStep
<1>2. ASSUME NEW q \in Requests, Requesting(q) PROVE IInv'
  BY <1>2, SendStep, InsertJobStep, MarkRunningStep, StripStep DEF Requesting
<1>3. ASSUME NEW j \in Jobs, Handling(j) PROVE IInv'
  BY <1>3, CountGroupStep, CompareGroupStep, ResolveReadStep, SettleCheckStep,
     SettleTxnStep, AttributeStep DEF Handling
<1>4. ASSUME NEW j \in Jobs, Accepted(j) \/ Rejected(j) PROVE IInv'
  BY <1>4, AnswerStep
<1>5. ASSUME NEW j \in Jobs, NEW result \in Results, ResultArrives(j, result) PROVE IInv'
  BY <1>5, ResultArrivesStep
<1>6. ASSUME NEW n \in Nodes, LinkDrops(n) PROVE IInv'
  BY <1>6, LinkDropsStep
<1>7. CASE PlatformCrash
  BY <1>7, PlatformCrashStep
<1>8. CASE UNCHANGED vars
  BY <1>8, StutterStep
<1> QED
  BY <1>1, <1>2, <1>3, <1>4, <1>5, <1>6, <1>7, <1>8 DEF Next, Work

THEOREM InductiveInvariant == Spec => []IInv
  BY InitStep, NextStep, PTL DEF Spec
-----------------------------------------------------------------------------
(* The tables and every handler's and request's state stay within their    *)
(* types.                                                                  *)
THEOREM TypeCorrect == Spec => []TypeOK
<1>1. IInv => TypeOK
  BY DEF IInv
<1> QED
  BY <1>1, InductiveInvariant, PTL

(* A provider is paid, billed or refunded only on what its own job         *)
(* reported, and for a verified job only on what both nodes returned:      *)
(* settleReservation, settleVerificationGroup and resolveDisputeTiebreaker *)
(* for any number of nodes, reservations, requests and tiebreaks, in any   *)
(* interleaving and with crashes.                                          *)
THEOREM SettledOnGoodGrounds == Spec => []SettlementJustified
<1>1. ASSUME IInv PROVE SettlementJustified
  <2>1. SUFFICES ASSUME NEW r \in Resv, settled[r] # None
                 PROVE  \E j \in Jobs :
          LET mates == {k \in Group(j[1]) : k[1] = j[1]} \ {j} IN
          /\ job[j] # None /\ job[j].resv = r /\ job[j].status # "running"
          /\ IF settled[r] = "disputed"
             THEN /\ job[j].group # None
                  /\ \E k, l \in Group(job[j].group) : job[k].hash # job[l].hash
             ELSE /\ settled[r] = JobRowStatusToOutcome(job[j].status)
                  /\ \A k \in mates : job[j].hash = job[k].hash
    BY DEF SettlementJustified
  <2>2. PICK j \in Jobs : Justifies(j, r, settled[r])
    BY <1>1, <2>1 DEF IInv, AllJustified, Justified
  <2>3. job[j] # None /\ job[j].resv = r /\ job[j].status # "running"
    BY <2>2 DEF Justifies, Done
  <2>4. CASE settled[r] = "disputed"
    BY <2>2, <2>3, <2>4 DEF Justifies
  <2>5. CASE settled[r] # "disputed"
    BY <2>2, <2>3, <2>5 DEF Justifies
  <2> QED
    BY <2>4, <2>5
<1> QED
  BY <1>1, InductiveInvariant, PTL

(* Three different things are three.                                       *)
LEMMA ThreeOf ==
    ASSUME NEW a, NEW b, NEW c, a # b, a # c, b # c
    PROVE  Cardinality({a, b, c}) = 3
<1>1. IsFiniteSet({a}) /\ Cardinality({a}) = 1
  BY FS_Singleton
<1>2. IsFiniteSet({a} \cup {b}) /\ Cardinality({a} \cup {b}) = 2
  BY <1>1, FS_AddElement
<1>3. Cardinality({a} \cup {b} \cup {c}) = 3
  BY <1>2, FS_AddElement
<1>4. {a} \cup {b} \cup {c} = {a, b, c}
  OBVIOUS
<1> QED
  BY <1>3, <1>4

(* resolveDisputeTiebreaker blames the original that the third node        *)
(* contradicts: three nodes, two results that agree and one that does not, *)
(* and the blamed provider's reservation refunded already -- for any       *)
(* number of tiebreaks of one group racing each other.                     *)
THEOREM BlameIsFair == Spec => []FaultFairlyAttributed
<1>1. ASSUME IInv PROVE FaultFairlyAttributed
  <2>1. SUFFICES ASSUME NEW g \in Submits, resolution[g] # None,
                        resolution[g].atFault # None, Single(g)
                 PROVE
          LET f == resolution[g].atFault
              v == resolution[g].vindicated
              t == resolution[g].tb
          IN /\ {f, v} = {<<g, 1>>, <<g, 2>>} /\ t[1] # g
             /\ settled[job[f].resv] = "disputed" /\ settled[job[v].resv] = "disputed"
             /\ job[v].hash = job[t].hash /\ job[f].hash # job[t].hash
             /\ Cardinality({NodeOf[job[k].resv] : k \in {f, v, t}}) = 3
    BY DEF FaultFairlyAttributed
  <2> DEFINE f == resolution[g].atFault
             v == resolution[g].vindicated
             t == resolution[g].tb
             n == [k \in Jobs |-> NodeOf[job[k].resv]]
  <2>2. /\ {f, v} = Legs(g) /\ t \in Group(g) /\ t[1] # g
        /\ Match(v, t) /\ ~Match(f, t)
    BY <1>1, <2>1 DEF IInv, FaultStands
  <2> HIDE DEF f, v, t
  <2>3. IsTiebreakOf(t, g) /\ Contested(g)
    <3>1. t # <<g, 1>> /\ t # <<g, 2>>
      BY <2>2
    <3> QED
      BY <1>1, <2>2, <3>1, GroupShape DEF IsTiebreakOf
  <2>4. \A j \in Legs(g) : /\ j \in Group(g) /\ j \in Jobs /\ job[j] # None
                           /\ row[job[j].resv] = "disputed"
    BY <1>1, <2>1, <2>3 DEF IInv, ContestedWhole, PairStays, Group
  <2>5. \A j \in Legs(g) : settled[job[j].resv] = "disputed"
    <3>1. \A j \in Legs(g) : job[j].resv \in Resv
      BY <1>1, <2>4, RowFacts DEF IInv
    <3> QED
      BY <1>1, <2>4, <3>1 DEF IInv, RowsMatch, Final
  <2>6. n[<<g, 1>>] # n[<<g, 2>>]
    <3>1. <<g, 1>> \in Jobs /\ <<g, 2>> \in Jobs /\ g \in Requests
          /\ <<g, 1>>[1] = g /\ <<g, 2>>[1] = g /\ <<g, 1>>[2] = 1 /\ <<g, 2>>[2] = 2
      BY PairFacts
    <3>2. job[<<g, 1>>] # None /\ job[<<g, 2>>] # None
      BY <2>4 DEF Legs
    <3>3. /\ req[g].pc # "idle" /\ req[g].leg = 2
          /\ job[<<g, 1>>].resv = req[g].resv /\ job[<<g, 2>>].resv = req[g].sib
      BY <1>1, <3>1, <3>2 DEF IInv, JobsWhole, LegOf
    <3>4. NodeOf[req[g].sib] # NodeOf[req[g].resv]
      BY <1>1, <3>1, <3>3 DEF IInv, RequestsWhole, RequestWhole
    <3> QED
      BY <3>1, <3>3, <3>4
  <2>7. \A j \in Legs(g) : n[j] # n[t]
    <3>1. t \in Jobs /\ job[t].resv = req[t[1]].resv
          /\ t[1] \in Tiebreaks /\ req[t[1]].pc # "idle" /\ req[t[1]].group = g
      BY <2>2, <2>3 DEF IsTiebreakOf, Group
    <3>2. \A j \in Legs(g) : NodeOf[job[j].resv] # NodeOf[req[t[1]].resv]
      BY <1>1, <2>1, <3>1 DEF IInv, ThirdNode
    <3> QED
      BY <2>4, <3>1, <3>2
  <2>8. n[f] # n[v] /\ n[f] # n[t] /\ n[v] # n[t]
    BY <2>2, <2>6, <2>7 DEF Legs
  <2>9. {NodeOf[job[k].resv] : k \in {f, v, t}} = {n[f], n[v], n[t]}
    <3>1. f \in Jobs /\ v \in Jobs /\ t \in Jobs
      BY <2>2, <2>4 DEF Group
    <3> QED
      BY <3>1
  <2>10. Cardinality({NodeOf[job[k].resv] : k \in {f, v, t}}) = 3
    <3> HIDE DEF n
    <3>1. Cardinality({n[f], n[v], n[t]}) = 3
      BY <2>8, ThreeOf, Zenon
    <3> QED
      BY <2>9, <3>1
  <2>11. settled[job[f].resv] = "disputed" /\ settled[job[v].resv] = "disputed"
    BY <2>2, <2>5
  <2>12. job[v].hash = job[t].hash /\ job[f].hash # job[t].hash
    BY <2>2 DEF Match
  <2> QED
    BY <2>2, <2>10, <2>11, <2>12 DEF f, v, t, Legs
<1> QED
  BY <1>1, InductiveInvariant, PTL
-----------------------------------------------------------------------------
(* The counters of a node against what the ledger and the resolutions say. *)
SettledBad(n) == {r \in Resv : NodeOf[r] = n /\ settled[r] = "failed_provider"}
SettledWell(n) == {r \in Resv : NodeOf[r] = n /\ settled[r] \in {"completed", "failed_user"}}
BlamedOn(n) == {g \in Submits : /\ resolution[g] # None /\ resolution[g].atFault # None
                                /\ NodeOf[job[resolution[g].atFault].resv] = n}
Counts(n) == LET bad == Cardinality(SettledBad(n)) + Cardinality(BlamedOn(n))
             IN [total |-> bad + Cardinality(SettledWell(n)), failed |-> bad]
Counted == \A n \in Nodes : rep[n] = Counts(n)

LEMMA CountedMeans == Counted <=> ReputationMatchesLedger
<1>1. \A n : /\ {r \in {r \in Resv : NodeOf[r] = n} : settled[r] = "failed_provider"}
                   = SettledBad(n)
             /\ {r \in {r \in Resv : NodeOf[r] = n} : settled[r] \in {"completed", "failed_user"}}
                   = SettledWell(n)
             /\ {g \in Submits : /\ resolution[g] # None /\ resolution[g].atFault # None
                                 /\ NodeOf[job[resolution[g].atFault].resv] = n}
                   = BlamedOn(n)
  BY DEF SettledBad, SettledWell, BlamedOn
<1> QED
  BY <1>1, Zenon DEF Counted, Counts, ReputationMatchesLedger

LEMMA CountedSets ==
    \A n : /\ IsFiniteSet(SettledBad(n)) /\ Cardinality(SettledBad(n)) \in Nat
           /\ IsFiniteSet(SettledWell(n)) /\ Cardinality(SettledWell(n)) \in Nat
           /\ IsFiniteSet(BlamedOn(n)) /\ Cardinality(BlamedOn(n)) \in Nat
<1>1. \A n : SettledBad(n) \in SUBSET Resv /\ SettledWell(n) \in SUBSET Resv
             /\ BlamedOn(n) \in SUBSET Requests
  BY DEF SettledBad, SettledWell, BlamedOn, Requests
<1>2. \A S : S \in SUBSET Resv \/ S \in SUBSET Requests =>
               IsFiniteSet(S) /\ Cardinality(S) \in Nat
  BY SettlementAssumption, FS_Subset, FS_CardinalityType
<1> QED
  BY <1>1, <1>2

(* A step that settles nothing and resolves nothing.                       *)
LedgerIdle == /\ UNCHANGED <<settled, resolution, rep>>
              /\ \A j \in Jobs : job[j] # None => job'[j].resv = job[j].resv
LEMMA IdleKeepsCounts ==
    ASSUME IInv, Counted, LedgerIdle
    PROVE  Counted'
<1>1. \A g \in Submits : resolution[g] # None /\ resolution[g].atFault # None =>
         job'[resolution[g].atFault].resv = job[resolution[g].atFault].resv
  <2>1. SUFFICES ASSUME NEW g \in Submits, resolution[g] # None, resolution[g].atFault # None
                 PROVE  job'[resolution[g].atFault].resv = job[resolution[g].atFault].resv
    OBVIOUS
  <2>2. resolution[g] \in ResolutionRow
    BY <2>1, PairFacts DEF IInv, TypeOK
  <2>3. resolution[g].atFault \in Jobs
    BY <2>1, <2>2 DEF ResolutionRow
  <2>4. job[resolution[g].atFault] # None
    BY <2>1 DEF IInv, BlamedIsDone, Done
  <2> QED
    BY <2>3, <2>4 DEF LedgerIdle
<1>2. \A n : BlamedOn(n)' = BlamedOn(n)
  BY <1>1 DEF LedgerIdle, BlamedOn
<1>3. \A n : SettledBad(n)' = SettledBad(n) /\ SettledWell(n)' = SettledWell(n)
  BY DEF LedgerIdle, SettledBad, SettledWell
<1>4. \A n : Counts(n)' = Counts(n)
  BY <1>2, <1>3 DEF Counts
<1> QED
  BY <1>4 DEF LedgerIdle, Counted

(* One settlement adds one reservation to one set of its node.             *)
LEMMA SettlementCounts ==
    ASSUME IInv, Counted, NEW c \in Nodes, NEW r \in Resv, NEW as \in Final, c = NodeOf[r],
           settled[r] = None, settled' = [settled EXCEPT ![r] = as],
           rep' = Bumped(c, ReputationEffect(as)), UNCHANGED <<job, resolution>>
    PROVE  Counted'
<1>1. /\ settled'[r] = as /\ \A s \in Resv : s # r => settled'[s] = settled[s]
      /\ settled[r] \notin Final
  BY NoneFacts DEF IInv, TypeOK
<1>2. ReputationEffect(as) = IF as \in {"completed", "failed_user"} THEN "success"
                             ELSE IF as = "failed_provider" THEN "failure" ELSE None
  BY EffectFacts
<1>3. /\ \A n \in Nodes : n # c => rep'[n] = rep[n]
      /\ ReputationEffect(as) = None => rep' = rep
      /\ ReputationEffect(as) = "success" =>
            rep'[c] = [total |-> rep[c].total + 1, failed |-> rep[c].failed]
      /\ ReputationEffect(as) = "failure" =>
            rep'[c] = [total |-> rep[c].total + 1, failed |-> rep[c].failed + 1]
  <2>1. TypeOK
    BY DEF IInv
  <2>2. ReputationEffect(as) \in {"success", "failure", None}
    BY <1>2
  <2> DEFINE e == ReputationEffect(as)
  <2>3. e \in {"success", "failure", None} /\ rep' = Bumped(c, e)
    BY <2>2
  <2> HIDE DEF e
  <2>4. /\ \A n \in Nodes : n # c => rep'[n] = rep[n]
        /\ e = None => rep' = rep
        /\ e = "success" => rep'[c] = [total |-> rep[c].total + 1, failed |-> rep[c].failed]
        /\ e = "failure" =>
              rep'[c] = [total |-> rep[c].total + 1, failed |-> rep[c].failed + 1]
    BY <2>1, <2>3, BumpedFits
  <2> QED
    BY <2>4 DEF e
<1>4. rep[c] = Counts(c) /\ \A n : BlamedOn(n)' = BlamedOn(n)
  BY DEF Counted, BlamedOn
<1>5. \A n : n # c => Counts(n)' = Counts(n)
  <2>1. \A n : n # c => SettledBad(n)' = SettledBad(n) /\ SettledWell(n)' = SettledWell(n)
    BY <1>1 DEF SettledBad, SettledWell
  <2> QED
    BY <1>4, <2>1 DEF Counts
<1>6. SUFFICES rep'[c] = Counts(c)'
  BY <1>3, <1>5 DEF Counted
<1>7. PICK bad \in Nat, well \in Nat, blame \in Nat :
         /\ bad = Cardinality(SettledBad(c)) /\ well = Cardinality(SettledWell(c))
         /\ blame = Cardinality(BlamedOn(c))
  BY CountedSets
<1>8. rep[c] = [total |-> bad + blame + well, failed |-> bad + blame]
  BY <1>4, <1>7 DEF Counts
<1>9. CASE as \in {"completed", "failed_user"}
  <2>1. SettledBad(c)' = SettledBad(c)
    BY <1>1, <1>9 DEF SettledBad, Final
  <2>2. SettledWell(c)' = SettledWell(c) \cup {r} /\ r \notin SettledWell(c)
    BY <1>1, <1>9 DEF SettledWell, Final
  <2>3. Cardinality(SettledWell(c)') = well + 1
    BY <1>7, <2>2, CountedSets, FS_AddElement
  <2>4. rep'[c] = [total |-> rep[c].total + 1, failed |-> rep[c].failed]
    BY <1>2, <1>3, <1>9
  <2>5. Counts(c)' = [total |-> bad + blame + (well + 1), failed |-> bad + blame]
    BY <1>4, <1>7, <2>1, <2>3 DEF Counts
  <2> QED
    BY <1>8, <2>4, <2>5
<1>10. CASE as = "failed_provider"
  <2>1. SettledWell(c)' = SettledWell(c)
    BY <1>1, <1>10 DEF SettledWell, Final
  <2>2. SettledBad(c)' = SettledBad(c) \cup {r} /\ r \notin SettledBad(c)
    BY <1>1, <1>10 DEF SettledBad, Final
  <2>3. Cardinality(SettledBad(c)') = bad + 1
    BY <1>7, <2>2, CountedSets, FS_AddElement
  <2>4. rep'[c] = [total |-> rep[c].total + 1, failed |-> rep[c].failed + 1]
    BY <1>2, <1>3, <1>10, SettlementAssumption
  <2>5. Counts(c)' = [total |-> bad + 1 + blame + well, failed |-> bad + 1 + blame]
    BY <1>4, <1>7, <2>1, <2>3 DEF Counts
  <2> QED
    BY <1>8, <2>4, <2>5
<1>11. CASE as = "disputed"
  <2>1. SettledBad(c)' = SettledBad(c) /\ SettledWell(c)' = SettledWell(c)
    BY <1>1, <1>11 DEF SettledBad, SettledWell, Final
  <2>2. rep' = rep
    BY <1>2, <1>3, <1>11
  <2>3. Counts(c)' = Counts(c)
    BY <1>4, <2>1 DEF Counts
  <2> QED
    BY <1>4, <2>2, <2>3
<1> QED
  BY <1>9, <1>10, <1>11 DEF Final

LEMMA SettleTxnCounts ==
    ASSUME IInv, Counted, NEW j \in Jobs, SettleTxn(j)
    PROVE  Counted'
<1>1. /\ handler[j] \in HandlerState /\ handler[j].pc = "txn" /\ HandlerWhole(handler[j])
      /\ UNCHANGED <<job, resolution>>
  BY DEF SettleTxn, IInv, TypeOK, HandlersSound
<1>2. PICK todo \in Seq([resv : Resv, as : Final]) : todo = handler[j].todo /\ todo # <<>>
  BY <1>1 DEF HandlerWhole, HandlerState
<1>3. 1 \in 1 .. Len(todo) /\ Head(todo) = todo[1]
  BY <1>2
<1>4. todo[1] \in [resv : Resv, as : Final]
  BY <1>3, ElementOf, Zenon
<1>5. PICK r \in Resv, as \in Final : todo[1].resv = r /\ todo[1].as = as
  BY <1>4
<1>6. /\ settled[r] = None =>
            settled' = [settled EXCEPT ![r] = as] /\ rep' = Bumped(NodeOf[r], ReputationEffect(as))
      /\ settled[r] # None => UNCHANGED <<settled, rep>>
  BY <1>2, <1>3, <1>5 DEF SettleTxn
<1>7. CASE settled[r] # None
  BY <1>1, <1>6, <1>7, IdleKeepsCounts DEF LedgerIdle
<1>8. CASE settled[r] = None
  <2>1. PICK c \in Nodes : c = NodeOf[r]
    BY DEF Nodes
  <2> QED
    BY <1>1, <1>6, <1>8, <2>1, SettlementCounts
<1> QED
  BY <1>7, <1>8

(* An attribution that blames adds its group to one set of one node; the   *)
(* group was not there, for it had no resolution.                          *)
LEMMA AttributeCounts ==
    ASSUME IInv, Counted, NEW j \in Jobs, Attribute(j)
    PROVE  Counted'
<1>1. UNCHANGED <<settled, job>>
  BY DEF Attribute
<1>2. \A n : SettledBad(n)' = SettledBad(n) /\ SettledWell(n)' = SettledWell(n)
  BY <1>1 DEF SettledBad, SettledWell
<1>3. CASE UNCHANGED <<resolution, rep>>
  BY <1>1, <1>3, IdleKeepsCounts DEF LedgerIdle
<1>4. PICK g : g = handler[j].group
  OBVIOUS
<1>5. ASSUME NEW res \in ResolutionRow, Resolves(g, res)
      PROVE  /\ resolution'[g] = res /\ g \in Submits /\ resolution[g] = None /\ res # None
             /\ \A k \in Submits : k # g => resolution'[k] = resolution[k]
  BY <1>5, PairFacts, NoneFacts DEF Resolves, IInv, TypeOK
<1>6. ASSUME NEW res \in ResolutionRow, Resolves(g, res), res.atFault = None, UNCHANGED rep
      PROVE  Counted'
  <2>1. \A n : BlamedOn(n)' = BlamedOn(n)
    BY <1>1, <1>5, <1>6 DEF BlamedOn
  <2>2. \A n : Counts(n)' = Counts(n)
    BY <1>2, <2>1 DEF Counts
  <2> QED
    BY <1>6, <2>2 DEF Counted
<1>7. ASSUME NEW res \in ResolutionRow, Resolves(g, res), Blames(handler[j], res)
      PROVE  Counted'
  <2>1. PICK r \in Resv, c \in Nodes : r = job[res.atFault].resv /\ c = NodeOf[r]
    <3>1. res.atFault \in Jobs /\ job[res.atFault] # None
      BY <1>7, NoneFacts DEF Blames, Done, IInv, TypeOK, HandlerState
    <3> QED
      BY <3>1, RowFacts DEF IInv, Nodes
  <2>2. res.atFault # None
    BY <1>7, NoneFacts DEF Blames, IInv, TypeOK, HandlerState
  <2>3. rep' = Bumped(c, "failure")
    BY <1>7, <2>1 DEF Blames
  <2>4. /\ \A n \in Nodes : n # c => rep'[n] = rep[n]
        /\ rep'[c] = [total |-> rep[c].total + 1, failed |-> rep[c].failed + 1]
    BY <2>3, BumpedFits DEF IInv
  <2>5. \A n : n # c => BlamedOn(n)' = BlamedOn(n)
    BY <1>1, <1>5, <1>7, <2>1 DEF BlamedOn
  <2>6. BlamedOn(c)' = BlamedOn(c) \cup {g} /\ g \notin BlamedOn(c)
    BY <1>1, <1>5, <1>7, <2>1, <2>2 DEF BlamedOn
  <2>7. Cardinality(BlamedOn(c)') = Cardinality(BlamedOn(c)) + 1
    BY <2>6, CountedSets, FS_AddElement
  <2>8. PICK bad \in Nat, well \in Nat, blame \in Nat :
           /\ bad = Cardinality(SettledBad(c)) /\ well = Cardinality(SettledWell(c))
           /\ blame = Cardinality(BlamedOn(c))
    BY CountedSets
  <2>9. rep[c] = [total |-> bad + blame + well, failed |-> bad + blame]
    BY <2>8 DEF Counted, Counts
  <2>10. Counts(c)' = [total |-> bad + (blame + 1) + well, failed |-> bad + (blame + 1)]
    BY <1>2, <2>7, <2>8 DEF Counts
  <2>11. rep'[c] = Counts(c)'
    BY <2>4, <2>9, <2>10
  <2>12. \A n : n # c => Counts(n)' = Counts(n)
    BY <1>2, <2>5 DEF Counts
  <2> QED
    BY <2>4, <2>11, <2>12 DEF Counted
<1> QED
  BY <1>3, <1>4, <1>6, <1>7, AttributeOutcome

LEMMA OthersIdle ==
    ASSUME IInv, [Next]_vars,
           \A j \in Jobs : ~SettleTxn(j) /\ ~Attribute(j)
    PROVE  LedgerIdle
<1>1. CASE UNCHANGED tables \/ UNCHANGED vars
  BY <1>1 DEF tables, vars, LedgerIdle
<1>2. ASSUME NEW q \in Requests, InsertJob(q) PROVE LedgerIdle
  <2>1. job[LegJob(q)] = None /\ LegJob(q) \in Jobs
    BY <1>2, PairFacts
       DEF InsertJob, IInv, TypeOK, RequestsWhole, RequestWhole, RequestState, LegJob
  <2>2. \A j \in Jobs : j # LegJob(q) => job'[j] = job[j]
    BY <1>2, <2>1 DEF InsertJob, IInv, TypeOK
  <2> QED
    BY <1>2, <2>1, <2>2 DEF InsertJob, LedgerIdle
<1>3. ASSUME NEW q \in Requests, MarkRunning(q) PROVE LedgerIdle
  BY <1>3 DEF MarkRunning, LedgerIdle
<1>4. ASSUME NEW q \in Requests, Strip(q) PROVE LedgerIdle
  <2>1. req[q].pc = "strip" /\ req[q].leg = 2 /\ <<q, 1>> \in Jobs /\ job[<<q, 1>>] # None
    BY <1>4, PairFacts DEF Strip, IInv, RequestsWhole, RequestWhole
  <2>2. job[<<q, 1>>] \in JobRow
    BY <2>1, RowFacts DEF IInv
  <2>3. job' = [job EXCEPT ![<<q, 1>>] = [job[<<q, 1>>] EXCEPT !.group = None]]
    BY <1>4 DEF Strip
  <2>4. [job[<<q, 1>>] EXCEPT !.group = None].resv = job[<<q, 1>>].resv
    BY <2>2 DEF JobRow
  <2>5. \A j \in Jobs : job'[j].resv = job[j].resv
    BY <2>1, <2>3, <2>4 DEF IInv, TypeOK
  <2> QED
    BY <1>4, <2>5 DEF Strip, LedgerIdle
<1>5. ASSUME NEW j \in Jobs, NEW result \in Results, ResultArrives(j, result)
      PROVE  LedgerIdle
  <2>1. CASE job[j] = None
    BY <1>5, <2>1 DEF ResultArrives, LedgerIdle
  <2>2. CASE job[j] # None
    <3>1. job[j] \in JobRow
      BY <2>2, RowFacts DEF IInv
    <3>2. PICK n : n = [job[j] EXCEPT !.status = MapJobStatus(result.status),
                                      !.hash = Hash(result)]
      OBVIOUS
    <3>3. n.resv = job[j].resv
      BY <3>1, <3>2 DEF JobRow
    <3>4. job' = [job EXCEPT ![j] = n]
      BY <1>5, <2>2, <3>2 DEF ResultArrives
    <3>5. \A k \in Jobs : job'[k].resv = job[k].resv
      BY <3>3, <3>4 DEF IInv, TypeOK
    <3> QED
      BY <1>5, <3>5 DEF ResultArrives, LedgerIdle
  <2> QED
    BY <2>1, <2>2
<1>6. ASSUME NEW q \in Requests, Requesting(q) PROVE LedgerIdle
  <2>1. CASE Send(q) \/ SendFails(q)
    BY <2>1, <1>1 DEF Send, SendFails
  <2> QED
    BY <2>1, <1>2, <1>3, <1>4, <1>6 DEF Requesting
<1>7. ASSUME NEW j \in Jobs, Handling(j) PROVE LedgerIdle
  BY <1>1, <1>7 DEF Handling, CountGroup, CompareGroup, ResolveRead, SettleCheck
<1>8. CASE \E q \in Requests, r \in Resv :
              \/ \E s \in Resv \cup {None} : SubmitRead(q, r, s)
              \/ \E g \in Submits : TiebreakRead(q, g, r)
  BY <1>1, <1>8 DEF SubmitRead, TiebreakRead
<1>9. CASE \E j \in Jobs : Accepted(j) \/ Rejected(j)
  BY <1>1, <1>9 DEF Accepted, Rejected
<1>10. CASE PlatformCrash \/ \E n \in Nodes : LinkDrops(n)
  BY <1>1, <1>10 DEF PlatformCrash, LinkDrops
<1> QED
  BY <1>1, <1>5, <1>6, <1>7, <1>8, <1>9, <1>10 DEF Next, Work

(* settleReservation and resolveDisputeTiebreaker move a provider's        *)
(* counters exactly once for each settlement and each attribution, however *)
(* the handlers of a group race, for any number of nodes and requests.     *)
THEOREM CountersMatch == Spec => []ReputationMatchesLedger
<1>1. Init => Counted
  <2>1. SUFFICES ASSUME Init, NEW n \in Nodes PROVE rep[n] = Counts(n)
    BY DEF Counted
  <2>2. SettledBad(n) = {} /\ SettledWell(n) = {} /\ BlamedOn(n) = {}
    BY <2>1, SettlementAssumption, PairFacts DEF Init, SettledBad, SettledWell, BlamedOn, Final
  <2>3. Cardinality({}) = 0
    BY FS_EmptySet
  <2> QED
    BY <2>1, <2>2, <2>3 DEF Init, Counts
<1>2. IInv /\ Counted /\ [Next]_vars => Counted'
  <2> SUFFICES ASSUME IInv, Counted, [Next]_vars PROVE Counted'
    OBVIOUS
  <2>1. CASE \E j \in Jobs : SettleTxn(j) \/ Attribute(j)
    BY <2>1, SettleTxnCounts, AttributeCounts
  <2>2. CASE \A j \in Jobs : ~SettleTxn(j) /\ ~Attribute(j)
    BY <2>2, OthersIdle, IdleKeepsCounts
  <2> QED
    BY <2>1, <2>2
<1>3. Counted => ReputationMatchesLedger
  BY CountedMeans
<1> QED
  BY <1>1, <1>2, <1>3, InductiveInvariant, PTL DEF Spec
=============================================================================
