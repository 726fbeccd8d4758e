--------------------------- MODULE BuyerAppProofs ---------------------------
(***************************************************************************)
(* Proofs about the buyer's page: the invariants of BuyerApp, for any      *)
(* number of users, reservations and views.  The argument is about what    *)
(* each call that is out says of the session, the view and the bookings    *)
(* that made it.                                                           *)
(***************************************************************************)
EXTENDS BuyerApp, TLAPS

Paid == {"confirmed", "running", "over"}
Unpaid == {"held", "expired"}
One(s) == [a |-> s, b |-> None]

(* The bookings that anything still refers to.                             *)
Screen == IF view = None THEN {} ELSE {view.res}
Bookings == ({pair, One(single)} \cup Screen \cup {s.res : s \in submits}
                \cup {p.res : p \in polls}) \ {Nothing}

(* A reservation is made whole, and never unmade.                          *)
RowsWhole == \A r \in Resv :
    row[r] # NoRow => row[r].owner \in Users /\ row[r].status \in Statuses

(* A call to POST /reservations is about a row of its own; the first node  *)
(* of a pair is not known to anybody before the second is booked.          *)
AskedSound == \A q \in asked :
    /\ row[q.r] = NoRow
    /\ q.kind # "second" => q.by # None /\ q.first = None
    /\ q.kind = "second" =>
          /\ q.first # None /\ row[q.first].status \in Unpaid
          /\ \A x \in Bookings : q.first \notin {x.a, x.b}
          /\ \A c \in confirms : c.r # q.first
    /\ \A p \in asked : p # q => p.r # q.r /\ (p.first = q.first => p.first = None)

(* A reservation belongs to one booking, and to one leg of it.             *)
BookingsApart ==
    /\ \A x \in Bookings : x.a # None /\ row[x.a] # NoRow /\ (x.b # None => row[x.b] # NoRow)
    /\ \A x, y \in Bookings :
          /\ x.a # y.b
          /\ x.a = y.a \/ (x.b = y.b /\ x.b # None) => x = y
    /\ \A c \in confirms :
          row[c.r] # NoRow /\ \A x \in Bookings, l \in Legs : x[l] = c.r => l = c.leg
    /\ \A c, d \in confirms : c.r = d.r => c.leg = d.leg

(* What is on screen is what App has, but for a view of a pair that was    *)
(* handed a second one; and App has what its session asked for, but for    *)
(* what came late.                                                         *)
Rendered ==
    /\ Given = Nothing <=> view = None
    /\ view # None => /\ view.res # Nothing /\ view.id = mounts
                      /\ IsPair(view.res) = IsPair(Given)
                      /\ view.res = Given \/ (IsPair(view.res) /\ "reused" \in view.odd)
                      /\ view.hydrating => IsPair(view.res)
                      /\ \A l \in Legs : view.read[l] # None => view.hydrating
OwnHeld == \A r \in ({single, pair.a, pair.b} \cup OnScreen) \ ({None} \cup late) :
    session # None /\ row[r].owner = session

(* The calls of the view on screen are about its booking, unless it was    *)
(* handed another one; those of views before it are remembered.  A button  *)
(* waits for one call at most.                                             *)
Current(id) == view # None /\ view.id = id
ConfirmsSound ==
    /\ \A c \in confirms :
          /\ c.view <= mounts
          /\ IF Current(c.view)
             THEN c.r = view.res[c.leg] \/ "reused" \in view.odd
             ELSE c.r \in remounted
          /\ c.stage = "paid" => row[c.r].status \in Paid
    /\ \A c, d \in confirms :
          c.view = d.view /\ c.leg = d.leg /\ Waits(c) /\ Waits(d) => c = d
SubmitsSound == \A s \in submits \cup polls :
    /\ s.view <= mounts /\ s.res # Nothing
    /\ Current(s.view) => s.res = view.res \/ "reused" \in view.odd

(* The server: a job is of a reservation that was paid for, and marked     *)
(* running unless the submission that inserted it has not come to that.    *)
Served == {"inserted a", "sibling", "inserted b", "done"}
Marking(r) == \E s \in submits : \/ s.stage = "inserted a" /\ s.res.a = r
                                 \/ s.stage = "inserted b" /\ s.res.b = r
JobsPaid ==
    /\ \A r \in Resv : job[r] # None =>
          /\ row[r].status \in Paid
          /\ row[r].status = "confirmed" => job[r] = "running" /\ Marking(r)
    /\ \A x \in Bookings : x.b # None =>
          /\ job[x.b] # None => job[x.a] # None
          /\ job[x.a] # None => row[x.b].status \in Paid
ServedOnce ==
    /\ \A s \in submits : s.stage \in Served =>
          /\ job[s.res.a] # None
          /\ s.stage = "inserted a" => row[s.res.a].status = "confirmed"
          /\ s.stage = "sibling" => s.res.b # None
          /\ s.stage # "done" /\ s.res.b # None => row[s.res.b].status = "confirmed"
          /\ s.stage = "inserted b" => s.res.b # None /\ job[s.res.b] # None
    /\ \A s, t \in submits :
          s.stage \in Served /\ t.stage \in Served /\ s.res.a = t.res.a => s = t

(* What a view has read of the server, and what became of it since.        *)
ReadStands == view # None /\ "reused" \notin view.odd =>
    \A l \in Legs : view.read[l] # None =>
        /\ view.read[l].status = "held" /\ "raced" \notin view.odd =>
              row[view.res[l]].status \in Unpaid
        /\ view.read[l].status = "confirmed" => row[view.res[l]].status \in Paid
JobReadStands == view # None /\ view.odd \cap {"reused", "skewed"} = {} =>
    /\ view.read["a"] # None =>
          IF view.read["a"].job
          THEN /\ view.read["a"].status \in {"running", "over"}
               /\ view.read["a"].status = "over" => row[view.res.a].status = "over"
          ELSE job[view.res.a] = None
    /\ view.read["b"] # None /\ view.read["b"].job => job[view.res.a] # None

(* PaidIsShown, said of a leg whose payment has not yet reached the view.  *)
PaidWillShow ==
    view # None /\ IsPair(view.res) /\ ~view.hydrating /\ view.odd \cap {"raced", "reused"} = {} =>
    \A l \in Legs :
        /\ view.st[l] = "held" /\ view.res[l] \notin remounted
        /\ \A c \in confirms : Current(c.view) /\ c.leg = l => c.stage # "paid"
        => row[view.res[l]].status \in Unpaid

IInv == /\ TypeOK /\ RowsWhole /\ AskedSound /\ BookingsApart /\ Rendered /\ OwnHeld
        /\ ConfirmsSound /\ SubmitsSound /\ JobsPaid /\ ServedOnce
        /\ ReadStands /\ JobReadStands /\ PaidWillShow /\ NeverAhead /\ JobIsWatched
        /\ ButtonWaitsForItsCall
-----------------------------------------------------------------------------
(***************************************************************************)
(* Bookings and what None is not.                                          *)
(***************************************************************************)
LEMMA NoneFacts ==
    None \notin Resv /\ None \notin Users /\ None \notin Statuses /\ None \notin Seen
        /\ None \notin ViewState /\ None # "done"
  BY BuyerAppAssumption

LEMMA BoundFacts == Resv \subseteq Nat /\ MaxViews \in Nat
  BY BuyerAppAssumption

LEMMA BookingFacts ==
    /\ Nothing \in Booking /\ Nothing.a = None /\ Nothing.b = None
    /\ \A x \in Booking : /\ x["a"] = x.a /\ x["b"] = x.b
                          /\ x.a \in Resv \cup {None} /\ x.b \in Resv \cup {None}
                          /\ x = Nothing <=> x.a = None /\ x.b = None
    /\ \A x, y \in Booking : x.a = y.a /\ x.b = y.b => x = y
    /\ \A r, s \in Resv \cup {None} : [a |-> r, b |-> s] \in Booking
    /\ \A s \in Resv \cup {None} : /\ One(s) \in Booking /\ One(s).a = s /\ One(s).b = None
                                   /\ One(s) = Nothing <=> s = None
<1>1. \A r, s \in Resv \cup {None} : [a |-> r, b |-> s] \in Booking
  BY DEF Booking, Legs
<1>2. Nothing \in Booking /\ Nothing.a = None /\ Nothing.b = None
  BY <1>1 DEF Nothing
<1>3. \A x, y \in Booking : x.a = y.a /\ x.b = y.b => x = y
  BY DEF Booking, Legs
<1>4. \A x \in Booking : /\ x["a"] = x.a /\ x["b"] = x.b
                         /\ x.a \in Resv \cup {None} /\ x.b \in Resv \cup {None}
  BY DEF Booking, Legs
<1>5. \A x \in Booking : x = Nothing <=> x.a = None /\ x.b = None
  BY <1>2, <1>3
<1>6. \A s \in Resv \cup {None} : One(s) \in Booking /\ One(s).a = s /\ One(s).b = None
  BY <1>1 DEF One
<1>7. \A s \in Resv \cup {None} : One(s) = Nothing <=> s = None
  BY <1>5, <1>6
<1> QED
  BY <1>1, <1>2, <1>3, <1>4, <1>5, <1>6, <1>7

(* Every booking has a first reservation, and maybe a second.              *)
LEMMA BookingsAreWhole ==
    ASSUME IInv, NEW x \in Bookings
    PROVE  /\ x \in Booking /\ x # Nothing /\ x.a \in Resv /\ x.b \in Resv \cup {None}
           /\ x["a"] = x.a /\ x["b"] = x.b
           /\ row[x.a] # NoRow /\ (x.b # None => row[x.b] # NoRow)
<1>1. x \in Booking /\ x # Nothing
  <2>1. One(single) \in Booking /\ pair \in Booking
    BY BookingFacts DEF IInv, TypeOK
  <2>2. \A s \in submits \cup polls : s.res \in Booking
    BY DEF IInv, TypeOK
  <2>3. Screen \subseteq Booking
    BY DEF IInv, TypeOK, Screen, ViewState
  <2> QED
    BY <2>1, <2>2, <2>3 DEF Bookings
<1> QED
  BY <1>1, BookingFacts DEF IInv, BookingsApart

(* What is on screen is a booking, and the one App has, unless the view of *)
(* a pair was handed a second one.                                         *)
LEMMA OnScreenIsBooked ==
    ASSUME IInv, view # None
    PROVE  /\ view \in ViewState /\ view.res \in Bookings
           /\ Given \in {pair, One(single)} /\ Given \in Bookings
           /\ view.res = Given \/ "reused" \in view.odd
<1>1. view \in ViewState /\ view.res \in Bookings
  BY DEF IInv, TypeOK, Rendered, Bookings, Screen
<1>2. Given # Nothing /\ (view.res = Given \/ "reused" \in view.odd)
  BY DEF IInv, Rendered
<1>3. Given \in {pair, One(single)}
  BY <1>2 DEF Given, Shown, One
<1> QED
  BY <1>1, <1>2, <1>3 DEF Bookings

(* React goes on with the booking a view has, or takes the one App has.    *)
LEMMA RenderedScreen ==
    ASSUME IInv, Render
    PROVE  Screen' \subseteq Screen \cup {pair', One(single')}
<1> DEFINE res == Shown(session', tab', pair', single')
<1>1. view # None => view \in ViewState
  BY DEF IInv, TypeOK
<1>2. view' # None => view'.res \in Screen \cup {res}
  BY <1>1 DEF Render, Fresh, Handed, Screen, ViewState
<1>3. res \in {Nothing, pair', One(single')}
  BY DEF Shown, One
<1>4. res = Nothing => view' = None
  BY DEF Render
<1> QED
  BY <1>2, <1>3, <1>4 DEF Screen

(* Nothing is booked, asked or shown in the beginning.                     *)
LEMMA Start == Init => IInv
<1> SUFFICES ASSUME Init PROVE IInv
  OBVIOUS
<1>1. Bookings = {}
  BY BookingFacts DEF Init, Bookings, Screen
<1>2. TypeOK
  <2>1. row \in [Resv -> [owner : Users \cup {None}, status : Statuses \cup {None},
                         with : Resv \cup {None}]]
    BY DEF Init, NoRow
  <2>2. job \in [Resv -> {None, "running", "done"}] /\ mounts \in 0..MaxViews
    BY BuyerAppAssumption DEF Init
  <2>3. pair \in Booking /\ single \in Resv \cup {None}
    BY BookingFacts DEF Init
  <2> QED
    BY <2>1, <2>2, <2>3 DEF Init, TypeOK
<1>3. RowsWhole /\ AskedSound /\ BookingsApart /\ ConfirmsSound /\ SubmitsSound
  BY <1>1 DEF Init, RowsWhole, AskedSound, BookingsApart, ConfirmsSound, SubmitsSound
<1>4. Rendered /\ OwnHeld
  BY BookingFacts DEF Init, Rendered, OwnHeld, Given, Shown, One, OnScreen
<1>5. JobsPaid /\ ServedOnce
  BY <1>1 DEF Init, JobsPaid, ServedOnce
<1>6. /\ ReadStands /\ JobReadStands /\ PaidWillShow /\ NeverAhead /\ JobIsWatched
      /\ ButtonWaitsForItsCall
  BY DEF Init, ReadStands, JobReadStands, PaidWillShow, NeverAhead, JobIsWatched,
         ButtonWaitsForItsCall
<1> QED
  BY <1>2, <1>3, <1>4, <1>5, <1>6 DEF IInv

LEMMA SubmissionsAreBooked ==
    ASSUME IInv, NEW s \in submits \cup polls
    PROVE  /\ s.res \in Bookings /\ s.res \in Booking /\ s.res.a \in Resv
           /\ s.res.b \in Resv \cup {None} /\ s.res["a"] = s.res.a /\ s.res["b"] = s.res.b
<1>1. s.res \in Bookings
  BY DEF IInv, SubmitsSound, Bookings
<1> QED
  BY <1>1, BookingsAreWhole
-----------------------------------------------------------------------------
(***************************************************************************)
(* What most steps leave as it was.                                        *)
(***************************************************************************)

(* The life of a row: only a checkout pays for it, and it stays paid for.  *)
RowsAdvance == \A r \in Resv :
    /\ row[r] = NoRow <=> row'[r] = NoRow
    /\ row[r] # NoRow => /\ row'[r].owner = row[r].owner /\ row'[r].status \in Statuses
                         /\ row[r].status \in Paid => row'[r].status \in Paid
                         /\ row[r].status = "over" => row'[r].status = "over"
                         /\ row[r].status \in Unpaid /\ (\A c \in confirms : c.r # r) =>
                               row'[r].status \in Unpaid

(* No new row, booking or call for one: who has what stays as it was.      *)
LEMMA BookingsStay ==
    ASSUME IInv, RowsAdvance, asked' \subseteq asked, Bookings' \subseteq Bookings,
           \A c \in confirms' : /\ c.leg \in Legs
                                /\ \/ \E d \in confirms : d.r = c.r /\ d.leg = c.leg
                                   \/ view # None /\ c.r = view.res[c.leg] /\ c.r # None
    PROVE  RowsWhole' /\ AskedSound' /\ BookingsApart'
<1>1. \A c \in confirms' : \/ \E d \in confirms : d.r = c.r /\ d.leg = c.leg
                           \/ \E x \in Bookings : x[c.leg] = c.r /\ c.r # None
  BY OnScreenIsBooked
<1>2. \A q \in asked : q.r \in Resv /\ q.first \in Resv \cup {None}
  BY DEF IInv, TypeOK
<1>3. \A x \in Bookings : /\ x.a \in Resv /\ x.b \in Resv \cup {None}
                          /\ x["a"] = x.a /\ x["b"] = x.b
                          /\ row[x.a] # NoRow /\ (x.b # None => row[x.b] # NoRow)
  BY BookingsAreWhole
<1>4. \A c \in confirms : c.r \in Resv /\ c.leg \in Legs /\ row[c.r] # NoRow
  BY DEF IInv, TypeOK, BookingsApart
<1>5. \A c \in confirms' : /\ c.r \in Resv /\ row[c.r] # NoRow
                           /\ \A x \in Bookings, l \in Legs : x[l] = c.r => l = c.leg
                           /\ \A q \in asked : q.kind = "second" => q.first # c.r
  <2> SUFFICES ASSUME NEW c \in confirms'
               PROVE  /\ c.r \in Resv /\ row[c.r] # NoRow
                      /\ \A x \in Bookings, l \in Legs : x[l] = c.r => l = c.leg
                      /\ \A q \in asked : q.kind = "second" => q.first # c.r
    OBVIOUS
  <2>1. CASE \E d \in confirms : d.r = c.r /\ d.leg = c.leg
    <3>1. PICK d \in confirms : d.r = c.r /\ d.leg = c.leg
      BY <2>1
    <3>2. \A x \in Bookings, l \in Legs : x[l] = d.r => l = d.leg
      BY DEF IInv, BookingsApart
    <3>3. \A q \in asked : q.kind = "second" => q.first # d.r
      BY DEF IInv, AskedSound
    <3> QED
      BY <3>1, <3>2, <3>3, <1>4
  <2>2. CASE \E x \in Bookings : x[c.leg] = c.r /\ c.r # None
    <3>1. PICK x \in Bookings : x[c.leg] = c.r /\ c.r # None
      BY <2>2
    <3>2. c.leg \in {"a", "b"} /\ c.r \in {x.a, x.b} /\ c.r \in Resv /\ row[c.r] # NoRow
      BY <3>1, <1>3 DEF Legs
    <3>3. \A y \in Bookings : x.a # y.b /\ y.a # x.b
      BY DEF IInv, BookingsApart
    <3>4. \A y \in Bookings, l \in Legs : y[l] = c.r => l = c.leg
      BY <3>1, <3>2, <3>3, <1>3 DEF Legs
    <3>5. \A q \in asked : q.kind = "second" => q.first # c.r
      BY <3>2 DEF IInv, AskedSound
    <3> QED
      BY <3>2, <3>4, <3>5
  <2> QED
    BY <1>1, <2>1, <2>2
<1>6. RowsWhole'
  BY DEF IInv, RowsWhole, RowsAdvance
<1>7. AskedSound'
  <2> SUFFICES ASSUME NEW q \in asked'
               PROVE  /\ row'[q.r] = NoRow
                      /\ q.kind # "second" => q.by # None /\ q.first = None
                      /\ q.kind = "second" =>
                            /\ q.first # None /\ row'[q.first].status \in Unpaid
                            /\ \A x \in Bookings' : q.first \notin {x.a, x.b}
                            /\ \A c \in confirms' : c.r # q.first
                      /\ \A p \in asked' : p # q => p.r # q.r /\ (p.first = q.first => p.first = None)
    BY DEF AskedSound
  <2>1. q \in asked
    OBVIOUS
  <2>2. /\ row[q.r] = NoRow
        /\ q.kind # "second" => q.by # None /\ q.first = None
        /\ q.kind = "second" =>
              /\ q.first # None /\ row[q.first].status \in Unpaid
              /\ \A x \in Bookings : q.first \notin {x.a, x.b}
              /\ \A c \in confirms : c.r # q.first
        /\ \A p \in asked : p # q => p.r # q.r /\ (p.first = q.first => p.first = None)
    BY <2>1 DEF IInv, AskedSound
  <2>3. row'[q.r] = NoRow
    BY <2>1, <2>2, <1>2 DEF RowsAdvance
  <2>4. q.kind = "second" => row[q.first] # NoRow
    BY <2>2, NoneFacts DEF NoRow, Unpaid, Statuses
  <2>5. q.kind = "second" => row'[q.first].status \in Unpaid
    BY <2>1, <2>2, <2>4, <1>2 DEF RowsAdvance
  <2> QED
    BY <2>1, <2>2, <2>3, <2>5, <1>5
<1>8. BookingsApart'
  <2>1. \A x \in Bookings' : x.a # None /\ row'[x.a] # NoRow /\ (x.b # None => row'[x.b] # NoRow)
    BY <1>3, NoneFacts DEF RowsAdvance
  <2>2. \A x, y \in Bookings' : x.a # y.b /\ (x.a = y.a \/ (x.b = y.b /\ x.b # None) => x = y)
    BY DEF IInv, BookingsApart
  <2>3. \A c \in confirms' :
            row'[c.r] # NoRow /\ \A x \in Bookings', l \in Legs : x[l] = c.r => l = c.leg
    BY <1>5 DEF RowsAdvance
  <2>4. \A c, d \in confirms' : c.r = d.r => c.leg = d.leg
    <3> SUFFICES ASSUME NEW c \in confirms', NEW d \in confirms', c.r = d.r PROVE c.leg = d.leg
      OBVIOUS
    <3>1. CASE \E x \in Bookings : x[c.leg] = c.r /\ c.r # None
      BY <3>1, <1>5
    <3>2. CASE \E x \in Bookings : x[d.leg] = d.r /\ d.r # None
      BY <3>2, <1>5
    <3>3. CASE /\ \E e \in confirms : e.r = c.r /\ e.leg = c.leg
               /\ \E e \in confirms : e.r = d.r /\ e.leg = d.leg
      BY <3>3 DEF IInv, BookingsApart
    <3> QED
      BY <1>1, <3>1, <3>2, <3>3
  <2> QED
    BY <2>1, <2>2, <2>3, <2>4 DEF BookingsApart
<1> QED
  BY <1>6, <1>7, <1>8

(* No submission gets anywhere, and what is paid for stays as it is.       *)
LEMMA JobsStay ==
    ASSUME IInv, UNCHANGED job,
           \A x \in Bookings' : \/ x \in Bookings
                                \/ job[x.a] = None /\ (x.b # None => job[x.b] = None),
           \A s \in submits : s.stage \in {"inserted a", "inserted b"} => s \in submits',
           \A s \in submits' : s.stage \in Served => s \in submits,
           \A r \in Resv : row[r].status \in Paid => row'[r].status = row[r].status
    PROVE  JobsPaid' /\ ServedOnce'
<1>1. \A r \in Resv : Marking(r) => Marking(r)'
  BY DEF Marking
<1>2. JobsPaid'
  <2>1. ASSUME NEW r \in Resv, job[r] # None
        PROVE  /\ row'[r].status \in Paid
               /\ row'[r].status = "confirmed" => job[r] = "running" /\ Marking(r)'
    <3>1. /\ row[r].status \in Paid
          /\ row[r].status = "confirmed" => job[r] = "running" /\ Marking(r)
      BY <2>1 DEF IInv, JobsPaid
    <3> QED
      BY <3>1, <1>1
  <2>2. ASSUME NEW x \in Bookings', x.b # None
        PROVE  /\ job[x.b] # None => job[x.a] # None
               /\ job[x.a] # None => row'[x.b].status \in Paid
    <3>1. CASE x \in Bookings
      <4>1. /\ job[x.b] # None => job[x.a] # None
            /\ job[x.a] # None => row[x.b].status \in Paid
        BY <2>2, <3>1 DEF IInv, JobsPaid
      <4>2. x.b \in Resv
        BY <2>2, <3>1, BookingsAreWhole
      <4> QED
        BY <4>1, <4>2
    <3>2. CASE job[x.a] = None /\ (x.b # None => job[x.b] = None)
      BY <2>2, <3>2
    <3> QED
      BY <3>1, <3>2
  <2> QED
    BY <2>1, <2>2 DEF JobsPaid
<1>3. ServedOnce'
  <2>1. ASSUME NEW s \in submits', s.stage \in Served
        PROVE  /\ s \in submits
               /\ job[s.res.a] # None
               /\ s.stage = "inserted a" => row'[s.res.a].status = "confirmed"
               /\ s.stage # "done" /\ s.res.b # None => row'[s.res.b].status = "confirmed"
               /\ s.stage = "sibling" => s.res.b # None
               /\ s.stage = "inserted b" => s.res.b # None /\ job[s.res.b] # None
    <3>1. s \in submits
      BY <2>1
    <3>2. s.res.a \in Resv /\ (s.res.b # None => s.res.b \in Resv)
      BY <3>1, SubmissionsAreBooked
    <3>3. /\ job[s.res.a] # None
          /\ s.stage = "inserted a" => row[s.res.a].status = "confirmed"
          /\ s.stage # "done" /\ s.res.b # None => row[s.res.b].status = "confirmed"
          /\ s.stage = "sibling" => s.res.b # None
          /\ s.stage = "inserted b" => s.res.b # None /\ job[s.res.b] # None
      BY <2>1, <3>1 DEF IInv, ServedOnce
    <3> QED
      BY <3>1, <3>2, <3>3 DEF Paid
  <2>2. \A s, t \in submits : s.stage \in Served /\ t.stage \in Served /\ s.res.a = t.res.a => s = t
    BY DEF IInv, ServedOnce
  <2> QED
    BY <2>1, <2>2 DEF ServedOnce
<1> QED
  BY <1>2, <1>3

(* The view on screen says of its booking and its job what it said; it may *)
(* be busier, or odder.                                                    *)
SameView ==
    /\ mounts' = mounts
    /\ IF view = None THEN view' = None
       ELSE /\ view' \in ViewState /\ view' # None
            /\ view'.id = view.id /\ view'.res = view.res /\ view'.st = view.st
            /\ view'.read = view.read /\ view'.hydrating = view.hydrating
            /\ view'.job = view.job /\ view'.final = view.final
            /\ view.odd \subseteq view'.odd
(* It may say something else, but of the booking it had.                   *)
SameScreen ==
    /\ mounts' = mounts
    /\ IF view = None THEN view' = None
       ELSE /\ view' \in ViewState /\ view' # None
            /\ view'.id = view.id /\ view'.res = view.res
            /\ view'.hydrating => view.hydrating
            /\ \A l \in Legs : view'.read[l] # None => view'.hydrating
            /\ view.odd \subseteq view'.odd
SameApp == UNCHANGED <<session, tab, single, pair, late>>
RowsStay == \A r \in Resv :
    /\ row[r] # NoRow => row'[r].owner = row[r].owner
    /\ row[r].status \in Paid => row'[r].status \in Paid
    /\ row[r].status = "over" => row'[r].status = "over"
    /\ row[r].status \in Unpaid => row'[r].status \in Unpaid

LEMMA SameViewScreen ==
    ASSUME IInv, SameView
    PROVE  SameScreen
  BY DEF SameView, SameScreen, IInv, Rendered

LEMMA SameViewHolds ==
    ASSUME IInv, UNCHANGED <<view, mounts>>
    PROVE  SameView
  BY DEF SameView, IInv, TypeOK

LEMMA OnScreenRows ==
    ASSUME IInv, view # None
    PROVE  /\ view.res.a \in Resv /\ view.res["a"] = view.res.a /\ view.res["b"] = view.res.b
           /\ \A l \in Legs : view.res[l] # None => view.res[l] \in Resv /\ row[view.res[l]] # NoRow
           /\ IsPair(view.res) => \A l \in Legs : view.res[l] # None
<1>1. view.res \in Bookings
  BY OnScreenIsBooked
<1> QED
  BY <1>1, BookingsAreWhole, NoneFacts DEF Legs, IsPair

LEMMA OnScreenFacts ==
    ASSUME IInv
    PROVE  OnScreen \subseteq Resv
  BY OnScreenRows DEF OnScreen

LEMMA AppStays ==
    ASSUME IInv, SameScreen, SameApp,
           \A r \in Resv : row[r] # NoRow => row'[r].owner = row[r].owner
    PROVE  Rendered' /\ OwnHeld'
<1>1. Rendered'
  <2>1. Given' = Given /\ (view' = None <=> view = None)
    BY DEF SameScreen, SameApp, Given, Shown
  <2> QED
    BY <2>1, NoneFacts DEF IInv, Rendered, SameScreen, IsPair
<1>2. ASSUME NEW r \in ({single, pair.a, pair.b} \cup OnScreen) \ ({None} \cup late)
      PROVE  session # None /\ row'[r].owner = session
  <2>1. session # None /\ row[r].owner = session
    BY <1>2 DEF IInv, OwnHeld
  <2>2. r \in Resv
    BY <1>2, BookingFacts, OnScreenFacts DEF IInv, TypeOK
  <2>3. row[r] # NoRow
    BY <2>1 DEF NoRow
  <2> QED
    BY <2>1, <2>2, <2>3
<1>3. OnScreen' = OnScreen
  BY DEF OnScreen, SameScreen
<1>4. OwnHeld'
  BY <1>2, <1>3 DEF OwnHeld, SameApp
<1> QED
  BY <1>1, <1>4

LEMMA SubmissionsStay ==
    ASSUME IInv, SameScreen,
           \A s \in submits' \cup polls' :
              \/ \E t \in submits \cup polls : t.view = s.view /\ t.res = s.res
              \/ view # None /\ s.view = view.id /\ s.res \in {view.res, Given}
    PROVE  SubmitsSound'
<1> SUFFICES ASSUME NEW s \in submits' \cup polls'
             PROVE  /\ s.view <= mounts' /\ s.res # Nothing
                    /\ Current(s.view)' => s.res = view'.res \/ "reused" \in view'.odd
  BY DEF SubmitsSound
<1>1. CASE \E t \in submits \cup polls : t.view = s.view /\ t.res = s.res
  BY <1>1 DEF IInv, SubmitsSound, SameScreen, Current
<1>2. CASE view # None /\ s.view = view.id /\ s.res \in {view.res, Given}
  <2>1. view.id = mounts /\ s.res # Nothing /\ (s.res = view.res \/ "reused" \in view.odd)
    BY <1>2 DEF IInv, Rendered
  <2>2. mounts \in Nat
    <3>1. mounts \in 0..MaxViews
      BY DEF IInv, TypeOK
    <3> QED
      BY <3>1, BoundFacts
  <2> QED
    BY <1>2, <2>1, <2>2 DEF SameScreen, Current
<1> QED
  BY <1>1, <1>2

LEMMA ConfirmsStay ==
    ASSUME IInv, SameScreen, UNCHANGED <<confirms, remounted>>,
           view # None => view.busy = view'.busy,
           \A r \in Resv : row[r].status \in Paid => row'[r].status \in Paid
    PROVE  ConfirmsSound' /\ ButtonWaitsForItsCall'
<1>1. ASSUME NEW c \in confirms
      PROVE  /\ c.view <= mounts'
             /\ IF Current(c.view)'
                THEN c.r = view'.res[c.leg] \/ "reused" \in view'.odd
                ELSE c.r \in remounted'
             /\ c.stage = "paid" => row'[c.r].status \in Paid
  <2>1. c.r \in Resv
    BY DEF IInv, TypeOK
  <2> QED
    BY <2>1 DEF IInv, ConfirmsSound, SameScreen, Current
<1>2. ConfirmsSound'
  BY <1>1 DEF IInv, ConfirmsSound
<1>3. ButtonWaitsForItsCall'
  BY DEF IInv, ButtonWaitsForItsCall, SameScreen
<1> QED
  BY <1>2, <1>3

LEMMA ClaimsStay ==
    ASSUME IInv, SameView, RowsStay, remounted \subseteq remounted',
           \A p \in polls : p \in polls',
           \A c \in confirms : c.stage = "paid" /\ Current(c.view) => c \in confirms',
           \A r \in Resv : job[r] = "done" => job'[r] = "done"
    PROVE  ReadStands' /\ PaidWillShow' /\ NeverAhead' /\ JobIsWatched'
<1> USE DEF SameView
<1>1. CASE view = None
  BY <1>1 DEF ReadStands, PaidWillShow, NeverAhead, JobIsWatched
<1>2. CASE view # None
  <2>1. /\ view.res.a \in Resv
        /\ \A l \in Legs : view.res[l] # None => view.res[l] \in Resv
        /\ IsPair(view.res) => \A l \in Legs : view.res[l] # None
    BY <1>2, OnScreenRows
  <2>2. ReadStands'
    <3> SUFFICES ASSUME "reused" \notin view'.odd, NEW l \in Legs, view'.read[l] # None
                 PROVE  /\ view'.read[l].status = "held" /\ "raced" \notin view'.odd =>
                              row'[view'.res[l]].status \in Unpaid
                        /\ view'.read[l].status = "confirmed" =>
                              row'[view'.res[l]].status \in Paid
      BY DEF ReadStands
    <3>1. IsPair(view.res)
      BY <1>2 DEF IInv, Rendered
    <3> QED
      BY <1>2, <2>1, <3>1 DEF IInv, ReadStands, RowsStay
  <2>3. PaidWillShow'
    <3> SUFFICES ASSUME IsPair(view'.res), ~view'.hydrating,
                        view'.odd \cap {"raced", "reused"} = {}, NEW l \in Legs,
                        view'.st[l] = "held", view'.res[l] \notin remounted',
                        \A c \in confirms' : Current(c.view)' /\ c.leg = l => c.stage # "paid"
                 PROVE  row'[view'.res[l]].status \in Unpaid
      BY DEF PaidWillShow, IsPair
    <3>1. \A c \in confirms : Current(c.view) /\ c.leg = l => c.stage # "paid"
      BY <1>2 DEF Current
    <3>2. row[view.res[l]].status \in Unpaid
      BY <1>2, <3>1 DEF IInv, PaidWillShow, IsPair
    <3> QED
      BY <1>2, <2>1, <3>2 DEF RowsStay, IsPair
  <2>4. NeverAhead'
    <3>1. ASSUME "reused" \notin view'.odd, NEW l \in Legs,
                 view'.res[l] # None, view'.st[l] = "confirmed"
          PROVE  row'[view'.res[l]].status \in {"confirmed", "running", "over"}
      BY <1>2, <2>1, <3>1 DEF IInv, NeverAhead, RowsStay, Paid
    <3>2. ASSUME "reused" \notin view'.odd, view'.final # Nothing, "skewed" \notin view'.odd
          PROVE  row'[view'.res.a].status = "over"
      BY <1>2, <2>1, <3>2 DEF IInv, NeverAhead, RowsStay
    <3> QED
      BY <1>2, <3>1, <3>2 DEF NeverAhead, Nothing
  <2>5. JobIsWatched'
    BY <1>2, <2>1 DEF IInv, JobIsWatched, IsPair, Nothing
  <2> QED
    BY <2>2, <2>3, <2>4, <2>5
<1> QED
  BY <1>1, <1>2

LEMMA JobReadStays ==
    ASSUME IInv, SameView, RowsStay,
           view # None => (job'[view.res.a] = None <=> job[view.res.a] = None)
    PROVE  JobReadStands'
<1> SUFFICES ASSUME view' # None, view'.odd \cap {"reused", "skewed"} = {}
             PROVE  /\ view'.read["a"] # None =>
                          IF view'.read["a"].job
                          THEN /\ view'.read["a"].status \in {"running", "over"}
                               /\ view'.read["a"].status = "over" => row'[view'.res.a].status = "over"
                          ELSE job'[view'.res.a] = None
                    /\ view'.read["b"] # None /\ view'.read["b"].job => job'[view'.res.a] # None
  BY DEF JobReadStands
<1>1. view # None /\ view.odd \cap {"reused", "skewed"} = {}
  BY DEF SameView
<1>2. view.res.a \in Resv
  BY <1>1, OnScreenRows
<1> QED
  BY <1>1, <1>2 DEF IInv, JobReadStands, SameView, RowsStay
-----------------------------------------------------------------------------
(***************************************************************************)
(* A step after which App renders.  The view goes, stays with its booking  *)
(* or another, or a fresh one takes its place.                             *)
(***************************************************************************)
LEMMA FreshFacts ==
    ASSUME NEW res \in Booking, mounts + 1 \in 1..MaxViews
    PROVE  /\ Fresh(res) \in ViewState /\ Fresh(res) # None
           /\ Fresh(res).id = mounts + 1 /\ Fresh(res).res = res
           /\ Fresh(res).st = [l \in Legs |-> "held"] /\ Fresh(res).read = Nothing
           /\ Fresh(res).hydrating = IsPair(res) /\ ~Fresh(res).job
           /\ Fresh(res).final = Nothing /\ Fresh(res).busy = {}
<1>1. /\ Nothing \in [Legs -> Seen \cup {None}]
      /\ Nothing \in [Legs -> Statuses \cup {None}]
  <2>1. Nothing \in Booking
    BY BookingFacts
  <2>2. Nothing["a"] = None /\ Nothing["b"] = None
    BY DEF Nothing
  <2> QED
    BY <2>1, <2>2 DEF Booking, Legs
<1>2. [l \in Legs |-> "held"] \in [Legs -> Statuses \cup {None}]
  BY DEF Statuses
<1>3. Fresh(res) \in ViewState
  BY <1>1, <1>2 DEF Fresh, ViewState, IsPair
<1>4. Fresh(res) # None
  BY <1>3, NoneFacts
<1> QED
  BY <1>3, <1>4 DEF Fresh

LEMMA NoneRead == Nothing["a"] = None /\ Nothing["b"] = None
  BY DEF Nothing

(* What is left of the calls when the view has gone.                       *)
LEMMA ViewGoes ==
    ASSUME IInv, UNCHANGED <<confirms, submits>>, RowsStay,
           view' = None \/ /\ view' # None /\ view'.id = mounts + 1 /\ mounts + 1 = mounts'
                           /\ view'.busy = {},
           mounts' >= mounts, mounts' \in Nat,
           polls' \subseteq polls, remounted \subseteq remounted',
           view # None => \A c \in confirms : c.view = view.id => c.r \in remounted'
    PROVE  ConfirmsSound' /\ SubmitsSound' /\ ButtonWaitsForItsCall'
<1>1. mounts \in Nat
  <2>1. mounts \in 0..MaxViews
    BY DEF IInv, TypeOK
  <2> QED
    BY <2>1, BoundFacts
<1>2. \A s \in confirms \cup submits \cup polls : s.view \in Nat /\ s.view <= mounts
  <2>1. \A s \in confirms \cup submits \cup polls : s.view \in 1..MaxViews
    BY DEF IInv, TypeOK
  <2>2. \A s \in confirms \cup submits \cup polls : s.view <= mounts
    BY DEF IInv, ConfirmsSound, SubmitsSound
  <2> QED
    BY <2>1, <2>2, BoundFacts
<1>3. \A s \in confirms \cup submits \cup polls : ~Current(s.view)' /\ s.view <= mounts'
  BY <1>1, <1>2 DEF Current
<1>4. \A c \in confirms : c.r \in remounted'
  BY DEF IInv, ConfirmsSound, Current
<1>5. \A c \in confirms : c.r \in Resv
  BY DEF IInv, TypeOK
<1>6. ConfirmsSound'
  BY <1>3, <1>4, <1>5 DEF IInv, ConfirmsSound, RowsStay
<1>7. SubmitsSound'
  BY <1>3 DEF IInv, SubmitsSound
<1>8. ButtonWaitsForItsCall'
  BY <1>3 DEF ButtonWaitsForItsCall, Current
<1> QED
  BY <1>6, <1>7, <1>8

LEMMA RenderStep ==
    ASSUME IInv, Render, UNCHANGED <<confirms, submits, job>>, RowsStay,
           NEW res \in Booking, res = Shown(session', tab', pair', single')
    PROVE  /\ view' \in ViewState \cup {None} /\ mounts' \in 0..MaxViews
           /\ polls' \subseteq polls /\ remounted' \subseteq Resv
           /\ Rendered' /\ ConfirmsSound' /\ SubmitsSound' /\ ReadStands' /\ JobReadStands'
           /\ PaidWillShow' /\ NeverAhead' /\ JobIsWatched' /\ ButtonWaitsForItsCall'
<1> DEFINE kept == view # None /\ res # Nothing /\ IsPair(res) = IsPair(view.res)
<1>1. /\ view' = IF res = Nothing THEN None
                 ELSE IF ~kept THEN Fresh(res)
                 ELSE IF res = Given THEN view ELSE Handed(res)
      /\ mounts' = IF res = Nothing \/ kept THEN mounts ELSE mounts + 1
      /\ mounts' <= MaxViews
      /\ polls' = IF view = None \/ kept THEN polls ELSE {p \in polls : p.view # view.id}
      /\ remounted' = IF view = None \/ kept THEN remounted
                      ELSE remounted \cup {c.r : c \in {d \in confirms : d.view = view.id}}
  BY DEF Render
<1>2. mounts \in Nat /\ mounts \in 0..MaxViews /\ MaxViews \in Nat
  <2>1. mounts \in 0..MaxViews
    BY DEF IInv, TypeOK
  <2> QED
    BY <2>1, BoundFacts
<1>3. \A c \in confirms : c.r \in Resv
  BY DEF IInv, TypeOK
<1>4. mounts' \in 0..MaxViews /\ mounts' >= mounts /\ mounts' \in Nat
  BY <1>1, <1>2
<1>5. polls' \subseteq polls /\ remounted \subseteq remounted' /\ remounted' \subseteq Resv
  <2>1. remounted \subseteq Resv
    BY DEF IInv, TypeOK
  <2>2. polls' \subseteq polls /\ remounted \subseteq remounted'
    BY <1>1
  <2>3. remounted' \subseteq Resv
    BY <1>1, <1>3, <2>1
  <2> QED
    BY <2>2, <2>3
<1>6. Given' = res
  BY DEF Given, Shown
<1>7. CASE res = Nothing
  <2>1. view' = None
    BY <1>1, <1>7
  <2>2. ConfirmsSound' /\ SubmitsSound' /\ ButtonWaitsForItsCall'
    <3>1. view # None => \A c \in confirms : c.view = view.id => c.r \in remounted'
      BY <1>1, <1>7
    <3> QED
      BY <2>1, <3>1, <1>4, <1>5, ViewGoes
  <2> QED
    BY <2>1, <2>2, <1>4, <1>5, <1>6, <1>7
       DEF Rendered, ReadStands, JobReadStands, PaidWillShow, NeverAhead, JobIsWatched
<1>8. CASE res # Nothing /\ ~kept
  <2>1. /\ view' = Fresh(res) /\ mounts' = mounts + 1 /\ mounts + 1 \in 1..MaxViews
    BY <1>1, <1>2, <1>8
  <2>2. /\ view' \in ViewState /\ view' # None
        /\ view'.id = mounts + 1 /\ view'.res = res
        /\ view'.st = [l \in Legs |-> "held"] /\ view'.read = Nothing
        /\ view'.hydrating = IsPair(res) /\ ~view'.job /\ view'.final = Nothing
        /\ view'.busy = {}
    BY <2>1, FreshFacts
  <2>3. ConfirmsSound' /\ SubmitsSound' /\ ButtonWaitsForItsCall'
    <3>1. view # None => \A c \in confirms : c.view = view.id => c.r \in remounted'
      BY <1>1, <1>8
    <3> QED
      BY <2>1, <2>2, <3>1, <1>4, <1>5, ViewGoes
  <2>4. \A l \in Legs : view'.read[l] = None /\ view'.st[l] = "held"
    BY <2>2, NoneRead DEF Legs
  <2>5. Rendered'
    BY <2>1, <2>2, <2>4, <1>6, <1>8 DEF Rendered, IsPair
  <2>6. ReadStands' /\ JobReadStands'
    BY <2>4 DEF ReadStands, JobReadStands, Legs
  <2>7. PaidWillShow' /\ JobIsWatched'
    BY <2>2 DEF PaidWillShow, JobIsWatched, IsPair
  <2>8. NeverAhead'
    BY <2>2, <2>4 DEF NeverAhead, Nothing
  <2> QED
    BY <2>2, <2>3, <2>5, <2>6, <2>7, <2>8, <1>4, <1>5
<1>9. CASE kept
  <2>1. /\ view \in ViewState /\ view # None /\ res # Nothing /\ IsPair(res) = IsPair(view.res)
        /\ UNCHANGED <<mounts, polls, remounted>>
    BY <1>1, <1>9, OnScreenIsBooked
  <2>2. CASE res = Given
    <3>1. view' = view
      BY <1>1, <1>9, <2>1, <2>2
    <3>2. SameView
      BY <2>1, <3>1, SameViewHolds
    <3>3. ReadStands' /\ PaidWillShow' /\ NeverAhead' /\ JobIsWatched'
      BY <2>1, <3>2, ClaimsStay
    <3>4. JobReadStands'
      BY <3>2, JobReadStays
    <3>5. ConfirmsSound' /\ ButtonWaitsForItsCall'
      BY <2>1, <3>1, <3>2, SameViewScreen, ConfirmsStay DEF RowsStay
    <3>6. SubmitsSound'
      BY <2>1, <3>2, SameViewScreen, SubmissionsStay
    <3>7. Rendered'
      BY <2>1, <2>2, <3>1, <1>6 DEF IInv, Rendered
    <3> QED
      BY <2>1, <3>1, <3>3, <3>4, <3>5, <3>6, <3>7, <1>4, <1>5
  <2>3. CASE res # Given
    <3>1. /\ view' \in ViewState
          /\ view'.id = view.id /\ view'.busy = view.busy /\ "reused" \in view'.odd
          /\ view'.res = IF IsPair(res) THEN view.res ELSE res
          /\ view'.hydrating = (IsPair(res) \/ view.hydrating)
          /\ view'.read = IF IsPair(res) THEN Nothing ELSE view.read
      <4>1. view' = Handed(res)
        BY <1>1, <1>9, <2>3
      <4>2. Nothing \in [Legs -> Seen \cup {None}]
        BY NoneRead DEF Nothing, Legs
      <4> QED
        BY <2>1, <4>1, <4>2 DEF Handed, ViewState
    <3>2. view' # None
      BY <3>1, NoneFacts
    <3>3. ReadStands' /\ PaidWillShow' /\ JobReadStands' /\ NeverAhead' /\ JobIsWatched'
      BY <3>1, <3>2 DEF ReadStands, PaidWillShow, JobReadStands, NeverAhead, JobIsWatched
    <3>4. Rendered'
      <4>1. view.res # Nothing /\ view.id = mounts /\ (view.hydrating => IsPair(view.res))
            /\ \A l \in Legs : view.read[l] # None => view.hydrating
        BY <2>1 DEF IInv, Rendered
      <4>2. \A l \in Legs : view'.read[l] # None => view'.hydrating
        BY <3>1, <4>1, NoneRead DEF Legs
      <4> QED
        BY <2>1, <3>1, <3>2, <4>1, <4>2, <1>6 DEF Rendered
    <3>5. SubmitsSound'
      BY <2>1, <3>1, <3>2 DEF IInv, SubmitsSound, Current
    <3>6. ConfirmsSound'
      BY <2>1, <3>1, <3>2, <1>3 DEF IInv, ConfirmsSound, Current, RowsStay
    <3>7. ButtonWaitsForItsCall'
      BY <2>1, <3>1, <3>2 DEF IInv, ButtonWaitsForItsCall
    <3> QED
      BY <3>1, <3>3, <3>4, <3>5, <3>6, <3>7, <1>4, <1>5
  <2> QED
    BY <2>2, <2>3
<1> QED
  BY <1>7, <1>8, <1>9
-----------------------------------------------------------------------------
(***************************************************************************)
(* App: sessions, tabs, and the calls that make a booking.                 *)
(***************************************************************************)
LEMMA RowsSame ==
    ASSUME IInv, UNCHANGED row
    PROVE  RowsStay /\ RowsAdvance
  BY DEF RowsStay, RowsAdvance, IInv, RowsWhole

LEMMA SameBookings ==
    ASSUME \A s \in submits' \cup polls' : \E t \in submits \cup polls : s.res = t.res,
           UNCHANGED <<pair, single>>, SameScreen
    PROVE  Bookings' \subseteq Bookings
<1>1. Screen' = Screen
  BY DEF Screen, SameScreen
<1> QED
  BY <1>1 DEF Bookings, One

(* A step of the calls to POST /reservations that shows nothing.           *)
LEMMA AskingStep ==
    ASSUME IInv, UNCHANGED <<session, tab, single, pair, view, mounts, calls, job, history>>,
           TypeOK', RowsStay, RowsWhole', AskedSound', BookingsApart',
           \A r \in Resv : row[r].status \in Paid => row'[r].status = row[r].status
    PROVE  IInv'
<1>1. SameView /\ SameApp
  BY SameViewHolds DEF SameApp, history
<1>2. UNCHANGED <<confirms, submits, polls, closing, late, remounted>>
  BY DEF calls, history
<1>3. Bookings' \subseteq Bookings
  BY <1>1, <1>2, SameViewScreen, SameBookings
<1>4. Rendered' /\ OwnHeld'
  BY <1>1, SameViewScreen, AppStays DEF RowsStay
<1>5. ConfirmsSound' /\ SubmitsSound' /\ ButtonWaitsForItsCall'
  BY <1>1, <1>2, SameViewScreen, ConfirmsStay, SubmissionsStay DEF RowsStay
<1>6. JobsPaid' /\ ServedOnce'
  BY <1>2, <1>3, JobsStay
<1>7. ReadStands' /\ PaidWillShow' /\ NeverAhead' /\ JobIsWatched' /\ JobReadStands'
  BY <1>1, <1>2, ClaimsStay, JobReadStays
<1> QED
  BY <1>4, <1>5, <1>6, <1>7 DEF IInv

LEMMA PickStep ==
    ASSUME IInv, NEW on \in BOOLEAN, PickPrimary(on)
    PROVE  IInv'
<1>1. UNCHANGED <<session, tab, single, pair, asked, view, mounts, calls, row, job, history>>
  BY DEF PickPrimary, server
<1>2. TypeOK'
  BY <1>1 DEF PickPrimary, IInv, TypeOK, calls, history
<1>3. RowsStay /\ RowsAdvance
  BY <1>1, RowsSame
<1>4. Bookings' \subseteq Bookings
  BY <1>1, SameViewHolds, SameViewScreen, SameBookings DEF calls
<1>5. RowsWhole' /\ AskedSound' /\ BookingsApart'
  <2>1. \A c \in confirms : c.leg \in Legs
    BY DEF IInv, TypeOK
  <2> QED
    BY <1>1, <1>3, <1>4, <2>1, BookingsStay DEF calls
<1> QED
  BY <1>1, <1>2, <1>3, <1>5, AskingStep

LEMMA RefusedStep ==
    ASSUME IInv, NEW q \in asked, AnswerRefused(q)
    PROVE  IInv'
<1>1. /\ UNCHANGED <<session, tab, single, pair, view, mounts, calls, row, job, history>>
      /\ asked' \subseteq asked
  BY DEF AnswerRefused, server
<1>2. TypeOK'
  BY <1>1 DEF AnswerRefused, IInv, TypeOK, calls, history
<1>3. RowsStay /\ RowsAdvance
  BY <1>1, RowsSame
<1>4. Bookings' \subseteq Bookings
  BY <1>1, SameViewHolds, SameViewScreen, SameBookings DEF calls
<1>5. RowsWhole' /\ AskedSound' /\ BookingsApart'
  <2>1. \A c \in confirms : c.leg \in Legs
    BY DEF IInv, TypeOK
  <2> QED
    BY <1>1, <1>3, <1>4, <2>1, BookingsStay DEF calls
<1> QED
  BY <1>1, <1>2, <1>3, <1>5, AskingStep

(* The call gets a row that nothing refers to.                             *)
LEMMA ReserveStep ==
    ASSUME IInv, NEW kind \in {"one", "first"}, NEW r \in Resv, Reserve(kind, r)
    PROVE  IInv'
<1> DEFINE n == [kind |-> kind, by |-> session, r |-> r, first |-> None]
<1>1. /\ UNCHANGED <<session, tab, single, pair, view, mounts, calls, row, job, history>>
      /\ asked' = asked \cup {n} /\ session # None
      /\ row[r] = NoRow /\ \A q \in asked : r # q.r /\ r # q.first
  BY DEF Reserve, server, Unused
<1>2. /\ n \in [kind : {"one", "first", "second"}, by : Users \cup {None},
               r : Resv, first : Resv \cup {None}]
      /\ n.kind = kind /\ n.by = session /\ n.r = r /\ n.first = None
  BY DEF IInv, TypeOK
<1> HIDE DEF n
<1>3. TypeOK'
  BY <1>1, <1>2 DEF Reserve, IInv, TypeOK, calls, history
<1>4. RowsStay /\ RowsWhole'
  BY <1>1, RowsSame DEF IInv, RowsWhole
<1>5. UNCHANGED <<confirms, Bookings>>
  BY <1>1 DEF Bookings, Screen, calls, One
<1>6. AskedSound'
  <2>1. \A q \in asked : q.first = n.first => q.first = None
    BY <1>2
  <2> QED
    BY <1>1, <1>2, <1>5, <2>1 DEF IInv, AskedSound
<1>7. BookingsApart'
  BY <1>1, <1>5 DEF IInv, BookingsApart
<1> QED
  BY <1>1, <1>3, <1>4, <1>6, <1>7, AskingStep

(* A row that is booked was no part of anything.                           *)
LEMMA BookFacts ==
    ASSUME IInv, NEW q \in asked, q.by # None, Book(q)
    PROVE  /\ q.r \in Resv /\ q.first \in Resv \cup {None} /\ q.by \in Users
           /\ row' \in [Resv -> [owner : Users \cup {None}, status : Statuses \cup {None},
                                with : Resv \cup {None}]]
           /\ row[q.r] = NoRow /\ row'[q.r] # NoRow
           /\ row'[q.r].owner = q.by /\ row'[q.r].status = "held"
           /\ \A r \in Resv : r # q.r => row'[r] = row[r]
           /\ RowsStay /\ RowsWhole'
           /\ \A r \in Resv : row[r].status \in Paid => row'[r].status = row[r].status
           /\ \A r \in Resv : row[r] = NoRow \/ row[r].status \in Unpaid => job[r] = None
           /\ \A x \in Bookings : q.r # x.a /\ q.r # x.b
           /\ \A c \in confirms : c.r \in Resv /\ c.r # q.r
           /\ \A p \in asked : p # q => q.r # p.r /\ q.r # p.first
<1>1. /\ q.r \in Resv /\ q.first \in Resv \cup {None} /\ q.by \in Users
      /\ row[q.r] = NoRow
  BY DEF IInv, TypeOK, AskedSound
<1> DEFINE new == [owner |-> q.by, status |-> "held", with |-> None]
<1>2. /\ new \in [owner : Users \cup {None}, status : Statuses \cup {None}, with : Resv \cup {None}]
      /\ new.owner = q.by /\ new.status = "held" /\ new # NoRow
  BY <1>1, NoneFacts DEF Statuses, NoRow
<1>3. row' = [row EXCEPT ![q.r] = new]
  BY DEF Book
<1> HIDE DEF new
<1>4. /\ row' \in [Resv -> [owner : Users \cup {None}, status : Statuses \cup {None},
                           with : Resv \cup {None}]]
      /\ row'[q.r] = new /\ \A r \in Resv : r # q.r => row'[r] = row[r]
  BY <1>1, <1>2, <1>3 DEF IInv, TypeOK
<1>5. NoRow.status = None
  BY DEF NoRow
<1>6. RowsStay
  BY <1>1, <1>4, <1>5, NoneFacts DEF RowsStay, Paid, Unpaid, Statuses
<1>7. RowsWhole'
  BY <1>1, <1>2, <1>4 DEF IInv, RowsWhole, Statuses
<1>8. \A r \in Resv : row[r].status \in Paid => row'[r].status = row[r].status
  BY <1>1, <1>4, <1>5, NoneFacts DEF Paid, Statuses
<1>9. \A r \in Resv : row[r] = NoRow \/ row[r].status \in Unpaid => job[r] = None
  BY <1>5, NoneFacts DEF IInv, JobsPaid, Paid, Unpaid, Statuses
<1>10. \A x \in Bookings : q.r # x.a /\ q.r # x.b
  BY <1>1, BookingsAreWhole, NoneFacts
<1>11. \A c \in confirms : c.r \in Resv /\ c.r # q.r
  BY <1>1 DEF IInv, TypeOK, BookingsApart
<1>12. \A p \in asked : p # q => q.r # p.r /\ q.r # p.first
  <2> SUFFICES ASSUME NEW p \in asked, p # q PROVE q.r # p.r /\ q.r # p.first
    OBVIOUS
  <2>1. q.r # p.r
    BY DEF IInv, AskedSound
  <2>2. CASE p.kind = "second"
    BY <2>1, <2>2, <1>1, <1>5, NoneFacts DEF IInv, AskedSound, Unpaid, Statuses
  <2>3. CASE p.kind # "second"
    BY <2>1, <2>3, <1>1, NoneFacts DEF IInv, AskedSound
  <2> QED
    BY <2>2, <2>3
<1> QED
  BY <1>1, <1>2, <1>4, <1>6, <1>7, <1>8, <1>9, <1>10, <1>11, <1>12

(* The first node of a pair is booked, and the second asked for.           *)
LEMMA FirstStep ==
    ASSUME IInv, NEW q \in asked, AnswerFirst(q)
    PROVE  IInv'
<1>1. /\ q.kind = "first" /\ Book(q)
      /\ UNCHANGED <<session, tab, single, pair, primary, view, mounts, calls, job, history>>
      /\ reserving' = TRUE
  BY DEF AnswerFirst
<1>2. PICK r \in Resv : /\ row[r] = NoRow /\ \A p \in asked : r # p.r /\ r # p.first
                        /\ asked' = (asked \ {q}) \cup
                              {[kind |-> "second", by |-> session, r |-> r, first |-> q.r]}
  BY DEF AnswerFirst, Unused
<1> DEFINE n == [kind |-> "second", by |-> session, r |-> r, first |-> q.r]
<1>3. q.by # None
  BY <1>1 DEF IInv, AskedSound
<1>4. /\ q.r \in Resv /\ row'[q.r].status = "held" /\ row'[q.r] # NoRow
      /\ \A s \in Resv : s # q.r => row'[s] = row[s]
      /\ RowsStay /\ RowsWhole'
      /\ \A s \in Resv : row[s].status \in Paid => row'[s].status = row[s].status
      /\ \A x \in Bookings : q.r # x.a /\ q.r # x.b
      /\ \A c \in confirms : c.r \in Resv /\ c.r # q.r
      /\ \A p \in asked : p # q => q.r # p.r /\ q.r # p.first
      /\ row' \in [Resv -> [owner : Users \cup {None}, status : Statuses \cup {None},
                           with : Resv \cup {None}]]
  BY <1>1, <1>3, BookFacts
<1>5. /\ n \in [kind : {"one", "first", "second"}, by : Users \cup {None},
               r : Resv, first : Resv \cup {None}]
      /\ n.kind = "second" /\ n.by = session /\ n.r = r /\ n.first = q.r
  BY <1>4 DEF IInv, TypeOK
<1>6. asked' = (asked \ {q}) \cup {n}
  BY <1>2
<1> HIDE DEF n
<1>7. TypeOK'
  <2>1. asked' \subseteq [kind : {"one", "first", "second"}, by : Users \cup {None},
                         r : Resv, first : Resv \cup {None}]
    BY <1>5, <1>6 DEF IInv, TypeOK
  <2>2. row' \in [Resv -> [owner : Users \cup {None}, status : Statuses \cup {None},
                         with : Resv \cup {None}]]
    BY <1>4
  <2>3. /\ UNCHANGED <<session, tab, single, pair, primary, view, mounts, confirms, submits, polls,
                        closing, job, late, remounted>>
        /\ reserving' \in BOOLEAN
    BY <1>1 DEF calls, history
  <2> QED
    BY <2>1, <2>2, <2>3 DEF IInv, TypeOK
<1>8. UNCHANGED <<confirms, Bookings>>
  BY <1>1 DEF Bookings, Screen, calls, One
<1>9. row'[r] = NoRow /\ r # q.r
  BY <1>2, <1>4
<1>10. AskedSound'
  <2>1. ASSUME NEW p \in asked, p # q
        PROVE  /\ row'[p.r] = NoRow
               /\ p.kind # "second" => p.by # None /\ p.first = None
               /\ p.kind = "second" =>
                     /\ p.first # None /\ row'[p.first].status \in Unpaid
                     /\ \A x \in Bookings' : p.first \notin {x.a, x.b}
                     /\ \A c \in confirms' : c.r # p.first
               /\ \A o \in asked : o # p => o.r # p.r /\ (o.first = p.first => o.first = None)
    <3>1. p.r \in Resv /\ p.first \in Resv \cup {None}
      BY DEF IInv, TypeOK
    <3>2. p.r # q.r /\ p.first # q.r
      BY <2>1, <1>4
    <3> QED
      BY <3>1, <3>2, <1>4, <1>8 DEF IInv, AskedSound
  <2>2. /\ row'[n.r] = NoRow /\ n.first # None /\ row'[n.first].status \in Unpaid
        /\ \A x \in Bookings' : n.first \notin {x.a, x.b}
        /\ \A c \in confirms' : c.r # n.first
    BY <1>4, <1>5, <1>8, <1>9, NoneFacts DEF Unpaid
  <2>3. \A p \in asked : p # q => p.r # n.r /\ p.first # n.first
    BY <1>2, <1>4, <1>5
  <2> QED
    BY <2>1, <2>2, <2>3, <1>5, <1>6 DEF AskedSound
<1>11. BookingsApart'
  BY <1>4, <1>8, BookingsAreWhole, NoneFacts DEF IInv, BookingsApart
<1> QED
  BY <1>1, <1>4, <1>7, <1>10, <1>11, AskingStep

(* A new booking is made of a row that was just booked and, in a pair, of  *)
(* a first one that nobody had been shown.                                 *)
LEMMA NewBooking ==
    ASSUME IInv, NEW q \in asked, q.by # None, Book(q), asked' = asked \ {q},
           UNCHANGED confirms,
           NEW n \in Booking,
           \/ q.kind # "second" /\ n.a = q.r /\ n.b = None
           \/ q.kind = "second" /\ n.a = q.first /\ n.b = q.r,
           Bookings' \subseteq Bookings \cup {n}
    PROVE  /\ AskedSound' /\ BookingsApart'
           /\ \A x \in Bookings' : \/ x \in Bookings
                                   \/ job[x.a] = None /\ (x.b # None => job[x.b] = None)
<1>1. /\ q.r \in Resv /\ q.first \in Resv \cup {None} /\ row[q.r] = NoRow
      /\ row'[q.r].status = "held" /\ row'[q.r] # NoRow
      /\ \A s \in Resv : s # q.r => row'[s] = row[s]
      /\ \A r \in Resv : row[r] = NoRow \/ row[r].status \in Unpaid => job[r] = None
      /\ \A x \in Bookings : q.r # x.a /\ q.r # x.b
      /\ \A c \in confirms : c.r \in Resv /\ c.r # q.r
      /\ \A p \in asked : p # q => q.r # p.r /\ q.r # p.first
  BY BookFacts
<1>2. q.kind = "second" =>
          /\ q.first \in Resv /\ row[q.first].status \in Unpaid /\ row[q.first] # NoRow
          /\ q.first # q.r
          /\ \A x \in Bookings : q.first # x.a /\ q.first # x.b
          /\ \A c \in confirms : c.r # q.first
          /\ \A p \in asked : p # q => p.first # q.first
  <2>1. NoRow.status = None
    BY DEF NoRow
  <2> QED
    BY <2>1, <1>1, NoneFacts DEF IInv, AskedSound, Unpaid, Statuses
<1>3. /\ n.a \in Resv /\ row'[n.a] # NoRow /\ job[n.a] = None
      /\ n.b \in Resv \cup {None} /\ n.a # n.b
      /\ n.b # None => row'[n.b] # NoRow /\ job[n.b] = None
      /\ n["a"] = n.a /\ n["b"] = n.b
      /\ \A x \in Bookings : n.a # x.a /\ n.a # x.b /\ (n.b # None => n.b # x.a /\ n.b # x.b)
      /\ \A c \in confirms : c.r # n.a /\ c.r # n.b
  <2>1. n["a"] = n.a /\ n["b"] = n.b
    BY BookingFacts
  <2>2. CASE q.kind # "second"
    BY <2>1, <2>2, <1>1, NoneFacts
  <2>3. CASE q.kind = "second"
    BY <2>1, <2>3, <1>1, <1>2, NoneFacts
  <2> QED
    BY <2>2, <2>3
<1>4. AskedSound'
  <2> SUFFICES ASSUME NEW p \in asked, p # q
               PROVE  /\ row'[p.r] = NoRow
                      /\ p.kind # "second" => p.by # None /\ p.first = None
                      /\ p.kind = "second" =>
                            /\ p.first # None /\ row'[p.first].status \in Unpaid
                            /\ \A x \in Bookings' : p.first \notin {x.a, x.b}
                            /\ \A c \in confirms : c.r # p.first
                      /\ \A o \in asked : o # p => o.r # p.r /\ (o.first = p.first => o.first = None)
    BY DEF AskedSound
  <2>1. /\ row[p.r] = NoRow
        /\ p.kind # "second" => p.by # None /\ p.first = None
        /\ p.kind = "second" =>
              /\ p.first # None /\ row[p.first].status \in Unpaid
              /\ \A x \in Bookings : p.first \notin {x.a, x.b}
              /\ \A c \in confirms : c.r # p.first
        /\ \A o \in asked : o # p => o.r # p.r /\ (o.first = p.first => o.first = None)
    BY DEF IInv, AskedSound
  <2>2. p.r \in Resv /\ p.first \in Resv \cup {None}
    BY DEF IInv, TypeOK
  <2>3. p.r # q.r /\ p.first # q.r
    BY <1>1
  <2>4. p.kind = "second" => p.first \notin {n.a, n.b}
    BY <2>1, <2>3, <1>2
  <2> QED
    BY <2>1, <2>2, <2>3, <2>4, <1>1
<1>5. BookingsApart'
  <2>1. \A x \in Bookings : /\ x.a # None /\ row'[x.a] # NoRow /\ (x.b # None => row'[x.b] # NoRow)
                            /\ x["a"] = x.a /\ x["b"] = x.b
    BY <1>1, BookingsAreWhole, NoneFacts
  <2>2. \A x, y \in Bookings : x.a # y.b /\ (x.a = y.a \/ (x.b = y.b /\ x.b # None) => x = y)
    BY DEF IInv, BookingsApart
  <2>3. \A x \in Bookings' : x.a # None /\ row'[x.a] # NoRow /\ (x.b # None => row'[x.b] # NoRow)
    BY <2>1, <1>3, NoneFacts
  <2>4. \A x, y \in Bookings' : x.a # y.b /\ (x.a = y.a \/ (x.b = y.b /\ x.b # None) => x = y)
    <3> SUFFICES ASSUME NEW x \in Bookings \cup {n}, NEW y \in Bookings \cup {n}
                 PROVE  x.a # y.b /\ (x.a = y.a \/ (x.b = y.b /\ x.b # None) => x = y)
      OBVIOUS
    <3>1. CASE x \in Bookings /\ y \in Bookings
      BY <3>1, <2>2
    <3>2. CASE x \in Bookings /\ y = n
      BY <3>2, <2>1, <1>3
    <3>3. CASE x = n /\ y \in Bookings
      BY <3>3, <2>1, <1>3
    <3>4. CASE x = n /\ y = n
      BY <3>4, <1>3
    <3> QED
      BY <3>1, <3>2, <3>3, <3>4
  <2>5. \A c \in confirms :
            row'[c.r] # NoRow /\ \A x \in Bookings', l \in Legs : x[l] = c.r => l = c.leg
    BY <1>1, <1>3 DEF IInv, BookingsApart, Legs
  <2> QED
    BY <2>3, <2>4, <2>5 DEF IInv, BookingsApart
<1> QED
  BY <1>3, <1>4, <1>5

(* A step of App that forgets some of its bookings, and makes none.        *)
LEMMA ForgettingStep ==
    ASSUME IInv, Render, UNCHANGED <<confirms, submits, row, job, late>>,
           session' \in Users \cup {None}, tab' \in {"rent", "share"},
           primary' \in BOOLEAN, reserving' \in BOOLEAN, asked' \subseteq asked,
           closing' \subseteq closing,
           pair' \in {pair, Nothing}, single' \in {single, None},
           OwnHeld'
    PROVE  IInv'
<1> DEFINE res == Shown(session', tab', pair', single')
<1>1. pair' \in Booking /\ single' \in Resv \cup {None}
  BY BookingFacts DEF IInv, TypeOK
<1>2. One(single') \in Booking /\ One(single').b = None
  BY <1>1, BookingFacts
<1>3. res \in {Nothing, pair', One(single')} /\ res \in Booking
  BY <1>1, <1>2, BookingFacts DEF Shown, One
<1>4. RowsStay /\ RowsAdvance
  BY RowsSame
<1> HIDE DEF res
<1>5. /\ view' \in ViewState \cup {None} /\ mounts' \in 0..MaxViews
      /\ polls' \subseteq polls /\ remounted' \subseteq Resv
      /\ Rendered' /\ ConfirmsSound' /\ SubmitsSound' /\ ReadStands' /\ JobReadStands'
      /\ PaidWillShow' /\ NeverAhead' /\ JobIsWatched' /\ ButtonWaitsForItsCall'
  <2>1. res = Shown(session', tab', pair', single')
    BY DEF res
  <2> QED
    BY <2>1, <1>3, <1>4, RenderStep
<1>6. TypeOK'
  BY <1>1, <1>5 DEF IInv, TypeOK
<1>7. Bookings' \subseteq Bookings
  <2>1. One(single') \in {One(single), Nothing}
    BY BookingFacts
  <2> QED
    BY <2>1, <1>5, RenderedScreen DEF Bookings
<1>8. RowsWhole' /\ AskedSound' /\ BookingsApart'
  <2>1. \A c \in confirms : c.leg \in Legs
    BY DEF IInv, TypeOK
  <2> QED
    BY <2>1, <1>4, <1>7, BookingsStay
<1>9. JobsPaid' /\ ServedOnce'
  BY <1>7, JobsStay
<1> QED
  BY <1>5, <1>6, <1>8, <1>9 DEF IInv

LEMMA LegsOnScreen ==
    ASSUME IInv, Render, pair' \in Booking, single' \in Resv \cup {None}
    PROVE  OnScreen' \subseteq OnScreen \cup {single', pair'.a, pair'.b}
<1>1. Screen' \subseteq Screen \cup {pair', One(single')}
  BY RenderedScreen
<1>2. \A x \in {pair', One(single')}, l \in Legs : x[l] \in {pair'.a, pair'.b, single', None}
  BY BookingFacts DEF Legs
<1>3. CASE view' = None
  BY <1>3 DEF OnScreen
<1>4. CASE view' # None
  <2>1. \/ view # None /\ view'.res = view.res
        \/ view'.res \in {pair', One(single')}
    BY <1>1, <1>4 DEF Screen
  <2>2. CASE view # None /\ view'.res = view.res
    BY <1>4, <2>2 DEF OnScreen
  <2>3. CASE view'.res \in {pair', One(single')}
    BY <1>2, <1>4, <2>3 DEF OnScreen
  <2> QED
    BY <2>1, <2>2, <2>3
<1> QED
  BY <1>3, <1>4

LEMMA NothingHeld ==
    ASSUME Render, single' = None, pair' = Nothing
    PROVE  OwnHeld'
<1>1. Shown(session', tab', pair', single') = Nothing
  BY DEF Shown, Nothing
<1>2. OnScreen' = {}
  BY <1>1 DEF Render, OnScreen
<1> QED
  BY <1>2, BookingFacts DEF OwnHeld

LEMMA SessionStep ==
    ASSUME IInv, (\E u \in Users : SignIn(u)) \/ SignOut \/ SwitchTab
    PROVE  IInv'
<1>1. ASSUME NEW u \in Users, SignIn(u) PROVE IInv'
  <2>1. /\ Render /\ session = None /\ session' = u
        /\ UNCHANGED <<tab, single, pair, primary, reserving, asked, confirms, submits, closing,
                       row, job, late>>
    BY <1>1 DEF SignIn, server
  <2>2. OwnHeld'
    BY <2>1, LegsOnScreen DEF IInv, TypeOK, OwnHeld
  <2> QED
    BY <2>1, <2>2, ForgettingStep DEF IInv, TypeOK
<1>2. CASE SignOut
  <2>1. /\ Render /\ session' = None /\ single' = None /\ pair' = Nothing /\ primary' = FALSE
        /\ UNCHANGED <<tab, reserving, asked, confirms, submits, closing, row, job, late>>
    BY <1>2 DEF SignOut, Forget, server
  <2>2. OwnHeld'
    BY <2>1, NothingHeld
  <2> QED
    BY <2>1, <2>2, ForgettingStep DEF IInv, TypeOK
<1>3. CASE SwitchTab
  <2>1. /\ Render /\ tab' \in {"rent", "share"}
        /\ UNCHANGED <<session, single, pair, primary, reserving, asked, confirms, submits, closing,
                       row, job, late>>
    BY <1>3 DEF SwitchTab, server
  <2>2. OwnHeld'
    BY <2>1, LegsOnScreen DEF IInv, TypeOK, OwnHeld
  <2> QED
    BY <2>1, <2>2, ForgettingStep DEF IInv, TypeOK
<1> QED
  BY <1>1, <1>2, <1>3

LEMMA UnauthorizedStep ==
    ASSUME IInv, NEW q \in asked, AnswerUnauthorized(q)
    PROVE  IInv'
<1>1. /\ Render /\ session' = None /\ single' = None /\ pair' = Nothing /\ primary' = FALSE
      /\ reserving' = FALSE /\ asked' \subseteq asked
      /\ UNCHANGED <<tab, confirms, submits, closing, row, job, late>>
  BY DEF AnswerUnauthorized, Forget, server
<1>2. OwnHeld'
  BY <1>1, NothingHeld
<1> QED
  BY <1>1, <1>2, ForgettingStep DEF IInv, TypeOK

LEMMA CloseStep ==
    ASSUME IInv, NEW kind \in {"one", "pair"}, Close(kind)
    PROVE  IInv'
<1>1. /\ Render /\ closing' \subseteq closing /\ primary' = FALSE
      /\ single' \in {single, None} /\ pair' \in {pair, Nothing}
      /\ UNCHANGED <<session, tab, reserving, asked, confirms, submits, row, job, late>>
  BY DEF Close, server
<1>2. pair' \in Booking /\ single' \in Resv \cup {None}
  BY <1>1, BookingFacts DEF IInv, TypeOK
<1>3. OwnHeld'
  BY <1>1, <1>2, LegsOnScreen, BookingFacts DEF IInv, OwnHeld
<1> QED
  BY <1>1, <1>3, ForgettingStep DEF IInv, TypeOK

(* An answer that makes a booking, whoever is signed in by then.           *)
LEMMA BookingStep ==
    ASSUME IInv, NEW q \in asked, q.by # None, Book(q), asked' = asked \ {q}, Render,
           UNCHANGED <<session, tab, confirms, submits, closing, job>>,
           primary' \in BOOLEAN, reserving' \in BOOLEAN,
           NEW n \in Booking,
           \/ q.kind # "second" /\ n.a = q.r /\ n.b = None
           \/ q.kind = "second" /\ n.a = q.first /\ n.b = q.r,
           single' \in Resv \cup {None}, pair' \in Booking,
           {pair', One(single')} \subseteq {pair, One(single), n},
           {single', pair'.a, pair'.b} \subseteq {single, pair.a, pair.b, n.a, n.b},
           late \subseteq late', late' \subseteq Resv,
           \A r \in {n.a, n.b} \ ({None} \cup late') :
               q.by = session /\ (r # q.r => row[r].owner = session)
    PROVE  IInv'
<1> DEFINE res == Shown(session', tab', pair', single')
<1>1. /\ q.r \in Resv /\ q.first \in Resv \cup {None}
      /\ row' \in [Resv -> [owner : Users \cup {None}, status : Statuses \cup {None},
                            with : Resv \cup {None}]]
      /\ row'[q.r].owner = q.by /\ row[q.r] = NoRow
      /\ \A r \in Resv : r # q.r => row'[r] = row[r]
      /\ RowsStay /\ RowsWhole'
      /\ \A r \in Resv : row[r].status \in Paid => row'[r].status = row[r].status
  BY BookFacts
<1>2. polls' \subseteq polls
  BY DEF Render
<1>3. Bookings' \subseteq Bookings \cup {n}
  BY <1>2, RenderedScreen DEF Bookings
<1>4. /\ AskedSound' /\ BookingsApart'
      /\ \A x \in Bookings' : \/ x \in Bookings
                              \/ job[x.a] = None /\ (x.b # None => job[x.b] = None)
  BY <1>3, NewBooking
<1>5. One(single') \in Booking /\ One(single').b = None /\ One(single).b = None
  BY BookingFacts DEF IInv, TypeOK
<1>6. res \in {Nothing, pair', One(single')} /\ res \in Booking
  BY <1>5, BookingFacts DEF Shown, One
<1> HIDE DEF res
<1>7. /\ view' \in ViewState \cup {None} /\ mounts' \in 0..MaxViews
      /\ polls' \subseteq polls /\ remounted' \subseteq Resv
      /\ Rendered' /\ ConfirmsSound' /\ SubmitsSound' /\ ReadStands' /\ JobReadStands'
      /\ PaidWillShow' /\ NeverAhead' /\ JobIsWatched' /\ ButtonWaitsForItsCall'
  <2>1. res = Shown(session', tab', pair', single')
    BY DEF res
  <2> QED
    BY <2>1, <1>1, <1>6, RenderStep
<1>8. TypeOK'
  BY <1>1, <1>7 DEF IInv, TypeOK
<1>9. OwnHeld'
  <2> SUFFICES ASSUME NEW r \in {single', pair'.a, pair'.b} \cup OnScreen, r # None, r \notin late'
               PROVE  session # None /\ row'[r].owner = session
    BY LegsOnScreen DEF OwnHeld
  <2>1. r \in Resv
    BY BookingFacts, OnScreenFacts
  <2>2. CASE r \in {n.a, n.b}
    BY <2>1, <2>2, <1>1
  <2>3. CASE r \in {single, pair.a, pair.b} \cup OnScreen
    <3>1. session # None /\ row[r].owner = session
      BY <2>3 DEF IInv, OwnHeld
    <3>2. r # q.r
      BY <3>1, <1>1 DEF NoRow
    <3> QED
      BY <2>1, <3>1, <3>2, <1>1
  <2> QED
    BY <2>2, <2>3
<1>10. JobsPaid' /\ ServedOnce'
  BY <1>1, <1>4, JobsStay
<1> QED
  BY <1>1, <1>4, <1>7, <1>8, <1>9, <1>10 DEF IInv

LEMMA OneStep ==
    ASSUME IInv, NEW q \in asked, AnswerOne(q)
    PROVE  IInv'
<1>1. /\ q.kind = "one" /\ Book(q) /\ asked' = asked \ {q} /\ Render
      /\ single' = q.r /\ reserving' = FALSE
      /\ late' = IF q.by = session THEN late ELSE late \cup {q.r}
      /\ UNCHANGED <<session, tab, pair, primary, confirms, submits, closing, job>>
  BY DEF AnswerOne
<1>2. q.by # None /\ q.r \in Resv
  BY <1>1 DEF IInv, AskedSound, TypeOK
<1>3. One(q.r) \in Booking /\ One(q.r).a = q.r /\ One(q.r).b = None
  BY <1>2, BookingFacts
<1>4. pair \in Booking /\ late \subseteq Resv /\ primary \in BOOLEAN
  BY DEF IInv, TypeOK
<1>5. late \subseteq late' /\ late' \subseteq Resv
  BY <1>1, <1>2, <1>4
<1>6. \A r \in {One(q.r).a, One(q.r).b} \ ({None} \cup late') :
          q.by = session /\ (r # q.r => row[r].owner = session)
  BY <1>1, <1>3
<1> QED
  BY <1>1, <1>2, <1>3, <1>4, <1>5, <1>6, BookingStep

LEMMA SecondStep ==
    ASSUME IInv, NEW q \in asked, AnswerSecond(q)
    PROVE  IInv'
<1> DEFINE n == [a |-> q.first, b |-> q.r]
<1>1. /\ q.kind = "second" /\ q.by # None /\ Book(q) /\ asked' = asked \ {q} /\ Render
      /\ pair' = n /\ reserving' = FALSE /\ primary' = FALSE
      /\ late' = IF q.by = session /\ row[q.first].owner = session THEN late
                 ELSE late \cup {q.first, q.r}
      /\ UNCHANGED <<session, tab, single, confirms, submits, closing, job>>
  BY DEF AnswerSecond
<1>2. q.r \in Resv /\ q.first \in Resv
  BY <1>1 DEF IInv, AskedSound, TypeOK
<1>3. n \in Booking /\ n.a = q.first /\ n.b = q.r
  BY <1>2, BookingFacts
<1> HIDE DEF n
<1>4. single \in Resv \cup {None} /\ late \subseteq Resv
  BY DEF IInv, TypeOK
<1>5. late \subseteq late' /\ late' \subseteq Resv
  BY <1>1, <1>2, <1>4
<1>6. \A r \in {n.a, n.b} \ ({None} \cup late') :
          q.by = session /\ (r # q.r => row[r].owner = session)
  BY <1>1, <1>3
<1>7. One(single') = One(single)
  BY <1>1
<1> QED
  BY <1>1, <1>2, <1>3, <1>4, <1>5, <1>6, <1>7, BookingStep
-----------------------------------------------------------------------------
(***************************************************************************)
(* Checkout: the calls that pay for a leg of a booking.                    *)
(***************************************************************************)

(* A step of the page that leaves App's bookings to it.                    *)
LEMMA PageStays ==
    ASSUME IInv, SameScreen, UNCHANGED <<app, history>>, RowsAdvance,
           \A s \in submits' \cup polls' :
              \/ \E t \in submits \cup polls : t.view = s.view /\ t.res = s.res
              \/ view # None /\ s.view = view.id /\ s.res \in {view.res, Given},
           \A c \in confirms' : /\ c.leg \in Legs
                                /\ \/ \E d \in confirms : d.r = c.r /\ d.leg = c.leg
                                   \/ view # None /\ c.r = view.res[c.leg] /\ c.r # None
    PROVE  /\ RowsWhole' /\ AskedSound' /\ BookingsApart' /\ Rendered' /\ OwnHeld' /\ SubmitsSound'
           /\ Bookings' \subseteq Bookings
<1>1. UNCHANGED <<session, tab, single, pair, primary, reserving, asked, late, remounted>>
  BY DEF app, history
<1>2. Bookings' \subseteq Bookings
  <2>1. \A s \in submits' \cup polls' : s.res = Nothing \/ s.res \in Bookings
    BY OnScreenIsBooked DEF Bookings
  <2>2. Screen' = Screen
    BY DEF Screen, SameScreen
  <2> QED
    BY <1>1, <2>1, <2>2 DEF Bookings, One
<1>3. RowsWhole' /\ AskedSound' /\ BookingsApart'
  BY <1>1, <1>2, BookingsStay
<1>4. Rendered' /\ OwnHeld'
  <2>1. \A r \in Resv : row[r] # NoRow => row'[r].owner = row[r].owner
    BY DEF RowsAdvance
  <2> QED
    BY <1>1, <2>1, AppStays DEF SameApp
<1>5. SubmitsSound'
  BY SubmissionsStay
<1> QED
  BY <1>2, <1>3, <1>4, <1>5

(* A call comes or goes on, and tells the view nothing.                    *)
LEMMA CallsStep ==
    ASSUME IInv, SameView, UNCHANGED <<app, submits, polls, row, job, history>>, TypeOK',
           ConfirmsSound', ButtonWaitsForItsCall',
           \A c \in confirms : c.stage = "paid" /\ Current(c.view) => c \in confirms',
           \A c \in confirms' : /\ c.leg \in Legs
                                /\ \/ \E d \in confirms : d.r = c.r /\ d.leg = c.leg
                                   \/ view # None /\ c.r = view.res[c.leg] /\ c.r # None
    PROVE  IInv'
<1>1. RowsStay /\ RowsAdvance
  BY RowsSame
<1>2. remounted' = remounted
  BY DEF history
<1>3. /\ RowsWhole' /\ AskedSound' /\ BookingsApart' /\ Rendered' /\ OwnHeld' /\ SubmitsSound'
      /\ Bookings' \subseteq Bookings
  <2>1. SameScreen
    BY SameViewScreen
  <2>2. \A s \in submits' \cup polls' : \E t \in submits \cup polls : t.view = s.view /\ t.res = s.res
    OBVIOUS
  <2> QED
    BY <1>1, <2>1, <2>2, PageStays
<1>4. JobsPaid' /\ ServedOnce'
  BY <1>3, JobsStay
<1>5. ReadStands' /\ PaidWillShow' /\ NeverAhead' /\ JobIsWatched'
  BY <1>1, <1>2, ClaimsStay
<1>6. JobReadStands'
  BY <1>1, JobReadStays
<1> QED
  BY <1>3, <1>4, <1>5, <1>6 DEF IInv

Confirmation == [view : 1..MaxViews, leg : Legs, r : Resv,
                 stage : {"sent", "checkout", "open", "paid", "refused"}]

LEMMA ConfirmStep ==
    ASSUME IInv, NEW l \in Legs, Confirm(l)
    PROVE  IInv'
<1>1. /\ view # None /\ view.res[l] # None /\ l \notin view.busy
      /\ view' = [view EXCEPT !.busy = @ \cup {l}]
      /\ confirms' = confirms \cup {[view |-> view.id, leg |-> l, r |-> view.res[l],
                                     stage |-> IF Mine(view.res[l]) THEN "sent" ELSE "refused"]}
      /\ UNCHANGED <<app, mounts, submits, polls, closing, row, job, history>>
  BY DEF Confirm, NotBusy, server
<1>2. view \in ViewState /\ view.id = mounts /\ view.id \in 1..MaxViews /\ view.res[l] \in Resv
  BY <1>1, OnScreenRows DEF IInv, TypeOK, Rendered, ViewState
<1>3. PICK n \in Confirmation : /\ n.view = view.id /\ n.leg = l /\ n.r = view.res[l]
                                /\ n.stage \in {"sent", "refused"}
                                /\ confirms' = confirms \cup {n}
  <2> DEFINE new == [view |-> view.id, leg |-> l, r |-> view.res[l],
                     stage |-> IF Mine(view.res[l]) THEN "sent" ELSE "refused"]
  <2>1. /\ new \in Confirmation /\ new.view = view.id /\ new.leg = l /\ new.r = view.res[l]
        /\ new.stage \in {"sent", "refused"}
    BY <1>2 DEF Confirmation
  <2>2. confirms' = confirms \cup {new}
    BY <1>1
  <2> HIDE DEF new
  <2> QED
    BY <2>1, <2>2
<1>4. /\ view' \in ViewState /\ view'.id = view.id /\ view'.res = view.res
      /\ view'.busy = view.busy \cup {l} /\ SameView
  <2>1. /\ view' \in ViewState /\ view'.busy = view.busy \cup {l}
        /\ view'.id = view.id /\ view'.res = view.res /\ view'.st = view.st
        /\ view'.read = view.read /\ view'.hydrating = view.hydrating
        /\ view'.job = view.job /\ view'.final = view.final /\ view'.odd = view.odd
    BY <1>1, <1>2 DEF ViewState
  <2> QED
    BY <1>1, <2>1, NoneFacts DEF SameView
<1>5. TypeOK'
  <2>1. confirms' \subseteq Confirmation
    BY <1>1, <1>3 DEF IInv, TypeOK, Confirmation
  <2>2. UNCHANGED <<session, tab, single, pair, primary, reserving, asked, mounts, submits, polls,
                    closing, row, job, late, remounted>>
    BY <1>1 DEF app, history
  <2> QED
    BY <1>4, <2>1, <2>2 DEF IInv, TypeOK, Confirmation
<1>6. /\ UNCHANGED <<mounts, row, remounted>> /\ mounts \in Nat
      /\ Current(n.view)' /\ n.view = mounts
  <2>1. mounts \in 0..MaxViews
    BY DEF IInv, TypeOK
  <2> QED
    BY <1>1, <1>2, <1>3, <1>4, <2>1, BoundFacts, NoneFacts DEF Current, history
<1>7. \A c \in confirms : c.view = n.view /\ c.leg = n.leg => ~Waits(c)
  BY <1>1, <1>3 DEF IInv, ButtonWaitsForItsCall
<1>8. ConfirmsSound'
  <2>1. \A c \in confirms : /\ c.view <= mounts
                            /\ IF Current(c.view)'
                               THEN c.r = view'.res[c.leg] \/ "reused" \in view'.odd
                               ELSE c.r \in remounted
                            /\ c.stage = "paid" => row[c.r].status \in Paid
    BY <1>1, <1>4 DEF IInv, ConfirmsSound, Current, SameView
  <2>2. n.view <= mounts /\ n.r = view'.res[n.leg] /\ n.stage # "paid"
    BY <1>3, <1>4, <1>6
  <2>3. \A c, d \in confirms' : c.view = d.view /\ c.leg = d.leg /\ Waits(c) /\ Waits(d) => c = d
    <3>1. \A c, d \in confirms : c.view = d.view /\ c.leg = d.leg /\ Waits(c) /\ Waits(d) => c = d
      BY DEF IInv, ConfirmsSound
    <3> QED
      BY <1>3, <1>7, <3>1
  <2> QED
    BY <1>3, <1>6, <2>1, <2>2, <2>3 DEF ConfirmsSound
<1>9. ButtonWaitsForItsCall'
  <2>1. Waits(n)
    BY <1>3 DEF Waits
  <2> QED
    BY <1>1, <1>3, <1>4, <2>1 DEF IInv, ButtonWaitsForItsCall
<1>10. \A c \in confirms' : /\ c.leg \in Legs
                           /\ \/ \E d \in confirms : d.r = c.r /\ d.leg = c.leg
                              \/ view # None /\ c.r = view.res[c.leg] /\ c.r # None
  <2>1. \A c \in confirms : c.leg \in Legs
    BY DEF IInv, TypeOK
  <2> QED
    BY <1>1, <1>3, <2>1
<1> QED
  BY <1>1, <1>4, <1>5, <1>8, <1>9, <1>10, CallsStep

(* A confirmation that goes on keeps its view, its leg and its reservation.*)
LEMMA ToFacts ==
    ASSUME IInv, NEW c \in confirms, NEW stage \in {"checkout", "open", "paid", "refused"}, To(c, stage)
    PROVE  \E n \in Confirmation :
              /\ n.view = c.view /\ n.leg = c.leg /\ n.r = c.r /\ n.stage = stage
              /\ confirms' = (confirms \ {c}) \cup {n}
<1> DEFINE n == [c EXCEPT !.stage = stage]
<1>1. c \in Confirmation
  BY DEF IInv, TypeOK, Confirmation
<1>2. n \in Confirmation /\ n.view = c.view /\ n.leg = c.leg /\ n.r = c.r /\ n.stage = stage
  BY <1>1 DEF Confirmation
<1>3. confirms' = (confirms \ {c}) \cup {n}
  BY DEF To
<1> HIDE DEF n
<1> QED
  BY <1>2, <1>3

(* What is true of the calls when one goes on: its button goes on waiting; *)
(* it is given back when the call has ended or left its Checkout.          *)
LEMMA ConfirmsGoOn ==
    ASSUME IInv, SameScreen, UNCHANGED remounted,
           NEW c \in confirms, confirms \ {c} \subseteq confirms',
           \A d \in confirms' : d \in confirms \ {c} \/
              /\ d \in Confirmation /\ d.view = c.view /\ d.leg = c.leg /\ d.r = c.r
              /\ d.stage = "paid" => row'[d.r].status \in Paid
              /\ Waits(d) => Waits(c),
           \A d, e \in confirms' : ~(d \in confirms \ {c}) /\ ~(e \in confirms \ {c}) => d = e,
           view # None => view'.busy =
              IF /\ c.view = view.id /\ Waits(c)
                 /\ \A d \in confirms' : Waits(d) => d \in confirms \ {c}
              THEN view.busy \ {c.leg} ELSE view.busy,
           \A r \in Resv : row[r].status \in Paid => row'[r].status \in Paid
    PROVE  ConfirmsSound' /\ ButtonWaitsForItsCall'
<1>1. ASSUME NEW d \in confirms
      PROVE  /\ d.view <= mounts'
             /\ IF Current(d.view)'
                THEN d.r = view'.res[d.leg] \/ "reused" \in view'.odd
                ELSE d.r \in remounted'
             /\ d.stage = "paid" => row'[d.r].status \in Paid
  <2>1. d.r \in Resv
    BY DEF IInv, TypeOK
  <2> QED
    BY <2>1 DEF IInv, ConfirmsSound, SameScreen, Current
<1>2. ASSUME NEW d \in confirms'
      PROVE  /\ d.view <= mounts'
             /\ IF Current(d.view)'
                THEN d.r = view'.res[d.leg] \/ "reused" \in view'.odd
                ELSE d.r \in remounted'
             /\ d.stage = "paid" => row'[d.r].status \in Paid
  BY <1>1 DEF Current
<1>3. \A d, e \in confirms : d.view = e.view /\ d.leg = e.leg /\ Waits(d) /\ Waits(e) => d = e
  BY DEF IInv, ConfirmsSound
<1>4. \A d, e \in confirms' : d.view = e.view /\ d.leg = e.leg /\ Waits(d) /\ Waits(e) => d = e
  <2> SUFFICES ASSUME NEW d \in confirms', NEW e \in confirms',
                      d.view = e.view, d.leg = e.leg, Waits(d), Waits(e)
               PROVE  d = e
    OBVIOUS
  <2>1. CASE d \in confirms \ {c} /\ e \in confirms \ {c}
    BY <2>1, <1>3
  <2>2. CASE d \in confirms \ {c} /\ ~(e \in confirms \ {c})
    BY <2>2, <1>3
  <2>3. CASE ~(d \in confirms \ {c}) /\ e \in confirms \ {c}
    BY <2>3, <1>3
  <2>4. CASE ~(d \in confirms \ {c}) /\ ~(e \in confirms \ {c})
    BY <2>4
  <2> QED
    BY <2>1, <2>2, <2>3, <2>4
<1>5. ConfirmsSound'
  BY <1>2, <1>4 DEF ConfirmsSound
<1>6. ButtonWaitsForItsCall'
  <2> DEFINE ends == /\ c.view = view.id /\ Waits(c)
                     /\ \A d \in confirms' : Waits(d) => d \in confirms \ {c}
             out(S, l) == \E d \in S : d.view = view.id /\ d.leg = l /\ Waits(d)
  <2> SUFFICES ASSUME view # None, NEW l \in Legs
               PROVE  l \in view'.busy <=> out(confirms', l)
    BY DEF ButtonWaitsForItsCall, SameScreen
  <2>1. /\ view'.busy = IF ends THEN view.busy \ {c.leg} ELSE view.busy
        /\ l \in view.busy <=> out(confirms, l)
    BY DEF IInv, ButtonWaitsForItsCall
  <2>2. CASE ends
    <3>1. CASE l = c.leg
      BY <2>1, <2>2, <3>1, <1>3
    <3>2. CASE l # c.leg
      BY <2>1, <2>2, <3>2
    <3> QED
      BY <3>1, <3>2
  <2>3. CASE ~ends
    <3>1. out(confirms', l) => out(confirms, l)
      OBVIOUS
    <3>2. out(confirms, l) => out(confirms', l)
      BY <2>3
    <3> QED
      BY <2>1, <2>3, <3>1, <3>2
  <2> QED
    BY <2>2, <2>3
<1> QED
  BY <1>5, <1>6

LEMMA ToStep ==
    ASSUME IInv, NEW c \in confirms, NEW stage \in {"checkout", "refused"},
           c.stage \notin {"open", "paid"}, To(c, stage),
           UNCHANGED <<app, view, mounts, submits, polls, closing, row, job, history>>
    PROVE  IInv'
<1>1. PICK n \in Confirmation :
              /\ n.view = c.view /\ n.leg = c.leg /\ n.r = c.r /\ n.stage = stage
              /\ confirms' = (confirms \ {c}) \cup {n}
  BY ToFacts
<1>2. SameView
  BY SameViewHolds
<1>3. TypeOK'
  <2>1. confirms' \subseteq Confirmation
    BY <1>1 DEF IInv, TypeOK, Confirmation
  <2>2. UNCHANGED <<session, tab, single, pair, primary, reserving, asked, mounts, late, remounted>>
    BY DEF app, history
  <2> QED
    BY <2>1, <2>2 DEF IInv, TypeOK, Confirmation
<1>4. ConfirmsSound' /\ ButtonWaitsForItsCall'
  <2>1. remounted' = remounted /\ SameScreen
    BY <1>2, SameViewScreen DEF history
  <2>2. Waits(c) /\ Waits(n) /\ n \notin confirms \ {c}
    <3>1. Waits(c) /\ Waits(n)
      BY <1>1 DEF Waits
    <3> QED
      BY <1>1, <3>1 DEF IInv, ConfirmsSound
  <2>3. /\ confirms \ {c} \subseteq confirms'
        /\ \A d \in confirms' : d \in confirms \ {c} \/
              /\ d \in Confirmation /\ d.view = c.view /\ d.leg = c.leg /\ d.r = c.r
              /\ d.stage # "paid" /\ (Waits(d) => Waits(c))
        /\ \A d, e \in confirms' : ~(d \in confirms \ {c}) /\ ~(e \in confirms \ {c}) => d = e
        /\ ~\A d \in confirms' : Waits(d) => d \in confirms \ {c}
    BY <1>1, <2>2
  <2> QED
    BY <2>1, <2>3, ConfirmsGoOn
<1>5. \A d \in confirms : d.leg \in Legs
  BY DEF IInv, TypeOK
<1>6. \A d \in confirms' : /\ d.leg \in Legs
                           /\ \/ \E e \in confirms : e.r = d.r /\ e.leg = d.leg
                              \/ view # None /\ d.r = view.res[d.leg] /\ d.r # None
  BY <1>1, <1>5
<1>7. \A d \in confirms : d.stage = "paid" /\ Current(d.view) => d \in confirms'
  BY <1>1
<1> QED
  BY <1>2, <1>3, <1>4, <1>6, <1>7, CallsStep

(* An open Checkout is closed: its view had been told before.              *)
LEMMA ClosedStep ==
    ASSUME IInv, NEW c \in confirms, c.stage = "open", confirms' = confirms \ {c},
           UNCHANGED <<app, view, mounts, submits, polls, closing, row, job, history>>
    PROVE  IInv'
<1>1. SameView
  BY SameViewHolds
<1>2. TypeOK'
  BY DEF IInv, TypeOK, app, history
<1>3. ConfirmsSound' /\ ButtonWaitsForItsCall'
  <2>1. remounted' = remounted /\ SameScreen /\ ~Waits(c)
    BY <1>1, SameViewScreen DEF history, Waits
  <2> QED
    BY <2>1, ConfirmsGoOn
<1>4. \A d \in confirms : d.leg \in Legs
  BY DEF IInv, TypeOK
<1>5. \A d \in confirms : d.stage = "paid" /\ Current(d.view) => d \in confirms'
  OBVIOUS
<1> QED
  BY <1>1, <1>2, <1>3, <1>4, <1>5, CallsStep

LEMMA ServedStep ==
    ASSUME IInv, NEW c \in confirms, ConfirmServed(c) \/ CheckoutDismissed(c)
    PROVE  IInv'
<1>1. \/ \E stage \in {"checkout", "refused"} : c.stage \notin {"open", "paid"} /\ To(c, stage)
      \/ c.stage = "open" /\ confirms' = confirms \ {c}
  BY DEF ConfirmServed, CheckoutDismissed
<1>2. UNCHANGED <<app, view, mounts, submits, polls, closing, row, job, history>>
  BY DEF ConfirmServed, CheckoutDismissed, server
<1> QED
  BY <1>1, <1>2, ToStep, ClosedStep

(* A mark on the view is all that changes of it.                           *)
LEMMA MarkFacts ==
    ASSUME IInv, NEW what \in {"reused", "skewed", "raced"}, NEW when \in BOOLEAN, Mark(what, when),
           UNCHANGED mounts
    PROVE  /\ SameView
           /\ view # None => view'.busy = view.busy /\ view'.submitting = view.submitting
           /\ view' \in ViewState \cup {None}
           /\ view # None /\ when => what \in view'.odd
<1>1. CASE view # None /\ when
  <2>1. view \in ViewState /\ view' = [view EXCEPT !.odd = @ \cup {what}]
    BY <1>1 DEF Mark, IInv, TypeOK
  <2>2. /\ view' \in ViewState /\ view'.busy = view.busy /\ view'.submitting = view.submitting
        /\ view'.id = view.id /\ view'.res = view.res /\ view'.st = view.st
        /\ view'.read = view.read /\ view'.hydrating = view.hydrating
        /\ view'.job = view.job /\ view'.final = view.final
        /\ view'.odd = view.odd \cup {what}
    BY <2>1 DEF ViewState
  <2> QED
    BY <1>1, <2>2, NoneFacts DEF SameView
<1>2. CASE ~(view # None /\ when)
  <2>1. view' = view
    BY <1>2 DEF Mark
  <2> QED
    BY <1>2, <2>1, SameViewHolds DEF IInv, TypeOK
<1> QED
  BY <1>1, <1>2

(* The server hears of a payment.  A view that has asked it meanwhile, or  *)
(* that does not hear of it, is marked; any other has a paid call.         *)
LEMMA PaidStep ==
    ASSUME IInv, NEW c \in confirms, CheckoutPaid(c) \/ PaidLate(c)
    PROVE  IInv'
<1> DEFINE shown == \E l \in Legs : Asks(c.r, l)
           read == \E l \in Legs : Asks(c.r, l) /\ view.read[l] # None
<1>1. /\ c.stage \in {"checkout", "open"} /\ row[c.r].status = "held"
      /\ row' = [row EXCEPT ![c.r].status = "confirmed"]
      /\ UNCHANGED <<app, mounts, submits, polls, closing, job, history>>
  BY DEF CheckoutPaid, PaidLate
<1>2. PICK stage \in {"paid", "refused", "open"}, when \in BOOLEAN :
         /\ IF stage = "open" THEN c.stage = "open" /\ confirms' = confirms \ {c}
                              ELSE c.stage = "checkout" /\ To(c, stage)
         /\ Mark("raced", when)
         /\ when = IF stage = "paid" THEN read ELSE IsPair(view.res) /\ shown
  <2>1. read \in BOOLEAN /\ (IsPair(view.res) /\ shown) \in BOOLEAN
    BY DEF IsPair
  <2>2. CASE CheckoutPaid(c)
    BY <2>1, <2>2 DEF CheckoutPaid
  <2>3. CASE PaidLate(c)
    BY <2>1, <2>3 DEF PaidLate
  <2> QED
    BY <2>2, <2>3
<1>3. /\ confirms \ {c} \subseteq confirms'
      /\ \A d \in confirms' : d \in confirms \ {c} \/
            /\ d \in Confirmation /\ d.view = c.view /\ d.leg = c.leg /\ d.r = c.r
            /\ stage # "open" /\ d.stage = stage
      /\ \A d, e \in confirms' : ~(d \in confirms \ {c}) /\ ~(e \in confirms \ {c}) => d = e
      /\ stage # "open" => \E n \in confirms' : /\ n.view = c.view /\ n.leg = c.leg
                                                /\ n.r = c.r /\ n.stage = stage
  <2>1. CASE stage = "open"
    BY <2>1, <1>2
  <2>2. CASE stage # "open"
    <3>1. PICK n \in Confirmation :
                  /\ n.view = c.view /\ n.leg = c.leg /\ n.r = c.r /\ n.stage = stage
                  /\ confirms' = (confirms \ {c}) \cup {n}
      BY <2>2, <1>2, ToFacts
    <3> QED
      BY <2>2, <3>1
  <2> QED
    BY <2>1, <2>2
<1>4. /\ SameView /\ (view # None => view'.busy = view.busy) /\ view' \in ViewState \cup {None}
      /\ view # None /\ when => "raced" \in view'.odd
  BY <1>1, <1>2, MarkFacts
<1>5. /\ c.r \in Resv /\ row'[c.r].status = "confirmed" /\ row'[c.r].owner = row[c.r].owner
      /\ \A r \in Resv : r # c.r => row'[r] = row[r]
      /\ row' \in [Resv -> [owner : Users \cup {None}, status : Statuses \cup {None},
                            with : Resv \cup {None}]]
  <2>1. c.r \in Resv
    BY DEF IInv, TypeOK
  <2>2. row \in [Resv -> [owner : Users \cup {None}, status : Statuses \cup {None},
                          with : Resv \cup {None}]]
    BY DEF IInv, TypeOK
  <2> QED
    BY <1>1, <2>1, <2>2 DEF Statuses
<1>6. RowsAdvance
  <2>1. row[c.r] # NoRow /\ row'[c.r] # NoRow
    BY <1>1, <1>5, NoneFacts DEF NoRow, Statuses
  <2> QED
    BY <1>1, <1>5, <2>1 DEF IInv, RowsWhole, RowsAdvance, Paid, Unpaid, Statuses
<1>7. /\ \A r \in Resv : row[r].status \in Paid => row'[r].status = row[r].status
      /\ \A r \in Resv : row[r].status = "over" => row'[r].status = "over"
  BY <1>1, <1>5 DEF Paid
<1>8. UNCHANGED <<session, tab, single, pair, primary, reserving, asked, late, remounted>>
  BY <1>1 DEF app, history
<1>9. TypeOK'
  <2>1. confirms' \subseteq Confirmation
    BY <1>3 DEF IInv, TypeOK, Confirmation
  <2> QED
    BY <1>1, <1>4, <1>5, <1>8, <2>1 DEF IInv, TypeOK, Confirmation
<1>10. ConfirmsSound' /\ ButtonWaitsForItsCall'
  <2>1. SameScreen
    BY <1>4, SameViewScreen
  <2>2. \A d \in confirms' : d \in confirms \ {c} \/
           /\ d.stage = "paid" => row'[d.r].status \in Paid
           /\ Waits(d) /\ Waits(c)
    BY <1>2, <1>3, <1>5 DEF Paid, Waits
  <2>3. ~(/\ Waits(c) /\ \A d \in confirms' : Waits(d) => d \in confirms \ {c})
    <3> SUFFICES ASSUME Waits(c), \A d \in confirms' : Waits(d) => d \in confirms \ {c}
                 PROVE  FALSE
      OBVIOUS
    <3>1. PICK n \in confirms' : n.view = c.view /\ n.leg = c.leg /\ Waits(n)
      BY <1>2, <1>3 DEF Waits
    <3> QED
      BY <3>1 DEF IInv, ConfirmsSound
  <2> QED
    BY <1>3, <1>4, <1>7, <1>8, <2>1, <2>2, <2>3, ConfirmsGoOn
<1>11. /\ RowsWhole' /\ AskedSound' /\ BookingsApart' /\ Rendered' /\ OwnHeld' /\ SubmitsSound'
       /\ Bookings' \subseteq Bookings
  <2>1. SameScreen
    BY <1>4, SameViewScreen
  <2>2. \A s \in submits' \cup polls' : \E t \in submits \cup polls : t.view = s.view /\ t.res = s.res
    BY <1>1
  <2>3. \A d \in confirms : d.leg \in Legs
    BY DEF IInv, TypeOK
  <2>4. \A d \in confirms' : d.leg \in Legs /\ \E e \in confirms : e.r = d.r /\ e.leg = d.leg
    BY <1>3, <2>3
  <2> QED
    BY <1>1, <1>6, <2>1, <2>2, <2>4, PageStays
<1>12. JobsPaid' /\ ServedOnce'
  BY <1>1, <1>7, <1>11, JobsStay
<1>13. CASE view = None
  <2>1. view' = None
    BY <1>4, <1>13 DEF SameView
  <2>2. ReadStands' /\ JobReadStands' /\ PaidWillShow' /\ NeverAhead' /\ JobIsWatched'
    BY <2>1 DEF ReadStands, JobReadStands, PaidWillShow, NeverAhead, JobIsWatched
  <2> QED
    BY <1>9, <1>10, <1>11, <1>12, <2>2 DEF IInv
<1>14. CASE view # None
  <2>1. /\ view.res.a \in Resv
        /\ \A l \in Legs : view.res[l] # None => view.res[l] \in Resv
        /\ IsPair(view.res) => \A l \in Legs : view.res[l] # None
    BY <1>14, OnScreenRows
  <2>2. /\ view' # None /\ view'.id = view.id /\ view'.res = view.res /\ view'.st = view.st
        /\ view'.read = view.read /\ view'.hydrating = view.hydrating
        /\ view'.job = view.job /\ view'.final = view.final /\ view.odd \subseteq view'.odd
    BY <1>4, <1>14 DEF SameView
  <2>3. \A l \in Legs : view.read[l] # None => IsPair(view.res)
    BY <1>14 DEF IInv, Rendered
  <2>4. ReadStands'
    <3> SUFFICES ASSUME "reused" \notin view'.odd, NEW l \in Legs, view.read[l] # None
                 PROVE  /\ view.read[l].status = "held" /\ "raced" \notin view'.odd =>
                              row'[view.res[l]].status \in Unpaid
                        /\ view.read[l].status = "confirmed" =>
                              row'[view.res[l]].status \in Paid
      BY <2>2 DEF ReadStands
    <3>1. view.res[l] \in Resv
      BY <2>1, <2>3
    <3>2. view.res[l] = c.r => "raced" \in view'.odd
      <4> SUFFICES ASSUME view.res[l] = c.r PROVE "raced" \in view'.odd
        OBVIOUS
      <4>1. Asks(c.r, l)
        BY <1>14, <2>2, OnScreenIsBooked DEF Asks
      <4> QED
        BY <1>2, <1>4, <1>14, <2>3, <4>1
    <3>3. /\ view.read[l].status = "held" /\ "raced" \notin view.odd =>
                row[view.res[l]].status \in Unpaid
          /\ view.read[l].status = "confirmed" => row[view.res[l]].status \in Paid
      BY <1>14, <2>2 DEF IInv, ReadStands
    <3> QED
      BY <2>2, <3>1, <3>2, <3>3, <1>5, <1>7
  <2>5. JobReadStands'
    BY <1>1, <1>7, <1>14, <2>1, <2>2 DEF IInv, JobReadStands
  <2>6. PaidWillShow'
    <3> SUFFICES ASSUME IsPair(view.res), ~view.hydrating,
                        view'.odd \cap {"raced", "reused"} = {}, NEW l \in Legs,
                        view.st[l] = "held", view.res[l] \notin remounted,
                        \A d \in confirms' : Current(d.view) /\ d.leg = l => d.stage # "paid"
                 PROVE  row'[view.res[l]].status \in Unpaid
      BY <1>8, <1>14, <2>2 DEF PaidWillShow, IsPair, Current
    <3>1. view.res[l] \in Resv
      BY <2>1
    <3>2. view.res[l] # c.r
      <4> SUFFICES ASSUME view.res[l] = c.r PROVE FALSE
        OBVIOUS
      <4>1. stage = "paid"
        <5>1. Asks(c.r, l)
          BY <1>14, <2>2, OnScreenIsBooked DEF Asks
        <5> QED
          BY <1>2, <1>4, <1>14, <5>1
      <4>2. Current(c.view)
        BY DEF IInv, ConfirmsSound
      <4>3. c.leg = l
        BY <1>14, OnScreenIsBooked DEF IInv, BookingsApart
      <4> QED
        BY <1>3, <4>1, <4>2, <4>3
    <3>3. \A d \in confirms : Current(d.view) /\ d.leg = l => d.stage # "paid"
      BY <1>1, <1>3
    <3>4. row[view.res[l]].status \in Unpaid
      BY <1>14, <2>2, <3>3 DEF IInv, PaidWillShow
    <3> QED
      BY <1>5, <3>1, <3>2, <3>4
  <2>7. NeverAhead'
    <3>1. ASSUME "reused" \notin view'.odd, NEW l \in Legs, view.res[l] # None, view.st[l] = "confirmed"
          PROVE  row'[view.res[l]].status \in {"confirmed", "running", "over"}
      BY <1>7, <1>14, <2>1, <2>2, <3>1 DEF IInv, NeverAhead, Paid
    <3>2. ASSUME "reused" \notin view'.odd, view.final # Nothing, "skewed" \notin view'.odd
          PROVE  row'[view.res.a].status = "over"
      BY <1>7, <1>14, <2>1, <2>2, <3>2 DEF IInv, NeverAhead
    <3> QED
      BY <2>2, <3>1, <3>2 DEF NeverAhead, Nothing
  <2>8. JobIsWatched'
    BY <1>1, <1>14, <2>2 DEF IInv, JobIsWatched, IsPair, Nothing
  <2> QED
    BY <1>9, <1>10, <1>11, <1>12, <2>4, <2>5, <2>6, <2>7, <2>8 DEF IInv
<1> QED
  BY <1>13, <1>14

(* The end of a call, or a failed payment, gives the button of its leg     *)
(* back; an answer that it is paid is shown.                               *)
LEMMA AnsweredStep ==
    ASSUME IInv, NEW c \in confirms, ConfirmAnswered(c) \/ PaymentFails(c)
    PROVE  IInv'
<1>1. /\ c.stage \in {"checkout", "paid", "refused"} /\ confirms \ {c} \subseteq confirms'
      /\ \A d \in confirms' : d \in confirms \ {c} \/
            /\ d \in Confirmation /\ d.view = c.view /\ d.leg = c.leg /\ d.r = c.r
            /\ d.stage = "open"
      /\ \A d, e \in confirms' : ~(d \in confirms \ {c}) /\ ~(e \in confirms \ {c}) => d = e
      /\ UNCHANGED <<app, mounts, submits, polls, closing, row, job, history>>
  <2>1. CASE ConfirmAnswered(c)
    BY <2>1 DEF ConfirmAnswered, server
  <2>2. CASE PaymentFails(c)
    <3>1. PICK n \in Confirmation :
                  /\ n.view = c.view /\ n.leg = c.leg /\ n.r = c.r /\ n.stage = "open"
                  /\ confirms' = (confirms \ {c}) \cup {n}
      BY <2>2, ToFacts DEF PaymentFails
    <3> QED
      BY <2>2, <3>1 DEF PaymentFails, server
  <2> QED
    BY <2>1, <2>2
<1>2. c.leg \in Legs /\ c.r \in Resv /\ c.view \in 1..MaxViews
  BY DEF IInv, TypeOK
<1>3. UNCHANGED <<session, tab, single, pair, primary, reserving, asked, late, remounted>>
  BY <1>1 DEF app, history
<1>4. confirms' \subseteq Confirmation
      /\ \A d \in confirms' : d.leg \in Legs /\ \E e \in confirms : e.r = d.r /\ e.leg = d.leg
  <2>1. \A d \in confirms : d \in Confirmation /\ d.leg \in Legs
    BY DEF IInv, TypeOK, Confirmation
  <2> QED
    BY <1>1, <1>2, <2>1
<1>5. RowsStay /\ RowsAdvance
  BY <1>1, RowsSame
<1>6. CASE ~Current(c.view)
  <2>1. view' = view
    BY <1>6 DEF ConfirmAnswered, PaymentFails, Update, Current
  <2>2. SameView
    BY <1>1, <2>1, SameViewHolds
  <2>3. TypeOK'
    BY <1>1, <1>3, <1>4, <2>1 DEF IInv, TypeOK, Confirmation
  <2>4. ConfirmsSound' /\ ButtonWaitsForItsCall'
    <3>1. SameScreen /\ (view # None => c.view # view.id)
      BY <1>6, <2>2, SameViewScreen DEF Current
    <3>2. \A d \in confirms' : d \in confirms \ {c} \/ (d.stage # "paid" /\ ~Waits(d))
      BY <1>1 DEF Waits
    <3> QED
      BY <1>1, <1>3, <2>1, <3>1, <3>2, ConfirmsGoOn
  <2>5. \A d \in confirms : d.stage = "paid" /\ Current(d.view) => d \in confirms'
    BY <1>1, <1>6
  <2> QED
    BY <1>1, <1>4, <2>2, <2>3, <2>4, <2>5, CallsStep
<1>7. CASE Current(c.view)
  <2>1. view # None /\ view.id = c.view /\ view \in ViewState
    BY <1>7, OnScreenIsBooked DEF Current
  <2>2. view' = [view EXCEPT !.busy = @ \ {c.leg},
                 !.st = IF c.stage = "paid" THEN [@ EXCEPT ![c.leg] = "confirmed"] ELSE @]
    <3>1. CASE ConfirmAnswered(c)
      BY <2>1, <3>1 DEF ConfirmAnswered, Update
    <3>2. CASE PaymentFails(c)
      <4>1. c.stage # "paid" /\ view' = [view EXCEPT !.busy = @ \ {c.leg}]
        BY <2>1, <3>2 DEF PaymentFails, Update
      <4> QED
        BY <2>1, <4>1 DEF ViewState
    <3> QED
      BY <3>1, <3>2
  <2>3. /\ view' \in ViewState /\ view'.busy = view.busy \ {c.leg}
        /\ view'.id = view.id /\ view'.res = view.res
        /\ view'.read = view.read /\ view'.hydrating = view.hydrating
        /\ view'.job = view.job /\ view'.final = view.final /\ view'.odd = view.odd
        /\ view'.st = IF c.stage = "paid" THEN [view.st EXCEPT ![c.leg] = "confirmed"] ELSE view.st
    <3>1. view.st \in [Legs -> Statuses \cup {None}] /\ "confirmed" \in Statuses
      BY <2>1 DEF ViewState, Statuses
    <3>2. [view.st EXCEPT ![c.leg] = "confirmed"] \in [Legs -> Statuses \cup {None}]
      BY <3>1
    <3> QED
      BY <2>1, <2>2, <3>2 DEF ViewState
  <2>4. /\ \A l \in Legs : l # c.leg \/ c.stage # "paid" => view'.st[l] = view.st[l]
        /\ c.stage = "paid" => view'.st[c.leg] = "confirmed"
    <3>1. view.st \in [Legs -> Statuses \cup {None}]
      BY <2>1 DEF ViewState
    <3> QED
      BY <1>2, <2>3, <3>1
  <2>5. view' # None
    BY <2>3, NoneFacts
  <2>6. SameScreen
    BY <1>1, <2>1, <2>3, <2>5 DEF SameScreen, IInv, Rendered
  <2>7. TypeOK'
    BY <1>1, <1>3, <1>4, <2>3 DEF IInv, TypeOK, Confirmation
  <2>8. /\ RowsWhole' /\ AskedSound' /\ BookingsApart' /\ Rendered' /\ OwnHeld' /\ SubmitsSound'
        /\ Bookings' \subseteq Bookings
    <3>1. \A s \in submits' \cup polls' : \E t \in submits \cup polls : t.view = s.view /\ t.res = s.res
      BY <1>1
    <3> QED
      BY <1>1, <1>4, <1>5, <2>6, <3>1, PageStays
  <2>9. JobsPaid' /\ ServedOnce'
    BY <1>1, <2>8, JobsStay
  <2>10. ConfirmsSound' /\ ButtonWaitsForItsCall'
    <3>1. /\ \A d \in confirms' : d \in confirms \ {c} \/ (d.stage # "paid" /\ ~Waits(d))
          /\ \A d \in confirms' : Waits(d) => d \in confirms \ {c}
          /\ Waits(c)
      BY <1>1 DEF Waits
    <3> QED
      BY <1>1, <1>3, <2>1, <2>3, <2>6, <3>1, ConfirmsGoOn
  <2>11. ReadStands' /\ JobReadStands' /\ JobIsWatched'
    BY <1>1, <2>1, <2>3, <2>5 DEF IInv, ReadStands, JobReadStands, JobIsWatched, IsPair
  <2>12. PaidWillShow'
    <3> SUFFICES ASSUME IsPair(view.res), ~view.hydrating, view.odd \cap {"raced", "reused"} = {},
                        NEW l \in Legs,
                        view'.st[l] = "held", view.res[l] \notin remounted,
                        \A d \in confirms' : Current(d.view) /\ d.leg = l => d.stage # "paid"
                 PROVE  row[view.res[l]].status \in Unpaid
      BY <1>1, <1>3, <2>1, <2>3, <2>5 DEF PaidWillShow, IsPair, Current
    <3>1. view.st[l] = "held" /\ ~(l = c.leg /\ c.stage = "paid")
      BY <2>4
    <3>2. \A d \in confirms : Current(d.view) /\ d.leg = l => d.stage # "paid"
      BY <1>1, <3>1
    <3> QED
      BY <2>1, <3>1, <3>2 DEF IInv, PaidWillShow
  <2>13. NeverAhead'
    <3>1. ASSUME "reused" \notin view.odd, NEW l \in Legs, view.res[l] # None, view'.st[l] = "confirmed"
          PROVE  row[view.res[l]].status \in Paid
      <4>1. CASE l = c.leg /\ c.stage = "paid"
        <5>1. c.r = view.res[l] /\ row[c.r].status \in Paid
          BY <1>7, <3>1, <4>1 DEF IInv, ConfirmsSound
        <5> QED
          BY <5>1
      <4>2. CASE ~(l = c.leg /\ c.stage = "paid")
        BY <2>1, <2>4, <3>1, <4>2 DEF IInv, NeverAhead, Paid
      <4> QED
        BY <4>1, <4>2
    <3>2. ASSUME "reused" \notin view.odd, view.final # Nothing, "skewed" \notin view.odd
          PROVE  row[view.res.a].status = "over"
      BY <2>1, <3>2 DEF IInv, NeverAhead
    <3> QED
      BY <1>1, <2>3, <3>1, <3>2 DEF NeverAhead, Nothing, Paid
  <2> QED
    BY <2>7, <2>8, <2>9, <2>10, <2>11, <2>12, <2>13 DEF IInv
<1> QED
  BY <1>6, <1>7
-----------------------------------------------------------------------------
(***************************************************************************)
(* Jobs: submissions, hydration, polls, and the server on its own.         *)
(***************************************************************************)
Submission == [view : 1..MaxViews, res : Booking,
               stage : {"sent", "inserted a", "sibling", "inserted b", "done", "refused"}]

(* A step of the server, or one that leaves what the view says.            *)
LEMMA ServerStep ==
    ASSUME IInv, SameView, view # None => view'.busy = view.busy,
           UNCHANGED <<app, confirms, history>>, TypeOK',
           RowsStay, RowsAdvance, \A r \in Resv : job[r] = "done" => job'[r] = "done",
           \A s \in submits' \cup polls' :
              \/ \E t \in submits \cup polls : t.view = s.view /\ t.res = s.res
              \/ view # None /\ s.view = view.id /\ s.res \in {view.res, Given},
           polls \subseteq polls',
           JobsPaid', ServedOnce', JobReadStands'
    PROVE  IInv'
<1>1. UNCHANGED <<remounted, confirms>> /\ SameScreen
  BY SameViewScreen DEF history
<1>2. \A d \in confirms' : d.leg \in Legs /\ \E e \in confirms : e.r = d.r /\ e.leg = d.leg
  BY DEF IInv, TypeOK
<1>3. /\ RowsWhole' /\ AskedSound' /\ BookingsApart' /\ Rendered' /\ OwnHeld' /\ SubmitsSound'
  BY <1>1, <1>2, PageStays
<1>4. ConfirmsSound' /\ ButtonWaitsForItsCall'
  BY <1>1, ConfirmsStay DEF RowsStay
<1>5. ReadStands' /\ PaidWillShow' /\ NeverAhead' /\ JobIsWatched'
  BY <1>1, ClaimsStay
<1> QED
  BY <1>3, <1>4, <1>5 DEF IInv

(* A step that the server has no part in, but for a call that is over.     *)
LEMMA ViewStep ==
    ASSUME IInv, SameScreen, view # None => view'.busy = view.busy,
           UNCHANGED <<app, confirms, row, job, history>>, TypeOK',
           submits' \subseteq submits,
           \A s \in submits : s.stage \in {"inserted a", "inserted b"} => s \in submits',
           \A s \in polls' : \/ \E t \in submits \cup polls : t.view = s.view /\ t.res = s.res
                             \/ view # None /\ s.view = view.id /\ s.res \in {view.res, Given},
           ReadStands', JobReadStands', PaidWillShow', NeverAhead', JobIsWatched'
    PROVE  IInv'
<1>1. UNCHANGED <<remounted, confirms>>
  BY DEF history
<1>2. RowsStay /\ RowsAdvance
  BY RowsSame
<1>3. \A d \in confirms' : d.leg \in Legs /\ \E e \in confirms : e.r = d.r /\ e.leg = d.leg
  BY DEF IInv, TypeOK
<1>4. \A s \in submits' \cup polls' :
         \/ \E t \in submits \cup polls : t.view = s.view /\ t.res = s.res
         \/ view # None /\ s.view = view.id /\ s.res \in {view.res, Given}
  OBVIOUS
<1>5. /\ RowsWhole' /\ AskedSound' /\ BookingsApart' /\ Rendered' /\ OwnHeld' /\ SubmitsSound'
      /\ Bookings' \subseteq Bookings
  BY <1>2, <1>3, <1>4, PageStays
<1>6. ConfirmsSound' /\ ButtonWaitsForItsCall'
  BY <1>1, <1>2, ConfirmsStay DEF RowsStay
<1>7. JobsPaid' /\ ServedOnce'
  BY <1>5, JobsStay
<1> QED
  BY <1>5, <1>6, <1>7 DEF IInv

LEMMA SubmitStep ==
    ASSUME IInv, Submit
    PROVE  IInv'
<1>1. /\ view # None /\ view' = [view EXCEPT !.submitting = TRUE]
      /\ submits' = submits \cup {[view |-> view.id, res |-> view.res, stage |-> "sent"]}
      /\ UNCHANGED <<app, mounts, confirms, polls, closing, row, job, history>>
  BY DEF Submit, server
<1>2. view \in ViewState /\ view.id \in 1..MaxViews /\ view.res \in Booking
  BY <1>1 DEF IInv, TypeOK, ViewState
<1>3. PICK n \in Submission : /\ n.view = view.id /\ n.res = view.res /\ n.stage = "sent"
                              /\ submits' = submits \cup {n}
  <2> DEFINE new == [view |-> view.id, res |-> view.res, stage |-> "sent"]
  <2>1. new \in Submission /\ new.view = view.id /\ new.res = view.res /\ new.stage = "sent"
    BY <1>2 DEF Submission
  <2>2. submits' = submits \cup {new}
    BY <1>1
  <2> HIDE DEF new
  <2> QED
    BY <2>1, <2>2
<1>4. /\ view' \in ViewState /\ view'.busy = view.busy
      /\ view'.id = view.id /\ view'.res = view.res /\ view'.st = view.st
      /\ view'.read = view.read /\ view'.hydrating = view.hydrating
      /\ view'.job = view.job /\ view'.final = view.final /\ view'.odd = view.odd
  BY <1>1, <1>2 DEF ViewState
<1>5. SameView
  BY <1>1, <1>4, NoneFacts DEF SameView
<1>6. TypeOK'
  <2>1. submits' \subseteq Submission
    BY <1>3 DEF IInv, TypeOK, Submission
  <2>2. UNCHANGED <<session, tab, single, pair, primary, reserving, asked, mounts, late, remounted>>
    BY <1>1 DEF app, history
  <2> QED
    BY <1>1, <1>4, <2>1, <2>2 DEF IInv, TypeOK, Submission
<1>7. RowsStay /\ RowsAdvance
  BY <1>1, RowsSame
<1>8. \A s \in submits' \cup polls' :
         \/ \E t \in submits \cup polls : t.view = s.view /\ t.res = s.res
         \/ view # None /\ s.view = view.id /\ s.res \in {view.res, Given}
  BY <1>1, <1>3
<1>9. JobsPaid' /\ ServedOnce'
  <2>1. Bookings' \subseteq Bookings
    <3>1. UNCHANGED <<pair, single, Screen>>
      BY <1>1, <1>4, <1>5 DEF app, Screen, SameView
    <3>2. \A s \in submits' \cup polls' : s.res \in Bookings
      BY <1>1, <1>3, OnScreenIsBooked, SubmissionsAreBooked
    <3> QED
      BY <3>1, <3>2 DEF Bookings, One
  <2> QED
    BY <1>1, <1>3, <2>1, JobsStay DEF Served
<1>10. JobReadStands'
  BY <1>1, <1>5, <1>7, JobReadStays
<1> QED
  BY <1>1, <1>4, <1>5, <1>6, <1>7, <1>8, <1>9, <1>10, ServerStep

(* A submission that goes on keeps its view and its booking.               *)
LEMMA SubmittedFacts ==
    ASSUME IInv, NEW s \in submits,
           NEW stage \in {"inserted a", "sibling", "inserted b", "done", "refused"},
           Submitted(s, stage)
    PROVE  \E n \in Submission : /\ n.view = s.view /\ n.res = s.res /\ n.stage = stage
                                 /\ submits' = (submits \ {s}) \cup {n}
<1> DEFINE n == [s EXCEPT !.stage = stage]
<1>1. s \in Submission
  BY DEF IInv, TypeOK, Submission
<1>2. n \in Submission /\ n.view = s.view /\ n.res = s.res /\ n.stage = stage
  BY <1>1 DEF Submission
<1>3. submits' = (submits \ {s}) \cup {n}
  BY DEF Submitted
<1> HIDE DEF n
<1> QED
  BY <1>2, <1>3

LEMMA GoesOnStep ==
    ASSUME IInv, SameView, view # None => view'.busy = view.busy, view' \in ViewState \cup {None},
           UNCHANGED <<app, mounts, confirms, polls, closing, history>>,
           NEW s \in submits, NEW n \in Submission, n.view = s.view, n.res = s.res,
           submits' = (submits \ {s}) \cup {n},
           row' \in [Resv -> [owner : Users \cup {None}, status : Statuses \cup {None},
                              with : Resv \cup {None}]],
           job' \in [Resv -> {None, "running", "done"}],
           RowsStay, RowsAdvance, \A r \in Resv : job[r] = "done" => job'[r] = "done",
           JobsPaid', ServedOnce', JobReadStands'
    PROVE  IInv'
<1>1. TypeOK'
  <2>1. submits' \subseteq Submission
    BY DEF IInv, TypeOK, Submission
  <2>2. UNCHANGED <<session, tab, single, pair, primary, reserving, asked, late, remounted>>
    BY DEF app, history
  <2> QED
    BY <2>1, <2>2 DEF IInv, TypeOK, Submission
<1>2. \A t \in submits' \cup polls' : \E u \in submits \cup polls : u.view = t.view /\ u.res = t.res
  OBVIOUS
<1> QED
  BY <1>1, <1>2, ServerStep

(* What a submission leaves as it was when it goes on: the bookings, and   *)
(* the jobs and the rows of the others.                                    *)
LEMMA SameBookingsOn ==
    ASSUME IInv, SameView, UNCHANGED <<app, polls>>, NEW s \in submits, NEW n, n.res = s.res,
           submits' = (submits \ {s}) \cup {n}
    PROVE  Bookings' \subseteq Bookings
<1>1. UNCHANGED <<pair, single>>
  BY DEF app
<1>2. \A t \in submits' \cup polls' : \E u \in submits \cup polls : u.res = t.res
  OBVIOUS
<1> QED
  BY <1>1, <1>2, SameViewScreen, SameBookings

(* Only the submission that is about a booking can be doing its jobs.      *)
LEMMA OneSubmission ==
    ASSUME IInv, NEW s \in submits, NEW t \in submits, s.stage \in Served, t.stage \in Served,
           s.res.a = t.res.a \/ (s.res.b = t.res.b /\ s.res.b # None)
    PROVE  s = t
<1>1. s.res \in Bookings /\ t.res \in Bookings
  BY SubmissionsAreBooked
<1>2. s.res.a = t.res.a
  BY <1>1 DEF IInv, BookingsApart
<1> QED
  BY <1>2 DEF IInv, ServedOnce

(* The jobs of the others, as a submission of the same booking sees them.  *)
LEMMA MarkingStays ==
    ASSUME NEW s \in submits, NEW n, submits' = (submits \ {s}) \cup {n}, NEW r \in Resv, Marking(r),
           s.stage = "inserted a" => s.res.a # r, s.stage = "inserted b" => s.res.b # r
    PROVE  Marking(r)'
  BY DEF Marking

(* POST /jobs inserts the first job if its nodes are ready for theirs.     *)
LEMMA InsertStep ==
    ASSUME IInv, NEW s \in submits, SubmitServed(s)
    PROVE  IInv'
<1> DEFINE a == s.res.a
           b == s.res.b
<1>1. /\ s.stage = "sent"
      /\ IF Ready(a) /\ Ready(b)
         THEN /\ job' = [job EXCEPT ![a] = "running"] /\ Submitted(s, "inserted a")
              /\ row' = [row EXCEPT ![a].with = b]
         ELSE UNCHANGED <<row, job>> /\ Submitted(s, "refused")
      /\ Mark("skewed", Given = s.res /\ view.hydrating)
      /\ UNCHANGED <<app, mounts, confirms, polls, closing, history>>
  BY DEF SubmitServed, server
<1>2. /\ s.res \in Bookings /\ a \in Resv /\ b \in Resv \cup {None}
  BY SubmissionsAreBooked
<1>3. PICK when \in BOOLEAN : Mark("skewed", when) /\ when = (Given = s.res /\ view.hydrating)
  <2>1. (Given = s.res /\ view.hydrating) \in BOOLEAN
    OBVIOUS
  <2> QED
    BY <1>1, <2>1
<1>4. /\ SameView /\ (view # None => view'.busy = view.busy) /\ view' \in ViewState \cup {None}
      /\ view # None /\ when => "skewed" \in view'.odd
  BY <1>1, <1>3, MarkFacts
<1>5. CASE ~(Ready(a) /\ Ready(b))
  <2>1. PICK n \in Submission : /\ n.view = s.view /\ n.res = s.res /\ n.stage = "refused"
                                /\ submits' = (submits \ {s}) \cup {n}
    BY <1>1, <1>5, SubmittedFacts
  <2>2. UNCHANGED <<row, job>>
    BY <1>1, <1>5
  <2>3. RowsStay /\ RowsAdvance
    BY <2>2, RowsSame
  <2>4. JobsPaid' /\ ServedOnce'
    <3>1. Bookings' \subseteq Bookings
      BY <1>1, <1>4, <2>1, SameBookingsOn
    <3> QED
      BY <1>1, <2>1, <2>2, <3>1, JobsStay DEF Served
  <2>5. JobReadStands'
    BY <1>4, <2>2, <2>3, JobReadStays
  <2>6. /\ row' \in [Resv -> [owner : Users \cup {None}, status : Statuses \cup {None},
                              with : Resv \cup {None}]]
        /\ job' \in [Resv -> {None, "running", "done"}]
    BY <2>2 DEF IInv, TypeOK
  <2> QED
    BY <1>1, <1>4, <2>1, <2>2, <2>3, <2>4, <2>5, <2>6, GoesOnStep
<1>6. CASE Ready(a) /\ Ready(b)
  <2>1. PICK n \in Submission : /\ n.view = s.view /\ n.res = s.res /\ n.stage = "inserted a"
                                /\ submits' = (submits \ {s}) \cup {n}
    BY <1>1, <1>6, SubmittedFacts
  <2>2. /\ job[a] = None /\ row[a].status = "confirmed"
        /\ b # None => job[b] = None /\ row[b].status = "confirmed"
    BY <1>2, <1>6, NoneFacts DEF Ready
  <2>3. /\ row' \in [Resv -> [owner : Users \cup {None}, status : Statuses \cup {None},
                              with : Resv \cup {None}]]
        /\ row'[a].status = row[a].status /\ row'[a].owner = row[a].owner
        /\ \A r \in Resv : r # a => row'[r] = row[r]
    <3>1. row \in [Resv -> [owner : Users \cup {None}, status : Statuses \cup {None},
                            with : Resv \cup {None}]]
      BY DEF IInv, TypeOK
    <3>2. row' = [row EXCEPT ![a].with = b]
      BY <1>1, <1>6
    <3> QED
      BY <1>2, <3>1, <3>2
  <2>4. \A r \in Resv : row'[r].status = row[r].status /\ row'[r].owner = row[r].owner
    BY <2>3
  <2>5. /\ job' \in [Resv -> {None, "running", "done"}]
        /\ job'[a] = "running" /\ \A r \in Resv : r # a => job'[r] = job[r]
    BY <1>1, <1>2, <1>6 DEF IInv, TypeOK
  <2>6. RowsStay
    BY <2>4 DEF RowsStay
  <2>7. RowsAdvance
    <3>1. row[a] # NoRow /\ row'[a] # NoRow
      BY <2>2, <2>3, NoneFacts DEF NoRow, Statuses
    <3> QED
      BY <2>3, <2>4, <3>1 DEF IInv, RowsWhole, RowsAdvance
  <2>8. Bookings' \subseteq Bookings
    BY <1>1, <1>4, <2>1, SameBookingsOn
  <2>9. JobsPaid'
    <3>1. ASSUME NEW r \in Resv, job'[r] # None
          PROVE  /\ row'[r].status \in Paid
                 /\ row'[r].status = "confirmed" => job'[r] = "running" /\ Marking(r)'
      <4>1. CASE r = a
        <5>1. Marking(r)'
          BY <2>1, <4>1 DEF Marking
        <5> QED
          BY <2>2, <2>4, <2>5, <4>1, <5>1 DEF Paid
      <4>2. CASE r # a
        <5>1. /\ row[r].status \in Paid
              /\ row[r].status = "confirmed" => job[r] = "running" /\ Marking(r)
          BY <2>5, <3>1, <4>2 DEF IInv, JobsPaid
        <5>2. Marking(r) => Marking(r)'
          BY <1>1, <2>1, MarkingStays
        <5> QED
          BY <2>4, <2>5, <4>2, <5>1, <5>2
      <4> QED
        BY <4>1, <4>2
    <3>2. ASSUME NEW x \in Bookings', x.b # None
          PROVE  /\ job'[x.b] # None => job'[x.a] # None
                 /\ job'[x.a] # None => row'[x.b].status \in Paid
      <4>1. x \in Bookings /\ x.a \in Resv /\ x.b \in Resv
        BY <2>8, <3>2, BookingsAreWhole
      <4>2. x.b # a /\ (x.a = a => x = s.res)
        BY <1>2, <4>1 DEF IInv, BookingsApart
      <4>3. /\ job[x.b] # None => job[x.a] # None
            /\ job[x.a] # None => row[x.b].status \in Paid
        BY <3>2, <4>1 DEF IInv, JobsPaid
      <4> QED
        BY <2>2, <2>4, <2>5, <3>2, <4>1, <4>2, <4>3, NoneFacts DEF Paid
    <3> QED
      BY <3>1, <3>2 DEF JobsPaid
  <2>10. ServedOnce'
    <3>1. ASSUME NEW t \in submits, t.stage \in Served
          PROVE  /\ t.res.a # a /\ job'[t.res.a] # None
                 /\ t.stage = "inserted a" => row'[t.res.a].status = "confirmed"
                 /\ t.stage # "done" /\ t.res.b # None => row'[t.res.b].status = "confirmed"
                 /\ t.stage = "sibling" => t.res.b # None
                 /\ t.stage = "inserted b" => t.res.b # None /\ job'[t.res.b] # None
      <4>1. t.res.a \in Resv /\ (t.res.b # None => t.res.b \in Resv)
        BY SubmissionsAreBooked
      <4>2. /\ job[t.res.a] # None
            /\ t.stage = "inserted a" => row[t.res.a].status = "confirmed"
            /\ t.stage # "done" /\ t.res.b # None => row[t.res.b].status = "confirmed"
            /\ t.stage = "sibling" => t.res.b # None
            /\ t.stage = "inserted b" => t.res.b # None /\ job[t.res.b] # None
        BY <3>1 DEF IInv, ServedOnce
      <4> QED
        BY <2>2, <2>4, <2>5, <4>1, <4>2
    <3>2. /\ job'[n.res.a] # None
          /\ row'[n.res.a].status = "confirmed"
          /\ n.res.b # None => row'[n.res.b].status = "confirmed"
      <4>1. n.res.a = a /\ n.res.b = b
        BY <2>1
      <4>2. job'[a] # None /\ row'[a].status = "confirmed"
        BY <1>2, <2>2, <2>4, <2>5, NoneFacts DEF Statuses
      <4>3. b # None => row'[b].status = "confirmed"
        BY <1>2, <2>2, <2>4
      <4> QED
        BY <4>1, <4>2, <4>3
    <3>3. \A t, u \in submits : t.stage \in Served /\ u.stage \in Served /\ t.res.a = u.res.a => t = u
      BY DEF IInv, ServedOnce
    <3>4. \A t \in submits' : t.stage \in Served => t = n \/ t \in submits
      BY <2>1
    <3>5. \A t, u \in submits' : t.stage \in Served /\ u.stage \in Served /\ t.res.a = u.res.a => t = u
      <4>1. \A t \in submits : t.stage \in Served => t.res.a # n.res.a
        BY <2>1, <3>1
      <4> QED
        BY <3>3, <3>4, <4>1
    <3> QED
      BY <2>1, <3>1, <3>2, <3>4, <3>5 DEF ServedOnce
  <2>11. JobReadStands'
    <3>1. CASE view # None /\ Given = s.res /\ view.hydrating
      <4>1. "skewed" \in view'.odd
        BY <1>3, <1>4, <3>1
      <4> QED
        BY <4>1 DEF JobReadStands
    <3>2. CASE view # None /\ Given # s.res
      <4>1. CASE "reused" \in view.odd
        BY <1>4, <3>2, <4>1 DEF JobReadStands, SameView
      <4>2. CASE "reused" \notin view.odd
        <5>1. view.res # s.res /\ view.res \in Bookings
          BY <3>2, <4>2, OnScreenIsBooked
        <5>2. view.res.a # a /\ view.res.a \in Resv
          BY <1>2, <3>2, <5>1, OnScreenRows DEF IInv, BookingsApart
        <5> QED
          BY <1>4, <2>5, <2>6, <5>2, JobReadStays
      <4> QED
        BY <4>1, <4>2
    <3>3. CASE view = None \/ ~view.hydrating
      <4>1. view' # None => \A l \in Legs : view'.read[l] = None
        BY <1>4, <3>3 DEF SameView, IInv, Rendered
      <4> QED
        BY <4>1 DEF JobReadStands, Legs
    <3> QED
      BY <3>1, <3>2, <3>3
  <2>12. \A r \in Resv : job[r] = "done" => job'[r] = "done"
    BY <2>2, <2>5, NoneFacts
  <2> QED
    BY <1>1, <1>4, <2>1, <2>3, <2>5, <2>6, <2>7, <2>9, <2>10, <2>11, <2>12, GoesOnStep
<1> QED
  BY <1>5, <1>6

(* The reservation of the job that was inserted is marked running.         *)
LEMMA MarksStep ==
    ASSUME IInv, NEW s \in submits, NEW l \in Legs, SubmitMarks(s, l)
    PROVE  IInv'
<1> DEFINE r0 == s.res[l]
<1>1. /\ s.stage = IF l = "a" THEN "inserted a" ELSE "inserted b"
      /\ row' = [row EXCEPT ![r0].status = "running"]
      /\ Submitted(s, IF l = "a" /\ IsPair(s.res) THEN "sibling" ELSE "done")
      /\ UNCHANGED <<app, view, mounts, confirms, polls, closing, job, history>>
  BY DEF SubmitMarks
<1>2. /\ s.res \in Bookings /\ s.res.a \in Resv /\ s.res.b \in Resv \cup {None}
      /\ s.res["a"] = s.res.a /\ s.res["b"] = s.res.b
  BY SubmissionsAreBooked
<1>3. PICK n \in Submission : /\ n.view = s.view /\ n.res = s.res
                              /\ n.stage = IF l = "a" /\ IsPair(s.res) THEN "sibling" ELSE "done"
                              /\ submits' = (submits \ {s}) \cup {n}
  BY <1>1, SubmittedFacts
<1>4. /\ s.stage \in Served /\ l \in {"a", "b"} /\ job[s.res.a] # None
      /\ r0 = (IF l = "a" THEN s.res.a ELSE s.res.b)
      /\ r0 \in Resv /\ row[r0].status = "confirmed"
  <2>1. s.stage \in Served /\ l \in {"a", "b"}
    BY <1>1 DEF Served, Legs
  <2>2. /\ job[s.res.a] # None
        /\ s.stage = "inserted a" => row[s.res.a].status = "confirmed"
        /\ s.stage # "done" /\ s.res.b # None => row[s.res.b].status = "confirmed"
        /\ s.stage = "inserted b" => s.res.b # None
    BY <2>1 DEF IInv, ServedOnce
  <2> QED
    BY <1>1, <1>2, <2>1, <2>2
<1> HIDE DEF r0
<1>5. /\ row' \in [Resv -> [owner : Users \cup {None}, status : Statuses \cup {None},
                            with : Resv \cup {None}]]
      /\ row'[r0].status = "running" /\ row'[r0].owner = row[r0].owner
      /\ \A r \in Resv : r # r0 => row'[r] = row[r]
  <2>1. row \in [Resv -> [owner : Users \cup {None}, status : Statuses \cup {None},
                          with : Resv \cup {None}]]
    BY DEF IInv, TypeOK
  <2>2. r0 \in Resv /\ row' = [row EXCEPT ![r0].status = "running"]
    BY <1>1, <1>4
  <2> QED
    BY <2>1, <2>2 DEF Statuses
<1>6. RowsStay
  BY <1>4, <1>5 DEF RowsStay, Paid, Unpaid
<1>7. RowsAdvance
  <2>1. row[r0] # NoRow /\ row'[r0] # NoRow
    BY <1>4, <1>5, NoneFacts DEF NoRow, Statuses
  <2> QED
    BY <1>4, <1>5, <2>1 DEF IInv, RowsWhole, RowsAdvance, Paid, Unpaid, Statuses
<1>8. Bookings' \subseteq Bookings
  BY <1>1, <1>3, SameViewHolds, SameBookingsOn
<1>9. JobsPaid'
  <2>1. ASSUME NEW r \in Resv, job[r] # None
        PROVE  /\ row'[r].status \in Paid
               /\ row'[r].status = "confirmed" => job[r] = "running" /\ Marking(r)'
    <3>1. /\ row[r].status \in Paid
          /\ row[r].status = "confirmed" => job[r] = "running" /\ Marking(r)
      BY <2>1 DEF IInv, JobsPaid
    <3>2. CASE r = r0
      BY <1>5, <3>2 DEF Paid
    <3>3. CASE r # r0
      <4>1. Marking(r) => Marking(r)'
        BY <1>1, <1>3, <1>4, <3>3, MarkingStays
      <4> QED
        BY <1>5, <3>1, <3>3, <4>1
    <3> QED
      BY <3>2, <3>3
  <2>2. ASSUME NEW x \in Bookings', x.b # None
        PROVE  /\ job[x.b] # None => job[x.a] # None
               /\ job[x.a] # None => row'[x.b].status \in Paid
    <3>1. x \in Bookings /\ x.b \in Resv
      BY <1>8, <2>2, BookingsAreWhole
    <3>2. /\ job[x.b] # None => job[x.a] # None
          /\ job[x.a] # None => row[x.b].status \in Paid
      BY <2>2, <3>1 DEF IInv, JobsPaid
    <3> QED
      BY <1>6, <3>1, <3>2 DEF RowsStay
  <2> QED
    BY <1>1, <2>1, <2>2 DEF JobsPaid
<1>10. ServedOnce'
  <2>1. ASSUME NEW t \in submits, t.stage \in Served, t # s
        PROVE  /\ t.res.a # s.res.a /\ job[t.res.a] # None
               /\ t.stage = "inserted a" => row'[t.res.a].status = "confirmed"
               /\ t.stage # "done" /\ t.res.b # None => row'[t.res.b].status = "confirmed"
               /\ t.stage = "sibling" => t.res.b # None
               /\ t.stage = "inserted b" => t.res.b # None /\ job[t.res.b] # None
    <3>1. t.res \in Bookings /\ t.res.a \in Resv /\ (t.res.b # None => t.res.b \in Resv)
      BY SubmissionsAreBooked
    <3>2. /\ job[t.res.a] # None
          /\ t.stage = "inserted a" => row[t.res.a].status = "confirmed"
          /\ t.stage # "done" /\ t.res.b # None => row[t.res.b].status = "confirmed"
          /\ t.stage = "sibling" => t.res.b # None
          /\ t.stage = "inserted b" => t.res.b # None /\ job[t.res.b] # None
      BY <2>1 DEF IInv, ServedOnce
    <3>3. t.res.a # s.res.a /\ (t.res.b # None => t.res.b # s.res.b)
      BY <1>4, <2>1, OneSubmission
    <3>4. t.res.a # s.res.b /\ t.res.b # s.res.a
      BY <1>2, <3>1 DEF IInv, BookingsApart
    <3>5. t.res.a # r0 /\ (t.res.b # None => t.res.b # r0)
      BY <1>4, <3>3, <3>4
    <3> QED
      BY <1>5, <3>1, <3>2, <3>3, <3>5
  <2>2. /\ n.res = s.res /\ n.stage \in {"sibling", "done"}
        /\ n.stage = "sibling" => s.res.b # None /\ row'[s.res.b].status = "confirmed"
    <3>1. n.stage = "sibling" => l = "a" /\ s.res.b # None
      BY <1>3 DEF IsPair
    <3>2. s.res.b # s.res.a
      BY <1>2 DEF IInv, BookingsApart
    <3>3. s.stage # "done" /\ s.res.b # None => row[s.res.b].status = "confirmed"
      BY <1>4 DEF IInv, ServedOnce
    <3> QED
      BY <1>1, <1>2, <1>3, <1>4, <1>5, <3>1, <3>2, <3>3
  <2>3. \A t \in submits' : t.stage \in Served => t = n \/ (t \in submits /\ t # s)
    BY <1>3
  <2>4. \A t, u \in submits' : t.stage \in Served /\ u.stage \in Served /\ t.res.a = u.res.a => t = u
    <3>1. \A t, u \in submits : t.stage \in Served /\ u.stage \in Served /\ t.res.a = u.res.a => t = u
      BY DEF IInv, ServedOnce
    <3> QED
      BY <2>1, <2>2, <2>3, <3>1
  <2>5. ASSUME NEW t \in submits', t.stage \in Served
        PROVE  /\ job'[t.res.a] # None
               /\ t.stage = "inserted a" => row'[t.res.a].status = "confirmed"
               /\ t.stage # "done" /\ t.res.b # None => row'[t.res.b].status = "confirmed"
               /\ t.stage = "sibling" => t.res.b # None
               /\ t.stage = "inserted b" => t.res.b # None /\ job'[t.res.b] # None
    <3>1. CASE t = n
      BY <1>1, <1>4, <2>2, <3>1
    <3>2. CASE t \in submits /\ t # s
      BY <1>1, <2>1, <2>5, <3>2
    <3> QED
      BY <2>3, <2>5, <3>1, <3>2
  <2> QED
    BY <2>4, <2>5 DEF ServedOnce
<1>11. SameView
  BY <1>1, SameViewHolds
<1>12. JobReadStands'
  BY <1>1, <1>6, <1>11, JobReadStays
<1>13. job' \in [Resv -> {None, "running", "done"}] /\ view' \in ViewState \cup {None}
  BY <1>1 DEF IInv, TypeOK
<1> QED
  BY <1>1, <1>3, <1>5, <1>6, <1>7, <1>9, <1>10, <1>11, <1>12, <1>13, GoesOnStep

(* The second node takes its job, or does not.                             *)
LEMMA SiblingStep ==
    ASSUME IInv, NEW s \in submits, SubmitSibling(s)
    PROVE  IInv'
<1> DEFINE a == s.res.a
           b == s.res.b
<1>1. /\ s.stage = "sibling"
      /\ \/ /\ job' = [job EXCEPT ![b] = "running"] /\ Submitted(s, "inserted b")
            /\ UNCHANGED row
         \/ /\ row' = [row EXCEPT ![a].with = None] /\ Submitted(s, "done")
            /\ UNCHANGED job
      /\ UNCHANGED <<app, view, mounts, confirms, polls, closing, history>>
  BY DEF SubmitSibling
<1>2. /\ s.res \in Bookings /\ a \in Resv /\ b \in Resv /\ b # None /\ a # b
      /\ s.stage \in Served /\ job[a] # None /\ row[b].status = "confirmed"
      /\ row[a].status \in Paid /\ row[a] # NoRow
  <2>1. s.res \in Bookings /\ a \in Resv /\ b \in Resv \cup {None} /\ row[a] # NoRow
    BY SubmissionsAreBooked, BookingsAreWhole
  <2>2. s.stage \in Served /\ job[a] # None /\ b # None /\ row[b].status = "confirmed"
    BY <1>1 DEF IInv, ServedOnce, Served
  <2>3. a # b
    BY <2>1 DEF IInv, BookingsApart
  <2>4. row[a].status \in Paid
    BY <2>1, <2>2 DEF IInv, JobsPaid
  <2> QED
    BY <2>1, <2>2, <2>3, <2>4
<1>3. PICK n \in Submission : /\ n.view = s.view /\ n.res = s.res
                              /\ submits' = (submits \ {s}) \cup {n}
                              /\ \/ /\ job' = [job EXCEPT ![b] = "running"] /\ n.stage = "inserted b"
                                    /\ UNCHANGED row
                                 \/ /\ row' = [row EXCEPT ![a].with = None] /\ n.stage = "done"
                                    /\ UNCHANGED job
  BY <1>1, SubmittedFacts
<1>4. /\ row' \in [Resv -> [owner : Users \cup {None}, status : Statuses \cup {None},
                            with : Resv \cup {None}]]
      /\ \A r \in Resv : row'[r].status = row[r].status /\ row'[r].owner = row[r].owner
      /\ \A r \in Resv : r # a => row'[r] = row[r]
  <2>1. row \in [Resv -> [owner : Users \cup {None}, status : Statuses \cup {None},
                          with : Resv \cup {None}]]
    BY DEF IInv, TypeOK
  <2>2. row' = row \/ row' = [row EXCEPT ![a].with = None]
    BY <1>3
  <2> QED
    BY <1>2, <2>1, <2>2
<1>5. /\ job' \in [Resv -> {None, "running", "done"}]
      /\ \A r \in Resv : r # b => job'[r] = job[r]
      /\ job'[b] # job[b] => job'[b] = "running" /\ n.stage = "inserted b"
      /\ n.stage = "inserted b" => job'[b] = "running"
      /\ n.stage \in {"inserted b", "done"}
  BY <1>2, <1>3 DEF IInv, TypeOK
<1>6. "running" # None
  BY NoneFacts DEF Statuses
<1>7. \A t \in submits : t # s /\ t.stage \in Served => t.res.a # a /\ t.res.b # b
  BY <1>2, OneSubmission
<1>8. job[b] # "done"
  <2>1. job[b] # None => job[b] = "running"
    BY <1>2, <1>6 DEF IInv, JobsPaid
  <2> QED
    BY <2>1, NoneFacts
<1>9. RowsStay
  BY <1>4 DEF RowsStay
<1>10. RowsAdvance
  <2>1. row'[a] # NoRow
    BY <1>2, <1>4, NoneFacts DEF NoRow, Paid, Statuses
  <2> QED
    BY <1>2, <1>4, <2>1 DEF IInv, RowsWhole, RowsAdvance
<1>11. Bookings' \subseteq Bookings
  BY <1>1, <1>3, SameViewHolds, SameBookingsOn
<1>12. \A r \in Resv : Marking(r) => Marking(r)'
  BY <1>1, <1>3, MarkingStays
<1>13. JobsPaid'
  <2>1. ASSUME NEW r \in Resv, job'[r] # None
        PROVE  /\ row'[r].status \in Paid
               /\ row'[r].status = "confirmed" => job'[r] = "running" /\ Marking(r)'
    <3>1. CASE job'[r] # job[r]
      <4>1. r = b /\ n.stage = "inserted b" /\ job'[b] = "running"
        BY <1>5, <3>1
      <4>2. Marking(r)'
        BY <1>3, <4>1 DEF Marking
      <4> QED
        BY <1>2, <1>4, <4>1, <4>2 DEF Paid
    <3>2. CASE job'[r] = job[r]
      <4>1. /\ row[r].status \in Paid
            /\ row[r].status = "confirmed" => job[r] = "running" /\ Marking(r)
        BY <2>1, <3>2 DEF IInv, JobsPaid
      <4> QED
        BY <1>4, <1>12, <3>2, <4>1
    <3> QED
      BY <3>1, <3>2
  <2>2. ASSUME NEW x \in Bookings', x.b # None
        PROVE  /\ job'[x.b] # None => job'[x.a] # None
               /\ job'[x.a] # None => row'[x.b].status \in Paid
    <3>1. x \in Bookings /\ x.a \in Resv /\ x.b \in Resv
      BY <1>11, <2>2, BookingsAreWhole
    <3>2. x.a # b /\ (x.b = b => x = s.res)
      BY <1>2, <3>1 DEF IInv, BookingsApart
    <3>3. /\ job[x.b] # None => job[x.a] # None
          /\ job[x.a] # None => row[x.b].status \in Paid
      BY <2>2, <3>1 DEF IInv, JobsPaid
    <3> QED
      BY <1>2, <1>4, <1>5, <3>1, <3>2, <3>3
  <2> QED
    BY <2>1, <2>2 DEF JobsPaid
<1>14. ServedOnce'
  <2>1. ASSUME NEW t \in submits, t.stage \in Served
        PROVE  /\ job'[t.res.a] # None
               /\ t.stage = "inserted a" => row'[t.res.a].status = "confirmed"
               /\ t.stage # "done" /\ t.res.b # None => row'[t.res.b].status = "confirmed"
               /\ t.stage = "sibling" => t.res.b # None
               /\ t.stage = "inserted b" => t.res.b # None /\ job'[t.res.b] # None
    <3>1. t.res.a \in Resv /\ (t.res.b # None => t.res.b \in Resv)
      BY SubmissionsAreBooked
    <3>2. /\ job[t.res.a] # None
          /\ t.stage = "inserted a" => row[t.res.a].status = "confirmed"
          /\ t.stage # "done" /\ t.res.b # None => row[t.res.b].status = "confirmed"
          /\ t.stage = "sibling" => t.res.b # None
          /\ t.stage = "inserted b" => t.res.b # None /\ job[t.res.b] # None
      BY <2>1 DEF IInv, ServedOnce
    <3>3. \A r \in Resv : job[r] # None => job'[r] # None
      BY <1>5, <1>6
    <3> QED
      BY <1>4, <3>1, <3>2, <3>3
  <2>2. /\ n.res.a = a /\ n.res.b = b /\ job'[a] # None /\ row'[b].status = "confirmed"
        /\ n.stage = "inserted b" => job'[b] # None
    BY <1>2, <1>3, <1>4, <1>5, <1>6
  <2>3. \A t \in submits' : t.stage \in Served => t = n \/ (t \in submits /\ t # s)
    BY <1>3
  <2>4. \A t, u \in submits' : t.stage \in Served /\ u.stage \in Served /\ t.res.a = u.res.a => t = u
    <3>1. \A t, u \in submits : t.stage \in Served /\ u.stage \in Served /\ t.res.a = u.res.a => t = u
      BY DEF IInv, ServedOnce
    <3> QED
      BY <1>7, <2>2, <2>3, <3>1
  <2>5. ASSUME NEW t \in submits', t.stage \in Served
        PROVE  /\ job'[t.res.a] # None
               /\ t.stage = "inserted a" => row'[t.res.a].status = "confirmed"
               /\ t.stage # "done" /\ t.res.b # None => row'[t.res.b].status = "confirmed"
               /\ t.stage = "sibling" => t.res.b # None
               /\ t.stage = "inserted b" => t.res.b # None /\ job'[t.res.b] # None
    <3>1. CASE t = n
      BY <1>2, <1>5, <2>2, <3>1
    <3>2. CASE t \in submits
      BY <2>1, <2>5, <3>2
    <3> QED
      BY <2>3, <2>5, <3>1, <3>2
  <2> QED
    BY <2>4, <2>5 DEF ServedOnce
<1>15. SameView
  BY <1>1, SameViewHolds
<1>16. JobReadStands'
  <2>1. view # None => view.res.a # b /\ view.res.a \in Resv
    BY <1>2, OnScreenIsBooked, OnScreenRows DEF IInv, BookingsApart
  <2> QED
    BY <1>5, <1>9, <1>15, <2>1, JobReadStays
<1>17. \A r \in Resv : job[r] = "done" => job'[r] = "done"
  BY <1>5, <1>8
<1>18. view' \in ViewState \cup {None}
  BY <1>1 DEF IInv, TypeOK
<1> QED
  BY <1>1, <1>3, <1>4, <1>5, <1>9, <1>10, <1>13, <1>14, <1>15, <1>16, <1>17, <1>18, GoesOnStep

(* The answer to a submission that went through starts a poll, even for a  *)
(* view that has gone.                                                     *)
LEMMA SubmitAnsweredStep ==
    ASSUME IInv, NEW s \in submits, SubmitAnswered(s)
    PROVE  IInv'
<1> DEFINE poll == [view |-> s.view, res |-> s.res]
<1>1. /\ s.stage \in {"done", "refused"} /\ submits' = submits \ {s}
      /\ polls' = IF s.stage = "done" THEN polls \cup {poll} ELSE polls
      /\ Update(s.view, IF s.stage = "done"
            THEN [view EXCEPT !.submitting = FALSE, !.job = TRUE, !.st = [l \in Legs |-> "running"]]
            ELSE [view EXCEPT !.submitting = FALSE])
      /\ UNCHANGED <<app, mounts, confirms, closing, row, job, history>>
  BY DEF SubmitAnswered, server
<1>2. /\ poll \in [view : 1..MaxViews, res : Booking] /\ poll.view = s.view /\ poll.res = s.res
  BY DEF IInv, TypeOK
<1> HIDE DEF poll
<1>3. UNCHANGED <<session, tab, single, pair, primary, reserving, asked, late, remounted>>
  BY <1>1 DEF app, history
<1>4. polls \subseteq polls' /\ polls' \subseteq [view : 1..MaxViews, res : Booking]
  BY <1>1, <1>2 DEF IInv, TypeOK
<1>5. \A t \in polls' : \E u \in submits \cup polls : u.view = t.view /\ u.res = t.res
  BY <1>1, <1>2
<1>6. /\ submits' \subseteq submits
      /\ \A t \in submits : t.stage \in {"inserted a", "inserted b"} => t \in submits'
  BY <1>1
<1>7. RowsStay /\ RowsAdvance
  BY <1>1, RowsSame
<1>8. CASE Current(s.view) /\ s.stage = "done"
  <2>1. view # None /\ view.id = s.view /\ view \in ViewState
    BY <1>8, OnScreenIsBooked DEF Current
  <2>2. view' = [view EXCEPT !.submitting = FALSE, !.job = TRUE, !.st = [l \in Legs |-> "running"]]
    BY <1>1, <1>8, <2>1 DEF Update
  <2>3. /\ view' \in ViewState /\ view'.busy = view.busy
        /\ view'.id = view.id /\ view'.res = view.res
        /\ view'.read = view.read /\ view'.hydrating = view.hydrating
        /\ view'.job /\ view'.final = view.final /\ view'.odd = view.odd
        /\ \A l \in Legs : view'.st[l] = "running"
    <3>1. [l \in Legs |-> "running"] \in [Legs -> Statuses \cup {None}]
      BY DEF Statuses
    <3> QED
      BY <2>1, <2>2, <3>1 DEF ViewState
  <2>4. view' # None
    BY <2>3, NoneFacts
  <2>5. SameScreen
    BY <1>1, <2>1, <2>3, <2>4 DEF SameScreen, IInv, Rendered
  <2>6. TypeOK'
    BY <1>1, <1>3, <1>4, <1>6, <2>3 DEF IInv, TypeOK
  <2>7. ReadStands' /\ JobReadStands'
    BY <1>1, <2>1, <2>3 DEF IInv, ReadStands, JobReadStands
  <2>8. PaidWillShow'
    BY <2>3 DEF PaidWillShow
  <2>9. NeverAhead'
    BY <1>1, <2>1, <2>3 DEF IInv, NeverAhead
  <2>10. JobIsWatched'
    <3>1. poll \in polls'
      BY <1>1, <1>8
    <3> QED
      BY <1>2, <2>1, <2>3, <3>1 DEF JobIsWatched
  <2> QED
    BY <1>1, <1>5, <1>6, <2>3, <2>5, <2>6, <2>7, <2>8, <2>9, <2>10, ViewStep
<1>9. CASE ~(Current(s.view) /\ s.stage = "done")
  <2>1. SameView /\ (view # None => view'.busy = view.busy) /\ view' \in ViewState \cup {None}
    <3>1. CASE ~Current(s.view)
      <4>1. view' = view
        BY <1>1, <3>1 DEF Update, Current
      <4> QED
        BY <1>1, <4>1, SameViewHolds DEF IInv, TypeOK
    <3>2. CASE Current(s.view) /\ s.stage # "done"
      <4>1. view # None /\ view \in ViewState
        BY <3>2, OnScreenIsBooked DEF Current
      <4>2. view' = [view EXCEPT !.submitting = FALSE]
        BY <1>1, <3>2 DEF Update, Current
      <4>3. /\ view' \in ViewState /\ view'.busy = view.busy
            /\ view'.id = view.id /\ view'.res = view.res /\ view'.st = view.st
            /\ view'.read = view.read /\ view'.hydrating = view.hydrating
            /\ view'.job = view.job /\ view'.final = view.final /\ view'.odd = view.odd
        BY <4>1, <4>2 DEF ViewState
      <4> QED
        BY <1>1, <4>1, <4>3, NoneFacts DEF SameView
    <3> QED
      BY <1>9, <3>1, <3>2
  <2>2. TypeOK'
    BY <1>1, <1>3, <1>4, <1>6, <2>1 DEF IInv, TypeOK
  <2>3. JobReadStands'
    BY <1>1, <1>7, <2>1, JobReadStays
  <2>4. ReadStands' /\ PaidWillShow' /\ NeverAhead' /\ JobIsWatched'
    BY <1>1, <1>3, <1>4, <1>7, <2>1, ClaimsStay
  <2>5. SameScreen
    BY <2>1, SameViewScreen
  <2> QED
    BY <1>1, <1>5, <1>6, <2>1, <2>2, <2>3, <2>4, <2>5, ViewStep
<1> QED
  BY <1>8, <1>9

(* A view that asks the server finds it at work on a job only if that job  *)
(* is running: submissions of its own booking are remembered.              *)
LEMMA ReadStep ==
    ASSUME IInv, NEW l \in Legs, HydrateRead(l)
    PROVE  IInv'
<1> DEFINE r0 == Given[l]
           new == Read(r0)
           odd == IF \E s \in submits : s.res = Given THEN view.odd \cup {"skewed"} ELSE view.odd
<1>1. /\ view # None /\ view.hydrating
      /\ view' = [view EXCEPT !.read = [@ EXCEPT ![l] = Read(Given[l])],
            !.odd = IF \E s \in submits : s.res = Given THEN @ \cup {"skewed"} ELSE @]
      /\ UNCHANGED <<app, mounts, confirms, submits, polls, closing, row, job, history>>
  BY DEF HydrateRead, calls, server
<1>2. /\ view \in ViewState /\ IsPair(view.res) /\ view.res \in Bookings
      /\ view.res = Given \/ "reused" \in view.odd
      /\ r0 \in Resv /\ row[r0] # NoRow
      /\ view.res.a \in Resv /\ view.res.b \in Resv /\ view.res.b # None
      /\ view.res["a"] = view.res.a /\ view.res["b"] = view.res.b
  <2>1. /\ IsPair(view.res) /\ view.res \in Bookings /\ view \in ViewState
        /\ IsPair(Given) /\ Given \in Bookings /\ (view.res = Given \/ "reused" \in view.odd)
    BY <1>1, OnScreenIsBooked DEF IInv, Rendered
  <2>2. view.res.b # None /\ Given.b # None
    BY <2>1 DEF IsPair
  <2>3. r0 \in {Given.a, Given.b}
    BY <2>1, BookingsAreWhole DEF Legs
  <2> HIDE DEF r0
  <2> QED
    BY <1>1, <2>1, <2>2, <2>3, OnScreenRows, BookingsAreWhole
<1>3. new \in Seen /\ new.status = row[r0].status /\ new.job = (job[r0] # None)
  BY <1>2 DEF Read, Seen, IInv, RowsWhole
<1>4. /\ view' \in ViewState /\ view'.busy = view.busy
      /\ view'.id = view.id /\ view'.res = view.res /\ view'.st = view.st
      /\ view'.hydrating = view.hydrating
      /\ view'.job = view.job /\ view'.final = view.final /\ view'.odd = odd
      /\ view'.read = [view.read EXCEPT ![l] = new]
  <2>1. view.read \in [Legs -> Seen \cup {None}]
    BY <1>2 DEF ViewState
  <2>2. [view.read EXCEPT ![l] = new] \in [Legs -> Seen \cup {None}]
    BY <1>3, <2>1
  <2>3. odd \in SUBSET {"reused", "skewed", "raced"}
    BY <1>2 DEF ViewState
  <2>4. view' = [view EXCEPT !.read = [view.read EXCEPT ![l] = new], !.odd = odd]
    BY <1>1
  <2> HIDE DEF new, odd
  <2> QED
    BY <1>2, <2>2, <2>3, <2>4 DEF ViewState
<1>5. /\ view'.read[l] = new
      /\ \A k \in Legs : k # l => view'.read[k] = view.read[k]
  <2>1. view.read \in [Legs -> Seen \cup {None}]
    BY <1>2 DEF ViewState
  <2> QED
    BY <1>4, <2>1
<1>6. view' # None
  BY <1>4, NoneFacts
<1>7. view.odd \subseteq view'.odd
  BY <1>4
<1>8. SameScreen
  BY <1>1, <1>4, <1>6, <1>7 DEF SameScreen
<1>9. TypeOK'
  <2>1. UNCHANGED <<session, tab, single, pair, primary, reserving, asked, late, remounted>>
    BY <1>1 DEF app, history
  <2> QED
    BY <1>1, <1>4, <2>1 DEF IInv, TypeOK
<1>10. ReadStands'
  <2> SUFFICES ASSUME "reused" \notin view'.odd, NEW k \in Legs, view'.read[k] # None
               PROVE  /\ view'.read[k].status = "held" /\ "raced" \notin view'.odd =>
                            row[view.res[k]].status \in Unpaid
                      /\ view'.read[k].status = "confirmed" => row[view.res[k]].status \in Paid
    BY <1>1, <1>4 DEF ReadStands
  <2>1. CASE k = l
    <3>1. view.res[k] = r0
      BY <1>2, <1>7, <2>1
    <3> QED
      BY <1>3, <1>5, <2>1, <3>1 DEF Paid, Unpaid
  <2>2. CASE k # l
    BY <1>1, <1>5, <1>7, <2>2 DEF IInv, ReadStands
  <2> QED
    BY <2>1, <2>2
<1>11. JobReadStands'
  <2> SUFFICES ASSUME view'.odd \cap {"reused", "skewed"} = {}
               PROVE  /\ view'.read["a"] # None =>
                            IF view'.read["a"].job
                            THEN /\ view'.read["a"].status \in {"running", "over"}
                                 /\ view'.read["a"].status = "over" => row[view.res.a].status = "over"
                            ELSE job[view.res.a] = None
                      /\ view'.read["b"] # None /\ view'.read["b"].job => job[view.res.a] # None
    BY <1>1, <1>4 DEF JobReadStands
  <2>1. /\ view.odd \cap {"reused", "skewed"} = {}
        /\ view.res = Given /\ \A s \in submits : s.res # view.res
    BY <1>2, <1>4
  <2>2. /\ view.read["a"] # None =>
              IF view.read["a"].job
              THEN /\ view.read["a"].status \in {"running", "over"}
                   /\ view.read["a"].status = "over" => row[view.res.a].status = "over"
              ELSE job[view.res.a] = None
        /\ view.read["b"] # None /\ view.read["b"].job => job[view.res.a] # None
    BY <1>1, <2>1 DEF IInv, JobReadStands
  <2>3. CASE l = "a"
    <3>1. view'.read["b"] = view.read["b"] /\ r0 = view.res.a
      BY <1>2, <1>5, <2>1, <2>3 DEF Legs
    <3>2. ~Marking(view.res.a)
      <4> SUFFICES ASSUME NEW s \in submits, s.res.a = view.res.a \/ s.res.b = view.res.a PROVE FALSE
        BY DEF Marking
      <4>1. s.res \in Bookings
        BY SubmissionsAreBooked
      <4>2. s.res = view.res
        BY <1>2, <4>1 DEF IInv, BookingsApart
      <4> QED
        BY <2>1, <4>2
    <3>3. job[view.res.a] # None => row[view.res.a].status \in {"running", "over"}
      BY <1>2, <3>2 DEF IInv, JobsPaid, Paid
    <3> QED
      BY <1>3, <1>5, <2>2, <2>3, <3>1, <3>3
  <2>4. CASE l = "b"
    <3>1. view'.read["a"] = view.read["a"] /\ r0 = view.res.b
      BY <1>2, <1>5, <2>1, <2>4 DEF Legs
    <3>2. job[view.res.b] # None => job[view.res.a] # None
      BY <1>2 DEF IInv, JobsPaid
    <3> QED
      BY <1>3, <1>5, <2>2, <2>4, <3>1, <3>2
  <2> QED
    BY <2>3, <2>4 DEF Legs
<1>12. PaidWillShow'
  BY <1>1, <1>4 DEF PaidWillShow
<1>13. NeverAhead' /\ JobIsWatched'
  BY <1>1, <1>4, <1>7 DEF IInv, NeverAhead, JobIsWatched, IsPair, Nothing
<1> QED
  BY <1>1, <1>4, <1>8, <1>9, <1>10, <1>11, <1>12, <1>13, ViewStep

LEMMA HydrateFailsStep ==
    ASSUME IInv, HydrateFails
    PROVE  IInv'
<1>1. /\ view # None /\ view.hydrating
      /\ view' = [view EXCEPT !.hydrating = FALSE, !.read = Nothing, !.odd = @ \cup {"raced"}]
      /\ UNCHANGED <<app, mounts, confirms, submits, polls, closing, row, job, history>>
  BY DEF HydrateFails, calls, server
<1>2. view \in ViewState
  BY <1>1, OnScreenIsBooked
<1>3. /\ view' \in ViewState /\ view'.busy = view.busy
      /\ view'.id = view.id /\ view'.res = view.res /\ view'.st = view.st
      /\ ~view'.hydrating /\ view'.read = Nothing
      /\ view'.job = view.job /\ view'.final = view.final /\ view'.odd = view.odd \cup {"raced"}
  <2>1. Nothing \in [Legs -> Seen \cup {None}]
    <3>1. Nothing \in Booking
      BY BookingFacts
    <3> QED
      BY <3>1, NoneRead DEF Booking, Legs
  <2>2. view.odd \cup {"raced"} \in SUBSET {"reused", "skewed", "raced"}
    BY <1>2 DEF ViewState
  <2> QED
    BY <1>1, <1>2, <2>1, <2>2 DEF ViewState
<1>4. view' # None /\ \A l \in Legs : view'.read[l] = None
  BY <1>3, NoneFacts, NoneRead DEF Legs
<1>5. SameScreen
  BY <1>1, <1>3, <1>4 DEF SameScreen
<1>6. TypeOK'
  <2>1. UNCHANGED <<session, tab, single, pair, primary, reserving, asked, late, remounted>>
    BY <1>1 DEF app, history
  <2> QED
    BY <1>1, <1>3, <2>1 DEF IInv, TypeOK
<1>7. ReadStands' /\ JobReadStands'
  BY <1>4 DEF ReadStands, JobReadStands, Legs
<1>8. PaidWillShow'
  BY <1>3 DEF PaidWillShow
<1>9. NeverAhead' /\ JobIsWatched'
  BY <1>1, <1>3 DEF IInv, NeverAhead, JobIsWatched, IsPair, Nothing
<1> QED
  BY <1>1, <1>3, <1>5, <1>6, <1>7, <1>8, <1>9, ViewStep

(* Both answers are in: the view shows them, and takes the poll up again   *)
(* if they tell of a job that is running.                                  *)
LEMMA HydrateStep ==
    ASSUME IInv, Hydrate
    PROVE  IInv'
<1> DEFINE st == [l \in Legs |-> view.read[l].status]
           found == \E l \in Legs : view.read[l].job
           settled == found /\ \A l \in Legs : st[l] # "running"
<1>1. /\ view # None /\ view.hydrating /\ \A l \in Legs : view.read[l] # None
      /\ view' = [view EXCEPT !.hydrating = FALSE, !.st = st, !.job = @ \/ found, !.read = Nothing,
                              !.final = IF settled THEN st ELSE @]
      /\ polls' = polls \cup Resumed(view)
      /\ UNCHANGED <<app, mounts, confirms, submits, closing, row, job, history>>
  BY DEF Hydrate, Hydrated, server
<1>2. view \in ViewState /\ IsPair(view.res) /\ view.id \in 1..MaxViews /\ Given \in Booking
  BY <1>1, OnScreenIsBooked, BookingsAreWhole DEF IInv, Rendered, ViewState
<1>3. \A l \in Legs : view.read[l] \in Seen
  BY <1>1, <1>2 DEF ViewState
<1>4. \A l \in Legs : st[l] = view.read[l].status /\ st[l] \in Statuses /\ view.read[l].job \in BOOLEAN
  BY <1>3 DEF Seen
<1>5. st \in [Legs -> Statuses \cup {None}] /\ found \in BOOLEAN /\ settled \in BOOLEAN
  BY <1>4
<1>6. found <=> \E l \in Legs : view.read[l].job
  OBVIOUS
<1>7. settled <=> found /\ \A l \in Legs : st[l] # "running"
  OBVIOUS
<1> HIDE DEF st, found, settled
<1>8. /\ view' \in ViewState /\ view'.busy = view.busy
      /\ view'.id = view.id /\ view'.res = view.res /\ view'.st = st
      /\ ~view'.hydrating /\ view'.read = Nothing
      /\ view'.job = (view.job \/ found) /\ view'.odd = view.odd
      /\ view'.final = IF settled THEN st ELSE view.final
  <2>1. Nothing \in [Legs -> Seen \cup {None}]
    <3>1. Nothing \in Booking
      BY BookingFacts
    <3> QED
      BY <3>1, NoneRead DEF Booking, Legs
  <2>2. (view.job \/ found) \in BOOLEAN
    OBVIOUS
  <2>3. (IF settled THEN st ELSE view.final) \in [Legs -> Statuses \cup {None}]
    BY <1>2, <1>5 DEF ViewState
  <2> QED
    BY <1>1, <1>2, <1>5, <2>1, <2>2, <2>3 DEF ViewState
<1>9. view' # None /\ \A l \in Legs : view'.read[l] = None
  BY <1>8, NoneFacts, NoneRead DEF Legs
<1>10. SameScreen
  BY <1>1, <1>8, <1>9 DEF SameScreen
<1>11. /\ Resumed(view) \subseteq [view : 1..MaxViews, res : Booking]
       /\ \A p \in Resumed(view) : p.view = view.id /\ p.res = Given
       /\ found /\ (\E l \in Legs : st[l] = "running") => \E p \in Resumed(view) : p.view = view.id
  <2> DEFINE p == [view |-> view.id, res |-> Given]
             running == \E l \in Legs : view.read[l].status = "running"
  <2>1. p \in [view : 1..MaxViews, res : Booking] /\ p.view = view.id /\ p.res = Given
    BY <1>2
  <2>2. Resumed(view) = IF (\E l \in Legs : view.read[l].job) /\ running THEN {p} ELSE {}
    BY DEF Resumed
  <2>3. running <=> \E l \in Legs : st[l] = "running"
    BY <1>4
  <2> HIDE DEF p, running
  <2> QED
    BY <1>6, <2>1, <2>2, <2>3
<1>12. TypeOK'
  <2>1. UNCHANGED <<session, tab, single, pair, primary, reserving, asked, late, remounted>>
    BY <1>1 DEF app, history
  <2> QED
    BY <1>1, <1>8, <1>11, <2>1 DEF IInv, TypeOK
<1>13. ReadStands' /\ JobReadStands'
  BY <1>9 DEF ReadStands, JobReadStands, Legs
<1>14. PaidWillShow'
  <2> SUFFICES ASSUME view.odd \cap {"raced", "reused"} = {}, NEW l \in Legs, st[l] = "held"
               PROVE  row[view.res[l]].status \in Unpaid
    BY <1>1, <1>8 DEF PaidWillShow
  <2> QED
    BY <1>1, <1>4 DEF IInv, ReadStands
<1>15. NeverAhead'
  <2>1. ASSUME "reused" \notin view.odd, NEW l \in Legs, st[l] = "confirmed"
        PROVE  row[view.res[l]].status \in Paid
    BY <1>1, <1>4, <2>1 DEF IInv, ReadStands
  <2>2. ASSUME "reused" \notin view.odd, view'.final # Nothing, "skewed" \notin view.odd
        PROVE  row[view.res.a].status = "over"
    <3>1. CASE settled
      <4>1. /\ view.read["a"] # None /\ view.read["b"] # None
            /\ view.read["a"].job \/ view.read["b"].job
        BY <1>1, <1>6, <1>7, <3>1 DEF Legs
      <4>2. st["a"] # "running" /\ st["a"] = view.read["a"].status
        BY <1>4, <1>7, <3>1 DEF Legs
      <4>3. /\ IF view.read["a"].job
               THEN /\ view.read["a"].status \in {"running", "over"}
                    /\ view.read["a"].status = "over" => row[view.res.a].status = "over"
               ELSE job[view.res.a] = None
            /\ view.read["b"].job => job[view.res.a] # None
        BY <1>1, <2>2, <4>1 DEF IInv, JobReadStands
      <4> QED
        BY <4>1, <4>2, <4>3
    <3>2. CASE ~settled
      BY <1>1, <1>8, <2>2, <3>2 DEF IInv, NeverAhead
    <3> QED
      BY <3>1, <3>2
  <2> QED
    BY <1>1, <1>8, <2>1, <2>2 DEF NeverAhead, Paid
<1>16. JobIsWatched'
  <2> SUFFICES ASSUME view'.job, view'.final = Nothing, "reused" \notin view.odd
               PROVE  \E p \in polls' : p.view = view.id
    BY <1>8 DEF JobIsWatched
  <2>1. ~settled
    <3> SUFFICES ASSUME settled PROVE FALSE
      OBVIOUS
    <3>1. st["a"] = None
      BY <1>8, NoneRead
    <3> QED
      BY <1>4, <3>1, NoneFacts DEF Legs
  <2>2. CASE found
    BY <1>1, <1>7, <1>11, <2>1, <2>2
  <2>3. CASE ~found
    BY <1>1, <1>2, <1>8, <2>1, <2>3 DEF IInv, JobIsWatched
  <2> QED
    BY <2>2, <2>3
<1>17. \A p \in polls' : \/ \E t \in submits \cup polls : t.view = p.view /\ t.res = p.res
                         \/ view # None /\ p.view = view.id /\ p.res \in {view.res, Given}
  BY <1>1, <1>11
<1> QED
  BY <1>1, <1>8, <1>10, <1>12, <1>13, <1>14, <1>15, <1>16, <1>17, ViewStep

(* A poll finds the end of the job of its own booking, which is final.     *)
LEMMA PollStep ==
    ASSUME IInv, NEW p \in polls, Poll(p)
    PROVE  IInv'
<1> DEFINE st == [l \in Legs |-> IF p.res[l] = None THEN None ELSE row[p.res[l]].status]
<1>1. /\ job[p.res.a] = "done" /\ Settled(p) /\ polls' = polls \ {p}
      /\ IF IsPair(p.res)
         THEN /\ Update(p.view, [view EXCEPT !.st = st, !.final = st])
              /\ closing' \subseteq closing \cup {"pair"}
         ELSE closing' = closing \cup {"one"} /\ UNCHANGED view
      /\ UNCHANGED <<app, mounts, confirms, submits, row, job, history>>
  BY DEF Poll, server
<1>2. /\ p.res \in Bookings /\ p.res.a \in Resv /\ p.res.b \in Resv \cup {None}
      /\ p.res["a"] = p.res.a /\ p.res["b"] = p.res.b
  BY SubmissionsAreBooked
<1>3. UNCHANGED <<session, tab, single, pair, primary, reserving, asked, late, remounted>>
  BY <1>1 DEF app, history
<1>4. /\ polls' \subseteq [view : 1..MaxViews, res : Booking] /\ closing' \subseteq {"one", "pair"}
  BY <1>1 DEF IInv, TypeOK
<1>5. \A q \in polls' : \E t \in submits \cup polls : t.view = q.view /\ t.res = q.res
  BY <1>1
<1>6. RowsStay /\ RowsAdvance
  BY <1>1, RowsSame
<1>7. \A s \in submits : s \in submits'
  BY <1>1
<1>8. CASE Current(p.view) /\ IsPair(p.res)
  <2>1. view # None /\ view.id = p.view /\ view \in ViewState
    BY <1>8, OnScreenIsBooked DEF Current
  <2>2. view' = [view EXCEPT !.st = st, !.final = st]
    BY <1>1, <1>8, <2>1 DEF Update
  <2>3. p.res.b # None /\ p.res.b \in Resv
    BY <1>2, <1>8 DEF IsPair
  <2>4. row[p.res.a].status \in {"running", "over"} /\ row[p.res.b].status \in Paid
    <3>1. job[p.res.a] # None /\ job[p.res.a] # "running"
      BY <1>1, NoneFacts
    <3> QED
      BY <1>2, <2>3, <3>1 DEF IInv, JobsPaid, Paid
  <2>5. st["a"] = row[p.res.a].status /\ st["b"] = row[p.res.b].status
    BY <1>2, <2>3, NoneFacts DEF Legs
  <2>6. row[p.res.a].status = "over"
    BY <1>1, <1>2, <1>8, <2>4 DEF Settled, Legs
  <2>7. st \in [Legs -> Statuses \cup {None}] /\ \A l \in Legs : st[l] \in Paid
    <3>1. \A l \in Legs : st[l] \in Paid
      BY <2>4, <2>5 DEF Legs, Paid
    <3>2. Paid \subseteq Statuses \cup {None}
      BY DEF Paid, Statuses
    <3> QED
      BY <3>1, <3>2
  <2> HIDE DEF st
  <2>8. /\ view' \in ViewState /\ view'.busy = view.busy
        /\ view'.id = view.id /\ view'.res = view.res /\ view'.st = st
        /\ view'.read = view.read /\ view'.hydrating = view.hydrating
        /\ view'.job = view.job /\ view'.final = st /\ view'.odd = view.odd
    BY <2>1, <2>2, <2>7 DEF ViewState
  <2>9. view' # None
    BY <2>8, NoneFacts
  <2>10. SameScreen
    BY <1>1, <2>1, <2>8, <2>9 DEF SameScreen, IInv, Rendered
  <2>11. TypeOK'
    BY <1>1, <1>3, <1>4, <2>8 DEF IInv, TypeOK
  <2>12. ReadStands' /\ JobReadStands'
    BY <1>1, <2>1, <2>8 DEF IInv, ReadStands, JobReadStands
  <2>13. PaidWillShow'
    BY <2>7, <2>8 DEF PaidWillShow, Paid
  <2>14. NeverAhead'
    <3> SUFFICES ASSUME "reused" \notin view.odd
                 PROVE  /\ \A l \in Legs : row[view.res[l]].status \in Paid
                        /\ row[view.res.a].status = "over"
      BY <1>1, <2>8 DEF NeverAhead, Paid
    <3>1. p.res = view.res
      BY <1>8 DEF IInv, SubmitsSound
    <3> QED
      BY <1>2, <2>4, <2>6, <3>1 DEF Legs, Paid
  <2>15. JobIsWatched'
    <3>1. st # Nothing
      BY <2>7, NoneRead, NoneFacts DEF Legs, Paid, Statuses
    <3> QED
      BY <2>8, <3>1 DEF JobIsWatched
  <2> QED
    BY <1>1, <1>5, <1>7, <2>8, <2>10, <2>11, <2>12, <2>13, <2>14, <2>15, ViewStep
<1>9. CASE ~(Current(p.view) /\ IsPair(p.res))
  <2>1. view' = view
    BY <1>1, <1>9 DEF Update, Current
  <2>2. SameView /\ SameScreen
    <3>1. SameView
      BY <1>1, <2>1, SameViewHolds
    <3> QED
      BY <3>1, SameViewScreen
  <2>3. TypeOK'
    BY <1>1, <1>3, <1>4, <2>1 DEF IInv, TypeOK
  <2>4. ReadStands' /\ JobReadStands' /\ NeverAhead'
    BY <1>1, <2>1 DEF IInv, ReadStands, JobReadStands, NeverAhead
  <2>5. PaidWillShow'
    BY <1>1, <1>3, <2>1 DEF IInv, PaidWillShow, Current
  <2>6. JobIsWatched'
    <3> SUFFICES ASSUME view # None, view.job, view.final = Nothing, "reused" \notin view.odd
                 PROVE  \/ \E q \in polls' : q.view = view.id
                        \/ ~IsPair(view.res) /\ job[view.res.a] = "done"
      BY <1>1, <2>1 DEF JobIsWatched
    <3>1. \/ \E q \in polls : q.view = view.id
          \/ ~IsPair(view.res) /\ job[view.res.a] = "done"
      BY DEF IInv, JobIsWatched
    <3>2. CASE Current(p.view)
      <4>1. p.res = view.res
        BY <3>2 DEF IInv, SubmitsSound
      <4> QED
        BY <1>1, <1>9, <3>2, <4>1
    <3>3. CASE ~Current(p.view)
      BY <1>1, <3>1, <3>3 DEF Current
    <3> QED
      BY <3>2, <3>3
  <2> QED
    BY <1>1, <1>5, <1>7, <2>1, <2>2, <2>3, <2>4, <2>5, <2>6, ViewStep
<1> QED
  BY <1>8, <1>9

(* The server goes on by itself.                                           *)
LEMMA ServingStep ==
    ASSUME IInv, NEW r \in Resv, HoldExpires(r) \/ Serving(r)
    PROVE  IInv'
<1>1. /\ UNCHANGED <<app, view, mounts, confirms, submits, polls, closing, history>>
      /\ \/ job' = job /\ \/ row[r].status = "held" /\ row' = [row EXCEPT ![r].status = "expired"]
                          \/ row[r].status = "running" /\ row' = [row EXCEPT ![r].status = "over"]
         \/ /\ row[r].status = "running" /\ job[r] = "running" /\ row' = row
            /\ job' = [job EXCEPT ![r] = "done"]
  BY DEF HoldExpires, Serving, JobReports, JobSettles, calls
<1>2. row \in [Resv -> [owner : Users \cup {None}, status : Statuses \cup {None},
                        with : Resv \cup {None}]]
  BY DEF IInv, TypeOK
<1>3. /\ row' \in [Resv -> [owner : Users \cup {None}, status : Statuses \cup {None},
                            with : Resv \cup {None}]]
      /\ \A s \in Resv : s # r => row'[s] = row[s]
      /\ row'[r].owner = row[r].owner
      /\ \/ row'[r] = row[r]
         \/ row[r].status = "held" /\ row'[r].status = "expired"
         \/ row[r].status = "running" /\ row'[r].status = "over"
  BY <1>1, <1>2 DEF Statuses
<1>4. /\ job' \in [Resv -> {None, "running", "done"}]
      /\ \A s \in Resv : job'[s] = job[s] \/ (s = r /\ row[s].status = "running" /\ job[s] = "running"
                                                    /\ job'[s] = "done")
  BY <1>1 DEF IInv, TypeOK
<1>5. \A s \in Resv : (job'[s] = None <=> job[s] = None) /\ (job[s] = "done" => job'[s] = "done")
  BY <1>4, NoneFacts DEF Statuses
<1>6. RowsStay
  BY <1>3 DEF RowsStay, Paid, Unpaid
<1>7. RowsAdvance
  <2>1. row'[r] # row[r] => row[r] # NoRow /\ row'[r] # NoRow
    BY <1>3, NoneFacts DEF NoRow, Statuses
  <2> QED
    BY <1>3, <2>1 DEF IInv, RowsWhole, RowsAdvance, Paid, Unpaid, Statuses
<1>8. \A s \in Resv : /\ row'[s].status = "confirmed" <=> row[s].status = "confirmed"
                      /\ row[s].status = "confirmed" => job'[s] = job[s]
  BY <1>3, <1>4
<1>9. UNCHANGED <<session, tab, single, pair, primary, reserving, asked, late, remounted>>
  BY <1>1 DEF app, history
<1>10. JobsPaid'
  <2>1. Bookings' = Bookings
    BY <1>1, <1>9 DEF Bookings, One, Screen
  <2>2. \A s \in Resv : Marking(s) => Marking(s)'
    BY <1>1 DEF Marking
  <2>3. ASSUME NEW s \in Resv, job'[s] # None
        PROVE  /\ row'[s].status \in Paid
               /\ row'[s].status = "confirmed" => job'[s] = "running" /\ Marking(s)'
    <3>1. /\ row[s].status \in Paid
          /\ row[s].status = "confirmed" => job[s] = "running" /\ Marking(s)
      BY <1>5, <2>3 DEF IInv, JobsPaid
    <3> QED
      BY <1>6, <1>8, <2>2, <3>1 DEF RowsStay
  <2>4. ASSUME NEW x \in Bookings, x.b # None
        PROVE  /\ job'[x.b] # None => job'[x.a] # None
               /\ job'[x.a] # None => row'[x.b].status \in Paid
    <3>1. x.a \in Resv /\ x.b \in Resv
      BY <2>4, BookingsAreWhole
    <3>2. /\ job[x.b] # None => job[x.a] # None
          /\ job[x.a] # None => row[x.b].status \in Paid
      BY <2>4 DEF IInv, JobsPaid
    <3> QED
      BY <1>5, <1>6, <3>1, <3>2 DEF RowsStay
  <2> QED
    BY <2>1, <2>3, <2>4 DEF JobsPaid
<1>11. ServedOnce'
  <2>1. ASSUME NEW t \in submits, t.stage \in Served
        PROVE  /\ job'[t.res.a] # None
               /\ t.stage = "inserted a" => row'[t.res.a].status = "confirmed"
               /\ t.stage # "done" /\ t.res.b # None => row'[t.res.b].status = "confirmed"
               /\ t.stage = "sibling" => t.res.b # None
               /\ t.stage = "inserted b" => t.res.b # None /\ job'[t.res.b] # None
    <3>1. t.res.a \in Resv /\ (t.res.b # None => t.res.b \in Resv)
      BY SubmissionsAreBooked
    <3>2. /\ job[t.res.a] # None
          /\ t.stage = "inserted a" => row[t.res.a].status = "confirmed"
          /\ t.stage # "done" /\ t.res.b # None => row[t.res.b].status = "confirmed"
          /\ t.stage = "sibling" => t.res.b # None
          /\ t.stage = "inserted b" => t.res.b # None /\ job[t.res.b] # None
      BY <2>1 DEF IInv, ServedOnce
    <3> QED
      BY <1>5, <1>8, <3>1, <3>2
  <2> QED
    BY <1>1, <2>1 DEF IInv, ServedOnce
<1>12. SameView
  BY <1>1, SameViewHolds
<1>13. JobReadStands'
  <2>1. view # None => view.res.a \in Resv
    BY OnScreenRows
  <2> QED
    BY <1>5, <1>6, <1>12, <2>1, JobReadStays
<1>14. TypeOK'
  BY <1>1, <1>3, <1>4, <1>9 DEF IInv, TypeOK
<1>15. \A s \in submits' \cup polls' : \E t \in submits \cup polls : t.view = s.view /\ t.res = s.res
  BY <1>1
<1> QED
  BY <1>1, <1>5, <1>6, <1>7, <1>10, <1>11, <1>12, <1>13, <1>14, <1>15, ServerStep

LEMMA StutterStep ==
    ASSUME IInv, UNCHANGED vars
    PROVE  IInv'
<1>1. /\ UNCHANGED <<app, view, mounts, confirms, submits, polls, closing, row, job, history>>
  BY DEF vars, calls, server
<1>2. UNCHANGED <<session, tab, single, pair, primary, reserving, asked, late, remounted>>
  BY <1>1 DEF app, history
<1>3. SameView
  BY <1>1, SameViewHolds
<1>4. TypeOK'
  BY <1>1, <1>2 DEF IInv, TypeOK
<1>5. ConfirmsSound' /\ ButtonWaitsForItsCall'
  BY <1>1, <1>2 DEF IInv, ConfirmsSound, ButtonWaitsForItsCall, Current
<1>6. \A d \in confirms' : /\ d.leg \in Legs
                           /\ \/ \E e \in confirms : e.r = d.r /\ e.leg = d.leg
                              \/ view # None /\ d.r = view.res[d.leg] /\ d.r # None
  BY <1>1 DEF IInv, TypeOK
<1> QED
  BY <1>1, <1>3, <1>4, <1>5, <1>6, CallsStep

LEMMA Step == IInv /\ [Next]_vars => IInv'
<1> SUFFICES ASSUME IInv, [Next]_vars PROVE IInv'
  OBVIOUS
<1>1. CASE (\E u \in Users : SignIn(u)) \/ SignOut \/ SwitchTab
  BY <1>1, SessionStep
<1>2. CASE PickPrimary(TRUE) \/ PickPrimary(FALSE)
  BY <1>2, PickStep
<1>3. CASE \E kind \in {"one", "first"}, r \in Resv : Reserve(kind, r)
  BY <1>3, ReserveStep
<1>4. CASE \E q \in asked : Answering(q)
  BY <1>4, OneStep, FirstStep, SecondStep, RefusedStep, UnauthorizedStep DEF Answering
<1>5. CASE \E l \in Legs : Confirm(l)
  BY <1>5, ConfirmStep
<1>6. CASE \E c \in confirms : Confirming(c)
  BY <1>6, ServedStep, PaidStep, AnsweredStep DEF Confirming
<1>7. CASE Submit
  BY <1>7, SubmitStep
<1>8. CASE \E s \in submits : Submitting(s)
  BY <1>8, InsertStep, SiblingStep, SubmitAnsweredStep, MarksStep DEF Submitting
<1>9. CASE Hydrating
  BY <1>9, ReadStep, HydrateStep, HydrateFailsStep DEF Hydrating
<1>10. CASE \E p \in polls : Poll(p)
  BY <1>10, PollStep
<1>11. CASE \E kind \in {"one", "pair"} : Close(kind)
  BY <1>11, CloseStep
<1>12. CASE \E r \in Resv : HoldExpires(r) \/ Serving(r)
  BY <1>12, ServingStep
<1>13. CASE UNCHANGED vars
  BY <1>13, StutterStep
<1> QED
  BY <1>1, <1>2, <1>3, <1>4, <1>5, <1>6, <1>7, <1>8, <1>9, <1>10, <1>11, <1>12, <1>13 DEF Next
-----------------------------------------------------------------------------
(***************************************************************************)
(* What the page promises.                                                 *)
(***************************************************************************)

(* All that the argument says of the page, its calls and the server holds  *)
(* in every state, whatever the session does while calls are out.          *)
THEOREM InductiveInvariant == Spec => []IInv
<1> QED
  BY Start, Step, PTL DEF Spec

(* The state of App, of the view, of every call and of the server's rows   *)
(* keeps its form.                                                         *)
THEOREM TypeCorrect == Spec => []TypeOK
<1>1. IInv => TypeOK
  BY DEF IInv
<1> QED
  BY <1>1, InductiveInvariant, PTL

(* App.jsx: what is on screen was booked by who is signed in, unless its   *)
(* answer came to a session that had not asked for it.  A sign-out, an     *)
(* expired token or another tab never leaves a booking to the next user.   *)
THEOREM OthersBookingsHidden == Spec => []OwnBookingsShown
<1>1. IInv => OwnBookingsShown
  <2> SUFFICES ASSUME IInv, NEW r \in OnScreen \ late
               PROVE  row[r].owner = session
    BY DEF OwnBookingsShown, Mine
  <2>1. r # None
    BY DEF OnScreen
  <2> QED
    BY <2>1 DEF IInv, OwnHeld
<1> QED
  BY <1>1, InductiveInvariant, PTL

(* Both views: what is shown as confirmed has been paid for, and what is   *)
(* called final has been settled on the server, in whatever order the      *)
(* answers, the polls and the hydration of a pair come -- of a view that   *)
(* was never handed a second booking, and for what is final, of one that   *)
(* did not ask the server while its job was being submitted.               *)
THEOREM ViewsFollow == Spec => []NeverAhead
<1>1. IInv => NeverAhead
  BY DEF IInv
<1> QED
  BY <1>1, InductiveInvariant, PTL

(* confirm and confirmOne: a button of the view on screen is off exactly   *)
(* as long as the one call it started is undecided.  Checkouts that stay   *)
(* open after a failed payment, any number of them, and the calls of views *)
(* that are gone neither hold a button nor give one back.                  *)
THEOREM ButtonsAnswer == Spec => []ButtonWaitsForItsCall
<1>1. IInv => ButtonWaitsForItsCall
  BY DEF IInv
<1> QED
  BY <1>1, InductiveInvariant, PTL

(* The pair's mount effect: once the view has asked the server, a leg that *)
(* was paid for is not offered for payment again.  This is claimed of a    *)
(* leg whose earlier confirm calls belong to this very view, and of a view *)
(* that was handed no second pair, lost none of its own answers, and had   *)
(* no payment come from a failed Checkout or beside its questions: the     *)
(* provisos of PaidIsShown, which the argument cannot do without.          *)
THEOREM PaymentsShow == Spec => []PaidIsShown
<1>1. IInv => PaidIsShown
  <2> SUFFICES ASSUME IInv, view # None, IsPair(view.res), ~view.hydrating,
                      view.odd \cap {"raced", "reused"} = {},
                      NEW l \in Legs, view.st[l] = "held", l \notin view.busy,
                      view.res[l] \notin remounted
               PROVE  row[view.res[l]].status \in Unpaid
    BY DEF PaidIsShown, NotBusy, Unpaid
  <2>1. \A c \in confirms : Current(c.view) /\ c.leg = l => c.stage # "paid"
    BY DEF IInv, ButtonWaitsForItsCall, Waits, Current
  <2> QED
    BY <2>1 DEF IInv, PaidWillShow
<1> QED
  BY <1>1, InductiveInvariant, PTL

(* startPolling: a job that is on screen and not final has a poll of this  *)
(* very view, however the view came to know of it.                         *)
THEOREM JobsAreWatched == Spec => []JobIsWatched
<1>1. IInv => JobIsWatched
  BY DEF IInv
<1> QED
  BY <1>1, InductiveInvariant, PTL

=============================================================================
