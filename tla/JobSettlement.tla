--------------------------- MODULE JobSettlement ---------------------------
(***************************************************************************)
(* From a confirmed reservation to its settlement: POST /jobs with its     *)
(* optional verification sibling, POST /tiebreak, the JOB_RESULT handler,  *)
(* settleReservation, settleVerificationGroup and resolveDisputeTiebreaker *)
(* of api/server.js, with jobs/verification.js and providers/reputation.js.*)
(*                                                                         *)
(* Handlers are cut at the awaits between which another handler matters;   *)
(* statements that run in one database transaction are one step.  A        *)
(* request's job ids and its verification group are minted by the request, *)
(* so the group is named after the request and its two jobs after the two  *)
(* legs.  JOB_ACCEPTED and JOB_RESULT of a job travel in order on one      *)
(* socket, and a worker sends the result on the socket the job came from.  *)
(***************************************************************************)
EXTENDS Integers, Sequences, FiniteSets, SequencesExt

CONSTANTS Resv,        \* reservations the node and the platform both confirmed
          NodeOf,      \* the node of each (and with it the provider)
          Submits,     \* POST /reservations/:id/jobs requests
          Verified,    \* those of them that carry verify_against_reservation_id
          Tiebreaks,   \* POST /verification-groups/:id/tiebreak requests
          Results,     \* [status, output] records a JOB_RESULT may carry
          None

Requests == Submits \cup Tiebreaks
Jobs == Requests \X {1, 2}
Nodes == {NodeOf[r] : r \in Resv}
ExecStatus == {"succeeded", "failed", "timed_out", "oom_killed", "error"}

Final == {"completed", "failed_provider", "failed_user", "disputed"}

(* Three vocabularies: what the executor says, what jobs.status says and   *)
(* what a settlement is called.                                            *)
MapJobStatus(exec) == CASE exec = "succeeded" -> "succeeded"
                        [] exec \in {"failed", "timed_out", "oom_killed"} -> "failed_user"
                        [] OTHER -> "failed_provider"
JobStatusToSettlement(exec) ==
    IF exec = "succeeded" THEN "completed" ELSE MapJobStatus(exec)
RawOutcome(status) == status   \* mutant: jobs.status as the outcome
JobRowStatusToOutcome(status) ==
    IF status = "succeeded" THEN "completed" ELSE status

(* The hash covers the mapped status and the output.                       *)
Hash(result) == <<MapJobStatus(result.status), result.output>>

(* What the tables jobs and dispute_resolutions hold.                      *)
JobRow == [resv : Resv, group : Submits \cup {None},
           status : {"running", "succeeded", "failed_user", "failed_provider"},
           hash : {Hash(result) : result \in Results} \cup {None}]
ResolutionRow == [tb : Jobs, vindicated : Jobs \cup {None}, atFault : Jobs \cup {None}]

ASSUME SettlementAssumption ==
    /\ IsFiniteSet(Resv) /\ IsFiniteSet(Requests)
    /\ Submits \cap Tiebreaks = {} /\ Verified \subseteq Submits
    /\ Results \subseteq [status : ExecStatus, output : STRING]
    /\ None \notin Resv \cup Requests \cup Jobs \cup JobRow \cup ResolutionRow
                   \cup Final \cup {"success", "failure"}

VARIABLES
    row,         \* reservations.status
    job,         \* the jobs table
    settled,     \* outcome of each reservation's 'settle-<id>' transaction
    rep,         \* providers.rep_jobs_total and rep_jobs_failed
    resolution,  \* the dispute_resolutions table, by group
    req,         \* progress of each request
    wire,        \* what the link and the node are doing with each job
    handler,     \* progress of the JOB_RESULT handler of each job
    missed       \* history: what kept each job's result from being settled

tables == <<row, job, settled, rep, resolution>>
vars == <<tables, req, wire, handler, missed>>
-----------------------------------------------------------------------------
(* machine.js: the edges out of a confirmed or running reservation.        *)
Edges == [confirmed |-> {"running", "cancelled", "failed_provider"},
          running |-> {"completed", "failed_provider", "failed_user", "disputed"}]
CanTransition(from, to) == from \in DOMAIN Edges /\ to \in Edges[from]

ReputationEffect(outcome) == CASE outcome \in {"completed", "failed_user"} -> "success"
                               [] outcome = "failed_provider" -> "failure"
                               [] OTHER -> None
Bumped(node, effect) ==
    IF effect = None THEN rep
    ELSE [rep EXCEPT ![node].total = @ + 1,
                     ![node].failed = @ + (IF effect = "failure" THEN 1 ELSE 0)]

Match(j, k) == job[j].hash = job[k].hash

Group(g) == {j \in Jobs : job[j] # None /\ job[j].group = g}
Disputed(g) == {j \in Group(g) : row[job[j].resv] = "disputed"}
SomeDone(g) == /\ Cardinality(Group(g)) >= 2       \* mutant: some, not every
               /\ \E j \in Group(g) : job[j].status # "running"
GroupIsComplete(g) == /\ Cardinality(Group(g)) >= 2
                      /\ \A j \in Group(g) : job[j].status # "running"
HasJob(r) == \E j \in Jobs : job[j] # None /\ job[j].resv = r

(* The last thing that happened to each of these jobs is remembered.       *)
Miss(jobs, why) == missed' = [j \in Jobs |-> IF j \in jobs THEN why ELSE missed[j]]

NoReq == [pc |-> "idle", leg |-> 1, resv |-> None, sib |-> None, group |-> None]
NoHandler == [pc |-> "idle", group |-> None, todo |-> <<>>, tb |-> None, orig |-> {}]
Returned == [NoHandler EXCEPT !.pc = "done"]

Init ==
    /\ row = [r \in Resv |-> "confirmed"]
    /\ job = [j \in Jobs |-> None]
    /\ settled = [r \in Resv |-> None]
    /\ rep = [n \in Nodes |-> [total |-> 0, failed |-> 0]]
    /\ resolution = [q \in Requests |-> None]
    /\ req = [q \in Requests |-> NoReq]
    /\ wire = [j \in Jobs |-> "none"]
    /\ handler = [j \in Jobs |-> NoHandler]
    /\ missed = [j \in Jobs |-> "no"]
-----------------------------------------------------------------------------
(* POST /jobs: the target is confirmed; a sibling is confirmed too, on     *)
(* another node, and has no job.                                           *)
SubmitRead(q, r, s) ==
    /\ q \in Submits /\ req[q].pc = "idle"
    /\ row[r] = "confirmed"
    /\ q \in Verified <=> s # None
    /\ s # None => /\ row[s] = "confirmed"
                   /\ NodeOf[s] # NodeOf[r]
                   /\ ~HasJob(s)
    /\ req' = [req EXCEPT ![q] = [pc |-> "send", leg |-> 1, resv |-> r, sib |-> s,
                                  group |-> IF s = None THEN None ELSE q]]
    /\ UNCHANGED <<tables, wire, handler, missed>>

(* POST /tiebreak: an unresolved group with exactly two disputed jobs, and *)
(* a confirmed reservation without a job on a third node.                  *)
TiebreakRead(q, g, r) ==
    /\ q \in Tiebreaks /\ req[q].pc = "idle"
    /\ resolution[g] = None
    /\ Cardinality(Disputed(g)) = 2
    /\ row[r] = "confirmed"
    /\ \A j \in Disputed(g) : NodeOf[job[j].resv] # NodeOf[r]
    /\ ~HasJob(r)
    /\ req' = [req EXCEPT ![q] = [pc |-> "send", leg |-> 1, resv |-> r, sib |-> None,
                                  group |-> g]]
    /\ UNCHANGED <<tables, wire, handler, missed>>

Step(q, pc) == req' = [req EXCEPT ![q].pc = pc]
LegJob(q) == <<q, req[q].leg>>
LegResv(q) == IF req[q].leg = 1 THEN req[q].resv ELSE req[q].sib
LegOf(j) == IF j[2] = 1 THEN req[j[1]].resv ELSE req[j[1]].sib

(* The first leg's failure is an error response, the second's a degraded   *)
(* verification.                                                           *)
LegFails(q) == Step(q, IF req[q].leg = 1 THEN "done" ELSE "strip")

Send(q) ==
    /\ req[q].pc = "send"
    /\ Step(q, "awaiting")
    /\ wire' = [wire EXCEPT ![LegJob(q)] = "submitted"]
    /\ UNCHANGED <<tables, handler, missed>>

(* NodeOffline, or NodeTimeout while the node may yet take the job.        *)
SendFails(q) ==
    /\ req[q].pc \in {"send", "awaiting"}
    /\ LegFails(q)
    /\ UNCHANGED <<tables, wire, handler, missed>>

(* _on_job_submit takes the job, or refuses a reservation it has not       *)
(* confirmed; the hub resolves the submission if it is still waiting.      *)
Accepted(j) ==
    LET waiting == req[j[1]].pc = "awaiting" /\ LegJob(j[1]) = j IN
    /\ wire[j] = "submitted"
    /\ wire' = [wire EXCEPT ![j] = "running"]
    /\ IF waiting THEN Step(j[1], "insert") ELSE UNCHANGED req
    /\ UNCHANGED <<tables, handler, missed>>

Rejected(j) ==
    LET waiting == req[j[1]].pc = "awaiting" /\ LegJob(j[1]) = j IN
    /\ wire[j] = "submitted"
    /\ wire' = [wire EXCEPT ![j] = "over"]
    /\ IF waiting THEN LegFails(j[1]) ELSE UNCHANGED req
    /\ UNCHANGED <<tables, handler, missed>>

InsertJob(q) ==
    /\ req[q].pc = "insert"
    /\ job' = [job EXCEPT ![LegJob(q)] =
                  [resv |-> LegResv(q), group |-> req[q].group,
                   status |-> "running", hash |-> None]]
    /\ Step(q, "mark")
    /\ UNCHANGED <<row, settled, rep, resolution, wire, handler, missed>>

(* The reservation is running, whatever it was; then the sibling's turn.   *)
MarkRunning(q) ==
    /\ req[q].pc = "mark"
    /\ row' = [row EXCEPT ![LegResv(q)] = "running"]
    /\ req' = [req EXCEPT ![q] = IF @.leg = 1 /\ @.sib # None
                                 THEN [@ EXCEPT !.pc = "send", !.leg = 2]
                                 ELSE [@ EXCEPT !.pc = "done"]]
    /\ UNCHANGED <<job, settled, rep, resolution, wire, handler, missed>>

(* Degraded: the first job leaves its verification group.  If its result   *)
(* is in already, its handler has come and gone.                           *)
Strip(q) ==
    LET j == <<q, 1>> IN
    /\ req[q].pc = "strip"
    /\ job' = [job EXCEPT ![j].group = None]
    /\ Miss({k \in {j} : job[k].status # "running"}, "stripped")
    /\ Step(q, "done")
    /\ UNCHANGED <<row, settled, rep, resolution, wire, handler>>
-----------------------------------------------------------------------------
(* onJobResult: the UPDATE that stores the result.  Without a group the    *)
(* reservation is settled on its own; a job not (yet) in the table is only *)
(* logged.  One that is early, between the INSERT of its job and the       *)
(* UPDATE of its reservation, is stored but finds no edge to settle along. *)
ResultArrives(j, result) ==
    LET known == job[j] # None IN
    /\ wire[j] = "running"
    /\ wire' = [wire EXCEPT ![j] = "over"]
    /\ IF known
       THEN /\ job' = [job EXCEPT ![j].status = MapJobStatus(result.status),
                                  ![j].hash = Hash(result)]
            /\ handler' = [handler EXCEPT ![j] =
                 IF job[j].group # None
                 THEN [@ EXCEPT !.pc = "count", !.group = job[j].group]
                 ELSE [@ EXCEPT !.pc = "check", !.todo =
                         <<[resv |-> job[j].resv,
                            as |-> JobStatusToSettlement(result.status)]>>]]
       ELSE UNCHANGED <<job, handler>>
    /\ Miss({k \in {j} : known /\ row[job[k].resv] = "confirmed"}, "early")
    /\ UNCHANGED <<row, settled, rep, resolution, req>>

CountGroup(j) ==
    /\ handler[j].pc = "count"
    /\ handler' = [handler EXCEPT ![j].pc =
           IF Cardinality(Group(handler[j].group)) >= 3 THEN "resolve" ELSE "compare"]
    /\ UNCHANGED <<tables, req, wire, missed>>

(* settleVerificationGroup: once every job is done, settle each on its own *)
(* outcome if the first two agree, dispute them all if not.                *)
CompareGroup(j) ==
    LET g == handler[j].group IN
    /\ handler[j].pc = "compare"
    /\ IF GroupIsComplete(g)
       THEN \E seq \in SetToSeqs(Group(g)) :
              handler' = [handler EXCEPT ![j].pc = "check", ![j].todo =
                [i \in DOMAIN seq |->
                   [resv |-> job[seq[i]].resv,
                    as |-> IF Match(seq[1], seq[2])
                           THEN JobRowStatusToOutcome(job[seq[i]].status)
                           ELSE "disputed"]]]
       ELSE handler' = [handler EXCEPT ![j] = Returned]
    /\ UNCHANGED <<tables, req, wire, missed>>

(* resolveDisputeTiebreaker: settle the job whose reservation is not       *)
(* disputed, then hold it against the two that are.                        *)
ResolveRead(j) ==
    LET g == handler[j].group
        others == Group(g) \ Disputed(g)
    IN
    /\ handler[j].pc = "resolve"
    /\ IF GroupIsComplete(g) /\ Cardinality(Disputed(g)) = 2 /\ others # {}
       THEN \E t \in others :
              handler' = [handler EXCEPT
                 ![j].pc = "check", ![j].tb = t, ![j].orig = Disputed(g),
                 ![j].todo = <<[resv |-> job[t].resv,
                                as |-> JobRowStatusToOutcome(job[t].status)]>>]
       ELSE handler' = [handler EXCEPT ![j] = Returned]
    /\ UNCHANGED <<tables, req, wire, missed>>

(* settleReservation, first half: SELECT ... FOR UPDATE outside any        *)
(* transaction, so the lock is gone when it returns.                       *)
NextTodo(j) ==
    LET rest == Tail(handler[j].todo) IN
    handler' = [handler EXCEPT ![j] =
        IF rest # <<>> THEN [@ EXCEPT !.todo = rest, !.pc = "check"]
        ELSE IF @.tb # None THEN [@ EXCEPT !.todo = rest, !.pc = "attribute"]
        ELSE Returned]

SettleCheck(j) ==
    LET t == Head(handler[j].todo) IN
    /\ handler[j].pc = "check"
    /\ IF CanTransition(row[t.resv], t.as)
       THEN handler' = [handler EXCEPT ![j].pc = "txn"]
       ELSE NextTodo(j)
    /\ UNCHANGED <<tables, req, wire, missed>>

(* Second half: one transaction, undone if 'settle-<id>' exists already.   *)
SettleTxnNoKey(j) ==       \* mutant: no idempotency key
    LET t == Head(handler[j].todo) IN
    /\ handler[j].pc = "txn"
    /\ settled' = [settled EXCEPT ![t.resv] = t.as]
    /\ row' = [row EXCEPT ![t.resv] = t.as]
    /\ rep' = Bumped(NodeOf[t.resv], ReputationEffect(t.as))
    /\ NextTodo(j)
    /\ UNCHANGED <<job, resolution, req, wire, missed>>
SettleTxn(j) ==
    LET t == Head(handler[j].todo) IN
    /\ handler[j].pc = "txn"
    /\ IF settled[t.resv] = None
       THEN /\ settled' = [settled EXCEPT ![t.resv] = t.as]
            /\ row' = [row EXCEPT ![t.resv] = t.as]
            /\ rep' = Bumped(NodeOf[t.resv], ReputationEffect(t.as))
       ELSE UNCHANGED <<settled, row, rep>>
    /\ NextTodo(j)
    /\ UNCHANGED <<job, resolution, req, wire, missed>>

(* One transaction, undone if the group has a resolution already: the      *)
(* original that disagrees with the tiebreaker is at fault, if exactly one *)
(* does.                                                                   *)
AttributeSwapped(j) ==     \* mutant: blames the node the tiebreaker agrees with
    LET h == handler[j]
        agree == {k \in h.orig : Match(k, h.tb)}
    IN
    /\ h.pc = "attribute"
    /\ handler' = [handler EXCEPT ![j] = Returned]
    /\ resolution[h.group] = None /\ Cardinality(agree) = 1
    /\ \E f \in agree, v \in h.orig \ agree :
          /\ resolution' = [resolution EXCEPT ![h.group] =
                [tb |-> h.tb, vindicated |-> v, atFault |-> f]]
          /\ rep' = Bumped(NodeOf[job[f].resv], "failure")
    /\ UNCHANGED <<row, job, settled, req, wire, missed>>
AttributeAgain(j) ==       \* mutant: bumps before it looks for a resolution
    LET h == handler[j]
        agree == {k \in h.orig : Match(k, h.tb)}
    IN
    /\ h.pc = "attribute"
    /\ handler' = [handler EXCEPT ![j] = Returned]
    /\ Cardinality(agree) = 1
    /\ \E v \in agree, f \in h.orig \ agree :
          /\ resolution' = [resolution EXCEPT ![h.group] =
                [tb |-> h.tb, vindicated |-> v, atFault |-> f]]
          /\ rep' = Bumped(NodeOf[job[f].resv], "failure")
    /\ UNCHANGED <<row, job, settled, req, wire, missed>>
Attribute(j) ==
    LET h == handler[j]
        agree == {k \in h.orig : Match(k, h.tb)}
        differ == h.orig \ agree
    IN
    /\ h.pc = "attribute"
    /\ handler' = [handler EXCEPT ![j] = Returned]
    /\ IF resolution[h.group] # None THEN UNCHANGED <<resolution, rep>>
       ELSE IF Cardinality(agree) = 1
       THEN \E v \in agree, f \in differ :
              /\ resolution' = [resolution EXCEPT ![h.group] =
                    [tb |-> h.tb, vindicated |-> v, atFault |-> f]]
              /\ rep' = Bumped(NodeOf[job[f].resv], "failure")
       ELSE /\ resolution' = [resolution EXCEPT ![h.group] =
                    [tb |-> h.tb, vindicated |-> None, atFault |-> None]]
            /\ UNCHANGED rep
    /\ UNCHANGED <<row, job, settled, req, wire, missed>>
-----------------------------------------------------------------------------
(* The socket of a node dies: answers and results on their way, and those  *)
(* of the jobs it is running, are lost for good.                           *)
InFlight == {"submitted", "running"}
LinkDrops(n) ==
    LET gone == {j \in Jobs : wire[j] \in InFlight /\ NodeOf[LegOf(j)] = n} IN
    /\ gone # {}
    /\ wire' = [j \in Jobs |-> IF j \in gone THEN "over" ELSE wire[j]]
    /\ UNCHANGED <<tables, req, handler, missed>>

(* The platform process dies: its handlers and all its sockets with it.    *)
PlatformCrash ==
    /\ wire' = [j \in Jobs |-> IF wire[j] = "none" THEN "none" ELSE "over"]
    /\ req' = [q \in Requests |-> IF req[q].pc = "idle" THEN req[q]
                                  ELSE [req[q] EXCEPT !.pc = "done"]]
    /\ handler' = [j \in Jobs |-> IF handler[j].pc = "idle" THEN NoHandler ELSE Returned]
    /\ Miss({j \in Jobs : /\ job[j] # None /\ job[j].status # "running"
                           /\ \/ settled[job[j].resv] = None
                              \/ handler[j].pc \notin {"idle", "done"}}, "crash")
    /\ UNCHANGED tables

Requesting(q) == \/ Send(q) \/ SendFails(q) \/ InsertJob(q) \/ MarkRunning(q)
                 \/ Strip(q)
Handling(j) == \/ CountGroup(j) \/ CompareGroup(j) \/ ResolveRead(j)
               \/ SettleCheck(j) \/ SettleTxn(j) \/ Attribute(j)
Work == \/ \E q \in Requests, r \in Resv :
              \/ \E s \in Resv \cup {None} : SubmitRead(q, r, s)
              \/ \E g \in Submits : TiebreakRead(q, g, r)
        \/ \E q \in Requests : Requesting(q)
        \/ \E j \in Jobs : \/ Accepted(j) \/ Rejected(j) \/ Handling(j)
                           \/ \E result \in Results : ResultArrives(j, result)
        \/ \E n \in Nodes : LinkDrops(n)
Next == Work \/ PlatformCrash

Spec == Init /\ [][Next]_vars

(* Handlers run to their end once the event loop and the database get to   *)
(* them.  Nobody has to submit a job, answer or report.                    *)
Fairness == /\ \A q \in Requests : WF_vars(Requesting(q))
            /\ \A j \in Jobs : WF_vars(Handling(j))
LiveSpec == Spec /\ Fairness
-----------------------------------------------------------------------------
RequestState ==
    [pc : {"idle", "send", "awaiting", "insert", "mark", "strip", "done"}, leg : {1, 2},
     resv : Resv \cup {None}, sib : Resv \cup {None}, group : Submits \cup {None}]
HandlerState ==
    [pc : {"idle", "count", "compare", "resolve", "check", "txn", "attribute", "done"},
     group : Submits \cup {None}, todo : Seq([resv : Resv, as : Final]),
     tb : Jobs \cup {None}, orig : SUBSET Jobs]

TypeOK ==
    /\ row \in [Resv -> {"confirmed", "running"} \cup Final]
    /\ job \in [Jobs -> JobRow \cup {None}]
    /\ settled \in [Resv -> Final \cup {None}]
    /\ rep \in [Nodes -> [total : Nat, failed : Nat]]
    /\ resolution \in [Requests -> ResolutionRow \cup {None}]
    /\ req \in [Requests -> RequestState]
    /\ wire \in [Jobs -> InFlight \cup {"none", "over"}]
    /\ handler \in [Jobs -> HandlerState]

(* A reservation is paid, billed or refunded only on what its own job      *)
(* reported, and a job that was to be verified only on a result both nodes *)
(* returned; a dispute needs two results that differ.                      *)
SettlementJustified ==
    \A r \in Resv : settled[r] # None =>
       \E j \in Jobs :
          LET mates == {k \in Group(j[1]) : k[1] = j[1]} \ {j} IN
          /\ job[j] # None /\ job[j].resv = r /\ job[j].status # "running"
          /\ IF settled[r] = "disputed"
             THEN /\ job[j].group # None
                  /\ \E k, l \in Group(job[j].group) : job[k].hash # job[l].hash
             ELSE /\ settled[r] = JobRowStatusToOutcome(job[j].status)
                  /\ \A k \in mates : job[j].hash = job[k].hash

(* However the handlers of a group interleave, each settlement and each    *)
(* attribution moves the provider's counters exactly once, and the right   *)
(* way.                                                                    *)
ReputationMatchesLedger ==
    \A n \in Nodes :
       LET mine == {r \in Resv : NodeOf[r] = n}
           blamed == {g \in Submits : resolution[g] # None /\ resolution[g].atFault # None
                         /\ NodeOf[job[resolution[g].atFault].resv] = n}
           bad == Cardinality({r \in mine : settled[r] = "failed_provider"})
                     + Cardinality(blamed)
       IN rep[n] = [total |-> bad + Cardinality({r \in mine :
                                 settled[r] \in {"completed", "failed_user"}}),
                    failed |-> bad]

(* Fault falls on a node of the disputed pair, refunded already, that the  *)
(* third node contradicts while it agrees with the other.  A reservation   *)
(* of the group with a second job is left out: starting that job takes the *)
(* reservation out of "disputed" (MarkRunning), and the pair with it.      *)
Alone(j) == \A k \in Jobs : job[k] # None /\ job[k].resv = job[j].resv => k = j
Single(g) == \A j \in Group(g) : Alone(j)
FaultFairlyAttributed ==
    \A g \in Submits :
       resolution[g] # None /\ resolution[g].atFault # None /\ Single(g) =>
       LET f == resolution[g].atFault
           v == resolution[g].vindicated
           t == resolution[g].tb
       IN /\ {f, v} = {<<g, 1>>, <<g, 2>>} /\ t[1] # g
          /\ settled[job[f].resv] = "disputed" /\ settled[job[v].resv] = "disputed"
          /\ job[v].hash = job[t].hash /\ job[f].hash # job[t].hash
          /\ Cardinality({NodeOf[job[k].resv] : k \in {f, v, t}}) = 3

(* A stored result, with all the others of its group if it has one.        *)
Reported(j) == /\ job[j] # None
               /\ job[j].status # "running"
               /\ job[j].group # None => GroupIsComplete(job[j].group)
Paid(j) == job[j] # None /\ settled[job[j].resv] # None
(* A group as the code expects it: a pair and at most one tiebreak, each   *)
(* the only job of its reservation.                                        *)
Orderly(j) == job[j].group # None => /\ Cardinality(Group(job[j].group)) <= 3
                                     /\ Single(job[j].group)

(* Money does not silently fail to settle: whichever of a group's handlers *)
(* comes last, a stored result ends in a settlement.  In these cases, and  *)
(* no other, the code does not see to it: the result came before its       *)
(* reservation was marked running (early), its job was stripped of its     *)
(* group only afterwards, though server.js:1148 wants such a job settled   *)
(* solo (stripped), the platform died between the result and the end of    *)
(* its handler (crash), its group has a second tiebreak, of which          *)
(* jobs.find (server.js:1554) settles only one, or a reservation of its    *)
(* group has two jobs (~Orderly).                                          *)
EveryResultSettles == \A j \in Jobs :
    Reported(j) ~> (Paid(j) \/ missed[j] # "no" \/ (job[j] # None /\ ~Orderly(j)))

=============================================================================
