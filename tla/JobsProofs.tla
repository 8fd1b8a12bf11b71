----------------------------- MODULE JobsProofs -----------------------------
(***************************************************************************)
(* Proofs about the job handlers, for any number of workers and jobs, any  *)
(* access levels and any requests: the internal reader is closed once, a   *)
(* hidden job cannot be told from none, a job is cancelled only under the  *)
(* authority its user or UPDATE gives, a purge that is reported done is    *)
(* done, and a list shows what the policy says, while JES2 works on the    *)
(* queue between the calls of a handler.                                   *)
(*                                                                         *)
(* What a handler found at its lookup is compared with what the queue has  *)
(* now: numbers are not given out again, so what is there under the number *)
(* is still the same job, of the same user.  The rows of a list are those  *)
(* of a scan, by induction over the entries it has passed.                 *)
(***************************************************************************)
EXTENDS Jobs, TLAPS, FiniteSetTheorems, NaturalsInduction, WellFoundedInduction

-----------------------------------------------------------------------------
(* The inductive invariant. *)

\* The fields of a request; what the invariant does not look at is as it is.
Shape(q) ==
    q \in [pc : Steps, r : Requests \cup {None}, job : Job \cup {None},
           verdict : {"allow", "nopurge", "hide"}, filter : {q.filter}, rows : {q.rows},
           looks : 0 .. PurgeLooks, blind : BOOLEAN,
           rdr : {"none", "open", "closed", "left"}, ptr : BOOLEAN,
           cards : {q.cards}, put : {q.put}, id : {q.id}, ans : Answers,
           builder : BOOLEAN, n : 0 .. MaxRequests]

OneJobOps == {"status", "files", "records", "purge", "cancel"}
SubmitSteps == {"headers", "content", "reader", "lines", "card", "put", "close", "own"}

\* Where a request of each kind can be, and what it has by then.
Stage(q) ==
    /\ q.ans = "none" <=> q.pc # "quit"
    /\ q.ptr <=> q.rdr = "open"
    /\ q.pc = "idle" => q.rdr \in {"none", "left"}
    /\ q.rdr = "left" => q.pc = "idle"
    /\ q.pc # "idle" => q.r \in Requests /\ q.n >= 1
    /\ q.pc # "quit" => q.looks < PurgeLooks
    /\ q.pc \in {"probe", "listing"} => q.r.op = "list"
    /\ q.pc \in SubmitSteps => q.r.op = "submit"
    /\ q.pc \in {"body", "lookup", "ddid", "spool", "cancel", "look"} => q.r.op \in OneJobOps
    /\ q.pc \in {"body", "lookup"} => q.job = None
    /\ q.pc \in {"ddid", "spool", "cancel", "look"} => q.job # None
    /\ q.pc \in {"cancel", "look"} => q.r.op \in {"purge", "cancel"}
    /\ q.pc \in {"ddid", "spool"} => q.r.op = "records"

\* The job a lookup found was one the caller may see, and may purge where it goes on to.
Found(q) ==
    q.pc # "idle" /\ q.r.op \in OneJobOps =>
      /\ q.job # None => /\ MayRead(q.r.user, q.job)
                         /\ q.job.owner \in {Blank, q.job.user}
                         /\ q.id \in Ids
      /\ q.pc \in {"cancel", "look"} =>
           q.job.owner = q.r.user \/ Racf(q.r.user, q.job.owner, q.job.name) = "update"
      /\ q.ans # "404" => q.job # None \/ q.id = None
      /\ q.ans \in {"200", "empty", "gone", "pending", "denied"} => q.job # None
      /\ q.ans = "denied" => Racf(q.r.user, q.job.owner, q.job.name) = "read"

\* What the queue has under the number is the job that was found; it is ended by the
\* time it is looked for, and nobody changes its owner then.
StillIn(q, Q, nx) ==
    q.pc # "idle" /\ q.r.op \in OneJobOps /\ q.job # None =>
      /\ q.id < nx
      /\ Q[q.id] # None => Q[q.id].user = q.job.user /\ Q[q.id].name = q.job.name
      /\ q.pc = "look" => Q[q.id] = None \/ Q[q.id].q = "OUTPUT"
      /\ q.pc = "quit" /\ q.r.op = "purge" /\ q.ans = "200" =>
           \/ Q[q.id] = None
           \/ q.blind
           \/ Q[q.id].q = "OUTPUT" /\ ~MayRead(q.r.user, Q[q.id])

QueueOK ==
    /\ queue \in [Ids -> Job \cup {None}]
    /\ next \in 1 .. MaxJobs + 1
    /\ \A i \in Ids : queue[i] # None => i < next /\ queue[i].owner \in {Blank, queue[i].user}

Counters ==
    /\ entered \in [Ids -> {None} \cup 1 .. MaxRequests]
    /\ count \in 0 .. MaxRequests /\ faults \in 0 .. MaxFaults /\ moves \in 0 .. MaxMoves

Good(q) == Shape(q) /\ Stage(q) /\ Found(q)

JobsInv ==
    /\ QueueOK /\ Counters
    /\ rq = [w \in Workers |-> rq[w]]
    /\ \A w \in Workers : Good(rq[w]) /\ StillIn(rq[w], queue, next)

-----------------------------------------------------------------------------
(* Steps of one worker, and of the queue. *)

LEMMA Bounds ==
    /\ MaxJobs \in Nat \ {0} /\ PurgeLooks \in Nat \ {0}
    /\ MaxRequests \in Nat /\ MaxFaults \in Nat /\ MaxMoves \in Nat
    /\ None \notin Ids /\ Prod \in Users /\ Blank \notin Users
    /\ "*" \notin Users /\ None \notin Users /\ None # "*"
BY JobsAssumption, Zenon

LEMMA Asked ==
    ASSUME NEW r \in Requests
    PROVE  /\ r.op \in Ops /\ r.user \in Users /\ (r.op = "submit" => r.name \in Names)
           /\ r.op = "list" => r.max \in Nat
BY JobsAssumption, Zenon

LEMMA NoRequestGood == Good(NoRequest) /\ NoRequest.pc = "idle"
<1> USE Bounds
<1>1. Shape(NoRequest)
  BY DEF Shape, NoRequest, Steps, Answers
<1>2. Stage(NoRequest) /\ Found(NoRequest) /\ NoRequest.pc = "idle"
  BY DEF Stage, Found, NoRequest, SubmitSteps
<1> QED
  BY <1>1, <1>2 DEF Good

LEMMA InitJobs == Init => JobsInv
<1> SUFFICES ASSUME Init PROVE JobsInv
  OBVIOUS
<1> USE Bounds
<1>1. QueueOK
  <2>1. PICK k \in 0 .. MaxJobs : {i \in Ids : Start0[i] # None} = 1 .. k
    BY JobsAssumption, Zenon
  <2>2. Cardinality(1 .. k) = k
    <3>1. 1 \in Int /\ k \in Int /\ k >= 0 /\ (1 > k <=> k = 0)
      OBVIOUS
    <3>2. Cardinality(1 .. k) = IF 1 > k THEN 0 ELSE k - 1 + 1
      BY <3>1, FS_Interval
    <3> QED
      BY <3>1, <3>2
  <2>3. next = k + 1 /\ queue = Start0
    BY <2>1, <2>2 DEF Init
  <2>4. ASSUME NEW i \in Ids, queue[i] # None PROVE i < next
    <3>1. i \in 1 .. k
      BY <2>1, <2>3, <2>4
    <3> QED
      BY <2>3, <3>1
  <2>5. queue \in [Ids -> Job \cup {None}]
    BY <2>3, JobsAssumption, Zenon
  <2>6. \A i \in Ids : queue[i] # None => queue[i].owner \in {Blank, queue[i].user}
    BY <2>3, JobsAssumption, Zenon
  <2>7. next \in 1 .. MaxJobs + 1
    BY <2>3
  <2> QED
    BY <2>4, <2>5, <2>6, <2>7 DEF QueueOK
<1>2. Counters
  BY DEF Init, Counters
<1>3. Good(NoRequest) /\ NoRequest.pc = "idle"
  BY NoRequestGood
<1>4. ASSUME NEW w \in Workers PROVE rq[w] = NoRequest
  BY DEF Init
<1>5. rq = [w \in Workers |-> rq[w]]
  BY DEF Init
<1> QED
  BY <1>1, <1>2, <1>3, <1>4, <1>5 DEF JobsInv, StillIn

\* JES2 keeps the number, name and user of a job while it is there, and the owner of one
\* that has ended; numbers below next are not given out again.
QueueKeeps ==
    /\ next <= next'
    /\ \A i \in Ids : i < next =>
         \/ queue'[i] = queue[i] \/ queue'[i] = None
         \/ /\ queue[i] # None /\ queue'[i].user = queue[i].user
            /\ queue'[i].name = queue[i].name
            /\ queue[i].q = "OUTPUT" => queue'[i].q = "OUTPUT" /\ queue'[i].owner = queue[i].owner

LEMMA KeptStill ==
    ASSUME JobsInv, QueueKeeps, QueueOK', NEW q, Good(q), StillIn(q, queue, next)
    PROVE  StillIn(q, queue', next')
<1> SUFFICES ASSUME q.pc # "idle", q.r.op \in OneJobOps, q.job # None
             PROVE  StillIn(q, queue', next')
  BY DEF StillIn
<1>1. q.id \in Ids /\ q.id < next /\ next \in Nat /\ next' \in Nat
  BY Bounds DEF Good, Found, StillIn, JobsInv, QueueOK
<1>2. q.id < next'
  BY <1>1 DEF QueueKeeps, Ids
<1>3. \/ queue'[q.id] = queue[q.id] \/ queue'[q.id] = None
      \/ /\ queue[q.id] # None /\ queue'[q.id].user = queue[q.id].user
         /\ queue'[q.id].name = queue[q.id].name
         /\ queue[q.id].q = "OUTPUT" =>
              queue'[q.id].q = "OUTPUT" /\ queue'[q.id].owner = queue[q.id].owner
  BY <1>1 DEF QueueKeeps
<1>4. CASE queue'[q.id] = queue[q.id]
  BY <1>2, <1>4 DEF StillIn
<1>5. CASE queue'[q.id] = None
  BY <1>2, <1>5 DEF StillIn
<1>6. CASE /\ queue[q.id] # None /\ queue'[q.id].user = queue[q.id].user
           /\ queue'[q.id].name = queue[q.id].name
           /\ queue[q.id].q = "OUTPUT" =>
                queue'[q.id].q = "OUTPUT" /\ queue'[q.id].owner = queue[q.id].owner
  BY <1>2, <1>6 DEF StillIn, MayRead, Racf
<1> QED
  BY <1>3, <1>4, <1>5, <1>6

\* A worker goes on with q; JES2 may change the queue with it.
LEMMA MoveInv ==
    ASSUME JobsInv, NEW w \in Workers, NEW q, rq' = [rq EXCEPT ![w] = q],
           QueueKeeps, QueueOK', Counters', Good(q), StillIn(q, queue', next')
    PROVE  JobsInv'
<1>1. rq' = [v \in Workers |-> rq'[v]]
  BY DEF JobsInv
<1>2. ASSUME NEW v \in Workers PROVE Good(rq'[v]) /\ StillIn(rq'[v], queue', next')
  <2>1. rq'[v] = IF v = w THEN q ELSE rq[v]
    BY DEF JobsInv
  <2>2. Good(rq[v]) /\ StillIn(rq[v], queue, next)
    BY DEF JobsInv
  <2>3. StillIn(rq[v], queue', next')
    BY <2>2, KeptStill
  <2> QED
    BY <2>1, <2>2, <2>3
<1> QED
  BY <1>1, <1>2 DEF JobsInv

LEMMA CountersKept ==
    ASSUME JobsInv, UNCHANGED <<entered, count, moves>>, NoFault \/ Fault PROVE Counters'
BY Bounds DEF JobsInv, Counters, NoFault, Fault

\* A step that leaves the queue alone.
Steps1(w, q) == Go(w, q) /\ UNCHANGED <<count, moves>> /\ (NoFault \/ Fault)

LEMMA GoInv ==
    ASSUME JobsInv, NEW w \in Workers, NEW q, Steps1(w, q), Good(q), StillIn(q, queue, next)
    PROVE  JobsInv'
<1>0. UNCHANGED <<queue, next, entered, count, moves>> /\ (NoFault \/ Fault)
  BY DEF Steps1, Go
<1>1. QueueOK' /\ QueueKeeps /\ Counters'
  <2>1. QueueOK'
    BY <1>0 DEF JobsInv, QueueOK
  <2>2. QueueKeeps
    BY <1>0, <2>1, Bounds DEF QueueKeeps, QueueOK
  <2> QED
    BY <1>0, <2>1, <2>2, CountersKept
<1>2. StillIn(q, queue', next') /\ rq' = [rq EXCEPT ![w] = q]
  BY DEF Steps1, Go
<1> QED
  BY <1>1, <1>2, MoveInv

\* What the invariant says of one worker.
LEMMA TypedJob ==
    ASSUME JobsInv, NEW w \in Workers
    PROVE  Good(rq[w]) /\ StillIn(rq[w], queue, next)
BY DEF JobsInv

\* An answer keeps the rest of the request.
LEMMA AnsweredFields ==
    ASSUME NEW q, Shape(q), NEW a \in Answers
    PROVE  LET n == Answered(q, a) IN
           /\ Shape(n) /\ n.pc = "quit" /\ n.ans = a
           /\ n.r = q.r /\ n.job = q.job /\ n.id = q.id /\ n.blind = q.blind
           /\ n.ptr = q.ptr /\ n.rdr = q.rdr /\ n.n = q.n /\ n.looks = q.looks
BY DEF Answered, Shape, Steps

\* An answer that does not depend on the job: to a list, to a submit, or a refusal.
Plain(q, a) == q.r.op \notin OneJobOps \/ a \in {"400", "404", "413", "500", "nods", "closed"}

LEMMA AnsweredGood ==
    ASSUME NEW q, Good(q), q.pc \notin {"idle", "quit"}, NEW a \in Answers \ {"none"}, Plain(q, a)
    PROVE  Good(Answered(q, a)) /\ (StillIn(q, queue, next) => StillIn(Answered(q, a), queue, next))
<1> DEFINE n == Answered(q, a)
<1>1. /\ Shape(n) /\ n.pc = "quit" /\ n.ans = a
      /\ n.r = q.r /\ n.job = q.job /\ n.id = q.id /\ n.blind = q.blind
      /\ n.ptr = q.ptr /\ n.rdr = q.rdr /\ n.n = q.n /\ n.looks = q.looks
  BY AnsweredFields DEF Good
<1> HIDE DEF n
<1>2. Stage(n)
  BY <1>1 DEF Good, Stage, SubmitSteps
<1>3. Found(n)
  BY <1>1 DEF Good, Stage, Found, Plain
<1>4. StillIn(q, queue, next) => StillIn(n, queue, next)
  BY <1>1 DEF StillIn, Plain
<1> QED
  BY <1>1, <1>2, <1>3, <1>4 DEF Good, n

LEMMA PlainAnswer ==
    ASSUME JobsInv, NEW w \in Workers, NEW a \in Answers \ {"none"},
           Steps1(w, Answered(rq[w], a)), rq[w].pc \notin {"idle", "quit"}, Plain(rq[w], a)
    PROVE  JobsInv'
BY TypedJob, AnsweredGood, GoInv

-----------------------------------------------------------------------------
(* The actions that leave the queue alone. *)

\* A step to pc p that changes nothing else the invariant looks at.
LEMMA OnwardInv ==
    ASSUME JobsInv, NEW w \in Workers, NEW q, Steps1(w, q), Shape(q),
           q.pc \in SubmitSteps \cup {"listing", "lookup", "spool"},
           q.ans = rq[w].ans, rq[w].pc \notin {"idle", "quit"}, q.r = rq[w].r, q.n = rq[w].n,
           q.job = rq[w].job, q.id = rq[w].id, q.looks = rq[w].looks, q.ptr <=> q.rdr = "open",
           q.rdr # "left", q.pc \in SubmitSteps => q.r.op = "submit",
           q.pc = "listing" => q.r.op = "list",
           q.pc = "lookup" => rq[w].pc = "body",
           q.pc = "spool" => rq[w].pc = "ddid"
    PROVE  JobsInv'
<1>1. Good(rq[w]) /\ StillIn(rq[w], queue, next)
  BY TypedJob
<1>2. q.pc \notin {"idle", "quit", "probe", "body", "ddid", "cancel", "look"}
  BY DEF SubmitSteps
<1>3. q.pc \in SubmitSteps => q.pc \notin {"listing", "lookup", "spool"}
  BY DEF SubmitSteps
<1>4. Stage(q)
  BY <1>1, <1>2, <1>3 DEF Good, Stage, OneJobOps
<1>5. Found(q)
  BY <1>1, <1>2 DEF Good, Found
<1>6. StillIn(q, queue, next)
  BY <1>1, <1>2 DEF StillIn
<1> QED
  BY <1>4, <1>5, <1>6, GoInv DEF Good

LEMMA CancelBodyInv ==
    ASSUME JobsInv, NEW w \in Workers, CancelBody(w), UNCHANGED moves PROVE JobsInv'
<1>0. rq[w].pc = "body" /\ UNCHANGED count
  BY DEF CancelBody, At
<1>1. ASSUME NEW a \in {"400", "500"}, Go(w, Answered(rq[w], a)), NoFault \/ Fault PROVE JobsInv'
  <2>1. Steps1(w, Answered(rq[w], a)) /\ Plain(rq[w], a) /\ a \in Answers \ {"none"}
    BY <1>0, <1>1 DEF Steps1, Plain, Answers
  <2> QED
    BY <1>0, <2>1, PlainAnswer
<1>2. ASSUME Go(w, [rq[w] EXCEPT !.pc = "lookup"]), NoFault PROVE JobsInv'
  <2> DEFINE q == [rq[w] EXCEPT !.pc = "lookup"]
  <2>1. Shape(rq[w]) /\ Stage(rq[w])
    BY TypedJob DEF Good
  <2>2. Shape(q) /\ q.pc = "lookup" /\ q.ans = rq[w].ans /\ q.r = rq[w].r /\ q.n = rq[w].n
        /\ q.job = rq[w].job /\ q.id = rq[w].id /\ q.looks = rq[w].looks
        /\ q.ptr = rq[w].ptr /\ q.rdr = rq[w].rdr
    BY <2>1 DEF Shape, Steps
  <2>3. Steps1(w, q)
    BY <1>0, <1>2 DEF Steps1
  <2> HIDE DEF q
  <2>4. "lookup" \notin SubmitSteps
    BY DEF SubmitSteps
  <2> QED
    BY <1>0, <2>1, <2>2, <2>3, <2>4, OnwardInv DEF Stage
<1> QED
  BY <1>1, <1>2 DEF CancelBody

LEMMA ProbeInv ==
    ASSUME JobsInv, NEW w \in Workers, Probe(w), UNCHANGED moves PROVE JobsInv'
<1>0. rq[w].pc = "probe" /\ UNCHANGED count
  BY DEF Probe, At
<1>1. PICK err \in BOOLEAN :
        /\ IF err THEN Fault ELSE NoFault
        /\ Go(w, [rq[w] EXCEPT !.filter = ResolveOwner(R(w).user, R(w).owner, err),
                               !.blind = err, !.pc = "listing"])
  BY DEF Probe
<1> DEFINE f == ResolveOwner(R(w).user, R(w).owner, err)
<1> HIDE DEF f
<1> DEFINE q == [rq[w] EXCEPT !.filter = f, !.blind = err, !.pc = "listing"]
<1>2. Shape(rq[w]) /\ Stage(rq[w])
  BY TypedJob DEF Good
<1>3. /\ Shape(q) /\ q.pc = "listing" /\ q.ans = rq[w].ans /\ q.r = rq[w].r /\ q.n = rq[w].n
      /\ q.job = rq[w].job /\ q.id = rq[w].id /\ q.looks = rq[w].looks
      /\ q.ptr = rq[w].ptr /\ q.rdr = rq[w].rdr
  BY <1>2 DEF Shape, Steps
<1>4. Steps1(w, q)
  BY <1>0, <1>1 DEF Steps1, f
<1> HIDE DEF q
<1>5. "listing" \notin SubmitSteps
  BY DEF SubmitSteps
<1> QED
  BY <1>0, <1>2, <1>3, <1>4, <1>5, OnwardInv DEF Stage

\* The rows of a list, or a failure, end it.
LEMMA ListingInv ==
    ASSUME JobsInv, NEW w \in Workers, Listing(w), UNCHANGED moves PROVE JobsInv'
<1>0. rq[w].pc = "listing" /\ UNCHANGED count
  BY DEF Listing, At
<1>1. /\ Good(rq[w]) /\ rq[w].r.op = "list" /\ "list" \notin OneJobOps
  BY <1>0, TypedJob DEF Good, Stage, OneJobOps
<1>2. ASSUME NEW x, Go(w, Answered([rq[w] EXCEPT !.rows = x], "200")), NoFault \/ Fault
      PROVE  JobsInv'
  <2> DEFINE q == [rq[w] EXCEPT !.rows = x]
  <2>1. /\ Shape(q) /\ q.pc = "listing" /\ q.ans = rq[w].ans /\ q.r = rq[w].r /\ q.n = rq[w].n
        /\ q.job = rq[w].job /\ q.id = rq[w].id /\ q.looks = rq[w].looks
        /\ q.ptr = rq[w].ptr /\ q.rdr = rq[w].rdr
    BY <1>0, <1>1 DEF Good, Shape
  <2>2. Steps1(w, Answered(q, "200"))
    BY <1>0, <1>2 DEF Steps1
  <2> HIDE DEF q
  <2>3. Good(q) /\ StillIn(q, queue, next) /\ Plain(q, "200")
    <3>1. Stage(q)
      BY <1>0, <1>1, <2>1 DEF Good, Stage, SubmitSteps
    <3>2. Found(q) /\ StillIn(q, queue, next) /\ Plain(q, "200")
      BY <1>1, <2>1 DEF Found, StillIn, Plain
    <3> QED
      BY <2>1, <3>1, <3>2 DEF Good
  <2>4. "200" \in Answers \ {"none"}
    BY DEF Answers
  <2>5. Good(Answered(q, "200")) /\ StillIn(Answered(q, "200"), queue, next)
    BY <2>1, <2>3, <2>4, AnsweredGood
  <2> QED
    BY <2>2, <2>5, GoInv
<1>3. ASSUME NEW a \in {"200", "500", "closed"}, Go(w, Answered(rq[w], a)), Fault PROVE JobsInv'
  <2>1. Steps1(w, Answered(rq[w], a)) /\ Plain(rq[w], a) /\ a \in Answers \ {"none"}
    BY <1>0, <1>1, <1>3 DEF Steps1, Plain, Answers
  <2> QED
    BY <1>0, <2>1, PlainAnswer
<1> QED
  BY <1>2, <1>3 DEF Listing

LEMMA CheckDdidInv ==
    ASSUME JobsInv, NEW w \in Workers, CheckDdid(w), UNCHANGED moves PROVE JobsInv'
<1>0. rq[w].pc = "ddid" /\ UNCHANGED count /\ NoFault
  BY DEF CheckDdid, At
<1>1. ASSUME Go(w, Answered(rq[w], "400")) PROVE JobsInv'
  <2>1. Steps1(w, Answered(rq[w], "400")) /\ Plain(rq[w], "400") /\ "400" \in Answers \ {"none"}
    BY <1>0, <1>1 DEF Steps1, Plain, Answers
  <2> QED
    BY <1>0, <2>1, PlainAnswer
<1>2. ASSUME Go(w, [rq[w] EXCEPT !.pc = "spool"]) PROVE JobsInv'
  <2> DEFINE q == [rq[w] EXCEPT !.pc = "spool"]
  <2>1. Shape(rq[w]) /\ Stage(rq[w])
    BY TypedJob DEF Good
  <2>2. Shape(q) /\ q.pc = "spool" /\ q.ans = rq[w].ans /\ q.r = rq[w].r /\ q.n = rq[w].n
        /\ q.job = rq[w].job /\ q.id = rq[w].id /\ q.looks = rq[w].looks
        /\ q.ptr = rq[w].ptr /\ q.rdr = rq[w].rdr
    BY <2>1 DEF Shape, Steps
  <2>3. Steps1(w, q)
    BY <1>0, <1>2 DEF Steps1
  <2> HIDE DEF q
  <2>4. "spool" \notin SubmitSteps
    BY DEF SubmitSteps
  <2> QED
    BY <1>0, <2>1, <2>2, <2>3, <2>4, OnwardInv DEF Stage
<1> QED
  BY <1>1, <1>2 DEF CheckDdid

\* A refusal, whatever the request.
LEMMA RefusalInv ==
    ASSUME JobsInv, NEW w \in Workers, rq[w].pc \notin {"idle", "quit"},
           NEW a \in {"400", "404", "413", "500", "nods", "closed"}, Go(w, Answered(rq[w], a)),
           UNCHANGED <<count, moves>>, NoFault \/ Fault
    PROVE  JobsInv'
<1>1. Steps1(w, Answered(rq[w], a)) /\ Plain(rq[w], a) /\ a \in Answers \ {"none"}
  BY DEF Steps1, Plain, Answers
<1> QED
  BY <1>1, PlainAnswer

-----------------------------------------------------------------------------
(* A submit up to the internal reader. *)

LEMMA SubmitOnward ==
    ASSUME JobsInv, NEW w \in Workers, rq[w].pc \in SubmitSteps,
           NEW p \in SubmitSteps, NEW c, NEW o \in BOOLEAN,
           NEW q, q = [rq[w] EXCEPT !.pc = p, !.cards = c, !.rdr = IF o THEN "open" ELSE @,
                                    !.ptr = IF o THEN TRUE ELSE @],
           Go(w, q), UNCHANGED <<count, moves>>, NoFault
    PROVE  JobsInv'
<1>1. Shape(rq[w]) /\ Stage(rq[w]) /\ p \in Steps
  BY TypedJob DEF Good, SubmitSteps, Steps
<1>2. /\ Shape(q) /\ q.pc = p /\ q.ans = rq[w].ans /\ q.r = rq[w].r /\ q.n = rq[w].n
      /\ q.job = rq[w].job /\ q.id = rq[w].id /\ q.looks = rq[w].looks
  <2> DEFINE a == IF o THEN "open" ELSE rq[w].rdr
             b == IF o THEN TRUE ELSE rq[w].ptr
  <2>1. a \in {"none", "open", "closed", "left"} /\ b \in BOOLEAN
    BY <1>1 DEF Shape
  <2>2. q = [rq[w] EXCEPT !.pc = p, !.cards = c, !.rdr = a, !.ptr = b]
    BY Zenon
  <2> HIDE DEF a, b
  <2> QED
    BY <1>1, <2>1, <2>2, ZenonT(30) DEF Shape
<1>3. (q.ptr <=> q.rdr = "open") /\ q.rdr # "left"
  <2>0. rq[w].rdr # "left"
    BY <1>1 DEF Stage, SubmitSteps
  <2>1. CASE o
    BY <1>1, <2>1 DEF Shape
  <2>2. CASE ~o
    BY <1>1, <2>0, <2>2 DEF Shape, Stage
  <2> QED
    BY <2>1, <2>2
<1>4. Steps1(w, q)
  BY DEF Steps1
<1>5. rq[w].r.op = "submit" /\ rq[w].pc \notin {"idle", "quit"}
  BY <1>1 DEF Stage, SubmitSteps
<1>6. q.pc \notin {"listing", "lookup", "spool"}
  BY <1>2 DEF SubmitSteps
<1>7. q.pc \in SubmitSteps \cup {"listing", "lookup", "spool"} /\ q.r.op = "submit"
  BY <1>2, <1>5
<1> QED
  BY <1>2, <1>3, <1>4, <1>5, <1>6, <1>7, OnwardInv, ZenonT(30)

\* A step that changes the place only.
LEMMA SubmitMoves ==
    ASSUME JobsInv, NEW w \in Workers, rq[w].pc \in SubmitSteps, NEW p \in SubmitSteps,
           Go(w, [rq[w] EXCEPT !.pc = p]), UNCHANGED <<count, moves>>, NoFault
    PROVE  JobsInv'
<1> DEFINE q == [rq[w] EXCEPT !.pc = p]
<1>1. Shape(rq[w])
  BY TypedJob DEF Good
<1>2. q = [rq[w] EXCEPT !.pc = p, !.cards = rq[w].cards, !.rdr = IF FALSE THEN "open" ELSE @,
                        !.ptr = IF FALSE THEN TRUE ELSE @]
  BY <1>1 DEF Shape
<1> QED
  BY <1>2, SubmitOnward

LEMMA HeadersInv ==
    ASSUME JobsInv, NEW w \in Workers, Headers(w), UNCHANGED moves PROVE JobsInv'
<1>0. rq[w].pc = "headers" /\ UNCHANGED <<count, moves>> /\ rq[w].pc \in SubmitSteps
  BY DEF Headers, At, SubmitSteps
<1>1. ASSUME NEW a \in {"400", "413", "500"}, Go(w, Answered(rq[w], a)), NoFault \/ Fault
      PROVE  JobsInv'
  BY <1>0, <1>1, RefusalInv
<1>2. ASSUME Go(w, [rq[w] EXCEPT !.pc = "content"]), NoFault PROVE JobsInv'
  BY <1>0, <1>2, SubmitMoves DEF SubmitSteps
<1> QED
  BY <1>1, <1>2 DEF Headers

LEMMA ContentInv ==
    ASSUME JobsInv, NEW w \in Workers, Content(w), UNCHANGED moves PROVE JobsInv'
<1>0. /\ rq[w].pc = "content" /\ UNCHANGED <<count, moves>> /\ rq[w].pc \in SubmitSteps
      /\ NoFault
  BY DEF Content, At, SubmitSteps
<1>1. ASSUME Go(w, Answered(rq[w], "400")) PROVE JobsInv'
  BY <1>0, <1>1, RefusalInv
<1>2. ASSUME Go(w, [rq[w] EXCEPT !.pc = "reader"]) PROVE JobsInv'
  BY <1>0, <1>2, SubmitMoves DEF SubmitSteps
<1> QED
  BY <1>1, <1>2 DEF Content

LEMMA OpenReaderInv ==
    ASSUME JobsInv, NEW w \in Workers, OpenReader(w), UNCHANGED moves PROVE JobsInv'
<1>0. rq[w].pc = "reader" /\ UNCHANGED <<count, moves>> /\ rq[w].pc \in SubmitSteps
  BY DEF OpenReader, At, SubmitSteps
<1>1. ASSUME Go(w, Answered(rq[w], "500")), Fault PROVE JobsInv'
  BY <1>0, <1>1, RefusalInv
<1>2. ASSUME Go(w, [rq[w] EXCEPT !.rdr = "open", !.ptr = TRUE, !.pc = "lines"]), NoFault
      PROVE  JobsInv'
  <2> DEFINE q == [rq[w] EXCEPT !.rdr = "open", !.ptr = TRUE, !.pc = "lines"]
  <2>1. Shape(rq[w])
    BY TypedJob DEF Good
  <2>2. q = [rq[w] EXCEPT !.pc = "lines", !.cards = rq[w].cards,
                          !.rdr = IF TRUE THEN "open" ELSE @, !.ptr = IF TRUE THEN TRUE ELSE @]
    BY <2>1 DEF Shape
  <2> QED
    BY <1>0, <1>2, <2>2, SubmitOnward DEF SubmitSteps
<1> QED
  BY <1>1, <1>2 DEF OpenReader

\* Cards come from the body or the data set, or from process_jobcard.
LEMMA CardsMove ==
    ASSUME JobsInv, NEW w \in Workers, rq[w].pc \in SubmitSteps, NEW p \in SubmitSteps, NEW c,
           Go(w, [rq[w] EXCEPT !.cards = c, !.pc = p]), UNCHANGED <<count, moves>>, NoFault
    PROVE  JobsInv'
<1> DEFINE q == [rq[w] EXCEPT !.cards = c, !.pc = p]
<1>1. Shape(rq[w])
  BY TypedJob DEF Good
<1>2. q = [rq[w] EXCEPT !.pc = p, !.cards = c, !.rdr = IF FALSE THEN "open" ELSE @,
                        !.ptr = IF FALSE THEN TRUE ELSE @]
  BY <1>1 DEF Shape
<1> QED
  BY <1>2, SubmitOnward

LEMMA LinesInv ==
    ASSUME JobsInv, NEW w \in Workers, Lines(w), UNCHANGED moves PROVE JobsInv'
<1>0. rq[w].pc = "lines" /\ UNCHANGED <<count, moves>> /\ rq[w].pc \in SubmitSteps
  BY DEF Lines, At, SubmitSteps
<1>1. ASSUME NEW a \in {"400", "nods", "500"}, Go(w, Answered(rq[w], a)), NoFault \/ Fault
      PROVE  JobsInv'
  BY <1>0, <1>1, RefusalInv
<1>2. ASSUME Go(w, [rq[w] EXCEPT !.cards = R(w).jcl, !.pc = "card"]), NoFault PROVE JobsInv'
  BY <1>0, <1>2, CardsMove DEF SubmitSteps
<1> QED
  BY <1>1, <1>2 DEF Lines

LEMMA CardInv ==
    ASSUME JobsInv, NEW w \in Workers, Card(w), UNCHANGED moves PROVE JobsInv'
<1>0. rq[w].pc = "card" /\ UNCHANGED <<count, moves>> /\ rq[w].pc \in SubmitSteps /\ NoFault
  BY DEF Card, At, SubmitSteps
<1>1. ASSUME Go(w, Answered(rq[w], "400")) PROVE JobsInv'
  BY <1>0, <1>1, RefusalInv
<1>2. ASSUME NEW c, Go(w, [rq[w] EXCEPT !.cards = c, !.pc = "put"]) PROVE JobsInv'
  BY <1>0, <1>2, CardsMove DEF SubmitSteps
<1> QED
  BY <1>1, <1>2 DEF Card

-----------------------------------------------------------------------------
(* What a lookup returns. *)

Checks(v, u, op, job) == v = Check(u, op, job, FALSE)

LEMMA CheckFacts ==
    ASSUME NEW u, NEW op \in {"purge", "read"}, NEW job, NEW v, Checks(v, u, op, job)
    PROVE  /\ v \in {"allow", "nopurge", "hide"}
           /\ v # "hide" <=> MayRead(u, job)
           /\ v = "nopurge" => Racf(u, job.owner, job.name) = "read"
           /\ op = "purge" /\ v = "allow" =>
                job.owner = u \/ Racf(u, job.owner, job.name) = "update"
<1> DEFINE l == Racf(u, job.owner, job.name)
<1>1. v = IF job.owner = u THEN "allow" ELSE Decide(op, l)
  BY DEF Check, Checks
<1>2. MayRead(u, job) <=> (job.owner = u \/ l \in {"read", "update"})
  BY DEF MayRead
<1> HIDE DEF l
<1>3. Decide(op, l) = IF l = "read" THEN IF op = "purge" THEN "nopurge" ELSE "allow"
                      ELSE IF l = "update" THEN "allow" ELSE "hide"
  BY DEF Decide
<1>4. /\ v \in {"allow", "nopurge", "hide"}
      /\ v # "hide" <=> MayRead(u, job)
      /\ v = "nopurge" => l = "read"
      /\ op = "purge" /\ v = "allow" => job.owner = u \/ l = "update"
  BY <1>1, <1>2, <1>3
<1> QED
  BY <1>4 DEF l

\* find_job_by_name_and_id of a handler that has not just submitted the job, and of the one
\* that has.
Finds(f, u, op, name, id, err) == f = Find(u, op, name, id, FALSE, err)
FindsOwn(f, u, name, id, err) == f = Find(u, "read", name, id, TRUE, err)

LEMMA FindFacts ==
    ASSUME QueueOK, NEW u, NEW op \in {"purge", "read"}, NEW name, NEW id, NEW err \in BOOLEAN,
           NEW f, Finds(f, u, op, name, id, err)
    PROVE  /\ f.verdict \in {"allow", "nopurge", "hide"} /\ f.job \in Job \cup {None}
           /\ f.job # None =>
                /\ id \in Ids /\ id < next /\ queue[id] # None /\ f.job = queue[id]
                /\ MayRead(u, f.job) /\ f.job.owner \in {Blank, f.job.user}
           /\ f.job # None /\ f.verdict # "allow" =>
                Racf(u, f.job.owner, f.job.name) = "read"
           /\ f.job # None /\ f.verdict = "allow" /\ op = "purge" =>
                f.job.owner = u \/ Racf(u, f.job.owner, f.job.name) = "update"
           /\ f.job = None /\ ~err /\ id \in Ids =>
                queue[id] = None \/ queue[id].name # name \/ ~MayRead(u, queue[id])
<1> DEFINE v == Check(u, op, queue[id], FALSE)
           there == ~err /\ id \in Ids /\ queue[id] # None /\ queue[id].name = name
<1>1. f = IF there /\ v # "hide" THEN [job |-> queue[id], verdict |-> v]
          ELSE [job |-> None, verdict |-> "hide"]
  BY Zenon DEF Find, Finds
<1>a. Checks(v, u, op, queue[id])
  BY DEF Checks
<1> HIDE DEF v, there
<1>2. /\ v \in {"allow", "nopurge", "hide"}
      /\ v # "hide" <=> MayRead(u, queue[id])
      /\ v = "nopurge" => Racf(u, queue[id].owner, queue[id].name) = "read"
      /\ op = "purge" /\ v = "allow" =>
           queue[id].owner = u \/ Racf(u, queue[id].owner, queue[id].name) = "update"
  BY <1>a, CheckFacts
<1>3. CASE there /\ v # "hide"
  <2>1. f.job = queue[id] /\ f.verdict = v
    BY <1>1, <1>3
  <2>2. queue[id] \in Job /\ id < next /\ queue[id].owner \in {Blank, queue[id].user}
    BY <1>3 DEF QueueOK, there
  <2> QED
    BY <1>2, <1>3, <2>1, <2>2 DEF there
<1>4. CASE ~(there /\ v # "hide")
  <2>1. f.job = None /\ f.verdict = "hide"
    BY <1>1, <1>4
  <2> QED
    BY <1>2, <1>4, <2>1 DEF there
<1> QED
  BY <1>3, <1>4

\* The status of the job a submit has just entered.
LEMMA FindOwnFacts ==
    ASSUME QueueOK, NEW u \in Users, NEW name, NEW id, NEW err \in BOOLEAN,
           NEW f, FindsOwn(f, u, name, id, err)
    PROVE  f.verdict \in {"allow", "nopurge", "hide"} /\ f.job \in Job \cup {None}
<1> DEFINE job == IF TRUE /\ queue[id].owner = Blank THEN [queue[id] EXCEPT !.owner = u]
                  ELSE queue[id]
           v == Check(u, "read", job, FALSE)
           there == ~err /\ id \in Ids /\ queue[id] # None /\ queue[id].name = name
<1>1. f = IF there /\ v # "hide" THEN [job |-> job, verdict |-> v]
          ELSE [job |-> None, verdict |-> "hide"]
  BY Zenon DEF Find, FindsOwn
<1>a. Checks(v, u, "read", job)
  BY DEF Checks
<1> HIDE DEF v
<1>2. v \in {"allow", "nopurge", "hide"}
  BY <1>a, CheckFacts
<1>3. there => job \in Job
  BY DEF QueueOK, Job, Owners
<1> HIDE DEF job, there
<1> QED
  BY <1>1, <1>2, <1>3

-----------------------------------------------------------------------------
(* A request arrives, and is over. *)

LEMMA ArriveInv ==
    ASSUME JobsInv, NEW w \in Workers, NEW q, Go(w, q), count < MaxRequests, count' = count + 1,
           UNCHANGED moves, NoFault \/ Fault, Good(q), q.job = None
    PROVE  JobsInv'
<1>1. QueueOK'
  BY DEF JobsInv, QueueOK, Go
<1>2. QueueKeeps
  BY Bounds DEF QueueKeeps, JobsInv, QueueOK, Go
<1>3. Counters'
  BY Bounds DEF JobsInv, Counters, NoFault, Fault, Go
<1>4. StillIn(q, queue', next') /\ rq' = [rq EXCEPT ![w] = q]
  BY DEF StillIn, Go
<1> QED
  BY <1>1, <1>2, <1>3, <1>4, MoveInv

FirstStep(r) == CASE r.op = "list" -> "probe" [] r.op = "cancel" -> "body"
                  [] r.op = "submit" -> "headers" [] OTHER -> "lookup"

Fresh(r, n, b) == [NoRequest EXCEPT !.r = r, !.n = n, !.pc = FirstStep(r), !.builder = b]

LEMMA FreshGood ==
    ASSUME NEW r \in Requests, NEW n \in 1 .. MaxRequests, NEW b \in BOOLEAN
    PROVE  /\ Good(Fresh(r, n, b)) /\ Fresh(r, n, b).job = None
           /\ Fresh(r, n, b).pc \notin {"idle", "quit"}
<1> DEFINE q == Fresh(r, n, b)
<1>1. r.op \in Ops
  BY Asked
<1>2. /\ FirstStep(r) \in {"probe", "body", "headers", "lookup"}
      /\ FirstStep(r) = "probe" => r.op = "list"
      /\ FirstStep(r) = "headers" => r.op = "submit"
      /\ FirstStep(r) \in {"body", "lookup"} => r.op \in OneJobOps
  BY <1>1 DEF FirstStep, Ops, OneJobOps
<1> DEFINE p == FirstStep(r)
<1> HIDE DEF p
<1>3. /\ q.pc = p /\ q.r = r /\ q.n = n /\ q.job = None /\ q.ans = "none" /\ q.looks = 0
      /\ q.ptr = FALSE /\ q.rdr = "none" /\ q.id = None
  BY DEF NoRequest, Fresh, p
<1>4. Shape(q)
  <2>1. p \in Steps
    BY <1>2 DEF Steps, p
  <2>2. n \in 0 .. MaxRequests
    BY Bounds
  <2>3. 0 \in 0 .. PurgeLooks
    BY Bounds
  <2>4. Shape(NoRequest) /\ q = [NoRequest EXCEPT !.r = r, !.n = n, !.pc = p, !.builder = b]
    BY NoRequestGood DEF Good, Fresh, p
  <2> QED
    BY <2>1, <2>2, <2>4 DEF Shape
<1>5. Stage(q)
  BY <1>2, <1>3, Bounds DEF Stage, SubmitSteps, p
<1>6. Found(q)
  BY <1>2, <1>3 DEF Found, p
<1> QED
  BY <1>2, <1>3, <1>4, <1>5, <1>6 DEF Good, p

LEMMA ReceiveInv ==
    ASSUME JobsInv, NEW w \in Workers, Receive(w), UNCHANGED moves PROVE JobsInv'
<1>0. count < MaxRequests /\ count' = count + 1 /\ count \in 0 .. MaxRequests
  BY DEF Receive, JobsInv, Counters
<1> DEFINE n == count + 1
<1>a. n \in 1 .. MaxRequests
  BY <1>0, Bounds
<1> HIDE DEF n
<1>1. PICK r \in Requests :
        LET q == [NoRequest EXCEPT !.r = r, !.n = n, !.pc = FirstStep(r)]
        IN  \/ NoFault /\ Go(w, q)
            \/ Fault /\ r.op \in {"list", "files"} /\ Go(w, Answered(q, "500"))
            \/ Fault /\ r.op \in {"purge", "cancel"} /\ Go(w, [q EXCEPT !.builder = FALSE])
  BY Zenon DEF Receive, FirstStep, n
<1> DEFINE q == [NoRequest EXCEPT !.r = r, !.n = n, !.pc = FirstStep(r)]
           blind == Fresh(r, n, FALSE)
<1>b. Shape(NoRequest) /\ NoRequest.builder \in BOOLEAN
  BY NoRequestGood DEF Good, Shape
<1>2. q = Fresh(r, n, NoRequest.builder)
  BY <1>b DEF Shape, Fresh
<1>3. [q EXCEPT !.builder = FALSE] = blind
  <2>1. \A b \in BOOLEAN : [q EXCEPT !.builder = b] = Fresh(r, n, b)
    BY <1>b DEF Shape, Fresh
  <2> QED
    BY <2>1, Zenon
<1>4. Good(q) /\ q.job = None /\ q.pc \notin {"idle", "quit"}
  <2> DEFINE x == Fresh(r, n, NoRequest.builder)
  <2>1. Good(x) /\ x.job = None /\ x.pc \notin {"idle", "quit"}
    BY <1>a, <1>b, FreshGood
  <2>2. q = x
    BY <1>2
  <2> HIDE DEF q, x
  <2> QED
    BY <2>1, <2>2
<1>5. Good(blind) /\ blind.job = None
  BY <1>a, FreshGood, Zenon
<1>6. Good(Answered(q, "500")) /\ Answered(q, "500").job = None
  <2> HIDE DEF q
  <2>1. "500" \in Answers \ {"none"} /\ Plain(q, "500")
    BY DEF Answers, Plain
  <2>2. Good(Answered(q, "500"))
    BY <1>4, <2>1, AnsweredGood
  <2>3. Answered(q, "500").job = q.job
    BY <1>4, <2>1, AnsweredFields DEF Good
  <2> QED
    BY <1>4, <2>2, <2>3
<1>7. (NoFault /\ Go(w, q)) \/ (Fault /\ Go(w, Answered(q, "500"))) \/ (Fault /\ Go(w, blind))
  BY <1>1, <1>3, Zenon
<1> HIDE DEF q, blind
<1> QED
  BY <1>0, <1>4, <1>5, <1>6, <1>7, ArriveInv

\* quit leaves the reader closed.
LEMMA QuitInv ==
    ASSUME JobsInv, NEW w \in Workers, Quit(w), UNCHANGED moves PROVE JobsInv'
<1>1. Shape(rq[w]) /\ Stage(rq[w])
  BY TypedJob DEF Good
<1>2. (IF rq[w].ptr THEN IF rq[w].rdr = "open" THEN "none" ELSE "twice"
       ELSE IF rq[w].rdr = "open" THEN "lost" ELSE "none") = "none"
  BY <1>1 DEF Stage, Shape
<1>3. Go(w, [NoRequest EXCEPT !.rdr = "none"]) /\ UNCHANGED count /\ NoFault
  BY <1>2, Zenon DEF Quit
<1>4. [NoRequest EXCEPT !.rdr = "none"] = NoRequest
  <2>1. Shape(NoRequest) /\ NoRequest.rdr = "none"
    BY NoRequestGood DEF Good, NoRequest
  <2> QED
    BY <2>1 DEF Shape
<1>5. Steps1(w, NoRequest)
  BY <1>3, <1>4, Zenon DEF Steps1
<1>6. Good(NoRequest) /\ NoRequest.pc = "idle"
  BY NoRequestGood
<1> QED
  BY <1>5, <1>6, GoInv DEF StillIn

\* An abend leaves a reader that is open behind.
LEMMA AbendInv ==
    ASSUME JobsInv, NEW w \in Workers, Abend(w), UNCHANGED moves PROVE JobsInv'
<1> DEFINE x == IF rq[w].rdr = "open" THEN "left" ELSE "none"
           q == [NoRequest EXCEPT !.rdr = x]
<1>1. x \in {"none", "left"}
  OBVIOUS
<1>2. Go(w, q) /\ UNCHANGED count /\ Fault
  BY DEF Abend
<1> HIDE DEF x
<1>3. Good(NoRequest) /\ NoRequest.pc = "idle"
  BY NoRequestGood
<1>4. /\ Shape(q) /\ q.pc = "idle" /\ q.rdr = x /\ q.ans = "none" /\ q.ptr = FALSE
      /\ q.looks = NoRequest.looks
  BY <1>1, <1>3 DEF Good, Shape, NoRequest
<1>5. Good(q)
  BY <1>1, <1>3, <1>4 DEF Good, Stage, Found, SubmitSteps
<1>6. Steps1(w, q) /\ StillIn(q, queue, next)
  BY <1>2, <1>4 DEF Steps1, StillIn
<1> QED
  BY <1>5, <1>6, GoInv

-----------------------------------------------------------------------------
(* The lookup of one job. *)

\* Where the lookup of a handler leads: q is the request with what was found in it.
Leads(n, q, a, p) == n = IF p = "quit" THEN Answered(q, a) ELSE [q EXCEPT !.pc = p]

LEMMA LeadsFields ==
    ASSUME NEW q, Shape(q), NEW a \in Answers, NEW p \in {"quit", "ddid", "cancel"}, NEW n,
           Leads(n, q, a, p)
    PROVE  /\ Shape(n) /\ n.pc = p /\ n.r = q.r /\ n.job = q.job /\ n.id = q.id
           /\ n.blind = q.blind /\ n.ptr = q.ptr /\ n.rdr = q.rdr /\ n.n = q.n
           /\ n.looks = q.looks /\ n.ans = IF p = "quit" THEN a ELSE q.ans
<1>1. CASE p = "quit"
  BY <1>1, AnsweredFields DEF Leads
<1>2. CASE p # "quit"
  BY <1>2 DEF Leads, Shape, Steps
<1> QED
  BY <1>1, <1>2

\* What the answers and the next steps of a lookup have in common.
LookupGives(n, f, r) ==
    /\ n.pc \in {"quit", "ddid", "cancel"} /\ n.job = f.job
    /\ n.pc # "quit" => f.job # None /\ n.ans = "none"
    /\ n.pc = "quit" => n.ans \in {"404", "200", "empty", "denied", "500", "closed"}
    /\ n.pc = "quit" /\ n.ans # "404" => f.job # None
    /\ n.ans \in {"200", "empty"} => f.job # None /\ r.op \in {"status", "files"}
    /\ n.ans = "denied" => f.job # None /\ f.verdict # "allow"
    /\ n.pc = "cancel" => r.op \in {"purge", "cancel"} /\ f.verdict = "allow"
    /\ n.pc = "ddid" => r.op = "records"

LookupTo(n, q, f, r) ==
    \/ f.job = None /\ n = Answered(q, "404")
    \/ f.job # None /\ r.op = "status" /\ n = Answered(q, Shown(q.job))
    \/ f.job # None /\ r.op \in {"status", "files"}
       /\ \E a \in {"500", "closed"} : n = Answered(q, a)
    \/ f.job # None /\ r.op = "files" /\ n = Answered(q, "200")
    \/ f.job # None /\ r.op = "records" /\ n = [q EXCEPT !.pc = "ddid"]
    \/ f.job # None /\ r.op \in {"purge", "cancel"} /\ f.verdict # "allow"
       /\ n = Answered(q, "denied")
    \/ f.job # None /\ r.op \in {"purge", "cancel"} /\ f.verdict = "allow"
       /\ n = [q EXCEPT !.pc = "cancel"]

LEMMA LookupCases ==
    ASSUME NEW q, Shape(q), q.ans = "none", NEW f, q.job = f.job, NEW r, r.op \in OneJobOps,
           NEW n, LookupTo(n, q, f, r)
    PROVE  /\ Shape(n) /\ n.r = q.r /\ n.id = q.id /\ n.ptr = q.ptr /\ n.rdr = q.rdr
           /\ n.n = q.n /\ n.looks = q.looks /\ LookupGives(n, f, r)
<1>1. Shown(q.job) \in {"empty", "200"}
  BY DEF Shown
<1>2. ASSUME NEW a \in {"404", "200", "empty", "denied", "500", "closed"},
             NEW p \in {"quit", "ddid", "cancel"}, Leads(n, q, a, p),
             p # "quit" => f.job # None,
             p = "quit" /\ a # "404" => f.job # None,
             p = "quit" /\ a \in {"200", "empty"} => r.op \in {"status", "files"},
             p = "quit" /\ a = "denied" => f.verdict # "allow",
             p = "cancel" => r.op \in {"purge", "cancel"} /\ f.verdict = "allow",
             p = "ddid" => r.op = "records"
      PROVE  /\ Shape(n) /\ n.r = q.r /\ n.id = q.id /\ n.ptr = q.ptr /\ n.rdr = q.rdr
             /\ n.n = q.n /\ n.looks = q.looks /\ LookupGives(n, f, r)
  <2>1. /\ Shape(n) /\ n.pc = p /\ n.r = q.r /\ n.job = q.job /\ n.id = q.id
        /\ n.blind = q.blind /\ n.ptr = q.ptr /\ n.rdr = q.rdr /\ n.n = q.n
        /\ n.looks = q.looks /\ n.ans = IF p = "quit" THEN a ELSE q.ans
    BY <1>2, LeadsFields DEF Answers
  <2> QED
    BY <1>2, <2>1 DEF LookupGives
<1>3. CASE f.job = None /\ n = Answered(q, "404")
  <2>1. Leads(n, q, "404", "quit")
    BY <1>3 DEF Leads
  <2> QED
    BY <1>2, <1>3, <2>1
<1>4. CASE f.job # None /\ r.op = "status" /\ n = Answered(q, Shown(q.job))
  <2>1. Leads(n, q, Shown(q.job), "quit")
    BY <1>4 DEF Leads
  <2> HIDE DEF Leads
  <2> QED
    BY <1>1, <1>2, <1>4, <2>1
<1>5. ASSUME f.job # None, NEW a \in {"500", "closed"}, n = Answered(q, a)
      PROVE  /\ Shape(n) /\ n.r = q.r /\ n.id = q.id /\ n.ptr = q.ptr /\ n.rdr = q.rdr
             /\ n.n = q.n /\ n.looks = q.looks /\ LookupGives(n, f, r)
  <2>1. Leads(n, q, a, "quit")
    BY <1>5 DEF Leads
  <2> QED
    BY <1>2, <1>5, <2>1
<1>6. CASE f.job # None /\ r.op = "files" /\ n = Answered(q, "200")
  <2>1. Leads(n, q, "200", "quit")
    BY <1>6 DEF Leads
  <2> QED
    BY <1>2, <1>6, <2>1
<1>7. CASE f.job # None /\ r.op = "records" /\ n = [q EXCEPT !.pc = "ddid"]
  <2>1. Leads(n, q, "404", "ddid")
    BY <1>7 DEF Leads
  <2> QED
    BY <1>2, <1>7, <2>1
<1>8. CASE f.job # None /\ f.verdict # "allow" /\ n = Answered(q, "denied")
  <2>1. Leads(n, q, "denied", "quit")
    BY <1>8 DEF Leads
  <2> QED
    BY <1>2, <1>8, <2>1
<1>9. CASE f.job # None /\ r.op \in {"purge", "cancel"} /\ f.verdict = "allow"
           /\ n = [q EXCEPT !.pc = "cancel"]
  <2>1. Leads(n, q, "404", "cancel")
    BY <1>9 DEF Leads
  <2> QED
    BY <1>2, <1>9, <2>1
<1> QED
  BY <1>3, <1>4, <1>5, <1>6, <1>7, <1>8, <1>9 DEF LookupTo

\* A lookup finds a job or none, and goes on from there.
LEMMA LookupSteps ==
    ASSUME NEW w \in Workers, Lookup(w), rq[w].r.op \in OneJobOps
    PROVE  LET r == rq[w].r
               op == IF r.op \in {"purge", "cancel"} THEN "purge" ELSE "read"
           IN  \E err \in BOOLEAN : \E f, n :
                 /\ Finds(f, r.user, op, r.name, r.id, err)
                 /\ LookupTo(n, [rq[w] EXCEPT !.job = f.job, !.verdict = f.verdict,
                                               !.id = r.id], f, r)
                 /\ Go(w, n) /\ (NoFault \/ Fault) /\ UNCHANGED count
<1> DEFINE r == rq[w].r
           op == IF r.op \in {"purge", "cancel"} THEN "purge" ELSE "read"
<1>1. PICK err \in BOOLEAN :
        LET f == Find(r.user, op, r.name, r.id, FALSE, err)
            q == [rq[w] EXCEPT !.job = f.job, !.verdict = f.verdict, !.id = r.id]
        IN  \/ /\ f.job = None
               /\ IF err THEN Fault ELSE NoFault
               /\ Go(w, Answered(q, "404"))
            \/ f.job # None /\ r.op = "status" /\ SendStatus(w, q)
            \/ f.job # None /\ r.op = "files" /\ Fault /\ Go(w, Answered(q, "closed"))
            \/ /\ f.job # None /\ r.op # "status" /\ NoFault
               /\ Go(w, CASE r.op = "files" -> Answered(q, "200")
                          [] r.op = "records" -> [q EXCEPT !.pc = "ddid"]
                          [] r.op \in {"purge", "cancel"} /\ f.verdict # "allow" ->
                               Answered(q, "denied")
                          [] OTHER -> [q EXCEPT !.pc = "cancel"])
  BY Zenon DEF Lookup, R
<1> DEFINE f == Find(r.user, op, r.name, r.id, FALSE, err)
           q == [rq[w] EXCEPT !.job = f.job, !.verdict = f.verdict, !.id = r.id]
<1>2. Finds(f, r.user, op, r.name, r.id, err) /\ UNCHANGED count
  BY Zenon DEF Finds, Lookup
<1>3. \/ /\ f.job = None
         /\ IF err THEN Fault ELSE NoFault
         /\ Go(w, Answered(q, "404"))
      \/ f.job # None /\ r.op = "status" /\ SendStatus(w, q)
      \/ f.job # None /\ r.op = "files" /\ Fault /\ Go(w, Answered(q, "closed"))
      \/ /\ f.job # None /\ r.op # "status" /\ NoFault
         /\ Go(w, CASE r.op = "files" -> Answered(q, "200")
                    [] r.op = "records" -> [q EXCEPT !.pc = "ddid"]
                    [] r.op \in {"purge", "cancel"} /\ f.verdict # "allow" -> Answered(q, "denied")
                    [] OTHER -> [q EXCEPT !.pc = "cancel"])
  BY <1>1, Zenon
<1> HIDE DEF f, q
<1>4. SUFFICES \E n : LookupTo(n, q, f, r) /\ Go(w, n) /\ (NoFault \/ Fault)
  BY <1>2, Zenon DEF q
<1>5. CASE f.job = None /\ Go(w, Answered(q, "404")) /\ (IF err THEN Fault ELSE NoFault)
  <2>1. LookupTo(Answered(q, "404"), q, f, r)
    BY <1>5 DEF LookupTo
  <2> QED
    BY <1>5, <2>1, Zenon
<1>6. CASE f.job # None /\ r.op = "status" /\ SendStatus(w, q)
  <2>1. CASE NoFault /\ Go(w, Answered(q, Shown(q.job)))
    <3>1. LookupTo(Answered(q, Shown(q.job)), q, f, r)
      BY <1>6 DEF LookupTo
    <3> QED
      BY <2>1, <3>1, Zenon
  <2>2. ASSUME Fault, NEW a \in {"500", "closed"}, Go(w, Answered(q, a))
        PROVE  \E n : LookupTo(n, q, f, r) /\ Go(w, n) /\ (NoFault \/ Fault)
    <3>1. LookupTo(Answered(q, a), q, f, r)
      BY <1>6, <2>2 DEF LookupTo
    <3> QED
      BY <2>2, <3>1, Zenon
  <2> QED
    BY <1>6, <2>1, <2>2, Zenon DEF SendStatus
<1>7. CASE f.job # None /\ r.op = "files" /\ Fault /\ Go(w, Answered(q, "closed"))
  <2>1. LookupTo(Answered(q, "closed"), q, f, r)
    BY <1>7 DEF LookupTo
  <2> QED
    BY <1>7, <2>1, Zenon
<1>8. CASE f.job # None /\ r.op # "status" /\ NoFault
           /\ Go(w, CASE r.op = "files" -> Answered(q, "200")
                      [] r.op = "records" -> [q EXCEPT !.pc = "ddid"]
                      [] r.op \in {"purge", "cancel"} /\ f.verdict # "allow" ->
                           Answered(q, "denied")
                      [] OTHER -> [q EXCEPT !.pc = "cancel"])
  <2> DEFINE n == CASE r.op = "files" -> Answered(q, "200")
                    [] r.op = "records" -> [q EXCEPT !.pc = "ddid"]
                    [] r.op \in {"purge", "cancel"} /\ f.verdict # "allow" -> Answered(q, "denied")
                    [] OTHER -> [q EXCEPT !.pc = "cancel"]
  <2>1. LookupTo(n, q, f, r)
    BY <1>8 DEF LookupTo, OneJobOps
  <2>2. Go(w, n)
    BY <1>8
  <2> HIDE DEF n
  <2> QED
    BY <1>8, <2>1, <2>2, Zenon
<1> QED
  BY <1>3, <1>5, <1>6, <1>7, <1>8, Zenon

LEMMA LookupInv ==
    ASSUME JobsInv, NEW w \in Workers, Lookup(w), UNCHANGED moves PROVE JobsInv'
<1> DEFINE r == rq[w].r
           op == IF r.op \in {"purge", "cancel"} THEN "purge" ELSE "read"
<1>0. rq[w].pc = "lookup"
  BY DEF Lookup, At
<1>4. Shape(rq[w]) /\ Stage(rq[w]) /\ r \in Requests /\ r.op \in OneJobOps /\ r.user \in Users
  <2>1. Shape(rq[w]) /\ Stage(rq[w])
    BY TypedJob DEF Good
  <2> QED
    BY <1>0, <2>1, Asked DEF Stage
<1>1. PICK err, f, n :
        /\ err \in BOOLEAN /\ Finds(f, r.user, op, r.name, r.id, err)
        /\ LookupTo(n, [rq[w] EXCEPT !.job = f.job, !.verdict = f.verdict, !.id = r.id], f, r)
        /\ Go(w, n) /\ (NoFault \/ Fault) /\ UNCHANGED count
  BY <1>4, LookupSteps, Zenon
<1> DEFINE q == [rq[w] EXCEPT !.job = f.job, !.verdict = f.verdict, !.id = r.id]
<1>2. err \in BOOLEAN /\ Finds(f, r.user, op, r.name, r.id, err) /\ op \in {"purge", "read"}
      /\ LookupTo(n, q, f, r)
  BY <1>1
<1>5. Steps1(w, n)
  BY <1>1 DEF Steps1
<1>6. QueueOK
  BY DEF JobsInv
<1> HIDE DEF op
<1>7. /\ f.verdict \in {"allow", "nopurge", "hide"} /\ f.job \in Job \cup {None}
      /\ f.job # None =>
           /\ r.id \in Ids /\ r.id < next /\ queue[r.id] # None /\ f.job = queue[r.id]
           /\ MayRead(r.user, f.job) /\ f.job.owner \in {Blank, f.job.user}
      /\ f.job # None /\ f.verdict # "allow" => Racf(r.user, f.job.owner, f.job.name) = "read"
      /\ f.job # None /\ f.verdict = "allow" /\ op = "purge" =>
           f.job.owner = r.user \/ Racf(r.user, f.job.owner, f.job.name) = "update"
  BY <1>2, <1>6, FindFacts
<1>8. /\ Shape(q) /\ q.ans = "none" /\ q.job = f.job /\ q.r = r /\ q.id = r.id
      /\ q.ptr = rq[w].ptr /\ q.rdr = rq[w].rdr /\ q.n = rq[w].n /\ q.looks = rq[w].looks
  BY <1>0, <1>4, <1>7 DEF Shape, Stage
<1> HIDE DEF q
<1>9. /\ Shape(n) /\ n.r = q.r /\ n.id = q.id /\ n.ptr = q.ptr /\ n.rdr = q.rdr
      /\ n.n = q.n /\ n.looks = q.looks /\ LookupGives(n, f, r)
  <2> HIDE DEF r
  <2> QED
    BY <1>2, <1>4, <1>8, LookupCases
<1>10. Stage(n)
  BY <1>0, <1>4, <1>8, <1>9 DEF Stage, LookupGives, SubmitSteps
<1>11. Found(n)
  BY <1>4, <1>7, <1>8, <1>9 DEF Found, LookupGives, op
<1>12. StillIn(n, queue, next)
  BY <1>7, <1>8, <1>9 DEF StillIn, LookupGives
<1> QED
  BY <1>5, <1>9, <1>10, <1>11, <1>12, GoInv DEF Good

-----------------------------------------------------------------------------
(* The spool, the cancel and the looks. *)

LEMMA ReadSpoolInv ==
    ASSUME JobsInv, NEW w \in Workers, ReadSpool(w), UNCHANGED moves PROVE JobsInv'
<1>0. rq[w].pc = "spool" /\ UNCHANGED count
  BY DEF ReadSpool, At
<1>1. ASSUME Go(w, Answered(rq[w], "500")), Fault PROVE JobsInv'
  BY <1>0, <1>1, RefusalInv
<1>2. ASSUME NEW a \in {"gone", "200"}, Go(w, Answered(rq[w], a)), NoFault PROVE JobsInv'
  <2> DEFINE n == Answered(rq[w], a)
  <2>1. Good(rq[w]) /\ StillIn(rq[w], queue, next)
    BY TypedJob
  <2>2. /\ Shape(n) /\ n.pc = "quit" /\ n.ans = a
        /\ n.r = rq[w].r /\ n.job = rq[w].job /\ n.id = rq[w].id /\ n.blind = rq[w].blind
        /\ n.ptr = rq[w].ptr /\ n.rdr = rq[w].rdr /\ n.n = rq[w].n /\ n.looks = rq[w].looks
    BY <2>1, AnsweredFields DEF Good, Answers
  <2>3. Steps1(w, n)
    BY <1>0, <1>2 DEF Steps1
  <2> HIDE DEF n
  <2>4. Stage(n)
    BY <1>0, <2>1, <2>2 DEF Good, Stage, SubmitSteps
  <2>5. Found(n)
    BY <1>0, <2>1, <2>2 DEF Good, Found, Stage
  <2>6. StillIn(n, queue, next)
    BY <1>0, <2>1, <2>2 DEF Good, StillIn, Stage
  <2> QED
    BY <2>2, <2>3, <2>4, <2>5, <2>6, GoInv DEF Good
<1> QED
  BY <1>1, <1>2 DEF ReadSpool

\* The answer to a purge or a cancel, or another look.
LEMMA LookInv ==
    ASSUME JobsInv, NEW w \in Workers, Look(w), UNCHANGED moves PROVE JobsInv'
<1> DEFINE r == rq[w].r
<1>0. rq[w].pc = "look" /\ UNCHANGED count
  BY DEF Look, At
<1>1. PICK err \in BOOLEAN :
        LET f == Find(r.user, "purge", rq[w].job.name, rq[w].id, FALSE, err)
            q == [rq[w] EXCEPT !.looks = @ + 1, !.blind = @ \/ err]
        IN  /\ IF err THEN Fault ELSE NoFault
            /\ Go(w, IF f.job = None THEN Answered(q, IF q.builder THEN "200" ELSE "closed")
                     ELSE IF q.looks = PurgeLooks
                     THEN Answered(q, IF q.builder THEN "pending" ELSE "closed")
                     ELSE q)
  BY Zenon DEF Look, R
<1> DEFINE f == Find(r.user, "purge", rq[w].job.name, rq[w].id, FALSE, err)
           b == rq[w].blind \/ err
           l == rq[w].looks + 1
           q == [rq[w] EXCEPT !.looks = l, !.blind = b]
<1>2. Finds(f, r.user, "purge", rq[w].job.name, rq[w].id, err)
  BY Zenon DEF Finds
<1>3. /\ IF err THEN Fault ELSE NoFault
      /\ Go(w, IF f.job = None THEN Answered(q, IF q.builder THEN "200" ELSE "closed")
               ELSE IF q.looks = PurgeLooks
               THEN Answered(q, IF q.builder THEN "pending" ELSE "closed")
               ELSE q)
  BY <1>1, Zenon
<1>4. Good(rq[w]) /\ StillIn(rq[w], queue, next)
  BY TypedJob
<1>5. l \in 0 .. PurgeLooks /\ b \in BOOLEAN /\ (err => b)
  BY <1>0, <1>4, Bounds DEF Good, Stage, Shape
<1> HIDE DEF f, b, l
<1>6. /\ Shape(q) /\ q.pc = "look" /\ q.ans = rq[w].ans /\ q.r = r /\ q.job = rq[w].job
      /\ q.id = rq[w].id /\ q.blind = b /\ q.ptr = rq[w].ptr /\ q.rdr = rq[w].rdr
      /\ q.n = rq[w].n /\ q.looks = l
  BY <1>0, <1>4, <1>5 DEF Good, Shape
<1> HIDE DEF q
<1>7. f.job = None /\ ~err /\ q.id \in Ids =>
        queue[q.id] = None \/ queue[q.id].name # q.job.name \/ ~MayRead(r.user, queue[q.id])
  <2>1. QueueOK
    BY DEF JobsInv
  <2> QED
    BY <1>2, <1>6, <2>1, FindFacts
<1>8. q.job # None /\ q.id \in Ids /\ r.op \in OneJobOps /\ r.op \in {"purge", "cancel"}
  BY <1>0, <1>4, <1>6 DEF Good, Stage, Found, OneJobOps
<1>9. ASSUME NEW a \in {"200", "pending", "closed"}, Go(w, Answered(q, a)), NoFault \/ Fault,
             a = "200" => f.job = None
      PROVE  JobsInv'
  <2> DEFINE n == Answered(q, a)
  <2>1. /\ Shape(n) /\ n.pc = "quit" /\ n.ans = a
        /\ n.r = q.r /\ n.job = q.job /\ n.id = q.id /\ n.blind = q.blind
        /\ n.ptr = q.ptr /\ n.rdr = q.rdr /\ n.n = q.n /\ n.looks = q.looks
    BY <1>6, AnsweredFields DEF Answers
  <2>2. Steps1(w, n)
    BY <1>0, <1>9 DEF Steps1
  <2> HIDE DEF n
  <2>3. Stage(n)
    BY <1>0, <1>4, <1>6, <2>1 DEF Good, Stage, SubmitSteps
  <2>4. Found(n)
    BY <1>0, <1>4, <1>6, <1>8, <2>1 DEF Good, Found
  <2>5. StillIn(n, queue, next)
    BY <1>0, <1>4, <1>5, <1>6, <1>7, <1>8, <1>9, <2>1 DEF StillIn
  <2> QED
    BY <2>1, <2>2, <2>3, <2>4, <2>5, GoInv DEF Good
<1>10. ASSUME Go(w, q), NoFault \/ Fault, l # PurgeLooks PROVE JobsInv'
  <2>1. Steps1(w, q)
    BY <1>0, <1>10 DEF Steps1
  <2>2. Stage(q)
    BY <1>0, <1>4, <1>5, <1>6, <1>10, Bounds DEF Good, Stage, SubmitSteps
  <2>3. Found(q)
    BY <1>0, <1>4, <1>6 DEF Good, Found
  <2>4. StillIn(q, queue, next)
    BY <1>0, <1>4, <1>6 DEF StillIn
  <2> QED
    BY <1>6, <2>1, <2>2, <2>3, <2>4, GoInv DEF Good
<1>11. NoFault \/ Fault
  BY <1>3
<1>12. \/ f.job = None /\ \E a \in {"200", "closed"} : Go(w, Answered(q, a))
       \/ \E a \in {"pending", "closed"} : Go(w, Answered(q, a))
       \/ Go(w, q) /\ l # PurgeLooks
  BY <1>3, <1>6
<1> QED
  BY <1>9, <1>10, <1>11, <1>12

\* The status of a submitted job.
LEMMA OwnInv ==
    ASSUME JobsInv, NEW w \in Workers, Own(w), UNCHANGED moves PROVE JobsInv'
<1> DEFINE r == rq[w].r
<1>0. rq[w].pc = "own" /\ UNCHANGED count
  BY DEF Own, At
<1>1. PICK err \in BOOLEAN :
        LET f == Find(r.user, "read", r.name, rq[w].id, TRUE, err)
            q == [rq[w] EXCEPT !.job = f.job, !.verdict = f.verdict, !.blind = err]
        IN  \/ /\ f.job = None
               /\ IF err THEN Fault ELSE NoFault
               /\ Go(w, Answered(q, "404"))
            \/ f.job # None /\ SendStatus(w, q)
  BY Zenon DEF Own, R
<1> DEFINE f == Find(r.user, "read", r.name, rq[w].id, TRUE, err)
           q == [rq[w] EXCEPT !.job = f.job, !.verdict = f.verdict, !.blind = err]
<1>2. FindsOwn(f, r.user, r.name, rq[w].id, err)
  BY Zenon DEF FindsOwn
<1>3. \/ Go(w, Answered(q, "404")) /\ IF err THEN Fault ELSE NoFault
      \/ SendStatus(w, q)
  BY <1>1, Zenon
<1> HIDE DEF f, q
<1>4. PICK a \in {"404", "empty", "200", "500", "closed"} :
        Go(w, Answered(q, a)) /\ (NoFault \/ Fault)
  <2>1. Shown(q.job) \in {"empty", "200"}
    BY DEF Shown
  <2> QED
    BY <1>3, <2>1 DEF SendStatus
<1> USE DEF q
<1>5. Good(rq[w]) /\ r.op = "submit" /\ r.user \in Users /\ rq[w].pc \in SubmitSteps
  BY <1>0, TypedJob, Asked DEF Good, Stage, SubmitSteps
<1>6. f.verdict \in {"allow", "nopurge", "hide"} /\ f.job \in Job \cup {None}
  <2>1. QueueOK
    BY DEF JobsInv
  <2> QED
    BY <1>2, <1>5, <2>1, FindOwnFacts
<1>7. /\ Shape(q) /\ q.pc = "own" /\ q.ans = rq[w].ans /\ q.r = r
      /\ q.ptr = rq[w].ptr /\ q.rdr = rq[w].rdr /\ q.n = rq[w].n /\ q.looks = rq[w].looks
  BY <1>0, <1>5, <1>6 DEF Good, Shape
<1> HIDE DEF q
<1>8. Good(q) /\ StillIn(q, queue, next) /\ Plain(q, a)
  <2>1. Stage(q)
    BY <1>0, <1>5, <1>7 DEF Good, Stage
  <2>2. Found(q) /\ StillIn(q, queue, next) /\ Plain(q, a)
    BY <1>5, <1>7 DEF Found, StillIn, Plain, OneJobOps
  <2> QED
    BY <1>7, <2>1, <2>2 DEF Good
<1>9. Good(Answered(q, a)) /\ StillIn(Answered(q, a), queue, next)
  BY <1>4, <1>7, <1>8, AnsweredGood DEF Answers
<1>10. Steps1(w, Answered(q, a))
  BY <1>0, <1>4 DEF Steps1
<1> QED
  BY <1>9, <1>10, GoInv

-----------------------------------------------------------------------------
(* Steps that change the queue. *)

\* A job that is there becomes j, or leaves.
LEMMA OneJobChanges ==
    ASSUME JobsInv, NEW i \in Ids, queue[i] # None, NEW j,
           \/ j = None
           \/ /\ j \in Job /\ j.user = queue[i].user /\ j.name = queue[i].name
              /\ j.owner \in {Blank, j.user}
              /\ queue[i].q = "OUTPUT" => j.q = "OUTPUT" /\ j.owner = queue[i].owner,
           queue' = [queue EXCEPT ![i] = j], next' = next
    PROVE  QueueOK' /\ QueueKeeps
<1>1. /\ queue \in [Ids -> Job \cup {None}] /\ next \in 1 .. MaxJobs + 1 /\ i < next
      /\ \A k \in Ids : queue[k] # None => k < next /\ queue[k].owner \in {Blank, queue[k].user}
  BY DEF JobsInv, QueueOK
<1>2. ASSUME NEW k \in Ids PROVE queue'[k] = IF k = i THEN j ELSE queue[k]
  BY <1>1
<1>3. queue' \in [Ids -> Job \cup {None}]
  BY <1>1
<1>4. QueueOK'
  BY <1>1, <1>2, <1>3 DEF QueueOK
<1>5. QueueKeeps
  BY <1>1, <1>2, Bounds DEF QueueKeeps
<1> QED
  BY <1>4, <1>5

LEMMA JesInv ==
    ASSUME JobsInv, NEW i \in Ids, queue[i] # None, NEW j,
           \/ j = None
           \/ /\ j \in Job /\ j.user = queue[i].user /\ j.name = queue[i].name
              /\ j.owner \in {Blank, j.user}
              /\ queue[i].q = "OUTPUT" => j.q = "OUTPUT" /\ j.owner = queue[i].owner,
           Jes(i, j)
    PROVE  JobsInv'
<1>1. QueueOK' /\ QueueKeeps
  BY OneJobChanges DEF Jes
<1>2. Counters'
  BY Bounds DEF JobsInv, Counters, Jes
<1>3. rq' = rq
  BY DEF Jes
<1>4. ASSUME NEW v \in Workers PROVE Good(rq'[v]) /\ StillIn(rq'[v], queue', next')
  <2>1. Good(rq[v]) /\ StillIn(rq[v], queue, next)
    BY TypedJob
  <2>2. StillIn(rq[v], queue', next')
    BY <1>1, <2>1, KeptStill
  <2> QED
    BY <1>3, <2>1, <2>2
<1>5. rq' = [v \in Workers |-> rq'[v]]
  BY <1>3 DEF JobsInv
<1> QED
  BY <1>1, <1>2, <1>4, <1>5 DEF JobsInv

LEMMA OtherInv == JobsInv /\ Other => JobsInv'
<1> SUFFICES ASSUME JobsInv, NEW i \in Ids, Convert(i) \/ Ends(i) \/ Release(i) \/ Leaves(i)
             PROVE  JobsInv'
  BY DEF Other
<1>1. queue[i] # None
  BY DEF Convert, Ends, Release, Leaves
<1>2. queue[i] \in Job /\ queue[i].owner \in {Blank, queue[i].user}
  BY <1>1 DEF JobsInv, QueueOK
<1>3. CASE Convert(i)
  <2> DEFINE j == [queue[i] EXCEPT !.owner = queue[i].user, !.q = "ACTIVE"]
  <2>1. /\ j \in Job /\ j.user = queue[i].user /\ j.name = queue[i].name
        /\ j.owner \in {Blank, j.user} /\ queue[i].q # "OUTPUT"
    BY <1>2, <1>3 DEF Job, Owners, Convert
  <2>2. Jes(i, j)
    BY <1>3 DEF Convert
  <2> HIDE DEF j
  <2> QED
    BY <1>1, <2>1, <2>2, JesInv
<1>4. CASE Ends(i)
  <2>1. PICK h \in BOOLEAN : Jes(i, [queue[i] EXCEPT !.q = "OUTPUT", !.out = TRUE, !.held = h])
    BY <1>4, Zenon DEF Ends
  <2> DEFINE j == [queue[i] EXCEPT !.q = "OUTPUT", !.out = TRUE, !.held = h]
  <2>2. /\ j \in Job /\ j.user = queue[i].user /\ j.name = queue[i].name
        /\ j.owner \in {Blank, j.user} /\ queue[i].q # "OUTPUT"
    BY <1>2, <1>4 DEF Job, Ends
  <2> HIDE DEF j
  <2>3. Jes(i, j)
    BY <2>1 DEF j
  <2> QED
    BY <1>1, <2>2, <2>3, JesInv
<1>5. CASE Release(i)
  <2> DEFINE j == [queue[i] EXCEPT !.held = FALSE]
  <2>1. /\ j \in Job /\ j.user = queue[i].user /\ j.name = queue[i].name
        /\ j.owner = queue[i].owner /\ j.q = queue[i].q
    BY <1>2 DEF Job
  <2>2. Jes(i, j)
    BY <1>5 DEF Release
  <2> HIDE DEF j
  <2> QED
    BY <1>1, <1>2, <2>1, <2>2, JesInv
<1>6. CASE Leaves(i)
  BY <1>1, <1>6, JesInv DEF Leaves
<1> QED
  BY <1>3, <1>4, <1>5, <1>6

\* cancel_job.
LEMMA CancelInv ==
    ASSUME JobsInv, NEW w \in Workers, Cancel(w), UNCHANGED moves PROVE JobsInv'
<1> DEFINE id == rq[w].id
           purge == rq[w].r.op = "purge"
           rc == Canj(rq[w].job.name, id, purge)
<1>0. rq[w].pc = "cancel" /\ UNCHANGED <<count, next, entered>>
  BY DEF Cancel, At
<1>1. Good(rq[w]) /\ StillIn(rq[w], queue, next)
  BY TypedJob
<1>2. rq[w].job # None /\ id \in Ids /\ rq[w].r.op \in {"purge", "cancel"}
      /\ rq[w].r.op \in OneJobOps
  BY <1>0, <1>1 DEF Good, Stage, Found
<1>3. ASSUME Fault, rq' = [rq EXCEPT ![w] = Answered(rq[w], "500")], UNCHANGED queue
      PROVE  JobsInv'
  BY <1>0, <1>3, RefusalInv DEF Go
<1>4. ASSUME NoFault, NEW a \in {"404", "400"}, rq' = [rq EXCEPT ![w] = Answered(rq[w], a)],
             queue' = queue
      PROVE  JobsInv'
  BY <1>0, <1>4, RefusalInv DEF Go
<1>5. ASSUME NoFault, rc = "ok", queue' = [queue EXCEPT ![id] = Cancelled(queue[id])],
             NEW q, rq' = [rq EXCEPT ![w] = q],
             \/ q = [rq[w] EXCEPT !.pc = "look"]
             \/ ~purge /\ \E a \in {"200", "closed"} : q = Answered(rq[w], a)
      PROVE  JobsInv'
  <2>1. queue[id] # None
    BY <1>5 DEF Canj
  <2>2. queue[id] \in Job /\ queue[id].owner \in {Blank, queue[id].user}
        /\ queue \in [Ids -> Job \cup {None}]
    BY <1>2, <2>1 DEF JobsInv, QueueOK
  <2> DEFINE j == Cancelled(queue[id])
  <2>3. /\ j \in Job /\ j.user = queue[id].user /\ j.name = queue[id].name
        /\ j.owner = queue[id].owner /\ j.q = "OUTPUT"
    BY <2>2 DEF Cancelled, Job
  <2>4. queue' = [queue EXCEPT ![id] = j] /\ queue'[id] = j
    BY <1>2, <1>5, <2>2
  <2> HIDE DEF j
  <2>5. QueueOK' /\ QueueKeeps
    <3> HIDE DEF id
    <3> QED
      BY <1>0, <1>2, <2>1, <2>2, <2>3, <2>4, OneJobChanges
  <2>6. Counters'
    BY <1>0, <1>5, CountersKept
  <2>7. StillIn(rq[w], queue', next')
    BY <1>1, <2>5, KeptStill
  <2>8. CASE q = [rq[w] EXCEPT !.pc = "look"]
    <3>1. /\ Shape(q) /\ q.pc = "look" /\ q.ans = rq[w].ans /\ q.r = rq[w].r /\ q.n = rq[w].n
          /\ q.job = rq[w].job /\ q.id = rq[w].id /\ q.looks = rq[w].looks
          /\ q.ptr = rq[w].ptr /\ q.rdr = rq[w].rdr
      BY <1>1, <2>8 DEF Good, Shape, Steps
    <3>2. Stage(q)
      BY <1>0, <1>1, <3>1 DEF Good, Stage, SubmitSteps
    <3>3. Found(q)
      BY <1>0, <1>1, <3>1 DEF Good, Found
    <3>4. StillIn(q, queue', next')
      BY <1>0, <1>2, <2>3, <2>4, <2>7, <3>1 DEF StillIn
    <3> QED
      BY <1>5, <2>5, <2>6, <3>1, <3>2, <3>3, <3>4, MoveInv DEF Good
  <2>9. ASSUME ~purge, NEW a \in {"200", "closed"}, q = Answered(rq[w], a) PROVE JobsInv'
    <3>1. /\ Shape(q) /\ q.pc = "quit" /\ q.ans = a
          /\ q.r = rq[w].r /\ q.job = rq[w].job /\ q.id = rq[w].id /\ q.blind = rq[w].blind
          /\ q.ptr = rq[w].ptr /\ q.rdr = rq[w].rdr /\ q.n = rq[w].n /\ q.looks = rq[w].looks
      BY <1>1, <2>9, AnsweredFields DEF Good, Answers
    <3>2. Stage(q)
      BY <1>0, <1>1, <3>1 DEF Good, Stage, SubmitSteps
    <3>3. Found(q)
      BY <1>0, <1>1, <1>2, <3>1 DEF Good, Found
    <3>4. StillIn(q, queue', next')
      BY <1>0, <1>2, <2>7, <2>9, <3>1 DEF StillIn
    <3> QED
      BY <1>5, <2>5, <2>6, <3>1, <3>2, <3>3, <3>4, MoveInv DEF Good
  <2> QED
    BY <1>5, <2>8, <2>9
<1>6. rc \in {"ok", "nojb", "ican", "outp"}
  BY DEF Canj
<1>7. \/ /\ NoFault
         /\ queue' = IF rc = "ok" THEN [queue EXCEPT ![id] = Cancelled(queue[id])] ELSE queue
         /\ rq' = [rq EXCEPT ![w] =
                     CASE rc = "ok" -> IF purge THEN [rq[w] EXCEPT !.pc = "look"]
                                       ELSE Answered(rq[w], IF rq[w].builder THEN "200"
                                                            ELSE "closed")
                       [] rc = "nojb" -> Answered(rq[w], "404")
                       [] rc \in {"ican", "outp"} -> Answered(rq[w], "400")]
      \/ Fault /\ rq' = [rq EXCEPT ![w] = Answered(rq[w], "500")] /\ UNCHANGED queue
  BY Zenon DEF Cancel, R
<1>8. CASE rc = "ok" /\ NoFault
             /\ queue' = [queue EXCEPT ![id] = Cancelled(queue[id])]
             /\ rq' = [rq EXCEPT ![w] = IF purge THEN [rq[w] EXCEPT !.pc = "look"]
                                        ELSE Answered(rq[w], IF rq[w].builder THEN "200"
                                                             ELSE "closed")]
  <2>1. \E a \in {"200", "closed"} : a = IF rq[w].builder THEN "200" ELSE "closed"
    OBVIOUS
  <2>2. PICK a \in {"200", "closed"} : a = IF rq[w].builder THEN "200" ELSE "closed"
    BY <2>1
  <2>3. CASE purge
    BY <1>5, <1>8, <2>3, Zenon
  <2>4. CASE ~purge
    <3>1. rq' = [rq EXCEPT ![w] = Answered(rq[w], a)]
      BY <1>8, <2>2, <2>4, Zenon
    <3> QED
      BY <1>5, <1>8, <2>4, <3>1, Zenon
  <2> QED
    BY <2>3, <2>4
<1> HIDE DEF rc, purge
<1> QED
  BY <1>3, <1>4, <1>6, <1>7, <1>8

LEMMA RunsAsUser == ASSUME NEW cards PROVE RunsAs(cards) \in Users
<1> DEFINE s == Statement(cards)
           us == {i \in DOMAIN s : s[i].key = "USER" /\ s[i].val \in Users}
<1>1. RunsAs(cards) = IF us # {} THEN s[CHOOSE i \in us : TRUE].val ELSE Prod
  BY DEF RunsAs
<1>2. CASE us # {}
  <2>1. (CHOOSE i \in us : TRUE) \in us
    BY <1>2, Zenon
  <2> QED
    BY <1>1, <1>2, <2>1
<1>3. CASE us = {}
  BY <1>1, <1>3, Bounds
<1> QED
  BY <1>2, <1>3

\* A job enters under the next number, and the submit goes on with q.
LEMMA EnterInv ==
    ASSUME JobsInv, NEW w \in Workers, NEW cards, NEW q, Enter(w, cards, q),
           UNCHANGED <<count, moves>>, NoFault \/ Fault, rq[w].pc \in SubmitSteps,
           Good(q), q.r = rq[w].r
    PROVE  JobsInv'
<1>0. PICK name \in IF rq[w].put = 0 THEN {R(w).name} ELSE Names :
        queue' = [queue EXCEPT ![next] =
                    [name |-> name, owner |-> Blank, user |-> RunsAs(cards), q |-> "INPUT",
                     stc |-> FALSE, out |-> FALSE, held |-> FALSE]]
  BY Zenon DEF Enter
<1> DEFINE j == [name |-> name, owner |-> Blank, user |-> RunsAs(cards), q |-> "INPUT",
                 stc |-> FALSE, out |-> FALSE, held |-> FALSE]
<1>1. /\ next \in Ids /\ next' = next + 1 /\ queue' = [queue EXCEPT ![next] = j]
      /\ entered' = [entered EXCEPT ![next] = rq[w].n] /\ rq' = [rq EXCEPT ![w] = q]
  BY <1>0, Zenon DEF Enter
<1>2. Good(rq[w]) /\ rq[w].r \in Requests /\ rq[w].r.op = "submit"
      /\ rq[w].n \in 1 .. MaxRequests
  <2>1. Good(rq[w])
    BY TypedJob
  <2>2. rq[w].r \in Requests /\ rq[w].r.op = "submit" /\ rq[w].n >= 1
    BY <2>1 DEF Good, Stage, SubmitSteps
  <2>3. rq[w].n \in 0 .. MaxRequests
    BY <2>1 DEF Good, Shape
  <2> QED
    BY <2>1, <2>2, <2>3, Bounds
<1>3. name \in Names /\ RunsAs(cards) \in Users
  BY <1>0, <1>2, Asked, RunsAsUser DEF R
<1>4. j \in Job /\ j.owner = Blank
  <2> DEFINE n == name
             u == RunsAs(cards)
  <2> HIDE DEF n, u
  <2>1. n \in Names /\ u \in Users
    BY <1>3 DEF n, u
  <2>2. [name |-> n, owner |-> Blank, user |-> u, q |-> "INPUT", stc |-> FALSE,
         out |-> FALSE, held |-> FALSE] \in Job
    BY <2>1 DEF Job, Owners
  <2> QED
    BY <2>2 DEF n, u
<1>5. /\ queue \in [Ids -> Job \cup {None}] /\ next \in 1 .. MaxJobs + 1
      /\ \A k \in Ids : queue[k] # None => k < next /\ queue[k].owner \in {Blank, queue[k].user}
  BY DEF JobsInv, QueueOK
<1> HIDE DEF j
<1>6. ASSUME NEW k \in Ids PROVE queue'[k] = IF k = next THEN j ELSE queue[k]
  BY <1>1, <1>5
<1>7. next \in Nat /\ next' \in 1 .. MaxJobs + 1 /\ next <= next'
  BY <1>1, <1>5, Bounds DEF Ids
<1>8. QueueOK'
  <2>1. queue' \in [Ids -> Job \cup {None}]
    BY <1>1, <1>4, <1>5
  <2>2. ASSUME NEW k \in Ids, queue'[k] # None
        PROVE  k < next' /\ queue'[k].owner \in {Blank, queue'[k].user}
    <3>1. CASE k = next
      BY <1>1, <1>4, <1>6, <1>7, <3>1
    <3>2. CASE k # next
      BY <1>1, <1>5, <1>6, <1>7, <2>2, <3>2 DEF Ids
    <3> QED
      BY <3>1, <3>2
  <2> QED
    BY <1>7, <2>1, <2>2 DEF QueueOK
<1>9. QueueKeeps
  BY <1>1, <1>6, <1>7 DEF QueueKeeps, Ids
<1>10. Counters'
  <2>1. Counters
    BY DEF JobsInv
  <2>2. entered' \in [Ids -> {None} \cup 1 .. MaxRequests]
    BY <1>1, <1>2, <2>1 DEF Counters
  <2> QED
    BY <2>1, <2>2, Bounds DEF Counters, NoFault, Fault
<1>11. StillIn(q, queue', next')
  BY <1>2 DEF StillIn, OneJobOps
<1> QED
  BY <1>1, <1>8, <1>9, <1>10, <1>11, MoveInv

\* Cards that are in a job already change nothing else.
LEMMA TakenGood ==
    ASSUME JobsInv, NEW w \in Workers, rq[w].pc \in SubmitSteps, NEW k,
           NEW q, q = [rq[w] EXCEPT !.put = k]
    PROVE  Good(q) /\ q.r = rq[w].r /\ StillIn(q, queue, next)
<1>1. Good(rq[w]) /\ StillIn(rq[w], queue, next)
  BY TypedJob
<1>2. /\ Shape(q) /\ q.pc = rq[w].pc /\ q.r = rq[w].r /\ q.job = rq[w].job /\ q.id = rq[w].id
      /\ q.looks = rq[w].looks /\ q.rdr = rq[w].rdr /\ q.ptr = rq[w].ptr /\ q.ans = rq[w].ans
      /\ q.n = rq[w].n /\ q.blind = rq[w].blind
  BY <1>1 DEF Good, Shape
<1>3. Stage(q)
  BY <1>1, <1>2 DEF Good, Stage
<1>4. rq[w].r.op \notin OneJobOps
  BY <1>1 DEF Good, Stage, OneJobOps
<1> QED
  BY <1>2, <1>3, <1>4 DEF Good, Found, StillIn

LEMMA PutInv ==
    ASSUME JobsInv, NEW w \in Workers, Put(w), UNCHANGED moves PROVE JobsInv'
<1>0. rq[w].pc = "put" /\ UNCHANGED <<count, moves>> /\ rq[w].pc \in SubmitSteps
  BY DEF Put, At, SubmitSteps
<1>1. ASSUME Go(w, Answered(rq[w], "500")), Fault PROVE JobsInv'
  BY <1>0, <1>1, RefusalInv
<1>2. ASSUME Go(w, [rq[w] EXCEPT !.pc = "close"]), NoFault PROVE JobsInv'
  BY <1>0, <1>2, SubmitMoves DEF SubmitSteps
<1>3. ASSUME NEW c, Enter(w, c, Answered(rq[w], "500")), Fault PROVE JobsInv'
  <2>1. Good(rq[w]) /\ "500" \in Answers \ {"none"} /\ Plain(rq[w], "500")
    BY TypedJob DEF Answers, Plain
  <2>2. Good(Answered(rq[w], "500")) /\ Answered(rq[w], "500").r = rq[w].r
    <3>1. Good(Answered(rq[w], "500"))
      BY <1>0, <2>1, AnsweredGood
    <3>2. Answered(rq[w], "500").r = rq[w].r
      BY <2>1, AnsweredFields DEF Good
    <3> QED
      BY <3>1, <3>2
  <2> QED
    BY <1>0, <1>3, <2>2, EnterInv
<1>4. ASSUME NEW k, NEW q, q = [rq[w] EXCEPT !.put = k] PROVE Good(q) /\ q.r = rq[w].r
  BY <1>0, <1>4, TakenGood
<1>5. ASSUME NEW c, NEW k, Enter(w, c, [rq[w] EXCEPT !.put = k]), NoFault PROVE JobsInv'
  BY <1>0, <1>4, <1>5, EnterInv
<1>6. ASSUME NEW k, Go(w, [rq[w] EXCEPT !.put = k]), NoFault PROVE JobsInv'
  <2> DEFINE q == [rq[w] EXCEPT !.put = k]
  <2>1. Good(q) /\ StillIn(q, queue, next)
    BY <1>0, TakenGood
  <2>2. Steps1(w, q)
    BY <1>0, <1>6 DEF Steps1
  <2> QED
    BY <2>1, <2>2, GoInv
<1> DEFINE left == Left(rq[w])
           k == FirstJob(left)
           p == rq[w].put + k
<1>7. \/ NoFault /\ Go(w, [rq[w] EXCEPT !.pc = "close"])
      \/ NoFault /\ Enter(w, SubSeq(left, 1, k), [rq[w] EXCEPT !.put = p])
      \/ NoFault /\ Go(w, [rq[w] EXCEPT !.put = p])
      \/ Fault /\ Go(w, Answered(rq[w], "500"))
      \/ Fault /\ \E i \in 1 .. k : Enter(w, SubSeq(left, 1, i), Answered(rq[w], "500"))
  BY Zenon DEF Put
<1> HIDE DEF p, k, left
<1> QED
  BY <1>1, <1>2, <1>3, <1>5, <1>6, <1>7, Zenon

LEMMA CloseInv ==
    ASSUME JobsInv, NEW w \in Workers, Close(w), UNCHANGED moves PROVE JobsInv'
<1> DEFINE q == [rq[w] EXCEPT !.rdr = "closed", !.ptr = FALSE]
<1>0. rq[w].pc = "close" /\ UNCHANGED <<count, moves>> /\ rq[w].pc \in SubmitSteps
  BY DEF Close, At, SubmitSteps
<1> DEFINE left == Left(q)
<1>1. \/ NoFault /\ Enter(w, left, [q EXCEPT !.id = next, !.pc = "own"])
      \/ NoFault /\ Go(w, [q EXCEPT !.pc = "own"])
      \/ Fault /\ Enter(w, left, Answered(q, "500"))
      \/ Fault /\ Go(w, Answered(q, "500"))
  BY Zenon DEF Close
<1>2. Shape(rq[w]) /\ Stage(rq[w]) /\ rq[w].r.op = "submit" /\ "submit" \notin OneJobOps
  BY <1>0, TypedJob DEF Good, Stage, OneJobOps
<1>3. /\ Shape(q) /\ q.pc = "close" /\ q.ans = rq[w].ans /\ q.r = rq[w].r /\ q.n = rq[w].n
      /\ q.looks = rq[w].looks /\ q.rdr = "closed" /\ q.ptr = FALSE
  <2>1. \A b \in BOOLEAN : LET x == [rq[w] EXCEPT !.rdr = "closed", !.ptr = b] IN
          /\ Shape(x) /\ x.pc = "close" /\ x.ans = rq[w].ans /\ x.r = rq[w].r /\ x.n = rq[w].n
          /\ x.looks = rq[w].looks /\ x.rdr = "closed" /\ x.ptr = b
    BY <1>0, <1>2 DEF Shape
  <2> QED
    BY <2>1, Zenon
<1> HIDE DEF q, left
<1>4. Good(q) /\ StillIn(q, queue, next)
  <2>1. Stage(q)
    BY <1>0, <1>2, <1>3 DEF Stage
  <2>2. Found(q) /\ StillIn(q, queue, next)
    BY <1>2, <1>3 DEF Found, StillIn
  <2> QED
    BY <1>3, <2>1, <2>2 DEF Good
<1>5. /\ Good(Answered(q, "500")) /\ StillIn(Answered(q, "500"), queue, next)
      /\ Answered(q, "500").r = rq[w].r
  <2>1. "500" \in Answers \ {"none"} /\ Plain(q, "500")
    BY DEF Answers, Plain
  <2>2. Good(Answered(q, "500")) /\ StillIn(Answered(q, "500"), queue, next)
    BY <1>3, <1>4, <2>1, AnsweredGood
  <2>3. Answered(q, "500").r = q.r
    BY <1>3, <2>1, AnsweredFields
  <2> QED
    BY <1>3, <2>2, <2>3
<1>6. ASSUME NEW i, NEW n, n = [q EXCEPT !.id = i, !.pc = "own"]
      PROVE  Good(n) /\ StillIn(n, queue, next) /\ n.r = rq[w].r
  <2>1. /\ Shape(n) /\ n.pc = "own" /\ n.ans = q.ans /\ n.r = q.r /\ n.n = q.n
        /\ n.looks = q.looks /\ n.rdr = q.rdr /\ n.ptr = q.ptr
    BY <1>3, <1>6 DEF Shape, Steps
  <2>2. Stage(n)
    BY <1>2, <1>3, <1>4, <2>1 DEF Good, Stage, SubmitSteps
  <2>3. Found(n) /\ StillIn(n, queue, next)
    BY <1>2, <1>3, <2>1 DEF Found, StillIn
  <2> QED
    BY <1>3, <2>1, <2>2, <2>3 DEF Good
<1>7. CASE NoFault /\ Enter(w, left, [q EXCEPT !.id = next, !.pc = "own"])
  BY <1>0, <1>6, <1>7, EnterInv
<1>8. CASE NoFault /\ Go(w, [q EXCEPT !.pc = "own"])
  <2>1. [q EXCEPT !.pc = "own"] = [q EXCEPT !.id = q.id, !.pc = "own"]
    BY <1>3 DEF Shape
  <2>2. Steps1(w, [q EXCEPT !.pc = "own"])
    BY <1>0, <1>8 DEF Steps1
  <2> QED
    BY <1>6, <2>1, <2>2, GoInv
<1>9. CASE Fault /\ Enter(w, left, Answered(q, "500"))
  BY <1>0, <1>5, <1>9, EnterInv
<1>10. CASE Fault /\ Go(w, Answered(q, "500"))
  <2>1. Steps1(w, Answered(q, "500"))
    BY <1>0, <1>10 DEF Steps1
  <2> QED
    BY <1>5, <2>1, GoInv
<1> QED
  BY <1>1, <1>7, <1>8, <1>9, <1>10

-----------------------------------------------------------------------------
(* Every step. *)

LEMMA StepInv == ASSUME JobsInv, NEW w \in Workers, Step(w), UNCHANGED moves PROVE JobsInv'
BY ReceiveInv, CancelBodyInv, ProbeInv, ListingInv, LookupInv, CheckDdidInv, ReadSpoolInv,
   CancelInv, LookInv, HeadersInv, ContentInv, OpenReaderInv, LinesInv, CardInv, PutInv,
   CloseInv, OwnInv, QuitInv, AbendInv
   DEF Step

LEMMA StutterJobs == ASSUME JobsInv, UNCHANGED vars PROVE JobsInv'
<1>1. UNCHANGED <<queue, next, entered, rq, count, faults, moves>>
  BY DEF vars
<1>2. QueueOK' /\ Counters'
  BY <1>1 DEF JobsInv, QueueOK, Counters
<1>3. \A w \in Workers : Good(rq'[w]) /\ StillIn(rq'[w], queue', next')
  BY <1>1 DEF JobsInv
<1> QED
  BY <1>1, <1>2, <1>3 DEF JobsInv

LEMMA NextJobs == ASSUME JobsInv, [Next]_vars PROVE JobsInv'
<1>1. ASSUME NEW w \in Workers, Step(w), UNCHANGED moves PROVE JobsInv'
  BY <1>1, StepInv
<1>2. CASE Other
  BY <1>2, OtherInv
<1>3. CASE Finished
  BY <1>3, StutterJobs DEF Finished
<1>4. CASE UNCHANGED vars
  BY <1>4, StutterJobs
<1> QED
  BY <1>1, <1>2, <1>3, <1>4 DEF Next

LEMMA JobsInvariant == Spec => []JobsInv
<1>1. Init => JobsInv
  BY InitJobs
<1>2. JobsInv /\ [Next]_vars => JobsInv'
  BY NextJobs
<1> QED
  BY <1>1, <1>2, PTL DEF Spec

-----------------------------------------------------------------------------
(* The theorems. *)

\* For any number of workers and any requests, every request is at a step its handler can
\* be in, and the internal reader a submit opens is closed once: by jesircl2 at its end,
\* else at quit (jobSubmitHandler).  The one it does not speak for is that of a request that
\* abends between the open and the close: it stays behind, as the code says (open_intrdr).
THEOREM RequestsAreSound == Spec => []RequestSound
<1>1. JobsInv => RequestSound
  <2> SUFFICES ASSUME JobsInv PROVE RequestSound
    OBVIOUS
  <2>1. ASSUME NEW w \in Workers
        PROVE  /\ rq[w].pc \in Steps /\ rq[w].ans \in Answers
               /\ rq[w].job \in Job \cup {None} /\ rq[w].looks \in 0 .. PurgeLooks
               /\ (rq[w].ans = "none" <=> rq[w].pc # "quit")
               /\ rq[w].rdr \notin {"twice", "lost"}
               /\ (rq[w].rdr = "left" => rq[w].pc = "idle")
    <3>1. Shape(rq[w]) /\ Stage(rq[w])
      BY TypedJob DEF Good
    <3> QED
      BY <3>1 DEF Shape, Stage
  <2>2. QueueOK /\ Counters
    BY DEF JobsInv
  <2> QED
    BY <2>1, <2>2 DEF RequestSound, TypeOK, ReaderClosedOnce, QueueOK, Counters, At
<1> QED
  BY <1>1, JobsInvariant, PTL

\* Whatever the levels and whoever asks, what a handler says of one job other than "not
\* found" is about a job its caller may see, or was given before a job was looked for, and
\* only a reader is told that he may not purge it (find_job_by_name_and_id).
THEOREM HiddenJobsAreAbsent == Spec => []HiddenIsAbsent
<1>1. JobsInv => HiddenIsAbsent
  <2> SUFFICES ASSUME JobsInv, NEW w \in Workers, At(w, "quit"), R(w).op \in OneJobOps
               PROVE  /\ rq[w].job # None => MayRead(R(w).user, rq[w].job)
                      /\ rq[w].ans # "404" => rq[w].job # None \/ rq[w].id = None
                      /\ rq[w].ans = "denied" =>
                           Racf(R(w).user, rq[w].job.owner, rq[w].job.name) = "read"
    BY DEF HiddenIsAbsent, OneJobOps
  <2>1. Found(rq[w])
    BY TypedJob DEF Good
  <2> QED
    BY <2>1 DEF Found, At, R
<1> QED
  BY <1>1, JobsInvariant, PTL

\* A purge is reported as done only when the job has left the queue, as far as the looks of
\* the handler could see, whatever JES2 does between them (job_still_queued).
THEOREM PurgeIsTruthful == Spec => []PurgeTruthful
<1>1. JobsInv => PurgeTruthful
  <2> SUFFICES ASSUME JobsInv, NEW w \in Workers, At(w, "quit"), R(w).op = "purge",
                      rq[w].ans = "200"
               PROVE  \/ queue[rq[w].id] = None \/ rq[w].blind
                      \/ ~MayRead(R(w).user, queue[rq[w].id])
    BY DEF PurgeTruthful
  <2>1. Found(rq[w]) /\ StillIn(rq[w], queue, next)
    BY TypedJob DEF Good
  <2> QED
    BY <2>1 DEF Found, StillIn, At, R, OneJobOps
<1> QED
  BY <1>1, JobsInvariant, PTL

-----------------------------------------------------------------------------
(* Whose job a handler cancels. *)

\* A step of a worker moves its own request.
LEMMA OneMoves ==
    ASSUME NEW v \in Workers, Step(v) PROVE \E q : rq' = [rq EXCEPT ![v] = q]
<1>1. ASSUME NEW q, Go(v, q) PROVE \E x : rq' = [rq EXCEPT ![v] = x]
  BY <1>1 DEF Go
<1>2. ASSUME NEW c, NEW q, Enter(v, c, q) PROVE \E x : rq' = [rq EXCEPT ![v] = x]
  BY <1>2 DEF Enter
<1>3. CASE Receive(v)
  BY <1>1, <1>3, Zenon DEF Receive
<1>4. CASE CancelBody(v) \/ Headers(v) \/ Content(v) \/ OpenReader(v) \/ Lines(v)
  BY <1>1, <1>4, Zenon DEF CancelBody, Headers, Content, OpenReader, Lines
<1>5. CASE Probe(v) \/ Listing(v)
  BY <1>1, <1>5, Zenon DEF Probe, Listing
<1>6. CASE Lookup(v) \/ Look(v) \/ Own(v)
  BY <1>1, <1>6, Zenon DEF Lookup, Look, Own, SendStatus
<1>7. CASE CheckDdid(v) \/ ReadSpool(v) \/ Card(v) \/ Quit(v) \/ Abend(v)
  BY <1>1, <1>7, Zenon DEF CheckDdid, ReadSpool, Card, Quit, Abend
<1>8. CASE Put(v) \/ Close(v)
  BY <1>1, <1>2, <1>8, Zenon DEF Put, Close
<1>9. CASE Cancel(v)
  BY <1>9, Zenon DEF Cancel
<1> QED
  BY <1>3, <1>4, <1>5, <1>6, <1>7, <1>8, <1>9 DEF Step

LEMMA StepOf ==
    ASSUME JobsInv, NEW w \in Workers, rq[w].pc = "cancel", rq'[w] # rq[w], [Next]_vars
    PROVE  Cancel(w) \/ Abend(w)
<1>1. \/ \E v \in Workers : Step(v)
      \/ rq' = rq
  BY DEF Next, Other, Finished, vars, Convert, Ends, Release, Leaves, Jes
<1>2. PICK v \in Workers : Step(v)
  BY <1>1
<1>3. v = w
  BY <1>2, OneMoves DEF JobsInv
<1> QED
  BY <1>2, <1>3 DEF Step, At, Receive, CancelBody, Probe, Listing, Lookup, CheckDdid, ReadSpool,
     Look, Headers, Content, OpenReader, Lines, Card, Put, Close, Own, Quit

LEMMA CancelPermitted ==
    ASSUME JobsInv, NEW w \in Workers, Cancel(w), NEW i \in Ids, queue'[i] # queue[i]
    PROVE  MayPurge(R(w).user, queue[i])
<1> DEFINE q == rq[w]
<1>1. q.pc = "cancel" /\ Good(q) /\ StillIn(q, queue, next)
  BY TypedJob DEF Cancel, At
<1>2. /\ q.job # None /\ q.r.op \in OneJobOps /\ q.r.user \in Users
      /\ q.job.owner \in {Blank, q.job.user}
      /\ q.job.owner = q.r.user \/ Racf(q.r.user, q.job.owner, q.job.name) = "update"
  BY <1>1, Asked DEF Good, Stage, Found
<1>3. queue[q.id] # None => queue[q.id].user = q.job.user
  BY <1>1, <1>2 DEF StillIn
<1>4. i = q.id /\ Canj(q.job.name, q.id, R(w).op = "purge") = "ok"
  <2> DEFINE rc == Canj(q.job.name, q.id, R(w).op = "purge")
  <2>1. \/ queue' = IF rc = "ok" THEN [queue EXCEPT ![q.id] = Cancelled(@)] ELSE queue
        \/ UNCHANGED queue
    BY Zenon DEF Cancel
  <2>2. queue = [k \in Ids |-> queue[k]]
    BY DEF JobsInv, QueueOK
  <2> HIDE DEF rc
  <2>3. rc = "ok" /\ i = q.id
    BY <2>1, <2>2
  <2> QED
    BY <2>3 DEF rc
<1>5. queue[q.id] # None /\ queue[q.id].name = q.job.name
  BY <1>4, Zenon DEF Canj
<1>6. CASE q.job.owner = q.r.user
  BY <1>2, <1>3, <1>4, <1>5, <1>6, Bounds DEF MayPurge, R
<1>7. CASE Racf(q.r.user, q.job.owner, q.job.name) = "update"
  <2>1. q.job.owner \in {Blank, queue[i].user} /\ q.job.name = queue[i].name
    BY <1>2, <1>3, <1>4, <1>5
  <2> QED
    BY <1>7, <2>1 DEF MayPurge, R
<1> QED
  BY <1>2, <1>6, <1>7

\* A handler cancels or purges a job only for the user it runs as or for one with UPDATE on
\* it, although JES2 converts, ends and purges jobs between the check of the lookup and the
\* cancel (cancel_job, find_job_by_name_and_id).
THEOREM CancelsArePermitted == Spec => OnlyPermitted
<1>1. JobsInv /\ [Next]_vars =>
        [\A w \in Workers : At(w, "cancel") /\ rq'[w] # rq[w] =>
           \A i \in Ids : queue'[i] # queue[i] => MayPurge(R(w).user, queue[i])]_vars
  <2>1. ASSUME NEW w \in Workers, Abend(w) PROVE queue' = queue
    BY <2>1 DEF Abend, Go
  <2> QED
    BY <2>1, StepOf, CancelPermitted DEF At
<1> QED
  BY <1>1, JobsInvariant, PTL DEF Spec, OnlyPermitted

-----------------------------------------------------------------------------
(* The rows of a list. *)

Smaller == OpToRel(<, Nat)

LEMMA SmallerDef == ASSUME NEW x \in Nat, NEW y \in Nat PROVE <<x, y>> \in Smaller <=> x < y
BY DEF Smaller, OpToRel

\* Induction over the natural numbers, by the least one that is missing.
LEMMA SetInduction ==
    ASSUME NEW S, 0 \in S, \A n \in Nat : n \in S => n + 1 \in S
    PROVE  Nat \subseteq S
<1> DEFINE T == Nat \ S
<1> SUFFICES ASSUME T # {} PROVE FALSE
  OBVIOUS
<1>1. IsWellFoundedOn(Smaller, Nat)
  BY NatLessThanWellFounded DEF Smaller
<1>2. T \subseteq Nat /\ T # {}
  OBVIOUS
<1> HIDE DEF T
<1>3. PICK x \in T : \A y \in T : ~(<<y, x>> \in Smaller)
  BY <1>1, <1>2, WFMin
<1> USE DEF T
<1>4. x \in Nat /\ x # 0
  OBVIOUS
<1>5. x - 1 \in Nat /\ x - 1 < x
  BY <1>4
<1>6. x - 1 \notin T
  BY <1>3, <1>4, <1>5, SmallerDef
<1> QED
  BY <1>4, <1>5, <1>6

\* The scan of the queue as a function of the entry it has come to.
NoRows == [rows |-> {}, cache |-> {}]
Scanned(f, i, u, o, s, m, e) == IF i = 0 THEN NoRows ELSE Row(f[i - 1], i, u, o, s, m, e)
Scans(f, k, u, o, s, m, e) == f = [i \in 0 .. k |-> Scanned(f, i, u, o, s, m, e)]

LEMMA ScanExists ==
    ASSUME NEW u, NEW o, NEW s, NEW m, NEW e, NEW k \in Nat
    PROVE  \E f : Scans(f, k, u, o, s, m, e)
<1> DEFINE S == {n \in Nat : \E f : Scans(f, n, u, o, s, m, e)}
<1>1. 0 \in S
  <2> DEFINE f == [i \in 0 .. 0 |-> NoRows]
  <2>1. \A i \in 0 .. 0 : i = 0 /\ Scanned(f, i, u, o, s, m, e) = NoRows
    BY DEF Scanned
  <2>2. Scans(f, 0, u, o, s, m, e)
    BY <2>1 DEF Scans
  <2> QED
    BY <2>2
<1>2. ASSUME NEW n \in Nat, n \in S PROVE n + 1 \in S
  <2>1. PICK f : Scans(f, n, u, o, s, m, e)
    BY <1>2
  <2> DEFINE g == [i \in 0 .. n + 1 |-> IF i <= n THEN f[i] ELSE Scanned(f, i, u, o, s, m, e)]
  <2>2. ASSUME NEW i \in 0 .. n + 1 PROVE g[i] = Scanned(g, i, u, o, s, m, e)
    <3>1. g[i] = Scanned(f, i, u, o, s, m, e)
      <4>1. CASE i <= n
        <5>1. i \in 0 .. n /\ g[i] = f[i]
          BY <4>1
        <5> HIDE DEF g
        <5> QED
          BY <2>1, <5>1 DEF Scans
      <4>2. CASE ~(i <= n)
        BY <4>2
      <4> QED
        BY <4>1, <4>2
    <3>2. i # 0 => g[i - 1] = f[i - 1]
      <4>1. i # 0 => i - 1 \in 0 .. n + 1 /\ i - 1 <= n
        OBVIOUS
      <4> QED
        BY <4>1
    <3> HIDE DEF g
    <3> QED
      BY <3>1, <3>2 DEF Scanned
  <2>3. g = [i \in 0 .. n + 1 |-> g[i]]
    OBVIOUS
  <2> HIDE DEF g
  <2>4. Scans(g, n + 1, u, o, s, m, e)
    BY <2>2, <2>3 DEF Scans
  <2> QED
    BY <2>4
<1> HIDE DEF S
<1>3. Nat \subseteq S
  BY <1>1, <1>2, SetInduction
<1> QED
  BY <1>3 DEF S

LEMMA RowsIs ==
    ASSUME NEW u, NEW o, NEW s, NEW m, NEW e
    PROVE  \E f : /\ f[0] = NoRows
                  /\ \A i \in 1 .. MaxJobs : f[i] = Row(f[i - 1], i, u, o, s, m, e)
                  /\ Rows(u, o, s, m, e) = f[MaxJobs].rows
<1> DEFINE f == CHOOSE f : Scans(f, MaxJobs, u, o, s, m, e)
<1>1. Scans(f, MaxJobs, u, o, s, m, e)
  BY ScanExists, Bounds
<1>2. Rows(u, o, s, m, e) = f[MaxJobs].rows
  BY DEF Rows, Scans, Scanned, NoRows
<1> HIDE DEF f
<1>3. /\ f[0] = NoRows
      /\ \A i \in 1 .. MaxJobs : f[i] = Row(f[i - 1], i, u, o, s, m, e)
  BY <1>1, Bounds DEF Scans, Scanned
<1> QED
  BY <1>2, <1>3

\* A job the filters ask for and the caller may see.
Shows(i, u, o, s) == queue[i] # None /\ ~Skip(queue[i], o, s) /\ MayRead(u, queue[i])

\* What the scan has after k entries.
ScanInv(a, k, u, o, s, m, e) ==
    /\ a = [rows |-> a.rows, cache |-> a.cache]
    /\ \A i \in a.rows : i \in 1 .. k /\ Shows(i, u, o, s)
    /\ IsFiniteSet(a.rows) /\ Cardinality(a.rows) <= m
    /\ \A c \in a.cache : c.level = Level[u][c.key]
    /\ e = {} =>
         \/ \A j \in 1 .. k : Shows(j, u, o, s) => j \in a.rows
         \/ /\ Cardinality(a.rows) = m
            /\ \A i \in a.rows, j \in 1 .. k : Shows(j, u, o, s) /\ j \notin a.rows => i < j

\* A level from the cache is the one RACF gives.
LEMMA CachedIs ==
    ASSUME NEW u, NEW cache, \A c \in cache : c.level = Level[u][c.key], NEW job,
           NEW i, NEW e, NEW c, c = Cached(u, cache, job, i \in e)
    PROVE  /\ c.level \in {"err", Racf(u, job.owner, job.name)}
           /\ i \notin e => c.level = Racf(u, job.owner, job.name)
           /\ \A x \in c.cache : x.level = Level[u][x.key]
<1> DEFINE k == EntityKey(job.owner, job.name)
           known == {x \in cache : x.key = k}
           asked == IF i \in e THEN "err" ELSE Racf(u, job.owner, job.name)
<1>1. Racf(u, job.owner, job.name) = Level[u][k]
  BY DEF Racf, EntityKey
<1>2. /\ asked \in {"err", Level[u][k]}
      /\ i \notin e \/ asked # "err" => asked = Level[u][k]
  BY <1>1
<1> HIDE DEF k, asked
<1>3. CASE known # {}
  <2>1. c.level = (CHOOSE x \in known : TRUE).level /\ c.cache = cache
    BY <1>3 DEF Cached, k
  <2>2. (CHOOSE x \in known : TRUE) \in known
    BY <1>3
  <2>3. c.level = Level[u][k]
    BY <2>1, <2>2
  <2> QED
    BY <1>1, <2>1, <2>3
<1>4. CASE known = {}
  <2>1. /\ c.level = asked
        /\ c.cache = cache \/ (asked # "err" /\ c.cache = cache \cup {[key |-> k, level |-> asked]})
    BY <1>4 DEF Cached, k, asked
  <2>2. \A x \in c.cache : x.level = Level[u][x.key]
    BY <1>2, <2>1
  <2> QED
    BY <1>1, <1>2, <2>1, <2>2
<1> QED
  BY <1>3, <1>4

\* The entry behind the ones scanned is added, or it is not.
LEMMA RowAdded ==
    ASSUME NEW a, NEW k \in Nat, NEW u, NEW o, NEW s, NEW m \in Nat, NEW e,
           ScanInv(a, k, u, o, s, m, e), Cardinality(a.rows) < m, Shows(k + 1, u, o, s),
           NEW b, b = [rows |-> a.rows \cup {k + 1}, cache |-> b.cache],
           \A c \in b.cache : c.level = Level[u][c.key]
    PROVE  ScanInv(b, k + 1, u, o, s, m, e)
<1>1. IsFiniteSet(a.rows) /\ Cardinality(a.rows) \in Nat /\ \A i \in a.rows : i \in 1 .. k
  BY FS_CardinalityType DEF ScanInv
<1>2. k + 1 \notin a.rows /\ b.rows = a.rows \cup {k + 1}
  BY <1>1
<1>3. IsFiniteSet(b.rows) /\ Cardinality(b.rows) = Cardinality(a.rows) + 1
  BY <1>1, <1>2, FS_AddElement
<1>4. \A i \in b.rows : i \in 1 .. (k + 1) /\ Shows(i, u, o, s)
  BY <1>2 DEF ScanInv
<1>5. e = {} => \A j \in 1 .. k : Shows(j, u, o, s) => j \in a.rows
  BY <1>1 DEF ScanInv
<1>6. e = {} => \A j \in 1 .. (k + 1) : Shows(j, u, o, s) => j \in b.rows
  <2>1. \A j \in 1 .. (k + 1) : j \in 1 .. k \/ j = k + 1
    OBVIOUS
  <2> QED
    BY <1>2, <1>5, <2>1
<1> QED
  BY <1>1, <1>3, <1>4, <1>6 DEF ScanInv

LEMMA RowLeftOut ==
    ASSUME NEW a, NEW k \in Nat, NEW u, NEW o, NEW s, NEW m \in Nat, NEW e,
           ScanInv(a, k, u, o, s, m, e),
           Cardinality(a.rows) = m \/ (e = {} => ~Shows(k + 1, u, o, s)),
           NEW b, b = [rows |-> a.rows, cache |-> b.cache],
           \A c \in b.cache : c.level = Level[u][c.key]
    PROVE  ScanInv(b, k + 1, u, o, s, m, e)
<1>1. b.rows = a.rows /\ \A i \in a.rows : i \in 1 .. k
  BY DEF ScanInv
<1>2. \A i \in b.rows : i \in 1 .. (k + 1) /\ i < k + 1 /\ Shows(i, u, o, s)
  BY <1>1 DEF ScanInv
<1>3. \A j \in 1 .. (k + 1) : j \in 1 .. k \/ j = k + 1
  OBVIOUS
<1>4. IsFiniteSet(b.rows) /\ Cardinality(b.rows) <= m
  BY <1>1 DEF ScanInv
<1>5. ASSUME e = {}
      PROVE  \/ \A j \in 1 .. (k + 1) : Shows(j, u, o, s) => j \in b.rows
             \/ /\ Cardinality(b.rows) = m
                /\ \A i \in b.rows, j \in 1 .. (k + 1) :
                     Shows(j, u, o, s) /\ j \notin b.rows => i < j
  <2>1. CASE Cardinality(a.rows) = m
    <3>1. \A i \in a.rows, j \in 1 .. k : Shows(j, u, o, s) /\ j \notin a.rows => i < j
      BY <1>5 DEF ScanInv
    <3> QED
      BY <1>1, <1>2, <1>3, <2>1, <3>1
  <2>2. CASE Cardinality(a.rows) # m
    <3>1. \A j \in 1 .. k : Shows(j, u, o, s) => j \in a.rows
      BY <1>5, <2>2 DEF ScanInv
    <3> QED
      BY <1>1, <1>3, <1>5, <2>2, <3>1
  <2> QED
    BY <2>1, <2>2
<1> QED
  BY <1>2, <1>4, <1>5 DEF ScanInv

LEMMA DecideIs ==
    ASSUME NEW l PROVE Decide("list", l) = "allow" <=> l \in {"read", "update"}
BY DEF Decide

LEMMA RowInv ==
    ASSUME NEW a, NEW k \in Nat, NEW u, NEW o, NEW s, NEW m \in Nat, NEW e,
           ScanInv(a, k, u, o, s, m, e)
    PROVE  ScanInv(Row(a, k + 1, u, o, s, m, e), k + 1, u, o, s, m, e)
<1> DEFINE i == k + 1
           job == queue[i]
           b == Row(a, i, u, o, s, m, e)
           c == Cached(u, a.cache, job, i \in e)
<1>0. /\ a = [rows |-> a.rows, cache |-> a.cache] /\ IsFiniteSet(a.rows)
      /\ Cardinality(a.rows) <= m /\ Cardinality(a.rows) \in Nat
      /\ \A x \in a.cache : x.level = Level[u][x.key]
  BY FS_CardinalityType DEF ScanInv
<1>1. CASE job = None \/ Cardinality(a.rows) >= m \/ Skip(job, o, s)
  <2>1. b = a
    BY <1>1 DEF Row
  <2>2. Cardinality(a.rows) = m \/ ~Shows(i, u, o, s)
    BY <1>0, <1>1 DEF Shows
  <2> HIDE DEF b
  <2>3. ScanInv(b, i, u, o, s, m, e)
    BY <1>0, <2>1, <2>2, RowLeftOut
  <2> QED
    BY <2>3 DEF b
<1>2. CASE ~(job = None \/ Cardinality(a.rows) >= m \/ Skip(job, o, s)) /\ job.owner = u
  <2>1. b = [a EXCEPT !.rows = @ \cup {i}]
    BY <1>2 DEF Row
  <2>2. Cardinality(a.rows) < m /\ Shows(i, u, o, s)
    BY <1>0, <1>2 DEF Shows, MayRead
  <2> HIDE DEF b
  <2>3. b = [rows |-> a.rows \cup {i}, cache |-> a.cache]
    BY <1>0, <2>1
  <2>4. b = [rows |-> a.rows \cup {i}, cache |-> b.cache] /\ b.cache = a.cache
    BY <2>3
  <2>5. ScanInv(b, i, u, o, s, m, e)
    BY <1>0, <2>2, <2>4, RowAdded
  <2> QED
    BY <2>5 DEF b
<1>3. CASE ~(job = None \/ Cardinality(a.rows) >= m \/ Skip(job, o, s)) /\ job.owner # u
  <2>1. b = [rows |-> IF Decide("list", c.level) = "allow" THEN a.rows \cup {i} ELSE a.rows,
             cache |-> c.cache]
    BY <1>3, Zenon DEF Row
  <2>2. /\ c.level \in {"err", Racf(u, job.owner, job.name)}
        /\ i \notin e => c.level = Racf(u, job.owner, job.name)
        /\ \A x \in c.cache : x.level = Level[u][x.key]
    <3>1. \A x \in a.cache : x.level = Level[u][x.key]
      BY <1>0
    <3>2. PICK d : d = Cached(u, a.cache, job, i \in e)
      OBVIOUS
    <3>3. c = d
      BY <3>2
    <3> HIDE DEF i, job, c
    <3>4. /\ d.level \in {"err", Racf(u, job.owner, job.name)}
          /\ i \notin e => d.level = Racf(u, job.owner, job.name)
          /\ \A x \in d.cache : x.level = Level[u][x.key]
      BY <3>1, <3>2, CachedIs
    <3> QED
      BY <3>3, <3>4
  <2>3. Shows(i, u, o, s) <=> Racf(u, job.owner, job.name) \in {"read", "update"}
    BY <1>3 DEF Shows, MayRead
  <2>4. Decide("list", c.level) = "allow" <=> c.level \in {"read", "update"}
    BY DecideIs
  <2> HIDE DEF b, c
  <2>5. CASE Decide("list", c.level) = "allow"
    <3>1. b = [rows |-> a.rows \cup {i}, cache |-> b.cache] /\ b.cache = c.cache
      BY <2>1, <2>5
    <3>2. Cardinality(a.rows) < m /\ Shows(i, u, o, s)
      <4>1. Racf(u, job.owner, job.name) \in {"read", "update"}
        BY <2>2, <2>4, <2>5
      <4> QED
        BY <1>0, <1>3, <2>3, <4>1
    <3> QED
      BY <2>2, <3>1, <3>2, RowAdded DEF b
  <2>6. CASE Decide("list", c.level) # "allow"
    <3>1. b = [rows |-> a.rows, cache |-> b.cache] /\ b.cache = c.cache
      BY <2>1, <2>6
    <3>2. e = {} => ~Shows(i, u, o, s)
      BY <2>2, <2>3, <2>4, <2>6
    <3> QED
      BY <2>2, <3>1, <3>2, RowLeftOut DEF b
  <2> QED
    BY <2>5, <2>6
<1> QED
  BY <1>1, <1>2, <1>3

LEMMA RowsRight ==
    ASSUME NEW u, NEW o, NEW s, NEW m \in Nat, NEW e
    PROVE  LET shown == {i \in Ids : Shows(i, u, o, s)}
               rows == Rows(u, o, s, m, e)
           IN  /\ rows \subseteq shown
               /\ e = {} =>
                    \/ rows = shown
                    \/ /\ Cardinality(rows) = m
                       /\ \A i \in rows, j \in shown \ rows : i < j
<1>1. PICK f : /\ f[0] = NoRows
               /\ \A i \in 1 .. MaxJobs : f[i] = Row(f[i - 1], i, u, o, s, m, e)
               /\ Rows(u, o, s, m, e) = f[MaxJobs].rows
  BY RowsIs
<1> DEFINE S == {n \in Nat : n <= MaxJobs => ScanInv(f[n], n, u, o, s, m, e)}
<1>2. 0 \in S
  <2>1. Cardinality({}) = 0 /\ IsFiniteSet({})
    BY FS_EmptySet
  <2>2. ScanInv(NoRows, 0, u, o, s, m, e)
    BY <2>1 DEF ScanInv, NoRows
  <2> QED
    BY <1>1, <2>2
<1>3. ASSUME NEW n \in Nat, n \in S PROVE n + 1 \in S
  <2> SUFFICES ASSUME n + 1 <= MaxJobs PROVE ScanInv(f[n + 1], n + 1, u, o, s, m, e)
    OBVIOUS
  <2>1. n <= MaxJobs /\ n + 1 \in 1 .. MaxJobs /\ (n + 1) - 1 = n
    BY Bounds
  <2>2. f[n + 1] = Row(f[n], n + 1, u, o, s, m, e)
    BY <1>1, <2>1
  <2>3. ScanInv(f[n], n, u, o, s, m, e)
    BY <1>3, <2>1
  <2> QED
    BY <2>2, <2>3, RowInv
<1> HIDE DEF S
<1>4. MaxJobs \in S
  BY <1>2, <1>3, SetInduction, Bounds
<1>5. ScanInv(f[MaxJobs], MaxJobs, u, o, s, m, e)
  BY <1>4, Bounds DEF S
<1>6. PICK rows : rows = Rows(u, o, s, m, e) /\ rows = f[MaxJobs].rows
  BY <1>1
<1>7. /\ \A i \in rows : i \in 1 .. MaxJobs /\ Shows(i, u, o, s)
      /\ e = {} =>
           \/ \A j \in 1 .. MaxJobs : Shows(j, u, o, s) => j \in rows
           \/ /\ Cardinality(rows) = m
              /\ \A i \in rows, j \in 1 .. MaxJobs : Shows(j, u, o, s) /\ j \notin rows => i < j
  BY <1>5, <1>6 DEF ScanInv
<1> DEFINE shown == {i \in Ids : Shows(i, u, o, s)}
<1>8. /\ rows \subseteq shown
      /\ e = {} => \/ rows = shown
                   \/ /\ Cardinality(rows) = m
                      /\ \A i \in rows, j \in shown \ rows : i < j
  BY <1>7 DEF Ids
<1> QED
  BY <1>6, <1>8

-----------------------------------------------------------------------------
(* The owner filter of a list. *)

\* A request that reads the spool for a list has the filter its probe resolved, and no rows
\* as yet.
Filtered(q) ==
    /\ q.pc = "listing" => q.filter = ResolveOwner(q.r.user, q.r.owner, q.blind)
    /\ q.pc \in {"probe", "listing"} => q.rows = {}
FilterInv == \A w \in Workers : Filtered(rq[w])

LEMMA MoveFiltered ==
    ASSUME JobsInv, FilterInv, NEW w \in Workers, NEW q, rq' = [rq EXCEPT ![w] = q], Filtered(q)
    PROVE  FilterInv'
<1>1. ASSUME NEW v \in Workers PROVE Filtered(rq'[v])
  <2>1. rq'[v] = IF v = w THEN q ELSE rq[v]
    BY DEF JobsInv
  <2> QED
    BY <2>1 DEF FilterInv
<1>2. \A v \in Workers : Filtered(rq'[v])
  BY <1>1
<1> QED
  BY <1>2 DEF FilterInv, Filtered, ResolveOwner

\* A step that does not lead to the reading of the spool.
LEMMA ElsewhereFiltered ==
    ASSUME JobsInv, FilterInv, NEW w \in Workers, NEW q, q.pc \notin {"probe", "listing"},
           Go(w, q) \/ (\E c : Enter(w, c, q)) \/ rq' = [rq EXCEPT ![w] = q]
    PROVE  FilterInv'
<1>1. rq' = [rq EXCEPT ![w] = q]
  BY Zenon DEF Go, Enter
<1>2. Filtered(q)
  BY DEF Filtered
<1> QED
  BY <1>1, <1>2, MoveFiltered

LEMMA AnsweredElsewhere ==
    ASSUME NEW q, Shape(q), NEW a PROVE Answered(q, a).pc \notin {"probe", "listing"}
BY DEF Answered, Shape, Steps

LEMMA ReceiveFiltered ==
    ASSUME JobsInv, FilterInv, NEW w \in Workers, Receive(w) PROVE FilterInv'
<1> DEFINE n == count + 1
<1> HIDE DEF n
<1>1. PICK r \in Requests :
        LET q == [NoRequest EXCEPT !.r = r, !.n = n, !.pc = FirstStep(r)]
        IN  Go(w, q) \/ Go(w, Answered(q, "500")) \/ Go(w, [q EXCEPT !.builder = FALSE])
  BY Zenon DEF Receive, FirstStep, n
<1> DEFINE q == [NoRequest EXCEPT !.r = r, !.n = n, !.pc = FirstStep(r)]
           blind == [q EXCEPT !.builder = FALSE]
<1>2. FirstStep(r) # "listing"
  BY DEF FirstStep
<1> DEFINE p == FirstStep(r)
<1> HIDE DEF p
<1>3. /\ q.pc = p /\ blind.pc = p /\ Answered(q, "500").pc = "quit"
      /\ q.rows = {} /\ blind.rows = {}
  BY DEF NoRequest, Answered, p
<1>4. Go(w, q) \/ Go(w, Answered(q, "500")) \/ Go(w, blind)
  BY <1>1, Zenon
<1>5. Filtered(q) /\ Filtered(blind) /\ Filtered(Answered(q, "500"))
  <2> HIDE DEF q, blind
  <2> QED
    BY <1>2, <1>3 DEF p, Filtered
<1> HIDE DEF q, blind
<1> QED
  BY <1>4, <1>5, MoveFiltered DEF Go

LEMMA ProbeFiltered ==
    ASSUME JobsInv, FilterInv, NEW w \in Workers, Probe(w) PROVE FilterInv'
<1>1. PICK err \in BOOLEAN :
        Go(w, [rq[w] EXCEPT !.filter = ResolveOwner(R(w).user, R(w).owner, err),
                            !.blind = err, !.pc = "listing"])
  BY DEF Probe
<1> DEFINE f == ResolveOwner(R(w).user, R(w).owner, err)
<1>2. Shape(rq[w])
  BY TypedJob DEF Good
<1>3. PICK q : q = [rq[w] EXCEPT !.filter = f, !.blind = err, !.pc = "listing"]
  OBVIOUS
<1>4. q.filter = f /\ q.blind = err /\ q.r = rq[w].r /\ q.rows = {}
  <2> HIDE DEF f
  <2>1. rq[w].rows = {}
    BY DEF Probe, At, FilterInv, Filtered
  <2> QED
    BY <1>2, <1>3, <2>1 DEF Shape
<1>5. Filtered(q)
  BY <1>4 DEF Filtered, R
<1>6. rq' = [rq EXCEPT ![w] = q]
  BY <1>1, <1>3 DEF Go
<1> QED
  BY <1>5, <1>6, MoveFiltered

\* The steps that only go on or answer.
LEMMA PlainFiltered ==
    ASSUME JobsInv, FilterInv, NEW w \in Workers,
           \/ CancelBody(w) \/ CheckDdid(w) \/ ReadSpool(w) \/ Headers(w) \/ Content(w)
           \/ OpenReader(w) \/ Lines(w) \/ Card(w) \/ Quit(w) \/ Abend(w)
    PROVE  FilterInv'
<1> DEFINE q == rq[w]
<1>1. Shape(q)
  BY TypedJob DEF Good
<1>2. ASSUME NEW a, Go(w, Answered(q, a)) PROVE FilterInv'
  BY <1>1, <1>2, AnsweredElsewhere, ElsewhereFiltered
<1>3. ASSUME NEW p, p \notin {"probe", "listing"}, Go(w, [q EXCEPT !.pc = p]) PROVE FilterInv'
  <2>1. PICK x : x = [q EXCEPT !.pc = p]
    OBVIOUS
  <2>2. x.pc = p
    BY <1>1, <2>1 DEF Shape
  <2> QED
    BY <1>3, <2>1, <2>2, ElsewhereFiltered
<1>4. ASSUME NEW p, p \notin {"probe", "listing"}, NEW c,
             Go(w, [q EXCEPT !.cards = c, !.pc = p])
      PROVE  FilterInv'
  <2>1. PICK x : x = [q EXCEPT !.cards = c, !.pc = p]
    OBVIOUS
  <2>2. x.pc = p
    BY <1>1, <2>1 DEF Shape
  <2> QED
    BY <1>4, <2>1, <2>2, ElsewhereFiltered
<1>5. CASE CancelBody(w) \/ CheckDdid(w) \/ ReadSpool(w)
  <2>1. \/ \E a : Go(w, Answered(q, a))
        \/ \E p : p \notin {"probe", "listing"} /\ Go(w, [q EXCEPT !.pc = p])
    BY <1>5, Zenon DEF CancelBody, CheckDdid, ReadSpool
  <2> QED
    BY <1>2, <1>3, <2>1
<1>6. CASE Headers(w) \/ Content(w)
  <2>1. \/ \E a : Go(w, Answered(q, a))
        \/ \E p : p \notin {"probe", "listing"} /\ Go(w, [q EXCEPT !.pc = p])
    BY <1>6, Zenon DEF Headers, Content
  <2> QED
    BY <1>2, <1>3, <2>1
<1>7. CASE OpenReader(w)
  <2>1. PICK x : x = [q EXCEPT !.rdr = "open", !.ptr = TRUE, !.pc = "lines"]
    OBVIOUS
  <2>2. Go(w, x) \/ Go(w, Answered(q, "500"))
    BY <1>7, <2>1 DEF OpenReader
  <2>3. x.pc \notin {"probe", "listing"}
    BY <1>1, <2>1 DEF Shape
  <2> QED
    BY <1>2, <2>2, <2>3, ElsewhereFiltered
<1>8. CASE Lines(w) \/ Card(w)
  <2>1. \/ \E a : Go(w, Answered(q, a))
        \/ \E p, c : p \notin {"probe", "listing"} /\ Go(w, [q EXCEPT !.cards = c, !.pc = p])
    BY <1>8, Zenon DEF Lines, Card
  <2> QED
    BY <1>2, <1>4, <2>1
<1>9. CASE Quit(w) \/ Abend(w)
  <2>1. \E z : Go(w, [NoRequest EXCEPT !.rdr = z])
    BY <1>9, Zenon DEF Quit, Abend
  <2>2. PICK z, x : x = [NoRequest EXCEPT !.rdr = z] /\ Go(w, x)
    BY <2>1
  <2>3. x.pc \notin {"probe", "listing"}
    BY <2>2 DEF NoRequest
  <2> QED
    BY <2>2, <2>3, ElsewhereFiltered
<1> QED
  BY <1>5, <1>6, <1>7, <1>8, <1>9

LEMMA JobFiltered ==
    ASSUME JobsInv, FilterInv, NEW w \in Workers, Lookup(w) \/ Look(w) \/ Own(w) \/ Cancel(w)
    PROVE  FilterInv'
<1>1. Shape(rq[w])
  BY TypedJob DEF Good
<1>2. ASSUME NEW q, Shape(q), NEW a, Go(w, Answered(q, a)) PROVE FilterInv'
  BY <1>2, AnsweredElsewhere, ElsewhereFiltered
<1>3. CASE Lookup(w)
  <2>1. rq[w].r.op \in OneJobOps
    BY <1>3, TypedJob DEF Lookup, At, Good, Stage
  <2>2. PICK f, n : /\ LookupTo(n, [rq[w] EXCEPT !.job = f.job, !.verdict = f.verdict,
                                                !.id = rq[w].r.id], f, rq[w].r)
                    /\ Go(w, n)
    BY <1>3, <2>1, LookupSteps, Zenon
  <2>3. PICK x : x = [rq[w] EXCEPT !.job = f.job, !.verdict = f.verdict, !.id = rq[w].r.id]
    OBVIOUS
  <2>4. "pc" \in DOMAIN x /\ \A a : Answered(x, a).pc = "quit"
    BY <1>1, <2>3 DEF Shape, Answered
  <2>5. \A p : [x EXCEPT !.pc = p].pc = p
    BY <2>4
  <2>6. (\E a : n = Answered(x, a)) \/ \E p \in {"ddid", "cancel"} : n = [x EXCEPT !.pc = p]
    BY <2>2, <2>3, Zenon DEF LookupTo
  <2>7. n.pc \notin {"probe", "listing"}
    BY <2>4, <2>5, <2>6
  <2> QED
    BY <2>2, <2>7, ElsewhereFiltered
<1>4. CASE Look(w)
  <2> DEFINE q(e) == [rq[w] EXCEPT !.looks = @ + 1, !.blind = @ \/ e]
  <2>1. PICK e : (\E a : Go(w, Answered(q(e), a))) \/ Go(w, q(e))
    BY <1>4, Zenon DEF Look
  <2>2. PICK x : x = q(e)
    OBVIOUS
  <2>3. x.pc = "look" /\ \A a : Answered(x, a).pc = "quit"
    BY <1>1, <1>4, <2>2 DEF Shape, Answered, Look, At
  <2> HIDE DEF q
  <2>4. (\E a : Go(w, Answered(x, a))) \/ Go(w, x)
    BY <2>1, <2>2
  <2>5. \E n : Go(w, n) /\ n.pc \notin {"probe", "listing"}
    BY <2>3, <2>4
  <2> QED
    BY <2>5, ElsewhereFiltered
<1>5. CASE Own(w)
  <2> DEFINE q(j, v, e) == [rq[w] EXCEPT !.job = j, !.verdict = v, !.blind = e]
  <2>1. PICK j, v, e : \E a : Go(w, Answered(q(j, v, e), a))
    BY <1>5, Zenon DEF Own, SendStatus
  <2>2. PICK x : x = q(j, v, e)
    OBVIOUS
  <2>3. \A a : Answered(x, a).pc = "quit"
    BY <1>1, <2>2 DEF Shape, Answered
  <2> HIDE DEF q
  <2>4. \E n : Go(w, n) /\ n.pc \notin {"probe", "listing"}
    BY <2>1, <2>2, <2>3
  <2> QED
    BY <2>4, ElsewhereFiltered
<1>6. CASE Cancel(w)
  <2>1. \/ \E a : rq' = [rq EXCEPT ![w] = Answered(rq[w], a)]
        \/ rq' = [rq EXCEPT ![w] = [rq[w] EXCEPT !.pc = "look"]]
    <3> DEFINE purge == R(w).op = "purge"
               rc == Canj(rq[w].job.name, rq[w].id, purge)
               done == IF purge THEN [rq[w] EXCEPT !.pc = "look"]
                       ELSE Answered(rq[w], IF rq[w].builder THEN "200" ELSE "closed")
    <3>1. \/ rq' = [rq EXCEPT ![w] = CASE rc = "ok" -> done
                                       [] rc = "nojb" -> Answered(rq[w], "404")
                                       [] rc \in {"ican", "outp"} -> Answered(rq[w], "400")]
          \/ rq' = [rq EXCEPT ![w] = Answered(rq[w], "500")]
      BY <1>6, Zenon DEF Cancel
    <3>2. rc \in {"ok", "nojb", "ican", "outp"}
      BY DEF Canj
    <3>3. done = [rq[w] EXCEPT !.pc = "look"] \/ \E a : done = Answered(rq[w], a)
      BY Zenon
    <3> HIDE DEF rc, done
    <3> QED
      BY <3>1, <3>2, <3>3
  <2>2. \A a : Answered(rq[w], a).pc \notin {"probe", "listing"}
    BY <1>1, AnsweredElsewhere
  <2>3. [rq[w] EXCEPT !.pc = "look"].pc \notin {"probe", "listing"}
    BY <1>1 DEF Shape
  <2> QED
    BY <2>1, <2>2, <2>3, ElsewhereFiltered
<1> QED
  BY <1>3, <1>4, <1>5, <1>6

LEMMA ReaderFiltered ==
    ASSUME JobsInv, FilterInv, NEW w \in Workers, Put(w) \/ Close(w) PROVE FilterInv'
<1>1. Shape(rq[w])
  BY TypedJob DEF Good
<1>2. CASE Put(w)
  <2>1. \/ Go(w, [rq[w] EXCEPT !.pc = "close"])
        \/ Go(w, Answered(rq[w], "500"))
        \/ \E c : Enter(w, c, Answered(rq[w], "500"))
        \/ \E c, k : Enter(w, c, [rq[w] EXCEPT !.put = k])
        \/ \E k : Go(w, [rq[w] EXCEPT !.put = k])
    BY <1>2, Zenon DEF Put
  <2>2. /\ [rq[w] EXCEPT !.pc = "close"].pc \notin {"probe", "listing"}
        /\ Answered(rq[w], "500").pc \notin {"probe", "listing"}
    BY <1>1, AnsweredElsewhere DEF Shape
  <2>3. \A k : [rq[w] EXCEPT !.put = k].pc \notin {"probe", "listing"}
    BY <1>1, <1>2 DEF Shape, Put, At
  <2> QED
    BY <2>1, <2>2, <2>3, ElsewhereFiltered
<1>3. CASE Close(w)
  <2>1. PICK q : q = [rq[w] EXCEPT !.rdr = "closed", !.ptr = FALSE]
    OBVIOUS
  <2>2. PICK own : own = [q EXCEPT !.id = next, !.pc = "own"]
    OBVIOUS
  <2>3. PICK gone : gone = [q EXCEPT !.pc = "own"]
    OBVIOUS
  <2>4. \/ Enter(w, Left(q), own) \/ Go(w, gone)
        \/ Enter(w, Left(q), Answered(q, "500")) \/ Go(w, Answered(q, "500"))
    BY <1>3, <2>1, <2>2, <2>3, Zenon DEF Close
  <2>5. /\ own.pc \notin {"probe", "listing"} /\ gone.pc \notin {"probe", "listing"}
        /\ Answered(q, "500").pc \notin {"probe", "listing"}
    BY <1>1, <2>1, <2>2, <2>3 DEF Shape, Answered
  <2> QED
    BY <2>4, <2>5, ElsewhereFiltered
<1> QED
  BY <1>2, <1>3

LEMMA ListingFiltered ==
    ASSUME JobsInv, FilterInv, NEW w \in Workers, Listing(w) PROVE FilterInv'
<1>1. Shape(rq[w])
  BY TypedJob DEF Good
<1>2. \/ \E x : Go(w, Answered([rq[w] EXCEPT !.rows = x], "200"))
      \/ \E a : Go(w, Answered(rq[w], a))
  BY Zenon DEF Listing
<1>3. \A x : Answered([rq[w] EXCEPT !.rows = x], "200").pc \notin {"probe", "listing"}
  BY <1>1 DEF Shape, Answered
<1>4. \A a : Answered(rq[w], a).pc \notin {"probe", "listing"}
  BY <1>1, AnsweredElsewhere
<1>5. \E n : Go(w, n) /\ n.pc \notin {"probe", "listing"}
  <2> HIDE DEF Answered, Go
  <2> QED
    BY <1>2, <1>3, <1>4, Zenon
<1> QED
  BY <1>5, ElsewhereFiltered

LEMMA FilterInvariant == Spec => []FilterInv
<1>1. Init => FilterInv
  BY DEF Init, FilterInv, Filtered, NoRequest
<1>2. ASSUME JobsInv, FilterInv, [Next]_vars PROVE FilterInv'
  <2>1. CASE rq' = rq
    BY <1>2, <2>1 DEF FilterInv, Filtered, ResolveOwner
  <2>2. ASSUME NEW w \in Workers, Step(w) PROVE FilterInv'
    BY <1>2, <2>2, ReceiveFiltered, ProbeFiltered, PlainFiltered, JobFiltered, ReaderFiltered,
       ListingFiltered DEF Step
  <2> QED
    BY <1>2, <2>1, <2>2 DEF Next, Other, Finished, vars, Convert, Ends, Release, Leaves, Jes
<1> QED
  BY <1>1, <1>2, JobsInvariant, PTL DEF Spec

\* What the owner of a list request asks for, by the documented policy.
SeesAll(u, o) == Level[u][<<o, None>>] \in {"read", "update"}
AskedFor(u, req, owner) ==
    \/ owner = u /\ req \in {Blank, u, "*"}
    \/ req = "*" /\ SeesAll(u, Blank)
    \/ req = owner /\ owner # Blank /\ SeesAll(u, owner)

\* The filter lets through what is asked for, and nothing else; when RACF gave no answer,
\* perhaps less.
LEMMA FilterRight ==
    ASSUME NEW u \in Users, NEW req, NEW err \in BOOLEAN, NEW f, f = ResolveOwner(u, req, err),
           NEW owner \in Owners
    PROVE  /\ f # None /\ (f = "*" \/ owner = f) => AskedFor(u, req, owner)
           /\ ~err /\ AskedFor(u, req, owner) => f # None /\ (f = "*" \/ owner = f)
<1>0. /\ Blank \notin Users /\ "*" \notin Users /\ None \notin Users
      /\ Blank # "*" /\ None # "*"
      /\ owner \in Users \/ owner = Blank
  BY Bounds DEF Owners, Blank
<1> DEFINE probe(o) == ~err /\ SeesAll(u, o)
<1>1. f = CASE req \in {Blank, u} -> u
            [] req = "*" -> IF probe(Blank) THEN "*" ELSE u
            [] req \in Users \ {u} -> IF probe(req) THEN req ELSE None
            [] OTHER -> None
  BY DEF ResolveOwner, SeesAll
<1>2. CASE req \in {Blank, u}
  <2>1. f = u
    BY <1>0, <1>1, <1>2
  <2> QED
    BY <1>0, <1>2, <2>1 DEF AskedFor
<1>3. CASE req = "*"
  <2>1. f = IF probe(Blank) THEN "*" ELSE u
    BY <1>0, <1>1, <1>3
  <2> QED
    BY <1>0, <1>3, <2>1 DEF AskedFor
<1>4. CASE req \in Users \ {u}
  <2>1. f = IF probe(req) THEN req ELSE None
    BY <1>0, <1>1, <1>4
  <2> QED
    BY <1>0, <1>4, <2>1 DEF AskedFor
<1>5. CASE req \notin Users \cup {Blank, "*"}
  <2>1. f = None
    BY <1>1, <1>5
  <2> QED
    BY <1>0, <1>5, <2>1 DEF AskedFor
<1> QED
  BY <1>2, <1>3, <1>4, <1>5

\* What the list of worker w may show.
Visible(w) ==
    {i \in Ids : /\ queue[i] # None /\ queue[i].name \notin SysNames
                 /\ R(w).status \in {"*", queue[i].q}
                 /\ AskedFor(R(w).user, R(w).owner, queue[i].owner)
                 /\ MayRead(R(w).user, queue[i])}

\* The rows x are what the policy says, e being the jobs RACF gave no answer for.
ListRight(w, x, sure) ==
    /\ x \subseteq Visible(w)
    /\ sure => \/ x = Visible(w)
               \/ /\ Cardinality(x) = R(w).max
                  /\ \A i \in x, j \in Visible(w) \ x : i < j

\* What is behind the filter is visible, and what is visible is behind the filter when RACF
\* answered the probe.
LEMMA ShownIsVisible ==
    ASSUME JobsInv, FilterInv, NEW w \in Workers, rq[w].pc = "listing"
    PROVE  LET f == rq[w].filter
               shown == {i \in Ids : Shows(i, R(w).user, f, R(w).status)}
           IN  /\ f # None => shown \subseteq Visible(w)
               /\ f # None /\ ~rq[w].blind => shown = Visible(w)
               /\ f = None /\ ~rq[w].blind => Visible(w) = {}
<1> DEFINE f == rq[w].filter
           u == R(w).user
           req == R(w).owner
           s == R(w).status
<1>1. /\ rq[w].r \in Requests /\ u \in Users /\ rq[w].blind \in BOOLEAN
      /\ f = ResolveOwner(u, req, rq[w].blind)
  <2>1. Good(rq[w])
    BY TypedJob
  <2>2. rq[w].r \in Requests /\ rq[w].blind \in BOOLEAN
    BY <2>1 DEF Good, Stage, Shape
  <2>3. f = ResolveOwner(u, req, rq[w].blind)
    BY DEF FilterInv, Filtered, R
  <2> QED
    BY <2>2, <2>3, Asked DEF R
<1>2. ASSUME NEW i \in Ids, queue[i] # None
      PROVE  /\ f # None /\ (f = "*" \/ queue[i].owner = f) => AskedFor(u, req, queue[i].owner)
             /\ ~rq[w].blind /\ AskedFor(u, req, queue[i].owner) =>
                  f # None /\ (f = "*" \/ queue[i].owner = f)
  <2>1. queue[i].owner \in Owners
    BY <1>2 DEF JobsInv, QueueOK, Job
  <2> HIDE DEF f, u, req
  <2> QED
    BY <1>1, <2>1, FilterRight
<1> HIDE DEF f, u, req, s
<1>3. ASSUME NEW i \in Ids
      PROVE  Shows(i, u, f, s) <=> /\ queue[i] # None /\ queue[i].name \notin SysNames
                                   /\ s \in {"*", queue[i].q}
                                   /\ f = "*" \/ queue[i].owner = f
                                   /\ MayRead(u, queue[i])
  BY DEF Shows, Skip
<1>4. ASSUME NEW i \in Ids
      PROVE  i \in Visible(w) <=> /\ queue[i] # None /\ queue[i].name \notin SysNames
                                  /\ s \in {"*", queue[i].q}
                                  /\ AskedFor(u, req, queue[i].owner)
                                  /\ MayRead(u, queue[i])
  BY DEF Visible, u, req, s
<1>5. Visible(w) \subseteq Ids
  BY DEF Visible
<1>6. /\ f # None => \A i \in Ids : Shows(i, u, f, s) => i \in Visible(w)
      /\ ~rq[w].blind => \A i \in Ids : i \in Visible(w) => f # None /\ Shows(i, u, f, s)
  BY <1>2, <1>3, <1>4
<1> DEFINE shown == {i \in Ids : Shows(i, u, f, s)}
<1>7. /\ f # None => shown \subseteq Visible(w)
      /\ f # None /\ ~rq[w].blind => shown = Visible(w)
      /\ f = None /\ ~rq[w].blind => Visible(w) = {}
  <2> HIDE DEF Shows
  <2> QED
    BY <1>5, <1>6
<1> QED
  BY <1>7 DEF f, u, s

LEMMA ScannedRight ==
    ASSUME JobsInv, FilterInv, NEW w \in Workers, rq[w].pc = "listing", rq[w].filter # None,
           NEW e, NEW x, x = Rows(R(w).user, rq[w].filter, R(w).status, R(w).max, e)
    PROVE  ListRight(w, x, e = {} /\ ~rq[w].blind)
<1>1. R(w).max \in Nat
  BY TypedJob, Asked DEF Good, Stage, R
<1> DEFINE shown == {i \in Ids : Shows(i, R(w).user, rq[w].filter, R(w).status)}
<1>2. /\ x \subseteq shown
      /\ e = {} => \/ x = shown
                   \/ /\ Cardinality(x) = R(w).max
                      /\ \A i \in x, j \in shown \ x : i < j
  BY <1>1, RowsRight
<1>3. shown \subseteq Visible(w) /\ (~rq[w].blind => shown = Visible(w))
  BY ShownIsVisible
<1> HIDE DEF shown
<1> QED
  BY <1>2, <1>3 DEF ListRight

LEMMA RowsOf ==
    ASSUME JobsInv, NEW w \in Workers, NEW x, Go(w, Answered([rq[w] EXCEPT !.rows = x], "200"))
    PROVE  rq'[w].rows = x
<1>1. Shape(rq[w])
  BY TypedJob DEF Good
<1>2. PICK n : n = Answered([rq[w] EXCEPT !.rows = x], "200")
  OBVIOUS
<1>3. n.rows = x
  BY <1>1, <1>2 DEF Shape, Answered
<1>4. rq'[w] = n
  BY <1>2 DEF Go, JobsInv
<1> QED
  BY <1>3, <1>4

LEMMA ListingRight ==
    ASSUME JobsInv, FilterInv, NEW w \in Workers, Listing(w), rq'[w].ans = "200"
    PROVE  ListRight(w, rq'[w].rows, faults' = faults /\ ~rq[w].blind)
<1>1. rq[w].pc = "listing"
  BY DEF Listing, At
<1> DEFINE rows(e) == Rows(R(w).user, rq[w].filter, R(w).status, R(w).max, e)
           done(x) == Go(w, Answered([rq[w] EXCEPT !.rows = x], "200"))
<1>2. \/ NoFault /\ done(IF rq[w].filter = None THEN {} ELSE rows({}))
      \/ Fault /\ rq[w].filter # None /\ \E i \in Ids : done(rows({i}))
      \/ Fault /\ \E a \in {"200", "500", "closed"} : Go(w, Answered(rq[w], a))
  BY Zenon DEF Listing
<1>3. CASE Fault /\ \E a : Go(w, Answered(rq[w], a))
  <2>1. PICK a, n : n = Answered(rq[w], a) /\ Go(w, n)
    BY <1>3
  <2>2. n.rows = {}
    <3>1. rq[w].rows = {}
      BY <1>1 DEF FilterInv, Filtered
    <3> QED
      BY <2>1, <3>1, TypedJob DEF Good, Shape, Answered
  <2>3. rq'[w] = n
    BY <2>1 DEF Go, JobsInv
  <2>4. faults' # faults
    BY <1>3 DEF Fault, JobsInv, Counters
  <2> QED
    BY <2>2, <2>3, <2>4 DEF ListRight
<1>4. CASE done({}) /\ rq[w].filter = None
  <2>1. rq'[w].rows = {}
    BY <1>4, RowsOf
  <2>2. ~rq[w].blind => Visible(w) = {}
    BY <1>1, <1>4, ShownIsVisible
  <2> QED
    BY <2>1, <2>2 DEF ListRight
<1>5. CASE done(rows({})) /\ rq[w].filter # None
  <2>1. PICK x : x = rows({})
    OBVIOUS
  <2>2. done(x)
    BY <1>5, <2>1
  <2>3. rq'[w].rows = x
    BY <2>2, RowsOf
  <2>4. ListRight(w, x, {} = {} /\ ~rq[w].blind)
    BY <1>1, <1>5, <2>1, ScannedRight
  <2> QED
    BY <2>3, <2>4 DEF ListRight
<1>6. CASE Fault /\ rq[w].filter # None /\ \E i \in Ids : done(rows({i}))
  <2>1. PICK i \in Ids : done(rows({i}))
    BY <1>6
  <2>2. PICK x : x = rows({i})
    OBVIOUS
  <2>3. done(x)
    BY <2>1, <2>2
  <2>4. rq'[w].rows = x
    BY <2>3, RowsOf
  <2>5. ListRight(w, x, {i} = {} /\ ~rq[w].blind)
    BY <1>1, <1>6, <2>2, ScannedRight
  <2>6. faults' # faults
    BY <1>6 DEF Fault, JobsInv, Counters
  <2> QED
    BY <2>4, <2>5, <2>6 DEF ListRight
<1>7. \/ done({}) /\ rq[w].filter = None
      \/ done(rows({})) /\ rq[w].filter # None
      \/ Fault /\ rq[w].filter # None /\ \E i \in Ids : done(rows({i}))
      \/ Fault /\ \E a : Go(w, Answered(rq[w], a))
  <2> HIDE DEF rows, done
  <2> QED
    BY <1>2
<1> QED
  BY <1>3, <1>4, <1>5, <1>6, <1>7

LEMMA ListStep ==
    ASSUME JobsInv, NEW w \in Workers, rq[w].pc = "listing", rq'[w].ans = "200", [Next]_vars
    PROVE  Listing(w)
<1>1. rq'[w] # rq[w]
  <2>1. rq[w].ans = "none"
    BY TypedJob DEF Good, Stage
  <2> QED
    BY <2>1
<1>2. \/ \E v \in Workers : Step(v)
      \/ rq' = rq
  BY DEF Next, Other, Finished, vars, Convert, Ends, Release, Leaves, Jes
<1>3. PICK v \in Workers : Step(v)
  BY <1>1, <1>2
<1>4. v = w
  BY <1>1, <1>3, OneMoves DEF JobsInv
<1>5. ~Abend(w)
  <2>1. ASSUME NEW z, Go(w, [NoRequest EXCEPT !.rdr = z]) PROVE rq'[w].ans = "none"
    <3>1. PICK n : n = [NoRequest EXCEPT !.rdr = z]
      OBVIOUS
    <3>2. n.ans = "none"
      BY <3>1 DEF NoRequest
    <3> QED
      BY <2>1, <3>1, <3>2 DEF Go, JobsInv
  <2> QED
    BY <2>1 DEF Abend
<1> QED
  BY <1>3, <1>4, <1>5 DEF Step, At, Receive, CancelBody, Probe, Lookup, CheckDdid, ReadSpool,
     Cancel, Look, Headers, Content, OpenReader, Lines, Card, Put, Close, Own, Quit

\* A list shows of the jobs the filters ask for those the caller may see: no other, and, when
\* RACF answers, all of them in queue order up to the limit, whatever the cache of levels held
\* and however small it is (jobListHandler, process_job, level_cached, jwn_resolve_owner).
THEOREM ListsArePolicy == Spec => ListIsPolicy
<1>1. ASSUME JobsInv, FilterInv, [Next]_vars, NEW w \in Workers, rq[w].pc = "listing",
             rq'[w].ans = "200"
      PROVE  ListRight(w, rq'[w].rows, faults' = faults /\ ~rq[w].blind)
  BY <1>1, ListStep, ListingRight
<1>2. JobsInv /\ FilterInv /\ [Next]_vars =>
        [\A w \in Workers : At(w, "listing") /\ rq'[w].ans = "200" =>
         LET u == R(w).user
             sees(o) == Level[u][<<o, None>>] \in {"read", "update"}
             asked(job) ==
                 \/ job.owner = u /\ R(w).owner \in {Blank, u, "*"}
                 \/ R(w).owner = "*" /\ sees(Blank)
                 \/ R(w).owner = job.owner /\ job.owner # Blank /\ sees(job.owner)
             visible == {i \in Ids : /\ queue[i] # None /\ queue[i].name \notin SysNames
                                     /\ R(w).status \in {"*", queue[i].q}
                                     /\ asked(queue[i]) /\ MayRead(u, queue[i])}
         IN  /\ rq'[w].rows \subseteq visible
             /\ faults' = faults /\ ~rq[w].blind =>
                  \/ rq'[w].rows = visible
                  \/ /\ Cardinality(rq'[w].rows) = R(w).max
                     /\ \A i \in rq'[w].rows, j \in visible \ rq'[w].rows : i < j]_vars
  <2> SUFFICES ASSUME JobsInv, FilterInv, [Next]_vars, NEW w \in Workers, At(w, "listing"),
                      rq'[w].ans = "200"
               PROVE  ListRight(w, rq'[w].rows, faults' = faults /\ ~rq[w].blind)
    BY Zenon DEF ListRight, Visible, AskedFor, SeesAll
  <2> QED
    BY <1>1 DEF At
<1> QED
  BY <1>2, JobsInvariant, FilterInvariant, PTL DEF Spec, ListIsPolicy

=============================================================================
