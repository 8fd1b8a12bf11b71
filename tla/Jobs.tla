-------------------------------- MODULE Jobs --------------------------------
(***************************************************************************)
(* The job handlers (src/jobsapi.c) and the spool authorization they ask   *)
(* (src/jwn.c, src/jobauth.c), on a JES2 queue that changes between any    *)
(* two of their calls: a job is converted, runs, ends, is printed and      *)
(* purged, and others submit.                                              *)
(*                                                                         *)
(* JES2 numbers jobs upwards and a number is not given out again within    *)
(* the model: on 3.8j it comes back after 9999 jobs.                       *)
(***************************************************************************)
EXTENDS JobCard, FiniteSets

CONSTANTS
    Workers,
    Names,        \* job names
    SysNames,     \* SYSLOG and INIT, which no list shows
    Cut,          \* Cut[o][n]: what of job name n is in the first 8 characters of o.n
    Level,        \* Level[u][<<o, c>>]: RACF's level for a key
    Start0,       \* the queue at the start
    MaxJobs,      \* bound on job numbers
    CacheMax,     \* levels remembered per request
    PurgeLooks,   \* looks after an accepted purge
    Requests,
    MaxRequests,
    MaxFaults,
    MaxMoves,     \* bound on the steps of JES2 itself
    Prod,         \* whom a job without credentials runs as
    None

Ids == 1 .. MaxJobs
Blank == ""              \* the owner of a job that JES2 has not written yet
Owners == Users \cup {Blank}
Levels == {"err", "noprofile", "none", "read", "update"}

\* A job on the queue.  The owner is blank until the converter writes it; user
\* is whom the job runs as, which the owner becomes.  A device may hold its output.
Job == [name : Names, owner : Owners, user : Users, q : {"INPUT", "ACTIVE", "OUTPUT"},
        stc : BOOLEAN, out : BOOLEAN, held : BOOLEAN]

Ops == {"list", "status", "files", "records", "purge", "cancel", "submit"}

ASSUME JobsAssumption ==
    /\ SysNames \subseteq Names /\ None \notin Ids /\ Prod \in Users
    /\ {Blank, "*", None} \cap Users = {} /\ None # "*"
    /\ Cut \in [Owners -> [Names -> Names \cup {None}]]
    /\ \A u \in Users, o \in Owners, n \in Names : Level[u][<<o, Cut[o][n]>>] \in Levels \ {"err"}
    /\ Start0 \in [Ids -> Job \cup {None}]
    /\ \E k \in 0 .. MaxJobs : {i \in Ids : Start0[i] # None} = 1 .. k
    /\ \A i \in Ids : Start0[i] # None => Start0[i].owner \in {Blank, Start0[i].user}
    /\ MaxJobs \in Nat \ {0} /\ CacheMax \in Nat /\ PurgeLooks \in Nat \ {0}
    /\ MaxRequests \in Nat /\ MaxFaults \in Nat /\ MaxMoves \in Nat
    /\ \A r \in Requests : /\ r.op \in Ops /\ r.user \in Users
                           /\ r.op = "submit" => r.name \in Names
                           /\ r.op = "list" => r.max \in Nat

VARIABLES
    queue,   \* JES2's queue
    next,    \* the next job number
    entered, \* the request each job was submitted by
    rq,      \* the request of each worker
    count,   \* requests so far
    faults,  \* failures of JES2, RACF, storage and I/O so far
    moves    \* steps of JES2 so far

vars == <<queue, next, entered, rq, count, faults, moves>>

Steps == {"idle", "probe", "listing", "body", "lookup", "ddid", "spool", "cancel", "look",
          "headers", "content", "reader", "lines", "card", "put", "close", "own", "quit"}

\* One request: where it is; the job number and the job its lookup found; the verdict;
\* the owner filter; the rows of a list; the looks taken; whether RACF or JES2 gave no answer;
\* the internal reader and the handler's pointer to it; what is to be written to the
\* reader and how much of it is in jobs already; its answer, whether there is a builder
\* for one, and its number.
NoRequest == [pc |-> "idle", r |-> None, job |-> None, verdict |-> "hide", filter |-> Blank,
              rows |-> {}, looks |-> 0, blind |-> FALSE, rdr |-> "none", ptr |-> FALSE,
              cards |-> << >>, put |-> 0, id |-> None, ans |-> "none", builder |-> TRUE, n |-> 0]

Init ==
    /\ queue = Start0
    /\ next = Cardinality({i \in Ids : Start0[i] # None}) + 1
    /\ entered = [i \in Ids |-> None]
    /\ rq = [w \in Workers |-> NoRequest]
    /\ count = 0 /\ faults = 0 /\ moves = 0

-----------------------------------------------------------------------------
(* The spool authorization. *)

\* The key of a cached level: the first 8 characters of <owner>.<name>.<id>.
MutEntityKey(owner, name) == <<owner, None>>
EntityKey(owner, name) == <<owner, Cut[owner][name]>>

\* RACF compares no more than those 8 characters of an entity: external.
Racf(u, owner, name) == Level[u][<<owner, Cut[owner][name]>>]

MutDecidePurge(op, level) == IF level \in {"read", "update"} THEN "allow" ELSE "hide"
MutDecide(op, level) == CASE level = "none" -> "hide" [] OTHER -> "allow"
\* The level of a foreign job decides.
Decide(op, level) ==
    CASE level = "read" -> IF op = "purge" THEN "nopurge" ELSE "allow"
      [] level = "update" -> "allow"
      [] OTHER -> "hide"

\* jwn_check of one job without a cache; err: RACF gives no usable answer.
Check(u, op, job, err) ==
    IF job.owner = u THEN "allow"
    ELSE Decide(op, IF err THEN "err" ELSE Racf(u, job.owner, job.name))

\* The level of a foreign job from the cache of this request, else from RACF; an
\* unusable answer is not kept, and a full cache keeps no more.
Cached(u, cache, job, err) ==
    LET k == EntityKey(job.owner, job.name)
        known == {e \in cache : e.key = k}
        asked == IF err THEN "err" ELSE Racf(u, job.owner, job.name)
    IN  IF known # {} THEN [level |-> (CHOOSE e \in known : TRUE).level, cache |-> cache]
        ELSE [level |-> asked,
              cache |-> IF asked # "err" /\ Cardinality(cache) < CacheMax
                        THEN cache \cup {[key |-> k, level |-> asked]} ELSE cache]

\* The owner filter: "*" and a foreign user id are granted by the probe's level, "*"
\* otherwise means the caller's own jobs; a value nothing can match is None.
ResolveOwner(u, requested, err) ==
    LET probe(o) == ~err /\ Level[u][<<o, None>>] \in {"read", "update"}
    IN  CASE requested \in {Blank, u} -> u
          [] requested = "*" -> IF probe(Blank) THEN "*" ELSE u
          [] requested \in Users \ {u} -> IF probe(requested) THEN requested ELSE None
          [] OTHER -> None

-----------------------------------------------------------------------------
(* Steps of a worker. *)

At(w, step) == rq[w].pc = step
R(w) == rq[w].r

Go(w, new) == rq' = [rq EXCEPT ![w] = new] /\ UNCHANGED <<queue, next, entered>>
NoFault == UNCHANGED faults
Fault == faults < MaxFaults /\ faults' = faults + 1

Answered(q, a) == [q EXCEPT !.ans = a, !.pc = "quit"]

\* A request arrives; the builder of its answer may not get storage.
Receive(w) ==
    /\ At(w, "idle") /\ count < MaxRequests
    /\ count' = count + 1
    /\ \E r \in Requests :
         LET q == [NoRequest EXCEPT
                     !.r = r, !.n = count + 1,
                     !.pc = CASE r.op = "list" -> "probe" [] r.op = "cancel" -> "body"
                              [] r.op = "submit" -> "headers" [] OTHER -> "lookup"]
         IN  \/ NoFault /\ Go(w, q)
             \/ Fault /\ r.op \in {"list", "files"} /\ Go(w, Answered(q, "500"))
             \/ Fault /\ r.op \in {"purge", "cancel"} /\ Go(w, [q EXCEPT !.builder = FALSE])

\* jobCancelHandler reads the body before it answers anything.
CancelBody(w) ==
    /\ At(w, "body") /\ UNCHANGED count
    /\ \/ NoFault /\ Go(w, IF R(w).flaw = "request" THEN Answered(rq[w], "400")
                           ELSE [rq[w] EXCEPT !.pc = "lookup"])
       \/ Fault /\ Go(w, Answered(rq[w], "500"))

\* The owner filter is resolved before the spool is read, and nothing is read when
\* nothing can match.
Probe(w) ==
    /\ At(w, "probe") /\ UNCHANGED count
    /\ \E err \in BOOLEAN :
         /\ IF err THEN Fault ELSE NoFault
         /\ Go(w, [rq[w] EXCEPT !.filter = ResolveOwner(R(w).user, R(w).owner, err),
                                !.blind = err, !.pc = "listing"])

\* A row the filters leave out.
Skip(job, filter, status) ==
    \/ filter # "*" /\ job.owner # filter
    \/ job.name \in SysNames
    \/ status # "*" /\ job.q # status

\* One entry of the queue on top of the rows and the cache so far.
Row(acc, i, u, filter, status, max, err) ==
    LET job == queue[i]
        c == Cached(u, acc.cache, job, i \in err)
    IN  IF job = None \/ Cardinality(acc.rows) >= max THEN acc
        ELSE IF Skip(job, filter, status) THEN acc
        ELSE IF job.owner = u THEN [acc EXCEPT !.rows = @ \cup {i}]
        ELSE [rows |-> IF Decide("list", c.level) = "allow" THEN acc.rows \cup {i}
                       ELSE acc.rows,
              cache |-> c.cache]

\* The rows of the list, in queue order: jobs that pass the filters and the check,
\* up to max; the jobs of err get no usable answer from RACF.
Rows(u, filter, status, max, err) ==
    LET acc[i \in 0 .. MaxJobs] ==
          IF i = 0 THEN [rows |-> {}, cache |-> {}]
          ELSE Row(acc[i - 1], i, u, filter, status, max, err)
    IN  acc[MaxJobs].rows

\* The spool is opened and read once.  A queue that cannot be read is taken for an empty
\* one; a row that cannot be written ends the request without an answer.
Listing(w) ==
    /\ At(w, "listing") /\ UNCHANGED count
    /\ \/ /\ NoFault
          /\ Go(w, Answered([rq[w] EXCEPT !.rows =
                     IF rq[w].filter = None THEN {}
                     ELSE Rows(R(w).user, rq[w].filter, R(w).status, R(w).max, {})], "200"))
       \/ /\ Fault /\ rq[w].filter # None
          /\ \E i \in Ids :
               Go(w, Answered([rq[w] EXCEPT !.rows =
                        Rows(R(w).user, rq[w].filter, R(w).status, R(w).max, {i})], "200"))
       \/ Fault /\ \E a \in {"200", "500", "closed"} : Go(w, Answered(rq[w], a))

-----------------------------------------------------------------------------
(* One job. *)

\* find_job_by_name_and_id: the job the queue has under this name and number, with its
\* owner completed by a submitter who can vouch for it, and the verdict on it.  A job
\* the caller may not see is no job.  err: JES2 or RACF gives no usable answer.
Find(u, op, name, id, submitter, err) ==
    LET there == ~err /\ id \in Ids /\ queue[id] # None /\ queue[id].name = name
        job == IF submitter /\ queue[id].owner = Blank THEN [queue[id] EXCEPT !.owner = u]
               ELSE queue[id]
        verdict == Check(u, op, job, FALSE)
    IN  IF there /\ verdict # "hide" THEN [job |-> job, verdict |-> verdict]
        ELSE [job |-> None, verdict |-> "hide"]

\* process_job writes no object for a system job, also when it was asked for by name.
Shown(job) == IF job.name \in SysNames THEN "empty" ELSE "200"

\* send_job_status_response of the job that was found: without a builder the answer is
\* 500, and a job that cannot be written ends the request without an answer.
SendStatus(w, q) ==
    \/ NoFault /\ Go(w, Answered(q, Shown(q.job)))
    \/ Fault /\ \E a \in {"500", "closed"} : Go(w, Answered(q, a))

\* The lookup of a status, files, records, purge or cancel request.
Lookup(w) ==
    /\ At(w, "lookup") /\ UNCHANGED count
    /\ \E err \in BOOLEAN :
         LET purging == R(w).op \in {"purge", "cancel"}
             f == Find(R(w).user, IF purging THEN "purge" ELSE "read", R(w).name, R(w).id,
                       FALSE, err)
             q == [rq[w] EXCEPT !.job = f.job, !.verdict = f.verdict, !.id = R(w).id]
         IN  \/ /\ f.job = None
                /\ IF err THEN Fault ELSE NoFault
                /\ Go(w, Answered(q, "404"))
             \/ f.job # None /\ R(w).op = "status" /\ SendStatus(w, q)
             \/ f.job # None /\ R(w).op = "files" /\ Fault /\ Go(w, Answered(q, "closed"))
             \/ /\ f.job # None /\ R(w).op # "status" /\ NoFault
                /\ Go(w, CASE R(w).op = "files" -> Answered(q, "200")
                           [] R(w).op = "records" -> [q EXCEPT !.pc = "ddid"]
                           [] purging /\ f.verdict # "allow" -> Answered(q, "denied")
                           [] OTHER -> [q EXCEPT !.pc = "cancel"])

\* The number of the data set is checked against the job that was found.
CheckDdid(w) ==
    /\ At(w, "ddid") /\ UNCHANGED count /\ NoFault
    /\ Go(w, IF R(w).flaw = "ddid" THEN Answered(rq[w], "400") ELSE [rq[w] EXCEPT !.pc = "spool"])

\* The spool is read with the job of the lookup; if the job has gone in between, its
\* blocks are foreign: a loss if records were promised, else an empty data set.
ReadSpool(w) ==
    /\ At(w, "spool") /\ UNCHANGED count
    /\ \/ NoFault /\ Go(w, Answered(rq[w], IF queue[rq[w].id] = None /\ rq[w].job.out
                                           THEN "gone" ELSE "200"))
       \/ Fault /\ Go(w, Answered(rq[w], "500"))

-----------------------------------------------------------------------------
(* Cancel and purge. *)

\* What JES2 does with the request: external.
Canj(name, id, purge) ==
    IF queue[id] = None \/ queue[id].name # name THEN "nojb"
    ELSE IF queue[id].stc THEN "ican"
    ELSE IF ~purge /\ queue[id].q = "OUTPUT" THEN "outp"
    ELSE "ok"
Cancelled(job) == [job EXCEPT !.q = "OUTPUT", !.out = TRUE]

\* The job the lookup found is cancelled by the name and number it carries.  An answer
\* without a builder ends the request without one.
Cancel(w) ==
    /\ At(w, "cancel") /\ UNCHANGED <<count, next, entered>>
    /\ LET purge == R(w).op = "purge"
           rc == Canj(rq[w].job.name, rq[w].id, purge)
           id == rq[w].id
           done == IF purge THEN [rq[w] EXCEPT !.pc = "look"]
                   ELSE Answered(rq[w], IF rq[w].builder THEN "200" ELSE "closed")
       IN  \/ /\ NoFault
              /\ queue' = IF rc = "ok" THEN [queue EXCEPT ![id] = Cancelled(@)] ELSE queue
              /\ rq' = [rq EXCEPT ![w] =
                          CASE rc = "ok" -> done
                            [] rc = "nojb" -> Answered(rq[w], "404")
                            [] rc \in {"ican", "outp"} -> Answered(rq[w], "400")]
           \/ Fault /\ rq' = [rq EXCEPT ![w] = Answered(rq[w], "500")] /\ UNCHANGED queue

MutLook(w) ==
    /\ At(w, "look") /\ UNCHANGED count
    /\ \E err \in BOOLEAN :
         LET f == Find(R(w).user, "purge", rq[w].job.name, rq[w].id, FALSE, err)
             q == [rq[w] EXCEPT !.looks = @ + 1, !.blind = @ \/ err]
         IN  /\ IF err THEN Fault ELSE NoFault
             /\ Go(w, CASE f.job = None \/ q.looks = PurgeLooks -> Answered(q, "200")
                        [] OTHER -> q)
\* After an accepted purge the queue is looked at up to PurgeLooks times, a nap apart.
Look(w) ==
    /\ At(w, "look") /\ UNCHANGED count
    /\ \E err \in BOOLEAN :
         LET f == Find(R(w).user, "purge", rq[w].job.name, rq[w].id, FALSE, err)
             q == [rq[w] EXCEPT !.looks = @ + 1, !.blind = @ \/ err]
         IN  /\ IF err THEN Fault ELSE NoFault
             /\ Go(w, IF f.job = None THEN Answered(q, IF q.builder THEN "200" ELSE "closed")
                      ELSE IF q.looks = PurgeLooks
                      THEN Answered(q, IF q.builder THEN "pending" ELSE "closed")
                      ELSE q)

-----------------------------------------------------------------------------
(* Submit. *)

\* validate_intrdr_headers, and the body.
Headers(w) ==
    /\ At(w, "headers") /\ UNCHANGED count
    /\ \/ NoFault /\ Go(w, IF R(w).flaw = "headers" THEN Answered(rq[w], "400")
                           ELSE [rq[w] EXCEPT !.pc = "content"])
       \/ Fault /\ \E a \in {"400", "413", "500"} : Go(w, Answered(rq[w], a))

\* The content type, and the file member of a JSON body.
Content(w) ==
    /\ At(w, "content") /\ UNCHANGED count /\ NoFault
    /\ Go(w, IF R(w).flaw \in {"ctype", "nofile"} THEN Answered(rq[w], "400")
             ELSE [rq[w] EXCEPT !.pc = "reader"])

\* The internal reader is opened as late as the request allows.
OpenReader(w) ==
    /\ At(w, "reader") /\ UNCHANGED count
    /\ \/ NoFault /\ Go(w, [rq[w] EXCEPT !.rdr = "open", !.ptr = TRUE, !.pc = "lines"])
       \/ Fault /\ Go(w, Answered(rq[w], "500"))

\* The lines of the body or of the data set.  A read error refuses the job: a data set cut
\* short is another job.
Lines(w) ==
    /\ At(w, "lines") /\ UNCHANGED count
    /\ \/ NoFault /\ R(w).flaw = "dsname" /\ Go(w, Answered(rq[w], "400"))
       \/ NoFault /\ R(w).flaw = "nods" /\ Go(w, Answered(rq[w], "nods"))
       \/ /\ NoFault /\ R(w).flaw \notin {"dsname", "nods"}
          /\ Go(w, [rq[w] EXCEPT !.cards = R(w).jcl, !.pc = "card"])
       \/ Fault /\ Go(w, Answered(rq[w], "500"))

\* The caller's credentials, and the JOB statement.
Card(w) ==
    /\ At(w, "card") /\ UNCHANGED count /\ NoFault
    /\ LET p == ProcessJobcard(rq[w].cards, R(w).user)
       IN  Go(w, IF R(w).flaw = "nopass" \/ p.rc # "ok" THEN Answered(rq[w], "400")
                 ELSE [rq[w] EXCEPT !.cards = Cards(p.lines), !.pc = "put"])

\* JES2 makes a job of cards with a JOB statement; it runs as the user on it: external.
\* The jobs behind the first one of a deck have the names they were given there.
RunsAs(cards) ==
    LET s == Statement(cards)
        us == {i \in DOMAIN s : s[i].key = "USER" /\ s[i].val \in Users}
    IN  IF us # {} THEN s[CHOOSE i \in us : TRUE].val ELSE Prod
Enter(w, cards, new) ==
    /\ next \in Ids /\ Recognised(cards)
    /\ next' = next + 1
    /\ \E name \in IF rq[w].put = 0 THEN {R(w).name} ELSE Names :
         queue' = [queue EXCEPT ![next] =
                     [name |-> name, owner |-> Blank, user |-> RunsAs(cards), q |-> "INPUT",
                      stc |-> FALSE, out |-> FALSE, held |-> FALSE]]
    /\ entered' = [entered EXCEPT ![next] = rq[w].n]
    /\ rq' = [rq EXCEPT ![w] = new]

\* The cards of which JES2 has not made a job yet.
Left(q) == SubSeq(q.cards, q.put + 1, Len(q.cards))

\* The cards are written.  A further JOB statement ends the job in front of it.  When the
\* reader refuses a card, it is closed over those it has taken, and JES2 may or may not
\* make a job of them.
Put(w) ==
    /\ At(w, "put") /\ UNCHANGED count
    /\ LET left == Left(rq[w])
           k == FirstJob(left)
           job == SubSeq(left, 1, k)
           taken == [rq[w] EXCEPT !.put = @ + k]
       IN  \/ NoFault /\ k = Len(left) /\ Go(w, [rq[w] EXCEPT !.pc = "close"])
           \/ NoFault /\ k < Len(left) /\ Enter(w, job, taken)
           \/ NoFault /\ k < Len(left) /\ ~Recognised(job) /\ Go(w, taken)
           \/ Fault /\ Go(w, Answered(rq[w], "500"))
           \/ /\ Fault
              /\ \E i \in 1 .. k : i < Len(left) /\ Enter(w, SubSeq(left, 1, i),
                                                          Answered(rq[w], "500"))

MutClose(w) ==
    /\ At(w, "close") /\ UNCHANGED count
    /\ LET q == [rq[w] EXCEPT !.rdr = "closed"]
       IN  \/ NoFault /\ Enter(w, Left(q), [q EXCEPT !.ptr = FALSE, !.id = next, !.pc = "own"])
           \/ Fault /\ Go(w, Answered(q, "500"))
\* jesircl2 gives the number of the last job; the handle is gone even when the close
\* fails, and the job may or may not have entered.
Close(w) ==
    /\ At(w, "close") /\ UNCHANGED count
    /\ LET q == [rq[w] EXCEPT !.rdr = "closed", !.ptr = FALSE]
       IN  \/ NoFault /\ Enter(w, Left(q), [q EXCEPT !.id = next, !.pc = "own"])
           \/ NoFault /\ ~Recognised(Left(q)) /\ Go(w, [q EXCEPT !.pc = "own"])
           \/ Fault /\ Enter(w, Left(q), Answered(q, "500"))
           \/ Fault /\ Go(w, Answered(q, "500"))

\* The status of the submitted job, with the caller as its owner if JES2 has none yet.
Own(w) ==
    /\ At(w, "own") /\ UNCHANGED count
    /\ \E err \in BOOLEAN :
         LET f == Find(R(w).user, "read", R(w).name, rq[w].id, TRUE, err)
             q == [rq[w] EXCEPT !.job = f.job, !.verdict = f.verdict, !.blind = err]
         IN  \/ /\ f.job = None
                /\ IF err THEN Fault ELSE NoFault
                /\ Go(w, Answered(q, "404"))
             \/ f.job # None /\ SendStatus(w, q)

\* quit: what is still open is closed, storage is freed, and the worker is free again.
Quit(w) ==
    /\ At(w, "quit") /\ UNCHANGED count /\ NoFault
    /\ Go(w, [NoRequest EXCEPT
                !.rdr = IF rq[w].ptr THEN IF rq[w].rdr = "open" THEN "none" ELSE "twice"
                        ELSE IF rq[w].rdr = "open" THEN "lost" ELSE "none"])

\* An abend: the router answers and takes the session back.  An internal reader that is
\* still open is not in the session and stays with the server.
Abend(w) ==
    /\ ~At(w, "idle") /\ UNCHANGED count /\ Fault
    /\ Go(w, [NoRequest EXCEPT !.rdr = IF rq[w].rdr = "open" THEN "left" ELSE "none"])

Step(w) ==
    \/ Receive(w) \/ CancelBody(w) \/ Probe(w) \/ Listing(w) \/ Lookup(w) \/ CheckDdid(w)
    \/ ReadSpool(w) \/ Cancel(w) \/ Look(w) \/ Headers(w) \/ Content(w) \/ OpenReader(w)
    \/ Lines(w) \/ Card(w) \/ Put(w) \/ Close(w) \/ Own(w) \/ Quit(w)
    \/ Abend(w)

-----------------------------------------------------------------------------
(* JES2 itself, its users and its operator: external. *)

Jes(i, job) ==
    /\ moves < MaxMoves /\ moves' = moves + 1
    /\ queue' = [queue EXCEPT ![i] = job]
    /\ UNCHANGED <<next, entered, rq, count, faults>>

Convert(i) == queue[i] # None /\ queue[i].q = "INPUT"
              /\ Jes(i, [queue[i] EXCEPT !.owner = queue[i].user, !.q = "ACTIVE"])
Ends(i) == queue[i] # None /\ queue[i].q = "ACTIVE" /\ ~queue[i].stc
           /\ \E h \in BOOLEAN : Jes(i, [queue[i] EXCEPT !.q = "OUTPUT", !.out = TRUE, !.held = h])
Release(i) == queue[i] # None /\ queue[i].held /\ Jes(i, [queue[i] EXCEPT !.held = FALSE])
\* A job whose output no device holds leaves: purged, or printed to its end.
Leaves(i) == queue[i] # None /\ queue[i].q = "OUTPUT" /\ ~queue[i].held /\ Jes(i, None)

Other == \E i \in Ids : Convert(i) \/ Ends(i) \/ Release(i) \/ Leaves(i)

Finished == count = MaxRequests /\ (\A w \in Workers : At(w, "idle")) /\ UNCHANGED vars

Next == ((\E w \in Workers : Step(w)) /\ UNCHANGED moves) \/ Other \/ Finished

Spec == Init /\ [][Next]_vars

-----------------------------------------------------------------------------
(* Properties. *)

Answers == {"none", "200", "empty", "400", "404", "413", "500", "denied", "gone", "nods",
            "pending", "closed"}

\* Type invariant: the queue, the requests and their parts.
TypeOK ==
    /\ queue \in [Ids -> Job \cup {None}]
    /\ next \in 1 .. MaxJobs + 1
    /\ entered \in [Ids -> {None} \cup 1 .. MaxRequests]
    /\ count \in 0 .. MaxRequests /\ faults \in 0 .. MaxFaults
    /\ moves \in 0 .. MaxMoves
    /\ \A w \in Workers :
         /\ rq[w].pc \in Steps /\ rq[w].ans \in Answers
         /\ rq[w].job \in Job \cup {None}
         /\ rq[w].looks \in 0 .. PurgeLooks
         /\ rq[w].ans = "none" <=> rq[w].pc # "quit"

\* The internal reader a submit opened is closed once on every path out of the handler
\* (jesircl2, jesircls at quit): a second close works on freed storage, and a lost one
\* keeps the reader for the life of the server.  Only an abend between the open and the
\* close leaves it behind, as the comment at open_intrdr says.
ReaderClosedOnce ==
    \A w \in Workers : /\ rq[w].rdr \notin {"twice", "lost"}
                       /\ rq[w].rdr = "left" => At(w, "idle")

\* At every step the request is one the handlers can be in, and its reader is closed
\* once.
RequestSound == TypeOK /\ ReaderClosedOnce

\* What a caller may do with a job by the documented policy, whatever the code asks.
MayRead(u, job) == job.owner = u \/ Racf(u, job.owner, job.name) \in {"read", "update"}
MayPurge(u, job) == \/ job.user = u
                    \/ \E o \in {Blank, job.user} : Racf(u, o, job.name) = "update"

\* A job is cancelled or purged by a handler only for its own user or for one with
\* UPDATE on it, although JES2 works on the job between the check and the cancel
\* (cancel_job).
OnlyPermitted ==
    [][\A w \in Workers : At(w, "cancel") /\ rq'[w] # rq[w] =>
         \A i \in Ids : queue'[i] # queue[i] => MayPurge(R(w).user, queue[i])]_vars

\* Every answer about one job other than "not found" is about a job the caller may see,
\* or was given before any job was looked for, and the refusal to purge goes only to one
\* who may read the job and no more (find_job_by_name_and_id): a hidden job cannot be
\* told from none.
HiddenIsAbsent ==
    \A w \in Workers :
        At(w, "quit") /\ R(w).op \in {"status", "files", "records", "purge", "cancel"} =>
          /\ rq[w].job # None => MayRead(R(w).user, rq[w].job)
          /\ rq[w].ans # "404" => rq[w].job # None \/ rq[w].id = None
          /\ rq[w].ans = "denied" => Racf(R(w).user, rq[w].job.owner, rq[w].job.name) = "read"

\* A list shows, of the jobs the filters ask for, those a lookup would show the
\* caller: no other, and, when RACF answers, all of them up to the limit, whatever
\* the cache of levels held (process_job, level_cached).
ListIsPolicy ==
    [][\A w \in Workers : At(w, "listing") /\ rq'[w].ans = "200" =>
         LET u == R(w).user
             sees(o) == Level[u][<<o, None>>] \in {"read", "update"}
             asked(job) ==
                 \/ job.owner = u /\ R(w).owner \in {Blank, u, "*"}
                 \/ R(w).owner = "*" /\ sees(Blank)
                 \/ R(w).owner = job.owner /\ job.owner # Blank /\ sees(job.owner)
             visible == {i \in Ids : /\ queue[i] # None /\ queue[i].name \notin SysNames
                                     /\ R(w).status \in {"*", queue[i].q}
                                     /\ asked(queue[i]) /\ MayRead(u, queue[i])}
         IN  /\ rq'[w].rows \subseteq visible
             /\ faults' = faults /\ ~rq[w].blind =>
                  \/ rq'[w].rows = visible
                  \/ /\ Cardinality(rq'[w].rows) = R(w).max
                     /\ \A i \in rq'[w].rows, j \in visible \ rq'[w].rows : i < j]_vars

\* No answer names an owner that is not the job's: JES2 writes it late, and only the
\* submit may complete it, for the job it has just submitted (#210): one that has the
\* caller's credentials, which the code can only say of a deck with one JOB statement.
OwnerTrue ==
    \A w \in Workers : rq[w].job # None =>
        \/ rq[w].job.owner \in {Blank, rq[w].job.user}
        \/ R(w).op = "submit" /\ ~Vouched(R(w).jcl)

\* What a submit answers is what happened: a status is that of a job it entered, and
\* for a deck with one JOB statement the only one, which runs as the caller; a refusal
\* entered nothing; "not found" means that the job has left again, or JES2 could not be
\* asked (jobSubmitHandler).
SubmitTruthful ==
    \A w \in Workers : At(w, "quit") /\ R(w).op = "submit" =>
        LET mine == {i \in Ids : entered[i] = rq[w].n} IN
        /\ rq[w].ans \in {"200", "empty"} => rq[w].id \in mine
        /\ rq[w].ans \in {"200", "empty"} /\ Vouched(R(w).jcl) =>
             mine = {rq[w].id} /\ rq[w].job.user = R(w).user
        /\ rq[w].ans \in {"400", "413", "nods"} => mine = {}
        /\ rq[w].ans = "404" /\ Vouched(R(w).jcl) =>
             mine = {rq[w].id} /\ (rq[w].blind \/ queue[rq[w].id] = None)

\* A purge is reported as done only when the job has left the queue, as far as the
\* looks could see (job_still_queued).
PurgeTruthful ==
    \A w \in Workers : At(w, "quit") /\ R(w).op = "purge" /\ rq[w].ans = "200" =>
        \/ queue[rq[w].id] = None
        \/ rq[w].blind
        \/ ~MayRead(R(w).user, queue[rq[w].id])

\* What a client is told of a job is so: whose it is, that it was submitted, that it
\* is gone, while JES2 converts, runs and purges it between the calls of the handler.
AnswersTrue == OwnerTrue /\ SubmitTruthful /\ PurgeTruthful

=============================================================================
