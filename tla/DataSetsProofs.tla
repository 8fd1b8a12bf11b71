--------------------------- MODULE DataSetsProofs ---------------------------
(***************************************************************************)
(* Proofs about the data set handlers, for any number of workers, any      *)
(* catalog, any authorities and any requests: the catalog and the data     *)
(* change only under the authority of the request that changes them, a     *)
(* write allocates no data set, a refusal tells nothing and changes        *)
(* nothing, every file is closed, a write stores its body and a stamp      *)
(* stands for what it was computed over.                                   *)
(*                                                                         *)
(* The argument: a request past its gate is permitted, and nothing after   *)
(* the gate asks again; what it was gated for is what it changes.  A write *)
(* that found its data set cataloged finds it so at the open, or another   *)
(* request has removed it, which the model notes as it happens.  What the  *)
(* target would hold without this request is what it holds, until the      *)
(* request opens it for output; from then on it holds the records the      *)
(* request has counted, until another one writes there too.                *)
(***************************************************************************)
EXTENDS DataSets, TLAPS, SequenceTheorems

-----------------------------------------------------------------------------
(* The inductive invariant. *)

Puts == {"dsPut", "mbPut"}

Request ==
    [pc : Steps, r : Requests \cup {None}, max : Int, stamp : Contents, got : Contents,
     was : Contents, fp : {"none", "read", "write", "dir"}, buf : BOOLEAN, framed : BOOLEAN,
     n : Nat, out : Seq(Stores), cut : BOOLEAN, create : BOOLEAN, blind : BOOLEAN,
     ans : Answers, dirty : BOOLEAN, gone : BOOLEAN, err : BOOLEAN]

Holder == [t : Targets \cup {None}, stamp : Contents, dirty : BOOLEAN]

WriteSteps == {"alloc", "body", "record", "finish", "close"}
DoneSteps == {"written", "scount", "stamp"}

\* The steps of each handler.
StepOf(pc, op) ==
    /\ pc = "gate" => op # "dsCreate"
    /\ pc = "locate" => op = "dsCreate"
    /\ pc = "catalog" => op = "mbPut"
    /\ pc = "probe" => op \in Puts
    /\ pc \in {"match"} \cup WriteSteps \cup DoneSteps => op \in Puts
    /\ pc = "pcount" => op \in {"dsGet", "dsPut"}
    /\ pc \in {"hash", "read"} => op \in {"dsGet", "mbGet"}
    /\ pc = "bcount" => op = "dsGet"
    /\ pc = "open" => op \in {"dsGet", "mbGet", "mbList"}
    /\ pc = "act" => op \in {"dsRename", "mbRename", "dsDelete", "mbDelete", "dsCreate", "mbList"}

\* Where a request can be, and what it holds there.
Stage(q) ==
    /\ q.pc = "idle" <=> q.r = None
    /\ q.pc # "idle" => StepOf(q.pc, q.r.op)
    /\ q.ans = "none" <=> q.pc # "answer"
    /\ q.fp = "write" => q.pc \in WriteSteps
    /\ q.fp = "read" => q.pc = "read"
    /\ q.fp = "dir" => q.pc = "act" /\ q.r.op = "mbList"
    /\ q.pc = "close" => q.fp = "write"
    /\ q.buf => q.pc \in {"body", "record"} \/ (q.pc = "answer" /\ q.ans = "abend")

\* How far a write is in its body.  A member is created where there was none, unless it
\* could not be read, and the request that creates it has it open from then on.
Framed(q) ==
    /\ q.n > 0 => q.framed
    /\ q.pc = "record" => q.framed /\ q.n < Len(q.r.body)
    /\ q.pc \in {"finish", "close"} \cup DoneSteps => q.framed \/ q.r.body = << >>
    /\ q.fp = "write" => q.framed \/ q.create \/ q.r.body = << >>
    /\ q.create => /\ q.fp = "write" \/ q.pc \in DoneSteps \cup {"answer"}
                   /\ q.blind \/ q.dirty \/ q.was = None

\* Whether the request has created a member, and what it then knows.
Origin(q, n) == n.create = q.create /\ n.blind = q.blind /\ (q.create => n.dirty = q.dirty)

\* A request past its gate is permitted; one that is not has been told so.
Gated(q) ==
    q.pc \notin {"idle", "gate"} /\ q.r.op # "dsCreate" =>
      /\ q.pc # "answer" => Permitted(q.r) /\ q.r.flaw # "name"
      /\ q.pc = "answer" => (q.ans = "denied" <=> q.r.flaw # "name" /\ ~Permitted(q.r))

\* A member is read without a bound.
Unbounded(q) == q.r # None /\ q.r.t[2] # None => q.max = -1

\* What the catalog has for a request: the data set it has open, or found to write to.
InCatalog(q, c) ==
    /\ q.fp \in {"read", "write"} => c[q.r.t[1]] = IF q.r.t[2] = None THEN "PS" ELSE "PO"
    /\ \/ q.pc \in {"pcount", "match", "alloc", "body", "record", "finish"}
       \/ q.pc = "probe" /\ q.r.op = "mbPut"
       => q.r.op \notin Puts \/ c[q.r.t[1]] # "none" \/ q.gone

\* The steps at which a request has changed nothing.
Harmless(q) ==
    \/ q.pc \notin {"answer"} \cup DoneSteps /\ q.fp # "write"
    \/ /\ q.pc = "answer"
       /\ \/ q.ans \in {"denied", "400", "404", "412"}
          \/ q.r.op \in Puts /\ q.r.body # << >> /\ ~q.framed /\ ~q.create

Kept(q, D) == q.pc # "idle" /\ Harmless(q) => q.was = D[q.r.t]

Good(q, c, D) ==
    /\ q \in Request /\ Stage(q) /\ Framed(q) /\ Gated(q) /\ Unbounded(q)
    /\ InCatalog(q, c) /\ Kept(q, D)

\* What is on the volume is cataloged, as what it is.
VolumeOK(c, D) ==
    /\ c \in [Names -> {"none", "PS", "PO"}]
    /\ D \in [Targets -> Contents]
    /\ \A t \in Targets :
         /\ D[t] # None => c[t[1]] = IF t[2] = None THEN "PS" ELSE "PO"
         /\ t[2] = None /\ c[t[1]] = "PS" => D[t] # None

Counters == count \in 0 .. MaxRequests /\ faults \in 0 .. MaxFaults

DataInv ==
    /\ VolumeOK(cat, data) /\ Counters
    /\ held \in [Workers -> Holder]
    /\ rq = [w \in Workers |-> rq[w]]
    /\ \A w \in Workers : Good(rq[w], cat, data)

-----------------------------------------------------------------------------
(* What the assumption gives. *)

Ops == {"dsGet", "dsPut", "dsRename", "dsCreate", "dsDelete",
        "mbGet", "mbPut", "mbRename", "mbDelete", "mbList"}
MemberOps == {"mbGet", "mbPut", "mbRename", "mbDelete"}

LEMMA Bounds ==
    /\ MaxRequests \in Nat /\ MaxFaults \in Nat
    /\ None \notin Members /\ None \notin Recs /\ None \notin Names /\ None \notin Requests
    /\ None \notin Seq(Stores)
    /\ Catalog \in [Names -> {"none", "PS", "PO"}]
    /\ Perm \in [Users -> [Names -> 0 .. 3]]
BY DataSetsAssumption, Zenon

LEMMA Asked ==
    ASSUME NEW r \in Requests
    PROVE  /\ r.op \in Ops /\ r.t \in Targets /\ r.from \in Targets \cup {None}
           /\ r.user \in Users /\ r.body \in Seq(Recs)
           /\ r.t[2] # None <=> r.op \in MemberOps
           /\ r.op = "dsRename" => r.from \in Targets /\ r.from[2] = None
           /\ r.op = "mbRename" => r.from \in Targets /\ r.from[1] = r.t[1] /\ r.from[2] # None
<1> DEFINE All == [op : Ops, t : Targets, from : Targets \cup {None}, user : Users,
                   vol : {None, "this", "other"}, mode : {"text", "binary"}, body : Seq(Recs),
                   chunked : BOOLEAN, cond : BOOLEAN, etag : BOOLEAN,
                   flaw : {"none", "name", "header"}]
<1>1. r \in All
  BY DataSetsAssumption, Zenon DEF Ops
<1>2. /\ r.op \in Ops /\ r.t \in Targets /\ r.from \in Targets \cup {None}
      /\ r.user \in Users /\ r.body \in Seq(Recs)
  BY <1>1
<1>3. /\ r.t[2] # None <=> r.op \in MemberOps
      /\ r.op = "dsRename" => r.from \in Targets /\ r.from[2] = None
      /\ r.op = "mbRename" => r.from \in Targets /\ r.from[1] = r.t[1] /\ r.from[2] # None
  BY DataSetsAssumption, Zenon DEF MemberOps
<1> QED
  BY <1>2, <1>3, Zenon

LEMMA NoTarget == None \notin Targets
BY DataSetsAssumption, Zenon

\* A target is a name and, of a library, a member.
LEMMA TargetParts ==
    ASSUME NEW t \in Targets
    PROVE  /\ t[1] \in Names /\ t[2] \in Members \cup {None} /\ t = <<t[1], t[2]>>
           /\ <<t[1], None>> \in Targets
BY DEF Targets

LEMMA OneTarget ==
    ASSUME NEW d \in Names, NEW m \in Members \cup {None}
    PROVE  <<d, m>> \in Targets /\ <<d, m>>[1] = d /\ <<d, m>>[2] = m
BY DEF Targets

\* The names of a request and whether it names a member.
LEMMA AskedFor ==
    ASSUME NEW q \in Request, q.r # None
    PROVE  /\ q.r \in Requests /\ q.r.t \in Targets /\ q.r.t[1] \in Names
           /\ q.r.op \in Ops /\ q.r.user \in Users
           /\ q.r.op \in {"dsPut", "dsGet"} => q.r.t[2] = None
           /\ q.r.op = "mbPut" => q.r.t[2] # None
<1>1. q.r \in Requests
  BY DEF Request
<1> QED
  BY <1>1, Asked, TargetParts DEF MemberOps

LEMMA StoredTypes ==
    ASSUME NEW body \in Seq(Recs)
    PROVE  Stored(body) \in Seq(Stores)
<1>1. ASSUME NEW i \in 1 .. Len(body) PROVE [rec |-> body[i], cut |-> body[i] \in Long] \in Stores
  <2>1. body[i] \in Recs
    OBVIOUS
  <2>2. \A b \in BOOLEAN : [rec |-> body[i], cut |-> b] \in Stores
    BY <2>1 DEF Stores
  <2>3. (body[i] \in Long) \in BOOLEAN
    OBVIOUS
  <2> QED
    BY <2>2, <2>3, Zenon
<1> DEFINE f(i) == [rec |-> body[i], cut |-> body[i] \in Long]
<1>2. \A i \in 1 .. Len(body) : f(i) \in Stores
  BY <1>1
<1>3. Stored(body) = [i \in 1 .. Len(body) |-> f(i)]
  <2>1. DOMAIN body = 1 .. Len(body)
    OBVIOUS
  <2> QED
    BY <2>1, Zenon DEF Stored
<1> HIDE DEF f
<1>4. [i \in 1 .. Len(body) |-> f(i)] \in [1 .. Len(body) -> Stores]
  BY <1>2
<1>5. Len(body) \in Nat
  OBVIOUS
<1> QED
  BY <1>3, <1>4, <1>5, SeqDef

LEMMA IdleGood ==
    ASSUME NEW c, NEW D PROVE Good(NoRequest, c, D) /\ NoRequest.pc = "idle"
<1>1. NoRequest \in Request
  <2>1. \A b \in BOOLEAN :
          [pc |-> "idle", r |-> None, max |-> -1, stamp |-> None, got |-> None,
           was |-> None, fp |-> "none", buf |-> b, framed |-> b, n |-> 0, out |-> << >>,
           cut |-> b, create |-> b, blind |-> b, ans |-> "none", dirty |-> b, gone |-> b,
           err |-> b] \in Request
    BY DEF Request, Contents, Steps, Answers
  <2>2. FALSE \in BOOLEAN
    BY Zenon
  <2> QED
    BY <2>1, <2>2, Zenon DEF NoRequest
<1>2. /\ NoRequest.pc = "idle" /\ NoRequest.r = None /\ NoRequest.fp = "none" /\ NoRequest.n = 0
      /\ NoRequest.ans = "none" /\ ~NoRequest.buf /\ ~NoRequest.create
  BY DEF NoRequest
<1>3. Stage(NoRequest)
  BY <1>2 DEF Stage
<1>4. /\ Framed(NoRequest) /\ Gated(NoRequest) /\ Unbounded(NoRequest)
      /\ InCatalog(NoRequest, c) /\ Kept(NoRequest, D)
  BY <1>2 DEF Framed, Gated, Unbounded, InCatalog, Kept, DoneSteps, Origin
<1> QED
  BY <1>1, <1>2, <1>3, <1>4 DEF Good


LEMMA InitData == Init => DataInv
<1> SUFFICES ASSUME Init PROVE DataInv
  OBVIOUS
<1> DEFINE x == CHOOSE x \in Recs \ Long : TRUE
           m == CHOOSE m \in Members : TRUE
<1>1. x \in Recs /\ m \in Members
  BY DataSetsAssumption, Zenon
<1>a. /\ data \in [Targets -> {None, Stored(<<x>>)}] /\ cat = Catalog /\ count = 0 /\ faults = 0
      /\ \A t \in Targets : data[t] # None <=>
           \/ cat[t[1]] = "PS" /\ t[2] = None
           \/ cat[t[1]] = "PO" /\ t[2] = m
  BY Zenon DEF Init
<1> HIDE DEF x, m
<1>2. VolumeOK(cat, data)
  <2>1. <<x>> \in Seq(Recs)
    BY <1>1
  <2>2. Stored(<<x>>) \in Contents
    BY <2>1, StoredTypes DEF Contents
  <2>3. data \in [Targets -> Contents] /\ cat \in [Names -> {"none", "PS", "PO"}]
    BY <1>a, <2>2, Bounds DEF Contents
  <2>4. m # None
    BY <1>1, Bounds
  <2> QED
    BY <1>a, <2>3, <2>4 DEF VolumeOK
<1>3. Counters
  BY <1>a, Bounds DEF Counters
<1>4. held \in [Workers -> Holder]
  <2>1. \A b \in BOOLEAN, t \in Targets \cup {None}, s \in Contents :
          [t |-> t, stamp |-> s, dirty |-> b] \in Holder
    BY DEF Holder
  <2>2. FALSE \in BOOLEAN /\ None \in Targets \cup {None} /\ None \in Contents
    BY Zenon DEF Contents
  <2>3. NoStamp \in Holder
    BY <2>1, <2>2, Zenon DEF NoStamp
  <2> DEFINE Given == {[t |-> t, stamp |-> data[t], dirty |-> FALSE] :
                         t \in {u \in Targets : data[u] # None}}
  <2>4. held \in [Workers -> {NoStamp} \cup Given]
    BY Zenon DEF Init
  <2>5. ASSUME NEW h \in Given PROVE h \in Holder
    <3>1. PICK t \in Targets : h = [t |-> t, stamp |-> data[t], dirty |-> FALSE]
      BY <2>5, Zenon
    <3>2. t \in Targets \cup {None} /\ data[t] \in Contents
      BY <1>2 DEF VolumeOK
    <3> QED
      BY <2>1, <2>2, <3>1, <3>2, Zenon
  <2> HIDE DEF Given
  <2> QED
    BY <2>3, <2>4, <2>5
<1>5. rq = [w \in Workers |-> NoRequest]
  BY Zenon DEF Init
<1>6. ASSUME NEW w \in Workers PROVE Good(rq[w], cat, data)
  BY <1>5, IdleGood
<1>7. rq = [w \in Workers |-> rq[w]]
  BY <1>5
<1> QED
  BY <1>2, <1>3, <1>4, <1>6, <1>7 DEF DataInv

-----------------------------------------------------------------------------
(* Steps of one worker, and what the others see of them. *)

LEMMA TypedRequest ==
    ASSUME DataInv, NEW w \in Workers
    PROVE  Good(rq[w], cat, data) /\ rq[w] \in Request
BY DEF DataInv, Good

LEMMA CountersKept ==
    ASSUME DataInv, UNCHANGED count, NoFault \/ Fault PROVE Counters'
BY Bounds DEF DataInv, Counters, NoFault, Fault

\* A step that changes nothing on the volume.
LEMMA GoInv ==
    ASSUME DataInv, NEW w \in Workers, NEW n, Go(w, n), Good(n, cat, data),
           Counters', held' \in [Workers -> Holder]
    PROVE  DataInv'
<1>1. UNCHANGED <<cat, data>> /\ rq' = [rq EXCEPT ![w] = n]
  BY DEF Go
<1>2. ASSUME NEW v \in Workers PROVE Good(rq'[v], cat', data')
  <2>1. rq'[v] = IF v = w THEN n ELSE rq[v]
    BY <1>1 DEF DataInv
  <2>2. Good(rq[v], cat, data)
    BY TypedRequest
  <2> QED
    BY <1>1, <2>1, <2>2
<1>3. VolumeOK(cat', data')
  BY <1>1 DEF DataInv
<1>4. rq' = [v \in Workers |-> rq'[v]]
  BY <1>1 DEF DataInv
<1> QED
  BY <1>2, <1>3, <1>4 DEF DataInv

\* What a worker's request becomes when another one changes its target.
Touched(q, d, x, g) == [q EXCEPT !.dirty = d, !.was = x, !.gone = g]

TouchedAs(n, q, d, x, g) ==
    /\ n \in Request /\ n.pc = q.pc /\ n.r = q.r /\ n.was = x /\ n.fp = q.fp
    /\ n.buf = q.buf /\ n.framed = q.framed /\ n.n = q.n /\ n.create = q.create
    /\ n.blind = q.blind /\ n.ans = q.ans /\ n.gone = g /\ n.max = q.max /\ n.dirty = d

LEMMA TouchedFields ==
    ASSUME NEW q \in Request, NEW d \in BOOLEAN, NEW x \in Contents, NEW g \in BOOLEAN
    PROVE  TouchedAs(Touched(q, d, x, g), q, d, x, g)
BY DEF Touched, TouchedAs, Request

\* A change another worker may make while q has its target open or has found it.
Tolerable(q, c, c2, C, contents) ==
    q.r # None =>
      /\ q.fp \in {"read", "write"} => c2[q.r.t[1]] = c[q.r.t[1]]
      /\ c2[q.r.t[1]] = "none" /\ c[q.r.t[1]] # "none" => q.r.t \in C /\ contents[q.r.t] = None

LEMMA TouchedGood ==
    ASSUME NEW q, NEW c, NEW D, NEW c2, NEW D2, NEW C, NEW contents, Good(q, c, D),
           q.r # None, q.r.t \in C, Tolerable(q, c, c2, C, contents), D2[q.r.t] = contents[q.r.t],
           contents[q.r.t] \in Contents,
           NEW d \in BOOLEAN, d, NEW g \in BOOLEAN, g <=> (q.gone \/ contents[q.r.t] = None)
    PROVE  Good(Touched(q, d, contents[q.r.t], g), c2, D2)
<1>7. PICK x \in Contents : x = contents[q.r.t]
  OBVIOUS
<1> DEFINE n == Touched(q, d, x, g)
<1>8. q \in Request
  BY DEF Good
<1>1. /\ n \in Request /\ n.pc = q.pc /\ n.r = q.r /\ n.was = x /\ n.fp = q.fp
      /\ n.buf = q.buf /\ n.framed = q.framed /\ n.n = q.n /\ n.create = q.create
      /\ n.blind = q.blind /\ n.ans = q.ans /\ n.gone = g /\ n.max = q.max /\ n.dirty = d
  <2>1. TouchedAs(n, q, d, x, g)
    BY <1>8, TouchedFields
  <2> HIDE DEF n
  <2> QED
    BY <2>1 DEF TouchedAs
<1> HIDE DEF n
<1>2. Stage(n)
  BY <1>1 DEF Good, Stage
<1>3. Framed(n) /\ Unbounded(n)
  BY <1>1 DEF Good, Framed, Unbounded, Origin
<1>4. Gated(n)
  BY <1>1 DEF Good, Gated
<1>5. InCatalog(n, c2)
  BY <1>1, <1>7 DEF Good, InCatalog, Tolerable
<1>6. Kept(n, D2)
  BY <1>1, <1>7 DEF Kept
<1>9. Good(n, c2, D2)
  BY <1>1, <1>2, <1>3, <1>4, <1>5, <1>6 DEF Good
<1> QED
  BY <1>7, <1>9, Zenon DEF n

LEMMA UntouchedGood ==
    ASSUME NEW q, NEW c, NEW D, NEW c2, NEW D2, NEW C, NEW contents, Good(q, c, D),
           q.r # None => q.r.t \notin C, Tolerable(q, c, c2, C, contents),
           q.r # None => D2[q.r.t] = D[q.r.t]
    PROVE  Good(q, c2, D2)
<1>1. CASE q.r = None
  <2>1. q.pc = "idle" /\ q.fp = "none"
    BY <1>1 DEF Good, Stage, Request, WriteSteps
  <2> QED
    BY <2>1 DEF Good, InCatalog, Kept
<1>2. CASE q.r # None
  <2>1. InCatalog(q, c2)
    BY <1>2 DEF Good, InCatalog, Tolerable
  <2>2. Kept(q, D2)
    BY <1>2 DEF Good, Kept
  <2> QED
    BY <2>1, <2>2 DEF Good
<1> QED
  BY <1>1, <1>2


\* A change makes the stamps of its targets stale.
LEMMA HeldTypes ==
    ASSUME DataInv, NEW w, NEW n, NEW C, NEW contents, Change(w, n, C, contents)
    PROVE  held' \in [Workers -> Holder]
<1>1. \A h \in Holder, b \in BOOLEAN : [h EXCEPT !.dirty = b] \in Holder
  BY DEF Holder
<1>2. TRUE \in BOOLEAN
  BY Zenon
<1>3. \A v \in Workers : held[v] \in Holder
  BY DEF DataInv
<1> DEFINE f(v) == IF held[v].t \in C THEN [held[v] EXCEPT !.dirty = TRUE] ELSE held[v]
<1>4. \A v \in Workers : f(v) \in Holder
  BY <1>1, <1>2, <1>3, Zenon
<1>5. held' = [v \in Workers |-> f(v)]
  BY Zenon DEF Change
<1> HIDE DEF f
<1> QED
  BY <1>4, <1>5

\* A step that changes the targets C, and the catalog with them.
LEMMA ChangeInv ==
    ASSUME DataInv, NEW w \in Workers, NEW n, NEW C, NEW contents, Change(w, n, C, contents),
           C \subseteq Targets, \A t \in C : contents[t] \in Contents, VolumeOK(cat', data'),
           \A v \in Workers \ {w} : Tolerable(rq[v], cat, cat', C, contents),
           Good(n, cat', data'), Counters'
    PROVE  DataInv'
<1>1. held' \in [Workers -> Holder]
  BY HeldTypes
<1> DEFINE new(v) == Touched(rq[v], TRUE, contents[rq[v].r.t],
                             rq[v].gone \/ contents[rq[v].r.t] = None)
<1>2. rq' = [v \in Workers |->
               IF v = w THEN n
               ELSE IF rq[v].r # None /\ rq[v].r.t \in C THEN new(v) ELSE rq[v]]
  BY Zenon DEF Change, Touched
<1>3. \A t \in Targets : data'[t] = IF t \in C THEN contents[t] ELSE data[t]
  BY Zenon DEF Change
<1>4. ASSUME NEW v \in Workers, v # w PROVE Good(rq'[v], cat', data')
  <2>1. Good(rq[v], cat, data) /\ rq[v] \in Request /\ Tolerable(rq[v], cat, cat', C, contents)
    BY <1>4, TypedRequest
  <2>2. rq[v].r # None => rq[v].r.t \in Targets
    BY <2>1, AskedFor
  <2>3. CASE rq[v].r # None /\ rq[v].r.t \in C
    <3>1. rq'[v] = new(v)
      BY <1>2, <1>4, <2>3, Zenon
    <3>2. data'[rq[v].r.t] = contents[rq[v].r.t] /\ contents[rq[v].r.t] \in Contents
      BY <1>3, <2>2, <2>3
    <3>3. ASSUME NEW d \in BOOLEAN, d, NEW g \in BOOLEAN,
                 g <=> (rq[v].gone \/ contents[rq[v].r.t] = None)
          PROVE  Good(Touched(rq[v], d, contents[rq[v].r.t], g), cat', data')
      BY <2>1, <2>3, <3>2, <3>3, TouchedGood
    <3>4. (rq[v].gone \/ contents[rq[v].r.t] = None) \in BOOLEAN /\ TRUE \in BOOLEAN
      OBVIOUS
    <3> QED
      BY <3>1, <3>3, <3>4, Zenon
  <2>4. CASE ~(rq[v].r # None /\ rq[v].r.t \in C)
    <3>1. rq'[v] = rq[v]
      BY <1>2, <1>4, <2>4, Zenon
    <3>2. rq[v].r # None => data'[rq[v].r.t] = data[rq[v].r.t]
      BY <1>3, <2>2, <2>4
    <3> QED
      BY <2>1, <2>4, <3>1, <3>2, UntouchedGood
  <2> QED
    BY <2>3, <2>4
<1>5. rq'[w] = n
  BY <1>2, Zenon
<1>6. \A v \in Workers : Good(rq'[v], cat', data')
  BY <1>4, <1>5
<1>7. rq' = [v \in Workers |-> rq'[v]]
  <2> DEFINE e(v) == IF v = w THEN n
                     ELSE IF rq[v].r # None /\ rq[v].r.t \in C THEN new(v) ELSE rq[v]
  <2>1. rq' = [v \in Workers |-> e(v)]
    BY <1>2
  <2> HIDE DEF e
  <2> QED
    BY <2>1
<1> QED
  BY <1>1, <1>6, <1>7 DEF DataInv

-----------------------------------------------------------------------------
(* How a request goes on: the fields that change. *)

\* What two records of a request have in common.
Alike(q, n) ==
    /\ n.r = q.r /\ n.was = q.was /\ n.fp = q.fp /\ n.n = q.n
    /\ n.max = q.max \/ q.r.t[2] = None
    /\ n.buf = q.buf /\ n.framed = q.framed /\ Origin(q, n) /\ n.gone = q.gone

LEMMA MovedFields ==
    ASSUME NEW q \in Request, NEW p \in Steps
    PROVE  LET n == [q EXCEPT !.pc = p] IN
           n \in Request /\ n.pc = p /\ n.ans = q.ans /\ Alike(q, n)
BY DEF Request, Alike, Origin

LEMMA AnsweredFields ==
    ASSUME NEW q \in Request, NEW a \in Answers
    PROVE  LET n == [q EXCEPT !.pc = "answer", !.ans = a] IN
           n \in Request /\ n.pc = "answer" /\ n.ans = a /\ Alike(q, n)
BY DEF Request, Alike, Steps, Origin

LEMMA MaxFields ==
    ASSUME NEW q \in Request, NEW m \in Int, q.r.t[2] = None
    PROVE  LET n == [q EXCEPT !.max = m] IN
           n \in Request /\ n.pc = q.pc /\ n.ans = q.ans /\ Alike(q, n)
BY DEF Request, Alike, Origin

LEMMA StampFields ==
    ASSUME NEW q \in Request, NEW s \in Contents
    PROVE  LET n == [q EXCEPT !.stamp = s] IN
           n \in Request /\ n.pc = q.pc /\ n.ans = q.ans /\ Alike(q, n)
BY DEF Request, Alike, Origin

\* The request ends with the answer a; its file is closed and its buffer freed.
Ends(q, n, a) ==
    /\ n \in Request /\ n.pc = "answer" /\ n.ans = a /\ a # "none"
    /\ n.r = q.r /\ n.was = q.was /\ n.n = q.n /\ n.framed = q.framed /\ Origin(q, n)
    /\ n.fp = "none" /\ (n.buf => a = "abend") /\ (n.max = q.max \/ q.r.t[2] = None)

Refusals == {"denied", "400", "404", "412"}

\* An answer says what happened to the target.
Fits(q, a, D, D2) ==
    \/ q.fp # "write" /\ q.pc \notin DoneSteps /\ D2[q.r.t] = D[q.r.t]
    \/ a \notin Refusals /\ (q.fp = "write" \/ q.pc \in DoneSteps \/ q.r.op \notin Puts)

LEMMA AnswerGood ==
    ASSUME NEW q, NEW n, NEW a, NEW c, NEW D, NEW c2, NEW D2, Good(q, c, D),
           q.pc \notin {"idle", "answer"}, Ends(q, n, a), Fits(q, a, D, D2),
           q.r.op # "dsCreate" => (a = "denied" <=> q.r.flaw # "name" /\ ~Permitted(q.r))
    PROVE  Good(n, c2, D2)
<1>1. Stage(n)
  BY DEF Good, Stage, Ends, StepOf, WriteSteps, DoneSteps, Puts, Origin
<1>2. Framed(n)
  BY DEF Good, Framed, Ends, DoneSteps, Origin
<1>3. Gated(n) /\ Unbounded(n)
  BY DEF Good, Gated, Unbounded, Ends, Origin
<1>4. InCatalog(n, c2)
  BY DEF InCatalog, Ends, Origin
<1>5. Kept(n, D2)
  <2>1. CASE q.fp # "write" /\ q.pc \notin DoneSteps /\ D2[q.r.t] = D[q.r.t]
    <3>1. q.was = D[q.r.t]
      BY <2>1 DEF Good, Kept, Harmless
    <3> QED
      BY <2>1, <3>1 DEF Kept, Ends, Origin
  <2>2. CASE a \notin Refusals /\ (q.fp = "write" \/ q.pc \in DoneSteps \/ q.r.op \notin Puts)
    <3>1. q.r.op \in Puts => q.framed \/ q.create \/ q.r.body = << >>
      BY <2>2 DEF Good, Framed, Origin
    <3>2. n.pc = "answer" /\ n.r = q.r /\ n.framed = q.framed /\ Origin(q, n) /\ n.ans = a
          /\ n.fp = "none"
      BY DEF Ends, Origin
    <3>3. ~Harmless(n)
      <4>1. n.create = q.create
        BY <3>2 DEF Origin
      <4> QED
        BY <2>2, <3>1, <3>2, <4>1 DEF Harmless, Refusals
    <3> QED
      BY <3>3 DEF Kept
  <2> QED
    BY <2>1, <2>2 DEF Fits
<1>6. n \in Request
  BY DEF Ends, Origin
<1> QED
  BY <1>1, <1>2, <1>3, <1>4, <1>5, <1>6 DEF Good

\* Past the gate the caller is permitted: no answer is a denial.
LEMMA AnswerInv ==
    ASSUME DataInv, NEW w \in Workers, NEW n, NEW a, Go(w, n), Ends(rq[w], n, a),
           rq[w].pc \notin {"idle", "answer", "gate"}, a # "denied",
           Fits(rq[w], a, data, data), UNCHANGED count, NoFault \/ Fault,
           held' \in [Workers -> Holder]
    PROVE  DataInv'
<1>1. Good(rq[w], cat, data)
  BY TypedRequest
<1>2. rq[w].r.op # "dsCreate" => Permitted(rq[w].r)
  BY <1>1 DEF Good, Gated
<1>3. Good(n, cat, data)
  BY <1>1, <1>2, AnswerGood
<1> QED
  BY <1>3, GoInv, CountersKept

\* Before the output open nothing has been created.
LEMMA Uncreated ==
    ASSUME NEW q, NEW c, NEW D, Good(q, c, D), q.pc \notin DoneSteps \cup {"answer"},
           q.fp # "write"
    PROVE  ~q.create
BY DEF Good, Framed, Origin

\* The request goes on.
LEMMA OnwardGood ==
    ASSUME NEW q, NEW n, NEW c, NEW D, NEW c2, NEW D2, Good(q, c, D),
           q.pc \notin {"idle", "answer"}, n.pc \notin {"idle", "answer", "gate"},
           n \in Request, n.r = q.r, n.was = q.was, n.max = q.max \/ q.r.t[2] = None,
           q.pc = "gate" => Permitted(q.r) /\ q.r.flaw # "name",
           n.fp # "write" /\ n.pc \notin DoneSteps =>
             q.fp # "write" /\ q.pc \notin DoneSteps /\ D2[q.r.t] = D[q.r.t],
           Stage(n), Framed(n), InCatalog(n, c2)
    PROVE  Good(n, c2, D2)
<1>1. Gated(n) /\ Unbounded(n)
  BY DEF Good, Gated, Unbounded
<1>2. Kept(n, D2)
  <2>1. Harmless(n) => n.fp # "write" /\ n.pc \notin DoneSteps
    BY DEF Harmless
  <2>2. q.fp # "write" /\ q.pc \notin DoneSteps => q.was = D[q.r.t]
    BY DEF Good, Kept, Harmless
  <2> QED
    BY <2>1, <2>2 DEF Kept
<1> QED
  BY <1>1, <1>2 DEF Good

\* An answer to a request without file and buffer.
LEMMA PlainEnd ==
    ASSUME NEW q, NEW c, NEW D, Good(q, c, D), q.pc # "idle", q.fp = "none",
           q.pc \notin {"body", "record", "answer"}, NEW a \in Answers \ {"none"}
    PROVE  Ends(q, [q EXCEPT !.pc = "answer", !.ans = a], a)
<1> DEFINE n == [q EXCEPT !.pc = "answer", !.ans = a]
<1>1. q \in Request /\ ~q.buf /\ a \in Answers
  BY DEF Good, Stage
<1>2. n \in Request /\ n.pc = "answer" /\ n.ans = a /\ Alike(q, n)
  BY <1>1, AnsweredFields
<1> HIDE DEF n
<1> QED
  BY <1>1, <1>2 DEF Ends, Alike, n, Origin

LEMMA PlainAnswer ==
    ASSUME DataInv, NEW w \in Workers, NEW a \in Answers \ {"none", "denied"}, Go(w, Answer(w, a)),
           rq[w].pc \notin {"idle", "answer", "gate", "body", "record"}, rq[w].fp = "none",
           rq[w].pc \notin DoneSteps \/ a \notin Refusals,
           UNCHANGED <<count, held>>, NoFault \/ Fault
    PROVE  DataInv'
<1>1. Good(rq[w], cat, data)
  BY TypedRequest
<1>2. Ends(rq[w], Answer(w, a), a)
  BY <1>1, PlainEnd DEF Answer
<1>3. Fits(rq[w], a, data, data)
  BY DEF Fits
<1>4. held' \in [Workers -> Holder]
  BY DEF DataInv
<1> QED
  BY <1>2, <1>3, <1>4, AnswerInv


-----------------------------------------------------------------------------
(* The gates. *)

LEMMA NeededFor ==
    /\ Needed["dsGet"] = READ /\ Needed["mbGet"] = READ /\ Needed["mbList"] = READ
    /\ Needed["dsPut"] = UPDATE /\ Needed["mbPut"] = UPDATE /\ Needed["mbRename"] = UPDATE
    /\ Needed["mbDelete"] = UPDATE /\ Needed["dsRename"] = ALTER /\ Needed["dsCreate"] = ALTER
    /\ Needed["dsDelete"] = ALTER
BY DEF Needed

\* What the gate asks for is what the request may then change.
LEMMA GateIsPermit ==
    ASSUME NEW w \in Workers, rq[w].r.op # "dsRename"
    PROVE  RequireAccess(w, T(w)[1], Needed[rq[w].r.op]) <=> Permitted(rq[w].r)
<1>1. Scope(rq[w].r) = {T(w)[1]}
  BY DEF Scope, T
<1> QED
  BY <1>1 DEF Permitted, RequireAccess, R

\* A request at its gate has nothing yet.
LEMMA AtGate ==
    ASSUME NEW q, NEW c, NEW D, Good(q, c, D), q.pc \in {"gate", "locate"}
    PROVE  q.fp = "none" /\ ~q.buf /\ q.ans = "none" /\ q.r # None /\ q \in Request
           /\ (q.pc = "gate" => q.r.op # "dsCreate")
BY DEF Good, Stage, StepOf, Request, WriteSteps

\* The request passes its gate.
LEMMA PassGood ==
    ASSUME NEW q, NEW n, NEW c, NEW D, Good(q, c, D), q.pc = "gate", Permitted(q.r),
           q.r.flaw # "name", n \in Request, Alike(q, n), n.ans = q.ans,
           n.pc \in {"pcount", "bcount", "hash", "open", "probe", "catalog", "act"},
           StepOf(n.pc, q.r.op),
           q.r.op \in Puts => n.pc = "catalog" \/ (n.pc = "probe" /\ q.r.op = "dsPut")
    PROVE  Good(n, c, D)
<1>1. q.fp = "none" /\ ~q.buf /\ q.ans = "none" /\ q.r # None
  BY AtGate
<1>2. Stage(n)
  BY <1>1 DEF Stage, Alike, Origin
<1>3. Framed(n)
  BY <1>1 DEF Good, Framed, Alike, DoneSteps, Origin
<1>4. InCatalog(n, c)
  BY <1>1 DEF InCatalog, Alike, Puts, Origin
<1>5. q.pc \notin DoneSteps
  BY DEF DoneSteps
<1> QED
  BY <1>1, <1>2, <1>3, <1>4, <1>5, OnwardGood DEF Alike, Origin

\* An answer of the gate, or right after it.
LEMMA GateAnswer ==
    ASSUME DataInv, NEW w \in Workers, rq[w].pc = "gate", NEW a \in Answers \ {"none"},
           a = "denied" <=> rq[w].r.flaw # "name" /\ ~Permitted(rq[w].r)
    PROVE  Good(Answer(w, a), cat, data)
<1>1. Good(rq[w], cat, data)
  BY TypedRequest
<1>2. rq[w].fp = "none"
  BY <1>1, AtGate
<1>3. Ends(rq[w], Answer(w, a), a)
  BY <1>1, <1>2, PlainEnd DEF Answer
<1>4. Fits(rq[w], a, data, data)
  BY <1>2 DEF Fits, DoneSteps
<1> QED
  BY <1>1, <1>3, <1>4, AnswerGood

LEMMA SameHeld ==
    ASSUME DataInv, UNCHANGED held PROVE held' \in [Workers -> Holder]
BY DEF DataInv

LEMMA GateInv ==
    ASSUME DataInv, NEW w \in Workers, NEW op \in Ops \ {"dsRename", "dsCreate"}, NEW x,
           Gate(w, op, T(w)[1], Needed[op], x),
           Permitted(rq[w].r) /\ rq[w].r.flaw # "name" => Good(x, cat, data)
    PROVE  DataInv'
<1> DEFINE d == T(w)[1]
           n == IF R(w).flaw = "name" THEN Answer(w, "400")
                ELSE IF ~RequireAccess(w, d, Needed[op]) THEN Answer(w, "denied")
                ELSE IF VolumeGate(w, d) # "pass" THEN Answer(w, VolumeGate(w, d))
                ELSE x
<1>1. rq[w].pc = "gate" /\ rq[w].r.op = op /\ Go(w, n) /\ Same
  BY Zenon DEF Gate, At
<1>2. RequireAccess(w, d, Needed[op]) <=> Permitted(rq[w].r)
  BY <1>1, GateIsPermit
<1>3. VolumeGate(w, d) \in {"pass", "404"}
  BY DEF VolumeGate
<1>4. R(w).flaw = rq[w].r.flaw
  BY DEF R
<1>5. {"400", "404", "denied"} \subseteq Answers \ {"none"}
  BY DEF Answers
<1>6. Good(n, cat, data)
  <2>1. CASE R(w).flaw = "name"
    <3>1. Good(Answer(w, "400"), cat, data)
      BY <1>1, <1>4, <1>5, <2>1, GateAnswer
    <3> QED
      BY <2>1, <3>1, Zenon
  <2>2. CASE R(w).flaw # "name" /\ ~RequireAccess(w, d, Needed[op])
    <3>1. Good(Answer(w, "denied"), cat, data)
      BY <1>1, <1>2, <1>4, <1>5, <2>2, GateAnswer
    <3> QED
      BY <2>2, <3>1, Zenon
  <2>3. CASE R(w).flaw # "name" /\ RequireAccess(w, d, Needed[op]) /\ VolumeGate(w, d) # "pass"
    <3>1. Good(Answer(w, "404"), cat, data)
      BY <1>1, <1>2, <1>4, <1>5, <2>3, GateAnswer
    <3>2. VolumeGate(w, d) = "404"
      BY <1>3, <2>3
    <3> QED
      BY <2>3, <3>1, <3>2, Zenon
  <2>4. CASE R(w).flaw # "name" /\ RequireAccess(w, d, Needed[op]) /\ VolumeGate(w, d) = "pass"
    <3>1. Good(x, cat, data)
      BY <1>2, <1>4, <2>4
    <3> QED
      BY <2>4, <3>1, Zenon
  <2> QED
    BY <2>1, <2>2, <2>3, <2>4
<1> HIDE DEF n, d
<1>7. Counters' /\ held' \in [Workers -> Holder]
  BY <1>1, CountersKept, SameHeld DEF Same, NoFault
<1> QED
  BY <1>1, <1>6, <1>7, GoInv


LEMMA PassTo ==
    ASSUME DataInv, NEW w \in Workers, rq[w].pc = "gate", Permitted(rq[w].r),
           rq[w].r.flaw # "name",
           NEW p \in {"pcount", "bcount", "hash", "open", "probe", "catalog", "act"},
           StepOf(p, rq[w].r.op),
           rq[w].r.op \in Puts => p = "catalog" \/ (p = "probe" /\ rq[w].r.op = "dsPut")
    PROVE  Good(To(w, p), cat, data)
<1>1. Good(rq[w], cat, data) /\ rq[w] \in Request
  BY TypedRequest
<1>2. p \in Steps
  BY DEF Steps
<1> DEFINE n == To(w, p)
<1>3. n \in Request /\ n.pc = p /\ n.ans = rq[w].ans /\ Alike(rq[w], n)
  BY <1>1, <1>2, MovedFields DEF To
<1> HIDE DEF n
<1>4. Good(n, cat, data)
  BY <1>1, <1>3, PassGood
<1> QED
  BY <1>4 DEF n

LEMMA PassAnswer ==
    ASSUME DataInv, NEW w \in Workers, rq[w].pc = "gate", Permitted(rq[w].r),
           NEW a \in {"400", "404"}
    PROVE  Good(Answer(w, a), cat, data)
<1>1. a \in Answers \ {"none"} /\ a # "denied"
  BY DEF Answers
<1> QED
  BY <1>1, GateAnswer

LEMMA HeadersGood ==
    ASSUME DataInv, NEW w \in Workers, rq[w].pc = "gate", Permitted(rq[w].r),
           NEW x, Good(x, cat, data)
    PROVE  Good(Headers(w, x), cat, data)
<1>1. Good(Answer(w, "400"), cat, data)
  BY PassAnswer
<1> QED
  BY <1>1, Zenon DEF Headers

LEMMA GatesInv ==
    ASSUME DataInv, NEW w \in Workers,
           \/ DsGetGate(w) \/ MbGetGate(w) \/ MbListGate(w) \/ DsPutGate(w) \/ MbPutGate(w)
           \/ MbRenameGate(w) \/ DsDeleteGate(w) \/ MbDeleteGate(w)
    PROVE  DataInv'
<1> DEFINE Passed == Permitted(rq[w].r) /\ rq[w].r.flaw # "name"
<1>0. Ops \ {"dsRename", "dsCreate"} = {"dsGet", "dsPut", "dsDelete", "mbGet", "mbPut", "mbRename",
                                        "mbDelete", "mbList"}
  BY DEF Ops
<1>1. CASE DsGetGate(w)
  <2> DEFINE p == IF Conditional(w) THEN "pcount" ELSE "bcount"
             x == IF IsPds(T(w)[1]) THEN Answer(w, "400") ELSE Headers(w, To(w, p))
  <2>1. Gate(w, "dsGet", T(w)[1], Needed["dsGet"], x)
    BY <1>1, NeededFor, Zenon DEF DsGetGate
  <2>2. rq[w].pc = "gate" /\ rq[w].r.op = "dsGet"
    BY <2>1, Zenon DEF Gate, At
  <2>3. ASSUME Passed PROVE Good(x, cat, data)
    <3>1. p \in {"pcount", "bcount"} /\ StepOf(p, rq[w].r.op) /\ rq[w].r.op \notin Puts
      BY <2>2 DEF StepOf, Puts, WriteSteps, DoneSteps
    <3>2. Good(To(w, p), cat, data) /\ Good(Answer(w, "400"), cat, data)
      BY <2>2, <2>3, <3>1, PassTo, PassAnswer
    <3>3. Good(Headers(w, To(w, p)), cat, data)
      BY <2>2, <2>3, <3>2, HeadersGood
    <3> QED
      BY <3>2, <3>3, Zenon
  <2> HIDE DEF x
  <2> QED
    BY <1>0, <2>1, <2>3, GateInv
<1>2. CASE MbGetGate(w)
  <2> DEFINE p == IF Conditional(w) THEN "hash" ELSE "open"
             y == [To(w, p) EXCEPT !.dirty = FALSE]
             x == Headers(w, y)
  <2>1. Gate(w, "mbGet", T(w)[1], Needed["mbGet"], x)
    BY <1>2, NeededFor, Zenon DEF MbGetGate
  <2>2. rq[w].pc = "gate" /\ rq[w].r.op = "mbGet"
    BY <2>1, Zenon DEF Gate, At
  <2>3. ASSUME Passed PROVE Good(x, cat, data)
    <3>1. p \in {"hash", "open"} /\ StepOf(p, rq[w].r.op) /\ rq[w].r.op \notin Puts /\ p \in Steps
      BY <2>2 DEF StepOf, Puts, WriteSteps, DoneSteps, Steps
    <3>2. Good(rq[w], cat, data) /\ rq[w] \in Request
      BY TypedRequest
    <3> HIDE DEF p
    <3> DEFINE q == To(w, p)
    <3>3. q \in Request /\ q.pc = p /\ q.ans = rq[w].ans /\ Alike(rq[w], q)
      BY <3>1, <3>2, MovedFields DEF To
    <3> HIDE DEF q
    <3>8. ~rq[w].create
      BY <2>2, <3>2, AtGate, Uncreated DEF DoneSteps
    <3>4. \A b \in BOOLEAN : LET n == [q EXCEPT !.dirty = b] IN
            n \in Request /\ n.pc = q.pc /\ n.ans = q.ans /\ Alike(q, n)
      BY <3>3, <3>8 DEF Request, Alike, Origin
    <3>5. y \in Request /\ y.pc = q.pc /\ y.ans = q.ans /\ Alike(q, y)
      BY <3>4, Zenon DEF q
    <3> HIDE DEF y
    <3>6. Alike(rq[w], y)
      BY <3>3, <3>5 DEF Alike, Origin
    <3>7. Good(y, cat, data)
      BY <2>2, <2>3, <3>1, <3>2, <3>3, <3>5, <3>6, PassGood
    <3> QED
      BY <2>2, <2>3, <3>7, HeadersGood
  <2> HIDE DEF x
  <2> QED
    BY <1>0, <2>1, <2>3, GateInv
<1>3. CASE MbListGate(w)
  <2> DEFINE y == IF ~Cataloged(T(w)[1]) THEN Answer(w, "404")
                  ELSE IF ~IsPds(T(w)[1]) THEN Answer(w, "400") ELSE To(w, "open")
             x == Headers(w, y)
  <2>1. Gate(w, "mbList", T(w)[1], Needed["mbList"], x)
    BY <1>3, NeededFor, Zenon DEF MbListGate
  <2>2. rq[w].pc = "gate" /\ rq[w].r.op = "mbList"
    BY <2>1, Zenon DEF Gate, At
  <2>3. ASSUME Passed PROVE Good(x, cat, data)
    <3>1. StepOf("open", rq[w].r.op) /\ rq[w].r.op \notin Puts
      BY <2>2 DEF StepOf, Puts, WriteSteps, DoneSteps
    <3>2. /\ Good(To(w, "open"), cat, data)
          /\ Good(Answer(w, "400"), cat, data) /\ Good(Answer(w, "404"), cat, data)
      BY <2>2, <2>3, <3>1, PassTo, PassAnswer
    <3>3. Good(y, cat, data)
      BY <3>2, Zenon
    <3> HIDE DEF y
    <3> QED
      BY <2>2, <2>3, <3>3, HeadersGood
  <2> HIDE DEF x
  <2> QED
    BY <1>0, <2>1, <2>3, GateInv
<1>4. CASE DsPutGate(w)
  <2> DEFINE x == IF IsPds(T(w)[1]) THEN Answer(w, "400") ELSE Headers(w, To(w, "probe"))
  <2>1. Gate(w, "dsPut", T(w)[1], Needed["dsPut"], x)
    BY <1>4, NeededFor, Zenon DEF DsPutGate
  <2>2. rq[w].pc = "gate" /\ rq[w].r.op = "dsPut"
    BY <2>1, Zenon DEF Gate, At
  <2>3. ASSUME Passed PROVE Good(x, cat, data)
    <3>1. StepOf("probe", rq[w].r.op)
      BY <2>2 DEF StepOf, Puts, WriteSteps, DoneSteps
    <3>2. Good(To(w, "probe"), cat, data) /\ Good(Answer(w, "400"), cat, data)
      BY <2>2, <2>3, <3>1, PassTo, PassAnswer
    <3>3. Good(Headers(w, To(w, "probe")), cat, data)
      BY <2>2, <2>3, <3>2, HeadersGood
    <3> QED
      BY <3>2, <3>3, Zenon
  <2> HIDE DEF x
  <2> QED
    BY <1>0, <2>1, <2>3, GateInv
<1>5. CASE MbPutGate(w)
  <2> DEFINE x == Headers(w, To(w, "catalog"))
  <2>1. Gate(w, "mbPut", T(w)[1], Needed["mbPut"], x)
    BY <1>5, NeededFor, Zenon DEF MbPutGate
  <2>2. rq[w].pc = "gate" /\ rq[w].r.op = "mbPut"
    BY <2>1, Zenon DEF Gate, At
  <2>3. ASSUME Passed PROVE Good(x, cat, data)
    <3>1. StepOf("catalog", rq[w].r.op)
      BY <2>2 DEF StepOf, Puts, WriteSteps, DoneSteps
    <3>2. Good(To(w, "catalog"), cat, data)
      BY <2>2, <2>3, <3>1, PassTo
    <3> QED
      BY <2>2, <2>3, <3>2, HeadersGood
  <2> HIDE DEF x
  <2> QED
    BY <1>0, <2>1, <2>3, GateInv
<1>6. CASE MbRenameGate(w)
  <2>1. Gate(w, "mbRename", T(w)[1], Needed["mbRename"], To(w, "act"))
    BY <1>6, NeededFor, Zenon DEF MbRenameGate
  <2>2. rq[w].pc = "gate" /\ rq[w].r.op = "mbRename"
    BY <2>1, Zenon DEF Gate, At
  <2>3. StepOf("act", rq[w].r.op) /\ rq[w].r.op \notin Puts
    BY <2>2 DEF StepOf, Puts, WriteSteps, DoneSteps
  <2>4. ASSUME Passed PROVE Good(To(w, "act"), cat, data)
    BY <2>2, <2>3, <2>4, PassTo
  <2> QED
    BY <1>0, <2>1, <2>4, GateInv
<1>7. CASE DsDeleteGate(w)
  <2> DEFINE x == IF Cataloged(T(w)[1]) THEN To(w, "act") ELSE Answer(w, "404")
  <2>1. Gate(w, "dsDelete", T(w)[1], Needed["dsDelete"], x)
    BY <1>7, NeededFor, Zenon DEF DsDeleteGate
  <2>2. rq[w].pc = "gate" /\ rq[w].r.op = "dsDelete"
    BY <2>1, Zenon DEF Gate, At
  <2>3. StepOf("act", rq[w].r.op) /\ rq[w].r.op \notin Puts
    BY <2>2 DEF StepOf, Puts, WriteSteps, DoneSteps
  <2>4. ASSUME Passed PROVE Good(x, cat, data)
    <3>1. Good(To(w, "act"), cat, data) /\ Good(Answer(w, "404"), cat, data)
      BY <2>2, <2>3, <2>4, PassTo, PassAnswer
    <3> QED
      BY <3>1, Zenon
  <2> HIDE DEF x
  <2> QED
    BY <1>0, <2>1, <2>4, GateInv
<1>8. CASE MbDeleteGate(w)
  <2> DEFINE x == IF data[T(w)] = None THEN Answer(w, "404") ELSE To(w, "act")
  <2>1. Gate(w, "mbDelete", T(w)[1], Needed["mbDelete"], x)
    BY <1>8, NeededFor, Zenon DEF MbDeleteGate
  <2>2. rq[w].pc = "gate" /\ rq[w].r.op = "mbDelete"
    BY <2>1, Zenon DEF Gate, At
  <2>3. StepOf("act", rq[w].r.op) /\ rq[w].r.op \notin Puts
    BY <2>2 DEF StepOf, Puts, WriteSteps, DoneSteps
  <2>4. ASSUME Passed PROVE Good(x, cat, data)
    <3>1. Good(To(w, "act"), cat, data) /\ Good(Answer(w, "404"), cat, data)
      BY <2>2, <2>3, <2>4, PassTo, PassAnswer
    <3> QED
      BY <3>1, Zenon
  <2> HIDE DEF x
  <2> QED
    BY <1>0, <2>1, <2>4, GateInv
<1> QED
  BY <1>1, <1>2, <1>3, <1>4, <1>5, <1>6, <1>7, <1>8


-----------------------------------------------------------------------------
(* Steps past the gate that change nothing on the volume. *)

LEMMA OnwardInv ==
    ASSUME DataInv, NEW w \in Workers, NEW n, Go(w, n),
           rq[w].pc \notin {"idle", "answer", "gate"}, n.pc \notin {"idle", "answer", "gate"},
           n \in Request, n.r = rq[w].r, n.was = rq[w].was,
           n.max = rq[w].max \/ rq[w].r.t[2] = None,
           n.fp # "write" /\ n.pc \notin DoneSteps =>
             rq[w].fp # "write" /\ rq[w].pc \notin DoneSteps,
           Stage(n), Framed(n), InCatalog(n, cat), UNCHANGED <<count, held>>, NoFault \/ Fault
    PROVE  DataInv'
<1>1. Good(rq[w], cat, data)
  BY TypedRequest
<1>2. Good(n, cat, data)
  BY <1>1, OnwardGood
<1> QED
  BY <1>2, GoInv, CountersKept, SameHeld

\* A step of a request that has no file open; it may forget that its target was gone.
LEMMA StepInv ==
    ASSUME DataInv, NEW w \in Workers, NEW n, Go(w, n), rq[w].fp = "none",
           rq[w].pc \notin {"idle", "answer", "gate", "body", "record"},
           n.pc \notin {"idle", "answer", "gate", "record", "finish", "close"},
           n.pc \in DoneSteps <=> rq[w].pc \in DoneSteps,
           n \in Request, n.ans = rq[w].ans, n.r = rq[w].r, n.was = rq[w].was, n.fp = "none",
           n.n = rq[w].n, n.buf = rq[w].buf, n.framed = rq[w].framed, Origin(rq[w], n),
           n.max = rq[w].max \/ rq[w].r.t[2] = None,
           StepOf(n.pc, rq[w].r.op), InCatalog(n, cat),
           UNCHANGED <<count, held>>, NoFault \/ Fault
    PROVE  DataInv'
<1>1. Good(rq[w], cat, data)
  BY TypedRequest
<1>2. Stage(n)
  BY <1>1 DEF Good, Stage
<1>3. Framed(n)
  BY <1>1 DEF Good, Framed, Origin
<1> QED
  BY <1>2, <1>3, OnwardInv

LEMMA CountTypes ==
    ASSUME DataInv, NEW t \in Targets PROVE FbRecordCount(t) \in Int
<1>1. data[t] \in Contents
  BY DEF DataInv, VolumeOK
<1> QED
  BY <1>1 DEF FbRecordCount, Contents

LEMMA ReadTypes ==
    ASSUME DataInv, NEW t \in Targets, data[t] # None, NEW m \in Int
    PROVE  ReadPass(t, m) \in Contents /\ ReadPass(t, m) \in Seq(Stores)
<1>1. data[t] \in Seq(Stores)
  BY DEF DataInv, VolumeOK, Contents
<1>2. Residue \in Stores
  <2>1. \A b \in BOOLEAN : [rec |-> None, cut |-> b] \in Stores
    BY DEF Stores
  <2>2. FALSE \in BOOLEAN
    BY Zenon
  <2> QED
    BY <2>1, <2>2, Zenon DEF Residue
<1> DEFINE phys == IF t[1] \in Fixed /\ t[2] = None THEN Append(data[t], Residue) ELSE data[t]
<1>3. phys \in Seq(Stores)
  BY <1>1, <1>2
<1>4. ReadPass(t, m) = IF m >= 0 /\ m < Len(phys) THEN SubSeq(phys, 1, m) ELSE phys
  BY DEF ReadPass
<1> HIDE DEF phys
<1>5. m >= 0 /\ m < Len(phys) => SubSeq(phys, 1, m) \in Seq(Stores)
  BY <1>3
<1> QED
  BY <1>3, <1>4, <1>5 DEF Contents

LEMMA EtagTypes ==
    ASSUME DataInv, NEW w \in Workers, rq[w].r # None PROVE DatasetEtag(w) \in Contents
<1>1. rq[w] \in Request /\ rq[w].max \in Int
  BY TypedRequest DEF Request
<1>2. T(w) \in Targets
  BY <1>1, AskedFor DEF T
<1> QED
  BY <1>1, <1>2, ReadTypes DEF DatasetEtag, Contents

\* The record count, before a pass.
LEMMA CountInv ==
    ASSUME DataInv, NEW w \in Workers, NEW op, NEW step, NEW p \in Steps, Count(w, op, step, p),
           step = "pcount" /\ p \in {"hash", "match"}, p = "hash" => op = "dsGet",
           p = "match" => op = "dsPut"
    PROVE  DataInv'
<1> DEFINE m == FbRecordCount(T(w))
           q == To(w, p)
           n == [q EXCEPT !.max = m, !.dirty = FALSE]
<1>1. rq[w].pc = "pcount" /\ rq[w].r.op = op /\ Go(w, n) /\ UNCHANGED <<count, held>> /\ NoFault
  BY Zenon DEF Count, At, Same, NoFault
<1>2. Good(rq[w], cat, data) /\ rq[w] \in Request
  BY TypedRequest
<1>3. rq[w].r # None /\ rq[w].fp = "none"
  BY <1>1, <1>2 DEF Good, Stage, Request, WriteSteps
<1>4. m \in Int /\ rq[w].r.t[2] = None
  BY <1>1, <1>2, <1>3, AskedFor, CountTypes DEF T
<1>5. q \in Request /\ q.pc = p /\ q.ans = rq[w].ans /\ Alike(rq[w], q)
  BY <1>2, MovedFields DEF To
<1> HIDE DEF m, q
<1>11. ~rq[w].create
  BY <1>1, <1>2, <1>3, Uncreated DEF DoneSteps
<1>6. \A d \in BOOLEAN : LET x == [q EXCEPT !.max = m, !.dirty = d] IN
        x \in Request /\ x.pc = q.pc /\ x.ans = q.ans /\ Alike(q, x)
  BY <1>4, <1>5, <1>11 DEF Request, Alike, Origin
<1>7. n \in Request /\ n.pc = q.pc /\ n.ans = q.ans /\ Alike(q, n)
  BY <1>6, Zenon
<1> HIDE DEF n
<1>8. StepOf(p, rq[w].r.op)
  BY <1>1 DEF StepOf, Puts, WriteSteps, DoneSteps
<1>9. InCatalog(n, cat)
  BY <1>1, <1>2, <1>3, <1>5, <1>7 DEF InCatalog, Alike, Good, Origin
<1>10. n.pc \notin DoneSteps /\ rq[w].pc \notin DoneSteps
  BY <1>1, <1>5, <1>7 DEF DoneSteps
<1> QED
  BY <1>1, <1>3, <1>5, <1>7, <1>8, <1>9, <1>10, StepInv DEF Alike, Origin

\* A read pass for a stamp, which may fail.
LEMMA EtagSteps ==
    ASSUME DataInv, NEW w \in Workers, NEW ok, NEW failed, Etag(w, ok, failed)
    PROVE  /\ UNCHANGED <<count, held>>
           /\ \/ Go(w, ok) /\ NoFault
              \/ Go(w, Answer(w, "abend")) /\ NoFault
              \/ Go(w, [failed EXCEPT !.err = TRUE]) /\ Fault
BY Zenon DEF Etag

\* The fields of a request after its error flag has been set.
LEMMA ErrFields ==
    ASSUME NEW q \in Request
    PROVE  LET n == [q EXCEPT !.err = TRUE] IN
           n \in Request /\ n.pc = q.pc /\ n.ans = q.ans /\ Alike(q, n)
<1>1. \A b \in BOOLEAN : LET n == [q EXCEPT !.err = b] IN
        n \in Request /\ n.pc = q.pc /\ n.ans = q.ans /\ Alike(q, n)
  BY DEF Request, Alike, Origin
<1>2. TRUE \in BOOLEAN
  BY Zenon
<1> QED
  BY <1>1, <1>2, Zenon


LEMMA HashedFields ==
    ASSUME DataInv, NEW w \in Workers, NEW p \in {"bcount", "open"}, NEW s \in Contents
    PROVE  LET n == Hashed(w, p, s) IN
           /\ n \in Request /\ Alike(rq[w], n)
           /\ \/ n.pc = "answer" /\ n.ans = "304"
              \/ n.pc = p /\ n.ans = rq[w].ans
<1>1. rq[w] \in Request
  BY TypedRequest
<1>2. p \in Steps /\ "304" \in Answers
  BY DEF Steps, Answers
<1> DEFINE y == Answer(w, "304")
           z == To(w, p)
<1>3. y \in Request /\ y.pc = "answer" /\ y.ans = "304" /\ Alike(rq[w], y)
  BY <1>1, <1>2, AnsweredFields DEF Answer
<1>4. z \in Request /\ z.pc = p /\ z.ans = rq[w].ans /\ Alike(rq[w], z)
  BY <1>1, <1>2, MovedFields DEF To
<1> HIDE DEF y, z
<1>5. LET n == [y EXCEPT !.stamp = s] IN
      n \in Request /\ n.pc = y.pc /\ n.ans = y.ans /\ Alike(y, n)
  BY <1>3, StampFields
<1>6. LET n == [z EXCEPT !.stamp = s] IN
      n \in Request /\ n.pc = z.pc /\ n.ans = z.ans /\ Alike(z, n)
  BY <1>4, StampFields
<1>7. Hashed(w, p, s) = [y EXCEPT !.stamp = s] \/ Hashed(w, p, s) = [z EXCEPT !.stamp = s]
  BY Zenon DEF Hashed, y, z
<1> DEFINE n == Hashed(w, p, s)
<1>8. n = [y EXCEPT !.stamp = s] => n \in Request /\ n.pc = "answer" /\ n.ans = "304" /\ Alike(y, n)
  BY <1>3, <1>5, Zenon
<1>9. n = [z EXCEPT !.stamp = s] => n \in Request /\ n.pc = p /\ n.ans = rq[w].ans /\ Alike(z, n)
  BY <1>4, <1>6, Zenon
<1>10. /\ n \in Request
       /\ \/ n.pc = "answer" /\ n.ans = "304" /\ Alike(y, n)
          \/ n.pc = p /\ n.ans = rq[w].ans /\ Alike(z, n)
  BY <1>7, <1>8, <1>9, Zenon
<1> HIDE DEF n
<1>11. Alike(rq[w], n)
  BY <1>3, <1>4, <1>10 DEF Alike, Origin
<1> QED
  BY <1>10, <1>11, Zenon DEF n

\* A step of a reader, to its end or to the next step.
LEMMA ReaderInv ==
    ASSUME DataInv, NEW w \in Workers, NEW n, Go(w, n), rq[w].fp = "none",
           rq[w].pc \in {"hash", "bcount", "open"}, rq[w].r.op \in {"dsGet", "mbGet", "mbList"},
           n \in Request, Alike(rq[w], n),
           \/ n.pc = "answer" /\ n.ans \notin {"none", "denied"}
           \/ n.pc \in {"bcount", "open"} /\ StepOf(n.pc, rq[w].r.op) /\ n.ans = rq[w].ans,
           UNCHANGED <<count, held>>, NoFault \/ Fault
    PROVE  DataInv'
<1>1. Good(rq[w], cat, data)
  BY TypedRequest
<1>2. ~rq[w].buf /\ rq[w].pc \notin DoneSteps /\ rq[w].r.op \notin Puts
  BY <1>1 DEF Good, Stage, DoneSteps, Puts
<1>3. CASE n.pc = "answer" /\ n.ans \notin {"none", "denied"}
  <2>1. Ends(rq[w], n, n.ans)
    BY <1>2, <1>3 DEF Ends, Alike, Origin
  <2>2. Fits(rq[w], n.ans, data, data)
    BY <1>2 DEF Fits
  <2> QED
    BY <1>3, <2>1, <2>2, AnswerInv, SameHeld
<1>4. CASE n.pc \in {"bcount", "open"} /\ StepOf(n.pc, rq[w].r.op) /\ n.ans = rq[w].ans
  <2>1. InCatalog(n, cat) /\ n.pc \notin DoneSteps
    BY <1>2, <1>4 DEF InCatalog, Alike, DoneSteps, Origin
  <2> QED
    BY <1>2, <1>4, <2>1, StepInv DEF Alike, Origin
<1> QED
  BY <1>3, <1>4

LEMMA HashInv ==
    ASSUME DataInv, NEW w \in Workers, DsGetHash(w) \/ MbGetHash(w) PROVE DataInv'
<1>1. ASSUME NEW op \in {"dsGet", "mbGet"}, NEW p \in {"bcount", "open"}, At(w, op, "hash"),
             p = "bcount" => op = "dsGet",
             Etag(w, Hashed(w, p, DatasetEtag(w)), Hashed(w, p, None))
      PROVE  DataInv'
  <2>1. rq[w].pc = "hash" /\ rq[w].r.op = op /\ Good(rq[w], cat, data) /\ rq[w] \in Request
    BY <1>1, TypedRequest DEF At
  <2>2. rq[w].r # None /\ rq[w].fp = "none"
    BY <2>1 DEF Good, Stage, Request, WriteSteps
  <2>3. DatasetEtag(w) \in Contents /\ None \in Contents
    BY <2>2, EtagTypes DEF Contents
  <2>4. StepOf(p, op)
    BY <1>1 DEF StepOf, Puts, WriteSteps, DoneSteps
  <2> DEFINE y == Hashed(w, p, DatasetEtag(w))
             z == Hashed(w, p, None)
             n == [z EXCEPT !.err = TRUE]
  <2>5. /\ y \in Request /\ Alike(rq[w], y)
        /\ \/ y.pc = "answer" /\ y.ans = "304"
           \/ y.pc = p /\ y.ans = rq[w].ans
    BY <2>3, HashedFields
  <2>6. /\ z \in Request /\ Alike(rq[w], z)
        /\ \/ z.pc = "answer" /\ z.ans = "304"
           \/ z.pc = p /\ z.ans = rq[w].ans
    BY <2>3, HashedFields
  <2>7. /\ UNCHANGED <<count, held>>
        /\ \/ Go(w, y) /\ NoFault
           \/ Go(w, Answer(w, "abend")) /\ NoFault
           \/ Go(w, n) /\ Fault
    BY <1>1, EtagSteps, Zenon
  <2> HIDE DEF y, z
  <2>8. n \in Request /\ n.pc = z.pc /\ n.ans = z.ans /\ Alike(z, n)
    BY <2>6, ErrFields
  <2> HIDE DEF n
  <2>9. CASE Go(w, y) /\ NoFault
    BY <2>1, <2>2, <2>4, <2>5, <2>7, <2>9, ReaderInv
  <2>10. CASE Go(w, n) /\ Fault
    <3>1. Alike(rq[w], n)
      BY <2>6, <2>8 DEF Alike, Origin
    <3> QED
      BY <2>1, <2>2, <2>4, <2>6, <2>7, <2>8, <2>10, <3>1, ReaderInv
  <2>11. CASE Go(w, Answer(w, "abend")) /\ NoFault
    <3>1. "abend" \in Answers \ {"none", "denied"} /\ rq[w].pc \notin DoneSteps
      BY <2>1 DEF Answers, DoneSteps
    <3> QED
      BY <2>1, <2>2, <2>7, <2>11, <3>1, PlainAnswer
  <2> QED
    BY <2>7, <2>9, <2>10, <2>11
<1>2. CASE DsGetHash(w)
  BY <1>1, <1>2 DEF DsGetHash
<1>3. CASE MbGetHash(w)
  BY <1>1, <1>3 DEF MbGetHash
<1> QED
  BY <1>2, <1>3

LEMMA DsGetBoundInv ==
    ASSUME DataInv, NEW w \in Workers, DsGetBound(w) PROVE DataInv'
<1> DEFINE m == IF R(w).mode = "binary" THEN FbRecordCount(T(w)) ELSE -1
           q == To(w, "open")
           n == [q EXCEPT !.max = m]
<1>1. rq[w].pc = "bcount" /\ rq[w].r.op = "dsGet" /\ Go(w, n) /\ UNCHANGED <<count, held>> /\ NoFault
  BY Zenon DEF DsGetBound, At, Same, NoFault
<1>2. Good(rq[w], cat, data) /\ rq[w] \in Request
  BY TypedRequest
<1>3. rq[w].r # None /\ rq[w].fp = "none"
  BY <1>1, <1>2 DEF Good, Stage, Request, WriteSteps
<1>4. m \in Int /\ rq[w].r.t[2] = None
  BY <1>1, <1>2, <1>3, AskedFor, CountTypes DEF T
<1>5. q \in Request /\ q.pc = "open" /\ q.ans = rq[w].ans /\ Alike(rq[w], q)
  BY <1>2, MovedFields DEF To, Steps
<1> HIDE DEF m, q
<1>6. n \in Request /\ n.pc = q.pc /\ n.ans = q.ans /\ Alike(q, n)
  BY <1>4, <1>5, MaxFields DEF Alike, Origin
<1> HIDE DEF n
<1>7. StepOf("open", "dsGet") /\ Alike(rq[w], n)
  BY <1>5, <1>6 DEF StepOf, Puts, WriteSteps, DoneSteps, Alike, Origin
<1> QED
  BY <1>1, <1>3, <1>5, <1>6, <1>7, ReaderInv

LEMMA FailureTypes ==
    ASSUME NEW t PROVE OpenFailure(t) \in {"404", "500", "400"}
BY DEF OpenFailure

\* A file is opened or closed.
LEMMA FileFields ==
    ASSUME NEW q \in Request, NEW f \in {"none", "read", "write", "dir"}
    PROVE  LET n == [q EXCEPT !.fp = f] IN
           /\ n \in Request /\ n.fp = f /\ n.pc = q.pc /\ n.ans = q.ans /\ n.r = q.r
           /\ n.was = q.was /\ n.n = q.n /\ n.buf = q.buf /\ n.framed = q.framed
           /\ Origin(q, n) /\ n.gone = q.gone /\ n.max = q.max
BY DEF Request, Origin

LEMMA OpenedInv ==
    ASSUME DataInv, NEW w \in Workers, NEW f \in {"read", "dir"}, NEW p \in {"read", "act"},
           Go(w, [To(w, p) EXCEPT !.fp = f]), rq[w].pc = "open", rq[w].fp = "none",
           f = "read" => p = "read" /\ rq[w].r.op \in {"dsGet", "mbGet"},
           f = "dir" => p = "act" /\ rq[w].r.op = "mbList",
           f = "read" => cat[rq[w].r.t[1]] = IF rq[w].r.t[2] = None THEN "PS" ELSE "PO",
           UNCHANGED <<count, held>>, NoFault \/ Fault
    PROVE  DataInv'
<1> DEFINE q == To(w, p)
           n == [q EXCEPT !.fp = f]
<1>1. Good(rq[w], cat, data) /\ rq[w] \in Request
  BY TypedRequest
<1>a. Go(w, n)
  OBVIOUS
<1>c. p \in Steps /\ f \in {"none", "read", "write", "dir"}
  BY DEF Steps
<1>b. q \in Request /\ q.pc = p /\ q.ans = rq[w].ans /\ Alike(rq[w], q)
  BY <1>1, <1>c, MovedFields DEF To
<1> HIDE DEF q
<1>d. /\ n \in Request /\ n.fp = f /\ n.pc = q.pc /\ n.ans = q.ans /\ n.r = q.r
      /\ n.was = q.was /\ n.n = q.n /\ n.buf = q.buf /\ n.framed = q.framed
      /\ Origin(q, n) /\ n.gone = q.gone /\ n.max = q.max
  BY <1>b, <1>c, FileFields
<1> HIDE DEF n
<1>2. /\ n \in Request /\ n.pc = p /\ n.fp = f /\ n.ans = rq[w].ans /\ n.r = rq[w].r
      /\ n.was = rq[w].was /\ n.n = rq[w].n /\ n.buf = rq[w].buf /\ n.framed = rq[w].framed
      /\ (n.max = rq[w].max \/ rq[w].r.t[2] = None) /\ n.create = rq[w].create
  BY <1>b, <1>d DEF Alike, Origin
<1>3. Stage(n)
  BY <1>1, <1>2 DEF Good, Stage, StepOf, Puts, WriteSteps, DoneSteps
<1>4. Framed(n) /\ InCatalog(n, cat)
  BY <1>1, <1>2 DEF Good, Framed, InCatalog, DoneSteps, Origin
<1>5. rq[w].pc \notin DoneSteps
  BY DEF DoneSteps
<1> QED
  BY <1>a, <1>2, <1>3, <1>4, <1>5, OnwardInv


LEMMA OpenToReadInv ==
    ASSUME DataInv, NEW w \in Workers, NEW op \in {"dsGet", "mbGet"}, OpenToRead(w, op)
    PROVE  DataInv'
<1>1. /\ rq[w].pc = "open" /\ rq[w].r.op = op /\ UNCHANGED <<count, held>> /\ (NoFault \/ Fault)
      /\ \/ Go(w, Answer(w, OpenFailure(T(w))))
         \/ data[T(w)] # None /\ Go(w, [To(w, "read") EXCEPT !.fp = "read"])
  BY Zenon DEF OpenToRead, At
<1>2. Good(rq[w], cat, data) /\ rq[w] \in Request
  BY TypedRequest
<1>3. rq[w].r # None /\ rq[w].fp = "none"
  BY <1>1, <1>2 DEF Good, Stage, Request, WriteSteps
<1>4. CASE Go(w, Answer(w, OpenFailure(T(w))))
  <2>1. PICK a : a = OpenFailure(T(w))
    OBVIOUS
  <2>2. a \in Answers \ {"none", "denied"}
    BY <2>1, FailureTypes DEF Answers
  <2>3. Go(w, Answer(w, a)) /\ rq[w].pc \notin DoneSteps
    BY <1>1, <1>4, <2>1 DEF DoneSteps
  <2> QED
    BY <1>1, <1>3, <2>2, <2>3, PlainAnswer
<1>5. CASE data[T(w)] # None /\ Go(w, [To(w, "read") EXCEPT !.fp = "read"])
  <2>1. Go(w, [To(w, "read") EXCEPT !.fp = "read"])
    BY <1>5
  <2>2. cat[rq[w].r.t[1]] = IF rq[w].r.t[2] = None THEN "PS" ELSE "PO"
    BY <1>2, <1>3, <1>5, AskedFor DEF DataInv, VolumeOK, T
  <2> QED
    BY <1>1, <1>3, <2>1, <2>2, OpenedInv
<1> QED
  BY <1>1, <1>4, <1>5

LEMMA MbListOpenInv ==
    ASSUME DataInv, NEW w \in Workers, MbListOpen(w) PROVE DataInv'
<1>1. /\ rq[w].pc = "open" /\ rq[w].r.op = "mbList" /\ UNCHANGED <<count, held>> /\ NoFault
      /\ \/ \E a \in {"404", "abend"} : Go(w, Answer(w, a))
         \/ Go(w, [To(w, "act") EXCEPT !.fp = "dir"])
  BY Zenon DEF MbListOpen, At, Same, NoFault
<1>2. Good(rq[w], cat, data) /\ rq[w] \in Request
  BY TypedRequest
<1>3. rq[w].fp = "none" /\ rq[w].pc \notin DoneSteps
  BY <1>1, <1>2 DEF Good, Stage, Request, WriteSteps, DoneSteps
<1>4. ASSUME NEW a \in {"404", "abend"}, Go(w, Answer(w, a)) PROVE DataInv'
  <2>1. a \in Answers \ {"none", "denied"}
    BY DEF Answers
  <2> QED
    BY <1>1, <1>3, <1>4, <2>1, PlainAnswer
<1>5. CASE Go(w, [To(w, "act") EXCEPT !.fp = "dir"])
  BY <1>1, <1>3, <1>5, OpenedInv
<1> QED
  BY <1>1, <1>4, <1>5

\* The end of a read: the file is closed.
LEMMA ReadEndInv ==
    ASSUME DataInv, NEW w \in Workers, rq[w].pc \in {"read", "act"}, rq[w].fp \in {"read", "dir"},
           NEW n, Go(w, n), NEW a \in {"200", "abend"}, NEW g \in Contents,
           n = [rq[w] EXCEPT !.pc = "answer", !.ans = a, !.fp = "none", !.got = g],
           UNCHANGED <<count, held>>, NoFault \/ Fault
    PROVE  DataInv'
<1>1. Good(rq[w], cat, data) /\ rq[w] \in Request
  BY TypedRequest
<1>2. a \in Answers
  BY DEF Answers
<1>3. /\ n \in Request /\ n.pc = "answer" /\ n.ans = a /\ n.fp = "none" /\ n.r = rq[w].r
      /\ n.was = rq[w].was /\ n.n = rq[w].n /\ n.buf = rq[w].buf /\ n.framed = rq[w].framed
      /\ Origin(rq[w], n) /\ n.max = rq[w].max
  BY <1>1, <1>2 DEF Request, Steps, Origin
<1>4. ~rq[w].buf
  BY <1>1 DEF Good, Stage
<1>5. Ends(rq[w], n, a)
  BY <1>3, <1>4 DEF Ends, Origin
<1>6. Fits(rq[w], a, data, data)
  BY DEF Fits, DoneSteps
<1> QED
  BY <1>5, <1>6, AnswerInv, SameHeld

LEMMA GotTypes ==
    ASSUME DataInv, NEW w \in Workers, rq[w].pc = "read", rq[w].fp = "read"
    PROVE  data[T(w)] \in Contents /\ ReadPass(T(w), rq[w].max) \in Contents
<1>1. Good(rq[w], cat, data) /\ rq[w] \in Request /\ rq[w].max \in Int
  BY TypedRequest DEF Request
<1>2. rq[w].r # None
  BY <1>1 DEF Good, Stage
<1>3. T(w) \in Targets /\ data[T(w)] \in Contents
  BY <1>1, <1>2, AskedFor DEF T, DataInv, VolumeOK
<1>4. CASE data[T(w)] # None
  BY <1>1, <1>3, <1>4, ReadTypes
<1>5. CASE data[T(w)] = None
  <2>1. T(w)[2] # None
    BY <1>1, <1>3, <1>5 DEF Good, InCatalog, T, DataInv, VolumeOK
  <2>2. rq[w].max = -1
    BY <1>1, <1>2, <2>1 DEF Good, Unbounded, T
  <2>3. ReadPass(T(w), rq[w].max) = data[T(w)]
    BY <2>1, <2>2 DEF ReadPass
  <2> QED
    BY <1>3, <2>3
<1> QED
  BY <1>3, <1>4, <1>5

LEMMA ReadAndSendInv ==
    ASSUME DataInv, NEW w \in Workers, ReadAndSend(w) PROVE DataInv'
<1>1. rq[w].pc = "read" /\ rq[w].fp = "read" /\ UNCHANGED <<count, held>>
  BY DEF ReadAndSend
<1> DEFINE g == IF R(w).mode = "text" THEN data[T(w)] ELSE ReadPass(T(w), rq[w].max)
           n == [Answer(w, "200") EXCEPT !.fp = "none", !.got = g]
           m == [Answer(w, "abend") EXCEPT !.fp = "none"]
<1>2. (Go(w, n) \/ Go(w, m)) /\ (NoFault \/ Fault)
  BY Zenon DEF ReadAndSend
<1>3. g \in Contents
  BY <1>1, GotTypes
<1>4. rq[w] \in Request /\ rq[w].got \in Contents
  BY TypedRequest DEF Request
<1> HIDE DEF g
<1>5. n = [rq[w] EXCEPT !.pc = "answer", !.ans = "200", !.fp = "none", !.got = g]
  BY <1>4 DEF Answer, Request
<1>6. m = [rq[w] EXCEPT !.pc = "answer", !.ans = "abend", !.fp = "none", !.got = rq[w].got]
  BY <1>4 DEF Answer, Request
<1> HIDE DEF n, m
<1>7. CASE Go(w, n)
  BY <1>1, <1>2, <1>3, <1>5, <1>7, ReadEndInv
<1>8. CASE Go(w, m)
  BY <1>1, <1>2, <1>4, <1>6, <1>8, ReadEndInv
<1> QED
  BY <1>2, <1>7, <1>8

LEMMA MbListScanInv ==
    ASSUME DataInv, NEW w \in Workers, MbListScan(w) PROVE DataInv'
<1>1. rq[w].pc = "act" /\ rq[w].r.op = "mbList" /\ UNCHANGED <<count, held>>
  BY DEF MbListScan, At
<1>2. rq[w] \in Request /\ rq[w].got \in Contents /\ Good(rq[w], cat, data)
  BY TypedRequest DEF Request, Origin
<1>3. PICK a \in {"200", "abend"} :
        Go(w, [Answer(w, a) EXCEPT !.fp = "none"]) /\ (NoFault \/ Fault)
  BY Zenon DEF MbListScan
<1> DEFINE n == [Answer(w, a) EXCEPT !.fp = "none"]
<1>4. n = [rq[w] EXCEPT !.pc = "answer", !.ans = a, !.fp = "none", !.got = rq[w].got]
  BY <1>2 DEF Answer, Request
<1>5. Go(w, n)
  BY <1>3
<1> HIDE DEF n
<1>6. ~rq[w].buf /\ rq[w].fp # "write" /\ rq[w].pc \notin DoneSteps
  BY <1>1, <1>2 DEF Good, Stage, WriteSteps, DoneSteps
<1>7. a \in Answers
  BY DEF Answers
<1>8. /\ n \in Request /\ n.pc = "answer" /\ n.ans = a /\ n.fp = "none" /\ n.r = rq[w].r
      /\ n.was = rq[w].was /\ n.n = rq[w].n /\ n.buf = rq[w].buf /\ n.framed = rq[w].framed
      /\ Origin(rq[w], n) /\ n.max = rq[w].max
  BY <1>2, <1>4, <1>7 DEF Request, Steps, Origin
<1>9. Ends(rq[w], n, a) /\ Fits(rq[w], a, data, data)
  BY <1>6, <1>8 DEF Ends, Fits, Origin
<1> QED
  BY <1>1, <1>3, <1>5, <1>9, AnswerInv, SameHeld

LEMMA ReadInv ==
    ASSUME DataInv, NEW w \in Workers, Read(w) PROVE DataInv'
<1>1. CASE DsGetCount(w)
  <2>1. "hash" \in Steps
    BY DEF Steps
  <2> QED
    BY <1>1, <2>1, CountInv DEF DsGetCount
<1>2. CASE DsGetOpen(w) \/ MbGetOpen(w)
  BY <1>2, OpenToReadInv DEF DsGetOpen, MbGetOpen
<1> QED
  BY <1>1, <1>2, GatesInv, HashInv, DsGetBoundInv, ReadAndSendInv, MbListOpenInv, MbListScanInv
  DEF Read


-----------------------------------------------------------------------------
(* A request comes in, and is answered. *)

LEMMA AcceptInv ==
    ASSUME DataInv, NEW w \in Workers, Accept(w) PROVE DataInv'
<1> DEFINE p(r) == IF r.op = "dsCreate" THEN "locate" ELSE "gate"
           n(r) == [NoRequest EXCEPT !.pc = p(r), !.r = r, !.was = data[r.t]]
<1>1. PICK r \in Requests : Go(w, n(r))
  BY Zenon DEF Accept
<1>2. count < MaxRequests /\ count' = count + 1 /\ UNCHANGED <<held, faults>>
  BY DEF Accept
<1>3. Counters' /\ held' \in [Workers -> Holder]
  BY <1>2, SameHeld, Bounds DEF DataInv, Counters
<1>4. r.t \in Targets /\ data[r.t] \in Contents /\ r # None
  BY Asked, Bounds DEF DataInv, VolumeOK
<1>5. NoRequest \in Request
  BY IdleGood DEF Good
<1>6. /\ NoRequest.fp = "none" /\ NoRequest.n = 0 /\ NoRequest.max = -1
      /\ NoRequest.ans = "none" /\ ~NoRequest.buf /\ ~NoRequest.create
  BY DEF NoRequest
<1>7. p(r) \in {"gate", "locate"} /\ p(r) \in Steps
  BY DEF Steps
<1>8. \A x \in Steps : LET q == [NoRequest EXCEPT !.pc = x, !.r = r, !.was = data[r.t]] IN
        /\ q \in Request /\ q.pc = x /\ q.r = r /\ q.was = data[r.t] /\ q.fp = NoRequest.fp
        /\ q.n = NoRequest.n /\ q.max = NoRequest.max /\ q.ans = NoRequest.ans
        /\ q.buf = NoRequest.buf /\ q.create = NoRequest.create
  BY <1>4, <1>5 DEF Request
<1> DEFINE q == n(r)
<1>9. /\ q \in Request /\ q.pc = p(r) /\ q.r = r /\ q.was = data[r.t] /\ q.fp = "none"
      /\ q.n = 0 /\ q.max = -1 /\ q.ans = "none" /\ ~q.buf /\ ~q.create
  BY <1>6, <1>7, <1>8, ZenonT(30)
<1>10. Go(w, q) /\ (p(r) = "gate" <=> r.op # "dsCreate")
  BY <1>1
<1> HIDE DEF q, n, p
<1>11. Stage(q)
  BY <1>4, <1>7, <1>9, <1>10 DEF Stage, StepOf, WriteSteps, DoneSteps
<1>12. Framed(q) /\ Gated(q) /\ Unbounded(q) /\ InCatalog(q, cat) /\ Kept(q, data)
  BY <1>7, <1>9, <1>10 DEF Framed, Gated, Unbounded, InCatalog, Kept, DoneSteps, Origin
<1>13. Good(q, cat, data)
  BY <1>9, <1>11, <1>12 DEF Good
<1> QED
  BY <1>3, <1>10, <1>13, GoInv

LEMMA RespondInv ==
    ASSUME DataInv, NEW w \in Workers, Respond(w) PROVE DataInv'
<1>1. Go(w, NoRequest) /\ UNCHANGED count /\ NoFault /\ rq[w].pc = "answer"
  BY DEF Respond, Go, NoFault
<1>2. Good(NoRequest, cat, data)
  BY IdleGood
<1>3. Good(rq[w], cat, data) /\ rq[w] \in Request /\ rq[w].dirty \in BOOLEAN /\ rq[w].stamp \in Contents
  BY TypedRequest DEF Request
<1>4. T(w) \in Targets
  BY <1>1, <1>3, AskedFor DEF T, Good, Stage
<1> DEFINE h == [t |-> T(w), stamp |-> rq[w].stamp, dirty |-> rq[w].dirty]
<1>5. h \in Holder
  BY <1>3, <1>4 DEF Holder
<1>6. held' = [held EXCEPT ![w] = h] \/ held' = held
  BY Zenon DEF Respond
<1> HIDE DEF h
<1>7. held' \in [Workers -> Holder]
  BY <1>5, <1>6 DEF DataInv
<1> QED
  BY <1>1, <1>2, <1>7, GoInv, CountersKept

-----------------------------------------------------------------------------
(* A write, up to its output open. *)

\* The request forgets what was removed before its target was found.
LEMMA FoundFields ==
    ASSUME NEW q \in Request
    PROVE  /\ LET n == [q EXCEPT !.gone = FALSE] IN
              /\ n \in Request /\ n.pc = q.pc /\ n.ans = q.ans /\ n.r = q.r /\ n.was = q.was
              /\ n.fp = q.fp /\ n.n = q.n /\ n.buf = q.buf /\ n.framed = q.framed /\ n.max = q.max
              /\ n.create = q.create /\ n.blind = q.blind
           /\ LET n == [q EXCEPT !.gone = FALSE, !.dirty = FALSE] IN
              /\ n \in Request /\ n.pc = q.pc /\ n.ans = q.ans /\ n.r = q.r /\ n.was = q.was
              /\ n.fp = q.fp /\ n.n = q.n /\ n.buf = q.buf /\ n.framed = q.framed /\ n.max = q.max
              /\ n.create = q.create /\ n.blind = q.blind
<1>1. \A b \in BOOLEAN : LET n == [q EXCEPT !.gone = b] IN
        /\ n \in Request /\ n.pc = q.pc /\ n.ans = q.ans /\ n.r = q.r /\ n.was = q.was
        /\ n.fp = q.fp /\ n.n = q.n /\ n.buf = q.buf /\ n.framed = q.framed /\ n.max = q.max
        /\ n.create = q.create /\ n.blind = q.blind
  BY DEF Request
<1>2. \A b \in BOOLEAN : LET n == [q EXCEPT !.gone = b, !.dirty = b] IN
        /\ n \in Request /\ n.pc = q.pc /\ n.ans = q.ans /\ n.r = q.r /\ n.was = q.was
        /\ n.fp = q.fp /\ n.n = q.n /\ n.buf = q.buf /\ n.framed = q.framed /\ n.max = q.max
        /\ n.create = q.create /\ n.blind = q.blind
  BY DEF Request
<1>3. FALSE \in BOOLEAN
  BY Zenon
<1> QED
  BY <1>1, <1>2, <1>3, Zenon

\* A request that has found its data set cataloged.
LEMMA FoundInv ==
    ASSUME DataInv, NEW w \in Workers, NEW p \in {"pcount", "alloc", "match", "probe"},
           NEW n, Go(w, n),
           \/ n = [To(w, p) EXCEPT !.gone = FALSE]
           \/ n = [To(w, p) EXCEPT !.gone = FALSE, !.dirty = FALSE],
           rq[w].pc \in {"probe", "catalog"}, rq[w].fp = "none", rq[w].r.op \in Puts,
           StepOf(p, rq[w].r.op), cat[rq[w].r.t[1]] # "none",
           UNCHANGED <<count, held>>, NoFault \/ Fault
    PROVE  DataInv'
<1>1. Good(rq[w], cat, data) /\ rq[w] \in Request
  BY TypedRequest
<1>2. p \in Steps /\ p \notin DoneSteps /\ rq[w].pc \notin DoneSteps
  BY DEF Steps, DoneSteps
<1> DEFINE q == To(w, p)
<1>3. q \in Request /\ q.pc = p /\ q.ans = rq[w].ans /\ Alike(rq[w], q)
  BY <1>1, <1>2, MovedFields DEF To
<1>4. n = [q EXCEPT !.gone = FALSE] \/ n = [q EXCEPT !.gone = FALSE, !.dirty = FALSE]
  BY Zenon
<1> HIDE DEF q
<1>5. /\ n \in Request /\ n.pc = q.pc /\ n.ans = q.ans /\ n.r = q.r /\ n.was = q.was
      /\ n.fp = q.fp /\ n.n = q.n /\ n.buf = q.buf /\ n.framed = q.framed /\ n.max = q.max
      /\ n.create = q.create /\ n.blind = q.blind
  <2>1. CASE n = [q EXCEPT !.gone = FALSE]
    BY <1>3, <2>1, FoundFields, Zenon
  <2>2. CASE n = [q EXCEPT !.gone = FALSE, !.dirty = FALSE]
    BY <1>3, <2>2, FoundFields, Zenon
  <2> QED
    BY <1>4, <2>1, <2>2, Zenon
<1>6. InCatalog(n, cat)
  BY <1>3, <1>5 DEF InCatalog, Alike, Origin
<1>8. ~rq[w].create
  BY <1>1, <1>2, Uncreated
<1>7. Origin(rq[w], n)
  BY <1>3, <1>5, <1>8 DEF Origin, Alike
<1> QED
  BY <1>2, <1>3, <1>5, <1>6, <1>7, StepInv DEF Alike, Origin

\* A write before its open holds nothing.
LEMMA WriteStart ==
    ASSUME DataInv, NEW w \in Workers, rq[w].pc \in {"probe", "catalog", "match", "pcount"}
    PROVE  /\ Good(rq[w], cat, data) /\ rq[w] \in Request /\ rq[w].fp = "none" /\ ~rq[w].buf
           /\ rq[w].r # None /\ T(w) \in Targets /\ T(w) = rq[w].r.t /\ rq[w].pc \notin DoneSteps
           /\ rq[w].ans = "none"
<1>1. Good(rq[w], cat, data) /\ rq[w] \in Request
  BY TypedRequest
<1>2. /\ rq[w].fp = "none" /\ ~rq[w].buf /\ rq[w].r # None /\ rq[w].pc \notin DoneSteps
      /\ rq[w].ans = "none"
  BY <1>1 DEF Good, Stage, Request, WriteSteps, DoneSteps
<1> QED
  BY <1>1, <1>2, AskedFor DEF T

LEMMA DsPutProbeInv ==
    ASSUME DataInv, NEW w \in Workers, DsPutProbe(w) PROVE DataInv'
<1> DEFINE p == IF R(w).cond THEN "pcount" ELSE "alloc"
<1>1. /\ rq[w].pc = "probe" /\ rq[w].r.op = "dsPut" /\ UNCHANGED <<count, held>>
      /\ NoFault \/ Fault
      /\ \/ Go(w, Answer(w, "404"))
         \/ data[T(w)] # None /\ Go(w, [To(w, p) EXCEPT !.gone = FALSE])
  BY Zenon DEF DsPutProbe, At
<1>2. rq[w].fp = "none" /\ T(w) \in Targets /\ T(w) = rq[w].r.t /\ rq[w].pc \notin DoneSteps
  BY <1>1, WriteStart
<1>3. CASE Go(w, Answer(w, "404"))
  <2>2. "404" \in Answers \ {"none", "denied"}
    BY DEF Answers
  <2> QED
    BY <1>1, <1>2, <1>3, <2>2, PlainAnswer
<1>4. CASE data[T(w)] # None /\ Go(w, [To(w, p) EXCEPT !.gone = FALSE])
  <2>1. PICK n : n = [To(w, p) EXCEPT !.gone = FALSE]
    BY Zenon
  <2>2. Go(w, n)
    BY <1>1, <1>4, <2>1, Zenon
  <2>3. p \in {"pcount", "alloc", "match", "probe"} /\ StepOf(p, "dsPut") /\ "dsPut" \in Puts
    BY DEF StepOf, Puts, WriteSteps, DoneSteps
  <2>4. cat[rq[w].r.t[1]] # "none"
    BY <1>2, <1>4 DEF DataInv, VolumeOK
  <2> HIDE DEF p
  <2> QED
    BY <1>1, <1>2, <2>1, <2>2, <2>3, <2>4, FoundInv
<1> QED
  BY <1>1, <1>3, <1>4

LEMMA MbPutCatalogInv ==
    ASSUME DataInv, NEW w \in Workers, MbPutCatalog(w) PROVE DataInv'
<1> DEFINE p == IF R(w).cond THEN "match" ELSE "probe"
<1>1. /\ rq[w].pc = "catalog" /\ rq[w].r.op = "mbPut" /\ UNCHANGED <<count, held>> /\ NoFault
      /\ Go(w, IF ~Cataloged(T(w)[1]) THEN Answer(w, "404")
               ELSE [To(w, p) EXCEPT !.gone = FALSE, !.dirty = FALSE])
  BY Zenon DEF MbPutCatalog, At, Same, NoFault
<1>2. rq[w].fp = "none" /\ T(w) \in Targets /\ T(w) = rq[w].r.t /\ rq[w].pc \notin DoneSteps
  BY <1>1, WriteStart
<1>3. CASE ~Cataloged(T(w)[1])
  <2>1. Go(w, Answer(w, "404"))
    BY <1>1, <1>3, Zenon
  <2>2. "404" \in Answers \ {"none", "denied"}
    BY DEF Answers
  <2> QED
    BY <1>1, <1>2, <2>1, <2>2, PlainAnswer
<1>4. CASE Cataloged(T(w)[1])
  <2>1. PICK n : n = [To(w, p) EXCEPT !.gone = FALSE, !.dirty = FALSE]
    BY Zenon
  <2>2. Go(w, n)
    BY <1>1, <1>4, <2>1, Zenon
  <2>3. p \in {"pcount", "alloc", "match", "probe"} /\ StepOf(p, "mbPut") /\ "mbPut" \in Puts
    BY DEF StepOf, Puts, WriteSteps, DoneSteps
  <2>4. cat[rq[w].r.t[1]] # "none"
    BY <1>2, <1>4 DEF Cataloged
  <2> HIDE DEF p
  <2> QED
    BY <1>1, <1>2, <2>1, <2>2, <2>3, <2>4, FoundInv
<1> QED
  BY <1>3, <1>4


\* The condition of a write: the request goes on, or 412.
LEMMA MatchInv ==
    ASSUME DataInv, NEW w \in Workers, DsPutMatch(w) \/ MbPutMatch(w) PROVE DataInv'
<1>1. ASSUME NEW op \in Puts, NEW p \in {"alloc", "probe"}, At(w, op, "match"), CheckIfMatch(w, p)
      PROVE  DataInv'
  <2> DEFINE q == To(w, p)
             b == q.dirty /\ T(w)[2] = None
             n == [q EXCEPT !.dirty = b]
             a == Answer(w, "412")
             m == [a EXCEPT !.err = TRUE]
  <2>1. /\ UNCHANGED <<count, held>>
        /\ \/ (Go(w, n) \/ Go(w, a) \/ Go(w, Answer(w, "abend"))) /\ NoFault
           \/ Go(w, m) /\ Fault
    BY <1>1, Zenon DEF CheckIfMatch, Etag
  <2>2. rq[w].pc = "match" /\ rq[w].r.op = op
    BY <1>1 DEF At
  <2>3. /\ Good(rq[w], cat, data) /\ rq[w] \in Request /\ rq[w].fp = "none" /\ ~rq[w].buf
        /\ rq[w].pc \notin DoneSteps
    BY <2>2, WriteStart
  <2>4. /\ p \in Steps /\ p \notin DoneSteps /\ "412" \in Answers \ {"none", "denied"}
        /\ "abend" \in Answers \ {"none", "denied"}
    BY DEF Steps, DoneSteps, Answers
  <2>5. q \in Request /\ q.pc = p /\ q.ans = rq[w].ans /\ Alike(rq[w], q)
    BY <2>3, <2>4, MovedFields DEF To
  <2>6. a \in Request /\ a.pc = "answer" /\ a.ans = "412" /\ Alike(rq[w], a)
    BY <2>3, <2>4, AnsweredFields DEF Answer
  <2> HIDE DEF q
  <2>7. CASE Go(w, n) /\ NoFault
    <3>1. b \in BOOLEAN
      BY <2>5 DEF Request
    <3> HIDE DEF b
    <3>5. ~rq[w].create
      BY <2>2, <2>3, Uncreated
    <3>2. n \in Request /\ n.pc = q.pc /\ n.ans = q.ans /\ Alike(q, n)
      BY <2>5, <3>1, <3>5 DEF Request, Alike, Origin
    <3> HIDE DEF n
    <3>3. InCatalog(n, cat)
      BY <1>1, <2>2, <2>3, <2>5, <3>2 DEF Good, InCatalog, Alike, Origin
    <3>4. StepOf(p, op)
      BY <1>1 DEF StepOf, Puts, WriteSteps, DoneSteps
    <3> QED
      BY <2>1, <2>2, <2>3, <2>4, <2>5, <2>7, <3>2, <3>3, <3>4, StepInv DEF Alike, Origin
  <2>8. CASE Go(w, a) /\ NoFault
    BY <2>1, <2>2, <2>3, <2>4, <2>8, PlainAnswer
  <2>10. CASE Go(w, Answer(w, "abend")) /\ NoFault
    BY <2>1, <2>2, <2>3, <2>4, <2>10, PlainAnswer
  <2> HIDE DEF a
  <2>9. CASE Go(w, m) /\ Fault
    <3>1. m \in Request /\ m.pc = a.pc /\ m.ans = a.ans /\ Alike(a, m)
      BY <2>6, ErrFields
    <3> HIDE DEF m
    <3>2. Ends(rq[w], m, "412")
      BY <2>3, <2>6, <3>1 DEF Ends, Alike, Origin
    <3>3. Fits(rq[w], "412", data, data)
      BY <2>3 DEF Fits
    <3> QED
      BY <2>1, <2>2, <2>9, <3>2, <3>3, AnswerInv, SameHeld
  <2> QED
    BY <2>1, <2>7, <2>8, <2>9, <2>10
<1>2. "dsPut" \in Puts /\ "mbPut" \in Puts
  BY DEF Puts
<1> QED
  BY <1>1, <1>2 DEF DsPutMatch, MbPutMatch

\* The target is opened for output.
LEMMA OpenedToWrite ==
    ASSUME NEW m \in Request
    PROVE  LET n == [m EXCEPT !.fp = "write", !.out = << >>, !.dirty = FALSE] IN
           /\ n \in Request /\ n.fp = "write" /\ n.pc = m.pc /\ n.ans = m.ans /\ n.r = m.r
           /\ n.was = m.was /\ n.n = m.n /\ n.buf = m.buf /\ n.framed = m.framed
           /\ n.create = m.create /\ n.blind = m.blind /\ n.gone = m.gone /\ n.max = m.max
<1>1. \A b \in BOOLEAN, x \in Seq(Stores) :
        LET n == [m EXCEPT !.fp = "write", !.out = x, !.dirty = b] IN
        /\ n \in Request /\ n.fp = "write" /\ n.pc = m.pc /\ n.ans = m.ans /\ n.r = m.r
        /\ n.was = m.was /\ n.n = m.n /\ n.buf = m.buf /\ n.framed = m.framed
        /\ n.create = m.create /\ n.blind = m.blind /\ n.gone = m.gone /\ n.max = m.max
  BY ZenonT(30) DEF Request
<1>2. << >> \in Seq(Stores)
  OBVIOUS
<1>3. FALSE \in BOOLEAN
  BY Zenon
<1> QED
  BY <1>1, <1>2, <1>3, Zenon

\* A name that another request has open is what it was opened as.
LEMMA OpenIsCataloged ==
    ASSUME DataInv, NEW v \in Workers, rq[v].r # None, rq[v].fp \in {"read", "write"}
    PROVE  cat[rq[v].r.t[1]] = IF rq[v].r.t[2] = None THEN "PS" ELSE "PO"
BY TypedRequest DEF Good, InCatalog

\* A sequential data set is emptied, or allocated.
LEMMA EmptiedInv ==
    ASSUME DataInv, NEW w \in Workers, NEW n, NEW d \in Names, cat[d] # "PO",
           cat' = [cat EXCEPT ![d] = "PS"],
           Change(w, n, {<<d, None>>}, [data EXCEPT ![<<d, None>>] = << >>]),
           Good(n, cat', data'), Counters'
    PROVE  DataInv'
<1> DEFINE t == <<d, None>>
           new == [data EXCEPT ![t] = << >>]
<1>a. << >> \in Seq(Stores)
  OBVIOUS
<1>b. << >> \in Contents /\ << >> # None
  BY <1>a, Bounds, Zenon DEF Contents
<1>1. t \in Targets /\ t[1] = d /\ t[2] = None /\ << >> \in Contents /\ << >> # None
  BY <1>b, OneTarget
<1>2. data \in [Targets -> Contents] /\ cat \in [Names -> {"none", "PS", "PO"}]
  BY DEF DataInv, VolumeOK
<1>3. Change(w, n, {t}, new)
  OBVIOUS
<1>4. data' = [u \in Targets |-> IF u \in {t} THEN new[u] ELSE data[u]]
  BY <1>3 DEF Change
<1>5. new[t] = << >>
  BY <1>1, <1>2
<1>6. \A u \in Targets : data'[u] = IF u = t THEN << >> ELSE data[u]
  BY <1>4, <1>5
<1>7. \A u \in Targets : u[1] = d /\ u # t => u[2] # None
  BY TargetParts
<1> HIDE DEF t
<1>8. VolumeOK(cat', data')
  <2>1. data' \in [Targets -> Contents]
    BY <1>1, <1>2, <1>4, <1>5
  <2>2. cat' \in [Names -> {"none", "PS", "PO"}]
    BY <1>2
  <2>3. ASSUME NEW u \in Targets
        PROVE  /\ data'[u] # None => cat'[u[1]] = IF u[2] = None THEN "PS" ELSE "PO"
               /\ u[2] = None /\ cat'[u[1]] = "PS" => data'[u] # None
    <3>1. /\ data[u] # None => cat[u[1]] = IF u[2] = None THEN "PS" ELSE "PO"
          /\ u[2] = None /\ cat[u[1]] = "PS" => data[u] # None
      BY DEF DataInv, VolumeOK
    <3>2. cat'[u[1]] = IF u[1] = d THEN "PS" ELSE cat[u[1]]
      BY <1>2, TargetParts
    <3> QED
      BY <1>1, <1>6, <1>7, <3>1, <3>2
  <2> QED
    BY <2>1, <2>2, <2>3 DEF VolumeOK
<1>9. ASSUME NEW v \in Workers \ {w} PROVE Tolerable(rq[v], cat, cat', {t}, new)
  <2>1. SUFFICES ASSUME rq[v].r # None PROVE Tolerable(rq[v], cat, cat', {t}, new)
    BY DEF Tolerable
  <2>2. rq[v].r.t[1] \in Names
    BY <2>1, TypedRequest, AskedFor
  <2>3. cat'[rq[v].r.t[1]] = IF rq[v].r.t[1] = d THEN "PS" ELSE cat[rq[v].r.t[1]]
    BY <1>2, <2>2
  <2>4. rq[v].fp \in {"read", "write"} => cat[rq[v].r.t[1]] \in {"PS", "PO"}
    BY <2>1, OpenIsCataloged
  <2>5. cat[d] \in {"none", "PS"}
    BY <1>2
  <2> QED
    BY <2>3, <2>4, <2>5 DEF Tolerable
<1>10. {t} \subseteq Targets /\ \A u \in {t} : new[u] \in Contents
  BY <1>1, <1>5
<1> HIDE DEF new
<1>11. PICK C : C = {t}
  OBVIOUS
<1>12. /\ Change(w, n, C, new) /\ C \subseteq Targets /\ \A u \in C : new[u] \in Contents
       /\ \A v \in Workers \ {w} : Tolerable(rq[v], cat, cat', C, new)
  BY <1>3, <1>9, <1>10, <1>11
<1> QED
  BY <1>8, <1>12, ChangeInv


\* What a write goes on with at its output open.
Opens(q, m) ==
    /\ m \in Request /\ m.r = q.r /\ m.was = q.was /\ m.n = q.n /\ m.max = q.max
    /\ m.ans = "none" /\ m.pc \in {"alloc", "record", "close"} /\ (m.buf => m.pc = "record")
    /\ m.n > 0 => m.framed
    /\ m.framed \/ m.create \/ m.r.body = << >>
    /\ m.pc = "record" => m.framed /\ m.n < Len(m.r.body)
    /\ m.pc = "close" => m.framed \/ m.r.body = << >>
    /\ m.create => m.blind \/ m.was = None

LEMMA OpenWriteInv ==
    ASSUME DataInv, NEW w \in Workers, NEW m, OpenWriteTarget(w, m), Opens(rq[w], m),
           rq[w].pc \in {"probe", "record", "finish"}, rq[w].r.op \in Puts,
           UNCHANGED count, NoFault \/ Fault
    PROVE  DataInv'
<1> DEFINE t == T(w)
           n == [m EXCEPT !.fp = "write", !.out = << >>, !.dirty = FALSE]
<1>1. \/ /\ t[2] = None /\ cat[t[1]] # "PO"
         /\ cat' = [cat EXCEPT ![t[1]] = "PS"]
         /\ Change(w, n, {t}, [data EXCEPT ![t] = << >>])
      \/ t[2] # None /\ cat[t[1]] = "PO" /\ Go(w, n) /\ UNCHANGED <<cat, held>>
  BY Zenon DEF OpenWriteTarget, Go
<1>2. Good(rq[w], cat, data) /\ rq[w] \in Request
  BY TypedRequest
<1>3. rq[w].r # None
  BY <1>2 DEF Good, Stage
<1>4. t \in Targets /\ t = rq[w].r.t
  BY <1>2, <1>3, AskedFor DEF T
<1>5. /\ n \in Request /\ n.fp = "write" /\ n.pc = m.pc /\ n.ans = m.ans /\ n.r = m.r
      /\ n.was = m.was /\ n.n = m.n /\ n.buf = m.buf /\ n.framed = m.framed
      /\ n.create = m.create /\ n.blind = m.blind /\ n.gone = m.gone /\ n.max = m.max
  BY OpenedToWrite DEF Opens
<1> HIDE DEF n, t
<1>6. Stage(n)
  BY <1>3, <1>5 DEF Stage, Opens, StepOf, WriteSteps, DoneSteps
<1>7. Framed(n)
  BY <1>5 DEF Framed, Opens, DoneSteps, Origin
<1>8. cat'[t[1]] = (IF t[2] = None THEN "PS" ELSE "PO") => Good(n, cat', data')
  <2>1. cat'[t[1]] = (IF t[2] = None THEN "PS" ELSE "PO") => InCatalog(n, cat')
    BY <1>4, <1>5 DEF InCatalog, Opens
  <2>2. n.pc \notin {"idle", "answer", "gate"} /\ rq[w].pc \notin {"idle", "answer", "gate"}
    BY <1>5 DEF Opens
  <2> QED
    BY <1>2, <1>5, <1>6, <1>7, <2>1, <2>2, OnwardGood DEF Opens
<1>9. Counters'
  BY CountersKept
<1>10. CASE /\ t[2] = None /\ cat[t[1]] # "PO"
            /\ cat' = [cat EXCEPT ![t[1]] = "PS"]
            /\ Change(w, n, {t}, [data EXCEPT ![t] = << >>])
  <2>1. t = <<t[1], None>> /\ t[1] \in Names
    BY <1>4, <1>10, TargetParts
  <2>2. cat'[t[1]] = "PS"
    BY <1>10, <2>1 DEF DataInv, VolumeOK
  <2>3. Good(n, cat', data')
    BY <1>8, <1>10, <2>2
  <2>4. PICK d \in Names : d = t[1] /\ t = <<d, None>>
    BY <2>1
  <2>5. /\ cat[d] # "PO" /\ cat' = [cat EXCEPT ![d] = "PS"]
        /\ Change(w, n, {<<d, None>>}, [data EXCEPT ![<<d, None>>] = << >>])
    BY <1>10, <2>4, Zenon
  <2> QED
    BY <1>9, <2>3, <2>5, EmptiedInv
<1>11. CASE t[2] # None /\ cat[t[1]] = "PO" /\ Go(w, n) /\ UNCHANGED <<cat, held>>
  <2>1. Good(n, cat', data') /\ cat' = cat /\ data' = data
    BY <1>8, <1>11 DEF Go
  <2>2. Good(n, cat, data)
    BY <2>1
  <2> QED
    BY <1>9, <1>11, <2>2, GoInv, SameHeld
<1> QED
  BY <1>1, <1>10, <1>11

\* The open fails, and the request with it.
LEMMA OpenWriteFailsInv ==
    ASSUME DataInv, NEW w \in Workers, NEW n, NEW a, OpenWriteFails(w, n), Ends(rq[w], n, a),
           a # "denied", rq[w].pc \in {"probe", "record", "finish"}, rq[w].fp = "none",
           UNCHANGED count
    PROVE  DataInv'
<1> DEFINE d == T(w)[1]
<1>1. \/ /\ T(w)[2] # None /\ cat[d] = "none" /\ NoFault
         /\ cat' = [cat EXCEPT ![d] = "PS"]
         /\ Change(w, n, {<<d, None>>}, [data EXCEPT ![<<d, None>>] = << >>])
      \/ Go(w, n) /\ UNCHANGED held /\ (NoFault \/ Fault)
  BY Zenon DEF OpenWriteFails
<1>2. Good(rq[w], cat, data) /\ rq[w] \in Request
  BY TypedRequest
<1>3. rq[w].r # None
  BY <1>2 DEF Good, Stage
<1>4. T(w) \in Targets /\ T(w) = rq[w].r.t /\ d \in Names
  BY <1>2, <1>3, AskedFor, TargetParts DEF T
<1> HIDE DEF d
<1>5. rq[w].pc \notin DoneSteps
  BY DEF DoneSteps
<1>6. CASE Go(w, n) /\ UNCHANGED held /\ (NoFault \/ Fault)
  <2>1. Fits(rq[w], a, data, data)
    BY <1>5 DEF Fits
  <2> QED
    BY <1>6, <2>1, AnswerInv, SameHeld
<1>7. CASE /\ T(w)[2] # None /\ cat[d] = "none" /\ NoFault
           /\ cat' = [cat EXCEPT ![d] = "PS"]
           /\ Change(w, n, {<<d, None>>}, [data EXCEPT ![<<d, None>>] = << >>])
  <2>1. T(w) # <<d, None>>
    <3>1. <<d, None>>[2] = None
      OBVIOUS
    <3> QED
      BY <1>7, <3>1
  <2>2. data'[T(w)] = data[T(w)]
    BY <1>4, <1>7, <2>1 DEF Change
  <2>3. Fits(rq[w], a, data, data')
    BY <1>4, <1>5, <2>2 DEF Fits
  <2>4. rq[w].r.op # "dsCreate" => Permitted(rq[w].r)
    BY <1>2 DEF Good, Gated
  <2>5. Good(n, cat', data')
    BY <1>2, <2>3, <2>4, AnswerGood
  <2>6. Counters' /\ cat[d] # "PO"
    BY <1>7, CountersKept
  <2> QED
    BY <1>4, <1>7, <2>5, <2>6, EmptiedInv
<1> QED
  BY <1>1, <1>6, <1>7

LEMMA MbPutProbeInv ==
    ASSUME DataInv, NEW w \in Workers, MbPutProbe(w) PROVE DataInv'
<1> DEFINE q == To(w, "alloc")
           there == data[T(w)] # None
           m == [q EXCEPT !.create = TRUE, !.blind = there]
           a == OpenFailure(<<T(w)[1], None>>)
<1>1. /\ rq[w].pc = "probe" /\ rq[w].r.op = "mbPut" /\ UNCHANGED count
      /\ \/ data[T(w)] # None /\ Go(w, q) /\ UNCHANGED <<held, faults>>
         \/ OpenWriteTarget(w, m) /\ (NoFault \/ Fault)
         \/ OpenWriteFails(w, Answer(w, a))
         \/ Go(w, Answer(w, a)) /\ UNCHANGED held /\ Fault
  BY Zenon DEF MbPutProbe, At
<1>2. /\ Good(rq[w], cat, data) /\ rq[w] \in Request /\ rq[w].fp = "none" /\ ~rq[w].buf
      /\ rq[w].r # None /\ T(w) \in Targets /\ T(w) = rq[w].r.t /\ rq[w].pc \notin DoneSteps
      /\ rq[w].ans = "none"
  BY <1>1, WriteStart
<1>3. "alloc" \in Steps /\ "alloc" \notin DoneSteps
  BY DEF Steps, DoneSteps
<1>4. q \in Request /\ q.pc = "alloc" /\ q.ans = rq[w].ans /\ Alike(rq[w], q)
  BY <1>2, <1>3, MovedFields DEF To
<1>5. q.max = rq[w].max
  BY <1>2 DEF To, Request
<1>6. a \in {"404", "500", "400"}
  BY FailureTypes
<1> HIDE DEF q, a
<1>7. CASE data[T(w)] # None /\ Go(w, q) /\ UNCHANGED <<held, faults>>
  <2>1. InCatalog(q, cat)
    BY <1>2, <1>4, <1>7 DEF InCatalog, Alike, DataInv, VolumeOK, Origin
  <2>2. StepOf("alloc", "mbPut")
    BY DEF StepOf, Puts, WriteSteps, DoneSteps
  <2> QED
    BY <1>1, <1>2, <1>3, <1>4, <1>7, <2>1, <2>2, StepInv DEF Alike, NoFault, Origin
<1>8. CASE OpenWriteTarget(w, m) /\ (NoFault \/ Fault)
  <2>1. \A b, d \in BOOLEAN : LET x == [q EXCEPT !.create = b, !.blind = d] IN
          /\ x \in Request /\ x.pc = q.pc /\ x.ans = q.ans /\ x.r = q.r /\ x.was = q.was
          /\ x.n = q.n /\ x.max = q.max /\ x.buf = q.buf /\ x.framed = q.framed /\ x.create = b
          /\ x.blind = d
    <3> TAKE b, d \in BOOLEAN
    <3>1. [q EXCEPT !.create = b, !.blind = d] \in Request
      BY ONLY <1>4, b \in BOOLEAN, d \in BOOLEAN DEF Request
    <3>2. LET x == [q EXCEPT !.create = b, !.blind = d] IN
          /\ x.pc = q.pc /\ x.ans = q.ans /\ x.r = q.r /\ x.was = q.was
          /\ x.n = q.n /\ x.max = q.max /\ x.buf = q.buf /\ x.framed = q.framed
      BY ONLY <1>4, b \in BOOLEAN, d \in BOOLEAN DEF Request
    <3>3. LET x == [q EXCEPT !.create = b, !.blind = d] IN x.create = b /\ x.blind = d
      BY ONLY <1>4, b \in BOOLEAN, d \in BOOLEAN DEF Request
    <3> QED
      BY <3>1, <3>2, <3>3, Zenon
  <2>2. TRUE \in BOOLEAN /\ there \in BOOLEAN
    BY Zenon
  <2>3. /\ m \in Request /\ m.pc = q.pc /\ m.ans = q.ans /\ m.r = q.r /\ m.was = q.was
        /\ m.n = q.n /\ m.max = q.max /\ m.buf = q.buf /\ m.framed = q.framed /\ m.create
        /\ (m.blind <=> there)
    BY <2>1, <2>2, Zenon
  <2> HIDE DEF m
  <2>6. rq[w].was = data[rq[w].r.t]
    BY <1>1, <1>2 DEF Good, Kept, Harmless
  <2>4. Opens(rq[w], m)
    BY <1>2, <1>4, <1>5, <2>3, <2>6 DEF Opens, Alike, Good, Framed, Origin
  <2>5. rq[w].r.op \in Puts
    BY <1>1 DEF Puts
  <2> QED
    BY <1>1, <1>8, <2>4, <2>5, OpenWriteInv
<1>9. CASE OpenWriteFails(w, Answer(w, a))
  <2>1. a \in Answers \ {"none"} /\ a # "denied"
    BY <1>6 DEF Answers
  <2>2. Ends(rq[w], Answer(w, a), a)
    BY <1>1, <1>2, <2>1, PlainEnd DEF Answer
  <2> QED
    BY <1>1, <1>2, <1>9, <2>1, <2>2, OpenWriteFailsInv
<1>10. CASE Go(w, Answer(w, a)) /\ UNCHANGED held /\ Fault
  <2>1. a \in Answers \ {"none", "denied"}
    BY <1>6 DEF Answers
  <2> QED
    BY <1>1, <1>2, <1>10, <2>1, PlainAnswer
<1> QED
  BY <1>1, <1>7, <1>8, <1>9, <1>10


-----------------------------------------------------------------------------
(* A write, from its buffer to its answer. *)

\* The content of one target changes; the catalog does not.
LEMMA StoreInv ==
    ASSUME DataInv, NEW w \in Workers, NEW n, NEW t \in Targets, NEW s \in Seq(Stores),
           Change(w, n, {t}, [data EXCEPT ![t] = s]), UNCHANGED cat,
           cat[t[1]] = IF t[2] = None THEN "PS" ELSE "PO",
           Good(n, cat', data'), Counters'
    PROVE  DataInv'
<1> DEFINE new == [data EXCEPT ![t] = s]
<1>1. s \in Contents /\ s # None
  BY Bounds DEF Contents
<1>2. data \in [Targets -> Contents] /\ cat \in [Names -> {"none", "PS", "PO"}]
  BY DEF DataInv, VolumeOK
<1>3. Change(w, n, {t}, new) /\ new[t] = s
  BY <1>2
<1>4. data' = [u \in Targets |-> IF u \in {t} THEN new[u] ELSE data[u]]
  BY <1>3 DEF Change
<1> HIDE DEF new
<1>5. \A u \in Targets : data'[u] = IF u = t THEN s ELSE data[u]
  BY <1>3, <1>4
<1>6. data' \in [Targets -> Contents]
  BY <1>1, <1>2, <1>3, <1>4
<1>7. VolumeOK(cat', data')
  BY <1>1, <1>5, <1>6 DEF DataInv, VolumeOK
<1>8. PICK C : C = {t}
  OBVIOUS
<1>9. /\ Change(w, n, C, new) /\ C \subseteq Targets /\ \A u \in C : new[u] \in Contents
      /\ \A v \in Workers \ {w} : Tolerable(rq[v], cat, cat', C, new)
  BY <1>1, <1>3, <1>8 DEF Tolerable
<1> QED
  BY <1>7, <1>9, ChangeInv

\* The close: what is stored of a member is what was written, or part of it.
LEMMA CloseInv ==
    ASSUME DataInv, NEW w \in Workers, NEW m, NEW keep \in Nat, CloseTarget(w, m, keep),
           rq[w].r # None, UNCHANGED count, NoFault \/ Fault,
           Good([m EXCEPT !.fp = "none"], cat', data')
    PROVE  DataInv'
<1> DEFINE t == T(w)
           out == IF keep < Len(rq[w].out) THEN SubSeq(rq[w].out, 1, keep) ELSE rq[w].out
           n == [m EXCEPT !.fp = "none"]
<1>1. Good(rq[w], cat, data) /\ rq[w] \in Request /\ rq[w].out \in Seq(Stores)
  BY TypedRequest DEF Request
<1>2. \/ rq[w].fp = "write" /\ Change(w, n, {t}, [data EXCEPT ![t] = out]) /\ UNCHANGED cat
      \/ Go(w, n) /\ UNCHANGED held
  BY Zenon DEF CloseTarget
<1>3. t \in Targets /\ t = rq[w].r.t
  BY <1>1, AskedFor DEF T
<1>4. out \in Seq(Stores)
  BY <1>1
<1>5. Good(n, cat', data') /\ Counters'
  BY CountersKept
<1> HIDE DEF n, t, out
<1>6. CASE rq[w].fp = "write" /\ Change(w, n, {t}, [data EXCEPT ![t] = out]) /\ UNCHANGED cat
  <2>1. cat[t[1]] = IF t[2] = None THEN "PS" ELSE "PO"
    BY <1>3, <1>6, OpenIsCataloged
  <2> QED
    BY <1>3, <1>4, <1>5, <1>6, <2>1, StoreInv
<1>7. CASE Go(w, n) /\ UNCHANGED held
  <2>1. Good(n, cat, data)
    BY <1>5, <1>7 DEF Go
  <2> QED
    BY <1>5, <1>7, <2>1, GoInv, SameHeld
<1> QED
  BY <1>2, <1>6, <1>7

\* The write ends with an error: its file is closed.
LEMMA CloseEndInv ==
    ASSUME DataInv, NEW w \in Workers, NEW m, NEW keep \in Nat, CloseTarget(w, m, keep),
           NEW a \in {"500", "abend"}, Ends(rq[w], [m EXCEPT !.fp = "none"], a),
           rq[w].pc \in WriteSteps, UNCHANGED count, NoFault \/ Fault
    PROVE  DataInv'
<1> DEFINE n == [m EXCEPT !.fp = "none"]
<1>1. Good(rq[w], cat, data) /\ rq[w] \in Request
  BY TypedRequest
<1>2. rq[w].r # None /\ rq[w].pc \notin {"idle", "answer", "gate"} \cup DoneSteps
  BY <1>1 DEF Good, Stage, WriteSteps, DoneSteps
<1>3. rq[w].fp # "write" => data' = data
  BY DEF CloseTarget, Go
<1>4. Fits(rq[w], a, data, data')
  BY <1>2, <1>3 DEF Fits, Refusals
<1>5. rq[w].r.op # "dsCreate" => Permitted(rq[w].r)
  BY <1>1, <1>2 DEF Good, Gated
<1>6. Ends(rq[w], n, a) /\ a # "denied"
  OBVIOUS
<1> HIDE DEF n
<1>7. Good(n, cat', data')
  BY <1>1, <1>2, <1>4, <1>5, <1>6, AnswerGood
<1> QED
  BY <1>2, <1>7, CloseInv DEF n

\* The buffer is got, or freed.
LEMMA BufFields ==
    ASSUME NEW q \in Request
    PROVE  /\ LET n == [q EXCEPT !.buf = TRUE] IN
              /\ n \in Request /\ n.pc = q.pc /\ n.ans = q.ans /\ n.r = q.r /\ n.was = q.was
              /\ n.fp = q.fp /\ n.n = q.n /\ n.framed = q.framed /\ n.max = q.max
              /\ Origin(q, n) /\ n.gone = q.gone
           /\ LET n == [q EXCEPT !.buf = FALSE] IN
              /\ n \in Request /\ n.pc = q.pc /\ n.ans = q.ans /\ n.r = q.r /\ n.was = q.was
              /\ n.fp = q.fp /\ n.n = q.n /\ n.framed = q.framed /\ n.max = q.max
              /\ Origin(q, n) /\ n.gone = q.gone /\ ~n.buf
<1>1. \A b \in BOOLEAN : LET n == [q EXCEPT !.buf = b] IN
        /\ n \in Request /\ n.pc = q.pc /\ n.ans = q.ans /\ n.r = q.r /\ n.was = q.was
        /\ n.fp = q.fp /\ n.n = q.n /\ n.framed = q.framed /\ n.max = q.max
        /\ Origin(q, n) /\ n.gone = q.gone /\ n.buf = b
  BY DEF Request, Origin
<1>2. TRUE \in BOOLEAN /\ FALSE \in BOOLEAN
  BY Zenon
<1> QED
  BY <1>1, <1>2, Zenon

\* The answer of a write that failed.
LEMMA FreedEnd ==
    ASSUME DataInv, NEW w \in Workers, rq[w].pc \in WriteSteps
    PROVE  LET m == [Answer(w, "500") EXCEPT !.buf = FALSE] IN
           /\ Ends(rq[w], [m EXCEPT !.fp = "none"], "500")
           /\ rq[w].fp = "none" => Ends(rq[w], m, "500")
<1>1. Good(rq[w], cat, data) /\ rq[w] \in Request
  BY TypedRequest
<1> DEFINE q == Answer(w, "500")
           m == [q EXCEPT !.buf = FALSE]
           n == [m EXCEPT !.fp = "none"]
<1>2. "500" \in Answers
  BY DEF Answers
<1>3. q \in Request /\ q.pc = "answer" /\ q.ans = "500" /\ Alike(rq[w], q)
  BY <1>1, <1>2, AnsweredFields DEF Answer
<1> HIDE DEF q
<1>4. /\ m \in Request /\ m.pc = q.pc /\ m.ans = q.ans /\ m.r = q.r /\ m.was = q.was
      /\ m.fp = q.fp /\ m.n = q.n /\ m.framed = q.framed /\ m.max = q.max
      /\ Origin(q, m) /\ m.gone = q.gone /\ ~m.buf
  BY <1>3, BufFields
<1> HIDE DEF m
<1>5. /\ n \in Request /\ n.fp = "none" /\ n.pc = m.pc /\ n.ans = m.ans /\ n.r = m.r
      /\ n.was = m.was /\ n.n = m.n /\ n.buf = m.buf /\ n.framed = m.framed
      /\ Origin(m, n) /\ n.gone = m.gone /\ n.max = m.max
  BY <1>4, FileFields
<1> HIDE DEF n
<1>6. Ends(rq[w], n, "500") /\ (rq[w].fp = "none" => Ends(rq[w], m, "500"))
  BY <1>3, <1>4, <1>5 DEF Ends, Alike, Origin
<1> QED
  BY <1>6 DEF n, m, q

LEMMA PutFailsInv ==
    ASSUME DataInv, NEW w \in Workers, PutFails(w), rq[w].pc \in WriteSteps, UNCHANGED count, Fault
    PROVE  DataInv'
<1>1. Len(rq[w].out) \in Nat
  BY TypedRequest DEF Request
<1> DEFINE m == [Answer(w, "500") EXCEPT !.buf = FALSE]
<1>2. CloseTarget(w, m, Len(rq[w].out)) /\ Ends(rq[w], [m EXCEPT !.fp = "none"], "500")
  BY FreedEnd DEF PutFails
<1> HIDE DEF m
<1> QED
  BY <1>1, <1>2, CloseEndInv


\* What every step of a write knows.
LEMMA Writing ==
    ASSUME DataInv, NEW w \in Workers, rq[w].pc \in WriteSteps \cup DoneSteps
    PROVE  /\ Good(rq[w], cat, data) /\ rq[w] \in Request /\ rq[w].r # None
           /\ rq[w].r.op \in Puts /\ rq[w].ans = "none" /\ rq[w].fp \in {"none", "write"}
           /\ T(w) \in Targets /\ T(w) = rq[w].r.t /\ rq[w].r.body \in Seq(Recs)
           /\ rq[w].pc \notin {"idle", "answer", "gate"}
           /\ rq[w].n \in Nat /\ rq[w].out \in Seq(Stores)
<1>1. Good(rq[w], cat, data) /\ rq[w] \in Request /\ rq[w].n \in Nat /\ rq[w].out \in Seq(Stores)
  BY TypedRequest DEF Request
<1>2. rq[w].pc \notin {"idle", "answer", "gate", "read", "act"}
  BY DEF WriteSteps, DoneSteps
<1>3. rq[w].r # None /\ rq[w].ans = "none" /\ rq[w].fp \in {"none", "write"} /\ rq[w].r.op \in Puts
  BY <1>1, <1>2 DEF Good, Stage, Request, StepOf
<1>4. T(w) \in Targets /\ T(w) = rq[w].r.t /\ rq[w].r.body \in Seq(Recs)
  BY <1>1, <1>3, AskedFor, Asked DEF T
<1> QED
  BY <1>1, <1>2, <1>3, <1>4

\* A step between the buffer and the end of the body.
LEMMA WriteOn ==
    ASSUME DataInv, NEW w \in Workers, NEW n, Go(w, n), rq[w].pc \in {"alloc", "body"},
           n \in Request, n.r = rq[w].r, n.was = rq[w].was, n.max = rq[w].max, n.fp = rq[w].fp,
           n.n = rq[w].n, Origin(rq[w], n), n.gone = rq[w].gone, n.ans = rq[w].ans,
           n.pc \in {"body", "record", "finish"}, n.buf => n.pc \in {"body", "record"},
           rq[w].framed => n.framed,
           n.pc = "record" => n.framed /\ n.n < Len(n.r.body),
           n.pc = "finish" => n.framed \/ n.r.body = << >>,
           UNCHANGED <<count, held>>, NoFault \/ Fault
    PROVE  DataInv'
<1>0. rq[w].pc \in WriteSteps /\ n.pc \in WriteSteps /\ n.pc \notin DoneSteps
      /\ rq[w].pc \notin DoneSteps
  BY DEF WriteSteps, DoneSteps
<1>1. /\ Good(rq[w], cat, data) /\ rq[w] \in Request /\ rq[w].r # None
      /\ rq[w].r.op \in Puts /\ rq[w].ans = "none" /\ rq[w].fp \in {"none", "write"}
  BY <1>0, Writing
<1>2. Stage(n)
  BY <1>0, <1>1 DEF Stage, StepOf
<1>3. Framed(n)
  BY <1>0, <1>1 DEF Good, Framed, Origin
<1>4. InCatalog(n, cat)
  BY <1>1 DEF Good, InCatalog
<1> QED
  BY <1>0, <1>1, <1>2, <1>3, <1>4, OnwardInv

LEMMA PutAllocInv ==
    ASSUME DataInv, NEW w \in Workers, PutAlloc(w) PROVE DataInv'
<1> DEFINE q == To(w, "body")
           n == [q EXCEPT !.buf = TRUE]
<1>1. /\ rq[w].pc = "alloc" /\ UNCHANGED count
      /\ \/ Go(w, n) /\ UNCHANGED <<held, faults>>
         \/ PutFails(w) /\ Fault
  BY Zenon DEF PutAlloc
<1>2. "alloc" \in WriteSteps
  BY DEF WriteSteps
<1>3. rq[w] \in Request
  BY TypedRequest
<1>4. q \in Request /\ q.pc = "body" /\ q.ans = rq[w].ans /\ Alike(rq[w], q)
  BY <1>3, MovedFields DEF To, Steps
<1>5. q.max = rq[w].max
  BY <1>3 DEF To, Request
<1> HIDE DEF q
<1>6. /\ n \in Request /\ n.pc = q.pc /\ n.ans = q.ans /\ n.r = q.r /\ n.was = q.was
      /\ n.fp = q.fp /\ n.n = q.n /\ n.framed = q.framed /\ n.max = q.max
      /\ Origin(q, n) /\ n.gone = q.gone
  BY <1>4, BufFields
<1> HIDE DEF n
<1>7. CASE Go(w, n) /\ UNCHANGED <<held, faults>>
  BY <1>1, <1>4, <1>5, <1>6, <1>7, WriteOn DEF Alike, NoFault, Origin
<1>8. CASE PutFails(w) /\ Fault
  BY <1>1, <1>2, <1>8, PutFailsInv
<1> QED
  BY <1>1, <1>7, <1>8

LEMMA PutFrameInv ==
    ASSUME DataInv, NEW w \in Workers, NEW op, PutFrame(w, op) PROVE DataInv'
<1> DEFINE q == To(w, "record")
           n == [q EXCEPT !.framed = TRUE]
<1>1. /\ rq[w].pc = "body" /\ UNCHANGED count /\ rq[w].n < Len(rq[w].r.body)
      /\ \/ Go(w, n) /\ UNCHANGED <<held, faults>>
         \/ PutFails(w) /\ Fault
  BY Zenon DEF PutFrame, At, R
<1>2. "body" \in WriteSteps
  BY DEF WriteSteps
<1>3. rq[w] \in Request
  BY TypedRequest
<1>4. q \in Request /\ q.pc = "record" /\ q.ans = rq[w].ans /\ Alike(rq[w], q)
  BY <1>3, MovedFields DEF To, Steps
<1>5. q.max = rq[w].max
  BY <1>3 DEF To, Request
<1> HIDE DEF q
<1>6. \A b \in BOOLEAN : LET x == [q EXCEPT !.framed = b] IN
        /\ x \in Request /\ x.pc = q.pc /\ x.ans = q.ans /\ x.r = q.r /\ x.was = q.was
        /\ x.fp = q.fp /\ x.n = q.n /\ x.framed = b /\ x.max = q.max
        /\ Origin(q, x) /\ x.gone = q.gone
  BY <1>4 DEF Request, Origin
<1>7. TRUE \in BOOLEAN
  BY Zenon
<1>8. /\ n \in Request /\ n.pc = q.pc /\ n.ans = q.ans /\ n.r = q.r /\ n.was = q.was
      /\ n.fp = q.fp /\ n.n = q.n /\ n.framed /\ n.max = q.max
      /\ Origin(q, n) /\ n.gone = q.gone
  BY <1>6, <1>7, Zenon
<1> HIDE DEF n
<1>9. CASE Go(w, n) /\ UNCHANGED <<held, faults>>
  BY <1>1, <1>4, <1>5, <1>8, <1>9, WriteOn DEF Alike, NoFault, Origin
<1>10. CASE PutFails(w) /\ Fault
  BY <1>1, <1>2, <1>10, PutFailsInv
<1> QED
  BY <1>1, <1>9, <1>10

LEMMA PutBodyEndInv ==
    ASSUME DataInv, NEW w \in Workers, NEW op, PutBodyEnd(w, op) PROVE DataInv'
<1> DEFINE q == To(w, "finish")
           n == [q EXCEPT !.buf = FALSE]
<1>1. /\ rq[w].pc = "body" /\ UNCHANGED count /\ rq[w].n = Len(rq[w].r.body)
      /\ \/ Go(w, n) /\ UNCHANGED <<held, faults>>
         \/ PutFails(w) /\ Fault
  BY Zenon DEF PutBodyEnd, At, R
<1>2. "body" \in WriteSteps
  BY DEF WriteSteps
<1>3. /\ rq[w] \in Request /\ rq[w].r.body \in Seq(Recs) /\ Good(rq[w], cat, data)
      /\ rq[w].n \in Nat
  BY <1>1, <1>2, Writing
<1>4. q \in Request /\ q.pc = "finish" /\ q.ans = rq[w].ans /\ Alike(rq[w], q)
  BY <1>3, MovedFields DEF To, Steps
<1>5. q.max = rq[w].max
  BY <1>3 DEF To, Request
<1> HIDE DEF q
<1>6. /\ n \in Request /\ n.pc = q.pc /\ n.ans = q.ans /\ n.r = q.r /\ n.was = q.was
      /\ n.fp = q.fp /\ n.n = q.n /\ n.framed = q.framed /\ n.max = q.max
      /\ Origin(q, n) /\ n.gone = q.gone /\ ~n.buf
  BY <1>4, BufFields
<1> HIDE DEF n
<1>7. rq[w].framed \/ rq[w].r.body = << >>
  <2>1. CASE rq[w].n > 0
    BY <1>3, <2>1 DEF Good, Framed, Origin
  <2>2. CASE rq[w].n = 0
    BY <1>1, <1>3, <2>2, EmptySeq
  <2> QED
    BY <1>3, <2>1, <2>2
<1>8. CASE Go(w, n) /\ UNCHANGED <<held, faults>>
  BY <1>1, <1>4, <1>5, <1>6, <1>7, <1>8, WriteOn DEF Alike, NoFault, Origin
<1>9. CASE PutFails(w) /\ Fault
  BY <1>1, <1>2, <1>9, PutFailsInv
<1> QED
  BY <1>1, <1>8, <1>9

LEMMA PutOpenInv ==
    ASSUME DataInv, NEW w \in Workers, PutOpen(w) PROVE DataInv'
<1> DEFINE m == [Answer(w, "500") EXCEPT !.buf = FALSE]
<1>1. /\ rq[w].pc = "record" /\ rq[w].fp = "none" /\ UNCHANGED count
      /\ \/ OpenWriteTarget(w, rq[w]) /\ NoFault
         \/ OpenWriteFails(w, m)
  BY Zenon DEF PutOpen
<1>2. "record" \in WriteSteps
  BY DEF WriteSteps
<1>3. /\ Good(rq[w], cat, data) /\ rq[w] \in Request /\ rq[w].r.op \in Puts /\ rq[w].ans = "none"
  BY <1>1, <1>2, Writing
<1>4. Opens(rq[w], rq[w])
  BY <1>1, <1>3, Uncreated DEF Opens, Good, Framed, Origin, DoneSteps
<1>5. Ends(rq[w], m, "500")
  BY <1>1, <1>2, FreedEnd
<1> HIDE DEF m
<1> QED
  BY <1>1, <1>3, <1>4, <1>5, OpenWriteInv, OpenWriteFailsInv

LEMMA PutFinishInv ==
    ASSUME DataInv, NEW w \in Workers, PutFinish(w) PROVE DataInv'
<1>1. /\ rq[w].pc = "finish" /\ UNCHANGED count
      /\ \/ rq[w].fp = "write" /\ Go(w, To(w, "close")) /\ UNCHANGED <<held, faults>>
         \/ rq[w].fp = "none" /\ OpenWriteTarget(w, To(w, "close")) /\ NoFault
         \/ rq[w].fp = "none" /\ OpenWriteFails(w, Answer(w, "500"))
  BY Zenon DEF PutFinish
<1>2. "finish" \in WriteSteps
  BY DEF WriteSteps
<1>3. /\ Good(rq[w], cat, data) /\ rq[w] \in Request /\ rq[w].r.op \in Puts /\ rq[w].ans = "none"
      /\ rq[w].r # None /\ ~rq[w].buf
  BY <1>1, <1>2, Writing DEF Good, Stage
<1> DEFINE n == To(w, "close")
<1>4. n \in Request /\ n.pc = "close" /\ n.ans = rq[w].ans /\ Alike(rq[w], n)
  BY <1>3, MovedFields DEF To, Steps
<1>5. n.max = rq[w].max
  BY <1>3 DEF To, Request
<1>6. \/ rq[w].fp = "write" /\ Go(w, n) /\ UNCHANGED <<held, faults>>
      \/ rq[w].fp = "none" /\ OpenWriteTarget(w, n) /\ NoFault
      \/ rq[w].fp = "none" /\ OpenWriteFails(w, Answer(w, "500"))
  BY <1>1
<1> HIDE DEF n
<1>7. CASE rq[w].fp = "write" /\ Go(w, n) /\ UNCHANGED <<held, faults>>
  <2>1. Stage(n)
    BY <1>3, <1>4, <1>7 DEF Stage, Alike, StepOf, WriteSteps, DoneSteps, Origin
  <2>2. Framed(n) /\ InCatalog(n, cat)
    BY <1>1, <1>3, <1>4, <1>7 DEF Good, Framed, InCatalog, Alike, DoneSteps, Origin
  <2> QED
    BY <1>1, <1>4, <1>5, <1>7, <2>1, <2>2, OnwardInv DEF Alike, NoFault, Origin
<1>8. CASE rq[w].fp = "none" /\ OpenWriteTarget(w, n) /\ NoFault
  <2>1. Opens(rq[w], n)
    BY <1>1, <1>3, <1>4, <1>5, <1>8, Uncreated DEF Opens, Good, Framed, Alike, Origin, DoneSteps
  <2> QED
    BY <1>1, <1>3, <1>8, <2>1, OpenWriteInv
<1>9. CASE rq[w].fp = "none" /\ OpenWriteFails(w, Answer(w, "500"))
  <2>1. "500" \in Answers \ {"none"}
    BY DEF Answers
  <2>2. Ends(rq[w], Answer(w, "500"), "500")
    BY <1>1, <1>3, <1>9, <2>1, PlainEnd DEF Answer
  <2> QED
    BY <1>1, <1>9, <2>2, OpenWriteFailsInv
<1> QED
  BY <1>6, <1>7, <1>8, <1>9


\* The record that is written, and where.
LEMMA RecordTypes ==
    ASSUME NEW body \in Seq(Recs), NEW n \in 1 .. Len(body)
    PROVE  /\ Stored(body)[n] \in Stores /\ Broken \in Stores
           /\ \A rec \in Stores, s \in Seq(Stores) : WriteAt(s, n, rec) \in Seq(Stores)
<1>1. Stored(body) \in Seq(Stores)
  BY StoredTypes
<1>2. DOMAIN Stored(body) = DOMAIN body /\ DOMAIN body = 1 .. Len(body)
  BY DEF Stored
<1>3. Stored(body) \in [1 .. Len(Stored(body)) -> Stores]
  BY <1>1
<1>4. Stored(body)[n] \in Stores
  BY <1>2, <1>3
<1>6. Residue \in Stores /\ Broken \in Stores
  <2>1. \A b \in BOOLEAN : [rec |-> None, cut |-> b] \in Stores
    BY DEF Stores
  <2>2. FALSE \in BOOLEAN /\ TRUE \in BOOLEAN
    BY Zenon
  <2> QED
    BY <2>1, <2>2, Zenon DEF Residue, Broken
<1>7. ASSUME NEW rec \in Stores, NEW s \in Seq(Stores) PROVE WriteAt(s, n, rec) \in Seq(Stores)
  <2>1. WriteAt(s, n, rec) \in [1 .. n -> Stores]
    BY <1>6 DEF WriteAt
  <2>2. n \in Nat
    OBVIOUS
  <2> QED
    BY <2>1, <2>2, SeqDef
<1> QED
  BY <1>4, <1>6, <1>7

\* The step that writes the record rec.
RecordAt(w, k, rec) ==
    LET q == To(w, "body")
        n == [q EXCEPT !.n = k, !.out = Append(q.out, rec),
                       !.cut = q.cut \/ R(w).body[k] \in Long]
    IN  /\ rec = Stored(R(w).body)[k] \/ (T(w)[1] \in Spanned /\ rec = Broken)
        /\ \/ /\ T(w)[2] = None
              /\ Change(w, n, {T(w)}, [data EXCEPT ![T(w)] = WriteAt(data[T(w)], k, rec)])
              /\ UNCHANGED cat
           \/ T(w)[2] # None /\ Go(w, n) /\ UNCHANGED held

LEMMA PutRecordInv ==
    ASSUME DataInv, NEW w \in Workers, PutRecord(w) PROVE DataInv'
<1> DEFINE k == rq[w].n + 1
           q == To(w, "body")
           long == R(w).body[k] \in Long
<1>1. /\ rq[w].pc = "record" /\ rq[w].fp = "write" /\ UNCHANGED count
      /\ \/ WriteRecord(w, k) /\ NoFault
         \/ PutFails(w) /\ Fault
  BY Zenon DEF PutRecord
<1>2. "record" \in WriteSteps /\ "body" \in WriteSteps
  BY DEF WriteSteps
<1>3. /\ Good(rq[w], cat, data) /\ rq[w] \in Request /\ rq[w].r.op \in Puts /\ rq[w].ans = "none"
      /\ rq[w].r # None /\ rq[w].r.body \in Seq(Recs) /\ rq[w].n \in Nat
      /\ T(w) \in Targets /\ T(w) = rq[w].r.t
  BY <1>1, <1>2, Writing
<1>4. CASE PutFails(w) /\ Fault
  BY <1>1, <1>2, <1>4, PutFailsInv
<1>5. CASE WriteRecord(w, k) /\ NoFault
  <2>1. k \in 1 .. Len(rq[w].r.body) /\ k \in Nat /\ rq[w].framed
    BY <1>1, <1>3 DEF Good, Framed, Origin
  <2>0. /\ Stored(R(w).body)[k] \in Stores /\ Broken \in Stores
        /\ \A rec \in Stores, s \in Seq(Stores) : WriteAt(s, k, rec) \in Seq(Stores)
    BY <1>3, <2>1, RecordTypes DEF R
  <2>2. PICK rec \in Stores : RecordAt(w, k, rec)
    BY <1>5, <2>0, Zenon DEF WriteRecord, RecordAt
  <2> DEFINE n == [q EXCEPT !.n = k, !.out = Append(q.out, rec), !.cut = q.cut \/ long]
  <2>3. \/ /\ T(w)[2] = None
           /\ Change(w, n, {T(w)}, [data EXCEPT ![T(w)] = WriteAt(data[T(w)], k, rec)])
           /\ UNCHANGED cat
        \/ Go(w, n) /\ UNCHANGED held
    BY <2>2, Zenon DEF RecordAt
  <2>4. q \in Request /\ q.pc = "body" /\ q.ans = rq[w].ans /\ Alike(rq[w], q)
    BY <1>3, MovedFields DEF To, Steps
  <2>5. q.max = rq[w].max
    BY <1>3 DEF To, Request
  <2> HIDE DEF k, q, long
  <2>6. Append(q.out, rec) \in Seq(Stores)
    BY <2>2, <2>4 DEF Request
  <2>7. ASSUME NEW b \in BOOLEAN, NEW o \in Seq(Stores)
        PROVE  LET x == [q EXCEPT !.n = k, !.out = o, !.cut = b] IN
               /\ x \in Request /\ x.pc = q.pc /\ x.ans = q.ans /\ x.r = q.r /\ x.was = q.was
               /\ x.fp = q.fp /\ x.n = k /\ x.framed = q.framed /\ x.max = q.max
               /\ Origin(q, x) /\ x.gone = q.gone
    BY <2>1, <2>4 DEF Request, Origin
  <2>13. (q.cut \/ long) \in BOOLEAN
    BY <2>4 DEF Request, long
  <2>8. /\ n \in Request /\ n.pc = q.pc /\ n.ans = q.ans /\ n.r = q.r /\ n.was = q.was
        /\ n.fp = q.fp /\ n.n = k /\ n.framed = q.framed /\ n.max = q.max
        /\ Origin(q, n) /\ n.gone = q.gone
    BY <2>6, <2>7, <2>13, Zenon
  <2> HIDE DEF n
  <2>9. Good(n, cat, data')
    <3>1. Stage(n)
      BY <1>1, <1>2, <1>3, <2>4, <2>8 DEF Stage, Alike, StepOf, DoneSteps, Origin
    <3>2. Framed(n) /\ InCatalog(n, cat)
      BY <1>1, <1>3, <2>1, <2>4, <2>8 DEF Good, Framed, InCatalog, Alike, DoneSteps, Origin
    <3> QED
      BY <1>1, <1>3, <2>4, <2>5, <2>8, <3>1, <3>2, OnwardGood DEF Alike, Origin
  <2>10. Counters'
    BY <1>1, <1>5, CountersKept
  <2>11. CASE /\ T(w)[2] = None
              /\ Change(w, n, {T(w)}, [data EXCEPT ![T(w)] = WriteAt(data[T(w)], k, rec)])
              /\ UNCHANGED cat
    <3>1. cat[T(w)[1]] = "PS"
      BY <1>1, <1>3, <2>11, OpenIsCataloged
    <3>2. data[T(w)] \in Seq(Stores)
      BY <1>3, <2>11, <3>1 DEF DataInv, VolumeOK, Contents
    <3>3. PICK s \in Seq(Stores) : s = WriteAt(data[T(w)], k, rec)
      BY <2>0, <3>2
    <3>4. Change(w, n, {T(w)}, [data EXCEPT ![T(w)] = s]) /\ Good(n, cat', data')
      BY <2>9, <2>11, <3>3, Zenon
    <3> QED
      BY <1>3, <2>10, <2>11, <3>1, <3>4, StoreInv
  <2>12. CASE Go(w, n) /\ UNCHANGED held
    <3>1. Good(n, cat, data)
      BY <2>9, <2>12 DEF Go
    <3> QED
      BY <2>10, <2>12, <3>1, GoInv, SameHeld
  <2> QED
    BY <2>3, <2>11, <2>12
<1> QED
  BY <1>1, <1>4, <1>5

\* The close of a write that ends: the answer has no buffer by now.
LEMMA CloseAnswer ==
    ASSUME DataInv, NEW w \in Workers, NEW a \in {"500", "abend"}, rq[w].pc \in WriteSteps,
           rq[w].buf => a = "abend"
    PROVE  Ends(rq[w], [Answer(w, a) EXCEPT !.fp = "none"], a)
<1> DEFINE q == Answer(w, a)
           n == [q EXCEPT !.fp = "none"]
<1>1. rq[w] \in Request
  BY TypedRequest
<1>2. a \in Answers
  BY DEF Answers
<1>3. q \in Request /\ q.pc = "answer" /\ q.ans = a /\ Alike(rq[w], q)
  BY <1>1, <1>2, AnsweredFields DEF Answer
<1> HIDE DEF q
<1>4. /\ n \in Request /\ n.fp = "none" /\ n.pc = q.pc /\ n.ans = q.ans /\ n.r = q.r
      /\ n.was = q.was /\ n.n = q.n /\ n.buf = q.buf /\ n.framed = q.framed
      /\ Origin(q, n) /\ n.gone = q.gone /\ n.max = q.max
  BY <1>3, FileFields
<1> HIDE DEF n
<1>5. Ends(rq[w], n, a)
  BY <1>3, <1>4 DEF Ends, Alike, Origin
<1> QED
  BY <1>5 DEF n, q

LEMMA PutCloseInv ==
    ASSUME DataInv, NEW w \in Workers, PutClose(w) PROVE DataInv'
<1>1. /\ rq[w].pc = "close" /\ UNCHANGED count
      /\ \/ CloseTarget(w, To(w, "written"), Len(rq[w].out)) /\ NoFault
         \/ \E k \in 0 .. Len(rq[w].out) : CloseTarget(w, Answer(w, "500"), k) /\ Fault
  BY Zenon DEF PutClose
<1>2. "close" \in WriteSteps
  BY DEF WriteSteps
<1>3. /\ Good(rq[w], cat, data) /\ rq[w] \in Request /\ rq[w].r.op \in Puts /\ rq[w].ans = "none"
      /\ rq[w].r # None /\ ~rq[w].buf /\ Len(rq[w].out) \in Nat
  BY <1>1, <1>2, Writing DEF Good, Stage
<1>4. CASE CloseTarget(w, To(w, "written"), Len(rq[w].out)) /\ NoFault
  <2> DEFINE q == To(w, "written")
             n == [q EXCEPT !.fp = "none"]
  <2>1. q \in Request /\ q.pc = "written" /\ q.ans = rq[w].ans /\ Alike(rq[w], q)
    BY <1>3, MovedFields DEF To, Steps
  <2>2. CloseTarget(w, q, Len(rq[w].out))
    BY <1>4
  <2> HIDE DEF q
  <2>3. /\ n \in Request /\ n.fp = "none" /\ n.pc = q.pc /\ n.ans = q.ans /\ n.r = q.r
        /\ n.was = q.was /\ n.n = q.n /\ n.buf = q.buf /\ n.framed = q.framed
        /\ Origin(q, n) /\ n.gone = q.gone /\ n.max = q.max
    BY <2>1, FileFields
  <2> HIDE DEF n
  <2>4. Stage(n)
    BY <1>3, <2>1, <2>3 DEF Stage, Alike, StepOf, WriteSteps, DoneSteps, Origin
  <2>5. Framed(n) /\ InCatalog(n, cat')
    BY <1>1, <1>3, <2>1, <2>3 DEF Good, Framed, InCatalog, Alike, DoneSteps, Origin
  <2>6. n.pc \in DoneSteps
    BY <2>1, <2>3 DEF DoneSteps
  <2>7. Good(n, cat', data')
    BY <1>1, <1>3, <2>1, <2>3, <2>4, <2>5, <2>6, OnwardGood DEF Alike, Origin
  <2> QED
    BY <1>1, <1>3, <1>4, <2>2, <2>7, CloseInv DEF n
<1>5. ASSUME NEW k \in 0 .. Len(rq[w].out), CloseTarget(w, Answer(w, "500"), k), Fault
      PROVE  DataInv'
  <2>1. k \in Nat
    BY <1>3
  <2>2. Ends(rq[w], [Answer(w, "500") EXCEPT !.fp = "none"], "500")
    BY <1>1, <1>2, <1>3, CloseAnswer
  <2> QED
    BY <1>1, <1>2, <1>5, <2>1, <2>2, CloseEndInv
<1> QED
  BY <1>1, <1>4, <1>5

LEMMA PutAbendInv ==
    ASSUME DataInv, NEW w \in Workers, PutAbend(w) PROVE DataInv'
<1>1. /\ rq[w].pc \in {"record", "close"} /\ UNCHANGED count /\ Fault
      /\ CloseTarget(w, Answer(w, "abend"), Len(rq[w].out))
  BY DEF PutAbend
<1>2. rq[w].pc \in WriteSteps
  BY <1>1 DEF WriteSteps
<1>3. Len(rq[w].out) \in Nat
  BY <1>2, Writing
<1>4. Ends(rq[w], [Answer(w, "abend") EXCEPT !.fp = "none"], "abend")
  BY <1>2, CloseAnswer
<1> QED
  BY <1>1, <1>2, <1>3, <1>4, CloseEndInv

\* The answer of a write whose body is stored.
LEMMA DoneAnswer ==
    ASSUME DataInv, NEW w \in Workers, rq[w].pc \in DoneSteps, NEW a \in {"500", "204", "abend"},
           Go(w, Answer(w, a)), UNCHANGED <<count, held>>, NoFault \/ Fault
    PROVE  DataInv'
<1>1. rq[w].pc \notin {"idle", "answer", "gate", "body", "record"} \cup WriteSteps
  BY DEF DoneSteps, WriteSteps
<1>2. rq[w].fp = "none"
  BY <1>1, Writing DEF Good, Stage
<1>3. a \in Answers \ {"none", "denied"} /\ a \notin Refusals
  BY DEF Answers, Refusals
<1> QED
  BY <1>1, <1>2, <1>3, PlainAnswer

LEMMA DoneStep ==
    ASSUME DataInv, NEW w \in Workers, rq[w].pc \in DoneSteps, NEW n, Go(w, n),
           n \in Request, Alike(rq[w], n), n.ans = rq[w].ans, n.pc \in DoneSteps,
           UNCHANGED <<count, held>>, NoFault \/ Fault
    PROVE  DataInv'
<1>1. rq[w].pc \notin {"idle", "answer", "gate", "body", "record"} \cup WriteSteps
      /\ n.pc \notin {"idle", "answer", "gate", "record", "finish", "close"}
  BY DEF DoneSteps, WriteSteps
<1>2. rq[w].fp = "none" /\ rq[w].r.op \in Puts
  BY <1>1, Writing DEF Good, Stage
<1>3. StepOf(n.pc, rq[w].r.op)
  BY <1>2 DEF StepOf, DoneSteps
<1>4. InCatalog(n, cat)
  BY <1>2 DEF InCatalog, Alike, DoneSteps, Origin
<1> QED
  BY <1>1, <1>2, <1>3, <1>4, StepInv DEF Alike, Origin

LEMMA PutWrittenInv ==
    ASSUME DataInv, NEW w \in Workers, NEW op, NEW hash \in {"scount", "stamp"},
           PutWritten(w, op, hash)
    PROVE  DataInv'
<1>1. /\ rq[w].pc = "written" /\ UNCHANGED <<count, held>> /\ NoFault
      /\ \/ \E a \in {"500", "204"} : Go(w, Answer(w, a))
         \/ Go(w, To(w, hash))
  BY Zenon DEF PutWritten, At, Same, NoFault
<1>2. "written" \in DoneSteps /\ hash \in DoneSteps /\ hash \in Steps
  BY DEF DoneSteps, Steps
<1> DEFINE n == To(w, hash)
<1>3. n \in Request /\ n.pc = hash /\ n.ans = rq[w].ans /\ Alike(rq[w], n)
  BY <1>2, TypedRequest, MovedFields DEF To
<1>4. Go(w, n) \/ \E a \in {"500", "204"} : Go(w, Answer(w, a))
  BY <1>1
<1> HIDE DEF n
<1> QED
  BY <1>1, <1>2, <1>3, <1>4, DoneStep, DoneAnswer

LEMMA DsPutStampCountInv ==
    ASSUME DataInv, NEW w \in Workers, DsPutStampCount(w) PROVE DataInv'
<1> DEFINE m == FbRecordCount(T(w))
           q == To(w, "stamp")
           n == [q EXCEPT !.max = m]
<1>1. rq[w].pc = "scount" /\ rq[w].r.op = "dsPut" /\ Go(w, n) /\ UNCHANGED <<count, held>> /\ NoFault
  BY Zenon DEF DsPutStampCount, At, Same, NoFault
<1>2. "scount" \in DoneSteps /\ "stamp" \in DoneSteps
  BY DEF DoneSteps
<1>3. rq[w] \in Request /\ rq[w].r # None /\ T(w) \in Targets
  BY <1>1, <1>2, Writing
<1>4. m \in Int /\ rq[w].r.t[2] = None
  BY <1>1, <1>3, AskedFor, CountTypes
<1>5. q \in Request /\ q.pc = "stamp" /\ q.ans = rq[w].ans /\ Alike(rq[w], q)
  BY <1>3, MovedFields DEF To, Steps
<1> HIDE DEF m, q
<1>6. n \in Request /\ n.pc = q.pc /\ n.ans = q.ans /\ Alike(q, n)
  BY <1>4, <1>5, MaxFields DEF Alike, Origin
<1> HIDE DEF n
<1>7. Alike(rq[w], n)
  BY <1>5, <1>6 DEF Alike, Origin
<1> QED
  BY <1>1, <1>2, <1>5, <1>6, <1>7, DoneStep

LEMMA PutStampInv ==
    ASSUME DataInv, NEW w \in Workers, PutStamp(w) PROVE DataInv'
<1> DEFINE a == Answer(w, "204")
           s == DatasetEtag(w)
           n == [a EXCEPT !.stamp = s]
           m == [a EXCEPT !.err = TRUE]
<1>1. rq[w].pc = "stamp" /\ Etag(w, n, a)
  BY Zenon DEF PutStamp
<1>2. /\ UNCHANGED <<count, held>>
      /\ \/ Go(w, n) /\ NoFault
         \/ Go(w, Answer(w, "abend")) /\ NoFault
         \/ Go(w, m) /\ Fault
  BY <1>1, EtagSteps, Zenon
<1>3. rq[w].pc \in DoneSteps /\ rq[w].pc \notin WriteSteps
  BY <1>1 DEF DoneSteps, WriteSteps
<1>4. /\ rq[w] \in Request /\ rq[w].r # None /\ rq[w].fp = "none" /\ ~rq[w].buf
  BY <1>1, <1>3, Writing DEF Good, Stage
<1>5. s \in Contents /\ "204" \in Answers
  BY <1>4, EtagTypes DEF Answers
<1>6. a \in Request /\ a.pc = "answer" /\ a.ans = "204" /\ Alike(rq[w], a)
  BY <1>4, <1>5, AnsweredFields DEF Answer
<1> HIDE DEF a, s
<1>7. n \in Request /\ n.pc = a.pc /\ n.ans = a.ans /\ Alike(a, n)
  BY <1>5, <1>6, StampFields
<1>8. m \in Request /\ m.pc = a.pc /\ m.ans = a.ans /\ Alike(a, m)
  BY <1>6, ErrFields
<1> HIDE DEF n, m
<1>9. Ends(rq[w], n, "204") /\ Ends(rq[w], m, "204")
  BY <1>4, <1>6, <1>7, <1>8 DEF Ends, Alike, Origin
<1>10. Fits(rq[w], "204", data, data)
  BY <1>3 DEF Fits, Refusals
<1>11. CASE Go(w, Answer(w, "abend")) /\ NoFault
  BY <1>2, <1>3, <1>11, DoneAnswer
<1> QED
  BY <1>1, <1>2, <1>9, <1>10, <1>11, AnswerInv, SameHeld

LEMMA WriteInv ==
    ASSUME DataInv, NEW w \in Workers, Write(w) PROVE DataInv'
<1>1. CASE DsPutCount(w)
  <2>1. "match" \in Steps
    BY DEF Steps
  <2> QED
    BY <1>1, <2>1, CountInv DEF DsPutCount
<1>2. CASE DsPutFrame(w) \/ MbPutFrame(w) \/ DsPutBodyEnd(w) \/ MbPutBodyEnd(w)
  BY <1>2, PutFrameInv, PutBodyEndInv DEF DsPutFrame, MbPutFrame, DsPutBodyEnd, MbPutBodyEnd
<1>3. CASE DsPutWritten(w) \/ MbPutWritten(w)
  BY <1>3, PutWrittenInv DEF DsPutWritten, MbPutWritten
<1>4. CASE DsPutGate(w) \/ MbPutGate(w)
  BY <1>4, GatesInv
<1>5. CASE DsPutProbe(w) \/ DsPutMatch(w) \/ MbPutCatalog(w) \/ MbPutMatch(w) \/ MbPutProbe(w)
  BY <1>5, DsPutProbeInv, MatchInv, MbPutCatalogInv, MbPutProbeInv
<1>6. CASE PutAlloc(w) \/ PutOpen(w) \/ PutRecord(w) \/ PutFinish(w) \/ PutClose(w)
  BY <1>6, PutAllocInv, PutOpenInv, PutRecordInv, PutFinishInv, PutCloseInv
<1>7. CASE DsPutStampCount(w) \/ PutStamp(w) \/ PutAbend(w)
  BY <1>7, DsPutStampCountInv, PutStampInv, PutAbendInv
<1> QED
  BY <1>1, <1>2, <1>3, <1>4, <1>5, <1>6, <1>7 DEF Write


-----------------------------------------------------------------------------
(* Creating, renaming and deleting. *)

LEMMA DsCreateModelInv ==
    ASSUME DataInv, NEW w \in Workers, DsCreateModel(w) PROVE DataInv'
<1>1. /\ rq[w].pc = "locate" /\ rq[w].r.op = "dsCreate" /\ UNCHANGED <<count, held>> /\ NoFault
      /\ \/ \E a \in {"400", "404"} : Go(w, Answer(w, a))
         \/ Go(w, To(w, "act"))
  BY Zenon DEF DsCreateModel, Headers, At, Same, NoFault
<1>2. Good(rq[w], cat, data) /\ rq[w] \in Request /\ rq[w].fp = "none" /\ rq[w].r # None
  BY <1>1, TypedRequest, AtGate
<1>3. rq[w].pc \notin DoneSteps /\ "act" \in Steps /\ "act" \notin DoneSteps
  BY <1>1 DEF DoneSteps, Steps
<1>4. ASSUME NEW a \in {"400", "404"}, Go(w, Answer(w, a)) PROVE DataInv'
  <2>1. a \in Answers \ {"none", "denied"}
    BY DEF Answers
  <2> QED
    BY <1>1, <1>2, <1>3, <1>4, <2>1, PlainAnswer
<1> DEFINE n == To(w, "act")
<1>5. n \in Request /\ n.pc = "act" /\ n.ans = rq[w].ans /\ Alike(rq[w], n)
  BY <1>2, <1>3, MovedFields DEF To
<1>6. Go(w, n) \/ \E a \in {"400", "404"} : Go(w, Answer(w, a))
  BY <1>1
<1> HIDE DEF n
<1>7. CASE Go(w, n)
  <2>1. StepOf("act", "dsCreate") /\ InCatalog(n, cat)
    BY <1>2, <1>5 DEF StepOf, InCatalog, Alike, Puts, WriteSteps, DoneSteps, Origin
  <2> QED
    BY <1>1, <1>2, <1>3, <1>5, <1>7, <2>1, StepInv DEF Alike, Origin
<1> QED
  BY <1>4, <1>6, <1>7

\* The request acts and is answered.
LEMMA Acting ==
    ASSUME DataInv, NEW w \in Workers, rq[w].pc = "act", rq[w].r.op # "mbList"
    PROVE  /\ Good(rq[w], cat, data) /\ rq[w] \in Request /\ rq[w].r # None
           /\ rq[w].fp = "none" /\ ~rq[w].buf /\ rq[w].r.op \notin Puts
           /\ T(w) \in Targets /\ T(w) = rq[w].r.t /\ T(w)[1] \in Names
           /\ rq[w].pc \notin DoneSteps
<1>1. Good(rq[w], cat, data) /\ rq[w] \in Request
  BY TypedRequest
<1>2. rq[w].r # None /\ rq[w].fp = "none" /\ ~rq[w].buf /\ rq[w].r.op \notin Puts
  BY <1>1 DEF Good, Stage, StepOf, Request, WriteSteps, Puts
<1>3. T(w) \in Targets /\ T(w) = rq[w].r.t /\ T(w)[1] \in Names
  BY <1>1, <1>2, AskedFor DEF T
<1>4. rq[w].pc \notin DoneSteps
  BY DEF DoneSteps
<1> QED
  BY <1>1, <1>2, <1>3, <1>4

LEMMA ActFailsInv ==
    ASSUME DataInv, NEW w \in Workers, rq[w].pc = "act", rq[w].r.op # "mbList",
           NEW a \in {"400", "404", "500"}, Go(w, Answer(w, a)), UNCHANGED <<held, count, faults>>
    PROVE  DataInv'
<1>1. a \in Answers \ {"none", "denied"}
  BY DEF Answers
<1>2. rq[w].fp = "none" /\ rq[w].pc \notin DoneSteps
  BY Acting
<1> QED
  BY <1>1, <1>2, PlainAnswer DEF NoFault

LEMMA ActGood ==
    ASSUME DataInv, NEW w \in Workers, rq[w].pc = "act", rq[w].r.op # "mbList",
           NEW a \in {"201", "204"}
    PROVE  Good(Answer(w, a), cat', data')
<1>1. a \in Answers \ {"none"} /\ a # "denied" /\ a \notin Refusals
  BY DEF Answers, Refusals
<1>2. Good(rq[w], cat, data) /\ rq[w].fp = "none" /\ rq[w].r.op \notin Puts
  BY Acting
<1>3. Ends(rq[w], Answer(w, a), a)
  BY <1>1, <1>2, PlainEnd DEF Answer
<1>4. Fits(rq[w], a, data, data')
  BY <1>1, <1>2 DEF Fits
<1>5. rq[w].r.op # "dsCreate" => Permitted(rq[w].r)
  BY <1>2 DEF Good, Gated
<1> QED
  BY <1>1, <1>2, <1>3, <1>4, <1>5, AnswerGood

LEMMA ActCounters ==
    ASSUME DataInv, UNCHANGED <<count, faults>> PROVE Counters'
BY DEF DataInv, Counters

LEMMA DsCreateAllocateInv ==
    ASSUME DataInv, NEW w \in Workers, DsCreateAllocate(w) PROVE DataInv'
<1> DEFINE d == T(w)[1]
           org == IF R(w).from = None THEN "PS" ELSE cat[R(w).from[1]]
           t == <<d, None>>
           x == IF org = "PS" THEN << >> ELSE None
           new == [data EXCEPT ![t] = x]
           n == Answer(w, "201")
<1>1. /\ rq[w].pc = "act" /\ rq[w].r.op = "dsCreate" /\ UNCHANGED <<count, faults>>
      /\ \/ /\ cat[d] = "none" /\ org # "none"
            /\ cat' = [cat EXCEPT ![d] = org]
            /\ Change(w, n, {t}, new)
         \/ Go(w, Answer(w, "500")) /\ UNCHANGED held
  BY Zenon DEF DsCreateAllocate, At
<1>2. /\ rq[w] \in Request /\ rq[w].r # None /\ d \in Names
  BY <1>1, Acting
<1>3. data \in [Targets -> Contents] /\ cat \in [Names -> {"none", "PS", "PO"}]
  BY DEF DataInv, VolumeOK
<1>4. org \in {"none", "PS", "PO"}
  <2>1. rq[w].r.from \in Targets \cup {None}
    BY <1>2, AskedFor, Asked
  <2> QED
    BY <1>3, <2>1, TargetParts DEF R
<1>5. t \in Targets /\ t[1] = d /\ t[2] = None
  BY <1>2, OneTarget
<1>6. \A u \in Targets : u[1] = d /\ u # t => u[2] # None
  BY TargetParts
<1>7. << >> \in Seq(Stores)
  OBVIOUS
<1>8. x \in Contents /\ (x = None <=> org # "PS")
  BY <1>7, Bounds DEF Contents
<1>9. CASE Go(w, Answer(w, "500")) /\ UNCHANGED held
  BY <1>1, <1>9, ActFailsInv
<1>10. CASE /\ cat[d] = "none" /\ org # "none"
            /\ cat' = [cat EXCEPT ![d] = org]
            /\ Change(w, n, {t}, new)
  <2>1. Good(n, cat', data')
    BY <1>1, ActGood
  <2> HIDE DEF org, x, n, d, t
  <2>2. new[t] = x
    BY <1>3, <1>5
  <2>3. data' = [u \in Targets |-> IF u \in {t} THEN new[u] ELSE data[u]]
    BY <1>10 DEF Change
  <2> HIDE DEF new
  <2>4. \A u \in Targets : data'[u] = IF u = t THEN x ELSE data[u]
    BY <2>2, <2>3
  <2>5. VolumeOK(cat', data')
    <3>1. data' \in [Targets -> Contents]
      BY <1>3, <1>8, <2>2, <2>3
    <3>2. cat' \in [Names -> {"none", "PS", "PO"}]
      BY <1>3, <1>4, <1>10
    <3>3. ASSUME NEW u \in Targets
          PROVE  /\ data'[u] # None => cat'[u[1]] = IF u[2] = None THEN "PS" ELSE "PO"
                 /\ u[2] = None /\ cat'[u[1]] = "PS" => data'[u] # None
      <4>1. /\ data[u] # None => cat[u[1]] = IF u[2] = None THEN "PS" ELSE "PO"
            /\ u[2] = None /\ cat[u[1]] = "PS" => data[u] # None
        BY DEF DataInv, VolumeOK
      <4>2. cat'[u[1]] = IF u[1] = d THEN org ELSE cat[u[1]]
        BY <1>3, <1>10, TargetParts
      <4> QED
        BY <1>5, <1>6, <1>8, <1>10, <2>4, <4>1, <4>2
    <3> QED
      BY <3>1, <3>2, <3>3 DEF VolumeOK
  <2>6. ASSUME NEW v \in Workers \ {w} PROVE Tolerable(rq[v], cat, cat', {t}, new)
    <3>1. SUFFICES ASSUME rq[v].r # None PROVE Tolerable(rq[v], cat, cat', {t}, new)
      BY DEF Tolerable
    <3>2. rq[v].r.t[1] \in Names
      BY <3>1, TypedRequest, AskedFor
    <3>3. cat'[rq[v].r.t[1]] = IF rq[v].r.t[1] = d THEN org ELSE cat[rq[v].r.t[1]]
      BY <1>3, <1>10, <3>2
    <3>4. rq[v].fp \in {"read", "write"} => cat[rq[v].r.t[1]] \in {"PS", "PO"}
      BY <3>1, OpenIsCataloged
    <3> QED
      BY <1>10, <3>3, <3>4 DEF Tolerable
  <2>7. PICK C : C = {t}
    OBVIOUS
  <2>8. /\ Change(w, n, C, new) /\ C \subseteq Targets /\ \A u \in C : new[u] \in Contents
        /\ \A v \in Workers \ {w} : Tolerable(rq[v], cat, cat', C, new)
    BY <1>5, <1>8, <1>10, <2>2, <2>6, <2>7
  <2>9. Counters'
    BY <1>1, ActCounters
  <2> QED
    BY <2>1, <2>5, <2>8, <2>9, ChangeInv
<1> QED
  BY <1>1, <1>9, <1>10


LEMMA DsRenameGateInv ==
    ASSUME DataInv, NEW w \in Workers, DsRenameGate(w) PROVE DataInv'
<1> DEFINE d == R(w).from[1]
           den == ~RequireAccess(w, d, ALTER) \/ ~RequireAccess(w, T(w)[1], ALTER)
           n == IF R(w).flaw = "name" THEN Answer(w, "400")
                ELSE IF den THEN Answer(w, "denied")
                ELSE IF VolumeGate(w, d) # "pass" THEN Answer(w, "404")
                ELSE IF ~Cataloged(d) THEN Answer(w, "404")
                ELSE To(w, "act")
<1>1. rq[w].pc = "gate" /\ rq[w].r.op = "dsRename" /\ Go(w, n) /\ UNCHANGED <<count, held>> /\ NoFault
  BY Zenon DEF DsRenameGate, At, Same, NoFault
<1>2. den <=> ~Permitted(rq[w].r)
  <2>1. Scope(rq[w].r) = {T(w)[1], d}
    BY <1>1 DEF Scope, T, R
  <2> QED
    BY <1>1, <2>1, NeededFor DEF Permitted, RequireAccess, R
<1>3. R(w).flaw = rq[w].r.flaw
  BY DEF R
<1>4. {"400", "404", "denied"} \subseteq Answers \ {"none"}
  BY DEF Answers
<1>5. StepOf("act", rq[w].r.op) /\ rq[w].r.op \notin Puts
  BY <1>1 DEF StepOf, Puts, WriteSteps, DoneSteps
<1> HIDE DEF den, d
<1>6. Good(n, cat, data)
  <2>1. CASE R(w).flaw = "name"
    <3>1. Good(Answer(w, "400"), cat, data)
      BY <1>1, <1>3, <1>4, <2>1, GateAnswer
    <3> QED
      BY <2>1, <3>1, Zenon
  <2>2. CASE R(w).flaw # "name" /\ den
    <3>1. Good(Answer(w, "denied"), cat, data)
      BY <1>1, <1>2, <1>3, <1>4, <2>2, GateAnswer
    <3> QED
      BY <2>2, <3>1, Zenon
  <2>3. CASE R(w).flaw # "name" /\ ~den
    <3>1. Good(Answer(w, "404"), cat, data)
      BY <1>1, <1>2, <2>3, PassAnswer
    <3>2. Good(To(w, "act"), cat, data)
      BY <1>1, <1>2, <1>3, <1>5, <2>3, PassTo
    <3> QED
      BY <2>3, <3>1, <3>2, Zenon
  <2> QED
    BY <2>1, <2>2, <2>3
<1> HIDE DEF n
<1> QED
  BY <1>1, <1>6, GoInv, CountersKept, SameHeld

\* A data set that is in use is not removed from the catalog by another request.
LEMMA NotInUse ==
    ASSUME NEW w \in Workers, NEW d, ~InUse(w, d), NEW v \in Workers \ {w}, rq[v].fp # "none"
    PROVE  rq[v].r.t[1] # d
BY DEF InUse

LEMMA DsRenameInv ==
    ASSUME DataInv, NEW w \in Workers, DsRename(w) PROVE DataInv'
<1> DEFINE d == R(w).from[1]
           e == T(w)[1]
           C == Of(d) \cup Of(e)
           new == [t \in Targets |-> IF t[1] = e THEN data[<<d, t[2]>>] ELSE None]
           n == Answer(w, "204")
<1>1. /\ rq[w].pc = "act" /\ rq[w].r.op = "dsRename" /\ UNCHANGED <<count, faults>>
      /\ ~InUse(w, d) /\ ~InUse(w, e)
      /\ \/ /\ cat[d] # "none" /\ cat[e] = "none"
            /\ cat' = [cat EXCEPT ![e] = cat[d], ![d] = "none"]
            /\ Change(w, n, C, new)
         \/ Go(w, Answer(w, "500")) /\ UNCHANGED held
  BY Zenon DEF DsRename, At, Cataloged
<1>2. /\ rq[w] \in Request /\ rq[w].r # None /\ e \in Names
  BY <1>1, Acting
<1>3. data \in [Targets -> Contents] /\ cat \in [Names -> {"none", "PS", "PO"}]
  BY DEF DataInv, VolumeOK
<1>4. d \in Names
  <2>1. rq[w].r.from \in Targets
    BY <1>1, <1>2, AskedFor, Asked
  <2> QED
    BY <2>1, TargetParts DEF R
<1>5. CASE Go(w, Answer(w, "500")) /\ UNCHANGED held
  BY <1>1, <1>5, ActFailsInv
<1>6. CASE /\ cat[d] # "none" /\ cat[e] = "none"
           /\ cat' = [cat EXCEPT ![e] = cat[d], ![d] = "none"]
           /\ Change(w, n, C, new)
  <2>1. Good(n, cat', data')
    BY <1>1, ActGood
  <2> HIDE DEF n, d, e
  <2>2. C \subseteq Targets /\ \A u \in Targets : u \in C <=> u[1] \in {d, e}
    BY DEF Of
  <2>3. ASSUME NEW u \in Targets
        PROVE  /\ <<d, u[2]>> \in Targets /\ new[u] \in Contents
               /\ new[u] = IF u[1] = e THEN data[<<d, u[2]>>] ELSE None
    <3>1. <<d, u[2]>> \in Targets
      BY <1>4, TargetParts, OneTarget
    <3>2. data[<<d, u[2]>>] \in Contents /\ None \in Contents
      BY <1>3, <3>1 DEF Contents
    <3> QED
      BY <3>1, <3>2
  <2>4. data' = [u \in Targets |-> IF u \in C THEN new[u] ELSE data[u]]
    BY <1>6 DEF Change
  <2> HIDE DEF C, new
  <2>5. ASSUME NEW u \in Targets
        PROVE  data'[u] = IF u[1] = e THEN data[<<d, u[2]>>]
                          ELSE IF u[1] = d THEN None ELSE data[u]
    BY <2>2, <2>3, <2>4
  <2>6. \A x \in Names : cat'[x] = IF x = d THEN "none" ELSE IF x = e THEN cat[d] ELSE cat[x]
    BY <1>3, <1>4, <1>6
  <2>7. VolumeOK(cat', data')
    <3>1. data' \in [Targets -> Contents]
      BY <1>3, <2>3, <2>4
    <3>2. cat' \in [Names -> {"none", "PS", "PO"}]
      BY <1>3, <1>4, <1>6
    <3>3. ASSUME NEW u \in Targets
          PROVE  /\ data'[u] # None => cat'[u[1]] = IF u[2] = None THEN "PS" ELSE "PO"
                 /\ u[2] = None /\ cat'[u[1]] = "PS" => data'[u] # None
      <4>1. \A x \in Targets :
              /\ data[x] # None => cat[x[1]] = IF x[2] = None THEN "PS" ELSE "PO"
              /\ x[2] = None /\ cat[x[1]] = "PS" => data[x] # None
        BY DEF DataInv, VolumeOK
      <4>2. u[1] \in Names
        BY TargetParts
      <4>3. PICK x \in Targets : x = <<d, u[2]>> /\ x[1] = d /\ x[2] = u[2]
        BY <2>3
      <4>4. cat'[u[1]] = IF u[1] = d THEN "none" ELSE IF u[1] = e THEN cat[d] ELSE cat[u[1]]
        BY <2>6, <4>2
      <4>5. data'[u] = IF u[1] = e THEN data[x] ELSE IF u[1] = d THEN None ELSE data[u]
        BY <2>5, <4>3
      <4> QED
        BY <1>6, <4>1, <4>3, <4>4, <4>5
    <3> QED
      BY <3>1, <3>2, <3>3 DEF VolumeOK
  <2>8. ASSUME NEW v \in Workers \ {w} PROVE Tolerable(rq[v], cat, cat', C, new)
    <3>1. SUFFICES ASSUME rq[v].r # None PROVE Tolerable(rq[v], cat, cat', C, new)
      BY DEF Tolerable
    <3>2. rq[v].r.t \in Targets /\ rq[v].r.t[1] \in Names
      BY <3>1, TypedRequest, AskedFor
    <3>3. rq[v].fp \in {"read", "write"} => rq[v].r.t[1] # d /\ rq[v].r.t[1] # e
      BY <1>1, NotInUse
    <3>4. rq[v].r.t[1] = d => rq[v].r.t \in C /\ new[rq[v].r.t] = None
      BY <1>6, <2>2, <2>3, <3>2
    <3> QED
      BY <1>6, <2>6, <3>2, <3>3, <3>4 DEF Tolerable
  <2>9. Counters' /\ \A u \in C : new[u] \in Contents
    BY <1>1, <2>2, <2>3, ActCounters
  <2> QED
    BY <1>6, <2>1, <2>2, <2>7, <2>8, <2>9, ChangeInv
<1> QED
  BY <1>1, <1>5, <1>6

LEMMA DsDeleteInv ==
    ASSUME DataInv, NEW w \in Workers, DsDelete(w) PROVE DataInv'
<1> DEFINE d == T(w)[1]
           C == Of(d)
           new == [t \in Targets |-> None]
           n == Answer(w, "204")
<1>1. /\ rq[w].pc = "act" /\ rq[w].r.op = "dsDelete" /\ UNCHANGED <<count, faults>> /\ ~InUse(w, d)
      /\ \/ cat' = [cat EXCEPT ![d] = "none"] /\ Change(w, n, C, new)
         \/ Go(w, Answer(w, "500")) /\ UNCHANGED held
  BY Zenon DEF DsDelete, At
<1>2. d \in Names
  BY <1>1, Acting
<1>3. data \in [Targets -> Contents] /\ cat \in [Names -> {"none", "PS", "PO"}]
  BY DEF DataInv, VolumeOK
<1>4. CASE Go(w, Answer(w, "500")) /\ UNCHANGED held
  BY <1>1, <1>4, ActFailsInv
<1>5. CASE cat' = [cat EXCEPT ![d] = "none"] /\ Change(w, n, C, new)
  <2>1. Good(n, cat', data')
    BY <1>1, ActGood
  <2> HIDE DEF n, d
  <2>2. C \subseteq Targets /\ \A u \in Targets : u \in C <=> u[1] = d
    BY DEF Of
  <2>3. \A u \in Targets : new[u] = None
    OBVIOUS
  <2>4. data' = [u \in Targets |-> IF u \in C THEN new[u] ELSE data[u]] /\ None \in Contents
    BY <1>5 DEF Change, Contents
  <2> HIDE DEF C, new
  <2>5. \A u \in Targets : data'[u] = IF u[1] = d THEN None ELSE data[u]
    BY <2>2, <2>3, <2>4
  <2>6. \A x \in Names : cat'[x] = IF x = d THEN "none" ELSE cat[x]
    BY <1>3, <1>5
  <2>7. VolumeOK(cat', data')
    <3>1. data' \in [Targets -> Contents]
      BY <1>3, <2>3, <2>4
    <3>2. cat' \in [Names -> {"none", "PS", "PO"}]
      BY <1>3, <1>5
    <3>3. ASSUME NEW u \in Targets
          PROVE  /\ data'[u] # None => cat'[u[1]] = IF u[2] = None THEN "PS" ELSE "PO"
                 /\ u[2] = None /\ cat'[u[1]] = "PS" => data'[u] # None
      BY <2>5, <2>6, TargetParts DEF DataInv, VolumeOK
    <3> QED
      BY <3>1, <3>2, <3>3 DEF VolumeOK
  <2>8. ASSUME NEW v \in Workers \ {w} PROVE Tolerable(rq[v], cat, cat', C, new)
    <3>1. SUFFICES ASSUME rq[v].r # None PROVE Tolerable(rq[v], cat, cat', C, new)
      BY DEF Tolerable
    <3>2. rq[v].r.t \in Targets /\ rq[v].r.t[1] \in Names
      BY <3>1, TypedRequest, AskedFor
    <3>3. rq[v].fp \in {"read", "write"} => rq[v].r.t[1] # d
      BY <1>1, NotInUse
    <3> QED
      BY <2>2, <2>3, <2>6, <3>2, <3>3 DEF Tolerable
  <2>9. Counters' /\ \A u \in C : new[u] \in Contents
    BY <1>1, <2>2, <2>3, <2>4, ActCounters
  <2> QED
    BY <1>5, <2>1, <2>2, <2>7, <2>8, <2>9, ChangeInv
<1> QED
  BY <1>1, <1>4, <1>5

\* Members come and go; the catalog stays.
LEMMA MembersInv ==
    ASSUME DataInv, NEW w \in Workers, NEW C, NEW new, Change(w, Answer(w, "204"), C, new),
           UNCHANGED <<cat, count, faults>>, rq[w].pc = "act", rq[w].r.op # "mbList",
           C \subseteq Targets,
           \A u \in C : u[2] # None /\ new[u] \in Contents /\ (new[u] # None => cat[u[1]] = "PO")
    PROVE  DataInv'
<1>1. Good(Answer(w, "204"), cat', data') /\ Counters'
  BY ActGood, ActCounters
<1>2. data' = [u \in Targets |-> IF u \in C THEN new[u] ELSE data[u]]
  BY DEF Change
<1>3. VolumeOK(cat', data')
  BY <1>2 DEF DataInv, VolumeOK
<1>4. \A v \in Workers \ {w} : Tolerable(rq[v], cat, cat', C, new)
  BY DEF Tolerable
<1> QED
  BY <1>1, <1>3, <1>4, ChangeInv

LEMMA MbRenameInv ==
    ASSUME DataInv, NEW w \in Workers, MbRename(w) PROVE DataInv'
<1> DEFINE old == R(w).from
           t == T(w)
           new == [data EXCEPT ![t] = data[old], ![old] = None]
<1>1. /\ rq[w].pc = "act" /\ rq[w].r.op = "mbRename" /\ UNCHANGED <<count, faults>>
      /\ \/ /\ IsPds(t[1]) /\ Change(w, Answer(w, "204"), {old, t}, new) /\ UNCHANGED cat
         \/ \E a \in {"400", "404", "500"} : Go(w, Answer(w, a)) /\ UNCHANGED held
  BY Zenon DEF MbRename, At
<1>2. /\ rq[w] \in Request /\ rq[w].r # None /\ t \in Targets /\ t = rq[w].r.t
  BY <1>1, Acting
<1>3. old \in Targets /\ old[1] = t[1] /\ old[2] # None /\ t[2] # None
  <2>1. rq[w].r \in Requests
    BY <1>2, AskedFor
  <2> QED
    BY <1>1, <1>2, <2>1, Asked DEF R, MemberOps
<1>4. data \in [Targets -> Contents] /\ None \in Contents
  BY DEF DataInv, VolumeOK, Contents
<1>5. ASSUME NEW a \in {"400", "404", "500"}, Go(w, Answer(w, a)), UNCHANGED held PROVE DataInv'
  BY <1>1, <1>5, ActFailsInv
<1>6. CASE IsPds(t[1]) /\ Change(w, Answer(w, "204"), {old, t}, new) /\ UNCHANGED cat
  <2> HIDE DEF old, t
  <2>1. new \in [Targets -> Contents]
    BY <1>2, <1>3, <1>4
  <2> HIDE DEF new
  <2>2. PICK C : C = {old, t}
    OBVIOUS
  <2>3. /\ C \subseteq Targets /\ Change(w, Answer(w, "204"), C, new)
        /\ \A u \in C : u[2] # None /\ new[u] \in Contents /\ cat[u[1]] = "PO"
    BY <1>2, <1>3, <1>6, <2>1, <2>2 DEF IsPds
  <2> QED
    BY <1>1, <1>6, <2>3, MembersInv
<1> QED
  BY <1>1, <1>5, <1>6

LEMMA MbDeleteInv ==
    ASSUME DataInv, NEW w \in Workers, MbDelete(w) PROVE DataInv'
<1> DEFINE t == T(w)
           new == [data EXCEPT ![t] = None]
<1>1. /\ rq[w].pc = "act" /\ rq[w].r.op = "mbDelete" /\ UNCHANGED <<count, faults>>
      /\ \/ Change(w, Answer(w, "204"), {t}, new) /\ UNCHANGED cat
         \/ Go(w, Answer(w, "500")) /\ UNCHANGED held
  BY Zenon DEF MbDelete, At
<1>2. /\ rq[w] \in Request /\ rq[w].r # None /\ t \in Targets /\ t = rq[w].r.t
  BY <1>1, Acting
<1>3. t[2] # None
  BY <1>1, <1>2, AskedFor, Asked DEF MemberOps
<1>4. CASE Go(w, Answer(w, "500")) /\ UNCHANGED held
  BY <1>1, <1>4, ActFailsInv
<1>5. CASE Change(w, Answer(w, "204"), {t}, new) /\ UNCHANGED cat
  <2> HIDE DEF t
  <2>1. new[t] = None /\ None \in Contents
    BY <1>2 DEF DataInv, VolumeOK, Contents
  <2> HIDE DEF new
  <2>2. PICK C : C = {t}
    OBVIOUS
  <2>3. /\ C \subseteq Targets /\ Change(w, Answer(w, "204"), C, new)
        /\ \A u \in C : u[2] # None /\ new[u] \in Contents /\ new[u] = None
    BY <1>2, <1>3, <1>5, <2>1, <2>2
  <2> QED
    BY <1>1, <1>5, <2>3, MembersInv
<1> QED
  BY <1>1, <1>4, <1>5

-----------------------------------------------------------------------------
(* Every step. *)

LEMMA ManageInv ==
    ASSUME DataInv, NEW w \in Workers, Manage(w) PROVE DataInv'
BY GatesInv, DsCreateModelInv, DsCreateAllocateInv, DsRenameGateInv, DsRenameInv, MbRenameInv,
   DsDeleteInv, MbDeleteInv DEF Manage

LEMMA StutterInv == DataInv /\ UNCHANGED vars => DataInv'
BY DEF DataInv, vars, VolumeOK, Counters, Good, InCatalog, Kept

LEMMA NextInv == DataInv /\ [Next]_vars => DataInv'
<1> SUFFICES ASSUME DataInv, [Next]_vars PROVE DataInv'
  OBVIOUS
<1>1. CASE UNCHANGED vars
  BY <1>1, StutterInv
<1>2. CASE Finished
  BY <1>2, StutterInv DEF Finished
<1>3. ASSUME NEW w \in Workers, Accept(w) \/ Respond(w) \/ Read(w) \/ Write(w) \/ Manage(w)
      PROVE  DataInv'
  BY <1>3, AcceptInv, RespondInv, ReadInv, WriteInv, ManageInv
<1> QED
  BY <1>1, <1>2, <1>3 DEF Next

LEMMA DataInvariant == Spec => []DataInv
<1>1. Init => DataInv
  BY InitData
<1>2. DataInv /\ [Next]_vars => DataInv'
  BY NextInv
<1> QED
  BY <1>1, <1>2, PTL DEF Spec


\* Whichever return a handler of src/dsapi.c takes, its file is closed and its record
\* buffer freed by the time it answers, an abend's buffer excepted, and every request is
\* at a step its handler has, for any number of workers on one catalog.
THEOREM SessionIsSound == Spec => []SessionSound
<1>1. DataInv => SessionSound
  <2> SUFFICES ASSUME DataInv PROVE SessionSound
    OBVIOUS
  <2>1. \A w \in Workers : rq[w] \in Request
    BY TypedRequest
  <2>2. rq \in [Workers -> Request]
    BY <2>1 DEF DataInv
  <2>3. TypeOK
    BY <2>2 DEF TypeOK, Request, Holder, DataInv, VolumeOK, Counters
  <2>4. NothingHeld
    BY TypedRequest DEF NothingHeld, Good, Stage, Request, WriteSteps
  <2> QED
    BY <2>3, <2>4 DEF SessionSound
<1> QED
  BY <1>1, DataInvariant, PTL

\* A caller is told of a denial exactly when it lacks the authority, whatever the catalog
\* has, and a refused request, or a PUT whose body broke off before its first record,
\* leaves its target as the other requests made it (src/dsapi.c, require_access before
\* every look at the catalog, and the deferred output open).  The member that could not
\* be opened for reading is the exception (dsapi.c:3080).
THEOREM RefusalsAreSilent == Spec => []RefusalIsSilent
<1>1. DataInv => RefusalIsSilent
  <2> SUFFICES ASSUME DataInv PROVE RefusalIsSilent
    OBVIOUS
  <2>1. NoOracle
    BY TypedRequest DEF NoOracle, Good, Gated, R
  <2>2. Unharmed
    <3> SUFFICES ASSUME NEW w \in Workers, rq[w].pc = "answer", rq[w].was # None,
                        \/ rq[w].ans \in {"denied", "400", "404", "412"}
                        \/ /\ R(w).op \in {"dsPut", "mbPut"} /\ R(w).body # << >>
                           /\ ~rq[w].framed /\ ~rq[w].blind
                           /\ rq[w].create => ~rq[w].dirty
                 PROVE  data[T(w)] = rq[w].was
      BY DEF Unharmed
    <3>1. rq[w].create => rq[w].blind \/ rq[w].dirty
      BY TypedRequest DEF Good, Framed
    <3>2. Harmless(rq[w])
      BY <3>1 DEF Harmless, R, Puts
    <3> QED
      BY <3>2, TypedRequest DEF Good, Kept, T
  <2> QED
    BY <2>1, <2>2 DEF RefusalIsSilent
<1> QED
  BY <1>1, DataInvariant, PTL

-----------------------------------------------------------------------------
(* What a step of a worker changes. *)

\* The change stays in the scope of a permitted request, and a write brings into the
\* catalog only what was removed from it after the write had found it.
Within(w) ==
    /\ rq[w].r # None /\ Permitted(rq[w].r) /\ Moves(w)
    /\ \A d \in Names \ Scope(rq[w].r) : cat'[d] = cat[d] /\ \A t \in Of(d) : data'[t] = data[t]
    /\ rq[w].r.op \in Puts =>
         \A d \in Names : cat[d] = "none" /\ cat'[d] # "none" => rq[w].gone

Effect(w) ==
    /\ \A v \in Workers \ {w} : rq'[v].pc = rq[v].pc /\ rq'[v].fp = rq[v].fp
    /\ UNCHANGED <<cat, data>> \/ Within(w)

LEMMA GoEffect ==
    ASSUME DataInv, NEW w \in Workers, NEW n, Go(w, n) PROVE Effect(w)
BY DEF DataInv, Go, Effect

LEMMA ChangeEffect ==
    ASSUME DataInv, NEW w \in Workers, NEW n, NEW C, NEW contents, Change(w, n, C, contents),
           \A t \in C : contents[t] \in Contents,
           n.pc # rq[w].pc \/ n.fp # rq[w].fp, rq[w].r # None, Permitted(rq[w].r),
           \A t \in C : t[1] \in Scope(rq[w].r),
           \A d \in Names \ Scope(rq[w].r) : cat'[d] = cat[d],
           rq[w].r.op \in Puts => \A d \in Names : cat[d] = "none" /\ cat'[d] # "none" => rq[w].gone
    PROVE  Effect(w)
<1> DEFINE new(v) == Touched(rq[v], TRUE, contents[rq[v].r.t],
                             rq[v].gone \/ contents[rq[v].r.t] = None)
<1>1. rq' = [v \in Workers |->
               IF v = w THEN n
               ELSE IF rq[v].r # None /\ rq[v].r.t \in C THEN new(v) ELSE rq[v]]
  BY Zenon DEF Change, Touched
<1>2. \A t \in Targets : data'[t] = IF t \in C THEN contents[t] ELSE data[t]
  BY Zenon DEF Change
<1>3. ASSUME NEW v \in Workers \ {w} PROVE rq'[v].pc = rq[v].pc /\ rq'[v].fp = rq[v].fp
  <2>1. CASE rq[v].r # None /\ rq[v].r.t \in C
    <3>1. rq'[v] = new(v)
      BY <1>1, <2>1, Zenon
    <3>2. rq[v] \in Request /\ contents[rq[v].r.t] \in Contents
      BY <2>1, TypedRequest
    <3>3. \A d \in BOOLEAN, g \in BOOLEAN :
            LET x == Touched(rq[v], d, contents[rq[v].r.t], g) IN
            x.pc = rq[v].pc /\ x.fp = rq[v].fp
      BY <3>2, TouchedFields DEF TouchedAs
    <3>4. (rq[v].gone \/ contents[rq[v].r.t] = None) \in BOOLEAN /\ TRUE \in BOOLEAN
      OBVIOUS
    <3> QED
      BY <3>1, <3>3, <3>4, Zenon
  <2>2. CASE ~(rq[v].r # None /\ rq[v].r.t \in C)
    <3>1. rq'[v] = rq[v]
      BY <1>1, <2>2, Zenon
    <3> QED
      BY <3>1
  <2> QED
    BY <2>1, <2>2
<1>4. rq'[w] = n
  BY <1>1, Zenon
<1>5. ASSUME NEW d \in Names \ Scope(rq[w].r), NEW t \in Of(d) PROVE data'[t] = data[t]
  BY <1>2 DEF Of
<1>6. Within(w)
  BY <1>4, <1>5 DEF Within, Moves
<1> QED
  BY <1>3, <1>6 DEF Effect

\* The target of a request is in its scope.
LEMMA InScope ==
    ASSUME NEW r PROVE r.t[1] \in Scope(r) /\ (r.op = "dsRename" => r.from[1] \in Scope(r))
BY DEF Scope

\* Past the gate.
LEMMA PastGate ==
    ASSUME DataInv, NEW w \in Workers, rq[w].pc \notin {"idle", "gate", "answer"},
           rq[w].r.op # "dsCreate"
    PROVE  /\ rq[w] \in Request /\ rq[w].r # None /\ Permitted(rq[w].r) /\ Good(rq[w], cat, data)
           /\ T(w) \in Targets /\ T(w) = rq[w].r.t /\ T(w)[1] \in Names
           /\ T(w)[1] \in Scope(rq[w].r)
<1>1. /\ rq[w] \in Request /\ rq[w].r # None /\ Permitted(rq[w].r) /\ Good(rq[w], cat, data)
  BY TypedRequest DEF Good, Gated, Stage
<1> QED
  BY <1>1, AskedFor, InScope DEF T

LEMMA OpenWriteEffect ==
    ASSUME DataInv, NEW w \in Workers, NEW m \in Request, OpenWriteTarget(w, m), rq[w].fp = "none",
           rq[w].pc \in {"record", "finish"} \/ (rq[w].pc = "probe" /\ rq[w].r.op = "mbPut"),
           rq[w].r.op \in Puts
    PROVE  Effect(w)
<1> DEFINE t == T(w)
           n == [m EXCEPT !.fp = "write", !.out = << >>, !.dirty = FALSE]
           new == [data EXCEPT ![t] = << >>]
<1>1. \/ cat' = [cat EXCEPT ![t[1]] = "PS"] /\ Change(w, n, {t}, new)
      \/ Go(w, n)
  BY Zenon DEF OpenWriteTarget, Go
<1>2. /\ rq[w].r # None /\ Permitted(rq[w].r) /\ Good(rq[w], cat, data)
      /\ t \in Targets /\ t = rq[w].r.t /\ t[1] \in Names /\ t[1] \in Scope(rq[w].r)
  BY PastGate DEF Puts
<1>3. n.fp = "write"
  BY OpenedToWrite
<1>a. << >> \in Seq(Stores)
  OBVIOUS
<1>4. new[t] = << >> /\ << >> \in Contents
  BY <1>a, <1>2 DEF DataInv, VolumeOK, Contents
<1> HIDE DEF t, n, new
<1>5. CASE cat' = [cat EXCEPT ![t[1]] = "PS"] /\ Change(w, n, {t}, new)
  <2>1. cat[t[1]] # "none" \/ rq[w].gone
    BY <1>2 DEF Good, InCatalog
  <2>2. \A d \in Names : d # t[1] => cat'[d] = cat[d]
    BY <1>5 DEF DataInv, VolumeOK
  <2>3. PICK C : C = {t}
    OBVIOUS
  <2>4. /\ Change(w, n, C, new) /\ \A u \in C : new[u] \in Contents /\ u[1] \in Scope(rq[w].r)
    BY <1>2, <1>4, <1>5, <2>3
  <2>5. /\ \A d \in Names \ Scope(rq[w].r) : cat'[d] = cat[d]
        /\ \A d \in Names : cat[d] = "none" /\ cat'[d] # "none" => rq[w].gone
    BY <1>2, <2>1, <2>2
  <2> QED
    BY <1>2, <1>3, <2>4, <2>5, ChangeEffect
<1>6. CASE Go(w, n)
  BY <1>6, GoEffect
<1> QED
  BY <1>1, <1>5, <1>6

LEMMA OpenFailsEffect ==
    ASSUME DataInv, NEW w \in Workers, NEW n, OpenWriteFails(w, n), n.pc = "answer",
           rq[w].pc \in {"record", "finish"} \/ (rq[w].pc = "probe" /\ rq[w].r.op = "mbPut"),
           rq[w].r.op \in Puts
    PROVE  Effect(w)
<1> DEFINE d == T(w)[1]
           t == <<d, None>>
           new == [data EXCEPT ![t] = << >>]
<1>1. \/ cat' = [cat EXCEPT ![d] = "PS"] /\ Change(w, n, {t}, new)
      \/ Go(w, n)
  BY Zenon DEF OpenWriteFails
<1>2. /\ rq[w].r # None /\ Permitted(rq[w].r) /\ Good(rq[w], cat, data)
      /\ T(w) = rq[w].r.t /\ d \in Names /\ d \in Scope(rq[w].r)
  BY PastGate DEF Puts
<1>3. t \in Targets /\ t[1] = d
  BY <1>2, OneTarget
<1>a. << >> \in Seq(Stores)
  OBVIOUS
<1>4. new[t] = << >> /\ << >> \in Contents
  BY <1>a, <1>3 DEF DataInv, VolumeOK, Contents
<1>5. cat[d] # "none" \/ rq[w].gone
  BY <1>2 DEF Good, InCatalog
<1> HIDE DEF d, t, new
<1>6. CASE cat' = [cat EXCEPT ![d] = "PS"] /\ Change(w, n, {t}, new)
  <2>1. \A x \in Names : x # d => cat'[x] = cat[x]
    BY <1>6 DEF DataInv, VolumeOK
  <2>2. PICK C : C = {t}
    OBVIOUS
  <2>3. /\ Change(w, n, C, new) /\ \A u \in C : new[u] \in Contents /\ u[1] \in Scope(rq[w].r)
    BY <1>2, <1>3, <1>4, <1>6, <2>2
  <2>4. /\ \A x \in Names \ Scope(rq[w].r) : cat'[x] = cat[x]
        /\ \A x \in Names : cat[x] = "none" /\ cat'[x] # "none" => rq[w].gone
    BY <1>2, <1>5, <2>1
  <2>5. n.pc # rq[w].pc
    OBVIOUS
  <2> QED
    BY <1>2, <2>3, <2>4, <2>5, ChangeEffect
<1>7. CASE Go(w, n)
  BY <1>7, GoEffect
<1> QED
  BY <1>1, <1>6, <1>7

LEMMA CloseEffect ==
    ASSUME DataInv, NEW w \in Workers, NEW m \in Request, NEW keep \in Nat, CloseTarget(w, m, keep),
           rq[w].pc \in WriteSteps
    PROVE  Effect(w)
<1> DEFINE t == T(w)
           out == IF keep < Len(rq[w].out) THEN SubSeq(rq[w].out, 1, keep) ELSE rq[w].out
           n == [m EXCEPT !.fp = "none"]
           new == [data EXCEPT ![t] = out]
<1>1. \/ rq[w].fp = "write" /\ Change(w, n, {t}, new) /\ UNCHANGED cat
      \/ Go(w, n)
  BY Zenon DEF CloseTarget
<1>2. rq[w].pc \notin {"idle", "gate", "answer"} /\ rq[w].out \in Seq(Stores) /\ rq[w].r.op \in Puts
  BY Writing
<1>3. /\ rq[w].r # None /\ Permitted(rq[w].r)
      /\ t \in Targets /\ t[1] \in Scope(rq[w].r)
  BY <1>2, PastGate DEF Puts
<1>4. out \in Contents
  BY <1>2 DEF Contents
<1>5. n.fp = "none"
  BY FileFields
<1>6. new[t] = out
  BY <1>3 DEF DataInv, VolumeOK
<1> HIDE DEF t, out, n, new
<1>7. CASE rq[w].fp = "write" /\ Change(w, n, {t}, new) /\ UNCHANGED cat
  <2>1. PICK C : C = {t}
    OBVIOUS
  <2>2. /\ Change(w, n, C, new) /\ \A u \in C : new[u] \in Contents /\ u[1] \in Scope(rq[w].r)
    BY <1>3, <1>4, <1>6, <1>7, <2>1
  <2>3. n.fp # rq[w].fp
    BY <1>5, <1>7
  <2> QED
    BY <1>3, <1>7, <2>2, <2>3, ChangeEffect
<1>8. CASE Go(w, n)
  BY <1>8, GoEffect
<1> QED
  BY <1>1, <1>7, <1>8

\* The catalog stays as it is, and so does all that is out of the scope of the request.
LEMMA StoreEffect ==
    ASSUME DataInv, NEW w \in Workers, NEW n, NEW C, NEW new, Change(w, n, C, new), UNCHANGED cat,
           \A u \in C : new[u] \in Contents /\ u[1] \in Scope(rq[w].r),
           n.pc # rq[w].pc, rq[w].r # None, Permitted(rq[w].r)
    PROVE  Effect(w)
BY ChangeEffect

LEMMA FailsEffect ==
    ASSUME DataInv, NEW w \in Workers, PutFails(w), rq[w].pc \in WriteSteps PROVE Effect(w)
<1>1. rq[w] \in Request /\ Len(rq[w].out) \in Nat /\ "500" \in Answers
  BY TypedRequest DEF Request, Answers
<1> DEFINE q == Answer(w, "500")
           m == [q EXCEPT !.buf = FALSE]
<1>2. q \in Request
  BY <1>1, AnsweredFields DEF Answer
<1>3. CloseTarget(w, m, Len(rq[w].out))
  BY DEF PutFails
<1> HIDE DEF q
<1>4. m \in Request
  BY <1>2, BufFields
<1> HIDE DEF m
<1> QED
  BY <1>1, <1>3, <1>4, CloseEffect

LEMMA OpenEffect ==
    ASSUME DataInv, NEW w \in Workers, MbPutProbe(w) \/ PutOpen(w) \/ PutFinish(w) PROVE Effect(w)
<1>1. rq[w] \in Request /\ Good(rq[w], cat, data)
  BY TypedRequest
<1>2. CASE MbPutProbe(w)
  <2> DEFINE q == To(w, "alloc")
             there == data[T(w)] # None
             m == [q EXCEPT !.create = TRUE, !.blind = there]
             a == OpenFailure(<<T(w)[1], None>>)
             n == Answer(w, a)
  <2>1. /\ rq[w].pc = "probe" /\ rq[w].r.op = "mbPut"
        /\ Go(w, q) \/ OpenWriteTarget(w, m) \/ OpenWriteFails(w, n) \/ Go(w, n)
    BY <1>2, Zenon DEF MbPutProbe, At
  <2>2. "alloc" \in Steps /\ a \in Answers /\ rq[w].r.op \in Puts
    BY <2>1, FailureTypes DEF Steps, Answers, Puts
  <2>3. q \in Request
    BY <1>1, <2>2, MovedFields DEF To
  <2>4. n.pc = "answer"
    BY <1>1, <2>2, AnsweredFields DEF Answer
  <2>5. rq[w].fp = "none"
    BY <2>1, WriteStart
  <2> HIDE DEF q, a, n
  <2>6. \A b, d \in BOOLEAN : [q EXCEPT !.create = b, !.blind = d] \in Request
    BY <2>3 DEF Request
  <2>7. m \in Request
    BY <2>6, Zenon
  <2> HIDE DEF m
  <2> QED
    BY <2>1, <2>2, <2>4, <2>5, <2>7, GoEffect, OpenWriteEffect, OpenFailsEffect
<1>3. CASE PutOpen(w)
  <2> DEFINE q == Answer(w, "500")
             m == [q EXCEPT !.buf = FALSE]
  <2>1. /\ rq[w].pc = "record" /\ rq[w].fp = "none"
        /\ OpenWriteTarget(w, rq[w]) \/ OpenWriteFails(w, m)
    BY <1>3, Zenon DEF PutOpen
  <2>2. "500" \in Answers /\ rq[w].pc \in WriteSteps
    BY <2>1 DEF Answers, WriteSteps
  <2>3. q \in Request /\ q.pc = "answer"
    BY <1>1, <2>2, AnsweredFields DEF Answer
  <2> HIDE DEF q
  <2>4. m.pc = "answer"
    BY <2>3, BufFields
  <2> HIDE DEF m
  <2>5. rq[w].r.op \in Puts
    BY <2>2, Writing
  <2> QED
    BY <1>1, <2>1, <2>4, <2>5, OpenWriteEffect, OpenFailsEffect
<1>4. CASE PutFinish(w)
  <2> DEFINE q == To(w, "close")
             n == Answer(w, "500")
  <2>1. /\ rq[w].pc = "finish"
        /\ Go(w, q) \/ (rq[w].fp = "none" /\ (OpenWriteTarget(w, q) \/ OpenWriteFails(w, n)))
    BY <1>4, Zenon DEF PutFinish
  <2>2. "500" \in Answers /\ rq[w].pc \in WriteSteps /\ "close" \in Steps
    BY <2>1 DEF Answers, WriteSteps, Steps
  <2>3. q \in Request /\ n.pc = "answer"
    BY <1>1, <2>2, MovedFields, AnsweredFields DEF Answer, To
  <2>4. rq[w].r.op \in Puts
    BY <2>2, Writing
  <2> HIDE DEF q, n
  <2> QED
    BY <2>1, <2>3, <2>4, GoEffect, OpenWriteEffect, OpenFailsEffect
<1> QED
  BY <1>2, <1>3, <1>4

LEMMA RecordEffect ==
    ASSUME DataInv, NEW w \in Workers, PutRecord(w) PROVE Effect(w)
<1> DEFINE k == rq[w].n + 1
           q == To(w, "body")
           long == R(w).body[k] \in Long
<1>1. rq[w].pc = "record" /\ rq[w].fp = "write" /\ (WriteRecord(w, k) \/ PutFails(w))
  BY Zenon DEF PutRecord
<1>2. "record" \in WriteSteps
  BY DEF WriteSteps
<1>3. /\ Good(rq[w], cat, data) /\ rq[w] \in Request /\ rq[w].r.op \in Puts
      /\ rq[w].r.body \in Seq(Recs) /\ rq[w].n \in Nat /\ T(w) \in Targets /\ T(w) = rq[w].r.t
      /\ rq[w].r # None
  BY <1>1, <1>2, Writing
<1>4. CASE PutFails(w)
  BY <1>1, <1>2, <1>4, FailsEffect
<1>5. CASE WriteRecord(w, k)
  <2>1. k \in 1 .. Len(rq[w].r.body) /\ k \in Nat
    BY <1>1, <1>3 DEF Good, Framed, Origin
  <2>0. /\ Stored(R(w).body)[k] \in Stores /\ Broken \in Stores
        /\ \A e \in Stores, s \in Seq(Stores) : WriteAt(s, k, e) \in Seq(Stores)
    BY <1>3, <2>1, RecordTypes DEF R
  <2>9. PICK rec \in Stores : RecordAt(w, k, rec)
    BY <1>5, <2>0, Zenon DEF WriteRecord, RecordAt
  <2>2. \A s \in Seq(Stores) : WriteAt(s, k, rec) \in Seq(Stores)
    BY <2>0
  <2> DEFINE n == [q EXCEPT !.n = k, !.out = Append(q.out, rec), !.cut = q.cut \/ long]
             new == [data EXCEPT ![T(w)] = WriteAt(data[T(w)], k, rec)]
  <2>3. \/ T(w)[2] = None /\ Change(w, n, {T(w)}, new) /\ UNCHANGED cat
        \/ Go(w, n)
    BY <2>9, Zenon DEF RecordAt
  <2>4. q \in Request /\ q.pc = "body"
    BY <1>3, MovedFields DEF To, Steps
  <2> HIDE DEF k, q, long
  <2>5. \A b, o : [q EXCEPT !.n = k, !.out = o, !.cut = b].pc = "body"
    BY <2>4 DEF Request
  <2>6. n.pc = "body"
    BY <2>5, Zenon
  <2> HIDE DEF n
  <2>7. CASE T(w)[2] = None /\ Change(w, n, {T(w)}, new) /\ UNCHANGED cat
    <3>1. cat[T(w)[1]] = "PS"
      BY <1>1, <1>3, <2>7, OpenIsCataloged
    <3>2. data[T(w)] \in Seq(Stores)
      BY <1>3, <2>7, <3>1 DEF DataInv, VolumeOK, Contents
    <3>3. new[T(w)] \in Contents
      BY <1>3, <2>2, <3>2 DEF DataInv, VolumeOK, Contents
    <3> HIDE DEF new
    <3>4. rq[w].r.t[1] \in Scope(rq[w].r) /\ Permitted(rq[w].r)
      BY <1>1, <1>3, InScope DEF Good, Gated, Puts
    <3>5. PICK C : C = {T(w)}
      OBVIOUS
    <3>6. Change(w, n, C, new) /\ \A u \in C : new[u] \in Contents /\ u[1] \in Scope(rq[w].r)
      BY <1>3, <2>7, <3>3, <3>4, <3>5
    <3>7. n.pc # rq[w].pc
      BY <1>1, <2>6
    <3> QED
      BY <1>3, <2>7, <3>4, <3>6, <3>7, StoreEffect
  <2>8. CASE Go(w, n)
    BY <2>8, GoEffect
  <2> QED
    BY <2>3, <2>7, <2>8
<1> QED
  BY <1>1, <1>4, <1>5

LEMMA CloseStepEffect ==
    ASSUME DataInv, NEW w \in Workers, PutClose(w) \/ PutAbend(w) PROVE Effect(w)
<1>1. /\ rq[w].pc \in {"record", "close"}
      /\ \/ CloseTarget(w, To(w, "written"), Len(rq[w].out))
         \/ \E k \in 0 .. Len(rq[w].out) : CloseTarget(w, Answer(w, "500"), k)
         \/ CloseTarget(w, Answer(w, "abend"), Len(rq[w].out))
  BY Zenon DEF PutClose, PutAbend
<1>2. rq[w].pc \in WriteSteps
  BY <1>1 DEF WriteSteps
<1>3. rq[w] \in Request /\ Len(rq[w].out) \in Nat /\ \A k \in 0 .. Len(rq[w].out) : k \in Nat
  BY <1>2, Writing
<1>4. "written" \in Steps /\ "500" \in Answers /\ "abend" \in Answers
  BY DEF Steps, Answers
<1>5. To(w, "written") \in Request /\ Answer(w, "500") \in Request /\ Answer(w, "abend") \in Request
  BY <1>3, <1>4, MovedFields, AnsweredFields DEF To, Answer
<1> QED
  BY <1>1, <1>2, <1>3, <1>5, CloseEffect

\* A write: each of its other steps changes only the request.
LEMMA WriteEffect ==
    ASSUME DataInv, NEW w \in Workers, Write(w) PROVE Effect(w)
<1>1. CASE DsPutGate(w) \/ MbPutGate(w)
  <2>1. \E n : Go(w, n)
    BY <1>1, Zenon DEF DsPutGate, MbPutGate, Gate
  <2> QED
    BY <2>1, GoEffect
<1>2. CASE DsPutProbe(w) \/ MbPutCatalog(w) \/ DsPutCount(w) \/ DsPutStampCount(w)
  <2>1. \E n : Go(w, n)
    BY <1>2, Zenon DEF DsPutProbe, MbPutCatalog, DsPutCount, Count, DsPutStampCount
  <2> QED
    BY <2>1, GoEffect
<1>3. CASE DsPutMatch(w) \/ MbPutMatch(w) \/ PutStamp(w)
  <2>1. \E n : Go(w, n)
    BY <1>3, Zenon DEF DsPutMatch, MbPutMatch, CheckIfMatch, PutStamp, Etag
  <2> QED
    BY <2>1, GoEffect
<1>4. CASE DsPutWritten(w) \/ MbPutWritten(w)
  <2>1. \E n : Go(w, n)
    BY <1>4, Zenon DEF DsPutWritten, MbPutWritten, PutWritten
  <2> QED
    BY <2>1, GoEffect
<1>5. CASE \/ PutAlloc(w) \/ DsPutFrame(w) \/ MbPutFrame(w) \/ DsPutBodyEnd(w) \/ MbPutBodyEnd(w)
  <2>1. rq[w].pc \in {"alloc", "body"} /\ (PutFails(w) \/ \E n : Go(w, n))
    BY <1>5, Zenon DEF PutAlloc, DsPutFrame, MbPutFrame, PutFrame, DsPutBodyEnd, MbPutBodyEnd,
       PutBodyEnd, At
  <2>2. rq[w].pc \in WriteSteps
    BY <2>1 DEF WriteSteps
  <2> QED
    BY <2>1, <2>2, FailsEffect, GoEffect
<1> QED
  BY <1>1, <1>2, <1>3, <1>4, <1>5, OpenEffect, RecordEffect, CloseStepEffect DEF Write

\* A request that acts is permitted; the create asks for its authority as it acts.
LEMMA ActsPermitted ==
    ASSUME DataInv, NEW w \in Workers, rq[w].pc = "act", rq[w].r.op # "mbList"
    PROVE  /\ rq[w].r.op # "dsCreate" => Permitted(rq[w].r)
           /\ rq[w].r.op = "dsCreate" /\ RequireAccess(w, T(w)[1], ALTER) => Permitted(rq[w].r)
           /\ rq[w].r # None /\ rq[w].r.op \notin Puts /\ T(w)[1] \in Names
           /\ T(w)[1] \in Scope(rq[w].r) /\ T(w) \in Targets
           /\ \A a \in Answers : Answer(w, a).pc # rq[w].pc
<1>1. /\ Good(rq[w], cat, data) /\ rq[w] \in Request /\ rq[w].r # None /\ rq[w].r.op \notin Puts
      /\ T(w) \in Targets /\ T(w) = rq[w].r.t /\ T(w)[1] \in Names
  BY Acting
<1>2. rq[w].r.op # "dsCreate" => Permitted(rq[w].r)
  BY <1>1 DEF Good, Gated
<1>3. rq[w].r.op = "dsCreate" /\ RequireAccess(w, T(w)[1], ALTER) => Permitted(rq[w].r)
  BY GateIsPermit, NeededFor
<1>4. T(w)[1] \in Scope(rq[w].r)
  BY <1>1, InScope
<1>5. \A a \in Answers : Answer(w, a).pc # rq[w].pc
  BY <1>1, AnsweredFields DEF Answer
<1> QED
  BY <1>1, <1>2, <1>3, <1>4, <1>5

LEMMA CreateEffect ==
    ASSUME DataInv, NEW w \in Workers, DsCreateAllocate(w) PROVE Effect(w)
<1> DEFINE d == T(w)[1]
           org == IF R(w).from = None THEN "PS" ELSE cat[R(w).from[1]]
           t == <<d, None>>
           x == IF org = "PS" THEN << >> ELSE None
           new == [data EXCEPT ![t] = x]
           n == Answer(w, "201")
<1>1. /\ rq[w].pc = "act" /\ rq[w].r.op = "dsCreate"
      /\ \/ RequireAccess(w, d, ALTER) /\ cat' = [cat EXCEPT ![d] = org] /\ Change(w, n, {t}, new)
         \/ Go(w, Answer(w, "500"))
  BY Zenon DEF DsCreateAllocate, At
<1>2. "201" \in Answers
  BY DEF Answers
<1>3. /\ RequireAccess(w, d, ALTER) => Permitted(rq[w].r)
      /\ rq[w].r # None /\ rq[w].r.op \notin Puts /\ d \in Names /\ d \in Scope(rq[w].r)
      /\ n.pc # rq[w].pc
  BY <1>1, <1>2, ActsPermitted
<1>4. t \in Targets /\ t[1] = d
  BY <1>3, OneTarget
<1>5. << >> \in Seq(Stores)
  OBVIOUS
<1>6. x \in Contents
  BY <1>5 DEF Contents
<1> HIDE DEF org, x, n, d, t
<1>7. new[t] = x
  BY <1>4 DEF DataInv, VolumeOK
<1>8. CASE Go(w, Answer(w, "500"))
  BY <1>8, GoEffect
<1>9. CASE RequireAccess(w, d, ALTER) /\ cat' = [cat EXCEPT ![d] = org] /\ Change(w, n, {t}, new)
  <2> HIDE DEF new
  <2>1. \A y \in Names : y # d => cat'[y] = cat[y]
    BY <1>9 DEF DataInv, VolumeOK
  <2>2. PICK C : C = {t}
    OBVIOUS
  <2>3. Change(w, n, C, new) /\ \A u \in C : new[u] \in Contents /\ u[1] \in Scope(rq[w].r)
    BY <1>3, <1>4, <1>6, <1>7, <1>9, <2>2
  <2>4. \A y \in Names \ Scope(rq[w].r) : cat'[y] = cat[y]
    BY <1>3, <2>1
  <2> QED
    BY <1>3, <1>9, <2>3, <2>4, ChangeEffect
<1> QED
  BY <1>1, <1>8, <1>9

LEMMA RenameEffect ==
    ASSUME DataInv, NEW w \in Workers, DsRename(w) PROVE Effect(w)
<1> DEFINE d == R(w).from[1]
           e == T(w)[1]
           C == Of(d) \cup Of(e)
           new == [t \in Targets |-> IF t[1] = e THEN data[<<d, t[2]>>] ELSE None]
           n == Answer(w, "204")
<1>1. /\ rq[w].pc = "act" /\ rq[w].r.op = "dsRename"
      /\ \/ cat' = [cat EXCEPT ![e] = cat[d], ![d] = "none"] /\ Change(w, n, C, new)
         \/ Go(w, Answer(w, "500"))
  BY Zenon DEF DsRename, At
<1>2. "204" \in Answers
  BY DEF Answers
<1>3. /\ Permitted(rq[w].r) /\ rq[w].r # None /\ rq[w].r.op \notin Puts /\ n.pc # rq[w].pc
      /\ e \in Names /\ e \in Scope(rq[w].r)
  BY <1>1, <1>2, ActsPermitted
<1>4. d \in Names /\ d \in Scope(rq[w].r)
  <2>1. rq[w].r.from \in Targets
    BY <1>1, <1>3, TypedRequest, AskedFor, Asked
  <2> QED
    BY <1>1, <2>1, TargetParts, InScope DEF R
<1> HIDE DEF n, d, e
<1>5. CASE Go(w, Answer(w, "500"))
  BY <1>5, GoEffect
<1>6. CASE cat' = [cat EXCEPT ![e] = cat[d], ![d] = "none"] /\ Change(w, n, C, new)
  <2>1. \A u \in C : u \in Targets /\ u[1] \in Scope(rq[w].r)
    BY <1>3, <1>4 DEF Of
  <2>2. ASSUME NEW u \in Targets PROVE new[u] \in Contents
    <3>1. <<d, u[2]>> \in Targets
      BY <1>4, TargetParts, OneTarget
    <3>2. data[<<d, u[2]>>] \in Contents /\ None \in Contents
      BY <3>1 DEF Contents, DataInv, VolumeOK
    <3> QED
      BY <3>2
  <2>3. \A x \in Names : x # d /\ x # e => cat'[x] = cat[x]
    BY <1>6 DEF DataInv, VolumeOK
  <2> HIDE DEF C, new
  <2>4. \A x \in Names \ Scope(rq[w].r) : cat'[x] = cat[x]
    BY <1>3, <1>4, <2>3
  <2> QED
    BY <1>3, <1>6, <2>1, <2>2, <2>4, ChangeEffect
<1> QED
  BY <1>1, <1>5, <1>6

LEMMA DeleteEffect ==
    ASSUME DataInv, NEW w \in Workers, DsDelete(w) PROVE Effect(w)
<1> DEFINE d == T(w)[1]
           C == Of(d)
           new == [t \in Targets |-> None]
           n == Answer(w, "204")
<1>1. /\ rq[w].pc = "act" /\ rq[w].r.op = "dsDelete"
      /\ \/ cat' = [cat EXCEPT ![d] = "none"] /\ Change(w, n, C, new)
         \/ Go(w, Answer(w, "500"))
  BY Zenon DEF DsDelete, At
<1>2. "204" \in Answers
  BY DEF Answers
<1>3. /\ Permitted(rq[w].r) /\ rq[w].r # None /\ rq[w].r.op \notin Puts /\ n.pc # rq[w].pc
      /\ d \in Names /\ d \in Scope(rq[w].r)
  BY <1>1, <1>2, ActsPermitted
<1> HIDE DEF n, d
<1>4. CASE Go(w, Answer(w, "500"))
  BY <1>4, GoEffect
<1>5. CASE cat' = [cat EXCEPT ![d] = "none"] /\ Change(w, n, C, new)
  <2>1. \A u \in C : u[1] \in Scope(rq[w].r) /\ new[u] \in Contents
    BY <1>3 DEF Of, Contents
  <2>2. \A x \in Names : x # d => cat'[x] = cat[x]
    BY <1>5 DEF DataInv, VolumeOK
  <2> HIDE DEF C, new
  <2>3. \A x \in Names \ Scope(rq[w].r) : cat'[x] = cat[x]
    BY <1>3, <2>2
  <2> QED
    BY <1>3, <1>5, <2>1, <2>3, ChangeEffect
<1> QED
  BY <1>1, <1>4, <1>5

LEMMA MembersEffect ==
    ASSUME DataInv, NEW w \in Workers, MbRename(w) \/ MbDelete(w) PROVE Effect(w)
<1> DEFINE old == R(w).from
           t == T(w)
           n == Answer(w, "204")
           moved == [data EXCEPT ![t] = data[old], ![old] = None]
           less == [data EXCEPT ![t] = None]
<1>1. /\ rq[w].pc = "act" /\ rq[w].r.op \in {"mbRename", "mbDelete"}
      /\ \/ rq[w].r.op = "mbRename" /\ Change(w, n, {old, t}, moved) /\ UNCHANGED cat
         \/ Change(w, n, {t}, less) /\ UNCHANGED cat
         \/ \E m : Go(w, m)
  BY Zenon DEF MbRename, MbDelete, At
<1>2. "204" \in Answers
  BY DEF Answers
<1>3. /\ Permitted(rq[w].r) /\ rq[w].r # None /\ n.pc # rq[w].pc
      /\ t \in Targets /\ t[1] \in Scope(rq[w].r)
  BY <1>1, <1>2, ActsPermitted
<1>4. data \in [Targets -> Contents] /\ None \in Contents
  BY DEF DataInv, VolumeOK, Contents
<1>5. rq[w].r.op = "mbRename" => old \in Targets /\ old[1] = t[1]
  BY <1>3, TypedRequest, AskedFor, Asked DEF R, T
<1> HIDE DEF n, t, old
<1>6. CASE rq[w].r.op = "mbRename" /\ Change(w, n, {old, t}, moved) /\ UNCHANGED cat
  <2>1. moved \in [Targets -> Contents]
    BY <1>3, <1>4, <1>5, <1>6
  <2> HIDE DEF moved
  <2>2. PICK C : C = {old, t}
    OBVIOUS
  <2>3. Change(w, n, C, moved) /\ \A u \in C : moved[u] \in Contents /\ u[1] \in Scope(rq[w].r)
    BY <1>3, <1>5, <1>6, <2>1, <2>2
  <2> QED
    BY <1>3, <1>6, <2>3, StoreEffect
<1>7. CASE Change(w, n, {t}, less) /\ UNCHANGED cat
  <2>1. less[t] \in Contents
    BY <1>3, <1>4
  <2> HIDE DEF less
  <2>2. PICK C : C = {t}
    OBVIOUS
  <2>3. Change(w, n, C, less) /\ \A u \in C : less[u] \in Contents /\ u[1] \in Scope(rq[w].r)
    BY <1>3, <1>7, <2>1, <2>2
  <2> QED
    BY <1>3, <1>7, <2>3, StoreEffect
<1> QED
  BY <1>1, <1>6, <1>7, GoEffect

LEMMA ManageEffect ==
    ASSUME DataInv, NEW w \in Workers, Manage(w) PROVE Effect(w)
<1>1. CASE \/ DsCreateModel(w) \/ DsRenameGate(w) \/ MbRenameGate(w) \/ DsDeleteGate(w)
           \/ MbDeleteGate(w)
  <2>1. \E n : Go(w, n)
    BY <1>1, Zenon DEF DsCreateModel, DsRenameGate, MbRenameGate, DsDeleteGate, MbDeleteGate, Gate
  <2> QED
    BY <2>1, GoEffect
<1> QED
  BY <1>1, CreateEffect, RenameEffect, DeleteEffect, MembersEffect DEF Manage

\* A read, the start of a request and its end change the request alone.
LEMMA ReadEffect ==
    ASSUME DataInv, NEW w \in Workers, Accept(w) \/ Respond(w) \/ Read(w) PROVE Effect(w)
<1>1. CASE Accept(w) \/ Respond(w)
  <2>1. \E n : Go(w, n)
    BY <1>1, Zenon DEF Accept, Respond, Go
  <2> QED
    BY <2>1, GoEffect
<1>2. CASE DsGetGate(w) \/ MbGetGate(w) \/ MbListGate(w)
  <2>1. \E n : Go(w, n)
    BY <1>2, Zenon DEF DsGetGate, MbGetGate, MbListGate, Gate
  <2> QED
    BY <2>1, GoEffect
<1>3. CASE DsGetCount(w) \/ DsGetHash(w) \/ MbGetHash(w) \/ DsGetBound(w)
  <2>1. \E n : Go(w, n)
    BY <1>3, Zenon DEF DsGetCount, Count, DsGetHash, MbGetHash, Etag, DsGetBound
  <2> QED
    BY <2>1, GoEffect
<1>4. CASE DsGetOpen(w) \/ MbGetOpen(w) \/ ReadAndSend(w) \/ MbListOpen(w) \/ MbListScan(w)
  <2>1. \E n : Go(w, n)
    BY <1>4, Zenon DEF DsGetOpen, MbGetOpen, OpenToRead, ReadAndSend, MbListOpen, MbListScan
  <2> QED
    BY <2>1, GoEffect
<1> QED
  BY <1>1, <1>2, <1>3, <1>4 DEF Read

LEMMA NextEffect ==
    ASSUME DataInv, Next, ~UNCHANGED vars PROVE \E w \in Workers : Effect(w)
BY ReadEffect, WriteEffect, ManageEffect DEF Next, Finished

\* A handler changes the catalog or a content only under the authority its gate asked for,
\* for a name the request names, although it asks once and acts in a later step; and a PUT
\* allocates no data set unless the one it had checked is removed before the output open
\* (src/dsapi.c, require_access, datasetPutHandler, memberPutHandler).
THEOREM ChangesArePermitted == Spec => OnlyPermitted
<1>1. ASSUME DataInv, NEW w \in Workers, Effect(w), NEW d \in Names,
             cat'[d] # cat[d] \/ \E t \in Of(d) : data'[t] # data[t]
      PROVE  Moves(w) /\ rq[w].r # None /\ d \in Scope(R(w)) /\ Permitted(R(w))
  BY <1>1 DEF Effect, Within, R
<1>2. ASSUME DataInv, NEW w \in Workers, Effect(w), NEW v \in Workers, NEW d \in Names,
             Moves(v), rq[v].r # None, R(v).op \in Puts, cat[d] = "none", cat'[d] # "none"
      PROVE  rq[v].gone
  <2>1. v = w
    BY <1>2 DEF Effect, Moves
  <2>2. Within(w)
    BY <1>2 DEF Effect
  <2> QED
    BY <1>2, <2>1, <2>2 DEF Within, R
<1>3. DataInv /\ [Next]_vars =>
        [\A d \in Names :
           (cat'[d] # cat[d] \/ \E t \in Of(d) : data'[t] # data[t]) =>
              \E w \in Workers : Moves(w) /\ rq[w].r # None /\ d \in Scope(R(w))
                                 /\ Permitted(R(w))]_vars
  BY <1>1, NextEffect
<1>4. DataInv /\ [Next]_vars =>
        [\A w \in Workers, d \in Names :
           Moves(w) /\ rq[w].r # None /\ R(w).op \in {"dsPut", "mbPut"}
             /\ cat[d] = "none" /\ cat'[d] # "none" => rq[w].gone]_vars
  BY <1>2, NextEffect DEF Puts
<1>5. Spec => Authorized
  BY <1>3, DataInvariant, PTL DEF Spec, Authorized
<1>6. Spec => NoStrayDataSet
  BY <1>4, DataInvariant, PTL DEF Spec, NoStrayDataSet
<1> QED
  BY <1>5, <1>6 DEF OnlyPermitted

-----------------------------------------------------------------------------
(* What a write stores and what a stamp stands for.                        *)
(*                                                                         *)
(* Until another request changes the target, which the model notes in      *)
(* dirty, a write has put there the records it counts and a stamp is the   *)
(* content: of a data set because the bound of the read pass is its record *)
(* count, of a member because it is read without one.                      *)

\* The first n records of a body, as the data set d may store them.
PartOf(s, d, b, n) ==
    /\ s \in Seq(Stores) /\ Len(s) = n
    /\ \A i \in 1 .. n : s[i] = Stored(b)[i] \/ (d \in Spanned /\ s[i] = Broken)

\* No record of a body is longer than the record length.
Fitting(b) == \A i \in 1 .. Len(b) : b[i] \notin Long

\* What a write has stored.
BodyOK(q, D) ==
    q.r # None /\ q.r.op \in Puts =>
      /\ q.pc \notin DoneSteps \cup {"answer"} /\ q.fp # "write" => q.n = 0
      /\ q.pc \in {"finish", "close"} \cup DoneSteps => q.n = Len(q.r.body)
      /\ q.pc # "answer" => q.cut \/ \A i \in 1 .. q.n : q.r.body[i] \notin Long
      /\ q.fp = "write" =>
           /\ PartOf(q.out, q.r.t[1], q.r.body, q.n)
           /\ q.r.t[2] = None => q.dirty \/ PartOf(D[q.r.t], q.r.t[1], q.r.body, q.n)
      /\ q.pc = "written" => q.dirty \/ StoredAs(D[q.r.t], q.r.t[1], q.r.body)
      /\ q.pc \in {"scount", "stamp"} \/ (q.pc = "answer" /\ q.ans = "204") => Fitting(q.r.body)

\* The record count of a target, as get_fb_record_count finds it.
Bound(D, t) == IF D[t] # None /\ t[1] \in Fixed /\ t[2] = None THEN Len(D[t]) ELSE -1

\* The stamp a client holds is what its target has, unless that was changed since.
Fresh(h, D) == h.t # None => h.stamp # None /\ (h.dirty \/ h.stamp = D[h.t])

\* The bound of a stamp pass is the record count.
Bounded(q, h, D) ==
    /\ q.pc \in {"hash", "match", "stamp"} => q.dirty \/ q.max = Bound(D, q.r.t)
    /\ q.pc = "match" => h.dirty \/ q.max = Bound(D, q.r.t)

\* The steps from the check of If-Match to the output open.
Checked(q) == q.pc \in {"alloc", "body", "record", "finish"} \/ (q.pc = "probe" /\ q.r.op = "mbPut")

Conditioned(q, h, D) ==
    /\ q.r # None /\ q.r.cond => h.t = q.r.t
    /\ q.pc = "match" \/ (q.pc = "pcount" /\ q.r.op = "dsPut") => q.r.cond
    /\ q.ans = "412" => q.err \/ h.dirty
    /\ q.r # None /\ Checked(q) /\ q.r.cond /\ q.fp # "write" => q.dirty \/ D[q.r.t] = h.stamp

\* The stamp of a request is what its target has, and what a text read has sent.
Stamped(q, D) ==
    /\ q.stamp # None =>
         /\ q.pc \in {"bcount", "open", "read", "answer"}
         /\ q.pc = "open" => q.r.op # "mbList"
         /\ q.pc # "answer" \/ q.ans \in {"200", "204"} => q.dirty \/ q.stamp = D[q.r.t]
    /\ q.pc = "answer" /\ q.ans = "200" /\ q.stamp # None /\ q.r.mode = "text" =>
         q.dirty \/ q.stamp = q.got

Traced(q, h, D) == BodyOK(q, D) /\ Bounded(q, h, D) /\ Conditioned(q, h, D) /\ Stamped(q, D)

TraceInv == \A w \in Workers : Traced(rq[w], held[w], data) /\ Fresh(held[w], data)

\* A step that keeps it; a target is opened for output after the check only.
Opening(q, n) == n.fp = "write" => q.fp = "write" \/ Checked(q)

TraceStep == TraceInv' /\ \A w \in Workers : Opening(rq[w], rq'[w])

LEMMA IdleTraced ==
    ASSUME NEW h, NEW D PROVE Traced(NoRequest, h, D)
<1>1. /\ NoRequest.pc = "idle" /\ NoRequest.r = None /\ NoRequest.ans = "none"
      /\ NoRequest.stamp = None
  BY DEF NoRequest
<1> QED
  BY <1>1 DEF Traced, BodyOK, Bounded, Conditioned, Checked, Stamped

LEMMA InitTrace == Init => TraceInv
<1> SUFFICES ASSUME Init, NEW w \in Workers
             PROVE  Traced(rq[w], held[w], data) /\ Fresh(held[w], data)
  BY DEF TraceInv
<1>1. rq[w] = NoRequest
  BY DEF Init
<1>2. \/ held[w] = NoStamp
      \/ \E t \in Targets : data[t] # None /\ held[w] = [t |-> t, stamp |-> data[t], dirty |-> FALSE]
  BY Zenon DEF Init
<1>3. NoStamp.t = None
  BY DEF NoStamp
<1>4. ASSUME NEW t \in Targets, data[t] # None,
             held[w] = [t |-> t, stamp |-> data[t], dirty |-> FALSE]
      PROVE  held[w].t = t /\ held[w].stamp = data[t]
  <2>1. \A b : [t |-> t, stamp |-> data[t], dirty |-> b].t = t
               /\ [t |-> t, stamp |-> data[t], dirty |-> b].stamp = data[t]
    OBVIOUS
  <2> QED
    BY <1>4, <2>1, Zenon
<1> QED
  BY <1>1, <1>2, <1>3, <1>4, IdleTraced DEF Fresh

\* The worker goes on; nothing on the volume changes.
LEMMA GoTrace ==
    ASSUME DataInv, TraceInv, NEW w \in Workers, NEW n, Go(w, n), UNCHANGED held,
           Traced(n, held[w], data), Opening(rq[w], n)
    PROVE  TraceStep
BY DEF DataInv, TraceInv, TraceStep, Opening, Go

\* A holder of a stamp after a change of the targets C.
LEMMA DirtyFields ==
    ASSUME NEW h \in Holder
    PROVE  LET g == [h EXCEPT !.dirty = TRUE] IN g.t = h.t /\ g.stamp = h.stamp /\ g.dirty
<1>1. \A b \in BOOLEAN : LET g == [h EXCEPT !.dirty = b] IN
        g.t = h.t /\ g.stamp = h.stamp /\ g.dirty = b
  BY DEF Holder
<1>2. TRUE \in BOOLEAN
  BY Zenon
<1> QED
  BY <1>1, <1>2, Zenon

\* The holder of a stamp after a change.
After(h, g) == g.t = h.t /\ g.stamp = h.stamp /\ (h.dirty => g.dirty)

LEMMA HeldAfter ==
    ASSUME DataInv, NEW w, NEW n, NEW C, NEW contents, Change(w, n, C, contents), NEW v \in Workers
    PROVE  After(held[v], held'[v]) /\ (held[v].t \in C => held'[v].dirty)
<1>1. held'[v] = IF held[v].t \in C THEN [held[v] EXCEPT !.dirty = TRUE] ELSE held[v]
  BY Zenon DEF Change
<1>2. held[v] \in Holder
  BY DEF DataInv
<1>3. CASE held[v].t \in C
  <2> DEFINE g == [held[v] EXCEPT !.dirty = TRUE]
  <2>1. g.t = held[v].t /\ g.stamp = held[v].stamp /\ g.dirty
    BY <1>2, DirtyFields
  <2>2. held'[v] = g
    BY <1>1, <1>3
  <2> HIDE DEF g
  <2> QED
    BY <2>1, <2>2 DEF After
<1>4. CASE held[v].t \notin C
  BY <1>1, <1>4 DEF After
<1> QED
  BY <1>3, <1>4

\* The request of another worker whose target was changed: it is marked.
LEMMA TouchedTraced ==
    ASSUME NEW q, NEW x, NEW h, NEW g, NEW D, NEW D2, Traced(q, h, D), After(h, g),
           h.t = q.r.t => g.dirty, x.dirty, q.r # None,
           x.pc = q.pc, x.r = q.r, x.fp = q.fp, x.n = q.n, x.ans = q.ans, x.max = q.max,
           x.out = q.out, x.cut = q.cut, x.stamp = q.stamp, x.got = q.got, x.err = q.err
    PROVE  Traced(x, g, D2)
<1>1. BodyOK(x, D2)
  BY DEF Traced, BodyOK
<1>2. Bounded(x, g, D2)
  BY DEF Traced, Bounded, Conditioned
<1>3. Conditioned(x, g, D2)
  BY DEF Traced, Conditioned, Checked, After
<1>4. Stamped(x, D2)
  BY DEF Traced, Stamped
<1> QED
  BY <1>1, <1>2, <1>3, <1>4 DEF Traced

LEMMA UntouchedTraced ==
    ASSUME NEW q, NEW h, NEW g, NEW D, NEW D2, Traced(q, h, D), After(h, g),
           q.pc = "idle" <=> q.r = None, q.r # None => D2[q.r.t] = D[q.r.t]
    PROVE  Traced(q, g, D2)
<1>1. BodyOK(q, D2)
  BY DEF Traced, BodyOK
<1>2. q.r # None => Bound(D2, q.r.t) = Bound(D, q.r.t)
  BY DEF Bound
<1>3. Bounded(q, g, D2)
  BY <1>2 DEF Traced, Bounded, After
<1>4. Conditioned(q, g, D2)
  BY DEF Traced, Conditioned, Checked, After
<1>5. Stamped(q, D2)
  BY DEF Traced, Stamped
<1> QED
  BY <1>1, <1>3, <1>4, <1>5 DEF Traced

LEMMA MarkedFields ==
    ASSUME NEW q \in Request, NEW d \in BOOLEAN, NEW x \in Contents, NEW g \in BOOLEAN
    PROVE  LET n == Touched(q, d, x, g) IN
           /\ n.dirty = d /\ n.out = q.out /\ n.cut = q.cut /\ n.stamp = q.stamp
           /\ n.got = q.got /\ n.err = q.err
BY DEF Touched, Request

\* A step that changes the targets C.
LEMMA ChangeTrace ==
    ASSUME DataInv, TraceInv, NEW w \in Workers, NEW n, NEW C, NEW contents,
           Change(w, n, C, contents), \A t \in C : contents[t] \in Contents,
           Traced(n, held'[w], data'), Opening(rq[w], n)
    PROVE  TraceStep
<1> DEFINE new(v) == Touched(rq[v], TRUE, contents[rq[v].r.t],
                             rq[v].gone \/ contents[rq[v].r.t] = None)
<1>1. rq' = [v \in Workers |->
               IF v = w THEN n
               ELSE IF rq[v].r # None /\ rq[v].r.t \in C THEN new(v) ELSE rq[v]]
  BY Zenon DEF Change, Touched
<1>2. \A t \in Targets : data'[t] = IF t \in C THEN contents[t] ELSE data[t]
  BY Zenon DEF Change
<1>3. ASSUME NEW v \in Workers PROVE Fresh(held'[v], data')
  <2>1. After(held[v], held'[v]) /\ (held[v].t \in C => held'[v].dirty)
    BY HeldAfter
  <2>2. Fresh(held[v], data) /\ held[v].t \in Targets \cup {None}
    BY DEF TraceInv, DataInv, Holder
  <2> QED
    BY <1>2, <2>1, <2>2 DEF Fresh, After
<1>4. ASSUME NEW v \in Workers, v # w PROVE Traced(rq'[v], held'[v], data') /\ Opening(rq[v], rq'[v])
  <2>1. Good(rq[v], cat, data) /\ rq[v] \in Request /\ Traced(rq[v], held[v], data)
    BY TypedRequest DEF TraceInv
  <2>2. After(held[v], held'[v]) /\ (held[v].t \in C => held'[v].dirty)
    BY HeldAfter
  <2>3. rq[v].r # None => rq[v].r.t \in Targets
    BY <2>1, AskedFor
  <2>4. CASE rq[v].r # None /\ rq[v].r.t \in C
    <3>1. rq'[v] = new(v)
      BY <1>1, <1>4, <2>4, Zenon
    <3>2. contents[rq[v].r.t] \in Contents
      BY <2>4
    <3>3. ASSUME NEW d \in BOOLEAN, NEW g \in BOOLEAN, d
          PROVE  LET x == Touched(rq[v], d, contents[rq[v].r.t], g) IN
                 Traced(x, held'[v], data') /\ Opening(rq[v], x)
      <4> DEFINE x == Touched(rq[v], d, contents[rq[v].r.t], g)
      <4>1. /\ x.pc = rq[v].pc /\ x.r = rq[v].r /\ x.fp = rq[v].fp /\ x.n = rq[v].n
            /\ x.ans = rq[v].ans /\ x.max = rq[v].max
        BY <2>1, <3>2, TouchedFields DEF TouchedAs
      <4>2. /\ x.dirty = d /\ x.out = rq[v].out /\ x.cut = rq[v].cut /\ x.stamp = rq[v].stamp
            /\ x.got = rq[v].got /\ x.err = rq[v].err
        BY <2>1, <3>2, MarkedFields
      <4> HIDE DEF x
      <4>3. Traced(x, held'[v], data') /\ Opening(rq[v], x)
        BY <2>1, <2>2, <2>4, <3>3, <4>1, <4>2, TouchedTraced DEF Opening
      <4> QED
        BY <4>3 DEF x
    <3>4. (rq[v].gone \/ contents[rq[v].r.t] = None) \in BOOLEAN /\ TRUE \in BOOLEAN
      OBVIOUS
    <3> QED
      BY <3>1, <3>3, <3>4, Zenon
  <2>5. CASE ~(rq[v].r # None /\ rq[v].r.t \in C)
    <3>1. rq'[v] = rq[v]
      BY <1>1, <1>4, <2>5, Zenon
    <3>2. rq[v].r # None => data'[rq[v].r.t] = data[rq[v].r.t]
      BY <1>2, <2>3, <2>5
    <3>3. rq[v].pc = "idle" <=> rq[v].r = None
      BY <2>1 DEF Good, Stage
    <3> QED
      BY <2>1, <2>2, <3>1, <3>2, <3>3, UntouchedTraced DEF Opening
  <2> QED
    BY <2>4, <2>5
<1>5. rq'[w] = n
  BY <1>1, Zenon
<1> QED
  BY <1>3, <1>4, <1>5 DEF TraceInv, TraceStep

-----------------------------------------------------------------------------
(* The fields that matter to it. *)

Rest(q, n) ==
    n.r = q.r /\ n.n = q.n /\ n.out = q.out /\ n.cut = q.cut /\ n.fp = q.fp /\ n.got = q.got

\* All of them but the step and the answer, and all of them.
Onto(q, n) == n \in Request /\ n.dirty = q.dirty /\ Rest(q, n) /\ n.max = q.max
              /\ n.stamp = q.stamp /\ n.err = q.err
Keeps(q, n) == Onto(q, n) /\ n.pc = q.pc /\ n.ans = q.ans

LEMMA ToOnto ==
    ASSUME NEW q \in Request, NEW p \in Steps
    PROVE  LET n == [q EXCEPT !.pc = p] IN Onto(q, n) /\ n.pc = p /\ n.ans = q.ans
BY DEF Request, Onto, Rest

LEMMA AnswerOnto ==
    ASSUME NEW q \in Request, NEW a \in Answers
    PROVE  LET n == [q EXCEPT !.pc = "answer", !.ans = a] IN
           Onto(q, n) /\ n.pc = "answer" /\ n.ans = a
BY DEF Request, Onto, Rest, Steps

\* The flags that it does not use.
LEMMA FlagKeeps ==
    ASSUME NEW q \in Request
    PROVE  /\ Keeps(q, [q EXCEPT !.gone = FALSE]) /\ Keeps(q, [q EXCEPT !.buf = TRUE])
           /\ Keeps(q, [q EXCEPT !.buf = FALSE]) /\ Keeps(q, [q EXCEPT !.framed = TRUE])
           /\ \A d \in BOOLEAN : Keeps(q, [q EXCEPT !.create = TRUE, !.blind = d])
<1>1. ASSUME NEW b \in BOOLEAN
      PROVE  /\ Keeps(q, [q EXCEPT !.gone = b]) /\ Keeps(q, [q EXCEPT !.buf = b])
             /\ Keeps(q, [q EXCEPT !.framed = b])
             /\ \A d \in BOOLEAN : Keeps(q, [q EXCEPT !.create = b, !.blind = d])
  <2>1. Keeps(q, [q EXCEPT !.gone = b])
    BY <1>1 DEF Request, Keeps, Onto, Rest
  <2>2. Keeps(q, [q EXCEPT !.buf = b])
    BY <1>1 DEF Request, Keeps, Onto, Rest
  <2>3. Keeps(q, [q EXCEPT !.framed = b])
    BY <1>1 DEF Request, Keeps, Onto, Rest
  <2>4. ASSUME NEW d \in BOOLEAN PROVE Keeps(q, [q EXCEPT !.create = b, !.blind = d])
    <3> DEFINE n == [q EXCEPT !.create = b, !.blind = d]
    <3>1. n \in Request
      BY <1>1, <2>4 DEF Request
    <3>2. n.dirty = q.dirty /\ n.max = q.max /\ n.pc = q.pc /\ n.ans = q.ans
      BY DEF Request
    <3>3. Rest(q, n)
      BY DEF Request, Rest
    <3> QED
      BY <3>1, <3>2, <3>3 DEF Keeps, Onto
  <2> QED
    BY <2>1, <2>2, <2>3, <2>4
<1>2. TRUE \in BOOLEAN /\ FALSE \in BOOLEAN
  BY Zenon
<1> QED
  BY <1>1, <1>2, Zenon

\* A request that fails has nothing more to say.
LEMMA FailTraced ==
    ASSUME NEW q, NEW n, NEW h, NEW g, NEW D, NEW D2, Traced(q, h, D), n.pc = "answer",
           n.fp = "none", n.r = q.r, n.ans \notin {"200", "204", "412"}, g.t = h.t
    PROVE  Traced(n, g, D2)
BY DEF Traced, BodyOK, Bounded, Conditioned, Checked, Stamped, DoneSteps

LEMMA FailGo ==
    ASSUME DataInv, TraceInv, NEW w \in Workers, NEW n, Go(w, n), UNCHANGED held,
           n.pc = "answer", n.fp = "none", n.r = rq[w].r, n.ans \notin {"200", "204", "412"}
    PROVE  TraceStep
<1>1. Traced(n, held[w], data)
  BY FailTraced DEF TraceInv
<1> QED
  BY <1>1, GoTrace DEF Opening

Failures == {"400", "404", "denied", "500", "abend"}

LEMMA FailAnswer ==
    ASSUME DataInv, TraceInv, NEW w \in Workers, NEW a \in Failures, Go(w, Answer(w, a)),
           UNCHANGED held, rq[w].fp = "none"
    PROVE  TraceStep
<1>1. rq[w] \in Request /\ a \in Answers /\ a \notin {"200", "204", "412"}
  BY TypedRequest DEF Failures, Answers
<1> DEFINE n == Answer(w, a)
<1>2. n.pc = "answer" /\ n.ans = a /\ n.fp = rq[w].fp /\ n.r = rq[w].r
  BY <1>1, AnswerOnto DEF Answer, Onto, Rest
<1>3. Go(w, n)
  OBVIOUS
<1> HIDE DEF n
<1> QED
  BY <1>1, <1>2, <1>3, FailGo

-----------------------------------------------------------------------------
(* The gates. *)

\* The first step past the gate.
LEMMA GateTraced ==
    ASSUME NEW q, NEW n, NEW h, NEW c, NEW D, Good(q, c, D), Traced(q, h, D),
           q.pc \in {"gate", "locate"}, Rest(q, n), n.ans = q.ans, n.max = q.max, n.stamp = q.stamp,
           n.pc \in {"pcount", "bcount", "hash", "open", "probe", "catalog", "act"},
           n.pc = "hash" => q.r.t[2] # None,
           n.pc = "pcount" => q.r.op # "dsPut", n.pc = "probe" => q.r.op # "mbPut"
    PROVE  Traced(n, h, D)
<1>1. q.fp = "none" /\ q.ans = "none" /\ q.r # None /\ q.stamp = None
  BY AtGate DEF Traced, Stamped
<1>2. BodyOK(n, D)
  BY <1>1 DEF Traced, BodyOK, Rest, DoneSteps
<1>3. Bounded(n, h, D)
  BY <1>1 DEF Bounded, Bound, Good, Unbounded, Rest
<1>4. Conditioned(n, h, D)
  BY <1>1 DEF Traced, Conditioned, Checked, Rest
<1>5. Stamped(n, D)
  BY <1>1 DEF Stamped
<1> QED
  BY <1>2, <1>3, <1>4, <1>5 DEF Traced

LEMMA GateGo ==
    ASSUME DataInv, TraceInv, NEW w \in Workers, rq[w].pc \in {"gate", "locate"},
           UNCHANGED held, NEW p \in {"pcount", "bcount", "open", "probe", "catalog", "act"},
           Go(w, To(w, p)), p = "pcount" => rq[w].r.op # "dsPut", p = "probe" => rq[w].r.op # "mbPut"
    PROVE  TraceStep
<1>1. rq[w] \in Request /\ Good(rq[w], cat, data) /\ Traced(rq[w], held[w], data)
  BY TypedRequest DEF TraceInv
<1>2. p \in Steps
  BY DEF Steps
<1> DEFINE n == To(w, p)
<1>3. Onto(rq[w], n) /\ n.pc = p /\ n.ans = rq[w].ans
  BY <1>1, <1>2, ToOnto DEF To
<1>4. Go(w, n)
  OBVIOUS
<1> HIDE DEF n
<1>5. Traced(n, held[w], data)
  BY <1>1, <1>3, GateTraced DEF Onto
<1>6. rq[w].fp # "write"
  BY <1>1, AtGate
<1> QED
  BY <1>3, <1>4, <1>5, <1>6, GoTrace DEF Opening, Onto, Rest

\* What a gate answers: a failure, or it lets the request go on.
LEMMA GatesTrace ==
    ASSUME DataInv, TraceInv, NEW w \in Workers,
           \/ DsGetGate(w) \/ MbGetGate(w) \/ MbListGate(w) \/ DsPutGate(w) \/ MbPutGate(w)
           \/ DsCreateModel(w) \/ DsRenameGate(w) \/ MbRenameGate(w) \/ DsDeleteGate(w)
           \/ MbDeleteGate(w)
    PROVE  TraceStep
<1> DEFINE fails == \E a \in Failures : Go(w, Answer(w, a))
<1>1. VolumeGate(w, T(w)[1]) # "pass" => VolumeGate(w, T(w)[1]) \in Failures
  BY DEF VolumeGate, Failures
<1>2. "400" \in Failures /\ "404" \in Failures /\ "denied" \in Failures
  BY DEF Failures
<1>3. UNCHANGED held /\ rq[w].pc \in {"gate", "locate"}
  BY Zenon DEF DsGetGate, MbGetGate, MbListGate, DsPutGate, MbPutGate, DsCreateModel, DsRenameGate,
     MbRenameGate, DsDeleteGate, MbDeleteGate, Gate, At, Same
<1>4. rq[w] \in Request /\ Good(rq[w], cat, data) /\ Traced(rq[w], held[w], data) /\ rq[w].fp = "none"
  BY <1>3, TypedRequest, AtGate DEF TraceInv
<1>5. fails => TraceStep
  BY <1>3, <1>4, FailAnswer
<1>6. CASE DsGetGate(w)
  <2>1. rq[w].r.op = "dsGet" /\ (fails \/ Go(w, To(w, "pcount")) \/ Go(w, To(w, "bcount")))
    BY <1>1, <1>2, <1>6, Zenon DEF DsGetGate, Gate, Headers, At
  <2> QED
    BY <1>3, <1>5, <2>1, GateGo
<1>7. CASE MbGetGate(w)
  <2> DEFINE p == IF Conditional(w) THEN "hash" ELSE "open"
             q == To(w, p)
             n == [q EXCEPT !.dirty = FALSE]
  <2>1. rq[w].r.op = "mbGet" /\ (fails \/ Go(w, n))
    BY <1>1, <1>2, <1>7, Zenon DEF MbGetGate, Gate, Headers, At
  <2>2. p \in Steps /\ p \in {"hash", "open"}
    BY DEF Steps
  <2>3. Onto(rq[w], q) /\ q.pc = p /\ q.ans = rq[w].ans
    BY <1>4, <2>2, ToOnto DEF To
  <2> HIDE DEF p, q
  <2>4. \A b \in BOOLEAN : LET x == [q EXCEPT !.dirty = b] IN
           Rest(q, x) /\ x.pc = q.pc /\ x.ans = q.ans /\ x.max = q.max /\ x.stamp = q.stamp
    BY <2>3 DEF Request, Rest, Onto
  <2>5. Rest(q, n) /\ n.pc = q.pc /\ n.ans = q.ans /\ n.max = q.max /\ n.stamp = q.stamp
    BY <2>4, Zenon
  <2> HIDE DEF n
  <2>6. rq[w].r.t[2] # None
    BY <1>3, <1>4, <2>1, AtGate, AskedFor, Asked DEF MemberOps
  <2>7. Rest(rq[w], n) /\ n.max = rq[w].max /\ n.stamp = rq[w].stamp
    BY <2>3, <2>5 DEF Onto, Rest
  <2>8. Traced(n, held[w], data)
    BY <1>3, <1>4, <2>2, <2>3, <2>5, <2>6, <2>7, GateTraced
  <2> QED
    BY <1>3, <1>4, <1>5, <2>1, <2>7, <2>8, GoTrace DEF Opening, Rest
<1>8. CASE MbListGate(w)
  <2>1. fails \/ Go(w, To(w, "open"))
    BY <1>1, <1>2, <1>8, Zenon DEF MbListGate, Gate, Headers
  <2> QED
    BY <1>3, <1>5, <2>1, GateGo
<1>9. CASE DsPutGate(w)
  <2>1. rq[w].r.op = "dsPut" /\ (fails \/ Go(w, To(w, "probe")))
    BY <1>1, <1>2, <1>9, Zenon DEF DsPutGate, Gate, Headers, At
  <2> QED
    BY <1>3, <1>5, <2>1, GateGo
<1>10. CASE MbPutGate(w)
  <2>1. fails \/ Go(w, To(w, "catalog"))
    BY <1>1, <1>2, <1>10, Zenon DEF MbPutGate, Gate, Headers
  <2> QED
    BY <1>3, <1>5, <2>1, GateGo
<1>11. CASE DsCreateModel(w) \/ DsRenameGate(w)
  <2>1. fails \/ Go(w, To(w, "act"))
    BY <1>2, <1>11, Zenon DEF DsCreateModel, DsRenameGate, Headers
  <2> QED
    BY <1>3, <1>5, <2>1, GateGo
<1>12. CASE MbRenameGate(w) \/ DsDeleteGate(w) \/ MbDeleteGate(w)
  <2>1. fails \/ Go(w, To(w, "act"))
    BY <1>1, <1>2, <1>12, Zenon DEF MbRenameGate, DsDeleteGate, MbDeleteGate, Gate
  <2> QED
    BY <1>3, <1>5, <2>1, GateGo
<1> QED
  BY <1>6, <1>7, <1>8, <1>9, <1>10, <1>11, <1>12


-----------------------------------------------------------------------------
(* The passes over the target. *)

LEMMA DirtySet ==
    ASSUME NEW q \in Request, NEW b \in BOOLEAN
    PROVE  LET n == [q EXCEPT !.dirty = b] IN
           /\ n \in Request /\ n.dirty = b /\ Rest(q, n) /\ n.pc = q.pc /\ n.ans = q.ans
           /\ n.max = q.max /\ n.stamp = q.stamp /\ n.err = q.err
BY DEF Request, Rest

LEMMA MaxSet ==
    ASSUME NEW q \in Request, NEW m \in Int
    PROVE  LET n == [q EXCEPT !.max = m] IN
           /\ n \in Request /\ n.max = m /\ Rest(q, n) /\ n.pc = q.pc /\ n.ans = q.ans
           /\ n.dirty = q.dirty /\ n.stamp = q.stamp /\ n.err = q.err
BY DEF Request, Rest

LEMMA StampSet ==
    ASSUME NEW q \in Request, NEW s \in Contents
    PROVE  LET n == [q EXCEPT !.stamp = s] IN
           /\ n \in Request /\ n.stamp = s /\ Rest(q, n) /\ n.pc = q.pc /\ n.ans = q.ans
           /\ n.dirty = q.dirty /\ n.max = q.max /\ n.err = q.err
BY DEF Request, Rest

LEMMA ErrSet ==
    ASSUME NEW q \in Request
    PROVE  LET n == [q EXCEPT !.err = TRUE] IN
           /\ n \in Request /\ n.err /\ Rest(q, n) /\ n.pc = q.pc /\ n.ans = q.ans
           /\ n.dirty = q.dirty /\ n.max = q.max /\ n.stamp = q.stamp
<1>1. \A b \in BOOLEAN : LET n == [q EXCEPT !.err = b] IN
           /\ n \in Request /\ n.err = b /\ Rest(q, n) /\ n.pc = q.pc /\ n.ans = q.ans
           /\ n.dirty = q.dirty /\ n.max = q.max /\ n.stamp = q.stamp
  BY DEF Request, Rest
<1>2. TRUE \in BOOLEAN
  BY Zenon
<1> QED
  BY <1>1, <1>2, Zenon

\* A pass that is bounded by the record count returns the content.
LEMMA EtagExact ==
    ASSUME DataInv, NEW w \in Workers, rq[w].r # None, rq[w].max = Bound(data, T(w))
    PROVE  DatasetEtag(w) = data[T(w)]
<1> DEFINE s == data[T(w)]
           m == rq[w].max
           t == T(w)
<1>1. t \in Targets /\ s \in Contents
  <2>1. rq[w] \in Request
    BY TypedRequest
  <2> QED
    BY <2>1, AskedFor DEF T, DataInv, VolumeOK
<1>2. CASE s = None
  BY <1>2 DEF DatasetEtag
<1>3. CASE s # None /\ t[1] \in Fixed /\ t[2] = None
  <2>1. s \in Seq(Stores) /\ m = Len(s)
    BY <1>1, <1>3 DEF Bound, Contents
  <2>2. Residue \in Stores
    <3>1. \A b \in BOOLEAN : [rec |-> None, cut |-> b] \in Stores
      BY DEF Stores
    <3>2. FALSE \in BOOLEAN
      BY Zenon
    <3> QED
      BY <3>1, <3>2, Zenon DEF Residue
  <2>3. DatasetEtag(w) = IF m >= 0 /\ m < Len(Append(s, Residue))
                         THEN SubSeq(Append(s, Residue), 1, m) ELSE Append(s, Residue)
    BY <1>3 DEF DatasetEtag, ReadPass
  <2> HIDE DEF s, m
  <2>4. \A e \in Stores : Len(Append(s, e)) = Len(s) + 1 /\ SubSeq(Append(s, e), 1, Len(s)) = s
    <3> TAKE e \in Stores
    <3>1. Len(Append(s, e)) = Len(s) + 1 /\ Append(s, e) \in Seq(Stores) /\ Len(s) \in Nat
      BY <2>1
    <3> DEFINE u == SubSeq(Append(s, e), 1, Len(s))
    <3>2. u \in Seq(Stores) /\ Len(u) = Len(s) /\ \A i \in 1 .. Len(s) : u[i] = s[i]
      BY <2>1, <3>1
    <3> HIDE DEF u
    <3>3. u = s
      BY <2>1, <3>2, SeqEqual
    <3> QED
      BY <3>1, <3>3 DEF u
  <2>5. m >= 0 /\ m < Len(Append(s, Residue)) /\ SubSeq(Append(s, Residue), 1, m) = s
    BY <2>1, <2>2, <2>4
  <2>6. DatasetEtag(w) = s
    BY <2>3, <2>5
  <2> QED
    BY <2>6 DEF s
<1>4. CASE s # None /\ ~(t[1] \in Fixed /\ t[2] = None)
  <2>1. m = -1
    BY <1>4 DEF Bound
  <2> QED
    BY <1>4, <2>1 DEF DatasetEtag, ReadPass
<1> QED
  BY <1>2, <1>3, <1>4

\* The request is where it has no output file and has stored nothing.
LEMMA MoveTraced ==
    ASSUME NEW q, NEW n, NEW h, NEW D, Traced(q, h, D), Rest(q, n), q.fp # "write",
           q.pc \notin DoneSteps \cup {"answer"},
           n.pc \notin DoneSteps \cup {"finish", "close", "answer"},
           Bounded(n, h, D), Conditioned(n, h, D), Stamped(n, D)
    PROVE  Traced(n, h, D)
<1>1. BodyOK(n, D)
  BY DEF Traced, BodyOK, Rest, DoneSteps
<1> QED
  BY <1>1 DEF Traced

LEMMA FindTrace ==
    ASSUME DataInv, TraceInv, NEW w \in Workers, DsPutProbe(w) \/ MbPutCatalog(w)
    PROVE  TraceStep
<1>1. rq[w].pc \in {"probe", "catalog"} /\ UNCHANGED held
  BY DEF DsPutProbe, MbPutCatalog, At, Same
<1>2. /\ rq[w] \in Request /\ Good(rq[w], cat, data) /\ Traced(rq[w], held[w], data)
      /\ rq[w].fp = "none" /\ rq[w].r # None /\ rq[w].ans = "none" /\ rq[w].stamp = None
  <2>1. rq[w] \in Request /\ Good(rq[w], cat, data) /\ Traced(rq[w], held[w], data)
    BY TypedRequest DEF TraceInv
  <2> QED
    BY <1>1, <2>1 DEF Good, Stage, Request, WriteSteps, Traced, Stamped
<1>3. "404" \in Failures
  BY DEF Failures
<1>4. CASE DsPutProbe(w)
  <2> DEFINE p == IF R(w).cond THEN "pcount" ELSE "alloc"
             q == To(w, p)
             n == [q EXCEPT !.gone = FALSE]
  <2>1. rq[w].r.op = "dsPut" /\ (Go(w, Answer(w, "404")) \/ Go(w, n))
    BY <1>4, Zenon DEF DsPutProbe, At
  <2>2. p \in Steps /\ p = IF rq[w].r.cond THEN "pcount" ELSE "alloc"
    BY DEF Steps, R
  <2>3. Onto(rq[w], q) /\ q.pc = p /\ q.ans = rq[w].ans
    BY <1>2, <2>2, ToOnto DEF To
  <2> HIDE DEF p, q
  <2>4. Keeps(q, n)
    BY <2>3, FlagKeeps DEF Onto
  <2> HIDE DEF n
  <2>5. Rest(rq[w], n) /\ n.pc = p /\ n.ans = "none" /\ n.stamp = None
    BY <1>2, <2>3, <2>4 DEF Keeps, Onto, Rest
  <2>6. Bounded(n, held[w], data) /\ Stamped(n, data)
    BY <2>2, <2>5 DEF Bounded, Stamped
  <2>7. Conditioned(n, held[w], data)
    BY <1>2, <2>2, <2>5 DEF Traced, Conditioned, Rest, Checked
  <2>8. Traced(n, held[w], data)
    BY <1>1, <1>2, <2>2, <2>5, <2>6, <2>7, MoveTraced DEF DoneSteps
  <2> QED
    BY <1>1, <1>2, <1>3, <2>1, <2>5, <2>8, GoTrace, FailAnswer DEF Opening, Rest
<1>5. CASE MbPutCatalog(w)
  <2> DEFINE p == IF R(w).cond THEN "match" ELSE "probe"
             q == To(w, p)
             n == [q EXCEPT !.gone = FALSE, !.dirty = FALSE]
  <2>1. rq[w].r.op = "mbPut" /\ (Go(w, Answer(w, "404")) \/ Go(w, n))
    BY <1>5, Zenon DEF MbPutCatalog, At
  <2>2. p \in Steps /\ p = IF rq[w].r.cond THEN "match" ELSE "probe"
    BY DEF Steps, R
  <2>3. Onto(rq[w], q) /\ q.pc = p /\ q.ans = rq[w].ans
    BY <1>2, <2>2, ToOnto DEF To
  <2> HIDE DEF p, q
  <2>4. \A b \in BOOLEAN : LET x == [q EXCEPT !.gone = b, !.dirty = b] IN
          Rest(q, x) /\ x.pc = q.pc /\ x.ans = q.ans /\ x.stamp = q.stamp /\ x.max = q.max
    BY <2>3 DEF Onto, Request, Rest
  <2>5. Rest(q, n) /\ n.pc = q.pc /\ n.ans = q.ans /\ n.stamp = q.stamp /\ n.max = q.max
    BY <2>4, Zenon
  <2> HIDE DEF n
  <2>6. Rest(rq[w], n) /\ n.pc = p /\ n.ans = "none" /\ n.stamp = None /\ n.max = rq[w].max
    BY <1>2, <2>3, <2>5 DEF Onto, Rest
  <2>7. rq[w].r.t[2] # None /\ rq[w].max = -1
    BY <1>2, <2>1, AskedFor DEF Good, Unbounded
  <2>8. Bounded(n, held[w], data) /\ Stamped(n, data)
    BY <2>6, <2>7 DEF Bounded, Stamped, Bound, Rest
  <2>9. Conditioned(n, held[w], data)
    BY <1>2, <2>2, <2>6 DEF Traced, Conditioned, Rest, Checked
  <2>10. Traced(n, held[w], data)
    BY <1>1, <1>2, <2>2, <2>6, <2>8, <2>9, MoveTraced DEF DoneSteps
  <2> QED
    BY <1>1, <1>2, <1>3, <2>1, <2>6, <2>10, GoTrace, FailAnswer DEF Opening, Rest
<1> QED
  BY <1>4, <1>5


\* A request at a step without an output file.
LEMMA AtStep ==
    ASSUME DataInv, TraceInv, NEW w \in Workers,
           rq[w].pc \in {"pcount", "hash", "bcount", "open", "match"}
    PROVE  /\ rq[w] \in Request /\ Good(rq[w], cat, data) /\ Traced(rq[w], held[w], data)
           /\ rq[w].fp = "none" /\ rq[w].r # None /\ rq[w].ans = "none"
           /\ rq[w].pc \notin DoneSteps \cup {"answer"} /\ rq[w].r.t \in Targets
<1>1. rq[w] \in Request /\ Good(rq[w], cat, data) /\ Traced(rq[w], held[w], data)
  BY TypedRequest DEF TraceInv
<1>2. rq[w].fp = "none" /\ rq[w].r # None /\ rq[w].ans = "none"
  BY <1>1 DEF Good, Stage, Request, WriteSteps
<1> QED
  BY <1>1, <1>2, AskedFor DEF DoneSteps

\* The record count of a pass.
LEMMA CountTrace ==
    ASSUME DataInv, TraceInv, NEW w \in Workers, DsGetCount(w) \/ DsPutCount(w)
    PROVE  TraceStep
<1>1. ASSUME NEW p \in {"hash", "match"}, NEW op, Count(w, op, "pcount", p), p = "match" => op = "dsPut"
      PROVE  TraceStep
  <2> DEFINE m == FbRecordCount(T(w))
             q == To(w, p)
             n == [q EXCEPT !.max = m, !.dirty = FALSE]
  <2>1. rq[w].pc = "pcount" /\ rq[w].r.op = op /\ Go(w, n) /\ UNCHANGED held
    BY <1>1, Zenon DEF Count, At, Same
  <2>2. /\ rq[w] \in Request /\ Good(rq[w], cat, data) /\ Traced(rq[w], held[w], data)
        /\ rq[w].fp = "none" /\ rq[w].r # None /\ rq[w].ans = "none"
        /\ rq[w].pc \notin DoneSteps \cup {"answer"} /\ rq[w].r.t \in Targets
    BY <2>1, AtStep
  <2>3. p \in Steps /\ m \in Int /\ m = Bound(data, rq[w].r.t)
    BY <2>2, CountTypes DEF Steps, T, FbRecordCount, Bound
  <2>4. Onto(rq[w], q) /\ q.pc = p /\ q.ans = rq[w].ans
    BY <2>2, <2>3, ToOnto DEF To
  <2> HIDE DEF m, q
  <2>5. \A b \in BOOLEAN : LET x == [q EXCEPT !.max = m, !.dirty = b] IN
          Rest(q, x) /\ x.pc = q.pc /\ x.ans = q.ans /\ x.stamp = q.stamp /\ x.max = m
    BY <2>3, <2>4 DEF Onto, Request, Rest
  <2>6. Rest(q, n) /\ n.pc = q.pc /\ n.ans = q.ans /\ n.stamp = q.stamp /\ n.max = m
    BY <2>5, Zenon
  <2> HIDE DEF n
  <2>7. /\ Rest(rq[w], n) /\ n.pc = p /\ n.ans = "none" /\ n.stamp = None
        /\ n.max = Bound(data, n.r.t)
    BY <2>1, <2>2, <2>3, <2>4, <2>6 DEF Onto, Rest, Traced, Stamped
  <2>8. Bounded(n, held[w], data) /\ Stamped(n, data)
    BY <2>7 DEF Bounded, Stamped
  <2>9. Conditioned(n, held[w], data)
    BY <1>1, <2>1, <2>2, <2>7 DEF Traced, Conditioned, Rest, Checked
  <2>10. Traced(n, held[w], data)
    BY <2>1, <2>2, <2>7, <2>8, <2>9, MoveTraced DEF DoneSteps
  <2> QED
    BY <2>1, <2>2, <2>7, <2>10, GoTrace DEF Opening, Rest
<1> QED
  BY <1>1, Zenon DEF DsGetCount, DsPutCount

\* The condition of a write: what passes was read, what fails was changed.
LEMMA MatchTrace ==
    ASSUME DataInv, TraceInv, NEW w \in Workers, DsPutMatch(w) \/ MbPutMatch(w)
    PROVE  TraceStep
<1>1. ASSUME NEW op \in Puts, NEW p \in {"alloc", "probe"}, At(w, op, "match"), CheckIfMatch(w, p)
      PROVE  TraceStep
  <2> DEFINE q == To(w, p)
             b == q.dirty /\ T(w)[2] = None
             n == [q EXCEPT !.dirty = b]
             a == Answer(w, "412")
             m == [a EXCEPT !.err = TRUE]
             e == DatasetEtag(w)
             pass == e # None /\ e = held[w].stamp
  <2>1. /\ UNCHANGED held
        /\ Go(w, IF pass THEN n ELSE a) \/ Go(w, Answer(w, "abend")) \/ Go(w, m)
    BY <1>1, Zenon DEF CheckIfMatch, Etag
  <2>2. rq[w].pc = "match" /\ rq[w].r.op = op /\ T(w) = rq[w].r.t
    BY <1>1 DEF At, T
  <2>3. /\ rq[w] \in Request /\ Good(rq[w], cat, data) /\ Traced(rq[w], held[w], data)
        /\ rq[w].fp = "none" /\ rq[w].r # None /\ rq[w].ans = "none"
        /\ rq[w].pc \notin DoneSteps \cup {"answer"} /\ rq[w].r.t \in Targets
    BY <2>2, AtStep
  <2>4. p \in Steps /\ "412" \in Answers
    BY DEF Steps, Answers
  <2>5. Onto(rq[w], q) /\ q.pc = p /\ q.ans = "none"
    BY <2>3, <2>4, ToOnto DEF To
  <2>6. Onto(rq[w], a) /\ a.pc = "answer" /\ a.ans = "412"
    BY <2>3, <2>4, AnswerOnto DEF Answer
  <2>7. /\ rq[w].stamp = None /\ held[w].t = rq[w].r.t
        /\ rq[w].dirty \/ rq[w].max = Bound(data, rq[w].r.t)
        /\ held[w].dirty \/ rq[w].max = Bound(data, rq[w].r.t)
        /\ Fresh(held[w], data)
    BY <2>2, <2>3 DEF Traced, Stamped, Conditioned, Bounded, TraceInv
  <2>8. rq[w].max = Bound(data, rq[w].r.t) => e = data[rq[w].r.t]
    BY <2>2, <2>3, EtagExact
  <2>9. rq[w].r.t[2] # None => rq[w].max = Bound(data, rq[w].r.t)
    BY <2>3 DEF Good, Unbounded, Bound
  <2>14. CASE Go(w, Answer(w, "abend"))
    BY <2>1, <2>3, <2>14, FailAnswer DEF Failures
  <2> HIDE DEF q, a, e
  <2>10. CASE pass /\ Go(w, n)
    <3>1. b \in BOOLEAN /\ b = (rq[w].dirty /\ rq[w].r.t[2] = None)
      BY <2>2, <2>5 DEF Onto, Request
    <3> HIDE DEF b
    <3>2. Rest(q, n) /\ n.dirty = b /\ n.pc = q.pc /\ n.ans = q.ans /\ n.stamp = q.stamp
      BY <2>5, <3>1, DirtySet DEF Onto
    <3> HIDE DEF n
    <3>3. Rest(rq[w], n) /\ n.pc = p /\ n.ans = "none" /\ n.stamp = None /\ n.r = rq[w].r
      BY <2>5, <2>7, <3>2 DEF Onto, Rest
    <3>4. Bounded(n, held[w], data) /\ Stamped(n, data)
      BY <3>3 DEF Bounded, Stamped
    <3>5. n.dirty \/ data[n.r.t] = held[w].stamp
      BY <2>7, <2>8, <2>9, <2>10, <3>1, <3>2, <3>3
    <3>6. Conditioned(n, held[w], data)
      BY <2>7, <3>3, <3>5 DEF Conditioned
    <3>7. Traced(n, held[w], data)
      BY <2>3, <3>3, <3>4, <3>6, MoveTraced DEF DoneSteps
    <3> QED
      BY <2>1, <2>3, <2>10, <3>3, <3>7, GoTrace DEF Opening, Rest
  <2>11. ASSUME NEW x, Rest(a, x), x.stamp = a.stamp,
                x.pc = "answer", x.ans = "412", x.err \/ held[w].dirty, Go(w, x)
         PROVE  TraceStep
    <3>1. x.r = rq[w].r /\ x.fp = "none" /\ x.stamp = None
      BY <2>3, <2>6, <2>7, <2>11 DEF Onto, Rest
    <3>2. BodyOK(x, data) /\ Bounded(x, held[w], data) /\ Stamped(x, data)
      BY <2>11, <3>1 DEF BodyOK, Bounded, Stamped, DoneSteps
    <3>3. Conditioned(x, held[w], data)
      BY <2>7, <2>11, <3>1 DEF Conditioned, Checked
    <3>4. Traced(x, held[w], data)
      BY <3>2, <3>3 DEF Traced
    <3> QED
      BY <2>1, <2>11, <3>1, <3>4, GoTrace DEF Opening
  <2>12. CASE ~pass /\ Go(w, a)
    <3>1. held[w].dirty
      BY <2>3, <2>7, <2>8, <2>12, NoTarget DEF Fresh
    <3>2. Rest(a, a)
      BY DEF Rest
    <3> QED
      BY <2>6, <2>11, <2>12, <3>1, <3>2, Zenon
  <2>13. CASE Go(w, m)
    <3>1. Rest(a, m) /\ m.err /\ m.stamp = a.stamp /\ m.pc = a.pc /\ m.ans = a.ans
      BY <2>6, ErrSet DEF Onto
    <3> HIDE DEF m
    <3> QED
      BY <2>6, <2>11, <2>13, <3>1
  <2> QED
    BY <2>1, <2>10, <2>12, <2>13, <2>14, Zenon
<1>2. "dsPut" \in Puts /\ "mbPut" \in Puts
  BY DEF Puts
<1> QED
  BY <1>1, <1>2 DEF DsPutMatch, MbPutMatch


\* The stamp of a read.
LEMMA HashedTrace ==
    ASSUME DataInv, TraceInv, NEW w \in Workers, rq[w].pc = "hash", NEW p \in {"bcount", "open"},
           NEW s \in Contents, rq[w].dirty \/ s = None \/ s = data[rq[w].r.t],
           NEW x, NEW n, x = Hashed(w, p, s), Go(w, n), UNCHANGED held,
           Rest(x, n), n.pc = x.pc, n.ans = x.ans, n.stamp = x.stamp, n.dirty = x.dirty
    PROVE  TraceStep
<1> DEFINE y == Answer(w, "304")
           z == To(w, p)
<1>1. p \in Steps /\ "304" \in Answers
  BY DEF Steps, Answers
<1>2. /\ rq[w] \in Request /\ Good(rq[w], cat, data) /\ Traced(rq[w], held[w], data)
      /\ rq[w].fp = "none" /\ rq[w].r # None /\ rq[w].ans = "none"
      /\ rq[w].pc \notin DoneSteps \cup {"answer"} /\ rq[w].r.t \in Targets
  BY AtStep
<1>3. Onto(rq[w], y) /\ y.pc = "answer" /\ y.ans = "304"
  BY <1>1, <1>2, AnswerOnto DEF Answer
<1>4. Onto(rq[w], z) /\ z.pc = p /\ z.ans = "none"
  BY <1>1, <1>2, ToOnto DEF To
<1>5. x = [y EXCEPT !.stamp = s] \/ x = [z EXCEPT !.stamp = s]
  BY Zenon DEF Hashed
<1>6. rq[w].r.op \in {"dsGet", "mbGet"}
  BY <1>2 DEF Good, Stage, StepOf
<1> HIDE DEF y, z
<1>7. CASE x = [y EXCEPT !.stamp = s]
  <2>1. Rest(y, x) /\ x.pc = y.pc /\ x.ans = y.ans
    BY <1>3, <1>7, StampSet DEF Onto
  <2>2. n.pc = "answer" /\ n.ans = "304" /\ n.fp = "none" /\ n.r = rq[w].r
    BY <1>2, <1>3, <2>1 DEF Onto, Rest
  <2> QED
    BY <2>2, FailGo
<1>8. CASE x = [z EXCEPT !.stamp = s]
  <2>1. /\ Rest(z, x) /\ x.pc = z.pc /\ x.ans = z.ans /\ x.stamp = s /\ x.dirty = z.dirty
    BY <1>4, <1>8, StampSet DEF Onto
  <2>2. /\ n.pc = p /\ n.ans = "none" /\ n.stamp = s /\ n.dirty = rq[w].dirty /\ n.r = rq[w].r
        /\ Rest(rq[w], n)
    BY <1>2, <1>4, <2>1 DEF Onto, Rest
  <2>3. Bounded(n, held[w], data) /\ Stamped(n, data)
    BY <1>6, <2>2 DEF Bounded, Stamped
  <2>4. Conditioned(n, held[w], data)
    BY <1>2, <2>2 DEF Traced, Conditioned, Checked
  <2>5. Traced(n, held[w], data)
    BY <1>2, <2>2, <2>3, <2>4, MoveTraced DEF DoneSteps
  <2> QED
    BY <1>2, <2>2, <2>5, GoTrace DEF Opening, Rest
<1> QED
  BY <1>5, <1>7, <1>8

LEMMA HashTrace ==
    ASSUME DataInv, TraceInv, NEW w \in Workers, DsGetHash(w) \/ MbGetHash(w)
    PROVE  TraceStep
<1>1. ASSUME NEW p \in {"bcount", "open"}, rq[w].pc = "hash",
             Etag(w, Hashed(w, p, DatasetEtag(w)), Hashed(w, p, None))
      PROVE  TraceStep
  <2>1. /\ Traced(rq[w], held[w], data) /\ rq[w].r # None /\ T(w) = rq[w].r.t
    BY <1>1, AtStep DEF T
  <2>2. DatasetEtag(w) \in Contents /\ None \in Contents
    BY <2>1, EtagTypes DEF Contents
  <2>3. rq[w].dirty \/ DatasetEtag(w) = data[rq[w].r.t]
    BY <1>1, <2>1, EtagExact DEF Traced, Bounded
  <2>4. PICK y : y = Hashed(w, p, DatasetEtag(w))
    OBVIOUS
  <2>5. PICK z : z = Hashed(w, p, None)
    OBVIOUS
  <2> DEFINE m == [z EXCEPT !.err = TRUE]
  <2>6. UNCHANGED held /\ (Go(w, y) \/ Go(w, Answer(w, "abend")) \/ Go(w, m))
    BY <1>1, <2>4, <2>5, EtagSteps, Zenon
  <2>7. CASE Go(w, y)
    <3>1. Rest(y, y)
      BY DEF Rest
    <3> QED
      BY <1>1, <2>2, <2>3, <2>4, <2>6, <2>7, <3>1, HashedTrace
  <2>8. CASE Go(w, m)
    <3>1. z \in Request
      BY <2>2, <2>5, HashedFields
    <3>2. Rest(z, m) /\ m.pc = z.pc /\ m.ans = z.ans /\ m.stamp = z.stamp /\ m.dirty = z.dirty
      BY <3>1, ErrSet
    <3> HIDE DEF m
    <3> QED
      BY <1>1, <2>2, <2>5, <2>6, <2>8, <3>2, HashedTrace
  <2>9. CASE Go(w, Answer(w, "abend"))
    <3>1. rq[w].fp = "none"
      BY <1>1, AtStep
    <3> QED
      BY <2>6, <2>9, <3>1, FailAnswer DEF Failures
  <2> QED
    BY <2>6, <2>7, <2>8, <2>9
<1> QED
  BY <1>1 DEF DsGetHash, MbGetHash, At

LEMMA DsGetBoundTrace ==
    ASSUME DataInv, TraceInv, NEW w \in Workers, DsGetBound(w) PROVE TraceStep
<1> DEFINE m == IF R(w).mode = "binary" THEN FbRecordCount(T(w)) ELSE -1
           q == To(w, "open")
           n == [q EXCEPT !.max = m]
<1>1. rq[w].pc = "bcount" /\ rq[w].r.op = "dsGet" /\ Go(w, n) /\ UNCHANGED held
  BY Zenon DEF DsGetBound, At, Same
<1>2. /\ rq[w] \in Request /\ Good(rq[w], cat, data) /\ Traced(rq[w], held[w], data)
      /\ rq[w].fp = "none" /\ rq[w].r # None /\ rq[w].ans = "none"
      /\ rq[w].pc \notin DoneSteps \cup {"answer"} /\ rq[w].r.t \in Targets
  BY <1>1, AtStep
<1>3. m \in Int /\ "open" \in Steps
  BY <1>2, CountTypes DEF T, Steps
<1>4. Onto(rq[w], q) /\ q.pc = "open" /\ q.ans = "none"
  BY <1>2, <1>3, ToOnto DEF To
<1> HIDE DEF m, q
<1>5. Rest(q, n) /\ n.pc = q.pc /\ n.ans = q.ans /\ n.stamp = q.stamp /\ n.dirty = q.dirty
  BY <1>3, <1>4, MaxSet DEF Onto
<1> HIDE DEF n
<1>6. /\ Rest(rq[w], n) /\ n.pc = "open" /\ n.ans = "none" /\ n.r = rq[w].r
      /\ n.stamp = rq[w].stamp /\ n.dirty = rq[w].dirty
  BY <1>4, <1>5 DEF Onto, Rest
<1>7. Bounded(n, held[w], data) /\ Stamped(n, data)
  BY <1>1, <1>2, <1>6 DEF Bounded, Stamped, Traced
<1>8. Conditioned(n, held[w], data)
  BY <1>2, <1>6 DEF Traced, Conditioned, Checked
<1>9. Traced(n, held[w], data)
  BY <1>2, <1>6, <1>7, <1>8, MoveTraced DEF DoneSteps
<1> QED
  BY <1>1, <1>2, <1>6, <1>9, GoTrace DEF Opening, Rest

LEMMA FileSet ==
    ASSUME NEW q \in Request, NEW f \in {"none", "read", "write", "dir"}
    PROVE  LET n == [q EXCEPT !.fp = f] IN
           /\ n \in Request /\ n.fp = f /\ n.pc = q.pc /\ n.ans = q.ans /\ n.r = q.r /\ n.n = q.n
           /\ n.out = q.out /\ n.cut = q.cut /\ n.got = q.got /\ n.max = q.max
           /\ n.stamp = q.stamp /\ n.dirty = q.dirty /\ n.err = q.err
BY DEF Request

\* A file or a directory is opened to be read.
LEMMA OpenTrace ==
    ASSUME DataInv, TraceInv, NEW w \in Workers, DsGetOpen(w) \/ MbGetOpen(w) \/ MbListOpen(w)
    PROVE  TraceStep
<1>1. rq[w].pc = "open" /\ UNCHANGED held
  BY DEF DsGetOpen, MbGetOpen, OpenToRead, MbListOpen, At, Same
<1>2. /\ rq[w] \in Request /\ Good(rq[w], cat, data) /\ Traced(rq[w], held[w], data)
      /\ rq[w].fp = "none" /\ rq[w].r # None /\ rq[w].ans = "none"
      /\ rq[w].pc \notin DoneSteps \cup {"answer"} /\ rq[w].r.t \in Targets
  BY <1>1, AtStep
<1>3. "404" \in Failures /\ "abend" \in Failures /\ OpenFailure(T(w)) \in Failures
  BY FailureTypes DEF Failures
<1>4. \/ \E a \in Failures : Go(w, Answer(w, a))
      \/ Go(w, [To(w, "read") EXCEPT !.fp = "read"])
      \/ Go(w, [To(w, "act") EXCEPT !.fp = "dir"]) /\ rq[w].r.op = "mbList"
  BY <1>3, Zenon DEF DsGetOpen, MbGetOpen, OpenToRead, MbListOpen, At
<1>5. ASSUME NEW p \in {"read", "act"}, NEW f \in {"read", "dir"},
             Go(w, [To(w, p) EXCEPT !.fp = f]), p = "act" => rq[w].r.op = "mbList"
      PROVE  TraceStep
  <2> DEFINE q == To(w, p)
             n == [q EXCEPT !.fp = f]
  <2>1. p \in Steps
    BY DEF Steps
  <2>2. Onto(rq[w], q) /\ q.pc = p /\ q.ans = "none"
    BY <1>2, <2>1, ToOnto DEF To
  <2>3. Go(w, n)
    BY <1>5
  <2> HIDE DEF q
  <2>4. /\ n.fp = f /\ n.pc = q.pc /\ n.ans = q.ans /\ n.r = q.r /\ n.n = q.n /\ n.cut = q.cut
        /\ n.stamp = q.stamp /\ n.dirty = q.dirty
    BY <2>2, FileSet DEF Onto
  <2> HIDE DEF n
  <2>5. /\ n.fp = f /\ n.pc = p /\ n.ans = "none" /\ n.r = rq[w].r /\ n.n = rq[w].n
        /\ n.cut = rq[w].cut /\ n.stamp = rq[w].stamp /\ n.dirty = rq[w].dirty
    BY <2>2, <2>4 DEF Onto, Rest
  <2>6. BodyOK(n, data)
    BY <1>2, <2>5 DEF Traced, BodyOK, DoneSteps
  <2>7. Bounded(n, held[w], data) /\ Stamped(n, data)
    BY <1>1, <1>2, <1>5, <2>5 DEF Bounded, Stamped, Traced
  <2>8. Conditioned(n, held[w], data)
    BY <1>2, <2>5 DEF Traced, Conditioned, Checked
  <2>9. Traced(n, held[w], data)
    BY <2>6, <2>7, <2>8 DEF Traced
  <2> QED
    BY <1>1, <2>3, <2>5, <2>9, GoTrace DEF Opening
<1> QED
  BY <1>1, <1>2, <1>4, <1>5, FailAnswer

\* The body is sent, or the directory.
LEMMA ReadEndTrace ==
    ASSUME DataInv, TraceInv, NEW w \in Workers, ReadAndSend(w) \/ MbListScan(w)
    PROVE  TraceStep
<1>1. /\ rq[w] \in Request /\ Good(rq[w], cat, data) /\ Traced(rq[w], held[w], data)
      /\ rq[w].got \in Contents /\ UNCHANGED held
  <2>1. UNCHANGED held
    BY DEF ReadAndSend, MbListScan
  <2> QED
    BY <2>1, TypedRequest DEF TraceInv, Request
<1>2. "200" \in Answers /\ "abend" \in Answers
  BY DEF Answers
<1> DEFINE y == Answer(w, "200")
           z == Answer(w, "abend")
           m == [z EXCEPT !.fp = "none"]
<1>3. Onto(rq[w], y) /\ y.pc = "answer" /\ y.ans = "200"
  BY <1>1, <1>2, AnswerOnto DEF Answer
<1>4. Onto(rq[w], z) /\ z.pc = "answer" /\ z.ans = "abend"
  BY <1>1, <1>2, AnswerOnto DEF Answer
<1>5. Go(w, m) => TraceStep
  <2> HIDE DEF z
  <2>1. m.fp = "none" /\ m.pc = "answer" /\ m.ans = "abend" /\ m.r = rq[w].r
    BY <1>4, FileSet DEF Onto, Rest
  <2> HIDE DEF m
  <2> QED
    BY <1>1, <2>1, FailGo
<1>6. CASE ReadAndSend(w)
  <2> DEFINE g == IF R(w).mode = "text" THEN data[T(w)] ELSE ReadPass(T(w), rq[w].max)
             n == [y EXCEPT !.fp = "none", !.got = g]
  <2>1. rq[w].pc = "read" /\ rq[w].fp = "read" /\ (Go(w, n) \/ Go(w, m))
    BY <1>6, Zenon DEF ReadAndSend
  <2>2. g \in Contents /\ (rq[w].r.mode = "text" => g = data[rq[w].r.t])
    BY <2>1, GotTypes DEF R, T
  <2> HIDE DEF g, y
  <2>3. /\ n.fp = "none" /\ n.got = g /\ n.pc = y.pc /\ n.ans = y.ans /\ n.r = y.r /\ n.cut = y.cut
        /\ n.stamp = y.stamp /\ n.dirty = y.dirty /\ n.n = y.n /\ n.err = y.err
    BY <1>3, <2>2 DEF Onto, Request
  <2> HIDE DEF n
  <2>4. /\ n.fp = "none" /\ n.got = g /\ n.pc = "answer" /\ n.ans = "200" /\ n.r = rq[w].r
        /\ n.stamp = rq[w].stamp /\ n.dirty = rq[w].dirty
    BY <1>3, <2>3 DEF Onto, Rest
  <2>5. BodyOK(n, data) /\ Bounded(n, held[w], data)
    BY <2>4 DEF BodyOK, Bounded, DoneSteps
  <2>6. Stamped(n, data)
    BY <1>1, <2>1, <2>2, <2>4 DEF Stamped, Traced
  <2>7. Conditioned(n, held[w], data)
    BY <1>1, <2>4 DEF Traced, Conditioned, Checked
  <2>8. Traced(n, held[w], data)
    BY <2>5, <2>6, <2>7 DEF Traced
  <2> QED
    BY <1>1, <1>5, <2>1, <2>4, <2>8, GoTrace DEF Opening
<1>7. CASE MbListScan(w)
  <2> DEFINE n == [y EXCEPT !.fp = "none"]
  <2>1. rq[w].pc = "act" /\ (Go(w, n) \/ Go(w, m))
    BY <1>7, Zenon DEF MbListScan, At
  <2> HIDE DEF y
  <2>2. n.fp = "none" /\ n.pc = "answer" /\ n.ans = "200" /\ n.r = rq[w].r /\ n.stamp = rq[w].stamp
    BY <1>3, FileSet DEF Onto, Rest
  <2> HIDE DEF n
  <2>3. n.stamp = None
    BY <1>1, <2>1, <2>2 DEF Traced, Stamped
  <2>4. BodyOK(n, data) /\ Bounded(n, held[w], data) /\ Stamped(n, data)
    BY <2>2, <2>3 DEF BodyOK, Bounded, Stamped, DoneSteps
  <2>5. Conditioned(n, held[w], data)
    BY <1>1, <2>2 DEF Traced, Conditioned, Checked
  <2>6. Traced(n, held[w], data)
    BY <2>4, <2>5 DEF Traced
  <2> QED
    BY <1>1, <1>5, <2>1, <2>2, <2>6, GoTrace DEF Opening
<1> QED
  BY <1>6, <1>7


-----------------------------------------------------------------------------
(* The records a write has stored. *)

LEMMA PartEmpty ==
    ASSUME NEW d, NEW b PROVE PartOf(<< >>, d, b, 0)
<1>1. << >> \in Seq(Stores) /\ Len(<< >>) = 0
  OBVIOUS
<1> QED
  BY <1>1 DEF PartOf

LEMMA PartAll ==
    ASSUME NEW b \in Seq(Recs), NEW d, NEW s, PartOf(s, d, b, Len(b)) PROVE StoredAs(s, d, b)
<1>1. s \in Seq(Stores) /\ DOMAIN b = 1 .. Len(b)
  BY DEF PartOf
<1>2. s # None
  BY <1>1, Bounds
<1> QED
  BY <1>1, <1>2 DEF PartOf, StoredAs

\* The next record, at the end of the extents of a member or at its place.
LEMMA PartNext ==
    ASSUME NEW b \in Seq(Recs), NEW n \in Nat, n < Len(b), NEW d, NEW s, PartOf(s, d, b, n),
           NEW rec \in Stores, rec = Stored(b)[n + 1] \/ (d \in Spanned /\ rec = Broken)
    PROVE  PartOf(Append(s, rec), d, b, n + 1) /\ PartOf(WriteAt(s, n + 1, rec), d, b, n + 1)
<1>1. n + 1 \in 1 .. Len(b) /\ s \in Seq(Stores) /\ Len(s) = n
  BY DEF PartOf
<1>2. \A i \in 1 .. n : s[i] = Stored(b)[i] \/ (d \in Spanned /\ s[i] = Broken)
  BY DEF PartOf
<1>3. ASSUME NEW v \in Seq(Stores), Len(v) = n + 1, v[n + 1] = rec, \A i \in 1 .. n : v[i] = s[i]
      PROVE  PartOf(v, d, b, n + 1)
  <2>1. ASSUME NEW i \in 1 .. n + 1
        PROVE  v[i] = Stored(b)[i] \/ (d \in Spanned /\ v[i] = Broken)
    <3>1. CASE i = n + 1
      BY <1>3, <3>1
    <3>2. CASE i \in 1 .. n
      BY <1>2, <1>3, <3>2
    <3> QED
      BY <3>1, <3>2
  <2> QED
    BY <1>3, <2>1 DEF PartOf
<1>4. PartOf(Append(s, rec), d, b, n + 1)
  <2> DEFINE v == Append(s, rec)
  <2>1. v \in Seq(Stores) /\ Len(v) = n + 1 /\ v[n + 1] = rec /\ \A i \in 1 .. n : v[i] = s[i]
    BY <1>1, AppendProperties
  <2> HIDE DEF v
  <2>2. PartOf(v, d, b, n + 1)
    BY <1>3, <2>1
  <2> QED
    BY <2>2 DEF v
<1>5. PartOf(WriteAt(s, n + 1, rec), d, b, n + 1)
  <2> DEFINE v == WriteAt(s, n + 1, rec)
  <2>1. v \in Seq(Stores)
    BY <1>1, RecordTypes
  <2>2. v = [i \in 1 .. n + 1 |-> IF i = n + 1 THEN rec ELSE IF i <= Len(s) THEN s[i] ELSE Residue]
    BY DEF WriteAt
  <2>3. DOMAIN v = 1 .. n + 1 /\ v[n + 1] = rec /\ \A i \in 1 .. n : v[i] = s[i]
    BY <1>1, <2>2
  <2> HIDE DEF v
  <2>4. Len(v) = n + 1
    BY <2>1, <2>3
  <2>5. PartOf(v, d, b, n + 1)
    BY <1>3, <2>1, <2>3, <2>4
  <2> QED
    BY <2>5 DEF v
<1> QED
  BY <1>4, <1>5

\* The content of one target changes.
LEMMA StoreTrace ==
    ASSUME DataInv, TraceInv, NEW w \in Workers, NEW n, NEW t \in Targets, NEW s \in Contents,
           Change(w, n, {t}, [data EXCEPT ![t] = s]),
           \A h, D : After(held[w], h) /\ D[t] = s => Traced(n, h, D), Opening(rq[w], n)
    PROVE  TraceStep
<1> DEFINE new == [data EXCEPT ![t] = s]
<1>1. PICK C : C = {t}
  OBVIOUS
<1>2. new[t] = s
  BY DEF DataInv, VolumeOK
<1>3. Change(w, n, C, new)
  BY <1>1, Zenon
<1> HIDE DEF new
<1>4. data'[t] = s
  BY <1>1, <1>2, <1>3, Zenon DEF Change
<1>5. After(held[w], held'[w])
  BY <1>3, HeldAfter
<1>6. Traced(n, held'[w], data')
  BY <1>4, <1>5
<1>7. \A u \in C : new[u] \in Contents
  BY <1>1, <1>2
<1> QED
  BY <1>3, <1>6, <1>7, ChangeTrace

LEMMA AfterSelf == ASSUME NEW h PROVE After(h, h)
BY DEF After

LEMMA EndTraced ==
    ASSUME DataInv, TraceInv, NEW w \in Workers, NEW n, NEW a \in Failures, Ends(rq[w], n, a),
           NEW h, After(held[w], h), NEW D
    PROVE  Traced(n, h, D)
<1>1. Traced(rq[w], held[w], data)
  BY DEF TraceInv
<1>2. n.pc = "answer" /\ n.fp = "none" /\ n.r = rq[w].r /\ n.ans \notin {"200", "204", "412"}
  BY DEF Ends, Failures, Origin
<1> QED
  BY <1>1, <1>2, FailTraced DEF After

\* The output open fails, and the request with it.
LEMMA OpenFailsTrace ==
    ASSUME DataInv, TraceInv, NEW w \in Workers, NEW n, NEW a \in Failures, Ends(rq[w], n, a),
           OpenWriteFails(w, n), rq[w].r # None
    PROVE  TraceStep
<1> DEFINE d == T(w)[1]
           t == <<d, None>>
<1>1. \/ Change(w, n, {t}, [data EXCEPT ![t] = << >>])
      \/ Go(w, n) /\ UNCHANGED held
  BY Zenon DEF OpenWriteFails
<1>2. Opening(rq[w], n) /\ \A h, D : After(held[w], h) => Traced(n, h, D)
  BY EndTraced DEF Opening, Ends, Origin
<1>3. CASE Go(w, n) /\ UNCHANGED held
  BY <1>2, <1>3, AfterSelf, GoTrace
<1>4. CASE Change(w, n, {t}, [data EXCEPT ![t] = << >>])
  <2>1. t \in Targets
    BY TypedRequest, AskedFor, OneTarget DEF T
  <2>2. << >> \in Seq(Stores)
    OBVIOUS
  <2>3. PICK s \in Contents : s = << >>
    BY <2>2, Zenon DEF Contents
  <2> HIDE DEF t
  <2>4. Change(w, n, {t}, [data EXCEPT ![t] = s])
    BY <1>4, <2>3, Zenon
  <2> QED
    BY <1>2, <2>1, <2>4, StoreTrace
<1> QED
  BY <1>1, <1>3, <1>4

\* The file is closed and the request fails.
LEMMA CloseEndTrace ==
    ASSUME DataInv, TraceInv, NEW w \in Workers, NEW m, NEW keep \in Nat, CloseTarget(w, m, keep),
           NEW a \in Failures, Ends(rq[w], [m EXCEPT !.fp = "none"], a), rq[w].r # None
    PROVE  TraceStep
<1> DEFINE t == T(w)
           out == IF keep < Len(rq[w].out) THEN SubSeq(rq[w].out, 1, keep) ELSE rq[w].out
           n == [m EXCEPT !.fp = "none"]
<1>1. \/ Change(w, n, {t}, [data EXCEPT ![t] = out])
      \/ Go(w, n) /\ UNCHANGED held
  BY Zenon DEF CloseTarget
<1>2. t \in Targets /\ rq[w].out \in Seq(Stores)
  BY TypedRequest, AskedFor DEF T, Request
<1>3. out \in Contents
  BY <1>2 DEF Contents
<1>4. Ends(rq[w], n, a)
  OBVIOUS
<1> HIDE DEF n, t, out
<1>5. Opening(rq[w], n) /\ \A h, D : After(held[w], h) => Traced(n, h, D)
  BY <1>4, EndTraced DEF Opening, Ends, Origin
<1>6. CASE Go(w, n) /\ UNCHANGED held
  BY <1>5, <1>6, AfterSelf, GoTrace
<1>7. CASE Change(w, n, {t}, [data EXCEPT ![t] = out])
  BY <1>2, <1>3, <1>5, <1>7, StoreTrace
<1> QED
  BY <1>1, <1>6, <1>7

LEMMA PutFailsTrace ==
    ASSUME DataInv, TraceInv, NEW w \in Workers, PutFails(w), rq[w].pc \in WriteSteps
    PROVE  TraceStep
<1>1. Len(rq[w].out) \in Nat /\ rq[w].r # None /\ "500" \in Failures
  BY TypedRequest, Writing DEF Request, Failures
<1> DEFINE m == [Answer(w, "500") EXCEPT !.buf = FALSE]
<1>2. CloseTarget(w, m, Len(rq[w].out)) /\ Ends(rq[w], [m EXCEPT !.fp = "none"], "500")
  BY FreedEnd DEF PutFails
<1> HIDE DEF m
<1> QED
  BY <1>1, <1>2, CloseEndTrace


\* A write at one of its steps.
LEMMA WritingTraced ==
    ASSUME DataInv, TraceInv, NEW w \in Workers, rq[w].pc \in WriteSteps \cup DoneSteps
    PROVE  /\ Good(rq[w], cat, data) /\ rq[w] \in Request /\ rq[w].r # None
           /\ rq[w].r.op \in Puts /\ rq[w].ans = "none" /\ rq[w].fp \in {"none", "write"}
           /\ T(w) \in Targets /\ T(w) = rq[w].r.t /\ rq[w].r.body \in Seq(Recs)
           /\ Traced(rq[w], held[w], data) /\ rq[w].stamp = None
<1>1. Traced(rq[w], held[w], data)
  BY DEF TraceInv
<1>2. rq[w].stamp = None
  BY <1>1 DEF Traced, Stamped, WriteSteps, DoneSteps
<1> QED
  BY <1>1, <1>2, Writing

\* The target is opened for output: nothing is stored yet.
LEMMA OpenWriteTrace ==
    ASSUME DataInv, TraceInv, NEW w \in Workers, NEW m \in Request, OpenWriteTarget(w, m),
           m.r = rq[w].r, m.n = rq[w].n, m.ans = "none", m.stamp = None,
           m.pc \in {"alloc", "record", "close"}, rq[w].pc \in {"probe", "record", "finish"},
           rq[w].r.op \in Puts, rq[w].pc = "probe" => rq[w].r.op = "mbPut",
           rq[w].fp = "none", m.pc = "close" => rq[w].n = Len(rq[w].r.body)
    PROVE  TraceStep
<1> DEFINE t == T(w)
           n == [m EXCEPT !.fp = "write", !.out = << >>, !.dirty = FALSE]
<1>1. \/ t[2] = None /\ Change(w, n, {t}, [data EXCEPT ![t] = << >>])
      \/ t[2] # None /\ Go(w, n) /\ UNCHANGED held
  BY Zenon DEF OpenWriteTarget, Go
<1>2. Good(rq[w], cat, data) /\ rq[w] \in Request /\ Traced(rq[w], held[w], data)
  BY TypedRequest DEF TraceInv
<1>3. rq[w].r # None
  BY <1>2 DEF Good, Stage
<1>4. t \in Targets /\ t = rq[w].r.t
  BY <1>2, <1>3, AskedFor DEF T
<1>5. rq[w].n = 0
  BY <1>2, <1>3 DEF Traced, BodyOK, DoneSteps
<1>6. << >> \in Seq(Stores)
  OBVIOUS
<1>7. PICK s \in Seq(Stores) : s = << >>
  BY <1>6
<1>8. s \in Contents /\ PartOf(s, rq[w].r.t[1], rq[w].r.body, 0)
  BY <1>7, PartEmpty, Zenon DEF Contents
<1>9. \A b \in BOOLEAN : LET x == [m EXCEPT !.fp = "write", !.out = s, !.dirty = b] IN
        /\ x.fp = "write" /\ x.out = s /\ x.pc = m.pc /\ x.ans = m.ans /\ x.r = m.r /\ x.n = m.n
        /\ x.stamp = m.stamp
  BY DEF Request
<1>10. n = [m EXCEPT !.fp = "write", !.out = s, !.dirty = FALSE]
  BY <1>7, Zenon
<1>11. /\ n.fp = "write" /\ n.out = s /\ n.pc = m.pc /\ n.ans = m.ans /\ n.r = m.r /\ n.n = m.n
       /\ n.stamp = m.stamp
  BY <1>9, <1>10, Zenon
<1> HIDE DEF n
<1>12. ASSUME NEW h, NEW D, After(held[w], h), rq[w].r.t[2] = None => D[rq[w].r.t] = s
       PROVE  Traced(n, h, D)
  <2>1. BodyOK(n, D)
    BY <1>5, <1>8, <1>11, <1>12 DEF BodyOK, DoneSteps
  <2>2. Bounded(n, h, D) /\ Stamped(n, D)
    BY <1>11 DEF Bounded, Stamped
  <2>3. Conditioned(n, h, D)
    BY <1>2, <1>11, <1>12 DEF Traced, Conditioned, After
  <2> QED
    BY <2>1, <2>2, <2>3 DEF Traced
<1>15. Opening(rq[w], n)
  BY DEF Opening, Checked
<1>13. CASE t[2] = None /\ Change(w, n, {t}, [data EXCEPT ![t] = << >>])
  <2> HIDE DEF t
  <2>1. Change(w, n, {t}, [data EXCEPT ![t] = s])
    BY <1>7, <1>13, Zenon
  <2>2. \A h, D : After(held[w], h) /\ D[t] = s => Traced(n, h, D)
    BY <1>4, <1>12
  <2> QED
    BY <1>4, <1>8, <1>15, <2>1, <2>2, StoreTrace
<1>14. CASE t[2] # None /\ Go(w, n) /\ UNCHANGED held
  <2>1. Traced(n, held[w], data)
    BY <1>4, <1>12, <1>14, AfterSelf
  <2> QED
    BY <1>14, <1>15, <2>1, GoTrace
<1> QED
  BY <1>1, <1>13, <1>14

LEMMA MbPutProbeTrace ==
    ASSUME DataInv, TraceInv, NEW w \in Workers, MbPutProbe(w) PROVE TraceStep
<1> DEFINE q == To(w, "alloc")
           there == data[T(w)] # None
           m == [q EXCEPT !.create = TRUE, !.blind = there]
           a == OpenFailure(<<T(w)[1], None>>)
<1>1. /\ rq[w].pc = "probe" /\ rq[w].r.op = "mbPut"
      /\ \/ Go(w, q) /\ UNCHANGED held
         \/ OpenWriteTarget(w, m)
         \/ OpenWriteFails(w, Answer(w, a))
         \/ Go(w, Answer(w, a)) /\ UNCHANGED held
  BY Zenon DEF MbPutProbe, At
<1>2. /\ Good(rq[w], cat, data) /\ rq[w] \in Request /\ rq[w].fp = "none" /\ ~rq[w].buf
      /\ rq[w].r # None /\ rq[w].ans = "none" /\ rq[w].r.op \in Puts
  BY <1>1, WriteStart DEF Puts
<1>3. Traced(rq[w], held[w], data) /\ rq[w].stamp = None
  BY <1>1 DEF TraceInv, Traced, Stamped
<1>4. "alloc" \in Steps
  BY DEF Steps
<1>5. Onto(rq[w], q) /\ q.pc = "alloc" /\ q.ans = "none"
  BY <1>2, <1>4, ToOnto DEF To
<1>6. a \in Failures /\ a \in Answers \ {"none"}
  BY FailureTypes DEF Failures, Answers
<1>11. there \in BOOLEAN
  OBVIOUS
<1> HIDE DEF q, a, there
<1>7. CASE Go(w, q) /\ UNCHANGED held
  <2>1. q.r = rq[w].r /\ q.fp = "none" /\ q.stamp = None /\ q.dirty = rq[w].dirty
    BY <1>2, <1>3, <1>5 DEF Onto, Rest
  <2>2. Bounded(q, held[w], data) /\ Stamped(q, data)
    BY <1>5, <2>1 DEF Bounded, Stamped
  <2>3. Conditioned(q, held[w], data)
    BY <1>1, <1>2, <1>3, <1>5, <2>1 DEF Traced, Conditioned, Checked
  <2>4. Traced(q, held[w], data)
    BY <1>1, <1>2, <1>3, <1>5, <2>2, <2>3, MoveTraced DEF DoneSteps, Onto
  <2> QED
    BY <1>7, <2>1, <2>4, GoTrace DEF Opening
<1>8. CASE OpenWriteTarget(w, m)
  <2>1. Keeps(q, m)
    BY <1>5, <1>11, FlagKeeps DEF Onto
  <2> HIDE DEF m
  <2>2. /\ m \in Request /\ m.r = rq[w].r /\ m.n = rq[w].n /\ m.ans = "none" /\ m.stamp = None
        /\ m.pc = "alloc"
    BY <1>3, <1>5, <2>1 DEF Keeps, Onto, Rest
  <2> QED
    BY <1>1, <1>2, <1>8, <2>2, OpenWriteTrace
<1>9. CASE OpenWriteFails(w, Answer(w, a))
  <2>1. Ends(rq[w], Answer(w, a), a)
    BY <1>1, <1>2, <1>6, PlainEnd DEF Answer
  <2> QED
    BY <1>2, <1>6, <1>9, <2>1, OpenFailsTrace
<1>10. CASE Go(w, Answer(w, a)) /\ UNCHANGED held
  BY <1>2, <1>6, <1>10, FailAnswer
<1> QED
  BY <1>1, <1>7, <1>8, <1>9, <1>10

\* The write goes on; its file stays as it is.
LEMMA OnTraced ==
    ASSUME NEW q, NEW n, NEW h, NEW D, Traced(q, h, D), Rest(q, n), n.ans = q.ans,
           n.dirty = q.dirty, n.stamp = None, q.ans = "none", q.r # None, q.r.op \in Puts,
           q.pc \in {"alloc", "body", "record", "finish"}, n.pc \in WriteSteps,
           n.pc = "close" => q.fp = "write",
           n.pc \in {"finish", "close"} => q.n = Len(q.r.body)
    PROVE  Traced(n, h, D)
<1>1. BodyOK(n, D)
  BY DEF Traced, BodyOK, Rest, WriteSteps, DoneSteps
<1>2. Bounded(n, h, D) /\ Stamped(n, D)
  BY DEF Bounded, Stamped, WriteSteps
<1>3. Conditioned(n, h, D)
  BY DEF Traced, Conditioned, Checked, Rest, WriteSteps
<1> QED
  BY <1>1, <1>2, <1>3 DEF Traced

LEMMA OnTrace ==
    ASSUME DataInv, TraceInv, NEW w \in Workers, NEW n, Keeps(To(w, n.pc), n), Go(w, n),
           UNCHANGED held, rq[w].pc \in {"alloc", "body", "record", "finish"}, n.pc \in WriteSteps,
           n.pc = "close" => rq[w].fp = "write",
           n.pc \in {"finish", "close"} => rq[w].n = Len(rq[w].r.body)
    PROVE  TraceStep
<1>1. n.pc \in Steps /\ rq[w].pc \in WriteSteps
  BY DEF WriteSteps, Steps
<1>2. /\ rq[w] \in Request /\ rq[w].r # None /\ rq[w].r.op \in Puts /\ rq[w].ans = "none"
      /\ Traced(rq[w], held[w], data) /\ rq[w].stamp = None
  BY <1>1, WritingTraced
<1> DEFINE q == To(w, n.pc)
<1>3. Onto(rq[w], q) /\ q.ans = rq[w].ans
  BY <1>1, <1>2, ToOnto DEF To
<1> HIDE DEF q
<1>4. Rest(rq[w], n) /\ n.ans = rq[w].ans /\ n.dirty = rq[w].dirty /\ n.stamp = None
  BY <1>2, <1>3 DEF Keeps, Onto, Rest, q
<1>5. Traced(n, held[w], data)
  BY <1>2, <1>4, OnTraced
<1> QED
  BY <1>4, <1>5, GoTrace DEF Opening, Rest


\* The flag of a step to p.
LEMMA StepKeeps ==
    ASSUME DataInv, NEW w \in Workers, NEW p \in Steps
    PROVE  /\ To(w, p).pc = p /\ Keeps(To(w, p), To(w, p))
           /\ LET n == [To(w, p) EXCEPT !.buf = TRUE] IN n.pc = p /\ Keeps(To(w, p), n)
           /\ LET n == [To(w, p) EXCEPT !.buf = FALSE] IN n.pc = p /\ Keeps(To(w, p), n)
           /\ LET n == [To(w, p) EXCEPT !.framed = TRUE] IN n.pc = p /\ Keeps(To(w, p), n)
<1> DEFINE q == To(w, p)
<1>1. q \in Request /\ q.pc = p
  BY TypedRequest, ToOnto DEF To, Onto
<1> HIDE DEF q
<1>2. /\ Keeps(q, [q EXCEPT !.buf = TRUE]) /\ Keeps(q, [q EXCEPT !.buf = FALSE])
      /\ Keeps(q, [q EXCEPT !.framed = TRUE])
  BY <1>1, FlagKeeps
<1>3. \A x : Keeps(q, x) => x.pc = q.pc
  BY DEF Keeps
<1>4. Keeps(q, q)
  BY <1>1 DEF Keeps, Onto, Rest
<1> QED
  BY <1>1, <1>2, <1>3, <1>4, Zenon DEF q

\* The buffer, the next record of the body and the end of the body.
LEMMA BodyTrace ==
    ASSUME DataInv, TraceInv, NEW w \in Workers,
           \/ PutAlloc(w) \/ DsPutFrame(w) \/ MbPutFrame(w) \/ DsPutBodyEnd(w) \/ MbPutBodyEnd(w)
    PROVE  TraceStep
<1>1. rq[w].pc \in {"alloc", "body"} /\ rq[w].pc \in WriteSteps
  BY DEF PutAlloc, DsPutFrame, MbPutFrame, PutFrame, DsPutBodyEnd, MbPutBodyEnd, PutBodyEnd, At,
     WriteSteps
<1>2. \/ PutFails(w)
      \/ UNCHANGED held /\ Go(w, [To(w, "body") EXCEPT !.buf = TRUE])
      \/ UNCHANGED held /\ Go(w, [To(w, "record") EXCEPT !.framed = TRUE])
      \/ /\ UNCHANGED held /\ Go(w, [To(w, "finish") EXCEPT !.buf = FALSE])
         /\ rq[w].n = Len(R(w).body)
  BY Zenon DEF PutAlloc, DsPutFrame, MbPutFrame, PutFrame, DsPutBodyEnd, MbPutBodyEnd, PutBodyEnd
<1>3. "body" \in Steps /\ "record" \in Steps /\ "finish" \in Steps
  BY DEF Steps
<1>4. "body" \in WriteSteps /\ "record" \in WriteSteps /\ "finish" \in WriteSteps
  BY DEF WriteSteps
<1>5. ASSUME NEW n, NEW p \in {"body", "record", "finish"}, n.pc = p, Keeps(To(w, p), n), Go(w, n),
             UNCHANGED held, p = "finish" => rq[w].n = Len(rq[w].r.body)
      PROVE  TraceStep
  BY <1>1, <1>4, <1>5, OnTrace
<1>6. CASE UNCHANGED held /\ Go(w, [To(w, "body") EXCEPT !.buf = TRUE])
  <2>1. PICK n : n = [To(w, "body") EXCEPT !.buf = TRUE]
    BY Zenon
  <2>2. n.pc = "body" /\ Keeps(To(w, "body"), n) /\ Go(w, n)
    BY <1>3, <1>6, <2>1, StepKeeps, Zenon
  <2> QED
    BY <1>5, <1>6, <2>2
<1>7. CASE UNCHANGED held /\ Go(w, [To(w, "record") EXCEPT !.framed = TRUE])
  <2>1. PICK n : n = [To(w, "record") EXCEPT !.framed = TRUE]
    BY Zenon
  <2>2. n.pc = "record" /\ Keeps(To(w, "record"), n) /\ Go(w, n)
    BY <1>3, <1>7, <2>1, StepKeeps, Zenon
  <2> QED
    BY <1>5, <1>7, <2>2
<1>8. CASE /\ UNCHANGED held /\ Go(w, [To(w, "finish") EXCEPT !.buf = FALSE])
           /\ rq[w].n = Len(R(w).body)
  <2>1. PICK n : n = [To(w, "finish") EXCEPT !.buf = FALSE]
    BY Zenon
  <2>2. n.pc = "finish" /\ Keeps(To(w, "finish"), n) /\ Go(w, n)
    BY <1>3, <1>8, <2>1, StepKeeps, Zenon
  <2> QED
    BY <1>5, <1>8, <2>2 DEF R
<1> QED
  BY <1>1, <1>2, <1>6, <1>7, <1>8, PutFailsTrace

\* The output open, at the first record or for an empty body.
LEMMA PutOpenTrace ==
    ASSUME DataInv, TraceInv, NEW w \in Workers, PutOpen(w) PROVE TraceStep
<1> DEFINE m == [Answer(w, "500") EXCEPT !.buf = FALSE]
<1>1. rq[w].pc = "record" /\ rq[w].fp = "none" /\ (OpenWriteTarget(w, rq[w]) \/ OpenWriteFails(w, m))
  BY Zenon DEF PutOpen
<1>2. "record" \in WriteSteps /\ "500" \in Failures
  BY DEF WriteSteps, Failures
<1>3. /\ rq[w] \in Request /\ rq[w].r # None /\ rq[w].r.op \in Puts /\ rq[w].ans = "none"
      /\ rq[w].stamp = None
  BY <1>1, <1>2, WritingTraced
<1>4. CASE OpenWriteTarget(w, rq[w])
  BY <1>1, <1>3, <1>4, OpenWriteTrace
<1>5. CASE OpenWriteFails(w, m)
  <2>1. Ends(rq[w], m, "500")
    BY <1>1, <1>2, FreedEnd
  <2> HIDE DEF m
  <2> QED
    BY <1>2, <1>3, <1>5, <2>1, OpenFailsTrace
<1> QED
  BY <1>1, <1>4, <1>5

LEMMA PutFinishTrace ==
    ASSUME DataInv, TraceInv, NEW w \in Workers, PutFinish(w) PROVE TraceStep
<1> DEFINE q == To(w, "close")
           m == Answer(w, "500")
<1>1. /\ rq[w].pc = "finish"
      /\ \/ rq[w].fp = "write" /\ Go(w, q) /\ UNCHANGED held
         \/ rq[w].fp = "none" /\ OpenWriteTarget(w, q)
         \/ rq[w].fp = "none" /\ OpenWriteFails(w, m)
  BY Zenon DEF PutFinish
<1>2. /\ "finish" \in WriteSteps /\ "close" \in WriteSteps /\ "500" \in Failures /\ "close" \in Steps
      /\ "500" \in Answers \ {"none"}
  BY DEF WriteSteps, Failures, Steps, Answers
<1>3. /\ rq[w] \in Request /\ rq[w].r # None /\ rq[w].r.op \in Puts /\ rq[w].ans = "none"
      /\ rq[w].stamp = None /\ Traced(rq[w], held[w], data) /\ Good(rq[w], cat, data)
  BY <1>1, <1>2, WritingTraced
<1>4. rq[w].n = Len(rq[w].r.body)
  BY <1>1, <1>3 DEF Traced, BodyOK
<1>5. Onto(rq[w], q) /\ q.pc = "close" /\ q.ans = "none"
  BY <1>2, <1>3, ToOnto DEF To
<1>6. Keeps(q, q)
  BY <1>2, StepKeeps
<1>7. CASE rq[w].fp = "write" /\ Go(w, q) /\ UNCHANGED held
  <2>1. PICK n : n = q
    BY Zenon
  <2>2. n.pc = "close" /\ Keeps(To(w, n.pc), n) /\ Go(w, n)
    BY <1>5, <1>6, <1>7, <2>1, Zenon
  <2> QED
    BY <1>1, <1>2, <1>4, <1>7, <2>2, OnTrace
<1>8. CASE rq[w].fp = "none" /\ OpenWriteTarget(w, q)
  <2> HIDE DEF q
  <2>1. q \in Request /\ q.r = rq[w].r /\ q.n = rq[w].n /\ q.stamp = None
    BY <1>3, <1>5 DEF Onto, Rest
  <2> QED
    BY <1>1, <1>3, <1>4, <1>5, <1>8, <2>1, OpenWriteTrace
<1>9. CASE rq[w].fp = "none" /\ OpenWriteFails(w, m)
  <2>1. ~rq[w].buf
    BY <1>1, <1>3 DEF Good, Stage
  <2>2. Ends(rq[w], m, "500")
    BY <1>1, <1>2, <1>3, <1>9, <2>1, PlainEnd DEF Answer
  <2> HIDE DEF m
  <2> QED
    BY <1>2, <1>3, <1>9, <2>2, OpenFailsTrace
<1> QED
  BY <1>1, <1>7, <1>8, <1>9


\* One more record is stored.
LEMMA PutRecordTrace ==
    ASSUME DataInv, TraceInv, NEW w \in Workers, PutRecord(w) PROVE TraceStep
<1> DEFINE k == rq[w].n + 1
           b == rq[w].r.body
           d == rq[w].r.t[1]
           long == R(w).body[k] \in Long
           q == To(w, "body")
<1>1. rq[w].pc = "record" /\ rq[w].fp = "write" /\ (WriteRecord(w, k) \/ PutFails(w))
  BY Zenon DEF PutRecord
<1>2. "record" \in WriteSteps /\ "body" \in Steps
  BY DEF WriteSteps, Steps
<1>3. /\ Good(rq[w], cat, data) /\ rq[w] \in Request /\ rq[w].r.op \in Puts /\ rq[w].ans = "none"
      /\ rq[w].r # None /\ b \in Seq(Recs) /\ rq[w].n \in Nat /\ T(w) \in Targets
      /\ T(w) = rq[w].r.t /\ Traced(rq[w], held[w], data) /\ rq[w].stamp = None
      /\ rq[w].out \in Seq(Stores)
  BY <1>1, <1>2, WritingTraced DEF Request
<1>4. CASE PutFails(w)
  BY <1>1, <1>2, <1>4, PutFailsTrace
<1>5. CASE WriteRecord(w, k)
  <2>1. k \in 1 .. Len(b) /\ k \in Nat /\ rq[w].n < Len(b)
    BY <1>1, <1>3 DEF Good, Framed, Origin
  <2>0. /\ Stored(R(w).body)[k] \in Stores /\ Broken \in Stores
        /\ \A e \in Stores, s \in Seq(Stores) : WriteAt(s, k, e) \in Seq(Stores)
    BY <1>3, <2>1, RecordTypes DEF R
  <2>2. PICK rec \in Stores : RecordAt(w, k, rec)
    BY <1>5, <2>0, Zenon DEF WriteRecord, RecordAt
  <2> DEFINE n == [q EXCEPT !.n = k, !.out = Append(q.out, rec), !.cut = q.cut \/ long]
  <2>3. rec = Stored(b)[k] \/ (d \in Spanned /\ rec = Broken)
    BY <1>3, <2>2 DEF RecordAt, R
  <2>4. \/ /\ T(w)[2] = None
           /\ Change(w, n, {T(w)}, [data EXCEPT ![T(w)] = WriteAt(data[T(w)], k, rec)])
        \/ T(w)[2] # None /\ Go(w, n) /\ UNCHANGED held
    BY <2>2, Zenon DEF RecordAt
  <2>5. Onto(rq[w], q) /\ q.pc = "body" /\ q.ans = "none"
    BY <1>2, <1>3, ToOnto DEF To
  <2>6. PartOf(rq[w].out, d, b, rq[w].n)
    BY <1>1, <1>3 DEF Traced, BodyOK
  <2>7. \A s : PartOf(s, d, b, rq[w].n) =>
                 PartOf(Append(s, rec), d, b, k) /\ PartOf(WriteAt(s, k, rec), d, b, k)
    BY <1>3, <2>1, <2>2, <2>3, PartNext
  <2>17. long = (b[k] \in Long)
    BY DEF R
  <2> HIDE DEF q, long
  <2>8. q.out = rq[w].out /\ Append(q.out, rec) \in Seq(Stores)
    BY <1>3, <2>2, <2>5 DEF Onto, Rest
  <2>9. (q.cut \/ long) \in BOOLEAN
    OBVIOUS
  <2>10. ASSUME NEW c \in BOOLEAN, NEW o \in Seq(Stores)
         PROVE  LET x == [q EXCEPT !.n = k, !.out = o, !.cut = c] IN
                /\ x.pc = q.pc /\ x.ans = q.ans /\ x.r = q.r /\ x.fp = q.fp /\ x.n = k
                /\ x.out = o /\ x.cut = c /\ x.dirty = q.dirty /\ x.stamp = q.stamp
    BY <2>1, <2>5 DEF Request, Onto
  <2>11. /\ n.pc = q.pc /\ n.ans = q.ans /\ n.r = q.r /\ n.fp = q.fp /\ n.n = k
         /\ n.out = Append(q.out, rec) /\ n.cut = (q.cut \/ long) /\ n.dirty = q.dirty
         /\ n.stamp = q.stamp
    BY <2>8, <2>9, <2>10, Zenon
  <2> HIDE DEF n
  <2>12. /\ n.pc = "body" /\ n.ans = "none" /\ n.r = rq[w].r /\ n.fp = "write" /\ n.n = k
         /\ PartOf(n.out, d, b, k) /\ n.dirty = rq[w].dirty /\ n.stamp = None
         /\ n.cut = (rq[w].cut \/ b[k] \in Long)
    BY <1>1, <1>3, <2>5, <2>6, <2>7, <2>8, <2>11, <2>17 DEF Onto, Rest
  <2>13. n.cut \/ \A i \in 1 .. k : b[i] \notin Long
    <3>1. rq[w].cut \/ \A i \in 1 .. rq[w].n : b[i] \notin Long
      BY <1>1, <1>3 DEF Traced, BodyOK
    <3>2. \A i \in 1 .. k : i \in 1 .. rq[w].n \/ i = k
      BY <1>3
    <3> QED
      BY <2>12, <3>1, <3>2
  <2>14. ASSUME NEW h, NEW D, After(held[w], h),
                rq[w].r.t[2] = None => rq[w].dirty \/ PartOf(D[rq[w].r.t], d, b, k)
         PROVE  Traced(n, h, D)
    <3>1. BodyOK(n, D)
      BY <2>12, <2>13, <2>14 DEF BodyOK, DoneSteps
    <3>2. Bounded(n, h, D) /\ Stamped(n, D)
      BY <2>12 DEF Bounded, Stamped
    <3>3. Conditioned(n, h, D)
      BY <1>3, <2>12, <2>14 DEF Traced, Conditioned, After
    <3> QED
      BY <3>1, <3>2, <3>3 DEF Traced
  <2>15. CASE /\ T(w)[2] = None
              /\ Change(w, n, {T(w)}, [data EXCEPT ![T(w)] = WriteAt(data[T(w)], k, rec)])
    <3>1. data[T(w)] \in Seq(Stores)
      <4>1. cat[T(w)[1]] = "PS"
        BY <1>1, <1>3, <2>15, OpenIsCataloged
      <4> QED
        BY <1>3, <2>15, <4>1 DEF DataInv, VolumeOK, Contents
    <3>2. WriteAt(data[T(w)], k, rec) \in Seq(Stores)
      BY <2>0, <3>1
    <3>3. PICK s \in Contents : s = WriteAt(data[T(w)], k, rec)
      BY <3>2 DEF Contents
    <3>4. rq[w].dirty \/ PartOf(s, d, b, k)
      BY <1>1, <1>3, <2>7, <2>15, <3>3 DEF Traced, BodyOK
    <3>5. Change(w, n, {T(w)}, [data EXCEPT ![T(w)] = s])
      BY <2>15, <3>3, Zenon
    <3>6. \A h, D : After(held[w], h) /\ D[T(w)] = s => Traced(n, h, D)
      BY <1>3, <2>14, <3>4
    <3> QED
      BY <1>1, <1>3, <3>5, <3>6, StoreTrace DEF Opening
  <2>16. CASE T(w)[2] # None /\ Go(w, n) /\ UNCHANGED held
    <3>1. Traced(n, held[w], data)
      BY <1>3, <2>14, <2>16, AfterSelf
    <3> QED
      BY <1>1, <2>16, <3>1, GoTrace DEF Opening
  <2> QED
    BY <2>4, <2>15, <2>16
<1> QED
  BY <1>1, <1>4, <1>5

\* The close, after the last record.
LEMMA PutCloseTrace ==
    ASSUME DataInv, TraceInv, NEW w \in Workers, PutClose(w) PROVE TraceStep
<1>1. /\ rq[w].pc = "close"
      /\ \/ CloseTarget(w, To(w, "written"), Len(rq[w].out))
         \/ \E k \in 0 .. Len(rq[w].out) : CloseTarget(w, Answer(w, "500"), k)
  BY Zenon DEF PutClose
<1>2. "close" \in WriteSteps /\ "written" \in Steps /\ "500" \in Failures
  BY DEF WriteSteps, Steps, Failures
<1>3. /\ Good(rq[w], cat, data) /\ rq[w] \in Request /\ rq[w].r.op \in Puts /\ rq[w].ans = "none"
      /\ rq[w].r # None /\ rq[w].r.body \in Seq(Recs) /\ T(w) \in Targets
      /\ T(w) = rq[w].r.t /\ Traced(rq[w], held[w], data) /\ rq[w].stamp = None
  BY <1>1, <1>2, WritingTraced
<1>4. ~rq[w].buf /\ rq[w].fp = "write" /\ rq[w].out \in Seq(Stores)
  BY <1>1, <1>3 DEF Good, Stage, Request
<1> DEFINE stored(s) == StoredAs(s, rq[w].r.t[1], rq[w].r.body)
<1>5. rq[w].n = Len(rq[w].r.body) /\ stored(rq[w].out)
  BY <1>1, <1>3, <1>4, PartAll DEF Traced, BodyOK
<1>6. CASE CloseTarget(w, To(w, "written"), Len(rq[w].out))
  <2> DEFINE q == To(w, "written")
             n == [q EXCEPT !.fp = "none"]
             s == rq[w].out
  <2>1. Onto(rq[w], q) /\ q.pc = "written" /\ q.ans = "none"
    BY <1>2, <1>3, ToOnto DEF To
  <2>2. Len(s) \in Nat /\ ~(Len(s) < Len(s))
    BY <1>4
  <2>3. \/ T(w)[2] # None /\ Change(w, n, {T(w)}, [data EXCEPT ![T(w)] = s])
        \/ T(w)[2] = None /\ Go(w, n) /\ UNCHANGED held
    BY <1>4, <1>6, <2>2, Zenon DEF CloseTarget
  <2> HIDE DEF q
  <2>4. /\ n.fp = "none" /\ n.pc = q.pc /\ n.ans = q.ans /\ n.r = q.r /\ n.n = q.n /\ n.cut = q.cut
        /\ n.stamp = q.stamp /\ n.dirty = q.dirty
    BY <2>1, FileSet DEF Onto
  <2> HIDE DEF n
  <2>5. /\ n.fp = "none" /\ n.pc = "written" /\ n.ans = "none" /\ n.r = rq[w].r /\ n.n = rq[w].n
        /\ n.cut = rq[w].cut /\ n.stamp = None /\ n.dirty = rq[w].dirty
    BY <1>3, <2>1, <2>4 DEF Onto, Rest
  <2>6. ASSUME NEW h, NEW D, After(held[w], h), rq[w].dirty \/ stored(D[rq[w].r.t])
        PROVE  Traced(n, h, D)
    <3>1. BodyOK(n, D)
      BY <1>1, <1>3, <1>5, <2>5, <2>6 DEF BodyOK, DoneSteps, Traced
    <3>2. Bounded(n, h, D) /\ Stamped(n, D)
      BY <2>5 DEF Bounded, Stamped
    <3>3. Conditioned(n, h, D)
      BY <1>3, <2>5, <2>6 DEF Traced, Conditioned, After, Checked
    <3> QED
      BY <3>1, <3>2, <3>3 DEF Traced
  <2>7. CASE T(w)[2] # None /\ Change(w, n, {T(w)}, [data EXCEPT ![T(w)] = s])
    <3>1. s \in Contents
      BY <1>4 DEF Contents
    <3>2. \A h, D : After(held[w], h) /\ D[T(w)] = s => Traced(n, h, D)
      BY <1>3, <1>5, <2>6
    <3> HIDE DEF s
    <3> QED
      BY <1>3, <1>4, <2>7, <3>1, <3>2, StoreTrace DEF Opening
  <2>8. CASE T(w)[2] = None /\ Go(w, n) /\ UNCHANGED held
    <3>1. rq[w].dirty \/ stored(data[rq[w].r.t])
      BY <1>3, <1>4, <1>5, <2>8, PartAll DEF Traced, BodyOK
    <3>2. Traced(n, held[w], data)
      BY <2>6, <3>1, AfterSelf
    <3> QED
      BY <1>4, <2>8, <3>2, GoTrace DEF Opening
  <2> QED
    BY <2>3, <2>7, <2>8
<1>7. ASSUME NEW k \in 0 .. Len(rq[w].out), CloseTarget(w, Answer(w, "500"), k)
      PROVE  TraceStep
  <2>1. k \in Nat
    BY <1>4
  <2>2. Ends(rq[w], [Answer(w, "500") EXCEPT !.fp = "none"], "500")
    BY <1>1, <1>2, <1>4, CloseAnswer
  <2> QED
    BY <1>2, <1>3, <1>7, <2>1, <2>2, CloseEndTrace
<1> QED
  BY <1>1, <1>6, <1>7

LEMMA PutAbendTrace ==
    ASSUME DataInv, TraceInv, NEW w \in Workers, PutAbend(w) PROVE TraceStep
<1>1. rq[w].pc \in {"record", "close"} /\ CloseTarget(w, Answer(w, "abend"), Len(rq[w].out))
  BY DEF PutAbend
<1>2. rq[w].pc \in WriteSteps /\ "abend" \in Failures
  BY <1>1 DEF WriteSteps, Failures
<1>3. rq[w].r # None /\ Len(rq[w].out) \in Nat
  BY <1>2, WritingTraced DEF Request
<1>4. Ends(rq[w], [Answer(w, "abend") EXCEPT !.fp = "none"], "abend")
  BY <1>2, CloseAnswer
<1> QED
  BY <1>1, <1>2, <1>3, <1>4, CloseEndTrace


\* A body with a record that was cut is answered 500.
LEMMA PutWrittenTrace ==
    ASSUME DataInv, TraceInv, NEW w \in Workers, DsPutWritten(w) \/ MbPutWritten(w)
    PROVE  TraceStep
<1>1. /\ rq[w].pc = "written" /\ UNCHANGED held
      /\ \/ Go(w, Answer(w, "500"))
         \/ /\ ~rq[w].cut
            /\ \/ \E p \in {"scount", "stamp"} : Go(w, To(w, p)) /\ (p = "stamp" => rq[w].r.op = "mbPut")
               \/ Go(w, Answer(w, "204"))
  BY Zenon DEF DsPutWritten, MbPutWritten, PutWritten, At, Same
<1>2. rq[w].pc \in DoneSteps /\ "500" \in Failures /\ "204" \in Answers
  BY <1>1 DEF DoneSteps, Failures, Answers
<1>3. /\ Good(rq[w], cat, data) /\ rq[w] \in Request /\ rq[w].r.op \in Puts /\ rq[w].ans = "none"
      /\ rq[w].r # None /\ Traced(rq[w], held[w], data) /\ rq[w].stamp = None
  BY <1>2, WritingTraced
<1>4. rq[w].fp = "none"
  BY <1>1, <1>3 DEF Good, Stage, Request, WriteSteps
<1>5. ~rq[w].cut => Fitting(rq[w].r.body)
  BY <1>1, <1>3 DEF Traced, BodyOK, Fitting, DoneSteps
<1>6. rq[w].n = Len(rq[w].r.body)
  BY <1>2, <1>3 DEF Traced, BodyOK
<1>7. CASE Go(w, Answer(w, "500"))
  BY <1>1, <1>2, <1>4, <1>7, FailAnswer
<1>8. ASSUME ~rq[w].cut, NEW p \in {"scount", "stamp"}, Go(w, To(w, p)), p = "stamp" => rq[w].r.op = "mbPut"
      PROVE  TraceStep
  <2> DEFINE n == To(w, p)
  <2>1. p \in Steps
    BY DEF Steps
  <2>2. Onto(rq[w], n) /\ n.pc = p /\ n.ans = "none"
    BY <1>3, <2>1, ToOnto DEF To
  <2>3. Go(w, n)
    BY <1>8
  <2> HIDE DEF n
  <2>4. /\ n.r = rq[w].r /\ n.fp = "none" /\ n.n = rq[w].n /\ n.cut = rq[w].cut /\ n.stamp = None
        /\ n.max = rq[w].max
    BY <1>3, <1>4, <2>2 DEF Onto, Rest
  <2>5. BodyOK(n, data) /\ Stamped(n, data)
    BY <1>5, <1>6, <1>8, <2>2, <2>4 DEF BodyOK, DoneSteps, Stamped, Fitting
  <2>6. Bounded(n, held[w], data)
    BY <1>3, <1>8, <2>2, <2>4, AskedFor DEF Bounded, Good, Unbounded, Bound
  <2>7. Conditioned(n, held[w], data)
    BY <1>3, <2>2, <2>4 DEF Traced, Conditioned, Checked
  <2>8. Traced(n, held[w], data)
    BY <2>5, <2>6, <2>7 DEF Traced
  <2> QED
    BY <1>1, <2>3, <2>4, <2>8, GoTrace DEF Opening
<1>9. CASE ~rq[w].cut /\ Go(w, Answer(w, "204"))
  <2> DEFINE n == Answer(w, "204")
  <2>1. Onto(rq[w], n) /\ n.pc = "answer" /\ n.ans = "204"
    BY <1>2, <1>3, AnswerOnto DEF Answer
  <2>2. Go(w, n)
    BY <1>9
  <2> HIDE DEF n
  <2>3. n.r = rq[w].r /\ n.fp = "none" /\ n.stamp = None
    BY <1>3, <1>4, <2>1 DEF Onto, Rest
  <2>4. BodyOK(n, data) /\ Stamped(n, data) /\ Bounded(n, held[w], data)
    BY <1>5, <1>9, <2>1, <2>3 DEF BodyOK, DoneSteps, Stamped, Bounded
  <2>5. Conditioned(n, held[w], data)
    BY <1>3, <2>1, <2>3 DEF Traced, Conditioned, Checked
  <2>6. Traced(n, held[w], data)
    BY <2>4, <2>5 DEF Traced
  <2> QED
    BY <1>1, <2>2, <2>3, <2>6, GoTrace DEF Opening
<1> QED
  BY <1>1, <1>7, <1>8, <1>9

LEMMA DsPutStampCountTrace ==
    ASSUME DataInv, TraceInv, NEW w \in Workers, DsPutStampCount(w) PROVE TraceStep
<1> DEFINE m == FbRecordCount(T(w))
           q == To(w, "stamp")
           n == [q EXCEPT !.max = m]
<1>1. rq[w].pc = "scount" /\ UNCHANGED held /\ Go(w, n)
  BY Zenon DEF DsPutStampCount, At, Same
<1>2. rq[w].pc \in DoneSteps /\ "stamp" \in Steps
  BY <1>1 DEF DoneSteps, Steps
<1>3. /\ Good(rq[w], cat, data) /\ rq[w] \in Request /\ rq[w].r.op \in Puts /\ rq[w].ans = "none"
      /\ rq[w].r # None /\ Traced(rq[w], held[w], data) /\ rq[w].stamp = None
      /\ T(w) \in Targets /\ T(w) = rq[w].r.t
  BY <1>2, WritingTraced
<1>4. rq[w].fp = "none"
  BY <1>1, <1>3 DEF Good, Stage, Request, WriteSteps
<1>5. m \in Int /\ m = Bound(data, rq[w].r.t)
  BY <1>3, CountTypes DEF FbRecordCount, Bound
<1>6. Onto(rq[w], q) /\ q.pc = "stamp" /\ q.ans = "none"
  BY <1>2, <1>3, ToOnto DEF To
<1> HIDE DEF m, q
<1>7. Rest(q, n) /\ n.pc = q.pc /\ n.ans = q.ans /\ n.stamp = q.stamp /\ n.max = m
  BY <1>5, <1>6, MaxSet DEF Onto
<1> HIDE DEF n
<1>8. /\ n.pc = "stamp" /\ n.ans = "none" /\ n.r = rq[w].r /\ n.fp = "none" /\ n.n = rq[w].n
      /\ n.cut = rq[w].cut /\ n.stamp = None /\ n.max = Bound(data, n.r.t)
  BY <1>3, <1>4, <1>5, <1>6, <1>7 DEF Onto, Rest
<1>9. BodyOK(n, data)
  BY <1>1, <1>3, <1>8 DEF Traced, BodyOK, DoneSteps
<1>10. Bounded(n, held[w], data) /\ Stamped(n, data)
  BY <1>8 DEF Bounded, Stamped
<1>11. Conditioned(n, held[w], data)
  BY <1>3, <1>8 DEF Traced, Conditioned, Checked
<1>12. Traced(n, held[w], data)
  BY <1>9, <1>10, <1>11 DEF Traced
<1> QED
  BY <1>1, <1>8, <1>12, GoTrace DEF Opening

\* The stamp of the answer.
LEMMA PutStampTrace ==
    ASSUME DataInv, TraceInv, NEW w \in Workers, PutStamp(w) PROVE TraceStep
<1> DEFINE e == DatasetEtag(w)
           a == Answer(w, "204")
           y == [a EXCEPT !.stamp = e]
           z == [a EXCEPT !.err = TRUE]
<1>1. rq[w].pc = "stamp" /\ UNCHANGED held /\ (Go(w, y) \/ Go(w, Answer(w, "abend")) \/ Go(w, z))
  BY Zenon DEF PutStamp, Etag
<1>2. rq[w].pc \in DoneSteps /\ "204" \in Answers
  BY <1>1 DEF DoneSteps, Answers
<1>3. /\ Good(rq[w], cat, data) /\ rq[w] \in Request /\ rq[w].r.op \in Puts /\ rq[w].ans = "none"
      /\ rq[w].r # None /\ Traced(rq[w], held[w], data) /\ rq[w].stamp = None
      /\ T(w) \in Targets /\ T(w) = rq[w].r.t
  BY <1>2, WritingTraced
<1>4. rq[w].fp = "none" /\ Fitting(rq[w].r.body)
  BY <1>1, <1>3 DEF Good, Stage, Request, WriteSteps, Traced, BodyOK
<1>5. e \in Contents /\ (rq[w].dirty \/ e = data[rq[w].r.t])
  BY <1>1, <1>3, EtagTypes, EtagExact DEF Traced, Bounded
<1>6. Onto(rq[w], a) /\ a.pc = "answer" /\ a.ans = "204"
  BY <1>2, <1>3, AnswerOnto DEF Answer
<1> HIDE DEF e, a
<1>7. ASSUME NEW n, Rest(a, n), n.pc = a.pc, n.ans = a.ans, n.dirty = a.dirty, Go(w, n),
             n.stamp = None \/ n.stamp = e
      PROVE  TraceStep
  <2>1. /\ n.pc = "answer" /\ n.ans = "204" /\ n.r = rq[w].r /\ n.fp = "none" /\ n.dirty = rq[w].dirty
    BY <1>4, <1>6, <1>7 DEF Onto, Rest
  <2>2. BodyOK(n, data) /\ Bounded(n, held[w], data)
    BY <1>4, <2>1 DEF BodyOK, DoneSteps, Bounded
  <2>3. Stamped(n, data)
    BY <1>5, <1>7, <2>1 DEF Stamped
  <2>4. Conditioned(n, held[w], data)
    BY <1>3, <2>1 DEF Traced, Conditioned, Checked
  <2>5. Traced(n, held[w], data)
    BY <2>2, <2>3, <2>4 DEF Traced
  <2> QED
    BY <1>1, <1>7, <2>1, <2>5, GoTrace DEF Opening
<1>8. CASE Go(w, y)
  <2>1. y.stamp = e /\ Rest(a, y) /\ y.pc = a.pc /\ y.ans = a.ans /\ y.dirty = a.dirty
    BY <1>5, <1>6, StampSet DEF Onto
  <2> HIDE DEF y
  <2> QED
    BY <1>7, <1>8, <2>1
<1>9. CASE Go(w, z)
  <2>1. Rest(a, z) /\ z.pc = a.pc /\ z.ans = a.ans /\ z.dirty = a.dirty /\ z.stamp = a.stamp
    BY <1>6, ErrSet DEF Onto
  <2>2. a.stamp = None
    BY <1>3, <1>6 DEF Onto
  <2> HIDE DEF z
  <2> QED
    BY <1>7, <1>9, <2>1, <2>2
<1>10. CASE Go(w, Answer(w, "abend"))
  BY <1>1, <1>4, <1>10, FailAnswer DEF Failures
<1> QED
  BY <1>1, <1>8, <1>9, <1>10


-----------------------------------------------------------------------------
(* Creating, renaming and deleting; a request comes and goes. *)

LEMMA ActTrace ==
    ASSUME DataInv, TraceInv, NEW w \in Workers, rq[w].pc = "act", rq[w].r.op # "mbList",
           NEW a \in {"201", "204"}, NEW C \in SUBSET Targets, NEW new \in [Targets -> Contents],
           Change(w, Answer(w, a), C, new)
    PROVE  TraceStep
<1> DEFINE n == Answer(w, a)
<1>1. a \in Answers
  BY DEF Answers
<1>2. rq[w] \in Request /\ rq[w].fp = "none" /\ rq[w].r.op \notin Puts
  BY Acting
<1>3. Traced(rq[w], held[w], data) /\ rq[w].stamp = None
  BY DEF TraceInv, Traced, Stamped
<1>4. Onto(rq[w], n) /\ n.pc = "answer" /\ n.ans = a
  BY <1>1, <1>2, AnswerOnto DEF Answer
<1>5. Change(w, n, C, new)
  OBVIOUS
<1> HIDE DEF n
<1>6. n.r = rq[w].r /\ n.fp = "none" /\ n.stamp = None
  BY <1>2, <1>3, <1>4 DEF Onto, Rest
<1>7. After(held[w], held'[w])
  BY <1>5, HeldAfter
<1>8. BodyOK(n, data') /\ Bounded(n, held'[w], data') /\ Stamped(n, data')
  BY <1>2, <1>4, <1>6 DEF BodyOK, Bounded, Stamped
<1>9. Conditioned(n, held'[w], data')
  BY <1>3, <1>4, <1>6, <1>7 DEF Traced, Conditioned, Checked, After
<1>10. Traced(n, held'[w], data') /\ Opening(rq[w], n)
  BY <1>6, <1>8, <1>9 DEF Traced, Opening
<1> QED
  BY <1>5, <1>10, ChangeTrace

LEMMA ManageTrace ==
    ASSUME DataInv, TraceInv, NEW w \in Workers,
           DsCreateAllocate(w) \/ DsRename(w) \/ MbRename(w) \/ DsDelete(w) \/ MbDelete(w)
    PROVE  TraceStep
<1>1. rq[w].pc = "act" /\ rq[w].r.op \in {"dsCreate", "dsRename", "mbRename", "dsDelete", "mbDelete"}
  BY DEF DsCreateAllocate, DsRename, MbRename, DsDelete, MbDelete, At
<1>2. /\ rq[w] \in Request /\ rq[w].r # None /\ rq[w].fp = "none" /\ T(w) \in Targets
      /\ T(w)[1] \in Names
  BY <1>1, Acting
<1>3. data \in [Targets -> Contents] /\ None \in Contents
  BY DEF DataInv, VolumeOK, Contents
<1>4. "400" \in Failures /\ "404" \in Failures /\ "500" \in Failures
  BY DEF Failures
<1>5. ASSUME NEW a \in Failures, Go(w, Answer(w, a)), UNCHANGED held PROVE TraceStep
  BY <1>2, <1>5, FailAnswer
<1>6. ASSUME NEW a \in {"201", "204"}, NEW C \in SUBSET Targets, NEW new \in [Targets -> Contents],
             Change(w, Answer(w, a), C, new)
      PROVE  TraceStep
  BY <1>1, <1>6, ActTrace
<1>7. CASE DsCreateAllocate(w)
  <2> DEFINE t == <<T(w)[1], None>>
  <2>1. \/ \E x \in {<< >>, None} : Change(w, Answer(w, "201"), {t}, [data EXCEPT ![t] = x])
        \/ Go(w, Answer(w, "500")) /\ UNCHANGED held
    BY <1>7, Zenon DEF DsCreateAllocate
  <2>2. t \in Targets
    BY <1>2, OneTarget
  <2>3. << >> \in Seq(Stores)
    OBVIOUS
  <2>4. \A x \in {<< >>, None} : x \in Contents
    BY <2>3, Zenon DEF Contents
  <2> HIDE DEF t
  <2>5. \A x \in Contents : [data EXCEPT ![t] = x] \in [Targets -> Contents]
    BY <1>3, <2>2
  <2>6. PICK C \in SUBSET Targets : C = {t}
    BY <2>2
  <2> QED
    BY <1>4, <1>5, <1>6, <2>1, <2>4, <2>5, <2>6, Zenon
<1>8. CASE DsRename(w)
  <2> DEFINE d == R(w).from[1]
             e == T(w)[1]
             C == Of(d) \cup Of(e)
             new == [t \in Targets |-> IF t[1] = e THEN data[<<d, t[2]>>] ELSE None]
  <2>1. Change(w, Answer(w, "204"), C, new) \/ (Go(w, Answer(w, "500")) /\ UNCHANGED held)
    BY <1>8, Zenon DEF DsRename
  <2>2. rq[w].r.op = "dsRename"
    BY <1>8 DEF DsRename, At
  <2>3. d \in Names
    <3>1. rq[w].r.from \in Targets
      BY <1>2, <2>2, AskedFor, Asked
    <3> QED
      BY <3>1, TargetParts DEF R
  <2>4. \A t \in Targets : <<d, t[2]>> \in Targets
    BY <2>3, TargetParts, OneTarget
  <2>5. new \in [Targets -> Contents]
    BY <1>3, <2>4
  <2>6. C \in SUBSET Targets
    BY DEF Of
  <2> HIDE DEF new, C
  <2> QED
    BY <1>4, <1>5, <1>6, <2>1, <2>5, <2>6
<1>9. CASE DsDelete(w)
  <2> DEFINE C == Of(T(w)[1])
             new == [t \in Targets |-> None]
  <2>1. Change(w, Answer(w, "204"), C, new) \/ (Go(w, Answer(w, "500")) /\ UNCHANGED held)
    BY <1>9, Zenon DEF DsDelete
  <2>2. new \in [Targets -> Contents] /\ C \in SUBSET Targets
    BY <1>3 DEF Of
  <2> HIDE DEF new, C
  <2> QED
    BY <1>4, <1>5, <1>6, <2>1, <2>2
<1>10. CASE MbRename(w)
  <2> DEFINE old == R(w).from
             C == {old, T(w)}
             new == [data EXCEPT ![T(w)] = data[old], ![old] = None]
  <2>1. \/ Change(w, Answer(w, "204"), C, new)
        \/ (Go(w, Answer(w, "400")) \/ Go(w, Answer(w, "404"))) /\ UNCHANGED held
    BY <1>10, Zenon DEF MbRename
  <2>2. rq[w].r.op = "mbRename"
    BY <1>10 DEF MbRename, At
  <2>3. old \in Targets
    BY <1>2, <2>2, AskedFor, Asked DEF R
  <2>4. new \in [Targets -> Contents] /\ C \in SUBSET Targets
    BY <1>2, <1>3, <2>3
  <2> HIDE DEF new, C
  <2> QED
    BY <1>4, <1>5, <1>6, <2>1, <2>4
<1>11. CASE MbDelete(w)
  <2> DEFINE C == {T(w)}
             new == [data EXCEPT ![T(w)] = None]
  <2>1. Change(w, Answer(w, "204"), C, new) \/ (Go(w, Answer(w, "500")) /\ UNCHANGED held)
    BY <1>11, Zenon DEF MbDelete
  <2>2. new \in [Targets -> Contents] /\ C \in SUBSET Targets
    BY <1>2, <1>3
  <2> HIDE DEF new, C
  <2> QED
    BY <1>4, <1>5, <1>6, <2>1, <2>2
<1> QED
  BY <1>7, <1>8, <1>9, <1>10, <1>11

LEMMA AcceptTrace ==
    ASSUME DataInv, TraceInv, NEW w \in Workers, Accept(w) PROVE TraceStep
<1> DEFINE p(r) == IF r.op = "dsCreate" THEN "locate" ELSE "gate"
           n(r) == [NoRequest EXCEPT !.pc = p(r), !.r = r, !.was = data[r.t]]
<1>1. PICK r \in Requests : Go(w, n(r)) /\ (r.cond => held[w].t = r.t)
  BY Zenon DEF Accept
<1>2. UNCHANGED held
  BY DEF Accept
<1>3. NoRequest \in Request
  BY IdleGood DEF Good
<1>4. NoRequest.fp = "none" /\ NoRequest.n = 0 /\ NoRequest.ans = "none" /\ NoRequest.stamp = None
  BY DEF NoRequest
<1>5. p(r) \in {"gate", "locate"}
  OBVIOUS
<1>6. \A x : LET q == [NoRequest EXCEPT !.pc = x, !.r = r, !.was = data[r.t]] IN
        /\ q.pc = x /\ q.r = r /\ q.fp = NoRequest.fp /\ q.n = NoRequest.n
        /\ q.ans = NoRequest.ans /\ q.stamp = NoRequest.stamp
  BY <1>3 DEF Request
<1> DEFINE q == n(r)
<1>7. /\ q.pc \in {"gate", "locate"} /\ q.r = r /\ q.fp = "none" /\ q.n = 0 /\ q.ans = "none"
      /\ q.stamp = None
  BY <1>4, <1>5, <1>6
<1>8. Go(w, q)
  BY <1>1
<1> HIDE DEF q, n, p
<1>9. BodyOK(q, data) /\ Bounded(q, held[w], data) /\ Stamped(q, data)
  BY <1>7 DEF BodyOK, Bounded, Stamped, DoneSteps
<1>10. Conditioned(q, held[w], data)
  BY <1>1, <1>7 DEF Conditioned, Checked
<1>11. Traced(q, held[w], data) /\ Opening(rq[w], q)
  BY <1>7, <1>9, <1>10 DEF Traced, Opening
<1> QED
  BY <1>2, <1>8, <1>11, GoTrace

\* The stamp a client is given is what the target has, or is known to be old.
LEMMA RespondTrace ==
    ASSUME DataInv, TraceInv, NEW w \in Workers, Respond(w) PROVE TraceStep
<1>1. Go(w, NoRequest) /\ rq[w].pc = "answer"
  BY DEF Respond, Go
<1>2. rq[w] \in Request /\ Good(rq[w], cat, data) /\ Traced(rq[w], held[w], data)
  BY TypedRequest DEF TraceInv
<1> DEFINE h == [t |-> T(w), stamp |-> rq[w].stamp, dirty |-> rq[w].dirty]
<1>3. \/ /\ held' = [held EXCEPT ![w] = h] /\ rq[w].ans \in {"200", "204"} /\ rq[w].stamp # None
      \/ held' = held
  BY Zenon DEF Respond
<1>4. h.t = T(w) /\ h.stamp = rq[w].stamp /\ h.dirty = rq[w].dirty /\ T(w) = rq[w].r.t
  BY DEF T
<1> HIDE DEF h
<1>5. rq[w].ans \in {"200", "204"} /\ rq[w].stamp # None => Fresh(h, data)
  BY <1>1, <1>2, <1>4 DEF Traced, Stamped, Fresh
<1>6. data' = data /\ rq' = [rq EXCEPT ![w] = NoRequest]
  BY <1>1 DEF Go
<1>7. NoRequest.fp = "none"
  BY DEF NoRequest
<1>8. ASSUME NEW v \in Workers
      PROVE  Traced(rq'[v], held'[v], data') /\ Fresh(held'[v], data') /\ Opening(rq[v], rq'[v])
  <2>1. Traced(rq[v], held[v], data) /\ Fresh(held[v], data)
    BY DEF TraceInv
  <2>2. CASE v = w
    <3>1. rq'[v] = NoRequest /\ (held'[v] = held[v] \/ Fresh(held'[v], data))
      BY <1>3, <1>5, <1>6, <2>2 DEF DataInv
    <3> QED
      BY <1>6, <1>7, <2>1, <3>1, IdleTraced DEF Opening
  <2>3. CASE v # w
    <3>1. rq'[v] = rq[v] /\ held'[v] = held[v]
      BY <1>3, <1>6, <2>3 DEF DataInv
    <3> QED
      BY <1>6, <2>1, <3>1 DEF Opening
  <2> QED
    BY <2>2, <2>3
<1> QED
  BY <1>8 DEF TraceInv, TraceStep

LEMMA NextTrace ==
    ASSUME DataInv, TraceInv, [Next]_vars PROVE TraceStep
<1>1. CASE UNCHANGED vars
  BY <1>1 DEF vars, TraceInv, TraceStep, Opening
<1>2. ASSUME NEW w \in Workers, Accept(w) \/ Respond(w) PROVE TraceStep
  BY <1>2, AcceptTrace, RespondTrace
<1>3. ASSUME NEW w \in Workers, Read(w) PROVE TraceStep
  BY <1>3, GatesTrace, CountTrace, HashTrace, DsGetBoundTrace, OpenTrace, ReadEndTrace, Zenon DEF Read
<1>4. ASSUME NEW w \in Workers, Write(w) PROVE TraceStep
  BY <1>4, GatesTrace, FindTrace, CountTrace, MatchTrace, MbPutProbeTrace, BodyTrace, PutOpenTrace,
     PutRecordTrace, PutFinishTrace, PutCloseTrace, PutWrittenTrace, DsPutStampCountTrace,
     PutStampTrace, PutAbendTrace, Zenon DEF Write
<1>5. ASSUME NEW w \in Workers, Manage(w) PROVE TraceStep
  BY <1>5, GatesTrace, ManageTrace, Zenon DEF Manage
<1>6. UNCHANGED vars \/ \E w \in Workers : Accept(w) \/ Respond(w) \/ Read(w) \/ Write(w) \/ Manage(w)
  BY Zenon DEF Next, Finished
<1> QED
  BY <1>1, <1>2, <1>3, <1>4, <1>5, <1>6, Zenon

LEMMA TraceInvariant == Spec => []TraceInv
<1>1. DataInv /\ TraceInv /\ [Next]_vars => TraceInv'
  BY NextTrace DEF TraceStep
<1> QED
  BY <1>1, InitTrace, DataInvariant, PTL DEF Spec

\* What a write stores: after the close every record of the body is on the volume, in its
\* place and whole, unless another request wrote there since the output open (dsapi.c:
\* write_record, close_write_target), and a body with a record that was cut is never
\* answered 204.  A spanned data set is the exception the documentation makes
\* (docs/endpoints/datasets/put.md:96): there a record is stored whole or broken.
THEOREM BodiesAreStored == Spec => []StoredIsBody
<1>1. ASSUME DataInv, TraceInv PROVE StoredIsBody
  <2>1. SUFFICES ASSUME NEW w \in Workers
                 PROVE  /\ rq[w].pc = "written" => rq[w].dirty \/ StoredAs(data[T(w)], T(w)[1], R(w).body)
                        /\ rq[w].pc = "answer" /\ rq[w].ans = "204" /\ R(w).op \in {"dsPut", "mbPut"} =>
                             \A i \in DOMAIN R(w).body : R(w).body[i] \notin Long
    BY DEF StoredIsBody
  <2>2. Good(rq[w], cat, data) /\ rq[w] \in Request /\ Traced(rq[w], held[w], data)
    BY <1>1, TypedRequest DEF TraceInv
  <2>3. rq[w].pc # "idle" => rq[w].r # None
    BY <2>2 DEF Good, Stage
  <2>4. rq[w].pc = "written" => rq[w].dirty \/ StoredAs(data[T(w)], T(w)[1], R(w).body)
    BY <2>2, <2>3 DEF Traced, BodyOK, Good, Stage, StepOf, DoneSteps, T, R
  <2>5. ASSUME rq[w].pc = "answer", rq[w].ans = "204", R(w).op \in {"dsPut", "mbPut"}
        PROVE  \A i \in DOMAIN R(w).body : R(w).body[i] \notin Long
    <3>1. Fitting(R(w).body)
      BY <2>2, <2>3, <2>5 DEF Traced, BodyOK, R, Puts
    <3>2. R(w).body \in Seq(Recs)
      BY <2>2, <2>3, <2>5, AskedFor, Asked DEF R
    <3> QED
      BY <3>1, <3>2 DEF Fitting
  <2> QED
    BY <2>4, <2>5
<1> QED
  BY <1>1, DataInvariant, TraceInvariant, PTL

\* The stamps: 412 means that the target changed or could not be read (dsapi.c:
\* check_if_match), the stamp of a text read is not newer than its body (dsapi.c:
\* dataset_etag before the open), and what a conditional write opens for output is
\* what its stamp was computed over, unless it changed after the check.
THEOREM StampsAreSound == Spec => StampsSound
<1>1. ASSUME DataInv, TraceInv PROVE NoSpuriousMismatch /\ StampNotNewer
  <2>1. SUFFICES ASSUME NEW w \in Workers
                 PROVE  /\ rq[w].ans = "412" /\ ~rq[w].err => held[w].dirty
                        /\ rq[w].ans = "200" /\ rq[w].stamp # None /\ R(w).mode = "text" =>
                             rq[w].dirty \/ rq[w].stamp = rq[w].got
    BY DEF NoSpuriousMismatch, StampNotNewer
  <2>2. Good(rq[w], cat, data) /\ Traced(rq[w], held[w], data)
    BY <1>1, TypedRequest DEF TraceInv
  <2>3. rq[w].ans # "none" => rq[w].pc = "answer"
    BY <2>2 DEF Good, Stage
  <2> QED
    BY <2>2, <2>3 DEF Traced, Conditioned, Stamped, R
<1>2. ASSUME DataInv, TraceInv, [Next]_vars
      PROVE  [\A w \in Workers :
                Moves(w) /\ rq[w].fp = "none" /\ rq'[w].fp = "write" /\ R(w).cond =>
                  rq[w].dirty \/ data[T(w)] = held[w].stamp]_vars
  <2>1. SUFFICES ASSUME NEW w \in Workers, rq[w].fp = "none", rq'[w].fp = "write", R(w).cond
                 PROVE  rq[w].dirty \/ data[T(w)] = held[w].stamp
    BY Zenon
  <2>2. Opening(rq[w], rq'[w])
    BY <1>2, NextTrace DEF TraceStep
  <2>3. Good(rq[w], cat, data) /\ Traced(rq[w], held[w], data)
    BY <1>2, TypedRequest DEF TraceInv
  <2>4. Checked(rq[w])
    BY <2>1, <2>2 DEF Opening
  <2>5. rq[w].r # None
    BY <2>3, <2>4 DEF Good, Stage, Checked
  <2> QED
    BY <2>1, <2>3, <2>4, <2>5 DEF Traced, Conditioned, R, T
<1> QED
  BY <1>1, <1>2, DataInvariant, TraceInvariant, PTL DEF Spec, StampsSound, MatchGuards

=============================================================================
