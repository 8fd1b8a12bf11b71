----------------------------- MODULE UssProofs -----------------------------
(***************************************************************************)
(* Proofs about the USS handlers, for any tree of files and directories,   *)
(* any number of connections and any requests: nothing is left on a        *)
(* session, a refusal has changed nothing, a delete removes what it says   *)
(* and nothing outside of it, a stamp lets a client overwrite only what it *)
(* has read, and what is not whole does not look whole.                    *)
(*                                                                         *)
(* The first invariant follows one request from its arrival to its answer; *)
(* the second relates the contents of the tree to the requests that wrote  *)
(* them and to the clients that have read them.                            *)
(***************************************************************************)
EXTENDS Uss, TLAPS, FiniteSetTheorems

-----------------------------------------------------------------------------
(* One request. *)

Frames == [dir : Paths, seen : SUBSET Paths, entry : Paths \cup {None}]

\* The fields of a request; what the invariant does not look at is as it is.
Shape(q) ==
    q \in [pc : Steps, r : Requests \cup {None}, buf : BOOLEAN, fp : BOOLEAN,
           dirs : Seq(Frames), tag : Contents \cup {None}, sent : Seq(Versions \X Nat),
           rows : {q.rows}, more : {q.more}, n : Versions, ans : Answers,
           touched : SUBSET Paths, lost : BOOLEAN, bad : BOOLEAN]

ListSteps == {"diropen", "list", "stat"}
GetSteps == {"hash", "open", "read"}
PutSteps == {"match", "probe", "truncate", "write", "close", "stamp"}
CreateSteps == {"perm", "exists", "make"}
DeleteSteps == {"remove", "rmdir", "enter", "scan", "unlink", "unwind"}

\* Where a request of each kind can be.
Route(q) ==
    /\ q.pc = "answer" <=> q.ans # "none"
    /\ q.pc = "idle" <=> q.r = None
    /\ q.pc # "idle" => q.n >= 1
    /\ q.pc = "body" => q.r.op \in {"put", "create", "util"}
    /\ q.pc = "ufs" => q.r.op # "util"
    /\ q.pc \in ListSteps => q.r.op = "list"
    /\ q.pc \in GetSteps => q.r.op = "get"
    /\ q.pc \in PutSteps => q.r.op = "put"
    /\ q.pc \in CreateSteps => q.r.op = "create"
    /\ q.pc \in DeleteSteps => q.r.op = "delete"

\* What it holds there; s is its session.
Holding(q, s) ==
    /\ q.buf => q.pc \in PutSteps \/ (q.pc = "ufs" /\ q.r.op = "put")
    /\ q.fp => q.pc \in {"read", "write", "close"}
    /\ q.dirs # << >> => q.pc \in (DeleteSteps \ {"remove"}) \cup {"list"}
    /\ q.pc \in {"scan", "unlink", "list"} => q.dirs # << >>
    /\ s.perm # DefPerm => q.pc \in {"exists", "make"}
    /\ q.bad => /\ q.pc = "answer"
                /\ \/ q.r.op = "list" /\ q.ans = "200"
                   \/ q.r.op = "put" /\ q.ans \in {"400", "404", "500"}

\* The directories a delete has open: the one it was asked to remove, and below.
Inward(ds, p) ==
    \A i \in 1 .. Len(ds) : ds[i].dir \in Inside[p] /\ (ds[i].dir = p <=> i = 1)

\* What it has changed: a write or create nothing before its open, and it does not fail
\* behind it but for the write itself; a delete nothing outside of what it was asked to
\* remove, and that last.
Effects(q) ==
    /\ q.pc # "idle" /\ q.r.op # "delete" /\ q.touched # {} =>
         q.pc \in {"write", "close", "stamp"} \/ q.ans \in {"201", "204"} \/ q.bad
    /\ q.pc # "idle" /\ q.r.op = "delete" =>
         /\ q.touched \subseteq Inside[q.r.path]
         /\ q.r.path \in q.touched <=> q.ans = "204"
         /\ Inward(q.dirs, q.r.path)
         /\ q.pc \in {"enter", "unlink"} /\ q.dirs # << >> =>
              q.dirs[Len(q.dirs)].entry \in Inside[q.r.path] \ {q.r.path}

Good(q, s) == Shape(q) /\ Route(q) /\ Holding(q, s) /\ Effects(q)

Stamp == [tag : Contents \cup {None},
          by : {"get", "put", "list", "create", "delete", "util", None},
          path : Paths \cup {None}, read : SUBSET (Versions \X Nat)]

Types ==
    /\ fs \in [Paths -> Node \cup {None}]
    /\ h \in [Workers -> [rc : Codes, perm : Perms]]
    /\ held \in [Workers -> Stamp]
    /\ count \in 0 .. MaxRequests /\ faults \in 0 .. MaxFaults

UssInv ==
    /\ Types
    /\ rq = [w \in Workers |-> rq[w]]
    /\ \A w \in Workers : Good(rq[w], h[w])

-----------------------------------------------------------------------------
(* The contents of the tree. *)

\* In a tree f the file p has the content of a stamp.
Has(f, p, tag) == f[p] # None /\ f[p].kind = "file" /\ f[p].v = tag[1] /\ f[p].len = tag[2]

\* It has not, and no request under way (of the requests g) can bring it back.
Over(f, g, p, tag) ==
    /\ ~Has(f, p, tag)
    /\ \A u \in Workers : g[u].pc # "idle" /\ g[u].n = tag[1] /\ g[u].r.op = "put" =>
         /\ g[u].pc \in {"close", "stamp", "answer"}
         /\ g[u].pc = "close" => g[u].r.len - 1 # tag[2]

\* A request number is given out once, and a content has a number that was.
Numbered(f, g, c) ==
    /\ \A w \in Workers : g[w].n <= c
    /\ \A w, u \in Workers : g[w].pc # "idle" /\ g[w].n = g[u].n => w = u
    /\ \A p \in Paths : f[p] # None => f[p].v <= c /\ (f[p].kind = "dir" => f[p].v = 0)

\* What a request has written is in its own file, and is as much as it has written.
Written(f, q) ==
    q.pc # "idle" => \A p \in Paths : f[p] # None /\ f[p].v = q.n =>
      /\ p = q.r.path
      /\ q.r.op = "put" =>
           /\ q.pc \in {"write", "close", "stamp", "answer"}
           /\ q.pc = "write" => f[p].len = 0
           /\ q.pc = "close" => f[p].len = q.r.len
           /\ q.pc = "stamp" \/ q.ans = "204" => q.lost \/ f[p].len = q.r.len

\* The stamp of a read stands for what is sent, or for what will not come back.
Reading(f, g, c, q) ==
    /\ q.tag # None => q.tag[1] <= c
    /\ q.pc # "idle" /\ q.r.op = "get" =>
         /\ q.ans # "204"
         /\ q.pc \in {"ufs", "hash"} => q.tag = None
         /\ q.pc \in {"ufs", "hash", "open"} => q.sent = << >>
         /\ q.tag # None /\ q.tag[2] > 0 =>
              /\ q.pc \in {"open", "read"} =>
                   \/ Over(f, g, q.r.path, q.tag)
                   \/ /\ Has(f, q.r.path, q.tag)
                      /\ \A k \in 1 .. Len(q.sent) : q.sent[k] = <<q.tag[1], k>>
              /\ q.ans = "200" =>
                   \/ Over(f, g, q.r.path, q.tag)
                   \/ \A k \in 1 .. q.tag[2] : <<q.tag[1], k>> \in Range(q.sent)

\* So does the stamp a client was given with a file.
Held(f, g, c, s) ==
    s.tag # None /\ s.by = "get" =>
      /\ s.path \in Paths /\ s.tag[1] <= c
      /\ s.tag[2] > 0 => \/ Over(f, g, s.path, s.tag)
                         \/ \A k \in 1 .. s.tag[2] : <<s.tag[1], k>> \in s.read

TraceInv ==
    /\ Numbered(fs, rq, count)
    /\ \A w \in Workers : /\ Written(fs, rq[w]) /\ Reading(fs, rq, count, rq[w])
                          /\ Held(fs, rq, count, held[w])

\* The fields of a request after each kind of step.
LEMMA MovedFields ==
    ASSUME NEW q, Shape(q), NEW p \in Steps
    PROVE  LET n == [q EXCEPT !.pc = p] IN
           /\ Shape(n) /\ n.pc = p /\ n.r = q.r /\ n.buf = q.buf /\ n.fp = q.fp
           /\ n.dirs = q.dirs /\ n.tag = q.tag /\ n.sent = q.sent /\ n.rows = q.rows
           /\ n.more = q.more /\ n.n = q.n /\ n.ans = q.ans /\ n.touched = q.touched
           /\ n.lost = q.lost /\ n.bad = q.bad
BY DEF Shape

LEMMA AnswerFields ==
    ASSUME NEW q, Shape(q), NEW a \in Answers
    PROVE  LET n == Answer(q, a) IN
           /\ Shape(n) /\ n.pc = "answer" /\ n.ans = a /\ n.r = q.r /\ n.buf = q.buf
           /\ n.fp = q.fp /\ n.dirs = q.dirs /\ n.tag = q.tag /\ n.sent = q.sent
           /\ n.rows = q.rows /\ n.more = q.more /\ n.n = q.n /\ n.touched = q.touched
           /\ n.lost = q.lost /\ n.bad = q.bad
BY DEF Shape, Steps, Answer

LEMMA BufFields ==
    ASSUME NEW q, Shape(q), NEW b \in BOOLEAN
    PROVE  LET n == [q EXCEPT !.buf = b] IN
           /\ Shape(n) /\ n.buf = b /\ n.pc = q.pc /\ n.r = q.r /\ n.fp = q.fp
           /\ n.dirs = q.dirs /\ n.tag = q.tag /\ n.sent = q.sent /\ n.rows = q.rows
           /\ n.more = q.more /\ n.n = q.n /\ n.ans = q.ans /\ n.touched = q.touched
           /\ n.lost = q.lost /\ n.bad = q.bad
BY DEF Shape

LEMMA FileFields ==
    ASSUME NEW q, Shape(q), NEW b \in BOOLEAN
    PROVE  LET n == [q EXCEPT !.fp = b] IN
           /\ Shape(n) /\ n.fp = b /\ n.pc = q.pc /\ n.r = q.r /\ n.buf = q.buf
           /\ n.dirs = q.dirs /\ n.tag = q.tag /\ n.sent = q.sent /\ n.rows = q.rows
           /\ n.more = q.more /\ n.n = q.n /\ n.ans = q.ans /\ n.touched = q.touched
           /\ n.lost = q.lost /\ n.bad = q.bad
BY DEF Shape

LEMMA TagFields ==
    ASSUME NEW q, Shape(q), NEW t \in Contents \cup {None}
    PROVE  LET n == [q EXCEPT !.tag = t] IN
           /\ Shape(n) /\ n.tag = t /\ n.pc = q.pc /\ n.r = q.r /\ n.buf = q.buf
           /\ n.fp = q.fp /\ n.dirs = q.dirs /\ n.sent = q.sent /\ n.rows = q.rows
           /\ n.more = q.more /\ n.n = q.n /\ n.ans = q.ans /\ n.touched = q.touched
           /\ n.lost = q.lost /\ n.bad = q.bad
BY DEF Shape

LEMMA RowsFields ==
    ASSUME NEW q, Shape(q), NEW s
    PROVE  LET n == [q EXCEPT !.rows = s] IN
           /\ Shape(n) /\ n.rows = s /\ n.pc = q.pc /\ n.r = q.r /\ n.buf = q.buf
           /\ n.fp = q.fp /\ n.dirs = q.dirs /\ n.tag = q.tag /\ n.sent = q.sent
           /\ n.more = q.more /\ n.n = q.n /\ n.ans = q.ans /\ n.touched = q.touched
           /\ n.lost = q.lost /\ n.bad = q.bad
BY DEF Shape

LEMMA SentFields ==
    ASSUME NEW q, Shape(q), NEW s \in Seq(Versions \X Nat)
    PROVE  LET n == [q EXCEPT !.sent = s] IN
           /\ Shape(n) /\ n.sent = s /\ n.pc = q.pc /\ n.r = q.r /\ n.buf = q.buf
           /\ n.fp = q.fp /\ n.dirs = q.dirs /\ n.tag = q.tag /\ n.rows = q.rows
           /\ n.more = q.more /\ n.n = q.n /\ n.ans = q.ans /\ n.touched = q.touched
           /\ n.lost = q.lost /\ n.bad = q.bad
BY DEF Shape

LEMMA TouchedFields ==
    ASSUME NEW q, Shape(q), NEW s \in SUBSET Paths
    PROVE  LET n == [q EXCEPT !.touched = s] IN
           /\ Shape(n) /\ n.touched = s /\ n.pc = q.pc /\ n.r = q.r /\ n.buf = q.buf
           /\ n.fp = q.fp /\ n.dirs = q.dirs /\ n.tag = q.tag /\ n.sent = q.sent
           /\ n.rows = q.rows /\ n.more = q.more /\ n.n = q.n /\ n.ans = q.ans
           /\ n.lost = q.lost /\ n.bad = q.bad
BY DEF Shape

LEMMA ClosedFields ==
    ASSUME NEW q, Shape(q), NEW b \in BOOLEAN, NEW c \in BOOLEAN, NEW d \in BOOLEAN
    PROVE  LET n == [q EXCEPT !.fp = b, !.buf = c, !.bad = d] IN
           /\ Shape(n) /\ n.fp = b /\ n.buf = c /\ n.bad = d /\ n.pc = q.pc /\ n.r = q.r
           /\ n.dirs = q.dirs /\ n.tag = q.tag /\ n.sent = q.sent /\ n.rows = q.rows
           /\ n.more = q.more /\ n.n = q.n /\ n.ans = q.ans /\ n.touched = q.touched
           /\ n.lost = q.lost
<1> DEFINE m == [q EXCEPT !.fp = b, !.buf = c]
<1>1. /\ Shape(m) /\ m.fp = b /\ m.buf = c /\ m.pc = q.pc /\ m.r = q.r
      /\ m.dirs = q.dirs /\ m.tag = q.tag /\ m.sent = q.sent /\ m.rows = q.rows
      /\ m.more = q.more /\ m.n = q.n /\ m.ans = q.ans /\ m.touched = q.touched
      /\ m.lost = q.lost
  BY DEF Shape
<1> DEFINE n == [m EXCEPT !.bad = d]
<1>2. [q EXCEPT !.fp = b, !.buf = c, !.bad = d] = n
  OBVIOUS
<1> HIDE DEF m
<1>3. /\ Shape(n) /\ n.bad = d /\ n.fp = m.fp /\ n.buf = m.buf /\ n.pc = m.pc /\ n.r = m.r
      /\ n.dirs = m.dirs /\ n.tag = m.tag /\ n.sent = m.sent /\ n.rows = m.rows
      /\ n.more = m.more /\ n.n = m.n /\ n.ans = m.ans /\ n.touched = m.touched
      /\ n.lost = m.lost
  BY <1>1 DEF Shape
<1> QED
  BY <1>1, <1>2, <1>3, Zenon

LEMMA LostFields ==
    ASSUME NEW q, Shape(q), NEW b \in BOOLEAN
    PROVE  LET n == [q EXCEPT !.lost = b] IN
           /\ Shape(n) /\ n.lost = b /\ n.pc = q.pc /\ n.r = q.r /\ n.buf = q.buf
           /\ n.fp = q.fp /\ n.dirs = q.dirs /\ n.tag = q.tag /\ n.sent = q.sent
           /\ n.rows = q.rows /\ n.more = q.more /\ n.n = q.n /\ n.ans = q.ans
           /\ n.touched = q.touched /\ n.bad = q.bad
BY DEF Shape

LEMMA DirsFields ==
    ASSUME NEW q, Shape(q), NEW s \in Seq(Frames)
    PROVE  LET n == [q EXCEPT !.dirs = s] IN
           /\ Shape(n) /\ n.dirs = s /\ n.pc = q.pc /\ n.r = q.r /\ n.buf = q.buf
           /\ n.fp = q.fp /\ n.tag = q.tag /\ n.sent = q.sent /\ n.rows = q.rows
           /\ n.more = q.more /\ n.n = q.n /\ n.ans = q.ans /\ n.touched = q.touched
           /\ n.lost = q.lost /\ n.bad = q.bad
BY DEF Shape

-----------------------------------------------------------------------------
(* The tree. *)

LEMMA Bounds ==
    /\ MaxRequests \in Nat /\ MaxFaults \in Nat /\ MaxChunks \in Nat
    /\ None \notin Paths /\ None \notin Requests /\ DefPerm \in Perms
    /\ Parent \in [Paths -> Paths \cup {None}]
BY UssAssumption, Zenon

LEMMA Asked ==
    ASSUME NEW r \in Requests
    PROVE  /\ r.op \in {"list", "get", "put", "create", "delete", "util"}
           /\ r.path \in Paths /\ r.perm \in Perms /\ r.len \in Chunks /\ r.max \in Nat
BY UssAssumption, Zenon

LEMMA TagsDiffer == None \notin Contents /\ None \notin Node
BY UssAssumption, Zenon DEF Contents

LEMMA InsideDef ==
    ASSUME NEW d \in Paths
    PROVE  Inside[d] = {p \in Paths : \A S \in SUBSET Paths :
                          d \in S /\ (\A q \in Paths : Parent[q] \in S => q \in S) => p \in S}
BY Zenon DEF Inside

LEMMA InsideSelf == ASSUME NEW d \in Paths PROVE d \in Inside[d]
BY InsideDef

\* What is in a directory of the tree is in the tree, and is not its top: no path lies
\* above itself.
LEMMA InsideStep ==
    ASSUME NEW d \in Paths, NEW p \in Inside[d], NEW q \in Paths, Parent[q] = p
    PROVE  q \in Inside[d] /\ q # d
<1>1. ASSUME NEW x \in Paths, Parent[x] \in Inside[d] PROVE x \in Inside[d]
  <2>1. SUFFICES ASSUME NEW S \in SUBSET Paths, d \in S,
                        \A y \in Paths : Parent[y] \in S => y \in S
                 PROVE  x \in S
    BY InsideDef
  <2>2. Parent[x] \in S
    BY <1>1, <2>1, InsideDef
  <2> QED
    BY <2>1, <2>2
<1>2. q \in Inside[d]
  BY <1>1
<1>3. ASSUME q = d PROVE FALSE
  <2> DEFINE I == Inside[d]
  <2>1. I \in SUBSET Paths /\ d \in I
    BY InsideDef, InsideSelf
  <2>2. PICK x \in I : Parent[x] \notin I
    BY <2>1, UssAssumption, Zenon
  <2>3. x # d
    BY <1>3, <2>2
  <2> DEFINE S == I \ {x}
  <2>4. S \in SUBSET Paths /\ d \in S
    BY <2>1, <2>3
  <2>5. ASSUME NEW y \in Paths, Parent[y] \in S PROVE y \in S
    <3>1. y \in I
      BY <1>1, <2>5
    <3>2. y # x
      BY <2>2, <2>5
    <3> QED
      BY <3>1, <3>2
  <2>6. \A U \in SUBSET Paths :
          d \in U /\ (\A y \in Paths : Parent[y] \in U => y \in U) => x \in U
    BY <2>2, InsideDef, Zenon
  <2>7. x \notin S
    OBVIOUS
  <2> HIDE DEF S, I
  <2> QED
    BY <2>4, <2>5, <2>6, <2>7, Zenon
<1> QED
  BY <1>2, <1>3

-----------------------------------------------------------------------------
(* Steps of one connection. *)

FsType == [Paths -> Node \cup {None}]
Session == [rc : Codes, perm : Perms]

\* The step of w leaves the other sessions alone.
Sess(w) == h' \in [Workers -> Session] /\ \A u \in Workers \ {w} : h'[u] = h[u]

LEMMA Typed ==
    ASSUME UssInv, NEW w \in Workers
    PROVE  /\ Good(rq[w], h[w]) /\ Shape(rq[w]) /\ Route(rq[w]) /\ Holding(rq[w], h[w])
           /\ Effects(rq[w]) /\ h[w] \in Session /\ fs \in FsType /\ held[w] \in Stamp
           /\ h \in [Workers -> Session] /\ rq[w].tag \in Contents \cup {None}
BY DEF UssInv, Good, Types, FsType, Session, Shape

LEMMA NewCount ==
    ASSUME UssInv, NoFault \/ Fault PROVE faults' \in 0 .. MaxFaults
BY Bounds DEF UssInv, Types, NoFault, Fault

\* A step of w that leaves it with q.
LEMMA StepInv ==
    ASSUME UssInv, NEW w \in Workers, NEW q, rq' = [rq EXCEPT ![w] = q], Types',
           \A u \in Workers \ {w} : h'[u] = h[u], Good(q, h'[w])
    PROVE  UssInv'
<1>1. rq' = [u \in Workers |-> rq'[u]]
  BY DEF UssInv
<1>2. ASSUME NEW u \in Workers PROVE Good(rq'[u], h'[u])
  <2>1. rq'[u] = IF u = w THEN q ELSE rq[u]
    BY DEF UssInv
  <2>2. Good(rq[u], h[u])
    BY Typed
  <2> QED
    BY <2>1, <2>2
<1> QED
  BY <1>1, <1>2 DEF UssInv

LEMMA GoInv ==
    ASSUME UssInv, NEW w \in Workers, NEW q, Go(w, q), Sess(w), fs' \in FsType,
           NoFault \/ Fault, Good(q, h'[w])
    PROVE  UssInv'
<1>1. rq' = [rq EXCEPT ![w] = q] /\ UNCHANGED <<held, count>>
  BY DEF Go
<1>2. Types'
  BY <1>1, NewCount DEF UssInv, Types, Sess, FsType, Session
<1> QED
  BY <1>1, <1>2, StepInv DEF Sess

LEMMA StayFs == ASSUME UssInv, Stay PROVE fs' \in FsType
BY DEF UssInv, Types, Stay, FsType

LEMMA KeepSess ==
    ASSUME UssInv, NEW w \in Workers, Keep(w) PROVE Sess(w) /\ h'[w] = h[w]
BY DEF UssInv, Types, Keep, Sess, Session

LEMMA RcSess ==
    ASSUME UssInv, NEW w \in Workers, NEW rc \in Codes, Rc(w, rc)
    PROVE  Sess(w) /\ h'[w].perm = h[w].perm
<1>1. h \in [Workers -> Session]
  BY Typed
<1>2. [h[w] EXCEPT !.rc = rc] \in Session /\ [h[w] EXCEPT !.rc = rc].perm = h[w].perm
  BY <1>1 DEF Session
<1>3. h' = [h EXCEPT ![w] = [h[w] EXCEPT !.rc = rc]]
  BY DEF Rc
<1> QED
  BY <1>1, <1>2, <1>3 DEF Sess

LEMMA RecordedSess ==
    ASSUME UssInv, NEW w \in Workers, NEW p, NEW rc \in Codes, Recorded(w, p, rc)
    PROVE  Sess(w) /\ h'[w].perm = h[w].perm
BY KeepSess, RcSess DEF Recorded

LEMMA RestoredSess ==
    ASSUME UssInv, NEW w \in Workers, NEW rc \in Codes, Restored(w, rc)
    PROVE  Sess(w) /\ h'[w].perm = DefPerm
<1>1. h \in [Workers -> Session]
  BY Typed
<1> DEFINE c == IF P(w) \in Long THEN h[w].rc ELSE rc
           s == [h[w] EXCEPT !.perm = DefPerm, !.rc = c]
<1>2. c \in Codes
  BY <1>1 DEF Session
<1>3. h' = [h EXCEPT ![w] = s]
  BY DEF Restored
<1> HIDE DEF c
<1>4. s \in Session /\ s.perm = DefPerm
  BY <1>1, <1>2, Bounds DEF Session
<1> HIDE DEF s
<1> QED
  BY <1>1, <1>3, <1>4 DEF Sess

\* The codes of UFSD and the answers made of them.
LEMMA RcCodes ==
    ASSUME NEW p
    PROVE  /\ ReadRc(p) \in {"OK", "NOFILE", "ISDIR"} /\ WriteRc(p) \in {"OK", "NOFILE", "ISDIR"}
           /\ DirRc(p) \in {"OK", "NOFILE", "NOTDIR"}
           /\ RmdirRc(p) \in {"OK", "NOFILE", "NOTDIR", "NOTEMPTY"}
           /\ MkdirRc(p) \in {"OK", "NOFILE", "EXIST"}
BY DEF ReadRc, WriteRc, DirRc, RmdirRc, MkdirRc

LEMMA HttpAnswers ==
    ASSUME NEW rc PROVE Http(rc) \in {"200", "404", "400", "500"}
BY DEF Http

-----------------------------------------------------------------------------
(* A request keeps the first invariant. *)

\* A step that says nothing about contents: it leaves the tree alone and the request's
\* number, stamp and chunks; a write is still ahead of its open or is refused, a file that
\* is opened is there, and rows are listed by the steps of a list alone.
Quiet(w, n) ==
    LET q == rq[w] IN
    /\ Go(w, n) /\ Stay
    /\ q.pc \notin {"idle", "close", "stamp", "answer"} /\ n.pc # "idle"
    /\ n.r = q.r /\ n.n = q.n
    /\ n.tag = q.tag /\ n.sent = q.sent /\ n.lost = q.lost
    /\ ~(q.pc = "match" /\ n.pc = "truncate")
    /\ q.r.op = "put" => \/ n.pc \in {"ufs", "match", "probe", "truncate"}
                            /\ q.pc \in {"body", "ufs", "match", "probe"}
                         \/ n.ans \notin {"none", "204"}
    /\ q.r.op = "get" => \/ q.pc = "ufs" /\ n.pc \in {"hash", "open"}
                         \/ q.pc = "open" /\ n.pc = "read" /\ ReadRc(q.r.path) = "OK"
                         \/ n.ans \notin {"none", "200", "204"}
    /\ n.pc = "ufs" => q.pc = "body"
    /\ n.pc = "diropen" => q.pc = "ufs" /\ n.rows = q.rows
    /\ q.r.op = "list" /\ (n.pc = "list" \/ n.ans = "200") =>
         q.pc \in {"diropen", "list", "stat"}

\* An answer that leaves nothing behind.
LEMMA AnswerGood ==
    ASSUME NEW q, NEW s, NEW a \in Answers \ {"none"}, Shape(q), Route(q), Effects(q),
           q.pc # "idle", ~q.buf, ~q.fp, q.dirs = << >>, s.perm = DefPerm, q.ans = "none",
           q.bad => \/ q.r.op = "list" /\ a = "200"
                    \/ q.r.op = "put" /\ a \in {"400", "404", "500"},
           q.r.op # "delete" /\ q.touched # {} => a \in {"201", "204"} \/ q.bad,
           q.r.op = "delete" => a # "204"
    PROVE  Good(Answer(q, a), s)
<1> DEFINE n == Answer(q, a)
<1>1. /\ Shape(n) /\ n.pc = "answer" /\ n.r = q.r /\ n.buf = q.buf /\ n.fp = q.fp
      /\ n.dirs = q.dirs /\ n.tag = q.tag /\ n.sent = q.sent /\ n.n = q.n /\ n.ans = a
      /\ n.touched = q.touched /\ n.lost = q.lost /\ n.bad = q.bad
  BY AnswerFields
<1> HIDE DEF n
<1>2. Route(n)
  BY <1>1 DEF Route, ListSteps, GetSteps, PutSteps, CreateSteps, DeleteSteps
<1>3. Holding(n, s)
  BY <1>1 DEF Holding
<1>4. Effects(n)
  BY <1>1 DEF Effects
<1> QED
  BY <1>1, <1>2, <1>3, <1>4 DEF Good, n

LEMMA AnswerSet ==
    Answers \ {"none"} =
      {"200", "201", "204", "304", "400", "404", "412", "413", "500", "503", "closed"}
BY DEF Answers

LEMMA AnswerQuiet ==
    ASSUME NEW w \in Workers, NEW a \in Answers \ {"none", "200", "204"}, NEW q, Shape(q),
           q.r = rq[w].r, q.n = rq[w].n, q.tag = rq[w].tag, q.sent = rq[w].sent,
           q.lost = rq[w].lost, rq[w].pc \notin {"idle", "close", "stamp", "answer"},
           Go(w, Answer(q, a)), Stay
    PROVE  \E n : Quiet(w, n)
<1> DEFINE n == Answer(q, a)
<1>1. /\ Shape(n) /\ n.pc = "answer" /\ n.r = q.r /\ n.buf = q.buf /\ n.fp = q.fp
      /\ n.dirs = q.dirs /\ n.tag = q.tag /\ n.sent = q.sent /\ n.n = q.n /\ n.ans = a
      /\ n.touched = q.touched /\ n.lost = q.lost /\ n.bad = q.bad
  BY AnswerFields
<1> HIDE DEF n
<1>2. Quiet(w, n)
  BY <1>1 DEF Quiet, n
<1> QED
  BY <1>2

\* What is known of a request at a step of its own.
LEMMA AtStep ==
    ASSUME UssInv, NEW w \in Workers, NEW step, At(w, step), step # "idle"
    PROVE  /\ rq[w].pc = step /\ R(w) = rq[w].r /\ P(w) = rq[w].r.path
           /\ rq[w].r \in Requests /\ rq[w].r.path \in Paths
           /\ Shape(rq[w]) /\ Route(rq[w]) /\ Holding(rq[w], h[w]) /\ Effects(rq[w])
<1>1. rq[w].r \in Requests
  BY Typed DEF Shape, Route, At
<1> QED
  BY <1>1, Asked, Typed DEF At, R, P

LEMMA StepSet ==
    /\ {"body", "ufs", "answer"} \subseteq Steps
    /\ ListSteps \cup GetSteps \cup PutSteps \cup CreateSteps \cup DeleteSteps \subseteq Steps
BY DEF Steps, ListSteps, GetSteps, PutSteps, CreateSteps, DeleteSteps

LEMMA BodyInv ==
    ASSUME UssInv, NEW w \in Workers, NEW op \in {"put", "create", "util"}, NEW next,
           Body(w, op, next), At(w, "body") /\ R(w).op = op => Good(next, h[w])
    PROVE  UssInv' /\ (Go(w, next) \/ \E n : Quiet(w, n))
<1> DEFINE q == rq[w]
<1>1. /\ At(w, "body") /\ R(w).op = op /\ Stay /\ Keep(w)
      /\ \/ NoFault /\ Go(w, next)
         \/ Fault /\ \E a \in {"400", "413", "500"} : Go(w, Answer(q, a))
  BY DEF Body
<1>2. /\ fs' \in FsType /\ Sess(w) /\ h'[w] = h[w]
      /\ Shape(q) /\ Route(q) /\ Holding(q, h[w]) /\ Effects(q)
      /\ q.pc = "body" /\ q.r.op = op
  BY <1>1, StayFs, KeepSess, AtStep
<1>3. ASSUME NEW a \in {"400", "413", "500"}
      PROVE  Good(Answer(q, a), h[w]) /\ (Go(w, Answer(q, a)) => \E n : Quiet(w, n))
  <2>1. Good(Answer(q, a), h[w])
    BY <1>2, AnswerGood, AnswerSet
       DEF Route, Holding, Effects, ListSteps, GetSteps, PutSteps, CreateSteps, DeleteSteps
  <2>2. Go(w, Answer(q, a)) => \E n : Quiet(w, n)
    BY <1>1, <1>2, AnswerQuiet, AnswerSet
  <2> QED
    BY <2>1, <2>2
<1> QED
  BY <1>1, <1>2, <1>3, GoInv

LEMMA PutBodyInv ==
    ASSUME UssInv, NEW w \in Workers, PutBody(w) PROVE UssInv' /\ \E n : Quiet(w, n)
<1> DEFINE q == rq[w]
           b == [q EXCEPT !.pc = "ufs"]
           n == [b EXCEPT !.buf = TRUE]
<1>1. Body(w, "put", n)
  BY DEF PutBody, To
<1>2. ASSUME At(w, "body"), R(w).op = "put"
      PROVE  Good(n, h[w]) /\ (Go(w, n) /\ Stay => Quiet(w, n))
  <2>1. /\ Shape(q) /\ Route(q) /\ Holding(q, h[w]) /\ Effects(q)
        /\ q.pc = "body" /\ q.r.op = "put"
    BY <1>2, AtStep
  <2>2. /\ Shape(b) /\ b.pc = "ufs" /\ b.r = q.r /\ b.buf = q.buf /\ b.fp = q.fp
        /\ b.dirs = q.dirs /\ b.tag = q.tag /\ b.sent = q.sent /\ b.n = q.n /\ b.ans = q.ans
        /\ b.touched = q.touched /\ b.lost = q.lost /\ b.bad = q.bad
    BY <2>1, MovedFields, StepSet
  <2> HIDE DEF b
  <2>3. /\ Shape(n) /\ n.pc = b.pc /\ n.r = b.r /\ n.buf = TRUE /\ n.fp = b.fp
        /\ n.dirs = b.dirs /\ n.tag = b.tag /\ n.sent = b.sent /\ n.n = b.n /\ n.ans = b.ans
        /\ n.touched = b.touched /\ n.lost = b.lost /\ n.bad = b.bad
    BY <2>2, BufFields
  <2> HIDE DEF n
  <2> QED
    BY <2>1, <2>2, <2>3
       DEF Quiet, Good, Route, Holding, Effects, ListSteps, GetSteps, PutSteps, CreateSteps,
           DeleteSteps
<1>3. At(w, "body") /\ R(w).op = "put" /\ Stay
  BY <1>1 DEF Body
<1> QED
  BY <1>1, <1>2, <1>3, BodyInv

LEMMA CreateBodyInv ==
    ASSUME UssInv, NEW w \in Workers, CreateBody(w) PROVE UssInv' /\ \E n : Quiet(w, n)
<1> DEFINE q == rq[w]
           b == [q EXCEPT !.pc = "ufs"]
           n == Checked(w, b)
<1>1. Body(w, "create", n)
  BY DEF CreateBody, To
<1>2. ASSUME At(w, "body"), R(w).op = "create"
      PROVE  Good(n, h[w]) /\ (Go(w, n) /\ Stay => \E m : Quiet(w, m))
  <2>1. /\ Shape(q) /\ Route(q) /\ Holding(q, h[w]) /\ Effects(q)
        /\ q.pc = "body" /\ q.r.op = "create"
    BY <1>2, AtStep
  <2>2. /\ Shape(b) /\ b.pc = "ufs" /\ b.r = q.r /\ b.buf = q.buf /\ b.fp = q.fp
        /\ b.dirs = q.dirs /\ b.tag = q.tag /\ b.sent = q.sent /\ b.n = q.n /\ b.ans = q.ans
        /\ b.touched = q.touched /\ b.lost = q.lost /\ b.bad = q.bad
    BY <2>1, MovedFields, StepSet
  <2>3. n = b \/ n = Answer(q, "400")
    BY DEF Checked
  <2> HIDE DEF b, n
  <2>4. CASE n = b
    BY <2>1, <2>2, <2>4
       DEF Quiet, Good, Route, Holding, Effects, ListSteps, GetSteps, PutSteps, CreateSteps,
           DeleteSteps
  <2>5. CASE n = Answer(q, "400")
    <3>1. Good(n, h[w])
      BY <2>1, <2>5, AnswerGood, AnswerSet
         DEF Route, Holding, Effects, ListSteps, GetSteps, PutSteps, CreateSteps, DeleteSteps
    <3> QED
      BY <2>1, <2>5, <3>1, AnswerQuiet, AnswerSet
  <2> QED
    BY <2>3, <2>4, <2>5
<1>3. At(w, "body") /\ R(w).op = "create" /\ Stay
  BY <1>1 DEF Body
<1> QED
  BY <1>1, <1>2, <1>3, BodyInv

LEMMA UtilBodyInv ==
    ASSUME UssInv, NEW w \in Workers, UtilBody(w) PROVE UssInv' /\ \E n : Quiet(w, n)
<1> DEFINE q == rq[w]
           n == Checked(w, Answer(q, "200"))
<1>1. Body(w, "util", n)
  BY DEF UtilBody
<1>2. ASSUME At(w, "body"), R(w).op = "util"
      PROVE  Good(n, h[w]) /\ (Go(w, n) /\ Stay => Quiet(w, n))
  <2>1. /\ Shape(q) /\ Route(q) /\ Holding(q, h[w]) /\ Effects(q)
        /\ q.pc = "body" /\ q.r.op = "util"
    BY <1>2, AtStep
  <2>2. PICK a \in {"200", "400"} : n = Answer(q, a)
    BY DEF Checked
  <2>3. /\ Shape(n) /\ n.pc = "answer" /\ n.r = q.r /\ n.buf = q.buf /\ n.fp = q.fp
        /\ n.dirs = q.dirs /\ n.tag = q.tag /\ n.sent = q.sent /\ n.n = q.n /\ n.ans = a
        /\ n.touched = q.touched /\ n.lost = q.lost /\ n.bad = q.bad
    BY <2>1, <2>2, AnswerFields, AnswerSet
  <2> HIDE DEF n
  <2>4. Good(n, h[w])
    BY <2>1, <2>2, AnswerGood, AnswerSet
       DEF Route, Holding, Effects, ListSteps, GetSteps, PutSteps, CreateSteps, DeleteSteps
  <2> QED
    BY <2>1, <2>3, <2>4 DEF Quiet
<1>3. At(w, "body") /\ R(w).op = "util" /\ Stay
  BY <1>1 DEF Body
<1> QED
  BY <1>1, <1>2, <1>3, BodyInv

LEMMA GetUfsInv ==
    ASSUME UssInv, NEW w \in Workers, GetUfs(w) PROVE UssInv' /\ \E n : Quiet(w, n)
<1> DEFINE q == rq[w]
           op == q.r.op
           b == [q EXCEPT !.buf = FALSE]
<1>1. /\ At(w, "ufs") /\ Stay /\ Keep(w)
      /\ \/ NoFault /\ \E s \in ListSteps \cup GetSteps \cup PutSteps \cup CreateSteps \cup {"remove"} :
              /\ Go(w, [q EXCEPT !.pc = s])
              /\ op = "list" => s = "diropen"
              /\ op = "get" => s \in {"hash", "open"}
              /\ op = "put" => s \in {"match", "truncate"}
              /\ op = "create" => s = "perm"
              /\ op = "delete" => s = "remove"
         \/ Fault /\ Go(w, Answer(b, "503"))
  <2>1. At(w, "ufs") /\ Stay /\ Keep(w)
    BY DEF GetUfs
  <2>2. op \in {"list", "get", "put", "create", "delete"}
    BY <2>1, AtStep, Asked DEF Route
  <2> QED
    BY <2>1, <2>2
       DEF GetUfs, NoUfs, To, R, ListSteps, GetSteps, PutSteps, CreateSteps, DeleteSteps
<1>2. /\ fs' \in FsType /\ Sess(w) /\ h'[w] = h[w]
      /\ Shape(q) /\ Route(q) /\ Holding(q, h[w]) /\ Effects(q)
      /\ q.pc = "ufs" /\ op \in {"list", "get", "put", "create", "delete"}
  BY <1>1, StayFs, KeepSess, AtStep, Asked DEF Route
<1>3. ASSUME NEW s \in ListSteps \cup GetSteps \cup PutSteps \cup CreateSteps \cup {"remove"},
             Go(w, [q EXCEPT !.pc = s]),
             op = "list" => s = "diropen", op = "get" => s \in {"hash", "open"},
             op = "put" => s \in {"match", "truncate"},
             op = "create" => s = "perm", op = "delete" => s = "remove"
      PROVE  Good([q EXCEPT !.pc = s], h[w]) /\ Quiet(w, [q EXCEPT !.pc = s])
  <2> DEFINE n == [q EXCEPT !.pc = s]
  <2>1. /\ Shape(n) /\ n.pc = s /\ n.r = q.r /\ n.buf = q.buf /\ n.fp = q.fp /\ n.dirs = q.dirs
        /\ n.tag = q.tag /\ n.sent = q.sent /\ n.rows = q.rows /\ n.n = q.n /\ n.ans = q.ans
        /\ n.touched = q.touched /\ n.lost = q.lost /\ n.bad = q.bad
    BY <1>2, MovedFields, StepSet DEF DeleteSteps
  <2>2. Go(w, n)
    BY <1>3
  <2> HIDE DEF n
  <2>3. Good(n, h[w])
    BY <1>2, <1>3, <2>1
       DEF Good, Route, Holding, Effects, ListSteps, GetSteps, PutSteps, CreateSteps,
           DeleteSteps
  <2>4. Quiet(w, n)
    BY <1>1, <1>2, <1>3, <2>1, <2>2
       DEF Quiet, Route, ListSteps, GetSteps, PutSteps, CreateSteps, DeleteSteps
  <2> QED
    BY <2>3, <2>4 DEF n
<1>4. /\ Shape(b) /\ b.pc = q.pc /\ b.r = q.r /\ b.buf = FALSE /\ b.fp = q.fp /\ b.dirs = q.dirs
      /\ b.tag = q.tag /\ b.sent = q.sent /\ b.n = q.n /\ b.ans = q.ans /\ b.touched = q.touched
      /\ b.lost = q.lost /\ b.bad = q.bad
  BY <1>2, BufFields
<1>5. Good(Answer(b, "503"), h[w])
  <2> HIDE DEF b
  <2>1. Route(b) /\ Effects(b)
    BY <1>2, <1>4 DEF Route, Effects
  <2> QED
    BY <1>2, <1>4, <2>1, AnswerGood, AnswerSet
       DEF Route, Holding, Effects, ListSteps, GetSteps, PutSteps, CreateSteps, DeleteSteps
<1>6. Go(w, Answer(b, "503")) => \E n : Quiet(w, n)
  <2> HIDE DEF b
  <2> QED
    BY <1>1, <1>2, <1>4, AnswerQuiet, AnswerSet
<1> HIDE DEF b
<1>7. CASE Fault /\ Go(w, Answer(b, "503"))
  BY <1>2, <1>5, <1>6, <1>7, GoInv
<1> QED
  BY <1>1, <1>2, <1>3, <1>7, GoInv

-----------------------------------------------------------------------------
(* List and read. *)

LEMMA CodeSet ==
    /\ Codes = {"OK", "NOFILE", "EXIST", "NOTDIR", "ISDIR", "NOTEMPTY", "NOSPACE", "IO", "ROFS"}
    /\ Refusals = {"IO", "NOSPACE", "ROFS"}
BY DEF Codes, Refusals

LEMMA DirFrames ==
    ASSUME NEW s \in Seq(Frames), s # << >>
    PROVE  /\ Front(s) \in Seq(Frames) /\ Len(Front(s)) = Len(s) - 1 /\ Len(s) \in Nat \ {0}
           /\ \A i \in 1 .. Len(s) - 1 : Front(s)[i] = s[i]
           /\ Front(s) = << >> <=> Len(s) = 1
           /\ Last(s) = s[Len(s)] /\ Last(s) \in Frames /\ Last(s).dir \in Paths
<1>1. Len(s) \in Nat \ {0} /\ s[Len(s)] \in Frames
  OBVIOUS
<1> DEFINE f == SubSeq(s, 1, Len(s) - 1)
<1>2. Front(s) = f /\ Last(s) = s[Len(s)]
  BY DEF Front, Last
<1>3. f = [i \in 1 .. Len(s) - 1 |-> s[i]]
  BY <1>1
<1>4. \A i \in 1 .. Len(s) - 1 : s[i] \in Frames
  BY <1>1
<1> HIDE DEF f
<1>5. f \in Seq(Frames) /\ Len(f) = Len(s) - 1 /\ \A i \in 1 .. Len(s) - 1 : f[i] = s[i]
  BY <1>1, <1>3, <1>4
<1>6. f = << >> <=> Len(s) = 1
  BY <1>1, <1>5
<1>7. s[Len(s)].dir \in Paths
  BY <1>1 DEF Frames
<1> QED
  BY <1>1, <1>2, <1>5, <1>6, <1>7

\* The directory is open, and nothing of it has been read.
OpenedStep(w, n) ==
    /\ rq[w].pc = "diropen" /\ n.pc = "list" /\ n.r = rq[w].r /\ n.rows = rq[w].rows
    /\ n.dirs = <<Frame(rq[w].r.path)>>

LEMMA DirOpenInv ==
    ASSUME UssInv, NEW w \in Workers, DirOpen(w)
    PROVE  /\ UssInv' /\ \E n : Quiet(w, n)
           /\ \E n : Go(w, n) /\ (n.pc = "stat" \/ OpenedStep(w, n))
<1> DEFINE q == rq[w]
           m == [q EXCEPT !.pc = "stat"]
           l == [q EXCEPT !.pc = "list"]
           ds == <<Frame(P(w))>>
           n == [l EXCEPT !.dirs = ds]
<1>1. /\ At(w, "diropen") /\ Stay /\ Rc(w, DirRc(P(w))) /\ (NoFault \/ Fault)
      /\ Go(w, n) \/ Go(w, m)
  BY DEF DirOpen, To
<1>2. /\ fs' \in FsType /\ Sess(w) /\ h'[w].perm = h[w].perm
      /\ Shape(q) /\ Route(q) /\ Holding(q, h[w]) /\ Effects(q)
      /\ q.pc = "diropen" /\ q.r.op = "list" /\ P(w) \in Paths /\ P(w) = q.r.path
  BY <1>1, StayFs, RcSess, RcCodes, CodeSet, AtStep DEF Route, ListSteps
<1>3. /\ Shape(m) /\ m.pc = "stat" /\ m.r = q.r /\ m.buf = q.buf /\ m.fp = q.fp
      /\ m.dirs = q.dirs /\ m.tag = q.tag /\ m.sent = q.sent /\ m.n = q.n /\ m.ans = q.ans
      /\ m.touched = q.touched /\ m.lost = q.lost /\ m.bad = q.bad
  BY <1>2, MovedFields, StepSet DEF ListSteps
<1>4. /\ Shape(l) /\ l.pc = "list" /\ l.r = q.r /\ l.buf = q.buf /\ l.fp = q.fp
      /\ l.dirs = q.dirs /\ l.tag = q.tag /\ l.sent = q.sent /\ l.rows = q.rows /\ l.n = q.n /\ l.ans = q.ans
      /\ l.touched = q.touched /\ l.lost = q.lost /\ l.bad = q.bad
  BY <1>2, MovedFields, StepSet DEF ListSteps
<1>5. ds \in Seq(Frames) /\ ds # << >>
  <2>1. Frame(P(w)) \in Frames
    BY <1>2 DEF Frame, Frames
  <2> HIDE DEF q
  <2> QED
    BY <2>1
<1>6. ds = <<Frame(q.r.path)>>
  BY <1>2
<1> HIDE DEF l, m, q, ds
<1>7. /\ Shape(n) /\ n.dirs = ds /\ n.pc = l.pc /\ n.r = l.r /\ n.buf = l.buf /\ n.fp = l.fp
      /\ n.tag = l.tag /\ n.sent = l.sent /\ n.rows = l.rows /\ n.n = l.n /\ n.ans = l.ans
      /\ n.touched = l.touched /\ n.lost = l.lost /\ n.bad = l.bad
  BY <1>4, <1>5, DirsFields
<1> HIDE DEF n
<1>8. Good(m, h'[w]) /\ (Go(w, m) => Quiet(w, m))
  BY <1>1, <1>2, <1>3
     DEF Quiet, q, Good, Route, Holding, Effects, ListSteps, GetSteps, PutSteps, CreateSteps,
         DeleteSteps
<1>9. Good(n, h'[w]) /\ (Go(w, n) => Quiet(w, n))
  BY <1>1, <1>2, <1>4, <1>5, <1>7
     DEF Quiet, q, Good, Route, Holding, Effects, ListSteps, GetSteps, PutSteps, CreateSteps,
         DeleteSteps
<1>10. OpenedStep(w, n)
  BY <1>2, <1>4, <1>6, <1>7 DEF OpenedStep, q
<1> QED
  BY <1>1, <1>2, <1>3, <1>8, <1>9, <1>10, GoInv

\* One entry more.
RowStep(w, e, n) ==
    LET q == rq[w]
        full == q.r.max > 0 /\ Len(q.rows) >= q.r.max
    IN  /\ Go(w, n) /\ q.pc = "list" /\ n.pc = "list" /\ n.ans = "none" /\ n.r = q.r
        /\ e \in Entries(q.r.path) \ q.dirs[Len(q.dirs)].seen
        /\ n.dirs = <<[q.dirs[Len(q.dirs)] EXCEPT !.seen = @ \cup {e}]>>
        /\ n.rows = IF full THEN q.rows ELSE Append(q.rows, e)

\* The end of the listing.
ListedStep(w, bad, n) ==
    LET q == rq[w]
        seen == q.dirs[Len(q.dirs)].seen
    IN  /\ Go(w, n) /\ q.pc = "list" /\ n.pc = "answer" /\ n.ans = "200" /\ n.r = q.r
        /\ n.rows = q.rows /\ n.bad = bad
        /\ n.more = (q.r.max > 0 /\ Len(q.rows) < Cardinality(seen))
        /\ ~bad => Entries(q.r.path) \subseteq seen

LEMMA DirReadInv ==
    ASSUME UssInv, NEW w \in Workers, DirRead(w)
    PROVE  /\ UssInv' /\ \E n : Quiet(w, n)
           /\ \/ \E e, n : RowStep(w, e, n)
              \/ \E bad, n : ListedStep(w, bad, n)
              \/ \E n : Go(w, n) /\ n.pc = "answer" /\ n.ans = "closed"
<1> DEFINE q == rq[w]
           top == q.dirs[Len(q.dirs)]
           ds(e) == <<[top EXCEPT !.seen = @ \cup {e}]>>
           rows(e) == IF q.r.max > 0 /\ Len(q.rows) >= q.r.max THEN q.rows
                      ELSE Append(q.rows, e)
           more == q.r.max > 0 /\ Len(q.rows) < Cardinality(top.seen)
           r(e) == [q EXCEPT !.dirs = ds(e), !.rows = rows(e)]
           l(bad) == [q EXCEPT !.dirs = << >>, !.bad = bad, !.more = more]
           c == [q EXCEPT !.dirs = << >>]
<1>1. At(w, "list") /\ Stay /\ Keep(w)
  BY DEF DirRead
<1>2. /\ fs' \in FsType /\ Sess(w) /\ h'[w] = h[w]
      /\ Shape(q) /\ Route(q) /\ Holding(q, h[w]) /\ Effects(q)
      /\ q.pc = "list" /\ q.r.op = "list" /\ P(w) = q.r.path /\ R(w) = q.r
  BY <1>1, StayFs, KeepSess, AtStep DEF Route, ListSteps
<1>3. top = Top(w) /\ top \in Frames
  <2>1. q.dirs \in Seq(Frames) /\ q.dirs # << >>
    BY <1>2 DEF Shape, Holding
  <2> QED
    BY <2>1, DirFrames DEF Top
<1>4. \/ NoFault /\ \E e \in Entries(q.r.path) \ top.seen : Go(w, r(e))
      \/ NoFault /\ Entries(q.r.path) \subseteq top.seen /\ Go(w, Answer(l(FALSE), "200"))
      \/ Fault /\ Go(w, Answer(l(TRUE), "200"))
      \/ Fault /\ Go(w, Answer(c, "closed"))
  <2>1. q = rq[w]
    OBVIOUS
  <2> HIDE DEF q, top
  <2> QED
    BY <1>2, <1>3, <2>1 DEF DirRead, Row, Listed
<1>5. ASSUME NEW e \in Entries(q.r.path) \ top.seen, NoFault, Go(w, r(e))
      PROVE  UssInv' /\ Quiet(w, r(e)) /\ RowStep(w, e, r(e))
  <2> DEFINE d == ds(e)
             s == rows(e)
             n == [q EXCEPT !.dirs = d, !.rows = s]
  <2>1. d \in Seq(Frames) /\ d # << >>
    <3>1. e \in Paths
      BY DEF Entries
    <3>2. [top EXCEPT !.seen = @ \cup {e}] \in Frames
      BY <1>3, <3>1 DEF Frames
    <3> QED
      BY <3>2
  <2>2. /\ d = <<[q.dirs[Len(q.dirs)] EXCEPT !.seen = @ \cup {e}]>>
        /\ s = IF q.r.max > 0 /\ Len(q.rows) >= q.r.max THEN q.rows ELSE Append(q.rows, e)
    OBVIOUS
  <2>3. e \in Entries(q.r.path) \ q.dirs[Len(q.dirs)].seen /\ Go(w, n)
    BY <1>5
  <2> HIDE DEF d, s
  <2>4. /\ Shape(n) /\ n.dirs = d /\ n.rows = s /\ n.pc = q.pc /\ n.r = q.r /\ n.buf = q.buf
        /\ n.fp = q.fp /\ n.tag = q.tag /\ n.sent = q.sent /\ n.n = q.n /\ n.ans = q.ans
        /\ n.touched = q.touched /\ n.lost = q.lost /\ n.bad = q.bad
    <3>1. Shape(q)
      BY <1>2
    <3> HIDE DEF q
    <3> QED
      BY ONLY <2>1, <3>1 DEF Shape
  <2> HIDE DEF n
  <2>5. Good(n, h'[w])
    BY <1>2, <2>1, <2>4
       DEF Good, Route, Holding, Effects, ListSteps, GetSteps, PutSteps, CreateSteps,
           DeleteSteps
  <2>6. Quiet(w, n)
    BY <1>1, <1>2, <2>3, <2>4 DEF Quiet
  <2>7. RowStep(w, e, n)
    BY <1>2, <2>2, <2>3, <2>4 DEF RowStep, Route
  <2>8. UssInv'
    BY <1>2, <1>5, <2>3, <2>5, GoInv
  <2> QED
    BY <2>6, <2>7, <2>8 DEF n, d, s
<1>6. ASSUME NEW bad \in BOOLEAN, ~bad => Entries(q.r.path) \subseteq top.seen,
             NoFault \/ Fault, Go(w, Answer(l(bad), "200"))
      PROVE  /\ UssInv' /\ Quiet(w, Answer(l(bad), "200"))
             /\ ListedStep(w, bad, Answer(l(bad), "200"))
  <2> DEFINE b == l(bad)
             n == Answer(b, "200")
             m == more
  <2>1. /\ m = (q.r.max > 0 /\ Len(q.rows) < Cardinality(q.dirs[Len(q.dirs)].seen))
        /\ ~bad => Entries(q.r.path) \subseteq q.dirs[Len(q.dirs)].seen
        /\ Go(w, n)
    BY <1>6
  <2>2. /\ Shape(b) /\ b.dirs = << >> /\ b.bad = bad /\ b.more = m /\ b.pc = q.pc /\ b.r = q.r
        /\ b.buf = q.buf /\ b.fp = q.fp /\ b.tag = q.tag /\ b.sent = q.sent /\ b.rows = q.rows
        /\ b.n = q.n /\ b.ans = q.ans /\ b.touched = q.touched /\ b.lost = q.lost
    <3>1. Shape(q)
      BY <1>2
    <3>2. << >> \in Seq(Frames)
      OBVIOUS
    <3> HIDE DEF q, more
    <3> QED
      BY ONLY <3>1, <3>2, bad \in BOOLEAN DEF Shape
  <2> HIDE DEF b, m
  <2>3. /\ Shape(n) /\ n.pc = "answer" /\ n.r = b.r /\ n.buf = b.buf /\ n.fp = b.fp
        /\ n.dirs = b.dirs /\ n.tag = b.tag /\ n.sent = b.sent /\ n.rows = b.rows
        /\ n.more = b.more /\ n.n = b.n /\ n.ans = "200" /\ n.touched = b.touched
        /\ n.lost = b.lost /\ n.bad = b.bad
    BY <2>2, AnswerFields, AnswerSet
  <2>4. Route(b) /\ Effects(b)
    BY <1>2, <2>2 DEF Route, Effects, Holding
  <2>5. Good(n, h'[w])
    BY <1>2, <2>2, <2>4, AnswerGood, AnswerSet
       DEF Route, Holding, Effects, ListSteps, GetSteps, PutSteps, CreateSteps, DeleteSteps
  <2> HIDE DEF n
  <2>6. Quiet(w, n)
    BY <1>1, <1>2, <2>1, <2>2, <2>3 DEF Quiet
  <2>7. ListedStep(w, bad, n)
    BY <1>2, <2>1, <2>2, <2>3 DEF ListedStep
  <2>8. UssInv'
    BY <1>2, <1>6, <2>1, <2>5, GoInv
  <2> QED
    BY <2>6, <2>7, <2>8 DEF n, b
<1>7. ASSUME Fault, Go(w, Answer(c, "closed"))
      PROVE  /\ UssInv' /\ \E n : Quiet(w, n)
             /\ \E n : Go(w, n) /\ n.pc = "answer" /\ n.ans = "closed"
  <2>1. << >> \in Seq(Frames)
    OBVIOUS
  <2>2. /\ Shape(c) /\ c.dirs = << >> /\ c.pc = q.pc /\ c.r = q.r /\ c.buf = q.buf
        /\ c.fp = q.fp /\ c.tag = q.tag /\ c.sent = q.sent /\ c.n = q.n /\ c.ans = q.ans
        /\ c.touched = q.touched /\ c.lost = q.lost /\ c.bad = q.bad
    <3> HIDE DEF q
    <3>1. Shape(q)
      BY <1>2
    <3> QED
      BY ONLY <2>1, <3>1, DirsFields, Zenon
  <2> HIDE DEF c
  <2>3. Route(c) /\ Effects(c)
    BY <1>2, <2>2 DEF Route, Effects
  <2>4. Good(Answer(c, "closed"), h'[w])
    BY <1>2, <2>2, <2>3, AnswerGood, AnswerSet
       DEF Route, Holding, Effects, ListSteps, GetSteps, PutSteps, CreateSteps, DeleteSteps
  <2>5. \E a : Quiet(w, a)
    BY <1>1, <1>2, <1>7, <2>2, AnswerQuiet, AnswerSet
  <2>6. Answer(c, "closed").pc = "answer" /\ Answer(c, "closed").ans = "closed"
    BY <2>2, AnswerFields, AnswerSet
  <2>7. UssInv'
    BY <1>2, <1>7, <2>4, GoInv
  <2> QED
    BY <1>7, <2>5, <2>6, <2>7
<1> HIDE DEF q, top, l, c
<1>8. CASE NoFault /\ \E e \in Entries(q.r.path) \ top.seen : Go(w, r(e))
  BY <1>5, <1>8
<1>9. CASE NoFault /\ Entries(q.r.path) \subseteq top.seen /\ Go(w, Answer(l(FALSE), "200"))
  BY <1>6, <1>9
<1>10. CASE Fault /\ Go(w, Answer(l(TRUE), "200"))
  BY <1>6, <1>10
<1>11. CASE Fault /\ Go(w, Answer(c, "closed"))
  BY <1>7, <1>11
<1> QED
  BY <1>4, <1>8, <1>9, <1>10, <1>11

LEMMA StatInv ==
    ASSUME UssInv, NEW w \in Workers, Stat(w)
    PROVE  /\ UssInv' /\ \E n : Quiet(w, n)
           /\ \E n : /\ Go(w, n) /\ n.pc = "answer"
                     /\ n.ans = "404" \/ (n.ans = "200" /\ n.rows = <<rq[w].r.path>>)
<1> DEFINE q == rq[w]
           b == [q EXCEPT !.rows = <<P(w)>>]
<1>1. /\ At(w, "stat") /\ Stay /\ (NoFault \/ Fault)
      /\ \E rc \in {"OK", "NOTDIR", "IO"} : Rc(w, rc)
      /\ Go(w, Answer(b, "200")) \/ Go(w, Answer(q, "404"))
  BY DEF Stat
<1>2. /\ fs' \in FsType /\ Sess(w) /\ h'[w].perm = h[w].perm
      /\ Shape(q) /\ Route(q) /\ Holding(q, h[w]) /\ Effects(q)
      /\ q.pc = "stat" /\ q.r.op = "list" /\ P(w) = q.r.path
  BY <1>1, StayFs, RcSess, CodeSet, AtStep DEF Route, ListSteps
<1>3. Good(Answer(q, "404"), h'[w])
  BY <1>2, AnswerGood, AnswerSet
     DEF Route, Holding, Effects, ListSteps, GetSteps, PutSteps, CreateSteps, DeleteSteps
<1>4. Go(w, Answer(q, "404")) => \E n : Quiet(w, n)
  BY <1>1, <1>2, AnswerQuiet, AnswerSet
<1>5. /\ Shape(b) /\ b.pc = q.pc /\ b.r = q.r /\ b.buf = q.buf /\ b.fp = q.fp /\ b.dirs = q.dirs
      /\ b.tag = q.tag /\ b.sent = q.sent /\ b.n = q.n /\ b.ans = q.ans /\ b.touched = q.touched
      /\ b.lost = q.lost /\ b.bad = q.bad /\ b.rows = <<q.r.path>>
  BY <1>2, RowsFields
<1> HIDE DEF b, q
<1>6. Good(Answer(b, "200"), h'[w])
  <2>1. Route(b) /\ Effects(b)
    BY <1>2, <1>5 DEF Route, Effects
  <2> QED
    BY <1>2, <1>5, <2>1, AnswerGood, AnswerSet
       DEF Route, Holding, Effects, ListSteps, GetSteps, PutSteps, CreateSteps, DeleteSteps
<1>7. /\ Go(w, Answer(b, "200")) => Quiet(w, Answer(b, "200"))
      /\ Answer(b, "200").pc = "answer" /\ Answer(b, "200").ans = "200"
      /\ Answer(b, "200").rows = <<q.r.path>>
  <2> DEFINE n == Answer(b, "200")
  <2>1. /\ Shape(n) /\ n.pc = "answer" /\ n.r = b.r /\ n.buf = b.buf /\ n.fp = b.fp
        /\ n.dirs = b.dirs /\ n.tag = b.tag /\ n.sent = b.sent /\ n.n = b.n /\ n.ans = "200"
        /\ n.rows = b.rows /\ n.touched = b.touched /\ n.lost = b.lost /\ n.bad = b.bad
    BY <1>5, AnswerFields, AnswerSet
  <2> HIDE DEF n
  <2>2. Go(w, n) => Quiet(w, n)
    BY <1>1, <1>2, <1>5, <2>1 DEF Quiet, q
  <2> QED
    BY <1>5, <2>1, <2>2 DEF n
<1>8. CASE Go(w, Answer(q, "404"))
  <2>1. Answer(q, "404").pc = "answer" /\ Answer(q, "404").ans = "404"
    BY <1>2, AnswerFields, AnswerSet
  <2> QED
    BY <1>1, <1>2, <1>3, <1>4, <1>8, <2>1, GoInv
<1>9. CASE Go(w, Answer(b, "200"))
  <2>1. \E n : /\ Go(w, n) /\ n.pc = "answer"
               /\ n.ans = "404" \/ (n.ans = "200" /\ n.rows = <<rq[w].r.path>>)
    BY <1>7, <1>9 DEF q
  <2> QED
    BY <1>1, <1>2, <1>6, <1>7, <1>9, <2>1, GoInv
<1> QED
  BY <1>1, <1>8, <1>9

\* A stamp is the content of a file that is there.
LEMMA HashedContent ==
    ASSUME UssInv, NEW p \in Paths, NEW ok
    PROVE  /\ Hashed(p, ok) \in Contents \cup {None}
           /\ Hashed(p, ok) # None =>
                /\ fs[p] # None /\ fs[p] \in Node /\ fs[p].kind = "file"
                /\ Hashed(p, ok) = <<fs[p].v, fs[p].len>>
<1>1. fs[p] \in Node \cup {None}
  BY DEF UssInv, Types
<1>2. Hashed(p, ok) # None => /\ fs[p] # None /\ fs[p].kind # "dir"
                              /\ Hashed(p, ok) = <<fs[p].v, fs[p].len>>
  BY DEF Hashed, ReadRc, IsDir, Exists
<1> QED
  BY <1>1, <1>2 DEF Node, Contents

\* The stamp pass of a GET, and what follows it.
HashStep(w, tag, n) ==
    LET q == rq[w] IN
    /\ Go(w, n) /\ Stay /\ q.pc = "hash" /\ q.r.op = "get" /\ n.r = q.r /\ n.n = q.n
    /\ n.tag = tag /\ n.sent = q.sent /\ n.lost = q.lost
    /\ \/ n.pc = "open" /\ n.ans = "none"
       \/ n.pc = "answer" /\ n.ans = "304"
    /\ \E ok \in BOOLEAN : tag = Hashed(q.r.path, ok)

LEMMA HashInv ==
    ASSUME UssInv, NEW w \in Workers, Hash(w) PROVE UssInv' /\ \E tag, n : HashStep(w, tag, n)
<1> DEFINE q == rq[w]
<1>1. PICK ok \in BOOLEAN :
        /\ At(w, "hash") /\ Stay /\ Recorded(w, P(w), ReadRc(P(w))) /\ (NoFault \/ Fault)
        /\ \/ Go(w, Answer([q EXCEPT !.tag = Hashed(P(w), ok)], "304"))
           \/ Go(w, [[q EXCEPT !.pc = "open"] EXCEPT !.tag = Hashed(P(w), ok)])
  BY DEF Hash, To
<1> DEFINE tag == Hashed(P(w), ok)
           b == [q EXCEPT !.tag = tag]
           a == Answer(b, "304")
           m == [q EXCEPT !.pc = "open"]
           n == [m EXCEPT !.tag = tag]
<1>2. Go(w, a) \/ Go(w, n)
  BY <1>1
<1>3. /\ fs' \in FsType /\ Sess(w) /\ h'[w].perm = h[w].perm
      /\ Shape(q) /\ Route(q) /\ Holding(q, h[w]) /\ Effects(q)
      /\ q.pc = "hash" /\ q.r.op = "get" /\ P(w) = q.r.path /\ q.r.path \in Paths
  BY <1>1, StayFs, RecordedSess, RcCodes, CodeSet, AtStep DEF Route, GetSteps
<1>4. tag \in Contents \cup {None} /\ tag = Hashed(q.r.path, ok)
  BY <1>3, HashedContent
<1> HIDE DEF tag
<1>5. /\ Shape(b) /\ b.pc = q.pc /\ b.r = q.r /\ b.buf = q.buf /\ b.fp = q.fp /\ b.dirs = q.dirs
      /\ b.tag = tag /\ b.sent = q.sent /\ b.n = q.n /\ b.ans = q.ans /\ b.touched = q.touched
      /\ b.lost = q.lost /\ b.bad = q.bad
  BY <1>3, <1>4, TagFields
<1>6. /\ Shape(m) /\ m.pc = "open" /\ m.r = q.r /\ m.buf = q.buf /\ m.fp = q.fp
      /\ m.dirs = q.dirs /\ m.tag = q.tag /\ m.sent = q.sent /\ m.n = q.n /\ m.ans = q.ans
      /\ m.touched = q.touched /\ m.lost = q.lost /\ m.bad = q.bad
  BY <1>3, MovedFields, StepSet DEF GetSteps
<1> HIDE DEF b, m
<1>7. /\ Shape(n) /\ n.pc = m.pc /\ n.r = m.r /\ n.buf = m.buf /\ n.fp = m.fp /\ n.dirs = m.dirs
      /\ n.tag = tag /\ n.sent = m.sent /\ n.n = m.n /\ n.ans = m.ans /\ n.touched = m.touched
      /\ n.lost = m.lost /\ n.bad = m.bad
  BY <1>4, <1>6, TagFields
<1>8. /\ Shape(a) /\ a.pc = "answer" /\ a.r = b.r /\ a.buf = b.buf /\ a.fp = b.fp
      /\ a.dirs = b.dirs /\ a.tag = b.tag /\ a.sent = b.sent /\ a.n = b.n /\ a.ans = "304"
      /\ a.touched = b.touched /\ a.lost = b.lost /\ a.bad = b.bad
  BY <1>5, AnswerFields, AnswerSet
<1>9. Good(a, h'[w])
  <2>1. Route(b) /\ Effects(b)
    BY <1>3, <1>5 DEF Route, Effects
  <2> QED
    BY <1>3, <1>5, <2>1, AnswerGood, AnswerSet
       DEF Route, Holding, Effects, ListSteps, GetSteps, PutSteps, CreateSteps, DeleteSteps
<1> HIDE DEF a, n
<1>10. Good(n, h'[w])
  BY <1>3, <1>6, <1>7
     DEF Good, Route, Holding, Effects, ListSteps, GetSteps, PutSteps, CreateSteps, DeleteSteps
<1>11. CASE Go(w, a)
  <2>1. HashStep(w, tag, a)
    BY <1>1, <1>3, <1>4, <1>5, <1>8, <1>11 DEF HashStep
  <2> QED
    BY <1>1, <1>3, <1>9, <1>11, <2>1, GoInv
<1>12. CASE Go(w, n)
  <2>1. HashStep(w, tag, n)
    BY <1>1, <1>3, <1>4, <1>6, <1>7, <1>12 DEF HashStep, Route
  <2> QED
    BY <1>1, <1>3, <1>10, <1>12, <2>1, GoInv
<1> QED
  BY <1>2, <1>11, <1>12

\* An open that failed is answered with a refusal.
LEMMA OpenRefused ==
    ASSUME UssInv, NEW w \in Workers, NEW p, NEW rc \in Codes \ {"OK"}
    PROVE  Http(OpenRc(LastRc(w, p, rc))) \in {"400", "404", "500"}
<1> DEFINE e == OpenRc(LastRc(w, p, rc))
<1>1. e # "OK"
  BY DEF OpenRc
<1> HIDE DEF e
<1>2. Http(e) \in {"400", "404", "500"}
  BY <1>1 DEF Http
<1> QED
  BY <1>2 DEF e

LEMMA GetOpenInv ==
    ASSUME UssInv, NEW w \in Workers, GetOpen(w) PROVE UssInv' /\ \E n : Quiet(w, n)
<1> DEFINE q == rq[w]
           m == [q EXCEPT !.pc = "read"]
           n == [m EXCEPT !.fp = TRUE]
<1>1. PICK rc \in Codes :
        /\ At(w, "open") /\ Stay /\ Recorded(w, P(w), rc) /\ (NoFault \/ Fault)
        /\ Go(w, IF rc = "OK" THEN n ELSE Answer(q, Http(OpenRc(LastRc(w, P(w), rc)))))
        /\ rc = "OK" => ReadRc(P(w)) = "OK"
  BY RcCodes, CodeSet DEF GetOpen, Outcome, To
<1>2. /\ fs' \in FsType /\ Sess(w) /\ h'[w].perm = h[w].perm
      /\ Shape(q) /\ Route(q) /\ Holding(q, h[w]) /\ Effects(q)
      /\ q.pc = "open" /\ q.r.op = "get" /\ P(w) = q.r.path
  BY <1>1, StayFs, RecordedSess, AtStep DEF Route, GetSteps
<1>3. /\ Shape(m) /\ m.pc = "read" /\ m.r = q.r /\ m.buf = q.buf /\ m.fp = q.fp
      /\ m.dirs = q.dirs /\ m.tag = q.tag /\ m.sent = q.sent /\ m.n = q.n /\ m.ans = q.ans
      /\ m.touched = q.touched /\ m.lost = q.lost /\ m.bad = q.bad
  BY <1>2, MovedFields, StepSet DEF GetSteps
<1> HIDE DEF m
<1>4. /\ Shape(n) /\ n.pc = m.pc /\ n.r = m.r /\ n.buf = m.buf /\ n.fp = TRUE /\ n.dirs = m.dirs
      /\ n.tag = m.tag /\ n.sent = m.sent /\ n.n = m.n /\ n.ans = m.ans /\ n.touched = m.touched
      /\ n.lost = m.lost /\ n.bad = m.bad
  BY <1>3, FileFields
<1> HIDE DEF n
<1>5. Good(n, h'[w]) /\ (Go(w, n) /\ rc = "OK" => Quiet(w, n))
  BY <1>1, <1>2, <1>3, <1>4
     DEF Quiet, Good, Route, Holding, Effects, ListSteps, GetSteps, PutSteps, CreateSteps,
         DeleteSteps
<1>6. CASE rc = "OK"
  BY <1>1, <1>2, <1>5, <1>6, GoInv
<1>7. CASE rc # "OK"
  <2> DEFINE a == Http(OpenRc(LastRc(w, P(w), rc)))
  <2>1. a \in {"400", "404", "500"} /\ Go(w, Answer(q, a))
    BY <1>1, <1>7, OpenRefused
  <2> HIDE DEF a
  <2>2. Good(Answer(q, a), h'[w])
    BY <1>2, <2>1, AnswerGood, AnswerSet
       DEF Route, Holding, Effects, ListSteps, GetSteps, PutSteps, CreateSteps, DeleteSteps
  <2>3. \E b : Quiet(w, b)
    BY <1>1, <1>2, <2>1, AnswerQuiet, AnswerSet
  <2> QED
    BY <1>1, <1>2, <2>1, <2>2, <2>3, GoInv
<1> QED
  BY <1>6, <1>7

\* One chunk more, and the end of the file.
ReadStep(w, n) ==
    LET q == rq[w] IN
    /\ Go(w, n) /\ Stay /\ q.pc = "read" /\ q.r.op = "get" /\ n.r = q.r /\ n.n = q.n
    /\ n.tag = q.tag /\ n.lost = q.lost
    /\ \/ /\ ~AtEnd(q.r.path, Len(q.sent) + 1) /\ n.pc = "read" /\ n.ans = "none"
          /\ n.sent = Append(q.sent, <<fs[q.r.path].v, Len(q.sent) + 1>>)
       \/ /\ AtEnd(q.r.path, Len(q.sent) + 1) /\ n.pc = "answer" /\ n.ans = "200"
          /\ n.sent = q.sent

LEMMA ReadInv ==
    ASSUME UssInv, NEW w \in Workers, Read(w)
    PROVE  UssInv' /\ ((\E n : Quiet(w, n)) \/ (\E n : ReadStep(w, n)))
<1> DEFINE q == rq[w]
           k == Len(q.sent) + 1
           s == Append(q.sent, <<fs[P(w)].v, k>>)
           n == [q EXCEPT !.sent = s]
           b == [q EXCEPT !.fp = FALSE]
<1>1. /\ At(w, "read") /\ Stay /\ Keep(w)
      /\ \/ NoFault /\ ~AtEnd(P(w), k) /\ Go(w, n)
         \/ NoFault /\ AtEnd(P(w), k) /\ Go(w, Answer(b, "200"))
         \/ Fault /\ Go(w, Answer(b, "closed"))
  BY DEF Read, ReadFailed
<1>2. /\ fs' \in FsType /\ Sess(w) /\ h'[w] = h[w]
      /\ Shape(q) /\ Route(q) /\ Holding(q, h[w]) /\ Effects(q)
      /\ q.pc = "read" /\ q.r.op = "get" /\ P(w) = q.r.path /\ q.r.path \in Paths
  BY <1>1, StayFs, KeepSess, AtStep DEF Route, GetSteps
<1>3. ~AtEnd(P(w), k) => s \in Seq(Versions \X Nat)
  <2>1. fs[P(w)] \in Node \cup {None} /\ q.sent \in Seq(Versions \X Nat)
    BY <1>2, Typed DEF FsType, Shape
  <2>2. ~AtEnd(P(w), k) => fs[P(w)].v \in Versions
    BY <2>1 DEF AtEnd, Exists, Node
  <2> QED
    BY <2>1, <2>2
<1>4. /\ Shape(b) /\ b.pc = q.pc /\ b.r = q.r /\ b.buf = q.buf /\ b.fp = FALSE
      /\ b.dirs = q.dirs /\ b.tag = q.tag /\ b.sent = q.sent /\ b.n = q.n /\ b.ans = q.ans
      /\ b.touched = q.touched /\ b.lost = q.lost /\ b.bad = q.bad
  BY <1>2, FileFields
<1>5. CASE NoFault /\ ~AtEnd(P(w), k) /\ Go(w, n)
  <2> HIDE DEF s
  <2>1. /\ Shape(n) /\ n.pc = q.pc /\ n.r = q.r /\ n.buf = q.buf /\ n.fp = q.fp
        /\ n.dirs = q.dirs /\ n.tag = q.tag /\ n.sent = s /\ n.n = q.n /\ n.ans = q.ans
        /\ n.touched = q.touched /\ n.lost = q.lost /\ n.bad = q.bad
    BY <1>2, <1>3, <1>5, SentFields, SMTT(30)
  <2> HIDE DEF n
  <2>2. Good(n, h'[w])
    BY <1>2, <2>1
       DEF Good, Route, Holding, Effects, ListSteps, GetSteps, PutSteps, CreateSteps,
           DeleteSteps
  <2>3. ReadStep(w, n)
    BY <1>1, <1>2, <1>5, <2>1 DEF ReadStep, s, Route
  <2> QED
    BY <1>2, <1>5, <2>2, <2>3, GoInv
<1> HIDE DEF b
<1>6. CASE NoFault /\ AtEnd(P(w), k) /\ Go(w, Answer(b, "200"))
  <2> DEFINE a == Answer(b, "200")
  <2>1. /\ Shape(a) /\ a.pc = "answer" /\ a.r = b.r /\ a.buf = b.buf /\ a.fp = b.fp
        /\ a.dirs = b.dirs /\ a.tag = b.tag /\ a.sent = b.sent /\ a.n = b.n /\ a.ans = "200"
        /\ a.touched = b.touched /\ a.lost = b.lost /\ a.bad = b.bad
    BY <1>4, AnswerFields, AnswerSet
  <2>2. Route(b) /\ Effects(b)
    BY <1>2, <1>4 DEF Route, Effects
  <2>3. Good(a, h'[w])
    BY <1>2, <1>4, <2>2, AnswerGood, AnswerSet
       DEF Route, Holding, Effects, ListSteps, GetSteps, PutSteps, CreateSteps, DeleteSteps
  <2> HIDE DEF a
  <2>4. ReadStep(w, a)
    BY <1>1, <1>2, <1>4, <1>6, <2>1 DEF ReadStep, a
  <2> QED
    BY <1>2, <1>6, <2>3, <2>4, GoInv DEF a
<1>7. CASE Fault /\ Go(w, Answer(b, "closed"))
  <2>1. Route(b) /\ Effects(b)
    BY <1>2, <1>4 DEF Route, Effects
  <2>2. Good(Answer(b, "closed"), h'[w])
    BY <1>2, <1>4, <2>1, AnswerGood, AnswerSet
       DEF Route, Holding, Effects, ListSteps, GetSteps, PutSteps, CreateSteps, DeleteSteps
  <2>3. \E a : Quiet(w, a)
    BY <1>1, <1>2, <1>4, <1>7, AnswerQuiet, AnswerSet
  <2> QED
    BY <1>2, <1>7, <2>2, <2>3, GoInv
<1> QED
  BY <1>1, <1>5, <1>6, <1>7

-----------------------------------------------------------------------------
(* Write. *)

LEMMA CutNode ==
    ASSUME UssInv, NEW w \in Workers, NEW p \in Paths, ~IsDir(p)
    PROVE  /\ Cut(w, p) \in Node /\ Cut(w, p) # None
           /\ Cut(w, p).kind = "file" /\ Cut(w, p).v = rq[w].n /\ Cut(w, p).len = 0
<1>1. /\ fs[p] \in Node \cup {None} /\ rq[w].n \in Versions /\ h[w].perm \in Perms
      /\ 0 \in Chunks
  BY Typed, Bounds DEF FsType, Shape, Session, Chunks
<1>2. CASE Exists(p)
  <2>1. fs[p] \in Node /\ fs[p].kind = "file"
    BY <1>1, <1>2 DEF Exists, IsDir, Node
  <2>2. Cut(w, p) = [fs[p] EXCEPT !.v = rq[w].n, !.len = 0]
    BY <1>2 DEF Cut
  <2>3. /\ Cut(w, p) \in Node /\ Cut(w, p).kind = "file"
        /\ Cut(w, p).v = rq[w].n /\ Cut(w, p).len = 0
    BY <1>1, <2>1, <2>2 DEF Node
  <2> QED
    BY <2>3, TagsDiffer
<1>3. CASE ~Exists(p)
  <2>1. /\ Cut(w, p) \in Node /\ Cut(w, p).kind = "file"
        /\ Cut(w, p).v = rq[w].n /\ Cut(w, p).len = 0
    BY <1>1, <1>3 DEF Cut, File, Node
  <2> QED
    BY <2>1, TagsDiffer
<1> QED
  BY <1>2, <1>3

\* A write to a file that is there gives it the number of the request and a length.
LEMMA WroteFs ==
    ASSUME UssInv, NEW w \in Workers, rq[w].pc # "idle", NEW k \in Chunks
    PROVE  /\ Wrote(w, k) \in FsType
           /\ \A p \in Paths : p # P(w) => Wrote(w, k)[p] = fs[p]
           /\ \/ Wrote(w, k) = fs /\ (fs[P(w)] = None \/ fs[P(w)].kind = "dir")
              \/ /\ fs[P(w)] # None /\ Wrote(w, k)[P(w)] # None /\ fs[P(w)].kind = "file"
                 /\ Wrote(w, k)[P(w)].kind = "file" /\ Wrote(w, k)[P(w)].v = rq[w].n
                 /\ Wrote(w, k)[P(w)].len = k
<1>1. /\ P(w) \in Paths /\ fs \in FsType /\ rq[w].n \in Versions
  BY Typed, Asked DEF Shape, Route, P
<1>2. CASE Exists(P(w)) /\ ~IsDir(P(w))
  <2> DEFINE f == [fs[P(w)] EXCEPT !.v = rq[w].n, !.len = k]
  <2>1. fs[P(w)] \in Node /\ fs[P(w)].kind = "file"
    BY <1>1, <1>2 DEF Exists, IsDir, Node, FsType
  <2>2. Wrote(w, k) = [fs EXCEPT ![P(w)] = f]
    BY <1>1, <1>2 DEF Wrote, FsType
  <2>3. f \in Node /\ f.kind = "file" /\ f.v = rq[w].n /\ f.len = k
    BY <1>1, <2>1 DEF Node
  <2>4. f # None /\ fs[P(w)] # None
    BY <2>1, <2>3, TagsDiffer
  <2> HIDE DEF f
  <2> QED
    BY <1>1, <2>1, <2>2, <2>3, <2>4 DEF FsType
<1>3. CASE ~(Exists(P(w)) /\ ~IsDir(P(w)))
  BY <1>1, <1>3 DEF Wrote, Exists, IsDir
<1> QED
  BY <1>2, <1>3

\* The steps of a write: the same request, and what becomes of the file.
PutStep(w, n, from, to) ==
    LET q == rq[w] IN
    /\ Go(w, n) /\ q.pc = from /\ n.pc = to /\ q.r.op = "put" /\ n.r = q.r /\ n.n = q.n
    /\ n.sent = q.sent

\* The precondition holds: the stamp of the client is the stamp of the file.
MatchStep(w, n, ok) ==
    /\ PutStep(w, n, "match", "truncate") /\ Stay /\ n.ans = "none" /\ n.lost = rq[w].lost
    /\ n.tag = Hashed(rq[w].r.path, ok) /\ n.tag # None /\ held[w].tag = n.tag

LEMMA MatchInv ==
    ASSUME UssInv, NEW w \in Workers, Match(w)
    PROVE  /\ UssInv'
           /\ \/ \E n : Quiet(w, n)
              \/ \E n, ok : MatchStep(w, n, ok)
<1> DEFINE q == rq[w]
           m == [q EXCEPT !.pc = "probe"]
           b == [q EXCEPT !.buf = FALSE]
           t == [q EXCEPT !.pc = "truncate"]
           a == Answer(b, "412")
<1>1. PICK ok \in BOOLEAN :
        /\ At(w, "match") /\ Stay /\ Recorded(w, P(w), ReadRc(P(w))) /\ (NoFault \/ Fault)
        /\ \/ Go(w, m)
           \/ Go(w, a)
           \/ /\ Go(w, [t EXCEPT !.tag = Hashed(P(w), ok)])
              /\ held[w].tag = Hashed(P(w), ok) /\ Hashed(P(w), ok) # None
  BY DEF Match, To
<1> DEFINE tag == Hashed(P(w), ok)
           n == [t EXCEPT !.tag = tag]
<1>2. /\ fs' \in FsType /\ Sess(w) /\ h'[w].perm = h[w].perm
      /\ Shape(q) /\ Route(q) /\ Holding(q, h[w]) /\ Effects(q)
      /\ q.pc = "match" /\ q.r.op = "put" /\ P(w) = q.r.path /\ q.r.path \in Paths
  BY <1>1, StayFs, RecordedSess, RcCodes, CodeSet, AtStep DEF Route, PutSteps
<1>3. tag \in Contents \cup {None} /\ tag = Hashed(q.r.path, ok)
  BY <1>2, HashedContent
<1>4. Go(w, m) \/ Go(w, a) \/ (Go(w, n) /\ held[w].tag = tag /\ tag # None)
  BY <1>1
<1> HIDE DEF tag
<1>5. /\ Shape(m) /\ m.pc = "probe" /\ m.r = q.r /\ m.buf = q.buf /\ m.fp = q.fp
      /\ m.dirs = q.dirs /\ m.tag = q.tag /\ m.sent = q.sent /\ m.n = q.n /\ m.ans = q.ans
      /\ m.touched = q.touched /\ m.lost = q.lost /\ m.bad = q.bad
  BY <1>2, MovedFields, StepSet DEF PutSteps
<1>6. /\ Shape(t) /\ t.pc = "truncate" /\ t.r = q.r /\ t.buf = q.buf /\ t.fp = q.fp
      /\ t.dirs = q.dirs /\ t.tag = q.tag /\ t.sent = q.sent /\ t.n = q.n /\ t.ans = q.ans
      /\ t.touched = q.touched /\ t.lost = q.lost /\ t.bad = q.bad
  BY <1>2, MovedFields, StepSet DEF PutSteps
<1>7. /\ Shape(b) /\ b.pc = q.pc /\ b.r = q.r /\ b.buf = FALSE /\ b.fp = q.fp /\ b.dirs = q.dirs
      /\ b.tag = q.tag /\ b.sent = q.sent /\ b.n = q.n /\ b.ans = q.ans /\ b.touched = q.touched
      /\ b.lost = q.lost /\ b.bad = q.bad
  BY <1>2, BufFields
<1> HIDE DEF m, b, t
<1>8. /\ Shape(n) /\ n.pc = t.pc /\ n.r = t.r /\ n.buf = t.buf /\ n.fp = t.fp /\ n.dirs = t.dirs
      /\ n.tag = tag /\ n.sent = t.sent /\ n.n = t.n /\ n.ans = t.ans /\ n.touched = t.touched
      /\ n.lost = t.lost /\ n.bad = t.bad
  BY <1>3, <1>6, TagFields
<1> HIDE DEF n
<1>9. CASE Go(w, m)
  <2>1. Good(m, h'[w]) /\ Quiet(w, m)
    BY <1>1, <1>2, <1>5, <1>9
       DEF Quiet, Good, Route, Holding, Effects, ListSteps, GetSteps, PutSteps, CreateSteps,
           DeleteSteps
  <2> QED
    BY <1>1, <1>2, <1>9, <2>1, GoInv
<1>10. CASE Go(w, a)
  <2>1. Route(b) /\ Effects(b)
    BY <1>2, <1>7 DEF Route, Effects
  <2>2. Good(a, h'[w])
    BY <1>2, <1>7, <2>1, AnswerGood, AnswerSet
       DEF Route, Holding, Effects, ListSteps, GetSteps, PutSteps, CreateSteps, DeleteSteps
  <2>3. \E x : Quiet(w, x)
    BY <1>1, <1>2, <1>7, <1>10, AnswerQuiet, AnswerSet
  <2> QED
    BY <1>1, <1>2, <1>10, <2>2, <2>3, GoInv
<1>11. CASE Go(w, n) /\ held[w].tag = tag /\ tag # None
  <2>1. Good(n, h'[w])
    BY <1>2, <1>6, <1>8
       DEF Good, Route, Holding, Effects, ListSteps, GetSteps, PutSteps, CreateSteps,
           DeleteSteps
  <2>2. MatchStep(w, n, ok)
    BY <1>1, <1>2, <1>3, <1>6, <1>8, <1>11 DEF MatchStep, PutStep, Route
  <2> QED
    BY <1>1, <1>2, <1>3, <1>11, <2>1, <2>2, GoInv
<1> QED
  BY <1>4, <1>9, <1>10, <1>11

LEMMA MatchProbeInv ==
    ASSUME UssInv, NEW w \in Workers, MatchProbe(w) PROVE UssInv' /\ \E n : Quiet(w, n)
<1> DEFINE q == rq[w]
           b == [q EXCEPT !.buf = FALSE]
           t == [q EXCEPT !.pc = "truncate"]
<1>1. /\ At(w, "probe") /\ Stay /\ (NoFault \/ Fault)
      /\ \E rc \in {"OK", "NOFILE"} : Recorded(w, P(w), rc)
      /\ Go(w, t) \/ Go(w, Answer(b, "412"))
  BY DEF MatchProbe, To
<1>2. /\ fs' \in FsType /\ Sess(w) /\ h'[w].perm = h[w].perm
      /\ Shape(q) /\ Route(q) /\ Holding(q, h[w]) /\ Effects(q)
      /\ q.pc = "probe" /\ q.r.op = "put"
  BY <1>1, StayFs, RecordedSess, CodeSet, AtStep DEF Route, PutSteps
<1>3. /\ Shape(t) /\ t.pc = "truncate" /\ t.r = q.r /\ t.buf = q.buf /\ t.fp = q.fp
      /\ t.dirs = q.dirs /\ t.tag = q.tag /\ t.sent = q.sent /\ t.n = q.n /\ t.ans = q.ans
      /\ t.touched = q.touched /\ t.lost = q.lost /\ t.bad = q.bad
  BY <1>2, MovedFields, StepSet DEF PutSteps
<1>4. /\ Shape(b) /\ b.pc = q.pc /\ b.r = q.r /\ b.buf = FALSE /\ b.fp = q.fp /\ b.dirs = q.dirs
      /\ b.tag = q.tag /\ b.sent = q.sent /\ b.n = q.n /\ b.ans = q.ans /\ b.touched = q.touched
      /\ b.lost = q.lost /\ b.bad = q.bad
  BY <1>2, BufFields
<1> HIDE DEF b, t
<1>5. CASE Go(w, t)
  <2>1. Good(t, h'[w]) /\ Quiet(w, t)
    BY <1>1, <1>2, <1>3, <1>5
       DEF Quiet, Good, Route, Holding, Effects, ListSteps, GetSteps, PutSteps, CreateSteps,
           DeleteSteps
  <2> QED
    BY <1>1, <1>2, <1>5, <2>1, GoInv
<1>6. CASE Go(w, Answer(b, "412"))
  <2>1. Route(b) /\ Effects(b)
    BY <1>2, <1>4 DEF Route, Effects
  <2>2. Good(Answer(b, "412"), h'[w])
    BY <1>2, <1>4, <2>1, AnswerGood, AnswerSet
       DEF Route, Holding, Effects, ListSteps, GetSteps, PutSteps, CreateSteps, DeleteSteps
  <2>3. \E x : Quiet(w, x)
    BY <1>1, <1>2, <1>4, <1>6, AnswerQuiet, AnswerSet
  <2> QED
    BY <1>1, <1>2, <1>6, <2>2, <2>3, GoInv
<1> QED
  BY <1>1, <1>5, <1>6

LEMMA PutOpenInv ==
    ASSUME UssInv, NEW w \in Workers, PutOpen(w)
    PROVE  /\ UssInv'
           /\ \/ \E n : Quiet(w, n)
              \/ \E n : /\ PutStep(w, n, "truncate", "write") /\ n.ans = "none" /\ n.tag = rq[w].tag
                        /\ ~IsDir(rq[w].r.path)
                        /\ fs' = [fs EXCEPT ![rq[w].r.path] = Cut(w, rq[w].r.path)]
<1> DEFINE q == rq[w]
           p == P(w)
           m == [q EXCEPT !.pc = "write"]
           n == [m EXCEPT !.fp = TRUE, !.touched = {p}]
           b == [q EXCEPT !.buf = FALSE]
<1>1. PICK rc \in Codes :
        /\ At(w, "truncate") /\ Recorded(w, p, rc) /\ (NoFault \/ Fault)
        /\ fs' = IF rc = "OK" THEN [fs EXCEPT ![p] = Cut(w, p)] ELSE fs
        /\ Go(w, IF rc = "OK" THEN n ELSE Answer(b, Http(OpenRc(LastRc(w, p, rc)))))
        /\ rc = "OK" => ~IsDir(p)
  <2>1. At(w, "truncate")
    BY DEF PutOpen
  <2> DEFINE try == IF p \in Long THEN "NOFILE" ELSE WriteRc(p)
  <2>2. try \in Codes /\ (try = "OK" => ~IsDir(p))
    BY RcCodes, CodeSet DEF WriteRc
  <2>3. \E rc \in Refusals \cup {try} :
        /\ Recorded(w, p, rc) /\ (NoFault \/ Fault)
        /\ fs' = IF rc = "OK" THEN [fs EXCEPT ![p] = Cut(w, p)] ELSE fs
        /\ Go(w, IF rc = "OK" THEN n ELSE Answer(b, Http(OpenRc(LastRc(w, p, rc)))))
    BY DEF PutOpen, Open4w, Outcome, To
  <2> HIDE DEF try, n, b
  <2> QED
    BY <2>1, <2>2, <2>3, CodeSet
<1>2. /\ Sess(w) /\ h'[w].perm = h[w].perm /\ fs \in FsType
      /\ Shape(q) /\ Route(q) /\ Holding(q, h[w]) /\ Effects(q)
      /\ q.pc = "truncate" /\ q.r.op = "put" /\ p = q.r.path /\ p \in Paths
  BY <1>1, Typed, RecordedSess, CodeSet, AtStep DEF Route, PutSteps
<1>3. /\ Shape(m) /\ m.pc = "write" /\ m.r = q.r /\ m.buf = q.buf /\ m.fp = q.fp
      /\ m.dirs = q.dirs /\ m.tag = q.tag /\ m.sent = q.sent /\ m.n = q.n /\ m.ans = q.ans
      /\ m.touched = q.touched /\ m.lost = q.lost /\ m.bad = q.bad
  BY <1>2, MovedFields, StepSet DEF PutSteps
<1>4. /\ Shape(b) /\ b.pc = q.pc /\ b.r = q.r /\ b.buf = FALSE /\ b.fp = q.fp /\ b.dirs = q.dirs
      /\ b.tag = q.tag /\ b.sent = q.sent /\ b.n = q.n /\ b.ans = q.ans /\ b.touched = q.touched
      /\ b.lost = q.lost /\ b.bad = q.bad
  BY <1>2, BufFields
<1> HIDE DEF b, m, p
<1>5. /\ Shape(n) /\ n.pc = m.pc /\ n.r = m.r /\ n.buf = m.buf /\ n.fp = TRUE /\ n.dirs = m.dirs
      /\ n.tag = m.tag /\ n.sent = m.sent /\ n.n = m.n /\ n.ans = m.ans /\ n.touched = {p}
      /\ n.lost = m.lost /\ n.bad = m.bad
  BY <1>2, <1>3 DEF Shape
<1> HIDE DEF n
<1>6. CASE rc = "OK"
  <2>1. Good(n, h'[w])
    BY <1>2, <1>3, <1>5
       DEF Good, Route, Holding, Effects, ListSteps, GetSteps, PutSteps, CreateSteps,
           DeleteSteps
  <2>2. fs' \in FsType
    BY <1>1, <1>2, <1>6, CutNode DEF FsType
  <2>3. /\ PutStep(w, n, "truncate", "write") /\ n.ans = "none" /\ n.tag = rq[w].tag
        /\ ~IsDir(rq[w].r.path) /\ fs' = [fs EXCEPT ![rq[w].r.path] = Cut(w, rq[w].r.path)]
    BY <1>1, <1>2, <1>3, <1>5, <1>6 DEF PutStep, Route
  <2> QED
    BY <1>1, <1>2, <1>6, <2>1, <2>2, <2>3, GoInv
<1>7. CASE rc # "OK"
  <2> DEFINE a == Http(OpenRc(LastRc(w, p, rc)))
  <2>1. a \in {"400", "404", "500"} /\ Go(w, Answer(b, a)) /\ Stay
    BY <1>1, <1>7, OpenRefused DEF Stay
  <2> HIDE DEF a
  <2>2. Route(b) /\ Effects(b)
    BY <1>2, <1>4 DEF Route, Effects
  <2>3. Good(Answer(b, a), h'[w])
    BY <1>2, <1>4, <2>1, <2>2, AnswerGood, AnswerSet
       DEF Route, Holding, Effects, ListSteps, GetSteps, PutSteps, CreateSteps, DeleteSteps
  <2>4. \E x : Quiet(w, x)
    BY <1>2, <1>4, <2>1, AnswerQuiet, AnswerSet
  <2> QED
    BY <1>1, <1>2, <2>1, <2>3, <2>4, GoInv, StayFs
<1> QED
  BY <1>6, <1>7

LEMMA PutWriteInv ==
    ASSUME UssInv, NEW w \in Workers, PutWrite(w)
    PROVE  /\ UssInv'
           /\ \/ \E n : /\ PutStep(w, n, "write", "close") /\ n.ans = "none" /\ n.tag = rq[w].tag
                        /\ fs' = Wrote(w, rq[w].r.len)
              \/ \E n, k : /\ PutStep(w, n, "write", "answer") /\ n.ans \in {"400", "404", "500"}
                           /\ n.tag = rq[w].tag /\ k \in Chunks /\ fs' = Wrote(w, k)
<1> DEFINE q == rq[w]
           m == [q EXCEPT !.pc = "close"]
           b == [q EXCEPT !.fp = FALSE, !.buf = FALSE, !.bad = TRUE]
           a(c) == Answer(b, c)
<1>1. PICK k :
        /\ At(w, "write") /\ Keep(w) /\ fs' = Wrote(w, k)
        /\ \/ NoFault /\ k = R(w).len /\ Go(w, m)
           \/ /\ Fault /\ R(w).len > 0 /\ k \in 0 .. R(w).len - 1
              /\ \E c \in {"400", "404", "500"} : Go(w, a(c))
  <2>1. \A rc \in Codes : (IF rc = "OK" THEN "500" ELSE Http(rc)) \in {"400", "404", "500"}
    BY DEF Http
  <2> HIDE DEF b
  <2> QED
    BY <2>1 DEF PutWrite, To, b
<1>2. /\ Sess(w) /\ h'[w] = h[w]
      /\ Shape(q) /\ Route(q) /\ Holding(q, h[w]) /\ Effects(q)
      /\ q.pc = "write" /\ q.r.op = "put" /\ R(w) = q.r /\ q.r.len \in Chunks
  BY <1>1, KeepSess, AtStep, Asked DEF Route, PutSteps
<1>3. k \in Chunks
  BY <1>1, <1>2, Bounds DEF Chunks
<1>4. fs' \in FsType
  BY <1>1, <1>2, <1>3, WroteFs
<1>5. /\ Shape(m) /\ m.pc = "close" /\ m.r = q.r /\ m.buf = q.buf /\ m.fp = q.fp
      /\ m.dirs = q.dirs /\ m.tag = q.tag /\ m.sent = q.sent /\ m.n = q.n /\ m.ans = q.ans
      /\ m.touched = q.touched /\ m.lost = q.lost /\ m.bad = q.bad
  BY <1>2, MovedFields, StepSet DEF PutSteps
<1>6. /\ Shape(b) /\ b.pc = q.pc /\ b.r = q.r /\ b.buf = FALSE /\ b.fp = FALSE
      /\ b.dirs = q.dirs /\ b.tag = q.tag /\ b.sent = q.sent /\ b.n = q.n /\ b.ans = q.ans
      /\ b.touched = q.touched /\ b.lost = q.lost /\ b.bad = TRUE
  BY <1>2, ClosedFields
<1> HIDE DEF b, m
<1>7. CASE NoFault /\ k = R(w).len /\ Go(w, m)
  <2>1. Good(m, h'[w])
    BY <1>2, <1>5
       DEF Good, Route, Holding, Effects, ListSteps, GetSteps, PutSteps, CreateSteps,
           DeleteSteps
  <2>2. /\ PutStep(w, m, "write", "close") /\ m.ans = "none" /\ m.tag = rq[w].tag
        /\ fs' = Wrote(w, rq[w].r.len)
    BY <1>1, <1>2, <1>5, <1>7 DEF PutStep, Route
  <2> QED
    BY <1>2, <1>4, <1>7, <2>1, <2>2, GoInv
<1>8. ASSUME NEW c \in {"400", "404", "500"}, Fault, R(w).len > 0, k \in 0 .. R(w).len - 1,
             Go(w, a(c))
      PROVE  /\ UssInv'
             /\ PutStep(w, a(c), "write", "answer") /\ a(c).ans = c /\ a(c).tag = rq[w].tag
  <2> DEFINE n == a(c)
  <2>1. /\ Shape(n) /\ n.pc = "answer" /\ n.r = b.r /\ n.buf = b.buf /\ n.fp = b.fp
        /\ n.dirs = b.dirs /\ n.tag = b.tag /\ n.sent = b.sent /\ n.n = b.n /\ n.ans = c
        /\ n.touched = b.touched /\ n.lost = b.lost /\ n.bad = b.bad
    BY <1>6, AnswerFields, AnswerSet
  <2>2. Route(b) /\ Effects(b)
    BY <1>2, <1>6 DEF Route, Effects
  <2>3. Good(n, h'[w])
    BY <1>2, <1>6, <2>2, AnswerGood, AnswerSet
       DEF Route, Holding, Effects, ListSteps, GetSteps, PutSteps, CreateSteps, DeleteSteps
  <2> HIDE DEF a
  <2>4. PutStep(w, n, "write", "answer") /\ n.ans = c /\ n.tag = rq[w].tag
    BY <1>1, <1>2, <1>6, <1>8, <2>1 DEF PutStep
  <2> QED
    BY <1>2, <1>4, <1>8, <2>3, <2>4, GoInv
<1> HIDE DEF a
<1> QED
  BY <1>1, <1>3, <1>7, <1>8

LEMMA PutCloseInv ==
    ASSUME UssInv, NEW w \in Workers, PutClose(w)
    PROVE  /\ UssInv'
           /\ \E n : /\ PutStep(w, n, "close", "stamp") /\ n.ans = "none" /\ n.tag = rq[w].tag
                     /\ \/ Stay
                        \/ n.lost /\ rq[w].r.len > 0 /\ fs' = Wrote(w, rq[w].r.len - 1)
<1> DEFINE q == rq[w]
           m == [q EXCEPT !.pc = "stamp"]
           b == [m EXCEPT !.fp = FALSE]
           n == [b EXCEPT !.lost = TRUE]
<1>1. /\ At(w, "close") /\ Keep(w)
      /\ \/ NoFault /\ Stay /\ Go(w, b)
         \/ Fault /\ R(w).len > 0 /\ fs' = Wrote(w, R(w).len - 1) /\ Go(w, n)
  BY DEF PutClose, To
<1>2. /\ Sess(w) /\ h'[w] = h[w] /\ fs \in FsType
      /\ Shape(q) /\ Route(q) /\ Holding(q, h[w]) /\ Effects(q)
      /\ q.pc = "close" /\ q.r.op = "put" /\ R(w) = q.r /\ q.r.len \in Chunks
  BY <1>1, Typed, KeepSess, AtStep, Asked DEF Route, PutSteps
<1>3. q.r.len > 0 => q.r.len - 1 \in Chunks
  BY <1>2, Bounds DEF Chunks
<1>4. fs' \in FsType
  BY <1>1, <1>2, <1>3, WroteFs DEF Stay
<1>5. /\ Shape(m) /\ m.pc = "stamp" /\ m.r = q.r /\ m.buf = q.buf /\ m.fp = q.fp
      /\ m.dirs = q.dirs /\ m.tag = q.tag /\ m.sent = q.sent /\ m.n = q.n /\ m.ans = q.ans
      /\ m.touched = q.touched /\ m.lost = q.lost /\ m.bad = q.bad
  BY <1>2, MovedFields, StepSet DEF PutSteps
<1> HIDE DEF m
<1>6. /\ Shape(b) /\ b.pc = m.pc /\ b.r = m.r /\ b.buf = m.buf /\ b.fp = FALSE
      /\ b.dirs = m.dirs /\ b.tag = m.tag /\ b.sent = m.sent /\ b.n = m.n /\ b.ans = m.ans
      /\ b.touched = m.touched /\ b.lost = m.lost /\ b.bad = m.bad
  BY <1>5, FileFields
<1> HIDE DEF b
<1>7. /\ Shape(n) /\ n.pc = b.pc /\ n.r = b.r /\ n.buf = b.buf /\ n.fp = b.fp /\ n.dirs = b.dirs
      /\ n.tag = b.tag /\ n.sent = b.sent /\ n.n = b.n /\ n.ans = b.ans /\ n.touched = b.touched
      /\ n.lost = TRUE /\ n.bad = b.bad
  BY <1>6, LostFields
<1> HIDE DEF n
<1>8. Good(b, h'[w])
  BY <1>2, <1>5, <1>6
     DEF Good, Route, Holding, Effects, ListSteps, GetSteps, PutSteps, CreateSteps, DeleteSteps
<1>9. Good(n, h'[w])
  BY <1>2, <1>5, <1>6, <1>7
     DEF Good, Route, Holding, Effects, ListSteps, GetSteps, PutSteps, CreateSteps, DeleteSteps
<1>10. CASE NoFault /\ Stay /\ Go(w, b)
  <2>1. PutStep(w, b, "close", "stamp") /\ b.ans = "none" /\ b.tag = rq[w].tag
    BY <1>2, <1>5, <1>6, <1>10 DEF PutStep, Route
  <2> QED
    BY <1>2, <1>4, <1>8, <1>10, <2>1, GoInv
<1>11. CASE Fault /\ R(w).len > 0 /\ fs' = Wrote(w, R(w).len - 1) /\ Go(w, n)
  <2>1. PutStep(w, n, "close", "stamp") /\ n.ans = "none" /\ n.tag = rq[w].tag /\ n.lost
    BY <1>2, <1>5, <1>6, <1>7, <1>11 DEF PutStep, Route
  <2> QED
    BY <1>2, <1>4, <1>9, <1>11, <2>1, GoInv
<1> QED
  BY <1>1, <1>10, <1>11

LEMMA PutStampInv ==
    ASSUME UssInv, NEW w \in Workers, PutStamp(w)
    PROVE  /\ UssInv'
           /\ \E n, ok : /\ PutStep(w, n, "stamp", "answer") /\ Stay /\ n.ans = "204"
                         /\ n.lost = rq[w].lost
                         /\ n.tag = None \/ n.tag = Hashed(rq[w].r.path, ok)
<1> DEFINE q == rq[w]
<1>1. PICK ok \in BOOLEAN :
        /\ At(w, "stamp") /\ Stay /\ (NoFault \/ Fault)
        /\ \E rc \in Codes : Recorded(w, P(w), rc)
        /\ Go(w, Answer([q EXCEPT !.buf = FALSE,
                           !.tag = IF R(w).etag THEN Hashed(P(w), ok) ELSE None], "204"))
  BY RcCodes, CodeSet DEF PutStamp
<1> DEFINE tag == IF R(w).etag THEN Hashed(P(w), ok) ELSE None
           b == [q EXCEPT !.buf = FALSE, !.tag = tag]
           n == Answer(b, "204")
<1>2. /\ fs' \in FsType /\ Sess(w) /\ h'[w].perm = h[w].perm
      /\ Shape(q) /\ Route(q) /\ Holding(q, h[w]) /\ Effects(q)
      /\ q.pc = "stamp" /\ q.r.op = "put" /\ P(w) = q.r.path /\ q.r.path \in Paths
  BY <1>1, StayFs, RecordedSess, AtStep DEF Route, PutSteps
<1>3. tag \in Contents \cup {None} /\ (tag = None \/ tag = Hashed(q.r.path, ok))
  BY <1>2, HashedContent
<1>4. Go(w, n)
  BY <1>1
<1> HIDE DEF tag
<1>5. /\ Shape(b) /\ b.pc = q.pc /\ b.r = q.r /\ b.buf = FALSE /\ b.fp = q.fp /\ b.dirs = q.dirs
      /\ b.tag = tag /\ b.sent = q.sent /\ b.n = q.n /\ b.ans = q.ans /\ b.touched = q.touched
      /\ b.lost = q.lost /\ b.bad = q.bad
  BY <1>2, <1>3 DEF Shape
<1> HIDE DEF b
<1>6. /\ Shape(n) /\ n.pc = "answer" /\ n.r = b.r /\ n.buf = b.buf /\ n.fp = b.fp
      /\ n.dirs = b.dirs /\ n.tag = b.tag /\ n.sent = b.sent /\ n.n = b.n /\ n.ans = "204"
      /\ n.touched = b.touched /\ n.lost = b.lost /\ n.bad = b.bad
  BY <1>5, AnswerFields, AnswerSet
<1>7. Route(b) /\ Effects(b)
  BY <1>2, <1>5 DEF Route, Effects
<1>8. Good(n, h'[w])
  BY <1>2, <1>5, <1>7, AnswerGood, AnswerSet
     DEF Route, Holding, Effects, ListSteps, GetSteps, PutSteps, CreateSteps, DeleteSteps
<1> HIDE DEF n
<1>9. /\ PutStep(w, n, "stamp", "answer") /\ Stay /\ n.ans = "204"
      /\ n.lost = rq[w].lost /\ (n.tag = None \/ n.tag = Hashed(rq[w].r.path, ok))
  BY <1>1, <1>2, <1>3, <1>4, <1>5, <1>6 DEF PutStep
<1> QED
  BY <1>1, <1>2, <1>4, <1>8, <1>9, GoInv

-----------------------------------------------------------------------------
(* Create. *)

LEMMA SetPermInv ==
    ASSUME UssInv, NEW w \in Workers, SetPerm(w) PROVE UssInv' /\ \E n : Quiet(w, n)
<1> DEFINE q == rq[w]
           n == [q EXCEPT !.pc = "exists"]
           s == [h[w] EXCEPT !.perm = q.r.perm]
<1>1. /\ At(w, "perm") /\ Stay /\ NoFault /\ Go(w, n) /\ h' = [h EXCEPT ![w] = s]
  BY DEF SetPerm, To, R
<1>2. /\ fs' \in FsType /\ h \in [Workers -> Session]
      /\ Shape(q) /\ Route(q) /\ Holding(q, h[w]) /\ Effects(q)
      /\ q.pc = "perm" /\ q.r.op = "create" /\ q.r.perm \in Perms
  BY <1>1, StayFs, Typed, AtStep, Asked DEF Route, CreateSteps
<1>3. s \in Session
  BY <1>2 DEF Session
<1> HIDE DEF s
<1>4. Sess(w)
  BY <1>1, <1>2, <1>3 DEF Sess
<1>5. /\ Shape(n) /\ n.pc = "exists" /\ n.r = q.r /\ n.buf = q.buf /\ n.fp = q.fp
      /\ n.dirs = q.dirs /\ n.tag = q.tag /\ n.sent = q.sent /\ n.n = q.n /\ n.ans = q.ans
      /\ n.touched = q.touched /\ n.lost = q.lost /\ n.bad = q.bad
  BY <1>2, MovedFields, StepSet DEF CreateSteps
<1> HIDE DEF n
<1>6. Good(n, h'[w]) /\ Quiet(w, n)
  BY <1>1, <1>2, <1>5
     DEF Quiet, Good, Route, Holding, Effects, ListSteps, GetSteps, PutSteps, CreateSteps,
         DeleteSteps
<1> QED
  BY <1>1, <1>2, <1>4, <1>6, GoInv

LEMMA CreateExistsInv ==
    ASSUME UssInv, NEW w \in Workers, CreateExists(w) PROVE UssInv' /\ \E n : Quiet(w, n)
<1> DEFINE q == rq[w]
           n == [q EXCEPT !.pc = "make"]
<1>1. /\ At(w, "exists") /\ Stay /\ (NoFault \/ Fault)
      /\ \E rc \in Codes : \/ Restored(w, rc) /\ Go(w, Answer(q, "400"))
                           \/ Recorded(w, P(w), rc) /\ Go(w, n)
  <2> DEFINE c == IF R(w).type = "file" THEN ReadRc(P(w)) ELSE DirRc(P(w))
  <2>1. c \in Codes
    BY RcCodes, CodeSet
  <2>2. "IO" \in Codes
    BY CodeSet
  <2> QED
    BY <2>1, <2>2 DEF CreateExists, To
<1>2. PICK rc \in Codes : \/ Restored(w, rc) /\ Go(w, Answer(q, "400"))
                          \/ Recorded(w, P(w), rc) /\ Go(w, n)
  BY <1>1
<1>3. /\ fs' \in FsType
      /\ Shape(q) /\ Route(q) /\ Holding(q, h[w]) /\ Effects(q)
      /\ q.pc = "exists" /\ q.r.op = "create"
  BY <1>1, StayFs, AtStep DEF Route, CreateSteps
<1>4. /\ Shape(n) /\ n.pc = "make" /\ n.r = q.r /\ n.buf = q.buf /\ n.fp = q.fp
      /\ n.dirs = q.dirs /\ n.tag = q.tag /\ n.sent = q.sent /\ n.n = q.n /\ n.ans = q.ans
      /\ n.touched = q.touched /\ n.lost = q.lost /\ n.bad = q.bad
  BY <1>3, MovedFields, StepSet DEF CreateSteps
<1> HIDE DEF n
<1>5. CASE Restored(w, rc) /\ Go(w, Answer(q, "400"))
  <2>1. Sess(w) /\ h'[w].perm = DefPerm
    BY <1>5, RestoredSess
  <2>2. Good(Answer(q, "400"), h'[w])
    BY <1>3, <2>1, AnswerGood, AnswerSet
       DEF Route, Holding, Effects, ListSteps, GetSteps, PutSteps, CreateSteps, DeleteSteps
  <2>3. \E x : Quiet(w, x)
    BY <1>1, <1>3, <1>5, AnswerQuiet, AnswerSet
  <2> QED
    BY <1>1, <1>3, <1>5, <2>1, <2>2, <2>3, GoInv
<1>6. CASE Recorded(w, P(w), rc) /\ Go(w, n)
  <2>1. Sess(w)
    BY <1>6, RecordedSess
  <2>2. Good(n, h'[w]) /\ Quiet(w, n)
    BY <1>1, <1>3, <1>4, <1>6
       DEF Quiet, Good, Route, Holding, Effects, ListSteps, GetSteps, PutSteps, CreateSteps,
           DeleteSteps
  <2> QED
    BY <1>1, <1>3, <1>6, <2>1, <2>2, GoInv
<1> QED
  BY <1>2, <1>5, <1>6

\* A new file of no length, or a new directory.
MakeStep(w, n, new) ==
    LET q == rq[w] IN
    /\ Go(w, n) /\ q.pc = "make" /\ q.r.op = "create" /\ n.r = q.r /\ n.n = q.n
    /\ n.pc = "answer" /\ n.ans = "201" /\ n.tag = q.tag /\ n.sent = q.sent
    /\ fs' = [fs EXCEPT ![q.r.path] = new] /\ new \in Node /\ new # None /\ new.len = 0
    /\ \/ new.kind = "file" /\ new.v = q.n
       \/ new.kind = "dir" /\ new.v = 0

LEMMA MakeInv ==
    ASSUME UssInv, NEW w \in Workers, Make(w)
    PROVE  UssInv' /\ ((\E n : Quiet(w, n)) \/ (\E n, new : MakeStep(w, n, new)))
<1> DEFINE q == rq[w]
           p == P(w)
           file == R(w).type = "file"
           c == IF p \in Long THEN "NOFILE" ELSE IF file THEN WriteRc(p) ELSE MkdirRc(p)
           new == IF file THEN Cut(w, p) ELSE Dir(h[w].perm)
           said(e) == IF file THEN LastRc(w, p, e) ELSE OpenRc(LastRc(w, p, e))
           b == [q EXCEPT !.touched = {p}]
           n == Answer(b, "201")
<1>1. PICK rc \in Refusals \cup {c} :
        /\ At(w, "make") /\ Restored(w, rc) /\ (NoFault \/ Fault)
        /\ fs' = IF rc = "OK" THEN [fs EXCEPT ![p] = new] ELSE fs
        /\ Go(w, IF rc = "OK" THEN n ELSE Answer(q, Http(said(rc))))
  BY DEF Make, Outcome
<1>2. rc \in Codes /\ (rc = "OK" /\ file => ~IsDir(p))
  BY <1>1, RcCodes, CodeSet DEF WriteRc
<1>3. /\ Sess(w) /\ h'[w].perm = DefPerm /\ fs \in FsType /\ h[w] \in Session
      /\ Shape(q) /\ Route(q) /\ Holding(q, h[w]) /\ Effects(q)
      /\ q.pc = "make" /\ q.r.op = "create" /\ p = q.r.path /\ p \in Paths
  BY <1>1, <1>2, Typed, RestoredSess, AtStep DEF Route, CreateSteps
<1>4. CASE rc = "OK"
  <2>1. /\ new \in Node /\ new # None /\ new.len = 0
        /\ \/ new.kind = "file" /\ new.v = q.n
           \/ new.kind = "dir" /\ new.v = 0
    <3>1. CASE file
      BY <1>2, <1>3, <1>4, <3>1, CutNode
    <3>2. CASE ~file
      <4> DEFINE d == Dir(h[w].perm)
      <4>1. d \in Node /\ d.len = 0 /\ d.kind = "dir" /\ d.v = 0
        BY <1>3, Bounds DEF Dir, Node, Session, Versions, Chunks
      <4>2. new = d
        BY <3>2
      <4> HIDE DEF d, new
      <4> QED
        BY <4>1, <4>2, TagsDiffer
    <3> QED
      BY <3>1, <3>2
  <2> HIDE DEF new, p
  <2>2. /\ Shape(b) /\ b.pc = q.pc /\ b.r = q.r /\ b.buf = q.buf /\ b.fp = q.fp
        /\ b.dirs = q.dirs /\ b.tag = q.tag /\ b.sent = q.sent /\ b.n = q.n /\ b.ans = q.ans
        /\ b.touched = {p} /\ b.lost = q.lost /\ b.bad = q.bad
    BY <1>3, TouchedFields
  <2> HIDE DEF b
  <2>3. /\ Shape(n) /\ n.pc = "answer" /\ n.r = b.r /\ n.buf = b.buf /\ n.fp = b.fp
        /\ n.dirs = b.dirs /\ n.tag = b.tag /\ n.sent = b.sent /\ n.n = b.n /\ n.ans = "201"
        /\ n.touched = b.touched /\ n.lost = b.lost /\ n.bad = b.bad
    BY <2>2, AnswerFields, AnswerSet
  <2> HIDE DEF n
  <2>4. Good(n, h'[w])
    BY <1>3, <2>2, <2>3
       DEF Good, Route, Holding, Effects, ListSteps, GetSteps, PutSteps, CreateSteps,
           DeleteSteps
  <2>5. fs' = [fs EXCEPT ![p] = new] /\ Go(w, n)
    BY <1>1, <1>4
  <2>6. fs' \in FsType
    BY <1>3, <2>1, <2>5 DEF FsType
  <2>7. MakeStep(w, n, new)
    BY <1>3, <2>1, <2>2, <2>3, <2>5 DEF MakeStep
  <2> QED
    BY <1>1, <1>3, <2>4, <2>5, <2>6, <2>7, GoInv
<1>5. CASE rc # "OK"
  <2> DEFINE a == Http(said(rc))
  <2>1. a \in {"200", "400", "404", "500"}
    BY HttpAnswers
  <2>2. Go(w, Answer(q, a)) /\ Stay
    BY <1>1, <1>5 DEF Stay
  <2> HIDE DEF a
  <2>3. Good(Answer(q, a), h'[w])
    BY <1>3, <2>1, AnswerGood, AnswerSet
       DEF Route, Holding, Effects, ListSteps, GetSteps, PutSteps, CreateSteps, DeleteSteps
  <2> DEFINE m == Answer(q, a)
  <2>4. /\ Shape(m) /\ m.pc = "answer" /\ m.r = q.r /\ m.buf = q.buf /\ m.fp = q.fp
        /\ m.dirs = q.dirs /\ m.tag = q.tag /\ m.sent = q.sent /\ m.n = q.n /\ m.ans = a
        /\ m.touched = q.touched /\ m.lost = q.lost /\ m.bad = q.bad
    BY <1>3, <2>1, AnswerFields, AnswerSet
  <2> HIDE DEF m
  <2>5. Quiet(w, m)
    BY <1>3, <2>2, <2>4 DEF Quiet, m
  <2> QED
    BY <1>1, <1>3, <2>2, <2>3, <2>5, GoInv, StayFs
<1> QED
  BY <1>4, <1>5

-----------------------------------------------------------------------------
(* Delete. *)

\* One path less.
EraseStep(w, n, p) ==
    LET q == rq[w] IN
    /\ Go(w, n) /\ q.pc \in DeleteSteps /\ q.r.op = "delete" /\ n.r = q.r /\ n.n = q.n
    /\ n.pc # "idle" /\ n.tag = q.tag /\ fs' = [fs EXCEPT ![p] = None] /\ p \in Paths

LEMMA GoneFs ==
    ASSUME UssInv, NEW p \in Paths, fs' = [fs EXCEPT ![p] = None] PROVE fs' \in FsType
BY DEF UssInv, Types, FsType

LEMMA RemoveFileInv ==
    ASSUME UssInv, NEW w \in Workers, RemoveFile(w)
    PROVE  UssInv' /\ ((\E n : Quiet(w, n)) \/ (\E n, p : EraseStep(w, n, p)))
<1> DEFINE q == rq[w]
           p == P(w)
           b == Answer(q, "204")
           n == [b EXCEPT !.touched = @ \cup {p}]
<1>1. At(w, "remove")
  BY DEF RemoveFile
<1>2. PICK rc \in Codes :
        /\ Rc(w, rc) /\ (NoFault \/ Fault)
        /\ \/ fs' = [fs EXCEPT ![p] = None] /\ Go(w, n)
           \/ \E s \in {"enter", "rmdir"} : Stay /\ Go(w, [q EXCEPT !.pc = s])
           \/ rc # "OK" /\ Stay /\ Go(w, Answer(q, Http(rc)))
  <2>1. \E rc \in Refusals \cup {RemoveRc(p)} :
          /\ Rc(w, rc) /\ (NoFault \/ Fault)
          /\ CASE rc = "OK" -> Gone(w, p, b)
               [] rc = "ISDIR" -> Stay /\ Go(w, To(w, IF R(w).recursive THEN "enter" ELSE "rmdir"))
               [] OTHER -> Stay /\ Go(w, Answer(q, Http(rc)))
    BY DEF RemoveFile, Outcome
  <2>2. RemoveRc(p) \in Codes
    BY RcCodes, CodeSet DEF RemoveRc
  <2>3. Gone(w, p, b) => fs' = [fs EXCEPT ![p] = None] /\ Go(w, n)
    BY DEF Gone
  <2>4. Go(w, To(w, IF R(w).recursive THEN "enter" ELSE "rmdir"))
          => \E s \in {"enter", "rmdir"} : Go(w, [q EXCEPT !.pc = s])
    BY DEF To
  <2> HIDE DEF p, n, b
  <2> QED
    BY <2>1, <2>2, <2>3, <2>4, CodeSet
<1>3. /\ Sess(w) /\ h'[w].perm = h[w].perm /\ fs \in FsType
      /\ Shape(q) /\ Route(q) /\ Holding(q, h[w]) /\ Effects(q)
      /\ q.pc = "remove" /\ q.r.op = "delete" /\ p = q.r.path /\ p \in Paths
  BY <1>1, <1>2, Typed, RcSess, AtStep DEF Route, DeleteSteps
<1>4. CASE fs' = [fs EXCEPT ![p] = None] /\ Go(w, n)
  <2>1. /\ Shape(b) /\ b.pc = "answer" /\ b.r = q.r /\ b.buf = q.buf /\ b.fp = q.fp
        /\ b.dirs = q.dirs /\ b.tag = q.tag /\ b.sent = q.sent /\ b.n = q.n /\ b.ans = "204"
        /\ b.touched = q.touched /\ b.lost = q.lost /\ b.bad = q.bad
    BY <1>3, AnswerFields, AnswerSet
  <2> HIDE DEF b, p
  <2>2. /\ Shape(n) /\ n.pc = b.pc /\ n.r = b.r /\ n.buf = b.buf /\ n.fp = b.fp
        /\ n.dirs = b.dirs /\ n.tag = b.tag /\ n.sent = b.sent /\ n.n = b.n /\ n.ans = b.ans
        /\ n.touched = b.touched \cup {p} /\ n.lost = b.lost /\ n.bad = b.bad
    BY <1>3, <2>1 DEF Shape
  <2> HIDE DEF n
  <2>3. p \in Inside[p]
    BY <1>3, InsideSelf
  <2>4. Good(n, h'[w])
    BY <1>3, <2>1, <2>2, <2>3
       DEF Good, Route, Holding, Effects, ListSteps, GetSteps, PutSteps, CreateSteps,
           DeleteSteps
  <2>5. EraseStep(w, n, p)
    BY <1>3, <1>4, <2>1, <2>2 DEF EraseStep, DeleteSteps
  <2> QED
    BY <1>2, <1>3, <1>4, <2>4, <2>5, GoInv, GoneFs
<1>5. CASE \E s \in {"enter", "rmdir"} : Stay /\ Go(w, [q EXCEPT !.pc = s])
  <2>1. PICK s \in {"enter", "rmdir"} : Stay /\ Go(w, [q EXCEPT !.pc = s])
    BY <1>5
  <2> DEFINE m == [q EXCEPT !.pc = s]
  <2>2. /\ Shape(m) /\ m.pc = s /\ m.r = q.r /\ m.buf = q.buf /\ m.fp = q.fp /\ m.dirs = q.dirs
        /\ m.tag = q.tag /\ m.sent = q.sent /\ m.n = q.n /\ m.ans = q.ans
        /\ m.touched = q.touched /\ m.lost = q.lost /\ m.bad = q.bad
    BY <1>3, MovedFields, StepSet DEF DeleteSteps
  <2>3. Go(w, m)
    BY <2>1
  <2> HIDE DEF m
  <2>4. Good(m, h'[w]) /\ Quiet(w, m)
    BY <1>3, <2>1, <2>2, <2>3
       DEF Quiet, Good, Route, Holding, Effects, ListSteps, GetSteps, PutSteps, CreateSteps,
           DeleteSteps
  <2> QED
    BY <1>2, <1>3, <2>1, <2>3, <2>4, GoInv, StayFs
<1>6. CASE rc # "OK" /\ Stay /\ Go(w, Answer(q, Http(rc)))
  <2> DEFINE a == Http(rc)
  <2>1. a \in {"400", "404", "500"}
    BY <1>6 DEF Http
  <2>2. Go(w, Answer(q, a))
    BY <1>6
  <2> HIDE DEF a
  <2>3. Good(Answer(q, a), h'[w])
    BY <1>3, <2>1, AnswerGood, AnswerSet
       DEF Route, Holding, Effects, ListSteps, GetSteps, PutSteps, CreateSteps, DeleteSteps
  <2>4. \E x : Quiet(w, x)
    BY <1>3, <1>6, <2>1, <2>2, AnswerQuiet, AnswerSet
  <2> QED
    BY <1>2, <1>3, <1>6, <2>2, <2>3, <2>4, GoInv, StayFs
<1> QED
  BY <1>2, <1>4, <1>5, <1>6

\* A delete on its way: it has removed only what lies inside, and not yet the top.
LEMMA DeleteGood ==
    ASSUME NEW n, NEW s, Shape(n), n.r # None, n.r.op = "delete", n.n >= 1,
           n.pc \in DeleteSteps \ {"remove"}, n.ans = "none", ~n.buf, ~n.fp, ~n.bad,
           s.perm = DefPerm, n.touched \subseteq Inside[n.r.path], n.r.path \notin n.touched,
           n.pc \in {"scan", "unlink"} => n.dirs # << >>,
           Inward(n.dirs, n.r.path),
           n.pc \in {"enter", "unlink"} /\ n.dirs # << >> =>
             n.dirs[Len(n.dirs)].entry \in Inside[n.r.path] \ {n.r.path}
    PROVE  Good(n, s)
<1>1. Route(n)
  BY DEF Route, ListSteps, GetSteps, PutSteps, CreateSteps, DeleteSteps
<1>2. Holding(n, s)
  BY DEF Holding, DeleteSteps
<1>3. Effects(n)
  BY DEF Effects, DeleteSteps
<1> QED
  BY <1>1, <1>2, <1>3 DEF Good

\* And what is known of one.
LEMMA DeleteKnown ==
    ASSUME NEW q, NEW s, Shape(q), Route(q), Holding(q, s), Effects(q), q.pc \in DeleteSteps
    PROVE  /\ q.r # None /\ q.r.op = "delete" /\ q.n >= 1 /\ q.ans = "none"
           /\ ~q.buf /\ ~q.fp /\ ~q.bad /\ s.perm = DefPerm
           /\ q.touched \subseteq Inside[q.r.path] /\ q.r.path \notin q.touched
           /\ q.dirs \in Seq(Frames) /\ Inward(q.dirs, q.r.path)
<1>1. q.r # None /\ q.r.op = "delete" /\ q.n >= 1 /\ q.ans = "none" /\ q.dirs \in Seq(Frames)
  BY DEF Route, DeleteSteps, Shape
<1>2. ~q.buf /\ ~q.fp /\ ~q.bad /\ s.perm = DefPerm
  BY <1>1 DEF Holding, DeleteSteps, PutSteps, Shape
<1>3. /\ q.touched \subseteq Inside[q.r.path] /\ q.r.path \notin q.touched
      /\ Inward(q.dirs, q.r.path)
  BY <1>1 DEF Effects, DeleteSteps
<1> QED
  BY <1>1, <1>2, <1>3

LEMMA RmdirInv ==
    ASSUME UssInv, NEW w \in Workers, Rmdir(w)
    PROVE  UssInv' /\ ((\E n : Quiet(w, n)) \/ (\E n, p : EraseStep(w, n, p)))
<1> DEFINE q == rq[w]
           p == IF q.dirs # << >> THEN Last(q.dirs).dir ELSE P(w)
           up == IF q.dirs # << >> THEN [q EXCEPT !.dirs = Front(@)] ELSE q
           m == [up EXCEPT !.pc = "unwind"]
           c == [up EXCEPT !.pc = "scan"]
           d == [c EXCEPT !.touched = @ \cup {p}]
           a == Answer(up, "204")
           e == [a EXCEPT !.touched = @ \cup {p}]
<1>1. PICK rc \in Codes :
        /\ At(w, "rmdir") /\ Rc(w, rc) /\ (NoFault \/ Fault)
        /\ \/ Stay /\ Go(w, m)
           \/ fs' = [fs EXCEPT ![p] = None] /\ up.dirs # << >> /\ Go(w, d)
           \/ fs' = [fs EXCEPT ![p] = None] /\ up.dirs = << >> /\ Go(w, e)
  <2>1. \E rc \in Refusals \cup {RmdirRc(p)} :
          /\ Rc(w, rc) /\ (NoFault \/ Fault)
          /\ CASE rc # "OK" -> Stay /\ Go(w, m)
               [] rc = "OK" /\ up.dirs # << >> -> Gone(w, p, c)
               [] OTHER -> Gone(w, p, a)
    BY DEF Rmdir, Outcome
  <2>2. RmdirRc(p) \in Codes /\ At(w, "rmdir")
    BY RcCodes, CodeSet DEF Rmdir
  <2>3. Gone(w, p, c) => fs' = [fs EXCEPT ![p] = None] /\ Go(w, d)
    BY DEF Gone
  <2>4. Gone(w, p, a) => fs' = [fs EXCEPT ![p] = None] /\ Go(w, e)
    BY DEF Gone
  <2> HIDE DEF p, m, c, d, a, e, up
  <2> QED
    BY <2>1, <2>2, <2>3, <2>4, CodeSet
<1>2. /\ Sess(w) /\ h'[w].perm = h[w].perm /\ fs \in FsType
      /\ Shape(q) /\ Route(q) /\ Holding(q, h[w]) /\ Effects(q)
      /\ q.pc = "rmdir" /\ q.r.op = "delete" /\ P(w) = q.r.path /\ q.r.path \in Paths
  BY <1>1, Typed, RcSess, AtStep DEF Route, DeleteSteps
<1>3. q.dirs \in Seq(Frames) /\ q.r.path \in Inside[q.r.path]
  BY <1>2, InsideSelf DEF Shape
<1> HIDE DEF q
<1>4. p \in Paths /\ p \in Inside[q.r.path] /\ (p = q.r.path <=> up.dirs = << >>)
  <2>1. CASE q.dirs = << >>
    BY <1>2, <1>3, <2>1
  <2>2. CASE q.dirs # << >>
    <3>1. p = q.dirs[Len(q.dirs)].dir /\ Len(q.dirs) \in Nat \ {0} /\ p \in Paths
      BY <1>3, <2>2, DirFrames
    <3>2. [q EXCEPT !.dirs = Front(q.dirs)].dirs = Front(q.dirs)
      BY <1>2, <1>3, <2>2, DirFrames, DirsFields
    <3>3. up.dirs = << >> <=> Len(q.dirs) = 1
      BY <1>3, <2>2, <3>2, DirFrames
    <3> HIDE DEF p, up
    <3> QED
      <4> DEFINE k == Len(q.dirs)
      <4>1. q.dirs[k].dir \in Inside[q.r.path] /\ (q.dirs[k].dir = q.r.path <=> k = 1)
        <5>1. \A i \in 1 .. k : /\ q.dirs[i].dir \in Inside[q.r.path]
                                /\ (q.dirs[i].dir = q.r.path <=> i = 1)
          BY <1>2, DeleteKnown DEF DeleteSteps, Inward
        <5>2. k \in 1 .. k
          BY <3>1
        <5> QED
          BY <5>1, <5>2
      <4> QED
        BY <3>1, <3>3, <4>1
  <2> QED
    BY <2>1, <2>2
<1> DEFINE ds == IF q.dirs # << >> THEN Front(q.dirs) ELSE q.dirs
<1>5. /\ ds \in Seq(Frames) /\ Len(ds) <= Len(q.dirs) /\ Len(ds) \in Nat /\ Len(q.dirs) \in Nat
      /\ \A i \in 1 .. Len(ds) : ds[i] = q.dirs[i]
  <2>1. CASE q.dirs = << >>
    BY <1>3, <2>1
  <2>2. CASE q.dirs # << >>
    <3>1. ds = Front(q.dirs)
      BY <2>2
    <3>2. /\ Front(q.dirs) \in Seq(Frames) /\ Len(Front(q.dirs)) = Len(q.dirs) - 1
          /\ Len(q.dirs) \in Nat \ {0}
          /\ \A i \in 1 .. Len(q.dirs) - 1 : Front(q.dirs)[i] = q.dirs[i]
      BY <1>3, <2>2, DirFrames
    <3> HIDE DEF ds
    <3> QED
      BY <3>1, <3>2
  <2> QED
    BY <2>1, <2>2
<1>6. /\ Shape(up) /\ up.pc = q.pc /\ up.r = q.r /\ up.buf = q.buf /\ up.fp = q.fp
      /\ up.dirs = ds /\ up.tag = q.tag /\ up.sent = q.sent /\ up.n = q.n /\ up.ans = q.ans
      /\ up.touched = q.touched /\ up.lost = q.lost /\ up.bad = q.bad
  <2>1. CASE q.dirs = << >>
    BY <1>2, <2>1
  <2>2. CASE q.dirs # << >>
    BY <1>2, <1>5, <2>2, DirsFields
  <2> QED
    BY <2>1, <2>2
<1> HIDE DEF p, up, ds
<1>7. Inward(ds, q.r.path)
  BY <1>2, <1>5, DeleteKnown DEF Inward, DeleteSteps
<1>8. /\ q.touched \subseteq Inside[q.r.path] /\ q.r.path \notin q.touched /\ q.ans = "none"
      /\ ~q.buf /\ ~q.fp /\ ~q.bad /\ q.n >= 1 /\ h'[w].perm = DefPerm /\ q.r # None
      /\ q.r.op = "delete"
  BY <1>2, DeleteKnown DEF DeleteSteps
<1>9. CASE Stay /\ Go(w, m)
  <2>1. /\ Shape(m) /\ m.pc = "unwind" /\ m.r = up.r /\ m.buf = up.buf /\ m.fp = up.fp
        /\ m.dirs = up.dirs /\ m.tag = up.tag /\ m.sent = up.sent /\ m.n = up.n
        /\ m.ans = up.ans /\ m.touched = up.touched /\ m.lost = up.lost /\ m.bad = up.bad
    BY <1>6, MovedFields, StepSet DEF DeleteSteps
  <2> HIDE DEF m
  <2>2. Good(m, h'[w])
    <3>1. /\ m.r # None /\ m.r.op = "delete" /\ m.n >= 1 /\ m.ans = "none"
          /\ ~m.buf /\ ~m.fp /\ ~m.bad /\ h'[w].perm = DefPerm
          /\ m.touched \subseteq Inside[m.r.path] /\ m.r.path \notin m.touched
          /\ m.pc \in DeleteSteps \ {"remove", "enter", "unlink"} /\ Shape(m)
          /\ m.pc = "scan" => m.dirs # << >>
      BY <1>6, <1>8, <2>1 DEF DeleteSteps
    <3>2. Inward(m.dirs, m.r.path)
      BY <1>6, <1>7, <2>1
    <3> QED
      BY <3>1, <3>2, DeleteGood
  <2>3. Quiet(w, m)
    BY <1>2, <1>6, <1>9, <2>1 DEF Quiet, q
  <2> QED
    BY <1>1, <1>2, <1>9, <2>2, <2>3, GoInv, StayFs
<1>10. CASE fs' = [fs EXCEPT ![p] = None] /\ up.dirs # << >> /\ Go(w, d)
  <2>1. /\ Shape(c) /\ c.pc = "scan" /\ c.r = up.r /\ c.buf = up.buf /\ c.fp = up.fp
        /\ c.dirs = up.dirs /\ c.tag = up.tag /\ c.sent = up.sent /\ c.n = up.n
        /\ c.ans = up.ans /\ c.touched = up.touched /\ c.lost = up.lost /\ c.bad = up.bad
    BY <1>6, MovedFields, StepSet DEF DeleteSteps
  <2> HIDE DEF c
  <2>2. /\ Shape(d) /\ d.pc = c.pc /\ d.r = c.r /\ d.buf = c.buf /\ d.fp = c.fp
        /\ d.dirs = c.dirs /\ d.tag = c.tag /\ d.sent = c.sent /\ d.n = c.n /\ d.ans = c.ans
        /\ d.touched = c.touched \cup {p} /\ d.lost = c.lost /\ d.bad = c.bad
    BY <1>4, <2>1 DEF Shape
  <2> HIDE DEF d
  <2>3. Good(d, h'[w])
    <3>1. /\ d.r # None /\ d.r.op = "delete" /\ d.n >= 1 /\ d.ans = "none"
          /\ ~d.buf /\ ~d.fp /\ ~d.bad /\ h'[w].perm = DefPerm
          /\ d.touched \subseteq Inside[d.r.path] /\ d.r.path \notin d.touched
          /\ d.pc \in DeleteSteps \ {"remove", "enter", "unlink"} /\ Shape(d)
          /\ d.pc = "scan" => d.dirs # << >>
      BY <1>4, <1>6, <1>8, <1>10, <2>1, <2>2 DEF DeleteSteps
    <3>2. Inward(d.dirs, d.r.path)
      BY <1>6, <1>7, <2>1, <2>2
    <3> QED
      BY <3>1, <3>2, DeleteGood
  <2>4. EraseStep(w, d, p)
    BY <1>2, <1>4, <1>6, <1>10, <2>1, <2>2 DEF EraseStep, DeleteSteps, q
  <2> QED
    BY <1>1, <1>2, <1>4, <1>10, <2>3, <2>4, GoInv, GoneFs
<1>11. CASE fs' = [fs EXCEPT ![p] = None] /\ up.dirs = << >> /\ Go(w, e)
  <2>1. /\ Shape(a) /\ a.pc = "answer" /\ a.r = up.r /\ a.buf = up.buf /\ a.fp = up.fp
        /\ a.dirs = up.dirs /\ a.tag = up.tag /\ a.sent = up.sent /\ a.n = up.n /\ a.ans = "204"
        /\ a.touched = up.touched /\ a.lost = up.lost /\ a.bad = up.bad
    BY <1>6, AnswerFields, AnswerSet
  <2> HIDE DEF a
  <2>2. /\ Shape(e) /\ e.pc = a.pc /\ e.r = a.r /\ e.buf = a.buf /\ e.fp = a.fp
        /\ e.dirs = a.dirs /\ e.tag = a.tag /\ e.sent = a.sent /\ e.n = a.n /\ e.ans = a.ans
        /\ e.touched = a.touched \cup {p} /\ e.lost = a.lost /\ e.bad = a.bad
    BY <1>4, <2>1 DEF Shape
  <2> HIDE DEF e
  <2>3. Len(ds) = 0
    BY <1>5, <1>6, <1>11
  <2>4. Good(e, h'[w])
    BY <1>2, <1>4, <1>6, <1>7, <1>8, <1>11, <2>1, <2>2, <2>3
       DEF Good, Route, Holding, Effects, ListSteps, GetSteps, PutSteps, CreateSteps,
           DeleteSteps
  <2>5. EraseStep(w, e, p)
    BY <1>2, <1>4, <1>6, <1>11, <2>1, <2>2 DEF EraseStep, DeleteSteps, q
  <2> QED
    BY <1>1, <1>2, <1>4, <1>11, <2>4, <2>5, GoInv, GoneFs
<1> QED
  BY <1>1, <1>9, <1>10, <1>11

LEMMA EnterInv ==
    ASSUME UssInv, NEW w \in Workers, Enter(w) PROVE UssInv' /\ \E n : Quiet(w, n)
<1> DEFINE q == rq[w]
           d == IF q.dirs = << >> THEN P(w) ELSE Last(q.dirs).entry
           m == [q EXCEPT !.pc = "unwind"]
           c == [q EXCEPT !.pc = "scan"]
           n == [c EXCEPT !.dirs = Append(@, Frame(d))]
<1>1. PICK rc \in Codes :
        /\ At(w, "enter") /\ Stay /\ Rc(w, rc) /\ (NoFault \/ Fault)
        /\ Go(w, n) \/ Go(w, m)
  BY RcCodes, CodeSet DEF Enter, Outcome, To, Top
<1>2. /\ Sess(w) /\ h'[w].perm = h[w].perm /\ fs' \in FsType
      /\ Shape(q) /\ Route(q) /\ Holding(q, h[w]) /\ Effects(q)
      /\ q.pc = "enter" /\ q.r.op = "delete" /\ P(w) = q.r.path /\ q.r.path \in Paths
  BY <1>1, StayFs, RcSess, AtStep DEF Route, DeleteSteps
<1>3. q.dirs \in Seq(Frames) /\ Len(q.dirs) \in Nat
  BY <1>2 DEF Shape
<1> HIDE DEF q
<1>4. d \in Paths /\ d \in Inside[q.r.path] /\ (d = q.r.path <=> q.dirs = << >>)
  <2>1. CASE q.dirs = << >>
    BY <1>2, <2>1, InsideSelf
  <2>2. CASE q.dirs # << >>
    <3>1. d = q.dirs[Len(q.dirs)].entry
      BY <1>3, <2>2, DirFrames
    <3>2. d \in Inside[q.r.path] \ {q.r.path}
      BY <1>2, <2>2, <3>1 DEF Effects
    <3> QED
      BY <1>2, <2>2, <3>2, InsideDef
  <2> QED
    BY <2>1, <2>2
<1> HIDE DEF d
<1> DEFINE ds == Append(q.dirs, Frame(d))
<1>5. Frame(d) \in Frames /\ Frame(d).dir = d
  BY <1>4 DEF Frame, Frames
<1>6. /\ ds \in Seq(Frames) /\ Len(ds) = Len(q.dirs) + 1 /\ ds[Len(ds)].dir = d /\ ds # << >>
      /\ \A i \in 1 .. Len(q.dirs) : ds[i] = q.dirs[i]
  BY <1>3, <1>5
<1>7. /\ Shape(c) /\ c.pc = "scan" /\ c.r = q.r /\ c.buf = q.buf /\ c.fp = q.fp
      /\ c.dirs = q.dirs /\ c.tag = q.tag /\ c.sent = q.sent /\ c.n = q.n /\ c.ans = q.ans
      /\ c.touched = q.touched /\ c.lost = q.lost /\ c.bad = q.bad
  BY <1>2, MovedFields, StepSet DEF DeleteSteps
<1>8. /\ Shape(m) /\ m.pc = "unwind" /\ m.r = q.r /\ m.buf = q.buf /\ m.fp = q.fp
      /\ m.dirs = q.dirs /\ m.tag = q.tag /\ m.sent = q.sent /\ m.n = q.n /\ m.ans = q.ans
      /\ m.touched = q.touched /\ m.lost = q.lost /\ m.bad = q.bad
  BY <1>2, MovedFields, StepSet DEF DeleteSteps
<1>9. c.dirs = q.dirs
  BY <1>7
<1>10. n = [c EXCEPT !.dirs = ds]
  BY <1>9
<1> HIDE DEF m, c, ds, n
<1>11. /\ Shape(n) /\ n.pc = c.pc /\ n.r = c.r /\ n.buf = c.buf /\ n.fp = c.fp /\ n.dirs = ds
       /\ n.tag = c.tag /\ n.sent = c.sent /\ n.n = c.n /\ n.ans = c.ans
       /\ n.touched = c.touched /\ n.lost = c.lost /\ n.bad = c.bad
  BY <1>6, <1>7, <1>10, DirsFields
<1>12. Inward(ds, q.r.path)
  <2>1. \A i \in 1 .. Len(q.dirs) : /\ q.dirs[i].dir \in Inside[q.r.path]
                                      /\ (q.dirs[i].dir = q.r.path <=> i = 1)
    BY <1>2, DeleteKnown DEF Inward, DeleteSteps
  <2>2. q.dirs = << >> <=> Len(q.dirs) = 0
    BY <1>3
  <2>3. ASSUME NEW i \in 1 .. Len(ds)
        PROVE  ds[i].dir \in Inside[q.r.path] /\ (ds[i].dir = q.r.path <=> i = 1)
    <3>1. CASE i \in 1 .. Len(q.dirs)
      <4>1. ds[i] = q.dirs[i]
        BY <1>6, <3>1
      <4>2. q.dirs[i].dir \in Inside[q.r.path] /\ (q.dirs[i].dir = q.r.path <=> i = 1)
        BY <2>1, <3>1
      <4> QED
        BY <4>1, <4>2
    <3>2. CASE i = Len(ds)
      BY <1>3, <1>4, <1>6, <2>2, <3>2
    <3> QED
      BY <1>3, <1>6, <3>1, <3>2
  <2> QED
    BY <2>3 DEF Inward
<1>13. CASE Go(w, n)
  <2>1. Good(n, h'[w])
    <3>1. /\ n.r # None /\ n.r.op = "delete" /\ n.n >= 1 /\ n.ans = "none"
          /\ ~n.buf /\ ~n.fp /\ ~n.bad /\ h'[w].perm = DefPerm
          /\ n.touched \subseteq Inside[n.r.path] /\ n.r.path \notin n.touched
          /\ n.pc \in DeleteSteps \ {"remove", "enter", "unlink"} /\ Shape(n)
          /\ n.pc = "scan" => n.dirs # << >>
      BY <1>2, <1>6, <1>7, <1>11, DeleteKnown DEF DeleteSteps
    <3>2. Inward(n.dirs, n.r.path)
      BY <1>7, <1>11, <1>12
    <3> QED
      BY <3>1, <3>2, DeleteGood
  <2>2. Quiet(w, n)
    BY <1>1, <1>2, <1>7, <1>11, <1>13 DEF Quiet, q
  <2> QED
    BY <1>1, <1>2, <1>13, <2>1, <2>2, GoInv
<1>14. CASE Go(w, m)
  <2>1. Good(m, h'[w])
    BY <1>2, <1>8
       DEF Good, Route, Holding, Effects, ListSteps, GetSteps, PutSteps, CreateSteps,
           DeleteSteps
  <2>2. Quiet(w, m)
    BY <1>1, <1>2, <1>8, <1>14 DEF Quiet, q
  <2> QED
    BY <1>1, <1>2, <1>14, <2>1, <2>2, GoInv
<1> QED
  BY <1>1, <1>13, <1>14

LEMMA ScanInv ==
    ASSUME UssInv, NEW w \in Workers, Scan(w) PROVE UssInv' /\ \E n : Quiet(w, n)
<1> DEFINE q == rq[w]
           top == Len(q.dirs)
           left == Entries(Top(w).dir) \ Top(w).seen
           met(e) == [Top(w) EXCEPT !.seen = @ \cup {e}, !.entry = e]
           m == [q EXCEPT !.pc = "rmdir"]
           c(s) == [q EXCEPT !.pc = s]
<1>1. /\ At(w, "scan") /\ Stay /\ (NoFault \/ Fault) /\ Keep(w)
      /\ \/ Go(w, m)
         \/ \E e \in left : \E s \in {"enter", "unlink"} :
              Go(w, [c(s) EXCEPT !.dirs[top] = met(e)])
  BY DEF Scan, To
<1>2. /\ Sess(w) /\ h'[w] = h[w] /\ fs' \in FsType
      /\ Shape(q) /\ Route(q) /\ Holding(q, h[w]) /\ Effects(q)
      /\ q.pc = "scan" /\ q.r.op = "delete" /\ P(w) = q.r.path /\ q.r.path \in Paths
  BY <1>1, StayFs, KeepSess, AtStep DEF Route, DeleteSteps
<1>3. q.dirs \in Seq(Frames) /\ q.dirs # << >> /\ Top(w) = q.dirs[top] /\ top \in Nat \ {0}
  <2>1. q.dirs \in Seq(Frames) /\ q.dirs # << >>
    BY <1>2 DEF Shape, Holding
  <2> QED
    BY <2>1, DirFrames DEF Top
<1>4. CASE Go(w, m)
  <2>1. /\ Shape(m) /\ m.pc = "rmdir" /\ m.r = q.r /\ m.buf = q.buf /\ m.fp = q.fp
        /\ m.dirs = q.dirs /\ m.tag = q.tag /\ m.sent = q.sent /\ m.n = q.n /\ m.ans = q.ans
        /\ m.touched = q.touched /\ m.lost = q.lost /\ m.bad = q.bad
    BY <1>2, MovedFields, StepSet DEF DeleteSteps
  <2> HIDE DEF m
  <2>2. Good(m, h'[w])
    BY <1>2, <2>1
       DEF Good, Route, Holding, Effects, ListSteps, GetSteps, PutSteps, CreateSteps,
           DeleteSteps
  <2>3. Quiet(w, m)
    BY <1>1, <1>2, <1>4, <2>1 DEF Quiet
  <2> QED
    BY <1>1, <1>2, <1>4, <2>2, <2>3, GoInv
<1>5. ASSUME NEW e \in left, NEW s \in {"enter", "unlink"},
             Go(w, [c(s) EXCEPT !.dirs[top] = met(e)])
      PROVE  UssInv' /\ \E n : Quiet(w, n)
  <2> DEFINE b == c(s)
             f == met(e)
             ds == [q.dirs EXCEPT ![top] = f]
             n == [b EXCEPT !.dirs = ds]
  <2>1. e \in Paths /\ Parent[e] = q.dirs[top].dir
    BY <1>3 DEF Entries
  <2>2. /\ Shape(b) /\ b.pc = s /\ b.r = q.r /\ b.buf = q.buf /\ b.fp = q.fp /\ b.dirs = q.dirs
        /\ b.tag = q.tag /\ b.sent = q.sent /\ b.n = q.n /\ b.ans = q.ans
        /\ b.touched = q.touched /\ b.lost = q.lost /\ b.bad = q.bad
    BY <1>2, MovedFields, StepSet DEF DeleteSteps
  <2>3. q.dirs[top] \in Frames
    BY <1>3
  <2>4. f \in Frames /\ f.dir = q.dirs[top].dir /\ f.entry = e
    BY <1>3, <2>1, <2>3 DEF Frames
  <2>5. [b EXCEPT !.dirs[top] = f] = n
    <3>1. b.dirs = q.dirs
      BY <2>2
    <3> HIDE DEF b, q, f
    <3> QED
      BY <3>1
  <2>6. Go(w, n)
    BY <1>5, <2>5
  <2> HIDE DEF b, f
  <2>7. /\ ds \in Seq(Frames) /\ Len(ds) = top /\ ds # << >> /\ ds[top] = f
        /\ \A i \in 1 .. top : ds[i].dir = q.dirs[i].dir
    <3>1. ds \in Seq(Frames) /\ Len(ds) = top /\ ds[top] = f
      BY <1>3, <2>4
    <3>2. \A i \in 1 .. top : ds[i].dir = q.dirs[i].dir
      BY <1>3, <2>4
    <3>3. ds # << >>
      BY <1>3, <3>1
    <3> QED
      BY <3>1, <3>2, <3>3
  <2> HIDE DEF ds
  <2>8. /\ Shape(n) /\ n.pc = b.pc /\ n.r = b.r /\ n.buf = b.buf /\ n.fp = b.fp /\ n.dirs = ds
        /\ n.tag = b.tag /\ n.sent = b.sent /\ n.n = b.n /\ n.ans = b.ans
        /\ n.touched = b.touched /\ n.lost = b.lost /\ n.bad = b.bad
    BY <2>2, <2>7, DirsFields
  <2> HIDE DEF n
  <2>9. e \in Inside[q.r.path] \ {q.r.path}
    <3>1. q.dirs[top].dir \in Inside[q.r.path]
      BY <1>2, <1>3, DeleteKnown DEF Inward, DeleteSteps
    <3> QED
      BY <1>2, <2>1, <3>1, InsideStep
  <2>10. Inward(ds, q.r.path)
    BY <1>2, <1>3, <2>7, DeleteKnown DEF Inward, DeleteSteps
  <2>11. Good(n, h'[w])
    BY <1>2, <2>2, <2>4, <2>7, <2>8, <2>9, <2>10
       DEF Good, Route, Holding, Effects, ListSteps, GetSteps, PutSteps, CreateSteps,
           DeleteSteps
  <2>12. Quiet(w, n)
    BY <1>1, <1>2, <2>2, <2>6, <2>8 DEF Quiet
  <2> QED
    BY <1>1, <1>2, <2>6, <2>11, <2>12, GoInv
<1> QED
  BY <1>1, <1>4, <1>5

LEMMA UnlinkInv ==
    ASSUME UssInv, NEW w \in Workers, Unlink(w)
    PROVE  UssInv' /\ ((\E n : Quiet(w, n)) \/ (\E n, p : EraseStep(w, n, p)))
<1> DEFINE q == rq[w]
           e == Last(q.dirs).entry
           m == [q EXCEPT !.pc = "unwind"]
           c == [q EXCEPT !.pc = "scan"]
           n == [c EXCEPT !.touched = @ \cup {e}]
<1>1. PICK rc \in Codes :
        /\ At(w, "unlink") /\ Rc(w, rc) /\ (NoFault \/ Fault)
        /\ \/ Stay /\ Go(w, m)
           \/ fs' = [fs EXCEPT ![e] = None] /\ Go(w, n)
  <2>1. \E rc \in Refusals \cup {RemoveRc(e)} :
          /\ Rc(w, rc) /\ (NoFault \/ Fault)
          /\ IF rc = "OK" THEN Gone(w, e, c) ELSE Stay /\ Go(w, m)
    BY DEF Unlink, Outcome, To, Top
  <2>2. RemoveRc(e) \in Codes /\ At(w, "unlink")
    BY RcCodes, CodeSet DEF Unlink, RemoveRc
  <2>3. Gone(w, e, c) => fs' = [fs EXCEPT ![e] = None] /\ Go(w, n)
    BY DEF Gone
  <2> HIDE DEF e, m, c, n
  <2> QED
    BY <2>1, <2>2, <2>3, CodeSet
<1>2. /\ Sess(w) /\ h'[w].perm = h[w].perm /\ fs \in FsType
      /\ Shape(q) /\ Route(q) /\ Holding(q, h[w]) /\ Effects(q)
      /\ q.pc = "unlink" /\ q.r.op = "delete" /\ q.r.path \in Paths
  BY <1>1, Typed, RcSess, AtStep DEF Route, DeleteSteps
<1>3. q.dirs \in Seq(Frames) /\ q.dirs # << >>
  BY <1>2 DEF Shape, Holding
<1>4. e \in Paths /\ e \in Inside[q.r.path] /\ e # q.r.path
  <2>1. e = q.dirs[Len(q.dirs)].entry
    BY <1>3, DirFrames
  <2>2. e \in Inside[q.r.path] \ {q.r.path}
    BY <1>2, <1>3, <2>1 DEF Effects
  <2> QED
    BY <1>2, <2>2, InsideDef
<1> HIDE DEF e
<1>5. /\ Shape(c) /\ c.pc = "scan" /\ c.r = q.r /\ c.buf = q.buf /\ c.fp = q.fp
      /\ c.dirs = q.dirs /\ c.tag = q.tag /\ c.sent = q.sent /\ c.n = q.n /\ c.ans = q.ans
      /\ c.touched = q.touched /\ c.lost = q.lost /\ c.bad = q.bad
  BY <1>2, MovedFields, StepSet DEF DeleteSteps
<1>6. /\ Shape(m) /\ m.pc = "unwind" /\ m.r = q.r /\ m.buf = q.buf /\ m.fp = q.fp
      /\ m.dirs = q.dirs /\ m.tag = q.tag /\ m.sent = q.sent /\ m.n = q.n /\ m.ans = q.ans
      /\ m.touched = q.touched /\ m.lost = q.lost /\ m.bad = q.bad
  BY <1>2, MovedFields, StepSet DEF DeleteSteps
<1> HIDE DEF m, c
<1>7. /\ Shape(n) /\ n.pc = c.pc /\ n.r = c.r /\ n.buf = c.buf /\ n.fp = c.fp /\ n.dirs = c.dirs
      /\ n.tag = c.tag /\ n.sent = c.sent /\ n.n = c.n /\ n.ans = c.ans
      /\ n.touched = c.touched \cup {e} /\ n.lost = c.lost /\ n.bad = c.bad
  BY <1>4, <1>5 DEF Shape
<1> HIDE DEF n
<1>8. CASE Stay /\ Go(w, m)
  <2>1. Good(m, h'[w])
    BY <1>2, <1>6
       DEF Good, Route, Holding, Effects, ListSteps, GetSteps, PutSteps, CreateSteps,
           DeleteSteps
  <2>2. Quiet(w, m)
    BY <1>2, <1>6, <1>8 DEF Quiet
  <2> QED
    BY <1>1, <1>2, <1>8, <2>1, <2>2, GoInv, StayFs
<1>9. CASE fs' = [fs EXCEPT ![e] = None] /\ Go(w, n)
  <2>1. Good(n, h'[w])
    BY <1>2, <1>3, <1>4, <1>5, <1>7
       DEF Good, Route, Holding, Effects, ListSteps, GetSteps, PutSteps, CreateSteps,
           DeleteSteps
  <2>2. EraseStep(w, n, e)
    BY <1>2, <1>4, <1>5, <1>7, <1>9 DEF EraseStep, DeleteSteps
  <2> QED
    BY <1>1, <1>2, <1>4, <1>9, <2>1, <2>2, GoInv, GoneFs
<1> QED
  BY <1>1, <1>8, <1>9

LEMMA UnwindInv ==
    ASSUME UssInv, NEW w \in Workers, Unwind(w) PROVE UssInv' /\ \E n : Quiet(w, n)
<1> DEFINE q == rq[w]
           m == [q EXCEPT !.dirs = Front(q.dirs)]
           a == Http(h[w].rc)
<1>1. /\ At(w, "unwind") /\ Stay /\ NoFault /\ Keep(w)
      /\ \/ q.dirs # << >> /\ Go(w, m)
         \/ q.dirs = << >> /\ Go(w, Answer(q, a))
  BY DEF Unwind
<1>2. /\ Sess(w) /\ h'[w] = h[w] /\ fs' \in FsType
      /\ Shape(q) /\ Route(q) /\ Holding(q, h[w]) /\ Effects(q)
      /\ q.pc = "unwind" /\ q.r.op = "delete" /\ q.r.path \in Paths
  BY <1>1, StayFs, KeepSess, AtStep DEF Route, DeleteSteps
<1>3. CASE q.dirs # << >> /\ Go(w, m)
  <2> DEFINE ds == Front(q.dirs)
  <2>1. q.dirs \in Seq(Frames)
    BY <1>2 DEF Shape
  <2>2. /\ ds \in Seq(Frames) /\ Len(ds) = Len(q.dirs) - 1 /\ Len(q.dirs) \in Nat \ {0}
        /\ \A i \in 1 .. Len(q.dirs) - 1 : ds[i] = q.dirs[i]
    BY <1>3, <2>1, DirFrames
  <2> HIDE DEF ds
  <2>3. /\ Shape(m) /\ m.pc = q.pc /\ m.r = q.r /\ m.buf = q.buf /\ m.fp = q.fp /\ m.dirs = ds
        /\ m.tag = q.tag /\ m.sent = q.sent /\ m.n = q.n /\ m.ans = q.ans
        /\ m.touched = q.touched /\ m.lost = q.lost /\ m.bad = q.bad
    BY <1>2, <2>2, DirsFields DEF ds
  <2> HIDE DEF m
  <2>4. Inward(ds, q.r.path)
    <3>1. Inward(q.dirs, q.r.path)
      BY <1>2, DeleteKnown DEF DeleteSteps
    <3>2. \A i \in 1 .. Len(ds) : i \in 1 .. Len(q.dirs) /\ ds[i] = q.dirs[i]
      BY <2>2
    <3> QED
      BY <3>1, <3>2 DEF Inward
  <2>5. Good(m, h'[w])
    <3>1. /\ m.r # None /\ m.r.op = "delete" /\ m.n >= 1 /\ m.ans = "none"
          /\ ~m.buf /\ ~m.fp /\ ~m.bad /\ h'[w].perm = DefPerm
          /\ m.touched \subseteq Inside[m.r.path] /\ m.r.path \notin m.touched
          /\ m.pc \in DeleteSteps \ {"remove", "enter", "unlink"} /\ Shape(m)
          /\ m.pc = "scan" => m.dirs # << >>
      BY <1>2, <2>3, DeleteKnown DEF DeleteSteps
    <3>2. Inward(m.dirs, m.r.path)
      BY <2>3, <2>4
    <3> QED
      BY <3>1, <3>2, DeleteGood
  <2>6. Quiet(w, m)
    BY <1>1, <1>2, <1>3, <2>3 DEF Quiet
  <2> QED
    BY <1>1, <1>2, <1>3, <2>5, <2>6, GoInv
<1>4. CASE q.dirs = << >> /\ Go(w, Answer(q, a))
  <2>1. a \in {"200", "400", "404", "500"}
    BY HttpAnswers
  <2> HIDE DEF a
  <2>2. Good(Answer(q, a), h'[w])
    BY <1>2, <1>4, <2>1, AnswerGood, AnswerSet
       DEF Route, Holding, Effects, ListSteps, GetSteps, PutSteps, CreateSteps, DeleteSteps
  <2> DEFINE n == Answer(q, a)
  <2>3. /\ Shape(n) /\ n.pc = "answer" /\ n.r = q.r /\ n.buf = q.buf /\ n.fp = q.fp
        /\ n.dirs = q.dirs /\ n.tag = q.tag /\ n.sent = q.sent /\ n.n = q.n /\ n.ans = a
        /\ n.touched = q.touched /\ n.lost = q.lost /\ n.bad = q.bad
    BY <1>2, <2>1, AnswerFields, AnswerSet
  <2> HIDE DEF n
  <2>4. Quiet(w, n)
    BY <1>1, <1>2, <1>4, <2>3 DEF Quiet, n
  <2> QED
    BY <1>1, <1>2, <1>4, <2>2, <2>4, GoInv
<1> QED
  BY <1>1, <1>3, <1>4

-----------------------------------------------------------------------------
(* The ends of a request, and the first invariant. *)

\* What a connection has between two requests, and a request starts with.
LEMMA Idle ==
    LET q == NoRequest IN
    /\ Shape(q) /\ q.pc = "idle" /\ q.r = None /\ q.buf = FALSE /\ q.fp = FALSE /\ q.dirs = << >>
    /\ q.tag = None /\ q.sent = << >> /\ q.n = 0 /\ q.ans = "none" /\ q.touched = {}
    /\ q.rows = << >> /\ q.lost = FALSE /\ q.bad = FALSE
<1> DEFINE q == NoRequest
<1>1. /\ q.pc = "idle" /\ q.r = None /\ q.buf = FALSE /\ q.fp = FALSE /\ q.dirs = << >>
      /\ q.tag = None /\ q.sent = << >> /\ q.n = 0 /\ q.ans = "none" /\ q.touched = {}
      /\ q.rows = << >> /\ q.lost = FALSE /\ q.bad = FALSE
  BY DEF NoRequest
<1>2. << >> \in Seq(Frames) /\ << >> \in Seq(Versions \X Nat) /\ 0 \in Versions
  BY Bounds DEF Versions
<1>3. "idle" \in Steps /\ "none" \in Answers
  BY DEF Steps, Answers
<1>4. Shape(q)
  BY <1>2, <1>3 DEF Shape, NoRequest
<1> QED
  BY <1>1, <1>4

ReceiveStep(w, n) ==
    /\ rq' = [rq EXCEPT ![w] = n] /\ UNCHANGED <<fs, held>> /\ count' = count + 1
    /\ rq[w].pc = "idle" /\ n.pc \in {"answer", "body", "ufs"} /\ n.ans \in {"none", "400"}
    /\ n.n = count + 1 /\ n.tag = None /\ n.sent = << >> /\ n.rows = << >> /\ n.lost = FALSE

LEMMA ReceiveInv ==
    ASSUME UssInv, NEW w \in Workers, Receive(w) PROVE UssInv' /\ \E n : ReceiveStep(w, n)
<1>1. PICK r \in Requests :
        LET q == [NoRequest EXCEPT !.r = r, !.n = count + 1]
        IN  rq' = [rq EXCEPT ![w] =
              IF r.flaw = "early" THEN Answer(q, "400")
              ELSE [q EXCEPT !.pc = IF r.op \in {"put", "create", "util"} THEN "body" ELSE "ufs"]]
  BY DEF Receive
<1> DEFINE q == [NoRequest EXCEPT !.r = r, !.n = count + 1]
           s == IF r.op \in {"put", "create", "util"} THEN "body" ELSE "ufs"
           a == Answer(q, "400")
           m == [q EXCEPT !.pc = s]
<1>2. /\ At(w, "idle") /\ count < MaxRequests /\ count' = count + 1
      /\ UNCHANGED <<fs, h, held, faults>>
  BY DEF Receive
<1>3. /\ count \in Nat /\ count + 1 \in Versions /\ count + 1 >= 1
  BY <1>2, Bounds DEF UssInv, Types, Versions
<1>4. Types'
  BY <1>2, <1>3, Bounds DEF UssInv, Types
<1>5. h[w].perm = DefPerm /\ r # None /\ rq[w].pc = "idle"
  BY <1>2, Typed, Bounds DEF Holding, At
<1>6. /\ Shape(q) /\ q.pc = "idle" /\ q.r = r /\ ~q.buf /\ ~q.fp /\ q.dirs = << >>
      /\ q.tag = None /\ q.sent = << >> /\ q.n = count + 1 /\ q.ans = "none" /\ q.touched = {}
      /\ q.rows = << >> /\ q.lost = FALSE /\ ~q.bad
  BY <1>3, Idle DEF Shape
<1>7. Inward(q.dirs, q.r.path)
  BY <1>6 DEF Inward
<1> HIDE DEF q
<1>8. /\ Shape(m) /\ m.pc = s /\ m.r = q.r /\ m.buf = q.buf /\ m.fp = q.fp /\ m.dirs = q.dirs
      /\ m.tag = q.tag /\ m.sent = q.sent /\ m.n = q.n /\ m.ans = q.ans /\ m.touched = q.touched
      /\ m.rows = q.rows /\ m.lost = q.lost /\ m.bad = q.bad
  BY <1>6, MovedFields, StepSet
<1>9. /\ Shape(a) /\ a.pc = "answer" /\ a.r = q.r /\ a.buf = q.buf /\ a.fp = q.fp
      /\ a.dirs = q.dirs /\ a.tag = q.tag /\ a.sent = q.sent /\ a.n = q.n /\ a.ans = "400"
      /\ a.touched = q.touched /\ a.rows = q.rows /\ a.lost = q.lost /\ a.bad = q.bad
  BY <1>6, AnswerFields, AnswerSet
<1>10. s \in {"body", "ufs"} /\ (s = "body" <=> r.op \in {"put", "create", "util"})
  OBVIOUS
<1> HIDE DEF s, m, a
<1>11. Good(m, h[w])
  BY <1>3, <1>5, <1>6, <1>7, <1>8, <1>10
     DEF Good, Route, Holding, Effects, ListSteps, GetSteps, PutSteps, CreateSteps, DeleteSteps
<1>12. Good(a, h[w])
  BY <1>3, <1>5, <1>6, <1>7, <1>9
     DEF Good, Route, Holding, Effects, ListSteps, GetSteps, PutSteps, CreateSteps, DeleteSteps
<1>13. PICK n : n \in {a, m} /\ rq' = [rq EXCEPT ![w] = n]
  BY <1>1 DEF a, m, q, s
<1>14. Good(n, h'[w])
  BY <1>2, <1>11, <1>12, <1>13
<1>15. ReceiveStep(w, n)
  BY <1>2, <1>5, <1>6, <1>8, <1>9, <1>10, <1>13 DEF ReceiveStep
<1> QED
  BY <1>2, <1>4, <1>13, <1>14, <1>15, StepInv

FinishStep(w, n) ==
    LET q == rq[w] IN
    /\ rq' = [rq EXCEPT ![w] = n] /\ UNCHANGED <<fs, count>>
    /\ q.pc = "answer" /\ n.pc = "idle" /\ n.tag = None /\ n.n = 0
    /\ \/ held' = held
       \/ /\ held' = [held EXCEPT ![w] = [tag |-> q.tag, by |-> q.r.op, path |-> q.r.path,
                                           read |-> Range(q.sent)]]
          /\ q.ans \in {"200", "204"} /\ q.tag # None

LEMMA FinishInv ==
    ASSUME UssInv, NEW w \in Workers, Finish(w) PROVE UssInv' /\ \E n : FinishStep(w, n)
<1> DEFINE q == rq[w]
           n == [NoRequest EXCEPT !.buf = q.buf, !.fp = q.fp, !.dirs = q.dirs]
           t == [tag |-> q.tag, by |-> q.r.op, path |-> q.r.path, read |-> Range(q.sent)]
<1>1. /\ At(w, "answer") /\ UNCHANGED <<fs, h, count, faults>> /\ rq' = [rq EXCEPT ![w] = n]
      /\ \/ held' = held
         \/ held' = [held EXCEPT ![w] = t] /\ q.ans \in {"200", "204"} /\ q.tag # None
  <2>1. /\ At(w, "answer") /\ UNCHANGED <<fs, h, count, faults>> /\ rq' = [rq EXCEPT ![w] = n]
        /\ held' = [held EXCEPT ![w] = IF q.ans \in {"200", "204"} /\ q.tag # None
                                       THEN t ELSE held[w]]
    BY DEF Finish, R, P
  <2>2. [held EXCEPT ![w] = held[w]] = held
    BY DEF UssInv, Types
  <2> QED
    BY <2>1, <2>2
<1>2. /\ Shape(q) /\ Route(q) /\ Holding(q, h[w]) /\ q.pc = "answer"
      /\ q.r \in Requests /\ q.r.path \in Paths
  BY <1>1, AtStep
<1>3. ~q.buf /\ ~q.fp /\ q.dirs = << >> /\ h[w].perm = DefPerm
  BY <1>2 DEF Holding, PutSteps, DeleteSteps, Shape
<1>4. q.tag \in Contents \cup {None} /\ q.sent \in Seq(Versions \X Nat)
  BY <1>2 DEF Shape
<1>5. t \in Stamp
  <2>1. Range(q.sent) \in SUBSET (Versions \X Nat)
    BY <1>4 DEF Range
  <2>2. q.r.op \in {"get", "put", "list", "create", "delete", "util", None}
    BY <1>2, Asked
  <2> QED
    BY <1>2, <1>4, <2>1, <2>2 DEF Stamp
<1>6. Types'
  BY <1>1, <1>5 DEF UssInv, Types
<1>7. q.buf = FALSE /\ q.fp = FALSE
  BY <1>2, <1>3 DEF Shape
<1>8. n = [NoRequest EXCEPT !.buf = FALSE, !.fp = FALSE, !.dirs = << >>]
  BY <1>3, <1>7
<1>9. /\ Shape(n) /\ n.pc = "idle" /\ n.r = None /\ ~n.buf /\ ~n.fp /\ n.dirs = << >>
      /\ n.tag = None /\ n.n = 0 /\ n.ans = "none" /\ n.touched = {} /\ ~n.bad
  <2>1. << >> \in Seq(Frames)
    OBVIOUS
  <2> QED
    BY <1>8, <2>1, Idle DEF Shape
<1> HIDE DEF n
<1>10. Good(n, h[w])
  BY <1>3, <1>9
     DEF Good, Route, Holding, Effects, ListSteps, GetSteps, PutSteps, CreateSteps, DeleteSteps
<1>11. FinishStep(w, n)
  BY <1>1, <1>2, <1>9 DEF FinishStep
<1> QED
  BY <1>1, <1>6, <1>10, <1>11, StepInv

LEMMA StutterInv == ASSUME UssInv, UNCHANGED vars PROVE UssInv'
BY DEF UssInv, Types, vars

LEMMA UssInit == ASSUME Init PROVE UssInv
<1>1. Types
  <2>1. NoStamp \in Stamp
    BY Bounds DEF NoStamp, Stamp
  <2>2. [rc |-> "OK", perm |-> DefPerm] \in [rc : Codes, perm : Perms]
    BY Bounds DEF Codes
  <2>3. Start0 \in [Paths -> Node \cup {None}]
    BY UssAssumption, Zenon
  <2> QED
    BY <2>1, <2>2, <2>3, Bounds DEF Init, Types
<1>2. ASSUME NEW w \in Workers PROVE Good(rq[w], h[w])
  <2> DEFINE n == NoRequest
  <2>1. /\ Shape(n) /\ n.pc = "idle" /\ n.r = None /\ ~n.buf /\ ~n.fp /\ n.dirs = << >>
        /\ n.tag = None /\ n.n = 0 /\ n.ans = "none" /\ n.touched = {} /\ ~n.bad
    BY Idle
  <2>2. rq[w] = n /\ h[w].perm = DefPerm
    BY DEF Init
  <2> HIDE DEF n
  <2> QED
    BY <2>1, <2>2
       DEF Good, Route, Holding, Effects, ListSteps, GetSteps, PutSteps, CreateSteps,
           DeleteSteps
<1>3. rq = [w \in Workers |-> rq[w]]
  BY DEF Init
<1> QED
  BY <1>1, <1>2, <1>3 DEF UssInv

LEMMA UssNext == ASSUME UssInv, [Next]_vars PROVE UssInv'
<1>1. ASSUME NEW w \in Workers, Step(w) PROVE UssInv'
  BY <1>1, ReceiveInv, PutBodyInv, CreateBodyInv, UtilBodyInv, GetUfsInv, DirOpenInv, DirReadInv,
      StatInv, HashInv, GetOpenInv, ReadInv, MatchInv, MatchProbeInv, PutOpenInv, PutWriteInv,
      PutCloseInv, PutStampInv, SetPermInv, CreateExistsInv, MakeInv, RemoveFileInv, RmdirInv,
      EnterInv, ScanInv, UnlinkInv, UnwindInv, FinishInv, Zenon DEF Step
<1> QED
  BY <1>1, StutterInv DEF Next, Finished

\* In every state the program reaches, what each worker holds (body, file, directory stack,
\* saved permission) is what the step of the handler it stands at implies, and what it has
\* touched is within what it was asked to touch (ussapi.c, all handlers): the inductive
\* invariant of the session, refusal and delete properties.
THEOREM UssInvariant == Spec => []UssInv
BY UssInit, UssNext, PTL DEF Spec

\* Whatever a request did and wherever it failed, the next one on the connection finds the
\* session as it was: body freed, file and directories closed, create permission restored
\* (ussPutHandler, ussCreateHandler, uss_recursive_delete).
THEOREM SessionIsClean == Spec => []SessionClean
<1>1. ASSUME UssInv PROVE SessionClean
  <2>1. TypeOK
    <3>1. ASSUME NEW w \in Workers
          PROVE  /\ rq[w].pc \in Steps /\ rq[w].ans \in Answers
                 /\ rq[w].pc = "answer" <=> rq[w].ans # "none"
                 /\ rq[w].touched \subseteq Paths
                 /\ rq[w].tag \in Contents \cup {None} /\ held[w].tag \in Contents \cup {None}
      BY <1>1, Typed DEF Shape, Route, Stamp
    <3> QED
      BY <1>1, <3>1 DEF UssInv, Types, TypeOK
  <2>2. NothingHeld
    BY <1>1, Typed DEF NothingHeld, At, Holding, Shape, PutSteps, DeleteSteps
  <2>3. PermRestored
    BY <1>1, Typed DEF PermRestored, R, Holding, Route, CreateSteps
  <2> QED
    BY <2>1, <2>2, <2>3 DEF SessionClean
<1> QED
  BY <1>1, UssInvariant, PTL

\* A write or create that is refused has changed nothing: the precondition, the body and the
\* session come before the truncating open, and what fails behind it is the write itself
\* (ussPutHandler, ussCreateHandler).
THEOREM RefusalsAreSilent == Spec => []RefusalIsSilent
<1>1. ASSUME UssInv PROVE RefusalIsSilent
  <2>1. SUFFICES ASSUME NEW w \in Workers, At(w, "answer"), R(w).op # "delete",
                        rq[w].ans \notin {"201", "204"},
                        ~rq[w].bad \/ rq[w].ans \in {"412", "413", "503"}
                 PROVE  rq[w].touched = {}
    BY DEF RefusalIsSilent
  <2>2. /\ rq[w].pc = "answer" /\ R(w) = rq[w].r
        /\ Holding(rq[w], h[w]) /\ Effects(rq[w])
    BY <1>1, <2>1, AtStep
  <2>3. ~rq[w].bad
    BY <2>1, <2>2 DEF Holding
  <2> QED
    BY <2>1, <2>2, <2>3 DEF Effects
<1> QED
  BY <1>1, UssInvariant, PTL

\* A delete says it is done exactly when it has removed what it was asked to remove, and it
\* never removes anything outside of that, however others change the tree under its
\* recursion (ussDeleteHandler, uss_recursive_delete).
THEOREM DeletesAreTruthful == Spec => []DeleteTruthful
<1>1. ASSUME UssInv PROVE DeleteTruthful
  BY <1>1, Typed DEF DeleteTruthful, At, R, P, Effects, Route
<1> QED
  BY <1>1, UssInvariant, PTL

-----------------------------------------------------------------------------
(* Contents: what one step does to them. *)

\* A request goes on or a new one begins, and the tree changes only where the request
\* may change it: a path goes, is made anew, or gets the content of the request.
Progress(w, n) ==
    LET q == rq[w] IN
    /\ rq' = [rq EXCEPT ![w] = n]
    /\ n.pc # "idle" =>
         \/ q.pc = "idle" /\ n.n = count + 1 /\ count' = count + 1
         \/ /\ q.pc \notin {"idle", "answer"} /\ n.n = q.n /\ n.r = q.r /\ count' = count
            /\ q.pc = "close" => n.pc = "stamp"
            /\ q.pc = "stamp" => n.pc = "answer"
    /\ n.pc = "idle" => count' = count /\ n.n = 0
    /\ \A p \in Paths : fs'[p] # fs[p] /\ fs'[p] # None =>
         /\ q.pc # "idle"
         /\ \/ fs'[p].kind = "dir" /\ fs'[p].v = 0 /\ fs'[p].len = 0
            \/ /\ fs'[p].kind = "file" /\ fs'[p].v = q.n /\ p = q.r.path
               /\ \/ fs'[p].len = 0
                  \/ q.r.op = "put" /\ q.pc = "write"
                  \/ q.r.op = "put" /\ q.pc = "close" /\ fs'[p].len = q.r.len - 1

LEMMA NumberedKept ==
    ASSUME UssInv, UssInv', TraceInv, NEW w \in Workers, NEW n, Progress(w, n)
    PROVE  Numbered(fs', rq', count')
<1>1. /\ \A u \in Workers : rq[u].n \in Nat /\ rq'[u].n \in Nat
      /\ \A u \in Workers : rq[u].pc # "idle" => rq[u].n >= 1
      /\ \A u \in Workers : rq'[u].pc # "idle" => rq'[u].n >= 1
  BY Bounds DEF UssInv, Good, Shape, Route, Versions
<1>2. /\ count \in Nat /\ count' \in Nat
      /\ \A p \in Paths : fs[p] # None => fs[p].v \in Nat
  BY Bounds DEF UssInv, Types, Node, Versions
<1>3. /\ rq'[w] = n /\ \A u \in Workers : u # w => rq'[u] = rq[u]
  BY DEF Progress, UssInv
<1>4. Numbered(fs, rq, count) /\ count' >= count
  BY <1>2 DEF TraceInv, Progress
<1>5. \A u \in Workers : rq'[u].n <= count'
  BY <1>1, <1>2, <1>3, <1>4 DEF Progress, Numbered
<1>6. ASSUME NEW v \in Workers, NEW u \in Workers, rq'[v].pc # "idle", rq'[v].n = rq'[u].n
      PROVE  v = u
  BY <1>1, <1>2, <1>3, <1>4, <1>6 DEF Progress, Numbered
<1>7. ASSUME NEW p \in Paths, fs'[p] # None
      PROVE  fs'[p].v <= count' /\ (fs'[p].kind = "dir" => fs'[p].v = 0)
  BY <1>1, <1>2, <1>4, <1>7 DEF Progress, Numbered
<1> QED
  BY <1>5, <1>6, <1>7 DEF Numbered

LEMMA WrittenKept ==
    ASSUME UssInv, UssInv', TraceInv, NEW w \in Workers, NEW n, Progress(w, n),
           NEW u \in Workers, u # w
    PROVE  Written(fs', rq'[u])
<1>1. rq'[u] = rq[u] /\ rq[u].n \in Nat /\ rq[w].n \in Nat /\ (rq[u].pc # "idle" => rq[u].n >= 1)
  BY Bounds DEF Progress, UssInv, Good, Shape, Route, Versions
<1>2. Written(fs, rq[u]) /\ Numbered(fs, rq, count)
  BY DEF TraceInv
<1> SUFFICES ASSUME rq[u].pc # "idle", NEW p \in Paths, fs'[p] # None, fs'[p].v = rq[u].n
             PROVE  fs'[p] = fs[p]
  BY <1>1, <1>2 DEF Written
<1> QED
  BY <1>1, <1>2 DEF Progress, Numbered

\* A content that is gone is gone for good.
LEMMA Persist ==
    ASSUME UssInv, UssInv', TraceInv, NEW w \in Workers, NEW n, Progress(w, n),
           NEW p \in Paths, NEW tag \in Contents, tag[1] <= count, tag[2] > 0
    PROVE  /\ Over(fs, rq, p, tag) => Over(fs', rq', p, tag)
           /\ Has(fs, p, tag) => Has(fs', p, tag) \/ Over(fs', rq', p, tag)
<1>1. rq'[w] = n /\ \A u \in Workers : u # w => rq'[u] = rq[u]
  BY DEF Progress, UssInv
<1>2. /\ \A u \in Workers : Written(fs, rq[u])
      /\ Numbered(fs, rq, count)
  BY DEF TraceInv
<1>3. count \in Nat /\ tag[1] \in Nat /\ tag[2] \in Nat
  BY Bounds DEF UssInv, Types, Contents, Versions, Chunks
<1>4. \A u \in Workers : rq[u].pc # "idle" => rq[u].r.len \in Nat
  BY Asked, Bounds DEF UssInv, Good, Shape, Route, Chunks
<1>5. ASSUME NEW u \in Workers, rq'[u].pc # "idle", rq'[u].n = tag[1]
      PROVE  rq[u].pc # "idle" /\ rq[u].n = tag[1] /\ rq'[u].r = rq[u].r
  BY <1>1, <1>3, <1>5 DEF Progress
<1>6. ASSUME Over(fs, rq, p, tag) PROVE Over(fs', rq', p, tag)
  <2>1. ASSUME NEW u \in Workers, rq'[u].pc # "idle", rq'[u].n = tag[1], rq'[u].r.op = "put"
        PROVE  /\ rq'[u].pc \in {"close", "stamp", "answer"}
               /\ rq'[u].pc = "close" => rq'[u].r.len - 1 # tag[2]
    <3>1. rq[u].pc # "idle" /\ rq[u].n = tag[1] /\ rq'[u].r = rq[u].r
      BY <1>5, <2>1
    <3>2. /\ rq[u].pc \in {"close", "stamp", "answer"}
          /\ rq[u].pc = "close" => rq[u].r.len - 1 # tag[2]
      BY <1>6, <2>1, <3>1 DEF Over
    <3> QED
      BY <1>1, <2>1, <3>1, <3>2 DEF Progress
  <2>2. ~Has(fs', p, tag)
    <3>1. SUFFICES ASSUME Has(fs', p, tag), fs'[p] # fs[p] PROVE FALSE
      BY <1>6 DEF Over, Has
    <3>2. /\ rq[w].pc # "idle" /\ rq[w].n = tag[1] /\ rq[w].r.op = "put"
          /\ rq[w].pc = "write" \/ (rq[w].pc = "close" /\ rq[w].r.len - 1 = tag[2])
      BY <1>3, <3>1 DEF Progress, Has
    <3> QED
      BY <1>6, <3>2 DEF Over
  <2> QED
    BY <2>1, <2>2 DEF Over
<1>7. ASSUME Has(fs, p, tag), ~Has(fs', p, tag) PROVE Over(fs', rq', p, tag)
  <2>1. ASSUME NEW u \in Workers, rq'[u].pc # "idle", rq'[u].n = tag[1], rq'[u].r.op = "put"
        PROVE  /\ rq'[u].pc \in {"close", "stamp", "answer"}
               /\ rq'[u].pc = "close" => rq'[u].r.len - 1 # tag[2]
    <3>1. rq[u].pc # "idle" /\ rq[u].n = tag[1] /\ rq'[u].r = rq[u].r
      BY <1>5, <2>1
    <3>2. /\ rq[u].pc \in {"close", "stamp", "answer"}
          /\ rq[u].pc = "close" => rq[u].r.len = tag[2]
      BY <1>2, <1>3, <1>7, <2>1, <3>1 DEF Written, Has
    <3> QED
      BY <1>1, <1>3, <1>4, <2>1, <3>1, <3>2 DEF Progress
  <2> QED
    BY <1>7, <2>1 DEF Over
<1> QED
  BY <1>6, <1>7

LEMMA ReadingKept ==
    ASSUME UssInv, UssInv', TraceInv, NEW w \in Workers, NEW n, Progress(w, n),
           NEW u \in Workers, u # w
    PROVE  Reading(fs', rq', count', rq'[u])
<1> DEFINE q == rq[u]
<1>1. rq'[u] = q
  BY DEF Progress, UssInv
<1>2. Reading(fs, rq, count, q)
  BY DEF TraceInv
<1>3. count \in Nat /\ count' \in Nat /\ count <= count'
  BY Bounds DEF Progress, UssInv, Types
<1>4. q.tag \in Contents \cup {None} /\ (q.pc # "idle" => q.r.path \in Paths)
  BY Typed, Asked DEF Shape, Route
<1> HIDE DEF q
<1>5. q.tag # None => q.tag[1] <= count /\ q.tag[1] <= count'
  BY <1>2, <1>3, <1>4 DEF Reading, Contents, Versions
<1>6. ASSUME q.pc # "idle", q.r.op = "get", q.tag # None, q.tag[2] > 0
      PROVE  /\ Over(fs, rq, q.r.path, q.tag) => Over(fs', rq', q.r.path, q.tag)
             /\ Has(fs, q.r.path, q.tag) =>
                  Has(fs', q.r.path, q.tag) \/ Over(fs', rq', q.r.path, q.tag)
  BY <1>4, <1>5, <1>6, Persist
<1>7. Reading(fs', rq', count', q)
  BY <1>2, <1>5, <1>6 DEF Reading
<1> QED
  BY <1>1, <1>7

LEMMA HeldKept ==
    ASSUME UssInv, UssInv', TraceInv, NEW w \in Workers, NEW n, Progress(w, n),
           NEW u \in Workers, held'[u] = held[u]
    PROVE  Held(fs', rq', count', held'[u])
<1> DEFINE s == held[u]
<1>1. Held(fs, rq, count, s)
  BY DEF TraceInv
<1>2. count \in Nat /\ count' \in Nat /\ count <= count'
  BY Bounds DEF Progress, UssInv, Types
<1>3. s.tag \in Contents \cup {None}
  BY Typed DEF Stamp
<1> HIDE DEF s
<1>4. ASSUME s.tag # None, s.by = "get"
      PROVE  /\ s.path \in Paths /\ s.tag[1] <= count /\ s.tag[1] <= count'
  BY <1>1, <1>2, <1>3, <1>4 DEF Held, Contents, Versions
<1>5. ASSUME s.tag # None, s.by = "get", s.tag[2] > 0
      PROVE  Over(fs, rq, s.path, s.tag) => Over(fs', rq', s.path, s.tag)
  BY <1>3, <1>4, <1>5, Persist
<1>6. Held(fs', rq', count', s)
  BY <1>1, <1>4, <1>5 DEF Held
<1> QED
  BY <1>6 DEF s

\* A step keeps the second invariant when it keeps it of its own request.
LEMMA TraceStep ==
    ASSUME UssInv, UssInv', TraceInv, NEW w \in Workers, NEW n, Progress(w, n),
           Written(fs', n), Reading(fs', rq', count', n),
           held' = held \/ /\ Held(fs', rq', count', held'[w])
                           /\ \A u \in Workers : u # w => held'[u] = held[u]
    PROVE  TraceInv'
<1>1. rq'[w] = n
  BY DEF Progress, UssInv
<1>2. Numbered(fs', rq', count')
  BY NumberedKept
<1>3. ASSUME NEW u \in Workers
      PROVE  /\ Written(fs', rq'[u]) /\ Reading(fs', rq', count', rq'[u])
             /\ Held(fs', rq', count', held'[u])
  <2>1. CASE u = w
    BY <1>1, <2>1, HeldKept
  <2>2. CASE u # w
    BY <2>2, WrittenKept, ReadingKept, HeldKept
  <2> QED
    BY <2>1, <2>2
<1> QED
  BY <1>2, <1>3 DEF TraceInv

-----------------------------------------------------------------------------
(* Contents: the steps one by one. *)

\* What the invariants say of the request that takes a step.
LEMMA Own ==
    ASSUME UssInv, TraceInv, NEW w \in Workers
    PROVE  /\ Written(fs, rq[w]) /\ Reading(fs, rq, count, rq[w]) /\ Held(fs, rq, count, held[w])
           /\ Numbered(fs, rq, count) /\ count \in Nat /\ rq[w].n \in Nat
           /\ rq[w].tag \in Contents \cup {None}
           /\ rq[w].pc # "idle" => /\ rq[w].r.path \in Paths /\ rq[w].r.len \in Nat
                                   /\ rq[w].r \in Requests /\ rq[w].n >= 1
<1>1. rq[w].pc # "idle" => rq[w].r \in Requests /\ rq[w].n >= 1
  BY Typed DEF Shape, Route
<1> QED
  BY <1>1, Typed, Asked, Bounds DEF TraceInv, UssInv, Types, Shape, Versions, Chunks

\* A stamp that was taken stands for the content as it stands.
LEMMA StampOfNow ==
    ASSUME UssInv, TraceInv, NEW p \in Paths, NEW ok, NEW tag, tag = Hashed(p, ok), tag # None
    PROVE  tag \in Contents /\ tag[1] <= count /\ Has(fs, p, tag)
<1>1. /\ tag \in Contents /\ fs[p] # None /\ fs[p] \in Node /\ fs[p].kind = "file"
      /\ tag = <<fs[p].v, fs[p].len>>
  BY HashedContent
<1>2. fs[p].v <= count
  BY <1>1 DEF TraceInv, Numbered
<1> QED
  BY <1>1, <1>2 DEF Has

LEMMA QuietTrace ==
    ASSUME UssInv, UssInv', TraceInv, NEW w \in Workers, NEW n, Quiet(w, n) PROVE TraceInv'
<1> DEFINE q == rq[w]
<1>1. Progress(w, n) /\ fs' = fs /\ held' = held /\ count' = count
  BY DEF Quiet, Go, Stay, Progress
<1>2. /\ Written(fs, q) /\ Reading(fs, rq, count, q) /\ q.tag \in Contents \cup {None}
      /\ q.r.path \in Paths
      /\ q.pc \notin {"idle", "close", "stamp", "answer"} /\ n.pc # "idle" /\ n.r = q.r /\ n.n = q.n
      /\ n.tag = q.tag /\ n.sent = q.sent /\ n.lost = q.lost
      /\ q.r.op = "put" => \/ n.pc \in {"ufs", "match", "probe", "truncate"}
                              /\ q.pc \in {"body", "ufs", "match", "probe"}
                           \/ n.ans \notin {"none", "204"}
      /\ q.r.op = "get" => \/ q.pc = "ufs" /\ n.pc \in {"hash", "open"}
                           \/ q.pc = "open" /\ n.pc = "read"
                           \/ n.ans \notin {"none", "200", "204"}
  BY Own DEF Quiet
<1>3. Route(q) /\ Route(n)
  <2>1. rq'[w] = n
    BY <1>1 DEF Progress, UssInv
  <2> QED
    BY <2>1, Typed DEF UssInv, Good
<1> HIDE DEF q
<1>4. Written(fs', n)
  BY <1>1, <1>2, <1>3 DEF Written, Route
<1>5. ASSUME q.r.op = "get", q.tag # None, q.tag[2] > 0
      PROVE  /\ Over(fs, rq, q.r.path, q.tag) => Over(fs', rq', q.r.path, q.tag)
             /\ Has(fs, q.r.path, q.tag) => Has(fs', q.r.path, q.tag)
  <2>1. q.tag[1] <= count
    BY <1>2, <1>5 DEF Reading
  <2> QED
    BY <1>1, <1>2, <1>5, <2>1, Persist
<1>6. Reading(fs', rq', count', n)
  BY <1>1, <1>2, <1>3, <1>5 DEF Reading, Route
<1> QED
  BY <1>1, <1>4, <1>6, TraceStep

LEMMA HashTrace ==
    ASSUME UssInv, UssInv', TraceInv, NEW w \in Workers, NEW tag, NEW n, HashStep(w, tag, n)
    PROVE  TraceInv'
<1> DEFINE q == rq[w]
<1>1. Progress(w, n) /\ fs' = fs /\ held' = held /\ count' = count
  BY DEF HashStep, Go, Stay, Progress
<1>2. /\ Written(fs, q) /\ Reading(fs, rq, count, q) /\ q.r.path \in Paths
      /\ q.pc = "hash" /\ q.r.op = "get" /\ n.r = q.r /\ n.n = q.n
      /\ n.tag = tag /\ n.sent = << >> /\ n.lost = q.lost
      /\ \/ n.pc = "open" /\ n.ans = "none"
         \/ n.pc = "answer" /\ n.ans = "304"
  BY Own DEF HashStep, Reading
<1>3. PICK ok \in BOOLEAN : tag = Hashed(q.r.path, ok)
  BY DEF HashStep
<1> HIDE DEF q
<1>4. Written(fs', n)
  BY <1>1, <1>2 DEF Written
<1>5. tag # None => tag[1] <= count /\ Has(fs', q.r.path, tag)
  BY <1>1, <1>2, <1>3, StampOfNow
<1>6. Reading(fs', rq', count', n)
  BY <1>1, <1>2, <1>5 DEF Reading
<1> QED
  BY <1>1, <1>4, <1>6, TraceStep

\* As long as the file has the content the stamp was taken of, the chunks are of that
\* content; the end of the file is then the end of that content.
LEMMA ReadTrace ==
    ASSUME UssInv, UssInv', TraceInv, NEW w \in Workers, NEW n, ReadStep(w, n) PROVE TraceInv'
<1> DEFINE q == rq[w]
           p == q.r.path
           k == Len(q.sent) + 1
<1>1. Progress(w, n) /\ fs' = fs /\ held' = held /\ count' = count
  BY DEF ReadStep, Go, Stay, Progress
<1>2. /\ Written(fs, q) /\ Reading(fs, rq, count, q) /\ p \in Paths /\ q.tag \in Contents \cup {None}
      /\ q.pc = "read" /\ q.r.op = "get" /\ n.r = q.r /\ n.n = q.n /\ n.tag = q.tag
      /\ n.lost = q.lost
      /\ \/ /\ ~AtEnd(p, k) /\ n.pc = "read" /\ n.ans = "none"
            /\ n.sent = Append(q.sent, <<fs[p].v, k>>)
         \/ /\ AtEnd(p, k) /\ n.pc = "answer" /\ n.ans = "200" /\ n.sent = q.sent
  BY Own DEF ReadStep
<1>3. q.sent \in Seq(Versions \X Nat) /\ Len(q.sent) \in Nat
  BY Typed DEF Shape
<1> HIDE DEF q
<1>4. Written(fs', n)
  BY <1>1, <1>2 DEF Written
<1>5. ASSUME q.tag # None, q.tag[2] > 0
      PROVE  /\ Over(fs, rq, p, q.tag) => Over(fs', rq', p, q.tag)
             /\ q.tag[1] <= count /\ q.tag[2] \in Nat
             /\ \/ Over(fs, rq, p, q.tag)
                \/ Has(fs, p, q.tag) /\ \A j \in 1 .. Len(q.sent) : q.sent[j] = <<q.tag[1], j>>
  <2>1. q.tag[1] <= count /\ q.tag \in Contents
    BY <1>2, <1>5 DEF Reading
  <2>2. q.tag[2] \in Nat
    BY <2>1, Bounds DEF Contents, Chunks
  <2> QED
    BY <1>1, <1>2, <1>5, <2>1, <2>2, Persist DEF Reading
<1>6. ASSUME q.tag # None, q.tag[2] > 0, ~Over(fs, rq, p, q.tag), n.pc = "read"
      PROVE  Has(fs', p, q.tag) /\ \A j \in 1 .. Len(n.sent) : n.sent[j] = <<q.tag[1], j>>
  <2>1. Has(fs, p, q.tag) /\ \A j \in 1 .. Len(q.sent) : q.sent[j] = <<q.tag[1], j>>
    BY <1>5, <1>6
  <2>2. n.sent = Append(q.sent, <<q.tag[1], k>>)
    BY <1>2, <1>6, <2>1 DEF Has
  <2>3. Len(n.sent) = k /\ n.sent[k] = <<q.tag[1], k>>
        /\ \A j \in 1 .. Len(q.sent) : n.sent[j] = q.sent[j]
    BY <1>3, <2>2
  <2> QED
    BY <1>1, <1>3, <2>1, <2>3, SMTT(30)
<1>7. ASSUME q.tag # None, q.tag[2] > 0, ~Over(fs, rq, p, q.tag), n.ans = "200"
      PROVE  \A j \in 1 .. q.tag[2] : <<q.tag[1], j>> \in Range(n.sent)
  <2>1. Has(fs, p, q.tag) /\ \A j \in 1 .. Len(q.sent) : q.sent[j] = <<q.tag[1], j>>
    BY <1>5, <1>7
  <2>2. n.sent = q.sent /\ AtEnd(p, k)
    BY <1>2, <1>7
  <2>3. k > q.tag[2]
    BY <2>1, <2>2 DEF AtEnd, Exists, Has
  <2>4. ASSUME NEW j \in 1 .. q.tag[2] PROVE j \in DOMAIN q.sent /\ q.sent[j] = <<q.tag[1], j>>
    BY <1>3, <1>5, <1>7, <2>1, <2>3
  <2> QED
    BY <2>2, <2>4 DEF Range
<1>8. Reading(fs', rq', count', n)
  <2> HIDE DEF p, k
  <2>1. n.tag = q.tag /\ n.r.path = p /\ n.pc \in {"read", "answer"} /\ n.ans \in {"none", "200"}
        /\ (n.tag # None => n.tag[1] <= count')
    BY <1>1, <1>2 DEF p, Reading
  <2> QED
    BY <1>5, <1>6, <1>7, <2>1 DEF Reading
<1> QED
  BY <1>1, <1>4, <1>8, TraceStep

\* The steps of a write: what is left to show is what the file holds for it.
LEMMA PutTrace ==
    ASSUME UssInv, UssInv', TraceInv, NEW w \in Workers, NEW n, NEW from, NEW to,
           PutStep(w, n, from, to), Progress(w, n),
           n.tag # None => n.tag[1] <= count, Written(fs', n)
    PROVE  TraceInv'
<1>1. held' = held /\ count' = count /\ n.r.op = "put"
  BY DEF PutStep, Go
<1>2. Reading(fs', rq', count', n)
  BY <1>1 DEF Reading
<1> QED
  BY <1>1, <1>2, TraceStep

LEMMA MatchedTrace ==
    ASSUME UssInv, UssInv', TraceInv, NEW w \in Workers, NEW n, NEW ok,
           MatchStep(w, n, ok)
    PROVE  TraceInv'
<1>1. Progress(w, n) /\ fs' = fs
  BY DEF MatchStep, PutStep, Go, Stay, Progress
<1>2. Written(fs', n)
  BY <1>1, Own DEF Written, PutStep, MatchStep
<1>3. n.tag[1] <= count
  <2>1. rq[w].r.path \in Paths
    BY Own DEF MatchStep, PutStep
  <2> QED
    BY <2>1, StampOfNow DEF MatchStep
<1> QED
  BY <1>1, <1>2, <1>3, PutTrace DEF MatchStep

LEMMA PutOpenTrace ==
    ASSUME UssInv, UssInv', TraceInv, NEW w \in Workers, NEW n,
           PutStep(w, n, "truncate", "write"), n.ans = "none", n.tag = rq[w].tag,
           ~IsDir(rq[w].r.path), fs' = [fs EXCEPT ![rq[w].r.path] = Cut(w, rq[w].r.path)]
    PROVE  TraceInv'
<1> DEFINE q == rq[w]
           p == q.r.path
           f == Cut(w, p)
<1>1. /\ q.pc = "truncate" /\ n.pc = "write" /\ q.r.op = "put" /\ n.r = q.r /\ n.n = q.n
      /\ p \in Paths /\ Written(fs, q) /\ Reading(fs, rq, count, q)
  BY Own DEF PutStep
<1>2. f \in Node /\ f # None /\ f.kind = "file" /\ f.v = q.n /\ f.len = 0
  BY <1>1, CutNode
<1>3. fs' = [fs EXCEPT ![p] = f] /\ fs \in [Paths -> Node \cup {None}]
  BY DEF UssInv, Types
<1> HIDE DEF f
<1>4. fs'[p] = f /\ \A x \in Paths : x # p => fs'[x] = fs[x]
  BY <1>1, <1>3
<1>5. Progress(w, n)
  BY <1>1, <1>2, <1>4 DEF Progress, PutStep, Go
<1>6. Written(fs', n)
  BY <1>1, <1>2, <1>4 DEF Written
<1> QED
  BY <1>1, <1>5, <1>6, PutTrace DEF Reading

\* A write of k chunks, and what the file holds for the request afterwards.
LEMMA WroteContent ==
    ASSUME UssInv, TraceInv, NEW w \in Workers, NEW k \in Chunks, fs' = Wrote(w, k),
           rq[w].pc # "idle", rq[w].r.op = "put"
    PROVE  /\ \A x \in Paths : fs'[x] # fs[x] =>
                /\ x = rq[w].r.path /\ fs'[x] # None /\ fs'[x].kind = "file"
                /\ fs'[x].v = rq[w].n /\ fs'[x].len = k
           /\ \A x \in Paths : fs'[x] # None /\ fs'[x].v = rq[w].n =>
                x = rq[w].r.path /\ fs'[x].len = k
<1> DEFINE q == rq[w]
           p == q.r.path
<1>1. p \in Paths /\ P(w) = p /\ q.n >= 1 /\ Written(fs, q) /\ Numbered(fs, rq, count) /\ q.n \in Nat
  BY Own DEF P
<1>2. /\ \A x \in Paths : x # p => fs'[x] = fs[x]
      /\ \/ fs' = fs /\ (fs[p] = None \/ fs[p].kind = "dir")
         \/ /\ fs'[p] # None /\ fs'[p].kind = "file" /\ fs'[p].v = q.n /\ fs'[p].len = k
  BY <1>1, WroteFs
<1> HIDE DEF q
<1>3. fs[p] # None /\ fs[p].kind = "dir" => fs[p].v # q.n
  BY <1>1 DEF Numbered
<1>4. \A x \in Paths : fs[x] # None /\ fs[x].v = q.n => x = p
  BY <1>1 DEF Written, q
<1> QED
  BY <1>1, <1>2, <1>3, <1>4 DEF q

LEMMA PutWriteTrace ==
    ASSUME UssInv, UssInv', TraceInv, NEW w \in Workers, NEW n, NEW to, NEW k \in Chunks,
           PutStep(w, n, "write", to), n.tag = rq[w].tag, fs' = Wrote(w, k),
           \/ to = "close" /\ n.ans = "none" /\ k = rq[w].r.len
           \/ to = "answer" /\ n.ans \in {"400", "404", "500"}
    PROVE  TraceInv'
<1> DEFINE q == rq[w]
<1>1. /\ q.pc = "write" /\ n.pc = to /\ q.r.op = "put" /\ n.r = q.r /\ n.n = q.n
      /\ Reading(fs, rq, count, q)
  BY Own DEF PutStep
<1>2. /\ \A x \in Paths : fs'[x] # fs[x] =>
           /\ x = q.r.path /\ fs'[x] # None /\ fs'[x].kind = "file"
           /\ fs'[x].v = q.n /\ fs'[x].len = k
      /\ \A x \in Paths : fs'[x] # None /\ fs'[x].v = q.n => x = q.r.path /\ fs'[x].len = k
  BY <1>1, WroteContent
<1>3. Progress(w, n)
  BY <1>1, <1>2 DEF Progress, PutStep, Go
<1>4. Written(fs', n)
  BY <1>1, <1>2 DEF Written
<1> QED
  BY <1>1, <1>3, <1>4, PutTrace DEF Reading

LEMMA PutCloseTrace ==
    ASSUME UssInv, UssInv', TraceInv, NEW w \in Workers, NEW n,
           PutStep(w, n, "close", "stamp"), n.ans = "none", n.tag = rq[w].tag,
           \/ Stay
           \/ n.lost /\ rq[w].r.len > 0 /\ fs' = Wrote(w, rq[w].r.len - 1)
    PROVE  TraceInv'
<1> DEFINE q == rq[w]
<1>1. /\ q.pc = "close" /\ n.pc = "stamp" /\ q.r.op = "put" /\ n.r = q.r /\ n.n = q.n
      /\ Reading(fs, rq, count, q) /\ Written(fs, q) /\ q.r.len \in Chunks
  BY Own, Asked DEF PutStep
<1>2. CASE Stay
  <2>1. Progress(w, n)
    BY <1>1, <1>2 DEF Progress, PutStep, Go, Stay
  <2>2. Written(fs', n)
    BY <1>1, <1>2 DEF Written, Stay
  <2> QED
    BY <1>1, <2>1, <2>2, PutTrace DEF Reading
<1>3. CASE n.lost /\ q.r.len > 0 /\ fs' = Wrote(w, q.r.len - 1)
  <2>1. q.r.len - 1 \in Chunks
    BY <1>1, <1>3, Bounds DEF Chunks
  <2>2. /\ \A x \in Paths : fs'[x] # fs[x] =>
             /\ x = q.r.path /\ fs'[x] # None /\ fs'[x].kind = "file"
             /\ fs'[x].v = q.n /\ fs'[x].len = q.r.len - 1
        /\ \A x \in Paths : fs'[x] # None /\ fs'[x].v = q.n => x = q.r.path
    BY <1>1, <1>3, <2>1, WroteContent
  <2>3. Progress(w, n)
    BY <1>1, <2>2 DEF Progress, PutStep, Go
  <2>4. Written(fs', n)
    BY <1>1, <1>3, <2>2 DEF Written
  <2> QED
    BY <1>1, <2>3, <2>4, PutTrace DEF Reading
<1> QED
  BY <1>2, <1>3

LEMMA PutStampTrace ==
    ASSUME UssInv, UssInv', TraceInv, NEW w \in Workers, NEW n, NEW ok,
           PutStep(w, n, "stamp", "answer"), Stay, n.ans = "204", n.lost = rq[w].lost,
           n.tag = None \/ n.tag = Hashed(rq[w].r.path, ok)
    PROVE  TraceInv'
<1>1. Progress(w, n) /\ fs' = fs
  BY DEF PutStep, Go, Stay, Progress
<1>2. Written(fs', n)
  BY <1>1, Own DEF Written, PutStep
<1>3. n.tag # None => n.tag[1] <= count
  <2>1. rq[w].r.path \in Paths
    BY Own DEF PutStep
  <2> QED
    BY <2>1, StampOfNow
<1> QED
  BY <1>1, <1>2, <1>3, PutTrace

LEMMA MakeTrace ==
    ASSUME UssInv, UssInv', TraceInv, NEW w \in Workers, NEW n, NEW new, MakeStep(w, n, new)
    PROVE  TraceInv'
<1> DEFINE q == rq[w]
           p == q.r.path
<1>1. /\ q.pc = "make" /\ n.pc = "answer" /\ q.r.op = "create" /\ n.r = q.r /\ n.n = q.n
      /\ p \in Paths /\ Written(fs, q) /\ Reading(fs, rq, count, q) /\ q.n >= 1 /\ q.n \in Nat
      /\ n.tag = q.tag
  BY Own DEF MakeStep
<1>2. /\ new # None /\ new.len = 0 /\ fs' = [fs EXCEPT ![p] = new]
      /\ \/ new.kind = "file" /\ new.v = q.n
         \/ new.kind = "dir" /\ new.v = 0
      /\ held' = held /\ count' = count /\ rq' = [rq EXCEPT ![w] = n]
  BY DEF MakeStep, Go
<1>3. fs'[p] = new /\ \A x \in Paths : x # p => fs'[x] = fs[x]
  BY <1>1, <1>2 DEF UssInv, Types
<1>4. Progress(w, n)
  BY <1>1, <1>2, <1>3 DEF Progress
<1>5. Written(fs', n)
  BY <1>1, <1>2, <1>3 DEF Written
<1>6. Reading(fs', rq', count', n)
  BY <1>1, <1>2 DEF Reading
<1> QED
  BY <1>2, <1>4, <1>5, <1>6, TraceStep

LEMMA EraseTrace ==
    ASSUME UssInv, UssInv', TraceInv, NEW w \in Workers, NEW n, NEW p, EraseStep(w, n, p)
    PROVE  TraceInv'
<1> DEFINE q == rq[w]
<1>1. /\ q.pc \in DeleteSteps /\ q.r.op = "delete" /\ n.r = q.r /\ n.n = q.n /\ n.pc # "idle"
      /\ n.tag = q.tag /\ p \in Paths /\ Written(fs, q) /\ Reading(fs, rq, count, q)
  BY Own DEF EraseStep, DeleteSteps
<1>2. /\ fs' = [fs EXCEPT ![p] = None] /\ held' = held /\ count' = count
      /\ rq' = [rq EXCEPT ![w] = n]
  BY DEF EraseStep, Go
<1>3. fs'[p] = None /\ \A x \in Paths : x # p => fs'[x] = fs[x]
  BY <1>1, <1>2 DEF UssInv, Types
<1>4. Progress(w, n)
  BY <1>1, <1>2, <1>3 DEF Progress, DeleteSteps
<1>5. Written(fs', n)
  BY <1>1, <1>2, <1>3 DEF Written, DeleteSteps
<1>6. Reading(fs', rq', count', n)
  BY <1>1, <1>2 DEF Reading
<1> QED
  BY <1>2, <1>4, <1>5, <1>6, TraceStep

LEMMA ReceiveTrace ==
    ASSUME UssInv, UssInv', TraceInv, NEW w \in Workers, NEW n, ReceiveStep(w, n) PROVE TraceInv'
<1>1. /\ fs' = fs /\ held' = held /\ count' = count + 1 /\ Numbered(fs, rq, count)
      /\ count \in Nat /\ fs \in FsType
  BY Own, Typed DEF ReceiveStep
<1>2. Progress(w, n)
  BY <1>1 DEF ReceiveStep, Progress
<1>3. Written(fs', n)
  <2>1. \A p \in Paths : fs[p] # None => fs[p].v <= count /\ fs[p].v \in Nat
    BY <1>1, Bounds DEF Numbered, FsType, Node, Versions
  <2> QED
    BY <1>1, <2>1 DEF Written, ReceiveStep
<1>4. Reading(fs', rq', count', n)
  BY DEF Reading, ReceiveStep
<1> QED
  BY <1>1, <1>2, <1>3, <1>4, TraceStep

LEMMA FinishTrace ==
    ASSUME UssInv, UssInv', TraceInv, NEW w \in Workers, NEW n, FinishStep(w, n) PROVE TraceInv'
<1> DEFINE q == rq[w]
           t == [tag |-> q.tag, by |-> q.r.op, path |-> q.r.path, read |-> Range(q.sent)]
<1>1. /\ rq' = [rq EXCEPT ![w] = n] /\ fs' = fs /\ count' = count
      /\ q.pc = "answer" /\ n.pc = "idle" /\ n.tag = None /\ n.n = 0
      /\ \/ held' = held
         \/ held' = [held EXCEPT ![w] = t] /\ q.ans \in {"200", "204"} /\ q.tag # None
  BY DEF FinishStep
<1>2. Progress(w, n)
  BY <1>1 DEF Progress
<1>3. Written(fs', n) /\ Reading(fs', rq', count', n)
  BY <1>1 DEF Written, Reading
<1>4. CASE held' = held
  BY <1>2, <1>3, <1>4, TraceStep
<1>5. CASE held' = [held EXCEPT ![w] = t] /\ q.ans \in {"200", "204"} /\ q.tag # None
  <2>1. held'[w] = t /\ \A u \in Workers : u # w => held'[u] = held[u]
    BY <1>5 DEF UssInv, Types
  <2>2. /\ t.tag = q.tag /\ t.by = q.r.op /\ t.path = q.r.path /\ t.read = Range(q.sent)
    OBVIOUS
  <2>3. /\ Reading(fs, rq, count, q) /\ q.r.path \in Paths /\ q.tag \in Contents
    BY <1>1, <1>5, Own
  <2>4. ASSUME q.r.op = "get"
        PROVE  q.ans = "200" /\ q.tag[1] <= count
    BY <1>1, <1>5, <2>3, <2>4 DEF Reading
  <2>5. ASSUME q.r.op = "get", q.tag[2] > 0, Over(fs, rq, q.r.path, q.tag)
        PROVE  Over(fs', rq', q.r.path, q.tag)
    BY <1>2, <2>3, <2>4, <2>5, Persist
  <2>6. ASSUME q.r.op = "get", q.tag[2] > 0
        PROVE  \/ Over(fs', rq', q.r.path, q.tag)
               \/ \A k \in 1 .. q.tag[2] : <<q.tag[1], k>> \in Range(q.sent)
    BY <1>1, <1>5, <2>3, <2>4, <2>5, <2>6 DEF Reading
  <2> HIDE DEF t, q
  <2>7. Held(fs', rq', count', t)
    BY <1>1, <2>2, <2>3, <2>4, <2>6 DEF Held
  <2> QED
    BY <1>2, <1>3, <2>1, <2>7, TraceStep
<1> QED
  BY <1>1, <1>4, <1>5

-----------------------------------------------------------------------------
(* Contents: every step. *)

\* What a step of a connection can be.
Kind(w) ==
    \/ \E n : Quiet(w, n) \/ ReadStep(w, n) \/ ReceiveStep(w, n) \/ FinishStep(w, n)
    \/ \E tag, n : HashStep(w, tag, n)
    \/ \E n, ok : MatchStep(w, n, ok)
    \/ \E n : /\ PutStep(w, n, "truncate", "write") /\ n.ans = "none" /\ n.tag = rq[w].tag
              /\ ~IsDir(rq[w].r.path) /\ fs' = [fs EXCEPT ![rq[w].r.path] = Cut(w, rq[w].r.path)]
    \/ \E n : /\ PutStep(w, n, "write", "close") /\ n.ans = "none" /\ n.tag = rq[w].tag
              /\ fs' = Wrote(w, rq[w].r.len)
    \/ \E n, k : /\ PutStep(w, n, "write", "answer") /\ n.ans \in {"400", "404", "500"}
                 /\ n.tag = rq[w].tag /\ k \in Chunks /\ fs' = Wrote(w, k)
    \/ \E n : /\ PutStep(w, n, "close", "stamp") /\ n.ans = "none" /\ n.tag = rq[w].tag
              /\ \/ Stay
                 \/ n.lost /\ rq[w].r.len > 0 /\ fs' = Wrote(w, rq[w].r.len - 1)
    \/ \E n, ok : /\ PutStep(w, n, "stamp", "answer") /\ Stay /\ n.ans = "204"
                  /\ n.lost = rq[w].lost /\ (n.tag = None \/ n.tag = Hashed(rq[w].r.path, ok))
    \/ \E n, new : MakeStep(w, n, new)
    \/ \E n, p : EraseStep(w, n, p)

LEMMA StepKind == ASSUME UssInv, NEW w \in Workers, Step(w) PROVE UssInv' /\ Kind(w)
<1>1. ASSUME \E n : Quiet(w, n) PROVE Kind(w)
  BY <1>1, Zenon DEF Kind
<1>2. CASE PutBody(w) \/ CreateBody(w) \/ UtilBody(w) \/ GetUfs(w) \/ DirOpen(w) \/ DirRead(w)
           \/ Stat(w) \/ GetOpen(w) \/ MatchProbe(w) \/ SetPerm(w) \/ CreateExists(w) \/ Enter(w)
           \/ Scan(w) \/ Unwind(w)
  BY <1>1, <1>2, PutBodyInv, CreateBodyInv, UtilBodyInv, GetUfsInv, DirOpenInv, DirReadInv, StatInv,
      GetOpenInv, MatchProbeInv, SetPermInv, CreateExistsInv, EnterInv, ScanInv, UnwindInv,
      Zenon
<1>3. CASE Receive(w) \/ Finish(w)
  BY <1>3, ReceiveInv, FinishInv, Zenon DEF Kind
<1>4. CASE Hash(w) \/ Read(w) \/ Match(w)
  BY <1>1, <1>4, HashInv, ReadInv, MatchInv, Zenon DEF Kind
<1>5. CASE PutOpen(w) \/ PutClose(w)
  BY <1>1, <1>5, PutOpenInv, PutCloseInv, Zenon DEF Kind
<1>6. CASE PutWrite(w) \/ PutStamp(w)
  BY <1>6, PutWriteInv, PutStampInv, Zenon DEF Kind
<1>7. CASE Make(w) \/ RemoveFile(w) \/ Rmdir(w) \/ Unlink(w)
  BY <1>1, <1>7, MakeInv, RemoveFileInv, RmdirInv, UnlinkInv, Zenon DEF Kind
<1> QED
  BY <1>2, <1>3, <1>4, <1>5, <1>6, <1>7, Zenon DEF Step

LEMMA KindTrace ==
    ASSUME UssInv, UssInv', TraceInv, NEW w \in Workers, Kind(w) PROVE TraceInv'
<1>1. CASE \E n : Quiet(w, n) \/ ReadStep(w, n) \/ ReceiveStep(w, n) \/ FinishStep(w, n)
  BY <1>1, QuietTrace, ReadTrace, ReceiveTrace, FinishTrace
<1>2. CASE (\E tag, n : HashStep(w, tag, n)) \/ (\E n, ok : MatchStep(w, n, ok))
  BY <1>2, HashTrace, MatchedTrace
<1>3. CASE \E n : /\ PutStep(w, n, "truncate", "write") /\ n.ans = "none" /\ n.tag = rq[w].tag
                  /\ ~IsDir(rq[w].r.path)
                  /\ fs' = [fs EXCEPT ![rq[w].r.path] = Cut(w, rq[w].r.path)]
  BY <1>3, PutOpenTrace
<1>4. CASE \E n : /\ PutStep(w, n, "write", "close") /\ n.ans = "none" /\ n.tag = rq[w].tag
                  /\ fs' = Wrote(w, rq[w].r.len)
  <2>1. PICK n : /\ PutStep(w, n, "write", "close") /\ n.ans = "none" /\ n.tag = rq[w].tag
                 /\ fs' = Wrote(w, rq[w].r.len)
    BY <1>4
  <2>2. rq[w].r.len \in Chunks
    BY <2>1, Own, Asked DEF PutStep
  <2> QED
    BY <2>1, <2>2, PutWriteTrace
<1>5. CASE \E n, k : /\ PutStep(w, n, "write", "answer") /\ n.ans \in {"400", "404", "500"}
                     /\ n.tag = rq[w].tag /\ k \in Chunks /\ fs' = Wrote(w, k)
  BY <1>5, PutWriteTrace
<1>6. CASE \E n : /\ PutStep(w, n, "close", "stamp") /\ n.ans = "none" /\ n.tag = rq[w].tag
                  /\ \/ Stay
                     \/ n.lost /\ rq[w].r.len > 0 /\ fs' = Wrote(w, rq[w].r.len - 1)
  BY <1>6, PutCloseTrace
<1>7. CASE \E n, ok : /\ PutStep(w, n, "stamp", "answer") /\ Stay /\ n.ans = "204"
                      /\ n.lost = rq[w].lost
                      /\ n.tag = None \/ n.tag = Hashed(rq[w].r.path, ok)
  BY <1>7, PutStampTrace
<1>8. CASE (\E n, new : MakeStep(w, n, new)) \/ (\E n, p : EraseStep(w, n, p))
  BY <1>8, MakeTrace, EraseTrace
<1> QED
  BY <1>1, <1>2, <1>3, <1>4, <1>5, <1>6, <1>7, <1>8, Zenon DEF Kind

LEMMA KindOthers ==
    ASSUME UssInv, NEW w \in Workers, Kind(w), NEW u \in Workers, u # w PROVE rq'[u] = rq[u]
<1>1. PICK n : rq' = [rq EXCEPT ![w] = n]
  BY Zenon
     DEF Kind, Quiet, ReadStep, ReceiveStep, FinishStep, HashStep, MatchStep, PutStep, MakeStep,
         EraseStep, Go
<1> QED
  BY <1>1 DEF UssInv

LEMMA TraceInit == ASSUME Init PROVE TraceInv
<1>1. \A w \in Workers : rq[w] = NoRequest /\ held[w] = NoStamp
  BY DEF Init
<1>2. NoRequest.pc = "idle" /\ NoRequest.n = 0 /\ NoRequest.tag = None /\ NoStamp.tag = None
  BY Idle DEF NoStamp
<1>3. count = 0 /\ \A p \in Paths : fs[p] # None => fs[p].v = 0
  BY UssAssumption, Zenon DEF Init
<1>4. Numbered(fs, rq, count)
  BY <1>1, <1>2, <1>3 DEF Numbered
<1> QED
  BY <1>1, <1>2, <1>4 DEF TraceInv, Written, Reading, Held

LEMMA TraceNext == ASSUME UssInv, TraceInv, [Next]_vars PROVE TraceInv'
<1>1. CASE UNCHANGED vars
  BY <1>1 DEF TraceInv, vars
<1>2. ASSUME NEW w \in Workers, Step(w) PROVE TraceInv'
  BY <1>2, StepKind, KindTrace
<1> QED
  BY <1>1, <1>2 DEF Next, Finished

\* In every state the program reaches, the stamp a worker holds and the chunks it has sent or
\* written are those of the file at the step it stands at (ussGetHandler, ussPutHandler,
\* uss_stream_file): the inductive invariant of the If-Match and the completeness properties.
THEOREM TraceInvariant == Spec => [](UssInv /\ TraceInv)
<1>1. Init => UssInv /\ TraceInv
  BY UssInit, TraceInit
<1>2. UssInv /\ TraceInv /\ [Next]_vars => (UssInv /\ TraceInv)'
  BY UssNext, TraceNext
<1> QED
  BY <1>1, <1>2, PTL DEF Spec

\* A stamp that a client got with a file lets its write through only while the file is what
\* the client has read, to the last chunk, whoever writes between the stamp pass, the read
\* and the check (ussGetHandler, uss_check_if_match).  It is about the check: a write that
\* comes between it and the truncating open is not excluded.
THEOREM MatchIsSound == Spec => MatchSound
<1> DEFINE A == \A w \in Workers :
                  (/\ At(w, "match") /\ rq'[w].pc = "truncate"
                   /\ held[w].by = "get" /\ held[w].path = P(w))
                  => \A k \in 1 .. fs[P(w)].len : <<fs[P(w)].v, k>> \in held[w].read
<1>1. ASSUME UssInv, TraceInv, [Next]_vars PROVE [A]_vars
  <2>1. SUFFICES ASSUME NEW w \in Workers, At(w, "match"), rq'[w].pc = "truncate",
                        held[w].by = "get", held[w].path = P(w),
                        NEW k \in 1 .. fs[P(w)].len
                 PROVE  <<fs[P(w)].v, k>> \in held[w].read
    OBVIOUS
  <2>2. PICK u \in Workers : Step(u)
    BY <1>1, <2>1 DEF Next, Finished, At, vars
  <2>3. Kind(u) /\ UssInv'
    BY <1>1, <2>2, StepKind
  <2>4. u = w
    BY <1>1, <2>1, <2>3, KindOthers DEF At
  <2>5. \A n : rq' = [rq EXCEPT ![w] = n] => rq'[w] = n
    BY <1>1 DEF UssInv
  <2>6. PICK n, ok : MatchStep(w, n, ok)
    <3>1. ASSUME NEW n, \/ Quiet(w, n) \/ ReadStep(w, n) \/ ReceiveStep(w, n)
                        \/ FinishStep(w, n) \/ (\E tag : HashStep(w, tag, n))
                        \/ (\E new : MakeStep(w, n, new)) \/ (\E p : EraseStep(w, n, p))
          PROVE  FALSE
      BY <2>1, <2>5, <3>1
         DEF At, Quiet, ReadStep, ReceiveStep, FinishStep, HashStep, MakeStep, EraseStep, Go,
             DeleteSteps
    <3>2. ASSUME NEW n, NEW from, NEW to, PutStep(w, n, from, to) PROVE from = "match"
      BY <2>1, <3>2 DEF At, PutStep
    <3> QED
      BY <2>3, <2>4, <3>1, <3>2 DEF Kind
  <2>7. P(w) \in Paths /\ P(w) = rq[w].r.path
    BY <1>1, <2>1, AtStep
  <2>8. held[w].tag # None /\ held[w].tag \in Contents /\ Has(fs, P(w), held[w].tag)
    BY <1>1, <2>6, <2>7, StampOfNow DEF MatchStep
  <2>9. Held(fs, rq, count, held[w])
    BY <1>1 DEF TraceInv
  <2>10. fs[P(w)].v = held[w].tag[1] /\ fs[P(w)].len = held[w].tag[2]
    BY <2>8 DEF Has
  <2>11. held[w].tag[2] \in Nat
    BY <2>8, Bounds DEF Contents, Chunks
  <2> QED
    BY <2>1, <2>8, <2>9, <2>10, <2>11 DEF Held, Over
<1>2. Spec => [][A]_vars
  <2> HIDE DEF A
  <2>1. UssInv /\ TraceInv /\ [Next]_vars => [A]_vars
    BY <1>1
  <2> QED
    BY <2>1, TraceInvariant, PTL DEF Spec
<1> QED
  BY <1>2 DEF MatchSound

-----------------------------------------------------------------------------
(* What is read and what is listed, and what changes under it. *)

\* A file is sent as it stands, unless it has changed under the read.
Sending(f, q, c) ==
    q.r.op = "get" /\ <<q.r.path, "data">> \notin c =>
      /\ q.pc = "read" => /\ f[q.r.path] # None /\ Len(q.sent) <= f[q.r.path].len
                          /\ \A k \in 1 .. Len(q.sent) : q.sent[k] = <<f[q.r.path].v, k>>
      /\ q.ans = "200" => q.sent = [k \in 1 .. f[q.r.path].len |-> <<f[q.r.path].v, k>>]

\* The rows of a scan are entries it has met, each once, and all of them but for the limit.
RowsOf(q, seen) ==
    /\ q.rows \in Seq(Paths) /\ Range(q.rows) \subseteq seen
    /\ \A i, j \in DOMAIN q.rows : q.rows[i] = q.rows[j] => i = j
    /\ q.r.max > 0 => Len(q.rows) <= q.r.max
    /\ \/ Range(q.rows) = seen /\ Len(q.rows) = Cardinality(seen)
       \/ /\ Range(q.rows) # seen /\ q.r.max > 0
          /\ Len(q.rows) = q.r.max /\ q.r.max < Cardinality(seen)

\* These paths are in the directory d, or have been while it was scanned.
There(f, c, d, s) == \A p \in s : Parent[p] = d /\ (f[p] # None \/ <<p, "entry">> \in c)

\* What a listing that is out says of the directory.
Truthful(f, q, c) ==
    /\ There(f, c, q.r.path, Range(q.rows)) /\ q.rows \in Seq(Paths)
    /\ \A i, j \in DOMAIN q.rows : q.rows[i] = q.rows[j] => i = j
    /\ q.r.max > 0 => Len(q.rows) <= q.r.max
    /\ q.more => /\ Len(q.rows) = q.r.max
                 /\ \E p \in Paths \ Range(q.rows) : There(f, c, q.r.path, {p})
    /\ ~q.more /\ ~q.bad =>
         \A p \in Paths : Parent[p] = q.r.path /\ f[p] # None /\ <<p, "entry">> \notin c =>
           p \in Range(q.rows)

Scanned(q) == q.dirs[Len(q.dirs)].seen

Scanning(f, q, c) ==
    q.r.op = "list" =>
      /\ q.pc \in {"ufs", "diropen"} => q.rows = << >>
      /\ q.pc = "list" => RowsOf(q, Scanned(q)) /\ There(f, c, q.r.path, Scanned(q))
      /\ q.ans = "200" => q.rows = <<q.r.path>> \/ Truthful(f, q, c)

Watched(f, q, c) == q.pc # "idle" => Sending(f, q, c) /\ Scanning(f, q, c)

WatchInv == \A w \in Workers : Watched(fs, rq[w], changed[w])

\* What is noted for a request that reads or lists.
LEMMA Noted ==
    ASSUME Watch, NEW v \in Workers, Reads(rq'[v]), NEW p \in Paths
    PROVE  /\ <<p, "data">> \in changed'[v] <=> <<p, "data">> \in changed[v] \/ fs'[p] # fs[p]
           /\ <<p, "entry">> \in changed'[v] <=>
                <<p, "entry">> \in changed[v] \/ (fs[p] = None) # (fs'[p] = None)
<1> DEFINE data == {x \in Paths : fs'[x] # fs[x]}
           entry == {x \in Paths : (fs[x] = None) # (fs'[x] = None)}
<1>1. changed'[v] = changed[v] \cup (data \X {"data"}) \cup (entry \X {"entry"})
  BY DEF Watch
<1>2. p \in data <=> fs'[p] # fs[p]
  OBVIOUS
<1>3. p \in entry <=> (fs[p] = None) # (fs'[p] = None)
  OBVIOUS
<1> HIDE DEF data, entry
<1> QED
  BY <1>1, <1>2, <1>3

LEMMA ScannedPaths ==
    ASSUME NEW q, NEW s, Shape(q), Holding(q, s), q.pc = "list"
    PROVE  Scanned(q) \in SUBSET Paths /\ q.dirs[Len(q.dirs)] \in Frames
<1>1. q.dirs \in Seq(Frames) /\ q.dirs # << >>
  BY DEF Shape, Holding
<1>2. q.dirs[Len(q.dirs)] \in Frames
  BY <1>1, DirFrames
<1> QED
  BY <1>2 DEF Scanned, Frames

\* The steps of others change nothing that is not noted.
LEMMA WatchedKept ==
    ASSUME UssInv, Watch, NEW v \in Workers, rq'[v] = rq[v], Watched(fs, rq[v], changed[v])
    PROVE  Watched(fs', rq'[v], changed'[v])
<1> DEFINE q == rq[v]
           c == changed[v]
           d == changed'[v]
<1>1. SUFFICES ASSUME q.pc # "idle" PROVE Sending(fs', q, d) /\ Scanning(fs', q, d)
  BY DEF Watched
<1>2. Sending(fs, q, c) /\ Scanning(fs, q, c)
  BY <1>1 DEF Watched
<1>3. /\ Shape(q) /\ Route(q) /\ Holding(q, h[v]) /\ q.r.path \in Paths
  BY <1>1, Typed, Asked DEF Shape, Route
<1>4. Reads(q) => \A p \in Paths :
        /\ <<p, "data">> \in d <=> <<p, "data">> \in c \/ fs'[p] # fs[p]
        /\ <<p, "entry">> \in d <=> <<p, "entry">> \in c \/ (fs[p] = None) # (fs'[p] = None)
  BY Noted
<1>5. Sending(fs', q, d)
  <2>1. SUFFICES ASSUME q.r.op = "get", <<q.r.path, "data">> \notin d,
                        q.pc = "read" \/ q.ans = "200"
                 PROVE  Sending(fs', q, d)
    BY DEF Sending
  <2>2. Reads(q)
    BY <1>3, <2>1 DEF Reads, Route
  <2>3. <<q.r.path, "data">> \notin c /\ fs'[q.r.path] = fs[q.r.path]
    BY <1>3, <1>4, <2>1, <2>2
  <2> HIDE DEF q, c, d
  <2> QED
    BY <1>2, <2>1, <2>3 DEF Sending
<1>6. Scanning(fs', q, d)
  <2>1. SUFFICES ASSUME q.r.op = "list", q.pc = "list" \/ q.ans = "200"
                 PROVE  Scanning(fs', q, d)
    BY <1>2 DEF Scanning
  <2>2. Reads(q)
    BY <1>3, <2>1 DEF Reads, Route
  <2>3. ASSUME NEW s \in SUBSET Paths, There(fs, c, q.r.path, s)
        PROVE  There(fs', d, q.r.path, s)
    BY <1>4, <2>2, <2>3 DEF There
  <2>4. q.pc = "list" => Scanned(q) \in SUBSET Paths
    BY <1>3, ScannedPaths
  <2>5. ASSUME Truthful(fs, q, c) PROVE Truthful(fs', q, d)
    <3>1. Range(q.rows) \in SUBSET Paths
      BY <2>5 DEF Truthful, Range
    <3>2. There(fs', d, q.r.path, Range(q.rows))
      BY <2>3, <2>5, <3>1 DEF Truthful
    <3>3. ASSUME q.more
          PROVE  \E p \in Paths \ Range(q.rows) : There(fs', d, q.r.path, {p})
      <4>1. PICK p \in Paths \ Range(q.rows) : There(fs, c, q.r.path, {p})
        BY <2>5, <3>3 DEF Truthful
      <4>2. There(fs', d, q.r.path, {p})
        BY <2>3, <4>1
      <4> QED
        BY <4>2
    <3>4. ASSUME ~q.more, ~q.bad, NEW p \in Paths, Parent[p] = q.r.path, fs'[p] # None,
                 <<p, "entry">> \notin d
          PROVE  p \in Range(q.rows)
      <4>1. fs[p] # None /\ <<p, "entry">> \notin c
        BY <1>4, <2>2, <3>4
      <4> QED
        BY <2>5, <3>4, <4>1 DEF Truthful
    <3> HIDE DEF q, c, d
    <3> QED
      BY <2>5, <3>2, <3>3, <3>4 DEF Truthful
  <2> HIDE DEF q, c, d
  <2> QED
    BY <1>2, <2>1, <2>3, <2>4, <2>5 DEF Scanning
<1> QED
  BY <1>5, <1>6

\* A step of a connection, as far as it reads or lists.
LEMMA KindIs ==
    ASSUME UssInv, NEW w \in Workers, Kind(w)
    PROVE  LET n == rq'[w] IN
           \/ Quiet(w, n) \/ ReadStep(w, n) \/ ReceiveStep(w, n) \/ n.pc = "idle"
           \/ n.r.op = "get" /\ n.pc \in {"open", "answer"} /\ n.ans \in {"none", "304"}
           \/ n.r.op \in {"put", "create", "delete"}
<1>1. \A m : rq' = [rq EXCEPT ![w] = m] => rq'[w] = m
  BY DEF UssInv
<1>2. ASSUME NEW n, Quiet(w, n) \/ ReadStep(w, n) \/ ReceiveStep(w, n) \/ FinishStep(w, n)
      PROVE  /\ rq'[w] = n
             /\ Quiet(w, n) \/ ReadStep(w, n) \/ ReceiveStep(w, n) \/ n.pc = "idle"
  BY <1>1, <1>2 DEF Quiet, ReadStep, ReceiveStep, FinishStep, Go
<1>3. ASSUME NEW tag, NEW n, HashStep(w, tag, n)
      PROVE  /\ rq'[w] = n /\ n.r.op = "get" /\ n.pc \in {"open", "answer"}
             /\ n.ans \in {"none", "304"}
  BY <1>1, <1>3 DEF HashStep, Go
<1>4. ASSUME NEW n, NEW from, NEW to, PutStep(w, n, from, to)
      PROVE  rq'[w] = n /\ n.r.op = "put"
  BY <1>1, <1>4 DEF PutStep, Go
<1>5. ASSUME NEW n, NEW ok, MatchStep(w, n, ok) PROVE rq'[w] = n /\ n.r.op = "put"
  BY <1>4, <1>5 DEF MatchStep
<1>6. ASSUME NEW n, NEW p, MakeStep(w, n, p) \/ EraseStep(w, n, p)
      PROVE  rq'[w] = n /\ n.r.op \in {"create", "delete"}
  BY <1>1, <1>6 DEF MakeStep, EraseStep, Go
<1> QED
  BY <1>2, <1>3, <1>4, <1>5, <1>6, Zenon DEF Kind

LEMMA ListOnly ==
    ASSUME NEW w \in Workers, Step(w), rq[w].pc \in ListSteps
    PROVE  DirOpen(w) \/ DirRead(w) \/ Stat(w)
<1>1. \A s : s \notin ListSteps => ~At(w, s)
  BY DEF At
<1>2. ASSUME NEW op, NEW next PROVE ~Body(w, op, next)
  BY <1>1 DEF Body, ListSteps
<1>3. ~PutBody(w) /\ ~CreateBody(w) /\ ~UtilBody(w)
  BY <1>2, Zenon DEF PutBody, CreateBody, UtilBody
<1>4. ~Receive(w) /\ ~GetUfs(w) /\ ~Hash(w) /\ ~GetOpen(w) /\ ~Read(w)
  BY <1>1 DEF Receive, GetUfs, Hash, GetOpen, Read, ListSteps
<1>5. ~Match(w) /\ ~MatchProbe(w) /\ ~PutOpen(w) /\ ~PutWrite(w) /\ ~PutClose(w) /\ ~PutStamp(w)
  BY <1>1 DEF Match, MatchProbe, PutOpen, PutWrite, PutClose, PutStamp, ListSteps
<1>6. ~SetPerm(w) /\ ~CreateExists(w) /\ ~Make(w) /\ ~RemoveFile(w) /\ ~Rmdir(w) /\ ~Enter(w)
  BY <1>1 DEF SetPerm, CreateExists, Make, RemoveFile, Rmdir, Enter, ListSteps
<1>7. ~Scan(w) /\ ~Unlink(w) /\ ~Unwind(w) /\ ~Finish(w)
  BY <1>1 DEF Scan, Unlink, Unwind, Finish, ListSteps
<1> QED
  BY <1>3, <1>4, <1>5, <1>6, <1>7, Zenon DEF Step
\* A read: the open finds the file, each chunk is the next of it, and the end is its end.
LEMMA SendingStep ==
    ASSUME UssInv, UssInv', TraceInv, WatchInv, NEW w \in Workers, Kind(w), Watch,
           rq'[w].pc # "idle"
    PROVE  Sending(fs', rq'[w], changed'[w])
<1> DEFINE q == rq[w]
           n == rq'[w]
           d == changed'[w]
<1>1. SUFFICES ASSUME n.r.op = "get", <<n.r.path, "data">> \notin d,
                      n.pc = "read" \/ n.ans = "200"
               PROVE  Sending(fs', n, d)
  BY DEF Sending
<1>2. Shape(n) /\ Route(n) /\ n.r.path \in Paths
  BY Asked DEF UssInv, Good, Shape, Route
<1>3. Reads(n)
  BY <1>1, <1>2 DEF Reads, Route
<1>4. (<<n.r.path, "data">> \notin changed[w]) /\ fs'[n.r.path] = fs[n.r.path]
  BY <1>1, <1>2, <1>3, Noted
<1>5. Quiet(w, n) \/ ReadStep(w, n)
  BY <1>1, <1>2, KindIs DEF ReceiveStep, Route
<1>6. fs[n.r.path] \in Node \cup {None}
  BY <1>2, Typed DEF FsType
<1>7. CASE Quiet(w, n)
  <2>1. /\ q.pc = "open" /\ n.pc = "read" /\ ReadRc(n.r.path) = "OK" /\ n.sent = q.sent
        /\ n.r = q.r
    BY <1>1, <1>2, <1>7 DEF Quiet, Route
  <2>2. n.sent = << >>
    BY <1>1, <2>1 DEF TraceInv, Reading
  <2>3. fs[n.r.path] # None /\ fs[n.r.path].len \in Nat
    BY <1>6, <2>1, Bounds DEF ReadRc, Exists, Node, Chunks
  <2>4. n.ans = "none"
    BY <1>2, <2>1 DEF Route
  <2> HIDE DEF n, d
  <2> QED
    BY <1>4, <2>1, <2>2, <2>3, <2>4 DEF Sending
<1>8. CASE ReadStep(w, n)
  <2> DEFINE p == q.r.path
             k == Len(q.sent) + 1
             v == fs[p].v
             m == fs[p].len
  <2>1. /\ q.pc = "read" /\ q.r.op = "get" /\ n.r = q.r
        /\ \/ ~AtEnd(p, k) /\ n.pc = "read" /\ n.ans = "none" /\ n.sent = Append(q.sent, <<v, k>>)
           \/ AtEnd(p, k) /\ n.pc = "answer" /\ n.ans = "200" /\ n.sent = q.sent
    BY <1>8 DEF ReadStep
  <2>2. /\ fs[p] # None /\ Len(q.sent) <= m
        /\ \A i \in 1 .. Len(q.sent) : q.sent[i] = <<v, i>>
    BY <1>4, <2>1 DEF WatchInv, Watched, Sending
  <2>3. m \in Nat /\ q.sent \in Seq(Versions \X Nat) /\ v \in Versions
    <3>1. fs[p] \in Node /\ q.sent \in Seq(Versions \X Nat)
      BY <1>6, <2>1, <2>2, Typed DEF Shape
    <3> QED
      BY <3>1, Bounds DEF Node, Chunks
  <2>4. AtEnd(p, k) <=> k > m
    BY <2>2 DEF AtEnd, Exists
  <2>5. fs'[p] = fs[p] /\ n.r.path = p
    BY <1>4, <2>1
  <2>6. CASE ~AtEnd(p, k) /\ n.pc = "read" /\ n.ans = "none" /\ n.sent = Append(q.sent, <<v, k>>)
    <3> DEFINE s == Append(q.sent, <<v, k>>)
    <3>1. Len(s) = k /\ Len(q.sent) \in Nat /\ s[k] = <<v, k>>
          /\ \A i \in 1 .. Len(q.sent) : s[i] = q.sent[i]
      BY <2>3
    <3>2. k <= m
      <4>1. k \in Nat /\ m \in Nat /\ ~(k > m)
        BY <2>3, <2>4, <2>6, <3>1
      <4> QED
        BY ONLY <4>1
    <3>3. \A i \in 1 .. k : i \in 1 .. Len(q.sent) \/ i = k
      BY <3>1
    <3>4. n.sent = s
      BY <2>6
    <3> HIDE DEF s, k
    <3>5. Len(n.sent) = k /\ \A i \in 1 .. k : n.sent[i] = <<v, i>>
      BY <2>2, <3>1, <3>3, <3>4
    <3> HIDE DEF n, d, p
    <3> QED
      BY <2>2, <2>5, <2>6, <3>2, <3>5 DEF Sending
  <2>7. CASE AtEnd(p, k) /\ n.pc = "answer" /\ n.ans = "200" /\ n.sent = q.sent
    <3> DEFINE s == q.sent
    <3>1. s \in Seq(Versions \X Nat) /\ \A i \in 1 .. Len(s) : s[i] = <<v, i>>
      BY <2>2, <2>3
    <3>2. Len(s) = m
      BY <2>2, <2>3, <2>4, <2>7
    <3> HIDE DEF s, m, v
    <3>3. s = [i \in 1 .. m |-> <<v, i>>]
      BY <3>1, <3>2
    <3>4. n.sent = s
      BY <2>7 DEF s
    <3> HIDE DEF n, d, p, q
    <3> QED
      BY <2>5, <2>7, <3>3, <3>4 DEF Sending, m, v
  <2> QED
    BY <2>1, <2>6, <2>7
<1> QED
  BY <1>5, <1>7, <1>8


\* An entry is counted, and is a row unless the limit is reached.
LEMMA RowsMore ==
    ASSUME NEW q, NEW n, NEW seen \in SUBSET Paths, NEW e \in Paths \ seen, RowsOf(q, seen),
           n.r = q.r, q.r.max \in Nat,
           n.rows = IF q.r.max > 0 /\ Len(q.rows) >= q.r.max THEN q.rows ELSE Append(q.rows, e)
    PROVE  RowsOf(n, seen \cup {e})
<1> DEFINE then == seen \cup {e}
           rows == q.rows
           max == q.r.max
           r == n.rows
<1>1. IsFiniteSet(seen)
  BY UssAssumption, FS_Subset
<1>2. Cardinality(then) = Cardinality(seen) + 1 /\ Cardinality(seen) \in Nat
  BY <1>1, FS_AddElement, FS_CardinalityType
<1>3. /\ rows \in Seq(Paths) /\ Range(rows) \subseteq seen
      /\ \A i, j \in DOMAIN rows : rows[i] = rows[j] => i = j
      /\ max > 0 => Len(rows) <= max
      /\ \/ Range(rows) = seen /\ Len(rows) = Cardinality(seen)
         \/ Range(rows) # seen /\ max > 0 /\ Len(rows) = max /\ max < Cardinality(seen)
  BY DEF RowsOf
<1>4. Len(rows) \in Nat /\ DOMAIN rows = 1 .. Len(rows)
  BY <1>3
<1>5. e \in then /\ e \notin seen /\ seen \subseteq then /\ then \subseteq seen \cup {e}
  OBVIOUS
<1> HIDE DEF then
<1>6. CASE max > 0 /\ Len(rows) >= max
  <2>1. r = rows /\ Len(rows) = max /\ max < Cardinality(then)
    BY <1>2, <1>3, <1>4, <1>6
  <2>2. Range(rows) \subseteq then /\ Range(rows) # then
    BY <1>3, <1>5
  <2>3. RowsOf(n, then)
    BY <1>3, <1>6, <2>1, <2>2 DEF RowsOf
  <2> QED
    BY <2>3 DEF then
<1>7. CASE ~(max > 0 /\ Len(rows) >= max)
  <2>1. r = Append(rows, e) /\ Range(rows) = seen /\ Len(rows) = Cardinality(seen)
    BY <1>3, <1>4, <1>7
  <2> HIDE DEF r
  <2>2. /\ r \in Seq(Paths) /\ Len(r) = Len(rows) + 1 /\ DOMAIN r = 1 .. Len(r) /\ r[Len(r)] = e
        /\ \A i \in 1 .. Len(rows) : r[i] = rows[i]
    BY <1>3, <1>4, <2>1
  <2>3. \A i \in 1 .. Len(r) : i \in 1 .. Len(rows) \/ i = Len(r)
    BY <1>4, <2>2
  <2>4. Len(r) \in 1 .. Len(r) /\ \A i \in 1 .. Len(rows) : i \in 1 .. Len(r)
    BY <1>4, <2>2
  <2>5. Range(rows) = {rows[i] : i \in 1 .. Len(rows)} /\ Range(r) = {r[i] : i \in 1 .. Len(r)}
    BY <1>4, <2>2 DEF Range
  <2>6. Range(r) = then
    <3> HIDE DEF rows
    <3>1. ASSUME NEW x \in Range(r) PROVE x \in then
      <4>1. PICK i \in 1 .. Len(r) : x = r[i]
        BY <2>5, <3>1
      <4>2. CASE i = Len(r)
        BY <1>5, <2>2, <4>1, <4>2
      <4>3. CASE i \in 1 .. Len(rows)
        BY <1>5, <2>1, <2>2, <2>5, <4>1, <4>3
      <4> QED
        BY <2>3, <4>1, <4>2, <4>3
    <3>2. ASSUME NEW x \in then PROVE x \in Range(r)
      <4>1. CASE x = e
        BY <2>2, <2>4, <2>5, <4>1
      <4>2. CASE x # e
        <5>1. x \in Range(rows)
          BY <1>5, <2>1, <3>2, <4>2
        <5>2. PICK i \in 1 .. Len(rows) : x = rows[i]
          BY <2>5, <5>1
        <5>3. i \in 1 .. Len(r) /\ r[i] = x
          BY <2>2, <2>4, <5>2
        <5> QED
          BY <2>5, <5>3
      <4> QED
        BY <4>1, <4>2
    <3> QED
      BY <3>1, <3>2
  <2>7. ASSUME NEW i \in DOMAIN r, NEW j \in DOMAIN r, r[i] = r[j] PROVE i = j
    <3>1. \A k \in 1 .. Len(rows) : rows[k] # e
      BY <1>5, <2>1, <2>5
    <3> QED
      BY <1>3, <1>4, <2>2, <2>3, <2>7, <3>1
  <2>8. max > 0 => Len(r) <= max
    BY <1>4, <1>7, <2>2
  <2>9. Len(r) = Cardinality(then)
    BY <1>2, <2>1, <2>2
  <2>10. RowsOf(n, then)
    BY <2>2, <2>6, <2>7, <2>8, <2>9 DEF RowsOf, r
  <2> QED
    BY <2>10 DEF then
<1> QED
  BY <1>6, <1>7

\* A listing ends: rows are missing for the limit, or because the scan failed.
LEMMA RowsOut ==
    ASSUME NEW q, NEW n, NEW f, NEW c, NEW seen \in SUBSET Paths, RowsOf(q, seen), n.r = q.r,
           n.rows = q.rows, q.r.max \in Nat, There(f, c, q.r.path, seen),
           n.more = (q.r.max > 0 /\ Len(q.rows) < Cardinality(seen)),
           ~n.bad => \A p \in Paths : Parent[p] = q.r.path /\ f[p] # None => p \in seen
    PROVE  Truthful(f, n, c)
<1> DEFINE rows == q.rows
           max == q.r.max
<1>1. /\ rows \in Seq(Paths) /\ Range(rows) \subseteq seen
      /\ \A i, j \in DOMAIN rows : rows[i] = rows[j] => i = j
      /\ max > 0 => Len(rows) <= max
      /\ \/ Range(rows) = seen /\ Len(rows) = Cardinality(seen)
         \/ Range(rows) # seen /\ max > 0 /\ Len(rows) = max /\ max < Cardinality(seen)
  BY DEF RowsOf
<1>2. Cardinality(seen) \in Nat /\ Len(rows) \in Nat
  BY <1>1, UssAssumption, FS_Subset, FS_CardinalityType
<1>3. There(f, c, q.r.path, Range(rows))
  BY <1>1 DEF There
<1>4. n.more => /\ Len(rows) = max
                /\ \E p \in Paths \ Range(rows) : There(f, c, q.r.path, {p})
  <2>1. SUFFICES ASSUME n.more PROVE /\ Len(rows) = max
                                     /\ \E p \in Paths \ Range(rows) : There(f, c, q.r.path, {p})
    OBVIOUS
  <2> DEFINE card == Cardinality(seen)
  <2>a. max > 0 /\ Len(rows) < card
    BY ONLY <2>1, n.more = (q.r.max > 0 /\ Len(q.rows) < Cardinality(seen))
  <2>b. /\ card \in Nat /\ Len(rows) \in Nat
        /\ \/ Range(rows) = seen /\ Len(rows) = card
           \/ Range(rows) # seen /\ max > 0 /\ Len(rows) = max /\ max < card
    BY <1>1, <1>2
  <2>2. Range(rows) # seen /\ Len(rows) = max
    <3> HIDE DEF card, rows, max
    <3> QED
      BY <2>a, <2>b
  <2>3. PICK p \in seen : p \notin Range(rows)
    BY <1>1, <2>2
  <2>4. There(f, c, q.r.path, {p})
    BY <2>3 DEF There
  <2> QED
    BY <2>2, <2>3, <2>4
<1>5. ~n.more => Range(rows) = seen
  BY <1>1, <1>2
<1> HIDE DEF rows, max
<1>6. n.rows = rows /\ n.r.max = max /\ n.r.path = q.r.path
  BY DEF rows, max
<1> QED
  BY <1>1, <1>3, <1>4, <1>5, <1>6 DEF Truthful

LEMMA ScanningStep ==
    ASSUME UssInv, UssInv', WatchInv, NEW w \in Workers, Step(w), Kind(w), Watch,
           rq'[w].pc # "idle"
    PROVE  Scanning(fs', rq'[w], changed'[w])
<1> DEFINE q == rq[w]
           n == rq'[w]
           c == changed[w]
           d == changed'[w]
<1>1. SUFFICES ASSUME n.r.op = "list" PROVE Scanning(fs', n, d)
  BY DEF Scanning
<1>2. Shape(n) /\ Route(n)
  BY DEF UssInv, Good
<1>3. Quiet(w, n) \/ ReceiveStep(w, n)
  BY <1>1, KindIs DEF ReadStep
<1>4. CASE ReceiveStep(w, n)
  <2>1. n.rows = << >> /\ n.pc # "list" /\ n.ans # "200"
    BY <1>4 DEF ReceiveStep
  <2> HIDE DEF n
  <2> QED
    BY <2>1 DEF Scanning
<1>5. CASE Quiet(w, n)
  <2>1. /\ q.pc # "idle" /\ n.r = q.r /\ fs' = fs
        /\ n.pc = "ufs" => q.pc = "body"
        /\ n.pc = "diropen" => q.pc = "ufs" /\ n.rows = q.rows
        /\ n.pc = "list" \/ n.ans = "200" => q.pc \in {"diropen", "list", "stat"}
    BY <1>1, <1>5 DEF Quiet, Stay
  <2>2. /\ Shape(q) /\ Route(q) /\ Holding(q, h[w]) /\ Scanning(fs, q, c)
        /\ q.r.path \in Paths /\ q.r.max \in Nat
    BY <2>1, Typed, Asked DEF WatchInv, Watched, Shape, Route
  <2>3. n.pc \in {"ufs", "diropen"} => n.rows = << >>
    BY <1>1, <2>1, <2>2 DEF Route, Scanning
  <2>4. CASE ~(n.pc = "list" \/ n.ans = "200")
    <3> HIDE DEF n
    <3> QED
      BY <2>3, <2>4 DEF Scanning
  <2>5. CASE n.pc = "list" \/ n.ans = "200"
    <3>1. q.pc \in ListSteps
      BY <2>1, <2>5 DEF ListSteps
    <3>2. DirOpen(w) \/ DirRead(w) \/ Stat(w)
      BY <3>1, ListOnly
    <3>3. \A m : Go(w, m) => n = m
      BY DEF Go, UssInv
    <3>4. CASE DirOpen(w)
      <4>1. n.pc = "stat" \/ OpenedStep(w, n)
        BY <3>3, <3>4, DirOpenInv
      <4>2. OpenedStep(w, n)
        BY <1>2, <2>5, <4>1 DEF Route
      <4>3. /\ n.pc = "list" /\ n.rows = << >> /\ n.dirs = <<Frame(q.r.path)>>
        BY <1>1, <2>1, <2>2, <4>2 DEF OpenedStep, Scanning
      <4>4. n.ans = "none"
        BY <1>2, <4>3 DEF Route
      <4>5. Scanned(n) = {}
        BY <4>3 DEF Scanned, Frame
      <4>6. RowsOf(n, {})
        <5>1. << >> \in Seq(Paths) /\ Range(<< >>) = {} /\ Len(<< >>) = 0
          BY DEF Range
        <5>2. n.r.max \in Nat
          BY <2>1, <2>2
        <5> HIDE DEF n
        <5> QED
          BY <4>3, <5>1, <5>2, FS_EmptySet DEF RowsOf
      <4> HIDE DEF n, d
      <4> QED
        BY <4>3, <4>4, <4>5, <4>6 DEF Scanning, There
    <3>5. CASE Stat(w)
      <4>1. n.pc = "answer" /\ (n.ans = "404" \/ n.rows = <<q.r.path>>)
        BY <3>3, <3>5, StatInv
      <4> HIDE DEF n, d
      <4> QED
        BY <2>1, <4>1 DEF Scanning
    <3>6. CASE DirRead(w)
      <4>1. q.pc = "list" /\ q.r.op = "list"
        BY <1>1, <2>1, <3>6 DEF DirRead, At
      <4> DEFINE seen == Scanned(q)
      <4>2. /\ seen \in SUBSET Paths /\ q.dirs[Len(q.dirs)] \in Frames
            /\ RowsOf(q, seen) /\ There(fs, c, q.r.path, seen)
        BY <2>2, <4>1, ScannedPaths DEF Scanning
      <4>3. Reads(n)
        BY <1>1, <1>2, <2>5 DEF Reads, Route
      <4>4. ASSUME NEW s \in SUBSET Paths, There(fs, c, q.r.path, s)
            PROVE  There(fs', d, q.r.path, s)
        BY <2>1, <4>3, <4>4, Noted DEF There
      <4>5. \/ \E e : RowStep(w, e, n)
            \/ \E bad : ListedStep(w, bad, n)
            \/ n.pc = "answer" /\ n.ans = "closed"
        <5>1. \/ \E e, m : RowStep(w, e, m)
              \/ \E bad, m : ListedStep(w, bad, m)
              \/ \E m : Go(w, m) /\ m.pc = "answer" /\ m.ans = "closed"
          BY <3>6, DirReadInv
        <5>2. \A m : (\E e : RowStep(w, e, m)) \/ (\E bad : ListedStep(w, bad, m)) => Go(w, m)
          BY Zenon DEF RowStep, ListedStep
        <5> HIDE DEF n
        <5> QED
          BY ONLY <3>3, <5>1, <5>2, Zenon
      <4>6. ASSUME NEW e, RowStep(w, e, n) PROVE Scanning(fs', n, d)
        <5>1. /\ n.pc = "list" /\ n.ans = "none" /\ n.r = q.r
              /\ e \in Entries(q.r.path) /\ e \notin seen
              /\ n.dirs = <<[q.dirs[Len(q.dirs)] EXCEPT !.seen = seen \cup {e}]>>
              /\ n.rows = IF q.r.max > 0 /\ Len(q.rows) >= q.r.max THEN q.rows
                          ELSE Append(q.rows, e)
          BY <4>6 DEF RowStep, Scanned
        <5>2. e \in Paths /\ Parent[e] = q.r.path /\ fs[e] # None
          BY <5>1 DEF Entries, Exists
        <5>3. Scanned(n) = seen \cup {e}
          <6> DEFINE f == [q.dirs[Len(q.dirs)] EXCEPT !.seen = seen \cup {e}]
          <6>1. f.seen = seen \cup {e}
            BY <4>2 DEF Frames
          <6>2. n.dirs = <<f>>
            BY <5>1
          <6> HIDE DEF f, seen, n
          <6> QED
            BY <6>1, <6>2 DEF Scanned
        <5>4. RowsOf(n, seen \cup {e})
          <6> HIDE DEF n, q, seen
          <6> QED
            BY <2>2, <4>2, <5>1, <5>2, RowsMore
        <5>5. There(fs, c, q.r.path, seen \cup {e})
          BY <4>2, <5>2 DEF There
        <5>6. There(fs', d, q.r.path, seen \cup {e})
          BY <4>2, <4>4, <5>2, <5>5
        <5> HIDE DEF n, d, seen, q
        <5> QED
          BY <5>1, <5>3, <5>4, <5>6 DEF Scanning
      <4>7. ASSUME NEW bad, ListedStep(w, bad, n) PROVE Scanning(fs', n, d)
        <5>1. /\ n.pc = "answer" /\ n.r = q.r /\ n.rows = q.rows
              /\ n.more = (q.r.max > 0 /\ Len(q.rows) < Cardinality(seen))
              /\ ~n.bad => Entries(q.r.path) \subseteq seen
          BY <4>7 DEF ListedStep, Scanned
        <5>2. ~n.bad => \A p \in Paths : Parent[p] = q.r.path /\ fs'[p] # None => p \in seen
          BY <2>1, <5>1 DEF Entries, Exists
        <5>3. There(fs', d, q.r.path, seen)
          BY <4>2, <4>4
        <5> HIDE DEF n, d, seen, q
        <5>4. Truthful(fs', n, d)
          BY <2>2, <4>2, <5>1, <5>2, <5>3, RowsOut
        <5> QED
          BY <5>1, <5>4 DEF Scanning
      <4>8. CASE n.pc = "answer" /\ n.ans = "closed"
        <5> HIDE DEF n, d
        <5> QED
          BY <4>8 DEF Scanning
      <4> QED
        BY <4>5, <4>6, <4>7, <4>8
    <3> QED
      BY <3>2, <3>4, <3>5, <3>6
  <2> QED
    BY <2>4, <2>5
<1> QED
  BY <1>3, <1>4, <1>5

LEMMA WatchInit == ASSUME Init PROVE WatchInv
BY Idle DEF Init, WatchInv, Watched

LEMMA WatchNext ==
    ASSUME UssInv, TraceInv, WatchInv, [Next]_vars PROVE WatchInv'
<1>1. CASE UNCHANGED vars
  BY <1>1 DEF WatchInv, vars
<1>2. ASSUME NEW w \in Workers, Step(w), Watch PROVE WatchInv'
  <2>1. UssInv' /\ Kind(w)
    BY <1>2, StepKind
  <2>2. Watched(fs', rq'[w], changed'[w])
    BY <1>2, <2>1, SendingStep, ScanningStep DEF Watched
  <2>3. ASSUME NEW v \in Workers, v # w PROVE Watched(fs', rq'[v], changed'[v])
    <3>1. rq'[v] = rq[v]
      BY <2>1, <2>3, KindOthers
    <3>2. Watched(fs, rq[v], changed[v])
      BY DEF WatchInv
    <3> QED
      BY <1>2, <3>1, <3>2, WatchedKept
  <2> QED
    BY <2>2, <2>3 DEF WatchInv
<1> QED
  BY <1>1, <1>2 DEF Next, Finished

-----------------------------------------------------------------------------
(* Nothing short. *)

\* In every state: a file is sent as it is unless it changed under the read, what was written
\* is what the body was, and the rows of a listing are the entries met so far, up to the
\* limit (uss_stream_file, ussPutHandler, ussListHandler).
THEOREM WatchInvariant == Spec => [](UssInv /\ TraceInv /\ WatchInv)
<1>1. Init => UssInv /\ TraceInv /\ WatchInv
  BY UssInit, TraceInit, WatchInit
<1>2. UssInv /\ TraceInv /\ WatchInv /\ [Next]_vars => (UssInv /\ TraceInv /\ WatchInv)'
  BY UssNext, TraceNext, WatchNext
<1> QED
  BY <1>1, <1>2, PTL DEF Spec

\* What is not whole does not look whole: a file that is answered 200 was sent to its last
\* chunk, a write that was reported is in the file, and a listing has every entry that was
\* there throughout or says that there is more, unless its scan failed (uss_stream_file,
\* ussPutHandler, ussListHandler).
THEOREM NothingIsShort == Spec => []NothingShort
<1>1. ASSUME UssInv, TraceInv, WatchInv PROVE NothingShort
  <2>1. ASSUME NEW w \in Workers, At(w, "answer")
        PROVE  /\ P(w) \in Paths /\ P(w) = rq[w].r.path /\ R(w) = rq[w].r
               /\ rq[w].pc = "answer" /\ Written(fs, rq[w])
               /\ Sending(fs, rq[w], changed[w]) /\ Scanning(fs, rq[w], changed[w])
    BY <1>1, <2>1, AtStep DEF TraceInv, WatchInv, Watched
  <2>2. ReadIsWhole
    <3>1. SUFFICES ASSUME NEW w \in Workers, At(w, "answer"), R(w).op = "get",
                          rq[w].ans = "200", P(w) \notin Rewritten(w)
                   PROVE  rq[w].sent = [k \in 1 .. fs[P(w)].len |-> <<fs[P(w)].v, k>>]
      BY Zenon DEF ReadIsWhole
    <3>2. Sending(fs, rq[w], changed[w]) /\ P(w) = rq[w].r.path /\ R(w) = rq[w].r
          /\ P(w) \in Paths
      BY <2>1, <3>1
    <3>3. <<P(w), "data">> \notin changed[w]
      BY <3>1, <3>2, Zenon DEF Rewritten
    <3>4. rq[w].sent = [k \in 1 .. fs[rq[w].r.path].len |-> <<fs[rq[w].r.path].v, k>>]
      BY <3>1, <3>2, <3>3, Zenon DEF Sending
    <3> QED
      BY <3>2, <3>4, Zenon
  <2>3. StoredIsBody
    BY <2>1 DEF StoredIsBody, Written, Exists
  <2>4. ListHonest
    <3>1. SUFFICES ASSUME NEW w \in Workers, At(w, "answer"), R(w).op = "list",
                          rq[w].ans = "200", rq[w].rows # <<P(w)>>
                   PROVE  LET entries == {p \in Paths : Parent[p] = P(w)}
                              rows == rq[w].rows
                          IN  /\ \A p \in Range(rows) :
                                   p \in entries /\ (Exists(p) \/ p \in Moved(w))
                              /\ \A i, j \in DOMAIN rows : rows[i] = rows[j] => i = j
                              /\ R(w).max > 0 => Len(rows) <= R(w).max
                              /\ rq[w].more =>
                                   /\ Len(rows) = R(w).max
                                   /\ \E p \in entries \ Range(rows) : Exists(p) \/ p \in Moved(w)
                              /\ ~rq[w].more /\ ~rq[w].bad =>
                                   \A p \in entries :
                                     Exists(p) /\ p \notin Moved(w) => p \in Range(rows)
      BY DEF ListHonest
    <3> DEFINE q == rq[w]
               c == changed[w]
    <3>2. Truthful(fs, q, c) /\ P(w) = q.r.path /\ R(w) = q.r
      BY <2>1, <3>1 DEF Scanning
    <3>3. \A p \in Paths : /\ Exists(p) <=> fs[p] # None
                           /\ p \in Moved(w) <=> <<p, "entry">> \in c
      BY DEF Exists, Moved
    <3>4. Range(q.rows) \subseteq Paths
      BY <3>2 DEF Truthful, Range
    <3>5. \A s \in SUBSET Paths : There(fs, c, P(w), s) =>
            \A p \in s : Parent[p] = P(w) /\ (Exists(p) \/ p \in Moved(w))
      BY <3>3 DEF There
    <3>6. ASSUME q.more
          PROVE  \E p \in Paths \ Range(q.rows) :
                   Parent[p] = P(w) /\ (Exists(p) \/ p \in Moved(w))
      <4>1. PICK p \in Paths \ Range(q.rows) : There(fs, c, P(w), {p})
        BY <3>2, <3>6 DEF Truthful
      <4> QED
        BY <3>5, <4>1
    <3> HIDE DEF q, c
    <3> QED
      BY <3>2, <3>3, <3>4, <3>5, <3>6 DEF Truthful, q
  <2> QED
    BY <2>2, <2>3, <2>4 DEF NothingShort
<1> QED
  BY <1>1, WatchInvariant, PTL
=============================================================================
