-------------------------------- MODULE Uss --------------------------------
(***************************************************************************)
(* The USS handlers (src/ussapi.c, src/ussread.c): files and directories   *)
(* of a UFSD file system, worked on by several connections at once.  Every *)
(* UFSD request is a step of its own.                                      *)
(*                                                                         *)
(* UFSD is not part of the repository: what it does with a request is      *)
(* modelled from how the handlers use it.  It holds no lock across two     *)
(* requests.  A file's content is the number of the request that wrote it  *)
(* and how many of its chunks are there; a stamp is the content it was     *)
(* computed over.                                                          *)
(***************************************************************************)
EXTENDS Integers, Sequences, SequencesExt, FiniteSets

CONSTANTS
    Workers,      \* connections, each with a UFS session of its own
    Paths,
    Parent,       \* the directory of each path; None at the top
    Long,         \* paths too long for a UFSD request block, not for mvsMF
    Start0,       \* the tree at the start
    Perms, DefPerm,
    MaxChunks,    \* bound on the length of a file
    Requests,
    MaxRequests,
    MaxFaults,
    None

Versions == 0 .. MaxRequests
Chunks == 0 .. MaxChunks
Node == [kind : {"file", "dir"}, v : Versions, len : Chunks, perm : Perms]
Codes == {"OK", "NOFILE", "EXIST", "NOTDIR", "ISDIR", "NOTEMPTY", "NOSPACE", "IO", "ROFS"}
Dir(perm) == [kind |-> "dir", v |-> 0, len |-> 0, perm |-> perm]
File(v, len, perm) == [kind |-> "file", v |-> v, len |-> len, perm |-> perm]

ASSUME UssAssumption ==
    /\ None \notin Paths /\ DefPerm \in Perms /\ Long \subseteq Paths
    /\ Parent \in [Paths -> Paths \cup {None}]
    /\ \A S \in SUBSET Paths : S # {} => \E p \in S : Parent[p] \notin S
    /\ IsFiniteSet(Paths)
    /\ Start0 \in [Paths -> Node \cup {None}] /\ \A p \in Long : Start0[p] = None
    /\ \A p \in Paths : Start0[p] # None => Start0[p].v = 0
    /\ MaxRequests \in Nat /\ MaxFaults \in Nat /\ MaxChunks \in Nat
    /\ None \notin Requests /\ None \notin Versions \X Chunks /\ None \notin Node
    /\ \A r \in Requests : /\ r.op \in {"list", "get", "put", "create", "delete", "util"}
                           /\ r.path \in Paths /\ r.perm \in Perms
                           /\ r.len \in Chunks /\ r.max \in Nat

VARIABLES
    fs,     \* the file system
    h,      \* the UFS session of each connection: last rc and create permission
    rq,     \* the request of each connection
    held,   \* the stamp each client was last given, of which file, and what it had read
    count,  \* requests so far
    faults, \* failures so far
    changed \* for the properties: what changed under a read or a list since its open

vars == <<fs, h, rq, held, count, faults, changed>>

Steps == {"idle", "body", "ufs", "diropen", "list", "stat", "hash", "open", "read", "match", "probe",
          "truncate", "write", "close", "stamp", "perm", "exists", "make", "remove", "rmdir",
          "enter", "scan", "unlink", "unwind", "answer"}

\* One request: where it is; its body buffer, its open file and directories; the
\* content its stamp pass read; the chunks sent; the rows listed; its number and answer.
\* For the properties: what it changed, whether it lost data at a close, and whether a
\* read of its directory or the write of its body failed.
NoRequest == [pc |-> "idle", r |-> None, buf |-> FALSE, fp |-> FALSE, dirs |-> << >>, tag |-> None,
              sent |-> << >>, rows |-> << >>, more |-> FALSE, n |-> 0, ans |-> "none",
              touched |-> {}, lost |-> FALSE, bad |-> FALSE]

NoStamp == [tag |-> None, by |-> None, path |-> None, read |-> {}]

Init ==
    /\ fs = Start0
    /\ h = [w \in Workers |-> [rc |-> "OK", perm |-> DefPerm]]
    /\ rq = [w \in Workers |-> NoRequest]
    /\ held = [w \in Workers |-> NoStamp]
    /\ count = 0 /\ faults = 0
    /\ changed = [w \in Workers |-> {}]

-----------------------------------------------------------------------------
(* Steps of a connection. *)

At(w, step) == rq[w].pc = step
R(w) == rq[w].r
P(w) == rq[w].r.path

To(w, step) == [rq[w] EXCEPT !.pc = step]
Answer(q, a) == [q EXCEPT !.pc = "answer", !.ans = a]

Stay == UNCHANGED fs
Keep(w) == UNCHANGED h
Rc(w, rc) == h' = [h EXCEPT ![w].rc = rc]
Go(w, new) == rq' = [rq EXCEPT ![w] = new] /\ UNCHANGED <<held, count>>
NoFault == UNCHANGED faults
Fault == faults < MaxFaults /\ faults' = faults + 1

\* ufsd_rc_to_http; the category and the message come from tables over the same codes.
Http(rc) ==
    CASE rc = "OK" -> "200"
      [] rc = "NOFILE" -> "404"
      [] rc \in {"EXIST", "NOTDIR", "ISDIR", "NOTEMPTY", "ROFS"} -> "400"
      [] OTHER -> "500"

\* An open that failed and recorded nothing is a missing file (uss_open_rc).
OpenRc(rc) == IF rc = "OK" THEN "NOFILE" ELSE rc

(* UFSD: external. *)
Exists(p) == fs[p] # None
IsDir(p) == Exists(p) /\ fs[p].kind = "dir"
ParentThere(p) == Parent[p] = None \/ IsDir(Parent[p])
Entries(d) == {p \in Paths : Parent[p] = d /\ Exists(p)}
ReadRc(p) == IF ~Exists(p) THEN "NOFILE" ELSE IF IsDir(p) THEN "ISDIR" ELSE "OK"
WriteRc(p) == IF IsDir(p) THEN "ISDIR" ELSE IF ~ParentThere(p) THEN "NOFILE" ELSE "OK"
DirRc(p) == IF ~Exists(p) THEN "NOFILE" ELSE IF IsDir(p) THEN "OK" ELSE "NOTDIR"
RemoveRc(p) == ReadRc(p)
AtEnd(p, k) == IF Exists(p) THEN k > fs[p].len ELSE TRUE
RmdirRc(p) == IF ~Exists(p) THEN "NOFILE" ELSE IF ~IsDir(p) THEN "NOTDIR"
              ELSE IF Entries(p) # {} THEN "NOTEMPTY" ELSE "OK"
MkdirRc(p) == IF Exists(p) THEN "EXIST" ELSE IF ~ParentThere(p) THEN "NOFILE" ELSE "OK"
\* A request may fail for reasons of its own; an open of a path too long for the
\* request block never reaches UFSD and records no rc.
Refusals == {"IO", "NOSPACE", "ROFS"}
Recorded(w, p, rc) == IF p \in Long THEN Keep(w) ELSE Rc(w, rc)
LastRc(w, p, rc) == IF p \in Long THEN h[w].rc ELSE rc

\* The outcomes of a UFSD request whose rc is rc when nothing else goes wrong.
Outcome(rc, step(_)) == (NoFault /\ step(rc)) \/ (Fault /\ \E e \in Refusals : step(e))

-----------------------------------------------------------------------------
\* A request arrives; a path too long for mvsMF, a type it does not offer or a missing
\* parameter is refused before anything is read.
Receive(w) ==
    /\ At(w, "idle") /\ count < MaxRequests
    /\ count' = count + 1
    /\ \E r \in Requests :
         LET q == [NoRequest EXCEPT !.r = r, !.n = count + 1]
         IN  rq' = [rq EXCEPT ![w] =
               IF r.flaw = "early" THEN Answer(q, "400")
               ELSE [q EXCEPT !.pc = IF r.op \in {"put", "create", "util"} THEN "body" ELSE "ufs"]]
    /\ UNCHANGED <<fs, h, held, faults>>

\* The body is read before the file is touched: what the reader cannot deliver is
\* answered, and the rest of the request is not looked at.
Body(w, op, next) ==
    /\ At(w, "body") /\ R(w).op = op /\ Stay /\ Keep(w)
    /\ \/ NoFault /\ Go(w, next)
       \/ Fault /\ \E a \in {"400", "413", "500"} : Go(w, Answer(rq[w], a))

Checked(w, next) == IF R(w).flaw = "body" THEN Answer(rq[w], "400") ELSE next

PutBody(w) == Body(w, "put", [To(w, "ufs") EXCEPT !.buf = TRUE])

\* A create parses type and mode and frees the body.
CreateBody(w) == Body(w, "create", Checked(w, To(w, "ufs")))

\* A utility needs no UFS session: it is answered from the body.
UtilBody(w) == Body(w, "util", Checked(w, Answer(rq[w], "200")))

\* No UFSD is a 503; a PUT frees its body before it answers.
NoUfs(w) == Answer([rq[w] EXCEPT !.buf = FALSE], "503")

\* uss_get_ufs
GetUfs(w) ==
    /\ At(w, "ufs") /\ Stay /\ Keep(w)
    /\ \/ /\ NoFault
          /\ Go(w, To(w, CASE R(w).op = "list" -> "diropen"
                           [] R(w).op = "get" -> IF R(w).cond \/ R(w).etag THEN "hash" ELSE "open"
                           [] R(w).op = "put" -> IF R(w).cond THEN "match" ELSE "truncate"
                           [] R(w).op = "create" -> "perm"
                           [] R(w).op = "delete" -> "remove"))
       \/ Fault /\ Go(w, NoUfs(w))

-----------------------------------------------------------------------------
(* List. *)

\* An open directory: the entries its scan has read, and the last of them.  UFSD gives
\* an entry once, in an order of its own.
Frame(d) == [dir |-> d, seen |-> {}, entry |-> None]
Top(w) == Last(rq[w].dirs)

DirOpen(w) ==
    /\ At(w, "diropen") /\ Stay /\ Rc(w, DirRc(P(w)))
    /\ \/ NoFault /\ IsDir(P(w)) /\ Go(w, [To(w, "list") EXCEPT !.dirs = <<Frame(P(w))>>])
       \/ ~IsDir(P(w)) /\ NoFault /\ Go(w, To(w, "stat"))
       \/ Fault /\ Go(w, To(w, "stat"))

\* An entry that was read is counted, and is a row up to the limit (0: none).
Row(w, e) ==
    LET full == R(w).max > 0 /\ Len(rq[w].rows) >= R(w).max
    IN  [rq[w] EXCEPT !.dirs = <<[Top(w) EXCEPT !.seen = @ \cup {e}]>>,
                      !.rows = IF full THEN @ ELSE Append(@, e)]

\* A defect: a page that is just full counts as one that left rows out.
MutListed(w, bad) ==
    Answer([rq[w] EXCEPT !.dirs = << >>, !.bad = bad,
              !.more = R(w).max > 0 /\ Len(rq[w].rows) = R(w).max], "200")

\* The end of the document, and moreRows when rows were left out.
Listed(w, bad) ==
    Answer([rq[w] EXCEPT !.dirs = << >>, !.bad = bad,
              !.more = R(w).max > 0 /\ Len(rq[w].rows) < Cardinality(Top(w).seen)], "200")

\* ufs_dirread, entry by entry.  It returns nothing at the end of the directory and when
\* it fails, and the loop takes both for the end; a write to the client may fail.
DirRead(w) ==
    /\ At(w, "list") /\ Stay /\ Keep(w)
    /\ LET left == Entries(P(w)) \ Top(w).seen
       IN  \/ NoFault /\ \E e \in left : Go(w, Row(w, e))
           \/ NoFault /\ left = {} /\ Go(w, Listed(w, FALSE))
           \/ Fault /\ Go(w, Listed(w, TRUE))
           \/ Fault /\ Go(w, Answer([rq[w] EXCEPT !.dirs = << >>], "closed"))

\* No directory: perhaps a file, looked for in the directory above (uss_stat_file).
Stat(w) ==
    /\ At(w, "stat") /\ Stay
    /\ \/ /\ NoFault /\ Rc(w, IF ParentThere(P(w)) THEN "OK" ELSE "NOTDIR")
          /\ Go(w, IF Exists(P(w)) THEN Answer([rq[w] EXCEPT !.rows = <<P(w)>>], "200")
                   ELSE Answer(rq[w], "404"))
       \/ Fault /\ Rc(w, "IO") /\ Go(w, Answer(rq[w], "404"))

-----------------------------------------------------------------------------
(* Read. *)

\* uss_etag: a pass of its own, opened and closed; a short pass gives no stamp.
\* Another request may come between any two reads of it, but a stamp over a mixture
\* matches nothing: the pass is one step.
Hashed(p, ok) == IF p \notin Long /\ ReadRc(p) = "OK" /\ ok THEN <<fs[p].v, fs[p].len>> ELSE None

Hash(w) ==
    /\ At(w, "hash") /\ Stay /\ Recorded(w, P(w), ReadRc(P(w)))
    /\ \E ok \in BOOLEAN :
         LET tag == Hashed(P(w), ok)
         IN  /\ IF ok THEN NoFault ELSE Fault
             /\ Go(w, IF tag # None /\ R(w).cond /\ held[w].tag = tag
                      THEN Answer([rq[w] EXCEPT !.tag = tag], "304")
                      ELSE [To(w, "open") EXCEPT !.tag = tag])

GetOpen(w) ==
    /\ At(w, "open") /\ Stay
    /\ LET step(rc) ==
             /\ Recorded(w, P(w), rc)
             /\ Go(w, IF rc = "OK" THEN [To(w, "read") EXCEPT !.fp = TRUE]
                      ELSE Answer(rq[w], Http(OpenRc(LastRc(w, P(w), rc)))))
       IN  Outcome(ReadRc(P(w)), step)

\* A read that returns nothing is the end of the file only when the handle says so:
\* otherwise the connection is closed over a short body (uss_get_failed).
ReadFailed(w) == Answer([rq[w] EXCEPT !.fp = FALSE], "closed")

MutReadStamp(w) ==
    /\ At(w, "read") /\ Stay /\ Keep(w)
    /\ LET k == Len(rq[w].sent) + 1
           shut(a) == Answer([rq[w] EXCEPT !.fp = FALSE, !.tag = Hashed(P(w), TRUE)], a)
       IN  \/ NoFault /\ ~AtEnd(P(w), k)
              /\ Go(w, [rq[w] EXCEPT !.sent = Append(@, <<fs[P(w)].v, k>>)])
           \/ NoFault /\ AtEnd(P(w), k) /\ Go(w, shut("200"))
           \/ Fault /\ Go(w, ReadFailed(w))
\* uss_stream_file: chunk by chunk.
Read(w) ==
    /\ At(w, "read") /\ Stay /\ Keep(w)
    /\ LET k == Len(rq[w].sent) + 1
           shut(a) == Answer([rq[w] EXCEPT !.fp = FALSE], a)
       IN  \/ NoFault /\ ~AtEnd(P(w), k)
              /\ Go(w, [rq[w] EXCEPT !.sent = Append(@, <<fs[P(w)].v, k>>)])
           \/ NoFault /\ AtEnd(P(w), k) /\ Go(w, shut("200"))
           \/ Fault /\ Go(w, ReadFailed(w))

-----------------------------------------------------------------------------
(* Write. *)

MutMatch(w) ==
    /\ At(w, "match") /\ NoFault /\ Keep(w) /\ ReadRc(P(w)) = "OK"
    /\ IF held[w].tag = Hashed(P(w), TRUE) THEN Stay /\ Go(w, To(w, "truncate"))
       ELSE /\ fs' = [fs EXCEPT ![P(w)].len = 0]
            /\ Go(w, Answer([rq[w] EXCEPT !.buf = FALSE, !.touched = {P(w)}], "412"))
\* uss_check_if_match: a file that cannot be read fails the precondition, a directory
\* is left to the open.
Match(w) ==
    /\ At(w, "match") /\ Stay /\ Recorded(w, P(w), ReadRc(P(w)))
    /\ \E ok \in BOOLEAN :
         LET tag == Hashed(P(w), ok)
         IN  /\ IF ok THEN NoFault ELSE Fault
             /\ Go(w, IF tag = None THEN To(w, "probe")
                      ELSE IF held[w].tag = tag THEN [To(w, "truncate") EXCEPT !.tag = tag]
                      ELSE Answer([rq[w] EXCEPT !.buf = FALSE], "412"))

MatchProbe(w) ==
    /\ At(w, "probe") /\ Stay /\ Recorded(w, P(w), IF Exists(P(w)) THEN "OK" ELSE "NOFILE")
    /\ \/ NoFault /\ IsDir(P(w)) /\ Go(w, To(w, "truncate"))
       \/ ((~IsDir(P(w)) /\ NoFault) \/ Fault)
          /\ Go(w, Answer([rq[w] EXCEPT !.buf = FALSE], "412"))

\* The "w" open creates the file or cuts it to nothing.
Cut(w, p) == IF Exists(p) THEN [fs[p] EXCEPT !.v = rq[w].n, !.len = 0]
             ELSE File(rq[w].n, 0, h[w].perm)
Open4w(w, then(_)) ==
    LET step(rc) ==
          /\ Recorded(w, P(w), rc)
          /\ fs' = IF rc = "OK" THEN [fs EXCEPT ![P(w)] = Cut(w, P(w))] ELSE fs
          /\ then(rc)
    IN  Outcome(IF P(w) \in Long THEN "NOFILE" ELSE WriteRc(P(w)), step)

PutOpen(w) ==
    /\ At(w, "truncate")
    /\ LET then(rc) == Go(w, IF rc = "OK" THEN [To(w, "write") EXCEPT !.fp = TRUE, !.touched = {P(w)}]
                             ELSE Answer([rq[w] EXCEPT !.buf = FALSE],
                                         Http(OpenRc(LastRc(w, P(w), rc)))))
       IN  Open4w(w, then)

\* What the file holds after k chunks of this request's body, if it is still there.
Wrote(w, k) == IF Exists(P(w)) /\ ~IsDir(P(w))
               THEN [fs EXCEPT ![P(w)].v = rq[w].n, ![P(w)].len = k] ELSE fs

\* A short write is an error, whatever the handle says of it; the file is closed and the
\* body freed on every path.
PutWrite(w) ==
    /\ At(w, "write") /\ Keep(w)
    /\ \/ NoFault /\ fs' = Wrote(w, R(w).len) /\ Go(w, To(w, "close"))
       \/ /\ Fault /\ R(w).len > 0
          /\ \E k \in 0 .. R(w).len - 1 : fs' = Wrote(w, k)
          /\ \E rc \in Codes :
               Go(w, Answer([rq[w] EXCEPT !.fp = FALSE, !.buf = FALSE, !.bad = TRUE],
                            IF rc = "OK" THEN "500" ELSE Http(rc)))

\* The close writes what is still buffered; nobody looks at how it ended.
PutClose(w) ==
    /\ At(w, "close") /\ Keep(w)
    /\ LET q == [To(w, "stamp") EXCEPT !.fp = FALSE]
       IN  \/ NoFault /\ Stay /\ Go(w, q)
           \/ /\ Fault /\ R(w).len > 0
              /\ fs' = Wrote(w, R(w).len - 1) /\ Go(w, [q EXCEPT !.lost = TRUE])

\* The stamp of the file as it stands, from a pass over the closed file.
PutStamp(w) ==
    /\ At(w, "stamp") /\ Stay
    /\ Recorded(w, P(w), IF R(w).etag THEN ReadRc(P(w)) ELSE "OK")
    /\ \E ok \in BOOLEAN :
         /\ IF ok THEN NoFault ELSE Fault
         /\ Go(w, Answer([rq[w] EXCEPT !.buf = FALSE,
                            !.tag = IF R(w).etag THEN Hashed(P(w), ok) ELSE None], "204"))

-----------------------------------------------------------------------------
(* Create. *)

\* The permission for what is created is set on the session and put back on every path.
SetPerm(w) ==
    /\ At(w, "perm") /\ Stay /\ NoFault
    /\ h' = [h EXCEPT ![w].perm = R(w).perm]
    /\ Go(w, To(w, "exists"))

MutRestored(w, rc) == h' = [h EXCEPT ![w].perm = IF rc = "OK" THEN DefPerm ELSE @,
                                     ![w].rc = IF P(w) \in Long THEN @ ELSE rc]
Restored(w, rc) == h' = [h EXCEPT ![w].perm = DefPerm,
                                  ![w].rc = IF P(w) \in Long THEN @ ELSE rc]

\* Is it there already: an open for a file, a directory open for a directory.
CreateExists(w) ==
    /\ At(w, "exists") /\ Stay
    /\ LET there == IF R(w).type = "file" THEN ReadRc(P(w)) = "OK" ELSE IsDir(P(w))
           rc == IF R(w).type = "file" THEN ReadRc(P(w)) ELSE DirRc(P(w))
       IN  \/ NoFault /\ there /\ Restored(w, rc) /\ Go(w, Answer(rq[w], "400"))
           \/ NoFault /\ ~there /\ Recorded(w, P(w), rc) /\ Go(w, To(w, "make"))
           \/ Fault /\ Recorded(w, P(w), "IO") /\ Go(w, To(w, "make"))

\* The file is made by a "w" open, the directory by mkdir; only mkdir takes "nothing
\* recorded" for a missing directory.
Make(w) ==
    /\ At(w, "make")
    /\ LET p == P(w)
           file == R(w).type = "file"
           rc == IF p \in Long THEN "NOFILE" ELSE IF file THEN WriteRc(p) ELSE MkdirRc(p)
           new == IF file THEN Cut(w, p) ELSE Dir(h[w].perm)
           said(e) == IF file THEN LastRc(w, p, e) ELSE OpenRc(LastRc(w, p, e))
           step(e) ==
             /\ Restored(w, e)
             /\ fs' = IF e = "OK" THEN [fs EXCEPT ![p] = new] ELSE fs
             /\ Go(w, IF e = "OK" THEN Answer([rq[w] EXCEPT !.touched = {p}], "201")
                      ELSE Answer(rq[w], Http(said(e))))
       IN  Outcome(rc, step)

-----------------------------------------------------------------------------
(* Delete. *)

Gone(w, p, new) == fs' = [fs EXCEPT ![p] = None]
                   /\ Go(w, [new EXCEPT !.touched = @ \cup {p}])

\* One request removes a file; a directory says so, and goes another way.
RemoveFile(w) ==
    /\ At(w, "remove")
    /\ LET step(rc) ==
             /\ Rc(w, rc)
             /\ CASE rc = "OK" -> Gone(w, P(w), Answer(rq[w], "204"))
                  [] rc = "ISDIR" -> Stay /\ Go(w, To(w, IF R(w).recursive THEN "enter" ELSE "rmdir"))
                  [] OTHER -> Stay /\ Go(w, Answer(rq[w], Http(rc)))
       IN  Outcome(RemoveRc(P(w)), step)

MutRmdir(w) ==
    /\ At(w, "rmdir") /\ NoFault
    /\ LET p == IF rq[w].dirs # << >> THEN Last(rq[w].dirs).dir ELSE P(w)
           done == IF Len(rq[w].dirs) > 1 THEN [To(w, "scan") EXCEPT !.dirs = Front(@)]
                   ELSE Answer([rq[w] EXCEPT !.dirs = << >>], "204")
       IN  /\ Rc(w, RmdirRc(p))
           /\ IF RmdirRc(p) = "OK" THEN Gone(w, p, done) ELSE Stay /\ Go(w, done)
\* A directory is removed when it is empty: the one asked for, or the one whose scan
\* has ended, which takes the recursion a level up.
Rmdir(w) ==
    /\ At(w, "rmdir")
    /\ LET p == IF rq[w].dirs # << >> THEN Last(rq[w].dirs).dir ELSE P(w)
           up == IF rq[w].dirs # << >> THEN [rq[w] EXCEPT !.dirs = Front(@)] ELSE rq[w]
           step(rc) ==
             /\ Rc(w, rc)
             /\ CASE rc # "OK" -> Stay /\ Go(w, [up EXCEPT !.pc = "unwind"])
                  [] rc = "OK" /\ up.dirs # << >> -> Gone(w, p, [up EXCEPT !.pc = "scan"])
                  [] OTHER -> Gone(w, p, Answer(up, "204"))
       IN  Outcome(RmdirRc(p), step)

\* uss_recursive_delete, depth first: the directory asked for, or the entry the scan has
\* met, is opened.
Enter(w) ==
    /\ At(w, "enter") /\ Stay
    /\ LET d == IF rq[w].dirs = << >> THEN P(w) ELSE Top(w).entry
           step(rc) == /\ Rc(w, rc)
                       /\ Go(w, IF rc = "OK" THEN [To(w, "scan") EXCEPT !.dirs = Append(@, Frame(d))]
                                ELSE To(w, "unwind"))
       IN  Outcome(DirRc(d), step)

\* The next entry, in the order UFSD has them, decides by the type the scan found it
\* with; the end of the scan, or a read that failed, closes the directory.
Scan(w) ==
    /\ At(w, "scan") /\ Stay /\ Keep(w)
    /\ LET top == Len(rq[w].dirs)
           left == Entries(Top(w).dir) \ Top(w).seen
           met(e) == [Top(w) EXCEPT !.seen = @ \cup {e}, !.entry = e]
       IN  \/ ((left = {} /\ NoFault) \/ Fault) /\ Go(w, To(w, "rmdir"))
           \/ NoFault /\ \E e \in left :
                Go(w, [To(w, IF IsDir(e) THEN "enter" ELSE "unlink") EXCEPT !.dirs[top] = met(e)])

Unlink(w) ==
    /\ At(w, "unlink")
    /\ LET e == Top(w).entry
           step(rc) == /\ Rc(w, rc)
                       /\ IF rc = "OK" THEN Gone(w, e, To(w, "scan"))
                          ELSE Stay /\ Go(w, To(w, "unwind"))
       IN  Outcome(RemoveRc(e), step)

\* A failure closes every directory on its way up and is the answer.
Unwind(w) ==
    /\ At(w, "unwind") /\ Stay /\ NoFault /\ Keep(w)
    /\ Go(w, IF rq[w].dirs # << >> THEN [rq[w] EXCEPT !.dirs = Front(@)]
             ELSE Answer(rq[w], Http(h[w].rc)))

-----------------------------------------------------------------------------
\* The answer is out.  A client keeps the stamp it was given, and what it has read.
Finish(w) ==
    /\ At(w, "answer") /\ UNCHANGED <<fs, h, count, faults>>
    /\ rq' = [rq EXCEPT ![w] = [NoRequest EXCEPT !.buf = rq[w].buf, !.fp = rq[w].fp,
                                                 !.dirs = rq[w].dirs]]
    /\ held' = [held EXCEPT ![w] =
                  IF rq[w].ans \in {"200", "204"} /\ rq[w].tag # None
                  THEN [tag |-> rq[w].tag, by |-> R(w).op, path |-> P(w),
                        read |-> Range(rq[w].sent)] ELSE @]

Step(w) ==
    \/ Receive(w) \/ PutBody(w) \/ CreateBody(w) \/ UtilBody(w) \/ GetUfs(w) \/ DirOpen(w)
    \/ DirRead(w) \/ Stat(w) \/ Hash(w) \/ GetOpen(w) \/ Read(w) \/ Match(w) \/ MatchProbe(w)
    \/ PutOpen(w) \/ PutWrite(w) \/ PutClose(w) \/ PutStamp(w) \/ SetPerm(w)
    \/ CreateExists(w) \/ Make(w) \/ RemoveFile(w) \/ Rmdir(w) \/ Enter(w) \/ Scan(w)
    \/ Unlink(w) \/ Unwind(w) \/ Finish(w)

\* While a file or a directory is read, and until the answer is out: the paths whose
\* content changed, and those that came or went.
Reads(q) == q.pc \in {"list", "read"} \/ (q.pc = "answer" /\ q.r.op \in {"list", "get"})
Watch ==
    changed' = [v \in Workers |->
      IF Reads(rq'[v])
      THEN changed[v] \cup ({p \in Paths : fs'[p] # fs[p]} \X {"data"})
                      \cup ({p \in Paths : (fs[p] = None) # (fs'[p] = None)} \X {"entry"})
      ELSE {}]

Finished == count = MaxRequests /\ (\A w \in Workers : At(w, "idle")) /\ UNCHANGED vars

Next == (\E w \in Workers : Step(w) /\ Watch) \/ Finished

Spec == Init /\ [][Next]_vars

-----------------------------------------------------------------------------
(* Properties. *)

Answers == {"none", "200", "201", "204", "304", "400", "404", "412", "413", "500", "503", "closed"}
Contents == Versions \X Chunks

\* Type invariant: the tree, the sessions and the requests.
TypeOK ==
    /\ fs \in [Paths -> Node \cup {None}]
    /\ h \in [Workers -> [rc : Codes, perm : Perms]]
    /\ count \in 0 .. MaxRequests /\ faults \in 0 .. MaxFaults
    /\ \A w \in Workers :
         /\ rq[w].pc \in Steps /\ rq[w].ans \in Answers
         /\ rq[w].pc = "answer" <=> rq[w].ans # "none"
         /\ rq[w].touched \subseteq Paths
         /\ rq[w].tag \in Contents \cup {None} /\ held[w].tag \in Contents \cup {None}

\* A finished request holds nothing: its body is freed, its file closed, and so is every
\* directory a recursive delete had open when it failed (ussPutHandler, uss_recursive_delete).
NothingHeld ==
    \A w \in Workers : At(w, "idle") => ~rq[w].buf /\ ~rq[w].fp /\ rq[w].dirs = << >>

\* The create permission is the session's, and the session outlives the request: only a
\* create may find another than the default there, so that a PUT never makes a file
\* with the mode of an earlier create that failed (ussCreateHandler).
PermRestored ==
    \A w \in Workers :
        (R(w) = None \/ rq[w].ans # "none" \/ R(w).op # "create") => h[w].perm = DefPerm

\* A request leaves nothing of itself on the session that the next one finds there.
SessionClean == TypeOK /\ NothingHeld /\ PermRestored

\* A write or create that is refused for its request, its body, its precondition or its
\* open, or for want of UFSD, has changed nothing: the truncating open comes last.  The
\* one failure behind it is that of the write itself, which is answered by its rc, with
\* 400 or 404 as well as with 500 (ussPutHandler; docs/endpoints/uss/put.md:137).
RefusalIsSilent ==
    \A w \in Workers :
        At(w, "answer") /\ R(w).op # "delete" /\ rq[w].ans \notin {"201", "204"}
        /\ (~rq[w].bad \/ rq[w].ans \in {"412", "413", "503"})
          => rq[w].touched = {}

\* What changed under the read or the list of w.
Rewritten(w) == {p \in Paths : <<p, "data">> \in changed[w]}
Moved(w) == {p \in Paths : <<p, "entry">> \in changed[w]}

\* A file that is answered 200 was sent whole, every chunk once and in order, unless
\* another request changed it after the open: a read that fails never ends like the end
\* of the file (uss_stream_file, uss_get_failed).
ReadIsWhole ==
    \A w \in Workers :
        At(w, "answer") /\ R(w).op = "get" /\ rq[w].ans = "200" /\ P(w) \notin Rewritten(w)
          => rq[w].sent = [k \in 1 .. fs[P(w)].len |-> <<fs[P(w)].v, k>>]

\* A stamp a client got with a file lets it overwrite that file only while the file
\* is what the client has read, whole, although others write between the stamp pass,
\* the read and the check: a stamp newer than its body would lose their update
\* (uss_check_if_match, ussGetHandler).
MatchSound ==
    [][\A w \in Workers :
         (/\ At(w, "match") /\ rq'[w].pc = "truncate"
          /\ held[w].by = "get" /\ held[w].path = P(w))
         => \A k \in 1 .. fs[P(w)].len : <<fs[P(w)].v, k>> \in held[w].read]_vars

\* What lies in a directory, itself included: what every set of paths has that has the
\* directory and, with a directory, all that is in it.
Inside ==
    [d \in Paths |->
       {p \in Paths : \A S \in SUBSET Paths :
          d \in S /\ (\A q \in Paths : Parent[q] \in S => q \in S) => p \in S}]

\* A delete is reported as done exactly when it removed what it was asked to remove, and
\* it removes nothing outside of it, whoever else works on the tree (ussDeleteHandler).
DeleteTruthful ==
    \A w \in Workers : At(w, "answer") /\ R(w).op = "delete" =>
        /\ rq[w].ans = "204" <=> P(w) \in rq[w].touched
        /\ rq[w].touched \subseteq Inside[P(w)]

\* A listing has only what was in the directory during the scan, each entry once and no
\* more than the limit; it says that there is more exactly when it left rows out for the
\* limit, and otherwise it has every entry that was there throughout, whoever else worked on
\* the directory.  A scan that a failed ufs_dirread ended may be short of them
\* (ussListHandler).
ListHonest ==
    \A w \in Workers :
      At(w, "answer") /\ R(w).op = "list" /\ rq[w].ans = "200" /\ rq[w].rows # <<P(w)>> =>
        LET entries == {p \in Paths : Parent[p] = P(w)}
            rows == rq[w].rows
        IN  /\ \A p \in Range(rows) : p \in entries /\ (Exists(p) \/ p \in Moved(w))
            /\ \A i, j \in DOMAIN rows : rows[i] = rows[j] => i = j
            /\ R(w).max > 0 => Len(rows) <= R(w).max
            /\ rq[w].more => /\ Len(rows) = R(w).max
                            /\ \E p \in entries \ Range(rows) : Exists(p) \/ p \in Moved(w)
            /\ ~rq[w].more /\ ~rq[w].bad =>
                 \A p \in entries : Exists(p) /\ p \notin Moved(w) => p \in Range(rows)

\* What a PUT reported as written is in the file, whole, unless another request has
\* written or removed the file since, or the close lost it (ussPutHandler).
StoredIsBody ==
    \A w \in Workers :
        At(w, "answer") /\ R(w).op = "put" /\ rq[w].ans = "204" /\ ~rq[w].lost /\ Exists(P(w))
        /\ fs[P(w)].v = rq[w].n => fs[P(w)].len = R(w).len

\* What is not whole does not look whole: a file that is read, a body that is written,
\* a directory that is listed.
NothingShort == ReadIsWhole /\ StoredIsBody /\ ListHonest
=============================================================================
