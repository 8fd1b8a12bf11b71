------------------------------ MODULE Console ------------------------------
(***************************************************************************)
(* The console REST handlers of src/consapi.c: issue a command, collect    *)
(* the rest of its answer.  Any number of httpd workers run them.          *)
(*                                                                         *)
(* A command is issued with SVC 34, which answers nothing: its echo and    *)
(* its reply lines appear in the Master Trace Table later, written by MVS  *)
(* and by the tasks that reply.  The issuing worker polls copies of the    *)
(* table until the answer looks complete.  The table has one stream of     *)
(* lines and no request identity, so the workers serialize the stretch     *)
(* from SVC 34 to the end of the polling with an exclusive ENQ, the        *)
(* console lock.  What was delivered is remembered per request in the      *)
(* name-keyed store (NTStore), of which this module uses the abstract map  *)
(* of KVMap: kv answers what was last stored, or nothing.                  *)
(*                                                                         *)
(* A copy of the table may fail (no storage), a handler may abend and is   *)
(* then cleaned up by the router, and the server may start to quiesce.     *)
(***************************************************************************)
EXTENDS MttBlock, FiniteSets

CONSTANTS
    Workers,        \* httpd worker tasks
    Cmds,           \* command texts
    Replies,        \* Replies[c]: the lines the system answers c with
    Noise,          \* lines written by others
    Kinds,          \* the kinds of issue request: async, unsol
    HasContext,     \* httpd provides the context to ENQ on
    Disturbed,      \* handlers may abend and the server may quiesce
    Window,         \* lines the table holds
    StablePolls,    \* equal polls that end the capture, 3 in the code
    MaxPolls,       \* polls until the capture's time limit is reached
    LockTries,      \* CONS_LOCK_TRIES
    MaxReq,         \* bound on issue requests
    MaxNoise,       \* bound on lines written by others
    MaxCollects,    \* bound on collect requests
    MaxSec,         \* bound on the clock
    Nobody

ASSUME ConsoleAssumption ==
    /\ Nobody \notin Workers \cup Cmds
    /\ {Window, StablePolls, MaxPolls, LockTries, MaxReq} \subseteq Nat \ {0}
    /\ {MaxNoise, MaxCollects, MaxSec, Cap} \subseteq Nat
    /\ Day \in Nat /\ MaxSec < Day
    /\ HasContext \in BOOLEAN
    /\ Disturbed \in BOOLEAN

VARIABLES
    \* the system
    quiesce,   \* HTTPD_FLAG_QUIESCE or HTTPD_FLAG_SHUTDOWN
    sec,       \* the clock
    tbl,       \* the Master Trace Table, oldest line first
    written,   \* lines written so far
    noise,     \* lines written by others so far
    landed,    \* landed[r]: lines of request r's command that are written
    echoAt,    \* echoAt[r]: the second its echo was written in, -1 before
    \* shared by the workers
    lock,      \* holder of the console lock
    kv,        \* the cursors in the store
    \* each worker
    pc,
    req,       \* the request it serves
    cap,       \* its capture: stable, prev, polls, looked, total, sec, out, end
    cur,       \* the cursor it works on
    \* requests
    nreq,      \* issue requests received
    ncol,      \* collect requests received
    ask,       \* ask[r]: what request r asked for
    issued,    \* how often SVC 34 was executed for request r
    answer,    \* the answer to request r
    got,       \* lines returned under the key of request r, in order
    pin        \* the second of the echo its capture ended with (history)

sysVars == <<quiesce, sec, tbl, written, noise, landed, echoAt>>
vars == <<sysVars, lock, kv, pc, req, cap, cur, nreq, ncol, ask, issued, answer, got, pin>>

Requests == 1..MaxReq
NoCursor == [cmd |-> Nobody, sec |-> -1, delivered |-> 0, out |-> << >>]
NoAsk == [cmd |-> Nobody, async |-> FALSE, unsol |-> "no"]
NoCapture == [stable |-> 0, prev |-> 0, polls |-> 0, looked |-> FALSE,
              total |-> 0, sec |-> -1, out |-> << >>, end |-> "open"]

\* From the lock to its release.
Bracket == {"issue", "anchor", "alloc", "poll", "release"}
Steps == Bracket \cup {"idle", "gate", "trylock", "captured", "detect", "arm",
                       "reply", "cget", "cpoll", "cset"}

Init ==
    /\ quiesce = FALSE /\ sec = 0 /\ tbl = << >> /\ written = 0 /\ noise = 0
    /\ landed = [r \in Requests |-> 0]
    /\ echoAt = [r \in Requests |-> -1]
    /\ lock = Nobody
    /\ kv = [r \in Requests |-> NoCursor]
    /\ pc = [w \in Workers |-> "idle"]
    /\ req = [w \in Workers |-> 0]
    /\ cap = [w \in Workers |-> NoCapture]
    /\ cur = [w \in Workers |-> NoCursor]
    /\ nreq = 0 /\ ncol = 0
    /\ ask = [r \in Requests |-> NoAsk]
    /\ issued = [r \in Requests |-> 0]
    /\ answer = [r \in Requests |-> "none"]
    /\ got = [r \in Requests |-> << >>]
    /\ pin = [r \in Requests |-> -1]

-----------------------------------------------------------------------------
(* MVS and the tasks that answer commands (external). *)

Write(e) ==
    /\ written' = written + 1
    /\ tbl' = LET t == Append(tbl, e)
              IN  IF Len(t) > Window THEN Tail(t) ELSE t

\* The command of request r is processed: its echo first, then its reply.
\* A multi-line reply carries the number of its message.
Land(r) ==
    LET script == Replies[ask[r].cmd]
        k == landed[r]
    IN  /\ issued[r] > 0
        /\ k <= Len(script)
        /\ Write(IF k = 0
                 THEN [sec |-> sec, src |-> Own, shape |-> "cmd", text |-> ask[r].cmd,
                       num |-> 0, id |-> [n |-> written + 1, of |-> r]]
                 ELSE [sec |-> IF script[k].shape = "cont" THEN -1 ELSE sec,
                       src |-> script[k].src, shape |-> script[k].shape,
                       text |-> Nobody, num |-> IF script[k].multi THEN r ELSE 0,
                       id |-> [n |-> written + 1, of |-> r]])
        /\ landed' = [landed EXCEPT ![r] = @ + 1]
        /\ echoAt' = IF k = 0 THEN [echoAt EXCEPT ![r] = sec] ELSE echoAt
        /\ UNCHANGED <<quiesce, sec, noise, lock, kv, pc, req, cap, cur, nreq, ncol,
                       ask, issued, answer, got, pin>>

WriteNoise ==
    /\ noise < MaxNoise
    /\ noise' = noise + 1
    /\ \E e \in Noise : Write([sec |-> sec, src |-> e.src, shape |-> e.shape,
                               text |-> Nobody, num |-> 0, id |-> [n |-> written + 1, of |-> 0]])
    /\ UNCHANGED <<quiesce, sec, landed, echoAt, lock, kv, pc, req, cap, cur, nreq, ncol,
                   ask, issued, answer, got, pin>>

Tick ==
    /\ sec < MaxSec
    /\ sec' = sec + 1
    /\ UNCHANGED <<quiesce, tbl, written, noise, landed, echoAt, lock, kv, pc, req, cap, cur,
                   nreq, ncol, ask, issued, answer, got, pin>>

\* P HTTPD
Quiesce ==
    /\ Disturbed
    /\ ~quiesce
    /\ quiesce' = TRUE
    /\ UNCHANGED <<sec, tbl, written, noise, landed, echoAt, lock, kv, pc, req, cap, cur,
                   nreq, ncol, ask, issued, answer, got, pin>>

\* The store drops a cursor: its lifetime is over or its slot was needed.
Evict(r) ==
    /\ kv[r] # NoCursor
    /\ kv' = [kv EXCEPT ![r] = NoCursor]
    /\ UNCHANGED <<sysVars, lock, pc, req, cap, cur, nreq, ncol, ask, issued, answer, got, pin>>

-----------------------------------------------------------------------------
(* PUT /zosmf/restconsoles/consoles/{name}: consoleIssueHandler. *)

Goto(w, step) == pc' = [pc EXCEPT ![w] = step]

\* console_lock_release: a no-op for a worker that does not hold the lock.
ReleaseLock(w) == lock' = IF lock = w THEN Nobody ELSE lock

\* A defect: the cleanup forgets the console lock.
MutLeave(w) ==
    /\ Goto(w, "idle")
    /\ req' = [req EXCEPT ![w] = 0]
    /\ cap' = [cap EXCEPT ![w] = NoCapture]
    /\ cur' = [cur EXCEPT ![w] = NoCursor]
    /\ UNCHANGED lock

\* The handler leaves: at `quit' it releases the lock if it still holds it.
\* After an abend the router's session_cleanup does.
Leave(w) ==
    /\ Goto(w, "idle")
    /\ req' = [req EXCEPT ![w] = 0]
    /\ cap' = [cap EXCEPT ![w] = NoCapture]
    /\ cur' = [cur EXCEPT ![w] = NoCursor]
    /\ ReleaseLock(w)

Quit(w, code) ==
    /\ Leave(w)
    /\ answer' = [answer EXCEPT ![req[w]] = code]

ReceiveIssue(w) ==
    /\ pc[w] = "idle"
    /\ nreq < MaxReq
    /\ nreq' = nreq + 1
    /\ \E c \in Cmds, k \in Kinds :
         ask' = [ask EXCEPT ![nreq + 1] = [cmd |-> c, async |-> k.async, unsol |-> k.unsol]]
    /\ req' = [req EXCEPT ![w] = nreq + 1]
    /\ Goto(w, "gate")
    /\ UNCHANGED <<sysVars, lock, kv, cap, cur, ncol, issued, answer, got, pin>>

\* Not authorized, a wrong header, body or field: 401, 403, 413, 400 or 500/8/1.
Refuse(w) ==
    /\ pc[w] = "gate"
    /\ Quit(w, "refused")
    /\ UNCHANGED <<sysVars, kv, nreq, ncol, ask, issued, got, pin>>

\* The server state is asked before the lock.
Gate(w) ==
    /\ pc[w] = "gate"
    /\ \/ /\ quiesce
          /\ Quit(w, "8/17")
       \/ /\ ~quiesce
          /\ Goto(w, IF HasContext THEN "trylock" ELSE "issue")
          /\ UNCHANGED <<lock, req, cap, cur, answer>>
    /\ UNCHANGED <<sysVars, kv, nreq, ncol, ask, issued, got, pin>>

\* One turn of console_lock_acquire: trylock, else look at the server state,
\* else nap; cap.polls counts the tries.
TryLock(w) ==
    /\ pc[w] = "trylock"
    /\ \/ /\ lock = Nobody
          /\ lock' = w
          /\ Goto(w, "issue")
          /\ cap' = [cap EXCEPT ![w] = NoCapture]
          /\ UNCHANGED <<req, cur, answer>>
       \/ /\ lock # Nobody /\ quiesce
          /\ Quit(w, "8/17")
       \/ /\ lock # Nobody /\ ~quiesce
          /\ IF cap[w].polls + 1 < LockTries
             THEN /\ cap' = [cap EXCEPT ![w].polls = @ + 1]
                  /\ UNCHANGED <<lock, pc, req, cur, answer>>
             ELSE Quit(w, "429")
    /\ UNCHANGED <<sysVars, kv, nreq, ncol, ask, issued, got, pin>>

\* issue_command: SVC 34
Issue(w) ==
    /\ pc[w] = "issue"
    /\ issued' = [issued EXCEPT ![req[w]] = @ + 1]
    /\ Goto(w, IF ask[req[w]].unsol = "no" THEN "alloc" ELSE "anchor")
    /\ UNCHANGED <<sysVars, lock, kv, req, cap, cur, nreq, ncol, ask, answer, got, pin>>

\* mtt_detect_anchor; without a copy of the table nothing can be armed.
TakeAnchor(w) ==
    /\ pc[w] = "anchor"
    /\ \/ Goto(w, "alloc") /\ UNCHANGED <<lock, req, cap, cur, answer>>
       \/ Quit(w, "8/14")
    /\ UNCHANGED <<sysVars, kv, nreq, ncol, ask, issued, got, pin>>

\* malloc of the response text
Alloc(w) ==
    /\ pc[w] = "alloc"
    /\ \/ Goto(w, "poll") /\ UNCHANGED <<lock, req, cap, cur, answer>>
       \/ Quit(w, "8/14")
    /\ UNCHANGED <<sysVars, kv, nreq, ncol, ask, issued, got, pin>>

\* A defect: the second of the first echo is kept, the lines are those of the last.
MutLooked(c, look) ==
    [c EXCEPT !.looked = TRUE, !.total = look.total, !.sec = IF @ < 0 THEN look.sec ELSE @,
              !.out = look.out, !.prev = look.total,
              !.stable = IF look.total = 0 THEN @
                         ELSE IF look.total = c.prev THEN @ + 1 ELSE 0]

\* A poll of capture_response that got its copy of the table, before the test
\* of the clock.
Looked(c, look) ==
    [c EXCEPT !.looked = TRUE, !.total = look.total, !.sec = look.sec,
              !.out = look.out, !.prev = look.total,
              !.stable = IF look.total = 0 THEN @
                         ELSE IF look.total = c.prev THEN @ + 1 ELSE 0]

\* The capture after a poll left it at c.  It ends when the answer was stable,
\* or when its time is over, at the latest with the last poll.
Ended(c) ==
    LET done == [c EXCEPT !.polls = @ + 1,
                          !.end = IF c.looked THEN "answer" ELSE "failed"]
    IN  IF c.looked /\ c.stable >= StablePolls THEN {done}
        ELSE {done} \cup (IF c.polls + 1 < MaxPolls
                          THEN {[c EXCEPT !.polls = @ + 1]} ELSE {})

\* One turn of capture_response.
Poll(w) ==
    /\ pc[w] = "poll"
    /\ \/ /\ quiesce
          /\ cap' = [cap EXCEPT ![w].end = "interrupted"]
          /\ Goto(w, "release")
       \/ /\ ~quiesce
          /\ \E c \in {Looked(cap[w], Correlate(tbl, ask[req[w]].cmd, -1, 0)), cap[w]} :
               \E d \in Ended(c) :
                  /\ cap' = [cap EXCEPT ![w] = d]
                  /\ Goto(w, IF d.end = "open" THEN "poll" ELSE "release")
    /\ UNCHANGED <<sysVars, lock, kv, req, cur, nreq, ncol, ask, issued, answer, got, pin>>

\* The next command may go while this request still waits or answers.
Release(w) ==
    /\ pc[w] = "release"
    /\ ReleaseLock(w)
    /\ Goto(w, "captured")
    /\ UNCHANGED <<sysVars, kv, req, cap, cur, nreq, ncol, ask, issued, answer, got, pin>>

\* A defect: an interrupted capture is answered like a refused command.
MutCaptured(w) ==
    /\ pc[w] = "captured"
    /\ cap[w].end = "interrupted"
    /\ Quit(w, "8/17")
    /\ UNCHANGED <<sysVars, kv, nreq, ncol, ask, issued, got, pin>>

\* The capture failed, was interrupted, or its result becomes the cursor of
\* the request (an async one starts at 0).  The store may be unavailable.
Captured(w) ==
    LET r == req[w]
        cursor == [cmd |-> ask[r].cmd, sec |-> cap[w].sec,
                   delivered |-> IF ask[r].async THEN 0 ELSE cap[w].total,
                   out |-> << >>]
    IN  /\ pc[w] = "captured"
        /\ \/ /\ cap[w].end = "failed"
              /\ Quit(w, "8/14")
              /\ UNCHANGED <<kv, pin>>
           \/ /\ cap[w].end = "interrupted"
              /\ Quit(w, "8/15")
              /\ UNCHANGED <<kv, pin>>
           \/ /\ cap[w].end = "answer"
              /\ kv' \in {kv, [kv EXCEPT ![r] = cursor]}
              /\ pin' = [pin EXCEPT ![r] = cap[w].sec]
              /\ cap' = [cap EXCEPT ![w].polls = 0]
              /\ Goto(w, CASE ask[r].unsol = "no" -> "reply"
                           [] ask[r].unsol = "sync" -> "detect"
                           [] OTHER -> "arm")
              /\ UNCHANGED <<lock, req, cur, answer>>
        /\ UNCHANGED <<sysVars, nreq, ncol, ask, issued, got>>

\* A defect that sets a new deadline in every turn.
MutDetectPoll(w) ==
    /\ pc[w] = "detect"
    /\ \/ Goto(w, "reply") /\ UNCHANGED cap
       \/ /\ cap' = [cap EXCEPT ![w].polls = IF @ < MaxPolls THEN @ + 1 ELSE 0]
          /\ UNCHANGED pc
    /\ UNCHANGED <<sysVars, lock, kv, req, cur, nreq, ncol, ask, issued, answer, got, pin>>

\* One turn of the wait for an unsolicited message (MttDetect has the count):
\* found; or not found or not looked, and the time is over or not.
DetectPoll(w) ==
    /\ pc[w] = "detect"
    /\ \/ /\ quiesce
          /\ Quit(w, "8/15")
       \/ /\ ~quiesce
          /\ Goto(w, "reply")                   \* "detected" or "timeout"
          /\ UNCHANGED <<lock, req, cap, cur, answer>>
       \/ /\ ~quiesce
          /\ Quit(w, "8/14")                    \* no copy at the last poll
       \/ /\ ~quiesce
          /\ cap[w].polls + 1 < MaxPolls
          /\ cap' = [cap EXCEPT ![w].polls = @ + 1]
          /\ UNCHANGED <<lock, pc, req, cur, answer>>
    /\ UNCHANGED <<sysVars, kv, nreq, ncol, ask, issued, got, pin>>

\* The detection is stored under a key of its own, which may cost another key
\* its slot.
ArmDetection(w) ==
    /\ pc[w] = "arm"
    /\ Goto(w, "reply")
    /\ kv' \in {kv} \cup {[kv EXCEPT ![r] = NoCursor] : r \in Requests}
    /\ UNCHANGED <<sysVars, lock, req, cap, cur, nreq, ncol, ask, issued, answer, got, pin>>

\* The answer is sent, or no storage is left to build it.
Reply(w) ==
    LET r == req[w]
    IN  /\ pc[w] = "reply"
        /\ \/ /\ Quit(w, "200")
              /\ got' = [got EXCEPT ![r] = IF ask[r].async THEN << >> ELSE cap[w].out]
           \/ /\ Quit(w, "lost")
              /\ UNCHANGED got
        /\ UNCHANGED <<sysVars, kv, nreq, ncol, ask, issued, pin>>

\* The handler abends; the router recovers the worker and cleans up.
Abend(w) ==
    /\ Disturbed
    /\ pc[w] # "idle"
    /\ Leave(w)
    /\ answer' = IF pc[w] \in {"cget", "cpoll", "cset"} THEN answer
                 ELSE [answer EXCEPT ![req[w]] = "abend"]
    /\ UNCHANGED <<sysVars, kv, nreq, ncol, ask, issued, got, pin>>

-----------------------------------------------------------------------------
(* GET .../solmsgs/{key}: consoleCollectHandler. *)

\* A client that has the key asks for more; it waits for the answer before it
\* asks again (the contract of ntstore.c:9-13).
ReceiveCollect(w) ==
    /\ pc[w] = "idle"
    /\ ncol < MaxCollects
    /\ ncol' = ncol + 1
    /\ \E r \in Requests :
         /\ answer[r] = "200"
         /\ \A u \in Workers : req[u] # r
         /\ req' = [req EXCEPT ![w] = r]
    /\ Goto(w, "cget")
    /\ UNCHANGED <<sysVars, lock, kv, cap, cur, nreq, ask, issued, answer, got, pin>>

\* nt_get; an unknown key is answered with no lines.
CollectGet(w) ==
    /\ pc[w] = "cget"
    /\ \/ /\ kv[req[w]] = NoCursor
          /\ Leave(w)
       \/ /\ kv[req[w]] # NoCursor
          /\ cur' = [cur EXCEPT ![w] = kv[req[w]]]
          /\ Goto(w, "cpoll")
          /\ UNCHANGED <<lock, req, cap>>
    /\ UNCHANGED <<sysVars, kv, nreq, ncol, ask, issued, answer, got, pin>>

\* collect_poll: the lines behind the cursor; the count only moves forward.  A
\* poll that could not be made leaves the cursor as it was.
CollectPoll(w) ==
    LET look == Correlate(tbl, cur[w].cmd, cur[w].sec, cur[w].delivered)
    IN  /\ pc[w] = "cpoll"
        /\ \/ cur' = [cur EXCEPT ![w].delivered = IF look.total > @ THEN look.total ELSE @,
                                 ![w].out = look.out]
           \/ UNCHANGED cur
        /\ Goto(w, "cset")
        /\ UNCHANGED <<sysVars, lock, kv, req, cap, nreq, ncol, ask, issued, answer, got, pin>>

\* nt_set, then the answer, which may be lost.
CollectSet(w) ==
    LET r == req[w]
    IN  /\ pc[w] = "cset"
        /\ kv' = [kv EXCEPT ![r] = [cur[w] EXCEPT !.out = << >>]]
        /\ got' \in {got, [got EXCEPT ![r] = @ \o cur[w].out]}
        /\ Leave(w)
        /\ UNCHANGED <<sysVars, nreq, ncol, ask, issued, answer, pin>>

-----------------------------------------------------------------------------
WorkerStep(w) ==
    \/ Refuse(w) \/ Gate(w) \/ TryLock(w) \/ Issue(w) \/ TakeAnchor(w) \/ Alloc(w)
    \/ Poll(w) \/ Release(w) \/ Captured(w) \/ DetectPoll(w) \/ ArmDetection(w)
    \/ Reply(w) \/ CollectGet(w) \/ CollectPoll(w) \/ CollectSet(w)

Environment ==
    \/ \E r \in Requests : Land(r) \/ Evict(r)
    \/ WriteNoise \/ Tick \/ Quiesce

\* The clients have stopped asking, or the server has stopped.
Stopped ==
    /\ quiesce \/ nreq = MaxReq
    /\ \A w \in Workers : pc[w] = "idle"
    /\ UNCHANGED vars

Next ==
    \/ \E w \in Workers : \/ ReceiveIssue(w) \/ ReceiveCollect(w)
                          \/ WorkerStep(w) \/ Abend(w)
    \/ Environment
    \/ Stopped

Spec == Init /\ [][Next]_vars

\* A worker's task runs on, and MVS finishes the commands it was given.
FairSpec ==
    /\ Spec
    /\ \A w \in Workers : WF_vars(WorkerStep(w))
    /\ \A r \in Requests : WF_vars(Land(r))

-----------------------------------------------------------------------------
(* Properties. *)

\* The table keeps its size, and a stored cursor counts lines from 0 and names a
\* second of the day or -1 (consapi.c: struct sol_cursor).
TypeOK ==
    /\ quiesce \in BOOLEAN
    /\ Len(tbl) <= Window
    /\ landed \in [Requests -> Nat]
    /\ lock \in Workers \cup {Nobody}
    /\ pc \in [Workers -> Steps]
    /\ req \in [Workers -> 0..MaxReq]
    /\ \A r \in Requests : kv[r].delivered \in Nat /\ kv[r].sec \in -1..(Day - 1)
    /\ nreq \in 0..MaxReq
    /\ issued \in [Requests -> Nat]

\* One command at a time (consapi.c:810-849): no two workers are between SVC 34
\* and the end of their polling, and a worker that has answered, failed,
\* abended or been interrupted does not keep the lock, which would answer every
\* later command with 429.
LockDiscipline ==
    /\ HasContext => \A w \in Workers : pc[w] \in Bracket => lock = w
    /\ lock # Nobody => pc[lock] \in Bracket

\* What the reason codes promise about a retry (docs/endpoints/console/
\* issue-command.md:166-187): after 429 and 8/17 the command was not issued, so
\* a retry is safe; after 200, 8/14 and 8/15 it was, and a retry issues it again.
AnswerTruthful ==
    \A r \in Requests :
        /\ answer[r] \in {"429", "8/17", "refused"} => issued[r] = 0
        /\ answer[r] \in {"200", "lost", "8/14", "8/15"} => issued[r] = 1
        /\ issued[r] <= 1

\* An echo of c in second s can be told from every other echo of the same command by
\* its second (collect.md:53-63 lists the cases in which it cannot).
Distinct(c, s) ==
    /\ s >= 0
    /\ \A q, p \in Requests :
         ask[q].cmd = c /\ echoAt[q] = s /\ ask[p].cmd = c /\ echoAt[p] = s => q = p

\* The echo that the capture of request r ended with can be told from the others.
Unambiguous(r) == Distinct(ask[r].cmd, pin[r])

\* The block behind the echo of c in second s has k lines and more, and out are its first.
BeginsBlock(c, s, k, out) ==
    Distinct(c, s) =>
        \A i \in Echoes(tbl, c) : tbl[i].sec = s =>
            k <= Len(Block(tbl, i)) /\ \A j \in 1 .. Len(out) : out[j] = Block(tbl, i)[j]

\* The lines, their count and the second of the echo that a capture has come to are
\* those of one block of the table (consapi.c:609-621), whichever polls had no copy of the
\* table or found another echo: the lines are the first ones behind the echo of that
\* second, as many as were counted or as the response text holds, and still are while the
\* table goes on.  So is the count in a stored cursor.  Otherwise collect would count
\* lines against another command's block.
CaptureInOnePiece ==
    /\ TypeOK
    /\ \A w \in Workers : pc[w] \in {"poll", "release", "captured", "detect", "arm", "reply"} =>
         /\ cap[w].end = "answer" => cap[w].looked
         /\ cap[w].total > 0 => cap[w].sec >= 0
         /\ Len(cap[w].out) = IF cap[w].total < Cap THEN cap[w].total ELSE Cap
         /\ BeginsBlock(ask[req[w]].cmd, cap[w].sec, cap[w].total, cap[w].out)
    /\ \A r \in Requests : kv[r] # NoCursor =>
         BeginsBlock(ask[r].cmd, kv[r].sec, kv[r].delivered, << >>)

\* No line is returned twice under one key, by the issue request and by any
\* number of collects, and the lines keep their order: collect counts against
\* the echo the key was handed out for (consapi.c:435-441), whatever commands
\* were issued since.
NoLineTwice ==
    \A r \in Requests : Unambiguous(r) =>
        \A i, j \in DOMAIN got[r] : i < j => got[r][i].n < got[r][j].n

\* Every request is answered, whatever the table, the lock and the server do.
RequestsAnswered == \A w \in Workers : pc[w] # "idle" ~> pc[w] = "idle"
=============================================================================
