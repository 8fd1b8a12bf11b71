------------------------------ MODULE Request ------------------------------
(***************************************************************************)
(* One request from main() to the end of the response (src/mvsmf.c,        *)
(* src/router.c): the identity the worker runs under, the handler under    *)
(* its ESTAE, the table of what the handler holds, the recovery after an   *)
(* abend, and the framing that tells the client whether a body is whole    *)
(* (src/common.c: abort_response).                                         *)
(*                                                                         *)
(* A handler is the order in which it opens, sends and closes; it may      *)
(* abend at each of these steps, in the service a step calls, and between  *)
(* the call that opens and the one that registers.  An abend outside the   *)
(* ESTAE takes the worker from mvsMF.  The console handlers and their ENQ  *)
(* are in module Console.                                                  *)
(***************************************************************************)
EXTENDS Integers, Sequences, FiniteSets, SequencesExt

CONSTANTS
    Workers,     \* httpd worker tasks
    Users,       \* ACEEs of httpd's credential store
    Handles,     \* FILE and JES handles of one worker
    MaxFiles,    \* MAX_SESSION_FILES, 4 in the code
    MaxLost,     \* bound on the resources that are lost
    Server,      \* the ACEE a worker has between requests
    None

ASSUME RequestAssumption ==
    /\ Server \notin Users
    /\ None \notin Users \cup Handles \cup Workers \cup {Server}
    /\ "enq" \notin Handles
    /\ MaxFiles \in Nat \ {0}
    /\ MaxLost \in Nat

VARIABLES
    pc,
    ses,    \* struct Session, its table of files as a set; the handler's own handle
            \* fp, what lock_res returned, and the steps left
    task,   \* the ACEE in the worker's TCB
    open,   \* what the worker really has open
    enq,    \* the worker that holds the data set list ENQ
    lost,   \* what nobody will close: its own close abended, or an abend came before
            \* it was registered or while the recovery ran outside its ESTAE
    resp    \* HTTPC: what is on the wire, and the two flags httpd ends it by

vars == <<pc, ses, task, open, enq, lost, resp>>

\* The handlers by what they hold and in which order they answer: a data set or
\* member read and a member list; a data set or member write; the job handlers;
\* the records of a spool data set; the data set list; login and logout.
Program == [stream |-> <<"open", "head", "body", "close">>,
            write  |-> <<"open", "close", "reply">>,
            jobs   |-> <<"jesopen", "reply", "jesclose">>,
            spool  |-> <<"jesopen", "head", "lines", "jesclose">>,
            list   |-> <<"lock", "unlock", "head", "body">>,
            auth   |-> <<"reply">>]

Kinds == DOMAIN Program
StepNames == UNION {Range(Program[k]) : k \in Kinds}

\* What is left of a handler that takes its quit path: the close it ends with, if any.
Quit(todo) ==
    IF todo # << >> /\ todo[Len(todo)] \in {"close", "jesclose"} THEN <<todo[Len(todo)]>>
    ELSE << >>

\* init_session
NoSession == [kind |-> "auth", cred |-> None, todo |-> << >>, acee |-> None,
              old |-> None, fp |-> None, granted |-> FALSE, files |-> {}, jes |-> None,
              dslock |-> FALSE, headersSent |-> FALSE]

NoResponse == [status |-> 0, framing |-> "none", whole |-> FALSE,
               chunked |-> FALSE, keepalive |-> TRUE]

Init ==
    /\ pc = [w \in Workers |-> "idle"]
    /\ ses = [w \in Workers |-> NoSession]
    /\ task = [w \in Workers |-> Server]
    /\ open = [w \in Workers |-> {}]
    /\ enq = None
    /\ lost = [w \in Workers |-> {}]
    /\ resp = [w \in Workers |-> NoResponse]

-----------------------------------------------------------------------------
(* The response. *)

Goto(w, step) == pc' = [pc EXCEPT ![w] = step]

\* What cannot be released is lost to w, as far as the bound allows.
Lose(w, what) ==
    /\ Cardinality(UNION {lost[v] \X {v} : v \in Workers} \cup (what \X {w})) <= MaxLost
    /\ lost' = [lost EXCEPT ![w] = @ \cup what]

\* Another status line: a head, and a body of which all or a part goes out.  A body
\* without framing ends with the connection.
Sent(r, framing, whole) ==
    [r EXCEPT !.status = @ + 1, !.framing = framing, !.whole = whole,
              !.chunked = framing = "chunked", !.keepalive = @ /\ framing # "close"]

\* abort_response, and httpd after a send that failed.
Aborted(r) == [r EXCEPT !.chunked = FALSE, !.keepalive = FALSE]

\* sendJSONResponse and sendErrorResponse: a head with a Content-Length, then
\* the body.  Without storage for the document nothing is sent at all.
Reply(w, todo) ==
    /\ \/ /\ resp' = [resp EXCEPT ![w] = Sent(@, "length", TRUE)]
          /\ ses' = [ses EXCEPT ![w].headersSent = TRUE, ![w].todo = todo]
       \/ /\ resp' = [resp EXCEPT ![w] = Aborted(Sent(@, "length", FALSE))]
          /\ ses' = [ses EXCEPT ![w].headersSent = TRUE, ![w].todo = todo]
       \/ /\ ses' = [ses EXCEPT ![w].todo = todo]
          /\ UNCHANGED resp

\* The client takes the response for complete: the terminating chunk that httpd
\* writes while chunked is set, as many bytes as were announced, or without framing
\* whatever came.
LooksComplete(w) ==
    \/ resp[w].framing = "close"
    \/ resp[w].framing = "chunked" /\ resp[w].chunked
    \/ resp[w].framing = "length" /\ resp[w].whole

-----------------------------------------------------------------------------
(* Before the handler. *)

\* httpd links the module for a request; main makes a fresh session.
Accept(w) ==
    /\ pc[w] = "idle"
    /\ \E k \in Kinds, u \in Users \cup {None} :
         ses' = [ses EXCEPT ![w] = [NoSession EXCEPT !.kind = k, !.cred = u]]
    /\ resp' = [resp EXCEPT ![w] = NoResponse]
    /\ Goto(w, "identify")
    /\ UNCHANGED <<task, open, enq, lost>>

\* A path httpd did not set, or a method that is none of the four: a bare
\* status, and no middleware runs.
Refuse(w) ==
    /\ pc[w] = "identify"
    /\ resp' = [resp EXCEPT ![w] = Sent(@, "length", TRUE)]
    /\ Goto(w, "return")
    /\ UNCHANGED <<ses, task, open, enq, lost>>

\* identity_middleware
Identify(w) ==
    /\ pc[w] = "identify"
    /\ \/ /\ ses[w].kind = "auth"
          /\ Goto(w, "route")
          /\ UNCHANGED <<ses, task, resp>>
       \/ /\ ses[w].kind # "auth" /\ ses[w].cred = None
          /\ resp' = [resp EXCEPT ![w] = Sent(@, "length", TRUE)]
          /\ ses' = [ses EXCEPT ![w].headersSent = TRUE]
          /\ Goto(w, "return")
          /\ UNCHANGED task
       \/ /\ ses[w].kind # "auth" /\ ses[w].cred # None
          /\ task' = [task EXCEPT ![w] = ses[w].cred]
          /\ ses' = [ses EXCEPT ![w].old = task[w], ![w].acee = ses[w].cred]
          /\ Goto(w, "route")
          /\ UNCHANGED resp
    /\ UNCHANGED <<open, enq, lost>>

\* find_route: the handler, or a 404 or 405.
Route(w) ==
    /\ pc[w] = "route"
    /\ \/ /\ ses' = [ses EXCEPT ![w].todo = Program[ses[w].kind]]
          /\ Goto(w, "run")
          /\ UNCHANGED resp
       \/ Reply(w, << >>) /\ Goto(w, "return")
    /\ UNCHANGED <<task, open, enq, lost>>

-----------------------------------------------------------------------------
(* The handler. *)

\* The next step of w's handler is s.
At(w, s) ==
    /\ pc[w] = "run"
    /\ ses[w].todo # << >>
    /\ Head(ses[w].todo) = s

Rest(w) == Tail(ses[w].todo)

\* The call is back, and the session does not know of it yet.
Opened(w, s) == pc[w] = "opened" /\ ses[w].todo # << >> /\ Head(ses[w].todo) = s

\* fopen or jesopen: a handle of the handler's own.
Opens(w, s) ==
    /\ At(w, s)
    /\ \E h \in Handles \ open[w] :
         /\ open' = [open EXCEPT ![w] = @ \cup {h}]
         /\ ses' = [ses EXCEPT ![w].fp = h]
    /\ Goto(w, "opened")
    /\ UNCHANGED <<task, enq, lost, resp>>

Fopen(w) == Opens(w, "open")
Jesopen(w) == Opens(w, "jesopen")

\* session_register_file, whose table may be full.
RegisterFile(w) ==
    /\ Opened(w, "open")
    /\ ses' = [ses EXCEPT ![w].files = IF Cardinality(@) < MaxFiles THEN @ \cup {ses[w].fp} ELSE @,
                          ![w].todo = Rest(w)]
    /\ Goto(w, "run")
    /\ UNCHANGED <<task, open, enq, lost, resp>>

\* session_register_jes, which has one slot.
RegisterJes(w) ==
    /\ Opened(w, "jesopen")
    /\ ses' = [ses EXCEPT ![w].jes = IF @ = None THEN ses[w].fp ELSE @, ![w].todo = Rest(w)]
    /\ Goto(w, "run")
    /\ UNCHANGED <<task, open, enq, lost, resp>>

\* Nothing to open: the error is the answer.
OpenFails(w) ==
    /\ At(w, "open") \/ At(w, "jesopen")
    /\ Reply(w, << >>)
    /\ UNCHANGED <<pc, task, open, enq, lost>>

\* A file that cannot be sent as asked, or no storage for the buffer, is
\* answered before the head; the file is still closed.
RefuseOpened(w) ==
    /\ At(w, "head")
    /\ Reply(w, Quit(Rest(w)))
    /\ UNCHANGED <<pc, task, open, enq, lost>>

\* session_fclose: the table forgets the handle, then fclose.
Fclose(w) ==
    /\ At(w, "close")
    /\ LET h == ses[w].fp IN
         /\ ses' = [ses EXCEPT ![w].files = @ \ {h},
                               ![w].fp = None, ![w].todo = Rest(w)]
         /\ \/ /\ open' = [open EXCEPT ![w] = @ \ {h}]
               /\ UNCHANGED <<pc, lost>>
            \/ /\ Lose(w, {h})
               /\ Goto(w, "recover")
               /\ UNCHANGED open
    /\ UNCHANGED <<task, enq, resp>>

\* session_jesclose: the slot is cleared, then jesclose.
Jesclose(w) ==
    /\ At(w, "jesclose")
    /\ LET h == ses[w].fp IN
         /\ ses' = [ses EXCEPT ![w].jes = IF @ = h THEN None ELSE @,
                               ![w].fp = None, ![w].todo = Rest(w)]
         /\ \/ /\ open' = [open EXCEPT ![w] = @ \ {h}]
               /\ UNCHANGED <<pc, lost>>
            \/ /\ Lose(w, {h})
               /\ Goto(w, "recover")
               /\ UNCHANGED open
    /\ UNCHANGED <<task, enq, resp>>

\* dslist_locked: lock_res waits for the ENQ; a task that still holds it from
\* an earlier request is told so, and goes on without a lock of its own.
LockDslist(w) ==
    /\ At(w, "lock")
    /\ enq \in {None, w}
    /\ enq' = w
    /\ ses' = [ses EXCEPT ![w].granted = (enq = None)]
    /\ Goto(w, "opened")
    /\ UNCHANGED <<task, open, lost, resp>>

\* The assignment to session->dslist_lock.
NoteDslist(w) ==
    /\ Opened(w, "lock")
    /\ ses' = [ses EXCEPT ![w].dslock = ses[w].granted, ![w].todo = Rest(w)]
    /\ Goto(w, "run")
    /\ UNCHANGED <<task, open, enq, lost, resp>>

\* After __listds: the flag is cleared, then the DEQ, which may abend.
UnlockDslist(w) ==
    /\ At(w, "unlock")
    /\ ses' = [ses EXCEPT ![w].dslock = FALSE, ![w].todo = Rest(w)]
    /\ \/ /\ enq' = IF ses[w].dslock THEN None ELSE enq
          /\ UNCHANGED <<pc, lost>>
       \/ /\ ses[w].dslock
          /\ Lose(w, {"enq"})
          /\ Goto(w, "recover")
          /\ UNCHANGED enq
    /\ UNCHANGED <<task, open, resp>>

\* The status and the headers of a streamed body, which httpd sends in chunks to an
\* HTTP/1.1 client and without framing to an HTTP/1.0 client; the client may be gone.
SendHead(w) ==
    /\ At(w, "head")
    /\ \/ /\ \E f \in {"chunked", "close"} : resp' = [resp EXCEPT ![w] = Sent(@, f, FALSE)]
          /\ ses' = [ses EXCEPT ![w].headersSent = TRUE, ![w].todo = Rest(w)]
       \/ /\ \E f \in {"chunked", "close"} : resp' = [resp EXCEPT ![w] = Aborted(Sent(@, f, FALSE))]
          /\ ses' = [ses EXCEPT ![w].headersSent = TRUE, ![w].todo = Quit(Rest(w))]
    /\ UNCHANGED <<pc, task, open, enq, lost>>

\* A defect that takes a read error for the end of the data.
MutSendBody(w) ==
    /\ At(w, "body")
    /\ \E r \in {[resp[w] EXCEPT !.whole = TRUE], resp[w], Aborted(resp[w])} :
         resp' = [resp EXCEPT ![w] = r]
    /\ ses' = [ses EXCEPT ![w].todo = Rest(w)]
    /\ UNCHANGED <<pc, task, open, enq, lost>>

\* The records: all of them, or a send or a read fails on the way.
SendBody(w) ==
    /\ At(w, "body")
    /\ \E r \in {[resp[w] EXCEPT !.whole = TRUE], Aborted(resp[w])} :
         resp' = [resp EXCEPT ![w] = r]
    /\ ses' = [ses EXCEPT ![w].todo = Rest(w)]
    /\ UNCHANGED <<pc, task, open, enq, lost>>

\* The lines of a spool data set (do_print_sysout): all of them, or the send
\* fails, or the walk ends early, which only the operator is told.
SendLines(w) ==
    /\ At(w, "lines")
    /\ \E r \in {[resp[w] EXCEPT !.whole = TRUE], Aborted(resp[w]), resp[w]} :
         resp' = [resp EXCEPT ![w] = r]
    /\ ses' = [ses EXCEPT ![w].todo = Rest(w)]
    /\ UNCHANGED <<pc, task, open, enq, lost>>

SendReply(w) ==
    /\ At(w, "reply")
    /\ Reply(w, Rest(w))
    /\ UNCHANGED <<pc, task, open, enq, lost>>

HandlerReturns(w) ==
    /\ pc[w] = "run"
    /\ ses[w].todo = << >>
    /\ Goto(w, "return")
    /\ UNCHANGED <<ses, task, open, enq, lost, resp>>

-----------------------------------------------------------------------------
(* Recovery, and the end of the request. *)

\* try() catches an abend of the handler, whose own variables are gone.
Caught(w) ==
    /\ ses' = [ses EXCEPT ![w].todo = << >>, ![w].fp = None]
    /\ Goto(w, "recover")
    /\ UNCHANGED <<task, open, enq, resp>>

Abend(w) == pc[w] = "run" /\ Caught(w) /\ UNCHANGED lost

\* It comes before the session knows of what was just opened: that is lost.
AbendUnregistered(w) ==
    /\ pc[w] = "opened"
    /\ Lose(w, IF Opened(w, "lock") THEN (IF ses[w].granted THEN {"enq"} ELSE {})
               ELSE {ses[w].fp})
    /\ Caught(w)

Registered(w) == ses[w].files \cup ({ses[w].jes} \ {None})

\* A defect that forgets the list ENQ.
MutCleanup(w) ==
    /\ pc[w] = "recover"
    /\ open' = [open EXCEPT ![w] = @ \ Registered(w)]
    /\ ses' = [ses EXCEPT ![w].files = {}, ![w].jes = None, ![w].dslock = FALSE,
                          ![w].todo = << >>]
    /\ Goto(w, "report")
    /\ UNCHANGED <<task, enq, lost, resp>>

\* session_cleanup: each resource under its own try(), so one that abends again
\* is given up and the others are still released.
Cleanup(w) ==
    /\ pc[w] = "recover"
    /\ \E bad \in SUBSET (Registered(w) \cup (IF ses[w].dslock THEN {"enq"} ELSE {})) :
         /\ open' = [open EXCEPT ![w] = @ \ (Registered(w) \ bad)]
         /\ enq' = IF ses[w].dslock /\ "enq" \notin bad THEN None ELSE enq
         /\ Lose(w, bad)
    /\ ses' = [ses EXCEPT ![w].files = {}, ![w].jes = None, ![w].dslock = FALSE,
                          ![w].todo = << >>]
    /\ Goto(w, "report")
    /\ UNCHANGED <<task, resp>>

\* What runs outside every try(): the middleware and the route, report_abend_where, the
\* message session_cleanup writes of a file before it closes it, for which it looks into
\* the handle, and the report.  An abend there leaves mvsMF for the recovery of the HTTPD
\* worker, and what is registered and not yet closed with it; the worker is not seen again.
Escape(w) ==
    /\ pc[w] \in {"identify", "route", "recover", "report"}
    /\ \E closed \in SUBSET ses[w].files :
         /\ closed # {} => closed # ses[w].files
         /\ open' = [open EXCEPT ![w] = @ \ closed]
         /\ Lose(w, (Registered(w) \ closed) \cup (IF ses[w].dslock THEN {"enq"} ELSE {}))
    /\ ses' = [ses EXCEPT ![w] = NoSession]
    /\ Goto(w, "gone")
    /\ UNCHANGED <<task, enq, resp>>

\* The error report, or the connection when the status is already out.
Report(w) ==
    /\ pc[w] = "report"
    /\ \/ ~ses[w].headersSent /\ Reply(w, << >>)
       \/ /\ ses[w].headersSent
          /\ resp' = [resp EXCEPT ![w] = Aborted(@)]
          /\ UNCHANGED ses
    /\ Goto(w, "return")
    /\ UNCHANGED <<task, open, enq, lost>>

\* A defect that restores nothing when the handler has failed.
MutReturn(w) ==
    /\ pc[w] = "return"
    /\ task' = [task EXCEPT ![w] = IF ses[w].acee # None /\ resp[w].keepalive
                                  THEN ses[w].old ELSE @]
    /\ ses' = [ses EXCEPT ![w] = [NoSession EXCEPT !.kind = ses[w].kind]]
    /\ Goto(w, "ended")
    /\ UNCHANGED <<open, enq, lost, resp>>

\* main gives the worker its ACEE back, and the session ends with it.
Return(w) ==
    /\ pc[w] = "return"
    /\ task' = [task EXCEPT ![w] = IF ses[w].acee # None THEN ses[w].old ELSE @]
    /\ ses' = [ses EXCEPT ![w] = [NoSession EXCEPT !.kind = ses[w].kind]]
    /\ Goto(w, "ended")
    /\ UNCHANGED <<open, enq, lost, resp>>

\* httpd ends the response, and the worker takes the next request.
HttpDone(w) ==
    /\ pc[w] = "ended"
    /\ ses' = [ses EXCEPT ![w] = NoSession]
    /\ resp' = [resp EXCEPT ![w] = NoResponse]
    /\ Goto(w, "idle")
    /\ UNCHANGED <<task, open, enq, lost>>

Work(w) ==
    \/ Refuse(w) \/ Identify(w) \/ Route(w)
    \/ Fopen(w) \/ RegisterFile(w) \/ Jesopen(w) \/ RegisterJes(w) \/ OpenFails(w)
    \/ RefuseOpened(w) \/ Fclose(w) \/ Jesclose(w)
    \/ LockDslist(w) \/ NoteDslist(w) \/ UnlockDslist(w)
    \/ SendHead(w) \/ SendBody(w) \/ SendLines(w) \/ SendReply(w) \/ HandlerReturns(w)
    \/ Cleanup(w) \/ Report(w) \/ Return(w) \/ HttpDone(w)

Fail(w) == Abend(w) \/ AbendUnregistered(w) \/ Escape(w)

\* Every worker has left mvsMF: nothing serves a request any more.
AllGone == (\A w \in Workers : pc[w] = "gone") /\ UNCHANGED vars

Next == (\E w \in Workers : Accept(w) \/ Work(w) \/ Fail(w)) \/ AllGone

Spec == Init /\ [][Next]_vars

\* A dispatched worker runs on, and an ENQ is granted in the order it is asked
\* for; nothing makes a handler abend.
FairSpec ==
    /\ Spec
    /\ \A w \in Workers : WF_vars(Work(w)) /\ SF_vars(LockDslist(w))

-----------------------------------------------------------------------------
(* Properties. *)

\* The session table holds at most MaxFiles handles, all of them real ones, and
\* every task has an ACEE (router.h: struct session).
TypeOK ==
    /\ pc \in [Workers -> {"idle", "identify", "route", "run", "opened", "recover", "report",
                           "return", "ended", "gone"}]
    /\ \A w \in Workers :
         /\ ses[w].kind \in Kinds
         /\ ses[w].cred \in Users \cup {None}
         /\ ses[w].acee \in Users \cup {None}
         /\ ses[w].old \in Users \cup {Server, None}
         /\ ses[w].files \subseteq Handles /\ Cardinality(ses[w].files) <= MaxFiles
         /\ {ses[w].jes, ses[w].fp} \subseteq Handles \cup {None}
         /\ ses[w].dslock \in BOOLEAN
         /\ Range(ses[w].todo) \subseteq StepNames
    /\ task \in [Workers -> Users \cup {Server}]
    /\ open \in [Workers -> SUBSET Handles]
    /\ enq \in Workers \cup {None}
    /\ lost \in [Workers -> SUBSET (Handles \cup {"enq"})]

\* A request leaves no file, JES handle or ENQ behind, however it ended, except one
\* whose own close abended, one that an abend came on between the call that opened it
\* and the call that registers it, and what was registered when an abend escaped the
\* recovery (router.c: session_cleanup).
NothingHeld ==
    \A w \in Workers : pc[w] \in {"return", "ended", "idle", "gone"} =>
      /\ open[w] \subseteq lost[w]
      /\ enq = w => "enq" \in lost[w]

\* What the session has registered is open and held: the recovery never closes
\* a handle twice and never releases the ENQ of another worker.
RegisteredAreOpen ==
    \A w \in Workers :
      /\ Registered(w) \subseteq open[w] \ lost[w]
      /\ ses[w].dslock => enq = w /\ "enq" \notin lost[w]

\* The session's table is what is open, at every step of the handler but between an
\* open and its registration, and nothing else is left behind the request: with an
\* abend at any step, in a close or in the recovery (router.c: session_cleanup).
SessionSound == TypeOK /\ NothingHeld /\ RegisteredAreOpen

\* A handler other than login runs under the credential of its request and not
\* without one, the recovery and the report included; between requests every
\* worker has its own ACEE again (mvsmf.c: identity_middleware, main).
IdentityKept ==
    \A w \in Workers :
      /\ pc[w] \in {"run", "opened", "recover", "report"} =>
           task[w] = IF ses[w].kind = "auth" THEN Server ELSE ses[w].cred
      /\ pc[w] \in {"idle", "ended"} => task[w] = Server

\* What the client of w takes for complete is complete, and a connection that
\* carried a truncated response is not kept for the next.
HonestEnd(w) ==
    pc[w] = "ended" /\ resp[w].status > 0 =>
      /\ LooksComplete(w) => resp[w].whole
      /\ ~resp[w].whole => ~resp[w].keepalive

\* No response ends cleanly when it is short, whether a send, a read or the handler
\* failed (common.c: abort_response), but that of a spool data set and one without
\* framing: an HTTP/1.0 client "cannot tell the cut-off from a complete body"
\* (docs/endpoints/datasets/get.md:78).  Even there no second response follows a short one.
TruncationVisible ==
    \A w \in Workers : ses[w].kind # "spool" =>
      /\ resp[w].framing # "close" => HonestEnd(w)
      /\ pc[w] = "ended" /\ resp[w].status > 0 /\ ~resp[w].whole => ~resp[w].keepalive

\* "A short body that ends cleanly is the one outcome neither may produce"
\* (common.c:667), of every streaming handler whose client got a framed body.
NoCleanShortBody == \A w \in Workers : resp[w].framing # "close" => HonestEnd(w)

\* No response has a second status line (router.c: headers_sent).
OneStatusLine == \A w \in Workers : resp[w].status <= 1

\* The client can tell a failed response from a whole one, wherever it failed.
ResponseHonest == TruncationVisible /\ OneStatusLine

\* Every request ends, unless an abend has taken the worker from mvsMF or the list ENQ
\* is lost and the others wait for it.
RequestsEnd ==
    \A w \in Workers :
      pc[w] # "idle" ~> (pc[w] \in {"idle", "gone"} \/ \E v \in Workers : "enq" \in lost[v])
=============================================================================
