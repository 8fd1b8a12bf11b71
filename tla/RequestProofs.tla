--------------------------- MODULE RequestProofs ---------------------------
(***************************************************************************)
(* Proofs about one request, for any number of workers, users and handles: *)
(* nothing is left held, the identity is restored, and a response that is  *)
(* short can be told from a whole one.                                     *)
(*                                                                         *)
(* What a worker holds follows from the steps its handler has left.  The   *)
(* sets below sort the rests of the programs by what is held when a        *)
(* handler gets there and by what is already on the wire; TodoSteps says   *)
(* how each step leads from one set to another, and the other proofs use   *)
(* it instead of the programs.                                             *)
(***************************************************************************)
EXTENDS Request, TLAPS, FiniteSetTheorems

\* Nothing is held: not yet, or not any more.
Untouched == {Program[k] : k \in Kinds}
               \cup {<< >>, <<"reply">>, <<"body">>, <<"head", "body">>}
WithFile == {<<"head", "body", "close">>, <<"body", "close">>, <<"close">>, <<"close", "reply">>}
WithJes  == {<<"head", "lines", "jesclose">>, <<"lines", "jesclose">>,
             <<"reply", "jesclose">>, <<"jesclose">>}
WithLock == {<<"unlock", "head", "body">>}
Todos    == Untouched \cup WithFile \cup WithJes \cup WithLock

\* The status line is still to come.
Pending == {Program[k] : k \in Kinds}
             \cup {<<"reply">>, <<"head", "body">>, <<"head", "body", "close">>,
                   <<"close", "reply">>, <<"reply", "jesclose">>,
                   <<"head", "lines", "jesclose">>, <<"unlock", "head", "body">>}

\* The head is out and the body is not.
Middle == {<<"body">>, <<"body", "close">>}

\* Only the records of a spool data set get here.
SpoolOnly == {Program["spool"], <<"head", "lines", "jesclose">>, <<"lines", "jesclose">>}

-----------------------------------------------------------------------------
(* The inductive invariant. *)

Stages == {"idle", "identify", "route", "run", "opened", "recover", "report", "return", "ended",
           "gone"}

SessionType ==
    [kind : Kinds, cred : Users \cup {None}, todo : Todos, acee : Users \cup {None},
     old : Users \cup {Server, None}, fp : Handles \cup {None}, granted : BOOLEAN,
     files : SUBSET Handles, jes : Handles \cup {None}, dslock : BOOLEAN,
     headersSent : BOOLEAN]

ResponseType ==
    [status : {0, 1}, framing : {"none", "length", "chunked", "close"}, whole : BOOLEAN,
     chunked : BOOLEAN, keepalive : BOOLEAN]

Types ==
    /\ pc \in [Workers -> Stages]
    /\ ses \in [Workers -> SessionType]
    /\ task \in [Workers -> Users \cup {Server}]
    /\ open \in [Workers -> SUBSET Handles]
    /\ enq \in Workers \cup {None}
    /\ lost \in [Workers -> SUBSET (Handles \cup {"enq"})]
    /\ resp \in [Workers -> ResponseType]

HoldsNothing(s) == s.files = {} /\ s.jes = None /\ ~s.dslock

\* The registrations are what the rest of the handler expects, while it runs.
HoldsForTodo(s) ==
    \/ s.todo \in Untouched /\ HoldsNothing(s)
    \/ /\ s.todo \in WithFile
       /\ s.fp \in Handles /\ s.files = {s.fp} /\ s.jes = None /\ ~s.dslock
    \/ /\ s.todo \in WithJes
       /\ s.fp \in Handles /\ s.files = {} /\ s.jes = s.fp /\ ~s.dslock
    \/ s.todo \in WithLock /\ s.files = {} /\ s.jes = None

\* At most one file is registered, so the table is never full.
OneFile(s) == s.files = {} \/ \E h \in Handles : s.files = {h}

\* What the call that opens has left for the call that registers.
AwaitsRegistration(s) ==
    /\ s.todo # << >> /\ Head(s.todo) \in {"open", "jesopen", "lock"}
    /\ Head(s.todo) # "lock" => s.fp \in Handles

Holdings(w) ==
    /\ pc[w] = "run" => HoldsForTodo(ses[w])
    /\ pc[w] = "opened" => AwaitsRegistration(ses[w])
    /\ pc[w] \notin {"run", "recover"} => HoldsNothing(ses[w])
    /\ OneFile(ses[w])

\* Between an open and its registration the handle is only the handler's, and the ENQ
\* nobody's.
Loose(w) == IF pc[w] = "opened" /\ Head(ses[w].todo) # "lock" THEN {ses[w].fp} ELSE {}
LooseEnq(w) == pc[w] = "opened" /\ Head(ses[w].todo) = "lock" /\ ses[w].granted

\* What is open and not given up is what is registered or about to be; what was given up
\* stays open.
Exact(w) ==
    /\ Registered(w) \cup Loose(w) = open[w] \ lost[w]
    /\ lost[w] \ {"enq"} \subseteq open[w]
    /\ ses[w].dslock \/ LooseEnq(w) <=> enq = w /\ "enq" \notin lost[w]
    /\ "enq" \in lost[w] => enq = w

\* Whose ACEE is where.
Identity(w) ==
    /\ pc[w] \in {"idle", "identify", "ended"} => task[w] = Server /\ ses[w].acee = None
    /\ pc[w] \in {"route", "run", "opened", "recover", "report"} =>
         IF ses[w].kind = "auth" THEN task[w] = Server /\ ses[w].acee = None
         ELSE /\ ses[w].cred # None /\ task[w] = ses[w].cred
              /\ ses[w].acee = ses[w].cred /\ ses[w].old = Server
    /\ pc[w] = "return" => IF ses[w].acee = None THEN task[w] = Server
                           ELSE ses[w].old = Server

\* The body is whole, or the connection says that it is not.
Ended(r) == r.whole \/ (~r.chunked /\ ~r.keepalive)

Response(w) ==
    /\ pc[w] = "idle" \/ pc[w] = "identify" =>
         resp[w].status = 0 /\ ~ses[w].headersSent
    /\ pc[w] \in {"route", "run", "opened", "recover", "report"} =>
         resp[w].status = IF ses[w].headersSent THEN 1 ELSE 0
    /\ pc[w] = "route" => ~ses[w].headersSent
    /\ pc[w] \in {"run", "opened"} =>
         /\ ses[w].todo \in Pending => ~ses[w].headersSent
         /\ ses[w].todo \in SpoolOnly => ses[w].kind = "spool"
         /\ \/ resp[w].status = 0 \/ ses[w].kind = "spool" \/ ses[w].todo \in Middle
            \/ Ended(resp[w])
    /\ pc[w] \in {"return", "ended"} =>
         resp[w].status = 0 \/ ses[w].kind = "spool" \/ Ended(resp[w])

RequestInv ==
    /\ Types
    /\ \A w \in Workers : Holdings(w) /\ Exact(w) /\ Identity(w) /\ Response(w)

-----------------------------------------------------------------------------
(* The steps of the programs. *)

LEMMA Programs ==
    /\ Kinds = {"stream", "write", "jobs", "spool", "list", "auth"}
    /\ Program["stream"] = <<"open", "head", "body", "close">>
    /\ Program["write"] = <<"open", "close", "reply">>
    /\ Program["jobs"] = <<"jesopen", "reply", "jesclose">>
    /\ Program["spool"] = <<"jesopen", "head", "lines", "jesclose">>
    /\ Program["list"] = <<"lock", "unlock", "head", "body">>
    /\ Program["auth"] = <<"reply">>
BY DEF Kinds, Program

\* The holding of one rest is that of another.
SameHolding(t, u) ==
    /\ t \in Untouched <=> u \in Untouched
    /\ t \in WithFile <=> u \in WithFile
    /\ t \in WithJes <=> u \in WithJes
    /\ t \in WithLock <=> u \in WithLock

\* Where a step leads, by its name.
StepFacts(t) ==
    LET s == Head(t)
        u == Tail(t)
    IN  /\ u \in Todos
        /\ t \in Untouched => t \notin WithFile \cup WithJes \cup WithLock
        /\ t \in WithFile => t \notin WithJes \cup WithLock
        /\ t \in WithJes => t \notin WithLock
        /\ t \in Middle => s = "body"
        /\ s \in {"open", "jesopen", "lock"} =>
             t \in Untouched \cap Pending /\ u \in Pending
        /\ s = "open" => u \in WithFile \ SpoolOnly
        /\ s = "jesopen" => u \in WithJes /\ (u \in SpoolOnly => t \in SpoolOnly)
        /\ s = "lock" => u \in WithLock \ SpoolOnly
        /\ s = "unlock" => t \in WithLock \cap Pending /\ u \in (Untouched \cap Pending) \ SpoolOnly
        /\ s = "close" => t \in WithFile /\ u \in Untouched \ (Middle \cup SpoolOnly)
        /\ s = "close" => (u \in Pending <=> t \in Pending)
        /\ s = "jesclose" => t \in WithJes /\ u \in Untouched \ (Pending \cup Middle \cup SpoolOnly)
        /\ s \in {"head", "reply"} => t \in Pending
        /\ s \in {"head", "reply", "body", "lines"} =>
             SameHolding(t, u) /\ u \notin Pending
        /\ s = "head" => /\ u \in Middle \/ t \in SpoolOnly
                         /\ u \in SpoolOnly => t \in SpoolOnly
                         /\ Quit(u) \in Todos \ (Pending \cup SpoolOnly) /\ SameHolding(t, Quit(u))
        /\ s = "body" => t \in Middle /\ u \notin SpoolOnly
        /\ s = "reply" => u \notin SpoolOnly
        /\ s = "lines" => t \in SpoolOnly /\ u \notin SpoolOnly

LEMMA TodoList ==
    Todos = {<< >>, <<"open", "head", "body", "close">>, <<"open", "close", "reply">>,
             <<"jesopen", "reply", "jesclose">>, <<"jesopen", "head", "lines", "jesclose">>,
             <<"lock", "unlock", "head", "body">>, <<"reply">>,
             <<"body">>, <<"head", "body">>,
             <<"head", "body", "close">>, <<"body", "close">>,
             <<"close">>, <<"close", "reply">>,
             <<"head", "lines", "jesclose">>, <<"lines", "jesclose">>,
             <<"reply", "jesclose">>, <<"jesclose">>,
             <<"unlock", "head", "body">>}
BY Programs DEF Todos, Untouched, WithFile, WithJes, WithLock

\* The empty rest holds nothing and has nothing to send.
LEMMA TodoEnd ==
    /\ << >> \in Untouched /\ << >> \notin WithFile \cup WithJes \cup WithLock
    /\ << >> \notin Pending \cup Middle \cup SpoolOnly
<1>1. << >> \in Untouched
  BY DEF Untouched
<1>2. << >> \notin WithFile \cup WithJes \cup WithLock \cup Middle
  BY DEF WithFile, WithJes, WithLock, Middle
<1>3. << >> \notin SpoolOnly
  BY Programs DEF SpoolOnly
<1>4. << >> \notin Pending
  <2>0. \A k \in Kinds : Len(Program[k]) > 0
    <3>1. /\ Len(Program["stream"]) > 0 /\ Len(Program["write"]) > 0
          /\ Len(Program["jobs"]) > 0 /\ Len(Program["spool"]) > 0
          /\ Len(Program["list"]) > 0 /\ Len(Program["auth"]) > 0
      BY Programs
    <3> QED
      BY <3>1, Programs
  <2>1. \A k \in Kinds : Program[k] # << >>
    BY <2>0
  <2> QED
    BY <2>1 DEF Pending
<1> QED
  BY <1>1, <1>2, <1>3, <1>4

\* A handler starts with nothing held and nothing sent.
LEMMA TodoStart ==
    ASSUME NEW k \in Kinds
    PROVE  /\ Program[k] \in Untouched \cap Pending
           /\ Program[k] \in SpoolOnly => k = "spool"
BY Programs DEF Untouched, Pending, SpoolOnly

LEMMA TodoSteps == \A t \in Todos : t # << >> => StepFacts(t)
<1> USE Programs DEF SameHolding, StepFacts, Todos, Untouched, WithFile, WithJes, WithLock,
                     Pending, Middle, SpoolOnly, Quit
<1>1. StepFacts(<<"open", "head", "body", "close">>)
  OBVIOUS
<1>2. StepFacts(<<"open", "close", "reply">>)
  OBVIOUS
<1>3. StepFacts(<<"jesopen", "reply", "jesclose">>)
  OBVIOUS
<1>4. StepFacts(<<"jesopen", "head", "lines", "jesclose">>)
  OBVIOUS
<1>5. StepFacts(<<"lock", "unlock", "head", "body">>)
  OBVIOUS
<1>6. StepFacts(<<"reply">>)
  OBVIOUS
<1>7. StepFacts(<<"body">>)
  OBVIOUS
<1>8. StepFacts(<<"head", "body">>)
  <2>1. Head(<<"head", "body">>) = "head" /\ Tail(<<"head", "body">>) = <<"body">>
    OBVIOUS
  <2>2. <<"body">> \in Middle /\ Quit(<<"body">>) = << >>
    OBVIOUS
  <2>3. <<"body">> \notin Pending \cup SpoolOnly /\ << >> \notin Pending \cup SpoolOnly
    BY TodoEnd
  <2>4. <<"head", "body">> \in Untouched \cap Pending /\ <<"head", "body">> \notin Middle
    OBVIOUS
  <2>5. /\ <<"head", "body">> \notin WithFile \cup WithJes \cup WithLock
        /\ <<"body">> \notin WithFile \cup WithJes \cup WithLock
        /\ << >> \notin WithFile \cup WithJes \cup WithLock
    OBVIOUS
  <2>6. <<"body">> \in Untouched /\ << >> \in Untouched
    OBVIOUS
  <2> HIDE DEF Untouched, WithFile, WithJes, WithLock, Pending, Middle, SpoolOnly, Quit
  <2> QED
    BY <2>1, <2>2, <2>3, <2>4, <2>5, <2>6
<1>9. StepFacts(<<"head", "body", "close">>)
  OBVIOUS
<1>10. StepFacts(<<"body", "close">>)
  OBVIOUS
<1>11. StepFacts(<<"close">>)
  OBVIOUS
<1>12. StepFacts(<<"close", "reply">>)
  OBVIOUS
<1>13. StepFacts(<<"head", "lines", "jesclose">>)
  OBVIOUS
<1>14. StepFacts(<<"lines", "jesclose">>)
  OBVIOUS
<1>15. StepFacts(<<"reply", "jesclose">>)
  OBVIOUS
<1>16. StepFacts(<<"jesclose">>)
  OBVIOUS
<1>17. StepFacts(<<"unlock", "head", "body">>)
  OBVIOUS
<1> HIDE DEF SameHolding, StepFacts, Todos, Untouched, WithFile, WithJes, WithLock,
             Pending, Middle, SpoolOnly, Quit
<1> QED
  BY <1>1, <1>2, <1>3, <1>4, <1>5, <1>6, <1>7, <1>8, <1>9, <1>10, <1>11, <1>12, <1>13, <1>14, <1>15, <1>16, <1>17, TodoList

-----------------------------------------------------------------------------
(* The invariant holds at first, and one worker's step keeps the others'. *)

LEMMA InitRequest == Init => RequestInv
<1> SUFFICES ASSUME Init PROVE RequestInv
  OBVIOUS
<1> USE RequestAssumption
<1>1. NoSession \in SessionType /\ NoResponse \in ResponseType
  BY Programs, TodoEnd DEF NoSession, NoResponse, SessionType, ResponseType, Todos
<1>2. Types
  BY <1>1 DEF Init, Types, Stages
<1>3. ASSUME NEW w \in Workers
      PROVE  Holdings(w) /\ Exact(w) /\ Identity(w) /\ Response(w)
  <2>1. ses[w] = NoSession /\ resp[w] = NoResponse /\ pc[w] = "idle"
    BY DEF Init
  <2>2. Holdings(w)
    BY <2>1 DEF Holdings, HoldsNothing, OneFile, NoSession
  <2>3. Exact(w)
    BY <2>1 DEF Init, Exact, Registered, Loose, LooseEnq, NoSession
  <2>4. Identity(w) /\ Response(w)
    BY <2>1 DEF Init, Identity, Response, NoSession, NoResponse
  <2> QED
    BY <2>2, <2>3, <2>4
<1> QED
  BY <1>2, <1>3 DEF RequestInv

\* Nothing but w's own state and the ENQ, if w holds or takes it, is changed.
OnlyOf(w) ==
    /\ \A v \in Workers \ {w} :
         /\ pc'[v] = pc[v] /\ ses'[v] = ses[v] /\ task'[v] = task[v]
         /\ open'[v] = open[v] /\ lost'[v] = lost[v] /\ resp'[v] = resp[v]
    /\ \/ enq' = enq
       \/ enq = w /\ enq' = None
       \/ enq = None /\ enq' = w

LEMMA OthersKeep ==
    ASSUME RequestInv, NEW w \in Workers, OnlyOf(w), Types',
           Holdings(w)', Exact(w)', Identity(w)', Response(w)'
    PROVE  RequestInv'
<1> SUFFICES ASSUME NEW v \in Workers, v # w
             PROVE  Holdings(v)' /\ Exact(v)' /\ Identity(v)' /\ Response(v)'
  BY DEF RequestInv
<1>1. /\ pc'[v] = pc[v] /\ ses'[v] = ses[v] /\ task'[v] = task[v]
      /\ open'[v] = open[v] /\ lost'[v] = lost[v] /\ resp'[v] = resp[v]
      /\ enq' = v <=> enq = v
  BY RequestAssumption DEF OnlyOf
<1>2. Holdings(v)'
  BY <1>1 DEF RequestInv, Holdings, AwaitsRegistration, HoldsNothing, HoldsForTodo, OneFile
<1>3. Exact(v)'
  BY <1>1 DEF RequestInv, Exact, Registered, Loose, LooseEnq
<1>4. Identity(v)' /\ Response(v)'
  BY <1>1 DEF RequestInv, Identity, Response, Ended
<1> QED
  BY <1>2, <1>3, <1>4

\* What the invariant says of one worker.
LEMMA Typed ==
    ASSUME RequestInv, NEW w \in Workers
    PROVE  /\ pc[w] \in Stages /\ ses[w] \in SessionType /\ resp[w] \in ResponseType
           /\ task[w] \in Users \cup {Server} /\ open[w] \in SUBSET Handles
           /\ lost[w] \in SUBSET (Handles \cup {"enq"})
           /\ Holdings(w) /\ Exact(w) /\ Identity(w) /\ Response(w)
BY DEF RequestInv, Types

-----------------------------------------------------------------------------
(* Before the handler. *)

LEMMA AcceptInv == ASSUME RequestInv, NEW w \in Workers, Accept(w) PROVE RequestInv'
<1> USE Typed, RequestAssumption
<1>1. PICK k \in Kinds, u \in Users \cup {None} :
        ses' = [ses EXCEPT ![w] = [NoSession EXCEPT !.kind = k, !.cred = u]]
  BY DEF Accept
<1>2. /\ pc[w] = "idle" /\ pc' = [pc EXCEPT ![w] = "identify"]
      /\ resp' = [resp EXCEPT ![w] = NoResponse]
      /\ UNCHANGED <<task, open, enq, lost>>
  BY DEF Accept, Goto
<1>3. /\ [NoSession EXCEPT !.kind = k, !.cred = u] \in SessionType
      /\ NoResponse \in ResponseType
  BY TodoEnd DEF NoSession, NoResponse, SessionType, ResponseType, Todos
<1>4. Types' /\ OnlyOf(w)
  BY <1>1, <1>2, <1>3 DEF RequestInv, Types, OnlyOf, Stages
<1>5. /\ ses'[w] = [NoSession EXCEPT !.kind = k, !.cred = u]
      /\ resp'[w] = NoResponse /\ pc'[w] = "identify"
  BY <1>1, <1>2 DEF RequestInv, Types
<1>6. Holdings(w)'
  BY <1>5 DEF Holdings, HoldsNothing, OneFile, NoSession
<1>7. Exact(w)'
  BY <1>2, <1>5 DEF Exact, Registered, Loose, LooseEnq, NoSession, Holdings, HoldsNothing
<1>8. Identity(w)' /\ Response(w)'
  BY <1>2, <1>5 DEF Identity, Response, NoSession, NoResponse
<1> QED
  BY <1>4, <1>6, <1>7, <1>8, OthersKeep

\* What a step leaves alone that opens and closes nothing.
SameHeld(w) ==
    /\ pc[w] # "opened" /\ pc'[w] # "opened"
    /\ UNCHANGED <<open, enq, lost>>
    /\ ses'[w].files = ses[w].files /\ ses'[w].jes = ses[w].jes
    /\ ses'[w].dslock = ses[w].dslock

LEMMA SameHeldExact ==
    ASSUME RequestInv, NEW w \in Workers, SameHeld(w) PROVE Exact(w)' /\ OneFile(ses[w])'
BY Typed DEF Exact, Registered, Loose, LooseEnq, SameHeld, Holdings, OneFile

LEMMA SentFacts ==
    ASSUME NEW r \in ResponseType, r.status = 0
    PROVE  /\ Sent(r, "length", TRUE) \in {n \in ResponseType : n.status = 1 /\ n.whole}
           /\ Sent(r, "length", FALSE) \in {n \in ResponseType : n.status = 1}
           /\ Sent(r, "chunked", FALSE) \in {n \in ResponseType : n.status = 1}
           /\ Sent(r, "close", FALSE) \in {n \in ResponseType : n.status = 1}
<1>0. ASSUME NEW f \in {"length", "chunked", "close"}, NEW b \in BOOLEAN
      PROVE  /\ Sent(r, f, b) \in ResponseType
             /\ Sent(r, f, b).status = 1 /\ Sent(r, f, b).whole = b
  <2>0. r.status + 1 = 1
    OBVIOUS
  <2>1. PICK c \in BOOLEAN : c = (f = "chunked")
    OBVIOUS
  <2>2. PICK k \in BOOLEAN : k = (r.keepalive /\ f # "close")
    OBVIOUS
  <2>3. Sent(r, f, b) = [r EXCEPT !.status = 1, !.framing = f, !.whole = b,
                                  !.chunked = c, !.keepalive = k]
    BY <2>0, <2>1, <2>2, Zenon DEF Sent
  <2> QED
    BY <2>3 DEF ResponseType
<1> QED
  BY <1>0

LEMMA AbortedFacts ==
    ASSUME NEW r \in ResponseType
    PROVE  /\ Aborted(r) \in ResponseType /\ Aborted(r).status = r.status
           /\ Ended(Aborted(r))
BY DEF Aborted, Ended, ResponseType

\* The three outcomes of an answer, none of which opens or closes anything.
LEMMA ReplyOutcome ==
    ASSUME RequestInv, NEW w \in Workers, NEW t \in Todos, Reply(w, t),
           resp[w].status = 0, ~ses[w].headersSent
    PROVE  \E b \in BOOLEAN, r \in ResponseType :
             /\ ses' = [ses EXCEPT ![w] = [ses[w] EXCEPT !.headersSent = b, !.todo = t]]
             /\ resp' = [resp EXCEPT ![w] = r]
             /\ r.status = IF b THEN 1 ELSE 0
             /\ b => Ended(r)
<1>0. ses[w] \in SessionType /\ resp[w] \in ResponseType
  BY Typed
<1>1. ses \in [Workers -> SessionType] /\ resp \in [Workers -> ResponseType]
  BY DEF RequestInv, Types
<1>2. CASE /\ resp' = [resp EXCEPT ![w] = Sent(@, "length", TRUE)]
           /\ ses' = [ses EXCEPT ![w].headersSent = TRUE, ![w].todo = t]
  <2> DEFINE r == Sent(resp[w], "length", TRUE)
  <2>1. r \in ResponseType /\ r.status = 1 /\ Ended(r)
    BY <1>0, SentFacts DEF Ended
  <2>2. ses' = [ses EXCEPT ![w] = [ses[w] EXCEPT !.headersSent = TRUE, !.todo = t]]
    BY <1>1, <1>2
  <2>3. resp' = [resp EXCEPT ![w] = r]
    BY <1>1, <1>2
  <2> QED
    BY <2>1, <2>2, <2>3
<1>3. CASE /\ resp' = [resp EXCEPT ![w] = Aborted(Sent(@, "length", FALSE))]
           /\ ses' = [ses EXCEPT ![w].headersSent = TRUE, ![w].todo = t]
  <2> DEFINE r == Aborted(Sent(resp[w], "length", FALSE))
  <2>1. r \in ResponseType /\ r.status = 1 /\ Ended(r)
    BY <1>0, SentFacts, AbortedFacts
  <2>2. ses' = [ses EXCEPT ![w] = [ses[w] EXCEPT !.headersSent = TRUE, !.todo = t]]
    BY <1>1, <1>3
  <2>3. resp' = [resp EXCEPT ![w] = r]
    BY <1>1, <1>3
  <2> QED
    BY <2>1, <2>2, <2>3
<1>4. CASE ses' = [ses EXCEPT ![w].todo = t] /\ UNCHANGED resp
  <2>1. ses' = [ses EXCEPT ![w] = [ses[w] EXCEPT !.headersSent = FALSE, !.todo = t]]
    BY <1>0, <1>1, <1>4 DEF SessionType
  <2>2. resp' = [resp EXCEPT ![w] = resp[w]]
    BY <1>1, <1>4
  <2> QED
    BY <1>0, <2>1, <2>2
<1> QED
  BY <1>2, <1>3, <1>4 DEF Reply

\* A step that gives w new values and changes nobody else's.
Assigns(w, p, s, a, o, l, r) ==
    /\ pc' = [pc EXCEPT ![w] = p] /\ ses' = [ses EXCEPT ![w] = s]
    /\ task' = [task EXCEPT ![w] = a] /\ open' = [open EXCEPT ![w] = o]
    /\ lost' = [lost EXCEPT ![w] = l] /\ resp' = [resp EXCEPT ![w] = r]
    /\ p \in Stages /\ s \in SessionType /\ a \in Users \cup {Server}
    /\ o \in SUBSET Handles /\ l \in SUBSET (Handles \cup {"enq"}) /\ r \in ResponseType
    /\ \/ enq' = enq
       \/ enq = w /\ enq' = None
       \/ enq = None /\ enq' = w

LEMMA StepOf ==
    ASSUME RequestInv, NEW w \in Workers, NEW p, NEW s, NEW a, NEW o, NEW l, NEW r,
           Assigns(w, p, s, a, o, l, r)
    PROVE  /\ Types' /\ OnlyOf(w)
           /\ pc'[w] = p /\ ses'[w] = s /\ task'[w] = a
           /\ open'[w] = o /\ lost'[w] = l /\ resp'[w] = r
BY DEF RequestInv, Types, OnlyOf, Assigns

\* What a step leaves alone keeps its value, in the form StepOf asks for.
LEMMA AsBefore ==
    ASSUME RequestInv, NEW w \in Workers
    PROVE  /\ pc = [pc EXCEPT ![w] = pc[w]] /\ ses = [ses EXCEPT ![w] = ses[w]]
           /\ task = [task EXCEPT ![w] = task[w]] /\ open = [open EXCEPT ![w] = open[w]]
           /\ lost = [lost EXCEPT ![w] = lost[w]] /\ resp = [resp EXCEPT ![w] = resp[w]]
BY DEF RequestInv, Types

LEMMA RefuseInv == ASSUME RequestInv, NEW w \in Workers, Refuse(w) PROVE RequestInv'
<1> DEFINE r == Sent(resp[w], "length", TRUE)
<1>0. /\ pc[w] = "identify" /\ pc' = [pc EXCEPT ![w] = "return"]
      /\ resp' = [resp EXCEPT ![w] = r]
      /\ UNCHANGED <<ses, task, open, enq, lost>>
  BY AsBefore DEF Refuse, Goto, RequestInv, Types
<1>1. r \in ResponseType /\ r.status = 1 /\ Ended(r)
  BY <1>0, Typed, SentFacts DEF Response, Ended
<1>2. "return" \in Stages
  BY DEF Stages
<1> HIDE DEF r
<1>3. /\ Types' /\ OnlyOf(w)
      /\ pc'[w] = "return" /\ ses'[w] = ses[w] /\ task'[w] = task[w] /\ resp'[w] = r
  <2>1. Assigns(w, "return", ses[w], task[w], open[w], lost[w], r)
    BY <1>0, <1>1, <1>2, Typed, AsBefore DEF Assigns
  <2> QED
    BY <2>1, StepOf
<1>4. Exact(w)' /\ OneFile(ses[w])'
  BY <1>0, <1>3, SameHeldExact DEF SameHeld
<1>5. Holdings(w)'
  BY <1>0, <1>3, <1>4, Typed DEF Holdings, HoldsNothing
<1>6. Identity(w)'
  BY <1>0, <1>3, Typed DEF Identity
<1>7. Response(w)'
  BY <1>1, <1>3 DEF Response
<1> QED
  BY <1>3, <1>4, <1>5, <1>6, <1>7, OthersKeep

\* The fields an answer leaves alone.
SameSession(w) ==
    /\ ses'[w].kind = ses[w].kind /\ ses'[w].cred = ses[w].cred
    /\ ses'[w].acee = ses[w].acee /\ ses'[w].old = ses[w].old /\ ses'[w].fp = ses[w].fp
    /\ ses'[w].files = ses[w].files /\ ses'[w].jes = ses[w].jes
    /\ ses'[w].dslock = ses[w].dslock

\* An answer: everything but the wire, the flag for it and the steps left stays.
LEMMA AnswerStep ==
    ASSUME RequestInv, NEW w \in Workers, NEW t \in Todos, NEW p \in Stages,
           Reply(w, t), resp[w].status = 0, ~ses[w].headersSent,
           pc[w] # "opened", p # "opened",
           pc' = [pc EXCEPT ![w] = p], UNCHANGED <<task, open, enq, lost>>
    PROVE  /\ Types' /\ OnlyOf(w) /\ Exact(w)' /\ OneFile(ses[w])'
           /\ pc'[w] = p /\ task'[w] = task[w] /\ SameSession(w) /\ ses'[w].todo = t
           /\ resp'[w].status = IF ses'[w].headersSent THEN 1 ELSE 0
           /\ resp'[w].status = 0 \/ Ended(resp'[w])
<1>1. PICK b \in BOOLEAN, r \in ResponseType :
        /\ ses' = [ses EXCEPT ![w] = [ses[w] EXCEPT !.headersSent = b, !.todo = t]]
        /\ resp' = [resp EXCEPT ![w] = r]
        /\ r.status = IF b THEN 1 ELSE 0
        /\ b => Ended(r)
  BY ReplyOutcome
<1> DEFINE s == [ses[w] EXCEPT !.headersSent = b, !.todo = t]
<1>2. /\ s \in SessionType /\ s.headersSent = b /\ s.todo = t
      /\ s.kind = ses[w].kind /\ s.cred = ses[w].cred /\ s.acee = ses[w].acee
      /\ s.old = ses[w].old /\ s.fp = ses[w].fp /\ s.files = ses[w].files
      /\ s.jes = ses[w].jes /\ s.dslock = ses[w].dslock
  BY Typed DEF SessionType
<1> HIDE DEF s
<1>3. Assigns(w, p, s, task[w], open[w], lost[w], r)
  BY <1>1, <1>2, Typed, AsBefore DEF Assigns, s
<1>4. /\ Types' /\ OnlyOf(w) /\ pc'[w] = p /\ ses'[w] = s /\ task'[w] = task[w] /\ resp'[w] = r
  BY <1>3, StepOf
<1>5. SameSession(w)
  BY <1>2, <1>4 DEF SameSession
<1>6. Exact(w)' /\ OneFile(ses[w])'
  BY <1>4, <1>5, SameHeldExact DEF SameHeld, SameSession
<1>7. /\ resp'[w].status = IF ses'[w].headersSent THEN 1 ELSE 0
      /\ resp'[w].status = 0 \/ Ended(resp'[w])
  BY <1>1, <1>2, <1>4
<1> QED
  BY <1>2, <1>4, <1>5, <1>6, <1>7

LEMMA IdentifyInv == ASSUME RequestInv, NEW w \in Workers, Identify(w) PROVE RequestInv'
<1>0. pc[w] = "identify" /\ UNCHANGED <<open, enq, lost>>
  BY DEF Identify
<1>1. CASE ses[w].kind = "auth" /\ Goto(w, "route") /\ UNCHANGED <<ses, task, resp>>
  <2>1. Assigns(w, "route", ses[w], task[w], open[w], lost[w], resp[w])
    BY <1>0, <1>1, Typed, AsBefore DEF Assigns, Goto, Stages
  <2>2. /\ Types' /\ OnlyOf(w) /\ pc'[w] = "route"
        /\ ses'[w] = ses[w] /\ task'[w] = task[w] /\ resp'[w] = resp[w]
    BY <2>1, StepOf
  <2>3. Exact(w)' /\ OneFile(ses[w])'
    BY <1>0, <2>2, SameHeldExact DEF SameHeld
  <2>4. Holdings(w)'
    BY <1>0, <2>2, <2>3, Typed DEF Holdings, HoldsNothing
  <2>5. Identity(w)' /\ Response(w)'
    BY <1>0, <1>1, <2>2, Typed DEF Identity, Response
  <2> QED
    BY <2>2, <2>3, <2>4, <2>5, OthersKeep
<1>2. CASE /\ ses[w].kind # "auth" /\ ses[w].cred = None
           /\ resp' = [resp EXCEPT ![w] = Sent(@, "length", TRUE)]
           /\ ses' = [ses EXCEPT ![w].headersSent = TRUE]
           /\ Goto(w, "return") /\ UNCHANGED task
  <2> DEFINE s == [ses[w] EXCEPT !.headersSent = TRUE]
             r == Sent(resp[w], "length", TRUE)
  <2>1. /\ s \in SessionType /\ s.acee = ses[w].acee /\ s.files = ses[w].files
        /\ s.jes = ses[w].jes /\ s.dslock = ses[w].dslock
    BY Typed DEF SessionType
  <2>2. r \in ResponseType /\ Ended(r)
    BY <1>0, Typed, SentFacts DEF Response, Ended
  <2>3. Assigns(w, "return", s, task[w], open[w], lost[w], r)
    BY <1>0, <1>2, <2>1, <2>2, Typed, AsBefore DEF Assigns, Goto, Stages, RequestInv, Types
  <2> HIDE DEF s, r
  <2>4. /\ Types' /\ OnlyOf(w) /\ pc'[w] = "return"
        /\ ses'[w] = s /\ task'[w] = task[w] /\ resp'[w] = r
    BY <2>3, StepOf
  <2>5. Exact(w)' /\ OneFile(ses[w])'
    BY <1>0, <2>1, <2>4, SameHeldExact DEF SameHeld
  <2>6. Holdings(w)'
    BY <1>0, <2>1, <2>4, <2>5, Typed DEF Holdings, HoldsNothing
  <2>7. Identity(w)' /\ Response(w)'
    BY <1>0, <1>2, <2>1, <2>2, <2>4, Typed DEF Identity, Response
  <2> QED
    BY <2>4, <2>5, <2>6, <2>7, OthersKeep
<1>3. CASE /\ ses[w].kind # "auth" /\ ses[w].cred # None
           /\ task' = [task EXCEPT ![w] = ses[w].cred]
           /\ ses' = [ses EXCEPT ![w].old = task[w], ![w].acee = ses[w].cred]
           /\ Goto(w, "route") /\ UNCHANGED resp
  <2> DEFINE s == [ses[w] EXCEPT !.old = task[w], !.acee = ses[w].cred]
  <2>0. ses[w].cred \in Users /\ task[w] = Server
    BY <1>0, <1>3, Typed DEF SessionType, Identity
  <2>1. /\ s \in SessionType /\ s.files = ses[w].files /\ s.jes = ses[w].jes
        /\ s.dslock = ses[w].dslock /\ s.old = Server /\ s.acee = ses[w].cred
        /\ s.cred = ses[w].cred /\ s.kind = ses[w].kind /\ s.headersSent = ses[w].headersSent
    BY <2>0, Typed DEF SessionType
  <2>a. ses' = [ses EXCEPT ![w] = s]
    BY <1>3 DEF RequestInv, Types
  <2> HIDE DEF s
  <2>2. Assigns(w, "route", s, ses[w].cred, open[w], lost[w], resp[w])
    BY <1>0, <1>3, <2>0, <2>1, <2>a, Typed, AsBefore DEF Assigns, Goto, Stages
  <2>3. /\ Types' /\ OnlyOf(w) /\ pc'[w] = "route"
        /\ ses'[w] = s /\ task'[w] = ses[w].cred /\ resp'[w] = resp[w]
    BY <2>2, StepOf
  <2>4. Exact(w)' /\ OneFile(ses[w])'
    BY <1>0, <2>1, <2>3, SameHeldExact DEF SameHeld
  <2>5. Holdings(w)'
    BY <1>0, <2>1, <2>3, <2>4, Typed DEF Holdings, HoldsNothing
  <2>6. Identity(w)' /\ Response(w)'
    BY <1>0, <1>3, <2>1, <2>3, Typed DEF Identity, Response
  <2> QED
    BY <2>3, <2>4, <2>5, <2>6, OthersKeep
<1> QED
  BY <1>1, <1>2, <1>3 DEF Identify

LEMMA RouteInv == ASSUME RequestInv, NEW w \in Workers, Route(w) PROVE RequestInv'
<1>0. pc[w] = "route" /\ UNCHANGED <<task, open, enq, lost>>
  BY DEF Route
<1>1. CASE ses' = [ses EXCEPT ![w].todo = Program[ses[w].kind]] /\ Goto(w, "run") /\ UNCHANGED resp
  <2> DEFINE s == [ses[w] EXCEPT !.todo = Program[ses[w].kind]]
  <2>0. ses[w].kind \in Kinds
    BY Typed DEF SessionType
  <2>1. /\ s.todo \in Untouched /\ s.todo \in Todos /\ s.todo = Program[ses[w].kind]
        /\ s.todo \in SpoolOnly => ses[w].kind = "spool"
    BY <2>0, TodoStart, Typed DEF SessionType, Todos
  <2>2. /\ s \in SessionType /\ s.files = ses[w].files /\ s.jes = ses[w].jes
        /\ s.dslock = ses[w].dslock /\ s.old = ses[w].old /\ s.acee = ses[w].acee
        /\ s.cred = ses[w].cred /\ s.kind = ses[w].kind /\ s.headersSent = ses[w].headersSent
    BY <2>1, Typed DEF SessionType
  <2>3. Assigns(w, "run", s, task[w], open[w], lost[w], resp[w])
    BY <1>0, <1>1, <2>2, Typed, AsBefore DEF Assigns, Goto, Stages, RequestInv, Types
  <2> HIDE DEF s
  <2>4. /\ Types' /\ OnlyOf(w) /\ pc'[w] = "run"
        /\ ses'[w] = s /\ task'[w] = task[w] /\ resp'[w] = resp[w]
    BY <2>3, StepOf
  <2>5. Exact(w)' /\ OneFile(ses[w])'
    BY <1>0, <2>2, <2>4, SameHeldExact DEF SameHeld
  <2>6. Holdings(w)'
    BY <1>0, <2>1, <2>2, <2>4, <2>5, Typed DEF Holdings, HoldsNothing, HoldsForTodo
  <2>7. Identity(w)'
    BY <1>0, <2>2, <2>4, Typed DEF Identity
  <2>8. Response(w)'
    BY <1>0, <2>1, <2>2, <2>4, Typed DEF Response
  <2> QED
    BY <2>4, <2>5, <2>6, <2>7, <2>8, OthersKeep
<1>2. CASE Reply(w, << >>) /\ Goto(w, "return")
  <2>0. << >> \in Todos /\ "return" \in Stages /\ resp[w].status = 0 /\ ~ses[w].headersSent
    BY <1>0, TodoEnd, Typed DEF Todos, Stages, Response
  <2>1. pc' = [pc EXCEPT ![w] = "return"]
    BY <1>2 DEF Goto
  <2>2. /\ Types' /\ OnlyOf(w) /\ Exact(w)' /\ OneFile(ses[w])'
        /\ pc'[w] = "return" /\ task'[w] = task[w] /\ SameSession(w)
        /\ resp'[w].status = 0 \/ Ended(resp'[w])
    BY <1>0, <1>2, <2>0, <2>1, AnswerStep
  <2>3. Holdings(w)'
    BY <1>0, <2>2, Typed DEF Holdings, HoldsNothing, SameSession
  <2>4. Identity(w)' /\ Response(w)'
    BY <1>0, <2>2, Typed DEF Identity, Response, SameSession
  <2> QED
    BY <2>2, <2>3, <2>4, OthersKeep
<1> QED
  BY <1>1, <1>2 DEF Route

-----------------------------------------------------------------------------
(* The handler: what it opens and closes. *)

LEMMA Running ==
    ASSUME RequestInv, NEW w \in Workers, NEW n, At(w, n)
    PROVE  /\ pc[w] = "run" /\ ses[w].todo \in Todos /\ StepFacts(ses[w].todo)
           /\ Head(ses[w].todo) = n /\ Rest(w) = Tail(ses[w].todo) /\ Rest(w) \in Todos
           /\ HoldsForTodo(ses[w]) /\ OneFile(ses[w])
<1>1. /\ pc[w] = "run" /\ ses[w].todo # << >> /\ Head(ses[w].todo) = n
      /\ Rest(w) = Tail(ses[w].todo)
  BY DEF At, Rest
<1>2. ses[w].todo \in Todos
  BY Typed DEF SessionType
<1>3. StepFacts(ses[w].todo)
  BY <1>1, <1>2, TodoSteps
<1>4. Rest(w) \in Todos
  BY <1>1, <1>3 DEF StepFacts
<1> QED
  BY <1>1, <1>2, <1>3, <1>4, Typed DEF Holdings

\* Who the request runs for does not change while its handler runs or is recovered.
SameWho(w) ==
    /\ ses'[w].kind = ses[w].kind /\ ses'[w].cred = ses[w].cred
    /\ ses'[w].acee = ses[w].acee /\ ses'[w].old = ses[w].old
    /\ task'[w] = task[w]

LEMMA RunIdentity ==
    ASSUME RequestInv, NEW w \in Workers, SameWho(w),
           pc[w] \in {"run", "opened", "recover", "report"},
           pc'[w] \in {"run", "opened", "recover", "report", "return"}
    PROVE  Identity(w)'
BY Typed, RequestAssumption DEF Identity, SameWho

\* A step that sends nothing.
Silent(w) ==
    /\ resp'[w] = resp[w] /\ ses'[w].headersSent = ses[w].headersSent
    /\ ses'[w].kind = ses[w].kind

LEMMA SilentResponse ==
    ASSUME RequestInv, NEW w \in Workers, Silent(w), pc[w] \in {"run", "opened"},
           \/ pc'[w] = "recover"
           \/ /\ pc'[w] \in {"run", "opened"}
              /\ ses'[w].todo \in Pending => ses[w].todo \in Pending
              /\ ses'[w].todo \in SpoolOnly => ses[w].todo \in SpoolOnly
              /\ ses[w].todo \notin Middle
    PROVE  Response(w)'
BY Typed DEF Response, Silent

LEMMA OpensInv ==
    ASSUME RequestInv, NEW w \in Workers, NEW n \in {"open", "jesopen"}, Opens(w, n)
    PROVE  RequestInv'
<1>0. /\ At(w, n) /\ UNCHANGED <<task, enq, lost, resp>>
      /\ pc' = [pc EXCEPT ![w] = "opened"]
  BY DEF Opens, Goto
<1>a. /\ ses[w] \in SessionType /\ open[w] \in SUBSET Handles /\ Exact(w)
      /\ lost[w] \in SUBSET (Handles \cup {"enq"})
      /\ pc[w] = "run" /\ HoldsForTodo(ses[w]) /\ StepFacts(ses[w].todo)
      /\ ses[w].todo # << >> /\ Head(ses[w].todo) = n
  BY <1>0, Typed, Running DEF At
<1>1. PICK h \in Handles \ open[w] :
         /\ open' = [open EXCEPT ![w] = @ \cup {h}]
         /\ ses' = [ses EXCEPT ![w].fp = h]
  BY DEF Opens
<1>2. ses[w].todo \in Untouched \cap Pending /\ ses[w].todo \notin Middle
  BY <1>a DEF StepFacts
<1>3. HoldsNothing(ses[w])
  BY <1>2, <1>a DEF HoldsForTodo, StepFacts
<1> DEFINE s == [ses[w] EXCEPT !.fp = h]
           o == open[w] \cup {h}
<1>5. ses' = [ses EXCEPT ![w] = s] /\ open' = [open EXCEPT ![w] = o]
  BY <1>1 DEF RequestInv, Types
<1>6. /\ s \in SessionType /\ s.fp = h /\ s.todo = ses[w].todo /\ s.files = ses[w].files
      /\ s.jes = ses[w].jes /\ s.dslock = ses[w].dslock /\ s.kind = ses[w].kind
      /\ s.cred = ses[w].cred /\ s.acee = ses[w].acee /\ s.old = ses[w].old
      /\ s.headersSent = ses[w].headersSent
  BY <1>1, <1>a DEF SessionType
<1> HIDE DEF s
<1>7. Assigns(w, "opened", s, task[w], o, lost[w], resp[w])
  BY <1>0, <1>1, <1>5, <1>6, AsBefore, Typed DEF Assigns, Stages
<1>8. /\ Types' /\ OnlyOf(w) /\ pc'[w] = "opened" /\ ses'[w] = s /\ task'[w] = task[w]
      /\ open'[w] = o /\ lost'[w] = lost[w] /\ resp'[w] = resp[w]
  BY <1>7, StepOf
<1>9. Holdings(w)'
  BY <1>1, <1>3, <1>6, <1>8, <1>a DEF Holdings, AwaitsRegistration, HoldsNothing, OneFile
<1>10. Exact(w)'
  <2>1. Registered(w)' = {} /\ Loose(w)' = {h} /\ ~LooseEnq(w)'
    BY <1>3, <1>6, <1>8, <1>a DEF Registered, HoldsNothing, Loose, LooseEnq
  <2>2. Registered(w) = {} /\ Loose(w) = {} /\ ~LooseEnq(w)
    BY <1>3, <1>a DEF Registered, HoldsNothing, Loose, LooseEnq
  <2>3. open[w] \subseteq lost[w]
    BY <2>2, <1>a DEF Exact
  <2>4. h \notin lost[w]
    BY <1>a, RequestAssumption DEF Exact
  <2>5. {h} = open'[w] \ lost'[w]
    BY <1>8, <2>3, <2>4
  <2>6. lost'[w] \ {"enq"} \subseteq open'[w]
    BY <1>8, <1>a DEF Exact
  <2>7. /\ ~(enq' = w /\ "enq" \notin lost'[w])
        /\ "enq" \in lost'[w] => enq' = w
    BY <1>0, <1>3, <1>8, <1>a, <2>2 DEF Exact, HoldsNothing
  <2>8. ~ses'[w].dslock
    BY <1>3, <1>6, <1>8 DEF HoldsNothing
  <2> QED
    BY <2>1, <2>5, <2>6, <2>7, <2>8 DEF Exact
<1>11. Identity(w)'
  BY <1>6, <1>8, <1>a, RunIdentity DEF SameWho
<1>12. Response(w)'
  BY <1>2, <1>6, <1>8, <1>a, SilentResponse DEF Silent
<1> QED
  BY <1>8, <1>9, <1>10, <1>11, <1>12, OthersKeep

\* The worker between an open and its registration.
LEMMA Awaiting ==
    ASSUME RequestInv, NEW w \in Workers, NEW n, Opened(w, n)
    PROVE  /\ pc[w] = "opened" /\ ses[w].todo \in Todos /\ StepFacts(ses[w].todo)
           /\ Head(ses[w].todo) = n /\ Rest(w) = Tail(ses[w].todo) /\ Rest(w) \in Todos
           /\ n \in {"open", "jesopen", "lock"} /\ (n # "lock" => ses[w].fp \in Handles)
           /\ HoldsNothing(ses[w]) /\ Registered(w) = {}
           /\ ses[w].todo \in Pending /\ ses[w].todo \notin Middle
<1>1. /\ pc[w] = "opened" /\ ses[w].todo # << >> /\ Head(ses[w].todo) = n
      /\ Rest(w) = Tail(ses[w].todo)
  BY DEF Opened, Rest
<1>2. ses[w].todo \in Todos
  BY Typed DEF SessionType
<1>3. StepFacts(ses[w].todo)
  BY <1>1, <1>2, TodoSteps
<1>4. HoldsNothing(ses[w]) /\ AwaitsRegistration(ses[w])
  BY <1>1, Typed DEF Holdings
<1>5. n \in {"open", "jesopen", "lock"} /\ (n # "lock" => ses[w].fp \in Handles)
  BY <1>1, <1>4 DEF AwaitsRegistration
<1>6. Rest(w) \in Todos /\ ses[w].todo \in Pending /\ ses[w].todo \notin Middle
  BY <1>1, <1>3, <1>5 DEF StepFacts
<1>7. Registered(w) = {}
  BY <1>4 DEF Registered, HoldsNothing
<1> QED
  BY <1>1, <1>2, <1>3, <1>4, <1>5, <1>6, <1>7

\* The session learns of what was opened.
LEMMA RegisterInv ==
    ASSUME RequestInv, NEW w \in Workers, NEW n \in {"open", "jesopen"}, Opened(w, n),
           NEW files \in SUBSET Handles, NEW jes \in Handles \cup {None},
           ses' = [ses EXCEPT ![w] = [ses[w] EXCEPT !.files = files, !.jes = jes, !.todo = Rest(w)]],
           IF n = "open" THEN files = {ses[w].fp} /\ jes = None
                         ELSE files = {} /\ jes = ses[w].fp,
           pc' = [pc EXCEPT ![w] = "run"], UNCHANGED <<task, open, enq, lost, resp>>
    PROVE  RequestInv'
<1>0. /\ ses[w] \in SessionType /\ Exact(w) /\ pc[w] = "opened" /\ ses[w].todo \in Todos
      /\ StepFacts(ses[w].todo) /\ Head(ses[w].todo) = n /\ Rest(w) = Tail(ses[w].todo)
      /\ Rest(w) \in Todos /\ ses[w].fp \in Handles /\ HoldsNothing(ses[w])
      /\ Registered(w) = {} /\ ses[w].todo \in Pending /\ ses[w].todo \notin Middle
  BY Awaiting, Typed
<1>1. /\ n = "open" => Rest(w) \in WithFile \ SpoolOnly
      /\ n = "jesopen" => Rest(w) \in WithJes /\ (Rest(w) \in SpoolOnly => ses[w].todo \in SpoolOnly)
  BY <1>0 DEF StepFacts
<1> DEFINE s == [ses[w] EXCEPT !.files = files, !.jes = jes, !.todo = Rest(w)]
<1>2. /\ s \in SessionType /\ s.fp = ses[w].fp /\ s.files = files /\ s.jes = jes
      /\ s.todo = Rest(w) /\ s.dslock = ses[w].dslock /\ s.kind = ses[w].kind
      /\ s.cred = ses[w].cred /\ s.acee = ses[w].acee /\ s.old = ses[w].old
      /\ s.headersSent = ses[w].headersSent
  BY <1>0 DEF SessionType
<1>3. ses' = [ses EXCEPT ![w] = s]
  OBVIOUS
<1> HIDE DEF s
<1>4. Assigns(w, "run", s, task[w], open[w], lost[w], resp[w])
  BY <1>2, <1>3, AsBefore, Typed DEF Assigns, Stages
<1>5. /\ Types' /\ OnlyOf(w) /\ pc'[w] = "run" /\ ses'[w] = s /\ task'[w] = task[w]
      /\ open'[w] = open[w] /\ lost'[w] = lost[w] /\ resp'[w] = resp[w]
  BY ONLY RequestInv, w \in Workers, <1>4, StepOf
<1>6. Holdings(w)'
  <2>1. HoldsForTodo(s) /\ OneFile(s)
    BY <1>0, <1>1, <1>2 DEF HoldsForTodo, HoldsNothing, OneFile
  <2> QED
    BY <1>5, <2>1 DEF Holdings
<1>7. Exact(w)'
  <2>1. Loose(w) = {ses[w].fp} /\ ~LooseEnq(w) /\ Loose(w)' = {} /\ ~LooseEnq(w)'
    BY <1>0, <1>5 DEF Loose, LooseEnq
  <2>2. Registered(w)' = {ses[w].fp}
    BY <1>0, <1>2, <1>5, RequestAssumption DEF Registered
  <2> QED
    BY <1>0, <1>2, <1>5, <2>1, <2>2 DEF Exact
<1>8. Identity(w)'
  BY <1>0, <1>2, <1>5, RunIdentity DEF SameWho
<1>9. Response(w)'
  BY <1>0, <1>1, <1>2, <1>5, SilentResponse DEF Silent
<1> QED
  BY <1>5, <1>6, <1>7, <1>8, <1>9, OthersKeep

LEMMA RegisterFileInv == ASSUME RequestInv, NEW w \in Workers, RegisterFile(w) PROVE RequestInv'
<1>0. /\ Opened(w, "open") /\ pc' = [pc EXCEPT ![w] = "run"]
      /\ UNCHANGED <<task, open, enq, lost, resp>>
  BY DEF RegisterFile, Goto
<1>1. /\ HoldsNothing(ses[w]) /\ ses[w].fp \in Handles
  BY <1>0, Awaiting
<1>2. Cardinality(ses[w].files) < MaxFiles /\ ses[w].files \cup {ses[w].fp} = {ses[w].fp}
  BY <1>1, FS_EmptySet, RequestAssumption DEF HoldsNothing
<1>3. ses' = [ses EXCEPT ![w] = [ses[w] EXCEPT !.files = {ses[w].fp}, !.todo = Rest(w)]]
  BY <1>2 DEF RegisterFile, RequestInv, Types
<1>4. [ses[w] EXCEPT !.files = {ses[w].fp}, !.todo = Rest(w)] =
        [ses[w] EXCEPT !.files = {ses[w].fp}, !.jes = None, !.todo = Rest(w)]
  BY <1>1, Typed DEF SessionType, HoldsNothing
<1>5. ses' = [ses EXCEPT ![w] = [ses[w] EXCEPT !.files = {ses[w].fp}, !.jes = None,
                                              !.todo = Rest(w)]]
  BY <1>3, <1>4
<1> QED
  BY <1>0, <1>1, <1>5, RegisterInv

LEMMA RegisterJesInv == ASSUME RequestInv, NEW w \in Workers, RegisterJes(w) PROVE RequestInv'
<1>0. /\ Opened(w, "jesopen") /\ pc' = [pc EXCEPT ![w] = "run"]
      /\ UNCHANGED <<task, open, enq, lost, resp>>
  BY DEF RegisterJes, Goto
<1>1. /\ HoldsNothing(ses[w]) /\ ses[w].fp \in Handles
  BY <1>0, Awaiting
<1>3. ses' = [ses EXCEPT ![w] = [ses[w] EXCEPT !.jes = ses[w].fp, !.todo = Rest(w)]]
  BY <1>1 DEF RegisterJes, RequestInv, Types, HoldsNothing
<1>4. [ses[w] EXCEPT !.jes = ses[w].fp, !.todo = Rest(w)] =
        [ses[w] EXCEPT !.files = {}, !.jes = ses[w].fp, !.todo = Rest(w)]
  BY <1>1, Typed DEF SessionType, HoldsNothing
<1>5. ses' = [ses EXCEPT ![w] = [ses[w] EXCEPT !.files = {}, !.jes = ses[w].fp,
                                              !.todo = Rest(w)]]
  BY <1>3, <1>4
<1> QED
  BY <1>0, <1>1, <1>5, RegisterInv

\* A handle is closed and forgotten, or given up.
LEMMA CloseExact ==
    ASSUME RequestInv, NEW w \in Workers, NEW h \in Handles,
           Registered(w) = {h}, Registered(w)' = {}, pc[w] # "opened", pc'[w] # "opened",
           \/ open'[w] = open[w] \ {h} /\ lost'[w] = lost[w]
           \/ open'[w] = open[w] /\ lost'[w] = lost[w] \cup {h},
           enq' = enq, ses'[w].dslock = ses[w].dslock
    PROVE  Exact(w)'
<1>1. Exact(w) /\ h # "enq" /\ Loose(w) = {} /\ Loose(w)' = {} /\ ~LooseEnq(w) /\ ~LooseEnq(w)'
  BY Typed, RequestAssumption DEF Loose, LooseEnq
<1>2. h \in open[w] /\ h \notin lost[w]
  BY <1>1 DEF Exact
<1>3. open'[w] \ lost'[w] = {}
  BY <1>1 DEF Exact
<1>4. lost'[w] \ {"enq"} \subseteq open'[w]
  BY <1>1, <1>2 DEF Exact
<1>5. /\ ses'[w].dslock <=> enq' = w /\ "enq" \notin lost'[w]
      /\ "enq" \in lost'[w] => enq' = w
  BY <1>1 DEF Exact
<1> QED
  BY <1>1, <1>3, <1>4, <1>5 DEF Exact

\* A close of either kind: the registration goes first, then the handle, or the close abends.
Closes(w, h) ==
    /\ ses' = [ses EXCEPT ![w] = [ses[w] EXCEPT !.files = {}, !.jes = None, !.fp = None,
                                               !.todo = Rest(w)]]
    /\ \/ open' = [open EXCEPT ![w] = @ \ {h}] /\ UNCHANGED <<pc, lost>>
       \/ /\ lost' = [lost EXCEPT ![w] = @ \cup {h}]
          /\ Goto(w, "recover") /\ UNCHANGED open
    /\ UNCHANGED <<task, enq, resp>>

LEMMA CloseInv ==
    ASSUME RequestInv, NEW w \in Workers, NEW h \in Handles, Closes(w, h),
           pc[w] = "run", Registered(w) = {h}, ~ses[w].dslock, ses[w].todo \notin Middle,
           Rest(w) \in Untouched \ SpoolOnly, Rest(w) \in Pending => ses[w].todo \in Pending
    PROVE  RequestInv'
<1> DEFINE s == [ses[w] EXCEPT !.files = {}, !.jes = None, !.fp = None, !.todo = Rest(w)]
<1>0. ses[w] \in SessionType /\ open[w] \in SUBSET Handles /\ Rest(w) \in Todos
  BY Typed DEF Todos
<1>1. /\ s \in SessionType /\ s.files = {} /\ s.jes = None /\ s.todo = Rest(w)
      /\ s.dslock = ses[w].dslock /\ s.kind = ses[w].kind
      /\ s.cred = ses[w].cred /\ s.acee = ses[w].acee /\ s.old = ses[w].old
      /\ s.headersSent = ses[w].headersSent
  BY <1>0 DEF SessionType
<1>2. ses' = [ses EXCEPT ![w] = s] /\ UNCHANGED <<task, enq, resp>>
  BY DEF Closes
<1> HIDE DEF s
<1>3. PICK p, o, l :
        /\ Assigns(w, p, s, task[w], o, l, resp[w])
        /\ \/ p = "run" /\ o = open[w] \ {h} /\ l = lost[w]
           \/ p = "recover" /\ o = open[w] /\ l = lost[w] \cup {h}
  <2>1. CASE open' = [open EXCEPT ![w] = @ \ {h}] /\ UNCHANGED <<pc, lost>>
    <3>1. Assigns(w, "run", s, task[w], open[w] \ {h}, lost[w], resp[w])
      BY <1>0, <1>1, <1>2, <2>1, AsBefore, Typed DEF Assigns
    <3> QED
      BY <3>1
  <2>2. CASE /\ lost' = [lost EXCEPT ![w] = @ \cup {h}]
             /\ Goto(w, "recover") /\ UNCHANGED open
    <3>1. Assigns(w, "recover", s, task[w], open[w], lost[w] \cup {h}, resp[w])
      BY <1>0, <1>1, <1>2, <2>2, AsBefore, Typed DEF Assigns, Goto, Stages
    <3> QED
      BY <3>1
  <2> QED
    BY <2>1, <2>2 DEF Closes
<1>4. /\ Types' /\ OnlyOf(w) /\ pc'[w] = p /\ ses'[w] = s /\ task'[w] = task[w]
      /\ open'[w] = o /\ lost'[w] = l /\ resp'[w] = resp[w]
  BY <1>3, StepOf
<1>5. Holdings(w)'
  BY <1>1, <1>3, <1>4 DEF Holdings, HoldsForTodo, HoldsNothing, OneFile
<1>6. Exact(w)'
  <2>1. Registered(w)' = {}
    BY <1>1, <1>4 DEF Registered
  <2> QED
    BY <1>1, <1>2, <1>3, <1>4, <2>1, CloseExact
<1>7. Identity(w)'
  BY <1>1, <1>3, <1>4, RunIdentity DEF SameWho
<1>8. Response(w)'
  BY <1>1, <1>3, <1>4, SilentResponse DEF Silent
<1> QED
  BY <1>4, <1>5, <1>6, <1>7, <1>8, OthersKeep

LEMMA FcloseInv == ASSUME RequestInv, NEW w \in Workers, Fclose(w) PROVE RequestInv'
<1>0. At(w, "close")
  BY DEF Fclose
<1>1. /\ pc[w] = "run" /\ HoldsForTodo(ses[w]) /\ StepFacts(ses[w].todo)
      /\ Head(ses[w].todo) = "close" /\ Rest(w) = Tail(ses[w].todo)
  BY <1>0, Running
<1>2. /\ ses[w].todo \in WithFile /\ ses[w].todo \notin Middle
      /\ Rest(w) \in Untouched \ SpoolOnly
      /\ Rest(w) \in Pending => ses[w].todo \in Pending
  BY <1>1 DEF StepFacts
<1>3. /\ ses[w].fp \in Handles /\ ses[w].files = {ses[w].fp} /\ ses[w].jes = None
      /\ ~ses[w].dslock
  BY <1>1, <1>2 DEF HoldsForTodo, StepFacts
<1>4. Registered(w) = {ses[w].fp}
  BY <1>3 DEF Registered
<1>5. Closes(w, ses[w].fp)
  <2>1. ses' = [ses EXCEPT ![w] = [ses[w] EXCEPT !.files = {}, !.jes = None, !.fp = None,
                                                !.todo = Rest(w)]]
    <3>1. ses' = [ses EXCEPT ![w] = [ses[w] EXCEPT !.files = {}, !.fp = None, !.todo = Rest(w)]]
      BY <1>3 DEF Fclose, RequestInv, Types
    <3>2. [ses[w] EXCEPT !.files = {}, !.fp = None, !.todo = Rest(w)] =
            [ses[w] EXCEPT !.files = {}, !.jes = None, !.fp = None, !.todo = Rest(w)]
      BY <1>3, Typed DEF SessionType
    <3> QED
      BY <3>1, <3>2
  <2> QED
    BY <2>1 DEF Fclose, Closes, Lose
<1> QED
  BY <1>1, <1>2, <1>3, <1>4, <1>5, CloseInv

LEMMA JescloseInv == ASSUME RequestInv, NEW w \in Workers, Jesclose(w) PROVE RequestInv'
<1>0. At(w, "jesclose")
  BY DEF Jesclose
<1>1. /\ pc[w] = "run" /\ HoldsForTodo(ses[w]) /\ StepFacts(ses[w].todo)
      /\ Head(ses[w].todo) = "jesclose" /\ Rest(w) = Tail(ses[w].todo)
  BY <1>0, Running
<1>2. /\ ses[w].todo \in WithJes /\ ses[w].todo \notin Middle
      /\ Rest(w) \in Untouched \ (Pending \cup SpoolOnly)
  BY <1>1 DEF StepFacts
<1>3. /\ ses[w].fp \in Handles /\ ses[w].files = {} /\ ses[w].jes = ses[w].fp
      /\ ~ses[w].dslock
  BY <1>1, <1>2 DEF HoldsForTodo, StepFacts
<1>4. Registered(w) = {ses[w].fp}
  BY <1>3, RequestAssumption DEF Registered
<1>5. Closes(w, ses[w].fp)
  <2>1. ses' = [ses EXCEPT ![w] = [ses[w] EXCEPT !.files = {}, !.jes = None, !.fp = None,
                                                !.todo = Rest(w)]]
    <3>1. ses' = [ses EXCEPT ![w] = [ses[w] EXCEPT !.jes = None, !.fp = None, !.todo = Rest(w)]]
      BY <1>3 DEF Jesclose, RequestInv, Types
    <3>2. [ses[w] EXCEPT !.jes = None, !.fp = None, !.todo = Rest(w)] =
            [ses[w] EXCEPT !.files = {}, !.jes = None, !.fp = None, !.todo = Rest(w)]
      BY <1>3, Typed DEF SessionType
    <3> QED
      BY <3>1, <3>2
  <2> QED
    BY <2>1 DEF Jesclose, Closes, Lose
<1> QED
  BY <1>1, <1>2, <1>3, <1>4, <1>5, CloseInv

-----------------------------------------------------------------------------
(* The handler: what it sends. *)

\* A step of the handler that goes on with t and leaves the flag b and the wire r.
Sends(w, t, b, r) ==
    /\ ses' = [ses EXCEPT ![w] = [ses[w] EXCEPT !.headersSent = b, !.todo = t]]
    /\ resp' = [resp EXCEPT ![w] = r]
    /\ UNCHANGED <<pc, task, open, enq, lost>>
    /\ b \in BOOLEAN /\ r \in ResponseType /\ r.status = IF b THEN 1 ELSE 0

LEMMA SendInv ==
    ASSUME RequestInv, NEW w \in Workers, NEW t \in Todos, NEW b, NEW r, Sends(w, t, b, r),
           pc[w] = "run", SameHolding(ses[w].todo, t), t \notin Pending,
           t \in SpoolOnly => ses[w].kind = "spool",
           r.status = 0 \/ ses[w].kind = "spool" \/ t \in Middle \/ Ended(r)
    PROVE  RequestInv'
<1> DEFINE s == [ses[w] EXCEPT !.headersSent = b, !.todo = t]
<1>0. ses[w] \in SessionType /\ b \in BOOLEAN /\ r \in ResponseType /\ HoldsForTodo(ses[w])
  BY Typed DEF Sends, Holdings
<1>1. /\ s \in SessionType /\ s.headersSent = b /\ s.todo = t
      /\ s.kind = ses[w].kind /\ s.cred = ses[w].cred /\ s.acee = ses[w].acee
      /\ s.old = ses[w].old /\ s.fp = ses[w].fp /\ s.files = ses[w].files
      /\ s.jes = ses[w].jes /\ s.dslock = ses[w].dslock
  BY <1>0 DEF SessionType
<1> HIDE DEF s
<1>2. Assigns(w, "run", s, task[w], open[w], lost[w], r)
  BY <1>0, <1>1, Typed, AsBefore DEF Assigns, Sends, s
<1>3. /\ Types' /\ OnlyOf(w) /\ pc'[w] = "run" /\ ses'[w] = s /\ task'[w] = task[w]
      /\ resp'[w] = r
  BY <1>2, StepOf
<1>4. Exact(w)' /\ OneFile(ses[w])'
  BY <1>1, <1>3, SameHeldExact DEF SameHeld, Sends
<1>5. HoldsForTodo(s)
  BY <1>0, <1>1 DEF HoldsForTodo, HoldsNothing, SameHolding
<1>6. Holdings(w)'
  BY <1>3, <1>4, <1>5 DEF Holdings
<1>7. Identity(w)'
  BY <1>1, <1>3, RunIdentity DEF SameWho
<1>8. Response(w)'
  BY <1>1, <1>3 DEF Response, Sends
<1> QED
  BY <1>3, <1>4, <1>6, <1>7, <1>8, OthersKeep

\* The status line is out exactly if the flag says so; nothing is out before the head.
LEMMA FlagIsWire ==
    ASSUME RequestInv, NEW w \in Workers, pc[w] = "run"
    PROVE  /\ resp[w].status = IF ses[w].headersSent THEN 1 ELSE 0
           /\ ses[w].headersSent \in BOOLEAN
           /\ ses[w].todo \in Pending => resp[w].status = 0 /\ ~ses[w].headersSent
           /\ ses[w].todo \in SpoolOnly => ses[w].kind = "spool"
BY Typed DEF Response, SessionType

LEMMA AnswerInv ==
    ASSUME RequestInv, NEW w \in Workers, NEW t \in Todos, Reply(w, t), pc[w] = "run",
           ses[w].todo \in Pending, SameHolding(ses[w].todo, t),
           t \notin Pending \cup SpoolOnly, UNCHANGED <<pc, task, open, enq, lost>>
    PROVE  RequestInv'
<1>1. PICK b \in BOOLEAN, r \in ResponseType :
        /\ ses' = [ses EXCEPT ![w] = [ses[w] EXCEPT !.headersSent = b, !.todo = t]]
        /\ resp' = [resp EXCEPT ![w] = r]
        /\ r.status = IF b THEN 1 ELSE 0
        /\ b => Ended(r)
  BY FlagIsWire, ReplyOutcome
<1>2. Sends(w, t, b, r)
  BY <1>1 DEF Sends
<1>3. r.status = 0 \/ Ended(r)
  BY <1>1
<1> QED
  BY <1>2, <1>3, SendInv

LEMMA OpenFailsInv == ASSUME RequestInv, NEW w \in Workers, OpenFails(w) PROVE RequestInv'
<1>0. PICK n \in {"open", "jesopen"} : At(w, n)
  BY DEF OpenFails
<1>1. /\ pc[w] = "run" /\ ses[w].todo \in Untouched \cap Pending
      /\ ses[w].todo \notin WithFile \cup WithJes \cup WithLock
  BY <1>0, Running DEF StepFacts
<1>2. << >> \in Todos \ (Pending \cup SpoolOnly) /\ SameHolding(ses[w].todo, << >>)
  BY <1>1, TodoEnd DEF SameHolding, Todos
<1> QED
  BY <1>1, <1>2, AnswerInv DEF OpenFails

LEMMA RefuseOpenedInv == ASSUME RequestInv, NEW w \in Workers, RefuseOpened(w) PROVE RequestInv'
<1>0. At(w, "head")
  BY DEF RefuseOpened
<1>1. /\ pc[w] = "run" /\ ses[w].todo \in Pending
      /\ Quit(Rest(w)) \in Todos \ (Pending \cup SpoolOnly)
      /\ SameHolding(ses[w].todo, Quit(Rest(w)))
  BY <1>0, Running DEF StepFacts
<1> QED
  BY <1>1, AnswerInv DEF RefuseOpened

LEMMA SendReplyInv == ASSUME RequestInv, NEW w \in Workers, SendReply(w) PROVE RequestInv'
<1>0. At(w, "reply")
  BY DEF SendReply
<1>1. /\ pc[w] = "run" /\ ses[w].todo \in Pending /\ Rest(w) \in Todos \ (Pending \cup SpoolOnly)
      /\ SameHolding(ses[w].todo, Rest(w))
  BY <1>0, Running DEF StepFacts
<1> QED
  BY <1>1, AnswerInv DEF SendReply

LEMMA SendHeadInv == ASSUME RequestInv, NEW w \in Workers, SendHead(w) PROVE RequestInv'
<1>0. At(w, "head") /\ UNCHANGED <<pc, task, open, enq, lost>>
  BY DEF SendHead
<1>1. /\ pc[w] = "run" /\ ses[w].todo \in Pending /\ Rest(w) \in Todos \ Pending
      /\ Rest(w) \in Middle \/ ses[w].todo \in SpoolOnly
      /\ Rest(w) \in SpoolOnly => ses[w].todo \in SpoolOnly
      /\ SameHolding(ses[w].todo, Rest(w))
      /\ Quit(Rest(w)) \in Todos \ (Pending \cup SpoolOnly)
      /\ SameHolding(ses[w].todo, Quit(Rest(w)))
  BY <1>0, Running DEF StepFacts
<1>2. ASSUME NEW f \in {"chunked", "close"}
      PROVE  LET r == Sent(resp[w], f, FALSE)
             IN  /\ r \in ResponseType /\ r.status = 1
                 /\ Aborted(r) \in ResponseType /\ Aborted(r).status = 1 /\ Ended(Aborted(r))
  <2> DEFINE r == Sent(resp[w], f, FALSE)
  <2>1. r \in ResponseType /\ r.status = 1
    <3>1. resp[w] \in ResponseType /\ resp[w].status = 0
      BY <1>1, FlagIsWire, Typed
    <3> QED
      BY <3>1, SentFacts
  <2> HIDE DEF r
  <2>2. Aborted(r) \in ResponseType /\ Aborted(r).status = 1 /\ Ended(Aborted(r))
    BY <2>1, AbortedFacts
  <2> QED
    BY <2>1, <2>2 DEF r
<1>4. ASSUME NEW f \in {"chunked", "close"}, resp' = [resp EXCEPT ![w] = Sent(@, f, FALSE)],
             ses' = [ses EXCEPT ![w].headersSent = TRUE, ![w].todo = Rest(w)]
      PROVE  RequestInv'
  <2> DEFINE r == Sent(resp[w], f, FALSE)
  <2>0. r \in ResponseType /\ r.status = 1
    BY <1>2
  <2>1. resp' = [resp EXCEPT ![w] = r]
    BY <1>4 DEF RequestInv, Types
  <2>2. ses' = [ses EXCEPT ![w] = [ses[w] EXCEPT !.headersSent = TRUE, !.todo = Rest(w)]]
    BY <1>4 DEF RequestInv, Types
  <2> HIDE DEF r
  <2>3. Sends(w, Rest(w), TRUE, r)
    BY <1>0, <2>0, <2>1, <2>2 DEF Sends
  <2> QED
    BY <1>1, <2>3, SendInv, FlagIsWire
<1>5. ASSUME NEW f \in {"chunked", "close"},
             resp' = [resp EXCEPT ![w] = Aborted(Sent(@, f, FALSE))],
             ses' = [ses EXCEPT ![w].headersSent = TRUE, ![w].todo = Quit(Rest(w))]
      PROVE  RequestInv'
  <2> DEFINE r == Aborted(Sent(resp[w], f, FALSE))
  <2>0. r \in ResponseType /\ r.status = 1 /\ Ended(r)
    BY <1>2
  <2>1. resp' = [resp EXCEPT ![w] = r]
    BY <1>5 DEF RequestInv, Types
  <2>2. ses' = [ses EXCEPT ![w] = [ses[w] EXCEPT !.headersSent = TRUE, !.todo = Quit(Rest(w))]]
    BY <1>5 DEF RequestInv, Types
  <2> HIDE DEF r
  <2>3. Sends(w, Quit(Rest(w)), TRUE, r)
    BY <1>0, <2>0, <2>1, <2>2 DEF Sends
  <2> QED
    BY <1>1, <2>0, <2>3, SendInv
<1> QED
  BY <1>4, <1>5 DEF SendHead

\* The head is already out: the body changes the wire and nothing else.
LEMMA BodyStep ==
    ASSUME RequestInv, NEW w \in Workers, NEW r \in ResponseType, pc[w] = "run",
           r.status = resp[w].status, resp' = [resp EXCEPT ![w] = r],
           ses' = [ses EXCEPT ![w].todo = Rest(w)], UNCHANGED <<pc, task, open, enq, lost>>
    PROVE  Sends(w, Rest(w), ses[w].headersSent, r)
<1>1. ses' = [ses EXCEPT ![w] = [ses[w] EXCEPT !.todo = Rest(w)]]
  BY DEF RequestInv, Types
<1>2. [ses[w] EXCEPT !.todo = Rest(w)] =
        [ses[w] EXCEPT !.headersSent = ses[w].headersSent, !.todo = Rest(w)]
  BY Typed DEF SessionType
<1> QED
  BY <1>1, <1>2, FlagIsWire DEF Sends

LEMMA WholeFacts ==
    ASSUME NEW r \in ResponseType
    PROVE  /\ [r EXCEPT !.whole = TRUE] \in ResponseType
           /\ [r EXCEPT !.whole = TRUE].status = r.status
           /\ Ended([r EXCEPT !.whole = TRUE])
BY DEF ResponseType, Ended

LEMMA SendBodyInv == ASSUME RequestInv, NEW w \in Workers, SendBody(w) PROVE RequestInv'
<1>0. /\ At(w, "body") /\ UNCHANGED <<pc, task, open, enq, lost>>
      /\ ses' = [ses EXCEPT ![w].todo = Rest(w)]
  BY DEF SendBody
<1>1. /\ pc[w] = "run" /\ Rest(w) \in Todos \ (Pending \cup SpoolOnly)
      /\ SameHolding(ses[w].todo, Rest(w))
  BY <1>0, Running DEF StepFacts
<1>2. PICK r \in {[resp[w] EXCEPT !.whole = TRUE], Aborted(resp[w])} :
        resp' = [resp EXCEPT ![w] = r]
  BY DEF SendBody
<1>3. r \in ResponseType /\ r.status = resp[w].status /\ Ended(r)
  <2>1. resp[w] \in ResponseType
    BY Typed
  <2>2. /\ [resp[w] EXCEPT !.whole = TRUE] \in ResponseType
        /\ [resp[w] EXCEPT !.whole = TRUE].status = resp[w].status
        /\ Ended([resp[w] EXCEPT !.whole = TRUE])
    BY <2>1, WholeFacts
  <2>3. /\ Aborted(resp[w]) \in ResponseType /\ Aborted(resp[w]).status = resp[w].status
        /\ Ended(Aborted(resp[w]))
    BY <2>1, AbortedFacts
  <2> QED
    BY <2>1, <2>2, <2>3, Zenon
<1>4. Sends(w, Rest(w), ses[w].headersSent, r)
  BY <1>0, <1>1, <1>2, <1>3, BodyStep
<1> QED
  BY <1>1, <1>3, <1>4, SendInv

LEMMA SendLinesInv == ASSUME RequestInv, NEW w \in Workers, SendLines(w) PROVE RequestInv'
<1>0. /\ At(w, "lines") /\ UNCHANGED <<pc, task, open, enq, lost>>
      /\ ses' = [ses EXCEPT ![w].todo = Rest(w)]
  BY DEF SendLines
<1>1. /\ pc[w] = "run" /\ Rest(w) \in Todos \ (Pending \cup SpoolOnly)
      /\ SameHolding(ses[w].todo, Rest(w)) /\ ses[w].todo \in SpoolOnly
  BY <1>0, Running DEF StepFacts
<1>2. PICK r \in {[resp[w] EXCEPT !.whole = TRUE], Aborted(resp[w]), resp[w]} :
        resp' = [resp EXCEPT ![w] = r]
  BY DEF SendLines
<1>3. r \in ResponseType /\ r.status = resp[w].status
  <2>1. resp[w] \in ResponseType
    BY Typed
  <2>2. /\ [resp[w] EXCEPT !.whole = TRUE] \in ResponseType
        /\ [resp[w] EXCEPT !.whole = TRUE].status = resp[w].status
        /\ Ended([resp[w] EXCEPT !.whole = TRUE])
    BY <2>1, WholeFacts
  <2>3. /\ Aborted(resp[w]) \in ResponseType /\ Aborted(resp[w]).status = resp[w].status
        /\ Ended(Aborted(resp[w]))
    BY <2>1, AbortedFacts
  <2> QED
    BY <2>1, <2>2, <2>3, Zenon
<1>4. Sends(w, Rest(w), ses[w].headersSent, r)
  BY <1>0, <1>1, <1>2, <1>3, BodyStep
<1> QED
  BY <1>1, <1>4, SendInv, FlagIsWire

-----------------------------------------------------------------------------
(* The handler: the ENQ of the data set list. *)

LEMMA LockInv == ASSUME RequestInv, NEW w \in Workers, LockDslist(w) PROVE RequestInv'
<1>0. /\ At(w, "lock") /\ enq \in {None, w} /\ enq' = w
      /\ pc' = [pc EXCEPT ![w] = "opened"] /\ UNCHANGED <<task, open, lost, resp>>
  BY DEF LockDslist, Goto
<1>1. /\ pc[w] = "run" /\ ses[w] \in SessionType /\ Exact(w)
      /\ HoldsForTodo(ses[w]) /\ StepFacts(ses[w].todo)
      /\ ses[w].todo # << >> /\ Head(ses[w].todo) = "lock"
  BY <1>0, Running, Typed DEF At
<1>2. ses[w].todo \in Untouched \cap Pending /\ ses[w].todo \notin Middle
  BY <1>1 DEF StepFacts
<1>3. HoldsNothing(ses[w])
  BY <1>1, <1>2 DEF HoldsForTodo, StepFacts
<1>4. PICK b \in BOOLEAN :
        /\ b <=> enq = None
        /\ ses' = [ses EXCEPT ![w] = [ses[w] EXCEPT !.granted = b]]
  <2>1. ses' = [ses EXCEPT ![w].granted = (enq = None)]
    BY DEF LockDslist
  <2>2. CASE enq = None
    <3>1. ses' = [ses EXCEPT ![w].granted = TRUE]
      BY <2>1, <2>2, Zenon
    <3>2. ses' = [ses EXCEPT ![w] = [ses[w] EXCEPT !.granted = TRUE]]
      BY <3>1 DEF RequestInv, Types
    <3> QED
      BY <2>2, <3>2
  <2>3. CASE enq # None
    <3>1. ses' = [ses EXCEPT ![w].granted = FALSE]
      BY <2>1, <2>3, Zenon
    <3>2. ses' = [ses EXCEPT ![w] = [ses[w] EXCEPT !.granted = FALSE]]
      BY <3>1 DEF RequestInv, Types
    <3> QED
      BY <2>3, <3>2
  <2> QED
    BY <2>2, <2>3
<1> DEFINE s == [ses[w] EXCEPT !.granted = b]
<1>5. /\ s \in SessionType /\ s.granted = b /\ s.todo = ses[w].todo /\ s.fp = ses[w].fp
      /\ s.files = ses[w].files /\ s.jes = ses[w].jes /\ s.kind = ses[w].kind
      /\ s.cred = ses[w].cred /\ s.acee = ses[w].acee /\ s.old = ses[w].old
      /\ s.headersSent = ses[w].headersSent /\ s.dslock = ses[w].dslock
  BY <1>1 DEF SessionType
<1>d. ses[w].dslock = FALSE
  BY <1>3, Typed DEF HoldsNothing, SessionType
<1> HIDE DEF s
<1>6. Assigns(w, "opened", s, task[w], open[w], lost[w], resp[w])
  BY <1>0, <1>1, <1>4, <1>5, AsBefore, Typed DEF Assigns, s, Stages
<1>7. /\ Types' /\ OnlyOf(w) /\ pc'[w] = "opened" /\ ses'[w] = s /\ task'[w] = task[w]
      /\ open'[w] = open[w] /\ lost'[w] = lost[w] /\ resp'[w] = resp[w]
  BY <1>6, StepOf
<1>8. Holdings(w)'
  BY <1>1, <1>3, <1>5, <1>7 DEF Holdings, AwaitsRegistration, HoldsNothing, OneFile
<1>9. Exact(w)'
  <2>1. Registered(w)' = Registered(w) /\ Loose(w) = {} /\ Loose(w)' = {} /\ ~LooseEnq(w)
    BY <1>1, <1>5, <1>7 DEF Registered, Loose, LooseEnq
  <2>2. LooseEnq(w)' <=> b
    BY <1>1, <1>5, <1>7 DEF LooseEnq
  <2>3. ~(enq = w /\ "enq" \notin lost[w]) /\ ("enq" \in lost[w] => enq = w)
    BY <1>1, <1>d, <2>1 DEF Exact
  <2>4. b <=> enq' = w /\ "enq" \notin lost'[w]
    BY <1>0, <1>4, <1>7, <2>3, RequestAssumption
  <2> QED
    BY <1>0, <1>1, <1>5, <1>7, <1>d, <2>1, <2>2, <2>4 DEF Exact
<1>10. Identity(w)'
  BY <1>1, <1>5, <1>7, RunIdentity DEF SameWho
<1>11. Response(w)'
  BY <1>1, <1>2, <1>5, <1>7, SilentResponse DEF Silent
<1> QED
  BY <1>7, <1>8, <1>9, <1>10, <1>11, OthersKeep

LEMMA NoteInv == ASSUME RequestInv, NEW w \in Workers, NoteDslist(w) PROVE RequestInv'
<1>0. /\ Opened(w, "lock") /\ pc' = [pc EXCEPT ![w] = "run"]
      /\ UNCHANGED <<task, open, enq, lost, resp>>
  BY DEF NoteDslist, Goto
<1>1. /\ ses[w] \in SessionType /\ Exact(w) /\ pc[w] = "opened"
      /\ StepFacts(ses[w].todo) /\ Head(ses[w].todo) = "lock" /\ Rest(w) = Tail(ses[w].todo)
      /\ Rest(w) \in Todos /\ HoldsNothing(ses[w])
      /\ Registered(w) = {} /\ ses[w].todo \in Pending /\ ses[w].todo \notin Middle
  BY <1>0, Awaiting, Typed
<1>2. Rest(w) \in WithLock \ SpoolOnly
  BY <1>1 DEF StepFacts
<1> DEFINE s == [ses[w] EXCEPT !.dslock = ses[w].granted, !.todo = Rest(w)]
<1>3. ses' = [ses EXCEPT ![w] = s]
  BY DEF NoteDslist, RequestInv, Types
<1>4. /\ s \in SessionType /\ s.dslock = ses[w].granted /\ s.todo = Rest(w)
      /\ s.files = ses[w].files /\ s.jes = ses[w].jes /\ s.kind = ses[w].kind
      /\ s.cred = ses[w].cred /\ s.acee = ses[w].acee /\ s.old = ses[w].old
      /\ s.headersSent = ses[w].headersSent
  <2>1. PICK b \in BOOLEAN : b = ses[w].granted
    BY <1>1 DEF SessionType
  <2>2. s = [ses[w] EXCEPT !.dslock = b, !.todo = Rest(w)]
    BY <2>1
  <2> QED
    BY <1>1, <2>1, <2>2 DEF SessionType
<1>d. ses[w].dslock = FALSE
  BY <1>1 DEF HoldsNothing, SessionType
<1> HIDE DEF s
<1>5. Assigns(w, "run", s, task[w], open[w], lost[w], resp[w])
  BY <1>0, <1>3, <1>4, AsBefore, Typed DEF Assigns, Stages
<1>6. /\ Types' /\ OnlyOf(w) /\ pc'[w] = "run" /\ ses'[w] = s /\ task'[w] = task[w]
      /\ open'[w] = open[w] /\ lost'[w] = lost[w] /\ resp'[w] = resp[w]
  BY <1>5, StepOf
<1>7. Holdings(w)'
  BY <1>1, <1>2, <1>4, <1>6 DEF Holdings, HoldsForTodo, HoldsNothing, OneFile
<1>8. Exact(w)'
  <2>1. /\ Registered(w)' = Registered(w) /\ Loose(w) = {} /\ Loose(w)' = {}
        /\ ~LooseEnq(w)' /\ (LooseEnq(w) <=> ses[w].granted)
    BY <1>1, <1>4, <1>6 DEF Registered, Loose, LooseEnq
  <2> QED
    BY <1>0, <1>1, <1>4, <1>6, <1>d, <2>1 DEF Exact
<1>9. Identity(w)'
  BY <1>1, <1>4, <1>6, RunIdentity DEF SameWho
<1>10. Response(w)'
  BY <1>1, <1>2, <1>4, <1>6, SilentResponse DEF Silent
<1> QED
  BY <1>6, <1>7, <1>8, <1>9, <1>10, OthersKeep

LEMMA UnlockInv == ASSUME RequestInv, NEW w \in Workers, UnlockDslist(w) PROVE RequestInv'
<1>0. /\ At(w, "unlock") /\ UNCHANGED <<task, open, resp>>
      /\ ses' = [ses EXCEPT ![w].dslock = FALSE, ![w].todo = Rest(w)]
  BY DEF UnlockDslist
<1>1. /\ pc[w] = "run" /\ ses[w] \in SessionType /\ Rest(w) \in Todos /\ Exact(w)
      /\ HoldsForTodo(ses[w]) /\ StepFacts(ses[w].todo)
      /\ open[w] \in SUBSET Handles
  BY <1>0, Running, Typed
<1>2. /\ ses[w].todo \in WithLock \cap Pending /\ ses[w].todo \notin Middle
      /\ Rest(w) \in Untouched \ SpoolOnly
  BY <1>0, Running DEF StepFacts
<1>3. ses[w].files = {} /\ ses[w].jes = None
  BY <1>1, <1>2 DEF HoldsForTodo, StepFacts
<1> DEFINE s == [ses[w] EXCEPT !.dslock = FALSE, !.todo = Rest(w)]
<1>4. ses' = [ses EXCEPT ![w] = s]
  BY <1>0 DEF RequestInv, Types
<1>5. /\ s \in SessionType /\ ~s.dslock /\ s.todo = Rest(w) /\ s.fp = ses[w].fp
      /\ s.files = {} /\ s.jes = None /\ s.kind = ses[w].kind
      /\ s.cred = ses[w].cred /\ s.acee = ses[w].acee /\ s.old = ses[w].old
      /\ s.headersSent = ses[w].headersSent
  BY <1>1, <1>3 DEF SessionType
<1> HIDE DEF s
<1>6. PICK p, l :
        /\ Assigns(w, p, s, task[w], open[w], l, resp[w])
        /\ \/ p = "run" /\ l = lost[w] /\ enq' = IF ses[w].dslock THEN None ELSE enq
           \/ p = "recover" /\ l = lost[w] \cup {"enq"} /\ ses[w].dslock /\ enq' = enq
  <2>1. CASE enq' = (IF ses[w].dslock THEN None ELSE enq) /\ UNCHANGED <<pc, lost>>
    <3>0. enq' = enq \/ (enq = w /\ enq' = None)
      BY <1>1, <2>1 DEF Exact
    <3>1. Assigns(w, "run", s, task[w], open[w], lost[w], resp[w])
      BY <1>0, <1>1, <1>4, <1>5, <2>1, <3>0, AsBefore, Typed, ZenonT(30) DEF Assigns
    <3> QED
      BY <2>1, <3>1
  <2>2. CASE /\ ses[w].dslock /\ Lose(w, {"enq"}) /\ Goto(w, "recover") /\ UNCHANGED enq
    <3>1. Assigns(w, "recover", s, task[w], open[w], lost[w] \cup {"enq"}, resp[w])
      BY <1>0, <1>1, <1>4, <1>5, <2>2, AsBefore, Typed DEF Assigns, Goto, Lose, Stages
    <3> QED
      BY <2>2, <3>1
  <2> QED
    BY <2>1, <2>2 DEF UnlockDslist
<1>7. /\ Types' /\ OnlyOf(w) /\ pc'[w] = p /\ ses'[w] = s /\ task'[w] = task[w]
      /\ open'[w] = open[w] /\ lost'[w] = l /\ resp'[w] = resp[w]
  BY <1>6, StepOf
<1>8. Holdings(w)'
  BY <1>2, <1>5, <1>6, <1>7 DEF Holdings, HoldsForTodo, HoldsNothing, OneFile
<1>9. Exact(w)'
  <2>1. /\ Registered(w) = {} /\ Registered(w)' = {} /\ Loose(w) = {} /\ Loose(w)' = {}
        /\ ~LooseEnq(w) /\ ~LooseEnq(w)'
    BY <1>1, <1>3, <1>5, <1>6, <1>7 DEF Registered, Loose, LooseEnq
  <2>2. open'[w] \ lost'[w] = {}
    BY <1>1, <1>6, <1>7, <2>1 DEF Exact
  <2>3. lost'[w] \ {"enq"} \subseteq open'[w]
    BY <1>1, <1>6, <1>7 DEF Exact
  <2>4. /\ ~(enq' = w /\ "enq" \notin lost'[w])
        /\ "enq" \in lost'[w] => enq' = w
    BY <1>1, <1>6, <1>7, <2>1, RequestAssumption DEF Exact
  <2> QED
    BY <1>5, <1>7, <2>1, <2>2, <2>3, <2>4 DEF Exact
<1>10. Identity(w)'
  BY <1>1, <1>5, <1>6, <1>7, RunIdentity DEF SameWho
<1>11. Response(w)'
  BY <1>1, <1>2, <1>5, <1>6, <1>7, SilentResponse DEF Silent
<1> QED
  BY <1>7, <1>8, <1>9, <1>10, <1>11, OthersKeep

-----------------------------------------------------------------------------
(* Recovery, and the end of the request. *)

LEMMA HandlerReturnsInv ==
    ASSUME RequestInv, NEW w \in Workers, HandlerReturns(w) PROVE RequestInv'
<1>0. /\ pc[w] = "run" /\ ses[w].todo = << >> /\ UNCHANGED <<ses, task, open, enq, lost, resp>>
      /\ pc' = [pc EXCEPT ![w] = "return"]
  BY DEF HandlerReturns, Goto
<1>1. HoldsNothing(ses[w]) /\ ses[w].todo \notin Middle
  BY <1>0, Typed, TodoEnd DEF Holdings, HoldsForTodo
<1>2. Assigns(w, "return", ses[w], task[w], open[w], lost[w], resp[w])
  BY <1>0, Typed, AsBefore DEF Assigns, Stages
<1>3. /\ Types' /\ OnlyOf(w) /\ pc'[w] = "return"
      /\ ses'[w] = ses[w] /\ task'[w] = task[w] /\ resp'[w] = resp[w]
  BY <1>2, StepOf
<1>4. Exact(w)' /\ OneFile(ses[w])'
  BY <1>0, <1>3, SameHeldExact DEF SameHeld
<1>5. Holdings(w)'
  BY <1>1, <1>3, <1>4 DEF Holdings, HoldsNothing
<1>6. Identity(w)'
  BY <1>0, <1>3, RunIdentity DEF SameWho
<1>7. Response(w)'
  BY <1>0, <1>1, <1>3, Typed DEF Response
<1> QED
  BY <1>3, <1>4, <1>5, <1>6, <1>7, OthersKeep

LEMMA AbendInv == ASSUME RequestInv, NEW w \in Workers, Abend(w) PROVE RequestInv'
<1>0. /\ pc[w] = "run" /\ pc' = [pc EXCEPT ![w] = "recover"]
      /\ UNCHANGED <<task, open, enq, lost, resp>>
  BY DEF Abend, Caught, Goto
<1> DEFINE s == [ses[w] EXCEPT !.todo = << >>, !.fp = None]
<1>1. ses' = [ses EXCEPT ![w] = s]
  BY DEF Abend, Caught, RequestInv, Types
<1>2. /\ s \in SessionType /\ s.files = ses[w].files /\ s.jes = ses[w].jes
      /\ s.dslock = ses[w].dslock /\ s.kind = ses[w].kind /\ s.cred = ses[w].cred
      /\ s.acee = ses[w].acee /\ s.old = ses[w].old /\ s.headersSent = ses[w].headersSent
  BY Typed, TodoEnd, ZenonT(30) DEF SessionType, Todos
<1> HIDE DEF s
<1>3. Assigns(w, "recover", s, task[w], open[w], lost[w], resp[w])
  BY <1>0, <1>1, <1>2, Typed, AsBefore DEF Assigns, Stages
<1>4. /\ Types' /\ OnlyOf(w) /\ pc'[w] = "recover"
      /\ ses'[w] = s /\ task'[w] = task[w] /\ resp'[w] = resp[w]
  BY <1>3, StepOf
<1>5. Exact(w)' /\ OneFile(ses[w])'
  BY <1>0, <1>2, <1>4, SameHeldExact DEF SameHeld
<1>6. Holdings(w)'
  BY <1>4, <1>5 DEF Holdings
<1>7. Identity(w)'
  BY <1>0, <1>2, <1>4, RunIdentity DEF SameWho
<1>8. Response(w)'
  BY <1>0, <1>2, <1>4, SilentResponse DEF Silent
<1> QED
  BY <1>4, <1>5, <1>6, <1>7, <1>8, OthersKeep

LEMMA AbendUnregisteredInv ==
    ASSUME RequestInv, NEW w \in Workers, AbendUnregistered(w) PROVE RequestInv'
<1>0. /\ pc[w] = "opened" /\ pc' = [pc EXCEPT ![w] = "recover"]
      /\ UNCHANGED <<task, open, enq, resp>>
  BY DEF AbendUnregistered, Caught, Goto
<1>1. /\ ses[w] \in SessionType /\ Exact(w) /\ HoldsNothing(ses[w]) /\ Registered(w) = {}
      /\ lost[w] \in SUBSET (Handles \cup {"enq"}) /\ ses[w].todo # << >>
      /\ Head(ses[w].todo) # "lock" => ses[w].fp \in Handles
  BY <1>0, Typed DEF Holdings, AwaitsRegistration, Registered, HoldsNothing
<1> DEFINE s == [ses[w] EXCEPT !.todo = << >>, !.fp = None]
           x == IF Opened(w, "lock") THEN (IF ses[w].granted THEN {"enq"} ELSE {}) ELSE {ses[w].fp}
           l == lost[w] \cup x
<1>2. ses' = [ses EXCEPT ![w] = s] /\ lost' = [lost EXCEPT ![w] = l]
  BY DEF AbendUnregistered, Caught, Lose, RequestInv, Types
<1>3. x = Loose(w) \cup (IF LooseEnq(w) THEN {"enq"} ELSE {})
  BY <1>0, <1>1 DEF Opened, Loose, LooseEnq
<1>4. x \subseteq Handles \cup {"enq"}
  BY <1>0, <1>1 DEF Opened
<1>5. /\ s \in SessionType /\ s.files = ses[w].files /\ s.jes = ses[w].jes
      /\ s.dslock = ses[w].dslock /\ s.kind = ses[w].kind /\ s.cred = ses[w].cred
      /\ s.acee = ses[w].acee /\ s.old = ses[w].old /\ s.headersSent = ses[w].headersSent
  BY Typed, TodoEnd, ZenonT(30) DEF SessionType, Todos
<1> HIDE DEF s, x
<1>6. Assigns(w, "recover", s, task[w], open[w], l, resp[w])
  BY <1>0, <1>1, <1>2, <1>4, <1>5, Typed, AsBefore DEF Assigns, Stages
<1>7. /\ Types' /\ OnlyOf(w) /\ pc'[w] = "recover" /\ ses'[w] = s /\ task'[w] = task[w]
      /\ open'[w] = open[w] /\ lost'[w] = l /\ resp'[w] = resp[w]
  BY <1>6, StepOf
<1>8. Holdings(w)'
  BY <1>1, <1>5, <1>7 DEF Holdings, HoldsNothing, OneFile
<1>9. Exact(w)'
  <2>1. Registered(w)' = {} /\ Loose(w)' = {} /\ ~LooseEnq(w)' /\ ~ses'[w].dslock
    BY <1>1, <1>5, <1>7 DEF Registered, HoldsNothing, Loose, LooseEnq
  <2>2. Loose(w) = open[w] \ lost[w] /\ (LooseEnq(w) <=> enq = w /\ "enq" \notin lost[w])
    BY <1>1 DEF Exact, HoldsNothing
  <2>3. open[w] \ l = {}
    BY <1>3, <2>2
  <2>4. l \ {"enq"} \subseteq open[w]
    BY <1>1, <1>3, <2>2 DEF Exact
  <2>5. ~(enq = w /\ "enq" \notin l) /\ ("enq" \in l => enq = w)
    <3>1. "enq" \notin Loose(w)
      BY <1>1, RequestAssumption DEF Loose
    <3> QED
      BY <1>1, <1>3, <2>2, <3>1 DEF Exact
  <2> QED
    BY <1>0, <1>7, <2>1, <2>3, <2>4, <2>5 DEF Exact
<1>10. Identity(w)'
  BY <1>0, <1>5, <1>7, RunIdentity DEF SameWho
<1>11. Response(w)'
  BY <1>0, <1>5, <1>7, SilentResponse DEF Silent
<1> QED
  BY <1>7, <1>8, <1>9, <1>10, <1>11, OthersKeep

LEMMA EscapeInv == ASSUME RequestInv, NEW w \in Workers, Escape(w) PROVE RequestInv'
<1>0. /\ pc[w] \in {"identify", "route", "recover", "report"} /\ UNCHANGED <<task, enq, resp>>
      /\ pc' = [pc EXCEPT ![w] = "gone"] /\ ses' = [ses EXCEPT ![w] = NoSession]
  BY DEF Escape, Goto
<1> DEFINE x(closed) == (Registered(w) \ closed) \cup (IF ses[w].dslock THEN {"enq"} ELSE {})
<1>1. PICK closed \in SUBSET ses[w].files :
        /\ open' = [open EXCEPT ![w] = @ \ closed]
        /\ lost' = [lost EXCEPT ![w] = @ \cup x(closed)]
  BY DEF Escape, Lose
<1>2. /\ Exact(w) /\ open[w] \in SUBSET Handles /\ Loose(w) = {} /\ ~LooseEnq(w)
      /\ lost[w] \in SUBSET (Handles \cup {"enq"}) /\ closed \subseteq Registered(w)
  BY <1>0, Typed DEF Loose, LooseEnq, Registered
<1>3. Registered(w) = open[w] \ lost[w] /\ Registered(w) \subseteq Handles
      /\ "enq" \notin Registered(w)
  BY <1>2, RequestAssumption DEF Exact
<1> DEFINE o == open[w] \ closed
           l == lost[w] \cup x(closed)
<1>4. /\ NoSession \in SessionType /\ HoldsNothing(NoSession)
  BY Programs, TodoEnd DEF NoSession, SessionType, Todos, HoldsNothing
<1>5. o \in SUBSET Handles /\ l \in SUBSET (Handles \cup {"enq"})
  BY <1>2, <1>3
<1>6. open' = [open EXCEPT ![w] = o] /\ lost' = [lost EXCEPT ![w] = l]
  BY <1>1 DEF RequestInv, Types
<1>7. o \ l = {} /\ l \ {"enq"} \subseteq o
  BY <1>2, <1>3 DEF Exact
<1>8. ~(enq = w /\ "enq" \notin l) /\ ("enq" \in l => enq = w)
  BY <1>2, <1>3 DEF Exact
<1> HIDE DEF o, l
<1>9. Assigns(w, "gone", NoSession, task[w], o, l, resp[w])
  BY <1>0, <1>4, <1>5, <1>6, Typed, AsBefore DEF Assigns, Stages
<1>10. /\ Types' /\ OnlyOf(w) /\ pc'[w] = "gone" /\ ses'[w] = NoSession
       /\ open'[w] = o /\ lost'[w] = l
  BY <1>9, StepOf
<1>11. Holdings(w)'
  BY <1>4, <1>10 DEF Holdings, HoldsNothing, OneFile
<1>12. Exact(w)'
  <2>1. Registered(w)' = {} /\ Loose(w)' = {} /\ ~LooseEnq(w)' /\ ~ses'[w].dslock
    BY <1>4, <1>10 DEF Registered, HoldsNothing, Loose, LooseEnq
  <2> QED
    BY <1>0, <1>7, <1>8, <1>10, <2>1 DEF Exact
<1>13. Identity(w)' /\ Response(w)'
  BY <1>10 DEF Identity, Response
<1> QED
  BY <1>10, <1>11, <1>12, <1>13, OthersKeep

LEMMA CleanupInv == ASSUME RequestInv, NEW w \in Workers, Cleanup(w) PROVE RequestInv'
<1>0. /\ pc[w] = "recover" /\ UNCHANGED <<task, resp>>
      /\ pc' = [pc EXCEPT ![w] = "report"]
      /\ ses' = [ses EXCEPT ![w].files = {}, ![w].jes = None, ![w].dslock = FALSE,
                            ![w].todo = << >>]
  BY DEF Cleanup, Goto
<1>1. PICK bad \in SUBSET (Registered(w) \cup (IF ses[w].dslock THEN {"enq"} ELSE {})) :
         /\ open' = [open EXCEPT ![w] = @ \ (Registered(w) \ bad)]
         /\ enq' = IF ses[w].dslock /\ "enq" \notin bad THEN None ELSE enq
         /\ lost' = [lost EXCEPT ![w] = @ \cup bad]
  BY DEF Cleanup, Lose
<1>2. /\ ses[w] \in SessionType /\ open[w] \in SUBSET Handles /\ Exact(w)
      /\ lost[w] \in SUBSET (Handles \cup {"enq"})
  BY Typed
<1>a. Loose(w) = {} /\ ~LooseEnq(w)
  BY <1>0 DEF Loose, LooseEnq
<1>3. Registered(w) \subseteq Handles /\ "enq" \notin Registered(w)
  BY <1>2, <1>a, RequestAssumption DEF Exact
<1> DEFINE s == [ses[w] EXCEPT !.files = {}, !.jes = None, !.dslock = FALSE, !.todo = << >>]
           o == open[w] \ (Registered(w) \ bad)
           l == lost[w] \cup bad
<1>4. ses' = [ses EXCEPT ![w] = s] /\ open' = [open EXCEPT ![w] = o] /\ lost' = [lost EXCEPT ![w] = l]
  BY <1>0, <1>1 DEF RequestInv, Types
<1>5. /\ s \in SessionType /\ s.files = {} /\ s.jes = None /\ ~s.dslock
      /\ s.kind = ses[w].kind /\ s.cred = ses[w].cred
      /\ s.acee = ses[w].acee /\ s.old = ses[w].old /\ s.headersSent = ses[w].headersSent
  BY <1>2, TodoEnd DEF SessionType, Todos
<1> HIDE DEF s
<1>6. o \in SUBSET Handles /\ l \in SUBSET (Handles \cup {"enq"})
  BY <1>2, <1>3
<1>7. enq' = enq \/ (enq = w /\ enq' = None)
  BY <1>1, <1>2, <1>a DEF Exact
<1>8. Assigns(w, "report", s, task[w], o, l, resp[w])
  BY <1>0, <1>4, <1>5, <1>6, <1>7, AsBefore, Typed DEF Assigns, Stages
<1>9. /\ Types' /\ OnlyOf(w) /\ pc'[w] = "report" /\ ses'[w] = s /\ task'[w] = task[w]
      /\ open'[w] = o /\ lost'[w] = l /\ resp'[w] = resp[w]
  BY <1>8, StepOf
<1>10. Holdings(w)'
  BY <1>5, <1>9 DEF Holdings, HoldsNothing, OneFile
<1>11. Exact(w)'
  <2>1. Registered(w)' = {} /\ Loose(w)' = {} /\ ~LooseEnq(w)'
    BY <1>5, <1>9 DEF Registered, Loose, LooseEnq
  <2>2. o \ l = {}
    BY <1>2, <1>a DEF Exact
  <2>3. l \ {"enq"} \subseteq o
    BY <1>1, <1>2, <1>3, <1>a DEF Exact
  <2>4. ~(enq' = w /\ "enq" \notin l) /\ ("enq" \in l => enq' = w)
    BY <1>1, <1>2, <1>3, <1>a, RequestAssumption DEF Exact
  <2> QED
    BY <1>5, <1>9, <2>1, <2>2, <2>3, <2>4 DEF Exact
<1>12. Identity(w)'
  BY <1>0, <1>5, <1>9, RunIdentity DEF SameWho
<1>13. Response(w)'
  BY <1>0, <1>5, <1>9, Typed DEF Response
<1> QED
  BY <1>9, <1>10, <1>11, <1>12, <1>13, OthersKeep

LEMMA ReportInv == ASSUME RequestInv, NEW w \in Workers, Report(w) PROVE RequestInv'
<1>0. /\ pc[w] = "report" /\ pc' = [pc EXCEPT ![w] = "return"] /\ "return" \in Stages
      /\ UNCHANGED <<task, open, enq, lost>>
  BY DEF Report, Goto, Stages
<1>1. CASE ~ses[w].headersSent /\ Reply(w, << >>)
  <2>1. resp[w].status = 0 /\ << >> \in Todos
    BY <1>0, <1>1, Typed, TodoEnd DEF Response, Todos
  <2>2. /\ Types' /\ OnlyOf(w) /\ Exact(w)' /\ OneFile(ses[w])'
        /\ pc'[w] = "return" /\ task'[w] = task[w] /\ SameSession(w)
        /\ resp'[w].status = 0 \/ Ended(resp'[w])
    BY <1>0, <1>1, <2>1, AnswerStep
  <2>3. Holdings(w)'
    BY <1>0, <2>2, Typed DEF Holdings, HoldsNothing, SameSession
  <2>4. Identity(w)'
    BY <1>0, <2>2, RunIdentity DEF SameWho, SameSession
  <2>5. Response(w)'
    BY <1>0, <2>2, Typed DEF Response
  <2> QED
    BY <2>2, <2>3, <2>4, <2>5, OthersKeep
<1>2. CASE resp' = [resp EXCEPT ![w] = Aborted(@)] /\ UNCHANGED ses
  <2>1. Aborted(resp[w]) \in ResponseType /\ Ended(Aborted(resp[w]))
    BY Typed, AbortedFacts
  <2>2. resp' = [resp EXCEPT ![w] = Aborted(resp[w])]
    BY <1>2
  <2>3. Assigns(w, "return", ses[w], task[w], open[w], lost[w], Aborted(resp[w]))
    BY <1>0, <1>2, <2>1, <2>2, Typed, AsBefore DEF Assigns
  <2>4. /\ Types' /\ OnlyOf(w) /\ pc'[w] = "return"
        /\ ses'[w] = ses[w] /\ task'[w] = task[w] /\ resp'[w] = Aborted(resp[w])
    BY <2>3, StepOf
  <2>5. Exact(w)' /\ OneFile(ses[w])'
    BY <1>0, <2>4, SameHeldExact DEF SameHeld
  <2>6. Holdings(w)'
    BY <1>0, <2>4, <2>5, Typed DEF Holdings, HoldsNothing
  <2>7. Identity(w)'
    BY <1>0, <2>4, RunIdentity DEF SameWho
  <2>8. Response(w)'
    BY <2>1, <2>4 DEF Response
  <2> QED
    BY <2>4, <2>5, <2>6, <2>7, <2>8, OthersKeep
<1> QED
  BY <1>1, <1>2 DEF Report

LEMMA ReturnInv == ASSUME RequestInv, NEW w \in Workers, Return(w) PROVE RequestInv'
<1>0. /\ pc[w] = "return" /\ pc' = [pc EXCEPT ![w] = "ended"]
      /\ UNCHANGED <<open, enq, lost, resp>>
  BY DEF Return, Goto
<1>1. task' = [task EXCEPT ![w] = Server]
  BY <1>0, Typed DEF Return, Identity
<1> DEFINE s == [NoSession EXCEPT !.kind = ses[w].kind]
<1>2. ses' = [ses EXCEPT ![w] = s]
  BY DEF Return
<1>3. /\ s \in SessionType /\ s.kind = ses[w].kind /\ s.acee = None /\ HoldsNothing(s)
  BY Typed, TodoEnd DEF SessionType, NoSession, Todos, HoldsNothing
<1> HIDE DEF s
<1>4. Assigns(w, "ended", s, Server, open[w], lost[w], resp[w])
  BY <1>0, <1>1, <1>2, <1>3, Typed, AsBefore DEF Assigns, Stages
<1>5. /\ Types' /\ OnlyOf(w) /\ pc'[w] = "ended"
      /\ ses'[w] = s /\ task'[w] = Server /\ resp'[w] = resp[w]
  BY <1>4, StepOf
<1>6. HoldsNothing(ses[w])
  BY <1>0, Typed DEF Holdings
<1>7. Exact(w)' /\ OneFile(ses[w])'
  <2>1. ses[w].dslock \in BOOLEAN /\ s.dslock \in BOOLEAN
    BY <1>3, Typed DEF SessionType
  <2>2. SameHeld(w)
    BY <1>0, <1>3, <1>5, <1>6, <2>1 DEF SameHeld, HoldsNothing
  <2> QED
    BY <2>2, SameHeldExact
<1>8. Holdings(w)'
  BY <1>3, <1>5, <1>7 DEF Holdings, HoldsNothing
<1>9. Identity(w)' /\ Response(w)'
  BY <1>0, <1>3, <1>5, Typed DEF Identity, Response
<1> QED
  BY <1>5, <1>7, <1>8, <1>9, OthersKeep

LEMMA HttpDoneInv == ASSUME RequestInv, NEW w \in Workers, HttpDone(w) PROVE RequestInv'
<1>0. /\ pc[w] = "ended" /\ pc' = [pc EXCEPT ![w] = "idle"]
      /\ ses' = [ses EXCEPT ![w] = NoSession] /\ resp' = [resp EXCEPT ![w] = NoResponse]
      /\ UNCHANGED <<task, open, enq, lost>>
  BY DEF HttpDone, Goto
<1>1. /\ NoSession \in SessionType /\ NoResponse \in ResponseType
      /\ NoSession.acee = None /\ ~NoSession.headersSent /\ HoldsNothing(NoSession)
      /\ NoResponse.status = 0
  BY Programs, TodoEnd DEF NoSession, NoResponse, SessionType, ResponseType, Todos, HoldsNothing
<1>2. Assigns(w, "idle", NoSession, task[w], open[w], lost[w], NoResponse)
  BY <1>0, <1>1, Typed, AsBefore DEF Assigns, Stages
<1>3. /\ Types' /\ OnlyOf(w) /\ pc'[w] = "idle"
      /\ ses'[w] = NoSession /\ task'[w] = task[w] /\ resp'[w] = NoResponse
  BY <1>2, StepOf
<1>4. HoldsNothing(ses[w])
  BY <1>0, Typed DEF Holdings
<1>5. Exact(w)' /\ OneFile(ses[w])'
  <2>1. ses[w].dslock \in BOOLEAN /\ NoSession.dslock \in BOOLEAN
    BY <1>1, Typed DEF SessionType
  <2>2. SameHeld(w)
    BY <1>0, <1>1, <1>3, <1>4, <2>1 DEF SameHeld, HoldsNothing
  <2> QED
    BY <2>2, SameHeldExact
<1>6. Holdings(w)'
  BY <1>1, <1>3, <1>5 DEF Holdings, HoldsNothing
<1>7. Identity(w)' /\ Response(w)'
  BY <1>0, <1>1, <1>3, Typed DEF Identity, Response
<1> QED
  BY <1>3, <1>5, <1>6, <1>7, OthersKeep

LEMMA NextRequest == RequestInv /\ [Next]_vars => RequestInv'
<1>1. ASSUME RequestInv, NEW w \in Workers, Accept(w) \/ Work(w) \/ Fail(w)
      PROVE  RequestInv'
  BY <1>1, AcceptInv, RefuseInv, IdentifyInv, RouteInv, OpensInv, RegisterFileInv, RegisterJesInv, NoteInv, OpenFailsInv,
     RefuseOpenedInv, FcloseInv, JescloseInv, LockInv, UnlockInv, SendHeadInv, SendBodyInv,
     SendLinesInv, SendReplyInv, HandlerReturnsInv, CleanupInv, ReportInv, ReturnInv,
     HttpDoneInv, AbendInv, AbendUnregisteredInv, EscapeInv DEF Work, Fail, Fopen, Jesopen
<1>2. ASSUME RequestInv, UNCHANGED vars PROVE RequestInv'
  BY <1>2 DEF RequestInv, Types, Holdings, AwaitsRegistration, HoldsNothing, HoldsForTodo, OneFile,
              Exact, Registered, Loose, LooseEnq, Identity, Response, Ended, vars
<1> QED
  BY <1>1, <1>2 DEF Next, AllGone

LEMMA RequestInvariant == Spec => []RequestInv
BY InitRequest, NextRequest, PTL DEF Spec

-----------------------------------------------------------------------------
(* What the invariant says of the properties. *)

LEMMA InvSession == RequestInv => SessionSound
<1> SUFFICES ASSUME RequestInv PROVE SessionSound
  OBVIOUS
<1>1. TypeOK
  <2>1. ASSUME NEW w \in Workers
        PROVE  /\ Cardinality(ses[w].files) <= MaxFiles
               /\ Range(ses[w].todo) \subseteq StepNames
    <3>1. OneFile(ses[w]) /\ ses[w].todo \in Todos
      BY Typed DEF Holdings, SessionType
    <3>2. Cardinality(ses[w].files) <= MaxFiles
      <4>1. Cardinality({}) = 0 /\ \A h : Cardinality({h}) = 1
        BY FS_EmptySet, FS_Singleton
      <4>2. Cardinality(ses[w].files) \in {0, 1}
        <5>1. CASE ses[w].files = {}
          BY <4>1, <5>1
        <5>2. ASSUME NEW h \in Handles, ses[w].files = {h} PROVE Cardinality(ses[w].files) = 1
          BY <4>1, <5>2, Zenon
        <5> QED
          BY <3>1, <5>1, <5>2 DEF OneFile
      <4> QED
        BY <4>2, RequestAssumption
    <3>3. /\ Range(Program["stream"]) \subseteq StepNames
          /\ Range(Program["write"]) \subseteq StepNames
          /\ Range(Program["jobs"]) \subseteq StepNames
          /\ Range(Program["spool"]) \subseteq StepNames
          /\ Range(Program["list"]) \subseteq StepNames
          /\ Range(Program["auth"]) \subseteq StepNames
      BY Programs DEF StepNames
    <3>4. {"open", "head", "body", "close", "reply", "jesopen", "jesclose", "lines",
           "lock", "unlock"} \subseteq StepNames
      BY <3>3, Programs DEF Range
    <3>5. \A t \in Todos : Range(t) \subseteq {"open", "head", "body", "close", "reply", "jesopen",
             "jesclose", "lines", "lock", "unlock"}
      BY TodoList DEF Range
    <3> QED
      BY <3>1, <3>2, <3>4, <3>5
  <2> QED
    BY <2>1, Typed DEF RequestInv, Types, TypeOK, SessionType, Stages
<1>2. NothingHeld
  BY Typed, RequestAssumption DEF NothingHeld, Holdings, HoldsNothing, Exact, Registered, Loose,
                                  LooseEnq
<1>3. RegisteredAreOpen
  BY Typed DEF RegisteredAreOpen, Exact
<1> QED
  BY <1>1, <1>2, <1>3 DEF SessionSound

LEMMA InvIdentity == RequestInv => IdentityKept
BY Typed DEF IdentityKept, Identity

LEMMA InvResponse == RequestInv => ResponseHonest
<1> SUFFICES ASSUME RequestInv PROVE ResponseHonest
  OBVIOUS
<1>1. TruncationVisible
  BY Typed DEF TruncationVisible, HonestEnd, LooksComplete, Response, Ended, ResponseType
<1>2. OneStatusLine
  BY Typed DEF OneStatusLine, ResponseType
<1> QED
  BY <1>1, <1>2 DEF ResponseHonest

\* Whatever the handlers of any number of workers do, fail at or abend in: what the
\* session table holds is open, and no request leaves a file, a JES handle or the list
\* ENQ behind but one whose own close or DEQ abended, one that was open and not yet
\* registered when the abend came, or what was registered when an abend escaped the
\* recovery (router.c: session_cleanup, session_fclose, session_jesclose).
THEOREM SessionIsSound == Spec => []SessionSound
BY RequestInvariant, InvSession, PTL

\* A handler runs, fails and is reported under the credential of its request,
\* and the worker has its own ACEE back before the next (mvsmf.c:
\* identity_middleware, main).
THEOREM IdentityIsKept == Spec => []IdentityKept
BY RequestInvariant, InvIdentity, PTL

\* A response that is short never looks complete, except that of a spool data set and
\* one without framing for an HTTP/1.0 client, and no response has two status lines
\* (common.c: abort_response; router.c: headers_sent).
THEOREM ResponsesAreHonest == Spec => []ResponseHonest
BY RequestInvariant, InvResponse, PTL

=============================================================================
