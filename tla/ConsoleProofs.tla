---------------------------- MODULE ConsoleProofs ----------------------------
(***************************************************************************)
(* Proofs about the console handlers, for any number of workers, requests, *)
(* commands and table lines, any replies and any other traffic:            *)
(*   - the lock is held exactly inside the bracket, and the reason codes   *)
(*     tell the truth about whether a command was issued (ConsoleInv);     *)
(*   - what a capture ends with comes from one poll, and no line is        *)
(*     returned twice under one key (LineInv).                             *)
(* The second part rests on what Block computes: it is a recursive         *)
(* function, so its values are found by induction over the lines.  A block *)
(* lists lines in the order they were written (BlockRises), and a table    *)
(* with one more line, with or without its oldest, only makes the block    *)
(* behind an echo longer (BlockCarried).                                   *)
(***************************************************************************)
EXTENDS Console, TLAPS, NaturalsInduction, WellFoundedInduction

Before == {"gate", "trylock", "issue"}
After == {"anchor", "alloc", "poll", "release", "captured", "detect", "arm", "reply"}
Collecting == {"cget", "cpoll", "cset"}

NotIssuedCodes == {"429", "8/17", "refused"}
IssuedCodes == {"200", "lost", "8/14", "8/15"}
Codes == {"none", "abend"} \cup NotIssuedCodes \cup IssuedCodes

\* The types the proofs need.
ProofTypes ==
    /\ pc \in [Workers -> Steps]
    /\ req \in [Workers -> 0..MaxReq]
    /\ lock \in Workers \cup {Nobody}
    /\ nreq \in 0..MaxReq
    /\ issued \in [Requests -> Nat]
    /\ answer \in [Requests -> Codes]

\* A request has at most one worker, and is not answered while it is served.
ServedOnce ==
    /\ \A w \in Workers : pc[w] # "idle" => req[w] \in Requests /\ req[w] <= nreq
    /\ \A w \in Workers : pc[w] \in Before \cup After => answer[req[w]] = "none"
    /\ \A w, u \in Workers :
         pc[w] # "idle" /\ pc[u] # "idle" /\ req[w] = req[u] => w = u

\* SVC 34 was executed for a request when its handler is behind it.
IssuedWhere ==
    /\ \A w \in Workers : pc[w] \in Before => issued[req[w]] = 0
    /\ \A w \in Workers : pc[w] \in After => issued[req[w]] = 1
    /\ \A r \in Requests : r > nreq => issued[r] = 0 /\ answer[r] = "none"
    /\ \A r \in Requests : issued[r] \in {0, 1}

\* An idle worker serves nobody.
IdleServesNone == \A w \in Workers : pc[w] = "idle" => req[w] = 0

ConsoleInv ==
    /\ ProofTypes
    /\ ServedOnce
    /\ IssuedWhere
    /\ IdleServesNone
    /\ LockDiscipline
    /\ AnswerTruthful

LEMMA StepNames ==
    /\ Steps = {"idle"} \cup Before \cup After \cup Collecting
    /\ Bracket = {"issue", "anchor", "alloc", "poll", "release"}
    /\ "idle" \notin Before \cup After \cup Collecting
    /\ After \cap (Before \cup Collecting) = {} /\ Before \cap Collecting = {}
    /\ Bracket \subseteq Before \cup After
BY DEF Steps, Bracket, Before, After, Collecting

LEMMA MaxReqNat == MaxReq \in Nat /\ 0 \in 0..MaxReq
BY ConsoleAssumption

LEMMA InitConsole == Init => ConsoleInv
<1> SUFFICES ASSUME Init PROVE ConsoleInv
  OBVIOUS
<1>1. ProofTypes
  <2>1. "idle" \in Steps /\ "none" \in Codes /\ 0 \in Nat
    BY DEF Steps, Codes
  <2> QED
    BY <2>1, MaxReqNat DEF Init, ProofTypes
<1>2. ServedOnce /\ IdleServesNone
  BY DEF Init, ServedOnce, IdleServesNone, Before, After
<1>3. IssuedWhere
  BY DEF Init, IssuedWhere, Before, After
<1>4. LockDiscipline
  BY DEF Init, LockDiscipline, Bracket
<1>5. AnswerTruthful
  BY DEF Init, AnswerTruthful
<1> QED
  BY <1>1, <1>2, <1>3, <1>4, <1>5 DEF ConsoleInv

\* A handler that leaves with an answer that fits the step it was in.
LEMMA QuitStep ==
    ASSUME ConsoleInv, NEW w \in Workers, NEW code,
           \/ pc[w] \in Before /\ code \in NotIssuedCodes \cup {"abend"}
           \/ pc[w] \in After /\ code \in IssuedCodes \cup {"abend"},
           Quit(w, code), UNCHANGED <<nreq, issued>>
    PROVE  ConsoleInv'
<1> USE DEF ConsoleInv, Quit, Leave, Goto, ReleaseLock
<1>0. pc[w] # "idle" /\ req[w] \in Requests /\ req[w] <= nreq /\ code # "none"
  BY DEF ServedOnce, Before, After, NotIssuedCodes, IssuedCodes
<1>1. ProofTypes'
  BY <1>0, MaxReqNat DEF ProofTypes, Steps, Codes
<1>2. ServedOnce' /\ IdleServesNone'
  <2>1. \A u \in Workers : u # w => pc'[u] = pc[u] /\ req'[u] = req[u]
    BY DEF ProofTypes
  <2>2. pc'[w] = "idle" /\ req'[w] = 0
    BY DEF ProofTypes
  <2>3. \A u \in Workers : u # w /\ pc[u] # "idle" => answer'[req[u]] = answer[req[u]]
    BY <1>0 DEF ServedOnce, ProofTypes
  <2>4. "idle" \notin Before \cup After
    BY DEF Before, After
  <2> QED
    BY <2>1, <2>2, <2>3, <2>4 DEF ServedOnce, IdleServesNone
<1>3. IssuedWhere'
  BY <1>0 DEF IssuedWhere, ProofTypes, Before, After, Requests
<1>4. LockDiscipline'
  BY ConsoleAssumption DEF LockDiscipline, ProofTypes, Bracket
<1>5. AnswerTruthful'
  BY <1>0 DEF AnswerTruthful, IssuedWhere, ProofTypes, NotIssuedCodes, IssuedCodes,
              Before, After
<1> QED
  BY <1>1, <1>2, <1>3, <1>4, <1>5

\* A handler that moves to its next step without touching lock or answer.
LEMMA GotoStep ==
    ASSUME ConsoleInv, NEW w \in Workers, NEW step \in Steps,
           \/ pc[w] \in Before /\ step \in Before
           \/ pc[w] \in After /\ step \in After
           \/ pc[w] \in Collecting /\ step \in Collecting,
           step \in Bracket => (pc[w] \in Bracket \/ ~HasContext),
           pc[w] \in Bracket /\ lock = w => step \in Bracket,
           Goto(w, step), UNCHANGED <<lock, req, nreq, issued, answer>>
    PROVE  ConsoleInv'
<1> USE DEF ConsoleInv, Goto
<1>1. ProofTypes'
  BY DEF ProofTypes
<1>2. ServedOnce' /\ IdleServesNone'
  BY StepNames DEF ServedOnce, IdleServesNone, ProofTypes
<1>3. IssuedWhere'
  BY StepNames DEF IssuedWhere, ProofTypes
<1>4. LockDiscipline'
  BY ConsoleAssumption DEF LockDiscipline, ProofTypes
<1>5. AnswerTruthful'
  BY DEF AnswerTruthful
<1> QED
  BY <1>1, <1>2, <1>3, <1>4, <1>5

\* A collect that leaves; it never held the lock.
LEMMA CollectLeaves ==
    ASSUME ConsoleInv, NEW w \in Workers, pc[w] \in Collecting,
           Leave(w), UNCHANGED <<nreq, issued, answer>>
    PROVE  ConsoleInv'
<1> USE DEF ConsoleInv, Leave, Goto, ReleaseLock
<1>0. pc[w] \notin Bracket /\ lock # w
  BY StepNames, ConsoleAssumption DEF LockDiscipline
<1>1. ProofTypes'
  BY MaxReqNat DEF ProofTypes, Steps
<1>2. ServedOnce' /\ IdleServesNone'
  BY StepNames DEF ServedOnce, IdleServesNone, ProofTypes
<1>3. IssuedWhere'
  BY StepNames DEF IssuedWhere, ProofTypes
<1>4. LockDiscipline'
  BY <1>0, ConsoleAssumption DEF LockDiscipline, ProofTypes, Bracket
<1>5. AnswerTruthful'
  BY DEF AnswerTruthful
<1> QED
  BY <1>1, <1>2, <1>3, <1>4, <1>5

\* A step that touches nothing the invariant speaks of.
LEMMA FrameStep ==
    ASSUME ConsoleInv, UNCHANGED <<lock, pc, req, nreq, issued, answer>>
    PROVE  ConsoleInv'
BY DEF ConsoleInv, ProofTypes, ServedOnce, IssuedWhere, IdleServesNone,
       LockDiscipline, AnswerTruthful

-----------------------------------------------------------------------------
(* The actions. *)

LEMMA ReceiveIssueInv ==
    ASSUME ConsoleInv, NEW w \in Workers, ReceiveIssue(w) PROVE ConsoleInv'
<1> USE DEF ConsoleInv, ReceiveIssue, Goto
<1> DEFINE r == nreq + 1
<1>0. /\ r \in Requests /\ nreq \in Nat /\ nreq' = r
      /\ issued[r] = 0 /\ answer[r] = "none"
      /\ \A u \in Workers : pc[u] # "idle" => req[u] <= nreq
  BY MaxReqNat DEF ProofTypes, Requests, IssuedWhere, ServedOnce
<1>1. /\ pc' = [pc EXCEPT ![w] = "gate"] /\ req' = [req EXCEPT ![w] = r]
      /\ UNCHANGED <<lock, issued, answer>> /\ pc[w] = "idle"
  OBVIOUS
<1>2. ProofTypes'
  BY <1>0, <1>1, MaxReqNat DEF ProofTypes, Steps, Requests
<1>3. ServedOnce'
  BY <1>0, <1>1, StepNames DEF ServedOnce, ProofTypes, Before, Requests
<1>4. IdleServesNone'
  BY <1>0, <1>1 DEF IdleServesNone, ProofTypes
<1>5. IssuedWhere'
  BY <1>0, <1>1, StepNames DEF IssuedWhere, ProofTypes, Before, Requests
<1>6. LockDiscipline' /\ AnswerTruthful'
  BY <1>1 DEF LockDiscipline, AnswerTruthful, ProofTypes, Bracket
<1> QED
  BY <1>2, <1>3, <1>4, <1>5, <1>6

LEMMA GateInv ==
    ASSUME ConsoleInv, NEW w \in Workers, Refuse(w) \/ Gate(w) PROVE ConsoleInv'
<1>1. CASE Refuse(w)
  <2>1. pc[w] \in Before /\ Quit(w, "refused") /\ UNCHANGED <<nreq, issued>>
    BY <1>1 DEF Refuse, Before
  <2>2. "refused" \in NotIssuedCodes \cup {"abend"}
    BY DEF NotIssuedCodes
  <2> QED
    BY <2>1, <2>2, QuitStep
<1>2. CASE Gate(w) /\ quiesce
  <2>1. pc[w] \in Before /\ Quit(w, "8/17") /\ UNCHANGED <<nreq, issued>>
    BY <1>2 DEF Gate, Before
  <2>2. "8/17" \in NotIssuedCodes \cup {"abend"}
    BY DEF NotIssuedCodes
  <2> QED
    BY <2>1, <2>2, QuitStep
<1>3. CASE Gate(w) /\ ~quiesce
  <2> DEFINE step == IF HasContext THEN "trylock" ELSE "issue"
  <2>1. step \in Steps /\ step \in Before /\ pc[w] \in Before /\ pc[w] \notin Bracket
    BY <1>3 DEF Gate, Steps, Before, Bracket
  <2>2. step \in Bracket => ~HasContext
    BY DEF Bracket
  <2>3. Goto(w, step) /\ UNCHANGED <<lock, req, nreq, issued, answer>>
    BY <1>3 DEF Gate
  <2> HIDE DEF step
  <2> QED
    BY <2>1, <2>2, <2>3, GotoStep
<1> QED
  BY <1>1, <1>2, <1>3

LEMMA TryLockInv ==
    ASSUME ConsoleInv, NEW w \in Workers, TryLock(w) PROVE ConsoleInv'
<1>0. pc[w] = "trylock" /\ pc[w] \in Before
  BY DEF TryLock, Before
<1>1. CASE lock = Nobody
  <2>1. /\ lock' = w /\ pc' = [pc EXCEPT ![w] = "issue"]
        /\ UNCHANGED <<req, nreq, issued, answer>>
    BY <1>1 DEF TryLock, Goto
  <2>2. ProofTypes'
    BY <2>1 DEF ConsoleInv, ProofTypes, Steps, Bracket
  <2>3. ServedOnce' /\ IdleServesNone' /\ IssuedWhere'
    BY <1>0, <2>1, StepNames
       DEF ConsoleInv, ServedOnce, IdleServesNone, IssuedWhere, ProofTypes, Before
  <2>4. LockDiscipline'
    BY <1>1, <2>1, ConsoleAssumption DEF ConsoleInv, LockDiscipline, ProofTypes, Bracket
  <2>5. AnswerTruthful'
    BY <2>1 DEF ConsoleInv, AnswerTruthful
  <2> QED
    BY <2>2, <2>3, <2>4, <2>5 DEF ConsoleInv
<1>2. UNCHANGED <<nreq, issued>> /\ "8/17" \in NotIssuedCodes /\ "429" \in NotIssuedCodes
  BY DEF TryLock, NotIssuedCodes
<1>3. CASE lock # Nobody /\ (Quit(w, "8/17") \/ Quit(w, "429"))
  BY <1>0, <1>2, <1>3, QuitStep
<1>4. CASE UNCHANGED <<lock, pc, req, nreq, issued, answer>>
  BY <1>4, FrameStep
<1> QED
  BY <1>1, <1>3, <1>4 DEF TryLock

LEMMA IssueInv ==
    ASSUME ConsoleInv, NEW w \in Workers, Issue(w) PROVE ConsoleInv'
<1> DEFINE step == IF ask[req[w]].unsol = "no" THEN "alloc" ELSE "anchor"
<1>1. /\ pc[w] = "issue" /\ pc[w] \in Before
      /\ pc' = [pc EXCEPT ![w] = step]
      /\ issued' = [issued EXCEPT ![req[w]] = @ + 1]
      /\ UNCHANGED <<lock, req, nreq, answer>>
  BY DEF Issue, Goto, Before
<1>2. step \in After \cap Bracket \cap Steps
  BY DEF After, Bracket, Steps
<1>3. /\ req[w] \in Requests /\ req[w] <= nreq /\ issued[req[w]] = 0
      /\ answer[req[w]] = "none"
      /\ \A u \in Workers : u # w /\ pc[u] # "idle" => req[u] # req[w]
  BY <1>1, StepNames DEF ConsoleInv, ServedOnce, IssuedWhere
<1> HIDE DEF step
<1>4. ProofTypes'
  BY <1>1, <1>2, <1>3 DEF ConsoleInv, ProofTypes
<1>5. ServedOnce' /\ IdleServesNone'
  BY <1>1, <1>2, StepNames DEF ConsoleInv, ServedOnce, IdleServesNone, ProofTypes
<1>6. IssuedWhere'
  <2>1. issued'[req[w]] = 1 /\ \A r \in Requests : r # req[w] => issued'[r] = issued[r]
    BY <1>1, <1>3 DEF ConsoleInv, ProofTypes
  <2>2. pc'[w] = step /\ \A u \in Workers : u # w => pc'[u] = pc[u]
    BY <1>1 DEF ConsoleInv, ProofTypes
  <2>3. \A u \in Workers : pc[u] # "idle" => req[u] \in Requests
    BY DEF ConsoleInv, ServedOnce
  <2>4. \A r \in Requests : r > nreq => r # req[w]
    BY <1>3 DEF Requests, ConsoleInv, ProofTypes
  <2> QED
    BY <1>1, <1>2, <1>3, <2>1, <2>2, <2>3, <2>4, StepNames DEF ConsoleInv, IssuedWhere
<1>7. LockDiscipline'
  BY <1>1, <1>2, ConsoleAssumption DEF ConsoleInv, LockDiscipline, ProofTypes, Bracket
<1>8. AnswerTruthful'
  BY <1>1, <1>3 DEF ConsoleInv, AnswerTruthful, ProofTypes
<1> QED
  BY <1>4, <1>5, <1>6, <1>7, <1>8 DEF ConsoleInv

LEMMA AnchorAllocInv ==
    ASSUME ConsoleInv, NEW w \in Workers, TakeAnchor(w) \/ Alloc(w) PROVE ConsoleInv'
<1>1. /\ pc[w] \in After /\ pc[w] \in Bracket
      /\ UNCHANGED <<nreq, issued>> /\ "8/14" \in IssuedCodes
  BY DEF TakeAnchor, Alloc, After, Bracket, IssuedCodes
<1>2. CASE Quit(w, "8/14")
  BY <1>1, <1>2, QuitStep
<1>3. ASSUME NEW step \in {"alloc", "poll"}, Goto(w, step), UNCHANGED <<lock, req, answer>>
      PROVE  ConsoleInv'
  <2>1. step \in After /\ step \in Bracket /\ step \in Steps
    BY DEF After, Bracket, Steps
  <2> QED
    BY <1>1, <1>3, <2>1, GotoStep
<1> QED
  BY <1>2, <1>3 DEF TakeAnchor, Alloc

LEMMA PollInv ==
    ASSUME ConsoleInv, NEW w \in Workers, Poll(w) PROVE ConsoleInv'
<1>1. PICK step \in {"poll", "release"} :
         Goto(w, step) /\ UNCHANGED <<lock, req, nreq, issued, answer>>
  BY DEF Poll
<1>2. /\ pc[w] \in After /\ pc[w] \in Bracket
      /\ step \in After /\ step \in Bracket /\ step \in Steps
  BY DEF Poll, After, Bracket, Steps
<1> QED
  BY <1>1, <1>2, GotoStep

LEMMA ReleaseInv ==
    ASSUME ConsoleInv, NEW w \in Workers, Release(w) PROVE ConsoleInv'
<1> USE DEF ConsoleInv
<1>1. /\ pc[w] = "release" /\ pc' = [pc EXCEPT ![w] = "captured"]
      /\ lock' = IF lock = w THEN Nobody ELSE lock
      /\ UNCHANGED <<req, nreq, issued, answer>>
  BY DEF Release, Goto, ReleaseLock
<1>2. ProofTypes'
  BY <1>1 DEF ProofTypes, Steps
<1>3. ServedOnce' /\ IdleServesNone' /\ IssuedWhere'
  BY <1>1, StepNames DEF ServedOnce, IdleServesNone, IssuedWhere, ProofTypes, After
<1>4. LockDiscipline'
  BY <1>1, ConsoleAssumption DEF LockDiscipline, ProofTypes, Bracket
<1>5. AnswerTruthful'
  BY <1>1 DEF AnswerTruthful
<1> QED
  BY <1>2, <1>3, <1>4, <1>5

LEMMA AfterReleaseInv ==
    ASSUME ConsoleInv, NEW w \in Workers,
           Captured(w) \/ DetectPoll(w) \/ ArmDetection(w) \/ Reply(w)
    PROVE  ConsoleInv'
<1>1. /\ pc[w] \in After /\ pc[w] \notin Bracket /\ UNCHANGED <<nreq, issued>>
      /\ \A code \in {"8/14", "8/15", "200", "lost"} : code \in IssuedCodes
  BY DEF Captured, DetectPoll, ArmDetection, Reply, After, Bracket, IssuedCodes
<1>2. ASSUME NEW code \in {"8/14", "8/15", "200", "lost"}, Quit(w, code)
      PROVE  ConsoleInv'
  BY <1>1, <1>2, QuitStep
<1>3. ASSUME NEW step \in {"reply", "detect", "arm"}, Goto(w, step),
             UNCHANGED <<lock, req, answer>>
      PROVE  ConsoleInv'
  <2>1. step \in After /\ step \notin Bracket /\ step \in Steps
    BY DEF After, Bracket, Steps
  <2> QED
    BY <1>1, <1>3, <2>1, GotoStep
<1>4. CASE UNCHANGED <<lock, pc, req, answer>>
  BY <1>1, <1>4, FrameStep
<1>5. CASE Captured(w)
  BY <1>5, <1>2, <1>3 DEF Captured
<1>6. CASE DetectPoll(w)
  BY <1>6, <1>2, <1>3, <1>4 DEF DetectPoll
<1>7. CASE ArmDetection(w)
  BY <1>7, <1>3 DEF ArmDetection
<1>8. CASE Reply(w)
  BY <1>8, <1>2 DEF Reply
<1> QED
  BY <1>5, <1>6, <1>7, <1>8

LEMMA AbendInv ==
    ASSUME ConsoleInv, NEW w \in Workers, Abend(w) PROVE ConsoleInv'
<1>1. /\ pc[w] # "idle" /\ Leave(w) /\ UNCHANGED <<nreq, issued>>
      /\ pc[w] \in Before \cup After \cup Collecting
  BY StepNames DEF Abend, ConsoleInv, ProofTypes
<1>2. CASE pc[w] \in Collecting
  <2>1. answer' = answer
    BY <1>2 DEF Abend, Collecting
  <2> QED
    BY <1>1, <1>2, <2>1, CollectLeaves
<1>3. CASE pc[w] \in Before \cup After
  <2>1. Quit(w, "abend")
    BY <1>1, <1>3, StepNames DEF Abend, Quit, Collecting
  <2> QED
    BY <1>1, <1>3, <2>1, QuitStep
<1> QED
  BY <1>1, <1>2, <1>3

LEMMA ReceiveCollectInv ==
    ASSUME ConsoleInv, NEW w \in Workers, ReceiveCollect(w) PROVE ConsoleInv'
<1> USE DEF ConsoleInv
<1>1. PICK r \in Requests : /\ answer[r] = "200" /\ req' = [req EXCEPT ![w] = r]
                            /\ \A u \in Workers : req[u] # r
  BY DEF ReceiveCollect
<1>2. /\ pc[w] = "idle" /\ pc' = [pc EXCEPT ![w] = "cget"]
      /\ UNCHANGED <<lock, nreq, issued, answer>>
  BY DEF ReceiveCollect, Goto
<1>3. r <= nreq
  BY <1>1, MaxReqNat DEF IssuedWhere, ProofTypes, Requests
<1>4. ProofTypes'
  BY <1>1, <1>2, MaxReqNat DEF ProofTypes, Steps, Requests
<1>5. ServedOnce' /\ IdleServesNone'
  BY <1>1, <1>2, <1>3, StepNames
     DEF ServedOnce, IdleServesNone, ProofTypes, Collecting
<1>6. IssuedWhere'
  BY <1>1, <1>2, StepNames DEF IssuedWhere, ProofTypes, Collecting
<1>7. LockDiscipline' /\ AnswerTruthful'
  BY <1>2 DEF LockDiscipline, AnswerTruthful, ProofTypes, Bracket
<1> QED
  BY <1>4, <1>5, <1>6, <1>7

LEMMA CollectInv ==
    ASSUME ConsoleInv, NEW w \in Workers,
           CollectGet(w) \/ CollectPoll(w) \/ CollectSet(w)
    PROVE  ConsoleInv'
<1>1. /\ pc[w] \in Collecting /\ pc[w] \notin Bracket
      /\ UNCHANGED <<nreq, issued, answer>>
  BY DEF CollectGet, CollectPoll, CollectSet, Collecting, Bracket
<1>2. CASE Leave(w)
  BY <1>1, <1>2, CollectLeaves
<1>3. ASSUME NEW step \in {"cpoll", "cset"}, Goto(w, step), UNCHANGED <<lock, req>>
      PROVE  ConsoleInv'
  <2>1. step \in Collecting /\ step \notin Bracket /\ step \in Steps
    BY DEF Collecting, Bracket, Steps
  <2> QED
    BY <1>1, <1>3, <2>1, GotoStep
<1> QED
  BY <1>2, <1>3 DEF CollectGet, CollectPoll, CollectSet

LEMMA OtherInv ==
    ASSUME ConsoleInv, Environment \/ Stopped \/ UNCHANGED vars PROVE ConsoleInv'
<1>1. UNCHANGED <<lock, pc, req, nreq, issued, answer>>
  BY DEF Environment, Land, Evict, WriteNoise, Tick, Quiesce, Stopped, vars
<1> QED
  BY <1>1, FrameStep

-----------------------------------------------------------------------------
\* The invariant of the handlers: what is known of lock, request and answer at
\* every step of consoleIssueHandler and consoleCollectHandler.
THEOREM ConsoleInvariant == Spec => []ConsoleInv
<1>1. ConsoleInv /\ [Next]_vars => ConsoleInv'
  <2> SUFFICES ASSUME ConsoleInv, [Next]_vars PROVE ConsoleInv'
    OBVIOUS
  <2>1. CASE \E w \in Workers : \/ ReceiveIssue(w) \/ ReceiveCollect(w)
                                \/ WorkerStep(w) \/ Abend(w)
    <3> PICK w \in Workers : \/ ReceiveIssue(w) \/ ReceiveCollect(w)
                             \/ WorkerStep(w) \/ Abend(w)
      BY <2>1
    <3> QED
      BY ReceiveIssueInv, ReceiveCollectInv, GateInv, TryLockInv, IssueInv,
         AnchorAllocInv, PollInv, ReleaseInv, AfterReleaseInv, CollectInv, AbendInv
         DEF WorkerStep
  <2>2. CASE Environment \/ Stopped \/ UNCHANGED vars
    BY <2>2, OtherInv
  <2> QED
    BY <2>1, <2>2 DEF Next
<1> QED
  BY InitConsole, <1>1, PTL DEF Spec

\* The console lock is held exactly from before SVC 34 to the end of the
\* polling (consapi.c:810-903, quit:1069, session_cleanup in router.c), by one
\* worker, whatever fails, abends or is interrupted in between.
THEOREM LockIsDisciplined == Spec => []LockDiscipline
<1>1. ConsoleInv => LockDiscipline
  BY DEF ConsoleInv
<1> QED
  BY ConsoleInvariant, <1>1, PTL

\* A command is issued at most once per request, and the reason code of every
\* answer of consoleIssueHandler says truly whether it was.
THEOREM AnswersAreTruthful == Spec => []AnswerTruthful
<1>1. ConsoleInv => AnswerTruthful
  BY DEF ConsoleInv
<1> QED
  BY ConsoleInvariant, <1>1, PTL

-----------------------------------------------------------------------------
(* The block behind an echo (correlate_once). *)

Below == OpToRel(<, Nat)

LEMMA BelowDef == ASSUME NEW x \in Nat, NEW y \in Nat PROVE <<x, y>> \in Below <=> x < y
BY DEF Below, OpToRel

\* Induction over the natural numbers, by the least one that is missing.
LEMMA SetInduction ==
    ASSUME NEW S, 0 \in S, \A n \in Nat : n \in S => n + 1 \in S
    PROVE  Nat \subseteq S
<1> DEFINE T == Nat \ S
<1> SUFFICES ASSUME T # {} PROVE FALSE
  OBVIOUS
<1>1. IsWellFoundedOn(Below, Nat)
  BY NatLessThanWellFounded DEF Below
<1>2. T \subseteq Nat /\ T # {}
  OBVIOUS
<1> HIDE DEF T
<1>3. PICK x \in T : \A y \in T : ~(<<y, x>> \in Below)
  BY <1>1, <1>2, WFMin
<1> USE DEF T
<1>4. x \in Nat /\ x # 0
  OBVIOUS
<1>5. x - 1 \in Nat /\ x - 1 < x
  BY <1>4
<1>6. x - 1 \notin T
  BY <1>3, <1>4, <1>5, BelowDef
<1> QED
  BY <1>4, <1>5, <1>6

\* The walk of a block as a function of the line it has come to.
First(e) == [src |-> e.src, num |-> 0, adopted |-> FALSE, ended |-> FALSE, lines |-> << >>]
Walked(f, i, t, ei) == IF i = ei THEN First(t[ei]) ELSE WalkLine(t[ei], f[i - 1], t[i])
Walks(f, t, ei, m) == f = [i \in ei .. m |-> Walked(f, i, t, ei)]

LEMMA WalkExists ==
    ASSUME NEW t, NEW ei \in Nat, NEW m \in Nat PROVE \E f : Walks(f, t, ei, ei + m)
<1> DEFINE S == {k \in Nat : \E f : Walks(f, t, ei, ei + k)}
<1>1. 0 \in S
  <2> DEFINE f == [i \in ei .. ei |-> First(t[ei])]
  <2>1. f = [i \in ei .. ei + 0 |-> Walked(f, i, t, ei)]
    BY DEF Walked
  <2> QED
    BY <2>1 DEF Walks
<1>2. ASSUME NEW k \in Nat, k \in S PROVE k + 1 \in S
  <2>1. PICK f : Walks(f, t, ei, ei + k)
    BY <1>2
  <2> DEFINE top == ei + k
             g == [i \in ei .. top + 1 |-> IF i <= top THEN f[i] ELSE Walked(f, i, t, ei)]
  <2>2. ASSUME NEW i \in ei .. top + 1 PROVE g[i] = Walked(g, i, t, ei)
    <3>1. \A j \in ei .. top : g[j] = f[j]
      OBVIOUS
    <3>2. i # ei => g[i - 1] = f[i - 1]
      BY <3>1
    <3>3. Walked(g, i, t, ei) = Walked(f, i, t, ei)
      <4> HIDE DEF g
      <4> QED
        BY <3>2 DEF Walked
    <3>4. i <= top => f[i] = Walked(f, i, t, ei)
      BY <2>1 DEF Walks
    <3> QED
      BY <3>3, <3>4
  <2>3. g = [i \in ei .. top + 1 |-> g[i]]
    OBVIOUS
  <2> HIDE DEF g
  <2>4. Walks(g, t, ei, top + 1)
    BY <2>2, <2>3 DEF Walks
  <2>5. top + 1 = ei + (k + 1)
    OBVIOUS
  <2> QED
    BY <2>4, <2>5
<1> HIDE DEF S
<1>3. m \in S
  BY <1>1, <1>2, SetInduction
<1> QED
  BY <1>3 DEF S

LEMMA BlockIs ==
    ASSUME NEW t, Len(t) \in Nat, NEW ei \in 1 .. Len(t)
    PROVE  \E f : /\ f[ei] = First(t[ei])
                  /\ \A i \in ei + 1 .. Len(t) : f[i] = WalkLine(t[ei], f[i - 1], t[i])
                  /\ Block(t, ei) = f[Len(t)].lines
<1>1. \E g : Walks(g, t, ei, Len(t))
  <2>1. ei \in Nat /\ Len(t) - ei \in Nat /\ ei + (Len(t) - ei) = Len(t)
    OBVIOUS
  <2>2. \A k \in Nat : \E g : Walks(g, t, ei, ei + k)
    BY <2>1, WalkExists, Zenon
  <2> QED
    BY <2>1, <2>2
<1> DEFINE f == CHOOSE f : Walks(f, t, ei, Len(t))
<1>4. Walks(f, t, ei, Len(t))
  BY <1>1
<1>2. Block(t, ei) = f[Len(t)].lines
  BY DEF Block, Walks, Walked, First
<1> HIDE DEF f
<1>3. \A i \in ei .. Len(t) : f[i] = Walked(f, i, t, ei)
  BY <1>4 DEF Walks
<1> QED
  BY <1>2, <1>3 DEF Walked

\* A walk is a record, and a line adds itself to the block or nothing.
IsWalk(b) == b = [src |-> b.src, num |-> b.num, adopted |-> b.adopted,
                  ended |-> b.ended, lines |-> b.lines]

LEMMA WalkLineIs ==
    ASSUME NEW echo, NEW b, IsWalk(b), NEW e
    PROVE  /\ IsWalk(WalkLine(echo, b, e))
           /\ WalkLine(echo, b, e).lines \in {b.lines, Append(b.lines, e.id)}
<1> DEFINE r == WalkLine(echo, b, e)
<1>1. \/ r = b
      \/ r = [b EXCEPT !.ended = TRUE]
      \/ r = [b EXCEPT !.ended = (b.lines # << >>)]
      \/ \E n, s, a : r = [b EXCEPT !.lines = Append(@, e.id), !.num = n, !.src = s, !.adopted = a]
  <2> DEFINE issuer  == e.src = echo.src
             blank   == e.src = Blank
             cont    == b.num # 0 /\ e.shape = "cont" /\ e.num = b.num
             foreign == e.src # b.src /\ ~blank /\ ~cont
             adopt   == /\ foreign /\ b.lines = << >> /\ ~b.adopted
                        /\ echo.sec >= 0 /\ e.sec >= 0 /\ (e.sec - echo.sec) % Day <= 1
             n == IF e.num = 0 THEN b.num ELSE e.num
             s == IF adopt THEN e.src ELSE b.src
             a == b.adopted \/ adopt
             next == [b EXCEPT !.lines = Append(@, e.id), !.num = n, !.src = s, !.adopted = a]
  <2>1. r = CASE b.ended -> b
              [] ~b.ended /\ ~cont /\ issuer /\ e.shape = "cmd" -> [b EXCEPT !.ended = TRUE]
              [] ~b.ended /\ ~cont /\ ~issuer /\ blank /\ e.shape = "cmd" -> b
              [] OTHER -> IF foreign /\ ~adopt THEN [b EXCEPT !.ended = (b.lines # << >>)] ELSE next
    BY Zenon DEF WalkLine
  <2> HIDE DEF issuer, blank, cont, foreign, adopt, n, s, a
  <2>2. r \in {b, [b EXCEPT !.ended = TRUE], [b EXCEPT !.ended = (b.lines # << >>)], next}
    BY <2>1
  <2> QED
    BY <2>2
<1> HIDE DEF r
<1>2. ASSUME r = b PROVE IsWalk(r) /\ r.lines = b.lines
  BY <1>2
<1>3. ASSUME NEW v, r = [b EXCEPT !.ended = v] PROVE IsWalk(r) /\ r.lines = b.lines
  BY <1>3 DEF IsWalk
<1>4. ASSUME NEW n, NEW s, NEW a,
             r = [b EXCEPT !.lines = Append(@, e.id), !.num = n, !.src = s, !.adopted = a]
      PROVE  IsWalk(r) /\ r.lines = Append(b.lines, e.id)
  BY <1>4 DEF IsWalk
<1> QED
  BY <1>1, <1>2, <1>3, <1>4 DEF r

\* Sequences of line identities in the order of writing, up to line number top.
Rising(s, top) ==
    /\ s \in Seq({s[i] : i \in 1 .. Len(s)}) /\ Len(s) \in Nat
    /\ \A i \in 1 .. Len(s) : s[i].n \in Int /\ s[i].n <= top
    /\ \A i, j \in 1 .. Len(s) : i < j => s[i].n < s[j].n

LEMMA RisingOrder ==
    ASSUME NEW s, NEW top, Rising(s, top), NEW i \in 1 .. Len(s), NEW j \in 1 .. Len(s), i <= j
    PROVE  s[i].n \in Int /\ s[j].n \in Int /\ s[i].n <= s[j].n
<1>1. s[i].n \in Int /\ s[j].n \in Int /\ (i < j => s[i].n < s[j].n)
  BY DEF Rising
<1>2. i = j \/ i < j
  OBVIOUS
<1> QED
  BY <1>1, <1>2

LEMMA RisingAppend ==
    ASSUME NEW s, NEW top \in Int, Rising(s, top), NEW id, id.n \in Int, id.n > top
    PROVE  Rising(Append(s, id), id.n)
<1> DEFINE u == Append(s, id)
           A == {s[i] : i \in 1 .. Len(s)} \cup {id}
<1>1. s \in Seq(A) /\ id \in A /\ Len(s) \in Nat
  BY DEF Rising
<1> HIDE DEF A
<1>2. /\ u \in Seq(A) /\ Len(u) = Len(s) + 1 /\ u[Len(s) + 1] = id
      /\ \A i \in 1 .. Len(s) : u[i] = s[i]
  BY <1>1
<1> HIDE DEF u
<1>3. u \in Seq({u[i] : i \in 1 .. Len(u)})
  BY <1>2
<1>4. \A i \in 1 .. Len(u) : u[i].n \in Int /\ u[i].n <= id.n
  <2>1. \A i \in 1 .. Len(s) : u[i].n \in Int /\ u[i].n <= top
    BY <1>2 DEF Rising
  <2>2. \A i \in 1 .. Len(u) : i \in 1 .. Len(s) \/ i = Len(s) + 1
    BY <1>1, <1>2
  <2> QED
    BY <1>2, <2>1, <2>2
<1>5. ASSUME NEW i \in 1 .. Len(u), NEW j \in 1 .. Len(u), i < j PROVE u[i].n < u[j].n
  <2>1. i \in 1 .. Len(s)
    BY <1>1, <1>2, <1>5
  <2>2. u[i].n <= top /\ u[i] = s[i] /\ u[i].n \in Int
    BY <1>2, <2>1 DEF Rising
  <2>3. CASE j = Len(s) + 1
    BY <1>2, <2>2, <2>3
  <2>4. CASE j \in 1 .. Len(s)
    BY <1>2, <2>1, <2>2, <2>4, <1>5 DEF Rising
  <2> QED
    BY <1>1, <1>2, <2>3, <2>4
<1>6. Rising(u, id.n)
  BY <1>1, <1>2, <1>3, <1>4, <1>5 DEF Rising
<1> QED
  BY <1>6 DEF u

LEMMA RisingOn ==
    ASSUME NEW s, NEW a \in Int, NEW b \in Int, a <= b, Rising(s, a) PROVE Rising(s, b)
<1>1. \A i \in 1 .. Len(s) : s[i].n \in Int /\ s[i].n <= a
  BY DEF Rising
<1>2. \A i \in 1 .. Len(s) : s[i].n \in Int /\ s[i].n <= b
  BY <1>1
<1> QED
  BY <1>2, Zenon DEF Rising

\* The lines of a numbered table.
Numbered(t, base) ==
    /\ base \in Int /\ Len(t) \in Nat
    /\ \A i \in 1 .. Len(t) : t[i].id.n = base + i

LEMMA BlockRises ==
    ASSUME NEW t, NEW base, Numbered(t, base), NEW ei \in 1 .. Len(t)
    PROVE  Rising(Block(t, ei), base + Len(t))
<1>0. Len(t) \in Nat /\ ei \in Nat /\ base \in Int
  BY DEF Numbered
<1>1. PICK f : /\ f[ei] = First(t[ei])
               /\ \A i \in ei + 1 .. Len(t) : f[i] = WalkLine(t[ei], f[i - 1], t[i])
               /\ Block(t, ei) = f[Len(t)].lines
  BY <1>0, BlockIs
<1> DEFINE S == {m \in Nat : ei + m <= Len(t) =>
                   IsWalk(f[ei + m]) /\ Rising(f[ei + m].lines, base + (ei + m))}
<1>2. 0 \in S
  <2>1. IsWalk(f[ei]) /\ f[ei].lines = << >>
    BY <1>1 DEF IsWalk, First
  <2>2. Rising(<< >>, base + ei)
    BY DEF Rising
  <2>3. ei + 0 = ei
    BY <1>0
  <2> QED
    BY <2>1, <2>2, <2>3
<1>3. ASSUME NEW m \in Nat, m \in S PROVE m + 1 \in S
  <2> SUFFICES ASSUME ei + (m + 1) <= Len(t)
               PROVE  IsWalk(f[ei + (m + 1)])
                      /\ Rising(f[ei + (m + 1)].lines, base + (ei + (m + 1)))
    OBVIOUS
  <2> DEFINE i == ei + m
  <2>1. /\ i \in Nat /\ i + 1 \in ei + 1 .. Len(t) /\ i + 1 - 1 = i /\ ei + (m + 1) = i + 1
        /\ i + 1 \in 1 .. Len(t) /\ i <= Len(t)
    BY <1>0
  <2>2. IsWalk(f[i]) /\ Rising(f[i].lines, base + i)
    BY <1>3, <2>1
  <2> HIDE DEF i
  <2>3. f[i + 1] = WalkLine(t[ei], f[i], t[i + 1])
    BY <1>1, <2>1
  <2>4. /\ IsWalk(f[i + 1])
        /\ f[i + 1].lines \in {f[i].lines, Append(f[i].lines, t[i + 1].id)}
    <3> DEFINE r == WalkLine(t[ei], f[i], t[i + 1])
    <3>1. IsWalk(r) /\ r.lines \in {f[i].lines, Append(f[i].lines, t[i + 1].id)}
      BY <2>2, WalkLineIs, Zenon
    <3> QED
      BY <2>3, <3>1
  <2>5. t[i + 1].id.n = base + (i + 1) /\ base + i \in Int /\ base + (i + 1) \in Int
        /\ base + (i + 1) > base + i
    BY <1>0, <2>1 DEF Numbered
  <2>6. CASE f[i + 1].lines = f[i].lines
    BY <2>1, <2>2, <2>4, <2>5, <2>6, RisingOn
  <2>7. CASE f[i + 1].lines = Append(f[i].lines, t[i + 1].id)
    BY <2>1, <2>2, <2>4, <2>5, <2>7, RisingAppend
  <2> QED
    BY <2>4, <2>6, <2>7
<1> HIDE DEF S
<1>4. Len(t) - ei \in Nat /\ ei + (Len(t) - ei) = Len(t)
  BY <1>0
<1>5. Len(t) - ei \in S
  BY <1>2, <1>3, <1>4, SetInduction
<1> QED
  BY <1>1, <1>4, <1>5 DEF S

\* What a block is made of, it keeps when lines are written behind it and dropped
\* before it.
Extends(u, s) == Len(s) <= Len(u) /\ \A i \in 1 .. Len(s) : u[i] = s[i]

LEMMA BlockCarried ==
    ASSUME NEW t, NEW u, NEW base, Numbered(t, base), Len(u) \in Nat, NEW ei \in 1 .. Len(t),
           NEW d \in {0, 1}, ei - d >= 1, Len(u) = Len(t) + 1 - d,
           \A i \in ei .. Len(t) : u[i - d] = t[i]
    PROVE  Extends(Block(u, ei - d), Block(t, ei))
<1> DEFINE k == ei - d
<1>0. /\ Len(t) \in Nat /\ ei \in Nat /\ k \in 1 .. Len(u) /\ k \in Nat /\ k + d = ei
      /\ Len(u) - 1 \in Nat /\ Len(u) - 1 = Len(t) - d /\ Len(u) - 1 >= k /\ d \in Int
  BY DEF Numbered
<1>1. PICK f : /\ f[ei] = First(t[ei])
               /\ \A i \in ei + 1 .. Len(t) : f[i] = WalkLine(t[ei], f[i - 1], t[i])
               /\ Block(t, ei) = f[Len(t)].lines
  BY <1>0, BlockIs
<1>2. PICK g : /\ g[k] = First(u[k])
               /\ \A i \in k + 1 .. Len(u) : g[i] = WalkLine(u[k], g[i - 1], u[i])
               /\ Block(u, k) = g[Len(u)].lines
  BY <1>0, BlockIs
<1>3. u[k] = t[ei]
  BY <1>0
<1> HIDE DEF k
<1> DEFINE S == {m \in Nat : ei + m <= Len(t) => g[k + m] = f[ei + m] /\ IsWalk(f[ei + m])}
<1>4. 0 \in S
  BY <1>0, <1>1, <1>2, <1>3 DEF IsWalk, First
<1>5. ASSUME NEW m \in Nat, m \in S PROVE m + 1 \in S
  <2> SUFFICES ASSUME ei + (m + 1) <= Len(t)
               PROVE  g[k + (m + 1)] = f[ei + (m + 1)] /\ IsWalk(f[ei + (m + 1)])
    OBVIOUS
  <2>1. g[k + m] = f[ei + m] /\ IsWalk(f[ei + m])
    BY <1>0, <1>5
  <2> DEFINE i == ei + (m + 1)
             j == k + (m + 1)
  <2>2. /\ i \in ei + 1 .. Len(t) /\ i - 1 = ei + m /\ i \in ei .. Len(t)
        /\ j \in k + 1 .. Len(u) /\ j - 1 = k + m /\ i - d = j
    BY <1>0
  <2> HIDE DEF i, j
  <2>3. u[j] = t[i]
    BY <2>2
  <2>4. f[i] = WalkLine(t[ei], f[ei + m], t[i])
    BY <1>1, <2>2
  <2>5. g[j] = WalkLine(u[k], g[k + m], u[j])
    BY <1>2, <2>2
  <2>6. g[j] = f[i]
    BY <1>3, <2>1, <2>3, <2>4, <2>5
  <2>7. IsWalk(f[i])
    <3> DEFINE r == WalkLine(t[ei], f[ei + m], t[i])
    <3>1. IsWalk(r)
      BY <2>1, WalkLineIs, Zenon
    <3> QED
      BY <2>4, <3>1
  <2> QED
    BY <2>6, <2>7 DEF i, j
<1> HIDE DEF S
<1>6. Len(t) - ei \in Nat /\ ei + (Len(t) - ei) = Len(t) /\ k + (Len(t) - ei) = Len(u) - 1
  <2>1. Len(t) - ei \in Nat /\ ei + (Len(t) - ei) = Len(t)
    BY <1>0
  <2>2. k + (Len(t) - ei) = Len(t) - d
    BY <1>0
  <2> QED
    BY <1>0, <2>1, <2>2
<1>7. g[Len(u) - 1] = f[Len(t)] /\ IsWalk(f[Len(t)])
  <2>1. Len(t) - ei \in S
    BY <1>4, <1>5, <1>6, SetInduction
  <2> QED
    BY <1>6, <2>1 DEF S
<1>8. g[Len(u)] = WalkLine(u[k], f[Len(t)], u[Len(u)])
  BY <1>0, <1>2, <1>7
<1>9. Block(u, k) \in {Block(t, ei), Append(Block(t, ei), u[Len(u)].id)}
  <2>1. g[Len(u)].lines \in {f[Len(t)].lines, Append(f[Len(t)].lines, u[Len(u)].id)}
    BY <1>7, <1>8, WalkLineIs, Zenon
  <2> QED
    BY <1>1, <1>2, <2>1
<1>10. Rising(Block(t, ei), base + Len(t))
  BY BlockRises
<1> DEFINE s == Block(t, ei)
           A == {s[i] : i \in 1 .. Len(s)} \cup {u[Len(u)].id}
<1>11. s \in Seq(A) /\ Len(s) \in Nat /\ u[Len(u)].id \in A
  BY <1>10 DEF Rising
<1> HIDE DEF s, A
<1>12. \A id \in A : Extends(Append(s, id), s) /\ Extends(s, s)
  BY <1>11 DEF Extends
<1> QED
  BY <1>9, <1>11, <1>12 DEF s, k

-----------------------------------------------------------------------------
(* The table and the echoes in it. *)

\* A table t in which the echo of a command names the request whose echo it is, when a
\* is what the requests asked for and e the seconds of their echoes.
Echoing(t, i, c, s) == i \in 1 .. Len(t) /\ IsEcho(t[i], c) /\ t[i].sec = s

World(t, a, e, w) ==
    /\ DOMAIN t = 1 .. Len(t) /\ Numbered(t, w - Len(t)) /\ w \in Nat
    /\ e \in [Requests -> -1 .. Day - 1]
    /\ \A i \in 1 .. Len(t) : t[i].shape = "cmd" /\ t[i].text \in Cmds =>
         /\ t[i].id.of \in Requests /\ a[t[i].id.of].cmd = t[i].text
         /\ e[t[i].id.of] = t[i].sec /\ t[i].sec \in 0 .. Day - 1
    /\ \A i, j \in 1 .. Len(t) :
         (/\ t[i].shape = "cmd" /\ t[i].text \in Cmds
          /\ t[j].shape = "cmd" /\ t[j].text \in Cmds /\ t[i].id.of = t[j].id.of) => i = j

Known(a, e, c, s) == s >= 0 => \E q \in Requests : a[q].cmd = c /\ e[q] = s

Unique(a, e, c, s) ==
    /\ s >= 0
    /\ \A q, p \in Requests : a[q].cmd = c /\ e[q] = s /\ a[p].cmd = c /\ e[p] = s => q = p

\* The lines S are among the first k of the block behind the echo of c in second s.
Within(t, i, k, S) ==
    /\ k <= Len(Block(t, i))
    /\ \A x \in S : x.n \in Int /\ k >= 1 /\ x.n <= Block(t, i)[k].n

Behind(t, a, e, c, s, k, S) ==
    /\ k \in Nat /\ s \in -1 .. Day - 1 /\ c \in Cmds /\ Known(a, e, c, s)
    /\ Unique(a, e, c, s) => \A i : Echoing(t, i, c, s) => Within(t, i, k, S)

\* The lines o are the first ones of that block, and all of k lines or as many as fit.
Starts(t, a, e, c, s, o) ==
    Unique(a, e, c, s) => \A i : Echoing(t, i, c, s) => Extends(Block(t, i), o)

Ids(g) == {g[i] : i \in 1 .. Len(g)}
IdSeq(g) == g \in Seq(Ids(g)) /\ Len(g) \in Nat /\ \A i \in 1 .. Len(g) : g[i].n \in Int
Increasing(g) == \A i, j \in 1 .. Len(g) : i < j => g[i].n < g[j].n

Held(t, a, e, c, s, k, o) ==
    /\ Behind(t, a, e, c, s, k, Ids(o)) /\ Starts(t, a, e, c, s, o)
    /\ Len(o) = IF k < Cap THEN k ELSE Cap

LEMMA DayInt == Day \in Nat /\ MaxSec \in Nat /\ MaxSec < Day /\ Cap \in Nat
BY ConsoleAssumption

LEMMA OneEcho ==
    ASSUME NEW t, NEW a, NEW e, NEW w, World(t, a, e, w), NEW c \in Cmds, NEW s,
           Unique(a, e, c, s), NEW i, Echoing(t, i, c, s), NEW j, Echoing(t, j, c, s)
    PROVE  i = j
<1>1. /\ i \in 1 .. Len(t) /\ t[i].shape = "cmd" /\ t[i].text = c /\ t[i].sec = s
      /\ j \in 1 .. Len(t) /\ t[j].shape = "cmd" /\ t[j].text = c /\ t[j].sec = s
  BY DEF Echoing, IsEcho
<1>2. /\ t[i].id.of \in Requests /\ a[t[i].id.of].cmd = c /\ e[t[i].id.of] = s
      /\ t[j].id.of \in Requests /\ a[t[j].id.of].cmd = c /\ e[t[j].id.of] = s
  BY <1>1 DEF World
<1>3. t[i].id.of = t[j].id.of
  BY <1>2 DEF Unique
<1> QED
  BY <1>1, <1>3 DEF World

\* Sets of line indices have a least and a greatest member.
LEMMA Least ==
    ASSUME NEW S, S \subseteq Nat, S # {} PROVE \E x \in S : \A y \in S : x <= y
<1>1. IsWellFoundedOn(Below, Nat)
  BY NatLessThanWellFounded DEF Below
<1>2. PICK x \in S : \A y \in S : ~(<<y, x>> \in Below)
  BY <1>1, WFMin
<1>3. \A y \in S : ~(y < x)
  BY <1>2, BelowDef
<1> QED
  BY <1>3

LEMMA Greatest ==
    ASSUME NEW n \in Nat, NEW S, S \subseteq 1 .. n, S # {} PROVE \E x \in S : \A y \in S : y <= x
<1> DEFINE T == {n - y : y \in S}
<1>0. \A y \in S : y \in 1 .. n
  OBVIOUS
<1>1. T \subseteq Nat /\ T # {}
  <2>1. \A y \in S : n - y \in Nat
    BY <1>0
  <2>2. PICK y \in S : TRUE
    OBVIOUS
  <2>3. n - y \in T
    OBVIOUS
  <2> QED
    BY <2>1, <2>3
<1>2. PICK z \in T : \A y \in T : z <= y
  BY <1>1, Least
<1>3. PICK x \in S : z = n - x
  BY <1>2
<1>4. \A y \in S : n - x <= n - y
  BY <1>2, <1>3
<1>5. x \in Nat /\ \A y \in S : y \in Nat
  OBVIOUS
<1> QED
  BY <1>4, <1>5

LEMMA EchoFound ==
    ASSUME NEW t, Len(t) \in Nat, DOMAIN t = 1 .. Len(t), NEW c, NEW s \in Int
    PROVE  LET ei == EchoIndex(t, c, s)
           IN  \/ ei = 0 /\ (s >= 0 => \A i : ~Echoing(t, i, c, s))
               \/ ei \in 1 .. Len(t) /\ Echoing(t, ei, c, IF s < 0 THEN t[ei].sec ELSE s)
<1> DEFINE those == IF s < 0 THEN Echoes(t, c) ELSE {i \in Echoes(t, c) : t[i].sec = s}
           ei == EchoIndex(t, c, s)
<1>1. those \subseteq 1 .. Len(t) /\ those \subseteq Nat
  BY DEF Echoes
<1>2. CASE those = {}
  <2>1. ei = 0
    BY <1>2 DEF EchoIndex
  <2>2. s >= 0 => \A i : ~Echoing(t, i, c, s)
    BY <1>2 DEF Echoing, Echoes
  <2> QED
    BY <2>1, <2>2
<1>3. CASE those # {}
  <2>1. ei = CHOOSE i \in those : \A j \in those : IF s < 0 THEN j <= i ELSE i <= j
    BY <1>3 DEF EchoIndex
  <2>2. \E i \in those : \A j \in those : IF s < 0 THEN j <= i ELSE i <= j
    <3>1. CASE s < 0
      <4> HIDE DEF those
      <4> QED
        BY <1>1, <1>3, <3>1, Greatest
    <3>2. CASE ~(s < 0)
      <4> HIDE DEF those
      <4> QED
        BY <1>1, <1>3, <3>2, Least
    <3> QED
      BY <3>1, <3>2
  <2> HIDE DEF those
  <2>3. ei \in those
    BY <2>1, <2>2
  <2> USE DEF those
  <2> HIDE DEF ei
  <2>4. ei \in 1 .. Len(t) /\ Echoing(t, ei, c, IF s < 0 THEN t[ei].sec ELSE s)
    BY <1>1, <2>3 DEF Echoing, Echoes
  <2> QED
    BY <2>4 DEF ei
<1> QED
  BY <1>2, <1>3

LEMMA NoEcho == Len(<< >>) = 0 /\ \A i, j \in Nat : j < i => SubSeq(<< >>, i, j) = << >>
OBVIOUS

\* What a part of a block is.
LEMMA PartOf ==
    ASSUME NEW s, NEW top, Rising(s, top), NEW k \in Nat, k <= Len(s), NEW m \in Nat,
           k <= m, m <= Len(s)
    PROVE  LET o == SubSeq(s, k + 1, m)
           IN  /\ IdSeq(o) /\ Increasing(o) /\ Len(o) = m - k
               /\ \A i \in 1 .. Len(o) : k + i \in 1 .. Len(s) /\ o[i] = s[k + i]
<1> DEFINE o == SubSeq(s, k + 1, m)
           A == {s[i] : i \in 1 .. Len(s)}
<1>1. s \in Seq(A) /\ Len(s) \in Nat
  BY DEF Rising
<1> HIDE DEF A
<1>2. o \in Seq(A) /\ Len(o) = m - k /\ \A i \in 1 .. m - k : o[i] = s[k + i]
  BY <1>1
<1> HIDE DEF o
<1>3. \A i \in 1 .. Len(o) : k + i \in 1 .. Len(s) /\ o[i] = s[k + i]
  BY <1>1, <1>2
<1>4. o \in Seq(Ids(o)) /\ Len(o) \in Nat
  BY <1>2 DEF Ids
<1>5. \A i \in 1 .. Len(o) : o[i].n \in Int
  BY <1>3 DEF Rising
<1>6. ASSUME NEW i \in 1 .. Len(o), NEW j \in 1 .. Len(o), i < j PROVE o[i].n < o[j].n
  <2>1. k + i < k + j
    BY <1>6, <1>4
  <2> QED
    BY <1>3, <2>1 DEF Rising
<1> QED
  BY <1>2, <1>3, <1>4, <1>5, <1>6 DEF o, IdSeq, Increasing

\* The poll of a capture.
LEMMA CapturePoll ==
    ASSUME NEW t, NEW a, NEW e, NEW w, World(t, a, e, w), NEW c \in Cmds
    PROVE  LET look == Correlate(t, c, -1, 0)
           IN  /\ look.total \in Nat /\ look.sec \in -1 .. Day - 1
               /\ look.total > 0 => look.sec >= 0
               /\ IdSeq(look.out) /\ Increasing(look.out)
               /\ Held(t, a, e, c, look.sec, look.total, look.out)
<1> DEFINE look == Correlate(t, c, -1, 0)
           ei == EchoIndex(t, c, -1)
           lines == IF ei = 0 THEN << >> ELSE Block(t, ei)
           m == IF Len(lines) < 0 + Cap THEN Len(lines) ELSE 0 + Cap
           out == SubSeq(lines, 0 + 1, m)
<1>1. look = [total |-> Len(lines), sec |-> IF ei = 0 THEN -1 ELSE t[ei].sec, out |-> out]
  BY DEF Correlate
<1>2. look.total = Len(lines) /\ look.sec = (IF ei = 0 THEN -1 ELSE t[ei].sec) /\ look.out = out
  <2> HIDE DEF look, ei, lines, out
  <2> QED
    BY <1>1
<1>3. Len(t) \in Nat /\ DOMAIN t = 1 .. Len(t) /\ -1 \in Int /\ Numbered(t, w - Len(t))
  BY DEF World, Numbered
<1>4. \/ ei = 0
      \/ ei \in 1 .. Len(t) /\ ei # 0 /\ Echoing(t, ei, c, t[ei].sec)
  <2> HIDE DEF ei
  <2>1. \/ ei = 0 
        \/ ei \in 1 .. Len(t) /\ Echoing(t, ei, c, t[ei].sec)
    BY <1>3, EchoFound DEF ei
  <2> QED
    BY <1>3, <2>1
<1> HIDE DEF look, ei
<1>5. CASE ei = 0
  <2>1. lines = << >> /\ m = 0
    BY <1>5, NoEcho, DayInt
  <2>2. out = << >>
    BY <2>1, NoEcho
  <2>3. /\ look.total = 0 /\ look.sec = -1 /\ look.out = << >>
    BY <1>2, <1>5, <2>1, <2>2, NoEcho
  <2>4. IdSeq(<< >>) /\ Increasing(<< >>)
    BY DEF IdSeq, Ids, Increasing
  <2>5. Held(t, a, e, c, -1, 0, << >>)
    <3>1. Behind(t, a, e, c, -1, 0, Ids(<< >>)) /\ Starts(t, a, e, c, -1, << >>)
      BY DayInt DEF Behind, Known, Unique, Starts
    <3>2. Len(<< >>) = IF 0 < Cap THEN 0 ELSE Cap
      BY DayInt
    <3> QED
      BY <3>1, <3>2 DEF Held
  <2> QED
    BY <2>3, <2>4, <2>5, DayInt DEF look
<1>6. CASE ei # 0
  <2> DEFINE s == t[ei].sec
  <2>1. ei \in 1 .. Len(t) /\ Echoing(t, ei, c, s) /\ lines = Block(t, ei)
    BY <1>4, <1>6
  <2>2. Rising(lines, w - Len(t) + Len(t))
    BY <1>3, <2>1, BlockRises
  <2>3. /\ s \in 0 .. Day - 1
        /\ t[ei].id.of \in Requests /\ a[t[ei].id.of].cmd = c /\ e[t[ei].id.of] = s
    BY <2>1 DEF Echoing, IsEcho, World
  <2>4. Len(lines) \in Nat
    BY <2>2 DEF Rising
  <2> HIDE DEF lines
  <2>5. m \in Nat /\ m <= Len(lines)
    BY <2>4, DayInt
  <2> HIDE DEF m
  <2>6. /\ IdSeq(out) /\ Increasing(out) /\ Len(out) = m
        /\ \A i \in 1 .. Len(out) : i \in 1 .. Len(lines) /\ out[i] = lines[i]
    <3>1. 0 \in Nat /\ 0 <= Len(lines) /\ 0 <= m
      BY <2>4, <2>5
    <3>2. /\ IdSeq(out) /\ Increasing(out) /\ Len(out) = m - 0
          /\ \A i \in 1 .. Len(out) : 0 + i \in 1 .. Len(lines) /\ out[i] = lines[0 + i]
      BY <2>2, <2>5, <3>1, PartOf, Zenon
    <3> QED
      BY <2>4, <2>5, <3>2
  <2> HIDE DEF out
  <2>7. Known(a, e, c, s)
    BY <2>3 DEF Known
  <2>8. ASSUME Unique(a, e, c, s), NEW i, Echoing(t, i, c, s)
        PROVE  Within(t, i, Len(lines), Ids(out))
    <3>1. i = ei
      BY <2>1, <2>8, OneEcho
    <3>2. ASSUME NEW x \in Ids(out)
          PROVE  x.n \in Int /\ Len(lines) >= 1 /\ x.n <= lines[Len(lines)].n
      <4>1. PICK j \in 1 .. Len(out) : x = out[j]
        BY <3>2 DEF Ids
      <4>2. j \in 1 .. Len(lines) /\ x = lines[j] /\ Len(lines) \in 1 .. Len(lines)
        BY <2>4, <2>6, <4>1
      <4>3. j <= Len(lines) /\ Len(lines) >= 1
        BY <2>4, <4>2
      <4> QED
        BY <2>2, <4>2, <4>3, RisingOrder
    <3> QED
      BY <2>1, <2>4, <3>1, <3>2 DEF Within
  <2>9. Held(t, a, e, c, s, Len(lines), out)
    <3>1. Behind(t, a, e, c, s, Len(lines), Ids(out))
      BY <2>3, <2>4, <2>7, <2>8, DayInt DEF Behind
    <3>2. Extends(lines, out)
      BY <2>4, <2>5, <2>6 DEF Extends
    <3>3. ASSUME Unique(a, e, c, s), NEW i, Echoing(t, i, c, s) PROVE Extends(Block(t, i), out)
      <4>1. i = ei
        BY <2>1, <3>3, OneEcho
      <4> QED
        BY <2>1, <3>2, <4>1
    <3>4. Starts(t, a, e, c, s, out)
      BY <3>3 DEF Starts
    <3>5. Len(out) = IF Len(lines) < Cap THEN Len(lines) ELSE Cap
      BY <2>4, <2>6, DayInt DEF m
    <3> QED
      BY <3>1, <3>4, <3>5 DEF Held
  <2>10. look.total = Len(lines) /\ look.sec = s /\ look.out = out
    BY <1>2, <1>6
  <2> QED
    BY <2>3, <2>4, <2>6, <2>9, <2>10, DayInt DEF look
<1> QED
  BY <1>5, <1>6

\* Lines behind other lines.
LEMMA JoinIds ==
    ASSUME NEW g, IdSeq(g), NEW o, IdSeq(o)
    PROVE  /\ IdSeq(g \o o) /\ Len(g \o o) = Len(g) + Len(o)
           /\ \A i \in 1 .. Len(g) : (g \o o)[i] = g[i]
           /\ \A i \in 1 .. Len(o) : (g \o o)[Len(g) + i] = o[i]
           /\ Ids(g \o o) = Ids(g) \cup Ids(o)
<1> DEFINE A == Ids(g) \cup Ids(o)
           u == g \o o
<1>1. g \in Seq(A) /\ o \in Seq(A) /\ Len(g) \in Nat /\ Len(o) \in Nat
  BY DEF IdSeq, Ids
<1>2. /\ u \in Seq(A) /\ Len(u) = Len(g) + Len(o)
      /\ \A i \in 1 .. Len(g) : u[i] = g[i]
      /\ \A i \in 1 .. Len(o) : u[Len(g) + i] = o[i]
  <2> HIDE DEF A
  <2> QED
    BY <1>1
<1> HIDE DEF u
<1>3. \A i \in 1 .. Len(u) : \/ i \in 1 .. Len(g)
                             \/ i - Len(g) \in 1 .. Len(o) /\ u[i] = o[i - Len(g)]
  <2> SUFFICES ASSUME NEW i \in 1 .. Len(u), i \notin 1 .. Len(g)
               PROVE  i - Len(g) \in 1 .. Len(o) /\ u[i] = o[i - Len(g)]
    OBVIOUS
  <2>1. i - Len(g) \in 1 .. Len(o) /\ Len(g) + (i - Len(g)) = i
    BY <1>1, <1>2
  <2> QED
    BY <1>2, <2>1
<1>4. u \in Seq(Ids(u)) /\ Len(u) \in Nat
  <2> HIDE DEF A
  <2> QED
    BY <1>1, <1>2 DEF Ids
<1>5. \A i \in 1 .. Len(u) : u[i].n \in Int
  BY <1>2, <1>3 DEF IdSeq
<1>6. Ids(u) = A
  <2>1. Ids(u) \subseteq A
    BY <1>2, <1>3 DEF Ids
  <2>2. Ids(g) \subseteq Ids(u)
    BY <1>1, <1>2 DEF Ids
  <2>3. \A i \in 1 .. Len(o) : Len(g) + i \in 1 .. Len(u)
    BY <1>1, <1>2
  <2>4. Ids(o) \subseteq Ids(u)
    BY <1>2, <2>3 DEF Ids
  <2> QED
    BY <2>1, <2>2, <2>4
<1> QED
  BY <1>2, <1>4, <1>5, <1>6 DEF u, IdSeq

LEMMA JoinIncreasing ==
    ASSUME NEW g, IdSeq(g), Increasing(g), NEW o, IdSeq(o), Increasing(o),
           \A x \in Ids(g), y \in Ids(o) : x.n < y.n
    PROVE  Increasing(g \o o)
<1> DEFINE u == g \o o
<1>0. Len(g) \in Nat /\ Len(o) \in Nat
  BY DEF IdSeq
<1>1. /\ Len(u) = Len(g) + Len(o)
      /\ \A i \in 1 .. Len(g) : u[i] = g[i]
      /\ \A i \in 1 .. Len(o) : u[Len(g) + i] = o[i]
  BY JoinIds
<1> HIDE DEF u
<1>2. ASSUME NEW i \in 1 .. Len(u), NEW j \in 1 .. Len(u), i < j PROVE u[i].n < u[j].n
  <2>1. CASE j \in 1 .. Len(g)
    BY <1>0, <1>1, <1>2, <2>1 DEF Increasing
  <2>2. CASE j \notin 1 .. Len(g)
    <3> DEFINE l == j - Len(g)
    <3>1. l \in 1 .. Len(o) /\ Len(g) + l = j /\ u[j] = o[l]
      BY <1>0, <1>1, <2>2, SMTT(30)
    <3>2. CASE i \in 1 .. Len(g)
      BY <1>1, <3>1, <3>2 DEF Ids
    <3>3. CASE i \notin 1 .. Len(g)
      <4> DEFINE k == i - Len(g)
      <4>1. k \in 1 .. Len(o) /\ Len(g) + k = i /\ u[i] = o[k] /\ k < l
        BY <1>0, <1>1, <1>2, <3>1, <3>3, SMTT(30)
      <4> QED
        BY <3>1, <4>1 DEF Increasing
    <3> QED
      BY <3>2, <3>3
  <2> QED
    BY <2>1, <2>2
<1> QED
  BY <1>2 DEF Increasing, u

\* The poll of a collect, behind the k lines that were delivered.
LEMMA CollectedLines ==
    ASSUME NEW t, NEW a, NEW e, NEW w, World(t, a, e, w), NEW c, NEW s, NEW k, NEW g,
           IdSeq(g), Behind(t, a, e, c, s, k, Ids(g)), Unique(a, e, c, s) => Increasing(g)
    PROVE  LET look == Correlate(t, c, s, k)
               d == IF look.total > k THEN look.total ELSE k
           IN  /\ IdSeq(look.out) /\ IdSeq(g \o look.out)
               /\ Unique(a, e, c, s) => Increasing(g \o look.out)
               /\ Behind(t, a, e, c, s, d, Ids(g \o look.out))
<1> DEFINE look == Correlate(t, c, s, k)
           d == IF look.total > k THEN look.total ELSE k
           ei == EchoIndex(t, c, s)
           lines == IF ei = 0 THEN << >> ELSE Block(t, ei)
           m == IF Len(lines) < k + Cap THEN Len(lines) ELSE k + Cap
           out == SubSeq(lines, k + 1, m)
<1>1. look = [total |-> Len(lines), sec |-> IF ei = 0 THEN -1 ELSE t[ei].sec, out |-> out]
  BY DEF Correlate
<1>2. look.total = Len(lines) /\ look.out = out
  <2> HIDE DEF look, ei, lines, out
  <2> QED
    BY <1>1
<1>3. /\ Len(t) \in Nat /\ DOMAIN t = 1 .. Len(t) /\ Numbered(t, w - Len(t))
      /\ k \in Nat /\ s \in Int /\ c \in Cmds /\ s \in -1 .. Day - 1 /\ Known(a, e, c, s)
  BY DayInt DEF World, Numbered, Behind
<1>4. \/ ei = 0 /\ (s >= 0 => \A i : ~Echoing(t, i, c, s))
      \/ ei \in 1 .. Len(t) /\ ei # 0 /\ Echoing(t, ei, c, IF s < 0 THEN t[ei].sec ELSE s)
  <2> HIDE DEF ei
  <2>1. \/ ei = 0 /\ (s >= 0 => \A i : ~Echoing(t, i, c, s))
        \/ ei \in 1 .. Len(t) /\ Echoing(t, ei, c, IF s < 0 THEN t[ei].sec ELSE s)
    BY <1>3, EchoFound DEF ei
  <2> QED
    BY <1>3, <2>1
<1> HIDE DEF look, ei
<1>5. CASE ei = 0
  <2>1. lines = << >> /\ m = 0
    BY <1>3, <1>5, NoEcho, DayInt
  <2>2. out = << >>
    BY <1>3, <2>1, NoEcho
  <2>3. look.total = 0 /\ look.out = << >> /\ d = k
    BY <1>2, <1>3, <2>1, <2>2, NoEcho
  <2>4. IdSeq(<< >>) /\ Increasing(<< >>) /\ Ids(<< >>) = {}
    BY DEF IdSeq, Ids, Increasing
  <2>5. IdSeq(g \o << >>) /\ Ids(g \o << >>) = Ids(g)
    BY <2>4, JoinIds
  <2>6. Increasing(g) => Increasing(g \o << >>)
    BY <2>4, JoinIncreasing
  <2> QED
    BY <2>3, <2>4, <2>5, <2>6 DEF look
<1>6. CASE ei # 0
  <2>1. ei \in 1 .. Len(t) /\ lines = Block(t, ei)
    BY <1>4, <1>6
  <2>2. Rising(lines, w - Len(t) + Len(t))
    BY <1>3, <2>1, BlockRises
  <2>3. Len(lines) \in Nat
    BY <2>2 DEF Rising
  <2>4. look.total = Len(lines) /\ look.out = out /\ d \in Nat
    BY <1>2, <1>3, <2>3
  <2>5. CASE k <= Len(lines)
    <3>0. m \in Nat /\ k <= m /\ m <= Len(lines) /\ d = Len(lines)
      BY <1>3, <2>3, <2>4, <2>5, DayInt
    <3> HIDE DEF lines, m, d
    <3>1. /\ IdSeq(out) /\ Increasing(out)
          /\ \A i \in 1 .. Len(out) : k + i \in 1 .. Len(lines) /\ out[i] = lines[k + i]
      BY <1>3, <2>2, <2>5, <3>0, PartOf, Zenon
    <3> HIDE DEF out
    <3>2. IdSeq(g \o out) /\ Ids(g \o out) = Ids(g) \cup Ids(out)
      BY <3>1, JoinIds
    <3>3. ASSUME Unique(a, e, c, s)
          PROVE  Increasing(g \o out) /\ \A i : Echoing(t, i, c, s) =>
                   Within(t, i, Len(lines), Ids(g \o out))
      <4>1. s >= 0 /\ Echoing(t, ei, c, s) /\ Increasing(g)
        BY <1>3, <1>4, <1>6, <3>3 DEF Unique
      <4>2. Within(t, ei, k, Ids(g))
        BY <3>3, <4>1 DEF Behind
      <4>3. \A x \in Ids(g) : x.n \in Int /\ k >= 1 /\ x.n <= lines[k].n
        BY <2>1, <4>2 DEF Within
      <4>4. ASSUME NEW y \in Ids(out)
            PROVE  y.n \in Int /\ Len(lines) >= 1 /\ y.n <= lines[Len(lines)].n
                   /\ (k >= 1 => lines[k].n < y.n)
        <5>1. PICK j \in 1 .. Len(out) : y = out[j]
          BY <4>4 DEF Ids
        <5>2. k + j \in 1 .. Len(lines) /\ y = lines[k + j] /\ Len(lines) \in 1 .. Len(lines)
          BY <2>3, <3>1, <5>1
        <5>3. k + j < Len(lines) \/ k + j = Len(lines)
          BY <2>3, <5>2
        <5>4. k >= 1 => k \in 1 .. Len(lines) /\ k < k + j
          BY <1>3, <2>3, <2>5, <3>1, <5>1 DEF IdSeq
        <5>5. y.n \in Int /\ Len(lines) >= 1
          BY <2>2, <2>3, <5>2 DEF Rising
        <5>6. y.n <= lines[Len(lines)].n
          <6>1. CASE k + j = Len(lines)
            BY <5>2, <5>5, <6>1
          <6>2. CASE k + j < Len(lines)
            BY <2>2, <5>2, <6>2, RisingOrder
          <6> QED
            BY <5>3, <6>1, <6>2
        <5>7. k >= 1 => lines[k].n < y.n
          BY <2>2, <5>2, <5>4 DEF Rising
        <5> QED
          BY <5>5, <5>6, <5>7
      <4>5. \A x \in Ids(g), y \in Ids(out) : x.n < y.n
        <5> SUFFICES ASSUME NEW x \in Ids(g), NEW y \in Ids(out) PROVE x.n < y.n
          OBVIOUS
        <5>1. x.n \in Int /\ k >= 1 /\ x.n <= lines[k].n
          BY <4>3
        <5>2. y.n \in Int /\ lines[k].n < y.n
          BY <4>4, <5>1
        <5>3. lines[k].n \in Int
          BY <1>3, <2>2, <2>3, <2>5, <5>1 DEF Rising
        <5> QED
          BY <5>1, <5>2, <5>3
      <4>6. Increasing(g \o out)
        BY <3>1, <4>1, <4>5, JoinIncreasing
      <4>7. \A x \in Ids(g) : Len(lines) >= 1 /\ x.n <= lines[Len(lines)].n
        <5> SUFFICES ASSUME NEW x \in Ids(g)
                     PROVE  Len(lines) >= 1 /\ x.n <= lines[Len(lines)].n
          OBVIOUS
        <5>1. x.n \in Int /\ k >= 1 /\ x.n <= lines[k].n
          BY <4>3
        <5>2. k \in 1 .. Len(lines) /\ Len(lines) \in 1 .. Len(lines)
          BY <1>3, <2>3, <2>5, <5>1
        <5>3. k <= Len(lines)
          BY <2>3, <5>2
        <5>4. lines[k].n \in Int /\ lines[Len(lines)].n \in Int /\ lines[k].n <= lines[Len(lines)].n
          BY <2>2, <5>2, <5>3, RisingOrder
        <5> QED
          BY <2>3, <5>1, <5>2, <5>4
      <4>8. Within(t, ei, Len(lines), Ids(g \o out))
        BY <2>1, <2>3, <3>2, <4>3, <4>4, <4>7 DEF Within
      <4>9. \A i : Echoing(t, i, c, s) => i = ei
        BY <1>3, <3>3, <4>1, OneEcho
      <4> QED
        BY <4>6, <4>8, <4>9
    <3>4. Behind(t, a, e, c, s, d, Ids(g \o out))
      BY <1>3, <2>3, <3>0, <3>3 DEF Behind
    <3> QED
      BY <2>4, <3>1, <3>2, <3>3, <3>4 DEF look, d
  <2>6. CASE ~(k <= Len(lines))
    <3>1. m = Len(lines) /\ d = k /\ m < k + 1 /\ m \in Nat
      BY <1>3, <2>3, <2>4, <2>6, DayInt
    <3>2. out = << >>
      <4>1. lines \in Seq({lines[i] : i \in 1 .. Len(lines)})
        BY <2>2 DEF Rising
      <4> QED
        BY <1>3, <3>1, <4>1
    <3>4. IdSeq(<< >>) /\ Increasing(<< >>) /\ Ids(<< >>) = {}
      BY DEF IdSeq, Ids, Increasing
    <3>5. IdSeq(g \o << >>) /\ Ids(g \o << >>) = Ids(g)
      BY <3>4, JoinIds
    <3>6. Increasing(g) => Increasing(g \o << >>)
      BY <3>4, JoinIncreasing
    <3> HIDE DEF out, d, m, lines
    <3>7. Behind(t, a, e, c, s, d, Ids(g \o out))
      BY <3>1, <3>2, <3>5
    <3> QED
      BY <2>4, <3>2, <3>4, <3>5, <3>6, <3>7 DEF look, d
  <2> QED
    BY <1>3, <2>3, <2>5, <2>6
<1> QED
  BY <1>5, <1>6

-----------------------------------------------------------------------------
(* What the system does to the table. *)

\* What was behind an echo stays behind it.
Carries(t, a, e, t2, a2, e2) ==
    /\ \A c, s, k, S : Behind(t, a, e, c, s, k, S) => Behind(t2, a2, e2, c, s, k, S)
    /\ \A c, s, k, o : Held(t, a, e, c, s, k, o) => Held(t2, a2, e2, c, s, k, o)
    /\ \A c \in Cmds : \A s : Unique(a2, e2, c, s) => Unique(a, e, c, s)

LEMMA LongerStill ==
    ASSUME NEW u, NEW t, NEW o, Extends(u, t), Extends(t, o), Len(u) \in Nat, Len(t) \in Nat
    PROVE  Extends(u, o)
<1>1. Len(o) <= Len(t) /\ Len(t) <= Len(u)
  BY DEF Extends
<1>2. ASSUME NEW i \in 1 .. Len(o) PROVE u[i] = o[i]
  <2>1. i \in 1 .. Len(t)
    BY <1>1
  <2> QED
    BY <2>1 DEF Extends
<1>3. Len(o) <= Len(u)
  BY <1>1
<1> QED
  BY <1>2, <1>3 DEF Extends

LEMMA SameWorld == ASSUME NEW t, NEW a, NEW e PROVE Carries(t, a, e, t, a, e)
BY DEF Carries

\* The table with one more line, the oldest dropped or not.
Grown(t, u, line) ==
    \E d \in {0, 1} :
        /\ Len(u) = Len(t) + 1 - d /\ DOMAIN u = 1 .. Len(u) /\ Len(u) \in Nat \ {0}
        /\ u[Len(u)] = line
        /\ \A i \in 1 .. Len(t) : i - d >= 1 => u[i - d] = t[i]

LEMMA WriteGrows ==
    ASSUME NEW t, NEW S, t \in Seq(S), NEW line, Len(t) <= Window,
           NEW u, u = LET v == Append(t, line) IN IF Len(v) > Window THEN Tail(v) ELSE v
    PROVE  Grown(t, u, line) /\ Len(u) <= Window /\ u \in Seq(S \cup {line})
<1> DEFINE v == Append(t, line)
<1>1. t \in Seq(S \cup {line}) /\ Len(t) \in Nat /\ Window \in Nat \ {0}
  BY ConsoleAssumption
<1>2. /\ v \in Seq(S \cup {line}) /\ Len(v) = Len(t) + 1 /\ DOMAIN v = 1 .. Len(v)
      /\ v[Len(v)] = line /\ \A i \in 1 .. Len(t) : v[i] = t[i]
  BY <1>1
<1>3. u = IF Len(v) > Window THEN Tail(v) ELSE v
  OBVIOUS
<1> HIDE DEF v
<1>4. CASE Len(v) > Window
  <2>1. Len(v) = Window + 1
    BY <1>1, <1>2, <1>4
  <2>2. /\ u \in Seq(S \cup {line}) /\ Len(u) = Len(v) - 1 /\ DOMAIN u = 1 .. Len(u)
        /\ \A i \in 1 .. Len(u) : u[i] = v[i + 1]
    BY <1>1, <1>2, <1>3, <1>4, <2>1
  <2>3. Len(u) \in Nat \ {0} /\ u[Len(u)] = line /\ Len(u) = Len(t) + 1 - 1
    BY <1>1, <1>2, <2>1, <2>2
  <2>4. ASSUME NEW i \in 1 .. Len(t), i - 1 >= 1 PROVE u[i - 1] = t[i]
    <3>1. i - 1 \in 1 .. Len(u) /\ (i - 1) + 1 = i
      BY <1>1, <1>2, <2>2, <2>4
    <3> QED
      BY <1>2, <2>2, <3>1
  <2>5. \A i \in 1 .. Len(t) : i - 1 >= 1 => u[i - 1] = t[i]
    BY <2>4
  <2>6. Grown(t, u, line)
    BY <2>2, <2>3, <2>5 DEF Grown
  <2> QED
    BY <1>1, <2>1, <2>2, <2>6
<1>5. CASE ~(Len(v) > Window)
  <2>1. u = v
    BY <1>3, <1>5
  <2>2. /\ Len(u) = Len(t) + 1 - 0 /\ DOMAIN u = 1 .. Len(u) /\ Len(u) \in Nat \ {0}
        /\ u[Len(u)] = line /\ \A i \in 1 .. Len(t) : i - 0 >= 1 => u[i - 0] = t[i]
    BY <1>1, <1>2, <2>1
  <2> QED
    BY <1>1, <1>2, <1>5, <2>1, <2>2 DEF Grown
<1> QED
  BY <1>4, <1>5

\* The line is no echo of a command, or the one echo of a request.
Fresh(line, a, e, e2) ==
    \/ line.text \notin Cmds /\ e2 = e
    \/ /\ line.shape = "cmd" /\ line.text \in Cmds /\ line.sec \in 0 .. Day - 1
       /\ line.id.of \in Requests /\ a[line.id.of].cmd = line.text
       /\ e[line.id.of] = -1 /\ e2 = [e EXCEPT ![line.id.of] = line.sec]

LEMMA WriteWorld ==
    ASSUME NEW t, NEW a, NEW e, NEW w, World(t, a, e, w), NEW u, NEW line, Grown(t, u, line),
           NEW e2, Fresh(line, a, e, e2), line.id.n = w + 1
    PROVE  World(u, a, e2, w + 1) /\ Carries(t, a, e, u, a, e2)
<1>1. PICK d \in {0, 1} :
        /\ Len(u) = Len(t) + 1 - d /\ DOMAIN u = 1 .. Len(u) /\ Len(u) \in Nat \ {0}
        /\ u[Len(u)] = line
        /\ \A i \in 1 .. Len(t) : i - d >= 1 => u[i - d] = t[i]
  BY DEF Grown
<1>2. /\ Len(t) \in Nat /\ w \in Nat /\ \A i \in 1 .. Len(t) : t[i].id.n = w - Len(t) + i
      /\ e \in [Requests -> -1 .. Day - 1] /\ d \in Int
  BY DEF World, Numbered
<1>3. \A j \in 1 .. Len(u) : \/ j = Len(u)
                             \/ j + d \in 1 .. Len(t) /\ u[j] = t[j + d]
  <2> SUFFICES ASSUME NEW j \in 1 .. Len(u), j # Len(u)
               PROVE  j + d \in 1 .. Len(t) /\ u[j] = t[j + d]
    OBVIOUS
  <2>1. j + d \in 1 .. Len(t) /\ (j + d) - d = j /\ j >= 1
    BY <1>1, <1>2
  <2> QED
    BY <1>1, <2>1
<1>4. e2 \in [Requests -> -1 .. Day - 1] /\ \A q \in Requests : e[q] # -1 => e2[q] = e[q]
  BY <1>2, DayInt DEF Fresh
<1>5. World(u, a, e2, w + 1)
  <2>1. Numbered(u, w + 1 - Len(u))
    <3>1. ASSUME NEW j \in 1 .. Len(u) PROVE u[j].id.n = w + 1 - Len(u) + j
      <4>1. CASE j = Len(u)
        BY <1>1, <1>2, <4>1
      <4>2. CASE j # Len(u)
        <5>1. j + d \in 1 .. Len(t) /\ u[j] = t[j + d]
          BY <1>3, <4>2
        <5>2. u[j].id.n = w - Len(t) + (j + d)
          BY <1>2, <5>1
        <5> QED
          BY <1>1, <1>2, <5>2
      <4> QED
        BY <4>1, <4>2
    <3> QED
      BY <1>1, <1>2, <3>1 DEF Numbered
  <2>2. ASSUME NEW j \in 1 .. Len(u), u[j].shape = "cmd", u[j].text \in Cmds
        PROVE  /\ u[j].id.of \in Requests /\ a[u[j].id.of].cmd = u[j].text
               /\ e2[u[j].id.of] = u[j].sec /\ u[j].sec \in 0 .. Day - 1
               /\ j # Len(u) => e[u[j].id.of] = u[j].sec /\ e[u[j].id.of] # -1
               /\ j = Len(u) => e[u[j].id.of] = -1
    <3>1. CASE j = Len(u)
      <4>1. u[j] = line
        BY <1>1, <3>1
      <4> QED
        BY <1>2, <2>2, <3>1, <4>1 DEF Fresh
    <3>2. CASE j # Len(u)
      <4>1. j + d \in 1 .. Len(t) /\ u[j] = t[j + d]
        BY <1>3, <3>2
      <4>2. /\ u[j].id.of \in Requests /\ a[u[j].id.of].cmd = u[j].text
            /\ e[u[j].id.of] = u[j].sec /\ u[j].sec \in 0 .. Day - 1
        BY <2>2, <4>1 DEF World
      <4>3. e[u[j].id.of] # -1
        BY <4>2, DayInt
      <4> QED
        BY <1>4, <3>2, <4>2, <4>3
    <3> QED
      BY <3>1, <3>2
  <2>3. ASSUME NEW i \in 1 .. Len(u), NEW j \in 1 .. Len(u),
               u[i].shape = "cmd", u[i].text \in Cmds,
               u[j].shape = "cmd", u[j].text \in Cmds, u[i].id.of = u[j].id.of
        PROVE  i = j
    <3>1. i = Len(u) <=> j = Len(u)
      BY <2>2, <2>3
    <3>2. CASE i # Len(u) /\ j # Len(u)
      <4>1. /\ i + d \in 1 .. Len(t) /\ u[i] = t[i + d]
            /\ j + d \in 1 .. Len(t) /\ u[j] = t[j + d]
        BY <1>3, <3>2
      <4>2. i + d = j + d
        BY <2>3, <4>1 DEF World
      <4> QED
        BY <1>2, <4>2
    <3> QED
      BY <3>1, <3>2
  <2>4. DOMAIN u = 1 .. Len(u) /\ w + 1 \in Nat
    BY <1>1, <1>2
  <2>5. \A j \in 1 .. Len(u) : u[j].shape = "cmd" /\ u[j].text \in Cmds =>
          /\ u[j].id.of \in Requests /\ a[u[j].id.of].cmd = u[j].text
          /\ e2[u[j].id.of] = u[j].sec /\ u[j].sec \in 0 .. Day - 1
    BY <2>2
  <2>6. \A i, j \in 1 .. Len(u) :
          (/\ u[i].shape = "cmd" /\ u[i].text \in Cmds
           /\ u[j].shape = "cmd" /\ u[j].text \in Cmds /\ u[i].id.of = u[j].id.of) => i = j
    BY <2>3
  <2>7. e2 \in [Requests -> -1 .. Day - 1]
    BY <1>4
  <2> QED
    BY <2>1, <2>4, <2>5, <2>6, <2>7 DEF World
<1>6. ASSUME NEW c \in Cmds, NEW s, Unique(a, e2, c, s) PROVE Unique(a, e, c, s)
  BY <1>4, <1>6 DEF Unique
<1>7. ASSUME NEW c \in Cmds, NEW s \in -1 .. Day - 1, Known(a, e, c, s), Unique(a, e2, c, s),
             NEW j, Echoing(u, j, c, s)
      PROVE  \E i \in 1 .. Len(t) :
               /\ Echoing(t, i, c, s) /\ Extends(Block(u, j), Block(t, i))
               /\ Len(Block(u, j)) \in Nat /\ Len(Block(t, i)) \in Nat
  <2>1. /\ j \in 1 .. Len(u) /\ u[j].shape = "cmd" /\ u[j].text = c /\ u[j].sec = s
        /\ s >= 0
    BY <1>7 DEF Echoing, IsEcho, Unique
  <2>2. j # Len(u)
    <3> SUFFICES ASSUME j = Len(u) PROVE FALSE
      OBVIOUS
    <3>1. line.text = c /\ line.sec = s
      BY <1>1, <2>1
    <3>2. /\ line.id.of \in Requests /\ a[line.id.of].cmd = c
          /\ e[line.id.of] = -1 /\ e2[line.id.of] = s
      BY <1>2, <3>1 DEF Fresh
    <3>3. PICK q \in Requests : a[q].cmd = c /\ e[q] = s
      BY <1>7, <2>1 DEF Known
    <3>4. e[q] # -1 /\ e2[q] = s /\ q # line.id.of
      BY <1>4, <2>1, <3>2, <3>3
    <3> QED
      BY <1>7, <3>2, <3>3, <3>4 DEF Unique
  <2> DEFINE i == j + d
  <2>3. i \in 1 .. Len(t) /\ u[j] = t[i] /\ i - d = j /\ i - d >= 1
    BY <1>1, <1>2, <1>3, <2>1, <2>2
  <2> HIDE DEF i
  <2>4. Echoing(t, i, c, s)
    BY <2>1, <2>3 DEF Echoing, IsEcho
  <2>5. Numbered(t, w - Len(t))
    BY DEF World
  <2>6. \A l \in i .. Len(t) : u[l - d] = t[l]
    <3>1. \A l \in i .. Len(t) : l \in 1 .. Len(t) /\ l - d >= 1
      BY <1>2, <2>3
    <3> QED
      BY <1>1, <3>1
  <2>7. Extends(Block(u, j), Block(t, i))
    BY <1>1, <2>3, <2>5, <2>6, BlockCarried
  <2>8. Len(Block(u, j)) \in Nat /\ Len(Block(t, i)) \in Nat
    BY <1>5, <2>1, <2>3, <2>5, BlockRises DEF World, Rising
  <2> QED
    BY <2>3, <2>4, <2>7, <2>8
<1>8. ASSUME NEW c, NEW s, NEW k, NEW S, Behind(t, a, e, c, s, k, S)
      PROVE  Behind(u, a, e2, c, s, k, S) /\ \A o : Starts(t, a, e, c, s, o) => Starts(u, a, e2, c, s, o)
  <2>1. k \in Nat /\ s \in -1 .. Day - 1 /\ c \in Cmds /\ Known(a, e, c, s)
    BY <1>8 DEF Behind
  <2>2. Known(a, e2, c, s)
    BY <1>4, <2>1, DayInt DEF Known
  <2>3. ASSUME Unique(a, e2, c, s), NEW j, Echoing(u, j, c, s)
        PROVE  /\ Within(u, j, k, S)
               /\ \A o : Starts(t, a, e, c, s, o) => Extends(Block(u, j), o)
    <3>1. PICK i \in 1 .. Len(t) :
            /\ Echoing(t, i, c, s) /\ Extends(Block(u, j), Block(t, i))
            /\ Len(Block(u, j)) \in Nat /\ Len(Block(t, i)) \in Nat
      BY <1>7, <2>1, <2>3
    <3>2. Unique(a, e, c, s)
      BY <1>6, <2>1, <2>3
    <3>3. Within(t, i, k, S)
      BY <1>8, <3>1, <3>2 DEF Behind
    <3>4. k >= 1 => Block(u, j)[k] = Block(t, i)[k]
      BY <2>1, <3>1, <3>3 DEF Within, Extends
    <3>5. Within(u, j, k, S)
      BY <2>1, <3>1, <3>3, <3>4 DEF Within, Extends
    <3>6. ASSUME NEW o, Starts(t, a, e, c, s, o) PROVE Extends(Block(u, j), o)
      <4>1. Extends(Block(t, i), o)
        BY <3>1, <3>2, <3>6 DEF Starts
      <4> QED
        BY <3>1, <4>1, LongerStill
    <3> QED
      BY <3>5, <3>6
  <2>4. Behind(u, a, e2, c, s, k, S)
    BY <2>1, <2>2, <2>3 DEF Behind
  <2> QED
    BY <2>3, <2>4 DEF Starts
<1>9. ASSUME NEW c, NEW s, NEW k, NEW o, Held(t, a, e, c, s, k, o) PROVE Held(u, a, e2, c, s, k, o)
  BY <1>8, <1>9 DEF Held
<1> QED
  BY <1>5, <1>6, <1>8, <1>9 DEF Carries

LEMMA AskWorld ==
    ASSUME NEW t, NEW a, NEW e, NEW w, World(t, a, e, w), NEW b,
           \A q \in Requests : e[q] # -1 => b[q].cmd = a[q].cmd
    PROVE  World(t, b, e, w) /\ Carries(t, a, e, t, b, e)
<1>1. World(t, b, e, w)
  <2>1. ASSUME NEW i \in 1 .. Len(t), t[i].shape = "cmd", t[i].text \in Cmds
        PROVE  /\ t[i].id.of \in Requests /\ b[t[i].id.of].cmd = t[i].text
               /\ e[t[i].id.of] = t[i].sec /\ t[i].sec \in 0 .. Day - 1
    <3>1. /\ t[i].id.of \in Requests /\ a[t[i].id.of].cmd = t[i].text
          /\ e[t[i].id.of] = t[i].sec /\ t[i].sec \in 0 .. Day - 1
      BY <2>1 DEF World
    <3>2. e[t[i].id.of] # -1
      BY <3>1, DayInt
    <3> QED
      BY <3>1, <3>2
  <2> QED
    BY <2>1 DEF World
<1>2. \A c, s : s \in -1 .. Day - 1 /\ Known(a, e, c, s) => Known(b, e, c, s)
  BY DayInt DEF Known
<1>3. \A c, s : s \in Int /\ Unique(b, e, c, s) => Unique(a, e, c, s)
  BY DEF Unique
<1>4. \A c, s : Unique(b, e, c, s) => Unique(a, e, c, s)
  BY <1>3 DEF Unique
<1>5. ASSUME NEW c, NEW s, NEW k, NEW S, Behind(t, a, e, c, s, k, S)
      PROVE  Behind(t, b, e, c, s, k, S)
  BY <1>2, <1>4, <1>5 DEF Behind
<1>6. ASSUME NEW c, NEW s, NEW k, NEW o, Held(t, a, e, c, s, k, o)
      PROVE  Held(t, b, e, c, s, k, o)
  BY <1>4, <1>5, <1>6 DEF Held, Starts
<1> QED
  BY <1>1, <1>4, <1>5, <1>6 DEF Carries

-----------------------------------------------------------------------------
(* What is known of lines, captures and cursors. *)

Early == {"idle", "gate", "trylock", "issue", "anchor", "alloc"}
Capturing == {"poll", "release", "captured"}
Answering == {"detect", "arm", "reply"}

IsCapture(c) ==
    /\ c = [stable |-> c.stable, prev |-> c.prev, polls |-> c.polls, looked |-> c.looked,
            total |-> c.total, sec |-> c.sec, out |-> c.out, end |-> c.end]
    /\ c.total \in Nat /\ c.sec \in -1 .. Day - 1
    /\ c.total > 0 => c.sec >= 0
    /\ c.end = "answer" => c.looked
    /\ IdSeq(c.out) /\ Increasing(c.out)

IsCursor(c) == c = [cmd |-> c.cmd, sec |-> c.sec, delivered |-> c.delivered, out |-> c.out]

\* A cursor of a request that asked for cmd, whose capture ended with the echo of second p,
\* and to which the lines g were returned.
CursorOf(t, a, e, c, cmd, p, g) ==
    /\ IsCursor(c) /\ c.cmd = cmd /\ c.sec = p
    /\ Behind(t, a, e, cmd, p, c.delivered, Ids(g))

SysInv ==
    /\ quiesce \in BOOLEAN /\ sec \in 0 .. MaxSec
    /\ World(tbl, ask, echoAt, written)
    /\ (\E S : tbl \in Seq(S)) /\ Len(tbl) <= Window
    /\ landed \in [Requests -> Nat]
    /\ \A r \in Requests : landed[r] = 0 => echoAt[r] = -1
    /\ \A r \in Requests : issued[r] = 0 => landed[r] = 0

TabInv ==
    /\ DOMAIN ask = Requests /\ DOMAIN kv = Requests /\ DOMAIN got = Requests
    /\ DOMAIN pin = Requests /\ DOMAIN cap = Workers /\ DOMAIN cur = Workers
    /\ \A r \in Requests : r <= nreq => ask[r].cmd \in Cmds
    /\ \A r \in Requests : r > nreq => kv[r] = NoCursor

GotInv(r) ==
    /\ IdSeq(got[r])
    /\ Unique(ask, echoAt, ask[r].cmd, pin[r]) => Increasing(got[r])
    /\ answer[r] # "200" => got[r] = << >>

KvInv(r) ==
    \/ kv[r] = NoCursor
    \/ /\ CursorOf(tbl, ask, echoAt, kv[r], ask[r].cmd, pin[r], got[r])
       /\ kv[r].out = << >>

CapInv(w) ==
    LET r == req[w]
    IN  /\ IsCapture(cap[w])
        /\ pc[w] \in Early =>
             cap[w].total = 0 /\ cap[w].sec = -1 /\ cap[w].out = << >> /\ cap[w].end = "open"
        /\ pc[w] \in Capturing \cup Answering =>
             Held(tbl, ask, echoAt, ask[r].cmd, cap[w].sec, cap[w].total, cap[w].out)
        /\ pc[w] \in (Early \ {"idle"}) \cup Capturing => kv[r] = NoCursor
        /\ pc[w] \in Answering =>
             /\ pin[r] = cap[w].sec
             /\ kv[r] # NoCursor =>
                  kv[r].delivered = (IF ask[r].async THEN 0 ELSE cap[w].total)

CurInv(w) ==
    LET r == req[w]
    IN  /\ pc[w] \in Collecting => answer[r] = "200"
        /\ pc[w] = "cpoll" =>
             CursorOf(tbl, ask, echoAt, cur[w], ask[r].cmd, pin[r], got[r]) /\ cur[w].out = << >>
        /\ pc[w] = "cset" =>
             /\ IdSeq(cur[w].out)
             /\ CursorOf(tbl, ask, echoAt, cur[w], ask[r].cmd, pin[r], got[r] \o cur[w].out)
             /\ Unique(ask, echoAt, ask[r].cmd, pin[r]) => Increasing(got[r] \o cur[w].out)

LineInv ==
    /\ SysInv /\ TabInv
    /\ \A r \in Requests : GotInv(r) /\ KvInv(r)
    /\ \A w \in Workers : CapInv(w) /\ CurInv(w)

LEMMA NoIds == IdSeq(<< >>) /\ Increasing(<< >>) /\ Ids(<< >>) = {} /\ Len(<< >>) = 0
BY DEF IdSeq, Ids, Increasing

LEMMA NoCursorFields ==
    /\ NoCursor.cmd = Nobody /\ NoCursor.sec = -1 /\ NoCursor.delivered = 0
    /\ NoCursor.out = << >>
BY DEF NoCursor

LEMMA NoCaptureIs ==
    /\ IsCapture(NoCapture) /\ NoCapture.total = 0 /\ NoCapture.sec = -1
    /\ NoCapture.out = << >> /\ NoCapture.end = "open"
BY NoIds, DayInt DEF NoCapture, IsCapture

LEMMA NothingBehind ==
    ASSUME NEW t, NEW a, NEW e, NEW c \in Cmds PROVE Held(t, a, e, c, -1, 0, << >>)
<1>1. Behind(t, a, e, c, -1, 0, Ids(<< >>)) /\ Starts(t, a, e, c, -1, << >>)
  BY DayInt DEF Behind, Known, Unique, Starts
<1>2. Len(<< >>) = IF 0 < Cap THEN 0 ELSE Cap
  BY DayInt
<1> QED
  BY <1>1, <1>2 DEF Held

LEMMA InitLines == Init => LineInv
<1> SUFFICES ASSUME Init PROVE LineInv
  OBVIOUS
<1>1. SysInv
  <2>1. /\ tbl = << >> /\ Len(tbl) = 0 /\ DOMAIN tbl = 1 .. Len(tbl) /\ tbl \in Seq({})
        /\ 1 .. Len(tbl) = {} /\ written = 0 /\ echoAt = [r \in Requests |-> -1]
    BY DEF Init
  <2>2. World(tbl, ask, echoAt, written)
    BY <2>1, DayInt DEF World, Numbered
  <2>3. quiesce \in BOOLEAN /\ sec \in 0 .. MaxSec /\ landed \in [Requests -> Nat]
    <3>1. quiesce = FALSE /\ sec = 0 /\ landed = [r \in Requests |-> 0]
      BY DEF Init
    <3>2. 0 \in 0 .. MaxSec
      BY DayInt
    <3> QED
      BY <3>1, <3>2
  <2>4. Len(tbl) <= Window /\ \A r \in Requests : landed[r] = 0 /\ echoAt[r] = -1
    BY <2>1, ConsoleAssumption DEF Init
  <2>5. \E S : tbl \in Seq(S)
    BY <2>1
  <2> QED
    BY <2>2, <2>3, <2>4, <2>5 DEF SysInv
<1>2. TabInv
  BY DEF Init, TabInv, Requests
<1>3. ASSUME NEW r \in Requests PROVE GotInv(r) /\ KvInv(r)
  BY NoIds DEF Init, GotInv, KvInv
<1>4. ASSUME NEW w \in Workers PROVE CapInv(w) /\ CurInv(w)
  BY NoCaptureIs DEF Init, CapInv, CurInv, Early, Capturing, Answering, Collecting
<1> QED
  BY <1>1, <1>2, <1>3, <1>4 DEF LineInv

-----------------------------------------------------------------------------
(* The frame of the steps. *)

\* The world moves on: a line is written, a request comes in.
LEMMA CursorCarries ==
    ASSUME NEW t, NEW a, NEW e, NEW t2, NEW a2, NEW e2, Carries(t, a, e, t2, a2, e2),
           NEW c, NEW cmd, NEW p, NEW g, CursorOf(t, a, e, c, cmd, p, g)
    PROVE  CursorOf(t2, a2, e2, c, cmd, p, g)
BY DEF CursorOf, Carries

LEMMA GotCarries ==
    ASSUME NEW r \in Requests, GotInv(r), Carries(tbl, ask, echoAt, tbl', ask', echoAt'),
           ask[r].cmd \in Cmds, ask'[r].cmd = ask[r].cmd, UNCHANGED <<pin, got, answer>>
    PROVE  GotInv(r)'
BY DEF GotInv, Carries

LEMMA KvCarries ==
    ASSUME NEW r \in Requests, KvInv(r), Carries(tbl, ask, echoAt, tbl', ask', echoAt'),
           ask'[r].cmd = ask[r].cmd, UNCHANGED <<pin, got, kv>>
    PROVE  KvInv(r)'
BY CursorCarries DEF KvInv

LEMMA CapCarries ==
    ASSUME NEW w \in Workers, CapInv(w), Carries(tbl, ask, echoAt, tbl', ask', echoAt'),
           pc'[w] = pc[w], req'[w] = req[w],
           pc[w] # "idle" => ask'[req[w]] = ask[req[w]], UNCHANGED <<cap, kv, pin>>
    PROVE  CapInv(w)'
<1>1. \A c, s, k, o :
        Held(tbl, ask, echoAt, c, s, k, o) => Held(tbl', ask', echoAt', c, s, k, o)
  BY DEF Carries
<1>2. "idle" \notin Capturing \cup Answering
  BY DEF Capturing, Answering
<1> QED
  BY <1>1, <1>2 DEF CapInv

LEMMA CurCarries ==
    ASSUME NEW w \in Workers, CurInv(w), Carries(tbl, ask, echoAt, tbl', ask', echoAt'),
           pc'[w] = pc[w], req'[w] = req[w],
           pc[w] # "idle" => ask'[req[w]] = ask[req[w]] /\ ask[req[w]].cmd \in Cmds,
           UNCHANGED <<cur, pin, got, answer>>
    PROVE  CurInv(w)'
<1>1. \A c \in Cmds : \A s : Unique(ask', echoAt', c, s) => Unique(ask, echoAt, c, s)
  BY DEF Carries
<1>2. CASE pc[w] = "cpoll"
  <2>1. CursorOf(tbl', ask', echoAt', cur[w], ask[req[w]].cmd, pin[req[w]], got[req[w]])
    BY <1>2, CursorCarries DEF CurInv
  <2> QED
    BY <1>2, <2>1 DEF CurInv
<1>3. CASE pc[w] = "cset"
  <2>1. CursorOf(tbl', ask', echoAt', cur[w], ask[req[w]].cmd, pin[req[w]],
                 got[req[w]] \o cur[w].out)
    BY <1>3, CursorCarries DEF CurInv
  <2> QED
    BY <1>1, <1>3, <2>1 DEF CurInv
<1> QED
  BY <1>2, <1>3 DEF CurInv

LEMMA WorldStep ==
    ASSUME LineInv, ConsoleInv, SysInv', TabInv',
           Carries(tbl, ask, echoAt, tbl', ask', echoAt'),
           \A r \in Requests : r <= nreq => ask'[r] = ask[r],
           UNCHANGED <<kv, cap, cur, got, pin, answer, pc, req>>
    PROVE  LineInv'
<1>1. ASSUME NEW r \in Requests PROVE GotInv(r)' /\ KvInv(r)'
  <2>0. GotInv(r) /\ KvInv(r)
    BY DEF LineInv
  <2>1. CASE r <= nreq
    BY <2>0, <2>1, GotCarries, KvCarries DEF LineInv, TabInv
  <2>2. CASE ~(r <= nreq)
    <3>1. r > nreq
      BY <2>2, MaxReqNat DEF ConsoleInv, ProofTypes, Requests
    <3>2. kv[r] = NoCursor /\ answer[r] = "none"
      BY <3>1 DEF LineInv, TabInv, ConsoleInv, IssuedWhere
    <3>3. got[r] = << >>
      BY <2>0, <3>2 DEF GotInv
    <3> QED
      BY <3>2, <3>3, NoIds DEF GotInv, KvInv
  <2> QED
    BY <2>1, <2>2
<1>2. ASSUME NEW w \in Workers PROVE CapInv(w)' /\ CurInv(w)'
  <2>1. pc[w] # "idle" => ask'[req[w]] = ask[req[w]] /\ ask[req[w]].cmd \in Cmds
    BY DEF ConsoleInv, ServedOnce, LineInv, TabInv
  <2>2. pc'[w] = pc[w] /\ req'[w] = req[w] /\ CapInv(w) /\ CurInv(w)
    BY DEF LineInv
  <2> QED
    BY <2>1, <2>2, CapCarries, CurCarries
<1> QED
  BY <1>1, <1>2 DEF LineInv

\* A step of one worker for its request: the others keep what they have, but the store
\* may drop a cursor.
WorkerOnly(w, r) ==
    /\ UNCHANGED <<tbl, ask, echoAt, written, sec, landed, quiesce, nreq>>
    /\ DOMAIN kv' = Requests /\ DOMAIN got' = Requests /\ DOMAIN pin' = Requests
    /\ DOMAIN cap' = Workers /\ DOMAIN cur' = Workers
    /\ \A q \in Requests : issued'[q] = 0 => issued[q] = 0
    /\ \A u \in Workers : u # w => /\ pc'[u] = pc[u] /\ req'[u] = req[u]
                                   /\ cap'[u] = cap[u] /\ cur'[u] = cur[u]
    /\ \A q \in Requests : q # r => /\ pin'[q] = pin[q] /\ got'[q] = got[q]
                                    /\ answer'[q] = answer[q] /\ kv'[q] \in {kv[q], NoCursor}

LEMMA WorkerStepLines ==
    ASSUME LineInv, ConsoleInv, NEW w \in Workers, NEW r \in Requests, r <= nreq, WorkerOnly(w, r),
           \A u \in Workers : u # w /\ pc[u] # "idle" => req[u] # r,
           GotInv(r)', KvInv(r)', CapInv(w)', CurInv(w)'
    PROVE  LineInv'
<1>1. SysInv'
  BY DEF LineInv, SysInv, WorkerOnly
<1>2. TabInv'
  <2>1. r \in 0 .. MaxReq /\ nreq \in 0 .. MaxReq /\ MaxReq \in Nat
    BY MaxReqNat DEF ConsoleInv, ProofTypes, Requests
  <2>2. \A q \in Requests : q > nreq => q # r
    BY <2>1
  <2> QED
    BY <2>2 DEF LineInv, TabInv, WorkerOnly
<1>3. ASSUME NEW q \in Requests, q # r PROVE GotInv(q)' /\ KvInv(q)'
  <2>1. GotInv(q) /\ KvInv(q)
    BY DEF LineInv
  <2>2. /\ pin'[q] = pin[q] /\ got'[q] = got[q] /\ answer'[q] = answer[q]
        /\ kv'[q] \in {kv[q], NoCursor} /\ UNCHANGED <<tbl, ask, echoAt>>
    BY <1>3 DEF WorkerOnly
  <2> QED
    BY <2>1, <2>2 DEF GotInv, KvInv
<1>4. ASSUME NEW u \in Workers, u # w PROVE CapInv(u)' /\ CurInv(u)'
  <2>1. CapInv(u) /\ CurInv(u)
    BY DEF LineInv
  <2>2. /\ pc'[u] = pc[u] /\ req'[u] = req[u] /\ cap'[u] = cap[u] /\ cur'[u] = cur[u]
        /\ UNCHANGED <<tbl, ask, echoAt>>
    BY <1>4 DEF WorkerOnly
  <2>3. CASE pc[u] = "idle"
    BY <2>1, <2>2, <2>3 DEF CapInv, CurInv, Early, Capturing, Answering, Collecting
  <2>4. CASE pc[u] # "idle"
    <3> DEFINE q == req[u]
    <3>1. q \in Requests /\ q # r
      BY <1>4, <2>4 DEF ConsoleInv, ServedOnce
    <3>2. /\ pin'[q] = pin[q] /\ got'[q] = got[q] /\ answer'[q] = answer[q]
          /\ kv'[q] \in {kv[q], NoCursor} /\ req'[u] = q
      BY <2>2, <3>1 DEF WorkerOnly
    <3> HIDE DEF q
    <3>3. CapInv(u)'
      BY <2>1, <2>2, <3>2 DEF CapInv, q
    <3>4. CurInv(u)'
      BY <2>1, <2>2, <3>2 DEF CurInv, q
    <3> QED
      BY <3>3, <3>4
  <2> QED
    BY <2>3, <2>4
<1> QED
  BY <1>1, <1>2, <1>3, <1>4 DEF LineInv

\* What is known of the request that a worker serves.
LEMMA Serving ==
    ASSUME ConsoleInv, LineInv, NEW w \in Workers, pc[w] # "idle"
    PROVE  /\ req[w] \in Requests /\ req[w] <= nreq /\ ask[req[w]].cmd \in Cmds
           /\ \A u \in Workers : u # w /\ pc[u] # "idle" => req[u] # req[w]
           /\ GotInv(req[w]) /\ KvInv(req[w]) /\ CapInv(w) /\ CurInv(w)
           /\ (pc[w] \in Before \cup After => answer[req[w]] = "none")
BY DEF ConsoleInv, ServedOnce, LineInv, TabInv

\* A handler that leaves: its lines are where they were, or returned with the answer.
LEMMA LeaveLines ==
    ASSUME ConsoleInv, LineInv, NEW w \in Workers, pc[w] # "idle", Leave(w),
           \A q \in Requests : q # req[w] => answer'[q] = answer[q],
           answer'[req[w]] # "200" => answer[req[w]] # "200",
           UNCHANGED <<sysVars, kv, nreq, ask, issued, got, pin>>
    PROVE  LineInv'
<1>0. PICK r \in Requests : r = req[w]
  BY Serving
<1>1. /\ r \in Requests /\ r <= nreq /\ GotInv(r) /\ KvInv(r)
      /\ \A u \in Workers : u # w /\ pc[u] # "idle" => req[u] # r
  BY <1>0, Serving
<1>2. /\ pc' = [pc EXCEPT ![w] = "idle"] /\ req' = [req EXCEPT ![w] = 0]
      /\ cap' = [cap EXCEPT ![w] = NoCapture] /\ cur' = [cur EXCEPT ![w] = NoCursor]
      /\ DOMAIN pc = Workers /\ DOMAIN req = Workers /\ DOMAIN cap = Workers
      /\ DOMAIN cur = Workers
  BY DEF Leave, Goto, LineInv, TabInv, ConsoleInv, ProofTypes
<1>3. WorkerOnly(w, r)
  BY <1>0, <1>2 DEF WorkerOnly, sysVars, LineInv, TabInv
<1>4. GotInv(r)' /\ KvInv(r)'
  BY <1>0, <1>1 DEF GotInv, KvInv, sysVars
<1>5. CapInv(w)' /\ CurInv(w)'
  <2>1. pc'[w] = "idle" /\ cap'[w] = NoCapture
    BY <1>2
  <2> QED
    BY <2>1, NoCaptureIs DEF CapInv, CurInv, Early, Capturing, Answering, Collecting
<1> QED
  BY <1>1, <1>3, <1>4, <1>5, WorkerStepLines

-----------------------------------------------------------------------------
(* The handlers, step by step. *)

LEMMA QuitLines ==
    ASSUME ConsoleInv, LineInv, NEW w \in Workers, pc[w] \in Before \cup After, NEW code,
           Quit(w, code), UNCHANGED <<sysVars, kv, nreq, ask, issued, got, pin>>
    PROVE  LineInv'
<1>1. pc[w] # "idle" /\ req[w] \in Requests /\ answer[req[w]] = "none"
  BY StepNames DEF ConsoleInv, ServedOnce
<1>2. /\ Leave(w) /\ answer' = [answer EXCEPT ![req[w]] = code] /\ DOMAIN answer = Requests
  BY DEF Quit, ConsoleInv, ProofTypes
<1>3. \A q \in Requests : q # req[w] => answer'[q] = answer[q]
  BY <1>2
<1> QED
  BY <1>1, <1>2, <1>3, LeaveLines

\* A handler that goes on to its next step, with its capture c.
LEMMA MoveLines ==
    ASSUME ConsoleInv, LineInv, NEW w \in Workers, pc[w] # "idle", NEW step, Goto(w, step),
           NEW c, DOMAIN cap' = Workers, cap'[w] = c, \A u \in Workers : u # w => cap'[u] = cap[u],
           IsCapture(c), step \notin Collecting,
           step \in Early =>
             c.total = 0 /\ c.sec = -1 /\ c.out = << >> /\ c.end = "open",
           step \in Capturing \cup Answering =>
             Held(tbl, ask, echoAt, ask[req[w]].cmd, c.sec, c.total, c.out),
           step \in Early \cup Capturing => pc[w] \in Early \cup Capturing,
           step \in Answering =>
             pc[w] \in Answering /\ c.sec = cap[w].sec /\ c.total = cap[w].total,
           DOMAIN kv' = Requests, \A q \in Requests : kv'[q] \in {kv[q], NoCursor},
           UNCHANGED <<sysVars, req, cur, nreq, ask, answer, got, pin>>,
           \A q \in Requests : issued'[q] = 0 => issued[q] = 0
    PROVE  LineInv'
<1>0. PICK r \in Requests : r = req[w]
  BY Serving
<1>1. /\ r <= nreq /\ GotInv(r) /\ KvInv(r) /\ CapInv(w)
      /\ \A u \in Workers : u # w /\ pc[u] # "idle" => req[u] # r
  BY <1>0, Serving
<1>2. /\ pc' = [pc EXCEPT ![w] = step] /\ DOMAIN pc = Workers /\ DOMAIN cap = Workers
      /\ kv'[r] \in {kv[r], NoCursor}
  BY <1>0 DEF Goto, LineInv, TabInv, ConsoleInv, ProofTypes
<1>3. WorkerOnly(w, r)
  BY <1>2 DEF WorkerOnly, sysVars, LineInv, TabInv
<1>4. GotInv(r)' /\ KvInv(r)'
  BY <1>1, <1>2 DEF GotInv, KvInv, sysVars
<1>5. pc'[w] = step /\ cap'[w] = c /\ req'[w] = r /\ UNCHANGED <<tbl, ask, echoAt>>
  BY <1>0, <1>2 DEF sysVars
<1>6. CapInv(w)'
  <2>1. step \in Capturing \cup Answering =>
          Held(tbl, ask, echoAt, ask[r].cmd, c.sec, c.total, c.out)
    BY <1>0
  <2>2. step \in (Early \ {"idle"}) \cup Capturing => kv[r] = NoCursor
    BY <1>0, <1>1 DEF CapInv
  <2>3. step \in Answering =>
          /\ pin[r] = c.sec
          /\ kv[r] # NoCursor => kv[r].delivered = (IF ask[r].async THEN 0 ELSE c.total)
    BY <1>0, <1>1 DEF CapInv
  <2> QED
    BY <1>2, <1>5, <2>1, <2>2, <2>3 DEF CapInv
<1>7. CurInv(w)'
  BY <1>5 DEF CurInv, Collecting
<1> QED
  BY <1>1, <1>3, <1>4, <1>6, <1>7, WorkerStepLines

\* With its capture as it was.
LEMMA GoLines ==
    ASSUME ConsoleInv, LineInv, NEW w \in Workers, pc[w] # "idle", NEW step, Goto(w, step),
           cap' = cap,
           \/ step \in Early /\ pc[w] \in Early
           \/ step \in Capturing /\ pc[w] \in Capturing
           \/ step \in Answering /\ pc[w] \in Answering
           \/ step \in Capturing /\ pc[w] \in Early,
           DOMAIN kv' = Requests, \A q \in Requests : kv'[q] \in {kv[q], NoCursor},
           UNCHANGED <<sysVars, req, cur, nreq, ask, answer, got, pin>>,
           \A q \in Requests : issued'[q] = 0 => issued[q] = 0
    PROVE  LineInv'
<1>1. CapInv(w) /\ ask[req[w]].cmd \in Cmds
  BY Serving
<1>2. DOMAIN cap' = Workers
  BY DEF LineInv, TabInv
<1>3. /\ Early \cap (Capturing \cup Answering) = {} /\ Capturing \cap Answering = {}
      /\ step \notin Collecting
  BY DEF Early, Capturing, Answering, Collecting
<1>4. step \in Early =>
        cap[w].total = 0 /\ cap[w].sec = -1 /\ cap[w].out = << >> /\ cap[w].end = "open"
  BY <1>1, <1>3 DEF CapInv
<1>5. step \in Capturing \cup Answering =>
        Held(tbl, ask, echoAt, ask[req[w]].cmd, cap[w].sec, cap[w].total, cap[w].out)
  <2>1. CASE pc[w] \in Early
    <3>1. cap[w].total = 0 /\ cap[w].sec = -1 /\ cap[w].out = << >>
      BY <1>1, <2>1 DEF CapInv
    <3> QED
      BY <1>1, <3>1, NothingBehind, NoIds
  <2>2. CASE pc[w] \notin Early
    BY <1>1, <2>2 DEF CapInv
  <2> QED
    BY <2>1, <2>2
<1>6. IsCapture(cap[w])
  BY <1>1 DEF CapInv
<1> QED
  BY <1>2, <1>3, <1>4, <1>5, <1>6, MoveLines

-----------------------------------------------------------------------------
(* The actions. *)

LEMMA SamePolls ==
    ASSUME NEW c, IsCapture(c), NEW p
    PROVE  LET d == [c EXCEPT !.polls = p]
           IN  IsCapture(d) /\ d.total = c.total /\ d.sec = c.sec /\ d.out = c.out /\ d.end = c.end
<1> DEFINE d == [c EXCEPT !.polls = p]
<1>1. /\ d = [stable |-> c.stable, prev |-> c.prev, polls |-> p, looked |-> c.looked,
              total |-> c.total, sec |-> c.sec, out |-> c.out, end |-> c.end]
  BY DEF IsCapture
<1> QED
  BY <1>1 DEF IsCapture

LEMMA GateLines ==
    ASSUME ConsoleInv, LineInv, NEW w \in Workers, Refuse(w) \/ Gate(w) PROVE LineInv'
<1>1. pc[w] = "gate" /\ pc[w] \in Before /\ pc[w] # "idle"
  BY DEF Refuse, Gate, Before
<1>2. ASSUME NEW code, Quit(w, code) PROVE LineInv'
  <2>1. UNCHANGED <<sysVars, kv, nreq, ask, issued, got, pin>>
    BY DEF Refuse, Gate
  <2> QED
    BY <1>1, <1>2, <2>1, QuitLines
<1>3. ASSUME NEW step \in {"trylock", "issue"}, Goto(w, step), UNCHANGED <<req, cap, cur, answer>>
      PROVE  LineInv'
  <2>1. UNCHANGED <<sysVars, kv, nreq, ask, issued, got, pin>>
    BY DEF Refuse, Gate
  <2>2. step \in Early /\ pc[w] \in Early
    BY <1>1 DEF Early
  <2>3. DOMAIN kv' = Requests
    BY <2>1 DEF LineInv, TabInv
  <2> QED
    BY <1>1, <1>3, <2>1, <2>2, <2>3, GoLines
<1> QED
  BY <1>2, <1>3 DEF Refuse, Gate

LEMMA TryLockLines ==
    ASSUME ConsoleInv, LineInv, NEW w \in Workers, TryLock(w) PROVE LineInv'
<1>1. /\ pc[w] = "trylock" /\ pc[w] \in Before /\ pc[w] # "idle" /\ pc[w] \in Early
      /\ UNCHANGED <<sysVars, kv, nreq, ask, issued, got, pin>>
  BY DEF TryLock, Before, Early
<1>2. ASSUME NEW code, Quit(w, code) PROVE LineInv'
  BY <1>1, <1>2, QuitLines
<1>3. DOMAIN kv' = Requests /\ DOMAIN pc = Workers /\ DOMAIN cap = Workers
  BY <1>1 DEF LineInv, TabInv, ConsoleInv, ProofTypes
<1>4. CapInv(w)
  BY <1>1, Serving
<1>5. ASSUME NEW step \in {"issue", "trylock"}, Goto(w, step), NEW c,
             DOMAIN cap' = Workers, cap'[w] = c, \A u \in Workers : u # w => cap'[u] = cap[u],
             IsCapture(c), c.total = 0 /\ c.sec = -1 /\ c.out = << >> /\ c.end = "open",
             UNCHANGED <<req, cur, answer>>
      PROVE  LineInv'
  <2>1. /\ step \in Early /\ step \notin Capturing /\ step \notin Answering
        /\ step \notin Collecting
    BY DEF Early, Capturing, Answering, Collecting
  <2> QED
    BY <1>1, <1>3, <1>5, <2>1, MoveLines
<1>6. CASE /\ Goto(w, "issue") /\ cap' = [cap EXCEPT ![w] = NoCapture]
           /\ UNCHANGED <<req, cur, answer>>
  BY <1>3, <1>5, <1>6, NoCaptureIs
<1>7. CASE cap' = [cap EXCEPT ![w].polls = @ + 1] /\ UNCHANGED <<pc, req, cur, answer>>
  <2> DEFINE c == [cap[w] EXCEPT !.polls = @ + 1]
  <2>1. /\ DOMAIN cap' = Workers /\ cap'[w] = c
        /\ \A u \in Workers : u # w => cap'[u] = cap[u]
    BY <1>3, <1>7
  <2>2. IsCapture(c) /\ c.total = 0 /\ c.sec = -1 /\ c.out = << >> /\ c.end = "open"
    <3> DEFINE p == cap[w].polls + 1
    <3>1. /\ IsCapture(cap[w]) /\ cap[w].total = 0 /\ cap[w].sec = -1
          /\ cap[w].out = << >> /\ cap[w].end = "open"
      BY <1>1, <1>4 DEF CapInv
    <3>2. c = [cap[w] EXCEPT !.polls = p]
      BY <3>1 DEF IsCapture
    <3> HIDE DEF p, c
    <3> QED
      BY <3>1, <3>2, SamePolls
  <2>3. Goto(w, "trylock")
    BY <1>1, <1>7 DEF Goto, ConsoleInv, ProofTypes
  <2> HIDE DEF c
  <2> QED
    BY <1>5, <1>7, <2>1, <2>2, <2>3
<1> QED
  BY <1>2, <1>6, <1>7 DEF TryLock

LEMMA IssueLines ==
    ASSUME ConsoleInv, LineInv, NEW w \in Workers, Issue(w) PROVE LineInv'
<1>1. /\ pc[w] = "issue" /\ pc[w] \in Early /\ pc[w] # "idle" /\ cap' = cap
      /\ issued' = [issued EXCEPT ![req[w]] = @ + 1]
      /\ UNCHANGED <<sysVars, kv, req, cur, nreq, ask, answer, got, pin>>
  BY DEF Issue, Early
<1>2. PICK step \in {"alloc", "anchor"} : Goto(w, step)
  BY DEF Issue
<1>3. step \in Early
  BY DEF Early
<1>4. \A q \in Requests : issued'[q] = 0 => issued[q] = 0
  <2>1. issued \in [Requests -> Nat]
    BY DEF ConsoleInv, ProofTypes
  <2> QED
    BY <1>1, <2>1
<1>5. DOMAIN kv' = Requests
  BY <1>1 DEF LineInv, TabInv
<1> QED
  BY <1>1, <1>2, <1>3, <1>4, <1>5, GoLines

LEMMA AnchorAllocLines ==
    ASSUME ConsoleInv, LineInv, NEW w \in Workers, TakeAnchor(w) \/ Alloc(w) \/ Release(w)
    PROVE  LineInv'
<1>1. /\ pc[w] \in {"anchor", "alloc", "release"} /\ pc[w] \in After /\ pc[w] # "idle"
      /\ UNCHANGED <<sysVars, kv, nreq, ask, issued, got, pin>>
  BY DEF TakeAnchor, Alloc, Release, After
<1>2. ASSUME NEW code, Quit(w, code) PROVE LineInv'
  BY <1>1, <1>2, QuitLines
<1>3. ASSUME NEW step, Goto(w, step), UNCHANGED <<req, cap, cur, answer>>,
             \/ pc[w] = "anchor" /\ step = "alloc"
             \/ pc[w] = "alloc" /\ step = "poll"
             \/ pc[w] = "release" /\ step = "captured"
      PROVE  LineInv'
  <2>1. /\ \/ step \in Early /\ pc[w] \in Early
           \/ step \in Capturing /\ pc[w] \in Capturing
           \/ step \in Capturing /\ pc[w] \in Early
    BY <1>3 DEF Early, Capturing
  <2>2. DOMAIN kv' = Requests
    BY <1>1 DEF LineInv, TabInv
  <2> QED
    BY <1>1, <1>3, <2>1, <2>2, GoLines
<1>4. CASE TakeAnchor(w)
  BY <1>2, <1>3, <1>4 DEF TakeAnchor
<1>5. CASE Alloc(w)
  BY <1>2, <1>3, <1>5 DEF Alloc
<1>6. CASE Release(w)
  BY <1>3, <1>6 DEF Release
<1> QED
  BY <1>4, <1>5, <1>6

\* What a poll makes of a capture.
LEMMA LookedIs ==
    ASSUME NEW c, IsCapture(c), NEW look, look.total \in Nat, look.sec \in -1 .. Day - 1,
           look.total > 0 => look.sec >= 0, IdSeq(look.out), Increasing(look.out)
    PROVE  LET d == Looked(c, look)
           IN  IsCapture(d) /\ d.total = look.total /\ d.sec = look.sec /\ d.out = look.out
<1> DEFINE d == Looked(c, look)
           st == IF look.total = 0 THEN c.stable
                 ELSE IF look.total = c.prev THEN c.stable + 1 ELSE 0
<1>1. d = [stable |-> st, prev |-> look.total, polls |-> c.polls, looked |-> TRUE,
           total |-> look.total, sec |-> look.sec, out |-> look.out, end |-> c.end]
  <2>1. d = [c EXCEPT !.looked = TRUE, !.total = look.total, !.sec = look.sec,
                      !.out = look.out, !.prev = look.total, !.stable = st]
    BY DEF Looked
  <2> HIDE DEF d, st
  <2> QED
    BY <2>1 DEF IsCapture
<1> HIDE DEF d, st
<1>2. /\ d.total = look.total /\ d.sec = look.sec /\ d.out = look.out /\ d.looked = TRUE
      /\ d = [stable |-> d.stable, prev |-> d.prev, polls |-> d.polls, looked |-> d.looked,
              total |-> d.total, sec |-> d.sec, out |-> d.out, end |-> d.end]
  BY <1>1
<1>3. IsCapture(d)
  BY <1>2 DEF IsCapture
<1> QED
  BY <1>2, <1>3 DEF d

LEMMA EndedIs ==
    ASSUME NEW c, IsCapture(c), NEW d \in Ended(c)
    PROVE  IsCapture(d) /\ d.total = c.total /\ d.sec = c.sec /\ d.out = c.out
<1> DEFINE end == IF c.looked THEN "answer" ELSE "failed"
           p == c.polls + 1
<1>1. \/ d = [c EXCEPT !.polls = p, !.end = end]
      \/ d = [c EXCEPT !.polls = p]
  BY DEF Ended
<1>2. end = "answer" => c.looked
  OBVIOUS
<1> HIDE DEF end, p
<1>3. CASE d = [c EXCEPT !.polls = p, !.end = end]
  <2>1. d = [stable |-> c.stable, prev |-> c.prev, polls |-> p, looked |-> c.looked,
             total |-> c.total, sec |-> c.sec, out |-> c.out, end |-> end]
    BY <1>3 DEF IsCapture
  <2> QED
    BY <1>2, <2>1 DEF IsCapture
<1>4. CASE d = [c EXCEPT !.polls = p]
  BY <1>4, SamePolls
<1> QED
  BY <1>1, <1>3, <1>4

LEMMA PollLines ==
    ASSUME ConsoleInv, LineInv, NEW w \in Workers, Poll(w) PROVE LineInv'
<1>1. /\ pc[w] = "poll" /\ pc[w] \in Capturing /\ pc[w] # "idle"
      /\ UNCHANGED <<sysVars, lock, kv, req, cur, nreq, ncol, ask, issued, answer, got, pin>>
  BY DEF Poll, Capturing
<1>2. /\ CapInv(w) /\ IsCapture(cap[w]) /\ ask[req[w]].cmd \in Cmds
      /\ Held(tbl, ask, echoAt, ask[req[w]].cmd, cap[w].sec, cap[w].total, cap[w].out)
  BY <1>1, Serving DEF CapInv
<1>3. DOMAIN kv' = Requests /\ DOMAIN cap = Workers
  BY <1>1 DEF LineInv, TabInv
<1>4. ASSUME NEW step \in {"poll", "release"}, Goto(w, step), NEW c,
             cap' = [cap EXCEPT ![w] = c], IsCapture(c),
             Held(tbl, ask, echoAt, ask[req[w]].cmd, c.sec, c.total, c.out)
      PROVE  LineInv'
  <2>1. /\ step \in Capturing /\ step \notin Early /\ step \notin Answering
        /\ step \notin Collecting
    BY DEF Early, Capturing, Answering, Collecting
  <2>2. /\ DOMAIN cap' = Workers /\ cap'[w] = c /\ \A u \in Workers : u # w => cap'[u] = cap[u]
    BY <1>3, <1>4
  <2> QED
    BY <1>1, <1>3, <1>4, <2>1, <2>2, MoveLines
<1>5. CASE quiesce
  <2>1. cap' = [cap EXCEPT ![w].end = "interrupted"] /\ Goto(w, "release")
    BY <1>5 DEF Poll
  <2> DEFINE c == [cap[w] EXCEPT !.end = "interrupted"]
  <2>2. cap' = [cap EXCEPT ![w] = c]
    BY <2>1
  <2>3. c = [stable |-> cap[w].stable, prev |-> cap[w].prev, polls |-> cap[w].polls,
             looked |-> cap[w].looked, total |-> cap[w].total, sec |-> cap[w].sec,
             out |-> cap[w].out, end |-> "interrupted"]
    BY <1>2 DEF IsCapture
  <2> HIDE DEF c
  <2>4. IsCapture(c) /\ c.sec = cap[w].sec /\ c.total = cap[w].total /\ c.out = cap[w].out
    BY <1>2, <2>3 DEF IsCapture
  <2> QED
    BY <1>2, <1>4, <2>1, <2>2, <2>4
<1>6. CASE ~quiesce
  <2> DEFINE look == Correlate(tbl, ask[req[w]].cmd, -1, 0)
  <2>1. PICK c \in {Looked(cap[w], look), cap[w]} :
          \E d \in Ended(c) : /\ cap' = [cap EXCEPT ![w] = d]
                              /\ Goto(w, IF d.end = "open" THEN "poll" ELSE "release")
    BY <1>6 DEF Poll
  <2>2. PICK d \in Ended(c) : /\ cap' = [cap EXCEPT ![w] = d]
                              /\ Goto(w, IF d.end = "open" THEN "poll" ELSE "release")
    BY <2>1
  <2>3. /\ look.total \in Nat /\ look.sec \in -1 .. Day - 1 /\ (look.total > 0 => look.sec >= 0)
        /\ IdSeq(look.out) /\ Increasing(look.out)
        /\ Held(tbl, ask, echoAt, ask[req[w]].cmd, look.sec, look.total, look.out)
    BY <1>2, CapturePoll DEF LineInv, SysInv
  <2> HIDE DEF look
  <2>4. /\ IsCapture(c)
        /\ Held(tbl, ask, echoAt, ask[req[w]].cmd, c.sec, c.total, c.out)
    <3>1. CASE c = Looked(cap[w], look)
      BY <1>2, <2>3, <3>1, LookedIs
    <3>2. CASE c = cap[w]
      BY <1>2, <3>2
    <3> QED
      BY <2>1, <3>1, <3>2
  <2>5. IsCapture(d) /\ d.total = c.total /\ d.sec = c.sec /\ d.out = c.out
    BY <2>4, EndedIs
  <2> QED
    BY <1>4, <2>2, <2>4, <2>5
<1> QED
  BY <1>5, <1>6

LEMMA CapturedLines ==
    ASSUME ConsoleInv, LineInv, NEW w \in Workers, Captured(w) PROVE LineInv'
<1>1. /\ pc[w] = "captured" /\ pc[w] \in Capturing /\ pc[w] \in After /\ pc[w] # "idle"
      /\ UNCHANGED <<sysVars, nreq, ask, issued, got>>
  BY DEF Captured, Capturing, After
<1>2. ASSUME NEW code, Quit(w, code), UNCHANGED <<kv, pin>> PROVE LineInv'
  BY <1>1, <1>2, QuitLines
<1>0. PICK r \in Requests : r = req[w]
  BY <1>1, Serving
<1>3. /\ r <= nreq /\ GotInv(r) /\ CapInv(w) /\ IsCapture(cap[w]) /\ ask[r].cmd \in Cmds
      /\ \A u \in Workers : u # w /\ pc[u] # "idle" => req[u] # r
      /\ Held(tbl, ask, echoAt, ask[r].cmd, cap[w].sec, cap[w].total, cap[w].out)
      /\ kv[r] = NoCursor /\ answer[r] = "none" /\ got[r] = << >>
  <2>1. /\ r <= nreq /\ GotInv(r) /\ CapInv(w) /\ ask[r].cmd \in Cmds /\ answer[r] = "none"
        /\ \A u \in Workers : u # w /\ pc[u] # "idle" => req[u] # r
    BY <1>0, <1>1, Serving
  <2>2. /\ IsCapture(cap[w]) /\ kv[r] = NoCursor
        /\ Held(tbl, ask, echoAt, ask[r].cmd, cap[w].sec, cap[w].total, cap[w].out)
    BY <1>0, <1>1, <2>1 DEF CapInv
  <2>3. got[r] = << >>
    BY <2>1 DEF GotInv
  <2> QED
    BY <2>1, <2>2, <2>3
<1> DEFINE k == IF ask[r].async THEN 0 ELSE cap[w].total
           cursor == [cmd |-> ask[r].cmd, sec |-> cap[w].sec, delivered |-> k, out |-> << >>]
<1>4. ASSUME kv' \in {kv, [kv EXCEPT ![r] = cursor]}, pin' = [pin EXCEPT ![r] = cap[w].sec],
             cap' = [cap EXCEPT ![w].polls = 0], NEW step \in Answering, Goto(w, step),
             UNCHANGED <<lock, req, cur, answer>>
      PROVE  LineInv'
  <2>1. /\ DOMAIN kv = Requests /\ DOMAIN pin = Requests /\ DOMAIN cap = Workers
        /\ DOMAIN pc = Workers /\ DOMAIN got = Requests /\ DOMAIN cur = Workers
    BY DEF LineInv, TabInv, ConsoleInv, ProofTypes
  <2>2. DOMAIN kv' = Requests /\ \A q \in Requests : q # r => kv'[q] = kv[q]
    BY <1>4, <2>1
  <2>3. WorkerOnly(w, r)
    BY <1>1, <1>4, <2>1, <2>2 DEF WorkerOnly, sysVars, Goto
  <2>4. GotInv(r)'
    <3>1. got'[r] = << >>
      BY <1>1, <1>3
    <3> QED
      BY <3>1, NoIds DEF GotInv
  <2> DEFINE c == [cap[w] EXCEPT !.polls = 0]
  <2>5. /\ pin'[r] = cap[w].sec /\ cap'[w] = c /\ pc'[w] = step /\ req'[w] = r
        /\ kv'[r] \in {NoCursor, cursor} /\ UNCHANGED <<tbl, ask, echoAt, got>>
    BY <1>0, <1>1, <1>3, <1>4, <2>1 DEF Goto, sysVars
  <2>6. IsCapture(c) /\ c.total = cap[w].total /\ c.sec = cap[w].sec /\ c.out = cap[w].out
    BY <1>3, SamePolls
  <2>7. cap[w].total \in Nat /\ k \in Nat /\ k <= cap[w].total /\ (k = 0 \/ k = cap[w].total)
    BY <1>3 DEF IsCapture
  <2> HIDE DEF c, k
  <2>8. cursor.cmd = ask[r].cmd /\ cursor.sec = cap[w].sec /\ cursor.delivered = k
        /\ cursor.out = << >> /\ IsCursor(cursor)
    BY DEF IsCursor
  <2> HIDE DEF cursor
  <2>9. Behind(tbl, ask, echoAt, ask[r].cmd, cap[w].sec, k, Ids(<< >>))
    <3>1. ASSUME NEW i, Within(tbl, i, cap[w].total, Ids(cap[w].out)),
                 Len(Block(tbl, i)) \in Nat
          PROVE  Within(tbl, i, k, {})
      BY <2>7, <3>1 DEF Within
    <3>2. \A i \in 1 .. Len(tbl) : Len(Block(tbl, i)) \in Nat
      BY BlockRises DEF LineInv, SysInv, World, Rising
    <3> QED
      BY <1>3, <2>7, <3>1, <3>2, NoIds DEF Held, Behind, Echoing
  <2>10. KvInv(r)'
    <3>1. CASE kv'[r] = NoCursor
      BY <3>1 DEF KvInv
    <3>2. CASE kv'[r] = cursor
      <4>1. CursorOf(tbl, ask, echoAt, cursor, ask[r].cmd, cap[w].sec, << >>)
        BY <2>8, <2>9 DEF CursorOf
      <4> QED
        BY <1>3, <2>5, <2>8, <3>2, <4>1 DEF KvInv
    <3> QED
      BY <2>5, <3>1, <3>2
  <2>11. CapInv(w)'
    <3>1. /\ step \in Answering /\ step \notin Early /\ step \notin Capturing
      BY DEF Early, Capturing, Answering
    <3>2. Held(tbl, ask, echoAt, ask[r].cmd, c.sec, c.total, c.out)
      BY <1>3, <2>6
    <3>3. kv'[r] # NoCursor => kv'[r].delivered = (IF ask[r].async THEN 0 ELSE c.total)
      BY <2>5, <2>6, <2>8 DEF k
    <3> QED
      BY <2>5, <2>6, <3>1, <3>2, <3>3 DEF CapInv
  <2>12. CurInv(w)'
    BY <2>5 DEF CurInv, Answering, Collecting
  <2> QED
    BY <1>3, <2>3, <2>4, <2>10, <2>11, <2>12, WorkerStepLines
<1>5. CASE cap[w].end = "answer" /\ ~\E code : Quit(w, code) /\ UNCHANGED <<kv, pin>>
  <2>1. /\ kv' \in {kv, [kv EXCEPT ![r] = cursor]} /\ pin' = [pin EXCEPT ![r] = cap[w].sec]
        /\ cap' = [cap EXCEPT ![w].polls = 0] /\ UNCHANGED <<lock, req, cur, answer>>
        /\ Goto(w, CASE ask[r].unsol = "no" -> "reply"
                     [] ask[r].unsol = "sync" -> "detect"
                     [] OTHER -> "arm")
    BY <1>0, <1>5 DEF Captured
  <2>2. PICK step \in Answering : Goto(w, step)
    BY <2>1 DEF Answering
  <2> QED
    BY <1>4, <2>1, <2>2
<1> QED
  BY <1>2, <1>5 DEF Captured

LEMMA DetectLines ==
    ASSUME ConsoleInv, LineInv, NEW w \in Workers, DetectPoll(w) \/ ArmDetection(w)
    PROVE  LineInv'
<1>1. /\ pc[w] \in {"detect", "arm"} /\ pc[w] \in Answering /\ pc[w] \in After /\ pc[w] # "idle"
      /\ UNCHANGED <<sysVars, nreq, ask, issued, got, pin>>
  BY DEF DetectPoll, ArmDetection, Answering, After
<1>2. DOMAIN kv = Requests /\ DOMAIN cap = Workers
  BY DEF LineInv, TabInv
<1>3. ASSUME NEW code, Quit(w, code), kv' = kv PROVE LineInv'
  BY <1>1, <1>3, QuitLines
<1>4. ASSUME Goto(w, "reply"), DOMAIN kv' = Requests,
             \A q \in Requests : kv'[q] \in {kv[q], NoCursor},
             UNCHANGED <<req, cap, cur, answer>>
      PROVE  LineInv'
  <2>1. "reply" \in Answering
    BY DEF Answering
  <2> QED
    BY <1>1, <1>4, <2>1, GoLines
<1>5. ASSUME cap' = [cap EXCEPT ![w].polls = @ + 1], UNCHANGED <<pc, req, cur, answer, kv>>
      PROVE  LineInv'
  <2> DEFINE p == cap[w].polls + 1
             c == [cap[w] EXCEPT !.polls = p]
  <2>1. /\ DOMAIN cap' = Workers /\ cap'[w] = c
        /\ \A u \in Workers : u # w => cap'[u] = cap[u]
    BY <1>2, <1>5
  <2>2. CapInv(w)
    BY <1>1, Serving
  <2>3. IsCapture(c) /\ c.total = cap[w].total /\ c.sec = cap[w].sec /\ c.out = cap[w].out
    <3> HIDE DEF p
    <3> QED
      BY <2>2, SamePolls DEF CapInv
  <2> HIDE DEF c, p
  <2>4. PICK step : step = pc[w]
    OBVIOUS
  <2>5. Goto(w, step)
    BY <1>5, <2>4 DEF Goto, ConsoleInv, ProofTypes
  <2>6. step \in Answering /\ step \notin Early \cup Capturing \cup Collecting
    BY <1>1, <2>4 DEF Answering, Early, Capturing, Collecting
  <2>7. Held(tbl, ask, echoAt, ask[req[w]].cmd, c.sec, c.total, c.out)
    BY <1>1, <2>2, <2>3 DEF CapInv
  <2> QED
    BY <1>1, <1>2, <1>5, <2>1, <2>3, <2>4, <2>5, <2>6, <2>7, MoveLines
<1>6. CASE DetectPoll(w)
  BY <1>2, <1>3, <1>4, <1>5, <1>6 DEF DetectPoll
<1>7. CASE ArmDetection(w)
  <2>1. DOMAIN kv' = Requests /\ \A q \in Requests : kv'[q] \in {kv[q], NoCursor}
    BY <1>2, <1>7 DEF ArmDetection
  <2> QED
    BY <1>4, <1>7, <2>1 DEF ArmDetection
<1> QED
  BY <1>6, <1>7

LEMMA ReplyLines ==
    ASSUME ConsoleInv, LineInv, NEW w \in Workers, Reply(w) PROVE LineInv'
<1>1. /\ pc[w] = "reply" /\ pc[w] \in Answering /\ pc[w] \in After /\ pc[w] # "idle"
      /\ UNCHANGED <<sysVars, kv, nreq, ask, issued, pin>>
  BY DEF Reply, Answering, After
<1>2. CASE Quit(w, "lost") /\ got' = got
  BY <1>1, <1>2, QuitLines
<1>3. CASE /\ Quit(w, "200")
           /\ got' = [got EXCEPT ![req[w]] = IF ask[req[w]].async THEN << >> ELSE cap[w].out]
  <2>0. PICK r \in Requests : r = req[w]
    BY <1>1, Serving
  <2>1. /\ r <= nreq /\ GotInv(r) /\ KvInv(r) /\ CapInv(w)
        /\ \A u \in Workers : u # w /\ pc[u] # "idle" => req[u] # r
    BY <1>1, <2>0, Serving
  <2>2. /\ IsCapture(cap[w]) /\ pin[r] = cap[w].sec
        /\ Held(tbl, ask, echoAt, ask[r].cmd, cap[w].sec, cap[w].total, cap[w].out)
        /\ kv[r] # NoCursor => kv[r].delivered = (IF ask[r].async THEN 0 ELSE cap[w].total)
    BY <1>1, <2>0, <2>1 DEF CapInv
  <2>3. /\ pc' = [pc EXCEPT ![w] = "idle"] /\ req' = [req EXCEPT ![w] = 0]
        /\ cap' = [cap EXCEPT ![w] = NoCapture] /\ cur' = [cur EXCEPT ![w] = NoCursor]
        /\ answer' = [answer EXCEPT ![r] = "200"]
        /\ DOMAIN pc = Workers /\ DOMAIN req = Workers /\ DOMAIN cap = Workers
        /\ DOMAIN cur = Workers /\ DOMAIN got = Requests /\ DOMAIN answer = Requests
        /\ DOMAIN kv = Requests /\ DOMAIN pin = Requests
    BY <1>3, <2>0 DEF Quit, Leave, Goto, LineInv, TabInv, ConsoleInv, ProofTypes
  <2> DEFINE g == IF ask[r].async THEN << >> ELSE cap[w].out
  <2>4. got' = [got EXCEPT ![r] = g]
    BY <1>3, <2>0
  <2>5. WorkerOnly(w, r)
    BY <1>1, <2>3, <2>4 DEF WorkerOnly, sysVars
  <2>6. got'[r] = g /\ answer'[r] = "200" /\ UNCHANGED <<tbl, ask, echoAt, kv, pin>>
    BY <1>1, <2>3, <2>4 DEF sysVars
  <2>7. IdSeq(g) /\ Increasing(g)
    BY <2>2, NoIds DEF IsCapture
  <2>8. kv[r] # NoCursor =>
          Behind(tbl, ask, echoAt, ask[r].cmd, pin[r], kv[r].delivered, Ids(g))
    BY <2>1, <2>2, <2>6, NoIds DEF KvInv, CursorOf, Held, Behind, Within
  <2> HIDE DEF g
  <2>9. GotInv(r)'
    BY <2>6, <2>7 DEF GotInv
  <2>10. KvInv(r)'
    BY <2>1, <2>6, <2>8 DEF KvInv, CursorOf
  <2>11. CapInv(w)' /\ CurInv(w)'
    <3>1. pc'[w] = "idle" /\ cap'[w] = NoCapture
      BY <2>3
    <3> QED
      BY <3>1, NoCaptureIs DEF CapInv, CurInv, Early, Capturing, Answering, Collecting
  <2> QED
    BY <2>1, <2>5, <2>9, <2>10, <2>11, WorkerStepLines
<1> QED
  BY <1>2, <1>3 DEF Reply

LEMMA AbendLines ==
    ASSUME ConsoleInv, LineInv, NEW w \in Workers, Abend(w) PROVE LineInv'
<1>1. /\ pc[w] # "idle" /\ Leave(w) /\ UNCHANGED <<sysVars, kv, nreq, ask, issued, got, pin>>
      /\ pc[w] \in Before \cup After \cup Collecting
  BY StepNames DEF Abend, ConsoleInv, ProofTypes
<1>2. req[w] \in Requests /\ (pc[w] \in Before \cup After => answer[req[w]] = "none")
  BY <1>1, Serving
<1>3. CASE answer' = answer
  BY <1>1, <1>3, LeaveLines
<1>4. CASE answer' = [answer EXCEPT ![req[w]] = "abend"] /\ pc[w] \in Before \cup After
  <2>1. Quit(w, "abend")
    BY <1>1, <1>4 DEF Quit
  <2> QED
    BY <1>1, <1>4, <2>1, QuitLines
<1> QED
  BY <1>1, <1>3, <1>4 DEF Abend, Collecting

LEMMA ReceiveCollectLines ==
    ASSUME ConsoleInv, LineInv, NEW w \in Workers, ReceiveCollect(w) PROVE LineInv'
<1>1. PICK r \in Requests : /\ answer[r] = "200" /\ req' = [req EXCEPT ![w] = r]
                            /\ \A u \in Workers : req[u] # r
  BY DEF ReceiveCollect
<1>2. /\ pc[w] = "idle" /\ pc' = [pc EXCEPT ![w] = "cget"]
      /\ UNCHANGED <<sysVars, kv, cap, cur, nreq, ask, issued, answer, got, pin>>
      /\ DOMAIN pc = Workers /\ DOMAIN req = Workers
  BY DEF ReceiveCollect, Goto, ConsoleInv, ProofTypes
<1>3. r <= nreq
  BY <1>1, MaxReqNat DEF ConsoleInv, IssuedWhere, ProofTypes, Requests
<1>4. WorkerOnly(w, r)
  BY <1>1, <1>2 DEF WorkerOnly, sysVars, LineInv, TabInv
<1>5. GotInv(r) /\ KvInv(r) /\ CapInv(w)
  BY DEF LineInv
<1>6. GotInv(r)' /\ KvInv(r)'
  BY <1>2, <1>5 DEF GotInv, KvInv, sysVars
<1>7. CapInv(w)' /\ CurInv(w)'
  <2>1. pc'[w] = "cget" /\ cap'[w] = cap[w] /\ req'[w] = r /\ answer'[r] = "200"
    BY <1>1, <1>2
  <2> QED
    BY <1>5, <2>1 DEF CapInv, CurInv, Early, Capturing, Answering, Collecting
<1> QED
  BY <1>1, <1>3, <1>4, <1>6, <1>7, WorkerStepLines

LEMMA CollectGetLines ==
    ASSUME ConsoleInv, LineInv, NEW w \in Workers, CollectGet(w) PROVE LineInv'
<1>1. /\ pc[w] = "cget" /\ pc[w] # "idle"
      /\ UNCHANGED <<sysVars, kv, nreq, ask, issued, answer, got, pin>>
  BY DEF CollectGet
<1>2. CASE Leave(w)
  BY <1>1, <1>2, LeaveLines
<1>3. CASE /\ kv[req[w]] # NoCursor /\ cur' = [cur EXCEPT ![w] = kv[req[w]]]
           /\ Goto(w, "cpoll") /\ UNCHANGED <<lock, req, cap>>
  <2>0. PICK r \in Requests : r = req[w]
    BY <1>1, Serving
  <2>1. /\ r <= nreq /\ GotInv(r) /\ KvInv(r) /\ CapInv(w) /\ answer[r] = "200"
        /\ \A u \in Workers : u # w /\ pc[u] # "idle" => req[u] # r
    BY <1>1, <2>0, Serving DEF CurInv, Collecting
  <2>2. /\ pc'[w] = "cpoll" /\ cap'[w] = cap[w] /\ req'[w] = r /\ cur'[w] = kv[r]
        /\ UNCHANGED <<tbl, ask, echoAt, kv, got, pin, answer>> /\ WorkerOnly(w, r)
    BY <1>1, <1>3, <2>0 DEF WorkerOnly, sysVars, Goto, LineInv, TabInv, ConsoleInv, ProofTypes
  <2>3. GotInv(r)' /\ KvInv(r)'
    BY <2>1, <2>2 DEF GotInv, KvInv
  <2>4. CapInv(w)'
    BY <2>1, <2>2 DEF CapInv, Early, Capturing, Answering
  <2>5. CurInv(w)'
    BY <1>3, <2>0, <2>1, <2>2 DEF CurInv, KvInv
  <2> QED
    BY <2>1, <2>2, <2>3, <2>4, <2>5, WorkerStepLines
<1> QED
  BY <1>2, <1>3 DEF CollectGet

LEMMA CollectPollLines ==
    ASSUME ConsoleInv, LineInv, NEW w \in Workers, CollectPoll(w) PROVE LineInv'
<1>1. /\ pc[w] = "cpoll" /\ pc[w] # "idle" /\ Goto(w, "cset")
      /\ UNCHANGED <<sysVars, kv, req, cap, nreq, ask, issued, answer, got, pin>>
  BY DEF CollectPoll
<1>0. PICK r \in Requests : r = req[w]
  BY <1>1, Serving
<1>2. /\ r <= nreq /\ GotInv(r) /\ KvInv(r) /\ CapInv(w) /\ answer[r] = "200"
      /\ \A u \in Workers : u # w /\ pc[u] # "idle" => req[u] # r
      /\ CursorOf(tbl, ask, echoAt, cur[w], ask[r].cmd, pin[r], got[r]) /\ cur[w].out = << >>
  BY <1>0, <1>1, Serving DEF CurInv, Collecting
<1>3. IdSeq(got[r]) /\ (Unique(ask, echoAt, ask[r].cmd, pin[r]) => Increasing(got[r]))
  BY <1>2 DEF GotInv
<1> DEFINE c == cur[w].cmd
           s == cur[w].sec
           k == cur[w].delivered
           look == Correlate(tbl, c, s, k)
           d == IF look.total > k THEN look.total ELSE k
<1>4. c = ask[r].cmd /\ s = pin[r] /\ IsCursor(cur[w])
      /\ Behind(tbl, ask, echoAt, c, s, k, Ids(got[r]))
  BY <1>2 DEF CursorOf
<1>5. DOMAIN cur = Workers /\ DOMAIN pc = Workers
  BY DEF LineInv, TabInv, ConsoleInv, ProofTypes
<1>6. ASSUME NEW n, IsCursor(n), n.cmd = ask[r].cmd, n.sec = pin[r], IdSeq(n.out),
             Behind(tbl, ask, echoAt, ask[r].cmd, pin[r], n.delivered, Ids(got[r] \o n.out)),
             Unique(ask, echoAt, ask[r].cmd, pin[r]) => Increasing(got[r] \o n.out),
             cur'[w] = n, DOMAIN cur' = Workers, \A u \in Workers : u # w => cur'[u] = cur[u]
      PROVE  LineInv'
  <2>1. /\ pc'[w] = "cset" /\ cap'[w] = cap[w] /\ req'[w] = r
        /\ UNCHANGED <<tbl, ask, echoAt, kv, got, pin, answer>> /\ WorkerOnly(w, r)
    BY <1>0, <1>1, <1>5, <1>6 DEF WorkerOnly, sysVars, Goto, LineInv, TabInv
  <2>2. GotInv(r)' /\ KvInv(r)'
    BY <1>2, <2>1 DEF GotInv, KvInv
  <2>3. CapInv(w)'
    BY <1>2, <2>1 DEF CapInv, Early, Capturing, Answering
  <2>4. CurInv(w)'
    BY <1>2, <1>6, <2>1 DEF CurInv, CursorOf
  <2> QED
    BY <1>2, <2>1, <2>2, <2>3, <2>4, WorkerStepLines
<1>7. CASE cur' = cur
  <2>1. IdSeq(got[r] \o << >>) /\ Ids(got[r] \o << >>) = Ids(got[r])
        /\ (Increasing(got[r]) => Increasing(got[r] \o << >>))
    BY <1>3, NoIds, JoinIds, JoinIncreasing
  <2> QED
    BY <1>2, <1>3, <1>4, <1>5, <1>6, <1>7, <2>1, NoIds
<1>8. CASE cur' = [cur EXCEPT ![w].delivered = IF look.total > @ THEN look.total ELSE @,
                              ![w].out = look.out]
  <2>0. PICK n : n = [cur[w] EXCEPT !.delivered = d, !.out = look.out]
    OBVIOUS
  <2>1. /\ cur'[w] = n /\ DOMAIN cur' = Workers /\ \A u \in Workers : u # w => cur'[u] = cur[u]
    BY <1>5, <1>8, <2>0
  <2>2. /\ IdSeq(look.out) /\ IdSeq(got[r] \o look.out)
        /\ Unique(ask, echoAt, c, s) => Increasing(got[r] \o look.out)
        /\ Behind(tbl, ask, echoAt, c, s, d, Ids(got[r] \o look.out))
    <3>1. World(tbl, ask, echoAt, written)
      BY DEF LineInv, SysInv
    <3> HIDE DEF c, s, k
    <3> QED
      BY <1>3, <1>4, <3>1, CollectedLines
  <2> HIDE DEF look, d, c, s, k
  <2>3. /\ IsCursor(n) /\ n.cmd = cur[w].cmd /\ n.sec = cur[w].sec /\ n.delivered = d
        /\ n.out = look.out
    <3>1. PICK q, o, e : q = cur[w] /\ o = look.out /\ e = d
      OBVIOUS
    <3>2. IsCursor(q) /\ n = [q EXCEPT !.delivered = e, !.out = o]
      BY <1>4, <2>0, <3>1
    <3>3. /\ IsCursor(n) /\ n.cmd = q.cmd /\ n.sec = q.sec /\ n.delivered = e
          /\ n.out = o
      <4>1. n = [cmd |-> q.cmd, sec |-> q.sec, delivered |-> e, out |-> o]
        BY <3>2 DEF IsCursor
      <4> QED
        BY <3>2, <4>1 DEF IsCursor
    <3> QED
      BY <3>1, <3>3
  <2>4. /\ IsCursor(n) /\ n.cmd = ask[r].cmd /\ n.sec = pin[r] /\ n.delivered = d
        /\ n.out = look.out
    BY <1>4, <2>3 DEF c, s
  <2> QED
    BY <1>4, <1>6, <2>1, <2>2, <2>4
<1> QED
  BY <1>7, <1>8 DEF CollectPoll

LEMMA CollectSetLines ==
    ASSUME ConsoleInv, LineInv, NEW w \in Workers, CollectSet(w) PROVE LineInv'
<1>1. /\ pc[w] = "cset" /\ pc[w] # "idle" /\ Leave(w)
      /\ kv' = [kv EXCEPT ![req[w]] = [cur[w] EXCEPT !.out = << >>]]
      /\ got' \in {got, [got EXCEPT ![req[w]] = @ \o cur[w].out]}
      /\ UNCHANGED <<sysVars, nreq, ask, issued, answer, pin>>
  BY DEF CollectSet
<1>0. PICK r \in Requests : r = req[w]
  BY <1>1, Serving
<1>2. /\ r <= nreq /\ GotInv(r) /\ CurInv(w)
      /\ \A u \in Workers : u # w /\ pc[u] # "idle" => req[u] # r
  BY <1>0, <1>1, Serving
<1> DEFINE all == got[r] \o cur[w].out
           n == [cur[w] EXCEPT !.out = << >>]
<1>3. /\ IdSeq(cur[w].out) /\ IdSeq(got[r])
      /\ CursorOf(tbl, ask, echoAt, cur[w], ask[r].cmd, pin[r], all)
      /\ Unique(ask, echoAt, ask[r].cmd, pin[r]) => Increasing(all) /\ Increasing(got[r])
  BY <1>0, <1>1, <1>2 DEF CurInv, GotInv
<1>4. IdSeq(all) /\ Ids(got[r]) \subseteq Ids(all)
  BY <1>3, JoinIds
<1>5. answer[r] = "200"
  BY <1>0, <1>1, <1>2 DEF CurInv, Collecting
<1>6. /\ pc' = [pc EXCEPT ![w] = "idle"] /\ req' = [req EXCEPT ![w] = 0]
      /\ cap' = [cap EXCEPT ![w] = NoCapture] /\ cur' = [cur EXCEPT ![w] = NoCursor]
      /\ DOMAIN pc = Workers /\ DOMAIN req = Workers /\ DOMAIN cap = Workers
      /\ DOMAIN cur = Workers /\ DOMAIN got = Requests /\ DOMAIN kv = Requests
      /\ DOMAIN pin = Requests
  BY <1>1 DEF Leave, Goto, LineInv, TabInv, ConsoleInv, ProofTypes
<1>7. kv' = [kv EXCEPT ![r] = n] /\ got' \in {got, [got EXCEPT ![r] = all]}
  BY <1>0, <1>1
<1> HIDE DEF n, all
<1>8. WorkerOnly(w, r)
  BY <1>1, <1>6, <1>7 DEF WorkerOnly, sysVars
<1>9. /\ kv'[r] = n /\ got'[r] \in {got[r], all} /\ answer'[r] = "200"
      /\ UNCHANGED <<tbl, ask, echoAt, pin>>
  BY <1>1, <1>5, <1>6, <1>7 DEF sysVars
<1>10. GotInv(r)'
  BY <1>3, <1>4, <1>9 DEF GotInv
<1>11. KvInv(r)'
  <2>1. /\ IsCursor(cur[w]) /\ cur[w].cmd = ask[r].cmd /\ cur[w].sec = pin[r]
        /\ Behind(tbl, ask, echoAt, ask[r].cmd, pin[r], cur[w].delivered, Ids(all))
    BY <1>3 DEF CursorOf
  <2>2. n = [cmd |-> cur[w].cmd, sec |-> cur[w].sec, delivered |-> cur[w].delivered,
             out |-> << >>]
    BY <2>1 DEF IsCursor, n
  <2>3. /\ IsCursor(n) /\ n.cmd = ask[r].cmd /\ n.sec = pin[r] /\ n.out = << >>
        /\ n.delivered = cur[w].delivered
    BY <2>1, <2>2 DEF IsCursor
  <2>4. \A g \in {got[r], all} : Ids(g) \subseteq Ids(all)
    BY <1>4
  <2>5. Ids(got'[r]) \subseteq Ids(all)
    BY <1>9, <2>4
  <2>6. Behind(tbl, ask, echoAt, ask[r].cmd, pin[r], n.delivered, Ids(got'[r]))
    BY <2>1, <2>3, <2>5 DEF Behind, Within
  <2> QED
    BY <1>9, <2>3, <2>6 DEF KvInv, CursorOf
<1>12. CapInv(w)' /\ CurInv(w)'
  <2>1. pc'[w] = "idle" /\ cap'[w] = NoCapture
    BY <1>6
  <2> QED
    BY <2>1, NoCaptureIs DEF CapInv, CurInv, Early, Capturing, Answering, Collecting
<1> QED
  BY <1>2, <1>8, <1>10, <1>11, <1>12, WorkerStepLines

LEMMA ReceiveIssueLines ==
    ASSUME ConsoleInv, LineInv, NEW w \in Workers, ReceiveIssue(w) PROVE LineInv'
<1>1. PICK c \in Cmds, k \in Kinds :
        ask' = [ask EXCEPT ![nreq + 1] = [cmd |-> c, async |-> k.async, unsol |-> k.unsol]]
  BY DEF ReceiveIssue
<1>2. /\ pc[w] = "idle" /\ nreq < MaxReq /\ nreq' = nreq + 1
      /\ req' = [req EXCEPT ![w] = nreq + 1] /\ pc' = [pc EXCEPT ![w] = "gate"]
      /\ UNCHANGED <<sysVars, kv, cap, cur, issued, answer, got, pin>>
  BY DEF ReceiveIssue, Goto
<1>3. PICK r \in Requests : r = nreq + 1
  BY <1>2, MaxReqNat DEF ConsoleInv, ProofTypes, Requests
<1>4. /\ nreq \in Nat /\ r > nreq /\ r <= nreq + 1
      /\ \A q \in Requests : q # r => (q <= nreq + 1 <=> q <= nreq) /\ (q > nreq \/ q <= nreq)
      /\ \A q \in Requests : (q > nreq + 1 => q > nreq) /\ (q <= nreq => q # r)
  BY <1>3, MaxReqNat DEF ConsoleInv, ProofTypes, Requests
<1>5. /\ DOMAIN ask = Requests /\ DOMAIN pc = Workers /\ DOMAIN req = Workers
      /\ SysInv /\ TabInv
  BY DEF LineInv, TabInv, ConsoleInv, ProofTypes
<1>6. ask'[r].cmd = c /\ \A q \in Requests : q # r => ask'[q] = ask[q]
  BY <1>1, <1>3, <1>5
<1>7. issued[r] = 0 /\ answer[r] = "none" /\ kv[r] = NoCursor /\ echoAt[r] = -1
  BY <1>4, <1>5 DEF ConsoleInv, IssuedWhere, SysInv, TabInv
<1>8. World(tbl, ask', echoAt, written) /\ Carries(tbl, ask, echoAt, tbl, ask', echoAt)
  <2>1. \A q \in Requests : echoAt[q] # -1 => ask'[q].cmd = ask[q].cmd
    BY <1>6, <1>7
  <2>2. World(tbl, ask, echoAt, written)
    BY <1>5 DEF SysInv
  <2> QED
    BY <2>1, <2>2, AskWorld
<1>9. SysInv'
  BY <1>2, <1>5, <1>8 DEF SysInv, sysVars
<1>10. TabInv'
  <2>1. DOMAIN ask' = Requests
    BY <1>1, <1>5
  <2>2. \A q \in Requests : q <= nreq' => ask'[q].cmd \in Cmds
    BY <1>2, <1>4, <1>5, <1>6 DEF TabInv
  <2> QED
    BY <1>2, <1>4, <1>5, <2>1, <2>2 DEF TabInv
<1>11. Carries(tbl, ask, echoAt, tbl', ask', echoAt')
  BY <1>2, <1>8 DEF sysVars
<1>12. ASSUME NEW q \in Requests PROVE GotInv(q)' /\ KvInv(q)'
  <2>0. GotInv(q) /\ KvInv(q)
    BY DEF LineInv
  <2>1. CASE q <= nreq
    <3>1. ask[q].cmd \in Cmds /\ ask'[q].cmd = ask[q].cmd
      BY <1>4, <1>5, <1>6, <2>1 DEF TabInv
    <3> QED
      BY <1>2, <1>11, <2>0, <3>1, GotCarries, KvCarries
  <2>2. CASE q > nreq
    <3>1. kv[q] = NoCursor /\ answer[q] = "none"
      BY <1>5, <2>2 DEF TabInv, ConsoleInv, IssuedWhere
    <3>2. got[q] = << >>
      BY <2>0, <3>1 DEF GotInv
    <3> QED
      BY <1>2, <3>1, <3>2, NoIds DEF GotInv, KvInv
  <2> QED
    BY <1>4, <2>1, <2>2
<1>13. ASSUME NEW u \in Workers PROVE CapInv(u)' /\ CurInv(u)'
  <2>0. CapInv(u) /\ CurInv(u)
    BY DEF LineInv
  <2>1. CASE u = w
    <3>1. /\ pc'[u] = "gate" /\ req'[u] = r /\ kv'[r] = NoCursor /\ cap'[u] = cap[u]
          /\ pc[u] = "idle"
      BY <1>2, <1>3, <1>5, <1>7, <2>1
    <3>2. CapInv(u)'
      BY <2>0, <3>1 DEF CapInv, Early, Capturing, Answering
    <3>3. CurInv(u)'
      BY <3>1 DEF CurInv, Collecting
    <3> QED
      BY <3>2, <3>3
  <2>2. CASE u # w
    <3>1. pc'[u] = pc[u] /\ req'[u] = req[u]
      BY <1>2, <1>5, <2>2
    <3>2. pc[u] # "idle" => ask'[req[u]] = ask[req[u]] /\ ask[req[u]].cmd \in Cmds
      BY <1>4, <1>5, <1>6 DEF TabInv, ConsoleInv, ServedOnce
    <3> QED
      BY <1>2, <1>11, <2>0, <3>1, <3>2, CapCarries, CurCarries
  <2> QED
    BY <2>1, <2>2
<1> QED
  BY <1>9, <1>10, <1>12, <1>13 DEF LineInv

\* A line is written.
LEMMA WriteLines ==
    ASSUME ConsoleInv, LineInv, NEW line, Write(line), line.id.n = written + 1,
           Fresh(line, ask, echoAt, echoAt'), landed' \in [Requests -> Nat],
           \A q \in Requests : landed'[q] = 0 => landed[q] = 0 /\ echoAt'[q] = echoAt[q],
           \A q \in Requests : issued[q] = 0 => landed'[q] = landed[q],
           UNCHANGED <<quiesce, sec, kv, pc, req, cap, cur, nreq, ask, issued, answer, got, pin>>
    PROVE  LineInv'
<1>1. SysInv /\ TabInv
  BY DEF LineInv
<1>2. PICK S : tbl \in Seq(S)
  BY <1>1 DEF SysInv
<1>3. Grown(tbl, tbl', line) /\ Len(tbl') <= Window /\ tbl' \in Seq(S \cup {line})
  BY <1>1, <1>2, WriteGrows DEF SysInv, Write
<1>4. written' = written + 1 /\ World(tbl, ask, echoAt, written)
  BY <1>1 DEF Write, SysInv
<1>5. World(tbl', ask, echoAt', written + 1) /\ Carries(tbl, ask, echoAt, tbl', ask, echoAt')
  BY <1>3, <1>4, WriteWorld
<1>6. SysInv'
  <2>1. \A q \in Requests : landed'[q] = 0 => echoAt'[q] = -1
    BY <1>1 DEF SysInv
  <2>2. \A q \in Requests : issued'[q] = 0 => landed'[q] = 0
    BY <1>1 DEF SysInv
  <2>3. World(tbl', ask', echoAt', written') /\ quiesce' \in BOOLEAN /\ sec' \in 0 .. MaxSec
    BY <1>1, <1>4, <1>5 DEF SysInv
  <2>4. \E T : tbl' \in Seq(T)
    BY <1>3
  <2> QED
    BY <1>3, <2>1, <2>2, <2>3, <2>4 DEF SysInv
<1>7. TabInv'
  BY <1>1 DEF TabInv
<1> QED
  BY <1>5, <1>6, <1>7, WorldStep

LEMMA LandLines ==
    ASSUME ConsoleInv, LineInv, NEW r \in Requests, Land(r) PROVE LineInv'
<1>1. SysInv /\ TabInv
  BY DEF LineInv
<1>2. /\ issued[r] > 0 /\ landed' = [landed EXCEPT ![r] = @ + 1]
      /\ echoAt' = IF landed[r] = 0 THEN [echoAt EXCEPT ![r] = sec] ELSE echoAt
      /\ UNCHANGED <<quiesce, sec, kv, pc, req, cap, cur, nreq, ask, issued, answer, got, pin>>
  BY DEF Land
<1>3. landed \in [Requests -> Nat] /\ echoAt \in [Requests -> -1 .. Day - 1] /\ sec \in 0 .. MaxSec
  BY <1>1 DEF SysInv, World
<1>4. /\ landed' \in [Requests -> Nat] /\ landed'[r] # 0
      /\ \A q \in Requests : q # r => landed'[q] = landed[q] /\ echoAt'[q] = echoAt[q]
  BY <1>2, <1>3
<1>5. /\ \A q \in Requests : landed'[q] = 0 => landed[q] = 0 /\ echoAt'[q] = echoAt[q]
      /\ \A q \in Requests : issued[q] = 0 => landed'[q] = landed[q]
  BY <1>2, <1>4
<1>6. ask[r].cmd \in Cmds
  <2>1. ~(r > nreq)
    BY <1>2 DEF ConsoleInv, IssuedWhere
  <2>2. r <= nreq
    BY <2>1, MaxReqNat DEF ConsoleInv, ProofTypes, Requests
  <2> QED
    BY <1>1, <2>2 DEF TabInv
<1>7. PICK line :
        /\ Write(line) /\ line.id = [n |-> written + 1, of |-> r]
        /\ landed[r] = 0 => line.sec = sec /\ line.shape = "cmd" /\ line.text = ask[r].cmd
        /\ landed[r] # 0 => line.text = Nobody
  <2> DEFINE k == landed[r]
             script == Replies[ask[r].cmd]
             line == IF k = 0
                     THEN [sec |-> sec, src |-> Own, shape |-> "cmd", text |-> ask[r].cmd,
                           num |-> 0, id |-> [n |-> written + 1, of |-> r]]
                     ELSE [sec |-> IF script[k].shape = "cont" THEN -1 ELSE sec,
                           src |-> script[k].src, shape |-> script[k].shape,
                           text |-> Nobody, num |-> IF script[k].multi THEN r ELSE 0,
                           id |-> [n |-> written + 1, of |-> r]]
  <2>1. Write(line)
    BY DEF Land
  <2>2. /\ line.id = [n |-> written + 1, of |-> r]
        /\ landed[r] = 0 => line.sec = sec /\ line.shape = "cmd" /\ line.text = ask[r].cmd
        /\ landed[r] # 0 => line.text = Nobody
    OBVIOUS
  <2> HIDE DEF line
  <2> QED
    BY <2>1, <2>2
<1>8. line.id.n = written + 1 /\ line.id.of = r
  BY <1>7
<1>9. Fresh(line, ask, echoAt, echoAt')
  <2>1. CASE landed[r] = 0
    <3>1. echoAt[r] = -1
      BY <1>1, <2>1 DEF SysInv
    <3>2. sec \in 0 .. Day - 1
      BY <1>3, DayInt
    <3>3. line.sec = sec /\ line.shape = "cmd" /\ line.text = ask[r].cmd
      BY <1>7, <2>1
    <3>4. echoAt' = [echoAt EXCEPT ![r] = sec]
      BY <1>2, <2>1
    <3> QED
      BY <1>6, <1>8, <3>1, <3>2, <3>3, <3>4 DEF Fresh
  <2>2. CASE landed[r] # 0
    BY <1>2, <1>7, <2>2, ConsoleAssumption DEF Fresh
  <2> QED
    BY <2>1, <2>2
<1> QED
  BY <1>2, <1>4, <1>5, <1>7, <1>8, <1>9, WriteLines

LEMMA WriteNoiseLines ==
    ASSUME ConsoleInv, LineInv, WriteNoise PROVE LineInv'
<1>1. PICK e \in Noise :
        Write([sec |-> sec, src |-> e.src, shape |-> e.shape, text |-> Nobody, num |-> 0,
               id |-> [n |-> written + 1, of |-> 0]])
  BY DEF WriteNoise
<1>2. PICK line : Write(line) /\ line.id.n = written + 1 /\ line.text = Nobody
  BY <1>1
<1>3. UNCHANGED <<quiesce, sec, landed, echoAt, kv, pc, req, cap, cur, nreq, ask, issued, answer,
                  got, pin>>
  BY DEF WriteNoise
<1>4. Fresh(line, ask, echoAt, echoAt')
  BY <1>2, <1>3, ConsoleAssumption DEF Fresh
<1>5. landed' \in [Requests -> Nat]
  BY <1>3 DEF LineInv, SysInv
<1> QED
  BY <1>2, <1>3, <1>4, <1>5, WriteLines

\* The clock moves, the server quiesces, or nothing happens.
LEMMA StillLines ==
    ASSUME ConsoleInv, LineInv, Tick \/ Quiesce \/ UNCHANGED vars PROVE LineInv'
<1>1. UNCHANGED <<tbl, written, landed, echoAt, kv, pc, req, cap, cur, nreq, ask, issued, answer,
                  got, pin>>
  BY DEF Tick, Quiesce, vars, sysVars
<1>2. SysInv /\ TabInv
  BY DEF LineInv
<1>3. quiesce' \in BOOLEAN /\ sec' \in 0 .. MaxSec
  <2>1. /\ quiesce' \in {quiesce, TRUE}
        /\ sec' = sec \/ (sec < MaxSec /\ sec' = sec + 1)
    BY DEF Tick, Quiesce, vars, sysVars
  <2>2. quiesce' \in BOOLEAN
    BY <1>2, <2>1 DEF SysInv
  <2>3. sec' \in 0 .. MaxSec
    BY <1>2, <2>1, DayInt DEF SysInv
  <2> QED
    BY <2>2, <2>3
<1>4. SysInv'
  BY <1>1, <1>2, <1>3 DEF SysInv
<1>5. TabInv'
  BY <1>1, <1>2 DEF TabInv
<1>6. Carries(tbl, ask, echoAt, tbl', ask', echoAt')
  BY <1>1, SameWorld
<1> QED
  BY <1>1, <1>4, <1>5, <1>6, WorldStep

LEMMA EvictLines ==
    ASSUME ConsoleInv, LineInv, NEW r \in Requests, Evict(r) PROVE LineInv'
<1>1. /\ kv' = [kv EXCEPT ![r] = NoCursor]
      /\ UNCHANGED <<sysVars, pc, req, cap, cur, nreq, ask, issued, answer, got, pin>>
  BY DEF Evict
<1>2. SysInv /\ TabInv
  BY DEF LineInv
<1>3. DOMAIN kv' = Requests /\ \A q \in Requests : kv'[q] \in {kv[q], NoCursor}
  BY <1>1, <1>2 DEF TabInv
<1>4. SysInv'
  BY <1>1, <1>2 DEF SysInv, sysVars
<1>5. TabInv'
  BY <1>1, <1>2, <1>3 DEF TabInv
<1>6. ASSUME NEW q \in Requests PROVE GotInv(q)' /\ KvInv(q)'
  <2>1. GotInv(q) /\ KvInv(q) /\ kv'[q] \in {kv[q], NoCursor}
    BY <1>3 DEF LineInv
  <2> QED
    BY <1>1, <2>1 DEF GotInv, KvInv, sysVars
<1>7. ASSUME NEW w \in Workers PROVE CapInv(w)' /\ CurInv(w)'
  <2>1. CapInv(w) /\ CurInv(w)
    BY DEF LineInv
  <2>2. CurInv(w)'
    BY <1>1, <2>1 DEF CurInv, sysVars
  <2>3. CASE pc[w] = "idle"
    <3>1. pc'[w] = "idle" /\ cap'[w] = cap[w]
      BY <1>1, <2>3
    <3>2. CapInv(w)'
      BY <2>1, <2>3, <3>1 DEF CapInv, Early, Capturing, Answering
    <3> QED
      BY <2>2, <3>2
  <2>4. CASE pc[w] # "idle"
    <3>1. PICK q \in Requests : q = req[w]
      BY <2>4 DEF ConsoleInv, ServedOnce
    <3>2. kv'[q] \in {kv[q], NoCursor}
      BY <1>3
    <3>3. CapInv(w)'
      BY <1>1, <2>1, <3>1, <3>2 DEF CapInv, sysVars
    <3> QED
      BY <2>2, <3>3
  <2> QED
    BY <2>2, <2>3, <2>4
<1> QED
  BY <1>4, <1>5, <1>6, <1>7 DEF LineInv

-----------------------------------------------------------------------------
\* What is behind an echo, in the words of the property.
LEMMA BlockBegins ==
    ASSUME NEW c, NEW s, NEW k, NEW o, NEW S, Behind(tbl, ask, echoAt, c, s, k, S),
           DOMAIN tbl = 1 .. Len(tbl),
           \/ Len(o) = 0
           \/ Unique(ask, echoAt, c, s) =>
                \A i : Echoing(tbl, i, c, s) => \A j \in 1 .. Len(o) : Block(tbl, i)[j] = o[j]
    PROVE  BeginsBlock(c, s, k, o)
<1> SUFFICES ASSUME Distinct(c, s), NEW i \in Echoes(tbl, c), tbl[i].sec = s
             PROVE  k <= Len(Block(tbl, i)) /\ \A j \in 1 .. Len(o) : o[j] = Block(tbl, i)[j]
  BY DEF BeginsBlock
<1>1. Unique(ask, echoAt, c, s)
  BY DEF Distinct, Unique
<1>2. Echoing(tbl, i, c, s)
  BY DEF Echoing, Echoes
<1>3. k <= Len(Block(tbl, i))
  BY <1>1, <1>2 DEF Behind, Within
<1> QED
  BY <1>1, <1>2, <1>3

\* What capture_response and collect_poll have returned, hold in their hands or have
\* stored in a cursor is always a beginning of the block behind the echo it belongs to,
\* as long as that echo is in the table and can be told from the others (consapi.c:
\* capture_response, collect_poll, consoleCollectHandler).
THEOREM LinesInvariant == Spec => [](ConsoleInv /\ LineInv)
<1>1. ConsoleInv /\ LineInv /\ [Next]_vars => LineInv'
  <2> SUFFICES ASSUME ConsoleInv, LineInv, [Next]_vars PROVE LineInv'
    OBVIOUS
  <2>1. ASSUME NEW w \in Workers, ReceiveIssue(w) \/ ReceiveCollect(w) \/ WorkerStep(w) \/ Abend(w)
        PROVE  LineInv'
    BY <2>1, ReceiveIssueLines, ReceiveCollectLines, GateLines, TryLockLines, IssueLines,
       AnchorAllocLines, PollLines, CapturedLines, DetectLines, ReplyLines, AbendLines,
       CollectGetLines, CollectPollLines, CollectSetLines DEF WorkerStep
  <2>2. CASE Environment
    BY <2>2, LandLines, EvictLines, WriteNoiseLines, StillLines DEF Environment
  <2>3. CASE Stopped \/ UNCHANGED vars
    BY <2>3, StillLines DEF Stopped
  <2> QED
    BY <2>1, <2>2, <2>3 DEF Next
<1> QED
  BY ConsoleInvariant, InitLines, <1>1, PTL DEF Spec

\* The lines, the count and the second of the echo that capture_response has come to
\* are those of one block, also when polls without a copy of the table, or polls that found
\* another echo, came between; the block keeps them while the table goes on, and so it
\* does the count of the cursor that consoleIssueHandler and consoleCollectHandler store.
THEOREM CapturesAreInOnePiece == Spec => []CaptureInOnePiece
<1>1. ConsoleInv /\ LineInv => CaptureInOnePiece
  <2> SUFFICES ASSUME ConsoleInv, LineInv PROVE CaptureInOnePiece
    OBVIOUS
  <2>0. DOMAIN tbl = 1 .. Len(tbl) /\ \A i \in 1 .. Len(tbl) : Len(Block(tbl, i)) \in Nat
    BY BlockRises DEF LineInv, SysInv, World, Rising
  <2>1. ASSUME NEW r \in Requests
        PROVE  /\ kv[r].delivered \in Nat /\ kv[r].sec \in -1 .. (Day - 1)
               /\ kv[r] # NoCursor => BeginsBlock(ask[r].cmd, kv[r].sec, kv[r].delivered, << >>)
    <3>1. CASE kv[r] = NoCursor
      BY <3>1, NoCursorFields, DayInt
    <3>2. CASE kv[r] # NoCursor
      <4>1. CursorOf(tbl, ask, echoAt, kv[r], ask[r].cmd, pin[r], got[r])
        BY <3>2 DEF LineInv, KvInv
      <4>2. Behind(tbl, ask, echoAt, ask[r].cmd, kv[r].sec, kv[r].delivered, Ids(got[r]))
        BY <4>1 DEF CursorOf
      <4>3. BeginsBlock(ask[r].cmd, kv[r].sec, kv[r].delivered, << >>)
        BY <2>0, <4>2, NoIds, BlockBegins
      <4> QED
        BY <4>2, <4>3 DEF Behind
    <3> QED
      BY <3>1, <3>2
  <2>2. TypeOK
    BY <2>1 DEF TypeOK, LineInv, SysInv, ConsoleInv, ProofTypes
  <2>3. ASSUME NEW w \in Workers, pc[w] \in Capturing \cup Answering
        PROVE  /\ cap[w].end = "answer" => cap[w].looked
               /\ cap[w].total > 0 => cap[w].sec >= 0
               /\ Len(cap[w].out) = IF cap[w].total < Cap THEN cap[w].total ELSE Cap
               /\ BeginsBlock(ask[req[w]].cmd, cap[w].sec, cap[w].total, cap[w].out)
    <3>1. /\ IsCapture(cap[w])
          /\ Held(tbl, ask, echoAt, ask[req[w]].cmd, cap[w].sec, cap[w].total, cap[w].out)
      BY <2>3 DEF LineInv, CapInv
    <3>2. BeginsBlock(ask[req[w]].cmd, cap[w].sec, cap[w].total, cap[w].out)
      BY <2>0, <3>1, BlockBegins DEF Held, Starts, Extends
    <3> QED
      BY <3>1, <3>2 DEF IsCapture, Held
  <2>4. {"poll", "release", "captured", "detect", "arm", "reply"} = Capturing \cup Answering
    BY DEF Capturing, Answering
  <2> QED
    BY <2>1, <2>2, <2>3, <2>4 DEF CaptureInOnePiece
<1> QED
  BY LinesInvariant, <1>1, PTL

\* Under one key no line is returned twice and none out of order, by the issue request
\* and any number of collects (consapi.c: collect_poll counts against the echo the key
\* was handed out for), for every table size, RESP_CAP, reply and interleaving.
THEOREM NoLineIsTwice == Spec => []NoLineTwice
<1>1. LineInv => NoLineTwice
  <2> SUFFICES ASSUME LineInv, NEW r \in Requests, Unambiguous(r),
                      NEW i \in DOMAIN got[r], NEW j \in DOMAIN got[r], i < j
               PROVE  got[r][i].n < got[r][j].n
    BY DEF NoLineTwice
  <2>1. GotInv(r)
    BY DEF LineInv
  <2>2. Unique(ask, echoAt, ask[r].cmd, pin[r])
    BY DEF Unambiguous, Distinct, Unique
  <2>3. DOMAIN got[r] = 1 .. Len(got[r]) /\ Increasing(got[r])
    BY <2>1, <2>2 DEF GotInv, IdSeq
  <2> QED
    BY <2>3 DEF Increasing
<1> QED
  BY LinesInvariant, <1>1, PTL
=============================================================================
