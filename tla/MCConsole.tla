----------------------------- MODULE MCConsole -----------------------------
(***************************************************************************)
(* Small instances of the console: a command for another address space,    *)
(* whose answer has to be told from other messages, and one without reply. *)
(***************************************************************************)
EXTENDS Console, TLC

Line(src, shape, multi) == [src |-> src, shape |-> shape, multi |-> multi]

\* F UFSD,STATS is answered under the source of the target, and K S not at all.
MCReplies ==
    [c \in {"K S", "F UFSD"} |->
       IF c = "K S" THEN << >> ELSE <<Line("ufsd", "msg", FALSE)>>]

\* A message of another address space, which may be taken for the answer, and one that
\* the target of the command writes of its own accord.
MCNoise == {[src |-> "other", shape |-> "msg"], [src |-> "ufsd", shape |-> "msg"]}

Plain == [async |-> FALSE, unsol |-> "no"]
MCPlain == {Plain}
MCDetecting == {[async |-> FALSE, unsol |-> "sync"], [async |-> TRUE, unsol |-> "async"]}

WorkerSymmetry == Permutations(Workers)
=============================================================================
