----------------------------- MODULE MttDetect -----------------------------
(***************************************************************************)
(* Unsolicited-message detection: a place in the Master Trace Table taken  *)
(* when a command is issued (mtt_detect_anchor), and the polls that look   *)
(* for matches behind that place (mtt_detect_since, consoleDetectHandler). *)
(*                                                                         *)
(* The table is a window: new lines push the oldest out.  A line carries   *)
(* the second of the day and no date; a continuation line carries no time  *)
(* and takes that of the line before it.  The place is therefore a second  *)
(* of the day and the number of matches that already carry it.             *)
(*                                                                         *)
(* `seq' and `at' of an entry are history: its number in the order of      *)
(* writing and its true second.  The code sees of `at' what Stamp says.    *)
(* `seq', `at' and `known' of a detection are what was true at the anchor. *)
(* ShortSpan is the assumption of mttsnap.c:152-154 ("the window holds     *)
(* minutes"): the lines that are compared lie within half a day.           *)
(***************************************************************************)
EXTENDS Integers, Sequences, FiniteSets

CONSTANTS
    Window,       \* lines the table holds
    Day,          \* seconds per day, 86400
    Half,         \* "later" reaches this far ahead, 43200
    DetectSecs,   \* detect-time
    MaxTime,      \* bound on the clock
    MaxLines,     \* bound on the lines written
    ShortSpan     \* table and anchor reach back less than Half

ASSUME DetectAssumption ==
    /\ {Window, Day, Half, MaxTime, MaxLines} \subseteq Nat
    /\ DetectSecs \in Nat \ {0}
    /\ Window > 0
    /\ Half > 0
    /\ Day = 2 * Half
    /\ ShortSpan \in BOOLEAN

VARIABLES
    time,     \* the clock, in seconds
    tbl,      \* the table, oldest line first
    written,  \* number of lines written so far
    det,      \* the SOL_DETECTION: not taken, anchored, or armed (stored)
    status    \* the answer of the last request

vars == <<time, tbl, written, det, status>>

NoDetection == [secs |-> -1, same |-> 0, anchor_hi |-> 0, stage |-> "none",
                seq |-> 0, at |-> 0, known |-> 0]

Entry == [at : Nat, seq : Nat, stamped : BOOLEAN, hit : BOOLEAN]

Init ==
    /\ time = 0
    /\ tbl = << >>
    /\ written = 0
    /\ det = NoDetection
    /\ status = "none"

-----------------------------------------------------------------------------
(* mttsnap.c *)

\* mtt_secs_of_day
Stamp(e) == IF e.stamped THEN e.at % Day ELSE -1

\* `cur' when the scan stands on line i: the time of the last stamped line up
\* to i, -1 when there is none.
TimeOf(t, i) ==
    LET stamped == {j \in 1..i : t[j].stamped}
    IN  IF stamped = {} THEN -1
        ELSE Stamp(t[CHOOSE j \in stamped : \A k \in stamped : k <= j])

\* A defect that counts the matches of the whole table at the anchor.
MutAnchor(t) ==
    [secs |-> TimeOf(t, Len(t)),
     same |-> Cardinality({i \in 1..Len(t) : t[i].hit})]

\* mtt_detect_anchor: the newest time, and the matches since the scan reached it.
Anchor(t) ==
    LET newest == TimeOf(t, Len(t))
    IN  [secs |-> newest,
         same |-> Cardinality({i \in 1..Len(t) :
                                 /\ newest >= 0
                                 /\ t[i].hit
                                 /\ \A j \in i..Len(t) : TimeOf(t, j) = newest})]

\* mtt_detect_since: the matches it counts as new.
Since(t, a) ==
    {i \in 1..Len(t) :
       /\ TimeOf(t, i) >= 0
       /\ t[i].hit
       /\ \/ a.secs < 0
          \/ LET delta == (TimeOf(t, i) - a.secs + Day) % Day
                 same  == Cardinality({j \in 1..i : t[j].hit /\ TimeOf(t, j) = a.secs})
             IN  IF delta = 0 THEN same > a.same ELSE delta < Half}

-----------------------------------------------------------------------------
(* The system. *)

\* The true second of the line the anchor's time comes from.
NewestAt(t) ==
    LET stamped == {j \in DOMAIN t : t[j].stamped}
    IN  IF stamped = {} THEN time
        ELSE t[CHOOSE j \in stamped : \A k \in stamped : k <= j].at

\* The matches that carry the newest second.
InNewest(t) ==
    {i \in DOMAIN t : t[i].hit /\ TimeOf(t, i) >= 0 /\ TimeOf(t, i) = TimeOf(t, Len(t))}

\* A console line is written; the table drops its oldest line when it is full.
\* A continuation line follows the line it continues.
WriteLine(stamped, hit) ==
    /\ written < MaxLines
    /\ ~stamped => tbl # << >>
    /\ LET e == [at |-> time, seq |-> written + 1, stamped |-> stamped, hit |-> hit]
           t == Append(tbl, e)
       IN  tbl' = IF Len(t) > Window THEN Tail(t) ELSE t
    /\ written' = written + 1
    /\ UNCHANGED <<time, det, status>>

Tick ==
    /\ time < MaxTime
    /\ ShortSpan => /\ tbl # << >> => time + 1 - tbl[1].at < Half
                    /\ det.stage # "none" => time + 1 - det.at < Half
    /\ time' = time + 1
    /\ UNCHANGED <<tbl, written, det, status>>

\* The issue request takes the anchor; without a copy of the table it ends
\* (500, 8/14).
TakeAnchor ==
    /\ det.stage = "none"
    /\ \/ /\ det' = [NoDetection EXCEPT !.secs = Anchor(tbl).secs,
                                        !.same = Anchor(tbl).same,
                                        !.stage = "anchored", !.seq = written,
                                        !.at = NewestAt(tbl),
                                        !.known = Cardinality(InNewest(tbl))]
          /\ UNCHANGED status
       \/ /\ status' = "error"
          /\ UNCHANGED det
    /\ UNCHANGED <<time, tbl, written>>

\* After the capture of the response, which may fail, the detection is stored;
\* its window starts now.
Arm ==
    /\ det.stage = "anchored"
    /\ \/ /\ det' = [det EXCEPT !.stage = "armed", !.anchor_hi = time]
          /\ status' = "armed"
       \/ /\ det' = NoDetection
          /\ status' = "error"
    /\ UNCHANGED <<time, tbl, written>>

\* consoleDetectHandler
Poll ==
    /\ \/ /\ det.stage # "armed"
          /\ status' = "unknown key"
       \/ /\ det.stage = "armed"
          /\ status' = "error"                      \* no copy of the table
       \/ /\ det.stage = "armed"
          /\ status' = IF Since(tbl, det) # {} THEN "detected"
                       ELSE IF time - det.anchor_hi > DetectSecs THEN "expired"
                       ELSE "waiting"
    /\ UNCHANGED <<time, tbl, written, det>>

\* The store evicts the detection.
Evict ==
    /\ det.stage = "armed"
    /\ det' = NoDetection
    /\ UNCHANGED <<time, tbl, written, status>>

Next ==
    \/ \E stamped, hit \in BOOLEAN : WriteLine(stamped, hit)
    \/ Tick
    \/ TakeAnchor
    \/ Arm
    \/ Poll
    \/ Evict

Spec == Init /\ [][Next]_vars

-----------------------------------------------------------------------------
(* Properties. *)

\* The table is never longer than its window, and an anchor is a second of the day
\* or -1 (mttsnap.c: mtt_detect_anchor).
TypeOK ==
    /\ time \in 0..MaxTime
    /\ Len(tbl) <= Window
    /\ \A i \in DOMAIN tbl : tbl[i] \in Entry
    /\ written \in 0..MaxLines
    /\ det.secs \in -1..(Day - 1)
    /\ det.same \in 0..Window
    /\ status \in {"none", "armed", "error", "unknown key", "detected", "expired",
                   "waiting"}

\* The matches that were written after the anchor was taken, and whose time
\* can be told.
Fresh == {i \in DOMAIN tbl : tbl[i].hit /\ tbl[i].seq > det.seq /\ TimeOf(tbl, i) >= 0}

\* How many of the matches in the anchor's second have left the table (or lost
\* the line that gave them their time).
Forgotten ==
    IF det.secs < 0 THEN 0
    ELSE det.known - Cardinality({i \in DOMAIN tbl :
        tbl[i].hit /\ tbl[i].seq <= det.seq /\ TimeOf(tbl, i) = det.secs})

\* mtt_detect_since counts only matches written after the anchor, and misses at
\* most as many as the table has dropped of those in the anchor's second
\* (mttsnap.c:175-213), whatever wrapped: the table, the clock at midnight or
\* both.
CountIsExact ==
    det.stage # "none" =>
      /\ Since(tbl, det) \subseteq Fresh
      /\ Cardinality(Since(tbl, det)) + Forgotten >= Cardinality(Fresh)

\* "A matching message is in the table that is newer than the anchor taken at
\* issue" (docs/endpoints/console/detections.md:26): a poll answers "detected"
\* only then, and "expired" or "waiting" only when every newer match carries
\* the anchor's own second.
StatusIsRight ==
    [][Poll =>
        /\ status' = "detected" => Fresh # {}
        /\ status' \in {"expired", "waiting"} =>
             \A i \in Fresh : det.secs >= 0 /\ TimeOf(tbl, i) = det.secs]_vars

\* A detection counts what is newer than its anchor and answers by that count
\* (mttsnap.c: mtt_detect_since, consapi.c: consoleDetectHandler).
DetectionsRight == [](TypeOK /\ CountIsExact) /\ StatusIsRight
=============================================================================
