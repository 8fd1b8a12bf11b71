------------------------------ MODULE MttBlock ------------------------------
(***************************************************************************)
(* How the console handlers find the answer to a command in one copy of    *)
(* the Master Trace Table (correlate_once in src/consapi.c).               *)
(*                                                                         *)
(* A line of the table is a record:                                        *)
(*   sec    the second of the day it is stamped with, -1 when it has none  *)
(*   src    its source field; Own is that of mvsMF's address space, Blank  *)
(*          an empty one, Raw a continuation line's, which has none        *)
(*   shape  "cmd": its first word has no digit (is_command_shaped),        *)
(*          "msg": a message, "cont": a raw continuation line              *)
(*   text   the command, for a line of shape "cmd"                         *)
(*   num    the message number: the last word of a header (0 when that is  *)
(*          no number), the first word of a continuation line              *)
(*   id     history: its number `n' in the order of writing, and the       *)
(*          request `of' whose command wrote it (0 for none)               *)
(***************************************************************************)
EXTENDS Integers, Sequences

CONSTANTS
    Day,      \* seconds per day
    Cap       \* lines that fit into the response text (RESP_CAP)

Own == "own"
Blank == "blank"
Raw == "raw"

\* is_echo_line: the text of the line is the command, nothing more.
IsEcho(e, cmd) == e.shape = "cmd" /\ e.text = cmd

Echoes(t, cmd) == {i \in DOMAIN t : IsEcho(t[i], cmd)}

\* The newest echo when no second is wanted, else the oldest one stamped with
\* it; 0 when there is none.
EchoIndex(t, cmd, want) ==
    LET those == IF want < 0 THEN Echoes(t, cmd)
                 ELSE {i \in Echoes(t, cmd) : t[i].sec = want}
    IN  IF those = {} THEN 0
        ELSE CHOOSE i \in those : \A j \in those : IF want < 0 THEN j <= i ELSE i <= j

\* One line of the walk behind the echo: `echo' is the echo the walk started from, `b' the walk so far, `e' the line.
WalkLine(echo, b, e) ==
    LET issuer  == e.src = echo.src
        blank   == e.src = Blank
        cont    == b.num # 0 /\ e.shape = "cont" /\ e.num = b.num
        mine    == e.src = b.src
        foreign == ~mine /\ ~blank /\ ~cont
        \* The reply to a command for another address space comes under the
        \* source of the target: the first foreign line in the second of the
        \* echo or the next one, while the block has no line.
        adopt   == /\ foreign
                   /\ b.lines = << >>
                   /\ ~b.adopted
                   /\ echo.sec >= 0 /\ e.sec >= 0
                   /\ (e.sec - echo.sec) % Day <= 1
    IN  CASE b.ended -> b
          [] ~b.ended /\ ~cont /\ issuer /\ e.shape = "cmd" -> [b EXCEPT !.ended = TRUE]
          [] ~b.ended /\ ~cont /\ ~issuer /\ blank /\ e.shape = "cmd" -> b
          [] OTHER ->
               IF foreign /\ ~adopt
               THEN [b EXCEPT !.ended = (b.lines # << >>)]
               ELSE [b EXCEPT !.lines = Append(@, e.id),
                              !.num = IF e.num = 0 THEN @ ELSE e.num,
                              !.src = IF adopt THEN e.src ELSE @,
                              !.adopted = @ \/ adopt]

\* The lines of the block behind the echo at index ei.
Block(t, ei) ==
    LET walk[i \in ei..Len(t)] ==
          IF i = ei
          THEN [src |-> t[ei].src, num |-> 0, adopted |-> FALSE, ended |-> FALSE,
                lines |-> << >>]
          ELSE WalkLine(t[ei], walk[i - 1], t[i])
    IN  walk[Len(t)].lines

\* A defect that returns one line of what was delivered before again.
MutCorrelate(t, cmd, want, skip) ==
    LET ei    == EchoIndex(t, cmd, want)
        lines == IF ei = 0 THEN << >> ELSE Block(t, ei)
        from  == IF skip > 0 THEN skip ELSE 1
    IN  [total |-> Len(lines),
         sec   |-> IF ei = 0 THEN -1 ELSE t[ei].sec,
         out   |-> SubSeq(lines, from, IF Len(lines) < from - 1 + Cap THEN Len(lines)
                                       ELSE from - 1 + Cap)]

\* correlate_once: the block's length, its echo's second, and the lines behind
\* the first `skip' as far as the response text has room.
Correlate(t, cmd, want, skip) ==
    LET ei    == EchoIndex(t, cmd, want)
        lines == IF ei = 0 THEN << >> ELSE Block(t, ei)
    IN  [total |-> Len(lines),
         sec   |-> IF ei = 0 THEN -1 ELSE t[ei].sec,
         out   |-> SubSeq(lines, skip + 1, IF Len(lines) < skip + Cap THEN Len(lines)
                                           ELSE skip + Cap)]
=============================================================================
