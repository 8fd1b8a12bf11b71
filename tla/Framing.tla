------------------------------ MODULE Framing ------------------------------
(***************************************************************************)
(* A text body becomes records (src/reclines.c, src/reclimit.c): byte by   *)
(* byte, because a chunk of the body may end anywhere, also between the CR *)
(* and the LF of a pair.                                                   *)
(***************************************************************************)
EXTENDS Integers, Sequences, FiniteSets

CONSTANTS
    Texts,      \* the bodies, sequences of bytes
    Formats     \* recfm and eff_lrecl of the data sets

VARIABLES
    text,       \* the bytes that are still to come
    whole,      \* the body
    format,
    rl,         \* RECLINE: buf, pending_lf and truncated
    records     \* the records written

frameVars == <<text, whole, format, rl, records>>

\* reclim_content_max: a record descriptor takes 4 bytes of a variable record, and
\* the segment descriptors of a spanned one 8.
ContentMax(f) ==
    LET overhead == CASE f.recfm = "V" -> 4 [] f.recfm = "VS" -> 8 [] OTHER -> 0
    IN  IF f.lrecl > overhead THEN f.lrecl - overhead ELSE 0

\* recline_init, for a record that holds something; others are refused before.
Init ==
    /\ whole \in Texts
    /\ text = whole
    /\ format \in {f \in Formats : ContentMax(f) > 0}
    /\ rl = [buf |-> << >>, pending |-> FALSE, truncated |-> FALSE]
    /\ records = << >>

Terminators == {"LF", "CR"}

\* A defect that forgets the CR when another terminator follows it.
MutPut(r, c) ==
    IF c \in Terminators
      THEN [rl |-> [r EXCEPT !.buf = << >>, !.pending = FALSE],
            rec |-> <<IF r.buf = << >> THEN <<" ">> ELSE r.buf>>]
    ELSE IF Len(r.buf) >= ContentMax(format)
      THEN [rl |-> [r EXCEPT !.pending = FALSE, !.truncated = TRUE], rec |-> << >>]
    ELSE [rl |-> [r EXCEPT !.buf = Append(@, c), !.pending = FALSE], rec |-> << >>]

\* recline_put: the LF of a pair is swallowed, a terminator ends the record, which
\* is a blank when the line is empty, and a byte too many is dropped.
Put(r, c) ==
    IF r.pending /\ c = "LF" THEN [rl |-> [r EXCEPT !.pending = FALSE], rec |-> << >>]
    ELSE IF c \in Terminators
      THEN [rl |-> [r EXCEPT !.buf = << >>, !.pending = (c = "CR")],
            rec |-> <<IF r.buf = << >> THEN <<" ">> ELSE r.buf>>]
    ELSE IF Len(r.buf) >= ContentMax(format)
      THEN [rl |-> [r EXCEPT !.pending = FALSE, !.truncated = TRUE], rec |-> << >>]
    ELSE [rl |-> [r EXCEPT !.buf = Append(@, c), !.pending = FALSE], rec |-> << >>]

Byte ==
    /\ text # << >> /\ Head(text) # "end"
    /\ rl' = Put(rl, Head(text)).rl
    /\ records' = records \o Put(rl, Head(text)).rec
    /\ text' = Tail(text)
    /\ UNCHANGED <<whole, format>>

\* recline_flush: a last line without a terminator is a record.
Flush ==
    /\ text = << >>
    /\ text' = <<"end">>
    /\ records' = IF rl.buf = << >> THEN records ELSE Append(records, rl.buf)
    /\ rl' = [rl EXCEPT !.buf = << >>]
    /\ UNCHANGED <<whole, format>>

Framed == text = <<"end">> /\ UNCHANGED frameVars

Next == Byte \/ Flush \/ Framed

-----------------------------------------------------------------------------
(* Properties. *)

\* The bytes of the body that end a line: an LF that belongs to its CR does not.
Ends == {i \in DOMAIN whole : \/ whole[i] = "CR"
                              \/ whole[i] = "LF" /\ (i = 1 \/ whole[i - 1] # "CR")}

\* What of its line is in front of byte i: all behind the last terminator.
LineTo(i) ==
    LET start == CHOOSE s \in 1..i : /\ s = 1 \/ whole[s - 1] \in Terminators
                                     /\ \A j \in s..(i - 1) : whole[j] \notin Terminators
    IN  SubSeq(whole, start, i - 1)

\* The record of a line: cut at what a record holds, and a blank for an empty one.
Record(line) ==
    LET max == ContentMax(format)
    IN  IF line = << >> THEN <<" ">>
        ELSE SubSeq(line, 1, IF Len(line) > max THEN max ELSE Len(line))

\* There is a record for every line of the body, in their order, and one for what
\* is behind the last, if there is anything; nothing is lost, joined or split, and a
\* cut is reported (reclines.h: the rules).
FramedExact ==
    text = <<"end">> =>
      LET rank(e) == Cardinality({d \in Ends : d <= e})
          rest == LineTo(Len(whole) + 1)
      IN  /\ Len(records) = Cardinality(Ends) + (IF rest = << >> THEN 0 ELSE 1)
          /\ \A e \in Ends : records[rank(e)] = Record(LineTo(e))
          /\ rest # << >> => records[Len(records)] = Record(rest)
          /\ rl.truncated <=> \E i \in 1..(Len(whole) + 1) : Len(LineTo(i)) > ContentMax(format)
=============================================================================
