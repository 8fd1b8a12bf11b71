------------------------------ MODULE JobCard ------------------------------
(***************************************************************************)
(* The JOB statement of a submitted job: how mvsMF finds it, clears it of  *)
(* credentials, and continues it onto a card with the caller's own         *)
(* (src/jobcard.c and process_jobcard in src/jobsapi.c).                   *)
(*                                                                         *)
(* A line is its kind, its operands and whether a comma ends it; an        *)
(* operand is its keyword, its value and its width in columns.  The        *)
(* keyword search of the code (quotes, operand boundaries) is what makes a *)
(* line a sequence of operands.  A line with a comment field is not        *)
(* modelled.                                                               *)
(***************************************************************************)
EXTENDS Integers, Sequences, SequencesExt

CONSTANTS
    Users,      \* user ids
    SYSUID,     \* the symbol &SYSUID
    PLACEHOLDER,\* the user the added NOTIFY names
    LastCol,    \* the last column of data: 71
    JobHead,    \* width of the name and verb of a JOB statement
    Indent,     \* width of // and the blanks of a continuation: 11
    UserW       \* width of a user id, and of a password

Keys == {"POS", "CLASS", "NOTIFY", "USER", "PASSWORD"}
Operand == [key : Keys, val : Users \cup {SYSUID, PLACEHOLDER, ""}, w : Nat]
Line == [kind : {"job", "cont", "stmt", "data", "blank"}, ops : Seq(Operand), comma : BOOLEAN]

BlankLine == [kind |-> "blank", ops |-> << >>, comma |-> FALSE]
Op(key, val, w) == [key |-> key, val |-> val, w |-> w]

\* The column the line ends in.
Width(line) ==
    IF line.kind = "blank" THEN 0
    ELSE (IF line.kind = "job" THEN JobHead ELSE Indent)
         + FoldLeft(LAMBDA n, o : n + o.w, 0, line.ops)
         + (IF line.ops = << >> THEN 0 ELSE Len(line.ops) - 1)
         + (IF line.comma THEN 1 ELSE 0)

\* The first JOB statement; 0 when there is none.
CardStart(lines) == SelectInSeq(lines, LAMBDA l : l.kind = "job")

\* Its last line: a line continues when it ends with a comma and a line of // and
\* blanks follows.
CardEnd(lines, s) ==
    CHOOSE e \in s .. Len(lines) :
        /\ \A i \in s .. e - 1 : lines[i].comma /\ lines[i + 1].kind = "cont"
        /\ ~(e < Len(lines) /\ lines[e].comma /\ lines[e + 1].kind = "cont")

\* Every occurrence of a keyword goes with one comma: the one behind it, else
\* the one in front.  Only an operand alone on its line takes the last comma along.
StripOperand(line, key) ==
    LET rest == SelectSeq(line.ops, LAMBDA o : o.key # key)
    IN  IF rest = line.ops THEN line
        ELSE [line EXCEPT !.ops = rest, !.comma = @ /\ rest # << >>]

\* A continuation left with nothing is blanked, which the submit loops skip.
StripCredentials(line, first) ==
    LET l == StripOperand(StripOperand(line, "USER"), "PASSWORD")
    IN  IF ~first /\ l.ops = << >> THEN BlankLine ELSE l

\* The first NOTIFY of a line; 0 when there is none.
FindNotify(line) == SelectInSeq(line.ops, LAMBDA o : o.key = "NOTIFY")
HasNotify(line) == FindNotify(line) # 0
NamesSysuid(line) == HasNotify(line) /\ line.ops[FindNotify(line)].val = SYSUID

\* NOTIFY=&SYSUID becomes NOTIFY=user.
SetNotify(line, user) ==
    [line EXCEPT !.ops[FindNotify(line)] = Op("NOTIFY", user, 7 + UserW)]

\* The last line must end with a comma in column 71 at most: it has one, or there is
\* room for one, or its last operand moves to a card of its own.
Refused == [rc |-> "toolong", line |-> BlankLine, moved |-> << >>]
Continue(line) ==
    IF line.kind = "blank" \/ line.comma THEN [rc |-> "ok", line |-> line, moved |-> << >>]
    ELSE IF Width(line) < LastCol
    THEN [rc |-> "ok", line |-> [line EXCEPT !.comma = TRUE], moved |-> << >>]
    ELSE IF Width(line) > LastCol \/ Len(line.ops) < 2 \/ Indent + Last(line.ops).w + 1 > LastCol
    THEN Refused
    ELSE [rc |-> "ok",
          line |-> [line EXCEPT !.ops = Front(@), !.comma = TRUE],
          moved |-> <<[kind |-> "cont", ops |-> <<Last(line.ops)>>, comma |-> TRUE]>>]

\* The card added behind the statement; PASSWORD stays last, and a NOTIFY is added
\* when the statement has none.
CredentialCard(user, notify) ==
    [kind |-> "cont",
     ops |-> (IF notify THEN << >> ELSE <<Op("NOTIFY", PLACEHOLDER, 13)>>)
             \o <<Op("USER", user, 5 + UserW), Op("PASSWORD", user, 9 + UserW)>>,
     comma |-> FALSE]
ShortMarker == 11

NoCard == [rc |-> "nocard", lines |-> << >>]
TooLong == [rc |-> "toolong", lines |-> << >>]

\* process_jobcard: the lines that go to the internal reader, or why none do.
ProcessJobcard(lines, user) ==
    LET s == CardStart(lines) IN
    IF s = 0 THEN NoCard
    ELSE LET e == CardEnd(lines, s)
             bare == [i \in 1 .. Len(lines) |->
                        IF i \in s .. e THEN StripCredentials(lines[i], i = s) ELSE lines[i]]
             sysuid == {i \in s .. e : NamesSysuid(bare[i])}
             first == CHOOSE i \in sysuid : \A j \in sysuid : i <= j
             card == [i \in 1 .. Len(lines) |->
                        IF sysuid # {} /\ i = first THEN SetNotify(bare[i], user) ELSE bare[i]]
             last == Continue(card[e])
             added == CredentialCard(user, \E i \in s .. e : HasNotify(bare[i]))
         IN  IF \/ sysuid # {} /\ Width(card[first]) > LastCol
                \/ last.rc # "ok"
                \/ Width(added) + ShortMarker > LastCol
             THEN TooLong
             ELSE [rc |-> "ok",
                   lines |-> SubSeq(card, 1, e - 1) \o <<last.line>> \o last.moved \o <<added>>
                             \o SubSeq(card, e + 1, Len(card))]

\* Empty lines are not written to the internal reader.
Cards(lines) == SelectSeq(lines, LAMBDA l : l.kind # "blank")

-----------------------------------------------------------------------------
(* What JES2 reads: external. *)

\* The last card of the first job: the next JOB statement ends it.
FirstJob(cards) ==
    LET s == CardStart(cards)
        n == CardStart(SubSeq(cards, s + 1, Len(cards)))
    IN  IF n = 0 THEN Len(cards) ELSE s + n - 1

\* The operands of the JOB statement as the converter collects them.
Statement(cards) ==
    LET s == CardStart(cards)
        e == CardEnd(cards, s)
    IN  IF s = 0 THEN << >>
        ELSE FlattenSeq([i \in 1 .. e - s + 1 |-> cards[s + i - 1].ops])

\* A comma right behind the verb is part of the verb: no JOB statement is left.
Recognised(cards) ==
    LET s == CardStart(cards) IN s # 0 /\ ~(cards[s].ops = << >> /\ cards[s].comma)

\* What the code promises of a card it accepts: the operands the client wrote, less
\* credentials, in their order, then one NOTIFY if there was none, and the caller's
\* credentials; all in columns up to 71 where the code wrote the line.
Given(lines) ==
    LET stmt == Statement(lines)
    IN  SelectSeq(stmt, LAMBDA o : o.key \notin {"USER", "PASSWORD"})
KeysOf(ops) == [i \in DOMAIN ops |-> ops[i].key]
NamesOnly(cards, user) ==
    LET stmt == Statement(cards)
    IN  \A i \in DOMAIN stmt : stmt[i].key \in {"USER", "PASSWORD"} => stmt[i].val = user
Behind(cards) ==
    LET s == CardStart(cards) IN SubSeq(cards, CardEnd(cards, s) + 1, Len(cards))
Carries(cards, lines, user) ==
    LET stmt == Statement(cards)
        notify == \E i \in DOMAIN Given(lines) : Given(lines)[i].key = "NOTIFY"
    IN  /\ KeysOf(stmt) = KeysOf(Given(lines))
                          \o (IF notify THEN << >> ELSE <<"NOTIFY">>) \o <<"USER", "PASSWORD">>
        /\ \A i \in DOMAIN cards : cards[i].kind = "cont" => Width(cards[i]) <= LastCol
        /\ Behind(cards) = Cards(Behind(lines))

\* The decks of which the code can say so: the line of the first JOB statement has an
\* operand besides credentials; and, for whom the deck runs as, there is one statement.
Keeps(lines) ==
    LET s == CardStart(lines)
    IN  s # 0 /\ \E i \in DOMAIN lines[s].ops : lines[s].ops[i].key \notin {"USER", "PASSWORD"}
Vouched(lines) ==
    /\ Keeps(lines)
    /\ \A i, j \in DOMAIN lines : lines[i].kind = "job" /\ lines[j].kind = "job" => i = j
=============================================================================
