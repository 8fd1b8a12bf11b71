------------------------------ MODULE MCParts ------------------------------
(***************************************************************************)
(* The sequential parts of a request, each in behaviours of its own: the   *)
(* body reader, the send loop, the paged listings, the framing of a text   *)
(* body and the table of a JCL deck.  The variable part says which of them *)
(* a behaviour is about; the variables of the others keep their values.    *)
(***************************************************************************)
EXTENDS MCReqBody, SendAll

CONSTANTS
    Width, Universe, Level, Queries, PatternMax, Word, MaxChanges, NoValue,
    Texts, Formats,
    Initial, IntMax, MaxLines

ASSUME FrameAssumption ==
    /\ \A t \in Texts : t \in Seq(Range(t) \ {"end"})
    /\ \A f \in Formats : f.lrecl \in Nat
ASSUME DeckAssumption == Initial \in Nat \ {0} /\ IntMax \in Nat /\ MaxLines \in Nat

VARIABLES
    part,
    query, names, always, ever, from, got, lst, changes,
    text, whole, format, rl, records,
    heap, made, lines, linesBuf, capacity, numLines, table

List  == INSTANCE Listing
Frame == INSTANCE Framing
Deck  == INSTANCE JclLines

listVars  == <<query, names, always, ever, from, got, lst, changes>>
frameVars == <<text, whole, format, rl, records>>
deckVars  == <<heap, made, lines, linesBuf, capacity, numLines, table>>
allVars   == <<part, vars, sendVars, listVars, frameVars, deckVars>>

-----------------------------------------------------------------------------
(* The instances. *)

\* A response of five buffers, one of them empty.
MCBuffers == <<2, 0, 4, 1, 3>>

\* Names of one, two and three characters: the level and what is below it.
MCLevel == <<1>>
MCUniverse == << <<1>>, <<1, 1, 1>>, <<1, 2>>, <<1, 2, 1>>, <<1, 2, 2>> >>

\* No start=, a blank one, a name, and values that are longer than a name.
MCStarts == {NoValue, <<0>>, <<1, 2, 0>>, <<1, 2, 1, 1>>, <<1, 1, 1, 2>>}

\* Limits and styles with which a client comes on; -1 arrives as Word - 1.
MCPages == {[max |-> 0, style |-> "after"], [max |-> 1, style |-> "after"],
            [max |-> 2, style |-> "again"], [max |-> Word - 1, style |-> "after"]}

Query(kind, start, pattern, p) ==
    [kind |-> kind, start |-> start, pattern |-> pattern, max |-> p.max, style |-> p.style]

\* A blank pattern, one below the start, one that is too long, and those where a star has to give way.
MCPatterns == {<<0>>, <<1, -1>>, <<1, 2, -1, 1>>}
StarPatterns == {p \in [1..3 -> {1, 2, -1, -2}] : -1 \in {p[1], p[2]} /\ p[3] # -1}

MCQueries ==
    {Query("ds", s, NoValue, p) : s \in MCStarts, p \in MCPages}
      \cup {Query("mb", s, NoValue, p) : s \in MCStarts, p \in MCPages}
      \cup {Query("mb", <<1, 2, 0>>, pat, p) : pat \in MCPatterns, p \in MCPages}
      \cup {Query("mb", NoValue, pat, [max |-> 1, style |-> "after"]) : pat \in StarPatterns}

MCTexts == UNION {[1..n -> {"a", "LF", "CR"}] : n \in 0..6}
MCFormats == {[recfm |-> "F", lrecl |-> 2], [recfm |-> "V", lrecl |-> 5],
              [recfm |-> "VS", lrecl |-> 11], [recfm |-> "V", lrecl |-> 4]}

-----------------------------------------------------------------------------

AnyQuery == CHOOSE q \in Queries : TRUE

\* A part that the behaviour is not about has one initial state.
PartsInit ==
    /\ part \in {"read", "send", "list", "frame", "deck"}
    /\ part = "read" \/ req = NoBody
    /\ part = "send" \/ stopping = FALSE
    /\ part = "list" \/ (query = AnyQuery /\ names = {})
    /\ part = "frame" \/ (whole = << >> /\ format = [recfm |-> "F", lrecl |-> 2])
    /\ Init /\ SendInit /\ List!Init /\ Frame!Init /\ Deck!Init

ReadStep ==
    part = "read" /\ Next /\ UNCHANGED <<part, sendVars, listVars, frameVars, deckVars>>
SendOn ==
    part = "send" /\ Loop /\ UNCHANGED <<part, vars, listVars, frameVars, deckVars>>
SendOther ==
    /\ part = "send" /\ (Quiesce \/ Returned)
    /\ UNCHANGED <<part, vars, listVars, frameVars, deckVars>>
ListStep ==
    part = "list" /\ List!Step /\ UNCHANGED <<part, vars, sendVars, frameVars, deckVars>>
ListOther ==
    /\ part = "list" /\ (List!Fail \/ List!Change \/ List!Listed)
    /\ UNCHANGED <<part, vars, sendVars, frameVars, deckVars>>
FrameStep ==
    part = "frame" /\ Frame!Next /\ UNCHANGED <<part, vars, sendVars, listVars, deckVars>>
DeckStep ==
    part = "deck" /\ Deck!Next /\ UNCHANGED <<part, vars, sendVars, listVars, frameVars>>

PartsNext ==
    ReadStep \/ SendOn \/ SendOther \/ ListStep \/ ListOther \/ FrameStep \/ DeckStep

\* The fairness of the parts: their task runs on, and a client that is told of
\* more rows asks for them.  A behaviour has one part, so one condition will do.
Work == ReadStep \/ SendOn \/ ListStep \/ FrameStep \/ DeckStep

PartsSpec == PartsInit /\ [][PartsNext]_allVars /\ WF_allVars(Work)

-----------------------------------------------------------------------------
(* The properties of the parts. *)

\* Listing!ListingExact: page by page the client gets what was there all the time,
\* once and in order (dsapi.c: datasetListHandler, member_scan).
ListingExact == List!ListingExact

\* Framing!FramedExact: a record for every line, and a cut is reported
\* (reclines.c: recline_put, recline_flush).
FramedExact == Frame!FramedExact

\* JclLines!TableWhole: the table of lines survives a failed reallocation and is
\* freed once (jclines.c: grow_lines_arrays).
TableWhole == Deck!TableWhole

\* Each part comes to its end: the reader to a result wherever the client stops
\* (reqbody.c: read_body); every send call returns however long the client takes
\* nothing (#298); a page that says there is more brings the client on, also with a
\* limit the counter wraps at (dsapi.c: member_scan); every byte of a text is framed;
\* and the table of a deck is freed.
PartsEnd ==
    <>(/\ part = "read" => ReadEnded
       /\ part = "send" => SendEnded
       /\ part = "list" => List!ListingEnded
       /\ part = "frame" => text = <<"end">>
       /\ part = "deck" => table = "freed")
=============================================================================
