----------------------------- MODULE MCReqBody -----------------------------
(***************************************************************************)
(* Requests for the body reader: chunked bodies of up to two chunks, whose *)
(* data bytes may be a CR, with size lines of one to three digits, cut off *)
(* anywhere; and bodies with a Content-Length.                             *)
(***************************************************************************)
EXTENDS ReqBody, SequencesExt

Data1 == {<<c>> : c \in {"x", "CR"}}
ChunkData == Data1 \cup {a \o b : a, b \in Data1}
Chunks == {<< >>} \cup {<<a>> : a \in ChunkData} \cup {<<a, b>> : a, b \in ChunkData}

Zeros(n) == [i \in 1..n |-> "0"]
Digit(n) == CASE n = 0 -> "0" [] n = 1 -> "1" [] n = 2 -> "2"
CRLF == <<"CR", "LF">>

\* The body in chunks, every size with z leading zeros.
Encode(chunks, z) ==
    FlattenSeq([i \in DOMAIN chunks |->
                  Zeros(z) \o <<Digit(Len(chunks[i]))>> \o CRLF \o chunks[i] \o CRLF])
      \o Zeros(z) \o <<"0">> \o CRLF \o CRLF

\* The CRLF behind the last size line may be missing.
ChunkedRequest(chunks, z, cut) ==
    LET full == Encode(chunks, z)
        last == Len(chunks) + 1
        before(k) == FlattenSeq(SubSeq(chunks, 1, k - 1))
    IN  [chunked |-> TRUE, length |-> None, wire |-> SubSeq(full, 1, cut),
         body |-> FlattenSeq(chunks), whole |-> cut >= Len(full) - 3,
         wellFormed |-> z + 1 <= LineMax - 2,
         lines |-> [k \in 1..last |-> Zeros(z) \o <<Digit(IF k = last THEN 0 ELSE Len(chunks[k]))>>],
         chunks |-> chunks,
         at |-> [k \in 1..last |-> Len(before(k)) + (k - 1) * (z + 5)],
         off |-> [k \in 1..last |-> Len(before(k))]]

ChunkedRequests ==
    UNION {{ChunkedRequest(c, z, cut) : cut \in 0..Len(Encode(c, z))} :
             c \in Chunks, z \in 0..2}

\* Header values and what they mean; -1 for a malformed one.
Lengths == {<< <<"0">>, 0>>, << <<"3">>, 3>>, << <<" ", "2", " ">>, 2>>,
            << <<"0", "1">>, 1>>, << <<"1", "7">>, 17>>, << <<"1", "6", "0">>, 160>>,
            << << >>, -1>>, << <<" ">>, -1>>, << <<"x">>, -1>>, << <<"1", " ", "1">>, -1>>}

LengthRequest(l, sent) ==
    [chunked |-> FALSE, length |-> l[1], wire |-> [i \in 1..sent |-> "x"],
     body |-> [i \in 1..(IF l[2] < 0 THEN 0 ELSE l[2]) |-> "x"],
     whole |-> sent = l[2], wellFormed |-> l[2] >= 0]

LengthRequests ==
    {LengthRequest(l, sent) : l \in {k \in Lengths : k[2] < 0 \/ k[2] >= 3}, sent \in 0..3}
      \cup UNION {{LengthRequest(l, sent) : sent \in 0..l[2]} :
                    l \in {k \in Lengths : k[2] \in 0..2}}

\* Neither chunked nor a length.
NoBody == [chunked |-> FALSE, length |-> None, wire |-> <<"x">>, body |-> << >>,
           whole |-> FALSE, wellFormed |-> FALSE]

MCRequests == ChunkedRequests \cup LengthRequests \cup {NoBody}
=============================================================================
