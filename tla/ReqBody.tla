------------------------------ MODULE ReqBody ------------------------------
(***************************************************************************)
(* Reading a request body into one buffer (src/reqbody.c): read_body with  *)
(* read_length for a Content-Length and read_chunked for a chunked body.   *)
(*                                                                         *)
(* The client's bytes are a sequence; recv answers fewer than asked only   *)
(* when the client has closed.  A byte is a hexadecimal digit, CR, LF or   *)
(* another one; data bytes may look like framing.  Storage may be refused  *)
(* at every request for it.                                                *)
(***************************************************************************)
EXTENDS Integers, Sequences

CONSTANTS
    Requests,    \* the requests: chunked, length (header or None), wire, and what a
                 \* client means by them: body, whole, wellFormed, lines and chunks
    BodyMax,     \* REQBODY_MAX, 2^24 in the code
    LineMax,     \* CHUNK_LINE_MAX, 10 in the code
    None

ASSUME BodyAssumption ==
    /\ BodyMax \in Nat \ {0}
    /\ LineMax \in Nat \ {0}

VARIABLES
    req,       \* the request
    wire,      \* the bytes the client has sent and nobody has read
    pc,
    buf,       \* the buffer, None when there is no block
    size,      \* bytes stored in it, which it keeps when storage is refused
    chunk,     \* size of the chunk being read
    nomem,     \* storage was refused
    reports,   \* calls of ops->nomem
    rc         \* the result

vars == <<req, wire, pc, buf, size, chunk, nomem, reports, rc>>

Init ==
    /\ req \in Requests
    /\ wire = req.wire
    /\ pc = "start"
    /\ buf = None
    /\ size = 0
    /\ chunk = 0
    /\ nomem = FALSE
    /\ reports = 0
    /\ rc = "none"

-----------------------------------------------------------------------------
(* Numbers and bytes. *)

Digits == [c \in {"0", "1", "2", "3", "4", "5", "6", "7", "8", "9"} |->
             CASE c = "0" -> 0 [] c = "1" -> 1 [] c = "2" -> 2 [] c = "3" -> 3
               [] c = "4" -> 4 [] c = "5" -> 5 [] c = "6" -> 6 [] c = "7" -> 7
               [] c = "8" -> 8 [] c = "9" -> 9]

IsDigit(c) == c \in DOMAIN Digits

\* strtoul with base 16: the value of the digits a line begins with, -1 when it
\* begins with none.
ChunkSize(line) ==
    LET n == CHOOSE k \in 0..Len(line) :
               /\ \A i \in 1..k : IsDigit(line[i])
               /\ k < Len(line) => ~IsDigit(line[k + 1])
        value[k \in 0..n] == IF k = 0 THEN 0 ELSE value[k - 1] * 16 + Digits[line[k]]
    IN  IF n = 0 THEN -1 ELSE value[n]

\* The digits of a header value, without the blanks around them.
Strip(s) ==
    LET solid == {i \in DOMAIN s : s[i] # " "}
        first == CHOOSE i \in solid : \A j \in solid : i <= j
        last  == CHOOSE i \in solid : \A j \in solid : j <= i
    IN  IF solid = {} THEN << >> ELSE SubSeq(s, first, last)

\* A defect that goes on accumulating: the value wraps in a word of 4 * BodyMax.
MutParseLength(s) ==
    LET d == Strip(s)
        value[k \in 0..Len(d)] ==
          IF k = 0 THEN 0
          ELSE (value[k - 1] * 10 + (IF IsDigit(d[k]) THEN Digits[d[k]] ELSE 0))
                 % (4 * BodyMax)
    IN  IF d = << >> \/ \E i \in DOMAIN d : ~IsDigit(d[i]) THEN -1 ELSE value[Len(d)]

\* parse_length: -1 for a malformed value; the accumulation stops at BodyMax.
ParseLength(s) ==
    LET d == Strip(s)
        value[k \in 0..Len(d)] ==
          IF k = 0 THEN 0
          ELSE IF value[k - 1] < BodyMax /\ IsDigit(d[k])
               THEN value[k - 1] * 10 + Digits[d[k]] ELSE value[k - 1]
    IN  IF d = << >> \/ \E i \in DOMAIN d : ~IsDigit(d[i]) THEN -1 ELSE value[Len(d)]

\* recv: what is left behind n bytes, or nothing when there are fewer.
Behind(n) == SubSeq(wire, n + 1, Len(wire))

CRs == {i \in DOMAIN wire : wire[i] = "CR"}
FirstCR == CHOOSE i \in CRs : \A j \in CRs : i <= j

-----------------------------------------------------------------------------
(* What a client sends. *)

Bytes == DOMAIN Digits \cup {"CR", "LF", " ", "x"}

\* The number that digits write.
Decimal(d) ==
    LET value[k \in 0..Len(d)] == IF k = 0 THEN 0 ELSE value[k - 1] * 10 + Digits[d[k]]
    IN  value[Len(d)]

\* A body with a Content-Length: the client sends it, or a beginning of it.
LengthSent(r) ==
    LET d == Strip(r.length)
    IN  /\ r.length \in Seq(Bytes)
        /\ r.wellFormed <=> d # << >> /\ \A i \in DOMAIN d : IsDigit(d[i])
        /\ r.wellFormed =>
             /\ Len(r.body) = Decimal(d)
             /\ r.wire = SubSeq(r.body, 1, Len(r.wire)) /\ Len(r.wire) <= Len(r.body)
             /\ r.whole <=> Len(r.wire) = Len(r.body)

\* A chunked body: for every chunk a size line, the chunk, and two bytes behind each of
\* them; at the end a line of size 0.  The line and the chunk begin at at[k] and off[k]
\* of the wire and of the body.  What is sent is cut off anywhere; the body is whole
\* with the CR of the last line.
ChunkedSent(r) ==
    LET last == Len(r.lines)
        end(k) == r.at[k] + Len(r.lines[k])
        sent(p, c) == p <= Len(r.wire) => r.wire[p] = c
    IN  /\ r.lines \in Seq(Seq(Bytes \ {"CR"})) /\ r.chunks \in Seq(Seq(Bytes))
        /\ last = Len(r.chunks) + 1
        /\ r.at \in [1..last -> Nat] /\ r.off \in [1..last -> 0..Len(r.body)]
        /\ r.at[1] = 0 /\ r.off[1] = 0 /\ r.off[last] = Len(r.body)
        /\ \A k \in DOMAIN r.chunks :
             /\ Len(r.chunks[k]) > 0 /\ ChunkSize(r.lines[k]) = Len(r.chunks[k])
             /\ r.at[k + 1] = end(k) + 2 + Len(r.chunks[k]) + 2
             /\ r.off[k + 1] = r.off[k] + Len(r.chunks[k])
             /\ \A i \in DOMAIN r.chunks[k] :
                  r.body[r.off[k] + i] = r.chunks[k][i] /\ sent(end(k) + 2 + i, r.chunks[k][i])
        /\ ChunkSize(r.lines[last]) = 0
        /\ \A k \in DOMAIN r.lines :
             /\ \A i \in DOMAIN r.lines[k] : sent(r.at[k] + i, r.lines[k][i])
             /\ sent(end(k) + 1, "CR")
        /\ r.wellFormed <=> \A k \in DOMAIN r.lines : Len(r.lines[k]) <= LineMax - 2
        /\ r.whole <=> Len(r.wire) >= end(last) + 1
        /\ Len(r.wire) <= end(last) + 4

ASSUME RequestsAssumption ==
    \A r \in Requests :
      /\ r.wire \in Seq(Bytes) /\ r.body \in Seq(Bytes)
      /\ r.chunked \in BOOLEAN /\ r.whole \in BOOLEAN /\ r.wellFormed \in BOOLEAN
      /\ \A n \in 0..Len(r.body) : SubSeq(r.body, 1, n) # None
      /\ r.chunked => ChunkedSent(r)
      /\ ~r.chunked /\ r.length # None => LengthSent(r)
      /\ ~r.chunked /\ r.length = None => ~r.wellFormed

-----------------------------------------------------------------------------
(* The steps. *)

Finish(code) ==
    /\ pc' = "done"
    /\ rc' = code

\* Release the buffer and give the code up.
Fail(code) ==
    /\ Finish(IF nomem THEN "NOMEM" ELSE code)
    /\ buf' = None

\* ops->nomem, and no buffer from here on.
NoStorage ==
    /\ reports' = reports + 1
    /\ buf' = None
    /\ nomem' = TRUE

\* read_body: chunked wins over a Content-Length.
Start ==
    /\ pc = "start"
    /\ \/ /\ req.chunked
          /\ pc' = "line"
          /\ UNCHANGED <<rc, chunk>>
       \/ /\ ~req.chunked /\ req.length = None
          /\ Finish("BAD")
          /\ UNCHANGED chunk
       \/ /\ ~req.chunked /\ req.length # None
          /\ chunk' = ParseLength(req.length)
          /\ IF chunk' < 0 THEN Finish("BAD")
             ELSE IF chunk' >= BodyMax THEN Finish("TOO_LARGE")
             ELSE pc' = "body" /\ UNCHANGED rc
    /\ UNCHANGED <<req, wire, buf, size, nomem, reports>>

\* read_length: one block of the exact size; refused, the body is drained.
Body ==
    /\ pc = "body"
    /\ \/ /\ Len(wire) >= chunk
          /\ buf' = SubSeq(wire, 1, chunk)
          /\ Finish("OK")
          /\ UNCHANGED <<nomem, reports>>
       \/ /\ Len(wire) < chunk
          /\ Fail("BAD")
          /\ UNCHANGED <<nomem, reports>>
       \/ /\ NoStorage
          /\ Finish("NOMEM")
    /\ size' = IF rc' = "OK" THEN chunk ELSE size
    /\ wire' = Behind(chunk)
    /\ UNCHANGED <<req, chunk>>

\* The chunk-size line, up to its CR, and the LF.
SizeLine ==
    /\ pc = "line"
    /\ IF CRs = {} \/ FirstCR >= LineMax
       THEN /\ Fail("BAD")
            /\ wire' = Behind(LineMax - 1)
            /\ UNCHANGED chunk
       ELSE LET value == ChunkSize(SubSeq(wire, 1, FirstCR - 1))
            IN  /\ wire' = Behind(FirstCR + 1)
                /\ \/ /\ value < 0
                      /\ Fail("BAD")
                      /\ UNCHANGED chunk
                   \/ /\ value >= BodyMax - size
                      /\ Fail("TOO_LARGE")
                      /\ UNCHANGED chunk
                   \/ /\ value \in 0..(BodyMax - size - 1)
                      /\ chunk' = value
                      /\ pc' = IF value = 0 THEN "last" ELSE "grow"
                      /\ UNCHANGED <<buf, rc>>
    /\ UNCHANGED <<req, size, nomem, reports>>

\* A defect: without storage the body is given up at once.
MutGrow ==
    /\ pc = "grow"
    /\ ~nomem
    /\ \/ /\ pc' = "data"
          /\ buf' = IF buf = None THEN << >> ELSE buf
          /\ UNCHANGED <<nomem, reports, rc>>
       \/ NoStorage /\ Finish("NOMEM")
    /\ UNCHANGED <<req, wire, size, chunk>>

\* The buffer grows by the chunk; once storage was refused it is not asked for.
Grow ==
    /\ pc = "grow"
    /\ pc' = "data"
    /\ \/ nomem /\ UNCHANGED <<buf, nomem, reports>>
       \/ /\ ~nomem
          /\ buf' = IF buf = None THEN << >> ELSE buf
          /\ UNCHANGED <<nomem, reports>>
       \/ ~nomem /\ NoStorage
    /\ UNCHANGED <<req, wire, size, chunk, rc>>

\* The chunk is read or drained, and so is the CRLF behind it.
Data ==
    /\ pc = "data"
    /\ IF Len(wire) >= chunk + 2
       THEN /\ buf' = IF nomem THEN None ELSE buf \o SubSeq(wire, 1, chunk)
            /\ size' = IF nomem THEN size ELSE size + chunk
            /\ pc' = "line"
            /\ UNCHANGED rc
       ELSE Fail("BAD") /\ UNCHANGED size
    /\ wire' = Behind(chunk + 2)
    /\ UNCHANGED <<req, chunk, nomem, reports>>

\* The chunk of size 0: the CRLF behind it, then the result; an empty body is
\* still a body.
LastChunk ==
    /\ pc = "last"
    /\ wire' = Behind(2)
    /\ \/ /\ nomem
          /\ Finish("NOMEM")
          /\ UNCHANGED <<buf, nomem, reports>>
       \/ /\ ~nomem
          /\ buf' = IF buf = None THEN << >> ELSE buf
          /\ Finish("OK")
          /\ UNCHANGED <<nomem, reports>>
       \/ /\ ~nomem /\ buf = None
          /\ NoStorage
          /\ Finish("NOMEM")
    /\ UNCHANGED <<req, size, chunk>>

\* The caller has the result.
Done == pc = "done" /\ UNCHANGED vars

Next == Start \/ Body \/ SizeLine \/ Grow \/ Data \/ LastChunk \/ Done

Spec == Init /\ [][Next]_vars

\* The reader's task runs on; recv waits for a slow client and returns.
FairSpec == Spec /\ WF_vars(Next)

-----------------------------------------------------------------------------
(* Properties. *)

\* The buffer never reaches REQBODY_MAX bytes, and a block has exactly the bytes
\* that size counts (reqbody.c: read_chunked).
TypeOK ==
    /\ pc \in {"start", "body", "line", "grow", "data", "last", "done"}
    /\ size \in 0..(BodyMax - 1)
    /\ buf # None => Len(buf) = size
    /\ nomem \in BOOLEAN
    /\ rc \in {"none", "OK", "BAD", "NOMEM", "TOO_LARGE"}

\* What a correct reader makes of a request: the body it carries, if it is
\* whole, well formed and fits.
Intact == req.whole /\ req.wellFormed /\ Len(req.body) < BodyMax

\* read_body answers OK with exactly the body the client sent, whatever the
\* data bytes look like, and only for a body that was whole; and it refuses an
\* intact body for want of storage only (reqbody.h:REQBODY_*).  At no time does it
\* hold more than the limit, however the chunks add up.
BodyExact ==
    /\ TypeOK
    /\ pc = "done" =>
         /\ rc = "OK" => Intact /\ buf = req.body
         /\ Intact => rc \in {"OK", "NOMEM"}

\* The buffer is handed over with OK and with nothing else, and storage was
\* refused exactly when NOMEM is answered, which the operator is told once per
\* request (reqbody.h: nomem).
NoBufferLost ==
    pc = "done" =>
      /\ (buf # None) <=> (rc = "OK")
      /\ (rc = "NOMEM") <=> (reports = 1)
      /\ reports <= 1

\* After NOMEM the rest of an intact body has been read and thrown away
\* (reqbody.h:15-19), so that closing the socket does not reset the answer away.
DrainedForAnswer ==
    pc = "done" /\ rc \in {"OK", "NOMEM"} /\ Intact => wire = << >>

\* A body that is refused for want of storage leaves no buffer, is reported once and
\* is drained.
RefusalIsClean == NoBufferLost /\ DrainedForAnswer

\* The reader has come to a result.
ReadEnded == pc = "done"
=============================================================================
