------------------------------ MODULE DataSets ------------------------------
(***************************************************************************)
(* The data set and member handlers (src/dsapi.c) of several httpd workers *)
(* on one catalog.  A handler is the sequence of its service calls, one    *)
(* step each: another worker may change the data set between the catalog   *)
(* check, the ETag pass, the output open, each record and the close.       *)
(*                                                                         *)
(* A stamp is the content it was computed over.  Record framing is in      *)
(* module Framing, listing and paging in module Listing.                   *)
(***************************************************************************)
EXTENDS Integers, Sequences

CONSTANTS
    Workers,     \* httpd worker tasks
    Names,       \* data set names
    Members,     \* member names
    Fixed,       \* the names whose data sets are fixed: a record count is known
    Spanned,     \* the names whose data sets are spanned
    Users,
    Perm,        \* Perm[u][d]: the authority of u over d, 0..3
    Recs,        \* records of a body
    Long,        \* the ones longer than the record length
    Catalog,     \* the organization of each name at the start
    Requests,    \* the requests clients send
    MaxRequests, \* bound on the number of requests
    MaxFaults,   \* bound on I/O errors, lost connections and abends
    None

READ == 1
UPDATE == 2
ALTER == 3

Targets == Names \X (Members \cup {None})

\* A stored record; a long one is stored cut.  Residue is what a read past the
\* logical end of a fixed data set returns, and Broken the first part of a record that
\* libc370 has stored in a spanned data set as if it were all of it.
Stored(body) == [i \in DOMAIN body |-> [rec |-> body[i], cut |-> body[i] \in Long]]
Stores == [rec : Recs \cup {None}, cut : BOOLEAN]
Residue == [rec |-> None, cut |-> FALSE]
Broken == [rec |-> None, cut |-> TRUE]
Contents == Seq(Stores) \cup {None}

ASSUME DataSetsAssumption ==
    /\ Fixed \subseteq Names /\ Spanned \subseteq Names \ Fixed /\ Long \subseteq Recs
    /\ Perm \in [Users -> [Names -> 0 .. 3]]
    /\ Catalog \in [Names -> {"none", "PS", "PO"}]
    /\ None \notin Members /\ None \notin Recs /\ None \notin Names
    /\ Recs \ Long # {} /\ Members # {} /\ None \notin Requests /\ None \notin Seq(Stores)
    /\ None \notin Targets
    /\ MaxRequests \in Nat /\ MaxFaults \in Nat
    /\ Requests \subseteq
         [op : {"dsGet", "dsPut", "dsRename", "dsCreate", "dsDelete",
                "mbGet", "mbPut", "mbRename", "mbDelete", "mbList"},
          t : Targets, from : Targets \cup {None}, user : Users, vol : {None, "this", "other"},
          mode : {"text", "binary"}, body : Seq(Recs), chunked : BOOLEAN,
          cond : BOOLEAN,       \* If-Match or If-None-Match with the stamp held
          etag : BOOLEAN,       \* X-IBM-Return-Etag
          flaw : {"none", "name", "header"}]   \* a bad name or body, a bad header
    \* A member request names a member; both names of a member rename are in one library.
    /\ \A r \in Requests :
         /\ r.t[2] # None <=> r.op \in {"mbGet", "mbPut", "mbRename", "mbDelete"}
         /\ r.op = "dsRename" => r.from \in Targets /\ r.from[2] = None
         /\ r.op = "mbRename" => r.from \in Targets /\ r.from[1] = r.t[1] /\ r.from[2] # None

VARIABLES
    cat,    \* catalog and VTOC: the organization of each name
    data,   \* what is on the volume
    rq,     \* the request of each worker
    held,   \* the last stamp each client was given
    count,  \* requests so far
    faults  \* faults so far

vars == <<cat, data, rq, held, count, faults>>

Steps == {"idle", "gate", "pcount", "hash", "bcount", "open", "read", "catalog",
          "probe", "match", "alloc", "body", "record", "finish", "close", "written",
          "scount", "stamp", "answer", "locate", "act"}

Answers == {"none", "200", "201", "204", "304", "denied", "400", "404", "412",
            "500", "abend"}

\* One request: where it is, the bound of its read pass, the stamp it computed,
\* its open file, the records framed, the new extents of a member, whether a
\* record was cut or the member created, and its answer.  For the properties: blind,
\* whether the member that was created was there; err, whether a stamp pass failed.  Of the
\* others: was, what the target would hold without this request; dirty, whether one
\* changed the target since the last look this one took at it; gone, whether one
\* removed it since.
NoRequest == [pc |-> "idle", r |-> None, max |-> -1, stamp |-> None, got |-> None,
              was |-> None, fp |-> "none", buf |-> FALSE, framed |-> FALSE, n |-> 0, out |-> << >>,
              cut |-> FALSE, create |-> FALSE, blind |-> FALSE, ans |-> "none", dirty |-> FALSE,
              gone |-> FALSE, err |-> FALSE]

NoStamp == [t |-> None, stamp |-> None, dirty |-> FALSE]

\* Every client has read what is there at the start.
Init ==
    /\ cat = Catalog
    /\ data \in [Targets -> {None, Stored(<<CHOOSE x \in Recs \ Long : TRUE>>)}]
    /\ \A t \in Targets : data[t] # None <=>
         \/ cat[t[1]] = "PS" /\ t[2] = None
         \/ cat[t[1]] = "PO" /\ t[2] = CHOOSE m \in Members : TRUE
    /\ rq = [w \in Workers |-> NoRequest]
    /\ held \in [Workers -> {NoStamp} \cup
                   {[t |-> t, stamp |-> data[t], dirty |-> FALSE] :
                      t \in {u \in Targets : data[u] # None}}]
    /\ count = 0 /\ faults = 0

-----------------------------------------------------------------------------
(* Steps of a worker. *)

R(w) == rq[w].r
T(w) == rq[w].r.t
At(w, op, step) == rq[w].pc = step /\ rq[w].r.op = op

\* The worker goes on; nothing on the volume changes.
Go(w, new) ==
    /\ rq' = [rq EXCEPT ![w] = new]
    /\ UNCHANGED <<cat, data>>

\* The worker goes on and the targets C now hold what new says: whoever looked
\* at one of them before has looked at something else.
Change(w, new, C, contents) ==
    /\ data' = [t \in Targets |-> IF t \in C THEN contents[t] ELSE data[t]]
    /\ rq' = [v \in Workers |->
                IF v = w THEN new
                ELSE IF rq[v].r # None /\ rq[v].r.t \in C
                     THEN [rq[v] EXCEPT !.dirty = TRUE, !.was = contents[rq[v].r.t],
                                        !.gone = @ \/ contents[rq[v].r.t] = None]
                     ELSE rq[v]]
    /\ held' = [v \in Workers |->
                  IF held[v].t \in C THEN [held[v] EXCEPT !.dirty = TRUE] ELSE held[v]]

To(w, step) == [rq[w] EXCEPT !.pc = step]
Answer(w, a) == [rq[w] EXCEPT !.pc = "answer", !.ans = a]

Same == UNCHANGED <<held, count, faults>>
Fault == faults < MaxFaults /\ faults' = faults + 1
NoFault == UNCHANGED faults

\* httpd has no lock on a data set; a scratch or a rename waits for its opens.
InUse(w, d) == \E v \in Workers \ {w} :
                  rq[v].fp # "none" /\ rq[v].r.t[1] = d

-----------------------------------------------------------------------------
(* Helpers of the handlers. *)

\* require_access
RequireAccess(w, d, attr) == Perm[R(w).user][d] >= attr

Cataloged(d) == cat[d] # "none"   \* dataset_cataloged: __locate
IsPds(d) == cat[d] = "PO"         \* is_pds: __locate and the DSCB

\* volume_gate: the answer, or "pass".  All data sets are on one volume.
VolumeGate(w, d) ==
    IF R(w).vol = None \/ (Cataloged(d) /\ R(w).vol = "this") THEN "pass" ELSE "404"

\* The gates every handler but the create passes first, and what the handler
\* then answers or does next.  A name that is too long is refused before them.
Gate(w, op, d, attr, next) ==
    /\ At(w, op, "gate")
    /\ Go(w, IF R(w).flaw = "name" THEN Answer(w, "400")
             ELSE IF ~RequireAccess(w, d, attr) THEN Answer(w, "denied")
             ELSE IF VolumeGate(w, d) # "pass" THEN Answer(w, VolumeGate(w, d))
             ELSE next)
    /\ Same

\* A data type, a length or a pattern that is refused, after the gates.
Headers(w, next) == IF R(w).flaw = "header" THEN Answer(w, "400") ELSE next

\* get_fb_record_count: from the VTOC, for a fixed data set.  It counts whole blocks: a
\* fixed data set of this module has one record to the block.
FbRecordCount(t) == IF data[t] # None /\ t[1] \in Fixed /\ t[2] = None
                    THEN Len(data[t]) ELSE -1

\* A read to the end of the file, or to max records.
ReadPass(t, max) ==
    LET phys == IF t[1] \in Fixed /\ t[2] = None
                THEN Append(data[t], Residue) ELSE data[t]
    IN  IF max >= 0 /\ max < Len(phys) THEN SubSeq(phys, 1, max) ELSE phys

MutDatasetEtag(w) == IF data[T(w)] = None THEN None ELSE ReadPass(T(w), -1)

\* A read of a data set with a broken record ends in an abend.
Unreadable(t) == data[t] # None /\ \E i \in DOMAIN data[t] : data[t][i] = Broken

\* dataset_etag: a stamp over what one read pass returns; none after an I/O
\* error or when the open fails.
DatasetEtag(w) == IF data[T(w)] = None THEN None ELSE ReadPass(T(w), rq[w].max)

Etag(w, ok, failed) ==
    /\ \/ ~Unreadable(T(w)) /\ Go(w, ok) /\ NoFault
       \/ Unreadable(T(w)) /\ Go(w, Answer(w, "abend")) /\ NoFault
       \/ data[T(w)] # None /\ Go(w, [failed EXCEPT !.err = TRUE]) /\ Fault
    /\ UNCHANGED <<held, count>>

\* The bound is read first, in a step of its own; a member has none.
Count(w, op, step, next) ==
    /\ At(w, op, step)
    /\ Go(w, [To(w, next) EXCEPT !.max = FbRecordCount(T(w)), !.dirty = FALSE])
    /\ Same

\* diagnose_open_failure and send_open_failure
OpenFailure(t) ==
    IF ~Cataloged(t[1]) THEN "404"
    ELSE IF t[2] = None THEN "500"
    ELSE IF ~IsPds(t[1]) THEN "400"
    ELSE IF data[t] = None THEN "404" ELSE "500"

-----------------------------------------------------------------------------
(* A request comes in. *)

Accept(w) ==
    /\ rq[w].pc = "idle" /\ count < MaxRequests
    /\ \E r \in Requests :
         /\ r.cond => held[w].t = r.t
         /\ Go(w, [NoRequest EXCEPT !.pc = IF r.op = "dsCreate" THEN "locate" ELSE "gate",
                                    !.r = r, !.was = data[r.t]])
    /\ count' = count + 1
    /\ UNCHANGED <<held, faults>>

\* The response; a client that was given a stamp keeps it.
Respond(w) ==
    /\ rq[w].pc = "answer"
    /\ held' = IF rq[w].ans \in {"200", "204"} /\ rq[w].stamp # None
               THEN [held EXCEPT ![w] = [t |-> T(w), stamp |-> rq[w].stamp,
                                         dirty |-> rq[w].dirty]]
               ELSE held
    /\ rq' = [rq EXCEPT ![w] = NoRequest]
    /\ UNCHANGED <<cat, data, count, faults>>

-----------------------------------------------------------------------------
(* Reading: datasetGetHandler, memberGetHandler, memberListHandler. *)

Conditional(w) == R(w).cond \/ R(w).etag

MutDsGetGate(w) ==
    /\ At(w, "dsGet", "gate")
    /\ Go(w, IF IsPds(T(w)[1]) THEN Answer(w, "400")
             ELSE IF ~RequireAccess(w, T(w)[1], READ) THEN Answer(w, "denied")
             ELSE To(w, IF Conditional(w) THEN "pcount" ELSE "bcount"))
    /\ Same

DsGetGate(w) ==
    Gate(w, "dsGet", T(w)[1], READ,
         IF IsPds(T(w)[1]) THEN Answer(w, "400")
         ELSE Headers(w, To(w, IF Conditional(w) THEN "pcount" ELSE "bcount")))

MbGetGate(w) ==
    Gate(w, "mbGet", T(w)[1], READ,
         Headers(w, [To(w, IF Conditional(w) THEN "hash" ELSE "open") EXCEPT !.dirty = FALSE]))

\* The stamp for ETag and If-None-Match, before the body is opened.
Hashed(w, next, stamp) ==
    IF stamp # None /\ R(w).cond /\ stamp = held[w].stamp
    THEN [Answer(w, "304") EXCEPT !.stamp = stamp]
    ELSE [To(w, next) EXCEPT !.stamp = stamp]

DsGetCount(w) == Count(w, "dsGet", "pcount", "hash")

DsGetHash(w) ==
    /\ At(w, "dsGet", "hash")
    /\ Etag(w, Hashed(w, "bcount", DatasetEtag(w)), Hashed(w, "bcount", None))

MbGetHash(w) ==
    /\ At(w, "mbGet", "hash")
    /\ Etag(w, Hashed(w, "open", DatasetEtag(w)), Hashed(w, "open", None))

\* A binary read is bounded by a second look at the record count.
DsGetBound(w) ==
    /\ At(w, "dsGet", "bcount")
    /\ Go(w, [To(w, "open") EXCEPT
                !.max = IF R(w).mode = "binary" THEN FbRecordCount(T(w)) ELSE -1])
    /\ Same

OpenToRead(w, op) ==
    /\ At(w, op, "open")
    /\ \/ data[T(w)] # None /\ Go(w, [To(w, "read") EXCEPT !.fp = "read"]) /\ NoFault
       \/ Go(w, Answer(w, OpenFailure(T(w)))) /\ IF data[T(w)] = None THEN NoFault ELSE Fault
    /\ UNCHANGED <<held, count>>

DsGetOpen(w) == OpenToRead(w, "dsGet")
MbGetOpen(w) == OpenToRead(w, "mbGet")

\* read_and_send_dataset and the close.  fgets stops at the logical end, fread
\* at the bound; after an I/O error the connection is aborted.
ReadAndSend(w) ==
    /\ rq[w].pc = "read" /\ rq[w].fp = "read"
    /\ \/ /\ ~Unreadable(T(w))
          /\ Go(w, [Answer(w, "200") EXCEPT
                      !.fp = "none",
                      !.got = IF R(w).mode = "text" THEN data[T(w)]
                              ELSE ReadPass(T(w), rq[w].max)])
          /\ NoFault
       \/ /\ Go(w, [Answer(w, "abend") EXCEPT !.fp = "none"])
          /\ IF Unreadable(T(w)) THEN NoFault ELSE Fault
    /\ UNCHANGED <<held, count>>

\* memberListHandler: the directory is only opened when require_pds passed.
MbListGate(w) ==
    Gate(w, "mbList", T(w)[1], READ,
         Headers(w, IF ~Cataloged(T(w)[1]) THEN Answer(w, "404")
                    ELSE IF ~IsPds(T(w)[1]) THEN Answer(w, "400") ELSE To(w, "open")))

MbListOpen(w) ==
    /\ At(w, "mbList", "open")
    /\ Go(w, IF ~Cataloged(T(w)[1]) THEN Answer(w, "404")
             ELSE IF ~IsPds(T(w)[1]) THEN Answer(w, "abend")
             ELSE [To(w, "act") EXCEPT !.fp = "dir"])
    /\ Same

MbListScan(w) ==
    /\ At(w, "mbList", "act")
    /\ \/ Go(w, [Answer(w, "200") EXCEPT !.fp = "none"]) /\ NoFault
       \/ Go(w, [Answer(w, "abend") EXCEPT !.fp = "none"]) /\ Fault
    /\ UNCHANGED <<held, count>>

-----------------------------------------------------------------------------
(* Writing: datasetPutHandler and memberPutHandler. *)

DsPutGate(w) ==
    Gate(w, "dsPut", T(w)[1], UPDATE,
         IF IsPds(T(w)[1]) THEN Answer(w, "400") ELSE Headers(w, To(w, "probe")))

\* The data set must be there and supplies the DCB: an output open of a name
\* that is not cataloged would allocate it.
DsPutProbe(w) ==
    /\ At(w, "dsPut", "probe")
    /\ \/ /\ data[T(w)] # None /\ NoFault
          /\ Go(w, [To(w, IF R(w).cond THEN "pcount" ELSE "alloc") EXCEPT !.gone = FALSE])
       \/ Go(w, Answer(w, "404")) /\ IF data[T(w)] = None THEN NoFault ELSE Fault
    /\ UNCHANGED <<held, count>>

MbPutGate(w) == Gate(w, "mbPut", T(w)[1], UPDATE, Headers(w, To(w, "catalog")))

MbPutCatalog(w) ==
    /\ At(w, "mbPut", "catalog")
    /\ Go(w, IF ~Cataloged(T(w)[1]) THEN Answer(w, "404")
             ELSE [To(w, IF R(w).cond THEN "match" ELSE "probe") EXCEPT !.gone = FALSE,
                                                                        !.dirty = FALSE])
    /\ Same

\* check_if_match: a target that cannot be read fails the condition too.  The
\* look at a data set began with its record count.
CheckIfMatch(w, next) ==
    Etag(w, IF DatasetEtag(w) # None /\ DatasetEtag(w) = held[w].stamp
            THEN [To(w, next) EXCEPT !.dirty = @ /\ T(w)[2] = None]
            ELSE Answer(w, "412"),
         Answer(w, "412"))

DsPutCount(w) == Count(w, "dsPut", "pcount", "match")
DsPutMatch(w) == At(w, "dsPut", "match") /\ CheckIfMatch(w, "alloc")
MbPutMatch(w) == At(w, "mbPut", "match") /\ CheckIfMatch(w, "probe")

\* open_write_target: the output open.  It empties a sequential data set at once
\* and a name that is gone is allocated again; a member keeps its content until
\* the close.
OpenWriteTarget(w, new) ==
    LET t == T(w)
        opened == [new EXCEPT !.fp = "write", !.out = << >>, !.dirty = FALSE]
    IN  \/ /\ t[2] = None /\ cat[t[1]] # "PO"
           /\ cat' = [cat EXCEPT ![t[1]] = "PS"]
           /\ Change(w, opened, {t}, [data EXCEPT ![t] = << >>])
        \/ /\ t[2] # None /\ cat[t[1]] = "PO"
           /\ rq' = [rq EXCEPT ![w] = opened]
           /\ UNCHANGED <<cat, data, held>>

\* The open fails; a member of a name that is gone leaves a data set behind.
OpenWriteFails(w, new) ==
    LET d == T(w)[1]
    IN  \/ /\ T(w)[2] # None /\ cat[d] = "none"
           /\ cat' = [cat EXCEPT ![d] = "PS"]
           /\ Change(w, new, {<<d, None>>}, [data EXCEPT ![<<d, None>>] = << >>])
           /\ NoFault
        \/ /\ (T(w)[2] # None) # (cat[d] = "PO")
           /\ cat[d] # "none"
           /\ Go(w, new) /\ UNCHANGED held /\ NoFault
        \/ Go(w, new) /\ UNCHANGED held /\ Fault

\* A member that can be opened supplies the DCB.  Every other is taken for one to create
\* and opened for output here, and so is one that is there when the open fails.
MbPutProbe(w) ==
    LET there == data[T(w)] # None
        made == [To(w, "alloc") EXCEPT !.create = TRUE, !.blind = there]
        failed == Answer(w, OpenFailure(<<T(w)[1], None>>))
    IN  /\ At(w, "mbPut", "probe")
        /\ \/ there /\ Go(w, To(w, "alloc")) /\ UNCHANGED <<held, faults>>
           \/ OpenWriteTarget(w, made) /\ IF there THEN Fault ELSE NoFault
           \/ ~there /\ OpenWriteFails(w, failed)
           \/ there /\ Go(w, failed) /\ UNCHANGED held /\ Fault
        /\ UNCHANGED count

\* The end of the access method: the close of a member stows what was written,
\* fewer records when the last block did not fit.
CloseTarget(w, new, keep) ==
    LET t == T(w)
        out == IF keep < Len(rq[w].out) THEN SubSeq(rq[w].out, 1, keep) ELSE rq[w].out
    IN  IF rq[w].fp = "write" /\ (t[2] # None \/ keep < Len(rq[w].out))
        THEN /\ Change(w, [new EXCEPT !.fp = "none"], {t}, [data EXCEPT ![t] = out])
             /\ UNCHANGED cat
        ELSE Go(w, [new EXCEPT !.fp = "none"]) /\ UNCHANGED held

\* The error returns: free the buffer, close, 500.
PutFails(w) ==
    CloseTarget(w, [Answer(w, "500") EXCEPT !.buf = FALSE], Len(rq[w].out))

MutPutAlloc(w) ==
    /\ rq[w].pc = "alloc"
    /\ \/ Go(w, [To(w, "body") EXCEPT !.buf = TRUE]) /\ UNCHANGED <<held, faults>>
       \/ Go(w, Answer(w, "500")) /\ UNCHANGED held /\ Fault
    /\ UNCHANGED count

\* The record buffer.
PutAlloc(w) ==
    /\ rq[w].pc = "alloc"
    /\ \/ Go(w, [To(w, "body") EXCEPT !.buf = TRUE]) /\ UNCHANGED <<held, faults>>
       \/ PutFails(w) /\ Fault
    /\ UNCHANGED count

\* Where the n-th record of a writer goes: each has its own position.
WriteAt(s, n, rec) == [i \in 1 .. n |-> IF i = n THEN rec
                                        ELSE IF i <= Len(s) THEN s[i] ELSE Residue]

\* write_record and flush_record on an open target.  In a spanned data set the record
\* may end up broken, and the write still succeeds.
WriteRecord(w, n) ==
    \E rec \in {Stored(R(w).body)[n]} \cup (IF T(w)[1] \in Spanned THEN {Broken} ELSE {}) :
      LET new == [To(w, "body") EXCEPT !.n = n, !.out = Append(@, rec),
                                       !.cut = @ \/ R(w).body[n] \in Long]
      IN  IF T(w)[2] = None
          THEN /\ Change(w, new, {T(w)}, [data EXCEPT ![T(w)] = WriteAt(@, n, rec)])
               /\ UNCHANGED cat
          ELSE Go(w, new) /\ UNCHANGED held

\* The next record of the body is framed, or the connection fails before.
PutFrame(w, op) ==
    /\ At(w, op, "body") /\ rq[w].n < Len(R(w).body)
    /\ \/ Go(w, [To(w, "record") EXCEPT !.framed = TRUE]) /\ UNCHANGED <<held, faults>>
       \/ PutFails(w) /\ Fault
    /\ UNCHANGED count

DsPutFrame(w) == PutFrame(w, "dsPut")
MbPutFrame(w) == PutFrame(w, "mbPut")

\* write_record_open: the target is opened for its first record.
PutOpen(w) ==
    /\ rq[w].pc = "record" /\ rq[w].fp = "none"
    /\ \/ OpenWriteTarget(w, rq[w]) /\ NoFault
       \/ OpenWriteFails(w, [Answer(w, "500") EXCEPT !.buf = FALSE])
    /\ UNCHANGED count

PutRecord(w) ==
    /\ rq[w].pc = "record" /\ rq[w].fp = "write"
    /\ \/ WriteRecord(w, rq[w].n + 1) /\ NoFault
       \/ PutFails(w) /\ Fault
    /\ UNCHANGED count

\* The body has been read: after the last record a chunked one still has a
\* line end to read.
PutBodyEnd(w, op) ==
    /\ At(w, op, "body") /\ rq[w].n = Len(R(w).body)
    /\ \/ Go(w, [To(w, "finish") EXCEPT !.buf = FALSE]) /\ UNCHANGED <<held, faults>>
       \/ R(w).chunked /\ PutFails(w) /\ Fault
    /\ UNCHANGED count

DsPutBodyEnd(w) == PutBodyEnd(w, "dsPut")
MbPutBodyEnd(w) == PutBodyEnd(w, "mbPut")

\* An empty body empties the target.
PutFinish(w) ==
    /\ rq[w].pc = "finish"
    /\ \/ rq[w].fp = "write" /\ Go(w, To(w, "close")) /\ UNCHANGED <<held, faults>>
       \/ rq[w].fp = "none" /\ OpenWriteTarget(w, To(w, "close")) /\ NoFault
       \/ rq[w].fp = "none" /\ OpenWriteFails(w, Answer(w, "500"))
    /\ UNCHANGED count

MutPutClose(w) ==
    /\ rq[w].pc = "close"
    /\ \/ CloseTarget(w, To(w, "written"), Len(rq[w].out)) /\ NoFault
       \/ \E k \in 0 .. Len(rq[w].out) : CloseTarget(w, To(w, "written"), k) /\ Fault
    /\ UNCHANGED count

\* close_write_target: the last block is written here and may not fit.
PutClose(w) ==
    /\ rq[w].pc = "close"
    /\ \/ CloseTarget(w, To(w, "written"), Len(rq[w].out)) /\ NoFault
       \/ \E k \in 0 .. Len(rq[w].out) : CloseTarget(w, Answer(w, "500"), k) /\ Fault
    /\ UNCHANGED count

\* A record that was cut fails the request although the body is stored.
PutWritten(w, op, hash) ==
    /\ At(w, op, "written")
    /\ Go(w, IF rq[w].cut THEN Answer(w, "500")
             ELSE IF R(w).etag THEN To(w, hash) ELSE Answer(w, "204"))
    /\ Same

DsPutWritten(w) == PutWritten(w, "dsPut", "scount")
MbPutWritten(w) == PutWritten(w, "mbPut", "stamp")

\* The ETag of the answer, from a second read pass.
DsPutStampCount(w) ==
    /\ At(w, "dsPut", "scount")
    /\ Go(w, [To(w, "stamp") EXCEPT !.max = FbRecordCount(T(w))])
    /\ Same

PutStamp(w) ==
    /\ rq[w].pc = "stamp"
    /\ Etag(w, [Answer(w, "204") EXCEPT !.stamp = DatasetEtag(w)], Answer(w, "204"))

\* An abend in the access method, out of space: recovery closes the file and
\* the record buffer is lost.
PutAbend(w) ==
    /\ rq[w].pc \in {"record", "close"} /\ rq[w].fp = "write"
    /\ CloseTarget(w, Answer(w, "abend"), Len(rq[w].out))
    /\ Fault
    /\ UNCHANGED count

-----------------------------------------------------------------------------
(* Creating, renaming and deleting. *)

Of(d) == {t \in Targets : t[1] = d}

\* datasetCreateHandler: a model must be cataloged; no authority is asked for,
\* the allocation checks it.
DsCreateModel(w) ==
    /\ At(w, "dsCreate", "locate")
    /\ Go(w, IF R(w).flaw = "name" THEN Answer(w, "400")
             ELSE IF R(w).from # None /\ ~Cataloged(R(w).from[1]) THEN Answer(w, "404")
             ELSE Headers(w, To(w, "act")))
    /\ Same

DsCreateAllocate(w) ==
    LET d == T(w)[1]
        org == IF R(w).from = None THEN "PS" ELSE cat[R(w).from[1]]
        new == [data EXCEPT ![<<d, None>>] = IF org = "PS" THEN << >> ELSE None]
    IN  /\ At(w, "dsCreate", "act")
        /\ \/ /\ cat[d] = "none" /\ org # "none" /\ RequireAccess(w, d, ALTER)
              /\ cat' = [cat EXCEPT ![d] = org]
              /\ Change(w, Answer(w, "201"), {<<d, None>>}, new)
           \/ /\ cat[d] # "none" \/ org = "none" \/ ~RequireAccess(w, d, ALTER)
              /\ Go(w, Answer(w, "500")) /\ UNCHANGED held
        /\ UNCHANGED <<count, faults>>

MutDsRenameGate(w) ==
    /\ At(w, "dsRename", "gate")
    /\ Go(w, IF ~RequireAccess(w, R(w).from[1], ALTER) THEN Answer(w, "denied")
             ELSE IF ~Cataloged(R(w).from[1]) THEN Answer(w, "404")
             ELSE To(w, "act"))
    /\ Same

\* process_rename of a data set: both names are authorized.
DsRenameGate(w) ==
    /\ At(w, "dsRename", "gate")
    /\ Go(w, IF R(w).flaw = "name" THEN Answer(w, "400")
             ELSE IF \/ ~RequireAccess(w, R(w).from[1], ALTER)
                     \/ ~RequireAccess(w, T(w)[1], ALTER) THEN Answer(w, "denied")
             ELSE IF VolumeGate(w, R(w).from[1]) # "pass" THEN Answer(w, "404")
             ELSE IF ~Cataloged(R(w).from[1]) THEN Answer(w, "404")
             ELSE To(w, "act"))
    /\ Same

DsRename(w) ==
    LET d == R(w).from[1]
        e == T(w)[1]
        C == Of(d) \cup Of(e)
        new == [t \in Targets |-> IF t[1] = e THEN data[<<d, t[2]>>] ELSE None]
    IN  /\ At(w, "dsRename", "act")
        /\ ~InUse(w, d) /\ ~InUse(w, e)
        /\ \/ /\ Cataloged(d) /\ ~Cataloged(e)
              /\ cat' = [cat EXCEPT ![e] = cat[d], ![d] = "none"]
              /\ Change(w, Answer(w, "204"), C, new)
           \/ /\ ~Cataloged(d) \/ Cataloged(e)
              /\ Go(w, Answer(w, "500")) /\ UNCHANGED held
        /\ UNCHANGED <<count, faults>>

\* process_rename of a member: one STOW, whose return code is the answer.
MbRenameGate(w) == Gate(w, "mbRename", T(w)[1], UPDATE, To(w, "act"))

MbRename(w) ==
    LET old == R(w).from
    IN  /\ At(w, "mbRename", "act")
        /\ \/ /\ IsPds(T(w)[1]) /\ data[old] # None /\ data[T(w)] = None
              /\ Change(w, Answer(w, "204"), {old, T(w)},
                        [data EXCEPT ![T(w)] = data[old], ![old] = None])
              /\ UNCHANGED cat
           \/ /\ IsPds(T(w)[1]) /\ data[old] # None /\ data[T(w)] # None
              /\ Go(w, Answer(w, "400")) /\ UNCHANGED held
           \/ /\ ~IsPds(T(w)[1]) \/ data[old] = None
              /\ Go(w, Answer(w, "404")) /\ UNCHANGED held
        /\ UNCHANGED <<count, faults>>

DsDeleteGate(w) == Gate(w, "dsDelete", T(w)[1], ALTER,
                        IF Cataloged(T(w)[1]) THEN To(w, "act") ELSE Answer(w, "404"))

DsDelete(w) ==
    LET d == T(w)[1]
    IN  /\ At(w, "dsDelete", "act")
        /\ ~InUse(w, d)
        /\ \/ /\ Cataloged(d)
              /\ cat' = [cat EXCEPT ![d] = "none"]
              /\ Change(w, Answer(w, "204"), Of(d), [t \in Targets |-> None])
           \/ ~Cataloged(d) /\ Go(w, Answer(w, "500")) /\ UNCHANGED held
        /\ UNCHANGED <<count, faults>>

MbDeleteGate(w) == Gate(w, "mbDelete", T(w)[1], UPDATE,
                        IF data[T(w)] = None THEN Answer(w, "404") ELSE To(w, "act"))

MbDelete(w) ==
    /\ At(w, "mbDelete", "act")
    /\ \/ /\ data[T(w)] # None
          /\ Change(w, Answer(w, "204"), {T(w)}, [data EXCEPT ![T(w)] = None])
          /\ UNCHANGED cat
       \/ data[T(w)] = None /\ Go(w, Answer(w, "500")) /\ UNCHANGED held
    /\ UNCHANGED <<count, faults>>

-----------------------------------------------------------------------------

Read(w) ==
    \/ DsGetGate(w) \/ DsGetCount(w) \/ DsGetHash(w) \/ DsGetBound(w) \/ DsGetOpen(w)
    \/ MbGetGate(w) \/ MbGetHash(w) \/ MbGetOpen(w) \/ ReadAndSend(w)
    \/ MbListGate(w) \/ MbListOpen(w) \/ MbListScan(w)

Write(w) ==
    \/ DsPutGate(w) \/ DsPutProbe(w) \/ DsPutCount(w) \/ DsPutMatch(w)
    \/ MbPutGate(w) \/ MbPutCatalog(w) \/ MbPutMatch(w) \/ MbPutProbe(w)
    \/ PutAlloc(w) \/ PutOpen(w) \/ PutRecord(w) \/ DsPutFrame(w) \/ MbPutFrame(w)
    \/ DsPutBodyEnd(w) \/ MbPutBodyEnd(w) \/ PutFinish(w) \/ PutClose(w)
    \/ DsPutWritten(w) \/ MbPutWritten(w) \/ DsPutStampCount(w) \/ PutStamp(w)
    \/ PutAbend(w)

Manage(w) ==
    \/ DsCreateModel(w) \/ DsCreateAllocate(w)
    \/ DsRenameGate(w) \/ DsRename(w) \/ MbRenameGate(w) \/ MbRename(w)
    \/ DsDeleteGate(w) \/ DsDelete(w) \/ MbDeleteGate(w) \/ MbDelete(w)

\* No more requests come and all are answered.
Finished ==
    /\ count = MaxRequests /\ \A w \in Workers : rq[w].pc = "idle"
    /\ UNCHANGED vars

Next ==
    \/ \E w \in Workers : Accept(w) \/ Respond(w) \/ Read(w) \/ Write(w) \/ Manage(w)
    \/ Finished

Spec == Init /\ [][Next]_vars

-----------------------------------------------------------------------------
(* Properties. *)

Needed == [dsGet |-> READ, mbGet |-> READ, mbList |-> READ, dsPut |-> UPDATE,
           mbPut |-> UPDATE, mbRename |-> UPDATE, mbDelete |-> UPDATE,
           dsRename |-> ALTER, dsCreate |-> ALTER, dsDelete |-> ALTER]

\* The names a request may change, and those its caller must have authority over.
Scope(r) == {r.t[1]} \cup (IF r.op = "dsRename" THEN {r.from[1]} ELSE {})
Permitted(r) == \A d \in Scope(r) : Perm[r.user][d] >= Needed[r.op]

\* The types of the variables.
TypeOK ==
    /\ cat \in [Names -> {"none", "PS", "PO"}]
    /\ data \in [Targets -> Contents]
    /\ rq \in [Workers ->
                 [pc : Steps, r : Requests \cup {None}, max : Int, stamp : Contents,
                  got : Contents, was : Contents, fp : {"none", "read", "write", "dir"}, buf : BOOLEAN,
                  framed : BOOLEAN, n : Nat, out : Seq(Stores), cut : BOOLEAN, create : BOOLEAN,
                  blind : BOOLEAN, ans : Answers,
                  dirty : BOOLEAN, gone : BOOLEAN, err : BOOLEAN]]
    /\ held \in [Workers -> [t : Targets \cup {None}, stamp : Contents, dirty : BOOLEAN]]
    /\ count \in 0 .. MaxRequests /\ faults \in 0 .. MaxFaults

\* Whichever return a handler takes, its file is closed by then and the record
\* buffer freed; only an abend loses the buffer (dsapi.c:2092).
NothingHeld ==
    \A w \in Workers : rq[w].pc \in {"idle", "answer"} =>
        /\ rq[w].fp = "none"
        /\ rq[w].buf => rq[w].ans = "abend"

\* At every step the request is one the handlers can be in, and none leaves its file
\* or its buffer behind.
SessionSound == TypeOK /\ NothingHeld

\* A caller without the authority is told so and nothing else: no answer depends
\* on whether the data set exists or what it is (dsapi.c:1871, 3955).
NoOracle ==
    \A w \in Workers : rq[w].pc = "answer" /\ rq[w].r.op # "dsCreate" =>
        (rq[w].ans = "denied" <=> R(w).flaw # "name" /\ ~Permitted(R(w)))

\* What a body may be stored as: every record whole, but for the broken ones of a
\* spanned data set (docs/endpoints/datasets/put.md:96, "A defect: spanned records lose data").
StoredAs(content, d, body) ==
    /\ content # None /\ Len(content) = Len(body)
    /\ \A i \in DOMAIN body :
         content[i] = Stored(body)[i] \/ (d \in Spanned /\ content[i] = Broken)

\* A PUT that is answered 204 stored its body, every record of it and whole, unless
\* another request changed the target after the output open or the data set is spanned.
StoredIsBody ==
    \A w \in Workers :
        /\ rq[w].pc = "written" => rq[w].dirty \/ StoredAs(data[T(w)], T(w)[1], R(w).body)
        /\ rq[w].pc = "answer" /\ rq[w].ans = "204" /\ R(w).op \in {"dsPut", "mbPut"} =>
             \A i \in DOMAIN R(w).body : R(w).body[i] \notin Long

\* A request that is refused, and a PUT whose body broke off before its first
\* record, leaves its target as it was (dsapi.c:1006, issue 246).  Two are left out: the
\* member that another request has created behind the output open of a create, and the
\* member that is there but whose open for reading failed (dsapi.c:3080), which is opened
\* to create it.
Unharmed ==
    \A w \in Workers :
        /\ rq[w].pc = "answer" /\ rq[w].was # None
        /\ \/ rq[w].ans \in {"denied", "400", "404", "412"}
           \/ /\ R(w).op \in {"dsPut", "mbPut"} /\ R(w).body # << >> /\ ~rq[w].framed
              /\ ~rq[w].blind /\ (rq[w].create => ~rq[w].dirty)
        => data[T(w)] = rq[w].was

\* "so that a failed body read cannot stow an empty member over it" (dsapi.c:3066): a
\* member that is there, and that no other request changes, is not emptied by a PUT that
\* stored no record.
NoEmptyOverMember ==
    \A w \in Workers :
        /\ rq[w].pc = "answer" /\ R(w).op = "mbPut" /\ R(w).body # << >> /\ ~rq[w].framed
        /\ rq[w].was # None /\ ~rq[w].dirty
        => data[T(w)] = rq[w].was

\* A refusal tells a caller without authority nothing and changes nothing for one who
\* has it: each check and each open comes at its place in the handler.
RefusalIsSilent == NoOracle /\ Unharmed

\* A write is refused with 412 only when the target changed after the client
\* was given its stamp, or could not be read (dsapi.c:625, the FB bound).
NoSpuriousMismatch ==
    \A w \in Workers : rq[w].ans = "412" /\ ~rq[w].err => held[w].dirty

\* The stamp of a read is never newer than the body that comes with it: when the
\* two differ, the target changed after the stamp was taken, and a later If-Match
\* with it fails (dsapi.c:1905, the hash pass is first).
StampNotNewer ==
    \A w \in Workers :
        rq[w].ans = "200" /\ rq[w].stamp # None /\ R(w).mode = "text" =>
            rq[w].dirty \/ rq[w].stamp = rq[w].got

\* The worker that takes the step.
Moves(w) == rq'[w].pc # rq[w].pc \/ rq'[w].fp # rq[w].fp

\* What a request with If-Match overwrites is what its stamp was computed over,
\* unless another request changed it after the check.
MatchGuards ==
    [][\A w \in Workers :
         Moves(w) /\ rq[w].fp = "none" /\ rq'[w].fp = "write" /\ R(w).cond =>
            rq[w].dirty \/ data[T(w)] = held[w].stamp]_vars

\* The protocol of stamps as a client relies on it: the stamp of a read is not newer
\* than its body, an unchanged target does not fail If-Match, and what was changed
\* before the check is not overwritten (dsapi.c: dataset_etag, check_if_match).
StampsSound == [](NoSpuriousMismatch /\ StampNotNewer) /\ MatchGuards

\* The catalog and the data change only under the authority of the request that
\* changes them (dsapi.c:372: the gate's answer, not the send's).
Authorized ==
    [][\A d \in Names :
         (cat'[d] # cat[d] \/ \E t \in Of(d) : data'[t] # data[t]) =>
            \E w \in Workers : Moves(w) /\ rq[w].r # None /\ d \in Scope(R(w))
                               /\ Permitted(R(w))]_vars

\* A write allocates no data set (dsapi.c:2056, issue 65), unless the one that
\* was checked is removed before the output open.
NoStrayDataSet ==
    [][\A w \in Workers, d \in Names :
         Moves(w) /\ rq[w].r # None /\ R(w).op \in {"dsPut", "mbPut"}
           /\ cat[d] = "none" /\ cat'[d] # "none" => rq[w].gone]_vars

\* Nothing changes but by a request that may change it, and a write changes no more
\* than the data set it was checked for.
OnlyPermitted == Authorized /\ NoStrayDataSet
=============================================================================
