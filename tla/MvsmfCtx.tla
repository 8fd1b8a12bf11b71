------------------------------ MODULE MvsmfCtx ------------------------------
(***************************************************************************)
(* The lazy creation of the cursor store (src/mvsmfctx.c).  httpd keeps    *)
(* one context block per CGI for the life of the address space; the first  *)
(* worker that needs the store allocates it, initialises it and hangs it   *)
(* off the context, under the context latch.  The test before the latch    *)
(* and the read that returns the pointer are made without the latch, so    *)
(* they see whatever another worker has published by then.                 *)
(***************************************************************************)
EXTENDS Integers, Tasks

CONSTANT
    MaxBlocks    \* bound on the blocks __getmsp hands out

VARIABLES
    kvstore,   \* ctx->kvstore, 0 for a null pointer
    ctxLatch,     \* holder of the exclusive ENQ on &ctx->kvstore
    made,      \* number of blocks __getmsp has handed out
    ready,     \* the blocks nt_store_init has initialised
    ctxPc,
    store,     \* each worker's local pointer to the block it allocated
    returned   \* what mvsmf_kvstore last returned to each worker

ctxVars == <<kvstore, ctxLatch, made, ready, ctxPc, store, returned>>

CtxSteps == {"idle", "locking", "retest", "init", "publish", "unlock", "return"}

CtxInit ==
    /\ kvstore = 0
    /\ ctxLatch = Nobody
    /\ made = 0
    /\ ready = {}
    /\ ctxPc = [w \in Workers |-> "idle"]
    /\ store = [w \in Workers |-> 0]
    /\ returned = [w \in Workers |-> 0]

CtxGoto(w, step) == ctxPc' = [ctxPc EXCEPT ![w] = step]

\* mvsmf_ctx_get answers NULL (no cgictx service, or httpd cannot make the
\* context block), so does mvsmf_kvstore.
NoContext(w) ==
    /\ ctxPc[w] = "idle"
    /\ returned' = [returned EXCEPT ![w] = 0]
    /\ UNCHANGED <<kvstore, ctxLatch, made, ready, ctxPc, store>>

\* The unlocked test of ctx->kvstore.
Test(w) ==
    /\ ctxPc[w] = "idle"
    /\ CtxGoto(w, IF kvstore = 0 THEN "locking" ELSE "return")
    /\ UNCHANGED <<kvstore, ctxLatch, made, ready, store, returned>>

Lock(w) ==
    /\ ctxPc[w] = "locking"
    /\ ctxLatch = Nobody
    /\ ctxLatch' = w
    /\ CtxGoto(w, "retest")
    /\ UNCHANGED <<kvstore, made, ready, store, returned>>

\* A defect that allocates without testing the pointer again.
MutGetmain(w) ==
    /\ ctxPc[w] = "retest"
    /\ \/ /\ made < MaxBlocks
          /\ made' = made + 1
          /\ store' = [store EXCEPT ![w] = made + 1]
          /\ CtxGoto(w, "init")
       \/ /\ CtxGoto(w, "unlock")
          /\ UNCHANGED <<made, store>>
    /\ UNCHANGED <<kvstore, ctxLatch, ready, returned>>

\* A defect that publishes the block before it is initialised.
MutEarlyPublish(w) ==
    /\ ctxPc[w] = "retest"
    /\ \/ /\ kvstore = 0
          /\ made < MaxBlocks
          /\ made' = made + 1
          /\ store' = [store EXCEPT ![w] = made + 1]
          /\ kvstore' = made + 1
          /\ CtxGoto(w, "init")
       \/ /\ CtxGoto(w, "unlock")
          /\ UNCHANGED <<kvstore, made, store>>
    /\ UNCHANGED <<ctxLatch, ready, returned>>

\* The second test, then __getmsp, which may find no storage.
Getmain(w) ==
    /\ ctxPc[w] = "retest"
    /\ \/ /\ kvstore = 0
          /\ made < MaxBlocks
          /\ made' = made + 1
          /\ store' = [store EXCEPT ![w] = made + 1]
          /\ CtxGoto(w, "init")
       \/ /\ CtxGoto(w, "unlock")
          /\ UNCHANGED <<made, store>>
    /\ UNCHANGED <<kvstore, ctxLatch, ready, returned>>

\* nt_store_init
InitStore(w) ==
    /\ ctxPc[w] = "init"
    /\ ready' = ready \cup {store[w]}
    /\ CtxGoto(w, "publish")
    /\ UNCHANGED <<kvstore, ctxLatch, made, store, returned>>

Publish(w) ==
    /\ ctxPc[w] = "publish"
    /\ kvstore' = store[w]
    /\ CtxGoto(w, "unlock")
    /\ UNCHANGED <<ctxLatch, made, ready, store, returned>>

Unlock(w) ==
    /\ ctxPc[w] = "unlock"
    /\ ctxLatch' = Nobody
    /\ store' = [store EXCEPT ![w] = 0]
    /\ CtxGoto(w, "return")
    /\ UNCHANGED <<kvstore, made, ready, returned>>

\* The pointer is read again, without the latch, and returned.
ReturnStore(w) ==
    /\ ctxPc[w] = "return"
    /\ returned' = [returned EXCEPT ![w] = kvstore]
    /\ CtxGoto(w, "idle")
    /\ UNCHANGED <<kvstore, ctxLatch, made, ready, store>>

CtxNext ==
    \E w \in Workers : \/ NoContext(w) \/ Test(w) \/ Lock(w) \/ Getmain(w)
                       \/ InitStore(w) \/ Publish(w) \/ Unlock(w) \/ ReturnStore(w)

CtxSpec == CtxInit /\ [][CtxNext]_ctxVars

-----------------------------------------------------------------------------
(* Properties. *)

\* A store is a block or 0, also after a GETMAIN that failed, and the latch has at
\* most one holder (mvsmfctx.c: mvsmf_kvstore).
CtxTypeOK ==
    /\ kvstore \in Nat
    /\ ctxLatch \in Workers \cup {Nobody}
    /\ made \in Nat
    /\ ready \subseteq Nat
    /\ ctxPc \in [Workers -> CtxSteps]
    /\ store \in [Workers -> Nat]
    /\ returned \in [Workers -> Nat]

\* Workers that race to create the store (mvsmfctx.c:50-72) all get the same
\* one, and it is initialised before any of them can reach it.  Two stores
\* would lose the cursors in one of them; an uninitialised one has garbage for
\* names.
OneReadyStore ==
    \A w \in Workers : returned[w] # 0 => returned[w] \in ready /\ returned[w] = kvstore

\* At most one block is ever allocated: the block is never freed, so one that
\* lost the race would stay allocated for the life of the address space.
NoLostBlock ==
    made <= 1

\* Once published the store is never replaced: the workers that already use it
\* would go on with another store than the rest.
StoreStays == [][kvstore # 0 => kvstore' = kvstore]_ctxVars
=============================================================================
