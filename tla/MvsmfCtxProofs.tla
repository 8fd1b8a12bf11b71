--------------------------- MODULE MvsmfCtxProofs ---------------------------
(***************************************************************************)
(* Proofs about the lazy creation of the cursor store, for any number of   *)
(* workers.  The invariant the properties follow from says where the one   *)
(* block can be: nowhere yet, in the hands of the worker that holds the    *)
(* latch, or published.                                                    *)
(***************************************************************************)
EXTENDS MvsmfCtx, TLAPS

Inside == {"retest", "init", "publish", "unlock"}

\* Only the holder of the latch is between Lock and Unlock.
LatchInv == \A w \in Workers : ctxPc[w] \in Inside => ctxLatch = w

\* A worker that holds an unpublished block holds the only one.
BlockInv ==
    /\ kvstore \in {0, made}
    /\ made \in {0, 1}
    /\ kvstore # 0 => kvstore \in ready
    /\ made # 0 /\ kvstore = 0 => \E w \in Workers : ctxPc[w] \in {"init", "publish"}
    /\ \A w \in Workers :
         /\ ctxPc[w] \in {"init", "publish"} => store[w] = 1 /\ made = 1 /\ kvstore = 0
         /\ ctxPc[w] = "publish" => store[w] \in ready

ReturnInv == \A w \in Workers : returned[w] \in {0, kvstore}

CtxInv == CtxTypeOK /\ LatchInv /\ BlockInv /\ ReturnInv

LEMMA CtxInvInit == CtxInit => CtxInv
BY TasksAssumption
   DEF CtxInit, CtxInv, CtxTypeOK, LatchInv, BlockInv, ReturnInv, Inside, CtxSteps

LEMMA CtxInvStep == CtxInv /\ [CtxNext]_ctxVars => CtxInv'
<1> SUFFICES ASSUME CtxInv, [CtxNext]_ctxVars PROVE CtxInv'
  OBVIOUS
<1> USE DEF CtxInv
<1>1. ASSUME NEW w \in Workers, NoContext(w) PROVE CtxInv'
  BY <1>1 DEF NoContext, CtxTypeOK, LatchInv, BlockInv, ReturnInv
<1>2. ASSUME NEW w \in Workers, Test(w) PROVE CtxInv'
  BY <1>2 DEF Test, CtxGoto, CtxTypeOK, LatchInv, BlockInv, ReturnInv, Inside, CtxSteps
<1>3. ASSUME NEW w \in Workers, Lock(w) PROVE CtxInv'
  BY <1>3, TasksAssumption
     DEF Lock, CtxGoto, CtxTypeOK, LatchInv, BlockInv, ReturnInv, Inside, CtxSteps
<1>4. ASSUME NEW w \in Workers, Getmain(w) PROVE CtxInv'
  <2>1. CtxTypeOK' /\ LatchInv' /\ ReturnInv'
    BY <1>4 DEF Getmain, CtxGoto, CtxTypeOK, LatchInv, ReturnInv, Inside, CtxSteps
  <2>2. \A u \in Workers : u # w => ctxPc[u] \notin {"init", "publish"}
    BY <1>4 DEF Getmain, LatchInv, Inside
  <2>3. BlockInv'
    <3>1. CASE /\ kvstore = 0
               /\ made' = made + 1
               /\ store' = [store EXCEPT ![w] = made + 1]
               /\ CtxGoto(w, "init")
      BY <1>4, <2>2, <3>1 DEF Getmain, CtxGoto, CtxTypeOK, BlockInv
    <3>2. CASE CtxGoto(w, "unlock") /\ UNCHANGED <<made, store>>
      BY <1>4, <2>2, <3>2 DEF Getmain, CtxGoto, CtxTypeOK, BlockInv
    <3> QED
      BY <1>4, <3>1, <3>2 DEF Getmain
  <2> QED
    BY <2>1, <2>3
<1>5. ASSUME NEW w \in Workers, InitStore(w) PROVE CtxInv'
  <2>1. CtxTypeOK' /\ LatchInv'
    BY <1>5 DEF InitStore, CtxGoto, CtxTypeOK, LatchInv, Inside, CtxSteps
  <2>2. BlockInv' /\ ReturnInv'
    BY <1>5 DEF InitStore, CtxGoto, CtxTypeOK, BlockInv, ReturnInv
  <2> QED
    BY <2>1, <2>2
<1>6. ASSUME NEW w \in Workers, Publish(w) PROVE CtxInv'
  <2>1. CtxTypeOK' /\ LatchInv'
    BY <1>6 DEF Publish, CtxGoto, CtxTypeOK, LatchInv, Inside, CtxSteps
  <2>2. \A u \in Workers : u # w => ctxPc[u] \notin {"init", "publish"}
    BY <1>6 DEF Publish, LatchInv, Inside
  <2>3. BlockInv' /\ ReturnInv'
    BY <1>6, <2>2 DEF Publish, CtxGoto, CtxTypeOK, BlockInv, ReturnInv
  <2> QED
    BY <2>1, <2>3
<1>7. ASSUME NEW w \in Workers, Unlock(w) PROVE CtxInv'
  BY <1>7 DEF Unlock, CtxGoto, CtxTypeOK, LatchInv, BlockInv, ReturnInv, Inside, CtxSteps
<1>8. ASSUME NEW w \in Workers, ReturnStore(w) PROVE CtxInv'
  BY <1>8 DEF ReturnStore, CtxGoto, CtxTypeOK, LatchInv, BlockInv, ReturnInv, Inside, CtxSteps
<1>9. CASE UNCHANGED ctxVars
  BY <1>9 DEF ctxVars, CtxTypeOK, LatchInv, BlockInv, ReturnInv
<1> QED
  BY <1>1, <1>2, <1>3, <1>4, <1>5, <1>6, <1>7, <1>8, <1>9 DEF CtxNext

\* The inductive invariant holds in every reachable state.
THEOREM CtxInvariant == CtxSpec => []CtxInv
BY CtxInvInit, CtxInvStep, PTL DEF CtxSpec

\* However many workers race through mvsmf_kvstore, all of them get the one
\* store, and only after nt_store_init has run on it.
THEOREM OneStoreForAll == CtxSpec => []OneReadyStore
<1>1. CtxInv => OneReadyStore
  BY DEF CtxInv, BlockInv, ReturnInv, OneReadyStore
<1> QED
  BY <1>1, CtxInvariant, PTL

\* The race never leaves a block behind that nobody points to.
THEOREM NoBlockIsLost == CtxSpec => []NoLostBlock
<1>1. CtxInv => NoLostBlock
  BY DEF CtxInv, BlockInv, NoLostBlock
<1> QED
  BY <1>1, CtxInvariant, PTL

\* A published store is never replaced (mvsmfctx.c:58 tests again under the latch).
THEOREM PublishedStoreStays == CtxSpec => StoreStays
<1>1. CtxInv /\ [CtxNext]_ctxVars => [kvstore # 0 => kvstore' = kvstore]_ctxVars
  BY DEF CtxInv, BlockInv, CtxNext, NoContext, Test, Lock, Getmain, InitStore,
         Publish, Unlock, ReturnStore, ctxVars
<1> QED
  BY <1>1, CtxInvariant, PTL DEF CtxSpec, StoreStays
=============================================================================
