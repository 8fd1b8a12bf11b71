----------------------------- MODULE MCNTStore -----------------------------
(***************************************************************************)
(* The store together with its creation: a worker asks the context for the *)
(* store (MvsmfCtx) before each of its operations on it (NTStore), and     *)
(* leaves the operation out when it gets none, as the console handlers do. *)
(* Two workers, three names and two slots: a third name has to push        *)
(* another one out.                                                        *)
(***************************************************************************)
EXTENDS NTStore, MvsmfCtx, TLC

allVars == <<vars, ctxVars>>

StoreSymmetry == Permutations(Workers) \cup Permutations(Names)
                   \cup Permutations(Values)

SystemInit == Init /\ CtxInit

\* mvsmf_kvstore, by a worker that has no operation under way and no store yet.
Create(w) ==
    /\ pc[w] = "idle" /\ returned[w] = 0
    /\ \/ NoContext(w) \/ Test(w) \/ Lock(w) \/ Getmain(w)
       \/ InitStore(w) \/ Publish(w) \/ Unlock(w) \/ ReturnStore(w)
    /\ UNCHANGED vars

\* An operation on the store the worker was given.
Operate(w) ==
    /\ returned[w] # 0
    /\ Call(w) \/ Acquire(w) \/ Search(w)
    /\ UNCHANGED ctxVars

\* The operation returns, and the pointer goes with it.
Complete(w) ==
    /\ Commit(w)
    /\ returned' = [returned EXCEPT ![w] = 0]
    /\ UNCHANGED <<kvstore, ctxLatch, made, ready, ctxPc, store>>

SystemNext ==
    \/ \E w \in Workers : Create(w) \/ Operate(w) \/ Complete(w)
    \/ Tick /\ UNCHANGED ctxVars

SystemSpec == SystemInit /\ [][SystemNext]_allVars
=============================================================================
