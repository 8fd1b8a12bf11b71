------------------------------- MODULE KVMap -------------------------------
(***************************************************************************)
(* What the callers of the persistent name-keyed store rely on             *)
(* (include/ntstore.h): a partial map from names to values, on which every *)
(* operation acts at once, between its call and its return.  A write is    *)
(* seen by every later read until the name is written again, deleted or    *)
(* forgotten.  The store may forget: a write may push one other name out.  *)
(* A read never changes the map and may miss a name that is there, but a   *)
(* hit always answers the value last written under that name.              *)
(***************************************************************************)
CONSTANTS Workers, Names, Values, Absent

VARIABLES
    kv,        \* name -> the value the store holds, or Absent
    op,        \* the operation each worker has called, or Absent
    answer     \* what the last finished operation told its caller

Requests == [kind : {"set"}, name : Names, val : Values]
              \cup [kind : {"get", "del"}, name : Names, val : {Absent}]

MapInit ==
    /\ kv = [n \in Names |-> Absent]
    /\ op = [w \in Workers |-> Absent]
    /\ answer = Absent

Begin(w) ==
    /\ op[w] = Absent
    /\ \E o \in Requests : op' = [op EXCEPT ![w] = o]
    /\ UNCHANGED <<kv, answer>>

\* A write, which may cost at most one other name its entry.
Put(n, v) ==
    /\ \/ kv' = [kv EXCEPT ![n] = v]
       \/ \E m \in Names \ {n} :
             kv' = [kv EXCEPT ![n] = v, ![m] = Absent]
    /\ answer' = Absent

\* A read answers the stored value, or nothing.
Lookup(n) ==
    /\ answer' \in {kv[n], Absent}
    /\ UNCHANGED kv

Forget(n) ==
    /\ kv' = [kv EXCEPT ![n] = Absent]
    /\ answer' = Absent

\* The operation takes effect, for its own name, and returns.
End(w) ==
    /\ op[w] \in Requests
    /\ \/ op[w].kind = "set" /\ Put(op[w].name, op[w].val)
       \/ op[w].kind = "get" /\ Lookup(op[w].name)
       \/ op[w].kind = "del" /\ Forget(op[w].name)
    /\ op' = [op EXCEPT ![w] = Absent]

MapNext == \E w \in Workers : Begin(w) \/ End(w)

MapSpec == MapInit /\ [][MapNext]_<<kv, op, answer>>
=============================================================================
