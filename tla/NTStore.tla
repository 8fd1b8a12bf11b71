------------------------------ MODULE NTStore ------------------------------
(***************************************************************************)
(* The persistent name-keyed store of src/ntstore.c, which keeps the       *)
(* console cursors and detections from one request to the next.  It is one *)
(* block of NSlots fixed slots, shared by every httpd worker of the        *)
(* address space.  Each operation reads the TOD clock first, then takes    *)
(* the store's latch, searches, changes at most one slot and releases.     *)
(*                                                                         *)
(* The clock is read BEFORE the latch is taken (ntstore.c:85, 143), so an  *)
(* operation that waits works with a clock value older than the slots it   *)
(* finds.  That order is kept: Call samples, Acquire latches.              *)
(*                                                                         *)
(* A TOD value is a natural number; its high word, on which the lifetime   *)
(* is measured, is the value divided by Fine (2^32 in the machine).  The   *)
(* subtraction of two high words is unsigned and wraps modulo Word (2^32). *)
(***************************************************************************)
EXTENDS Integers, Tasks

CONSTANTS
    Names,       \* 16-byte keys
    Values,      \* opaque values (SOL_CURSOR, SOL_DETECTION)
    NSlots,      \* MVSMF_KVS_SLOTS, 32 in the code
    TTL,         \* KVS_TTL_TICKS, 300 in the code
    Fine,        \* TOD values per tick of the high word
    Word,        \* the unsigned word the high words are subtracted in
    MaxTod,      \* bound on the clock for model checking
    Absent       \* no name, no value

ASSUME StoreAssumption ==
    /\ NSlots \in Nat \ {0}
    /\ TTL \in Nat \ {0}
    /\ Fine \in Nat \ {0}
    /\ Word \in Nat
    /\ Word > TTL
    /\ MaxTod \in Nat
    /\ Absent \notin Names
    /\ Absent \notin Values
    /\ Absent \notin Workers

VARIABLES
    tod,       \* the TOD clock
    slot,      \* the slots: name (Absent = free), last access, value
    latch,     \* the worker that holds the store's exclusive ENQ, or Absent
    pc,        \* where each worker is in its operation
    op,        \* the operation each worker is executing
    now,       \* the clock value it sampled before it asked for the latch
    target,    \* the slot its search chose, 0 for none
    answer     \* what the last finished operation gave its caller

vars == <<tod, slot, latch, pc, op, now, target, answer>>

Slots == 1..NSlots
FreeSlot == [name |-> Absent, acc |-> 0, val |-> Absent]
SlotType == [name : Names \cup {Absent}, acc : Nat, val : Values \cup {Absent}]
Ops == [kind : {"set"}, name : Names, val : Values]
         \cup [kind : {"get", "del"}, name : Names, val : {Absent}]

\* nt_store_init: every slot is zeroed, so free.
Init ==
    /\ tod = 0
    /\ slot = [i \in Slots |-> FreeSlot]
    /\ latch = Absent
    /\ pc = [w \in Workers |-> "idle"]
    /\ op = [w \in Workers |-> Absent]
    /\ now = [w \in Workers |-> 0]
    /\ target = [w \in Workers |-> 0]
    /\ answer = Absent

-----------------------------------------------------------------------------
(* The search. *)

High(t) == t \div Fine

\* name_free
Free(s) == s.name = Absent

\* slot_expired: unsigned subtraction, so a slot that was used later than t
\* looks as if its last use were a full word of ticks ago.
Expired(s, t) == (High(t) - High(s.acc)) % Word >= TTL

\* The first slot of S, in the order of the slots (no slot when S is empty).
FirstOf(S) == {i \in S : \A j \in S : i <= j}

Holding(n) == {i \in Slots : slot[i].name = n}

Reusable(t) == {i \in Slots : Free(slot[i]) \/ Expired(slot[i], t)}

\* The least recently accessed slot; the first of them on a tie.
LRU == {i \in Slots : \A j \in Slots : \/ slot[i].acc < slot[j].acc
                                       \/ slot[i].acc = slot[j].acc /\ i <= j}

\* A defect that overwrites an existing name only while it is unexpired.
MutSetTarget(n, t) ==
    LET live == {i \in Holding(n) : ~Expired(slot[i], t)}
    IN  IF live # {} THEN FirstOf(live)
        ELSE IF Reusable(t) # {} THEN FirstOf(Reusable(t))
        ELSE LRU

\* A defect that evicts without looking for a free or expired slot first.
MutAlwaysLRU(n, t) == IF Holding(n) # {} THEN FirstOf(Holding(n)) ELSE LRU

\* nt_set: the slot of the name, else a free or expired one, else the LRU one.
SetTarget(n, t) ==
    CASE Holding(n) # {} -> FirstOf(Holding(n))
      [] Holding(n) = {} /\ Reusable(t) # {} -> FirstOf(Reusable(t))
      [] OTHER -> LRU

\* nt_get: the unexpired slot of the name, 0 for a miss.
GetTarget(n, t) ==
    LET live == {i \in Holding(n) : ~Expired(slot[i], t)}
    IN  IF live = {} THEN {0} ELSE FirstOf(live)

\* nt_del: the slot of the name, expired or not.
DelTarget(n) == IF Holding(n) = {} THEN {0} ELSE FirstOf(Holding(n))

-----------------------------------------------------------------------------
(* The steps of an operation. *)

\* A worker calls nt_set, nt_get or nt_del and reads the clock.
Call(w) ==
    /\ pc[w] = "idle"
    /\ \E o \in Ops : op' = [op EXCEPT ![w] = o]
    /\ now' = [now EXCEPT ![w] = tod]
    /\ pc' = [pc EXCEPT ![w] = "wait"]
    /\ UNCHANGED <<tod, slot, latch, target, answer>>

\* lock(s, LOCK_EXC) is granted.
Acquire(w) ==
    /\ pc[w] = "wait"
    /\ latch = Absent
    /\ latch' = w
    /\ pc' = [pc EXCEPT ![w] = "search"]
    /\ UNCHANGED <<tod, slot, op, now, target, answer>>

\* The search loops, under the latch.
Search(w) ==
    /\ pc[w] = "search"
    /\ \E i \in CASE op[w].kind = "set" -> SetTarget(op[w].name, now[w])
                  [] op[w].kind = "get" -> GetTarget(op[w].name, now[w])
                  [] op[w].kind = "del" -> DelTarget(op[w].name) :
          target' = [target EXCEPT ![w] = i]
    /\ pc' = [pc EXCEPT ![w] = "commit"]
    /\ UNCHANGED <<tod, slot, latch, op, now, answer>>

\* nt_get touches the slot it hit, which keeps an active key alive.
Touched(s, t) == [s EXCEPT !.acc = t]

\* The operation returns and its local variables go.
Return(w) ==
    /\ pc' = [pc EXCEPT ![w] = "idle"]
    /\ op' = [op EXCEPT ![w] = Absent]
    /\ now' = [now EXCEPT ![w] = 0]
    /\ target' = [target EXCEPT ![w] = 0]

\* A defect that zeroes the first slot on a delete, whatever it holds.
MutCommit(w) ==
    LET o == op[w]
        i == target[w]
    IN  /\ pc[w] = "commit"
        /\ \/ /\ o.kind = "set"
              /\ slot' = [slot EXCEPT ![i] = [name |-> o.name, acc |-> now[w],
                                              val |-> o.val]]
              /\ answer' = Absent
           \/ /\ o.kind = "get"
              /\ answer' = IF i = 0 THEN Absent ELSE slot[i].val
              /\ UNCHANGED slot
           \/ /\ o.kind = "del"
              /\ slot' = [slot EXCEPT ![1] = FreeSlot]
              /\ answer' = Absent
        /\ latch' = Absent
        /\ Return(w)
        /\ UNCHANGED tod

\* The slot is written, touched or zeroed, and the latch is released.
Commit(w) ==
    LET o == op[w]
        i == target[w]
    IN  /\ pc[w] = "commit"
        /\ \/ /\ o.kind = "set"
              /\ slot' = [slot EXCEPT ![i] = [name |-> o.name, acc |-> now[w],
                                              val |-> o.val]]
              /\ answer' = Absent
           \/ /\ o.kind = "get" /\ i # 0
              /\ slot' = [slot EXCEPT ![i] = Touched(slot[i], now[w])]
              /\ answer' = slot[i].val
           \/ /\ o.kind = "del" /\ i # 0
              /\ slot' = [slot EXCEPT ![i] = FreeSlot]
              /\ answer' = Absent
           \/ /\ o.kind # "set" /\ i = 0
              /\ answer' = Absent
              /\ UNCHANGED slot
        /\ latch' = Absent
        /\ Return(w)
        /\ UNCHANGED tod

\* Time passes, up to the bound.
Tick ==
    /\ tod < MaxTod
    /\ tod' = tod + 1
    /\ UNCHANGED <<slot, latch, pc, op, now, target, answer>>

Next ==
    \/ \E w \in Workers : Call(w) \/ Acquire(w) \/ Search(w) \/ Commit(w)
    \/ Tick

Spec == Init /\ [][Next]_vars

-----------------------------------------------------------------------------
(* Properties. *)

\* A slot is free or has a name, a value and a stamp; a search ends at a slot or at
\* 0, and the latch has at most one holder (ntstore.c: nt_set, nt_get, nt_del).
TypeOK ==
    /\ tod \in Nat
    /\ slot \in [Slots -> SlotType]
    /\ latch \in Workers \cup {Absent}
    /\ pc \in [Workers -> {"idle", "wait", "search", "commit"}]
    /\ op \in [Workers -> Ops \cup {Absent}]
    /\ now \in [Workers -> Nat]
    /\ target \in [Workers -> 0..NSlots]
    /\ answer \in Values \cup {Absent}

\* No name occupies two slots (ntstore.c:89 looks the name up before it takes a
\* new slot): with two, a write would update one and a read might answer the
\* other, and a client's cursor would jump back.
NoDuplicateNames ==
    \A i, j \in Slots :
        slot[i].name = slot[j].name /\ slot[i].name # Absent => i = j

\* The slots are well formed, and each name has one.
StoreSound == TypeOK /\ NoDuplicateNames

\* The true age of an entry, measured on the clock as it is now.
Live(s) == s.name # Absent /\ High(tod) - High(s.acc) < TTL

\* A step in which slot i passes from one name to another.
TakenOver(i) ==
    /\ slot[i].name # Absent
    /\ slot'[i].name \notin {Absent, slot[i].name}

\* nt_set costs a live entry its slot (ntstore.c:96-118) only when no slot is
\* free and the entry is the least recently used one, or when the writer
\* sampled its clock in an earlier tick than the entry's last use.
EvictionJustified ==
    [][\A i \in Slots : TakenOver(i) /\ Live(slot[i]) =>
         \/ /\ \A j \in Slots : ~Free(slot[j])
            /\ \A j \in Slots : slot[i].acc <= slot[j].acc
         \/ \E w \in Workers : /\ pc[w] = "commit"
                              /\ target[w] = i
                              /\ High(now[w]) < High(slot[i].acc)]_vars

\* The lifetime the reference manual states, "about 5 minutes after the last
\* use" (docs/books/ref/ref-cons.typ:673): nt_set takes no live entry's slot
\* while a slot is free.
LifetimeKept ==
    [][\A i \in Slots : TakenOver(i) /\ Live(slot[i]) =>
         \A j \in Slots : ~Free(slot[j])]_vars

\* The map the callers see: the value in the slot of a name.
Contents == [n \in Names |-> IF Holding(n) = {} THEN Absent
                             ELSE slot[CHOOSE i \in Holding(n) : TRUE].val]

Map == INSTANCE KVMap WITH kv <- Contents

\* The store is a map that may forget (ntstore.h): every operation acts at once
\* and on its own name, whatever the interleaving of workers; a hit answers what
\* was last written under the name, and a write costs at most one other name its
\* entry.
ImplementsMap == Map!MapSpec
=============================================================================
