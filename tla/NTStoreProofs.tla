--------------------------- MODULE NTStoreProofs ---------------------------
(***************************************************************************)
(* Proofs about the name-keyed store, for any number of workers, names,    *)
(* values and slots.                                                       *)
(*                                                                         *)
(* NoDuplicateNames is not inductive: whether a commit writes a second     *)
(* slot for a name depends on what the search found, and that what it      *)
(* found still holds depends on the latch.  The inductive invariant adds   *)
(* both: who is inside holds the latch (LatchInv), and the slot chosen by  *)
(* a search is still the right one when it is written (TargetInv).         *)
(***************************************************************************)
EXTENDS NTStore, TLAPS

Inside(w) == pc[w] \in {"search", "commit"}

LatchInv == \A w \in Workers : Inside(w) <=> latch = w

OpInv == \A w \in Workers : IF pc[w] = "idle" THEN op[w] = Absent ELSE op[w] \in Ops

\* What the search established about the chosen slot, until it is written.
GoodTarget(w) ==
    IF op[w].kind = "set"
    THEN /\ target[w] \in Slots
         /\ \A i \in Slots : slot[i].name = op[w].name => i = target[w]
    ELSE \/ /\ target[w] = 0
            /\ op[w].kind = "del" => \A i \in Slots : slot[i].name # op[w].name
         \/ /\ target[w] \in Slots
            /\ slot[target[w]].name = op[w].name

TargetInv == \A w \in Workers : pc[w] = "commit" => GoodTarget(w)

StoreInv == TypeOK /\ LatchInv /\ OpInv /\ TargetInv /\ NoDuplicateNames

\* The searches answer slots; a write's search answers the slot of the name
\* whenever there is one (ntstore.c:88-118).
LEMMA SetTargetGood ==
    ASSUME NoDuplicateNames, NEW n \in Names, NEW t, NEW k \in SetTarget(n, t)
    PROVE  /\ k \in Slots
           /\ \A i \in Slots : slot[i].name = n => i = k
<1>1. CASE Holding(n) # {}
  <2>1. k \in FirstOf(Holding(n))
    BY <1>1 DEF SetTarget
  <2>2. k \in Slots /\ slot[k].name = n
    BY <2>1 DEF FirstOf, Holding
  <2>3. n # Absent
    BY StoreAssumption
  <2> QED
    BY <2>2, <2>3 DEF NoDuplicateNames
<1>2. CASE Holding(n) = {} /\ Reusable(t) # {}
  <2>1. k \in FirstOf(Reusable(t))
    BY <1>2 DEF SetTarget
  <2> QED
    BY <1>2, <2>1 DEF FirstOf, Reusable, Holding
<1>3. CASE Holding(n) = {} /\ Reusable(t) = {}
  <2>1. k \in LRU
    BY <1>3 DEF SetTarget
  <2> QED
    BY <1>3, <2>1 DEF LRU, Holding
<1> QED
  BY <1>1, <1>2, <1>3

LEMMA OtherTargetGood ==
    ASSUME NEW n \in Names, NEW t
    PROVE  /\ \A k \in GetTarget(n, t) : k = 0 \/ (k \in Slots /\ slot[k].name = n)
           /\ \A k \in DelTarget(n) :
                \/ k = 0 /\ \A i \in Slots : slot[i].name # n
                \/ k \in Slots /\ slot[k].name = n
BY DEF GetTarget, DelTarget, FirstOf, Holding

\* The store starts in the invariant (nt_store_init, ntstore.c:59).
LEMMA InitInv == Init => StoreInv
<1> SUFFICES ASSUME Init PROVE StoreInv
  OBVIOUS
<1>1. TypeOK
  BY StoreAssumption DEF Init, TypeOK, SlotType, FreeSlot
<1>2. LatchInv /\ OpInv /\ TargetInv
  BY StoreAssumption DEF Init, LatchInv, Inside, OpInv, TargetInv
<1>3. NoDuplicateNames
  BY DEF Init, NoDuplicateNames, FreeSlot
<1> QED
  BY <1>1, <1>2, <1>3 DEF StoreInv

LEMMA CallInv ==
    ASSUME StoreInv, NEW w \in Workers, Call(w)
    PROVE  StoreInv'
<1> USE DEF StoreInv
<1>1. PICK o \in Ops : op' = [op EXCEPT ![w] = o]
  BY DEF Call
<1>2. TypeOK'
  BY <1>1 DEF TypeOK, Call
<1>3. LatchInv'
  BY DEF LatchInv, Inside, Call, TypeOK
<1>4. OpInv'
  BY <1>1 DEF OpInv, Call, TypeOK
<1>5. TargetInv'
  <2> SUFFICES ASSUME NEW u \in Workers, pc'[u] = "commit" PROVE GoodTarget(u)'
    BY DEF TargetInv
  <2>1. u # w /\ pc[u] = "commit" /\ op'[u] = op[u]
    BY <1>1 DEF Call, TypeOK
  <2> QED
    BY <2>1 DEF TargetInv, GoodTarget, Call
<1>6. NoDuplicateNames'
  BY DEF NoDuplicateNames, Call
<1> QED
  BY <1>2, <1>3, <1>4, <1>5, <1>6

LEMMA AcquireInv ==
    ASSUME StoreInv, NEW w \in Workers, Acquire(w)
    PROVE  StoreInv'
<1> USE DEF StoreInv
<1>1. TypeOK'
  BY DEF TypeOK, Acquire
<1>2. LatchInv'
  BY StoreAssumption DEF LatchInv, Inside, Acquire, TypeOK
<1>3. OpInv'
  BY DEF OpInv, Acquire, TypeOK
<1>4. TargetInv'
  BY DEF TargetInv, GoodTarget, Acquire, TypeOK
<1>5. NoDuplicateNames'
  BY DEF NoDuplicateNames, Acquire
<1> QED
  BY <1>1, <1>2, <1>3, <1>4, <1>5

LEMMA SearchInv ==
    ASSUME StoreInv, NEW w \in Workers, Search(w)
    PROVE  StoreInv'
<1> USE DEF StoreInv
<1>1. op[w] \in Ops
  BY DEF OpInv, Search
<1>2. op[w].name \in Names /\ op[w].kind \in {"set", "get", "del"}
  BY <1>1 DEF Ops
<1>3. PICK k : /\ target' = [target EXCEPT ![w] = k]
               /\ op[w].kind = "set" => k \in SetTarget(op[w].name, now[w])
               /\ op[w].kind = "get" => k \in GetTarget(op[w].name, now[w])
               /\ op[w].kind = "del" => k \in DelTarget(op[w].name)
  <2>1. CASE op[w].kind = "set"
    BY <2>1 DEF Search
  <2>2. CASE op[w].kind = "get"
    BY <2>2 DEF Search
  <2>3. CASE op[w].kind = "del"
    BY <2>3 DEF Search
  <2> QED
    BY <1>2, <2>1, <2>2, <2>3
<1>4. IF op[w].kind = "set"
      THEN k \in Slots /\ \A i \in Slots : slot[i].name = op[w].name => i = k
      ELSE \/ /\ k = 0
              /\ op[w].kind = "del" => \A i \in Slots : slot[i].name # op[w].name
           \/ k \in Slots /\ slot[k].name = op[w].name
  BY <1>2, <1>3, SetTargetGood, OtherTargetGood
<1>5. k \in 0..NSlots
  BY <1>4, StoreAssumption DEF Slots
<1>6. TypeOK'
  BY <1>3, <1>5 DEF TypeOK, Search
<1>7. LatchInv'
  BY DEF LatchInv, Inside, Search, TypeOK
<1>8. OpInv'
  BY DEF OpInv, Search, TypeOK
<1>9. TargetInv'
  <2> SUFFICES ASSUME NEW u \in Workers, pc'[u] = "commit" PROVE GoodTarget(u)'
    BY DEF TargetInv
  <2>1. CASE u = w
    BY <1>3, <1>4, <2>1 DEF GoodTarget, Search, TypeOK
  <2>2. CASE u # w
    <3>1. pc[u] = "commit" /\ target'[u] = target[u]
      BY <1>3, <2>2 DEF Search, TypeOK
    <3> QED
      BY <3>1 DEF TargetInv, GoodTarget, Search
  <2> QED
    BY <2>1, <2>2
<1>10. NoDuplicateNames'
  BY DEF NoDuplicateNames, Search
<1> QED
  BY <1>6, <1>7, <1>8, <1>9, <1>10

\* A commit changes one slot, as the operation says, and leaves the rest.
LEMMA CommitSlot ==
    ASSUME StoreInv, NEW w \in Workers, Commit(w)
    PROVE  /\ op[w] \in Ops
           /\ \/ UNCHANGED slot
              \/ /\ target[w] \in Slots
                 /\ \E s \in SlotType :
                      /\ slot' = [slot EXCEPT ![target[w]] = s]
                      /\ \/ s.name = Absent
                         \/ s.name = slot[target[w]].name
                         \/ /\ op[w].kind = "set"
                            /\ s.name = op[w].name
<1> USE DEF StoreInv
<1>0. op[w] \in Ops /\ GoodTarget(w) /\ now[w] \in Nat /\ slot \in [Slots -> SlotType]
  BY DEF OpInv, TargetInv, TypeOK, Commit
<1>1. CASE op[w].kind = "set"
  <2>1. op[w].name \in Names /\ op[w].val \in Values
    BY <1>0, <1>1 DEF Ops
  <2>2. target[w] \in Slots
    BY <1>0, <1>1 DEF GoodTarget
  <2> DEFINE s == [name |-> op[w].name, acc |-> now[w], val |-> op[w].val]
  <2>3. s \in SlotType
    BY <1>0, <2>1 DEF SlotType
  <2>4. slot' = [slot EXCEPT ![target[w]] = s]
    BY <1>1 DEF Commit
  <2> QED
    BY <1>0, <1>1, <2>2, <2>3, <2>4
<1>2. CASE op[w].kind # "set" /\ target[w] # 0
  <2>1. target[w] \in Slots
    BY <1>0, <1>2 DEF GoodTarget
  <2>2. slot[target[w]] \in SlotType
    BY <1>0, <2>1
  <2>3. CASE op[w].kind = "get"
    <3> DEFINE s == Touched(slot[target[w]], now[w])
    <3>1. s \in SlotType /\ s.name = slot[target[w]].name
      BY <1>0, <2>2 DEF SlotType, Touched
    <3>2. slot' = [slot EXCEPT ![target[w]] = s]
      BY <1>2, <2>3 DEF Commit
    <3> QED
      BY <1>0, <2>1, <3>1, <3>2
  <2>4. CASE op[w].kind = "del"
    <3>1. FreeSlot \in SlotType /\ FreeSlot.name = Absent
      BY DEF SlotType, FreeSlot
    <3>2. slot' = [slot EXCEPT ![target[w]] = FreeSlot]
      BY <1>2, <2>4 DEF Commit
    <3> QED
      BY <1>0, <2>1, <3>1, <3>2
  <2> QED
    BY <1>0, <1>2, <2>3, <2>4 DEF Ops
<1>3. CASE op[w].kind # "set" /\ target[w] = 0
  BY <1>0, <1>3 DEF Commit
<1> QED
  BY <1>1, <1>2, <1>3

LEMMA CommitInv ==
    ASSUME StoreInv, NEW w \in Workers, Commit(w)
    PROVE  StoreInv'
<1> USE DEF StoreInv
<1>0. op[w] \in Ops /\ GoodTarget(w) /\ slot \in [Slots -> SlotType]
  BY CommitSlot DEF TargetInv, TypeOK, Commit
<1>1. slot' \in [Slots -> SlotType]
  BY <1>0, CommitSlot
<1>2. answer' \in Values \cup {Absent}
  <2>1. target[w] \in 0..NSlots /\ (target[w] # 0 => target[w] \in Slots)
    BY StoreAssumption DEF TypeOK, Slots
  <2>2. \A i \in Slots : slot[i].val \in Values \cup {Absent}
    BY <1>0 DEF SlotType
  <2> QED
    BY <2>1, <2>2 DEF Commit
<1>3. TypeOK'
  BY <1>1, <1>2, StoreAssumption DEF TypeOK, Commit, Return
<1>4. LatchInv'
  BY StoreAssumption DEF LatchInv, Inside, Commit, Return, TypeOK
<1>5. OpInv'
  BY DEF OpInv, Commit, Return, TypeOK
<1>6. TargetInv'
  <2> SUFFICES ASSUME NEW u \in Workers, pc'[u] = "commit" PROVE FALSE
    BY DEF TargetInv
  <2>1. u # w /\ pc[u] = "commit"
    BY DEF Commit, Return, TypeOK
  <2> QED
    BY <2>1 DEF LatchInv, Inside, Commit
<1>7. NoDuplicateNames'
  <2>1. CASE UNCHANGED slot
    BY <2>1 DEF NoDuplicateNames
  <2>2. ASSUME target[w] \in Slots, NEW s \in SlotType,
               slot' = [slot EXCEPT ![target[w]] = s],
               \/ s.name = Absent
               \/ s.name = slot[target[w]].name
               \/ op[w].kind = "set" /\ s.name = op[w].name
        PROVE  NoDuplicateNames'
    <3> SUFFICES ASSUME NEW i \in Slots, NEW j \in Slots,
                        slot'[i].name = slot'[j].name, slot'[i].name # Absent,
                        i # j
                 PROVE  FALSE
      BY DEF NoDuplicateNames
    <3>1. \A x \in Slots : slot'[x] = IF x = target[w] THEN s ELSE slot[x]
      BY <1>0, <2>2
    <3>2. \A x \in Slots : slot[x].name = op[w].name /\ op[w].kind = "set"
                             => x = target[w]
      BY <1>0 DEF GoodTarget
    <3> QED
      BY <2>2, <3>1, <3>2 DEF NoDuplicateNames
  <2> QED
    BY <2>1, <2>2, CommitSlot
<1> QED
  BY <1>3, <1>4, <1>5, <1>6, <1>7

LEMMA TickInv == ASSUME StoreInv, Tick \/ UNCHANGED vars PROVE StoreInv'
<1>1. TypeOK'
  BY DEF StoreInv, TypeOK, Tick, vars
<1>2. (LatchInv /\ OpInv)'
  BY DEF StoreInv, LatchInv, Inside, OpInv, Tick, vars
<1>3. (TargetInv /\ NoDuplicateNames)'
  BY DEF StoreInv, TargetInv, GoodTarget, NoDuplicateNames, Tick, vars
<1> QED
  BY <1>1, <1>2, <1>3 DEF StoreInv

\* The inductive invariant holds in every reachable state.
THEOREM StoreInvariant == Spec => []StoreInv
<1>1. Init => StoreInv
  BY InitInv
<1>2. StoreInv /\ [Next]_vars => StoreInv'
  BY CallInv, AcquireInv, SearchInv, CommitInv, TickInv DEF Next
<1> QED
  BY <1>1, <1>2, PTL DEF Spec

\* Every slot of the store stays well formed, and no name ever occupies two of them,
\* for any number of workers, names and slots (nt_set, ntstore.c:88-118).
THEOREM StoreIsSound == Spec => []StoreSound
<1>1. StoreInv => StoreSound
  BY DEF StoreInv, StoreSound
<1> QED
  BY <1>1, StoreInvariant, PTL

-----------------------------------------------------------------------------
(* The store implements the map of KVMap. *)

ContentsFaithful ==
    NoDuplicateNames =>
      \A n \in Names :
        /\ \A i \in Slots : slot[i].name = n => Contents[n] = slot[i].val
        /\ (\A i \in Slots : slot[i].name # n) => Contents[n] = Absent

\* With unique names, the map is what the slots say.
LEMMA ContentsOfSlots == ContentsFaithful
<1> SUFFICES ASSUME NoDuplicateNames, NEW n \in Names
             PROVE  /\ \A i \in Slots : slot[i].name = n => Contents[n] = slot[i].val
                    /\ (\A i \in Slots : slot[i].name # n) => Contents[n] = Absent
  BY DEF ContentsFaithful
<1>1. n # Absent
  BY StoreAssumption
<1>2. ASSUME NEW i \in Slots, slot[i].name = n
      PROVE  Contents[n] = slot[i].val
  <2>1. i \in Holding(n)
    BY <1>2 DEF Holding
  <2>2. \A j \in Holding(n) : j = i
    BY <1>1, <1>2 DEF Holding, NoDuplicateNames
  <2>3. (CHOOSE j \in Holding(n) : TRUE) = i
    BY <2>1, <2>2
  <2> QED
    BY <2>1, <2>3 DEF Contents
<1>3. ASSUME \A i \in Slots : slot[i].name # n
      PROVE  Contents[n] = Absent
  BY <1>3 DEF Contents, Holding
<1> QED
  BY <1>2, <1>3

\* The same in the state after a step.
LEMMA ContentsOfSlotsAfter == ContentsFaithful'
BY ContentsOfSlots, PTL

\* Steps that leave the slots alone leave the map alone.
LEMMA Stutter ==
    ASSUME UNCHANGED slot
    PROVE  UNCHANGED Contents
BY DEF Contents, Holding

\* A write changes the entry of its name and at most the entry of the name
\* whose slot it took.
LEMMA SetIsPut ==
    ASSUME StoreInv, StoreInv', NEW w \in Workers, Commit(w), op[w].kind = "set"
    PROVE  Map!Put(op[w].name, op[w].val)
<1> DEFINE n == op[w].name
           v == op[w].val
           i == target[w]
           m == slot[i].name
           s == [name |-> n, acc |-> now[w], val |-> v]
<1>1. /\ n \in Names /\ v \in Values /\ i \in Slots
      /\ \A j \in Slots : slot[j].name = n => j = i
      /\ slot \in [Slots -> SlotType]
  BY DEF StoreInv, OpInv, TargetInv, GoodTarget, TypeOK, Commit, Ops
<1>2. slot' = [slot EXCEPT ![i] = s] /\ answer' = Absent
  BY DEF Commit
<1>3. \A j \in Slots : slot'[j] = IF j = i THEN s ELSE slot[j]
  BY <1>1, <1>2
<1>4. NoDuplicateNames /\ NoDuplicateNames'
  BY DEF StoreInv
<1>5. Contents'[n] = v
  <2>1. slot'[i].name = n /\ slot'[i].val = v
    BY <1>1, <1>3
  <2> QED
    BY <1>1, <1>4, <2>1, ContentsOfSlots, ContentsOfSlotsAfter DEF ContentsFaithful
<1>6. ASSUME NEW p \in Names, p # n, p # m
      PROVE  Contents'[p] = Contents[p]
  <2>1. CASE \E j \in Slots : slot[j].name = p
    <3>1. PICK j \in Slots : slot[j].name = p
      BY <2>1
    <3>2. j # i /\ slot'[j] = slot[j]
      BY <1>3, <1>6, <3>1
    <3>3. Contents[p] = slot[j].val
      BY <1>4, <3>1, ContentsOfSlots, ContentsOfSlotsAfter DEF ContentsFaithful
    <3>4. Contents'[p] = slot'[j].val
      BY <1>4, <3>1, <3>2, ContentsOfSlots, ContentsOfSlotsAfter DEF ContentsFaithful
    <3> QED
      BY <3>2, <3>3, <3>4
  <2>2. CASE \A j \in Slots : slot[j].name # p
    <3>1. \A j \in Slots : slot'[j].name # p
      BY <1>3, <1>6, <2>2
    <3> QED
      BY <1>4, <2>2, <3>1, ContentsOfSlots, ContentsOfSlotsAfter DEF ContentsFaithful
  <2> QED
    BY <2>1, <2>2
<1>7. CASE m \in Names \ {n}
  <2>1. \A j \in Slots : slot'[j].name # m
    BY <1>1, <1>3, <1>4, <1>7, StoreAssumption DEF NoDuplicateNames
  <2>2. Contents'[m] = Absent
    BY <1>4, <1>7, <2>1, ContentsOfSlots, ContentsOfSlotsAfter DEF ContentsFaithful
  <2>3. Contents' = [Contents EXCEPT ![n] = v, ![m] = Absent]
    <3>1. \A p \in Names :
            Contents'[p] = [Contents EXCEPT ![n] = v, ![m] = Absent][p]
      BY <1>5, <1>6, <1>7, <2>2 DEF Contents
    <3> QED
      BY <3>1 DEF Contents
  <2> QED
    BY <1>2, <1>7, <2>3 DEF Map!Put
<1>8. CASE m \notin Names \ {n}
  <2>1. \A p \in Names : p # n => Contents'[p] = Contents[p]
    BY <1>6, <1>8
  <2>2. Contents' = [Contents EXCEPT ![n] = v]
    <3>1. \A p \in Names : Contents'[p] = [Contents EXCEPT ![n] = v][p]
      BY <1>5, <2>1 DEF Contents
    <3> QED
      BY <3>1 DEF Contents
  <2> QED
    BY <1>2, <2>2 DEF Map!Put
<1> QED
  BY <1>7, <1>8

\* A read answers the value of its name, or nothing, and changes no entry.
LEMMA GetIsLookup ==
    ASSUME StoreInv, StoreInv', NEW w \in Workers, Commit(w), op[w].kind = "get"
    PROVE  Map!Lookup(op[w].name)
<1> DEFINE n == op[w].name
           i == target[w]
<1>1. /\ n \in Names /\ slot \in [Slots -> SlotType]
      /\ i = 0 \/ (i \in Slots /\ slot[i].name = n)
      /\ NoDuplicateNames /\ NoDuplicateNames'
  BY DEF StoreInv, OpInv, TargetInv, GoodTarget, TypeOK, Commit, Ops
<1>2. CASE i = 0
  <2>1. answer' = Absent /\ UNCHANGED slot
    BY <1>2 DEF Commit
  <2>2. UNCHANGED Contents
    BY <2>1 DEF Contents, Holding
  <2> QED
    BY <2>1, <2>2 DEF Map!Lookup
<1>3. CASE i # 0
  <2>0. 0 \notin Slots
    BY StoreAssumption DEF Slots
  <2>1. /\ i \in Slots /\ slot[i].name = n
        /\ slot' = [slot EXCEPT ![i] = Touched(slot[i], now[w])]
        /\ answer' = slot[i].val
    BY <1>1, <1>3 DEF Commit
  <2>2. \A j \in Slots : slot'[j].name = slot[j].name /\ slot'[j].val = slot[j].val
    BY <1>1, <2>1 DEF Touched, SlotType
  <2>3. \A p \in Names : Holding(p)' = Holding(p)
    BY <2>2 DEF Holding
  <2>4. UNCHANGED Contents
    <3>1. ASSUME NEW p \in Names PROVE Contents'[p] = Contents[p]
      <4>1. CASE \E j \in Slots : slot[j].name = p
        BY <1>1, <2>2, <4>1, ContentsOfSlots, ContentsOfSlotsAfter DEF ContentsFaithful
      <4>2. CASE \A j \in Slots : slot[j].name # p
        BY <1>1, <2>2, <4>2, ContentsOfSlots, ContentsOfSlotsAfter DEF ContentsFaithful
      <4> QED
        BY <4>1, <4>2
    <3> QED
      BY <3>1 DEF Contents
  <2>5. Contents[n] = slot[i].val
    BY <1>1, <2>1, ContentsOfSlots, ContentsOfSlotsAfter DEF ContentsFaithful
  <2> QED
    BY <2>1, <2>4, <2>5 DEF Map!Lookup
<1> QED
  BY <1>2, <1>3

LEMMA DelIsForget ==
    ASSUME StoreInv, StoreInv', NEW w \in Workers, Commit(w), op[w].kind = "del"
    PROVE  Map!Forget(op[w].name)
<1> DEFINE n == op[w].name
           i == target[w]
<1>1. /\ n \in Names /\ slot \in [Slots -> SlotType]
      /\ \/ i = 0 /\ \A j \in Slots : slot[j].name # n
         \/ i \in Slots /\ slot[i].name = n
      /\ NoDuplicateNames /\ NoDuplicateNames'
  BY DEF StoreInv, OpInv, TargetInv, GoodTarget, TypeOK, Commit, Ops
<1>2. CASE i = 0
  <2>1. answer' = Absent /\ UNCHANGED slot
    BY <1>2 DEF Commit
  <2>2. UNCHANGED Contents
    BY <2>1 DEF Contents, Holding
  <2>3. Contents[n] = Absent
    <3>1. 0 \notin Slots
      BY StoreAssumption DEF Slots
    <3> QED
      BY <1>1, <1>2, <3>1, ContentsOfSlots DEF ContentsFaithful
  <2>4. Contents = [Contents EXCEPT ![n] = Absent]
    BY <2>3, SMTT(30) DEF Contents
  <2> QED
    BY <2>1, <2>2, <2>4 DEF Map!Forget
<1>3. CASE i # 0
  <2>1. /\ i \in Slots /\ slot[i].name = n
        /\ slot' = [slot EXCEPT ![i] = FreeSlot]
        /\ answer' = Absent
    BY <1>1, <1>3 DEF Commit
  <2>2. \A j \in Slots : slot'[j] = IF j = i THEN FreeSlot ELSE slot[j]
    BY <1>1, <2>1
  <2>3. FreeSlot.name = Absent /\ n # Absent
    BY <1>1, StoreAssumption DEF FreeSlot
  <2>4. \A j \in Slots : slot'[j].name # n
    BY <1>1, <2>1, <2>2, <2>3 DEF NoDuplicateNames
  <2>5. Contents'[n] = Absent
    BY <1>1, <2>4, ContentsOfSlots, ContentsOfSlotsAfter DEF ContentsFaithful
  <2>6. ASSUME NEW p \in Names, p # n PROVE Contents'[p] = Contents[p]
    <3>0. p # Absent
      BY StoreAssumption
    <3>1. CASE \E j \in Slots : slot[j].name = p
      <4>1. PICK j \in Slots : slot[j].name = p
        BY <3>1
      <4>2. slot'[j] = slot[j]
        BY <2>1, <2>2, <2>6, <4>1
      <4> QED
        BY <1>1, <4>1, <4>2, ContentsOfSlots, ContentsOfSlotsAfter DEF ContentsFaithful
    <3>2. CASE \A j \in Slots : slot[j].name # p
      <4>1. \A j \in Slots : slot'[j].name # p
        BY <2>2, <2>3, <3>0, <3>2
      <4> QED
        BY <1>1, <3>2, <4>1, ContentsOfSlots, ContentsOfSlotsAfter DEF ContentsFaithful
    <3> QED
      BY <3>1, <3>2
  <2>7. Contents' = [Contents EXCEPT ![n] = Absent]
    <3>1. \A p \in Names : Contents'[p] = [Contents EXCEPT ![n] = Absent][p]
      BY <2>5, <2>6 DEF Contents
    <3> QED
      BY <3>1 DEF Contents
  <2> QED
    BY <2>1, <2>7 DEF Map!Forget
<1> QED
  BY <1>2, <1>3

\* The store implements the map its callers rely on (include/ntstore.h): under
\* every interleaving of workers, a hit answers the value last written.
THEOREM StoreImplementsMap == Spec => ImplementsMap
<1>1. Init => Map!MapInit
  <2> SUFFICES ASSUME Init PROVE Map!MapInit
    OBVIOUS
  <2>1. \A n \in Names : Holding(n) = {}
    BY StoreAssumption DEF Init, Holding, FreeSlot
  <2> QED
    BY <2>1 DEF Init, Map!MapInit, Contents
<1>2. StoreInv /\ StoreInv' /\ [Next]_vars => [Map!MapNext]_<<Contents, op, answer>>
  <2> SUFFICES ASSUME StoreInv, StoreInv', [Next]_vars
               PROVE  [Map!MapNext]_<<Contents, op, answer>>
    OBVIOUS
  <2>1. ASSUME NEW w \in Workers, Commit(w)
        PROVE  Map!End(w)
    <3>1. op[w] \in Ops /\ op' = [op EXCEPT ![w] = Absent]
      BY <2>1 DEF StoreInv, OpInv, Commit, Return
    <3>2. op[w].kind \in {"set", "get", "del"} /\ op[w] \in Map!Requests
      BY <3>1 DEF Ops, Map!Requests
    <3> QED
      BY <2>1, <3>1, <3>2, SetIsPut, GetIsLookup, DelIsForget DEF Map!End
  <2>2. ASSUME NEW w \in Workers, Call(w)
        PROVE  Map!Begin(w)
    <3>1. op[w] = Absent
      BY <2>2 DEF StoreInv, OpInv, Call
    <3>2. \E o \in Map!Requests : op' = [op EXCEPT ![w] = o]
      BY <2>2 DEF Call, Ops, Map!Requests
    <3>3. UNCHANGED <<Contents, answer>>
      BY <2>2, Stutter DEF Call
    <3> QED
      BY <3>1, <3>2, <3>3 DEF Map!Begin
  <2>3. ASSUME NEW w \in Workers, Acquire(w) \/ Search(w)
        PROVE  UNCHANGED <<Contents, op, answer>>
    BY <2>3, Stutter DEF Acquire, Search
  <2>4. ASSUME Tick \/ UNCHANGED vars
        PROVE  UNCHANGED <<Contents, op, answer>>
    BY <2>4, Stutter DEF Tick, vars
  <2> QED
    BY <2>1, <2>2, <2>3, <2>4 DEF Next, Map!MapNext
<1> QED
  BY <1>1, <1>2, StoreInvariant, PTL DEF Spec, ImplementsMap, Map!MapSpec
-----------------------------------------------------------------------------
(* Whose slot a write takes. *)

\* Why the search chose the slot of another name: it has expired on the writer's clock, or
\* no slot is free and none was used before it.
Reason(w) ==
    LET s == slot[target[w]]
    IN  \/ Free(s) \/ s.name = op[w].name \/ Expired(s, now[w])
        \/ \A j \in Slots : ~Free(slot[j]) /\ s.acc <= slot[j].acc

\* A sample of the clock is not ahead of it, and the reason still holds at the commit.
ReasonInv ==
    /\ \A w \in Workers : now[w] <= tod
    /\ \A w \in Workers : pc[w] = "commit" /\ op[w].kind = "set" => Reason(w)

\* The high words keep the order of the clock, and a difference below a word does not wrap.
LEMMA HighGrows ==
    ASSUME NEW a \in Nat, NEW b \in Nat, a <= b
    PROVE  High(a) <= High(b) /\ High(a) \in Nat /\ High(b) \in Nat
BY StoreAssumption DEF High

LEMMA NoWrap == ASSUME NEW a \in Nat, a < TTL PROVE a % Word = a
BY StoreAssumption

LEMMA SetTargetReason ==
    ASSUME slot \in [Slots -> SlotType], NEW n \in Names, NEW t, NEW k \in SetTarget(n, t)
    PROVE  \/ Free(slot[k]) \/ slot[k].name = n \/ Expired(slot[k], t)
           \/ \A j \in Slots : ~Free(slot[j]) /\ slot[k].acc <= slot[j].acc
<1>1. CASE Holding(n) # {}
  BY <1>1 DEF SetTarget, FirstOf, Holding
<1>2. CASE Holding(n) = {} /\ Reusable(t) # {}
  <2>1. k \in FirstOf(Reusable(t))
    BY <1>2 DEF SetTarget
  <2> QED
    BY <2>1 DEF FirstOf, Reusable
<1>3. CASE Holding(n) = {} /\ Reusable(t) = {}
  <2>1. k \in LRU
    BY <1>3 DEF SetTarget
  <2>2. \A j \in Slots : ~Free(slot[j]) /\ slot[j].acc \in Nat
    BY <1>3 DEF Reusable, SlotType
  <2> QED
    BY <2>1, <2>2 DEF LRU
<1> QED
  BY <1>1, <1>2, <1>3

LEMMA ReasonKept ==
    ASSUME StoreInv, ReasonInv, [Next]_vars PROVE ReasonInv'
<1> USE DEF StoreInv
<1>1. /\ tod \in Nat /\ slot \in [Slots -> SlotType]
      /\ now \in [Workers -> Nat] /\ pc = [u \in Workers |-> pc[u]]
      /\ op = [u \in Workers |-> op[u]] /\ target = [u \in Workers |-> target[u]]
  BY DEF TypeOK
<1>2. ASSUME NEW w \in Workers, Call(w) PROVE ReasonInv'
  <2>1. \A u \in Workers : now'[u] <= tod'
    BY <1>1, <1>2 DEF ReasonInv, Call
  <2>2. \A u \in Workers : pc'[u] = "commit" =>
          pc[u] = "commit" /\ op'[u] = op[u] /\ now'[u] = now[u] /\ target'[u] = target[u]
    BY <1>1, <1>2 DEF Call
  <2> QED
    BY <1>2, <2>1, <2>2 DEF ReasonInv, Reason, Call
<1>3. ASSUME NEW w \in Workers, Acquire(w) PROVE ReasonInv'
  <2>1. \A u \in Workers : pc'[u] = "commit" => pc[u] = "commit"
    BY <1>1, <1>3 DEF Acquire
  <2> QED
    BY <1>3, <2>1 DEF ReasonInv, Reason, Acquire
<1>4. ASSUME NEW w \in Workers, Search(w) PROVE ReasonInv'
  <2>1. op[w] \in Ops
    BY <1>4 DEF OpInv, Search
  <2>2. op[w].name \in Names
    BY <2>1 DEF Ops
  <2>3. UNCHANGED <<tod, slot, op, now>>
    BY <1>4 DEF Search
  <2>4. ASSUME op[w].kind = "set" PROVE Reason(w)'
    <3>1. PICK k \in SetTarget(op[w].name, now[w]) : target' = [target EXCEPT ![w] = k]
      BY <1>4, <2>4 DEF Search
    <3>2. target'[w] = k
      BY <1>1, <3>1
    <3> QED
      BY <1>1, <2>2, <2>3, <3>2, SetTargetReason DEF Reason
  <2>5. ASSUME NEW u \in Workers, u # w, pc'[u] = "commit"
        PROVE  pc[u] = "commit" /\ target'[u] = target[u]
    BY <1>1, <1>4, <2>5 DEF Search
  <2> QED
    BY <2>3, <2>4, <2>5 DEF ReasonInv, Reason
<1>5. ASSUME NEW w \in Workers, Commit(w) PROVE ReasonInv'
  <2>1. \A u \in Workers : now'[u] <= tod'
    BY <1>1, <1>5 DEF ReasonInv, Commit, Return
  <2>2. \A u \in Workers : pc'[u] # "commit"
    BY <1>1, <1>5 DEF LatchInv, Inside, Commit, Return
  <2> QED
    BY <2>1, <2>2 DEF ReasonInv
<1>6. CASE Tick
  <2>1. \A u \in Workers : now'[u] <= tod'
    BY <1>1, <1>6 DEF ReasonInv, Tick
  <2> QED
    BY <1>6, <2>1 DEF ReasonInv, Reason, Tick
<1>7. CASE UNCHANGED vars
  BY <1>7 DEF ReasonInv, Reason, vars
<1> QED
  BY <1>2, <1>3, <1>4, <1>5, <1>6, <1>7 DEF Next

\* A step takes a slot from a live entry for one of the two reasons.
LEMMA TakesFor ==
    ASSUME StoreInv, ReasonInv, [Next]_vars, NEW i \in Slots, TakenOver(i), Live(slot[i])
    PROVE  \/ /\ \A j \in Slots : ~Free(slot[j])
              /\ \A j \in Slots : slot[i].acc <= slot[j].acc
           \/ \E w \in Workers : /\ pc[w] = "commit"
                                /\ target[w] = i
                                /\ High(now[w]) < High(slot[i].acc)
<1> USE DEF StoreInv
<1>1. /\ tod \in Nat /\ slot \in [Slots -> SlotType] /\ now \in [Workers -> Nat]
  BY DEF TypeOK
<1>2. slot' # slot
  BY DEF TakenOver
<1>3. PICK w \in Workers : Commit(w)
  BY <1>2 DEF Next, Call, Acquire, Search, Tick, vars
<1>4. i = target[w] /\ op[w].kind = "set" /\ slot[i].name # op[w].name
  <2>1. PICK s \in SlotType : /\ slot' = [slot EXCEPT ![target[w]] = s]
                              /\ \/ s.name = Absent \/ s.name = slot[target[w]].name
                                 \/ op[w].kind = "set" /\ s.name = op[w].name
    BY <1>2, <1>3, CommitSlot
  <2>2. slot'[i] = IF i = target[w] THEN s ELSE slot[i]
    BY <1>1, <2>1
  <2> QED
    BY <2>1, <2>2 DEF TakenOver
<1>5. pc[w] = "commit" /\ Reason(w) /\ now[w] <= tod
  BY <1>3, <1>4 DEF Commit, ReasonInv
<1>6. ASSUME Expired(slot[i], now[w]) PROVE High(now[w]) < High(slot[i].acc)
  <2>1. slot[i].acc \in Nat /\ now[w] \in Nat /\ tod \in Nat
    BY <1>1 DEF SlotType
  <2>2. /\ High(now[w]) <= High(tod) /\ High(now[w]) \in Nat /\ High(tod) \in Nat
        /\ High(slot[i].acc) \in Nat
    BY <1>5, <2>1, HighGrows
  <2>3. SUFFICES ASSUME High(slot[i].acc) <= High(now[w]) PROVE FALSE
    BY <2>2
  <2> DEFINE age == High(now[w]) - High(slot[i].acc)
  <2>4. age \in Nat /\ age < TTL
    BY <2>2, <2>3, StoreAssumption DEF Live
  <2>5. age % Word >= TTL
    BY <1>6 DEF Expired
  <2> HIDE DEF age
  <2> QED
    BY <2>4, <2>5, NoWrap, StoreAssumption
<1>7. ~Free(slot[i])
  BY DEF TakenOver, Free
<1> QED
  BY <1>4, <1>5, <1>6, <1>7 DEF Reason

\* A write costs a live entry its slot only when no slot is free and the entry is the least
\* recently used one, or when the writer waited for the latch with a clock sample from a
\* tick before the entry's last use, for any number of workers, names and slots and any
\* lifetime shorter than a word of ticks (nt_set, ntstore.c:85-118).
THEOREM EvictionIsJustified == Spec => EvictionJustified
<1>1. Init => ReasonInv
  BY StoreAssumption DEF Init, ReasonInv
<1>2. StoreInv /\ ReasonInv /\ [Next]_vars => ReasonInv'
  BY ReasonKept
<1>3. StoreInv /\ ReasonInv /\ [Next]_vars =>
        [\A i \in Slots : TakenOver(i) /\ Live(slot[i]) =>
           \/ /\ \A j \in Slots : ~Free(slot[j])
              /\ \A j \in Slots : slot[i].acc <= slot[j].acc
           \/ \E w \in Workers : /\ pc[w] = "commit"
                                /\ target[w] = i
                                /\ High(now[w]) < High(slot[i].acc)]_vars
  BY TakesFor
<1> QED
  BY <1>1, <1>2, <1>3, StoreInvariant, PTL DEF Spec, EvictionJustified

=============================================================================
