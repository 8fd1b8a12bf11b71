---------------------------- MODULE PartsProofs ----------------------------
(***************************************************************************)
(* Theorems of the parts of a request that run for themselves.             *)
(*                                                                         *)
(* The send loop never gives a live client up early, and the client has no *)
(* gap, for every response and every budget.  The table of a JCL deck      *)
(* stays whole for every deck and every failure of storage.  And a text    *)
(* body of any length becomes exactly the records of its lines, whatever   *)
(* the order of its terminators.  The reader of a request body answers     *)
(* with exactly the body that was sent, in however many chunks, and a      *)
(* refusal for want of storage is clean.                                   *)
(***************************************************************************)
EXTENDS MCParts, TLAPS, NaturalsInduction, WellFoundedInduction, FiniteSetTheorems, SequenceTheorems

-----------------------------------------------------------------------------
(* The send loop.  Its own count never runs ahead of the sends the client  *)
(* really took nothing of, which is what makes the claim inductive: a      *)
(* count kept across progress would break it.                              *)

\* While the client is served, the loop's count is covered by real stalls.
StallIsReal ==
    /\ idleSends \in Nat
    /\ ~dead => stall <= idleSends
    /\ spc = "send" => call <= Len(Buffers)

\* The buffers have lengths.
LEMMA BufferFacts ==
    Len(Buffers) \in Nat /\ \A k \in 1..Len(Buffers) : Buffers[k] \in Nat
BY SendAssumption DEF SendAssumption

SendInv == SendTypeOK /\ StallIsReal /\ GiveUpJustified

\* The first call finds nothing sent and nothing counted.
LEMMA SendInvInit == SendInit => SendInv
<1> SUFFICES ASSUME SendInit PROVE SendInv
  OBVIOUS
<1>1. SendTypeOK
  <2>1. call \in 1..(Len(Buffers) + 1)
    BY BufferFacts DEF SendInit
  <2>2. call <= Len(Buffers) => pos <= Buffers[call]
    BY BufferFacts DEF SendInit
  <2>3. stall \in 0..StallMax
    BY SendAssumption DEF SendAssumption, SendInit
  <2> QED BY <2>1, <2>2, <2>3 DEF SendInit, SendTypeOK
<1> QED BY <1>1 DEF SendInit, SendInv, StallIsReal, GiveUpJustified

\* A new call starts from nothing in its own buffer.
LEMMA NextCallTyped ==
    ASSUME SendInv, NextCall, call <= Len(Buffers)
    PROVE  /\ call' \in 1..(Len(Buffers) + 1)
           /\ pos' = 0 /\ stall' = 0 /\ spc' = "entry"
           /\ call' <= Len(Buffers) => 0 <= Buffers[call']
BY BufferFacts DEF SendInv, SendTypeOK, NextCall

\* Every step of the loop, the operator and the handler keeps the invariant.
LEMMA SendInvStep == SendInv /\ [SendNext]_sendVars => SendInv'
<1> SUFFICES ASSUME SendInv, [SendNext]_sendVars PROVE SendInv'
  OBVIOUS
<1>1. /\ Len(Buffers) \in Nat
      /\ \A k \in 1..Len(Buffers) : Buffers[k] \in Nat
      /\ StallMax \in Nat
  BY BufferFacts, SendAssumption DEF SendAssumption
<1>2. CASE Entry
  <2>1. CASE Buffers[call] = 0 /\ NextCall /\ UNCHANGED dead
    BY <1>1, <1>2, <2>1, NextCallTyped
    DEF SendInv, SendTypeOK, StallIsReal, GiveUpJustified, Entry
  <2>2. CASE Buffers[call] > 0 /\ ~dead /\ spc' = "send" /\ UNCHANGED <<call, pos, stall, dead>>
    BY <1>1, <1>2, <2>2 DEF SendInv, SendTypeOK, StallIsReal, GiveUpJustified, Entry
  <2>3. CASE Buffers[call] > 0 /\ dead /\ GiveUp
    <3>1. CASE NextCall
      BY <1>1, <1>2, <2>3, <3>1, NextCallTyped
      DEF SendInv, SendTypeOK, StallIsReal, GiveUpJustified, Entry, GiveUp
    <3>2. CASE call' = Len(Buffers) + 1 /\ spc' = "entry" /\ UNCHANGED <<pos, stall>>
      BY <1>1, <1>2, <2>3, <3>2
      DEF SendInv, SendTypeOK, StallIsReal, GiveUpJustified, Entry, GiveUp
    <3> QED BY <2>3, <3>1, <3>2 DEF GiveUp
  <2> QED BY <1>2, <2>1, <2>2, <2>3 DEF Entry
<1>3. CASE Progress
  <2>0. call <= Len(Buffers)
    BY <1>3 DEF Progress, SendInv, StallIsReal
  <2>1. Buffers[call] \in Nat /\ pos \in Nat
    BY <1>1, <2>0 DEF SendInv, SendTypeOK
  <2>2. pos' \in Nat /\ pos' <= Buffers[call]
    <3>1. PICK n \in 1..(Buffers[call] - pos) : pos' = pos + n
      BY <1>3 DEF Progress
    <3> QED BY <2>1, <3>1
  <2>3. /\ stall' = 0
        /\ idleSends' = IF dead THEN idleSends ELSE 0
        /\ UNCHANGED <<call, spc, dead, stopping, gone>>
    BY <1>3 DEF Progress
  <2>4. SendTypeOK'
    BY <1>1, <2>2, <2>3 DEF SendInv, SendTypeOK
  <2>5. StallIsReal'
    BY <2>3 DEF SendInv, StallIsReal
  <2>6. GiveUpJustified'
    <3>1. CASE dead
      BY <2>3, <3>1 DEF SendInv, GiveUpJustified
    <3>2. CASE ~dead
      BY <2>3, <3>2 DEF GiveUpJustified
    <3> QED BY <3>1, <3>2
  <2> QED
    BY <2>4, <2>5, <2>6 DEF SendInv
<1>4. CASE SocketDead
  BY <1>1, <1>4 DEF SendInv, SendTypeOK, StallIsReal, GiveUpJustified, SocketDead, GiveUp, NextCall
<1>5. CASE NoProgress
  <2>1. CASE (dead \/ stopping \/ stall + 1 > StallMax) /\ GiveUp
    <3>0. call <= Len(Buffers)
      BY <1>5 DEF NoProgress, SendInv, StallIsReal
    <3>1. SendTypeOK'
      <4>1. CASE NextCall
        BY <1>1, <1>5, <2>1, <3>0, <4>1, NextCallTyped DEF SendInv, SendTypeOK, NoProgress, GiveUp
      <4>2. CASE call' = Len(Buffers) + 1 /\ spc' = "entry" /\ UNCHANGED <<pos, stall>>
        BY <1>1, <1>5, <2>1, <4>2 DEF SendInv, SendTypeOK, NoProgress, GiveUp
      <4> QED BY <2>1, <4>1, <4>2 DEF GiveUp
    <3>2. StallIsReal'
      BY <1>1, <1>5, <2>1 DEF SendInv, StallIsReal, NoProgress, GiveUp, NextCall
    <3>3. /\ idleSends' = idleSends + 1 /\ idleSends \in Nat
          /\ UNCHANGED <<stopping, gone>>
      BY <1>5 DEF NoProgress, SendInv, StallIsReal
    <3>4. GiveUpJustified'
      <4>1. CASE dead
        BY <1>1, <3>3, <4>1 DEF SendInv, GiveUpJustified
      <4>2. CASE stopping
        BY <3>3, <4>2 DEF GiveUpJustified
      <4>3. CASE ~dead /\ stall + 1 > StallMax
        <5>1. stall <= idleSends /\ stall \in Nat
          BY <1>1, <4>3 DEF SendInv, StallIsReal, SendTypeOK
        <5> QED BY <1>1, <3>3, <4>3, <5>1 DEF GiveUpJustified
      <4> QED BY <2>1, <4>1, <4>2, <4>3
    <3> QED BY <3>1, <3>2, <3>4 DEF SendInv
  <2>2. CASE /\ ~dead /\ ~stopping /\ stall + 1 <= StallMax
             /\ stall' = stall + 1
             /\ UNCHANGED <<call, pos, spc, dead>>
    BY <1>1, <1>5, <2>2 DEF SendInv, SendTypeOK, StallIsReal, GiveUpJustified, NoProgress
  <2> QED BY <1>5, <2>1, <2>2 DEF NoProgress
<1>6. CASE Sent
  BY <1>1, <1>6 DEF SendInv, SendTypeOK, StallIsReal, GiveUpJustified, Sent, NextCall
<1>7. CASE Quiesce
  BY <1>7 DEF SendInv, SendTypeOK, StallIsReal, GiveUpJustified, Quiesce
<1>8. CASE UNCHANGED sendVars
  BY <1>8 DEF SendInv, SendTypeOK, StallIsReal, GiveUpJustified, sendVars
<1> QED
  BY <1>2, <1>3, <1>4, <1>5, <1>6, <1>7, <1>8 DEF SendNext, Loop, Returned

\* The loop gives a response up only for a dead socket, a client that took
\* nothing in StallMax + 1 sends in a row, or one that stalls while the server
\* stops, for every response and every budget (sendall.c: send_bytes).
THEOREM SlowClientIsServed == SendSpec => []GiveUpJustified
<1>1. SendInv => GiveUpJustified
  BY DEF SendInv
<1> QED
  BY SendInvInit, SendInvStep, <1>1, PTL DEF SendSpec

-----------------------------------------------------------------------------
(* The wire. *)

\* A byte of a buffer.
WireByte(b) ==
    /\ b = <<b[1], b[2]>>
    /\ b[1] \in 1..Len(Buffers) /\ b[2] \in Nat /\ b[2] >= 1

\* What the client has ends where the loop stands, as long as the response is served.
EndsHere(last) ==
    /\ pos > 0 => last = <<call, pos>>
    /\ pos = 0 => /\ last[1] < call /\ last[2] = Buffers[last[1]]
                  /\ \A k \in (last[1] + 1)..(call - 1) : Buffers[k] = 0

WireOK ==
    /\ swire \in Seq(Nat \X Nat)
    /\ \A i \in 1..Len(swire) : WireByte(swire[i])
    /\ ~dead => (swire = << >> => pos = 0) /\ (swire # << >> => EndsHere(swire[Len(swire)]))
    /\ spc = "send" => ~dead
    /\ spc = "entry" /\ ~dead => pos = 0

WireInv == SendInv /\ WireOK /\ NoGap

LEMMA WireInit == SendInit => WireOK /\ NoGap
BY DEF SendInit, WireOK, NoGap

\* The next buffer follows the one that is sent, or is empty.
LEMMA EndsMoves ==
    ASSUME SendInv, NEW last, WireByte(last), EndsHere(last), call <= Len(Buffers), pos = Buffers[call],
           NextCall
    PROVE  /\ last[1] < call' /\ last[2] = Buffers[last[1]]
           /\ \A k \in (last[1] + 1)..(call' - 1) : Buffers[k] = 0
<1>1. /\ call \in 1..Len(Buffers) /\ Len(Buffers) \in Nat /\ call' = call + 1
      /\ pos \in Nat
  BY BufferFacts DEF SendInv, SendTypeOK, NextCall
<1>2. CASE pos > 0
  <2>1. last[1] = call /\ last[2] = pos
    BY <1>2 DEF EndsHere
  <2> QED
    BY <1>1, <2>1
<1>3. CASE pos = 0
  <2>1. /\ last[1] < call /\ last[2] = Buffers[last[1]] /\ last[1] \in 1..Len(Buffers)
        /\ \A k \in (last[1] + 1)..(call - 1) : Buffers[k] = 0
    BY <1>3 DEF EndsHere, WireByte
  <2>2. \A k \in (last[1] + 1)..(call' - 1) : k \in (last[1] + 1)..(call - 1) \/ k = call
    BY <1>1, <2>1
  <2>3. \A k \in (last[1] + 1)..(call' - 1) : Buffers[k] = 0
    BY <1>3, <2>1, <2>2
  <2>4. last[1] < call'
    BY <1>1, <2>1
  <2> QED
    BY <2>1, <2>3, <2>4
<1> QED
  BY <1>1, <1>2, <1>3

LEMMA ProgressWire ==
    ASSUME WireInv, Progress PROVE WireOK' /\ NoGap'
<1>1. /\ call \in 1..Len(Buffers) /\ pos \in Nat /\ Buffers[call] \in Nat /\ ~dead
      /\ spc = "send" /\ Len(Buffers) \in Nat
  BY BufferFacts DEF WireInv, WireOK, SendInv, SendTypeOK, StallIsReal, Progress
<1>2. PICK n \in 1..(Buffers[call] - pos) :
        pos' = pos + n /\ swire' = swire \o [i \in 1..n |-> <<call, pos + i>>]
  BY DEF Progress
<1> DEFINE new == [i \in 1..n |-> <<call, pos + i>>]
           old == Len(swire)
<1>3. n \in Nat /\ n >= 1 /\ UNCHANGED <<call, spc, dead>>
  BY <1>1, <1>2 DEF Progress
<1>4. new \in Seq(Nat \X Nat) /\ Len(new) = n /\ \A i \in 1..n : new[i] = <<call, pos + i>>
  BY <1>1, <1>3
<1>5. swire \in Seq(Nat \X Nat) /\ old \in Nat
  BY DEF WireInv, WireOK
<1> HIDE DEF new
<1>6. /\ swire' \in Seq(Nat \X Nat) /\ Len(swire') = old + n
      /\ \A i \in 1..old : swire'[i] = swire[i]
      /\ \A i \in (old + 1)..(old + n) : swire'[i] = <<call, pos + (i - old)>>
  BY <1>2, <1>3, <1>4, <1>5 DEF new
<1> HIDE DEF old
<1>7. \A i \in 1..Len(swire') : WireByte(swire'[i])
  <2> TAKE i \in 1..Len(swire')
  <2>1. CASE i \in 1..old
    BY <1>6, <2>1 DEF WireInv, WireOK, old
  <2>2. CASE i \in (old + 1)..(old + n)
    <3>1. swire'[i] = <<call, pos + (i - old)>> /\ i - old >= 1 /\ i - old \in Nat
      BY <1>3, <1>5, <1>6, <2>2
    <3> QED
      BY <1>1, <3>1 DEF WireByte
  <2> QED
    BY <1>3, <1>5, <1>6, <2>1, <2>2
<1>8. swire' # << >> /\ swire'[Len(swire')] = <<call, pos'>> /\ pos' > 0 /\ pos' \in Nat
  <2>1. old + n \in (old + 1)..(old + n) /\ pos' = pos + n
    BY <1>2, <1>3, <1>5
  <2>2. swire'[old + n] = <<call, pos + (old + n - old)>> /\ old + n - old = n
    BY <1>3, <1>5, <1>6, <2>1
  <2>3. swire'[Len(swire')] = <<call, pos'>>
    BY <1>6, <2>1, <2>2
  <2>4. Len(swire') > 0 /\ pos' > 0 /\ pos' \in Nat
    BY <1>1, <1>3, <1>5, <1>6, <2>1
  <2> QED
    BY <2>3, <2>4
<1>9. WireOK'
  BY <1>1, <1>3, <1>6, <1>7, <1>8 DEF WireOK, EndsHere
<1>10. NoGap'
  <2> SUFFICES ASSUME NEW i \in 1..(Len(swire') - 1) PROVE Follows(swire'[i], swire'[i + 1])
    BY DEF NoGap
  <2>1. CASE i < old
    <3>1. i \in 1..(old - 1) /\ i \in 1..old /\ i + 1 \in 1..old
      BY <1>5, <1>6, <1>3, <2>1
    <3> QED
      BY <1>6, <3>1 DEF WireInv, NoGap, old
  <2>2. CASE i = old
    <3>1. i \in 1..old /\ swire'[i] = swire[i] /\ swire'[i + 1] = <<call, pos + 1>>
      BY <1>3, <1>5, <1>6, <2>2, SMTT(30)
    <3>2. EndsHere(swire[i]) /\ WireByte(swire[i])
      BY <1>1, <1>5, <2>2, <3>1 DEF WireInv, WireOK, old
    <3>3. CASE pos > 0
      BY <1>1, <3>1, <3>2, <3>3 DEF EndsHere, Follows
    <3>4. CASE pos = 0
      BY <1>1, <3>1, <3>2, <3>4 DEF EndsHere, Follows, WireByte
    <3> QED
      BY <1>1, <3>3, <3>4
  <2>3. CASE i > old
    <3>0. Len(swire') = old + n
      BY <1>6
    <3>1. i \in (old + 1)..(old + n) /\ i + 1 \in (old + 1)..(old + n)
      BY <1>3, <1>5, <2>3, <3>0
    <3>2. swire'[i] = <<call, pos + (i - old)>>
      BY <1>6, <3>1
    <3>3. PICK j \in (old + 1)..(old + n) : j = i + 1
      BY <3>1
    <3>4. swire'[j] = <<call, pos + (j - old)>>
      BY <1>6, <3>3
    <3>5. pos + (j - old) = pos + (i - old) + 1
      BY <1>1, <1>5, <3>1, <3>3
    <3>6. Follows(swire'[i], swire'[j])
      BY <3>2, <3>4, <3>5 DEF Follows
    <3> QED
      BY <3>3, <3>6
  <2> QED
    BY <1>3, <1>5, <1>6, <2>1, <2>2, <2>3
<1> QED
  BY <1>9, <1>10

\* A step that sends nothing.
LEMMA SilentWire ==
    ASSUME WireInv, [SendNext]_sendVars, ~Progress PROVE WireOK' /\ NoGap'
<1>1. UNCHANGED swire
  BY DEF SendNext, Loop, Entry, SocketDead, NoProgress, Sent, Quiesce, Returned, sendVars
<1>2. NoGap'
  BY <1>1 DEF WireInv, NoGap
<1>3. SendInv' /\ SendInv
  BY SendInvStep DEF WireInv
<1>4. WireOK'
  <2>1. CASE dead'
    <3>1. spc' = "send" => ~dead'
      BY <2>1 DEF WireInv, WireOK, SendNext, Loop, Entry, SocketDead, NoProgress, Sent, Quiesce,
         Returned, sendVars, GiveUp, NextCall
    <3> QED
      BY <1>1, <2>1, <3>1 DEF WireInv, WireOK
  <2>2. CASE ~dead' /\ NextCall /\ call <= Len(Buffers) /\ pos = Buffers[call] /\ ~dead
    <3>1. pos' = 0 /\ spc' = "entry"
      BY <2>2 DEF NextCall
    <3>2. swire # << >> => EndsHere(swire[Len(swire)])'
      <4> SUFFICES ASSUME swire # << >> PROVE EndsHere(swire[Len(swire)])'
        OBVIOUS
      <4>1. Len(swire) \in 1..Len(swire)
        BY DEF WireInv, WireOK
      <4>2. WireByte(swire[Len(swire)]) /\ EndsHere(swire[Len(swire)])
        BY <2>2, <4>1 DEF WireInv, WireOK
      <4>3. LET last == swire[Len(swire)] IN
              /\ last[1] < call' /\ last[2] = Buffers[last[1]]
              /\ \A k \in (last[1] + 1)..(call' - 1) : Buffers[k] = 0
        BY <1>3, <2>2, <4>2, EndsMoves
      <4> QED
        BY <1>1, <3>1, <4>3 DEF EndsHere
    <3> QED
      BY <1>1, <2>2, <3>1, <3>2 DEF WireInv, WireOK
  <2>3. CASE ~dead' /\ UNCHANGED <<call, pos, dead>>
             /\ ((spc' = "send" /\ spc = "entry") \/ UNCHANGED spc)
    BY <1>1, <2>3 DEF WireInv, WireOK, EndsHere
  <2>4. \/ dead'
        \/ ~dead' /\ NextCall /\ call <= Len(Buffers) /\ pos = Buffers[call] /\ ~dead
        \/ ~dead' /\ UNCHANGED <<call, pos, dead>>
             /\ ((spc' = "send" /\ spc = "entry") \/ UNCHANGED spc)
    <3>1. CASE Entry
      BY <3>1 DEF Entry, GiveUp, WireInv, WireOK
    <3>2. CASE SocketDead \/ NoProgress
      BY <3>2 DEF SocketDead, NoProgress, GiveUp
    <3>3. CASE Sent
      BY <3>3 DEF Sent, WireInv, SendInv, StallIsReal, WireOK
    <3>4. CASE Quiesce \/ Returned \/ UNCHANGED sendVars
      BY <3>4 DEF Quiesce, Returned, sendVars
    <3> QED
      BY <3>1, <3>2, <3>3, <3>4 DEF SendNext, Loop
  <2> QED
    BY <2>1, <2>2, <2>3, <2>4
<1> QED
  BY <1>2, <1>4

\* The client has a piece of the response without a gap, a repetition or a byte out of
\* place, for every response, however much each send takes, also when the handler goes on
\* after a call has failed (sendall.c: send_bytes, common.c: send_all).
THEOREM WireHasNoGap == SendSpec => []NoGap
<1>1. SendInit => WireInv
  BY SendInvInit, WireInit DEF WireInv
<1>2. WireInv /\ [SendNext]_sendVars => WireInv'
  <2> SUFFICES ASSUME WireInv, [SendNext]_sendVars PROVE WireInv'
    OBVIOUS
  <2>1. SendInv'
    BY SendInvStep DEF WireInv
  <2>2. WireOK' /\ NoGap'
    BY ProgressWire, SilentWire
  <2> QED
    BY <2>1, <2>2 DEF WireInv
<1>3. WireInv => NoGap
  BY DEF WireInv
<1> QED
  BY <1>1, <1>2, <1>3, PTL DEF SendSpec

-----------------------------------------------------------------------------
(* Numbers. *)

Smaller == OpToRel(<, Nat)

LEMMA SmallerDef == ASSUME NEW x \in Nat, NEW y \in Nat PROVE <<x, y>> \in Smaller <=> x < y
BY DEF Smaller, OpToRel

\* A set of numbers has a least one.
LEMMA LeastOf ==
    ASSUME NEW T, T \subseteq Nat, T # {} PROVE \E x \in T : \A y \in T : x <= y
<1>1. IsWellFoundedOn(Smaller, Nat)
  BY NatLessThanWellFounded DEF Smaller
<1>2. PICK x \in T : \A y \in T : ~(<<y, x>> \in Smaller)
  BY <1>1, WFMin
<1>3. \A y \in T : y \in Nat /\ x \in Nat /\ ~(y < x)
  BY <1>2, SmallerDef
<1>4. \A y \in T : x <= y
  BY <1>3
<1> QED
  BY <1>4

\* Induction over the natural numbers, by the least one that is missing.
LEMMA SetInduction ==
    ASSUME NEW S, 0 \in S, \A n \in Nat : n \in S => n + 1 \in S
    PROVE  Nat \subseteq S
<1> DEFINE T == Nat \ S
<1> SUFFICES ASSUME T # {} PROVE FALSE
  OBVIOUS
<1>1. T \subseteq Nat /\ T # {}
  OBVIOUS
<1> HIDE DEF T
<1>2. PICK x \in T : \A y \in T : x <= y
  BY <1>1, LeastOf
<1> USE DEF T
<1>3. x \in Nat /\ x # 0
  OBVIOUS
<1>4. x - 1 \in Nat /\ ~(x <= x - 1)
  BY <1>3
<1>5. x - 1 \notin T
  BY <1>2, <1>4
<1> QED
  BY <1>3, <1>4, <1>5

-----------------------------------------------------------------------------
(* The table of a deck. *)

\* Capacities that double, from the one there is.
Doubles(f, n) == f = [k \in 0 .. n |-> IF k = 0 THEN capacity ELSE 2 * f[k - 1]]

LEMMA DoublesExist == ASSUME NEW n \in Nat PROVE \E f : Doubles(f, n)
<1> DEFINE S == {m \in Nat : \E f : Doubles(f, m)}
<1>1. 0 \in S
  <2> DEFINE f == [k \in 0 .. 0 |-> capacity]
  <2>1. \A k \in 0 .. 0 : k = 0
    OBVIOUS
  <2>2. Doubles(f, 0)
    BY <2>1 DEF Doubles
  <2> QED
    BY <2>2
<1>2. ASSUME NEW m \in Nat, m \in S PROVE m + 1 \in S
  <2>1. PICK f : Doubles(f, m)
    BY <1>2
  <2> DEFINE g == [k \in 0 .. m + 1 |-> IF k <= m THEN f[k] ELSE 2 * f[k - 1]]
  <2>2. ASSUME NEW k \in 0 .. m + 1 PROVE g[k] = IF k = 0 THEN capacity ELSE 2 * g[k - 1]
    <3>1. k # 0 => g[k - 1] = f[k - 1]
      <4>1. k # 0 => k - 1 \in 0 .. m + 1 /\ k - 1 <= m
        OBVIOUS
      <4> QED
        BY <4>1
    <3>2. k <= m => f[k] = IF k = 0 THEN capacity ELSE 2 * f[k - 1]
      BY <2>1 DEF Doubles
    <3>3. ~(k <= m) => k # 0
      OBVIOUS
    <3> QED
      BY <3>1, <3>2, <3>3
  <2>3. g = [k \in 0 .. m + 1 |-> g[k]]
    OBVIOUS
  <2> HIDE DEF g
  <2>4. Doubles(g, m + 1)
    BY <2>2, <2>3 DEF Doubles
  <2> QED
    BY <2>4
<1> HIDE DEF S
<1>3. Nat \subseteq S
  BY <1>1, <1>2, SetInduction
<1> QED
  BY <1>3 DEF S

\* Doubling a capacity k times makes it greater than k.
LEMMA DoublesGrow ==
    ASSUME NEW n \in Nat, NEW f, Doubles(f, n), capacity \in Nat \ {0}
    PROVE  \A k \in 0 .. n : f[k] \in Nat /\ f[k] > k
<1> DEFINE S == {k \in Nat : k <= n => f[k] \in Nat /\ f[k] > k}
<1>1. 0 \in S
  BY DEF Doubles
<1>2. ASSUME NEW k \in Nat, k \in S PROVE k + 1 \in S
  <2> SUFFICES ASSUME k + 1 <= n PROVE f[k + 1] \in Nat /\ f[k + 1] > k + 1
    OBVIOUS
  <2>1. k + 1 \in 0 .. n /\ k + 1 # 0 /\ (k + 1) - 1 = k /\ k <= n
    OBVIOUS
  <2>2. f[k + 1] = 2 * f[k]
    BY <2>1 DEF Doubles
  <2>3. f[k] \in Nat /\ f[k] > k
    BY <1>2, <2>1
  <2> QED
    BY <2>2, <2>3
<1> HIDE DEF S
<1>3. Nat \subseteq S
  BY <1>1, <1>2, SetInduction
<1> QED
  BY <1>3 DEF S

\* The new capacity suffices, unless there is none.
LEMMA NewCapacitySuffices ==
    ASSUME capacity \in Nat \ {0}, NEW required \in Nat
    PROVE  /\ Deck!NewCapacity(required) \in Nat
           /\ Deck!NewCapacity(required) # 0 => Deck!NewCapacity(required) >= required
<1> DEFINE cap == CHOOSE f : Doubles(f, required)
           suits(k) == cap[k] >= required /\ \A j \in 0..(k - 1) : cap[j] < required
           first == CHOOSE k \in 0..required : suits(k)
<1>1. Doubles(cap, required)
  BY DoublesExist
<1>2. Deck!NewCapacity(required) =
        IF \E j \in 0..(first - 1) : cap[j] > IntMax \div 2 THEN 0 ELSE cap[first]
  BY DEF Deck!NewCapacity, Doubles
<1> HIDE DEF cap
<1>3. \A k \in 0 .. required : cap[k] \in Nat /\ cap[k] > k
  BY <1>1, DoublesGrow
<1>4. \E k \in 0 .. required : suits(k)
  <2> DEFINE T == {k \in 0 .. required : cap[k] >= required}
  <2>1. required \in T /\ T \subseteq Nat
    BY <1>3
  <2> HIDE DEF T
  <2>2. PICK k \in T : \A j \in T : k <= j
    BY <2>1, LeastOf
  <2> USE DEF T
  <2>3. \A j \in 0 .. k - 1 : j \in 0 .. required /\ j \notin T
    BY <2>2
  <2>4. suits(k)
    BY <1>3, <2>2, <2>3
  <2> QED
    BY <2>2, <2>4
<1>5. first \in 0 .. required /\ cap[first] >= required
  <2>1. first \in 0 .. required /\ suits(first)
    BY <1>4
  <2> QED
    BY <2>1
<1> HIDE DEF first
<1> QED
  BY <1>2, <1>3, <1>5

\* Two blocks are allocated, and both are as large as the capacity says.
DeckTyped ==
    /\ table \in {"reading", "ready", "failed", "freed"}
    /\ capacity \in Nat \ {0} /\ numLines \in Nat /\ made \in Nat
    /\ lines = [block |-> lines.block, entry |-> lines.entry]
    /\ lines.block \in 1 .. made /\ linesBuf \in 1 .. made /\ lines.block # linesBuf

DeckHeap ==
    table # "freed" =>
      /\ DOMAIN heap = {lines.block, linesBuf}
      /\ heap[lines.block] \in Nat /\ heap[linesBuf] \in Nat
      /\ heap[lines.block] >= capacity /\ heap[linesBuf] >= capacity

DeckInv == DeckTyped /\ DeckHeap /\ TableWhole

LEMMA DeckInit == Deck!Init => DeckInv
<1> SUFFICES ASSUME Deck!Init PROVE DeckInv
  OBVIOUS
<1>1. Initial \in Nat \ {0}
  BY DeckAssumption
<1>2. lines.block = 1 /\ lines.entry = Deck!Entries(2, Initial)
  BY DEF Deck!Init
<1>3. DeckTyped /\ DeckHeap
  BY <1>1, <1>2 DEF Deck!Init, DeckTyped, DeckHeap
<1>4. \A i \in 0 .. Initial - 1 : lines.entry[i] = <<2, i>>
  BY <1>1, <1>2 DEF Deck!Entries
<1>5. TableWhole
  BY <1>1, <1>2, <1>3, <1>4 DEF Deck!Init, TableWhole, Deck!TableWhole, DeckHeap
<1> QED
  BY <1>3, <1>5 DEF DeckInv

\* Whichever reallocation fails, the table is one that is whole.
LEMMA GrowDeck ==
    ASSUME DeckInv, table = "reading", NEW required \in Nat, required > capacity,
           NEW done \in {"reading", "ready"}, Deck!Grow(required, done)
    PROVE  /\ capacity' \in Nat \ {0} /\ made' \in Nat /\ table' \in {"failed", done}
           /\ table' = "failed" => capacity' = capacity
           /\ table' = done => capacity' >= required
           /\ lines' = [block |-> lines'.block, entry |-> lines'.entry]
           /\ lines'.block \in 1 .. made' /\ linesBuf' \in 1 .. made' /\ lines'.block # linesBuf'
           /\ DeckHeap'
           /\ \A i \in 0 .. (capacity' - 1) : lines'.entry[i] = <<linesBuf', i>>
<1> DEFINE n == Deck!NewCapacity(required)
           array == made + 1
           buffer == made + 2
<1>1. n \in Nat /\ (n # 0 => n >= required)
  BY NewCapacitySuffices DEF DeckInv, DeckTyped
<1> HIDE DEF n
<1>2. /\ DOMAIN heap = {lines.block, linesBuf} /\ heap[linesBuf] \in Nat
      /\ heap[lines.block] \in Nat
      /\ heap[lines.block] >= capacity /\ heap[linesBuf] >= capacity
      /\ \A i \in 0..(capacity - 1) : lines.entry[i] = <<linesBuf, i>>
  BY DEF DeckInv, DeckHeap, TableWhole, Deck!TableWhole
<1>3. /\ capacity \in Nat \ {0} /\ made \in Nat /\ lines.block \in 1 .. made
      /\ lines = [block |-> lines.block, entry |-> lines.entry]
      /\ linesBuf \in 1 .. made /\ lines.block # linesBuf
  BY DEF DeckInv, DeckTyped
<1>4. array \notin 1 .. made /\ buffer \notin 1 .. made /\ array # buffer
      /\ array \in 1 .. made + 2 /\ buffer \in 1 .. made + 2
  BY <1>3
<1>5. CASE /\ table' = "failed"
           /\ UNCHANGED <<heap, made, lines, linesBuf, capacity>>
  BY <1>2, <1>3, <1>5 DEF DeckHeap
<1>6. CASE /\ n # 0
           /\ made' = made + 2
           /\ heap' = Deck!Realloc(heap, lines.block, array, n)
           /\ lines' = [lines EXCEPT !.block = array]
           /\ table' = "failed"
           /\ UNCHANGED <<linesBuf, capacity>>
  <2>1. lines'.block = array /\ lines'.entry = lines.entry
        /\ lines' = [block |-> lines'.block, entry |-> lines'.entry]
    BY <1>3, <1>6
  <2>2. /\ DOMAIN heap' = (DOMAIN heap \ {lines.block}) \cup {array}
        /\ heap'[array] = n
        /\ \A x \in DOMAIN heap \ {lines.block} : x # array => heap'[x] = heap[x]
    BY <1>6 DEF Deck!Realloc
  <2>3. DOMAIN heap' = {array, linesBuf} /\ heap'[linesBuf] = heap[linesBuf]
    BY <1>2, <1>3, <1>4, <2>2
  <2>4. n >= capacity
    BY <1>1, <1>3, <1>6
  <2>5. DeckHeap'
    BY <1>1, <1>2, <1>6, <2>1, <2>2, <2>3, <2>4 DEF DeckHeap
  <2>6. lines'.block \in 1 .. made' /\ linesBuf' \in 1 .. made' /\ lines'.block # linesBuf'
        /\ made' \in Nat /\ table' = "failed" /\ capacity' = capacity
    BY <1>3, <1>4, <1>6, <2>1
  <2>7. \A i \in 0 .. (capacity' - 1) : lines'.entry[i] = <<linesBuf', i>>
    BY <1>2, <1>6, <2>1
  <2> QED
    BY <1>3, <2>1, <2>5, <2>6, <2>7
<1>7. CASE /\ n # 0
           /\ made' = made + 2
           /\ heap' = Deck!Realloc(Deck!Realloc(heap, lines.block, array, n), linesBuf, buffer, n)
           /\ lines' = [block |-> array, entry |-> Deck!Entries(buffer, n)]
           /\ linesBuf' = buffer
           /\ capacity' = n
           /\ table' = done
  <2>1. PICK h : h = Deck!Realloc(heap, lines.block, array, n)
    OBVIOUS
  <2>2. /\ DOMAIN h = (DOMAIN heap \ {lines.block}) \cup {array}
        /\ h[array] = n
    BY <2>1 DEF Deck!Realloc
  <2>3. /\ DOMAIN heap' = (DOMAIN h \ {linesBuf}) \cup {buffer}
        /\ heap'[buffer] = n
        /\ \A x \in DOMAIN h \ {linesBuf} : x # buffer => heap'[x] = h[x]
    <3>1. heap' = Deck!Realloc(h, linesBuf, buffer, n)
      BY <1>7, <2>1
    <3> QED
      BY <3>1 DEF Deck!Realloc
  <2>4. DOMAIN heap' = {array, buffer} /\ heap'[array] = n
    BY <1>2, <1>3, <1>4, <2>2, <2>3
  <2>5. lines'.block = array /\ lines'.entry = Deck!Entries(buffer, n)
        /\ lines' = [block |-> lines'.block, entry |-> lines'.entry]
    BY <1>7
  <2>6. n >= required /\ n \in Nat \ {0}
    BY <1>1, <1>7
  <2>7. DeckHeap'
    BY <1>7, <2>3, <2>4, <2>5, <2>6 DEF DeckHeap
  <2>8. \A i \in 0 .. (n - 1) : Deck!Entries(buffer, n)[i] = <<buffer, i>>
    BY DEF Deck!Entries
  <2>9. \A i \in 0 .. (capacity' - 1) : lines'.entry[i] = <<linesBuf', i>>
    BY <1>7, <2>5, <2>8
  <2> QED
    BY <1>3, <1>4, <1>7, <2>5, <2>6, <2>7, <2>9
<1> QED
  BY <1>5, <1>6, <1>7, Zenon DEF Deck!Grow, n

LEMMA UnchangedDeck == ASSUME DeckInv, UNCHANGED deckVars PROVE DeckInv'
BY DEF DeckInv, DeckTyped, DeckHeap, TableWhole, Deck!TableWhole, deckVars

LEMMA DeckNext == ASSUME DeckInv, Deck!Next PROVE DeckInv'
<1>0. /\ table \in {"reading", "ready", "failed", "freed"}
      /\ capacity \in Nat \ {0} /\ numLines \in Nat /\ made \in Nat
      /\ lines = [block |-> lines.block, entry |-> lines.entry]
      /\ lines.block \in 1 .. made /\ linesBuf \in 1 .. made /\ lines.block # linesBuf
  BY DEF DeckInv, DeckTyped
<1>1. CASE Deck!ReadLine
  <2>1. table = "reading" /\ numLines <= capacity
    BY <1>1 DEF Deck!ReadLine, DeckInv, TableWhole, Deck!TableWhole
  <2>2. CASE numLines < capacity /\ UNCHANGED <<heap, made, lines, linesBuf, capacity, table>>
    <3>1. numLines' = numLines + 1
      BY <1>1, <2>1, <2>2 DEF Deck!ReadLine
    <3>2. DeckTyped' /\ DeckHeap'
      BY <1>0, <2>2, <3>1 DEF DeckInv, DeckTyped, DeckHeap
    <3>3. TableWhole'
      BY <1>0, <2>1, <2>2, <3>1 DEF DeckInv, TableWhole, Deck!TableWhole
    <3> QED
      BY <3>2, <3>3 DEF DeckInv
  <2>3. CASE numLines >= capacity /\ Deck!Grow(numLines + 1, "reading")
    <3>1. /\ capacity' \in Nat \ {0} /\ made' \in Nat /\ table' \in {"failed", "reading"}
          /\ table' = "failed" => capacity' = capacity
          /\ table' = "reading" => capacity' >= numLines + 1
          /\ lines' = [block |-> lines'.block, entry |-> lines'.entry]
          /\ lines'.block \in 1 .. made' /\ linesBuf' \in 1 .. made' /\ lines'.block # linesBuf'
          /\ DeckHeap'
          /\ \A i \in 0 .. (capacity' - 1) : lines'.entry[i] = <<linesBuf', i>>
      <4>1. numLines + 1 \in Nat /\ numLines + 1 > capacity
        BY <1>0, <2>3
      <4> QED
        BY <2>1, <2>3, <4>1, GrowDeck
    <3>2. numLines' = IF table' = "reading" THEN numLines + 1 ELSE numLines
      BY <1>1 DEF Deck!ReadLine
    <3>3. DeckTyped'
      BY <1>0, <3>1, <3>2 DEF DeckTyped
    <3>4. numLines' <= capacity'
      BY <1>0, <2>1, <3>1, <3>2
    <3>5. TableWhole'
      BY <3>1, <3>4 DEF TableWhole, Deck!TableWhole, DeckHeap
    <3> QED
      BY <3>1, <3>3, <3>5 DEF DeckInv
  <2> QED
    BY <1>1, <2>2, <2>3 DEF Deck!ReadLine
<1>2. CASE Deck!MakeRoom
  <2>1. table = "reading" /\ numLines <= capacity /\ numLines' = numLines
    BY <1>2 DEF Deck!MakeRoom, DeckInv, TableWhole, Deck!TableWhole
  <2>2. CASE /\ numLines + 2 <= capacity
             /\ table' = "ready"
             /\ UNCHANGED <<heap, made, lines, linesBuf, capacity>>
    <3>1. DeckTyped' /\ DeckHeap'
      BY <1>0, <2>1, <2>2 DEF DeckInv, DeckTyped, DeckHeap
    <3>2. TableWhole'
      BY <1>0, <2>1, <2>2 DEF DeckInv, TableWhole, Deck!TableWhole
    <3> QED
      BY <3>1, <3>2 DEF DeckInv
  <2>3. CASE numLines + 2 > capacity /\ Deck!Grow(numLines + 2, "ready")
    <3>1. /\ capacity' \in Nat \ {0} /\ made' \in Nat /\ table' \in {"failed", "ready"}
          /\ table' = "failed" => capacity' = capacity
          /\ table' = "ready" => capacity' >= numLines + 2
          /\ lines' = [block |-> lines'.block, entry |-> lines'.entry]
          /\ lines'.block \in 1 .. made' /\ linesBuf' \in 1 .. made' /\ lines'.block # linesBuf'
          /\ DeckHeap'
          /\ \A i \in 0 .. (capacity' - 1) : lines'.entry[i] = <<linesBuf', i>>
      <4>1. numLines + 2 \in Nat
        BY <1>0
      <4> QED
        BY <2>1, <2>3, <4>1, GrowDeck
    <3>2. DeckTyped'
      BY <1>0, <2>1, <3>1 DEF DeckTyped
    <3>3. numLines' <= capacity' /\ (table' = "ready" => numLines' + 2 <= capacity')
      BY <1>0, <2>1, <3>1
    <3>4. TableWhole'
      BY <3>1, <3>3 DEF TableWhole, Deck!TableWhole, DeckHeap
    <3> QED
      BY <3>1, <3>2, <3>4 DEF DeckInv
  <2> QED
    BY <1>2, <2>2, <2>3 DEF Deck!MakeRoom
<1>3. CASE Deck!Release
  <2>1. /\ table # "freed" /\ table' = "freed"
        /\ heap' = Deck!Without(Deck!Without(heap, lines.block), linesBuf)
        /\ UNCHANGED <<made, lines, linesBuf, capacity, numLines>>
    BY <1>3 DEF Deck!Release
  <2>2. DOMAIN heap = {lines.block, linesBuf}
    BY <2>1 DEF DeckInv, DeckHeap
  <2>3. heap' = << >>
    <3>1. PICK h : h = Deck!Without(heap, lines.block)
      OBVIOUS
    <3>2. DOMAIN h = {linesBuf}
      BY <1>0, <2>2, <3>1 DEF Deck!Without
    <3>3. heap' = [x \in {} |-> h[x]]
      <4>1. heap' = [x \in DOMAIN h \ {linesBuf} |-> h[x]]
        BY <2>1, <3>1 DEF Deck!Without
      <4>2. DOMAIN h \ {linesBuf} = {}
        BY <3>2
      <4> QED
        BY <4>1, <4>2
    <3> QED
      BY <3>3
  <2> QED
    BY <1>0, <2>1, <2>3 DEF DeckInv, DeckTyped, DeckHeap, TableWhole, Deck!TableWhole
<1>4. CASE Deck!Freed
  BY <1>4, UnchangedDeck DEF Deck!Freed, Deck!tableVars, deckVars
<1> QED
  BY <1>1, <1>2, <1>3, <1>4 DEF Deck!Next

\* Whichever reallocation of the table of a deck fails, every line below the capacity lies in
\* the live buffer at its own slot, what was read and the two lines of the job card fit, and
\* at the end no block is left, for every deck and every initial capacity (jclines.c:
\* grow_lines_arrays, #220).
THEOREM TablesAreWhole == PartsSpec => []TableWhole
<1>1. PartsInit => DeckInv
  BY DeckInit DEF PartsInit
<1>2. DeckInv /\ [PartsNext]_allVars => DeckInv'
  <2> SUFFICES ASSUME DeckInv, [PartsNext]_allVars PROVE DeckInv'
    OBVIOUS
  <2>1. Deck!Next \/ UNCHANGED deckVars
    BY DEF PartsNext, ReadStep, SendOn, SendOther, ListStep, ListOther, FrameStep, DeckStep, allVars
  <2> QED
    BY <2>1, DeckNext, UnchangedDeck
<1>3. DeckInv => TableWhole
  BY DEF DeckInv
<1> QED
  BY <1>1, <1>2, <1>3, PTL DEF PartsSpec

-----------------------------------------------------------------------------
(* The framing of a text. *)

Total == Len(whole)
Chars == Range(whole) \cup {" "}
Room == Frame!ContentMax(format)

\* Where the line in front of byte i begins.
IsStart(s, i) ==
    /\ s \in 1 .. i
    /\ s = 1 \/ whole[s - 1] \in Frame!Terminators
    /\ \A j \in s .. (i - 1) : whole[j] \notin Frame!Terminators

EndsTo(e) == {d \in Frame!Ends : d <= e}
Cut(line) == SubSeq(line, 1, IF Len(line) > Room THEN Room ELSE Len(line))

FrameTyped ==
    /\ whole \in Seq(Range(whole) \ {"end"}) /\ Room \in Nat \ {0}
    /\ rl = [buf |-> rl.buf, pending |-> rl.pending, truncated |-> rl.truncated]
    /\ rl.pending \in BOOLEAN /\ rl.truncated \in BOOLEAN
    /\ records \in Seq(Seq(Chars))

\* What there is of a text when p bytes of it have come.
FrameAt(p) ==
    /\ \E s : IsStart(s, p + 1)
    /\ rl.buf = Cut(Frame!LineTo(p + 1))
    /\ rl.pending <=> p >= 1 /\ whole[p] = "CR"
    /\ rl.truncated <=> \E i \in 1 .. p + 1 : Len(Frame!LineTo(i)) > Room
    /\ Len(records) = Cardinality(EndsTo(p))
    /\ \A e \in EndsTo(p) : records[Cardinality(EndsTo(e))] = Frame!Record(Frame!LineTo(e))

FrameInv ==
    /\ FrameTyped /\ FramedExact
    /\ text = <<"end">> \/ \E p \in 0 .. Total : text = SubSeq(whole, p + 1, Total) /\ FrameAt(p)

LEMMA StartUnique ==
    ASSUME NEW i \in Nat, NEW s, NEW t, IsStart(s, i), IsStart(t, i) PROVE s = t
<1>1. s \in Nat /\ t \in Nat /\ s >= 1 /\ t >= 1
  BY DEF IsStart
<1>2. ~(s < t)
  <2> SUFFICES ASSUME s < t PROVE FALSE
    OBVIOUS
  <2>1. t # 1 /\ t - 1 \in s .. (i - 1)
    BY <1>1 DEF IsStart
  <2> QED
    BY <2>1 DEF IsStart
<1>3. ~(t < s)
  <2> SUFFICES ASSUME t < s PROVE FALSE
    OBVIOUS
  <2>1. s # 1 /\ s - 1 \in t .. (i - 1)
    BY <1>1 DEF IsStart
  <2> QED
    BY <2>1 DEF IsStart
<1> QED
  BY <1>1, <1>2, <1>3

LEMMA LineToIs ==
    ASSUME NEW i \in Nat, NEW s, IsStart(s, i) PROVE Frame!LineTo(i) = SubSeq(whole, s, i - 1)
<1> DEFINE P(x) == /\ x = 1 \/ whole[x - 1] \in Frame!Terminators
                   /\ \A j \in x..(i - 1) : whole[j] \notin Frame!Terminators
           start == CHOOSE x \in 1..i : P(x)
<1>1. s \in 1 .. i /\ P(s)
  BY DEF IsStart
<1>2. start \in 1 .. i /\ P(start)
  BY <1>1
<1>3. Frame!LineTo(i) = SubSeq(whole, start, i - 1)
  BY DEF Frame!LineTo
<1> HIDE DEF start
<1>4. IsStart(start, i)
  BY <1>2 DEF IsStart
<1>5. start = s
  BY <1>4, StartUnique
<1> QED
  BY <1>3, <1>5

\* Byte p + 1 is a terminator, or a character of its line.
LEMMA StartMoves ==
    ASSUME NEW p \in Nat, NEW s, IsStart(s, p + 1)
    PROVE  /\ whole[p + 1] \in Frame!Terminators => IsStart(p + 2, p + 2)
           /\ whole[p + 1] \notin Frame!Terminators => IsStart(s, p + 2)
<1>1. s \in Nat /\ s >= 1 /\ s <= p + 1
  BY DEF IsStart
<1>2. (p + 2) - 1 = p + 1 /\ (p + 1) - 1 = p
  OBVIOUS
<1>3. whole[p + 1] \in Frame!Terminators => IsStart(p + 2, p + 2)
  BY <1>2 DEF IsStart
<1>4. ASSUME whole[p + 1] \notin Frame!Terminators PROVE IsStart(s, p + 2)
  <2>1. \A j \in s .. (p + 1) : j \in s .. p \/ j = p + 1
    BY <1>1
  <2>2. s \in 1 .. p + 2
    BY <1>1
  <2> QED
    BY <1>2, <1>4, <2>1, <2>2 DEF IsStart
<1> QED
  BY <1>3, <1>4

LEMMA BodyFacts ==
    ASSUME FrameTyped
    PROVE  /\ Total \in Nat /\ Room \in Nat \ {0} /\ DOMAIN whole = 1 .. Total
           /\ \A i \in 1 .. Total : whole[i] \in Chars /\ whole[i] # "end"
<1>1. Total \in Nat /\ whole \in [1 .. Total -> Range(whole) \ {"end"}]
  BY LenProperties DEF FrameTyped, Total
<1>2. ASSUME NEW i \in 1 .. Total PROVE whole[i] \in Range(whole) /\ whole[i] # "end"
  BY <1>1
<1>3. DOMAIN whole = 1 .. Total
  BY <1>1
<1> QED
  BY <1>1, <1>2, <1>3 DEF FrameTyped, Chars

\* A part of the body, and what is kept of it.
LEMMA PartIs ==
    ASSUME FrameTyped, NEW s \in Nat, NEW q \in Nat, s >= 1, s <= q + 1, q <= Total
    PROVE  /\ SubSeq(whole, s, q) \in Seq(Chars)
           /\ Len(SubSeq(whole, s, q)) = q - s + 1
           /\ \A i \in 1 .. q - s + 1 : SubSeq(whole, s, q)[i] = whole[s + i - 1]
<1>1. Total \in Nat /\ \A i \in 1 .. Total : whole[i] \in Chars
  BY BodyFacts
<1>2. \A i \in s .. q : i \in 1 .. Total
  BY <1>1
<1>3. \A i \in s .. q : whole[i] \in Chars
  BY <1>1, <1>2
<1>4. /\ SubSeq(whole, s, q) \in Seq(Chars)
      /\ Len(SubSeq(whole, s, q)) = IF s <= q THEN q - s + 1 ELSE 0
      /\ \A i \in 1 .. q - s + 1 : SubSeq(whole, s, q)[i] = whole[s + i - 1]
  BY <1>3, SubSeqProperties
<1> QED
  BY <1>4

LEMMA CutIs ==
    ASSUME NEW S, NEW l \in Seq(S), Room \in Nat \ {0}, NEW c, c = Cut(l)
    PROVE  /\ c \in Seq(S) /\ Len(c) = IF Len(l) > Room THEN Room ELSE Len(l)
           /\ \A i \in 1 .. Len(c) : c[i] = l[i]
           /\ c = << >> <=> l = << >>
<1> DEFINE n == IF Len(l) > Room THEN Room ELSE Len(l)
<1>1. Len(l) \in Nat /\ n \in Nat /\ n <= Len(l)
  BY LenProperties
<1>2. \A i \in 1 .. n : l[i] \in S
  BY <1>1, ElementOfSeq
<1>3. c = SubSeq(l, 1, n)
  BY DEF Cut
<1>4. n = 0 <=> Len(l) = 0
  BY <1>1
<1> HIDE DEF n
<1>5. /\ c \in Seq(S) /\ Len(c) = n
      /\ \A i \in 1 .. n : c[i] = l[i]
  <2>1. /\ SubSeq(l, 1, n) \in Seq(S) /\ Len(SubSeq(l, 1, n)) = IF 1 <= n THEN n - 1 + 1 ELSE 0
        /\ \A i \in 1 .. n - 1 + 1 : SubSeq(l, 1, n)[i] = l[1 + i - 1]
    BY <1>1, <1>2, SubSeqProperties
  <2>2. \A i \in 1 .. n : i \in 1 .. n - 1 + 1 /\ 1 + i - 1 = i
    BY <1>1
  <2>3. (IF 1 <= n THEN n - 1 + 1 ELSE 0) = n
    BY <1>1
  <2> QED
    BY <1>3, <2>1, <2>2, <2>3
<1>6. (c = << >> <=> Len(c) = 0) /\ (l = << >> <=> Len(l) = 0)
  BY <1>5, EmptySeq
<1> QED
  BY <1>4, <1>5, <1>6 DEF n

\* One character more of the line in front of byte p + 2.
LEMMA LineGrows ==
    ASSUME FrameTyped, NEW p \in Nat, p < Total, NEW s, IsStart(s, p + 1), NEW k,
           whole[p + 1] \notin Frame!Terminators, k = Cut(Frame!LineTo(p + 1))
    PROVE  /\ Len(Frame!LineTo(p + 2)) = Len(Frame!LineTo(p + 1)) + 1
           /\ Len(Frame!LineTo(p + 1)) \in Nat
           /\ Len(k) >= Room <=> Len(Frame!LineTo(p + 2)) > Room
           /\ Cut(Frame!LineTo(p + 2)) = IF Len(k) >= Room THEN k ELSE Append(k, whole[p + 1])
<1> DEFINE S == Chars
<1>0. s \in Nat /\ s >= 1 /\ s <= p + 1 /\ Room \in Nat \ {0} /\ Total \in Nat
  BY BodyFacts DEF IsStart
<1>1. IsStart(s, p + 2)
  BY StartMoves
<1>2. PICK l : l = SubSeq(whole, s, p)
  OBVIOUS
<1>3. PICK m : m = SubSeq(whole, s, p + 1)
  OBVIOUS
<1>4. Frame!LineTo(p + 1) = l /\ Frame!LineTo(p + 2) = m
  <2>1. Frame!LineTo(p + 1) = SubSeq(whole, s, (p + 1) - 1)
    BY LineToIs
  <2>2. Frame!LineTo(p + 2) = SubSeq(whole, s, (p + 2) - 1)
    BY <1>1, LineToIs
  <2>3. (p + 1) - 1 = p /\ (p + 2) - 1 = p + 1
    OBVIOUS
  <2> QED
    BY <1>2, <1>3, <2>1, <2>2, <2>3
<1>5. /\ l \in Seq(S) /\ Len(l) = p - s + 1
      /\ \A i \in 1 .. p - s + 1 : l[i] = whole[s + i - 1]
  <2>1. s <= p + 1 /\ p <= Total
    BY <1>0
  <2> QED
    BY <1>0, <1>2, <2>1, PartIs
<1>6. /\ m \in Seq(S) /\ Len(m) = (p + 1) - s + 1
      /\ \A i \in 1 .. (p + 1) - s + 1 : m[i] = whole[s + i - 1]
  <2>1. PICK q \in Nat : q = p + 1
    OBVIOUS
  <2>2. s <= q + 1 /\ q <= Total
    BY <1>0, <2>1
  <2>3. /\ SubSeq(whole, s, q) \in Seq(S) /\ Len(SubSeq(whole, s, q)) = q - s + 1
        /\ \A i \in 1 .. q - s + 1 : SubSeq(whole, s, q)[i] = whole[s + i - 1]
    BY <1>0, <2>2, PartIs
  <2> QED
    BY <1>3, <2>1, <2>3
<1>7. Len(m) = Len(l) + 1 /\ Len(l) \in Nat /\ m[Len(l) + 1] = whole[p + 1]
      /\ \A i \in 1 .. Len(l) : m[i] = l[i]
  <2>1. s + (p - s + 2) - 1 = p + 1 /\ p - s + 2 \in 1 .. (p + 1) - s + 1
    BY <1>0
  <2>2. \A i \in 1 .. Len(l) : i \in 1 .. (p + 1) - s + 1 /\ i \in 1 .. p - s + 1
    BY <1>0, <1>5
  <2>3. Len(l) + 1 = p - s + 2 /\ Len(m) = p - s + 2 /\ Len(l) \in Nat
    BY <1>0, <1>5, <1>6
  <2> QED
    BY <1>5, <1>6, <2>1, <2>2, <2>3
<1> HIDE DEF S
<1>8. PICK n : n = Cut(m)
  OBVIOUS
<1>9. /\ k \in Seq(S) /\ Len(k) = IF Len(l) > Room THEN Room ELSE Len(l)
      /\ \A i \in 1 .. Len(k) : k[i] = l[i]
  <2>1. l \in Seq(S) /\ Room \in Nat \ {0} /\ k = Cut(l)
    BY <1>0, <1>4, <1>5
  <2> QED
    BY <2>1, CutIs
<1>10. /\ n \in Seq(S) /\ Len(n) = IF Len(m) > Room THEN Room ELSE Len(m)
       /\ \A i \in 1 .. Len(n) : n[i] = m[i]
  <2>1. m \in Seq(S) /\ Room \in Nat \ {0}
    BY <1>0, <1>6
  <2> QED
    BY <1>8, <2>1, CutIs
<1>11. Len(k) >= Room <=> Len(m) > Room
  BY <1>0, <1>7, <1>9
<1>12. CASE Len(k) >= Room
  <2>1. Len(n) = Room /\ Len(k) = Room /\ Len(l) >= Room
    BY <1>0, <1>7, <1>9, <1>10, <1>11, <1>12
  <2>2. \A i \in 1 .. Len(n) : n[i] = k[i]
    <3>1. \A i \in 1 .. Len(n) : i \in 1 .. Len(l) /\ i \in 1 .. Len(k)
      BY <1>0, <1>7, <2>1
    <3> QED
      BY <1>7, <1>9, <1>10, <3>1
  <2>3. n = k
    BY <1>9, <1>10, <2>1, <2>2, SeqEqual
  <2> QED
    BY <1>4, <1>7, <1>8, <1>11, <1>12, <2>3
<1>13. CASE ~(Len(k) >= Room)
  <2>1. Len(n) = Len(l) + 1 /\ Len(k) = Len(l)
    BY <1>0, <1>7, <1>9, <1>10, <1>11, <1>13
  <2>2. PICK a : a = Append(k, whole[p + 1])
    OBVIOUS
  <2>3. whole[p + 1] \in S
    <3>1. Len(l) + 1 \in 1 .. Len(m)
      BY <1>7
    <3> QED
      BY <1>6, <1>7, <3>1, ElementOfSeq
  <2>4. /\ a \in Seq(S) /\ Len(a) = Len(l) + 1 /\ a[Len(l) + 1] = whole[p + 1]
        /\ \A i \in 1 .. Len(l) : a[i] = k[i]
    BY <1>9, <2>1, <2>2, <2>3, AppendProperties
  <2>5. ASSUME NEW i \in 1 .. Len(n) PROVE n[i] = a[i]
    <3>1. i \in 1 .. Len(l) \/ i = Len(l) + 1
      BY <1>7, <2>1
    <3>2. n[i] = m[i]
      BY <1>10
    <3>3. CASE i \in 1 .. Len(l)
      BY <1>7, <1>9, <2>1, <2>4, <3>2, <3>3
    <3>4. CASE i = Len(l) + 1
      BY <1>7, <2>4, <3>2, <3>4
    <3> QED
      BY <3>1, <3>3, <3>4
  <2>6. n = a
    BY <1>10, <2>1, <2>4, <2>5, SeqEqual
  <2> QED
    BY <1>4, <1>7, <1>8, <1>11, <1>13, <2>2, <2>6
<1> QED
  BY <1>12, <1>13

LEMMA LineEnds ==
    ASSUME NEW p \in Nat, NEW s, IsStart(s, p + 1), whole[p + 1] \in Frame!Terminators, FrameTyped
    PROVE  /\ IsStart(p + 2, p + 2) /\ Frame!LineTo(p + 2) = << >>
           /\ Cut(Frame!LineTo(p + 2)) = << >> /\ Len(Frame!LineTo(p + 2)) = 0
<1>1. IsStart(p + 2, p + 2)
  BY StartMoves
<1>2. Frame!LineTo(p + 2) = SubSeq(whole, p + 2, (p + 2) - 1)
  BY <1>1, LineToIs
<1>3. Frame!LineTo(p + 2) = << >>
  BY <1>2, SubSeqEmpty
<1>4. Len(<< >>) = 0
  BY EmptySeq
<1>5. SubSeq(<< >>, 1, 0) = << >> /\ ~(0 > Room)
  BY SubSeqEmpty, BodyFacts
<1>6. Cut(<< >>) = << >>
  BY <1>4, <1>5 DEF Cut
<1> QED
  BY <1>1, <1>3, <1>4, <1>6

\* Ends of lines, and their ranks.
LEMMA EndsFacts ==
    ASSUME FrameTyped, NEW e \in 0 .. Total
    PROVE  /\ IsFiniteSet(EndsTo(e)) /\ Cardinality(EndsTo(e)) \in Nat
           /\ \A d \in EndsTo(e) : d \in 1 .. e
<1>1. DOMAIN whole = 1 .. Total /\ Total \in Nat
  BY BodyFacts
<1>2. \A d \in EndsTo(e) : d \in 1 .. e
  BY <1>1 DEF EndsTo, Frame!Ends
<1>3. EndsTo(e) \subseteq 1 .. e /\ IsFiniteSet(1 .. e)
  BY <1>2, FS_Interval
<1> QED
  BY <1>2, <1>3, FS_Subset, FS_CardinalityType

LEMMA RankInside ==
    ASSUME FrameTyped, NEW p \in 0 .. Total, NEW e \in EndsTo(p)
    PROVE  Cardinality(EndsTo(e)) \in 1 .. Cardinality(EndsTo(p))
<1>1. e \in 1 .. p /\ e \in 0 .. Total /\ Total \in Nat
  BY EndsFacts, BodyFacts
<1>2. EndsTo(e) \subseteq EndsTo(p) /\ e \in EndsTo(e)
  <2>1. \A d \in EndsTo(e) : d \in 1 .. e
    BY <1>1, EndsFacts
  <2>2. \A d \in EndsTo(e) : d <= p
    BY <1>1, <2>1
  <2>3. e \in Frame!Ends /\ e <= e
    BY <1>1 DEF EndsTo
  <2> QED
    BY <2>2, <2>3 DEF EndsTo
<1>3. /\ IsFiniteSet(EndsTo(p)) /\ IsFiniteSet(EndsTo(e))
      /\ Cardinality(EndsTo(p)) \in Nat /\ Cardinality(EndsTo(e)) \in Nat
  BY <1>1, EndsFacts
<1>4. Cardinality(EndsTo(e)) <= Cardinality(EndsTo(p))
  BY <1>2, <1>3, FS_Subset
<1>5. Cardinality(EndsTo(e)) # 0
  BY <1>2, <1>3, FS_EmptySet
<1> QED
  BY <1>3, <1>4, <1>5

LEMMA EndAdded ==
    ASSUME FrameTyped, NEW p \in Nat, p < Total, p + 1 \in Frame!Ends
    PROVE  EndsTo(p + 1) = EndsTo(p) \cup {p + 1} /\ Cardinality(EndsTo(p + 1)) = Cardinality(EndsTo(p)) + 1
<1>1. p \in 0 .. Total /\ p + 1 \in 0 .. Total
  BY BodyFacts
<1>2. \A d \in EndsTo(p) : d \in 1 .. p
  BY <1>1, EndsFacts
<1>3. \A d \in Frame!Ends : d \in Nat
  BY BodyFacts DEF Frame!Ends
<1>4. p + 1 \notin EndsTo(p) /\ EndsTo(p + 1) = EndsTo(p) \cup {p + 1}
  BY <1>2, <1>3 DEF EndsTo
<1> QED
  BY <1>1, <1>4, EndsFacts, FS_AddElement

LEMMA NoEndAdded ==
    ASSUME FrameTyped, NEW p \in Nat, p < Total, p + 1 \notin Frame!Ends
    PROVE  EndsTo(p + 1) = EndsTo(p)
<1>1. \A d \in Frame!Ends : d \in Nat
  BY BodyFacts DEF Frame!Ends
<1> QED
  BY <1>1 DEF EndsTo

\* Which byte ends a line, and what recline_put makes of it.
LEMMA EndIs ==
    ASSUME FrameTyped, NEW p \in Nat, p < Total
    PROVE  p + 1 \in Frame!Ends <=>
             \/ whole[p + 1] = "CR"
             \/ whole[p + 1] = "LF" /\ ~(p >= 1 /\ whole[p] = "CR")
<1>1. p + 1 \in DOMAIN whole
  BY BodyFacts
<1>2. (p + 1 = 1 <=> ~(p >= 1)) /\ (p + 1) - 1 = p
  OBVIOUS
<1> QED
  BY <1>1, <1>2 DEF Frame!Ends

PutMakes(r, c, x, rec) ==
    /\ x = [buf |-> x.buf, pending |-> x.pending, truncated |-> x.truncated]
    /\ x.pending \in BOOLEAN /\ x.truncated \in BOOLEAN
    /\ x.pending <=> c = "CR"
    /\ r.pending /\ c = "LF" => x.buf = r.buf /\ x.truncated = r.truncated /\ rec = << >>
    /\ c \in Frame!Terminators /\ ~(r.pending /\ c = "LF") =>
         /\ x.buf = << >> /\ x.truncated = r.truncated
         /\ rec = <<IF r.buf = << >> THEN <<" ">> ELSE r.buf>>
    /\ c \notin Frame!Terminators =>
         /\ rec = << >>
         /\ x.buf = IF Len(r.buf) >= Room THEN r.buf ELSE Append(r.buf, c)
         /\ x.truncated <=> Len(r.buf) >= Room \/ r.truncated

LEMMA PutIs ==
    ASSUME NEW r, r = [buf |-> r.buf, pending |-> r.pending, truncated |-> r.truncated],
           r.pending \in BOOLEAN, r.truncated \in BOOLEAN, NEW c, NEW n, n = Frame!Put(r, c)
    PROVE  PutMakes(r, c, n.rl, n.rec)
<1>1. PICK x : x = n.rl
  OBVIOUS
<1>2. CASE r.pending /\ c = "LF"
  <2>1. n = [rl |-> [r EXCEPT !.pending = FALSE], rec |-> << >>]
    BY <1>2 DEF Frame!Put
  <2>2. n.rec = << >> /\ x = [r EXCEPT !.pending = FALSE]
    BY <1>1, <2>1
  <2>3. /\ x.buf = r.buf /\ x.pending = FALSE /\ x.truncated = r.truncated
        /\ x = [buf |-> x.buf, pending |-> x.pending, truncated |-> x.truncated]
    BY <2>2
  <2>4. c \in Frame!Terminators
    BY <1>2 DEF Frame!Terminators
  <2>5. x.pending \in BOOLEAN /\ x.truncated \in BOOLEAN /\ (x.pending <=> c = "CR")
    BY <1>2, <2>3
  <2> QED
    BY <1>1, <1>2, <2>2, <2>3, <2>4, <2>5 DEF PutMakes
<1>3. CASE ~(r.pending /\ c = "LF") /\ c \in Frame!Terminators
  <2>1. n = [rl |-> [r EXCEPT !.buf = << >>, !.pending = (c = "CR")],
             rec |-> <<IF r.buf = << >> THEN <<" ">> ELSE r.buf>>]
    BY <1>3 DEF Frame!Put
  <2>2. /\ n.rec = <<IF r.buf = << >> THEN <<" ">> ELSE r.buf>>
        /\ x = [r EXCEPT !.buf = << >>, !.pending = (c = "CR")]
    <3>1. PICK y, z : /\ y = [r EXCEPT !.buf = << >>, !.pending = (c = "CR")]
                      /\ z = <<IF r.buf = << >> THEN <<" ">> ELSE r.buf>>
      OBVIOUS
    <3>2. n = [rl |-> y, rec |-> z]
      BY <2>1, <3>1, Zenon
    <3>3. n.rl = y /\ n.rec = z
      BY <3>2
    <3> QED
      BY <1>1, <3>1, <3>3, Zenon
  <2>3. x.buf = << >> /\ x.pending = (c = "CR") /\ x.truncated = r.truncated
    BY <2>2
  <2>4. x = [buf |-> x.buf, pending |-> x.pending, truncated |-> x.truncated]
    BY <2>2
  <2>5. x.pending \in BOOLEAN /\ x.truncated \in BOOLEAN /\ (x.pending <=> c = "CR")
    BY <2>3
  <2> QED
    BY <1>1, <1>3, <2>2, <2>3, <2>4, <2>5 DEF PutMakes
<1>4. CASE c \notin Frame!Terminators /\ Len(r.buf) >= Room
  <2>0. c # "LF" /\ c # "CR"
    BY <1>4 DEF Frame!Terminators
  <2>1. n = [rl |-> [r EXCEPT !.pending = FALSE, !.truncated = TRUE], rec |-> << >>]
    BY <1>4, <2>0, Zenon DEF Frame!Put, Room
  <2>2. n.rec = << >> /\ x = [r EXCEPT !.pending = FALSE, !.truncated = TRUE]
    BY <1>1, <2>1
  <2>3. /\ x.buf = r.buf /\ x.pending = FALSE /\ x.truncated = TRUE
        /\ x = [buf |-> x.buf, pending |-> x.pending, truncated |-> x.truncated]
    BY <2>2
  <2>4. x.pending \in BOOLEAN /\ x.truncated \in BOOLEAN /\ (x.pending <=> c = "CR") /\ x.truncated
    BY <2>0, <2>3
  <2> QED
    BY <1>1, <1>4, <2>0, <2>2, <2>3, <2>4 DEF PutMakes
<1>5. CASE c \notin Frame!Terminators /\ ~(Len(r.buf) >= Room)
  <2>0. c # "LF" /\ c # "CR"
    BY <1>5 DEF Frame!Terminators
  <2>1. n = [rl |-> [r EXCEPT !.buf = Append(@, c), !.pending = FALSE], rec |-> << >>]
    BY <1>5, <2>0, Zenon DEF Frame!Put, Room
  <2>2. n.rec = << >> /\ x = [r EXCEPT !.buf = Append(@, c), !.pending = FALSE]
    BY <1>1, <2>1
  <2>3. x.buf = Append(r.buf, c) /\ x.pending = FALSE /\ x.truncated = r.truncated
    BY <2>2
  <2>4. x = [buf |-> x.buf, pending |-> x.pending, truncated |-> x.truncated]
    BY <2>2
  <2>5. x.pending \in BOOLEAN /\ x.truncated \in BOOLEAN /\ (x.pending <=> c = "CR")
    BY <2>0, <2>3
  <2> QED
    BY <1>1, <1>5, <2>0, <2>2, <2>3, <2>4, <2>5 DEF PutMakes
<1> QED
  BY <1>2, <1>3, <1>4, <1>5

\* The text when a byte of it has come.
LEMMA NextByte ==
    ASSUME FrameTyped, NEW p \in 0 .. Total, text = SubSeq(whole, p + 1, Total), text # << >>
    PROVE  /\ p < Total /\ Head(text) = whole[p + 1]
           /\ Tail(text) = SubSeq(whole, (p + 1) + 1, Total)
<1>1. p \in Nat /\ Total \in Nat /\ whole \in Seq(Range(whole) \ {"end"}) /\ Total = Len(whole)
  BY BodyFacts DEF FrameTyped, Total
<1>2. p < Total
  <2> SUFFICES ASSUME ~(p < Total) PROVE FALSE
    OBVIOUS
  <2>1. Total < p + 1
    BY <1>1
  <2> QED
    BY <1>1, <2>1, SubSeqEmpty
<1>3. p + 1 \in 1 .. Len(whole) /\ Total \in (p + 1) .. Len(whole)
  BY <1>1, <1>2
<1>4. /\ Head(SubSeq(whole, p + 1, Total)) = whole[p + 1]
      /\ Tail(SubSeq(whole, p + 1, Total)) = SubSeq(whole, (p + 1) + 1, Total)
  BY <1>1, <1>3, HeadTailOfSubSeq
<1> QED
  BY <1>2, <1>4

\* The definitions of the framing depend on the body and the format, which stay.
LEMMA Constant ==
    ASSUME UNCHANGED <<whole, format>>
    PROVE  /\ Total' = Total /\ Room' = Room /\ Chars' = Chars /\ Frame!Ends' = Frame!Ends
           /\ \A i : Frame!LineTo(i)' = Frame!LineTo(i)
           /\ \A i : EndsTo(i)' = EndsTo(i)
           /\ \A i, s : IsStart(s, i)' <=> IsStart(s, i)
           /\ \A l : Cut(l)' = Cut(l) /\ Frame!Record(l)' = Frame!Record(l)
<1>1. Total' = Total /\ Chars' = Chars
  BY DEF Total, Chars
<1>2. Room' = Room
  BY DEF Room, Frame!ContentMax
<1>3. Frame!Ends' = Frame!Ends
  BY DEF Frame!Ends
<1>4. \A i : EndsTo(i)' = EndsTo(i)
  BY <1>3 DEF EndsTo
<1>5. \A i : Frame!LineTo(i)' = Frame!LineTo(i)
  BY DEF Frame!LineTo
<1>6. \A i, s : IsStart(s, i)' <=> IsStart(s, i)
  BY DEF IsStart
<1>7. \A l : Cut(l)' = Cut(l) /\ Frame!Record(l)' = Frame!Record(l)
  BY <1>2 DEF Cut, Frame!Record, Room
<1> QED
  BY <1>1, <1>2, <1>3, <1>4, <1>5, <1>6, <1>7

\* The record of a line that has ended is what has been kept of it.
LEMMA RecordIs ==
    ASSUME FrameTyped, NEW p \in Nat, p <= Total, NEW s, IsStart(s, p + 1),
           NEW l, l = Frame!LineTo(p + 1), NEW c, c = Cut(l)
    PROVE  /\ l \in Seq(Chars) /\ c \in Seq(Chars) /\ Frame!Record(l) \in Seq(Chars)
           /\ Frame!Record(l) = IF c = << >> THEN <<" ">> ELSE c
           /\ c = << >> <=> l = << >>
<1>0. s \in Nat /\ s >= 1 /\ s <= p + 1 /\ Room \in Nat \ {0}
  BY BodyFacts DEF IsStart
<1>2. l = SubSeq(whole, s, p)
  <2>1. l = SubSeq(whole, s, (p + 1) - 1) /\ (p + 1) - 1 = p
    BY LineToIs
  <2> QED
    BY <2>1
<1>3. l \in Seq(Chars)
  BY <1>0, <1>2, PartIs
<1>5. c \in Seq(Chars) /\ (c = << >> <=> l = << >>)
  BY <1>0, <1>3, CutIs
<1>6. <<" ">> \in Seq(Chars)
  BY DEF Chars
<1>7. Frame!Record(l) = IF l = << >> THEN <<" ">> ELSE c
  BY DEF Frame!Record, Cut, Room
<1> QED
  BY <1>3, <1>5, <1>6, <1>7

LEMMA NotEnd ==
    ASSUME FrameTyped, NEW q \in 0 .. Total, SubSeq(whole, q + 1, Total) = <<"end">> PROVE FALSE
<1>1. q \in Nat /\ Total \in Nat
  BY BodyFacts
<1>0. Len(<<"end">>) = 1 /\ Len(<< >>) = 0 /\ Head(<<"end">>) = "end"
  OBVIOUS
<1>2. q < Total
  <2> SUFFICES ASSUME ~(q < Total) PROVE FALSE
    OBVIOUS
  <2>1. SubSeq(whole, q + 1, Total) = << >>
    BY <1>1, SubSeqEmpty
  <2>2. <<"end">> = << >>
    BY <2>1
  <2> QED
    BY <1>0, <2>2
<1>3. Head(SubSeq(whole, q + 1, Total)) = whole[q + 1]
  <2>1. q + 1 \in 1 .. Len(whole) /\ Total \in (q + 1) .. Len(whole) /\ whole \in Seq(Range(whole) \ {"end"})
    BY <1>1, <1>2 DEF FrameTyped, Total
  <2> QED
    BY <2>1, HeadTailOfSubSeq
<1>4. whole[q + 1] # "end"
  BY <1>1, <1>2, BodyFacts
<1>5. Head(SubSeq(whole, q + 1, Total)) = "end"
  BY <1>0, Zenon
<1> QED
  BY <1>3, <1>4, <1>5

\* Every byte keeps the records in step with the lines that have ended.
LEMMA ByteFrame == ASSUME FrameInv, Frame!Byte PROVE FrameInv'
<1>1. /\ text # << >> /\ Head(text) # "end" /\ text' = Tail(text) /\ UNCHANGED <<whole, format>>
      /\ rl' = Frame!Put(rl, Head(text)).rl /\ records' = records \o Frame!Put(rl, Head(text)).rec
      /\ FrameTyped
  BY DEF Frame!Byte, FrameInv
<1>2. text # <<"end">>
  BY <1>1
<1>3. PICK p \in 0 .. Total : text = SubSeq(whole, p + 1, Total) /\ FrameAt(p)
  BY <1>2 DEF FrameInv
<1>4. /\ p < Total /\ Head(text) = whole[p + 1] /\ Tail(text) = SubSeq(whole, (p + 1) + 1, Total)
      /\ p \in Nat /\ Total \in Nat
  BY <1>1, <1>3, NextByte, BodyFacts
<1>5. PICK c, n : c = whole[p + 1] /\ n = Frame!Put(rl, c)
  OBVIOUS
<1>6. rl' = n.rl /\ records' = records \o n.rec /\ text' = SubSeq(whole, (p + 1) + 1, Total)
  BY <1>1, <1>4, <1>5
<1>7. PutMakes(rl, c, rl', n.rec)
  BY <1>1, <1>5, <1>6, PutIs DEF FrameTyped
<1>8. PICK s : IsStart(s, p + 1)
  BY <1>3 DEF FrameAt
<1>L. PICK L : L = Frame!LineTo(p + 1)
  OBVIOUS
<1>9. /\ rl.buf = Cut(L) /\ L \in Seq(Chars) /\ Cut(L) \in Seq(Chars)
      /\ Frame!Record(L) \in Seq(Chars)
      /\ Frame!Record(L) = IF rl.buf = << >> THEN <<" ">> ELSE rl.buf
      /\ rl.buf = << >> <=> L = << >>
  <2>1. PICK k : k = Cut(L)
    OBVIOUS
  <2>2. rl.buf = k
    BY <1>3, <1>L, <2>1 DEF FrameAt
  <2>3. p <= Total
    BY <1>4
  <2>4. /\ L \in Seq(Chars) /\ k \in Seq(Chars) /\ Frame!Record(L) \in Seq(Chars)
        /\ Frame!Record(L) = IF k = << >> THEN <<" ">> ELSE k
        /\ k = << >> <=> L = << >>
    BY <1>1, <1>4, <1>8, <1>L, <2>1, <2>3, RecordIs
  <2> QED
    BY <2>1, <2>2, <2>4
<1>10. rl.pending <=> p >= 1 /\ whole[p] = "CR"
  BY <1>3 DEF FrameAt
<1>11. records \in Seq(Seq(Chars)) /\ Len(records) = Cardinality(EndsTo(p)) /\ Len(records) \in Nat
  BY <1>1, <1>3, LenProperties DEF FrameTyped, FrameAt
<1>12. p + 1 \in Frame!Ends <=> c \in Frame!Terminators /\ ~(rl.pending /\ c = "LF")
  BY <1>1, <1>4, <1>5, <1>10, EndIs DEF Frame!Terminators
\* The records.
<1>13. /\ records' \in Seq(Seq(Chars)) /\ Len(records') = Cardinality(EndsTo(p + 1))
       /\ \A e \in EndsTo(p + 1) : records'[Cardinality(EndsTo(e))] = Frame!Record(Frame!LineTo(e))
  <2>0. \A e \in EndsTo(p) : /\ Cardinality(EndsTo(e)) \in 1 .. Len(records)
                             /\ records[Cardinality(EndsTo(e))] = Frame!Record(Frame!LineTo(e))
    BY <1>1, <1>3, <1>11, RankInside DEF FrameAt
  <2>1. CASE p + 1 \in Frame!Ends
    <3>1. EndsTo(p + 1) = EndsTo(p) \cup {p + 1} /\ Cardinality(EndsTo(p + 1)) = Len(records) + 1
      BY <1>1, <1>4, <1>11, <2>1, EndAdded
    <3>2. n.rec = <<Frame!Record(L)>>
      <4>1. c \in Frame!Terminators /\ ~(rl.pending /\ c = "LF")
        BY <1>12, <2>1
      <4>2. n.rec = <<IF rl.buf = << >> THEN <<" ">> ELSE rl.buf>>
        BY <1>7, <4>1, Zenon DEF PutMakes
      <4> QED
        <5>1. Frame!Record(L) = (IF rl.buf = << >> THEN <<" ">> ELSE rl.buf)
          BY <1>9
        <5> QED
          BY <4>2, <5>1, Zenon
    <3>3. PICK r \in Seq(Chars) : r = Frame!Record(L)
      BY <1>9
    <3>4. PICK new : new = records \o <<r>>
      OBVIOUS
    <3>5. new = Append(records, r)
      BY <1>11, <3>4, AppendIsConcat
    <3>6. /\ new \in Seq(Seq(Chars)) /\ Len(new) = Len(records) + 1 /\ new[Len(records) + 1] = r
          /\ \A i \in 1 .. Len(records) : new[i] = records[i]
      BY <1>11, <3>5, AppendProperties
    <3>7. records' = new
      BY <1>6, <3>2, <3>3, <3>4
    <3>8. \A e \in EndsTo(p + 1) : new[Cardinality(EndsTo(e))] = Frame!Record(Frame!LineTo(e))
      <4>1. new[Cardinality(EndsTo(p + 1))] = Frame!Record(Frame!LineTo(p + 1))
        BY <1>L, <3>1, <3>3, <3>6
      <4>2. \A e \in EndsTo(p) : new[Cardinality(EndsTo(e))] = Frame!Record(Frame!LineTo(e))
        BY <2>0, <3>6
      <4> QED
        BY <3>1, <4>1, <4>2
    <3> QED
      BY <3>1, <3>6, <3>7, <3>8
  <2>2. CASE p + 1 \notin Frame!Ends
    <3>1. EndsTo(p + 1) = EndsTo(p)
      BY <1>1, <1>4, <2>2, NoEndAdded
    <3>2. n.rec = << >>
      BY <1>7, <1>12, <2>2 DEF PutMakes
    <3>3. records' = records
      BY <1>6, <1>11, <3>2, ConcatEmptySeq
    <3> QED
      BY <1>11, <2>0, <3>1, <3>3
  <2> QED
    BY <2>1, <2>2
\* The line so far.
<1>14. /\ \E t : IsStart(t, p + 2)
       /\ rl'.buf = Cut(Frame!LineTo(p + 2))
       /\ rl'.truncated <=> \E i \in 1 .. p + 2 : Len(Frame!LineTo(i)) > Room
  <2>0. rl.truncated <=> \E i \in 1 .. p + 1 : Len(Frame!LineTo(i)) > Room
    BY <1>3 DEF FrameAt
  <2>a. \A i \in 1 .. p + 2 : i \in 1 .. p + 1 \/ i = p + 2
    BY <1>4
  <2>b. \A i \in 1 .. p + 1 : i \in 1 .. p + 2
    BY <1>4
  <2>c. p + 2 \in 1 .. p + 2
    BY <1>4
  <2>d. (\E i \in 1 .. p + 2 : Len(Frame!LineTo(i)) > Room) <=>
          rl.truncated \/ Len(Frame!LineTo(p + 2)) > Room
    BY <2>0, <2>a, <2>b, <2>c
  <2>1. CASE c \in Frame!Terminators
    <3>1. /\ IsStart(p + 2, p + 2) /\ Cut(Frame!LineTo(p + 2)) = << >>
          /\ Len(Frame!LineTo(p + 2)) = 0
      BY <1>1, <1>4, <1>5, <1>8, <2>1, LineEnds
    <3>2. rl'.truncated = rl.truncated
      BY <1>7, <2>1 DEF PutMakes
    <3>3. ~(Len(Frame!LineTo(p + 2)) > Room)
      BY <1>1, <3>1, BodyFacts
    <3>4. rl'.buf = << >>
      <4>1. CASE rl.pending /\ c = "LF"
        <5>1. rl'.buf = rl.buf /\ p >= 1 /\ whole[p] \in Frame!Terminators
          BY <1>7, <1>10, <4>1 DEF PutMakes, Frame!Terminators
        <5>2. PICK q \in Nat : p = q + 1
          <6>1. p - 1 \in Nat /\ p = (p - 1) + 1
            BY <1>4, <5>1
          <6> QED
            BY <6>1
        <5>3. s = p + 1
          <6> SUFFICES ASSUME s # p + 1 PROVE FALSE
            OBVIOUS
          <6>1. p \in s .. ((p + 1) - 1)
            BY <1>4, <1>8 DEF IsStart
          <6> QED
            BY <1>8, <5>1, <6>1 DEF IsStart
        <5>4. L = << >>
          <6>1. L = SubSeq(whole, p + 1, (p + 1) - 1)
            BY <1>4, <1>8, <1>L, <5>3, LineToIs
          <6> QED
            BY <1>4, <6>1, SubSeqEmpty
        <5> QED
          BY <1>9, <5>1, <5>4
      <4>2. CASE ~(rl.pending /\ c = "LF")
        BY <1>7, <2>1, <4>2 DEF PutMakes
      <4> QED
        BY <4>1, <4>2
    <3> QED
      BY <2>d, <3>1, <3>2, <3>3, <3>4
  <2>2. CASE c \notin Frame!Terminators
    <3>1. /\ IsStart(s, p + 2)
          /\ Len(rl.buf) >= Room <=> Len(Frame!LineTo(p + 2)) > Room
          /\ Cut(Frame!LineTo(p + 2)) = IF Len(rl.buf) >= Room THEN rl.buf ELSE Append(rl.buf, c)
      BY <1>1, <1>4, <1>5, <1>8, <1>9, <1>L, <2>2, LineGrows, StartMoves
    <3>2. /\ rl'.buf = IF Len(rl.buf) >= Room THEN rl.buf ELSE Append(rl.buf, c)
          /\ rl'.truncated <=> Len(rl.buf) >= Room \/ rl.truncated
      BY <1>7, <2>2 DEF PutMakes
    <3> QED
      BY <2>d, <3>1, <3>2
  <2> QED
    BY <2>1, <2>2
<1>15. rl'.pending <=> p + 1 >= 1 /\ whole[p + 1] = "CR"
  <2>1. rl'.pending <=> c = "CR"
    BY <1>7 DEF PutMakes
  <2>2. p + 1 >= 1
    BY <1>4
  <2> QED
    BY <1>5, <2>1, <2>2, Zenon
<1>16. UNCHANGED <<whole, format>>
  BY <1>1
<1>17. FrameTyped'
  <2>1. /\ rl' = [buf |-> rl'.buf, pending |-> rl'.pending, truncated |-> rl'.truncated]
        /\ rl'.pending \in BOOLEAN /\ rl'.truncated \in BOOLEAN
    BY <1>7 DEF PutMakes
  <2>2. whole' \in Seq(Range(whole') \ {"end"}) /\ Room' \in Nat \ {0}
    BY <1>1, Constant DEF FrameTyped
  <2>3. records' \in Seq(Seq(Chars'))
    BY <1>13, <1>16, Constant
  <2> QED
    BY <2>1, <2>2, <2>3 DEF FrameTyped
<1>18. FrameAt(p + 1)'
  <2>1. (p + 1) + 1 = p + 2
    BY <1>4
  <2> QED
    BY <1>13, <1>14, <1>15, <1>16, <2>1, Constant DEF FrameAt
<1>19. text' = SubSeq(whole', (p + 1) + 1, Total') /\ p + 1 \in 0 .. Total'
  BY <1>4, <1>6, <1>16, Constant
<1>20. text' # <<"end">>
  <2>1. PICK q \in 0 .. Total : q = p + 1
    BY <1>4
  <2> SUFFICES ASSUME text' = <<"end">> PROVE FALSE
    OBVIOUS
  <2>2. SubSeq(whole, q + 1, Total) = <<"end">>
    BY <1>6, <2>1
  <2> QED
    BY <1>1, <2>2, NotEnd
<1>21. FramedExact'
  BY <1>20 DEF FramedExact, Frame!FramedExact
<1> QED
  BY <1>17, <1>18, <1>19, <1>21 DEF FrameInv

\* The instance counts as this module does.
LEMMA SameCount == \A S : Frame!Cardinality(S) = Cardinality(S)
  BY Zenon DEF Frame!Cardinality, Cardinality

\* At the end of the text the last line is flushed, and the records are complete.
LEMMA FlushFrame == ASSUME FrameInv, Frame!Flush PROVE FrameInv'
<1>1. /\ text = << >> /\ text' = <<"end">> /\ UNCHANGED <<whole, format>>
      /\ records' = IF rl.buf = << >> THEN records ELSE Append(records, rl.buf)
      /\ rl' = [rl EXCEPT !.buf = << >>]
      /\ FrameTyped
  BY DEF Frame!Flush, FrameInv
<1>2. text # <<"end">>
  <2>1. Len(<<"end">>) = 1 /\ Len(<< >>) = 0
    OBVIOUS
  <2> QED
    BY <1>1, <2>1
<1>3. PICK p \in 0 .. Total : text = SubSeq(whole, p + 1, Total) /\ FrameAt(p)
  BY <1>2 DEF FrameInv
<1>4. p = Total /\ p \in Nat
  <2>1. p \in Nat /\ Total \in Nat /\ whole \in Seq(Range(whole) \ {"end"}) /\ Total = Len(whole)
    BY <1>1, BodyFacts DEF FrameTyped, Total
  <2> SUFFICES ASSUME p < Total PROVE FALSE
    BY <2>1
  <2>2. PICK q \in Nat : q = p + 1
    BY <2>1
  <2>3. q >= 1 /\ q <= Total + 1 /\ Total <= Total
    BY <2>1, <2>2
  <2>4. Len(SubSeq(whole, q, Total)) = Total - q + 1
    BY <1>1, <2>1, <2>2, <2>3, PartIs
  <2>5. Len(<< >>) = 0
    OBVIOUS
  <2>6. Len(SubSeq(whole, q, Total)) = 0
    BY <1>1, <1>3, <2>2, <2>5
  <2> QED
    BY <2>1, <2>2, <2>4, <2>6
<1>5. PICK s : IsStart(s, p + 1)
  BY <1>3 DEF FrameAt
<1>6. PICK L : L = Frame!LineTo(p + 1)
  OBVIOUS
<1>7. /\ rl.buf \in Seq(Chars) /\ Frame!Record(L) = IF rl.buf = << >> THEN <<" ">> ELSE rl.buf
      /\ rl.buf = << >> <=> L = << >>
  <2>1. PICK k : k = Cut(L)
    OBVIOUS
  <2>2. rl.buf = k
    BY <1>3, <1>6, <2>1 DEF FrameAt
  <2>3. p <= Total
    BY <1>4
  <2>4. /\ k \in Seq(Chars) /\ Frame!Record(L) = IF k = << >> THEN <<" ">> ELSE k
        /\ k = << >> <=> L = << >>
    BY <1>1, <1>4, <1>5, <1>6, <2>1, <2>3, RecordIs
  <2> QED
    BY <2>2, <2>4
<1>8. EndsTo(p) = Frame!Ends
  <2>1. DOMAIN whole = 1 .. Total /\ Total \in Nat
    BY <1>1, BodyFacts
  <2>2. \A d \in Frame!Ends : d <= p
    BY <1>4, <2>1 DEF Frame!Ends
  <2> QED
    BY <2>2 DEF EndsTo
<1>9. /\ records \in Seq(Seq(Chars)) /\ Len(records) = Cardinality(Frame!Ends) /\ Len(records) \in Nat
      /\ \A e \in Frame!Ends : /\ Cardinality(EndsTo(e)) \in 1 .. Len(records)
                               /\ records[Cardinality(EndsTo(e))] = Frame!Record(Frame!LineTo(e))
  <2>1. /\ records \in Seq(Seq(Chars)) /\ Len(records) = Cardinality(EndsTo(p))
        /\ \A e \in EndsTo(p) : records[Cardinality(EndsTo(e))] = Frame!Record(Frame!LineTo(e))
    BY <1>1, <1>3 DEF FrameTyped, FrameAt
  <2>2. \A e \in EndsTo(p) : Cardinality(EndsTo(e)) \in 1 .. Cardinality(EndsTo(p))
    BY <1>1, RankInside
  <2> QED
    BY <1>8, <2>1, <2>2, LenProperties
<1>10. /\ records' \in Seq(Seq(Chars))
       /\ Len(records') = Cardinality(Frame!Ends) + (IF L = << >> THEN 0 ELSE 1)
       /\ \A e \in Frame!Ends : records'[Cardinality(EndsTo(e))] = Frame!Record(Frame!LineTo(e))
       /\ L # << >> => records'[Len(records')] = Frame!Record(L)
  <2>1. CASE rl.buf = << >>
    <3>1. records' = records /\ L = << >>
      BY <1>1, <1>7, <2>1
    <3> QED
      BY <1>9, <3>1
  <2>2. CASE rl.buf # << >>
    <3>1. PICK r \in Seq(Chars) : r = rl.buf
      BY <1>7
    <3>2. records' = Append(records, r) /\ L # << >> /\ Frame!Record(L) = r
      BY <1>1, <1>7, <2>2, <3>1
    <3>3. PICK new : new = Append(records, r)
      OBVIOUS
    <3>4. /\ new \in Seq(Seq(Chars)) /\ Len(new) = Len(records) + 1 /\ new[Len(records) + 1] = r
          /\ \A i \in 1 .. Len(records) : new[i] = records[i]
      BY <1>9, <3>3, AppendProperties
    <3>5. \A e \in Frame!Ends : new[Cardinality(EndsTo(e))] = Frame!Record(Frame!LineTo(e))
      BY <1>9, <3>4
    <3> QED
      BY <1>9, <3>2, <3>3, <3>4, <3>5
  <2> QED
    BY <2>1, <2>2
<1>11. /\ rl' = [buf |-> rl'.buf, pending |-> rl'.pending, truncated |-> rl'.truncated]
       /\ rl'.pending = rl.pending /\ rl'.truncated = rl.truncated
  <2>1. PICK x : x = [rl EXCEPT !.buf = << >>]
    OBVIOUS
  <2>2. rl = [buf |-> rl.buf, pending |-> rl.pending, truncated |-> rl.truncated]
    BY <1>1 DEF FrameTyped
  <2>3. /\ x = [buf |-> x.buf, pending |-> x.pending, truncated |-> x.truncated]
        /\ x.pending = rl.pending /\ x.truncated = rl.truncated
    BY <2>1, <2>2
  <2> QED
    BY <1>1, <2>1, <2>3
<1>12. UNCHANGED <<whole, format>>
  BY <1>1
<1>13. FrameTyped'
  <2>2. whole' \in Seq(Range(whole') \ {"end"}) /\ Room' \in Nat \ {0}
    BY <1>1, Constant DEF FrameTyped
  <2>3. records' \in Seq(Seq(Chars'))
    BY <1>10, <1>12, Constant
  <2>4. rl'.pending \in BOOLEAN /\ rl'.truncated \in BOOLEAN
    BY <1>1, <1>11 DEF FrameTyped
  <2> QED
    BY <1>11, <2>2, <2>3, <2>4 DEF FrameTyped
<1>14. FramedExact'
  <2>1. rl'.truncated <=> \E i \in 1 .. (Len(whole) + 1) : Len(Frame!LineTo(i)) > Frame!ContentMax(format)
    BY <1>3, <1>4, <1>11 DEF FrameAt, Total, Room
  <2>2. Frame!LineTo(Len(whole) + 1) = L
    BY <1>4, <1>6 DEF Total
  <2>3. /\ Frame!Ends' = Frame!Ends /\ \A i : Frame!LineTo(i)' = Frame!LineTo(i)
        /\ \A l : Frame!Record(l)' = Frame!Record(l) /\ whole' = whole /\ format' = format
        /\ Room' = Room
    BY <1>12, Constant
  <2>4. PICK rest : rest = Frame!LineTo(Len(whole) + 1)'
    OBVIOUS
  <2>5. rest = L
    <3>1. Frame!LineTo(Len(whole) + 1)' = Frame!LineTo(Len(whole) + 1)
      BY <1>12 DEF Frame!LineTo
    <3> QED
      BY <2>2, <2>4, <3>1
  <2>6. /\ Len(records') = Cardinality(Frame!Ends') + (IF rest = << >> THEN 0 ELSE 1)
        /\ rest # << >> => records'[Len(records')] = Frame!Record(rest)
    BY <1>10, <2>3, <2>5
  <2>7. Frame!Record(rest) = Frame!Record(Frame!LineTo(Len(whole) + 1))'
    BY <1>12, <2>4 DEF Frame!Record
  <2>8. \A e \in Frame!Ends' : records'[Cardinality({d \in Frame!Ends' : d <= e})] = Frame!Record(Frame!LineTo(e))'
    <3>1. \A e : Frame!Record(Frame!LineTo(e))' = Frame!Record(Frame!LineTo(e))
      BY <1>12 DEF Frame!Record, Frame!LineTo
    <3> QED
      BY <1>10, <2>3, <3>1 DEF EndsTo
  <2>9. rl'.truncated <=> \E i \in 1 .. (Len(whole') + 1) : Len(Frame!LineTo(i)') > Frame!ContentMax(format)'
    <3>1. Frame!ContentMax(format)' = Frame!ContentMax(format)
      BY <1>12 DEF Frame!ContentMax
    <3> QED
      BY <2>1, <2>3, <3>1
  <2> QED
    <3>1. /\ Len(records') = Frame!Cardinality(Frame!Ends') + (IF rest = << >> THEN 0 ELSE 1)
          /\ \A e \in Frame!Ends' :
               records'[Frame!Cardinality({d \in Frame!Ends' : d <= e})] = Frame!Record(Frame!LineTo(e))'
      BY <2>6, <2>8, SameCount
    <3> QED
      BY <2>4, <2>6, <2>7, <2>9, <3>1 DEF FramedExact, Frame!FramedExact
<1> QED
  BY <1>1, <1>13, <1>14 DEF FrameInv

LEMMA SameFrame == ASSUME FrameInv, UNCHANGED frameVars PROVE FrameInv'
<1>1. UNCHANGED <<whole, format>> /\ text' = text /\ rl' = rl /\ records' = records
  BY DEF frameVars
<1>2. FrameTyped'
  BY <1>1, Constant DEF FrameInv, FrameTyped
<1>3. FramedExact'
  BY <1>1, Constant DEF FrameInv, FramedExact, Frame!FramedExact, Frame!ContentMax
<1>4. ASSUME NEW p \in 0 .. Total, text = SubSeq(whole, p + 1, Total), FrameAt(p)
      PROVE  p \in 0 .. Total' /\ text' = SubSeq(whole', p + 1, Total') /\ FrameAt(p)'
  <2>1. Total' = Total
    BY <1>1, Constant
  <2>2. FrameAt(p)'
    BY <1>1, <1>4, Constant DEF FrameAt
  <2> QED
    BY <1>1, <1>4, <2>1, <2>2
<1> QED
  BY <1>1, <1>2, <1>3, <1>4 DEF FrameInv

LEMMA FrameBegins == ASSUME PartsInit PROVE FrameInv
<1>1. /\ whole \in Texts /\ text = whole /\ format \in Formats /\ Frame!ContentMax(format) > 0
      /\ rl = [buf |-> << >>, pending |-> FALSE, truncated |-> FALSE] /\ records = << >>
  BY DEF PartsInit, Frame!Init
<1>2. whole \in Seq(Range(whole) \ {"end"}) /\ format.lrecl \in Nat
  BY <1>1, FrameAssumption
<1>3. Room \in Nat \ {0}
  BY <1>1, <1>2 DEF Room, Frame!ContentMax
<1>4. rl.buf = << >> /\ rl.pending = FALSE /\ rl.truncated = FALSE
  BY <1>1
<1>5. FrameTyped
  BY <1>1, <1>2, <1>3, <1>4 DEF FrameTyped
<1>6. Total \in Nat /\ 0 \in 0 .. Total /\ 0 + 1 = 1
  BY <1>5, BodyFacts
<1>7. text = SubSeq(whole, 1, Total)
  <2>1. PICK t : t = SubSeq(whole, 1, Total)
    OBVIOUS
  <2>2. PICK n \in Nat : n = Total
    BY <1>6
  <2>3. n <= Total /\ 1 <= n + 1
    BY <2>2
  <2>4. t \in Seq(Chars) /\ Len(t) = n - 1 + 1 /\ \A i \in 1 .. n - 1 + 1 : t[i] = whole[1 + i - 1]
    BY <1>5, <2>1, <2>2, <2>3, PartIs
  <2>5. Len(t) = n /\ \A i \in 1 .. n : i \in 1 .. n - 1 + 1 /\ 1 + i - 1 = i
    BY <2>4
  <2>6. Len(t) = Len(whole) /\ \A i \in 1 .. Len(t) : t[i] = whole[i]
    BY <2>2, <2>4, <2>5 DEF Total
  <2>7. t = whole
    BY <1>2, <2>4, <2>6, SeqEqual
  <2> QED
    BY <1>1, <2>1, <2>7
<1>8. IsStart(1, 1)
  BY DEF IsStart
<1>9. Frame!LineTo(1) = << >>
  <2>1. Frame!LineTo(1) = SubSeq(whole, 1, 1 - 1)
    BY <1>8, LineToIs
  <2> QED
    BY <2>1, SubSeqEmpty
<1>10. Cut(<< >>) = << >> /\ ~(Len(<< >>) > Room)
  <2>1. Len(<< >>) = 0 /\ SubSeq(<< >>, 1, 0) = << >>
    BY SubSeqEmpty
  <2> QED
    BY <1>3, <2>1 DEF Cut
<1>11. EndsTo(0) = {}
  BY <1>5, <1>6, EndsFacts
<1>12. FrameAt(0)
  <2>1. Cardinality(EndsTo(0)) = 0 /\ Len(records) = 0
    BY <1>1, <1>11, FS_EmptySet
  <2>2. \A i \in 1 .. 0 + 1 : i = 1
    OBVIOUS
  <2>3. ~(\E i \in 1 .. 0 + 1 : Len(Frame!LineTo(i)) > Room)
    BY <1>9, <1>10, <2>2
  <2>4. (\E s : IsStart(s, 0 + 1)) /\ rl.buf = Cut(Frame!LineTo(0 + 1))
    BY <1>4, <1>6, <1>8, <1>9, <1>10
  <2>5. ~(0 >= 1)
    OBVIOUS
  <2> QED
    BY <1>4, <1>11, <2>1, <2>3, <2>4, <2>5 DEF FrameAt
<1>13. text # <<"end">>
  <2> SUFFICES ASSUME text = <<"end">> PROVE FALSE
    OBVIOUS
  <2>1. SubSeq(whole, 0 + 1, Total) = <<"end">>
    BY <1>6, <1>7
  <2> QED
    BY <1>5, <1>6, <2>1, NotEnd
<1>14. FramedExact
  BY <1>13 DEF FramedExact, Frame!FramedExact
<1> QED
  BY <1>5, <1>6, <1>7, <1>12, <1>14 DEF FrameInv

LEMMA FrameNext == ASSUME FrameInv, [PartsNext]_allVars PROVE FrameInv'
<1>1. Frame!Next \/ UNCHANGED frameVars
  BY DEF PartsNext, ReadStep, SendOn, SendOther, ListStep, ListOther, FrameStep, DeckStep, allVars
<1>2. CASE Frame!Byte
  BY <1>2, ByteFrame
<1>3. CASE Frame!Flush
  BY <1>3, FlushFrame
<1>4. CASE Frame!Framed \/ UNCHANGED frameVars
  <2>1. UNCHANGED frameVars
    BY <1>4 DEF Frame!Framed, Frame!frameVars, frameVars
  <2> QED
    BY <2>1, SameFrame
<1> QED
  BY <1>1, <1>2, <1>3, <1>4 DEF Frame!Next

\* Every text body becomes exactly the records of its lines: whatever the body, and
\* wherever a CR and an LF stand in it, no line is lost, joined or split, and a cut is
\* reported (reclines.c: recline_put, recline_flush).
THEOREM TextsAreFramed == PartsSpec => []FramedExact
<1>1. PartsInit => FrameInv
  BY FrameBegins
<1>2. FrameInv /\ [PartsNext]_allVars => FrameInv'
  BY FrameNext
<1>3. FrameInv => FramedExact
  BY DEF FrameInv
<1> QED
  BY <1>1, <1>2, <1>3, PTL DEF PartsSpec

-----------------------------------------------------------------------------
(* The value of a Content-Length. *)

LEMMA GreatestOf ==
    ASSUME NEW n \in Nat, NEW T, T \subseteq 1 .. n, T # {} PROVE \E x \in T : \A y \in T : y <= x
<1> DEFINE U == {n - i : i \in T}
<1>0. \A i \in T : i \in Nat /\ i <= n /\ n - i \in Nat
  OBVIOUS
<1>1. U \subseteq Nat /\ U # {}
  BY <1>0
<1> HIDE DEF U
<1>2. PICK u \in U : \A v \in U : u <= v
  BY <1>1, LeastOf
<1> USE DEF U
<1>3. PICK x \in T : u = n - x
  OBVIOUS
<1>4. ASSUME NEW y \in T PROVE y <= x
  <2>1. n - y \in U
    OBVIOUS
  <2>2. n - x <= n - y /\ x \in Nat /\ y \in Nat
    BY <1>2, <1>3, <2>1
  <2> QED
    BY <2>2
<1> QED
  BY <1>4

LEMMA StripIs == ASSUME NEW S, NEW s \in Seq(S) PROVE Strip(s) \in Seq(S)
<1> DEFINE solid == {i \in DOMAIN s : s[i] # " "}
           first == CHOOSE i \in solid : \A j \in solid : i <= j
           last  == CHOOSE i \in solid : \A j \in solid : j <= i
<1>1. Strip(s) = IF solid = {} THEN << >> ELSE SubSeq(s, first, last)
  BY DEF Strip
<1>2. CASE solid = {}
  <2>1. Strip(s) = << >>
    BY <1>1, <1>2, Zenon
  <2> QED
    BY <2>1
<1>3. CASE solid # {}
  <2>0. Len(s) \in Nat /\ DOMAIN s = 1 .. Len(s)
    BY LenProperties
  <2>a. solid \subseteq DOMAIN s
    OBVIOUS
  <2> HIDE DEF solid
  <2>1. solid \subseteq 1 .. Len(s) /\ solid \subseteq Nat
    BY <2>0, <2>a
  <2>2. \E i \in solid : \A j \in solid : i <= j
    BY <1>3, <2>1, LeastOf
  <2>3. \E i \in solid : \A j \in solid : j <= i
    BY <1>3, <2>0, <2>1, GreatestOf
  <2>4. first \in solid /\ last \in solid
    BY <2>2, <2>3
  <2> HIDE DEF first, last
  <2>5. first \in 1 .. Len(s) /\ last \in 1 .. Len(s)
    BY <2>1, <2>4
  <2>6. \A i \in first .. last : i \in 1 .. Len(s)
    BY <2>0, <2>5
  <2>7. \A i \in first .. last : s[i] \in S
    BY <2>6, ElementOfSeq
  <2>8. SubSeq(s, first, last) \in Seq(S)
    BY <2>0, <2>5, <2>7, SubSeqProperties
  <2> QED
    BY <1>1, <1>3, <2>8
<1> QED
  BY <1>2, <1>3

\* The value that stops at the limit, and the value.
Stops(f, d, n) ==
    f = [k \in 0 .. n |->
           IF k = 0 THEN 0
           ELSE IF f[k - 1] < BodyMax /\ IsDigit(d[k]) THEN f[k - 1] * 10 + Digits[d[k]] ELSE f[k - 1]]
Counts(f, d, n) == f = [k \in 0 .. n |-> IF k = 0 THEN 0 ELSE f[k - 1] * 10 + Digits[d[k]]]

LEMMA StopsExist == ASSUME NEW d, NEW n \in Nat PROVE \E f : Stops(f, d, n)
<1> DEFINE Step(k, v) == IF v < BodyMax /\ IsDigit(d[k]) THEN v * 10 + Digits[d[k]] ELSE v
           S == {m \in Nat : \E f : f = [k \in 0 .. m |-> IF k = 0 THEN 0 ELSE Step(k, f[k - 1])]}
<1> HIDE DEF Step
<1>1. 0 \in S
  <2> DEFINE f == [k \in 0 .. 0 |-> 0]
  <2>1. \A k \in 0 .. 0 : k = 0
    OBVIOUS
  <2>2. f = [k \in 0 .. 0 |-> IF k = 0 THEN 0 ELSE Step(k, f[k - 1])]
    BY <2>1
  <2> QED
    BY <2>2
<1>2. ASSUME NEW m \in Nat, m \in S PROVE m + 1 \in S
  <2>1. PICK f : f = [k \in 0 .. m |-> IF k = 0 THEN 0 ELSE Step(k, f[k - 1])]
    BY <1>2
  <2> DEFINE g == [k \in 0 .. m + 1 |-> IF k <= m THEN f[k] ELSE Step(k, f[k - 1])]
  <2>2. ASSUME NEW k \in 0 .. m + 1 PROVE g[k] = IF k = 0 THEN 0 ELSE Step(k, g[k - 1])
    <3>1. k # 0 => g[k - 1] = f[k - 1]
      <4>1. k # 0 => k - 1 \in 0 .. m + 1 /\ k - 1 <= m
        OBVIOUS
      <4> QED
        BY <4>1
    <3>2. k <= m => f[k] = IF k = 0 THEN 0 ELSE Step(k, f[k - 1])
      BY <2>1
    <3>3. ~(k <= m) => k # 0
      OBVIOUS
    <3> QED
      BY <3>1, <3>2, <3>3
  <2>3. g = [k \in 0 .. m + 1 |-> g[k]]
    OBVIOUS
  <2> HIDE DEF g
  <2>4. g = [k \in 0 .. m + 1 |-> IF k = 0 THEN 0 ELSE Step(k, g[k - 1])]
    BY <2>2, <2>3
  <2> QED
    BY <2>4
<1> HIDE DEF S
<1>3. Nat \subseteq S
  BY <1>1, <1>2, SetInduction
<1>4. PICK f : f = [k \in 0 .. n |-> IF k = 0 THEN 0 ELSE Step(k, f[k - 1])]
  BY <1>3 DEF S
<1>5. Stops(f, d, n)
  BY <1>4 DEF Stops, Step
<1> QED
  BY <1>5

LEMMA CountsExist == ASSUME NEW d, NEW n \in Nat PROVE \E f : Counts(f, d, n)
<1> DEFINE S == {m \in Nat : \E f : Counts(f, d, m)}
<1>1. 0 \in S
  <2> DEFINE f == [k \in 0 .. 0 |-> 0]
  <2>1. \A k \in 0 .. 0 : k = 0
    OBVIOUS
  <2>2. Counts(f, d, 0)
    BY <2>1 DEF Counts
  <2> QED
    BY <2>2
<1>2. ASSUME NEW m \in Nat, m \in S PROVE m + 1 \in S
  <2>1. PICK f : Counts(f, d, m)
    BY <1>2
  <2> DEFINE g == [k \in 0 .. m + 1 |-> IF k <= m THEN f[k] ELSE f[k - 1] * 10 + Digits[d[k]]]
  <2>2. ASSUME NEW k \in 0 .. m + 1 PROVE g[k] = IF k = 0 THEN 0 ELSE g[k - 1] * 10 + Digits[d[k]]
    <3>1. k # 0 => g[k - 1] = f[k - 1]
      <4>1. k # 0 => k - 1 \in 0 .. m + 1 /\ k - 1 <= m
        OBVIOUS
      <4> QED
        BY <4>1
    <3>2. k <= m => f[k] = IF k = 0 THEN 0 ELSE f[k - 1] * 10 + Digits[d[k]]
      BY <2>1 DEF Counts
    <3>3. ~(k <= m) => k # 0
      OBVIOUS
    <3> QED
      BY <3>1, <3>2, <3>3
  <2>3. g = [k \in 0 .. m + 1 |-> g[k]]
    OBVIOUS
  <2> HIDE DEF g
  <2>4. Counts(g, d, m + 1)
    BY <2>2, <2>3 DEF Counts
  <2> QED
    BY <2>4
<1> HIDE DEF S
<1>3. Nat \subseteq S
  BY <1>1, <1>2, SetInduction
<1> QED
  BY <1>3 DEF S

LEMMA DigitIs == ASSUME NEW c, IsDigit(c) PROVE Digits[c] \in Nat
BY DEF Digits, IsDigit

\* Below the limit the value that stops is the value; it stops only at or above it.
LEMMA StopsRight ==
    ASSUME NEW d, NEW n \in Nat, \A i \in 1 .. n : IsDigit(d[i]),
           NEW f, Stops(f, d, n), NEW g, Counts(g, d, n)
    PROVE  \A k \in 0 .. n : /\ f[k] \in Nat /\ g[k] \in Nat
                             /\ f[k] < BodyMax => f[k] = g[k]
                             /\ f[k] >= BodyMax => g[k] >= BodyMax
<1> DEFINE S == {k \in Nat : k <= n => /\ f[k] \in Nat /\ g[k] \in Nat
                                       /\ f[k] < BodyMax => f[k] = g[k]
                                       /\ f[k] >= BodyMax => g[k] >= BodyMax}
<1>0. BodyMax \in Nat
  BY BodyAssumption DEF BodyAssumption
<1>1. 0 \in S
  <2>1. f[0] = 0 /\ g[0] = 0
    BY DEF Stops, Counts
  <2> QED
    BY <1>0, <2>1
<1>2. ASSUME NEW k \in Nat, k \in S PROVE k + 1 \in S
  <2> SUFFICES ASSUME k + 1 <= n
               PROVE  /\ f[k + 1] \in Nat /\ g[k + 1] \in Nat
                      /\ f[k + 1] < BodyMax => f[k + 1] = g[k + 1]
                      /\ f[k + 1] >= BodyMax => g[k + 1] >= BodyMax
    OBVIOUS
  <2>1. k + 1 \in 0 .. n /\ k + 1 # 0 /\ (k + 1) - 1 = k /\ k <= n /\ k + 1 \in 1 .. n
    OBVIOUS
  <2>2. PICK x \in Nat : x = Digits[d[k + 1]]
    BY <2>1, DigitIs
  <2>3. f[k + 1] = IF f[k] < BodyMax THEN f[k] * 10 + x ELSE f[k]
    BY <2>1, <2>2 DEF Stops
  <2>4. g[k + 1] = g[k] * 10 + x
    BY <2>1, <2>2 DEF Counts
  <2>5. /\ f[k] \in Nat /\ g[k] \in Nat
        /\ f[k] < BodyMax => f[k] = g[k]
        /\ f[k] >= BodyMax => g[k] >= BodyMax
    BY <1>2, <2>1
  <2>6. PICK a \in Nat, b \in Nat : a = f[k] /\ b = g[k]
    BY <2>5
  <2>7. PICK u \in Nat, v \in Nat : u = a * 10 + x /\ v = b * 10 + x
    OBVIOUS
  <2>8. g[k + 1] = v /\ v >= b
    BY <2>4, <2>6, <2>7
  <2>9. CASE a < BodyMax
    <3>1. f[k + 1] = u /\ a = b
      BY <2>3, <2>5, <2>6, <2>7, <2>9
    <3> QED
      BY <1>0, <2>7, <2>8, <3>1
  <2>10. CASE ~(a < BodyMax)
    <3>1. f[k + 1] = a /\ b >= BodyMax /\ a >= BodyMax
      BY <1>0, <2>3, <2>5, <2>6, <2>10
    <3> QED
      BY <1>0, <2>8, <3>1
  <2> QED
    BY <2>9, <2>10
<1> HIDE DEF S
<1>3. Nat \subseteq S
  BY <1>1, <1>2, SetInduction
<1> QED
  BY <1>3 DEF S

\* parse_length refuses what is not a number, gives a small one, and tells a large one.
LEMMA LengthParsed ==
    ASSUME NEW s \in Seq(Bytes), NEW d, d = Strip(s)
    PROVE  /\ d = << >> \/ (\E i \in DOMAIN d : ~IsDigit(d[i])) => ParseLength(s) = -1
           /\ d # << >> /\ (\A i \in DOMAIN d : IsDigit(d[i])) =>
                /\ ParseLength(s) \in Nat /\ Decimal(d) \in Nat
                /\ ParseLength(s) < BodyMax => ParseLength(s) = Decimal(d)
                /\ ParseLength(s) >= BodyMax => Decimal(d) >= BodyMax
<1>1. d \in Seq(Bytes) /\ Len(d) \in Nat /\ DOMAIN d = 1 .. Len(d)
  BY StripIs, LenProperties
<1> DEFINE f == CHOOSE f : Stops(f, d, Len(d))
           g == CHOOSE g : Counts(g, d, Len(d))
<1>2. Stops(f, d, Len(d)) /\ Counts(g, d, Len(d))
  BY <1>1, StopsExist, CountsExist
<1>3. ParseLength(s) = IF d = << >> \/ \E i \in DOMAIN d : ~IsDigit(d[i]) THEN -1 ELSE f[Len(d)]
  BY DEF ParseLength, Stops
<1>4. Decimal(d) = g[Len(d)]
  BY DEF Decimal, Counts
<1> HIDE DEF f, g
<1>5. ASSUME d # << >>, \A i \in DOMAIN d : IsDigit(d[i])
      PROVE  /\ ParseLength(s) \in Nat /\ Decimal(d) \in Nat
             /\ ParseLength(s) < BodyMax => ParseLength(s) = Decimal(d)
             /\ ParseLength(s) >= BodyMax => Decimal(d) >= BodyMax
  <2>1. ParseLength(s) = f[Len(d)]
    BY <1>3, <1>5
  <2>2. Len(d) \in 0 .. Len(d)
    BY <1>1
  <2>3. /\ f[Len(d)] \in Nat /\ g[Len(d)] \in Nat
        /\ f[Len(d)] < BodyMax => f[Len(d)] = g[Len(d)]
        /\ f[Len(d)] >= BodyMax => g[Len(d)] >= BodyMax
    BY <1>1, <1>2, <1>5, <2>2, StopsRight
  <2> QED
    BY <1>4, <2>1, <2>3
<1> QED
  BY <1>3, <1>5

-----------------------------------------------------------------------------
(* The reader of a body.  A result says nothing of the way to it: the      *)
(* invariant says at every step how many chunks are through, that the wire *)
(* is what is behind them, and that the buffer is the body up to there.    *)

Came == Len(req.wire)
Final == Len(req.lines)
EndOf(k) == req.at[k] + Len(req.lines[k])

\* What nobody has read when p bytes have been.
Rest(p) == SubSeq(req.wire, p + 1, Came)

Short(k) == \A j \in 1 .. k : Len(req.lines[j]) <= LineMax - 2

\* What there is of the body when the chunks in front of the k-th are through.
Held(k) ==
    /\ size <= req.off[k]
    /\ ~nomem => size = req.off[k] /\ (buf = None => k = 1)
    /\ buf # None => buf = SubSeq(req.body, 1, size)

AtLine(k) == wire = Rest(req.at[k]) /\ Held(k) /\ Short(k - 1)
AtChunk(k) ==
    /\ wire = Rest(EndOf(k) + 2) /\ Held(k) /\ Short(k)
    /\ chunk = Len(req.chunks[k]) /\ size + chunk < BodyMax
AtEnd == wire = Rest(EndOf(Final) + 2) /\ Held(Final) /\ Short(Final) /\ req.whole

BodyInv ==
    /\ req \in Requests /\ BodyExact /\ RefusalIsClean
    /\ reports = IF nomem THEN 1 ELSE 0
    /\ nomem => buf = None
    /\ pc \in {"start", "body"} => wire = req.wire /\ buf = None /\ size = 0 /\ ~nomem
    /\ pc = "body" => /\ ~req.chunked /\ req.length # None
                      /\ chunk = ParseLength(req.length) /\ chunk \in 0 .. BodyMax - 1
    /\ pc \in {"line", "grow", "data", "last"} => req.chunked
    /\ pc = "line" => \E k \in 1 .. Final : AtLine(k)
    /\ pc \in {"grow", "data"} => \E k \in 1 .. Final - 1 : AtChunk(k)
    /\ pc = "data" /\ ~nomem => buf # None
    /\ pc = "last" => AtEnd

LEMMA RequestFacts ==
    ASSUME req \in Requests
    PROVE  /\ req.wire \in Seq(Bytes) /\ req.body \in Seq(Bytes) /\ Came \in Nat /\ Len(req.body) \in Nat
           /\ req.chunked \in BOOLEAN /\ req.whole \in BOOLEAN /\ req.wellFormed \in BOOLEAN
           /\ \A n \in 0 .. Len(req.body) : SubSeq(req.body, 1, n) # None
           /\ req.chunked => ChunkedSent(req)
           /\ ~req.chunked /\ req.length # None => LengthSent(req)
           /\ ~req.chunked /\ req.length = None => ~req.wellFormed
<1>1. PICK r \in Requests : r = req
  OBVIOUS
<1>2. r.wire \in Seq(Bytes) /\ r.body \in Seq(Bytes)
  BY RequestsAssumption
<1>3. Len(r.wire) \in Nat /\ Len(r.body) \in Nat
  BY <1>2, LenProperties
<1> QED
  BY <1>1, <1>2, <1>3, RequestsAssumption, Zenon DEF Came

LEMMA ChunkFacts ==
    ASSUME req \in Requests, req.chunked
    PROVE  /\ Final \in Nat /\ Final >= 1
           /\ \A k \in 1 .. Final :
                /\ req.at[k] \in Nat /\ req.off[k] \in 0 .. Len(req.body)
                /\ req.lines[k] \in Seq(Bytes \ {"CR"}) /\ Len(req.lines[k]) \in Nat /\ EndOf(k) \in Nat
           /\ req.at[1] = 0 /\ req.off[1] = 0 /\ req.off[Final] = Len(req.body)
           /\ ChunkSize(req.lines[Final]) = 0
           /\ req.whole <=> Came >= EndOf(Final) + 1
           /\ Came <= EndOf(Final) + 4
           /\ req.wellFormed <=> Short(Final)
<1>1. ChunkedSent(req)
  BY RequestFacts
<1>2. req.lines \in Seq(Seq(Bytes \ {"CR"})) /\ req.chunks \in Seq(Seq(Bytes)) /\ Final = Len(req.chunks) + 1
  BY <1>1, Zenon DEF ChunkedSent, Final
<1>3. Len(req.chunks) \in Nat /\ DOMAIN req.lines = 1 .. Final /\ Final \in Nat /\ Final >= 1
  BY <1>2, LenProperties DEF Final
<1>4. /\ req.at \in [1 .. Final -> Nat] /\ req.off \in [1 .. Final -> 0 .. Len(req.body)]
      /\ req.at[1] = 0 /\ req.off[1] = 0 /\ req.off[Final] = Len(req.body)
      /\ ChunkSize(req.lines[Final]) = 0
      /\ req.whole <=> Came >= EndOf(Final) + 1
      /\ Came <= EndOf(Final) + 4
      /\ req.wellFormed <=> \A k \in DOMAIN req.lines : Len(req.lines[k]) <= LineMax - 2
  BY <1>1, Zenon DEF ChunkedSent, Final, EndOf, Came
<1>5. ASSUME NEW k \in 1 .. Final
      PROVE  /\ req.at[k] \in Nat /\ req.off[k] \in 0 .. Len(req.body)
             /\ req.lines[k] \in Seq(Bytes \ {"CR"}) /\ Len(req.lines[k]) \in Nat /\ EndOf(k) \in Nat
  <2>1. req.at[k] \in Nat /\ req.off[k] \in 0 .. Len(req.body)
    BY <1>4
  <2>2. req.lines[k] \in Seq(Bytes \ {"CR"})
    BY <1>2, <1>3, ElementOfSeq DEF Final
  <2>3. Len(req.lines[k]) \in Nat
    BY <2>2, LenProperties
  <2> QED
    BY <2>1, <2>2, <2>3 DEF EndOf
<1>6. req.wellFormed <=> Short(Final)
  BY <1>3, <1>4 DEF Short
<1> QED
  BY <1>3, <1>4, <1>5, <1>6

LEMMA StepFacts ==
    ASSUME req \in Requests, req.chunked, NEW k \in 1 .. Final - 1
    PROVE  /\ req.chunks[k] \in Seq(Bytes) /\ Len(req.chunks[k]) \in Nat /\ Len(req.chunks[k]) > 0
           /\ k \in 1 .. Final /\ k + 1 \in 1 .. Final
           /\ ChunkSize(req.lines[k]) = Len(req.chunks[k])
           /\ req.at[k + 1] = EndOf(k) + 2 + Len(req.chunks[k]) + 2
           /\ req.off[k + 1] = req.off[k] + Len(req.chunks[k])
           /\ \A i \in 1 .. Len(req.chunks[k]) :
                /\ req.body[req.off[k] + i] = req.chunks[k][i]
                /\ EndOf(k) + 2 + i <= Came => req.wire[EndOf(k) + 2 + i] = req.chunks[k][i]
<1>1. ChunkedSent(req) /\ Final \in Nat
  BY RequestFacts, ChunkFacts
<1>2. req.chunks \in Seq(Seq(Bytes)) /\ Final = Len(req.chunks) + 1
  BY <1>1, Zenon DEF ChunkedSent, Final
<1>3. Len(req.chunks) \in Nat /\ DOMAIN req.chunks = 1 .. Len(req.chunks)
  BY <1>2, LenProperties
<1>4. k \in 1 .. Len(req.chunks) /\ k \in DOMAIN req.chunks /\ k \in 1 .. Final /\ k + 1 \in 1 .. Final
  BY <1>2, <1>3
<1>5. req.chunks[k] \in Seq(Bytes)
  BY <1>2, <1>4, ElementOfSeq
<1>6. Len(req.chunks[k]) \in Nat /\ DOMAIN req.chunks[k] = 1 .. Len(req.chunks[k])
  BY <1>5, LenProperties
<1>7. /\ Len(req.chunks[k]) > 0 /\ ChunkSize(req.lines[k]) = Len(req.chunks[k])
      /\ req.at[k + 1] = EndOf(k) + 2 + Len(req.chunks[k]) + 2
      /\ req.off[k + 1] = req.off[k] + Len(req.chunks[k])
      /\ \A i \in DOMAIN req.chunks[k] :
           /\ req.body[req.off[k] + i] = req.chunks[k][i]
           /\ EndOf(k) + 2 + i <= Came => req.wire[EndOf(k) + 2 + i] = req.chunks[k][i]
  BY <1>1, <1>4, Zenon DEF ChunkedSent, EndOf, Came
<1> QED
  BY <1>4, <1>5, <1>6, <1>7

LEMMA LineBytes ==
    ASSUME req \in Requests, req.chunked, NEW k \in 1 .. Final
    PROVE  /\ \A i \in 1 .. Len(req.lines[k]) :
                /\ req.lines[k][i] # "CR"
                /\ req.at[k] + i <= Came => req.wire[req.at[k] + i] = req.lines[k][i]
           /\ EndOf(k) + 1 <= Came => req.wire[EndOf(k) + 1] = "CR"
<1>1. ChunkedSent(req)
  BY RequestFacts
<1>2. req.lines \in Seq(Seq(Bytes \ {"CR"}))
  BY <1>1, Zenon DEF ChunkedSent
<1>3. DOMAIN req.lines = 1 .. Final
  BY <1>2, LenProperties DEF Final
<1>4. req.lines[k] \in Seq(Bytes \ {"CR"})
  BY ChunkFacts
<1>5. DOMAIN req.lines[k] = 1 .. Len(req.lines[k])
  BY <1>4, LenProperties
<1>6. \A i \in 1 .. Len(req.lines[k]) : req.lines[k][i] \in Bytes \ {"CR"}
  BY <1>4, ElementOfSeq
<1>7. /\ \A i \in DOMAIN req.lines[k] : req.at[k] + i <= Came => req.wire[req.at[k] + i] = req.lines[k][i]
      /\ EndOf(k) + 1 <= Came => req.wire[EndOf(k) + 1] = "CR"
  BY <1>1, <1>3, Zenon DEF ChunkedSent, EndOf, Came
<1> QED
  BY <1>5, <1>6, <1>7

\* Every line ends in front of the last.
LEMMA EndsOrdered ==
    ASSUME req \in Requests, req.chunked, NEW k \in 1 .. Final PROVE EndOf(k) <= EndOf(Final)
<1> DEFINE S == {m \in Nat : m < Final => EndOf(Final - m) <= EndOf(Final)}
<1>0. Final \in Nat /\ Final >= 1 /\ \A j \in 1 .. Final : EndOf(j) \in Nat
  BY ChunkFacts
<1>1. 0 \in S
  <2>1. Final - 0 = Final /\ EndOf(Final) \in Nat
    BY <1>0
  <2> QED
    BY <2>1
<1>2. ASSUME NEW m \in Nat, m \in S PROVE m + 1 \in S
  <2> SUFFICES ASSUME m + 1 < Final PROVE EndOf(Final - (m + 1)) <= EndOf(Final)
    OBVIOUS
  <2>1. PICK j \in 1 .. Final - 1 : j = Final - (m + 1)
    BY <1>0
  <2>2. PICK n \in 1 .. Final : n = j + 1
    BY <1>0, <2>1
  <2>3. n = Final - m /\ m < Final
    BY <1>0, <2>1, <2>2
  <2>4. EndOf(n) <= EndOf(Final)
    BY <1>2, <2>3
  <2>5. req.at[n] = EndOf(j) + 2 + Len(req.chunks[j]) + 2 /\ Len(req.chunks[j]) \in Nat
    BY <2>2, StepFacts
  <2>6. EndOf(n) = req.at[n] + Len(req.lines[n]) /\ Len(req.lines[n]) \in Nat
    BY ChunkFacts DEF EndOf
  <2>7. EndOf(j) \in Nat /\ EndOf(Final) \in Nat
    BY <1>0, <2>1
  <2>8. EndOf(j) <= EndOf(Final)
    <3>1. PICK a \in Nat, b \in Nat, c \in Nat : a = EndOf(j) /\ b = Len(req.chunks[j]) /\ c = Len(req.lines[n])
      BY <2>5, <2>6, <2>7
    <3>2. EndOf(n) = a + 2 + b + 2 + c
      BY <2>5, <2>6, <3>1
    <3>3. PICK z \in Nat : z = EndOf(Final)
      BY <2>7
    <3>4. a + 2 + b + 2 + c <= z
      BY <2>4, <3>2, <3>3
    <3>5. a <= z
      BY <3>4
    <3> QED
      BY <3>1, <3>3, <3>5
  <2> QED
    BY <2>1, <2>8
<1> HIDE DEF S
<1>3. Final - k \in S
  BY <1>0, <1>1, <1>2, SetInduction
<1>4. Final - (Final - k) = k /\ Final - k < Final
  BY <1>0
<1> QED
  BY <1>3, <1>4 DEF S

\* Reading on.
LEMMA RestIs ==
    ASSUME req \in Requests, NEW p \in Nat, NEW w, w = Rest(p)
    PROVE  /\ w \in Seq(Bytes) /\ Len(w) \in Nat
           /\ Len(w) = IF p <= Came THEN Came - p ELSE 0
           /\ \A i \in 1 .. Len(w) : w[i] = req.wire[p + i]
<1>1. req.wire \in Seq(Bytes) /\ Came \in Nat /\ Came = Len(req.wire)
  BY RequestFacts DEF Came
<1>2. PICK q \in Nat : q = p + 1
  OBVIOUS
<1>3. \A i \in q .. Came : i \in 1 .. Came
  BY <1>1, <1>2
<1>4. \A i \in q .. Came : req.wire[i] \in Bytes
  BY <1>1, <1>3, ElementOfSeq
<1>5. w = SubSeq(req.wire, q, Came)
  BY <1>2 DEF Rest
<1>6. /\ w \in Seq(Bytes) /\ Len(w) = IF q <= Came THEN Came - q + 1 ELSE 0
      /\ \A i \in 1 .. Came - q + 1 : w[i] = req.wire[q + i - 1]
  BY <1>1, <1>2, <1>4, <1>5, SubSeqProperties
<1>7. Len(w) = IF p <= Came THEN Came - p ELSE 0
  BY <1>1, <1>2, <1>6
<1>8. ASSUME NEW i \in 1 .. Len(w) PROVE w[i] = req.wire[p + i]
  <2>1. i \in 1 .. Came - q + 1 /\ q + i - 1 = p + i
    BY <1>1, <1>2, <1>7
  <2> QED
    BY <1>6, <2>1
<1>9. Len(w) \in Nat
  BY <1>1, <1>7
<1> QED
  BY <1>6, <1>7, <1>8, <1>9

LEMMA ReadOn ==
    ASSUME req \in Requests, NEW p \in Nat, NEW n \in Nat, wire = Rest(p) PROVE Behind(n) = Rest(p + n)
<1>1. Came \in Nat
  BY RequestFacts
<1>2. PICK q \in Nat : q = p + n
  OBVIOUS
<1>3. PICK v : v = Rest(q)
  OBVIOUS
<1>4. /\ v \in Seq(Bytes) /\ Len(v) \in Nat /\ Len(v) = IF q <= Came THEN Came - q ELSE 0
      /\ \A i \in 1 .. Len(v) : v[i] = req.wire[q + i]
  BY <1>3, RestIs
<1>5. /\ wire \in Seq(Bytes) /\ Len(wire) \in Nat /\ Len(wire) = IF p <= Came THEN Came - p ELSE 0
      /\ \A i \in 1 .. Len(wire) : wire[i] = req.wire[p + i]
  BY RestIs
<1>6. PICK u : u = Behind(n)
  OBVIOUS
<1>7. /\ u \in Seq(Bytes) /\ Len(u) \in Nat /\ Len(u) = IF n <= Len(wire) THEN Len(wire) - n ELSE 0
      /\ \A i \in 1 .. Len(u) : u[i] = wire[n + i]
  <2>0. PICK l \in Nat : l = Len(wire)
    BY <1>5
  <2>1. PICK m \in Nat : m = n + 1 /\ l = Len(wire)
    BY <2>0
  <2>2. \A i \in m .. l : i \in 1 .. Len(wire)
    BY <2>1
  <2>3. \A i \in m .. l : wire[i] \in Bytes
    BY <1>5, <2>2, ElementOfSeq
  <2>4. u = SubSeq(wire, m, l)
    BY <1>6, <2>1 DEF Behind
  <2>5. /\ u \in Seq(Bytes) /\ Len(u) = IF m <= l THEN l - m + 1 ELSE 0
        /\ \A i \in 1 .. l - m + 1 : u[i] = wire[m + i - 1]
    BY <2>1, <2>3, <2>4, SubSeqProperties
  <2>6. Len(u) \in Nat /\ Len(u) = IF n <= Len(wire) THEN Len(wire) - n ELSE 0
    BY <2>1, <2>5
  <2>7. ASSUME NEW i \in 1 .. Len(u) PROVE u[i] = wire[n + i]
    <3>1. i \in 1 .. l - m + 1 /\ m + i - 1 = n + i
      BY <2>1, <2>6
    <3> QED
      BY <2>5, <3>1
  <2> QED
    BY <2>5, <2>6, <2>7
<1>8. Len(u) = Len(v)
  BY <1>1, <1>2, <1>4, <1>5, <1>7
<1>9. ASSUME NEW i \in 1 .. Len(u) PROVE u[i] = v[i]
  <2>1. PICK j \in 1 .. Len(wire) : j = n + i
    BY <1>5, <1>7
  <2>2. u[i] = wire[j] /\ wire[j] = req.wire[p + j]
    BY <1>5, <1>7, <2>1
  <2>3. v[i] = req.wire[q + i] /\ p + j = q + i
    BY <1>2, <1>4, <1>8, <2>1
  <2> QED
    BY <2>2, <2>3
<1>10. u = v
  BY <1>4, <1>7, <1>8, <1>9, SeqEqual
<1> QED
  BY <1>2, <1>3, <1>6, <1>10

\* A size line that is not there has no CR; one that is there has its own first.
LEMMA NoCR ==
    ASSUME req \in Requests, req.chunked, NEW k \in 1 .. Final, wire = Rest(req.at[k]), ~(EndOf(k) + 1 <= Came)
    PROVE  CRs = {}
<1>1. PICK p \in Nat, m \in Nat : p = req.at[k] /\ m = Len(req.lines[k])
  BY ChunkFacts
<1>2. EndOf(k) = p + m /\ Came \in Nat
  BY <1>1, RequestFacts DEF EndOf
<1>3. /\ wire \in Seq(Bytes) /\ Len(wire) \in Nat /\ Len(wire) = IF p <= Came THEN Came - p ELSE 0
      /\ \A i \in 1 .. Len(wire) : wire[i] = req.wire[p + i]
  <2>1. wire = Rest(p)
    BY <1>1
  <2> QED
    BY <2>1, RestIs
<1>4. DOMAIN wire = 1 .. Len(wire)
  BY <1>3, LenProperties
<1>5. ASSUME NEW i \in 1 .. Len(wire) PROVE wire[i] # "CR"
  <2>1. i \in 1 .. m /\ p + i <= Came
    BY <1>2, <1>3
  <2>2. req.lines[k][i] # "CR" /\ req.wire[p + i] = req.lines[k][i]
    BY <1>1, <2>1, LineBytes
  <2> QED
    BY <1>3, <2>2
<1> QED
  BY <1>4, <1>5 DEF CRs

LEMMA TheCR ==
    ASSUME req \in Requests, req.chunked, NEW k \in 1 .. Final, wire = Rest(req.at[k]), EndOf(k) + 1 <= Came
    PROVE  /\ CRs # {} /\ FirstCR = Len(req.lines[k]) + 1
           /\ SubSeq(wire, 1, FirstCR - 1) = req.lines[k]
<1>0. PICK l \in Seq(Bytes \ {"CR"}) : l = req.lines[k]
  BY ChunkFacts
<1>1. PICK p \in Nat, m \in Nat : p = req.at[k] /\ m = Len(l)
  BY <1>0, ChunkFacts
<1>2. EndOf(k) = p + m /\ Came \in Nat
  BY <1>0, <1>1, RequestFacts DEF EndOf
<1>3. /\ wire \in Seq(Bytes) /\ Len(wire) \in Nat /\ Len(wire) = IF p <= Came THEN Came - p ELSE 0
      /\ \A i \in 1 .. Len(wire) : wire[i] = req.wire[p + i]
  <2>1. wire = Rest(p)
    BY <1>1
  <2> QED
    BY <2>1, RestIs
<1>4. DOMAIN wire = 1 .. Len(wire) /\ m + 1 \in 1 .. Len(wire)
  BY <1>2, <1>3, LenProperties
<1>5. ASSUME NEW i \in 1 .. m PROVE wire[i] = l[i] /\ wire[i] # "CR"
  <2>1. i \in 1 .. Len(wire) /\ p + i <= Came
    BY <1>2, <1>3
  <2>2. l[i] # "CR" /\ req.wire[p + i] = l[i]
    BY <1>0, <1>1, <2>1, LineBytes
  <2> QED
    BY <1>3, <2>1, <2>2
<1>6. wire[m + 1] = "CR"
  <2>1. wire[m + 1] = req.wire[p + (m + 1)] /\ p + (m + 1) = EndOf(k) + 1
    BY <1>2, <1>3, <1>4
  <2>2. req.wire[EndOf(k) + 1] = "CR"
    BY LineBytes
  <2> QED
    BY <2>1, <2>2
<1>7. m + 1 \in CRs /\ \A j \in CRs : j \in Nat /\ m + 1 <= j
  <2>1. m + 1 \in CRs
    BY <1>4, <1>6 DEF CRs
  <2>2. ASSUME NEW j \in CRs PROVE j \in Nat /\ m + 1 <= j
    <3>1. j \in 1 .. Len(wire) /\ wire[j] = "CR"
      BY <1>4 DEF CRs
    <3>2. j \notin 1 .. m
      BY <1>5, <3>1
    <3> QED
      BY <1>3, <3>1, <3>2
  <2> QED
    BY <2>1, <2>2
<1>8. FirstCR = m + 1
  <2>1. FirstCR \in CRs /\ \A j \in CRs : FirstCR <= j
    BY <1>7 DEF FirstCR
  <2>2. FirstCR \in Nat /\ m + 1 <= FirstCR /\ FirstCR <= m + 1
    BY <1>7, <2>1
  <2> QED
    BY <2>2
<1>9. SubSeq(wire, 1, m) = l
  <2>1. PICK u : u = SubSeq(wire, 1, m)
    OBVIOUS
  <2>2. \A i \in 1 .. m : i \in 1 .. Len(wire)
    BY <1>4
  <2>3. \A i \in 1 .. m : wire[i] \in Bytes
    BY <1>3, <2>2, ElementOfSeq
  <2>4. /\ u \in Seq(Bytes) /\ Len(u) = IF 1 <= m THEN m - 1 + 1 ELSE 0
        /\ \A i \in 1 .. m - 1 + 1 : u[i] = wire[1 + i - 1]
    BY <2>1, <2>3, SubSeqProperties
  <2>5. Len(u) = m
    BY <2>4
  <2>6. ASSUME NEW i \in 1 .. m PROVE u[i] = l[i]
    <3>1. i \in 1 .. m - 1 + 1 /\ 1 + i - 1 = i
      OBVIOUS
    <3> QED
      BY <1>5, <2>4, <3>1
  <2>7. u = l
    BY <1>0, <1>1, <2>4, <2>5, <2>6, SeqEqual
  <2> QED
    BY <2>1, <2>7
<1>10. FirstCR - 1 = m
  BY <1>8
<1> QED
  BY <1>0, <1>1, <1>7, <1>8, <1>9, <1>10

\* A body that is not intact may be refused.
LEMMA FailIs ==
    ASSUME BodyInv, NEW code \in {"BAD", "TOO_LARGE"}, Fail(code), ~Intact,
           UNCHANGED <<req, size, nomem, reports>>
    PROVE  BodyInv'
<1>1. /\ pc' = "done" /\ rc' = (IF nomem THEN "NOMEM" ELSE code) /\ buf' = None
      /\ req' = req /\ size' = size /\ nomem' = nomem /\ reports' = reports
  BY DEF Fail, Finish
<1>2. /\ req \in Requests /\ size \in 0 .. BodyMax - 1 /\ nomem \in BOOLEAN
      /\ reports = IF nomem THEN 1 ELSE 0
  BY DEF BodyInv, BodyExact, TypeOK
<1>3. ~Intact'
  BY <1>1 DEF Intact
<1>4. rc' \in {"BAD", "TOO_LARGE", "NOMEM"} /\ (rc' = "NOMEM" <=> nomem)
  BY <1>1
<1>5. TypeOK'
  BY <1>1, <1>2, <1>4 DEF TypeOK
<1>6. BodyExact'
  BY <1>3, <1>4, <1>5 DEF BodyExact
<1>7. RefusalIsClean'
  <2>1. reports' <= 1 /\ (nomem <=> reports' = 1)
    BY <1>1, <1>2
  <2> QED
    BY <1>1, <1>3, <1>4, <2>1 DEF RefusalIsClean, NoBufferLost, DrainedForAnswer
<1> QED
  BY <1>1, <1>2, <1>6, <1>7 DEF BodyInv

\* A body with a size line that is cut off, or whose chunk is, is not whole.
LEMMA CutOff ==
    ASSUME req \in Requests, req.chunked, NEW k \in 1 .. Final, Came < EndOf(k) + 1 PROVE ~Intact
<1>1. EndOf(k) \in Nat /\ EndOf(Final) \in Nat /\ Came \in Nat /\ EndOf(k) <= EndOf(Final)
  <2>1. Final \in 1 .. Final
    BY ChunkFacts
  <2> QED
    BY <2>1, ChunkFacts, RequestFacts, EndsOrdered
<1>2. ~(Came >= EndOf(Final) + 1)
  BY <1>1
<1> QED
  BY <1>2, ChunkFacts DEF Intact

LEMMA NotShort ==
    ASSUME req \in Requests, req.chunked, NEW k \in 1 .. Final, ~(Len(req.lines[k]) <= LineMax - 2) PROVE ~Intact
<1>1. ~Short(Final)
  BY DEF Short
<1> QED
  BY <1>1, ChunkFacts DEF Intact

LEMMA BodyTyped ==
    ASSUME BodyInv
    PROVE  /\ req \in Requests /\ size \in Nat /\ size < BodyMax /\ BodyMax \in Nat /\ LineMax \in Nat
           /\ nomem \in BOOLEAN /\ (buf # None => Len(buf) = size)
           /\ reports = IF nomem THEN 1 ELSE 0
           /\ nomem => buf = None
BY BodyAssumption DEF BodyInv, BodyExact, TypeOK, BodyAssumption

\* While the request is the same, so is what the client means by it.
LEMMA SameRequest ==
    ASSUME req' = req
    PROVE  /\ Came' = Came /\ Final' = Final /\ Intact' = Intact
           /\ \A k : EndOf(k)' = EndOf(k) /\ (Short(k)' <=> Short(k))
           /\ \A p : Rest(p)' = Rest(p)
<1>1. Came' = Came /\ Final' = Final /\ Intact' = Intact
  BY DEF Came, Final, Intact
<1>2. \A k : EndOf(k)' = EndOf(k) /\ (Short(k)' <=> Short(k))
  BY DEF EndOf, Short
<1>3. \A p : Rest(p)' = Rest(p)
  BY <1>1 DEF Rest
<1> QED
  BY <1>1, <1>2, <1>3

\* The reader goes on.
LEMMA GoesOn ==
    ASSUME BodyInv, req' = req, pc' \in {"body", "line", "grow", "data", "last"},
           rc' \in {"none", "OK", "BAD", "NOMEM", "TOO_LARGE"},
           size' \in 0 .. BodyMax - 1, buf' # None => Len(buf') = size',
           nomem' \in BOOLEAN, reports' = (IF nomem' THEN 1 ELSE 0), nomem' => buf' = None
    PROVE  /\ req' \in Requests /\ BodyExact' /\ RefusalIsClean'
           /\ reports' = (IF nomem' THEN 1 ELSE 0)
           /\ nomem' => buf' = None
<1>1. pc' # "done"
  OBVIOUS
<1>2. TypeOK'
  BY DEF TypeOK
<1>3. req' \in Requests
  BY DEF BodyInv
<1> QED
  BY <1>1, <1>2, <1>3 DEF BodyExact, RefusalIsClean, NoBufferLost, DrainedForAnswer

LEMMA StartKeeps == ASSUME BodyInv, Start PROVE BodyInv'
<1>1. /\ pc = "start" /\ req' = req /\ wire' = wire /\ buf' = buf /\ size' = size
      /\ nomem' = nomem /\ reports' = reports
  BY DEF Start
<1>2. wire = req.wire /\ buf = None /\ size = 0 /\ ~nomem
  BY <1>1 DEF BodyInv
<1>3. req \in Requests /\ rc \in {"none", "OK", "BAD", "NOMEM", "TOO_LARGE"} /\ nomem \in BOOLEAN
      /\ BodyMax \in Nat \ {0} /\ reports = IF nomem THEN 1 ELSE 0
  BY BodyAssumption DEF BodyInv, BodyExact, TypeOK, BodyAssumption
<1>4. CASE req.chunked /\ pc' = "line" /\ UNCHANGED <<rc, chunk>>
  <2>1. /\ req' \in Requests /\ BodyExact' /\ RefusalIsClean' /\ reports' = (IF nomem' THEN 1 ELSE 0)
        /\ nomem' => buf' = None
    BY <1>1, <1>2, <1>3, <1>4, GoesOn
  <2>2. 1 \in 1 .. Final /\ req.at[1] = 0 /\ req.off[1] = 0
    BY <1>3, <1>4, ChunkFacts
  <2>3. Rest(0) = req.wire
    <3>1. req.wire \in Seq(Bytes) /\ Came = Len(req.wire)
      BY <1>3, RequestFacts DEF Came
    <3>2. Rest(0) = SubSeq(req.wire, 1, Len(req.wire))
      BY <3>1 DEF Rest
    <3> QED
      BY <3>1, <3>2, SubSeqFull
  <2>4. wire' = Rest(req.at[1])
    BY <1>1, <1>2, <2>2, <2>3
  <2>5. wire' = Rest(req.at[1])'
    BY <1>1, <2>4 DEF Rest, Came
  <2>6. Held(1)'
    BY <1>1, <1>2, <2>2 DEF Held
  <2>7. Short(1 - 1)'
    BY DEF Short
  <2>8. AtLine(1)' /\ 1 \in 1 .. Final'
    BY <1>1, <2>2, <2>5, <2>6, <2>7, SameRequest DEF AtLine
  <2> QED
    BY <1>1, <1>4, <2>1, <2>8 DEF BodyInv
<1>5. CASE ~req.chunked /\ req.length = None /\ Finish("BAD")
  <2>1. Fail("BAD")
    BY <1>1, <1>2, <1>5 DEF Fail, Finish
  <2>2. ~Intact
    BY <1>3, <1>5, RequestFacts DEF Intact
  <2> QED
    BY <1>1, <2>1, <2>2, FailIs
<1>6. CASE /\ ~req.chunked /\ req.length # None /\ chunk' = ParseLength(req.length)
           /\ IF chunk' < 0 THEN Finish("BAD")
              ELSE IF chunk' >= BodyMax THEN Finish("TOO_LARGE")
              ELSE pc' = "body" /\ UNCHANGED rc
  <2>1. PICK d : d = Strip(req.length)
    OBVIOUS
  <2>2. LengthSent(req)
    BY <1>3, <1>6, RequestFacts
  <2>3. /\ req.length \in Seq(Bytes)
        /\ req.wellFormed <=> d # << >> /\ \A i \in DOMAIN d : IsDigit(d[i])
        /\ req.wellFormed => Len(req.body) = Decimal(d)
    BY <2>1, <2>2, Zenon DEF LengthSent
  <2>4. PICK n : n = ParseLength(req.length)
    OBVIOUS
  <2>5. /\ d = << >> \/ (\E i \in DOMAIN d : ~IsDigit(d[i])) => n = -1
        /\ d # << >> /\ (\A i \in DOMAIN d : IsDigit(d[i])) =>
             /\ n \in Nat /\ Decimal(d) \in Nat
             /\ n < BodyMax => n = Decimal(d)
             /\ n >= BodyMax => Decimal(d) >= BodyMax
    BY <2>1, <2>3, <2>4, LengthParsed
  <2>6. /\ ~req.wellFormed => n = -1
        /\ req.wellFormed => /\ n \in Nat /\ Len(req.body) \in Nat
                             /\ n >= BodyMax => Len(req.body) >= BodyMax
    BY <2>3, <2>5
  <2>7. CASE n < 0
    <3>1. Fail("BAD")
      BY <1>1, <1>2, <1>6, <2>4, <2>7 DEF Fail, Finish
    <3>2. ~Intact
      BY <2>6, <2>7 DEF Intact
    <3> QED
      BY <1>1, <3>1, <3>2, FailIs
  <2>8. CASE n >= BodyMax
    <3>1. Fail("TOO_LARGE")
      BY <1>1, <1>2, <1>3, <1>6, <2>4, <2>6, <2>8 DEF Fail, Finish
    <3>2. ~Intact
      BY <1>3, <2>6, <2>8 DEF Intact
    <3> QED
      BY <1>1, <3>1, <3>2, FailIs
  <2>9. CASE n \in 0 .. BodyMax - 1
    <3>1. pc' = "body" /\ rc' = rc /\ chunk' = n
      BY <1>3, <1>6, <2>4, <2>9
    <3>2. /\ req' \in Requests /\ BodyExact' /\ RefusalIsClean' /\ reports' = (IF nomem' THEN 1 ELSE 0)
          /\ nomem' => buf' = None
      BY <1>1, <1>2, <1>3, <3>1, GoesOn
    <3>3. chunk' = ParseLength(req.length)' /\ chunk' \in 0 .. BodyMax - 1
      BY <1>1, <2>4, <2>9, <3>1
    <3> QED
      BY <1>1, <1>2, <1>6, <3>1, <3>2, <3>3 DEF BodyInv
  <2>10. n < 0 \/ n >= BodyMax \/ n \in 0 .. BodyMax - 1
    BY <1>3, <2>6
  <2> QED
    BY <2>7, <2>8, <2>9, <2>10
<1> QED
  BY <1>4, <1>5, <1>6 DEF Start

LEMMA BodyKeeps == ASSUME BodyInv, Body PROVE BodyInv'
<1>1. pc = "body" /\ req' = req /\ chunk' = chunk /\ wire' = Behind(chunk) /\ size' = IF rc' = "OK" THEN chunk ELSE size
  BY DEF Body
<1>2. /\ wire = req.wire /\ buf = None /\ size = 0 /\ ~nomem /\ ~req.chunked /\ req.length # None
      /\ chunk = ParseLength(req.length) /\ chunk \in 0 .. BodyMax - 1
  BY <1>1 DEF BodyInv
<1>3. /\ req \in Requests /\ nomem \in BOOLEAN /\ BodyMax \in Nat \ {0} /\ reports = IF nomem THEN 1 ELSE 0
      /\ req.wire \in Seq(Bytes) /\ req.body \in Seq(Bytes) /\ Len(req.wire) \in Nat /\ Len(req.body) \in Nat
  BY RequestFacts, BodyAssumption DEF BodyInv, BodyExact, TypeOK, BodyAssumption, Came
<1>4. /\ req.wellFormed /\ Len(req.body) = chunk
      /\ req.wire = SubSeq(req.body, 1, Len(req.wire)) /\ Len(req.wire) <= Len(req.body)
      /\ req.whole <=> Len(req.wire) = Len(req.body)
  <2>1. PICK d : d = Strip(req.length)
    OBVIOUS
  <2>2. LengthSent(req)
    BY <1>2, <1>3, RequestFacts
  <2>3. /\ req.length \in Seq(Bytes)
        /\ req.wellFormed <=> d # << >> /\ \A i \in DOMAIN d : IsDigit(d[i])
        /\ req.wellFormed => /\ Len(req.body) = Decimal(d)
                             /\ req.wire = SubSeq(req.body, 1, Len(req.wire)) /\ Len(req.wire) <= Len(req.body)
                             /\ req.whole <=> Len(req.wire) = Len(req.body)
    BY <2>1, <2>2, Zenon DEF LengthSent
  <2>4. PICK n : n = ParseLength(req.length)
    OBVIOUS
  <2>5. /\ d = << >> \/ (\E i \in DOMAIN d : ~IsDigit(d[i])) => n = -1
        /\ d # << >> /\ (\A i \in DOMAIN d : IsDigit(d[i])) => (n < BodyMax => n = Decimal(d))
    BY <2>1, <2>3, <2>4, LengthParsed
  <2>6. n = chunk /\ n # -1 /\ n < BodyMax
    BY <1>2, <1>3, <2>4
  <2>7. req.wellFormed
    BY <2>3, <2>5, <2>6
  <2>8. Len(req.body) = chunk
    BY <2>3, <2>5, <2>6, <2>7
  <2> QED
    BY <2>3, <2>7, <2>8
<1>5. chunk \in Nat /\ chunk < BodyMax
  BY <1>2, <1>3
<1>6. Intact => wire' = << >>
  <2> SUFFICES ASSUME Intact PROVE wire' = << >>
    OBVIOUS
  <2>1. Len(wire) = chunk
    BY <1>2, <1>4 DEF Intact
  <2>2. wire' = SubSeq(wire, chunk + 1, chunk)
    BY <1>1, <2>1 DEF Behind
  <2> QED
    BY <1>5, <2>2, SubSeqEmpty
<1>7. CASE Len(wire) >= chunk /\ buf' = SubSeq(wire, 1, chunk) /\ Finish("OK") /\ UNCHANGED <<nomem, reports>>
  <2>1. Len(req.wire) = chunk /\ req.whole
    BY <1>2, <1>3, <1>4, <1>7
  <2>2. buf' = req.wire /\ req.wire = req.body
    BY <1>2, <1>3, <1>4, <1>7, <2>1, SubSeqFull
  <2>3. req.body # None
    <3>1. Len(req.body) \in 0 .. Len(req.body) /\ SubSeq(req.body, 1, Len(req.body)) = req.body
      BY <1>3, SubSeqFull
    <3> QED
      BY <1>3, <3>1, RequestFacts
  <2>4. pc' = "done" /\ rc' = "OK" /\ nomem' = nomem /\ reports' = reports /\ size' = chunk
    BY <1>1, <1>7 DEF Finish
  <2>5. Intact /\ Intact'
    BY <1>1, <1>4, <1>5, <2>1 DEF Intact
  <2>6. TypeOK'
    BY <1>2, <1>3, <1>4, <2>2, <2>4 DEF TypeOK
  <2>7. BodyExact'
    BY <1>1, <2>2, <2>4, <2>5, <2>6 DEF BodyExact
  <2>8. RefusalIsClean'
    BY <1>2, <1>3, <1>6, <2>2, <2>3, <2>4, <2>5 DEF RefusalIsClean, NoBufferLost, DrainedForAnswer
  <2> QED
    BY <1>1, <1>2, <1>3, <2>4, <2>7, <2>8 DEF BodyInv
<1>8. CASE Len(wire) < chunk /\ Fail("BAD") /\ UNCHANGED <<nomem, reports>>
  <2>1. ~Intact
    BY <1>2, <1>3, <1>4, <1>8 DEF Intact
  <2>2. size' = size
    BY <1>1, <1>2, <1>8 DEF Fail, Finish
  <2> QED
    BY <1>1, <1>8, <2>1, <2>2, FailIs
<1>9. CASE NoStorage /\ Finish("NOMEM")
  <2>1. /\ pc' = "done" /\ rc' = "NOMEM" /\ nomem' = TRUE /\ reports' = reports + 1 /\ buf' = None /\ size' = size
    BY <1>1, <1>9 DEF NoStorage, Finish
  <2>2. reports' = 1 /\ nomem'
    BY <1>2, <1>3, <2>1
  <2>3. Intact' = Intact
    BY <1>1 DEF Intact
  <2>4. TypeOK'
    BY <1>2, <1>3, <2>1 DEF TypeOK
  <2>5. BodyExact'
    BY <2>1, <2>4 DEF BodyExact
  <2>6. RefusalIsClean'
    BY <1>6, <2>1, <2>2, <2>3 DEF RefusalIsClean, NoBufferLost, DrainedForAnswer
  <2> QED
    BY <1>1, <1>3, <2>1, <2>2, <2>5, <2>6 DEF BodyInv
<1> QED
  BY <1>7, <1>8, <1>9 DEF Body

LEMMA SizeLineKeeps == ASSUME BodyInv, SizeLine PROVE BodyInv'
<1>1. pc = "line" /\ req' = req /\ size' = size /\ nomem' = nomem /\ reports' = reports
  BY DEF SizeLine
<1>2. /\ req \in Requests /\ size \in Nat /\ size < BodyMax /\ BodyMax \in Nat /\ LineMax \in Nat
      /\ nomem \in BOOLEAN /\ (buf # None => Len(buf) = size)
      /\ reports = IF nomem THEN 1 ELSE 0
      /\ nomem => buf = None
  BY BodyTyped
<1>3. req.chunked /\ rc \in {"none", "OK", "BAD", "NOMEM", "TOO_LARGE"}
  BY <1>1 DEF BodyInv, BodyExact, TypeOK
<1>4. PICK k \in 1 .. Final : AtLine(k)
  BY <1>1 DEF BodyInv
<1>5. wire = Rest(req.at[k]) /\ Held(k) /\ Short(k - 1)
  BY <1>4 DEF AtLine
<1>6. PICK p \in Nat, m \in Nat : p = req.at[k] /\ m = Len(req.lines[k])
  BY <1>2, <1>3, ChunkFacts
<1>7. EndOf(k) = p + m /\ Came \in Nat /\ Final \in Nat
  BY <1>2, <1>3, <1>6, RequestFacts, ChunkFacts DEF EndOf
<1>8. CASE ~(EndOf(k) + 1 <= Came)
  <2>1. CRs = {}
    BY <1>2, <1>3, <1>5, <1>8, NoCR
  <2>2. Fail("BAD")
    BY <2>1 DEF SizeLine
  <2>3. Came < EndOf(k) + 1
    BY <1>7, <1>8
  <2>4. ~Intact
    BY <1>2, <1>3, <2>3, CutOff
  <2> QED
    BY <1>1, <2>2, <2>4, FailIs
<1>9. CASE EndOf(k) + 1 <= Came
  <2>1. CRs # {} /\ FirstCR = m + 1 /\ SubSeq(wire, 1, FirstCR - 1) = req.lines[k]
    BY <1>2, <1>3, <1>5, <1>6, <1>9, TheCR
  <2>2. CASE FirstCR >= LineMax
    <3>1. Fail("BAD")
      BY <2>2 DEF SizeLine
    <3>2. ~(m <= LineMax - 2)
      BY <1>2, <2>1, <2>2
    <3>3. ~Intact
      BY <1>2, <1>3, <1>6, <3>2, NotShort
    <3> QED
      BY <1>1, <3>1, <3>3, FailIs
  <2>3. CASE ~(FirstCR >= LineMax)
    <3>1. m <= LineMax - 2
      BY <1>2, <2>1, <2>3
    <3>2. Short(k)
      <4>1. \A j \in 1 .. k : j \in 1 .. k - 1 \/ j = k
        BY <1>7
      <4> QED
        BY <1>5, <1>6, <3>1, <4>1 DEF Short
    <3>3. PICK value : value = ChunkSize(req.lines[k])
      OBVIOUS
    <3>4. /\ wire' = Behind(FirstCR + 1)
          /\ \/ /\ value < 0
                /\ Fail("BAD")
             \/ /\ value >= BodyMax - size
                /\ Fail("TOO_LARGE")
             \/ /\ value \in 0..(BodyMax - size - 1)
                /\ chunk' = value
                /\ pc' = IF value = 0 THEN "last" ELSE "grow"
                /\ UNCHANGED <<buf, rc>>
      BY <2>1, <2>3, <3>3 DEF SizeLine
    <3>5. wire' = Rest(EndOf(k) + 2)
      <4>1. m + 2 \in Nat /\ FirstCR + 1 = m + 2 /\ p + (m + 2) = EndOf(k) + 2
        BY <1>7, <2>1
      <4>2. Behind(m + 2) = Rest(p + (m + 2))
        BY <1>2, <1>5, <1>6, <4>1, ReadOn
      <4> QED
        BY <3>4, <4>1, <4>2
    <3>6. CASE k = Final
      <4>1. value = 0
        BY <1>2, <1>3, <3>3, <3>6, ChunkFacts
      <4>2. chunk' = 0 /\ pc' = "last" /\ buf' = buf /\ rc' = rc
        <5>1. ~(value < 0) /\ ~(value >= BodyMax - size)
          BY <1>2, <4>1
        <5> QED
          BY <3>4, <4>1, <5>1
      <4>3. req.whole
        BY <1>2, <1>3, <1>7, <1>9, <3>6, ChunkFacts
      <4>4. Held(k)'
        BY <1>1, <1>5, <4>2 DEF Held
      <4>5. AtEnd'
        BY <1>1, <3>2, <3>5, <3>6, <4>3, <4>4, SameRequest DEF AtEnd
      <4>6. /\ req' \in Requests /\ BodyExact' /\ RefusalIsClean' /\ reports' = (IF nomem' THEN 1 ELSE 0)
            /\ nomem' => buf' = None
        BY <1>1, <1>2, <1>3, <4>2, GoesOn
      <4> QED
        BY <1>1, <1>3, <4>2, <4>5, <4>6 DEF BodyInv
    <3>7. CASE k # Final
      <4>1. k \in 1 .. Final - 1
        BY <1>7, <3>7
      <4>2. /\ value = Len(req.chunks[k]) /\ value \in Nat /\ value > 0 /\ k + 1 \in 1 .. Final
            /\ req.off[k + 1] = req.off[k] + value
        BY <1>2, <1>3, <3>3, <4>1, StepFacts
      <4>3. /\ req.off[k] \in Nat /\ req.off[k + 1] \in Nat /\ req.off[k + 1] <= Len(req.body)
            /\ Len(req.body) \in Nat
        <5>1. PICK n \in 1 .. Final : n = k + 1
          BY <4>2
        <5>2. req.off[k] \in 0 .. Len(req.body) /\ req.off[n] \in 0 .. Len(req.body) /\ Len(req.body) \in Nat
          BY <1>2, <1>3, ChunkFacts, RequestFacts
        <5> QED
          BY <5>1, <5>2
      <4>4. CASE value >= BodyMax - size
        <5>1. Fail("TOO_LARGE")
          BY <1>2, <3>4, <4>2, <4>4
        <5>2. size <= req.off[k]
          BY <1>5 DEF Held
        <5>3. ~(Len(req.body) < BodyMax)
          <6>1. PICK a \in Nat, b \in Nat : a = req.off[k] /\ b = req.off[k + 1]
            BY <4>3
          <6>2. b = a + value /\ size <= a /\ b <= Len(req.body)
            BY <4>2, <4>3, <5>2, <6>1
          <6>3. PICK len \in Nat, v \in Nat, s \in Nat, lim \in Nat :
                  len = Len(req.body) /\ v = value /\ s = size /\ lim = BodyMax
            BY <1>2, <4>2, <4>3
          <6>4. v >= lim - s /\ b = a + v /\ s <= a /\ b <= len
            BY <4>4, <6>2, <6>3
          <6>5. ~(len < lim)
            BY <6>4
          <6> QED
            BY <6>3, <6>5
        <5>4. ~Intact
          BY <5>3 DEF Intact
        <5> QED
          BY <1>1, <5>1, <5>4, FailIs
      <4>5. CASE ~(value >= BodyMax - size)
        <5>1. chunk' = value /\ pc' = "grow" /\ buf' = buf /\ rc' = rc
          BY <1>2, <3>4, <4>2, <4>5
        <5>2. Held(k)'
          BY <1>1, <1>5, <5>1 DEF Held
        <5>3. size + value < BodyMax
          BY <1>2, <4>2, <4>5
        <5>4. AtChunk(k)'
          BY <1>1, <3>2, <3>5, <4>2, <5>1, <5>2, <5>3, SameRequest DEF AtChunk
        <5>5. /\ req' \in Requests /\ BodyExact' /\ RefusalIsClean' /\ reports' = (IF nomem' THEN 1 ELSE 0)
              /\ nomem' => buf' = None
          BY <1>1, <1>2, <1>3, <5>1, GoesOn
        <5>6. k \in 1 .. Final' - 1
          BY <1>1, <4>1, SameRequest
        <5> QED
          BY <1>1, <1>3, <5>1, <5>4, <5>5, <5>6 DEF BodyInv
      <4> QED
        BY <4>4, <4>5
    <3> QED
      BY <3>6, <3>7
  <2> QED
    BY <2>2, <2>3
<1> QED
  BY <1>8, <1>9

LEMMA GrowKeeps == ASSUME BodyInv, Grow PROVE BodyInv'
<1>1. /\ pc = "grow" /\ pc' = "data" /\ req' = req /\ wire' = wire /\ size' = size /\ chunk' = chunk /\ rc' = rc
      /\ \/ nomem /\ UNCHANGED <<buf, nomem, reports>>
         \/ ~nomem /\ buf' = (IF buf = None THEN << >> ELSE buf) /\ UNCHANGED <<nomem, reports>>
         \/ ~nomem /\ NoStorage
  BY DEF Grow
<1>2. /\ req \in Requests /\ size \in Nat /\ size < BodyMax /\ BodyMax \in Nat
      /\ nomem \in BOOLEAN /\ (buf # None => Len(buf) = size)
      /\ reports = IF nomem THEN 1 ELSE 0
      /\ nomem => buf = None
  BY BodyTyped
<1>3. req.chunked /\ rc \in {"none", "OK", "BAD", "NOMEM", "TOO_LARGE"}
  BY <1>1 DEF BodyInv, BodyExact, TypeOK
<1>4. PICK k \in 1 .. Final - 1 : AtChunk(k)
  BY <1>1 DEF BodyInv
<1>5. Held(k)
  BY <1>4 DEF AtChunk
<1>6. SubSeq(req.body, 1, 0) = << >> /\ << >> # None
  <2>1. SubSeq(req.body, 1, 0) = << >>
    BY SubSeqEmpty
  <2>2. 0 \in 0 .. Len(req.body)
    BY <1>2, RequestFacts
  <2> QED
    BY <1>2, <2>1, <2>2, RequestFacts
<1>7. /\ nomem' \in BOOLEAN /\ reports' = (IF nomem' THEN 1 ELSE 0) /\ (nomem' => buf' = None)
      /\ (buf' # None => Len(buf') = size') /\ Held(k)' /\ (~nomem' => buf' # None)
  <2>1. CASE nomem /\ UNCHANGED <<buf, nomem, reports>>
    BY <1>1, <1>2, <1>5, <2>1 DEF Held
  <2>2. CASE ~nomem /\ buf' = (IF buf = None THEN << >> ELSE buf) /\ UNCHANGED <<nomem, reports>>
    <3>1. CASE buf = None
      <4>1. buf' = << >> /\ nomem' = nomem /\ reports' = reports
        BY <2>2, <3>1
      <4>2. k = 1 /\ size = req.off[1] /\ size = req.off[k]
        BY <1>5, <2>2, <3>1 DEF Held
      <4>3. size = 0
        BY <1>2, <1>3, <4>2, ChunkFacts
      <4>4. Len(<< >>) = 0
        OBVIOUS
      <4>5. Held(k)'
        BY <1>1, <1>5, <1>6, <4>1, <4>2, <4>3 DEF Held
      <4> QED
        BY <1>1, <1>2, <1>6, <2>2, <4>1, <4>3, <4>4, <4>5
    <3>2. CASE buf # None
      <4>1. buf' = buf /\ nomem' = nomem /\ reports' = reports
        BY <2>2, <3>2
      <4>2. Held(k)'
        BY <1>1, <1>5, <4>1 DEF Held
      <4> QED
        BY <1>1, <1>2, <3>2, <4>1, <4>2
    <3> QED
      BY <3>1, <3>2
  <2>3. CASE ~nomem /\ NoStorage
    <3>1. nomem' = TRUE /\ buf' = None /\ reports' = reports + 1 /\ reports = 0
      BY <1>2, <2>3 DEF NoStorage
    <3>2. nomem' /\ reports' = 1 /\ nomem' \in BOOLEAN
      BY <3>1
    <3>3. Held(k)'
      BY <1>1, <1>5, <3>1, <3>2 DEF Held
    <3> QED
      BY <3>1, <3>2, <3>3
  <2> QED
    BY <1>1, <2>1, <2>2, <2>3
<1>8. AtChunk(k)' /\ k \in 1 .. Final' - 1
  BY <1>1, <1>4, <1>7, SameRequest DEF AtChunk
<1>9. /\ req' \in Requests /\ BodyExact' /\ RefusalIsClean' /\ reports' = (IF nomem' THEN 1 ELSE 0)
      /\ nomem' => buf' = None
  BY <1>1, <1>2, <1>3, <1>7, GoesOn
<1> QED
  BY <1>1, <1>3, <1>7, <1>8, <1>9 DEF BodyInv

LEMMA DataKeeps == ASSUME BodyInv, Data PROVE BodyInv'
<1>1. /\ pc = "data" /\ req' = req /\ chunk' = chunk /\ nomem' = nomem /\ reports' = reports
      /\ wire' = Behind(chunk + 2)
  BY DEF Data
<1>2. /\ req \in Requests /\ size \in Nat /\ size < BodyMax /\ BodyMax \in Nat
      /\ nomem \in BOOLEAN /\ (buf # None => Len(buf) = size)
      /\ reports = IF nomem THEN 1 ELSE 0
      /\ nomem => buf = None
  BY BodyTyped
<1>3. /\ req.chunked /\ rc \in {"none", "OK", "BAD", "NOMEM", "TOO_LARGE"}
      /\ ~nomem => buf # None
  BY <1>1 DEF BodyInv, BodyExact, TypeOK
<1>4. PICK k \in 1 .. Final - 1 : AtChunk(k)
  BY <1>1 DEF BodyInv
<1>5. /\ wire = Rest(EndOf(k) + 2) /\ Held(k) /\ Short(k)
      /\ chunk = Len(req.chunks[k]) /\ size + chunk < BodyMax
  BY <1>4 DEF AtChunk
<1>6. /\ chunk \in Nat /\ k \in 1 .. Final /\ k + 1 \in 1 .. Final /\ req.chunks[k] \in Seq(Bytes)
      /\ req.at[k + 1] = EndOf(k) + 2 + chunk + 2
      /\ req.off[k + 1] = req.off[k] + chunk
  BY <1>2, <1>3, <1>5, StepFacts
<1>7. \A i \in 1 .. chunk : /\ req.body[req.off[k] + i] = req.chunks[k][i]
                            /\ EndOf(k) + 2 + i <= Came => req.wire[EndOf(k) + 2 + i] = req.chunks[k][i]
  BY <1>2, <1>3, <1>5, StepFacts
<1>8. PICK e \in Nat : e = EndOf(k) + 2
  BY <1>2, <1>3, <1>6, ChunkFacts
<1>9. /\ wire \in Seq(Bytes) /\ Len(wire) \in Nat /\ Len(wire) = IF e <= Came THEN Came - e ELSE 0
      /\ \A i \in 1 .. Len(wire) : wire[i] = req.wire[e + i]
  BY <1>2, <1>5, <1>8, RestIs
<1>10. Came \in Nat /\ Final \in Nat /\ Len(req.body) \in Nat /\ req.body \in Seq(Bytes)
  BY <1>2, <1>3, RequestFacts, ChunkFacts
<1>11. CASE Len(wire) >= chunk + 2
  <2>1. /\ buf' = (IF nomem THEN None ELSE buf \o SubSeq(wire, 1, chunk))
        /\ size' = (IF nomem THEN size ELSE size + chunk)
        /\ pc' = "line" /\ rc' = rc
    BY <1>11 DEF Data
  <2>2. wire' = Rest(req.at[k + 1])
    <3>1. chunk + 2 \in Nat /\ e + (chunk + 2) = req.at[k + 1]
      BY <1>6, <1>8
    <3>2. Behind(chunk + 2) = Rest(e + (chunk + 2))
      BY <1>2, <1>5, <1>8, <3>1, ReadOn
    <3> QED
      BY <1>1, <3>1, <3>2
  <2>3. PICK o \in Nat : o = req.off[k]
    BY <1>2, <1>3, <1>6, ChunkFacts
  <2>4. PICK o2 \in 0 .. Len(req.body) : o2 = req.off[k + 1] /\ o2 = o + chunk
    BY <1>2, <1>3, <1>6, <2>3, ChunkFacts
  <2>5. size <= o /\ (~nomem => size = o) /\ (buf # None => buf = SubSeq(req.body, 1, size))
    BY <1>5, <2>3 DEF Held
  <2>6. SubSeq(wire, 1, chunk) = SubSeq(req.body, o + 1, o2)
    <3>1. PICK u, v : u = SubSeq(wire, 1, chunk) /\ v = SubSeq(req.body, o + 1, o2)
      OBVIOUS
    <3>2. \A i \in 1 .. chunk : i \in 1 .. Len(wire)
      BY <1>6, <1>9, <1>11
    <3>3. \A i \in 1 .. chunk : wire[i] \in Bytes
      BY <1>9, <3>2, ElementOfSeq
    <3>4. /\ u \in Seq(Bytes) /\ Len(u) = IF 1 <= chunk THEN chunk - 1 + 1 ELSE 0
          /\ \A i \in 1 .. chunk - 1 + 1 : u[i] = wire[1 + i - 1]
      BY <1>6, <3>1, <3>3, SubSeqProperties
    <3>5. \A i \in (o + 1) .. o2 : i \in 1 .. Len(req.body)
      BY <1>10
    <3>6. \A i \in (o + 1) .. o2 : req.body[i] \in Bytes
      BY <1>10, <3>5, ElementOfSeq
    <3>7. /\ v \in Seq(Bytes) /\ Len(v) = IF o + 1 <= o2 THEN o2 - (o + 1) + 1 ELSE 0
          /\ \A i \in 1 .. o2 - (o + 1) + 1 : v[i] = req.body[(o + 1) + i - 1]
      <4>1. PICK o1 \in Nat : o1 = o + 1
        OBVIOUS
      <4>2. /\ SubSeq(req.body, o1, o2) \in Seq(Bytes)
            /\ Len(SubSeq(req.body, o1, o2)) = IF o1 <= o2 THEN o2 - o1 + 1 ELSE 0
            /\ \A i \in 1 .. o2 - o1 + 1 : SubSeq(req.body, o1, o2)[i] = req.body[o1 + i - 1]
        BY <3>6, <4>1, SubSeqProperties
      <4> QED
        BY <3>1, <4>1, <4>2
    <3>8. Len(u) = chunk /\ Len(v) = chunk
      BY <1>6, <2>4, <3>4, <3>7
    <3>9. ASSUME NEW i \in 1 .. chunk PROVE u[i] = v[i]
      <4>1. i \in 1 .. chunk - 1 + 1 /\ 1 + i - 1 = i /\ i \in 1 .. Len(wire) /\ e + i <= Came
        BY <1>6, <1>9, <1>10, <1>11
      <4>2. u[i] = req.wire[e + i]
        BY <1>9, <3>4, <4>1
      <4>3. req.wire[e + i] = req.chunks[k][i] /\ req.body[o + i] = req.chunks[k][i]
        <5>1. /\ req.body[req.off[k] + i] = req.chunks[k][i]
              /\ EndOf(k) + 2 + i <= Came => req.wire[EndOf(k) + 2 + i] = req.chunks[k][i]
          BY <1>7
        <5> QED
          BY <1>8, <2>3, <4>1, <5>1
      <4>4. i \in 1 .. o2 - (o + 1) + 1 /\ (o + 1) + i - 1 = o + i
        <5>1. PICK w \in Nat : w = chunk /\ o2 = o + w
          BY <1>6, <2>4
        <5>2. i \in 1 .. w /\ i \in Nat
          BY <5>1
        <5> QED
          BY <5>1, <5>2
      <4>5. v[i] = req.body[o + i]
        BY <3>7, <4>4
      <4> QED
        BY <4>2, <4>3, <4>5
    <3>10. u = v
      BY <3>4, <3>7, <3>8, <3>9, SeqEqual
    <3> QED
      BY <3>1, <3>10
  <2>7. /\ Held(k + 1)' /\ size' \in 0 .. BodyMax - 1 /\ (buf' # None => Len(buf') = size')
        /\ nomem' => buf' = None
    <3>1. CASE nomem
      <4>1. buf' = None /\ size' = size /\ nomem'
        BY <1>1, <2>1, <3>1
      <4>2. size' <= req'.off[k + 1]
        BY <1>1, <1>2, <1>6, <2>3, <2>4, <2>5, <4>1
      <4>3. Held(k + 1)'
        BY <4>1, <4>2 DEF Held
      <4> QED
        BY <1>2, <4>1, <4>3
    <3>2. CASE ~nomem
      <4>1. /\ buf' = buf \o SubSeq(wire, 1, chunk) /\ size' = o2 /\ ~nomem' /\ size = o
            /\ buf = SubSeq(req.body, 1, o)
        BY <1>1, <1>3, <2>1, <2>4, <2>5, <3>2
      <4>2. SubSeq(req.body, 1, o) \o SubSeq(req.body, o + 1, o2) = SubSeq(req.body, 1, o2)
        <5>1. 1 \in 1 .. Len(req.body) + 1 /\ o \in 1 - 1 .. Len(req.body) /\ o2 \in o .. Len(req.body)
          BY <1>6, <1>10, <2>4
        <5> QED
          BY <1>10, <5>1, ConcatAdjacentSubSeq
      <4>3. buf' = SubSeq(req.body, 1, o2)
        BY <2>6, <4>1, <4>2
      <4>4. buf' # None
        BY <1>2, <4>3, RequestFacts
      <4>5. Len(buf') = o2
        <5>1. \A i \in 1 .. o2 : i \in 1 .. Len(req.body)
          BY <1>10
        <5>2. \A i \in 1 .. o2 : req.body[i] \in Bytes
          BY <1>10, <5>1, ElementOfSeq
        <5>3. Len(SubSeq(req.body, 1, o2)) = IF 1 <= o2 THEN o2 - 1 + 1 ELSE 0
          BY <5>2, SubSeqProperties
        <5> QED
          BY <1>10, <4>3, <5>3
      <4>6. Held(k + 1)'
        <5>1. size' = req'.off[k + 1] /\ size' <= req'.off[k + 1] /\ buf' = SubSeq(req'.body, 1, size')
          <6>1. size' = o2 /\ o2 = req.off[k + 1] /\ o2 <= o2 /\ req' = req
            BY <1>1, <1>10, <2>4, <4>1
          <6> QED
            BY <4>3, <6>1
        <5> QED
          BY <4>1, <4>4, <5>1 DEF Held
      <4>7. o2 \in 0 .. BodyMax - 1
        BY <1>2, <1>5, <1>10, <2>4, <4>1
      <4> QED
        BY <4>1, <4>5, <4>6, <4>7
    <3> QED
      BY <3>1, <3>2
  <2>8. AtLine(k + 1)' /\ k + 1 \in 1 .. Final'
    <3>1. (k + 1) - 1 = k
      BY <1>6
    <3>2. wire' = Rest(req.at[k + 1])'
      BY <1>1, <2>2 DEF Rest, Came
    <3>3. Short((k + 1) - 1)'
      BY <1>1, <1>5, <3>1, SameRequest
    <3> QED
      BY <1>1, <1>6, <2>7, <3>2, <3>3, SameRequest DEF AtLine
  <2>9. /\ req' \in Requests /\ BodyExact' /\ RefusalIsClean' /\ reports' = (IF nomem' THEN 1 ELSE 0)
        /\ nomem' => buf' = None
    BY <1>1, <1>2, <1>3, <2>1, <2>7, GoesOn
  <2> QED
    BY <1>1, <1>3, <2>1, <2>8, <2>9 DEF BodyInv
<1>12. CASE ~(Len(wire) >= chunk + 2)
  <2>1. Fail("BAD") /\ size' = size
    BY <1>12 DEF Data
  <2>2. PICK n \in 1 .. Final : n = k + 1
    BY <1>6
  <2>3. EndOf(n) \in Nat /\ Came < EndOf(n) + 1
    <3>1. EndOf(n) = req.at[n] + Len(req.lines[n]) /\ Len(req.lines[n]) \in Nat
      BY <1>2, <1>3, ChunkFacts DEF EndOf
    <3>2. PICK a \in Nat : a = Len(req.lines[n])
      BY <3>1
    <3>3. EndOf(n) = e + chunk + 2 + a
      BY <1>6, <1>8, <2>2, <3>1, <3>2
    <3>4. Came < e + chunk + 2
      BY <1>6, <1>9, <1>10, <1>12
    <3> QED
      BY <1>6, <1>10, <3>3, <3>4
  <2>4. ~Intact
    BY <1>2, <1>3, <2>3, CutOff
  <2> QED
    BY <1>1, <2>1, <2>4, FailIs
<1> QED
  BY <1>11, <1>12

LEMMA LastChunkKeeps == ASSUME BodyInv, LastChunk PROVE BodyInv'
<1>1. /\ pc = "last" /\ req' = req /\ size' = size /\ chunk' = chunk /\ wire' = Behind(2)
      /\ \/ nomem /\ Finish("NOMEM") /\ UNCHANGED <<buf, nomem, reports>>
         \/ ~nomem /\ buf' = (IF buf = None THEN << >> ELSE buf) /\ Finish("OK") /\ UNCHANGED <<nomem, reports>>
         \/ ~nomem /\ buf = None /\ NoStorage /\ Finish("NOMEM")
  BY DEF LastChunk
<1>2. /\ req \in Requests /\ size \in Nat /\ size < BodyMax /\ BodyMax \in Nat
      /\ nomem \in BOOLEAN /\ (buf # None => Len(buf) = size)
      /\ reports = IF nomem THEN 1 ELSE 0
      /\ nomem => buf = None
  BY BodyTyped
<1>3. req.chunked /\ AtEnd
  BY <1>1 DEF BodyInv
<1>4. wire = Rest(EndOf(Final) + 2) /\ Held(Final) /\ Short(Final) /\ req.whole
  BY <1>3 DEF AtEnd
<1>5. /\ req.wellFormed /\ req.off[Final] = Len(req.body) /\ req.off[1] = 0 /\ Came <= EndOf(Final) + 4
      /\ Final \in 1 .. Final /\ EndOf(Final) \in Nat /\ Came \in Nat /\ Len(req.body) \in Nat
      /\ req.body \in Seq(Bytes)
  BY <1>2, <1>3, <1>4, ChunkFacts, RequestFacts
<1>6. wire' = << >>
  <2>1. PICK e \in Nat : e = EndOf(Final) + 2
    BY <1>5
  <2>2. Behind(2) = Rest(e + 2)
    BY <1>2, <1>4, <2>1, ReadOn
  <2>3. Rest(e + 2) = SubSeq(req.wire, (e + 2) + 1, Came)
    BY DEF Rest
  <2>4. Came < (e + 2) + 1 /\ (e + 2) + 1 \in Int
    BY <1>5, <2>1
  <2> QED
    BY <1>1, <1>5, <2>2, <2>3, <2>4, SubSeqEmpty
<1>7. SubSeq(req.body, 1, 0) = << >> /\ << >> # None
  <2>1. SubSeq(req.body, 1, 0) = << >>
    BY SubSeqEmpty
  <2>2. 0 \in 0 .. Len(req.body)
    BY <1>5
  <2> QED
    BY <1>2, <2>1, <2>2, RequestFacts
<1>8. CASE ~nomem /\ buf' = (IF buf = None THEN << >> ELSE buf) /\ Finish("OK") /\ UNCHANGED <<nomem, reports>>
  <2>1. pc' = "done" /\ rc' = "OK" /\ nomem' = nomem /\ reports' = reports
    BY <1>8 DEF Finish
  <2>2. size = Len(req.body)
    BY <1>4, <1>5, <1>8 DEF Held
  <2>3. SubSeq(req.body, 1, Len(req.body)) = req.body
    BY <1>5, SubSeqFull
  <2>4. buf' = req.body /\ buf' # None
    <3>1. CASE buf = None
      <4>1. Final = 1
        BY <1>4, <1>8, <3>1 DEF Held
      <4>2. Len(req.body) = 0
        BY <1>5, <4>1
      <4>3. buf' = << >> /\ req.body = << >>
        BY <1>7, <1>8, <2>3, <3>1, <4>2
      <4> QED
        BY <1>7, <4>3
    <3>2. CASE buf # None
      BY <1>4, <1>8, <2>2, <2>3, <3>2 DEF Held
    <3> QED
      BY <3>1, <3>2
  <2>5. Intact /\ Intact'
    BY <1>1, <1>2, <1>4, <1>5, <2>2 DEF Intact
  <2>6. TypeOK'
    BY <1>1, <1>2, <2>1, <2>2, <2>4 DEF TypeOK
  <2>7. BodyExact'
    BY <1>1, <2>1, <2>4, <2>5, <2>6 DEF BodyExact
  <2>8. RefusalIsClean'
    BY <1>2, <1>6, <1>8, <2>1, <2>4 DEF RefusalIsClean, NoBufferLost, DrainedForAnswer
  <2> QED
    BY <1>1, <1>2, <1>8, <2>1, <2>7, <2>8 DEF BodyInv
<1>9. CASE \/ nomem /\ Finish("NOMEM") /\ UNCHANGED <<buf, nomem, reports>>
           \/ ~nomem /\ buf = None /\ NoStorage /\ Finish("NOMEM")
  <2>1. pc' = "done" /\ rc' = "NOMEM"
    BY <1>9 DEF Finish
  <2>2. nomem' /\ nomem' \in BOOLEAN /\ reports' = 1 /\ buf' = None
    <3>1. CASE nomem /\ UNCHANGED <<buf, nomem, reports>>
      BY <1>2, <3>1
    <3>2. CASE ~nomem /\ NoStorage
      <4>1. nomem' = TRUE /\ reports' = reports + 1 /\ buf' = None
        BY <3>2 DEF NoStorage
      <4>2. reports = 0
        BY <1>2, <3>2
      <4> QED
        BY <4>1, <4>2
    <3> QED
      BY <1>9, <3>1, <3>2
  <2>3. TypeOK'
    BY <1>1, <1>2, <2>1, <2>2 DEF TypeOK
  <2>4. BodyExact'
    BY <2>1, <2>3 DEF BodyExact
  <2>5. RefusalIsClean'
    BY <1>6, <2>1, <2>2 DEF RefusalIsClean, NoBufferLost, DrainedForAnswer
  <2> QED
    BY <1>1, <1>2, <2>1, <2>2, <2>4, <2>5 DEF BodyInv
<1> QED
  BY <1>1, <1>8, <1>9

LEMMA BodyBegins == ASSUME Init PROVE BodyInv
<1>1. /\ req \in Requests /\ wire = req.wire /\ pc = "start" /\ buf = None /\ size = 0 /\ nomem = FALSE
      /\ reports = 0 /\ rc = "none" /\ BodyMax \in Nat \ {0}
  BY BodyAssumption DEF Init, BodyAssumption
<1>2. TypeOK
  <2>1. size \in 0 .. BodyMax - 1
    BY <1>1
  <2>2. nomem \in BOOLEAN /\ ~nomem
    BY <1>1
  <2> QED
    BY <1>1, <2>1, <2>2, Zenon DEF TypeOK
<1> QED
  BY <1>1, <1>2 DEF BodyInv, BodyExact, RefusalIsClean, NoBufferLost, DrainedForAnswer

LEMMA BodyStays == ASSUME BodyInv, UNCHANGED vars PROVE BodyInv'
<1>1. /\ req' = req /\ wire' = wire /\ pc' = pc /\ buf' = buf /\ size' = size /\ chunk' = chunk
      /\ nomem' = nomem /\ reports' = reports /\ rc' = rc
  BY DEF vars
<1>2. BodyExact' /\ RefusalIsClean'
  BY <1>1 DEF BodyInv, BodyExact, TypeOK, RefusalIsClean, NoBufferLost, DrainedForAnswer, Intact
<1>3. /\ \A k : AtLine(k)' <=> AtLine(k)
      /\ \A k : AtChunk(k)' <=> AtChunk(k)
      /\ AtEnd' <=> AtEnd
      /\ Final' = Final
  BY <1>1 DEF AtLine, AtChunk, AtEnd, Held, Rest, Came, Final, EndOf, Short
<1> QED
  BY <1>1, <1>2, <1>3 DEF BodyInv

LEMMA BodyInvariant == Spec => []BodyInv
<1>1. Init => BodyInv
  BY BodyBegins
<1>2. BodyInv /\ [Next]_vars => BodyInv'
  BY StartKeeps, BodyKeeps, SizeLineKeeps, GrowKeeps, DataKeeps, LastChunkKeeps, BodyStays DEF Next, Done
<1> QED
  BY <1>1, <1>2, PTL DEF Spec

\* For a body of any number of chunks, with size lines of any length and data that looks
\* like framing, and for a Content-Length of any number of digits: read_body answers OK
\* with exactly the bytes of the body, only when the body was whole and fits, and refuses
\* an intact body for want of storage only (reqbody.c: read_length, read_chunked).
THEOREM BodiesAreExact == Spec => []BodyExact
<1>1. BodyInv => BodyExact
  BY DEF BodyInv
<1> QED
  BY <1>1, BodyInvariant, PTL

\* Whenever storage was refused: the buffer is freed, the operator is told once, and the
\* rest of an intact body is read before the answer (reqbody.c: read_length, read_chunked).
THEOREM RefusalsAreClean == Spec => []RefusalIsClean
<1>1. BodyInv => RefusalIsClean
  BY DEF BodyInv
<1> QED
  BY <1>1, BodyInvariant, PTL
=============================================================================
