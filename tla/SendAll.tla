------------------------------ MODULE SendAll ------------------------------
(***************************************************************************)
(* The send loop (src/sendall.c: send_bytes) and send_all in src/common.c, *)
(* which gives the response up when the loop fails.  A handler sends its   *)
(* response in several calls and may go on after one has failed, as an     *)
(* error path does.  http_send takes any part of what it is given, nothing *)
(* when the client's window is closed, or finds the socket dead.           *)
(***************************************************************************)
EXTENDS Integers, Sequences

CONSTANTS
    Buffers,     \* the lengths of the buffers of one response
    StallMax     \* SEND_STALL_MAX, 100 in the code

ASSUME SendAssumption ==
    /\ Buffers \in Seq(Nat)
    /\ StallMax \in Nat

VARIABLES
    call,       \* the number of the current call
    pos,        \* bytes of the current buffer that are sent
    stall,      \* consecutive sends without progress, as the loop counts them
    spc,
    dead,       \* httpc->state >= CSTATE_DONE
    stopping,   \* httpd is quiescing
    gone,       \* the socket has failed
    idleSends,  \* sends in a row that the client took nothing of, up to the end
    swire        \* what the client has: <<call, byte>>, in order

sendVars == <<call, pos, stall, spc, dead, stopping, gone, idleSends, swire>>

SendInit ==
    /\ call = 1
    /\ pos = 0
    /\ stall = 0
    /\ spc = "entry"
    /\ dead = FALSE
    /\ stopping \in BOOLEAN
    /\ gone = FALSE
    /\ idleSends = 0
    /\ swire = << >>

-----------------------------------------------------------------------------
(* The loop. *)

\* The call returns and the handler makes the next one.
NextCall ==
    /\ call' = call + 1
    /\ pos' = 0
    /\ stall' = 0
    /\ spc' = "entry"

\* send_all: a failed loop aborts the response.  The handler stops, or goes on.
GiveUp ==
    /\ dead' = TRUE
    /\ \/ NextCall
       \/ /\ call' = Len(Buffers) + 1
          /\ spc' = "entry"
          /\ UNCHANGED <<pos, stall>>

\* A defect without the guard on entry.
MutEntry ==
    /\ spc = "entry"
    /\ call <= Len(Buffers)
    /\ spc' = "send"
    /\ UNCHANGED <<call, pos, stall>>
    /\ UNCHANGED <<dead, stopping, gone, idleSends, swire>>

\* A defect that asks for the quiesce on entry as well.
MutEntryStops ==
    /\ spc = "entry"
    /\ call <= Len(Buffers)
    /\ \/ /\ ~(dead \/ stopping)
          /\ spc' = "send"
          /\ UNCHANGED <<call, pos, stall, dead>>
       \/ (dead \/ stopping) /\ GiveUp
    /\ UNCHANGED <<stopping, gone, idleSends, swire>>

\* Nothing to send is success; a finished client is refused.
Entry ==
    /\ spc = "entry"
    /\ call <= Len(Buffers)
    /\ \/ Buffers[call] = 0 /\ NextCall /\ UNCHANGED dead
       \/ /\ Buffers[call] > 0 /\ ~dead
          /\ spc' = "send"
          /\ UNCHANGED <<call, pos, stall, dead>>
       \/ Buffers[call] > 0 /\ dead /\ GiveUp
    /\ UNCHANGED <<stopping, gone, idleSends, swire>>

\* Some bytes went out, which resets the budget.
Progress ==
    /\ spc = "send" /\ pos < Buffers[call]
    /\ \E n \in 1..(Buffers[call] - pos) :
         /\ pos' = pos + n
         /\ swire' = swire \o [i \in 1..n |-> <<call, pos + i>>]
    /\ stall' = 0
    /\ idleSends' = IF dead THEN idleSends ELSE 0
    /\ UNCHANGED <<call, spc, dead, stopping, gone>>

SocketDead ==
    /\ spc = "send" /\ pos < Buffers[call]
    /\ gone' = TRUE
    /\ GiveUp
    /\ UNCHANGED <<stopping, idleSends, swire>>

\* A defect that starts to count again when the budget is spent.
MutNoProgress ==
    /\ spc = "send" /\ pos < Buffers[call]
    /\ stall' = IF stall = StallMax THEN 0 ELSE stall + 1
    /\ UNCHANGED <<call, pos, spc, dead, stopping, gone, idleSends, swire>>

\* The window is closed: give up at once when the server is stopping, or when
\* the budget is spent; otherwise pause and try again.
NoProgress ==
    /\ spc = "send" /\ pos < Buffers[call]
    /\ idleSends' = idleSends + 1
    /\ \/ (dead \/ stopping \/ stall + 1 > StallMax) /\ GiveUp
       \/ /\ ~dead /\ ~stopping /\ stall + 1 <= StallMax
          /\ stall' = stall + 1
          /\ UNCHANGED <<call, pos, spc, dead>>
    /\ UNCHANGED <<stopping, gone, swire>>

Sent ==
    /\ spc = "send" /\ pos = Buffers[call]
    /\ NextCall
    /\ UNCHANGED <<dead, stopping, gone, idleSends, swire>>

\* The operator stops the server.
Quiesce ==
    /\ ~stopping
    /\ stopping' = TRUE
    /\ UNCHANGED <<call, pos, stall, spc, dead, gone, idleSends, swire>>

\* The handler has made its last call.
Returned == call > Len(Buffers) /\ UNCHANGED sendVars

Loop == Entry \/ Progress \/ SocketDead \/ NoProgress \/ Sent
SendNext == Loop \/ Quiesce \/ Returned

SendSpec == SendInit /\ [][SendNext]_sendVars

-----------------------------------------------------------------------------
(* Properties. *)

\* The loop never passes the end of its buffer, and its stall counter stays
\* within the budget (sendall.c: send_bytes).
SendTypeOK ==
    /\ call \in 1..(Len(Buffers) + 1)
    /\ pos \in Nat
    /\ call <= Len(Buffers) => pos <= Buffers[call]
    /\ stall \in 0..StallMax
    /\ spc \in {"entry", "send"}
    /\ dead \in BOOLEAN /\ stopping \in BOOLEAN /\ gone \in BOOLEAN

\* The byte that has to follow <<c, i>> on the wire.
Follows(a, b) ==
    \/ b[1] = a[1] /\ b[2] = a[2] + 1
    \/ /\ b[1] > a[1] /\ b[2] = 1
       /\ a[2] = Buffers[a[1]]
       /\ \A k \in (a[1] + 1)..(b[1] - 1) : Buffers[k] = 0

\* The client has a prefix of the response, with no byte missing, repeated or
\* out of place, also when a call failed and the handler went on sending.
NoGap == \A i \in 1..(Len(swire) - 1) : Follows(swire[i], swire[i + 1])

\* A response is given up only for a dead socket, for a client that took nothing
\* in StallMax + 1 sends in a row, or for one that took nothing while the server
\* stops: never for a slow client, and never by a quiesce alone (#398).
GiveUpJustified ==
    dead => gone \/ idleSends > StallMax \/ (stopping /\ idleSends > 0)

\* Every call has returned.
SendEnded == call > Len(Buffers)
=============================================================================
