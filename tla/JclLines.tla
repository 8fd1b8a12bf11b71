------------------------------ MODULE JclLines ------------------------------
(***************************************************************************)
(* The table a JCL deck is read into (src/jclines.c and the two submit     *)
(* paths of src/jobsapi.c): a block of line slots and an array of pointers *)
(* into it, both grown by realloc, either of which may fail.  A block is   *)
(* a number; an entry of the pointer array is the block and the slot it    *)
(* addresses.                                                              *)
(***************************************************************************)
EXTENDS Integers, FiniteSets

CONSTANTS
    Initial,    \* INITIAL_JCL_CAPACITY
    IntMax,     \* INT_MAX
    MaxLines    \* bound on the lines of the deck

VARIABLES
    heap,       \* the blocks that are allocated, with their size in slots
    made,       \* blocks made so far
    lines,      \* the pointer array: its block and its entries
    linesBuf,   \* the block of the slots
    capacity,
    numLines,
    table       \* "reading", "ready", "failed", "freed"

tableVars == <<heap, made, lines, linesBuf, capacity, numLines, table>>

Entries(block, n) == [i \in 0..(n - 1) |-> <<block, i>>]

\* The two callocs and the loop that sets the entries.
Init ==
    /\ heap = [b \in {1, 2} |-> Initial]
    /\ made = 2
    /\ lines = [block |-> 1, entry |-> Entries(2, Initial)]
    /\ linesBuf = 2
    /\ capacity = Initial
    /\ numLines = 0
    /\ table = "reading"

-----------------------------------------------------------------------------
(* grow_lines_arrays *)

Without(h, b) == [x \in DOMAIN h \ {b} |-> h[x]]

\* realloc that succeeds: another block, and the old one is gone.
Realloc(h, b, new, n) == [x \in (DOMAIN h \ {b}) \cup {new} |-> IF x = new THEN n ELSE h[x]]

\* The capacities that doubling reaches, and the first that suffices; 0 when the
\* next doubling would overflow.
NewCapacity(required) ==
    LET cap[k \in 0..required] == IF k = 0 THEN capacity ELSE 2 * cap[k - 1]
        first == CHOOSE k \in 0..required :
                   cap[k] >= required /\ \A j \in 0..(k - 1) : cap[j] < required
    IN  IF \E j \in 0..(first - 1) : cap[j] > IntMax \div 2 THEN 0 ELSE cap[first]

\* A defect that grows the buffer first, as the code did before #220.
MutGrow(required, done) ==
    LET n == NewCapacity(required)
        array == made + 1
        buffer == made + 2
    IN  /\ n # 0
        /\ made' = made + 2
        /\ \/ /\ heap' = Realloc(heap, linesBuf, buffer, n)
              /\ linesBuf' = buffer
              /\ table' = "failed"
              /\ UNCHANGED <<lines, capacity>>
           \/ /\ heap' = Realloc(Realloc(heap, linesBuf, buffer, n), lines.block, array, n)
              /\ lines' = [block |-> array, entry |-> Entries(buffer, n)]
              /\ linesBuf' = buffer
              /\ capacity' = n
              /\ table' = done

\* The pointer array first, the buffer second; the caller goes on to done, or a
\* failure is answered with a 500.
Grow(required, done) ==
    LET n == NewCapacity(required)
        array == made + 1
        buffer == made + 2
    IN  \/ /\ table' = "failed"
           /\ UNCHANGED <<heap, made, lines, linesBuf, capacity>>
        \/ /\ n # 0
           /\ made' = made + 2
           /\ heap' = Realloc(heap, lines.block, array, n)
           /\ lines' = [lines EXCEPT !.block = array]
           /\ table' = "failed"
           /\ UNCHANGED <<linesBuf, capacity>>
        \/ /\ n # 0
           /\ made' = made + 2
           /\ heap' = Realloc(Realloc(heap, lines.block, array, n), linesBuf, buffer, n)
           /\ lines' = [block |-> array, entry |-> Entries(buffer, n)]
           /\ linesBuf' = buffer
           /\ capacity' = n
           /\ table' = done

\* A line of the deck goes into its slot.
ReadLine ==
    /\ table = "reading" /\ numLines < MaxLines
    /\ \/ numLines < capacity /\ UNCHANGED <<heap, made, lines, linesBuf, capacity, table>>
       \/ numLines >= capacity /\ Grow(numLines + 1, "reading")
    /\ numLines' = IF table' = "reading" THEN numLines + 1 ELSE numLines

\* The end of the deck: room for the two lines process_jobcard may add.
MakeRoom ==
    /\ table = "reading"
    /\ \/ /\ numLines + 2 <= capacity
          /\ table' = "ready"
          /\ UNCHANGED <<heap, made, lines, linesBuf, capacity>>
       \/ numLines + 2 > capacity /\ Grow(numLines + 2, "ready")
    /\ UNCHANGED numLines

\* quit: both are freed.
Release ==
    /\ table \in {"ready", "failed"}
    /\ heap' = Without(Without(heap, lines.block), linesBuf)
    /\ table' = "freed"
    /\ UNCHANGED <<made, lines, linesBuf, capacity, numLines>>

Freed == table = "freed" /\ UNCHANGED tableVars

Next == ReadLine \/ MakeRoom \/ Release \/ Freed

-----------------------------------------------------------------------------
(* Properties. *)

\* Whichever reallocation failed, every line below the capacity lies in the live
\* buffer at its own slot, the lines read so far and the two that the job card may
\* take fit, and at the end no block is left (jclines.h: the failure contract).
TableWhole ==
    /\ table # "freed" =>
         /\ lines.block \in DOMAIN heap /\ linesBuf \in DOMAIN heap
         /\ heap[lines.block] >= capacity /\ heap[linesBuf] >= capacity
         /\ \A i \in 0..(capacity - 1) : lines.entry[i] = <<linesBuf, i>>
         /\ numLines <= capacity
    /\ table = "ready" => numLines + 2 <= capacity
    /\ table = "freed" => heap = << >>
=============================================================================
