--------------------------- MODULE AbstractMemory ---------------------------
(***************************************************************************)
(* What the paging simulator of assignment 2 promises to access_mem: a     *)
(* memory in which every page holds the number of writes made to it.  The  *)
(* swap file is finite and its device may fail, so a page can be lost; a   *)
(* lost page is never handed out, the simulator halts instead.  Once       *)
(* access_mem has reported a page with the wrong content, nothing more is  *)
(* promised.                                                               *)
(***************************************************************************)
EXTENDS Integers

CONSTANTS Pages, Types, Writes

VARIABLES
    mem,        \* the version of each page, or Lost
    found,      \* the page's address and version that the last access found
    reported,   \* access_mem has printed its error
    halted      \* the simulator has been stopped by an assertion

Lost == -1

Bump(t) == IF t \in Writes THEN 1 ELSE 0

Init ==
    /\ mem = [v \in Pages |-> 0]
    /\ found = [vaddr |-> -1, version |-> 0]
    /\ reported = FALSE
    /\ halted = FALSE

\* An access finds the version of the last write; it may cost other pages
\* their content.
Access(v, t) ==
    /\ ~halted /\ ~reported
    /\ mem[v] # Lost
    /\ found' = [vaddr |-> v, version |-> mem[v]]
    /\ \E lost \in SUBSET (Pages \ {v}) :
          mem' = [w \in Pages |-> IF w \in lost THEN Lost
                                  ELSE IF w = v THEN mem[v] + Bump(t) ELSE mem[w]]
    /\ UNCHANGED <<reported, halted>>

\* An access to a lost page stops the simulator.
Halt ==
    /\ ~halted
    /\ \E v \in Pages : mem[v] = Lost
    /\ halted' = TRUE
    /\ UNCHANGED <<mem, found, reported>>

\* The access finds a page with another page's address, and says so.
Report ==
    /\ ~halted /\ ~halted'
    /\ reported' = TRUE

\* After a report.
Unreliable == reported /\ reported'

Next ==
    \/ \E v \in Pages, t \in Types : Access(v, t)
    \/ Halt
    \/ Report
    \/ Unreliable

Spec == Init /\ [][Next]_<<mem, found, reported, halted>>

=============================================================================
