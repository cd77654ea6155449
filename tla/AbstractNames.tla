---------------------------- MODULE AbstractNames ----------------------------
(***************************************************************************)
(* What the ext2 tools promise about names: a command that fails has       *)
(* changed no directory, and one that succeeds has changed at most one     *)
(* name, all at once.  The promise ends (astray) when a command has put    *)
(* file content where a directory's entries were, or entries into          *)
(* something that is no directory: the names are then whatever the bytes   *)
(* spell.                                                                  *)
(***************************************************************************)

VARIABLES
    names,  \* the names in all directories: records with dir and name
    phase,  \* "idle", "running", "done" or "failed"
    astray  \* the promise has ended

Init == phase = "idle" /\ astray = FALSE

Start == phase = "idle" /\ phase' = "running" /\ names' = names

Fail == phase \in {"idle", "running"} /\ phase' = "failed" /\ names' = names

Succeed == phase = "running" /\ phase' = "done"

NoNameChange == Succeed /\ names' = names

Link ==
    /\ Succeed
    /\ \E n \in names' :
          /\ \A m \in names : ~(m.dir = n.dir /\ m.name = n.name)
          /\ names' = names \cup {n}

Unlink == Succeed /\ \E n \in names : names' = names \ {n}

End == phase \in {"done", "failed"} /\ phase' = "idle" /\ names' = names

\* From a state in which the promise holds to one in which it still does.
Kept ==
    /\ astray = FALSE /\ astray' = FALSE
    /\ Start \/ Fail \/ NoNameChange \/ Link \/ Unlink \/ End

\* It ends once, and never begins again.
Astray == astray' = TRUE

Next == Kept \/ Astray

Spec == Init /\ [][Next]_<<names, phase, astray>>
==============================================================================
