--------------------------- MODULE InterceptorLog ---------------------------
(***************************************************************************)
(* What interceptor logs.  The history variable seen holds, for a process  *)
(* inside interceptor, each answer to "is it monitored for this call" that *)
(* was right at some moment since the call entered it.  While destroy_list *)
(* takes the row apart, both answers count as right.                       *)
(***************************************************************************)
EXTENDS Interceptor

VARIABLE seen

Unsettled(s) ==
    \E p \in Pids : pc[p] \in {"sys_destroy", "sys_all"} /\ req[p].syscall = s

Truth(p) ==
    IF Unsettled(call[p]) THEN BOOLEAN ELSE {is_pid_monitored(p, call[p])}

InitLog == InitLoaded /\ seen = [p \in Pids |-> {}]

NextLog ==
    /\ NextLoaded
    /\ seen' = [p \in Pids |-> IF pc'[p] \in IntPC
                               THEN seen[p] \cup Truth(p)' ELSE {}]

SpecLog == InitLog /\ [][NextLog]_<<vars, seen>>

\* interceptor takes no lock, yet it decides to log a call only if the process
\* was monitored at some moment of the call, and not to only if it was not at
\* some moment, unless the walk ran over a freed node.
LogsTheTruth ==
    [][\A p \in Pids :
          pc[p] \in {"int_check", "int_walk"} /\ cur[p] # FREED =>
              /\ pc'[p] = "int_log" => TRUE \in seen[p]
              /\ pc'[p] = "int_call" => FALSE \in seen[p]]_<<vars, seen>>

=============================================================================
