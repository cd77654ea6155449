------------------------- MODULE InterceptorClaims -------------------------
(***************************************************************************)
(* What the comments of interceptor.c say the module does, stated as they  *)
(* say it.  Each of these fails for the code; the runs keep the shortest   *)
(* history that shows how.                                                 *)
(***************************************************************************)
EXTENDS Interceptor

\* interceptor.c:167, "Remove a pid from all the lists of monitored pids":
\* when my_exit_group leaves del_pid, no list holds the exiting process.
DelPidFromAllLists ==
    [][\A p \in Pids : pc[p] = "exit_del" /\ pc'[p] = "exit_orig" =>
          \A s \in Rows : ~Listed(s, p)']_vars

\* interceptor.c:87, "Access to the table and pid lists must be synchronized":
\* interceptor never follows a pointer into a node that has been freed.
NoFreedNodeRead ==
    \A p \in Pids : pc[p] = "int_walk" => cur[p] # FREED

\* interceptor.c:363, "Be careful to unlock any spinlocks you might be holding,
\* before you exit the function": a handler that holds pidlist_lock and waits
\* for calltable_lock gets past it.
HandlerFinishes ==
    \A p \in Pids : pc[p] = "sys_table" ~> pc[p] # "sys_table"

=============================================================================
