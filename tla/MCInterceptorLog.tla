------------------------- MODULE MCInterceptorLog -------------------------
EXTENDS InterceptorLog

\* Pid 1 is root's, every other pid has a user of its own.
Owners == [p \in Pids |-> IF p = 1 THEN 0 ELSE p]

\* White and black lists of one call, in which two pids are named.
Lists == [cmd : {"START", "STOP"}, syscall : {1}, pid : {0, 2, 3}]
            \cup [cmd : {"INTERCEPT"}, syscall : {1}, pid : {0}]

=============================================================================
