------------------------ MODULE MCInterceptorClaims ------------------------
EXTENDS InterceptorClaims

AllRoot == [p \in Pids |-> 0]

Everything == [cmd : Cmds, syscall : {1}, pid : {0} \cup Pids]

\* The last row is a valid target, although no process can issue its number.
LastRow == [cmd : {"START", "STOP"}, syscall : {NR_syscalls}, pid : Pids]

=============================================================================
