--------------------------- MODULE MCInterceptor ---------------------------
EXTENDS Interceptor

\* Every process is root's.
AllRoot == [p \in Pids |-> 0]

\* Pid 1 is root's, pid 2 is a user's, who may ask about pid 1 as it exits.
RootAndUser == [p \in Pids |-> IF p = 1 THEN 0 ELSE 1]

\* Every command on system call 1, for each pid and for all pids at once.
Everything == [cmd : Cmds, syscall : {1}, pid : {0} \cup Pids]

\* The same on exit_group, which is hijacked already, and on the last row; and
\* requests that fail a validity check each.
Hijacks ==
    [cmd : {"INTERCEPT", "RELEASE"}, syscall : {1, 2}, pid : {0}]
        \cup [cmd : {"START", "STOP"}, syscall : {1, 2}, pid : {1}]
        \cup [cmd : {"START", "STOP"}, syscall : {1}, pid : {0}]
Invalid ==
    {[cmd |-> "BAD", syscall |-> 1, pid |-> 0],
     [cmd |-> "INTERCEPT", syscall |-> 0, pid |-> 0],
     [cmd |-> "START", syscall |-> 4, pid |-> 0],
     [cmd |-> "START", syscall |-> 1, pid |-> -1]}
HijacksAndInvalid == Hijacks \cup Invalid

=============================================================================
