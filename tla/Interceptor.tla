---------------------------- MODULE Interceptor ----------------------------
(***************************************************************************)
(* The system-call interceptor of assignment 1, a loadable kernel module   *)
(* (a1/starter_code/starter_code/interceptor.c).  Processes run on several *)
(* CPUs; a step is one access to shared memory that another CPU can tell   *)
(* apart.  The code that holds pidlist_lock is split only where a reader   *)
(* that holds no lock (the dispatcher reading sys_call_table, and the      *)
(* function interceptor reading the row) can see the states in between.    *)
(***************************************************************************)
EXTENDS Integers, Sequences

CONSTANTS
    Pids,           \* the process ids in use, each a positive integer
    uid,            \* the user that owns each process; 0 is root
    NR_syscalls,    \* rows are 0 .. NR_syscalls (table[NR_syscalls+1])
    NR_exit_group,  \* __NR_exit_group
    Calls,          \* the system calls the processes issue
    Requests        \* the arguments MY_CUSTOM_SYSCALL is issued with

MY_CUSTOM_SYSCALL == 0

Rows == 0 .. NR_syscalls

Cmds == {"INTERCEPT", "RELEASE", "START", "STOP"}

Request == [cmd : Cmds \cup {"BAD"}, syscall : Int, pid : Int]

\* The kernel dispatches only numbers below NR_syscalls.
ASSUME PidsAssumption == Pids \subseteq Nat \ {0}
ASSUME UidAssumption == uid \in [Pids -> Nat]
ASSUME SyscallAssumption ==
    /\ NR_syscalls \in Nat \ {0}
    /\ NR_exit_group \in 1 .. NR_syscalls - 1
    /\ Calls \subseteq 0 .. NR_syscalls - 1
ASSUME RequestAssumption == Requests \subseteq Request

-----------------------------------------------------------------------------
(* State *)

VARIABLES
    sct,            \* sys_call_table: the function each number calls
    f, intercepted, monitored, listcount, my_list,  \* the fields of table[s]
    listinit,       \* INIT_LIST_HEAD has been applied to table[s].my_list
    pidlist_lock, calltable_lock,   \* the holder, or Free
    mod,            \* where init_function or exit_function stands
    xrow,           \* exit_function's loop variable i
    alive,          \* the pids for which pid_task(find_vpid(pid)) is not NULL
    pc, req,        \* each process's position, and its my_syscall arguments
    call,           \* interceptor's syscall_num; del_pid's loop variable s
    mode,           \* the value of row->monitored that is_pid_monitored read
    cur             \* check_pid_monitored's list position i

rowVars  == <<f, intercepted, monitored, listcount, my_list, listinit>>
lockVars == <<pidlist_lock, calltable_lock>>
modVars  == <<mod, xrow>>
readVars == <<call, mode, cur>>
vars == <<sct, rowVars, lockVars, modVars, alive, pc, req, readVars>>

Free   == 0     \* no holder
LOADER == -1    \* the thread that runs init_function and exit_function
HEAD   == 0     \* a list position: the list_head in the row itself
FREED  == -1    \* a list position: a node that has been through kfree

Funcs == {"null", "orig", "interceptor", "my_syscall", "my_exit_group"}

NoReq == [cmd |-> "BAD", syscall |-> 0, pid |-> 0]

UserPC == {"user", "dead", "oops"}
SysPC  == {"sys_lock", "sys_perm", "sys_table", "sys_destroy", "sys_all"}
ExitPC == {"exit_lock", "exit_del", "exit_orig"}
IntPC  == {"int_check", "int_walk", "int_log", "int_call"}

\* Inside the module's own code.
ModulePC == SysPC \cup ExitPC \cup IntPC

ModPC == {"out", "init_exit", "init_rows", "in",
          "exit_lock", "exit_row", "exit_destroy", "exit_orig", "gone"}

TypeOK ==
    /\ sct \in [Rows -> Funcs]
    /\ f \in [Rows -> Funcs]
    /\ intercepted \in [Rows -> BOOLEAN]
    /\ monitored \in [Rows -> 0 .. 2]
    /\ listcount \in [Rows -> Int]
    /\ my_list \in [Rows -> Seq(Pids)]
    /\ listinit \in [Rows -> BOOLEAN]
    /\ pidlist_lock \in Pids \cup {Free, LOADER}
    /\ calltable_lock \in {Free, LOADER}
    /\ mod \in ModPC
    /\ xrow \in 0 .. NR_syscalls + 1
    /\ alive \subseteq Pids
    /\ pc \in [Pids -> UserPC \cup ModulePC]
    /\ req \in [Pids -> Requests \cup {NoReq}]
    /\ call \in [Pids -> Rows]
    /\ mode \in [Pids -> 0 .. 2]
    /\ cur \in [Pids -> Pids \cup {HEAD, FREED}]

-----------------------------------------------------------------------------
(* The list of pids of a row.  list_add inserts at the head.               *)

Listed(s, p) == \E i \in 1 .. Len(my_list[s]) : my_list[s][i] = p

\* The node that holds p: there is one at most (RowConsistent).
Position(s, p) == CHOOSE i \in 1 .. Len(my_list[s]) : my_list[s][i] = p

DropAt(l, i) ==
    [j \in 1 .. Len(l) - 1 |-> IF j < i THEN l[j] ELSE l[j + 1]]

\* The node a position points to next; HEAD at the end of the list.
NextNode(s, c) ==
    LET i == IF c = HEAD THEN 0 ELSE Position(s, c)
    IN  IF i < Len(my_list[s]) THEN my_list[s][i + 1] ELSE HEAD

\* kfree of q's node in row s: a reader that stands on it is left dangling.
CursAfterFree(s, q) ==
    [p \in Pids |->
        IF pc[p] = "int_walk" /\ call[p] = s /\ cur[p] = q THEN FREED ELSE cur[p]]

(* is_pid_monitored, evaluated by a thread that holds pidlist_lock.        *)
is_pid_monitored(p, s) ==
    CASE monitored[s] = 0 -> FALSE
      [] monitored[s] = 1 -> Listed(s, p)
      [] monitored[s] = 2 -> ~Listed(s, p)

-----------------------------------------------------------------------------
(* The checks of my_syscall, in the order it makes them.                   *)

is_root(p) == uid[p] = 0

is_valid_cmd(cmd) == cmd \in Cmds

is_valid_syscall(s) == s >= 0 /\ s <= NR_syscalls /\ s # MY_CUSTOM_SYSCALL

is_valid_pid_Negative(q) == q > 0 => q \in alive

is_valid_pid(q) == q >= 0 /\ (q > 0 => q \in alive)

valid(r) == is_valid_cmd(r.cmd) /\ is_valid_syscall(r.syscall) /\ is_valid_pid(r.pid)

\* check_pid_from_list dereferences pid_task(q), which is NULL once q is gone.
dereferences_dead_task(p, r) ==
    /\ ~is_root(p)
    /\ r.cmd \in {"START", "STOP"}
    /\ r.pid # 0
    /\ r.pid \notin alive

has_permissions_NoOwner(p, r) ==
    ~is_root(p) => r.cmd \in {"START", "STOP"} /\ r.pid # 0

has_permissions(p, r) ==
    ~is_root(p) =>
        r.cmd \in {"START", "STOP"} /\ r.pid # 0 /\ uid[r.pid] = uid[p]

is_context_correct(r) ==
    /\ r.cmd = "RELEASE" => intercepted[r.syscall]
    /\ r.cmd = "STOP" =>
         IF r.pid = 0
         THEN monitored[r.syscall] # 0
         ELSE is_pid_monitored(r.pid, r.syscall) /\ intercepted[r.syscall]

is_busy_NoIntercepted(r) ==
    r.cmd = "START" /\ is_pid_monitored(r.pid, r.syscall)

is_busy_NoMonitored(r) ==
    r.cmd = "INTERCEPT" /\ intercepted[r.syscall]

is_busy(r) ==
    \/ r.cmd = "INTERCEPT" /\ intercepted[r.syscall]
    \/ /\ r.cmd = "START"
       /\ \/ r.pid = 0 /\ monitored[r.syscall] = 2 /\ listcount[r.syscall] = 0
          \/ is_pid_monitored(r.pid, r.syscall)

\* Every check of my_syscall that follows the validity checks.
permitted(p, r) == has_permissions(p, r) /\ is_context_correct(r) /\ ~is_busy(r)

-----------------------------------------------------------------------------
(* Initial states *)

Hijacked == [s \in Rows |-> CASE s = MY_CUSTOM_SYSCALL -> "my_syscall"
                              [] s = NR_exit_group     -> "my_exit_group"
                              [] OTHER                 -> "orig"]

\* Nobody is in a system call and nothing is intercepted or monitored.
Quiet ==
    /\ intercepted = [s \in Rows |-> FALSE]
    /\ monitored = [s \in Rows |-> 0]
    /\ listcount = [s \in Rows |-> 0]
    /\ my_list = [s \in Rows |-> << >>]
    /\ pidlist_lock = Free /\ calltable_lock = Free
    /\ xrow = 0
    /\ alive = Pids
    /\ pc = [p \in Pids |-> "user"]
    /\ req = [p \in Pids |-> NoReq]
    /\ call = [p \in Pids |-> 0]
    /\ mode = [p \in Pids |-> 0]
    /\ cur = [p \in Pids |-> HEAD]

\* The module has not been inserted: its static data is all zero.
Init ==
    /\ Quiet
    /\ mod = "out"
    /\ sct = [s \in Rows |-> "orig"]
    /\ f = [s \in Rows |-> "null"]
    /\ listinit = [s \in Rows |-> FALSE]

\* The module has been inserted while no process was in a system call.
InitLoaded ==
    /\ Quiet
    /\ mod = "in"
    /\ sct = Hijacked
    /\ f = Hijacked
    /\ listinit = [s \in Rows |-> TRUE]

-----------------------------------------------------------------------------
(* Steps that change only where process p stands *)

Goto(p, l) == pc' = [pc EXCEPT ![p] = l]

\* A kernel oops kills p where it stands; whatever lock it holds stays held.
Oops(p) ==
    /\ Goto(p, "oops")
    /\ alive' = alive \ {p}
    /\ UNCHANGED <<sct, rowVars, lockVars, modVars, req, readVars>>

\* spin_lock(&pidlist_lock) gets past its loop.
LockIsFree_Ignored == TRUE
LockIsFree == pidlist_lock = Free

Return_KeepsLock(p) ==
    /\ Goto(p, "user")
    /\ req' = [req EXCEPT ![p] = NoReq]
    /\ UNCHANGED pidlist_lock

\* The end of my_syscall: spin_unlock(&pidlist_lock) and back to user mode.
Return(p) ==
    /\ pidlist_lock' = Free
    /\ Goto(p, "user")
    /\ req' = [req EXCEPT ![p] = NoReq]

-----------------------------------------------------------------------------
(* The dispatcher: a process issues system call n, the kernel reads        *)
(* sys_call_table[n] and calls what it finds.                              *)

SyscallOrigExit(p) ==
    /\ pc[p] = "user"
    /\ NR_exit_group \in Calls
    /\ sct[NR_exit_group] = "orig"
    /\ Goto(p, "dead")
    /\ alive' = alive \ {p}
    /\ UNCHANGED <<sct, rowVars, lockVars, modVars, req, readVars>>

SyscallMyExit(p) ==
    /\ pc[p] = "user"
    /\ NR_exit_group \in Calls
    /\ sct[NR_exit_group] = "my_exit_group"
    /\ Goto(p, "exit_lock")
    /\ UNCHANGED <<sct, rowVars, lockVars, modVars, alive, req, readVars>>

SyscallCustom(p) ==
    /\ pc[p] = "user"
    /\ MY_CUSTOM_SYSCALL \in Calls
    /\ sct[MY_CUSTOM_SYSCALL] = "my_syscall"
    /\ Goto(p, "sys_lock")
    /\ \E r \in Requests : req' = [req EXCEPT ![p] = r]
    /\ UNCHANGED <<sct, rowVars, lockVars, modVars, alive, readVars>>

SyscallIntercepted(p) ==
    /\ pc[p] = "user"
    /\ \E n \in Calls :
          /\ sct[n] = "interceptor"
          /\ call' = [call EXCEPT ![p] = n]
    /\ Goto(p, "int_check")
    /\ UNCHANGED <<sct, rowVars, lockVars, modVars, alive, req, mode, cur>>

\* fork: the pid of a process that is gone is given to a new one.
Fork(p) ==
    /\ pc[p] = "dead"
    /\ Goto(p, "user")
    /\ alive' = alive \cup {p}
    /\ UNCHANGED <<sct, rowVars, lockVars, modVars, req, readVars>>

-----------------------------------------------------------------------------
(* interceptor: is_pid_monitored without a lock, log_message, row->f(reg). *)

\* switch(row->monitored)
IntCheck(p) ==
    /\ pc[p] = "int_check"
    /\ mode' = [mode EXCEPT ![p] = monitored[call[p]]]
    /\ cur' = [cur EXCEPT ![p] = HEAD]
    /\ Goto(p, IF monitored[call[p]] = 0 THEN "int_call" ELSE "int_walk")
    /\ UNCHANGED <<sct, rowVars, lockVars, modVars, alive, req, call>>

Answer_WhiteListOnly(p, found) == IF found THEN "int_log" ELSE "int_call"

\* check_pid_monitored's answer, negated when the list is a black list.
Answer(p, found) ==
    IF found = (mode[p] = 1) THEN "int_log" ELSE "int_call"

\* One iteration of list_for_each: test the pid of this node, go to the next.
IntWalk(p) ==
    /\ pc[p] = "int_walk"
    /\ cur[p] # FREED
    /\ LET nxt == NextNode(call[p], cur[p]) IN
       IF cur[p] = p
       THEN Goto(p, Answer(p, TRUE)) /\ UNCHANGED cur
       ELSE /\ cur' = [cur EXCEPT ![p] = nxt]
            /\ IF nxt = HEAD THEN Goto(p, Answer(p, FALSE)) ELSE UNCHANGED pc
    /\ UNCHANGED <<sct, rowVars, lockVars, modVars, alive, req, call, mode>>

\* The node has been freed: whatever is in that memory decides.
IntWalkFreed(p) ==
    /\ pc[p] = "int_walk"
    /\ cur[p] = FREED
    /\ \/ Oops(p)
       \/ /\ \E found \in BOOLEAN : Goto(p, Answer(p, found))
          /\ UNCHANGED <<sct, rowVars, lockVars, modVars, alive, req, readVars>>

IntLog(p) ==
    /\ pc[p] = "int_log"
    /\ Goto(p, "int_call")
    /\ UNCHANGED <<sct, rowVars, lockVars, modVars, alive, req, readVars>>

\* return row->f(reg)
IntCall(p) ==
    /\ pc[p] = "int_call"
    /\ call' = [call EXCEPT ![p] = IF f[@] = "interceptor" THEN @ ELSE 0]
    /\ mode' = [mode EXCEPT ![p] = 0]
    /\ cur' = [cur EXCEPT ![p] = HEAD]
    /\ LET exits == f[call[p]] = "orig" /\ call[p] = NR_exit_group IN
       /\ Goto(p, CASE f[call[p]] = "interceptor"   -> "int_check"
                    [] f[call[p]] = "my_exit_group" -> "exit_lock"
                    [] exits                        -> "dead"
                    [] OTHER                        -> "user")
       /\ alive' = IF exits THEN alive \ {p} ELSE alive
    /\ UNCHANGED <<sct, rowVars, lockVars, modVars, req>>

-----------------------------------------------------------------------------
(* my_syscall *)

\* An invalid request is answered -EINVAL; the lock is taken and dropped.
SysInvalid(p) ==
    /\ pc[p] = "sys_lock"
    /\ LockIsFree
    /\ ~valid(req[p])
    /\ Return(p)
    /\ UNCHANGED <<sct, rowVars, calltable_lock, modVars, alive, readVars>>

SysAcquire(p) ==
    /\ pc[p] = "sys_lock"
    /\ LockIsFree
    /\ valid(req[p])
    /\ pidlist_lock' = p
    /\ Goto(p, "sys_perm")
    /\ UNCHANGED <<sct, rowVars, calltable_lock, modVars, alive, req, readVars>>

\* The process asked about has gone since is_valid_pid looked.
SysOops(p) ==
    /\ pc[p] = "sys_perm"
    /\ dereferences_dead_task(p, req[p])
    /\ Oops(p)

\* -EPERM, -EINVAL for the context, or -EBUSY
SysRefuse(p) ==
    /\ pc[p] = "sys_perm"
    /\ ~dereferences_dead_task(p, req[p])
    /\ ~permitted(p, req[p])
    /\ Return(p)
    /\ UNCHANGED <<sct, rowVars, calltable_lock, modVars, alive, readVars>>

Accepted(p, cmd) ==
    /\ pc[p] = "sys_perm"
    /\ ~dereferences_dead_task(p, req[p])
    /\ permitted(p, req[p])
    /\ req[p].cmd = cmd

\* handle_syscall_intercept up to spin_lock(&calltable_lock)
HandleIntercept(p) ==
    /\ Accepted(p, "INTERCEPT")
    /\ intercepted' = [intercepted EXCEPT ![req[p].syscall] = TRUE]
    /\ f' = [f EXCEPT ![req[p].syscall] = sct[req[p].syscall]]
    /\ Goto(p, "sys_table")
    /\ UNCHANGED <<sct, monitored, listcount, my_list, listinit,
                   lockVars, modVars, alive, req, readVars>>

HandleRelease_KeepsFlag(p) ==
    /\ Accepted(p, "RELEASE")
    /\ Goto(p, "sys_table")
    /\ UNCHANGED <<sct, rowVars, lockVars, modVars, alive, req, readVars>>

\* handle_syscall_release up to spin_lock(&calltable_lock)
HandleRelease(p) ==
    /\ Accepted(p, "RELEASE")
    /\ intercepted' = [intercepted EXCEPT ![req[p].syscall] = FALSE]
    /\ Goto(p, "sys_table")
    /\ UNCHANGED <<sct, f, monitored, listcount, my_list, listinit,
                   lockVars, modVars, alive, req, readVars>>

\* Both handlers from there: lock calltable_lock, write the entry, unlock both.
WriteTable(p) ==
    /\ pc[p] = "sys_table"
    /\ calltable_lock = Free
    /\ LET s == req[p].syscall IN
       sct' = [sct EXCEPT ![s] = IF req[p].cmd = "INTERCEPT"
                                 THEN "interceptor" ELSE f[s]]
    /\ Return(p)
    /\ UNCHANGED <<rowVars, calltable_lock, modVars, alive, readVars>>

\* add_pid_sysc on a list_head that INIT_LIST_HEAD has not reached, and
\* destroy_list on one, dereference a NULL pointer.
ListOops(p) ==
    /\ Accepted(p, "START")
    /\ ~listinit[req[p].syscall]
    /\ Oops(p)

\* add_pid_sysc(pid, syscall), and row->monitored = 1 for a START.
AddPid(p) ==
    LET s == req[p].syscall IN
    /\ \/ Accepted(p, "START") /\ monitored[s] # 2 /\ listinit[s]
       \/ Accepted(p, "STOP") /\ monitored[s] = 2
    /\ req[p].pid # 0
    /\ my_list' = [my_list EXCEPT ![s] = <<req[p].pid>> \o @]
    /\ listcount' = [listcount EXCEPT ![s] = @ + 1]
    /\ monitored' = [monitored EXCEPT ![s] = IF req[p].cmd = "START" THEN 1 ELSE @]
    /\ Return(p)
    /\ UNCHANGED <<sct, f, intercepted, listinit, calltable_lock, modVars,
                   alive, readVars>>

\* kmalloc fails: -ENOMEM, and nothing has changed.
AddPidNoMemory(p) ==
    LET s == req[p].syscall IN
    /\ \/ Accepted(p, "START") /\ monitored[s] # 2
       \/ Accepted(p, "STOP") /\ monitored[s] = 2
    /\ req[p].pid # 0
    /\ Return(p)
    /\ UNCHANGED <<sct, rowVars, calltable_lock, modVars, alive, readVars>>

\* list_del, kfree, listcount-- and the test that follows, for the node of q.
\* The test is common to del_pid_sysc and del_pid.
DelNode(s, q) ==
    /\ my_list' = [my_list EXCEPT ![s] = DropAt(@, Position(s, q))]
    /\ cur' = CursAfterFree(s, q)
    /\ listcount' = [listcount EXCEPT ![s] = @ - 1]
    /\ monitored' = [monitored EXCEPT
                        ![s] = IF listcount[s] = 1 /\ @ = 1 THEN 0 ELSE @]

\* del_pid_sysc(pid, syscall); -EINVAL and no change when it finds no node.
DelPid(p) ==
    LET s == req[p].syscall
        q == req[p].pid
    IN
    /\ \/ Accepted(p, "START") /\ monitored[s] = 2
       \/ Accepted(p, "STOP") /\ monitored[s] # 2
    /\ q # 0
    /\ IF Listed(s, q)
       THEN DelNode(s, q)
       ELSE UNCHANGED <<my_list, cur, listcount, monitored>>
    /\ Return(p)
    /\ UNCHANGED <<sct, f, intercepted, listinit, calltable_lock, modVars,
                   alive, call, mode>>

\* START or STOP for pid 0 calls destroy_list.
HandleAll(p) ==
    /\ \/ Accepted(p, "START") /\ listinit[req[p].syscall]
       \/ Accepted(p, "STOP")
    /\ req[p].pid = 0
    /\ Goto(p, "sys_destroy")
    /\ UNCHANGED <<sct, rowVars, lockVars, modVars, alive, req, readVars>>

\* One iteration of destroy_list's loop, for whoever runs it.
DestroyNode(s) ==
    /\ my_list[s] # << >>
    /\ my_list' = [my_list EXCEPT ![s] = Tail(@)]
    /\ cur' = CursAfterFree(s, Head(my_list[s]))

\* The end of destroy_list.
DestroyEnd(s) ==
    /\ my_list[s] = << >>
    /\ listcount' = [listcount EXCEPT ![s] = 0]
    /\ monitored' = [monitored EXCEPT ![s] = 0]

SysDestroyNode(p) ==
    /\ pc[p] = "sys_destroy"
    /\ DestroyNode(req[p].syscall)
    /\ UNCHANGED <<sct, f, intercepted, monitored, listcount, listinit,
                   lockVars, modVars, alive, pc, req, call, mode>>

\* STOP sets monitored to 0 once more and returns; START has one more store.
SysDestroyEnd(p) ==
    /\ pc[p] = "sys_destroy"
    /\ DestroyEnd(req[p].syscall)
    /\ IF req[p].cmd = "START"
       THEN Goto(p, "sys_all") /\ UNCHANGED <<pidlist_lock, req>>
       ELSE Return(p)
    /\ UNCHANGED <<sct, f, intercepted, my_list, listinit, calltable_lock,
                   modVars, alive, readVars>>

\* row->monitored = 2
SysMonitorAll(p) ==
    /\ pc[p] = "sys_all"
    /\ monitored' = [monitored EXCEPT ![req[p].syscall] = 2]
    /\ Return(p)
    /\ UNCHANGED <<sct, f, intercepted, listcount, my_list, listinit,
                   calltable_lock, modVars, alive, readVars>>

-----------------------------------------------------------------------------
(* my_exit_group: del_pid under the lock, row by row from 1 to             *)
(* NR_syscalls - 1, then the original exit_group.                          *)

ExitAcquire(p) ==
    /\ pc[p] = "exit_lock"
    /\ LockIsFree
    /\ pidlist_lock' = p
    /\ call' = [call EXCEPT ![p] = 1]
    /\ Goto(p, "exit_del")
    /\ UNCHANGED <<sct, rowVars, calltable_lock, modVars, alive, req, mode, cur>>

\* list_for_each_safe on a list_head that is still all zero.
ExitOops(p) ==
    /\ pc[p] = "exit_del"
    /\ call[p] < NR_syscalls
    /\ ~listinit[call[p]]
    /\ Oops(p)

ExitDelNode(p) ==
    /\ pc[p] = "exit_del"
    /\ call[p] < NR_syscalls
    /\ listinit[call[p]]
    /\ Listed(call[p], p)
    /\ DelNode(call[p], p)
    /\ UNCHANGED <<sct, f, intercepted, listinit, lockVars, modVars, alive,
                   pc, req, call, mode>>

ExitNextRow(p) ==
    /\ pc[p] = "exit_del"
    /\ call[p] < NR_syscalls
    /\ listinit[call[p]]
    /\ ~Listed(call[p], p)
    /\ call' = [call EXCEPT ![p] = @ + 1]
    /\ UNCHANGED <<sct, rowVars, lockVars, modVars, alive, pc, req, mode, cur>>

ExitUnlock(p) ==
    /\ pc[p] = "exit_del"
    /\ call[p] = NR_syscalls
    /\ pidlist_lock' = Free
    /\ call' = [call EXCEPT ![p] = 0]
    /\ Goto(p, "exit_orig")
    /\ UNCHANGED <<sct, rowVars, calltable_lock, modVars, alive, req, mode, cur>>

\* orig_exit_group(status)
ExitOrig(p) ==
    /\ pc[p] = "exit_orig"
    /\ Goto(p, "dead")
    /\ alive' = alive \ {p}
    /\ UNCHANGED <<sct, rowVars, lockVars, modVars, req, readVars>>

-----------------------------------------------------------------------------
(* init_function.  MY_CUSTOM_SYSCALL and exit_group are hijacked before    *)
(* the rows they use are initialised.                                      *)

InitHijackCustom ==
    /\ mod = "out"
    /\ calltable_lock = Free
    /\ calltable_lock' = LOADER
    /\ sct' = [sct EXCEPT ![MY_CUSTOM_SYSCALL] = "my_syscall"]
    /\ mod' = "init_exit"
    /\ UNCHANGED <<rowVars, pidlist_lock, xrow, alive, pc, req, readVars>>

InitHijackExit ==
    /\ mod = "init_exit"
    /\ sct' = [sct EXCEPT ![NR_exit_group] = "my_exit_group"]
    /\ mod' = "init_rows"
    /\ UNCHANGED <<rowVars, lockVars, xrow, alive, pc, req, readVars>>

\* The loop over the rows runs under both locks, and no function is installed
\* yet that reads a row without them.
InitRows ==
    /\ mod = "init_rows"
    /\ LockIsFree
    /\ f' = sct
    /\ intercepted' = [s \in Rows |-> FALSE]
    /\ monitored' = [s \in Rows |-> 0]
    /\ listcount' = [s \in Rows |-> 0]
    /\ my_list' = [s \in Rows |-> << >>]
    /\ listinit' = [s \in Rows |-> TRUE]
    /\ calltable_lock' = Free
    /\ mod' = "in"
    /\ UNCHANGED <<sct, pidlist_lock, xrow, alive, pc, req, readVars>>

(* exit_function *)

ExitFnLockTable ==
    /\ mod = "in"
    /\ calltable_lock = Free
    /\ calltable_lock' = LOADER
    /\ mod' = "exit_lock"
    /\ UNCHANGED <<sct, rowVars, pidlist_lock, xrow, alive, pc, req, readVars>>

ExitFnLockPids ==
    /\ mod = "exit_lock"
    /\ LockIsFree
    /\ pidlist_lock' = LOADER
    /\ xrow' = 0
    /\ mod' = "exit_row"
    /\ UNCHANGED <<sct, rowVars, calltable_lock, alive, pc, req, readVars>>

\* sys_call_table[i] = get_row(i)->f
ExitFnRestore ==
    /\ mod = "exit_row"
    /\ xrow <= NR_syscalls
    /\ sct' = [sct EXCEPT ![xrow] = f[xrow]]
    /\ mod' = "exit_destroy"
    /\ UNCHANGED <<rowVars, lockVars, xrow, alive, pc, req, readVars>>

ExitFnDestroyNode ==
    /\ mod = "exit_destroy"
    /\ DestroyNode(xrow)
    /\ UNCHANGED <<sct, f, intercepted, monitored, listcount, listinit,
                   lockVars, modVars, alive, pc, req, call, mode>>

ExitFnDestroyEnd ==
    /\ mod = "exit_destroy"
    /\ DestroyEnd(xrow)
    /\ xrow' = xrow + 1
    /\ mod' = "exit_row"
    /\ UNCHANGED <<sct, f, intercepted, my_list, listinit, lockVars, alive,
                   pc, req, readVars>>

ExitFnRestoreCustom ==
    /\ mod = "exit_row"
    /\ xrow = NR_syscalls + 1
    /\ sct' = [sct EXCEPT ![MY_CUSTOM_SYSCALL] = "orig"]
    /\ mod' = "exit_orig"
    /\ UNCHANGED <<rowVars, lockVars, xrow, alive, pc, req, readVars>>

ExitFnRestoreExit ==
    /\ mod = "exit_orig"
    /\ sct' = [sct EXCEPT ![NR_exit_group] = "orig"]
    /\ pidlist_lock' = Free
    /\ calltable_lock' = Free
    /\ mod' = "gone"
    /\ UNCHANGED <<rowVars, xrow, alive, pc, req, readVars>>

\* A process still inside the module's code after the module's memory is
\* released may fault at any instruction, or run on while it is not reused.
UnloadedFault(p) ==
    /\ mod = "gone"
    /\ pc[p] \in ModulePC
    /\ Oops(p)

-----------------------------------------------------------------------------
(* Specifications *)

Dispatch(p) ==
    \/ SyscallOrigExit(p) \/ SyscallMyExit(p) \/ SyscallCustom(p)
    \/ SyscallIntercepted(p) \/ Fork(p)

\* Steps that wait for a spinlock.
Acquire(p) ==
    SysInvalid(p) \/ SysAcquire(p) \/ ExitAcquire(p) \/ WriteTable(p)

\* Steps of p inside the kernel that wait for nobody.
Advance(p) ==
    \/ IntCheck(p) \/ IntWalk(p) \/ IntWalkFreed(p) \/ IntLog(p) \/ IntCall(p)
    \/ SysOops(p) \/ SysRefuse(p) \/ HandleIntercept(p) \/ HandleRelease(p)
    \/ ListOops(p) \/ AddPid(p) \/ AddPidNoMemory(p) \/ DelPid(p)
    \/ HandleAll(p) \/ SysDestroyNode(p) \/ SysDestroyEnd(p) \/ SysMonitorAll(p)
    \/ ExitOops(p) \/ ExitDelNode(p) \/ ExitNextRow(p) \/ ExitUnlock(p)
    \/ ExitOrig(p)

LoaderAcquire == InitHijackCustom \/ InitRows \/ ExitFnLockTable \/ ExitFnLockPids

LoaderAdvance ==
    \/ InitHijackExit \/ ExitFnRestore \/ ExitFnDestroyNode \/ ExitFnDestroyEnd
    \/ ExitFnRestoreCustom \/ ExitFnRestoreExit

Process(p) == Dispatch(p) \/ Acquire(p) \/ Advance(p)

Next ==
    \/ \E p \in Pids : Process(p) \/ UnloadedFault(p)
    \/ LoaderAcquire
    \/ LoaderAdvance

Spec == Init /\ [][Next]_vars

\* The life of the module between insmod and rmmod.
NextLoaded == \E p \in Pids : Process(p)

SpecLoaded == InitLoaded /\ [][NextLoaded]_vars

\* A process in the kernel keeps running, and the ticket spinlocks hand a
\* contended lock to the waiters in turn.
Fairness ==
    /\ \A p \in Pids : WF_vars(Advance(p)) /\ SF_vars(Acquire(p))
    /\ WF_vars(LoaderAdvance)

FairLoaded == SpecLoaded /\ Fairness

\* A module that is inserted may be removed again.
SpecUnload == InitLoaded /\ [][Next]_vars
FairUnload == SpecUnload /\ Fairness

-----------------------------------------------------------------------------
(* Properties *)

\* Sections of code that run under pidlist_lock.
CriticalPC == {"sys_perm", "sys_table", "sys_destroy", "sys_all", "exit_del"}

\* Two threads are never both inside code that pidlist_lock protects, the
\* loader's loop over the rows included, and a section is only entered by
\* the thread the lock names.
MutualExclusion ==
    /\ \A p \in Pids : pc[p] \in CriticalPC => pidlist_lock = p
    /\ mod \in {"exit_row", "exit_destroy", "exit_orig"} => pidlist_lock = LOADER

Destroying(s) ==
    \/ \E p \in Pids : pc[p] = "sys_destroy" /\ req[p].syscall = s
    \/ mod = "exit_destroy" /\ xrow = s

NoDuplicates(l) == \A i, j \in 1 .. Len(l) : l[i] = l[j] => i = j

RowOK(s) ==
    /\ NoDuplicates(my_list[s])
    /\ monitored[s] = 0 => my_list[s] = << >>
    /\ \/ Destroying(s)
       \/ /\ listcount[s] = Len(my_list[s])
          /\ monitored[s] = 1 => my_list[s] # << >>

\* What the handlers rely on and no check establishes: a list holds a pid at
\* most once, listcount is its length, monitored = 0 means it is empty and
\* monitored = 1 that it is not.  Only destroy_list suspends the last two, and
\* it holds until the module's memory is released.
RowConsistent == mod # "gone" => \A s \in Rows : RowOK(s)

\* row->f, which interceptor calls, is never interceptor itself: no history of
\* requests makes an intercepted call recurse.
NoSelfCall == \A s \in Rows : f[s] # "interceptor"

\* While the module is in and no handler is between its two stores, the table
\* calls interceptor for exactly the calls marked intercepted, and every other
\* entry is the one found at load time.
TableMatches ==
    mod = "in" =>
        \A s \in Rows :
            \/ \E p \in Pids : pc[p] = "sys_table" /\ req[p].syscall = s
            \/ sct[s] = IF intercepted[s] THEN "interceptor" ELSE Hijacked[s]

\* exit_function puts every entry of sys_call_table back, whatever was
\* intercepted, by whom, and whatever was in progress.
UnloadRestores ==
    [][mod # "gone" /\ mod' = "gone" => sct' = [s \in Rows |-> "orig"]]_vars

Monitored(s) == {q \in Pids : is_pid_monitored(q, s)}

\* Whether q is monitored changes only by the hand of q itself (when it
\* exits), of root, of a process of q's owner, or of the loader.
Authorised ==
    [][\A s \in Rows, q \in Pids :
          (q \in Monitored(s)) # (q \in Monitored(s))' =>
              \/ pidlist_lock \in {LOADER, q}
              \/ pidlist_lock \in Pids /\ uid[pidlist_lock] \in {0, uid[q]}]_vars

\* Every call that enters the module's code leaves it again.
Returns == \A p \in Pids : pc[p] \in ModulePC ~> pc[p] \in UserPC

=============================================================================
