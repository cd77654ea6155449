------------------------- MODULE InterceptorProofs -------------------------
(***************************************************************************)
(* Proofs about module Interceptor, for any number of processes, system    *)
(* calls and requests.                                                     *)
(***************************************************************************)
EXTENDS Interceptor, SequenceTheorems, TLAPS

-----------------------------------------------------------------------------
(* Lists *)

\* Dropping one node of a list leaves the others in their order.
LEMMA DropAtFacts ==
    ASSUME NEW S, NEW l \in Seq(S), NEW i \in 1 .. Len(l)
    PROVE  /\ DropAt(l, i) \in Seq(S)
           /\ Len(DropAt(l, i)) = Len(l) - 1
           /\ \A j \in 1 .. Len(l) - 1 :
                 DropAt(l, i)[j] = IF j < i THEN l[j] ELSE l[j + 1]
BY DEF DropAt

\* Position is where the pid is.
LEMMA PositionFacts ==
    ASSUME NEW s \in Rows, NEW p, my_list[s] \in Seq(Pids), Listed(s, p)
    PROVE  Position(s, p) \in 1 .. Len(my_list[s]) /\ my_list[s][Position(s, p)] = p
BY DEF Listed, Position

\* Dropping a node adds no duplicate.
LEMMA DropAtNoDuplicates ==
    ASSUME NEW S, NEW l \in Seq(S), NEW i \in 1 .. Len(l), NoDuplicates(l)
    PROVE  NoDuplicates(DropAt(l, i))
<1>. DEFINE d == DropAt(l, i)
<1>1. /\ d \in Seq(S)
      /\ Len(d) = Len(l) - 1
      /\ \A j \in 1 .. Len(l) - 1 : d[j] = IF j < i THEN l[j] ELSE l[j + 1]
  BY DropAtFacts
<1>2. Len(l) \in Nat
  OBVIOUS
<1>. HIDE DEF d
<1>3. ASSUME NEW a \in 1 .. Len(d), NEW b \in 1 .. Len(d), d[a] = d[b]
      PROVE  a = b
  <2>1. l[IF a < i THEN a ELSE a + 1] = l[IF b < i THEN b ELSE b + 1]
    BY <1>1, <1>3
  <2>. QED  BY <2>1, <1>1, <1>2 DEF NoDuplicates
<1>. QED  BY <1>3 DEF d, NoDuplicates

\* Dropping a node keeps every other pid.
LEMMA DropAtKeeps ==
    ASSUME NEW S, NEW l \in Seq(S), NEW i \in 1 .. Len(l),
           NEW k \in 1 .. Len(l), l[k] # l[i]
    PROVE  \E j \in 1 .. Len(DropAt(l, i)) : DropAt(l, i)[j] = l[k]
<1>. DEFINE d == DropAt(l, i)
<1>1. /\ Len(d) = Len(l) - 1
      /\ \A j \in 1 .. Len(l) - 1 : d[j] = IF j < i THEN l[j] ELSE l[j + 1]
  BY DropAtFacts
<1>2. Len(l) \in Nat
  OBVIOUS
<1>. HIDE DEF d
<1>3. CASE k < i
  <2>1. k \in 1 .. Len(l) - 1 /\ d[k] = l[k]
    BY <1>1, <1>2, <1>3
  <2>. QED  BY <1>1, <2>1 DEF d
<1>4. CASE k > i
  <2>1. k - 1 \in 1 .. Len(l) - 1 /\ d[k - 1] = l[k]
    BY <1>1, <1>2, <1>4
  <2>. QED  BY <1>1, <2>1 DEF d
<1>. QED  BY <1>3, <1>4

\* The same for a node added at the head and for one taken from it.
LEMMA ConsFacts ==
    ASSUME NEW S, NEW l \in Seq(S), NEW q \in S
    PROVE  /\ <<q>> \o l \in Seq(S)
           /\ Len(<<q>> \o l) = Len(l) + 1
           /\ \A j \in 1 .. Len(l) + 1 :
                 (<<q>> \o l)[j] = IF j = 1 THEN q ELSE l[j - 1]
OBVIOUS

\* What destroy_list leaves of a list when it takes the first node.
LEMMA TailFacts ==
    ASSUME NEW S, NEW l \in Seq(S), l # << >>
    PROVE  /\ Tail(l) \in Seq(S)
           /\ Head(l) \in S
           /\ Head(l) = l[1]
           /\ Len(Tail(l)) = Len(l) - 1
           /\ Len(l) \in Nat \ {0}
           /\ \A j \in 1 .. Len(l) - 1 : Tail(l)[j] = l[j + 1]
OBVIOUS

-----------------------------------------------------------------------------
(* The inductive invariant *)

LoaderLocked == {"exit_row", "exit_destroy", "exit_orig"}
InitPC == {"out", "init_exit", "init_rows"}

\* Who holds which lock, and which arguments have passed which checks.
Control ==
    /\ \A p \in Pids :
        /\ pc[p] \in CriticalPC => pidlist_lock = p
        /\ pc[p] \in {"sys_perm", "sys_table", "sys_destroy", "sys_all"} =>
              /\ req[p] \in Requests
              /\ req[p].syscall \in Rows \ {MY_CUSTOM_SYSCALL}
              /\ req[p].pid \in Pids \cup {0}
        /\ pc[p] = "sys_table" => req[p].cmd \in {"INTERCEPT", "RELEASE"}
        /\ pc[p] = "exit_del" => call[p] \in 1 .. NR_syscalls
        /\ mod \in InitPC => pc[p] \notin IntPC
        /\ mod = "out" => pc[p] \in UserPC
    /\ mod \in LoaderLocked => pidlist_lock = LOADER
    /\ calltable_lock = LOADER <=>
          mod \in {"init_exit", "init_rows", "exit_lock"} \cup LoaderLocked
    /\ mod = "exit_destroy" => xrow \in Rows

\* What sys_call_table and the saved functions hold in each phase.
Releasing(s) ==
    /\ pidlist_lock \in Pids
    /\ \/ pc[pidlist_lock] = "oops"
       \/ /\ pc[pidlist_lock] = "sys_table"
          /\ req[pidlist_lock].cmd = "RELEASE"
          /\ req[pidlist_lock].syscall = s

Entry(s) ==
    /\ f[s] # "interceptor"
    /\ sct[s] = "interceptor" => intercepted[s] \/ Releasing(s)
    /\ mod = "out" => sct[s] = "orig"
    /\ mod = "init_exit" =>
          sct[s] = IF s = MY_CUSTOM_SYSCALL THEN "my_syscall" ELSE "orig"
    /\ mod = "init_rows" => sct[s] = Hijacked[s]
    /\ mod \in {"in", "exit_lock"} \cup LoaderLocked => f[s] = Hijacked[s]
    /\ mod \in {"in", "exit_lock"} =>
          \/ \E p \in Pids : pc[p] = "sys_table" /\ req[p].syscall = s
          \/ sct[s] = IF intercepted[s] THEN "interceptor" ELSE Hijacked[s]
    /\ mod = "exit_row" /\ s < xrow => sct[s] = Hijacked[s]
    /\ mod = "exit_destroy" /\ s <= xrow => sct[s] = Hijacked[s]
    /\ mod = "exit_orig" =>
          sct[s] = IF s = MY_CUSTOM_SYSCALL THEN "orig" ELSE Hijacked[s]
    /\ \A p \in Pids : pc[p] = "sys_table" /\ req[p].syscall = s =>
          (intercepted[s] <=> req[p].cmd = "INTERCEPT")

Tables == \A s \in Rows : Entry(s)

\* The table as init_function leaves it.
LEMMA HijackedFacts ==
    ASSUME NEW s \in Rows
    PROVE  /\ Hijacked[s] \in Funcs \ {"interceptor"}
           /\ s = MY_CUSTOM_SYSCALL => Hijacked[s] = "my_syscall"
           /\ s = NR_exit_group => Hijacked[s] = "my_exit_group"
           /\ s # MY_CUSTOM_SYSCALL /\ s # NR_exit_group => Hijacked[s] = "orig"
BY SyscallAssumption DEF Hijacked, Funcs, MY_CUSTOM_SYSCALL

\* A reader that stands on a node stands on one that is in its list.
Cursors ==
    \A p \in Pids : pc[p] = "int_walk" /\ cur[p] \in Pids => Listed(call[p], cur[p])

IInv == TypeOK /\ Control /\ Tables /\ Cursors /\ RowConsistent

-----------------------------------------------------------------------------
(* Types *)

\* A reader on a listed node, or at the head, goes on to a listed node or to
\* the end: check_pid_monitored's walk stays in the list.
LEMMA NextNodeFacts ==
    ASSUME TypeOK, NEW s \in Rows, NEW c \in Pids \cup {HEAD},
           c \in Pids => Listed(s, c)
    PROVE  /\ NextNode(s, c) \in Pids \cup {HEAD}
           /\ NextNode(s, c) # HEAD => Listed(s, NextNode(s, c))
<1>. DEFINE i == IF c = HEAD THEN 0 ELSE Position(s, c)
<1>1. my_list[s] \in Seq(Pids)
  BY DEF TypeOK
<1>2. i \in 0 .. Len(my_list[s])
  <2>1. CASE c = HEAD
    BY <1>1, <2>1
  <2>2. CASE c # HEAD
    BY <1>1, <2>2, PositionFacts
  <2>. QED  BY <2>1, <2>2
<1>3. NextNode(s, c) = IF i < Len(my_list[s]) THEN my_list[s][i + 1] ELSE HEAD
  BY DEF NextNode
<1>. HIDE DEF i
<1>4. CASE i < Len(my_list[s])
  <2>1. i + 1 \in 1 .. Len(my_list[s])
    BY <1>1, <1>2, <1>4
  <2>. QED  BY <1>1, <1>3, <1>4, <2>1 DEF Listed
<1>5. CASE ~(i < Len(my_list[s]))
  BY <1>3, <1>5
<1>. QED  BY <1>4, <1>5

\* kfree leaves every reader's position in range.
LEMMA CursType ==
    ASSUME TypeOK, NEW s, NEW q
    PROVE  CursAfterFree(s, q) \in [Pids -> Pids \cup {HEAD, FREED}]
BY DEF TypeOK, CursAfterFree

\* The types after del_pid_sysc or del_pid has taken a node out.
LEMMA DelNodeType ==
    ASSUME TypeOK, NEW s \in Rows, NEW q \in Pids, Listed(s, q), DelNode(s, q)
    PROVE  /\ my_list' \in [Rows -> Seq(Pids)]
           /\ cur' \in [Pids -> Pids \cup {HEAD, FREED}]
           /\ listcount' \in [Rows -> Int]
           /\ monitored' \in [Rows -> 0 .. 2]
<1>1. my_list[s] \in Seq(Pids)
  BY DEF TypeOK
<1>2. DropAt(my_list[s], Position(s, q)) \in Seq(Pids)
  BY <1>1, PositionFacts, DropAtFacts
<1>3. my_list' \in [Rows -> Seq(Pids)]
  BY <1>2 DEF DelNode, TypeOK
<1>4. cur' \in [Pids -> Pids \cup {HEAD, FREED}]
  BY CursType DEF DelNode
<1>5. listcount' \in [Rows -> Int]
  BY DEF DelNode, TypeOK
<1>6. monitored' \in [Rows -> 0 .. 2]
  BY DEF DelNode, TypeOK
<1>. QED  BY <1>3, <1>4, <1>5, <1>6

\* The types after one iteration of destroy_list.
LEMMA DestroyNodeType ==
    ASSUME TypeOK, NEW s \in Rows, DestroyNode(s)
    PROVE  /\ my_list' \in [Rows -> Seq(Pids)]
           /\ cur' \in [Pids -> Pids \cup {HEAD, FREED}]
<1>1. my_list[s] \in Seq(Pids)
  BY DEF TypeOK
<1>2. Tail(my_list[s]) \in Seq(Pids)
  BY <1>1, TailFacts DEF DestroyNode
<1>. QED  BY <1>2, CursType DEF DestroyNode, TypeOK

\* The types after add_pid_sysc.
LEMMA AddNodeType ==
    ASSUME TypeOK, NEW s \in Rows, NEW q \in Pids, NEW m \in 0 .. 2,
           my_list' = [my_list EXCEPT ![s] = <<q>> \o @],
           listcount' = [listcount EXCEPT ![s] = @ + 1],
           monitored' = [monitored EXCEPT ![s] = m]
    PROVE  /\ my_list' \in [Rows -> Seq(Pids)]
           /\ listcount' \in [Rows -> Int]
           /\ monitored' \in [Rows -> 0 .. 2]
<1>1. my_list' \in [Rows -> Seq(Pids)]
  BY ConsFacts DEF TypeOK
<1>2. listcount' \in [Rows -> Int]
  BY DEF TypeOK
<1>3. monitored' \in [Rows -> 0 .. 2]
  BY DEF TypeOK
<1>. QED  BY <1>1, <1>2, <1>3

\* Where a walk can lead.
LEMMA IntWalkMoves ==
    ASSUME TypeOK, Cursors, NEW p \in Pids, IntWalk(p)
    PROVE  /\ NextNode(call[p], cur[p]) \in Pids \cup {HEAD}
           /\ NextNode(call[p], cur[p]) # HEAD =>
                 Listed(call[p], NextNode(call[p], cur[p]))
           /\ \E l \in {"int_walk", "int_log", "int_call"} : pc' = [pc EXCEPT ![p] = l]
<1>1. /\ NextNode(call[p], cur[p]) \in Pids \cup {HEAD}
      /\ NextNode(call[p], cur[p]) # HEAD =>
            Listed(call[p], NextNode(call[p], cur[p]))
  BY NextNodeFacts DEF IntWalk, Cursors, TypeOK
<1>2. \A found \in BOOLEAN : Answer(p, found) \in {"int_log", "int_call"}
  BY DEF Answer
<1>3. CASE cur[p] = p
  BY <1>1, <1>2, <1>3 DEF IntWalk, Goto
<1>4. CASE cur[p] # p /\ NextNode(call[p], cur[p]) = HEAD
  BY <1>1, <1>2, <1>4 DEF IntWalk, Goto
<1>5. CASE cur[p] # p /\ NextNode(call[p], cur[p]) # HEAD
  <2>1. pc' = pc /\ pc[p] = "int_walk"
    BY <1>5 DEF IntWalk
  <2>2. pc' = [pc EXCEPT ![p] = "int_walk"]
    BY <2>1 DEF TypeOK
  <2>. QED  BY <1>1, <2>2
<1>. QED  BY <1>3, <1>4, <1>5

\* Every step keeps Control.
LEMMA ControlStep ==
    ASSUME IInv, [Next]_vars
    PROVE  Control'
<1>. USE PidsAssumption, SyscallAssumption, RequestAssumption DEF IInv, TypeOK, Control,
  Goto, rowVars,
    lockVars, modVars, readVars, UserPC, SysPC, ExitPC, IntPC, ModulePC, ModPC, CriticalPC,
    LoaderLocked, InitPC, Free, LOADER, MY_CUSTOM_SYSCALL, Rows, NoReq
<1>1. ASSUME NEW p \in Pids, SyscallOrigExit(p) PROVE Control'
  BY <1>1 DEF SyscallOrigExit
<1>2. ASSUME NEW p \in Pids, SyscallMyExit(p) PROVE Control'
  <2>1. mod # "out"
    BY <1>2 DEF SyscallMyExit, Tables, Entry
  <2>. QED  BY <1>2, <2>1 DEF SyscallMyExit
<1>3. ASSUME NEW p \in Pids, SyscallCustom(p) PROVE Control'
  <2>1. mod # "out"
    BY <1>3 DEF SyscallCustom, Tables, Entry
  <2>. QED  BY <1>3, <2>1 DEF SyscallCustom
<1>4. ASSUME NEW p \in Pids, SyscallIntercepted(p) PROVE Control'
  <2>1. PICK n \in Calls : sct[n] = "interceptor"
    BY <1>4 DEF SyscallIntercepted
  <2>0. n \in Rows
    OBVIOUS
  <2>2. Hijacked[n] # "interceptor"
    BY <2>0, HijackedFacts
  <2>3. mod \notin InitPC
    BY <2>0, <2>1, <2>2 DEF Tables, Entry
  <2>. QED  BY <1>4, <2>3 DEF SyscallIntercepted
<1>5. ASSUME NEW p \in Pids, Fork(p) PROVE Control'
  BY <1>5 DEF Fork
<1>6. ASSUME NEW p \in Pids, SysInvalid(p) PROVE Control'
  BY <1>6 DEF SysInvalid, LockIsFree, Return, valid
<1>7. ASSUME NEW p \in Pids, SysAcquire(p) PROVE Control'
  <2>1. /\ req[p] \in Requests
        /\ req[p].syscall \in Rows \ {MY_CUSTOM_SYSCALL}
        /\ req[p].pid \in Pids \cup {0}
    BY <1>7 DEF SysAcquire, valid, is_valid_cmd, is_valid_syscall, is_valid_pid, Cmds,
      Request
  <2>. QED  BY <1>7, <2>1 DEF SysAcquire, LockIsFree
<1>8. ASSUME NEW p \in Pids, ExitAcquire(p) PROVE Control'
  BY <1>8 DEF ExitAcquire, LockIsFree
<1>9. ASSUME NEW p \in Pids, WriteTable(p) PROVE Control'
  BY <1>9 DEF WriteTable, Return
<1>10. ASSUME NEW p \in Pids, IntCheck(p) PROVE Control'
  BY <1>10 DEF IntCheck
<1>11. ASSUME NEW p \in Pids, IntWalk(p) PROVE Control'
  BY <1>11 DEF IntWalk, Answer
<1>12. ASSUME NEW p \in Pids, IntWalkFreed(p) PROVE Control'
  <2>1. CASE Oops(p)
    BY <1>12, <2>1 DEF IntWalkFreed, Oops
  <2>2. ASSUME NEW l \in {"int_log", "int_call"}, Goto(p, l),
               UNCHANGED <<sct, rowVars, lockVars, modVars, alive, req, readVars>>
        PROVE  Control'
    BY <1>12, <2>2 DEF IntWalkFreed
  <2>. QED  BY <1>12, <2>1, <2>2 DEF IntWalkFreed, Answer
<1>13. ASSUME NEW p \in Pids, IntLog(p) PROVE Control'
  BY <1>13 DEF IntLog
<1>14. ASSUME NEW p \in Pids, IntCall(p) PROVE Control'
  BY <1>14 DEF IntCall
<1>15. ASSUME NEW p \in Pids, SysOops(p) PROVE Control'
  BY <1>15 DEF SysOops, Oops
<1>16. ASSUME NEW p \in Pids, SysRefuse(p) PROVE Control'
  BY <1>16 DEF SysRefuse, Return
<1>17. ASSUME NEW p \in Pids, HandleIntercept(p) PROVE Control'
  BY <1>17 DEF HandleIntercept, Accepted
<1>18. ASSUME NEW p \in Pids, HandleRelease(p) PROVE Control'
  BY <1>18 DEF HandleRelease, Accepted
<1>19. ASSUME NEW p \in Pids, ListOops(p) PROVE Control'
  BY <1>19 DEF ListOops, Oops
<1>20. ASSUME NEW p \in Pids, AddPid(p) PROVE Control'
  <2>1. /\ pc[p] = "sys_perm"
        /\ pidlist_lock' = Free
        /\ pc' = [pc EXCEPT ![p] = "user"]
        /\ req' = [req EXCEPT ![p] = NoReq]
        /\ UNCHANGED <<calltable_lock, mod, xrow, call>>
    BY <1>20 DEF AddPid, Accepted, Return
  <2>. QED  BY <2>1
<1>21. ASSUME NEW p \in Pids, AddPidNoMemory(p) PROVE Control'
  BY <1>21 DEF AddPidNoMemory, Accepted, Return
<1>22. ASSUME NEW p \in Pids, DelPid(p) PROVE Control'
  <2>1. /\ pc[p] = "sys_perm"
        /\ pidlist_lock' = Free
        /\ pc' = [pc EXCEPT ![p] = "user"]
        /\ req' = [req EXCEPT ![p] = NoReq]
        /\ UNCHANGED <<calltable_lock, mod, xrow, call>>
    BY <1>22 DEF DelPid, Accepted, Return
  <2>. QED  BY <2>1
<1>23. ASSUME NEW p \in Pids, HandleAll(p) PROVE Control'
  BY <1>23 DEF HandleAll, Accepted
<1>24. ASSUME NEW p \in Pids, SysDestroyNode(p) PROVE Control'
  BY <1>24 DEF SysDestroyNode, DestroyNode
<1>25. ASSUME NEW p \in Pids, SysDestroyEnd(p) PROVE Control'
  <2>1. UNCHANGED <<calltable_lock, mod, xrow, call>>
    BY <1>25 DEF SysDestroyEnd
  <2>2. CASE req[p].cmd = "START"
    <3>1. pc' = [pc EXCEPT ![p] = "sys_all"] /\ UNCHANGED <<pidlist_lock, req>>
      BY <1>25, <2>2 DEF SysDestroyEnd
    <3>. QED  BY <1>25, <2>1, <3>1 DEF SysDestroyEnd
  <2>3. CASE req[p].cmd # "START"
    <3>1. /\ pidlist_lock' = Free
          /\ pc' = [pc EXCEPT ![p] = "user"]
          /\ req' = [req EXCEPT ![p] = NoReq]
      BY <1>25, <2>3 DEF SysDestroyEnd, Return
    <3>. QED  BY <1>25, <2>1, <3>1 DEF SysDestroyEnd
  <2>. QED  BY <2>2, <2>3
<1>26. ASSUME NEW p \in Pids, SysMonitorAll(p) PROVE Control'
  BY <1>26 DEF SysMonitorAll, Return
<1>27. ASSUME NEW p \in Pids, ExitOops(p) PROVE Control'
  BY <1>27 DEF ExitOops, Oops
<1>28. ASSUME NEW p \in Pids, ExitDelNode(p) PROVE Control'
  BY <1>28 DEF ExitDelNode, DelNode
<1>29. ASSUME NEW p \in Pids, ExitNextRow(p) PROVE Control'
  BY <1>29 DEF ExitNextRow
<1>30. ASSUME NEW p \in Pids, ExitUnlock(p) PROVE Control'
  BY <1>30 DEF ExitUnlock
<1>31. ASSUME NEW p \in Pids, ExitOrig(p) PROVE Control'
  BY <1>31 DEF ExitOrig
<1>32. ASSUME NEW p \in Pids, UnloadedFault(p) PROVE Control'
  BY <1>32 DEF UnloadedFault, Oops
<1>33. CASE InitHijackCustom
  BY <1>33 DEF InitHijackCustom
<1>34. CASE InitRows
  BY <1>34 DEF InitRows, LockIsFree
<1>35. CASE ExitFnLockTable
  BY <1>35 DEF ExitFnLockTable
<1>36. CASE ExitFnLockPids
  BY <1>36 DEF ExitFnLockPids, LockIsFree
<1>37. CASE InitHijackExit
  BY <1>37 DEF InitHijackExit
<1>38. CASE ExitFnRestore
  BY <1>38 DEF ExitFnRestore
<1>39. CASE ExitFnDestroyNode
  BY <1>39 DEF ExitFnDestroyNode, DestroyNode
<1>40. CASE ExitFnDestroyEnd
  BY <1>40 DEF ExitFnDestroyEnd, DestroyEnd
<1>41. CASE ExitFnRestoreCustom
  BY <1>41 DEF ExitFnRestoreCustom
<1>42. CASE ExitFnRestoreExit
  BY <1>42 DEF ExitFnRestoreExit
<1>43. CASE UNCHANGED vars
  BY <1>43 DEF vars, rowVars, lockVars, modVars, readVars
<1>. QED
  BY <1>1, <1>2, <1>3, <1>4, <1>5, <1>6, <1>7, <1>8, <1>9, <1>10, <1>11,
     <1>12, <1>13, <1>14, <1>15, <1>16, <1>17, <1>18, <1>19, <1>20, <1>21,
     <1>22, <1>23, <1>24, <1>25, <1>26, <1>27, <1>28, <1>29, <1>30, <1>31,
     <1>32, <1>33, <1>34, <1>35, <1>36, <1>37, <1>38, <1>39, <1>40, <1>41,
     <1>42, <1>43
  DEF Next, Process, Dispatch, Acquire, Advance, LoaderAcquire, LoaderAdvance

\* Every step keeps the types.
LEMMA TypeStep ==
    ASSUME IInv, [Next]_vars
    PROVE  TypeOK'
<1>. USE PidsAssumption, SyscallAssumption, RequestAssumption DEF IInv, TypeOK, Control,
  Goto, rowVars,
    lockVars, modVars, readVars, UserPC, SysPC, ExitPC, IntPC, ModulePC, ModPC, Funcs,
    Free, LOADER, MY_CUSTOM_SYSCALL, Rows, NoReq, HEAD, FREED
<1>1. ASSUME NEW p \in Pids, SyscallOrigExit(p) PROVE TypeOK'
  BY <1>1 DEF SyscallOrigExit
<1>2. ASSUME NEW p \in Pids, SyscallMyExit(p) PROVE TypeOK'
  BY <1>2 DEF SyscallMyExit
<1>3. ASSUME NEW p \in Pids, SyscallCustom(p) PROVE TypeOK'
  <2>1. pc' \in [Pids -> UserPC \cup ModulePC]
    BY <1>3 DEF SyscallCustom
  <2>2. req' \in [Pids -> Requests \cup {NoReq}]
    BY <1>3 DEF SyscallCustom
  <2>3. UNCHANGED <<sct, f, intercepted, monitored, listcount, my_list, listinit,
                    pidlist_lock, calltable_lock, mod, xrow, alive, call, mode, cur>>
    BY <1>3 DEF SyscallCustom
  <2>. QED  BY <2>1, <2>2, <2>3
<1>4. ASSUME NEW p \in Pids, SyscallIntercepted(p) PROVE TypeOK'
  <2>1. pc' \in [Pids -> UserPC \cup ModulePC]
    BY <1>4 DEF SyscallIntercepted
  <2>2. call' \in [Pids -> Rows]
    BY <1>4 DEF SyscallIntercepted
  <2>3. UNCHANGED <<sct, f, intercepted, monitored, listcount, my_list, listinit,
                    pidlist_lock, calltable_lock, mod, xrow, alive, req, mode, cur>>
    BY <1>4 DEF SyscallIntercepted
  <2>. QED  BY <2>1, <2>2, <2>3
<1>5. ASSUME NEW p \in Pids, Fork(p) PROVE TypeOK'
  BY <1>5 DEF Fork
<1>6. ASSUME NEW p \in Pids, SysInvalid(p) PROVE TypeOK'
  BY <1>6 DEF SysInvalid, LockIsFree, Return, valid
<1>7. ASSUME NEW p \in Pids, SysAcquire(p) PROVE TypeOK'
  BY <1>7 DEF SysAcquire, LockIsFree, valid, is_valid_cmd, is_valid_syscall, is_valid_pid
<1>8. ASSUME NEW p \in Pids, ExitAcquire(p) PROVE TypeOK'
  <2>1. /\ pc' \in [Pids -> UserPC \cup ModulePC]
        /\ pidlist_lock' \in Pids \cup {Free, LOADER}
    BY <1>8 DEF ExitAcquire
  <2>2. call' \in [Pids -> Rows]
    BY <1>8 DEF ExitAcquire
  <2>3. UNCHANGED <<sct, f, intercepted, monitored, listcount, my_list, listinit,
                    calltable_lock, mod, xrow, alive, req, mode, cur>>
    BY <1>8 DEF ExitAcquire
  <2>. QED  BY <2>1, <2>2, <2>3
<1>9. ASSUME NEW p \in Pids, WriteTable(p) PROVE TypeOK'
  BY <1>9 DEF WriteTable, Return
<1>10. ASSUME NEW p \in Pids, IntCheck(p) PROVE TypeOK'
  BY <1>10 DEF IntCheck
<1>11. ASSUME NEW p \in Pids, IntWalk(p) PROVE TypeOK'
  <2>1. /\ NextNode(call[p], cur[p]) \in Pids \cup {HEAD}
        /\ \E l \in {"int_walk", "int_log", "int_call"} : pc' = [pc EXCEPT ![p] = l]
    BY <1>11, IntWalkMoves
  <2>2. pc' \in [Pids -> UserPC \cup ModulePC]
    BY <2>1
  <2>3. cur' \in [Pids -> Pids \cup {HEAD, FREED}]
    BY <1>11, <2>1 DEF IntWalk
  <2>4. UNCHANGED <<sct, rowVars, lockVars, modVars, alive, req, call, mode>>
    BY <1>11 DEF IntWalk
  <2>. QED  BY <2>2, <2>3, <2>4
<1>12. ASSUME NEW p \in Pids, IntWalkFreed(p) PROVE TypeOK'
  <2>1. CASE Oops(p)
    BY <1>12, <2>1 DEF IntWalkFreed, Oops
  <2>2. ASSUME NEW l \in {"int_log", "int_call"}, Goto(p, l),
               UNCHANGED <<sct, rowVars, lockVars, modVars, alive, req, readVars>>
        PROVE  TypeOK'
    BY <1>12, <2>2 DEF IntWalkFreed
  <2>. QED  BY <1>12, <2>1, <2>2 DEF IntWalkFreed, Answer
<1>13. ASSUME NEW p \in Pids, IntLog(p) PROVE TypeOK'
  BY <1>13 DEF IntLog
<1>14. ASSUME NEW p \in Pids, IntCall(p) PROVE TypeOK'
  <2>1. pc' \in [Pids -> UserPC \cup ModulePC]
    BY <1>14 DEF IntCall
  <2>2. alive' \in SUBSET Pids
    BY <1>14 DEF IntCall
  <2>3. call' \in [Pids -> Rows]
    BY <1>14 DEF IntCall
  <2>4. mode' \in [Pids -> 0 .. 2]
    BY <1>14 DEF IntCall
  <2>5. cur' \in [Pids -> Pids \cup {HEAD, FREED}]
    BY <1>14 DEF IntCall
  <2>6. UNCHANGED <<sct, f, intercepted, monitored, listcount, my_list, listinit,
                    pidlist_lock, calltable_lock, mod, xrow, req>>
    BY <1>14 DEF IntCall
  <2>. QED  BY <2>1, <2>2, <2>3, <2>4, <2>5, <2>6
<1>15. ASSUME NEW p \in Pids, SysOops(p) PROVE TypeOK'
  BY <1>15 DEF SysOops, Oops
<1>16. ASSUME NEW p \in Pids, SysRefuse(p) PROVE TypeOK'
  BY <1>16 DEF SysRefuse, Return
<1>17. ASSUME NEW p \in Pids, HandleIntercept(p) PROVE TypeOK'
  BY <1>17 DEF HandleIntercept, Accepted
<1>18. ASSUME NEW p \in Pids, HandleRelease(p) PROVE TypeOK'
  BY <1>18 DEF HandleRelease, Accepted
<1>19. ASSUME NEW p \in Pids, ListOops(p) PROVE TypeOK'
  BY <1>19 DEF ListOops, Oops
<1>20. ASSUME NEW p \in Pids, AddPid(p) PROVE TypeOK'
  <2>. DEFINE m == IF req[p].cmd = "START" THEN 1 ELSE monitored[req[p].syscall]
  <2>1. req[p].syscall \in Rows /\ req[p].pid \in Pids /\ m \in 0 .. 2
    <3>1. req[p].syscall \in Rows /\ req[p].pid \in Pids
      BY <1>20 DEF AddPid, Accepted
    <3>2. monitored[req[p].syscall] \in 0 .. 2
      BY <3>1
    <3>. QED  BY <3>1, <3>2
  <2>2. /\ my_list' = [my_list EXCEPT ![req[p].syscall] = <<req[p].pid>> \o @]
        /\ listcount' = [listcount EXCEPT ![req[p].syscall] = @ + 1]
        /\ monitored' = [monitored EXCEPT ![req[p].syscall] = m]
    BY <1>20 DEF AddPid
  <2>. HIDE DEF m
  <2>3. TypeOK
    OBVIOUS
  <2>4. /\ my_list' \in [Rows -> Seq(Pids)]
        /\ listcount' \in [Rows -> Int]
        /\ monitored' \in [Rows -> 0 .. 2]
    BY ONLY <2>1, <2>2, <2>3, AddNodeType
  <2>5. /\ pidlist_lock' \in Pids \cup {Free, LOADER}
        /\ pc' \in [Pids -> UserPC \cup ModulePC]
        /\ req' \in [Pids -> Requests \cup {NoReq}]
    BY <1>20 DEF AddPid, Return
  <2>6. UNCHANGED <<sct, f, intercepted, listinit, calltable_lock, modVars, alive,
                    readVars>>
    BY <1>20 DEF AddPid
  <2>. QED  BY <2>4, <2>5, <2>6
<1>21. ASSUME NEW p \in Pids, AddPidNoMemory(p) PROVE TypeOK'
  BY <1>21 DEF AddPidNoMemory, Accepted, Return
<1>22. ASSUME NEW p \in Pids, DelPid(p) PROVE TypeOK'
  <2>1. req[p].syscall \in Rows /\ req[p].pid \in Pids
    BY <1>22 DEF DelPid, Accepted
  <2>2. /\ my_list' \in [Rows -> Seq(Pids)]
        /\ cur' \in [Pids -> Pids \cup {HEAD, FREED}]
        /\ listcount' \in [Rows -> Int]
        /\ monitored' \in [Rows -> 0 .. 2]
    BY <1>22, <2>1, DelNodeType DEF DelPid
  <2>3. /\ pidlist_lock' \in Pids \cup {Free, LOADER}
        /\ pc' \in [Pids -> UserPC \cup ModulePC]
        /\ req' \in [Pids -> Requests \cup {NoReq}]
    BY <1>22 DEF DelPid, Return
  <2>4. UNCHANGED <<sct, f, intercepted, listinit, calltable_lock, mod, xrow, alive,
                    call, mode>>
    BY <1>22 DEF DelPid
  <2>. QED  BY <2>2, <2>3, <2>4
<1>23. ASSUME NEW p \in Pids, HandleAll(p) PROVE TypeOK'
  BY <1>23 DEF HandleAll, Accepted
<1>24. ASSUME NEW p \in Pids, SysDestroyNode(p) PROVE TypeOK'
  <2>1. /\ my_list' \in [Rows -> Seq(Pids)]
        /\ cur' \in [Pids -> Pids \cup {HEAD, FREED}]
    BY <1>24, DestroyNodeType DEF SysDestroyNode
  <2>2. UNCHANGED <<sct, f, intercepted, monitored, listcount, listinit, pidlist_lock,
                    calltable_lock, mod, xrow, alive, pc, req, call, mode>>
    BY <1>24 DEF SysDestroyNode
  <2>. QED  BY <2>1, <2>2
<1>25. ASSUME NEW p \in Pids, SysDestroyEnd(p) PROVE TypeOK'
  <2>1. listcount' \in [Rows -> Int]
    BY <1>25 DEF SysDestroyEnd, DestroyEnd
  <2>2. monitored' \in [Rows -> 0 .. 2]
    BY <1>25 DEF SysDestroyEnd, DestroyEnd
  <2>3. /\ pidlist_lock' \in Pids \cup {Free, LOADER}
        /\ pc' \in [Pids -> UserPC \cup ModulePC]
        /\ req' \in [Pids -> Requests \cup {NoReq}]
    BY <1>25 DEF SysDestroyEnd, Return
  <2>4. UNCHANGED <<sct, f, intercepted, my_list, listinit, calltable_lock, mod, xrow,
                    alive, call, mode, cur>>
    BY <1>25 DEF SysDestroyEnd
  <2>. QED  BY <2>1, <2>2, <2>3, <2>4
<1>26. ASSUME NEW p \in Pids, SysMonitorAll(p) PROVE TypeOK'
  <2>1. monitored' \in [Rows -> 0 .. 2]
    BY <1>26 DEF SysMonitorAll
  <2>2. /\ pidlist_lock' \in Pids \cup {Free, LOADER}
        /\ pc' \in [Pids -> UserPC \cup ModulePC]
        /\ req' \in [Pids -> Requests \cup {NoReq}]
    BY <1>26 DEF SysMonitorAll, Return
  <2>3. UNCHANGED <<sct, f, intercepted, listcount, my_list, listinit, calltable_lock,
                    mod, xrow, alive, call, mode, cur>>
    BY <1>26 DEF SysMonitorAll
  <2>. QED  BY <2>1, <2>2, <2>3
<1>27. ASSUME NEW p \in Pids, ExitOops(p) PROVE TypeOK'
  BY <1>27 DEF ExitOops, Oops
<1>28. ASSUME NEW p \in Pids, ExitDelNode(p) PROVE TypeOK'
  <2>1. /\ my_list' \in [Rows -> Seq(Pids)]
        /\ cur' \in [Pids -> Pids \cup {HEAD, FREED}]
        /\ listcount' \in [Rows -> Int]
        /\ monitored' \in [Rows -> 0 .. 2]
    BY <1>28, DelNodeType DEF ExitDelNode
  <2>2. UNCHANGED <<sct, f, intercepted, listinit, pidlist_lock, calltable_lock, mod,
                    xrow, alive, pc, req, call, mode>>
    BY <1>28 DEF ExitDelNode
  <2>. QED  BY <2>1, <2>2
<1>29. ASSUME NEW p \in Pids, ExitNextRow(p) PROVE TypeOK'
  <2>1. call[p] + 1 \in Rows
    BY <1>29 DEF ExitNextRow
  <2>2. call' \in [Pids -> Rows]
    BY <1>29, <2>1 DEF ExitNextRow
  <2>3. UNCHANGED <<sct, f, intercepted, monitored, listcount, my_list, listinit,
                    pidlist_lock, calltable_lock, mod, xrow, alive, pc, req, mode, cur>>
    BY <1>29 DEF ExitNextRow
  <2>. QED  BY <2>2, <2>3
<1>30. ASSUME NEW p \in Pids, ExitUnlock(p) PROVE TypeOK'
  <2>1. /\ pc' \in [Pids -> UserPC \cup ModulePC]
        /\ pidlist_lock' \in Pids \cup {Free, LOADER}
    BY <1>30 DEF ExitUnlock
  <2>2. call' \in [Pids -> Rows]
    BY <1>30 DEF ExitUnlock
  <2>3. UNCHANGED <<sct, f, intercepted, monitored, listcount, my_list, listinit,
                    calltable_lock, mod, xrow, alive, req, mode, cur>>
    BY <1>30 DEF ExitUnlock
  <2>. QED  BY <2>1, <2>2, <2>3
<1>31. ASSUME NEW p \in Pids, ExitOrig(p) PROVE TypeOK'
  BY <1>31 DEF ExitOrig
<1>32. ASSUME NEW p \in Pids, UnloadedFault(p) PROVE TypeOK'
  BY <1>32 DEF UnloadedFault, Oops
<1>33. CASE InitHijackCustom
  BY <1>33 DEF InitHijackCustom
<1>34. CASE InitRows
  BY <1>34 DEF InitRows, LockIsFree
<1>35. CASE ExitFnLockTable
  BY <1>35 DEF ExitFnLockTable
<1>36. CASE ExitFnLockPids
  BY <1>36 DEF ExitFnLockPids, LockIsFree
<1>37. CASE InitHijackExit
  BY <1>37 DEF InitHijackExit
<1>38. CASE ExitFnRestore
  BY <1>38 DEF ExitFnRestore
<1>39. CASE ExitFnDestroyNode
  <2>1. /\ my_list' \in [Rows -> Seq(Pids)]
        /\ cur' \in [Pids -> Pids \cup {HEAD, FREED}]
    BY <1>39, DestroyNodeType DEF ExitFnDestroyNode
  <2>2. UNCHANGED <<sct, f, intercepted, monitored, listcount, listinit, pidlist_lock,
                    calltable_lock, mod, xrow, alive, pc, req, call, mode>>
    BY <1>39 DEF ExitFnDestroyNode
  <2>. QED  BY <2>1, <2>2
<1>40. CASE ExitFnDestroyEnd
  <2>1. listcount' \in [Rows -> Int]
    BY <1>40 DEF ExitFnDestroyEnd, DestroyEnd
  <2>2. monitored' \in [Rows -> 0 .. 2]
    BY <1>40 DEF ExitFnDestroyEnd, DestroyEnd
  <2>3. xrow' \in 0 .. NR_syscalls + 1
    BY <1>40 DEF ExitFnDestroyEnd
  <2>4. mod' \in ModPC
    BY <1>40 DEF ExitFnDestroyEnd
  <2>5. UNCHANGED <<sct, f, intercepted, my_list, listinit, pidlist_lock, calltable_lock,
                    alive, pc, req, call, mode, cur>>
    BY <1>40 DEF ExitFnDestroyEnd
  <2>. QED  BY <2>1, <2>2, <2>3, <2>4, <2>5
<1>41. CASE ExitFnRestoreCustom
  BY <1>41 DEF ExitFnRestoreCustom
<1>42. CASE ExitFnRestoreExit
  BY <1>42 DEF ExitFnRestoreExit
<1>43. CASE UNCHANGED vars
  BY <1>43 DEF vars, rowVars, lockVars, modVars, readVars
<1>. QED
  BY <1>1, <1>2, <1>3, <1>4, <1>5, <1>6, <1>7, <1>8, <1>9, <1>10, <1>11,
     <1>12, <1>13, <1>14, <1>15, <1>16, <1>17, <1>18, <1>19, <1>20, <1>21,
     <1>22, <1>23, <1>24, <1>25, <1>26, <1>27, <1>28, <1>29, <1>30, <1>31,
     <1>32, <1>33, <1>34, <1>35, <1>36, <1>37, <1>38, <1>39, <1>40, <1>41,
     <1>42, <1>43
  DEF Next, Process, Dispatch, Acquire, Advance, LoaderAcquire, LoaderAdvance

\* A step of a process that is not writing the table, and does not start to,
\* keeps Tables.
LEMMA TablesFrame ==
    ASSUME IInv, NEW p \in Pids,
           pc[p] \notin {"sys_table", "oops"}, pc'[p] # "sys_table",
           \A q \in Pids \ {p} : pc'[q] = pc[q] /\ req'[q] = req[q],
           UNCHANGED <<sct, f, intercepted, mod, xrow>>,
           pidlist_lock' = pidlist_lock \/ pidlist_lock \in {p, Free}
    PROVE  Tables'
<1>. SUFFICES ASSUME NEW s \in Rows PROVE Entry(s)'
  BY DEF Tables
<1>1. Entry(s)
  BY DEF IInv, Tables
<1>2. Releasing(s) => Releasing(s)'
  BY PidsAssumption DEF Releasing, Free
<1>3. \A q \in Pids : /\ pc'[q] = "sys_table" <=> pc[q] = "sys_table"
                      /\ pc[q] = "sys_table" => req'[q] = req[q]
  OBVIOUS
<1>. QED  BY <1>1, <1>2, <1>3 DEF Entry

\* Every step keeps Tables.
LEMMA TablesStep ==
    ASSUME IInv, [Next]_vars
    PROVE  Tables'
<1>. USE PidsAssumption, SyscallAssumption DEF Goto, rowVars, lockVars, modVars, readVars,
  ModulePC, SysPC, ExitPC, IntPC
<1>a. TypeOK /\ Control
  BY DEF IInv
<1>1. ASSUME NEW p \in Pids, SyscallOrigExit(p) PROVE Tables'
  BY <1>1, <1>a, TablesFrame DEF SyscallOrigExit, TypeOK, Control, CriticalPC
<1>2. ASSUME NEW p \in Pids, SyscallMyExit(p) PROVE Tables'
  BY <1>2, <1>a, TablesFrame DEF SyscallMyExit, TypeOK, Control, CriticalPC
<1>3. ASSUME NEW p \in Pids, SyscallCustom(p) PROVE Tables'
  BY <1>3, <1>a, TablesFrame DEF SyscallCustom, TypeOK, Control, CriticalPC
<1>4. ASSUME NEW p \in Pids, SyscallIntercepted(p) PROVE Tables'
  BY <1>4, <1>a, TablesFrame DEF SyscallIntercepted, TypeOK, Control, CriticalPC
<1>5. ASSUME NEW p \in Pids, Fork(p) PROVE Tables'
  BY <1>5, <1>a, TablesFrame DEF Fork, TypeOK, Control, CriticalPC
<1>6. ASSUME NEW p \in Pids, SysInvalid(p) PROVE Tables'
  BY <1>6, <1>a, TablesFrame DEF SysInvalid, LockIsFree, Return, valid, TypeOK, Control,
    CriticalPC
<1>7. ASSUME NEW p \in Pids, SysAcquire(p) PROVE Tables'
  BY <1>7, <1>a, TablesFrame DEF SysAcquire, LockIsFree, valid, is_valid_cmd,
    is_valid_syscall, is_valid_pid, TypeOK, Control, CriticalPC
<1>8. ASSUME NEW p \in Pids, ExitAcquire(p) PROVE Tables'
  BY <1>8, <1>a, TablesFrame DEF ExitAcquire, LockIsFree, TypeOK, Control, CriticalPC
<1>9. ASSUME NEW p \in Pids, WriteTable(p) PROVE Tables'
  <2>. SUFFICES ASSUME NEW s \in Rows PROVE Entry(s)'
    BY DEF Tables
  <2>. DEFINE r == req[p].syscall
  <2>0. Entry(s)
    BY DEF IInv, Tables
  <2>1. /\ pc[p] = "sys_table" /\ pidlist_lock = p /\ r \in Rows
        /\ req[p].cmd \in {"INTERCEPT", "RELEASE"}
        /\ \A q \in Pids : pc[q] = "sys_table" => q = p
    BY <1>9, <1>a DEF WriteTable, Control, CriticalPC
  <2>5. mod \in {"in", "gone"}
    <3>1. mod # "out"
      BY <1>9, <1>a DEF WriteTable, Control, UserPC
    <3>2. mod \notin {"init_exit", "init_rows", "exit_lock"} \cup LoaderLocked
      BY <1>9, <1>a DEF WriteTable, Control, Free, LOADER
    <3>. QED  BY <1>a, <3>1, <3>2 DEF TypeOK, ModPC, LoaderLocked
  <2>2. /\ \A q \in Pids : pc'[q] # "sys_table"
        /\ sct'[s] = (IF s = r THEN IF req[p].cmd = "INTERCEPT" THEN "interceptor" ELSE f[r]
                               ELSE sct[s])
        /\ UNCHANGED <<f, intercepted, mod, xrow>>
    BY <1>9, <1>a, <2>1 DEF WriteTable, Return, TypeOK
  <2>3. s # r => ~Releasing(s)
    BY <2>1 DEF Releasing
  <2>4. s = r => (intercepted[s] <=> req[p].cmd = "INTERCEPT")
    BY <2>0, <2>1 DEF Entry
  <2>. QED  BY <2>0, <2>1, <2>2, <2>3, <2>4, <2>5 DEF Entry, LoaderLocked
<1>10. ASSUME NEW p \in Pids, IntCheck(p) PROVE Tables'
  BY <1>10, <1>a, TablesFrame DEF IntCheck, TypeOK, Control, CriticalPC
<1>11. ASSUME NEW p \in Pids, IntWalk(p) PROVE Tables'
  <2>1. \E l \in {"int_walk", "int_log", "int_call"} : pc' = [pc EXCEPT ![p] = l]
    BY <1>11, IntWalkMoves DEF IInv
  <2>2. pc[p] = "int_walk" /\ UNCHANGED <<sct, rowVars, lockVars, modVars, req>>
    BY <1>11 DEF IntWalk
  <2>. QED  BY <1>a, <2>1, <2>2, TablesFrame DEF TypeOK
<1>12. ASSUME NEW p \in Pids, IntWalkFreed(p) PROVE Tables'
  BY <1>12, <1>a, TablesFrame DEF IntWalkFreed, Oops, Answer, TypeOK, Control, CriticalPC
<1>13. ASSUME NEW p \in Pids, IntLog(p) PROVE Tables'
  BY <1>13, <1>a, TablesFrame DEF IntLog, TypeOK, Control, CriticalPC
<1>14. ASSUME NEW p \in Pids, IntCall(p) PROVE Tables'
  BY <1>14, <1>a, TablesFrame DEF IntCall, TypeOK, Control, CriticalPC
<1>15. ASSUME NEW p \in Pids, SysOops(p) PROVE Tables'
  BY <1>15, <1>a, TablesFrame DEF SysOops, Oops, TypeOK, Control, CriticalPC
<1>16. ASSUME NEW p \in Pids, SysRefuse(p) PROVE Tables'
  BY <1>16, <1>a, TablesFrame DEF SysRefuse, Return, TypeOK, Control, CriticalPC
<1>17. ASSUME NEW p \in Pids, HandleIntercept(p) PROVE Tables'
  <2>. SUFFICES ASSUME NEW s \in Rows PROVE Entry(s)'
    BY DEF Tables
  <2>. DEFINE r == req[p].syscall
  <2>0. Entry(s)
    BY DEF IInv, Tables
  <2>1. /\ pc[p] = "sys_perm" /\ pidlist_lock = p /\ mod \notin LoaderLocked
        /\ \A q \in Pids : pc[q] # "sys_table"
        /\ r \in Rows /\ req[p].cmd = "INTERCEPT" /\ ~intercepted[r]
    BY <1>17, <1>a DEF HandleIntercept, Accepted, permitted, is_busy, Control, CriticalPC,
      LOADER
  <2>2. /\ pidlist_lock' = p /\ pc'[p] = "sys_table"
        /\ \A q \in Pids : pc'[q] = "sys_table" <=> q = p
        /\ intercepted'[s] = (IF s = r THEN TRUE ELSE intercepted[s])
        /\ f'[s] = (IF s = r THEN sct[r] ELSE f[s])
        /\ UNCHANGED <<sct, mod, xrow, req>>
    BY <1>17, <1>a, <2>1 DEF HandleIntercept, TypeOK
  <2>3. ~Releasing(s)
    BY <2>1 DEF Releasing
  <2>. QED  BY <2>0, <2>1, <2>2, <2>3 DEF Entry
<1>18. ASSUME NEW p \in Pids, HandleRelease(p) PROVE Tables'
  <2>. SUFFICES ASSUME NEW s \in Rows PROVE Entry(s)'
    BY DEF Tables
  <2>. DEFINE r == req[p].syscall
  <2>0. Entry(s)
    BY DEF IInv, Tables
  <2>1. /\ pc[p] = "sys_perm" /\ pidlist_lock = p /\ mod \notin LoaderLocked
        /\ \A q \in Pids : pc[q] # "sys_table"
        /\ r \in Rows /\ req[p].cmd = "RELEASE"
    BY <1>18, <1>a DEF HandleRelease, Accepted, Control, CriticalPC, LOADER
  <2>2. /\ pidlist_lock' = p /\ pc'[p] = "sys_table"
        /\ \A q \in Pids : pc'[q] = "sys_table" <=> q = p
        /\ intercepted'[s] = (IF s = r THEN FALSE ELSE intercepted[s])
        /\ UNCHANGED <<sct, f, mod, xrow, req>>
    BY <1>18, <1>a, <2>1 DEF HandleRelease, TypeOK
  <2>3. ~Releasing(s)
    BY <2>1 DEF Releasing
  <2>4. s = r => Releasing(s)'
    BY <2>1, <2>2 DEF Releasing
  <2>. QED  BY <2>0, <2>1, <2>2, <2>3, <2>4 DEF Entry
<1>19. ASSUME NEW p \in Pids, ListOops(p) PROVE Tables'
  BY <1>19, <1>a, TablesFrame DEF ListOops, Accepted, Oops, TypeOK, Control, CriticalPC
<1>20. ASSUME NEW p \in Pids, AddPid(p) PROVE Tables'
  BY <1>20, <1>a, TablesFrame DEF AddPid, Accepted, Return, TypeOK, Control, CriticalPC
<1>21. ASSUME NEW p \in Pids, AddPidNoMemory(p) PROVE Tables'
  BY <1>21, <1>a, TablesFrame DEF AddPidNoMemory, Accepted, Return, TypeOK, Control,
    CriticalPC
<1>22. ASSUME NEW p \in Pids, DelPid(p) PROVE Tables'
  BY <1>22, <1>a, TablesFrame DEF DelPid, Accepted, Return, TypeOK, Control, CriticalPC
<1>23. ASSUME NEW p \in Pids, HandleAll(p) PROVE Tables'
  BY <1>23, <1>a, TablesFrame DEF HandleAll, Accepted, TypeOK, Control, CriticalPC
<1>24. ASSUME NEW p \in Pids, SysDestroyNode(p) PROVE Tables'
  BY <1>24, <1>a, TablesFrame DEF SysDestroyNode, DestroyNode, TypeOK, Control, CriticalPC
<1>25. ASSUME NEW p \in Pids, SysDestroyEnd(p) PROVE Tables'
  BY <1>25, <1>a, TablesFrame DEF SysDestroyEnd, Return, TypeOK, Control, CriticalPC
<1>26. ASSUME NEW p \in Pids, SysMonitorAll(p) PROVE Tables'
  BY <1>26, <1>a, TablesFrame DEF SysMonitorAll, Return, TypeOK, Control, CriticalPC
<1>27. ASSUME NEW p \in Pids, ExitOops(p) PROVE Tables'
  BY <1>27, <1>a, TablesFrame DEF ExitOops, Oops, TypeOK, Control, CriticalPC
<1>28. ASSUME NEW p \in Pids, ExitDelNode(p) PROVE Tables'
  BY <1>28, <1>a, TablesFrame DEF ExitDelNode, DelNode, TypeOK, Control, CriticalPC
<1>29. ASSUME NEW p \in Pids, ExitNextRow(p) PROVE Tables'
  BY <1>29, <1>a, TablesFrame DEF ExitNextRow, TypeOK, Control, CriticalPC
<1>30. ASSUME NEW p \in Pids, ExitUnlock(p) PROVE Tables'
  BY <1>30, <1>a, TablesFrame DEF ExitUnlock, TypeOK, Control, CriticalPC
<1>31. ASSUME NEW p \in Pids, ExitOrig(p) PROVE Tables'
  BY <1>31, <1>a, TablesFrame DEF ExitOrig, TypeOK, Control, CriticalPC
<1>32. ASSUME NEW p \in Pids, UnloadedFault(p) PROVE Tables'
  BY <1>32, <1>a DEF UnloadedFault, Oops, IInv, TypeOK, Control, Tables, Entry, Releasing,
    CriticalPC, LoaderLocked, Free, LOADER, MY_CUSTOM_SYSCALL, Rows
<1>33. CASE InitHijackCustom
  BY <1>33, <1>a DEF InitHijackCustom, IInv, TypeOK, Control, Tables, Entry, Releasing,
    CriticalPC, LoaderLocked, Free, LOADER, MY_CUSTOM_SYSCALL, Rows
<1>34. CASE InitRows
  <2>. SUFFICES ASSUME NEW s \in Rows PROVE Entry(s)'
    BY DEF Tables
  <2>0. Entry(s)
    BY DEF IInv, Tables
  <2>1. \A q \in Pids : pc'[q] # "sys_table"
    BY <1>34, <1>a DEF InitRows, LockIsFree, Control, CriticalPC, Free
  <2>2. /\ sct[s] = Hijacked[s] /\ sct'[s] = sct[s] /\ f'[s] = sct[s]
        /\ intercepted'[s] = FALSE /\ mod' = "in"
    BY <1>34, <2>0 DEF InitRows, Entry
  <2>. QED  BY <2>1, <2>2, HijackedFacts DEF Entry
<1>35. CASE ExitFnLockTable
  BY <1>35, <1>a DEF ExitFnLockTable, IInv, TypeOK, Control, Tables, Entry, Releasing,
    CriticalPC, LoaderLocked, Free, LOADER, MY_CUSTOM_SYSCALL, Rows
<1>36. CASE ExitFnLockPids
  BY <1>36, <1>a DEF ExitFnLockPids, LockIsFree, IInv, TypeOK, Control, Tables, Entry,
    Releasing,
    CriticalPC, LoaderLocked, Free, LOADER, MY_CUSTOM_SYSCALL, Rows
<1>37. CASE InitHijackExit
  <2>. SUFFICES ASSUME NEW s \in Rows PROVE Entry(s)'
    BY DEF Tables
  <2>0. Entry(s)
    BY DEF IInv, Tables
  <2>1. sct'[s] = Hijacked[s]
    BY <1>37, <1>a, <2>0, HijackedFacts DEF InitHijackExit, Entry, TypeOK
  <2>2. /\ mod' = "init_rows" /\ UNCHANGED <<f, intercepted, pc, req>>
    BY <1>37 DEF InitHijackExit
  <2>. QED  BY <2>0, <2>1, <2>2, HijackedFacts DEF Entry, LoaderLocked
<1>38. CASE ExitFnRestore
  BY <1>38, <1>a DEF ExitFnRestore, IInv, TypeOK, Control, Tables, Entry, Releasing,
    CriticalPC, LoaderLocked, Free, LOADER, MY_CUSTOM_SYSCALL, Rows
<1>39. CASE ExitFnDestroyNode
  BY <1>39, <1>a DEF ExitFnDestroyNode, DestroyNode, IInv, TypeOK, Control, Tables, Entry,
    Releasing,
    CriticalPC, LoaderLocked, Free, LOADER, MY_CUSTOM_SYSCALL, Rows
<1>40. CASE ExitFnDestroyEnd
  <2>. SUFFICES ASSUME NEW s \in Rows PROVE Entry(s)'
    BY DEF Tables
  <2>0. Entry(s)
    BY DEF IInv, Tables
  <2>1. /\ mod = "exit_destroy" /\ mod' = "exit_row" /\ xrow' = xrow + 1
        /\ UNCHANGED <<sct, f, intercepted, pidlist_lock, pc, req>>
    BY <1>40 DEF ExitFnDestroyEnd
  <2>2. s < xrow' => s <= xrow
    BY <1>a, <2>1 DEF Rows, TypeOK
  <2>3. Releasing(s) => Releasing(s)'
    BY <2>1 DEF Releasing
  <2>. QED  BY <2>0, <2>1, <2>2, <2>3 DEF Entry, LoaderLocked
<1>41. CASE ExitFnRestoreCustom
  BY <1>41, <1>a DEF ExitFnRestoreCustom, IInv, TypeOK, Control, Tables, Entry, Releasing,
    CriticalPC, LoaderLocked, Free, LOADER, MY_CUSTOM_SYSCALL, Rows
<1>42. CASE ExitFnRestoreExit
  BY <1>42, <1>a DEF ExitFnRestoreExit, IInv, TypeOK, Control, Tables, Entry, Releasing,
    CriticalPC, LoaderLocked, Free, LOADER, MY_CUSTOM_SYSCALL, Rows
<1>43. CASE UNCHANGED vars
  BY <1>43 DEF IInv, Tables, Entry, Releasing, vars, rowVars, lockVars, modVars, readVars
<1>. QED
  BY <1>1, <1>2, <1>3, <1>4, <1>5, <1>6, <1>7, <1>8, <1>9, <1>10, <1>11,
     <1>12, <1>13, <1>14, <1>15, <1>16, <1>17, <1>18, <1>19, <1>20, <1>21,
     <1>22, <1>23, <1>24, <1>25, <1>26, <1>27, <1>28, <1>29, <1>30, <1>31,
     <1>32, <1>33, <1>34, <1>35, <1>36, <1>37, <1>38, <1>39, <1>40, <1>41,
     <1>42, <1>43
  DEF Next, Process, Dispatch, Acquire, Advance, LoaderAcquire, LoaderAdvance

-----------------------------------------------------------------------------
(* Lists and the readers in them *)

\* A step that leaves the lists alone and moves no reader along one.
LEMMA CursorsFrame ==
    ASSUME Cursors, UNCHANGED my_list,
           \A q \in Pids : pc'[q] = "int_walk" =>
              \/ pc[q] = "int_walk" /\ call'[q] = call[q] /\ cur'[q] = cur[q]
              \/ cur'[q] \notin Pids
    PROVE  Cursors'
BY DEF Cursors, Listed

\* Freeing a node takes the readers on it off it, and keeps the others listed.
LEMMA FreeKeepsCursors ==
    ASSUME TypeOK, Cursors, NEW s \in Rows, NEW q \in Pids,
           cur' = CursAfterFree(s, q), UNCHANGED call,
           \A p \in Pids : pc'[p] = "int_walk" => pc[p] = "int_walk",
           \A t \in Rows \ {s} : my_list'[t] = my_list[t],
           \A c \in Pids \ {q} : Listed(s, c) => Listed(s, c)'
    PROVE  Cursors'
<1>. SUFFICES ASSUME NEW p \in Pids, pc'[p] = "int_walk", cur'[p] \in Pids
              PROVE  Listed(call[p], cur[p])'
  BY DEF Cursors
<1>1. cur'[p] = cur[p] /\ ~(call[p] = s /\ cur[p] = q)
  BY PidsAssumption DEF CursAfterFree, FREED
<1>2. Listed(call[p], cur[p])
  BY <1>1 DEF Cursors
<1>3. CASE call[p] = s
  BY <1>1, <1>2, <1>3 DEF Listed
<1>4. CASE call[p] # s
  BY <1>1, <1>2, <1>4 DEF Listed, TypeOK
<1>. QED  BY <1>3, <1>4

\* del_pid_sysc takes one node out of one row and keeps the other pids listed.
LEMMA DelNodeFacts ==
    ASSUME TypeOK, NEW s \in Rows, NEW q \in Pids, Listed(s, q), DelNode(s, q)
    PROVE  /\ \A t \in Rows \ {s} : my_list'[t] = my_list[t]
           /\ \A c \in Pids \ {q} : Listed(s, c) => Listed(s, c)'
           /\ Len(my_list'[s]) = Len(my_list[s]) - 1
           /\ Len(my_list[s]) \in Nat \ {0}
           /\ NoDuplicates(my_list[s]) => NoDuplicates(my_list'[s])
<1>. DEFINE l == my_list[s]  i == Position(s, q)
<1>1. l \in Seq(Pids) /\ i \in 1 .. Len(l) /\ l[i] = q
  BY PositionFacts DEF TypeOK
<1>2. my_list'[s] = DropAt(l, i) /\ \A t \in Rows \ {s} : my_list'[t] = my_list[t]
  BY DEF DelNode, TypeOK
<1>. HIDE DEF l, i
<1>3. ASSUME NEW c \in Pids \ {q}, Listed(s, c) PROVE Listed(s, c)'
  <2>1. PICK k \in 1 .. Len(l) : l[k] = c
    BY <1>3 DEF Listed, l
  <2>2. \E j \in 1 .. Len(DropAt(l, i)) : DropAt(l, i)[j] = c
    BY <1>1, <2>1, DropAtKeeps
  <2>. QED  BY <1>2, <2>2 DEF Listed
<1>4. Len(my_list'[s]) = Len(l) - 1 /\ Len(l) \in Nat \ {0}
  BY <1>1, <1>2, DropAtFacts
<1>5. NoDuplicates(l) => NoDuplicates(my_list'[s])
  BY <1>1, <1>2, DropAtNoDuplicates
<1>. QED  BY <1>2, <1>3, <1>4, <1>5 DEF l

\* So does one iteration of destroy_list, for the first node.
LEMMA DestroyNodeFacts ==
    ASSUME TypeOK, NEW s \in Rows, DestroyNode(s)
    PROVE  /\ \A t \in Rows \ {s} : my_list'[t] = my_list[t]
           /\ \A c \in Pids \ {Head(my_list[s])} : Listed(s, c) => Listed(s, c)'
           /\ Head(my_list[s]) \in Pids
           /\ NoDuplicates(my_list[s]) => NoDuplicates(my_list'[s])
<1>. DEFINE l == my_list[s]
<1>1. l \in Seq(Pids) /\ l # << >>
  BY DEF TypeOK, DestroyNode
<1>2. my_list'[s] = Tail(l) /\ \A t \in Rows \ {s} : my_list'[t] = my_list[t]
  BY DEF DestroyNode, TypeOK
<1>. HIDE DEF l
<1>3. /\ Head(l) \in Pids /\ Head(l) = l[1]
      /\ Len(my_list'[s]) = Len(l) - 1 /\ Len(l) \in Nat \ {0}
      /\ \A j \in 1 .. Len(l) - 1 : my_list'[s][j] = l[j + 1]
  BY <1>1, <1>2, TailFacts
<1>4. ASSUME NEW c \in Pids \ {Head(l)}, Listed(s, c) PROVE Listed(s, c)'
  <2>1. PICK k \in 1 .. Len(l) : l[k] = c
    BY <1>4 DEF Listed, l
  <2>2. k # 1 /\ k - 1 \in 1 .. Len(my_list'[s]) /\ my_list'[s][k - 1] = c
    BY <1>3, <2>1
  <2>. QED  BY <2>2 DEF Listed
<1>5. NoDuplicates(l) => NoDuplicates(my_list'[s])
  BY <1>3 DEF NoDuplicates
<1>. QED  BY <1>2, <1>3, <1>4, <1>5 DEF l

\* Every step keeps Cursors.
LEMMA CursorsStep ==
    ASSUME IInv, [Next]_vars
    PROVE  Cursors'
<1>. USE PidsAssumption DEF Goto, rowVars, lockVars, modVars, readVars, IntPC
<1>a. TypeOK /\ Control /\ Cursors
  BY DEF IInv
<1>1. ASSUME NEW p \in Pids, SyscallOrigExit(p) PROVE Cursors'
  BY <1>1, <1>a, CursorsFrame DEF SyscallOrigExit, TypeOK
<1>2. ASSUME NEW p \in Pids, SyscallMyExit(p) PROVE Cursors'
  BY <1>2, <1>a, CursorsFrame DEF SyscallMyExit, TypeOK
<1>3. ASSUME NEW p \in Pids, SyscallCustom(p) PROVE Cursors'
  BY <1>3, <1>a, CursorsFrame DEF SyscallCustom, TypeOK
<1>4. ASSUME NEW p \in Pids, SyscallIntercepted(p) PROVE Cursors'
  BY <1>4, <1>a, CursorsFrame DEF SyscallIntercepted, TypeOK
<1>5. ASSUME NEW p \in Pids, Fork(p) PROVE Cursors'
  BY <1>5, <1>a, CursorsFrame DEF Fork, TypeOK
<1>6. ASSUME NEW p \in Pids, SysInvalid(p) PROVE Cursors'
  BY <1>6, <1>a, CursorsFrame DEF SysInvalid, LockIsFree, Return, valid, TypeOK
<1>7. ASSUME NEW p \in Pids, SysAcquire(p) PROVE Cursors'
  BY <1>7, <1>a, CursorsFrame DEF SysAcquire, LockIsFree, valid, is_valid_cmd,
    is_valid_syscall, is_valid_pid, TypeOK
<1>8. ASSUME NEW p \in Pids, ExitAcquire(p) PROVE Cursors'
  BY <1>8, <1>a, CursorsFrame DEF ExitAcquire, LockIsFree, TypeOK
<1>9. ASSUME NEW p \in Pids, WriteTable(p) PROVE Cursors'
  BY <1>9, <1>a, CursorsFrame DEF WriteTable, Return, TypeOK
<1>10. ASSUME NEW p \in Pids, IntCheck(p) PROVE Cursors'
  BY <1>10, <1>a, CursorsFrame DEF IntCheck, TypeOK, HEAD
<1>11. ASSUME NEW p \in Pids, IntWalk(p) PROVE Cursors'
  <2>1. /\ NextNode(call[p], cur[p]) \in Pids \cup {HEAD}
        /\ NextNode(call[p], cur[p]) # HEAD =>
              Listed(call[p], NextNode(call[p], cur[p]))
    BY <1>11, <1>a, IntWalkMoves
  <2>2. \A q \in Pids : pc'[q] = "int_walk" => pc[q] = "int_walk"
    BY <1>11, <1>a, IntWalkMoves DEF IntWalk, TypeOK
  <2>3. UNCHANGED <<my_list, call>>
    BY <1>11 DEF IntWalk
  <2>4. CASE cur[p] = p
    BY <1>11, <1>a, <2>2, <2>3, <2>4, CursorsFrame DEF IntWalk
  <2>5. CASE cur[p] # p
    <3>1. /\ cur'[p] = NextNode(call[p], cur[p])
          /\ \A q \in Pids \ {p} : cur'[q] = cur[q]
      BY <1>11, <1>a, <2>5 DEF IntWalk, TypeOK
    <3>2. ASSUME NEW q \in Pids, pc'[q] = "int_walk", cur'[q] \in Pids
          PROVE  Listed(call[q], cur[q])'
      <4>1. Listed(call[q], cur'[q])
        BY <1>a, <2>1, <2>2, <3>1, <3>2 DEF Cursors, HEAD
      <4>. QED  BY <2>3, <4>1 DEF Listed
    <3>. QED  BY <3>2 DEF Cursors
  <2>. QED  BY <2>4, <2>5
<1>12. ASSUME NEW p \in Pids, IntWalkFreed(p) PROVE Cursors'
  BY <1>12, <1>a, CursorsFrame DEF IntWalkFreed, Oops, Answer, TypeOK
<1>13. ASSUME NEW p \in Pids, IntLog(p) PROVE Cursors'
  BY <1>13, <1>a, CursorsFrame DEF IntLog, TypeOK
<1>14. ASSUME NEW p \in Pids, IntCall(p) PROVE Cursors'
  BY <1>14, <1>a, CursorsFrame DEF IntCall, TypeOK
<1>15. ASSUME NEW p \in Pids, SysOops(p) PROVE Cursors'
  BY <1>15, <1>a, CursorsFrame DEF SysOops, Oops, TypeOK
<1>16. ASSUME NEW p \in Pids, SysRefuse(p) PROVE Cursors'
  BY <1>16, <1>a, CursorsFrame DEF SysRefuse, Return, TypeOK
<1>17. ASSUME NEW p \in Pids, HandleIntercept(p) PROVE Cursors'
  BY <1>17, <1>a, CursorsFrame DEF HandleIntercept, Accepted, TypeOK
<1>18. ASSUME NEW p \in Pids, HandleRelease(p) PROVE Cursors'
  BY <1>18, <1>a, CursorsFrame DEF HandleRelease, Accepted, TypeOK
<1>19. ASSUME NEW p \in Pids, ListOops(p) PROVE Cursors'
  BY <1>19, <1>a, CursorsFrame DEF ListOops, Accepted, Oops, TypeOK
<1>20. ASSUME NEW p \in Pids, AddPid(p) PROVE Cursors'
  <2>. DEFINE s == req[p].syscall
  <2>1. /\ my_list' = [my_list EXCEPT ![s] = <<req[p].pid>> \o @]
        /\ s \in Rows /\ req[p].pid \in Pids /\ UNCHANGED <<call, cur>>
        /\ \A q \in Pids : pc'[q] = "int_walk" => pc[q] = "int_walk"
    BY <1>20, <1>a DEF AddPid, Accepted, Return, Control, TypeOK
  <2>2. ASSUME NEW t \in Rows, NEW c \in Pids, Listed(t, c) PROVE Listed(t, c)'
    <3>1. CASE t = s
      <4>1. my_list[s] \in Seq(Pids) /\ my_list'[s] = <<req[p].pid>> \o my_list[s]
        BY <1>a, <2>1 DEF TypeOK
      <4>2. PICK k \in 1 .. Len(my_list[s]) : my_list[s][k] = c
        BY <2>2, <3>1 DEF Listed
      <4>3. /\ k + 1 \in 1 .. Len(my_list'[s])
            /\ my_list'[s][k + 1] = c
        BY <2>1, <4>1, <4>2, ConsFacts
      <4>. QED  BY <3>1, <4>3 DEF Listed
    <3>2. CASE t # s
      BY <1>a, <2>1, <2>2, <3>2 DEF Listed, TypeOK
    <3>. QED  BY <3>1, <3>2
  <2>. QED  BY <1>a, <2>1, <2>2 DEF Cursors, TypeOK
<1>21. ASSUME NEW p \in Pids, AddPidNoMemory(p) PROVE Cursors'
  BY <1>21, <1>a, CursorsFrame DEF AddPidNoMemory, Accepted, Return, TypeOK
<1>22. ASSUME NEW p \in Pids, DelPid(p) PROVE Cursors'
  <2>. DEFINE s == req[p].syscall
              q == req[p].pid
  <2>1. /\ s \in Rows /\ q \in Pids /\ UNCHANGED call
        /\ \A t \in Pids : pc'[t] = "int_walk" => pc[t] = "int_walk"
    BY <1>22, <1>a DEF DelPid, Accepted, Return, Control, TypeOK
  <2>2. CASE Listed(s, q)
    <3>1. DelNode(s, q) /\ cur' = CursAfterFree(s, q)
      BY <1>22, <2>2 DEF DelPid, DelNode
    <3>. QED  BY <1>a, <2>1, <2>2, <3>1, DelNodeFacts, FreeKeepsCursors
  <2>3. CASE ~Listed(s, q)
    <3>1. UNCHANGED <<my_list, cur>>
      BY <1>22, <2>3 DEF DelPid
    <3>. QED  BY <1>a, <2>1, <3>1, CursorsFrame
  <2>. QED  BY <2>2, <2>3
<1>23. ASSUME NEW p \in Pids, HandleAll(p) PROVE Cursors'
  BY <1>23, <1>a, CursorsFrame DEF HandleAll, Accepted, TypeOK
<1>24. ASSUME NEW p \in Pids, SysDestroyNode(p) PROVE Cursors'
  <2>1. req[p].syscall \in Rows /\ DestroyNode(req[p].syscall) /\ UNCHANGED <<call, pc>>
    BY <1>24, <1>a DEF SysDestroyNode, Control
  <2>2. cur' = CursAfterFree(req[p].syscall, Head(my_list[req[p].syscall]))
    BY <2>1 DEF DestroyNode
  <2>. QED  BY <1>a, <2>1, <2>2, DestroyNodeFacts, FreeKeepsCursors
<1>25. ASSUME NEW p \in Pids, SysDestroyEnd(p) PROVE Cursors'
  BY <1>25, <1>a, CursorsFrame DEF SysDestroyEnd, Return, TypeOK
<1>26. ASSUME NEW p \in Pids, SysMonitorAll(p) PROVE Cursors'
  BY <1>26, <1>a, CursorsFrame DEF SysMonitorAll, Return, TypeOK
<1>27. ASSUME NEW p \in Pids, ExitOops(p) PROVE Cursors'
  BY <1>27, <1>a, CursorsFrame DEF ExitOops, Oops, TypeOK
<1>28. ASSUME NEW p \in Pids, ExitDelNode(p) PROVE Cursors'
  <2>1. call[p] \in Rows /\ DelNode(call[p], p) /\ UNCHANGED <<call, pc>>
    BY <1>28, <1>a DEF ExitDelNode, TypeOK
  <2>2. Listed(call[p], p) /\ cur' = CursAfterFree(call[p], p)
    BY <1>28 DEF ExitDelNode, DelNode
  <2>. QED  BY <1>a, <2>1, <2>2, DelNodeFacts, FreeKeepsCursors
<1>29. ASSUME NEW p \in Pids, ExitNextRow(p) PROVE Cursors'
  BY <1>29, <1>a, CursorsFrame DEF ExitNextRow, TypeOK
<1>30. ASSUME NEW p \in Pids, ExitUnlock(p) PROVE Cursors'
  BY <1>30, <1>a, CursorsFrame DEF ExitUnlock, TypeOK
<1>31. ASSUME NEW p \in Pids, ExitOrig(p) PROVE Cursors'
  BY <1>31, <1>a, CursorsFrame DEF ExitOrig, TypeOK
<1>32. ASSUME NEW p \in Pids, UnloadedFault(p) PROVE Cursors'
  BY <1>32, <1>a, CursorsFrame DEF UnloadedFault, Oops, TypeOK
<1>33. CASE InitHijackCustom
  BY <1>33, <1>a, CursorsFrame DEF InitHijackCustom
<1>34. CASE InitRows
  BY <1>34, <1>a DEF InitRows, Control, Cursors, InitPC
<1>35. CASE ExitFnLockTable
  BY <1>35, <1>a, CursorsFrame DEF ExitFnLockTable
<1>36. CASE ExitFnLockPids
  BY <1>36, <1>a, CursorsFrame DEF ExitFnLockPids, LockIsFree
<1>37. CASE InitHijackExit
  BY <1>37, <1>a, CursorsFrame DEF InitHijackExit
<1>38. CASE ExitFnRestore
  BY <1>38, <1>a, CursorsFrame DEF ExitFnRestore
<1>39. CASE ExitFnDestroyNode
  <2>1. xrow \in Rows /\ DestroyNode(xrow) /\ UNCHANGED <<call, pc>>
    BY <1>39, <1>a DEF ExitFnDestroyNode, Control
  <2>2. cur' = CursAfterFree(xrow, Head(my_list[xrow]))
    BY <2>1 DEF DestroyNode
  <2>. QED  BY <1>a, <2>1, <2>2, DestroyNodeFacts, FreeKeepsCursors
<1>40. CASE ExitFnDestroyEnd
  BY <1>40, <1>a, CursorsFrame DEF ExitFnDestroyEnd
<1>41. CASE ExitFnRestoreCustom
  BY <1>41, <1>a, CursorsFrame DEF ExitFnRestoreCustom
<1>42. CASE ExitFnRestoreExit
  BY <1>42, <1>a, CursorsFrame DEF ExitFnRestoreExit
<1>43. CASE UNCHANGED vars
  BY <1>43, <1>a, CursorsFrame DEF vars, rowVars, lockVars, modVars, readVars
<1>. QED
  BY <1>1, <1>2, <1>3, <1>4, <1>5, <1>6, <1>7, <1>8, <1>9, <1>10, <1>11,
     <1>12, <1>13, <1>14, <1>15, <1>16, <1>17, <1>18, <1>19, <1>20, <1>21,
     <1>22, <1>23, <1>24, <1>25, <1>26, <1>27, <1>28, <1>29, <1>30, <1>31,
     <1>32, <1>33, <1>34, <1>35, <1>36, <1>37, <1>38, <1>39, <1>40, <1>41,
     <1>42, <1>43
  DEF Next, Process, Dispatch, Acquire, Advance, LoaderAcquire, LoaderAdvance

-----------------------------------------------------------------------------
(* The rows *)

\* A step that writes no row and ends no destroy_list keeps RowConsistent.
LEMMA RowFrame ==
    ASSUME RowConsistent, UNCHANGED <<my_list, monitored, listcount>>,
           mod = "gone" => mod' = "gone",
           \A q \in Pids : pc[q] = "sys_destroy" =>
              pc'[q] = "sys_destroy" /\ req'[q] = req[q],
           mod = "exit_destroy" => mod' = "exit_destroy" /\ xrow' = xrow
    PROVE  RowConsistent'
<1>1. ASSUME NEW s \in Rows, Destroying(s) PROVE Destroying(s)'
  BY <1>1 DEF Destroying
<1>. QED  BY <1>1 DEF RowConsistent, RowOK

\* Only one row is rewritten, by a thread that holds the lock and is not in
\* destroy_list: the other rows are settled and stay so.
LEMMA OneRow ==
    ASSUME TypeOK, Control, RowConsistent, NEW s \in Rows, NEW p \in Pids,
           pc[p] \in CriticalPC \ {"sys_destroy"},
           \A t \in Rows \ {s} : /\ my_list'[t] = my_list[t]
                                 /\ monitored'[t] = monitored[t]
                                 /\ listcount'[t] = listcount[t],
           UNCHANGED mod, mod # "gone" => RowOK(s)'
    PROVE  RowConsistent'
<1>1. \A t \in Rows : ~Destroying(t)
  BY PidsAssumption DEF Control, Destroying, CriticalPC, LoaderLocked, LOADER
<1>2. ASSUME NEW t \in Rows \ {s}, mod # "gone" PROVE RowOK(t)'
  BY <1>1, <1>2 DEF RowConsistent, RowOK
<1>. QED  BY <1>2 DEF RowConsistent

\* What is known of row s when such a thread looks at it.
LEMMA SettledRow ==
    ASSUME TypeOK, Control, RowConsistent, mod # "gone", NEW s \in Rows, NEW p \in Pids,
           pc[p] \in CriticalPC \ {"sys_destroy"}
    PROVE  /\ NoDuplicates(my_list[s])
           /\ monitored[s] = 0 => my_list[s] = << >>
           /\ listcount[s] = Len(my_list[s])
           /\ monitored[s] = 1 => my_list[s] # << >>
<1>1. ~Destroying(s)
  BY PidsAssumption DEF Control, Destroying, CriticalPC, LoaderLocked, LOADER
<1>. QED  BY <1>1 DEF RowConsistent, RowOK

\* del_pid_sysc, under the lock, keeps the count, the flag and the list agreed.
LEMMA DelNodeRow ==
    ASSUME TypeOK, Control, RowConsistent, NEW s \in Rows, NEW q \in Pids, NEW p \in Pids,
           pc[p] \in CriticalPC \ {"sys_destroy"}, Listed(s, q), DelNode(s, q),
           UNCHANGED mod
    PROVE  RowConsistent'
<1>1. /\ \A t \in Rows \ {s} : /\ my_list'[t] = my_list[t]
                               /\ monitored'[t] = monitored[t]
                               /\ listcount'[t] = listcount[t]
      /\ listcount'[s] = listcount[s] - 1
      /\ monitored'[s] = IF listcount[s] = 1 /\ monitored[s] = 1 THEN 0 ELSE monitored[s]
  BY DelNodeFacts DEF DelNode, TypeOK
<1>2. /\ my_list'[s] \in Seq(Pids) /\ my_list[s] \in Seq(Pids)
      /\ Len(my_list'[s]) = Len(my_list[s]) - 1
      /\ Len(my_list[s]) \in Nat \ {0}
      /\ NoDuplicates(my_list[s]) => NoDuplicates(my_list'[s])
  BY DelNodeFacts, DelNodeType DEF TypeOK
<1>3. ASSUME mod # "gone" PROVE RowOK(s)'
  <2>1. /\ NoDuplicates(my_list[s])
        /\ monitored[s] = 0 => my_list[s] = << >>
        /\ listcount[s] = Len(my_list[s])
        /\ monitored[s] = 1 => my_list[s] # << >>
    BY <1>3, SettledRow
  <2>2. monitored[s] # 0
    BY <1>2, <2>1
  <2>3. monitored'[s] = 0 => my_list'[s] = << >>
    BY <1>1, <1>2, <2>1, <2>2
  <2>4. monitored'[s] = 1 => my_list'[s] # << >>
    <3>1. monitored'[s] = 1 => Len(my_list[s]) # 1
      BY <1>1, <2>1
    <3>2. monitored'[s] = 1 => Len(my_list'[s]) # 0
      BY <1>2, <3>1
    <3>. QED  BY <3>2
  <2>5. listcount'[s] = Len(my_list'[s])
    BY <1>1, <1>2, <2>1
  <2>. QED  BY <1>2, <2>1, <2>3, <2>4, <2>5 DEF RowOK
<1>. QED  BY <1>1, <1>3, OneRow

\* add_pid_sysc does too, for a pid that is not listed yet.
LEMMA AddNodeRow ==
    ASSUME TypeOK, Control, RowConsistent, NEW s \in Rows, NEW q \in Pids, NEW p \in Pids,
           pc[p] \in CriticalPC \ {"sys_destroy"}, UNCHANGED mod,
           mod # "gone" => ~Listed(s, q),
           my_list' = [my_list EXCEPT ![s] = <<q>> \o @],
           \A t \in Rows \ {s} : /\ monitored'[t] = monitored[t]
                                 /\ listcount'[t] = listcount[t],
           listcount'[s] = listcount[s] + 1, monitored'[s] # 0
    PROVE  RowConsistent'
<1>. DEFINE l == my_list[s]
<1>1. l \in Seq(Pids) /\ my_list'[s] = <<q>> \o l
      /\ \A t \in Rows \ {s} : my_list'[t] = my_list[t]
  BY DEF TypeOK
<1>. HIDE DEF l
<1>2. /\ Len(my_list'[s]) = Len(l) + 1 /\ Len(l) \in Nat
      /\ \A j \in 1 .. Len(l) + 1 : my_list'[s][j] = IF j = 1 THEN q ELSE l[j - 1]
  BY <1>1, ConsFacts
<1>3. ASSUME mod # "gone" PROVE RowOK(s)'
  <2>1. NoDuplicates(l) /\ listcount[s] = Len(l)
    BY <1>3, SettledRow DEF l
  <2>2. \A j \in 1 .. Len(l) : l[j] # q
    BY <1>3 DEF Listed, l
  <2>3. ASSUME NEW i \in 1 .. Len(my_list'[s]), NEW j \in 1 .. Len(my_list'[s]),
               my_list'[s][i] = my_list'[s][j]
        PROVE  i = j
    <3>1. CASE i = 1 \/ j = 1
      BY <1>2, <2>2, <2>3, <3>1
    <3>2. CASE i # 1 /\ j # 1
      <4>1. l[i - 1] = l[j - 1] /\ i - 1 \in 1 .. Len(l) /\ j - 1 \in 1 .. Len(l)
        BY <1>2, <2>3, <3>2
      <4>. QED  BY <2>1, <4>1 DEF NoDuplicates
    <3>. QED  BY <3>1, <3>2
  <2>4. my_list'[s] # << >>
    BY <1>2
  <2>. QED  BY <1>2, <2>1, <2>3, <2>4 DEF RowOK, NoDuplicates
<1>. QED  BY <1>1, <1>3, OneRow

\* destroy_list may take nodes out before it resets the count and the flag.
LEMMA DestroyNodeRow ==
    ASSUME TypeOK, Control, RowConsistent, NEW s \in Rows, Destroying(s), DestroyNode(s),
           UNCHANGED <<monitored, listcount, mod, xrow, pc, req>>
    PROVE  RowConsistent'
<1>1. \A t \in Rows : Destroying(t)' <=> Destroying(t)
  BY DEF Destroying
<1>2. ASSUME NEW t \in Rows, RowOK(t) PROVE RowOK(t)'
  <2>1. CASE t = s
    <3>1. my_list[s] # << >>
      BY DEF DestroyNode
    <3>. QED  BY <1>1, <1>2, <2>1, <3>1, DestroyNodeFacts DEF RowOK
  <2>2. CASE t # s
    BY <1>1, <1>2, <2>2, DestroyNodeFacts DEF RowOK
  <2>. QED  BY <2>1, <2>2
<1>. QED  BY <1>2 DEF RowConsistent

\* The end of destroy_list settles the row.
LEMMA DestroyEndRow ==
    ASSUME TypeOK, Control, RowConsistent, NEW s \in Rows, DestroyEnd(s), UNCHANGED my_list,
           mod = "gone" => mod' = "gone", \A t \in Rows \ {s} : ~Destroying(t)
    PROVE  RowConsistent'
<1>1. /\ listcount'[s] = 0 /\ monitored'[s] = 0 /\ my_list'[s] = << >>
      /\ \A t \in Rows \ {s} : monitored'[t] = monitored[t] /\ listcount'[t] = listcount[t]
  BY DEF DestroyEnd, TypeOK
<1>2. RowOK(s)'
  BY <1>1 DEF RowOK, NoDuplicates
<1>3. ASSUME NEW t \in Rows \ {s}, RowOK(t) PROVE RowOK(t)'
  BY <1>1, <1>3 DEF RowOK
<1>. QED  BY <1>2, <1>3 DEF RowConsistent

\* Every step keeps RowConsistent.
LEMMA RowsStep ==
    ASSUME IInv, [Next]_vars
    PROVE  RowConsistent'
<1>. USE PidsAssumption DEF Goto, rowVars, lockVars, modVars, readVars
<1>a. TypeOK /\ Control /\ RowConsistent
  BY DEF IInv
<1>1. ASSUME NEW p \in Pids, SyscallOrigExit(p) PROVE RowConsistent'
  BY <1>1, <1>a, RowFrame DEF SyscallOrigExit, TypeOK
<1>2. ASSUME NEW p \in Pids, SyscallMyExit(p) PROVE RowConsistent'
  BY <1>2, <1>a, RowFrame DEF SyscallMyExit, TypeOK
<1>3. ASSUME NEW p \in Pids, SyscallCustom(p) PROVE RowConsistent'
  BY <1>3, <1>a, RowFrame DEF SyscallCustom, TypeOK
<1>4. ASSUME NEW p \in Pids, SyscallIntercepted(p) PROVE RowConsistent'
  BY <1>4, <1>a, RowFrame DEF SyscallIntercepted, TypeOK
<1>5. ASSUME NEW p \in Pids, Fork(p) PROVE RowConsistent'
  BY <1>5, <1>a, RowFrame DEF Fork, TypeOK
<1>6. ASSUME NEW p \in Pids, SysInvalid(p) PROVE RowConsistent'
  BY <1>6, <1>a, RowFrame DEF SysInvalid, LockIsFree, Return, valid, TypeOK
<1>7. ASSUME NEW p \in Pids, SysAcquire(p) PROVE RowConsistent'
  BY <1>7, <1>a, RowFrame DEF SysAcquire, LockIsFree, valid, is_valid_cmd,
    is_valid_syscall, is_valid_pid, TypeOK
<1>8. ASSUME NEW p \in Pids, ExitAcquire(p) PROVE RowConsistent'
  BY <1>8, <1>a, RowFrame DEF ExitAcquire, LockIsFree, TypeOK
<1>9. ASSUME NEW p \in Pids, WriteTable(p) PROVE RowConsistent'
  BY <1>9, <1>a, RowFrame DEF WriteTable, Return, TypeOK
<1>10. ASSUME NEW p \in Pids, IntCheck(p) PROVE RowConsistent'
  BY <1>10, <1>a, RowFrame DEF IntCheck, TypeOK
<1>11. ASSUME NEW p \in Pids, IntWalk(p) PROVE RowConsistent'
  BY <1>11, <1>a, RowFrame DEF IntWalk, Answer, TypeOK
<1>12. ASSUME NEW p \in Pids, IntWalkFreed(p) PROVE RowConsistent'
  BY <1>12, <1>a, RowFrame DEF IntWalkFreed, Oops, Answer, TypeOK
<1>13. ASSUME NEW p \in Pids, IntLog(p) PROVE RowConsistent'
  BY <1>13, <1>a, RowFrame DEF IntLog, TypeOK
<1>14. ASSUME NEW p \in Pids, IntCall(p) PROVE RowConsistent'
  BY <1>14, <1>a, RowFrame DEF IntCall, TypeOK
<1>15. ASSUME NEW p \in Pids, SysOops(p) PROVE RowConsistent'
  BY <1>15, <1>a, RowFrame DEF SysOops, Oops, TypeOK
<1>16. ASSUME NEW p \in Pids, SysRefuse(p) PROVE RowConsistent'
  BY <1>16, <1>a, RowFrame DEF SysRefuse, Return, TypeOK
<1>17. ASSUME NEW p \in Pids, HandleIntercept(p) PROVE RowConsistent'
  BY <1>17, <1>a, RowFrame DEF HandleIntercept, Accepted, TypeOK
<1>18. ASSUME NEW p \in Pids, HandleRelease(p) PROVE RowConsistent'
  BY <1>18, <1>a, RowFrame DEF HandleRelease, Accepted, TypeOK
<1>19. ASSUME NEW p \in Pids, ListOops(p) PROVE RowConsistent'
  BY <1>19, <1>a, RowFrame DEF ListOops, Accepted, Oops, TypeOK
<1>20. ASSUME NEW p \in Pids, AddPid(p) PROVE RowConsistent'
  <2>. DEFINE s == req[p].syscall
              q == req[p].pid
  <2>1. /\ s \in Rows /\ q \in Pids /\ q # 0 /\ pc[p] \in CriticalPC \ {"sys_destroy"}
        /\ my_list' = [my_list EXCEPT ![s] = <<q>> \o @] /\ UNCHANGED mod
        /\ permitted(p, req[p])
    BY <1>20, <1>a DEF AddPid, Accepted, Control, CriticalPC
  <2>2. /\ listcount'[s] = listcount[s] + 1
        /\ \A t \in Rows \ {s} : monitored'[t] = monitored[t] /\ listcount'[t] = listcount[t]
    BY <1>20, <1>a, <2>1 DEF AddPid, TypeOK
  <2>3. CASE req[p].cmd = "START"
    <3>1. monitored[s] \in {0, 1} /\ ~is_pid_monitored(q, s)
      BY <1>20, <1>a, <2>1, <2>3 DEF AddPid, Accepted, permitted, is_busy, TypeOK
    <3>2. mod # "gone" => ~Listed(s, q)
      <4>1. CASE monitored[s] = 1
        BY <3>1, <4>1 DEF is_pid_monitored
      <4>2. CASE monitored[s] = 0
        BY <1>a, <2>1, <4>2, SettledRow DEF Listed
      <4>. QED  BY <3>1, <4>1, <4>2
    <3>3. monitored'[s] # 0
      BY <1>20, <1>a, <2>1, <2>3 DEF AddPid, TypeOK
    <3>. QED  BY <1>a, <2>1, <2>2, <3>2, <3>3, AddNodeRow
  <2>4. CASE req[p].cmd # "START"
    <3>1. monitored[s] = 2 /\ req[p].cmd = "STOP"
      BY <1>20, <2>4 DEF AddPid, Accepted
    <3>2. is_pid_monitored(q, s)
      BY <2>1, <3>1 DEF permitted, is_context_correct
    <3>3. ~Listed(s, q)
      BY <3>1, <3>2 DEF is_pid_monitored
    <3>4. monitored'[s] # 0
      BY <1>20, <1>a, <2>1, <2>4, <3>1 DEF AddPid, TypeOK
    <3>. QED  BY <1>a, <2>1, <2>2, <3>3, <3>4, AddNodeRow
  <2>. QED  BY <2>3, <2>4
<1>21. ASSUME NEW p \in Pids, AddPidNoMemory(p) PROVE RowConsistent'
  BY <1>21, <1>a, RowFrame DEF AddPidNoMemory, Accepted, Return, TypeOK
<1>22. ASSUME NEW p \in Pids, DelPid(p) PROVE RowConsistent'
  <2>. DEFINE s == req[p].syscall
              q == req[p].pid
  <2>1. /\ s \in Rows /\ q \in Pids /\ pc[p] \in CriticalPC \ {"sys_destroy"}
        /\ UNCHANGED mod
    BY <1>22, <1>a DEF DelPid, Accepted, Control, CriticalPC
  <2>2. CASE Listed(s, q)
    <3>1. DelNode(s, q)
      BY <1>22, <2>2 DEF DelPid
    <3>. QED  BY <1>a, <2>1, <2>2, <3>1, DelNodeRow
  <2>3. CASE ~Listed(s, q)
    <3>1. UNCHANGED <<my_list, monitored, listcount, mod, xrow>>
      BY <1>22, <2>3 DEF DelPid
    <3>2. \A t \in Pids : pc[t] # "sys_destroy"
      BY <1>22, <1>a DEF DelPid, Accepted, Control, CriticalPC
    <3>. QED  BY <1>a, <3>1, <3>2, RowFrame
  <2>. QED  BY <2>2, <2>3
<1>23. ASSUME NEW p \in Pids, HandleAll(p) PROVE RowConsistent'
  BY <1>23, <1>a, RowFrame DEF HandleAll, Accepted, TypeOK
<1>24. ASSUME NEW p \in Pids, SysDestroyNode(p) PROVE RowConsistent'
  <2>1. req[p].syscall \in Rows /\ DestroyNode(req[p].syscall)
        /\ Destroying(req[p].syscall)
    BY <1>24, <1>a DEF SysDestroyNode, Control, Destroying
  <2>2. UNCHANGED <<monitored, listcount, mod, xrow, pc, req>>
    BY <1>24 DEF SysDestroyNode
  <2>. QED  BY <1>a, <2>1, <2>2, DestroyNodeRow
<1>25. ASSUME NEW p \in Pids, SysDestroyEnd(p) PROVE RowConsistent'
  <2>1. /\ req[p].syscall \in Rows /\ DestroyEnd(req[p].syscall)
        /\ UNCHANGED <<my_list, mod>>
    BY <1>25, <1>a DEF SysDestroyEnd, Control
  <2>2. \A t \in Rows \ {req[p].syscall} : ~Destroying(t)
    BY <1>25, <1>a DEF SysDestroyEnd, Control, Destroying, CriticalPC, LoaderLocked, LOADER
  <2>. QED  BY <1>a, <2>1, <2>2, DestroyEndRow
<1>26. ASSUME NEW p \in Pids, SysMonitorAll(p) PROVE RowConsistent'
  <2>0. PICK s \in Rows : s = req[p].syscall
    BY <1>26, <1>a DEF SysMonitorAll, Control
  <2>1. /\ pc[p] \in CriticalPC \ {"sys_destroy"}
        /\ UNCHANGED <<my_list, listcount, mod>>
    BY <1>26, <1>a DEF SysMonitorAll, Control, CriticalPC
  <2>2. /\ monitored'[s] = 2
        /\ \A t \in Rows \ {s} : monitored'[t] = monitored[t]
    BY <1>26, <1>a, <2>0 DEF SysMonitorAll, TypeOK
  <2>3. mod # "gone" => RowOK(s)'
    <3>1. mod # "gone" => NoDuplicates(my_list[s]) /\ listcount[s] = Len(my_list[s])
      BY <1>a, <2>1, SettledRow
    <3>. QED  BY <2>1, <2>2, <3>1 DEF RowOK
  <2>. QED  BY <1>a, <2>1, <2>2, <2>3, OneRow
<1>27. ASSUME NEW p \in Pids, ExitOops(p) PROVE RowConsistent'
  BY <1>27, <1>a, RowFrame DEF ExitOops, Oops, TypeOK
<1>28. ASSUME NEW p \in Pids, ExitDelNode(p) PROVE RowConsistent'
  <2>1. /\ call[p] \in Rows /\ DelNode(call[p], p) /\ Listed(call[p], p)
        /\ pc[p] \in CriticalPC \ {"sys_destroy"} /\ UNCHANGED mod
    BY <1>28, <1>a DEF ExitDelNode, TypeOK, CriticalPC
  <2>. QED  BY <1>a, <2>1, DelNodeRow
<1>29. ASSUME NEW p \in Pids, ExitNextRow(p) PROVE RowConsistent'
  BY <1>29, <1>a, RowFrame DEF ExitNextRow, TypeOK
<1>30. ASSUME NEW p \in Pids, ExitUnlock(p) PROVE RowConsistent'
  BY <1>30, <1>a, RowFrame DEF ExitUnlock, TypeOK
<1>31. ASSUME NEW p \in Pids, ExitOrig(p) PROVE RowConsistent'
  BY <1>31, <1>a, RowFrame DEF ExitOrig, TypeOK
<1>32. ASSUME NEW p \in Pids, UnloadedFault(p) PROVE RowConsistent'
  BY <1>32 DEF UnloadedFault, Oops, RowConsistent
<1>33. CASE InitHijackCustom
  BY <1>33, <1>a, RowFrame DEF InitHijackCustom
<1>34. CASE InitRows
  BY <1>34 DEF InitRows, RowConsistent, RowOK, NoDuplicates
<1>35. CASE ExitFnLockTable
  BY <1>35, <1>a, RowFrame DEF ExitFnLockTable
<1>36. CASE ExitFnLockPids
  BY <1>36, <1>a, RowFrame DEF ExitFnLockPids, LockIsFree
<1>37. CASE InitHijackExit
  BY <1>37, <1>a, RowFrame DEF InitHijackExit
<1>38. CASE ExitFnRestore
  BY <1>38, <1>a, RowFrame DEF ExitFnRestore
<1>39. CASE ExitFnDestroyNode
  <2>1. xrow \in Rows /\ DestroyNode(xrow) /\ Destroying(xrow)
    BY <1>39, <1>a DEF ExitFnDestroyNode, Control, Destroying
  <2>2. UNCHANGED <<monitored, listcount, mod, xrow, pc, req>>
    BY <1>39 DEF ExitFnDestroyNode
  <2>. QED  BY <1>a, <2>1, <2>2, DestroyNodeRow
<1>40. CASE ExitFnDestroyEnd
  <2>1. /\ xrow \in Rows /\ DestroyEnd(xrow) /\ UNCHANGED my_list
        /\ mod # "gone"
    BY <1>40, <1>a DEF ExitFnDestroyEnd, Control
  <2>2. \A t \in Rows \ {xrow} : ~Destroying(t)
    BY <1>40, <1>a DEF ExitFnDestroyEnd, Control, Destroying, CriticalPC, LoaderLocked,
      LOADER
  <2>. QED  BY <1>a, <2>1, <2>2, DestroyEndRow
<1>41. CASE ExitFnRestoreCustom
  BY <1>41, <1>a, RowFrame DEF ExitFnRestoreCustom
<1>42. CASE ExitFnRestoreExit
  BY <1>42 DEF ExitFnRestoreExit, RowConsistent
<1>43. CASE UNCHANGED vars
  BY <1>43, <1>a, RowFrame DEF vars, rowVars, lockVars, modVars, readVars
<1>. QED
  BY <1>1, <1>2, <1>3, <1>4, <1>5, <1>6, <1>7, <1>8, <1>9, <1>10, <1>11,
     <1>12, <1>13, <1>14, <1>15, <1>16, <1>17, <1>18, <1>19, <1>20, <1>21,
     <1>22, <1>23, <1>24, <1>25, <1>26, <1>27, <1>28, <1>29, <1>30, <1>31,
     <1>32, <1>33, <1>34, <1>35, <1>36, <1>37, <1>38, <1>39, <1>40, <1>41,
     <1>42, <1>43
  DEF Next, Process, Dispatch, Acquire, Advance, LoaderAcquire, LoaderAdvance

-----------------------------------------------------------------------------
(* Theorems *)

\* IInv holds before insmod.
LEMMA InitIInv == Init => IInv
<1>. SUFFICES ASSUME Init PROVE IInv
  OBVIOUS
<1>. USE SyscallAssumption DEF Init, Quiet, Free, LOADER
<1>1. TypeOK
  BY DEF TypeOK, Funcs, UserPC, ModPC, HEAD, Rows
<1>2. Control
  BY DEF Control, CriticalPC, InitPC, IntPC, UserPC, LoaderLocked
<1>3. Tables
  BY DEF Tables, Entry, LoaderLocked
<1>4. Cursors /\ RowConsistent
  BY DEF Cursors, RowConsistent, RowOK, NoDuplicates
<1>. QED  BY <1>1, <1>2, <1>3, <1>4 DEF IInv

\* IInv holds when init_function has returned.
LEMMA InitLoadedIInv == InitLoaded => IInv
<1>. SUFFICES ASSUME InitLoaded PROVE IInv
  OBVIOUS
<1>. USE SyscallAssumption DEF InitLoaded, Quiet, Free, LOADER
<1>0. Hijacked \in [Rows -> Funcs]
  BY DEF Hijacked, Funcs
<1>1. TypeOK
  BY <1>0 DEF TypeOK, UserPC, ModPC, HEAD, Rows
<1>2. Control
  BY DEF Control, CriticalPC, InitPC, IntPC, UserPC, LoaderLocked
<1>3. Tables
  BY HijackedFacts DEF Tables, Entry, LoaderLocked
<1>4. Cursors /\ RowConsistent
  BY DEF Cursors, RowConsistent, RowOK, NoDuplicates
<1>. QED  BY <1>1, <1>2, <1>3, <1>4 DEF IInv

\* IInv is inductive.
LEMMA StepIInv == IInv /\ [Next]_vars => IInv'
BY ControlStep, TypeStep, TablesStep, CursorsStep, RowsStep DEF IInv

\* Every behaviour keeps IInv, the module being inserted and removed at any
\* moment; and so do those that start with the module in place.
THEOREM Invariance == Spec => []IInv
BY InitIInv, StepIInv, PTL DEF Spec

\* The same from a loaded module that may be removed.
THEOREM UnloadInvariance == SpecUnload => []IInv
BY InitLoadedIInv, StepIInv, PTL DEF SpecUnload

\* The same between insmod and rmmod.
THEOREM LoadedInvariance == SpecLoaded => []IInv
<1>1. IInv /\ [NextLoaded]_vars => IInv'
  BY StepIInv DEF Next, NextLoaded
<1>. QED  BY InitLoadedIInv, <1>1, PTL DEF SpecLoaded

\* The types of the state, for every number of processes and system calls.
THEOREM TypeCorrect == Spec => []TypeOK
BY Invariance, PTL DEF IInv

\* pidlist_lock does exclude: handlers, del_pid and exit_function never overlap.
THEOREM LockExcludes == Spec => []MutualExclusion
<1>1. IInv => MutualExclusion
  BY DEF IInv, Control, MutualExclusion, LoaderLocked
<1>. QED  BY Invariance, <1>1, PTL

\* The lists, their counts and the monitored flags agree, whatever requests
\* and exits interleave.
THEOREM RowsStayConsistent == Spec => []RowConsistent
BY Invariance, PTL DEF IInv

\* The function interceptor calls, row->f, is never interceptor itself.
THEOREM NeverSelfCall == Spec => []NoSelfCall
<1>1. IInv => NoSelfCall
  BY DEF IInv, Tables, Entry, NoSelfCall
<1>. QED  BY Invariance, <1>1, PTL

\* While the module is in, sys_call_table shows exactly the intercepted calls,
\* outside the two stores of a handler.
THEOREM TableShowsIntercepted == Spec => []TableMatches
<1>1. IInv => TableMatches
  BY DEF IInv, Tables, Entry, TableMatches
<1>. QED  BY Invariance, <1>1, PTL

\* exit_function leaves sys_call_table as it was before init_function.
THEOREM UnloadRestoresTable == Spec => UnloadRestores
<1>1. IInv /\ [Next]_vars =>
         [mod # "gone" /\ mod' = "gone" => sct' = [s \in Rows |-> "orig"]]_vars
  <2>. SUFFICES ASSUME IInv, Next, mod # "gone", mod' = "gone"
                PROVE  sct' = [s \in Rows |-> "orig"]
    OBVIOUS
  <2>1. ExitFnRestoreExit
    <3>. USE DEF modVars
    <3>1. ASSUME NEW p \in Pids, Dispatch(p) PROVE mod' = mod
      BY <3>1 DEF Dispatch, SyscallOrigExit, SyscallMyExit, SyscallCustom,
         SyscallIntercepted, Fork
    <3>2. ASSUME NEW p \in Pids, Acquire(p) PROVE mod' = mod
      BY <3>2 DEF Acquire, SysInvalid, SysAcquire, ExitAcquire, WriteTable
    <3>3. ASSUME NEW p \in Pids, Advance(p) PROVE mod' = mod
      BY <3>3 DEF Advance, IntCheck, IntWalk, IntWalkFreed, IntLog, IntCall, SysOops,
         SysRefuse, HandleIntercept, HandleRelease, ListOops, AddPid, AddPidNoMemory,
         DelPid, HandleAll, SysDestroyNode, SysDestroyEnd, SysMonitorAll, ExitOops,
         ExitDelNode, ExitNextRow, ExitUnlock, ExitOrig, Oops
    <3>4. ASSUME NEW p \in Pids, UnloadedFault(p) PROVE mod' = mod
      BY <3>4 DEF UnloadedFault, Oops
    <3>5. LoaderAcquire => mod' # "gone"
      BY DEF LoaderAcquire, InitHijackCustom, InitRows, ExitFnLockTable, ExitFnLockPids
    <3>6. LoaderAdvance => ExitFnRestoreExit \/ mod' # "gone"
      BY DEF LoaderAdvance, InitHijackExit, ExitFnRestore, ExitFnDestroyNode,
         ExitFnDestroyEnd, ExitFnRestoreCustom
    <3>. QED  BY <3>1, <3>2, <3>3, <3>4, <3>5, <3>6 DEF Next, Process
  <2>2. \A s \in Rows : sct'[s] = "orig"
    BY <2>1, HijackedFacts DEF ExitFnRestoreExit, IInv, TypeOK, Tables, Entry
  <2>. QED  BY <2>1, <2>2 DEF ExitFnRestoreExit, IInv, TypeOK
<1>. QED  BY Invariance, <1>1, PTL DEF Spec, UnloadRestores

=============================================================================
