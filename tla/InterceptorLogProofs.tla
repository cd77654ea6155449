------------------------ MODULE InterceptorLogProofs ------------------------
(***************************************************************************)
(* Proofs about who changes a row, and about what interceptor logs while   *)
(* others change it, between insmod and rmmod.                             *)
(***************************************************************************)
EXTENDS InterceptorLog, InterceptorProofs

-----------------------------------------------------------------------------
(* What a process's step does to the lists and flags *)

\* It writes no list and no flag, and moves no other reader.
Quietly(w) ==
    /\ UNCHANGED <<my_list, monitored>>
    /\ \A q \in Pids \ {w} : cur'[q] = cur[q]

\* add_pid_sysc: a white list gets a pid it does not hold, or an empty row
\* becomes one, or a black list gets one.
Adds(s, q) ==
    /\ ~Listed(s, q)
    /\ my_list' = [my_list EXCEPT ![s] = <<q>> \o @]
    /\ monitored' = [monitored EXCEPT ![s] = IF @ = 0 THEN 1 ELSE @]
    /\ UNCHANGED cur

\* del_pid_sysc, or an iteration of del_pid
Drops(s, q) == Listed(s, q) /\ DelNode(s, q)

\* destroy_list, or the store of monitored = 2 after it
Rewrites(s) ==
    /\ \A t \in Rows \ {s} : my_list'[t] = my_list[t] /\ monitored'[t] = monitored[t]
    /\ \A q \in Pids : call[q] # s => cur'[q] = cur[q]

\* The permission check of my_syscall, or del_pid run by the process itself.
MayChange(w, q) == w = q \/ uid[w] \in {0, uid[q]}

Effect(w) ==
    \/ Quietly(w)
    \/ /\ pc[w] \in CriticalPC \ {"sys_destroy"}
       /\ \E s \in Rows : \E q \in Pids :
             MayChange(w, q) /\ (Adds(s, q) \/ Drops(s, q))
    \/ /\ pc[w] \in {"sys_destroy", "sys_all"}
       /\ req[w].syscall \in Rows
       /\ Rewrites(req[w].syscall)

\* Every step of a process has one of these effects.
LEMMA Effects ==
    ASSUME IInv, mod = "in", NEW w \in Pids, Process(w)
    PROVE  Effect(w)
<1>. USE PidsAssumption DEF rowVars, lockVars, modVars, readVars
<1>a. TypeOK /\ Control /\ RowConsistent
  BY DEF IInv
<1>1. CASE Dispatch(w)
  BY <1>a, <1>1 DEF Dispatch, SyscallOrigExit, SyscallMyExit, SyscallCustom,
    SyscallIntercepted, Fork, Effect, Quietly
<1>2. CASE Acquire(w)
  BY <1>a, <1>2 DEF Acquire, SysInvalid, SysAcquire, ExitAcquire, WriteTable, Effect,
    Quietly
<1>3. CASE \/ IntWalkFreed(w) \/ IntLog(w) \/ SysOops(w) \/ SysRefuse(w)
           \/ HandleIntercept(w) \/ HandleRelease(w) \/ ListOops(w) \/ AddPidNoMemory(w)
           \/ HandleAll(w) \/ ExitOops(w) \/ ExitNextRow(w) \/ ExitUnlock(w)
           \/ ExitOrig(w)
  BY <1>a, <1>3 DEF IntWalkFreed, IntLog, SysOops, SysRefuse, HandleIntercept,
    HandleRelease, ListOops, AddPidNoMemory, HandleAll, ExitOops, ExitNextRow, ExitUnlock,
    ExitOrig, Oops, Effect, Quietly
<1>4. CASE IntCheck(w) \/ IntWalk(w) \/ IntCall(w)
  BY <1>a, <1>4 DEF IntCheck, IntWalk, IntCall, Effect, Quietly, TypeOK
<1>5. CASE AddPid(w)
  <2>. DEFINE s == req[w].syscall
              q == req[w].pid
  <2>1. /\ pc[w] = "sys_perm" /\ s \in Rows /\ q \in Pids
        /\ my_list' = [my_list EXCEPT ![s] = <<q>> \o @] /\ UNCHANGED cur
        /\ permitted(w, req[w])
    BY <1>5, <1>a DEF AddPid, Accepted, Control
  <2>2. MayChange(w, q)
    BY <2>1 DEF permitted, has_permissions, is_root, MayChange
  <2>3. CASE req[w].cmd = "START"
    <3>1. monitored[s] \in {0, 1} /\ ~is_pid_monitored(q, s)
      BY <1>5, <1>a, <2>1, <2>3 DEF AddPid, Accepted, permitted, is_busy, TypeOK
    <3>2. ~Listed(s, q)
      <4>1. CASE monitored[s] = 1
        BY <3>1, <4>1 DEF is_pid_monitored
      <4>2. CASE monitored[s] = 0
        BY <1>a, <2>1, <4>2, SettledRow DEF Listed, CriticalPC
      <4>. QED  BY <3>1, <4>1, <4>2
    <3>3. monitored' = [monitored EXCEPT ![s] = IF @ = 0 THEN 1 ELSE @]
      BY <1>5, <1>a, <2>1, <2>3, <3>1 DEF AddPid, TypeOK
    <3>. QED  BY <2>1, <2>2, <3>2, <3>3 DEF Effect, Adds, CriticalPC
  <2>4. CASE req[w].cmd # "START"
    <3>1. monitored[s] = 2 /\ req[w].cmd = "STOP"
      BY <1>5, <2>4 DEF AddPid, Accepted
    <3>2. ~Listed(s, q)
      BY <2>1, <3>1 DEF permitted, is_context_correct, is_pid_monitored
    <3>3. monitored' = [monitored EXCEPT ![s] = IF @ = 0 THEN 1 ELSE @]
      BY <1>5, <1>a, <2>1, <2>4, <3>1 DEF AddPid, TypeOK
    <3>. QED  BY <2>1, <2>2, <3>2, <3>3 DEF Effect, Adds, CriticalPC
  <2>. QED  BY <2>3, <2>4
<1>6. CASE DelPid(w)
  <2>. DEFINE s == req[w].syscall
              q == req[w].pid
  <2>1. pc[w] = "sys_perm" /\ s \in Rows /\ q \in Pids /\ permitted(w, req[w])
    BY <1>6, <1>a DEF DelPid, Accepted, Control
  <2>2. MayChange(w, q)
    BY <2>1 DEF permitted, has_permissions, is_root, MayChange
  <2>3. CASE Listed(s, q)
    BY <1>6, <2>1, <2>2, <2>3 DEF DelPid, Drops, Effect, CriticalPC
  <2>4. CASE ~Listed(s, q)
    BY <1>6, <2>4 DEF DelPid, Effect, Quietly
  <2>. QED  BY <2>3, <2>4
<1>7. CASE SysDestroyNode(w)
  <2>1. PICK s \in Rows : s = req[w].syscall
    BY <1>7, <1>a DEF SysDestroyNode, Control
  <2>2. DestroyNode(s) /\ UNCHANGED monitored /\ pc[w] = "sys_destroy"
    BY <1>7, <2>1 DEF SysDestroyNode
  <2>3. \A t \in Rows \ {s} : my_list'[t] = my_list[t]
    BY <1>a, <2>2, DestroyNodeFacts
  <2>4. \A q \in Pids : call[q] # s => cur'[q] = cur[q]
    BY <2>2 DEF DestroyNode, CursAfterFree
  <2>. QED  BY <2>1, <2>2, <2>3, <2>4 DEF Effect, Rewrites
<1>8. CASE SysDestroyEnd(w)
  BY <1>8, <1>a DEF SysDestroyEnd, DestroyEnd, Control, Effect, Rewrites, TypeOK
<1>9. CASE SysMonitorAll(w)
  BY <1>9, <1>a DEF SysMonitorAll, Control, Effect, Rewrites, TypeOK
<1>10. CASE ExitDelNode(w)
  <2>1. call[w] \in Rows /\ pc[w] = "exit_del" /\ Drops(call[w], w)
    BY <1>10, <1>a DEF ExitDelNode, Drops, TypeOK
  <2>. QED  BY <2>1 DEF Effect, MayChange, CriticalPC
<1>. QED
  BY <1>1, <1>2, <1>3, <1>4, <1>5, <1>6, <1>7, <1>8, <1>9, <1>10 DEF Process, Advance

\* Adding or dropping one pid changes no other pid's place in any list.
LEMMA OthersListed ==
    ASSUME TypeOK, NEW s \in Rows, NEW q \in Pids, Adds(s, q) \/ Drops(s, q),
           NEW t \in Rows, NEW c \in Pids \ {q}
    PROVE  Listed(t, c)' <=> Listed(t, c)
<1>. DEFINE l == my_list[s]
<1>1. l \in Seq(Pids)
  BY DEF TypeOK
<1>2. CASE Adds(s, q)
  <2>1. my_list'[s] = <<q>> \o l /\ (t # s => my_list'[t] = my_list[t])
    BY <1>2 DEF Adds, TypeOK
  <2>2. CASE t # s
    BY <2>1, <2>2 DEF Listed
  <2>3. CASE t = s
    <3>. HIDE DEF l
    <3>1. /\ Len(my_list'[s]) = Len(l) + 1 /\ Len(l) \in Nat
          /\ \A j \in 1 .. Len(l) + 1 :
                my_list'[s][j] = IF j = 1 THEN q ELSE l[j - 1]
      BY <1>1, <2>1, ConsFacts
    <3>2. ASSUME NEW k \in 1 .. Len(l), l[k] = c
          PROVE  k + 1 \in 1 .. Len(my_list'[s]) /\ my_list'[s][k + 1] = c
      BY <3>1, <3>2
    <3>3. ASSUME NEW k \in 1 .. Len(my_list'[s]), my_list'[s][k] = c
          PROVE  k - 1 \in 1 .. Len(l) /\ l[k - 1] = c
      BY <3>1, <3>3
    <3>. QED  BY <2>3, <3>2, <3>3 DEF Listed, l
  <2>. QED  BY <2>2, <2>3
<1>3. CASE Drops(s, q)
  <2>. DEFINE i == Position(s, q)
  <2>1. i \in 1 .. Len(l) /\ l[i] = q
    BY <1>1, <1>3, PositionFacts DEF Drops
  <2>2. my_list'[s] = DropAt(l, i) /\ (t # s => my_list'[t] = my_list[t])
    BY <1>3 DEF Drops, DelNode, TypeOK
  <2>3. CASE t # s
    BY <2>2, <2>3 DEF Listed
  <2>4. CASE t = s
    <3>1. Listed(s, c) => Listed(s, c)'
      BY <1>3, DelNodeFacts DEF Drops
    <3>. HIDE DEF l, i
    <3>2. /\ Len(my_list'[s]) = Len(l) - 1 /\ Len(l) \in Nat
          /\ \A j \in 1 .. Len(l) - 1 :
                my_list'[s][j] = IF j < i THEN l[j] ELSE l[j + 1]
      BY <1>1, <2>1, <2>2, DropAtFacts
    <3>3. ASSUME NEW k \in 1 .. Len(my_list'[s]), my_list'[s][k] = c
          PROVE  \E j \in 1 .. Len(l) : l[j] = c
      <4>1. CASE k < i
        BY <3>2, <3>3, <4>1
      <4>2. CASE ~(k < i)
        BY <2>1, <3>2, <3>3, <4>2
      <4>. QED  BY <4>1, <4>2
    <3>4. Listed(s, c)' => Listed(s, c)
      BY <3>3 DEF Listed, l
    <3>. QED  BY <2>4, <3>1, <3>4
  <2>. QED  BY <2>3, <2>4
<1>. QED  BY <1>2, <1>3

\* A row that is a white list of one holds nobody but that one.
LEMMA OnlyOne ==
    ASSUME TypeOK, NEW s \in Rows, NEW q \in Pids, NEW c \in Pids,
           Len(my_list[s]) = 1, Listed(s, q), Listed(s, c)
    PROVE  c = q
<1>1. PICK i \in 1 .. Len(my_list[s]) : my_list[s][i] = q
  BY DEF Listed
<1>2. PICK j \in 1 .. Len(my_list[s]) : my_list[s][j] = c
  BY DEF Listed
<1>3. i = 1 /\ j = 1
  BY <1>1, <1>2
<1>. QED  BY <1>1, <1>2, <1>3

\* Whether another pid is monitored stays as it was: in particular when a
\* START makes a white list of an empty row and when the last pid of a white
\* list goes.
LEMMA OthersKeepStatus ==
    ASSUME IInv, mod = "in", NEW w \in Pids, pc[w] \in CriticalPC \ {"sys_destroy"},
           NEW s \in Rows, NEW q \in Pids, Adds(s, q) \/ Drops(s, q),
           NEW t \in Rows, NEW c \in Pids \ {q}
    PROVE  is_pid_monitored(c, t)' <=> is_pid_monitored(c, t)
<1>a. TypeOK /\ Control /\ RowConsistent
  BY DEF IInv
<1>1. Listed(t, c)' <=> Listed(t, c)
  BY <1>a, OthersListed
<1>2. monitored[t] \in 0 .. 2
  BY <1>a DEF TypeOK
<1>3. CASE monitored'[t] = monitored[t]
  BY <1>1, <1>2, <1>3 DEF is_pid_monitored
<1>4. CASE monitored'[t] # monitored[t]
  <2>1. CASE Adds(s, q)
    <3>1. t = s /\ monitored[s] = 0 /\ monitored'[s] = 1
      BY <1>a, <1>4, <2>1 DEF Adds, TypeOK
    <3>2. ~Listed(t, c)
      BY <1>a, <3>1, SettledRow DEF Listed
    <3>. QED  BY <1>1, <3>1, <3>2 DEF is_pid_monitored
  <2>2. CASE Drops(s, q)
    <3>1. t = s /\ monitored[s] = 1 /\ monitored'[s] = 0 /\ listcount[s] = 1
      BY <1>a, <1>4, <2>2 DEF Drops, DelNode, TypeOK
    <3>2. ~Listed(t, c)
      BY <1>a, <2>2, <3>1, SettledRow, OnlyOne DEF Drops
    <3>. QED  BY <1>1, <3>1, <3>2 DEF is_pid_monitored
  <2>. QED  BY <2>1, <2>2
<1>. QED  BY <1>3, <1>4

-----------------------------------------------------------------------------
(* Who changes whether a pid is monitored *)

\* Whoever is in destroy_list, or about to set monitored to 2, is root.
RootAtAll == \A p \in Pids : pc[p] \in {"sys_destroy", "sys_all"} => uid[p] = 0

\* What holds between insmod and rmmod.
LInv == IInv /\ mod = "in" /\ RootAtAll

\* Every step between insmod and rmmod keeps it: pid 0 is refused to users.
LEMMA StepLInv == LInv /\ [NextLoaded]_vars => LInv'
<1>. USE DEF Goto, rowVars, lockVars, modVars, readVars
<1>. SUFFICES ASSUME LInv, [NextLoaded]_vars PROVE LInv'
  OBVIOUS
<1>a. IInv /\ TypeOK /\ mod = "in" /\ RootAtAll
  BY DEF LInv, IInv
<1>1. IInv'
  BY <1>a, StepIInv DEF Next, NextLoaded
<1>2. ASSUME NEW w \in Pids, Process(w) PROVE mod' = "in" /\ RootAtAll'
  <2>1. CASE Dispatch(w)
    BY <1>a, <2>1 DEF Dispatch, SyscallOrigExit, SyscallMyExit, SyscallCustom,
      SyscallIntercepted, Fork, RootAtAll, TypeOK
  <2>2. CASE Acquire(w)
    BY <1>a, <2>2 DEF Acquire, SysInvalid, SysAcquire, ExitAcquire, WriteTable, Return,
      RootAtAll, TypeOK
  <2>3. CASE HandleAll(w)
    <3>1. uid[w] = 0
      BY <2>3 DEF HandleAll, Accepted, permitted, has_permissions, is_root
    <3>. QED  BY <1>a, <2>3, <3>1 DEF HandleAll, RootAtAll, TypeOK
  <2>4. CASE SysDestroyNode(w) \/ SysDestroyEnd(w) \/ SysMonitorAll(w)
    BY <1>a, <2>4 DEF SysDestroyNode, SysDestroyEnd, SysMonitorAll, Return, RootAtAll,
      TypeOK
  <2>5. CASE IntCheck(w) \/ IntWalk(w) \/ IntWalkFreed(w) \/ IntLog(w) \/ IntCall(w)
    BY <1>a, <2>5 DEF IntCheck, IntWalk, IntWalkFreed, IntLog, IntCall, Answer, Oops,
      RootAtAll, TypeOK
  <2>6. CASE \/ SysOops(w) \/ SysRefuse(w) \/ HandleIntercept(w) \/ HandleRelease(w)
             \/ ListOops(w) \/ AddPid(w) \/ AddPidNoMemory(w) \/ DelPid(w)
    BY <1>a, <2>6 DEF SysOops, SysRefuse, HandleIntercept, HandleRelease, ListOops, AddPid,
      AddPidNoMemory, DelPid, Return, Oops, RootAtAll, TypeOK
  <2>7. CASE ExitOops(w) \/ ExitDelNode(w) \/ ExitNextRow(w) \/ ExitUnlock(w) \/ ExitOrig(w)
    BY <1>a, <2>7 DEF ExitOops, ExitDelNode, ExitNextRow, ExitUnlock, ExitOrig, Oops,
      RootAtAll, TypeOK
  <2>. QED  BY <1>2, <2>1, <2>2, <2>3, <2>4, <2>5, <2>6, <2>7 DEF Process, Advance
<1>3. CASE NextLoaded
  BY <1>1, <1>2, <1>3 DEF NextLoaded, LInv
<1>4. CASE UNCHANGED vars
  BY <1>a, <1>1, <1>4 DEF vars, LInv, RootAtAll
<1>. QED  BY <1>3, <1>4

\* init_function leaves nobody in a system call.
LEMMA InitLInv == InitLoaded => LInv
BY InitLoadedIInv DEF InitLoaded, Quiet, LInv, RootAtAll

\* A step that changes whether q is monitored is the lock holder's, who may.
LEMMA ChangesAreAuthorised ==
    ASSUME LInv, NEW w \in Pids, Process(w), NEW s \in Rows, NEW q \in Pids,
           (q \in Monitored(s)) # (q \in Monitored(s))'
    PROVE  pidlist_lock = w /\ (w = q \/ uid[w] \in {0, uid[q]})
<1>a. IInv /\ mod = "in" /\ RootAtAll /\ TypeOK /\ Control
  BY DEF LInv, IInv
<1>1. ~(is_pid_monitored(q, s)' <=> is_pid_monitored(q, s))
  BY DEF Monitored
<1>2. CASE Quietly(w)
  BY <1>1, <1>2 DEF Quietly, is_pid_monitored, Listed
<1>3. ASSUME pc[w] \in CriticalPC \ {"sys_destroy"}, NEW t \in Rows, NEW c \in Pids,
             MayChange(w, c), Adds(t, c) \/ Drops(t, c)
      PROVE  pidlist_lock = w /\ MayChange(w, q)
  <2>1. c = q
    BY <1>a, <1>1, <1>3, OthersKeepStatus
  <2>. QED  BY <1>a, <1>3, <2>1 DEF Control
<1>4. CASE pc[w] \in {"sys_destroy", "sys_all"}
  BY <1>a, <1>4 DEF RootAtAll, Control, CriticalPC
<1>. QED  BY <1>a, <1>2, <1>3, <1>4, Effects DEF Effect, MayChange

\* Whether a pid is monitored changes only by the hand of the pid itself, of
\* root or of its owner: the permission checks of my_syscall hold up against
\* exits, reused pids and lists that are emptied in between.
THEOREM OnlyAuthorisedChanges == SpecLoaded => Authorised
<1>1. LInv /\ [NextLoaded]_vars =>
        [\A s \in Rows, q \in Pids :
          (q \in Monitored(s)) # (q \in Monitored(s))' =>
              \/ pidlist_lock \in {LOADER, q}
              \/ pidlist_lock \in Pids /\ uid[pidlist_lock] \in {0, uid[q]}]_vars
  BY ChangesAreAuthorised DEF NextLoaded
<1>2. SpecLoaded => []LInv
  BY InitLInv, StepLInv, PTL DEF SpecLoaded
<1>. QED  BY <1>1, <1>2, PTL DEF SpecLoaded, Authorised

-----------------------------------------------------------------------------
(* What interceptor decides *)

\* The answer that is right now has been noted.
Heard(p) == pc[p] \in IntPC => Truth(p) \subseteq seen[p]

\* a stands in the list, and b there or behind it.
Before(l, a, b) ==
    \E i \in 1 .. Len(l) : \E j \in i .. Len(l) : l[i] = a /\ l[j] = b

\* A walk that stands on a node has not passed the node of p, if there is one.
InOrder(p) ==
    /\ mode[p] \in {1, 2}
    /\ mode[p] = 2 <=> monitored[call[p]] = 2
    /\ Listed(call[p], p) /\ cur[p] \in Pids => Before(my_list[call[p]], cur[p], p)

\* So it is as long as the node has not been freed under the walk and only one
\* answer has been right since the call entered interceptor.
Walked(p) ==
    pc[p] = "int_walk" /\ cur[p] # FREED /\ ~(BOOLEAN \subseteq seen[p]) => InOrder(p)

LogInv == LInv /\ \A p \in Pids : Heard(p) /\ Walked(p)

\* is_pid_monitored in each of the three modes of a row.
LEMMA Status ==
    ASSUME NEW s, NEW p
    PROVE  /\ monitored[s] = 0 => is_pid_monitored(p, s) = FALSE
           /\ monitored[s] = 1 => is_pid_monitored(p, s) = Listed(s, p)
           /\ monitored[s] = 2 => is_pid_monitored(p, s) = ~Listed(s, p)
<1>1. ASSUME monitored[s] = 0 PROVE is_pid_monitored(p, s) = FALSE
  BY <1>1 DEF is_pid_monitored
<1>2. ASSUME monitored[s] = 1 PROVE is_pid_monitored(p, s) = Listed(s, p)
  BY <1>2 DEF is_pid_monitored
<1>3. ASSUME monitored[s] = 2 PROVE is_pid_monitored(p, s) = ~Listed(s, p)
  BY <1>3 DEF is_pid_monitored
<1>. QED  BY <1>1, <1>2, <1>3

\* What check_pid_monitored's result leads to in each mode.
LEMMA AnswerFacts ==
    ASSUME NEW p
    PROVE  /\ Answer(p, TRUE) = IF mode[p] = 1 THEN "int_log" ELSE "int_call"
           /\ Answer(p, FALSE) = IF mode[p] = 1 THEN "int_call" ELSE "int_log"
BY DEF Answer

\* While only one answer has been right, nobody is rewriting the row, and the
\* answer is the one that has been noted.
LEMMA OneAnswer ==
    ASSUME NEW p \in Pids, pc[p] \in IntPC, Heard(p), ~(BOOLEAN \subseteq seen[p])
    PROVE  /\ ~Unsettled(call[p])
           /\ is_pid_monitored(p, call[p]) \in seen[p]
BY DEF Heard, Truth

\* A process's step moves nobody else.
LEMMA OthersStand ==
    ASSUME TypeOK, NEW w \in Pids, Process(w), NEW p \in Pids \ {w}
    PROVE  pc'[p] = pc[p] /\ call'[p] = call[p] /\ mode'[p] = mode[p]
<1>. USE DEF TypeOK, Goto, readVars
<1>1. CASE Dispatch(w)
  BY <1>1 DEF Dispatch, SyscallOrigExit, SyscallMyExit, SyscallCustom, SyscallIntercepted,
    Fork
<1>2. CASE Acquire(w)
  BY <1>2 DEF Acquire, SysInvalid, SysAcquire, ExitAcquire, WriteTable, Return
<1>3. CASE \/ IntCheck(w) \/ IntWalk(w) \/ IntWalkFreed(w) \/ IntLog(w) \/ IntCall(w)
           \/ SysOops(w) \/ SysRefuse(w) \/ HandleIntercept(w) \/ HandleRelease(w)
  BY <1>3 DEF IntCheck, IntWalk, IntWalkFreed, IntLog, IntCall, SysOops, SysRefuse,
    HandleIntercept, HandleRelease, Return, Oops
<1>4. CASE \/ ListOops(w) \/ AddPid(w) \/ AddPidNoMemory(w) \/ DelPid(w) \/ HandleAll(w)
           \/ SysDestroyNode(w) \/ SysDestroyEnd(w) \/ SysMonitorAll(w) \/ ExitOops(w)
           \/ ExitDelNode(w) \/ ExitNextRow(w) \/ ExitUnlock(w) \/ ExitOrig(w)
  BY <1>4 DEF ListOops, AddPid, AddPidNoMemory, DelPid, HandleAll, SysDestroyNode,
    SysDestroyEnd, SysMonitorAll, ExitOops, ExitDelNode, ExitNextRow, ExitUnlock, ExitOrig,
    Return, Oops
<1>. QED  BY <1>1, <1>2, <1>3, <1>4 DEF Process, Advance

\* The steps that a process inside interceptor's walk can take.
LEMMA WalkerSteps ==
    ASSUME TypeOK, NEW p \in Pids, Process(p), pc[p] \in {"int_check", "int_walk"}
    PROVE  IntCheck(p) \/ IntWalk(p) \/ IntWalkFreed(p)
BY DEF Process, Dispatch, Acquire, Advance, SyscallOrigExit, SyscallMyExit, SyscallCustom,
  SyscallIntercepted, Fork, SysInvalid, SysAcquire, ExitAcquire, WriteTable, IntLog,
  IntCall, SysOops, SysRefuse, HandleIntercept, HandleRelease, ListOops, AddPid,
  AddPidNoMemory, DelPid, HandleAll, SysDestroyNode, SysDestroyEnd, SysMonitorAll, ExitOops,
  ExitDelNode, ExitNextRow, ExitUnlock, ExitOrig, Accepted

\* A step that lands a process in the walk is its switch or its walk.
LEMMA IntoTheWalk ==
    ASSUME IInv, NEW p \in Pids, Process(p), pc'[p] = "int_walk"
    PROVE  IntCheck(p) \/ (IntWalk(p) /\ cur[p] # p /\ NextNode(call[p], cur[p]) # HEAD)
<1>. USE DEF TypeOK, Goto, readVars
<1>a. TypeOK
  BY DEF IInv
<1>1. CASE Dispatch(p)
  BY <1>a, <1>1 DEF Dispatch, SyscallOrigExit, SyscallMyExit, SyscallCustom,
    SyscallIntercepted, Fork
<1>2. CASE Acquire(p)
  BY <1>a, <1>2 DEF Acquire, SysInvalid, SysAcquire, ExitAcquire, WriteTable, Return
<1>3. CASE \/ IntWalkFreed(p) \/ IntLog(p) \/ IntCall(p)
           \/ SysOops(p) \/ SysRefuse(p) \/ HandleIntercept(p) \/ HandleRelease(p)
  BY <1>a, <1>3 DEF IntWalkFreed, IntLog, IntCall, SysOops, SysRefuse, Answer,
    HandleIntercept, HandleRelease, Return, Oops
<1>4. CASE \/ ListOops(p) \/ AddPid(p) \/ AddPidNoMemory(p) \/ DelPid(p) \/ HandleAll(p)
           \/ SysDestroyNode(p) \/ SysDestroyEnd(p) \/ SysMonitorAll(p) \/ ExitOops(p)
           \/ ExitDelNode(p) \/ ExitNextRow(p) \/ ExitUnlock(p) \/ ExitOrig(p)
  BY <1>a, <1>4 DEF ListOops, AddPid, AddPidNoMemory, DelPid, HandleAll, SysDestroyNode,
    SysDestroyEnd, SysMonitorAll, ExitOops, ExitDelNode, ExitNextRow, ExitUnlock, ExitOrig,
    Return, Oops
<1>5. CASE IntWalk(p)
  <2>1. pc[p] = "int_walk" /\ \A found \in BOOLEAN : Answer(p, found) # "int_walk"
    BY <1>5 DEF IntWalk, Answer
  <2>. QED  BY <1>a, <1>5, <2>1 DEF IntWalk
<1>. QED  BY <1>1, <1>2, <1>3, <1>4, <1>5 DEF Process, Advance

\* A node added at the head of a list leaves the others in their order.
LEMMA ConsKeepsOrder ==
    ASSUME NEW S, NEW l \in Seq(S), NEW q \in S, NEW a, NEW b, Before(l, a, b)
    PROVE  Before(<<q>> \o l, a, b)
<1>. DEFINE m == <<q>> \o l
<1>1. PICK i \in 1 .. Len(l) : \E j \in i .. Len(l) : l[i] = a /\ l[j] = b
  BY DEF Before
<1>2. PICK j \in i .. Len(l) : l[i] = a /\ l[j] = b
  BY <1>1
<1>3. /\ Len(m) = Len(l) + 1 /\ Len(l) \in Nat
      /\ \A k \in 1 .. Len(l) + 1 : m[k] = IF k = 1 THEN q ELSE l[k - 1]
  BY ConsFacts
<1>. HIDE DEF m
<1>4. /\ i + 1 \in 1 .. Len(m) /\ j + 1 \in i + 1 .. Len(m)
      /\ m[i + 1] = a /\ m[j + 1] = b
  BY <1>2, <1>3
<1>5. Before(m, a, b)
  BY <1>4 DEF Before
<1>. QED  BY <1>5 DEF m

\* So does a node that is taken out.
LEMMA DropAtKeepsOrder ==
    ASSUME NEW S, NEW l \in Seq(S), NEW k \in 1 .. Len(l), NEW a, NEW b,
           Before(l, a, b), l[k] # a, l[k] # b
    PROVE  Before(DropAt(l, k), a, b)
<1>. DEFINE d == DropAt(l, k)
<1>1. PICK i \in 1 .. Len(l) : \E j \in i .. Len(l) : l[i] = a /\ l[j] = b
  BY DEF Before
<1>2. PICK j \in i .. Len(l) : l[i] = a /\ l[j] = b
  BY <1>1
<1>3. /\ Len(d) = Len(l) - 1 /\ Len(l) \in Nat
      /\ \A n \in 1 .. Len(l) - 1 : d[n] = IF n < k THEN l[n] ELSE l[n + 1]
  BY DropAtFacts
<1>4. i # k /\ j # k
  BY <1>2
<1>. HIDE DEF d
<1>. DEFINE x == IF i < k THEN i ELSE i - 1
            y == IF j < k THEN j ELSE j - 1
<1>5. x \in 1 .. Len(d) /\ y \in x .. Len(d)
  BY <1>3, <1>4
<1>6. d[x] = a
  BY <1>2, <1>3, <1>4
<1>7. d[y] = b
  BY <1>2, <1>3, <1>4
<1>. HIDE DEF x, y
<1>8. Before(d, a, b)
  BY <1>5, <1>6, <1>7 DEF Before
<1>. QED  BY <1>8 DEF d

\* In a list without duplicates the pid whose node is taken out is gone.
LEMMA DropAtRemoves ==
    ASSUME NEW S, NEW l \in Seq(S), NEW k \in 1 .. Len(l), NoDuplicates(l)
    PROVE  \A n \in 1 .. Len(DropAt(l, k)) : DropAt(l, k)[n] # l[k]
<1>. DEFINE d == DropAt(l, k)
<1>1. /\ Len(d) = Len(l) - 1 /\ Len(l) \in Nat
      /\ \A n \in 1 .. Len(l) - 1 : d[n] = IF n < k THEN l[n] ELSE l[n + 1]
  BY DropAtFacts
<1>. HIDE DEF d
<1>2. ASSUME NEW n \in 1 .. Len(d) PROVE d[n] # l[k]
  <2>1. CASE n < k
    BY <1>1, <2>1 DEF NoDuplicates
  <2>2. CASE ~(n < k)
    BY <1>1, <2>2 DEF NoDuplicates
  <2>. QED  BY <2>1, <2>2
<1>. QED  BY <1>2 DEF d

\* A walk that has not reached p's node goes on to one that is not behind it.
LEMMA NextInOrder ==
    ASSUME TypeOK, NEW s \in Rows, NEW c \in Pids \cup {HEAD}, NEW p \in Pids \ {c},
           NoDuplicates(my_list[s]), Listed(s, p),
           c \in Pids => Before(my_list[s], c, p)
    PROVE  NextNode(s, c) \in Pids /\ Before(my_list[s], NextNode(s, c), p)
<1>. DEFINE l == my_list[s]
<1>1. l \in Seq(Pids) /\ Len(l) \in Nat
  BY DEF TypeOK
<1>2. CASE c = HEAD
  <2>1. PICK j \in 1 .. Len(l) : l[j] = p
    BY DEF Listed
  <2>2. NextNode(s, c) = l[1] /\ 1 \in 1 .. Len(l)
    BY <1>1, <1>2, <2>1 DEF NextNode
  <2>3. Before(l, l[1], p)
    BY <2>1, <2>2 DEF Before
  <2>. QED  BY <1>1, <2>2, <2>3
<1>3. CASE c # HEAD
  <2>1. PICK i \in 1 .. Len(l) : \E j \in i .. Len(l) : l[i] = c /\ l[j] = p
    BY <1>3 DEF Before
  <2>2. PICK j \in i .. Len(l) : l[i] = c /\ l[j] = p
    BY <2>1
  <2>3. Listed(s, c)
    BY <2>2 DEF Listed
  <2>4. Position(s, c) \in 1 .. Len(l) /\ l[Position(s, c)] = c
    BY <1>1, <2>3, PositionFacts
  <2>5. Position(s, c) = i
    BY <2>2, <2>4 DEF NoDuplicates
  <2>6. i # j
    BY <2>2
  <2>7. i + 1 \in 1 .. Len(l) /\ j \in i + 1 .. Len(l)
    BY <1>1, <2>6
  <2>8. NextNode(s, c) = l[i + 1]
    BY <1>1, <1>3, <2>5, <2>7 DEF NextNode
  <2>9. Before(l, l[i + 1], p)
    BY <2>2, <2>7 DEF Before
  <2>. QED  BY <1>1, <2>7, <2>8, <2>9
<1>. QED  BY <1>2, <1>3

-----------------------------------------------------------------------------
(* The invariant of the walk *)

Noted == seen' = [p \in Pids |-> IF pc'[p] \in IntPC THEN seen[p] \cup Truth(p)' ELSE {}]

\* Between two looks of the same call at the row, answers are only added.
LEMMA HeardMore ==
    ASSUME Noted, NEW p \in Pids, pc'[p] \in IntPC
    PROVE  seen'[p] = seen[p] \cup Truth(p)'
BY DEF Noted

\* The steps of others keep a walk in order, or make both answers right.
LEMMA OthersKeepOrder ==
    ASSUME LogInv, Noted, NEW w \in Pids, Process(w), NEW p \in Pids \ {w},
           pc'[p] = "int_walk", cur'[p] # FREED, ~(BOOLEAN \subseteq seen'[p])
    PROVE  InOrder(p)'
<1>a. /\ IInv /\ mod = "in" /\ TypeOK /\ Control /\ Cursors /\ RowConsistent
      /\ Heard(p) /\ Walked(p)
  BY DEF LogInv, LInv, IInv
<1>s. PICK s \in Rows : s = call[p]
  BY <1>a DEF TypeOK
<1>b. pc[p] = "int_walk" /\ call'[p] = s /\ mode'[p] = mode[p]
  BY <1>a, <1>s, OthersStand
<1>c. seen'[p] = seen[p] \cup Truth(p)'
  BY HeardMore DEF IntPC
<1>d. ~(BOOLEAN \subseteq seen[p])
  BY <1>c
<1>e. ~Unsettled(s) /\ is_pid_monitored(p, s) \in seen'[p]
  BY <1>a, <1>s, <1>b, <1>c, <1>d, OneAnswer DEF IntPC
<1>f. is_pid_monitored(p, s)' \in seen'[p]
  BY <1>b, <1>c DEF Truth, is_pid_monitored, Listed
<1>g. cur[p] # FREED => InOrder(p)
  BY <1>a, <1>b, <1>d DEF Walked
<1>. DEFINE l == my_list[s]
<1>h. s \in Rows /\ l \in Seq(Pids) /\ NoDuplicates(l) /\ monitored[s] \in 0 .. 2
  BY <1>a DEF TypeOK, RowConsistent, RowOK
<1>1. CASE Quietly(w)
  <2>1. cur'[p] = cur[p] /\ UNCHANGED <<my_list, monitored>>
    BY <1>1 DEF Quietly
  <2>. QED  BY <1>b, <1>s, <1>g, <2>1 DEF InOrder, Listed
<1>2. ASSUME NEW t \in Rows, NEW q \in Pids, Adds(t, q) PROVE InOrder(p)'
  <2>1. cur'[p] = cur[p] /\ InOrder(p)
    BY <1>2, <1>g DEF Adds
  <2>2. CASE t # s
    <3>1. my_list'[s] = l /\ monitored'[s] = monitored[s]
      BY <1>2, <1>a, <1>h, <2>2 DEF Adds, TypeOK
    <3>. QED  BY <1>b, <1>s, <2>1, <3>1 DEF InOrder, Listed
  <2>3. CASE t = s
    <3>1. /\ my_list'[s] = <<q>> \o l
          /\ monitored'[s] = IF monitored[s] = 0 THEN 1 ELSE monitored[s]
      BY <1>2, <1>a, <1>h, <2>3 DEF Adds, TypeOK
    <3>2. q # p
      <4>. SUFFICES ASSUME q = p PROVE FALSE
        OBVIOUS
      <4>1. ~Listed(s, p)
        BY <1>2, <2>3 DEF Adds
      <4>2. /\ Len(my_list'[s]) = Len(l) + 1 /\ Len(l) \in Nat
            /\ my_list'[s][1] = p
        BY <1>h, <3>1, ConsFacts
      <4>3. 1 \in 1 .. Len(my_list'[s])
        BY <4>2
      <4>4. Listed(s, p)'
        BY <4>2, <4>3 DEF Listed
      <4>5. CASE monitored[s] = 2
        <5>1. is_pid_monitored(p, s) = TRUE
          BY <4>1, <4>5, Status
        <5>2. monitored'[s] = 2
          BY <3>1, <4>5
        <5>3. is_pid_monitored(p, s)' = FALSE
          BY <4>4, <5>2 DEF is_pid_monitored
        <5>. QED  BY <1>e, <1>f, <5>1, <5>3
      <4>6. CASE monitored[s] \in {0, 1}
        <5>1. is_pid_monitored(p, s) = FALSE
          <6>1. CASE monitored[s] = 0
            BY <6>1, Status
          <6>2. CASE monitored[s] = 1
            BY <4>1, <6>2 DEF is_pid_monitored
          <6>. QED  BY <4>6, <6>1, <6>2
        <5>2. monitored'[s] = 1
          BY <3>1, <4>6
        <5>3. is_pid_monitored(p, s)' = TRUE
          BY <4>4, <5>2 DEF is_pid_monitored
        <5>. QED  BY <1>e, <1>f, <5>1, <5>3
      <4>. QED  BY <1>h, <4>5, <4>6
    <3>3. Listed(s, p)' <=> Listed(s, p)
      BY <1>2, <1>a, <1>h, <3>2, OthersListed
    <3>4. \A a, b \in Pids : Before(l, a, b) => Before(my_list'[s], a, b)
      BY <1>h, <3>1, ConsKeepsOrder
    <3>5. mode[p] = 2 <=> monitored'[s] = 2
      BY <1>s, <1>h, <2>1, <3>1 DEF InOrder
    <3>. QED  BY <1>b, <1>s, <2>1, <3>3, <3>4, <3>5 DEF InOrder, Listed
  <2>. QED  BY <2>2, <2>3
<1>3. ASSUME NEW t \in Rows, NEW q \in Pids, Drops(t, q) PROVE InOrder(p)'
  <2>1. /\ ~(t = s /\ cur[p] = q) /\ cur'[p] = cur[p]
    BY <1>3, <1>b, <1>s DEF Drops, DelNode, CursAfterFree
  <2>2. InOrder(p)
    BY <1>g, <2>1
  <2>3. CASE t # s
    <3>1. my_list'[s] = l /\ monitored'[s] = monitored[s]
      BY <1>3, <1>a, <1>h, <2>3 DEF Drops, DelNode, TypeOK
    <3>. QED  BY <1>b, <1>s, <2>1, <2>2, <3>1 DEF InOrder, Listed
  <2>4. CASE t = s
    <3>. DEFINE k == Position(s, q)
    <3>1. k \in 1 .. Len(l) /\ l[k] = q
      BY <1>3, <1>h, <2>4, PositionFacts DEF Drops
    <3>2. my_list'[s] = DropAt(l, k)
      BY <1>3, <1>a, <1>h, <2>4 DEF Drops, DelNode, TypeOK
    <3>3. monitored'[s] = 2 <=> monitored[s] = 2
      BY <1>3, <1>a, <1>h, <2>4 DEF Drops, DelNode, TypeOK
    <3>. HIDE DEF k, l
    <3>4. Listed(s, p)' => q # p
      BY <1>h, <3>1, <3>2, DropAtRemoves DEF Listed
    <3>5. Listed(s, p)' => Listed(s, p)
      BY <1>3, <1>a, <1>h, <3>4, OthersListed
    <3>6. ASSUME Before(l, cur[p], p), q # p PROVE Before(my_list'[s], cur[p], p)
      BY <1>h, <2>1, <2>4, <3>1, <3>2, <3>6, DropAtKeepsOrder
    <3>. QED  BY <1>b, <1>s, <2>1, <2>2, <3>3, <3>4, <3>5, <3>6 DEF InOrder, Listed, l
  <2>. QED  BY <2>3, <2>4
<1>4. ASSUME pc[w] \in {"sys_destroy", "sys_all"}, req[w].syscall \in Rows,
             Rewrites(req[w].syscall)
      PROVE  InOrder(p)'
  <2>1. s # req[w].syscall
    BY <1>4, <1>e DEF Unsettled
  <2>2. my_list'[s] = l /\ monitored'[s] = monitored[s] /\ cur'[p] = cur[p]
    BY <1>4, <1>s, <1>h, <2>1 DEF Rewrites
  <2>. QED  BY <1>b, <1>s, <1>g, <2>2 DEF InOrder, Listed
<1>. QED  BY <1>a, <1>1, <1>2, <1>3, <1>4, Effects DEF Effect

\* A process's own walk goes down the list in order.
LEMMA WalkKeepsOrder ==
    ASSUME LogInv, Noted, NEW p \in Pids, Process(p),
           pc'[p] = "int_walk", cur'[p] # FREED, ~(BOOLEAN \subseteq seen'[p])
    PROVE  InOrder(p)'
<1>a. /\ IInv /\ TypeOK /\ Control /\ Cursors /\ RowConsistent /\ mod = "in"
      /\ Heard(p) /\ Walked(p)
  BY DEF LogInv, LInv, IInv
<1>. DEFINE s == call[p]
            l == my_list[s]
<1>h. s \in Rows /\ l \in Seq(Pids) /\ NoDuplicates(l) /\ monitored[s] \in 0 .. 2
  BY <1>a DEF TypeOK, RowConsistent, RowOK
<1>1. CASE IntCheck(p)
  <2>1. /\ UNCHANGED <<my_list, monitored, call>> /\ monitored[s] # 0
        /\ mode'[p] = monitored[s] /\ cur'[p] = HEAD
    BY <1>1, <1>a DEF IntCheck, Goto, rowVars, TypeOK
  <2>. QED  BY <1>h, <2>1, PidsAssumption DEF InOrder, HEAD
<1>2. CASE IntWalk(p) /\ cur[p] # p /\ NextNode(call[p], cur[p]) # HEAD
  <2>1. /\ UNCHANGED <<my_list, monitored, call, mode>> /\ cur[p] # FREED
        /\ pc[p] = "int_walk" /\ cur'[p] = NextNode(s, cur[p])
    BY <1>2, <1>a DEF IntWalk, rowVars, TypeOK
  <2>2. InOrder(p)
    BY <1>a, <2>1, HeardMore DEF Walked, IntPC
  <2>3. cur[p] \in Pids \cup {HEAD}
    BY <1>a, <2>1 DEF TypeOK
  <2>4. ASSUME Listed(s, p) PROVE Before(l, NextNode(s, cur[p]), p)
    BY <1>a, <1>h, <1>2, <2>2, <2>3, <2>4, NextInOrder DEF InOrder
  <2>. QED  BY <2>1, <2>2, <2>4 DEF InOrder, Listed
<1>. QED  BY <1>a, <1>1, <1>2, IntoTheWalk

\* Every step between insmod and rmmod keeps it.
LEMMA StepLogInv == LogInv /\ [NextLog]_<<vars, seen>> => LogInv'
<1>. SUFFICES ASSUME LogInv, [NextLog]_<<vars, seen>> PROVE LogInv'
  OBVIOUS
<1>1. LInv'
  BY StepLInv DEF LogInv, NextLog
<1>2. CASE NextLog
  <2>1. PICK w \in Pids : Process(w)
    BY <1>2 DEF NextLog, NextLoaded
  <2>2. Noted
    BY <1>2 DEF NextLog, Noted
  <2>3. ASSUME NEW p \in Pids PROVE Heard(p)'
    BY <2>2, HeardMore DEF Heard
  <2>4. ASSUME NEW p \in Pids PROVE Walked(p)'
    BY <2>1, <2>2, OthersKeepOrder, WalkKeepsOrder DEF Walked
  <2>. QED  BY <1>1, <2>3, <2>4 DEF LogInv
<1>3. CASE UNCHANGED <<vars, seen>>
  <2>. USE DEF vars, rowVars, readVars
  <2>1. ASSUME NEW p \in Pids PROVE Heard(p)'
    BY <1>3 DEF LogInv, Heard, Truth, Unsettled, is_pid_monitored, Listed
  <2>2. ASSUME NEW p \in Pids PROVE Walked(p)'
    BY <1>3 DEF LogInv, Walked, InOrder, Listed
  <2>. QED  BY <1>1, <2>1, <2>2 DEF LogInv
<1>. QED  BY <1>2, <1>3

\* It holds when init_function has returned.
LEMMA InitLogInv == InitLog => LogInv
<1>1. InitLog => \A p \in Pids : pc[p] = "user"
  BY DEF InitLog, InitLoaded, Quiet
<1>. QED  BY <1>1, InitLInv DEF InitLog, LogInv, Heard, Walked, IntPC

\* The decision: a walk that ends has an answer that was right once.
LEMMA DecisionIsTrue ==
    ASSUME LogInv, NEW w \in Pids, Process(w), NEW p \in Pids,
           pc[p] \in {"int_check", "int_walk"}, cur[p] # FREED
    PROVE  /\ pc'[p] = "int_log" => TRUE \in seen[p]
           /\ pc'[p] = "int_call" => FALSE \in seen[p]
<1>a. /\ IInv /\ TypeOK /\ Control /\ Cursors /\ RowConsistent /\ mod = "in"
      /\ Heard(p) /\ Walked(p)
  BY DEF LogInv, LInv, IInv
<1>1. CASE w # p
  BY <1>a, <1>1, OthersStand
<1>2. CASE BOOLEAN \subseteq seen[p]
  BY <1>2
<1>3. CASE w = p /\ ~(BOOLEAN \subseteq seen[p])
  <2>. DEFINE s == call[p]
              l == my_list[s]
  <2>a. is_pid_monitored(p, s) \in seen[p]
    BY <1>a, <1>3, OneAnswer DEF IntPC
  <2>h. s \in Rows /\ l \in Seq(Pids) /\ NoDuplicates(l) /\ monitored[s] \in 0 .. 2
    BY <1>a DEF TypeOK, RowConsistent, RowOK
  <2>1. CASE IntCheck(p)
    <3>1. pc'[p] = IF monitored[s] = 0 THEN "int_call" ELSE "int_walk"
      BY <1>a, <2>1 DEF IntCheck, Goto, TypeOK
    <3>2. monitored[s] = 0 => FALSE \in seen[p]
      BY <2>a, Status
    <3>. QED  BY <3>1, <3>2
  <2>2. CASE IntWalkFreed(p)
    BY <2>2 DEF IntWalkFreed
  <2>3. CASE IntWalk(p)
    <3>1. InOrder(p) /\ pc[p] = "int_walk"
      BY <1>a, <1>3, <2>3 DEF Walked, IntWalk
    <3>2. CASE cur[p] = p
      <4>1. pc'[p] = Answer(p, TRUE)
        BY <1>a, <2>3, <3>2 DEF IntWalk, Goto, TypeOK
      <4>2. Listed(s, p)
        BY <1>a, <3>1, <3>2 DEF Cursors
      <4>3. monitored[s] # 0
        <5>1. monitored[s] = 0 => l = << >>
          BY <1>a, <2>h DEF RowConsistent, RowOK
        <5>. QED  BY <4>2, <5>1 DEF Listed
      <4>4. CASE mode[p] = 1
        <5>1. monitored[s] = 1
          BY <2>h, <3>1, <4>3, <4>4 DEF InOrder
        <5>. QED  BY <2>a, <4>1, <4>2, <4>4, <5>1, Status, AnswerFacts
      <4>5. CASE mode[p] = 2
        <5>1. monitored[s] = 2
          BY <3>1, <4>5 DEF InOrder
        <5>. QED  BY <2>a, <4>1, <4>2, <4>5, <5>1, Status, AnswerFacts
      <4>. QED  BY <3>1, <4>4, <4>5 DEF InOrder
    <3>3. CASE cur[p] # p /\ NextNode(s, cur[p]) = HEAD
      <4>1. pc'[p] = Answer(p, FALSE)
        BY <1>a, <2>3, <3>3 DEF IntWalk, Goto, TypeOK
      <4>2. ~Listed(s, p)
        <5>. SUFFICES ASSUME Listed(s, p) PROVE FALSE
          OBVIOUS
        <5>1. cur[p] \in Pids \cup {HEAD}
          BY <1>a DEF TypeOK
        <5>2. NextNode(s, cur[p]) \in Pids
          BY <1>a, <2>h, <3>1, <3>3, <5>1, NextInOrder DEF InOrder
        <5>. QED  BY <3>3, <5>2, PidsAssumption DEF HEAD
      <4>3. CASE mode[p] = 1
        <5>1. monitored[s] \in {0, 1}
          BY <2>h, <3>1, <4>3 DEF InOrder
        <5>2. is_pid_monitored(p, s) = FALSE
          <6>1. CASE monitored[s] = 0
            BY <6>1, Status
          <6>2. CASE monitored[s] = 1
            BY <4>2, <6>2 DEF is_pid_monitored
          <6>. QED  BY <5>1, <6>1, <6>2
        <5>. QED  BY <2>a, <4>1, <4>3, <5>2, AnswerFacts
      <4>4. CASE mode[p] = 2
        <5>1. monitored[s] = 2
          BY <3>1, <4>4 DEF InOrder
        <5>. QED  BY <2>a, <4>1, <4>2, <4>4, <5>1, Status, AnswerFacts
      <4>. QED  BY <3>1, <4>3, <4>4 DEF InOrder
    <3>4. CASE cur[p] # p /\ NextNode(s, cur[p]) # HEAD
      BY <2>3, <3>1, <3>4 DEF IntWalk
    <3>. QED  BY <3>2, <3>3, <3>4
  <2>. QED  BY <1>a, <1>3, <2>1, <2>2, <2>3, WalkerSteps
<1>. QED  BY <1>1, <1>2, <1>3

\* interceptor reads a row without a lock, while others add to its list, take
\* from it and switch it; still it logs a call only of a process that was
\* monitored at some moment of the call, and lets one go unlogged only if it
\* was not, unless the walk stood on a node when it was freed.
THEOREM DecidesTruly == SpecLog => LogsTheTruth
<1>1. LogInv /\ [NextLog]_<<vars, seen>> =>
        [\A p \in Pids :
          pc[p] \in {"int_check", "int_walk"} /\ cur[p] # FREED =>
              /\ pc'[p] = "int_log" => TRUE \in seen[p]
              /\ pc'[p] = "int_call" => FALSE \in seen[p]]_<<vars, seen>>
  BY DecisionIsTrue DEF NextLog, NextLoaded
<1>2. SpecLog => []LogInv
  BY InitLogInv, StepLogInv, PTL DEF SpecLog
<1>. QED  BY <1>1, <1>2, PTL DEF SpecLog, LogsTheTruth
=============================================================================
