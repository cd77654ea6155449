---------------------------- MODULE Replacement ----------------------------
(***************************************************************************)
(* The replacement algorithms of assignment 2 (rand.c, fifo.c, lru.c,      *)
(* clock.c, opt.c) plugged into the simulator: replay_trace makes one      *)
(* access per line of the trace, evict_fcn chooses the frame to give up    *)
(* and ref_fcn sees every access.  main picks the algorithm and the trace. *)
(***************************************************************************)
EXTENDS Paging, SequencesExt

CONSTANTS
    Algs,           \* the algorithms -a may name
    Traces,         \* the traces -f may name: sequences of [type, page]
    TIMESTAMP_BITS, \* the width of lru.c's unsigned timestamps
    BUCKET_SIZE     \* opt.c's divisor of memsize

ASSUME AlgsAssumption == Algs \subseteq {"rand", "fifo", "lru", "clock", "opt"}
ASSUME TracesAssumption ==
    \A tr \in Traces :
        /\ tr \in Seq([type : Types, page : Pages])
        /\ Len(tr) <= MaxRefs
ASSUME StampAssumption == TIMESTAMP_BITS \in Nat \ {0}
\* With fewer frames opt.c's hash table has no bucket, and opt_init divides by
\* zero.
ASSUME BucketAssumption ==
    BUCKET_SIZE \in Nat \ {0} /\ ("opt" \in Algs => memsize >= BUCKET_SIZE)

VARIABLES
    alg, trace,                 \* what main was called with
    queue,                      \* fifo: the circular queue of frames
    timestamp_list, timestamp,  \* lru
    clock_arm,                  \* clock
    page, beladyTable, curRef,  \* opt: the page of each frame, the coming
                                \* references of each page, the next line
    loaded,     \* history: when the page of each frame was brought in
    chances     \* history: the frames in the order of a second-chance queue

optVars == <<page, beladyTable, curRef>>
algVars == <<queue, timestamp_list, timestamp, clock_arm, optVars>>
histVars == <<loaded, chances>>
allVars == <<vars, alg, trace, algVars, histVars>>

NextStamp_Narrow(n) == (n + 1) % 2 ^ (TIMESTAMP_BITS - 1)

NextStamp(n) == (n + 1) % 2 ^ TIMESTAMP_BITS

-----------------------------------------------------------------------------
(* fifo.c *)

EMPTY_QUEUE_SLOT == -1

makeQueue == [front |-> 0, back |-> 0,
              contents |-> [k \in Frames |-> EMPTY_QUEUE_SLOT]]

enqueue(q, i) ==
    [q EXCEPT !.contents[q.back] = i, !.back = (@ + 1) % memsize]

front(q) == q.contents[q.front]

dequeue(q) ==
    IF front(q) = EMPTY_QUEUE_SLOT THEN q
    ELSE [q EXCEPT !.contents[q.front] = EMPTY_QUEUE_SLOT,
                   !.front = (@ + 1) % memsize]

contains(q, i) == \E k \in Frames : q.contents[k] = i

fifo_evict == front(queue)

fifo_ref_Always(q, i) == enqueue(q, i)

fifo_ref_Inverted(q, i) == IF contains(q, i) THEN enqueue(q, i) ELSE q

fifo_ref(q, i) == IF contains(q, i) THEN q ELSE enqueue(q, i)

-----------------------------------------------------------------------------
(* lru.c *)

\* The first frame with the smallest timestamp.
lru_evict ==
    Min({i \in Frames : \A j \in Frames : timestamp_list[i] <= timestamp_list[j]})

-----------------------------------------------------------------------------
(* clock.c *)

is_referenced(i) == pte[coremap[i]].ref

Ahead(k) == (clock_arm + k) % memsize

\* How often clock_evict's loop turns off a reference bit: once round if they
\* are all on.
Sweep ==
    IF \A i \in Frames : is_referenced(i) THEN memsize
    ELSE Min({k \in Frames : ~is_referenced(Ahead(k))})

clock_evict_Stays == clock_arm

clock_evict == Ahead(Sweep)

turned_off == {Ahead(k) : k \in 0 .. Sweep - 1}

-----------------------------------------------------------------------------
(* opt.c.  Its hash table of dynamic arrays is a function from pages to    *)
(* sequences of times; a page leaves it with its last time.                *)

pageList == [k \in 1 .. Len(trace) |-> trace[k].page]

\* addBeladyPage: the time is appended to the list of page v.
addBeladyPage(table, v, time) == [table EXCEPT ![v] = Append(@, time)]

\* The table after the loop, which adds the lines of the trace from the last to
\* the first; line k has time k - 1.
makeBeladyTable(tr) ==
    LET table[n \in 0 .. Len(tr)] ==
          IF n = 0 THEN [v \in Pages |-> << >>]
          ELSE addBeladyPage(table[n - 1], tr[Len(tr) - n + 1].page, Len(tr) - n)
    IN  table[Len(tr)]

\* An empty sequence stands for the NULL of a page that is not in the table.
hashTableGet(v) == beladyTable[v]

peekNextRefTime(v) ==
    IF hashTableGet(v) = << >> THEN -1 ELSE Last(hashTableGet(v))

popNextRefTime_Keeps(v) == beladyTable

popNextRefTime(v) ==
    [beladyTable EXCEPT ![v] = IF @ = << >> THEN @ ELSE Front(@)]

opt_evict_Latest ==
    LET next(i) == peekNextRefTime(page[i])
    IN  Min({i \in Frames : \A j \in Frames : next(j) <= next(i)})

\* The first frame whose page is not referenced again, or else the frame whose
\* page is referenced last.
opt_evict ==
    LET next(i) == peekNextRefTime(page[i])
        never == {i \in Frames : next(i) = -1}
    IN  IF never # {} THEN Min(never)
        ELSE Min({i \in Frames : \A j \in Frames : next(j) <= next(i)})

-----------------------------------------------------------------------------
(* The simulator *)

InitSim ==
    /\ Init
    /\ alg \in Algs /\ trace \in Traces
    /\ queue = makeQueue
    /\ timestamp_list = [i \in Frames |-> 0] /\ timestamp = 0
    /\ clock_arm = 0
    /\ page = [i \in Frames |-> 0] /\ curRef = 0
    /\ beladyTable = makeBeladyTable(trace)
    /\ loaded = [i \in Frames |-> 0]
    /\ chances = << >>

\* ref_fcn, on the frame the page is in and the queue evict_fcn left.
ref_fcn(i, q) ==
    /\ queue' = IF alg = "fifo" THEN fifo_ref(q, i) ELSE queue
    /\ IF alg = "lru"
       THEN /\ timestamp_list' = [timestamp_list EXCEPT ![i] = timestamp]
            /\ timestamp' = NextStamp(timestamp)
       ELSE UNCHANGED <<timestamp_list, timestamp>>
    /\ IF alg = "opt"
       THEN LET n == pageList[curRef + 1] IN
            /\ page' = [page EXCEPT ![i] = n]
            /\ beladyTable' = popNextRefTime(n)
            /\ curRef' = curRef + 1
       ELSE UNCHANGED optVars

\* random() % memsize
rand_evict == Frames

\* The frames evict_fcn may answer.
evict_fcn ==
    CASE alg = "rand"  -> rand_evict
      [] alg = "fifo"  -> {fifo_evict}
      [] alg = "lru"   -> {lru_evict}
      [] alg = "clock" -> {clock_evict}
      [] alg = "opt"   -> {opt_evict}

\* A second-chance queue: the pages at its head that have been referenced go
\* to the back, the first that has not is replaced by the new one.
Chances(i) ==
    LET n == Len(chances)
        k == IF \A j \in 1 .. n : is_referenced(chances[j]) THEN 1
             ELSE Min({j \in 1 .. n : ~is_referenced(chances[j])})
    IN  SubSeq(chances, k + 1, n) \o SubSeq(chances, 1, k - 1) \o <<i>>

Line == trace[ref_count + 1]

AccessHit ==
    /\ ref_count < Len(trace)
    /\ Hit(Line.page, Line.type)
    /\ ref_fcn(pte[Line.page].frame, queue)
    /\ UNCHANGED <<alg, trace, clock_arm, histVars>>

AccessFree ==
    /\ ref_count < Len(trace)
    /\ \E fault \in Faults \cup {"none"} : MissFree(Line.page, Line.type, fault)
    /\ LET i == pte'[Line.page].frame IN
       /\ ref_fcn(i, queue)
       /\ loaded' = [loaded EXCEPT ![i] = ref_count]
       /\ chances' = Append(chances, i)
    /\ UNCHANGED <<alg, trace, clock_arm>>

AccessEvict ==
    /\ ref_count < Len(trace)
    /\ \A j \in Frames : coremap[j] # NoPage
    /\ \E i \in evict_fcn, fault \in Faults \cup {"none"} :
          /\ MissEvict(Line.page, Line.type, i,
                       IF alg = "clock" THEN turned_off ELSE {}, fault)
          /\ ref_fcn(i, dequeue(queue))
          /\ clock_arm' = IF alg = "clock" THEN (i + 1) % memsize ELSE clock_arm
          /\ loaded' = [loaded EXCEPT ![i] = ref_count]
          /\ chances' = Chances(i)
    /\ UNCHANGED <<alg, trace>>

AccessAbort ==
    /\ ref_count < Len(trace)
    /\ PageinAbort(Line.page)
    /\ UNCHANGED <<alg, trace, algVars, histVars>>

NextSim == AccessHit \/ AccessFree \/ AccessEvict \/ AccessAbort

SpecSim == InitSim /\ [][NextSim]_allVars

-----------------------------------------------------------------------------
(* Properties *)

\* allocate_frame uses evict_fcn's answer as an index without a check: when
\* memory is full, every algorithm answers a frame.
EvictAnswersFrame ==
    (\A j \in Frames : coremap[j] # NoPage) => evict_fcn \subseteq Frames

\* The step gives up the page in frame i.
Evicts(i) == coremap[i] # NoPage /\ coremap'[i] # coremap[i]

\* Lines of the trace that have been replayed and reference the page of i.
Uses(i) == {k \in 1 .. ref_count : trace[k].page = coremap[i]}

\* fifo evicts the page that has been in memory longest.
FifoOldest ==
    [][\A i, j \in Frames :
          alg = "fifo" /\ Evicts(i) => loaded[i] <= loaded[j]]_allVars

\* lru evicts the page whose last reference is furthest back, as long as the
\* timestamps have not wrapped ("accurate within 2^32 - 1 references").
LruExact ==
    [][\A i, j \in Frames :
          alg = "lru" /\ Evicts(i) /\ ref_count <= 2 ^ TIMESTAMP_BITS =>
              \A a \in Uses(i) : \E b \in Uses(j) : a <= b]_allVars

\* clock is second chance: the hand and the frames it passes are the queue in
\* which referenced pages are sent back, and it gives up the page at its head.
ClockSecondChance ==
    [][\A i \in Frames : alg = "clock" /\ Evicts(i) =>
          LET earlier == {j \in Frames : \E a, b \in 1 .. Len(chances) :
                             a < b /\ chances[a] = j /\ chances[b] = i}
          IN  IF is_referenced(i)
              THEN earlier = {} /\ \A j \in Frames : is_referenced(j)
              ELSE \A j \in earlier : is_referenced(j)]_allVars

\* The lines still to come that reference page v.
Coming(v) == {k \in ref_count + 1 .. Len(trace) : trace[k].page = v}

\* opt evicts a page that no other page in memory outlasts.
OptFurthest ==
    [][\A i, j \in Frames : alg = "opt" /\ Evicts(i) =>
          \A a \in Coming(coremap[i]) :
              \E b \in Coming(coremap[j]) : b <= a]_allVars

\* What may be in memory after a reference to page v, when the pages in S were:
\* if they fill it, any one of them may be given up for v.
Served(S, v) ==
    IF v \in S THEN {S}
    ELSE IF Cardinality(S) < memsize THEN {S \cup {v}}
    ELSE {(S \ {w}) \cup {v} : w \in S}

\* The fewest misses with which a trace can be replayed, from those of its last
\* k lines when the pages in S are in memory.
FewestMisses(tr) ==
    LET fewest[k \in 0 .. Len(tr)] ==
          [S \in SUBSET Pages |->
              IF k = 0 THEN 0
              ELSE LET v == tr[Len(tr) - k + 1].page
                       rest == {fewest[k - 1][T] : T \in Served(S, v)}
                   IN  (IF v \in S THEN 0 ELSE 1) + Min(rest)]
    IN  fewest[Len(tr)][{}]

\* Belady's theorem for this code: a trace replayed to its end under opt has
\* missed no more often than any choice of victims would.
OptMinimal ==
    alg = "opt" /\ ref_count = Len(trace) => miss_count = FewestMisses(trace)

\* Swap space is not leaked: every slot that is marked is some page's, so a page
\* is only lost when every slot is taken by another one.
SlotsAccounted ==
    "pageout" \notin Faults =>
        \A b \in swapmap : b < swapsize => \E v \in Pages : pte[v].swap_off = b

=============================================================================
