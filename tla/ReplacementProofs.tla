------------------------- MODULE ReplacementProofs -------------------------
(***************************************************************************)
(* Proofs about the replacement algorithms, for every trace and every size *)
(* of memory: plugged into the simulator each of them answers a frame that *)
(* exists, so that the theorems of PagingProofs carry over; fifo, lru,     *)
(* clock and opt evict the page their definition says; and opt misses no   *)
(* more often than any choice of victims could (Belady's theorem).         *)
(***************************************************************************)
EXTENDS Replacement, PagingProofs, SequenceTheorems

-----------------------------------------------------------------------------
(* Arithmetic and sequences *)

\* Turning the clock hand or the queue of m places by k: at most once round.
LEMMA Turn ==
    ASSUME NEW m \in Nat \ {0}, NEW a \in 0 .. m - 1, NEW k \in 0 .. m
    PROVE  (a + k) % m = IF a + k < m THEN a + k ELSE a + k - m
OBVIOUS

\* The range of a timestamp.
LEMMA StampRange == 2 ^ TIMESTAMP_BITS \in Nat \ {0}
<1>. DEFINE S == 1 .. TIMESTAMP_BITS
<1>1. IsFiniteSet(S) /\ Cardinality(S) = TIMESTAMP_BITS
  BY StampAssumption, FS_Interval
<1>2. IsFiniteSet(SUBSET S) /\ Cardinality(SUBSET S) = 2 ^ TIMESTAMP_BITS
  BY <1>1, FS_SUBSET
<1>3. SUBSET S # {}
  OBVIOUS
<1>. HIDE DEF S
<1>. QED  BY <1>2, <1>3, FS_EmptySet, FS_CardinalityType

\* Among finitely many frames one has the smallest value.
LEMMA SmallestFrame ==
    ASSUME NEW f \in [Frames -> Nat]
    PROVE  \E i \in Frames : \A j \in Frames : f[i] <= f[j]
<1>. DEFINE values == {f[j] : j \in Frames}
<1>1. values \subseteq Nat /\ values # {}
  BY SizesAssumption DEF Frames
<1>2. Min(values) \in values /\ \A y \in values : Min(values) <= y
  <2>. HIDE DEF values
  <2>. QED  BY <1>1, MinFacts
<1>. QED  BY <1>2

\* The smallest frame of a set is one of its frames.
LEMMA FirstFrame ==
    ASSUME NEW S, S \subseteq Frames, S # {}
    PROVE  Min(S) \in S /\ \A i \in S : Min(S) <= i
<1>1. S \subseteq Nat
  BY DEF Frames
<1>. QED  BY <1>1, MinFacts

-----------------------------------------------------------------------------
(* opt: the table of coming references *)

\* table holds the table after each of the first n turns of the loop.
IsBuilt(table, tr, m) ==
    table = [n \in 0 .. m |->
               IF n = 0 THEN [v \in Pages |-> << >>]
               ELSE addBeladyPage(table[n - 1], tr[Len(tr) - n + 1].page, Len(tr) - n)]

\* The loop can be run for any number of turns.
LEMMA BuiltExists ==
    ASSUME NEW tr, NEW m \in Nat
    PROVE  \E table : IsBuilt(table, tr, m)
<1>. DEFINE Bad == {n \in Nat : ~\E table : IsBuilt(table, tr, n)}
            Turned(t, n) == addBeladyPage(t, tr[Len(tr) - n + 1].page, Len(tr) - n)
            empty == [v \in Pages |-> << >>]
<1>1. SUFFICES ASSUME Bad # {} PROVE FALSE
  BY <1>1
<1>2. Min(Bad) \in Bad /\ \A n \in Bad : Min(Bad) <= n
  <2>1. Bad \subseteq Nat
    OBVIOUS
  <2>. HIDE DEF Bad
  <2>. QED  BY <1>1, <2>1, MinFacts
<1>3. PICK n \in Nat : n \in Bad /\ \A i \in Bad : n <= i
  BY <1>2
<1>4. n # 0
  <2>1. IsBuilt([i \in 0 .. 0 |-> empty], tr, 0)
    BY DEF IsBuilt
  <2>. QED  BY <1>3, <2>1
<1>5. n - 1 \in Nat /\ n - 1 \notin Bad
  BY <1>3, <1>4
<1>6. PICK table : IsBuilt(table, tr, n - 1)
  BY <1>5
<1>. DEFINE longer == [i \in 0 .. n |-> IF i = n THEN Turned(table[n - 1], n) ELSE table[i]]
<1>7. \A i \in 0 .. n - 1 : table[i] = IF i = 0 THEN empty ELSE Turned(table[i - 1], i)
  BY <1>6 DEF IsBuilt
<1>. HIDE DEF Turned, empty
<1>8. \A i \in 0 .. n : longer[i] = IF i = 0 THEN empty ELSE Turned(longer[i - 1], i)
  BY <1>4, <1>5, <1>7
<1>9. IsBuilt(longer, tr, n)
  BY <1>8 DEF IsBuilt, Turned, empty
<1>. QED  BY <1>3, <1>9

\* times is the list of the lines after line n that reference page v, the last
\* one first; line k has time k - 1.
IsList(times, tr, v, n) ==
    /\ times \in Seq(Nat)
    /\ \A a, b \in 1 .. Len(times) : a < b => times[a] > times[b]
    /\ \A a \in 1 .. Len(times) : times[a] \in n .. Len(tr) - 1 /\ tr[times[a] + 1].page = v
    /\ \A k \in n .. Len(tr) - 1 : tr[k + 1].page = v => \E a \in 1 .. Len(times) : times[a] = k

\* The table lists every page's references after line n.
IsTable(table, tr, n) ==
    /\ table = [v \in Pages |-> table[v]]
    /\ \A v \in Pages : IsList(table[v], tr, v, n)

\* One turn of the loop puts line n at the end of its page's list.
LEMMA TurnLists ==
    ASSUME NEW tr, Len(tr) \in Nat, NEW n \in 1 .. Len(tr), tr[n].page \in Pages,
           NEW table, IsTable(table, tr, n)
    PROVE  IsTable(addBeladyPage(table, tr[n].page, n - 1), tr, n - 1)
<1>. DEFINE v == tr[n].page
            longer == Append(table[v], n - 1)
            new == addBeladyPage(table, v, n - 1)
<1>1. /\ new = [w \in Pages |-> new[w]]
      /\ new[v] = longer
      /\ \A w \in Pages \ {v} : new[w] = table[w]
  BY DEF addBeladyPage, IsTable
<1>. HIDE DEF new
<1>2. IsList(table[v], tr, v, n) /\ table[v] \in Seq(Nat)
  BY DEF IsTable, IsList
<1>. DEFINE l == Len(table[v])
<1>3. /\ longer \in Seq(Nat) /\ l \in Nat /\ Len(longer) = l + 1
      /\ \A a \in 1 .. l : longer[a] = table[v][a]
      /\ longer[l + 1] = n - 1
  BY <1>2
<1>. HIDE DEF longer, l
<1>4. /\ \A a, b \in 1 .. l : a < b => table[v][a] > table[v][b]
      /\ \A a \in 1 .. l : table[v][a] \in n .. Len(tr) - 1 /\ tr[table[v][a] + 1].page = v
      /\ \A k \in n .. Len(tr) - 1 : tr[k + 1].page = v => \E a \in 1 .. l : table[v][a] = k
  BY <1>2 DEF IsList, l
<1>. DEFINE e == Len(tr)
<1>0. e \in Nat /\ n \in 1 .. e
  OBVIOUS
<1>. HIDE DEF e
<1>5. ASSUME NEW a \in 1 .. l + 1, NEW b \in 1 .. l + 1, a < b
      PROVE  longer[a] > longer[b]
  <2>0. a \in 1 .. l
    BY <1>3, <1>5
  <2>1. longer[a] = table[v][a] /\ table[v][a] \in n .. e - 1
    BY <1>3, <1>4, <2>0 DEF e
  <2>2. CASE b = l + 1
    BY <1>0, <1>3, <2>0, <2>1, <2>2
  <2>3. CASE b # l + 1
    BY <1>3, <1>4, <1>5, <2>0, <2>1, <2>3
  <2>. QED  BY <2>2, <2>3
<1>6. ASSUME NEW a \in 1 .. l + 1
      PROVE  longer[a] \in n - 1 .. e - 1 /\ tr[longer[a] + 1].page = v
  <2>1. CASE a = l + 1
    <3>1. longer[a] = n - 1 /\ n - 1 + 1 = n
      BY <1>0, <1>3, <2>1
    <3>. QED  BY <1>0, <3>1
  <2>2. CASE a # l + 1
    <3>1. a \in 1 .. l /\ longer[a] = table[v][a] /\ table[v][a] \in n .. e - 1
      BY <1>3, <1>4, <2>2 DEF e
    <3>. QED  BY <1>0, <1>4, <3>1
  <2>. QED  BY <2>1, <2>2
<1>7. ASSUME NEW k \in n - 1 .. e - 1, tr[k + 1].page = v
      PROVE  \E a \in 1 .. l + 1 : longer[a] = k
  <2>1. CASE k = n - 1
    BY <1>3, <2>1
  <2>2. CASE k # n - 1
    <3>1. k \in n .. e - 1
      BY <1>0, <2>2
    <3>2. PICK a \in 1 .. l : table[v][a] = k
      BY <1>4, <1>7, <3>1 DEF e
    <3>3. a \in 1 .. l + 1 /\ longer[a] = k
      BY <1>3, <3>2
    <3>. QED  BY <3>3
  <2>. QED  BY <2>1, <2>2
<1>8. IsList(new[v], tr, v, n - 1)
  BY <1>1, <1>3, <1>5, <1>6, <1>7 DEF IsList, e
<1>9. ASSUME NEW w \in Pages \ {v} PROVE IsList(new[w], tr, w, n - 1)
  <2>1. IsList(table[w], tr, w, n) /\ new[w] = table[w]
    BY <1>1 DEF IsTable
  <2>2. ASSUME NEW k \in n - 1 .. e - 1, tr[k + 1].page = w
        PROVE  k \in n .. e - 1
    <3>1. k # n - 1
      BY <1>0, <2>2
    <3>. QED  BY <1>0, <3>1
  <2>3. \A k \in n .. e - 1 : k \in n - 1 .. e - 1
    BY <1>0
  <2>. QED  BY <2>1, <2>2, <2>3 DEF IsList, e
<1>. QED  BY <1>1, <1>8, <1>9 DEF IsTable, new

\* makeBeladyTable lists every page's references in decreasing order, as its
\* comment says.
LEMMA BeladyTable ==
    ASSUME NEW tr \in Traces
    PROVE  IsTable(makeBeladyTable(tr), tr, 0)
<1>. DEFINE m == Len(tr)
            table == CHOOSE t : t = [n \in 0 .. m |->
                       IF n = 0 THEN [v \in Pages |-> << >>]
                       ELSE addBeladyPage(t[n - 1], tr[m - n + 1].page, m - n)]
<1>1. makeBeladyTable(tr) = table[m]
  BY Zenon DEF makeBeladyTable
<1>2. table = CHOOSE t : IsBuilt(t, tr, m)
  BY Zenon DEF IsBuilt
<1>3. m \in Nat /\ \A k \in 1 .. m : tr[k].page \in Pages
  <2>1. tr \in Seq([type : Types, page : Pages])
    BY TracesAssumption
  <2>2. m \in Nat
    BY <2>1
  <2>3. ASSUME NEW k \in 1 .. m PROVE tr[k].page \in Pages
    <3>1. tr[k] \in [type : Types, page : Pages]
      BY <2>1, <2>3, ElementOfSeq
    <3>. QED  BY <3>1
  <2>. QED  BY <2>2, <2>3
<1>. HIDE DEF table
<1>4. IsBuilt(table, tr, m)
  BY <1>2, <1>3, BuiltExists
<1>. DEFINE Bad == {n \in 0 .. m : ~IsTable(table[n], tr, m - n)}
<1>5. SUFFICES ASSUME Bad # {} PROVE FALSE
  BY <1>1, <1>3, <1>5
<1>6. Min(Bad) \in Bad /\ \A n \in Bad : Min(Bad) <= n
  <2>1. Bad \subseteq Nat
    OBVIOUS
  <2>. HIDE DEF Bad
  <2>. QED  BY <1>5, <2>1, MinFacts
<1>7. PICK n \in 0 .. m : ~IsTable(table[n], tr, m - n) /\ \A i \in Bad : n <= i
  BY <1>6
<1>8. table[n] = IF n = 0 THEN [v \in Pages |-> << >>]
                 ELSE addBeladyPage(table[n - 1], tr[m - n + 1].page, m - n)
  BY <1>4 DEF IsBuilt
<1>9. CASE n = 0
  <2>1. \A v \in Pages : IsList(<< >>, tr, v, m)
    BY <1>3 DEF IsList
  <2>2. table[0] = [v \in Pages |-> << >>] /\ m - n = m
    BY <1>3, <1>8, <1>9
  <2>3. IsTable(table[0], tr, m)
    BY <2>1, <2>2 DEF IsTable
  <2>. QED  BY <1>7, <1>9, <2>2, <2>3
<1>10. CASE n # 0
  <2>1. n - 1 \in 0 .. m /\ n - 1 \notin Bad /\ m - n + 1 \in 1 .. m
    BY <1>3, <1>7, <1>10
  <2>2. IsTable(table[n - 1], tr, m - n + 1)
    BY <1>3, <2>1
  <2>3. IsTable(addBeladyPage(table[n - 1], tr[m - n + 1].page, m - n + 1 - 1),
                tr, m - n + 1 - 1)
    BY <1>3, <2>1, <2>2, TurnLists
  <2>4. m - n + 1 - 1 = m - n
    BY <1>3
  <2>. QED  BY <1>7, <1>8, <1>10, <2>3, <2>4
<1>. QED  BY <1>9, <1>10

-----------------------------------------------------------------------------
(* What an access does *)

\* alg and trace are two main may be called with.
Inputs == alg \in Algs /\ trace \in Traces

\* Every frame is in use.
Full == \A j \in Frames : coremap[j] # NoPage

\* Free frames are taken in their order.
Prefix == \A i, j \in Frames : j < i /\ coremap[i] # NoPage => coremap[j] # NoPage

\* The next line of the trace is an access to a page.
LEMMA LineFacts ==
    ASSUME TypeOK, Inputs, ref_count < Len(trace)
    PROVE  /\ Len(trace) \in Nat /\ ref_count \in Nat
           /\ Line.page \in Pages /\ Line.type \in Types
           /\ Line = trace[ref_count + 1] /\ ref_count + 1 \in 1 .. Len(trace)
<1>1. trace \in Seq([type : Types, page : Pages])
  BY TracesAssumption DEF Inputs
<1>2. Len(trace) \in Nat /\ ref_count \in Nat
  BY <1>1 DEF TypeOK
<1>3. ref_count + 1 \in 1 .. Len(trace)
  BY <1>2
<1>4. trace[ref_count + 1] \in [type : Types, page : Pages]
  BY <1>1, <1>3, ElementOfSeq
<1>. QED  BY <1>2, <1>3, <1>4 DEF Line

\* The access finds or puts page v in frame i, and ref_fcn sees it with queue q.
Takes(i, v, q) ==
    /\ i \in Frames /\ v \in Pages /\ v = trace[ref_count + 1].page
    /\ Len(trace) \in Nat /\ ref_count \in Nat /\ ref_count < Len(trace)
    /\ ref_count' = ref_count + 1
    /\ coremap' \in [Frames -> Pages \cup {NoPage}]
    /\ coremap'[i] = v
    /\ \A j \in Frames \ {i} : coremap'[j] = coremap[j] /\ coremap[j] # v
    /\ alg' = alg /\ trace' = trace
    /\ ref_fcn(i, q)

\* A hit.
LEMMA HitTakes ==
    ASSUME IInv, Inputs, AccessHit
    PROVE  \E i \in Frames : \E v \in Pages :
             /\ Takes(i, v, queue)
             /\ Hit(v, Line.type) /\ Line.type \in Types
             /\ coremap[i] = v /\ coremap' = coremap
             /\ UNCHANGED <<clock_arm, loaded, chances>>
<1>. DEFINE v == Line.page
            i == pte[v].frame
<1>1. v \in Pages /\ Line.type \in Types /\ Hit(v, Line.type)
  BY LineFacts DEF AccessHit, IInv
<1>2. pte[v].valid /\ i \in Frames
  BY <1>1, HitFacts
<1>3. /\ coremap[i] = v /\ \A j \in Frames \ {i} : coremap[j] # v
      /\ coremap \in [Frames -> Pages \cup {NoPage}]
  BY <1>1, <1>2 DEF IInv, TypeOK, CoremapMatches
<1>4. ref_count' = ref_count + 1 /\ coremap' = coremap
  BY <1>1 DEF Hit, Touch
<1>5. Len(trace) \in Nat /\ ref_count \in Nat /\ ref_count < Len(trace) /\ v = trace[ref_count + 1].page
  BY LineFacts DEF AccessHit, IInv
<1>6. ref_fcn(i, queue) /\ UNCHANGED <<alg, trace, clock_arm, loaded, chances>>
  BY DEF AccessHit, histVars
<1>7. Takes(i, v, queue)
  BY <1>1, <1>2, <1>3, <1>4, <1>5, <1>6 DEF Takes
<1>. QED  BY <1>1, <1>2, <1>3, <1>4, <1>6, <1>7

\* The first free frame is taken.
LEMMA FreeTakes ==
    ASSUME IInv, Inputs, AccessFree
    PROVE  \E i \in Frames : \E v \in Pages : \E fault \in Faults \cup {"none"} :
             /\ Takes(i, v, queue)
             /\ MissFree(v, Line.type, fault) /\ Line.type \in Types
             /\ coremap[i] = NoPage
             /\ \A j \in Frames : j < i => coremap[j] # NoPage
             /\ loaded' = [loaded EXCEPT ![i] = ref_count]
             /\ chances' = Append(chances, i)
             /\ clock_arm' = clock_arm
<1>. DEFINE v == Line.page
            i == pte'[v].frame
            free == {j \in Frames : coremap[j] = NoPage}
<1>1. PICK fault \in Faults \cup {"none"} : MissFree(v, Line.type, fault)
  BY DEF AccessFree
<1>2. v \in Pages /\ Line.type \in Types
  BY LineFacts DEF AccessFree, IInv
<1>3. init_second_level(v) = pte
  BY <1>2, SecondLevel DEF IInv
<1>4. /\ free # {} /\ ~pte[v].valid
      /\ pte' = [pte EXCEPT ![v] = Placed(pte[v], Line.type, Min(free))]
      /\ coremap' = [coremap EXCEPT ![Min(free)] = v]
      /\ ref_count' = ref_count + 1
  BY <1>1, <1>3 DEF MissFree, Touch
<1>5. Min(free) \in free /\ \A j \in free : Min(free) <= j
  <2>1. free \subseteq Frames
    OBVIOUS
  <2>. HIDE DEF free
  <2>. QED  BY <1>4, <2>1, FirstFrame
<1>6. i = Min(free)
  BY <1>2, <1>4 DEF IInv, TypeOK, Placed
<1>7. i \in Frames /\ coremap[i] = NoPage /\ \A j \in Frames : j < i => coremap[j] # NoPage
  <2>1. \A j \in free : i <= j
    BY <1>5, <1>6
  <2>. QED  BY <1>5, <1>6, <2>1 DEF Frames
<1>8. /\ \A j \in Frames : coremap[j] # v
      /\ coremap \in [Frames -> Pages \cup {NoPage}]
  BY <1>2, <1>4 DEF IInv, TypeOK, CoremapMatches
<1>9. Len(trace) \in Nat /\ ref_count \in Nat /\ ref_count < Len(trace) /\ v = trace[ref_count + 1].page
  BY LineFacts DEF AccessFree, IInv
<1>10. /\ ref_fcn(i, queue) /\ UNCHANGED <<alg, trace, clock_arm>>
       /\ loaded' = [loaded EXCEPT ![i] = ref_count]
       /\ chances' = Append(chances, i)
  BY DEF AccessFree
<1>11. coremap' = [coremap EXCEPT ![i] = v]
  BY <1>4, <1>6
<1>. HIDE DEF i, v
<1>12. Takes(i, v, queue)
  BY <1>2, <1>4, <1>7, <1>8, <1>9, <1>10, <1>11 DEF Takes
<1>. QED  BY <1>1, <1>2, <1>7, <1>10, <1>12

\* The frame evict_fcn answers is taken.
LEMMA EvictTakes ==
    ASSUME IInv, Inputs, EvictAnswersFrame, AccessEvict
    PROVE  \E i \in Frames : \E v \in Pages : \E fault \in Faults \cup {"none"} :
             /\ Takes(i, v, dequeue(queue))
             /\ MissEvict(v, Line.type, i, IF alg = "clock" THEN turned_off ELSE {}, fault)
             /\ Line.type \in Types
             /\ Full /\ i \in evict_fcn /\ coremap[i] # v
             /\ loaded' = [loaded EXCEPT ![i] = ref_count]
             /\ chances' = Chances(i)
             /\ clock_arm' = IF alg = "clock" THEN (i + 1) % memsize ELSE clock_arm
<1>. DEFINE v == Line.page
            swept == IF alg = "clock" THEN turned_off ELSE {}
<1>1. PICK i \in evict_fcn, fault \in Faults \cup {"none"} :
        /\ MissEvict(v, Line.type, i, swept, fault)
        /\ ref_fcn(i, dequeue(queue))
        /\ clock_arm' = IF alg = "clock" THEN (i + 1) % memsize ELSE clock_arm
        /\ loaded' = [loaded EXCEPT ![i] = ref_count]
        /\ chances' = Chances(i)
  BY DEF AccessEvict
<1>2. Full /\ i \in Frames
  BY <1>1 DEF AccessEvict, Full, EvictAnswersFrame
<1>3. v \in Pages /\ Line.type \in Types
  BY LineFacts DEF AccessEvict, IInv
<1>4. init_second_level(v) = pte
  BY <1>3, SecondLevel DEF IInv
<1>. HIDE DEF swept
<1>5. /\ ~pte[v].valid
      /\ coremap' = [coremap EXCEPT ![i] = v]
      /\ ref_count' = ref_count + 1
  BY <1>1, <1>4 DEF MissEvict, Touch
<1>6. /\ \A j \in Frames : coremap[j] # v
      /\ coremap \in [Frames -> Pages \cup {NoPage}]
  BY <1>3, <1>5 DEF IInv, TypeOK, CoremapMatches
<1>7. /\ Len(trace) \in Nat /\ ref_count \in Nat /\ ref_count < Len(trace)
      /\ v = trace[ref_count + 1].page /\ alg' = alg /\ trace' = trace
  BY LineFacts DEF AccessEvict, IInv
<1>. HIDE DEF v
<1>8. Takes(i, v, dequeue(queue))
  BY <1>1, <1>2, <1>3, <1>5, <1>6, <1>7 DEF Takes
<1>. QED  BY <1>1, <1>2, <1>3, <1>6, <1>8 DEF swept
-----------------------------------------------------------------------------
(* lru *)

\* Until the timestamps wrap, the timestamp of a frame is the time of the last
\* reference to its page.
LastUses ==
    /\ timestamp_list \in [Frames -> Nat] /\ timestamp \in Nat
    /\ alg = "lru" /\ ref_count <= 2 ^ TIMESTAMP_BITS =>
          /\ ref_count < 2 ^ TIMESTAMP_BITS => timestamp = ref_count
          /\ \A i \in Frames : coremap[i] # NoPage =>
                /\ timestamp_list[i] + 1 \in Uses(i)
                /\ \A a \in Uses(i) : a <= timestamp_list[i] + 1

\* Uses in the terms of a step.
LEMMA UsesAre ==
    ASSUME NEW i
    PROVE  /\ Uses(i) = {k \in 1 .. ref_count : trace[k].page = coremap[i]}
           /\ Uses(i)' = {k \in 1 .. ref_count' : trace'[k].page = coremap'[i]}
BY DEF Uses

\* The last use of the page that is referenced is the line that does so, and
\* no other page's changes.
LEMMA UsesGrow ==
    ASSUME NEW i, NEW v, NEW q, Takes(i, v, q), PagesAssumption
    PROVE  /\ ref_count + 1 \in Uses(i)'
           /\ \A a \in Uses(i)' : a <= ref_count + 1
           /\ \A j \in Frames \ {i} : Uses(j)' = Uses(j)
<1>1. /\ ref_count \in Nat /\ ref_count' = ref_count + 1 /\ trace' = trace
      /\ v = trace[ref_count + 1].page /\ coremap'[i] = v
      /\ \A j \in Frames \ {i} : coremap'[j] = coremap[j] /\ coremap[j] # v
  BY DEF Takes
<1>2. ref_count + 1 \in Uses(i)' /\ \A a \in Uses(i)' : a <= ref_count + 1
  BY <1>1, UsesAre
<1>3. ASSUME NEW j \in Frames \ {i} PROVE Uses(j)' = Uses(j)
  <2>1. \A k \in 1 .. ref_count' : trace'[k].page = coremap'[j]
           <=> k \in 1 .. ref_count /\ trace[k].page = coremap[j]
    BY <1>1
  <2>2. \A k \in 1 .. ref_count : k \in 1 .. ref_count'
    BY <1>1
  <2>. QED  BY <2>1, <2>2, UsesAre
<1>. QED  BY <1>2, <1>3

\* set_timestamp keeps it so.
LEMMA LastUsesStep ==
    ASSUME LastUses, NEW i, NEW v, NEW q, Takes(i, v, q)
    PROVE  LastUses'
<1>. DEFINE M == 2 ^ TIMESTAMP_BITS
<1>0. M \in Nat \ {0}
  BY StampRange
<1>1. /\ i \in Frames /\ ref_count \in Nat /\ ref_count' = ref_count + 1 /\ alg' = alg
      /\ \A j \in Frames \ {i} : coremap'[j] = coremap[j]
  BY DEF Takes
<1>2. CASE alg # "lru"
  <2>1. timestamp_list' = timestamp_list /\ timestamp' = timestamp
    BY <1>2 DEF Takes, ref_fcn
  <2>. QED  BY <1>1, <1>2, <2>1 DEF LastUses
<1>3. CASE alg = "lru"
  <2>1. /\ timestamp_list' = [timestamp_list EXCEPT ![i] = timestamp]
        /\ timestamp' = (timestamp + 1) % M
    BY <1>3 DEF Takes, ref_fcn, NextStamp
  <2>. HIDE DEF M
  <2>2. timestamp_list' \in [Frames -> Nat] /\ timestamp' \in Nat
    <3>1. timestamp_list \in [Frames -> Nat] /\ timestamp \in Nat
      BY DEF LastUses
    <3>2. (timestamp + 1) % M \in Nat
      BY <1>0, <3>1
    <3>. QED  BY <2>1, <3>1, <3>2
  <2>3. ASSUME ref_count' <= M
        PROVE  /\ ref_count' < M => timestamp' = ref_count'
               /\ \A j \in Frames : coremap'[j] # NoPage =>
                     /\ timestamp_list'[j] + 1 \in Uses(j)'
                     /\ \A a \in Uses(j)' : a <= timestamp_list'[j] + 1
    <3>1. /\ timestamp = ref_count
          /\ \A j \in Frames : coremap[j] # NoPage =>
                /\ timestamp_list[j] + 1 \in Uses(j)
                /\ \A a \in Uses(j) : a <= timestamp_list[j] + 1
      BY <1>0, <1>1, <1>3, <2>3 DEF LastUses, M
    <3>2. ref_count' < M => timestamp' = ref_count'
      BY <1>0, <1>1, <2>1, <3>1
    <3>3. ASSUME NEW j \in Frames, coremap'[j] # NoPage
          PROVE  /\ timestamp_list'[j] + 1 \in Uses(j)'
                 /\ \A a \in Uses(j)' : a <= timestamp_list'[j] + 1
      <4>1. CASE j = i
        <5>1. timestamp_list'[j] = ref_count
          BY <2>1, <3>1, <4>1 DEF LastUses
        <5>. QED  BY <4>1, <5>1, UsesGrow, PagesAssumption
      <4>2. CASE j # i
        <5>1. timestamp_list'[j] = timestamp_list[j] /\ coremap[j] # NoPage
          BY <1>1, <2>1, <3>3, <4>2 DEF LastUses
        <5>2. Uses(j)' = Uses(j)
          BY <4>2, UsesGrow, PagesAssumption
        <5>. QED  BY <3>1, <5>1, <5>2
      <4>. QED  BY <4>1, <4>2
    <3>. QED  BY <3>2, <3>3
  <2>. QED  BY <2>2, <2>3 DEF LastUses, M
<1>. QED  BY <1>2, <1>3

\* lru_evict answers the frame with the smallest timestamp.
LEMMA LruAnswers ==
    ASSUME LastUses
    PROVE  lru_evict \in Frames /\ \A j \in Frames : timestamp_list[lru_evict] <= timestamp_list[j]
<1>. DEFINE oldest == {i \in Frames : \A j \in Frames : timestamp_list[i] <= timestamp_list[j]}
<1>1. oldest # {}
  BY SmallestFrame DEF LastUses
<1>2. oldest \subseteq Frames
  OBVIOUS
<1>3. lru_evict = Min(oldest)
  BY DEF lru_evict
<1>4. Min(oldest) \in oldest
  <2>. HIDE DEF oldest
  <2>. QED  BY <1>1, <1>2, FirstFrame
<1>. QED  BY <1>3, <1>4

-----------------------------------------------------------------------------
(* opt *)

\* The table lists the references still to come, and opt knows which page is in
\* which frame.
Foreseen ==
    alg = "opt" =>
        /\ curRef = ref_count
        /\ IsTable(beladyTable, trace, ref_count)
        /\ page \in [Frames -> Pages \cup {0}]
        /\ \A i \in Frames : coremap[i] # NoPage => page[i] = coremap[i]

\* The last time of the list is the next one.
LEMMA NextTime ==
    ASSUME NEW tr, Len(tr) \in Nat, NEW n \in Nat, NEW times, NEW v, IsList(times, tr, v, n)
    PROVE  /\ times = << >> => \A k \in n .. Len(tr) - 1 : tr[k + 1].page # v
           /\ times # << >> =>
                 /\ Last(times) \in n .. Len(tr) - 1 /\ tr[Last(times) + 1].page = v
                 /\ \A k \in n .. Len(tr) - 1 : tr[k + 1].page = v => Last(times) <= k
<1>. DEFINE l == Len(times)
<1>1. /\ times \in Seq(Nat) /\ l \in Nat
      /\ \A a, b \in 1 .. l : a < b => times[a] > times[b]
      /\ \A a \in 1 .. l : times[a] \in n .. Len(tr) - 1 /\ tr[times[a] + 1].page = v
      /\ \A k \in n .. Len(tr) - 1 : tr[k + 1].page = v => \E a \in 1 .. l : times[a] = k
  BY DEF IsList
<1>2. times = << >> <=> l = 0
  BY <1>1
<1>3. CASE l = 0
  <2>1. 1 .. l = {}
    BY <1>3
  <2>. QED  BY <1>1, <1>2, <1>3, <2>1
<1>4. CASE l # 0
  <2>1. l \in 1 .. l /\ Last(times) = times[l]
    BY <1>1, <1>4 DEF Last
  <2>. HIDE DEF l
  <2>2. ASSUME NEW k \in n .. Len(tr) - 1, tr[k + 1].page = v PROVE times[l] <= k
    <3>1. PICK a \in 1 .. l : times[a] = k
      BY <1>1, <2>2
    <3>2. a = l \/ a < l
      BY <1>1
    <3>3. times[a] \in Nat /\ times[l] \in Nat
      BY <1>1, <2>1
    <3>. QED  BY <1>1, <2>1, <3>1, <3>2, <3>3
  <2>. QED  BY <1>1, <1>2, <1>4, <2>1, <2>2
<1>. QED  BY <1>3, <1>4

\* popNextRefTime takes the line that has just been replayed out of the table.
LEMMA PopLists ==
    ASSUME NEW tr, Len(tr) \in Nat, NEW n \in Nat, n < Len(tr), tr[n + 1].page \in Pages,
           IsTable(beladyTable, tr, n)
    PROVE  IsTable(popNextRefTime(tr[n + 1].page), tr, n + 1)
<1>. DEFINE v == tr[n + 1].page
            times == beladyTable[v]
            new == popNextRefTime(v)
            e == Len(tr)
<1>0. e \in Nat /\ n < e /\ v \in Pages
  OBVIOUS
<1>1. IsList(times, tr, v, n)
  BY DEF IsTable
<1>. HIDE DEF e
<1>2. n \in n .. e - 1
  BY <1>0
<1>3. times # << >> /\ Last(times) = n
  <2>1. times # << >>
    BY <1>0, <1>1, <1>2, NextTime DEF e
  <2>2. Last(times) \in n .. e - 1 /\ Last(times) <= n
    BY <1>0, <1>1, <1>2, <2>1, NextTime DEF e
  <2>. QED  BY <1>0, <2>1, <2>2
<1>4. /\ new = [w \in Pages |-> new[w]]
      /\ new[v] = Front(times)
      /\ \A w \in Pages \ {v} : new[w] = beladyTable[w]
  BY <1>3 DEF popNextRefTime, IsTable
<1>. HIDE DEF new
<1>. DEFINE l == Len(times)
            left == Front(times)
<1>5. /\ times \in Seq(Nat)
      /\ \A a, b \in 1 .. l : a < b => times[a] > times[b]
      /\ \A a \in 1 .. l : times[a] \in n .. e - 1 /\ tr[times[a] + 1].page = v
      /\ \A k \in n .. e - 1 : tr[k + 1].page = v => \E a \in 1 .. l : times[a] = k
  BY <1>1, Zenon DEF IsList, e
<1>6. l \in Nat /\ l # 0 /\ times[l] = n
  BY <1>3, <1>5 DEF Last
<1>7. /\ left \in Seq(Nat) /\ Len(left) = l - 1
      /\ \A a \in 1 .. l - 1 : left[a] = times[a]
  <2>1. left = SubSeq(times, 1, l - 1)
    BY DEF Front
  <2>2. \A a \in 1 .. l - 1 : times[a] \in Nat
    BY <1>5, <1>6
  <2>. HIDE DEF left, l, times
  <2>3. /\ SubSeq(times, 1, l - 1) \in Seq(Nat)
        /\ Len(SubSeq(times, 1, l - 1)) = IF 1 <= l - 1 THEN l - 1 - 1 + 1 ELSE 0
        /\ \A a \in 1 .. l - 1 - 1 + 1 : SubSeq(times, 1, l - 1)[a] = times[1 + a - 1]
    BY <1>6, <2>2, SubSeqProperties
  <2>. QED  BY <1>6, <2>1, <2>3
<1>. HIDE DEF left, l, times
<1>8. l - 1 \in Nat /\ l \in 1 .. l /\ \A a \in 1 .. l - 1 : a \in 1 .. l /\ a < l
  BY <1>6
<1>9. \A a, b \in 1 .. l - 1 : a < b => left[a] > left[b]
  BY <1>5, <1>7, <1>8
<1>10. ASSUME NEW a \in 1 .. l - 1
       PROVE  left[a] \in n + 1 .. e - 1 /\ tr[left[a] + 1].page = v
  <2>1. times[a] > times[l] /\ times[a] \in n .. e - 1 /\ tr[times[a] + 1].page = v
    BY <1>5, <1>8
  <2>2. left[a] = times[a]
    BY <1>7
  <2>3. times[a] \in n + 1 .. e - 1
    BY <1>0, <1>6, <2>1
  <2>. QED  BY <2>1, <2>2, <2>3
<1>11. ASSUME NEW k \in n + 1 .. e - 1, tr[k + 1].page = v
       PROVE  \E a \in 1 .. l - 1 : left[a] = k
  <2>1. k \in n .. e - 1 /\ k # n
    BY <1>0
  <2>2. PICK a \in 1 .. l : times[a] = k
    BY <1>5, <1>11, <2>1
  <2>3. a # l
    BY <1>6, <2>1, <2>2
  <2>4. a \in 1 .. l - 1
    BY <1>6, <2>3
  <2>. QED  BY <1>7, <2>2, <2>4
<1>12. IsList(new[v], tr, v, n + 1)
  <2>1. new[v] = left
    BY <1>4 DEF left, times
  <2>2. IsList(left, tr, v, n + 1)
    BY <1>7, <1>9, <1>10, <1>11, Zenon DEF IsList, e
  <2>. QED  BY <2>1, <2>2
<1>13. ASSUME NEW w \in Pages \ {v} PROVE IsList(new[w], tr, w, n + 1)
  <2>1. IsList(new[w], tr, w, n)
    BY <1>4 DEF IsTable
  <2>2. ASSUME NEW a \in 1 .. Len(new[w]) PROVE new[w][a] \in n + 1 .. e - 1
    <3>1. new[w][a] \in n .. e - 1 /\ tr[new[w][a] + 1].page = w
      BY <2>1 DEF IsList, e
    <3>2. new[w][a] # n
      BY <3>1
    <3>. QED  BY <1>0, <3>1, <3>2
  <2>3. \A k \in n + 1 .. e - 1 : k \in n .. e - 1
    BY <1>0
  <2>. QED  BY <2>1, <2>2, <2>3 DEF IsList, e
<1>. QED  BY <1>4, <1>12, <1>13 DEF IsTable, new
\* opt_ref keeps the table and the pages in step with the trace.
LEMMA ForeseenStep ==
    ASSUME Foreseen, NEW i, NEW v, NEW q, Takes(i, v, q)
    PROVE  Foreseen'
<1>1. /\ i \in Frames /\ v \in Pages /\ v = trace[ref_count + 1].page
      /\ ref_count \in Nat /\ ref_count' = ref_count + 1 /\ alg' = alg /\ trace' = trace
      /\ Len(trace) \in Nat /\ ref_count < Len(trace)
      /\ coremap'[i] = v
      /\ \A j \in Frames \ {i} : coremap'[j] = coremap[j]
  BY DEF Takes
<1>2. CASE alg # "opt"
  BY <1>1, <1>2 DEF Foreseen
<1>3. CASE alg = "opt"
  <2>1. /\ curRef = ref_count
        /\ IsTable(beladyTable, trace, ref_count)
        /\ page \in [Frames -> Pages \cup {0}]
        /\ \A j \in Frames : coremap[j] # NoPage => page[j] = coremap[j]
    BY <1>3 DEF Foreseen
  <2>2. pageList[curRef + 1] = v
    <3>1. ref_count + 1 \in 1 .. Len(trace)
      BY <1>1
    <3>. QED  BY <1>1, <2>1, <3>1 DEF pageList
  <2>3. /\ page' = [page EXCEPT ![i] = v]
        /\ beladyTable' = popNextRefTime(v)
        /\ curRef' = curRef + 1
    BY <1>3, <2>2 DEF Takes, ref_fcn
  <2>4. IsTable(beladyTable', trace', ref_count')
    BY <1>1, <2>1, <2>3, PopLists
  <2>5. page' \in [Frames -> Pages \cup {0}]
    BY <1>1, <2>1, <2>3
  <2>6. \A j \in Frames : coremap'[j] # NoPage => page'[j] = coremap'[j]
    BY <1>1, <2>1, <2>3
  <2>. QED  BY <1>1, <2>1, <2>3, <2>4, <2>5, <2>6 DEF Foreseen
<1>. QED  BY <1>2, <1>3

\* The line in which the page in frame i is referenced next, as opt sees it.
LEMMA PeekIs ==
    ASSUME Foreseen, alg = "opt", Len(trace) \in Nat, ref_count \in Nat,
           NEW i \in Frames, coremap[i] \in Pages, coremap[i] # NoPage
    PROVE  LET t == peekNextRefTime(page[i])
           IN  /\ Coming(coremap[i]) = {} => t = -1
               /\ Coming(coremap[i]) # {} =>
                     /\ t \in 0 .. Len(trace) - 1 /\ t + 1 \in Coming(coremap[i])
                     /\ \A a \in Coming(coremap[i]) : t + 1 <= a
<1>. DEFINE v == coremap[i]
            times == beladyTable[v]
            n == ref_count
            e == Len(trace)
<1>1. page[i] = v /\ IsTable(beladyTable, trace, n)
  BY DEF Foreseen
<1>2. IsList(times, trace, v, n)
  BY <1>1 DEF IsTable
<1>. HIDE DEF times
<1>3. peekNextRefTime(page[i]) = IF times = << >> THEN -1 ELSE Last(times)
  BY <1>1 DEF peekNextRefTime, hashTableGet, times
<1>4. /\ times = << >> => \A k \in n .. e - 1 : trace[k + 1].page # v
      /\ times # << >> =>
            /\ Last(times) \in n .. e - 1 /\ trace[Last(times) + 1].page = v
            /\ \A k \in n .. e - 1 : trace[k + 1].page = v => Last(times) <= k
  BY <1>2, NextTime
<1>5. Coming(v) = {k \in n + 1 .. e : trace[k].page = v}
  BY DEF Coming
<1>. HIDE DEF n, e, v
<1>6. n \in Nat /\ e \in Nat
  BY DEF n, e
<1>7. \A a \in Coming(v) : a - 1 \in n .. e - 1 /\ trace[a - 1 + 1].page = v /\ a \in Nat
  <2>1. ASSUME NEW a \in n + 1 .. e PROVE a - 1 \in n .. e - 1 /\ a - 1 + 1 = a /\ a \in Nat
    BY <1>6
  <2>. QED  BY <1>5, <2>1
<1>8. CASE times = << >>
  BY <1>3, <1>4, <1>7, <1>8 DEF v
<1>9. CASE times # << >>
  <2>. DEFINE t == Last(times)
  <2>1. t \in n .. e - 1 /\ trace[t + 1].page = v
    BY <1>4, <1>9
  <2>. HIDE DEF t
  <2>2. t + 1 \in n + 1 .. e /\ t \in 0 .. e - 1
    BY <1>6, <2>1
  <2>3. t + 1 \in Coming(v)
    BY <1>5, <2>1, <2>2
  <2>4. ASSUME NEW a \in Coming(v) PROVE t + 1 <= a
    <3>1. t <= a - 1
      BY <1>4, <1>7, <1>9, <2>4 DEF t
    <3>. QED  BY <1>7, <2>2, <3>1
  <2>5. peekNextRefTime(page[i]) = t
    BY <1>3, <1>9 DEF t
  <2>. QED  BY <2>2, <2>3, <2>4, <2>5 DEF v, e
<1>. QED  BY <1>8, <1>9

\* opt_evict answers a frame whose page no other one outlasts.
LEMMA OptAnswers ==
    ASSUME Foreseen, alg = "opt", Len(trace) \in Nat, ref_count \in Nat, Full,
           coremap \in [Frames -> Pages \cup {NoPage}]
    PROVE  /\ opt_evict \in Frames
           /\ \A j \in Frames : \A a \in Coming(coremap[opt_evict]) :
                 \E b \in Coming(coremap[j]) : b <= a
<1>. DEFINE next(i) == peekNextRefTime(page[i])
            never == {i \in Frames : next(i) = -1}
            last == {i \in Frames : \A j \in Frames : next(j) <= next(i)}
            e == Len(trace)
<1>1. \A i \in Frames : coremap[i] \in Pages /\ coremap[i] # NoPage
  BY DEF Full
<1>2. \A i \in Frames : next(i) \in -1 .. e - 1
  BY <1>1, PeekIs
<1>3. opt_evict = IF never # {} THEN Min(never) ELSE Min(last)
  BY DEF opt_evict
<1>4. \A i \in Frames : next(i) = -1 => Coming(coremap[i]) = {}
  BY <1>1, PeekIs
<1>5. \A i \in Frames : Coming(coremap[i]) # {} =>
        next(i) + 1 \in Coming(coremap[i]) /\ \A a \in Coming(coremap[i]) : next(i) + 1 <= a
  BY <1>1, PeekIs
<1>6. never \subseteq Frames /\ last \subseteq Frames
  OBVIOUS
<1>7. \A a : \A i : a \in Coming(coremap[i]) => a \in Nat
  BY DEF Coming
<1>. HIDE DEF next, e
<1>8. CASE never # {}
  <2>1. opt_evict \in never
    <3>1. opt_evict = Min(never)
      BY <1>3, <1>8
    <3>. HIDE DEF never
    <3>. QED  BY <1>6, <1>8, <3>1, FirstFrame
  <2>. QED  BY <1>4, <2>1
<1>9. CASE never = {}
  <2>1. \A i \in Frames : next(i) # -1
    BY <1>9
  <2>2. e \in Nat /\ \A i \in Frames : next(i) \in 0 .. e - 1
    BY <1>2, <2>1 DEF e
  <2>. DEFINE left == [i \in Frames |-> e - next(i)]
  <2>3. left \in [Frames -> Nat]
    BY <2>2
  <2>4. PICK i \in Frames : \A j \in Frames : left[i] <= left[j]
    BY <2>3, SmallestFrame
  <2>5. \A j \in Frames : next(j) <= next(i)
    BY <2>2, <2>4
  <2>6. last # {}
    BY <2>5
  <2>7. opt_evict \in last
    <3>1. opt_evict = Min(last)
      BY <1>3, <1>9
    <3>. HIDE DEF last
    <3>. QED  BY <1>6, <2>6, <3>1, FirstFrame
  <2>8. ASSUME NEW j \in Frames, NEW a \in Coming(coremap[opt_evict])
        PROVE  \E b \in Coming(coremap[j]) : b <= a
    <3>1. opt_evict \in Frames /\ next(j) <= next(opt_evict)
      BY <2>7
    <3>2. next(opt_evict) + 1 <= a /\ a \in Nat
      BY <1>5, <1>7, <2>8, <3>1
    <3>3. Coming(coremap[j]) # {}
      BY <1>1, <2>1, PeekIs DEF next
    <3>4. next(j) + 1 \in Coming(coremap[j])
      BY <1>5, <3>3
    <3>5. next(j) + 1 <= a
      BY <2>2, <3>1, <3>2
    <3>. QED  BY <3>4, <3>5
  <2>. QED  BY <2>7, <2>8
<1>. QED  BY <1>8, <1>9
-----------------------------------------------------------------------------
(* fifo *)

\* Going round from frame f, frame i comes before frame j.
Before(i, j, f) ==
    \/ i < j /\ (j < f \/ f <= i)
    \/ f <= i /\ j < f

\* Slot k of the queue holds frame k while it is in use: the queue's back and
\* front meet when memory is full.
QueueFilled ==
    /\ queue = [front |-> queue.front, back |-> queue.back, contents |-> queue.contents]
    /\ queue.front \in Frames /\ queue.back \in Frames
    /\ queue.contents = [k \in Frames |-> IF coremap[k] # NoPage THEN k
                                          ELSE EMPTY_QUEUE_SLOT]
    /\ Full => queue.back = queue.front
    /\ ~Full => /\ queue.front = 0 /\ coremap[queue.back] = NoPage
                /\ \A j \in Frames : j < queue.back => coremap[j] # NoPage

\* From frame f on the pages are in the order they were loaded in.
LoadedFrom(f) ==
    \A i, j \in Frames :
        coremap[i] # NoPage /\ coremap[j] # NoPage /\ Before(i, j, f) => loaded[i] < loaded[j]

\* The queue is the order in which the pages were loaded.
QueueOrder ==
    /\ loaded \in [Frames -> Nat]
    /\ \A i \in Frames : coremap[i] # NoPage => loaded[i] < ref_count
    /\ alg = "fifo" => QueueFilled /\ LoadedFrom(queue.front)

\* A frame is a number below memsize, and the next one is the one after it.
LEMMA FrameFacts ==
    /\ memsize \in Nat \ {0} /\ Frames = 0 .. memsize - 1 /\ 0 \in Frames
    /\ EMPTY_QUEUE_SLOT \notin Frames
    /\ \A i \in Frames : i \in Nat /\ i < memsize
    /\ \A i \in Frames : (i + 1) % memsize = IF i + 1 < memsize THEN i + 1 ELSE 0
    /\ \A i \in Frames : (i + 1) % memsize \in Frames
<1>1. memsize \in Nat \ {0} /\ Frames = 0 .. memsize - 1
  BY SizesAssumption DEF Frames
<1>2. EMPTY_QUEUE_SLOT \notin Frames /\ 0 \in Frames /\ \A i \in Frames : i \in Nat /\ i < memsize
  BY <1>1 DEF EMPTY_QUEUE_SLOT
<1>3. ASSUME NEW i \in Frames
      PROVE  /\ (i + 1) % memsize = IF i + 1 < memsize THEN i + 1 ELSE 0
             /\ (i + 1) % memsize \in Frames
  <2>1. i \in 0 .. memsize - 1 /\ 1 \in 0 .. memsize
    BY <1>1
  <2>2. (i + 1) % memsize = IF i + 1 < memsize THEN i + 1 ELSE i + 1 - memsize
    BY <1>1, <2>1, Turn
  <2>. QED  BY <1>1, <2>1, <2>2
<1>. QED  BY <1>1, <1>2, <1>3

\* Pages are not NoPage.
LEMMA RealPage == \A v \in Pages : v # NoPage
BY PagesAssumption DEF NoPage

\* What fifo_ref does to the queue while it is fifo's.
LEMMA FifoRef ==
    ASSUME NEW q, NEW i, q = [front |-> q.front, back |-> q.back, contents |-> q.contents],
           q.back \in Frames, q.contents = [k \in Frames |-> q.contents[k]]
    PROVE  /\ contains(q, i) => fifo_ref(q, i) = q
           /\ ~contains(q, i) =>
                 fifo_ref(q, i) = [front |-> q.front, back |-> (q.back + 1) % memsize,
                                   contents |-> [q.contents EXCEPT ![q.back] = i]]
<1>1. CASE contains(q, i)
  BY <1>1 DEF fifo_ref
<1>2. CASE ~contains(q, i)
  <2>1. fifo_ref(q, i) = [q EXCEPT !.contents[q.back] = i, !.back = (q.back + 1) % memsize]
    BY <1>2 DEF fifo_ref, enqueue
  <2>. QED  BY <1>2, <2>1
<1>. QED  BY <1>1, <1>2

\* A hit leaves the queue alone.
LEMMA QueueHit ==
    ASSUME QueueOrder, NEW i, NEW v, Takes(i, v, queue), coremap[i] = v,
           coremap' = coremap, loaded' = loaded
    PROVE  QueueOrder'
<1>1. /\ i \in Frames /\ v # NoPage /\ ref_count \in Nat /\ ref_count' = ref_count + 1
      /\ alg' = alg
  BY RealPage DEF Takes
<1>2. queue' = queue
  <2>1. CASE alg = "fifo"
    <3>1. queue' = fifo_ref(queue, i)
      BY <2>1 DEF Takes, ref_fcn
    <3>2. queue.contents[i] = i
      BY <1>1, <2>1 DEF QueueOrder, QueueFilled
    <3>3. contains(queue, i)
      BY <1>1, <3>2 DEF contains
    <3>. QED  BY <3>1, <3>3 DEF fifo_ref
  <2>2. CASE alg # "fifo"
    BY <2>2 DEF Takes, ref_fcn
  <2>. QED  BY <2>1, <2>2
<1>3. Full' = Full
  BY DEF Full
<1>4. \A j \in Frames : coremap'[j] # NoPage => loaded'[j] < ref_count'
  BY <1>1 DEF QueueOrder
<1>. QED  BY <1>1, <1>2, <1>3, <1>4 DEF QueueOrder, QueueFilled, LoadedFrom

\* A page loaded into frame i has been in memory for less long than any other.
LEMMA LoadedLast ==
    ASSUME QueueOrder, NEW i, NEW v, NEW q, Takes(i, v, q),
           loaded' = [loaded EXCEPT ![i] = ref_count]
    PROVE  /\ loaded' \in [Frames -> Nat]
           /\ \A j \in Frames : coremap'[j] # NoPage => loaded'[j] < ref_count'
           /\ loaded'[i] = ref_count
           /\ \A j \in Frames \ {i} : loaded'[j] = loaded[j]
           /\ \A j \in Frames \ {i} : coremap'[j] # NoPage => loaded'[j] < loaded'[i]
<1>1. /\ i \in Frames /\ ref_count \in Nat /\ ref_count' = ref_count + 1
      /\ \A j \in Frames \ {i} : coremap'[j] = coremap[j]
  BY DEF Takes
<1>2. loaded \in [Frames -> Nat] /\ \A j \in Frames : coremap[j] # NoPage => loaded[j] < ref_count
  BY DEF QueueOrder
<1>3. loaded' \in [Frames -> Nat] /\ loaded'[i] = ref_count
      /\ \A j \in Frames \ {i} : loaded'[j] = loaded[j]
  BY <1>1, <1>2
<1>4. \A j \in Frames \ {i} : coremap'[j] # NoPage => loaded'[j] < ref_count
  BY <1>1, <1>2, <1>3
<1>. QED  BY <1>1, <1>3, <1>4

\* A new frame goes to the back of the queue.
LEMMA QueueFree ==
    ASSUME QueueOrder, NEW i, NEW v, Takes(i, v, queue), coremap[i] = NoPage, Prefix,
           \A j \in Frames : j < i => coremap[j] # NoPage,
           loaded' = [loaded EXCEPT ![i] = ref_count]
    PROVE  QueueOrder'
<1>1. /\ i \in Frames /\ v # NoPage /\ alg' = alg
      /\ coremap'[i] = v /\ \A j \in Frames \ {i} : coremap'[j] = coremap[j]
  BY RealPage DEF Takes
<1>2. /\ loaded' \in [Frames -> Nat]
      /\ \A j \in Frames : coremap'[j] # NoPage => loaded'[j] < ref_count'
      /\ \A j \in Frames \ {i} : loaded'[j] = loaded[j]
      /\ \A j \in Frames \ {i} : coremap'[j] # NoPage => loaded'[j] < loaded'[i]
  BY LoadedLast
<1>3. CASE alg # "fifo"
  BY <1>1, <1>2, <1>3 DEF QueueOrder
<1>4. CASE alg = "fifo"
  <2>. DEFINE b == queue.back
  <2>1. ~Full
    BY <1>1 DEF Full
  <2>2. /\ queue = [front |-> queue.front, back |-> b, contents |-> queue.contents]
        /\ b \in Frames /\ queue.front = 0
        /\ queue.contents = [k \in Frames |-> IF coremap[k] # NoPage THEN k
                                              ELSE EMPTY_QUEUE_SLOT]
        /\ coremap[b] = NoPage /\ \A j \in Frames : j < b => coremap[j] # NoPage
    BY <1>4, <2>1 DEF QueueOrder, QueueFilled
  <2>. HIDE DEF b
  <2>3. b = i
    <3>1. ~(b < i) /\ ~(i < b)
      BY <1>1, <2>2
    <3>. QED  BY <1>1, <2>2, <3>1, FrameFacts
  <2>4. ~contains(queue, i)
    <3>1. ASSUME NEW k \in Frames PROVE queue.contents[k] # i
      <4>1. queue.contents[k] = IF coremap[k] # NoPage THEN k ELSE EMPTY_QUEUE_SLOT
        BY <2>2
      <4>. QED  BY <1>1, <4>1, FrameFacts
    <3>. QED  BY <3>1 DEF contains
  <2>5. queue' = fifo_ref(queue, i)
    BY <1>4 DEF Takes, ref_fcn
  <2>6. queue' = [front |-> 0, back |-> (i + 1) % memsize,
                  contents |-> [queue.contents EXCEPT ![i] = i]]
    <3>1. queue.contents = [k \in Frames |-> queue.contents[k]]
      BY <2>2
    <3>2. fifo_ref(queue, i) = [front |-> queue.front, back |-> (b + 1) % memsize,
                                contents |-> [queue.contents EXCEPT ![b] = i]]
      BY <2>2, <2>4, <3>1, FifoRef DEF b
    <3>. QED  BY <2>2, <2>3, <2>5, <3>2
  <2>7. queue'.contents = [k \in Frames |-> IF coremap'[k] # NoPage THEN k
                                            ELSE EMPTY_QUEUE_SLOT]
    BY <1>1, <2>2, <2>6
  <2>8. queue'.front = 0 /\ queue'.back = (i + 1) % memsize
        /\ queue' = [front |-> queue'.front, back |-> queue'.back, contents |-> queue'.contents]
    BY <2>6
  <2>9. \A j \in Frames : coremap'[j] # NoPage <=> j <= i
    <3>1. ASSUME NEW j \in Frames PROVE coremap'[j] # NoPage <=> j <= i
      <4>1. CASE j = i
        BY <1>1, <4>1, FrameFacts
      <4>2. CASE j < i
        BY <1>1, <4>2, FrameFacts
      <4>3. CASE i < j
        BY <1>1, <4>3, FrameFacts DEF Prefix
      <4>. QED  BY <1>1, <4>1, <4>2, <4>3, FrameFacts
    <3>. QED  BY <3>1
  <2>10. QueueFilled'
    <3>1. CASE i + 1 < memsize
      <4>1. queue'.back = i + 1 /\ i + 1 \in Frames /\ ~(i + 1 <= i)
        BY <1>1, <2>8, <3>1, FrameFacts
      <4>2. coremap'[i + 1] = NoPage
        BY <2>9, <4>1
      <4>3. ~Full'
        BY <4>1, <4>2 DEF Full
      <4>4. \A j \in Frames : j < i + 1 => coremap'[j] # NoPage
        BY <1>1, <2>9, FrameFacts
      <4>. QED  BY <2>7, <2>8, <4>1, <4>2, <4>3, <4>4, FrameFacts DEF QueueFilled
    <3>2. CASE ~(i + 1 < memsize)
      <4>1. queue'.back = 0
        BY <1>1, <2>8, <3>2, FrameFacts
      <4>2. Full'
        BY <1>1, <2>9, <3>2, FrameFacts DEF Full
      <4>. QED  BY <2>7, <2>8, <4>1, <4>2, FrameFacts DEF QueueFilled
    <3>. QED  BY <3>1, <3>2
  <2>11. ASSUME NEW j \in Frames, NEW k \in Frames, coremap'[j] # NoPage,
                coremap'[k] # NoPage, Before(j, k, 0)
         PROVE  loaded'[j] < loaded'[k]
    <3>1. j < k /\ k <= i /\ j # i
      BY <1>1, <2>9, <2>11, FrameFacts DEF Before
    <3>2. CASE k = i
      BY <1>2, <2>11, <3>1, <3>2
    <3>3. CASE k # i
      <4>1. LoadedFrom(0)
        BY <1>4, <2>2 DEF QueueOrder
      <4>2. loaded[j] < loaded[k]
        BY <1>1, <2>11, <3>1, <3>3, <4>1 DEF LoadedFrom
      <4>. QED  BY <1>2, <3>1, <3>3, <4>2
    <3>. QED  BY <3>2, <3>3
  <2>12. LoadedFrom(queue.front)'
    BY <2>8, <2>11 DEF LoadedFrom
  <2>. QED  BY <1>1, <1>2, <2>10, <2>12 DEF QueueOrder
<1>. QED  BY <1>3, <1>4

\* fifo_evict answers the front of the queue, a frame.
LEMMA FifoAnswers ==
    ASSUME QueueOrder, alg = "fifo", Full
    PROVE  /\ fifo_evict = queue.front /\ fifo_evict \in Frames
           /\ \A j \in Frames : loaded[fifo_evict] <= loaded[j]
<1>1. /\ queue.front \in Frames
      /\ queue.contents = [k \in Frames |-> IF coremap[k] # NoPage THEN k
                                            ELSE EMPTY_QUEUE_SLOT]
      /\ \A i, j \in Frames : coremap[i] # NoPage /\ coremap[j] # NoPage
            /\ Before(i, j, queue.front) => loaded[i] < loaded[j]
      /\ loaded \in [Frames -> Nat]
  BY DEF QueueOrder, QueueFilled, LoadedFrom
<1>2. fifo_evict = queue.front
  BY <1>1 DEF fifo_evict, front, Full
<1>. DEFINE f == queue.front
<1>3. ASSUME NEW j \in Frames PROVE loaded[f] <= loaded[j]
  <2>1. CASE j = f
    BY <1>1, <2>1
  <2>2. CASE j # f
    <3>1. Before(f, j, f)
      BY <1>1, <2>2, FrameFacts DEF Before
    <3>2. loaded[f] < loaded[j]
      BY <1>1, <3>1 DEF Full
    <3>. QED  BY <1>1, <3>2
  <2>. QED  BY <2>1, <2>2
<1>. QED  BY <1>1, <1>2, <1>3
\* The frame that is given up leaves the front of the queue and joins its back.
LEMMA QueueEvict ==
    ASSUME QueueOrder, NEW i, NEW v, Takes(i, v, dequeue(queue)), Full,
           alg = "fifo" => i = fifo_evict,
           loaded' = [loaded EXCEPT ![i] = ref_count]
    PROVE  QueueOrder'
<1>1. /\ i \in Frames /\ v # NoPage /\ alg' = alg
      /\ coremap'[i] = v /\ \A j \in Frames \ {i} : coremap'[j] = coremap[j]
  BY RealPage DEF Takes
<1>2. /\ loaded' \in [Frames -> Nat]
      /\ \A j \in Frames : coremap'[j] # NoPage => loaded'[j] < ref_count'
      /\ \A j \in Frames \ {i} : loaded'[j] = loaded[j]
      /\ \A j \in Frames \ {i} : coremap'[j] # NoPage => loaded'[j] < loaded'[i]
  BY LoadedLast
<1>3. CASE alg # "fifo"
  BY <1>1, <1>2, <1>3 DEF QueueOrder
<1>4. CASE alg = "fifo"
  <2>1. queue.front = i
    BY <1>4, FifoAnswers
  <2>2. /\ queue = [front |-> i, back |-> i, contents |-> queue.contents]
        /\ queue.contents = [k \in Frames |-> k]
    BY <1>1, <1>4, <2>1 DEF QueueOrder, QueueFilled, Full
  <2>. DEFINE q == dequeue(queue)
  <2>3. q = [front |-> (i + 1) % memsize, back |-> i,
             contents |-> [queue.contents EXCEPT ![i] = EMPTY_QUEUE_SLOT]]
    <3>. DEFINE f == (i + 1) % memsize
                c == queue.contents
    <3>1. front(queue) = i /\ i # EMPTY_QUEUE_SLOT
      BY <1>1, <2>2, FrameFacts DEF front
    <3>2. q = [queue EXCEPT !.contents[i] = EMPTY_QUEUE_SLOT,
                            !.front = f]
      BY <2>1, <3>1 DEF dequeue
    <3>3. queue = [front |-> i, back |-> i, contents |-> c]
      BY <2>2
    <3>. HIDE DEF f, c
    <3>4. q = [front |-> f, back |-> i, contents |-> [c EXCEPT ![i] = EMPTY_QUEUE_SLOT]]
      BY <3>2, <3>3
    <3>. QED  BY <3>4 DEF f, c
  <2>. HIDE DEF q
  <2>4. q.contents = [k \in Frames |-> IF k = i THEN EMPTY_QUEUE_SLOT ELSE k]
    BY <2>2, <2>3
  <2>5. ~contains(q, i)
    BY <1>1, <2>4, FrameFacts DEF contains
  <2>6. queue' = fifo_ref(q, i)
    BY <1>4 DEF Takes, ref_fcn, q
  <2>7. queue' = [front |-> (i + 1) % memsize, back |-> (i + 1) % memsize,
                  contents |-> [q.contents EXCEPT ![i] = i]]
    <3>1. /\ q = [front |-> q.front, back |-> q.back, contents |-> q.contents]
          /\ q.back = i /\ q.front = (i + 1) % memsize
          /\ q.contents = [k \in Frames |-> q.contents[k]]
      BY <2>3, <2>4
    <3>2. fifo_ref(q, i) = [front |-> q.front, back |-> (q.back + 1) % memsize,
                            contents |-> [q.contents EXCEPT ![q.back] = i]]
      BY <1>1, <2>5, <3>1, FifoRef
    <3>. QED  BY <2>6, <3>1, <3>2
  <2>8. /\ queue' = [front |-> queue'.front, back |-> queue'.back, contents |-> queue'.contents]
        /\ queue'.front = (i + 1) % memsize /\ queue'.back = queue'.front
        /\ queue'.contents = [k \in Frames |-> k]
    BY <1>1, <2>4, <2>7
  <2>9. Full'
    BY <1>1 DEF Full
  <2>10. QueueFilled'
    <3>1. queue'.contents = [k \in Frames |-> IF coremap'[k] # NoPage THEN k
                                              ELSE EMPTY_QUEUE_SLOT]
      BY <2>8, <2>9 DEF Full
    <3>. QED  BY <1>1, <2>8, <2>9, <3>1, FrameFacts DEF QueueFilled
  <2>. DEFINE f == (i + 1) % memsize
  <2>11. f = IF i + 1 < memsize THEN i + 1 ELSE 0
    BY <1>1, FrameFacts
  <2>. HIDE DEF f
  <2>12. ASSUME NEW j \in Frames, NEW k \in Frames, Before(j, k, f)
         PROVE  loaded'[j] < loaded'[k]
    <3>1. j # i /\ (k # i => Before(j, k, i))
      BY <1>1, <2>11, <2>12, FrameFacts DEF Before
    <3>2. CASE k = i
      BY <1>2, <2>9, <3>1, <3>2 DEF Full
    <3>3. CASE k # i
      <4>1. LoadedFrom(i)
        BY <1>4, <2>1 DEF QueueOrder
      <4>2. loaded[j] < loaded[k]
        BY <3>1, <3>3, <4>1 DEF LoadedFrom, Full
      <4>. QED  BY <1>2, <3>1, <3>3, <4>2
    <3>. QED  BY <3>2, <3>3
  <2>13. LoadedFrom(queue.front)'
    BY <2>8, <2>12 DEF LoadedFrom, f
  <2>. QED  BY <1>1, <1>2, <2>10, <2>13 DEF QueueOrder
<1>. QED  BY <1>3, <1>4
-----------------------------------------------------------------------------
(* clock *)

\* The frame k places ahead of the hand, going once round.
LEMMA AheadIs ==
    ASSUME clock_arm \in Frames, NEW k \in 0 .. memsize
    PROVE  /\ Ahead(k) \in Frames
           /\ Ahead(k) = IF clock_arm + k < memsize THEN clock_arm + k
                         ELSE clock_arm + k - memsize
<1>1. memsize \in Nat \ {0} /\ clock_arm \in 0 .. memsize - 1
  BY FrameFacts
<1>2. (clock_arm + k) % memsize = IF clock_arm + k < memsize THEN clock_arm + k
                                  ELSE clock_arm + k - memsize
  BY <1>1, Turn
<1>3. (IF clock_arm + k < memsize THEN clock_arm + k
       ELSE clock_arm + k - memsize) \in 0 .. memsize - 1
  BY <1>1
<1>. QED  BY <1>2, <1>3, FrameFacts DEF Ahead

\* The hand passes every frame once.
LEMMA RoundOnce ==
    ASSUME clock_arm \in Frames
    PROVE  /\ \A i \in Frames : \E k \in Frames : Ahead(k) = i
           /\ \A k, l \in Frames : Ahead(k) = Ahead(l) => k = l
<1>1. memsize \in Nat \ {0} /\ clock_arm \in 0 .. memsize - 1 /\ Frames = 0 .. memsize - 1
  BY FrameFacts
<1>2. \A k \in Frames : k \in 0 .. memsize
  BY <1>1
<1>3. \A k \in Frames : Ahead(k) = IF clock_arm + k < memsize THEN clock_arm + k
                                   ELSE clock_arm + k - memsize
  BY <1>2, AheadIs
<1>4. ASSUME NEW i \in Frames PROVE \E k \in Frames : Ahead(k) = i
  <2>. DEFINE k == IF clock_arm <= i THEN i - clock_arm ELSE i - clock_arm + memsize
  <2>1. k \in Frames /\ i = IF clock_arm + k < memsize THEN clock_arm + k
                            ELSE clock_arm + k - memsize
    BY <1>1
  <2>. HIDE DEF k
  <2>. QED  BY <1>3, <2>1
<1>5. ASSUME NEW k \in Frames, NEW l \in Frames, Ahead(k) = Ahead(l) PROVE k = l
  BY <1>1, <1>3, <1>5
<1>. QED  BY <1>4, <1>5

\* The second-chance queue starts at the hand.
SecondChance ==
    /\ chances \in Seq(Frames) /\ Len(chances) <= memsize
    /\ Len(chances) < memsize => clock_arm = 0
    /\ \A i \in Frames : coremap[i] # NoPage <=> i < Len(chances)
    /\ \A k \in 1 .. Len(chances) : chances[k] = Ahead(k - 1)

ClockOrder ==
    /\ clock_arm \in Frames
    /\ alg = "clock" => SecondChance

\* The hand's loop ends.
LEMMA SweepIs ==
    ASSUME clock_arm \in Frames
    PROVE  /\ (\A i \in Frames : is_referenced(i)) => Sweep = memsize
           /\ ~(\A i \in Frames : is_referenced(i)) =>
                 /\ Sweep \in Frames /\ ~is_referenced(Ahead(Sweep))
                 /\ \A k \in Frames : k < Sweep => is_referenced(Ahead(k))
<1>. DEFINE off == {k \in Frames : ~is_referenced(Ahead(k))}
<1>1. ASSUME ~(\A i \in Frames : is_referenced(i))
      PROVE  off # {} /\ Sweep = Min(off)
  <2>1. off # {}
    BY <1>1, RoundOnce
  <2>. QED  BY <1>1, <2>1 DEF Sweep
<1>2. off \subseteq Frames
  OBVIOUS
<1>3. ASSUME ~(\A i \in Frames : is_referenced(i))
      PROVE  Min(off) \in off /\ \A k \in off : Min(off) <= k
  <2>1. off # {}
    BY <1>1, <1>3
  <2>. HIDE DEF off
  <2>. QED  BY <1>2, <2>1, FirstFrame
<1>4. ASSUME ~(\A i \in Frames : is_referenced(i))
      PROVE  /\ Sweep \in Frames /\ ~is_referenced(Ahead(Sweep))
             /\ \A k \in Frames : k < Sweep => is_referenced(Ahead(k))
  <2>1. Sweep \in off /\ \A k \in off : Sweep <= k
    BY <1>1, <1>3, <1>4
  <2>2. ASSUME NEW k \in Frames, k < Sweep PROVE k \notin off
    BY <2>1, <2>2, FrameFacts
  <2>. QED  BY <2>1, <2>2
<1>. QED  BY <1>4 DEF Sweep

\* clock_evict answers a frame and passes frames only.
LEMMA ClockAnswers ==
    ASSUME clock_arm \in Frames
    PROVE  Sweep \in 0 .. memsize /\ clock_evict \in Frames /\ turned_off \subseteq Frames
<1>1. Sweep \in 0 .. memsize
  <2>1. memsize \in 0 .. memsize /\ \A k \in Frames : k \in 0 .. memsize
    BY FrameFacts
  <2>. QED  BY <2>1, SweepIs
<1>2. \A k \in 0 .. Sweep - 1 : k \in 0 .. memsize
  BY <1>1, FrameFacts
<1>. QED  BY <1>1, <1>2, AheadIs DEF clock_evict, turned_off

\* The frame clock_evict answers is the head of the second-chance queue once
\* the referenced pages before it have been sent back.
LEMMA ClockChooses ==
    ASSUME clock_arm \in Frames, SecondChance, Full
    PROVE  \E k \in 1 .. memsize :
             /\ Len(chances) = memsize /\ clock_evict = chances[k]
             /\ Chances(clock_evict) = SubSeq(chances, k + 1, memsize)
                                          \o SubSeq(chances, 1, k - 1) \o <<clock_evict>>
             /\ \/ k = 1 /\ \A i \in Frames : is_referenced(i)
                \/ /\ ~is_referenced(clock_evict)
                   /\ \A a \in 1 .. k - 1 : is_referenced(chances[a])
<1>. DEFINE n == Len(chances)
            off == {j \in 1 .. n : ~is_referenced(chances[j])}
<1>1. n = memsize /\ memsize \in Nat \ {0}
  <2>1. memsize - 1 \in Frames /\ n \in Nat /\ n <= memsize /\ memsize \in Nat \ {0}
    BY FrameFacts DEF SecondChance
  <2>2. memsize - 1 < n
    BY <2>1 DEF SecondChance, Full
  <2>. QED  BY <2>1, <2>2
<1>2. \A j \in 1 .. n : chances[j] = Ahead(j - 1) /\ j - 1 \in Frames
  BY <1>1, FrameFacts DEF SecondChance
<1>3. \A k \in Frames : k + 1 \in 1 .. n /\ k + 1 - 1 = k
  BY <1>1, FrameFacts
<1>. HIDE DEF n
<1>4. CASE \A i \in Frames : is_referenced(i)
  <2>1. Sweep = memsize
    BY <1>4, SweepIs
  <2>2. clock_evict = Ahead(0) /\ Ahead(0) = chances[1]
    <3>1. memsize \in 0 .. memsize /\ 0 \in 0 .. memsize /\ 1 \in 1 .. n
      BY <1>1
    <3>2. Ahead(memsize) = clock_arm /\ Ahead(0) = clock_arm
      BY <1>1, <3>1, AheadIs, FrameFacts
    <3>3. chances[1] = Ahead(1 - 1)
      BY <1>2, <3>1
    <3>. QED  BY <2>1, <3>2, <3>3 DEF clock_evict
  <2>3. \A j \in 1 .. n : is_referenced(chances[j])
    BY <1>2, <1>4, <1>1, AheadIs, FrameFacts
  <2>4. Chances(clock_evict) = SubSeq(chances, 1 + 1, n) \o SubSeq(chances, 1, 1 - 1)
                                  \o <<clock_evict>>
    BY <2>3 DEF Chances, n
  <2>5. 1 \in 1 .. memsize
    BY <1>1
  <2>. QED  BY <1>1, <1>4, <2>2, <2>4, <2>5 DEF n
<1>5. CASE ~(\A i \in Frames : is_referenced(i))
  <2>1. /\ Sweep \in Frames /\ ~is_referenced(Ahead(Sweep))
        /\ \A k \in Frames : k < Sweep => is_referenced(Ahead(k))
    BY <1>5, SweepIs
  <2>. DEFINE k == Sweep + 1
  <2>2. k \in 1 .. n /\ k - 1 = Sweep /\ chances[k] = Ahead(Sweep)
    <3>1. k \in 1 .. n /\ k - 1 = Sweep
      BY <1>1, <2>1, FrameFacts
    <3>2. chances[k] = Ahead(k - 1)
      BY <1>2, <3>1
    <3>. QED  BY <3>1, <3>2
  <2>3. clock_evict = chances[k] /\ ~is_referenced(clock_evict)
    BY <2>1, <2>2 DEF clock_evict
  <2>4. \A a \in 1 .. k - 1 : is_referenced(chances[a])
    <3>1. ASSUME NEW a \in 1 .. Sweep PROVE is_referenced(chances[a])
      <4>1. a \in 1 .. n /\ a - 1 < Sweep /\ a - 1 \in Frames
        BY <1>1, <2>1, FrameFacts
      <4>. QED  BY <1>2, <2>1, <4>1
    <3>. QED  BY <2>2, <3>1
  <2>. HIDE DEF k
  <2>5. k \in off
    BY <2>2, <2>3
  <2>6. \A j \in off : k <= j
    <3>1. ASSUME NEW j \in off, j < k PROVE FALSE
      <4>1. j \in 1 .. k - 1
        BY <1>1, <2>2, <3>1
      <4>. QED  BY <2>4, <3>1, <4>1
    <3>. QED  BY <1>1, <2>2, <3>1
  <2>7. Min(off) = k
    <3>1. off \subseteq Nat /\ k \in Nat
      BY <1>1, <2>2
    <3>. HIDE DEF off
    <3>2. Min(off) \in off /\ \A j \in off : Min(off) <= j
      BY <2>5, <3>1, MinFacts
    <3>. DEFINE x == Min(off)
    <3>3. x \in Nat /\ x <= k /\ k <= x
      BY <2>5, <2>6, <3>1, <3>2
    <3>. HIDE DEF x
    <3>4. x = k
      BY <3>1, <3>3
    <3>. QED  BY <3>4 DEF x
  <2>8. ~(\A j \in 1 .. n : is_referenced(chances[j]))
    BY <2>2, <2>3
  <2>9. Chances(clock_evict) = SubSeq(chances, k + 1, n) \o SubSeq(chances, 1, k - 1)
                                  \o <<clock_evict>>
    BY <2>7, <2>8 DEF Chances, n
  <2>. QED  BY <1>1, <2>2, <2>3, <2>4, <2>9 DEF n
<1>. QED  BY <1>4, <1>5
\* A hit leaves the hand and the queue alone.
LEMMA ClockHit ==
    ASSUME ClockOrder, UNCHANGED <<alg, coremap, clock_arm, chances>>
    PROVE  ClockOrder'
BY DEF ClockOrder, SecondChance, Ahead

\* A new frame is the last of the queue.
LEMMA ClockFree ==
    ASSUME ClockOrder, NEW i, NEW v, NEW q, Takes(i, v, q), coremap[i] = NoPage, Prefix,
           \A j \in Frames : j < i => coremap[j] # NoPage,
           chances' = Append(chances, i), clock_arm' = clock_arm
    PROVE  ClockOrder'
<1>1. /\ i \in Frames /\ v # NoPage /\ alg' = alg
      /\ coremap'[i] = v /\ \A j \in Frames \ {i} : coremap'[j] = coremap[j]
  BY RealPage DEF Takes
<1>2. CASE alg # "clock"
  BY <1>1, <1>2 DEF ClockOrder
<1>3. CASE alg = "clock"
  <2>. DEFINE n == Len(chances)
  <2>1. /\ chances \in Seq(Frames) /\ n \in Nat /\ n <= memsize
        /\ n < memsize => clock_arm = 0
        /\ \A j \in Frames : coremap[j] # NoPage <=> j < n
        /\ \A k \in 1 .. n : chances[k] = Ahead(k - 1)
        /\ clock_arm \in Frames
    BY <1>3 DEF ClockOrder, SecondChance
  <2>. HIDE DEF n
  <2>2. n = i
    <3>1. ~(i < n)
      BY <1>1, <2>1
    <3>2. ~(n < i)
      <4>1. ASSUME n < i PROVE FALSE
        <5>1. n \in Frames
          BY <1>1, <2>1, <4>1, FrameFacts
        <5>. QED  BY <2>1, <4>1, <5>1
      <4>. QED  BY <4>1
    <3>. QED  BY <1>1, <2>1, <3>1, <3>2, FrameFacts
  <2>3. clock_arm = 0 /\ clock_arm' = 0
    BY <1>1, <2>1, <2>2, FrameFacts
  <2>4. /\ chances' \in Seq(Frames) /\ Len(chances') = i + 1
        /\ \A k \in 1 .. n : chances'[k] = chances[k]
        /\ chances'[i + 1] = i
    BY <1>1, <2>1, <2>2 DEF n
  <2>5. i + 1 <= memsize
    BY <1>1, FrameFacts
  <2>6. ASSUME NEW j \in Frames PROVE coremap'[j] # NoPage <=> j < i + 1
    <3>1. CASE j = i
      BY <1>1, <3>1, FrameFacts
    <3>2. CASE j # i
      <4>1. coremap'[j] # NoPage <=> j < n
        BY <1>1, <2>1, <3>2
      <4>2. j < i <=> j < i + 1
        <5>1. i \in Nat /\ j \in Nat
          BY <1>1, FrameFacts
        <5>. QED  BY <3>2, <5>1
      <4>. QED  BY <2>2, <4>1, <4>2
    <3>. QED  BY <3>1, <3>2
  <2>7. ASSUME NEW k \in 1 .. i + 1 PROVE chances'[k] = Ahead(k - 1)'
    <3>1. Ahead(k - 1)' = Ahead(k - 1)
      BY <2>3 DEF Ahead
    <3>2. CASE k = i + 1
      <4>1. i \in 0 .. memsize /\ k - 1 = i
        BY <1>1, <3>2, FrameFacts
      <4>2. Ahead(i) = i
        BY <1>1, <2>1, <2>3, <4>1, AheadIs, FrameFacts
      <4>. QED  BY <2>4, <3>1, <3>2, <4>1, <4>2
    <3>3. CASE k # i + 1
      <4>1. k \in 1 .. n
        BY <1>1, <2>2, <3>3, FrameFacts
      <4>. QED  BY <2>1, <2>4, <3>1, <4>1
    <3>. QED  BY <3>2, <3>3
  <2>8. clock_arm' \in Frames
    BY <2>3, FrameFacts
  <2>9. SecondChance'
    BY <2>3, <2>4, <2>5, <2>6, <2>7 DEF SecondChance
  <2>. QED  BY <2>8, <2>9 DEF ClockOrder
<1>. QED  BY <1>2, <1>3

\* The number n or, past N, what is left of it; and the place after place n.
Wrapped(n, N) == IF n < N THEN n ELSE n - N
After(n, N) == IF n + 1 < N THEN n + 1 ELSE 0

\* The modulo of the code is at most one such subtraction.
LEMMA WrapsOnce ==
    ASSUME NEW m \in Nat \ {0}, NEW a \in 0 .. m - 1, NEW n \in 0 .. m
    PROVE  (a + n) % m = Wrapped(a + n, m)
<1>1. (a + n) % m = IF a + n < m THEN a + n ELSE a + n - m
  BY Turn
<1>2. a + n - m = (a + n) - m
  OBVIOUS
<1>3. Wrapped(a + n, m) = IF a + n < m THEN a + n ELSE (a + n) - m
  BY Zenon DEF Wrapped
<1>. QED  BY <1>1, <1>2, <1>3, Zenon

\* The j-th place of the round that starts after place k is the place j behind
\* it, as long as there is one ...
LEMMA PlaceBehind ==
    ASSUME NEW N \in Nat \ {0}, NEW arm \in 0 .. N - 1, NEW k \in 1 .. N, NEW j \in 1 .. N,
           j <= N - k
    PROVE  Wrapped(After(Wrapped(arm + (k - 1), N), N) + (j - 1), N)
              = Wrapped(arm + (k + j - 1), N)
BY DEF Wrapped, After

\* ... then a place from the start ...
LEMMA PlaceBefore ==
    ASSUME NEW N \in Nat \ {0}, NEW arm \in 0 .. N - 1, NEW k \in 1 .. N, NEW j \in 1 .. N,
           ~(j <= N - k), j <= N - 1
    PROVE  Wrapped(After(Wrapped(arm + (k - 1), N), N) + (j - 1), N)
              = Wrapped(arm + (j - (N - k) - 1), N)
BY DEF Wrapped, After

\* ... and the last one is place k itself.
LEMMA PlaceItself ==
    ASSUME NEW N \in Nat \ {0}, NEW arm \in 0 .. N - 1, NEW k \in 1 .. N
    PROVE  Wrapped(After(Wrapped(arm + (k - 1), N), N) + (N - 1), N)
              = Wrapped(arm + (k - 1), N)
BY DEF Wrapped, After

\* s goes once round the frames from arm on.
IsRound(s, arm) ==
    /\ s \in Seq(Frames) /\ Len(s) = memsize
    /\ \A j \in 1 .. memsize : s[j] = Wrapped(arm + (j - 1), memsize)

\* Taking frame k of a round out, the frames after it come first, then the ones
\* before it, then itself: the round that starts one place on.
LEMMA NewRound ==
    ASSUME NEW s, NEW arm \in Frames, NEW next \in Frames, NEW k \in 1 .. memsize,
           IsRound(s, arm),
           next = After(s[k], memsize)
    PROVE  IsRound(SubSeq(s, k + 1, memsize) \o SubSeq(s, 1, k - 1) \o <<s[k]>>, next)
<1>. DEFINE N == memsize
            a == SubSeq(s, k + 1, N)
            b == SubSeq(s, 1, k - 1)
            c == <<s[k]>>
            t == a \o b \o c
<1>0. N \in Nat \ {0} /\ Frames = 0 .. N - 1 /\ k \in 1 .. N
  BY FrameFacts
<1>. HIDE DEF N
<1>1. \A j \in 1 .. N : s[j] \in Frames
  BY ElementOfSeq DEF N, IsRound
<1>2. /\ a \in Seq(Frames) /\ Len(a) = N - k
      /\ \A j \in 1 .. N - k : a[j] = s[k + j]
  <2>1. \A j \in k + 1 .. N : s[j] \in Frames
    BY <1>0, <1>1
  <2>2. /\ a \in Seq(Frames)
        /\ Len(a) = IF k + 1 <= N THEN N - (k + 1) + 1 ELSE 0
        /\ \A j \in 1 .. N - (k + 1) + 1 : a[j] = s[k + 1 + j - 1]
    BY <1>0, <2>1, SubSeqProperties
  <2>. HIDE DEF a
  <2>. QED  BY <1>0, <2>2
<1>3. /\ b \in Seq(Frames) /\ Len(b) = k - 1
      /\ \A j \in 1 .. k - 1 : b[j] = s[j]
  <2>1. \A j \in 1 .. k - 1 : s[j] \in Frames
    BY <1>0, <1>1
  <2>2. /\ b \in Seq(Frames)
        /\ Len(b) = IF 1 <= k - 1 THEN k - 1 - 1 + 1 ELSE 0
        /\ \A j \in 1 .. k - 1 - 1 + 1 : b[j] = s[1 + j - 1]
    BY <1>0, <2>1, SubSeqProperties
  <2>. HIDE DEF b
  <2>. QED  BY <1>0, <2>2
<1>4. c \in Seq(Frames) /\ Len(c) = 1 /\ c[1] = s[k]
  BY <1>0, <1>1
<1>. HIDE DEF a, b, c
<1>5. /\ a \o b \in Seq(Frames) /\ Len(a \o b) = N - 1
      /\ \A j \in 1 .. N - 1 : (a \o b)[j] = IF j <= N - k THEN a[j] ELSE b[j - (N - k)]
  <2>1. /\ a \o b \in Seq(Frames) /\ Len(a \o b) = Len(a) + Len(b)
        /\ \A j \in 1 .. Len(a) + Len(b) : (a \o b)[j] = IF j <= Len(a) THEN a[j]
                                                         ELSE b[j - Len(a)]
    BY <1>2, <1>3, ConcatProperties
  <2>2. Len(a) + Len(b) = N - 1
    BY <1>0, <1>2, <1>3
  <2>. QED  BY <1>2, <2>1, <2>2
<1>6. /\ t \in Seq(Frames) /\ Len(t) = N
      /\ \A j \in 1 .. N : t[j] = IF j <= N - 1 THEN (a \o b)[j] ELSE c[j - (N - 1)]
  <2>. DEFINE ab == a \o b
  <2>1. ab \in Seq(Frames) /\ Len(ab) = N - 1 /\ t = ab \o c
    BY <1>5
  <2>. HIDE DEF ab, t
  <2>2. /\ ab \o c \in Seq(Frames) /\ Len(ab \o c) = Len(ab) + Len(c)
        /\ \A j \in 1 .. Len(ab) + Len(c) : (ab \o c)[j] = IF j <= Len(ab) THEN ab[j]
                                                           ELSE c[j - Len(ab)]
    BY <1>4, <2>1, ConcatProperties
  <2>3. Len(ab) + Len(c) = N
    BY <1>0, <1>4, <2>1
  <2>. QED  BY <2>1, <2>2, <2>3 DEF ab
<1>. HIDE DEF t
<1>7. ASSUME NEW j \in 1 .. N
      PROVE  t[j] = IF j <= N - k THEN s[k + j] ELSE IF j <= N - 1 THEN s[j - (N - k)] ELSE s[k]
  <2>1. CASE j <= N - k
    <3>1. j \in 1 .. N - k /\ j \in 1 .. N - 1 /\ j <= N - 1
      BY <1>0, <1>7, <2>1
    <3>. QED  BY <1>2, <1>5, <1>6, <1>7, <2>1, <3>1
  <2>2. CASE ~(j <= N - k) /\ j <= N - 1
    <3>1. j - (N - k) \in 1 .. k - 1 /\ j \in 1 .. N - 1
      BY <1>0, <1>7, <2>2
    <3>. QED  BY <1>3, <1>5, <1>6, <2>2, <3>1
  <2>3. CASE ~(j <= N - k) /\ ~(j <= N - 1)
    <3>1. j = N /\ j - (N - 1) = 1
      BY <1>0, <1>7, <2>3
    <3>. QED  BY <1>4, <1>6, <2>3, <3>1
  <2>. QED  BY <1>0, <2>1, <2>2, <2>3
<1>8. /\ \A j \in 1 .. N : s[j] = Wrapped(arm + (j - 1), N)
      /\ next = After(s[k], N)
  BY DEF N, IsRound, After
<1>00. arm \in 0 .. N - 1
  BY <1>0
<1>9. ASSUME NEW j \in 1 .. N PROVE t[j] = Wrapped(next + (j - 1), N)
  <2>1. next = After(Wrapped(arm + (k - 1), N), N) /\ s[k] = Wrapped(arm + (k - 1), N)
    BY <1>0, <1>8
  <2>2. CASE j <= N - k
    <3>1. k + j \in 1 .. N /\ t[j] = s[k + j]
      BY <1>0, <1>7, <1>9, <2>2
    <3>2. s[k + j] = Wrapped(arm + (k + j - 1), N)
      BY <1>8, <3>1
    <3>3. Wrapped(After(Wrapped(arm + (k - 1), N), N) + (j - 1), N)
             = Wrapped(arm + (k + j - 1), N)
      BY <1>0, <1>00, <2>2, PlaceBehind
    <3>. QED  BY <2>1, <3>1, <3>2, <3>3
  <2>3. CASE ~(j <= N - k) /\ j <= N - 1
    <3>1. j - (N - k) \in 1 .. N /\ t[j] = s[j - (N - k)]
      BY <1>0, <1>7, <1>9, <2>3
    <3>2. s[j - (N - k)] = Wrapped(arm + (j - (N - k) - 1), N)
      BY <1>8, <3>1
    <3>3. Wrapped(After(Wrapped(arm + (k - 1), N), N) + (j - 1), N)
             = Wrapped(arm + (j - (N - k) - 1), N)
      BY <1>0, <1>00, <2>3, PlaceBefore
    <3>. QED  BY <2>1, <3>1, <3>2, <3>3
  <2>4. CASE ~(j <= N - k) /\ ~(j <= N - 1)
    <3>1. j = N /\ t[j] = s[k]
      BY <1>0, <1>7, <1>9, <2>4
    <3>2. Wrapped(After(Wrapped(arm + (k - 1), N), N) + (N - 1), N)
             = Wrapped(arm + (k - 1), N)
      BY <1>0, <1>00, PlaceItself
    <3>. QED  BY <2>1, <3>1, <3>2
  <2>. QED  BY <2>2, <2>3, <2>4
<1>10. IsRound(t, next)
  BY <1>6, <1>9 DEF N, IsRound
<1>. QED  BY <1>10 DEF t, N, a, b, c

\* The hand moves on past the frame that is given up.
LEMMA ClockEvicts ==
    ASSUME ClockOrder, NEW i, NEW v, NEW q, Takes(i, v, q), Full,
           alg = "clock" => i = clock_evict,
           chances' = Chances(i),
           clock_arm' = IF alg = "clock" THEN (i + 1) % memsize ELSE clock_arm
    PROVE  ClockOrder'
<1>1. /\ i \in Frames /\ v # NoPage /\ alg' = alg
      /\ coremap'[i] = v /\ \A j \in Frames \ {i} : coremap'[j] = coremap[j]
  BY RealPage DEF Takes
<1>2. CASE alg # "clock"
  BY <1>1, <1>2 DEF ClockOrder
<1>3. CASE alg = "clock"
  <2>1. clock_arm \in Frames /\ SecondChance /\ i = clock_evict
    BY <1>3 DEF ClockOrder
  <2>2. PICK k \in 1 .. memsize :
             /\ Len(chances) = memsize /\ i = chances[k]
             /\ Chances(i) = SubSeq(chances, k + 1, memsize)
                                \o SubSeq(chances, 1, k - 1) \o <<i>>
    BY <2>1, ClockChooses
  <2>3. clock_arm' = (i + 1) % memsize
    BY <1>3
  <2>4. clock_arm' \in Frames /\ clock_arm' = IF i + 1 < memsize THEN i + 1 ELSE 0
    BY <1>1, <2>3, FrameFacts
  <2>5. \A j \in 1 .. memsize : j - 1 \in 0 .. memsize
    BY FrameFacts
  <2>6. ASSUME NEW j \in 1 .. memsize
        PROVE  chances[j] = Wrapped(clock_arm + (j - 1), memsize)
    <3>1. chances[j] = Ahead(j - 1)
      BY <2>1, <2>2 DEF SecondChance
    <3>2. Ahead(j - 1) = (clock_arm + (j - 1)) % memsize
      BY DEF Ahead
    <3>3. j - 1 \in 0 .. memsize /\ clock_arm \in 0 .. memsize - 1 /\ memsize \in Nat \ {0}
      BY <2>1, <2>5, FrameFacts
    <3>4. (clock_arm + (j - 1)) % memsize = Wrapped(clock_arm + (j - 1), memsize)
      BY <3>3, WrapsOnce
    <3>. QED  BY <3>1, <3>2, <3>4
  <2>7. IsRound(chances', clock_arm')
    <3>1. IsRound(chances, clock_arm)
      BY <2>1, <2>2, <2>6 DEF IsRound, SecondChance
    <3>2. chances' = SubSeq(chances, k + 1, memsize)
                        \o SubSeq(chances, 1, k - 1) \o <<chances[k]>>
      BY <2>2
    <3>3. clock_arm' = After(chances[k], memsize)
      BY <2>2, <2>4 DEF After
    <3>4. IsRound(SubSeq(chances, k + 1, memsize) \o SubSeq(chances, 1, k - 1)
                     \o <<chances[k]>>, clock_arm')
      BY <2>1, <2>4, <3>1, <3>3, NewRound
    <3>. QED  BY <3>2, <3>4, Zenon
  <2>8. ASSUME NEW j \in 1 .. memsize PROVE Ahead(j - 1)' = chances'[j]
    <3>1. Ahead(j - 1)' = (clock_arm' + (j - 1)) % memsize
      BY DEF Ahead
    <3>2. j - 1 \in 0 .. memsize /\ clock_arm' \in 0 .. memsize - 1 /\ memsize \in Nat \ {0}
      BY <2>4, <2>5, FrameFacts
    <3>3. ASSUME NEW a \in 0 .. memsize - 1, NEW n \in 0 .. memsize
          PROVE  (a + n) % memsize = Wrapped(a + n, memsize)
      BY <3>2, WrapsOnce
    <3>4. (clock_arm' + (j - 1)) % memsize = Wrapped(clock_arm' + (j - 1), memsize)
      BY <3>2, <3>3
    <3>5. chances'[j] = Wrapped(clock_arm' + (j - 1), memsize)
      BY <2>7 DEF IsRound
    <3>. QED  BY <3>1, <3>4, <3>5
  <2>9. ASSUME NEW j \in Frames PROVE coremap'[j] # NoPage /\ j < memsize
    BY <1>1, FrameFacts DEF Full
  <2>10. ~(memsize < memsize) /\ memsize <= memsize
    BY FrameFacts
  <2>11. SecondChance'
    BY <2>7, <2>8, <2>9, <2>10 DEF SecondChance, IsRound
  <2>. QED  BY <2>4, <2>11 DEF ClockOrder
<1>. QED  BY <1>2, <1>3
-----------------------------------------------------------------------------
(* The simulator *)

\* What the algorithms know of the simulator, beside Paging's invariant.
SInv == IInv /\ Inputs /\ Prefix /\ LastUses /\ Foreseen /\ QueueOrder /\ ClockOrder

\* evict_fcn for each algorithm.
LEMMA EvictFcnIs ==
    ASSUME Inputs
    PROVE  /\ alg \in {"rand", "fifo", "lru", "clock", "opt"}
           /\ alg = "rand"  => evict_fcn = Frames
           /\ alg = "fifo"  => evict_fcn = {fifo_evict}
           /\ alg = "lru"   => evict_fcn = {lru_evict}
           /\ alg = "clock" => evict_fcn = {clock_evict}
           /\ alg = "opt"   => evict_fcn = {opt_evict}
<1>1. alg \in {"rand", "fifo", "lru", "clock", "opt"}
  BY AlgsAssumption DEF Inputs
<1>. QED  BY <1>1 DEF evict_fcn, rand_evict

\* When memory is full, every algorithm answers a frame.
LEMMA SInvAnswers == SInv => EvictAnswersFrame
<1>. SUFFICES ASSUME SInv, Full PROVE evict_fcn \subseteq Frames
  BY DEF EvictAnswersFrame, Full
<1>1. CASE alg = "rand"
  BY <1>1, EvictFcnIs DEF SInv
<1>2. CASE alg = "fifo"
  BY <1>2, EvictFcnIs, FifoAnswers DEF SInv
<1>3. CASE alg = "lru"
  BY <1>3, EvictFcnIs, LruAnswers DEF SInv
<1>4. CASE alg = "clock"
  BY <1>4, EvictFcnIs, ClockAnswers DEF SInv, ClockOrder
<1>5. CASE alg = "opt"
  <2>1. Len(trace) \in Nat /\ ref_count \in Nat
    BY TracesAssumption DEF SInv, Inputs, IInv, TypeOK
  <2>2. coremap \in [Frames -> Pages \cup {NoPage}]
    BY DEF SInv, IInv, TypeOK
  <2>. QED  BY <1>5, <2>1, <2>2, EvictFcnIs, OptAnswers DEF SInv
<1>. QED  BY <1>1, <1>2, <1>3, <1>4, <1>5, EvictFcnIs DEF SInv

\* main's initial state.
LEMMA InitSInv == InitSim => SInv
<1>. SUFFICES ASSUME InitSim PROVE SInv
  OBVIOUS
<1>1. /\ Init /\ Inputs
      /\ ref_count = 0 /\ coremap = [i \in Frames |-> NoPage]
      /\ queue = makeQueue
      /\ timestamp_list = [i \in Frames |-> 0] /\ timestamp = 0
      /\ clock_arm = 0
      /\ page = [i \in Frames |-> 0] /\ curRef = 0
      /\ beladyTable = makeBeladyTable(trace)
      /\ loaded = [i \in Frames |-> 0]
      /\ chances = << >>
  BY DEF InitSim, Init, Inputs
<1>2. \A i \in Frames : coremap[i] = NoPage
  BY <1>1
<1>3. IInv
  BY <1>1, InitIInv
<1>4. Prefix
  BY <1>2 DEF Prefix
<1>5. LastUses
  BY <1>1, <1>2 DEF LastUses
<1>6. Foreseen
  <2>1. IsTable(makeBeladyTable(trace), trace, 0)
    BY <1>1, BeladyTable DEF Inputs
  <2>. QED  BY <1>1, <1>2, <2>1 DEF Foreseen
<1>7. QueueOrder
  <2>1. /\ queue.front = 0 /\ queue.back = 0
        /\ queue.contents = [k \in Frames |-> EMPTY_QUEUE_SLOT]
        /\ queue = [front |-> queue.front, back |-> queue.back,
                    contents |-> queue.contents]
    BY <1>1 DEF makeQueue
  <2>2. 0 \in Frames /\ \A j \in Frames : ~(j < 0)
    BY FrameFacts
  <2>3. ~Full
    BY <1>2, <2>2 DEF Full
  <2>4. QueueFilled
    BY <1>2, <2>1, <2>2, <2>3 DEF QueueFilled
  <2>. QED  BY <1>1, <1>2, <2>4 DEF QueueOrder, LoadedFrom
<1>8. ClockOrder
  <2>1. 0 \in Frames /\ 0 <= memsize /\ \A j \in Frames : ~(j < 0)
    BY FrameFacts
  <2>2. chances \in Seq(Frames) /\ Len(chances) = 0
    BY <1>1
  <2>3. SecondChance
    BY <1>1, <1>2, <2>1, <2>2 DEF SecondChance
  <2>. QED  BY <1>1, <2>1, <2>3 DEF ClockOrder
<1>. QED  BY <1>1, <1>3, <1>4, <1>5, <1>6, <1>7, <1>8 DEF SInv

\* A hit is a hit of module Paging and keeps what the algorithms know.
LEMMA HitKeeps ==
    ASSUME SInv, AccessHit
    PROVE  Next /\ coremap' = coremap /\ SInv'
<1>0. IInv /\ Inputs /\ Prefix /\ LastUses /\ Foreseen /\ QueueOrder /\ ClockOrder
  BY DEF SInv
<1>1. PICK i \in Frames : \E v \in Pages :
             /\ Takes(i, v, queue)
             /\ Hit(v, Line.type) /\ Line.type \in Types
             /\ coremap[i] = v /\ coremap' = coremap
             /\ UNCHANGED <<clock_arm, loaded, chances>>
  BY <1>0, HitTakes
<1>2. PICK v \in Pages :
             /\ Takes(i, v, queue)
             /\ Hit(v, Line.type) /\ Line.type \in Types
             /\ coremap[i] = v /\ coremap' = coremap
             /\ UNCHANGED <<clock_arm, loaded, chances>>
  BY <1>1
<1>3. Next
  BY <1>2 DEF Next
<1>4. IInv'
  BY <1>0, <1>3, StepIInv
<1>5. alg' = alg /\ trace' = trace
  BY <1>2 DEF Takes
<1>6. Inputs' /\ Prefix'
  BY <1>0, <1>2, <1>5 DEF Inputs, Prefix
<1>7. LastUses' /\ Foreseen'
  BY <1>0, <1>2, LastUsesStep, ForeseenStep
<1>8. QueueOrder'
  BY <1>0, <1>2, QueueHit
<1>9. ClockOrder'
  BY <1>0, <1>2, <1>5, ClockHit
<1>. QED  BY <1>2, <1>3, <1>4, <1>6, <1>7, <1>8, <1>9 DEF SInv

\* A miss that takes a free frame is one of module Paging; no page leaves.
LEMMA FreeKeeps ==
    ASSUME SInv, AccessFree
    PROVE  /\ Next /\ SInv'
           /\ \A j \in Frames : coremap[j] # NoPage => coremap'[j] = coremap[j]
<1>0. IInv /\ Inputs /\ Prefix /\ LastUses /\ Foreseen /\ QueueOrder /\ ClockOrder
  BY DEF SInv
<1>1. PICK i \in Frames : \E v \in Pages : \E fault \in Faults \cup {"none"} :
             /\ Takes(i, v, queue)
             /\ MissFree(v, Line.type, fault) /\ Line.type \in Types
             /\ coremap[i] = NoPage
             /\ \A j \in Frames : j < i => coremap[j] # NoPage
             /\ loaded' = [loaded EXCEPT ![i] = ref_count]
             /\ chances' = Append(chances, i)
             /\ clock_arm' = clock_arm
  BY <1>0, FreeTakes
<1>2. PICK v \in Pages : \E fault \in Faults \cup {"none"} :
             /\ Takes(i, v, queue)
             /\ MissFree(v, Line.type, fault) /\ Line.type \in Types
             /\ coremap[i] = NoPage
             /\ \A j \in Frames : j < i => coremap[j] # NoPage
             /\ loaded' = [loaded EXCEPT ![i] = ref_count]
             /\ chances' = Append(chances, i)
             /\ clock_arm' = clock_arm
  BY <1>1
<1>3. Next
  BY <1>2 DEF Next
<1>4. IInv'
  BY <1>0, <1>3, StepIInv
<1>5. /\ alg' = alg /\ trace' = trace /\ v # NoPage /\ coremap'[i] = v
      /\ \A j \in Frames \ {i} : coremap'[j] = coremap[j]
  BY <1>2, RealPage DEF Takes
<1>6. Inputs'
  BY <1>0, <1>5 DEF Inputs
<1>7. Prefix'
  <2>1. ASSUME NEW a \in Frames, NEW b \in Frames, b < a, coremap'[a] # NoPage
        PROVE  coremap'[b] # NoPage
    BY <1>0, <1>2, <1>5, <2>1 DEF Prefix
  <2>. QED  BY <2>1 DEF Prefix
<1>8. LastUses' /\ Foreseen'
  BY <1>0, <1>2, LastUsesStep, ForeseenStep
<1>9. QueueOrder'
  BY <1>0, <1>2, QueueFree
<1>10. ClockOrder'
  BY <1>0, <1>2, ClockFree
<1>11. \A j \in Frames : coremap[j] # NoPage => coremap'[j] = coremap[j]
  BY <1>2, <1>5
<1>. QED  BY <1>3, <1>4, <1>6, <1>7, <1>8, <1>9, <1>10, <1>11 DEF SInv

\* A miss that evicts is one of module Paging; the page that leaves is the one
\* in the frame evict_fcn answers.
LEMMA EvictKeeps ==
    ASSUME SInv, AccessEvict
    PROVE  /\ Next /\ SInv' /\ Full
           /\ \E i \in Frames : /\ i \in evict_fcn
                                /\ \A j \in Frames \ {i} : coremap'[j] = coremap[j]
<1>0. /\ IInv /\ Inputs /\ Prefix /\ LastUses /\ Foreseen /\ QueueOrder /\ ClockOrder
      /\ EvictAnswersFrame
  BY SInvAnswers DEF SInv
<1>. DEFINE swept == IF alg = "clock" THEN turned_off ELSE {}
<1>1. PICK i \in Frames : \E v \in Pages : \E fault \in Faults \cup {"none"} :
             /\ Takes(i, v, dequeue(queue))
             /\ MissEvict(v, Line.type, i, swept, fault)
             /\ Line.type \in Types
             /\ Full /\ i \in evict_fcn /\ coremap[i] # v
             /\ loaded' = [loaded EXCEPT ![i] = ref_count]
             /\ chances' = Chances(i)
             /\ clock_arm' = IF alg = "clock" THEN (i + 1) % memsize ELSE clock_arm
  BY <1>0, EvictTakes
<1>. HIDE DEF swept
<1>2. PICK v \in Pages : \E fault \in Faults \cup {"none"} :
             /\ Takes(i, v, dequeue(queue))
             /\ MissEvict(v, Line.type, i, swept, fault)
             /\ Line.type \in Types
             /\ Full /\ i \in evict_fcn /\ coremap[i] # v
             /\ loaded' = [loaded EXCEPT ![i] = ref_count]
             /\ chances' = Chances(i)
             /\ clock_arm' = IF alg = "clock" THEN (i + 1) % memsize ELSE clock_arm
  BY <1>1
<1>3. swept \in SUBSET Frames
  BY <1>0, ClockAnswers DEF swept, ClockOrder
<1>4. Next
  BY <1>2, <1>3 DEF Next
<1>5. IInv'
  BY <1>0, <1>4, StepIInv
<1>6. /\ alg' = alg /\ trace' = trace /\ v # NoPage /\ coremap'[i] = v
      /\ \A j \in Frames \ {i} : coremap'[j] = coremap[j]
  BY <1>2, RealPage DEF Takes
<1>7. Inputs'
  BY <1>0, <1>6 DEF Inputs
<1>8. Prefix'
  BY <1>2, <1>6 DEF Prefix, Full
<1>9. LastUses' /\ Foreseen'
  BY <1>0, <1>2, LastUsesStep, ForeseenStep
<1>10. QueueOrder'
  <2>1. alg = "fifo" => i = fifo_evict
    BY <1>0, <1>2, EvictFcnIs
  <2>. QED  BY <1>0, <1>2, <2>1, QueueEvict
<1>11. ClockOrder'
  <2>1. alg = "clock" => i = clock_evict
    BY <1>0, <1>2, EvictFcnIs
  <2>. QED  BY <1>0, <1>2, <2>1, ClockEvicts
<1>. QED  BY <1>2, <1>4, <1>5, <1>6, <1>7, <1>8, <1>9, <1>10, <1>11 DEF SInv

\* The assertion of swap_pagein leaves everything alone.
LEMMA AbortKeeps ==
    ASSUME SInv, AccessAbort
    PROVE  Next /\ coremap' = coremap /\ SInv'
<1>0. IInv /\ Inputs /\ Prefix /\ LastUses /\ Foreseen /\ QueueOrder /\ ClockOrder
  BY DEF SInv
<1>1. Line.page \in Pages
  BY <1>0, LineFacts DEF AccessAbort, IInv
<1>2. Next
  BY <1>1 DEF AccessAbort, Next
<1>3. UNCHANGED <<pte, coremap, ref_count, alg, trace, queue, timestamp_list, timestamp,
                  clock_arm, page, beladyTable, curRef, loaded, chances>>
  BY DEF AccessAbort, PageinAbort, tableVars, counters, algVars, optVars, histVars
<1>4. IInv'
  BY <1>0, <1>2, StepIInv
<1>5. Inputs' /\ Prefix' /\ LastUses' /\ Foreseen'
  BY <1>0, <1>3 DEF Inputs, Prefix, LastUses, Uses, Foreseen
<1>6. QueueOrder' /\ ClockOrder'
  BY <1>0, <1>3 DEF QueueOrder, QueueFilled, LoadedFrom, Full, ClockOrder, SecondChance, Ahead
<1>. QED  BY <1>2, <1>3, <1>4, <1>5, <1>6 DEF SInv

\* Every step keeps the invariant and is a step of module Paging.
LEMMA StepSInv == SInv /\ [NextSim]_allVars => SInv' /\ [Next]_vars
<1>. SUFFICES ASSUME SInv, [NextSim]_allVars PROVE SInv' /\ [Next]_vars
  OBVIOUS
<1>1. CASE UNCHANGED allVars
  <2>1. UNCHANGED <<vars, pte, coremap, ref_count, alg, trace, queue, timestamp_list,
                    timestamp, clock_arm, page, beladyTable, curRef, loaded, chances>>
    BY <1>1 DEF allVars, vars, tableVars, counters, algVars, optVars, histVars
  <2>2. IInv'
    BY <2>1, StepIInv DEF SInv
  <2>3. Inputs' /\ Prefix' /\ LastUses' /\ Foreseen'
    BY <2>1 DEF SInv, Inputs, Prefix, LastUses, Uses, Foreseen
  <2>4. QueueOrder' /\ ClockOrder'
    BY <2>1 DEF SInv, QueueOrder, QueueFilled, LoadedFrom, Full, ClockOrder, SecondChance, Ahead
  <2>. QED  BY <2>1, <2>2, <2>3, <2>4 DEF SInv
<1>2. CASE NextSim
  BY <1>2, HitKeeps, FreeKeeps, EvictKeeps, AbortKeeps DEF NextSim
<1>. QED  BY <1>1, <1>2
\* The page in frame i leaves: memory was full, and evict_fcn answered i.
LEMMA EvictsIs ==
    ASSUME SInv, [NextSim]_allVars, NEW i \in Frames, Evicts(i)
    PROVE  Full /\ i \in evict_fcn
<1>1. CASE UNCHANGED allVars
  BY <1>1 DEF Evicts, allVars, vars, tableVars
<1>2. CASE AccessHit
  BY <1>2, HitKeeps DEF Evicts
<1>3. CASE AccessFree
  BY <1>3, FreeKeeps DEF Evicts
<1>4. CASE AccessEvict
  <2>1. Full
    BY <1>4, EvictKeeps
  <2>2. PICK k \in Frames : /\ k \in evict_fcn
                            /\ \A j \in Frames \ {k} : coremap'[j] = coremap[j]
    BY <1>4, EvictKeeps
  <2>3. i = k
    BY <2>2 DEF Evicts
  <2>. QED  BY <2>1, <2>2, <2>3
<1>5. CASE AccessAbort
  BY <1>5, AbortKeeps DEF Evicts
<1>. QED  BY <1>1, <1>2, <1>3, <1>4, <1>5 DEF NextSim

\* The queue is a round: no frame is in it twice.
LEMMA ChancesOnce ==
    ASSUME ClockOrder, alg = "clock", NEW a \in 1 .. Len(chances), NEW b \in 1 .. Len(chances),
           chances[a] = chances[b]
    PROVE  a = b
<1>1. /\ clock_arm \in Frames /\ Len(chances) \in Nat /\ Len(chances) <= memsize
      /\ chances[a] = Ahead(a - 1) /\ chances[b] = Ahead(b - 1)
  BY DEF ClockOrder, SecondChance
<1>2. a - 1 \in Frames /\ b - 1 \in Frames
  BY <1>1, FrameFacts
<1>3. a - 1 = b - 1
  BY <1>1, <1>2, RoundOnce
<1>. QED  BY <1>3

-----------------------------------------------------------------------------
(* Swap space *)

\* A hit does not touch slots.
LEMMA HitAccounts ==
    ASSUME IInv, SlotsAccounted, NEW v \in Pages, NEW t \in Types, Hit(v, t)
    PROVE  SlotsAccounted'
<1>1. init_second_level(v) = pte /\ pte \in [Pages -> Entry]
  BY SecondLevel DEF IInv, TypeOK
<1>2. pte' = [pte EXCEPT ![v].ref = TRUE, ![v].dirty = @ \/ t \in Writes] /\ swapmap' = swapmap
  BY <1>1 DEF Hit
<1>3. \A x \in Pages : pte'[x].swap_off = pte[x].swap_off
  BY <1>1, <1>2 DEF Entry
<1>. QED  BY <1>2, <1>3 DEF SlotsAccounted

\* A page that comes back keeps its slot.
LEMMA MissFreeAccounts ==
    ASSUME IInv, SlotsAccounted, NEW v \in Pages, NEW t \in Types, NEW fault,
           MissFree(v, t, fault)
    PROVE  SlotsAccounted'
<1>. DEFINE i == Min({j \in Frames : coremap[j] = NoPage})
<1>1. init_second_level(v) = pte /\ pte \in [Pages -> Entry] /\ swapmap \subseteq Bits
  BY SecondLevel DEF IInv, TypeOK
<1>2. /\ pte' = [pte EXCEPT ![v] = Placed(pte[v], t, i)] /\ swapmap' = swapmap
      /\ ~pte[v].valid
  BY <1>1 DEF MissFree
<1>. HIDE DEF i
<1>3. \A x \in Pages : x # v => pte'[x] = pte[x]
  BY <1>1, <1>2
<1>4. pte'[v].swap_off = pte[v].swap_off
  <2>1. pte'[v].swap_off = IF pte[v].onswap THEN pte[v].swap_off ELSE INVALID_SWAP
    BY <1>1, <1>2 DEF Placed
  <2>2. ~pte[v].onswap => pte[v].swap_off = INVALID_SWAP
    BY <1>2 DEF IInv, StatusBits
  <2>. QED  BY <2>1, <2>2
<1>5. \A x \in Pages : pte'[x].swap_off = pte[x].swap_off
  BY <1>3, <1>4
<1>. QED  BY <1>2, <1>5 DEF SlotsAccounted

\* A slot that is newly marked becomes the victim's, unless the write fails.
LEMMA MissEvictAccounts ==
    ASSUME IInv, SlotsAccounted, NEW v \in Pages, NEW t \in Types, NEW i \in Frames,
           NEW swept, NEW fault \in Faults \cup {"none"}, MissEvict(v, t, i, swept, fault)
    PROVE  SlotsAccounted'
<1>. DEFINE w == coremap[i]
            out == pte[w].dirty
            off == IF out THEN swap_pageout(pte[w], fault) ELSE pte[w].swap_off
            new == IF pte[v].onswap THEN pte[v].swap_off ELSE INVALID_SWAP
<1>1. init_second_level(v) = pte /\ pte \in [Pages -> Entry] /\ swapmap \subseteq Bits
  BY SecondLevel DEF IInv, TypeOK
<1>2. /\ ~pte[v].valid
      /\ \A j \in Frames : coremap[j] # NoPage
      /\ pte' = [x \in Pages |->
                   IF x = v THEN Placed(pte[v], t, i)
                   ELSE IF x = w THEN Evicted(pte[w], off)
                   ELSE IF pte[x].valid /\ pte[x].frame \in swept
                        THEN [pte[x] EXCEPT !.ref = FALSE] ELSE pte[x]]
      /\ swapmap' = IF out THEN swapmap \cup ({swap_slot(pte[w])} \ {INVALID_SWAP})
                    ELSE swapmap
  BY <1>1 DEF MissEvict
<1>3. w \in Pages /\ pte[w].valid
  BY <1>2 DEF IInv, TypeOK, CoremapMatches
<1>. HIDE DEF w, off
<1>4. w # v
  BY <1>2, <1>3
<1>5. \A x \in Pages \ {v, w} : pte'[x].swap_off = pte[x].swap_off
  BY <1>1, <1>2 DEF Entry
<1>6. pte'[v].swap_off = pte[v].swap_off
  <2>1. pte'[v].swap_off = IF pte[v].onswap THEN pte[v].swap_off ELSE INVALID_SWAP
    BY <1>1, <1>2 DEF Placed
  <2>2. ~pte[v].onswap => pte[v].swap_off = INVALID_SWAP
    BY <1>2 DEF IInv, StatusBits
  <2>. QED  BY <2>1, <2>2
<1>7. pte'[w].swap_off = off
  <2>1. pte'[w] = Evicted(pte[w], off) /\ pte[w] \in Entry
    BY <1>1, <1>2, <1>3, <1>4
  <2>. QED  BY <2>1 DEF Evicted, Entry
<1>. SUFFICES ASSUME "pageout" \notin Faults, NEW b \in swapmap', b < swapsize
              PROVE  \E x \in Pages : pte'[x].swap_off = b
  BY DEF SlotsAccounted
<1>8. fault # "pageout"
  OBVIOUS
<1>9. off = IF out THEN swap_slot(pte[w]) ELSE pte[w].swap_off
  BY <1>8 DEF off, swap_pageout
<1>10. CASE out /\ b = swap_slot(pte[w])
  BY <1>3, <1>7, <1>9, <1>10
<1>11. CASE ~(out /\ b = swap_slot(pte[w]))
  <2>1. b \in swapmap
    BY <1>2, <1>11
  <2>2. PICK x \in Pages : pte[x].swap_off = b
    BY <2>1 DEF SlotsAccounted
  <2>3. CASE x # w
    BY <1>5, <1>6, <2>2, <2>3
  <2>4. CASE x = w
    <3>1. b # INVALID_SWAP
      BY <1>1, <2>1 DEF Bits, INVALID_SWAP
    <3>2. off = b
      BY <1>9, <2>2, <2>4, <3>1 DEF swap_slot
    <3>. QED  BY <1>3, <1>7, <3>2
  <2>. QED  BY <2>3, <2>4
<1>. QED  BY <1>10, <1>11

\* No step leaves a marked slot without a page.
LEMMA StepAccounts == IInv /\ SlotsAccounted /\ [Next]_vars => SlotsAccounted'
<1>. SUFFICES ASSUME IInv, SlotsAccounted, [Next]_vars PROVE SlotsAccounted'
  OBVIOUS
<1>1. CASE UNCHANGED vars
  BY <1>1 DEF SlotsAccounted, vars, tableVars, dataVars
<1>2. ASSUME NEW v \in Pages, PageinAbort(v) PROVE SlotsAccounted'
  BY <1>2 DEF PageinAbort, SlotsAccounted, tableVars, dataVars
<1>3. ASSUME NEW v \in Pages, NEW t \in Types, Hit(v, t) PROVE SlotsAccounted'
  BY <1>3, HitAccounts
<1>4. ASSUME NEW v \in Pages, NEW t \in Types, NEW fault, MissFree(v, t, fault)
      PROVE  SlotsAccounted'
  BY <1>4, MissFreeAccounts
<1>5. ASSUME NEW v \in Pages, NEW t \in Types, NEW fault \in Faults \cup {"none"},
             NEW i \in Frames, NEW swept \in SUBSET Frames, MissEvict(v, t, i, swept, fault)
      PROVE  SlotsAccounted'
  BY <1>5, MissEvictAccounts
<1>. QED  BY <1>1, <1>2, <1>3, <1>4, <1>5 DEF Next

-----------------------------------------------------------------------------
(* Belady's theorem: no other choice of victims misses less often than opt *)

\* The lines of tr reference pages.
IsTrace(tr) == Len(tr) \in Nat /\ \A n \in 1 .. Len(tr) : tr[n].page \in Pages

\* The traces main may be called with are such.
LEMMA TraceLines == \A tr \in Traces : IsTrace(tr)
<1>. SUFFICES ASSUME NEW tr \in Traces PROVE IsTrace(tr)
  OBVIOUS
<1>1. tr \in Seq([type : Types, page : Pages])
  BY TracesAssumption
<1>2. ASSUME NEW n \in 1 .. Len(tr) PROVE tr[n].page \in Pages
  <2>1. tr[n] \in [type : Types, page : Pages]
    BY <1>1, <1>2, ElementOfSeq
  <2>. QED  BY <2>1
<1>. QED  BY <1>1, <1>2 DEF IsTrace

\* The page of the line at which k lines are left.
PageAt(tr, k) == tr[Len(tr) - k + 1].page

\* The misses of that line.
Cost(S, v) == IF v \in S THEN 0 ELSE 1

\* The fewest misses of the last k lines, from those of the last k - 1.
FromNext(g, tr, k) ==
    [S \in SUBSET Pages |->
        IF k = 0 THEN 0
        ELSE LET v == tr[Len(tr) - k + 1].page
                 rest == {g[T] : T \in Served(S, v)}
             IN  (IF v \in S THEN 0 ELSE 1) + Min(rest)]

\* f holds the fewest misses of the last 0 .. m lines.
IsFewest(f, tr, m) == f = [k \in 0 .. m |-> FromNext(f[k - 1], tr, k)]

Fewest(tr) == CHOOSE f : IsFewest(f, tr, Len(tr))

\* The fewest misses can be computed for any number of lines.
LEMMA FewestExists ==
    ASSUME NEW tr, NEW m \in Nat
    PROVE  \E f : IsFewest(f, tr, m)
<1>. DEFINE Bad == {n \in Nat : ~\E f : IsFewest(f, tr, n)}
<1>1. SUFFICES ASSUME Bad # {} PROVE FALSE
  BY <1>1
<1>2. Min(Bad) \in Bad /\ \A n \in Bad : Min(Bad) <= n
  <2>1. Bad \subseteq Nat
    OBVIOUS
  <2>. HIDE DEF Bad
  <2>. QED  BY <1>1, <2>1, MinFacts
<1>3. PICK n \in Nat : n \in Bad /\ \A i \in Bad : n <= i
  BY <1>2
<1>4. n # 0
  <2>. DEFINE f == [k \in 0 .. 0 |-> FromNext(0, tr, 0)]
  <2>1. \A g : FromNext(g, tr, 0) = [S \in SUBSET Pages |-> 0]
    BY DEF FromNext
  <2>2. f = [k \in 0 .. 0 |-> FromNext(f[k - 1], tr, k)]
    BY <2>1
  <2>. QED  BY <1>3, <2>2 DEF IsFewest
<1>5. n - 1 \in Nat /\ n - 1 \notin Bad
  BY <1>3, <1>4
<1>6. PICK f : IsFewest(f, tr, n - 1)
  BY <1>5
<1>. DEFINE longer == [k \in 0 .. n |-> IF k = n THEN FromNext(f[n - 1], tr, n) ELSE f[k]]
<1>7. \A k \in 0 .. n - 1 : f[k] = FromNext(f[k - 1], tr, k)
  BY <1>6 DEF IsFewest
<1>8. ASSUME NEW k \in 0 .. n PROVE longer[k] = FromNext(longer[k - 1], tr, k)
  <2>1. CASE k = 0
    <3>1. FromNext(longer[k - 1], tr, 0) = FromNext(f[k - 1], tr, 0)
      BY DEF FromNext
    <3>2. k \in 0 .. n - 1 /\ longer[k] = f[k]
      BY <1>4, <1>5, <2>1
    <3>. QED  BY <1>7, <2>1, <3>1, <3>2
  <2>2. CASE k # 0
    <3>1. k - 1 \in 0 .. n - 1 /\ longer[k - 1] = f[k - 1]
      BY <1>5, <2>2
    <3>2. k # n => k \in 0 .. n - 1
      BY <1>5
    <3>. QED  BY <1>7, <3>1, <3>2
  <2>. QED  BY <2>1, <2>2
<1>9. IsFewest(longer, tr, n)
  BY <1>8 DEF IsFewest
<1>. QED  BY <1>3, <1>9

\* What FewestMisses computes on the way.
LEMMA FewestIs ==
    ASSUME NEW tr, IsTrace(tr)
    PROVE  /\ IsFewest(Fewest(tr), tr, Len(tr))
           /\ FewestMisses(tr) = Fewest(tr)[Len(tr)][{}]
<1>. DEFINE f == CHOOSE g : g = [k \in 0 .. Len(tr) |->
                   [S \in SUBSET Pages |->
                       IF k = 0 THEN 0
                       ELSE LET v == tr[Len(tr) - k + 1].page
                                rest == {g[k - 1][T] : T \in Served(S, v)}
                            IN  (IF v \in S THEN 0 ELSE 1) + Min(rest)]]
<1>1. FewestMisses(tr) = f[Len(tr)][{}]
  BY Zenon DEF FewestMisses
<1>2. f = Fewest(tr)
  BY Zenon DEF Fewest, IsFewest, FromNext
<1>3. \E g : IsFewest(g, tr, Len(tr))
  BY FewestExists DEF IsTrace
<1>4. IsFewest(Fewest(tr), tr, Len(tr))
  BY <1>3, Zenon DEF Fewest
<1>. HIDE DEF f
<1>. QED  BY <1>1, <1>2, <1>4

\* What can be in memory.
Residents == {S \in SUBSET Pages : IsFiniteSet(S) /\ Cardinality(S) <= memsize}

\* After a reference to v it holds v, and still fits.
LEMMA ServedFacts ==
    ASSUME NEW S \in Residents, NEW v \in Pages
    PROVE  /\ Served(S, v) # {} /\ Served(S, v) \subseteq Residents
           /\ \A T \in Served(S, v) : v \in T
           /\ v \in S => Served(S, v) = {S}
<1>1. S \subseteq Pages /\ IsFiniteSet(S) /\ Cardinality(S) <= memsize /\ Cardinality(S) \in Nat
  BY FS_CardinalityType DEF Residents
<1>2. memsize \in Nat \ {0}
  BY SizesAssumption
<1>3. CASE v \in S
  BY <1>3 DEF Served
<1>4. CASE v \notin S /\ Cardinality(S) < memsize
  <2>1. IsFiniteSet(S \cup {v}) /\ Cardinality(S \cup {v}) = Cardinality(S) + 1
    BY <1>1, <1>4, FS_AddElement
  <2>2. S \cup {v} \in Residents
    BY <1>1, <1>2, <1>4, <2>1 DEF Residents
  <2>. QED  BY <1>4, <2>2 DEF Served
<1>5. CASE v \notin S /\ ~(Cardinality(S) < memsize)
  <2>1. Served(S, v) = {(S \ {w}) \cup {v} : w \in S}
    BY <1>5 DEF Served
  <2>2. ASSUME NEW w \in S PROVE (S \ {w}) \cup {v} \in Residents
    <3>1. IsFiniteSet(S \ {w}) /\ Cardinality(S \ {w}) = Cardinality(S) - 1
      BY <1>1, FS_RemoveElement
    <3>2. /\ IsFiniteSet((S \ {w}) \cup {v})
          /\ Cardinality((S \ {w}) \cup {v}) = Cardinality(S \ {w}) + 1
      BY <1>5, <3>1, FS_AddElement
    <3>. QED  BY <1>1, <1>2, <3>1, <3>2 DEF Residents
  <2>3. S # {}
    BY <1>1, <1>2, <1>5, FS_EmptySet
  <2>. QED  BY <1>5, <2>1, <2>2, <2>3
<1>. QED  BY <1>3, <1>4, <1>5

\* The fewest misses are a number; no victim does better, and one does as well.
LEMMA FewestFacts ==
    ASSUME NEW tr, IsTrace(tr)
    PROVE  /\ \A S \in Residents : Fewest(tr)[0][S] = 0
           /\ \A k \in 0 .. Len(tr) : \A S \in Residents : Fewest(tr)[k][S] \in Nat
           /\ \A k \in 1 .. Len(tr) : PageAt(tr, k) \in Pages
           /\ \A k \in 1 .. Len(tr) : \A S \in Residents :
                 \A T \in Served(S, PageAt(tr, k)) :
                    Fewest(tr)[k][S] <= Cost(S, PageAt(tr, k)) + Fewest(tr)[k - 1][T]
           /\ \A k \in 1 .. Len(tr) : \A S \in Residents :
                 \E T \in Served(S, PageAt(tr, k)) :
                    Fewest(tr)[k][S] = Cost(S, PageAt(tr, k)) + Fewest(tr)[k - 1][T]
<1>. DEFINE f == Fewest(tr)
            e == Len(tr)
            Rest(k, S) == {f[k - 1][T] : T \in Served(S, PageAt(tr, k))}
            Bad == {k \in 0 .. e : ~\A S \in Residents : f[k][S] \in Nat}
<1>1. e \in Nat
  BY DEF IsTrace
<1>2. \A k \in 1 .. e : PageAt(tr, k) \in Pages
  <2>1. \A k \in 1 .. e : e - k + 1 \in 1 .. e
    BY <1>1
  <2>. QED  BY <2>1 DEF IsTrace, PageAt
<1>3. \A k \in 0 .. e : f[k] = FromNext(f[k - 1], tr, k)
  BY FewestIs DEF IsFewest
<1>4. \A S \in Residents : f[0][S] = 0
  <2>1. 0 \in 0 .. e
    BY <1>1
  <2>. HIDE DEF f, e
  <2>2. f[0] = FromNext(f[0 - 1], tr, 0)
    BY <1>3, <2>1
  <2>3. FromNext(f[0 - 1], tr, 0) = [S \in SUBSET Pages |-> 0]
    BY DEF FromNext
  <2>4. \A S \in Residents : S \in SUBSET Pages
    BY DEF Residents
  <2>. QED  BY <2>2, <2>3, <2>4
<1>5. \A k \in 1 .. e : \A S \in Residents :
        f[k][S] = Cost(S, PageAt(tr, k)) + Min(Rest(k, S))
  <2>. SUFFICES ASSUME NEW k \in 1 .. e, NEW S \in Residents
                PROVE  f[k][S] = Cost(S, PageAt(tr, k)) + Min(Rest(k, S))
    OBVIOUS
  <2>1. f[k] = FromNext(f[k - 1], tr, k) /\ k # 0
    BY <1>1, <1>3
  <2>2. S \in SUBSET Pages
    BY DEF Residents
  <2>. HIDE DEF f, e
  <2>3. FromNext(f[k - 1], tr, k)[S] = Cost(S, PageAt(tr, k)) + Min(Rest(k, S))
    BY <2>1, <2>2 DEF FromNext, Cost, PageAt
  <2>. QED  BY <2>1, <2>3
<1>. HIDE DEF f
<1>6. ASSUME NEW k \in 1 .. e, NEW S \in Residents, \A T \in Residents : f[k - 1][T] \in Nat
      PROVE  /\ Min(Rest(k, S)) \in Nat
             /\ \A T \in Served(S, PageAt(tr, k)) : Min(Rest(k, S)) <= f[k - 1][T]
             /\ \E T \in Served(S, PageAt(tr, k)) : Min(Rest(k, S)) = f[k - 1][T]
  <2>1. /\ Served(S, PageAt(tr, k)) # {}
        /\ Served(S, PageAt(tr, k)) \subseteq Residents
    BY <1>2, ServedFacts
  <2>2. Rest(k, S) \subseteq Nat /\ Rest(k, S) # {}
    BY <1>6, <2>1
  <2>3. Min(Rest(k, S)) \in Rest(k, S) /\ \A n \in Rest(k, S) : Min(Rest(k, S)) <= n
    <3>. HIDE DEF Rest
    <3>. QED  BY <2>2, MinFacts
  <2>. QED  BY <2>2, <2>3
<1>7. \A S : \A v : Cost(S, v) \in Nat
  BY DEF Cost
<1>8. Bad = {}
  <2>1. SUFFICES ASSUME Bad # {} PROVE FALSE
    BY <2>1
  <2>2. Min(Bad) \in Bad /\ \A n \in Bad : Min(Bad) <= n
    <3>1. Bad \subseteq Nat
      OBVIOUS
    <3>. HIDE DEF Bad
    <3>. QED  BY <2>1, <3>1, MinFacts
  <2>3. PICK k \in 0 .. e : k \in Bad /\ \A i \in Bad : k <= i
    BY <2>2
  <2>4. k # 0
    BY <1>4, <2>3
  <2>5. k \in 1 .. e /\ k - 1 \in 0 .. e /\ k - 1 \notin Bad
    BY <1>1, <2>3, <2>4
  <2>6. \A T \in Residents : f[k - 1][T] \in Nat
    BY <2>5
  <2>7. \A S \in Residents : f[k][S] = Cost(S, PageAt(tr, k)) + Min(Rest(k, S))
    BY <1>5, <2>5
  <2>8. \A S \in Residents : Min(Rest(k, S)) \in Nat
    BY <1>6, <2>5, <2>6
  <2>9. \A S \in Residents : f[k][S] \in Nat
    <3>. HIDE DEF Rest
    <3>. QED  BY <1>7, <2>7, <2>8
  <2>. QED  BY <2>3, <2>9
<1>9. \A k \in 0 .. e : \A S \in Residents : f[k][S] \in Nat
  BY <1>8
<1>10. ASSUME NEW k \in 1 .. e, NEW S \in Residents
       PROVE  /\ \A T \in Served(S, PageAt(tr, k)) :
                    f[k][S] <= Cost(S, PageAt(tr, k)) + f[k - 1][T]
              /\ \E T \in Served(S, PageAt(tr, k)) :
                    f[k][S] = Cost(S, PageAt(tr, k)) + f[k - 1][T]
  <2>1. k - 1 \in 0 .. e
    BY <1>1
  <2>2. \A T \in Residents : f[k - 1][T] \in Nat
    BY <1>9, <2>1
  <2>3. /\ Min(Rest(k, S)) \in Nat
        /\ \A T \in Served(S, PageAt(tr, k)) : Min(Rest(k, S)) <= f[k - 1][T]
        /\ \E T \in Served(S, PageAt(tr, k)) : Min(Rest(k, S)) = f[k - 1][T]
    BY <1>6, <2>2
  <2>4. f[k][S] = Cost(S, PageAt(tr, k)) + Min(Rest(k, S))
    BY <1>5
  <2>5. Served(S, PageAt(tr, k)) \subseteq Residents
    BY <1>2, ServedFacts
  <2>6. Cost(S, PageAt(tr, k)) \in Nat
    BY <1>7
  <2>. HIDE DEF Rest
  <2>7. \A T \in Served(S, PageAt(tr, k)) :
          f[k][S] <= Cost(S, PageAt(tr, k)) + f[k - 1][T]
    BY <2>2, <2>3, <2>4, <2>5, <2>6
  <2>. QED  BY <2>3, <2>4, <2>7
<1>. QED  BY <1>2, <1>4, <1>9, <1>10 DEF f

\* Fewer than memsize pages of what is in memory stay there if the right one is
\* given up; pages of Y are not asked for.
LEMMA Room ==
    ASSUME NEW S \in Residents, NEW v \in Pages, NEW Y, NEW kept, kept \subseteq S \cup Y,
           IsFiniteSet(kept), Cardinality(kept) < memsize
    PROVE  \E next \in Served(S, v) : kept \cup {v} \subseteq next \cup Y
<1>1. IsFiniteSet(S) /\ Cardinality(S) \in Nat /\ Cardinality(S) <= memsize
  BY FS_CardinalityType DEF Residents
<1>2. CASE v \in S
  BY <1>2 DEF Served
<1>3. CASE v \notin S /\ Cardinality(S) < memsize
  BY <1>3 DEF Served
<1>4. CASE v \notin S /\ ~(Cardinality(S) < memsize)
  <2>1. ~(S \subseteq kept)
    <3>1. S \subseteq kept => Cardinality(S) <= Cardinality(kept)
      BY FS_Subset
    <3>2. Cardinality(kept) \in Nat /\ memsize \in Nat
      BY FS_CardinalityType, SizesAssumption
    <3>. QED  BY <1>1, <1>4, <3>1, <3>2
  <2>2. PICK w \in S : w \notin kept
    BY <2>1
  <2>3. (S \ {w}) \cup {v} \in Served(S, v)
    BY <1>4 DEF Served
  <2>4. kept \cup {v} \subseteq ((S \ {w}) \cup {v}) \cup Y
    BY <2>2
  <2>. QED  BY <2>3, <2>4
<1>. QED  BY <1>2, <1>3, <1>4

\* After a miss, what was kept beside v is less than memory holds.
LEMMA Kept ==
    ASSUME NEW S \in Residents, NEW v \in Pages, v \notin S, NEW next \in Served(S, v)
    PROVE  \E kept \in SUBSET S : /\ next = kept \cup {v}
                                  /\ IsFiniteSet(kept) /\ Cardinality(kept) < memsize
<1>1. IsFiniteSet(S) /\ Cardinality(S) \in Nat /\ Cardinality(S) <= memsize
  BY FS_CardinalityType DEF Residents
<1>2. CASE Cardinality(S) < memsize
  BY <1>1, <1>2 DEF Served
<1>3. CASE ~(Cardinality(S) < memsize)
  <2>1. PICK w \in S : next = (S \ {w}) \cup {v}
    BY <1>3 DEF Served
  <2>2. IsFiniteSet(S \ {w}) /\ Cardinality(S \ {w}) = Cardinality(S) - 1
    BY <1>1, FS_RemoveElement
  <2>3. Cardinality(S \ {w}) < memsize
    BY <1>1, <2>2, SizesAssumption
  <2>. QED  BY <2>1, <2>2, <2>3
<1>. QED  BY <1>2, <1>3

\* More pages in memory are no worse, and one page is worth one miss at most.
Richer(tr, k) ==
    /\ \A S, T \in Residents : T \subseteq S => Fewest(tr)[k][S] <= Fewest(tr)[k][T]
    /\ \A S, T \in Residents : \A y \in Pages :
          T \subseteq S \cup {y} => Fewest(tr)[k][S] <= Fewest(tr)[k][T] + 1

\* If that holds with k - 1 lines left, it holds with k: the richer memory keeps
\* what the poorer one keeps.
LEMMA RicherBefore ==
    ASSUME NEW tr, IsTrace(tr), NEW k \in 1 .. Len(tr), Richer(tr, k - 1)
    PROVE  Richer(tr, k)
<1>. DEFINE f == Fewest(tr)[k]
            g == Fewest(tr)[k - 1]
            v == PageAt(tr, k)
<1>0. k \in 0 .. Len(tr) /\ k - 1 \in 0 .. Len(tr)
  BY DEF IsTrace
<1>1. /\ v \in Pages
      /\ \A S \in Residents : f[S] \in Nat /\ g[S] \in Nat
      /\ \A S \in Residents : \A T \in Served(S, v) : f[S] <= Cost(S, v) + g[T]
      /\ \A S \in Residents : \E T \in Served(S, v) : f[S] = Cost(S, v) + g[T]
  BY <1>0, FewestFacts
<1>2. /\ \A S, T \in Residents : T \subseteq S => g[S] <= g[T]
      /\ \A S, T \in Residents : \A y \in Pages : T \subseteq S \cup {y} => g[S] <= g[T] + 1
  BY DEF Richer
<1>3. \A S \in Residents : Served(S, v) \subseteq Residents
  BY <1>1, ServedFacts
<1>4. \A S \in Residents : v \in S => Served(S, v) = {S}
  BY <1>1, ServedFacts
<1>. HIDE DEF f, g, v
<1>5. \A S : (v \in S => Cost(S, v) = 0) /\ (v \notin S => Cost(S, v) = 1)
  BY DEF Cost
<1>6. \A S \in Residents : \A T \in Served(S, v) : f[S] <= 1 + g[T]
  <2>. SUFFICES ASSUME NEW S \in Residents, NEW T \in Served(S, v) PROVE f[S] <= 1 + g[T]
    OBVIOUS
  <2>1. f[S] <= Cost(S, v) + g[T] /\ f[S] \in Nat /\ g[T] \in Nat
    BY <1>1, <1>3
  <2>2. Cost(S, v) = 0 \/ Cost(S, v) = 1
    BY <1>5
  <2>. QED  BY <2>1, <2>2
<1>7. ASSUME NEW S \in Residents, NEW T \in Residents, NEW Y \in SUBSET Pages, NEW d \in {0, 1},
             T \subseteq S \cup Y,
             \A M, N \in Residents : N \subseteq M \cup Y => g[M] <= g[N] + d,
             v \in T => v \in S
      PROVE  f[S] <= f[T] + d
  <2>1. PICK next \in Served(T, v) : f[T] = Cost(T, v) + g[next]
    BY <1>1
  <2>2. next \in Residents
    BY <1>3, <2>1
  <2>3. CASE v \in T
    <3>1. next = T /\ S \in Served(S, v)
      BY <1>4, <1>7, <2>1, <2>3
    <3>2. f[S] <= 0 + g[S] /\ f[T] = 0 + g[T]
      BY <1>1, <1>5, <1>7, <2>1, <2>3, <3>1
    <3>3. g[S] <= g[T] + d
      BY <1>7
    <3>. QED  BY <1>1, <3>2, <3>3
  <2>4. CASE v \notin T
    <3>1. PICK kept \in SUBSET T : /\ next = kept \cup {v}
                                   /\ IsFiniteSet(kept) /\ Cardinality(kept) < memsize
      BY <1>1, <2>1, <2>4, Kept
    <3>2. PICK held \in Served(S, v) : kept \cup {v} \subseteq held \cup Y
      <4>1. kept \subseteq S \cup Y
        BY <1>7
      <4>. QED  BY <1>1, <3>1, <4>1, Room
    <3>3. held \in Residents /\ f[S] <= 1 + g[held]
      BY <1>3, <1>6
    <3>4. g[held] <= g[next] + d
      BY <1>7, <2>2, <3>1, <3>2, <3>3
    <3>5. f[T] = 1 + g[next]
      BY <1>5, <2>1, <2>4
    <3>. QED  BY <1>1, <2>2, <3>3, <3>4, <3>5
  <2>. QED  BY <2>3, <2>4
<1>8. ASSUME NEW S \in Residents, NEW T \in Residents, T \subseteq S
      PROVE  f[S] <= f[T]
  <2>1. \A M, N \in Residents : N \subseteq M \cup {} => g[M] <= g[N] + 0
    <3>. SUFFICES ASSUME NEW M \in Residents, NEW N \in Residents, N \subseteq M \cup {}
                  PROVE  g[M] <= g[N] + 0
      OBVIOUS
    <3>1. g[M] <= g[N]
      BY <1>2
    <3>. QED  BY <1>1, <3>1
  <2>2. f[S] <= f[T] + 0
    BY <1>7, <1>8, <2>1
  <2>. QED  BY <1>1, <2>2
<1>9. ASSUME NEW S \in Residents, NEW T \in Residents, NEW y \in Pages, T \subseteq S \cup {y}
      PROVE  f[S] <= f[T] + 1
  <2>1. CASE v \in T => v \in S
    BY <1>2, <1>7, <1>9, <2>1
  <2>2. CASE v \in T /\ v \notin S
    <3>. DEFINE kept == T \ {v}
                none == {}
    <3>1. kept \subseteq S \cup none
      BY <1>9, <2>2
    <3>2. IsFiniteSet(kept) /\ Cardinality(kept) < memsize
      <4>1. IsFiniteSet(T) /\ Cardinality(T) \in Nat /\ Cardinality(T) <= memsize
        BY FS_CardinalityType DEF Residents
      <4>2. IsFiniteSet(T \ {v}) /\ Cardinality(T \ {v}) = Cardinality(T) - 1
        BY <2>2, <4>1, FS_RemoveElement
      <4>. QED  BY <4>1, <4>2, SizesAssumption
    <3>3. PICK held \in Served(S, v) : kept \cup {v} \subseteq held \cup none
      <4>. HIDE DEF kept, none
      <4>. QED  BY <1>1, <3>1, <3>2, Room
    <3>4. held \in Residents /\ T \subseteq held /\ f[S] <= 1 + g[held]
      BY <1>3, <1>6, <3>3
    <3>5. g[held] <= g[T]
      BY <1>2, <3>4
    <3>6. f[T] = g[T]
      <4>1. PICK next \in Served(T, v) : f[T] = Cost(T, v) + g[next]
        BY <1>1
      <4>2. next = T /\ Cost(T, v) = 0
        BY <1>4, <1>5, <2>2, <4>1
      <4>. QED  BY <1>1, <4>1, <4>2
    <3>. QED  BY <1>1, <3>4, <3>5, <3>6
  <2>. QED  BY <2>1, <2>2
<1>. QED  BY <1>8, <1>9 DEF Richer, f

\* More pages are no worse whatever is left of the trace.
LEMMA RicherAlways ==
    ASSUME NEW tr, IsTrace(tr)
    PROVE  \A k \in 0 .. Len(tr) : Richer(tr, k)
<1>. DEFINE Bad == {k \in 0 .. Len(tr) : ~Richer(tr, k)}
<1>1. Len(tr) \in Nat
  BY DEF IsTrace
<1>2. SUFFICES ASSUME Bad # {} PROVE FALSE
  BY <1>2
<1>3. Min(Bad) \in Bad /\ \A k \in Bad : Min(Bad) <= k
  <2>1. Bad \subseteq Nat
    OBVIOUS
  <2>. HIDE DEF Bad
  <2>. QED  BY <1>2, <2>1, MinFacts
<1>4. PICK k \in 0 .. Len(tr) : k \in Bad /\ \A i \in Bad : k <= i
  BY <1>3
<1>5. Richer(tr, 0)
  BY FewestFacts DEF Richer
<1>6. k \in 1 .. Len(tr) /\ k - 1 \in 0 .. Len(tr) /\ k - 1 \notin Bad
  BY <1>1, <1>4, <1>5
<1>. QED  BY <1>4, <1>6, RicherBefore

\* With k lines left, every coming reference to y has one to x before it.
Sooner(tr, k, x, y) ==
    \A j \in 1 .. k : PageAt(tr, j) = y => \E i \in j .. k : PageAt(tr, i) = x

\* The page that is referenced sooner is the better one to have in memory.
Exchange(tr, k) ==
    \A A \in SUBSET Pages : \A x, y \in Pages \ A :
        IsFiniteSet(A) /\ Cardinality(A) < memsize /\ Sooner(tr, k, x, y) =>
            Fewest(tr)[k][A \cup {x}] <= Fewest(tr)[k][A \cup {y}]

\* Less than memory holds, and one page more, fits.
LEMMA OneMore ==
    ASSUME NEW A \in SUBSET Pages, IsFiniteSet(A), Cardinality(A) < memsize,
           NEW x \in Pages \ A
    PROVE  /\ A \cup {x} \in Residents
           /\ Cardinality(A \cup {x}) = Cardinality(A) + 1
<1>1. IsFiniteSet(A \cup {x}) /\ Cardinality(A \cup {x}) = Cardinality(A) + 1
  BY FS_AddElement
<1>2. Cardinality(A) \in Nat /\ memsize \in Nat
  BY FS_CardinalityType, SizesAssumption
<1>. QED  BY <1>1, <1>2 DEF Residents

\* A miss on v with A and x in memory leads to next, or to a set that differs
\* from it in x and y only.
CanFollow(A, x, y, v, next) ==
    \/ next \in Served(A \cup {x}, v)
    \/ \E B \in SUBSET Pages :
          /\ IsFiniteSet(B) /\ Cardinality(B) < memsize /\ x \notin B /\ y \notin B
          /\ next = B \cup {y} /\ B \cup {x} \in Served(A \cup {x}, v)

\* Whatever is given up for v when y is in memory, the same can be done when x
\* is there instead, unless v is x.
LEMMA SameVictim ==
    ASSUME NEW A \in SUBSET Pages, IsFiniteSet(A), Cardinality(A) < memsize,
           NEW x \in Pages \ A, NEW y \in Pages \ A, x # y,
           NEW v \in Pages \ {x, y}, NEW next \in Served(A \cup {y}, v)
    PROVE  CanFollow(A, x, y, v, next)
<1>1. /\ A \cup {x} \in Residents /\ Cardinality(A \cup {x}) = Cardinality(A) + 1
      /\ A \cup {y} \in Residents /\ Cardinality(A \cup {y}) = Cardinality(A) + 1
  BY OneMore
<1>2. Cardinality(A) \in Nat /\ memsize \in Nat
  BY FS_CardinalityType, SizesAssumption
<1>3. CASE v \in A
  <2>1. next = A \cup {y} /\ A \cup {x} \in Served(A \cup {x}, v)
    BY <1>3 DEF Served
  <2>. QED  BY <2>1 DEF CanFollow
<1>4. CASE v \notin A /\ Cardinality(A) + 1 < memsize
  <2>. DEFINE B == A \cup {v}
  <2>1. next = (A \cup {y}) \cup {v} /\ (A \cup {x}) \cup {v} \in Served(A \cup {x}, v)
    BY <1>1, <1>4 DEF Served
  <2>2. next = B \cup {y} /\ B \cup {x} = (A \cup {x}) \cup {v}
    BY <2>1
  <2>3. IsFiniteSet(B) /\ Cardinality(B) = Cardinality(A) + 1
    BY <1>4, FS_AddElement
  <2>4. B \in SUBSET Pages /\ x \notin B /\ y \notin B
    OBVIOUS
  <2>. HIDE DEF B
  <2>. QED  BY <1>4, <2>1, <2>2, <2>3, <2>4 DEF CanFollow
<1>5. CASE v \notin A /\ ~(Cardinality(A) + 1 < memsize)
  <2>1. /\ Served(A \cup {y}, v) = {((A \cup {y}) \ {w}) \cup {v} : w \in A \cup {y}}
        /\ Served(A \cup {x}, v) = {((A \cup {x}) \ {w}) \cup {v} : w \in A \cup {x}}
    BY <1>1, <1>5 DEF Served
  <2>2. PICK w \in A \cup {y} : next = ((A \cup {y}) \ {w}) \cup {v}
    BY <2>1
  <2>3. CASE w = y
    <3>1. next = ((A \cup {x}) \ {x}) \cup {v}
      BY <2>2, <2>3
    <3>. QED  BY <2>1, <3>1 DEF CanFollow
  <2>4. CASE w \in A
    <3>. DEFINE B == (A \ {w}) \cup {v}
    <3>1. IsFiniteSet(A \ {w}) /\ Cardinality(A \ {w}) = Cardinality(A) - 1
      BY <2>4, FS_RemoveElement
    <3>2. v \notin A \ {w}
      BY <1>5
    <3>3. IsFiniteSet(B) /\ Cardinality(B) = Cardinality(A \ {w}) + 1
      BY <3>1, <3>2, FS_AddElement
    <3>4. Cardinality(B) < memsize
      BY <1>2, <3>1, <3>3
    <3>5. next = B \cup {y} /\ B \cup {x} = ((A \cup {x}) \ {w}) \cup {v}
      BY <2>2, <2>4
    <3>6. B \cup {x} \in Served(A \cup {x}, v)
      BY <2>1, <2>4, <3>5
    <3>7. B \in SUBSET Pages /\ x \notin B /\ y \notin B
      OBVIOUS
    <3>. HIDE DEF B
    <3>. QED  BY <3>3, <3>4, <3>5, <3>6, <3>7 DEF CanFollow
  <2>. QED  BY <2>3, <2>4
<1>. QED  BY <1>3, <1>4, <1>5

\* The exchange with one line more.
LEMMA ExchangeBefore ==
    ASSUME NEW tr, IsTrace(tr), NEW k \in 1 .. Len(tr), Exchange(tr, k - 1)
    PROVE  Exchange(tr, k)
<1>. DEFINE f == Fewest(tr)[k]
            g == Fewest(tr)[k - 1]
            v == PageAt(tr, k)
<1>. SUFFICES ASSUME NEW A \in SUBSET Pages, NEW x \in Pages \ A, NEW y \in Pages \ A,
                     IsFiniteSet(A), Cardinality(A) < memsize, Sooner(tr, k, x, y)
              PROVE  f[A \cup {x}] <= f[A \cup {y}]
  BY DEF Exchange
<1>. DEFINE S == A \cup {x}
            T == A \cup {y}
<1>0. k \in Nat /\ k \in 0 .. Len(tr) /\ k - 1 \in 0 .. Len(tr)
  BY DEF IsTrace
<1>1. S \in Residents /\ T \in Residents
  BY OneMore
<1>2. /\ v \in Pages
      /\ \A M \in Residents : f[M] \in Nat /\ g[M] \in Nat
      /\ \A M \in Residents : \A N \in Served(M, v) : f[M] <= Cost(M, v) + g[N]
      /\ \A M \in Residents : \E N \in Served(M, v) : f[M] = Cost(M, v) + g[N]
  BY <1>0, FewestFacts
<1>3. \A M \in Residents : Served(M, v) \subseteq Residents
  BY <1>2, ServedFacts
<1>4. Richer(tr, k - 1)
  BY <1>0, RicherAlways
<1>5. PICK next \in Served(T, v) : f[T] = Cost(T, v) + g[next]
  BY <1>1, <1>2
<1>6. next \in Residents
  BY <1>1, <1>3, <1>5
<1>7. CASE x = y
  <2>1. S = T
    BY <1>7
  <2>. HIDE DEF S, T, f
  <2>2. f[S] <= f[T]
    BY <1>1, <1>2, <2>1
  <2>. QED  BY <2>2 DEF S, T
<1>8. CASE x # y /\ v = x
  <2>1. v \notin T /\ S \in Served(S, v) /\ Cost(S, v) = 0 /\ Cost(T, v) = 1
    BY <1>8 DEF Cost, Served
  <2>2. PICK kept \in SUBSET T : /\ next = kept \cup {v}
                                 /\ IsFiniteSet(kept) /\ Cardinality(kept) < memsize
    <3>. HIDE DEF T, v
    <3>. QED  BY <1>1, <1>2, <1>5, <2>1, Kept
  <2>3. next \subseteq S \cup {y}
    BY <1>8, <2>2
  <2>. HIDE DEF S, T, f, g, v
  <2>4. g[S] <= g[next] + 1
    BY <1>1, <1>4, <1>6, <2>3 DEF Richer, g
  <2>5. f[S] <= 0 + g[S] /\ f[T] = 1 + g[next]
    BY <1>1, <1>2, <1>5, <2>1
  <2>6. f[S] <= f[T]
    BY <1>1, <1>2, <1>6, <2>4, <2>5
  <2>. QED  BY <2>6 DEF S, T
<1>9. CASE x # y /\ v = y
  <2>1. k \in 1 .. k
    BY <1>0
  <2>2. PICK i \in k .. k : PageAt(tr, i) = x
    BY <1>9, <2>1 DEF Sooner
  <2>3. i = k
    BY <1>0
  <2>. QED  BY <1>9, <2>2, <2>3
<1>10. CASE x # y /\ v # x /\ v # y
  <2>1. Cost(S, v) = Cost(T, v) /\ Cost(S, v) \in Nat
    BY <1>10 DEF Cost
  <2>2. Sooner(tr, k - 1, x, y)
    <3>. SUFFICES ASSUME NEW j \in 1 .. k - 1, PageAt(tr, j) = y
                  PROVE  \E i \in j .. k - 1 : PageAt(tr, i) = x
      BY DEF Sooner
    <3>1. j \in 1 .. k
      BY <1>0
    <3>2. PICK i \in j .. k : PageAt(tr, i) = x
      BY <3>1 DEF Sooner
    <3>3. i # k
      BY <1>10, <3>2
    <3>4. i \in j .. k - 1
      BY <1>0, <3>3
    <3>. QED  BY <3>2, <3>4
  <2>3. v \in Pages \ {x, y}
    BY <1>2, <1>10
  <2>4. \/ next \in Served(S, v)
        \/ \E B \in SUBSET Pages :
              /\ IsFiniteSet(B) /\ Cardinality(B) < memsize /\ x \notin B /\ y \notin B
              /\ next = B \cup {y} /\ B \cup {x} \in Served(S, v)
    <3>1. next \in Served(A \cup {y}, v) /\ x # y
      BY <1>5, <1>10
    <3>2. CanFollow(A, x, y, v, next)
      <4>. HIDE DEF v, S, T
      <4>. QED  BY <2>3, <3>1, SameVictim
    <3>. QED  BY <3>2 DEF CanFollow
  <2>5. \E M \in Served(S, v) : g[M] <= g[next]
    <3>1. CASE next \in Served(S, v)
      <4>. HIDE DEF S, T, g, v
      <4>1. g[next] <= g[next]
        BY <1>2, <1>6
      <4>. QED  BY <3>1, <4>1
    <3>2. ASSUME NEW B \in SUBSET Pages,
                 IsFiniteSet(B), Cardinality(B) < memsize, x \notin B, y \notin B,
                 next = B \cup {y}, B \cup {x} \in Served(S, v)
          PROVE  \E M \in Served(S, v) : g[M] <= g[next]
      <4>1. x \in Pages \ B /\ y \in Pages \ B
        BY <3>2
      <4>2. g[B \cup {x}] <= g[B \cup {y}]
        BY <2>2, <3>2, <4>1 DEF Exchange
      <4>. QED  BY <3>2, <4>2
    <3>. HIDE DEF S, T, g, v
    <3>. QED  BY <2>4, <3>1, <3>2
  <2>. HIDE DEF S, T, f, g, v
  <2>6. PICK M \in Served(S, v) : g[M] <= g[next]
    BY <2>5
  <2>7. f[S] <= Cost(S, v) + g[M] /\ g[M] \in Nat
    BY <1>1, <1>2, <1>3
  <2>8. f[S] <= f[T]
    BY <1>1, <1>2, <1>5, <1>6, <2>1, <2>6, <2>7
  <2>. QED  BY <2>8 DEF S, T
<1>. QED  BY <1>7, <1>8, <1>9, <1>10

\* The exchange holds whatever is left of the trace.
LEMMA ExchangeAlways ==
    ASSUME NEW tr, IsTrace(tr)
    PROVE  \A k \in 0 .. Len(tr) : Exchange(tr, k)
<1>. DEFINE Bad == {k \in 0 .. Len(tr) : ~Exchange(tr, k)}
<1>1. Len(tr) \in Nat
  BY DEF IsTrace
<1>2. SUFFICES ASSUME Bad # {} PROVE FALSE
  BY <1>2
<1>3. Min(Bad) \in Bad /\ \A k \in Bad : Min(Bad) <= k
  <2>1. Bad \subseteq Nat
    OBVIOUS
  <2>. HIDE DEF Bad
  <2>. QED  BY <1>2, <2>1, MinFacts
<1>4. PICK k \in 0 .. Len(tr) : k \in Bad /\ \A i \in Bad : k <= i
  BY <1>3
<1>5. Exchange(tr, 0)
  <2>. SUFFICES ASSUME NEW A \in SUBSET Pages, NEW x \in Pages \ A, NEW y \in Pages \ A,
                       IsFiniteSet(A), Cardinality(A) < memsize
                PROVE  Fewest(tr)[0][A \cup {x}] <= Fewest(tr)[0][A \cup {y}]
    BY DEF Exchange
  <2>1. A \cup {x} \in Residents /\ A \cup {y} \in Residents
    BY OneMore
  <2>2. Fewest(tr)[0][A \cup {x}] = 0 /\ Fewest(tr)[0][A \cup {y}] = 0
    BY <2>1, FewestFacts
  <2>. QED  BY <2>2
<1>6. k \in 1 .. Len(tr) /\ k - 1 \in 0 .. Len(tr) /\ k - 1 \notin Bad
  BY <1>1, <1>4, <1>5
<1>. QED  BY <1>4, <1>6, ExchangeBefore

\* Belady's theorem for one miss: to give up the page u that every other one in
\* memory is referenced before is to miss no more often from here on.
LEMMA FurthestIsBest ==
    ASSUME NEW tr, IsTrace(tr), NEW k \in 1 .. Len(tr),
           NEW S \in Residents, Cardinality(S) = memsize, PageAt(tr, k) \notin S,
           NEW u \in S, \A w \in S \ {u} : Sooner(tr, k - 1, w, u)
    PROVE  Fewest(tr)[k][S] = 1 + Fewest(tr)[k - 1][(S \ {u}) \cup {PageAt(tr, k)}]
<1>. DEFINE f == Fewest(tr)[k]
            g == Fewest(tr)[k - 1]
            v == PageAt(tr, k)
            Left(w) == (S \ {w}) \cup {v}
<1>0. k \in 0 .. Len(tr) /\ k - 1 \in 0 .. Len(tr)
  BY DEF IsTrace
<1>1. /\ v \in Pages
      /\ \A M \in Residents : f[M] \in Nat /\ g[M] \in Nat
      /\ \A M \in Residents : \A N \in Served(M, v) : f[M] <= Cost(M, v) + g[N]
      /\ \A M \in Residents : \E N \in Served(M, v) : f[M] = Cost(M, v) + g[N]
  BY <1>0, FewestFacts
<1>2. memsize \in Nat
  BY SizesAssumption
<1>3. Served(S, v) = {Left(w) : w \in S} /\ Cost(S, v) = 1
  BY <1>2 DEF Served, Cost
<1>4. \A M \in Residents : Served(M, v) \subseteq Residents
  BY <1>1, ServedFacts
<1>5. PICK w \in S : f[S] = 1 + g[Left(w)]
  <2>1. PICK N \in Served(S, v) : f[S] = 1 + g[N]
    BY <1>1, <1>3
  <2>. QED  BY <1>3, <2>1
<1>6. \A x \in S : Left(x) \in Residents
  BY <1>3, <1>4
<1>7. f[S] <= 1 + g[Left(u)]
  BY <1>1, <1>3
<1>8. g[Left(u)] <= g[Left(w)]
  <2>1. CASE w = u
    <3>1. g[Left(u)] \in Nat
      BY <1>1, <1>6
    <3>. QED  BY <2>1, <3>1
  <2>2. CASE w # u
    <3>. DEFINE A == ((S \ {u}) \ {w}) \cup {v}
    <3>1. IsFiniteSet(S) /\ Cardinality(S) \in Nat
      BY FS_CardinalityType DEF Residents
    <3>2. IsFiniteSet(S \ {u}) /\ Cardinality(S \ {u}) = memsize - 1
      BY <3>1, FS_RemoveElement
    <3>3. IsFiniteSet((S \ {u}) \ {w}) /\ Cardinality((S \ {u}) \ {w}) = memsize - 1 - 1
      BY <2>2, <3>2, FS_RemoveElement
    <3>4. IsFiniteSet(A) /\ Cardinality(A) = memsize - 1 - 1 + 1
      <4>1. v \notin (S \ {u}) \ {w}
        OBVIOUS
      <4>. QED  BY <3>3, <4>1, FS_AddElement
    <3>5. Cardinality(A) < memsize
      BY <1>2, <3>4
    <3>6. A \in SUBSET Pages /\ w \in Pages \ A /\ u \in Pages \ A
      BY <1>1, <2>2 DEF Residents
    <3>7. Exchange(tr, k - 1)
      BY <1>0, ExchangeAlways
    <3>8. Sooner(tr, k - 1, w, u)
      BY <2>2
    <3>9. Left(u) = A \cup {w} /\ Left(w) = A \cup {u}
      BY <2>2
    <3>. HIDE DEF A, Left
    <3>10. g[A \cup {w}] <= g[A \cup {u}]
      BY <3>4, <3>5, <3>6, <3>7, <3>8 DEF Exchange
    <3>. QED  BY <3>9, <3>10
  <2>. QED  BY <2>1, <2>2
<1>9. f[S] = 1 + g[Left(u)]
  <2>1. f[S] \in Nat /\ g[Left(u)] \in Nat /\ g[Left(w)] \in Nat
    BY <1>1, <1>6
  <2>. HIDE DEF f, g, Left
  <2>. QED  BY <1>5, <1>7, <1>8, <2>1
<1>. QED  BY <1>9

\* After n lines of tr have missed m times and left the pages of S in memory,
\* no way to replay tr misses less often than the best way on from here.
BestSoFar(tr, n, S, m) == m + Fewest(tr)[Len(tr) - n][S] = Fewest(tr)[Len(tr)][{}]

\* Three kinds of access leave that so; first, a hit.
LEMMA BestHit ==
    ASSUME NEW tr, IsTrace(tr), NEW n \in Nat, n < Len(tr), NEW m \in Nat,
           NEW S \in Residents, tr[n + 1].page \in S, BestSoFar(tr, n, S, m)
    PROVE  BestSoFar(tr, n + 1, S, m)
<1>. DEFINE k == Len(tr) - n
            v == tr[n + 1].page
<1>1. k \in 1 .. Len(tr) /\ k \in 0 .. Len(tr) /\ k - 1 \in 0 .. Len(tr) /\ Len(tr) - (n + 1) = k - 1
      /\ Len(tr) - k + 1 = n + 1
  BY DEF IsTrace
<1>2. PageAt(tr, k) = v
  BY <1>1 DEF PageAt
<1>. HIDE DEF k, v
<1>3. v \in S
  BY DEF v
<1>4. PICK T \in Served(S, v) : Fewest(tr)[k][S] = Cost(S, v) + Fewest(tr)[k - 1][T]
  BY <1>1, <1>2, FewestFacts
<1>5. T = S /\ Cost(S, v) = 0
  BY <1>3, <1>4 DEF Served, Cost
<1>6. Fewest(tr)[k - 1][S] \in Nat
  BY <1>1, FewestFacts
<1>7. m + Fewest(tr)[k][S] = Fewest(tr)[Len(tr)][{}]
  BY DEF BestSoFar, k
<1>8. m + Fewest(tr)[k - 1][S] = Fewest(tr)[Len(tr)][{}]
  BY <1>4, <1>5, <1>6, <1>7
<1>. QED  BY <1>1, <1>8 DEF BestSoFar

\* The miss into a free frame.
LEMMA BestFree ==
    ASSUME NEW tr, IsTrace(tr), NEW n \in Nat, n < Len(tr), NEW m \in Nat,
           NEW S \in Residents, Cardinality(S) < memsize, NEW v, v = tr[n + 1].page,
           v \notin S, BestSoFar(tr, n, S, m)
    PROVE  BestSoFar(tr, n + 1, S \cup {v}, m + 1)
<1>. DEFINE k == Len(tr) - n
            next == S \cup {v}
<1>1. k \in 1 .. Len(tr) /\ k \in 0 .. Len(tr) /\ k - 1 \in 0 .. Len(tr) /\ Len(tr) - (n + 1) = k - 1
      /\ Len(tr) - k + 1 = n + 1
  BY DEF IsTrace
<1>2. PageAt(tr, k) = v
  BY <1>1 DEF PageAt
<1>. HIDE DEF k
<1>3. PICK T \in Served(S, v) : Fewest(tr)[k][S] = Cost(S, v) + Fewest(tr)[k - 1][T]
  BY <1>1, <1>2, FewestFacts
<1>4. T = next /\ Cost(S, v) = 1
  BY <1>3 DEF Served, Cost
<1>5. Fewest(tr)[k - 1][next] \in Nat
  <2>1. v \in Pages
    BY <1>1, <1>2, FewestFacts
  <2>2. next \in Residents
    BY <1>3, <1>4, <2>1, ServedFacts
  <2>. QED  BY <1>1, <2>2, FewestFacts
<1>6. m + Fewest(tr)[k][S] = Fewest(tr)[Len(tr)][{}]
  BY DEF BestSoFar, k
<1>. HIDE DEF next
<1>7. Fewest(tr)[k][S] = 1 + Fewest(tr)[k - 1][next]
  BY <1>3, <1>4
<1>8. m + 1 + Fewest(tr)[k - 1][next] = Fewest(tr)[Len(tr)][{}]
  <2>1. \A i \in Nat : m + (1 + i) = m + 1 + i
    OBVIOUS
  <2>. QED  BY <1>5, <1>6, <1>7, <2>1
<1>. QED  BY <1>1, <1>8 DEF BestSoFar, next

\* The miss that gives up the page referenced last.
LEMMA BestEvict ==
    ASSUME NEW tr, IsTrace(tr), NEW n \in Nat, n < Len(tr), NEW m \in Nat,
           NEW S \in Residents, Cardinality(S) = memsize, NEW v, v = tr[n + 1].page,
           v \notin S, BestSoFar(tr, n, S, m),
           NEW u \in S, \A w \in S \ {u} : Sooner(tr, Len(tr) - n - 1, w, u)
    PROVE  BestSoFar(tr, n + 1, (S \ {u}) \cup {v}, m + 1)
<1>. DEFINE k == Len(tr) - n
            next == (S \ {u}) \cup {v}
<1>1. k \in 1 .. Len(tr) /\ k \in 0 .. Len(tr) /\ k - 1 \in 0 .. Len(tr) /\ Len(tr) - (n + 1) = k - 1
      /\ Len(tr) - k + 1 = n + 1
  BY DEF IsTrace
<1>2. PageAt(tr, k) = v
  BY <1>1 DEF PageAt
<1>3. \A w \in S \ {u} : Sooner(tr, k - 1, w, u)
  OBVIOUS
<1>. HIDE DEF k
<1>4. Fewest(tr)[k][S] = 1 + Fewest(tr)[k - 1][next]
  <2>1. k \in 1 .. Len(tr) /\ PageAt(tr, k) \notin S
    BY <1>1, <1>2
  <2>2. Fewest(tr)[k][S] = 1 + Fewest(tr)[k - 1][(S \ {u}) \cup {PageAt(tr, k)}]
    BY <1>3, <2>1, FurthestIsBest
  <2>. QED  BY <1>2, <2>2
<1>5. Fewest(tr)[k - 1][next] \in Nat
  <2>1. v \in Pages
    BY <1>1, <1>2, FewestFacts
  <2>2. next \in Served(S, v)
    BY SizesAssumption DEF Served
  <2>3. next \in Residents
    BY <2>1, <2>2, ServedFacts
  <2>. QED  BY <1>1, <2>3, FewestFacts
<1>6. m + Fewest(tr)[k][S] = Fewest(tr)[Len(tr)][{}]
  BY DEF BestSoFar, k
<1>. HIDE DEF next
<1>7. m + 1 + Fewest(tr)[k - 1][next] = Fewest(tr)[Len(tr)][{}]
  BY <1>4, <1>5, <1>6
<1>. QED  BY <1>1, <1>7 DEF BestSoFar, next

\* The pages in memory.
InMemory == {coremap[i] : i \in Frames} \ {NoPage}

\* Each is in one frame, so there are as many as frames in use.
LEMMA MemoryFacts ==
    ASSUME TypeOK, CoremapMatches
    PROVE  /\ InMemory \in Residents
           /\ Full => Cardinality(InMemory) = memsize
           /\ \A i \in Frames : coremap[i] = NoPage => Cardinality(InMemory) < memsize
<1>. DEFINE f == [i \in InUse |-> coremap[i]]
<1>1. coremap \in [Frames -> Pages \cup {NoPage}]
  BY DEF TypeOK
<1>2. InMemory \subseteq Pages /\ InUse \subseteq Frames
  BY <1>1 DEF InMemory, InUse
<1>3. IsFiniteSet(Frames) /\ Cardinality(Frames) = memsize
  BY SizesAssumption, FS_Interval DEF Frames
<1>4. IsFiniteSet(InUse) /\ Cardinality(InUse) \in Nat
  BY InUseFinite
<1>5. f \in Surjection(InUse, InMemory)
  <2>1. f \in [InUse -> InMemory]
    BY <1>2 DEF InMemory, InUse
  <2>2. \A v \in InMemory : \E i \in InUse : f[i] = v
    BY DEF InMemory, InUse
  <2>. QED  BY <2>1, <2>2 DEF Surjection
<1>6. f \in Injection(InUse, InMemory)
  <2>1. f \in [InUse -> InMemory]
    BY <1>2 DEF InMemory, InUse
  <2>2. ASSUME NEW i \in InUse, NEW j \in InUse, f[i] = f[j] PROVE i = j
    <3>1. coremap[i] \in Pages /\ coremap[j] = coremap[i] /\ i \in Frames /\ j \in Frames
      BY <1>1, <2>2 DEF InUse
    <3>2. pte[coremap[i]].frame = i /\ pte[coremap[i]].frame = j
      BY <3>1 DEF CoremapMatches
    <3>. QED  BY <3>2
  <2>3. IsInjective(f)
    BY <2>2 DEF IsInjective
  <2>. QED  BY <2>1, <2>3 DEF Injection
<1>. HIDE DEF f
<1>7. IsFiniteSet(InMemory) /\ Cardinality(InMemory) = Cardinality(InUse)
  BY <1>4, <1>5, <1>6, FS_Surjection
<1>8. Cardinality(InUse) <= memsize
  BY <1>2, <1>3, FS_Subset
<1>9. InMemory \in Residents
  BY <1>2, <1>7, <1>8 DEF Residents
<1>10. Full => InUse = Frames
  BY DEF Full, InUse
<1>11. ASSUME NEW i \in Frames, coremap[i] = NoPage PROVE Cardinality(InUse) < memsize
  <2>1. InUse # Frames
    BY <1>11 DEF InUse
  <2>2. Cardinality(InUse) # Cardinality(Frames)
    BY <1>2, <1>3, <2>1, FS_Subset
  <2>. QED  BY <1>3, <1>4, <1>8, <2>2, SizesAssumption
<1>. QED  BY <1>3, <1>7, <1>9, <1>10, <1>11

\* What a miss does to the pages in memory.
LEMMA MemoryTakes ==
    ASSUME TypeOK, CoremapMatches, NEW i, NEW v, NEW q, Takes(i, v, q), coremap[i] # v
    PROVE  /\ v \notin InMemory /\ v # NoPage
           /\ coremap[i] = NoPage => InMemory' = InMemory \cup {v}
           /\ coremap[i] # NoPage =>
                 /\ coremap[i] \in InMemory
                 /\ InMemory' = (InMemory \ {coremap[i]}) \cup {v}
<1>1. /\ i \in Frames /\ v \in Pages /\ coremap'[i] = v
      /\ \A j \in Frames \ {i} : coremap'[j] = coremap[j] /\ coremap[j] # v
  BY DEF Takes
<1>2. v # NoPage /\ v \notin InMemory
  BY <1>1, RealPage DEF InMemory
<1>3. InMemory' = {coremap'[j] : j \in Frames} \ {NoPage}
  BY DEF InMemory, NoPage, Frames
<1>4. CASE coremap[i] = NoPage
  BY <1>1, <1>2, <1>3, <1>4 DEF InMemory
<1>5. CASE coremap[i] # NoPage
  <2>1. coremap[i] \in Pages
    BY <1>1, <1>5 DEF TypeOK
  <2>2. \A j \in Frames \ {i} : coremap[j] # coremap[i]
    BY <1>1, <2>1 DEF CoremapMatches
  <2>3. coremap[i] \in InMemory
    BY <1>1, <1>5 DEF InMemory
  <2>4. ASSUME NEW x \in InMemory' PROVE x \in (InMemory \ {coremap[i]}) \cup {v}
    BY <1>1, <1>3, <2>2 DEF InMemory
  <2>5. ASSUME NEW x \in (InMemory \ {coremap[i]}) \cup {v} PROVE x \in InMemory'
    <3>1. CASE x = v
      BY <1>1, <1>2, <1>3, <3>1
    <3>2. CASE x \in InMemory \ {coremap[i]}
      <4>1. PICK j \in Frames : x = coremap[j] /\ x # NoPage
        BY <3>2 DEF InMemory
      <4>2. j # i
        BY <3>2, <4>1
      <4>. QED  BY <1>1, <1>3, <4>1, <4>2
    <3>. QED  BY <2>5, <3>1, <3>2
  <2>6. InMemory' = (InMemory \ {coremap[i]}) \cup {v}
    BY <2>4, <2>5
  <2>. QED  BY <1>2, <1>5, <2>3, <2>6
<1>. QED  BY <1>4, <1>5

\* Under opt the best is still to be had: it has missed no more often so far
\* than a best way to replay the trace can have.
AsFewAsBest == alg = "opt" => BestSoFar(trace, ref_count, InMemory, miss_count)

\* Every access keeps that.
LEMMA StepBest ==
    ASSUME SInv, AsFewAsBest, [NextSim]_allVars
    PROVE  AsFewAsBest'
<1>0. /\ IInv /\ Inputs /\ TypeOK /\ CoremapMatches /\ EvictAnswersFrame /\ Foreseen
  BY SInvAnswers DEF SInv, IInv
<1>1. IsTrace(trace)
  BY <1>0, TraceLines DEF Inputs
<1>2. ref_count \in Nat /\ miss_count \in Nat
  BY <1>0 DEF TypeOK
<1>3. InMemory \in Residents
  BY <1>0, MemoryFacts
<1>4. CASE UNCHANGED allVars
  <2>1. UNCHANGED <<alg, trace, ref_count, coremap, miss_count>>
    BY <1>4 DEF allVars, vars, tableVars, counters
  <2>2. InMemory' = InMemory
    BY <2>1 DEF InMemory
  <2>. QED  BY <2>1, <2>2 DEF AsFewAsBest
<1>5. CASE AccessAbort
  <2>1. UNCHANGED <<alg, trace, ref_count, coremap, miss_count>>
    BY <1>5 DEF AccessAbort, PageinAbort, tableVars, counters
  <2>2. InMemory' = InMemory
    BY <2>1 DEF InMemory
  <2>. QED  BY <2>1, <2>2 DEF AsFewAsBest
<1>6. CASE AccessHit
  <2>1. PICK i \in Frames, v \in Pages :
             /\ Takes(i, v, queue)
             /\ Hit(v, Line.type)
             /\ coremap[i] = v /\ coremap' = coremap
    BY <1>0, <1>6, HitTakes
  <2>2. miss_count' = miss_count /\ InMemory' = InMemory
    BY <2>1 DEF Hit, InMemory
  <2>3. /\ alg' = alg /\ trace' = trace /\ ref_count' = ref_count + 1
        /\ ref_count < Len(trace) /\ v = trace[ref_count + 1].page
    BY <2>1 DEF Takes
  <2>4. trace[ref_count + 1].page \in InMemory
    BY <2>1, <2>3, RealPage DEF InMemory
  <2>5. ASSUME alg = "opt" PROVE BestSoFar(trace, ref_count + 1, InMemory, miss_count)
    BY <1>1, <1>2, <1>3, <2>3, <2>4, <2>5, BestHit DEF AsFewAsBest
  <2>. QED  BY <2>2, <2>3, <2>5 DEF AsFewAsBest
<1>7. CASE AccessFree
  <2>1. PICK i \in Frames, v \in Pages, fault \in Faults \cup {"none"} :
             /\ Takes(i, v, queue)
             /\ MissFree(v, Line.type, fault)
             /\ coremap[i] = NoPage
    BY <1>0, <1>7, FreeTakes
  <2>2. miss_count' = miss_count + 1
    BY <2>1 DEF MissFree
  <2>3. /\ alg' = alg /\ trace' = trace /\ ref_count' = ref_count + 1
        /\ ref_count < Len(trace) /\ v = trace[ref_count + 1].page
    BY <2>1 DEF Takes
  <2>4. coremap[i] # v
    BY <2>1, RealPage
  <2>5. v \notin InMemory /\ InMemory' = InMemory \cup {v}
    BY <1>0, <2>1, <2>4, MemoryTakes
  <2>6. Cardinality(InMemory) < memsize
    BY <1>0, <2>1, MemoryFacts
  <2>7. ASSUME alg = "opt"
        PROVE  BestSoFar(trace, ref_count + 1, InMemory \cup {v}, miss_count + 1)
    BY <1>1, <1>2, <1>3, <2>3, <2>5, <2>6, <2>7, BestFree DEF AsFewAsBest
  <2>. QED  BY <2>2, <2>3, <2>5, <2>7 DEF AsFewAsBest
<1>8. CASE AccessEvict
  <2>1. PICK i \in Frames, v \in Pages, fault \in Faults \cup {"none"} :
             /\ Takes(i, v, dequeue(queue))
             /\ MissEvict(v, Line.type, i, IF alg = "clock" THEN turned_off ELSE {}, fault)
             /\ Full /\ i \in evict_fcn /\ coremap[i] # v
    BY <1>0, <1>8, EvictTakes
  <2>2. miss_count' = miss_count + 1
    BY <2>1 DEF MissEvict
  <2>3. /\ alg' = alg /\ trace' = trace /\ ref_count' = ref_count + 1
        /\ ref_count < Len(trace) /\ v = trace[ref_count + 1].page
    BY <2>1 DEF Takes
  <2>. DEFINE u == coremap[i]
  <2>4. /\ v \notin InMemory /\ u \in InMemory
        /\ InMemory' = (InMemory \ {u}) \cup {v}
    BY <1>0, <2>1, MemoryTakes DEF Full
  <2>5. Cardinality(InMemory) = memsize
    BY <1>0, <2>1, MemoryFacts
  <2>6. ASSUME alg = "opt", NEW w \in InMemory \ {u}
        PROVE  Sooner(trace, Len(trace) - ref_count - 1, w, u)
    <3>1. PICK j \in Frames : w = coremap[j]
      BY DEF InMemory
    <3>2. i = opt_evict
      BY <1>0, <2>1, <2>6, EvictFcnIs
    <3>3. Len(trace) \in Nat /\ coremap \in [Frames -> Pages \cup {NoPage}]
      BY <1>0, <1>1 DEF IsTrace, TypeOK
    <3>4. \A a \in Coming(u) : \E b \in Coming(w) : b <= a
      BY <1>0, <1>2, <2>1, <2>6, <3>1, <3>2, <3>3, OptAnswers
    <3>. DEFINE e == Len(trace)
                k == e - ref_count
    <3>5. w # v
      BY <2>4
    <3>. HIDE DEF u
    <3>6. SUFFICES ASSUME NEW a \in 1 .. k - 1, PageAt(trace, a) = u
                   PROVE  \E b \in a .. k - 1 : PageAt(trace, b) = w
      BY DEF Sooner
    <3>7. e - a + 1 \in Coming(u)
      <4>1. e - a + 1 \in ref_count + 1 .. e
        BY <1>2, <3>3
      <4>. QED  BY <3>6, <4>1 DEF Coming, PageAt
    <3>8. PICK c \in ref_count + 1 .. e : trace[c].page = w /\ c <= e - a + 1
      BY <3>4, <3>7 DEF Coming
    <3>9. c # ref_count + 1
      BY <2>3, <3>5, <3>8
    <3>10. e - c + 1 \in a .. k - 1 /\ e - (e - c + 1) + 1 = c
      BY <1>2, <3>3, <3>8, <3>9
    <3>. QED  BY <3>8, <3>10 DEF PageAt
  <2>. HIDE DEF u
  <2>7. ASSUME alg = "opt"
        PROVE  BestSoFar(trace, ref_count + 1, (InMemory \ {u}) \cup {v}, miss_count + 1)
    <3>1. BestSoFar(trace, ref_count, InMemory, miss_count)
      BY <2>7 DEF AsFewAsBest
    <3>2. \A w \in InMemory \ {u} : Sooner(trace, Len(trace) - ref_count - 1, w, u)
      BY <2>6, <2>7
    <3>. QED  BY <1>1, <1>2, <1>3, <2>3, <2>4, <2>5, <3>1, <3>2, BestEvict
  <2>. QED  BY <2>2, <2>3, <2>4, <2>7 DEF AsFewAsBest
<1>. QED  BY <1>4, <1>5, <1>6, <1>7, <1>8 DEF NextSim

-----------------------------------------------------------------------------
(* The theorems *)

\* Whatever main is called with, the algorithms keep what they know of the
\* simulator: the queue of fifo, the timestamps of lru, the hand of clock and
\* the table of opt always say what is in memory.
THEOREM SimInvariance == SpecSim => []SInv
<1>1. InitSim => SInv
  BY InitSInv
<1>2. SInv /\ [NextSim]_allVars => SInv'
  BY StepSInv
<1>. QED  BY <1>1, <1>2, PTL DEF SpecSim

\* With each of the algorithms plugged in, the simulator is the one of module
\* Paging, which leaves the victim open: what is proved there of every choice of
\* victim holds of each algorithm's.
THEOREM Plugged == SpecSim => Spec
<1>1. InitSim => Init
  BY DEF InitSim
<1>2. SInv /\ [NextSim]_allVars => [Next]_vars
  BY StepSInv
<1>. QED  BY <1>1, <1>2, SimInvariance, PTL DEF SpecSim, Spec

\* allocate_frame may index coremap with what evict_fcn answers.
THEOREM EvictsFrames == SpecSim => []EvictAnswersFrame
<1>1. SInv => EvictAnswersFrame
  BY SInvAnswers
<1>. QED  BY <1>1, SimInvariance, PTL

\* Unless a write to swap fails, every slot that is marked is some page's:
\* swap_pageout's allocations and reuses leak none.
THEOREM SlotsStayAccounted == SpecSim => []SlotsAccounted
<1>1. InitSim => SlotsAccounted
  <2>. SUFFICES ASSUME InitSim, NEW b \in swapmap, b < swapsize PROVE FALSE
    BY DEF SlotsAccounted
  <2>1. b \in swapsize .. Words * BITS_PER_WORD - 1
    BY DEF InitSim, Init, bitmap_create
  <2>2. b \in Int /\ swapsize <= b
    BY <2>1
  <2>. QED  BY <2>2, SizesAssumption
<1>2. SInv /\ SlotsAccounted /\ [NextSim]_allVars => SlotsAccounted'
  BY StepSInv, StepAccounts DEF SInv
<1>. QED  BY <1>1, <1>2, SimInvariance, PTL DEF SpecSim

\* fifo gives up the page that was brought in first: fifo_ref's test of the
\* queue keeps a hit from moving a page to the back.
THEOREM FifoEvictsOldest == SpecSim => FifoOldest
<1>1. SInv /\ [NextSim]_allVars =>
        [\A i, j \in Frames :
            alg = "fifo" /\ Evicts(i) => loaded[i] <= loaded[j]]_allVars
  <2>. SUFFICES ASSUME SInv, [NextSim]_allVars, NEW i \in Frames, NEW j \in Frames,
                       alg = "fifo", Evicts(i)
                PROVE  loaded[i] <= loaded[j]
    OBVIOUS
  <2>1. Full /\ i = fifo_evict
    BY EvictsIs, EvictFcnIs DEF SInv
  <2>. QED  BY <2>1, FifoAnswers DEF SInv
<1>. QED  BY <1>1, SimInvariance, PTL DEF SpecSim, FifoOldest

\* lru gives up the page whose last reference is furthest back, for as long as
\* the comment in lru.c promises: until the timestamps have wrapped.
THEOREM LruEvictsOldest == SpecSim => LruExact
<1>1. SInv /\ [NextSim]_allVars =>
        [\A i, j \in Frames :
            alg = "lru" /\ Evicts(i) /\ ref_count <= 2 ^ TIMESTAMP_BITS =>
                \A a \in Uses(i) : \E b \in Uses(j) : a <= b]_allVars
  <2>. SUFFICES ASSUME SInv, [NextSim]_allVars, NEW i \in Frames, NEW j \in Frames,
                       alg = "lru", Evicts(i), ref_count <= 2 ^ TIMESTAMP_BITS,
                       NEW a \in Uses(i)
                PROVE  \E b \in Uses(j) : a <= b
    OBVIOUS
  <2>1. Full /\ i = lru_evict
    BY EvictsIs, EvictFcnIs DEF SInv
  <2>2. timestamp_list[i] <= timestamp_list[j]
    BY <2>1, LruAnswers DEF SInv
  <2>3. /\ timestamp_list[i] \in Nat /\ timestamp_list[j] \in Nat
        /\ a <= timestamp_list[i] + 1 /\ timestamp_list[j] + 1 \in Uses(j)
    BY <2>1 DEF SInv, LastUses, Full
  <2>4. a \in Int
    BY DEF Uses
  <2>5. a <= timestamp_list[j] + 1
    BY <2>2, <2>3, <2>4
  <2>. QED  BY <2>3, <2>5
<1>. QED  BY <1>1, SimInvariance, PTL DEF SpecSim, LruExact

\* clock is second chance: the hand gives up the first page of the queue that
\* has not been referenced, or the very first if all have.
THEOREM ClockIsSecondChance == SpecSim => ClockSecondChance
<1>1. SInv /\ [NextSim]_allVars =>
        [\A i \in Frames : alg = "clock" /\ Evicts(i) =>
            LET earlier == {j \in Frames : \E a, b \in 1 .. Len(chances) :
                               a < b /\ chances[a] = j /\ chances[b] = i}
            IN  IF is_referenced(i)
                THEN earlier = {} /\ \A j \in Frames : is_referenced(j)
                ELSE \A j \in earlier : is_referenced(j)]_allVars
  <2>. SUFFICES ASSUME SInv, [NextSim]_allVars, NEW i \in Frames, alg = "clock", Evicts(i)
                PROVE  LET earlier == {j \in Frames : \E a, b \in 1 .. Len(chances) :
                                          a < b /\ chances[a] = j /\ chances[b] = i}
                       IN  IF is_referenced(i)
                           THEN earlier = {} /\ \A j \in Frames : is_referenced(j)
                           ELSE \A j \in earlier : is_referenced(j)
    OBVIOUS
  <2>. DEFINE earlier == {j \in Frames : \E a, b \in 1 .. Len(chances) :
                             a < b /\ chances[a] = j /\ chances[b] = i}
  <2>1. Full /\ i = clock_evict
    BY EvictsIs, EvictFcnIs DEF SInv
  <2>2. ClockOrder /\ clock_arm \in Frames /\ SecondChance
    BY DEF SInv, ClockOrder
  <2>3. PICK k \in 1 .. memsize :
             /\ Len(chances) = memsize /\ clock_evict = chances[k]
             /\ \/ k = 1 /\ \A j \in Frames : is_referenced(j)
                \/ /\ ~is_referenced(clock_evict)
                   /\ \A a \in 1 .. k - 1 : is_referenced(chances[a])
    BY <2>1, <2>2, ClockChooses
  <2>4. ASSUME NEW j \in earlier PROVE \E a \in 1 .. k - 1 : chances[a] = j
    <3>1. PICK a \in 1 .. Len(chances), b \in 1 .. Len(chances) :
             a < b /\ chances[a] = j /\ chances[b] = i
      BY <2>4
    <3>2. b = k
      BY <2>1, <2>2, <2>3, <3>1, ChancesOnce
    <3>3. a \in 1 .. k - 1
      BY <2>3, <3>1, <3>2
    <3>. QED  BY <3>1, <3>3
  <2>. HIDE DEF earlier
  <2>5. CASE is_referenced(i)
    <3>1. k = 1 /\ \A j \in Frames : is_referenced(j)
      BY <2>1, <2>3, <2>5
    <3>2. earlier = {}
      BY <2>4, <3>1
    <3>. QED  BY <2>5, <3>1, <3>2 DEF earlier
  <2>6. CASE ~is_referenced(i)
    <3>1. \A a \in 1 .. k - 1 : is_referenced(chances[a])
      BY <2>1, <2>3, <2>6
    <3>2. \A j \in earlier : is_referenced(j)
      BY <2>4, <3>1
    <3>. QED  BY <2>6, <3>2 DEF earlier
  <2>. QED  BY <2>5, <2>6
<1>. QED  BY <1>1, SimInvariance, PTL DEF SpecSim, ClockSecondChance

\* opt gives up a page that no other page in memory outlasts: the table built
\* backwards from the trace and popped with every access foresees them all.
THEOREM OptEvictsFurthest == SpecSim => OptFurthest
<1>1. SInv /\ [NextSim]_allVars =>
        [\A i, j \in Frames : alg = "opt" /\ Evicts(i) =>
            \A a \in Coming(coremap[i]) :
                \E b \in Coming(coremap[j]) : b <= a]_allVars
  <2>. SUFFICES ASSUME SInv, [NextSim]_allVars, NEW i \in Frames, NEW j \in Frames,
                       alg = "opt", Evicts(i)
                PROVE  \A a \in Coming(coremap[i]) : \E b \in Coming(coremap[j]) : b <= a
    OBVIOUS
  <2>1. Full /\ i = opt_evict
    BY EvictsIs, EvictFcnIs DEF SInv
  <2>2. Len(trace) \in Nat /\ ref_count \in Nat
    BY TracesAssumption DEF SInv, Inputs, IInv, TypeOK
  <2>3. coremap \in [Frames -> Pages \cup {NoPage}]
    BY DEF SInv, IInv, TypeOK
  <2>. QED  BY <2>1, <2>2, <2>3, OptAnswers DEF SInv
<1>. QED  BY <1>1, SimInvariance, PTL DEF SpecSim, OptFurthest

\* Belady's theorem for opt.c: whatever the trace and the size of memory, when
\* the last line has been replayed opt has missed no more often than any way to
\* choose victims would, those that know the whole trace included.
THEOREM OptIsMinimal == SpecSim => []OptMinimal
<1>1. ASSUME InitSim PROVE AsFewAsBest
  <2>1. /\ ref_count = 0 /\ miss_count = 0 /\ coremap = [i \in Frames |-> NoPage]
        /\ trace \in Traces
    BY <1>1 DEF InitSim, Init
  <2>2. InMemory = {}
    BY <2>1 DEF InMemory
  <2>3. IsTrace(trace) /\ Len(trace) \in Nat
    BY <2>1, TraceLines DEF IsTrace
  <2>4. {} \in Residents
    BY FS_EmptySet, SizesAssumption DEF Residents
  <2>5. Len(trace) \in 0 .. Len(trace) /\ Len(trace) - 0 = Len(trace)
    BY <2>3
  <2>6. Fewest(trace)[Len(trace)][{}] \in Nat
    BY <2>3, <2>4, <2>5, FewestFacts
  <2>7. 0 + Fewest(trace)[Len(trace) - 0][{}] = Fewest(trace)[Len(trace)][{}]
    BY <2>5, <2>6
  <2>. QED  BY <2>1, <2>2, <2>7 DEF AsFewAsBest, BestSoFar
<1>2. SInv /\ AsFewAsBest /\ [NextSim]_allVars => AsFewAsBest'
  BY StepBest
<1>3. ASSUME SInv, AsFewAsBest, alg = "opt", ref_count = Len(trace)
      PROVE  miss_count = FewestMisses(trace)
  <2>1. IsTrace(trace) /\ Len(trace) \in Nat
    BY <1>3, TraceLines DEF SInv, Inputs, IsTrace
  <2>2. InMemory \in Residents
    BY <1>3, MemoryFacts DEF SInv, IInv
  <2>3. Len(trace) - ref_count = 0
    BY <1>3, <2>1
  <2>4. Fewest(trace)[Len(trace) - ref_count][InMemory] = 0
    BY <2>1, <2>2, <2>3, FewestFacts
  <2>5. miss_count + Fewest(trace)[Len(trace) - ref_count][InMemory]
          = Fewest(trace)[Len(trace)][{}]
    BY <1>3 DEF AsFewAsBest, BestSoFar
  <2>6. miss_count \in Nat
    BY <1>3 DEF SInv, IInv, TypeOK
  <2>7. miss_count + 0 = Fewest(trace)[Len(trace)][{}]
    BY <2>4, <2>5
  <2>. QED  BY <2>1, <2>6, <2>7, FewestIs
<1>4. SInv /\ AsFewAsBest => OptMinimal
  BY <1>3 DEF OptMinimal
<1>. QED  BY <1>1, <1>2, <1>4, SimInvariance, PTL DEF SpecSim
=============================================================================
