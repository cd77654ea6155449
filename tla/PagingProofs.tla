---------------------------- MODULE PagingProofs ----------------------------
(***************************************************************************)
(* Proofs about the paging simulator, for every number of pages, frames    *)
(* and swap slots, every choice of victims and every pattern of failing    *)
(* transfers: the coremap, the page table and the swap bitmap agree, and   *)
(* the simulator implements AbstractMemory.                                *)
(***************************************************************************)
EXTENDS Paging, TLAPS, WellFoundedInduction, FiniteSetTheorems

\* A non-empty set of natural numbers has a least element, and Min is it.
LEMMA MinFacts ==
    ASSUME NEW S, S \subseteq Nat, S # {}
    PROVE  Min(S) \in S /\ \A y \in S : Min(S) <= y
<1>1. PICK x \in S : \A y \in S : ~(<<y, x>> \in OpToRel(<, Nat))
  BY NatLessThanWellFounded, WFMin
<1>2. ASSUME NEW y \in S PROVE x <= y
  <2>1. x \in Nat /\ y \in Nat
    OBVIOUS
  <2>2. y < x => <<y, x>> \in OpToRel(<, Nat)
    BY <2>1 DEF OpToRel
  <2>3. ~(y < x)
    BY <1>1, <2>2
  <2>. QED  BY <2>1, <2>3
<1>. QED  BY <1>2 DEF Min

-----------------------------------------------------------------------------
(* The inductive invariant *)

\* A directory entry that is not valid has entries nobody has touched, so
\* init_second_level loses nothing.
FreshTables ==
    \A v \in Pages : PGDIR_INDEX(v) \notin pgdir => pte[v] = NewEntry

\* The status bits of an entry.
StatusBits ==
    \A v \in Pages :
        /\ pte[v].valid => ~pte[v].onswap
        /\ ~pte[v].valid /\ ~pte[v].onswap => pte[v].swap_off = INVALID_SWAP

\* The bits past the end of the swap file are never free, and a frame that is
\* free has never held a page.
Reserved ==
    /\ \A b \in Bits : b >= swapsize => b \in swapmap
    /\ \A i \in Frames : coremap[i] = NoPage => physmem[i].vaddr = NoPage

IInv ==
    /\ TypeOK
    /\ FreshTables
    /\ StatusBits
    /\ Reserved
    /\ CoremapMatches
    /\ SlotsExclusive
    /\ DataInPlace

\* Entries are only reset while they are new.
LEMMA SecondLevel ==
    ASSUME TypeOK, FreshTables, NEW v \in Pages
    PROVE  init_second_level(v) = pte
BY DEF TypeOK, FreshTables, init_second_level

\* bitmap_alloc answers a free slot of the swap file, or INVALID_SWAP.
LEMMA AllocFacts ==
    ASSUME TypeOK, Reserved, bitmap_alloc # INVALID_SWAP
    PROVE  bitmap_alloc \in Bits \ swapmap /\ bitmap_alloc < swapsize
<1>1. Bits \ swapmap # {} /\ bitmap_alloc = Min(Bits \ swapmap)
  BY DEF bitmap_alloc
<1>2. Bits \subseteq Nat
  BY DEF Bits
<1>3. bitmap_alloc \in Bits \ swapmap
  BY <1>1, <1>2, MinFacts
<1>. QED  BY <1>2, <1>3, SizesAssumption DEF Reserved

\* The first free frame is a frame.
LEMMA FreeFacts ==
    ASSUME NEW free, free \subseteq Frames, free # {}
    PROVE  Min(free) \in free
<1>1. free \subseteq Nat
  BY DEF Frames
<1>. QED  BY <1>1, MinFacts

\* The initial state satisfies the invariant.
LEMMA InitIInv == Init => IInv
<1>. SUFFICES ASSUME Init PROVE IInv
  OBVIOUS
<1>. USE SizesAssumption, PagesAssumption DEF Init
<1>1. NewEntry \in Entry
  BY DEF NewEntry, Entry, Frames, Bits, INVALID_SWAP
<1>2. Blank \in Content
  BY DEF Blank, Content
<1>3. bitmap_create \subseteq Bits
  BY DEF bitmap_create, Bits
<1>4. TypeOK
  BY <1>1, <1>2, <1>3 DEF TypeOK
<1>5. FreshTables /\ StatusBits
  BY DEF FreshTables, StatusBits, NewEntry
<1>6. Reserved
  BY DEF Reserved, bitmap_create, Bits, Blank
<1>7. CoremapMatches /\ SlotsExclusive /\ DataInPlace
  BY DEF CoremapMatches, SlotsExclusive, DataInPlace, NewEntry, NoPage, INVALID_SWAP
<1>. QED  BY <1>4, <1>5, <1>6, <1>7 DEF IInv

-----------------------------------------------------------------------------
(* What the pieces of find_physpage and access_mem do *)

\* access_mem on frame i of memory m: the page keeps its address, a write adds
\* one to the version, and no other frame changes.
Touched(v, t, i, m) ==
    /\ physmem' \in [Frames -> Content]
    /\ \A j \in Frames \ {i} : physmem'[j] = m[j]
    /\ physmem'[i].vaddr = m[i].vaddr
    /\ physmem'[i].version = m[i].version + (IF t \in Writes THEN 1 ELSE 0)
    /\ t \notin Writes => physmem'[i] = m[i]
    /\ found' = m[i] /\ found' \in Content
    /\ reported' \in BOOLEAN
    /\ ~reported' => ~reported /\ m[i].vaddr = v
    /\ pgdir' \subseteq Dirs /\ pgdir \subseteq pgdir'
    /\ PGDIR_INDEX(v) \in pgdir'
    /\ ref_count' \in Nat
    /\ aborted' = aborted

\* Touch does that.
LEMMA TouchFacts ==
    ASSUME TypeOK, NEW v \in Pages, NEW t, NEW i \in Frames,
           NEW m \in [Frames -> Content], Touch(v, t, i, m)
    PROVE  Touched(v, t, i, m)
<1>. USE DEF Touch
<1>1. m[i] \in Content
  OBVIOUS
<1>2. physmem' = [m EXCEPT ![i] = [vaddr |-> m[i].vaddr,
                                   version |-> IF t \in Writes THEN m[i].version + 1
                                               ELSE m[i].version]]
  <2>. DEFINE n == IF t \in Writes THEN m[i].version + 1 ELSE m[i].version
  <2>1. physmem' = [m EXCEPT ![i] = [m[i] EXCEPT !.version = n]]
    OBVIOUS
  <2>2. [m[i] EXCEPT !.version = n] = [vaddr |-> m[i].vaddr, version |-> n]
    BY <1>1 DEF Content
  <2>. QED  BY <2>1, <2>2
<1>3. m[i] = [vaddr |-> m[i].vaddr, version |-> m[i].version]
  BY <1>1 DEF Content
<1>4. /\ physmem' \in [Frames -> Content]
      /\ \A j \in Frames \ {i} : physmem'[j] = m[j]
      /\ physmem'[i].vaddr = m[i].vaddr
      /\ physmem'[i].version = m[i].version + (IF t \in Writes THEN 1 ELSE 0)
      /\ t \notin Writes => physmem'[i] = m[i]
  BY <1>1, <1>2, <1>3 DEF Content
<1>5. /\ pgdir' \subseteq Dirs /\ pgdir \subseteq pgdir' /\ PGDIR_INDEX(v) \in pgdir'
      /\ ref_count' \in Nat
  BY DEF TypeOK, Dirs, PGDIR_INDEX
<1>6. reported' \in BOOLEAN /\ (~reported' => ~reported /\ m[i].vaddr = v)
  BY DEF TypeOK
<1>. QED  BY <1>1, <1>4, <1>5, <1>6 DEF Touched

\* The entry of a page that has just been brought in.
LEMMA PlacedFacts ==
    ASSUME NEW e \in Entry, NEW t, NEW i \in Frames
    PROVE  /\ Placed(e, t, i) \in Entry
           /\ Placed(e, t, i).valid /\ ~Placed(e, t, i).onswap
           /\ Placed(e, t, i).frame = i
           /\ e.onswap => Placed(e, t, i).swap_off = e.swap_off
           /\ ~e.onswap => Placed(e, t, i).swap_off = INVALID_SWAP
           /\ Placed(e, t, i).dirty <=> (~e.onswap \/ t \in Writes)
BY DEF Placed, Entry

\* The entry of a page that has just been evicted.
LEMMA EvictedFacts ==
    ASSUME NEW e \in Entry, NEW off \in Bits \cup {INVALID_SWAP}
    PROVE  /\ Evicted(e, off) \in Entry
           /\ ~Evicted(e, off).valid /\ Evicted(e, off).onswap
           /\ Evicted(e, off).swap_off = off
BY DEF Evicted, Entry

\* Bringing a page in fills its own frame only: from the page's slot, with
\* nothing, or, when the read fails, not at all.
LEMMA FilledFacts ==
    ASSUME TypeOK, NEW v \in Pages, NEW i \in Frames, NEW e \in Entry,
           NEW file \in [Bits -> Content], NEW fault,
           e.onswap => e.swap_off # INVALID_SWAP
    PROVE  /\ Filled(v, e, i, file, fault) \in [Frames -> Content]
           /\ \A j \in Frames \ {i} : Filled(v, e, i, file, fault)[j] = physmem[j]
           /\ ~e.onswap => Filled(v, e, i, file, fault)[i] = [vaddr |-> v, version |-> 0]
           /\ e.onswap /\ fault # "pagein"
                 => Filled(v, e, i, file, fault)[i] = file[e.swap_off]
           /\ e.onswap /\ fault = "pagein"
                 => Filled(v, e, i, file, fault)[i] = physmem[i]
<1>1. e.onswap => file[e.swap_off] \in Content
  BY DEF Entry
<1>2. [vaddr |-> v, version |-> 0] \in Content
  BY DEF Content
<1>. QED  BY <1>1, <1>2 DEF Filled, TypeOK

-----------------------------------------------------------------------------
(* The invariant is inductive: a hit *)

\* What a hit changes.
LEMMA HitFacts ==
    ASSUME IInv, NEW v \in Pages, NEW t, Hit(v, t)
    PROVE  /\ pte[v].valid /\ pte[v].frame \in Frames
           /\ pte' \in [Pages -> Entry]
           /\ \A x \in Pages \ {v} : pte'[x] = pte[x]
           /\ pte'[v].valid /\ pte'[v].frame = pte[v].frame
           /\ pte'[v].onswap = pte[v].onswap /\ pte'[v].swap_off = pte[v].swap_off
           /\ ~pte'[v].dirty => ~pte[v].dirty /\ t \notin Writes
           /\ Touch(v, t, pte[v].frame, physmem)
<1>1. init_second_level(v) = pte
  BY SecondLevel DEF IInv
<1>2. pte[v] \in Entry /\ pte \in [Pages -> Entry]
  BY DEF IInv, TypeOK
<1>3. pte' = [pte EXCEPT ![v].ref = TRUE, ![v].dirty = @ \/ t \in Writes]
  BY <1>1 DEF Hit
<1>4. /\ pte'[v] = [pte[v] EXCEPT !.ref = TRUE, !.dirty = @ \/ t \in Writes]
      /\ \A x \in Pages \ {v} : pte'[x] = pte[x]
      /\ pte' = [x \in Pages |-> pte'[x]]
  BY <1>2, <1>3
<1>5. (pte[v].dirty \/ t \in Writes) \in BOOLEAN
  OBVIOUS
<1>6. pte'[v] = [frame |-> pte[v].frame, valid |-> pte[v].valid, dirty |-> pte'[v].dirty,
                 ref |-> TRUE, onswap |-> pte[v].onswap, swap_off |-> pte[v].swap_off]
      /\ (pte'[v].dirty <=> (pte[v].dirty \/ t \in Writes)) /\ pte'[v].dirty \in BOOLEAN
  BY <1>2, <1>4, <1>5 DEF Entry
<1>7. pte'[v] \in Entry
  <2>1. /\ pte[v].frame \in Frames /\ pte[v].valid \in BOOLEAN
        /\ pte[v].onswap \in BOOLEAN /\ pte[v].swap_off \in Bits \cup {INVALID_SWAP}
    BY <1>2 DEF Entry
  <2>2. [frame |-> pte[v].frame, valid |-> pte[v].valid, dirty |-> pte'[v].dirty,
         ref |-> TRUE, onswap |-> pte[v].onswap, swap_off |-> pte[v].swap_off] \in Entry
    BY <1>6, <2>1, SMT DEF Entry
  <2>. QED  BY <1>6, <2>2, Zenon
<1>8. pte' \in [Pages -> Entry]
  BY <1>2, <1>4, <1>7
<1>. QED  BY <1>1, <1>2, <1>4, <1>6, <1>8 DEF Hit, Entry

\* A hit keeps the invariant.
LEMMA HitStep ==
    ASSUME IInv, NEW v \in Pages, NEW t, Hit(v, t)
    PROVE  IInv'
<1>. DEFINE i == pte[v].frame
<1>0. TypeOK /\ physmem \in [Frames -> Content]
  BY DEF IInv, TypeOK
<1>1. UNCHANGED <<coremap, swapmap, swapfile, miss_count, evict_clean_count,
                  evict_dirty_count>> /\ hit_count' = hit_count + 1
  BY DEF Hit
<1>2. i \in Frames /\ Touch(v, t, i, physmem)
  BY HitFacts
<1>3. coremap[i] = v
  BY HitFacts DEF IInv, CoremapMatches
<1>m. Touched(v, t, i, physmem)
  BY <1>0, <1>2, TouchFacts
<1>4. TypeOK'
  BY <1>0, <1>1, <1>m, HitFacts DEF TypeOK, Touched
<1>5. FreshTables'
  BY <1>m, HitFacts DEF IInv, FreshTables, Touched
<1>6. StatusBits'
  BY HitFacts DEF IInv, StatusBits
<1>7. Reserved'
  <2>1. ASSUME NEW j \in Frames, coremap[j] = NoPage PROVE physmem'[j].vaddr = NoPage
    <3>1. j # i
      BY <1>3, <2>1, PagesAssumption DEF NoPage
    <3>. QED  BY <1>m, <2>1, <3>1 DEF IInv, Reserved, Touched
  <2>. QED  BY <1>1, <2>1 DEF IInv, Reserved
<1>8. CoremapMatches'
  BY <1>1, HitFacts DEF IInv, CoremapMatches
<1>9. SlotsExclusive'
  BY <1>1, HitFacts DEF IInv, SlotsExclusive
<1>10. DataInPlace'
  <2>. SUFFICES ASSUME ~reported', NEW x \in Pages
                PROVE  /\ pte'[x].valid => physmem'[pte'[x].frame].vaddr = x
                       /\ ~pte'[x].valid /\ pte'[x].swap_off # INVALID_SWAP
                             => swapfile'[pte'[x].swap_off].vaddr = x
                       /\ pte'[x].valid /\ ~pte'[x].dirty
                             => /\ pte'[x].swap_off # INVALID_SWAP
                                /\ swapfile'[pte'[x].swap_off] = physmem'[pte'[x].frame]
    BY DEF DataInPlace
  <2>1. ~reported
    BY <1>m DEF Touched
  <2>2. CASE x = v
    <3>1. pte'[v].valid /\ pte'[v].frame = i /\ pte'[v].swap_off = pte[v].swap_off
      BY HitFacts
    <3>2. physmem'[i].vaddr = v
      BY <1>m DEF Touched
    <3>3. ASSUME ~pte'[v].dirty
          PROVE  pte[v].swap_off # INVALID_SWAP /\ swapfile[pte[v].swap_off] = physmem'[i]
      <4>1. ~pte[v].dirty /\ t \notin Writes /\ pte[v].valid
        BY <3>3, HitFacts
      <4>2. physmem'[i] = physmem[i]
        BY <1>m, <4>1 DEF Touched
      <4>. QED  BY <2>1, <4>1, <4>2 DEF IInv, DataInPlace
    <3>. QED  BY <1>1, <2>2, <3>1, <3>2, <3>3
  <2>3. CASE x # v
    <3>1. pte'[x] = pte[x]
      BY <2>3, HitFacts
    <3>2. pte[x].valid => pte[x].frame \in Frames \ {i}
      BY <1>3, <2>3 DEF IInv, TypeOK, Entry, CoremapMatches
    <3>3. pte[x].valid => physmem'[pte[x].frame] = physmem[pte[x].frame]
      BY <1>m, <3>2 DEF Touched
    <3>. QED  BY <1>1, <2>1, <3>1, <3>3 DEF IInv, DataInPlace
  <2>. QED  BY <2>2, <2>3
<1>. QED  BY <1>4, <1>5, <1>6, <1>7, <1>8, <1>9, <1>10 DEF IInv

-----------------------------------------------------------------------------
(* The invariant is inductive: a miss *)

\* Page v arrives in frame i, from file if it is on swap.
Arrives(v, t, i, file, fault) ==
    /\ i \in Frames
    /\ file \in [Bits -> Content]
    /\ ~pte[v].valid
    /\ pte[v].onswap => pte[v].swap_off # INVALID_SWAP
    /\ pte'[v] = Placed(pte[v], t, i)
    /\ coremap' = [coremap EXCEPT ![i] = v]
    /\ Touched(v, t, i, Filled(v, pte[v], i, file, fault))

\* Apart from its reference bit, the entry of x stays as it is.
SameEntry(x) ==
    /\ pte'[x].valid = pte[x].valid /\ pte'[x].frame = pte[x].frame
    /\ pte'[x].dirty = pte[x].dirty /\ pte'[x].onswap = pte[x].onswap
    /\ pte'[x].swap_off = pte[x].swap_off

\* The arriving page's entry, and the frames it does not go to.
LEMMA ArrivesFacts ==
    ASSUME TypeOK, NEW v \in Pages, NEW t, NEW i, NEW file, NEW fault,
           Arrives(v, t, i, file, fault)
    PROVE  /\ pte'[v] \in Entry /\ pte'[v].valid /\ ~pte'[v].onswap
           /\ pte'[v].frame = i
           /\ pte[v].onswap => pte'[v].swap_off = pte[v].swap_off
           /\ ~pte[v].onswap => pte'[v].swap_off = INVALID_SWAP
           /\ ~pte'[v].dirty => pte[v].onswap /\ t \notin Writes
           /\ coremap' \in [Frames -> Pages \cup {NoPage}]
           /\ coremap'[i] = v
           /\ \A j \in Frames \ {i} : /\ coremap'[j] = coremap[j]
                                      /\ physmem'[j] = physmem[j]
<1>. DEFINE m == Filled(v, pte[v], i, file, fault)
<1>0. i \in Frames /\ pte[v] \in Entry /\ pte'[v] = Placed(pte[v], t, i)
  BY DEF Arrives, TypeOK
<1>1. /\ pte'[v] \in Entry /\ pte'[v].valid /\ ~pte'[v].onswap
      /\ pte'[v].frame = i
      /\ pte[v].onswap => pte'[v].swap_off = pte[v].swap_off
      /\ ~pte[v].onswap => pte'[v].swap_off = INVALID_SWAP
      /\ ~pte'[v].dirty => pte[v].onswap /\ t \notin Writes
  BY <1>0, PlacedFacts
<1>2. \A j \in Frames \ {i} : m[j] = physmem[j]
  BY <1>0 DEF Filled, TypeOK
<1>3. \A j \in Frames \ {i} : physmem'[j] = m[j]
  BY DEF Arrives, Touched
<1>4. /\ coremap' \in [Frames -> Pages \cup {NoPage}]
      /\ coremap'[i] = v
      /\ \A j \in Frames \ {i} : coremap'[j] = coremap[j]
  BY <1>0 DEF Arrives, TypeOK
<1>. HIDE DEF m
<1>. QED  BY <1>1, <1>2, <1>3, <1>4

\* If no error is reported the arriving page has the content it should, and if
\* it is clean, that of its slot.
LEMMA ArrivesData ==
    ASSUME TypeOK, NEW v \in Pages, NEW t, NEW i, NEW file, NEW fault,
           Arrives(v, t, i, file, fault), physmem[i].vaddr # v, ~reported'
    PROVE  /\ ~reported
           /\ physmem'[i].vaddr = v
           /\ pte[v].onswap => found' = file[pte[v].swap_off]
           /\ ~pte[v].onswap => found' = [vaddr |-> v, version |-> 0]
           /\ found'.vaddr = v
           /\ physmem'[i].version = found'.version + (IF t \in Writes THEN 1 ELSE 0)
           /\ ~pte'[v].dirty => physmem'[i] = file[pte[v].swap_off]
<1>. DEFINE m == Filled(v, pte[v], i, file, fault)
<1>0. i \in Frames /\ pte[v] \in Entry /\ file \in [Bits -> Content]
      /\ (pte[v].onswap => pte[v].swap_off # INVALID_SWAP)
  BY DEF Arrives, TypeOK
<1>1. Touched(v, t, i, m)
  BY DEF Arrives
<1>2. /\ ~pte[v].onswap => m[i] = [vaddr |-> v, version |-> 0]
      /\ pte[v].onswap /\ fault # "pagein" => m[i] = file[pte[v].swap_off]
      /\ pte[v].onswap /\ fault = "pagein" => m[i] = physmem[i]
  BY <1>0, FilledFacts
<1>. HIDE DEF m
<1>3. ~reported /\ m[i].vaddr = v /\ found' = m[i] /\ physmem'[i].vaddr = m[i].vaddr
  BY <1>1 DEF Touched
<1>4. /\ physmem'[i].version = m[i].version + (IF t \in Writes THEN 1 ELSE 0)
      /\ t \notin Writes => physmem'[i] = m[i]
  BY <1>1 DEF Touched
<1>5. pte[v].onswap => m[i] = file[pte[v].swap_off]
  BY <1>2, <1>3
<1>6. ~pte'[v].dirty => pte[v].onswap /\ t \notin Writes
  BY ArrivesFacts
<1>. QED  BY <1>2, <1>3, <1>4, <1>5, <1>6

\* A miss that takes a free frame keeps the invariant.
LEMMA MissFreeStep ==
    ASSUME IInv, NEW v \in Pages, NEW t, NEW fault, MissFree(v, t, fault)
    PROVE  /\ IInv'
           /\ \E i \in Frames :
                 /\ coremap[i] = NoPage
                 /\ Arrives(v, t, i, swapfile, fault)
                 /\ physmem[i].vaddr # v
                 /\ \A x \in Pages \ {v} : pte'[x] = pte[x]
                 /\ UNCHANGED <<swapfile, swapmap>>
<1>. DEFINE free == {j \in Frames : coremap[j] = NoPage}
            i == Min(free)
<1>0. /\ TypeOK /\ FreshTables /\ StatusBits /\ Reserved
      /\ CoremapMatches /\ SlotsExclusive /\ DataInPlace
  BY DEF IInv
<1>1. init_second_level(v) = pte
  BY <1>0, SecondLevel
<1>2. i \in Frames /\ coremap[i] = NoPage
  <2>1. free # {} /\ free \subseteq Frames
    BY <1>1 DEF MissFree
  <2>2. i \in free
    BY <2>1, FreeFacts
  <2>. QED  BY <2>2
<1>3. /\ ~pte[v].valid
      /\ pte[v].onswap => pte[v].swap_off # INVALID_SWAP
      /\ pte' = [pte EXCEPT ![v] = Placed(pte[v], t, i)]
      /\ coremap' = [coremap EXCEPT ![i] = v]
      /\ miss_count' = miss_count + 1
      /\ Touch(v, t, i, Filled(v, pte[v], i, swapfile, fault))
      /\ UNCHANGED <<swapmap, swapfile, hit_count, evict_clean_count, evict_dirty_count>>
  BY <1>1 DEF MissFree
<1>. HIDE DEF i
<1>4. pte \in [Pages -> Entry] /\ swapfile \in [Bits -> Content] /\ pte[v] \in Entry
  BY <1>0 DEF TypeOK
<1>5. Filled(v, pte[v], i, swapfile, fault) \in [Frames -> Content]
  BY <1>0, <1>2, <1>3, <1>4, FilledFacts
<1>6. Touched(v, t, i, Filled(v, pte[v], i, swapfile, fault))
  BY <1>0, <1>2, <1>3, <1>5, TouchFacts
<1>7. pte'[v] = Placed(pte[v], t, i) /\ \A x \in Pages \ {v} : pte'[x] = pte[x]
  BY <1>3, <1>4
<1>8. Arrives(v, t, i, swapfile, fault)
  BY <1>2, <1>3, <1>4, <1>6, <1>7 DEF Arrives
<1>9. physmem[i].vaddr # v
  BY <1>0, <1>2, PagesAssumption DEF Reserved, NoPage
<1>10. /\ pte'[v] \in Entry /\ pte'[v].valid /\ ~pte'[v].onswap
       /\ pte'[v].frame = i
       /\ pte[v].onswap => pte'[v].swap_off = pte[v].swap_off
       /\ ~pte[v].onswap => pte'[v].swap_off = INVALID_SWAP
       /\ coremap' \in [Frames -> Pages \cup {NoPage}]
       /\ coremap'[i] = v
       /\ \A j \in Frames \ {i} : coremap'[j] = coremap[j] /\ physmem'[j] = physmem[j]
  BY <1>0, <1>8, ArrivesFacts
<1>11. \A x \in Pages : pte[x].valid => pte[x].frame \in Frames \ {i}
  BY <1>0, <1>2, PagesAssumption DEF TypeOK, Entry, CoremapMatches, NoPage
<1>12. TypeOK'
  <2>1. pte' \in [Pages -> Entry]
    BY <1>3, <1>4, <1>7, <1>10
  <2>. QED  BY <1>0, <1>3, <1>6, <1>10, <2>1 DEF TypeOK, Touched
<1>13. FreshTables'
  BY <1>0, <1>6, <1>7 DEF FreshTables, Touched
<1>14. StatusBits'
  BY <1>0, <1>7, <1>10 DEF StatusBits
<1>15. Reserved'
  BY <1>0, <1>3, <1>10, PagesAssumption DEF Reserved, NoPage
<1>16. CoremapMatches'
  <2>. SUFFICES ASSUME NEW x \in Pages, NEW j \in Frames
                PROVE  coremap'[j] = x <=> pte'[x].valid /\ pte'[x].frame = j
    BY DEF CoremapMatches
  <2>1. CASE x = v
    BY <1>0, <1>3, <1>10, <2>1 DEF CoremapMatches
  <2>2. CASE x # v
    BY <1>0, <1>7, <1>10, <1>11, <2>2 DEF CoremapMatches
  <2>. QED  BY <2>1, <2>2
<1>17. SlotsExclusive'
  BY <1>0, <1>3, <1>7, <1>10 DEF SlotsExclusive
<1>18. DataInPlace'
  <2>. SUFFICES ASSUME ~reported', NEW x \in Pages
                PROVE  /\ pte'[x].valid => physmem'[pte'[x].frame].vaddr = x
                       /\ ~pte'[x].valid /\ pte'[x].swap_off # INVALID_SWAP
                             => swapfile'[pte'[x].swap_off].vaddr = x
                       /\ pte'[x].valid /\ ~pte'[x].dirty
                             => /\ pte'[x].swap_off # INVALID_SWAP
                                /\ swapfile'[pte'[x].swap_off] = physmem'[pte'[x].frame]
    BY DEF DataInPlace
  <2>1. /\ ~reported /\ physmem'[i].vaddr = v
        /\ ~pte'[v].dirty => physmem'[i] = swapfile[pte[v].swap_off]
    BY <1>0, <1>8, <1>9, ArrivesData
  <2>2. ~pte'[v].dirty => pte[v].onswap
    BY <1>0, <1>8, ArrivesFacts
  <2>3. CASE x = v
    BY <1>3, <1>10, <2>1, <2>2, <2>3
  <2>4. CASE x # v
    <3>1. pte'[x] = pte[x] /\ (pte[x].valid => physmem'[pte[x].frame] = physmem[pte[x].frame])
      BY <1>7, <1>10, <1>11, <2>4
    <3>. QED  BY <1>0, <1>3, <2>1, <3>1 DEF DataInPlace
  <2>. QED  BY <2>3, <2>4
<1>19. IInv'
  BY <1>12, <1>13, <1>14, <1>15, <1>16, <1>17, <1>18 DEF IInv
<1>. QED  BY <1>2, <1>3, <1>7, <1>8, <1>9, <1>19

\* Page w leaves frame i, with swap offset off; file is the swap file then.
Leaves(w, i, off, file) ==
    /\ w \in Pages /\ i \in Frames
    /\ coremap[i] = w /\ pte[w].valid /\ pte[w].frame = i
    /\ pte'[w] = Evicted(pte[w], off)
    /\ off \in Bits \cup {INVALID_SWAP}
    /\ file \in [Bits -> Content]
    /\ swapfile' = file
    /\ swapmap \subseteq swapmap' /\ swapmap' \subseteq Bits
    /\ off # INVALID_SWAP => off \in swapmap' /\ off < swapsize
    /\ \A x \in Pages \ {w} :
          pte[x].swap_off # INVALID_SWAP =>
              pte[x].swap_off # off /\ file[pte[x].swap_off] = swapfile[pte[x].swap_off]
    /\ pte[w].dirty /\ off # INVALID_SWAP => file[off] = physmem[i]
    /\ ~pte[w].dirty => off = pte[w].swap_off /\ file = swapfile

\* What a miss that evicts changes.
LEMMA MissEvictFacts ==
    ASSUME IInv, NEW v \in Pages, NEW t, NEW i \in Frames, NEW swept, NEW fault,
           MissEvict(v, t, i, swept, fault)
    PROVE  /\ pte' \in [Pages -> Entry]
           /\ \E w, off, file :
                 /\ w # v
                 /\ Leaves(w, i, off, file)
                 /\ Arrives(v, t, i, file, fault)
                 /\ \A x \in Pages \ {v, w} : SameEntry(x)
<1>. DEFINE w == coremap[i]
            out == pte[w].dirty
            off == IF out THEN swap_pageout(pte[w], fault) ELSE pte[w].swap_off
            file == IF out /\ off # INVALID_SWAP
                    THEN [swapfile EXCEPT ![off] = physmem[i]] ELSE swapfile
<1>0. /\ TypeOK /\ FreshTables /\ StatusBits /\ Reserved
      /\ CoremapMatches /\ SlotsExclusive /\ DataInPlace
  BY DEF IInv
<1>1. init_second_level(v) = pte
  BY <1>0, SecondLevel
<1>2. /\ ~pte[v].valid
      /\ \A j \in Frames : coremap[j] # NoPage
      /\ pte[v].onswap => pte[v].swap_off # INVALID_SWAP
      /\ pte' = [x \in Pages |->
                   IF x = v THEN Placed(pte[v], t, i)
                   ELSE IF x = w THEN Evicted(pte[w], off)
                   ELSE IF pte[x].valid /\ pte[x].frame \in swept
                        THEN [pte[x] EXCEPT !.ref = FALSE] ELSE pte[x]]
      /\ coremap' = [coremap EXCEPT ![i] = v]
      /\ swapmap' = IF out THEN swapmap \cup ({swap_slot(pte[w])} \ {INVALID_SWAP})
                    ELSE swapmap
      /\ swapfile' = file
      /\ Touch(v, t, i, Filled(v, pte[v], i, file, fault))
  BY <1>1 DEF MissEvict
<1>3. /\ pte \in [Pages -> Entry] /\ swapfile \in [Bits -> Content]
      /\ physmem \in [Frames -> Content] /\ swapmap \subseteq Bits
      /\ coremap \in [Frames -> Pages \cup {NoPage}]
  BY <1>0 DEF TypeOK
<1>4. w \in Pages /\ pte[w].valid /\ pte[w].frame = i /\ w # v /\ pte[w] \in Entry
  BY <1>0, <1>2, <1>3 DEF CoremapMatches
<1>5. pte[w].swap_off # INVALID_SWAP => pte[w].swap_off \in swapmap /\ pte[w].swap_off < swapsize
  BY <1>0, <1>4 DEF SlotsExclusive
<1>. DEFINE slot == swap_slot(pte[w])
<1>6. slot # INVALID_SWAP =>
         /\ slot \in Bits /\ slot < swapsize
         /\ \A x \in Pages \ {w} : pte[x].swap_off # INVALID_SWAP => pte[x].swap_off # slot
  <2>1. CASE pte[w].swap_off # INVALID_SWAP
    <3>1. slot = pte[w].swap_off
      BY <2>1 DEF swap_slot
    <3>2. \A x \in Pages \ {w} : pte[x].swap_off # pte[w].swap_off
      BY <1>0, <1>4, <2>1 DEF SlotsExclusive
    <3>. QED  BY <1>3, <1>5, <2>1, <3>1, <3>2
  <2>2. CASE pte[w].swap_off = INVALID_SWAP
    <3>1. slot = bitmap_alloc
      BY <2>2 DEF swap_slot
    <3>2. slot # INVALID_SWAP => slot \in Bits \ swapmap /\ slot < swapsize
      BY <1>0, <3>1, AllocFacts
    <3>3. \A x \in Pages : pte[x].swap_off # INVALID_SWAP => pte[x].swap_off \in swapmap
      BY <1>0 DEF SlotsExclusive
    <3>. QED  BY <3>2, <3>3
  <2>. QED  BY <2>1, <2>2
<1>7. /\ out => off = INVALID_SWAP \/ off = slot
      /\ ~out => off = pte[w].swap_off /\ file = swapfile
  BY DEF swap_pageout
<1>8. swapmap' = IF out THEN swapmap \cup ({slot} \ {INVALID_SWAP}) ELSE swapmap
  BY <1>2
<1>. HIDE DEF slot
<1>9. off \in Bits \cup {INVALID_SWAP}
  <2>1. CASE out
    BY <1>6, <1>7, <2>1
  <2>2. CASE ~out
    BY <1>4, <1>7, <2>2 DEF Entry
  <2>. QED  BY <2>1, <2>2
<1>10. file \in [Bits -> Content]
  BY <1>3, <1>9
<1>11. swapmap \subseteq swapmap' /\ swapmap' \subseteq Bits
  BY <1>3, <1>6, <1>8
<1>12. off # INVALID_SWAP => off \in swapmap' /\ off < swapsize
  BY <1>5, <1>6, <1>7, <1>8
<1>13. ASSUME NEW x \in Pages \ {w}, pte[x].swap_off # INVALID_SWAP
       PROVE  pte[x].swap_off # off /\ file[pte[x].swap_off] = swapfile[pte[x].swap_off]
  <2>1. pte[x].swap_off # off
    <3>1. CASE out
      BY <1>6, <1>7, <1>13, <3>1
    <3>2. CASE ~out
      BY <1>0, <1>4, <1>7, <1>13, <3>2 DEF SlotsExclusive
    <3>. QED  BY <3>1, <3>2
  <2>2. pte[x].swap_off \in Bits
    BY <1>3, <1>13 DEF Entry
  <2>. QED  BY <1>3, <2>1, <2>2
<1>14. pte[w].dirty /\ off # INVALID_SWAP => file[off] = physmem[i]
  BY <1>3, <1>9
<1>15. pte'[w] = Evicted(pte[w], off) /\ pte'[v] = Placed(pte[v], t, i)
  BY <1>2, <1>4
<1>. HIDE DEF off, file
<1>16. Leaves(w, i, off, file)
  BY <1>2, <1>4, <1>7, <1>9, <1>10, <1>11, <1>12, <1>13, <1>14, <1>15 DEF Leaves
<1>17. Filled(v, pte[v], i, file, fault) \in [Frames -> Content]
  BY <1>0, <1>2, <1>3, <1>10, FilledFacts
<1>18. Touched(v, t, i, Filled(v, pte[v], i, file, fault))
  BY <1>0, <1>2, <1>17, TouchFacts
<1>19. Arrives(v, t, i, file, fault)
  BY <1>2, <1>10, <1>15, <1>18 DEF Arrives
<1>20. ASSUME NEW x \in Pages \ {v, w} PROVE SameEntry(x) /\ pte'[x] \in Entry
  <2>1. pte[x] \in Entry
    BY <1>3
  <2>2. pte'[x] = IF pte[x].valid /\ pte[x].frame \in swept
                  THEN [pte[x] EXCEPT !.ref = FALSE] ELSE pte[x]
    BY <1>2
  <2>3. CASE pte'[x] = pte[x]
    BY <2>1, <2>3 DEF SameEntry
  <2>4. CASE pte'[x] = [pte[x] EXCEPT !.ref = FALSE]
    BY <2>1, <2>4 DEF SameEntry, Entry
  <2>. QED  BY <2>2, <2>3, <2>4
<1>21. pte' \in [Pages -> Entry]
  <2>1. pte'[v] \in Entry
    BY <1>3, <1>15, PlacedFacts
  <2>2. pte'[w] \in Entry
    BY <1>4, <1>9, <1>15, EvictedFacts
  <2>3. \A x \in Pages : pte'[x] \in Entry
    BY <1>20, <2>1, <2>2
  <2>4. pte' = [x \in Pages |-> pte'[x]]
    BY <1>2
  <2>. QED  BY <2>3, <2>4
<1>. QED  BY <1>4, <1>16, <1>19, <1>20, <1>21

\* A miss that evicts keeps the invariant.
LEMMA MissEvictStep ==
    ASSUME IInv, NEW v \in Pages, NEW t, NEW i \in Frames, NEW swept, NEW fault,
           MissEvict(v, t, i, swept, fault)
    PROVE  IInv'
<1>0. /\ TypeOK /\ FreshTables /\ StatusBits /\ Reserved
      /\ CoremapMatches /\ SlotsExclusive /\ DataInPlace
  BY DEF IInv
<1>1. PICK w, off, file :
          /\ w # v
          /\ Leaves(w, i, off, file)
          /\ Arrives(v, t, i, file, fault)
          /\ \A x \in Pages \ {v, w} : SameEntry(x)
  BY MissEvictFacts, Zenon
<1>2. /\ pte'[v] \in Entry /\ pte'[v].valid /\ ~pte'[v].onswap
      /\ pte'[v].frame = i
      /\ pte[v].onswap => pte'[v].swap_off = pte[v].swap_off
      /\ ~pte[v].onswap => pte'[v].swap_off = INVALID_SWAP
      /\ coremap' \in [Frames -> Pages \cup {NoPage}]
      /\ coremap'[i] = v
      /\ \A j \in Frames \ {i} : coremap'[j] = coremap[j] /\ physmem'[j] = physmem[j]
  BY <1>0, <1>1, ArrivesFacts
<1>3. /\ w \in Pages /\ coremap[i] = w /\ pte[w].valid /\ pte[w].frame = i
      /\ off \in Bits \cup {INVALID_SWAP} /\ pte'[w] = Evicted(pte[w], off)
      /\ swapfile' = file
  BY <1>1 DEF Leaves
<1>4. ~pte'[w].valid /\ pte'[w].onswap /\ pte'[w].swap_off = off
  BY <1>0, <1>3, EvictedFacts DEF TypeOK
<1>5. ~pte[v].valid
  BY <1>1 DEF Arrives
<1>6. \A x \in Pages \ {w} : pte[x].valid => pte[x].frame \in Frames \ {i}
  BY <1>0, <1>3 DEF TypeOK, Entry, CoremapMatches
<1>7. Touched(v, t, i, Filled(v, pte[v], i, file, fault))
  BY <1>1 DEF Arrives
<1>8. TypeOK'
  <2>1. pte' \in [Pages -> Entry]
    BY MissEvictFacts
  <2>2. swapmap' \subseteq Bits /\ swapfile' \in [Bits -> Content]
    BY <1>1 DEF Leaves
  <2>3. /\ hit_count' \in Nat /\ miss_count' \in Nat
        /\ evict_clean_count' \in Nat /\ evict_dirty_count' \in Nat
    BY <1>0 DEF MissEvict, TypeOK
  <2>. QED  BY <1>0, <1>2, <1>7, <2>1, <2>2, <2>3 DEF TypeOK, Touched
<1>9. FreshTables'
  <2>1. pgdir \subseteq pgdir' /\ PGDIR_INDEX(v) \in pgdir'
    BY <1>7 DEF Touched
  <2>2. ASSUME NEW x \in Pages, PGDIR_INDEX(x) \notin pgdir' PROVE pte'[x] = NewEntry
    <3>0. x # v /\ PGDIR_INDEX(x) \notin pgdir
      BY <2>1, <2>2
    <3>1. pte[x] = NewEntry /\ ~pte[x].valid
      <4>1. pte[x] = NewEntry
        BY <1>0, <3>0 DEF FreshTables
      <4>2. NewEntry.valid = FALSE
        BY DEF NewEntry
      <4>. QED  BY <4>1, <4>2
    <3>2. x # w
      BY <1>3, <3>1
    <3>3. init_second_level(v) = pte
      BY <1>0, SecondLevel
    <3>. QED  BY <1>3, <3>0, <3>1, <3>2, <3>3 DEF MissEvict
  <2>. QED  BY <2>2 DEF FreshTables
<1>10. StatusBits'
  BY <1>0, <1>1, <1>2, <1>4 DEF StatusBits, SameEntry
<1>11. Reserved'
  <2>1. swapmap \subseteq swapmap'
    BY <1>1 DEF Leaves
  <2>. QED  BY <1>0, <1>2, <2>1, PagesAssumption DEF Reserved, NoPage
<1>12. CoremapMatches'
  <2>. SUFFICES ASSUME NEW x \in Pages, NEW j \in Frames
                PROVE  coremap'[j] = x <=> pte'[x].valid /\ pte'[x].frame = j
    BY DEF CoremapMatches
  <2>1. CASE x = v
    BY <1>0, <1>2, <1>5, <2>1 DEF CoremapMatches
  <2>2. CASE x = w
    BY <1>0, <1>1, <1>2, <1>3, <1>4, <2>2 DEF CoremapMatches
  <2>3. CASE x \notin {v, w}
    BY <1>0, <1>1, <1>2, <1>6, <2>3 DEF CoremapMatches, SameEntry
  <2>. QED  BY <2>1, <2>2, <2>3
<1>13. SlotsExclusive'
  <2>1. \A x \in Pages \ {w} : pte'[x].swap_off \in {pte[x].swap_off, INVALID_SWAP}
    BY <1>1, <1>2 DEF SameEntry
  <2>2. /\ swapmap \subseteq swapmap'
        /\ off # INVALID_SWAP => off \in swapmap' /\ off < swapsize
        /\ \A x \in Pages \ {w} : pte[x].swap_off # INVALID_SWAP => pte[x].swap_off # off
    BY <1>1 DEF Leaves
  <2>. SUFFICES ASSUME NEW x \in Pages, NEW y \in Pages, pte'[x].swap_off # INVALID_SWAP
                PROVE  /\ pte'[x].swap_off \in swapmap'
                       /\ pte'[x].swap_off < swapsize
                       /\ pte'[x].swap_off = pte'[y].swap_off => x = y
    BY DEF SlotsExclusive
  <2>3. CASE x = w
    BY <1>4, <2>1, <2>2, <2>3
  <2>4. CASE x # w /\ y = w
    BY <1>0, <1>4, <2>1, <2>2, <2>4 DEF SlotsExclusive
  <2>5. CASE x # w /\ y # w
    BY <1>0, <2>1, <2>2, <2>5 DEF SlotsExclusive
  <2>. QED  BY <2>3, <2>4, <2>5
<1>14. DataInPlace'
  <2>. SUFFICES ASSUME ~reported', NEW x \in Pages
                PROVE  /\ pte'[x].valid => physmem'[pte'[x].frame].vaddr = x
                       /\ ~pte'[x].valid /\ pte'[x].swap_off # INVALID_SWAP
                             => swapfile'[pte'[x].swap_off].vaddr = x
                       /\ pte'[x].valid /\ ~pte'[x].dirty
                             => /\ pte'[x].swap_off # INVALID_SWAP
                                /\ swapfile'[pte'[x].swap_off] = physmem'[pte'[x].frame]
    BY DEF DataInPlace
  <2>0. ~reported
    BY <1>7 DEF Touched
  <2>1. physmem[i].vaddr = w
    BY <1>0, <1>3, <2>0 DEF DataInPlace
  <2>2. /\ physmem'[i].vaddr = v
        /\ ~pte'[v].dirty => physmem'[i] = file[pte[v].swap_off]
    BY <1>0, <1>1, <2>1, ArrivesData
  <2>3. ~pte'[v].dirty => pte[v].onswap /\ pte[v].swap_off # INVALID_SWAP
    <3>1. ~pte'[v].dirty => pte[v].onswap
      BY <1>0, <1>1, ArrivesFacts
    <3>. QED  BY <1>1, <3>1 DEF Arrives
  <2>4. CASE x = v
    BY <1>2, <1>3, <2>2, <2>3, <2>4
  <2>5. CASE x = w
    <3>1. /\ pte[w].dirty /\ off # INVALID_SWAP => file[off] = physmem[i]
          /\ ~pte[w].dirty => off = pte[w].swap_off /\ file = swapfile
      BY <1>1 DEF Leaves
    <3>2. ~pte[w].dirty => file[off] = physmem[i]
      BY <1>0, <1>3, <2>0, <3>1 DEF DataInPlace
    <3>3. off # INVALID_SWAP => file[off].vaddr = w
      BY <2>1, <3>1, <3>2
    <3>. QED  BY <1>3, <1>4, <2>5, <3>3
  <2>6. CASE x \notin {v, w}
    <3>1. pte[x].swap_off # INVALID_SWAP => file[pte[x].swap_off] = swapfile[pte[x].swap_off]
      BY <1>1, <2>6 DEF Leaves
    <3>2. pte[x].valid => physmem'[pte[x].frame] = physmem[pte[x].frame]
      BY <1>2, <1>6, <2>6
    <3>3. SameEntry(x)
      BY <1>1, <2>6
    <3>. QED  BY <1>0, <1>3, <2>0, <3>1, <3>2, <3>3 DEF DataInPlace, SameEntry
  <2>. QED  BY <2>4, <2>5, <2>6
<1>. QED  BY <1>8, <1>9, <1>10, <1>11, <1>12, <1>13, <1>14 DEF IInv

\* Every step keeps the invariant.
LEMMA StepIInv == IInv /\ [Next]_vars => IInv'
<1>. SUFFICES ASSUME IInv, [Next]_vars PROVE IInv'
  OBVIOUS
<1>1. CASE UNCHANGED vars
  BY <1>1 DEF IInv, TypeOK, FreshTables, StatusBits, Reserved, CoremapMatches,
     SlotsExclusive, DataInPlace, vars, tableVars, dataVars, counters
<1>2. ASSUME NEW v \in Pages, PageinAbort(v) PROVE IInv'
  <2>1. aborted' \in BOOLEAN /\ UNCHANGED <<tableVars, dataVars, counters, found, reported>>
    BY <1>2 DEF PageinAbort
  <2>. QED  BY <2>1 DEF IInv, TypeOK, FreshTables, StatusBits, Reserved, CoremapMatches,
            SlotsExclusive, DataInPlace, tableVars, dataVars, counters
<1>3. ASSUME NEW v \in Pages, NEW t \in Types, Hit(v, t) PROVE IInv'
  BY <1>3, HitStep
<1>4. ASSUME NEW v \in Pages, NEW t \in Types, NEW fault, MissFree(v, t, fault)
      PROVE  IInv'
  BY <1>4, MissFreeStep
<1>5. ASSUME NEW v \in Pages, NEW t \in Types, NEW fault, NEW i \in Frames,
             NEW swept \in SUBSET Frames, MissEvict(v, t, i, swept, fault)
      PROVE  IInv'
  BY <1>5, MissEvictStep
<1>. QED  BY <1>1, <1>2, <1>3, <1>4, <1>5 DEF Next

-----------------------------------------------------------------------------
(* The counters *)

\* The number of frames in use, and what a new frame in use adds to it.
InUse == {i \in Frames : coremap[i] # NoPage}

\* CountersAgree as the proofs use it.
LEMMA CountersAre ==
    /\ CountersAgree <=>
          /\ ref_count = hit_count + miss_count
          /\ miss_count = evict_clean_count + evict_dirty_count + Cardinality(InUse)
    /\ CountersAgree' <=>
          /\ ref_count' = hit_count' + miss_count'
          /\ miss_count' = evict_clean_count' + evict_dirty_count' + Cardinality(InUse')
BY DEF CountersAgree, InUse

\* There are finitely many frames, so the ones in use can be counted.
LEMMA InUseFinite == IsFiniteSet(InUse) /\ Cardinality(InUse) \in Nat
<1>1. IsFiniteSet(Frames)
  BY SizesAssumption, FS_Interval DEF Frames
<1>2. InUse \subseteq Frames
  BY DEF InUse
<1>. QED  BY <1>1, <1>2, FS_Subset, FS_CardinalityType

\* A hit counts itself.
LEMMA HitCounts ==
    ASSUME TypeOK, CountersAgree, NEW v \in Pages, NEW t, Hit(v, t)
    PROVE  CountersAgree'
<1>1. /\ ref_count' = ref_count + 1 /\ hit_count' = hit_count + 1
      /\ UNCHANGED <<coremap, miss_count, evict_clean_count, evict_dirty_count>>
  BY DEF Hit, Touch
<1>2. InUse' = InUse
  BY <1>1 DEF InUse
<1>. DEFINE n == Cardinality(InUse)
<1>3. n \in Nat /\ Cardinality(InUse') = n
  BY <1>2, InUseFinite
<1>4. /\ ref_count = hit_count + miss_count
      /\ miss_count = evict_clean_count + evict_dirty_count + n
  BY CountersAre
<1>. HIDE DEF n
<1>5. /\ ref_count' = hit_count' + miss_count'
      /\ miss_count' = evict_clean_count' + evict_dirty_count' + n
  BY <1>1, <1>4 DEF TypeOK
<1>. QED  BY <1>3, <1>5, CountersAre

\* A miss that takes a free frame adds one to the frames in use.
LEMMA MissFreeCounts ==
    ASSUME IInv, CountersAgree, NEW v \in Pages, NEW t, NEW fault, MissFree(v, t, fault)
    PROVE  CountersAgree'
<1>1. /\ ref_count' = ref_count + 1 /\ miss_count' = miss_count + 1
      /\ UNCHANGED <<hit_count, evict_clean_count, evict_dirty_count>>
  BY DEF MissFree, Touch
<1>2. PICK i \in Frames : coremap[i] = NoPage /\ Arrives(v, t, i, swapfile, fault)
  BY MissFreeStep
<1>3. coremap' = [coremap EXCEPT ![i] = v] /\ v # NoPage
  BY <1>2, PagesAssumption DEF Arrives, NoPage
<1>4. i \notin InUse /\ InUse' = InUse \cup {i}
  BY <1>2, <1>3 DEF InUse, IInv, TypeOK
<1>. DEFINE n == Cardinality(InUse)
<1>5. n \in Nat /\ Cardinality(InUse') = n + 1
  BY <1>4, InUseFinite, FS_AddElement
<1>6. /\ ref_count = hit_count + miss_count
      /\ miss_count = evict_clean_count + evict_dirty_count + n
  BY CountersAre
<1>. HIDE DEF n
<1>7. /\ ref_count' = hit_count' + miss_count'
      /\ miss_count' = evict_clean_count' + evict_dirty_count' + (n + 1)
  BY <1>1, <1>5, <1>6 DEF IInv, TypeOK
<1>. QED  BY <1>5, <1>7, CountersAre

\* A miss that evicts is counted as one eviction, clean or dirty.
LEMMA MissEvictCounts ==
    ASSUME IInv, CountersAgree, NEW v \in Pages, NEW t, NEW i \in Frames, NEW swept,
           NEW fault, MissEvict(v, t, i, swept, fault)
    PROVE  CountersAgree'
<1>1. /\ ref_count' = ref_count + 1 /\ miss_count' = miss_count + 1
      /\ hit_count' = hit_count
      /\ coremap' = [coremap EXCEPT ![i] = v]
      /\ \A j \in Frames : coremap[j] # NoPage
  BY DEF MissEvict, Touch
<1>2. \/ evict_clean_count' = evict_clean_count + 1 /\ evict_dirty_count' = evict_dirty_count + 0
      \/ evict_clean_count' = evict_clean_count + 0 /\ evict_dirty_count' = evict_dirty_count + 1
  BY DEF MissEvict
<1>3. InUse' = InUse
  BY <1>1, PagesAssumption DEF InUse, NoPage, IInv, TypeOK
<1>. DEFINE n == Cardinality(InUse)
<1>4. n \in Nat /\ Cardinality(InUse') = n
  BY <1>3, InUseFinite
<1>5. /\ ref_count = hit_count + miss_count
      /\ miss_count = evict_clean_count + evict_dirty_count + n
  BY CountersAre
<1>. HIDE DEF n
<1>6. /\ ref_count' = hit_count' + miss_count'
      /\ miss_count' = evict_clean_count' + evict_dirty_count' + n
  BY <1>1, <1>2, <1>4, <1>5 DEF IInv, TypeOK
<1>. QED  BY <1>4, <1>6, CountersAre

\* No step makes the statistics disagree.
LEMMA StepCounts == IInv /\ CountersAgree /\ [Next]_vars => CountersAgree'
<1>. SUFFICES ASSUME IInv, CountersAgree, [Next]_vars PROVE CountersAgree'
  OBVIOUS
<1>1. CASE UNCHANGED <<coremap, counters>>
  BY <1>1 DEF CountersAgree, counters
<1>2. CASE UNCHANGED vars
  BY <1>1, <1>2 DEF vars, tableVars
<1>3. ASSUME NEW v \in Pages, PageinAbort(v) PROVE CountersAgree'
  BY <1>1, <1>3 DEF PageinAbort, tableVars
<1>4. ASSUME NEW v \in Pages, NEW t \in Types, Hit(v, t) PROVE CountersAgree'
  BY <1>4, HitCounts DEF IInv
<1>. QED  BY <1>2, <1>3, <1>4, MissFreeCounts, MissEvictCounts DEF Next

-----------------------------------------------------------------------------
(* Theorems *)

\* The invariant holds in every reachable state.
THEOREM Invariance == Spec => []IInv
BY InitIInv, StepIInv, PTL DEF Spec

\* The types of the simulator's state.
THEOREM TypeCorrect == Spec => []TypeOK
BY Invariance, PTL DEF IInv

\* The coremap and the page table point at each other, whatever is evicted.
THEOREM CoremapCorrect == Spec => []CoremapMatches
BY Invariance, PTL DEF IInv

\* No two pages ever share a slot of the swap file, and none lies past its end.
THEOREM SlotsStayExclusive == Spec => []SlotsExclusive
BY Invariance, PTL DEF IInv

\* Until an error is reported, every page's content is where its entry says.
THEOREM DataStaysInPlace == Spec => []DataInPlace
BY Invariance, PTL DEF IInv

\* The statistics add up: every reference is a hit or a miss, and every miss
\* took a free frame or evicted a page.
THEOREM CountersCorrect == Spec => []CountersAgree
<1>1. Init => CountersAgree
  <2>1. ASSUME Init PROVE InUse = {}
    BY <2>1 DEF Init, InUse
  <2>2. ASSUME Init PROVE Cardinality(InUse) = 0
    BY <2>1, <2>2, FS_EmptySet
  <2>3. ASSUME Init PROVE /\ hit_count = 0 /\ miss_count = 0 /\ ref_count = 0
                          /\ evict_clean_count = 0 /\ evict_dirty_count = 0
    BY <2>3 DEF Init
  <2>. HIDE DEF Init
  <2>. QED  BY <2>2, <2>3, CountersAre
<1>. QED  BY <1>1, StepCounts, Invariance, PTL DEF Spec

-----------------------------------------------------------------------------
(* Refinement: the simulator implements AbstractMemory *)

\* An access to v that finds its version, adds the write to it, and makes no
\* page but those in lost disappear, is an access of the abstract memory.
LEMMA AccessRefines ==
    ASSUME NEW v \in Pages, NEW t \in Types, NEW lost \in SUBSET (Pages \ {v}),
           ~aborted, ~aborted', aborted' = aborted, ~reported, reported' = reported,
           Version(v) # -1,
           found' = [vaddr |-> v, version |-> Version(v)],
           Version(v)' = Version(v) + (IF t \in Writes THEN 1 ELSE 0),
           \A x \in Pages \ {v} : Version(x)' = IF x \in lost THEN -1 ELSE Version(x)
    PROVE  Memory!Next
<1>. DEFINE mm == [x \in Pages |-> Version(x)]
<1>1. mm' = [w \in Pages |-> IF w \in lost THEN Memory!Lost
                             ELSE IF w = v THEN mm[v] + Memory!Bump(t) ELSE mm[w]]
  BY DEF Memory!Lost, Memory!Bump
<1>2. Memory!Access(v, t)
  BY <1>1 DEF Memory!Access, Memory!Lost
<1>. QED  BY <1>2 DEF Memory!Next

\* A hit is an access, or the report of an error.
LEMMA HitRefines ==
    ASSUME IInv, NEW v \in Pages, NEW t \in Types, Hit(v, t), ~reported'
    PROVE  Memory!Next
<1>. DEFINE i == pte[v].frame
<1>0. TypeOK /\ StatusBits /\ CoremapMatches /\ DataInPlace
  BY DEF IInv
<1>1. i \in Frames /\ pte[v].valid /\ Touch(v, t, i, physmem)
  BY HitFacts
<1>2. Touched(v, t, i, physmem)
  BY <1>0, <1>1, TouchFacts DEF TypeOK
<1>3. coremap[i] = v
  BY <1>0, <1>1 DEF CoremapMatches
<1>4. swapfile' = swapfile
  BY DEF Hit
<1>5. ~reported /\ reported' = reported /\ physmem[i].vaddr = v /\ found' = physmem[i]
  BY <1>0, <1>2 DEF Touched, TypeOK
<1>6. Version(v) = physmem[i].version /\ physmem[i] \in Content
  BY <1>0, <1>1 DEF Version, TypeOK
<1>7. found' = [vaddr |-> v, version |-> Version(v)] /\ Version(v) # -1
  BY <1>5, <1>6 DEF Content
<1>8. Version(v)' = Version(v) + (IF t \in Writes THEN 1 ELSE 0)
  <2>1. pte'[v].valid /\ pte'[v].frame = i
    BY HitFacts
  <2>2. Version(v)' = physmem'[i].version
    BY <2>1 DEF Version
  <2>. QED  BY <1>2, <1>6, <2>2 DEF Touched
<1>9. ASSUME NEW x \in Pages \ {v} PROVE Version(x)' = Version(x)
  <2>1. pte'[x] = pte[x]
    BY HitFacts
  <2>2. pte[x].valid => pte[x].frame \in Frames \ {i}
    BY <1>0, <1>3 DEF TypeOK, Entry, CoremapMatches
  <2>3. pte[x].valid => physmem'[pte[x].frame] = physmem[pte[x].frame]
    BY <1>2, <2>2 DEF Touched
  <2>. QED  BY <1>4, <2>1, <2>3 DEF Version
<1>10. ~aborted /\ aborted' = aborted
  BY <1>2 DEF Hit, Running, Touched
<1>. DEFINE lost == {}
<1>11. /\ lost \in SUBSET (Pages \ {v})
       /\ \A x \in Pages \ {v} : Version(x)' = IF x \in lost THEN -1 ELSE Version(x)
  BY <1>9
<1>. HIDE DEF lost
<1>. QED  BY <1>5, <1>7, <1>8, <1>10, <1>11, AccessRefines

\* What the arriving page had before, and has now.
LEMMA ArrivesVersion ==
    ASSUME TypeOK, StatusBits, NEW v \in Pages, NEW t, NEW i, NEW file, NEW fault,
           Arrives(v, t, i, file, fault), physmem[i].vaddr # v, ~reported',
           pte[v].onswap => file[pte[v].swap_off] = swapfile[pte[v].swap_off]
    PROVE  /\ found' = [vaddr |-> v, version |-> Version(v)] /\ Version(v) # -1
           /\ Version(v)' = Version(v) + (IF t \in Writes THEN 1 ELSE 0)
<1>1. ~pte[v].valid /\ (pte[v].onswap => pte[v].swap_off # INVALID_SWAP) /\ pte[v] \in Entry
  BY DEF Arrives, TypeOK
<1>2. /\ pte[v].onswap => found' = file[pte[v].swap_off]
      /\ ~pte[v].onswap => found' = [vaddr |-> v, version |-> 0]
      /\ found'.vaddr = v
      /\ physmem'[i].version = found'.version + (IF t \in Writes THEN 1 ELSE 0)
  BY ArrivesData
<1>3. Version(v) = found'.version
  BY <1>1, <1>2 DEF Version
<1>4. found' \in Content
  BY DEF Arrives, Touched
<1>5. pte'[v].valid /\ pte'[v].frame = i
  BY ArrivesFacts
<1>6. Version(v)' = physmem'[i].version
  BY <1>5 DEF Version
<1>. QED  BY <1>2, <1>3, <1>4, <1>6 DEF Content

\* So is a miss that takes a free frame.
LEMMA MissFreeRefines ==
    ASSUME IInv, NEW v \in Pages, NEW t \in Types, NEW fault, MissFree(v, t, fault),
           ~reported'
    PROVE  Memory!Next
<1>0. TypeOK /\ StatusBits /\ CoremapMatches
  BY DEF IInv
<1>1. PICK i \in Frames :
          /\ coremap[i] = NoPage
          /\ Arrives(v, t, i, swapfile, fault)
          /\ physmem[i].vaddr # v
          /\ \A x \in Pages \ {v} : pte'[x] = pte[x]
          /\ UNCHANGED <<swapfile, swapmap>>
  BY MissFreeStep
<1>2. /\ found' = [vaddr |-> v, version |-> Version(v)] /\ Version(v) # -1
      /\ Version(v)' = Version(v) + (IF t \in Writes THEN 1 ELSE 0)
  BY <1>0, <1>1, ArrivesVersion
<1>3. ~reported /\ reported' = reported /\ aborted' = aborted
  BY <1>0, <1>1 DEF Arrives, Touched, TypeOK
<1>4. ASSUME NEW x \in Pages \ {v} PROVE Version(x)' = Version(x)
  <2>1. pte[x].valid => pte[x].frame \in Frames \ {i}
    BY <1>0, <1>1, PagesAssumption DEF TypeOK, Entry, CoremapMatches, NoPage
  <2>2. \A j \in Frames \ {i} : physmem'[j] = physmem[j]
    BY <1>0, <1>1, ArrivesFacts
  <2>. QED  BY <1>1, <2>1, <2>2 DEF Version
<1>5. ~aborted
  BY DEF MissFree, Running
<1>. DEFINE lost == {}
<1>6. /\ lost \in SUBSET (Pages \ {v})
      /\ \A x \in Pages \ {v} : Version(x)' = IF x \in lost THEN -1 ELSE Version(x)
  BY <1>4
<1>. HIDE DEF lost
<1>. QED  BY <1>2, <1>3, <1>5, <1>6, AccessRefines

\* And a miss that evicts, which may lose the victim.
LEMMA MissEvictRefines ==
    ASSUME IInv, NEW v \in Pages, NEW t \in Types, NEW i \in Frames, NEW swept, NEW fault,
           MissEvict(v, t, i, swept, fault), ~reported'
    PROVE  Memory!Next
<1>0. TypeOK /\ StatusBits /\ CoremapMatches /\ DataInPlace
  BY DEF IInv
<1>1. PICK w, off, file :
          /\ w # v
          /\ Leaves(w, i, off, file)
          /\ Arrives(v, t, i, file, fault)
          /\ \A x \in Pages \ {v, w} : SameEntry(x)
  BY MissEvictFacts, Zenon
<1>2. /\ w \in Pages /\ coremap[i] = w /\ pte[w].valid /\ pte[w].frame = i
      /\ off \in Bits \cup {INVALID_SWAP} /\ pte'[w] = Evicted(pte[w], off)
      /\ swapfile' = file
      /\ pte[w].dirty /\ off # INVALID_SWAP => file[off] = physmem[i]
      /\ ~pte[w].dirty => off = pte[w].swap_off /\ file = swapfile
  BY <1>1 DEF Leaves
<1>3. ~reported /\ reported' = reported /\ aborted' = aborted
  BY <1>0, <1>1 DEF Arrives, Touched, TypeOK
<1>4. physmem[i].vaddr # v
  BY <1>0, <1>1, <1>2, <1>3 DEF DataInPlace
<1>5. pte[v].onswap => file[pte[v].swap_off] = swapfile[pte[v].swap_off]
  <2>1. pte[v].onswap => pte[v].swap_off # INVALID_SWAP
    BY <1>1 DEF Arrives
  <2>. QED  BY <1>1, <2>1 DEF Leaves
<1>6. /\ found' = [vaddr |-> v, version |-> Version(v)] /\ Version(v) # -1
      /\ Version(v)' = Version(v) + (IF t \in Writes THEN 1 ELSE 0)
  BY <1>0, <1>1, <1>3, <1>4, <1>5, ArrivesVersion
<1>7. Version(w)' = IF off = INVALID_SWAP THEN -1 ELSE Version(w)
  <2>1. ~pte'[w].valid /\ pte'[w].onswap /\ pte'[w].swap_off = off
    BY <1>0, <1>2, EvictedFacts DEF TypeOK
  <2>2. off # INVALID_SWAP => file[off] = physmem[i]
    BY <1>0, <1>2, <1>3 DEF DataInPlace
  <2>. QED  BY <1>2, <2>1, <2>2 DEF Version
<1>8. ASSUME NEW x \in Pages \ {v, w} PROVE Version(x)' = Version(x)
  <2>1. pte[x].valid => pte[x].frame \in Frames \ {i}
    BY <1>0, <1>2 DEF TypeOK, Entry, CoremapMatches
  <2>2. \A j \in Frames \ {i} : physmem'[j] = physmem[j]
    BY <1>0, <1>1, ArrivesFacts
  <2>3. pte[x].swap_off # INVALID_SWAP => file[pte[x].swap_off] = swapfile[pte[x].swap_off]
    BY <1>1 DEF Leaves
  <2>. QED  BY <1>1, <1>2, <2>1, <2>2, <2>3 DEF Version, SameEntry
<1>9. ~aborted
  BY DEF MissEvict, Running
<1>. DEFINE lost == IF off = INVALID_SWAP THEN {w} ELSE {}
<1>10. \A x \in Pages \ {v} : Version(x)' = IF x \in lost THEN -1 ELSE Version(x)
  BY <1>7, <1>8
<1>11. lost \in SUBSET (Pages \ {v})
  BY <1>1, <1>2
<1>. HIDE DEF lost
<1>. QED  BY <1>3, <1>6, <1>9, <1>10, <1>11, AccessRefines

\* Whatever is evicted, when, and whichever transfers fail, until the program
\* aborts or reports an error every access finds what was written last.
THEOREM Refinement == Spec => MemorySpec
<1>. DEFINE avars == <<[v \in Pages |-> Version(v)], found, reported, aborted>>
<1>1. Init => Memory!Init
  BY DEF Init, Memory!Init, Version, NewEntry, Blank, NoPage
<1>2. IInv /\ [Next]_vars => [Memory!Next]_avars
  <2>. SUFFICES ASSUME IInv, [Next]_vars PROVE [Memory!Next]_avars
    OBVIOUS
  <2>1. CASE UNCHANGED vars
    BY <2>1 DEF vars, tableVars, dataVars, counters, Version
  <2>2. ASSUME NEW v \in Pages, PageinAbort(v) PROVE Memory!Next
    <3>1. init_second_level(v) = pte
      BY SecondLevel DEF IInv
    <3>2. Version(v) = -1 /\ ~aborted /\ aborted' = TRUE
      BY <2>2, <3>1 DEF PageinAbort, Running, Version
    <3>3. UNCHANGED <<[x \in Pages |-> Version(x)], found, reported>>
      BY <2>2 DEF PageinAbort, tableVars, dataVars, Version
    <3>. QED  BY <3>2, <3>3 DEF Memory!Next, Memory!Halt, Memory!Lost
  <2>3. ASSUME NEW v \in Pages, NEW t, NEW i, NEW m, Running(v), Touch(v, t, i, m), reported'
        PROVE  Memory!Next
    <3>1. ~aborted /\ ~aborted' /\ reported' = TRUE
      BY <2>3 DEF Running, Touch
    <3>. QED  BY <3>1 DEF Memory!Next, Memory!Report
  <2>4. ASSUME NEW v \in Pages, NEW t \in Types, Hit(v, t) PROVE Memory!Next
    <3>1. CASE reported'
      BY <2>3, <2>4, <3>1 DEF Hit
    <3>2. CASE ~reported'
      BY <2>4, <3>2, HitRefines
    <3>. QED  BY <3>1, <3>2
  <2>5. ASSUME NEW v \in Pages, NEW t \in Types, NEW fault, MissFree(v, t, fault)
        PROVE  Memory!Next
    <3>1. CASE reported'
      BY <2>3, <2>5, <3>1 DEF MissFree
    <3>2. CASE ~reported'
      BY <2>5, <3>2, MissFreeRefines
    <3>. QED  BY <3>1, <3>2
  <2>6. ASSUME NEW v \in Pages, NEW t \in Types, NEW fault, NEW i \in Frames,
               NEW swept \in SUBSET Frames, MissEvict(v, t, i, swept, fault)
        PROVE  Memory!Next
    <3>1. CASE reported'
      BY <2>3, <2>6, <3>1 DEF MissEvict
    <3>2. CASE ~reported'
      BY <2>6, <3>2, MissEvictRefines
    <3>. QED  BY <3>1, <3>2
  <2>. QED  BY <2>1, <2>2, <2>4, <2>5, <2>6 DEF Next
<1>. QED  BY Invariance, <1>1, <1>2, PTL DEF Spec, MemorySpec, Memory!Spec

=============================================================================
