------------------------------- MODULE Paging -------------------------------
(***************************************************************************)
(* The virtual-memory simulator of assignment 2: access_mem (sim.c), the   *)
(* page table, coremap and frames (pagetable.c) and the swap file with its *)
(* bitmap (swap.c), all under a2/starter.  The program is sequential: an   *)
(* action is one call of access_mem.  Which frame is given up is left      *)
(* open here; module Replacement closes it for each algorithm.             *)
(***************************************************************************)
EXTENDS Integers, FiniteSetsExt

CONSTANTS
    Pages,          \* the page numbers of the trace (vaddr >> PAGE_SHIFT)
    PTRS_PER_PGTBL, \* pages per second-level table
    memsize,        \* -m: frames of simulated memory
    swapsize,       \* -s: pages of the swap file
    BITS_PER_WORD,  \* bits per word of the swap bitmap
    Types,          \* the access types of the trace
    Faults,         \* which swap transfers may fail: "pagein", "pageout"
    MaxRefs         \* lines of the trace

ASSUME PagesAssumption == Pages \subseteq Nat
ASSUME SizesAssumption ==
    /\ PTRS_PER_PGTBL \in Nat \ {0}
    /\ memsize \in Nat \ {0}
    /\ swapsize \in Nat
    /\ BITS_PER_WORD \in Nat \ {0}
    /\ MaxRefs \in Nat
ASSUME TypesAssumption == Types \subseteq {"I", "L", "S", "M"}
ASSUME FaultsAssumption == Faults \subseteq {"pagein", "pageout"}

Writes == {"S", "M"}
NoPage == -1
INVALID_SWAP == -1

Frames == 0 .. memsize - 1
\* DIVROUNDUP(nbits, BITS_PER_WORD) words; the bits past nbits are never free.
Words == (swapsize + BITS_PER_WORD - 1) \div BITS_PER_WORD
Bits == 0 .. Words * BITS_PER_WORD - 1
Dirs == {v \div PTRS_PER_PGTBL : v \in Pages}

PGDIR_INDEX_PageShift(v) == v

PGDIR_INDEX(v) == v \div PTRS_PER_PGTBL

VARIABLES
    pgdir,      \* the directory entries that are valid
    pte,        \* the page table entry of each page
    coremap,    \* the page whose entry a frame in use points back to
    physmem,    \* the content of each frame
    swapmap,    \* the bits that are set in the swap bitmap
    swapfile,   \* the content of each slot of the swap file
    hit_count, miss_count, ref_count, evict_clean_count, evict_dirty_count,
    aborted,    \* an assertion has stopped the program
    found,      \* what access_mem found through memptr
    reported    \* access_mem has printed "does not have expected value"

tableVars == <<pgdir, pte, coremap>>
dataVars  == <<physmem, swapmap, swapfile>>
counters  == <<hit_count, miss_count, ref_count, evict_clean_count,
               evict_dirty_count>>
vars == <<tableVars, dataVars, counters, aborted, found, reported>>

Entry == [frame : Frames, valid : BOOLEAN, dirty : BOOLEAN, ref : BOOLEAN,
          onswap : BOOLEAN, swap_off : Bits \cup {INVALID_SWAP}]

\* The bytes of a page: a write counter, and the address it was made for.
Content == [vaddr : Pages \cup {NoPage}, version : Nat]

Blank == [vaddr |-> NoPage, version |-> 0]

TypeOK ==
    /\ pgdir \subseteq Dirs
    /\ pte \in [Pages -> Entry]
    /\ coremap \in [Frames -> Pages \cup {NoPage}]
    /\ physmem \in [Frames -> Content]
    /\ swapmap \subseteq Bits
    /\ swapfile \in [Bits -> Content]
    /\ hit_count \in Nat /\ miss_count \in Nat /\ ref_count \in Nat
    /\ evict_clean_count \in Nat /\ evict_dirty_count \in Nat
    /\ aborted \in BOOLEAN
    /\ found \in Content
    /\ reported \in BOOLEAN

-----------------------------------------------------------------------------
(* Initial state: calloc, swap_init, init_pagetable                        *)

\* A page table entry as init_second_level leaves it.
NewEntry == [frame |-> 0, valid |-> FALSE, dirty |-> FALSE, ref |-> FALSE,
             onswap |-> FALSE, swap_off |-> INVALID_SWAP]

bitmap_create_OneShort == (swapsize + 1) .. Words * BITS_PER_WORD - 1

\* The leftover bits of the last word are marked in use.
bitmap_create == swapsize .. Words * BITS_PER_WORD - 1

Init ==
    /\ pgdir = {}
    /\ pte = [v \in Pages |-> NewEntry]
    /\ coremap = [i \in Frames |-> NoPage]
    /\ physmem = [i \in Frames |-> Blank]
    /\ swapmap = bitmap_create
    /\ swapfile = [b \in Bits |-> Blank]
    /\ hit_count = 0 /\ miss_count = 0 /\ ref_count = 0
    /\ evict_clean_count = 0 /\ evict_dirty_count = 0
    /\ aborted = FALSE
    /\ found = Blank
    /\ reported = FALSE

-----------------------------------------------------------------------------
(* The swap file *)

bitmap_alloc == IF Bits \ swapmap = {} THEN INVALID_SWAP ELSE Min(Bits \ swapmap)

swap_slot_Fresh(e) == bitmap_alloc

\* The slot swap_pageout writes to: the page's own, or a new one.
swap_slot(e) == IF e.swap_off # INVALID_SWAP THEN e.swap_off ELSE bitmap_alloc

\* What swap_pageout returns; a failing lseek or write keeps the slot marked.
swap_pageout(e, fault) == IF fault = "pageout" THEN INVALID_SWAP ELSE swap_slot(e)

-----------------------------------------------------------------------------
(* find_physpage *)

init_second_level_Always(v) ==
    [w \in Pages |-> IF PGDIR_INDEX(w) = PGDIR_INDEX(v) THEN NewEntry ELSE pte[w]]

\* The entries after the directory entry of v has been made valid.
init_second_level(v) ==
    IF PGDIR_INDEX(v) \in pgdir THEN pte
    ELSE [w \in Pages |-> IF PGDIR_INDEX(w) = PGDIR_INDEX(v)
                          THEN NewEntry ELSE pte[w]]

\* A reference to page v can be made.
Running(v) == ~aborted /\ v \in Pages /\ ref_count < MaxRefs

\* The end of find_physpage, and access_mem's check and write, on frame i of
\* memory m.
Touch(v, t, i, m) ==
    /\ pgdir' = pgdir \cup {PGDIR_INDEX(v)}
    /\ found' = m[i]
    /\ reported' = (reported \/ m[i].vaddr # v)
    /\ physmem' = [m EXCEPT ![i].version = IF t \in Writes THEN @ + 1 ELSE @]
    /\ ref_count' = ref_count + 1
    /\ UNCHANGED aborted

Hit_NotDirty(v, t) ==
    LET tbl == init_second_level(v) IN
    /\ Running(v)
    /\ tbl[v].valid
    /\ pte' = [tbl EXCEPT ![v].ref = TRUE]
    /\ hit_count' = hit_count + 1
    /\ Touch(v, t, tbl[v].frame, physmem)
    /\ UNCHANGED <<coremap, swapmap, swapfile, miss_count,
                   evict_clean_count, evict_dirty_count>>

Hit_NotCounted(v, t) ==
    LET tbl == init_second_level(v) IN
    /\ Running(v)
    /\ tbl[v].valid
    /\ pte' = [tbl EXCEPT ![v].ref = TRUE, ![v].dirty = @ \/ t \in Writes]
    /\ Touch(v, t, tbl[v].frame, physmem)
    /\ UNCHANGED <<coremap, swapmap, swapfile, hit_count, miss_count,
                   evict_clean_count, evict_dirty_count>>

Hit(v, t) ==
    LET tbl == init_second_level(v) IN
    /\ Running(v)
    /\ tbl[v].valid
    /\ pte' = [tbl EXCEPT ![v].ref = TRUE, ![v].dirty = @ \/ t \in Writes]
    /\ hit_count' = hit_count + 1
    /\ Touch(v, t, tbl[v].frame, physmem)
    /\ UNCHANGED <<coremap, swapmap, swapfile, miss_count,
                   evict_clean_count, evict_dirty_count>>

\* The entry of v once it is in frame i: from swap it keeps its slot and is
\* clean, a new page has no slot and must be written out.
Placed(e, t, i) ==
    [frame |-> i, valid |-> TRUE, ref |-> TRUE, onswap |-> FALSE,
     dirty |-> ~e.onswap \/ t \in Writes,
     swap_off |-> IF e.onswap THEN e.swap_off ELSE INVALID_SWAP]

\* swap_pagein or init_frame; a failing lseek or read leaves the frame alone,
\* and find_physpage does not look at the result.
Filled(v, e, i, file, fault) ==
    IF ~e.onswap THEN [physmem EXCEPT ![i] = [vaddr |-> v, version |-> 0]]
    ELSE IF fault = "pagein" THEN physmem
    ELSE [physmem EXCEPT ![i] = file[e.swap_off]]

\* A miss while some frame is free: allocate_frame takes the first.
MissFree(v, t, fault) ==
    LET tbl == init_second_level(v)
        free == {j \in Frames : coremap[j] = NoPage}
        i == Min(free)
    IN
    /\ Running(v)
    /\ ~tbl[v].valid
    /\ free # {}
    /\ tbl[v].onswap => tbl[v].swap_off # INVALID_SWAP
    /\ pte' = [tbl EXCEPT ![v] = Placed(tbl[v], t, i)]
    /\ coremap' = [coremap EXCEPT ![i] = v]
    /\ miss_count' = miss_count + 1
    /\ Touch(v, t, i, Filled(v, tbl[v], i, swapfile, fault))
    /\ UNCHANGED <<swapmap, swapfile, hit_count, evict_clean_count,
                   evict_dirty_count>>

Evicted_StillValid(e, off) ==
    [e EXCEPT !.ref = FALSE, !.onswap = TRUE, !.swap_off = off]

\* The victim's entry after allocate_frame.
Evicted(e, off) ==
    [e EXCEPT !.valid = FALSE, !.ref = FALSE, !.onswap = TRUE, !.swap_off = off]

\* A miss with every frame in use: evict_fcn answers i, having cleared the
\* reference bits of the frames in swept.
MissEvict(v, t, i, swept, fault) ==
    LET tbl == init_second_level(v)
        w   == coremap[i]
        out == tbl[w].dirty
        off == IF out THEN swap_pageout(tbl[w], fault) ELSE tbl[w].swap_off
        file == IF out /\ off # INVALID_SWAP
                THEN [swapfile EXCEPT ![off] = physmem[i]] ELSE swapfile
    IN
    /\ Running(v)
    /\ ~tbl[v].valid
    /\ \A j \in Frames : coremap[j] # NoPage
    /\ tbl[v].onswap => tbl[v].swap_off # INVALID_SWAP
    /\ pte' = [x \in Pages |->
                 IF x = v THEN Placed(tbl[v], t, i)
                 ELSE IF x = w THEN Evicted(tbl[w], off)
                 ELSE IF tbl[x].valid /\ tbl[x].frame \in swept
                      THEN [tbl[x] EXCEPT !.ref = FALSE] ELSE tbl[x]]
    /\ coremap' = [coremap EXCEPT ![i] = v]
    /\ swapmap' = IF out THEN swapmap \cup ({swap_slot(tbl[w])} \ {INVALID_SWAP})
                  ELSE swapmap
    /\ swapfile' = file
    /\ miss_count' = miss_count + 1
    /\ evict_dirty_count' = evict_dirty_count + (IF out THEN 1 ELSE 0)
    /\ evict_clean_count' = evict_clean_count + (IF out THEN 0 ELSE 1)
    /\ Touch(v, t, i, Filled(v, tbl[v], i, file, fault))
    /\ UNCHANGED hit_count

\* swap_pagein's assertion: the page was evicted and its content not kept.
\* Tables, frames and counters are the memory of a process that has ended.
PageinAbort(v) ==
    /\ Running(v)
    /\ LET e == init_second_level(v)[v]
       IN  ~e.valid /\ e.onswap /\ e.swap_off = INVALID_SWAP
    /\ aborted' = TRUE
    /\ UNCHANGED <<tableVars, dataVars, counters, found, reported>>

Next ==
    \E v \in Pages :
       \/ PageinAbort(v)
       \/ \E t \in Types :
             \/ Hit(v, t)
             \/ \E fault \in Faults \cup {"none"} :
                   \/ MissFree(v, t, fault)
                   \/ \E i \in Frames, swept \in SUBSET Frames :
                         MissEvict(v, t, i, swept, fault)

Spec == Init /\ [][Next]_vars

-----------------------------------------------------------------------------
(* Properties *)

\* The coremap and the page table point at each other: a frame in use holds
\* the page whose valid entry names that frame, and no other page does.
CoremapMatches ==
    \A v \in Pages, i \in Frames :
        coremap[i] = v <=> pte[v].valid /\ pte[v].frame = i

\* No two pages share a slot of the swap file, every slot a page holds is
\* marked in the bitmap, and it is one of the swapsize slots the file has.
SlotsExclusive ==
    \A v, w \in Pages :
        pte[v].swap_off # INVALID_SWAP =>
            /\ pte[v].swap_off \in swapmap
            /\ pte[v].swap_off < swapsize
            /\ pte[v].swap_off = pte[w].swap_off => v = w

\* Every frame and slot that belongs to a page holds that page, and a page in
\* memory that is not dirty equals its copy on swap, so that evicting it
\* without a write loses nothing.  This holds until an error is reported.
DataInPlace ==
    ~reported =>
        \A v \in Pages :
            /\ pte[v].valid => physmem[pte[v].frame].vaddr = v
            /\ ~pte[v].valid /\ pte[v].swap_off # INVALID_SWAP
                  => swapfile[pte[v].swap_off].vaddr = v
            /\ pte[v].valid /\ ~pte[v].dirty
                  => /\ pte[v].swap_off # INVALID_SWAP
                     /\ swapfile[pte[v].swap_off] = physmem[pte[v].frame]

\* Every reference is a hit or a miss, and every miss either took a free frame
\* or evicted one page.
CountersAgree ==
    /\ ref_count = hit_count + miss_count
    /\ miss_count = evict_clean_count + evict_dirty_count
                      + Cardinality({i \in Frames : coremap[i] # NoPage})

\* The version of page v, wherever it is; -1 if its content is lost.
Version(v) ==
    IF pte[v].valid THEN physmem[pte[v].frame].version
    ELSE IF ~pte[v].onswap THEN 0
    ELSE IF pte[v].swap_off = INVALID_SWAP THEN -1
    ELSE swapfile[pte[v].swap_off].version

Memory == INSTANCE AbstractMemory
            WITH mem <- [v \in Pages |-> Version(v)], halted <- aborted

\* Whatever is evicted, when, and whichever transfers fail: until the program
\* aborts or prints its error, an access finds exactly what was written last.
MemorySpec == Memory!Spec

\* The assertion at the head of swap_pagein (swap.c:183).
PageinAssertion == ~aborted

=============================================================================
