----------------------------- MODULE Ext2Proofs -----------------------------
(***************************************************************************)
(* Theorems about Ext2, for every image, every size of disk, every set of  *)
(* paths and any number of commands.                                       *)
(***************************************************************************)
EXTENDS Ext2, DirBlockProofs, FiniteSetTheorems, SequenceTheorems

-----------------------------------------------------------------------------
(* As long as no command strays *)

\* The types of the disk and of a running command while dirents has what was
\* written as entries, and nothing else.
Typed ==
    /\ block_bitmap \subseteq Blocks /\ inode_bitmap \subseteq Inodes
    /\ free_blocks_count \in Nat /\ free_inodes_count \in Nat
    /\ i_links_count \in [Inodes -> 0 .. USHRT_MAX]
    /\ i_block \in [Inodes -> [0 .. INDIRECT1_INDEX -> Numbers]]
    /\ numbers \in [Blocks -> [Indices -> Numbers]]
    /\ IsFcn(dirents) /\ DOMAIN dirents = Blocks
    /\ \A b \in Blocks : IsChain(dirents[b], Inodes)
    /\ data \in [Blocks -> Contents]
    /\ cmd \in Locals
    /\ commands \in 0 .. MaxCommands

\* The blocks of every inode are tiled.
AllTiled ==
    \A k \in Inodes : \A i \in Held(k) : Tiles(dirents[get_inode_block_number(k, i)])

\* A command is given and nothing is spelled out for it.
Asked == Given /\ dirents' = dirents

\* Nothing is taken for entries while no command strays.
LEMMA NotTaken ==
    ASSUME NEW stray, NEW entries, NEW content,
           ~strayed', TakenForEntries(stray, entries, content)
    PROVE  dirents' = entries /\ ~strayed /\ ~stray
BY DEF TakenForEntries

\* Entries written to a block that holds no content spoil nothing.
LEMMA NotSpoilt ==
    ASSUME NEW b, data[b].kind = "zero"
    PROVE  Spoilt(b) = data
BY DEF Spoilt, IsContent

-----------------------------------------------------------------------------
(* Reading the disk *)

\* The bounds of an inode's block numbers are numbers.
LEMMA Bounds ==
    /\ INDIRECT1_INDEX \in Nat /\ INDIRECT1_INDEX > 0
    /\ BLOCK_NUMS_PER_BLOCK \in Nat /\ BLOCK_NUMS_PER_BLOCK > 0
    /\ INODE_BLOCK_LIMIT \in Nat /\ INODE_BLOCK_LIMIT > INDIRECT1_INDEX
    /\ Slots \subseteq Nat
    /\ 0 \notin Blocks
BY Ext2Assumption DEF INODE_BLOCK_LIMIT, Slots

\* get_inode_block_number as a function of what it reads.
NumberIn(blks, nums, k, i) ==
    IF i < INDIRECT1_INDEX THEN blks[k][i]
    ELSE IF blks[k][INDIRECT1_INDEX] = 0 THEN 0
    ELSE nums[blks[k][INDIRECT1_INDEX]][i - INDIRECT1_INDEX]

\* The number get_inode_block_number reads, before and after a step.
LEMMA NumberIs ==
    ASSUME NEW k, NEW i
    PROVE  /\ get_inode_block_number(k, i) = NumberIn(i_block, numbers, k, i)
           /\ get_inode_block_number(k, i)' = NumberIn(i_block', numbers', k, i)
BY DEF get_inode_block_number, NumberIn

\* Whatever the i_block and indirect arrays hold, a number is read.
LEMMA NumberType ==
    ASSUME NEW blks \in [Inodes -> [0 .. INDIRECT1_INDEX -> Numbers]],
           NEW nums \in [Blocks -> [Indices -> Numbers]],
           NEW k \in Inodes, NEW i \in Slots
    PROVE  NumberIn(blks, nums, k, i) \in Numbers
<1>. DEFINE indirect == blks[k][INDIRECT1_INDEX]
<1>1. indirect \in Numbers
  BY Bounds
<1>2. CASE i < INDIRECT1_INDEX
  <2>1. i \in 0 .. INDIRECT1_INDEX
    BY <1>2, Bounds DEF Slots
  <2>. QED  BY <1>2, <2>1 DEF NumberIn
<1>3. CASE ~(i < INDIRECT1_INDEX) /\ indirect = 0
  BY <1>3 DEF NumberIn, Numbers
<1>4. CASE ~(i < INDIRECT1_INDEX) /\ indirect # 0
  <2>1. indirect \in Blocks
    BY <1>1, <1>4 DEF Numbers
  <2>2. i - INDIRECT1_INDEX \in Indices
    BY <1>4, Bounds, Ext2Assumption DEF Slots, INODE_BLOCK_LIMIT, Indices
  <2>. QED  BY <1>4, <2>1, <2>2 DEF NumberIn
<1>. QED  BY <1>2, <1>3, <1>4

\* get_inode_block_number answers a block number for every slot.
LEMMA HeldType ==
    ASSUME Typed, NEW k \in Inodes, NEW i \in Slots
    PROVE  get_inode_block_number(k, i) \in Numbers
<1>1. i_block \in [Inodes -> [0 .. INDIRECT1_INDEX -> Numbers]]
  BY DEF Typed
<1>2. numbers \in [Blocks -> [Indices -> Numbers]]
  BY DEF Typed
<1>. QED  BY <1>1, <1>2, NumberIs, NumberType

\* What a path leads to: an entry found in a directory, or the root, which
\* traverse_path starts from.
Found ==
    [inode : Inodes, rec_len : 0 .. USHRT_MAX, name : Names \cup {Unnamed},
     file_type : FileTypes]

\* Positions and entries, one at a time.
LEMMA PositionFacts ==
    ASSUME Typed, NEW k \in Inodes, NEW p \in Positions(k)
    PROVE  /\ p = <<p[1], p[2]>> /\ p[1] \in Slots /\ p[2] \in Nat
           /\ get_inode_block_number(k, p[1]) \in Blocks
           /\ p[2] \in DOMAIN dirents[get_inode_block_number(k, p[1])]
           /\ EntryAt(k, p) \in ext2_dir_entry_2(Inodes)
<1>1. PICK i \in Slots : /\ get_inode_block_number(k, i) # 0
                        /\ \E o \in DOMAIN dirents[get_inode_block_number(k, i)] : p = <<i, o>>
  BY DEF Positions
<1>5. PICK o \in DOMAIN dirents[get_inode_block_number(k, i)] : p = <<i, o>>
  BY <1>1
<1>2. get_inode_block_number(k, i) \in Blocks
  BY <1>1, HeldType DEF Numbers
<1>3. IsChain(dirents[get_inode_block_number(k, i)], Inodes)
  BY <1>2 DEF Typed
<1>4. o \in Nat /\ dirents[get_inode_block_number(k, i)][o] \in ext2_dir_entry_2(Inodes)
  BY <1>1, <1>3, BlockAssumption DEF IsChain
<1>. QED  BY <1>1, <1>5, <1>2, <1>4 DEF EntryAt

\* Does inode k, read as a directory, have an entry of this name?
HasNameIn(blks, nums, entries, k, name) ==
    \E i \in Slots : LET b == NumberIn(blks, nums, k, i) IN
        b # 0 /\ \E o \in DOMAIN entries[b] : entries[b][o].name = name

HasName(k, name) == HasNameIn(i_block, numbers, dirents, k, name)

\* HasName says that some entry of the directory's blocks has the name.
LEMMA NameIs ==
    ASSUME Typed, NEW k \in Inodes, NEW name
    PROVE  HasName(k, name) <=>
              \E p \in Positions(k) : entry_name_comparison(EntryAt(k, p), name)
<1>1. ASSUME HasName(k, name)
      PROVE  \E p \in Positions(k) : entry_name_comparison(EntryAt(k, p), name)
  <2>1. PICK i \in Slots : LET b == get_inode_block_number(k, i) IN
          b # 0 /\ \E o \in DOMAIN dirents[b] : dirents[b][o].name = name
    BY <1>1, NumberIs DEF HasName, HasNameIn
  <2>2. PICK o \in DOMAIN dirents[get_inode_block_number(k, i)] :
          dirents[get_inode_block_number(k, i)][o].name = name
    BY <2>1
  <2>3. <<i, o>> \in Positions(k)
    BY <2>1, <2>2 DEF Positions
  <2>. QED  BY <2>2, <2>3 DEF EntryAt, entry_name_comparison
<1>2. ASSUME NEW p \in Positions(k), entry_name_comparison(EntryAt(k, p), name)
      PROVE  HasName(k, name)
  <2>1. /\ p[1] \in Slots /\ get_inode_block_number(k, p[1]) \in Blocks
        /\ p[2] \in DOMAIN dirents[get_inode_block_number(k, p[1])]
    BY PositionFacts
  <2>. QED  BY <1>2, <2>1, NumberIs, Bounds DEF HasName, HasNameIn, EntryAt, entry_name_comparison
<1>. QED  BY <1>1, <1>2

\* find_matching_pair finds an entry when there is one, and the first one.
LEMMA FirstPair ==
    ASSUME Typed, NEW k \in Inodes, NEW name, HasName(k, name)
    PROVE  /\ find_matching_pair(k, name) \in Positions(k)
           /\ EntryAt(k, find_matching_pair(k, name)).name = name
           /\ \A q \in Positions(k) :
                 EntryAt(k, q).name = name => ~Before(q, find_matching_pair(k, name))
<1>. DEFINE M == {p \in Positions(k) : EntryAt(k, p).name = name}
            I == {p[1] : p \in M}
            O == {p[2] : p \in {r \in M : r[1] = Min(I)}}
            first == <<Min(I), Min(O)>>
<1>1. \A p \in M : p = <<p[1], p[2]>> /\ p[1] \in Nat /\ p[2] \in Nat
  BY PositionFacts, Bounds
<1>2. I \subseteq Nat /\ I # {}
  BY <1>1, NameIs DEF entry_name_comparison
<1>3. Min(I) \in I /\ \A i \in I : Min(I) <= i
  BY <1>2, MinOfNats
<1>4. O \subseteq Nat /\ O # {}
  BY <1>1, <1>3
<1>5. Min(O) \in O /\ \A o \in O : Min(O) <= o
  BY <1>4, MinOfNats
<1>6. first \in M
  BY <1>1, <1>5
<1>7. ASSUME NEW q \in M PROVE ~Before(q, first)
  <2>1. q[1] \in Nat /\ q[2] \in Nat /\ Min(I) \in Nat /\ Min(O) \in Nat
    BY <1>1, <1>2, <1>3, <1>4, <1>5
  <2>2. Min(I) <= q[1]
    BY <1>3
  <2>3. q[1] = Min(I) => Min(O) <= q[2]
    BY <1>5
  <2>. HIDE DEF I, O
  <2>. QED  BY <2>1, <2>2, <2>3 DEF Before
<1>8. \E p \in Positions(k) :
        /\ entry_name_comparison(EntryAt(k, p), name)
        /\ \A q \in Positions(k) :
              entry_name_comparison(EntryAt(k, q), name) => ~Before(q, p)
  <2>. HIDE DEF first
  <2>. QED  BY <1>6, <1>7 DEF entry_name_comparison
<1>. QED  BY <1>8 DEF find_matching_pair, entry_name_comparison

\* Every entry of a directory block is one that a search may answer.
LEMMA FoundType ==
    ASSUME NEW e \in ext2_dir_entry_2(Inodes)
    PROVE  e \in Found
BY ShortIsNat DEF ext2_dir_entry_2, Found

\* A search answers NULL or an entry.
LEMMA MatchingType ==
    ASSUME Typed, NEW k \in Inodes, NEW name
    PROVE  /\ find_matching_entry(k, name) \in Found \cup {NULL}
           /\ find_matching_entry(k, name) # NULL => HasName(k, name)
<1>1. CASE HasName(k, name)
  <2>1. EntryAt(k, find_matching_pair(k, name)) \in ext2_dir_entry_2(Inodes)
    BY <1>1, FirstPair, PositionFacts
  <2>. QED  BY <1>1, <2>1, FoundType, NameIs DEF find_matching_entry
<1>2. CASE ~HasName(k, name)
  BY <1>2, NameIs DEF find_matching_entry
<1>. QED  BY <1>1, <1>2

-----------------------------------------------------------------------------
(* Paths *)

\* One component of a path.
Into(e, name) ==
    IF ~is_directory(e) THEN NULL ELSE find_matching_entry(e.inode, name)

RootEntry == [NULL EXCEPT !.inode = RootInode, !.file_type = "dir"]

\* walk holds the entries that the first m components of comps lead to.
IsWalk(walk, comps, m) ==
    walk = [n \in 0 .. m |-> IF n = 0 THEN RootEntry
                             ELSE Into(walk[n - 1], comps[n])]

\* A path walk starts at an entry a search may answer.
LEMMA RootType == RootEntry \in Found
<1>1. 0 \in 0 .. USHRT_MAX /\ RootInode \in Inodes
  BY ShortIsNat, Ext2Assumption
<1>. QED  BY <1>1 DEF RootEntry, NULL, Found, FileTypes

\* NULL is no entry, and not a directory.
LEMMA NullNotFound == NULL \notin Found /\ ~is_directory(NULL)
BY DEF NULL, Found, FileTypes, is_directory

\* A step of traverse_path answers an entry or NULL, and an entry only when
\* the directory it steps into has that name.
LEMMA IntoType ==
    ASSUME Typed, NEW e \in Found \cup {NULL}, NEW name
    PROVE  /\ Into(e, name) \in Found \cup {NULL}
           /\ Into(e, name) # NULL => e \in Found /\ HasName(e.inode, name)
<1>1. CASE is_directory(e)
  <2>1. e \in Found
    BY <1>1, NullNotFound
  <2>2. e.inode \in Inodes
    BY <2>1 DEF Found
  <2>. QED  BY <1>1, <2>1, <2>2, MatchingType DEF Into
<1>2. CASE ~is_directory(e)
  BY <1>2 DEF Into
<1>. QED  BY <1>1, <1>2

\* The entries along a path exist: by the least component that had none.
LEMMA WalkExists ==
    ASSUME NEW comps, NEW m \in Nat
    PROVE  \E walk : IsWalk(walk, comps, m)
<1>. DEFINE Bad == {n \in Nat : ~\E walk : IsWalk(walk, comps, n)}
<1>1. SUFFICES ASSUME Bad # {} PROVE FALSE
  BY <1>1
<1>2. Min(Bad) \in Bad /\ \A n \in Bad : Min(Bad) <= n
  <2>1. Bad \subseteq Nat
    OBVIOUS
  <2>. HIDE DEF Bad
  <2>. QED  BY <1>1, <2>1, MinOfNats
<1>3. PICK n \in Nat : n \in Bad /\ \A i \in Bad : n <= i
  BY <1>2
<1>4. n # 0
  <2>1. IsWalk([i \in 0 .. 0 |-> RootEntry], comps, 0)
    BY DEF IsWalk
  <2>. QED  BY <1>3, <2>1
<1>5. n - 1 \in Nat /\ n - 1 \notin Bad
  BY <1>3, <1>4
<1>6. PICK walk : IsWalk(walk, comps, n - 1)
  BY <1>5
<1>. DEFINE longer == [i \in 0 .. n |-> IF i = n THEN Into(walk[n - 1], comps[n])
                                        ELSE walk[i]]
<1>7. \A i \in 0 .. n - 1 : walk[i] = IF i = 0 THEN RootEntry
                                      ELSE Into(walk[i - 1], comps[i])
  BY <1>6 DEF IsWalk
<1>8. \A i \in 0 .. n : longer[i] = IF i = 0 THEN RootEntry
                                    ELSE Into(longer[i - 1], comps[i])
  BY <1>4, <1>5, <1>7
<1>9. IsWalk(longer, comps, n)
  BY <1>8 DEF IsWalk
<1>. QED  BY <1>3, <1>9

\* c and d have the same first l components.
Agree(c, d, l) == \A n \in 1 .. l : c[n] = d[n]

\* Two walks agree as far as their paths do.
LEMMA WalkUnique ==
    ASSUME NEW c, NEW d, NEW m \in Nat, NEW l \in Nat, NEW v, NEW w,
           IsWalk(v, c, m), IsWalk(w, d, l), l <= m, Agree(c, d, l)
    PROVE  \A n \in 0 .. l : v[n] = w[n]
<1>. DEFINE Bad == {n \in 0 .. l : v[n] # w[n]}
<1>1. SUFFICES ASSUME Bad # {} PROVE FALSE
  OBVIOUS
<1>2. Min(Bad) \in Bad /\ \A n \in Bad : Min(Bad) <= n
  <2>1. Bad \subseteq Nat
    OBVIOUS
  <2>. HIDE DEF Bad
  <2>. QED  BY <1>1, <2>1, MinOfNats
<1>3. PICK n \in 0 .. l : v[n] # w[n] /\ \A i \in Bad : n <= i
  BY <1>2
<1>4. /\ v[n] = IF n = 0 THEN RootEntry ELSE Into(v[n - 1], c[n])
      /\ w[n] = IF n = 0 THEN RootEntry ELSE Into(w[n - 1], d[n])
  <2>1. n \in 0 .. m
    OBVIOUS
  <2>. QED  BY <2>1 DEF IsWalk
<1>5. n # 0
  BY <1>3, <1>4
<1>6. n - 1 \in 0 .. l /\ n \in 1 .. l
  BY <1>5
<1>7. v[n - 1] = w[n - 1]
  <2>1. n - 1 \notin Bad
    BY <1>3
  <2>. QED  BY <1>6, <2>1
<1>. QED  BY <1>3, <1>4, <1>5, <1>6, <1>7 DEF Agree

\* Every place a path walk reaches is an entry or NULL.
LEMMA WalkType ==
    ASSUME Typed, NEW c, NEW m \in Nat, NEW w, IsWalk(w, c, m)
    PROVE  \A n \in 0 .. m : w[n] \in Found \cup {NULL}
<1>. DEFINE Bad == {n \in 0 .. m : w[n] \notin Found \cup {NULL}}
<1>1. SUFFICES ASSUME Bad # {} PROVE FALSE
  OBVIOUS
<1>2. Min(Bad) \in Bad /\ \A n \in Bad : Min(Bad) <= n
  <2>1. Bad \subseteq Nat
    OBVIOUS
  <2>. HIDE DEF Bad
  <2>. QED  BY <1>1, <2>1, MinOfNats
<1>3. PICK n \in 0 .. m : w[n] \notin Found \cup {NULL} /\ \A i \in Bad : n <= i
  BY <1>2
<1>4. w[n] = IF n = 0 THEN RootEntry ELSE Into(w[n - 1], c[n])
  BY DEF IsWalk
<1>5. n # 0
  BY <1>3, <1>4, RootType
<1>6. n - 1 \in 0 .. m
  BY <1>5
<1>7. w[n - 1] \in Found \cup {NULL}
  <2>1. n - 1 \notin Bad
    BY <1>3
  <2>. QED  BY <1>6, <2>1
<1>. QED  BY <1>3, <1>4, <1>5, <1>7, IntoType

\* traverse_path is the end of a walk.
LEMMA TraverseIs ==
    ASSUME NEW c, c # <<>>, Len(c) \in Nat
    PROVE  \E w : IsWalk(w, c, Len(c)) /\ traverse_path(c) = w[Len(c)]
<1>. DEFINE w == CHOOSE g : g = [n \in 0 .. Len(c) |->
                    IF n = 0 THEN [NULL EXCEPT !.inode = RootInode, !.file_type = "dir"]
                    ELSE IF ~is_directory(g[n - 1]) THEN NULL
                    ELSE find_matching_entry(g[n - 1].inode, c[n])]
<1>1. traverse_path(c) = w[Len(c)]
  BY Zenon DEF traverse_path
<1>2. w = CHOOSE g : IsWalk(g, c, Len(c))
  BY Zenon DEF IsWalk, Into, RootEntry
<1>3. IsWalk(w, c, Len(c))
  <2>. HIDE DEF w
  <2>. QED  BY <1>2, WalkExists
<1>. QED  BY <1>1, <1>3

\* What traverse_path answers.
LEMMA TraverseType ==
    ASSUME Typed, NEW c \in Seq(Names)
    PROVE  traverse_path(c) \in Found \cup {NULL}
<1>1. CASE c = <<>>
  BY <1>1 DEF traverse_path
<1>2. CASE c # <<>>
  <2>1. Len(c) \in Nat
    OBVIOUS
  <2>2. PICK w : IsWalk(w, c, Len(c)) /\ traverse_path(c) = w[Len(c)]
    BY <1>2, <2>1, TraverseIs
  <2>. QED  BY <2>1, <2>2, WalkType
<1>. QED  BY <1>1, <1>2

\* listPop and listPeek on a list that is not empty.
LEMMA PopFacts ==
    ASSUME NEW c \in Seq(Names), c # <<>>
    PROVE  /\ listPop(c) \in Seq(Names)
           /\ Len(listPop(c)) = Len(c) - 1
           /\ \A n \in 1 .. Len(c) - 1 : listPop(c)[n] = c[n]
           /\ listPeek(c) \in Names
<1>1. Len(c) \in Nat \ {0}
  BY EmptySeq
<1>2. \A i \in 1 .. Len(c) : c[i] \in Names
  BY ElementOfSeq
<1>3. SubSeq(c, Len(c) + 1, Len(c)) = <<>>
  BY <1>1, SubSeqEmpty
<1>4. /\ SubSeq(c, 1, Len(c) - 1) \in Seq(Names)
      /\ Len(SubSeq(c, 1, Len(c) - 1)) = IF 1 <= Len(c) - 1 THEN (Len(c) - 1) - 1 + 1 ELSE 0
      /\ \A i \in 1 .. (Len(c) - 1) - 1 + 1 : SubSeq(c, 1, Len(c) - 1)[i] = c[1 + i - 1]
  <2>1. \A i \in 1 .. Len(c) - 1 : c[i] \in Names
    BY <1>1, <1>2
  <2>2. Len(c) - 1 \in Int /\ 1 \in Int
    BY <1>1
  <2>. QED  BY <2>1, <2>2, SubSeqProperties
<1>5. listPop(c) = SubSeq(c, 1, Len(c) - 1)
  BY <1>3, <1>4, ConcatEmptySeq DEF listPop, listRemove
<1>6. listPeek(c) \in Names
  BY <1>1, <1>2 DEF listPeek
<1>7. Len(listPop(c)) = Len(c) - 1
  <2>. DEFINE m == Len(c)
              pop == Len(SubSeq(c, 1, Len(c) - 1))
  <2>1. m \in Nat \ {0} /\ pop = IF 1 <= m - 1 THEN (m - 1) - 1 + 1 ELSE 0
    BY <1>1, <1>4
  <2>2. pop = m - 1
    <3>. HIDE DEF m, pop
    <3>. QED  BY <2>1
  <2>. QED  BY <1>5, <2>2
<1>8. \A n \in 1 .. Len(c) - 1 : listPop(c)[n] = c[n]
  <2>1. \A n \in 1 .. Len(c) - 1 : n \in 1 .. (Len(c) - 1) - 1 + 1 /\ 1 + n - 1 = n
    BY <1>1
  <2>. QED  BY <1>4, <1>5, <2>1
<1>. QED  BY <1>4, <1>5, <1>6, <1>7, <1>8

\* The last component of a path is looked up in what the others lead to.
LEMMA TraverseLast ==
    ASSUME NEW c \in Seq(Names), Len(c) >= 2
    PROVE  traverse_path(c) = Into(traverse_path(listPop(c)), listPeek(c))
<1>1. c # <<>> /\ Len(c) \in Nat
  OBVIOUS
<1>2. listPop(c) # <<>> /\ Len(listPop(c)) \in Nat
  BY <1>1, PopFacts
<1>3. PICK v : IsWalk(v, c, Len(c)) /\ traverse_path(c) = v[Len(c)]
  BY <1>1, TraverseIs
<1>4. PICK w : /\ IsWalk(w, listPop(c), Len(listPop(c)))
               /\ traverse_path(listPop(c)) = w[Len(listPop(c))]
  BY <1>2, TraverseIs
<1>5. Len(listPop(c)) = Len(c) - 1 /\ Len(listPop(c)) <= Len(c)
  BY <1>1, PopFacts
<1>6. \A n \in 0 .. Len(listPop(c)) : v[n] = w[n]
  <2>. DEFINE m == Len(c)
              d == listPop(c)
              l == Len(d)
  <2>1. \A n \in 1 .. Len(listPop(c)) : c[n] = listPop(c)[n]
    BY <1>1, <1>5, PopFacts
  <2>2. IsWalk(v, c, m) /\ IsWalk(w, d, l) /\ m \in Nat /\ l \in Nat /\ l <= m
        /\ Agree(c, d, l)
    BY <1>1, <1>2, <1>3, <1>4, <1>5, <2>1 DEF Agree
  <2>3. \A n \in 0 .. l : v[n] = w[n]
    <3>. HIDE DEF m, d, l
    <3>. QED  BY <2>2, WalkUnique
  <2>. QED  BY <2>3
<1>7. v[Len(c)] = Into(v[Len(c) - 1], c[Len(c)])
  BY <1>1, <1>3 DEF IsWalk
<1>8. v[Len(c) - 1] = w[Len(c) - 1]
  BY <1>1, <1>5, <1>6
<1>. QED  BY <1>3, <1>4, <1>5, <1>7, <1>8 DEF listPeek

-----------------------------------------------------------------------------
(* Where block numbers are kept *)

\* The places of an inode: its slots, and INODE_BLOCK_LIMIT for its indirect
\* block.
Kept == 0 .. INODE_BLOCK_LIMIT

At(blks, nums, k, i) ==
    IF i = INODE_BLOCK_LIMIT THEN blks[k][INDIRECT1_INDEX]
    ELSE NumberIn(blks, nums, k, i)

\* OneOwner as a predicate of what it reads.
Owned(blks, nums, bitmap, hand) ==
    /\ \A k, l \in Inodes : \A i, j \in Kept :
          At(blks, nums, k, i) # 0 /\ At(blks, nums, k, i) = At(blks, nums, l, j)
              => k = l /\ i = j
    /\ \A k \in Inodes : \A i \in Kept :
          At(blks, nums, k, i) # 0 => At(blks, nums, k, i) \in bitmap \ hand
    /\ hand \subseteq bitmap

\* Every slot is a place, and the indirect block's is not a slot.
LEMMA KeptIs ==
    /\ Slots \subseteq Kept /\ INODE_BLOCK_LIMIT \in Kept
    /\ INODE_BLOCK_LIMIT \notin Slots
    /\ \A i \in Kept : i # INODE_BLOCK_LIMIT => i \in Slots
    /\ \A i \in Slots : i < INDIRECT1_INDEX \/ i - INDIRECT1_INDEX \in Indices
    /\ \A j \in Indices : INDIRECT1_INDEX + j \in Slots
    /\ 0 \in Slots
BY Bounds, Ext2Assumption DEF Kept, Slots, INODE_BLOCK_LIMIT, Indices

\* The place <<inode, slot>> is one that keeps a block iff a number is there.
LEMMA PlaceIs ==
    ASSUME NEW k \in Inodes, NEW i \in Kept
    PROVE  /\ BlockAt(<<k, i>>) = At(i_block, numbers, k, i)
           /\ <<k, i>> \in Places <=> At(i_block, numbers, k, i) # 0
           /\ BlockAt(<<k, i>>)' = At(i_block', numbers', k, i)
           /\ <<k, i>> \in Places' <=> At(i_block', numbers', k, i) # 0
<1>1. BlockAt(<<k, i>>) = At(i_block, numbers, k, i)
  BY NumberIs DEF BlockAt, At
<1>2. BlockAt(<<k, i>>)' = At(i_block', numbers', k, i)
  BY NumberIs DEF BlockAt, At
<1>3. <<k, i>> \in Inodes \X (0 .. INODE_BLOCK_LIMIT)
  BY DEF Kept
<1>. QED  BY <1>1, <1>2, <1>3 DEF Places

\* Places are pairs of an inode and a slot below INODE_BLOCK_LIMIT.
LEMMA PlacesAre ==
    /\ \A p \in Places : p[1] \in Inodes /\ p[2] \in Kept /\ p = <<p[1], p[2]>>
    /\ \A p \in Places' : p[1] \in Inodes /\ p[2] \in Kept /\ p = <<p[1], p[2]>>
BY DEF Places, Kept

\* OneOwner as a formula about pairs of slots.
LEMMA OwnedIs == OneOwner <=> Owned(i_block, numbers, block_bitmap, InHand)
<1>1. ASSUME OneOwner PROVE Owned(i_block, numbers, block_bitmap, InHand)
  <2>1. ASSUME NEW k \in Inodes, NEW l \in Inodes, NEW i \in Kept, NEW j \in Kept,
               At(i_block, numbers, k, i) # 0,
               At(i_block, numbers, k, i) = At(i_block, numbers, l, j)
        PROVE  k = l /\ i = j
    <3>1. <<k, i>> \in Places /\ <<l, j>> \in Places /\ BlockAt(<<k, i>>) = BlockAt(<<l, j>>)
      BY <2>1, PlaceIs
    <3>2. <<k, i>> = <<l, j>>
      BY <1>1, <3>1 DEF OneOwner
    <3>. QED  BY <3>2
  <2>2. ASSUME NEW k \in Inodes, NEW i \in Kept, At(i_block, numbers, k, i) # 0
        PROVE  At(i_block, numbers, k, i) \in block_bitmap \ InHand
    BY <1>1, <2>2, PlaceIs DEF OneOwner
  <2>. QED  BY <1>1, <2>1, <2>2 DEF OneOwner, Owned
<1>2. ASSUME Owned(i_block, numbers, block_bitmap, InHand) PROVE OneOwner
  <2>1. ASSUME NEW p \in Places, NEW q \in Places, BlockAt(p) = BlockAt(q)
        PROVE  p = q
    <3>1. p[1] = q[1] /\ p[2] = q[2]
      BY <1>2, <2>1, PlacesAre, PlaceIs DEF Owned
    <3>. QED  BY <3>1, PlacesAre
  <2>2. ASSUME NEW p \in Places PROVE BlockAt(p) \in block_bitmap \ InHand
    BY <1>2, PlacesAre, PlaceIs DEF Owned
  <2>. QED  BY <1>2, <2>1, <2>2 DEF OneOwner, Owned
<1>. QED  BY <1>1, <1>2

\* OneOwner after a step, from that formula.
LEMMA OwnedIsPrimed ==
    ASSUME Owned(i_block', numbers', block_bitmap', InHand') PROVE OneOwner'
<1>1. ASSUME NEW p \in Places', NEW q \in Places', BlockAt(p)' = BlockAt(q)'
      PROVE  p = q
  <2>1. p[1] = q[1] /\ p[2] = q[2]
    BY <1>1, PlacesAre, PlaceIs DEF Owned
  <2>. QED  BY <2>1, PlacesAre
<1>2. ASSUME NEW p \in Places' PROVE BlockAt(p)' \in block_bitmap' \ InHand'
  BY PlacesAre, PlaceIs DEF Owned
<1>. QED  BY <1>1, <1>2 DEF OneOwner, Owned

\* What a place holds is a block number or 0.
LEMMA AtType ==
    ASSUME NEW blks \in [Inodes -> [0 .. INDIRECT1_INDEX -> Numbers]],
           NEW nums \in [Blocks -> [Indices -> Numbers]],
           NEW k \in Inodes, NEW i \in Kept
    PROVE  At(blks, nums, k, i) \in Numbers
<1>1. CASE i = INODE_BLOCK_LIMIT
  <2>1. INDIRECT1_INDEX \in 0 .. INDIRECT1_INDEX
    BY Bounds
  <2>. QED  BY <1>1, <2>1 DEF At
<1>2. CASE i # INODE_BLOCK_LIMIT
  BY <1>2, KeptIs, NumberType DEF At
<1>. QED  BY <1>1, <1>2

BlkType == [Inodes -> [0 .. INDIRECT1_INDEX -> Numbers]]
NumType == [Blocks -> [Indices -> Numbers]]

\* The arrays nums hold the same as numbers wherever they are in use.
SameInUse(nums) ==
    \A j \in Inodes : i_block[j][INDIRECT1_INDEX] # 0 =>
        nums[i_block[j][INDIRECT1_INDEX]] = numbers[i_block[j][INDIRECT1_INDEX]]

\* set_inode_block_number leaves arrays of block numbers.
LEMMA SetType ==
    ASSUME NEW k \in Inodes, NEW f \in [Slots -> Numbers], NEW nums \in NumType,
           i_block \in BlkType, set_inode_block_number(k, f, nums)
    PROVE  i_block' \in BlkType /\ numbers' \in NumType
<1>. DEFINE indirect == i_block[k][INDIRECT1_INDEX]
            row == [i \in 0 .. INDIRECT1_INDEX |->
                      IF i = INDIRECT1_INDEX THEN indirect ELSE f[i]]
            arr == [j \in Indices |-> f[INDIRECT1_INDEX + j]]
<1>1. indirect \in Numbers
  BY Bounds DEF BlkType
<1>2. row \in [0 .. INDIRECT1_INDEX -> Numbers]
  <2>1. \A i \in 0 .. INDIRECT1_INDEX : i # INDIRECT1_INDEX => i \in Slots
    BY Bounds DEF Slots
  <2>. QED  BY <1>1, <2>1
<1>3. arr \in [Indices -> Numbers]
  BY KeptIs
<1>4. i_block' = [i_block EXCEPT ![k] = row]
  BY DEF set_inode_block_number
<1>5. numbers' = IF indirect = 0 THEN nums ELSE [nums EXCEPT ![indirect] = arr]
  BY DEF set_inode_block_number
<1>6. i_block' \in BlkType
  <2>. HIDE DEF row
  <2>. QED  BY <1>2, <1>4 DEF BlkType
<1>7. numbers' \in NumType
  <2>. HIDE DEF arr, indirect
  <2>. QED  BY <1>1, <1>3, <1>5 DEF NumType, Numbers
<1>. QED  BY <1>6, <1>7

\* set_inode_block_number changes the slots of one inode and no other place.
LEMMA SetEffect ==
    ASSUME NEW k \in Inodes, NEW f \in [Slots -> Numbers], NEW nums \in NumType,
           i_block \in BlkType, numbers \in NumType, SameInUse(nums), OneOwner,
           set_inode_block_number(k, f, nums),
           NEW j \in Inodes, NEW i \in Kept
    PROVE  At(i_block', numbers', j, i) =
              IF j = k /\ i \in Slots
              THEN IF i < INDIRECT1_INDEX \/ i_block[k][INDIRECT1_INDEX] # 0
                   THEN f[i] ELSE 0
              ELSE At(i_block, numbers, j, i)
<1>. DEFINE Ind(l) == i_block[l][INDIRECT1_INDEX]
            row == [m \in 0 .. INDIRECT1_INDEX |->
                      IF m = INDIRECT1_INDEX THEN Ind(k) ELSE f[m]]
            arr == [m \in Indices |-> f[INDIRECT1_INDEX + m]]
<1>1. \A l \in Inodes : Ind(l) \in Numbers
  BY Bounds DEF BlkType
<1>2. i_block' = [i_block EXCEPT ![k] = row]
  BY DEF set_inode_block_number
<1>3. numbers' = IF Ind(k) = 0 THEN nums ELSE [nums EXCEPT ![Ind(k)] = arr]
  BY DEF set_inode_block_number
<1>4. i_block'[k] = row /\ \A l \in Inodes : l # k => i_block'[l] = i_block[l]
  <2>. HIDE DEF row
  <2>. QED  BY <1>2 DEF BlkType
<1>5. \A l \in Inodes : i_block'[l][INDIRECT1_INDEX] = Ind(l)
  BY <1>4, Bounds
<1>6. \A m \in 0 .. INDIRECT1_INDEX : m < INDIRECT1_INDEX => row[m] = f[m]
  BY Bounds
<1>7. Ind(k) # 0 => numbers'[Ind(k)] = arr
  <2>. HIDE DEF arr, Ind
  <2>. QED  BY <1>1, <1>3 DEF NumType, Numbers
<1>8. \A m \in Slots : ~(m < INDIRECT1_INDEX) => arr[m - INDIRECT1_INDEX] = f[m]
  BY KeptIs, Bounds
<1>9. \A l \in Inodes : l # k /\ Ind(l) # 0 => Ind(l) # Ind(k) /\ numbers'[Ind(l)] = numbers[Ind(l)]
  <2>1. SUFFICES ASSUME NEW l \in Inodes, l # k, Ind(l) # 0
                 PROVE  Ind(l) # Ind(k) /\ numbers'[Ind(l)] = numbers[Ind(l)]
    OBVIOUS
  <2>2. Owned(i_block, numbers, block_bitmap, InHand)
    BY OwnedIs
  <2>3. Ind(l) # Ind(k)
    BY <2>1, <2>2, KeptIs DEF Owned, At
  <2>4. Ind(l) \in Blocks /\ nums[Ind(l)] = numbers[Ind(l)]
    BY <1>1, <2>1 DEF SameInUse, Numbers
  <2>5. numbers'[Ind(l)] = nums[Ind(l)]
    <3>. HIDE DEF arr, Ind
    <3>. QED  BY <1>1, <1>3, <2>3, <2>4 DEF NumType, Numbers
  <2>. QED  BY <2>3, <2>4, <2>5
<1>. HIDE DEF row, arr
<1>10. CASE i = INODE_BLOCK_LIMIT
  BY <1>10, <1>5, KeptIs DEF At
<1>11. CASE i # INODE_BLOCK_LIMIT /\ j = k
  <2>1. i \in Slots
    BY <1>11, KeptIs
  <2>2. CASE i < INDIRECT1_INDEX
    <3>1. i \in 0 .. INDIRECT1_INDEX
      BY <2>1, <2>2, Bounds DEF Slots
    <3>. QED  BY <1>4, <1>6, <1>11, <2>1, <2>2, <3>1 DEF At, NumberIn
  <2>3. CASE ~(i < INDIRECT1_INDEX)
    BY <1>5, <1>7, <1>8, <1>11, <2>1, <2>3 DEF At, NumberIn
  <2>. QED  BY <2>2, <2>3
<1>12. CASE i # INODE_BLOCK_LIMIT /\ j # k
  BY <1>4, <1>5, <1>9, <1>12 DEF At, NumberIn
<1>. QED  BY <1>10, <1>11, <1>12

-----------------------------------------------------------------------------
(* Taking and giving back blocks *)

\* The scan for free blocks answers as many as asked for, all different.
LEMMA FirstFreeFacts ==
    ASSUME NEW n \in Nat, NEW s \in FirstFree(n)
    PROVE  /\ s \in Seq(Blocks) /\ Len(s) = n /\ DOMAIN s = 1 .. n
           /\ \A i \in 1 .. n : s[i] \in Blocks /\ s[i] \notin block_bitmap
           /\ \A i, j \in 1 .. n : s[i] = s[j] => i = j
<1>1. s \in [1 .. n -> FreeBlocks] /\ \A i, j \in 1 .. n : i < j => s[i] < s[j]
  BY DEF FirstFree
<1>2. DOMAIN s = 1 .. n /\ \A i \in 1 .. n : s[i] \in Blocks /\ s[i] \notin block_bitmap
  BY <1>1 DEF FreeBlocks, get_bitmap_val
<1>3. s \in [1 .. n -> Blocks]
  BY <1>1, <1>2
<1>4. s \in Seq(Blocks) /\ Len(s) = n
  BY <1>3
<1>5. \A i, j \in 1 .. n : s[i] = s[j] => i = j
  <2>1. SUFFICES ASSUME NEW i \in 1 .. n, NEW j \in 1 .. n, s[i] = s[j] PROVE i = j
    OBVIOUS
  <2>2. s[i] \in Nat /\ s[j] \in Nat
    BY <1>2, Ext2Assumption
  <2>3. ~(i < j) /\ ~(j < i)
    BY <1>1, <2>1, <2>2
  <2>. QED  BY <2>3
<1>. QED  BY <1>2, <1>4, <1>5

Elements(s) == {s[i] : i \in DOMAIN s}

\* A sequence of different values has as many as it is long.
LEMMA ElementCount ==
    ASSUME NEW n \in Nat, NEW s, DOMAIN s = 1 .. n, IsFcn(s),
           \A i, j \in 1 .. n : s[i] = s[j] => i = j
    PROVE  IsFiniteSet(Elements(s)) /\ Cardinality(Elements(s)) = n
<1>1. s \in [1 .. n -> Elements(s)]
  BY DEF Elements, IsFcn
<1>2. s \in Bijection(1 .. n, Elements(s))
  BY <1>1 DEF Bijection, Injection, Surjection, IsInjective, Elements
<1>3. ExistsBijection(1 .. n, Elements(s))
  BY <1>2 DEF ExistsBijection
<1>4. IsFiniteSet(Elements(s))
  BY <1>3, FS_NatBijection
<1>. QED  BY <1>3, <1>4, FS_CountingElements

\* MarkUsed keeps the counter and the bitmap in step.
LEMMA MarkCount ==
    ASSUME NEW n \in Nat, NEW s \in FirstFree(n), MarkUsed(s), CountsAgree,
           free_blocks_count \in Nat, n <= free_blocks_count, block_bitmap \subseteq Blocks
    PROVE  /\ block_bitmap' = block_bitmap \cup Elements(s)
           /\ block_bitmap' \subseteq Blocks
           /\ free_blocks_count' \in Nat
           /\ CountsAgree'
<1>1. /\ s \in Seq(Blocks) /\ Len(s) = n /\ DOMAIN s = 1 .. n
      /\ \A i \in 1 .. n : s[i] \in Blocks /\ s[i] \notin block_bitmap
      /\ \A i, j \in 1 .. n : s[i] = s[j] => i = j
  BY FirstFreeFacts
<1>2. block_bitmap' = block_bitmap \cup Elements(s)
  BY DEF MarkUsed, set_bitmap_val, Elements
<1>3. free_blocks_count' = free_blocks_count - n
  BY <1>1 DEF MarkUsed
<1>4. IsFcn(s)
  BY <1>1 DEF IsFcn
<1>5. Cardinality(Elements(s)) = n
  BY <1>1, <1>4, ElementCount
<1>6. Elements(s) \subseteq Blocks \ block_bitmap
  BY <1>1 DEF Elements
<1>7. IsFiniteSet(Blocks \ block_bitmap)
  BY Ext2Assumption, FS_Difference
<1>8. (Blocks \ block_bitmap) \cap Elements(s) = Elements(s)
      /\ Blocks \ block_bitmap' = (Blocks \ block_bitmap) \ Elements(s)
  BY <1>2, <1>6
<1>9. Cardinality((Blocks \ block_bitmap) \ Elements(s)) =
          Cardinality(Blocks \ block_bitmap) - Cardinality((Blocks \ block_bitmap) \cap Elements(s))
  BY <1>7, FS_Difference
<1>10. CountsAgree'
  BY <1>3, <1>5, <1>8, <1>9 DEF CountsAgree
<1>. QED  BY <1>2, <1>3, <1>6, <1>10

\* So does clearing bits that are set.
LEMMA ReleaseCount ==
    ASSUME NEW T, T \subseteq block_bitmap, CountsAgree, block_bitmap \subseteq Blocks,
           free_blocks_count \in Nat, IsFiniteSet(T),
           block_bitmap' = set_bitmap_val(block_bitmap, T, FALSE),
           free_blocks_count' = free_blocks_count + Cardinality(T)
    PROVE  /\ block_bitmap' = block_bitmap \ T
           /\ free_blocks_count' \in Nat
           /\ CountsAgree'
<1>1. block_bitmap' = block_bitmap \ T
  BY DEF set_bitmap_val
<1>2. Blocks \ block_bitmap' = (Blocks \ block_bitmap) \cup T
  BY <1>1
<1>3. (Blocks \ block_bitmap) \cap T = {}
  OBVIOUS
<1>4. IsFiniteSet(Blocks \ block_bitmap)
  BY Ext2Assumption, FS_Difference
<1>5. Cardinality((Blocks \ block_bitmap) \cup T) =
          Cardinality(Blocks \ block_bitmap) + Cardinality(T)
              - Cardinality((Blocks \ block_bitmap) \cap T)
  BY <1>4, FS_Union
<1>6. Cardinality(T) \in Nat /\ Cardinality({}) = 0
  BY FS_CardinalityType, FS_EmptySet
<1>7. Cardinality(Blocks \ block_bitmap') = Cardinality(Blocks \ block_bitmap) + Cardinality(T)
  <2>. DEFINE free == Cardinality(Blocks \ block_bitmap)
              freed == Cardinality(T)
              now == Cardinality(Blocks \ block_bitmap')
  <2>1. now = free + freed - 0 /\ free \in Nat /\ freed \in Nat
    BY <1>2, <1>3, <1>5, <1>6 DEF CountsAgree
  <2>. HIDE DEF free, freed, now
  <2>2. now = free + freed
    BY <2>1
  <2>. QED  BY <2>2 DEF free, freed, now
<1>8. CountsAgree'
  BY <1>7 DEF CountsAgree
<1>9. free_blocks_count' \in Nat
  BY <1>6
<1>. QED  BY <1>1, <1>8, <1>9

-----------------------------------------------------------------------------
(* The inductive invariant *)

Steps ==
    {"idle", "blocks", "parent", "inode", "path", "dot", "dotdot", "entry",
     "count", "write", "unlink", "drop", "free", "undo", "ok", "exit"}

\* Different elements.
Distinct(s) == \A i, j \in DOMAIN s : s[i] = s[j] => i = j

\* Which command a step belongs to and what it finds in its local variables.
Control ==
    /\ pc \in Steps
    /\ pc \in {"blocks", "parent", "write"} => cmd.op = "cp"
    /\ pc = "inode" => cmd.op \in {"cp", "mkdir", "ln_s"}
    /\ pc = "path" => cmd.op = "ln_s"
    /\ pc \in {"dot", "dotdot"} => cmd.op = "mkdir"
    /\ pc = "entry" => cmd.op \in {"cp", "ln", "ln_s", "mkdir"}
    /\ pc = "undo" => cmd.op \in {"ln_s", "mkdir"}
    /\ pc = "count" => cmd.op = "ln"
    /\ pc \in {"unlink", "drop", "free"} => cmd.op = "rm"
    /\ pc \in {"blocks", "parent", "inode", "path", "dot", "dotdot", "entry", "unlink"}
          => cmd.comps # <<>>
    /\ pc \in {"blocks", "parent", "inode", "path", "dot", "dotdot", "entry"}
          => cmd.type \in FileTypes
    /\ pc \in {"inode", "path", "dot", "dotdot", "entry", "unlink"}
          => cmd.parent \in Inodes
    /\ pc \in {"path", "dot", "dotdot", "entry", "count", "write", "unlink",
               "drop", "free", "undo"}
          => cmd.inode \in Inodes
    /\ pc \in {"blocks", "parent"} /\ cmd.exists => cmd.inode \in Inodes
    /\ pc \in {"blocks", "parent", "inode", "path", "dot", "dotdot", "entry", "write"}
          => cmd.readable <= cmd.size
    /\ pc \in {"parent", "inode", "entry", "write"} /\ cmd.op = "cp"
          => Len(cmd.blocks) = cmd.size /\ Distinct(cmd.blocks)
    /\ pc \in {"inode", "path", "dot", "dotdot", "entry"} /\ cmd.op # "cp"
          => cmd.blocks = <<>>
    /\ pc = "unlink" => HasName(cmd.parent, listPeek(cmd.comps))
    /\ pc = "path" => Held(cmd.inode) = {}

\* The blocks in hand are read as no directory yet.
Blank == \A b \in InHand : dirents[b] = EmptyBlock

\* No block of an inode is read as a directory and as a file.
Apart ==
    \A k \in Inodes : \A i \in Held(k) :
        DOMAIN dirents[get_inode_block_number(k, i)] # {}
            => data[get_inode_block_number(k, i)].kind = "zero"

IInv == Typed /\ Control /\ OneOwner /\ CountsAgree /\ AllTiled /\ Blank /\ Apart

DiskOK ==
    /\ block_bitmap \subseteq Blocks /\ inode_bitmap \subseteq Inodes
    /\ free_blocks_count \in Nat /\ free_inodes_count \in Nat
    /\ i_links_count \in [Inodes -> 0 .. USHRT_MAX]
    /\ i_block \in BlkType
    /\ numbers \in NumType
    /\ IsFcn(dirents) /\ DOMAIN dirents = Blocks
    /\ \A b \in Blocks : IsChain(dirents[b], Inodes)
    /\ data \in [Blocks -> Contents]

\* Typed is the type of the disk and the type of the running command.
LEMMA TypedIs ==
    /\ Typed <=> DiskOK /\ cmd \in Locals /\ commands \in 0 .. MaxCommands
    /\ DiskOK' /\ cmd' \in Locals /\ commands' \in 0 .. MaxCommands => Typed'
BY DEF Typed, DiskOK, BlkType, NumType

\* A block an inode may hold.
Good(block, content) ==
    Tiles(block) /\ (DOMAIN block # {} => content.kind = "zero")

\* AllTiled and Apart as one formula about the slots, before and after a step.
LEMMA GoodIs ==
    /\ AllTiled /\ Apart => \A k \in Inodes : \A i \in Slots :
          At(i_block, numbers, k, i) # 0 =>
              Good(dirents[At(i_block, numbers, k, i)], data[At(i_block, numbers, k, i)])
    /\ (\A k \in Inodes : \A i \in Slots :
          At(i_block', numbers', k, i) # 0 =>
              Good(dirents'[At(i_block', numbers', k, i)], data'[At(i_block', numbers', k, i)]))
       => AllTiled' /\ Apart'
<1>1. \A k \in Inodes : \A i \in Slots :
        /\ get_inode_block_number(k, i) = At(i_block, numbers, k, i)
        /\ get_inode_block_number(k, i)' = At(i_block', numbers', k, i)
  BY KeptIs, NumberIs DEF At
<1>. QED  BY <1>1 DEF AllTiled, Apart, Good, Held

\* Every place holds what it held before.
Unmoved ==
    \A j \in Inodes : \A i \in Kept :
        At(i_block', numbers', j, i) = At(i_block, numbers, j, i)

\* The slots of inode k hold f, as far as they can be set.
Moved(k, f) ==
    \A j \in Inodes : \A i \in Kept :
        At(i_block', numbers', j, i) =
            IF j = k /\ i \in Slots
            THEN IF i < INDIRECT1_INDEX \/ i_block[k][INDIRECT1_INDEX] # 0
                 THEN f[i] ELSE 0
            ELSE At(i_block, numbers, j, i)

\* Nothing moves while i_block and the indirect blocks in use stay.
LEMMA UnmovedIs ==
    ASSUME DiskOK, i_block' = i_block, SameInUse(numbers')
    PROVE  Unmoved
BY DEF Unmoved, At, NumberIn, SameInUse

\* Places are as they were; the blocks in them are still good.
LEMMA UnmovedStep ==
    ASSUME IInv, Unmoved, InHand' \subseteq block_bitmap',
           \A j \in Inodes : \A i \in Kept : LET b == At(i_block, numbers, j, i) IN
               b # 0 => /\ b \in block_bitmap' \ InHand'
                        /\ i \in Slots => Good(dirents'[b], data'[b])
    PROVE  OneOwner' /\ AllTiled' /\ Apart'
<1>1. Owned(i_block, numbers, block_bitmap, InHand)
  BY OwnedIs DEF IInv
<1>2. Owned(i_block', numbers', block_bitmap', InHand')
  BY <1>1 DEF Owned, Unmoved
<1>3. OneOwner'
  BY <1>2, OwnedIsPrimed
<1>4. \A k \in Inodes : \A i \in Slots : At(i_block', numbers', k, i) # 0 =>
          Good(dirents'[At(i_block', numbers', k, i)], data'[At(i_block', numbers', k, i)])
  BY KeptIs DEF Unmoved
<1>. QED  BY <1>3, <1>4, GoodIs

\* Slots hold the numbers they held, or different fresh ones.
FreshSlots(k, f, fresh) ==
    /\ \A i \in Slots : f[i] # 0 => f[i] = At(i_block, numbers, k, i) \/ f[i] \in fresh
    /\ \A i, j \in Slots : f[i] # 0 /\ f[i] = f[j] => i = j

\* The slots of one inode have changed; the blocks in all places are good.
LEMMA MovedStep ==
    ASSUME IInv, NEW k \in Inodes, NEW f, Moved(k, f), NEW fresh,
           FreshSlots(k, f, fresh),
           \A j \in Inodes : \A i \in Kept : At(i_block, numbers, j, i) \notin fresh,
           InHand' \subseteq block_bitmap',
           \A j \in Inodes : \A i \in Kept : LET b == At(i_block, numbers, j, i) IN
               b # 0 /\ ~(j = k /\ i \in Slots) =>
                   /\ b \in block_bitmap' \ InHand'
                   /\ i \in Slots => Good(dirents'[b], data'[b]),
           \A i \in Slots :
               f[i] # 0 => /\ f[i] \in block_bitmap' \ InHand'
                           /\ Good(dirents'[f[i]], data'[f[i]])
    PROVE  OneOwner' /\ AllTiled' /\ Apart'
<1>. DEFINE A(j, i) == At(i_block, numbers, j, i)
            B(j, i) == At(i_block', numbers', j, i)
<1>1. Owned(i_block, numbers, block_bitmap, InHand)
  BY OwnedIs DEF IInv
<1>2. \A j \in Inodes : \A i \in Kept : ~(j = k /\ i \in Slots) => B(j, i) = A(j, i)
  BY DEF Moved
<1>3. \A i \in Slots : B(k, i) # 0 => B(k, i) = f[i]
  BY KeptIs DEF Moved
<1>. HIDE DEF A, B
<1>4. ASSUME NEW j \in Inodes, NEW l \in Inodes, NEW i \in Kept, NEW m \in Kept,
             B(j, i) # 0, B(j, i) = B(l, m)
      PROVE  j = l /\ i = m
  <2>1. CASE ~(j = k /\ i \in Slots) /\ ~(l = k /\ m \in Slots)
    BY <1>1, <1>2, <1>4, <2>1 DEF Owned, A
  <2>2. CASE (j = k /\ i \in Slots) /\ (l = k /\ m \in Slots)
    BY <1>3, <1>4, <2>2 DEF FreshSlots
  <2>3. CASE (j = k /\ i \in Slots) /\ ~(l = k /\ m \in Slots)
    <3>1. B(j, i) = f[i] /\ B(l, m) = A(l, m) /\ f[i] # 0 /\ f[i] = A(l, m)
      BY <1>2, <1>3, <1>4, <2>3
    <3>2. f[i] = A(k, i)
      BY <2>3, <3>1 DEF FreshSlots, A
    <3>3. A(k, i) # 0 /\ A(k, i) = A(l, m)
      BY <3>1, <3>2
    <3>4. k = l /\ i = m
      BY <1>1, <3>3 DEF Owned, A
    <3>. QED  BY <2>3, <3>4
  <2>4. CASE ~(j = k /\ i \in Slots) /\ (l = k /\ m \in Slots)
    <3>1. B(j, i) = A(j, i) /\ B(l, m) = f[m] /\ f[m] # 0 /\ f[m] = A(j, i)
      BY <1>2, <1>3, <1>4, <2>4
    <3>2. f[m] = A(k, m)
      BY <2>4, <3>1 DEF FreshSlots, A
    <3>3. A(k, m) # 0 /\ A(k, m) = A(j, i)
      BY <3>1, <3>2
    <3>4. k = j /\ m = i
      BY <1>1, <3>3 DEF Owned, A
    <3>. QED  BY <2>4, <3>4
  <2>. QED  BY <2>1, <2>2, <2>3, <2>4
<1>5. ASSUME NEW j \in Inodes, NEW i \in Kept, B(j, i) # 0
      PROVE  /\ B(j, i) \in block_bitmap' \ InHand'
             /\ i \in Slots => Good(dirents'[B(j, i)], data'[B(j, i)])
  <2>1. CASE j = k /\ i \in Slots
    BY <1>3, <1>5, <2>1
  <2>2. CASE ~(j = k /\ i \in Slots)
    BY <1>2, <1>5, <2>2 DEF A
  <2>. QED  BY <2>1, <2>2
<1>6. Owned(i_block', numbers', block_bitmap', InHand')
  BY <1>4, <1>5 DEF Owned, B
<1>7. OneOwner'
  BY <1>6, OwnedIsPrimed
<1>. QED  BY <1>5, <1>7, GoodIs, KeptIs DEF B

-----------------------------------------------------------------------------
(* Steps that write nothing *)

\* Nothing is in hand at most steps, and never in a command without blocks.
LEMMA HandIs ==
    /\ pc \notin {"parent", "inode", "entry", "write"} \/ cmd.blocks = <<>> => InHand = {}
    /\ pc \in {"parent", "inode", "entry", "write"} => InHand = Elements(cmd.blocks)
    /\ pc' \notin {"parent", "inode", "entry", "write"} \/ cmd'.blocks = <<>> => InHand' = {}
    /\ pc' \in {"parent", "inode", "entry", "write"} => InHand' = Elements(cmd'.blocks)
BY DEF InHand, Elements

\* What a step that writes to no block, and moves none, keeps.
LEMMA BlocksFrame ==
    ASSUME IInv, block_bitmap' = block_bitmap, free_blocks_count' = free_blocks_count,
           i_block' = i_block, UNCHANGED blockVars, InHand' \subseteq InHand
    PROVE  OneOwner' /\ CountsAgree' /\ AllTiled' /\ Blank' /\ Apart'
<1>1. dirents' = dirents /\ numbers' = numbers /\ data' = data
  BY DEF blockVars
<1>2. Unmoved
  BY <1>1 DEF Unmoved
<1>3. Owned(i_block, numbers, block_bitmap, InHand)
  BY OwnedIs DEF IInv
<1>4. InHand' \subseteq block_bitmap'
  BY <1>3 DEF Owned
<1>5. \A j \in Inodes : \A i \in Kept : LET b == At(i_block, numbers, j, i) IN
          b # 0 => /\ b \in block_bitmap' \ InHand'
                   /\ i \in Slots => Good(dirents'[b], data'[b])
  <2>1. \A j \in Inodes : \A i \in Kept : LET b == At(i_block, numbers, j, i) IN
            b # 0 => b \in block_bitmap' \ InHand'
    BY <1>3 DEF Owned
  <2>2. \A j \in Inodes : \A i \in Slots : LET b == At(i_block, numbers, j, i) IN
            b # 0 => Good(dirents'[b], data'[b])
    BY <1>1, GoodIs DEF IInv
  <2>. QED  BY <2>1, <2>2
<1>6. OneOwner' /\ AllTiled' /\ Apart'
  BY <1>2, <1>4, <1>5, UnmovedStep
<1>7. CountsAgree'
  BY DEF IInv, CountsAgree
<1>8. Blank'
  BY <1>1 DEF IInv, Blank
<1>. QED  BY <1>6, <1>7, <1>8

\* What a step that writes nothing to the image keeps.
LEMMA DiskFrame ==
    ASSUME IInv, UNCHANGED diskVars, InHand' \subseteq InHand
    PROVE  DiskOK' /\ OneOwner' /\ CountsAgree' /\ AllTiled' /\ Blank' /\ Apart'
<1>1. /\ block_bitmap' = block_bitmap /\ inode_bitmap' = inode_bitmap
      /\ free_blocks_count' = free_blocks_count
      /\ free_inodes_count' = free_inodes_count
      /\ i_links_count' = i_links_count /\ i_block' = i_block
      /\ dirents' = dirents /\ numbers' = numbers /\ data' = data
  BY DEF diskVars, bitmapVars, inodeVars, blockVars
<1>2. DiskOK
  BY TypedIs DEF IInv
<1>3. DiskOK'
  BY <1>1, <1>2 DEF DiskOK
<1>4. UNCHANGED blockVars
  BY <1>1 DEF blockVars
<1>. QED  BY <1>1, <1>3, <1>4, BlocksFrame

\* A path in the image as a list.
LEMMA SplitFacts ==
    ASSUME NEW path \in Seq(Names)
    PROVE  split_path(path) \in Seq(Names) /\ split_path(path) # <<>>
<1>1. <<".">> \in Seq(Names) /\ Len(<<".">>) = 1
  BY BlockAssumption
<1>2. Len(path) \in Nat
  OBVIOUS
<1>3. split_path(path) \in Seq(Names) /\ Len(split_path(path)) = 1 + Len(path)
  BY <1>1, ConcatProperties DEF split_path
<1>. QED  BY <1>2, <1>3

\* The entries and names a command has looked up.
LEMMA FoundFacts ==
    ASSUME Typed, NEW c \in Seq(Names)
    PROVE  /\ traverse_path(c) # NULL =>
                 /\ traverse_path(c).inode \in Inodes
                 /\ traverse_path(c).file_type \in FileTypes
           /\ traverse_path(c).inode \in Inodes \cup {0}
<1>1. traverse_path(c) \in Found \cup {NULL}
  BY TraverseType
<1>2. NULL.inode = 0
  BY DEF NULL
<1>. QED  BY <1>1, <1>2 DEF Found

\* The idle state has the type of a command.
LEMMA NoCommandType == NoCommand \in Locals
BY DEF NoCommand, Locals

\* Fail: the command stops with its writes in place.
LEMMA FailStep == IInv /\ Fail => IInv'
<1>. SUFFICES ASSUME IInv, Fail PROVE IInv'
  OBVIOUS
<1>1. UNCHANGED diskVars /\ pc' = "exit" /\ cmd' = cmd /\ commands' = commands
  BY DEF Fail
<1>2. InHand' \subseteq InHand
  BY <1>1, HandIs
<1>3. Typed'
  BY <1>1, <1>2, DiskFrame, TypedIs DEF IInv
<1>4. Control'
  BY <1>1 DEF Control, Steps
<1>. QED  BY <1>1, <1>2, <1>3, <1>4, DiskFrame DEF IInv

\* A command that is refused.
LEMMA RefusedStep == IInv /\ Asked /\ Refused => IInv'
<1>. SUFFICES ASSUME IInv, Asked, Refused PROVE IInv'
  OBVIOUS
<1>1. UNCHANGED diskVars /\ pc' = "exit" /\ cmd' = NoCommand
      /\ commands' \in 0 .. MaxCommands
  BY Ext2Assumption DEF Asked, Given, diskVars, blockVars, Refused, IInv, Typed
<1>2. InHand' \subseteq InHand
  BY <1>1, HandIs
<1>3. Typed'
  BY <1>1, <1>2, DiskFrame, TypedIs, NoCommandType DEF IInv
<1>4. Control'
  BY <1>1 DEF Control, Steps
<1>. QED  BY <1>1, <1>2, <1>3, <1>4, DiskFrame DEF IInv

\* The process ends.
LEMMA ReturnStep == IInv /\ Return => IInv'
<1>. SUFFICES ASSUME IInv, Return PROVE IInv'
  OBVIOUS
<1>1. UNCHANGED diskVars /\ pc' = "idle" /\ cmd' = NoCommand /\ commands' = commands
  BY DEF Return
<1>2. InHand' \subseteq InHand
  BY <1>1, HandIs
<1>3. Typed'
  BY <1>1, <1>2, DiskFrame, TypedIs, NoCommandType DEF IInv
<1>4. Control'
  BY <1>1 DEF Control, Steps
<1>. QED  BY <1>1, <1>2, <1>3, <1>4, DiskFrame DEF IInv

-----------------------------------------------------------------------------
(* The commands, up to their first write *)

\* A command that goes on has written nothing yet.
LEMMA GivenStep ==
    ASSUME IInv, Asked, cmd' \in Locals, cmd'.blocks = <<>>, Control'
    PROVE  IInv'
<1>1. UNCHANGED diskVars /\ commands' \in 0 .. MaxCommands
  BY Ext2Assumption DEF Asked, Given, diskVars, blockVars, IInv, Typed
<1>2. InHand' \subseteq InHand
  BY HandIs
<1>3. Typed'
  BY <1>1, <1>2, DiskFrame, TypedIs
<1>. QED  BY <1>1, <1>2, <1>3, DiskFrame DEF IInv

\* ext2_cp's path checks, from the prompt to the allocation of the inode.
LEMMA CpStep ==
    ASSUME IInv, NEW src \in DOMAIN HostFiles, NEW dest \in Paths, ext2_cp(src, dest),
           dirents' = dirents
    PROVE  IInv'
<1>. DEFINE given == split_path(dest)
            comps == IF is_directory(traverse_path(given))
                     THEN listAppend(given, listPeek(split_path(src))) ELSE given
            entry == traverse_path(comps)
<1>1. src \in Seq(Names) /\ dest \in Seq(Names)
  BY Ext2Assumption
<1>2. given \in Seq(Names) /\ given # <<>>
  BY <1>1, SplitFacts
<1>3. listPeek(split_path(src)) \in Names
  BY <1>1, SplitFacts, PopFacts
<1>4. comps \in Seq(Names) /\ comps # <<>>
  <2>. HIDE DEF given
  <2>. QED  BY <1>2, <1>3, AppendProperties DEF listAppend
<1>5. Asked /\ (Refused \/ \E file \in fopen(src) :
                 /\ cmd' = [NoCommand EXCEPT
                              !.op = "cp", !.comps = comps, !.src = src,
                              !.size = file[1], !.readable = file[2],
                              !.type = "file", !.inode = entry.inode,
                              !.exists = (entry # NULL)]
                 /\ pc' = "blocks")
  BY DEF ext2_cp, Asked
<1>. HIDE DEF comps
<1>6. entry.inode \in Inodes \cup {0} /\ (entry # NULL => entry.inode \in Inodes)
  BY <1>4, FoundFacts DEF IInv
<1>. HIDE DEF entry
<1>7. CASE Refused
  BY <1>5, <1>7, RefusedStep
<1>8. ASSUME NEW file \in fopen(src),
             cmd' = [NoCommand EXCEPT
                              !.op = "cp", !.comps = comps, !.src = src,
                              !.size = file[1], !.readable = file[2],
                              !.type = "file", !.inode = entry.inode,
                              !.exists = (entry # NULL)],
             pc' = "blocks"
      PROVE  IInv'
  <2>1. file[1] \in Nat /\ file[2] \in Nat /\ file[2] <= file[1]
    BY Ext2Assumption DEF fopen
  <2>2. cmd' = [op |-> "cp", comps |-> comps, src |-> src, parent |-> 0,
                inode |-> entry.inode, type |-> "file", blocks |-> <<>>,
                size |-> file[1], readable |-> file[2], exists |-> (entry # NULL),
                made |-> FALSE]
    BY <1>8 DEF NoCommand
  <2>3. cmd' \in Locals
    BY <1>1, <1>4, <1>6, <2>1, <2>2 DEF Locals, FileTypes
  <2>4. cmd'.blocks = <<>>
    BY <2>2
  <2>5. Control'
    BY <1>4, <1>6, <1>8, <2>1, <2>2 DEF Control, Steps, FileTypes
  <2>. QED  BY <1>5, <2>3, <2>4, <2>5, GivenStep
<1>. QED  BY <1>5, <1>7, <1>8

\* ext2_ln's path checks, for a hard and a symbolic link.
LEMMA LnStep ==
    ASSUME IInv, NEW src \in Paths, NEW dest \in Paths, NEW sym \in BOOLEAN,
           ext2_ln(src, dest, sym), ~strayed'
    PROVE  IInv'
<1>. DEFINE comps  == split_path(dest)
            source == traverse_path(split_path(src))
            parent == traverse_path(listPop(comps))
            abort  == \/ source = NULL \/ is_directory(source)
                      \/ traverse_path(comps) # NULL
                      \/ parent = NULL
            link   == [NoCommand EXCEPT !.comps = comps, !.src = src,
                                        !.parent = parent.inode]
<1>1. src \in Seq(Names) /\ dest \in Seq(Names)
  BY Ext2Assumption
<1>2. comps \in Seq(Names) /\ comps # <<>> /\ split_path(src) \in Seq(Names)
  BY <1>1, SplitFacts
<1>3. Asked /\ \/ abort /\ Refused
               \/ /\ ~abort /\ sym
                  /\ cmd' = [link EXCEPT !.op = "ln_s", !.type = "symlink"]
                  /\ pc' = "inode"
               \/ /\ ~abort /\ ~sym
                  /\ cmd' = [link EXCEPT !.op = "ln", !.type = "file",
                                         !.inode = source.inode]
                  /\ pc' = "entry"
  BY NotTaken DEF ext2_ln, Asked
<1>4. parent # NULL => parent.inode \in Inodes
  BY <1>2, FoundFacts, PopFacts DEF IInv
<1>5. source # NULL => source.inode \in Inodes
  BY <1>2, FoundFacts DEF IInv
<1>. HIDE DEF comps, source, parent
<1>6. CASE Refused
  BY <1>3, <1>6, RefusedStep
<1>7. ASSUME ~abort, cmd' = [link EXCEPT !.op = "ln_s", !.type = "symlink"], pc' = "inode"
      PROVE  IInv'
  <2>. DEFINE dir == parent.inode
  <2>1. cmd' = [op |-> "ln_s", comps |-> comps, src |-> src,
                parent |-> dir, inode |-> 0, type |-> "symlink",
                blocks |-> <<>>, size |-> 0, readable |-> 0, exists |-> FALSE,
                made |-> FALSE]
    BY <1>7 DEF NoCommand
  <2>5. dir \in Inodes
    BY <1>4, <1>7
  <2>. HIDE DEF dir
  <2>2. cmd' \in Locals
    BY <1>1, <1>2, <2>1, <2>5 DEF Locals, FileTypes
  <2>3. cmd'.blocks = <<>>
    BY <2>1
  <2>9. /\ cmd'.op = "ln_s" /\ cmd'.comps = comps /\ cmd'.parent = dir
        /\ cmd'.inode = 0 /\ cmd'.type = "symlink" /\ cmd'.blocks = <<>>
        /\ cmd'.size = 0 /\ cmd'.readable = 0
    BY <2>1
  <2>10. pc' = "inode"
    BY <1>7
  <2>4. Control'
    BY <1>2, <2>5, <2>9, <2>10 DEF Control, Steps, FileTypes
  <2>. QED  BY <1>3, <2>2, <2>3, <2>4, GivenStep
<1>8. ASSUME ~abort, cmd' = [link EXCEPT !.op = "ln", !.type = "file",
                                         !.inode = source.inode], pc' = "entry"
      PROVE  IInv'
  <2>. DEFINE dir == parent.inode
              file == source.inode
  <2>1. cmd' = [op |-> "ln", comps |-> comps, src |-> src,
                parent |-> dir, inode |-> file, type |-> "file",
                blocks |-> <<>>, size |-> 0, readable |-> 0, exists |-> FALSE,
                made |-> FALSE]
    BY <1>8 DEF NoCommand
  <2>5. dir \in Inodes /\ file \in Inodes
    BY <1>4, <1>5, <1>8
  <2>. HIDE DEF dir, file
  <2>2. cmd' \in Locals
    BY <1>1, <1>2, <2>1, <2>5 DEF Locals, FileTypes
  <2>3. cmd'.blocks = <<>>
    BY <2>1
  <2>9. /\ cmd'.op = "ln" /\ cmd'.comps = comps /\ cmd'.parent = dir
        /\ cmd'.inode = file /\ cmd'.type = "file" /\ cmd'.blocks = <<>>
        /\ cmd'.size = 0 /\ cmd'.readable = 0
    BY <2>1
  <2>10. pc' = "entry"
    BY <1>8
  <2>4. Control'
    BY <1>2, <2>5, <2>9, <2>10 DEF Control, Steps, FileTypes
  <2>. QED  BY <1>3, <2>2, <2>3, <2>4, GivenStep
<1>. QED  BY <1>3, <1>6, <1>7, <1>8

\* ext2_mkdir's path checks.
LEMMA MkdirStep ==
    ASSUME IInv, NEW path \in Paths, ext2_mkdir(path), dirents' = dirents
    PROVE  IInv'
<1>. DEFINE comps  == split_path(path)
            parent == traverse_path(listPop(comps))
            abort  == \/ Len(comps) = 1
                      \/ ~is_directory(parent)
                      \/ traverse_path(comps) # NULL
<1>1. comps \in Seq(Names) /\ comps # <<>>
  BY SplitFacts, Ext2Assumption
<1>2. Asked /\ \/ abort /\ Refused
               \/ /\ ~abort
                  /\ cmd' = [NoCommand EXCEPT !.op = "mkdir", !.comps = comps,
                                              !.parent = parent.inode, !.type = "dir"]
                  /\ pc' = "inode"
  BY DEF ext2_mkdir, Asked
<1>3. is_directory(parent) => parent.inode \in Inodes
  BY <1>1, FoundFacts, PopFacts, NullNotFound DEF IInv
<1>. HIDE DEF comps, parent
<1>4. CASE Refused
  BY <1>2, <1>4, RefusedStep
<1>5. ASSUME ~abort, cmd' = [NoCommand EXCEPT !.op = "mkdir", !.comps = comps,
                                !.parent = parent.inode, !.type = "dir"], pc' = "inode"
      PROVE  IInv'
  <2>. DEFINE dir == parent.inode
  <2>1. cmd' = [op |-> "mkdir", comps |-> comps, src |-> <<>>,
                parent |-> dir, inode |-> 0, type |-> "dir",
                blocks |-> <<>>, size |-> 0, readable |-> 0, exists |-> FALSE,
                made |-> FALSE]
    BY <1>5 DEF NoCommand
  <2>5. dir \in Inodes
    BY <1>3, <1>5
  <2>. HIDE DEF dir
  <2>2. cmd' \in Locals
    BY <1>1, <2>1, <2>5 DEF Locals, FileTypes
  <2>3. cmd'.blocks = <<>>
    BY <2>1
  <2>9. /\ cmd'.op = "mkdir" /\ cmd'.comps = comps /\ cmd'.parent = dir
        /\ cmd'.inode = 0 /\ cmd'.type = "dir" /\ cmd'.blocks = <<>>
        /\ cmd'.size = 0 /\ cmd'.readable = 0
    BY <2>1
  <2>10. pc' = "inode"
    BY <1>5
  <2>4. Control'
    BY <1>1, <2>5, <2>9, <2>10 DEF Control, Steps, FileTypes
  <2>. QED  BY <1>2, <2>2, <2>3, <2>4, GivenStep
<1>. QED  BY <1>2, <1>4, <1>5

\* ext2_rm's path checks and find_matching_entry.
LEMMA RmStep ==
    ASSUME IInv, NEW path \in Paths, ext2_rm(path), dirents' = dirents
    PROVE  IInv'
<1>. DEFINE comps  == split_path(path)
            entry  == traverse_path(comps)
            parent == traverse_path(listPop(comps))
            abort  == \/ entry = NULL \/ is_directory(entry)
                      \/ parent = NULL
<1>1. comps \in Seq(Names) /\ comps # <<>>
  BY SplitFacts, Ext2Assumption
<1>2. Asked /\ \/ abort /\ Refused
               \/ /\ ~abort
                  /\ cmd' = [NoCommand EXCEPT
                               !.op = "rm", !.comps = comps, !.inode = entry.inode,
                               !.parent = parent.inode]
                  /\ pc' = "unlink"
  BY DEF ext2_rm, Asked
<1>3. /\ parent # NULL => parent.inode \in Inodes
      /\ entry # NULL => entry.inode \in Inodes
  BY <1>1, FoundFacts, PopFacts DEF IInv
<1>4. ASSUME ~abort PROVE HasName(parent.inode, listPeek(comps))
  <2>1. Len(comps) \in Nat \ {0}
    BY <1>1, EmptySeq
  <2>2. Len(comps) # 1
    <3>1. SUFFICES ASSUME Len(comps) = 1 PROVE FALSE
      OBVIOUS
    <3>2. Len(listPop(comps)) = 0 /\ listPop(comps) \in Seq(Names)
      BY <1>1, <3>1, PopFacts
    <3>3. listPop(comps) = <<>>
      BY <3>2, EmptySeq
    <3>. QED  BY <1>4, <3>3 DEF traverse_path
  <2>3. Len(comps) >= 2
    <3>. HIDE DEF comps
    <3>. QED  BY <2>1, <2>2
  <2>4. entry = Into(parent, listPeek(comps))
    BY <1>1, <2>3, TraverseLast
  <2>5. parent \in Found \cup {NULL}
    BY <1>1, PopFacts, TraverseType DEF IInv
  <2>. QED  BY <1>4, <2>4, <2>5, IntoType DEF IInv
<1>5. CASE Refused
  BY <1>2, <1>5, RefusedStep
<1>6. ASSUME ~abort, pc' = "unlink",
             cmd' = [NoCommand EXCEPT
                       !.op = "rm", !.comps = comps, !.inode = entry.inode,
                       !.parent = parent.inode]
      PROVE  IInv'
  <2>. DEFINE dir == parent.inode
              file == entry.inode
  <2>1. cmd' = [op |-> "rm", comps |-> comps, src |-> <<>>,
                parent |-> dir, inode |-> file, type |-> "none",
                blocks |-> <<>>, size |-> 0, readable |-> 0, exists |-> FALSE,
                made |-> FALSE]
    BY <1>6 DEF NoCommand
  <2>2. dir \in Inodes /\ file \in Inodes
    BY <1>3, <1>6
  <2>3. HasName(dir, listPeek(comps))
    BY <1>4, <1>6
  <2>4. dirents' = dirents /\ numbers' = numbers /\ i_block' = i_block
    BY <1>2 DEF Asked, Given, diskVars, inodeVars, blockVars
  <2>. HIDE DEF comps, dir, file
  <2>5. HasName(cmd.parent, listPeek(cmd.comps))'
    <3>1. cmd'.parent = dir /\ cmd'.comps = comps
      BY <2>1
    <3>2. listPeek(cmd.comps)' = listPeek(comps)
      BY <3>1 DEF listPeek
    <3>. QED  BY <2>3, <2>4, <3>1, <3>2 DEF HasName
  <2>6. cmd' \in Locals
    BY <1>1, <2>1, <2>2 DEF Locals, FileTypes
  <2>7. cmd'.blocks = <<>>
    BY <2>1
  <2>9. /\ cmd'.op = "rm" /\ cmd'.comps = comps /\ cmd'.parent = dir
        /\ cmd'.inode = file /\ cmd'.type = "none" /\ cmd'.blocks = <<>>
        /\ cmd'.size = 0 /\ cmd'.readable = 0
    BY <2>1
  <2>10. pc' = "unlink"
    BY <1>6
  <2>8. Control'
    BY <1>1, <2>2, <2>5, <2>9, <2>10 DEF Control, Steps
  <2>. QED  BY <1>2, <2>6, <2>7, <2>8, GivenStep
<1>. QED  BY <1>2, <1>5, <1>6

\* A command that is given writes nothing yet.
LEMMA CommandIsGiven == Command /\ ~strayed' => Asked /\ ~strayed
<1>. SUFFICES ASSUME Command, ~strayed' PROVE Asked /\ ~strayed
  OBVIOUS
<1>1. ASSUME NEW src, NEW dest, ext2_cp(src, dest) PROVE Given
  BY <1>1 DEF ext2_cp
<1>2. ASSUME NEW src, NEW dest, NEW sym, ext2_ln(src, dest, sym) PROVE Asked /\ ~strayed
  BY <1>2, NotTaken DEF ext2_ln, Asked
<1>3. ASSUME NEW path, ext2_mkdir(path) PROVE Given
  BY <1>3 DEF ext2_mkdir
<1>4. ASSUME NEW path, ext2_rm(path) PROVE Given
  BY <1>4 DEF ext2_rm
<1>. QED  BY <1>1, <1>2, <1>3, <1>4 DEF Command, Asked

\* Whichever command is given, the invariant holds after its first step.
LEMMA CommandStep == IInv /\ Command /\ ~strayed' => IInv'
BY CpStep, LnStep, MkdirStep, RmStep DEF Command

-----------------------------------------------------------------------------
(* The steps that write *)

\* What is in a place: a marked block that nobody has in hand, and in a slot a
\* good one.
LEMMA PlaceFacts ==
    ASSUME IInv, NEW j \in Inodes, NEW i \in Kept, At(i_block, numbers, j, i) # 0
    PROVE  /\ At(i_block, numbers, j, i) \in Blocks
           /\ At(i_block, numbers, j, i) \in block_bitmap
           /\ At(i_block, numbers, j, i) \notin InHand
           /\ i \in Slots => Good(dirents[At(i_block, numbers, j, i)],
                                  data[At(i_block, numbers, j, i)])
<1>1. Owned(i_block, numbers, block_bitmap, InHand)
  BY OwnedIs DEF IInv
<1>2. block_bitmap \subseteq Blocks
  BY DEF IInv, Typed
<1>. QED  BY <1>1, <1>2, GoodIs DEF Owned, IInv

\* zero_block on the blocks of a list.
LEMMA ZeroedFacts ==
    ASSUME NEW f, NEW s, NEW zero
    PROVE  /\ DOMAIN Zeroed(f, s, zero) = Blocks
           /\ IsFcn(Zeroed(f, s, zero))
           /\ \A b \in Blocks : Zeroed(f, s, zero)[b] =
                 IF b \in Elements(s) THEN zero ELSE f[b]
BY DEF Zeroed, IsFcn, Elements

\* Blocks that were free are in no place and not in hand; zeroing them changes
\* no block that is in use.
LEMMA FreshFacts ==
    ASSUME IInv, NEW n \in Nat, NEW s \in FirstFree(n)
    PROVE  /\ Elements(s) \subseteq Blocks /\ Elements(s) \cap block_bitmap = {}
           /\ \A j \in Inodes : \A i \in Kept : At(i_block, numbers, j, i) \notin Elements(s)
           /\ Elements(s) \cap InHand = {}
           /\ SameInUse(Zeroed(numbers, s, NoNumbers))
           /\ Zeroed(numbers, s, NoNumbers) \in NumType
           /\ i_block \in BlkType /\ numbers \in NumType
<1>1. Elements(s) \subseteq Blocks /\ Elements(s) \cap block_bitmap = {}
  BY FirstFreeFacts DEF Elements
<1>2. \A j \in Inodes : \A i \in Kept : At(i_block, numbers, j, i) \notin Elements(s)
  <2>1. SUFFICES ASSUME NEW j \in Inodes, NEW i \in Kept,
                        At(i_block, numbers, j, i) \in Elements(s)
                 PROVE  FALSE
    OBVIOUS
  <2>2. At(i_block, numbers, j, i) # 0
    BY <1>1, <2>1, Bounds
  <2>. QED  BY <1>1, <2>1, <2>2, PlaceFacts
<1>3. InHand \subseteq block_bitmap
  BY DEF IInv, OneOwner
<1>4. i_block \in BlkType /\ numbers \in NumType
  BY DEF IInv, Typed, BlkType, NumType
<1>5. SameInUse(Zeroed(numbers, s, NoNumbers))
  <2>1. SUFFICES ASSUME NEW j \in Inodes, i_block[j][INDIRECT1_INDEX] # 0
                 PROVE  /\ i_block[j][INDIRECT1_INDEX] \in Blocks
                        /\ i_block[j][INDIRECT1_INDEX] \notin Elements(s)
    BY ZeroedFacts DEF SameInUse
  <2>2. At(i_block, numbers, j, INODE_BLOCK_LIMIT) = i_block[j][INDIRECT1_INDEX]
    BY DEF At
  <2>. QED  BY <1>2, <2>1, <2>2, KeptIs, PlaceFacts
<1>6. Zeroed(numbers, s, NoNumbers) \in NumType
  <2>1. NoNumbers \in [Indices -> Numbers]
    BY DEF NoNumbers, Numbers
  <2>2. \A b \in Blocks : numbers[b] \in [Indices -> Numbers]
    BY <1>4 DEF NumType
  <2>. QED  BY <2>1, <2>2 DEF Zeroed, NumType
<1>. QED  BY <1>1, <1>2, <1>3, <1>4, <1>5, <1>6

\* A zeroed block is a content of a block.
LEMMA ZeroesType == Zeroes \in Contents
BY DEF Zeroes, Contents

\* Zeroing blocks leaves well-typed directory entries and data.
LEMMA ZeroedChains ==
    ASSUME IInv, NEW s
    PROVE  /\ \A b \in Blocks : IsChain(Zeroed(dirents, s, EmptyBlock)[b], Inodes)
           /\ Zeroed(data, s, Zeroes) \in [Blocks -> Contents]
<1>1. \A b \in Blocks : IsChain(dirents[b], Inodes)
  BY DEF IInv, Typed
<1>2. data \in [Blocks -> Contents]
  BY DEF IInv, Typed
<1>3. IsChain(EmptyBlock, Inodes)
  BY EmptyTiles
<1>4. \A b \in Blocks : IsChain(Zeroed(dirents, s, EmptyBlock)[b], Inodes)
  BY <1>1, <1>3, ZeroedFacts
<1>5. Zeroed(data, s, Zeroes) \in [Blocks -> Contents]
  BY <1>2, ZeroesType DEF Zeroed
<1>. QED  BY <1>4, <1>5

\* allocate_blocks takes its blocks from the free ones and holds them in hand.
LEMMA AllocateBlocksStep == IInv /\ allocate_blocks => IInv'
<1>. SUFFICES ASSUME IInv, allocate_blocks PROVE IInv'
  OBVIOUS
<1>1. CASE Fail
  BY <1>1, FailStep
<1>2. CASE ~Fail
  <2>1. /\ pc = "blocks" /\ pc' = "parent" /\ commands' = commands
        /\ cmd.size <= free_blocks_count
        /\ inode_bitmap' = inode_bitmap /\ free_inodes_count' = free_inodes_count
        /\ i_links_count' = i_links_count /\ i_block' = i_block
    BY <1>2 DEF allocate_blocks, inodeVars
  <2>2. PICK s \in FirstFree(cmd.size) :
          /\ MarkUsed(s)
          /\ dirents' = Zeroed(dirents, s, EmptyBlock)
          /\ numbers' = Zeroed(numbers, s, NoNumbers)
          /\ data' = Zeroed(data, s, Zeroes)
          /\ cmd' = [cmd EXCEPT !.blocks = s]
    BY <1>2 DEF allocate_blocks
  <2>3. cmd \in Locals /\ cmd.size \in Nat /\ DiskOK /\ commands \in 0 .. MaxCommands
    BY TypedIs DEF IInv, Locals
  <2>4. /\ s \in Seq(Blocks) /\ Len(s) = cmd.size /\ DOMAIN s = 1 .. cmd.size
        /\ \A i, j \in 1 .. cmd.size : s[i] = s[j] => i = j
    BY <2>3, FirstFreeFacts
  <2>5. cmd' \in Locals /\ cmd'.blocks = s
    BY <2>2, <2>3, <2>4 DEF Locals
  <2>6. InHand' = Elements(s)
    BY <2>1, <2>5, HandIs
  <2>7. /\ block_bitmap' = block_bitmap \cup Elements(s) /\ block_bitmap' \subseteq Blocks
        /\ free_blocks_count' \in Nat /\ CountsAgree'
    <3>1. CountsAgree /\ free_blocks_count \in Nat /\ block_bitmap \subseteq Blocks
      BY <2>3 DEF IInv, DiskOK
    <3>. QED  BY <2>1, <2>2, <2>3, <3>1, MarkCount
  <2>8. /\ Elements(s) \subseteq Blocks /\ Elements(s) \cap block_bitmap = {}
        /\ SameInUse(numbers') /\ numbers' \in NumType
    BY <2>2, <2>3, FreshFacts
  <2>9. DiskOK'
    <3>1. IsFcn(dirents') /\ DOMAIN dirents' = Blocks
          /\ \A b \in Blocks : IsChain(dirents'[b], Inodes)
      BY <2>2, ZeroedFacts, ZeroedChains
    <3>2. data' \in [Blocks -> Contents]
      BY <2>2, ZeroedChains
    <3>. QED  BY <2>1, <2>3, <2>7, <2>8, <3>1, <3>2 DEF DiskOK
  <2>10. Typed'
    BY <2>1, <2>3, <2>5, <2>9, TypedIs
  <2>11. OneOwner' /\ AllTiled' /\ Apart'
    <3>1. Unmoved
      BY <2>1, <2>3, <2>8, UnmovedIs
    <3>2. ASSUME NEW j \in Inodes, NEW i \in Kept, At(i_block, numbers, j, i) # 0
          PROVE  /\ At(i_block, numbers, j, i) \in block_bitmap' \ InHand'
                 /\ i \in Slots => Good(dirents'[At(i_block, numbers, j, i)],
                                        data'[At(i_block, numbers, j, i)])
      <4>. DEFINE b == At(i_block, numbers, j, i)
      <4>1. b \in Blocks /\ b \in block_bitmap /\ b \notin Elements(s)
            /\ (i \in Slots => Good(dirents[b], data[b]))
        BY <2>8, <3>2, PlaceFacts
      <4>2. dirents'[b] = dirents[b] /\ data'[b] = data[b]
        BY <2>2, <4>1, ZeroedFacts
      <4>. QED  BY <2>6, <2>7, <4>1, <4>2
    <3>. QED  BY <2>6, <2>7, <3>1, <3>2, UnmovedStep
  <2>12. Blank'
    BY <2>2, <2>6, <2>8, ZeroedFacts DEF Blank
  <2>13. Control'
    <3>1. /\ cmd'.op = cmd.op /\ cmd'.comps = cmd.comps /\ cmd'.type = cmd.type
          /\ cmd'.inode = cmd.inode /\ cmd'.exists = cmd.exists
          /\ cmd'.readable = cmd.readable /\ cmd'.size = cmd.size
      BY <2>2, <2>3 DEF Locals
    <3>2. Len(cmd'.blocks) = cmd'.size /\ Distinct(cmd'.blocks)
      BY <2>4, <2>5, <3>1 DEF Distinct
    <3>3. Control
      BY DEF IInv
    <3>. QED  BY <2>1, <3>1, <3>2, <3>3 DEF Control, Steps
  <2>. QED  BY <2>7, <2>10, <2>11, <2>12, <2>13 DEF IInv
<1>. QED  BY <1>1, <1>2

\* A step that changes local variables only.
LEMMA LocalStep ==
    ASSUME IInv, UNCHANGED <<diskVars, commands>>, cmd' \in Locals,
           InHand' \subseteq InHand, Control'
    PROVE  IInv'
<1>1. UNCHANGED diskVars /\ commands' \in 0 .. MaxCommands
  BY DEF IInv, Typed
<1>2. Typed'
  BY <1>1, DiskFrame, TypedIs
<1>. QED  BY <1>1, <1>2, DiskFrame DEF IInv

\* ext2_cp goes on with the blocks it has in hand.
LEMMA CpDestinationStep == IInv /\ cp_destination /\ ~strayed' => IInv'
<1>. SUFFICES ASSUME IInv, cp_destination, ~strayed' PROVE IInv'
  OBVIOUS
<1>. DEFINE parent == traverse_path(listPop(cmd.comps))
            dir == parent.inode
<1>1. CASE Fail
  BY <1>1, FailStep
<1>2. CASE ~Fail
  <2>1. /\ pc = "parent" /\ parent # NULL
        /\ pc' = IF cmd.exists THEN "write" ELSE "inode"
        /\ cmd' = [cmd EXCEPT !.parent = dir]
        /\ UNCHANGED <<diskVars, commands>>
    BY <1>2, NotTaken DEF cp_destination, diskVars, blockVars
  <2>2. cmd \in Locals /\ Control
    BY DEF IInv, Typed
  <2>3. cmd.comps \in Seq(Names) /\ cmd.comps # <<>>
    BY <2>1, <2>2 DEF Control, Locals
  <2>4. dir \in Inodes
    BY <2>1, <2>3, PopFacts, FoundFacts DEF IInv
  <2>. HIDE DEF dir
  <2>5. /\ cmd'.op = cmd.op /\ cmd'.comps = cmd.comps /\ cmd'.type = cmd.type
        /\ cmd'.inode = cmd.inode /\ cmd'.exists = cmd.exists /\ cmd'.parent = dir
        /\ cmd'.readable = cmd.readable /\ cmd'.size = cmd.size
        /\ cmd'.blocks = cmd.blocks
    BY <2>1, <2>2 DEF Locals
  <2>6. cmd' \in Locals
    BY <2>1, <2>2, <2>4 DEF Locals
  <2>7. pc' \in {"write", "inode"} /\ (pc' = "write" => cmd.exists)
    BY <2>1
  <2>8. InHand' = InHand
    BY <2>1, <2>5, <2>7, HandIs
  <2>9. Control'
    BY <2>1, <2>2, <2>3, <2>4, <2>5, <2>7 DEF Control, Steps
  <2>. QED  BY <2>1, <2>6, <2>8, <2>9, LocalStep
<1>. QED  BY <1>1, <1>2

\* make_entry_in_inode finds no index: the command does not notice, or undoes
\* its inode.
LEMMA EntryNowhereStep == IInv /\ EntryNowhere => IInv'
<1>. SUFFICES ASSUME IInv, EntryNowhere PROVE IInv'
  OBVIOUS
<1>1. /\ pc \in {"dot", "dotdot", "entry"} /\ pc' = AfterEntry(FALSE)
      /\ UNCHANGED <<diskVars, commands>> /\ cmd' = cmd
  BY DEF EntryNowhere
<1>2. cmd \in Locals /\ Control
  BY DEF IInv, Typed
<1>3. \/ pc = "entry" /\ cmd.op = "cp" /\ pc' = "write"
      \/ pc = "entry" /\ cmd.op = "ln" /\ pc' = "count"
      \/ (pc = "entry" => cmd.op \notin {"cp", "ln"}) /\ pc' = "undo"
  BY <1>1 DEF AfterEntry
<1>4. InHand' \subseteq InHand
  BY <1>1, <1>3, HandIs
<1>5. Control'
  BY <1>1, <1>2, <1>3 DEF Control, Steps
<1>. QED  BY <1>1, <1>2, <1>4, <1>5, LocalStep

-----------------------------------------------------------------------------
(* Link counts *)

\* An unsigned short stays one.
LEMMA ShortType ==
    ASSUME NEW x \in Int
    PROVE  x % (USHRT_MAX + 1) \in 0 .. USHRT_MAX
<1>. DEFINE m == USHRT_MAX + 1
<1>1. m \in Nat /\ m > 0
  BY ShortIsNat
<1>2. x % m \in 0 .. m - 1
  <2>. HIDE DEF m
  <2>. QED  BY <1>1
<1>. QED  BY <1>2, ShortIsNat

\* A step that changes link counts, and neither blocks nor local variables.
LEMMA LinkStep ==
    ASSUME IInv, UNCHANGED <<bitmapVars, i_block, blockVars, cmd, commands>>,
           i_links_count' \in [Inodes -> 0 .. USHRT_MAX],
           InHand' \subseteq InHand, Control'
    PROVE  IInv'
<1>1. /\ block_bitmap' = block_bitmap /\ inode_bitmap' = inode_bitmap
      /\ free_blocks_count' = free_blocks_count
      /\ free_inodes_count' = free_inodes_count
      /\ i_block' = i_block /\ UNCHANGED blockVars
      /\ dirents' = dirents /\ numbers' = numbers /\ data' = data
      /\ cmd' = cmd /\ commands' = commands
  BY DEF bitmapVars, blockVars
<1>2. DiskOK /\ cmd \in Locals /\ commands \in 0 .. MaxCommands
  BY TypedIs DEF IInv
<1>3. DiskOK'
  BY <1>1, <1>2 DEF DiskOK
<1>4. Typed'
  BY <1>1, <1>2, <1>3, TypedIs
<1>. QED  BY <1>1, <1>4, BlocksFrame DEF IInv

\* ext2_ln counts the link.
LEMMA CountLinkStep == IInv /\ count_link => IInv'
<1>. SUFFICES ASSUME IInv, count_link PROVE IInv'
  OBVIOUS
<1>. DEFINE new == i_links_count[cmd.inode] + 1
            links == new % (USHRT_MAX + 1)
<1>1. /\ pc = "count" /\ pc' \in {"ok", "exit"}
      /\ i_links_count' = [i_links_count EXCEPT ![cmd.inode] = links]
      /\ UNCHANGED <<bitmapVars, i_block, blockVars, cmd, commands>>
  BY DEF count_link
<1>2. cmd.inode \in Inodes /\ i_links_count \in [Inodes -> 0 .. USHRT_MAX]
  BY <1>1 DEF IInv, Control, Typed
<1>3. links \in 0 .. USHRT_MAX
  <2>1. i_links_count[cmd.inode] \in 0 .. USHRT_MAX
    BY <1>2
  <2>2. new \in Int
    BY <2>1, ShortIsNat
  <2>. HIDE DEF new
  <2>. QED  BY <2>2, ShortType
<1>. HIDE DEF links
<1>4. i_links_count' \in [Inodes -> 0 .. USHRT_MAX]
  BY <1>1, <1>2, <1>3
<1>5. InHand' \subseteq InHand
  BY <1>1, HandIs
<1>6. Control'
  BY <1>1 DEF Control, Steps
<1>. QED  BY <1>1, <1>4, <1>5, <1>6, LinkStep

\* ext2_rm takes one off.
LEMMA DropLinkStep == IInv /\ drop_link => IInv'
<1>. SUFFICES ASSUME IInv, drop_link PROVE IInv'
  OBVIOUS
<1>. DEFINE new == i_links_count[cmd.inode] - 1
            links == new % (USHRT_MAX + 1)
<1>1. /\ pc = "drop" /\ pc' \in {"free", "ok"}
      /\ i_links_count' = [i_links_count EXCEPT ![cmd.inode] = links]
      /\ UNCHANGED <<bitmapVars, i_block, blockVars, cmd, commands>>
  BY DEF drop_link
<1>2. cmd.inode \in Inodes /\ i_links_count \in [Inodes -> 0 .. USHRT_MAX]
  BY <1>1 DEF IInv, Control, Typed
<1>3. links \in 0 .. USHRT_MAX
  <2>1. i_links_count[cmd.inode] \in 0 .. USHRT_MAX
    BY <1>2
  <2>2. new \in Int
    BY <2>1, ShortIsNat
  <2>. HIDE DEF new
  <2>. QED  BY <2>2, ShortType
<1>. HIDE DEF links
<1>4. i_links_count' \in [Inodes -> 0 .. USHRT_MAX]
  BY <1>1, <1>2, <1>3
<1>5. InHand' \subseteq InHand
  BY <1>1, HandIs
<1>6. cmd' = cmd /\ cmd.op = "rm"
  BY <1>1 DEF IInv, Control
<1>7. Control'
  BY <1>1, <1>2, <1>6 DEF Control, Steps
<1>. QED  BY <1>1, <1>4, <1>5, <1>7, LinkStep

-----------------------------------------------------------------------------
(* Making entries *)

\* What an entry is made of, and where it goes, is known by then.
LEMMA WantedType ==
    ASSUME IInv, pc \in {"dot", "dotdot", "entry"}
    PROVE  /\ Wanted.dir \in Inodes /\ Wanted.inode \in Inodes
           /\ Wanted.name \in Names /\ Wanted.type \in FileTypes
<1>1. /\ cmd.comps \in Seq(Names) /\ cmd.comps # <<>> /\ cmd.type \in FileTypes
      /\ cmd.parent \in Inodes /\ cmd.inode \in Inodes
  BY DEF IInv, Control, Typed, Locals
<1>2. listPeek(cmd.comps) \in Names
  BY <1>1, PopFacts
<1>3. CASE pc = "dot"
  BY <1>1, <1>3, BlockAssumption DEF Wanted, FileTypes
<1>4. CASE pc = "dotdot"
  BY <1>1, <1>4, BlockAssumption DEF Wanted, FileTypes
<1>5. CASE pc = "entry"
  BY <1>1, <1>2, <1>5 DEF Wanted
<1>. QED  BY <1>3, <1>4, <1>5

\* The step after an entry has been made.
LEMMA AfterEntryIs ==
    ASSUME pc \in {"dot", "dotdot", "entry"}
    PROVE  \/ pc = "dot" /\ AfterEntry(TRUE) = "dotdot"
           \/ pc = "dotdot" /\ AfterEntry(TRUE) = "entry"
           \/ pc = "entry" /\ cmd.op = "cp" /\ AfterEntry(TRUE) = "write"
           \/ pc = "entry" /\ cmd.op = "ln" /\ AfterEntry(TRUE) = "count"
           \/ pc = "entry" /\ cmd.op # "cp" /\ AfterEntry(TRUE) = "ok"
BY DEF AfterEntry

\* The local variables once an entry has been made.
LEMMA MadeControl ==
    ASSUME IInv, pc \in {"dot", "dotdot", "entry"}, pc' = AfterEntry(TRUE),
           cmd' = [cmd EXCEPT !.made = TRUE]
    PROVE  cmd' \in Locals /\ Control' /\ InHand' = InHand
<1>1. cmd \in Locals /\ Control
  BY DEF IInv, Typed
<1>2. /\ cmd'.op = cmd.op /\ cmd'.comps = cmd.comps /\ cmd'.type = cmd.type
      /\ cmd'.inode = cmd.inode /\ cmd'.exists = cmd.exists
      /\ cmd'.parent = cmd.parent /\ cmd'.readable = cmd.readable
      /\ cmd'.size = cmd.size /\ cmd'.blocks = cmd.blocks
  BY <1>1 DEF Locals
<1>3. cmd' \in Locals
  BY <1>1 DEF Locals
<1>4. \/ pc = "dot" /\ pc' = "dotdot"
      \/ pc = "dotdot" /\ pc' = "entry"
      \/ pc = "entry" /\ cmd.op = "cp" /\ pc' = "write"
      \/ pc = "entry" /\ cmd.op = "ln" /\ pc' = "count"
      \/ pc = "entry" /\ cmd.op # "cp" /\ pc' = "ok"
  BY AfterEntryIs
<1>5. Control'
  BY <1>1, <1>2, <1>4 DEF Control, Steps
<1>6. InHand' = InHand
  <2>1. pc \in {"dot", "dotdot"} => cmd.op = "mkdir"
    BY <1>1 DEF Control
  <2>2. pc \in {"dot", "dotdot", "entry"} /\ cmd.op # "cp" => cmd.blocks = <<>>
    BY <1>1 DEF Control
  <2>. QED  BY <1>2, <1>4, <2>1, <2>2, HandIs
<1>. QED  BY <1>3, <1>5, <1>6

\* make_entry_in_inode in a block the directory has.
LEMMA EntryInExistingBlockStep == IInv /\ EntryInExistingBlock => IInv'
<1>. SUFFICES ASSUME IInv, EntryInExistingBlock PROVE IInv'
  OBVIOUS
<1>. DEFINE dir  == Wanted.dir
            inode == Wanted.inode
            name == Wanted.name
            type == Wanted.type
            slot == Min(Accepting(dir, name))
            b    == get_inode_block_number(dir, slot)
            made == make_entry_in_existing_block(dirents[b], inode, name, type)
<1>1. /\ pc \in {"dot", "dotdot", "entry"} /\ pc' = AfterEntry(TRUE)
      /\ Accepting(dir, name) # {}
      /\ dirents' = [dirents EXCEPT ![b] = made]
      /\ data' = Spoilt(b)
      /\ cmd' = [cmd EXCEPT !.made = TRUE]
      /\ UNCHANGED <<bitmapVars, inodeVars, numbers, commands>>
  BY DEF EntryInExistingBlock
<1>2. cmd' \in Locals /\ Control' /\ InHand' = InHand
  BY <1>1, MadeControl
<1>3. dir \in Inodes /\ inode \in Inodes /\ name \in Names /\ type \in FileTypes
  BY <1>1, WantedType
<1>. HIDE DEF dir, inode, name, type
<1>4. slot \in Accepting(dir, name)
  <2>1. Accepting(dir, name) \subseteq Nat
    BY Bounds DEF Accepting
  <2>. QED  BY <1>1, <2>1, MinOfNats
<1>5. slot \in Slots /\ b # 0 /\ HasRoom(dirents[b], name) # {}
  BY <1>4 DEF Accepting, Accepts
<1>. HIDE DEF slot
<1>6. b = At(i_block, numbers, dir, slot) /\ slot \in Kept
  BY <1>3, <1>5, NumberIs, KeptIs DEF At
<1>7. b \in Blocks /\ b \notin InHand /\ Good(dirents[b], data[b])
  BY <1>3, <1>5, <1>6, PlaceFacts
<1>. HIDE DEF b
<1>8. DiskOK /\ commands \in 0 .. MaxCommands
  BY TypedIs DEF IInv
<1>9. IsChain(dirents[b], Inodes)
  BY <1>7, <1>8 DEF DiskOK
<1>10. IsChain(made, Inodes) /\ Tiles(made)
  BY <1>3, <1>5, <1>7, <1>9, InsertTiles DEF Good
<1>11. data[b].kind = "zero"
  BY <1>5, <1>7 DEF Good, HasRoom
<1>12. Good(made, data[b])
  BY <1>10, <1>11 DEF Good
<1>. HIDE DEF made
<1>13. /\ block_bitmap' = block_bitmap /\ inode_bitmap' = inode_bitmap
       /\ free_blocks_count' = free_blocks_count
       /\ free_inodes_count' = free_inodes_count
       /\ i_links_count' = i_links_count
       /\ i_block' = i_block /\ numbers' = numbers /\ data' = data
       /\ commands' = commands
  BY <1>1, <1>11, NotSpoilt DEF bitmapVars, inodeVars
<1>14. /\ IsFcn(dirents') /\ DOMAIN dirents' = Blocks
       /\ dirents'[b] = made
       /\ \A c \in Blocks : c # b => dirents'[c] = dirents[c]
  <2>1. IsFcn(dirents) /\ DOMAIN dirents = Blocks
    BY <1>8 DEF DiskOK
  <2>. QED  BY <1>1, <1>7, <2>1 DEF IsFcn
<1>15. DiskOK'
  <2>1. \A c \in Blocks : IsChain(dirents'[c], Inodes)
    BY <1>8, <1>10, <1>14 DEF DiskOK
  <2>. QED  BY <1>8, <1>13, <1>14, <2>1 DEF DiskOK
<1>16. Typed'
  BY <1>2, <1>8, <1>13, <1>15, TypedIs
<1>17. OneOwner' /\ AllTiled' /\ Apart'
  <2>1. Unmoved
    BY <1>13 DEF Unmoved
  <2>2. ASSUME NEW j \in Inodes, NEW i \in Kept, At(i_block, numbers, j, i) # 0
        PROVE  /\ At(i_block, numbers, j, i) \in block_bitmap' \ InHand'
               /\ i \in Slots => Good(dirents'[At(i_block, numbers, j, i)],
                                      data'[At(i_block, numbers, j, i)])
    <3>. DEFINE c == At(i_block, numbers, j, i)
    <3>1. /\ c \in Blocks /\ c \in block_bitmap /\ c \notin InHand
          /\ i \in Slots => Good(dirents[c], data[c])
      BY <2>2, PlaceFacts
    <3>. HIDE DEF c
    <3>2. i \in Slots => Good(dirents'[c], data'[c])
      BY <1>12, <1>13, <1>14, <3>1
    <3>. QED  BY <1>2, <1>13, <3>1, <3>2 DEF c
  <2>3. InHand' \subseteq block_bitmap'
    BY <1>2, <1>13 DEF IInv, OneOwner
  <2>. QED  BY <2>1, <2>2, <2>3, UnmovedStep
<1>18. CountsAgree'
  BY <1>13 DEF IInv, CountsAgree
<1>19. Blank'
  <2>1. InHand \subseteq Blocks
    BY <1>8 DEF IInv, OneOwner, DiskOK
  <2>. QED  BY <1>2, <1>7, <1>14, <2>1 DEF IInv, Blank
<1>. QED  BY <1>2, <1>16, <1>17, <1>18, <1>19 DEF IInv

-----------------------------------------------------------------------------
(* Attaching a new block *)

\* g is f with v at b.
Differs(g, f, b, v) ==
    /\ IsFcn(g) /\ DOMAIN g = Blocks
    /\ g[b] = v
    /\ \A c \in Blocks : c # b => g[c] = f[c]

\* set_inode_block_number in a state of the system.
LEMMA SetFacts ==
    ASSUME IInv, NEW k \in Inodes, NEW f \in [Slots -> Numbers], NEW nums \in NumType,
           SameInUse(nums), set_inode_block_number(k, f, nums)
    PROVE  Moved(k, f) /\ i_block' \in BlkType /\ numbers' \in NumType
<1>1. i_block \in BlkType /\ numbers \in NumType /\ OneOwner
  BY DEF IInv, Typed, BlkType, NumType
<1>2. i_block' \in BlkType /\ numbers' \in NumType
  BY <1>1, SetType
<1>3. Moved(k, f)
  <2>1. SUFFICES ASSUME NEW j \in Inodes, NEW i \in Kept
                 PROVE  At(i_block', numbers', j, i) =
                          IF j = k /\ i \in Slots
                          THEN IF i < INDIRECT1_INDEX \/ i_block[k][INDIRECT1_INDEX] # 0
                               THEN f[i] ELSE 0
                          ELSE At(i_block, numbers, j, i)
    BY Zenon DEF Moved
  <2>. QED  BY <1>1, SetEffect
<1>. QED  BY <1>2, <1>3

\* The slots of an inode as a function.
LEMMA SlotsOfIs ==
    ASSUME IInv, NEW k \in Inodes
    PROVE  /\ SlotsOf(k) \in [Slots -> Numbers]
           /\ \A i \in Slots : SlotsOf(k)[i] = At(i_block, numbers, k, i)
           /\ \A i \in Slots : SlotsOf(k)[i] = get_inode_block_number(k, i)
<1>1. \A i \in Slots : get_inode_block_number(k, i) = At(i_block, numbers, k, i)
  BY KeptIs, NumberIs DEF At
<1>2. \A i \in Slots : get_inode_block_number(k, i) \in Numbers
  BY HeldType DEF IInv
<1>. QED  BY <1>1, <1>2 DEF SlotsOf

\* A free block is taken, written, and put into an unused slot, which may not
\* take it: make_entry_in_inode and write_path_to_symlink_inode.
LEMMA AttachStep ==
    ASSUME IInv, NEW s \in FirstFree(1), MarkUsed(s), free_blocks_count # 0,
           NEW k \in Inodes, NEW slot \in Slots, get_inode_block_number(k, slot) = 0,
           set_inode_block_number(k, [SlotsOf(k) EXCEPT ![slot] = s[1]],
                                  Zeroed(numbers, s, NoNumbers)),
           NEW block, IsChain(block, Inodes), NEW content \in Contents,
           Good(block, content),
           Differs(dirents', dirents, s[1], block), Differs(data', data, s[1], content),
           inode_bitmap' = inode_bitmap, free_inodes_count' = free_inodes_count,
           i_links_count' = i_links_count, InHand' \subseteq InHand
    PROVE  DiskOK' /\ OneOwner' /\ CountsAgree' /\ AllTiled' /\ Blank' /\ Apart'
<1>. DEFINE f == [SlotsOf(k) EXCEPT ![slot] = s[1]]
            fresh == Elements(s)
<1>1. /\ DOMAIN s = 1 .. 1 /\ s[1] \in Blocks /\ s[1] \notin block_bitmap
  <2>1. 1 \in Nat /\ 1 \in 1 .. 1
    OBVIOUS
  <2>. QED  BY <2>1, FirstFreeFacts
<1>2. fresh = {s[1]}
  BY <1>1 DEF Elements
<1>3. /\ \A j \in Inodes : \A i \in Kept : At(i_block, numbers, j, i) \notin fresh
      /\ fresh \cap InHand = {}
      /\ SameInUse(Zeroed(numbers, s, NoNumbers))
      /\ Zeroed(numbers, s, NoNumbers) \in NumType
  BY FreshFacts
<1>4. /\ f \in [Slots -> Numbers] /\ f[slot] = s[1]
      /\ \A i \in Slots : i # slot => f[i] = At(i_block, numbers, k, i)
  BY <1>1, SlotsOfIs DEF Numbers
<1>5. set_inode_block_number(k, f, Zeroed(numbers, s, NoNumbers))
  OBVIOUS
<1>. HIDE DEF f, fresh
<1>6. Moved(k, f) /\ i_block' \in BlkType /\ numbers' \in NumType
  BY <1>3, <1>4, <1>5, SetFacts
<1>7. DiskOK /\ CountsAgree /\ free_blocks_count \in Nat /\ 1 <= free_blocks_count
      /\ block_bitmap \subseteq Blocks
  BY TypedIs DEF IInv, DiskOK
<1>8. /\ block_bitmap' = block_bitmap \cup fresh /\ block_bitmap' \subseteq Blocks
      /\ free_blocks_count' \in Nat /\ CountsAgree'
  BY <1>7, MarkCount DEF fresh
<1>9. \A c \in Blocks : c # s[1] => dirents'[c] = dirents[c] /\ data'[c] = data[c]
  BY DEF Differs
<1>10. dirents'[s[1]] = block /\ data'[s[1]] = content
  BY DEF Differs
<1>11. DiskOK'
  <2>1. \A c \in Blocks : IsChain(dirents'[c], Inodes)
    BY <1>7, <1>9, <1>10 DEF DiskOK
  <2>2. data' \in [Blocks -> Contents]
    <3>1. \A c \in Blocks : data'[c] \in Contents
      BY <1>7, <1>9, <1>10 DEF DiskOK
    <3>. QED  BY <3>1 DEF Differs, IsFcn
  <2>. QED  BY <1>6, <1>7, <1>8, <2>1, <2>2 DEF DiskOK, Differs
<1>12. Owned(i_block, numbers, block_bitmap, InHand)
  BY OwnedIs DEF IInv
<1>13. FreshSlots(k, f, fresh)
  <2>1. \A i \in Slots : f[i] # 0 => f[i] = At(i_block, numbers, k, i) \/ f[i] \in fresh
    BY <1>2, <1>4
  <2>2. ASSUME NEW i \in Slots, NEW j \in Slots, f[i] # 0, f[i] = f[j]
        PROVE  i = j
    <3>1. CASE i # slot /\ j # slot
      BY <1>4, <1>12, <2>2, <3>1, KeptIs DEF Owned
    <3>2. CASE i = slot /\ j # slot
      BY <1>2, <1>3, <1>4, <2>2, <3>2, KeptIs
    <3>3. CASE i # slot /\ j = slot
      BY <1>2, <1>3, <1>4, <2>2, <3>3, KeptIs
    <3>. QED  BY <3>1, <3>2, <3>3
  <2>. QED  BY <2>1, <2>2 DEF FreshSlots
<1>14. ASSUME NEW j \in Inodes, NEW i \in Kept, At(i_block, numbers, j, i) # 0
       PROVE  /\ At(i_block, numbers, j, i) \in block_bitmap' \ InHand'
              /\ i \in Slots => Good(dirents'[At(i_block, numbers, j, i)],
                                     data'[At(i_block, numbers, j, i)])
  <2>. DEFINE c == At(i_block, numbers, j, i)
  <2>1. /\ c \in Blocks /\ c \in block_bitmap /\ c \notin InHand
        /\ i \in Slots => Good(dirents[c], data[c])
    BY <1>14, PlaceFacts
  <2>2. c # s[1]
    BY <1>2, <1>3
  <2>. HIDE DEF c
  <2>3. dirents'[c] = dirents[c] /\ data'[c] = data[c]
    BY <1>9, <2>1, <2>2
  <2>4. c \in block_bitmap' \ InHand'
    BY <1>8, <2>1
  <2>. QED  BY <2>1, <2>3, <2>4 DEF c
<1>15. ASSUME NEW i \in Slots, f[i] # 0
       PROVE  f[i] \in block_bitmap' \ InHand' /\ Good(dirents'[f[i]], data'[f[i]])
  <2>1. CASE i = slot
    BY <1>2, <1>3, <1>4, <1>8, <1>10, <2>1
  <2>2. CASE i # slot
    BY <1>4, <1>14, <1>15, <2>2, KeptIs
  <2>. QED  BY <2>1, <2>2
<1>16. InHand' \subseteq block_bitmap'
  BY <1>8, <1>12 DEF Owned
<1>17. OneOwner' /\ AllTiled' /\ Apart'
  BY <1>3, <1>6, <1>13, <1>14, <1>15, <1>16, MovedStep
<1>18. Blank'
  <2>1. \A c \in InHand : c \in Blocks /\ c # s[1] /\ dirents[c] = EmptyBlock
    BY <1>2, <1>3, <1>7, <1>12 DEF Owned, IInv, Blank
  <2>. QED  BY <1>9, <2>1 DEF Blank
<1>. QED  BY <1>8, <1>11, <1>17, <1>18

\* The one block that was asked for.
LEMMA OneBlock ==
    ASSUME IInv, NEW s \in FirstFree(1)
    PROVE  /\ s[1] \in Blocks
           /\ \A f, zero, b : b \in Blocks =>
                 Zeroed(f, s, zero)[b] = IF b = s[1] THEN zero ELSE f[b]
<1>1. 1 \in Nat /\ 1 \in 1 .. 1 /\ \A i \in 1 .. 1 : i = 1
  OBVIOUS
<1>2. DOMAIN s = 1 .. 1 /\ s[1] \in Blocks
  BY <1>1, FirstFreeFacts
<1>. QED  BY <1>1, <1>2 DEF Zeroed

\* EXCEPT, and Zeroed, at one block.
LEMMA OneDiffers ==
    ASSUME IInv, NEW s \in FirstFree(1), NEW f, IsFcn(f), DOMAIN f = Blocks, NEW v
    PROVE  /\ Differs([f EXCEPT ![s[1]] = v], f, s[1], v)
           /\ Differs(Zeroed(f, s, v), f, s[1], v)
<1>1. s[1] \in Blocks
  BY OneBlock
<1>2. IsFcn([f EXCEPT ![s[1]] = v])
  BY DEF IsFcn
<1>3. DOMAIN Zeroed(f, s, v) = Blocks /\ IsFcn(Zeroed(f, s, v))
  BY ZeroedFacts
<1>4. \A b \in Blocks : Zeroed(f, s, v)[b] = IF b = s[1] THEN v ELSE f[b]
  BY OneBlock
<1>. QED  BY <1>1, <1>2, <1>3, <1>4 DEF Differs

\* make_entry_in_inode in a block allocated for it.
LEMMA EntryInNewBlockStep == IInv /\ EntryInNewBlock => IInv'
<1>. SUFFICES ASSUME IInv, EntryInNewBlock PROVE IInv'
  OBVIOUS
<1>. DEFINE dir  == Wanted.dir
            inode == Wanted.inode
            name == Wanted.name
            type == Wanted.type
            slot == Min(Unused(dir))
            block == FirstEntry(inode, name, type)
<1>1. CASE Fail
  BY <1>1, FailStep
<1>2. CASE ~Fail
  <2>1. /\ pc \in {"dot", "dotdot", "entry"} /\ pc' = AfterEntry(TRUE)
        /\ Unused(dir) # {} /\ free_blocks_count # 0
        /\ cmd' = [cmd EXCEPT !.made = TRUE]
        /\ UNCHANGED <<inode_bitmap, free_inodes_count, i_links_count, commands>>
    BY <1>2 DEF EntryInNewBlock
  <2>2. PICK s \in FirstFree(1) :
          /\ MarkUsed(s)
          /\ dirents' = [dirents EXCEPT ![s[1]] = block]
          /\ data' = Zeroed(data, s, Zeroes)
          /\ set_inode_block_number(dir, [SlotsOf(dir) EXCEPT ![slot] = s[1]],
                                    Zeroed(numbers, s, NoNumbers))
    BY <1>2 DEF EntryInNewBlock
  <2>3. cmd' \in Locals /\ Control' /\ InHand' = InHand
    BY <2>1, MadeControl
  <2>4. dir \in Inodes /\ inode \in Inodes /\ name \in Names /\ type \in FileTypes
    BY <2>1, WantedType
  <2>. HIDE DEF dir, inode, name, type
  <2>5. slot \in Slots /\ get_inode_block_number(dir, slot) = 0
    <3>1. Unused(dir) \subseteq Nat
      BY Bounds DEF Unused
    <3>2. slot \in Unused(dir)
      BY <2>1, <3>1, MinOfNats
    <3>. QED  BY <3>2 DEF Unused
  <2>. HIDE DEF slot
  <2>6. IsChain(block, Inodes) /\ Good(block, Zeroes)
    BY <2>4, FirstEntryTiles DEF Good, Zeroes
  <2>. HIDE DEF block
  <2>7. DiskOK /\ commands \in 0 .. MaxCommands
    BY TypedIs DEF IInv
  <2>8. IsFcn(dirents) /\ DOMAIN dirents = Blocks /\ IsFcn(data) /\ DOMAIN data = Blocks
    BY <2>7 DEF DiskOK, IsFcn
  <2>9. Differs(dirents', dirents, s[1], block) /\ Differs(data', data, s[1], Zeroes)
    BY <2>2, <2>8, OneDiffers
  <2>10. DiskOK' /\ OneOwner' /\ CountsAgree' /\ AllTiled' /\ Blank' /\ Apart'
    BY <2>1, <2>2, <2>3, <2>4, <2>5, <2>6, <2>9, ZeroesType, AttachStep
  <2>11. Typed'
    BY <2>1, <2>3, <2>7, <2>10, TypedIs
  <2>. QED  BY <2>3, <2>10, <2>11 DEF IInv
<1>. QED  BY <1>1, <1>2

\* The inode a step works on is in the table, and not 0.
LEMMA InodeInTable ==
    ASSUME IInv, pc \in {"path", "dot", "dotdot", "entry", "count", "write", "unlink",
                         "drop", "free", "undo"}
    PROVE  cmd.inode \in Inodes /\ cmd.inode # 0
BY Ext2Assumption DEF IInv, Control

\* The path of a symbolic link is written to a block of its new inode.
LEMMA WritePathStep == IInv /\ write_path_to_symlink_inode /\ ~strayed' => IInv'
<1>. SUFFICES ASSUME IInv, write_path_to_symlink_inode, ~strayed' PROVE IInv'
  OBVIOUS
<1>. DEFINE dir  == cmd.inode
            content == [kind |-> "path", of |-> LeftByStrtok(cmd.src), part |-> 0]
<1>1. CASE Fail
  BY <1>1, FailStep
<1>2. CASE ~Fail
  <2>0. cmd.inode # 0
    BY InodeInTable DEF write_path_to_symlink_inode
  <2>1. /\ pc = "path" /\ pc' = "entry" /\ free_blocks_count # 0
        /\ UNCHANGED <<inode_bitmap, free_inodes_count, i_links_count, cmd, commands>>
    BY <1>2, <2>0 DEF write_path_to_symlink_inode
  <2>2. PICK s \in FirstFree(1) :
          /\ MarkUsed(s)
          /\ dirents' = Zeroed(dirents, s, EmptyBlock)
          /\ data' = [data EXCEPT ![s[1]] = content]
          /\ set_inode_block_number(dir, [SlotsOf(dir) EXCEPT ![0] = s[1]],
                                    Zeroed(numbers, s, NoNumbers))
    BY <1>2, <2>0, NotTaken DEF write_path_to_symlink_inode
  <2>3. cmd \in Locals /\ Control /\ DiskOK /\ commands \in 0 .. MaxCommands
    BY TypedIs DEF IInv
  <2>4. dir \in Inodes /\ Held(dir) = {} /\ cmd.src \in Seq(Names)
    BY <2>1, <2>3 DEF Control, Locals
  <2>5. 0 \in Slots /\ get_inode_block_number(dir, 0) = 0
    BY <2>4, KeptIs DEF Held
  <2>6. content \in Contents
    <3>1. LeftByStrtok(cmd.src) \in Seq(Names)
      <4>1. CASE cmd.src = <<>>
        BY <2>4, <4>1 DEF LeftByStrtok
      <4>2. CASE cmd.src # <<>>
        <5>1. Head(cmd.src) \in Names
          BY <2>4, <4>2
        <5>. QED  BY <4>2, <5>1 DEF LeftByStrtok
      <4>. QED  BY <4>1, <4>2
    <3>. QED  BY <3>1 DEF Contents
  <2>7. IsChain(EmptyBlock, Inodes) /\ Good(EmptyBlock, content)
    BY EmptyTiles DEF Good, EmptyBlock
  <2>. HIDE DEF dir, content
  <2>8. IsFcn(dirents) /\ DOMAIN dirents = Blocks /\ IsFcn(data) /\ DOMAIN data = Blocks
    BY <2>3 DEF DiskOK, IsFcn
  <2>9. Differs(dirents', dirents, s[1], EmptyBlock) /\ Differs(data', data, s[1], content)
    BY <2>2, <2>8, OneDiffers
  <2>10. InHand' \subseteq InHand
    <3>1. cmd.blocks = <<>>
      BY <2>1, <2>3 DEF Control
    <3>. QED  BY <2>1, <3>1, HandIs
  <2>11. DiskOK' /\ OneOwner' /\ CountsAgree' /\ AllTiled' /\ Blank' /\ Apart'
    BY <2>1, <2>2, <2>4, <2>5, <2>6, <2>7, <2>9, <2>10, AttachStep
  <2>12. Typed'
    BY <2>1, <2>3, <2>11, TypedIs
  <2>13. Control'
    BY <2>1, <2>3 DEF Control, Steps
  <2>. QED  BY <2>11, <2>12, <2>13 DEF IInv
<1>. QED  BY <1>1, <1>2

-----------------------------------------------------------------------------
(* Clearing slots *)

\* Some slots of an inode are cleared; what the places still hold is good.
LEMMA ClearStep ==
    ASSUME IInv, NEW k \in Inodes, NEW f \in [Slots -> Numbers],
           \A i \in Slots : f[i] = 0 \/ f[i] = At(i_block, numbers, k, i),
           set_inode_block_number(k, f, numbers),
           InHand' \subseteq InHand, InHand' \subseteq block_bitmap',
           \A j \in Inodes : \A i \in Kept : LET b == At(i_block, numbers, j, i) IN
               b # 0 /\ ~(j = k /\ i \in Slots /\ f[i] = 0) =>
                   /\ b \in block_bitmap'
                   /\ i \in Slots => Good(dirents'[b], data'[b])
    PROVE  /\ OneOwner' /\ AllTiled' /\ Apart'
           /\ Moved(k, f) /\ i_block' \in BlkType /\ numbers' \in NumType
<1>1. numbers \in NumType /\ SameInUse(numbers)
  BY DEF IInv, Typed, NumType, SameInUse
<1>2. Moved(k, f) /\ i_block' \in BlkType /\ numbers' \in NumType
  BY <1>1, SetFacts
<1>3. Owned(i_block, numbers, block_bitmap, InHand)
  BY OwnedIs DEF IInv
<1>4. FreshSlots(k, f, {})
  BY <1>3, KeptIs DEF FreshSlots, Owned
<1>5. ASSUME NEW j \in Inodes, NEW i \in Kept, At(i_block, numbers, j, i) # 0,
             ~(j = k /\ i \in Slots /\ f[i] = 0)
      PROVE  /\ At(i_block, numbers, j, i) \in block_bitmap' \ InHand'
             /\ i \in Slots => Good(dirents'[At(i_block, numbers, j, i)],
                                    data'[At(i_block, numbers, j, i)])
  BY <1>3, <1>5 DEF Owned
<1>6. ASSUME NEW i \in Slots, f[i] # 0
      PROVE  f[i] \in block_bitmap' \ InHand' /\ Good(dirents'[f[i]], data'[f[i]])
  <2>1. f[i] = At(i_block, numbers, k, i) /\ i \in Kept
    BY <1>6, KeptIs
  <2>. QED  BY <1>5, <1>6, <2>1
<1>7. \A j \in Inodes : \A i \in Kept : LET b == At(i_block, numbers, j, i) IN
          b # 0 /\ ~(j = k /\ i \in Slots) =>
              /\ b \in block_bitmap' \ InHand'
              /\ i \in Slots => Good(dirents'[b], data'[b])
  BY <1>5
<1>8. \A j \in Inodes : \A i \in Kept : At(i_block, numbers, j, i) \notin {}
  OBVIOUS
<1>9. OneOwner' /\ AllTiled' /\ Apart'
  BY <1>2, <1>4, <1>6, <1>7, <1>8, MovedStep
<1>. QED  BY <1>2, <1>9

\* A cleared inode.
LEMMA NoSlotsFacts ==
    /\ NoSlots \in [Slots -> Numbers]
    /\ \A i \in Slots : NoSlots[i] = 0
BY DEF NoSlots, Numbers

\* An inode is taken, without block numbers.
LEMMA AllocateInodeStep == IInv /\ AllocateInode => IInv'
<1>. SUFFICES ASSUME IInv, AllocateInode PROVE IInv'
  OBVIOUS
<1>1. CASE Fail
  BY <1>1, FailStep
<1>2. CASE ~Fail
  <2>1. /\ pc = "inode" /\ free_inodes_count # 0
        /\ pc' = AfterAllocation
        /\ UNCHANGED <<block_bitmap, free_blocks_count, dirents, data, commands>>
    BY <1>2 DEF AllocateInode
  <2>2. PICK k \in FreeInodes :
          /\ allocate_inode(k)
          /\ i_links_count' = [i_links_count EXCEPT ![k] = 1]
          /\ cmd' = [cmd EXCEPT !.inode = k]
    BY <1>2 DEF AllocateInode
  <2>3. cmd \in Locals /\ Control /\ DiskOK /\ commands \in 0 .. MaxCommands
    BY TypedIs DEF IInv
  <2>4. k \in Inodes
    BY DEF FreeInodes
  <2>5. /\ free_inodes_count' = free_inodes_count - 1
        /\ inode_bitmap' = inode_bitmap \cup {k}
        /\ set_inode_block_number(k, NoSlots, numbers)
    BY <2>2 DEF allocate_inode, set_bitmap_val
  <2>6. /\ cmd'.op = cmd.op /\ cmd'.comps = cmd.comps /\ cmd'.type = cmd.type
        /\ cmd'.inode = k /\ cmd'.exists = cmd.exists /\ cmd'.parent = cmd.parent
        /\ cmd'.readable = cmd.readable /\ cmd'.size = cmd.size
        /\ cmd'.blocks = cmd.blocks
    BY <2>2, <2>3 DEF Locals
  <2>7. cmd' \in Locals
    BY <2>2, <2>3, <2>4 DEF Locals
  <2>8. \/ cmd.op = "cp" /\ pc' = "entry"
        \/ cmd.op = "mkdir" /\ pc' = "dot"
        \/ cmd.op = "ln_s" /\ pc' = "path"
    BY <2>1, <2>3 DEF Control, AfterAllocation
  <2>9. InHand' \subseteq InHand
    BY <2>1, <2>6, <2>8, HandIs
  <2>10. InHand \subseteq block_bitmap'
    BY <2>1 DEF IInv, OneOwner
  <2>11. /\ OneOwner' /\ AllTiled' /\ Apart'
         /\ Moved(k, NoSlots) /\ i_block' \in BlkType /\ numbers' \in NumType
    <3>1. ASSUME NEW j \in Inodes, NEW i \in Kept, At(i_block, numbers, j, i) # 0
          PROVE  /\ At(i_block, numbers, j, i) \in block_bitmap'
                 /\ i \in Slots => Good(dirents'[At(i_block, numbers, j, i)],
                                        data'[At(i_block, numbers, j, i)])
      BY <2>1, <3>1, PlaceFacts
    <3>. QED  BY <2>4, <2>5, <2>9, <2>10, <3>1, NoSlotsFacts, ClearStep
  <2>12. DiskOK'
    <3>1. free_inodes_count' \in Nat
      BY <2>1, <2>3, <2>5 DEF DiskOK
    <3>2. i_links_count' \in [Inodes -> 0 .. USHRT_MAX]
      <4>1. 1 \in 0 .. USHRT_MAX
        BY DEF USHRT_MAX
      <4>. QED  BY <2>2, <2>3, <4>1 DEF DiskOK
    <3>. QED  BY <2>1, <2>3, <2>4, <2>5, <2>11, <3>1, <3>2 DEF DiskOK
  <2>13. Typed'
    BY <2>1, <2>3, <2>7, <2>12, TypedIs
  <2>14. CountsAgree' /\ Blank'
    BY <2>1, <2>9 DEF IInv, CountsAgree, Blank
  <2>15. Held(cmd.inode)' = {}
    <3>1. \A i \in Slots : At(i_block', numbers', k, i) = 0
      BY <2>4, <2>11, NoSlotsFacts, KeptIs DEF Moved
    <3>2. \A i \in Slots : get_inode_block_number(k, i)' = 0
      BY <3>1, KeptIs, NumberIs DEF At
    <3>. QED  BY <2>6, <3>2 DEF Held
  <2>16. Control'
    BY <2>1, <2>3, <2>4, <2>6, <2>8, <2>15 DEF Control, Steps
  <2>. QED  BY <2>11, <2>13, <2>14, <2>16 DEF IInv
<1>. QED  BY <1>1, <1>2

-----------------------------------------------------------------------------
(* Freeing *)

\* The entry ext2_rm takes out: in a block of the parent that is a directory.
LEMMA UnlinkFacts ==
    ASSUME IInv, pc = "unlink", NEW name, name = listPeek(cmd.comps),
           NEW slot, slot = find_matching_pair(cmd.parent, name)[1],
           NEW b, b = get_inode_block_number(cmd.parent, slot)
    PROVE  /\ cmd.parent \in Inodes /\ name \in Names
           /\ slot \in Slots /\ b \in Blocks
           /\ b = At(i_block, numbers, cmd.parent, slot)
           /\ b \in block_bitmap
           /\ Matching(dirents[b], name) # {}
           /\ IsChain(RemoveEntry(dirents[b], name), Inodes)
           /\ Good(RemoveEntry(dirents[b], name), data[b])
           /\ data[b].kind = "zero"
<1>1. /\ cmd.parent \in Inodes /\ cmd.comps \in Seq(Names) /\ cmd.comps # <<>>
      /\ HasName(cmd.parent, listPeek(cmd.comps))
  BY DEF IInv, Control, Typed, Locals
<1>2. name \in Names
  BY <1>1, PopFacts
<1>. DEFINE p == find_matching_pair(cmd.parent, name)
<1>3. p \in Positions(cmd.parent) /\ EntryAt(cmd.parent, p).name = name
  BY <1>1, FirstPair DEF IInv
<1>. HIDE DEF p
<1>4. /\ p[1] \in Slots /\ get_inode_block_number(cmd.parent, p[1]) \in Blocks
      /\ p[2] \in DOMAIN dirents[get_inode_block_number(cmd.parent, p[1])]
  BY <1>1, <1>3, PositionFacts DEF IInv
<1>5. slot \in Slots /\ b \in Blocks /\ p[2] \in DOMAIN dirents[b]
      /\ dirents[b][p[2]].name = name
  BY <1>3, <1>4 DEF p, EntryAt
<1>6. b = At(i_block, numbers, cmd.parent, slot) /\ b # 0 /\ slot \in Kept
  BY <1>1, <1>5, NumberIs, KeptIs, Bounds DEF At
<1>7. b \in block_bitmap /\ Good(dirents[b], data[b])
  BY <1>1, <1>5, <1>6, PlaceFacts
<1>8. Matching(dirents[b], name) # {}
  BY <1>5 DEF Matching, entry_name_comparison
<1>9. IsChain(dirents[b], Inodes)
  BY <1>5 DEF IInv, Typed
<1>10. /\ IsChain(RemoveEntry(dirents[b], name), Inodes)
       /\ Tiles(RemoveEntry(dirents[b], name))
  BY <1>2, <1>7, <1>8, <1>9, RemoveTiles DEF Good
<1>11. data[b].kind = "zero"
  BY <1>5, <1>7 DEF Good
<1>. QED  BY <1>1, <1>2, <1>5, <1>6, <1>7, <1>8, <1>10, <1>11 DEF Good

\* ext2_rm takes the entry out.
LEMMA DeleteChildEntryStep == IInv /\ delete_child_entry => IInv'
<1>. SUFFICES ASSUME IInv, delete_child_entry PROVE IInv'
  OBVIOUS
<1>. DEFINE name == listPeek(cmd.comps)
            slot == find_matching_pair(cmd.parent, name)[1]
            b    == get_inode_block_number(cmd.parent, slot)
            left == RemoveEntry(dirents[b], name)
            f    == [SlotsOf(cmd.parent) EXCEPT ![slot] = 0]
            dir  == cmd.parent
<1>1. /\ pc = "unlink" /\ pc' = "drop"
      /\ dirents' = [dirents EXCEPT ![b] = left]
      /\ UNCHANGED <<inode_bitmap, free_inodes_count, i_links_count, data, cmd, commands>>
      /\ \/ /\ set_inode_block_number(dir, f, numbers)
            /\ block_bitmap' = set_bitmap_val(block_bitmap, {b}, FALSE)
            /\ free_blocks_count' = free_blocks_count + 1
         \/ UNCHANGED <<i_block, numbers, block_bitmap, free_blocks_count>>
  <2>1. pc = "unlink" /\ data' = Spoilt(b)
    BY DEF delete_child_entry
  <2>2. data' = data
    BY <2>1, UnlinkFacts, NotSpoilt
  <2>. QED  BY <2>2 DEF delete_child_entry
<1>2. /\ dir \in Inodes /\ slot \in Slots /\ b \in Blocks
      /\ b = At(i_block, numbers, dir, slot) /\ b \in block_bitmap
      /\ IsChain(left, Inodes) /\ Good(left, data[b])
  BY <1>1, UnlinkFacts
<1>3. f \in [Slots -> Numbers] /\ f[slot] = 0
      /\ \A i \in Slots : i # slot => f[i] = At(i_block, numbers, dir, i)
  BY <1>2, SlotsOfIs DEF Numbers
<1>. HIDE DEF f, slot, b, left, dir
<1>4. cmd \in Locals /\ Control /\ DiskOK /\ commands \in 0 .. MaxCommands
  BY TypedIs DEF IInv
<1>5. /\ IsFcn(dirents') /\ DOMAIN dirents' = Blocks /\ dirents'[b] = left
      /\ \A c \in Blocks : c # b => dirents'[c] = dirents[c]
  BY <1>1, <1>2, <1>4 DEF DiskOK, IsFcn
<1>6. \A c \in Blocks : IsChain(dirents'[c], Inodes)
  BY <1>2, <1>4, <1>5 DEF DiskOK
<1>7. InHand' = {}
  BY <1>1, HandIs
<1>8. ASSUME NEW j \in Inodes, NEW i \in Kept, At(i_block, numbers, j, i) # 0
      PROVE  /\ At(i_block, numbers, j, i) \in block_bitmap
             /\ i \in Slots => Good(dirents'[At(i_block, numbers, j, i)],
                                    data'[At(i_block, numbers, j, i)])
  <2>. DEFINE c == At(i_block, numbers, j, i)
  <2>1. c \in Blocks /\ c \in block_bitmap /\ (i \in Slots => Good(dirents[c], data[c]))
    BY <1>8, PlaceFacts
  <2>. HIDE DEF c
  <2>2. i \in Slots => Good(dirents'[c], data'[c])
    BY <1>1, <1>2, <1>5, <2>1
  <2>. QED  BY <2>1, <2>2 DEF c
<1>9. /\ OneOwner' /\ AllTiled' /\ Apart' /\ CountsAgree'
      /\ i_block' \in BlkType /\ numbers' \in NumType
      /\ block_bitmap' \subseteq Blocks /\ free_blocks_count' \in Nat
  <2>1. CASE UNCHANGED <<i_block, numbers, block_bitmap, free_blocks_count>>
    <3>1. Unmoved
      BY <2>1 DEF Unmoved
    <3>2. OneOwner' /\ AllTiled' /\ Apart'
      BY <1>7, <1>8, <2>1, <3>1, UnmovedStep
    <3>. QED  BY <1>4, <2>1, <3>2 DEF DiskOK, IInv, CountsAgree
  <2>2. CASE /\ set_inode_block_number(dir, f, numbers)
             /\ block_bitmap' = set_bitmap_val(block_bitmap, {b}, FALSE)
             /\ free_blocks_count' = free_blocks_count + 1
    <3>1. IsFiniteSet({b}) /\ Cardinality({b}) = 1
      BY FS_Singleton
    <3>2. /\ block_bitmap' = block_bitmap \ {b}
          /\ free_blocks_count' \in Nat /\ CountsAgree'
      <4>1. /\ {b} \subseteq block_bitmap /\ CountsAgree /\ block_bitmap \subseteq Blocks
            /\ free_blocks_count \in Nat
        BY <1>2, <1>4 DEF DiskOK, IInv
      <4>. QED  BY <2>2, <3>1, <4>1, ReleaseCount
    <3>3. Owned(i_block, numbers, block_bitmap, InHand)
      BY OwnedIs DEF IInv
    <3>4. ASSUME NEW j \in Inodes, NEW i \in Kept, At(i_block, numbers, j, i) # 0,
                 ~(j = dir /\ i \in Slots /\ f[i] = 0)
          PROVE  /\ At(i_block, numbers, j, i) \in block_bitmap'
                 /\ i \in Slots => Good(dirents'[At(i_block, numbers, j, i)],
                                        data'[At(i_block, numbers, j, i)])
      <4>1. ~(j = dir /\ i = slot)
        BY <1>2, <1>3, <3>4
      <4>2. At(i_block, numbers, j, i) # b
        BY <1>2, <3>3, <3>4, <4>1, KeptIs DEF Owned
      <4>. QED  BY <1>8, <3>2, <3>4, <4>2
    <3>5. \A i \in Slots : f[i] = 0 \/ f[i] = At(i_block, numbers, dir, i)
      BY <1>3
    <3>6. /\ OneOwner' /\ AllTiled' /\ Apart'
          /\ i_block' \in BlkType /\ numbers' \in NumType
      <4>1. InHand' \subseteq InHand /\ InHand' \subseteq block_bitmap'
        BY <1>7
      <4>2. \A j \in Inodes : \A i \in Kept : LET c == At(i_block, numbers, j, i) IN
                c # 0 /\ ~(j = dir /\ i \in Slots /\ f[i] = 0) =>
                    /\ c \in block_bitmap'
                    /\ i \in Slots => Good(dirents'[c], data'[c])
        BY <3>4
      <4>3. set_inode_block_number(dir, f, numbers)
        BY <2>2
      <4>. QED  BY <1>2, <1>3, <3>5, <4>1, <4>2, <4>3, ClearStep
    <3>. QED  BY <1>4, <3>2, <3>6 DEF DiskOK
  <2>. QED  BY <1>1, <2>1, <2>2
<1>10. DiskOK'
  BY <1>1, <1>4, <1>5, <1>6, <1>9 DEF DiskOK
<1>11. Typed'
  BY <1>1, <1>4, <1>10, TypedIs
<1>12. Blank'
  BY <1>7 DEF Blank
<1>13. cmd' = cmd
  BY <1>1
<1>14. Control'
  BY <1>1, <1>4, <1>13 DEF Control, Steps
<1>. QED  BY <1>9, <1>11, <1>12, <1>14 DEF IInv

\* An inode has as many blocks as it uses slots.
LEMMA HeldCount ==
    ASSUME IInv, NEW k \in Inodes, NEW held, held = {i \in Slots : SlotsOf(k)[i] # 0},
           NEW T, T = {SlotsOf(k)[i] : i \in held}
    PROVE  /\ IsFiniteSet(T) /\ Cardinality(T) = Cardinality(held)
           /\ T \subseteq block_bitmap
           /\ \A i \in Slots : At(i_block, numbers, k, i) # 0
                                  => At(i_block, numbers, k, i) \in T
           /\ \A c \in T : \E i \in Slots : At(i_block, numbers, k, i) # 0
                                               /\ c = At(i_block, numbers, k, i)
<1>1. \A i \in Slots : SlotsOf(k)[i] = At(i_block, numbers, k, i) /\ i \in Kept
  BY SlotsOfIs, KeptIs
<1>2. Owned(i_block, numbers, block_bitmap, InHand)
  BY OwnedIs DEF IInv
<1>3. IsFiniteSet(held)
  <2>1. IsFiniteSet(Slots)
    BY Bounds, FS_Interval DEF Slots
  <2>. QED  BY <2>1, FS_Subset
<1>. DEFINE g == [i \in held |-> SlotsOf(k)[i]]
<1>4. g \in Bijection(held, T)
  <2>1. g \in [held -> T]
    OBVIOUS
  <2>2. \A i, j \in held : g[i] = g[j] => i = j
    BY <1>1, <1>2 DEF Owned
  <2>3. \A c \in T : \E i \in held : g[i] = c
    OBVIOUS
  <2>. QED  BY <2>1, <2>2, <2>3 DEF Bijection, Injection, Surjection, IsInjective
<1>5. ExistsBijection(held, T)
  BY <1>4 DEF ExistsBijection
<1>6. IsFiniteSet(T) /\ Cardinality(T) = Cardinality(held)
  BY <1>3, <1>5, FS_Bijection
<1>7. T \subseteq block_bitmap
  BY <1>1, <1>2 DEF Owned
<1>8. \A i \in Slots : At(i_block, numbers, k, i) # 0 => At(i_block, numbers, k, i) \in T
  BY <1>1
<1>9. \A c \in T : \E i \in Slots : At(i_block, numbers, k, i) # 0
                                       /\ c = At(i_block, numbers, k, i)
  BY <1>1
<1>. QED  BY <1>6, <1>7, <1>8, <1>9

\* An inode and its blocks are given back.
LEMMA ReleaseInodeStep == IInv /\ release_inode => IInv'
<1>. SUFFICES ASSUME IInv, release_inode PROVE IInv'
  OBVIOUS
<1>. DEFINE k == cmd.inode
            held == {i \in Slots : SlotsOf(k)[i] # 0}
            T == {SlotsOf(k)[i] : i \in held}
<1>1. /\ pc \in {"free", "undo"} /\ pc' \in {"ok", "exit"}
      /\ UNCHANGED <<i_links_count, dirents, data, cmd, commands>>
      /\ free_inode(k)
  BY DEF release_inode
<1>2. /\ block_bitmap' = set_bitmap_val(block_bitmap, T, FALSE)
      /\ free_blocks_count' = free_blocks_count + Cardinality(held)
      /\ inode_bitmap' = inode_bitmap \ {k}
      /\ free_inodes_count' = free_inodes_count + 1
      /\ set_inode_block_number(k, NoSlots, numbers)
  BY <1>1 DEF free_inode, set_bitmap_val
<1>3. cmd \in Locals /\ Control /\ DiskOK /\ commands \in 0 .. MaxCommands
  BY TypedIs DEF IInv
<1>4. k \in Inodes
  BY <1>1, <1>3 DEF Control
<1>5. /\ IsFiniteSet(T) /\ Cardinality(T) = Cardinality(held) /\ T \subseteq block_bitmap
      /\ \A i \in Slots : At(i_block, numbers, k, i) # 0 => At(i_block, numbers, k, i) \in T
      /\ \A c \in T : \E i \in Slots : At(i_block, numbers, k, i) # 0
                                          /\ c = At(i_block, numbers, k, i)
  BY <1>4, HeldCount
<1>. HIDE DEF T, held
<1>6. /\ block_bitmap' = block_bitmap \ T
      /\ free_blocks_count' \in Nat /\ CountsAgree'
  <2>1. CountsAgree /\ block_bitmap \subseteq Blocks /\ free_blocks_count \in Nat
    BY <1>3 DEF DiskOK, IInv
  <2>2. free_blocks_count' = free_blocks_count + Cardinality(T)
    BY <1>2, <1>5
  <2>. QED  BY <1>2, <1>5, <2>1, <2>2, ReleaseCount
<1>7. InHand' = {}
  BY <1>1, HandIs
<1>8. Owned(i_block, numbers, block_bitmap, InHand)
  BY OwnedIs DEF IInv
<1>9. ASSUME NEW j \in Inodes, NEW i \in Kept, At(i_block, numbers, j, i) # 0,
             ~(j = k /\ i \in Slots /\ NoSlots[i] = 0)
      PROVE  /\ At(i_block, numbers, j, i) \in block_bitmap'
             /\ i \in Slots => Good(dirents'[At(i_block, numbers, j, i)],
                                    data'[At(i_block, numbers, j, i)])
  <2>1. ~(j = k /\ i \in Slots)
    BY <1>9, NoSlotsFacts
  <2>2. At(i_block, numbers, j, i) \notin T
    BY <1>4, <1>5, <1>8, <1>9, <2>1, KeptIs DEF Owned
  <2>. QED  BY <1>1, <1>6, <1>9, <2>2, PlaceFacts
<1>10. /\ OneOwner' /\ AllTiled' /\ Apart'
       /\ i_block' \in BlkType /\ numbers' \in NumType
  <2>1. \A j \in Inodes : \A i \in Kept : LET c == At(i_block, numbers, j, i) IN
            c # 0 /\ ~(j = k /\ i \in Slots /\ NoSlots[i] = 0) =>
                /\ c \in block_bitmap'
                /\ i \in Slots => Good(dirents'[c], data'[c])
    BY <1>9
  <2>2. InHand' \subseteq InHand /\ InHand' \subseteq block_bitmap'
    BY <1>7
  <2>3. /\ set_inode_block_number(k, NoSlots, numbers)
        /\ \A i \in Slots : NoSlots[i] = 0 \/ NoSlots[i] = At(i_block, numbers, k, i)
    BY <1>2, NoSlotsFacts
  <2>. HIDE DEF k
  <2>. QED  BY <1>4, <2>1, <2>2, <2>3, NoSlotsFacts, ClearStep
<1>11. DiskOK'
  <2>1. /\ inode_bitmap' \subseteq Inodes /\ free_inodes_count' \in Nat
        /\ block_bitmap' \subseteq Blocks
    <3>1. free_inodes_count' = free_inodes_count + 1 /\ inode_bitmap' = inode_bitmap \ {k}
      BY <1>2
    <3>2. /\ inode_bitmap \subseteq Inodes /\ free_inodes_count \in Nat
          /\ block_bitmap \subseteq Blocks
      BY <1>3 DEF DiskOK
    <3>. QED  BY <1>6, <3>1, <3>2
  <2>2. /\ i_links_count' = i_links_count /\ dirents' = dirents /\ data' = data
    BY <1>1
  <2>. QED  BY <1>3, <1>6, <1>10, <2>1, <2>2 DEF DiskOK
<1>12. Typed'
  BY <1>1, <1>3, <1>11, TypedIs
<1>13. Blank'
  BY <1>7 DEF Blank
<1>14. Control'
  BY <1>1 DEF Control, Steps
<1>. QED  BY <1>6, <1>10, <1>12, <1>13, <1>14 DEF IInv

-----------------------------------------------------------------------------
(* Copying *)

\* What cp_data writes: the slots that get a block, the block numbers of the
\* inode, and the piece of the file that is in a block.
Copied == {i \in Slots : i < cmd.readable}
CopySlots == [i \in Slots |-> IF i \in Copied THEN cmd.blocks[i + 1] ELSE 0]
Piece(i) == [kind |-> "file", of |-> cmd.src, part |-> i]

\* The data of a copy goes to the blocks in hand, in order, and they replace
\* the block numbers of its inode.
LEMMA CpDataFacts ==
    ASSUME IInv, cp_data
    PROVE  /\ cmd.inode \in Inodes /\ Moved(cmd.inode, CopySlots)
           /\ i_block' \in BlkType /\ numbers' \in NumType
           /\ \A i \in Slots : CopySlots[i] # 0 => i \in Copied
           /\ \A i \in Copied : /\ CopySlots[i] = cmd.blocks[i + 1]
                                /\ CopySlots[i] \in InHand /\ CopySlots[i] \in Blocks
                                /\ data'[CopySlots[i]] = Piece(i)
           /\ \A i, j \in Copied : CopySlots[i] = CopySlots[j] => i = j
           /\ data' \in [Blocks -> Contents]
           /\ \A b \in Blocks : b \notin InHand => data'[b] = data[b]
<1>. DEFINE piece(b) == [kind |-> "file", of |-> cmd.src,
                         part |-> CHOOSE i \in Copied : cmd.blocks[i + 1] = b]
<1>1. /\ pc = "write"
      /\ set_inode_block_number(cmd.inode, CopySlots, numbers)
      /\ data' = [b \in Blocks |-> IF \E i \in Copied : cmd.blocks[i + 1] = b
                                   THEN piece(b) ELSE data[b]]
  BY DEF cp_data, CopySlots, Copied
<1>2. cmd \in Locals /\ Control /\ DiskOK
  BY TypedIs DEF IInv
<1>3. /\ cmd.inode \in Inodes /\ cmd.blocks \in Seq(Blocks) /\ cmd.src \in Seq(Names)
      /\ cmd.size \in Nat /\ cmd.readable \in Nat /\ cmd.readable <= cmd.size
      /\ Len(cmd.blocks) = cmd.size /\ Distinct(cmd.blocks)
  BY <1>1, <1>2 DEF Control, Locals
<1>4. DOMAIN cmd.blocks = 1 .. cmd.size /\ \A i \in 1 .. cmd.size : cmd.blocks[i] \in Blocks
  BY <1>3, ElementOfSeq
<1>5. \A i \in Copied : i \in Slots /\ i \in Nat /\ i + 1 \in DOMAIN cmd.blocks
  <2>1. ASSUME NEW i \in Copied
        PROVE  i \in Slots /\ i \in Nat /\ i < cmd.readable
    BY Bounds DEF Copied
  <2>2. ASSUME NEW i \in Copied PROVE i + 1 \in 1 .. cmd.size
    <3>. HIDE DEF Copied
    <3>. QED  BY <1>3, <2>1
  <2>. QED  BY <1>4, <2>1, <2>2
<1>6. InHand = Elements(cmd.blocks)
  BY <1>1, HandIs
<1>7. \A i \in Copied : cmd.blocks[i + 1] \in InHand /\ cmd.blocks[i + 1] \in Blocks
  BY <1>4, <1>5, <1>6 DEF Elements
<1>8. /\ CopySlots \in [Slots -> Numbers]
      /\ \A i \in Slots : CopySlots[i] # 0 => i \in Copied
      /\ \A i \in Copied : CopySlots[i] = cmd.blocks[i + 1]
  BY <1>5, <1>7 DEF Numbers, CopySlots
<1>9. \A i, j \in Copied : cmd.blocks[i + 1] = cmd.blocks[j + 1] => i = j
  <2>1. SUFFICES ASSUME NEW i \in Copied, NEW j \in Copied,
                        cmd.blocks[i + 1] = cmd.blocks[j + 1]
                 PROVE  i = j
    OBVIOUS
  <2>2. i + 1 = j + 1
    BY <1>3, <1>5, <2>1 DEF Distinct
  <2>. QED  BY <1>5, <2>2
<1>10. \A b \in Blocks : b \notin InHand => data'[b] = data[b]
  BY <1>1, <1>7
<1>11. \A b \in Blocks : (\E i \in Copied : cmd.blocks[i + 1] = b) => piece(b) \in Contents
  <2>1. SUFFICES ASSUME NEW b \in Blocks, \E i \in Copied : cmd.blocks[i + 1] = b
                 PROVE  piece(b) \in Contents
    OBVIOUS
  <2>2. (CHOOSE i \in Copied : cmd.blocks[i + 1] = b) \in Nat
    BY <1>5, <2>1
  <2>. QED  BY <1>3, <2>2 DEF Contents
<1>12. ASSUME NEW i \in Copied PROVE data'[cmd.blocks[i + 1]] = Piece(i)
  <2>. DEFINE b == cmd.blocks[i + 1]
  <2>1. b \in Blocks
    BY <1>7
  <2>2. data'[b] = piece(b)
    BY <1>1, <2>1
  <2>3. (CHOOSE j \in Copied : cmd.blocks[j + 1] = b) = i
    BY <1>9
  <2>. QED  BY <2>2, <2>3 DEF Piece
<1>. HIDE DEF piece
<1>13. data' \in [Blocks -> Contents]
  BY <1>1, <1>2, <1>11 DEF DiskOK
<1>14. /\ Moved(cmd.inode, CopySlots)
       /\ i_block' \in BlkType /\ numbers' \in NumType
  <2>1. numbers \in NumType /\ SameInUse(numbers)
    BY <1>2 DEF DiskOK, SameInUse
  <2>. QED  BY <1>1, <1>3, <1>8, <2>1, SetFacts
<1>. QED  BY <1>3, <1>7, <1>8, <1>9, <1>10, <1>12, <1>13, <1>14

\* ext2_cp ends with a sound disk.
LEMMA CpDataStep == IInv /\ cp_data /\ ~strayed' => IInv'
<1>. SUFFICES ASSUME IInv, cp_data, ~strayed' PROVE IInv'
  OBVIOUS
<1>1. /\ pc = "write" /\ pc' = "ok"
      /\ UNCHANGED <<bitmapVars, i_links_count, dirents, cmd, commands>>
  BY NotTaken DEF cp_data
<1>2. cmd \in Locals /\ DiskOK /\ commands \in 0 .. MaxCommands
  BY TypedIs DEF IInv
<1>3. /\ cmd.inode \in Inodes /\ Moved(cmd.inode, CopySlots)
      /\ i_block' \in BlkType /\ numbers' \in NumType
      /\ \A i \in Slots : CopySlots[i] # 0 => CopySlots[i] \in InHand
      /\ \A i, j \in Slots : CopySlots[i] # 0 /\ CopySlots[i] = CopySlots[j] => i = j
      /\ data' \in [Blocks -> Contents]
      /\ \A b \in Blocks : b \notin InHand => data'[b] = data[b]
  BY CpDataFacts
<1>4. FreshSlots(cmd.inode, CopySlots, InHand)
  BY <1>3 DEF FreshSlots
<1>5. InHand' = {}
  BY <1>1, HandIs
<1>6. block_bitmap' = block_bitmap /\ inode_bitmap' = inode_bitmap
       /\ free_blocks_count' = free_blocks_count
       /\ free_inodes_count' = free_inodes_count
       /\ dirents' = dirents
  BY <1>1 DEF bitmapVars
<1>7. ASSUME NEW j \in Inodes, NEW i \in Kept, At(i_block, numbers, j, i) # 0
       PROVE  /\ At(i_block, numbers, j, i) \in block_bitmap' \ InHand'
              /\ At(i_block, numbers, j, i) \notin InHand
              /\ i \in Slots => Good(dirents'[At(i_block, numbers, j, i)],
                                     data'[At(i_block, numbers, j, i)])
  BY <1>3, <1>5, <1>6, <1>7, PlaceFacts
<1>8. \A j \in Inodes : \A i \in Kept : At(i_block, numbers, j, i) \notin InHand
  <2>1. 0 \notin InHand
    BY <1>2, Bounds DEF IInv, OneOwner, DiskOK
  <2>. QED  BY <1>7, <2>1
<1>9. ASSUME NEW i \in Slots, CopySlots[i] # 0
       PROVE  /\ CopySlots[i] \in block_bitmap' \ InHand'
              /\ Good(dirents'[CopySlots[i]], data'[CopySlots[i]])
  <2>1. CopySlots[i] \in block_bitmap /\ dirents[CopySlots[i]] = EmptyBlock
    BY <1>3, <1>9 DEF IInv, OneOwner, Blank
  <2>2. Good(EmptyBlock, data'[CopySlots[i]])
    BY EmptyTiles DEF Good, EmptyBlock
  <2>. QED  BY <1>5, <1>6, <2>1, <2>2
<1>10. OneOwner' /\ AllTiled' /\ Apart'
  <2>1. \A j \in Inodes : \A i \in Kept : LET b == At(i_block, numbers, j, i) IN
            b # 0 /\ ~(j = cmd.inode /\ i \in Slots) =>
                /\ b \in block_bitmap' \ InHand'
                /\ i \in Slots => Good(dirents'[b], data'[b])
    BY <1>7
  <2>2. InHand' \subseteq block_bitmap'
    BY <1>5
  <2>. QED  BY <1>3, <1>4, <1>8, <1>9, <2>1, <2>2, MovedStep
<1>11. DiskOK'
  BY <1>1, <1>2, <1>3, <1>6 DEF DiskOK
<1>12. Typed'
  BY <1>1, <1>2, <1>11, TypedIs
<1>13. CountsAgree' /\ Blank'
  BY <1>5, <1>6 DEF IInv, CountsAgree, Blank
<1>14. Control'
  BY <1>1 DEF Control, Steps
<1>. QED  BY <1>10, <1>12, <1>13, <1>14 DEF IInv

-----------------------------------------------------------------------------
(* Every reachable state *)

\* The invariant rules out that a step works on an inode the table does not
\* have, or strays by it.
LEMMA KilledStep == IInv /\ Killed => IInv'
BY FailStep DEF Killed

\* To find no free inode is to stray.
LEMMA AllocateNoInodeStrays == AllocateNoInode => strayed'
BY DEF AllocateNoInode, TakenForEntries

\* Every step of a command preserves the invariant, or strays.
LEMMA StepStep == IInv /\ Step /\ ~strayed' => IInv'
BY AllocateBlocksStep, CpDestinationStep, AllocateInodeStep, WritePathStep,
   EntryInExistingBlockStep, EntryInNewBlockStep, EntryNowhereStep,
   CountLinkStep, CpDataStep, DeleteChildEntryStep, DropLinkStep,
   ReleaseInodeStep, ReturnStep, KilledStep, AllocateNoInodeStrays
   DEF Step

\* So does a step that changes nothing.
LEMMA StutterStep == IInv /\ UNCHANGED vars => IInv'
<1>. SUFFICES ASSUME IInv, UNCHANGED vars PROVE IInv'
  OBVIOUS
<1>1. UNCHANGED <<diskVars, commands>> /\ cmd' = cmd /\ pc' = pc
  BY DEF vars, diskVars, bitmapVars, inodeVars, blockVars
<1>2. InHand' \subseteq InHand
  BY <1>1, HandIs
<1>3. i_block' = i_block /\ numbers' = numbers /\ dirents' = dirents
  BY DEF vars
<1>4. HasName(cmd.parent, listPeek(cmd.comps))' <=> HasName(cmd.parent, listPeek(cmd.comps))
  BY <1>1, <1>3 DEF HasName, listPeek
<1>5. Held(cmd.inode)' = Held(cmd.inode)
  BY <1>1, <1>3 DEF Held, get_inode_block_number
<1>6. Control
  BY DEF IInv
<1>7. Control'
  BY <1>1, <1>4, <1>5, <1>6 DEF Control
<1>8. cmd' \in Locals
  BY <1>1 DEF IInv, Typed
<1>. QED  BY <1>1, <1>2, <1>7, <1>8, LocalStep

\* An image that is fit to be worked on: every block number is kept once and
\* marked as used, the blocks of every inode are tiled, and none of them is a
\* directory's and a file's.
Sound == OneOwner /\ AllTiled /\ Apart

\* A sound image satisfies the invariant.
LEMMA InitIInv == Init /\ Sound => IInv
<1>. SUFFICES ASSUME Init, Sound PROVE IInv
  OBVIOUS
<1>1. PICK image \in Images :
        /\ block_bitmap = image.block_bitmap
        /\ inode_bitmap = image.inode_bitmap
        /\ i_links_count = image.i_links_count
        /\ i_block = image.i_block
        /\ dirents = image.dirents
        /\ numbers = image.numbers
        /\ data = image.data
  BY DEF Init, LoadImage
<1>2. /\ block_bitmap \subseteq Blocks /\ inode_bitmap \subseteq Inodes
      /\ i_links_count \in [Inodes -> 0 .. USHRT_MAX]
      /\ i_block \in [Inodes -> [0 .. INDIRECT1_INDEX -> Numbers]]
      /\ numbers \in [Blocks -> [Indices -> Numbers]]
      /\ IsFcn(dirents) /\ DOMAIN dirents = Blocks
      /\ \A b \in Blocks : IsChain(dirents[b], Inodes)
      /\ data \in [Blocks -> Contents]
  BY <1>1, ImagesAssumption
<1>3. free_blocks_count \in Nat /\ free_inodes_count \in Nat
  BY Ext2Assumption, FS_Difference, FS_CardinalityType DEF Init
<1>4. cmd \in Locals /\ commands \in 0 .. MaxCommands
  BY Ext2Assumption, NoCommandType DEF Init
<1>5. Typed
  BY <1>2, <1>3, <1>4 DEF Typed
<1>6. Control
  BY DEF Init, Control, Steps
<1>7. CountsAgree /\ Blank
  BY HandIs DEF Init, CountsAgree, Blank, NoCommand
<1>. QED  BY <1>5, <1>6, <1>7 DEF IInv, Sound

\* A disk that has strayed stays so.
LEMMA StepStays == Step /\ ~strayed' => ~strayed
<1>. SUFFICES ASSUME Step, ~strayed' PROVE ~strayed
  OBVIOUS
<1>1. CASE cp_destination
  BY <1>1, NotTaken DEF cp_destination
<1>2. CASE AllocateNoInode
  BY <1>2, AllocateNoInodeStrays
<1>3. CASE write_path_to_symlink_inode
  BY <1>3, NotTaken DEF write_path_to_symlink_inode
<1>4. CASE cp_data
  BY <1>4, NotTaken DEF cp_data
<1>5. CASE UNCHANGED strayed
  BY <1>5
<1>. QED  BY <1>1, <1>2, <1>3, <1>4, <1>5 DEF Step

\* It does not matter whether a command runs.
LEMMA Stays == [Next]_vars /\ ~strayed' => ~strayed
BY StepStays, CommandIsGiven DEF Next, vars

\* From a fit image, the invariant holds in every state of any number of
\* commands, wherever they fail, until one strays: takes content for entries,
\* or no inode for one.
THEOREM Invariance == Spec /\ Sound => [](strayed \/ IInv)
<1>1. Init /\ Sound => IInv
  BY InitIInv
<1>2. (strayed \/ IInv) /\ [Next]_vars => (strayed \/ IInv)'
  BY CommandStep, StepStep, StutterStep, Stays DEF Next
<1>. QED  BY <1>1, <1>2, PTL DEF Spec

\* Whether a disk has strayed is known.
LEMMA StrayedType == Spec => [](strayed \in BOOLEAN)
<1>1. Init => strayed \in BOOLEAN
  BY DEF Init
<1>2. strayed \in BOOLEAN /\ [Next]_vars => (strayed \in BOOLEAN)'
  <2>1. SUFFICES ASSUME strayed \in BOOLEAN, [Next]_vars PROVE strayed' \in BOOLEAN
    OBVIOUS
  <2>2. ASSUME NEW stray, NEW entries, NEW content, TakenForEntries(stray, entries, content)
        PROVE  strayed' \in BOOLEAN
    BY <2>2 DEF TakenForEntries
  <2>3. CASE Command
    <3>1. ASSUME NEW src, NEW dest, NEW sym, ext2_ln(src, dest, sym)
          PROVE  strayed' \in BOOLEAN
      BY <2>2, <3>1 DEF ext2_ln
    <3>. QED  BY <2>1, <2>3, <3>1 DEF Command
  <2>4. CASE Step
    <3>1. CASE cp_destination
      BY <2>1, <2>2, <3>1 DEF cp_destination
    <3>2. CASE AllocateNoInode
      BY <2>2, <3>2 DEF AllocateNoInode
    <3>3. CASE write_path_to_symlink_inode
      BY <2>1, <2>2, <3>3 DEF write_path_to_symlink_inode
    <3>4. CASE cp_data
      BY <2>2, <3>4 DEF cp_data
    <3>5. CASE UNCHANGED strayed
      BY <2>1, <3>5
    <3>. QED  BY <2>4, <3>1, <3>2, <3>3, <3>4, <3>5 DEF Step
  <2>. QED  BY <2>1, <2>3, <2>4 DEF Next, vars
<1>. QED  BY <1>1, <1>2, PTL DEF Spec

\* Until a command strays, the image keeps its shape, the numbers their ranges,
\* and rec_len never wraps to 0.
THEOREM TypeCorrect == Spec /\ Sound => [](strayed \/ TypeOK)
<1>1. IInv /\ strayed \in BOOLEAN => strayed \/ TypeOK
  BY DEF IInv, Typed, TypeOK
<1>. QED  BY <1>1, Invariance, StrayedType, PTL

\* Until a command strays, no block is in two places, or in one and free, or in
\* one and about to be attached to another.
THEOREM Ownership == Spec /\ Sound => [](strayed \/ OneOwner)
<1>1. IInv => OneOwner
  BY DEF IInv
<1>. QED  BY <1>1, Invariance, PTL

\* Until a command strays, allocate_blocks may trust the free counter.
THEOREM Counting == Spec /\ Sound => [](strayed \/ CountsAgree)
<1>1. IInv => CountsAgree
  BY DEF IInv
<1>. QED  BY <1>1, Invariance, PTL

\* The entries of a directory block cover it, whatever has been inserted and
\* deleted, until a command strays.
THEOREM TiledUntilAstray == Spec /\ Sound => [](strayed \/ Tiling)
<1>1. IInv => strayed \/ Tiling
  BY DEF IInv, AllTiled, Tiling
<1>. QED  BY <1>1, Invariance, PTL

-----------------------------------------------------------------------------
(* What is never lost *)

\* The content of block slot i of inode k survives the step, or the step is
\* one that may change it.
Intact ==
    \A k \in inode_bitmap : \A i \in Held(k) :
        LET content == data[get_inode_block_number(k, i)]
        IN  content.kind = "zero"
            \/ (k = cmd.inode /\ pc \in {"write", "free", "undo"})
            \/ (i \in Held(k)' /\ content = data'[get_inode_block_number(k, i)'])

\* Intact, from what the step does to places and to the blocks in them.
LEMMA IntactIs ==
    ASSUME IInv,
           \A k \in inode_bitmap : \A i \in Slots : LET b == At(i_block, numbers, k, i) IN
               b # 0 => \/ data[b].kind = "zero"
                        \/ k = cmd.inode /\ pc \in {"write", "free", "undo"}
                        \/ At(i_block', numbers', k, i) = b /\ data'[b] = data[b]
    PROVE  Intact
<1>1. \A k \in inode_bitmap : \A i \in Slots :
        /\ get_inode_block_number(k, i) = At(i_block, numbers, k, i)
        /\ get_inode_block_number(k, i)' = At(i_block', numbers', k, i)
  BY KeptIs, NumberIs DEF At
<1>. QED  BY <1>1 DEF Intact, Held

\* A step that moves no place and overwrites no block in one.
LEMMA UnmovedIntact ==
    ASSUME IInv, Unmoved, \A b \in Blocks : b \in block_bitmap \ InHand => data'[b] = data[b]
    PROVE  Intact
<1>1. ASSUME NEW k \in inode_bitmap, NEW i \in Slots, At(i_block, numbers, k, i) # 0
      PROVE  /\ At(i_block', numbers', k, i) = At(i_block, numbers, k, i)
             /\ data'[At(i_block, numbers, k, i)] = data[At(i_block, numbers, k, i)]
  <2>1. k \in Inodes /\ i \in Kept
    BY KeptIs DEF IInv, Typed
  <2>. QED  BY <1>1, <2>1, PlaceFacts DEF Unmoved
<1>. QED  BY <1>1, IntactIs

\* A step that moves the slots of inode n, and overwrites no block in a place.
LEMMA MovedIntact ==
    ASSUME IInv, NEW n \in Inodes, NEW f, Moved(n, f),
           \A b \in Blocks : b \in block_bitmap \ InHand => data'[b] = data[b],
           \/ n \notin inode_bitmap
           \/ n = cmd.inode /\ pc \in {"write", "free", "undo"}
           \/ \A i \in Slots : LET b == At(i_block, numbers, n, i) IN
                 b # 0 => f[i] = b \/ data[b].kind = "zero"
    PROVE  Intact
<1>1. ASSUME NEW k \in inode_bitmap, NEW i \in Slots, At(i_block, numbers, k, i) # 0
      PROVE  \/ data[At(i_block, numbers, k, i)].kind = "zero"
             \/ k = cmd.inode /\ pc \in {"write", "free", "undo"}
             \/ /\ At(i_block', numbers', k, i) = At(i_block, numbers, k, i)
                /\ data'[At(i_block, numbers, k, i)] = data[At(i_block, numbers, k, i)]
  <2>1. k \in Inodes /\ i \in Kept
    BY KeptIs DEF IInv, Typed
  <2>2. data'[At(i_block, numbers, k, i)] = data[At(i_block, numbers, k, i)]
    BY <1>1, <2>1, PlaceFacts
  <2>3. CASE k # n
    BY <2>1, <2>2, <2>3 DEF Moved
  <2>4. CASE k = n
    <3>1. i < INDIRECT1_INDEX \/ i_block[k][INDIRECT1_INDEX] # 0
      BY <1>1, KeptIs DEF At, NumberIn
    <3>2. At(i_block', numbers', k, i) = f[i]
      BY <2>1, <2>4, <3>1 DEF Moved
    <3>. QED  BY <1>1, <2>2, <2>4, <3>2
  <2>. QED  BY <2>3, <2>4
<1>. QED  BY <1>1, IntactIs

\* Blocks that were free are no one's content.
LEMMA FreshIntact ==
    ASSUME IInv, NEW n \in Nat, NEW s \in FirstFree(n), NEW b \in block_bitmap \ InHand
    PROVE  b \in Blocks /\ b \notin Elements(s)
BY FreshFacts DEF IInv, Typed

\* Steps that leave the blocks alone.
LEMMA FrameIntact ==
    ASSUME IInv, i_block' = i_block, numbers' = numbers, data' = data
    PROVE  Intact
<1>1. Unmoved
  BY DEF Unmoved
<1>. QED  BY <1>1, UnmovedIntact

\* What an entry is written into is no content.
LEMMA EntrySpoilsNothing ==
    ASSUME IInv, EntryInExistingBlock
    PROVE  data' = data
<1>. DEFINE dir  == Wanted.dir
            name == Wanted.name
            slot == Min(Accepting(dir, name))
            b    == get_inode_block_number(dir, slot)
<1>1. /\ pc \in {"dot", "dotdot", "entry"}
      /\ Accepting(dir, name) # {}
      /\ data' = Spoilt(b)
  BY DEF EntryInExistingBlock
<1>2. dir \in Inodes
  BY <1>1, WantedType
<1>. HIDE DEF dir, name
<1>3. slot \in Accepting(dir, name)
  <2>1. Accepting(dir, name) \subseteq Nat
    BY Bounds DEF Accepting
  <2>. QED  BY <1>1, <2>1, MinOfNats
<1>4. slot \in Slots /\ b # 0 /\ HasRoom(dirents[b], name) # {}
  BY <1>3 DEF Accepting, Accepts
<1>. HIDE DEF slot
<1>5. b = At(i_block, numbers, dir, slot) /\ slot \in Kept
  BY <1>2, <1>4, NumberIs, KeptIs DEF At
<1>6. Good(dirents[b], data[b])
  BY <1>2, <1>4, <1>5, PlaceFacts
<1>7. data[b].kind = "zero"
  BY <1>4, <1>6 DEF Good, HasRoom
<1>. QED  BY <1>1, <1>7, NotSpoilt

\* The step of a command, action by action.
LEMMA StepIntact == IInv /\ Step /\ ~strayed' => Intact
<1>. SUFFICES ASSUME IInv, Step, ~strayed' PROVE Intact
  OBVIOUS
<1>1. CASE cp_destination \/ EntryNowhere \/ count_link \/ drop_link \/ Return
           \/ EntryInExistingBlock \/ Killed \/ Fail
  <2>1. i_block' = i_block /\ numbers' = numbers /\ data' = data
    BY <1>1, EntrySpoilsNothing
       DEF cp_destination, EntryNowhere, count_link, drop_link, Return, Killed,
           EntryInExistingBlock, Fail, diskVars, inodeVars, blockVars
  <2>. QED  BY <2>1, FrameIntact
<1>2. CASE allocate_blocks /\ ~Fail
  <2>1. i_block' = i_block
    BY <1>2 DEF allocate_blocks, inodeVars
  <2>2. PICK s \in FirstFree(cmd.size) :
          /\ numbers' = Zeroed(numbers, s, NoNumbers)
          /\ data' = Zeroed(data, s, Zeroes)
    BY <1>2 DEF allocate_blocks
  <2>3. cmd.size \in Nat /\ DiskOK
    BY TypedIs DEF IInv, Locals
  <2>4. Unmoved
    BY <2>1, <2>2, <2>3, FreshFacts, UnmovedIs
  <2>5. \A b \in Blocks : b \in block_bitmap \ InHand => data'[b] = data[b]
    BY <2>2, <2>3, FreshIntact, ZeroedFacts
  <2>. QED  BY <2>4, <2>5, UnmovedIntact
<1>3. CASE AllocateInode /\ ~Fail
  <2>1. PICK k \in FreeInodes : set_inode_block_number(k, NoSlots, numbers)
    BY <1>3 DEF AllocateInode, allocate_inode
  <2>2. k \in Inodes /\ k \notin inode_bitmap
    BY DEF FreeInodes, get_bitmap_val
  <2>3. data' = data
    BY <1>3 DEF AllocateInode
  <2>4. numbers \in NumType /\ SameInUse(numbers)
    BY DEF IInv, Typed, NumType, SameInUse
  <2>5. Moved(k, NoSlots)
    BY <2>1, <2>2, <2>4, NoSlotsFacts, SetFacts
  <2>. QED  BY <2>2, <2>3, <2>5, MovedIntact
<1>4. CASE write_path_to_symlink_inode /\ ~Fail
  <2>. DEFINE n == cmd.inode
              content == [kind |-> "path", of |-> LeftByStrtok(cmd.src), part |-> 0]
  <2>1. PICK s \in FirstFree(1) :
          /\ data' = [data EXCEPT ![s[1]] = content]
          /\ set_inode_block_number(n, [SlotsOf(n) EXCEPT ![0] = s[1]],
                                    Zeroed(numbers, s, NoNumbers))
    BY <1>4, InodeInTable DEF write_path_to_symlink_inode
  <2>2. n \in Inodes /\ Held(n) = {} /\ data \in [Blocks -> Contents]
    BY <1>4 DEF write_path_to_symlink_inode, IInv, Control, Typed
  <2>. DEFINE f == [SlotsOf(n) EXCEPT ![0] = s[1]]
  <2>3. f \in [Slots -> Numbers] /\ s[1] \in Elements(s)
    <3>1. 1 \in 1 .. 1 /\ 1 \in Nat
      OBVIOUS
    <3>2. s[1] \in Blocks /\ 1 \in DOMAIN s
      BY <3>1, FirstFreeFacts
    <3>. QED  BY <2>2, <3>2, SlotsOfIs DEF Numbers, Elements
  <2>4. \A b \in Blocks : b \in block_bitmap \ InHand => data'[b] = data[b]
    BY <2>1, <2>2, <2>3, FreshIntact
  <2>5. \A i \in Slots : At(i_block, numbers, n, i) = 0
    BY <2>2, KeptIs, NumberIs DEF Held, At
  <2>6. set_inode_block_number(n, f, Zeroed(numbers, s, NoNumbers))
    BY <2>1
  <2>. HIDE DEF f, n
  <2>7. Moved(n, f)
    BY <2>2, <2>3, <2>6, FreshFacts, SetFacts
  <2>. QED  BY <2>2, <2>4, <2>5, <2>7, MovedIntact
<1>5. CASE EntryInNewBlock /\ ~Fail
  <2>. DEFINE n == Wanted.dir
              slot == Min(Unused(n))
  <2>1. PICK s \in FirstFree(1) :
          /\ data' = Zeroed(data, s, Zeroes)
          /\ set_inode_block_number(n, [SlotsOf(n) EXCEPT ![slot] = s[1]],
                                    Zeroed(numbers, s, NoNumbers))
    BY <1>5 DEF EntryInNewBlock
  <2>2. n \in Inodes
    BY <1>5, WantedType DEF EntryInNewBlock
  <2>3. slot \in Slots /\ At(i_block, numbers, n, slot) = 0
    <3>1. Unused(n) \subseteq Nat /\ Unused(n) # {}
      BY <1>5, Bounds DEF Unused, EntryInNewBlock
    <3>2. slot \in Unused(n)
      BY <3>1, MinOfNats
    <3>. QED  BY <2>2, <3>2, KeptIs, NumberIs DEF Unused, At
  <2>. DEFINE f == [SlotsOf(n) EXCEPT ![slot] = s[1]]
  <2>4. s[1] \in Blocks
    BY OneBlock
  <2>. HIDE DEF slot, n
  <2>5. f \in [Slots -> Numbers]
        /\ \A i \in Slots : At(i_block, numbers, n, i) # 0 => f[i] = At(i_block, numbers, n, i)
    BY <2>2, <2>3, <2>4, SlotsOfIs DEF Numbers
  <2>6. \A b \in Blocks : b \in block_bitmap \ InHand => data'[b] = data[b]
    BY <2>1, FreshIntact, ZeroedFacts
  <2>7. set_inode_block_number(n, f, Zeroed(numbers, s, NoNumbers))
    BY <2>1
  <2>. HIDE DEF f
  <2>8. Moved(n, f)
    BY <2>2, <2>5, <2>7, FreshFacts, SetFacts
  <2>. QED  BY <2>2, <2>5, <2>6, <2>8, MovedIntact
<1>6. CASE cp_data
  <2>1. pc = "write"
    BY <1>6 DEF cp_data
  <2>2. \A b \in Blocks : b \in block_bitmap \ InHand => data'[b] = data[b]
    BY <1>6, CpDataFacts
  <2>3. cmd.inode \in Inodes /\ Moved(cmd.inode, CopySlots)
    BY <1>6, CpDataFacts
  <2>. QED  BY <2>1, <2>2, <2>3, MovedIntact
<1>7. CASE release_inode
  <2>1. pc \in {"free", "undo"} /\ data' = data
        /\ set_inode_block_number(cmd.inode, NoSlots, numbers)
    BY <1>7 DEF release_inode, free_inode
  <2>2. cmd.inode \in Inodes /\ numbers \in NumType /\ SameInUse(numbers)
    BY <2>1 DEF IInv, Control, Typed, NumType, SameInUse
  <2>3. Moved(cmd.inode, NoSlots)
    BY <2>1, <2>2, NoSlotsFacts, SetFacts
  <2>. QED  BY <2>1, <2>2, <2>3, MovedIntact
<1>8. CASE delete_child_entry
  <2>. DEFINE n    == cmd.parent
              name == listPeek(cmd.comps)
              slot == find_matching_pair(n, name)[1]
              b    == get_inode_block_number(n, slot)
              f    == [SlotsOf(n) EXCEPT ![slot] = 0]
  <2>0. pc = "unlink" /\ data' = Spoilt(b)
    BY <1>8 DEF delete_child_entry
  <2>2. /\ n \in Inodes /\ slot \in Slots /\ b = At(i_block, numbers, n, slot)
        /\ b \in Blocks /\ data[b].kind = "zero"
    BY <2>0, UnlinkFacts
  <2>1. /\ pc = "unlink" /\ data' = data
        /\ set_inode_block_number(n, f, numbers) \/ UNCHANGED <<i_block, numbers>>
    BY <1>8, <2>0, <2>2, NotSpoilt DEF delete_child_entry
  <2>. HIDE DEF slot, b, n
  <2>3. f \in [Slots -> Numbers] /\ \A i \in Slots : i # slot => f[i] = At(i_block, numbers, n, i)
    BY <2>2, SlotsOfIs DEF Numbers
  <2>. HIDE DEF f
  <2>4. numbers \in NumType /\ SameInUse(numbers)
    BY DEF IInv, Typed, NumType, SameInUse
  <2>5. CASE set_inode_block_number(n, f, numbers)
    <3>1. Moved(n, f)
      BY <2>2, <2>3, <2>4, <2>5, SetFacts
    <3>2. \A i \in Slots : LET c == At(i_block, numbers, n, i) IN
              c # 0 => f[i] = c \/ data[c].kind = "zero"
      BY <2>2, <2>3
    <3>. QED  BY <2>1, <2>2, <3>1, <3>2, MovedIntact
  <2>6. CASE UNCHANGED <<i_block, numbers>>
    BY <2>1, <2>6, FrameIntact
  <2>. QED  BY <2>1, <2>5, <2>6
<1>. QED  BY <1>1, <1>2, <1>3, <1>4, <1>5, <1>6, <1>7, <1>8, AllocateNoInodeStrays DEF Step

\* What a file or a symbolic link holds is never overwritten, freed or moved
\* by a step of another command, as long as no command takes it for entries:
\* neither ext2_mkdir's and ext2_ln's new blocks nor the blocks ext2_rm frees
\* are anybody's content.
THEOREM DataKept == Spec /\ Sound => DataIntact
<1>1. IInv /\ [Next]_vars /\ ~strayed' => Intact
  <2>1. IInv /\ Command /\ ~strayed' => Intact
    <3>1. Command /\ ~strayed' => i_block' = i_block /\ numbers' = numbers /\ data' = data
      BY CommandIsGiven DEF Asked, Given, inodeVars
    <3>. QED  BY <3>1, FrameIntact
  <2>2. IInv /\ UNCHANGED vars => Intact
    BY FrameIntact DEF vars
  <2>. QED  BY <2>1, <2>2, StepIntact DEF Next
<1>2. (strayed \/ IInv) /\ [Next]_vars => strayed' \/ Intact
  BY <1>1, Stays
<1>3. (strayed \/ IInv) /\ [Next]_vars =>
        [strayed' \/
         \A k \in inode_bitmap : \A i \in Held(k) :
            LET content == data[get_inode_block_number(k, i)]
            IN  content.kind = "zero"
                \/ (k = cmd.inode /\ pc \in {"write", "free", "undo"})
                \/ (i \in Held(k)' /\ content = data'[get_inode_block_number(k, i)'])]_vars
  BY <1>2, Zenon DEF Intact
<1>. QED  BY <1>3, Invariance, PTL DEF Spec, DataIntact

\* ext2_cp succeeds with its last step and no other.
LEMMA CopyEnds ==
    ASSUME IInv, Next, ~strayed', pc' = "ok", cmd'.op = "cp"
    PROVE  cp_data
<1>1. Control /\ cmd \in Locals
  BY DEF IInv, Typed
<1>2. CASE Command
  <2>1. pc' # "ok"
    <3>1. ASSUME NEW src, NEW dest, ext2_cp(src, dest) PROVE pc' # "ok"
      BY <3>1 DEF ext2_cp, Refused
    <3>2. ASSUME NEW src, NEW dest, NEW sym, ext2_ln(src, dest, sym) PROVE pc' # "ok"
      BY <3>2 DEF ext2_ln, Refused
    <3>3. ASSUME NEW path, ext2_mkdir(path) PROVE pc' # "ok"
      BY <3>3 DEF ext2_mkdir, Refused
    <3>4. ASSUME NEW path, ext2_rm(path) PROVE pc' # "ok"
      BY <3>4 DEF ext2_rm, Refused
    <3>. QED  BY <1>2, <3>1, <3>2, <3>3, <3>4 DEF Command
  <2>. QED  BY <2>1
<1>3. CASE Step
  <2>1. ~allocate_blocks /\ ~cp_destination /\ ~write_path_to_symlink_inode
        /\ ~Return /\ ~delete_child_entry /\ ~Killed /\ ~AllocateNoInode
    BY AllocateNoInodeStrays
       DEF allocate_blocks, cp_destination, write_path_to_symlink_inode, Return,
           delete_child_entry, Killed, Fail
  <2>2. ~AllocateInode
    <3>1. SUFFICES ASSUME AllocateInode PROVE FALSE
      OBVIOUS
    <3>2. pc = "inode" /\ (pc' = "exit" \/ pc' = AfterAllocation)
      BY <3>1 DEF AllocateInode, Fail
    <3>. QED  BY <1>1, <3>2 DEF Control, AfterAllocation
  <2>3. ~count_link /\ ~drop_link /\ ~release_inode
    BY <1>1 DEF count_link, drop_link, release_inode, Control
  <2>4. ASSUME pc \in {"dot", "dotdot", "entry"}, pc' = AfterEntry(TRUE),
               cmd' = [cmd EXCEPT !.made = TRUE]
        PROVE  FALSE
    <3>1. cmd'.op = cmd.op
      BY <1>1, <2>4 DEF Locals
    <3>. QED  BY <2>4, <3>1, AfterEntryIs
  <2>5. ~EntryInExistingBlock
    BY <2>4 DEF EntryInExistingBlock
  <2>6. ~EntryInNewBlock
    BY <2>4 DEF EntryInNewBlock, Fail
  <2>7. ~EntryNowhere
    BY DEF EntryNowhere, AfterEntry
  <2>. QED  BY <1>3, <2>1, <2>2, <2>3, <2>5, <2>6, <2>7 DEF Step
<1>. QED  BY <1>2, <1>3 DEF Next

\* What cp_data leaves is the copy.
LEMMA CopyMade ==
    ASSUME IInv, cp_data
    PROVE  CopyInPlace'
<1>1. cmd' = cmd /\ pc' = "ok"
  BY DEF cp_data
<1>2. cmd.inode \in Inodes
  BY CpDataFacts
<1>3. PICK k \in Inodes : k = cmd.inode
  BY <1>2
<1>4. /\ Moved(k, CopySlots)
      /\ \A i \in Copied : /\ CopySlots[i] \in Blocks
                           /\ data'[CopySlots[i]] = Piece(i)
  BY <1>3, CpDataFacts
<1>5. i_block'[k][INDIRECT1_INDEX] = i_block[k][INDIRECT1_INDEX]
  <2>1. At(i_block', numbers', k, INODE_BLOCK_LIMIT) = At(i_block, numbers, k, INODE_BLOCK_LIMIT)
    BY <1>4, KeptIs DEF Moved
  <2>. QED  BY <2>1 DEF At
<1>6. ASSUME NEW i \in Slots, i < cmd.readable,
             i < INDIRECT1_INDEX \/ i_block'[k][INDIRECT1_INDEX] # 0
      PROVE  /\ get_inode_block_number(k, i)' # 0
             /\ data'[get_inode_block_number(k, i)'] = Piece(i)
  <2>1. At(i_block', numbers', k, i) = CopySlots[i]
    BY <1>4, <1>5, <1>6, KeptIs DEF Moved
  <2>2. get_inode_block_number(k, i)' = CopySlots[i]
    BY <2>1, KeptIs, NumberIs DEF At
  <2>3. i \in Copied
    BY <1>6 DEF Copied
  <2>. QED  BY <1>4, <2>2, <2>3, Bounds
<1>. QED  BY <1>1, <1>3, <1>6 DEF CopyInPlace, Held, Piece

\* A copy that is reported as made is in place, in order, in blocks of its
\* own, until a command strays.
THEOREM CopyStays == Spec /\ Sound => [](strayed \/ CopyInPlace)
<1>1. Init => CopyInPlace
  BY DEF Init, CopyInPlace
<1>2. (strayed \/ IInv) /\ (strayed \/ CopyInPlace) /\ [Next]_vars
          => (strayed \/ CopyInPlace)'
  <2>1. SUFFICES ASSUME strayed \/ IInv, strayed \/ CopyInPlace, [Next]_vars, ~strayed'
                 PROVE  CopyInPlace'
    OBVIOUS
  <2>2. IInv /\ CopyInPlace
    BY <2>1, Stays
  <2>3. CASE Next
    <3>1. CASE pc' = "ok" /\ cmd'.op = "cp"
      BY <2>1, <2>2, <2>3, <3>1, CopyEnds, CopyMade
    <3>2. CASE ~(pc' = "ok" /\ cmd'.op = "cp")
      BY <3>2 DEF CopyInPlace
    <3>. QED  BY <3>1, <3>2
  <2>4. CASE UNCHANGED vars
    BY <2>2, <2>4 DEF CopyInPlace, Held, get_inode_block_number, vars
  <2>. QED  BY <2>1, <2>3, <2>4
<1>. QED  BY <1>1, <1>2, Invariance, PTL DEF Spec
=============================================================================
