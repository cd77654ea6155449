--------------------------- MODULE DirBlockProofs ---------------------------
(***************************************************************************)
(* What insertion and removal do to a directory block, for every size of   *)
(* block, every set of names and every chain of entries that tiles it: the *)
(* result tiles it again, no 16-bit length wraps, and exactly one name is  *)
(* added or taken away.                                                    *)
(***************************************************************************)
EXTENDS DirBlock, TLAPS, WellFoundedInduction

\* A non-empty set of natural numbers has a least element, and Min is it.
LEMMA MinOfNats ==
    ASSUME NEW S, S \subseteq Nat, S # {}
    PROVE  Min(S) \in S /\ \A y \in S : Min(S) <= y
<1>1. PICK x \in S : \A y \in S : ~(<<y, x>> \in OpToRel(<, Nat))
  BY NatLessThanWellFounded, WFMin
<1>2. ASSUME NEW y \in S PROVE x <= y
  <2>1. x \in Nat /\ y \in Nat
    OBVIOUS
  <2>2. y < x => <<y, x>> \in OpToRel(<, Nat)
    BY <2>1 DEF OpToRel
  <2>3. ~(y < x)
    BY <1>1, <2>2
  <2>. QED  BY <2>1, <2>3
<1>. QED  BY <1>2 DEF Min

\* A non-empty bounded set of natural numbers has a greatest element.
LEMMA MaxOfBounded ==
    ASSUME NEW n \in Nat, NEW S, S \subseteq 0 .. n, S # {}
    PROVE  Max(S) \in S /\ \A y \in S : y <= Max(S)
<1>. DEFINE T == {n - x : x \in S}
<1>1. T \subseteq Nat /\ T # {}
  <2>1. \A x \in S : n - x \in Nat
    OBVIOUS
  <2>. QED  BY <2>1
<1>2. Min(T) \in T /\ \A y \in T : Min(T) <= y
  BY <1>1, MinOfNats
<1>3. PICK x \in S : Min(T) = n - x
  BY <1>2
<1>4. ASSUME NEW y \in S PROVE x >= y
  <2>1. n - x <= n - y
    BY <1>2, <1>3
  <2>. QED  BY <2>1
<1>. QED  BY <1>4 DEF Max

-----------------------------------------------------------------------------
(* Lengths *)

\* A short is its own remainder.
LEMMA NoWrap ==
    ASSUME NEW x \in Nat, x <= USHRT_MAX
    PROVE  x % (USHRT_MAX + 1) = x
BY DEF USHRT_MAX

\* The bound of a short is a number.
LEMMA ShortIsNat == USHRT_MAX \in Nat
BY DEF USHRT_MAX

\* A name needs 12 bytes at least, and 12 more than its length at most.
LEMMA LengthBounds ==
    ASSUME NEW n \in Nat
    PROVE  /\ total_entry_length(n) \in Nat
           /\ 12 <= total_entry_length(n)
           /\ total_entry_length(n) <= 12 + n
BY DEF total_entry_length

\* What name_len holds is a number, also of an entry without a name.
LEMMA NameLength ==
    ASSUME NEW name \in Names \cup {Unnamed}
    PROVE  name_len(name) \in Nat
BY BlockAssumption, UnnamedAssumption DEF name_len

\* A block has room for any name.
LEMMA NameFits ==
    ASSUME NEW name \in Names
    PROVE  12 + name_len(name) <= BLOCK_SIZE
BY BlockAssumption, UnnamedAssumption DEF name_len

\* The shortest an entry may be cut: a number above 8.
LEMMA MinRecLen ==
    ASSUME NEW Inodes, NEW e \in ext2_dir_entry_2(Inodes)
    PROVE  min_rec_len(e) \in Nat /\ min_rec_len(e) >= 12
<1>1. e.name \in Names \cup {Unnamed}
  BY DEF ext2_dir_entry_2
<1>. QED  BY <1>1, NameLength, LengthBounds DEF min_rec_len

\* The entries of a tiled block end inside it, and their room does not wrap.
LEMMA RoomIsReal ==
    ASSUME NEW Inodes, NEW block, IsChain(block, Inodes), Tiles(block),
           NEW o \in DOMAIN block
    PROVE  /\ o \in 0 .. BLOCK_SIZE - 1
           /\ block[o].rec_len \in 1 .. USHRT_MAX
           /\ min_rec_len(block[o]) \in Nat /\ min_rec_len(block[o]) >= 12
           /\ o + block[o].rec_len <= BLOCK_SIZE
           /\ min_rec_len(block[o]) <= block[o].rec_len
           /\ space_left(block[o]) = block[o].rec_len - min_rec_len(block[o])
<1>1. o \in 0 .. BLOCK_SIZE - 1 /\ block[o] \in ext2_dir_entry_2(Inodes)
  BY DEF IsChain
<1>2. block[o].rec_len \in 1 .. USHRT_MAX
  BY <1>1 DEF ext2_dir_entry_2
<1>3. min_rec_len(block[o]) \in Nat /\ min_rec_len(block[o]) >= 12
  BY <1>1, MinRecLen
<1>4. /\ min_rec_len(block[o]) <= block[o].rec_len
      /\ o + block[o].rec_len \in DOMAIN block \cup {BLOCK_SIZE}
  BY <1>2, <1>3 DEF Tiles
<1>5. o + block[o].rec_len <= BLOCK_SIZE
  BY <1>1, <1>2, <1>4, BlockAssumption DEF IsChain
<1>6. space_left(block[o]) = block[o].rec_len - min_rec_len(block[o])
  BY <1>2, <1>3, <1>4, NoWrap, ShortIsNat DEF space_left
<1>. QED  BY <1>1, <1>2, <1>3, <1>4, <1>5, <1>6

-----------------------------------------------------------------------------
(* Insertion *)

\* Where make_entry_in_existing_block works in a tiled block: behind the name of
\* an entry with room, inside the block and before the next entry.
LEMMA InsertionPoint ==
    ASSUME NEW Inodes, NEW block, IsChain(block, Inodes), Tiles(block),
           NEW name \in Names, HasRoom(block, name) # {}
    PROVE  LET cur == Min(HasRoom(block, name))
               new == InsertAt(block, name)
           IN  /\ cur \in DOMAIN block
               /\ new = cur + min_rec_len(block[cur])
               /\ new \in 0 .. BLOCK_SIZE - 1
               /\ new \notin DOMAIN block
               /\ space_left(block[cur]) >= total_entry_length(name_len(name))
               /\ space_left(block[cur]) = block[cur].rec_len - min_rec_len(block[cur])
               /\ new + space_left(block[cur]) = cur + block[cur].rec_len
<1>. DEFINE cur == Min(HasRoom(block, name))
            new == InsertAt(block, name)
<1>1. HasRoom(block, name) \subseteq Nat
  BY BlockAssumption DEF HasRoom, IsChain
<1>2. cur \in HasRoom(block, name)
  BY <1>1, MinOfNats
<1>3. cur \in DOMAIN block /\ space_left(block[cur]) >= total_entry_length(name_len(name))
  BY <1>2 DEF HasRoom
<1>4. total_entry_length(name_len(name)) \in Nat /\ total_entry_length(name_len(name)) >= 12
  BY NameLength, LengthBounds
<1>5. /\ cur \in 0 .. BLOCK_SIZE - 1
      /\ block[cur].rec_len \in 1 .. USHRT_MAX
      /\ min_rec_len(block[cur]) \in Nat /\ min_rec_len(block[cur]) >= 12
      /\ cur + block[cur].rec_len <= BLOCK_SIZE
      /\ space_left(block[cur]) = block[cur].rec_len - min_rec_len(block[cur])
  BY <1>3, RoomIsReal
<1>6. new = cur + min_rec_len(block[cur])
  BY DEF InsertAt
<1>7. new \in 0 .. BLOCK_SIZE - 1 /\ cur < new /\ new < cur + block[cur].rec_len
  BY <1>3, <1>4, <1>5, <1>6, BlockAssumption
<1>8. new \notin DOMAIN block
  <2>1. \A p \in DOMAIN block : cur < p => cur + block[cur].rec_len <= p
    BY <1>3 DEF Tiles
  <2>. QED  BY <2>1, <1>5, <1>7
<1>9. new + space_left(block[cur]) = cur + block[cur].rec_len
  BY <1>5, <1>6
<1>. HIDE DEF cur, new
<1>. QED  BY <1>3, <1>5, <1>6, <1>7, <1>8, <1>9 DEF cur, new

\* Insertion adds one entry, cuts the one before it, and leaves every other one
\* where and as it was: no entry is jumped over.
LEMMA InsertShape ==
    ASSUME NEW Inodes, NEW block, IsChain(block, Inodes), Tiles(block),
           NEW name \in Names, HasRoom(block, name) # {}, NEW inode, NEW type
    PROVE  LET cur == Min(HasRoom(block, name))
               new == InsertAt(block, name)
               made == make_entry_in_existing_block(block, inode, name, type)
           IN  /\ IsFcn(made)
               /\ DOMAIN made = DOMAIN block \cup {new}
               /\ made[cur] = [block[cur] EXCEPT !.rec_len = min_rec_len(block[cur])]
               /\ made[new] = [inode |-> inode, rec_len |-> space_left(block[cur]),
                               name |-> name, file_type |-> type]
               /\ \A o \in DOMAIN block : o # cur => made[o] = block[o]
<1>. DEFINE cur == Min(HasRoom(block, name))
            new == InsertAt(block, name)
            rest == space_left(block[cur])
            made == make_entry_in_existing_block(block, inode, name, type)
            cut(o) == [block[o] EXCEPT !.rec_len = min_rec_len(block[o])]
            entry == [inode |-> inode, rec_len |-> rest, name |-> name,
                      file_type |-> type]
<1>1. /\ cur \in DOMAIN block /\ new \notin DOMAIN block
      /\ new + rest = cur + block[cur].rec_len
  BY InsertionPoint
<1>2. \A p \in DOMAIN block : p <= cur \/ p >= new + rest
  <2>1. \A p \in DOMAIN block : p \in Nat
    BY BlockAssumption DEF IsChain
  <2>2. cur \in Nat /\ block[cur].rec_len \in Nat
    BY <2>1, <1>1, RoomIsReal, ShortIsNat
  <2>3. \A p \in DOMAIN block : cur < p => new + rest <= p
    BY <1>1 DEF Tiles
  <2>. HIDE DEF cur, new, rest
  <2>. QED  BY <1>1, <2>1, <2>2, <2>3
<1>3. made = [o \in {p \in DOMAIN block : p <= cur \/ p >= new + rest} \cup {new} |->
                CASE o = cur -> cut(o) [] o = new -> entry [] OTHER -> block[o]]
  BY DEF make_entry_in_existing_block
<1>. HIDE DEF cur, new, rest, made, cut, entry
<1>4. DOMAIN made = DOMAIN block \cup {new}
  BY <1>2, <1>3
<1>5. IsFcn(made)
  BY <1>3 DEF IsFcn
<1>6. /\ made[cur] = cut(cur) /\ made[new] = entry
      /\ \A o \in DOMAIN block : o # cur => made[o] = block[o]
  BY <1>1, <1>2, <1>3
<1>. QED  BY <1>4, <1>5, <1>6 DEF cur, new, rest, made, cut, entry

\* make_entry_in_existing_block on a well-formed block: the result is
\* well-formed, so every rec_len in it is a true length.
THEOREM InsertTiles ==
    ASSUME NEW Inodes, NEW block, IsChain(block, Inodes), Tiles(block),
           NEW inode \in Inodes, NEW name \in Names, NEW type \in FileTypes,
           HasRoom(block, name) # {}
    PROVE  /\ IsChain(make_entry_in_existing_block(block, inode, name, type), Inodes)
           /\ Tiles(make_entry_in_existing_block(block, inode, name, type))
<1>. DEFINE cur == Min(HasRoom(block, name))
            new == InsertAt(block, name)
            rest == space_left(block[cur])
            made == make_entry_in_existing_block(block, inode, name, type)
            cut == [block[cur] EXCEPT !.rec_len = min_rec_len(block[cur])]
            entry == [inode |-> inode, rec_len |-> rest, name |-> name,
                      file_type |-> type]
<1>1. /\ cur \in DOMAIN block
      /\ new = cur + min_rec_len(block[cur])
      /\ new \in 0 .. BLOCK_SIZE - 1
      /\ new \notin DOMAIN block
      /\ rest >= total_entry_length(name_len(name))
      /\ rest = block[cur].rec_len - min_rec_len(block[cur])
      /\ new + rest = cur + block[cur].rec_len
  BY InsertionPoint
<1>2. /\ cur \in 0 .. BLOCK_SIZE - 1
      /\ block[cur].rec_len \in 1 .. USHRT_MAX
      /\ min_rec_len(block[cur]) \in Nat /\ min_rec_len(block[cur]) >= 12
      /\ min_rec_len(block[cur]) <= block[cur].rec_len
      /\ cur + block[cur].rec_len <= BLOCK_SIZE
  BY <1>1, RoomIsReal
<1>3. total_entry_length(name_len(name)) \in Nat /\ total_entry_length(name_len(name)) >= 12
  BY NameLength, LengthBounds
<1>4. IsFcn(made)
  BY InsertShape
<1>5. cut \in ext2_dir_entry_2(Inodes) /\ cut.rec_len = min_rec_len(block[cur])
      /\ min_rec_len(cut) = min_rec_len(block[cur])
  <2>1. block[cur] \in ext2_dir_entry_2(Inodes)
    BY <1>1 DEF IsChain
  <2>2. min_rec_len(block[cur]) \in 1 .. USHRT_MAX
    BY <1>2, ShortIsNat
  <2>. HIDE DEF cur
  <2>. QED  BY <2>1, <2>2 DEF ext2_dir_entry_2, min_rec_len
<1>6. entry \in ext2_dir_entry_2(Inodes) /\ entry.rec_len = rest
      /\ min_rec_len(entry) = total_entry_length(name_len(name))
  <2>1. rest \in 1 .. USHRT_MAX
    BY <1>1, <1>2, <1>3, ShortIsNat
  <2>. HIDE DEF rest
  <2>. QED  BY <2>1 DEF ext2_dir_entry_2, min_rec_len
<1>7. /\ DOMAIN made = DOMAIN block \cup {new}
      /\ made[cur] = cut /\ made[new] = entry
      /\ \A o \in DOMAIN block : o # cur => made[o] = block[o]
  BY InsertShape
<1>. HIDE DEF cur, new, rest, made, cut, entry
<1>8. IsChain(made, Inodes)
  <2>2. DOMAIN made \subseteq 0 .. BLOCK_SIZE - 1
    BY <1>1, <1>7 DEF IsChain
  <2>3. \A o \in DOMAIN made : made[o] \in ext2_dir_entry_2(Inodes)
    BY <1>1, <1>5, <1>6, <1>7 DEF IsChain
  <2>. QED  BY <1>4, <2>2, <2>3 DEF IsChain
<1>9. Tiles(made)
  <2>0. \A p \in DOMAIN block : p \in Nat /\ p < BLOCK_SIZE
    BY BlockAssumption DEF IsChain
  <2>1. 0 \in DOMAIN made
    BY <1>1, <1>7 DEF Tiles
  <2>2. ASSUME NEW o \in DOMAIN made
        PROVE  /\ made[o].rec_len >= min_rec_len(made[o])
               /\ o + made[o].rec_len \in DOMAIN made \cup {BLOCK_SIZE}
               /\ \A p \in DOMAIN made : o < p => o + made[o].rec_len <= p
    <3>1. CASE o = cur
      <4>1. cur + min_rec_len(block[cur]) = new
        BY <1>1
      <4>2. \A p \in DOMAIN block : cur < p => cur + block[cur].rec_len <= p
        BY <1>1 DEF Tiles
      <4>3. \A p \in DOMAIN made : cur < p => new <= p
        BY <4>2, <2>0, <1>1, <1>2, <1>7
      <4>. QED  BY <3>1, <4>1, <4>3, <1>1, <1>2, <1>5, <1>7
    <3>2. CASE o = new
      <4>1. cur + block[cur].rec_len \in DOMAIN block \cup {BLOCK_SIZE}
        BY <1>1 DEF Tiles
      <4>2. \A p \in DOMAIN block : cur < p => cur + block[cur].rec_len <= p
        BY <1>1 DEF Tiles
      <4>3. \A p \in DOMAIN made : new < p => new + rest <= p
        BY <4>2, <2>0, <1>1, <1>2, <1>7
      <4>. QED  BY <3>2, <4>1, <4>3, <1>1, <1>6, <1>7
    <3>3. CASE o # cur /\ o # new
      <4>1. o \in DOMAIN block /\ made[o] = block[o]
        BY <3>3, <1>7
      <4>2. /\ block[o].rec_len >= min_rec_len(block[o])
            /\ o + block[o].rec_len \in DOMAIN block \cup {BLOCK_SIZE}
            /\ \A p \in DOMAIN block : o < p => o + block[o].rec_len <= p
        BY <4>1 DEF Tiles
      <4>3. o < new => o + block[o].rec_len <= new
        <5>1. block[o].rec_len \in Nat
          BY <4>1, RoomIsReal, ShortIsNat
        <5>2. cur < o => cur + block[cur].rec_len <= o
          BY <4>1, <1>1 DEF Tiles
        <5>3. o < cur => o + block[o].rec_len <= cur
          BY <4>2, <1>1
        <5>. QED  BY <5>1, <5>2, <5>3, <4>1, <2>0, <1>1, <1>2, <3>3
      <4>. QED  BY <4>1, <4>2, <4>3, <1>7
    <3>. QED  BY <3>1, <3>2, <3>3
  <2>. QED  BY <2>1, <2>2 DEF Tiles
<1>. QED  BY <1>8, <1>9 DEF made

-----------------------------------------------------------------------------
(* New blocks *)

\* A block zeroed by allocate_blocks has no entry to be out of place.
LEMMA EmptyTiles ==
    ASSUME NEW Inodes
    PROVE  IsChain(EmptyBlock, Inodes) /\ Tiles(EmptyBlock)
BY DEF EmptyBlock, IsChain, IsFcn, Tiles

\* The block make_entry_in_inode allocates for an entry that fits nowhere else.
THEOREM FirstEntryTiles ==
    ASSUME NEW Inodes, NEW inode \in Inodes, NEW name \in Names, NEW type \in FileTypes
    PROVE  /\ IsChain(FirstEntry(inode, name, type), Inodes)
           /\ Tiles(FirstEntry(inode, name, type))
<1>. DEFINE block == FirstEntry(inode, name, type)
            entry == [inode |-> inode, rec_len |-> BLOCK_SIZE, name |-> name,
                      file_type |-> type]
<1>1. IsFcn(block) /\ DOMAIN block = {0} /\ block[0] = entry
  BY DEF FirstEntry, IsFcn
<1>2. BLOCK_SIZE \in 1 .. USHRT_MAX /\ 0 \in 0 .. BLOCK_SIZE - 1
  BY BlockAssumption, ShortIsNat
<1>3. entry \in ext2_dir_entry_2(Inodes) /\ entry.rec_len = BLOCK_SIZE
      /\ min_rec_len(entry) = total_entry_length(name_len(name))
  BY <1>2 DEF ext2_dir_entry_2, min_rec_len
<1>4. total_entry_length(name_len(name)) <= BLOCK_SIZE
  <2>1. /\ name_len(name) \in Nat /\ 12 + name_len(name) <= BLOCK_SIZE
        /\ total_entry_length(name_len(name)) \in Nat
        /\ total_entry_length(name_len(name)) <= 12 + name_len(name)
    BY NameLength, NameFits, LengthBounds
  <2>. QED  BY <2>1, <1>2, ShortIsNat
<1>. HIDE DEF block, entry
<1>5. IsChain(block, Inodes)
  BY <1>1, <1>2, <1>3 DEF IsChain
<1>6. Tiles(block)
  BY <1>1, <1>2, <1>3, <1>4, BlockAssumption DEF Tiles
<1>. QED  BY <1>5, <1>6 DEF block

-----------------------------------------------------------------------------
(* Removal *)

\* The entry before another one ends where that one starts.
LEMMA PreviousIsAdjacent ==
    ASSUME NEW Inodes, NEW block, IsChain(block, Inodes), Tiles(block),
           NEW cur \in DOMAIN block, cur # 0
    PROVE  LET prev == Max({o \in DOMAIN block : o < cur})
           IN  /\ prev \in DOMAIN block /\ prev < cur
               /\ prev + block[prev].rec_len = cur
               /\ \A o \in DOMAIN block : o < cur => o <= prev
<1>. DEFINE S == {o \in DOMAIN block : o < cur}
            prev == Max(S)
<1>1. cur \in Nat /\ cur < BLOCK_SIZE /\ \A o \in DOMAIN block : o \in Nat
  BY BlockAssumption DEF IsChain
<1>2. S \subseteq 0 .. cur /\ S # {}
  <2>1. 0 \in DOMAIN block
    BY DEF Tiles
  <2>2. 0 < cur
    BY <1>1
  <2>. QED  BY <1>1, <2>1, <2>2
<1>3. prev \in S /\ \A y \in S : y <= prev
  BY <1>1, <1>2, MaxOfBounded
<1>. HIDE DEF prev
<1>4. /\ prev \in DOMAIN block /\ prev < cur
      /\ \A o \in DOMAIN block : o < cur => o <= prev
  BY <1>3
<1>5. /\ prev + block[prev].rec_len \in DOMAIN block \cup {BLOCK_SIZE}
      /\ prev + block[prev].rec_len <= cur
  BY <1>4 DEF Tiles
<1>6. block[prev].rec_len \in Nat /\ block[prev].rec_len >= 1
  BY <1>4, RoomIsReal, ShortIsNat
<1>7. prev + block[prev].rec_len = cur
  BY <1>1, <1>4, <1>5, <1>6, BlockAssumption
<1>. QED  BY <1>4, <1>7 DEF prev

\* delete_child_entry on a well-formed block: the entry before the one removed
\* takes its place exactly, and the result is well-formed.
THEOREM RemoveTiles ==
    ASSUME NEW Inodes, NEW block, IsChain(block, Inodes), Tiles(block),
           NEW name \in Names, Matching(block, name) # {}
    PROVE  /\ IsChain(RemoveEntry(block, name), Inodes)
           /\ Tiles(RemoveEntry(block, name))
<1>. DEFINE cur == Min(Matching(block, name))
            prev == Max({o \in DOMAIN block : o < cur})
            left == RemoveEntry(block, name)
<1>1. cur \in DOMAIN block
  <2>1. Matching(block, name) \subseteq DOMAIN block
    BY DEF Matching
  <2>2. DOMAIN block \subseteq Nat
    BY BlockAssumption DEF IsChain
  <2>. QED  BY <2>1, <2>2, MinOfNats
<1>2. \A o \in DOMAIN block : o \in Nat /\ o < BLOCK_SIZE
  BY BlockAssumption DEF IsChain
<1>3. \A o \in DOMAIN block :
          /\ block[o] \in ext2_dir_entry_2(Inodes)
          /\ block[o].rec_len \in 1 .. USHRT_MAX
          /\ min_rec_len(block[o]) \in Nat /\ min_rec_len(block[o]) >= 12
          /\ min_rec_len(block[o]) <= block[o].rec_len
          /\ o + block[o].rec_len <= BLOCK_SIZE
          /\ o + block[o].rec_len \in DOMAIN block \cup {BLOCK_SIZE}
          /\ \A p \in DOMAIN block : o < p => o + block[o].rec_len <= p
  BY RoomIsReal DEF IsChain, Tiles
<1>4. CASE cur = 0
  <2>. DEFINE gone == [block[0] EXCEPT !.name = Unnamed]
  <2>1. left = [block EXCEPT ![0].name = Unnamed]
    BY <1>4 DEF RemoveEntry
  <2>2. /\ IsFcn(left) /\ DOMAIN left = DOMAIN block /\ left[0] = gone
        /\ \A o \in DOMAIN block : o # 0 => left[o] = block[o]
    <3>. HIDE DEF cur
    <3>. QED  BY <1>1, <1>4, <2>1 DEF IsFcn
  <2>3. gone \in ext2_dir_entry_2(Inodes) /\ gone.rec_len = block[0].rec_len
        /\ gone.name = Unnamed
    BY <1>1, <1>3, <1>4 DEF ext2_dir_entry_2
  <2>4. min_rec_len(gone) = 12
    BY <2>3 DEF min_rec_len, name_len, total_entry_length
  <2>. HIDE DEF cur, left, gone
  <2>5. IsChain(left, Inodes)
    BY <1>1, <1>3, <1>4, <2>2, <2>3 DEF IsChain
  <2>6. \A o \in DOMAIN left : left[o].rec_len = block[o].rec_len
    BY <2>2, <2>3
  <2>7. \A o \in DOMAIN left : left[o].rec_len >= min_rec_len(left[o])
    BY <1>1, <1>3, <1>4, <2>2, <2>3, <2>4, ShortIsNat
  <2>8. Tiles(left)
    BY <1>1, <1>3, <1>4, <2>2, <2>6, <2>7 DEF Tiles
  <2>. QED  BY <2>5, <2>8 DEF left
<1>5. CASE cur # 0
  <2>. DEFINE sum == block[prev].rec_len + block[cur].rec_len
              wide == [block[prev] EXCEPT !.rec_len = sum]
  <2>1. /\ prev \in DOMAIN block /\ prev < cur
        /\ prev + block[prev].rec_len = cur
        /\ \A o \in DOMAIN block : o < cur => o <= prev
    BY <1>1, <1>5, PreviousIsAdjacent
  <2>2. sum \in 1 .. USHRT_MAX /\ prev + sum = cur + block[cur].rec_len
    BY <1>1, <1>2, <1>3, <2>1, BlockAssumption, ShortIsNat
  <2>3. sum % (USHRT_MAX + 1) = sum
    BY <2>2, NoWrap, ShortIsNat
  <2>4. left = [o \in DOMAIN block \ {cur} |->
                  IF o = prev
                  THEN [block[o] EXCEPT
                          !.rec_len = (@ + block[cur].rec_len) % (USHRT_MAX + 1)]
                  ELSE block[o]]
    BY <1>5 DEF RemoveEntry
  <2>. HIDE DEF cur, prev, left
  <2>5. /\ IsFcn(left) /\ DOMAIN left = DOMAIN block \ {cur}
        /\ \A o \in DOMAIN left : o # prev => left[o] = block[o]
    BY <2>4 DEF IsFcn
  <2>6. left[prev] = wide
    <3>1. left[prev] = [block[prev] EXCEPT
                          !.rec_len = (@ + block[cur].rec_len) % (USHRT_MAX + 1)]
      BY <1>1, <1>2, <2>1, <2>4
    <3>2. "rec_len" \in DOMAIN block[prev]
      BY <1>3, <2>1 DEF ext2_dir_entry_2
    <3>. QED  BY <3>1, <3>2, <2>3
  <2>7. wide \in ext2_dir_entry_2(Inodes) /\ wide.rec_len = sum
        /\ min_rec_len(wide) = min_rec_len(block[prev])
    <3>. HIDE DEF sum
    <3>. QED  BY <1>3, <2>1, <2>2 DEF ext2_dir_entry_2, min_rec_len
  <2>. HIDE DEF sum, wide
  <2>8. IsChain(left, Inodes)
    BY <1>3, <2>1, <2>5, <2>6, <2>7 DEF IsChain
  <2>9. ASSUME NEW o \in DOMAIN left
        PROVE  /\ left[o].rec_len >= min_rec_len(left[o])
               /\ o + left[o].rec_len \in DOMAIN left \cup {BLOCK_SIZE}
               /\ \A p \in DOMAIN left : o < p => o + left[o].rec_len <= p
    <3>1. CASE o = prev
      <4>1. left[o].rec_len = sum /\ min_rec_len(left[o]) = min_rec_len(block[prev])
        BY <3>1, <2>6, <2>7
      <4>2. sum >= min_rec_len(block[prev])
        BY <1>1, <1>3, <2>1, ShortIsNat DEF sum
      <4>3. cur + block[cur].rec_len \in DOMAIN left \cup {BLOCK_SIZE}
        BY <1>1, <1>2, <1>3, <2>5, ShortIsNat
      <4>4. \A p \in DOMAIN left : prev < p => cur + block[cur].rec_len <= p
        BY <1>1, <1>2, <1>3, <2>1, <2>5
      <4>. QED  BY <3>1, <4>1, <4>2, <4>3, <4>4, <2>2
    <3>2. CASE o # prev
      <4>1. o \in DOMAIN block /\ o # cur /\ left[o] = block[o]
        BY <3>2, <2>5
      <4>2. o + block[o].rec_len # cur
        <5>1. o > cur => o + block[o].rec_len > cur
          BY <1>1, <1>2, <1>3, <4>1, ShortIsNat
        <5>2. o < cur => o + block[o].rec_len <= prev
          BY <1>2, <1>3, <2>1, <3>2, <4>1
        <5>. QED  BY <5>1, <5>2, <1>1, <1>2, <1>3, <2>1, <4>1, ShortIsNat
      <4>. QED  BY <4>1, <4>2, <1>3, <2>5
    <3>. QED  BY <3>1, <3>2
  <2>10. 0 \in DOMAIN left
    BY <1>1, <1>5, <2>5 DEF Tiles
  <2>11. Tiles(left)
    BY <2>9, <2>10 DEF Tiles
  <2>. QED  BY <2>8, <2>11 DEF left
<1>. QED  BY <1>4, <1>5
=============================================================================
