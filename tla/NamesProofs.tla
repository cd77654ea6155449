---------------------------- MODULE NamesProofs ----------------------------
(***************************************************************************)
(* Theorems about the names in Ext2: which inodes they lead to, how many   *)
(* each file has, and that a directory has each name once.                 *)
(***************************************************************************)
EXTENDS Ext2Proofs

-----------------------------------------------------------------------------
(* Names and directories *)

\* Entry o of slot i of inode d has a name, and d is in use.
Lists(d, i, o) ==
    /\ d \in inode_bitmap /\ i \in Slots
    /\ At(i_block, numbers, d, i) # 0
    /\ o \in DOMAIN dirents[At(i_block, numbers, d, i)]
    /\ dirents[At(i_block, numbers, d, i)][o].name # Unnamed

\* What that entry says.
Says(d, i, o) == dirents[At(i_block, numbers, d, i)][o]

\* The names of inode k.
NamesOf(k) == {e \in NamedPositions : EntryAt(e[1], e[2]).inode = k}

\* Entry o of block b says that inode k is a directory.
Declares(b, o, k) ==
    /\ b \in block_bitmap /\ o \in DOMAIN dirents[b]
    /\ dirents[b][o].file_type = "dir" /\ dirents[b][o].inode = k

\* Block b is in no slot of inode k.
Outside(b, k) == \A i \in Slots : At(i_block, numbers, k, i) # b

-----------------------------------------------------------------------------
(* The invariant, as long as no command strays *)

\* What InodesAgree, LiveNames and LinksCoverNames say until then.
Agreeing ==
    /\ free_inodes_count = Cardinality(Inodes \ inode_bitmap)
    /\ \A k \in Inodes \ inode_bitmap : Held(k) = {}

Living == \A e \in NamedPositions : EntryAt(e[1], e[2]).inode \in inode_bitmap

Counted ==
    \A k \in Inodes \ Directories :
        LET named == {e \in NamedPositions : EntryAt(e[1], e[2]).inode = k}
        IN  Cardinality(named) <= i_links_count[k] +
                IF pc = "count" /\ cmd.made /\ cmd.inode = k THEN 1 ELSE 0

\* A directory is in use.
LiveDirs == Directories \subseteq inode_bitmap

\* Entries do not disagree on what is a directory.
OneKind ==
    \A e \in NamedPositions : EntryAt(e[1], e[2]).inode \in Directories =>
        EntryAt(e[1], e[2]).file_type = "dir"

\* An entry that has lost its name was not a directory's.
DirsNamed ==
    \A b \in block_bitmap : \A o \in DOMAIN dirents[b] :
        dirents[b][o].file_type = "dir" => dirents[b][o].name # Unnamed

\* Directories are entered in directories.
DirsInside ==
    \A k \in Inodes : \A i \in Held(k) :
        \A o \in DOMAIN dirents[get_inode_block_number(k, i)] :
            dirents[get_inode_block_number(k, i)][o].file_type = "dir" => k \in Directories

\* A directory has each of its names once.
UniqueNames ==
    \A k \in Directories : \A p, q \in print_dir_contents(k, TRUE) :
        EntryAt(k, p).name = EntryAt(k, q).name => p = q

\* A file has no more names than links, counting what ext2_ln has still to
\* count and ext2_rm has still to take off.
LinksCover ==
    \A k \in Inodes \ Directories :
        Cardinality(NamesOf(k)) + (IF pc = "drop" /\ cmd.inode = k THEN 1 ELSE 0)
            <= i_links_count[k] + (IF pc = "count" /\ cmd.made /\ cmd.inode = k THEN 1 ELSE 0)

DiskNames ==
    /\ Agreeing /\ LiveDirs /\ Living /\ OneKind /\ DirsNamed
    /\ DirsInside /\ UniqueNames

\* No entry names inode k.
Nameless(k) == NamesOf(k) = {} /\ k \notin Directories

\* Inode k would be a directory without what is in the blocks of inode n.
DirWithout(k, n) ==
    \/ k = RootInode
    \/ \E b \in block_bitmap : \E o \in DOMAIN dirents[b] : Declares(b, o, k) /\ Outside(b, n)

\* Inode k is a directory that ext2_mkdir has not named yet: nothing but its
\* own entries, "." and "..", knows of it.
Nascent(k, parent) ==
    /\ k \in Directories /\ k # RootInode
    /\ \A b \in block_bitmap : \A o \in DOMAIN dirents[b] : Declares(b, o, k) => ~Outside(b, k)
    /\ \A i \in Held(k) : \A o \in DOMAIN dirents[get_inode_block_number(k, i)] :
          /\ dirents[get_inode_block_number(k, i)][o].inode \in {k, parent}
          /\ dirents[get_inode_block_number(k, i)][o].name \in {".", ".."}

\* What the steps of a command rely on.
NamesControl ==
    /\ pc \in {"inode", "path", "dot", "dotdot", "entry", "unlink"}
          => cmd.parent \in inode_bitmap
    /\ pc \in {"path", "dot", "dotdot", "entry", "count", "write", "unlink",
               "drop", "free", "undo"} => cmd.inode \in inode_bitmap
    /\ pc \in {"blocks", "parent"} /\ cmd.exists => cmd.inode \in inode_bitmap
    /\ pc \in {"blocks", "parent"} /\ ~cmd.exists => traverse_path(cmd.comps) = NULL
    /\ pc \in {"inode", "entry"} /\ cmd.op = "cp" => ~cmd.exists
    /\ pc \in {"path", "dot"} \/ (pc \in {"entry", "undo"} /\ cmd.op \in {"cp", "ln_s"})
          => Nameless(cmd.inode) /\ i_links_count[cmd.inode] = 1
    /\ pc = "dot" \/ (pc \in {"entry", "write"} /\ cmd.op = "cp" /\ ~cmd.exists)
          => Held(cmd.inode) = {}
    /\ pc = "dotdot" => Held(cmd.inode) \subseteq {0}
    /\ pc \in {"path", "dot", "dotdot", "undo"} \/ (pc = "entry" /\ cmd.op # "ln")
          => cmd.inode # cmd.parent
    /\ pc = "write" /\ ~cmd.exists => cmd.inode \notin Directories
    /\ pc = "entry" /\ cmd.op = "ln" => cmd.inode \notin Directories /\ ~cmd.made
    /\ pc = "inode" /\ cmd.op = "mkdir" => cmd.parent \in Directories
    /\ pc \in {"dot", "dotdot", "entry", "undo"} /\ cmd.op = "mkdir"
          => DirWithout(cmd.parent, cmd.inode)
    /\ pc \in {"dotdot", "entry", "undo"} /\ cmd.op = "mkdir"
          => Nascent(cmd.inode, cmd.parent)
    /\ pc = "dotdot" => ~HasName(cmd.inode, "..")
    /\ pc \in {"inode", "path", "dot", "dotdot", "entry"} /\ cmd.parent \in Directories
          => ~HasName(cmd.parent, listPeek(cmd.comps))
    /\ pc = "unlink" =>
          /\ cmd.parent \in Directories
          /\ find_matching_entry(cmd.parent, listPeek(cmd.comps)).inode = cmd.inode
          /\ find_matching_entry(cmd.parent, listPeek(cmd.comps)).file_type # "dir"
    /\ pc \in {"unlink", "drop", "free"} => cmd.inode \notin Directories
    /\ pc = "free" => i_links_count[cmd.inode] = 0

NamesInv == DiskNames /\ LinksCover /\ NamesControl

-----------------------------------------------------------------------------
(* Reading the invariant entry by entry *)

\* The positions of a directory's names, and the entries of a block that have
\* a name.
Printed(k) == print_dir_contents(k, TRUE)
WithName(block) == print_block_contents(block, TRUE)

\* The positions of a directory's names, before and after a step.
LEMMA PrintedIs ==
    ASSUME NEW k
    PROVE  /\ \A p : p \in Printed(k) <=>
                 \E i \in Slots : \E o : /\ get_inode_block_number(k, i) # 0 /\ p = <<i, o>>
                                       /\ o \in WithName(dirents[get_inode_block_number(k, i)])
           /\ \A p : p \in Printed(k)' <=>
                 \E i \in Slots : \E o : /\ get_inode_block_number(k, i)' # 0 /\ p = <<i, o>>
                                       /\ o \in WithName(dirents'[get_inode_block_number(k, i)'])
<1>. DEFINE Old(i) == {<<i, o>> : o \in WithName(dirents[get_inode_block_number(k, i)])}
            New(i) == {<<i, o>> : o \in WithName(dirents'[get_inode_block_number(k, i)'])}
<1>1. \A p, i : p \in Old(i) <=>
        \E o \in WithName(dirents[get_inode_block_number(k, i)]) : p = <<i, o>>
  OBVIOUS
<1>2. \A p, i : p \in New(i) <=>
        \E o \in WithName(dirents'[get_inode_block_number(k, i)']) : p = <<i, o>>
  OBVIOUS
<1>3. Printed(k) = UNION {Old(i) : i \in {j \in Slots : get_inode_block_number(k, j) # 0}}
  BY Zenon DEF print_dir_contents, Printed, WithName
<1>4. Printed(k)' = UNION {New(i) : i \in {j \in Slots : get_inode_block_number(k, j)' # 0}}
  BY Zenon DEF print_dir_contents, Printed, WithName
<1>. HIDE DEF Old, New
<1>5. \A p : p \in Printed(k) <=>
        \E i \in Slots : get_inode_block_number(k, i) # 0 /\ p \in Old(i)
  BY <1>3
<1>6. \A p : p \in Printed(k)' <=>
        \E i \in Slots : get_inode_block_number(k, i)' # 0 /\ p \in New(i)
  BY <1>4
<1>. QED  BY <1>1, <1>2, <1>5, <1>6

\* The positions that have a name, directory by directory.
LEMMA NamedIs ==
    /\ \A e : e \in NamedPositions <=> \E k \in inode_bitmap : \E p \in Printed(k) : e = <<k, p>>
    /\ \A e : e \in NamedPositions' <=> \E k \in inode_bitmap' : \E p \in Printed(k)' : e = <<k, p>>
<1>. DEFINE Old(k) == {<<k, p>> : p \in Printed(k)}
            New(k) == {<<k, p>> : p \in Printed(k)'}
<1>1. \A e, k : e \in Old(k) <=> \E p \in Printed(k) : e = <<k, p>>
  OBVIOUS
<1>2. \A e, k : e \in New(k) <=> \E p \in Printed(k)' : e = <<k, p>>
  OBVIOUS
<1>3. NamedPositions = UNION {Old(k) : k \in inode_bitmap}
  BY Zenon DEF NamedPositions, Printed
<1>4. NamedPositions' = UNION {New(k) : k \in inode_bitmap'}
  BY Zenon DEF NamedPositions, Printed
<1>. HIDE DEF Old, New
<1>5. \A e : e \in NamedPositions <=> \E k \in inode_bitmap : e \in Old(k)
  BY <1>3
<1>6. \A e : e \in NamedPositions' <=> \E k \in inode_bitmap' : e \in New(k)
  BY <1>4
<1>. QED  BY <1>1, <1>2, <1>5, <1>6

\* The entries of a block that have a name.
LEMMA WithNameIs ==
    \A b, o : o \in WithName(b) <=> o \in DOMAIN b /\ b[o].name # Unnamed
BY DEF WithName, print_block_contents

\* The positions of NamedPositions and what is read there, before and after a
\* step.
LEMMA Listing ==
    ASSUME NEW d, NEW i, NEW o
    PROVE  /\ <<d, <<i, o>>>> \in NamedPositions <=> Lists(d, i, o)
           /\ <<d, <<i, o>>>> \in NamedPositions' <=> Lists(d, i, o)'
           /\ i \in Slots => /\ EntryAt(d, <<i, o>>) = Says(d, i, o)
                             /\ EntryAt(d, <<i, o>>)' = Says(d, i, o)'
<1>1. i \in Slots => /\ get_inode_block_number(d, i) = At(i_block, numbers, d, i)
                     /\ get_inode_block_number(d, i)' = At(i_block', numbers', d, i)
  BY NumberIs, KeptIs DEF At
<1>2. ASSUME i \in Slots
      PROVE  /\ EntryAt(d, <<i, o>>) = Says(d, i, o)
             /\ EntryAt(d, <<i, o>>)' = Says(d, i, o)'
  <2>1. <<i, o>>[1] = i /\ <<i, o>>[2] = o
    OBVIOUS
  <2>. QED  BY <1>1, <1>2, <2>1 DEF EntryAt, Says
<1>5. <<i, o>> \in Printed(d) <=>
        /\ i \in Slots /\ get_inode_block_number(d, i) # 0
        /\ o \in WithName(dirents[get_inode_block_number(d, i)])
  BY PrintedIs
<1>6. <<i, o>> \in Printed(d)' <=>
        /\ i \in Slots /\ get_inode_block_number(d, i)' # 0
        /\ o \in WithName(dirents'[get_inode_block_number(d, i)'])
  BY PrintedIs
<1>7. <<d, <<i, o>>>> \in NamedPositions <=>
        d \in inode_bitmap /\ <<i, o>> \in Printed(d)
  BY NamedIs
<1>8. <<d, <<i, o>>>> \in NamedPositions' <=>
        d \in inode_bitmap' /\ <<i, o>> \in Printed(d)'
  BY NamedIs
<1>9. <<d, <<i, o>>>> \in NamedPositions <=> Lists(d, i, o)
  BY <1>1, <1>5, <1>7, WithNameIs DEF Lists
<1>10. <<d, <<i, o>>>> \in NamedPositions' <=> Lists(d, i, o)'
  BY <1>1, <1>6, <1>8, WithNameIs DEF Lists
<1>. QED  BY <1>2, <1>9, <1>10

\* Every named position is a slot of an inode and an offset in its block.
LEMMA ListingAll ==
    /\ \A e \in NamedPositions : \E d, i, o : e = <<d, <<i, o>>>> /\ Lists(d, i, o)
    /\ \A e \in NamedPositions' : \E d, i, o : e = <<d, <<i, o>>>> /\ Lists(d, i, o)'
<1>1. ASSUME NEW e \in NamedPositions
      PROVE  \E d, i, o : e = <<d, <<i, o>>>> /\ Lists(d, i, o)
  <2>1. PICK d \in inode_bitmap : \E p \in Printed(d) : e = <<d, p>>
    BY NamedIs
  <2>2. PICK i, o : e = <<d, <<i, o>>>>
    BY <2>1, PrintedIs
  <2>. QED  BY <2>2, Listing
<1>2. ASSUME NEW e \in NamedPositions'
      PROVE  \E d, i, o : e = <<d, <<i, o>>>> /\ Lists(d, i, o)'
  <2>1. PICK d \in inode_bitmap' : \E p \in Printed(d)' : e = <<d, p>>
    BY NamedIs
  <2>2. PICK i, o : e = <<d, <<i, o>>>>
    BY <2>1, PrintedIs
  <2>. QED  BY <2>2, Listing
<1>. QED  BY <1>1, <1>2

\* The names of an inode, entry by entry.
LEMMA NamesOfIs ==
    ASSUME NEW k, NEW d, NEW i, NEW o
    PROVE  /\ <<d, <<i, o>>>> \in NamesOf(k) <=> Lists(d, i, o) /\ Says(d, i, o).inode = k
           /\ <<d, <<i, o>>>> \in NamesOf(k)' <=> Lists(d, i, o)' /\ Says(d, i, o)'.inode = k
<1>. DEFINE e == <<d, <<i, o>>>>
<1>1. e[1] = d /\ e[2] = <<i, o>>
  OBVIOUS
<1>2. e \in NamesOf(k) <=> e \in NamedPositions /\ EntryAt(d, <<i, o>>).inode = k
  BY <1>1 DEF NamesOf
<1>3. e \in NamesOf(k)' <=> e \in NamedPositions' /\ EntryAt(d, <<i, o>>)'.inode = k
  BY <1>1 DEF NamesOf
<1>4. Lists(d, i, o) \/ Lists(d, i, o)' => i \in Slots
  BY DEF Lists
<1>. HIDE DEF e
<1>. QED  BY <1>2, <1>3, <1>4, Listing DEF e

\* Every name of an inode is a slot and an offset.
LEMMA NamesOfAll ==
    ASSUME NEW k
    PROVE  /\ \A e \in NamesOf(k) : \E d, i, o : e = <<d, <<i, o>>>>
           /\ \A e \in NamesOf(k)' : \E d, i, o : e = <<d, <<i, o>>>>
<1>1. \A e \in NamesOf(k) : e \in NamedPositions
  BY DEF NamesOf
<1>2. \A e \in NamesOf(k)' : e \in NamedPositions'
  BY DEF NamesOf
<1>. QED  BY <1>1, <1>2, ListingAll

\* What an inode's being a directory comes down to.
LEMMA DirectoryIs ==
    ASSUME NEW k
    PROVE  /\ k \in Directories <=> k = RootInode \/ \E b, o : Declares(b, o, k)
           /\ k \in Directories' <=> k = RootInode \/ \E b, o : Declares(b, o, k)'
<1>1. k \in Directories <=> k = RootInode \/ \E b, o : Declares(b, o, k)
  BY DEF Directories, Declares
<1>2. k \in Directories' <=> k = RootInode \/ \E b, o : Declares(b, o, k)'
  BY DEF Directories, Declares
<1>. QED  BY <1>1, <1>2

\* The clauses of the invariant, entry by entry.
EachLive == \A d, i, o : Lists(d, i, o) => Says(d, i, o).inode \in inode_bitmap
EachKind == \A d, i, o : Lists(d, i, o) /\ Says(d, i, o).inode \in Directories
                            => Says(d, i, o).file_type = "dir"
EachOnce == \A k \in Directories : \A i, o, j, q :
                Lists(k, i, o) /\ Lists(k, j, q) /\ Says(k, i, o).name = Says(k, j, q).name
                    => i = j /\ o = q

\* Living, entry by entry.
LEMMA LiveIs == Living <=> EachLive
<1>1. ASSUME Living, NEW d, NEW i, NEW o, Lists(d, i, o)
      PROVE  Says(d, i, o).inode \in inode_bitmap
  <2>1. <<d, <<i, o>>>> \in NamedPositions /\ i \in Slots
    BY <1>1, Listing DEF Lists
  <2>2. <<d, <<i, o>>>>[1] = d /\ <<d, <<i, o>>>>[2] = <<i, o>>
    OBVIOUS
  <2>3. EntryAt(d, <<i, o>>).inode \in inode_bitmap
    BY <1>1, <2>1, <2>2 DEF Living
  <2>. QED  BY <2>1, <2>3, Listing
<1>2. ASSUME EachLive, NEW e \in NamedPositions
      PROVE  EntryAt(e[1], e[2]).inode \in inode_bitmap
  <2>1. PICK d, i, o : e = <<d, <<i, o>>>> /\ Lists(d, i, o)
    BY ListingAll
  <2>2. e[1] = d /\ e[2] = <<i, o>> /\ i \in Slots
    BY <2>1 DEF Lists
  <2>. QED  BY <1>2, <2>1, <2>2, Listing DEF EachLive
<1>. QED  BY <1>1, <1>2 DEF Living, EachLive

\* OneKind, entry by entry.
LEMMA KindIs == OneKind <=> EachKind
<1>1. ASSUME OneKind, NEW d, NEW i, NEW o, Lists(d, i, o), Says(d, i, o).inode \in Directories
      PROVE  Says(d, i, o).file_type = "dir"
  <2>1. <<d, <<i, o>>>> \in NamedPositions /\ i \in Slots
    BY <1>1, Listing DEF Lists
  <2>2. <<d, <<i, o>>>>[1] = d /\ <<d, <<i, o>>>>[2] = <<i, o>>
    OBVIOUS
  <2>3. EntryAt(d, <<i, o>>).inode \in Directories
    BY <1>1, <2>1, Listing
  <2>4. EntryAt(d, <<i, o>>).file_type = "dir"
    BY <1>1, <2>1, <2>2, <2>3 DEF OneKind
  <2>. QED  BY <2>1, <2>4, Listing
<1>2. ASSUME EachKind, NEW e \in NamedPositions, EntryAt(e[1], e[2]).inode \in Directories
      PROVE  EntryAt(e[1], e[2]).file_type = "dir"
  <2>1. PICK d, i, o : e = <<d, <<i, o>>>> /\ Lists(d, i, o)
    BY ListingAll
  <2>2. e[1] = d /\ e[2] = <<i, o>> /\ i \in Slots
    BY <2>1 DEF Lists
  <2>. QED  BY <1>2, <2>1, <2>2, Listing DEF EachKind
<1>. QED  BY <1>1, <1>2 DEF OneKind, EachKind

\* UniqueNames, entry by entry.
LEMMA OnceIs == LiveDirs => (UniqueNames <=> EachOnce)
<1>. SUFFICES ASSUME LiveDirs PROVE UniqueNames <=> EachOnce
  OBVIOUS
<1>0. UniqueNames <=> \A k \in Directories : \A p, q \in Printed(k) :
                         EntryAt(k, p).name = EntryAt(k, q).name => p = q
  BY Zenon DEF UniqueNames, Printed
<1>1. \A k \in Directories : \A p : p \in Printed(k)
                                     <=> <<k, p>> \in NamedPositions
  BY NamedIs DEF LiveDirs
<1>2. ASSUME UniqueNames, NEW k \in Directories, NEW i, NEW o, NEW j, NEW q,
             Lists(k, i, o), Lists(k, j, q), Says(k, i, o).name = Says(k, j, q).name
      PROVE  i = j /\ o = q
  <2>1. /\ <<i, o>> \in Printed(k) /\ <<j, q>> \in Printed(k)
        /\ i \in Slots /\ j \in Slots
    BY <1>1, <1>2, Listing DEF Lists
  <2>2. EntryAt(k, <<i, o>>).name = EntryAt(k, <<j, q>>).name
    BY <1>2, <2>1, Listing
  <2>3. <<i, o>> = <<j, q>>
    BY <1>0, <1>2, <2>1, <2>2
  <2>. QED  BY <2>3
<1>3. ASSUME EachOnce, NEW k \in Directories, NEW p \in Printed(k),
             NEW r \in Printed(k), EntryAt(k, p).name = EntryAt(k, r).name
      PROVE  p = r
  <2>1. PICK i, o : p = <<i, o>>
    BY PrintedIs
  <2>2. PICK j, q : r = <<j, q>>
    BY PrintedIs
  <2>3. Lists(k, i, o) /\ Lists(k, j, q)
    BY <1>1, <2>1, <2>2, Listing
  <2>4. Says(k, i, o).name = Says(k, j, q).name
    BY <1>3, <2>1, <2>2, <2>3, Listing DEF Lists
  <2>. QED  BY <1>3, <2>1, <2>2, <2>3, <2>4 DEF EachOnce
<1>. QED  BY <1>0, <1>2, <1>3 DEF EachOnce

\* The same after a step.
LEMMA EachPrimed ==
    /\ Living' <=> EachLive'
    /\ OneKind' <=> EachKind'
    /\ LiveDirs' => (UniqueNames' <=> EachOnce')
<1>1. Living' <=> EachLive'
  BY LiveIs, PTL
<1>2. OneKind' <=> EachKind'
  BY KindIs, PTL
<1>3. LiveDirs' => (UniqueNames' <=> EachOnce')
  BY OnceIs, PTL
<1>. QED  BY <1>1, <1>2, <1>3

\* A slot that holds nothing, before and after a step.
LEMMA HeldIs ==
    ASSUME NEW k
    PROVE  /\ \A i \in Slots : i \in Held(k) <=> At(i_block, numbers, k, i) # 0
           /\ \A i \in Slots : i \in Held(k)' <=> At(i_block', numbers', k, i) # 0
           /\ Held(k) \subseteq Slots /\ Held(k)' \subseteq Slots
           /\ \A i \in Slots : get_inode_block_number(k, i) = At(i_block, numbers, k, i)
           /\ \A i \in Slots : get_inode_block_number(k, i)' = At(i_block', numbers', k, i)
<1>1. \A i \in Slots : /\ get_inode_block_number(k, i) = At(i_block, numbers, k, i)
                       /\ get_inode_block_number(k, i)' = At(i_block', numbers', k, i)
  BY NumberIs, KeptIs DEF At
<1>. QED  BY <1>1 DEF Held

\* What a named entry is, in a sound state.
EntryFacts ==
    \A d, i, o : Lists(d, i, o) =>
        /\ d \in Inodes /\ i \in Slots /\ i \in Kept
        /\ At(i_block, numbers, d, i) \in Blocks
        /\ At(i_block, numbers, d, i) \in block_bitmap
        /\ o \in 0 .. BLOCK_SIZE - 1
        /\ Says(d, i, o) \in ext2_dir_entry_2(Inodes)
        /\ Says(d, i, o).inode \in Inodes
        /\ Says(d, i, o).name \in Names

\* A name, where it is in use.
NameFacts ==
    \A k \in inode_bitmap : \A name \in Names :
        HasName(k, name) <=> \E i, o : Lists(k, i, o) /\ Says(k, i, o).name = name

\* Entries have their types.
LEMMA EntryTypes == IInv => EntryFacts
<1>. SUFFICES ASSUME IInv, NEW d, NEW i, NEW o, Lists(d, i, o)
              PROVE  /\ d \in Inodes /\ i \in Slots /\ i \in Kept
                     /\ At(i_block, numbers, d, i) \in Blocks
                     /\ At(i_block, numbers, d, i) \in block_bitmap
                     /\ o \in 0 .. BLOCK_SIZE - 1
                     /\ Says(d, i, o) \in ext2_dir_entry_2(Inodes)
                     /\ Says(d, i, o).inode \in Inodes
                     /\ Says(d, i, o).name \in Names
  BY DEF EntryFacts
<1>1. d \in Inodes /\ i \in Slots /\ i \in Kept
  BY KeptIs DEF Lists, IInv, Typed
<1>2. At(i_block, numbers, d, i) \in Blocks /\ At(i_block, numbers, d, i) \in block_bitmap
  BY <1>1, PlaceFacts DEF Lists
<1>3. IsChain(dirents[At(i_block, numbers, d, i)], Inodes)
  BY <1>2 DEF IInv, Typed
<1>4. o \in 0 .. BLOCK_SIZE - 1 /\ Says(d, i, o) \in ext2_dir_entry_2(Inodes)
  BY <1>3 DEF IsChain, Lists, Says
<1>5. Says(d, i, o).inode \in Inodes /\ Says(d, i, o).name \in Names \cup {Unnamed}
  BY <1>4 DEF ext2_dir_entry_2
<1>6. Says(d, i, o).name # Unnamed
  BY DEF Lists, Says
<1>. QED  BY <1>1, <1>2, <1>4, <1>5, <1>6

\* A name that is in use is listed.
LEMMA NamesListed == NameFacts
<1>. SUFFICES ASSUME NEW k \in inode_bitmap, NEW name \in Names
              PROVE  HasName(k, name) <=> \E i, o : Lists(k, i, o) /\ Says(k, i, o).name = name
  BY DEF NameFacts
<1>1. name # Unnamed
  BY UnnamedAssumption
<1>2. \A i \in Slots : NumberIn(i_block, numbers, k, i) = At(i_block, numbers, k, i)
  BY KeptIs DEF At
<1>. QED  BY <1>1, <1>2 DEF HasName, HasNameIn, Lists, Says

\* The same after a step.
LEMMA FactsPrimed == (IInv' => EntryFacts') /\ NameFacts'
<1>1. IInv' => EntryFacts'
  BY EntryTypes, PTL
<1>2. NameFacts'
  BY NamesListed, PTL
<1>. QED  BY <1>1, <1>2

-----------------------------------------------------------------------------
(* What a step may do to names *)

\* Two entries that differ in their lengths at most.
Alike(x, y) == x.inode = y.inode /\ x.name = y.name /\ x.file_type = y.file_type

\* The entries of the blocks in use stay there.
BlocksKeep ==
    \A b \in block_bitmap :
        /\ b \in block_bitmap'
        /\ \A o \in DOMAIN dirents[b] : /\ o \in DOMAIN dirents'[b]
                                        /\ Alike(dirents'[b][o], dirents[b][o])

\* No other entries come up in them.
BlocksOnly ==
    \A b \in block_bitmap' : \A o \in DOMAIN dirents'[b] :
        b \in block_bitmap /\ o \in DOMAIN dirents[b]

\* A slot that holds entries held them before.
SlotsOnly ==
    \A d \in Inodes : \A i \in Slots :
        At(i_block', numbers', d, i) # 0 /\ DOMAIN dirents'[At(i_block', numbers', d, i)] # {}
            => At(i_block', numbers', d, i) = At(i_block, numbers, d, i)

\* After a step that only keeps the entries it found, no name is new.
NoNewName ==
    \A d, i, o : Lists(d, i, o)' => Lists(d, i, o) /\ Alike(Says(d, i, o)', Says(d, i, o))

\* The directories are those the blocks in use say, and stay.
LEMMA QuietDirectories ==
    ASSUME BlocksKeep, BlocksOnly PROVE Directories' = Directories
<1>1. \A k, b, o : Declares(b, o, k) => Declares(b, o, k)'
  BY DEF Declares, BlocksKeep, Alike
<1>2. \A k, b, o : Declares(b, o, k)' => Declares(b, o, k)
  BY DEF Declares, BlocksKeep, BlocksOnly, Alike
<1>. QED  BY <1>1, <1>2, DirectoryIs

\* A free inode holds nothing.
LEMMA FreeHoldsNothing ==
    ASSUME IInv, Agreeing, NEW d \in Inodes, NEW i \in Slots, d \notin inode_bitmap
    PROVE  At(i_block, numbers, d, i) = 0
<1>1. Held(d) = {}
  BY DEF Agreeing
<1>. QED  BY <1>1, HeldIs

\* When blocks keep their entries and slots their blocks, no name is new.
LEMMA QuietNames ==
    ASSUME IInv, IInv', Agreeing, BlocksKeep, BlocksOnly, SlotsOnly
    PROVE  NoNewName
<1>. SUFFICES ASSUME NEW d, NEW i, NEW o, Lists(d, i, o)'
              PROVE  Lists(d, i, o) /\ Alike(Says(d, i, o)', Says(d, i, o))
  BY DEF NoNewName
<1>. DEFINE b == At(i_block', numbers', d, i)
<1>1. d \in Inodes /\ i \in Slots /\ b \in block_bitmap'
  BY FactsPrimed DEF EntryFacts
<1>2. b # 0 /\ o \in DOMAIN dirents'[b] /\ dirents'[b][o].name # Unnamed
  BY DEF Lists
<1>3. b = At(i_block, numbers, d, i)
  BY <1>1, <1>2 DEF SlotsOnly
<1>4. b \in block_bitmap /\ o \in DOMAIN dirents[b]
  BY <1>1, <1>2 DEF BlocksOnly
<1>5. Alike(dirents'[b][o], dirents[b][o])
  BY <1>4 DEF BlocksKeep
<1>6. d \in inode_bitmap
  BY <1>1, <1>2, <1>3, FreeHoldsNothing
<1>. HIDE DEF b
<1>. QED  BY <1>1, <1>2, <1>3, <1>4, <1>5, <1>6 DEF Lists, Says, Alike, b

\* DirsInside, entry by entry.
EachInside ==
    \A k \in Inodes : \A i \in Slots :
        At(i_block, numbers, k, i) # 0 =>
            \A o \in DOMAIN dirents[At(i_block, numbers, k, i)] :
                dirents[At(i_block, numbers, k, i)][o].file_type = "dir" => k \in Directories

\* DirsInside is that.
LEMMA InsideIs == DirsInside <=> EachInside
<1>1. \A k : Held(k) \subseteq Slots
  BY HeldIs
<1>. QED  BY <1>1, HeldIs DEF DirsInside, EachInside

\* The same after a step.
LEMMA InsidePrimed == DirsInside' <=> EachInside'
BY InsideIs, PTL

\* What a step that makes and unmakes no entry leaves of the invariant.
LEMMA QuietStep ==
    ASSUME IInv, IInv', DiskNames, BlocksKeep, BlocksOnly, SlotsOnly,
           inode_bitmap \subseteq inode_bitmap'
    PROVE  /\ Directories' = Directories
           /\ LiveDirs' /\ Living' /\ OneKind' /\ DirsNamed' /\ DirsInside' /\ UniqueNames'
           /\ \A k : NamesOf(k)' \subseteq NamesOf(k)
<1>1. Directories' = Directories
  BY QuietDirectories
<1>2. NoNewName
  BY QuietNames DEF DiskNames
<1>3. LiveDirs'
  BY <1>1 DEF DiskNames, LiveDirs
<1>4. Living'
  <2>1. EachLive
    BY LiveIs DEF DiskNames
  <2>2. EachLive'
    BY <1>2, <2>1 DEF EachLive, NoNewName, Alike
  <2>. QED  BY <2>2, EachPrimed
<1>5. OneKind'
  <2>1. EachKind
    BY KindIs DEF DiskNames
  <2>2. EachKind'
    BY <1>1, <1>2, <2>1 DEF EachKind, NoNewName, Alike
  <2>. QED  BY <2>2, EachPrimed
<1>6. DirsNamed'
  BY DEF DiskNames, DirsNamed, BlocksKeep, BlocksOnly, Alike
<1>7. DirsInside'
  <2>1. SUFFICES ASSUME NEW k \in Inodes, NEW i \in Slots, NEW b,
                        b = At(i_block', numbers', k, i), b # 0,
                        NEW o \in DOMAIN dirents'[b], dirents'[b][o].file_type = "dir"
                 PROVE  k \in Directories'
    BY InsidePrimed DEF EachInside
  <2>2. b = At(i_block, numbers, k, i)
    BY <2>1 DEF SlotsOnly
  <2>3. b \in block_bitmap'
    <3>1. i \in Kept
      BY KeptIs
    <3>2. Owned(i_block', numbers', block_bitmap', InHand')
      <4>1. OneOwner' <=> Owned(i_block, numbers, block_bitmap, InHand)'
        BY OwnedIs, PTL
      <4>2. OneOwner'
        BY DEF IInv
      <4>. QED  BY <4>1, <4>2 DEF Owned
    <3>. QED  BY <2>1, <3>1, <3>2 DEF Owned
  <2>4. b \in block_bitmap /\ o \in DOMAIN dirents[b]
    BY <2>1, <2>3 DEF BlocksOnly
  <2>5. dirents[b][o].file_type = "dir"
    BY <2>1, <2>4 DEF BlocksKeep, Alike
  <2>6. EachInside
    BY InsideIs DEF DiskNames
  <2>7. k \in Directories
    BY <2>1, <2>2, <2>4, <2>5, <2>6 DEF EachInside
  <2>. QED  BY <1>1, <2>7
<1>8. UniqueNames'
  <2>1. EachOnce
    BY OnceIs DEF DiskNames
  <2>2. EachOnce'
    BY <1>1, <1>2, <2>1 DEF EachOnce, NoNewName, Alike
  <2>. QED  BY <1>3, <2>2, EachPrimed
<1>9. \A k : NamesOf(k)' \subseteq NamesOf(k)
  <2>1. SUFFICES ASSUME NEW k, NEW e \in NamesOf(k)' PROVE e \in NamesOf(k)
    OBVIOUS
  <2>2. PICK d, i, o : e = <<d, <<i, o>>>>
    BY NamesOfAll
  <2>3. Lists(d, i, o)' /\ Says(d, i, o)'.inode = k
    BY <2>2, NamesOfIs
  <2>4. Lists(d, i, o) /\ Says(d, i, o).inode = k
    BY <1>2, <2>3 DEF NoNewName, Alike
  <2>. QED  BY <2>2, <2>4, NamesOfIs
<1>. QED  BY <1>1, <1>3, <1>4, <1>5, <1>6, <1>7, <1>8, <1>9

-----------------------------------------------------------------------------
(* Counting names *)

\* An inode has finitely many names.
NamesCounted ==
    \A k : IsFiniteSet(NamesOf(k)) /\ Cardinality(NamesOf(k)) \in Nat

\* They are among the slots and offsets of the inodes.
LEMMA NamesFinite == IInv => NamesCounted
<1>. SUFFICES ASSUME IInv, NEW k
              PROVE  IsFiniteSet(NamesOf(k)) /\ Cardinality(NamesOf(k)) \in Nat
  BY DEF NamesCounted
<1>. DEFINE Offsets == 0 .. BLOCK_SIZE - 1
            All == Inodes \X (Slots \X Offsets)
<1>1. IsFiniteSet(Slots) /\ IsFiniteSet(Offsets)
  <2>1. 0 \in Int /\ INODE_BLOCK_LIMIT - 1 \in Int /\ BLOCK_SIZE - 1 \in Int
    BY Bounds, BlockAssumption
  <2>. QED  BY <2>1, FS_Interval DEF Slots
<1>2. IsFiniteSet(Slots \X Offsets)
  BY <1>1, FS_Product
<1>3. IsFiniteSet(All)
  BY <1>2, FS_Product, Ext2Assumption
<1>4. NamesOf(k) \subseteq All
  <2>1. SUFFICES ASSUME NEW e \in NamesOf(k) PROVE e \in All
    OBVIOUS
  <2>2. PICK d, i, o : e = <<d, <<i, o>>>>
    BY NamesOfAll
  <2>3. Lists(d, i, o)
    BY <2>2, NamesOfIs
  <2>4. d \in Inodes /\ i \in Slots /\ o \in Offsets
    BY <2>3, EntryTypes DEF EntryFacts
  <2>. QED  BY <2>2, <2>4
<1>. HIDE DEF All
<1>. QED  BY <1>3, <1>4, FS_Subset, FS_CardinalityType

\* The same after a step.
LEMMA CountedPrimed == IInv' => NamesCounted'
BY NamesFinite, PTL

\* Fewer names are no more in number.
LEMMA FewerNames ==
    ASSUME IInv, IInv', NEW k, NamesOf(k)' \subseteq NamesOf(k)
    PROVE  /\ Cardinality(NamesOf(k)') \in Nat /\ Cardinality(NamesOf(k)) \in Nat
           /\ Cardinality(NamesOf(k)') <= Cardinality(NamesOf(k))
<1>1. IsFiniteSet(NamesOf(k)) /\ Cardinality(NamesOf(k)) \in Nat
  BY NamesFinite DEF NamesCounted
<1>2. Cardinality(NamesOf(k)') \in Nat
  BY CountedPrimed DEF NamesCounted
<1>. QED  BY <1>1, <1>2, FS_Subset

\* What a step that makes no name leaves of the link counts.
LEMMA QuietLinks ==
    ASSUME IInv, IInv', LinksCover, pc # "count", pc' # "drop", Directories' = Directories,
           \A k \in Inodes : \/ /\ NamesOf(k)' \subseteq NamesOf(k)
                                /\ i_links_count'[k] >= i_links_count[k]
                             \/ NamesOf(k)' = {}
    PROVE  LinksCover'
<1>. SUFFICES ASSUME NEW k \in Inodes, k \notin Directories
              PROVE  Cardinality(NamesOf(k)') <= i_links_count'[k]
  <2>1. i_links_count' \in [Inodes -> 0 .. USHRT_MAX]
    BY DEF IInv, Typed
  <2>2. \A j \in Inodes : i_links_count'[j] \in Nat /\ Cardinality(NamesOf(j)') \in Nat
    BY <2>1, CountedPrimed, ShortIsNat DEF NamesCounted
  <2>3. SUFFICES ASSUME NEW k \in Inodes, k \notin Directories
        PROVE  Cardinality(NamesOf(k)') + (IF pc' = "drop" /\ cmd'.inode = k THEN 1 ELSE 0)
            <= i_links_count'[k] + (IF pc' = "count" /\ cmd'.made /\ cmd'.inode = k THEN 1 ELSE 0)
    BY DEF LinksCover
  <2>4. Cardinality(NamesOf(k)') <= i_links_count'[k]
    BY <2>3
  <2>. QED  BY <2>2, <2>4
<1>1. i_links_count[k] \in Nat /\ i_links_count'[k] \in Nat
  BY ShortIsNat DEF IInv, Typed
<1>2. CASE NamesOf(k)' = {}
  BY <1>1, <1>2, FS_EmptySet
<1>3. CASE /\ NamesOf(k)' \subseteq NamesOf(k)
           /\ i_links_count'[k] >= i_links_count[k]
  <2>1. /\ Cardinality(NamesOf(k)') \in Nat /\ Cardinality(NamesOf(k)) \in Nat
        /\ Cardinality(NamesOf(k)') <= Cardinality(NamesOf(k))
    BY <1>3, FewerNames
  <2>2. Cardinality(NamesOf(k)) + (IF pc = "drop" /\ cmd.inode = k THEN 1 ELSE 0)
            <= i_links_count[k]
    BY <1>1 DEF LinksCover
  <2>. DEFINE old == Cardinality(NamesOf(k))
              new == Cardinality(NamesOf(k)')
  <2>3. old <= i_links_count[k]
    <3>. HIDE DEF old
    <3>. QED  BY <1>1, <2>1, <2>2 DEF old
  <2>. HIDE DEF old, new
  <2>. QED  BY <1>1, <1>3, <2>1, <2>3 DEF old, new
<1>. QED  BY <1>2, <1>3

\* No inode is taken or freed and no free inode is given a block.
LEMMA SameFree ==
    ASSUME Agreeing, inode_bitmap' = inode_bitmap, free_inodes_count' = free_inodes_count,
           \A k \in Inodes \ inode_bitmap : \A i \in Slots : At(i_block', numbers', k, i) = 0
    PROVE  Agreeing'
<1>1. \A k \in Inodes \ inode_bitmap' : Held(k)' = {}
  BY HeldIs
<1>. QED  BY <1>1 DEF Agreeing

-----------------------------------------------------------------------------
(* Searching directories *)

\* What find_matching_entry answers in a directory: the entry of the name.
FindFacts ==
    \A k \in Directories : \A name \in Names :
        /\ \A i, o : Lists(k, i, o) /\ Says(k, i, o).name = name =>
              /\ find_matching_entry(k, name) = Says(k, i, o)
              /\ find_matching_pair(k, name) = <<i, o>>
        /\ (\A i, o : ~(Lists(k, i, o) /\ Says(k, i, o).name = name)) =>
              find_matching_entry(k, name) = NULL

\* What is found in an inode in use is one of its names.
LEMMA FoundIsListed ==
    ASSUME IInv, NEW k \in inode_bitmap, NEW name \in Names,
           find_matching_entry(k, name) # NULL
    PROVE  \E i, o : /\ find_matching_pair(k, name) = <<i, o>>
                     /\ Lists(k, i, o) /\ Says(k, i, o).name = name
                     /\ find_matching_entry(k, name) = Says(k, i, o)
<1>1. k \in Inodes /\ Typed
  BY DEF IInv, Typed
<1>2. HasName(k, name)
  BY <1>1, MatchingType
<1>. DEFINE p == find_matching_pair(k, name)
<1>3. p \in Positions(k) /\ EntryAt(k, p).name = name
  BY <1>1, <1>2, FirstPair
<1>4. /\ p = <<p[1], p[2]>> /\ p[1] \in Slots
      /\ get_inode_block_number(k, p[1]) \in Blocks
      /\ p[2] \in DOMAIN dirents[get_inode_block_number(k, p[1])]
  BY <1>1, <1>3, PositionFacts
<1>5. find_matching_entry(k, name) = EntryAt(k, p)
  BY <1>1, <1>2, NameIs DEF find_matching_entry
<1>. HIDE DEF p
<1>6. PICK i, o : p = <<i, o>> /\ i = p[1] /\ o = p[2]
  BY <1>4
<1>7. At(i_block, numbers, k, i) = get_inode_block_number(k, i)
  BY <1>4, <1>6, HeldIs
<1>8. EntryAt(k, p) = Says(k, i, o)
  BY <1>4, <1>6, Listing
<1>9. Lists(k, i, o)
  BY <1>1, <1>3, <1>4, <1>6, <1>7, <1>8, Bounds, UnnamedAssumption DEF Lists, Says
<1>. QED  BY <1>3, <1>5, <1>6, <1>8, <1>9 DEF p

\* A name that is listed is found.
LEMMA ListedIsFound ==
    ASSUME IInv, NEW k, NEW i, NEW o, Lists(k, i, o)
    PROVE  find_matching_entry(k, Says(k, i, o).name) # NULL
<1>1. /\ k \in Inodes /\ k \in inode_bitmap /\ Typed
      /\ Says(k, i, o).name \in Names
  BY EntryTypes DEF EntryFacts, Lists, IInv
<1>2. HasName(k, Says(k, i, o).name)
  BY <1>1, NamesListed DEF NameFacts
<1>. DEFINE name == Says(k, i, o).name
            p == find_matching_pair(k, name)
<1>3. p \in Positions(k)
  BY <1>1, <1>2, FirstPair
<1>4. EntryAt(k, p) \in ext2_dir_entry_2(Inodes)
  BY <1>1, <1>3, PositionFacts
<1>5. find_matching_entry(k, name) = EntryAt(k, p)
  BY <1>1, <1>2, NameIs DEF find_matching_entry
<1>6. EntryAt(k, p) \in Found
  BY <1>4, FoundType
<1>. HIDE DEF name
<1>. QED  BY <1>5, <1>6, NullNotFound DEF name

\* In a directory, where each name is once, a search finds the entry.
LEMMA Finding == IInv /\ DiskNames => FindFacts
<1>. SUFFICES ASSUME IInv, DiskNames, NEW k \in Directories, NEW name \in Names
              PROVE  /\ \A i, o : Lists(k, i, o) /\ Says(k, i, o).name = name =>
                           /\ find_matching_entry(k, name) = Says(k, i, o)
                           /\ find_matching_pair(k, name) = <<i, o>>
                     /\ (\A i, o : ~(Lists(k, i, o) /\ Says(k, i, o).name = name)) =>
                           find_matching_entry(k, name) = NULL
  BY DEF FindFacts
<1>1. k \in inode_bitmap
  BY DEF DiskNames, LiveDirs
<1>2. EachOnce
  BY OnceIs DEF DiskNames
<1>3. ASSUME NEW i, NEW o, Lists(k, i, o), Says(k, i, o).name = name
      PROVE  /\ find_matching_entry(k, name) = Says(k, i, o)
             /\ find_matching_pair(k, name) = <<i, o>>
  <2>1. find_matching_entry(k, name) # NULL
    BY <1>3, ListedIsFound
  <2>2. PICK j, q : /\ find_matching_pair(k, name) = <<j, q>>
                    /\ Lists(k, j, q) /\ Says(k, j, q).name = name
                    /\ find_matching_entry(k, name) = Says(k, j, q)
    BY <1>1, <2>1, FoundIsListed
  <2>3. i = j /\ o = q
    BY <1>2, <1>3, <2>2 DEF EachOnce
  <2>. QED  BY <2>2, <2>3
<1>4. ASSUME \A i, o : ~(Lists(k, i, o) /\ Says(k, i, o).name = name)
      PROVE  find_matching_entry(k, name) = NULL
  BY <1>1, <1>4, FoundIsListed
<1>. QED  BY <1>3, <1>4

\* The same after a step.
LEMMA FindingPrimed == IInv' /\ DiskNames' => FindFacts'
BY Finding, PTL

-----------------------------------------------------------------------------
(* Following paths *)

\* What a path leads to is in use, and is a directory iff its entry says so.
SoundEntry(e) ==
    e # NULL => /\ e.inode \in inode_bitmap
                /\ is_directory(e) <=> e.inode \in Directories

\* The entries of an inode in use are sound.
LEMMA ListedSound ==
    ASSUME IInv, DiskNames, NEW k, NEW i, NEW o, Lists(k, i, o)
    PROVE  SoundEntry(Says(k, i, o))
<1>. DEFINE e == Says(k, i, o)
            b == At(i_block, numbers, k, i)
<1>1. e.inode \in inode_bitmap
  BY LiveIs DEF DiskNames, EachLive
<1>2. e.inode \in Directories => is_directory(e)
  BY KindIs DEF DiskNames, EachKind, is_directory
<1>3. ASSUME is_directory(e) PROVE e.inode \in Directories
  <2>1. b \in block_bitmap /\ o \in DOMAIN dirents[b] /\ e = dirents[b][o]
    BY EntryTypes DEF EntryFacts, Lists, Says
  <2>2. Declares(b, o, e.inode)
    <3>. HIDE DEF b, e
    <3>. QED  BY <1>3, <2>1 DEF Declares, is_directory
  <2>. QED  BY <2>2, DirectoryIs
<1>. QED  BY <1>1, <1>2, <1>3 DEF SoundEntry

\* So is what a search in such an inode answers.
LEMMA FoundSound ==
    ASSUME IInv, DiskNames, NEW k \in inode_bitmap, NEW name \in Names
    PROVE  SoundEntry(find_matching_entry(k, name))
<1>1. CASE find_matching_entry(k, name) = NULL
  BY <1>1 DEF SoundEntry
<1>2. CASE find_matching_entry(k, name) # NULL
  <2>1. PICK i, o : /\ Lists(k, i, o)
                    /\ find_matching_entry(k, name) = Says(k, i, o)
    BY <1>2, FoundIsListed
  <2>. QED  BY <2>1, ListedSound
<1>. QED  BY <1>1, <1>2

\* The root, where every walk starts.
LEMMA RootSound ==
    ASSUME DiskNames
    PROVE  SoundEntry(RootEntry) /\ RootEntry.inode = RootInode /\ is_directory(RootEntry)
<1>1. RootEntry.inode = RootInode /\ is_directory(RootEntry)
  BY DEF RootEntry, NULL, is_directory
<1>2. RootInode \in Directories
  BY DirectoryIs
<1>3. RootInode \in inode_bitmap
  BY <1>2 DEF DiskNames, LiveDirs
<1>. QED  BY <1>1, <1>2, <1>3 DEF SoundEntry

\* Every entry on a walk is sound.
LEMMA WalkSound ==
    ASSUME IInv, DiskNames, NEW c \in Seq(Names), NEW m \in 0 .. Len(c), NEW w, IsWalk(w, c, m)
    PROVE  \A n \in 0 .. m : SoundEntry(w[n])
<1>. DEFINE Bad == {n \in 0 .. m : ~SoundEntry(w[n])}
<1>0. m \in Nat /\ \A n \in 1 .. m : c[n] \in Names
  BY ElementOfSeq
<1>1. SUFFICES ASSUME Bad # {} PROVE FALSE
  OBVIOUS
<1>2. Min(Bad) \in Bad /\ \A n \in Bad : Min(Bad) <= n
  <2>1. Bad \subseteq Nat
    BY <1>0
  <2>. HIDE DEF Bad
  <2>. QED  BY <1>1, <2>1, MinOfNats
<1>3. PICK n \in 0 .. m : ~SoundEntry(w[n]) /\ \A i \in Bad : n <= i
  BY <1>2
<1>4. w[n] = IF n = 0 THEN RootEntry ELSE Into(w[n - 1], c[n])
  BY DEF IsWalk
<1>5. n # 0
  BY <1>3, <1>4, RootSound
<1>6. n - 1 \in 0 .. m /\ n \in 1 .. m
  BY <1>0, <1>5
<1>7. SoundEntry(w[n - 1])
  <2>1. n - 1 \notin Bad
    BY <1>0, <1>3
  <2>. QED  BY <1>6, <2>1
<1>8. CASE ~is_directory(w[n - 1])
  BY <1>3, <1>4, <1>5, <1>8 DEF Into, SoundEntry
<1>9. CASE is_directory(w[n - 1])
  <2>1. w[n - 1].inode \in inode_bitmap
    BY <1>7, <1>9, NullNotFound DEF SoundEntry
  <2>2. w[n] = find_matching_entry(w[n - 1].inode, c[n])
    BY <1>4, <1>5, <1>9 DEF Into
  <2>3. c[n] \in Names
    BY <1>0, <1>6
  <2>. QED  BY <1>3, <2>1, <2>2, <2>3, FoundSound
<1>. QED  BY <1>8, <1>9

\* What a path leads to.
LEMMA TraverseSound ==
    ASSUME IInv, DiskNames, NEW c \in Seq(Names)
    PROVE  SoundEntry(traverse_path(c))
<1>1. CASE c = <<>>
  BY <1>1 DEF traverse_path, SoundEntry
<1>2. CASE c # <<>>
  <2>1. Len(c) \in Nat
    OBVIOUS
  <2>2. PICK w : IsWalk(w, c, Len(c)) /\ traverse_path(c) = w[Len(c)]
    BY <1>2, <2>1, TraverseIs
  <2>. QED  BY <2>1, <2>2, WalkSound
<1>. QED  BY <1>1, <1>2

\* Two answers that say the same.
SameAnswer(x, y) == (x = NULL <=> y = NULL) /\ (x # NULL => Alike(x, y))

\* A search in directory k answers the same before and after a step.
SearchKept(k, name) ==
    /\ k \in Directories'
    /\ SameAnswer(find_matching_entry(k, name)', find_matching_entry(k, name))

\* Walks, before and after a step.
AllWalks ==
    \A c : c # <<>> /\ Len(c) \in Nat =>
        \E w : IsWalk(w, c, Len(c)) /\ traverse_path(c) = w[Len(c)]

\* Every path has its walk, after a step too.
LEMMA AllWalksExist == AllWalks /\ AllWalks'
<1>1. AllWalks
  BY TraverseIs DEF AllWalks
<1>2. AllWalks'
  BY <1>1, PTL
<1>. QED  BY <1>1, <1>2

\* A step into a directory answers the same when the search does.
LEMMA IntoSame ==
    ASSUME NEW x, NEW y, NEW name, SameAnswer(y, x),
           is_directory(x) => SearchKept(x.inode, name)
    PROVE  SameAnswer(Into(y, name)', Into(x, name))
<1>1. is_directory(x) <=> is_directory(y)
  BY NullNotFound DEF SameAnswer, Alike, is_directory
<1>2. CASE ~is_directory(x)
  BY <1>1, <1>2 DEF Into, SameAnswer
<1>3. CASE is_directory(x)
  <2>1. y.inode = x.inode
    BY <1>3, NullNotFound DEF SameAnswer, Alike
  <2>2. Into(x, name) = find_matching_entry(x.inode, name)
    BY <1>3 DEF Into
  <2>3. Into(y, name)' = find_matching_entry(x.inode, name)'
    BY <1>1, <1>3, <2>1 DEF Into
  <2>. QED  BY <1>3, <2>2, <2>3 DEF SearchKept
<1>. QED  BY <1>2, <1>3

\* A path leads to the same entry when every search on it answers the same.
LEMMA WalkSame ==
    ASSUME IInv, DiskNames, NEW c \in Seq(Names),
           \A k \in Directories : \A n \in 1 .. Len(c) : SearchKept(k, c[n])
    PROVE  SameAnswer(traverse_path(c)', traverse_path(c))
<1>1. CASE c = <<>>
  BY <1>1 DEF traverse_path, SameAnswer, NULL
<1>2. CASE c # <<>>
  <2>0. Len(c) \in Nat
    OBVIOUS
  <2>1. PICK v : IsWalk(v, c, Len(c)) /\ traverse_path(c) = v[Len(c)]
    BY <1>2, <2>0, AllWalksExist DEF AllWalks
  <2>2. PICK w : IsWalk(w, c, Len(c))' /\ traverse_path(c)' = w[Len(c)]
    BY <1>2, <2>0, AllWalksExist DEF AllWalks
  <2>. DEFINE m == Len(c)
              Bad == {n \in 0 .. m : ~SameAnswer(w[n], v[n])}
  <2>3. ASSUME Bad # {} PROVE FALSE
    <3>1. Min(Bad) \in Bad /\ \A n \in Bad : Min(Bad) <= n
      <4>1. Bad \subseteq Nat
        BY <2>0
      <4>. HIDE DEF Bad
      <4>. QED  BY <2>3, <4>1, MinOfNats
    <3>2. PICK n \in 0 .. m : ~SameAnswer(w[n], v[n]) /\ \A i \in Bad : n <= i
      BY <3>1
    <3>3. v[n] = IF n = 0 THEN RootEntry ELSE Into(v[n - 1], c[n])
      BY <2>1 DEF IsWalk
    <3>4. w[n] = IF n = 0 THEN RootEntry ELSE Into(w[n - 1], c[n])'
      BY <2>2 DEF IsWalk
    <3>5. n # 0
      BY <3>2, <3>3, <3>4 DEF SameAnswer, Alike
    <3>6. n - 1 \in 0 .. m /\ n \in 1 .. m
      BY <2>0, <3>5
    <3>7. SameAnswer(w[n - 1], v[n - 1])
      <4>1. n - 1 \notin Bad
        BY <2>0, <3>2
      <4>. QED  BY <3>6, <4>1
    <3>8. SoundEntry(v[n - 1])
      <4>1. Len(c) \in 0 .. Len(c)
        BY <2>0
      <4>. QED  BY <2>1, <3>6, <4>1, WalkSound
    <3>9. is_directory(v[n - 1]) => SearchKept(v[n - 1].inode, c[n])
      BY <3>6, <3>8, NullNotFound DEF SoundEntry
    <3>. QED  BY <3>2, <3>3, <3>4, <3>5, <3>7, <3>9, IntoSame
  <2>4. SameAnswer(w[m], v[m])
    BY <2>0, <2>3
  <2>. QED  BY <2>1, <2>2, <2>4
<1>. QED  BY <1>1, <1>2

\* No name goes in a step.
NoNameGone ==
    \A d, i, o : Lists(d, i, o) => Lists(d, i, o)' /\ Alike(Says(d, i, o)', Says(d, i, o))

\* When no name comes and none goes, every search answers the same.
LEMMA SearchesKept ==
    ASSUME IInv, IInv', DiskNames, DiskNames', NoNewName, NoNameGone, Directories' = Directories,
           NEW k \in Directories, NEW name \in Names
    PROVE  SearchKept(k, name)
<1>1. FindFacts /\ FindFacts'
  BY Finding, FindingPrimed
<1>2. CASE \E i, o : Lists(k, i, o) /\ Says(k, i, o).name = name
  <2>1. PICK i, o : Lists(k, i, o) /\ Says(k, i, o).name = name
    BY <1>2
  <2>2. Lists(k, i, o)' /\ Alike(Says(k, i, o)', Says(k, i, o))
    BY <2>1 DEF NoNameGone
  <2>3. find_matching_entry(k, name) = Says(k, i, o)
    BY <1>1, <2>1 DEF FindFacts
  <2>4. find_matching_entry(k, name)' = Says(k, i, o)'
    BY <1>1, <2>1, <2>2 DEF FindFacts, Alike
  <2>5. Says(k, i, o) # NULL
    BY <2>1, <2>3, ListedIsFound
  <2>6. Says(k, i, o)' # NULL
    <3>1. Says(k, i, o)'.inode \in Inodes
      BY <2>2, FactsPrimed DEF EntryFacts
    <3>. QED  BY <3>1, Ext2Assumption DEF NULL
  <2>. QED  BY <2>2, <2>3, <2>4, <2>5, <2>6 DEF SearchKept, SameAnswer
<1>3. CASE ~\E i, o : Lists(k, i, o) /\ Says(k, i, o).name = name
  <2>1. find_matching_entry(k, name) = NULL
    BY <1>1, <1>3 DEF FindFacts
  <2>2. \A i, o : ~(Lists(k, i, o)' /\ Says(k, i, o)'.name = name)
    BY <1>3 DEF NoNewName, Alike
  <2>3. find_matching_entry(k, name)' = NULL
    BY <1>1, <2>2 DEF FindFacts
  <2>. QED  BY <2>1, <2>3 DEF SearchKept, SameAnswer
<1>. QED  BY <1>2, <1>3

-----------------------------------------------------------------------------
(* Steps that leave the bitmaps and the blocks alone *)

Still == UNCHANGED <<bitmapVars, i_block, blockVars>>

\* Nothing about names changes in such a step.
LEMMA StillNames ==
    ASSUME IInv, IInv', DiskNames, Still
    PROVE  /\ DiskNames' /\ Directories' = Directories /\ NoNewName /\ NoNameGone
           /\ \A k : NamesOf(k)' \subseteq NamesOf(k)
           /\ \A k : Nameless(k) => Nameless(k)'
           /\ \A k : Held(k)' = Held(k)
           /\ \A k, n : HasName(k, n)' <=> HasName(k, n)
           /\ \A k, n : DirWithout(k, n) => DirWithout(k, n)'
           /\ \A k, n : Nascent(k, n) => Nascent(k, n)'
           /\ \A c \in Seq(Names) : traverse_path(c) = NULL => traverse_path(c)' = NULL
<1>1. /\ inode_bitmap' = inode_bitmap /\ block_bitmap' = block_bitmap
      /\ free_inodes_count' = free_inodes_count
      /\ i_block' = i_block /\ numbers' = numbers /\ dirents' = dirents
  BY DEF Still, bitmapVars, blockVars
<1>2. BlocksKeep /\ BlocksOnly /\ SlotsOnly
  BY <1>1 DEF BlocksKeep, BlocksOnly, SlotsOnly, Alike
<1>3. /\ Directories' = Directories
      /\ LiveDirs' /\ Living' /\ OneKind' /\ DirsNamed' /\ DirsInside' /\ UniqueNames'
      /\ \A k : NamesOf(k)' \subseteq NamesOf(k)
  BY <1>1, <1>2, QuietStep
<1>4. Agreeing'
  <2>1. \A k \in Inodes \ inode_bitmap : \A i \in Slots : At(i_block', numbers', k, i) = 0
    BY <1>1, FreeHoldsNothing DEF DiskNames
  <2>. QED  BY <1>1, <2>1, SameFree DEF DiskNames
<1>5. DiskNames'
  BY <1>3, <1>4 DEF DiskNames
<1>6. NoNewName
  BY <1>2, QuietNames DEF DiskNames
<1>7. NoNameGone
  BY <1>1 DEF NoNameGone, Lists, Says, Alike
<1>8. \A k : Nameless(k) => Nameless(k)'
  BY <1>3 DEF Nameless
<1>9. \A k : Held(k)' = Held(k)
  <2>1. \A k : Held(k) \subseteq Slots /\ Held(k)' \subseteq Slots
    BY HeldIs
  <2>2. \A k : \A i \in Slots : i \in Held(k)' <=> i \in Held(k)
    BY <1>1, HeldIs
  <2>. QED  BY <2>1, <2>2
<1>10. \A k, n : HasName(k, n)' <=> HasName(k, n)
  BY <1>1 DEF HasName
<1>11. \A k, n : DirWithout(k, n) => DirWithout(k, n)'
  BY <1>1 DEF DirWithout, Declares, Outside
<1>12. ASSUME NEW k, NEW n, Nascent(k, n) PROVE Nascent(k, n)'
  <2>1. /\ k \in Directories' /\ k # RootInode
        /\ \A b \in block_bitmap' : \A o \in DOMAIN dirents'[b] :
              Declares(b, o, k)' => ~Outside(b, k)'
    BY <1>1, <1>3, <1>12 DEF Nascent, Declares, Outside
  <2>2. \A i \in Held(k) : get_inode_block_number(k, i)' = get_inode_block_number(k, i)
    BY <1>1, HeldIs
  <2>3. \A i \in Held(k)' : \A o \in DOMAIN dirents'[get_inode_block_number(k, i)'] :
          /\ dirents'[get_inode_block_number(k, i)'][o].inode \in {k, n}
          /\ dirents'[get_inode_block_number(k, i)'][o].name \in {".", ".."}
    BY <1>1, <1>9, <1>12, <2>2 DEF Nascent
  <2>. QED  BY <2>1, <2>3 DEF Nascent
<1>13. ASSUME NEW c \in Seq(Names), traverse_path(c) = NULL PROVE traverse_path(c)' = NULL
  <2>1. \A n \in 1 .. Len(c) : c[n] \in Names
    BY ElementOfSeq
  <2>2. \A k \in Directories : \A n \in 1 .. Len(c) : SearchKept(k, c[n])
    BY <1>3, <1>5, <1>6, <1>7, <2>1, SearchesKept
  <2>3. SameAnswer(traverse_path(c)', traverse_path(c))
    BY <2>2, WalkSame
  <2>. QED  BY <1>13, <2>3 DEF SameAnswer
<1>. QED  BY <1>3, <1>5, <1>6, <1>7, <1>8, <1>9, <1>10, <1>11, <1>12, <1>13

\* No directory comes or goes in a step, and no name.
Unnoticed == Directories' = Directories /\ NoNewName /\ NoNameGone

\* Such a step is not noticed.
LEMMA StillUnnoticed == IInv /\ IInv' /\ DiskNames /\ Still => Unnoticed
BY StillNames DEF Unnoticed

\* Nor is that of a command that gives up.
LEMMA OverUnnoticed == IInv /\ IInv' /\ DiskNames /\ (Fail \/ Return) => Unnoticed
<1>1. Fail \/ Return => Still
  BY DEF Fail, Return, Still, diskVars, bitmapVars, inodeVars, blockVars
<1>. QED  BY <1>1, StillUnnoticed

\* A step that ends the command, or that no clause of NamesControl is about.
Ended == pc' \in {"idle", "ok", "exit"}

\* Such a step keeps the invariant when it leaves names and links alone.
LEMMA EndedStep ==
    ASSUME IInv, IInv', NamesInv, Still, i_links_count' = i_links_count,
           pc \notin {"count", "drop"}, Ended
    PROVE  NamesInv'
<1>1. /\ DiskNames' /\ Directories' = Directories
      /\ \A k : NamesOf(k)' \subseteq NamesOf(k)
  BY StillNames DEF NamesInv
<1>2. LinksCover'
  <2>1. \A k \in Inodes : i_links_count[k] \in Nat
    BY ShortIsNat DEF IInv, Typed
  <2>2. pc # "count" /\ pc' # "drop"
    BY DEF Ended
  <2>. QED  BY <1>1, <2>1, <2>2, QuietLinks DEF NamesInv
<1>3. NamesControl'
  BY DEF NamesControl, Ended
<1>. QED  BY <1>1, <1>2, <1>3 DEF NamesInv

-----------------------------------------------------------------------------
(* Commands, up to their first write *)

\* The disk as a command finds it.
LEMMA GivenStill == Asked => Still /\ i_links_count' = i_links_count /\ pc = "idle"
BY DEF Asked, Given, Still, diskVars, bitmapVars, inodeVars, blockVars

\* A command that is given leaves the names alone.
LEMMA GivenNames ==
    ASSUME IInv, IInv', NamesInv, Asked, pc' # "drop", NamesControl'
    PROVE  NamesInv'
<1>1. Still /\ i_links_count' = i_links_count /\ pc = "idle"
  BY GivenStill
<1>2. /\ DiskNames' /\ Directories' = Directories
      /\ \A k : NamesOf(k)' \subseteq NamesOf(k)
  BY <1>1, StillNames DEF NamesInv
<1>3. LinksCover'
  <2>1. \A k \in Inodes : i_links_count[k] \in Nat
    BY ShortIsNat DEF IInv, Typed
  <2>. QED  BY <1>1, <1>2, <2>1, QuietLinks DEF NamesInv
<1>. QED  BY <1>2, <1>3 DEF NamesInv

\* The last component of a path, in its parent.
LEMMA LastComponent ==
    ASSUME NEW c \in Seq(Names), c # <<>>, traverse_path(listPop(c)) # NULL
    PROVE  traverse_path(c) = Into(traverse_path(listPop(c)), listPeek(c))
<1>1. Len(c) \in Nat \ {0}
  BY EmptySeq
<1>2. Len(c) # 1
  <2>1. SUFFICES ASSUME Len(c) = 1 PROVE FALSE
    OBVIOUS
  <2>2. Len(listPop(c)) = 0 /\ listPop(c) \in Seq(Names)
    BY <2>1, PopFacts
  <2>3. listPop(c) = <<>>
    BY <2>2, EmptySeq
  <2>. QED  BY <2>3 DEF traverse_path
<1>3. Len(c) >= 2
  <2>1. PICK l : l = Len(c)
    OBVIOUS
  <2>2. l \in Nat \ {0} /\ l # 1
    BY <1>1, <1>2, <2>1
  <2>3. l >= 2
    BY <2>2
  <2>. QED  BY <2>1, <2>3
<1>. QED  BY <1>3, TraverseLast

\* When a path leads nowhere its parent, if it is a directory, does not have
\* the name.
LEMMA NothingThere ==
    ASSUME IInv, DiskNames, NEW c \in Seq(Names), c # <<>>, traverse_path(c) = NULL,
           NEW parent, parent = traverse_path(listPop(c)), parent # NULL
    PROVE  /\ parent.inode \in inode_bitmap
           /\ parent.inode \in Directories => ~HasName(parent.inode, listPeek(c))
<1>1. listPop(c) \in Seq(Names) /\ listPeek(c) \in Names
  BY PopFacts
<1>2. SoundEntry(parent)
  BY <1>1, TraverseSound
<1>3. parent.inode \in inode_bitmap
  BY <1>2 DEF SoundEntry
<1>4. ASSUME parent.inode \in Directories, HasName(parent.inode, listPeek(c)) PROVE FALSE
  <2>1. is_directory(parent)
    BY <1>2, <1>4 DEF SoundEntry
  <2>2. find_matching_entry(parent.inode, listPeek(c)) = NULL
    BY <2>1, LastComponent DEF Into
  <2>3. PICK i, o : Lists(parent.inode, i, o) /\ Says(parent.inode, i, o).name = listPeek(c)
    BY <1>1, <1>3, <1>4, NamesListed DEF NameFacts
  <2>. QED  BY <2>2, <2>3, ListedIsFound
<1>. QED  BY <1>3, <1>4

\* ext2_cp.
LEMMA CpNames ==
    ASSUME IInv, IInv', NamesInv, NEW src \in DOMAIN HostFiles, NEW dest \in Paths,
           ext2_cp(src, dest), dirents' = dirents
    PROVE  NamesInv'
<1>. DEFINE given == split_path(dest)
            comps == IF is_directory(traverse_path(given))
                     THEN listAppend(given, listPeek(split_path(src))) ELSE given
            entry == traverse_path(comps)
<1>1. src \in Seq(Names) /\ dest \in Seq(Names)
  BY Ext2Assumption
<1>2. given \in Seq(Names) /\ given # <<>>
  BY <1>1, SplitFacts
<1>3. listPeek(split_path(src)) \in Names
  BY <1>1, SplitFacts, PopFacts
<1>4. comps \in Seq(Names) /\ comps # <<>>
  <2>. HIDE DEF given
  <2>. QED  BY <1>2, <1>3, AppendProperties DEF listAppend
<1>5. Asked /\ (Refused \/ \E file \in fopen(src) :
                 /\ cmd' = [NoCommand EXCEPT
                              !.op = "cp", !.comps = comps, !.src = src,
                              !.size = file[1], !.readable = file[2],
                              !.type = "file", !.inode = entry.inode,
                              !.exists = (entry # NULL)]
                 /\ pc' = "blocks")
  BY DEF ext2_cp, Asked
<1>. HIDE DEF comps
<1>6. SoundEntry(entry)
  BY <1>4, TraverseSound DEF NamesInv
<1>7. inode_bitmap' = inode_bitmap
  BY <1>5, GivenStill DEF Still, bitmapVars
<1>9. CASE Refused
  <2>1. Still /\ i_links_count' = i_links_count /\ pc = "idle" /\ pc' = "exit"
    BY <1>5, <1>9, GivenStill DEF Refused
  <2>. QED  BY <2>1, EndedStep DEF Ended
<1>10. CASE ~Refused
  <2>0. PICK c : c = comps
    OBVIOUS
  <2>1. /\ pc' = "blocks" /\ cmd'.comps = c /\ cmd'.inode = traverse_path(c).inode
        /\ cmd'.exists <=> traverse_path(c) # NULL
    <3>. HIDE DEF entry
    <3>1. /\ pc' = "blocks" /\ cmd'.comps = comps /\ cmd'.inode = entry.inode
          /\ cmd'.exists = (entry # NULL)
      BY <1>5, <1>10 DEF NoCommand
    <3>. QED  BY <2>0, <3>1 DEF entry
  <2>2. cmd'.exists => cmd'.inode \in inode_bitmap'
    BY <1>6, <1>7, <2>0, <2>1 DEF SoundEntry
  <2>3. ~cmd'.exists => traverse_path(cmd.comps)' = NULL
    <3>1. PICK d \in Seq(Names) : d = c
      BY <1>4, <2>0
    <3>2. traverse_path(d) = NULL => traverse_path(d)' = NULL
      BY <1>5, GivenStill, StillNames DEF NamesInv
    <3>3. traverse_path(cmd.comps)' = traverse_path(d)'
      BY <2>1, <3>1
    <3>. QED  BY <2>1, <3>1, <3>2, <3>3
  <2>4. NamesControl'
    BY <2>1, <2>2, <2>3 DEF NamesControl
  <2>. QED  BY <1>5, <2>1, <2>4, GivenNames
<1>. QED  BY <1>9, <1>10

\* ext2_ln.
LEMMA LnNames ==
    ASSUME IInv, IInv', NamesInv, NEW src \in Paths, NEW dest \in Paths, NEW sym \in BOOLEAN,
           ext2_ln(src, dest, sym), ~strayed'
    PROVE  NamesInv'
<1>. DEFINE comps  == split_path(dest)
            source == traverse_path(split_path(src))
            parent == traverse_path(listPop(comps))
            abort  == \/ source = NULL \/ is_directory(source)
                      \/ traverse_path(comps) # NULL
                      \/ parent = NULL
            link   == [NoCommand EXCEPT !.comps = comps, !.src = src,
                                        !.parent = parent.inode]
<1>1. src \in Seq(Names) /\ dest \in Seq(Names)
  BY Ext2Assumption
<1>2. comps \in Seq(Names) /\ comps # <<>> /\ split_path(src) \in Seq(Names)
  BY <1>1, SplitFacts
<1>3. Asked /\ \/ abort /\ Refused
               \/ /\ ~abort /\ sym
                  /\ cmd' = [link EXCEPT !.op = "ln_s", !.type = "symlink"]
                  /\ pc' = "inode"
               \/ /\ ~abort /\ ~sym
                  /\ cmd' = [link EXCEPT !.op = "ln", !.type = "file",
                                         !.inode = source.inode]
                  /\ pc' = "entry"
  BY NotTaken DEF ext2_ln, Asked
<1>4. SoundEntry(source)
  BY <1>2, TraverseSound DEF NamesInv
<1>5. ASSUME ~abort
      PROVE  /\ parent.inode \in inode_bitmap
             /\ parent.inode \in Directories => ~HasName(parent.inode, listPeek(comps))
  <2>. HIDE DEF comps
  <2>. QED  BY <1>2, <1>5, NothingThere DEF NamesInv
<1>6. CASE Refused
  <2>1. Still /\ i_links_count' = i_links_count /\ pc = "idle" /\ pc' = "exit"
    BY <1>3, <1>6, GivenStill DEF Refused
  <2>. QED  BY <2>1, EndedStep DEF Ended
<1>7. CASE ~Refused
  <2>1. PICK c : c = comps
    OBVIOUS
  <2>2. PICK dir : dir = parent.inode
    OBVIOUS
  <2>3. ~abort
    BY <1>3, <1>7
  <2>4. PICK name : name = listPeek(c)
    OBVIOUS
  <2>5. PICK file : file = source.inode
    OBVIOUS
  <2>. HIDE DEF comps, parent, source
  <2>6. /\ cmd'.comps = c /\ cmd'.parent = dir /\ cmd'.made = FALSE
        /\ \/ pc' = "inode" /\ cmd'.op = "ln_s"
           \/ pc' = "entry" /\ cmd'.op = "ln" /\ cmd'.inode = file
    BY <1>3, <1>7, <2>1, <2>2, <2>5 DEF NoCommand
  <2>7. /\ Directories' = Directories /\ inode_bitmap' = inode_bitmap
        /\ HasName(dir, name)' <=> HasName(dir, name)
    <3>1. Still
      BY <1>3, GivenStill
    <3>2. Directories' = Directories /\ \A k, n : HasName(k, n)' <=> HasName(k, n)
      BY <3>1, StillNames DEF NamesInv
    <3>. QED  BY <3>1, <3>2 DEF Still, bitmapVars
  <2>8. dir \in inode_bitmap /\ (dir \in Directories => ~HasName(dir, name))
    BY <1>5, <2>1, <2>2, <2>3, <2>4
  <2>9. file \in inode_bitmap /\ file \notin Directories
    BY <1>4, <2>3, <2>5 DEF SoundEntry
  <2>10. HasName(cmd.parent, listPeek(cmd.comps))' <=> HasName(dir, name)'
    <3>1. cmd'.parent = dir /\ listPeek(cmd.comps)' = name
      BY <2>4, <2>6 DEF listPeek
    <3>. QED  BY <3>1 DEF HasName
  <2>11. NamesControl'
    BY <2>6, <2>7, <2>8, <2>9, <2>10 DEF NamesControl
  <2>12. pc' # "drop"
    BY <2>6
  <2>. QED  BY <1>3, <2>11, <2>12, GivenNames
<1>. QED  BY <1>6, <1>7

\* ext2_mkdir.
LEMMA MkdirNames ==
    ASSUME IInv, IInv', NamesInv, NEW path \in Paths, ext2_mkdir(path), dirents' = dirents
    PROVE  NamesInv'
<1>. DEFINE comps  == split_path(path)
            parent == traverse_path(listPop(comps))
            abort  == \/ Len(comps) = 1
                      \/ ~is_directory(parent)
                      \/ traverse_path(comps) # NULL
<1>1. comps \in Seq(Names) /\ comps # <<>>
  BY SplitFacts, Ext2Assumption
<1>2. Asked /\ \/ abort /\ Refused
               \/ /\ ~abort
                  /\ cmd' = [NoCommand EXCEPT !.op = "mkdir", !.comps = comps,
                                              !.parent = parent.inode, !.type = "dir"]
                  /\ pc' = "inode"
  BY DEF ext2_mkdir, Asked
<1>3. CASE Refused
  <2>1. Still /\ i_links_count' = i_links_count /\ pc = "idle" /\ pc' = "exit"
    BY <1>2, <1>3, GivenStill DEF Refused
  <2>. QED  BY <2>1, EndedStep DEF Ended
<1>4. CASE ~Refused
  <2>1. PICK c : c = comps
    OBVIOUS
  <2>2. PICK dir : dir = parent.inode
    OBVIOUS
  <2>3. ~abort
    BY <1>2, <1>4
  <2>4. PICK name : name = listPeek(c)
    OBVIOUS
  <2>5. parent # NULL
    BY <2>3, NullNotFound
  <2>6. SoundEntry(parent)
    BY <1>1, PopFacts, TraverseSound DEF NamesInv
  <2>. HIDE DEF comps
  <2>7. dir \in inode_bitmap /\ (dir \in Directories => ~HasName(dir, name))
    BY <1>1, <2>1, <2>2, <2>3, <2>4, <2>5, NothingThere DEF NamesInv
  <2>8. dir \in Directories
    BY <2>2, <2>3, <2>5, <2>6 DEF SoundEntry
  <2>. HIDE DEF parent
  <2>9. cmd'.comps = c /\ cmd'.parent = dir /\ pc' = "inode" /\ cmd'.op = "mkdir"
    BY <1>2, <1>4, <2>1, <2>2 DEF NoCommand
  <2>10. /\ Directories' = Directories /\ inode_bitmap' = inode_bitmap
         /\ HasName(dir, name)' <=> HasName(dir, name)
    <3>1. Still
      BY <1>2, GivenStill
    <3>2. Directories' = Directories /\ \A k, n : HasName(k, n)' <=> HasName(k, n)
      BY <3>1, StillNames DEF NamesInv
    <3>. QED  BY <3>1, <3>2 DEF Still, bitmapVars
  <2>11. HasName(cmd.parent, listPeek(cmd.comps))' <=> HasName(dir, name)'
    <3>1. cmd'.parent = dir /\ listPeek(cmd.comps)' = name
      BY <2>4, <2>9 DEF listPeek
    <3>. QED  BY <3>1 DEF HasName
  <2>12. NamesControl'
    BY <2>7, <2>8, <2>9, <2>10, <2>11 DEF NamesControl
  <2>13. pc' # "drop"
    BY <2>9
  <2>. QED  BY <1>2, <2>12, <2>13, GivenNames
<1>. QED  BY <1>3, <1>4

\* ext2_rm.
LEMMA RmNames ==
    ASSUME IInv, IInv', NamesInv, NEW path \in Paths, ext2_rm(path), dirents' = dirents
    PROVE  NamesInv'
<1>. DEFINE comps  == split_path(path)
            entry  == traverse_path(comps)
            parent == traverse_path(listPop(comps))
            abort  == \/ entry = NULL \/ is_directory(entry)
                      \/ parent = NULL
<1>1. comps \in Seq(Names) /\ comps # <<>>
  BY SplitFacts, Ext2Assumption
<1>2. Asked /\ \/ abort /\ Refused
               \/ /\ ~abort
                  /\ cmd' = [NoCommand EXCEPT
                               !.op = "rm", !.comps = comps, !.inode = entry.inode,
                               !.parent = parent.inode]
                  /\ pc' = "unlink"
  BY DEF ext2_rm, Asked
<1>3. CASE Refused
  <2>1. Still /\ i_links_count' = i_links_count /\ pc = "idle" /\ pc' = "exit"
    BY <1>2, <1>3, GivenStill DEF Refused
  <2>. QED  BY <2>1, EndedStep DEF Ended
<1>4. CASE ~Refused
  <2>1. PICK c : c = comps
    OBVIOUS
  <2>2. PICK dir : dir = parent.inode
    OBVIOUS
  <2>3. ~abort
    BY <1>2, <1>4
  <2>4. PICK name : name = listPeek(c)
    OBVIOUS
  <2>5. PICK file : file = entry.inode
    OBVIOUS
  <2>6. SoundEntry(parent) /\ SoundEntry(entry)
    BY <1>1, PopFacts, TraverseSound DEF NamesInv
  <2>. HIDE DEF comps
  <2>7. entry = Into(parent, name)
    BY <1>1, <2>1, <2>3, <2>4, LastComponent
  <2>. HIDE DEF entry, parent
  <2>8. is_directory(parent) /\ entry = find_matching_entry(dir, name)
    BY <2>2, <2>3, <2>7 DEF Into
  <2>9. dir \in Directories /\ dir \in inode_bitmap
    BY <2>2, <2>3, <2>6, <2>8 DEF SoundEntry
  <2>10. file \in inode_bitmap /\ file \notin Directories /\ entry.file_type # "dir"
    BY <2>3, <2>5, <2>6 DEF SoundEntry, is_directory
  <2>11. cmd'.comps = c /\ cmd'.parent = dir /\ cmd'.inode = file /\ pc' = "unlink"
    BY <1>2, <1>4, <2>1, <2>2, <2>5 DEF NoCommand
  <2>12. Still
    BY <1>2, GivenStill
  <2>13. Directories' = Directories /\ inode_bitmap' = inode_bitmap
    <3>1. Directories' = Directories
      BY <2>12, StillNames DEF NamesInv
    <3>. QED  BY <2>12, <3>1 DEF Still, bitmapVars
  <2>14. find_matching_entry(cmd.parent, listPeek(cmd.comps))' = find_matching_entry(dir, name)
    <3>1. cmd'.parent = dir /\ listPeek(cmd.comps)' = name
      BY <2>4, <2>11 DEF listPeek
    <3>2. i_block' = i_block /\ numbers' = numbers /\ dirents' = dirents
      BY <2>12 DEF Still, blockVars
    <3>3. find_matching_entry(dir, name)' = find_matching_entry(dir, name)
      BY <3>2 DEF find_matching_entry, find_matching_pair, Positions, EntryAt,
                  get_inode_block_number
    <3>. QED  BY <3>1, <3>3
  <2>15. NamesControl'
    BY <2>5, <2>8, <2>9, <2>10, <2>11, <2>13, <2>14 DEF NamesControl
  <2>16. pc' # "drop"
    BY <2>11
  <2>. QED  BY <1>2, <2>15, <2>16, GivenNames
<1>. QED  BY <1>3, <1>4

\* No command hurts the names before its first write.
LEMMA CommandNames == IInv /\ IInv' /\ NamesInv /\ Command /\ ~strayed' => NamesInv'
BY CpNames, LnNames, MkdirNames, RmNames DEF Command

-----------------------------------------------------------------------------
(* Steps between the writes *)

\* What is said of the inodes and the name in the local variables after a
\* step, with their values there.
LEMMA LocalsPrimed ==
    ASSUME NEW k, NEW d, NEW name,
           cmd'.inode = k, cmd'.parent = d, listPeek(cmd'.comps) = name
    PROVE  /\ Nameless(cmd.inode)' <=> Nameless(k)'
           /\ Held(cmd.inode)' = Held(k)'
           /\ DirWithout(cmd.parent, cmd.inode)' <=> DirWithout(d, k)'
           /\ Nascent(cmd.inode, cmd.parent)' <=> Nascent(k, d)'
           /\ HasName(cmd.inode, "..")' <=> HasName(k, "..")'
           /\ HasName(cmd.parent, listPeek(cmd.comps))' <=> HasName(d, name)'
<1>1. Nameless(cmd.inode)' <=> Nameless(k)'
  <2>1. NamesOf(cmd.inode)' = NamesOf(k)'
    BY DEF NamesOf
  <2>. QED  BY <2>1 DEF Nameless
<1>2. Held(cmd.inode)' = Held(k)'
  BY DEF Held, get_inode_block_number
<1>3. DirWithout(cmd.parent, cmd.inode)' <=> DirWithout(d, k)'
  BY DEF DirWithout, Declares, Outside
<1>4. Nascent(cmd.inode, cmd.parent)' <=> Nascent(k, d)'
  BY <1>2 DEF Nascent, Declares, Outside, get_inode_block_number
<1>5. HasName(cmd.inode, "..")' <=> HasName(k, "..")'
  BY DEF HasName
<1>6. HasName(cmd.parent, listPeek(cmd.comps))' <=> HasName(d, name)'
  <2>1. listPeek(cmd.comps)' = name
    BY DEF listPeek
  <2>. QED  BY <2>1 DEF HasName
<1>. QED  BY <1>1, <1>2, <1>3, <1>4, <1>5, <1>6

\* A step that only goes on keeps the invariant if it keeps its control part.
LEMMA StillStep ==
    ASSUME IInv, IInv', NamesInv, Still, i_links_count' = i_links_count,
           pc # "count", pc' # "drop", NamesControl'
    PROVE  NamesInv'
<1>1. /\ DiskNames' /\ Directories' = Directories
      /\ \A k : NamesOf(k)' \subseteq NamesOf(k)
  BY StillNames DEF NamesInv
<1>2. LinksCover'
  <2>1. \A k \in Inodes : i_links_count[k] \in Nat
    BY ShortIsNat DEF IInv, Typed
  <2>. QED  BY <1>1, <2>1, QuietLinks DEF NamesInv
<1>. QED  BY <1>1, <1>2 DEF NamesInv

\* ext2_cp finds the parent of its destination.
LEMMA CpDestinationNames ==
    IInv /\ IInv' /\ NamesInv /\ cp_destination /\ ~strayed' => NamesInv'
<1>. SUFFICES ASSUME IInv, IInv', NamesInv, cp_destination, ~strayed' PROVE NamesInv'
  OBVIOUS
<1>. DEFINE parent == traverse_path(listPop(cmd.comps))
<1>1. /\ pc = "parent" /\ Still /\ i_links_count' = i_links_count
  BY NotTaken DEF cp_destination, Fail, Still, diskVars, bitmapVars, inodeVars, blockVars
<1>2. \/ pc' = "exit"
      \/ /\ parent # NULL /\ pc' = IF cmd.exists THEN "write" ELSE "inode"
         /\ cmd' = [cmd EXCEPT !.parent = parent.inode]
  BY DEF cp_destination, Fail
<1>3. CASE pc' = "exit"
  BY <1>1, <1>3, EndedStep DEF Ended
<1>4. CASE pc' # "exit"
  <2>1. cmd \in Locals /\ cmd.op = "cp" /\ cmd.comps \in Seq(Names) /\ cmd.comps # <<>>
    BY <1>1 DEF IInv, Typed, Locals, Control
  <2>2. PICK c \in Seq(Names) : c = cmd.comps
    BY <2>1
  <2>3. PICK d : d = parent.inode
    OBVIOUS
  <2>4. PICK name : name = listPeek(c)
    OBVIOUS
  <2>5. PICK k : k = cmd.inode
    OBVIOUS
  <2>6. parent # NULL
    BY <1>2, <1>4
  <2>7. ~cmd.exists => d \in inode_bitmap /\ (d \in Directories => ~HasName(d, name))
    <3>1. SUFFICES ASSUME ~cmd.exists
                   PROVE  d \in inode_bitmap /\ (d \in Directories => ~HasName(d, name))
      OBVIOUS
    <3>2. traverse_path(c) = NULL
      BY <1>1, <2>2, <3>1 DEF NamesInv, NamesControl
    <3>. QED  BY <2>1, <2>2, <2>3, <2>4, <2>6, <3>2, NothingThere DEF NamesInv
  <2>. HIDE DEF parent
  <2>8. /\ cmd'.parent = d /\ cmd'.inode = k /\ cmd'.comps = c
        /\ cmd'.exists = cmd.exists /\ cmd'.op = "cp"
        /\ pc' = IF cmd.exists THEN "write" ELSE "inode"
    BY <1>2, <1>4, <2>1, <2>2, <2>3, <2>5 DEF Locals
  <2>9. cmd.exists => k \in inode_bitmap
    BY <1>1, <2>5 DEF NamesInv, NamesControl
  <2>10. /\ Directories' = Directories /\ inode_bitmap' = inode_bitmap
         /\ HasName(d, name)' <=> HasName(d, name)
    <3>1. Directories' = Directories /\ \A j, n : HasName(j, n)' <=> HasName(j, n)
      BY <1>1, StillNames DEF NamesInv
    <3>. QED  BY <1>1, <3>1 DEF Still, bitmapVars
  <2>11. HasName(cmd.parent, listPeek(cmd.comps))' <=> HasName(d, name)'
    BY <2>4, <2>8, LocalsPrimed
  <2>12. CASE cmd.exists
    <3>1. NamesControl'
      BY <2>8, <2>9, <2>10, <2>12 DEF NamesControl
    <3>. QED  BY <1>1, <2>8, <2>12, <3>1, StillStep
  <2>13. CASE ~cmd.exists
    <3>1. NamesControl'
      BY <2>7, <2>8, <2>10, <2>11, <2>13 DEF NamesControl
    <3>. QED  BY <1>1, <2>8, <2>13, <3>1, StillStep
  <2>. QED  BY <2>12, <2>13
<1>. QED  BY <1>2, <1>3, <1>4

\* What follows when no entry could be made.
LEMMA AfterNoEntry ==
    ASSUME pc \in {"dot", "dotdot", "entry"}, IInv
    PROVE  \/ pc \in {"dot", "dotdot"} /\ AfterEntry(FALSE) = "undo" /\ cmd.op = "mkdir"
           \/ pc = "entry" /\ cmd.op = "cp" /\ AfterEntry(FALSE) = "write"
           \/ pc = "entry" /\ cmd.op = "ln" /\ AfterEntry(FALSE) = "count"
           \/ pc = "entry" /\ cmd.op \in {"ln_s", "mkdir"} /\ AfterEntry(FALSE) = "undo"
BY DEF AfterEntry, IInv, Control

\* There is no room for the entry.
LEMMA EntryNowhereNames == IInv /\ IInv' /\ NamesInv /\ EntryNowhere => NamesInv'
<1>. SUFFICES ASSUME IInv, IInv', NamesInv, EntryNowhere PROVE NamesInv'
  OBVIOUS
<1>1. /\ pc \in {"dot", "dotdot", "entry"} /\ pc' = AfterEntry(FALSE)
      /\ Still /\ i_links_count' = i_links_count /\ cmd' = cmd
      /\ Unused(Wanted.dir) = {}
  BY DEF EntryNowhere, Still, diskVars, bitmapVars, inodeVars, blockVars
<1>2. PICK k, d, name : k = cmd.inode /\ d = cmd.parent /\ name = listPeek(cmd.comps)
  OBVIOUS
<1>3. NamesControl /\ DiskNames
  BY DEF NamesInv
<1>4. pc # "dot"
  <2>1. SUFFICES ASSUME pc = "dot" PROVE FALSE
    OBVIOUS
  <2>2. Wanted.dir = cmd.inode /\ Held(cmd.inode) = {}
    BY <1>3, <2>1 DEF Wanted, NamesControl
  <2>3. 0 \in Slots
    BY KeptIs
  <2>. QED  BY <1>1, <2>2, <2>3 DEF Unused, Held
<1>5. /\ Directories' = Directories /\ inode_bitmap' = inode_bitmap
      /\ Nameless(k) => Nameless(k)' /\ Held(k)' = Held(k)
      /\ DirWithout(d, k) => DirWithout(d, k)'
      /\ Nascent(k, d) => Nascent(k, d)'
  <2>1. Directories' = Directories /\ \A j : Nameless(j) => Nameless(j)'
    BY <1>1, <1>3, StillNames
  <2>2. /\ \A j : Held(j)' = Held(j)
        /\ \A j, n : DirWithout(j, n) => DirWithout(j, n)'
        /\ \A j, n : Nascent(j, n) => Nascent(j, n)'
    BY <1>1, <1>3, StillNames
  <2>. QED  BY <1>1, <2>1, <2>2 DEF Still, bitmapVars
<1>6. /\ Nameless(cmd.inode)' <=> Nameless(k)'
      /\ Held(cmd.inode)' = Held(k)'
      /\ DirWithout(cmd.parent, cmd.inode)' <=> DirWithout(d, k)'
      /\ Nascent(cmd.inode, cmd.parent)' <=> Nascent(k, d)'
  BY <1>1, <1>2, LocalsPrimed
<1>7. CASE pc = "entry" /\ cmd.op = "cp"
  <2>1. pc' = "write"
    BY <1>1, <1>7, AfterNoEntry
  <2>2. k \in inode_bitmap /\ Nameless(k) /\ (~cmd.exists => Held(k) = {})
    BY <1>2, <1>3, <1>7 DEF NamesControl
  <2>3. NamesControl'
    BY <1>1, <1>2, <1>5, <1>6, <1>7, <2>1, <2>2 DEF NamesControl, Nameless
  <2>. QED  BY <1>1, <1>7, <2>1, <2>3, StillStep
<1>8. CASE pc = "entry" /\ cmd.op = "ln"
  <2>1. pc' = "count"
    BY <1>1, <1>8, AfterNoEntry
  <2>2. k \in inode_bitmap
    BY <1>2, <1>3, <1>8 DEF NamesControl
  <2>3. NamesControl'
    BY <1>1, <1>2, <1>5, <2>1, <2>2 DEF NamesControl
  <2>. QED  BY <1>1, <1>8, <2>1, <2>3, StillStep
<1>9. CASE cmd.op = "ln_s" /\ pc = "entry"
  <2>1. pc' = "undo"
    BY <1>1, <1>9, AfterNoEntry
  <2>2. k \in inode_bitmap /\ k # d /\ Nameless(k) /\ i_links_count[k] = 1
    BY <1>2, <1>3, <1>9 DEF NamesControl
  <2>3. NamesControl'
    BY <1>1, <1>2, <1>5, <1>6, <1>9, <2>1, <2>2 DEF NamesControl
  <2>. QED  BY <1>1, <1>9, <2>1, <2>3, StillStep
<1>10. CASE cmd.op = "mkdir"
  <2>1. pc' = "undo"
    BY <1>1, <1>10, AfterNoEntry
  <2>2. k \in inode_bitmap /\ k # d /\ DirWithout(d, k) /\ Nascent(k, d)
    BY <1>1, <1>2, <1>3, <1>4, <1>10 DEF NamesControl
  <2>3. NamesControl'
    BY <1>1, <1>2, <1>5, <1>6, <1>10, <2>1, <2>2 DEF NamesControl
  <2>4. pc # "count" /\ pc' # "drop"
    BY <1>1, <2>1
  <2>. QED  BY <1>1, <2>3, <2>4, StillStep
<1>. QED  BY <1>1, <1>7, <1>8, <1>9, <1>10, AfterNoEntry

\* A command gives up, or is over.
LEMMA OverNames ==
    ASSUME IInv, IInv', NamesInv, pc \notin {"count", "drop"}, Fail \/ Return
    PROVE  NamesInv'
<1>1. Still /\ i_links_count' = i_links_count /\ Ended
  BY DEF Fail, Return, Still, Ended, diskVars, bitmapVars, inodeVars, blockVars
<1>. QED  BY <1>1, EndedStep

-----------------------------------------------------------------------------
(* Counting links *)

\* ext2_ln does not count beyond what the short holds.
Countable == pc = "count" => i_links_count[cmd.inode] < USHRT_MAX

\* LinksCover, inode by inode.
Pending(k) == IF pc = "drop" /\ cmd.inode = k THEN 1 ELSE 0
Uncounted(k) == IF pc = "count" /\ cmd.made /\ cmd.inode = k THEN 1 ELSE 0
Covered(k) == Cardinality(NamesOf(k)) + Pending(k) <= i_links_count[k] + Uncounted(k)

\* LinksCover is that, after a step too.
LEMMA CoverIs ==
    /\ LinksCover <=> \A k \in Inodes \ Directories : Covered(k)
    /\ LinksCover' <=> \A k \in Inodes \ Directories' : Covered(k)'
BY DEF LinksCover, Covered, Pending, Uncounted

\* The number of an inode's names, before and after a step that makes none.
LEMMA CountFacts ==
    ASSUME IInv, IInv', NEW k \in Inodes
    PROVE  /\ Cardinality(NamesOf(k)) \in Nat /\ Cardinality(NamesOf(k)') \in Nat
           /\ i_links_count[k] \in Nat /\ i_links_count'[k] \in Nat
           /\ Pending(k) \in {0, 1} /\ Pending(k)' \in {0, 1}
           /\ Uncounted(k) \in {0, 1} /\ Uncounted(k)' \in {0, 1}
<1>1. Cardinality(NamesOf(k)) \in Nat
  BY NamesFinite DEF NamesCounted
<1>2. Cardinality(NamesOf(k)') \in Nat
  BY CountedPrimed DEF NamesCounted
<1>3. i_links_count[k] \in Nat /\ i_links_count'[k] \in Nat
  BY ShortIsNat DEF IInv, Typed
<1>. QED  BY <1>1, <1>2, <1>3 DEF Pending, Uncounted

\* ext2_ln counts the link.
LEMMA CountLinkNames == IInv /\ IInv' /\ NamesInv /\ Countable /\ count_link => NamesInv'
<1>. SUFFICES ASSUME IInv, IInv', NamesInv, Countable, count_link PROVE NamesInv'
  OBVIOUS
<1>1. /\ pc = "count" /\ Still /\ cmd' = cmd /\ pc' \in {"ok", "exit"}
      /\ i_links_count' = [i_links_count EXCEPT
                              ![cmd.inode] = (@ + 1) % (USHRT_MAX + 1)]
  BY DEF count_link, Still
<1>2. PICK k \in Inodes : k = cmd.inode
  BY <1>1 DEF IInv, Control
<1>3. /\ DiskNames' /\ Directories' = Directories
      /\ \A j : NamesOf(j)' \subseteq NamesOf(j)
  BY <1>1, StillNames DEF NamesInv
<1>4. i_links_count'[k] = i_links_count[k] + 1
      /\ \A j \in Inodes : j # k => i_links_count'[j] = i_links_count[j]
  <2>1. i_links_count[k] \in Nat /\ i_links_count[k] < USHRT_MAX
    BY <1>1, <1>2, ShortIsNat DEF Countable, IInv, Typed
  <2>2. i_links_count[k] + 1 \in Nat /\ i_links_count[k] + 1 <= USHRT_MAX
    BY <2>1, ShortIsNat
  <2>3. (i_links_count[k] + 1) % (USHRT_MAX + 1) = i_links_count[k] + 1
    BY <2>2, NoWrap
  <2>4. i_links_count' = [i_links_count EXCEPT ![k] = i_links_count[k] + 1]
    BY <1>1, <1>2, <2>3
  <2>5. DOMAIN i_links_count = Inodes
    BY DEF IInv, Typed
  <2>. QED  BY <2>4, <2>5
<1>5. LinksCover'
  <2>1. SUFFICES ASSUME NEW j \in Inodes, j \notin Directories PROVE Covered(j)'
    BY <1>3, CoverIs
  <2>2. Covered(j)
    BY CoverIs, <2>1 DEF NamesInv
  <2>3. Cardinality(NamesOf(j)') <= Cardinality(NamesOf(j))
    BY <1>3, FewerNames
  <2>4. /\ Pending(j) = 0 /\ Pending(j)' = 0 /\ Uncounted(j)' = 0
        /\ j # k => Uncounted(j) = 0
    BY <1>1, <1>2 DEF Pending, Uncounted
  <2>. DEFINE old == Cardinality(NamesOf(j))
              new == Cardinality(NamesOf(j)')
              u   == Uncounted(j)
  <2>5. old \in Nat /\ new \in Nat /\ i_links_count[j] \in Nat /\ u \in {0, 1}
    BY CountFacts
  <2>6. i_links_count'[j] = IF j = k THEN i_links_count[j] + 1 ELSE i_links_count[j]
    BY <1>4, <2>1
  <2>7. old + 0 <= i_links_count[j] + u
    BY <2>2, <2>4 DEF Covered
  <2>8. new + 0 <= i_links_count'[j] + 0
    <3>1. new <= old /\ (j # k => u = 0)
      BY <2>3, <2>4
    <3>. HIDE DEF old, new, u
    <3>. QED  BY <2>5, <2>6, <2>7, <3>1
  <2>. QED  BY <2>4, <2>8 DEF Covered
<1>6. NamesControl'
  BY <1>1 DEF NamesControl
<1>. QED  BY <1>3, <1>5, <1>6 DEF NamesInv

\* A link that ext2_rm takes off was there.
LEMMA LinkTaken ==
    ASSUME IInv, IInv', NamesInv, drop_link, NEW k \in Inodes, k = cmd.inode
    PROVE  /\ i_links_count'[k] = i_links_count[k] - 1
           /\ \A j \in Inodes : j # k => i_links_count'[j] = i_links_count[j]
           /\ pc' = IF i_links_count'[k] = 0 THEN "free" ELSE "ok"
<1>. DEFINE links == (i_links_count[cmd.inode] - 1) % (USHRT_MAX + 1)
<1>1. /\ pc = "drop" /\ pc' = IF links = 0 THEN "free" ELSE "ok"
      /\ i_links_count' = [i_links_count EXCEPT ![cmd.inode] = links]
  BY DEF drop_link
<1>2. k = cmd.inode
  OBVIOUS
<1>4. k \notin Directories
  BY <1>1 DEF NamesInv, NamesControl
<1>5. links = i_links_count[k] - 1
  <2>1. Covered(k)
    BY <1>4, CoverIs DEF NamesInv
  <2>2. Pending(k) = 1 /\ Uncounted(k) = 0
    BY <1>1, <1>2 DEF Pending, Uncounted
  <2>. DEFINE old == Cardinality(NamesOf(k))
              n   == i_links_count[k]
  <2>3. old \in Nat /\ n \in Nat
    BY CountFacts
  <2>4. old + 1 <= n + 0
    BY <2>1, <2>2 DEF Covered
  <2>5. n <= USHRT_MAX
    BY DEF IInv, Typed
  <2>6. links = (n - 1) % (USHRT_MAX + 1)
    BY <1>2
  <2>. HIDE DEF old, n, links
  <2>7. n - 1 \in Nat /\ n - 1 <= USHRT_MAX
    BY <2>3, <2>4, <2>5, ShortIsNat
  <2>8. links = n - 1
    BY <2>6, <2>7, NoWrap
  <2>. QED  BY <2>8 DEF n
<1>. HIDE DEF links
<1>6. DOMAIN i_links_count = Inodes
  BY DEF IInv, Typed
<1>7. i_links_count'[k] = links /\ \A j \in Inodes : j # k => i_links_count'[j] = i_links_count[j]
  BY <1>1, <1>6
<1>. QED  BY <1>1, <1>5, <1>7

\* ext2_rm takes the link off.
LEMMA DropLinkNames == IInv /\ IInv' /\ NamesInv /\ drop_link => NamesInv'
<1>. SUFFICES ASSUME IInv, IInv', NamesInv, drop_link PROVE NamesInv'
  OBVIOUS
<1>1. /\ pc = "drop" /\ Still /\ cmd' = cmd
  BY DEF drop_link, Still
<1>2. PICK k \in Inodes : k = cmd.inode
  BY <1>1 DEF IInv, Control
<1>3. /\ DiskNames' /\ Directories' = Directories
      /\ \A j : NamesOf(j)' \subseteq NamesOf(j)
  BY <1>1, StillNames DEF NamesInv
<1>4. k \notin Directories /\ k \in inode_bitmap
  BY <1>1, <1>2 DEF NamesInv, NamesControl
<1>6. /\ i_links_count'[k] = i_links_count[k] - 1
      /\ pc' \in {"ok", "free"} /\ (pc' = "free" => i_links_count'[k] = 0)
      /\ \A j \in Inodes : j # k => i_links_count'[j] = i_links_count[j]
  BY <1>2, LinkTaken
<1>7. LinksCover'
  <2>1. SUFFICES ASSUME NEW j \in Inodes, j \notin Directories PROVE Covered(j)'
    BY <1>3, CoverIs
  <2>2. Covered(j)
    BY CoverIs, <2>1 DEF NamesInv
  <2>3. Cardinality(NamesOf(j)') <= Cardinality(NamesOf(j))
    BY <1>3, FewerNames
  <2>4. /\ Uncounted(j) = 0 /\ Pending(j)' = 0 /\ Uncounted(j)' = 0
        /\ Pending(j) = IF j = k THEN 1 ELSE 0
    BY <1>1, <1>2, <1>6 DEF Pending, Uncounted
  <2>. DEFINE old == Cardinality(NamesOf(j))
              new == Cardinality(NamesOf(j)')
  <2>5. old \in Nat /\ new \in Nat /\ i_links_count[j] \in Nat
    BY CountFacts
  <2>6. i_links_count'[j] = IF j = k THEN i_links_count[j] - 1 ELSE i_links_count[j]
    BY <1>6, <2>1
  <2>7. old + (IF j = k THEN 1 ELSE 0) <= i_links_count[j] + 0
    BY <2>2, <2>4 DEF Covered
  <2>8. new + 0 <= i_links_count'[j] + 0
    <3>1. new <= old
      BY <2>3
    <3>. HIDE DEF old, new
    <3>. QED  BY <2>5, <2>6, <2>7, <3>1
  <2>. QED  BY <2>4, <2>8 DEF Covered
<1>8. NamesControl'
  <2>1. inode_bitmap' = inode_bitmap
    BY <1>1 DEF Still, bitmapVars
  <2>. QED  BY <1>1, <1>2, <1>3, <1>4, <1>6, <2>1 DEF NamesControl
<1>. QED  BY <1>3, <1>7, <1>8 DEF NamesInv

-----------------------------------------------------------------------------
(* Steps that write to the disk and to no name *)

\* A free inode has no name.
LEMMA FreeNameless ==
    ASSUME DiskNames, NEW k, k \notin inode_bitmap
    PROVE  Nameless(k)
<1>1. k \notin Directories
  BY DEF DiskNames, LiveDirs
<1>2. NamesOf(k) = {}
  BY DEF DiskNames, Living, NamesOf
<1>. QED  BY <1>1, <1>2 DEF Nameless

\* What such a step keeps of the invariant.
LEMMA QuietDisk ==
    ASSUME IInv, IInv', NamesInv, BlocksKeep, BlocksOnly, SlotsOnly,
           inode_bitmap \subseteq inode_bitmap', Agreeing', pc # "count", pc' # "drop",
           \A k \in Inodes : k \in inode_bitmap => i_links_count'[k] = i_links_count[k],
           NamesControl'
    PROVE  NamesInv'
<1>1. /\ Directories' = Directories
      /\ LiveDirs' /\ Living' /\ OneKind' /\ DirsNamed' /\ DirsInside' /\ UniqueNames'
      /\ \A k : NamesOf(k)' \subseteq NamesOf(k)
  BY QuietStep DEF NamesInv
<1>2. DiskNames'
  BY <1>1 DEF DiskNames
<1>3. LinksCover'
  <2>1. ASSUME NEW k \in Inodes
        PROVE  \/ /\ NamesOf(k)' \subseteq NamesOf(k)
                  /\ i_links_count'[k] >= i_links_count[k]
               \/ NamesOf(k)' = {}
    <3>1. CASE k \in inode_bitmap
      <4>1. i_links_count[k] \in Nat
        BY ShortIsNat DEF IInv, Typed
      <4>. QED  BY <1>1, <3>1, <4>1
    <3>2. CASE k \notin inode_bitmap
      BY <1>1, <3>2, FreeNameless DEF Nameless, NamesInv
    <3>. QED  BY <3>1, <3>2
  <2>. QED  BY <1>1, <2>1, QuietLinks DEF NamesInv
<1>. QED  BY <1>2, <1>3 DEF NamesInv

\* No directory gets a name in it.
LEMMA QuietHas ==
    ASSUME NoNewName, NEW d, d \in inode_bitmap, d \in inode_bitmap', NEW name \in Names,
           HasName(d, name)'
    PROVE  HasName(d, name)
<1>1. PICK i, o : Lists(d, i, o)' /\ Says(d, i, o)'.name = name
  BY FactsPrimed DEF NameFacts
<1>2. Lists(d, i, o) /\ Says(d, i, o).name = name
  BY <1>1 DEF NoNewName, Alike
<1>. QED  BY <1>2, NamesListed DEF NameFacts

\* Inodes keep the blocks with names.
SlotsKeep ==
    \A d \in Inodes : \A i \in Slots :
        At(i_block, numbers, d, i) # 0 /\ DOMAIN dirents[At(i_block, numbers, d, i)] # {}
            => At(i_block', numbers', d, i) = At(i_block, numbers, d, i)

\* When they do, no name goes.
LEMMA QuietGone ==
    ASSUME IInv, BlocksKeep, SlotsKeep, inode_bitmap \subseteq inode_bitmap'
    PROVE  NoNameGone
<1>. SUFFICES ASSUME NEW d, NEW i, NEW o, Lists(d, i, o)
              PROVE  Lists(d, i, o)' /\ Alike(Says(d, i, o)', Says(d, i, o))
  BY DEF NoNameGone
<1>. DEFINE b == At(i_block, numbers, d, i)
<1>1. d \in Inodes /\ i \in Slots /\ b \in block_bitmap
  BY EntryTypes DEF EntryFacts
<1>2. b # 0 /\ o \in DOMAIN dirents[b] /\ dirents[b][o].name # Unnamed /\ d \in inode_bitmap
  BY DEF Lists
<1>3. At(i_block', numbers', d, i) = b
  BY <1>1, <1>2 DEF SlotsKeep
<1>4. o \in DOMAIN dirents'[b] /\ Alike(dirents'[b][o], dirents[b][o])
  BY <1>1, <1>2 DEF BlocksKeep
<1>. HIDE DEF b
<1>. QED  BY <1>1, <1>2, <1>3, <1>4 DEF Lists, Says, Alike, b

\* A path that leads nowhere still does.
LEMMA QuietPaths ==
    ASSUME IInv, IInv', DiskNames, DiskNames', NoNewName, NoNameGone, Directories' = Directories,
           NEW c \in Seq(Names), traverse_path(c) = NULL
    PROVE  traverse_path(c)' = NULL
<1>1. \A n \in 1 .. Len(c) : c[n] \in Names
  BY ElementOfSeq
<1>2. \A k \in Directories : \A n \in 1 .. Len(c) : SearchKept(k, c[n])
  BY <1>1, SearchesKept
<1>3. SameAnswer(traverse_path(c)', traverse_path(c))
  BY <1>2, WalkSame
<1>. QED  BY <1>3 DEF SameAnswer

\* Blocks are taken and zeroed: nobody's entries are in them.
LEMMA ZeroedQuiet ==
    ASSUME IInv, NEW n \in Nat, NEW s \in FirstFree(n), MarkUsed(s),
           dirents' = Zeroed(dirents, s, EmptyBlock)
    PROVE  /\ BlocksKeep /\ BlocksOnly
           /\ \A b \in Blocks : b \notin Elements(s) => dirents'[b] = dirents[b]
           /\ \A b \in Elements(s) : b \in Blocks /\ dirents'[b] = EmptyBlock
<1>1. Elements(s) \subseteq Blocks /\ Elements(s) \cap block_bitmap = {}
  BY FreshFacts
<1>2. \A b \in Blocks : dirents'[b] = IF b \in Elements(s) THEN EmptyBlock ELSE dirents[b]
  BY ZeroedFacts
<1>3. block_bitmap' = block_bitmap \cup Elements(s)
  BY DEF MarkUsed, set_bitmap_val, Elements
<1>4. block_bitmap \subseteq Blocks
  BY DEF IInv, Typed
<1>5. DOMAIN EmptyBlock = {}
  BY DEF EmptyBlock
<1>6. BlocksKeep
  BY <1>1, <1>2, <1>3, <1>4 DEF BlocksKeep, Alike
<1>7. BlocksOnly
  BY <1>1, <1>2, <1>3, <1>4, <1>5 DEF BlocksOnly
<1>. QED  BY <1>1, <1>2, <1>6, <1>7

\* ext2_cp takes the blocks for its data.
LEMMA AllocateBlocksNames ==
    IInv /\ IInv' /\ NamesInv /\ allocate_blocks => NamesInv' /\ Unnoticed
<1>. SUFFICES ASSUME IInv, IInv', NamesInv, allocate_blocks PROVE NamesInv' /\ Unnoticed
  OBVIOUS
<1>1. pc = "blocks"
  BY DEF allocate_blocks
<1>2. CASE Fail
  BY <1>1, <1>2, OverNames, OverUnnoticed DEF NamesInv
<1>3. CASE ~Fail
  <2>1. PICK s \in FirstFree(cmd.size) :
          /\ MarkUsed(s) /\ dirents' = Zeroed(dirents, s, EmptyBlock)
          /\ numbers' = Zeroed(numbers, s, NoNumbers)
          /\ cmd' = [cmd EXCEPT !.blocks = s]
    BY <1>3 DEF allocate_blocks
  <2>2. /\ pc' = "parent" /\ inode_bitmap' = inode_bitmap
        /\ free_inodes_count' = free_inodes_count
        /\ i_links_count' = i_links_count /\ i_block' = i_block
    BY <1>3 DEF allocate_blocks, inodeVars
  <2>3. cmd \in Locals /\ cmd.size \in Nat /\ cmd.comps \in Seq(Names)
    BY DEF IInv, Typed, Locals
  <2>4. BlocksKeep /\ BlocksOnly
    BY <2>1, <2>3, ZeroedQuiet
  <2>5. Unmoved
    <3>1. SameInUse(numbers')
      BY <2>1, <2>3, FreshFacts
    <3>2. DiskOK
      BY TypedIs DEF IInv
    <3>. QED  BY <2>2, <3>1, <3>2, UnmovedIs
  <2>6. SlotsOnly /\ SlotsKeep
    BY <2>5, KeptIs DEF SlotsOnly, SlotsKeep, Unmoved
  <2>7. Agreeing'
    <3>1. \A k \in Inodes \ inode_bitmap : \A i \in Slots : At(i_block', numbers', k, i) = 0
      BY <2>5, KeptIs, FreeHoldsNothing DEF Unmoved, NamesInv, DiskNames
    <3>. QED  BY <2>2, <3>1, SameFree DEF NamesInv, DiskNames
  <2>8. /\ DiskNames' /\ Directories' = Directories
    <3>1. /\ Directories' = Directories /\ LiveDirs' /\ Living' /\ OneKind' /\ DirsNamed'
          /\ DirsInside' /\ UniqueNames'
      BY <2>2, <2>4, <2>6, QuietStep DEF NamesInv
    <3>. QED  BY <2>7, <3>1 DEF DiskNames
  <2>9. NoNewName /\ NoNameGone
    BY <2>2, <2>4, <2>6, QuietNames, QuietGone DEF NamesInv, DiskNames
  <2>10. PICK c \in Seq(Names) : c = cmd.comps
    BY <2>3
  <2>11. traverse_path(c) = NULL => traverse_path(c)' = NULL
    BY <2>8, <2>9, QuietPaths DEF NamesInv
  <2>12. /\ cmd'.comps = c /\ cmd'.inode = cmd.inode /\ cmd'.exists = cmd.exists
    BY <2>1, <2>3, <2>10 DEF Locals
  <2>13. traverse_path(cmd.comps)' = traverse_path(c)'
    BY <2>12
  <2>14. NamesControl'
    BY <1>1, <2>2, <2>10, <2>11, <2>12, <2>13 DEF NamesInv, NamesControl
  <2>15. pc # "count" /\ pc' # "drop"
    BY <1>1, <2>2
  <2>. QED  BY <2>2, <2>4, <2>6, <2>7, <2>8, <2>9, <2>14, <2>15, QuietDisk DEF Unnoticed
<1>. QED  BY <1>2, <1>3

\* Nothing is said by an inode that holds nothing.
LEMMA EmptyWithout ==
    ASSUME IInv', NEW d, NEW k, d \in Directories',
           \A i \in Slots : At(i_block', numbers', k, i) = 0
    PROVE  DirWithout(d, k)'
<1>1. block_bitmap' \subseteq Blocks /\ 0 \notin Blocks
  BY Bounds DEF IInv, Typed
<1>2. \A b \in block_bitmap' : Outside(b, k)'
  BY <1>1 DEF Outside
<1>3. d = RootInode \/ \E b, o : Declares(b, o, d)'
  BY DirectoryIs
<1>. QED  BY <1>2, <1>3 DEF DirWithout, Declares

\* An inode is taken: it has no name yet.
LEMMA AllocateInodeNames ==
    IInv /\ IInv' /\ NamesInv /\ AllocateInode => NamesInv' /\ Unnoticed
<1>. SUFFICES ASSUME IInv, IInv', NamesInv, AllocateInode PROVE NamesInv' /\ Unnoticed
  OBVIOUS
<1>1. pc = "inode"
  BY DEF AllocateInode
<1>2. CASE Fail
  BY <1>1, <1>2, OverNames, OverUnnoticed DEF NamesInv
<1>3. CASE ~Fail
  <2>1. /\ pc' = AfterAllocation
        /\ block_bitmap' = block_bitmap /\ dirents' = dirents
    BY <1>3 DEF AllocateInode
  <2>2. PICK k \in FreeInodes :
          /\ allocate_inode(k)
          /\ i_links_count' = [i_links_count EXCEPT ![k] = 1]
          /\ cmd' = [cmd EXCEPT !.inode = k]
    BY <1>3 DEF AllocateInode
  <2>3. k \in Inodes /\ k \notin inode_bitmap
    BY DEF FreeInodes, get_bitmap_val
  <2>4. /\ free_inodes_count' = free_inodes_count - 1
        /\ inode_bitmap' = inode_bitmap \cup {k}
        /\ set_inode_block_number(k, NoSlots, numbers)
    BY <2>2 DEF allocate_inode, set_bitmap_val
  <2>5. Moved(k, NoSlots)
    <3>1. numbers \in NumType /\ SameInUse(numbers)
      BY DEF IInv, Typed, NumType, SameInUse
    <3>. QED  BY <2>3, <2>4, <3>1, NoSlotsFacts, SetFacts
  <2>6. \A i \in Slots : At(i_block, numbers, k, i) = 0 /\ At(i_block', numbers', k, i) = 0
    BY <2>3, <2>5, FreeHoldsNothing, NoSlotsFacts, KeptIs DEF Moved, NamesInv, DiskNames
  <2>7. \A j \in Inodes : \A i \in Slots :
            At(i_block', numbers', j, i) = At(i_block, numbers, j, i)
    BY <2>5, <2>6, KeptIs DEF Moved
  <2>8. BlocksKeep /\ BlocksOnly /\ SlotsOnly /\ SlotsKeep
    BY <2>1, <2>7 DEF BlocksKeep, BlocksOnly, SlotsOnly, SlotsKeep, Alike
  <2>9. NoNewName /\ NoNameGone
    BY <2>4, <2>8, QuietNames, QuietGone DEF NamesInv, DiskNames
  <2>10. Agreeing'
    <3>. DEFINE F == Inodes \ inode_bitmap
    <3>1. IsFiniteSet(F) /\ k \in F /\ free_inodes_count = Cardinality(F)
      BY <2>3, Ext2Assumption, FS_Difference DEF NamesInv, DiskNames, Agreeing
    <3>2. Cardinality(F \ {k}) = Cardinality(F) - 1
      <4>. HIDE DEF F
      <4>. QED  BY <3>1, FS_RemoveElement
    <3>3. Inodes \ inode_bitmap' = F \ {k}
      BY <2>4
    <3>4. free_inodes_count' = Cardinality(Inodes \ inode_bitmap')
      <4>. HIDE DEF F
      <4>. QED  BY <2>4, <3>1, <3>2, <3>3
    <3>5. \A j \in Inodes \ inode_bitmap' : \A i \in Slots : At(i_block', numbers', j, i) = 0
      BY <2>4, <2>7, FreeHoldsNothing DEF NamesInv, DiskNames
    <3>6. \A j \in Inodes \ inode_bitmap' : Held(j)' = {}
      BY <3>5, HeldIs
    <3>. QED  BY <3>4, <3>6 DEF Agreeing
  <2>11. /\ Directories' = Directories /\ \A j : NamesOf(j)' \subseteq NamesOf(j)
    BY <2>4, <2>8, QuietStep DEF NamesInv
  <2>12. Nameless(k)' /\ Held(k)' = {} /\ i_links_count'[k] = 1
    <3>1. Nameless(k)
      BY <2>3, FreeNameless DEF NamesInv
    <3>2. Nameless(k)'
      BY <2>11, <3>1 DEF Nameless
    <3>3. Held(k)' = {}
      BY <2>6, HeldIs
    <3>4. DOMAIN i_links_count = Inodes
      BY DEF IInv, Typed
    <3>. QED  BY <2>2, <2>3, <3>2, <3>3, <3>4
  <2>13. PICK d, name, op : d = cmd.parent /\ name = listPeek(cmd.comps) /\ op = cmd.op
    OBVIOUS
  <2>14. cmd \in Locals /\ cmd.comps \in Seq(Names) /\ cmd.comps # <<>>
         /\ op \in {"cp", "mkdir", "ln_s"}
    BY <1>1, <2>13 DEF IInv, Typed, Locals, Control
  <2>15. name \in Names
    BY <2>13, <2>14, PopFacts
  <2>16. /\ d \in inode_bitmap /\ d # k
         /\ op = "cp" => ~cmd.exists
         /\ op = "mkdir" => d \in Directories
         /\ d \in Directories => ~HasName(d, name)
    BY <1>1, <2>3, <2>13 DEF NamesInv, NamesControl
  <2>17. d \in Directories => ~HasName(d, name)'
    BY <2>4, <2>9, <2>15, <2>16, QuietHas
  <2>18. op = "mkdir" => DirWithout(d, k)'
    BY <2>6, <2>11, <2>16, EmptyWithout
  <2>19. /\ cmd'.op = op /\ cmd'.inode = k /\ cmd'.parent = d
         /\ cmd'.comps = cmd.comps /\ cmd'.exists = cmd.exists
         /\ cmd'.made = cmd.made
    BY <2>2, <2>13, <2>14 DEF Locals
  <2>20. /\ Nameless(cmd.inode)' <=> Nameless(k)'
         /\ Held(cmd.inode)' = Held(k)'
         /\ DirWithout(cmd.parent, cmd.inode)' <=> DirWithout(d, k)'
         /\ HasName(cmd.parent, listPeek(cmd.comps))' <=> HasName(d, name)'
    <3>1. listPeek(cmd'.comps) = name
      BY <2>13, <2>19
    <3>. QED  BY <2>19, <3>1, LocalsPrimed
  <2>21. \/ op = "cp" /\ pc' = "entry"
         \/ op = "mkdir" /\ pc' = "dot"
         \/ op = "ln_s" /\ pc' = "path"
    BY <2>1, <2>13, <2>14 DEF AfterAllocation
  <2>22. NamesControl'
    <3>1. k \in inode_bitmap' /\ d \in inode_bitmap'
      BY <2>4, <2>16
    <3>2. CASE op = "cp" /\ pc' = "entry"
      BY <2>11, <2>12, <2>16, <2>17, <2>19, <2>20, <3>1, <3>2 DEF NamesControl
    <3>3. CASE op = "mkdir" /\ pc' = "dot"
      BY <2>11, <2>12, <2>16, <2>17, <2>18, <2>19, <2>20, <3>1, <3>3 DEF NamesControl
    <3>4. CASE op = "ln_s" /\ pc' = "path"
      BY <2>11, <2>12, <2>16, <2>17, <2>19, <2>20, <3>1, <3>4 DEF NamesControl
    <3>. QED  BY <2>21, <3>2, <3>3, <3>4
  <2>23. \A j \in Inodes : j \in inode_bitmap => i_links_count'[j] = i_links_count[j]
    BY <2>2, <2>3 DEF IInv, Typed
  <2>24. inode_bitmap \subseteq inode_bitmap' /\ pc # "count" /\ pc' # "drop"
    BY <1>1, <2>4, <2>21
  <2>. QED  BY <2>8, <2>9, <2>10, <2>11, <2>22, <2>23, <2>24, QuietDisk DEF Unnoticed
<1>. QED  BY <1>2, <1>3

\* ln -s: the path of the link is written.
LEMMA WritePathNames ==
    IInv /\ IInv' /\ NamesInv /\ write_path_to_symlink_inode /\ ~strayed'
        => NamesInv' /\ Unnoticed
<1>. SUFFICES ASSUME IInv, IInv', NamesInv, write_path_to_symlink_inode, ~strayed'
              PROVE  NamesInv' /\ Unnoticed
  OBVIOUS
<1>0. pc = "path" => cmd.inode \in Inodes /\ cmd.inode # 0
  BY InodeInTable
<1>1. pc = "path"
  BY DEF write_path_to_symlink_inode
<1>2. CASE Fail
  BY <1>1, <1>2, OverNames, OverUnnoticed DEF NamesInv
<1>3. CASE ~Fail
  <2>1. /\ pc' = "entry" /\ cmd' = cmd /\ inode_bitmap' = inode_bitmap
        /\ free_inodes_count' = free_inodes_count /\ i_links_count' = i_links_count
    BY <1>0, <1>1, <1>3 DEF write_path_to_symlink_inode
  <2>2. PICK k \in Inodes : k = cmd.inode
    BY <1>1 DEF IInv, Control
  <2>3. PICK s \in FirstFree(1) :
          /\ MarkUsed(s)
          /\ dirents' = Zeroed(dirents, s, EmptyBlock)
          /\ set_inode_block_number(k, [SlotsOf(k) EXCEPT ![0] = s[1]],
                                    Zeroed(numbers, s, NoNumbers))
    BY <1>0, <1>1, <1>3, <2>2, NotTaken DEF write_path_to_symlink_inode
  <2>4. Held(k) = {} /\ cmd.op = "ln_s"
    BY <1>1, <2>2 DEF IInv, Control
  <2>5. \A i \in Slots : At(i_block, numbers, k, i) = 0
    BY <2>4, HeldIs
  <2>. DEFINE f == [SlotsOf(k) EXCEPT ![0] = s[1]]
  <2>6. s[1] \in Blocks /\ s[1] \in Elements(s)
    <3>1. 1 \in 1 .. 1 /\ 1 \in Nat
      OBVIOUS
    <3>2. s[1] \in Blocks /\ 1 \in DOMAIN s
      BY <3>1, FirstFreeFacts
    <3>. QED  BY <3>2 DEF Elements
  <2>7. f \in [Slots -> Numbers] /\ \A i \in Slots : f[i] \in {0, s[1]}
    BY <2>5, <2>6, SlotsOfIs DEF Numbers
  <2>8. Moved(k, f)
    <3>1. set_inode_block_number(k, f, Zeroed(numbers, s, NoNumbers))
      BY <2>3
    <3>. HIDE DEF f
    <3>. QED  BY <2>7, <3>1, FreshFacts, SetFacts
  <2>. HIDE DEF f
  <2>9. BlocksKeep /\ BlocksOnly /\ DOMAIN dirents'[s[1]] = {}
    BY <2>3, <2>6, ZeroedQuiet DEF EmptyBlock
  <2>10. SlotsOnly /\ SlotsKeep
    <3>1. \A j \in Inodes : \A i \in Slots :
            At(i_block', numbers', j, i) \in {At(i_block, numbers, j, i), 0, s[1]}
      BY <2>7, <2>8, KeptIs DEF Moved
    <3>2. SlotsOnly
      BY <2>9, <3>1 DEF SlotsOnly
    <3>3. SlotsKeep
      BY <2>5, <2>8, KeptIs DEF Moved, SlotsKeep
    <3>. QED  BY <3>2, <3>3
  <2>11. Agreeing'
    <3>1. k \in inode_bitmap
      BY <1>1, <2>2 DEF NamesInv, NamesControl
    <3>2. \A j \in Inodes \ inode_bitmap : \A i \in Slots : At(i_block', numbers', j, i) = 0
      BY <2>8, <3>1, KeptIs, FreeHoldsNothing DEF Moved, NamesInv, DiskNames
    <3>. QED  BY <2>1, <3>2, SameFree DEF NamesInv, DiskNames
  <2>12. NoNewName /\ NoNameGone
    BY <2>1, <2>9, <2>10, QuietNames, QuietGone DEF NamesInv, DiskNames
  <2>13. Directories' = Directories /\ \A j : NamesOf(j)' \subseteq NamesOf(j)
    BY <2>1, <2>9, <2>10, QuietStep DEF NamesInv
  <2>14. PICK d, name : d = cmd.parent /\ name = listPeek(cmd.comps)
    OBVIOUS
  <2>15. name \in Names
    <3>1. cmd.comps \in Seq(Names) /\ cmd.comps # <<>>
      BY <1>1 DEF IInv, Typed, Locals, Control
    <3>. QED  BY <2>14, <3>1, PopFacts
  <2>16. /\ d \in inode_bitmap /\ k \in inode_bitmap /\ k # d
         /\ Nameless(k) /\ i_links_count[k] = 1
         /\ d \in Directories => ~HasName(d, name)
    BY <1>1, <2>2, <2>14 DEF NamesInv, NamesControl
  <2>17. Nameless(k)' /\ (d \in Directories => ~HasName(d, name)')
    BY <2>1, <2>12, <2>13, <2>15, <2>16, QuietHas DEF Nameless
  <2>18. /\ Nameless(cmd.inode)' <=> Nameless(k)'
         /\ HasName(cmd.parent, listPeek(cmd.comps))' <=> HasName(d, name)'
    BY <2>1, <2>2, <2>14, LocalsPrimed
  <2>19. NamesControl'
    BY <2>1, <2>2, <2>4, <2>13, <2>14, <2>16, <2>17, <2>18 DEF NamesControl
  <2>20. inode_bitmap \subseteq inode_bitmap' /\ pc # "count" /\ pc' # "drop"
    BY <1>1, <2>1
  <2>. QED  BY <2>1, <2>9, <2>10, <2>11, <2>12, <2>13, <2>19, <2>20, QuietDisk DEF Unnoticed
<1>. QED  BY <1>2, <1>3

\* ext2_cp writes the data, of a file that has no entries.
LEMMA CpDataNames == IInv /\ IInv' /\ NamesInv /\ cp_data /\ ~strayed' => NamesInv'
<1>. SUFFICES ASSUME IInv, IInv', NamesInv, cp_data, ~strayed' PROVE NamesInv'
  OBVIOUS
<1>1. /\ pc = "write" /\ pc' = "ok" /\ dirents' = dirents
      /\ block_bitmap' = block_bitmap /\ inode_bitmap' = inode_bitmap
      /\ free_inodes_count' = free_inodes_count /\ i_links_count' = i_links_count
  BY NotTaken DEF cp_data, bitmapVars
<1>2. PICK k \in Inodes : k = cmd.inode
  BY <1>1 DEF IInv, Control
<1>3. Moved(k, CopySlots)
  BY <1>2, CpDataFacts
<1>4. \A i \in Slots : CopySlots[i] # 0 => DOMAIN dirents[CopySlots[i]] = {}
  <2>1. \A i \in Slots : CopySlots[i] # 0 => CopySlots[i] \in InHand
    BY CpDataFacts
  <2>. QED  BY <2>1 DEF IInv, Blank, EmptyBlock
<1>5. BlocksKeep /\ BlocksOnly
  BY <1>1 DEF BlocksKeep, BlocksOnly, Alike
<1>6. SlotsOnly
  <2>1. ASSUME NEW j \in Inodes, NEW i \in Slots, At(i_block', numbers', j, i) # 0,
               DOMAIN dirents'[At(i_block', numbers', j, i)] # {}
        PROVE  At(i_block', numbers', j, i) = At(i_block, numbers, j, i)
    <3>1. CASE j = k
      <4>1. At(i_block', numbers', j, i) = CopySlots[i]
        BY <1>3, <2>1, <3>1, KeptIs DEF Moved
      <4>. QED  BY <1>1, <1>4, <2>1, <4>1
    <3>2. CASE j # k
      BY <1>3, <3>2, KeptIs DEF Moved
    <3>. QED  BY <3>1, <3>2
  <2>. QED  BY <2>1 DEF SlotsOnly
<1>7. Agreeing'
  <2>1. k \in inode_bitmap
    BY <1>1, <1>2 DEF NamesInv, NamesControl
  <2>2. \A j \in Inodes \ inode_bitmap : \A i \in Slots : At(i_block', numbers', j, i) = 0
    BY <1>3, <2>1, KeptIs, FreeHoldsNothing DEF Moved, NamesInv, DiskNames
  <2>. QED  BY <1>1, <2>2, SameFree DEF NamesInv, DiskNames
<1>8. NamesControl'
  BY <1>1 DEF NamesControl
<1>9. pc # "count" /\ pc' # "drop" /\ inode_bitmap \subseteq inode_bitmap'
  BY <1>1
<1>. QED  BY <1>1, <1>5, <1>6, <1>7, <1>8, <1>9, QuietDisk

-----------------------------------------------------------------------------
(* Making an entry *)

\* Entry o of block b is made, as e says; slot i of e.dir holds the block, or
\* is to: it is the first unused one then and may not take the number.
Made(e, i, b, o) ==
    /\ e.dir \in Inodes /\ i \in Slots /\ b \in Blocks
    /\ BlocksKeep
    /\ \A c \in block_bitmap' : \A q \in DOMAIN dirents'[c] :
          (c \in block_bitmap /\ q \in DOMAIN dirents[c]) \/ (c = b /\ q = o)
    /\ b \in block_bitmap' /\ o \in DOMAIN dirents'[b]
    /\ dirents'[b][o].inode = e.inode /\ dirents'[b][o].name = e.name
    /\ dirents'[b][o].file_type = e.type
    /\ b \in block_bitmap => o \notin DOMAIN dirents[b]
    /\ \A d \in Inodes : \A j \in Slots : ~(d = e.dir /\ j = i) =>
          At(i_block', numbers', d, j) = At(i_block, numbers, d, j)
    /\ \/ /\ At(i_block, numbers, e.dir, i) = b
          /\ At(i_block', numbers', e.dir, i) = b
       \/ /\ b \notin block_bitmap
          /\ At(i_block, numbers, e.dir, i) = 0
          /\ \A j \in Slots : At(i_block, numbers, e.dir, j) = 0 => i <= j
          /\ At(i_block', numbers', e.dir, i) =
                IF i < INDIRECT1_INDEX \/ i_block[e.dir][INDIRECT1_INDEX] # 0 THEN b ELSE 0

\* What an entry-making step leaves alone, and where it goes.
MadeStep ==
    /\ pc \in {"dot", "dotdot", "entry"} /\ pc' = AfterEntry(TRUE)
    /\ cmd' = [cmd EXCEPT !.made = TRUE]
    /\ inode_bitmap' = inode_bitmap /\ free_inodes_count' = free_inodes_count
    /\ i_links_count' = i_links_count

\* make_entry_in_existing_block makes an entry.
LEMMA ExistingMade ==
    ASSUME IInv, EntryInExistingBlock
    PROVE  /\ MadeStep
           /\ \E i, b, o : Made(Wanted, i, b, o) /\ At(i_block, numbers, Wanted.dir, i) # 0
<1>. DEFINE dir  == Wanted.dir
            inode == Wanted.inode
            name == Wanted.name
            type == Wanted.type
            slot == Min(Accepting(dir, name))
            b    == get_inode_block_number(dir, slot)
            made == make_entry_in_existing_block(dirents[b], inode, name, type)
            cur  == Min(HasRoom(dirents[b], name))
            new  == InsertAt(dirents[b], name)
<1>1. /\ pc \in {"dot", "dotdot", "entry"} /\ pc' = AfterEntry(TRUE)
      /\ Accepting(dir, name) # {}
      /\ dirents' = [dirents EXCEPT ![b] = made]
      /\ cmd' = [cmd EXCEPT !.made = TRUE]
      /\ UNCHANGED <<bitmapVars, inodeVars, numbers, commands>>
  BY DEF EntryInExistingBlock
<1>2. MadeStep
  BY <1>1 DEF MadeStep, bitmapVars, inodeVars
<1>3. dir \in Inodes /\ inode \in Inodes /\ name \in Names /\ type \in FileTypes
  BY <1>1, WantedType
<1>. HIDE DEF dir, inode, name, type
<1>4. slot \in Accepting(dir, name)
  <2>1. Accepting(dir, name) \subseteq Nat
    BY Bounds DEF Accepting
  <2>. QED  BY <1>1, <2>1, MinOfNats
<1>5. slot \in Slots /\ b # 0 /\ HasRoom(dirents[b], name) # {}
  BY <1>4 DEF Accepting, Accepts
<1>. HIDE DEF slot
<1>6. b = At(i_block, numbers, dir, slot) /\ slot \in Kept
  BY <1>3, <1>5, NumberIs, KeptIs DEF At
<1>7. b \in Blocks /\ b \in block_bitmap /\ Good(dirents[b], data[b])
  BY <1>3, <1>5, <1>6, PlaceFacts
<1>. HIDE DEF b
<1>8. IsChain(dirents[b], Inodes) /\ Tiles(dirents[b])
  BY <1>7 DEF IInv, Typed, Good
<1>9. /\ DOMAIN made = DOMAIN dirents[b] \cup {new}
      /\ made[cur] = [dirents[b][cur] EXCEPT !.rec_len = min_rec_len(dirents[b][cur])]
      /\ made[new] = [inode |-> inode, rec_len |-> space_left(dirents[b][cur]),
                      name |-> name, file_type |-> type]
      /\ \A q \in DOMAIN dirents[b] : q # cur => made[q] = dirents[b][q]
  BY <1>3, <1>5, <1>8, InsertShape
<1>10. cur \in DOMAIN dirents[b] /\ new \notin DOMAIN dirents[b]
  BY <1>3, <1>5, <1>8, InsertionPoint
<1>11. dirents[b][cur] \in ext2_dir_entry_2(Inodes)
  BY <1>8, <1>10 DEF IsChain
<1>12. /\ made[cur].inode = dirents[b][cur].inode /\ made[cur].name = dirents[b][cur].name
       /\ made[cur].file_type = dirents[b][cur].file_type
  BY <1>9, <1>11 DEF ext2_dir_entry_2
<1>. HIDE DEF made, cur, new
<1>13. /\ block_bitmap' = block_bitmap /\ i_block' = i_block /\ numbers' = numbers
       /\ dirents'[b] = made /\ \A c \in Blocks : c # b => dirents'[c] = dirents[c]
       /\ block_bitmap \subseteq Blocks
  <2>1. DOMAIN dirents = Blocks /\ block_bitmap \subseteq Blocks
    BY DEF IInv, Typed
  <2>. QED  BY <1>1, <1>7, <2>1 DEF bitmapVars, inodeVars
<1>14. BlocksKeep
  BY <1>7, <1>9, <1>12, <1>13 DEF BlocksKeep, Alike
<1>15. PICK e : e = Wanted
  OBVIOUS
<1>16. e.dir = dir /\ e.inode = inode /\ e.name = name /\ e.type = type
  BY <1>15 DEF dir, inode, name, type
<1>17. Made(e, slot, b, new)
  BY <1>3, <1>5, <1>6, <1>7, <1>9, <1>10, <1>13, <1>14, <1>16 DEF Made
<1>. QED  BY <1>2, <1>5, <1>6, <1>15, <1>16, <1>17

\* make_entry_in_inode makes one in a new block.
LEMMA NewMade ==
    ASSUME IInv, EntryInNewBlock, ~Fail
    PROVE  /\ MadeStep
           /\ \E i, b : /\ Made(Wanted, i, b, 0) /\ DOMAIN dirents'[b] = {0}
                        /\ At(i_block, numbers, Wanted.dir, i) = 0
<1>. DEFINE dir  == Wanted.dir
            inode == Wanted.inode
            name == Wanted.name
            type == Wanted.type
            slot == Min(Unused(dir))
            block == FirstEntry(inode, name, type)
<1>1. /\ pc \in {"dot", "dotdot", "entry"} /\ pc' = AfterEntry(TRUE)
      /\ Unused(dir) # {}
      /\ cmd' = [cmd EXCEPT !.made = TRUE]
      /\ UNCHANGED <<inode_bitmap, free_inodes_count, i_links_count, commands>>
  BY DEF EntryInNewBlock
<1>2. PICK s \in FirstFree(1) :
        /\ MarkUsed(s)
        /\ dirents' = [dirents EXCEPT ![s[1]] = block]
        /\ set_inode_block_number(dir, [SlotsOf(dir) EXCEPT ![slot] = s[1]],
                                  Zeroed(numbers, s, NoNumbers))
  BY DEF EntryInNewBlock
<1>3. MadeStep
  BY <1>1 DEF MadeStep
<1>4. dir \in Inodes /\ inode \in Inodes /\ name \in Names /\ type \in FileTypes
  BY <1>1, WantedType
<1>5. /\ DOMAIN block = {0} /\ block[0].inode = inode /\ block[0].name = name
      /\ block[0].file_type = type
  BY DEF FirstEntry
<1>. HIDE DEF dir, inode, name, type, block
<1>6. slot \in Unused(dir) /\ \A j \in Unused(dir) : slot <= j
  <2>1. Unused(dir) \subseteq Nat
    BY Bounds DEF Unused
  <2>. QED  BY <1>1, <2>1, MinOfNats
<1>7. \A j \in Slots : j \in Unused(dir) <=> At(i_block, numbers, dir, j) = 0
  BY HeldIs DEF Unused
<1>8. slot \in Slots /\ slot \in Kept
  BY <1>6, KeptIs DEF Unused
<1>. HIDE DEF slot
<1>9. PICK b : b = s[1]
  OBVIOUS
<1>. DEFINE f == [SlotsOf(dir) EXCEPT ![slot] = b]
<1>10. b \in Blocks /\ b \notin block_bitmap /\ b # 0
  <2>1. 1 \in 1 .. 1 /\ 1 \in Nat
    OBVIOUS
  <2>. QED  BY <1>9, <2>1, FirstFreeFacts, Bounds
<1>11. /\ f \in [Slots -> Numbers] /\ f[slot] = b
       /\ \A j \in Slots : j # slot => f[j] = At(i_block, numbers, dir, j)
  BY <1>4, <1>8, <1>10, SlotsOfIs DEF Numbers
<1>12. Moved(dir, f)
  <2>1. set_inode_block_number(dir, f, Zeroed(numbers, s, NoNumbers))
    BY <1>2, <1>9
  <2>. HIDE DEF f
  <2>. QED  BY <1>4, <1>11, <2>1, FreshFacts, SetFacts
<1>. HIDE DEF f
<1>13. At(i_block', numbers', dir, slot) =
          IF slot < INDIRECT1_INDEX \/ i_block[dir][INDIRECT1_INDEX] # 0 THEN b ELSE 0
  BY <1>4, <1>8, <1>11, <1>12 DEF Moved
<1>14. ASSUME NEW d \in Inodes, NEW j \in Slots, ~(d = dir /\ j = slot)
       PROVE  At(i_block', numbers', d, j) = At(i_block, numbers, d, j)
  <2>1. CASE d # dir
    BY <1>12, <2>1, KeptIs DEF Moved
  <2>2. CASE d = dir
    <3>1. j # slot /\ f[j] = At(i_block, numbers, dir, j) /\ j \in Kept
      BY <1>11, <1>14, <2>2, KeptIs
    <3>2. At(i_block', numbers', dir, j) =
            IF j < INDIRECT1_INDEX \/ i_block[dir][INDIRECT1_INDEX] # 0 THEN f[j] ELSE 0
      BY <1>4, <1>12, <3>1 DEF Moved
    <3>3. ~(j < INDIRECT1_INDEX \/ i_block[dir][INDIRECT1_INDEX] # 0)
            => At(i_block, numbers, dir, j) = 0
      <4>1. j # INODE_BLOCK_LIMIT
        BY KeptIs
      <4>. QED  BY <4>1 DEF At, NumberIn
    <3>. QED  BY <2>2, <3>1, <3>2, <3>3
  <2>. QED  BY <2>1, <2>2
<1>15. /\ block_bitmap' = block_bitmap \cup {b}
       /\ dirents'[b] = block /\ \A c \in Blocks : c # b => dirents'[c] = dirents[c]
       /\ block_bitmap \subseteq Blocks
  <2>1. DOMAIN dirents = Blocks /\ block_bitmap \subseteq Blocks
    BY DEF IInv, Typed
  <2>2. Elements(s) = {b}
    <3>1. DOMAIN s = {1}
      <4>1. 1 \in Nat /\ 1 .. 1 = {1}
        OBVIOUS
      <4>. QED  BY <4>1, FirstFreeFacts
    <3>. QED  BY <1>9, <3>1 DEF Elements
  <2>3. block_bitmap' = block_bitmap \cup Elements(s)
    BY <1>2 DEF MarkUsed, set_bitmap_val, Elements
  <2>. QED  BY <1>2, <1>9, <1>10, <2>1, <2>2, <2>3
<1>16. BlocksKeep
  BY <1>10, <1>15 DEF BlocksKeep, Alike
<1>17. PICK e : e = Wanted
  OBVIOUS
<1>18. e.dir = dir /\ e.inode = inode /\ e.name = name /\ e.type = type
  BY <1>17 DEF dir, inode, name, type
<1>19. At(i_block, numbers, dir, slot) = 0
       /\ \A j \in Slots : At(i_block, numbers, dir, j) = 0 => slot <= j
  BY <1>6, <1>7, <1>8
<1>20. Made(e, slot, b, 0)
  BY <1>4, <1>5, <1>8, <1>10, <1>13, <1>14, <1>15, <1>16, <1>18, <1>19 DEF Made
<1>. QED  BY <1>3, <1>5, <1>15, <1>17, <1>18, <1>19, <1>20

\* Entry o of slot i of inode d, named or not.
Holds(d, i, o) ==
    /\ d \in Inodes /\ i \in Slots
    /\ At(i_block, numbers, d, i) # 0
    /\ o \in DOMAIN dirents[At(i_block, numbers, d, i)]

\* A name is an entry with a name, in an inode in use.
LEMMA ListsIs ==
    ASSUME IInv, NEW d, NEW i, NEW o
    PROVE  Lists(d, i, o) <=> d \in inode_bitmap /\ Holds(d, i, o) /\ Says(d, i, o).name # Unnamed
<1>1. inode_bitmap \subseteq Inodes
  BY DEF IInv, Typed
<1>. QED  BY <1>1 DEF Lists, Holds, Says

\* The same for all entries, after a step too.
NamesHeld ==
    \A d, i, o : Lists(d, i, o) <=>
        d \in inode_bitmap /\ Holds(d, i, o) /\ Says(d, i, o).name # Unnamed

\* ListsIs as one formula.
LEMMA ListsHeld == IInv => NamesHeld
BY ListsIs DEF NamesHeld

\* And after a step.
LEMMA ListsPrimed == IInv' => NamesHeld'
BY ListsHeld, PTL

\* The block of a new entry is in its slot.
Attached(e, i, b) == At(i_block', numbers', e.dir, i) = b

\* A slot that held a block holds it after an entry has been made.
LEMMA MadeSlots ==
    ASSUME NEW e, NEW i, NEW b, NEW o, Made(e, i, b, o),
           NEW d \in Inodes, NEW j \in Slots
    PROVE  /\ At(i_block, numbers, d, j) # 0
                 => At(i_block', numbers', d, j) = At(i_block, numbers, d, j)
           /\ At(i_block', numbers', d, j) \in block_bitmap
                 => At(i_block', numbers', d, j) = At(i_block, numbers, d, j)
                    \/ At(i_block', numbers', d, j) = 0
<1>1. CASE d = e.dir /\ j = i
  BY <1>1 DEF Made
<1>2. CASE ~(d = e.dir /\ j = i)
  BY <1>2 DEF Made
<1>. QED  BY <1>1, <1>2

\* What says that an inode is a directory, then.
LEMMA MadeDeclares ==
    ASSUME NEW e, NEW i, NEW b, NEW o, Made(e, i, b, o)
    PROVE  \A c, q, k : Declares(c, q, k)' <=>
              Declares(c, q, k) \/ (c = b /\ q = o /\ e.type = "dir" /\ k = e.inode)
<1>. SUFFICES ASSUME NEW c, NEW q, NEW k
              PROVE  Declares(c, q, k)' <=>
                        Declares(c, q, k) \/ (c = b /\ q = o /\ e.type = "dir" /\ k = e.inode)
  OBVIOUS
<1>1. ASSUME Declares(c, q, k) PROVE Declares(c, q, k)'
  BY <1>1 DEF Made, BlocksKeep, Alike, Declares
<1>2. ASSUME c = b, q = o, e.type = "dir", k = e.inode PROVE Declares(c, q, k)'
  BY <1>2 DEF Made, Declares
<1>3. ASSUME Declares(c, q, k)', ~(c = b /\ q = o) PROVE Declares(c, q, k)
  BY <1>3 DEF Made, BlocksKeep, Alike, Declares
<1>4. ASSUME Declares(c, q, k)', c = b, q = o
      PROVE  e.type = "dir" /\ k = e.inode
  BY <1>4 DEF Made, Declares
<1>. QED  BY <1>1, <1>2, <1>3, <1>4

\* The directories, then.
LEMMA MadeDirectories ==
    ASSUME NEW e, NEW i, NEW b, NEW o, Made(e, i, b, o), NEW k
    PROVE  k \in Directories' <=> k \in Directories \/ (e.type = "dir" /\ k = e.inode)
<1>1. \A c, q : Declares(c, q, k)' <=>
         Declares(c, q, k) \/ (c = b /\ q = o /\ e.type = "dir" /\ k = e.inode)
  BY MadeDeclares
<1>. QED  BY <1>1, DirectoryIs

\* The entries in slots, then.
LEMMA MadeHolds ==
    ASSUME IInv, IInv', NEW e, NEW i, NEW b, NEW o, Made(e, i, b, o)
    PROVE  /\ \A d, j, q : Holds(d, j, q)' <=>
                 Holds(d, j, q) \/ (d = e.dir /\ j = i /\ q = o /\ Attached(e, i, b))
           /\ \A d, j, q : Holds(d, j, q) => Alike(Says(d, j, q)', Says(d, j, q))
           /\ ~Holds(e.dir, i, o)
           /\ Attached(e, i, b) =>
                 /\ Says(e.dir, i, o)'.inode = e.inode /\ Says(e.dir, i, o)'.name = e.name
                 /\ Says(e.dir, i, o)'.file_type = e.type
<1>0. e.dir \in Inodes /\ i \in Slots /\ b \in Blocks /\ b # 0
  BY Bounds DEF Made
<1>1. ASSUME NEW d, NEW j, NEW q, Holds(d, j, q)
      PROVE  Holds(d, j, q)' /\ Alike(Says(d, j, q)', Says(d, j, q))
  <2>. DEFINE c == At(i_block, numbers, d, j)
  <2>1. d \in Inodes /\ j \in Slots /\ j \in Kept /\ c # 0 /\ q \in DOMAIN dirents[c]
    BY <1>1, KeptIs DEF Holds
  <2>2. c \in block_bitmap
    BY <2>1, PlaceFacts
  <2>3. At(i_block', numbers', d, j) = c
    BY <2>1, MadeSlots
  <2>. HIDE DEF c
  <2>4. q \in DOMAIN dirents'[c] /\ Alike(dirents'[c][q], dirents[c][q])
    BY <2>1, <2>2 DEF Made, BlocksKeep
  <2>. QED  BY <2>1, <2>3, <2>4 DEF Holds, Says, c
<1>2. ASSUME Attached(e, i, b)
      PROVE  /\ Holds(e.dir, i, o)'
             /\ Says(e.dir, i, o)'.inode = e.inode /\ Says(e.dir, i, o)'.name = e.name
             /\ Says(e.dir, i, o)'.file_type = e.type
  BY <1>0, <1>2 DEF Made, Attached, Holds, Says
<1>3. ASSUME NEW d, NEW j, NEW q, Holds(d, j, q)', ~Holds(d, j, q)
      PROVE  d = e.dir /\ j = i /\ q = o /\ Attached(e, i, b)
  <2>. DEFINE c == At(i_block', numbers', d, j)
  <2>1. d \in Inodes /\ j \in Slots /\ j \in Kept /\ c # 0 /\ q \in DOMAIN dirents'[c]
    BY <1>3, KeptIs DEF Holds
  <2>2. c \in block_bitmap'
    <3>1. OneOwner' <=> Owned(i_block, numbers, block_bitmap, InHand)'
      BY OwnedIs, PTL
    <3>2. OneOwner'
      BY DEF IInv
    <3>. QED  BY <2>1, <3>1, <3>2 DEF Owned
  <2>3. ~(c \in block_bitmap /\ q \in DOMAIN dirents[c])
    <3>1. SUFFICES ASSUME c \in block_bitmap, q \in DOMAIN dirents[c] PROVE FALSE
      OBVIOUS
    <3>2. c = At(i_block, numbers, d, j)
      BY <2>1, <3>1, MadeSlots
    <3>. QED  BY <1>3, <2>1, <3>1, <3>2 DEF Holds
  <2>4. c = b /\ q = o
    BY <2>1, <2>2, <2>3 DEF Made
  <2>5. CASE d = e.dir /\ j = i
    BY <2>4, <2>5 DEF Attached
  <2>6. CASE ~(d = e.dir /\ j = i)
    <3>1. At(i_block, numbers, d, j) = b
      BY <2>1, <2>4, <2>6 DEF Made
    <3>2. b \in block_bitmap
      BY <1>0, <2>1, <3>1, PlaceFacts
    <3>3. At(i_block, numbers, e.dir, i) = b
      BY <3>2 DEF Made
    <3>4. Owned(i_block, numbers, block_bitmap, InHand)
      BY OwnedIs DEF IInv
    <3>5. i \in Kept
      BY <1>0, KeptIs
    <3>. QED  BY <1>0, <2>1, <2>6, <3>1, <3>3, <3>4, <3>5 DEF Owned
  <2>. QED  BY <2>5, <2>6
<1>4. ~Holds(e.dir, i, o)
  <2>1. SUFFICES ASSUME Holds(e.dir, i, o) PROVE FALSE
    OBVIOUS
  <2>2. At(i_block, numbers, e.dir, i) = b /\ o \in DOMAIN dirents[b] /\ i \in Kept
    BY <2>1, KeptIs DEF Made, Holds
  <2>3. b \in block_bitmap
    BY <1>0, <2>2, PlaceFacts
  <2>. QED  BY <2>2, <2>3 DEF Made
<1>. QED  BY <1>1, <1>2, <1>3, <1>4

\* The names, then.
LEMMA MadeLists ==
    ASSUME IInv, IInv', MadeStep, NEW e, NEW i, NEW b, NEW o, Made(e, i, b, o),
           e.dir \in inode_bitmap, e.name \in Names
    PROVE  /\ \A d, j, q : Lists(d, j, q)' <=>
                 Lists(d, j, q) \/ (d = e.dir /\ j = i /\ q = o /\ Attached(e, i, b))
           /\ \A d, j, q : Lists(d, j, q) => Alike(Says(d, j, q)', Says(d, j, q))
           /\ ~Lists(e.dir, i, o)
           /\ Attached(e, i, b) =>
                 /\ Says(e.dir, i, o)'.inode = e.inode /\ Says(e.dir, i, o)'.name = e.name
                 /\ Says(e.dir, i, o)'.file_type = e.type
<1>1. NamesHeld /\ NamesHeld'
  BY ListsHeld, ListsPrimed
<1>2. inode_bitmap' = inode_bitmap /\ e.name # Unnamed
  BY UnnamedAssumption DEF MadeStep
<1>3. /\ \A d, j, q : Holds(d, j, q)' <=>
            Holds(d, j, q) \/ (d = e.dir /\ j = i /\ q = o /\ Attached(e, i, b))
      /\ \A d, j, q : Holds(d, j, q) => Alike(Says(d, j, q)', Says(d, j, q))
  BY MadeHolds
<1>4. /\ ~Holds(e.dir, i, o)
      /\ Attached(e, i, b) =>
            /\ Says(e.dir, i, o)'.inode = e.inode /\ Says(e.dir, i, o)'.name = e.name
            /\ Says(e.dir, i, o)'.file_type = e.type
  BY MadeHolds
<1>5. \A d, j, q : Lists(d, j, q) =>
        Lists(d, j, q)' /\ Alike(Says(d, j, q)', Says(d, j, q))
  BY <1>1, <1>2, <1>3 DEF NamesHeld, Alike
<1>6. Attached(e, i, b) => Lists(e.dir, i, o)'
  BY <1>1, <1>2, <1>3, <1>4 DEF NamesHeld
<1>7. \A d, j, q : Lists(d, j, q)' /\ ~Lists(d, j, q) =>
        d = e.dir /\ j = i /\ q = o /\ Attached(e, i, b)
  BY <1>1, <1>2, <1>3 DEF NamesHeld, Alike
<1>8. ~Lists(e.dir, i, o)
  BY <1>1, <1>4 DEF NamesHeld
<1>. QED  BY <1>4, <1>5, <1>6, <1>7, <1>8

\* An entry that may be made: it says of its inode what the others say, and
\* its directory does not have the name.
Welcome(e) ==
    /\ e.dir \in inode_bitmap /\ e.inode \in inode_bitmap /\ e.name \in Names
    /\ e.type # "dir" => e.inode \notin Directories
    /\ e.type = "dir" =>
          /\ e.inode \in Directories \/ NamesOf(e.inode) = {}
          /\ e.inode \in Directories \/ \A i, o : ~Lists(e.inode, i, o)
          /\ e.dir \in Directories \/ e.dir = e.inode
    /\ e.dir \in Directories => ~HasName(e.dir, e.name)

\* Such an entry keeps what is said of the disk.
LEMMA MadeDisk ==
    ASSUME IInv, IInv', DiskNames, MadeStep, NEW e, NEW i, NEW b, NEW o, Made(e, i, b, o),
           Welcome(e)
    PROVE  DiskNames'
<1>1. inode_bitmap' = inode_bitmap /\ free_inodes_count' = free_inodes_count
  BY DEF MadeStep
<1>2. e.dir \in inode_bitmap /\ e.inode \in inode_bitmap /\ e.name \in Names
  BY DEF Welcome
<1>3. /\ \A d, j, q : Lists(d, j, q)' <=>
            Lists(d, j, q) \/ (d = e.dir /\ j = i /\ q = o /\ Attached(e, i, b))
      /\ \A d, j, q : Lists(d, j, q) => Alike(Says(d, j, q)', Says(d, j, q))
      /\ Attached(e, i, b) =>
            /\ Says(e.dir, i, o)'.inode = e.inode /\ Says(e.dir, i, o)'.name = e.name
            /\ Says(e.dir, i, o)'.file_type = e.type
  BY <1>2, MadeLists
<1>4. \A k : k \in Directories' <=> k \in Directories \/ (e.type = "dir" /\ k = e.inode)
  BY MadeDirectories
<1>5. LiveDirs'
  BY <1>1, <1>2, <1>4 DEF DiskNames, LiveDirs
<1>6. EachLive'
  <2>1. EachLive
    BY LiveIs DEF DiskNames
  <2>2. \A d, j, q : Lists(d, j, q)' => Says(d, j, q)'.inode \in inode_bitmap
    BY <1>2, <1>3, <2>1 DEF EachLive, Alike
  <2>. QED  BY <1>1, <2>2 DEF EachLive
<1>7. EachKind'
  <2>1. SUFFICES ASSUME NEW d, NEW j, NEW q, Lists(d, j, q)', Says(d, j, q)'.inode \in Directories'
                 PROVE  Says(d, j, q)'.file_type = "dir"
    BY DEF EachKind
  <2>2. CASE Lists(d, j, q)
    <3>1. Alike(Says(d, j, q)', Says(d, j, q))
      BY <1>3, <2>2
    <3>2. ASSUME e.type = "dir", Says(d, j, q).inode = e.inode PROVE e.inode \in Directories
      <4>1. <<d, <<j, q>>>> \in NamesOf(e.inode)
        BY <2>2, <3>2, NamesOfIs
      <4>. QED  BY <3>2, <4>1 DEF Welcome
    <3>3. Says(d, j, q).inode \in Directories
      BY <1>4, <2>1, <3>1, <3>2 DEF Alike
    <3>4. EachKind
      BY KindIs DEF DiskNames
    <3>. QED  BY <2>2, <3>1, <3>3, <3>4 DEF EachKind, Alike
  <2>3. CASE ~Lists(d, j, q)
    <3>1. Says(d, j, q)'.inode = e.inode /\ Says(d, j, q)'.file_type = e.type
      BY <1>3, <2>1, <2>3
    <3>2. e.inode \in Directories'
      BY <2>1, <3>1
    <3>. QED  BY <1>4, <3>1, <3>2 DEF Welcome
  <2>. QED  BY <2>2, <2>3
<1>8. DirsNamed'
  <2>1. SUFFICES ASSUME NEW c \in block_bitmap', NEW q \in DOMAIN dirents'[c],
                        dirents'[c][q].file_type = "dir"
                 PROVE  dirents'[c][q].name # Unnamed
    BY DEF DirsNamed
  <2>2. CASE c \in block_bitmap /\ q \in DOMAIN dirents[c]
    <3>1. Alike(dirents'[c][q], dirents[c][q])
      BY <2>2 DEF Made, BlocksKeep
    <3>. QED  BY <2>1, <2>2, <3>1 DEF DiskNames, DirsNamed, Alike
  <2>3. CASE c = b /\ q = o
    BY <1>2, <2>3, UnnamedAssumption DEF Made
  <2>. QED  BY <2>2, <2>3 DEF Made
<1>9. EachInside'
  <2>1. SUFFICES ASSUME NEW d \in Inodes, NEW j \in Slots, At(i_block', numbers', d, j) # 0,
                        NEW q \in DOMAIN dirents'[At(i_block', numbers', d, j)],
                        dirents'[At(i_block', numbers', d, j)][q].file_type = "dir"
                 PROVE  d \in Directories'
    BY DEF EachInside
  <2>2. Holds(d, j, q)' /\ Says(d, j, q)'.file_type = "dir"
    BY <2>1 DEF Holds, Says
  <2>3. CASE Holds(d, j, q)
    <3>1. Says(d, j, q).file_type = "dir"
      BY <2>2, <2>3, MadeHolds DEF Alike
    <3>2. EachInside
      BY InsideIs DEF DiskNames
    <3>3. d \in Directories
      BY <2>3, <3>1, <3>2 DEF EachInside, Holds, Says
    <3>. QED  BY <1>4, <3>3
  <2>4. CASE ~Holds(d, j, q)
    <3>1. d = e.dir /\ j = i /\ q = o /\ Attached(e, i, b)
      BY <2>2, <2>4, MadeHolds
    <3>2. e.type = "dir"
      BY <1>3, <2>2, <3>1
    <3>. QED  BY <1>4, <3>1, <3>2 DEF Welcome
  <2>. QED  BY <2>3, <2>4
<1>10. EachOnce'
  <2>1. SUFFICES ASSUME NEW k \in Directories', NEW j, NEW q, NEW l, NEW r,
                        Lists(k, j, q)', Lists(k, l, r)',
                        Says(k, j, q)'.name = Says(k, l, r)'.name
                 PROVE  j = l /\ q = r
    BY DEF EachOnce
  <2>2. CASE Lists(k, j, q) /\ Lists(k, l, r)
    <3>1. Says(k, j, q).name = Says(k, l, r).name
      BY <1>3, <2>1, <2>2 DEF Alike
    <3>2. k \in Directories
      BY <1>4, <2>1, <2>2 DEF Welcome
    <3>3. EachOnce
      BY OnceIs DEF DiskNames
    <3>. QED  BY <2>2, <3>1, <3>2, <3>3 DEF EachOnce
  <2>3. CASE ~Lists(k, j, q) /\ ~Lists(k, l, r)
    BY <1>3, <2>1, <2>3
  <2>4. ASSUME NEW x, NEW y, NEW z, NEW w, Lists(k, x, y), ~Lists(k, z, w), Lists(k, z, w)',
               Says(k, x, y)'.name = Says(k, z, w)'.name
        PROVE  FALSE
    <3>1. k = e.dir /\ Says(k, z, w)'.name = e.name
      BY <1>3, <2>4
    <3>2. Says(k, x, y).name = e.name
      BY <1>3, <2>4, <3>1 DEF Alike
    <3>3. k \in Directories
      BY <1>4, <2>1, <2>4 DEF Welcome
    <3>4. HasName(k, e.name)
      BY <1>2, <2>4, <3>1, <3>2, NamesListed DEF NameFacts
    <3>. QED  BY <3>1, <3>3, <3>4 DEF Welcome
  <2>5. CASE Lists(k, j, q) /\ ~Lists(k, l, r)
    BY <2>1, <2>4, <2>5
  <2>6. CASE ~Lists(k, j, q) /\ Lists(k, l, r)
    BY <2>1, <2>4, <2>6
  <2>. QED  BY <2>2, <2>3, <2>5, <2>6
<1>11. Agreeing'
  <2>1. \A k \in Inodes \ inode_bitmap : \A j \in Slots : At(i_block', numbers', k, j) = 0
    <3>1. \A k \in Inodes \ inode_bitmap : \A j \in Slots :
            At(i_block', numbers', k, j) = At(i_block, numbers, k, j)
      BY <1>2 DEF Made
    <3>. QED  BY <3>1, FreeHoldsNothing DEF DiskNames
  <2>. QED  BY <1>1, <2>1, SameFree DEF DiskNames
<1>12. Living' /\ OneKind' /\ UniqueNames'
  BY <1>5, <1>6, <1>7, <1>10, EachPrimed
<1>13. DirsInside'
  BY <1>9, InsidePrimed
<1>. QED  BY <1>5, <1>8, <1>11, <1>12, <1>13 DEF DiskNames

\* The names of an inode, after an entry has been made.
LEMMA MadeNames ==
    ASSUME IInv, IInv', MadeStep, NEW e, NEW i, NEW b, NEW o, Made(e, i, b, o),
           e.dir \in inode_bitmap, e.name \in Names, NEW k
    PROVE  /\ NamesOf(k)' \subseteq NamesOf(k) \cup {<<e.dir, <<i, o>>>>}
           /\ k # e.inode => NamesOf(k)' \subseteq NamesOf(k)
<1>1. ASSUME NEW x \in NamesOf(k)', x \notin NamesOf(k)
      PROVE  x = <<e.dir, <<i, o>>>> /\ k = e.inode
  <2>1. PICK d, j, q : x = <<d, <<j, q>>>>
    BY <1>1, NamesOfAll
  <2>2. Lists(d, j, q)' /\ Says(d, j, q)'.inode = k
    BY <1>1, <2>1, NamesOfIs
  <2>3. ~(Lists(d, j, q) /\ Says(d, j, q).inode = k)
    BY <1>1, <2>1, NamesOfIs
  <2>4. ~Lists(d, j, q)
    BY <2>2, <2>3, MadeLists DEF Alike
  <2>5. d = e.dir /\ j = i /\ q = o /\ Attached(e, i, b)
    BY <2>2, <2>4, MadeLists
  <2>6. Says(d, j, q)'.inode = e.inode
    BY <2>5, MadeLists
  <2>. QED  BY <2>1, <2>2, <2>5, <2>6
<1>. QED  BY <1>1

\* The link count covers a new name: the inode is a directory, or ext2_ln is
\* about to count, or this is its first name.
LEMMA MadeLinks ==
    ASSUME IInv, IInv', LinksCover, MadeStep, pc' # "drop",
           NEW e, NEW i, NEW b, NEW o, Made(e, i, b, o),
           e.dir \in inode_bitmap, e.inode \in Inodes, e.name \in Names,
           \/ e.inode \in Directories'
           \/ Uncounted(e.inode)' = 1
           \/ NamesOf(e.inode) = {} /\ i_links_count[e.inode] = 1
    PROVE  LinksCover'
<1>1. SUFFICES ASSUME NEW k \in Inodes, k \notin Directories' PROVE Covered(k)'
  BY CoverIs
<1>2. k \notin Directories
  BY <1>1, MadeDirectories
<1>3. Covered(k)
  BY <1>2, CoverIs
<1>4. pc # "count" /\ pc # "drop" /\ i_links_count' = i_links_count
  BY DEF MadeStep
<1>5. Pending(k) = 0 /\ Pending(k)' = 0 /\ Uncounted(k) = 0
  BY <1>4 DEF Pending, Uncounted
<1>. DEFINE old == Cardinality(NamesOf(k))
            new == Cardinality(NamesOf(k)')
            u   == Uncounted(k)'
            n   == i_links_count[k]
<1>6. old \in Nat /\ new \in Nat /\ n \in Nat /\ u \in {0, 1}
  BY CountFacts
<1>7. old + 0 <= n + 0
  BY <1>3, <1>5 DEF Covered
<1>8. k # e.inode => new <= old
  BY MadeNames, FewerNames
<1>9. new <= old + 1
  <2>1. NamesOf(k)' \subseteq NamesOf(k) \cup {<<e.dir, <<i, o>>>>}
    BY MadeNames
  <2>2. IsFiniteSet(NamesOf(k))
    BY NamesFinite DEF NamesCounted
  <2>. DEFINE more == NamesOf(k) \cup {<<e.dir, <<i, o>>>>}
  <2>3. /\ IsFiniteSet(more)
        /\ Cardinality(more) = IF <<e.dir, <<i, o>>>> \in NamesOf(k) THEN old ELSE old + 1
    BY <2>2, FS_AddElement
  <2>4. new <= Cardinality(more)
    <3>1. NamesOf(k)' \subseteq more
      BY <2>1
    <3>. HIDE DEF more
    <3>. QED  BY <2>3, <3>1, FS_Subset
  <2>. HIDE DEF more, old, new
  <2>. QED  BY <1>6, <2>3, <2>4
<1>10. CASE k # e.inode
  <2>1. new <= old
    BY <1>8, <1>10
  <2>2. new + 0 <= n + u
    <3>. HIDE DEF old, new, n, u
    <3>. QED  BY <1>6, <1>7, <2>1
  <2>. QED  BY <1>4, <1>5, <2>2 DEF Covered
<1>11. CASE k = e.inode /\ u = 1
  <2>2. new + 0 <= n + u
    <3>. HIDE DEF old, new, n, u
    <3>. QED  BY <1>6, <1>7, <1>9, <1>11
  <2>. QED  BY <1>4, <1>5, <2>2 DEF Covered
<1>12. CASE k = e.inode /\ NamesOf(k) = {} /\ n = 1
  <2>1. old = 0
    BY <1>12, FS_EmptySet
  <2>2. new + 0 <= n + u
    <3>1. n = 1
      BY <1>12
    <3>. HIDE DEF old, new, n, u
    <3>. QED  BY <1>6, <1>7, <1>9, <2>1, <3>1
  <2>. QED  BY <1>4, <1>5, <2>2 DEF Covered
<1>. QED  BY <1>1, <1>10, <1>11, <1>12

\* What a block outside an inode was, before.
LEMMA MadeOutside ==
    ASSUME NEW e, NEW i, NEW b, NEW o, Made(e, i, b, o),
           NEW c \in block_bitmap, c # 0, NEW k \in Inodes, Outside(c, k)
    PROVE  Outside(c, k)'
<1>. SUFFICES ASSUME NEW j \in Slots, At(i_block', numbers', k, j) = c PROVE FALSE
  BY DEF Outside
<1>1. At(i_block, numbers, k, j) = c
  BY MadeSlots
<1>. QED  BY <1>1 DEF Outside

\* A directory stays one without the new entry.
LEMMA MadeWithout ==
    ASSUME IInv, NEW e, NEW i, NEW b, NEW o, Made(e, i, b, o),
           NEW d, NEW k \in Inodes, DirWithout(d, k)
    PROVE  DirWithout(d, k)'
<1>1. CASE d = RootInode
  BY <1>1 DEF DirWithout
<1>2. CASE d # RootInode
  <2>1. PICK c \in block_bitmap : \E q \in DOMAIN dirents[c] : Declares(c, q, d) /\ Outside(c, k)
    BY <1>2 DEF DirWithout
  <2>2. PICK q : Declares(c, q, d) /\ Outside(c, k)
    BY <2>1
  <2>3. c # 0
    BY <2>1, Bounds DEF IInv, Typed
  <2>4. Declares(c, q, d)' /\ Outside(c, k)'
    BY <2>1, <2>2, <2>3, MadeDeclares, MadeOutside
  <2>5. c \in block_bitmap' /\ q \in DOMAIN dirents'[c]
    BY <2>4 DEF Declares
  <2>. QED  BY <2>4, <2>5 DEF DirWithout
<1>. QED  BY <1>1, <1>2

\* So does a directory without a name, when the entry is its own.
LEMMA MadeNascent ==
    ASSUME IInv, IInv', NEW e, NEW i, NEW b, NEW o, Made(e, i, b, o),
           NEW k \in Inodes, NEW d, k # RootInode, k \in Directories',
           \/ Nascent(k, d)
           \/ k \notin Directories /\ \A j \in Slots : At(i_block, numbers, k, j) = 0,
           e.dir = k => /\ e.inode \in {k, d} /\ e.name \in {".", ".."},
           e.inode = k => e.dir = k /\ Attached(e, i, b)
    PROVE  Nascent(k, d)'
<1>1. i \in Slots
  BY DEF Made
<1>2. ASSUME NEW c \in block_bitmap', NEW q \in DOMAIN dirents'[c], Declares(c, q, k)'
      PROVE  ~Outside(c, k)'
  <2>1. CASE Declares(c, q, k)
    <3>1. Nascent(k, d)
      BY <2>1, DirectoryIs
    <3>2. ~Outside(c, k)
      BY <2>1, <3>1 DEF Nascent, Declares
    <3>3. PICK j \in Slots : At(i_block, numbers, k, j) = c
      BY <3>2 DEF Outside
    <3>4. c # 0
      BY <2>1, Bounds DEF Declares, IInv, Typed
    <3>5. At(i_block', numbers', k, j) = c
      BY <3>3, <3>4, MadeSlots
    <3>. QED  BY <3>5 DEF Outside
  <2>2. CASE ~Declares(c, q, k)
    <3>1. c = b /\ k = e.inode
      BY <1>2, <2>2, MadeDeclares
    <3>. QED  BY <1>1, <3>1 DEF Attached, Outside
  <2>. QED  BY <2>1, <2>2
<1>3. ASSUME NEW j, NEW q, Holds(k, j, q)'
      PROVE  Says(k, j, q)'.inode \in {k, d} /\ Says(k, j, q)'.name \in {".", ".."}
  <2>1. CASE Holds(k, j, q)
    <3>1. Nascent(k, d)
      BY <2>1 DEF Holds
    <3>2. j \in Held(k) /\ get_inode_block_number(k, j) = At(i_block, numbers, k, j)
      BY <2>1, HeldIs DEF Holds
    <3>3. Says(k, j, q).inode \in {k, d} /\ Says(k, j, q).name \in {".", ".."}
      BY <2>1, <3>1, <3>2 DEF Nascent, Holds, Says
    <3>4. Alike(Says(k, j, q)', Says(k, j, q))
      BY <2>1, MadeHolds
    <3>. QED  BY <3>3, <3>4 DEF Alike
  <2>2. CASE ~Holds(k, j, q)
    <3>1. k = e.dir /\ j = i /\ q = o /\ Attached(e, i, b)
      BY <1>3, <2>2, MadeHolds
    <3>2. Says(k, j, q)'.inode = e.inode /\ Says(k, j, q)'.name = e.name
      BY <3>1, MadeHolds
    <3>. QED  BY <3>1, <3>2
  <2>. QED  BY <2>1, <2>2
<1>4. ASSUME NEW j \in Held(k)', NEW q \in DOMAIN dirents'[get_inode_block_number(k, j)']
      PROVE  /\ dirents'[get_inode_block_number(k, j)'][q].inode \in {k, d}
             /\ dirents'[get_inode_block_number(k, j)'][q].name \in {".", ".."}
  <2>1. /\ j \in Slots /\ At(i_block', numbers', k, j) # 0
        /\ get_inode_block_number(k, j)' = At(i_block', numbers', k, j)
    BY HeldIs
  <2>2. Holds(k, j, q)'
    BY <2>1 DEF Holds
  <2>. QED  BY <1>3, <2>1, <2>2 DEF Says
<1>. QED  BY <1>2, <1>4 DEF Nascent

\* The names a directory has, then.
LEMMA MadeHas ==
    ASSUME IInv, IInv', MadeStep, NEW e, NEW i, NEW b, NEW o, Made(e, i, b, o),
           e.dir \in inode_bitmap, e.name \in Names,
           NEW d \in inode_bitmap, NEW name \in Names,
           ~HasName(d, name), ~(d = e.dir /\ name = e.name)
    PROVE  ~HasName(d, name)'
<1>. SUFFICES ASSUME HasName(d, name)' PROVE FALSE
  OBVIOUS
<1>1. d \in inode_bitmap'
  BY DEF MadeStep
<1>2. PICK j, q : Lists(d, j, q)' /\ Says(d, j, q)'.name = name
  BY <1>1, FactsPrimed DEF NameFacts
<1>3. CASE Lists(d, j, q)
  BY <1>2, <1>3, MadeLists, NamesListed DEF NameFacts, Alike
<1>4. CASE ~Lists(d, j, q)
  BY <1>2, <1>4, MadeLists
<1>. QED  BY <1>3, <1>4

\* An inode that is not the entry's directory holds what it held.
LEMMA MadeHeld ==
    ASSUME NEW e, NEW i, NEW b, NEW o, Made(e, i, b, o), NEW k \in Inodes, k # e.dir
    PROVE  Held(k)' = Held(k)
<1>1. \A j \in Slots : At(i_block', numbers', k, j) = At(i_block, numbers, k, j)
  BY DEF Made
<1>. QED  BY <1>1, HeldIs

-----------------------------------------------------------------------------
(* The entries of a command *)

\* ext2_mkdir makes directories, the other commands none.
Kinds ==
    /\ cmd.op = "mkdir" => cmd.type = "dir"
    /\ cmd.op \in {"cp", "ln", "ln_s"} => cmd.type # "dir"

\* The local variables as they were, but for those a step sets.
LEMMA KindsStep == IInv /\ Kinds /\ (Next \/ UNCHANGED vars) /\ ~strayed' => Kinds'
<1>. SUFFICES ASSUME IInv, Kinds, Next \/ UNCHANGED vars, ~strayed' PROVE Kinds'
  OBVIOUS
<1>1. cmd \in Locals
  BY DEF IInv, Typed
<1>2. ASSUME cmd'.op = cmd.op, cmd'.type = cmd.type PROVE Kinds'
  BY <1>2 DEF Kinds
<1>3. ASSUME cmd' = NoCommand PROVE Kinds'
  BY <1>3 DEF Kinds, NoCommand
<1>4. ASSUME Command PROVE Kinds'
  <2>1. ASSUME NEW src \in DOMAIN HostFiles, NEW dest \in Paths, ext2_cp(src, dest)
        PROVE  Kinds'
    <3>1. \/ Refused
          \/ cmd'.op = "cp" /\ cmd'.type = "file"
      BY <2>1 DEF ext2_cp, NoCommand
    <3>. QED  BY <1>3, <3>1 DEF Refused, Kinds
  <2>2. ASSUME NEW src \in Paths, NEW dest \in Paths, NEW sym \in BOOLEAN, ext2_ln(src, dest, sym)
        PROVE  Kinds'
    <3>1. \/ Refused
          \/ cmd'.op = "ln_s" /\ cmd'.type = "symlink"
          \/ cmd'.op = "ln" /\ cmd'.type = "file"
      BY <2>2 DEF ext2_ln, NoCommand
    <3>. QED  BY <1>3, <3>1 DEF Refused, Kinds
  <2>3. ASSUME NEW path \in Paths, ext2_mkdir(path) PROVE Kinds'
    <3>1. \/ Refused
          \/ cmd'.op = "mkdir" /\ cmd'.type = "dir"
      BY <2>3 DEF ext2_mkdir, NoCommand
    <3>. QED  BY <1>3, <3>1 DEF Refused, Kinds
  <2>4. ASSUME NEW path \in Paths, ext2_rm(path) PROVE Kinds'
    <3>1. Refused \/ cmd'.op = "rm"
      BY <2>4 DEF ext2_rm, NoCommand
    <3>. QED  BY <1>3, <3>1 DEF Refused, Kinds
  <2>. QED  BY <1>4, <2>1, <2>2, <2>3, <2>4 DEF Command
<1>5. ASSUME Step PROVE Kinds'
  <2>1. CASE allocate_blocks
    <3>1. cmd' = cmd \/ \E s : cmd' = [cmd EXCEPT !.blocks = s]
      BY <2>1 DEF allocate_blocks, Fail
    <3>. QED  BY <1>1, <1>2, <3>1 DEF Locals
  <2>2. CASE cp_destination
    <3>1. cmd' = cmd \/ \E s : cmd' = [cmd EXCEPT !.parent = s]
      BY <2>2 DEF cp_destination, Fail
    <3>. QED  BY <1>1, <1>2, <3>1 DEF Locals
  <2>3. CASE AllocateInode
    <3>1. cmd' = cmd \/ \E s : cmd' = [cmd EXCEPT !.inode = s]
      BY <2>3 DEF AllocateInode, Fail
    <3>. QED  BY <1>1, <1>2, <3>1 DEF Locals
  <2>4. CASE EntryInExistingBlock \/ EntryInNewBlock
    <3>1. cmd' = cmd \/ cmd' = [cmd EXCEPT !.made = TRUE]
      BY <2>4 DEF EntryInExistingBlock, EntryInNewBlock, Fail
    <3>. QED  BY <1>1, <1>2, <3>1 DEF Locals
  <2>5. CASE \/ write_path_to_symlink_inode \/ EntryNowhere \/ count_link \/ cp_data
             \/ delete_child_entry \/ drop_link \/ release_inode \/ Killed
    BY <1>2, <2>5 DEF write_path_to_symlink_inode, EntryNowhere, count_link, cp_data,
                      delete_child_entry, drop_link, release_inode, Killed, Fail
  <2>6. CASE Return
    BY <1>3, <2>6 DEF Return
  <2>. QED  BY <1>5, <2>1, <2>2, <2>3, <2>4, <2>5, <2>6, AllocateNoInodeStrays DEF Step
<1>. QED  BY <1>2, <1>4, <1>5 DEF Next, vars

\* "." goes into the first block of the new directory.
LEMMA DotNames ==
    ASSUME IInv, IInv', NamesInv, MadeStep, pc = "dot",
           NEW e, e = Wanted, NEW i, NEW b, NEW o, Made(e, i, b, o)
    PROVE  NamesInv'
<1>1. pc' = "dotdot" /\ cmd.op = "mkdir" /\ cmd \in Locals /\ cmd.comps # <<>>
  BY AfterEntryIs DEF MadeStep, IInv, Control, Typed
<1>2. PICK k, d, name : k = cmd.inode /\ d = cmd.parent /\ name = listPeek(cmd.comps)
  OBVIOUS
<1>3. e.dir = k /\ e.inode = k /\ e.name = "." /\ e.type = "dir"
  BY <1>2 DEF Wanted
<1>4. /\ d \in inode_bitmap /\ k \in inode_bitmap /\ k # d
      /\ Nameless(k) /\ i_links_count[k] = 1 /\ Held(k) = {}
      /\ DirWithout(d, k) /\ (d \in Directories => ~HasName(d, name))
  BY <1>1, <1>2 DEF NamesInv, NamesControl
<1>5. /\ inode_bitmap' = inode_bitmap /\ cmd'.inode = k /\ cmd'.parent = d
      /\ cmd'.comps = cmd.comps /\ cmd'.op = "mkdir"
  BY <1>1, <1>2 DEF MadeStep, Locals
<1>6. k \in Inodes /\ d \in Inodes /\ name \in Names /\ "." \in Names /\ ".." \in Names
  <2>1. cmd.comps \in Seq(Names)
    BY DEF IInv, Typed, Locals
  <2>. QED  BY <1>1, <1>2, <1>4, <2>1, PopFacts, BlockAssumption DEF IInv, Typed
<1>7. \A j \in Slots : At(i_block, numbers, k, j) = 0
  BY <1>4, HeldIs
<1>8. \A j, q : ~Lists(k, j, q)
  BY <1>7 DEF Lists
<1>9. \A n \in Names : ~HasName(k, n)
  BY <1>4, <1>8, NamesListed DEF NameFacts
<1>10. Welcome(e)
  BY <1>3, <1>4, <1>6, <1>8, <1>9 DEF Welcome, Nameless
<1>11. DiskNames'
  BY <1>10, MadeDisk DEF NamesInv
<1>12. k \in Directories' /\ (d \in Directories' => d \in Directories)
  BY <1>3, <1>4, MadeDirectories
<1>13. LinksCover'
  BY <1>1, <1>3, <1>4, <1>6, <1>12, MadeLinks DEF NamesInv
<1>14. i = 0 /\ Attached(e, i, b)
  <2>1. /\ i \in Slots /\ 0 \in Slots /\ Slots \subseteq Nat /\ 0 < INDIRECT1_INDEX
        /\ b \in Blocks /\ 0 \notin Blocks
    BY Bounds, KeptIs DEF Made
  <2>2. /\ \A j \in Slots : At(i_block, numbers, e.dir, j) = 0 => i <= j
        /\ At(i_block', numbers', e.dir, i) =
              IF i < INDIRECT1_INDEX \/ i_block[e.dir][INDIRECT1_INDEX] # 0 THEN b ELSE 0
    BY <1>3, <1>7, <2>1 DEF Made
  <2>3. i <= 0 /\ i >= 0
    BY <1>3, <1>7, <2>1, <2>2
  <2>. QED  BY <2>1, <2>2, <2>3 DEF Attached
<1>15. Held(k)' \subseteq {0}
  <2>1. \A j \in Slots : j # 0 => At(i_block', numbers', k, j) = 0
    BY <1>3, <1>6, <1>7, <1>14 DEF Made
  <2>. QED  BY <2>1, HeldIs
<1>16. DirWithout(d, k)'
  BY <1>4, <1>6, MadeWithout
<1>17. k \notin Directories /\ k # RootInode
  BY <1>4, DirectoryIs DEF Nameless
<1>18. Nascent(k, d)'
  BY <1>3, <1>6, <1>7, <1>12, <1>14, <1>17, MadeNascent
<1>19. ~HasName(k, "..")'
  BY <1>3, <1>4, <1>6, <1>9, MadeHas
<1>20. d \in Directories' => ~HasName(d, name)'
  BY <1>3, <1>4, <1>6, <1>12, MadeHas
<1>21. /\ Held(cmd.inode)' = Held(k)'
       /\ DirWithout(cmd.parent, cmd.inode)' <=> DirWithout(d, k)'
       /\ Nascent(cmd.inode, cmd.parent)' <=> Nascent(k, d)'
       /\ HasName(cmd.inode, "..")' <=> HasName(k, "..")'
       /\ HasName(cmd.parent, listPeek(cmd.comps))' <=> HasName(d, name)'
  BY <1>2, <1>5, LocalsPrimed
<1>22. NamesControl'
  BY <1>1, <1>4, <1>5, <1>15, <1>16, <1>18, <1>19, <1>20, <1>21 DEF NamesControl
<1>. QED  BY <1>11, <1>13, <1>22 DEF NamesInv

\* ".." goes there too.
LEMMA DotDotNames ==
    ASSUME IInv, IInv', NamesInv, MadeStep, pc = "dotdot",
           NEW e, e = Wanted, NEW i, NEW b, NEW o, Made(e, i, b, o)
    PROVE  NamesInv'
<1>1. pc' = "entry" /\ cmd.op = "mkdir" /\ cmd \in Locals /\ cmd.comps # <<>>
  BY AfterEntryIs DEF MadeStep, IInv, Control, Typed
<1>2. PICK k, d, name : k = cmd.inode /\ d = cmd.parent /\ name = listPeek(cmd.comps)
  OBVIOUS
<1>3. e.dir = k /\ e.inode = d /\ e.name = ".." /\ e.type = "dir"
  BY <1>2 DEF Wanted
<1>4. /\ d \in inode_bitmap /\ k \in inode_bitmap /\ k # d
      /\ Nascent(k, d) /\ ~HasName(k, "..")
      /\ DirWithout(d, k) /\ (d \in Directories => ~HasName(d, name))
  BY <1>1, <1>2 DEF NamesInv, NamesControl
<1>5. /\ inode_bitmap' = inode_bitmap /\ cmd'.inode = k /\ cmd'.parent = d
      /\ cmd'.comps = cmd.comps /\ cmd'.op = "mkdir"
  BY <1>1, <1>2 DEF MadeStep, Locals
<1>6. k \in Inodes /\ d \in Inodes /\ name \in Names /\ ".." \in Names
  <2>1. cmd.comps \in Seq(Names)
    BY DEF IInv, Typed, Locals
  <2>. QED  BY <1>1, <1>2, <1>4, <2>1, PopFacts, BlockAssumption DEF IInv, Typed
<1>7. k \in Directories /\ k # RootInode
  BY <1>4 DEF Nascent
<1>8. d \in Directories
  BY <1>4, DirectoryIs DEF DirWithout
<1>9. Welcome(e)
  BY <1>3, <1>4, <1>6, <1>7, <1>8 DEF Welcome
<1>10. DiskNames'
  BY <1>9, MadeDisk DEF NamesInv
<1>11. d \in Directories' /\ k \in Directories'
  BY <1>7, <1>8, MadeDirectories
<1>12. LinksCover'
  BY <1>1, <1>3, <1>4, <1>6, <1>11, MadeLinks DEF NamesInv
<1>13. DirWithout(d, k)'
  BY <1>4, <1>6, MadeWithout
<1>14. Nascent(k, d)'
  BY <1>3, <1>4, <1>6, <1>7, <1>11, MadeNascent
<1>15. ~HasName(d, name)'
  BY <1>3, <1>4, <1>6, <1>8, MadeHas
<1>16. /\ DirWithout(cmd.parent, cmd.inode)' <=> DirWithout(d, k)'
       /\ Nascent(cmd.inode, cmd.parent)' <=> Nascent(k, d)'
       /\ HasName(cmd.parent, listPeek(cmd.comps))' <=> HasName(d, name)'
  BY <1>2, <1>5, LocalsPrimed
<1>17. NamesControl'
  BY <1>1, <1>4, <1>5, <1>13, <1>14, <1>15, <1>16 DEF NamesControl
<1>. QED  BY <1>10, <1>12, <1>17 DEF NamesInv

\* The entry that names the inode.
LEMMA EntryNames ==
    ASSUME IInv, IInv', NamesInv, Kinds, MadeStep, pc = "entry",
           NEW e, e = Wanted, NEW i, NEW b, NEW o, Made(e, i, b, o)
    PROVE  NamesInv'
<1>1. /\ cmd.op \in {"cp", "ln", "ln_s", "mkdir"} /\ cmd \in Locals /\ cmd.comps # <<>>
      /\ pc' = CASE cmd.op = "cp" -> "write" [] cmd.op = "ln" -> "count" [] OTHER -> "ok"
  <2>1. /\ cmd.op \in {"cp", "ln", "ln_s", "mkdir"} /\ cmd \in Locals /\ cmd.comps # <<>>
    BY DEF IInv, Control, Typed
  <2>. QED  BY <2>1 DEF MadeStep, AfterEntry
<1>2. PICK k, d, name : k = cmd.inode /\ d = cmd.parent /\ name = listPeek(cmd.comps)
  OBVIOUS
<1>3. e.dir = d /\ e.inode = k /\ e.name = name /\ e.type = cmd.type
  BY <1>2 DEF Wanted
<1>4. /\ d \in inode_bitmap /\ k \in inode_bitmap
      /\ d \in Directories => ~HasName(d, name)
  BY <1>1, <1>2 DEF NamesInv, NamesControl
<1>5. /\ inode_bitmap' = inode_bitmap /\ cmd'.inode = k /\ cmd'.parent = d
      /\ cmd'.comps = cmd.comps /\ cmd'.op = cmd.op /\ cmd'.exists = cmd.exists
      /\ cmd'.made = TRUE
  BY <1>1, <1>2 DEF MadeStep, Locals
<1>6. k \in Inodes /\ d \in Inodes /\ name \in Names
  <2>1. cmd.comps \in Seq(Names)
    BY DEF IInv, Typed, Locals
  <2>. QED  BY <1>1, <1>2, <1>4, <2>1, PopFacts DEF IInv, Typed
<1>7. /\ cmd.op = "mkdir" => e.type = "dir" /\ k \in Directories /\ d \in Directories
      /\ cmd.op # "mkdir" => e.type # "dir" /\ k \notin Directories
  <2>1. ASSUME cmd.op = "mkdir" PROVE e.type = "dir" /\ k \in Directories /\ d \in Directories
    <3>1. Nascent(k, d) /\ DirWithout(d, k)
      BY <1>2, <2>1 DEF NamesInv, NamesControl
    <3>2. k \in Directories /\ d \in Directories
      BY <3>1, DirectoryIs DEF Nascent, DirWithout
    <3>. QED  BY <1>3, <2>1, <3>2 DEF Kinds
  <2>2. ASSUME cmd.op # "mkdir" PROVE e.type # "dir" /\ k \notin Directories
    BY <1>1, <1>2, <1>3, <2>2 DEF Kinds, NamesInv, NamesControl, Nameless
  <2>. QED  BY <2>1, <2>2
<1>8. Welcome(e)
  BY <1>3, <1>4, <1>6, <1>7 DEF Welcome
<1>9. DiskNames'
  BY <1>8, MadeDisk DEF NamesInv
<1>10. k \in Directories' <=> k \in Directories
  BY <1>3, <1>7, MadeDirectories
<1>11. pc' # "drop"
  BY <1>1
<1>12. \/ e.inode \in Directories'
       \/ Uncounted(e.inode)' = 1
       \/ NamesOf(e.inode) = {} /\ i_links_count[e.inode] = 1
  <2>1. CASE cmd.op = "mkdir"
    BY <1>3, <1>7, <1>10, <2>1
  <2>2. CASE cmd.op = "ln"
    BY <1>1, <1>3, <1>5, <2>2 DEF Uncounted
  <2>3. CASE cmd.op \in {"cp", "ln_s"}
    BY <1>2, <1>3, <2>3 DEF NamesInv, NamesControl, Nameless
  <2>. QED  BY <1>1, <2>1, <2>2, <2>3
<1>13. LinksCover'
  BY <1>3, <1>4, <1>6, <1>11, <1>12, MadeLinks DEF NamesInv
<1>14. NamesControl'
  <2>1. CASE cmd.op = "cp"
    <3>1. k # d /\ Held(k) = {} /\ ~cmd.exists
      BY <1>2, <2>1 DEF NamesInv, NamesControl
    <3>2. Held(k)' = {}
      BY <1>3, <1>6, <3>1, MadeHeld
    <3>3. Held(cmd.inode)' = Held(k)'
      BY <1>2, <1>5, LocalsPrimed
    <3>4. pc' = "write" /\ k \notin Directories'
      BY <1>1, <1>7, <1>10, <2>1
    <3>. QED  BY <1>4, <1>5, <2>1, <3>2, <3>3, <3>4 DEF NamesControl
  <2>2. CASE cmd.op = "ln"
    <3>1. pc' = "count"
      BY <1>1, <2>2
    <3>. QED  BY <1>4, <1>5, <3>1 DEF NamesControl
  <2>3. CASE cmd.op \in {"ln_s", "mkdir"}
    <3>1. pc' = "ok"
      BY <1>1, <2>3
    <3>. QED  BY <3>1 DEF NamesControl
  <2>. QED  BY <1>1, <2>1, <2>2, <2>3
<1>. QED  BY <1>9, <1>13, <1>14 DEF NamesInv

\* make_entry_in_inode keeps the invariant.
LEMMA MakeEntryNames ==
    IInv /\ IInv' /\ NamesInv /\ Kinds /\ (EntryInExistingBlock \/ EntryInNewBlock) => NamesInv'
<1>. SUFFICES ASSUME IInv, IInv', NamesInv, Kinds, EntryInExistingBlock \/ EntryInNewBlock
              PROVE  NamesInv'
  OBVIOUS
<1>1. PICK e : e = Wanted
  OBVIOUS
<1>2. ASSUME NEW i, NEW b, NEW o, MadeStep, Made(e, i, b, o) PROVE NamesInv'
  <2>1. pc \in {"dot", "dotdot", "entry"}
    BY <1>2 DEF MadeStep
  <2>. QED  BY <1>1, <1>2, <2>1, DotNames, DotDotNames, EntryNames
<1>3. CASE EntryInExistingBlock
  BY <1>1, <1>2, <1>3, ExistingMade
<1>4. CASE EntryInNewBlock /\ ~Fail
  BY <1>1, <1>2, <1>4, NewMade
<1>5. CASE EntryInNewBlock /\ Fail
  <2>1. pc \notin {"count", "drop"}
    BY <1>5 DEF EntryInNewBlock
  <2>. QED  BY <1>5, <2>1, OverNames
<1>. QED  BY <1>3, <1>4, <1>5

-----------------------------------------------------------------------------
(* Taking an entry out *)

\* What RemoveEntry does when only one entry has the name.
LEMMA RemoveShape ==
    ASSUME NEW block, IsChain(block, Inodes), Tiles(block), NEW name,
           NEW o \in DOMAIN block, block[o].name = name,
           \A q \in DOMAIN block : block[q].name = name => q = o
    PROVE  LET left == RemoveEntry(block, name)
           IN  /\ \A q \in DOMAIN left : q \in DOMAIN block
               /\ \A q \in DOMAIN left : q # o => Alike(left[q], block[q])
               /\ \A q \in DOMAIN block : q # o => q \in DOMAIN left
               /\ o \in DOMAIN left => /\ left[o].name = Unnamed
                                       /\ left[o].file_type = block[o].file_type
<1>. DEFINE left == RemoveEntry(block, name)
            prev == Max({q \in DOMAIN block : q < o})
<1>1. \A q \in DOMAIN block : q \in Nat /\ block[q] \in ext2_dir_entry_2(Inodes)
  BY BlockAssumption DEF IsChain
<1>2. Matching(block, name) = {o}
  BY DEF Matching, entry_name_comparison
<1>3. Min(Matching(block, name)) = o
  BY <1>1, <1>2, MinOfNats
<1>4. CASE o = 0
  <2>1. left = [block EXCEPT ![0].name = Unnamed]
    BY <1>3, <1>4 DEF RemoveEntry
  <2>2. /\ DOMAIN left = DOMAIN block /\ \A q \in DOMAIN block : q # 0 => left[q] = block[q]
        /\ left[0] = [block[0] EXCEPT !.name = Unnamed]
    BY <1>4, <2>1
  <2>3. left[0].name = Unnamed /\ left[0].file_type = block[0].file_type
    BY <1>1, <1>4, <2>2 DEF ext2_dir_entry_2
  <2>. HIDE DEF left
  <2>. QED  BY <1>4, <2>2, <2>3 DEF Alike, left
<1>5. CASE o # 0
  <2>1. left = [q \in DOMAIN block \ {o} |->
                  IF q = prev
                  THEN [block[q] EXCEPT !.rec_len = (@ + block[o].rec_len) % (USHRT_MAX + 1)]
                  ELSE block[q]]
    BY <1>3, <1>5 DEF RemoveEntry
  <2>. HIDE DEF left, prev
  <2>2. DOMAIN left = DOMAIN block \ {o}
    BY <2>1
  <2>3. ASSUME NEW q \in DOMAIN left PROVE Alike(left[q], block[q])
    <3>1. CASE q = prev
      <4>1. left[q] = [block[q] EXCEPT
                         !.rec_len = (block[q].rec_len + block[o].rec_len) % (USHRT_MAX + 1)]
        BY <2>1, <2>2, <3>1
      <4>2. block[q] \in ext2_dir_entry_2(Inodes)
        BY <1>1, <2>2
      <4>. QED  BY <4>1, <4>2 DEF ext2_dir_entry_2, Alike
    <3>2. CASE q # prev
      BY <2>1, <2>2, <3>2 DEF Alike
    <3>. QED  BY <3>1, <3>2
  <2>. QED  BY <2>2, <2>3 DEF left
<1>. QED  BY <1>4, <1>5

\* Entry o of block b, slot i of inode d, has lost its name or is gone; the
\* block is, too, if it is freed.
Unmade(d, i, b, o) ==
    /\ d \in inode_bitmap /\ d \in Inodes /\ i \in Slots /\ b \in Blocks
    /\ b = At(i_block, numbers, d, i) /\ o \in DOMAIN dirents[b]
    /\ b \in block_bitmap /\ dirents[b][o].name # Unnamed
    /\ block_bitmap' \subseteq block_bitmap
    /\ \A c \in block_bitmap' : \A q \in DOMAIN dirents'[c] :
          /\ q \in DOMAIN dirents[c]
          /\ ~(c = b /\ q = o) => Alike(dirents'[c][q], dirents[c][q])
    /\ b \in block_bitmap' /\ o \in DOMAIN dirents'[b] =>
          /\ dirents'[b][o].name = Unnamed
          /\ dirents'[b][o].file_type = dirents[b][o].file_type
    /\ \A c \in block_bitmap : \A q \in DOMAIN dirents[c] :
          ~(c = b /\ q = o) /\ dirents[c][q].name # Unnamed =>
              c \in block_bitmap' /\ q \in DOMAIN dirents'[c]
    /\ \A x \in Inodes : \A j \in Slots :
          \/ At(i_block', numbers', x, j) = At(i_block, numbers, x, j)
          \/ At(i_block', numbers', x, j) = 0 /\ x = d /\ j = i /\ b \notin block_bitmap'

\* What the step leaves alone, and where it goes.
UnmadeStep ==
    /\ pc = "unlink" /\ pc' = "drop" /\ cmd' = cmd
    /\ inode_bitmap' = inode_bitmap /\ free_inodes_count' = free_inodes_count
    /\ i_links_count' = i_links_count

\* delete_child_entry takes out the entry that was found.
LEMMA ChildUnmade ==
    ASSUME IInv, IInv', NamesInv, delete_child_entry
    PROVE  /\ UnmadeStep
           /\ \E i, b, o : /\ Unmade(cmd.parent, i, b, o) /\ Lists(cmd.parent, i, o)
                           /\ Says(cmd.parent, i, o).inode = cmd.inode
                           /\ Says(cmd.parent, i, o).file_type # "dir"
                           /\ Says(cmd.parent, i, o).name = listPeek(cmd.comps)
<1>1. pc = "unlink" /\ UnmadeStep
  BY DEF delete_child_entry, UnmadeStep
<1>2. PICK d, name : d = cmd.parent /\ name = listPeek(cmd.comps)
  OBVIOUS
<1>. DEFINE slot == find_matching_pair(d, name)[1]
            b    == get_inode_block_number(d, slot)
            left == RemoveEntry(dirents[b], name)
            f    == [SlotsOf(d) EXCEPT ![slot] = 0]
<1>3. /\ dirents' = [dirents EXCEPT ![b] = left]
      /\ \/ /\ is_entry_block_empty(left)
            /\ set_inode_block_number(d, f, numbers)
            /\ block_bitmap' = set_bitmap_val(block_bitmap, {b}, FALSE)
         \/ UNCHANGED <<i_block, numbers, block_bitmap, free_blocks_count>>
  BY <1>2 DEF delete_child_entry
<1>4. /\ d \in Inodes /\ name \in Names /\ slot \in Slots /\ b \in Blocks
      /\ b = At(i_block, numbers, d, slot) /\ b \in block_bitmap
  BY <1>1, <1>2, UnlinkFacts
<1>5. /\ d \in Directories /\ d \in inode_bitmap
      /\ find_matching_entry(d, name).inode = cmd.inode
      /\ find_matching_entry(d, name).file_type # "dir"
      /\ HasName(d, name) /\ b # 0
  <2>1. /\ d \in Directories
        /\ find_matching_entry(d, name).inode = cmd.inode
        /\ find_matching_entry(d, name).file_type # "dir"
    BY <1>1, <1>2 DEF NamesInv, NamesControl
  <2>2. HasName(d, name)
    BY <1>1, <1>2 DEF IInv, Control
  <2>. QED  BY <1>4, <2>1, <2>2, Bounds DEF NamesInv, DiskNames, LiveDirs
<1>6. PICK i, o : Lists(d, i, o) /\ Says(d, i, o).name = name
  BY <1>4, <1>5, NamesListed DEF NameFacts
<1>7. find_matching_pair(d, name) = <<i, o>> /\ find_matching_entry(d, name) = Says(d, i, o)
  BY <1>4, <1>5, <1>6, Finding DEF FindFacts, NamesInv
<1>8. slot = i
  BY <1>7
<1>. HIDE DEF slot
<1>9. /\ o \in DOMAIN dirents[b] /\ dirents[b][o].name = name /\ Says(d, i, o) = dirents[b][o]
      /\ name # Unnamed
  BY <1>4, <1>6, <1>8, UnnamedAssumption DEF Lists, Says
<1>10. \A q \in DOMAIN dirents[b] : dirents[b][q].name = name => q = o
  <2>1. SUFFICES ASSUME NEW q \in DOMAIN dirents[b], dirents[b][q].name = name PROVE q = o
    OBVIOUS
  <2>2. Lists(d, i, q) /\ Says(d, i, q).name = name
    BY <1>4, <1>5, <1>8, <1>9, <2>1 DEF Lists, Says
  <2>3. EachOnce
    BY OnceIs DEF NamesInv, DiskNames
  <2>. QED  BY <1>5, <1>6, <2>2, <2>3 DEF EachOnce
<1>11. IsChain(dirents[b], Inodes) /\ Tiles(dirents[b])
  <2>1. Good(dirents[b], data[b])
    BY <1>4, <1>5, PlaceFacts, KeptIs
  <2>. QED  BY <1>4, <2>1 DEF IInv, Typed, Good
<1>12. /\ \A q \in DOMAIN left : q \in DOMAIN dirents[b]
       /\ \A q \in DOMAIN left : q # o => Alike(left[q], dirents[b][q])
       /\ \A q \in DOMAIN dirents[b] : q # o => q \in DOMAIN left
       /\ o \in DOMAIN left => /\ left[o].name = Unnamed
                               /\ left[o].file_type = dirents[b][o].file_type
  <2>. HIDE DEF b
  <2>. QED  BY <1>4, <1>9, <1>10, <1>11, RemoveShape
<1>13. f \in [Slots -> Numbers] /\ f[slot] = 0
       /\ \A j \in Slots : j # slot => f[j] = At(i_block, numbers, d, j)
  <2>. HIDE DEF b
  <2>. QED  BY <1>4, SlotsOfIs DEF Numbers
<1>. HIDE DEF left, b, f
<1>14. /\ dirents'[b] = left /\ block_bitmap \subseteq Blocks
       /\ \A c \in Blocks : c # b => dirents'[c] = dirents[c]
  <2>1. DOMAIN dirents = Blocks /\ block_bitmap \subseteq Blocks
    BY DEF IInv, Typed
  <2>. QED  BY <1>3, <1>4, <2>1
<1>15. Unmade(d, i, b, o)
  <2>1. CASE UNCHANGED <<i_block, numbers, block_bitmap, free_blocks_count>>
    <3>1. /\ block_bitmap' = block_bitmap
          /\ \A x \in Inodes : \A j \in Slots :
                At(i_block', numbers', x, j) = At(i_block, numbers, x, j)
      BY <2>1
    <3>2. /\ \A c \in block_bitmap' : \A q \in DOMAIN dirents'[c] :
                /\ q \in DOMAIN dirents[c]
                /\ ~(c = b /\ q = o) => Alike(dirents'[c][q], dirents[c][q])
          /\ \A c \in block_bitmap : \A q \in DOMAIN dirents[c] :
                ~(c = b /\ q = o) => c \in block_bitmap' /\ q \in DOMAIN dirents'[c]
      <4>1. ASSUME NEW c \in block_bitmap, c # b PROVE dirents'[c] = dirents[c]
        BY <1>14, <4>1
      <4>2. \A q \in DOMAIN dirents'[b] :
              q \in DOMAIN dirents[b] /\ (q # o => Alike(dirents'[b][q], dirents[b][q]))
        BY <1>12, <1>14
      <4>3. \A q \in DOMAIN dirents[b] : q # o => q \in DOMAIN dirents'[b]
        BY <1>12, <1>14
      <4>. QED  BY <3>1, <4>1, <4>2, <4>3 DEF Alike
    <3>. QED  BY <1>4, <1>5, <1>8, <1>9, <1>12, <1>14, <3>1, <3>2 DEF Unmade
  <2>2. CASE /\ is_entry_block_empty(left)
             /\ set_inode_block_number(d, f, numbers)
             /\ block_bitmap' = set_bitmap_val(block_bitmap, {b}, FALSE)
    <3>1. block_bitmap' = block_bitmap \ {b}
      BY <2>2 DEF set_bitmap_val
    <3>2. Moved(d, f)
      <4>1. numbers \in NumType /\ SameInUse(numbers)
        BY DEF IInv, Typed, NumType, SameInUse
      <4>. QED  BY <1>4, <1>13, <2>2, <4>1, SetFacts
    <3>3. \A x \in Inodes : \A j \in Slots :
            \/ At(i_block', numbers', x, j) = At(i_block, numbers, x, j)
            \/ At(i_block', numbers', x, j) = 0 /\ x = d /\ j = i
      <4>1. SUFFICES ASSUME NEW x \in Inodes, NEW j \in Slots
                     PROVE  \/ At(i_block', numbers', x, j) = At(i_block, numbers, x, j)
                            \/ At(i_block', numbers', x, j) = 0 /\ x = d /\ j = i
        OBVIOUS
      <4>2. j \in Kept /\ j # INODE_BLOCK_LIMIT
        BY KeptIs
      <4>3. CASE x # d
        BY <3>2, <4>2, <4>3 DEF Moved
      <4>4. CASE x = d /\ (j < INDIRECT1_INDEX \/ i_block[d][INDIRECT1_INDEX] # 0)
        <5>1. At(i_block', numbers', x, j) = f[j]
          BY <1>4, <3>2, <4>2, <4>4 DEF Moved
        <5>. QED  BY <1>8, <1>13, <4>4, <5>1
      <4>5. CASE x = d /\ ~(j < INDIRECT1_INDEX \/ i_block[d][INDIRECT1_INDEX] # 0)
        <5>1. At(i_block', numbers', x, j) = 0
          BY <1>4, <3>2, <4>2, <4>5 DEF Moved
        <5>2. At(i_block, numbers, x, j) = 0
          BY <4>2, <4>5 DEF At, NumberIn
        <5>. QED  BY <5>1, <5>2
      <4>. QED  BY <4>3, <4>4, <4>5
    <3>4. \A c \in block_bitmap' : \A q \in DOMAIN dirents'[c] :
             q \in DOMAIN dirents[c] /\ Alike(dirents'[c][q], dirents[c][q])
      <4>1. ASSUME NEW c \in block_bitmap' PROVE dirents'[c] = dirents[c]
        BY <1>14, <3>1
      <4>. QED  BY <4>1 DEF Alike
    <3>5. \A q \in DOMAIN dirents[b] : q # o => dirents[b][q].name = Unnamed
      BY <1>12, <2>2 DEF is_entry_block_empty, Alike
    <3>6. \A c \in block_bitmap : \A q \in DOMAIN dirents[c] :
             ~(c = b /\ q = o) /\ dirents[c][q].name # Unnamed =>
                 c \in block_bitmap' /\ q \in DOMAIN dirents'[c]
      <4>1. ASSUME NEW c \in block_bitmap, c # b
            PROVE  c \in block_bitmap' /\ dirents'[c] = dirents[c]
        BY <1>14, <3>1, <4>1
      <4>. QED  BY <3>5, <4>1
    <3>. QED  BY <1>4, <1>5, <1>8, <1>9, <3>1, <3>3, <3>4, <3>6 DEF Unmade
  <2>. QED  BY <1>3, <2>1, <2>2
<1>. QED  BY <1>1, <1>2, <1>5, <1>6, <1>7, <1>15

\* What is in the slots, then.
LEMMA UnmadeHolds ==
    ASSUME IInv, IInv', NEW d, NEW i, NEW b, NEW o, Unmade(d, i, b, o)
    PROVE  \A x, j, q : Holds(x, j, q)' =>
              /\ Holds(x, j, q) /\ At(i_block', numbers', x, j) = At(i_block, numbers, x, j)
              /\ ~(x = d /\ j = i /\ q = o) => Alike(Says(x, j, q)', Says(x, j, q))
              /\ x = d /\ j = i /\ q = o =>
                    /\ Says(x, j, q)'.name = Unnamed
                    /\ Says(x, j, q)'.file_type = Says(x, j, q).file_type
<1>. SUFFICES ASSUME NEW x, NEW j, NEW q, Holds(x, j, q)'
              PROVE  /\ Holds(x, j, q)
                     /\ At(i_block', numbers', x, j) = At(i_block, numbers, x, j)
                     /\ ~(x = d /\ j = i /\ q = o) => Alike(Says(x, j, q)', Says(x, j, q))
                     /\ x = d /\ j = i /\ q = o =>
                           /\ Says(x, j, q)'.name = Unnamed
                           /\ Says(x, j, q)'.file_type = Says(x, j, q).file_type
  OBVIOUS
<1>. DEFINE c == At(i_block', numbers', x, j)
<1>1. x \in Inodes /\ j \in Slots /\ j \in Kept /\ c # 0 /\ q \in DOMAIN dirents'[c]
  BY KeptIs DEF Holds
<1>2. c = At(i_block, numbers, x, j)
  BY <1>1 DEF Unmade
<1>3. c \in block_bitmap'
  <2>1. OneOwner' <=> Owned(i_block, numbers, block_bitmap, InHand)'
    BY OwnedIs, PTL
  <2>2. OneOwner'
    BY DEF IInv
  <2>. QED  BY <1>1, <2>1, <2>2 DEF Owned
<1>. HIDE DEF c
<1>4. /\ q \in DOMAIN dirents[c]
      /\ ~(c = b /\ q = o) => Alike(dirents'[c][q], dirents[c][q])
  BY <1>1, <1>3 DEF Unmade
<1>5. Holds(x, j, q) /\ Says(x, j, q)' = dirents'[c][q] /\ Says(x, j, q) = dirents[c][q]
  BY <1>1, <1>2, <1>4 DEF Holds, Says, c
<1>6. c = b <=> x = d /\ j = i
  <2>1. /\ b = At(i_block, numbers, d, i) /\ b # 0 /\ d \in Inodes /\ i \in Kept
    BY KeptIs, Bounds DEF Unmade
  <2>2. Owned(i_block, numbers, block_bitmap, InHand)
    BY OwnedIs DEF IInv
  <2>. QED  BY <1>1, <1>2, <2>1, <2>2 DEF Owned
<1>7. c = b /\ q = o =>
        dirents'[c][q].name = Unnamed /\ dirents'[c][q].file_type = dirents[c][q].file_type
  BY <1>1, <1>3 DEF Unmade
<1>. QED  BY <1>2, <1>4, <1>5, <1>6, <1>7 DEF c

\* The directories do not change: the entry was no directory's, and a block
\* with a directory's entry is not freed.
LEMMA UnmadeDirectories ==
    ASSUME IInv, DirsNamed, NEW d, NEW i, NEW b, NEW o, Unmade(d, i, b, o),
           dirents[b][o].file_type # "dir"
    PROVE  Directories' = Directories
<1>1. ASSUME NEW c, NEW q, NEW k, Declares(c, q, k) PROVE Declares(c, q, k)'
  <2>1. ~(c = b /\ q = o) /\ c \in block_bitmap /\ q \in DOMAIN dirents[c]
    BY <1>1 DEF Declares
  <2>2. dirents[c][q].name # Unnamed
    BY <1>1 DEF DirsNamed, Declares
  <2>3. c \in block_bitmap' /\ q \in DOMAIN dirents'[c]
    BY <2>1, <2>2 DEF Unmade
  <2>4. Alike(dirents'[c][q], dirents[c][q])
    BY <2>1, <2>3 DEF Unmade
  <2>. QED  BY <1>1, <2>3, <2>4 DEF Declares, Alike
<1>2. ASSUME NEW c, NEW q, NEW k, Declares(c, q, k)' PROVE Declares(c, q, k)
  <2>1. c \in block_bitmap' /\ q \in DOMAIN dirents'[c]
    BY <1>2 DEF Declares
  <2>2. c \in block_bitmap /\ q \in DOMAIN dirents[c]
    BY <2>1 DEF Unmade
  <2>3. ~(c = b /\ q = o)
    BY <1>2, <2>1 DEF Unmade, Declares
  <2>4. Alike(dirents'[c][q], dirents[c][q])
    BY <2>1, <2>3 DEF Unmade
  <2>. QED  BY <1>2, <2>2, <2>4 DEF Declares, Alike
<1>. QED  BY <1>1, <1>2, DirectoryIs

\* The names, then: all but one.
LEMMA UnmadeLists ==
    ASSUME IInv, IInv', UnmadeStep, NEW d, NEW i, NEW b, NEW o, Unmade(d, i, b, o)
    PROVE  \A x, j, q : Lists(x, j, q)' =>
              /\ Lists(x, j, q) /\ ~(x = d /\ j = i /\ q = o)
              /\ Alike(Says(x, j, q)', Says(x, j, q))
<1>1. NamesHeld /\ NamesHeld'
  BY ListsHeld, ListsPrimed
<1>2. inode_bitmap' = inode_bitmap
  BY DEF UnmadeStep
<1>3. \A x, j, q : Holds(x, j, q)' =>
         /\ Holds(x, j, q)
         /\ ~(x = d /\ j = i /\ q = o) => Alike(Says(x, j, q)', Says(x, j, q))
         /\ x = d /\ j = i /\ q = o => Says(x, j, q)'.name = Unnamed
  BY UnmadeHolds
<1>. QED  BY <1>1, <1>2, <1>3 DEF NamesHeld, Alike

\* ext2_rm's first step keeps the invariant.
LEMMA UnlinkNames == IInv /\ IInv' /\ NamesInv /\ delete_child_entry => NamesInv'
<1>. SUFFICES ASSUME IInv, IInv', NamesInv, delete_child_entry PROVE NamesInv'
  OBVIOUS
<1>1. UnmadeStep
  BY ChildUnmade
<1>2. PICK i, b, o : /\ Unmade(cmd.parent, i, b, o) /\ Lists(cmd.parent, i, o)
                     /\ Says(cmd.parent, i, o).inode = cmd.inode
                     /\ Says(cmd.parent, i, o).file_type # "dir"
  BY ChildUnmade
<1>3. PICK d, k : d = cmd.parent /\ k = cmd.inode
  OBVIOUS
<1>4. /\ Unmade(d, i, b, o) /\ Lists(d, i, o)
      /\ Says(d, i, o).inode = k /\ dirents[b][o].file_type # "dir"
  BY <1>2, <1>3 DEF Unmade, Says
<1>5. /\ pc = "unlink" /\ pc' = "drop" /\ cmd' = cmd /\ inode_bitmap' = inode_bitmap
      /\ free_inodes_count' = free_inodes_count /\ i_links_count' = i_links_count
  BY <1>1 DEF UnmadeStep
<1>6. k \in inode_bitmap /\ k \notin Directories
  BY <1>3, <1>5 DEF NamesInv, NamesControl
<1>7. Directories' = Directories
  BY <1>4, UnmadeDirectories DEF NamesInv, DiskNames
<1>8. \A x, j, q : Lists(x, j, q)' =>
         /\ Lists(x, j, q) /\ ~(x = d /\ j = i /\ q = o)
         /\ Alike(Says(x, j, q)', Says(x, j, q))
  BY <1>1, <1>4, UnmadeLists
<1>9. DiskNames'
  <2>1. LiveDirs'
    BY <1>5, <1>7 DEF NamesInv, DiskNames, LiveDirs
  <2>2. EachLive'
    <3>1. EachLive
      BY LiveIs DEF NamesInv, DiskNames
    <3>. QED  BY <1>5, <1>8, <3>1 DEF EachLive, Alike
  <2>3. EachKind'
    <3>1. EachKind
      BY KindIs DEF NamesInv, DiskNames
    <3>. QED  BY <1>7, <1>8, <3>1 DEF EachKind, Alike
  <2>4. EachOnce'
    <3>1. EachOnce
      BY OnceIs DEF NamesInv, DiskNames
    <3>. QED  BY <1>7, <1>8, <3>1 DEF EachOnce, Alike
  <2>5. DirsNamed'
    <3>1. SUFFICES ASSUME NEW c \in block_bitmap', NEW q \in DOMAIN dirents'[c],
                          dirents'[c][q].file_type = "dir"
                   PROVE  dirents'[c][q].name # Unnamed
      BY DEF DirsNamed
    <3>2. ~(c = b /\ q = o)
      BY <1>4, <3>1 DEF Unmade
    <3>3. /\ c \in block_bitmap /\ q \in DOMAIN dirents[c]
          /\ Alike(dirents'[c][q], dirents[c][q])
      BY <1>4, <3>2 DEF Unmade
    <3>. QED  BY <3>1, <3>3 DEF NamesInv, DiskNames, DirsNamed, Alike
  <2>6. EachInside'
    <3>1. SUFFICES ASSUME NEW x \in Inodes, NEW j \in Slots, At(i_block', numbers', x, j) # 0,
                          NEW q \in DOMAIN dirents'[At(i_block', numbers', x, j)],
                          dirents'[At(i_block', numbers', x, j)][q].file_type = "dir"
                   PROVE  x \in Directories'
      BY DEF EachInside
    <3>2. Holds(x, j, q)' /\ Says(x, j, q)'.file_type = "dir"
      BY <3>1 DEF Holds, Says
    <3>3. Holds(x, j, q) /\ Says(x, j, q).file_type = "dir"
      BY <1>4, <3>2, UnmadeHolds DEF Alike
    <3>4. EachInside
      BY InsideIs DEF NamesInv, DiskNames
    <3>. QED  BY <1>7, <3>3, <3>4 DEF EachInside, Holds, Says
  <2>7. Agreeing'
    <3>1. \A x \in Inodes \ inode_bitmap : \A j \in Slots : At(i_block', numbers', x, j) = 0
      <4>1. SUFFICES ASSUME NEW x \in Inodes, x \notin inode_bitmap, NEW j \in Slots
                     PROVE  At(i_block', numbers', x, j) = 0
        OBVIOUS
      <4>2. At(i_block, numbers, x, j) = 0
        BY <4>1, FreeHoldsNothing DEF NamesInv, DiskNames
      <4>. QED  BY <1>4, <4>2 DEF Unmade
    <3>. QED  BY <1>5, <3>1, SameFree DEF NamesInv, DiskNames
  <2>8. Living' /\ OneKind' /\ UniqueNames' /\ DirsInside'
    BY <2>1, <2>2, <2>3, <2>4, <2>6, EachPrimed, InsidePrimed
  <2>. QED  BY <2>1, <2>5, <2>7, <2>8 DEF DiskNames
<1>10. LinksCover'
  <2>1. SUFFICES ASSUME NEW m \in Inodes, m \notin Directories PROVE Covered(m)'
    BY <1>7, CoverIs
  <2>. DEFINE e   == <<d, <<i, o>>>>
              old == Cardinality(NamesOf(m))
              new == Cardinality(NamesOf(m)')
              n   == i_links_count[m]
  <2>2. NamesOf(m)' \subseteq NamesOf(m) \ {e}
    <3>1. SUFFICES ASSUME NEW x \in NamesOf(m)' PROVE x \in NamesOf(m) /\ x # e
      OBVIOUS
    <3>2. PICK z, j, q : x = <<z, <<j, q>>>>
      BY NamesOfAll
    <3>3. Lists(z, j, q)' /\ Says(z, j, q)'.inode = m
      BY <3>2, NamesOfIs
    <3>4. Lists(z, j, q) /\ Says(z, j, q).inode = m /\ ~(z = d /\ j = i /\ q = o)
      BY <1>8, <3>3 DEF Alike
    <3>. QED  BY <3>2, <3>4, NamesOfIs
  <2>3. Covered(m)
    BY <2>1, CoverIs DEF NamesInv
  <2>4. /\ Pending(m) = 0 /\ Uncounted(m) = 0 /\ Uncounted(m)' = 0
        /\ Pending(m)' = IF m = k THEN 1 ELSE 0
    BY <1>3, <1>5 DEF Pending, Uncounted
  <2>5. old \in Nat /\ new \in Nat /\ n \in Nat
    BY CountFacts
  <2>6. old + 0 <= n + 0
    BY <2>3, <2>4 DEF Covered
  <2>7. IsFiniteSet(NamesOf(m))
    BY NamesFinite DEF NamesCounted
  <2>8. CASE m = k
    <3>1. e \in NamesOf(m)
      BY <1>4, <2>8, NamesOfIs
    <3>. DEFINE less == NamesOf(m) \ {e}
    <3>2. IsFiniteSet(less) /\ Cardinality(less) = old - 1
      BY <2>7, <3>1, FS_RemoveElement
    <3>3. new <= Cardinality(less)
      <4>1. NamesOf(m)' \subseteq less
        BY <2>2
      <4>. HIDE DEF less
      <4>. QED  BY <3>2, <4>1, FS_Subset
    <3>4. new + 1 <= n + 0
      <4>. HIDE DEF less, old, new, n
      <4>. QED  BY <2>5, <2>6, <3>2, <3>3
    <3>. QED  BY <1>5, <2>4, <2>8, <3>4 DEF Covered
  <2>9. CASE m # k
    <3>1. new <= old
      <4>1. NamesOf(m)' \subseteq NamesOf(m)
        BY <2>2
      <4>. QED  BY <4>1, FewerNames
    <3>2. new + 0 <= n + 0
      <4>. HIDE DEF old, new, n
      <4>. QED  BY <2>5, <2>6, <3>1
    <3>. QED  BY <1>5, <2>4, <2>9, <3>2 DEF Covered
  <2>. QED  BY <2>8, <2>9
<1>11. NamesControl'
  BY <1>3, <1>5, <1>6, <1>7 DEF NamesControl
<1>. QED  BY <1>9, <1>10, <1>11 DEF NamesInv

-----------------------------------------------------------------------------
(* Freeing an inode *)

\* Inode k is freed, with the blocks in its slots.
Released(k) ==
    /\ k \in Inodes /\ k \in inode_bitmap
    /\ inode_bitmap' = inode_bitmap \ {k} /\ free_inodes_count' = free_inodes_count + 1
    /\ dirents' = dirents /\ i_links_count' = i_links_count
    /\ \A j \in Slots : At(i_block', numbers', k, j) = 0
    /\ \A x \in Inodes \ {k} : \A j \in Slots :
          At(i_block', numbers', x, j) = At(i_block, numbers, x, j)
    /\ block_bitmap' \subseteq block_bitmap
    /\ \A c \in block_bitmap : c \in block_bitmap' <=> Outside(c, k)

\* That is what free_inode does.
LEMMA InodeReleased ==
    ASSUME IInv, NamesInv, release_inode, NEW k, k = cmd.inode
    PROVE  Released(k)
<1>. DEFINE held == {i \in Slots : SlotsOf(k)[i] # 0}
            T == {SlotsOf(k)[i] : i \in held}
<1>1. /\ pc \in {"free", "undo"} /\ dirents' = dirents /\ i_links_count' = i_links_count
      /\ free_inode(k)
  BY DEF release_inode
<1>2. /\ block_bitmap' = block_bitmap \ T
      /\ inode_bitmap' = inode_bitmap \ {k}
      /\ free_inodes_count' = free_inodes_count + 1
      /\ set_inode_block_number(k, NoSlots, numbers)
  BY <1>1 DEF free_inode, set_bitmap_val
<1>3. k \in Inodes /\ k \in inode_bitmap
  BY <1>1 DEF IInv, Control, NamesInv, NamesControl
<1>4. /\ \A i \in Slots : At(i_block, numbers, k, i) # 0 => At(i_block, numbers, k, i) \in T
      /\ \A c \in T : \E i \in Slots : At(i_block, numbers, k, i) # 0
                                          /\ c = At(i_block, numbers, k, i)
  <2>1. \A i \in Slots : SlotsOf(k)[i] = At(i_block, numbers, k, i)
    BY <1>3, SlotsOfIs
  <2>2. \A c : c \in T <=> \E i \in Slots : SlotsOf(k)[i] # 0 /\ c = SlotsOf(k)[i]
    OBVIOUS
  <2>. HIDE DEF T, held
  <2>. QED  BY <2>1, <2>2
<1>. HIDE DEF T, held
<1>5. Moved(k, NoSlots)
  <2>1. numbers \in NumType /\ SameInUse(numbers)
    BY DEF IInv, Typed, NumType, SameInUse
  <2>. QED  BY <1>2, <1>3, <2>1, NoSlotsFacts, SetFacts
<1>6. \A j \in Slots : At(i_block', numbers', k, j) = 0
  BY <1>3, <1>5, KeptIs, NoSlotsFacts DEF Moved
<1>7. \A x \in Inodes \ {k} : \A j \in Slots :
         At(i_block', numbers', x, j) = At(i_block, numbers, x, j)
  BY <1>5, KeptIs DEF Moved
<1>8. ASSUME NEW c \in block_bitmap PROVE c \in T <=> ~Outside(c, k)
  <2>1. c # 0
    BY <1>8, Bounds DEF IInv, Typed
  <2>. QED  BY <1>4, <2>1 DEF Outside
<1>. QED  BY <1>1, <1>2, <1>3, <1>6, <1>7, <1>8 DEF Released

\* Nobody but the inode itself would miss it.
Dispensable(k) ==
    /\ k # RootInode
    /\ \A b, o : Declares(b, o, k) => ~Outside(b, k)
    /\ \A x, i, o : Lists(x, i, o) /\ Says(x, i, o).inode = k => x = k
    /\ \A x \in Directories : x # k => DirWithout(x, k)

\* A file without a name is dispensable.
LEMMA NamelessGoes ==
    ASSUME IInv, DiskNames, NEW k \in Inodes, Nameless(k)
    PROVE  Dispensable(k)
<1>1. k \notin Directories /\ NamesOf(k) = {}
  BY DEF Nameless
<1>2. k # RootInode /\ \A b, o : ~Declares(b, o, k)
  BY <1>1, DirectoryIs
<1>3. \A x, i, o : ~(Lists(x, i, o) /\ Says(x, i, o).inode = k)
  BY <1>1, NamesOfIs
<1>4. ASSUME NEW x \in Directories PROVE DirWithout(x, k)
  <2>1. CASE x = RootInode
    BY <2>1 DEF DirWithout
  <2>2. CASE x # RootInode
    <3>1. PICK b, o : Declares(b, o, x)
      BY <2>2, DirectoryIs
    <3>2. Outside(b, k)
      <4>1. SUFFICES ASSUME NEW i \in Slots, At(i_block, numbers, k, i) = b PROVE FALSE
        BY DEF Outside
      <4>2. b # 0 /\ b \in block_bitmap /\ o \in DOMAIN dirents[b]
            /\ dirents[b][o].file_type = "dir"
        BY <3>1, Bounds DEF Declares, IInv, Typed
      <4>3. EachInside
        BY InsideIs DEF DiskNames
      <4>4. k \in Directories
        BY <4>1, <4>2, <4>3 DEF EachInside
      <4>. QED  BY <1>1, <4>4
    <3>3. b \in block_bitmap /\ o \in DOMAIN dirents[b]
      BY <3>1 DEF Declares
    <3>. QED  BY <3>1, <3>2, <3>3 DEF DirWithout
  <2>. QED  BY <2>1, <2>2
<1>. QED  BY <1>2, <1>3, <1>4 DEF Dispensable

\* So is a directory that ext2_mkdir has not named.
LEMMA NascentGoes ==
    ASSUME IInv, DiskNames, NEW k \in Inodes, NEW d, Nascent(k, d), DirWithout(d, k)
    PROVE  Dispensable(k)
<1>1. k # RootInode /\ k \in Directories /\ \A b, o : Declares(b, o, k) => ~Outside(b, k)
  BY DEF Nascent, Declares
<1>2. ASSUME NEW x, NEW i, NEW o, Lists(x, i, o), Says(x, i, o).inode = k PROVE x = k
  <2>. DEFINE b == At(i_block, numbers, x, i)
  <2>1. /\ x \in Inodes /\ i \in Kept /\ b \in block_bitmap /\ b # 0
        /\ o \in DOMAIN dirents[b] /\ Says(x, i, o) = dirents[b][o]
    BY <1>2, EntryTypes DEF EntryFacts, Lists, Says
  <2>2. Says(x, i, o).file_type = "dir"
    <3>1. EachKind
      BY KindIs DEF DiskNames
    <3>. QED  BY <1>1, <1>2, <3>1 DEF EachKind
  <2>3. Declares(b, o, k)
    BY <1>2, <2>1, <2>2 DEF Declares
  <2>4. PICK j \in Slots : At(i_block, numbers, k, j) = b
    BY <1>1, <2>3 DEF Outside
  <2>5. Owned(i_block, numbers, block_bitmap, InHand)
    BY OwnedIs DEF IInv
  <2>. HIDE DEF b
  <2>. QED  BY <2>1, <2>4, <2>5, KeptIs DEF Owned, b
<1>3. ASSUME NEW x \in Directories, x # k PROVE DirWithout(x, k)
  <2>1. CASE x = RootInode
    BY <2>1 DEF DirWithout
  <2>2. CASE x # RootInode
    <3>1. PICK b, o : Declares(b, o, x)
      BY <2>2, DirectoryIs
    <3>2. b \in block_bitmap /\ o \in DOMAIN dirents[b] /\ dirents[b][o].inode = x
      BY <3>1 DEF Declares
    <3>3. CASE Outside(b, k)
      BY <3>1, <3>2, <3>3 DEF DirWithout
    <3>4. CASE ~Outside(b, k)
      <4>1. PICK i \in Slots : At(i_block, numbers, k, i) = b
        BY <3>4 DEF Outside
      <4>2. b # 0
        BY <3>2, Bounds DEF IInv, Typed
      <4>3. i \in Held(k) /\ get_inode_block_number(k, i) = b
        BY <4>1, <4>2, HeldIs
      <4>4. x \in {k, d}
        BY <3>2, <4>3 DEF Nascent
      <4>. QED  BY <1>3, <4>4
    <3>. QED  BY <3>3, <3>4
  <2>. QED  BY <2>1, <2>2
<1>. QED  BY <1>1, <1>2, <1>3 DEF Dispensable

\* What is released is dispensable.
LEMMA ReleasedGoes ==
    ASSUME IInv, NamesInv, pc \in {"free", "undo"}
    PROVE  Dispensable(cmd.inode)
<1>0. DiskNames
  BY DEF NamesInv
<1>1. PICK k \in Inodes : k = cmd.inode
  BY DEF IInv, Control
<1>2. CASE pc = "free"
  <2>1. k \notin Directories /\ i_links_count[k] = 0
    BY <1>1, <1>2 DEF NamesInv, NamesControl
  <2>2. Covered(k)
    BY <2>1, CoverIs DEF NamesInv
  <2>3. Pending(k) = 0 /\ Uncounted(k) = 0
    BY <1>2 DEF Pending, Uncounted
  <2>4. IsFiniteSet(NamesOf(k)) /\ Cardinality(NamesOf(k)) \in Nat
    BY NamesFinite DEF NamesCounted
  <2>5. Cardinality(NamesOf(k)) + 0 <= 0 + 0
    BY <2>1, <2>2, <2>3 DEF Covered
  <2>6. Cardinality(NamesOf(k)) = 0
    <3>. DEFINE n == Cardinality(NamesOf(k))
    <3>1. n \in Nat /\ n + 0 <= 0 + 0
      BY <2>4, <2>5
    <3>. HIDE DEF n
    <3>2. n = 0
      BY <3>1
    <3>. QED  BY <3>2 DEF n
  <2>7. NamesOf(k) = {}
    BY <2>4, <2>6, FS_EmptySet
  <2>. QED  BY <1>0, <1>1, <2>1, <2>7, NamelessGoes DEF Nameless
<1>3. CASE pc = "undo" /\ cmd.op = "ln_s"
  <2>1. Nameless(k)
    BY <1>1, <1>3 DEF NamesInv, NamesControl
  <2>. QED  BY <1>0, <1>1, <2>1, NamelessGoes
<1>4. CASE pc = "undo" /\ cmd.op = "mkdir"
  <2>1. PICK d : d = cmd.parent
    OBVIOUS
  <2>2. Nascent(k, d) /\ DirWithout(d, k)
    BY <1>1, <1>4, <2>1 DEF NamesInv, NamesControl
  <2>. QED  BY <1>0, <1>1, <2>2, NascentGoes
<1>. QED  BY <1>2, <1>3, <1>4 DEF IInv, Control

\* What a directory is, once the inode is gone.
LEMMA ReleasedDirectories ==
    ASSUME NEW k, Released(k), Dispensable(k)
    PROVE  Directories' = Directories \ {k}
<1>1. \A b, o, x : Declares(b, o, x)' <=> Declares(b, o, x) /\ Outside(b, k)
  BY DEF Released, Declares
<1>2. ASSUME NEW x, x \in Directories' PROVE x \in Directories /\ x # k
  <2>1. CASE x = RootInode
    BY <2>1, DirectoryIs DEF Dispensable
  <2>2. CASE x # RootInode
    <3>1. PICK b, o : Declares(b, o, x)'
      BY <1>2, <2>2, DirectoryIs
    <3>. QED  BY <1>1, <3>1, DirectoryIs DEF Dispensable
  <2>. QED  BY <2>1, <2>2
<1>3. ASSUME NEW x \in Directories, x # k PROVE x \in Directories'
  <2>1. CASE x = RootInode
    BY <2>1, DirectoryIs
  <2>2. CASE x # RootInode
    <3>1. DirWithout(x, k)
      BY <1>3 DEF Dispensable
    <3>2. PICK b, o : Declares(b, o, x) /\ Outside(b, k)
      BY <2>2, <3>1 DEF DirWithout
    <3>3. Declares(b, o, x)'
      BY <1>1, <3>2
    <3>. QED  BY <3>3, DirectoryIs
  <2>. QED  BY <2>1, <2>2
<1>. QED  BY <1>2, <1>3

\* The names that are left.
LEMMA ReleasedLists ==
    ASSUME IInv, NEW k, Released(k)
    PROVE  \A x, j, q : Lists(x, j, q)' => /\ Lists(x, j, q) /\ x # k
                                           /\ Says(x, j, q)' = Says(x, j, q)
<1>. SUFFICES ASSUME NEW x, NEW j, NEW q, Lists(x, j, q)'
              PROVE  Lists(x, j, q) /\ x # k /\ Says(x, j, q)' = Says(x, j, q)
  OBVIOUS
<1>1. x \in inode_bitmap /\ x # k /\ j \in Slots
  BY DEF Released, Lists
<1>2. x \in Inodes
  BY <1>1 DEF IInv, Typed
<1>3. At(i_block', numbers', x, j) = At(i_block, numbers, x, j)
  BY <1>1, <1>2 DEF Released
<1>4. dirents' = dirents
  BY DEF Released
<1>. QED  BY <1>1, <1>3, <1>4 DEF Lists, Says

\* The free inodes are counted, and hold nothing.
LEMMA ReleasedAgree ==
    ASSUME IInv, IInv', Agreeing, NEW k, Released(k)
    PROVE  Agreeing'
<1>. DEFINE old == Inodes \ inode_bitmap
            new == Inodes \ inode_bitmap'
<1>1. k \in Inodes /\ k \notin old /\ new = old \cup {k}
  BY DEF Released
<1>2. IsFiniteSet(old)
  BY Ext2Assumption, FS_Difference
<1>3. Cardinality(new) = Cardinality(old) + 1
  <2>. HIDE DEF old, new
  <2>. QED  BY <1>1, <1>2, FS_AddElement
<1>4. free_inodes_count' = Cardinality(new)
  BY <1>3 DEF Agreeing, Released
<1>5. ASSUME NEW x \in new PROVE Held(x)' = {}
  <2>1. \A j \in Slots : At(i_block', numbers', x, j) = 0
    <3>1. CASE x = k
      BY <3>1 DEF Released
    <3>2. CASE x # k
      <4>1. x \in Inodes /\ x \notin inode_bitmap
        BY <1>1, <1>5, <3>2
      <4>2. \A j \in Slots : At(i_block, numbers, x, j) = 0
        BY <4>1, FreeHoldsNothing
      <4>. QED  BY <3>2, <4>1, <4>2 DEF Released
    <3>. QED  BY <3>1, <3>2
  <2>. QED  BY <2>1, HeldIs
<1>. QED  BY <1>4, <1>5 DEF Agreeing

\* The disk is sound without the inode.
LEMMA ReleasedDisk ==
    ASSUME IInv, IInv', DiskNames, NEW k, Released(k), Dispensable(k)
    PROVE  DiskNames'
<1>1. Directories' = Directories \ {k}
  BY ReleasedDirectories
<1>2. \A x, j, q : Lists(x, j, q)' => /\ Lists(x, j, q) /\ x # k
                                      /\ Says(x, j, q)' = Says(x, j, q)
  BY ReleasedLists
<1>3. inode_bitmap' = inode_bitmap \ {k} /\ dirents' = dirents
  BY DEF Released
<1>4. LiveDirs'
  BY <1>1, <1>3 DEF DiskNames, LiveDirs
<1>5. EachLive'
  <2>1. EachLive
    BY LiveIs DEF DiskNames
  <2>. QED  BY <1>2, <1>3, <2>1 DEF EachLive, Dispensable
<1>6. EachKind'
  <2>1. EachKind
    BY KindIs DEF DiskNames
  <2>. QED  BY <1>1, <1>2, <2>1 DEF EachKind
<1>7. EachOnce'
  <2>1. EachOnce
    BY OnceIs DEF DiskNames
  <2>. QED  BY <1>1, <1>2, <2>1 DEF EachOnce
<1>8. DirsNamed'
  BY <1>3 DEF DiskNames, DirsNamed, Released
<1>9. EachInside'
  <2>1. SUFFICES ASSUME NEW x \in Inodes, NEW j \in Slots, At(i_block', numbers', x, j) # 0,
                        NEW q \in DOMAIN dirents'[At(i_block', numbers', x, j)],
                        dirents'[At(i_block', numbers', x, j)][q].file_type = "dir"
                 PROVE  x \in Directories'
    BY DEF EachInside
  <2>2. x # k
    BY <2>1 DEF Released
  <2>3. At(i_block', numbers', x, j) = At(i_block, numbers, x, j)
    BY <2>2 DEF Released
  <2>4. EachInside
    BY InsideIs DEF DiskNames
  <2>5. x \in Directories
    BY <1>3, <2>1, <2>3, <2>4 DEF EachInside
  <2>. QED  BY <1>1, <2>2, <2>5
<1>10. Agreeing'
  BY ReleasedAgree DEF DiskNames
<1>11. Living' /\ OneKind' /\ UniqueNames' /\ DirsInside'
  BY <1>4, <1>5, <1>6, <1>7, <1>9, EachPrimed, InsidePrimed
<1>. QED  BY <1>4, <1>8, <1>10, <1>11 DEF DiskNames

\* So are the link counts.
LEMMA ReleasedLinks ==
    ASSUME IInv, IInv', LinksCover, NEW k, Released(k), Dispensable(k),
           pc \notin {"count", "drop"}, pc' \notin {"count", "drop"}
    PROVE  LinksCover'
<1>. SUFFICES ASSUME NEW m \in Inodes, m \notin Directories' PROVE Covered(m)'
  BY CoverIs
<1>1. /\ Pending(m) = 0 /\ Uncounted(m) = 0 /\ Pending(m)' = 0 /\ Uncounted(m)' = 0
      /\ i_links_count' = i_links_count
  BY DEF Pending, Uncounted, Released
<1>. DEFINE old == Cardinality(NamesOf(m))
            new == Cardinality(NamesOf(m)')
            n   == i_links_count[m]
<1>2. old \in Nat /\ new \in Nat /\ n \in Nat
  BY CountFacts
<1>3. \A x, j, q : Lists(x, j, q)' => /\ Lists(x, j, q) /\ x # k
                                      /\ Says(x, j, q)' = Says(x, j, q)
  BY ReleasedLists
<1>4. new + 0 <= n + 0
  <2>1. CASE m = k
    <3>1. NamesOf(m)' = {}
      <4>1. SUFFICES ASSUME NEW e \in NamesOf(m)' PROVE FALSE
        OBVIOUS
      <4>2. PICK x, j, q : e = <<x, <<j, q>>>>
        BY NamesOfAll
      <4>3. Lists(x, j, q)' /\ Says(x, j, q)'.inode = k
        BY <2>1, <4>2, NamesOfIs
      <4>. QED  BY <1>3, <4>3 DEF Dispensable
    <3>2. new = 0
      BY <3>1, FS_EmptySet
    <3>. HIDE DEF new, n
    <3>. QED  BY <1>2, <3>2
  <2>2. CASE m # k
    <3>1. m \notin Directories
      BY <2>2, ReleasedDirectories
    <3>2. NamesOf(m)' \subseteq NamesOf(m)
      <4>1. SUFFICES ASSUME NEW e \in NamesOf(m)' PROVE e \in NamesOf(m)
        OBVIOUS
      <4>2. PICK x, j, q : e = <<x, <<j, q>>>>
        BY NamesOfAll
      <4>3. Lists(x, j, q)' /\ Says(x, j, q)'.inode = m
        BY <4>2, NamesOfIs
      <4>. QED  BY <1>3, <4>2, <4>3, NamesOfIs
    <3>3. new <= old
      BY <3>2, FewerNames
    <3>4. Covered(m)
      BY <3>1, CoverIs
    <3>5. old + 0 <= n + 0
      BY <1>1, <3>4 DEF Covered
    <3>. HIDE DEF old, new, n
    <3>. QED  BY <1>2, <3>3, <3>5
  <2>. QED  BY <2>1, <2>2
<1>. QED  BY <1>1, <1>4 DEF Covered

\* The last step of ext2_rm, and what takes back a new inode, keep the
\* invariant.
LEMMA ReleaseNames == IInv /\ IInv' /\ NamesInv /\ release_inode => NamesInv'
<1>. SUFFICES ASSUME IInv, IInv', NamesInv, release_inode PROVE NamesInv'
  OBVIOUS
<1>1. pc \in {"free", "undo"} /\ pc' \in {"ok", "exit"}
  BY DEF release_inode
<1>2. PICK k : k = cmd.inode
  OBVIOUS
<1>3. Released(k) /\ Dispensable(k)
  BY <1>1, <1>2, InodeReleased, ReleasedGoes
<1>4. DiskNames'
  BY <1>3, ReleasedDisk DEF NamesInv
<1>5. LinksCover'
  BY <1>1, <1>3, ReleasedLinks DEF NamesInv
<1>6. NamesControl'
  BY <1>1 DEF NamesControl
<1>. QED  BY <1>4, <1>5, <1>6 DEF NamesInv

-----------------------------------------------------------------------------
(* The names theorem *)

\* No command has an inode that is not in the table.
LEMMA NotKilled == IInv => ~Killed
BY InodeInTable DEF Killed, IInv, Control

\* Every step keeps the invariant.
LEMMA StepNames ==
    IInv /\ IInv' /\ NamesInv /\ Kinds /\ Countable /\ Step /\ ~strayed' => NamesInv'
<1>. SUFFICES ASSUME IInv, IInv', NamesInv, Kinds, Countable, Step, ~strayed'
              PROVE  NamesInv'
  OBVIOUS
<1>1. CASE allocate_blocks
  BY <1>1, AllocateBlocksNames
<1>2. CASE cp_destination
  BY <1>2, CpDestinationNames
<1>3. CASE AllocateInode
  BY <1>3, AllocateInodeNames
<1>4. CASE write_path_to_symlink_inode
  BY <1>4, WritePathNames
<1>5. CASE EntryInExistingBlock \/ EntryInNewBlock
  BY <1>5, MakeEntryNames
<1>6. CASE EntryNowhere
  BY <1>6, EntryNowhereNames
<1>7. CASE count_link
  BY <1>7, CountLinkNames
<1>8. CASE cp_data
  BY <1>8, CpDataNames
<1>9. CASE delete_child_entry
  BY <1>9, UnlinkNames
<1>10. CASE drop_link
  BY <1>10, DropLinkNames
<1>11. CASE release_inode
  BY <1>11, ReleaseNames
<1>12. CASE Return
  <2>1. pc \notin {"count", "drop"}
    BY <1>12 DEF Return
  <2>. QED  BY <1>12, <2>1, OverNames
<1>13. ~Killed
  BY NotKilled
<1>. QED  BY <1>1, <1>2, <1>3, <1>4, <1>5, <1>6, <1>7, <1>8, <1>9, <1>10, <1>11, <1>12,
             <1>13, AllocateNoInodeStrays
          DEF Step

\* So does standing still.
LEMMA SameNames == IInv /\ IInv' /\ NamesInv /\ UNCHANGED vars => NamesInv'
<1>. SUFFICES ASSUME IInv, IInv', NamesInv, UNCHANGED vars PROVE NamesInv'
  OBVIOUS
<1>1. /\ Still /\ i_links_count' = i_links_count /\ pc' = pc /\ cmd' = cmd
      /\ i_block' = i_block /\ numbers' = numbers /\ dirents' = dirents
      /\ inode_bitmap' = inode_bitmap /\ block_bitmap' = block_bitmap
  BY DEF vars, Still, diskVars, bitmapVars, inodeVars, blockVars
<1>2. DiskNames'
  BY <1>1, StillNames DEF NamesInv
<1>3. LinksCover'
  <2>1. SUFFICES ASSUME NEW m \in Inodes, m \notin Directories' PROVE Covered(m)'
    BY CoverIs
  <2>2. Covered(m)
    BY <1>1, <2>1, StillNames, CoverIs DEF NamesInv
  <2>3. Pending(m)' = Pending(m) /\ Uncounted(m)' = Uncounted(m)
    BY <1>1 DEF Pending, Uncounted
  <2>. DEFINE old == Cardinality(NamesOf(m))
              new == Cardinality(NamesOf(m)')
              n   == i_links_count[m]
              p   == Pending(m)
              u   == Uncounted(m)
  <2>4. old \in Nat /\ new \in Nat /\ n \in Nat /\ p \in Nat /\ u \in Nat
    BY CountFacts
  <2>5. new <= old
    BY <1>1, StillNames, FewerNames DEF NamesInv
  <2>6. old + p <= n + u
    BY <2>2 DEF Covered
  <2>7. new + p <= n + u
    <3>. HIDE DEF old, new, n, p, u
    <3>. QED  BY <2>4, <2>5, <2>6
  <2>. QED  BY <1>1, <2>3, <2>7 DEF Covered
<1>4. NamesControl'
  <2>1. PICK k, d, name, c : /\ k = cmd.inode /\ d = cmd.parent /\ name = listPeek(cmd.comps)
                             /\ c = cmd.comps
    OBVIOUS
  <2>2. /\ cmd'.inode = k /\ cmd'.parent = d /\ listPeek(cmd'.comps) = name /\ cmd'.comps = c
        /\ cmd'.op = cmd.op /\ cmd'.exists = cmd.exists /\ cmd'.made = cmd.made
    BY <1>1, <2>1
  <2>3. /\ Nameless(cmd.inode)' <=> Nameless(k)'
        /\ Held(cmd.inode)' = Held(k)'
        /\ DirWithout(cmd.parent, cmd.inode)' <=> DirWithout(d, k)'
        /\ Nascent(cmd.inode, cmd.parent)' <=> Nascent(k, d)'
        /\ HasName(cmd.inode, "..")' <=> HasName(k, "..")'
        /\ HasName(cmd.parent, listPeek(cmd.comps))' <=> HasName(d, name)'
    BY <2>2, LocalsPrimed
  <2>4. /\ Directories' = Directories
        /\ Nameless(k) => Nameless(k)'
        /\ Held(k)' = Held(k)
        /\ HasName(k, "..")' <=> HasName(k, "..")
        /\ HasName(d, name)' <=> HasName(d, name)
        /\ DirWithout(d, k) => DirWithout(d, k)'
        /\ Nascent(k, d) => Nascent(k, d)'
    BY <1>1, StillNames DEF NamesInv
  <2>5. c \in Seq(Names)
    BY <2>1 DEF IInv, Typed, Locals
  <2>6. traverse_path(c) = NULL => traverse_path(c)' = NULL
    BY <1>1, <2>5, StillNames DEF NamesInv
  <2>7. traverse_path(cmd.comps)' = traverse_path(c)'
    BY <2>2 DEF traverse_path
  <2>8. ASSUME pc = "unlink"
        PROVE  Alike(find_matching_entry(cmd.parent, listPeek(cmd.comps))',
                     find_matching_entry(d, name))
    <3>1. listPeek(cmd.comps)' = name
      BY <2>2 DEF listPeek
    <3>2. d \in Directories /\ c # <<>>
      BY <2>1, <2>8 DEF NamesInv, NamesControl, IInv, Control
    <3>4. name \in Names
      BY <2>1, <2>5, <3>2, PopFacts
    <3>5. SearchKept(d, name)
      <4>1. NoNewName /\ NoNameGone /\ DiskNames /\ DiskNames'
        BY <1>1, StillNames DEF NamesInv
      <4>. QED  BY <2>4, <3>2, <3>4, <4>1, SearchesKept
    <3>6. find_matching_entry(cmd.parent, listPeek(cmd.comps))' = find_matching_entry(d, name)'
      BY <2>2, <3>1 DEF find_matching_entry, find_matching_pair, Positions, EntryAt
    <3>. QED  BY <3>5, <3>6 DEF SearchKept, SameAnswer, Alike
  <2>9. NamesControl
    BY DEF NamesInv
  <2>. HIDE DEF NamesInv
  <2>10. /\ pc = "unlink" => /\ cmd'.parent \in Directories'
                             /\ find_matching_entry(cmd.parent, listPeek(cmd.comps))'.inode = k
                             /\ find_matching_entry(cmd.parent, listPeek(cmd.comps))'.file_type # "dir"
    BY <2>1, <2>2, <2>4, <2>8, <2>9 DEF NamesControl, Alike
  <2>11. /\ pc \in {"blocks", "parent"} /\ ~cmd.exists => traverse_path(cmd.comps)' = NULL
    BY <2>1, <2>6, <2>7, <2>9 DEF NamesControl
  <2>. QED  BY <1>1, <2>1, <2>2, <2>3, <2>4, <2>9, <2>10, <2>11 DEF NamesControl
<1>. QED  BY <1>2, <1>3, <1>4 DEF NamesInv

\* An image that is fit to have its names relied on: besides being sound, its
\* inode bitmap tells which inodes are used, names lead to used inodes,
\* entries agree on what is a directory and directories are entered in
\* directories, no directory has a name twice, and every file has a link for
\* each of its names.
SoundNames == DiskNames /\ Counted

\* The names that Counted counts.
LEMMA LinksCoverIs ==
    Counted <=> \A k \in Inodes \ Directories :
                            Cardinality(NamesOf(k)) <= i_links_count[k] + Uncounted(k)
BY DEF Counted, NamesOf, Uncounted

\* Such an image satisfies the invariant.
LEMMA InitNames == Init /\ Sound /\ SoundNames => NamesInv /\ Kinds
<1>. SUFFICES ASSUME Init, Sound, SoundNames PROVE NamesInv /\ Kinds
  OBVIOUS
<1>1. IInv
  BY InitIInv
<1>2. pc = "idle" /\ cmd = NoCommand
  BY DEF Init
<1>3. LinksCover
  <2>1. SUFFICES ASSUME NEW k \in Inodes, k \notin Directories PROVE Covered(k)
    BY CoverIs
  <2>. DEFINE n == Cardinality(NamesOf(k))
              l == i_links_count[k]
  <2>2. n <= l + Uncounted(k)
    BY <2>1, LinksCoverIs DEF SoundNames
  <2>3. n \in Nat
    BY <1>1, NamesFinite DEF NamesCounted
  <2>4. Pending(k) = 0
    BY <1>2 DEF Pending
  <2>5. n + 0 <= l + Uncounted(k)
    <3>. HIDE DEF n, l
    <3>. QED  BY <2>2, <2>3
  <2>. QED  BY <2>4, <2>5 DEF Covered
<1>4. NamesControl
  BY <1>2 DEF NamesControl
<1>5. Kinds
  BY <1>2 DEF Kinds, NoCommand
<1>. QED  BY <1>3, <1>4, <1>5 DEF NamesInv, SoundNames

\* The names stay sound, as long as no file has more links than its counter
\* can count.
THEOREM NamesInvariance ==
    Spec /\ Sound /\ SoundNames /\ [](strayed \/ Countable)
        => [](strayed \/ (NamesInv /\ Kinds))
<1>1. Init /\ Sound /\ SoundNames => NamesInv /\ Kinds
  BY InitNames
<1>2. IInv /\ IInv' /\ NamesInv /\ Kinds /\ Countable /\ [Next]_vars /\ ~strayed'
         => (NamesInv /\ Kinds)'
  BY CommandNames, StepNames, SameNames, KindsStep DEF Next
<1>. QED  BY <1>1, <1>2, Stays, Invariance, PTL DEF Spec

\* Room for links: the counters cannot come to their limit with the commands
\* that are left.
Room ==
    /\ MaxCommands + 1 < USHRT_MAX
    /\ \A k \in Inodes : i_links_count[k] + MaxCommands <= USHRT_MAX

\* The room there is while commands run.
Over == pc \in {"idle", "ok", "exit"}
RoomLeft ==
    /\ MaxCommands + 1 < USHRT_MAX
    /\ \A k \in Inodes : i_links_count[k] + (MaxCommands - commands) +
                             (IF Over THEN 0 ELSE 1) <= USHRT_MAX

\* A command that is given, runs or ends leaves room for those to come.
LEMMA RoomStep ==
    IInv /\ IInv' /\ NamesInv /\ RoomLeft /\ (Next \/ UNCHANGED vars) /\ ~strayed'
        => RoomLeft'
<1>. SUFFICES ASSUME IInv, IInv', NamesInv, RoomLeft, Next \/ UNCHANGED vars, ~strayed',
                     NEW k \in Inodes
              PROVE  i_links_count'[k] + (MaxCommands - commands') +
                             (IF Over' THEN 0 ELSE 1) <= USHRT_MAX
  BY DEF RoomLeft
<1>. DEFINE l == i_links_count[k]
            m == i_links_count'[k]
            left == MaxCommands - commands
<1>. SUFFICES m + (MaxCommands - commands') + (IF Over' THEN 0 ELSE 1) <= USHRT_MAX
  OBVIOUS
<1>1. /\ l \in Nat /\ m \in Nat /\ left \in Nat /\ MaxCommands \in Nat /\ left <= MaxCommands
      /\ commands \in Nat /\ commands' \in Nat /\ USHRT_MAX \in Nat
      /\ MaxCommands + 1 < USHRT_MAX
      /\ Over => l + left <= USHRT_MAX
      /\ ~Over => l + left + 1 <= USHRT_MAX
  <2>1. l \in Nat /\ m \in Nat
    BY CountFacts
  <2>2. commands \in 0 .. MaxCommands /\ commands' \in 0 .. MaxCommands /\ MaxCommands \in Nat
    BY Ext2Assumption DEF IInv, Typed
  <2>3. MaxCommands + 1 < USHRT_MAX /\ l + left + (IF Over THEN 0 ELSE 1) <= USHRT_MAX
    BY DEF RoomLeft
  <2>. HIDE DEF l, m
  <2>4. left \in Nat /\ left <= MaxCommands
    BY <2>2
  <2>. HIDE DEF left
  <2>. QED  BY <2>1, <2>2, <2>3, <2>4, ShortIsNat
<1>2. CASE m <= l /\ commands' = commands /\ (Over' \/ ~Over)
  <2>1. MaxCommands - commands' = left
    BY <1>2
  <2>. HIDE DEF l, m, left
  <2>. QED  BY <1>1, <1>2, <2>1
<1>3. CASE Command
  <2>1. /\ i_links_count' = i_links_count /\ commands' = commands + 1 /\ commands < MaxCommands
        /\ Over
    BY <1>3, CommandIsGiven DEF Asked, Given, inodeVars, Over
  <2>2. m = l
    BY <2>1
  <2>3. MaxCommands - commands' = left - 1
    BY <1>1, <2>1
  <2>. HIDE DEF l, m, left
  <2>. QED  BY <1>1, <2>1, <2>2, <2>3
<1>4. CASE count_link
  <2>1. Over' /\ commands' = commands /\ ~Over
    BY <1>4 DEF count_link, Over
  <2>2. m <= l + 1
    <3>1. m = IF k = cmd.inode THEN (l + 1) % (USHRT_MAX + 1) ELSE l
      BY <1>4 DEF count_link, IInv, Typed
    <3>2. l + 1 <= USHRT_MAX
      <4>. HIDE DEF l, left
      <4>. QED  BY <1>1, <2>1
    <3>. HIDE DEF l, m
    <3>3. l + 1 \in Nat
      BY <1>1
    <3>4. (l + 1) % (USHRT_MAX + 1) = l + 1
      BY <3>2, <3>3, NoWrap
    <3>. QED  BY <1>1, <3>1, <3>4
  <2>3. MaxCommands - commands' = left
    BY <2>1
  <2>. HIDE DEF l, m, left
  <2>. QED  BY <1>1, <2>1, <2>2, <2>3
<1>5. CASE AllocateInode
  <2>1. commands' = commands /\ ~Over
    BY <1>5 DEF AllocateInode, Fail, Over
  <2>2. m = l \/ m = 1
    BY <1>5 DEF AllocateInode, Fail, diskVars, inodeVars, IInv, Typed
  <2>3. MaxCommands - commands' = left
    BY <2>1
  <2>. HIDE DEF l, m, left
  <2>. QED  BY <1>1, <2>1, <2>2, <2>3
<1>6. CASE drop_link
  <2>1. commands' = commands /\ ~Over
    BY <1>6 DEF drop_link, Over
  <2>2. PICK j \in Inodes : j = cmd.inode
    BY <1>6 DEF drop_link, IInv, Control
  <2>3. IF k = j THEN m = l - 1 ELSE m = l
    BY <1>6, <2>2, LinkTaken
  <2>4. MaxCommands - commands' = left
    BY <2>1
  <2>. HIDE DEF l, m, left
  <2>. QED  BY <1>1, <2>1, <2>3, <2>4
<1>7. CASE \/ allocate_blocks \/ cp_destination \/ write_path_to_symlink_inode
           \/ EntryInExistingBlock \/ EntryInNewBlock \/ EntryNowhere
           \/ cp_data \/ delete_child_entry \/ release_inode \/ Killed \/ Return
  <2>1. /\ i_links_count' = i_links_count /\ commands' = commands /\ (Over' \/ ~Over)
    BY <1>7 DEF allocate_blocks, cp_destination, write_path_to_symlink_inode,
                EntryInExistingBlock, EntryInNewBlock, EntryNowhere, cp_data,
                delete_child_entry, release_inode, Killed, Return, Over, Fail, diskVars,
                inodeVars
  <2>2. m <= l
    BY <1>1, <2>1
  <2>. QED  BY <1>2, <2>1, <2>2
<1>8. CASE UNCHANGED vars
  <2>1. /\ i_links_count' = i_links_count /\ commands' = commands /\ (Over' \/ ~Over)
    BY <1>8 DEF vars, diskVars, inodeVars, Over
  <2>2. m <= l
    BY <1>1, <2>1
  <2>. QED  BY <1>2, <2>1, <2>2
<1>. QED  BY <1>3, <1>4, <1>5, <1>6, <1>7, <1>8, AllocateNoInodeStrays DEF Next, Step

\* With room at the start no count comes to the limit.
THEOREM NeverWraps == Spec /\ Sound /\ SoundNames /\ Room => [](strayed \/ Countable)
<1>1. Init /\ Sound /\ SoundNames /\ Room => NamesInv /\ Kinds /\ RoomLeft
  <2>1. ASSUME IInv, Init, Room PROVE RoomLeft
    <3>1. commands = 0 /\ Over /\ MaxCommands + 1 < USHRT_MAX /\ MaxCommands \in Nat
      BY <2>1, Ext2Assumption DEF Init, Room, Over
    <3>2. SUFFICES ASSUME NEW k \in Inodes
                   PROVE  i_links_count[k] + (MaxCommands - 0) + 0 <= USHRT_MAX
      BY <3>1 DEF RoomLeft
    <3>3. i_links_count[k] \in Nat /\ i_links_count[k] + MaxCommands <= USHRT_MAX
      BY <2>1, ShortIsNat DEF Room, IInv, Typed
    <3>. QED  BY <3>1, <3>3
  <2>. QED  BY <2>1, InitNames, InitIInv
<1>2. IInv /\ RoomLeft => Countable
  <2>1. SUFFICES ASSUME IInv, RoomLeft, pc = "count" PROVE i_links_count[cmd.inode] < USHRT_MAX
    BY DEF Countable
  <2>2. PICK k \in Inodes : k = cmd.inode
    BY <2>1 DEF IInv, Control
  <2>3. i_links_count[k] + (MaxCommands - commands) + 1 <= USHRT_MAX
    BY <2>1 DEF RoomLeft, Over
  <2>4. i_links_count[k] \in Nat /\ MaxCommands - commands \in Nat
    BY <2>1, Ext2Assumption, ShortIsNat DEF IInv, Typed
  <2>. QED  BY <2>2, <2>3, <2>4, ShortIsNat
<1>3. IInv /\ IInv' /\ NamesInv /\ Kinds /\ RoomLeft /\ [Next]_vars /\ ~strayed'
         => (NamesInv /\ Kinds /\ RoomLeft)'
  BY <1>2, CommandNames, StepNames, SameNames, KindsStep, RoomStep DEF Next
<1>. QED  BY <1>1, <1>2, <1>3, Stays, Invariance, PTL DEF Spec

\* ext2_rm and the commands that undo free an inode once, with all it has.
THEOREM InodesCounted ==
    Spec /\ Sound /\ SoundNames /\ [](strayed \/ Countable) => []InodesAgree
<1>1. NamesInv => InodesAgree
  BY DEF NamesInv, DiskNames, Agreeing, InodesAgree
<1>2. strayed => InodesAgree
  BY DEF InodesAgree
<1>. QED  BY <1>1, <1>2, NamesInvariance, PTL

\* No entry leads to an inode that has been freed.
THEOREM NamesLive ==
    Spec /\ Sound /\ SoundNames /\ [](strayed \/ Countable) => []LiveNames
<1>1. NamesInv => LiveNames
  BY DEF NamesInv, DiskNames, Living, LiveNames
<1>2. strayed => LiveNames
  BY DEF LiveNames
<1>. QED  BY <1>1, <1>2, NamesInvariance, PTL

\* A file has links for its names, so the last link goes with the last name.
THEOREM LinksSuffice ==
    Spec /\ Sound /\ SoundNames /\ [](strayed \/ Countable) => []LinksCoverNames
<1>1. Counted => LinksCoverNames
  BY DEF Counted, LinksCoverNames
<1>2. strayed => LinksCoverNames
  BY DEF LinksCoverNames
<1>3. IInv /\ NamesInv => Counted
  <2>1. SUFFICES ASSUME IInv, NamesInv, NEW k \in Inodes, k \notin Directories
                 PROVE  Cardinality(NamesOf(k)) <= i_links_count[k] + Uncounted(k)
    BY LinksCoverIs
  <2>2. Covered(k)
    BY <2>1, CoverIs DEF NamesInv
  <2>. DEFINE n == Cardinality(NamesOf(k))
              l == i_links_count[k]
              p == Pending(k)
              u == Uncounted(k)
  <2>3. n \in Nat /\ l \in Nat /\ p \in Nat /\ u \in Nat
    BY <2>1, NamesFinite, ShortIsNat DEF NamesCounted, IInv, Typed, Pending, Uncounted
  <2>4. n + p <= l + u
    BY <2>2 DEF Covered
  <2>5. n <= l + u
    <3>. HIDE DEF n, l, p, u
    <3>. QED  BY <2>3, <2>4
  <2>. QED  BY <2>5
<1>. QED  BY <1>1, <1>2, <1>3, NamesInvariance, Invariance, PTL

\* ext2_ls and traverse_path agree: a name is printed once, and the entry
\* printed is the one a search finds.
THEOREM ListedOnce ==
    Spec /\ Sound /\ SoundNames /\ [](strayed \/ Countable) => []LsOnce
<1>1. IInv /\ NamesInv => LsOnce
  <2>1. SUFFICES ASSUME IInv, NamesInv, NEW k \in Directories, NEW p \in Printed(k)
                 PROVE  find_matching_pair(k, EntryAt(k, p).name) = p
    BY DEF LsOnce, Printed
  <2>2. PICK i, o : p = <<i, o>>
    BY PrintedIs
  <2>3. k \in inode_bitmap
    BY <2>1 DEF NamesInv, DiskNames, LiveDirs
  <2>4. <<k, <<i, o>>>> \in NamedPositions
    BY <2>2, <2>3, NamedIs
  <2>5. Lists(k, i, o) /\ EntryAt(k, p) = Says(k, i, o)
    <3>1. Lists(k, i, o)
      BY <2>4, Listing
    <3>2. i \in Slots
      BY <3>1 DEF Lists
    <3>. QED  BY <2>2, <3>1, <3>2, Listing
  <2>6. Says(k, i, o).name \in Names
    BY <2>1, <2>5, EntryTypes DEF EntryFacts
  <2>7. FindFacts
    BY <2>1, Finding DEF NamesInv
  <2>. QED  BY <2>2, <2>5, <2>6, <2>7 DEF FindFacts
<1>2. strayed => LsOnce
  BY DEF LsOnce
<1>. QED  BY <1>1, <1>2, NamesInvariance, Invariance, PTL
=============================================================================
