-------------------------------- MODULE Ext2 --------------------------------
(***************************************************************************)
(* The ext2 tools of assignment 3: ext2_cp, ext2_ln, ext2_mkdir and        *)
(* ext2_rm on a disk image, with the helpers they share (a3/ext2_helper.h).*)
(* One tool runs at a time and works on the image itself (mmap,            *)
(* MAP_SHARED), so what it has written when it calls exit() stays written: *)
(* a command is therefore a sequence of steps, one for each helper it      *)
(* calls, and pc says which one is next.  i_mode, i_size, i_blocks, the    *)
(* times and bg_used_dirs_count are written and never read by a tool; they *)
(* are left out.                                                           *)
(***************************************************************************)
EXTENDS DirBlock, Sequences

CONSTANTS
    Blocks, Inodes,        \* the block and inode numbers of the image
    LAST_RESERVED_BLOCK, LAST_RESERVED_INODE,
    RootInode,             \* inode 2
    INDIRECT1_INDEX,       \* direct block numbers of an inode
    BLOCK_NUMS_PER_BLOCK,  \* block numbers of its indirect block
    Images,                \* the disk images the tools are given
    Paths,                 \* the paths in the image they are given
    HostFiles,             \* [host path -> size in blocks], for ext2_cp
    HostDirSizes,          \* what a host directory's size may come to, in blocks
    Spelled,               \* [content -> the entries its bytes spell]; others spell none
    MaxCommands            \* bound on the commands given

ASSUME Ext2Assumption ==
    /\ Blocks \subseteq Nat \ {0} /\ IsFiniteSet(Blocks)
    /\ Inodes \subseteq Nat \ {0} /\ IsFiniteSet(Inodes)
    /\ LAST_RESERVED_BLOCK \in Nat /\ LAST_RESERVED_INODE \in Nat
    /\ RootInode \in Inodes
    /\ INDIRECT1_INDEX \in Nat \ {0}
    /\ BLOCK_NUMS_PER_BLOCK \in Nat \ {0}
    /\ Paths \subseteq Seq(Names)
    /\ DOMAIN HostFiles \subseteq Seq(Names)
    /\ HostFiles \in [DOMAIN HostFiles -> Nat]
    /\ HostDirSizes \subseteq Nat
    /\ MaxCommands \in Nat

INODE_BLOCK_LIMIT == INDIRECT1_INDEX + BLOCK_NUMS_PER_BLOCK
Slots == 0 .. INODE_BLOCK_LIMIT - 1

Numbers == Blocks \cup {0}
Indices == 0 .. BLOCK_NUMS_PER_BLOCK - 1

\* What a block holds when it is not directory entries or block numbers: part
\* number part of host file of, or the path of a symbolic link, or what is left
\* of either when entries have been written into it.
Contents == [kind : {"zero", "file", "path", "mixed"}, of : Seq(Names), part : Nat]
Zeroes == [kind |-> "zero", of |-> <<>>, part |-> 0]
Mixed == [Zeroes EXCEPT !.kind = "mixed"]
NoNumbers == [j \in Indices |-> 0]

\* Text of six characters or more spells one long entry, whose inode number is
\* none of the table's; a file can be made to spell anything.
ASSUME SpelledAssumption ==
    \A content \in DOMAIN Spelled :
        /\ content \in Contents /\ content.kind \in {"file", "path"}
        /\ IsSpelledChain(Spelled[content], Inodes) /\ Spelling(Spelled[content])

ASSUME ImagesAssumption ==
    \A image \in Images :
        /\ image.block_bitmap \subseteq Blocks
        /\ image.inode_bitmap \subseteq Inodes
        /\ image.i_links_count \in [Inodes -> 0 .. USHRT_MAX]
        /\ image.i_block \in [Inodes -> [0 .. INDIRECT1_INDEX -> Numbers]]
        /\ image.numbers \in [Blocks -> [Indices -> Numbers]]
        /\ IsFcn(image.dirents) /\ DOMAIN image.dirents = Blocks
        /\ \A b \in Blocks : IsChain(image.dirents[b], Inodes)
        /\ image.data \in [Blocks -> Contents]

VARIABLES
    block_bitmap, inode_bitmap,  \* the blocks and inodes marked as used
    free_blocks_count,           \* super block and group descriptor alike
    free_inodes_count,
    i_links_count, i_block,      \* of each inode
    dirents,   \* each block read as a chain of directory entries (DirBlock)
    numbers,   \* each block read as an array of block numbers
    data,      \* each block read as file content
    strayed,   \* content has been taken for directory entries, or no inode for one
    pc,        \* the running command's next step; "ok" or "exit": its result
    cmd,       \* its local variables
    commands   \* commands given so far

bitmapVars == <<block_bitmap, inode_bitmap, free_blocks_count, free_inodes_count>>
inodeVars  == <<i_links_count, i_block>>
blockVars  == <<dirents, numbers, data>>
diskVars   == <<bitmapVars, inodeVars, blockVars>>
vars       == <<block_bitmap, inode_bitmap, free_blocks_count,
                free_inodes_count, i_links_count, i_block, dirents, numbers,
                data, strayed, pc, cmd, commands>>

NULL == [inode |-> 0, rec_len |-> 0, name |-> Unnamed, file_type |-> "none"]

\* op: the command; comps: the components of the path it works on; src: the
\* path to copy or link; parent, inode: inode numbers; type: of the entry it
\* makes; size, readable: of ext2_cp's source, and what fread gets of it, in
\* blocks; blocks: the ones it allocated; exists: the destination is already
\* there; made: attempt # NULL.
NoCommand == [op |-> "none", comps |-> <<>>, src |-> <<>>, parent |-> 0,
              inode |-> 0, type |-> "none", blocks |-> <<>>, size |-> 0,
              readable |-> 0, exists |-> FALSE, made |-> FALSE]

-----------------------------------------------------------------------------
(* Reading the disk *)

get_inode_block_number(k, i) ==
    IF i < INDIRECT1_INDEX THEN i_block[k][i]
    ELSE LET indirect == i_block[k][INDIRECT1_INDEX]
         IN  IF indirect = 0 THEN 0 ELSE numbers[indirect][i - INDIRECT1_INDEX]

\* Entry o of block slot i of inode k, wherever there is one.
Positions(k) ==
    UNION {{<<i, o>> : o \in DOMAIN dirents[get_inode_block_number(k, i)]} :
              i \in {j \in Slots : get_inode_block_number(k, j) # 0}}

EntryAt(k, p) == dirents[get_inode_block_number(k, p[1])][p[2]]

Before(p, q) == p[1] < q[1] \/ (p[1] = q[1] /\ p[2] < q[2])

\* The first position whose entry has this name, when there is one.
find_matching_pair(k, name) ==
    CHOOSE p \in Positions(k) :
        /\ entry_name_comparison(EntryAt(k, p), name)
        /\ \A q \in Positions(k) :
              entry_name_comparison(EntryAt(k, q), name) => ~Before(q, p)

find_matching_entry(k, name) ==
    IF \E p \in Positions(k) : entry_name_comparison(EntryAt(k, p), name)
    THEN EntryAt(k, find_matching_pair(k, name))
    ELSE NULL

is_directory(entry) == entry.file_type = "dir"

\* Only a directory is looked into; anything else ends the path, and the
\* entry counts when the path ends there.  No components: no entry.
traverse_path(comps) ==
    LET entry[n \in 0 .. Len(comps)] ==
            IF n = 0 THEN [NULL EXCEPT !.inode = RootInode, !.file_type = "dir"]
            ELSE IF ~is_directory(entry[n - 1]) THEN NULL
            ELSE find_matching_entry(entry[n - 1].inode, comps[n])
    IN  IF comps = <<>> THEN NULL ELSE entry[Len(comps)]

split_path(path) == <<".">> \o path

listRemove(list, index) ==
    SubSeq(list, 1, index - 1) \o SubSeq(list, index + 1, Len(list))

\* The list that is left after a pop; the value popped is listPeek's.
listPop(list) == listRemove(list, Len(list))
listPeek(list) == list[Len(list)]
listAppend(list, value) == Append(list, value)

\* strtok has put a NUL behind the first component of the caller's string.
LeftByStrtok(path) == IF path = <<>> THEN path ELSE <<Head(path)>>

\* What ext2_ls prints for a directory: the positions of the names.
print_dir_contents(k, show_dots) ==
    UNION {{<<i, o>> : o \in print_block_contents(
                                dirents[get_inode_block_number(k, i)], show_dots)} :
              i \in {j \in Slots : get_inode_block_number(k, j) # 0}}

-----------------------------------------------------------------------------
(* Content read as entries.  A block of content has no entries in dirents as *)
(* long as nobody asks for them (ContentUnread).  A command that copies onto *)
(* a directory, or takes a file or a link for one, makes dirents say what    *)
(* the bytes of every such block spell, and from then on it always does.     *)

IsContent(c) == c.kind \in {"file", "path"}
Spells(c) == IF c \in DOMAIN Spelled THEN Spelled[c] ELSE EmptyBlock

\* entries, with the blocks of content spelled out if any is taken for entries.
TakenForEntries(stray, entries, content) ==
    /\ strayed' = (strayed \/ stray)
    /\ dirents' = IF strayed \/ stray
                  THEN [b \in Blocks |-> IF IsContent(content[b]) THEN Spells(content[b])
                                         ELSE entries[b]]
                  ELSE entries

\* Entries are written into block b: any content it had is spoilt.
Spoilt(b) == IF IsContent(data[b]) THEN [data EXCEPT ![b] = Mixed] ELSE data

\* The inodes that an entry says are directories.
Directories ==
    {RootInode} \cup
    UNION {{dirents[b][o].inode : o \in {x \in DOMAIN dirents[b] :
                                          dirents[b][x].file_type = "dir"}} :
              b \in block_bitmap}

-----------------------------------------------------------------------------
(* Allocating and freeing: what the steps below are made of *)

\* A bitmap is the set of the numbers whose bit is 1.
get_bitmap_val(bitmap, n) == n \in bitmap
set_bitmap_val(bitmap, ns, value) == IF value THEN bitmap \cup ns ELSE bitmap \ ns

\* Bit b read instead of bit b - 1.
FreeBlocks_Shifted ==
    {b \in Blocks : b > LAST_RESERVED_BLOCK /\ ~get_bitmap_val(block_bitmap, b + 1)}

FreeBlocks ==
    {b \in Blocks : b > LAST_RESERVED_BLOCK /\ ~get_bitmap_val(block_bitmap, b)}
FreeInodes ==
    {k \in Inodes : k > LAST_RESERVED_INODE /\ ~get_bitmap_val(inode_bitmap, k)}

\* The n lowest free blocks, in order: none if the counter promised more free
\* blocks than the bitmap has, and the scan does not end.
FirstFree(n) ==
    {s \in [1 .. n -> FreeBlocks] :
        /\ \A i, j \in 1 .. n : i < j => s[i] < s[j]
        /\ \A b \in FreeBlocks, i \in 1 .. n :
              b < s[i] => \E j \in 1 .. n : s[j] = b}

\* f with the blocks of s zeroed, seen as what f reads blocks as.
Zeroed(f, s, zero) ==
    [b \in Blocks |-> IF \E i \in DOMAIN s : s[i] = b THEN zero ELSE f[b]]

MarkUsed_OneMore(s) ==
    /\ block_bitmap' = set_bitmap_val(block_bitmap, {s[i] : i \in DOMAIN s}, TRUE)
    /\ free_blocks_count' = free_blocks_count - (Len(s) + 1)

\* The bits are not set.
MarkUsed_CountOnly(s) ==
    /\ free_blocks_count' = free_blocks_count - Len(s)
    /\ UNCHANGED block_bitmap

\* Blocks s are taken: marked bits, lowered counters.
MarkUsed(s) ==
    /\ block_bitmap' = set_bitmap_val(block_bitmap, {s[i] : i \in DOMAIN s}, TRUE)
    /\ free_blocks_count' = free_blocks_count - Len(s)

\* The block numbers of inode k become f, a function on Slots.  An index that
\* needs the indirect block is ignored when k has none.  nums: the arrays of
\* block numbers as they are before.
set_inode_block_number(k, f, nums) ==
    LET indirect == i_block[k][INDIRECT1_INDEX]
    IN  /\ i_block' = [i_block EXCEPT ![k] =
                          [i \in 0 .. INDIRECT1_INDEX |->
                              IF i = INDIRECT1_INDEX THEN indirect ELSE f[i]]]
        /\ numbers' = IF indirect = 0 THEN nums
                      ELSE [nums EXCEPT ![indirect] =
                              [j \in Indices |->
                                  f[INDIRECT1_INDEX + j]]]

SlotsOf(k) == [i \in Slots |-> get_inode_block_number(k, i)]
NoSlots == [i \in Slots |-> 0]

\* Absent block numbers are not skipped.
free_inode_AllSlots(k) ==
    LET held == {i \in Slots : SlotsOf(k)[i] # 0}
    IN  /\ block_bitmap' = set_bitmap_val(block_bitmap, {SlotsOf(k)[i] : i \in held}, FALSE)
        /\ free_blocks_count' = free_blocks_count + Cardinality(Slots)
        /\ inode_bitmap' = set_bitmap_val(inode_bitmap, {k}, FALSE)
        /\ free_inodes_count' = free_inodes_count + 1
        /\ set_inode_block_number(k, NoSlots, numbers)

\* The loop stops before index 0.
free_inode_NotFirst(k) ==
    LET held == {i \in Slots \ {0} : SlotsOf(k)[i] # 0}
    IN  /\ block_bitmap' = set_bitmap_val(block_bitmap, {SlotsOf(k)[i] : i \in held}, FALSE)
        /\ free_blocks_count' = free_blocks_count + Cardinality(held)
        /\ inode_bitmap' = set_bitmap_val(inode_bitmap, {k}, FALSE)
        /\ free_inodes_count' = free_inodes_count + 1
        /\ set_inode_block_number(k, [NoSlots EXCEPT ![0] = SlotsOf(k)[0]], numbers)

\* The block numbers are not zeroed.
free_inode_KeepsNumbers(k) ==
    LET held == {i \in Slots : SlotsOf(k)[i] # 0}
    IN  /\ block_bitmap' = set_bitmap_val(block_bitmap, {SlotsOf(k)[i] : i \in held}, FALSE)
        /\ free_blocks_count' = free_blocks_count + Cardinality(held)
        /\ inode_bitmap' = set_bitmap_val(inode_bitmap, {k}, FALSE)
        /\ free_inodes_count' = free_inodes_count + 1
        /\ UNCHANGED <<i_block, numbers>>

\* Inode k and its data blocks are freed; the indirect block, if it has one,
\* stays marked and stays its own.
free_inode(k) ==
    LET held == {i \in Slots : SlotsOf(k)[i] # 0}
    IN  /\ block_bitmap' = set_bitmap_val(block_bitmap, {SlotsOf(k)[i] : i \in held}, FALSE)
        /\ free_blocks_count' = free_blocks_count + Cardinality(held)
        /\ inode_bitmap' = set_bitmap_val(inode_bitmap, {k}, FALSE)
        /\ free_inodes_count' = free_inodes_count + 1
        /\ set_inode_block_number(k, NoSlots, numbers)

\* exit() with an error, from where nothing else is written.
Fail == pc' = "exit" /\ UNCHANGED <<diskVars, cmd, commands>>

\* A command is given: no other is running.
Given ==
    /\ pc = "idle"
    /\ commands < MaxCommands
    /\ commands' = commands + 1
    /\ UNCHANGED <<bitmapVars, inodeVars, numbers, data>>

\* It is refused at once.
Refused == pc' = "exit" /\ cmd' = NoCommand

-----------------------------------------------------------------------------
(* The commands, up to their first write *)

\* fopen on what strtok left of the source path: the file itself if the path
\* has one component, otherwise a directory, which fread gets nothing from.
fopen(src) ==
    IF Len(src) = 1 THEN {<<HostFiles[src], HostFiles[src]>>}
    ELSE {<<n, 0>> : n \in HostDirSizes}

ext2_cp(src, dest) ==
    LET given == split_path(dest)
        comps == IF is_directory(traverse_path(given))
                 THEN listAppend(given, listPeek(split_path(src))) ELSE given
        entry == traverse_path(comps)
    IN  /\ Given
        /\ \/ Refused      \* fopen failed
           \/ \E file \in fopen(src) :
                 /\ cmd' = [NoCommand EXCEPT
                              !.op = "cp", !.comps = comps, !.src = src,
                              !.size = file[1], !.readable = file[2],
                              !.type = "file", !.inode = entry.inode,
                              !.exists = (entry # NULL)]
                 /\ pc' = "blocks"

\* The destination is not looked up.
ext2_ln_NoCheck(src, dest, is_sym_link) ==
    LET comps  == split_path(dest)
        source == traverse_path(split_path(src))
        parent == traverse_path(listPop(comps))
        abort  == \/ source = NULL \/ is_directory(source)
                  \/ parent = NULL
        link   == [NoCommand EXCEPT !.comps = comps, !.src = src,
                                    !.parent = parent.inode]
    IN  /\ Given
        /\ TakenForEntries(~abort /\ ~is_directory(parent), dirents, data)
        /\ \/ abort /\ Refused
           \/ /\ ~abort /\ is_sym_link
              /\ cmd' = [link EXCEPT !.op = "ln_s", !.type = "symlink"]
              /\ pc' = "inode"
           \/ /\ ~abort /\ ~is_sym_link
              /\ cmd' = [link EXCEPT !.op = "ln", !.type = "file",
                                     !.inode = source.inode]
              /\ pc' = "entry"

ext2_ln(src, dest, is_sym_link) ==
    LET comps  == split_path(dest)
        source == traverse_path(split_path(src))
        parent == traverse_path(listPop(comps))
        abort  == \/ source = NULL \/ is_directory(source)
                  \/ traverse_path(comps) # NULL
                  \/ parent = NULL
        link   == [NoCommand EXCEPT !.comps = comps, !.src = src,
                                    !.parent = parent.inode]
    IN  /\ Given
        /\ TakenForEntries(~abort /\ ~is_directory(parent), dirents, data)
        /\ \/ abort /\ Refused
           \/ /\ ~abort /\ is_sym_link
              /\ cmd' = [link EXCEPT !.op = "ln_s", !.type = "symlink"]
              /\ pc' = "inode"
           \/ /\ ~abort /\ ~is_sym_link
              /\ cmd' = [link EXCEPT !.op = "ln", !.type = "file",
                                     !.inode = source.inode]
              /\ pc' = "entry"

ext2_mkdir(path) ==
    LET comps  == split_path(path)
        parent == traverse_path(listPop(comps))
        abort  == \/ Len(comps) = 1
                  \/ ~is_directory(parent)
                  \/ traverse_path(comps) # NULL
    IN  /\ Given
        /\ \/ abort /\ Refused
           \/ /\ ~abort
              /\ cmd' = [NoCommand EXCEPT !.op = "mkdir", !.comps = comps,
                                          !.parent = parent.inode, !.type = "dir"]
              /\ pc' = "inode"

ext2_rm(path) ==
    LET comps  == split_path(path)
        entry  == traverse_path(comps)
        parent == traverse_path(listPop(comps))
        abort  == \/ entry = NULL \/ is_directory(entry)
                  \/ parent = NULL     \* "/", if its "." were no directory
    IN  /\ Given
        /\ \/ abort /\ Refused
           \/ /\ ~abort
              /\ cmd' = [NoCommand EXCEPT
                           !.op = "rm", !.comps = comps, !.inode = entry.inode,
                           !.parent = parent.inode]
              /\ pc' = "unlink"

-----------------------------------------------------------------------------
(* The steps that write *)


\* ext2_cp takes the blocks for the data before it looks at anything else.
allocate_blocks ==
    /\ pc = "blocks"
    /\ \/ cmd.size > free_blocks_count /\ Fail
       \/ /\ cmd.size <= free_blocks_count
          /\ \E s \in FirstFree(cmd.size) :
                /\ MarkUsed(s)
                /\ dirents' = Zeroed(dirents, s, EmptyBlock)
                /\ numbers' = Zeroed(numbers, s, NoNumbers)
                /\ data' = Zeroed(data, s, Zeroes)
                /\ cmd' = [cmd EXCEPT !.blocks = s]
          /\ pc' = "parent"
          /\ UNCHANGED <<inode_bitmap, free_inodes_count, inodeVars, commands>>

\* ext2_cp: the parent of the destination, and whether a new inode is needed.
cp_destination ==
    pc = "parent" /\ \E parent \in {traverse_path(listPop(cmd.comps))} :
        /\ \/ /\ \/ parent = NULL
                 \/ ~cmd.exists /\ cmd.size > INODE_BLOCK_LIMIT
              /\ Fail /\ UNCHANGED strayed
           \/ /\ parent # NULL
              /\ ~cmd.exists => cmd.size <= INODE_BLOCK_LIMIT
              /\ TakenForEntries(~is_directory(parent), dirents, data)
              /\ pc' = IF cmd.exists THEN "write" ELSE "inode"
              /\ cmd' = [cmd EXCEPT !.parent = parent.inode]
              /\ UNCHANGED <<bitmapVars, inodeVars, numbers, data, commands>>

\* Inode k is taken: the block numbers are zeroed, the indirect one is kept.
allocate_inode(k) ==
    /\ free_inodes_count' = free_inodes_count - 1
    /\ inode_bitmap' = set_bitmap_val(inode_bitmap, {k}, TRUE)
    /\ set_inode_block_number(k, NoSlots, numbers)

AfterAllocation ==
    CASE cmd.op = "cp"    -> "entry"
      [] cmd.op = "mkdir" -> "dot"
      [] cmd.op = "ln_s"  -> "path"

\* allocate_file_inode, allocate_dir_inode and allocate_link_inode: the lowest
\* free inode, if the counter promises one.
AllocateInode ==
    /\ pc = "inode"
    /\ \/ free_inodes_count = 0 /\ Fail
       \/ /\ free_inodes_count # 0
          /\ \E k \in FreeInodes :
                /\ \A j \in FreeInodes : k <= j
                /\ allocate_inode(k)
                /\ i_links_count' = [i_links_count EXCEPT ![k] = 1]
                /\ cmd' = [cmd EXCEPT !.inode = k]
          /\ pc' = AfterAllocation
          /\ UNCHANGED <<block_bitmap, free_blocks_count, dirents, data, commands>>

\* The counter promises one and there is none: allocate_inode answers 0, and
\* the command goes on with an inode that is not in the table.
AllocateNoInode ==
    /\ pc = "inode"
    /\ free_inodes_count # 0 /\ FreeInodes = {}
    /\ free_inodes_count' = free_inodes_count - 1
    /\ cmd' = [cmd EXCEPT !.inode = 0]
    /\ pc' = AfterAllocation
    /\ TakenForEntries(TRUE, dirents, data)
    /\ UNCHANGED <<block_bitmap, inode_bitmap, free_blocks_count, inodeVars, numbers,
                   data, commands>>

\* ln -s: the path goes into a first block of the new inode.  A path string of
\* a block or more (slashes count) is refused here, with the inode allocated.
\* To inode 0 no block is attached; the path goes into the boot block.
write_path_to_symlink_inode ==
    /\ pc = "path"
    /\ \/ Fail /\ UNCHANGED strayed
       \/ free_blocks_count = 0 /\ cmd.inode \in Inodes /\ Fail /\ UNCHANGED strayed
       \/ cmd.inode = 0 /\ pc' = "entry" /\ UNCHANGED <<diskVars, strayed, cmd, commands>>
       \/ /\ free_blocks_count # 0
          /\ cmd.inode \in Inodes
          /\ \E s \in FirstFree(1) :
                /\ MarkUsed(s)
                /\ data' = [data EXCEPT ![s[1]] =
                              [kind |-> "path", of |-> LeftByStrtok(cmd.src),
                               part |-> 0]]
                /\ TakenForEntries(FALSE, Zeroed(dirents, s, EmptyBlock), data')
                /\ set_inode_block_number(cmd.inode,
                        [SlotsOf(cmd.inode) EXCEPT ![0] = s[1]],
                        Zeroed(numbers, s, NoNumbers))
          /\ pc' = "entry"
          /\ UNCHANGED <<inode_bitmap, free_inodes_count, i_links_count, cmd, commands>>

\* The entry to make: in which inode, and what it says.
Wanted ==
    CASE pc = "dot"    -> [dir |-> cmd.inode, inode |-> cmd.inode,
                           name |-> ".", type |-> "dir"]
      [] pc = "dotdot" -> [dir |-> cmd.inode, inode |-> cmd.parent,
                           name |-> "..", type |-> "dir"]
      [] pc = "entry"  -> [dir |-> cmd.parent, inode |-> cmd.inode,
                           name |-> listPeek(cmd.comps), type |-> cmd.type]

\* What follows.  ext2_cp does not look at the result; ext2_ln counts the link
\* first; ext2_mkdir and ext2_ln -s free the inode they could not name.
AfterEntry(made) ==
    CASE pc = "dot" /\ made                 -> "dotdot"
      [] pc = "dotdot" /\ made              -> "entry"
      [] pc = "entry" /\ cmd.op = "cp"      -> "write"
      [] pc = "entry" /\ cmd.op = "ln"      -> "count"
      [] pc = "entry" /\ made /\ cmd.op # "cp" /\ cmd.op # "ln" -> "ok"
      [] OTHER                              -> "undo"

Accepting(k, name) ==
    {i \in Slots : LET b == get_inode_block_number(k, i)
                   IN  b # 0 /\ Accepts(dirents[b], name)}

Unused(k) == {i \in Slots : get_inode_block_number(k, i) = 0}

\* make_entry_in_inode: the first block that takes the entry.
EntryInExistingBlock ==
    LET e     == Wanted
        slots == Accepting(e.dir, e.name)
        b     == get_inode_block_number(e.dir, Min(slots))
    IN  /\ pc \in {"dot", "dotdot", "entry"}
        /\ e.dir \in Inodes
        /\ slots # {}
        /\ dirents' = [dirents EXCEPT ![b] =
                          make_entry_in_existing_block(@, e.inode, e.name, e.type)]
        /\ data' = Spoilt(b)
        /\ pc' = AfterEntry(TRUE)
        /\ cmd' = [cmd EXCEPT !.made = TRUE]
        /\ UNCHANGED <<bitmapVars, inodeVars, numbers, commands>>

\* make_entry_in_inode: otherwise a new block at the first unused index.  When
\* that index is beyond the direct ones and there is no indirect block, the
\* block is taken and filled but not attached.
EntryInNewBlock ==
    LET e     == Wanted
        slots == Unused(e.dir)
    IN  /\ pc \in {"dot", "dotdot", "entry"}
        /\ e.dir \in Inodes
        /\ Accepting(e.dir, e.name) = {}
        /\ slots # {}
        /\ \/ free_blocks_count = 0 /\ Fail
           \/ /\ free_blocks_count # 0
              /\ \E s \in FirstFree(1) :
                    /\ MarkUsed(s)
                    /\ dirents' = [dirents EXCEPT ![s[1]] =
                                      FirstEntry(e.inode, e.name, e.type)]
                    /\ data' = Zeroed(data, s, Zeroes)
                    /\ set_inode_block_number(e.dir,
                            [SlotsOf(e.dir) EXCEPT ![Min(slots)] = s[1]],
                            Zeroed(numbers, s, NoNumbers))
              /\ pc' = AfterEntry(TRUE)
              /\ cmd' = [cmd EXCEPT !.made = TRUE]
              /\ UNCHANGED <<inode_bitmap, free_inodes_count, i_links_count, commands>>

\* make_entry_in_inode returns NULL: no index of the inode is unused.
EntryNowhere ==
    /\ pc \in {"dot", "dotdot", "entry"}
    /\ Wanted.dir \in Inodes
    /\ Accepting(Wanted.dir, Wanted.name) = {}
    /\ Unused(Wanted.dir) = {}
    /\ pc' = AfterEntry(FALSE)
    /\ UNCHANGED <<diskVars, cmd, commands>>

\* The link is not counted.
count_link_Forgotten ==
    /\ pc = "count" /\ cmd.inode \in Inodes
    /\ i_links_count' = i_links_count
    /\ pc' = IF cmd.made THEN "ok" ELSE "exit"
    /\ UNCHANGED <<bitmapVars, i_block, blockVars, cmd, commands>>

\* ext2_ln without -s, whether or not the entry was made.
count_link ==
    /\ pc = "count" /\ cmd.inode \in Inodes
    /\ i_links_count' = [i_links_count EXCEPT ![cmd.inode] = (@ + 1) % (USHRT_MAX + 1)]
    /\ pc' = IF cmd.made THEN "ok" ELSE "exit"
    /\ UNCHANGED <<bitmapVars, i_block, blockVars, cmd, commands>>

\* The last block is not copied.
cp_data_Short ==
    LET copied == {i \in Slots : i + 1 < cmd.readable}
    IN  /\ pc = "write" /\ cmd.inode \in Inodes
        /\ set_inode_block_number(cmd.inode,
                [i \in Slots |-> IF i \in copied THEN cmd.blocks[i + 1] ELSE 0],
                numbers)
        /\ data' = [b \in Blocks |->
                      IF \E i \in copied : cmd.blocks[i + 1] = b
                      THEN [kind |-> "file", of |-> cmd.src,
                            part |-> CHOOSE i \in copied : cmd.blocks[i + 1] = b]
                      ELSE data[b]]
        /\ TakenForEntries(cmd.inode \in Directories, dirents, data')
        /\ pc' = "ok"
        /\ UNCHANGED <<bitmapVars, i_links_count, cmd, commands>>

\* ext2_cp: the inode's block numbers are replaced and the data is copied.
cp_data ==
    LET copied == {i \in Slots : i < cmd.readable}
    IN  /\ pc = "write" /\ cmd.inode \in Inodes
        /\ set_inode_block_number(cmd.inode,
                [i \in Slots |-> IF i \in copied THEN cmd.blocks[i + 1] ELSE 0],
                numbers)
        /\ data' = [b \in Blocks |->
                      IF \E i \in copied : cmd.blocks[i + 1] = b
                      THEN [kind |-> "file", of |-> cmd.src,
                            part |-> CHOOSE i \in copied : cmd.blocks[i + 1] = b]
                      ELSE data[b]]
        /\ TakenForEntries(cmd.inode \in Directories, dirents, data')
        /\ pc' = "ok"
        /\ UNCHANGED <<bitmapVars, i_links_count, cmd, commands>>

\* The freed block stays in the inode.
delete_child_entry_KeepsSlot ==
    pc = "unlink" /\
    \E slot \in {find_matching_pair(cmd.parent, listPeek(cmd.comps))[1]} :
    LET b    == get_inode_block_number(cmd.parent, slot)
        left == RemoveEntry(dirents[b], listPeek(cmd.comps))
    IN  /\ dirents' = [dirents EXCEPT ![b] = left]
        /\ data' = Spoilt(b)
        /\ \/ /\ is_entry_block_empty(left)
              /\ UNCHANGED <<i_block, numbers>>
              /\ block_bitmap' = set_bitmap_val(block_bitmap, {b}, FALSE)
              /\ free_blocks_count' = free_blocks_count + 1
           \/ /\ ~is_entry_block_empty(left)
              /\ UNCHANGED <<i_block, numbers, block_bitmap, free_blocks_count>>
        /\ pc' = "drop"
        /\ UNCHANGED <<inode_bitmap, free_inodes_count, i_links_count, cmd, commands>>

\* ext2_rm: the entry is taken out, and its block is freed when no name is
\* left in it.
delete_child_entry ==
    pc = "unlink" /\
    \E slot \in {find_matching_pair(cmd.parent, listPeek(cmd.comps))[1]} :
    LET b    == get_inode_block_number(cmd.parent, slot)
        left == RemoveEntry(dirents[b], listPeek(cmd.comps))
    IN  /\ dirents' = [dirents EXCEPT ![b] = left]
        /\ data' = Spoilt(b)
        /\ \/ /\ is_entry_block_empty(left)
              /\ set_inode_block_number(cmd.parent,
                      [SlotsOf(cmd.parent) EXCEPT ![slot] = 0], numbers)
              /\ block_bitmap' = set_bitmap_val(block_bitmap, {b}, FALSE)
              /\ free_blocks_count' = free_blocks_count + 1
           \/ /\ ~is_entry_block_empty(left)
              /\ UNCHANGED <<i_block, numbers, block_bitmap, free_blocks_count>>
        /\ pc' = "drop"
        /\ UNCHANGED <<inode_bitmap, free_inodes_count, i_links_count, cmd, commands>>

\* Other links are not asked for.
drop_link_Frees ==
    LET links == (i_links_count[cmd.inode] - 1) % (USHRT_MAX + 1)
    IN  /\ pc = "drop" /\ cmd.inode \in Inodes
        /\ i_links_count' = [i_links_count EXCEPT ![cmd.inode] = links]
        /\ pc' = "free"
        /\ UNCHANGED <<bitmapVars, i_block, blockVars, cmd, commands>>

\* "< 0" instead of "<= 0".
drop_link_BelowZero ==
    /\ pc = "drop" /\ cmd.inode \in Inodes
    /\ i_links_count' = [i_links_count EXCEPT ![cmd.inode] = (@ - 1) % (USHRT_MAX + 1)]
    /\ pc' = "ok"
    /\ UNCHANGED <<bitmapVars, i_block, blockVars, cmd, commands>>

\* ext2_rm: one link less; i_links_count is an unsigned short.
drop_link ==
    LET links == (i_links_count[cmd.inode] - 1) % (USHRT_MAX + 1)
    IN  /\ pc = "drop" /\ cmd.inode \in Inodes
        /\ i_links_count' = [i_links_count EXCEPT ![cmd.inode] = links]
        /\ pc' = IF links = 0 THEN "free" ELSE "ok"
        /\ UNCHANGED <<bitmapVars, i_block, blockVars, cmd, commands>>

\* ext2_rm drops the last link; ext2_mkdir and ext2_ln -s undo their inode.
release_inode ==
    /\ pc \in {"free", "undo"} /\ cmd.inode \in Inodes
    /\ free_inode(cmd.inode)
    /\ pc' = IF pc = "free" THEN "ok" ELSE "exit"
    /\ UNCHANGED <<i_links_count, dirents, data, cmd, commands>>

\* The next step works on an inode that is not in the table: the process is
\* killed by a signal.
Killed ==
    /\ pc \in {"dot", "entry", "write", "count", "drop", "undo"}
    /\ (IF pc = "entry" THEN cmd.parent ELSE cmd.inode) \notin Inodes
    /\ Fail

\* The process is gone; the image stays as it is.
Return ==
    /\ pc \in {"ok", "exit"}
    /\ pc' = "idle"
    /\ cmd' = NoCommand
    /\ UNCHANGED <<diskVars, commands>>

-----------------------------------------------------------------------------

Command ==
    \/ \E src, dest \in Paths, sym \in BOOLEAN : ext2_ln(src, dest, sym)
    \/ /\ \/ \E src \in DOMAIN HostFiles, dest \in Paths : ext2_cp(src, dest)
          \/ \E path \in Paths : ext2_mkdir(path)
          \/ \E path \in Paths : ext2_rm(path)
       /\ UNCHANGED <<dirents, strayed>>

Step ==
    \/ cp_destination \/ AllocateNoInode \/ write_path_to_symlink_inode \/ cp_data
    \/ /\ \/ allocate_blocks \/ AllocateInode
          \/ EntryInExistingBlock \/ EntryInNewBlock \/ EntryNowhere
          \/ count_link \/ delete_child_entry \/ drop_link \/ release_inode
          \/ Killed \/ Return
       /\ UNCHANGED strayed

Next == Command \/ Step

LoadImage ==
    \E image \in Images :
        /\ block_bitmap = image.block_bitmap
        /\ inode_bitmap = image.inode_bitmap
        /\ i_links_count = image.i_links_count
        /\ i_block = image.i_block
        /\ dirents = image.dirents
        /\ numbers = image.numbers
        /\ data = image.data

Init ==
    /\ LoadImage
    /\ free_blocks_count = Cardinality(Blocks \ block_bitmap)
    /\ free_inodes_count = Cardinality(Inodes \ inode_bitmap)
    /\ strayed = FALSE
    /\ pc = "idle"
    /\ cmd = NoCommand
    /\ commands = 0

Spec == Init /\ [][Next]_vars /\ WF_vars(Step)

-----------------------------------------------------------------------------
(* Properties *)

Locals ==
    [op : {"none", "cp", "ln", "ln_s", "mkdir", "rm"},
     comps : Seq(Names), src : Seq(Names),
     parent : Inodes \cup {0}, inode : Inodes \cup {0},
     type : FileTypes \cup {"none"}, blocks : Seq(Blocks),
     size : Nat, readable : Nat, exists : BOOLEAN, made : BOOLEAN]

\* The state has the shape of an image and of a command's local variables.
TypeOK ==
    /\ block_bitmap \subseteq Blocks /\ inode_bitmap \subseteq Inodes
    /\ free_blocks_count \in Nat /\ free_inodes_count \in Nat
    /\ i_links_count \in [Inodes -> 0 .. USHRT_MAX]
    /\ i_block \in [Inodes -> [0 .. INDIRECT1_INDEX -> Numbers]]
    /\ numbers \in [Blocks -> [Indices -> Numbers]]
    /\ IsFcn(dirents) /\ DOMAIN dirents = Blocks
    /\ \A b \in Blocks : IF strayed THEN IsSpelledChain(dirents[b], Inodes)
                        ELSE IsChain(dirents[b], Inodes)
    /\ data \in [Blocks -> Contents]
    /\ strayed \in BOOLEAN
    /\ cmd \in Locals
    /\ commands \in 0 .. MaxCommands

\* allocate_blocks trusts the free counter and then scans the bitmap: the
\* counter always counts the zero bits.
CountsAgree == free_blocks_count = Cardinality(Blocks \ block_bitmap)

\* Where a block number is kept: a slot of an inode, or INODE_BLOCK_LIMIT for
\* its indirect block.
Held(k) == {i \in Slots : get_inode_block_number(k, i) # 0}

BlockAt(p) == IF p[2] = INODE_BLOCK_LIMIT THEN i_block[p[1]][INDIRECT1_INDEX]
              ELSE get_inode_block_number(p[1], p[2])

Places == {p \in Inodes \X (0 .. INODE_BLOCK_LIMIT) : BlockAt(p) # 0}

\* The blocks ext2_cp has taken and not yet attached.
InHand ==
    IF pc \in {"parent", "inode", "entry", "write"} THEN {cmd.blocks[i] : i \in DOMAIN cmd.blocks}
    ELSE {}

\* No block number is kept in two places, and every one kept is marked as
\* used and not about to be given out again: free_inode and delete_child_entry
\* never free a block twice or free one somebody else holds.
OneOwner ==
    /\ \A p, q \in Places : BlockAt(p) = BlockAt(q) => p = q
    /\ \A p \in Places : BlockAt(p) \in block_bitmap \ InHand
    /\ InHand \subseteq block_bitmap

\* allocate_inode trusts its counter too, and an inode that is free keeps no
\* block number but that of its indirect block: ext2_rm and the commands that
\* undo what they did free an inode once, with all it has.  Of an image that
\* has strayed this cannot be said, nor what follows: a name that is spelled
\* by accident leads to an inode that is free, or takes a link that others
\* count on.
InodesAgree ==
    strayed \/
        /\ free_inodes_count = Cardinality(Inodes \ inode_bitmap)
        /\ \A k \in Inodes \ inode_bitmap : Held(k) = {}

\* No directory has a block of content, so nothing is read as entries that was
\* not written as entries, until a command strays.
ContentUnread ==
    strayed \/
        \A k \in Directories : \A i \in Held(k) :
            ~IsContent(data[get_inode_block_number(k, i)])

\* Entries are cut, merged and appended by make_entry_in_existing_block and
\* delete_child_entry: those of a block always cover it end to end, and those
\* that content spells stay linked.
Tiling ==
    \A k \in Inodes : \A i \in Held(k) :
        LET block == dirents[get_inode_block_number(k, i)]
        IN  IF strayed THEN Spelling(block) ELSE Tiles(block)

\* ext2_ls prints a name of a directory once, and the entry it prints is the
\* one traverse_path finds.
LsOnce ==
    strayed \/
        \A k \in Directories : \A p \in print_dir_contents(k, TRUE) :
            find_matching_pair(k, EntryAt(k, p).name) = p

\* Every entry that still has a name.
NamedPositions ==
    UNION {{<<k, p>> : p \in print_dir_contents(k, TRUE)} : k \in inode_bitmap}

\* An entry's inode is in use: ext2_rm frees an inode only with its last name,
\* whatever commands failed half way before.
LiveNames ==
    strayed \/
        \A e \in NamedPositions : EntryAt(e[1], e[2]).inode \in inode_bitmap

\* The link count of a file is at least the number of its names (ext2_ln
\* counts after it has made the entry), so it never reaches 0 too early.
LinksCoverNames ==
    strayed \/
        \A k \in Inodes \ Directories :
            LET named == {e \in NamedPositions : EntryAt(e[1], e[2]).inode = k}
            IN  Cardinality(named) <= i_links_count[k] +
                    IF pc = "count" /\ cmd.made /\ cmd.inode = k THEN 1 ELSE 0

\* All direct block numbers of inode k are used, its blocks do not take the
\* name and it has no indirect block: make_entry_in_inode then fills a block
\* that it cannot attach.
Jammed(k, name) ==
    /\ Accepting(k, name) = {}
    /\ i_block[k][INDIRECT1_INDEX] = 0
    /\ \A i \in 0 .. INDIRECT1_INDEX - 1 : i_block[k][i] # 0

\* A command that reports success has done what it was asked to, as the next
\* command will see it: the name leads to the inode (and a new directory's own
\* entries back to it and to its parent), or to nothing after ext2_rm.  Two
\* cases are excepted: the parent was jammed, or it was full (ext2_cp ignores
\* that).
DoneAsAsked ==
    pc = "ok" /\ ~strayed =>
        LET entry  == traverse_path(cmd.comps)
            parent == traverse_path(listPop(cmd.comps))
            name   == listPeek(cmd.comps)
        IN  CASE cmd.op = "rm" -> entry = NULL
              [] OTHER ->
                    \/ /\ entry.inode = cmd.inode
                       /\ cmd.op = "mkdir" =>
                             /\ find_matching_entry(entry.inode, ".").inode = entry.inode
                             /\ find_matching_entry(entry.inode, "..").inode = parent.inode
                    \/ Jammed(parent.inode, name)
                    \/ cmd.op = "cp" /\ ~cmd.made

\* The data of a copy is in place, in order, as far as the inode has indices
\* that can be set.
CopyInPlace ==
    pc = "ok" /\ cmd.op = "cp" =>
        \A i \in Slots :
            (i < cmd.readable /\ (i < INDIRECT1_INDEX
                                  \/ i_block[cmd.inode][INDIRECT1_INDEX] # 0)) =>
                /\ i \in Held(cmd.inode)
                /\ data[get_inode_block_number(cmd.inode, i)] =
                      [kind |-> "file", of |-> cmd.src, part |-> i]

\* What a copy ought to be: all of the file.
CpWhole ==
    pc = "ok" /\ cmd.op = "cp" /\ ~cmd.exists /\ Len(cmd.src) = 1 =>
        \A i \in 0 .. cmd.size - 1 :
            /\ i \in Held(cmd.inode)
            /\ data[get_inode_block_number(cmd.inode, i)].part = i

\* The content of a file or a symbolic link is changed by nothing but a copy
\* onto it or its removal, as long as no command takes it for entries.
DataIntact ==
    [][strayed' \/
       \A k \in inode_bitmap : \A i \in Held(k) :
          LET content == data[get_inode_block_number(k, i)]
          IN  content.kind = "zero"
              \/ (k = cmd.inode /\ pc \in {"write", "free", "undo"})
              \/ (i \in Held(k)' /\ content = data'[get_inode_block_number(k, i)'])]_vars

\* Blocks that are marked, are kept by no inode in use and will not be attached.
Leaked == block_bitmap \ ({BlockAt(p) : p \in {q \in Places : q[1] \in inode_bitmap}}
                             \cup InHand)

\* Blocks are leaked in four ways only: ext2_cp gives up after it has taken
\* them; it copies onto a file that has blocks, more than fits, or a source
\* it cannot read; an entry's block cannot be attached; an inode is freed that
\* has an indirect block.
NoOtherLeak ==
    [][\/ strayed'
       \/ Leaked' \subseteq Leaked
       \/ cmd.op = "cp" /\ pc' = "exit"
       \/ pc = "write" /\ (\/ cmd.exists
                           \/ cmd.readable < cmd.size
                           \/ cmd.size > INDIRECT1_INDEX)
       \/ pc = "entry" /\ Jammed(cmd.parent, listPeek(cmd.comps))
       \/ /\ pc \in {"free", "undo"}
          /\ Leaked' \subseteq Leaked \cup {i_block[cmd.inode][INDIRECT1_INDEX]}]_vars

\* The names in all directories.
NameSpace ==
    UNION {{LET e == EntryAt(k, p)
            IN  [dir |-> k, name |-> e.name, inode |-> e.inode, type |-> e.file_type] :
                p \in print_dir_contents(k, FALSE)} : k \in Directories}

\* Inodes in use that no directory names (the reserved ones need no name) and
\* that the running command is not about to name or free.
Orphans ==
    {k \in inode_bitmap \ {n.inode : n \in NameSpace} :
        /\ k > LAST_RESERVED_INODE
        /\ pc \in {"idle", "ok", "exit"} \/ k # cmd.inode}

\* Inodes are left without a name in three ways only: a command ends by exit()
\* between its allocation and its entry; the entry's block cannot be attached,
\* or ext2_cp ignores that there is none; ext2_rm takes the last name of a file
\* that has more links than names, as a failed ext2_ln leaves it.
NoOtherOrphan ==
    [][\/ strayed'
       \/ Orphans' \subseteq Orphans
       \/ /\ Orphans' \subseteq Orphans \cup {cmd.inode}
          /\ \/ pc \in {"path", "dot", "dotdot", "entry"} /\ pc' = "exit"
             \/ pc \in {"entry", "write"} /\ Jammed(cmd.parent, listPeek(cmd.comps))
             \/ pc = "write" /\ ~cmd.made
             \/ pc = "drop" /\ i_links_count[cmd.inode] # 1]_vars

\* The progress of the running command, as AbstractNames sees it.
Phase ==
    CASE pc = "idle" -> "idle"
      [] pc = "exit" \/ pc = "undo" \/ (pc = "count" /\ ~cmd.made) -> "failed"
      [] \/ pc \in {"drop", "free", "ok"}
         \/ pc = "count" /\ cmd.made
         \/ pc = "write" /\ ~cmd.exists -> "done"
      [] OTHER -> "running"

Promise == INSTANCE AbstractNames WITH names <- NameSpace, phase <- Phase,
                                          astray <- strayed

\* Commands change names as AbstractNames allows: one name per success, none
\* per failure, although both take several writes, until one strays.
NamesSpec == Promise!Spec

\* make_entry_in_existing_block adds a name and keeps every other one, until a
\* command strays.
InsertKeepsNames ==
    [][\/ strayed'
       \/ (pc \in {"dot", "dotdot", "entry"}) => (NameSpace \subseteq NameSpace')]_vars

=============================================================================
