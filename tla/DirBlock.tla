------------------------------ MODULE DirBlock ------------------------------
(***************************************************************************)
(* One directory block of the ext2 tools (a3/ext2_helper.h): the chain of  *)
(* variable-length entries that starts at byte 0 and follows rec_len.  A   *)
(* block is a function from the byte offsets at which an entry starts to   *)
(* the entries; a block no entry can be read from (bytes 4 and 5 are 0, as *)
(* allocate_blocks leaves them) is EmptyBlock.  Everything here is an      *)
(* operator: module Ext2 applies them to the blocks of a disk.             *)
(***************************************************************************)
EXTENDS Integers, FiniteSetsExt

CONSTANTS
    BLOCK_SIZE,  \* EXT2_BLOCK_SIZE, in bytes
    Names,       \* the names a path component can have, "." and ".." too
    strlen       \* the length of each name

\* The largest unsigned char and unsigned short.
UCHAR_MAX == 255
USHRT_MAX == 65535

\* name_len is an unsigned char; a longer component is not modelled.
ASSUME BlockAssumption ==
    /\ BLOCK_SIZE \in Nat \ {0}
    /\ BLOCK_SIZE <= USHRT_MAX
    /\ strlen \in [Names -> 1 .. UCHAR_MAX]
    /\ {".", ".."} \subseteq Names
    /\ \A n \in Names : 12 + strlen[n] <= BLOCK_SIZE

\* The name of an entry whose name_len has been set to 0.
Unnamed == ""
ASSUME UnnamedAssumption == Unnamed \notin Names

\* file_type: EXT2_FT_REG_FILE, EXT2_FT_DIR, EXT2_FT_SYMLINK.
FileTypes == {"file", "dir", "symlink"}

ext2_dir_entry_2(Inodes) ==
    [inode : Inodes, rec_len : 1 .. USHRT_MAX, name : Names \cup {Unnamed},
     file_type : FileTypes]

EmptyBlock == [o \in {} |-> 0]

IsFcn(f) == f = [x \in DOMAIN f |-> f[x]]

\* The entries of a block, wherever they start and whatever their lengths.
IsChain(block, Inodes) ==
    /\ IsFcn(block)
    /\ DOMAIN block \subseteq 0 .. BLOCK_SIZE - 1
    /\ \A o \in DOMAIN block : block[o] \in ext2_dir_entry_2(Inodes)

name_len(name) == IF name = Unnamed THEN 0 ELSE strlen[name]

\* Entries read from bytes that were written as something else: the inode
\* number may be none of the table's (0 stands for all of those) and file_type
\* none of the three.  A directory has an inode: get_inode of a number the
\* table does not have kills a command that looks into it, before it writes.
IsSpelledChain(block, Inodes) ==
    /\ IsFcn(block)
    /\ DOMAIN block \subseteq 0 .. BLOCK_SIZE - 1
    /\ \A o \in DOMAIN block :
          /\ block[o] \in [inode : Inodes \cup {0}, rec_len : 1 .. USHRT_MAX,
                           name : Names \cup {Unnamed},
                           file_type : FileTypes \cup {"none"}]
          /\ block[o].file_type = "dir" => block[o].inode \in Inodes

-----------------------------------------------------------------------------
(* Lengths.  The padding is 1 to 4 bytes, never 0: an entry whose name     *)
(* length is a multiple of 4 is given 4 bytes more than ext2 needs.        *)

total_entry_length(n) == LET raw == 8 + n IN raw + (4 - (raw % 4))

min_rec_len(e) == total_entry_length(name_len(e.name))

\* unsigned short: wraps when rec_len is below the padded minimum.
space_left(e) == (e.rec_len - min_rec_len(e)) % (USHRT_MAX + 1)

-----------------------------------------------------------------------------
(* Searching *)

\* No component of a path is Unnamed.
entry_name_comparison(e, name) == e.name = name

\* The offsets at which block_matching_pair would stop, the first one first.
Matching(block, name) ==
    {o \in DOMAIN block : entry_name_comparison(block[o], name)}

\* Only the first entry is looked at.
is_entry_block_empty_First(block) == block[0].name = Unnamed

\* Is no name left in the block?
is_entry_block_empty(block) ==
    \A o \in DOMAIN block : block[o].name = Unnamed

-----------------------------------------------------------------------------
(* Inserting *)

HasRoom(block, name) ==
    {o \in DOMAIN block :
        space_left(block[o]) >= total_entry_length(name_len(name))}

\* Where the new entry would start: right behind the first entry that has
\* room, cut to its minimum.
InsertAt(block, name) ==
    LET cur == Min(HasRoom(block, name)) IN cur + min_rec_len(block[cur])

\* Does make_entry_in_existing_block return an entry?
Accepts(block, name) ==
    /\ HasRoom(block, name) # {}
    /\ InsertAt(block, name) < BLOCK_SIZE

\* The new entry is given the length it needs, not all that was left.
make_entry_in_existing_block_Exact(block, inode, name, type) ==
    LET cur == Min(HasRoom(block, name))
        new == InsertAt(block, name)
    IN  [o \in DOMAIN block \cup {new} |->
            CASE o = cur -> [block[o] EXCEPT !.rec_len = min_rec_len(block[o])]
              [] o = new -> [inode |-> inode, name |-> name, file_type |-> type,
                             rec_len |-> total_entry_length(name_len(name))]
              [] OTHER   -> block[o]]

\* The entry with room is cut off at the end of its name and the new one takes
\* the rest.  An entry that the new rec_len jumps over is not read again.
make_entry_in_existing_block(block, inode, name, type) ==
    LET cur  == Min(HasRoom(block, name))
        new  == InsertAt(block, name)
        rest == space_left(block[cur])
    IN  [o \in {p \in DOMAIN block : p <= cur \/ p >= new + rest} \cup {new} |->
            CASE o = cur -> [block[o] EXCEPT !.rec_len = min_rec_len(block[o])]
              [] o = new -> [inode |-> inode, rec_len |-> rest, name |-> name,
                             file_type |-> type]
              [] OTHER   -> block[o]]

\* The block make_entry_in_inode fills in when it had to allocate one.
FirstEntry(inode, name, type) ==
    [o \in {0} |-> [inode |-> inode, rec_len |-> BLOCK_SIZE, name |-> name,
                    file_type |-> type]]

-----------------------------------------------------------------------------
(* Deleting *)

\* Only an entry with another before it is taken out.
RemoveEntry_NotFirst(block, name) ==
    LET cur  == Min(Matching(block, name))
        prev == Max({o \in DOMAIN block : o < cur})
    IN  IF cur = 0 THEN block
        ELSE [o \in DOMAIN block \ {cur} |->
                IF o = prev
                THEN [block[o] EXCEPT !.rec_len = @ + block[cur].rec_len]
                ELSE block[o]]

\* The first entry of a block only loses its name; any other is swallowed by
\* the entry before it.
RemoveEntry(block, name) ==
    LET cur  == Min(Matching(block, name))
        prev == Max({o \in DOMAIN block : o < cur})
    IN  IF cur = 0
        THEN [block EXCEPT ![0].name = Unnamed]
        ELSE [o \in DOMAIN block \ {cur} |->
                IF o = prev
                THEN [block[o] EXCEPT !.rec_len = (@ + block[cur].rec_len) % (USHRT_MAX + 1)]
                ELSE block[o]]

-----------------------------------------------------------------------------
(* What is printed *)

\* The entries whose names print_block_contents prints.
print_block_contents(block, show_dots) ==
    {o \in DOMAIN block :
        /\ block[o].name # Unnamed
        /\ ~show_dots => block[o].name \notin {".", ".."}}

-----------------------------------------------------------------------------
(* A well-formed block: its entries cover it end to end and each has the   *)
(* length the tools would give it at least.                                *)

Tiles(block) ==
    DOMAIN block # {} =>
        /\ 0 \in DOMAIN block
        /\ \A o \in DOMAIN block :
              /\ block[o].rec_len >= min_rec_len(block[o])
              /\ o + block[o].rec_len \in DOMAIN block \cup {BLOCK_SIZE}
              /\ \A p \in DOMAIN block : o < p => o + block[o].rec_len <= p

\* Entries that are linked and long enough, the last of which may run past the
\* end of the block.
Spelling(block) ==
    DOMAIN block # {} =>
        /\ 0 \in DOMAIN block
        /\ \A o \in DOMAIN block :
              /\ block[o].rec_len >= min_rec_len(block[o])
              /\ \/ o + block[o].rec_len \in DOMAIN block
                 \/ o + block[o].rec_len \in BLOCK_SIZE .. USHRT_MAX
              /\ \A p \in DOMAIN block : o < p => o + block[o].rec_len <= p
=============================================================================
