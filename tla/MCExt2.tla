------------------------------- MODULE MCExt2 -------------------------------
(* Small instances of Ext2: names, host files and images for TLC. *)
EXTENDS Ext2, TLC

\* "x" to "w" are only in the images, "h" and "old" only on the host.
MCNames == {".", "..", "a", "b", "c", "docs", "x", "y", "z", "u", "v", "w", "h", "old",
            "text"}
MCstrlen == [n \in MCNames |->
                CASE n = ".." -> 2 [] n = "old" -> 3 [] n = "docs" -> 4
                  [] n = "text" -> 20 [] OTHER -> 1]

MCPaths == {<<>>, <<"a">>, <<"b">>, <<"docs">>, <<"docs", "a">>, <<"a", "b">>}

\* A file of one block, more than the direct indices, more than an inode can
\* hold, and a path with a slash.
MCHostFiles ==
    (<<"docs">> :> 1) @@ (<<"b">> :> 3) @@ (<<"c">> :> 4) @@ (<<"h", "b">> :> 1)

-----------------------------------------------------------------------------

E(inode, name, type) == <<inode, name, type>>

\* A block with these entries at 12 bytes each, the last taking the rest.
Chain(entries) ==
    [o \in {12 * (j - 1) : j \in DOMAIN entries} |->
        LET j == o \div 12 + 1
        IN  [inode |-> entries[j][1], name |-> entries[j][2],
             file_type |-> entries[j][3],
             rec_len |-> IF j = Len(entries) THEN BLOCK_SIZE - o ELSE 12]]

\* The first block of a directory whose first name is n.
DirChain(dir, parent, n) == Chain(<<E(dir, ".", "dir"), E(parent, "..", "dir"), n>>)

OverDefault(f, domain, default) ==
    [x \in domain |-> IF x \in DOMAIN f THEN f[x] ELSE default]

\* An image with blocks 1..nb and inodes 1..ni used.
Image(nb, ni, links, slots, chains, nums, content) ==
    [block_bitmap  |-> 1 .. nb,
     inode_bitmap  |-> 1 .. ni,
     i_links_count |-> OverDefault(links, Inodes, 0),
     i_block       |-> OverDefault([k \in DOMAIN slots |->
                            [i \in 0 .. INDIRECT1_INDEX |-> slots[k][i + 1]]], Inodes,
                            [i \in 0 .. INDIRECT1_INDEX |-> 0]),
     dirents       |-> OverDefault(chains, Blocks, EmptyBlock),
     numbers       |-> OverDefault(nums, Blocks, NoNumbers),
     data          |-> OverDefault(content, Blocks, Zeroes)]

\* The host file "old", from which the files of the images were copied.
Piece(name, part) == [kind |-> "file", of |-> <<name>>, part |-> part]
Old(part) == Piece("old", part)

Empty == [x \in {} |-> 0]

\* Text, read as entries: the first four characters are an inode number, the
\* next two a length, then come the name's length and a file type.
Garbled == [o \in {0} |-> [inode |-> 0, rec_len |-> 8303, name |-> "text",
                          file_type |-> "none"]]

\* All files are text, but "docs", which spells a file with the number of an
\* inode that has no name, a directory with the number of a file, and a file
\* with a number past the table.
MCSpelled ==
    (Piece("b", 0) :> Garbled) @@ (Old(0) :> Garbled) @@
    (Piece("docs", 0) :> Chain(<<E(1, "a", "file"), E(4, "b", "dir"), E(0, "c", "file")>>))

\* A new file system.
Fresh ==
    Image(1, 2, 2 :> 2, 2 :> <<1, 0, 0>>,
          1 :> Chain(<<E(2, ".", "dir"), E(2, "..", "dir")>>), Empty, Empty)

\* A directory, and a file with one name in it and one in the root.
Populated ==
    Image(4, 4, (2 :> 3) @@ (3 :> 2) @@ (4 :> 2),
          (2 :> <<1, 3, 0>>) @@ (3 :> <<2, 0, 0>>) @@ (4 :> <<4, 0, 0>>),
          (1 :> DirChain(2, 2, E(3, "docs", "dir"))) @@
          (2 :> DirChain(3, 2, E(4, "a", "file"))) @@
          (3 :> Chain(<<E(4, "b", "file")>>)),
          Empty, 4 :> Old(0))

\* The same with no inode free.
NoneFree == [Populated EXCEPT !.inode_bitmap = Inodes, !.i_links_count[1] = 1]

\* A file that needs its indirect block (largefile.img).
Large ==
    Image(5, 3, (2 :> 2) @@ (3 :> 1), (2 :> <<1, 0, 0>>) @@ (3 :> <<2, 3, 4>>),
          1 :> DirChain(2, 2, E(3, "a", "file")), 4 :> (0 :> 5),
          (2 :> Old(0)) @@ (3 :> Old(1)) @@ (5 :> Old(2)))

\* A root directory with no room in its direct blocks.
Crowded ==
    Image(3, 3, (2 :> 2) @@ (3 :> 4), (2 :> <<1, 2, 0>>) @@ (3 :> <<3, 0, 0>>),
          (1 :> DirChain(2, 2, E(3, "a", "file"))) @@
          (2 :> Chain(<<E(3, "x", "file"), E(3, "y", "file"), E(3, "b", "file")>>)),
          Empty, 3 :> Old(0))

\* A root directory with an indirect block and no room at all.
Packed ==
    Image(4, 3, (2 :> 2) @@ (3 :> 7), (2 :> <<1, 2, 3>>) @@ (3 :> <<0, 0, 0>>),
          (1 :> DirChain(2, 2, E(3, "a", "file"))) @@
          (2 :> Chain(<<E(3, "x", "file"), E(3, "y", "file"), E(3, "z", "file")>>)) @@
          (4 :> Chain(<<E(3, "u", "file"), E(3, "v", "file"), E(3, "w", "file")>>)),
          3 :> (0 :> 4), Empty)

\* An entry "docs" that fills its 12 bytes, as ext2 allows, and one behind it
\* (with BLOCK_SIZE = 48).
Tight ==
    Image(2, 3, (2 :> 2) @@ (3 :> 2), (2 :> <<1, 0, 0>>) @@ (3 :> <<2, 0, 0>>),
          1 :> Chain(<<E(2, ".", "dir"), E(2, "..", "dir"), E(3, "docs", "file"),
                       E(3, "b", "file")>>),
          Empty, 2 :> Old(0))

MCFresh == {Fresh}
MCTight == {Tight}
MCImages == {Fresh, Populated, NoneFree, Large, Crowded, Packed}
=============================================================================
