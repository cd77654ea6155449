--------------------------- MODULE PromiseProofs ---------------------------
(***************************************************************************)
(* Theorems about what a command of Ext2 does to the names in all          *)
(* directories: Ext2 implements AbstractNames, no insertion loses a name,  *)
(* no block is leaked but in the cases that are known, and a command that  *)
(* reports success has done what it was asked to.                          *)
(***************************************************************************)
EXTENDS NamesProofs

-----------------------------------------------------------------------------
(* The names, entry by entry *)

\* Entry o of slot i of directory d is one that ext2_ls shows without -a.
Shown(d, i, o) ==
    d \in Directories /\ Lists(d, i, o) /\ Says(d, i, o).name \notin {".", ".."}

\* What NameSpace has of it.
NameAt(d, i, o) == [dir |-> d, name |-> Says(d, i, o).name,
                    inode |-> Says(d, i, o).inode, type |-> Says(d, i, o).file_type]

\* NameSpace, entry by entry.
SpaceShown ==
    \A n : n \in NameSpace <=> \E d, i, o : Shown(d, i, o) /\ n = NameAt(d, i, o)

\* What ext2_ls shows of a directory, and of a block.
Plain(k) == print_dir_contents(k, FALSE)
PlainNames(block) == print_block_contents(block, FALSE)

\* The entries of a block that are shown.
LEMMA PlainNamesIs ==
    \A b, o : o \in PlainNames(b) <=>
        o \in DOMAIN b /\ b[o].name # Unnamed /\ b[o].name \notin {".", ".."}
BY DEF PlainNames, print_block_contents

\* The positions that are shown.
LEMMA PlainIs ==
    ASSUME NEW k
    PROVE  \A p : p \in Plain(k) <=>
              \E i \in Slots : \E o : /\ get_inode_block_number(k, i) # 0 /\ p = <<i, o>>
                                    /\ o \in PlainNames(dirents[get_inode_block_number(k, i)])
<1>. DEFINE Of(i) == {<<i, o>> : o \in PlainNames(dirents[get_inode_block_number(k, i)])}
<1>1. \A p, i : p \in Of(i) <=>
        \E o \in PlainNames(dirents[get_inode_block_number(k, i)]) : p = <<i, o>>
  OBVIOUS
<1>2. Plain(k) = UNION {Of(i) : i \in {j \in Slots : get_inode_block_number(k, j) # 0}}
  BY Zenon DEF print_dir_contents, Plain, PlainNames
<1>. HIDE DEF Of
<1>3. \A p : p \in Plain(k) <=>
        \E i \in Slots : get_inode_block_number(k, i) # 0 /\ p \in Of(i)
  BY <1>2
<1>. QED  BY <1>1, <1>3

\* NameSpace is what is shown of the directories, which are all in use.
LEMMA SpaceIs == LiveDirs => SpaceShown
<1>. SUFFICES ASSUME LiveDirs PROVE SpaceShown
  OBVIOUS
<1>. DEFINE Name(k, e) == [dir |-> k, name |-> e.name, inode |-> e.inode, type |-> e.file_type]
            In(k) == {Name(k, EntryAt(k, p)) : p \in Plain(k)}
<1>1. NameSpace = UNION {In(k) : k \in Directories}
  BY Zenon DEF NameSpace, Plain
<1>2. \A n, k : n \in In(k) <=> \E p \in Plain(k) : n = Name(k, EntryAt(k, p))
  OBVIOUS
<1>. HIDE DEF In
<1>3. \A n : n \in NameSpace <=> \E k \in Directories : n \in In(k)
  BY <1>1
<1>4. ASSUME NEW k \in Directories, NEW i \in Slots, NEW o
      PROVE  /\ EntryAt(k, <<i, o>>) = Says(k, i, o)
             /\ Shown(k, i, o) <=>
                   /\ get_inode_block_number(k, i) # 0
                   /\ o \in PlainNames(dirents[get_inode_block_number(k, i)])
  <2>1. get_inode_block_number(k, i) = At(i_block, numbers, k, i)
    BY HeldIs
  <2>2. k \in inode_bitmap
    BY DEF LiveDirs
  <2>3. EntryAt(k, <<i, o>>) = Says(k, i, o)
    BY Listing
  <2>. QED  BY <2>1, <2>2, <2>3, PlainNamesIs DEF Shown, Lists, Says
<1>5. ASSUME NEW n, n \in NameSpace PROVE \E d, i, o : Shown(d, i, o) /\ n = NameAt(d, i, o)
  <2>1. PICK k \in Directories : n \in In(k)
    BY <1>3, <1>5
  <2>2. PICK p \in Plain(k) : n = Name(k, EntryAt(k, p))
    BY <1>2, <2>1
  <2>3. PICK i, o : /\ i \in Slots /\ get_inode_block_number(k, i) # 0 /\ p = <<i, o>>
                    /\ o \in PlainNames(dirents[get_inode_block_number(k, i)])
    BY PlainIs
  <2>. QED  BY <1>4, <2>2, <2>3 DEF NameAt
<1>6. ASSUME NEW d, NEW i, NEW o, Shown(d, i, o) PROVE NameAt(d, i, o) \in NameSpace
  <2>1. d \in Directories /\ i \in Slots
    BY <1>6 DEF Shown, Lists
  <2>2. <<i, o>> \in Plain(d)
    BY <1>4, <1>6, <2>1, PlainIs
  <2>3. NameAt(d, i, o) = Name(d, EntryAt(d, <<i, o>>))
    BY <1>4, <2>1 DEF NameAt
  <2>. QED  BY <1>2, <1>3, <2>1, <2>2, <2>3
<1>. QED  BY <1>5, <1>6 DEF SpaceShown

\* Before and after a step.
LEMMA SpaceFacts == (NamesInv => SpaceShown) /\ (NamesInv' => SpaceShown')
<1>1. NamesInv => SpaceShown
  BY SpaceIs DEF NamesInv, DiskNames
<1>2. NamesInv' => SpaceShown'
  BY <1>1, PTL
<1>. QED  BY <1>1, <1>2

\* Entries that say the same are the same name.
LEMMA AlikeNames ==
    ASSUME NEW d, NEW i, NEW o, Alike(Says(d, i, o)', Says(d, i, o))
    PROVE  NameAt(d, i, o)' = NameAt(d, i, o)
BY DEF NameAt, Alike

\* A step that is not noticed leaves the names as they are.
LEMMA SameSpace ==
    ASSUME NamesInv, NamesInv', Unnoticed
    PROVE  NameSpace' = NameSpace
<1>1. SpaceShown /\ SpaceShown'
  BY SpaceFacts
<1>2. \A d, i, o : Shown(d, i, o) => Shown(d, i, o)' /\ NameAt(d, i, o)' = NameAt(d, i, o)
  BY AlikeNames DEF Unnoticed, NoNameGone, Shown, Alike
<1>3. \A d, i, o : Shown(d, i, o)' => Shown(d, i, o) /\ NameAt(d, i, o)' = NameAt(d, i, o)
  BY AlikeNames DEF Unnoticed, NoNewName, Shown, Alike
<1>4. ASSUME NEW n PROVE n \in NameSpace' <=> n \in NameSpace
  <2>1. n \in NameSpace <=> \E d, i, o : Shown(d, i, o) /\ n = NameAt(d, i, o)
    BY <1>1 DEF SpaceShown
  <2>2. n \in NameSpace' <=> \E d, i, o : Shown(d, i, o)' /\ n = NameAt(d, i, o)'
    BY <1>1 DEF SpaceShown
  <2>. QED  BY <1>2, <1>3, <2>1, <2>2
<1>. QED  BY <1>4

-----------------------------------------------------------------------------
(* Steps that leave the names alone *)

\* A step of AbstractNames that keeps the promise, or a stutter.
Promised ==
    [\/ Promise!Start \/ Promise!Fail \/ Promise!NoNameChange
     \/ Promise!Link \/ Promise!Unlink \/ Promise!End]_<<NameSpace, Phase>>

\* The ways a command may go on without a change of names.
PhaseMoves ==
    \/ Phase' = Phase
    \/ Phase = "idle" /\ Phase' \in {"running", "failed"}
    \/ Phase = "running" /\ Phase' \in {"done", "failed"}
    \/ Phase \in {"done", "failed"} /\ Phase' = "idle"

\* AbstractNames allows them all.
LEMMA SameNamesPromised ==
    ASSUME NameSpace' = NameSpace, PhaseMoves
    PROVE  Promised
BY DEF Promised, PhaseMoves, Promise!Start, Promise!Fail, Promise!NoNameChange,
       Promise!Succeed, Promise!End

\* What Phase is in each step of a command.
PhaseFacts ==
    /\ pc = "idle" => Phase = "idle"
    /\ pc \in {"exit", "undo"} => Phase = "failed"
    /\ pc = "count" /\ ~cmd.made => Phase = "failed"
    /\ pc = "count" /\ cmd.made => Phase = "done"
    /\ pc \in {"drop", "free", "ok"} => Phase = "done"
    /\ pc = "write" /\ ~cmd.exists => Phase = "done"
    /\ pc = "write" /\ cmd.exists => Phase = "running"
    /\ pc \in {"blocks", "parent", "inode", "path", "dot", "dotdot", "entry", "unlink"}
          => Phase = "running"

\* These are the cases of its definition.
LEMMA PhaseIs == PhaseFacts /\ PhaseFacts'
<1>1. PhaseFacts
  BY DEF PhaseFacts, Phase
<1>2. PhaseFacts'
  BY <1>1, PTL
<1>. QED  BY <1>1, <1>2

\* A command that is given starts, or fails at once.
LEMMA CommandPromised ==
    ASSUME IInv, IInv', NamesInv, NamesInv', Command, ~strayed'
    PROVE  Promised
<1>1. Asked /\ pc' \in {"blocks", "inode", "entry", "unlink", "exit"}
  <2>1. ASSUME NEW src \in DOMAIN HostFiles, NEW dest \in Paths, ext2_cp(src, dest)
        PROVE  Given /\ pc' \in {"blocks", "exit"}
    BY <2>1 DEF ext2_cp, Refused
  <2>2. ASSUME NEW src \in Paths, NEW dest \in Paths, NEW sym \in BOOLEAN, ext2_ln(src, dest, sym)
        PROVE  Given /\ pc' \in {"inode", "entry", "exit"}
    BY <2>2 DEF ext2_ln, Refused
  <2>3. ASSUME NEW path \in Paths, ext2_mkdir(path) PROVE Given /\ pc' \in {"inode", "exit"}
    BY <2>3 DEF ext2_mkdir, Refused
  <2>4. ASSUME NEW path \in Paths, ext2_rm(path) PROVE Given /\ pc' \in {"unlink", "exit"}
    BY <2>4 DEF ext2_rm, Refused
  <2>. QED  BY <2>1, <2>2, <2>3, <2>4, CommandIsGiven DEF Command
<1>2. Still /\ pc = "idle"
  BY <1>1, GivenStill
<1>3. NameSpace' = NameSpace
  BY <1>2, StillUnnoticed, SameSpace DEF NamesInv
<1>4. Phase = "idle" /\ Phase' \in {"running", "failed"}
  BY <1>1, <1>2, PhaseIs DEF PhaseFacts
<1>. QED  BY <1>3, <1>4, SameNamesPromised DEF PhaseMoves

\* The steps that only take blocks or inodes, look at the disk, count links
\* or end.
LEMMA UnnoticedPromised ==
    ASSUME IInv, IInv', NamesInv, NamesInv',
           \/ allocate_blocks \/ cp_destination \/ AllocateInode
           \/ write_path_to_symlink_inode \/ EntryNowhere
           \/ count_link \/ drop_link \/ Return,
           ~strayed'
    PROVE  Promised
<1>1. cmd \in Locals /\ Control
  BY DEF IInv, Typed
<1>2. CASE allocate_blocks
  <2>1. Unnoticed
    BY <1>2, AllocateBlocksNames
  <2>2. pc = "blocks" /\ pc' \in {"parent", "exit"}
    BY <1>2 DEF allocate_blocks, Fail
  <2>3. Phase = "running" /\ Phase' \in {"running", "failed"}
    BY <2>2, PhaseIs DEF PhaseFacts
  <2>. QED  BY <2>1, <2>3, SameSpace, SameNamesPromised DEF PhaseMoves
<1>3. CASE cp_destination
  <2>1. Unnoticed
    <3>1. Still
      BY <1>3, NotTaken
         DEF cp_destination, Fail, Still, diskVars, bitmapVars, inodeVars, blockVars
    <3>. QED  BY <3>1, StillUnnoticed DEF NamesInv
  <2>2. /\ pc = "parent"
        /\ pc' = "exit" \/ pc' = "inode" \/ (pc' = "write" /\ cmd'.exists)
    BY <1>1, <1>3 DEF cp_destination, Fail, Locals
  <2>3. Phase = "running" /\ Phase' \in {"running", "failed"}
    BY <2>2, PhaseIs DEF PhaseFacts
  <2>. QED  BY <2>1, <2>3, SameSpace, SameNamesPromised DEF PhaseMoves
<1>4. CASE AllocateInode
  <2>1. Unnoticed
    BY <1>4, AllocateInodeNames
  <2>2. pc = "inode" /\ pc' \in {"entry", "dot", "path", "exit"}
    BY <1>1, <1>4 DEF AllocateInode, AfterAllocation, Fail, Control
  <2>3. Phase = "running" /\ Phase' \in {"running", "failed"}
    BY <2>2, PhaseIs DEF PhaseFacts
  <2>. QED  BY <2>1, <2>3, SameSpace, SameNamesPromised DEF PhaseMoves
<1>5. CASE write_path_to_symlink_inode
  <2>1. Unnoticed
    BY <1>5, WritePathNames
  <2>2. pc = "path" /\ pc' \in {"entry", "exit"}
    BY <1>5 DEF write_path_to_symlink_inode, Fail
  <2>3. Phase = "running" /\ Phase' \in {"running", "failed"}
    BY <2>2, PhaseIs DEF PhaseFacts
  <2>. QED  BY <2>1, <2>3, SameSpace, SameNamesPromised DEF PhaseMoves
<1>6. CASE EntryNowhere
  <2>1. Unnoticed
    <3>1. Still
      BY <1>6 DEF EntryNowhere, Still, diskVars, bitmapVars, inodeVars, blockVars
    <3>. QED  BY <3>1, StillUnnoticed DEF NamesInv
  <2>2. pc \in {"dot", "dotdot", "entry"} /\ pc' = AfterEntry(FALSE) /\ cmd' = cmd
    BY <1>6 DEF EntryNowhere
  <2>3. \/ pc' = "undo"
        \/ pc' = "write" /\ ~cmd'.exists
        \/ pc' = "count" /\ ~cmd'.made
    BY <2>2, AfterNoEntry DEF NamesInv, NamesControl
  <2>4. Phase = "running" /\ Phase' \in {"done", "failed"}
    BY <2>2, <2>3, PhaseIs DEF PhaseFacts
  <2>. QED  BY <2>1, <2>4, SameSpace, SameNamesPromised DEF PhaseMoves
<1>7. CASE count_link
  <2>1. Unnoticed
    <3>1. Still
      BY <1>7 DEF count_link, Still, bitmapVars, blockVars
    <3>. QED  BY <3>1, StillUnnoticed DEF NamesInv
  <2>2. pc = "count" /\ pc' = IF cmd.made THEN "ok" ELSE "exit"
    BY <1>7 DEF count_link
  <2>3. Phase' = Phase
    BY <2>2, PhaseIs DEF PhaseFacts
  <2>. QED  BY <2>1, <2>3, SameSpace, SameNamesPromised DEF PhaseMoves
<1>8. CASE drop_link
  <2>1. Unnoticed
    <3>1. Still
      BY <1>8 DEF drop_link, Still, bitmapVars, blockVars
    <3>. QED  BY <3>1, StillUnnoticed DEF NamesInv
  <2>2. pc = "drop" /\ pc' \in {"free", "ok"}
    BY <1>8 DEF drop_link
  <2>3. Phase' = Phase
    BY <2>2, PhaseIs DEF PhaseFacts
  <2>. QED  BY <2>1, <2>3, SameSpace, SameNamesPromised DEF PhaseMoves
<1>9. CASE Return
  <2>1. Unnoticed
    BY <1>9, OverUnnoticed DEF NamesInv
  <2>2. pc \in {"ok", "exit"} /\ pc' = "idle"
    BY <1>9 DEF Return
  <2>3. Phase \in {"done", "failed"} /\ Phase' = "idle"
    BY <2>2, PhaseIs DEF PhaseFacts
  <2>. QED  BY <2>1, <2>3, SameSpace, SameNamesPromised DEF PhaseMoves
<1>. QED  BY <1>2, <1>3, <1>4, <1>5, <1>6, <1>7, <1>8, <1>9

-----------------------------------------------------------------------------
(* Making an entry *)

\* A step that shows the same names as before.
LEMMA SpaceStays ==
    ASSUME NamesInv, NamesInv',
           \A d, i, o : Shown(d, i, o)' <=> Shown(d, i, o),
           \A d, i, o : Shown(d, i, o) => NameAt(d, i, o)' = NameAt(d, i, o)
    PROVE  NameSpace' = NameSpace
<1>1. SpaceShown /\ SpaceShown'
  BY SpaceFacts
<1>2. ASSUME NEW n PROVE n \in NameSpace' <=> n \in NameSpace
  <2>1. n \in NameSpace <=> \E d, i, o : Shown(d, i, o) /\ n = NameAt(d, i, o)
    BY <1>1 DEF SpaceShown
  <2>2. n \in NameSpace' <=> \E d, i, o : Shown(d, i, o)' /\ n = NameAt(d, i, o)'
    BY <1>1 DEF SpaceShown
  <2>. QED  BY <2>1, <2>2
<1>. QED  BY <1>2

\* A step that shows one more.
LEMMA SpaceGrows ==
    ASSUME NamesInv, NamesInv', NEW x, NEW j, NEW q,
           \A d, i, o : Shown(d, i, o)' <=> Shown(d, i, o) \/ (d = x /\ i = j /\ o = q),
           \A d, i, o : Shown(d, i, o) => NameAt(d, i, o)' = NameAt(d, i, o)
    PROVE  NameSpace' = NameSpace \cup {NameAt(x, j, q)'}
<1>1. SpaceShown /\ SpaceShown'
  BY SpaceFacts
<1>2. ASSUME NEW n PROVE n \in NameSpace' <=> n \in NameSpace \/ n = NameAt(x, j, q)'
  <2>1. n \in NameSpace <=> \E d, i, o : Shown(d, i, o) /\ n = NameAt(d, i, o)
    BY <1>1 DEF SpaceShown
  <2>2. n \in NameSpace' <=> \E d, i, o : Shown(d, i, o)' /\ n = NameAt(d, i, o)'
    BY <1>1 DEF SpaceShown
  <2>. QED  BY <2>1, <2>2
<1>. QED  BY <1>2

\* What is shown once an entry has been made: the same, and the entry if it is
\* attached in a directory and has a name of its own.
LEMMA MadeShown ==
    ASSUME IInv, IInv', MadeStep, NEW e, NEW i, NEW b, NEW o, Made(e, i, b, o),
           e.dir \in inode_bitmap, e.name \in Names,
           \A x \in Directories' : x \in Directories \/ \A j, q : ~Lists(x, j, q)
    PROVE  /\ \A x, j, q : Shown(x, j, q)' <=>
                 \/ Shown(x, j, q)
                 \/ /\ x = e.dir /\ j = i /\ q = o
                    /\ Attached(e, i, b) /\ e.dir \in Directories' /\ e.name \notin {".", ".."}
           /\ \A x, j, q : Shown(x, j, q) => NameAt(x, j, q)' = NameAt(x, j, q)
           /\ Attached(e, i, b) =>
                 NameAt(e.dir, i, o)' = [dir |-> e.dir, name |-> e.name,
                                         inode |-> e.inode, type |-> e.type]
<1>1. /\ \A d, j, q : Lists(d, j, q)' <=>
            Lists(d, j, q) \/ (d = e.dir /\ j = i /\ q = o /\ Attached(e, i, b))
      /\ \A d, j, q : Lists(d, j, q) => Alike(Says(d, j, q)', Says(d, j, q))
      /\ ~Lists(e.dir, i, o)
      /\ Attached(e, i, b) =>
            /\ Says(e.dir, i, o)'.inode = e.inode /\ Says(e.dir, i, o)'.name = e.name
            /\ Says(e.dir, i, o)'.file_type = e.type
  BY MadeLists
<1>2. \A x : x \in Directories => x \in Directories'
  BY MadeDirectories
<1>3. \A x, j, q : Lists(x, j, q) => Says(x, j, q)'.name = Says(x, j, q).name
  BY <1>1 DEF Alike
<1>4. ASSUME NEW x, NEW j, NEW q
      PROVE  Shown(x, j, q)' <=>
               \/ Shown(x, j, q)
               \/ /\ x = e.dir /\ j = i /\ q = o
                  /\ Attached(e, i, b) /\ e.dir \in Directories' /\ e.name \notin {".", ".."}
  <2>1. CASE Lists(x, j, q)
    <3>1. ~(x = e.dir /\ j = i /\ q = o) /\ Lists(x, j, q)'
      BY <1>1, <2>1
    <3>2. x \in Directories' <=> x \in Directories
      BY <1>2, <2>1
    <3>. QED  BY <1>3, <2>1, <3>1, <3>2 DEF Shown
  <2>2. CASE ~Lists(x, j, q)
    BY <1>1, <2>2 DEF Shown
  <2>. QED  BY <2>1, <2>2
<1>5. \A x, j, q : Shown(x, j, q) => NameAt(x, j, q)' = NameAt(x, j, q)
  BY <1>1, AlikeNames DEF Shown
<1>6. Attached(e, i, b) =>
         NameAt(e.dir, i, o)' = [dir |-> e.dir, name |-> e.name,
                                 inode |-> e.inode, type |-> e.type]
  BY <1>1 DEF NameAt
<1>. QED  BY <1>4, <1>5, <1>6

\* No name is lost when one is made.
LEMMA MadeKeeps ==
    ASSUME IInv, IInv', NamesInv, NamesInv', MadeStep,
           NEW e, NEW i, NEW b, NEW o, Made(e, i, b, o),
           e.dir \in inode_bitmap, e.name \in Names,
           \A x \in Directories' : x \in Directories \/ \A j, q : ~Lists(x, j, q)
    PROVE  \/ NameSpace' = NameSpace /\ ~(/\ Attached(e, i, b) /\ e.dir \in Directories'
                                          /\ e.name \notin {".", ".."})
           \/ /\ e.dir \in Directories' /\ e.name \notin {".", ".."}
              /\ NameSpace' = NameSpace \cup {[dir |-> e.dir, name |-> e.name,
                                               inode |-> e.inode, type |-> e.type]}
<1>. DEFINE seen == /\ Attached(e, i, b) /\ e.dir \in Directories'
                    /\ e.name \notin {".", ".."}
<1>1. /\ \A x, j, q : Shown(x, j, q)' <=>
            Shown(x, j, q) \/ (x = e.dir /\ j = i /\ q = o /\ seen)
      /\ \A x, j, q : Shown(x, j, q) => NameAt(x, j, q)' = NameAt(x, j, q)
      /\ seen => NameAt(e.dir, i, o)' = [dir |-> e.dir, name |-> e.name,
                                         inode |-> e.inode, type |-> e.type]
  BY MadeShown
<1>2. CASE ~seen
  <2>1. \A x, j, q : Shown(x, j, q)' <=> Shown(x, j, q)
    BY <1>1, <1>2
  <2>2. NameSpace' = NameSpace
    BY <1>1, <2>1, SpaceStays
  <2>. QED  BY <1>2, <2>2
<1>3. CASE seen
  <2>1. \A x, j, q : Shown(x, j, q)' <=> Shown(x, j, q) \/ (x = e.dir /\ j = i /\ q = o)
    BY <1>1, <1>3
  <2>2. NameSpace' = NameSpace \cup {NameAt(e.dir, i, o)'}
    <3>. HIDE DEF seen
    <3>. QED  BY <1>1, <2>1, SpaceGrows
  <2>. QED  BY <1>1, <1>3, <2>2
<1>. QED  BY <1>2, <1>3

\* The entry that a step of a command wants is in an inode in use, and no
\* directory comes up with it but the one that ext2_mkdir makes.
LEMMA WantedFacts ==
    ASSUME IInv, IInv', NamesInv, Kinds, MadeStep,
           NEW e, e = Wanted, NEW i, NEW b, NEW o, Made(e, i, b, o)
    PROVE  /\ e.dir \in inode_bitmap /\ e.name \in Names
           /\ \A x \in Directories' : x \in Directories \/ \A j, q : ~Lists(x, j, q)
           /\ pc \in {"dot", "dotdot"} => e.name \in {".", ".."}
           /\ pc = "entry" => /\ Directories' = Directories
                              /\ e.dir = cmd.parent /\ e.name = listPeek(cmd.comps)
                              /\ e.dir \in Directories => ~HasName(e.dir, e.name)
<1>1. PICK k, d : k = cmd.inode /\ d = cmd.parent
  OBVIOUS
<1>2. pc \in {"dot", "dotdot", "entry"}
  BY DEF MadeStep
<1>3. \A x : x \in Directories' <=> x \in Directories \/ (e.type = "dir" /\ x = e.inode)
  BY MadeDirectories
<1>4. CASE pc = "dot"
  <2>1. e.dir = k /\ e.inode = k /\ e.name = "."
    BY <1>1, <1>4 DEF Wanted
  <2>2. k \in inode_bitmap /\ Held(k) = {}
    BY <1>1, <1>4 DEF NamesInv, NamesControl
  <2>3. \A j, q : ~Lists(k, j, q)
    BY <2>2, HeldIs DEF Lists
  <2>4. "." \in Names
    BY BlockAssumption
  <2>. QED  BY <1>3, <1>4, <2>1, <2>2, <2>3, <2>4
<1>5. CASE pc = "dotdot"
  <2>1. e.dir = k /\ e.inode = d /\ e.name = ".."
    BY <1>1, <1>5 DEF Wanted
  <2>2. k \in inode_bitmap /\ DirWithout(d, k)
    BY <1>1, <1>5 DEF NamesInv, NamesControl, IInv, Control
  <2>3. d \in Directories
    BY <2>2, DirectoryIs DEF DirWithout
  <2>4. ".." \in Names
    BY BlockAssumption
  <2>. QED  BY <1>3, <1>5, <2>1, <2>2, <2>3, <2>4
<1>6. CASE pc = "entry"
  <2>1. e.dir = d /\ e.inode = k /\ e.name = listPeek(cmd.comps) /\ e.type = cmd.type
    BY <1>1, <1>6 DEF Wanted
  <2>2. cmd.comps # <<>> /\ cmd.comps \in Seq(Names) /\ cmd.op \in {"cp", "ln", "ln_s", "mkdir"}
    BY <1>6 DEF IInv, Control, Typed, Locals
  <2>3. d \in inode_bitmap /\ (d \in Directories => ~HasName(d, e.name))
    BY <1>1, <1>6, <2>1 DEF NamesInv, NamesControl
  <2>4. e.name \in Names
    BY <2>1, <2>2, PopFacts
  <2>5. e.type = "dir" => k \in Directories
    <3>1. SUFFICES ASSUME e.type = "dir" PROVE k \in Directories
      OBVIOUS
    <3>2. cmd.op = "mkdir"
      BY <2>1, <2>2, <3>1 DEF Kinds
    <3>. QED  BY <1>1, <1>6, <3>2 DEF NamesInv, NamesControl, Nascent
  <2>6. Directories' = Directories
    BY <1>3, <2>1, <2>5
  <2>. QED  BY <1>1, <1>6, <2>1, <2>3, <2>4, <2>6
<1>. QED  BY <1>2, <1>4, <1>5, <1>6

\* What a step that makes an entry does to the names: none is lost, and one is
\* new at most, that of the command, which is then done.
LEMMA MadeSpace ==
    ASSUME IInv, IInv', NamesInv, NamesInv', Kinds, MadeStep,
           NEW e, e = Wanted, NEW i, NEW b, NEW o, Made(e, i, b, o)
    PROVE  /\ Promised
           /\ NameSpace \subseteq NameSpace'
<1>1. /\ e.dir \in inode_bitmap /\ e.name \in Names
      /\ pc \in {"dot", "dotdot"} => e.name \in {".", ".."}
      /\ pc = "entry" => /\ Directories' = Directories
                         /\ e.dir \in Directories => ~HasName(e.dir, e.name)
      /\ \A x \in Directories' : x \in Directories \/ \A j, q : ~Lists(x, j, q)
  BY WantedFacts
<1>2. PICK n : n = [dir |-> e.dir, name |-> e.name, inode |-> e.inode, type |-> e.type]
  OBVIOUS
<1>3. \/ NameSpace' = NameSpace
      \/ /\ e.dir \in Directories' /\ e.name \notin {".", ".."}
         /\ NameSpace' = NameSpace \cup {n}
  BY <1>1, <1>2, MadeKeeps
<1>4. NameSpace \subseteq NameSpace'
  BY <1>3
<1>5. cmd \in Locals /\ cmd' = [cmd EXCEPT !.made = TRUE] /\ pc' = AfterEntry(TRUE)
  BY DEF IInv, Typed, MadeStep
<1>6. cmd'.made = TRUE /\ cmd'.exists = cmd.exists
  BY <1>5 DEF Locals
<1>7. CASE pc \in {"dot", "dotdot"}
  <2>1. NameSpace' = NameSpace
    BY <1>1, <1>3, <1>7
  <2>2. pc' \in {"dotdot", "entry"}
    BY <1>5, <1>7 DEF AfterEntry
  <2>3. Phase = "running" /\ Phase' = "running"
    BY <1>7, <2>2, PhaseIs DEF PhaseFacts
  <2>. QED  BY <1>4, <2>1, <2>3, SameNamesPromised DEF PhaseMoves
<1>8. CASE pc = "entry"
  <2>1. cmd.op \in {"cp", "ln", "ln_s", "mkdir"}
    BY <1>8 DEF IInv, Control
  <2>2. \/ pc' = "write" /\ ~cmd.exists
        \/ pc' = "count"
        \/ pc' = "ok"
    BY <1>5, <1>8, <2>1 DEF AfterEntry, NamesInv, NamesControl
  <2>3. Phase = "running" /\ Phase' = "done"
    BY <1>6, <1>8, <2>2, PhaseIs DEF PhaseFacts
  <2>4. CASE NameSpace' = NameSpace
    BY <1>4, <2>3, <2>4, SameNamesPromised DEF PhaseMoves
  <2>5. CASE NameSpace' # NameSpace
    <3>1. e.dir \in Directories /\ NameSpace' = NameSpace \cup {n} /\ n \in NameSpace'
      BY <1>1, <1>3, <1>8, <2>5
    <3>2. ASSUME NEW m \in NameSpace, m.dir = n.dir, m.name = n.name PROVE FALSE
      <4>1. PICK d, j, q : Shown(d, j, q) /\ m = NameAt(d, j, q)
        BY SpaceFacts DEF SpaceShown
      <4>2. d = e.dir /\ Says(d, j, q).name = e.name /\ Lists(d, j, q)
        BY <1>2, <3>2, <4>1 DEF NameAt, Shown
      <4>3. HasName(e.dir, e.name)
        BY <1>1, <4>2, NamesListed DEF NameFacts
      <4>. QED  BY <1>1, <1>8, <3>1, <4>3
    <3>3. Promise!Link
      BY <2>3, <3>1, <3>2 DEF Promise!Link, Promise!Succeed
    <3>. QED  BY <1>4, <3>3 DEF Promised
  <2>. QED  BY <2>4, <2>5
<1>. QED  BY <1>7, <1>8 DEF MadeStep

\* The steps that make entries.
LEMMA EntryPromised ==
    ASSUME IInv, IInv', NamesInv, NamesInv', Kinds, EntryInExistingBlock \/ EntryInNewBlock
    PROVE  /\ Promised
           /\ NameSpace \subseteq NameSpace'
<1>1. PICK e : e = Wanted
  OBVIOUS
<1>2. CASE EntryInExistingBlock
  BY <1>1, <1>2, ExistingMade, MadeSpace
<1>3. CASE EntryInNewBlock /\ ~Fail
  BY <1>1, <1>3, NewMade, MadeSpace
<1>4. CASE EntryInNewBlock /\ Fail
  <2>1. Unnoticed
    BY <1>4, OverUnnoticed DEF NamesInv
  <2>2. NameSpace' = NameSpace
    BY <2>1, SameSpace
  <2>3. pc \in {"dot", "dotdot", "entry"} /\ pc' = "exit"
    BY <1>4 DEF EntryInNewBlock, Fail
  <2>4. Phase = "running" /\ Phase' = "failed"
    BY <2>3, PhaseIs DEF PhaseFacts
  <2>. QED  BY <2>2, <2>4, SameNamesPromised DEF PhaseMoves
<1>. QED  BY <1>2, <1>3, <1>4

-----------------------------------------------------------------------------
(* Writing the data *)

\* No name changes but those of the inode that is written.
LEMMA CpDataLists ==
    ASSUME IInv, cp_data, ~strayed', NEW k, k = cmd.inode
    PROVE  /\ k \notin Directories /\ Directories' = Directories
           /\ \A d, i, o : d # k => (Lists(d, i, o)' <=> Lists(d, i, o))
           /\ \A d, i, o : d # k /\ Lists(d, i, o) => Says(d, i, o)' = Says(d, i, o)
<1>1. /\ pc = "write" /\ dirents' = dirents /\ k \notin Directories
      /\ block_bitmap' = block_bitmap /\ inode_bitmap' = inode_bitmap
  BY NotTaken DEF cp_data, bitmapVars
<1>2. k \in Inodes
  BY <1>1 DEF IInv, Control
<1>3. Moved(k, CopySlots)
  BY <1>2, CpDataFacts
<1>4. Directories' = Directories
  <2>1. BlocksKeep /\ BlocksOnly
    BY <1>1 DEF BlocksKeep, BlocksOnly, Alike
  <2>. QED  BY <2>1, QuietDirectories
<1>5. ASSUME NEW d, d # k, NEW i, NEW o
      PROVE  /\ Lists(d, i, o)' <=> Lists(d, i, o)
             /\ Lists(d, i, o) => Says(d, i, o)' = Says(d, i, o)
  <2>1. ASSUME d \in Inodes, i \in Slots
        PROVE  At(i_block', numbers', d, i) = At(i_block, numbers, d, i)
    BY <1>3, <1>5, <2>1, KeptIs DEF Moved
  <2>2. inode_bitmap \subseteq Inodes
    BY DEF IInv, Typed
  <2>. QED  BY <1>1, <2>1, <2>2 DEF Lists, Says
<1>. QED  BY <1>1, <1>4, <1>5

\* The data of a file changes no name.
LEMMA CpDataPromised ==
    ASSUME IInv, IInv', NamesInv, NamesInv', cp_data, ~strayed'
    PROVE  Promised
<1>1. pc = "write" /\ pc' = "ok"
  BY DEF cp_data
<1>2. PICK k : k = cmd.inode
  OBVIOUS
<1>3. /\ k \notin Directories /\ Directories' = Directories
      /\ \A d, i, o : d # k => (Lists(d, i, o)' <=> Lists(d, i, o))
      /\ \A d, i, o : d # k /\ Lists(d, i, o) => Says(d, i, o)' = Says(d, i, o)
  BY <1>2, CpDataLists
<1>4. \A d, i, o : Shown(d, i, o)' <=> Shown(d, i, o)
  BY <1>3 DEF Shown
<1>5. \A d, i, o : Shown(d, i, o) => NameAt(d, i, o)' = NameAt(d, i, o)
  BY <1>3 DEF Shown, NameAt
<1>6. NameSpace' = NameSpace
  BY <1>4, <1>5, SpaceStays
<1>7. Phase = (IF cmd.exists THEN "running" ELSE "done") /\ Phase' = "done"
  BY <1>1, PhaseIs DEF PhaseFacts
<1>. QED  BY <1>6, <1>7, SameNamesPromised DEF PhaseMoves

-----------------------------------------------------------------------------
(* Taking an entry out, and freeing an inode *)

\* All names but the one that is taken out are left.
LEMMA UnmadeKeeps ==
    ASSUME IInv, UnmadeStep, NEW d, NEW i, NEW b, NEW o, Unmade(d, i, b, o)
    PROVE  \A x, j, q : Lists(x, j, q) /\ ~(x = d /\ j = i /\ q = o) => Lists(x, j, q)'
<1>0. SUFFICES ASSUME NEW x, NEW j, NEW q, Lists(x, j, q), ~(x = d /\ j = i /\ q = o)
               PROVE  Lists(x, j, q)'
  OBVIOUS
<1>. DEFINE c == At(i_block, numbers, x, j)
<1>1. /\ x \in Inodes /\ j \in Slots /\ j \in Kept /\ c \in block_bitmap
      /\ q \in DOMAIN dirents[c] /\ dirents[c][q].name # Unnamed /\ c # 0
      /\ x \in inode_bitmap
  BY <1>0, EntryTypes, KeptIs DEF EntryFacts, Lists, Says
<1>2. c = b <=> x = d /\ j = i
  <2>1. b = At(i_block, numbers, d, i) /\ b # 0 /\ d \in Inodes /\ i \in Kept
    BY KeptIs, Bounds DEF Unmade
  <2>2. Owned(i_block, numbers, block_bitmap, InHand)
    BY OwnedIs DEF IInv
  <2>. QED  BY <1>1, <2>1, <2>2 DEF Owned
<1>. HIDE DEF c
<1>3. c \in block_bitmap' /\ q \in DOMAIN dirents'[c]
  BY <1>0, <1>1, <1>2 DEF Unmade
<1>4. Alike(dirents'[c][q], dirents[c][q])
  BY <1>0, <1>2, <1>3 DEF Unmade
<1>5. At(i_block', numbers', x, j) = c
  <2>1. \/ At(i_block', numbers', x, j) = At(i_block, numbers, x, j)
        \/ x = d /\ j = i /\ b \notin block_bitmap'
    BY <1>1 DEF Unmade
  <2>. QED  BY <1>2, <1>3, <2>1 DEF c
<1>. QED  BY <1>1, <1>3, <1>4, <1>5 DEF Lists, Alike, UnmadeStep

\* delete_child_entry takes one name out, if it is shown.
LEMMA UnlinkPromised ==
    ASSUME IInv, IInv', NamesInv, NamesInv', delete_child_entry
    PROVE  Promised
<1>1. UnmadeStep
  BY ChildUnmade
<1>2. PICK d, i, b, o : /\ Unmade(d, i, b, o) /\ Lists(d, i, o) /\ d = cmd.parent
                        /\ Says(d, i, o).file_type # "dir"
  BY ChildUnmade
<1>3. Directories' = Directories
  <2>1. dirents[b][o].file_type # "dir"
    BY <1>2 DEF Unmade, Says
  <2>. QED  BY <1>2, <2>1, UnmadeDirectories DEF NamesInv, DiskNames
<1>4. inode_bitmap' = inode_bitmap /\ pc = "unlink" /\ pc' = "drop"
  BY <1>1 DEF UnmadeStep
<1>5. \A x, j, q : Lists(x, j, q)' =>
         /\ Lists(x, j, q) /\ ~(x = d /\ j = i /\ q = o)
         /\ Alike(Says(x, j, q)', Says(x, j, q))
  BY <1>1, <1>2, UnmadeLists
<1>6. \A x, j, q : Lists(x, j, q) /\ ~(x = d /\ j = i /\ q = o) => Lists(x, j, q)'
  BY <1>1, <1>2, UnmadeKeeps
<1>7. \A x, j, q : Shown(x, j, q)' <=> Shown(x, j, q) /\ ~(x = d /\ j = i /\ q = o)
  BY <1>3, <1>5, <1>6 DEF Shown, Alike
<1>8. \A x, j, q : Shown(x, j, q)' => NameAt(x, j, q)' = NameAt(x, j, q)
  BY <1>5, AlikeNames DEF Shown
<1>9. ASSUME Shown(d, i, o), NEW x, NEW j, NEW q, Shown(x, j, q),
             NameAt(x, j, q) = NameAt(d, i, o)
      PROVE  x = d /\ j = i /\ q = o
  <2>1. x = d /\ Says(x, j, q).name = Says(d, i, o).name
    BY <1>9 DEF NameAt
  <2>2. EachOnce
    BY OnceIs DEF NamesInv, DiskNames
  <2>3. d \in Directories /\ Lists(d, j, q) /\ Lists(d, i, o)
    BY <1>9, <2>1 DEF Shown
  <2>. QED  BY <2>1, <2>2, <2>3 DEF EachOnce
<1>10. Phase = "running" /\ Phase' = "done"
  BY <1>4, PhaseIs DEF PhaseFacts
<1>11. CASE Shown(d, i, o)
  <2>1. PICK n : n = NameAt(d, i, o)
    OBVIOUS
  <2>2. ASSUME NEW m PROVE m \in NameSpace' <=> m \in NameSpace /\ m # n
    <3>1. m \in NameSpace <=> \E x, j, q : Shown(x, j, q) /\ m = NameAt(x, j, q)
      BY SpaceFacts DEF SpaceShown
    <3>2. m \in NameSpace' <=> \E x, j, q : Shown(x, j, q)' /\ m = NameAt(x, j, q)'
      BY SpaceFacts DEF SpaceShown
    <3>. QED  BY <1>7, <1>8, <1>9, <1>11, <2>1, <3>1, <3>2
  <2>3. n \in NameSpace
    BY <1>11, <2>1, SpaceFacts DEF SpaceShown
  <2>4. NameSpace' = NameSpace \ {n}
    BY <2>2
  <2>5. Promise!Unlink
    BY <1>10, <2>3, <2>4 DEF Promise!Unlink, Promise!Succeed
  <2>. QED  BY <2>5 DEF Promised
<1>12. CASE ~Shown(d, i, o)
  <2>1. \A x, j, q : Shown(x, j, q)' <=> Shown(x, j, q)
    BY <1>7, <1>12
  <2>2. NameSpace' = NameSpace
    BY <1>8, <2>1, SpaceStays
  <2>. QED  BY <1>10, <2>2, SameNamesPromised DEF PhaseMoves
<1>. QED  BY <1>11, <1>12

\* The names of other inodes are left.
LEMMA ReleasedKeeps ==
    ASSUME IInv, NEW k, Released(k)
    PROVE  \A x, j, q : Lists(x, j, q) /\ x # k => Lists(x, j, q)'
<1>1. SUFFICES ASSUME NEW x, x # k, NEW j, NEW q, Lists(x, j, q) PROVE Lists(x, j, q)'
  OBVIOUS
<1>2. x \in Inodes /\ j \in Slots
  BY <1>1, EntryTypes DEF EntryFacts
<1>3. At(i_block', numbers', x, j) = At(i_block, numbers, x, j)
  BY <1>1, <1>2 DEF Released
<1>4. inode_bitmap' = inode_bitmap \ {k} /\ dirents' = dirents
  BY DEF Released
<1>. QED  BY <1>1, <1>3, <1>4 DEF Lists

\* free_inode takes no name with it: the inode is no directory, or one that
\* has only its own entries.
LEMMA ReleasePromised ==
    ASSUME IInv, IInv', NamesInv, NamesInv', release_inode
    PROVE  Promised
<1>1. pc \in {"free", "undo"} /\ pc' = IF pc = "free" THEN "ok" ELSE "exit"
  BY DEF release_inode
<1>2. PICK k : k = cmd.inode
  OBVIOUS
<1>3. Released(k) /\ Dispensable(k)
  BY <1>1, <1>2, InodeReleased, ReleasedGoes
<1>4. Directories' = Directories \ {k}
  BY <1>3, ReleasedDirectories
<1>5. \A x, j, q : Lists(x, j, q)' =>
         Lists(x, j, q) /\ x # k /\ Says(x, j, q)' = Says(x, j, q)
  BY <1>3, ReleasedLists
<1>6. \A x, j, q : Lists(x, j, q) /\ x # k => Lists(x, j, q)'
  BY <1>3, ReleasedKeeps
<1>7. \A j, q : ~Shown(k, j, q)
  <2>1. CASE k \notin Directories
    BY <2>1 DEF Shown
  <2>2. CASE k \in Directories
    <3>1. pc = "undo" /\ cmd.op = "mkdir"
      <4>1. pc # "free"
        BY <1>2, <2>2 DEF NamesInv, NamesControl
      <4>2. cmd.op \in {"ln_s", "mkdir"}
        BY <1>1, <4>1 DEF IInv, Control
      <4>. QED  BY <1>1, <1>2, <2>2, <4>1, <4>2 DEF NamesInv, NamesControl, Nameless
    <3>2. Nascent(k, cmd.parent)
      BY <1>2, <3>1 DEF NamesInv, NamesControl
    <3>3. SUFFICES ASSUME NEW j, NEW q, Lists(k, j, q)
                   PROVE  Says(k, j, q).name \in {".", ".."}
      BY DEF Shown
    <3>4. /\ j \in Held(k) /\ j \in Slots
          /\ get_inode_block_number(k, j) = At(i_block, numbers, k, j)
          /\ q \in DOMAIN dirents[At(i_block, numbers, k, j)]
      BY <3>3, HeldIs DEF Lists
    <3>. QED  BY <3>2, <3>4 DEF Nascent, Says
  <2>. QED  BY <2>1, <2>2
<1>8. \A x, j, q : Shown(x, j, q)' <=> Shown(x, j, q)
  BY <1>4, <1>5, <1>6, <1>7 DEF Shown
<1>9. \A x, j, q : Shown(x, j, q) => NameAt(x, j, q)' = NameAt(x, j, q)
  BY <1>5, <1>8 DEF Shown, NameAt
<1>10. NameSpace' = NameSpace
  BY <1>8, <1>9, SpaceStays
<1>11. Phase' = Phase
  BY <1>1, PhaseIs DEF PhaseFacts
<1>. QED  BY <1>10, <1>11, SameNamesPromised DEF PhaseMoves

-----------------------------------------------------------------------------
(* The theorems *)

\* A step of any command is one that AbstractNames allows.
LEMMA StepPromised ==
    ASSUME IInv, IInv', NamesInv, NamesInv', Kinds, [Next]_vars, ~strayed'
    PROVE  Promised
<1>1. CASE Command
  BY <1>1, CommandPromised
<1>2. CASE \/ allocate_blocks \/ cp_destination \/ AllocateInode
           \/ write_path_to_symlink_inode \/ EntryNowhere
           \/ count_link \/ drop_link \/ Return
  BY <1>2, UnnoticedPromised
<1>3. CASE EntryInExistingBlock \/ EntryInNewBlock
  BY <1>3, EntryPromised
<1>4. CASE cp_data
  BY <1>4, CpDataPromised
<1>5. CASE delete_child_entry
  BY <1>5, UnlinkPromised
<1>6. CASE release_inode
  BY <1>6, ReleasePromised
<1>7. CASE UNCHANGED vars
  <2>1. Still
    BY <1>7 DEF vars, Still, bitmapVars, blockVars
  <2>2. NameSpace' = NameSpace
    BY <2>1, StillUnnoticed, SameSpace DEF NamesInv
  <2>3. Phase' = Phase
    BY <1>7 DEF Phase, vars
  <2>. QED  BY <2>2, <2>3, SameNamesPromised DEF PhaseMoves
<1>. QED  BY <1>1, <1>2, <1>3, <1>4, <1>5, <1>6, <1>7, NotKilled, AllocateNoInodeStrays
          DEF Next, Step

\* A step of AbstractNames, whether it keeps the promise or ends it.
PromiseStep == [Promise!Next]_<<NameSpace, Phase, strayed>>

\* A truth value.
StrayedIs == strayed \in BOOLEAN

\* AbstractNames sees a command stray as the end of its promise.
LEMMA PromiseKept ==
    ASSUME Promised, ~strayed, StrayedIs, ~strayed', StrayedIs'
    PROVE  PromiseStep
BY DEF StrayedIs, Promised, PromiseStep, Promise!Next, Promise!Kept

\* A command that fails changes no name, one that succeeds changes one at
\* most, and all at once, whatever series of writes it takes, until one strays.
THEOREM NamesRefined ==
    Spec /\ Sound /\ SoundNames /\ [](strayed \/ Countable) => NamesSpec
<1>1. Init => Promise!Init
  BY DEF Init, Phase, Promise!Init
<1>2. ASSUME IInv, IInv', NamesInv, NamesInv', Kinds, [Next]_vars, ~strayed',
             StrayedIs, StrayedIs'
      PROVE  PromiseStep
  <2>1. Promised
    BY <1>2, StepPromised
  <2>2. ~strayed
    BY <1>2, Stays
  <2>. QED  BY <1>2, <2>1, <2>2, PromiseKept
<1>3. ASSUME strayed', StrayedIs' PROVE PromiseStep
  BY <1>3 DEF StrayedIs, PromiseStep, Promise!Next, Promise!Astray
<1>4. IInv /\ IInv' /\ NamesInv /\ NamesInv' /\ Kinds /\ [Next]_vars /\ ~strayed'
        /\ StrayedIs /\ StrayedIs' => PromiseStep
  BY <1>2
<1>5. strayed' /\ StrayedIs' => PromiseStep
  BY <1>3
<1>6. Spec => []StrayedIs
  BY StrayedType DEF StrayedIs
<1>. QED  BY <1>1, <1>4, <1>5, <1>6, Stays, Invariance, NamesInvariance, PTL
          DEF Spec, NamesSpec, Promise!Spec, PromiseStep

\* make_entry_in_existing_block and the new block of make_entry_in_inode add
\* a name and lose none, until a command strays.  On a disk that is not sound
\* they may.
THEOREM InsertsKeepNames ==
    Spec /\ Sound /\ SoundNames /\ [](strayed \/ Countable) => InsertKeepsNames
<1>1. ASSUME IInv, IInv', NamesInv, NamesInv', Kinds, [Next]_vars, ~strayed',
             pc \in {"dot", "dotdot", "entry"}
      PROVE  NameSpace \subseteq NameSpace'
  <2>1. CASE EntryInExistingBlock \/ EntryInNewBlock
    BY <1>1, <2>1, EntryPromised
  <2>2. CASE EntryNowhere \/ UNCHANGED vars
    <3>1. Still
      BY <2>2 DEF EntryNowhere, vars, Still, diskVars, bitmapVars, inodeVars, blockVars
    <3>. QED  BY <1>1, <3>1, StillUnnoticed, SameSpace DEF NamesInv
  <2>3. ~Command
    BY <1>1, CommandIsGiven DEF Asked, Given
  <2>. QED  BY <1>1, <2>1, <2>2, <2>3, NotKilled, AllocateNoInodeStrays
            DEF Next, Step, allocate_blocks, cp_destination, AllocateInode,
                write_path_to_symlink_inode, count_link, cp_data, delete_child_entry,
                drop_link, release_inode, Return
<1>2. (\/ strayed'
       \/ IInv /\ IInv' /\ NamesInv /\ NamesInv' /\ Kinds) /\ [Next]_vars
        => [\/ strayed'
            \/ (pc \in {"dot", "dotdot", "entry"}) => NameSpace \subseteq NameSpace']_vars
  BY <1>1
<1>3. [Next]_vars /\ ~strayed' => ~strayed
  BY Stays
<1>. QED  BY <1>2, <1>3, Invariance, NamesInvariance, PTL DEF Spec, InsertKeepsNames

-----------------------------------------------------------------------------
(* Blocks that nobody has *)

\* A leaked block is marked, in no hand and in no inode that is in use.
LeakedFacts ==
    \A b : b \in Leaked <=>
        /\ b \in block_bitmap /\ b \notin InHand
        /\ \A k \in inode_bitmap : \A i \in Kept : At(i_block, numbers, k, i) # b

\* Leaked, inode by inode.
LEMMA LeakedIs == IInv => LeakedFacts
<1>. SUFFICES ASSUME IInv, NEW b
              PROVE  b \in Leaked <=>
                       /\ b \in block_bitmap /\ b \notin InHand
                       /\ \A k \in inode_bitmap : \A i \in Kept : At(i_block, numbers, k, i) # b
  BY DEF LeakedFacts
<1>1. b \in Leaked <=> /\ b \in block_bitmap /\ b \notin InHand
                       /\ \A p \in Places : p[1] \in inode_bitmap => BlockAt(p) # b
  BY DEF Leaked
<1>2. b \in block_bitmap => b # 0
  BY Bounds DEF IInv, Typed
<1>3. ASSUME b # 0
      PROVE  (\A p \in Places : p[1] \in inode_bitmap => BlockAt(p) # b) <=>
                \A k \in inode_bitmap : \A i \in Kept : At(i_block, numbers, k, i) # b
  <2>0. inode_bitmap \subseteq Inodes
    BY DEF IInv, Typed
  <2>1. ASSUME NEW p \in Places, p[1] \in inode_bitmap, BlockAt(p) = b
        PROVE  \E k \in inode_bitmap : \E i \in Kept : At(i_block, numbers, k, i) = b
    BY <2>1, PlacesAre, PlaceIs
  <2>2. ASSUME NEW k \in inode_bitmap, NEW i \in Kept, At(i_block, numbers, k, i) = b
        PROVE  \E p \in Places : p[1] \in inode_bitmap /\ BlockAt(p) = b
    <3>1. <<k, i>> \in Places /\ BlockAt(<<k, i>>) = b /\ <<k, i>>[1] = k
      BY <1>3, <2>0, <2>2, PlaceIs
    <3>. QED  BY <3>1
  <2>. QED  BY <2>1, <2>2
<1>. QED  BY <1>1, <1>2, <1>3

\* And after a step.
LEMMA LeakedPrimed == IInv' => LeakedFacts'
BY LeakedIs, PTL

\* A step leaks nothing when every block it finds marked is accounted for as
\* before.
LeaksNothing == Leaked' \subseteq Leaked

\* Block by block.
LEMMA LeakLess ==
    ASSUME IInv, IInv',
           \A b \in block_bitmap' :
               b \notin InHand' /\ (\A k \in inode_bitmap' : \A i \in Kept :
                                       At(i_block', numbers', k, i) # b)
                   => /\ b \in block_bitmap /\ b \notin InHand
                      /\ \A k \in inode_bitmap : \A i \in Kept : At(i_block, numbers, k, i) # b
    PROVE  LeaksNothing
BY LeakedIs, LeakedPrimed DEF LeaksNothing, LeakedFacts

\* A step that neither marks blocks nor moves or drops any.
LEMMA UnmovedLeaks ==
    ASSUME IInv, IInv', Unmoved, block_bitmap' = block_bitmap,
           inode_bitmap \subseteq inode_bitmap', InHand \subseteq InHand'
    PROVE  LeaksNothing
<1>0. inode_bitmap \subseteq Inodes
  BY DEF IInv, Typed
<1>1. \A k \in Inodes : \A i \in Kept : At(i_block', numbers', k, i) = At(i_block, numbers, k, i)
  BY DEF Unmoved
<1>. QED  BY <1>0, <1>1, LeakLess

\* Such are the steps that leave the disk alone.
LEMMA StillLeaks ==
    ASSUME IInv, IInv', Still, InHand \subseteq InHand'
    PROVE  LeaksNothing
<1>1. block_bitmap' = block_bitmap /\ inode_bitmap' = inode_bitmap /\ Unmoved
  BY DEF Still, bitmapVars, blockVars, Unmoved
<1>. QED  BY <1>1, UnmovedLeaks

\* No block is in hand but of ext2_cp, from its first step on to its last.
LEMMA HandOfCp == IInv /\ cmd.op # "cp" => InHand = {}
<1>. SUFFICES ASSUME IInv, cmd.op # "cp" PROVE InHand = {}
  OBVIOUS
<1>1. pc \in {"parent", "inode", "entry", "write"} => pc \in {"inode", "entry"}
  BY DEF IInv, Control
<1>2. pc \in {"inode", "entry"} => cmd.blocks = <<>>
  BY DEF IInv, Control
<1>. QED  BY <1>1, <1>2, HandIs

\* A command that gives up leaks what ext2_cp has in hand, and nothing else.
LEMMA FailLeaks ==
    ASSUME IInv, IInv', Fail, ~(cmd.op = "cp" /\ pc' = "exit")
    PROVE  LeaksNothing
<1>1. Still /\ InHand = {}
  BY HandOfCp DEF Fail, Still, diskVars, bitmapVars, inodeVars, blockVars
<1>. QED  BY <1>1, StillLeaks

\* A block that is taken and attached to an inode in use is not leaked.
LEMMA AttachLeaks ==
    ASSUME IInv, IInv', NEW k \in inode_bitmap, inode_bitmap' = inode_bitmap, NEW s \in FirstFree(1), MarkUsed(s),
           NEW slot \in Slots, At(i_block, numbers, k, slot) = 0,
           slot < INDIRECT1_INDEX \/ i_block[k][INDIRECT1_INDEX] # 0,
           set_inode_block_number(k, [SlotsOf(k) EXCEPT ![slot] = s[1]],
                                  Zeroed(numbers, s, NoNumbers)),
           InHand \subseteq InHand'
    PROVE  LeaksNothing
<1>0. inode_bitmap \subseteq Inodes
  BY DEF IInv, Typed
<1>1. PICK b : b = s[1]
  OBVIOUS
<1>. DEFINE f == [SlotsOf(k) EXCEPT ![slot] = b]
<1>2. b \in Blocks /\ b \notin block_bitmap /\ 1 \in Nat /\ 1 .. 1 = {1}
  BY <1>1, FirstFreeFacts
<1>3. /\ f \in [Slots -> Numbers] /\ f[slot] = b
      /\ \A j \in Slots : j # slot => f[j] = At(i_block, numbers, k, j)
  BY <1>0, <1>2, SlotsOfIs DEF Numbers
<1>4. Moved(k, f)
  <2>1. set_inode_block_number(k, f, Zeroed(numbers, s, NoNumbers))
    BY <1>1
  <2>. HIDE DEF f
  <2>. QED  BY <1>0, <1>2, <1>3, <2>1, FreshFacts, SetFacts
<1>. HIDE DEF f
<1>5. block_bitmap' = block_bitmap \cup {b}
  <2>1. DOMAIN s = {1}
    BY <1>2, FirstFreeFacts
  <2>. QED  BY <1>1, <2>1 DEF MarkUsed, set_bitmap_val
<1>6. At(i_block', numbers', k, slot) = b /\ slot \in Kept
  BY <1>0, <1>3, <1>4, KeptIs DEF Moved
<1>7. ASSUME NEW j \in Inodes, NEW i \in Kept, At(i_block, numbers, j, i) # 0
      PROVE  At(i_block', numbers', j, i) = At(i_block, numbers, j, i)
  <2>1. CASE j # k \/ i \notin Slots
    BY <1>4, <2>1 DEF Moved
  <2>2. CASE j = k /\ i \in Slots
    <3>1. i # slot /\ f[i] = At(i_block, numbers, j, i)
      BY <1>3, <1>7, <2>2
    <3>2. i < INDIRECT1_INDEX \/ i_block[k][INDIRECT1_INDEX] # 0
      <4>1. i # INODE_BLOCK_LIMIT
        BY <2>2, KeptIs
      <4>. QED  BY <1>7, <2>2, <4>1 DEF At, NumberIn
    <3>. QED  BY <1>4, <2>2, <3>1, <3>2 DEF Moved
  <2>. QED  BY <2>1, <2>2
<1>8. ASSUME NEW c \in block_bitmap', c \notin InHand',
             \A j \in inode_bitmap' : \A i \in Kept : At(i_block', numbers', j, i) # c
      PROVE  /\ c \in block_bitmap /\ c \notin InHand
             /\ \A j \in inode_bitmap : \A i \in Kept : At(i_block, numbers, j, i) # c
  <2>1. c \in block_bitmap /\ c \notin InHand
    BY <1>5, <1>6, <1>8
  <2>2. c # 0
    BY <2>1, Bounds DEF IInv, Typed
  <2>. QED  BY <1>0, <1>7, <1>8, <2>1, <2>2
<1>. QED  BY <1>8, LeakLess

\* The new block of make_entry_in_inode is attached, but in a jammed parent.
LEMMA NewBlockLeaks ==
    ASSUME IInv, IInv', NamesInv, INDIRECT1_INDEX > 1, EntryInNewBlock, ~Fail,
           ~(pc = "entry" /\ Jammed(cmd.parent, listPeek(cmd.comps)))
    PROVE  LeaksNothing
<1>1. PICK k, name, slot : /\ k = Wanted.dir /\ name = Wanted.name
                           /\ slot = Min(Unused(Wanted.dir))
  OBVIOUS
<1>2. /\ pc \in {"dot", "dotdot", "entry"} /\ pc' = AfterEntry(TRUE)
      /\ Accepting(k, name) = {} /\ Unused(k) # {}
      /\ cmd' = [cmd EXCEPT !.made = TRUE]
  BY <1>1 DEF EntryInNewBlock
<1>3. PICK s \in FirstFree(1) :
        /\ MarkUsed(s)
        /\ set_inode_block_number(k, [SlotsOf(k) EXCEPT ![slot] = s[1]],
                                  Zeroed(numbers, s, NoNumbers))
  BY <1>1 DEF EntryInNewBlock
<1>4. k \in Inodes /\ k \in inode_bitmap /\ inode_bitmap' = inode_bitmap
  <2>1. k \in Inodes
    BY <1>1, <1>2, WantedType
  <2>2. cmd.inode \in inode_bitmap /\ (pc = "entry" => cmd.parent \in inode_bitmap)
    BY <1>2 DEF NamesInv, NamesControl
  <2>. QED  BY <1>1, <1>2, <2>1, <2>2 DEF Wanted, EntryInNewBlock
<1>5. slot \in Unused(k) /\ \A j \in Unused(k) : slot <= j
  <2>1. Unused(k) \subseteq Nat
    BY Bounds DEF Unused
  <2>. QED  BY <1>1, <1>2, <2>1, MinOfNats
<1>6. \A j \in Slots : j \in Unused(k) <=> At(i_block, numbers, k, j) = 0
  BY HeldIs DEF Unused
<1>7. slot \in Slots /\ slot \in Nat /\ At(i_block, numbers, k, slot) = 0
  BY <1>5, <1>6, Bounds DEF Unused
<1>8. \A j \in Slots : j \in Held(k) <=> At(i_block, numbers, k, j) # 0
  BY HeldIs
<1>9. slot < INDIRECT1_INDEX \/ i_block[k][INDIRECT1_INDEX] # 0
  <2>1. CASE pc = "dot"
    <3>1. Held(k) = {}
      BY <1>1, <2>1 DEF Wanted, NamesInv, NamesControl
    <3>2. 0 \in Unused(k)
      BY <1>6, <1>8, <3>1, KeptIs
    <3>3. slot <= 0
      BY <1>5, <3>2
    <3>. QED  BY <1>7, <3>3, Bounds
  <2>2. CASE pc = "dotdot"
    <3>1. Held(k) \subseteq {0}
      BY <1>1, <2>2 DEF Wanted, NamesInv, NamesControl
    <3>2. 1 \in Slots
      BY Bounds DEF Slots
    <3>3. 1 \in Unused(k)
      BY <1>6, <1>8, <3>1, <3>2
    <3>4. slot <= 1
      BY <1>5, <3>3
    <3>. QED  BY <1>7, <3>4, Bounds
  <2>3. CASE pc = "entry"
    <3>1. k = cmd.parent /\ name = listPeek(cmd.comps)
      BY <1>1, <2>3 DEF Wanted
    <3>2. SUFFICES ASSUME slot >= INDIRECT1_INDEX, i_block[k][INDIRECT1_INDEX] = 0
                   PROVE  Jammed(k, name)
      BY <1>7, <2>3, <3>1, Bounds
    <3>3. ASSUME NEW i \in 0 .. INDIRECT1_INDEX - 1 PROVE i_block[k][i] # 0
      <4>1. i \in Slots /\ i < INDIRECT1_INDEX /\ i < slot /\ i \in Nat
        BY <1>7, <3>2, Bounds DEF Slots
      <4>2. i \notin Unused(k)
        BY <1>5, <1>7, <4>1
      <4>. QED  BY <4>1, <4>2 DEF Unused, get_inode_block_number
    <3>. QED  BY <1>2, <3>2, <3>3 DEF Jammed
  <2>. QED  BY <1>2, <2>1, <2>2, <2>3
<1>10. InHand' = InHand
  BY <1>2, MadeControl
<1>. QED  BY <1>3, <1>4, <1>7, <1>9, <1>10, AttachLeaks

\* The steps that take blocks or inodes.
LEMMA TakeLeaks ==
    ASSUME IInv, IInv', NamesInv, ~strayed', ~(cmd.op = "cp" /\ pc' = "exit"),
           allocate_blocks \/ AllocateInode \/ write_path_to_symlink_inode
    PROVE  LeaksNothing
<1>1. cmd \in Locals /\ Control
  BY DEF IInv, Typed
<1>2. CASE Fail
  BY <1>2, FailLeaks
<1>3. CASE allocate_blocks /\ ~Fail
  <2>1. PICK s \in FirstFree(cmd.size) :
          /\ MarkUsed(s) /\ pc = "blocks" /\ pc' = "parent"
          /\ cmd' = [cmd EXCEPT !.blocks = s]
          /\ numbers' = Zeroed(numbers, s, NoNumbers) /\ i_block' = i_block
          /\ inode_bitmap' = inode_bitmap
    BY <1>3 DEF allocate_blocks, inodeVars
  <2>2. cmd.size \in Nat /\ cmd'.blocks = s
    BY <1>1, <2>1 DEF Locals
  <2>3. InHand = {} /\ InHand' = Elements(s)
    BY <2>1, <2>2, HandIs
  <2>4. block_bitmap' = block_bitmap \cup Elements(s)
    BY <2>1 DEF MarkUsed, set_bitmap_val, Elements
  <2>5. Unmoved
    <3>1. SameInUse(numbers') /\ DiskOK
      BY <2>1, <2>2, FreshFacts, TypedIs DEF IInv
    <3>. QED  BY <2>1, <3>1, UnmovedIs
  <2>6. inode_bitmap \subseteq Inodes
    BY DEF IInv, Typed
  <2>. QED  BY <2>1, <2>3, <2>4, <2>5, <2>6, LeakLess DEF Unmoved
<1>4. CASE AllocateInode /\ ~Fail
  <2>1. PICK k \in FreeInodes :
          /\ set_inode_block_number(k, NoSlots, numbers)
          /\ block_bitmap' = block_bitmap /\ cmd' = [cmd EXCEPT !.inode = k]
          /\ inode_bitmap' = inode_bitmap \cup {k}
          /\ pc = "inode" /\ pc' = AfterAllocation
    BY <1>4 DEF AllocateInode, allocate_inode, set_bitmap_val
  <2>2. k \in Inodes /\ k \notin inode_bitmap
    BY <2>1 DEF FreeInodes, get_bitmap_val
  <2>3. Moved(k, NoSlots)
    <3>1. numbers \in NumType /\ SameInUse(numbers)
      BY DEF IInv, Typed, NumType, SameInUse
    <3>. QED  BY <2>1, <2>2, <3>1, NoSlotsFacts, SetFacts
  <2>4. Unmoved
    <3>1. \A i \in Slots : At(i_block, numbers, k, i) = 0 /\ NoSlots[i] = 0
      BY <2>2, FreeHoldsNothing, NoSlotsFacts DEF NamesInv, DiskNames
    <3>. QED  BY <2>3, <3>1 DEF Moved, Unmoved
  <2>5. InHand \subseteq InHand'
    <3>1. CASE cmd.op = "cp"
      <4>1. pc' = "entry" /\ cmd'.blocks = cmd.blocks
        BY <1>1, <2>1, <3>1 DEF Locals, AfterAllocation
      <4>. QED  BY <2>1, <4>1, HandIs
    <3>2. CASE cmd.op # "cp"
      BY <3>2, HandOfCp
    <3>. QED  BY <3>1, <3>2
  <2>. QED  BY <2>1, <2>4, <2>5, UnmovedLeaks
<1>5. CASE write_path_to_symlink_inode /\ ~Fail
  <2>1. PICK k : k = cmd.inode
    OBVIOUS
  <2>0. pc = "path" /\ cmd.inode # 0
    BY <1>5, InodeInTable DEF write_path_to_symlink_inode
  <2>2. PICK s \in FirstFree(1) :
          /\ MarkUsed(s) /\ inode_bitmap' = inode_bitmap
          /\ set_inode_block_number(k, [SlotsOf(k) EXCEPT ![0] = s[1]],
                                    Zeroed(numbers, s, NoNumbers))
    BY <1>5, <2>0, <2>1 DEF write_path_to_symlink_inode
  <2>3. k \in Inodes /\ Held(k) = {} /\ cmd.op # "cp"
    BY <1>1, <2>0, <2>1 DEF Control
  <2>6. k \in inode_bitmap
    BY <2>0, <2>1 DEF NamesInv, NamesControl
  <2>4. 0 \in Slots /\ At(i_block, numbers, k, 0) = 0 /\ 0 < INDIRECT1_INDEX
    BY <2>3, HeldIs, KeptIs, Bounds
  <2>5. InHand = {}
    BY <2>3, HandOfCp
  <2>. QED  BY <2>2, <2>3, <2>4, <2>5, <2>6, AttachLeaks
<1>. QED  BY <1>2, <1>3, <1>4, <1>5

\* To free an inode may leave its indirect block marked, and nothing else.
LEMMA ReleaseLeaks ==
    ASSUME IInv, IInv', NamesInv, release_inode
    PROVE  Leaked' \subseteq Leaked \cup {i_block[cmd.inode][INDIRECT1_INDEX]}
<1>1. PICK k \in Inodes : k = cmd.inode
  BY DEF release_inode, IInv, Control
<1>2. Released(k)
  BY <1>1, InodeReleased
<1>3. InHand = {}
  <2>1. pc \in {"free", "undo"}
    BY DEF release_inode
  <2>. QED  BY <2>1, HandIs
<1>4. Moved(k, NoSlots)
  <2>1. numbers \in NumType /\ SameInUse(numbers)
    BY DEF IInv, Typed, NumType, SameInUse
  <2>2. set_inode_block_number(k, NoSlots, numbers)
    BY <1>1 DEF release_inode, free_inode
  <2>. QED  BY <2>1, <2>2, NoSlotsFacts, SetFacts
<1>5. ASSUME NEW c \in Leaked', c # i_block[k][INDIRECT1_INDEX]
      PROVE  c \in Leaked
  <2>1. /\ c \in block_bitmap'
        /\ \A j \in inode_bitmap' : \A i \in Kept : At(i_block', numbers', j, i) # c
    BY <1>5, LeakedPrimed DEF LeakedFacts
  <2>2. c \in block_bitmap /\ Outside(c, k) /\ inode_bitmap' = inode_bitmap \ {k}
    BY <1>2, <2>1 DEF Released
  <2>3. ASSUME NEW j \in inode_bitmap, NEW i \in Kept PROVE At(i_block, numbers, j, i) # c
    <3>1. CASE j = k /\ i \in Slots
      BY <2>2, <3>1 DEF Outside
    <3>2. CASE j = k /\ i \notin Slots
      BY <1>5, <3>2, KeptIs DEF At
    <3>3. CASE j # k
      <4>1. j \in Inodes
        BY DEF IInv, Typed
      <4>. QED  BY <1>4, <2>1, <2>2, <3>3, <4>1 DEF Moved
    <3>. QED  BY <3>1, <3>2, <3>3
  <2>. QED  BY <1>3, <2>2, <2>3, LeakedIs DEF LeakedFacts
<1>. QED  BY <1>1, <1>5

\* ext2_rm gives back the block of a directory in which no name is left.
LEMMA UnlinkLeaks ==
    ASSUME IInv, IInv', NamesInv, delete_child_entry
    PROVE  LeaksNothing
<1>0. InHand = {}
  <2>1. pc = "unlink"
    BY DEF delete_child_entry
  <2>. QED  BY <2>1, HandIs
<1>1. PICK d, slot, b : /\ d = cmd.parent
                        /\ slot = find_matching_pair(cmd.parent, listPeek(cmd.comps))[1]
                        /\ b = get_inode_block_number(d, slot)
  OBVIOUS
<1>2. pc = "unlink" /\ inode_bitmap' = inode_bitmap /\ inode_bitmap \subseteq Inodes
  BY DEF delete_child_entry, IInv, Typed
<1>3. d \in Inodes /\ slot \in Slots /\ slot \in Kept /\ b = At(i_block, numbers, d, slot)
      /\ b \in block_bitmap
  BY <1>1, <1>2, UnlinkFacts, KeptIs
<1>4. CASE UNCHANGED <<i_block, numbers, block_bitmap, free_blocks_count>>
  <2>1. Unmoved /\ block_bitmap' = block_bitmap
    BY <1>4 DEF Unmoved
  <2>. QED  BY <1>0, <1>2, <2>1, UnmovedLeaks
<1>5. CASE /\ set_inode_block_number(d, [SlotsOf(d) EXCEPT ![slot] = 0], numbers)
           /\ block_bitmap' = set_bitmap_val(block_bitmap, {b}, FALSE)
  <2>. DEFINE f == [SlotsOf(d) EXCEPT ![slot] = 0]
  <2>1. /\ f \in [Slots -> Numbers]
        /\ \A j \in Slots : j # slot => f[j] = At(i_block, numbers, d, j)
    BY <1>3, SlotsOfIs DEF Numbers
  <2>2. Moved(d, f)
    <3>1. numbers \in NumType /\ SameInUse(numbers)
      BY DEF IInv, Typed, NumType, SameInUse
    <3>2. set_inode_block_number(d, f, numbers)
      BY <1>5
    <3>. HIDE DEF f
    <3>. QED  BY <1>3, <2>1, <3>1, <3>2, SetFacts
  <2>. HIDE DEF f
  <2>3. block_bitmap' = block_bitmap \ {b}
    BY <1>5 DEF set_bitmap_val
  <2>4. ASSUME NEW j \in Inodes, NEW i \in Kept, At(i_block, numbers, j, i) # 0,
               ~(j = d /\ i = slot)
        PROVE  At(i_block', numbers', j, i) = At(i_block, numbers, j, i)
    <3>1. CASE j # d \/ i \notin Slots
      BY <2>2, <3>1 DEF Moved
    <3>2. CASE j = d /\ i \in Slots
      <4>1. f[i] = At(i_block, numbers, j, i)
        BY <2>1, <2>4, <3>2
      <4>2. i < INDIRECT1_INDEX \/ i_block[d][INDIRECT1_INDEX] # 0
        <5>1. i # INODE_BLOCK_LIMIT
          BY <3>2, KeptIs
        <5>. QED  BY <2>4, <3>2, <5>1 DEF At, NumberIn
      <4>. QED  BY <2>2, <3>2, <4>1, <4>2 DEF Moved
    <3>. QED  BY <3>1, <3>2
  <2>5. ASSUME NEW c \in block_bitmap', c \notin InHand',
               \A j \in inode_bitmap' : \A i \in Kept : At(i_block', numbers', j, i) # c
        PROVE  /\ c \in block_bitmap /\ c \notin InHand
               /\ \A j \in inode_bitmap : \A i \in Kept : At(i_block, numbers, j, i) # c
    <3>1. c \in block_bitmap /\ c # b
      BY <2>3
    <3>2. c # 0
      BY <3>1, Bounds DEF IInv, Typed
    <3>3. ASSUME NEW j \in inode_bitmap, NEW i \in Kept PROVE At(i_block, numbers, j, i) # c
      <4>1. CASE j = d /\ i = slot
        BY <1>3, <3>1, <4>1
      <4>2. CASE ~(j = d /\ i = slot)
        BY <1>2, <2>4, <2>5, <3>2, <4>2
      <4>. QED  BY <4>1, <4>2
    <3>. QED  BY <1>0, <3>1, <3>3
  <2>. QED  BY <2>5, LeakLess
<1>. QED  BY <1>1, <1>4, <1>5 DEF delete_child_entry

\* A copy to a new file attaches all it has in hand.
LEMMA CpDataLeaks ==
    ASSUME IInv, IInv', NamesInv, cp_data,
           ~cmd.exists, cmd.readable >= cmd.size, cmd.size <= INDIRECT1_INDEX
    PROVE  LeaksNothing
<1>1. /\ pc = "write" /\ pc' = "ok" /\ block_bitmap' = block_bitmap
      /\ inode_bitmap' = inode_bitmap /\ inode_bitmap \subseteq Inodes
  BY DEF cp_data, bitmapVars, IInv, Typed
<1>2. cmd \in Locals /\ Control
  BY DEF IInv, Typed
<1>3. /\ cmd.blocks \in Seq(Blocks) /\ cmd.size \in Nat /\ cmd.readable \in Nat
      /\ cmd.readable = cmd.size /\ Len(cmd.blocks) = cmd.size
  BY <1>1, <1>2 DEF Control, Locals
<1>4. DOMAIN cmd.blocks = 1 .. cmd.size
  BY <1>3
<1>5. InHand = Elements(cmd.blocks) /\ InHand' = {}
  BY <1>1, HandIs
<1>6. PICK k : k = cmd.inode
  OBVIOUS
<1>7. /\ k \in Inodes /\ k \in inode_bitmap /\ Moved(k, CopySlots)
      /\ \A i \in Copied : CopySlots[i] = cmd.blocks[i + 1]
  BY <1>1, <1>6, CpDataFacts DEF NamesInv, NamesControl
<1>8. Held(k) = {}
  BY <1>1, <1>2, <1>6 DEF NamesInv, NamesControl, Control
<1>9. ASSUME NEW n \in 1 .. cmd.size
      PROVE  \E i \in Kept : At(i_block', numbers', k, i) = cmd.blocks[n]
  <2>1. PICK i : i = n - 1
    OBVIOUS
  <2>2. i \in Nat /\ i < INDIRECT1_INDEX /\ i < cmd.readable /\ i + 1 = n
    BY <1>3, <1>9, <2>1, Bounds
  <2>3. i \in Slots /\ i \in Copied /\ i \in Kept
    BY <2>2, Bounds, KeptIs DEF Slots, Copied
  <2>. QED  BY <1>7, <2>2, <2>3 DEF Moved
<1>10. ASSUME NEW c \in block_bitmap', c \notin InHand',
              \A j \in inode_bitmap' : \A i \in Kept : At(i_block', numbers', j, i) # c
       PROVE  /\ c \in block_bitmap /\ c \notin InHand
              /\ \A j \in inode_bitmap : \A i \in Kept : At(i_block, numbers, j, i) # c
  <2>1. c \in block_bitmap /\ c # 0
    BY <1>1, Bounds DEF IInv, Typed
  <2>2. c \notin InHand
    BY <1>1, <1>4, <1>5, <1>7, <1>9, <1>10 DEF Elements
  <2>3. ASSUME NEW j \in inode_bitmap, NEW i \in Kept PROVE At(i_block, numbers, j, i) # c
    <3>1. CASE j = k /\ i \in Slots
      BY <1>7, <1>8, <2>1, <3>1, HeldIs
    <3>2. CASE ~(j = k /\ i \in Slots)
      BY <1>1, <1>7, <1>10, <3>2 DEF Moved
    <3>. QED  BY <3>1, <3>2
  <2>. QED  BY <2>1, <2>2, <2>3
<1>. QED  BY <1>10, LeakLess

\* The steps that leave the disk, or all but the link counts, as it is.
LEMMA QuietLeaks ==
    ASSUME IInv, IInv', ~strayed', ~(cmd.op = "cp" /\ pc' = "exit"),
           \/ Command \/ cp_destination \/ EntryNowhere \/ count_link \/ drop_link
           \/ Return \/ UNCHANGED vars
    PROVE  LeaksNothing
<1>1. cmd \in Locals /\ Control
  BY DEF IInv, Typed
<1>2. CASE Command
  <2>1. Still /\ pc = "idle"
    BY <1>2, CommandIsGiven, GivenStill
  <2>2. InHand = {}
    BY <2>1, HandIs
  <2>. QED  BY <2>1, <2>2, StillLeaks
<1>3. CASE cp_destination
  <2>1. CASE Fail
    BY <2>1, FailLeaks
  <2>2. CASE ~Fail
    <3>1. /\ UNCHANGED <<bitmapVars, inodeVars, numbers, data, dirents>>
          /\ pc = "parent" /\ pc' \in {"write", "inode"}
          /\ \E p : cmd' = [cmd EXCEPT !.parent = p]
      BY <1>3, <2>2, NotTaken DEF cp_destination
    <3>2. cmd'.blocks = cmd.blocks
      BY <1>1, <3>1 DEF Locals
    <3>3. InHand' = InHand
      BY <3>1, <3>2, HandIs
    <3>4. Still
      BY <3>1 DEF Still, bitmapVars, inodeVars, blockVars
    <3>. QED  BY <3>3, <3>4, StillLeaks
  <2>. QED  BY <2>1, <2>2
<1>4. CASE EntryNowhere
  <2>1. Still
    BY <1>4 DEF EntryNowhere, Still, diskVars, bitmapVars, inodeVars, blockVars
  <2>2. CASE cmd.op # "cp"
    BY <2>1, <2>2, HandOfCp, StillLeaks
  <2>3. CASE cmd.op = "cp"
    <3>1. pc = "entry"
      BY <1>1, <1>4, <2>3 DEF EntryNowhere, Control
    <3>2. pc' = "write" /\ cmd' = cmd
      BY <1>4, <2>3, <3>1 DEF EntryNowhere, AfterEntry
    <3>3. InHand' = InHand
      BY <3>1, <3>2, HandIs
    <3>. QED  BY <2>1, <3>3, StillLeaks
  <2>. QED  BY <2>2, <2>3
<1>5. CASE count_link \/ drop_link \/ Return
  <2>1. Still
    BY <1>5 DEF count_link, drop_link, Return, Still, diskVars, bitmapVars, inodeVars, blockVars
  <2>2. pc \in {"count", "drop", "ok", "exit"}
    BY <1>5 DEF count_link, drop_link, Return
  <2>3. InHand = {}
    BY <2>2, HandIs
  <2>. QED  BY <2>1, <2>3, StillLeaks
<1>6. CASE UNCHANGED vars
  <2>1. Still /\ pc' = pc /\ cmd' = cmd
    BY <1>6 DEF vars, Still, bitmapVars, blockVars
  <2>2. InHand' = InHand
    BY <2>1, HandIs
  <2>. QED  BY <2>1, <2>2, StillLeaks
<1>. QED  BY <1>2, <1>3, <1>4, <1>5, <1>6

\* Whatever goes wrong, no block is lost but in the four cases that
\* NoOtherLeak names, until a command strays: ext2_cp gives up, copies onto a
\* file or cannot read all of its source; the parent of a new entry is jammed;
\* or an inode with an indirect block is freed, and that block is the one.
\* Inodes have more than one direct block number (12 in ext2): with one, the
\* ".." of a new directory might have to go into a block that cannot be
\* attached.
THEOREM NothingElseLeaks ==
    ASSUME INDIRECT1_INDEX > 1
    PROVE  Spec /\ Sound /\ SoundNames /\ [](strayed \/ Countable) => NoOtherLeak
<1>. DEFINE Excepted ==
         \/ cmd.op = "cp" /\ pc' = "exit"
         \/ pc = "write" /\ (\/ cmd.exists
                             \/ cmd.readable < cmd.size
                             \/ cmd.size > INDIRECT1_INDEX)
         \/ pc = "entry" /\ Jammed(cmd.parent, listPeek(cmd.comps))
<1>1. ASSUME IInv, IInv', NamesInv, NamesInv', Kinds, [Next]_vars, ~strayed', ~Excepted,
             ~release_inode
      PROVE  LeaksNothing
  <2>1. CASE \/ Command \/ cp_destination \/ EntryNowhere \/ count_link \/ drop_link
             \/ Return \/ UNCHANGED vars
    BY <1>1, <2>1, QuietLeaks
  <2>2. CASE allocate_blocks \/ AllocateInode \/ write_path_to_symlink_inode
    BY <1>1, <2>2, TakeLeaks
  <2>3. CASE delete_child_entry
    BY <1>1, <2>3, UnlinkLeaks
  <2>4. CASE cp_data
    <3>1. pc = "write" /\ cmd.readable \in Nat /\ cmd.size \in Nat
      BY <1>1, <2>4 DEF cp_data, IInv, Typed, Locals
    <3>2. ~cmd.exists /\ cmd.readable >= cmd.size /\ cmd.size <= INDIRECT1_INDEX
      BY <1>1, <3>1, Bounds
    <3>. QED  BY <1>1, <2>4, <3>2, CpDataLeaks
  <2>5. CASE EntryInExistingBlock
    <3>1. /\ Unmoved /\ block_bitmap' = block_bitmap /\ inode_bitmap' = inode_bitmap
          /\ pc \in {"dot", "dotdot", "entry"} /\ pc' = AfterEntry(TRUE)
          /\ cmd' = [cmd EXCEPT !.made = TRUE]
      BY <2>5 DEF EntryInExistingBlock, bitmapVars, inodeVars, Unmoved
    <3>2. InHand' = InHand
      BY <1>1, <3>1, MadeControl
    <3>. QED  BY <1>1, <3>1, <3>2, UnmovedLeaks
  <2>6. CASE EntryInNewBlock
    <3>1. CASE Fail
      BY <1>1, <3>1, FailLeaks
    <3>2. CASE ~Fail
      BY <1>1, <2>6, <3>2, NewBlockLeaks
    <3>. QED  BY <3>1, <3>2
  <2>. QED  BY <1>1, <2>1, <2>2, <2>3, <2>4, <2>5, <2>6, NotKilled, AllocateNoInodeStrays
            DEF Next, Step
<1>2. release_inode => pc \in {"free", "undo"}
  BY DEF release_inode
<1>3. (\/ strayed'
       \/ IInv /\ IInv' /\ NamesInv /\ NamesInv' /\ Kinds) /\ [Next]_vars
        => [\/ strayed'
            \/ Leaked' \subseteq Leaked
            \/ cmd.op = "cp" /\ pc' = "exit"
            \/ pc = "write" /\ (\/ cmd.exists
                                \/ cmd.readable < cmd.size
                                \/ cmd.size > INDIRECT1_INDEX)
            \/ pc = "entry" /\ Jammed(cmd.parent, listPeek(cmd.comps))
            \/ /\ pc \in {"free", "undo"}
               /\ Leaked' \subseteq Leaked \cup {i_block[cmd.inode][INDIRECT1_INDEX]}]_vars
  BY <1>1, <1>2, ReleaseLeaks DEF LeaksNothing
<1>. QED  BY <1>3, Stays, Invariance, NamesInvariance, PTL DEF Spec, NoOtherLeak

-----------------------------------------------------------------------------
(* Where paths lead after a step *)

\* Every search in a directory answers the same before and after a step.
SearchesStay == \A k \in Directories : \A name \in Names : SearchKept(k, name)

\* Then every path leads where it led.
LEMMA PathsStay ==
    ASSUME IInv, DiskNames, SearchesStay, NEW c \in Seq(Names)
    PROVE  SameAnswer(traverse_path(c)', traverse_path(c))
<1>1. \A n \in 1 .. Len(c) : c[n] \in Names
  BY ElementOfSeq
<1>. QED  BY <1>1, WalkSame DEF SearchesStay

\* A name that is still there is found as before.
LEMMA NameFound ==
    ASSUME IInv, IInv', DiskNames, DiskNames',
           NEW k \in Directories, k \in Directories', NEW name \in Names,
           NEW i, NEW o, Lists(k, i, o), Says(k, i, o).name = name,
           Lists(k, i, o)', Alike(Says(k, i, o)', Says(k, i, o))
    PROVE  SearchKept(k, name)
<1>1. FindFacts /\ FindFacts'
  BY Finding, FindingPrimed
<1>2. find_matching_entry(k, name) = Says(k, i, o)
  BY <1>1 DEF FindFacts
<1>3. find_matching_entry(k, name)' = Says(k, i, o)'
  BY <1>1 DEF FindFacts, Alike
<1>4. Says(k, i, o) # NULL
  BY <1>2, ListedIsFound
<1>5. Says(k, i, o)' # NULL
  <2>1. Says(k, i, o)'.inode \in Inodes
    BY FactsPrimed DEF EntryFacts
  <2>. QED  BY <2>1, Ext2Assumption DEF NULL
<1>. QED  BY <1>2, <1>3, <1>4, <1>5 DEF SearchKept, SameAnswer

\* When no directory's name comes or goes, every search answers the same.
LEMMA NamesStay ==
    ASSUME IInv, IInv', DiskNames, DiskNames', Directories' = Directories,
           \A k \in Directories : \A i, o : Lists(k, i, o)' <=> Lists(k, i, o),
           \A k \in Directories : \A i, o : Lists(k, i, o) => Alike(Says(k, i, o)', Says(k, i, o))
    PROVE  SearchesStay
<1>. SUFFICES ASSUME NEW k \in Directories, NEW name \in Names PROVE SearchKept(k, name)
  BY DEF SearchesStay
<1>1. CASE \E i, o : Lists(k, i, o) /\ Says(k, i, o).name = name
  BY <1>1, NameFound
<1>2. CASE ~\E i, o : Lists(k, i, o) /\ Says(k, i, o).name = name
  <2>1. FindFacts /\ FindFacts'
    BY Finding, FindingPrimed
  <2>2. \A i, o : ~(Lists(k, i, o)' /\ Says(k, i, o)'.name = name)
    BY <1>2 DEF Alike
  <2>3. find_matching_entry(k, name) = NULL /\ find_matching_entry(k, name)' = NULL
    BY <1>2, <2>1, <2>2 DEF FindFacts
  <2>. QED  BY <2>3 DEF SearchKept, SameAnswer
<1>. QED  BY <1>1, <1>2

\* A step that is not noticed changes no answer.
LEMMA UnnoticedSearches ==
    ASSUME IInv, IInv', DiskNames, DiskNames', Unnoticed
    PROVE  SearchesStay
BY SearchesKept DEF Unnoticed, SearchesStay

\* All entries on a walk that leads somewhere are directories, but the last.
LEMMA WalkOn ==
    ASSUME NEW c, NEW m \in Nat, NEW w, IsWalk(w, c, m), w[m] # NULL
    PROVE  \A n \in 0 .. m - 1 : is_directory(w[n])
<1>. DEFINE Bad == {j \in 1 .. m : ~is_directory(w[m - j])}
<1>1. ASSUME Bad # {} PROVE FALSE
  <2>1. Min(Bad) \in Bad /\ \A j \in Bad : Min(Bad) <= j
    <3>1. Bad \subseteq Nat
      OBVIOUS
    <3>. HIDE DEF Bad
    <3>. QED  BY <1>1, <3>1, MinOfNats
  <2>2. PICK j \in 1 .. m : ~is_directory(w[m - j]) /\ \A l \in Bad : j <= l
    BY <2>1
  <2>3. PICK n : n = m - j + 1
    OBVIOUS
  <2>4. n \in 0 .. m /\ n # 0 /\ n - 1 = m - j
    BY <2>3
  <2>5. w[n] = NULL
    <3>1. w[n] = Into(w[n - 1], c[n])
      BY <2>4 DEF IsWalk
    <3>. QED  BY <2>2, <2>4, <3>1 DEF Into
  <2>6. j # 1
    BY <2>3, <2>5
  <2>7. j - 1 \in 1 .. m /\ m - (j - 1) = n
    BY <2>3, <2>6
  <2>8. j - 1 \in Bad
    BY <2>5, <2>7, NullNotFound
  <2>. QED  BY <2>2, <2>8
<1>2. SUFFICES ASSUME NEW n \in 0 .. m - 1, ~is_directory(w[n]) PROVE FALSE
  OBVIOUS
<1>3. m - n \in 1 .. m /\ m - (m - n) = n
  OBVIOUS
<1>. QED  BY <1>1, <1>2, <1>3

\* A path leads where it led when the searches do that find a directory, or a
\* file if the path leads to one.
LEMMA WalkKept ==
    ASSUME IInv, DiskNames, NEW c \in Seq(Names), traverse_path(c) # NULL,
           \A k \in Directories : \A name \in Names :
               /\ find_matching_entry(k, name) # NULL
               /\ \/ is_directory(find_matching_entry(k, name))
                  \/ ~is_directory(traverse_path(c))
               => SearchKept(k, name)
    PROVE  SameAnswer(traverse_path(c)', traverse_path(c))
<1>1. c # <<>> /\ Len(c) \in Nat
  BY DEF traverse_path
<1>2. PICK m \in Nat : m = Len(c)
  BY <1>1
<1>3. PICK v : IsWalk(v, c, m) /\ traverse_path(c) = v[m]
  BY <1>1, <1>2, AllWalksExist DEF AllWalks
<1>4. PICK w : IsWalk(w, c, m)' /\ traverse_path(c)' = w[m]
  BY <1>1, <1>2, AllWalksExist DEF AllWalks
<1>5. \A n \in 0 .. m - 1 : is_directory(v[n])
  BY <1>3, WalkOn
<1>6. \A n \in 0 .. m : SoundEntry(v[n])
  <2>1. m \in 0 .. Len(c)
    BY <1>2
  <2>. QED  BY <1>3, <2>1, WalkSound
<1>7. \A n \in 1 .. m : c[n] \in Names
  BY <1>2, ElementOfSeq
<1>. DEFINE Bad == {n \in 0 .. m : ~SameAnswer(w[n], v[n])}
<1>8. ASSUME Bad # {} PROVE FALSE
  <2>1. Min(Bad) \in Bad /\ \A n \in Bad : Min(Bad) <= n
    <3>1. Bad \subseteq Nat
      OBVIOUS
    <3>. HIDE DEF Bad
    <3>. QED  BY <1>8, <3>1, MinOfNats
  <2>2. PICK n \in 0 .. m : ~SameAnswer(w[n], v[n]) /\ \A i \in Bad : n <= i
    BY <2>1
  <2>3. v[n] = IF n = 0 THEN RootEntry ELSE Into(v[n - 1], c[n])
    BY <1>3 DEF IsWalk
  <2>4. w[n] = IF n = 0 THEN RootEntry ELSE Into(w[n - 1], c[n])'
    BY <1>4 DEF IsWalk
  <2>5. n # 0
    BY <2>2, <2>3, <2>4 DEF SameAnswer, Alike
  <2>6. n - 1 \in 0 .. m - 1 /\ n - 1 \in 0 .. m /\ n \in 1 .. m
    BY <2>5
  <2>7. SameAnswer(w[n - 1], v[n - 1])
    <3>1. n - 1 \notin Bad
      BY <2>2
    <3>. QED  BY <2>6, <3>1
  <2>8. PICK k : k = v[n - 1].inode
    OBVIOUS
  <2>9. k \in Directories /\ v[n] = find_matching_entry(k, c[n])
    <3>1. is_directory(v[n - 1]) /\ v[n - 1] # NULL
      BY <1>5, <2>6, NullNotFound
    <3>2. k \in Directories
      BY <1>6, <2>6, <2>8, <3>1 DEF SoundEntry
    <3>. QED  BY <2>3, <2>5, <2>8, <3>1, <3>2 DEF Into
  <2>10. v[n] # NULL /\ (is_directory(v[n]) \/ ~is_directory(traverse_path(c)))
    <3>1. CASE n = m
      BY <1>3, <3>1
    <3>2. CASE n # m
      <4>1. n \in 0 .. m - 1
        BY <3>2
      <4>. QED  BY <1>5, <4>1, NullNotFound
    <3>. QED  BY <3>1, <3>2
  <2>11. SearchKept(k, c[n])
    BY <1>7, <2>6, <2>9, <2>10
  <2>12. is_directory(v[n - 1]) => SearchKept(v[n - 1].inode, c[n])
    BY <2>8, <2>11
  <2>13. SameAnswer(Into(w[n - 1], c[n])', Into(v[n - 1], c[n]))
    BY <2>7, <2>12, IntoSame
  <2>. QED  BY <2>2, <2>3, <2>4, <2>5, <2>13
<1>9. SameAnswer(w[m], v[m])
  BY <1>8
<1>. QED  BY <1>3, <1>4, <1>9

\* The last component of every path, before and after a step.
LastSteps ==
    \A c \in Seq(Names) : c # <<>> /\ traverse_path(listPop(c)) # NULL =>
        traverse_path(c) = Into(traverse_path(listPop(c)), listPeek(c))

\* LastComponent, as one formula.
LEMMA LastStepsHold == LastSteps /\ LastSteps'
<1>1. LastSteps
  BY LastComponent DEF LastSteps
<1>2. LastSteps'
  BY <1>1, PTL
<1>. QED  BY <1>1, <1>2
-----------------------------------------------------------------------------
(* What a command has done *)

\* Path c leads to directory k.
Leads(c, k) ==
    /\ traverse_path(c) # NULL /\ is_directory(traverse_path(c))
    /\ traverse_path(c).inode = k

\* The own entries of directory k.
Dot(k) == find_matching_entry(k, ".").inode = k
DotDot(k, parent) == find_matching_entry(k, "..").inode = parent

\* What path c is to lead to once its entry has been made.
Answers(c, k) ==
    \/ traverse_path(c).inode = k
    \/ /\ is_directory(traverse_path(listPop(c)))
       /\ Jammed(traverse_path(listPop(c)).inode, listPeek(c))

\* What the running command was asked to do has been done, or is excepted.
Achieved ==
    \/ cmd.op = "rm" /\ traverse_path(cmd.comps) = NULL
    \/ cmd.op = "cp" /\ ~cmd.made
    \/ cmd.op \in {"cp", "ln", "ln_s"} /\ Answers(cmd.comps, cmd.inode)
    \/ /\ cmd.op = "mkdir" /\ Answers(cmd.comps, cmd.inode)
       /\ Leads(listPop(cmd.comps), cmd.parent)
       /\ Dot(cmd.inode) /\ DotDot(cmd.inode, cmd.parent)

\* DoneAsAsked, and what is true of it between a command's steps: the path
\* still leads to the parent that was looked up, a new directory has its own
\* entries before it is named, a name that was made or taken out leads where
\* it should, and cmd.made is not left over from another entry.
Outcome ==
    /\ pc \in {"inode", "path", "dot", "dotdot", "entry", "unlink"}
          => Leads(listPop(cmd.comps), cmd.parent)
    /\ pc = "dotdot" \/ (pc = "entry" /\ cmd.op = "mkdir") => Dot(cmd.inode)
    /\ pc = "entry" /\ cmd.op = "mkdir" => DotDot(cmd.inode, cmd.parent)
    /\ pc \in {"blocks", "parent", "inode", "entry"} /\ cmd.op = "cp" => ~cmd.made
    /\ pc = "write" /\ cmd.exists => ~cmd.made
    /\ pc \in {"write", "count"} /\ cmd.made => Answers(cmd.comps, cmd.inode)
    /\ pc \in {"drop", "free"} => traverse_path(cmd.comps) = NULL
    /\ pc = "ok" => Achieved

\* The cases of Achieved are those of DoneAsAsked.
LEMMA OutcomeIsDone == Outcome => DoneAsAsked
<1>. SUFFICES ASSUME Outcome, pc = "ok" PROVE DoneAsAsked
  BY DEF DoneAsAsked
<1>1. Achieved
  BY DEF Outcome
<1>2. CASE cmd.op = "rm" /\ traverse_path(cmd.comps) = NULL
  BY <1>2 DEF DoneAsAsked
<1>3. CASE cmd.op = "cp" /\ ~cmd.made
  BY <1>3 DEF DoneAsAsked
<1>4. CASE cmd.op \in {"cp", "ln", "ln_s"} /\ Answers(cmd.comps, cmd.inode)
  BY <1>4 DEF DoneAsAsked, Answers
<1>5. CASE /\ cmd.op = "mkdir" /\ Answers(cmd.comps, cmd.inode)
           /\ Leads(listPop(cmd.comps), cmd.parent)
           /\ Dot(cmd.inode) /\ DotDot(cmd.inode, cmd.parent)
  BY <1>5 DEF DoneAsAsked, Answers, Leads, Dot, DotDot
<1>. QED  BY <1>1, <1>2, <1>3, <1>4, <1>5 DEF Achieved

\* What Outcome says after a step, with the local variables' values there.
LEMMA OutcomePrimed ==
    ASSUME NEW c, NEW d, NEW k, cmd'.comps = c, cmd'.parent = d, cmd'.inode = k
    PROVE  /\ Leads(listPop(cmd.comps), cmd.parent)' <=> Leads(listPop(c), d)'
           /\ Dot(cmd.inode)' <=> Dot(k)'
           /\ DotDot(cmd.inode, cmd.parent)' <=> DotDot(k, d)'
           /\ Answers(cmd.comps, cmd.inode)' <=> Answers(c, k)'
           /\ traverse_path(cmd.comps)' = traverse_path(c)'
<1>1. traverse_path(cmd.comps)' = traverse_path(c)'
  BY DEF traverse_path
<1>2. listPop(cmd.comps)' = listPop(c) /\ listPeek(cmd.comps)' = listPeek(c)
  BY DEF listPop, listPeek, listRemove
<1>3. traverse_path(listPop(cmd.comps))' = traverse_path(listPop(c))'
  BY <1>2 DEF traverse_path
<1>4. Leads(listPop(cmd.comps), cmd.parent)' <=> Leads(listPop(c), d)'
  BY <1>3 DEF Leads, is_directory
<1>5. Dot(cmd.inode)' <=> Dot(k)'
  BY DEF Dot
<1>6. DotDot(cmd.inode, cmd.parent)' <=> DotDot(k, d)'
  BY DEF DotDot
<1>7. Jammed(traverse_path(listPop(cmd.comps)).inode, listPeek(cmd.comps))'
        <=> Jammed(traverse_path(listPop(c)).inode, listPeek(c))'
  BY <1>2, <1>3 DEF Jammed
<1>8. Answers(cmd.comps, cmd.inode)' <=> Answers(c, k)'
  BY <1>1, <1>3, <1>7 DEF Answers, is_directory
<1>. QED  BY <1>1, <1>4, <1>5, <1>6, <1>8

\* A command that is over, or undoes what it did, leaves nothing to say.
LEMMA OverOutcome == pc' \in {"idle", "exit", "undo"} => Outcome'
BY DEF Outcome

\* A path is still one when its last component is taken off.
LEMMA PopType ==
    ASSUME NEW c \in Seq(Names)
    PROVE  listPop(c) \in Seq(Names)
<1>1. CASE c # <<>>
  BY <1>1, PopFacts
<1>2. CASE c = <<>>
  <2>1. Len(c) = 0
    BY <1>2
  <2>2. SubSeq(c, 1, 0 - 1) = <<>> /\ SubSeq(c, 0 + 1, 0) = <<>>
    BY SubSeqEmpty
  <2>. QED  BY <2>1, <2>2, <1>2 DEF listPop, listRemove
<1>. QED  BY <1>1, <1>2

\* Nor does a step that changes nothing.
LEMMA SameOutcome == IInv /\ Outcome /\ UNCHANGED vars => Outcome'
<1>. SUFFICES ASSUME IInv, Outcome, UNCHANGED vars PROVE Outcome'
  OBVIOUS
<1>1. /\ i_block' = i_block /\ numbers' = numbers /\ dirents' = dirents
      /\ pc' = pc /\ cmd' = cmd
  BY DEF vars
<1>2. ASSUME NEW k, NEW name
      PROVE  find_matching_entry(k, name)' = find_matching_entry(k, name)
  BY <1>1 DEF find_matching_entry, find_matching_pair, Positions, EntryAt,
              get_inode_block_number
<1>3. ASSUME NEW c \in Seq(Names) PROVE traverse_path(c)' = traverse_path(c)
  <2>1. CASE c = <<>>
    BY <2>1 DEF traverse_path, NULL
  <2>2. CASE c # <<>>
    <3>1. PICK m \in Nat : m = Len(c)
      OBVIOUS
    <3>2. PICK v : IsWalk(v, c, m) /\ traverse_path(c) = v[m]
      BY <2>2, <3>1, AllWalksExist DEF AllWalks
    <3>3. PICK w : IsWalk(w, c, m)' /\ traverse_path(c)' = w[m]
      BY <2>2, <3>1, AllWalksExist DEF AllWalks
    <3>4. \A e, name : Into(e, name)' = Into(e, name)
      BY <1>2 DEF Into
    <3>5. IsWalk(w, c, m)
      BY <3>3, <3>4 DEF IsWalk
    <3>6. m <= m /\ m \in 0 .. m /\ Agree(c, c, m)
      BY DEF Agree
    <3>7. \A n \in 0 .. m : v[n] = w[n]
      BY <3>2, <3>5, <3>6, WalkUnique
    <3>. QED  BY <3>2, <3>3, <3>6, <3>7
  <2>. QED  BY <2>1, <2>2
<1>4. ASSUME NEW k, NEW name PROVE Jammed(k, name)' <=> Jammed(k, name)
  BY <1>1 DEF Jammed, Accepting, get_inode_block_number
<1>5. PICK c, d, k : c = cmd.comps /\ d = cmd.parent /\ k = cmd.inode
  OBVIOUS
<1>6. c \in Seq(Names) /\ listPop(c) \in Seq(Names)
  BY <1>5, PopType DEF IInv, Typed, Locals
<1>7. /\ traverse_path(c)' = traverse_path(c)
      /\ traverse_path(listPop(c))' = traverse_path(listPop(c))
  BY <1>3, <1>6
<1>8. cmd'.comps = c /\ cmd'.parent = d /\ cmd'.inode = k
  BY <1>1, <1>5
<1>9. /\ Leads(listPop(cmd.comps), cmd.parent)' <=> Leads(listPop(c), d)
      /\ Dot(cmd.inode)' <=> Dot(k)
      /\ DotDot(cmd.inode, cmd.parent)' <=> DotDot(k, d)
      /\ Answers(cmd.comps, cmd.inode)' <=> Answers(c, k)
      /\ traverse_path(cmd.comps)' = traverse_path(c)
  <2>1. /\ Leads(listPop(c), d)' <=> Leads(listPop(c), d)
        /\ Dot(k)' <=> Dot(k)
        /\ DotDot(k, d)' <=> DotDot(k, d)
    BY <1>2, <1>7 DEF Leads, Dot, DotDot, is_directory, NULL
  <2>2. Answers(c, k)' <=> Answers(c, k)
    <3>1. PICK p, name : p = traverse_path(listPop(c)).inode /\ name = listPeek(c)
      OBVIOUS
    <3>2. Jammed(traverse_path(listPop(c)).inode, listPeek(c))' <=> Jammed(p, name)'
      BY <1>7, <3>1 DEF Jammed
    <3>3. Jammed(p, name)' <=> Jammed(p, name)
      BY <1>4
    <3>. QED  BY <1>7, <3>1, <3>2, <3>3 DEF Answers, is_directory
  <2>. QED  BY <1>7, <1>8, <2>1, <2>2, OutcomePrimed
<1>. QED  BY <1>1, <1>5, <1>9 DEF Outcome, Achieved

-----------------------------------------------------------------------------
(* What a step that finds no name changed leaves true *)

\* A directory that is jammed stays so.
JamsStay == \A k \in Directories : \A name : Jammed(k, name) => Jammed(k, name)'

\* A path that leads to a directory still does, and one that leads nowhere too.
LEMMA LeadsStay ==
    ASSUME IInv, DiskNames, SearchesStay, NEW c \in Seq(Names)
    PROVE  /\ \A k : Leads(c, k) => Leads(c, k)'
           /\ traverse_path(c) = NULL => traverse_path(c)' = NULL
<1>1. SameAnswer(traverse_path(c)', traverse_path(c))
  BY PathsStay
<1>. QED  BY <1>1 DEF Leads, SameAnswer, Alike, is_directory, NULL

\* A name that was made still answers.
LEMMA AnswersStay ==
    ASSUME IInv, DiskNames, SearchesStay, JamsStay,
           NEW c \in Seq(Names), NEW k \in Inodes, Answers(c, k)
    PROVE  Answers(c, k)'
<1>1. k # 0
  BY Ext2Assumption
<1>2. listPop(c) \in Seq(Names)
  BY PopType
<1>3. PICK parent, name : parent = traverse_path(listPop(c)) /\ name = listPeek(c)
  OBVIOUS
<1>4. PICK after : after = traverse_path(listPop(c))'
  OBVIOUS
<1>5. SameAnswer(traverse_path(c)', traverse_path(c)) /\ SameAnswer(after, parent)
  BY <1>2, <1>3, <1>4, PathsStay
<1>6. CASE traverse_path(c).inode = k
  <2>1. traverse_path(c)'.inode = k
    BY <1>1, <1>5, <1>6 DEF SameAnswer, Alike, NULL
  <2>. QED  BY <2>1 DEF Answers
<1>7. CASE is_directory(parent) /\ Jammed(parent.inode, name)
  <2>1. PICK p : p = parent.inode
    OBVIOUS
  <2>2. p \in Directories
    BY <1>2, <1>3, <1>7, <2>1, TraverseSound, NullNotFound DEF SoundEntry
  <2>3. Jammed(p, name)'
    BY <1>7, <2>1, <2>2 DEF JamsStay
  <2>4. after.inode = p /\ is_directory(after)
    BY <1>5, <1>7, <2>1, NullNotFound DEF SameAnswer, Alike, is_directory
  <2>5. Jammed(traverse_path(listPop(c)).inode, listPeek(c))' <=> Jammed(p, name)'
    BY <1>3, <1>4, <2>4 DEF Jammed
  <2>6. is_directory(traverse_path(listPop(c)))'
    BY <1>4, <2>4 DEF is_directory
  <2>. QED  BY <2>3, <2>5, <2>6 DEF Answers
<1>. QED  BY <1>3, <1>6, <1>7 DEF Answers

\* What a step that leaves bitmaps and blocks alone leaves true.
LEMMA StillStays ==
    ASSUME IInv, IInv', DiskNames, DiskNames', Still
    PROVE  /\ SearchesStay /\ JamsStay
           /\ \A k : Dot(k) => Dot(k)'
           /\ \A k, parent : DotDot(k, parent) => DotDot(k, parent)'
<1>1. SearchesStay
  BY StillUnnoticed, UnnoticedSearches
<1>2. /\ i_block' = i_block /\ numbers' = numbers /\ dirents' = dirents
  BY DEF Still, blockVars
<1>3. JamsStay
  BY <1>2 DEF JamsStay, Jammed, Accepting, get_inode_block_number
<1>4. ASSUME NEW k, NEW name
      PROVE  find_matching_entry(k, name)' = find_matching_entry(k, name)
  BY <1>2 DEF find_matching_entry, find_matching_pair, Positions, EntryAt,
              get_inode_block_number
<1>. QED  BY <1>1, <1>3, <1>4 DEF Dot, DotDot
-----------------------------------------------------------------------------
(* What the commands and the steps between the writes do *)

\* A command that is refused.
LEMMA RefusedOutcome == Refused => Outcome'
BY OverOutcome DEF Refused

\* ext2_ln and ext2_mkdir have found the parent.
LEMMA ParentOutcome ==
    ASSUME IInv, IInv', DiskNames, DiskNames', Still,
           NEW c \in Seq(Names), c # <<>>, NEW d, Leads(listPop(c), d),
           cmd'.comps = c, cmd'.parent = d, ~cmd'.made,
           \/ pc' \in {"inode", "unlink"}
           \/ pc' = "entry" /\ cmd'.op = "ln"
    PROVE  Outcome'
<1>1. SearchesStay
  BY StillStays
<1>2. listPop(c) \in Seq(Names)
  BY PopFacts
<1>3. Leads(listPop(c), d)'
  BY <1>1, <1>2, LeadsStay
<1>4. PICK k : k = cmd'.inode
  OBVIOUS
<1>5. Leads(listPop(cmd.comps), cmd.parent)'
  BY <1>3, <1>4, OutcomePrimed
<1>. QED  BY <1>5 DEF Outcome

\* The commands.
LEMMA CommandOutcome ==
    IInv /\ IInv' /\ DiskNames /\ DiskNames' /\ Command /\ ~strayed' => Outcome'
<1>. SUFFICES ASSUME IInv, IInv', DiskNames, DiskNames', Command, ~strayed' PROVE Outcome'
  OBVIOUS
<1>1. Still
  BY CommandIsGiven, GivenStill
<1>2. CASE Refused
  BY <1>2, RefusedOutcome
<1>3. CASE ~Refused
  <2>1. ASSUME NEW src \in DOMAIN HostFiles, NEW dest \in Paths, ext2_cp(src, dest)
        PROVE  Outcome'
    <3>. DEFINE given == split_path(dest)
                comps == IF is_directory(traverse_path(given))
                         THEN listAppend(given, listPeek(split_path(src))) ELSE given
                entry == traverse_path(comps)
    <3>4. Given /\ (Refused \/ \E file \in fopen(src) :
             /\ cmd' = [NoCommand EXCEPT
                          !.op = "cp", !.comps = comps, !.src = src,
                          !.size = file[1], !.readable = file[2],
                          !.type = "file", !.inode = entry.inode,
                          !.exists = (entry # NULL)]
             /\ pc' = "blocks")
      BY <2>1 DEF ext2_cp
    <3>. HIDE DEF entry, comps, given
    <3>5. pc' = "blocks" /\ cmd'.made = FALSE
      BY <1>3, <3>4 DEF NoCommand
    <3>. QED  BY <3>5 DEF Outcome
  <2>2. ASSUME NEW src \in Paths, NEW dest \in Paths, NEW sym \in BOOLEAN, ext2_ln(src, dest, sym)
        PROVE  Outcome'
    <3>1. PICK c : c = split_path(dest)
      OBVIOUS
    <3>2. PICK parent : parent = traverse_path(listPop(c))
      OBVIOUS
    <3>3. PICK file : file = traverse_path(split_path(src))
      OBVIOUS
    <3>4. PICK there : there = traverse_path(c)
      OBVIOUS
    <3>5. c \in Seq(Names) /\ c # <<>>
      BY <3>1, SplitFacts, Ext2Assumption
    <3>6. /\ parent # NULL
          /\ cmd'.comps = c /\ cmd'.parent = parent.inode /\ cmd'.made = FALSE
          /\ pc' = "inode" \/ (pc' = "entry" /\ cmd'.op = "ln")
      BY <1>3, <2>2, <3>1, <3>2, <3>3, <3>4 DEF ext2_ln, NoCommand
    <3>7. Leads(listPop(c), parent.inode)
      <4>1. is_directory(parent)
        <5>1. PICK abort \in BOOLEAN :
                /\ abort <=> (\/ file = NULL \/ is_directory(file)
                             \/ there # NULL \/ parent = NULL)
                /\ TakenForEntries(~abort /\ ~is_directory(parent), dirents, data)
                /\ abort => Refused
          BY <2>2, <3>1, <3>2, <3>3, <3>4 DEF ext2_ln
        <5>. QED  BY <1>3, <5>1, NotTaken
      <4>. QED  BY <3>2, <3>6, <4>1 DEF Leads
    <3>. QED  BY <1>1, <3>5, <3>6, <3>7, ParentOutcome
  <2>3. ASSUME NEW path \in Paths, ext2_mkdir(path) PROVE Outcome'
    <3>1. PICK c : c = split_path(path)
      OBVIOUS
    <3>2. PICK parent : parent = traverse_path(listPop(c))
      OBVIOUS
    <3>3. PICK there : there = traverse_path(c)
      OBVIOUS
    <3>4. c \in Seq(Names) /\ c # <<>>
      BY <3>1, SplitFacts, Ext2Assumption
    <3>5. /\ is_directory(parent)
          /\ cmd'.comps = c /\ cmd'.parent = parent.inode /\ cmd'.made = FALSE
          /\ pc' = "inode"
      BY <1>3, <2>3, <3>1, <3>2, <3>3 DEF ext2_mkdir, NoCommand
    <3>6. Leads(listPop(c), parent.inode)
      BY <3>2, <3>5, NullNotFound DEF Leads
    <3>. QED  BY <1>1, <3>4, <3>5, <3>6, ParentOutcome
  <2>4. ASSUME NEW path \in Paths, ext2_rm(path) PROVE Outcome'
    <3>1. PICK c : c = split_path(path)
      OBVIOUS
    <3>2. PICK parent : parent = traverse_path(listPop(c))
      OBVIOUS
    <3>3. PICK entry : entry = traverse_path(c)
      OBVIOUS
    <3>4. c \in Seq(Names) /\ c # <<>>
      BY <3>1, SplitFacts, Ext2Assumption
    <3>5. /\ parent # NULL
          /\ cmd'.comps = c /\ cmd'.parent = parent.inode /\ cmd'.made = FALSE
          /\ pc' = "unlink"
      BY <1>3, <2>4, <3>1, <3>2, <3>3 DEF ext2_rm, NoCommand
    <3>6. Leads(listPop(c), parent.inode)
      <4>1. entry # NULL
        BY <1>3, <2>4, <3>1, <3>2, <3>3 DEF ext2_rm
      <4>2. entry = Into(parent, listPeek(c))
        BY <3>2, <3>3, <3>4, <3>5, LastStepsHold DEF LastSteps
      <4>. QED  BY <3>2, <3>5, <4>1, <4>2 DEF Leads, Into
    <3>. QED  BY <1>1, <3>4, <3>5, <3>6, ParentOutcome
  <2>. QED  BY <2>1, <2>2, <2>3, <2>4 DEF Command
<1>. QED  BY <1>2, <1>3

\* ext2_cp takes its blocks and finds the parent.
LEMMA CpOutcome ==
    ASSUME IInv, IInv', DiskNames, DiskNames', Outcome, ~strayed',
           allocate_blocks \/ cp_destination
    PROVE  Outcome'
<1>1. cmd \in Locals /\ Control
  BY DEF IInv, Typed
<1>2. CASE Fail
  BY <1>2, OverOutcome DEF Fail
<1>3. CASE allocate_blocks /\ ~Fail
  <2>1. pc = "blocks" /\ pc' = "parent" /\ \E s : cmd' = [cmd EXCEPT !.blocks = s]
    BY <1>3 DEF allocate_blocks
  <2>2. cmd'.made = cmd.made /\ cmd.op = "cp"
    BY <1>1, <2>1 DEF Locals, Control
  <2>. QED  BY <2>1, <2>2 DEF Outcome
<1>4. CASE cp_destination /\ ~Fail
  <2>1. PICK c \in Seq(Names) : c = cmd.comps
    BY <1>1 DEF Locals
  <2>2. PICK d : d = traverse_path(listPop(c)).inode
    OBVIOUS
  <2>3. PICK k : k = cmd.inode
    OBVIOUS
  <2>4. /\ pc = "parent" /\ UNCHANGED <<bitmapVars, inodeVars, numbers, data, dirents>>
        /\ pc' = IF cmd.exists THEN "write" ELSE "inode"
        /\ cmd' = [cmd EXCEPT !.parent = d]
        /\ traverse_path(listPop(c)) # NULL /\ is_directory(traverse_path(listPop(c)))
    BY <1>4, <2>1, <2>2, NotTaken DEF cp_destination
  <2>5. cmd.op = "cp" /\ ~cmd.made /\ c # <<>>
    BY <1>1, <2>1, <2>4 DEF Control, Outcome
  <2>6. /\ cmd'.comps = c /\ cmd'.parent = d /\ cmd'.inode = k
        /\ cmd'.made = cmd.made /\ cmd'.op = cmd.op
    BY <1>1, <2>1, <2>3, <2>4 DEF Locals
  <2>7. Leads(listPop(c), d)'
    <3>1. Still
      BY <2>4 DEF Still, bitmapVars, inodeVars, blockVars
    <3>2. SearchesStay /\ listPop(c) \in Seq(Names)
      BY <2>5, <3>1, StillStays, PopFacts
    <3>3. Leads(listPop(c), d)
      BY <2>2, <2>4 DEF Leads
    <3>. QED  BY <3>2, <3>3, LeadsStay
  <2>8. Leads(listPop(cmd.comps), cmd.parent)'
    BY <2>6, <2>7, OutcomePrimed
  <2>. QED  BY <2>4, <2>5, <2>6, <2>8 DEF Outcome
<1>. QED  BY <1>2, <1>3, <1>4

\* The link counts change: only ext2_ln's entry and ext2_rm's are at stake.
LEMMA LinkOutcome ==
    ASSUME IInv, IInv', DiskNames, DiskNames', Outcome, count_link \/ drop_link
    PROVE  Outcome'
<1>1. cmd \in Locals /\ Control
  BY DEF IInv, Typed
<1>2. Still /\ cmd' = cmd
  BY DEF count_link, drop_link, Still, bitmapVars, blockVars
<1>3. SearchesStay /\ JamsStay
  BY <1>2, StillStays
<1>4. PICK c, d, k : c = cmd.comps /\ d = cmd.parent /\ k = cmd.inode
  OBVIOUS
<1>5. c \in Seq(Names) /\ cmd'.comps = c /\ cmd'.parent = d /\ cmd'.inode = k
  BY <1>1, <1>2, <1>4 DEF Locals
<1>6. CASE count_link
  <2>1. pc = "count" /\ pc' = IF cmd.made THEN "ok" ELSE "exit"
    BY <1>6 DEF count_link
  <2>2. CASE ~cmd.made
    BY <2>1, <2>2, OverOutcome
  <2>3. CASE cmd.made
    <3>1. k \in Inodes /\ cmd'.op = "ln"
      BY <1>1, <1>2, <1>4, <2>1 DEF Control
    <3>2. Answers(c, k)
      BY <1>4, <2>1, <2>3 DEF Outcome
    <3>4. Answers(c, k)'
      BY <1>3, <1>5, <3>1, <3>2, AnswersStay
    <3>5. Answers(cmd.comps, cmd.inode)'
      BY <1>5, <3>4, OutcomePrimed
    <3>6. Achieved'
      BY <3>1, <3>5 DEF Achieved
    <3>. QED  BY <2>1, <2>3, <3>6 DEF Outcome
  <2>. QED  BY <2>2, <2>3
<1>7. CASE drop_link
  <2>1. pc = "drop" /\ pc' \in {"free", "ok"} /\ cmd.op = "rm"
    BY <1>1, <1>7 DEF drop_link, Control
  <2>2. traverse_path(c)' = NULL
    BY <1>3, <1>4, <1>5, <2>1, LeadsStay DEF Outcome
  <2>3. traverse_path(cmd.comps)' = NULL
    <3>1. traverse_path(cmd.comps)' = traverse_path(c)'
      BY <1>5, OutcomePrimed
    <3>2. NULL' = NULL
      BY DEF NULL
    <3>. QED  BY <2>2, <3>1, <3>2
  <2>4. Achieved'
    BY <1>2, <2>1, <2>3 DEF Achieved
  <2>. QED  BY <2>1, <2>3, <2>4 DEF Outcome
<1>. QED  BY <1>6, <1>7

\* An inode or a block is taken for what the entry will name.
LEMMA TakeOutcome ==
    ASSUME IInv, IInv', NamesInv, NamesInv', Outcome, ~strayed',
           AllocateInode \/ write_path_to_symlink_inode
    PROVE  Outcome'
<1>1. cmd \in Locals /\ Control /\ DiskNames /\ DiskNames'
  BY DEF IInv, Typed, NamesInv
<1>2. CASE Fail
  BY <1>2, OverOutcome DEF Fail
<1>3. CASE ~Fail
  <2>1. SearchesStay
    BY <1>1, AllocateInodeNames, WritePathNames, UnnoticedSearches
  <2>2. PICK c \in Seq(Names) : c = cmd.comps
    BY <1>1 DEF Locals
  <2>3. PICK d : d = cmd.parent
    OBVIOUS
  <2>4. PICK k : k = cmd'.inode
    OBVIOUS
  <2>5. /\ cmd'.comps = c /\ cmd'.parent = d /\ cmd'.op = cmd.op /\ cmd'.made = cmd.made
        /\ pc \in {"inode", "path"}
        /\ \/ pc = "inode" /\ pc' = "entry" /\ cmd.op = "cp"
           \/ pc' = "dot"
           \/ pc' = "path"
           \/ pc' = "entry" /\ cmd.op = "ln_s"
    <3>1. CASE AllocateInode
      <4>1. pc = "inode" /\ cmd.op \in {"cp", "mkdir", "ln_s"}
        BY <1>1, <3>1 DEF AllocateInode, Control
      <4>2. /\ \E n : cmd' = [cmd EXCEPT !.inode = n]
            /\ pc' = AfterAllocation
        BY <1>3, <3>1 DEF AllocateInode
      <4>. QED  BY <1>1, <2>2, <2>3, <4>1, <4>2 DEF Locals, AfterAllocation
    <3>2. CASE write_path_to_symlink_inode
      <4>1. pc = "path" /\ cmd.inode # 0 /\ cmd.op = "ln_s"
        BY <1>1, <3>2, InodeInTable DEF write_path_to_symlink_inode, Control
      <4>2. cmd' = cmd /\ pc' = "entry"
        BY <1>3, <3>2, <4>1 DEF write_path_to_symlink_inode
      <4>. QED  BY <2>2, <2>3, <4>1, <4>2
    <3>. QED  BY <3>1, <3>2
  <2>6. Leads(listPop(c), d)'
    <3>1. Leads(listPop(c), d) /\ listPop(c) \in Seq(Names)
      BY <2>2, <2>3, <2>5, PopType DEF Outcome
    <3>. QED  BY <1>1, <2>1, <3>1, LeadsStay
  <2>7. Leads(listPop(cmd.comps), cmd.parent)'
    BY <2>4, <2>5, <2>6, OutcomePrimed
  <2>8. cmd.op = "cp" => ~cmd'.made
    <3>1. cmd.op = "cp" => pc = "inode"
      BY <1>1, <2>5 DEF Control
    <3>. QED  BY <2>5, <3>1 DEF Outcome
  <2>. QED  BY <2>5, <2>7, <2>8 DEF Outcome
<1>. QED  BY <1>2, <1>3
-----------------------------------------------------------------------------
(* An entry that is made *)

\* What a search found it finds again, and a path that led somewhere leads
\* there still, when an entry is made.
LEMMA MadePaths ==
    ASSUME IInv, IInv', NamesInv, NamesInv', Kinds, MadeStep,
           NEW e, e = Wanted, NEW i, NEW b, NEW o, Made(e, i, b, o)
    PROVE  /\ \A x \in Directories : \A name \in Names :
                 find_matching_entry(x, name) # NULL => SearchKept(x, name)
           /\ \A c \in Seq(Names) : \A k : Leads(c, k) => Leads(c, k)'
<1>1. DiskNames /\ DiskNames'
  BY DEF NamesInv
<1>2. e.dir \in inode_bitmap /\ e.name \in Names
  BY WantedFacts
<1>3. /\ \A d, j, q : Lists(d, j, q) => Lists(d, j, q)'
      /\ \A d, j, q : Lists(d, j, q) => Alike(Says(d, j, q)', Says(d, j, q))
  BY <1>2, MadeLists
<1>4. ASSUME NEW x \in Directories, NEW name \in Names, find_matching_entry(x, name) # NULL
      PROVE  SearchKept(x, name)
  <2>1. x \in inode_bitmap /\ x \in Directories'
    BY <1>1, MadeDirectories DEF DiskNames, LiveDirs
  <2>2. PICK j, q : Lists(x, j, q) /\ Says(x, j, q).name = name
    BY <1>4, <2>1, FoundIsListed
  <2>. QED  BY <1>1, <1>3, <2>1, <2>2, NameFound
<1>5. ASSUME NEW c \in Seq(Names), NEW k, Leads(c, k) PROVE Leads(c, k)'
  <2>1. SameAnswer(traverse_path(c)', traverse_path(c))
    BY <1>1, <1>4, <1>5, WalkKept DEF Leads
  <2>. QED  BY <1>5, <2>1 DEF Leads, SameAnswer, Alike, is_directory, NULL
<1>. QED  BY <1>4, <1>5

\* The new entry is found, once its block is in a directory.
LEMMA MadeFound ==
    ASSUME IInv, IInv', NamesInv, NamesInv', Kinds, MadeStep,
           NEW e, e = Wanted, NEW i, NEW b, NEW o, Made(e, i, b, o),
           Attached(e, i, b), NEW d, d = e.dir, d \in Directories', NEW name, name = e.name
    PROVE  find_matching_entry(d, name)'.inode = e.inode
<1>1. e.dir \in inode_bitmap /\ name \in Names
  BY WantedFacts
<1>2. /\ Lists(d, i, o)'
      /\ Says(d, i, o)'.inode = e.inode /\ Says(d, i, o)'.name = name
  BY <1>1, MadeLists
<1>3. FindFacts'
  BY FindingPrimed DEF NamesInv
<1>4. find_matching_entry(d, name)' = Says(d, i, o)'
  BY <1>1, <1>2, <1>3 DEF FindFacts
<1>. QED  BY <1>2, <1>4

\* The own entries of a new directory go into blocks of its own.
LEMMA EarlyAttached ==
    ASSUME IInv, NamesInv, INDIRECT1_INDEX > 1, pc \in {"dot", "dotdot"},
           NEW e, e = Wanted, NEW i, NEW b, NEW o, Made(e, i, b, o)
    PROVE  Attached(e, i, b)
<1>1. e.dir = cmd.inode
  BY DEF Wanted
<1>2. CASE At(i_block, numbers, e.dir, i) = b /\ At(i_block', numbers', e.dir, i) = b
  BY <1>2 DEF Attached
<1>3. CASE ~(At(i_block, numbers, e.dir, i) = b /\ At(i_block', numbers', e.dir, i) = b)
  <2>1. /\ \A j \in Slots : At(i_block, numbers, e.dir, j) = 0 => i <= j
        /\ i < INDIRECT1_INDEX => At(i_block', numbers', e.dir, i) = b
        /\ i \in Slots
    BY <1>3 DEF Made
  <2>2. Held(e.dir) \subseteq {0}
    BY <1>1 DEF NamesInv, NamesControl
  <2>3. 1 \in Slots
    BY Bounds DEF Slots
  <2>4. At(i_block, numbers, e.dir, 1) = 0
    BY <2>2, <2>3, HeldIs
  <2>5. i <= 1
    BY <2>1, <2>3, <2>4
  <2>6. i < INDIRECT1_INDEX
    BY <2>1, <2>5, Bounds
  <2>. QED  BY <2>1, <2>6 DEF Attached
<1>. QED  BY <1>2, <1>3

\* A block that is filled but not attached: its directory is jammed.
LEMMA NewBlockJams ==
    ASSUME IInv, EntryInNewBlock, ~Fail,
           NEW e, e = Wanted, NEW i, NEW b, NEW o, Made(e, i, b, o),
           ~Attached(e, i, b), NEW d, d = e.dir, NEW name, name = e.name
    PROVE  Jammed(d, name)'
<1>1. d \in Inodes /\ i \in Slots /\ i \in Nat
  BY Bounds DEF Made
<1>2. PICK s \in FirstFree(1) :
        /\ dirents' = [dirents EXCEPT ![s[1]] = FirstEntry(e.inode, e.name, e.type)]
        /\ set_inode_block_number(d, [SlotsOf(d) EXCEPT ![Min(Unused(d))] = s[1]],
                                  Zeroed(numbers, s, NoNumbers))
  BY DEF EntryInNewBlock
<1>3. Accepting(d, name) = {}
  BY DEF EntryInNewBlock
<1>4. s[1] \notin block_bitmap
  <2>1. 1 \in 1 .. 1 /\ 1 \in Nat
    OBVIOUS
  <2>. QED  BY <2>1, FirstFreeFacts
<1>5. i_block'[d][INDIRECT1_INDEX] = i_block[d][INDIRECT1_INDEX]
  <2>1. INDIRECT1_INDEX \in 0 .. INDIRECT1_INDEX /\ d \in DOMAIN i_block
    BY <1>1, Bounds DEF IInv, Typed
  <2>. QED  BY <1>2, <2>1 DEF set_inode_block_number
<1>6. /\ At(i_block, numbers, d, i) = 0 /\ At(i_block', numbers', d, i) = 0
      /\ i >= INDIRECT1_INDEX /\ i_block[d][INDIRECT1_INDEX] = 0
      /\ \A j \in Slots : At(i_block, numbers, d, j) = 0 => i <= j
      /\ \A j \in Slots : j # i => At(i_block', numbers', d, j) = At(i_block, numbers, d, j)
  BY <1>1, Bounds DEF Made, Attached
<1>7. ASSUME NEW j \in Slots PROVE At(i_block', numbers', d, j) = At(i_block, numbers, d, j)
  BY <1>6
<1>8. ASSUME NEW j \in Accepting(d, name)' PROVE FALSE
  <2>1. /\ j \in Slots /\ j \in Kept /\ At(i_block', numbers', d, j) # 0
        /\ Accepts(dirents'[At(i_block', numbers', d, j)], name)
    BY HeldIs, KeptIs DEF Accepting
  <2>2. PICK x : x = At(i_block, numbers, d, j)
    OBVIOUS
  <2>3. x # 0 /\ Accepts(dirents'[x], name)
    BY <1>7, <2>1, <2>2
  <2>4. x \in block_bitmap
    BY <1>1, <2>1, <2>2, <2>3, PlaceFacts
  <2>5. dirents'[x] = dirents[x]
    BY <1>2, <1>4, <2>4
  <2>6. j \in Accepting(d, name)
    BY <2>1, <2>2, <2>3, <2>5, HeldIs DEF Accepting
  <2>. QED  BY <1>3, <2>6
<1>9. ASSUME NEW j \in 0 .. INDIRECT1_INDEX - 1 PROVE i_block'[d][j] # 0
  <2>1. j \in Slots /\ j < INDIRECT1_INDEX /\ j # INODE_BLOCK_LIMIT /\ ~(i <= j)
    BY <1>1, <1>6, Bounds DEF Slots
  <2>2. At(i_block', numbers', d, j) # 0
    BY <1>6, <1>7, <2>1
  <2>. QED  BY <2>1, <2>2 DEF At, NumberIn
<1>10. Accepting(d, name)' = {}
  BY <1>8
<1>. QED  BY <1>5, <1>6, <1>9, <1>10 DEF Jammed

\* Where paths lead is sound.
PathsSound == \A c \in Seq(Names) : SoundEntry(traverse_path(c))

\* TraverseSound, after a step.
LEMMA PathsSoundPrimed == IInv' /\ DiskNames' => PathsSound'
<1>1. IInv /\ DiskNames => PathsSound
  BY TraverseSound DEF PathsSound
<1>. QED  BY <1>1, PTL

\* The name of the command: it leads to its inode, if the parent took it.
LEMMA NamedAnswers ==
    ASSUME IInv, IInv', NamesInv, NamesInv', Kinds, MadeStep, pc = "entry", Outcome,
           NEW e, e = Wanted, NEW i, NEW b, NEW o, Made(e, i, b, o),
           NEW c \in Seq(Names), c = cmd.comps, NEW k, k = cmd.inode,
           NEW name, name = e.name, NEW d, d = e.dir,
           Attached(e, i, b) \/ Jammed(d, name)'
    PROVE  Answers(c, k)'
<1>1. d = cmd.parent /\ e.inode = k /\ name = listPeek(c) /\ c # <<>>
  BY DEF Wanted, IInv, Control
<1>2. Leads(listPop(c), d) /\ listPop(c) \in Seq(Names)
  BY <1>1, PopType DEF Outcome
<1>3. Leads(listPop(c), d)'
  BY <1>2, MadePaths
<1>4. PICK parent : parent = traverse_path(listPop(c))'
  OBVIOUS
<1>5. parent # NULL /\ parent.inode = d
  <2>1. NULL' = NULL
    BY DEF NULL
  <2>. QED  BY <1>3, <1>4, <2>1 DEF Leads
<1>6. is_directory(parent) /\ is_directory(traverse_path(listPop(c)))'
  BY <1>3, <1>4 DEF Leads, is_directory
<1>7. CASE Attached(e, i, b)
  <2>1. d \in Directories'
    <3>1. SoundEntry(traverse_path(listPop(c)))'
      BY <1>2, PathsSoundPrimed DEF PathsSound, NamesInv
    <3>. QED  BY <1>4, <1>5, <1>6, <3>1 DEF SoundEntry, is_directory
  <2>2. find_matching_entry(d, name)'.inode = k
    BY <1>1, <1>7, <2>1, MadeFound
  <2>3. traverse_path(c)' = find_matching_entry(d, name)'
    <3>1. traverse_path(c)' = Into(traverse_path(listPop(c)), listPeek(c))'
      BY <1>1, <1>4, <1>5, LastStepsHold DEF LastSteps
    <3>2. Into(traverse_path(listPop(c)), listPeek(c))' = find_matching_entry(d, name)'
      BY <1>1, <1>4, <1>5, <1>6 DEF Into
    <3>. QED  BY <3>1, <3>2
  <2>. QED  BY <2>2, <2>3 DEF Answers
<1>8. CASE Jammed(d, name)'
  <2>1. Jammed(traverse_path(listPop(c)).inode, listPeek(c))' <=> Jammed(d, name)'
    BY <1>1, <1>4, <1>5 DEF Jammed
  <2>. QED  BY <1>6, <1>8, <2>1 DEF Answers
<1>. QED  BY <1>7, <1>8

\* The steps that make entries.
LEMMA MadeOutcome ==
    ASSUME IInv, IInv', NamesInv, NamesInv', Kinds, MadeStep, Outcome, INDIRECT1_INDEX > 1,
           NEW e, e = Wanted, NEW i, NEW b, NEW o, Made(e, i, b, o),
           NEW name, name = e.name, NEW dir, dir = e.dir,
           Attached(e, i, b) \/ Jammed(dir, name)'
    PROVE  Outcome'
<1>1. cmd \in Locals /\ Control /\ DiskNames
  BY DEF IInv, Typed, NamesInv
<1>2. PICK c \in Seq(Names) : c = cmd.comps
  BY <1>1 DEF Locals
<1>3. PICK d, k : d = cmd.parent /\ k = cmd.inode
  OBVIOUS
<1>4. /\ pc \in {"dot", "dotdot", "entry"} /\ pc' = AfterEntry(TRUE)
      /\ cmd' = [cmd EXCEPT !.made = TRUE]
  BY DEF MadeStep
<1>5. /\ cmd'.comps = c /\ cmd'.parent = d /\ cmd'.inode = k
      /\ cmd'.op = cmd.op /\ cmd'.exists = cmd.exists
  BY <1>1, <1>2, <1>3, <1>4 DEF Locals
<1>6. k \in Inodes /\ k # 0 /\ listPop(c) \in Seq(Names)
  BY <1>1, <1>3, <1>4, PopType, Ext2Assumption DEF Control
<1>7. Leads(listPop(c), d)'
  BY <1>2, <1>3, <1>4, <1>6, MadePaths DEF Outcome
<1>8. ASSUME NEW x \in Directories, NEW n \in Names, NEW q, q # 0,
             find_matching_entry(x, n).inode = q
      PROVE  find_matching_entry(x, n)'.inode = q
  <2>1. find_matching_entry(x, n) # NULL
    BY <1>8 DEF NULL
  <2>2. SearchKept(x, n)
    BY <2>1, MadePaths
  <2>. QED  BY <1>8, <2>1, <2>2 DEF SearchKept, SameAnswer, Alike
<1>9. "." \in Names /\ ".." \in Names
  BY BlockAssumption
<1>10. /\ Leads(listPop(cmd.comps), cmd.parent)' <=> Leads(listPop(c), d)'
       /\ Dot(cmd.inode)' <=> Dot(k)'
       /\ DotDot(cmd.inode, cmd.parent)' <=> DotDot(k, d)'
       /\ Answers(cmd.comps, cmd.inode)' <=> Answers(c, k)'
  BY <1>5, OutcomePrimed
<1>11. CASE pc = "dot"
  <2>1. dir = k /\ e.inode = k /\ name = "." /\ e.type = "dir"
    BY <1>3, <1>11 DEF Wanted
  <2>2. k \in Directories'
    BY <2>1, MadeDirectories
  <2>3. find_matching_entry(k, ".")'.inode = k
    <3>1. Attached(e, i, b)
      BY <1>11, EarlyAttached
    <3>2. find_matching_entry(dir, name)'.inode = e.inode
      BY <2>1, <2>2, <3>1, MadeFound
    <3>. QED  BY <2>1, <3>2
  <2>4. Dot(k)'
    BY <2>3 DEF Dot
  <2>5. pc' = "dotdot"
    BY <1>4, <1>11 DEF AfterEntry
  <2>. QED  BY <1>7, <1>10, <2>4, <2>5 DEF Outcome
<1>12. CASE pc = "dotdot"
  <2>1. dir = k /\ e.inode = d /\ name = ".." /\ cmd.op = "mkdir"
    BY <1>1, <1>3, <1>12 DEF Wanted, Control
  <2>2. k \in Directories
    BY <1>3, <1>12, <2>1 DEF NamesInv, NamesControl, Nascent
  <2>3. k \in Directories'
    BY <2>2, MadeDirectories
  <2>4. find_matching_entry(k, "..")'.inode = d
    <3>1. Attached(e, i, b)
      BY <1>12, EarlyAttached
    <3>2. find_matching_entry(dir, name)'.inode = e.inode
      BY <2>1, <2>3, <3>1, MadeFound
    <3>. QED  BY <2>1, <3>2
  <2>5. DotDot(k, d)'
    BY <2>4 DEF DotDot
  <2>6. Dot(k)'
    <3>1. find_matching_entry(k, ".").inode = k
      BY <1>3, <1>12 DEF Outcome, Dot
    <3>. QED  BY <1>6, <1>8, <1>9, <2>2, <3>1 DEF Dot
  <2>7. pc' = "entry" /\ cmd'.op = "mkdir"
    BY <1>4, <1>5, <1>12, <2>1 DEF AfterEntry
  <2>. QED  BY <1>7, <1>10, <2>5, <2>6, <2>7 DEF Outcome
<1>13. CASE pc = "entry"
  <2>1. Answers(c, k)'
    BY <1>2, <1>3, <1>13, NamedAnswers
  <2>2. \/ cmd.op = "cp" /\ pc' = "write"
        \/ cmd.op = "ln" /\ pc' = "count"
        \/ cmd.op \in {"ln_s", "mkdir"} /\ pc' = "ok"
    BY <1>1, <1>4, <1>13 DEF AfterEntry, Control
  <2>3. pc' = "write" => ~cmd'.exists
    BY <1>5, <1>13, <2>2 DEF NamesInv, NamesControl
  <2>4. cmd.op = "mkdir" => Dot(k)' /\ DotDot(k, d)'
    <3>1. SUFFICES ASSUME cmd.op = "mkdir" PROVE Dot(k)' /\ DotDot(k, d)'
      OBVIOUS
    <3>2. k \in Directories /\ d \in Inodes
      BY <1>1, <1>3, <1>13, <3>1 DEF NamesInv, NamesControl, Nascent, Control
    <3>3. d # 0
      BY <3>2, Ext2Assumption
    <3>4. find_matching_entry(k, ".").inode = k /\ find_matching_entry(k, "..").inode = d
      BY <1>3, <1>13, <3>1 DEF Outcome, Dot, DotDot
    <3>5. find_matching_entry(k, ".")'.inode = k /\ find_matching_entry(k, "..")'.inode = d
      BY <1>6, <1>8, <1>9, <3>2, <3>3, <3>4
    <3>. QED  BY <3>5 DEF Dot, DotDot
  <2>5. pc' = "ok" => Achieved'
    BY <1>5, <1>7, <1>10, <2>1, <2>2, <2>4 DEF Achieved
  <2>. QED  BY <1>10, <2>1, <2>2, <2>3, <2>5 DEF Outcome
<1>. QED  BY <1>4, <1>11, <1>12, <1>13

\* make_entry_in_inode, when it finds room.
LEMMA EntryOutcome ==
    ASSUME IInv, IInv', NamesInv, NamesInv', Kinds, Outcome, INDIRECT1_INDEX > 1,
           EntryInExistingBlock \/ EntryInNewBlock
    PROVE  Outcome'
<1>1. PICK e : e = Wanted
  OBVIOUS
<1>2. PICK d, name : d = e.dir /\ name = e.name
  OBVIOUS
<1>3. CASE EntryInExistingBlock
  <2>1. MadeStep
    BY <1>3, ExistingMade
  <2>2. PICK i, b, o : Made(e, i, b, o) /\ At(i_block, numbers, e.dir, i) # 0
    BY <1>1, <1>3, ExistingMade
  <2>3. Attached(e, i, b)
    BY <2>2 DEF Made, Attached
  <2>4. Attached(e, i, b) \/ Jammed(d, name)'
    BY <2>3
  <2>5. Made(e, i, b, o)
    BY <2>2
  <2>. QED  BY <1>1, <1>2, <2>1, <2>4, <2>5, MadeOutcome
<1>4. CASE EntryInNewBlock /\ ~Fail
  <2>1. MadeStep
    BY <1>4, NewMade
  <2>2. PICK i, b : Made(e, i, b, 0)
    BY <1>1, <1>4, NewMade
  <2>3. Attached(e, i, b) \/ Jammed(d, name)'
    <3>1. SUFFICES ASSUME ~Attached(e, i, b) PROVE Jammed(d, name)'
      OBVIOUS
    <3>. QED  BY <1>1, <1>2, <1>4, <2>2, <3>1, NewBlockJams
  <2>. QED  BY <1>1, <1>2, <2>1, <2>2, <2>3, MadeOutcome
<1>5. CASE EntryInNewBlock /\ Fail
  BY <1>5, OverOutcome DEF Fail
<1>. QED  BY <1>3, <1>4, <1>5

\* It finds none: ext2_cp and ext2_ln go on all the same.
LEMMA NowhereOutcome ==
    ASSUME IInv, NamesInv, Outcome, EntryNowhere
    PROVE  Outcome'
<1>1. /\ pc \in {"dot", "dotdot", "entry"} /\ pc' = AfterEntry(FALSE) /\ cmd' = cmd
  BY DEF EntryNowhere
<1>2. \/ pc' = "undo"
      \/ pc = "entry" /\ cmd.op = "cp" /\ pc' = "write"
      \/ pc = "entry" /\ cmd.op = "ln" /\ pc' = "count"
  BY <1>1, AfterNoEntry
<1>3. CASE pc' = "undo"
  BY <1>3, OverOutcome
<1>4. CASE pc = "entry" /\ cmd.op = "cp" /\ pc' = "write"
  <2>1. ~cmd'.made
    BY <1>1, <1>4 DEF Outcome
  <2>. QED  BY <1>4, <2>1 DEF Outcome
<1>5. CASE pc = "entry" /\ cmd.op = "ln" /\ pc' = "count"
  <2>1. ~cmd'.made
    BY <1>1, <1>5 DEF NamesInv, NamesControl
  <2>. QED  BY <1>5, <2>1 DEF Outcome
<1>. QED  BY <1>2, <1>3, <1>4, <1>5
-----------------------------------------------------------------------------
(* Steps that write data or give back *)

\* The data of a copy to a new file moves no name.
LEMMA CpDataOutcome ==
    ASSUME IInv, IInv', NamesInv, NamesInv', Outcome, cp_data, ~strayed'
    PROVE  Outcome'
<1>1. /\ pc = "write" /\ pc' = "ok" /\ cmd' = cmd /\ dirents' = dirents
  BY NotTaken DEF cp_data
<1>2. cmd \in Locals /\ Control /\ DiskNames /\ DiskNames'
  BY DEF IInv, Typed, NamesInv
<1>3. cmd.op = "cp"
  BY <1>1, <1>2 DEF Control
<1>4. CASE ~cmd.made
  <2>1. Achieved'
    BY <1>1, <1>3, <1>4 DEF Achieved
  <2>. QED  BY <1>1, <2>1 DEF Outcome
<1>5. CASE cmd.made
  <2>1. PICK c \in Seq(Names) : c = cmd.comps
    BY <1>2 DEF Locals
  <2>2. PICK d, k : d = cmd.parent /\ k = cmd.inode
    OBVIOUS
  <2>3. k \in Inodes /\ k \notin Directories
    <3>1. ~cmd.exists
      BY <1>1, <1>5 DEF Outcome
    <3>. QED  BY <1>1, <1>2, <2>2, <3>1 DEF Control, NamesInv, NamesControl
  <2>4. Moved(k, CopySlots)
    BY <2>2, CpDataFacts
  <2>5. /\ Directories' = Directories
        /\ \A x, i, o : x # k => (Lists(x, i, o)' <=> Lists(x, i, o))
        /\ \A x, i, o : x # k /\ Lists(x, i, o) => Says(x, i, o)' = Says(x, i, o)
    BY <2>2, CpDataLists
  <2>6. SearchesStay
    <3>1. \A x \in Directories : \A i, o : Lists(x, i, o)' <=> Lists(x, i, o)
      BY <2>3, <2>5
    <3>2. \A x \in Directories : \A i, o : Lists(x, i, o) => Alike(Says(x, i, o)', Says(x, i, o))
      BY <2>3, <2>5 DEF Alike
    <3>. QED  BY <1>2, <2>5, <3>1, <3>2, NamesStay
  <2>7. JamsStay
    <3>1. SUFFICES ASSUME NEW x \in Directories, NEW name, Jammed(x, name) PROVE Jammed(x, name)'
      BY DEF JamsStay
    <3>2. x \in Inodes /\ x # k
      BY <1>2, <2>3 DEF DiskNames, LiveDirs, IInv, Typed
    <3>3. i_block'[x] = i_block[x]
      <4>1. i_block' = [i_block EXCEPT ![k] = i_block'[k]]
        BY <2>2, <2>3 DEF cp_data, set_inode_block_number, IInv, Typed
      <4>. QED  BY <3>2, <4>1 DEF IInv, Typed
    <3>4. \A j \in Slots : get_inode_block_number(x, j)' = get_inode_block_number(x, j)
      BY <2>4, <3>2, HeldIs, KeptIs DEF Moved
    <3>5. Accepting(x, name)' = Accepting(x, name)
      BY <1>1, <3>4 DEF Accepting
    <3>. QED  BY <3>1, <3>3, <3>5 DEF Jammed
  <2>8. Answers(c, k)
    BY <1>1, <1>5, <2>1, <2>2 DEF Outcome
  <2>9. Answers(c, k)'
    BY <1>2, <2>3, <2>6, <2>7, <2>8, AnswersStay
  <2>10. Answers(cmd.comps, cmd.inode)'
    <3>1. cmd'.comps = c /\ cmd'.parent = d /\ cmd'.inode = k
      BY <1>1, <2>1, <2>2
    <3>. QED  BY <2>9, <3>1, OutcomePrimed
  <2>11. Achieved'
    BY <1>1, <1>3, <2>10 DEF Achieved
  <2>. QED  BY <1>1, <2>11 DEF Outcome
<1>. QED  BY <1>4, <1>5

\* delete_child_entry takes the command's name out of the directory that its
\* path leads to: nothing has it there any more.
LEMMA UnlinkOutcome ==
    ASSUME IInv, IInv', NamesInv, NamesInv', Outcome, delete_child_entry
    PROVE  Outcome'
<1>1. UnmadeStep
  BY ChildUnmade
<1>2. PICK d, name : d = cmd.parent /\ name = listPeek(cmd.comps)
  OBVIOUS
<1>3. PICK i, b, o : /\ Unmade(d, i, b, o) /\ Lists(d, i, o)
                     /\ Says(d, i, o).file_type # "dir"
                     /\ Says(d, i, o).name = name
  BY <1>2, ChildUnmade
<1>4. pc = "unlink" /\ pc' = "drop" /\ cmd' = cmd /\ DiskNames /\ DiskNames'
  BY <1>1 DEF UnmadeStep, NamesInv
<1>5. PICK c \in Seq(Names) : c = cmd.comps
  BY DEF IInv, Typed, Locals
<1>6. c # <<>> /\ listPop(c) \in Seq(Names)
  BY <1>4, <1>5, PopType DEF IInv, Control
<1>7. name = listPeek(c) /\ name \in Names
  BY <1>2, <1>5, <1>6, PopFacts
<1>8. d \in Directories /\ d \in inode_bitmap
  BY <1>2, <1>4 DEF NamesInv, NamesControl
<1>9. Directories' = Directories
  <2>1. dirents[b][o].file_type # "dir"
    BY <1>3 DEF Unmade, Says
  <2>. QED  BY <1>3, <1>4, <2>1, UnmadeDirectories DEF DiskNames
<1>10. \A x, j, q : Lists(x, j, q)' =>
          /\ Lists(x, j, q) /\ ~(x = d /\ j = i /\ q = o)
          /\ Alike(Says(x, j, q)', Says(x, j, q))
  BY <1>1, <1>3, UnmadeLists
<1>11. \A x, j, q : Lists(x, j, q) /\ ~(x = d /\ j = i /\ q = o) => Lists(x, j, q)'
  BY <1>1, <1>3, UnmadeKeeps
<1>12. PICK parent : parent = traverse_path(listPop(c))
  OBVIOUS
<1>13. parent # NULL /\ parent.inode = d /\ is_directory(parent)
  BY <1>2, <1>4, <1>5, <1>12 DEF Outcome, Leads
<1>14. ASSUME NEW x \in Directories, NEW n \in Names, find_matching_entry(x, n) # NULL,
              is_directory(find_matching_entry(x, n))
       PROVE  SearchKept(x, n)
  <2>1. x \in inode_bitmap
    BY <1>4 DEF DiskNames, LiveDirs
  <2>2. PICK j, q : /\ Lists(x, j, q) /\ Says(x, j, q).name = n
                    /\ find_matching_entry(x, n) = Says(x, j, q)
    BY <1>14, <2>1, FoundIsListed
  <2>3. ~(x = d /\ j = i /\ q = o)
    BY <1>3, <1>14, <2>2 DEF is_directory
  <2>4. Lists(x, j, q)' /\ Alike(Says(x, j, q)', Says(x, j, q))
    BY <1>10, <1>11, <2>2, <2>3
  <2>. QED  BY <1>4, <1>9, <2>2, <2>4, NameFound
<1>15. PICK after : after = traverse_path(listPop(c))'
  OBVIOUS
<1>16. after # NULL /\ after.inode = d /\ is_directory(after)
  <2>1. \A x \in Directories : \A n \in Names :
           /\ find_matching_entry(x, n) # NULL
           /\ \/ is_directory(find_matching_entry(x, n))
              \/ ~is_directory(traverse_path(listPop(c)))
           => SearchKept(x, n)
    BY <1>12, <1>13, <1>14
  <2>2. SameAnswer(after, parent)
    BY <1>4, <1>6, <1>12, <1>13, <1>15, <2>1, WalkKept
  <2>. QED  BY <1>13, <2>2 DEF SameAnswer, Alike, is_directory
<1>17. find_matching_entry(d, name)' = NULL
  <2>1. FindFacts'
    BY <1>4, FindingPrimed
  <2>2. ASSUME NEW j, NEW q, Lists(d, j, q)', Says(d, j, q)'.name = name PROVE FALSE
    <3>1. Lists(d, j, q) /\ ~(j = i /\ q = o) /\ Says(d, j, q).name = name
      BY <1>10, <2>2 DEF Alike
    <3>2. EachOnce
      BY <1>4, OnceIs DEF DiskNames
    <3>. QED  BY <1>3, <1>8, <3>1, <3>2 DEF EachOnce
  <2>3. NULL' = NULL
    BY DEF NULL
  <2>. QED  BY <1>7, <1>8, <1>9, <2>1, <2>2, <2>3 DEF FindFacts
<1>18. traverse_path(c)' = NULL
  <2>1. traverse_path(c)' = Into(traverse_path(listPop(c)), listPeek(c))'
    <3>1. NULL' = NULL
      BY DEF NULL
    <3>. QED  BY <1>6, <1>15, <1>16, <3>1, LastStepsHold DEF LastSteps
  <2>2. Into(traverse_path(listPop(c)), listPeek(c))' = find_matching_entry(d, name)'
    BY <1>7, <1>15, <1>16 DEF Into
  <2>. QED  BY <1>17, <2>1, <2>2
<1>19. traverse_path(cmd.comps)' = NULL
  <2>1. PICK k : k = cmd.inode
    OBVIOUS
  <2>2. cmd'.comps = c /\ cmd'.parent = d /\ cmd'.inode = k
    BY <1>2, <1>4, <1>5, <2>1
  <2>. QED  BY <1>18, <2>2, OutcomePrimed
<1>20. (traverse_path(cmd.comps) = NULL)'
  <2>1. NULL' = NULL
    BY DEF NULL
  <2>. QED  BY <1>19, <2>1
<1>. QED  BY <1>4, <1>20 DEF Outcome

\* free_inode, for ext2_rm, frees an inode that no name leads to.
LEMMA ReleaseOutcome ==
    ASSUME IInv, IInv', NamesInv, NamesInv', Outcome, release_inode
    PROVE  Outcome'
<1>1. pc \in {"free", "undo"} /\ pc' = (IF pc = "free" THEN "ok" ELSE "exit") /\ cmd' = cmd
  BY DEF release_inode
<1>2. CASE pc = "undo"
  BY <1>1, <1>2, OverOutcome
<1>3. CASE pc = "free"
  <2>1. PICK k, d : k = cmd.inode /\ d = cmd.parent
    OBVIOUS
  <2>2. PICK c \in Seq(Names) : c = cmd.comps
    BY DEF IInv, Typed, Locals
  <2>3. k \notin Directories /\ cmd.op = "rm" /\ DiskNames /\ DiskNames'
    BY <1>3, <2>1 DEF NamesInv, NamesControl, IInv, Control
  <2>4. Released(k) /\ Dispensable(k)
    BY <1>1, <2>1, InodeReleased, ReleasedGoes
  <2>5. Directories' = Directories
    BY <2>3, <2>4, ReleasedDirectories
  <2>6. \A x, j, q : Lists(x, j, q)' =>
           Lists(x, j, q) /\ x # k /\ Says(x, j, q)' = Says(x, j, q)
    BY <2>4, ReleasedLists
  <2>7. \A x, j, q : Lists(x, j, q) /\ x # k => Lists(x, j, q)'
    BY <2>4, ReleasedKeeps
  <2>8. SearchesStay
    <3>1. \A x \in Directories : \A i, o : Lists(x, i, o)' <=> Lists(x, i, o)
      BY <2>3, <2>6, <2>7
    <3>2. \A x \in Directories : \A i, o : Lists(x, i, o) => Alike(Says(x, i, o)', Says(x, i, o))
      BY <2>3, <2>6, <2>7 DEF Alike
    <3>. QED  BY <2>3, <2>5, <3>1, <3>2, NamesStay
  <2>9. traverse_path(c)' = NULL
    <3>1. traverse_path(c) = NULL
      BY <1>3, <2>2 DEF Outcome
    <3>. QED  BY <2>3, <2>8, <3>1, LeadsStay
  <2>10. traverse_path(cmd.comps)' = NULL
    <3>1. cmd'.comps = c /\ cmd'.parent = d /\ cmd'.inode = k
      BY <1>1, <2>1, <2>2
    <3>. QED  BY <2>9, <3>1, OutcomePrimed
  <2>11. Achieved'
    <3>1. NULL' = NULL
      BY DEF NULL
    <3>. QED  BY <1>1, <2>3, <2>10, <3>1 DEF Achieved
  <2>. QED  BY <1>1, <1>3, <2>11 DEF Outcome
<1>. QED  BY <1>1, <1>2, <1>3
-----------------------------------------------------------------------------
(* The theorem *)

\* Every step of a command leaves it as far as it should be.
LEMMA StepOutcome ==
    ASSUME INDIRECT1_INDEX > 1, IInv, IInv', NamesInv, NamesInv', Kinds, Outcome,
           [Next]_vars, ~strayed'
    PROVE  Outcome'
<1>1. DiskNames /\ DiskNames'
  BY DEF NamesInv
<1>2. CASE Command
  BY <1>1, <1>2, CommandOutcome
<1>3. CASE allocate_blocks \/ cp_destination
  BY <1>1, <1>3, CpOutcome
<1>4. CASE AllocateInode \/ write_path_to_symlink_inode
  BY <1>4, TakeOutcome
<1>5. CASE EntryInExistingBlock \/ EntryInNewBlock
  BY <1>5, EntryOutcome
<1>6. CASE EntryNowhere
  BY <1>6, NowhereOutcome
<1>7. CASE count_link \/ drop_link
  BY <1>1, <1>7, LinkOutcome
<1>8. CASE cp_data
  BY <1>8, CpDataOutcome
<1>9. CASE delete_child_entry
  BY <1>9, UnlinkOutcome
<1>10. CASE release_inode
  BY <1>10, ReleaseOutcome
<1>11. CASE Return
  BY <1>11, OverOutcome DEF Return
<1>12. CASE UNCHANGED vars
  BY <1>12, SameOutcome
<1>. QED  BY <1>2, <1>3, <1>4, <1>5, <1>6, <1>7, <1>8, <1>9, <1>10, <1>11, <1>12,
             NotKilled, AllocateNoInodeStrays
          DEF Next, Step

\* A command that reports success has done what it was asked to, but for the
\* two cases that DoneAsAsked names, whatever commands came before and however
\* far those that failed had got, until one strays.  Inodes have more than one
\* direct block number (12 in ext2): a new directory needs one for each of its
\* own entries when their blocks take only one.
THEOREM DoesAsAsked ==
    ASSUME INDIRECT1_INDEX > 1
    PROVE  Spec /\ Sound /\ SoundNames /\ [](strayed \/ Countable) => []DoneAsAsked
<1>1. Init => Outcome
  BY DEF Init, Outcome
<1>2. /\ IInv /\ IInv' /\ NamesInv /\ NamesInv' /\ Kinds /\ Outcome /\ [Next]_vars /\ ~strayed'
        => Outcome'
  BY StepOutcome
<1>3. strayed \/ Outcome => DoneAsAsked
  BY OutcomeIsDone DEF DoneAsAsked
<1>. QED  BY <1>1, <1>2, <1>3, Stays, Invariance, NamesInvariance, PTL DEF Spec
=============================================================================
