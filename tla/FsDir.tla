------------------------------- MODULE FsDir --------------------------------
(***************************************************************************)
(* The file system's data, in memory and on the disk, and what each of its *)
(* functions does to them: kern/fs/free.c, inodes.c, dir.c and files.c.    *)
(*                                                                         *)
(* A function is an operator from one state s of the file system to the    *)
(* next.  s.mem is what the kernel holds in memory, s.disk the sectors,    *)
(* s.todo the sector writes of the running call, in order, each already    *)
(* made in s.disk.  After a panic, s changes no more.                      *)
(***************************************************************************)
EXTENDS Bitmap, Sequences, SequencesExt, FiniteSetsExt

CONSTANTS Name,                   \* names of files and directories
          MAX_INODES,
          MAP_SECTORS,            \* sectors of the map of the free blocks
          BITS_SECTOR,            \* bits of a sector
          COUNTS,                 \* values of the device's sector count, a byte
          MAX_DIRITEM_PER_BLOCK,
          MAX_INODE_BLOCKS,       \* entries of an inode, the last two of them indirect
          LBA_ITEMS_PER_SECTOR,   \* entries of an index block
          BYTES_SECTOR

MAX_DIRECT == MAX_INODE_BLOCKS - 2

\* The blocks of the disk; block 0 is no block.
BLOCKS == MAP_SECTORS * BITS_SECTOR

\* As many items as there are inodes fit in the direct blocks of a directory,
\* and an index block has at least as many entries as a directory block.
ASSUME FsAssumption ==
  /\ MAX_INODES \in Nat \ {0}
  /\ MAP_SECTORS \in Nat \ {0} /\ BITS_SECTOR \in Nat \ {0} /\ COUNTS \in Nat \ {0}
  /\ MAX_DIRITEM_PER_BLOCK \in Nat \ {0, 1}
  /\ MAX_INODE_BLOCKS \in Nat /\ MAX_INODES + 1 < MAX_DIRECT * MAX_DIRITEM_PER_BLOCK
  /\ LBA_ITEMS_PER_SECTOR \in Nat /\ LBA_ITEMS_PER_SECTOR >= MAX_DIRITEM_PER_BLOCK
  /\ BYTES_SECTOR \in Nat \ {0}

\* The entries that the file system makes itself.  A path may go through them
\* and end in them, as through and in any other; no part of it is empty.
Dots == {".", ".."}
ASSUME NameAssumption == Name \cap ({""} \cup Dots) = {}

PathName == Name \cup Dots

Inode  == 0..(MAX_INODES - 1)
Block  == 1..BLOCKS
Slot   == 0..(MAX_DIRITEM_PER_BLOCK - 1)

\* inode->iblocks_, and the indexes that iblock_handle makes of it.
LEVEL1_INDEX  == MAX_DIRECT
LEVEL2_INDEX  == MAX_DIRECT + 1
LEVEL1_BORDER == MAX_DIRECT + LBA_ITEMS_PER_SECTOR
LEVEL2_BORDER == LEVEL1_BORDER + LBA_ITEMS_PER_SECTOR * LBA_ITEMS_PER_SECTOR
IBlock        == 0..(LEVEL2_BORDER - 1)

RootInode == 0

\* Contents of sectors: an inode, an entry of a directory block, a block.
NoInode    == [size |-> 0, iblocks |-> [n \in 0..(MAX_INODE_BLOCKS - 1) |-> 0]]
Entry(type, inode, name) == [type |-> type, inode |-> inode, name |-> name]
Invalid    == Entry("invalid", 0, "")
EmptyBlock == [k \in Slot |-> Invalid]
Data(i)    == [k \in Slot |-> Entry("data", i, "")]  \* what a program wrote to file i
Lba(b)     == Entry("lba", b, "")                    \* what an index block has
NoIndex    == [n \in 0..(LBA_ITEMS_PER_SECTOR - 1) |-> Lba(0)]
Root       == Entry("dir", RootInode, "/")

\* Sectors of the disk.
Magic   == <<"magic", 0>>
MapInodes == <<"imap", 0>>
MapFree(n) == <<"bmap", n>>
InodeAt(i) == <<"inode", i>>
BlockAt(b) == <<"block", b>>
Sector == {Magic, MapInodes} \cup {MapFree(n) : n \in 0..(MAP_SECTORS - 1)}
                             \cup {InodeAt(i) : i \in Inode}
                             \cup {BlockAt(b) : b \in Block}

\* The blocks whose bits are in sector n of the map.
MapBits(n) == {b \in Block : (b - 1) \div BITS_SECTOR = n}

NoMem == [imap |-> {}, bmap |-> {}, inode |-> [i \in Inode |-> NoInode],
          iprev |-> 0, bprev |-> 0, halt |-> "no"]
-----------------------------------------------------------------------------
Panic(s, why) == IF s.mem.halt = "no" THEN [s EXCEPT !.mem.halt = why] ELSE s

\* ata_driver_rw, writing.
WriteSector(s, at, val) ==
  IF s.mem.halt = "no"
  THEN [s EXCEPT !.disk[at] = val, !.todo = Append(@, [at |-> at, val |-> val])]
  ELSE s

\* free_rw_disk refuses a block that the map in memory calls free.
Used(s, b) == IF b \in s.mem.bmap THEN s ELSE Panic(s, "empty")

free_rw_disk(s, b, val) == WriteSector(Used(s, b), BlockAt(b), val)

\* The first n sectors of the map, one by one.
WriteMap(s, n) ==
  IF s.mem.halt # "no" THEN s
  ELSE [s EXCEPT !.disk = [at \in Sector |->
                     IF at \in {MapFree(k) : k \in 0..(n - 1)} THEN s.mem.bmap \cap MapBits(at[2])
                     ELSE @[at]],
                 !.todo = @ \o [k \in 1..n |->
                     [at |-> MapFree(k - 1), val |-> s.mem.bmap \cap MapBits(k - 1)]]]

(***************************************************************************)
(* Of the sectors that free_map_update asks for, the device is given the   *)
(* number modulo COUNTS, where 0 stands for COUNTS: ata_set_cmd takes a    *)
(* uint8_t.  Of hoo's 259 it writes 3, and the bits of all other blocks    *)
(* never reach the disk.  While hoo formats, it polls, and every sector is *)
(* written; those behind MAP_SENT have no bit to write then.               *)
(***************************************************************************)
MAP_SENT == ((MAP_SECTORS - 1) % COUNTS) + 1

free_map_update(s) == WriteMap(s, MAP_SENT)
inode_map_update(s) == WriteSector(s, MapInodes, s.mem.imap)
inodes_rw_disk(s, i) == WriteSector(s, InodeAt(i), s.mem.inode[i])

\* free_allocate and free_map_setup.  Block b is bit b - 1.
FreeBlock(s) ==
  IF Block \subseteq s.mem.bmap THEN 1
  ELSE 1 + bitmap_scan_empty(BLOCKS, {b - 1 : b \in s.mem.bmap}, s.mem.bprev)

\* A slip: the block is not marked used.
free_allocate_NoMark(s) ==
  IF Block \subseteq s.mem.bmap THEN Panic(s, "full")
  ELSE [s EXCEPT !.mem.bprev = FreeBlock(s) % BLOCKS]

free_allocate(s) ==
  IF Block \subseteq s.mem.bmap THEN Panic(s, "full")
  ELSE [s EXCEPT !.mem.bmap = @ \cup {FreeBlock(s)},
                 !.mem.bprev = FreeBlock(s) % BLOCKS]

\* inode_allocate and inode_map_setup.
FreeInode(s) ==
  IF Inode \subseteq s.mem.imap THEN 0
  ELSE bitmap_scan_empty(MAX_INODES, s.mem.imap, s.mem.iprev)

\* A slip: the position of the next scan does not wrap round.
inode_allocate_NoWrap(s) ==
  IF Inode \subseteq s.mem.imap THEN Panic(s, "full")
  ELSE [s EXCEPT !.mem.imap = @ \cup {FreeInode(s)},
                 !.mem.iprev = FreeInode(s) + 1]

inode_allocate(s) ==
  IF Inode \subseteq s.mem.imap THEN Panic(s, "full")
  ELSE [s EXCEPT !.mem.imap = @ \cup {FreeInode(s)},
                 !.mem.iprev = (FreeInode(s) + 1) % MAX_INODES]

inode_set(s, i, size, b) ==
  [s EXCEPT !.mem.inode[i] = [NoInode EXCEPT !.size = size, !.iblocks[0] = b]]

\* The index in block b, or an empty one if b is no block.  A sector that does
\* not hold an index counts as empty as well: that takes a power cut between the
\* inode and the index it names, and BootOld has found that disk to be torn.
Index(s, b) ==
  IF b # 0 /\ s.disk[BlockAt(b)][0].type = "lba" THEN s.disk[BlockAt(b)] ELSE NoIndex

Level1(s, i) == s.mem.inode[i].iblocks[LEVEL1_INDEX]
Level2(s, i) == s.mem.inode[i].iblocks[LEVEL2_INDEX]

\* The level 1 block behind entry k of the level 2 block.
Level1Of(s, i, k) == Index(s, Level2(s, i))[(k - LEVEL1_BORDER) \div LBA_ITEMS_PER_SECTOR].inode

iblock_get(s, i, k) ==
  CASE k < MAX_DIRECT    -> s.mem.inode[i].iblocks[k]
    [] k \in MAX_DIRECT..(LEVEL1_BORDER - 1) -> Index(s, Level1(s, i))[k - MAX_DIRECT].inode
    [] k >= LEVEL1_BORDER -> Index(s, Level1Of(s, i, k))[(k - LEVEL1_BORDER) % LBA_ITEMS_PER_SECTOR].inode

\* An indirect entry of the inode gets its block, if it has none, and goes to
\* the disk.
WithIndex(s, i, level) ==
  IF s.mem.inode[i].iblocks[level] # 0 THEN s
  ELSE inodes_rw_disk([free_allocate(s) EXCEPT !.mem.inode[i].iblocks[level] = FreeBlock(s)], i)

\* Straight to the disk, with no look at the map.
SetLba(s, index, old, n, b) == WriteSector(s, BlockAt(index), [old EXCEPT ![n] = Lba(b)])

SetByLevel1(s, i, k, b) ==
  LET s1 == WithIndex(s, i, LEVEL1_INDEX)
  IN  SetLba(s1, Level1(s1, i), Index(s, Level1(s, i)), k - MAX_DIRECT, b)

SetByLevel2(s, i, k, b) ==
  LET n  == k - LEVEL1_BORDER
      l1 == Level1Of(s, i, k)
      s1 == WithIndex(s, i, LEVEL2_INDEX)
      s2 == IF l1 # 0 THEN s1
            ELSE SetLba(free_allocate(s1), Level2(s1, i), Index(s, Level2(s, i)),
                        n \div LBA_ITEMS_PER_SECTOR, FreeBlock(s1))
  IN  SetLba(s2, IF l1 # 0 THEN l1 ELSE FreeBlock(s1), Index(s, l1),
             n % LBA_ITEMS_PER_SECTOR, b)

\* The caller has allocated b; what names it goes to the disk at once.
iblock_set(s, i, k, b) ==
  CASE k < MAX_DIRECT -> inodes_rw_disk([s EXCEPT !.mem.inode[i].iblocks[k] = b], i)
    [] k \in MAX_DIRECT..(LEVEL1_BORDER - 1) -> SetByLevel1(s, i, k, b)
    [] k >= LEVEL1_BORDER -> SetByLevel2(s, i, k, b)
-----------------------------------------------------------------------------
\* The indexes of the blocks of i before the first that is missing.
IBlocks(s, i) ==
  LET missing == {k \in IBlock : iblock_get(s, i, k) = 0}
  IN  IF missing = {} THEN IBlock ELSE 0..(Min(missing) - 1)

Items(s, i, k) == s.disk[BlockAt(iblock_get(s, i, k))]

\* A directory's item at a logical index.
ItemAt(s, i, index) ==
  Items(s, i, index \div MAX_DIRITEM_PER_BLOCK)[index % MAX_DIRITEM_PER_BLOCK]

\* The indexes that a search or a traversal of directory i goes through.
InSize(s, i) ==
  {index \in 0..(s.mem.inode[i].size - 1) :
     index \div MAX_DIRITEM_PER_BLOCK \in IBlocks(s, i)}

Matches(s, i, name) == {index \in InSize(s, i) : ItemAt(s, i, index).name = name}

\* diritem_find_sub: the blocks up to the match are read; -1 if there is none.
FoundAt(s, i, name) ==
  IF Matches(s, i, name) = {} THEN -1 ELSE Min(Matches(s, i, name))

ReadUpTo(s, i, index) ==
  {k \in IBlocks(s, i) :
     k <= (IF index = -1 THEN s.mem.inode[i].size ELSE index) \div MAX_DIRITEM_PER_BLOCK}

ReadBlocks(s, blocks) == IF blocks \subseteq s.mem.bmap THEN s ELSE Panic(s, "empty")

\* A loop over all blocks that the size asks for panics behind the last block
\* that an inode can name, if no block before it is missing.
TooLong(s, i) ==
  IBlocks(s, i) = IBlock /\ s.mem.inode[i].size \div MAX_DIRITEM_PER_BLOCK \notin IBlock

ReadAll(s, i, index) ==
  LET s1 == ReadBlocks(s, {iblock_get(s, i, k) : k \in ReadUpTo(s, i, index)})
  IN  IF index = -1 /\ TooLong(s, i) THEN Panic(s1, "index") ELSE s1

diritem_find_sub(s, i, name) == ReadAll(s, i, FoundAt(s, i, name))

(***************************************************************************)
(* diritem_find: the item of a path from the root, or Invalid.  Nothing    *)
(* asks whether what the path goes through is a directory: a file is       *)
(* searched as if its data were items.  file notes that.  The ".." of the  *)
(* root names inode -1, which iblock_handle refuses.                       *)
(***************************************************************************)
Descend(found, name) ==
  LET i == found.item.inode
  IN  IF found.item = Invalid THEN found
      ELSE IF i \notin Inode THEN [found EXCEPT !.s = Panic(@, "inode"), !.item = Invalid]
      ELSE [s |-> diritem_find_sub(found.s, i, name),
            item |-> IF FoundAt(found.s, i, name) = -1 THEN Invalid
                     ELSE ItemAt(found.s, i, FoundAt(found.s, i, name)),
            file |-> found.file \/ found.item.type = "file"]

diritem_find(s, path) ==
  LET at[n \in 0..Len(path)] ==
        IF n = 0 THEN [s |-> s, item |-> Root, file |-> FALSE]
        ELSE Descend(at[n - 1], path[n])
  IN  at[Len(path)]

\* What ls reads: all blocks of the directory that its size asks for.
diritem_traversal(s, i) == IF i \in Inode THEN ReadAll(s, i, -1) ELSE Panic(s, "inode")

files_list(s, path) ==
  LET found == diritem_find(s, path)
  IN  IF found.item.type = "dir" THEN diritem_traversal(found.s, found.item.inode)
      ELSE found.s

\* A program reads as much as files_get_size says; a missing block is a panic.
files_get_size(s, i) == s.mem.inode[i].size

files_read(s, i) ==
  IF files_get_size(s, i) = 0 THEN s
  ELSE ReadBlocks(s, {iblock_get(s, i, k) : k \in 0..(files_get_size(s, i) \div BYTES_SECTOR)})
-----------------------------------------------------------------------------
dirblock_set(db, index, item) == [db EXCEPT ![index] = item]

\* dirblock_get_new.
NewDirBlock(self, parent) ==
  [EmptyBlock EXCEPT ![0] = Entry("dir", self, "."), ![1] = Entry("dir", parent, "..")]

\* A slip: the map of the blocks is saved only by whoever allocates next.
diritem_create_LateMap(s, type, parent) ==
  LET i  == FreeInode(s)
      b  == FreeBlock(s)
      s1 == free_allocate(inode_allocate(s))
      s2 == IF type = "file" THEN inode_set(s1, i, 0, b)
            ELSE free_rw_disk(inode_set(s1, i, 2, b), b, NewDirBlock(i, parent))
  IN  inode_map_update(inodes_rw_disk(s2, i))

\* The inode and the first block of a new file or directory.
diritem_create(s, type, parent) ==
  LET i  == FreeInode(s)
      b  == FreeBlock(s)
      s1 == free_allocate(inode_allocate(s))
      s2 == IF type = "file" THEN inode_set(s1, i, 0, b)
            ELSE free_map_update(free_rw_disk(inode_set(s1, i, 2, b), b,
                                              NewDirBlock(i, parent)))
  IN  inode_map_update(inodes_rw_disk(s2, i))

\* Lines 336-352 of diritem_push: the parent's last block, or a new one.
NeedsBlock(s, p) ==
  iblock_get(s, p, s.mem.inode[p].size \div MAX_DIRITEM_PER_BLOCK) = 0

ExtendDir(s, p) ==
  inodes_rw_disk(iblock_set(free_map_update(free_allocate(s)), p,
    s.mem.inode[p].size \div MAX_DIRITEM_PER_BLOCK, FreeBlock(s)), p)

\* A slip: the parent's new size stays in memory.
diritem_push_KeepsSize(s, p, item) ==
  LET size == s.mem.inode[p].size
      k    == size \div MAX_DIRITEM_PER_BLOCK
      s1   == IF NeedsBlock(s, p) THEN ExtendDir(s, p) ELSE Used(s, iblock_get(s, p, k))
      b    == iblock_get(s1, p, k)
      old  == IF NeedsBlock(s, p) THEN EmptyBlock ELSE s.disk[BlockAt(b)]
      s2   == [s1 EXCEPT !.mem.inode[p].size = size + 1]
  IN  free_rw_disk(s2, b, [old EXCEPT ![size % MAX_DIRITEM_PER_BLOCK] = item])

\* iblock_handle refuses an index that is behind the last.
diritem_push(s, p, item) ==
  IF s.mem.inode[p].size \div MAX_DIRITEM_PER_BLOCK \notin IBlock THEN Panic(s, "index")
  ELSE
  LET size == s.mem.inode[p].size
      k    == size \div MAX_DIRITEM_PER_BLOCK
      s1   == IF NeedsBlock(s, p) THEN ExtendDir(s, p) ELSE Used(s, iblock_get(s, p, k))
      b    == iblock_get(s1, p, k)
      old  == IF NeedsBlock(s, p) THEN EmptyBlock ELSE s.disk[BlockAt(b)]
      s2   == [s1 EXCEPT !.mem.inode[p].size = size + 1]
  IN  inodes_rw_disk(
        free_rw_disk(s2, b, [old EXCEPT ![size % MAX_DIRITEM_PER_BLOCK] = item]), p)

\* files_create, once the parent is found and the name is not in it.
files_create(s, type, p, name) ==
  LET s1 == diritem_create(s, type, p)
  IN  diritem_push(s1, p, Entry(type, FreeInode(s), name))
-----------------------------------------------------------------------------
(***************************************************************************)
(* What diritem_remove_sub visits below a directory: in each block the     *)
(* items up to the first invalid one, whatever the directory's size.  Its  *)
(* reads are checked against the map as it was when the call began.        *)
(***************************************************************************)
SubBlocks(s, item) ==
  {k \in IBlocks(s, item.inode) :
     item.type = "dir" => k < s.mem.inode[item.inode].size}

Skipped(k, j) == k = 0 /\ j \in {0, 1}

SubItems(s, item) ==
  IF item.type # "dir" THEN {}
  ELSE UNION {
    {Items(s, item.inode, k)[j] : j \in {n \in Slot :
       \A m \in 0..n : Skipped(k, m) \/ Items(s, item.inode, k)[m].type # "invalid"}
     \ {n \in Slot : Skipped(k, n)}} : k \in SubBlocks(s, item)}

Subtree(s, item) ==
  LET below[depth \in 0..MAX_INODES] ==
        IF depth = 0 THEN {item}
        ELSE LET above == below[depth - 1]
             IN  above \cup UNION {SubItems(s, x) : x \in above}
  IN  below[MAX_INODES]

BlocksOf(s, items) ==
  UNION {{iblock_get(s, x.inode, k) : k \in SubBlocks(s, x)} : x \in items}

diritem_remove_sub(s, item) ==
  IF item.inode \notin Inode THEN Panic(s, "inode")
  ELSE
  LET tree == Subtree(s, item)
      dirs == {x \in tree : x.type = "dir"}
      s1   == ReadBlocks(s, BlocksOf(s, dirs))
      s2   == IF tree = dirs \cup {x \in tree : x.type = "file"} THEN s1
              ELSE Panic(s1, "bug")
  IN  [s2 EXCEPT !.mem.bmap = @ \ BlocksOf(s, tree),
                 !.mem.imap = @ \ {x.inode : x \in tree}]

\* A slip: the item stays in its block.
diritem_remove_KeepsItem(s, p, item) ==
  LET s1 == diritem_find_sub(s, p, item.name)
      s2 == inodes_rw_disk([s1 EXCEPT !.mem.inode[p].size = @ - 1], p)
  IN  inode_map_update(free_map_update(diritem_remove_sub(s2, item)))

diritem_remove(s, p, item) ==
  LET index == FoundAt(s, p, item.name)
      k     == index \div MAX_DIRITEM_PER_BLOCK
      hole  == dirblock_set(Items(s, p, k), index % MAX_DIRITEM_PER_BLOCK, Invalid)
      s1    == free_rw_disk(diritem_find_sub(s, p, item.name), iblock_get(s, p, k), hole)
      s2    == inodes_rw_disk([s1 EXCEPT !.mem.inode[p].size = @ - 1], p)
  IN  inode_map_update(free_map_update(diritem_remove_sub(s2, item)))
-----------------------------------------------------------------------------
\* One round of the loop of files_write: block k of the file in inode i.
WriteBlock(s, i, k) ==
  LET s1 == IF iblock_get(s, i, k) = 0
            THEN iblock_set(free_allocate(s), i, k, FreeBlock(s)) ELSE s
  IN  free_rw_disk(s1, iblock_get(s1, i, k), Data(i))

\* That loop: n rounds.
WriteBlocks(s, i, n) ==
  LET after[k \in 0..n] == IF k = 0 THEN s ELSE WriteBlock(after[k - 1], i, k - 1)
  IN  after[n]

\* A slip: the loop ends before the block that holds the rest.
files_write_NoRest(s, i, size) ==
  LET s1 == WriteBlocks(s, i, size \div BYTES_SECTOR)
  IN  free_map_update(inodes_rw_disk([s1 EXCEPT !.mem.inode[i].size = size], i))

files_write(s, i, size) ==
  LET s1 == WriteBlocks(s, i, size \div BYTES_SECTOR + 1)
  IN  free_map_update(inodes_rw_disk([s1 EXCEPT !.mem.inode[i].size = size], i))
=============================================================================
