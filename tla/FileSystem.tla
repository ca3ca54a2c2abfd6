----------------------------- MODULE FileSystem -----------------------------
(***************************************************************************)
(* The file system of hoo over time: the calls of programs, the sector     *)
(* writes they come down to, power cuts between any two of these, and the  *)
(* next boot, kinit_fs.                                                    *)
(*                                                                         *)
(* One task at a time uses the file system: hoo while it boots, then the   *)
(* shell or the child it waits for.  So a call takes its effect in memory  *)
(* at once and leaves its sector writes in todo; DiskWrite makes them, one *)
(* by one and in order, and the next call comes when they are all made.    *)
(***************************************************************************)
EXTENDS FsDir

CONSTANTS Dirs,     \* paths of the directories that programs name
          DIR_LOADER, \* the directory of the programs that hoo loads
          Size,     \* sizes that programs write
          MaxCuts,  \* bound: power cuts
          MaxCalls  \* bound: calls

ASSUME CallAssumption ==
  /\ Dirs \subseteq Seq(PathName) /\ DIR_LOADER \in Seq(Name) /\ Size \subseteq Nat
  /\ MaxCuts \in Nat /\ MaxCalls \in Nat

VARIABLES on,       \* the machine runs
          mem,      \* maps and inodes in memory
          disk,     \* sector -> content
          todo,     \* sector writes the running call has still to make
          cuts,     \* power cuts so far
          calls,    \* calls so far
          torn      \* what the tree has suffered first, or "no": a boot that
                    \* found "root" missing or a "tree" not as FsConsistent
                    \* says, a removal of "dots", a call through a "file"

vars == <<on, mem, disk, todo, cuts, calls, torn>>

Now == [mem |-> mem, disk |-> disk, todo |-> todo]
-----------------------------------------------------------------------------
(***************************************************************************)
(* What the file system should be: below the root, every item names an     *)
(* inode in use, no inode or block belongs to two items, no two items of a *)
(* directory have one name, and all blocks are in use.  Items behind the   *)
(* size of a directory, which no search sees, count as well.               *)
(***************************************************************************)
AllItems(s, i) ==
  {<<i, k, j>> : k \in IBlocks(s, i), j \in Slot}
    \ {<<i, 0, 0>>, <<i, 0, 1>>}

ItemOf(s, place) == Items(s, place[1], place[2])[place[3]]

SeenItems(s, i) ==
  {place \in AllItems(s, i) :
     place[2] * MAX_DIRITEM_PER_BLOCK + place[3] \in InSize(s, i)}

Valid(s, places) == {place \in places : ItemOf(s, place).type \in {"file", "dir"}}

\* The places of all items below the root, with those items in each directory.
Tree(s, items) ==
  LET below[depth \in 0..MAX_INODES] ==
        IF depth = 0 THEN Valid(s, items[RootInode])
        ELSE LET above == below[depth - 1]
             IN  above \cup UNION
                   {Valid(s, items[ItemOf(s, place).inode]) :
                      place \in {q \in above : /\ ItemOf(s, q).type = "dir"
                                              /\ ItemOf(s, q).inode \in Inode}}
  IN  below[MAX_INODES]

AllTree(s)  == Tree(s, [i \in Inode |-> AllItems(s, i)])
SeenTree(s) == Tree(s, [i \in Inode |-> SeenItems(s, i)])

InodesOf(s, tree) == {RootInode} \cup {ItemOf(s, place).inode : place \in tree}

DirsOf(s, tree) ==
  {RootInode} \cup {ItemOf(s, p).inode : p \in {q \in tree : ItemOf(s, q).type = "dir"}}

\* What names the blocks of i, data and indexes, and what each names.
Named(s, i) ==
  {<<"data", k, iblock_get(s, i, k)>> : k \in IBlocks(s, i)}
    \cup {n \in {<<"level1", 0, Level1(s, i)>>, <<"level2", 0, Level2(s, i)>>}
                \cup {<<"level2", 1 + n, Index(s, Level2(s, i))[n].inode>> :
                        n \in DOMAIN NoIndex} : n[3] # 0}

Owned(s, i) == {n[3] : n \in Named(s, i)}

Disjoint(s, tree) ==
  /\ \A p, q \in tree : ItemOf(s, p).inode = ItemOf(s, q).inode => p = q
  /\ \A p \in tree : ItemOf(s, p).inode # RootInode
  /\ \A i, j \in InodesOf(s, tree) : i # j => Owned(s, i) \cap Owned(s, j) = {}
  /\ \A i \in InodesOf(s, tree) : \A x, y \in Named(s, i) : x[3] = y[3] => x = y

\* The blocks of i have no gap.
Packed(s, i) == \A k \in IBlock \ IBlocks(s, i) : iblock_get(s, i, k) = 0

\* A directory has the blocks that its size says are full.
DirSized(s, i) ==
  /\ s.mem.inode[i].size >= 2
  /\ \A k \in IBlock :
       (k + 1) * MAX_DIRITEM_PER_BLOCK <= s.mem.inode[i].size => k \in IBlocks(s, i)

\* A file has the blocks that files_read asks for.
FileSized(s, i) ==
  s.mem.inode[i].size > 0 => 0..(s.mem.inode[i].size \div BYTES_SECTOR) \subseteq IBlocks(s, i)

\* A directory's blocks hold items and begin with itself and another, which
\* is its parent.
HoldsItems(s, i) ==
  /\ \A k \in IBlocks(s, i), j \in Slot :
       Items(s, i, k)[j].type \in {"invalid", "file", "dir"}
  /\ 0 \in IBlocks(s, i) /\ Items(s, i, 0)[0] = Entry("dir", i, ".")

HasParent(s, i, parent) == Items(s, i, 0)[1] = Entry("dir", parent, "..")

NamedOnce(s, i) ==
  \A p, q \in Valid(s, SeenItems(s, i)) : ItemOf(s, p).name = ItemOf(s, q).name => p = q

Consistent(s, tree) ==
  /\ InodesOf(s, tree) \subseteq s.mem.imap
  /\ Disjoint(s, tree)
  /\ UNION {Owned(s, i) : i \in InodesOf(s, tree)} \subseteq s.mem.bmap
  /\ \A i \in InodesOf(s, tree) : Packed(s, i)
  /\ \A i \in DirsOf(s, tree) : HoldsItems(s, i) /\ DirSized(s, i) /\ NamedOnce(s, i)
  /\ HasParent(s, RootInode, -1)
  /\ \A p \in tree : ItemOf(s, p).type = "dir" => HasParent(s, ItemOf(s, p).inode, p[1])
  /\ \A p \in tree : ItemOf(s, p).type = "file" => FileSized(s, ItemOf(s, p).inode)

\* A removal makes a directory shorter but leaves a hole, so that a later item
\* may go over one that stays, whose inode then stays in use without a name.
\* By as many inodes as directories are longer than what they hold.
Lost(s, tree) == s.mem.imap \ InodesOf(s, tree)

Excess(s, tree) ==
  UNION {{i} \X ((Cardinality(Valid(s, AllItems(s, i))) + 2)..(s.mem.inode[i].size - 1)) :
           i \in DirsOf(s, tree)}

Counted(s, tree) == Cardinality(Excess(s, tree)) <= Cardinality(Lost(s, tree))

FsConsistent(s) == Consistent(s, AllTree(s)) /\ Counted(s, AllTree(s))
-----------------------------------------------------------------------------
Init ==
  /\ on = FALSE
  /\ mem = NoMem
  /\ disk = [at \in Sector |->
       CASE at = Magic -> FALSE
         [] at = MapInodes \/ at[1] = "bmap" -> {}
         [] at[1] = "inode" -> NoInode
         [] at[1] = "block" -> EmptyBlock]
  /\ todo = <<>>
  /\ cuts = 0 /\ calls = 0
  /\ torn = "no"

\* A call ends in s: its writes are to be made.  After a panic nobody reads mem.
Becomes(s, why) ==
  /\ mem' = IF s.mem.halt = "no" THEN s.mem ELSE [NoMem EXCEPT !.halt = s.mem.halt]
  /\ todo' = s.todo
  /\ calls' = calls + 1
  /\ torn' = IF torn = "no" THEN why ELSE torn
  /\ UNCHANGED <<on, disk, cuts>>

\* setup_super_block, setup_inode and setup_free_map of a new disk; the root.
Formatted ==
  LET s1 == WriteSector([Now EXCEPT !.mem = NoMem], Magic, TRUE)
  IN  diritem_create(WriteMap(inode_map_update(s1), MAP_SECTORS), "dir", -1)

\* Of an old disk.
setup_inode(m) ==
  [m EXCEPT !.imap = disk[MapInodes],
            !.inode = [i \in Inode |-> IF i \in disk[MapInodes] THEN disk[InodeAt(i)]
                                       ELSE NoInode]]

DiskMap == UNION {disk[MapFree(n)] : n \in 0..(MAP_SECTORS - 1)}

setup_free_map(m) == [m EXCEPT !.bmap = DiskMap]

Mounted == setup_free_map(setup_inode(NoMem))

BootNew ==
  /\ ~on /\ ~disk[Magic]
  /\ on' = TRUE
  /\ mem' = Formatted.mem
  /\ todo' = Formatted.todo
  /\ UNCHANGED <<disk, cuts, calls, torn>>

BootOld ==
  /\ ~on /\ disk[Magic]
  /\ on' = TRUE
  /\ mem' = Mounted
  /\ torn' = CASE torn # "no" -> torn
               [] RootInode \notin Mounted.imap -> "root"
               [] ~FsConsistent([Now EXCEPT !.mem = Mounted]) -> "tree"
               [] OTHER -> "no"
  /\ UNCHANGED <<disk, todo, cuts, calls>>

DiskWrite ==
  /\ on /\ todo # <<>>
  /\ disk' = [disk EXCEPT ![Head(todo).at] = Head(todo).val]
  /\ todo' = Tail(todo)
  /\ UNCHANGED <<on, mem, cuts, calls, torn>>

PowerCut ==
  /\ on /\ cuts < MaxCuts
  /\ on' = FALSE
  /\ mem' = NoMem
  /\ todo' = <<>>
  /\ cuts' = cuts + 1
  /\ UNCHANGED <<disk, calls, torn>>
-----------------------------------------------------------------------------
Ready == on /\ todo = <<>> /\ mem.halt = "no" /\ calls < MaxCalls

\* A search of path, which may end in a panic.
Found(path) == diritem_find(Now, path)

Failed(found) == found.s.mem.halt # "no"

\* What a call suffers that uses what was found.
Mark(found) == IF found.file THEN "file" ELSE "no"

\* files_create.  An existing name is refused, which changes nothing.
CallCreate(type, dir, name) ==
  /\ Ready
  /\ LET self   == Found(Append(dir, name))
         parent == Found(dir)
     IN  \/ /\ Failed(self)
            /\ Becomes(self.s, Mark(self))
         \/ /\ ~Failed(self)
            /\ parent.item = Invalid
            /\ Becomes(Panic(Now, "no parent"), Mark(self))
         \/ /\ ~Failed(self)
            /\ self.item = Invalid
            /\ parent.item # Invalid
            /\ Becomes(files_create(Now, type, parent.item.inode, name), Mark(self))

\* files_remove.  A name that is not there is refused, and so is one below a
\* file: that changes nothing.  No one asks whether the name is one of Dots:
\* then the directory is removed with all below it, or its parent is.
CallRemove(dir, name) ==
  /\ Ready
  /\ LET self   == Found(Append(dir, name))
         parent == Found(dir)
     IN  \/ /\ Failed(parent)
            /\ Becomes(parent.s, Mark(parent))
         \/ /\ ~Failed(parent)
            /\ parent.item.type = "dir"
            /\ Failed(self)
            /\ Becomes(self.s, Mark(self))
         \/ /\ ~Failed(self)
            /\ parent.item.type = "dir"
            /\ self.item # Invalid
            /\ Becomes(diritem_remove(Now, parent.item.inode, self.item),
                       IF name \in Dots THEN "dots" ELSE Mark(self))

\* No file of the models is longer than an inode can name.
Fits(size) == size \div BYTES_SECTOR \in IBlock

\* files_open, files_write and files_close.  Only a file can be opened.
CallWrite(dir, name, size) ==
  /\ Ready /\ Fits(size)
  /\ LET self == Found(Append(dir, name))
     IN  \/ /\ Failed(self)
            /\ Becomes(self.s, Mark(self))
         \/ /\ ~Failed(self)
            /\ self.item.type = "file"
            /\ Becomes(files_write(Now, self.item.inode, size), Mark(self))
         \/ /\ ~Failed(self)
            /\ self.item.type \notin {"file", "invalid"}
            /\ Becomes(Panic(Now, "format"), Mark(self))

\* builtin_to_file, by which hoo puts a program on the disk that is not there.
CallLoad(name, size) ==
  /\ Ready /\ Fits(size)
  /\ LET self   == Found(Append(DIR_LOADER, name))
         parent == Found(DIR_LOADER)
         s1     == files_create(Now, "file", parent.item.inode, name)
         opened == IF s1.mem.halt = "no" THEN diritem_find(s1, Append(DIR_LOADER, name))
                   ELSE [self EXCEPT !.s = s1]
     IN  /\ ~Failed(self) /\ self.item = Invalid
         /\ parent.item.type = "dir"
         /\ Becomes(files_write(opened.s, FreeInode(Now), size),
                    IF self.file THEN "file" ELSE Mark(opened))

\* A call that only reads changes nothing, unless it ends in a panic.
Looks(s, why) == IF s.mem.halt = "no" THEN UNCHANGED vars ELSE Becomes(s, why)

CallList(dir) == Ready /\ Looks(files_list(Now, dir), Mark(Found(dir)))

\* files_open, files_read and files_close.
CallRead(dir, name) ==
  /\ Ready
  /\ LET self == Found(Append(dir, name))
     IN  IF ~Failed(self) /\ self.item.type = "file"
         THEN Looks(files_read(Now, self.item.inode), Mark(self))
         ELSE Looks(IF self.item = Invalid THEN self.s ELSE Panic(Now, "format"), Mark(self))

Call ==
  \/ \E dir \in Dirs, name \in PathName :
       \/ \E type \in {"file", "dir"} : CallCreate(type, dir, name)
       \/ CallRemove(dir, name) \/ CallRead(dir, name)
       \/ \E size \in Size : CallWrite(dir, name, size)
  \/ \E name \in Name, size \in Size : CallLoad(name, size)
  \/ \E dir \in Dirs : CallList(dir)

Next == BootNew \/ BootOld \/ DiskWrite \/ PowerCut \/ Call

Spec == Init /\ [][Next]_vars
-----------------------------------------------------------------------------
Halts == {"no", "full", "empty", "bug", "no parent", "index", "inode", "format"}

InodeType == [size : Nat, iblocks : [0..(MAX_INODE_BLOCKS - 1) -> {0} \cup Block]]
EntryType == {Invalid} \cup [type : {"file", "dir", "data"}, inode : Inode \cup {-1},
                             name : PathName \cup {""}]
BlockType == [Slot -> EntryType] \cup [DOMAIN NoIndex -> {Lba(b) : b \in {0} \cup Block}]

MemType == [imap : SUBSET Inode, bmap : SUBSET Block, inode : [Inode -> InodeType],
            iprev : Inode, bprev : 0..(BLOCKS - 1), halt : Halts]

Content(at) ==
  CASE at = Magic -> BOOLEAN
    [] at = MapInodes -> SUBSET Inode
    [] at[1] = "bmap" -> SUBSET MapBits(at[2])
    [] at[1] = "inode" -> InodeType
    [] at[1] = "block" -> BlockType

(***************************************************************************)
(* The type invariant: as long as the tree has suffered nothing, sizes,    *)
(* block numbers, next-fit positions and the contents of sectors are in    *)
(* range.                                                                  *)
(***************************************************************************)
FsTypeOK ==
  /\ on \in BOOLEAN /\ torn \in {"no", "root", "tree", "dots", "file"}
  /\ cuts \in 0..MaxCuts /\ calls \in 0..MaxCalls
  /\ torn = "no" =>
       /\ mem \in MemType
       /\ DOMAIN disk = Sector /\ \A at \in Sector : disk[at] \in Content(at)
       /\ \A n \in DOMAIN todo :
            todo[n].at \in Sector /\ todo[n].val \in Content(todo[n].at)

AtRest == on /\ todo = <<>> /\ mem.halt = "no"

(***************************************************************************)
(* No sequence of creates, writes and recursive removals gives a block or  *)
(* an inode to two items, or frees one that is named somewhere, whatever   *)
(* directories its paths go through, up and down.  What would is in torn:  *)
(* a boot from a disk that is not consistent, a path through a file, and a *)
(* removal of "." or "..".                                                 *)
(***************************************************************************)
TreeOwnsBlocks == AtRest /\ torn = "no" => FsConsistent(Now)

\* The blocks whose bits free_map_update writes.
Sent == UNION {MapBits(n) : n \in 0..(MAP_SENT - 1)}

(***************************************************************************)
(* At every moment, between any two sector writes of any call, the         *)
(* directories on the disk are whole: what they name is an inode marked    *)
(* used that nothing else names, no block is in two inodes, and those of   *)
(* the directories are marked used, if the device is sent their bits at    *)
(* all.  So a power cut may cost a file its blocks, but no directory that  *)
(* lies in the front of the disk.  Only what inodes name counts: an inode  *)
(* is on the disk before the index it names, which is an older one until   *)
(* then.                                                                   *)
(***************************************************************************)
OnDisk == [Now EXCEPT !.mem =
  [NoMem EXCEPT !.imap = disk[MapInodes], !.bmap = DiskMap,
                !.inode = [i \in Inode |-> disk[InodeAt(i)]]]]

InInode(s, i) == Range(s.mem.inode[i].iblocks) \ {0}

DirsSurvive ==
  RootInode \in disk[MapInodes] /\ torn = "no" =>
    LET tree   == SeenTree(OnDisk)
        inodes == InodesOf(OnDisk, tree)
    IN  /\ inodes \subseteq disk[MapInodes]
        /\ \A p, q \in tree : ItemOf(OnDisk, p).inode = ItemOf(OnDisk, q).inode => p = q
        /\ \A p \in tree : ItemOf(OnDisk, p).inode # RootInode
        /\ \A i, j \in inodes : i # j => InInode(OnDisk, i) \cap InInode(OnDisk, j) = {}
        /\ \A i \in DirsOf(OnDisk, tree) : InInode(OnDisk, i) \cap Sent \subseteq DiskMap

(***************************************************************************)
(* Between calls the disk has what memory has, save two things: the block  *)
(* that files_create gives to a new file is not marked used on the disk    *)
(* until a later call saves the map, and the blocks behind those whose     *)
(* bits are sent never are.                                                *)
(***************************************************************************)
Saved ==
  AtRest /\ torn = "no" =>
    /\ disk[MapInodes] = mem.imap
    /\ \A i \in mem.imap : disk[InodeAt(i)] = mem.inode[i]
    /\ DiskMap \cap Sent \subseteq mem.bmap
    /\ (mem.bmap \cap Sent) \ DiskMap \subseteq
         {mem.inode[i].iblocks[0] : i \in {j \in mem.imap : mem.inode[j].size = 0}}

(***************************************************************************)
(* Between calls each file that a search finds has the blocks that its     *)
(* size asks files_read for, and they hold what was last written to it.    *)
(***************************************************************************)
DataKept ==
  AtRest /\ torn = "no" =>
    \A p \in SeenTree(Now) :
      LET i == ItemOf(Now, p).inode
      IN  ItemOf(Now, p).type = "file" /\ mem.inode[i].size > 0 =>
            \A k \in 0..(mem.inode[i].size \div BYTES_SECTOR) :
              k \in IBlocks(Now, i) /\ Items(Now, i, k) = Data(i)

(***************************************************************************)
(* As long as the tree has suffered nothing, no call stumbles over a block *)
(* that the map calls free, over an item that is none, or over the last    *)
(* block that an inode can name.                                           *)
(***************************************************************************)
NoBadBlock == torn = "no" => mem.halt \notin {"empty", "bug", "index"}

Settled == [Now EXCEPT !.disk =
  FoldLeft(LAMBDA d, w : [d EXCEPT ![w.at] = w.val], disk, todo)]

NamesIn(dir) ==
  LET i == diritem_find(Settled, dir).item.inode
  IN  {ItemAt(Settled, i, index).name : index \in InSize(Settled, i)} \cap Name

(***************************************************************************)
(* dir.c:365 and files.c:97 say that a removal removes the one item it is  *)
(* given: the other names of the directory are found as before.            *)
(***************************************************************************)
RemovesOne ==
  [][\A dir \in Dirs, name \in Name :
       CallRemove(dir, name) /\ mem'.halt = "no"
         => NamesIn(dir)' = NamesIn(dir) \ {name}]_vars
=============================================================================
